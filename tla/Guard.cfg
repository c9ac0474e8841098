CONSTANTS
  w1 = w1
  w2 = w2
  t1 = t1
  t2 = t2
  j1 = j1
  None = None
  Off = Off
  Window <- TwoWindows
  Task <- TwoTasks
  Job <- OneJob
SPECIFICATION Spec
CHECK_DEADLOCK FALSE
INVARIANTS
  TypeOK
  PromptIsAnswerable
  FinishingWaits
  QuitIsAnnounced
PROPERTIES
  OnlyOurPauseIsUndone
  NoUnaskedLoss
  GoesWhenTold
