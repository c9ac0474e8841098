SPECIFICATION FairSpec
CONSTANTS
  MCProject = {1}
  MCStage = {"download", "text", "claims"}
  Project <- MCProject
  Imported <- MCProject
  Job <- MCJob
  Slot <- MCSlot
  SlotOf <- MCSlotOf
  ProjectOf <- MCProjectOf
  ProjectSlot <- MCProjectSlot
  Blockers <- MCBlockers
  Provider <- MCProvider
  Downstream <- MCDownstream
  Rank <- MCRank
  LlmSlot <- MCLlmSlot
  HostSlot <- MCHostSlot
  Budget <- MCBudget
  MaxAttempts = 2
  Result = {}
  Outcome = {"empty", "retryable"}
  MaxRuns = 7
  MaxOps = 0
  MaxCrashes = 1
  MaxWorld = 0
PROPERTIES
  StartFreesTheDoomed
  QueuedIsTakenUp
  RunningEnds
CHECK_DEADLOCK FALSE
