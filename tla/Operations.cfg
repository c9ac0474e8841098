SPECIFICATION Spec
CONSTANTS
  MCProject = {1}
  MCStage = {"download", "text", "claims"}
  Project <- MCProject
  Imported <- MCProject
  Job <- MCJob
  Slot <- MCSlot
  SlotOf <- MCSlotOf
  ProjectOf <- MCProjectOf
  ProjectSlot <- MCProjectSlot
  Blockers <- MCBlockers
  Provider <- MCProvider
  Downstream <- MCDownstream
  Rank <- MCRank
  LlmSlot <- MCLlmSlot
  HostSlot <- MCHostSlot
  Budget <- MCBudget
  MaxAttempts = 1
  Result = {1}
  Outcome = {"succeeded", "refused"}
  MaxRuns = 4
  MaxOps = 2
  MaxCrashes = 0
  MaxWorld = 0
INVARIANTS
  DoneIsBacked
  OwnerCanBeAborted
PROPERTIES
  CancelSticks
  DestroyedIsScheduled
  DerivedGoesAlong
CHECK_DEADLOCK FALSE
