SPECIFICATION Spec
CONSTANTS
  MCProject = {1}
  MCStage = {"text", "claims"}
  Project <- MCProject
  Imported <- MCProject
  Job <- MCJob
  Slot <- MCSlot
  SlotOf <- MCSlotOf
  ProjectOf <- MCProjectOf
  ProjectSlot <- MCProjectSlot
  Blockers <- MCBlockers
  Provider <- MCProvider
  Downstream <- MCDownstream
  Rank <- MCRank
  LlmSlot <- MCLlmSlot
  HostSlot <- MCHostSlot
  Budget <- MCBudget
  MaxAttempts = 1
  Result = {1}
  Outcome = {"succeeded", "empty", "refused", "fatal", "retryable"}
  MaxRuns = 3
  MaxOps = 1
  MaxCrashes = 1
  MaxWorld = 1
INVARIANTS
  TypeOK
  BackingInvariant
  OutputGoesWithItsRun
  NoZombieJob
CHECK_DEADLOCK FALSE
