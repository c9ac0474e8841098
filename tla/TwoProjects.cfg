SPECIFICATION Spec
CONSTANTS
  MCProject = {1, 2}
  MCStage = {"text", "claims"}
  Project <- MCProject
  Imported <- MCProject
  Job <- MCJob
  Slot <- MCSlot
  SlotOf <- MCSlotOf
  ProjectOf <- MCProjectOf
  ProjectSlot <- MCProjectSlot
  Blockers <- MCBlockers
  Provider <- MCProvider
  Downstream <- MCDownstream
  Rank <- MCRank
  LlmSlot <- MCLlmSlot
  HostSlot <- MCHostSlot
  Budget <- MCBudget
  MaxAttempts = 1
  Result = {1}
  Outcome = {"succeeded"}
  MaxRuns = 4
  MaxOps = 1
  MaxCrashes = 0
  MaxWorld = 0
INVARIANTS
  FenceInvariant
  AbortInvariant
PROPERTIES
  NothingLandsOnRetired
  KeepsCurrentRuns
CHECK_DEADLOCK FALSE
