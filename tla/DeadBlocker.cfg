SPECIFICATION Spec
CONSTANTS
  MCProject = {1}
  MCStage = {"text", "claims"}
  Project <- MCProject
  Imported <- MCProject
  Job <- MCJob
  Slot <- MCSlot
  SlotOf <- MCSlotOf
  ProjectOf <- MCProjectOf
  ProjectSlot <- MCProjectSlot
  Blockers <- MCBlockers
  Provider <- MCProvider
  Downstream <- MCDownstream
  Rank <- MCRank
  LlmSlot <- MCLlmSlot
  HostSlot <- MCHostSlot
  Budget <- MCBudget
  MaxAttempts = 2
  Result = {1}
  Outcome = {"succeeded"}
  MaxRuns = 3
  MaxOps = 0
  MaxCrashes = 0
  MaxWorld = 0
INVARIANTS
  NoneWaitsOnTheDead
CHECK_DEADLOCK FALSE
