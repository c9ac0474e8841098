SPECIFICATION Spec
CONSTANTS
  MCProject = {1}
  MCStage = {"text", "claims"}
  Project <- MCProject
  Imported <- MCProject
  Job <- MCJob
  Slot <- MCSlot
  SlotOf <- MCSlotOf
  ProjectOf <- MCProjectOf
  ProjectSlot <- MCProjectSlot
  Blockers <- MCBlockers
  Provider <- MCProvider
  Downstream <- MCDownstream
  Rank <- MCRank
  LlmSlot <- MCLlmSlot
  HostSlot <- MCHostSlot
  Budget <- MCBudget
  MaxAttempts = 1
  Result = {1}
  Outcome = {"succeeded"}
  MaxRuns = 2
  MaxOps = 4
  MaxCrashes = 0
  MaxWorld = 0
PROPERTIES
  RerunAlwaysSchedules
CHECK_DEADLOCK FALSE
