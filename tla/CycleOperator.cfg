SPECIFICATION FairSpec
CONSTANTS
  Loops = {l1}
  Modes = {"unbounded", "limited"}
  MaxCycles = 1
  DriftReview = FALSE
  PlannerChoices = {"execute", "collect_context", "ask_human", "complete"}
  PlannerErrors = {"planner_validation_failed"}
  MaxTurns = 2
  MaxMessages = 1
  MaxCommands = 1
  HasWorkers = TRUE
  MaxStops = 1
  MaxCrashes = 0
  MaxFaults = 0
INVARIANTS PendingIsLatest ExecutorWorkRecorded ApprovalVisible
PROPERTIES StopReasonPersisted CycleEnds
CHECK_DEADLOCK FALSE
