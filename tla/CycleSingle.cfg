SPECIFICATION Spec
CONSTANTS
  Loops = {l1}
  Modes = {"unbounded", "once"}
  MaxCycles = 1
  DriftReview = TRUE
  PlannerChoices = {"execute", "collect_context", "ask_human", "pause", "complete"}
  PlannerErrors = {}
  MaxCommands = 0
  HasWorkers = FALSE
  MaxTurns = 4
  MaxMessages = 1
  MaxStops = 0
  MaxCrashes = 1
  MaxFaults = 1
INVARIANTS TypeOK HeldDuringIntervention NoPendingWhileActing CheckpointsEarned ActiveTurnFirst
PROPERTIES CompletedIsFinal
CHECK_DEADLOCK FALSE
