SPECIFICATION Spec
CONSTANTS
  Loops = {l1, l2}
  Modes = {"unbounded"}
  MaxCycles = 1
  DriftReview = FALSE
  PlannerChoices = {"execute"}
  PlannerErrors = {}
  MaxCommands = 0
  HasWorkers = FALSE
  MaxTurns = 2
  MaxMessages = 2
  MaxStops = 0
  MaxCrashes = 1
  MaxFaults = 0
INVARIANTS CheckpointsLinear ResponseChain ConsumedAreAnswered ConsumedInOrder DispatchedOnce DispatchRecorded AnsweredBeforeAction
CHECK_DEADLOCK FALSE
SYMMETRY LoopSymmetry
PROPERTY HistoryOnlyGrows
