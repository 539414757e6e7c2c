SPECIFICATION PlanSpec
CONSTANTS
  Paths = {p1, p2}
  Requests = {cycle, l1, l2, q1}
  Cycle = cycle
  Lanes = {l1, l2}
  MaxWorkers = 2
  MaxTurns = 2
  MaxLosses = 1
  MaxCycles = 2
  MaxActions = 2
  MaxDisturbances = 1
INVARIANTS PlanTypeOK PlanSettles
PROPERTY PlanHonest
SYMMETRY Symmetry
CHECK_DEADLOCK FALSE
