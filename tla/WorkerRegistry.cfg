SPECIFICATION Spec
CONSTANTS
  Paths = {"p1"}
  Requests = {q1, q2}
  MaxWorkers = 2
  MaxTurns = 2
  MaxLosses = 1
SYMMETRY SymmetricRequests
INVARIANTS TypeOK NoOrphanWorktree ActiveIsDriven VerdictEarned
CHECK_DEADLOCK FALSE
