SPECIFICATION Spec
CONSTANTS
  Executors = {e1}
  Operators = {o1}
  Items = {i1, i2}
  NoItem = none
  MaxTurns = 2
  MaxAsks = 2
  MaxFaults = 1
INVARIANTS TypeOK ResultEarned
PROPERTIES DecisionFitsItem EndReported
CHECK_DEADLOCK FALSE
