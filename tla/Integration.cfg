SPECIFICATION Spec
CONSTANTS
  Workers = {w1, w2}
  Files = {x, y}
  Top <- TopLevel
  MaxEdits = 3
  MaxApplies = 2
  MaxFaults = 1
INVARIANTS TypeOK ApplyMerges
SYMMETRY Symmetry
CHECK_DEADLOCK FALSE
