SPECIFICATION Spec
CONSTANTS
  Workers = {w1, w2}
  Files = {x, y}
  Top <- TopLevel
  MaxEdits = 1
  MaxApplies = 0
  MaxFaults = 0
INVARIANT CandidatesTruthful
SYMMETRY Symmetry
CHECK_DEADLOCK FALSE
