------------------------------ MODULE MCRunCycle ------------------------------
(* Model-checking instances of RunCycle: the loops are interchangeable, so    *)
(* the safety runs with two of them use symmetry.                             *)
EXTENDS RunCycleHistory, TLC

LoopSymmetry == Permutations(Loops)
=============================================================================
