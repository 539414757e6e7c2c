---------------------------- MODULE MCWorkerPlan ----------------------------
(* Small instances of WorkerPlan; slots and paths are interchangeable.     *)
EXTENDS WorkerPlan, TLC

Symmetry == Permutations(Lanes) \union Permutations(Paths)
=============================================================================
