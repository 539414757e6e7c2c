-------------------------- MODULE MCWorkerRegistry --------------------------
(* Small instances of WorkerRegistry; requests are interchangeable.        *)
EXTENDS WorkerRegistry, TLC

SymmetricRequests == Permutations(Requests)
=============================================================================
