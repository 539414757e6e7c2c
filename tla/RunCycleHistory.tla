--------------------------- MODULE RunCycleHistory ---------------------------
(***************************************************************************)
(* RunCycle implements RunHistory: the rows of checkpoints, in the order   *)
(* of their sequence numbers, are the turns of the abstract history.       *)
(***************************************************************************)
EXTENDS RunCycle

RowAt(i) == CHOOSE c \in checkpoints : c.seq = i

Turn(c) == [by |-> c.stage, from |-> c.prev, response |-> c.resp]

Recorded == [i \in 1..run.seq |-> Turn(RowAt(i))]

History == INSTANCE RunHistory WITH turns <- Recorded, Responses <- 1..MaxTurns

\* The history of a run only grows, by turns that go on from the turn before,
\* whatever several loops, crashes and failing calls do to the store calls.
HistoryOnlyGrows == History!Spec
=============================================================================
