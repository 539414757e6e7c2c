----------------------------- MODULE RunHistory -----------------------------
(***************************************************************************)
(* What the run store promises of one run: a history that only grows, turn *)
(* by turn.  A planner turn goes on from the response before it and brings *)
(* a new one; an executor turn belongs to the response before it.  No turn *)
(* is rewritten, dropped or recorded twice, whoever drives the run.        *)
(***************************************************************************)
EXTENDS Naturals, Sequences

CONSTANT Responses  \* the responses a planner can give

VARIABLE turns

Begin == [by |-> "bootstrap", from |-> 0, response |-> 0]

Init == turns = <<Begin>>

Latest == turns[Len(turns)].response

PlannerTurn ==
  \E response \in Responses :
    /\ \A i \in 1..Len(turns) : turns[i].response # response
    /\ turns' = Append(turns, [by |-> "planner", from |-> Latest,
                               response |-> response])

ExecutorTurn ==
  turns' = Append(turns, [by |-> "executor", from |-> Latest, response |-> Latest])

Next == PlannerTurn \/ ExecutorTurn

Spec == Init /\ [][Next]_turns
=============================================================================
