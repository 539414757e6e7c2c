---------------------------- MODULE MCControlRuns ----------------------------
(***************************************************************************)
(* Small instances of ControlRuns: one backend serves two requests at once *)
(* while another serves one; or one backend alone.                         *)
(***************************************************************************)
EXTENDS ControlRuns

TwoBackends == {<<"b1", "q1">>, <<"b1", "q2">>, <<"b2", "q1">>}

OneBackend == {<<"b1", "q1">>, <<"b1", "q2">>}
=============================================================================
