--------------------------- MODULE MCIntegration ---------------------------
(* Small instances of Integration: files below one directory, .git beside  *)
(* it, so that a shared directory and a shared file differ.  Workers and   *)
(* files are interchangeable: every order of selection is tried.           *)
EXTENDS Integration, TLC

TopLevel(f) == IF f = Git THEN Git ELSE "directory"

Symmetry == Permutations(Workers) \union Permutations(Files)
=============================================================================
