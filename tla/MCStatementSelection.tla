------------------------ MODULE MCStatementSelection ------------------------
(***************************************************************************)
(* Two runners over three days, and one statement: what a run takes of one *)
(* does not depend on another.                                             *)
(***************************************************************************)
EXTENDS StatementSelection, TLC

Symmetric == Permutations(Runners)
=============================================================================
