------------------------ MODULE MCEstimatesUploader ------------------------
(***************************************************************************)
(* A small instance of EstimatesUploader.                                  *)
(***************************************************************************)
EXTENDS EstimatesUploader, TLC

CONSTANTS u1, u2, s1, s2

\* u1 has been told the currencies of its charges; u2 pushes what is stored.
MCTargets == u1 :> {s1, s2} @@ u2 :> {s1}
MCMixed   == u1 :> {s2} @@ u2 :> {}
=============================================================================
