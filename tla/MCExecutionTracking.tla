------------------------ MODULE MCExecutionTracking ------------------------
(***************************************************************************)
(* Each tracked command of the CLI, and the migration with no, one, or     *)
(* three agreements to recalculate.                                        *)
(***************************************************************************)
EXTENDS ExecutionTracking

CONSTANTS A1, A2, A3, scope

MCJobs ==
  [command : {"run", "recalculate", "cleanup"}, targets : {{scope}}] \cup
  [command : {"migration"}, targets : {{}, {A1}, {A1, A2, A3}}]
============================================================================
