-------------------------- MODULE ExecutionTracking --------------------------
(***************************************************************************)
(* What remains of an execution for the people who look after it: its      *)
(* command_execution row (ExecutionTracker, services/execution_tracker.py),*)
(* its Teams card and the exit code (UsageReportingPipeline._tracked,      *)
(* pipeline.py).                                                           *)
(*                                                                         *)
(* A process executes one command of the CLI, or the migration that        *)
(* recalculates split-currency agreements one at a time, each as an        *)
(* execution of its own.  What the command does in between is a body that  *)
(* returns or raises, with or without the handle's has_errors flag.        *)
(***************************************************************************)
EXTENDS Naturals, Sequences

CONSTANTS
  Processes,
  Targets,     \* what an execution is of: an agreement, or a command's scope
  Jobs,        \* what a process may be started for
  None         \* no execution yet

ASSUME TrackingAssumption ==
  /\ Jobs \subseteq [command : {"run", "recalculate", "cleanup", "migration"},
                     targets : SUBSET Targets]
  /\ None \notin Targets

VARIABLES
  job,        \* what each process was started for
  phase,      \* of each process
  queue,      \* the targets it has still to execute
  at,         \* the target of the execution it is in
  flag,       \* that execution's has_errors
  raised,     \* an Exception is on its way out of it
  rows,       \* process |-> target |-> the status of its row
  cards,      \* process |-> target |-> the cards sent
  failedIds,  \* the targets whose execution failed
  listing,    \* how the migration's listing ended
  exit        \* of each process

\* What the properties compare with; no action's guard reads them.
VARIABLES
  found,      \* the targets the process came to know of
  body,       \* process |-> target |-> how its body ended
  unwritten   \* process |-> the targets whose row could not be written

handle == <<at, flag, raised>>
traces == <<rows, cards>>
ghosts == <<found, body, unwritten>>
vars   == <<job, phase, queue, handle, traces, failedIds, listing, exit, ghosts>>

Statuses == {"success", "completed_with_errors", "failed"}
Phases   == {"listing", "between", "connecting", "starting", "working",
             "finishing", "closing", "reporting", "ended"}

Migrates(p) == job[p].command = "migration"
Notifies(p) == job[p].command # "cleanup"

Init ==
  /\ job \in [Processes -> Jobs]
  /\ phase = [p \in Processes |-> IF Migrates(p) THEN "listing" ELSE "between"]
  /\ queue = [p \in Processes |-> IF Migrates(p) THEN {} ELSE job[p].targets]
  /\ at = [p \in Processes |-> None]
  /\ flag = [p \in Processes |-> FALSE]
  /\ raised = [p \in Processes |-> FALSE]
  /\ rows = [p \in Processes |-> [t \in Targets |-> "none"]]
  /\ cards = [p \in Processes |-> [t \in Targets |-> <<>>]]
  /\ failedIds = [p \in Processes |-> {}]
  /\ listing = [p \in Processes |-> "complete"]
  /\ exit = [p \in Processes |-> "none"]
  /\ found = queue
  /\ body = [p \in Processes |-> [t \in Targets |-> "none"]]
  /\ unwritten = [p \in Processes |-> {}]

Go(p, from, to) ==
  /\ phase[p] = from
  /\ phase' = [phase EXCEPT ![p] = to]

Exit(p, code) == exit' = [exit EXCEPT ![p] = code]

-----------------------------------------------------------------------------
(* The migration's listing, read to its end before the first execution. *)

ListAgreement(p) ==
  \E t \in job[p].targets \ found[p] :
    /\ phase[p] = "listing"
    /\ queue' = [queue EXCEPT ![p] = @ \cup {t}]
    /\ found' = [found EXCEPT ![p] = @ \cup {t}]
    /\ UNCHANGED <<job, phase, handle, traces, failedIds, listing, exit, body, unwritten>>

ListingEnds(p) ==
  /\ Go(p, "listing", "between")
  /\ found[p] = job[p].targets
  /\ UNCHANGED <<job, queue, handle, traces, failedIds, listing, exit, ghosts>>

\* An upstream error: those already returned are still recalculated.
FoundSoFar(p) == queue[p]

ListingFails(p) ==
  /\ Go(p, "listing", "between")
  /\ queue' = [queue EXCEPT ![p] = FoundSoFar(p)]
  /\ listing' = [listing EXCEPT ![p] = "failed"]
  /\ UNCHANGED <<job, handle, traces, failedIds, exit, ghosts>>

\* Any other error is caught nowhere, and none of those returned is tried.
ListingEscapes(p) ==
  /\ Go(p, "listing", "ended")
  /\ listing' = [listing EXCEPT ![p] = "escaped"]
  /\ Exit(p, "nonzero")
  /\ UNCHANGED <<job, queue, handle, traces, failedIds, ghosts>>

-----------------------------------------------------------------------------
(* One execution. *)

Execute(p) ==
  \E t \in queue[p] :
    /\ Go(p, "between", "connecting")
    /\ queue' = [queue EXCEPT ![p] = @ \ {t}]
    /\ at' = [at EXCEPT ![p] = t]
    /\ flag' = [flag EXCEPT ![p] = FALSE]
    /\ raised' = [raised EXCEPT ![p] = FALSE]
    /\ UNCHANGED <<job, traces, failedIds, listing, exit, ghosts>>

EveryRow(p, status) == rows' = [rows EXCEPT ![p] = [t \in Targets |-> status]]
Row(p, status) == rows' = [rows EXCEPT ![p][at[p]] = status]
Unwritten(p)   == unwritten' = [unwritten EXCEPT ![p] = @ \cup {at[p]}]
Raise(p)       == raised' = [raised EXCEPT ![p] = TRUE]

Connect(p) ==
  /\ Go(p, "connecting", "starting")
  /\ UNCHANGED <<job, queue, handle, traces, failedIds, listing, exit, ghosts>>

ConnectFails(p) ==
  /\ Go(p, "connecting", "reporting")
  /\ Raise(p)
  /\ Unwritten(p)
  /\ UNCHANGED <<job, queue, at, flag, traces, failedIds, listing, exit, found, body>>

StartRow(p) ==
  /\ Go(p, "starting", "working")
  /\ Row(p, "running")
  /\ UNCHANGED <<job, queue, handle, cards, failedIds, listing, exit, ghosts>>

\* The insert raises; the row may be there all the same, its answer lost.
StartRowFails(p) ==
  /\ Go(p, "starting", "closing")
  /\ Row(p, "running") \/ UNCHANGED rows
  /\ Raise(p)
  /\ Unwritten(p)
  /\ UNCHANGED <<job, queue, at, flag, cards, failedIds, listing, exit, found, body>>

\* Agreements left out, or estimates that failed.
SetHasErrors(p) ==
  /\ phase[p] = "working"
  /\ job[p].command # "cleanup"
  /\ flag' = [flag EXCEPT ![p] = TRUE]
  /\ UNCHANGED <<job, phase, queue, at, raised, traces, failedIds, listing, exit, ghosts>>

BodyReturns(p) ==
  /\ Go(p, "working", "finishing")
  /\ body' = [body EXCEPT ![p][at[p]] = IF flag[p] THEN "flagged" ELSE "returned"]
  /\ UNCHANGED <<job, queue, handle, traces, failedIds, listing, exit, found, unwritten>>

\* _run sets the flag last; a recalculate may, and raise afterwards.
BodyRaises(p) ==
  /\ Go(p, "working", "finishing")
  /\ job[p].command = "run" => ~flag[p]
  /\ Raise(p)
  /\ body' = [body EXCEPT ![p][at[p]] = "raised"]
  /\ UNCHANGED <<job, queue, at, flag, traces, failedIds, listing, exit, found, unwritten>>

FlagFirst(p) ==
  IF flag[p] THEN "completed_with_errors" ELSE IF raised[p] THEN "failed" ELSE "success"
FinalStatus(p) ==
  IF raised[p] THEN "failed" ELSE IF flag[p] THEN "completed_with_errors" ELSE "success"

FinishRow(p) ==
  /\ Go(p, "finishing", "closing")
  /\ Row(p, FinalStatus(p))
  /\ UNCHANGED <<job, queue, handle, cards, failedIds, listing, exit, ghosts>>

\* The update raises, whether it took effect or not, in place of what the
\* body raised, or after it returned.
FinishRowFails(p) ==
  /\ Go(p, "finishing", "closing")
  /\ Row(p, FinalStatus(p)) \/ UNCHANGED rows
  /\ Raise(p)
  /\ Unwritten(p)
  /\ UNCHANGED <<job, queue, at, flag, cards, failedIds, listing, exit, found, body>>

Close(p) ==
  /\ Go(p, "closing", "reporting")
  /\ UNCHANGED <<job, queue, handle, traces, failedIds, listing, exit, ghosts>>

RaisedOnly(p) == raised[p]
Failed(p) == raised[p] \/ flag[p]

GoodNews(p) == IF raised[p] THEN "failure" ELSE "success"
Card(p) == IF raised[p] \/ flag[p] THEN "failure" ELSE "success"

GivingUp(p) == IF Failed(p) THEN {} ELSE queue[p]
StillQueued(p) == queue[p]

\* The card of run and recalculate; a send that fails is only logged.  The
\* exception, or typer.Exit, then ends a command and is caught by the migration.
Report(p) ==
  /\ Go(p, "reporting", "between")
  /\ cards' = IF Notifies(p) THEN [cards EXCEPT ![p][at[p]] = Append(@, Card(p))] ELSE cards
  /\ failedIds' = IF Failed(p) THEN [failedIds EXCEPT ![p] = @ \cup {at[p]}] ELSE failedIds
  /\ queue' = [queue EXCEPT ![p] = StillQueued(p)]
  /\ UNCHANGED <<job, handle, rows, listing, exit, ghosts>>

-----------------------------------------------------------------------------
Finish(p) ==
  /\ Go(p, "between", "ended")
  /\ queue[p] = {}
  /\ Exit(p, IF failedIds[p] = {} /\ listing[p] = "complete" THEN "zero" ELSE "nonzero")
  /\ UNCHANGED <<job, queue, handle, traces, failedIds, listing, ghosts>>

\* KeyboardInterrupt, CancelledError or a kill: through both brackets.
Interrupted(p) ==
  /\ phase[p] # "ended"
  /\ phase' = [phase EXCEPT ![p] = "ended"]
  /\ Exit(p, "interrupted")
  /\ UNCHANGED <<job, queue, handle, traces, failedIds, listing, ghosts>>

Execution(p) ==
  \/ Execute(p) \/ Connect(p) \/ ConnectFails(p) \/ StartRow(p) \/ StartRowFails(p)
  \/ SetHasErrors(p) \/ BodyReturns(p) \/ BodyRaises(p)
  \/ FinishRow(p) \/ FinishRowFails(p) \/ Close(p) \/ Report(p)

Next ==
  \E p \in Processes :
    \/ ListAgreement(p) \/ ListingEnds(p) \/ ListingFails(p) \/ ListingEscapes(p)
    \/ Execution(p) \/ Finish(p) \/ Interrupted(p)

Spec == Init /\ [][Next]_vars

-----------------------------------------------------------------------------
TypeOK ==
  /\ job \in [Processes -> Jobs]
  /\ phase \in [Processes -> Phases]
  /\ queue \in [Processes -> SUBSET Targets]
  /\ at \in [Processes -> Targets \cup {None}]
  /\ flag \in [Processes -> BOOLEAN]
  /\ raised \in [Processes -> BOOLEAN]
  /\ rows \in [Processes -> [Targets -> {"none", "running"} \cup Statuses]]
  /\ cards \in [Processes -> [Targets -> Seq({"success", "failure"})]]
  /\ failedIds \in [Processes -> SUBSET Targets]
  /\ listing \in [Processes -> {"complete", "failed", "escaped"}]
  /\ exit \in [Processes -> {"none", "zero", "nonzero", "interrupted"}]
  /\ found \in [Processes -> SUBSET Targets]
  /\ body \in [Processes -> [Targets -> {"none", "returned", "flagged", "raised"}]]
  /\ unwritten \in [Processes -> SUBSET Targets]

\* It ended neither by an interruption nor by a listing error nobody catches.
CameToItsEnd(p) == exit[p] \in {"zero", "nonzero"} /\ listing[p] # "escaped"

(***************************************************************************)
(* A row tells how its body ended: success only if it returned with no     *)
(* errors flagged, failed only if an exception escaped it, flagged or not. *)
(* A process that came to its end leaves a row running, or none, only if   *)
(* the database refused the write.                                         *)
(***************************************************************************)
RowsTellTheBody ==
  \A p \in Processes, t \in Targets :
    /\ rows[p][t] = "success" => body[p][t] = "returned"
    /\ rows[p][t] = "completed_with_errors" => body[p][t] = "flagged"
    /\ rows[p][t] = "failed" => body[p][t] = "raised"
    /\ CameToItsEnd(p) /\ t \in found[p] /\ rows[p][t] \notin Statuses
         => t \in unwritten[p]

(***************************************************************************)
(* "Every tracked execution that completes or raises an Exception produces *)
(* exactly one card", cleanup and interrupted executions none; a success   *)
(* card only with a row that says success, and a failure card with one     *)
(* that does not, unless the row could not be written.                     *)
(***************************************************************************)
CardsMatchRows ==
  \A p \in Processes, t \in Targets :
    /\ Len(cards[p][t]) <= IF Notifies(p) THEN 1 ELSE 0
    /\ CameToItsEnd(p) /\ Notifies(p) /\ t \in found[p]
         => Len(cards[p][t]) = 1
    /\ cards[p][t] = <<"success">> => rows[p][t] = "success"
    /\ cards[p][t] = <<"failure">> /\ rows[p][t] \notin {"failed", "completed_with_errors"}
         => t \in unwritten[p]

(***************************************************************************)
(* A process exits with zero only if it knew of all there was to do, and   *)
(* every execution's row says success; otherwise it failed to list,        *)
(* or some execution raised or was flagged.                                *)
(***************************************************************************)
ExitTellsTheRows ==
  \A p \in Processes :
    /\ exit[p] = "zero" => \A t \in job[p].targets : rows[p][t] = "success"
    /\ exit[p] = "nonzero" =>
         \/ listing[p] # "complete"
         \/ \E t \in found[p] : body[p][t] \in {"flagged", "raised"} \/ t \in unwritten[p]

(***************************************************************************)
(* The migration tries every agreement it was told of before it ends, also *)
(* those after one that failed and those listed before the platform failed *)
(* the listing, and names those that failed.  An error in the listing that *)
(* is not the platform's leaves every one of them untried.                 *)
(***************************************************************************)
EveryAgreementTried ==
  \A p \in Processes :
    /\ CameToItsEnd(p) =>
         /\ \A t \in found[p] : body[p][t] # "none" \/ t \in unwritten[p]
         /\ failedIds[p] = {t \in found[p] : body[p][t] \in {"flagged", "raised"}
                                             \/ t \in unwritten[p]}
    /\ listing[p] = "escaped" =>
         \A t \in found[p] : rows[p][t] = "none" /\ cards[p][t] = <<>>

(***************************************************************************)
(* A row's final status is written once, and nobody writes another's row.  *)
(***************************************************************************)
RowsSettleOnce ==
  [][\A p \in Processes, t \in Targets :
       rows'[p][t] # rows[p][t] => /\ rows[p][t] \notin Statuses
                                   /\ t = at[p]
                                   /\ phase[p] \in {"starting", "finishing"}]_vars
=============================================================================
