-------------------------- MODULE EstimatesUploader --------------------------
(***************************************************************************)
(* EstimatesUploader.update (services/estimates_uploader.py): a producer   *)
(* reads the next subscription's rows, a query for each month of the       *)
(* trailing window, waits for a slot of the semaphore and hands the        *)
(* estimate to a task of its TaskGroup, which checks its currencies, PUTs  *)
(* it and releases the slot.                                               *)
(*                                                                         *)
(* Uploaders are the commands that may run at the same time: the last      *)
(* stage but one of run and recalculate, and push-estimates.  A month's    *)
(* rows are known by how often they were rewritten.                        *)
(***************************************************************************)
EXTENDS Naturals, FiniteSets

CONSTANTS
  Uploaders,
  Subscriptions,
  Months,          \* the trailing window
  Targets,         \* uploader |-> the ids it is given
  Mixed,           \* uploader |-> those charged in more than one currency
  MaxConcurrency,
  MaxRewritten,    \* bound: how many months another command rewrites
  None             \* the producer holds no subscription

ASSUME UploaderAssumption ==
  /\ IsFiniteSet(Subscriptions)
  /\ MaxConcurrency \in Nat \ {0}
  /\ MaxRewritten \in Nat
  /\ Targets \in [Uploaders -> SUBSET Subscriptions]
  /\ Mixed \in [Uploaders -> SUBSET Subscriptions]
  /\ None \notin Subscriptions

VARIABLES
  stored,      \* subscription |-> month |-> the version of its rows
  platform,    \* subscription |-> the versions its estimate was computed from
  dryRun,
  phase,       \* of each uploader's producer
  source,      \* the ids its producer has still to be given
  held,        \* the id whose estimate it has, or is computing
  toRead,      \* the months of it not yet read
  estimate,    \* the versions each estimate was computed from
  free,        \* the value of the semaphore
  task,        \* subscription |-> the state of its task
  ok, failed,  \* the counts of the report
  stray        \* given up while the platform had not taken it: it still may

\* What the properties compare with; no action's guard reads them.
VARIABLES
  begun,       \* the rows as they were when the uploader began
  overlapped   \* another uploader's PUTs may have landed since

producer == <<phase, source, held, toRead, estimate>>
report   == <<ok, failed>>
ghosts   == <<begun, overlapped>>
vars     == <<stored, platform, dryRun, producer, free, task, report, stray, ghosts>>

Working  == {"fetching", "reading", "joining"}
Phases   == {"idle", "done", "raised"} \cup Working
InFlight == {"created", "putting", "landed"}
TaskStates == {"none", "ok", "failed", "cancelled"} \cup InFlight

Absent == [m \in Months |-> 0]

Init ==
  /\ stored = [s \in Subscriptions |-> [m \in Months |-> 1]]
  /\ platform = [s \in Subscriptions |-> Absent]
  /\ dryRun \in [Uploaders -> BOOLEAN]
  /\ phase = [u \in Uploaders |-> "idle"]
  /\ source = Targets
  /\ held = [u \in Uploaders |-> None]
  /\ toRead = [u \in Uploaders |-> {}]
  /\ estimate = [u \in Uploaders |-> [s \in Subscriptions |-> Absent]]
  /\ free = [u \in Uploaders |-> MaxConcurrency]
  /\ task = [u \in Uploaders |-> [s \in Subscriptions |-> "none"]]
  /\ ok = [u \in Uploaders |-> 0]
  /\ failed = [u \in Uploaders |-> 0]
  /\ stray = [u \in Uploaders |-> {}]
  /\ begun = [u \in Uploaders |-> stored]
  /\ overlapped = [u \in Uploaders |-> FALSE]

Goto(u, from, to) == phase[u] = from /\ phase' = [phase EXCEPT ![u] = to]

-----------------------------------------------------------------------------
(***************************************************************************)
(* The producer, and the loop that hands its estimates over.               *)
(***************************************************************************)
Begin(u) ==
  /\ Goto(u, "idle", "fetching")
  /\ begun' = [begun EXCEPT ![u] = stored]
  /\ overlapped' = [v \in Uploaders |->
       IF v = u THEN \E w \in Uploaders \ {u} : phase[w] \in Working
                ELSE overlapped[v] \/ phase[v] \in Working]
  /\ UNCHANGED <<stored, platform, dryRun, source, held, toRead, estimate,
                 free, task, report, stray>>

NextId(u) ==
  \E s \in source[u] :
    /\ Goto(u, "fetching", "reading")
    /\ source' = [source EXCEPT ![u] = @ \ {s}]
    /\ held' = [held EXCEPT ![u] = s]
    /\ toRead' = [toRead EXCEPT ![u] = Months]
    /\ UNCHANGED <<stored, platform, dryRun, estimate, free, task, report,
                   stray, ghosts>>

\* The reads of one estimate are gathered: they come in any order.
ReadMonth(u) ==
  \E m \in toRead[u] :
    /\ phase[u] = "reading"
    /\ toRead' = [toRead EXCEPT ![u] = @ \ {m}]
    /\ estimate' = [estimate EXCEPT ![u][held[u]][m] = stored[held[u]][m]]
    /\ UNCHANGED <<stored, platform, dryRun, phase, source, held, free, task,
                   report, stray, ghosts>>

WithoutASlot(u) == TRUE
Acquire(u) == free[u] > 0

CreateTask(u) ==
  /\ toRead[u] = {}
  /\ Acquire(u)
  /\ Goto(u, "reading", "fetching")
  /\ free' = [free EXCEPT ![u] = @ - 1]
  /\ task' = [task EXCEPT ![u][held[u]] = "created"]
  /\ held' = [held EXCEPT ![u] = None]
  /\ UNCHANGED <<stored, platform, dryRun, source, toRead, estimate, report,
                 stray, ghosts>>

Exhausted(u) ==
  /\ source[u] = {}
  /\ Goto(u, "fetching", "joining")
  /\ UNCHANGED <<stored, platform, dryRun, source, held, toRead, estimate,
                 free, task, report, stray, ghosts>>

\* The TaskGroup is left when its last task is finished.
NotWaiting(u) == TRUE
Finished(u) == \A s \in Subscriptions : task[u][s] \notin InFlight

Join(u) ==
  /\ Finished(u)
  /\ Goto(u, "joining", "done")
  /\ UNCHANGED <<stored, platform, dryRun, source, held, toRead, estimate,
                 free, task, report, stray, ghosts>>

\* The source or a read raises, and the TaskGroup cancels its tasks and waits
\* for them; or the process is killed.
Abandon(u) ==
  /\ phase[u] \in Working
  /\ phase' = [phase EXCEPT ![u] = "raised"]
  /\ task' = [task EXCEPT ![u] = [s \in Subscriptions |->
       IF @[s] \in InFlight THEN "cancelled" ELSE @[s]]]
  /\ stray' = [stray EXCEPT ![u] =
       @ \cup {s \in Subscriptions : task[u][s] = "putting"}]
  /\ UNCHANGED <<stored, platform, dryRun, source, held, toRead, estimate,
                 free, report, ghosts>>

-----------------------------------------------------------------------------
(***************************************************************************)
(* A task: PriceEstimateConsumer.consume, which never raises, and _record. *)
(***************************************************************************)
Settle(u, s, outcome) == task' = [task EXCEPT ![u][s] = outcome]

ReleaseOnSuccess(u, s) ==
  free' = [free EXCEPT ![u] = IF task'[u][s] = "ok" THEN @ + 1 ELSE @]
Release(u, s) == free' = [free EXCEPT ![u] = @ + 1]

CountOk(u) == ok' = [ok EXCEPT ![u] = @ + 1] /\ UNCHANGED failed
CountFailed(u) == failed' = [failed EXCEPT ![u] = @ + 1] /\ UNCHANGED ok

\* The currency guard.
Unguarded(u, s) == FALSE
Refused(u, s) == s \in Mixed[u]

Refuse(u, s) ==
  /\ task[u][s] = "created"
  /\ Refused(u, s)
  /\ Settle(u, s, "failed")
  /\ CountFailed(u)
  /\ Release(u, s)
  /\ UNCHANGED <<stored, platform, dryRun, producer, stray, ghosts>>

SkipPut(u, s) ==
  /\ task[u][s] = "created"
  /\ ~Refused(u, s)
  /\ dryRun[u]
  /\ Settle(u, s, "ok")
  /\ CountOk(u)
  /\ Release(u, s)
  /\ UNCHANGED <<stored, platform, dryRun, producer, stray, ghosts>>

SendPut(u, s) ==
  /\ task[u][s] = "created"
  /\ ~Refused(u, s)
  /\ ~dryRun[u]
  /\ Settle(u, s, "putting")
  /\ UNCHANGED <<stored, platform, dryRun, producer, free, report, stray, ghosts>>

PutLands(u, s) ==
  /\ task[u][s] = "putting"
  /\ Settle(u, s, "landed")
  /\ platform' = [platform EXCEPT ![s] = estimate[u][s]]
  /\ UNCHANGED <<stored, dryRun, producer, free, report, stray, ghosts>>

\* An upload counts as done once the platform has said so.
OnceSent(u, s) == task[u][s] \in {"putting", "landed"}
OnceLanded(u, s) == task[u][s] = "landed"

PutAnswered(u, s) ==
  /\ OnceLanded(u, s)
  /\ Settle(u, s, "ok")
  /\ CountOk(u)
  /\ Release(u, s)
  /\ UNCHANGED <<stored, platform, dryRun, producer, stray, ghosts>>

\* A rejection, or an error on the way there or back.
PutFails(u, s) ==
  /\ task[u][s] \in {"putting", "landed"}
  /\ Settle(u, s, "failed")
  /\ CountFailed(u)
  /\ Release(u, s)
  /\ stray' = [stray EXCEPT ![u] = IF task[u][s] = "putting" THEN @ \cup {s} ELSE @]
  /\ UNCHANGED <<stored, platform, dryRun, producer, ghosts>>

-----------------------------------------------------------------------------
\* A request its sender gave up reaches the platform all the same.
StrayLands ==
  \E u \in Uploaders : \E s \in stray[u] :
    /\ platform' = [platform EXCEPT ![s] = estimate[u][s]]
    /\ stray' = [stray EXCEPT ![u] = @ \ {s}]
    /\ overlapped' = [v \in Uploaders |-> v # u \/ overlapped[v]]
    /\ UNCHANGED <<stored, dryRun, producer, free, task, report, begun>>

\* Another command writes the rows of a month.
Rewrite ==
  \E s \in Subscriptions, m \in Months :
    /\ stored[s][m] = 1
    /\ Cardinality({x \in Subscriptions \X Months : stored[x[1]][x[2]] > 1})
         < MaxRewritten
    /\ stored' = [stored EXCEPT ![s][m] = 2]
    /\ UNCHANGED <<platform, dryRun, producer, free, task, report, stray, ghosts>>

-----------------------------------------------------------------------------
Produce(u) ==
  Begin(u) \/ NextId(u) \/ ReadMonth(u) \/ CreateTask(u) \/ Exhausted(u) \/ Join(u)

Upload(u, s) ==
  \/ Refuse(u, s) \/ SkipPut(u, s)
  \/ SendPut(u, s) \/ PutLands(u, s) \/ PutAnswered(u, s) \/ PutFails(u, s)

Next ==
  \/ \E u \in Uploaders :
       Produce(u) \/ Abandon(u) \/ \E s \in Subscriptions : Upload(u, s)
  \/ StrayLands
  \/ Rewrite

Spec == Init /\ [][Next]_vars

\* The event loop runs whatever is ready, and a PUT is answered or times out.
FairSpec ==
  /\ Spec
  /\ \A u \in Uploaders :
       /\ WF_vars(Produce(u))
       /\ \A s \in Subscriptions : WF_vars(Upload(u, s))

-----------------------------------------------------------------------------
TypeOK ==
  /\ stored \in [Subscriptions -> [Months -> {1, 2}]]
  /\ platform \in [Subscriptions -> [Months -> 0..2]]
  /\ dryRun \in [Uploaders -> BOOLEAN]
  /\ phase \in [Uploaders -> Phases]
  /\ source \in [Uploaders -> SUBSET Subscriptions]
  /\ held \in [Uploaders -> Subscriptions \cup {None}]
  /\ toRead \in [Uploaders -> SUBSET Months]
  /\ estimate \in [Uploaders -> [Subscriptions -> [Months -> 0..2]]]
  /\ free \in [Uploaders -> 0..MaxConcurrency]
  /\ task \in [Uploaders -> [Subscriptions -> TaskStates]]
  /\ ok \in [Uploaders -> Nat]
  /\ failed \in [Uploaders -> Nat]
  /\ stray \in [Uploaders -> SUBSET Subscriptions]
  /\ begun \in [Uploaders -> [Subscriptions -> [Months -> {1, 2}]]]
  /\ overlapped \in [Uploaders -> BOOLEAN]

Tasks(u, states) == {s \in Subscriptions : task[u][s] \in states}

(***************************************************************************)
(* While the loop runs, the slots that are not free are those of the tasks *)
(* in flight: none leaks, on any outcome, and none is released twice.      *)
(***************************************************************************)
SlotsAccountedFor ==
  \A u \in Uploaders : phase[u] # "raised" =>
    free[u] + Cardinality(Tasks(u, InFlight)) = MaxConcurrency

(***************************************************************************)
(* The report that update returns has one outcome for each id it was       *)
(* given, whatever happened to the uploads of the others, and a failure    *)
(* for each that was refused.                                              *)
(***************************************************************************)
ReportIsComplete ==
  \A u \in Uploaders : phase[u] = "done" =>
    /\ ok[u] + failed[u] = Cardinality(Targets[u])
    /\ failed[u] >= Cardinality(Targets[u] \cap Mixed[u])

(***************************************************************************)
(* A subscription that every uploader would refuse, or only goes through   *)
(* in a dry run, keeps the estimate the platform had.                      *)
(***************************************************************************)
RefusedIsNotShown ==
  \A s \in Subscriptions :
    (\A u \in Uploaders : dryRun[u] \/ s \in Mixed[u]) => platform[s] = Absent

(***************************************************************************)
(* An update that reports no failure leaves the platform with an estimate, *)
(* for each of its ids, of rows no older in any month than those stored    *)
(* when it began, provided no other uploader's PUT landed meanwhile.       *)
(***************************************************************************)
UploadIsFresh ==
  \A u \in Uploaders :
    /\ phase[u] = "done"
    /\ failed[u] = 0
    /\ ~dryRun[u]
    /\ ~overlapped[u]
    => \A s \in Targets[u], m \in Months : platform[s][m] >= begun[u][s][m]

(***************************************************************************)
(* An uploader that has begun comes to an end, however many ids it has for *)
(* its slots and however many of its uploads fail.                         *)
(***************************************************************************)
EveryUploaderEnds ==
  \A u \in Uploaders : phase[u] \in Working ~> phase[u] \in {"done", "raised"}
=============================================================================
