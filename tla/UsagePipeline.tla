---------------------------- MODULE UsagePipeline ----------------------------
(***************************************************************************)
(* The commands of the CLI over the two accumulation tables: `run`,        *)
(* `recalculate`, `delete` and `cleanup` (pipeline.py, bucket_delete.py,   *)
(* charge_persistence.py, accumulation_cleanup.py).                        *)
(*                                                                         *)
(* The database is in autocommit mode and nothing locks the tables, so a   *)
(* step of a command is one SQL statement, or one computation that touches *)
(* no table; commands may overlap, and any of them may raise or be killed  *)
(* between two steps, which leaves what it already wrote.                  *)
(***************************************************************************)
EXTENDS Billing

CONSTANTS
  Commands,     \* the processes, each of which executes one command
  Jobs,         \* what a command may be asked to do
  MaxStored,    \* bound: how often a charge may be counted in the first state
  None          \* no bucket and no agreement is being worked on

JobType ==
  [command       : {"run", "recalculate", "delete", "cleanup"},
   kind          : {"all", "subscription", "agreements"},  \* of its selector
   subscriptions : SUBSET Subscriptions,  \* of a subscription selector
   agreements    : SUBSET Agreements,     \* that any other selector resolves to
   window        : SUBSET Statements,     \* dated in the command's window
   base          : SUBSET Statements,     \* of its products (and seller)
   cutoff        : Nat,                   \* first month kept by its clean-up
   dryRun        : BOOLEAN]

ASSUME JobsAssumption ==
  /\ Jobs \subseteq JobType
  /\ MaxStored \in Nat
  /\ None \notin Agreements \cup Keys
  /\ \A j \in Jobs :
       /\ j.cutoff > NoMonth
       /\ j.kind = "all" <=> j.command \in {"run", "cleanup"}
       /\ j.kind # "agreements" => j.agreements = {}
       /\ \/ j.kind # "subscription" /\ j.subscriptions = {}
          \/ /\ j.kind = "subscription"
             /\ \E s \in Subscriptions : j.subscriptions = {s}
       /\ j.dryRun => j.command = "recalculate"

VARIABLES
  subRows,      \* charge |-> how often its subscription row counts it
  agrRows,      \* charge |-> how often its agreement row counts it
  job,          \* what each command is asked to do
  pc,           \* the phase each command is in
  plan,         \* the ResetScope of a recalculate; a delete's open cursor
  todo,         \* what the phase still has to work through
  at,           \* the bucket or agreement in the middle of being worked on
  kept,         \* the charges accumulated and not filtered away
  failed,       \* the agreements left out of a recalculate
  hasErrors,    \* the execution handle's flag
  pushed        \* the subscriptions whose estimate was PUT

\* What the properties compare with; no action's guard reads them.
VARIABLES
  before,       \* both tables as they were when the command began
  disturbed     \* another command may have written since it began

tables   == <<subRows, agrRows>>
progress == <<plan, at, kept, failed, hasErrors, pushed>>
ghosts   == <<before, disturbed>>
vars     == <<tables, job, pc, todo, progress, ghosts>>

Working == {"planning", "accumulating", "deletingSubscriptions",
            "deletingAgreements", "persisting", "persistingAgreement",
            "estimating", "pruningSubscriptions", "pruningAgreements",
            "deleting", "deletingStored"}
Ended  == {"done", "stopped"}
Phases == {"idle"} \cup Working \cup Ended

NoPlan == [subscriptions |-> {}, statementAgreements |-> {}, agreements |-> {}]
PlanType == [subscriptions       : SUBSET Subscriptions,
             statementAgreements : SUBSET Agreements,
             agreements          : SUBSET Agreements]

-----------------------------------------------------------------------------
(***************************************************************************)
(* The repositories.  A row exists while it counts a charge.               *)
(***************************************************************************)
Replace(rows, cs) == [c \in Charges |-> IF c \in cs THEN rows[c] - 1 ELSE rows[c]]
Add(rows, cs)  == [c \in Charges |-> IF c \in cs THEN rows[c] + 1 ELSE rows[c]]
Drop(rows, cs) == [c \in Charges |-> IF c \in cs THEN 0 ELSE rows[c]]

OfSubscription(s) == {c \in Charges : SubscriptionOf[c] = s}
OfAgreement(a)    == {c \in Charges : AgreementOf(c) = a}
OfBucket(k)       == {c \in Charges : Key(c) = k}

Expired(cutoff) == {c \in Charges : MonthOf[c] < cutoff}

EveryStoredSubscription(agreements) ==
  {SubscriptionOf[c] : c \in {d \in Charges : subRows[d] > 0}}
StoredSubscriptions(agreements) ==
  {SubscriptionOf[c] : c \in {d \in Charges : /\ subRows[d] > 0
                                              /\ AgreementOf(d) \in agreements}}

StoredAgreements(subscriptions) ==
  {AgreementOf(c) : c \in {d \in Charges : /\ subRows[d] > 0
                                           /\ SubscriptionOf[d] \in subscriptions}}

-----------------------------------------------------------------------------
Init ==
  /\ subRows \in [Charges -> 0..MaxStored]
  /\ agrRows \in [Charges -> 0..MaxStored]
  /\ \A c \in Charges : ~Storable(c) => subRows[c] = 0 /\ agrRows[c] = 0
  /\ job \in [Commands -> Jobs]
  /\ pc = [p \in Commands |-> "idle"]
  /\ plan = [p \in Commands |-> NoPlan]
  /\ todo = [p \in Commands |-> {}]
  /\ at = [p \in Commands |-> None]
  /\ kept = [p \in Commands |-> {}]
  /\ failed = [p \in Commands |-> {}]
  /\ hasErrors = [p \in Commands |-> FALSE]
  /\ pushed = [p \in Commands |-> {}]
  /\ before = [p \in Commands |-> [sub |-> subRows, agr |-> agrRows]]
  /\ disturbed = [p \in Commands |-> FALSE]

Goto(p, from, to) == pc[p] = from /\ pc' = [pc EXCEPT ![p] = to]
Stay(p, phase)    == pc[p] = phase /\ UNCHANGED pc

\* p removes one item from what its phase has to work through.
Peek(p, item) == item \in todo[p] /\ UNCHANGED todo
Take(p, item) == item \in todo[p] /\ todo' = [todo EXCEPT ![p] = @ \ {item}]

\* p has written to the tables: every other command knows it was not alone.
Disturb(p) ==
  /\ disturbed' = [q \in Commands |-> q # p \/ disturbed[q]]
  /\ UNCHANGED before

-----------------------------------------------------------------------------
\* The command opens the database and its execution row.
FirstPhase(j) ==
  CASE j.command = "run"         -> "accumulating"
    [] j.command = "recalculate" -> "planning"
    [] j.command = "delete"      -> "deleting"
    [] j.command = "cleanup"     -> "pruningSubscriptions"

Begin(p) ==
  /\ Goto(p, "idle", FirstPhase(job[p]))
  /\ todo' = [todo EXCEPT ![p] = job[p].agreements]
  /\ before' = [before EXCEPT ![p] = [sub |-> subRows, agr |-> agrRows]]
  /\ disturbed' = [disturbed EXCEPT ![p] = FALSE]
  /\ UNCHANGED <<tables, job, progress>>

-----------------------------------------------------------------------------
(***************************************************************************)
(* recalculate: plan_reset, reading only.                                  *)
(***************************************************************************)
\* The deleter that resolves a scope is a dry-run one.
ResolvingDeletes(p, a) ==
  /\ agrRows' = Drop(agrRows, OfAgreement(a))
  /\ Disturb(p)
  /\ UNCHANGED subRows
Resolving(p, a) == UNCHANGED <<tables, ghosts>>

PlanAgreement(p) ==
  \E a \in Agreements :
    /\ Stay(p, "planning")
    /\ Take(p, a)
    /\ plan' = [plan EXCEPT ![p].subscriptions = @ \cup StoredSubscriptions({a})]
    /\ Resolving(p, a)
    /\ UNCHANGED <<job, at, kept, failed, hasErrors, pushed>>

PlanScope(p) ==
  /\ todo[p] = {}
  /\ Goto(p, "planning", "accumulating")
  /\ plan' = [plan EXCEPT ![p] =
       IF job[p].kind = "subscription"
       THEN [subscriptions       |-> job[p].subscriptions,
             statementAgreements |-> StoredAgreements(job[p].subscriptions),
             agreements          |-> {}]
       ELSE [subscriptions       |-> @.subscriptions,
             statementAgreements |-> job[p].agreements,
             agreements          |-> job[p].agreements]]
  /\ UNCHANGED <<tables, job, todo, at, kept, failed, hasErrors, pushed, ghosts>>

-----------------------------------------------------------------------------
(***************************************************************************)
(* Accumulation.  Nothing it reads is written by another command, so one   *)
(* step stands for the whole selection and streaming.                      *)
(***************************************************************************)
Selection(p) ==
  SelectedStatements(job[p].window, job[p].base, plan[p].statementAgreements)

\* Only a subscription selector narrows the charge stream.
ChargeFilter(p) == IF job[p].kind = "subscription" THEN plan[p].subscriptions ELSE {}

\* The daily run fails whole: it goes on only when every charge can be summed.
UnguardedRun(p) == TRUE
RunIsSummable(p) == UnsummableAgreements(Selection(p), {}) = {}

AccumulateRun(p) ==
  /\ job[p].command = "run"
  /\ RunIsSummable(p)
  /\ Goto(p, "accumulating", "persisting")
  /\ kept' = [kept EXCEPT ![p] = ChargesOf(Selection(p), {})]
  /\ todo' = [todo EXCEPT ![p] = {Key(c) : c \in {d \in kept'[p] : Storable(d)}}]
  /\ UNCHANGED <<tables, job, plan, at, failed, hasErrors, pushed, ghosts>>

\* A charge that cannot be summed: ChargePriceError, not isolated.
RunRaises(p) ==
  /\ job[p].command = "run"
  /\ ~RunIsSummable(p)
  /\ Goto(p, "accumulating", "stopped")
  /\ UNCHANGED <<tables, job, todo, progress, ghosts>>

\* _without_agreements
KeepingTheirSubscriptions(planned, agreements) ==
  [planned EXCEPT !.statementAgreements = @ \ agreements,
                  !.agreements = @ \ agreements]
WithoutAgreements(planned, agreements) ==
  [subscriptions       |-> planned.subscriptions \ StoredSubscriptions(agreements),
   statementAgreements |-> planned.statementAgreements \ agreements,
   agreements          |-> planned.agreements \ agreements]

\* _filter_to_reset
FilteredBySubscription(cs, planned) ==
  {c \in cs : SubscriptionOf[c] \in planned.subscriptions}
FilterToReset(cs, planned) ==
  {c \in cs : \/ SubscriptionOf[c] \in planned.subscriptions
              \/ AgreementOf(c) \in planned.statementAgreements}

DeletingToo(p) == "deletingSubscriptions"
AfterAccumulating(p) ==
  IF job[p].dryRun THEN "estimating" ELSE "deletingSubscriptions"

AccumulateScope(p) ==
  LET out     == UnsummableAgreements(Selection(p), ChargeFilter(p))
      planned == IF out = {} THEN plan[p] ELSE WithoutAgreements(plan[p], out)
  IN /\ job[p].command = "recalculate"
     /\ Goto(p, "accumulating", AfterAccumulating(p))
     /\ failed' = [failed EXCEPT ![p] = out]
     /\ hasErrors' = [hasErrors EXCEPT ![p] = out # {}]
     /\ plan' = [plan EXCEPT ![p] = planned]
     /\ kept' = [kept EXCEPT ![p] =
          FilterToReset(Accumulated(Selection(p), ChargeFilter(p)), planned)]
     /\ todo' = [todo EXCEPT ![p] = planned.subscriptions]
     /\ UNCHANGED <<tables, job, at, pushed, ghosts>>

-----------------------------------------------------------------------------
(***************************************************************************)
(* recalculate: delete_planned, one statement per id.                      *)
(***************************************************************************)
DeletePlannedSubscription(p) ==
  \E s \in Subscriptions :
    /\ Stay(p, "deletingSubscriptions")
    /\ Take(p, s)
    /\ subRows' = Drop(subRows, OfSubscription(s))
    /\ Disturb(p)
    /\ UNCHANGED <<agrRows, job, progress>>

SubscriptionsDeleted(p) ==
  /\ todo[p] = {}
  /\ Goto(p, "deletingSubscriptions", "deletingAgreements")
  /\ todo' = [todo EXCEPT ![p] = plan[p].agreements]
  /\ UNCHANGED <<tables, job, progress, ghosts>>

DeletePlannedAgreement(p) ==
  \E a \in Agreements :
    /\ Stay(p, "deletingAgreements")
    /\ Take(p, a)
    /\ agrRows' = Drop(agrRows, OfAgreement(a))
    /\ Disturb(p)
    /\ UNCHANGED <<subRows, job, progress>>

AgreementsDeleted(p) ==
  /\ todo[p] = {}
  /\ Goto(p, "deletingAgreements", "persisting")
  /\ todo' = [todo EXCEPT ![p] = {Key(c) : c \in {d \in kept[p] : Storable(d)}}]
  /\ UNCHANGED <<tables, job, progress, ghosts>>

-----------------------------------------------------------------------------
(***************************************************************************)
(* run, recalculate: persist, one subscription row and then, where the     *)
(* command writes it, its agreement row.                                   *)
(***************************************************************************)
AgreementAccumulation(p, k) ==
  {c \in kept[p] : AgreementOf(c) = KeyAgreement(k)}
Accumulation(p, k) == kept[p] \cap OfBucket(k)

EveryAgreement(p, k) == TRUE
WritesAgreement(p, k) ==
  job[p].command = "run" \/ KeyAgreement(k) \in plan[p].agreements

PersistSubscription(p) ==
  \E k \in Keys :
    /\ pc[p] = "persisting"
    /\ Take(p, k)
    /\ subRows' = Add(subRows, Accumulation(p, k))
    /\ at' = [at EXCEPT ![p] = IF WritesAgreement(p, k) THEN k ELSE None]
    /\ pc' = [pc EXCEPT ![p] =
         IF WritesAgreement(p, k) THEN "persistingAgreement" ELSE "persisting"]
    /\ Disturb(p)
    /\ UNCHANGED <<agrRows, job, plan, kept, failed, hasErrors, pushed>>

PersistAgreement(p) ==
  /\ Goto(p, "persistingAgreement", "persisting")
  /\ agrRows' = Add(agrRows, Accumulation(p, at[p]))
  /\ at' = [at EXCEPT ![p] = None]
  /\ Disturb(p)
  /\ UNCHANGED <<subRows, job, todo, plan, kept, failed, hasErrors, pushed>>

Persisted(p) ==
  /\ todo[p] = {}
  /\ Goto(p, "persisting", "estimating")
  /\ UNCHANGED <<tables, job, todo, progress, ghosts>>

-----------------------------------------------------------------------------
(***************************************************************************)
(* update_estimates, the tables' part of which is EstimatesUploader's: an  *)
(* upload that fails is an outcome and never stops the others.             *)
(***************************************************************************)
WhollyDated(p) ==
  {SubscriptionOf[c] : c \in kept[p]}
    \ ({SubscriptionOf[c] : c \in {d \in kept[p] : ~Storable(d)}} \cup Synthetic)
Updatable(p) ==
  {SubscriptionOf[c] : c \in {d \in kept[p] : Storable(d)}} \ Synthetic

UpdateEstimates(p) ==
  \E failures \in SUBSET Updatable(p) :
    /\ Goto(p, "estimating", IF job[p].dryRun THEN "done" ELSE "pruningSubscriptions")
    /\ pushed' = [pushed EXCEPT ![p] =
         IF job[p].dryRun THEN {} ELSE Updatable(p) \ failures]
    /\ hasErrors' = [hasErrors EXCEPT ![p] = @ \/ failures # {}]
    /\ todo' = [todo EXCEPT ![p] = {}]
    /\ UNCHANGED <<tables, job, plan, at, kept, failed, ghosts>>

-----------------------------------------------------------------------------
(***************************************************************************)
(* cleanup, on its own or as the last stage of run and recalculate.        *)
(***************************************************************************)
PruneSubscriptions(p) ==
  /\ Goto(p, "pruningSubscriptions", "pruningAgreements")
  /\ subRows' = Drop(subRows, Expired(job[p].cutoff))
  /\ Disturb(p)
  /\ UNCHANGED <<agrRows, job, todo, progress>>

PruneAgreements(p) ==
  /\ Goto(p, "pruningAgreements", "done")
  /\ agrRows' = Drop(agrRows, Expired(job[p].cutoff))
  /\ Disturb(p)
  /\ UNCHANGED <<subRows, job, todo, progress>>

-----------------------------------------------------------------------------
(***************************************************************************)
(* delete: the subscription's rows, or agreement by agreement the rows of  *)
(* each subscription stored under it and then its own.                     *)
(***************************************************************************)
DeleteSubscriptionScope(p) ==
  /\ job[p].kind = "subscription"
  /\ Goto(p, "deleting", "done")
  /\ subRows' = Drop(subRows, UNION {OfSubscription(s) : s \in job[p].subscriptions})
  /\ Disturb(p)
  /\ UNCHANGED <<agrRows, job, todo, progress>>

OpenAgreement(p) ==
  \E a \in Agreements :
    /\ Goto(p, "deleting", "deletingStored")
    /\ Take(p, a)
    /\ at' = [at EXCEPT ![p] = a]
    /\ plan' = [plan EXCEPT ![p].subscriptions = StoredSubscriptions({a})]
    /\ UNCHANGED <<tables, job, kept, failed, hasErrors, pushed, ghosts>>

DeleteStoredSubscription(p) ==
  \E s \in plan[p].subscriptions :
    /\ Stay(p, "deletingStored")
    /\ subRows' = Drop(subRows, OfSubscription(s))
    /\ plan' = [plan EXCEPT ![p].subscriptions = @ \ {s}]
    /\ Disturb(p)
    /\ UNCHANGED <<agrRows, job, todo, at, kept, failed, hasErrors, pushed>>

DeleteOpenAgreement(p) ==
  /\ plan[p].subscriptions = {}
  /\ Goto(p, "deletingStored", "deleting")
  /\ agrRows' = Drop(agrRows, OfAgreement(at[p]))
  /\ at' = [at EXCEPT ![p] = None]
  /\ Disturb(p)
  /\ UNCHANGED <<subRows, job, todo, plan, kept, failed, hasErrors, pushed>>

Deleted(p) ==
  /\ job[p].kind = "agreements"
  /\ todo[p] = {}
  /\ Goto(p, "deleting", "done")
  /\ UNCHANGED <<tables, job, todo, progress, ghosts>>

-----------------------------------------------------------------------------
\* An exception leaves the command, or its process is killed.
Stop(p) ==
  /\ pc[p] \in Working
  /\ pc' = [pc EXCEPT ![p] = "stopped"]
  /\ UNCHANGED <<tables, job, todo, progress, ghosts>>

Work(p) ==
  \/ Begin(p)
  \/ PlanAgreement(p) \/ PlanScope(p)
  \/ AccumulateRun(p) \/ RunRaises(p) \/ AccumulateScope(p)
  \/ DeletePlannedSubscription(p) \/ SubscriptionsDeleted(p)
  \/ DeletePlannedAgreement(p) \/ AgreementsDeleted(p)
  \/ PersistSubscription(p) \/ PersistAgreement(p) \/ Persisted(p)
  \/ UpdateEstimates(p)
  \/ PruneSubscriptions(p) \/ PruneAgreements(p)
  \/ DeleteSubscriptionScope(p)
  \/ OpenAgreement(p) \/ DeleteStoredSubscription(p)
  \/ DeleteOpenAgreement(p) \/ Deleted(p)

Next == \E p \in Commands : Work(p) \/ Stop(p)

Spec == Init /\ [][Next]_vars

\* A command is a process that keeps running.  That it may raise or be killed is
\* no reason for it to end: Stop is not part of what fairness promises.
FairSpec == Spec /\ \A p \in Commands : WF_vars(Work(p))
=============================================================================
