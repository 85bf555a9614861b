------------------------ MODULE UsageExactnessProofs ------------------------
(***************************************************************************)
(* Theorems about what exactly the commands of UsagePipeline leave in the  *)
(* tables, for every set of commands, jobs, charges and statements.        *)
(***************************************************************************)
EXTENDS UsagePipelineProofs

-----------------------------------------------------------------------------
\* A command's step leaves what another one has in hand alone; and either it has
\* not touched the tables, or the other one is no longer alone.
LEMMA OthersLeave ==
  ASSUME TypeOK, NEW p \in Commands, NEW q \in Commands, q # p, Work(q) \/ Stop(q)
  PROVE  /\ job' = job
         /\ pc'[p] = pc[p] /\ plan'[p] = plan[p] /\ todo'[p] = todo[p]
         /\ at'[p] = at[p] /\ kept'[p] = kept[p] /\ failed'[p] = failed[p]
         /\ before'[p] = before[p]
         /\ disturbed'[p] \/ (UNCHANGED tables /\ disturbed'[p] = disturbed[p])
<1>1. CASE Begin(q) \/ Stop(q)
  BY <1>1 DEF Begin, Stop, Goto, TypeOK, tables, progress, ghosts
<1>2. CASE PlanAgreement(q) \/ PlanScope(q)
  BY <1>2 DEF PlanAgreement, PlanScope, Goto, Stay, Take, Resolving, TypeOK, tables, ghosts
<1>3. CASE AccumulateRun(q) \/ RunRaises(q)
  BY <1>3 DEF AccumulateRun, RunRaises, Goto, TypeOK, tables, progress, ghosts
<1>4. CASE AccumulateScope(q)
  BY <1>4 DEF AccumulateScope, Goto, TypeOK, tables, ghosts
<1>5. CASE \/ DeletePlannedSubscription(q) \/ DeletePlannedAgreement(q)
           \/ PruneSubscriptions(q) \/ PruneAgreements(q)
           \/ DeleteSubscriptionScope(q) \/ DeleteOpenAgreement(q)
  BY <1>5 DEF DeletePlannedSubscription, DeletePlannedAgreement, PruneSubscriptions,
              PruneAgreements, DeleteSubscriptionScope, DeleteOpenAgreement,
              Goto, Stay, Take, Disturb, TypeOK, progress
<1>6. CASE \/ SubscriptionsDeleted(q) \/ AgreementsDeleted(q)
           \/ Persisted(q) \/ Deleted(q)
  BY <1>6 DEF SubscriptionsDeleted, AgreementsDeleted, Persisted, Deleted,
              Goto, TypeOK, tables, progress, ghosts
<1>7. CASE PersistSubscription(q) \/ PersistAgreement(q)
  BY <1>7 DEF PersistSubscription, PersistAgreement, Goto, Take, Disturb, TypeOK
<1>8. CASE UpdateEstimates(q)
  BY <1>8 DEF UpdateEstimates, Goto, TypeOK, tables, ghosts
<1>9. CASE OpenAgreement(q) \/ DeleteStoredSubscription(q)
  BY <1>9 DEF OpenAgreement, DeleteStoredSubscription, Goto, Stay, Take, Disturb,
              TypeOK, tables, ghosts
<1> QED
  BY <1>1, <1>2, <1>3, <1>4, <1>5, <1>6, <1>7, <1>8, <1>9 DEF Work

\* What a command is asked to do does not change.
LEMMA JobStays == ASSUME NEW p \in Commands, Work(p) \/ Stop(p) PROVE job' = job
BY DEF Work, Stop, Begin, PlanAgreement, PlanScope, AccumulateRun, RunRaises, AccumulateScope,
       DeletePlannedSubscription, SubscriptionsDeleted, DeletePlannedAgreement,
       AgreementsDeleted, PersistSubscription, PersistAgreement, Persisted, UpdateEstimates,
       PruneSubscriptions, PruneAgreements, DeleteSubscriptionScope, OpenAgreement,
       DeleteStoredSubscription, DeleteOpenAgreement, Deleted

\* A charge whose rows the clean-up of a command keeps has a month.
LEMMA RetainedIsStorable ==
  ASSUME TypeOK, NEW p \in Commands, NEW c \in Charges, Retained(p, c)
  PROVE  Storable(c) /\ c \notin Expired(job[p].cutoff)
<1>1. job[p] \in Jobs /\ job[p].cutoff \in Nat /\ job[p].cutoff > NoMonth
  BY JobFields, JobsAssumption DEF TypeOK, JobsAssumption
<1>2. MonthOf[c] \in Nat
  BY BillingAssumption DEF BillingAssumption
<1> QED
  BY <1>1, <1>2 DEF Retained, Storable, Expired, NoMonth

-----------------------------------------------------------------------------
(***************************************************************************)
(* A daily run.  Of each charge it collects the tables hold, beyond what   *)
(* the run found, nothing while its bucket is still to be persisted; then  *)
(* one in the subscription row, and with the agreement row one in both.    *)
(***************************************************************************)
Persisting == {"persisting", "persistingAgreement"}
Complete   == {"estimating", "pruningSubscriptions", "pruningAgreements", "done"}

Pending(p, c)  == pc[p] = "accumulating" \/ (pc[p] \in Persisting /\ Key(c) \in todo[p])
HalfDone(p, c) == pc[p] = "persistingAgreement" /\ Key(c) = at[p]

SubAdded(p, c) == IF Pending(p, c) THEN 0 ELSE Once(Collected(job[p], c))
AgrAdded(p, c) ==
  IF Pending(p, c) \/ HalfDone(p, c) THEN 0 ELSE Once(Collected(job[p], c))

\* Where a run was stopped, it had added this, that or neither.
AddedSome(p, c) ==
  \E s \in 0..Once(Collected(job[p], c)) : \E a \in 0..s :
    subRows[c] = before[p].sub[c] + s /\ agrRows[c] = before[p].agr[c] + a
AddedSoFar(p, c) ==
  /\ subRows[c] = before[p].sub[c] + SubAdded(p, c)
  /\ agrRows[c] = before[p].agr[c] + AgrAdded(p, c)

RunOK(p) == job[p].command = "run" =>
  /\ pc[p] \in {"idle", "accumulating", "stopped"} \cup Persisting \cup Complete
  /\ pc[p] \in Persisting => kept[p] = {c \in Charges : Collected(job[p], c)}
  /\ pc[p] = "persistingAgreement" => at[p] \notin todo[p]
  /\ Alone(p) => \A c \in Charges : Retained(p, c) =>
       IF pc[p] = "stopped" THEN AddedSome(p, c) ELSE AddedSoFar(p, c)

\* What was added so far is some of what the run is to add.
LEMMA SoFarIsSome ==
  ASSUME NEW p \in Commands, NEW c \in Charges, AddedSoFar(p, c)
  PROVE  AddedSome(p, c)
<1>1. SubAdded(p, c) \in 0..Once(Collected(job[p], c)) /\ AgrAdded(p, c) \in 0..SubAdded(p, c)
  BY DEF SubAdded, AgrAdded, Once
<1> QED
  BY <1>1 DEF AddedSoFar, AddedSome

\* What RunOK says of a run depends on what that run has in hand and on the tables.
LEMMA RunKeptByOthers ==
  ASSUME TypeOK, NEW p \in Commands, RunOK(p), NEW q \in Commands, q # p,
         Work(q) \/ Stop(q)
  PROVE  RunOK(p)'
<1>1. /\ job' = job /\ before'[p] = before[p]
      /\ pc'[p] = pc[p] /\ todo'[p] = todo[p] /\ at'[p] = at[p] /\ kept'[p] = kept[p]
      /\ disturbed'[p] \/ (UNCHANGED tables /\ disturbed'[p] = disturbed[p])
  BY OthersLeave
<1>2. \A c \in Charges : /\ Collected(job[p], c)' <=> Collected(job[p], c)
                         /\ Retained(p, c)' <=> Retained(p, c)
                         /\ SubAdded(p, c)' = SubAdded(p, c)
                         /\ AgrAdded(p, c)' = AgrAdded(p, c)
  BY <1>1 DEF Collected, Retained, SubAdded, AgrAdded, Pending, HalfDone
<1>3. CASE disturbed'[p]
  BY <1>1, <1>2, <1>3 DEF RunOK, Alone
<1>4. CASE UNCHANGED tables /\ disturbed'[p] = disturbed[p]
  <2>1. Alone(p)' <=> Alone(p)
    BY <1>1, <1>4 DEF Alone
  <2>2. \A c \in Charges : /\ AddedSome(p, c)' <=> AddedSome(p, c)
                           /\ AddedSoFar(p, c)' <=> AddedSoFar(p, c)
    BY <1>1, <1>2, <1>4 DEF AddedSome, AddedSoFar, tables
  <2> QED
    BY <1>1, <1>2, <2>1, <2>2 DEF RunOK
<1> QED
  BY <1>1, <1>3, <1>4

\* The selection of a run is what it collects.
LEMMA RunCollects ==
  ASSUME NEW p \in Commands, plan[p].statementAgreements = {}
  PROVE  ChargesOf(Selection(p), {}) = {c \in Charges : Collected(job[p], c)}
BY DEF ChargesOf, Selection, SelectedStatements, Passes, Collected

\* A run's own step leaves what it is asked and what it found alone.
LEMMA RunKeepsItself ==
  ASSUME TypeOK, QuietInv, NEW p \in Commands, job[p].command = "run", RunOK(p),
         Work(p) \/ Stop(p)
  PROVE  RunOK(p)'
<1> DEFINE Want == {c \in Charges : Collected(job[p], c)}
<1>0. job[p] \in Jobs /\ plan[p].statementAgreements = {} /\ ~job[p].dryRun
  BY JobsAssumption DEF QuietInv, ReadingInv, TypeOK, JobsAssumption
<1>1. \A c \in Charges : subRows[c] \in Nat /\ agrRows[c] \in Nat
  BY DEF TypeOK
<1>2. pc[p] \in {"idle", "accumulating", "stopped"} \cup Persisting \cup Complete
  BY DEF RunOK
<1>3. ASSUME job' = job PROVE
        \A c \in Charges : /\ Collected(job[p], c)' <=> Collected(job[p], c)
                           /\ Retained(p, c)' <=> Retained(p, c)
  BY <1>3 DEF Collected, Retained
<1>4. CASE Begin(p)
  <2>1. pc'[p] = "accumulating" /\ job' = job
    BY <1>4 DEF Begin, Goto, FirstPhase, TypeOK
  <2>2. before'[p] = [sub |-> subRows, agr |-> agrRows] /\ UNCHANGED tables
    BY <1>4 DEF Begin, TypeOK
  <2>3. \A c \in Charges : SubAdded(p, c)' = 0 /\ AgrAdded(p, c)' = 0
    BY <2>1 DEF SubAdded, AgrAdded, Pending
  <2> QED
    BY <1>1, <2>1, <2>2, <2>3 DEF RunOK, AddedSoFar, tables, Persisting
<1>5. CASE AccumulateRun(p)
  <2>1. /\ pc[p] = "accumulating" /\ pc'[p] = "persisting" /\ kept'[p] = Want
        /\ UNCHANGED <<tables, job, ghosts>>
    BY <1>0, <1>5, RunCollects DEF AccumulateRun, Goto, TypeOK
  <2>2. todo'[p] = {Key(c) : c \in {d \in Want : Storable(d)}}
    BY <1>5, <2>1 DEF AccumulateRun, TypeOK
  <2>3. ASSUME NEW c \in Charges, Retained(p, c) PROVE SubAdded(p, c)' = 0 /\ AgrAdded(p, c)' = 0
    <3>1. Storable(c)
      BY <2>3, RetainedIsStorable
    <3> QED
      BY <1>3, <2>1, <2>2, <3>1 DEF SubAdded, AgrAdded, Pending, Persisting, Once
  <2>4. \A c \in Charges : SubAdded(p, c) = 0 /\ AgrAdded(p, c) = 0
    BY <2>1 DEF SubAdded, AgrAdded, Pending
  <2> QED
    BY <1>3, <2>1, <2>3, <2>4 DEF RunOK, Alone, AddedSoFar, tables, ghosts, Persisting
<1>6. CASE RunRaises(p) \/ Stop(p)
  <2>1. pc'[p] = "stopped" /\ pc[p] \notin {"idle", "stopped"} /\ UNCHANGED <<tables, job, ghosts>>
    BY <1>6 DEF RunRaises, Stop, Goto, TypeOK, progress, Working
  <2>2. \A c \in Charges : AddedSome(p, c) => AddedSome(p, c)'
    BY <1>3, <2>1 DEF AddedSome, tables, ghosts
  <2> QED
    BY <1>3, <2>1, <2>2, SoFarIsSome DEF RunOK, Alone, ghosts, Persisting
<1>7. CASE PersistSubscription(p)
  <2>1. PICK k \in Keys : PersistSubscription(p)!(k)
    BY <1>7 DEF PersistSubscription
  <2>2. /\ pc[p] = "persisting" /\ pc'[p] = "persistingAgreement" /\ at'[p] = k
        /\ k \in todo[p] /\ todo'[p] = todo[p] \ {k}
        /\ UNCHANGED <<agrRows, before, job, kept>>
        /\ disturbed'[p] = disturbed[p]
    BY <2>1 DEF WritesAgreement, Take, Disturb, TypeOK
  <2>3. subRows' = Add(subRows, Want \cap OfBucket(k))
    BY <2>1, <2>2 DEF Accumulation, RunOK, Persisting
  <2>4. ASSUME NEW c \in Charges, AddedSoFar(p, c) PROVE AddedSoFar(p, c)'
    <3>1. CASE Key(c) = k
      <4>1. SubAdded(p, c) = 0 /\ AgrAdded(p, c) = 0
        BY <2>2, <3>1 DEF SubAdded, AgrAdded, Pending, Persisting
      <4>2. SubAdded(p, c)' = Once(Collected(job[p], c)) /\ AgrAdded(p, c)' = 0
        BY <1>3, <2>2, <3>1 DEF SubAdded, AgrAdded, Pending, HalfDone, Persisting
      <4>3. subRows'[c] = subRows[c] + Once(Collected(job[p], c))
        BY <1>1, <2>3, <3>1 DEF Add, OfBucket, Once
      <4> QED
        BY <1>1, <2>2, <2>4, <4>1, <4>2, <4>3 DEF AddedSoFar, TypeOK, Once
    <3>2. CASE Key(c) # k
      <4>1. SubAdded(p, c)' = SubAdded(p, c) /\ AgrAdded(p, c)' = AgrAdded(p, c)
        BY <1>3, <2>2, <3>2 DEF SubAdded, AgrAdded, Pending, HalfDone, Persisting
      <4>2. subRows'[c] = subRows[c]
        BY <2>3, <3>2 DEF Add, OfBucket
      <4> QED
        BY <2>2, <2>4, <4>1, <4>2 DEF AddedSoFar
    <3> QED
      BY <3>1, <3>2
  <2> QED
    BY <1>3, <2>2, <2>4 DEF RunOK, Alone, Persisting
<1>8. CASE PersistAgreement(p)
  <2>1. /\ pc[p] = "persistingAgreement" /\ pc'[p] = "persisting"
        /\ UNCHANGED <<subRows, before, job, kept, todo>>
        /\ disturbed'[p] = disturbed[p]
    BY <1>8 DEF PersistAgreement, Goto, Disturb, TypeOK
  <2>2. agrRows' = Add(agrRows, Want \cap OfBucket(at[p])) /\ at[p] \notin todo[p]
    BY <1>8, <2>1 DEF PersistAgreement, Accumulation, RunOK, Persisting
  <2>3. ASSUME NEW c \in Charges, AddedSoFar(p, c) PROVE AddedSoFar(p, c)'
    <3>1. SubAdded(p, c)' = SubAdded(p, c)
      BY <1>3, <2>1 DEF SubAdded, Pending, Persisting
    <3>2. CASE Key(c) = at[p]
      <4>1. AgrAdded(p, c) = 0 /\ AgrAdded(p, c)' = Once(Collected(job[p], c))
        BY <1>3, <2>1, <2>2, <3>2 DEF AgrAdded, Pending, HalfDone, Persisting
      <4>2. agrRows'[c] = agrRows[c] + Once(Collected(job[p], c))
        BY <1>1, <2>2, <3>2 DEF Add, OfBucket, Once
      <4> QED
        BY <1>1, <2>1, <2>3, <3>1, <4>1, <4>2 DEF AddedSoFar, TypeOK, Once
    <3>3. CASE Key(c) # at[p]
      <4>1. AgrAdded(p, c)' = AgrAdded(p, c)
        BY <1>3, <2>1, <3>3 DEF AgrAdded, Pending, HalfDone, Persisting
      <4>2. agrRows'[c] = agrRows[c]
        BY <2>2, <3>3 DEF Add, OfBucket
      <4> QED
        BY <2>1, <2>3, <3>1, <4>1, <4>2 DEF AddedSoFar
    <3> QED
      BY <3>2, <3>3
  <2> QED
    BY <1>3, <2>1, <2>3 DEF RunOK, Alone, Persisting
<1>9. CASE Persisted(p) \/ UpdateEstimates(p)
  <2>1. /\ UNCHANGED <<tables, job, ghosts>>
        /\ pc[p] \in {"persisting", "estimating"}
        /\ pc'[p] \in {"estimating", "pruningSubscriptions"}
        /\ pc[p] = "persisting" => todo[p] = {}
    BY <1>0, <1>9 DEF Persisted, UpdateEstimates, Goto, TypeOK
  <2>2. \A c \in Charges : SubAdded(p, c)' = SubAdded(p, c) /\ AgrAdded(p, c)' = AgrAdded(p, c)
    BY <1>3, <2>1 DEF SubAdded, AgrAdded, Pending, HalfDone, Persisting
  <2> QED
    BY <1>3, <2>1, <2>2 DEF RunOK, Alone, AddedSoFar, tables, ghosts, Persisting, Complete
<1>10. CASE PruneSubscriptions(p) \/ PruneAgreements(p)
  <2>1. /\ UNCHANGED <<job, before>> /\ disturbed'[p] = disturbed[p]
        /\ pc[p] \in {"pruningSubscriptions", "pruningAgreements"}
        /\ pc'[p] \in {"pruningAgreements", "done"}
    BY <1>10 DEF PruneSubscriptions, PruneAgreements, Goto, Disturb, TypeOK
  <2>2. ASSUME NEW c \in Charges, Retained(p, c), AddedSoFar(p, c) PROVE AddedSoFar(p, c)'
    <3>1. subRows'[c] = subRows[c] /\ agrRows'[c] = agrRows[c]
      BY <1>10, <2>2, RetainedIsStorable DEF PruneSubscriptions, PruneAgreements, Drop, TypeOK
    <3>2. SubAdded(p, c)' = SubAdded(p, c) /\ AgrAdded(p, c)' = AgrAdded(p, c)
      BY <1>3, <2>1 DEF SubAdded, AgrAdded, Pending, HalfDone, Persisting
    <3> QED
      BY <2>1, <2>2, <3>1, <3>2 DEF AddedSoFar
  <2> QED
    BY <1>3, <2>1, <2>2 DEF RunOK, Alone, Persisting, Complete
<1>11. ~(PlanAgreement(p) \/ PlanScope(p) \/ AccumulateScope(p))
  BY <1>2 DEF PlanAgreement, PlanScope, AccumulateScope, Goto, Stay, Persisting, Complete
<1>12. ~(\/ DeletePlannedSubscription(p) \/ SubscriptionsDeleted(p)
         \/ DeletePlannedAgreement(p) \/ AgreementsDeleted(p))
  BY <1>2 DEF DeletePlannedSubscription, SubscriptionsDeleted, DeletePlannedAgreement,
              AgreementsDeleted, Goto, Stay, Persisting, Complete
<1>13. ~(\/ DeleteSubscriptionScope(p) \/ OpenAgreement(p) \/ DeleteStoredSubscription(p)
         \/ DeleteOpenAgreement(p) \/ Deleted(p))
  BY <1>2 DEF DeleteSubscriptionScope, OpenAgreement, DeleteStoredSubscription,
              DeleteOpenAgreement, Deleted, Goto, Stay, Persisting, Complete
<1> QED
  BY <1>4, <1>5, <1>6, <1>7, <1>8, <1>9, <1>10, <1>11, <1>12, <1>13 DEF Work

(***************************************************************************)
(* The daily run adds each charge it collects once, to the subscription    *)
(* row and then to the agreement row, and no other (pipeline.py, run;      *)
(* charge_persistence.py, persist): every charge of a run that completes,  *)
(* and none twice wherever it stops.                                       *)
(***************************************************************************)
THEOREM RunIsCountedOnce == Spec => []RunCountsOnce
<1> DEFINE Inv == \A p \in Commands : RunOK(p)
<1>1. Init => Inv
  BY DEF Init, RunOK, Alone, Persisting
<1>2. TypeOK /\ QuietInv /\ Inv /\ [Next]_vars => Inv'
  <2> SUFFICES ASSUME TypeOK, QuietInv, Inv, [Next]_vars, NEW p \in Commands PROVE RunOK(p)'
    OBVIOUS
  <2>1. CASE UNCHANGED vars
    BY <2>1 DEF vars, tables, progress, ghosts, RunOK, Collected, Retained, Alone, Pending,
                HalfDone, SubAdded, AgrAdded, AddedSome, AddedSoFar
  <2>2. CASE \E q \in Commands : q # p /\ (Work(q) \/ Stop(q))
    BY <2>2, RunKeptByOthers
  <2>3. CASE Work(p) \/ Stop(p)
    <3>1. CASE job[p].command = "run"
      BY <2>3, <3>1, RunKeepsItself
    <3>2. CASE job[p].command # "run"
      <4>1. job' = job
        BY <2>3, JobStays
      <4> QED
        BY <3>2, <4>1 DEF RunOK
    <3> QED
      BY <3>1, <3>2
  <2> QED
    BY <2>1, <2>2, <2>3 DEF Next
<1>3. TypeOK /\ Inv => RunCountsOnce
  <2> SUFFICES ASSUME TypeOK, NEW p \in Commands, RunOK(p), Alone(p), job[p].command = "run",
                      NEW c \in Charges, Retained(p, c)
               PROVE  /\ subRows[c] - before[p].sub[c] \in 0..Once(Collected(job[p], c))
                      /\ agrRows[c] - before[p].agr[c] \in 0..(subRows[c] - before[p].sub[c])
                      /\ pc[p] = "done" =>
                           /\ subRows[c] - before[p].sub[c] = Once(Collected(job[p], c))
                           /\ agrRows[c] - before[p].agr[c] = Once(Collected(job[p], c))
    BY DEF RunCountsOnce
  <2>1. before[p].sub[c] \in Nat /\ before[p].agr[c] \in Nat
    BY DEF TypeOK
  <2>2. AddedSome(p, c)
    BY SoFarIsSome DEF RunOK
  <2>3. pc[p] = "done" => AddedSoFar(p, c)
    BY DEF RunOK
  <2>4. pc[p] = "done" => /\ SubAdded(p, c) = Once(Collected(job[p], c))
                          /\ AgrAdded(p, c) = Once(Collected(job[p], c))
    BY DEF SubAdded, AgrAdded, Pending, HalfDone, Persisting
  <2>5. Once(Collected(job[p], c)) \in Nat
    BY DEF Once
  <2> QED
    BY <2>1, <2>2, <2>3, <2>4, <2>5 DEF AddedSome, AddedSoFar
<1> QED
  BY <1>1, <1>2, <1>3, Quiet, PTL DEF Spec

-----------------------------------------------------------------------------
(***************************************************************************)
(* A command given a subscription.  Nothing it deletes or adds goes beyond *)
(* that subscription, since its plan names no agreement to delete, and     *)
(* since an empty plan selects by product but then keeps no charge.        *)
(***************************************************************************)
RestKept(p) ==
  \A c \in Charges : Retained(p, c) =>
    /\ AgrUntouched(p, c)
    /\ SubscriptionOf[c] \notin job[p].subscriptions => SubUntouched(p, c)

ScopeOK(p) == job[p].kind = "subscription" =>
  /\ pc[p] \notin {"persistingAgreement", "deletingStored"}
  /\ pc[p] \in {"planning", "deleting", "deletingAgreements"} => todo[p] = {}
  /\ plan[p].agreements = {}
  /\ pc[p] = "accumulating" =>
       /\ plan[p].subscriptions = job[p].subscriptions
       /\ job[p].subscriptions = {} => plan[p].statementAgreements = {}
  /\ pc[p] = "deletingSubscriptions" => todo[p] \subseteq job[p].subscriptions
  /\ \A c \in kept[p] : SubscriptionOf[c] \in job[p].subscriptions
  /\ Alone(p) => RestKept(p)

LEMMA ScopeKeptByOthers ==
  ASSUME TypeOK, NEW p \in Commands, ScopeOK(p), NEW q \in Commands, q # p,
         Work(q) \/ Stop(q)
  PROVE  ScopeOK(p)'
<1>1. /\ job' = job /\ before'[p] = before[p] /\ pc'[p] = pc[p] /\ plan'[p] = plan[p]
      /\ todo'[p] = todo[p] /\ kept'[p] = kept[p]
      /\ disturbed'[p] \/ (UNCHANGED tables /\ disturbed'[p] = disturbed[p])
  BY OthersLeave
<1>2. Alone(p)' => Alone(p) /\ UNCHANGED tables
  BY <1>1 DEF Alone
<1>3. UNCHANGED tables => (RestKept(p)' <=> RestKept(p))
  BY <1>1 DEF RestKept, Retained, AgrUntouched, SubUntouched, tables
<1> QED
  BY <1>1, <1>2, <1>3 DEF ScopeOK

\* What a subscription's recalculate keeps of what it accumulated.
LEMMA KeptIsInScope ==
  ASSUME TypeOK, NEW p \in Commands, ScopeOK(p), job[p].kind = "subscription",
         pc[p] = "accumulating", AccumulateScope(p)
  PROVE  /\ plan'[p].agreements = {}
         /\ plan'[p].subscriptions \subseteq job[p].subscriptions
         /\ \A c \in kept'[p] : SubscriptionOf[c] \in job[p].subscriptions
<1> DEFINE out == UnsummableAgreements(Selection(p), ChargeFilter(p))
           planned == IF out = {} THEN plan[p] ELSE WithoutAgreements(plan[p], out)
<1>1. /\ plan'[p] = planned
      /\ kept'[p] = FilterToReset(Accumulated(Selection(p), ChargeFilter(p)), planned)
  BY DEF AccumulateScope, TypeOK
<1>2. /\ planned.agreements = {}
      /\ planned.subscriptions \subseteq job[p].subscriptions
      /\ planned.statementAgreements \subseteq plan[p].statementAgreements
  BY DEF ScopeOK, WithoutAgreements
<1>3. ChargeFilter(p) = job[p].subscriptions
  BY DEF ScopeOK, ChargeFilter
<1> HIDE DEF planned
<1>4. ASSUME NEW c \in kept'[p] PROVE SubscriptionOf[c] \in job[p].subscriptions
  <2>1. CASE job[p].subscriptions = {}
    <3>1. planned.statementAgreements = {}
      BY <1>2, <2>1 DEF ScopeOK
    <3> QED
      BY <1>1, <1>2, <1>4, <3>1 DEF FilterToReset
  <2>2. CASE job[p].subscriptions # {}
    <3>1. c \in ChargesOf(Selection(p), ChargeFilter(p))
      BY <1>1, <1>4 DEF FilterToReset, Accumulated
    <3> QED
      BY <1>3, <2>2, <3>1 DEF ChargesOf, Passes
  <2> QED
    BY <2>1, <2>2
<1> QED
  BY <1>1, <1>2, <1>4

\* What ScopeOK says of a command is kept by its own steps.
LEMMA ScopeKeepsItself ==
  ASSUME TypeOK, NEW p \in Commands, job[p].kind = "subscription", ScopeOK(p),
         Work(p) \/ Stop(p)
  PROVE  ScopeOK(p)'
<1>0. /\ job[p] \in Jobs /\ job[p].agreements = {}
      /\ job[p].command \in {"recalculate", "delete"}
      /\ job' = job
  BY JobsAssumption, JobFields, JobStays DEF TypeOK, JobsAssumption
<1>1. plan[p] \in PlanType
  BY DEF TypeOK
<1>2. ASSUME UNCHANGED <<tables, before>>, disturbed'[p] = disturbed[p], pc[p] # "idle",
             Alone(p)'
      PROVE  RestKept(p)'
  <2>1. RestKept(p)
    BY <1>2 DEF ScopeOK, Alone
  <2> QED
    BY <1>0, <1>2, <2>1 DEF RestKept, Retained, AgrUntouched, SubUntouched, tables
<1>3. ASSUME NEW cs, subRows' = Drop(subRows, cs) \/ subRows' = Add(subRows, cs), agrRows' = agrRows,
             before' = before, disturbed'[p] = disturbed[p], pc[p] # "idle", Alone(p)',
             \A c \in cs \cap Charges : SubscriptionOf[c] \in job[p].subscriptions
      PROVE  RestKept(p)'
  <2>1. RestKept(p)
    BY <1>3 DEF ScopeOK, Alone
  <2>2. \A c \in Charges : SubscriptionOf[c] \notin job[p].subscriptions => subRows'[c] = subRows[c]
    BY <1>3 DEF Drop, Add
  <2> QED
    BY <1>0, <1>3, <2>1, <2>2 DEF RestKept, Retained, AgrUntouched, SubUntouched
<1>4. CASE Begin(p)
  <2>1. /\ pc'[p] \in {"planning", "deleting"} /\ todo'[p] = {}
        /\ UNCHANGED <<plan, kept>>
    BY <1>0, <1>4 DEF Begin, Goto, FirstPhase, TypeOK, progress
  <2>2. before'[p] = [sub |-> subRows, agr |-> agrRows] /\ UNCHANGED tables
    BY <1>4 DEF Begin, TypeOK
  <2>3. RestKept(p)'
    BY <2>2 DEF RestKept, AgrUntouched, SubUntouched, tables
  <2> QED
    BY <1>0, <2>1, <2>3 DEF ScopeOK
<1>5. CASE PlanScope(p)
  <2>1. /\ pc[p] = "planning" /\ pc'[p] = "accumulating"
        /\ UNCHANGED <<tables, ghosts, todo, kept>>
        /\ plan'[p] = [subscriptions       |-> job[p].subscriptions,
                       statementAgreements |-> StoredAgreements(job[p].subscriptions),
                       agreements          |-> {}]
    BY <1>5 DEF PlanScope, Goto, TypeOK
  <2>2. job[p].subscriptions = {} => StoredAgreements(job[p].subscriptions) = {}
    BY DEF StoredAgreements
  <2> QED
    BY <1>0, <1>2, <2>1, <2>2 DEF ScopeOK, ghosts
<1>6. CASE AccumulateScope(p)
  <2>1. /\ pc[p] = "accumulating" /\ pc'[p] \in {"estimating", "deletingSubscriptions"}
        /\ UNCHANGED <<tables, ghosts>>
        /\ todo'[p] = plan'[p].subscriptions
    BY <1>6 DEF AccumulateScope, AfterAccumulating, Goto, TypeOK
  <2> QED
    BY <1>0, <1>2, <1>6, <2>1, KeptIsInScope DEF ScopeOK, ghosts
<1>7. CASE DeletePlannedSubscription(p)
  <2>1. PICK s \in Subscriptions : DeletePlannedSubscription(p)!(s)
    BY <1>7 DEF DeletePlannedSubscription
  <2>2. /\ pc[p] = "deletingSubscriptions" /\ UNCHANGED <<pc, agrRows, plan, kept, before>>
        /\ disturbed'[p] = disturbed[p]
        /\ s \in todo[p] /\ todo'[p] \subseteq todo[p]
        /\ subRows' = Drop(subRows, OfSubscription(s))
    BY <2>1 DEF Stay, Take, Disturb, TypeOK, progress
  <2>3. \A c \in OfSubscription(s) \cap Charges : SubscriptionOf[c] \in job[p].subscriptions
    BY <2>2 DEF ScopeOK, OfSubscription
  <2>4. Alone(p)' => RestKept(p)'
    BY <1>3, <2>2, <2>3
  <2> QED
    BY <1>0, <2>2, <2>4 DEF ScopeOK
<1>8. CASE SubscriptionsDeleted(p) \/ AgreementsDeleted(p) \/ Persisted(p)
  <2>1. /\ UNCHANGED <<tables, ghosts, plan, kept>> /\ pc[p] # "idle"
        /\ \/ pc'[p] = "deletingAgreements" /\ todo'[p] = plan[p].agreements
           \/ pc'[p] \in {"persisting", "estimating"}
    BY <1>8 DEF SubscriptionsDeleted, AgreementsDeleted, Persisted, Goto, TypeOK, progress
  <2> QED
    BY <1>0, <1>2, <2>1 DEF ScopeOK, ghosts
<1>9. CASE PersistSubscription(p)
  <2>1. PICK k \in Keys : PersistSubscription(p)!(k)
    BY <1>9 DEF PersistSubscription
  <2>2. ~WritesAgreement(p, k)
    BY <1>0 DEF WritesAgreement, ScopeOK
  <2>3. /\ pc[p] = "persisting" /\ pc'[p] = "persisting"
        /\ UNCHANGED <<agrRows, plan, kept, before>>
        /\ disturbed'[p] = disturbed[p]
        /\ subRows' = Add(subRows, kept[p] \cap OfBucket(k))
    BY <2>1, <2>2 DEF Accumulation, Disturb, TypeOK
  <2>4. Alone(p)' => RestKept(p)'
    BY <1>3, <2>3 DEF ScopeOK
  <2> QED
    BY <1>0, <2>3, <2>4 DEF ScopeOK
<1>10. CASE UpdateEstimates(p) \/ Stop(p)
  <2>1. /\ UNCHANGED <<tables, ghosts, plan, kept>> /\ pc[p] # "idle"
        /\ pc'[p] \in {"done", "pruningSubscriptions", "stopped"}
    BY <1>10 DEF UpdateEstimates, Stop, Working, Goto, TypeOK, progress
  <2> QED
    BY <1>0, <1>2, <2>1 DEF ScopeOK, ghosts
<1>11. CASE PruneSubscriptions(p) \/ PruneAgreements(p)
  <2>1. /\ UNCHANGED <<plan, kept, before>> /\ pc[p] # "idle"
        /\ disturbed'[p] = disturbed[p] /\ pc'[p] \in {"done", "pruningAgreements"}
    BY <1>11 DEF PruneSubscriptions, PruneAgreements, Goto, Disturb, TypeOK, progress
  <2>2. \A c \in Charges : Retained(p, c) => subRows'[c] = subRows[c] /\ agrRows'[c] = agrRows[c]
    BY <1>11, RetainedIsStorable DEF PruneSubscriptions, PruneAgreements, Drop
  <2>3. Alone(p)' => RestKept(p)'
    BY <1>0, <2>1, <2>2 DEF ScopeOK, Alone, RestKept, Retained, AgrUntouched, SubUntouched
  <2> QED
    BY <1>0, <2>1, <2>3 DEF ScopeOK
<1>12. CASE DeleteSubscriptionScope(p)
  <2> DEFINE cs == UNION {OfSubscription(s) : s \in job[p].subscriptions}
  <2>1. /\ pc[p] = "deleting" /\ pc'[p] = "done" /\ UNCHANGED <<agrRows, plan, kept, before>>
        /\ disturbed'[p] = disturbed[p]
        /\ subRows' = Drop(subRows, cs)
    BY <1>12 DEF DeleteSubscriptionScope, Goto, Disturb, TypeOK, progress
  <2>2. \A c \in cs \cap Charges : SubscriptionOf[c] \in job[p].subscriptions
    BY DEF OfSubscription
  <2>3. Alone(p)' => RestKept(p)'
    BY <1>3, <2>1, <2>2
  <2> QED
    BY <1>0, <2>1, <2>3 DEF ScopeOK
<1>13. ~(AccumulateRun(p) \/ RunRaises(p) \/ PersistAgreement(p) \/ DeleteStoredSubscription(p)
         \/ DeleteOpenAgreement(p) \/ Deleted(p))
  BY <1>0 DEF AccumulateRun, RunRaises, PersistAgreement, DeleteStoredSubscription,
              DeleteOpenAgreement, Deleted, Goto, Stay, ScopeOK
<1>14. ~(PlanAgreement(p) \/ DeletePlannedAgreement(p) \/ OpenAgreement(p))
  BY DEF PlanAgreement, DeletePlannedAgreement, OpenAgreement, Goto, Stay, Take, ScopeOK
<1> QED
  BY <1>4, <1>5, <1>6, <1>7, <1>8, <1>9, <1>10, <1>11, <1>12, <1>13, <1>14 DEF Work

(***************************************************************************)
(* A recalculate or a delete of a subscription leaves every agreement row  *)
(* and every other subscription's rows as they were, wherever it stops     *)
(* (bucket_delete.py, delete_resolved; pipeline.py, _refill).              *)
(***************************************************************************)
THEOREM TheRestIsKept == Spec => []SubscriptionScopeKeepsTheRest
<1> DEFINE Inv == \A p \in Commands : ScopeOK(p)
<1>1. Init => Inv
  BY DEF Init, ScopeOK, Alone, NoPlan
<1>2. TypeOK /\ Inv /\ [Next]_vars => Inv'
  <2> SUFFICES ASSUME TypeOK, Inv, [Next]_vars, NEW p \in Commands PROVE ScopeOK(p)'
    OBVIOUS
  <2>1. CASE UNCHANGED vars
    BY <2>1 DEF vars, tables, progress, ghosts, ScopeOK, RestKept, Retained, Alone,
                AgrUntouched, SubUntouched
  <2>2. CASE \E q \in Commands : q # p /\ (Work(q) \/ Stop(q))
    BY <2>2, ScopeKeptByOthers
  <2>3. CASE Work(p) \/ Stop(p)
    <3>1. CASE job[p].kind = "subscription"
      BY <2>3, <3>1, ScopeKeepsItself
    <3>2. CASE job[p].kind # "subscription"
      BY <2>3, <3>2, JobStays DEF ScopeOK
    <3> QED
      BY <3>1, <3>2
  <2> QED
    BY <2>1, <2>2, <2>3 DEF Next
<1>3. Inv => SubscriptionScopeKeepsTheRest
  BY DEF ScopeOK, RestKept, SubscriptionScopeKeepsTheRest
<1> QED
  BY <1>1, <1>2, <1>3, TypeCorrect, PTL DEF Spec

-----------------------------------------------------------------------------
(***************************************************************************)
(* A recalculate of agreements.  Every subscription with rows under them   *)
(* is planned; of those that stay planned, the rows go; then the agreement *)
(* rows; then each bucket comes back, subscription row first.              *)
(***************************************************************************)
Rebuilds(p) == job[p].command = "recalculate" /\ ~job[p].dryRun /\ job[p].agreements # {}
InScope(p, c) == AgreementOf(c) \in job[p].agreements \ failed[p]
Wanted(p, c)  == StatementOf[c] \in job[p].window
Shared(p, c)  == SharedWithFailed(p, SubscriptionOf[c])

SubBack(p, c) == IF Pending(p, c) THEN 0 ELSE Once(Wanted(p, c))
AgrBack(p, c) == IF Pending(p, c) \/ HalfDone(p, c) THEN 0 ELSE Once(Wanted(p, c))

\* Every subscription with rows under the agreements is planned, or comes to be.
AllPlanned(p) ==
  \A c \in Charges : subRows[c] > 0 /\ AgreementOf(c) \in job[p].agreements =>
    \/ SubscriptionOf[c] \in plan[p].subscriptions
    \/ pc[p] = "planning" /\ AgreementOf(c) \in todo[p]

SubsDeleted(p, c) ==
  \/ subRows[c] = 0
  \/ Shared(p, c)
  \/ pc[p] = "deletingSubscriptions" /\ SubscriptionOf[c] \in todo[p]
AgrsDeleted(p, c) ==
  pc[p] = "deletingAgreements" => agrRows[c] = 0 \/ AgreementOf(c) \in todo[p]
Refilled(p, c) ==
  /\ subRows[c] = SubBack(p, c) \/ Shared(p, c)
  /\ agrRows[c] = AgrBack(p, c)

Deleting  == {"deletingSubscriptions", "deletingAgreements"}

RebuiltSoFar(p) ==
  /\ pc[p] \in {"planning", "accumulating"} => AllPlanned(p)
  /\ \A c \in Charges : Retained(p, c) /\ InScope(p, c) =>
       /\ pc[p] \in Deleting => SubsDeleted(p, c) /\ AgrsDeleted(p, c)
       /\ pc[p] \in Persisting \cup Complete => Refilled(p, c)

RebuildOK(p) == Rebuilds(p) =>
  /\ pc[p] \notin {"deleting", "deletingStored"}
  /\ pc[p] = "accumulating" =>
       /\ plan[p].statementAgreements = job[p].agreements
       /\ plan[p].agreements = job[p].agreements
  /\ pc[p] \in Deleting \cup Persisting =>
       /\ plan[p].agreements = job[p].agreements \ failed[p]
       /\ kept[p] = {c \in Charges : Wanted(p, c) /\ InScope(p, c)}
  /\ pc[p] = "persistingAgreement" => at[p] \notin todo[p]
  /\ Alone(p) => RebuiltSoFar(p)

LEMMA RebuildKeptByOthers ==
  ASSUME TypeOK, NEW p \in Commands, RebuildOK(p), NEW q \in Commands, q # p,
         Work(q) \/ Stop(q)
  PROVE  RebuildOK(p)'
<1>1. /\ job' = job /\ before'[p] = before[p] /\ pc'[p] = pc[p] /\ plan'[p] = plan[p]
      /\ todo'[p] = todo[p] /\ at'[p] = at[p] /\ kept'[p] = kept[p] /\ failed'[p] = failed[p]
      /\ disturbed'[p] \/ (UNCHANGED tables /\ disturbed'[p] = disturbed[p])
  BY OthersLeave
<1>2. Alone(p)' => Alone(p) /\ UNCHANGED tables
  BY <1>1 DEF Alone
<1>3. /\ Rebuilds(p)' <=> Rebuilds(p)
      /\ \A c \in Charges : /\ InScope(p, c)' <=> InScope(p, c)
                            /\ Wanted(p, c)' <=> Wanted(p, c)
                            /\ Shared(p, c)' <=> Shared(p, c)
                            /\ Retained(p, c)' <=> Retained(p, c)
  BY <1>1 DEF Rebuilds, InScope, Wanted, Shared, SharedWithFailed, Retained
<1>4. \A c \in Charges : SubBack(p, c)' = SubBack(p, c) /\ AgrBack(p, c)' = AgrBack(p, c)
  BY <1>1, <1>3 DEF SubBack, AgrBack, Pending, HalfDone, Once
<1>5. UNCHANGED tables /\ RebuiltSoFar(p) => RebuiltSoFar(p)'
  BY <1>1, <1>3, <1>4 DEF RebuiltSoFar, AllPlanned, SubsDeleted, AgrsDeleted, Refilled, tables
<1> QED
  BY <1>1, <1>2, <1>3, <1>5 DEF RebuildOK

\* What a recalculate of agreements accumulates, keeps and goes on to delete.
LEMMA RebuildAccumulates ==
  ASSUME TypeOK, NEW p \in Commands, Rebuilds(p), RebuildOK(p), AccumulateScope(p)
  PROVE  /\ plan'[p].agreements = job[p].agreements \ failed'[p]
         /\ plan'[p].subscriptions = plan[p].subscriptions \ StoredSubscriptions(failed'[p])
         /\ kept'[p] = {c \in Charges : /\ Wanted(p, c)
                                        /\ AgreementOf(c) \in job[p].agreements \ failed'[p]}
         /\ todo'[p] = plan'[p].subscriptions
<1> DEFINE out == UnsummableAgreements(Selection(p), ChargeFilter(p))
           planned == IF out = {} THEN plan[p] ELSE WithoutAgreements(plan[p], out)
<1>0. /\ pc[p] = "accumulating"
      /\ failed'[p] = out /\ plan'[p] = planned /\ todo'[p] = planned.subscriptions
      /\ kept'[p] = FilterToReset(Accumulated(Selection(p), ChargeFilter(p)), planned)
  BY DEF AccumulateScope, Goto, TypeOK
<1>1. plan[p] \in PlanType /\ job[p] \in Jobs
  BY DEF TypeOK
<1>2. /\ planned.subscriptions = plan[p].subscriptions \ StoredSubscriptions(out)
      /\ planned.statementAgreements = plan[p].statementAgreements \ out
      /\ planned.agreements = plan[p].agreements \ out
  <2>1. StoredSubscriptions({}) = {}
    BY DEF StoredSubscriptions
  <2> QED
    BY <1>1, <2>1 DEF WithoutAgreements, PlanType
<1>3. ChargeFilter(p) = {}
  BY <1>1, JobsAssumption DEF ChargeFilter, Rebuilds, JobsAssumption
<1>4. Selection(p) = {s \in job[p].window : StatementAgreement[s] \in job[p].agreements}
  BY <1>0 DEF Selection, SelectedStatements, Rebuilds, RebuildOK
<1>5. ChargesOf(Selection(p), ChargeFilter(p)) =
        {c \in Charges : Wanted(p, c) /\ AgreementOf(c) \in job[p].agreements}
  BY <1>3, <1>4, ListedByItsAgreement DEF ChargesOf, Passes, Wanted, AgreementOf
<1> HIDE DEF planned
<1>6. kept'[p] = {c \in Charges : Wanted(p, c) /\ AgreementOf(c) \in job[p].agreements \ out}
  BY <1>0, <1>2, <1>5 DEF Accumulated, FilterToReset, RebuildOK
<1> QED
  BY <1>0, <1>2, <1>6 DEF RebuildOK

\* A subscription that is not deleted although it has rows in the scope shares them
\* with an agreement that failed.
LEMMA KeptIsShared ==
  ASSUME TypeOK, QuietInv, NEW p \in Commands, Rebuilds(p), RebuildOK(p), Alone(p),
         AccumulateScope(p), NEW c \in Charges, AgreementOf(c) \in job[p].agreements
  PROVE  subRows[c] = 0 \/ SubscriptionOf[c] \in todo'[p] \/ Shared(p, c)'
<1>1. pc[p] = "accumulating" /\ before' = before
  BY DEF AccumulateScope, Goto, ghosts
<1>2. subRows = before[p].sub
  BY <1>1 DEF QuietInv, ReadingInv, Reading, Untouched
<1>3. subRows[c] = 0 \/ SubscriptionOf[c] \in plan[p].subscriptions
  BY <1>1 DEF RebuildOK, RebuiltSoFar, AllPlanned, TypeOK
<1>4. SubscriptionOf[c] \in StoredSubscriptions(failed'[p]) => Shared(p, c)'
  BY <1>1, <1>2 DEF StoredSubscriptions, Shared, SharedWithFailed
<1> QED
  BY <1>3, <1>4, RebuildAccumulates

\* What RebuildOK says of a recalculate is kept by its own steps.
LEMMA RebuildKeepsItself ==
  ASSUME TypeOK, QuietInv, NEW p \in Commands, Rebuilds(p), RebuildOK(p),
         Work(p) \/ Stop(p)
  PROVE  RebuildOK(p)'
<1>0. /\ job' = job /\ Rebuilds(p)'
      /\ job[p].command = "recalculate" /\ ~job[p].dryRun
      /\ job[p].kind = "agreements" /\ plan[p] \in PlanType
  BY JobStays, JobsAssumption DEF Rebuilds, TypeOK, JobsAssumption
<1>1. \A c \in Charges : /\ subRows[c] \in Nat /\ agrRows[c] \in Nat
                         /\ Wanted(p, c)' <=> Wanted(p, c)
                         /\ Retained(p, c)' <=> Retained(p, c)
  BY <1>0 DEF TypeOK, Wanted, Retained
<1>2. ASSUME failed'[p] = failed[p], before'[p] = before[p], NEW c \in Charges
      PROVE  (InScope(p, c)' <=> InScope(p, c)) /\ (Shared(p, c)' <=> Shared(p, c))
  BY <1>0, <1>2 DEF InScope, Shared, SharedWithFailed
<1>3. CASE Begin(p)
  <2>1. pc'[p] = "planning" /\ todo'[p] = job[p].agreements
    BY <1>0, <1>3 DEF Begin, Goto, FirstPhase, TypeOK
  <2> QED
    BY <1>0, <2>1 DEF RebuildOK, RebuiltSoFar, AllPlanned, Deleting, Persisting, Complete
<1>4. CASE PlanAgreement(p)
  <2>1. PICK a \in Agreements : PlanAgreement(p)!(a)
    BY <1>4 DEF PlanAgreement
  <2>2. /\ pc[p] = "planning" /\ UNCHANGED <<pc, tables, ghosts>>
        /\ todo'[p] = todo[p] \ {a}
        /\ plan'[p].subscriptions = plan[p].subscriptions \cup StoredSubscriptions({a})
    BY <1>0, <2>1 DEF Stay, Take, Resolving, TypeOK, PlanType
  <2>3. AllPlanned(p) => AllPlanned(p)'
    <3> SUFFICES ASSUME AllPlanned(p), NEW c \in Charges, subRows[c] > 0,
                        AgreementOf(c) \in job[p].agreements
                 PROVE  SubscriptionOf[c] \in plan'[p].subscriptions \/ AgreementOf(c) \in todo'[p]
      BY <1>0, <2>2 DEF AllPlanned, tables
    <3>1. AgreementOf(c) = a => SubscriptionOf[c] \in StoredSubscriptions({a})
      BY DEF StoredSubscriptions
    <3> QED
      BY <2>2, <3>1 DEF AllPlanned
  <2> QED
    BY <1>0, <2>2, <2>3 DEF RebuildOK, RebuiltSoFar, Alone, ghosts, Deleting, Persisting, Complete
<1>5. CASE PlanScope(p)
  <2>1. /\ pc[p] = "planning" /\ todo[p] = {} /\ pc'[p] = "accumulating"
        /\ UNCHANGED <<tables, ghosts>>
        /\ plan'[p] = [subscriptions       |-> plan[p].subscriptions,
                       statementAgreements |-> job[p].agreements,
                       agreements          |-> job[p].agreements]
    BY <1>0, <1>5 DEF PlanScope, Goto, TypeOK
  <2>2. AllPlanned(p) => AllPlanned(p)'
    BY <1>0, <2>1 DEF AllPlanned, tables
  <2> QED
    BY <1>0, <2>1, <2>2 DEF RebuildOK, RebuiltSoFar, Alone, ghosts, Deleting, Persisting, Complete
<1>6. CASE AccumulateScope(p)
  <2>1. pc[p] = "accumulating" /\ pc'[p] = "deletingSubscriptions" /\ UNCHANGED <<tables, ghosts>>
    BY <1>0, <1>6 DEF AccumulateScope, AfterAccumulating, Goto, TypeOK
  <2>2. /\ plan'[p].agreements = job'[p].agreements \ failed'[p]
        /\ kept'[p] = {c \in Charges : Wanted(p, c)' /\ InScope(p, c)'}
    BY <1>0, <1>1, <1>6, RebuildAccumulates DEF InScope
  <2>3. ASSUME Alone(p), NEW c \in Charges, InScope(p, c)' PROVE SubsDeleted(p, c)'
    <3>1. AgreementOf(c) \in job[p].agreements
      BY <1>0, <2>3 DEF InScope
    <3> QED
      BY <1>6, <2>1, <2>3, <3>1, KeptIsShared DEF SubsDeleted, tables
  <2> QED
    BY <1>0, <2>1, <2>2, <2>3
       DEF RebuildOK, RebuiltSoFar, AgrsDeleted, Alone, ghosts, Deleting, Persisting, Complete
<1>7. CASE DeletePlannedSubscription(p)
  <2>1. PICK s \in Subscriptions : DeletePlannedSubscription(p)!(s)
    BY <1>7 DEF DeletePlannedSubscription
  <2>2. /\ pc[p] = "deletingSubscriptions"
        /\ UNCHANGED <<pc, agrRows, plan, kept, failed, at, before>>
        /\ disturbed'[p] = disturbed[p] /\ todo'[p] = todo[p] \ {s}
        /\ subRows' = Drop(subRows, OfSubscription(s))
    BY <2>1 DEF Stay, Take, Disturb, TypeOK, progress
  <2>3. ASSUME NEW c \in Charges, SubsDeleted(p, c) PROVE SubsDeleted(p, c)'
    BY <1>2, <2>2, <2>3 DEF SubsDeleted, Drop, OfSubscription
  <2> QED
    BY <1>0, <1>1, <1>2, <2>2, <2>3
       DEF RebuildOK, RebuiltSoFar, AgrsDeleted, Alone, Deleting, Persisting, Complete
<1>8. CASE SubscriptionsDeleted(p)
  <2>1. /\ pc[p] = "deletingSubscriptions" /\ pc'[p] = "deletingAgreements" /\ todo[p] = {}
        /\ UNCHANGED <<tables, ghosts, plan, kept, failed, at>>
        /\ todo'[p] = plan[p].agreements
    BY <1>8 DEF SubscriptionsDeleted, Goto, TypeOK, progress
  <2>2. ASSUME NEW c \in Charges, InScope(p, c), SubsDeleted(p, c)
        PROVE  SubsDeleted(p, c)' /\ AgrsDeleted(p, c)'
    BY <1>2, <2>1, <2>2 DEF SubsDeleted, AgrsDeleted, RebuildOK, Deleting, InScope, tables, ghosts
  <2> QED
    BY <1>0, <1>1, <1>2, <2>1, <2>2
       DEF RebuildOK, RebuiltSoFar, Alone, ghosts, Deleting, Persisting, Complete
<1>9. CASE DeletePlannedAgreement(p)
  <2>1. PICK a \in Agreements : DeletePlannedAgreement(p)!(a)
    BY <1>9 DEF DeletePlannedAgreement
  <2>2. /\ pc[p] = "deletingAgreements"
        /\ UNCHANGED <<pc, subRows, plan, kept, failed, at, before>>
        /\ disturbed'[p] = disturbed[p] /\ todo'[p] = todo[p] \ {a}
        /\ agrRows' = Drop(agrRows, OfAgreement(a))
    BY <2>1 DEF Stay, Take, Disturb, TypeOK, progress
  <2>3. ASSUME NEW c \in Charges, SubsDeleted(p, c), AgrsDeleted(p, c)
        PROVE  SubsDeleted(p, c)' /\ AgrsDeleted(p, c)'
    BY <1>2, <2>2, <2>3 DEF SubsDeleted, AgrsDeleted, Drop, OfAgreement
  <2> QED
    BY <1>0, <1>1, <1>2, <2>2, <2>3
       DEF RebuildOK, RebuiltSoFar, Alone, Deleting, Persisting, Complete
<1>10. CASE AgreementsDeleted(p)
  <2>1. /\ pc[p] = "deletingAgreements" /\ pc'[p] = "persisting" /\ todo[p] = {}
        /\ UNCHANGED <<tables, ghosts, plan, kept, failed, at>>
        /\ todo'[p] = {Key(c) : c \in {d \in kept[p] : Storable(d)}}
    BY <1>10 DEF AgreementsDeleted, Goto, TypeOK, progress
  <2>2. ASSUME NEW c \in Charges, Retained(p, c), InScope(p, c), SubsDeleted(p, c), AgrsDeleted(p, c)
        PROVE  Refilled(p, c)'
    <3>1. (subRows[c] = 0 \/ Shared(p, c)) /\ agrRows[c] = 0
      BY <2>1, <2>2 DEF SubsDeleted, AgrsDeleted
    <3>2. Wanted(p, c) => Key(c) \in todo'[p]
      BY <2>1, <2>2, RetainedIsStorable DEF RebuildOK, Deleting
    <3>3. SubBack(p, c)' = 0 /\ AgrBack(p, c)' = 0
      BY <1>1, <2>1, <3>2 DEF SubBack, AgrBack, Pending, Persisting, Once
    <3> QED
      BY <1>2, <2>1, <3>1, <3>3 DEF Refilled, tables, ghosts
  <2> QED
    BY <1>0, <1>1, <1>2, <2>1, <2>2
       DEF RebuildOK, RebuiltSoFar, Alone, ghosts, Deleting, Persisting, Complete
<1>11. CASE PersistSubscription(p)
  <2>1. PICK k \in Keys : PersistSubscription(p)!(k)
    BY <1>11 DEF PersistSubscription
  <2>2. /\ pc[p] = "persisting" /\ k \in todo[p] /\ todo'[p] = todo[p] \ {k}
        /\ UNCHANGED <<agrRows, plan, kept, failed, before, job>>
        /\ disturbed'[p] = disturbed[p]
    BY <2>1 DEF Take, Disturb, TypeOK
  <2>3. subRows' = Add(subRows, kept[p] \cap OfBucket(k))
    BY <2>1 DEF Accumulation
  <2>4. \/ WritesAgreement(p, k) /\ pc'[p] = "persistingAgreement" /\ at'[p] = k
        \/ ~WritesAgreement(p, k) /\ pc'[p] = "persisting"
    BY <2>1 DEF TypeOK
  <2>5. ASSUME NEW c \in Charges, Retained(p, c), InScope(p, c), Refilled(p, c) PROVE Refilled(p, c)'
    <3>1. CASE Key(c) = k
      <4>1. WritesAgreement(p, k)
        BY <2>2, <2>5, <3>1
           DEF WritesAgreement, RebuildOK, InScope, Key, KeyAgreement, Persisting
      <4>2. SubBack(p, c) = 0 /\ AgrBack(p, c) = 0
        BY <2>2, <3>1 DEF SubBack, AgrBack, Pending, Persisting
      <4>3. SubBack(p, c)' = Once(Wanted(p, c)) /\ AgrBack(p, c)' = 0
        BY <1>1, <2>2, <2>4, <3>1, <4>1 DEF SubBack, AgrBack, Pending, HalfDone, Persisting, Once
      <4>4. subRows[c] = 0 => subRows'[c] = Once(Wanted(p, c))
        BY <2>2, <2>3, <2>5, <3>1 DEF Add, OfBucket, Once, RebuildOK, Persisting
      <4> QED
        BY <1>2, <2>2, <2>5, <4>2, <4>3, <4>4 DEF Refilled
    <3>2. CASE Key(c) # k
      <4>1. SubBack(p, c)' = SubBack(p, c) /\ AgrBack(p, c)' = AgrBack(p, c)
        BY <1>1, <2>2, <2>4, <3>2 DEF SubBack, AgrBack, Pending, HalfDone, Persisting, Once
      <4>2. subRows'[c] = subRows[c]
        BY <2>3, <3>2 DEF Add, OfBucket
      <4> QED
        BY <1>2, <2>2, <2>5, <4>1, <4>2 DEF Refilled
    <3> QED
      BY <3>1, <3>2
  <2>6. kept'[p] = {c \in Charges : Wanted(p, c)' /\ InScope(p, c)'}
    BY <1>1, <1>2, <2>2 DEF RebuildOK, Persisting
  <2>7. RebuiltSoFar(p) => RebuiltSoFar(p)'
    BY <1>1, <1>2, <2>2, <2>4, <2>5 DEF RebuiltSoFar, Deleting, Persisting, Complete
  <2> QED
    BY <1>0, <2>2, <2>4, <2>6, <2>7 DEF RebuildOK, Alone, Deleting, Persisting, Complete
<1>12. CASE PersistAgreement(p)
  <2>1. /\ pc[p] = "persistingAgreement" /\ pc'[p] = "persisting"
        /\ UNCHANGED <<subRows, todo, plan, kept, failed, before>>
        /\ disturbed'[p] = disturbed[p] /\ at[p] \notin todo[p]
        /\ agrRows' = Add(agrRows, kept[p] \cap OfBucket(at[p]))
    BY <1>12 DEF PersistAgreement, Accumulation, Goto, Disturb, TypeOK, RebuildOK
  <2>2. ASSUME NEW c \in Charges, InScope(p, c), Refilled(p, c) PROVE Refilled(p, c)'
    <3>1. SubBack(p, c)' = SubBack(p, c)
      BY <1>1, <2>1 DEF SubBack, Pending, Persisting, Once
    <3>2. CASE Key(c) = at[p]
      <4>1. AgrBack(p, c) = 0 /\ AgrBack(p, c)' = Once(Wanted(p, c))
        BY <1>1, <2>1, <3>2 DEF AgrBack, Pending, HalfDone, Persisting, Once
      <4>2. agrRows[c] = 0 => agrRows'[c] = Once(Wanted(p, c))
        BY <2>1, <2>2, <3>2 DEF Add, OfBucket, Once, RebuildOK, Persisting
      <4> QED
        BY <1>2, <2>1, <2>2, <3>1, <4>1, <4>2 DEF Refilled
    <3>3. CASE Key(c) # at[p]
      <4>1. AgrBack(p, c)' = AgrBack(p, c)
        BY <1>1, <2>1, <3>3 DEF AgrBack, Pending, HalfDone, Persisting, Once
      <4>2. agrRows'[c] = agrRows[c]
        BY <2>1, <3>3 DEF Add, OfBucket
      <4> QED
        BY <1>2, <2>1, <2>2, <3>1, <4>1, <4>2 DEF Refilled
    <3> QED
      BY <3>2, <3>3
  <2>3. kept'[p] = {c \in Charges : Wanted(p, c)' /\ InScope(p, c)'}
    BY <1>1, <1>2, <2>1 DEF RebuildOK, Persisting
  <2>4. RebuiltSoFar(p) => RebuiltSoFar(p)'
    BY <1>1, <1>2, <2>1, <2>2 DEF RebuiltSoFar, Deleting, Persisting, Complete
  <2> QED
    BY <1>0, <2>1, <2>3, <2>4 DEF RebuildOK, Alone, Deleting, Persisting, Complete
<1>13. CASE Persisted(p) \/ UpdateEstimates(p)
  <2>1. /\ UNCHANGED <<tables, ghosts, failed>>
        /\ pc[p] \in {"persisting", "estimating"}
        /\ pc'[p] \in {"estimating", "pruningSubscriptions"}
        /\ pc[p] = "persisting" => todo[p] = {}
    BY <1>0, <1>13 DEF Persisted, UpdateEstimates, Goto, TypeOK, progress
  <2>2. \A c \in Charges : Refilled(p, c) => Refilled(p, c)'
    BY <1>1, <1>2, <2>1
       DEF Refilled, SubBack, AgrBack, Pending, HalfDone, Persisting, Once, tables, ghosts
  <2> QED
    BY <1>0, <1>1, <1>2, <2>1, <2>2
       DEF RebuildOK, RebuiltSoFar, Alone, ghosts, Deleting, Persisting, Complete
<1>14. CASE PruneSubscriptions(p) \/ PruneAgreements(p)
  <2>1. /\ UNCHANGED <<failed, before>> /\ disturbed'[p] = disturbed[p]
        /\ pc[p] \in {"pruningSubscriptions", "pruningAgreements"}
        /\ pc'[p] \in {"pruningAgreements", "done"}
    BY <1>14 DEF PruneSubscriptions, PruneAgreements, Goto, Disturb, TypeOK, progress
  <2>2. ASSUME NEW c \in Charges, Retained(p, c), Refilled(p, c) PROVE Refilled(p, c)'
    <3>1. subRows'[c] = subRows[c] /\ agrRows'[c] = agrRows[c]
      BY <1>14, <2>2, RetainedIsStorable DEF PruneSubscriptions, PruneAgreements, Drop
    <3>2. SubBack(p, c)' = SubBack(p, c) /\ AgrBack(p, c)' = AgrBack(p, c)
      BY <1>1, <2>1 DEF SubBack, AgrBack, Pending, HalfDone, Persisting, Once
    <3> QED
      BY <1>2, <2>1, <2>2, <3>1, <3>2 DEF Refilled
  <2> QED
    BY <1>0, <1>1, <1>2, <2>1, <2>2
       DEF RebuildOK, RebuiltSoFar, Alone, Deleting, Persisting, Complete
<1>15. CASE Stop(p) \/ RunRaises(p)
  <2>1. pc'[p] = "stopped"
    BY <1>15 DEF Stop, RunRaises, Goto, TypeOK
  <2> QED
    BY <2>1 DEF RebuildOK, RebuiltSoFar, Deleting, Persisting, Complete
<1>16. ~(\/ AccumulateRun(p) \/ DeleteSubscriptionScope(p) \/ OpenAgreement(p)
         \/ DeleteStoredSubscription(p) \/ DeleteOpenAgreement(p) \/ Deleted(p))
  BY <1>0 DEF AccumulateRun, DeleteSubscriptionScope, OpenAgreement, DeleteStoredSubscription,
              DeleteOpenAgreement, Deleted, Goto, Stay, RebuildOK
<1> QED
  BY <1>3, <1>4, <1>5, <1>6, <1>7, <1>8, <1>9, <1>10, <1>11, <1>12, <1>13, <1>14, <1>15, <1>16
     DEF Work

(***************************************************************************)
(* A completed recalculate leaves the charges of its agreements counted as *)
(* the window says, whatever had been in the rows (pipeline.py,            *)
(* _reset_and_refill): but for subscriptions shared with a failed          *)
(* agreement.                                                              *)
(***************************************************************************)
THEOREM RebuiltExactly == Spec => []RebuildIsExact
<1> DEFINE Inv == \A p \in Commands : RebuildOK(p)
<1>1. Init => Inv
  BY DEF Init, RebuildOK, Alone, Deleting, Persisting
<1>2. TypeOK /\ QuietInv /\ Inv /\ [Next]_vars => Inv'
  <2> SUFFICES ASSUME TypeOK, QuietInv, Inv, [Next]_vars, NEW p \in Commands PROVE RebuildOK(p)'
    OBVIOUS
  <2>1. CASE UNCHANGED vars
    BY <2>1 DEF vars, tables, progress, ghosts, RebuildOK, RebuiltSoFar, Rebuilds, InScope, Wanted,
                Shared, SharedWithFailed, Retained, Alone, Pending, HalfDone, SubBack, AgrBack,
                AllPlanned, SubsDeleted, AgrsDeleted, Refilled
  <2>2. CASE \E q \in Commands : q # p /\ (Work(q) \/ Stop(q))
    BY <2>2, RebuildKeptByOthers
  <2>3. CASE Work(p) \/ Stop(p)
    <3>1. CASE Rebuilds(p)
      BY <2>3, <3>1, RebuildKeepsItself
    <3>2. CASE ~Rebuilds(p)
      BY <2>3, <3>2, JobStays DEF RebuildOK, Rebuilds
    <3> QED
      BY <3>1, <3>2
  <2> QED
    BY <2>1, <2>2, <2>3 DEF Next
<1>3. Inv => RebuildIsExact
  <2> SUFFICES ASSUME NEW p \in Commands, RebuildOK(p), Alone(p), pc[p] = "done",
                      job[p].command = "recalculate", ~job[p].dryRun,
                      NEW c \in Charges, Retained(p, c),
                      AgreementOf(c) \in job[p].agreements \ failed[p]
               PROVE  /\ agrRows[c] = Once(Wanted(p, c))
                      /\ subRows[c] = Once(Wanted(p, c)) \/ Shared(p, c)
    BY DEF RebuildIsExact, Wanted, Shared
  <2>1. Refilled(p, c)
    BY DEF RebuildOK, Rebuilds, RebuiltSoFar, InScope, Complete
  <2> QED
    BY <2>1 DEF Refilled, SubBack, AgrBack, Pending, HalfDone, Persisting
<1> QED
  BY <1>1, <1>2, <1>3, Quiet, PTL DEF Spec

-----------------------------------------------------------------------------
(***************************************************************************)
(* The agreements that failed.  What a recalculate deletes and keeps is    *)
(* without them, and of a subscription that is deleted all the same they   *)
(* had no row.                                                             *)
(***************************************************************************)
Early == {"idle", "planning", "accumulating", "deleting", "deletingStored"}

FailedKept(p) ==
  \A c \in Charges : AgreementOf(c) \in failed[p] /\ Retained(p, c) =>
    /\ SubUntouched(p, c) /\ AgrUntouched(p, c)
    /\ pc[p] = "deletingSubscriptions" /\ SubscriptionOf[c] \in todo[p] => subRows[c] = 0

FailedOK(p) ==
  /\ pc[p] \in Early => failed[p] = {} /\ pushed[p] = {}
  /\ failed[p] # {} => hasErrors[p]
  /\ pushed[p] \subseteq {SubscriptionOf[c] : c \in kept[p]}
  /\ \A c \in kept[p] : AgreementOf(c) \notin failed[p]
  /\ pc[p] = "deletingSubscriptions" => plan[p].agreements \cap failed[p] = {}
  /\ pc[p] = "deletingAgreements" => todo[p] \cap failed[p] = {}
  /\ Alone(p) => FailedKept(p)

\* The rest of what another's step leaves alone.
LEMMA OthersLeaveFlags ==
  ASSUME TypeOK, NEW p \in Commands, NEW q \in Commands, q # p, Work(q) \/ Stop(q)
  PROVE  pushed'[p] = pushed[p] /\ hasErrors'[p] = hasErrors[p]
BY DEF TypeOK, progress, Work, Stop, Begin, PlanAgreement, PlanScope, AccumulateRun, RunRaises,
       AccumulateScope, DeletePlannedSubscription, SubscriptionsDeleted,
       DeletePlannedAgreement, AgreementsDeleted, PersistSubscription, PersistAgreement,
       Persisted, UpdateEstimates, PruneSubscriptions, PruneAgreements,
       DeleteSubscriptionScope, OpenAgreement, DeleteStoredSubscription, DeleteOpenAgreement,
       Deleted

LEMMA FailedKeptByOthers ==
  ASSUME TypeOK, NEW p \in Commands, FailedOK(p), NEW q \in Commands, q # p,
         Work(q) \/ Stop(q)
  PROVE  FailedOK(p)'
<1>1. /\ job' = job /\ before'[p] = before[p] /\ pc'[p] = pc[p] /\ plan'[p] = plan[p]
      /\ todo'[p] = todo[p] /\ kept'[p] = kept[p] /\ failed'[p] = failed[p]
      /\ disturbed'[p] \/ (UNCHANGED tables /\ disturbed'[p] = disturbed[p])
  BY OthersLeave
<1>2. Alone(p)' => Alone(p) /\ UNCHANGED tables
  BY <1>1 DEF Alone
<1>3. UNCHANGED tables => (FailedKept(p)' <=> FailedKept(p))
  BY <1>1 DEF FailedKept, Retained, AgrUntouched, SubUntouched, tables
<1> QED
  BY <1>1, <1>2, <1>3, OthersLeaveFlags DEF FailedOK

\* Taking the failed agreements out of the plan takes out the subscriptions stored
\* under them.
LEMMA AccumulationFails ==
  ASSUME TypeOK, NEW p \in Commands, AccumulateScope(p)
  PROVE  /\ plan'[p].agreements \cap failed'[p] = {}
         /\ todo'[p] \cap StoredSubscriptions(failed'[p]) = {}
         /\ \A c \in kept'[p] : AgreementOf(c) \notin failed'[p]
         /\ failed'[p] # {} => hasErrors'[p]
<1> DEFINE out == UnsummableAgreements(Selection(p), ChargeFilter(p))
           planned == IF out = {} THEN plan[p] ELSE WithoutAgreements(plan[p], out)
<1>1. /\ failed'[p] = out /\ plan'[p] = planned /\ todo'[p] = planned.subscriptions
      /\ hasErrors'[p] = (out # {})
      /\ kept'[p] = FilterToReset(Accumulated(Selection(p), ChargeFilter(p)), planned)
  BY DEF AccumulateScope, TypeOK
<1>2. planned.agreements \cap out = {} /\ planned.subscriptions \cap StoredSubscriptions(out) = {}
  <2>1. StoredSubscriptions({}) = {}
    BY DEF StoredSubscriptions
  <2> QED
    BY <2>1 DEF WithoutAgreements
<1>3. \A c \in kept'[p] : AgreementOf(c) \notin out
  BY <1>1 DEF FilterToReset, Accumulated
<1> QED
  BY <1>1, <1>2, <1>3

LEMMA FailedKeepsItself ==
  ASSUME TypeOK, QuietInv, NEW p \in Commands, FailedOK(p), Work(p) \/ Stop(p)
  PROVE  FailedOK(p)'
<1>0. job' = job
  BY JobStays
<1>1. ASSUME NEW c \in Charges PROVE Retained(p, c)' <=> Retained(p, c)
  BY <1>0 DEF Retained
<1>2. ASSUME UNCHANGED <<tables, before>>, failed'[p] = failed[p], Alone(p) => FailedKept(p),
             disturbed'[p] = disturbed[p], pc[p] # "idle", Alone(p)',
             pc'[p] = "deletingSubscriptions" => pc[p] = pc'[p] /\ todo'[p] = todo[p]
      PROVE  FailedKept(p)'
  BY <1>1, <1>2 DEF FailedKept, Alone, SubUntouched, AgrUntouched, tables
<1>3. CASE Begin(p)
  <2>1. /\ pc[p] = "idle" /\ pc'[p] \in Early \cup {"pruningSubscriptions"}
        /\ pc'[p] \notin Deleting /\ UNCHANGED progress
    <3>1. job[p] \in Jobs
      BY DEF TypeOK
    <3> QED
      BY <1>3, <3>1, JobFields DEF Begin, Goto, FirstPhase, TypeOK, Early, Deleting
  <2>2. failed[p] = {} /\ FailedKept(p)'
    BY <2>1 DEF FailedOK, FailedKept, Early, progress
  <2> QED
    BY <2>1, <2>2 DEF FailedOK, progress, Early, Deleting
<1>4. CASE PlanAgreement(p) \/ PlanScope(p) \/ OpenAgreement(p)
  <2>1. /\ UNCHANGED <<tables, ghosts, kept, failed, hasErrors, pushed>>
        /\ pc[p] # "idle" /\ pc[p] \in Early /\ pc'[p] \in Early
    BY <1>4 DEF PlanAgreement, PlanScope, OpenAgreement, Goto, Stay, Resolving, TypeOK, Early
  <2> QED
    BY <1>2, <2>1 DEF FailedOK, ghosts, Early
<1>5. CASE AccumulateRun(p)
  <2>1. /\ UNCHANGED <<tables, ghosts, plan, failed, hasErrors, pushed>>
        /\ pc[p] = "accumulating" /\ pc'[p] = "persisting"
    BY <1>5 DEF AccumulateRun, Goto, TypeOK
  <2>2. failed[p] = {} /\ pushed[p] = {}
    BY <2>1 DEF FailedOK, Early
  <2> QED
    BY <2>1, <2>2 DEF FailedOK, FailedKept, Early
<1>6. CASE AccumulateScope(p)
  <2>1. /\ pc[p] = "accumulating" /\ pc'[p] \in {"estimating", "deletingSubscriptions"}
        /\ UNCHANGED <<tables, ghosts, pushed>>
    BY <1>6 DEF AccumulateScope, AfterAccumulating, Goto, TypeOK
  <2>2. pushed[p] = {}
    BY <2>1 DEF FailedOK, Early
  <2>3. ASSUME Alone(p) PROVE FailedKept(p)'
    <3>1. Untouched(p)
      BY <2>1, <2>3 DEF QuietInv, ReadingInv, Reading
    <3> SUFFICES ASSUME NEW c \in Charges, AgreementOf(c) \in failed'[p],
                        SubscriptionOf[c] \in todo'[p]
                 PROVE  subRows[c] = 0
      BY <2>1, <3>1 DEF FailedKept, SubUntouched, AgrUntouched, Untouched, tables, ghosts
    <3>2. subRows[c] > 0 => SubscriptionOf[c] \in StoredSubscriptions(failed'[p])
      BY DEF StoredSubscriptions
    <3>3. SubscriptionOf[c] \notin StoredSubscriptions(failed'[p])
      BY <1>6, AccumulationFails
    <3> QED
      BY <3>2, <3>3 DEF TypeOK
  <2> QED
    BY <1>6, <2>1, <2>2, <2>3, AccumulationFails DEF FailedOK, Alone, ghosts, Early
<1>7. CASE DeletePlannedSubscription(p)
  <2>1. PICK s \in Subscriptions : DeletePlannedSubscription(p)!(s)
    BY <1>7 DEF DeletePlannedSubscription
  <2>2. /\ pc[p] = "deletingSubscriptions" /\ UNCHANGED <<pc, agrRows, progress, before>>
        /\ disturbed'[p] = disturbed[p]
        /\ s \in todo[p] /\ todo'[p] \subseteq todo[p]
        /\ subRows' = Drop(subRows, OfSubscription(s))
    BY <2>1 DEF Stay, Take, Disturb, TypeOK
  <2>3. FailedKept(p) => FailedKept(p)'
    BY <1>1, <2>2 DEF FailedKept, SubUntouched, AgrUntouched, Drop, OfSubscription, progress
  <2> QED
    BY <2>2, <2>3 DEF FailedOK, Alone, Early, progress
<1>8. CASE SubscriptionsDeleted(p) \/ AgreementsDeleted(p) \/ Persisted(p)
  <2>1. /\ UNCHANGED <<tables, ghosts, progress>> /\ pc[p] # "idle"
        /\ \/ /\ pc[p] = "deletingSubscriptions" /\ pc'[p] = "deletingAgreements"
              /\ todo'[p] = plan[p].agreements
           \/ pc'[p] \in {"persisting", "estimating"}
    BY <1>8 DEF SubscriptionsDeleted, AgreementsDeleted, Persisted, Goto, TypeOK
  <2> QED
    BY <1>2, <2>1 DEF FailedOK, ghosts, Early, progress
<1>9. CASE DeletePlannedAgreement(p)
  <2>1. PICK a \in Agreements : DeletePlannedAgreement(p)!(a)
    BY <1>9 DEF DeletePlannedAgreement
  <2>2. /\ pc[p] = "deletingAgreements" /\ UNCHANGED <<pc, subRows, progress, before>>
        /\ disturbed'[p] = disturbed[p]
        /\ a \in todo[p] /\ todo'[p] \subseteq todo[p]
        /\ agrRows' = Drop(agrRows, OfAgreement(a))
    BY <2>1 DEF Stay, Take, Disturb, TypeOK
  <2>3. a \notin failed[p]
    BY <2>2 DEF FailedOK
  <2>4. FailedKept(p) => FailedKept(p)'
    BY <1>1, <2>2, <2>3 DEF FailedKept, SubUntouched, AgrUntouched, Drop, OfAgreement, progress
  <2> QED
    BY <2>2, <2>4 DEF FailedOK, Alone, Early, progress
<1>10. CASE PersistSubscription(p) \/ PersistAgreement(p)
  <2>1. PICK k : \/ subRows' = Add(subRows, kept[p] \cap OfBucket(k)) /\ agrRows' = agrRows
                 \/ agrRows' = Add(agrRows, kept[p] \cap OfBucket(k)) /\ subRows' = subRows
    BY <1>10 DEF PersistSubscription, PersistAgreement, Accumulation
  <2>2. /\ UNCHANGED <<plan, kept, failed, hasErrors, pushed, before>>
        /\ disturbed'[p] = disturbed[p]
        /\ pc[p] \in Persisting /\ pc'[p] \in Persisting
    BY <1>10 DEF PersistSubscription, PersistAgreement, Goto, Disturb, TypeOK, Persisting
  <2>3. \A c \in Charges : AgreementOf(c) \in failed[p] => c \notin kept[p]
    BY DEF FailedOK
  <2>4. FailedKept(p) => FailedKept(p)'
    BY <1>1, <2>1, <2>2, <2>3 DEF FailedKept, SubUntouched, AgrUntouched, Add, Persisting
  <2> QED
    BY <2>2, <2>4 DEF FailedOK, Alone, Early, Persisting
<1>11. CASE UpdateEstimates(p)
  <2>1. /\ UNCHANGED <<tables, ghosts, plan, kept, failed>> /\ pc[p] = "estimating"
        /\ pc'[p] \in {"done", "pruningSubscriptions"}
        /\ pushed'[p] \subseteq Updatable(p) /\ (hasErrors[p] => hasErrors'[p])
    BY <1>11 DEF UpdateEstimates, Goto, TypeOK
  <2>2. Updatable(p) \subseteq {SubscriptionOf[c] : c \in kept[p]}
    BY DEF Updatable
  <2> QED
    BY <1>2, <2>1, <2>2 DEF FailedOK, ghosts, Early
<1>12. CASE PruneSubscriptions(p) \/ PruneAgreements(p)
  <2>1. /\ UNCHANGED <<progress, before>> /\ pc[p] # "idle"
        /\ disturbed'[p] = disturbed[p] /\ pc'[p] \in {"done", "pruningAgreements"}
    BY <1>12 DEF PruneSubscriptions, PruneAgreements, Goto, Disturb, TypeOK
  <2>2. \A c \in Charges : Retained(p, c) => subRows'[c] = subRows[c] /\ agrRows'[c] = agrRows[c]
    BY <1>12, RetainedIsStorable DEF PruneSubscriptions, PruneAgreements, Drop
  <2>3. FailedKept(p) => FailedKept(p)'
    BY <1>1, <2>1, <2>2 DEF FailedKept, SubUntouched, AgrUntouched, progress
  <2> QED
    BY <2>1, <2>3 DEF FailedOK, Alone, Early, progress
<1>13. CASE \/ DeleteSubscriptionScope(p) \/ DeleteStoredSubscription(p)
            \/ DeleteOpenAgreement(p) \/ Deleted(p)
  <2>1. /\ pc[p] \in Early /\ pc'[p] \in {"done", "deleting", "deletingStored"}
        /\ UNCHANGED <<kept, failed, hasErrors, pushed>>
    BY <1>13 DEF DeleteSubscriptionScope, DeleteStoredSubscription, DeleteOpenAgreement, Deleted,
                 Goto, Stay, TypeOK, progress, Early
  <2>2. failed[p] = {} /\ pushed[p] = {}
    BY <2>1 DEF FailedOK
  <2> QED
    BY <2>1, <2>2 DEF FailedOK, FailedKept
<1>14. CASE Stop(p) \/ RunRaises(p)
  <2>1. pc[p] # "idle" /\ pc'[p] = "stopped" /\ UNCHANGED <<tables, ghosts, progress>>
    BY <1>14 DEF Stop, RunRaises, Goto, TypeOK, progress, Working
  <2> QED
    BY <1>2, <2>1 DEF FailedOK, ghosts, progress, Early
<1> QED
  BY <1>3, <1>4, <1>5, <1>6, <1>7, <1>8, <1>9, <1>10, <1>11, <1>12, <1>13, <1>14 DEF Work

(***************************************************************************)
(* An agreement a recalculate reports as failed keeps its rows at every    *)
(* moment, pushes nothing of its own, and shows in the command's outcome   *)
(* (pipeline.py, _without_agreements).                                     *)
(***************************************************************************)
THEOREM FailedKeepTheirRows == Spec => []FailedAgreementsUntouched
<1> DEFINE Inv == \A p \in Commands : FailedOK(p)
<1>1. Init => Inv
  BY DEF Init, FailedOK, Alone, Early
<1>2. TypeOK /\ QuietInv /\ Inv /\ [Next]_vars => Inv'
  <2> SUFFICES ASSUME TypeOK, QuietInv, Inv, [Next]_vars, NEW p \in Commands PROVE FailedOK(p)'
    OBVIOUS
  <2>1. CASE UNCHANGED vars
    BY <2>1 DEF vars, tables, progress, ghosts, FailedOK, FailedKept, Retained, Alone,
                SubUntouched, AgrUntouched
  <2>2. CASE \E q \in Commands : q # p /\ (Work(q) \/ Stop(q))
    BY <2>2, FailedKeptByOthers
  <2>3. CASE Work(p) \/ Stop(p)
    BY <2>3, FailedKeepsItself
  <2> QED
    BY <2>1, <2>2, <2>3 DEF Next
<1>3. TypeOK /\ Inv => FailedAgreementsUntouched
  <2> SUFFICES ASSUME TypeOK, NEW p \in Commands, FailedOK(p), Alone(p)
               PROVE  /\ FailedKept(p)
                      /\ \A s \in pushed[p] :
                           \E c \in OfSubscription(s) : AgreementOf(c) \notin failed[p]
                      /\ failed[p] # {} => hasErrors[p]
    BY DEF FailedAgreementsUntouched, FailedKept
  <2>1. ASSUME NEW s \in pushed[p]
        PROVE  \E c \in OfSubscription(s) : AgreementOf(c) \notin failed[p]
    <3>1. PICK c \in kept[p] : SubscriptionOf[c] = s
      BY <2>1 DEF FailedOK
    <3>2. c \in OfSubscription(s) /\ AgreementOf(c) \notin failed[p]
      BY <3>1 DEF FailedOK, TypeOK, OfSubscription
    <3> QED
      BY <3>2
  <2> QED
    BY <2>1 DEF FailedOK
<1> QED
  BY <1>1, <1>2, <1>3, Quiet, PTL DEF Spec

-----------------------------------------------------------------------------
(***************************************************************************)
(* A recalculate of one subscription.  Its plan is the subscription and    *)
(* the agreements it is stored under; unless one of these fails its rows   *)
(* go, and come back bucket by bucket.                                     *)
(***************************************************************************)
RebuildsOne(p, s) ==
  /\ job[p].command = "recalculate" /\ ~job[p].dryRun
  /\ job[p].kind = "subscription" /\ job[p].subscriptions = {s}

\* That the charge is to be counted again.
Due(p, s, c) ==
  /\ s \notin Synthetic
  /\ AgreementOf(c) \notin failed[p]
  /\ StatementOf[c] \in job[p].window
  /\ IF StoredBefore(p, s) = {} THEN StatementOf[c] \in job[p].base
                                ELSE AgreementOf(c) \in StoredBefore(p, s)

OneBack(p, s, c) == IF Pending(p, c) THEN 0 ELSE Once(Due(p, s, c))

OneSoFar(p, s, c) ==
  /\ pc[p] \in Deleting \cup Persisting => (c \in kept[p] <=> Due(p, s, c))
  /\ Retained(p, c) =>
       /\ pc[p] = "deletingSubscriptions" => s \in todo[p] \/ subRows[c] = 0
       /\ pc[p] = "deletingAgreements" => subRows[c] = 0
       /\ pc[p] \in Persisting \cup Complete => subRows[c] = OneBack(p, s, c)

OneRebuilt(p, s) == StoredBefore(p, s) \cap failed[p] = {} =>
  \A c \in Charges : SubscriptionOf[c] = s => OneSoFar(p, s, c)

OneOK(p, s) == RebuildsOne(p, s) =>
  /\ pc[p] \notin {"deleting", "deletingStored", "persistingAgreement"}
  /\ pc[p] = "planning" => todo[p] = {}
  /\ plan[p].agreements = {}
  /\ Alone(p) =>
       /\ pc[p] = "accumulating" =>
            /\ plan[p].subscriptions = {s}
            /\ plan[p].statementAgreements = StoredBefore(p, s)
       /\ OneRebuilt(p, s)

LEMMA OneKeptByOthers ==
  ASSUME TypeOK, NEW p \in Commands, NEW s \in Subscriptions, OneOK(p, s),
         NEW q \in Commands, q # p, Work(q) \/ Stop(q)
  PROVE  OneOK(p, s)'
<1>1. /\ job' = job /\ before'[p] = before[p] /\ pc'[p] = pc[p] /\ plan'[p] = plan[p]
      /\ todo'[p] = todo[p] /\ at'[p] = at[p] /\ kept'[p] = kept[p] /\ failed'[p] = failed[p]
      /\ disturbed'[p] \/ (UNCHANGED tables /\ disturbed'[p] = disturbed[p])
  BY OthersLeave
<1>2. Alone(p)' => Alone(p) /\ UNCHANGED tables
  BY <1>1 DEF Alone
<1>3. /\ RebuildsOne(p, s)' <=> RebuildsOne(p, s)
      /\ StoredBefore(p, s)' = StoredBefore(p, s)
  BY <1>1 DEF RebuildsOne, StoredBefore
<1>4. \A c \in Charges : /\ Due(p, s, c)' <=> Due(p, s, c)
                         /\ Retained(p, c)' <=> Retained(p, c)
                         /\ OneBack(p, s, c)' = OneBack(p, s, c)
  BY <1>1, <1>3 DEF Due, Retained, OneBack, Pending, Once
<1>5. ASSUME UNCHANGED tables, OneRebuilt(p, s) PROVE OneRebuilt(p, s)'
  <2>1. ASSUME NEW c \in Charges, OneSoFar(p, s, c) PROVE OneSoFar(p, s, c)'
    BY <1>1, <1>4, <1>5, <2>1 DEF OneSoFar, tables
  <2> QED
    BY <1>1, <1>3, <1>5, <2>1 DEF OneRebuilt
<1> QED
  BY <1>1, <1>2, <1>3, <1>5 DEF OneOK

\* What is accumulated for a subscription none of whose agreements fails.
LEMMA OneAccumulates ==
  ASSUME TypeOK, NEW p \in Commands, NEW s \in Subscriptions, RebuildsOne(p, s), OneOK(p, s),
         Alone(p), AccumulateScope(p), UNCHANGED <<tables, before>>, Untouched(p),
         StoredBefore(p, s) \cap failed'[p] = {}
  PROVE  /\ s \in todo'[p]
         /\ \A c \in Charges : SubscriptionOf[c] = s => (c \in kept'[p] <=> Due(p, s, c)')
<1> DEFINE out == UnsummableAgreements(Selection(p), ChargeFilter(p))
           planned == IF out = {} THEN plan[p] ELSE WithoutAgreements(plan[p], out)
<1>0. /\ pc[p] = "accumulating" /\ job' = job
      /\ failed'[p] = out /\ todo'[p] = planned.subscriptions
      /\ kept'[p] = FilterToReset(Accumulated(Selection(p), ChargeFilter(p)), planned)
  BY DEF AccumulateScope, Goto, TypeOK
<1>1. plan[p].subscriptions = {s} /\ plan[p].statementAgreements = StoredBefore(p, s)
  BY <1>0 DEF OneOK
<1>3. s \in planned.subscriptions
  <2>1. s \notin StoredSubscriptions(out)
    BY <1>0 DEF StoredSubscriptions, StoredBefore, Untouched
  <2> QED
    BY <1>1, <2>1 DEF WithoutAgreements
<1> HIDE DEF planned
<1>4. ASSUME NEW c \in Charges, SubscriptionOf[c] = s
      PROVE  c \in kept'[p] <=> Due(p, s, c)'
  <2>2. StoredBefore(p, s)' = StoredBefore(p, s)
    BY DEF StoredBefore
  <2>3. StatementOf[c] \in Selection(p) <=>
          /\ StatementOf[c] \in job[p].window
          /\ IF StoredBefore(p, s) = {} THEN StatementOf[c] \in job[p].base
                                        ELSE AgreementOf(c) \in StoredBefore(p, s)
    BY <1>1, <1>4, BillingAssumption, ListedByItsAgreement
       DEF Selection, SelectedStatements, AgreementOf, BillingAssumption
  <2>4. Passes(c, ChargeFilter(p)) <=> s \notin Synthetic
    BY <1>1, <1>4 DEF Passes, ChargeFilter, RebuildsOne
  <2>5. c \in kept'[p] <=> c \in Accumulated(Selection(p), ChargeFilter(p))
    BY <1>0, <1>3, <1>4 DEF FilterToReset, Accumulated, ChargesOf
  <2> HIDE DEF out
  <2>6. Due(p, s, c)' <=> /\ s \notin Synthetic
                          /\ AgreementOf(c) \notin out /\ StatementOf[c] \in Selection(p)
    BY <1>0, <2>2, <2>3 DEF Due, AgreementOf
  <2> USE DEF out
  <2> QED
    BY <1>4, <2>4, <2>5, <2>6 DEF Accumulated, ChargesOf
<1> QED
  BY <1>0, <1>3, <1>4

LEMMA OneKeepsItself ==
  ASSUME TypeOK, QuietInv, NEW p \in Commands, NEW s \in Subscriptions,
         RebuildsOne(p, s), OneOK(p, s), Work(p) \/ Stop(p)
  PROVE  OneOK(p, s)'
<1>0. /\ job' = job /\ RebuildsOne(p, s)'
      /\ job[p].command = "recalculate" /\ ~job[p].dryRun
      /\ job[p].kind = "subscription" /\ job[p].subscriptions = {s}
      /\ job[p].agreements = {} /\ plan[p] \in PlanType
  BY JobStays, JobsAssumption DEF RebuildsOne, TypeOK, JobsAssumption
<1>1. ASSUME NEW c \in Charges
      PROVE  subRows[c] \in Nat /\ (Retained(p, c)' <=> Retained(p, c))
  BY <1>0 DEF TypeOK, Retained
<1>2. ASSUME failed'[p] = failed[p], before'[p] = before[p]
      PROVE  /\ StoredBefore(p, s)' = StoredBefore(p, s)
             /\ \A c \in Charges : Due(p, s, c)' <=> Due(p, s, c)
  BY <1>0, <1>2 DEF StoredBefore, Due
<1>15. ASSUME failed'[p] = failed[p], before'[p] = before[p],
              \A c \in Charges : SubscriptionOf[c] = s /\ OneSoFar(p, s, c) => OneSoFar(p, s, c)'
       PROVE  OneRebuilt(p, s) => OneRebuilt(p, s)'
  BY <1>2, <1>15 DEF OneRebuilt
<1>3. CASE Begin(p)
  <2>1. pc'[p] = "planning" /\ todo'[p] = {} /\ UNCHANGED plan
    BY <1>0, <1>3 DEF Begin, Goto, FirstPhase, TypeOK, progress
  <2> QED
    BY <1>0, <2>1 DEF OneOK, OneRebuilt, OneSoFar, Deleting, Persisting, Complete
<1>4. CASE PlanScope(p)
  <2>1. /\ pc[p] = "planning" /\ pc'[p] = "accumulating" /\ UNCHANGED <<tables, ghosts>>
        /\ plan'[p] = [subscriptions       |-> {s},
                       statementAgreements |-> StoredAgreements({s}),
                       agreements          |-> {}]
    BY <1>0, <1>4 DEF PlanScope, Goto, TypeOK
  <2>2. Alone(p) => StoredAgreements({s}) = StoredBefore(p, s)'
    BY <2>1 DEF QuietInv, ReadingInv, Reading, Untouched, StoredAgreements, StoredBefore, ghosts
  <2> QED
    BY <1>0, <2>1, <2>2 DEF OneOK, OneRebuilt, OneSoFar, Alone, ghosts, Deleting, Persisting, Complete
<1>5. CASE AccumulateScope(p)
  <2>1. /\ pc[p] = "accumulating" /\ pc'[p] = "deletingSubscriptions"
        /\ UNCHANGED <<tables, ghosts>>
    BY <1>0, <1>5 DEF AccumulateScope, AfterAccumulating, Goto, TypeOK
  <2>2. plan'[p].agreements = {}
    BY <1>5 DEF AccumulateScope, WithoutAgreements, OneOK, TypeOK
  <2>3. Alone(p) => Untouched(p)
    BY <2>1 DEF QuietInv, ReadingInv, Reading
  <2>4. StoredBefore(p, s)' = StoredBefore(p, s)
    BY <2>1 DEF StoredBefore, ghosts
  <2>5. Alone(p) => OneRebuilt(p, s)'
    BY <1>5, <2>1, <2>3, <2>4, OneAccumulates
       DEF OneRebuilt, OneSoFar, Deleting, Persisting, Complete, ghosts
  <2> QED
    BY <1>0, <2>1, <2>2, <2>5 DEF OneOK, Alone, ghosts
<1>6. CASE DeletePlannedSubscription(p)
  <2>1. PICK x \in Subscriptions : DeletePlannedSubscription(p)!(x)
    BY <1>6 DEF DeletePlannedSubscription
  <2>2. /\ pc[p] = "deletingSubscriptions" /\ UNCHANGED <<pc, plan, kept, failed, before>>
        /\ disturbed'[p] = disturbed[p] /\ todo'[p] = todo[p] \ {x}
        /\ subRows' = Drop(subRows, OfSubscription(x))
    BY <2>1 DEF Stay, Take, Disturb, TypeOK, progress
  <2>3. ASSUME NEW c \in Charges, SubscriptionOf[c] = s, s \in todo[p] \/ subRows[c] = 0
        PROVE  s \in todo'[p] \/ subRows'[c] = 0
    BY <2>2, <2>3 DEF OfSubscription, Drop
  <2>5. ASSUME NEW c \in Charges, SubscriptionOf[c] = s, OneSoFar(p, s, c)
        PROVE  OneSoFar(p, s, c)'
    BY <1>1, <1>2, <2>2, <2>3, <2>5 DEF OneSoFar, Deleting, Persisting, Complete
  <2>4. OneRebuilt(p, s) => OneRebuilt(p, s)'
    BY <1>15, <2>2, <2>5
  <2> QED
    BY <1>0, <2>2, <2>4 DEF OneOK, Alone
<1>7. CASE SubscriptionsDeleted(p)
  <2>1. /\ pc[p] = "deletingSubscriptions" /\ pc'[p] = "deletingAgreements" /\ todo[p] = {}
        /\ UNCHANGED <<tables, ghosts, plan, kept, failed>>
    BY <1>7 DEF SubscriptionsDeleted, Goto, TypeOK, progress
  <2>3. ASSUME NEW c \in Charges, SubscriptionOf[c] = s, OneSoFar(p, s, c)
        PROVE  OneSoFar(p, s, c)'
    BY <1>1, <1>2, <2>1, <2>3 DEF OneSoFar, Deleting, Persisting, Complete, tables, ghosts
  <2>2. OneRebuilt(p, s) => OneRebuilt(p, s)'
    BY <1>15, <2>1, <2>3 DEF ghosts
  <2> QED
    BY <1>0, <2>1, <2>2 DEF OneOK, Alone, ghosts
<1>8. CASE DeletePlannedAgreement(p)
  <2>1. /\ pc[p] = "deletingAgreements"
        /\ UNCHANGED <<pc, subRows, plan, kept, failed, before>>
        /\ disturbed'[p] = disturbed[p]
    BY <1>8 DEF DeletePlannedAgreement, Stay, Disturb, TypeOK, progress
  <2>3. ASSUME NEW c \in Charges, SubscriptionOf[c] = s, OneSoFar(p, s, c)
        PROVE  OneSoFar(p, s, c)'
    BY <1>1, <1>2, <2>1, <2>3 DEF OneSoFar, Deleting, Persisting, Complete
  <2>2. OneRebuilt(p, s) => OneRebuilt(p, s)'
    BY <1>15, <2>1, <2>3
  <2> QED
    BY <1>0, <2>1, <2>2 DEF OneOK, Alone
<1>9. CASE AgreementsDeleted(p)
  <2>1. /\ pc[p] = "deletingAgreements" /\ pc'[p] = "persisting"
        /\ UNCHANGED <<tables, ghosts, plan, kept, failed>>
        /\ todo'[p] = {Key(c) : c \in {d \in kept[p] : Storable(d)}}
    BY <1>9 DEF AgreementsDeleted, Goto, TypeOK, progress
  <2>2. ASSUME NEW c \in Charges, Retained(p, c), c \in kept[p] <=> Due(p, s, c)
        PROVE  OneBack(p, s, c)' = 0
    <3>1. Due(p, s, c) => Key(c) \in todo'[p]
      BY <2>1, <2>2, RetainedIsStorable
    <3> QED
      BY <1>2, <2>1, <3>1 DEF OneBack, Pending, Persisting, Once, ghosts
  <2>4. ASSUME NEW c \in Charges, SubscriptionOf[c] = s, OneSoFar(p, s, c)
        PROVE  OneSoFar(p, s, c)'
    BY <1>1, <1>2, <2>1, <2>2, <2>4 DEF OneSoFar, Deleting, Persisting, Complete, tables, ghosts
  <2>3. OneRebuilt(p, s) => OneRebuilt(p, s)'
    BY <1>15, <2>1, <2>4 DEF ghosts
  <2> QED
    BY <1>0, <2>1, <2>3 DEF OneOK, Alone, ghosts
<1>10. CASE PersistSubscription(p)
  <2>1. PICK k \in Keys : PersistSubscription(p)!(k)
    BY <1>10 DEF PersistSubscription
  <2>2. ~WritesAgreement(p, k)
    BY <1>0 DEF WritesAgreement, OneOK
  <2>3. /\ pc[p] = "persisting" /\ pc'[p] = "persisting"
        /\ k \in todo[p] /\ todo'[p] = todo[p] \ {k}
        /\ UNCHANGED <<plan, kept, failed, before>>
        /\ disturbed'[p] = disturbed[p]
        /\ subRows' = Add(subRows, kept[p] \cap OfBucket(k))
    BY <2>1, <2>2 DEF Accumulation, Take, Disturb, TypeOK
  <2>4. ASSUME NEW c \in Charges, c \in kept[p] <=> Due(p, s, c), subRows[c] = OneBack(p, s, c)
        PROVE  subRows'[c] = OneBack(p, s, c)'
    <3>1. Due(p, s, c)' <=> Due(p, s, c)
      BY <1>2, <2>3
    <3>2. CASE Key(c) = k
      BY <2>3, <2>4, <3>1, <3>2, <1>1 DEF OneBack, Pending, Persisting, Once, Add, OfBucket
    <3>3. CASE Key(c) # k
      BY <2>3, <2>4, <3>1, <3>3, <1>1 DEF OneBack, Pending, Persisting, Once, Add, OfBucket
    <3> QED
      BY <3>2, <3>3
  <2>6. ASSUME NEW c \in Charges, SubscriptionOf[c] = s, OneSoFar(p, s, c)
        PROVE  OneSoFar(p, s, c)'
    BY <1>1, <1>2, <2>3, <2>4, <2>6 DEF OneSoFar, Deleting, Persisting, Complete
  <2>5. OneRebuilt(p, s) => OneRebuilt(p, s)'
    BY <1>15, <2>3, <2>6
  <2> QED
    BY <1>0, <2>3, <2>5 DEF OneOK, Alone
<1>11. CASE Persisted(p) \/ UpdateEstimates(p)
  <2>1. /\ UNCHANGED <<tables, ghosts, failed, plan>>
        /\ pc[p] \in {"persisting", "estimating"}
        /\ pc'[p] \in {"estimating", "pruningSubscriptions"}
        /\ pc[p] = "persisting" => todo[p] = {}
    BY <1>0, <1>11 DEF Persisted, UpdateEstimates, Goto, TypeOK, progress
  <2>2. \A c \in Charges : OneBack(p, s, c)' = OneBack(p, s, c)
    BY <1>2, <2>1 DEF OneBack, Pending, Persisting, Once, ghosts
  <2>4. ASSUME NEW c \in Charges, SubscriptionOf[c] = s, OneSoFar(p, s, c)
        PROVE  OneSoFar(p, s, c)'
    BY <1>1, <1>2, <2>1, <2>2, <2>4 DEF OneSoFar, Deleting, Persisting, Complete, tables, ghosts
  <2>3. OneRebuilt(p, s) => OneRebuilt(p, s)'
    BY <1>15, <2>1, <2>4 DEF ghosts
  <2> QED
    BY <1>0, <2>1, <2>3 DEF OneOK, Alone, ghosts
<1>12. CASE PruneSubscriptions(p) \/ PruneAgreements(p)
  <2>1. /\ UNCHANGED <<failed, before, plan>> /\ disturbed'[p] = disturbed[p]
        /\ pc[p] \in {"pruningSubscriptions", "pruningAgreements"}
        /\ pc'[p] \in {"pruningAgreements", "done"}
    BY <1>12 DEF PruneSubscriptions, PruneAgreements, Goto, Disturb, TypeOK, progress
  <2>2. \A c \in Charges : Retained(p, c) => subRows'[c] = subRows[c]
    BY <1>12, RetainedIsStorable DEF PruneSubscriptions, PruneAgreements, Drop
  <2>3. \A c \in Charges : OneBack(p, s, c)' = OneBack(p, s, c)
    BY <1>2, <2>1 DEF OneBack, Pending, Persisting, Once
  <2>5. ASSUME NEW c \in Charges, SubscriptionOf[c] = s, OneSoFar(p, s, c)
        PROVE  OneSoFar(p, s, c)'
    BY <1>1, <1>2, <2>1, <2>2, <2>3, <2>5 DEF OneSoFar, Deleting, Persisting, Complete
  <2>4. OneRebuilt(p, s) => OneRebuilt(p, s)'
    BY <1>15, <2>1, <2>5
  <2> QED
    BY <1>0, <2>1, <2>4 DEF OneOK, Alone
<1>13. CASE Stop(p) \/ RunRaises(p)
  <2>1. pc'[p] = "stopped" /\ UNCHANGED plan
    BY <1>13 DEF Stop, RunRaises, Goto, TypeOK, progress
  <2> QED
    BY <1>0, <2>1 DEF OneOK, OneRebuilt, OneSoFar, Deleting, Persisting, Complete
<1>14. ~(\/ PlanAgreement(p) \/ AccumulateRun(p) \/ PersistAgreement(p)
         \/ DeleteSubscriptionScope(p) \/ OpenAgreement(p)
         \/ DeleteStoredSubscription(p) \/ DeleteOpenAgreement(p) \/ Deleted(p))
  BY <1>0 DEF PlanAgreement, AccumulateRun, PersistAgreement, DeleteSubscriptionScope,
              OpenAgreement, DeleteStoredSubscription, DeleteOpenAgreement, Deleted, Goto, Stay,
              Take, OneOK
<1> QED
  BY <1>3, <1>4, <1>5, <1>6, <1>7, <1>8, <1>9, <1>10, <1>11, <1>12, <1>13, <1>14 DEF Work

(***************************************************************************)
(* A completed recalculate of a subscription leaves its charges counted as *)
(* the window and the agreements it was stored under say, unless one of    *)
(* these failed (pipeline.py, plan_reset and _refill).                     *)
(***************************************************************************)
THEOREM OneRebuiltExactly == Spec => []SubscriptionRebuildIsExact
<1> DEFINE Inv == \A p \in Commands, s \in Subscriptions : OneOK(p, s)
<1>1. Init => Inv
  BY DEF Init, OneOK, Alone, NoPlan
<1>2. TypeOK /\ QuietInv /\ Inv /\ [Next]_vars => Inv'
  <2> SUFFICES ASSUME TypeOK, QuietInv, Inv, [Next]_vars,
                      NEW p \in Commands, NEW s \in Subscriptions
               PROVE  OneOK(p, s)'
    OBVIOUS
  <2>1. CASE UNCHANGED vars
    <3>1. UNCHANGED <<subRows, job, pc, plan, todo, kept, failed, before, disturbed>>
      BY <2>1 DEF vars, tables, progress, ghosts
    <3>2. /\ RebuildsOne(p, s)' <=> RebuildsOne(p, s)
          /\ StoredBefore(p, s)' = StoredBefore(p, s)
          /\ Alone(p)' <=> Alone(p)
      BY <3>1 DEF RebuildsOne, StoredBefore, Alone
    <3>3. \A c \in Charges : Due(p, s, c)' <=> Due(p, s, c)
      BY <3>1, <3>2 DEF Due
    <3>4. \A c \in Charges : OneSoFar(p, s, c) => OneSoFar(p, s, c)'
      BY <3>1, <3>3 DEF OneSoFar, OneBack, Retained, Pending, Once
    <3>5. OneRebuilt(p, s) => OneRebuilt(p, s)'
      BY <3>1, <3>2, <3>4 DEF OneRebuilt
    <3> QED
      BY <3>1, <3>2, <3>5 DEF OneOK
  <2>2. CASE \E q \in Commands : q # p /\ (Work(q) \/ Stop(q))
    BY <2>2, OneKeptByOthers
  <2>3. CASE Work(p) \/ Stop(p)
    <3>1. CASE RebuildsOne(p, s)
      BY <2>3, <3>1, OneKeepsItself
    <3>2. CASE ~RebuildsOne(p, s)
      BY <2>3, <3>2, JobStays DEF OneOK, RebuildsOne
    <3> QED
      BY <3>1, <3>2
  <2> QED
    BY <2>1, <2>2, <2>3 DEF Next
<1>3. TypeOK /\ Inv => SubscriptionRebuildIsExact
  <2> SUFFICES ASSUME TypeOK, Inv, NEW p \in Commands, Alone(p), pc[p] = "done",
                      job[p].command = "recalculate", ~job[p].dryRun,
                      NEW c \in Charges, Retained(p, c),
                      SubscriptionOf[c] \in job[p].subscriptions,
                      StoredBefore(p, SubscriptionOf[c]) \cap failed[p] = {}
               PROVE  subRows[c] = Once(Due(p, SubscriptionOf[c], c))
    BY DEF SubscriptionRebuildIsExact, Due
  <2> DEFINE s == SubscriptionOf[c]
  <2>1. s \in Subscriptions /\ RebuildsOne(p, s)
    BY BillingAssumption, JobsAssumption
       DEF TypeOK, BillingAssumption, JobsAssumption, RebuildsOne
  <2>2. OneRebuilt(p, s)
    BY <2>1 DEF OneOK
  <2> QED
    BY <2>2 DEF OneRebuilt, OneSoFar, OneBack, Pending, Persisting, Complete
<1> QED
  BY <1>1, <1>2, <1>3, Quiet, PTL DEF Spec

-----------------------------------------------------------------------------
(***************************************************************************)
(* The estimates of a command without errors.  Nothing it was asked for is *)
(* left out of what it accumulates, and it misses no upload.               *)
(***************************************************************************)
AfterCollecting ==
  {"deletingSubscriptions", "deletingAgreements", "persisting", "persistingAgreement",
   "estimating", "pruningSubscriptions", "pruningAgreements", "done"}
Uploaded == {"pruningSubscriptions", "pruningAgreements", "done"}

\* That the command must count the charge, of a real subscription.
AskedFor(p, c) ==
  /\ SubscriptionOf[c] \notin Synthetic
  /\ \/ job[p].command = "run" /\ Collected(job[p], c)
     \/ AgreementOf(c) \in job[p].agreements /\ StatementOf[c] \in job[p].window
     \/ SubscriptionOf[c] \in job[p].subscriptions /\ StatementOf[c] \in Selection(p)

CleanOK(p) == ~job[p].dryRun /\ job[p].command \in {"run", "recalculate"} =>
  /\ pc[p] \notin {"deleting", "deletingStored"}
  /\ pc[p] = "accumulating" /\ job[p].command = "recalculate" /\ job[p].kind = "agreements" =>
       plan[p].statementAgreements = job[p].agreements
  /\ pc[p] = "accumulating" /\ job[p].command = "recalculate" /\ job[p].kind = "subscription" =>
       plan[p].subscriptions = job[p].subscriptions
  /\ pc[p] \in AfterCollecting /\ ~hasErrors[p] => \A c \in Charges : AskedFor(p, c) => c \in kept[p]
  /\ pc[p] \in Uploaded /\ ~hasErrors[p] => Updatable(p) \subseteq pushed[p]

\* What an accumulation leaves out it reports.
LEMMA CleanAccumulates ==
  ASSUME TypeOK, QuietInv, NEW p \in Commands, CleanOK(p), AccumulateRun(p) \/ AccumulateScope(p),
         ~job[p].dryRun, ~hasErrors'[p], NEW c \in Charges, AskedFor(p, c)
  PROVE  c \in kept'[p]
<1>0. job[p] \in Jobs /\ StatementOf[c] \in Statements
  BY BillingAssumption DEF TypeOK, BillingAssumption
<1>1. CASE AccumulateRun(p)
  <2>1. AskedFor(p, c) => Collected(job[p], c)
    BY <1>0, <1>1, JobsAssumption DEF AccumulateRun, AskedFor, JobsAssumption
  <2>2. plan[p].statementAgreements = {}
    BY <1>1 DEF AccumulateRun, QuietInv, ReadingInv
  <2> QED
    BY <1>1, <2>1, <2>2, RunCollects DEF AccumulateRun, TypeOK
<1>2. CASE AccumulateScope(p)
  <2>1. /\ job[p].command = "recalculate" /\ pc[p] = "accumulating"
        /\ UnsummableAgreements(Selection(p), ChargeFilter(p)) = {}
        /\ kept'[p] = FilterToReset(Accumulated(Selection(p), ChargeFilter(p)), plan[p])
    BY <1>2 DEF AccumulateScope, Goto, TypeOK
  <2>2. /\ StatementOf[c] \in Selection(p) /\ Passes(c, ChargeFilter(p))
        /\ \/ SubscriptionOf[c] \in plan[p].subscriptions
           \/ AgreementOf(c) \in plan[p].statementAgreements
    <3>1. CASE job[p].kind = "agreements"
      <4>1. AgreementOf(c) \in job[p].agreements /\ StatementOf[c] \in job[p].window
        BY <1>0, <2>1, <3>1, JobsAssumption DEF AskedFor, JobsAssumption
      <4>2. plan[p].statementAgreements = job[p].agreements
        BY <2>1, <3>1 DEF CleanOK
      <4> QED
        BY <3>1, <4>1, <4>2, ListedByItsAgreement
           DEF Selection, SelectedStatements, AgreementOf, Passes, ChargeFilter
    <3>2. CASE job[p].kind = "subscription"
      <4>1. /\ SubscriptionOf[c] \in job[p].subscriptions \ Synthetic
            /\ StatementOf[c] \in Selection(p)
        BY <1>0, <2>1, <3>2, JobsAssumption DEF AskedFor, JobsAssumption
      <4>2. plan[p].subscriptions = job[p].subscriptions
        BY <2>1, <3>2 DEF CleanOK
      <4> QED
        BY <3>2, <4>1, <4>2 DEF Passes, ChargeFilter
    <3> QED
      BY <1>0, <2>1, <3>1, <3>2, JobsAssumption DEF JobsAssumption, JobType
  <2> QED
    BY <2>1, <2>2 DEF Accumulated, ChargesOf, FilterToReset
<1> QED
  BY <1>1, <1>2

LEMMA CleanKeptByOthers ==
  ASSUME TypeOK, NEW p \in Commands, CleanOK(p), NEW q \in Commands, q # p,
         Work(q) \/ Stop(q)
  PROVE  CleanOK(p)'
<1>1. /\ job' = job /\ pc'[p] = pc[p] /\ plan'[p] = plan[p] /\ kept'[p] = kept[p]
      /\ pushed'[p] = pushed[p] /\ hasErrors'[p] = hasErrors[p]
  BY OthersLeave, OthersLeaveFlags
<1> QED
  BY <1>1 DEF CleanOK, AskedFor, Collected, Updatable, Selection

LEMMA CleanKeepsItself ==
  ASSUME TypeOK, QuietInv, NEW p \in Commands, ~job[p].dryRun,
         job[p].command \in {"run", "recalculate"}, CleanOK(p), Work(p) \/ Stop(p)
  PROVE  CleanOK(p)'
<1>0. job' = job /\ job[p] \in Jobs
  BY JobStays DEF TypeOK
<1>1. ASSUME NEW c \in Charges, plan'[p] = plan[p]
      PROVE  AskedFor(p, c)' <=> AskedFor(p, c)
  BY <1>0, <1>1 DEF AskedFor, Collected, Selection
<1>2. CASE Begin(p)
  <2>1. pc'[p] \in {"planning", "accumulating"}
        /\ (pc'[p] = "accumulating" => job[p].command = "run")
    BY <1>2 DEF Begin, Goto, FirstPhase, TypeOK
  <2> QED
    BY <1>0, <2>1 DEF CleanOK, AfterCollecting, Uploaded
<1>3. CASE PlanAgreement(p)
  <2>1. pc'[p] = "planning"
    BY <1>3 DEF PlanAgreement, Stay
  <2> QED
    BY <2>1 DEF CleanOK, AfterCollecting, Uploaded
<1>4. CASE PlanScope(p)
  <2>1. pc'[p] = "accumulating"
    BY <1>4 DEF PlanScope, Goto, TypeOK
  <2>2. /\ job[p].kind = "agreements" => plan'[p].statementAgreements = job[p].agreements
        /\ job[p].kind = "subscription" => plan'[p].subscriptions = job[p].subscriptions
    BY <1>4 DEF PlanScope, TypeOK
  <2> QED
    BY <1>0, <2>1, <2>2 DEF CleanOK, AfterCollecting, Uploaded
<1>5. CASE AccumulateRun(p) \/ AccumulateScope(p)
  <2>1. pc'[p] \in {"persisting", "deletingSubscriptions"}
    BY <1>5 DEF AccumulateRun, AccumulateScope, AfterAccumulating, Goto, TypeOK
  <2>2. ~hasErrors'[p] =>
          /\ \A c \in Charges : AskedFor(p, c) => c \in kept'[p]
          /\ plan'[p] = plan[p]
    BY <1>5, CleanAccumulates DEF AccumulateRun, AccumulateScope, TypeOK
  <2> QED
    BY <1>0, <1>1, <2>1, <2>2 DEF CleanOK, Uploaded
<1>6. CASE RunRaises(p) \/ Stop(p)
  <2>1. pc'[p] = "stopped"
    BY <1>6 DEF RunRaises, Stop, Goto, TypeOK
  <2> QED
    BY <2>1 DEF CleanOK, AfterCollecting, Uploaded
<1>7. CASE \/ DeletePlannedSubscription(p) \/ SubscriptionsDeleted(p)
           \/ DeletePlannedAgreement(p) \/ AgreementsDeleted(p)
           \/ PersistSubscription(p) \/ PersistAgreement(p) \/ Persisted(p)
  <2>1. /\ pc[p] \in AfterCollecting /\ pc'[p] \in AfterCollecting \ Uploaded
        /\ UNCHANGED <<plan, kept, hasErrors>>
    BY <1>7 DEF DeletePlannedSubscription, SubscriptionsDeleted, DeletePlannedAgreement,
                AgreementsDeleted, PersistSubscription, PersistAgreement, Persisted,
                Goto, Stay, TypeOK, progress, AfterCollecting, Uploaded
  <2> QED
    BY <1>0, <1>1, <2>1 DEF CleanOK, AfterCollecting, Uploaded
<1>8. CASE UpdateEstimates(p)
  <2>1. PICK failures \in SUBSET Updatable(p) : UpdateEstimates(p)!(failures)
    BY <1>8 DEF UpdateEstimates
  <2>2. /\ pc[p] = "estimating" /\ pc'[p] = "pruningSubscriptions" /\ UNCHANGED <<plan, kept>>
        /\ ~hasErrors'[p] => ~hasErrors[p] /\ pushed'[p] = Updatable(p)
    BY <2>1 DEF Goto, TypeOK
  <2>3. Updatable(p)' = Updatable(p)
    BY <2>2 DEF Updatable
  <2> QED
    BY <1>0, <1>1, <2>2, <2>3 DEF CleanOK, AfterCollecting
<1>9. CASE PruneSubscriptions(p) \/ PruneAgreements(p)
  <2>1. /\ pc[p] \in Uploaded /\ pc'[p] \in Uploaded
        /\ UNCHANGED <<plan, kept, hasErrors, pushed>>
    BY <1>9 DEF PruneSubscriptions, PruneAgreements, Goto, TypeOK, progress, Uploaded
  <2>2. Updatable(p)' = Updatable(p)
    BY <2>1 DEF Updatable
  <2> QED
    BY <1>0, <1>1, <2>1, <2>2 DEF CleanOK, AfterCollecting, Uploaded
<1>10. ~(\/ DeleteSubscriptionScope(p) \/ OpenAgreement(p) \/ DeleteStoredSubscription(p)
         \/ DeleteOpenAgreement(p) \/ Deleted(p))
  BY DEF DeleteSubscriptionScope, OpenAgreement, DeleteStoredSubscription,
         DeleteOpenAgreement, Deleted, Goto, Stay, CleanOK
<1> QED
  BY <1>2, <1>3, <1>4, <1>5, <1>6, <1>7, <1>8, <1>9, <1>10 DEF Work

(***************************************************************************)
(* A run or recalculate that ends without errors has pushed the estimate   *)
(* of every real subscription it was to count a charge for, whatever the   *)
(* other commands did meanwhile (pipeline.py, _accumulate_isolating and    *)
(* update_estimates).                                                      *)
(***************************************************************************)
THEOREM CleanEndHasPushed == Spec => []CleanEndPushedEstimates
<1> DEFINE Inv == \A p \in Commands : CleanOK(p)
<1>1. Init => Inv
  BY DEF Init, CleanOK, AfterCollecting, Uploaded
<1>2. TypeOK /\ QuietInv /\ Inv /\ [Next]_vars => Inv'
  <2> SUFFICES ASSUME TypeOK, QuietInv, Inv, [Next]_vars, NEW p \in Commands
               PROVE  CleanOK(p)'
    OBVIOUS
  <2>1. CASE UNCHANGED vars
    BY <2>1 DEF vars, progress, CleanOK, AskedFor, Collected, Updatable, Selection
  <2>2. CASE \E q \in Commands : q # p /\ (Work(q) \/ Stop(q))
    BY <2>2, CleanKeptByOthers
  <2>3. CASE Work(p) \/ Stop(p)
    <3>1. CASE ~job[p].dryRun /\ job[p].command \in {"run", "recalculate"}
      BY <2>3, <3>1, CleanKeepsItself
    <3>2. CASE ~(~job[p].dryRun /\ job[p].command \in {"run", "recalculate"})
      BY <2>3, <3>2, JobStays DEF CleanOK
    <3> QED
      BY <3>1, <3>2
  <2> QED
    BY <2>1, <2>2, <2>3 DEF Next
<1>3. Inv => CleanEndPushedEstimates
  BY DEF CleanEndPushedEstimates, CleanOK, AskedFor, AfterCollecting, Uploaded, Updatable
<1> QED
  BY <1>1, <1>2, <1>3, Quiet, PTL DEF Spec

-----------------------------------------------------------------------------
(***************************************************************************)
(* Where a command writes.  What it still has to work through, and what it *)
(* has accumulated, lies within its selector or window.                    *)
(***************************************************************************)
\* Each subscription is billed under one agreement.
OneAgreementEach ==
  \A c, d \in Charges : SubscriptionOf[c] = SubscriptionOf[d] => AgreementOf(c) = AgreementOf(d)

Covers(p, c) == \/ AgreementOf(c) \in job[p].agreements
                \/ SubscriptionOf[c] \in job[p].subscriptions

CoversAll(p, subscriptions) ==
  \A c \in Charges : SubscriptionOf[c] \in subscriptions => Covers(p, c)

CoverOK(p) ==
  /\ job[p].command = "delete" =>
       pc[p] \in {"idle", "deleting", "deletingStored", "done", "stopped"}
  /\ CoversAll(p, plan[p].subscriptions)
  /\ plan[p].agreements \subseteq job[p].agreements
  /\ job[p].kind = "agreements" => plan[p].statementAgreements \subseteq job[p].agreements
  /\ pc[p] = "accumulating" /\ job[p].command = "recalculate" /\ job[p].kind = "subscription" =>
       plan[p].subscriptions = job[p].subscriptions
  /\ pc[p] \in {"planning", "deleting", "deletingStored", "deletingAgreements"} =>
       todo[p] \subseteq job[p].agreements
  /\ pc[p] = "deletingSubscriptions" => CoversAll(p, todo[p])
  /\ pc[p] = "deletingStored" => at[p] \in job[p].agreements
  /\ pc[p] = "persistingAgreement" => WritesAgreement(p, at[p])
  /\ \A c \in kept[p] : Covers(p, c) \/ (job[p].command = "run" /\ Collected(job[p], c))
  /\ job[p].command = "run" => \A c \in kept[p] : Collected(job[p], c)

LEMMA CoverKeptByOthers ==
  ASSUME TypeOK, NEW p \in Commands, CoverOK(p), NEW q \in Commands, q # p,
         Work(q) \/ Stop(q)
  PROVE  CoverOK(p)'
<1>1. /\ job' = job /\ pc'[p] = pc[p] /\ plan'[p] = plan[p] /\ kept'[p] = kept[p]
      /\ todo'[p] = todo[p] /\ at'[p] = at[p]
  BY OthersLeave
<1> QED
  BY <1>1 DEF CoverOK, CoversAll, Covers, Collected, WritesAgreement

\* The subscriptions stored under an agreement of the selector.
LEMMA StoredAreCovered ==
  ASSUME OneAgreementEach, NEW p \in Commands, NEW a \in job[p].agreements
  PROVE  CoversAll(p, StoredSubscriptions({a}))
BY DEF OneAgreementEach, CoversAll, Covers, StoredSubscriptions

LEMMA AccumulatesItsScope ==
  ASSUME TypeOK, NEW p \in Commands, CoverOK(p), AccumulateScope(p)
  PROVE  /\ \A c \in kept'[p] : Covers(p, c)
         /\ plan'[p].subscriptions \subseteq plan[p].subscriptions
         /\ plan'[p].agreements \subseteq plan[p].agreements
         /\ plan'[p].statementAgreements \subseteq plan[p].statementAgreements
         /\ todo'[p] = plan'[p].subscriptions
<1> DEFINE out == UnsummableAgreements(Selection(p), ChargeFilter(p))
           planned == IF out = {} THEN plan[p] ELSE WithoutAgreements(plan[p], out)
<1>1. /\ plan'[p] = planned /\ todo'[p] = planned.subscriptions /\ pc[p] = "accumulating"
      /\ job[p].command = "recalculate"
      /\ kept'[p] = FilterToReset(Accumulated(Selection(p), ChargeFilter(p)), planned)
  BY DEF AccumulateScope, Goto, TypeOK
<1>2. /\ planned.subscriptions \subseteq plan[p].subscriptions
      /\ planned.agreements \subseteq plan[p].agreements
      /\ planned.statementAgreements \subseteq plan[p].statementAgreements
  BY DEF WithoutAgreements
<1> HIDE DEF planned
<1>3. ASSUME NEW c \in kept'[p] PROVE Covers(p, c)
  <2>1. /\ c \in Charges /\ Passes(c, ChargeFilter(p))
        /\ \/ SubscriptionOf[c] \in planned.subscriptions
           \/ AgreementOf(c) \in planned.statementAgreements
    BY <1>1 DEF FilterToReset, Accumulated, ChargesOf
  <2>2. job[p] \in Jobs
    BY DEF TypeOK
  <2>3. CASE job[p].kind = "subscription"
    <3>1. ChargeFilter(p) = job[p].subscriptions /\ job[p].subscriptions # {}
      BY <1>1, <2>2, <2>3, JobsAssumption DEF ChargeFilter, CoverOK, JobsAssumption
    <3> QED
      BY <2>1, <3>1 DEF Passes, Covers
  <2>4. CASE job[p].kind = "agreements"
    BY <1>2, <2>1, <2>4 DEF CoverOK, CoversAll, Covers
  <2> QED
    BY <1>1, <2>2, <2>3, <2>4, JobFields, JobsAssumption DEF JobsAssumption
<1> QED
  BY <1>1, <1>2, <1>3

LEMMA CoverKeepsItself ==
  ASSUME TypeOK, QuietInv, OneAgreementEach, NEW p \in Commands, CoverOK(p), Work(p) \/ Stop(p)
  PROVE  CoverOK(p)'
<1>0. job' = job /\ job[p] \in Jobs
  BY JobStays DEF TypeOK
<1>1. /\ \A c \in Charges : /\ Covers(p, c)' <=> Covers(p, c)
                            /\ Collected(job[p], c)' <=> Collected(job[p], c)
      /\ \A ids : CoversAll(p, ids)' <=> CoversAll(p, ids)
  BY <1>0 DEF Covers, Collected, CoversAll
<1>2. CASE Begin(p)
  <2>1. /\ UNCHANGED progress /\ todo'[p] = job[p].agreements
        /\ pc'[p] \in {"accumulating", "planning", "deleting", "pruningSubscriptions"}
        /\ pc'[p] = "accumulating" => job[p].command = "run"
        /\ job[p].command = "delete" => pc'[p] = "deleting"
    BY <1>0, <1>2, JobFields DEF Begin, Goto, FirstPhase, TypeOK
  <2>2. job[p].command = "run" => job[p].kind = "all"
    BY <1>0, JobsAssumption DEF JobsAssumption
  <2> QED
    BY <1>0, <1>1, <2>1, <2>2 DEF CoverOK, progress, TypeOK
<1>3. CASE PlanAgreement(p)
  <2>1. PICK a \in Agreements : PlanAgreement(p)!(a)
    BY <1>3 DEF PlanAgreement
  <2>2. /\ pc[p] = "planning" /\ UNCHANGED <<pc, at, kept>> /\ a \in todo[p]
        /\ todo'[p] = todo[p] \ {a}
        /\ plan'[p] = [plan[p] EXCEPT !.subscriptions = @ \cup StoredSubscriptions({a})]
    BY <2>1 DEF Stay, Take, TypeOK
  <2>3. plan[p] \in PlanType
    BY DEF TypeOK
  <2>4. /\ plan'[p].subscriptions = plan[p].subscriptions \cup StoredSubscriptions({a})
        /\ plan'[p].agreements = plan[p].agreements
        /\ plan'[p].statementAgreements = plan[p].statementAgreements
    BY <2>2, <2>3 DEF PlanType
  <2>5. CoversAll(p, StoredSubscriptions({a}))
    BY <2>2, StoredAreCovered DEF CoverOK
  <2>6. CoversAll(p, plan'[p].subscriptions)
    BY <2>4, <2>5 DEF CoverOK, CoversAll
  <2> QED
    BY <1>0, <1>1, <2>2, <2>4, <2>6 DEF CoverOK, TypeOK
<1>4. CASE PlanScope(p)
  <2>1. pc[p] = "planning" /\ pc'[p] = "accumulating" /\ UNCHANGED <<at, kept>>
    BY <1>4 DEF PlanScope, Goto, TypeOK
  <2>2. CASE job[p].kind = "subscription"
    <3>1. plan'[p] = [subscriptions       |-> job[p].subscriptions,
                      statementAgreements |-> StoredAgreements(job[p].subscriptions),
                      agreements          |-> {}]
      BY <1>4, <2>2 DEF PlanScope, TypeOK
    <3>2. CoversAll(p, plan'[p].subscriptions)
      BY <3>1 DEF CoversAll, Covers
    <3> QED
      BY <1>0, <1>1, <2>1, <2>2, <3>1, <3>2 DEF CoverOK, TypeOK
  <2>3. CASE job[p].kind # "subscription"
    <3>1. plan'[p] = [subscriptions       |-> plan[p].subscriptions,
                      statementAgreements |-> job[p].agreements,
                      agreements          |-> job[p].agreements]
      BY <1>4, <2>3 DEF PlanScope, TypeOK
    <3> QED
      BY <1>0, <1>1, <2>1, <2>3, <3>1 DEF CoverOK, TypeOK
  <2> QED
    BY <2>2, <2>3
<1>5. CASE AccumulateRun(p)
  <2>1. /\ job[p].command = "run" /\ pc'[p] = "persisting" /\ UNCHANGED <<plan, at>>
        /\ kept'[p] = ChargesOf(Selection(p), {})
    BY <1>5 DEF AccumulateRun, Goto, TypeOK
  <2>2. \A c \in kept'[p] : c \in Charges /\ Collected(job[p], c)
    BY <2>1, RunCollects DEF QuietInv, ReadingInv
  <2> QED
    BY <1>0, <1>1, <2>1, <2>2 DEF CoverOK
<1>6. CASE AccumulateScope(p)
  <2>1. /\ job[p].command = "recalculate" /\ UNCHANGED at
        /\ pc'[p] \in {"estimating", "deletingSubscriptions"}
    BY <1>6 DEF AccumulateScope, AfterAccumulating, Goto, TypeOK
  <2>2. kept'[p] \subseteq Charges
    BY <1>6 DEF AccumulateScope, TypeOK, FilterToReset, Accumulated, ChargesOf
  <2>3. CoversAll(p, plan'[p].subscriptions)
    BY <1>6, AccumulatesItsScope DEF CoverOK, CoversAll
  <2> QED
    BY <1>0, <1>1, <1>6, <2>1, <2>2, <2>3, AccumulatesItsScope DEF CoverOK
<1>7. CASE \/ RunRaises(p) \/ Stop(p) \/ Persisted(p) \/ UpdateEstimates(p)
           \/ PruneSubscriptions(p) \/ PruneAgreements(p)
           \/ DeleteSubscriptionScope(p) \/ Deleted(p)
  <2>1. /\ UNCHANGED <<plan, at, kept>>
        /\ pc'[p] \in {"stopped", "estimating", "pruningSubscriptions", "pruningAgreements", "done"}
        /\ pc[p] \in {"persisting", "estimating", "pruningSubscriptions", "pruningAgreements"} \/
             pc'[p] \in {"stopped", "done"}
    BY <1>7 DEF RunRaises, Stop, Persisted, UpdateEstimates, PruneSubscriptions, PruneAgreements,
                DeleteSubscriptionScope, Deleted, Goto, TypeOK, progress
  <2> QED
    BY <1>0, <1>1, <2>1 DEF CoverOK, TypeOK
<1>8. CASE DeletePlannedSubscription(p) \/ DeletePlannedAgreement(p)
  <2>1. /\ UNCHANGED <<pc, plan, at, kept>> /\ todo'[p] \subseteq todo[p]
        /\ pc[p] \in {"deletingSubscriptions", "deletingAgreements"}
    BY <1>8 DEF DeletePlannedSubscription, DeletePlannedAgreement, Stay, Take, TypeOK, progress
  <2>2. CoversAll(p, todo[p]) => CoversAll(p, todo'[p])
    BY <2>1 DEF CoversAll
  <2> QED
    BY <1>0, <1>1, <2>1, <2>2 DEF CoverOK, TypeOK
<1>9. CASE SubscriptionsDeleted(p) \/ AgreementsDeleted(p)
  <2>1. /\ UNCHANGED <<plan, at, kept>>
        /\ pc[p] \in {"deletingSubscriptions", "deletingAgreements"}
        /\ \/ pc'[p] = "deletingAgreements" /\ todo'[p] = plan[p].agreements
           \/ pc'[p] = "persisting"
    BY <1>9 DEF SubscriptionsDeleted, AgreementsDeleted, Goto, TypeOK, progress
  <2> QED
    BY <1>0, <1>1, <2>1 DEF CoverOK, TypeOK
<1>10. CASE PersistSubscription(p) \/ PersistAgreement(p)
  <2>1. /\ UNCHANGED <<plan, kept>>
        /\ pc[p] \in {"persisting", "persistingAgreement"}
        /\ \/ pc'[p] = "persistingAgreement" /\ WritesAgreement(p, at'[p])
           \/ pc'[p] = "persisting"
    BY <1>10 DEF PersistSubscription, PersistAgreement, Goto, TypeOK
  <2>2. \A k : WritesAgreement(p, k)' <=> WritesAgreement(p, k)
    BY <1>0, <2>1 DEF WritesAgreement
  <2> QED
    BY <1>0, <1>1, <2>1 DEF CoverOK, TypeOK, WritesAgreement
<1>11. CASE OpenAgreement(p)
  <2>1. PICK a \in Agreements : OpenAgreement(p)!(a)
    BY <1>11 DEF OpenAgreement
  <2>2. /\ pc[p] = "deleting" /\ pc'[p] = "deletingStored" /\ UNCHANGED kept /\ a \in todo[p]
        /\ todo'[p] = todo[p] \ {a} /\ at'[p] = a
        /\ plan'[p] = [plan[p] EXCEPT !.subscriptions = StoredSubscriptions({a})]
    BY <2>1 DEF Goto, Take, TypeOK
  <2>3. plan[p] \in PlanType
    BY DEF TypeOK
  <2>4. /\ plan'[p].subscriptions = StoredSubscriptions({a})
        /\ plan'[p].agreements = plan[p].agreements
        /\ plan'[p].statementAgreements = plan[p].statementAgreements
    BY <2>2, <2>3 DEF PlanType
  <2>5. CoversAll(p, plan'[p].subscriptions)
    BY <2>2, <2>4, StoredAreCovered DEF CoverOK
  <2> QED
    BY <1>0, <1>1, <2>2, <2>4, <2>5 DEF CoverOK, TypeOK
<1>12. CASE DeleteStoredSubscription(p)
  <2>1. PICK s \in plan[p].subscriptions : DeleteStoredSubscription(p)!(s)
    BY <1>12 DEF DeleteStoredSubscription
  <2>2. /\ pc[p] = "deletingStored" /\ UNCHANGED <<pc, kept, todo, at>>
        /\ plan'[p] = [plan[p] EXCEPT !.subscriptions = @ \ {s}]
    BY <2>1 DEF Stay, TypeOK
  <2>3. plan[p] \in PlanType
    BY DEF TypeOK
  <2>4. /\ plan'[p].subscriptions = plan[p].subscriptions \ {s}
        /\ plan'[p].agreements = plan[p].agreements
        /\ plan'[p].statementAgreements = plan[p].statementAgreements
    BY <2>2, <2>3 DEF PlanType
  <2>5. CoversAll(p, plan'[p].subscriptions)
    BY <2>4 DEF CoverOK, CoversAll
  <2> QED
    BY <1>0, <1>1, <2>2, <2>4, <2>5 DEF CoverOK, TypeOK
<1>13. CASE DeleteOpenAgreement(p)
  <2>1. /\ pc[p] = "deletingStored" /\ pc'[p] = "deleting" /\ UNCHANGED <<kept, plan, todo>>
    BY <1>13 DEF DeleteOpenAgreement, Goto, TypeOK
  <2> QED
    BY <1>0, <1>1, <2>1 DEF CoverOK, TypeOK
<1> QED
  BY <1>2, <1>3, <1>4, <1>5, <1>6, <1>7, <1>8, <1>9, <1>10, <1>11, <1>12, <1>13 DEF Work

\* A step of a command changes only rows the command may write.
LEMMA WritesItsScope ==
  ASSUME TypeOK, QuietInv, NEW p \in Commands, CoverOK(p), Work(p) \/ Stop(p), NEW c \in Charges
  PROVE  /\ subRows'[c] # subRows[c] => pc[p] \in Working /\ MayWriteSub(job[p], c)
         /\ agrRows'[c] # agrRows[c] => pc[p] \in Working /\ MayWriteAgr(job[p], c)
<1>0. job[p] \in Jobs /\ subRows = [x \in Charges |-> subRows[x]]
      /\ agrRows = [x \in Charges |-> agrRows[x]]
      /\ (pc[p] \in Writing => ~job[p].dryRun)
  BY DEF TypeOK, QuietInv, ReadingInv
<1>1. CASE DeletePlannedSubscription(p)
  <2>1. PICK s \in Subscriptions : DeletePlannedSubscription(p)!(s)
    BY <1>1 DEF DeletePlannedSubscription
  <2>2. /\ pc[p] = "deletingSubscriptions" /\ s \in todo[p] /\ UNCHANGED agrRows
        /\ subRows'[c] # subRows[c] => SubscriptionOf[c] = s
    BY <2>1 DEF Stay, Take, Drop, OfSubscription
  <2> QED
    BY <1>0, <2>2 DEF CoverOK, CoversAll, Covers, MayWriteSub, MayWriteAgr, Working, Writing
<1>2. CASE DeletePlannedAgreement(p)
  <2>1. PICK a \in Agreements : DeletePlannedAgreement(p)!(a)
    BY <1>2 DEF DeletePlannedAgreement
  <2>2. /\ pc[p] = "deletingAgreements" /\ a \in todo[p] /\ UNCHANGED subRows
        /\ agrRows'[c] # agrRows[c] => AgreementOf(c) = a
    BY <2>1 DEF Stay, Take, Drop, OfAgreement
  <2> QED
    BY <1>0, <2>2 DEF CoverOK, MayWriteAgr, Working, Writing
<1>3. CASE PersistSubscription(p)
  <2>1. PICK k \in Keys : PersistSubscription(p)!(k)
    BY <1>3 DEF PersistSubscription
  <2>2. /\ pc[p] = "persisting" /\ UNCHANGED agrRows
        /\ subRows'[c] # subRows[c] => c \in kept[p]
    BY <2>1 DEF Add, Accumulation
  <2> QED
    BY <1>0, <2>2 DEF CoverOK, Covers, MayWriteSub, MayWriteAgr, Working, Writing
<1>4. CASE PersistAgreement(p)
  <2>1. /\ pc[p] = "persistingAgreement" /\ UNCHANGED subRows
        /\ agrRows'[c] # agrRows[c] => c \in kept[p] /\ Key(c) = at[p]
    BY <1>4 DEF PersistAgreement, Goto, Add, Accumulation, OfBucket
  <2>2. Key(c) = at[p] => KeyAgreement(at[p]) = AgreementOf(c)
    BY DEF Key, KeyAgreement
  <2> QED
    BY <1>0, <2>1, <2>2 DEF CoverOK, WritesAgreement, MayWriteAgr, Working, Writing
<1>5. CASE PruneSubscriptions(p) \/ PruneAgreements(p)
  <2>1. /\ pc[p] \in {"pruningSubscriptions", "pruningAgreements"}
        /\ subRows'[c] # subRows[c] \/ agrRows'[c] # agrRows[c] => MonthOf[c] < job[p].cutoff
    BY <1>5 DEF PruneSubscriptions, PruneAgreements, Goto, Drop, Expired
  <2> QED
    BY <1>0, <2>1 DEF CoverOK, MayWriteSub, MayWriteAgr, MayPrune, Working, Writing
<1>6. CASE DeleteSubscriptionScope(p)
  <2>1. /\ pc[p] = "deleting" /\ UNCHANGED agrRows
        /\ subRows'[c] # subRows[c] => SubscriptionOf[c] \in job[p].subscriptions
    BY <1>6 DEF DeleteSubscriptionScope, Goto, Drop, OfSubscription
  <2> QED
    BY <2>1 DEF MayWriteSub, Working
<1>7. CASE DeleteStoredSubscription(p)
  <2>1. PICK s \in plan[p].subscriptions : DeleteStoredSubscription(p)!(s)
    BY <1>7 DEF DeleteStoredSubscription
  <2>2. /\ pc[p] = "deletingStored" /\ UNCHANGED agrRows
        /\ subRows'[c] # subRows[c] => SubscriptionOf[c] = s
    BY <2>1 DEF Stay, Drop, OfSubscription
  <2> QED
    BY <1>0, <2>1, <2>2 DEF CoverOK, CoversAll, Covers, MayWriteSub, MayWriteAgr, Working, Writing
<1>8. CASE DeleteOpenAgreement(p)
  <2>1. /\ pc[p] = "deletingStored" /\ UNCHANGED subRows
        /\ agrRows'[c] # agrRows[c] => AgreementOf(c) = at[p]
    BY <1>8 DEF DeleteOpenAgreement, Goto, Drop, OfAgreement
  <2> QED
    BY <1>0, <2>1 DEF CoverOK, MayWriteAgr, Working, Writing
<1>9. CASE \/ Begin(p) \/ PlanAgreement(p) \/ PlanScope(p) \/ AccumulateRun(p)
           \/ RunRaises(p) \/ AccumulateScope(p) \/ SubscriptionsDeleted(p)
           \/ AgreementsDeleted(p) \/ Persisted(p) \/ UpdateEstimates(p)
           \/ OpenAgreement(p) \/ Deleted(p) \/ Stop(p)
  BY <1>9 DEF Begin, PlanAgreement, PlanScope, AccumulateRun, RunRaises, AccumulateScope,
              SubscriptionsDeleted, AgreementsDeleted, Persisted, UpdateEstimates,
              OpenAgreement, Deleted, Stop, Resolving, tables
<1> QED
  BY <1>1, <1>2, <1>3, <1>4, <1>5, <1>6, <1>7, <1>8, <1>9 DEF Work

(***************************************************************************)
(* However commands overlap, and wherever they stop, a row only changes    *)
(* while a command works whose selector or window covers it, provided each *)
(* subscription is billed under one agreement (bucket_delete.py and        *)
(* charge_persistence.py).                                                 *)
(***************************************************************************)
THEOREM RowsChangeInScope ==
  ASSUME OneAgreementEach
  PROVE  Spec => OnlyScopeWritten
<1> DEFINE Inv == \A p \in Commands : CoverOK(p)
           InScopeStep ==
             \A c \in Charges :
               /\ subRows'[c] # subRows[c] =>
                    \E p \in Commands : pc[p] \in Working /\ MayWriteSub(job[p], c)
               /\ agrRows'[c] # agrRows[c] =>
                    \E p \in Commands : pc[p] \in Working /\ MayWriteAgr(job[p], c)
<1>1. Init => Inv
  BY DEF Init, CoverOK, CoversAll, NoPlan
<1>2. TypeOK /\ QuietInv /\ Inv /\ [Next]_vars => Inv'
  <2> SUFFICES ASSUME TypeOK, QuietInv, Inv, [Next]_vars, NEW p \in Commands
               PROVE  CoverOK(p)'
    OBVIOUS
  <2>1. CASE UNCHANGED vars
    BY <2>1 DEF vars, progress, CoverOK, CoversAll, Covers, Collected, WritesAgreement
  <2>2. CASE \E q \in Commands : q # p /\ (Work(q) \/ Stop(q))
    BY <2>2, CoverKeptByOthers
  <2>3. CASE Work(p) \/ Stop(p)
    BY <2>3, CoverKeepsItself
  <2> QED
    BY <2>1, <2>2, <2>3 DEF Next
<1>3. TypeOK /\ QuietInv /\ Inv /\ [Next]_vars => [InScopeStep]_tables
  <2> SUFFICES ASSUME TypeOK, QuietInv, Inv, [Next]_vars
               PROVE  [InScopeStep]_tables
    OBVIOUS
  <2>1. CASE UNCHANGED vars
    BY <2>1 DEF vars, tables
  <2>2. CASE \E p \in Commands : Work(p) \/ Stop(p)
    BY <2>2, WritesItsScope
  <2> QED
    BY <2>1, <2>2 DEF Next
<1> QED
  BY <1>1, <1>2, <1>3, Quiet, PTL DEF Spec, OnlyScopeWritten
=============================================================================
