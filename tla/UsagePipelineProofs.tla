------------------------- MODULE UsagePipelineProofs -------------------------
(***************************************************************************)
(* Theorems about UsagePipeline, for every set of commands, jobs, charges  *)
(* and statements, and every content of the tables to begin with.          *)
(***************************************************************************)
EXTENDS UsagePipelineProperties, TLAPS

-----------------------------------------------------------------------------
(***************************************************************************)
(* The operators the actions are built from stay within their types.       *)
(***************************************************************************)

\* An upsert (engine.py, accumulate) keeps a table a table.
LEMMA AddType ==
  ASSUME NEW rows \in [Charges -> Nat], NEW cs
  PROVE  Add(rows, cs) \in [Charges -> Nat]
BY DEF Add

\* A delete (engine.py, delete and delete_before) keeps a table a table.
LEMMA DropType ==
  ASSUME NEW rows \in [Charges -> Nat], NEW cs
  PROVE  Drop(rows, cs) \in [Charges -> Nat]
BY DEF Drop

\* A charge's agreement is an agreement.
LEMMA AgreementType == \A c \in Charges : AgreementOf(c) \in Agreements
BY BillingAssumption DEF BillingAssumption, AgreementOf

\* A bucket's agreement is an agreement, so the key's is.
LEMMA KeyType == \A c \in Charges : Key(c) \in Keys
BY DEF Keys

\* What the repositories report as stored are subscriptions and agreements.
LEMMA StoredType ==
  ASSUME NEW xs
  PROVE  /\ StoredSubscriptions(xs) \subseteq Subscriptions
         /\ StoredAgreements(xs) \subseteq Agreements
BY BillingAssumption, AgreementType
   DEF BillingAssumption, StoredSubscriptions, StoredAgreements

\* A selection of statements yields charges, and fails agreements.
LEMMA AccumulationType ==
  ASSUME NEW statements, NEW ids
  PROVE  /\ ChargesOf(statements, ids) \subseteq Charges
         /\ UnsummableAgreements(statements, ids) \subseteq Agreements
         /\ Accumulated(statements, ids) \subseteq Charges
BY BillingAssumption DEF BillingAssumption, ChargesOf, UnsummableAgreements, Accumulated

\* Taking agreements out of a planned scope leaves a scope.
LEMMA WithoutType ==
  ASSUME NEW planned \in PlanType, NEW out
  PROVE  WithoutAgreements(planned, out) \in PlanType
BY DEF WithoutAgreements, PlanType

\* Every job has the fields JobType gives it.
LEMMA JobFields ==
  ASSUME NEW j \in Jobs
  PROVE  /\ j.command \in {"run", "recalculate", "delete", "cleanup"}
         /\ j.kind \in {"all", "subscription", "agreements"}
         /\ j.subscriptions \subseteq Subscriptions
         /\ j.agreements \subseteq Agreements
         /\ j.dryRun \in BOOLEAN
         /\ j.cutoff \in Nat
BY JobsAssumption DEF JobsAssumption, JobType

-----------------------------------------------------------------------------
(***************************************************************************)
(* Type correctness of the commands and the tables.                        *)
(***************************************************************************)
THEOREM TypeCorrect == Spec => []TypeOK
<1>1. Init => TypeOK
  <2> SUFFICES ASSUME Init PROVE TypeOK
    OBVIOUS
  <2>1. subRows \in [Charges -> Nat] /\ agrRows \in [Charges -> Nat]
    BY JobsAssumption DEF Init, JobsAssumption
  <2>2. before \in [Commands -> [sub : [Charges -> Nat], agr : [Charges -> Nat]]]
    BY <2>1 DEF Init
  <2>3. plan \in [Commands -> PlanType]
    BY DEF Init, NoPlan, PlanType
  <2>4. pc \in [Commands -> Phases] /\ job \in [Commands -> Jobs]
    BY DEF Init, Phases
  <2> QED
    BY <2>1, <2>2, <2>3, <2>4 DEF Init, TypeOK
<1>2. TypeOK /\ [Next]_vars => TypeOK'
  <2> SUFFICES ASSUME TypeOK, [Next]_vars PROVE TypeOK'
    OBVIOUS
  <2>1. CASE UNCHANGED vars
    BY <2>1 DEF TypeOK, vars, tables, progress, ghosts
  <2>2. ASSUME NEW p \in Commands, Stop(p) PROVE TypeOK'
    BY <2>2 DEF TypeOK, Stop, tables, progress, ghosts, Phases, Ended
  <2>3. ASSUME NEW p \in Commands, Begin(p) PROVE TypeOK'
    <3>1. job[p] \in Jobs
      BY DEF TypeOK
    <3>2. FirstPhase(job[p]) \in Phases /\ job[p].agreements \subseteq Agreements
      BY <3>1, JobFields DEF FirstPhase, Phases, Working
    <3> QED
      BY <2>3, <3>2 DEF TypeOK, Begin, Goto, tables, progress
  <2>4. ASSUME NEW p \in Commands, PlanAgreement(p) PROVE TypeOK'
    <3>1. PICK a \in Agreements : PlanAgreement(p)!(a)
      BY <2>4 DEF PlanAgreement
    <3>2. plan[p] \in PlanType /\ StoredSubscriptions({a}) \subseteq Subscriptions
      BY StoredType DEF TypeOK
    <3>3. plan' \in [Commands -> PlanType]
      <4> DEFINE wider == [plan[p] EXCEPT !.subscriptions = @ \cup StoredSubscriptions({a})]
      <4>1. wider \in PlanType
        BY <3>2 DEF PlanType
      <4>2. plan' = [plan EXCEPT ![p] = wider]
        BY <3>1
      <4> QED
        BY <4>1, <4>2 DEF TypeOK
    <3>4. todo' \in [Commands -> SUBSET (Subscriptions \cup Agreements \cup Keys)]
      BY <3>1 DEF TypeOK, Take
    <3> QED
      BY <3>1, <3>3, <3>4 DEF TypeOK, Stay, Resolving, tables, ghosts
  <2>5. ASSUME NEW p \in Commands, PlanScope(p) PROVE TypeOK'
    <3>1. job[p] \in Jobs
      BY DEF TypeOK
    <3> QED
      BY <2>5, <3>1, JobFields, StoredType
         DEF TypeOK, PlanScope, Goto, tables, ghosts, PlanType, Phases, Working
  <2>6. ASSUME NEW p \in Commands, AccumulateRun(p) PROVE TypeOK'
    <3>1. kept'[p] \subseteq Charges /\ kept' \in [Commands -> SUBSET Charges]
      BY <2>6, AccumulationType DEF TypeOK, AccumulateRun
    <3>2. todo' \in [Commands -> SUBSET (Subscriptions \cup Agreements \cup Keys)]
      BY <2>6, <3>1, KeyType DEF TypeOK, AccumulateRun
    <3> QED
      BY <2>6, <3>1, <3>2
         DEF TypeOK, AccumulateRun, Goto, tables, ghosts, Phases, Working
  <2>7. ASSUME NEW p \in Commands, RunRaises(p) PROVE TypeOK'
    BY <2>7 DEF TypeOK, RunRaises, Goto, tables, progress, ghosts, Phases, Ended
  <2>8. ASSUME NEW p \in Commands, AccumulateScope(p) PROVE TypeOK'
    <3> DEFINE out == UnsummableAgreements(Selection(p), ChargeFilter(p))
               planned == IF out = {} THEN plan[p] ELSE WithoutAgreements(plan[p], out)
               total == Accumulated(Selection(p), ChargeFilter(p))
    <3>1. out \subseteq Agreements /\ total \subseteq Charges
      BY AccumulationType
    <3>2. planned \in PlanType
      BY WithoutType DEF TypeOK
    <3>3. planned.subscriptions \subseteq Subscriptions
      BY <3>2 DEF PlanType
    <3>4. FilterToReset(total, planned) \subseteq Charges
      BY <3>1 DEF FilterToReset
    <3>5. AfterAccumulating(p) \in Phases
      BY DEF AfterAccumulating, Phases, Working
    <3>6. /\ failed' = [failed EXCEPT ![p] = out]
          /\ hasErrors' = [hasErrors EXCEPT ![p] = out # {}]
          /\ plan' = [plan EXCEPT ![p] = planned]
          /\ kept' = [kept EXCEPT ![p] = FilterToReset(total, planned)]
          /\ todo' = [todo EXCEPT ![p] = planned.subscriptions]
          /\ pc' = [pc EXCEPT ![p] = AfterAccumulating(p)]
          /\ UNCHANGED <<tables, job, at, pushed, ghosts>>
      BY <2>8 DEF AccumulateScope, Goto
    <3>7. failed' \in [Commands -> SUBSET Agreements]
      BY <3>1, <3>6 DEF TypeOK
    <3>8. plan' \in [Commands -> PlanType] /\ kept' \in [Commands -> SUBSET Charges]
      BY <3>2, <3>4, <3>6 DEF TypeOK
    <3>9. todo' \in [Commands -> SUBSET (Subscriptions \cup Agreements \cup Keys)]
      BY <3>3, <3>6 DEF TypeOK
    <3>10. hasErrors' \in [Commands -> BOOLEAN] /\ pc' \in [Commands -> Phases]
      BY <3>5, <3>6 DEF TypeOK
    <3> HIDE DEF out, planned, total
    <3> QED
      BY <3>6, <3>7, <3>8, <3>9, <3>10 DEF TypeOK, tables, ghosts
  <2>9. ASSUME NEW p \in Commands, DeletePlannedSubscription(p) PROVE TypeOK'
    <3>1. PICK s \in Subscriptions : DeletePlannedSubscription(p)!(s)
      BY <2>9 DEF DeletePlannedSubscription
    <3>2. subRows' \in [Charges -> Nat]
      BY <3>1, DropType DEF TypeOK
    <3> QED
      BY <3>1, <3>2 DEF TypeOK, Stay, Take, Disturb, progress
  <2>10. ASSUME NEW p \in Commands, SubscriptionsDeleted(p) PROVE TypeOK'
    BY <2>10 DEF TypeOK, SubscriptionsDeleted, Goto, tables, progress, ghosts,
                 PlanType, Phases, Working
  <2>11. ASSUME NEW p \in Commands, DeletePlannedAgreement(p) PROVE TypeOK'
    <3>1. PICK a \in Agreements : DeletePlannedAgreement(p)!(a)
      BY <2>11 DEF DeletePlannedAgreement
    <3>2. agrRows' \in [Charges -> Nat]
      BY <3>1, DropType DEF TypeOK
    <3> QED
      BY <3>1, <3>2 DEF TypeOK, Stay, Take, Disturb, progress
  <2>12. ASSUME NEW p \in Commands, AgreementsDeleted(p) PROVE TypeOK'
    BY <2>12, KeyType DEF TypeOK, AgreementsDeleted, Goto, tables, progress, ghosts,
                          Phases, Working
  <2>13. ASSUME NEW p \in Commands, PersistSubscription(p) PROVE TypeOK'
    <3>1. PICK k \in Keys : PersistSubscription(p)!(k)
      BY <2>13 DEF PersistSubscription
    <3>2. subRows' \in [Charges -> Nat]
      BY <3>1, AddType DEF TypeOK
    <3>3. /\ pc' \in [Commands -> Phases]
          /\ at' \in [Commands -> Agreements \cup Keys \cup {None}]
          /\ todo' \in [Commands -> SUBSET (Subscriptions \cup Agreements \cup Keys)]
      BY <3>1 DEF TypeOK, Take, Phases, Working
    <3> QED
      BY <3>1, <3>2, <3>3 DEF TypeOK, Disturb
  <2>14. ASSUME NEW p \in Commands, PersistAgreement(p) PROVE TypeOK'
    BY <2>14, AddType DEF TypeOK, PersistAgreement, Goto, Disturb, Phases, Working
  <2>15. ASSUME NEW p \in Commands, Persisted(p) PROVE TypeOK'
    BY <2>15 DEF TypeOK, Persisted, Goto, tables, progress, ghosts, Phases, Working
  <2>16. ASSUME NEW p \in Commands, UpdateEstimates(p) PROVE TypeOK'
    <3>1. Updatable(p) \subseteq Subscriptions
      BY BillingAssumption DEF TypeOK, Updatable, BillingAssumption
    <3> QED
      BY <2>16, <3>1 DEF TypeOK, UpdateEstimates, Goto, tables, ghosts, Phases,
                         Working, Ended
  <2>17. ASSUME NEW p \in Commands, PruneSubscriptions(p) PROVE TypeOK'
    BY <2>17, DropType
       DEF TypeOK, PruneSubscriptions, Goto, Disturb, progress, Phases, Working
  <2>18. ASSUME NEW p \in Commands, PruneAgreements(p) PROVE TypeOK'
    BY <2>18, DropType
       DEF TypeOK, PruneAgreements, Goto, Disturb, progress, Phases, Ended
  <2>19. ASSUME NEW p \in Commands, DeleteSubscriptionScope(p) PROVE TypeOK'
    BY <2>19, DropType
       DEF TypeOK, DeleteSubscriptionScope, Goto, Disturb, progress, Phases, Ended
  <2>20. ASSUME NEW p \in Commands, OpenAgreement(p) PROVE TypeOK'
    <3>1. PICK a \in Agreements : OpenAgreement(p)!(a)
      BY <2>20 DEF OpenAgreement
    <3>2. plan' \in [Commands -> PlanType]
      <4> DEFINE cursor == [plan[p] EXCEPT !.subscriptions = StoredSubscriptions({a})]
      <4>1. cursor \in PlanType
        <5>1. plan[p] \in PlanType
          BY DEF TypeOK
        <5> QED
          BY <5>1, StoredType DEF PlanType
      <4>2. plan' = [plan EXCEPT ![p] = cursor]
        BY <3>1
      <4> QED
        BY <4>1, <4>2 DEF TypeOK
    <3> QED
      BY <3>1, <3>2 DEF TypeOK, Goto, Take, tables, ghosts, Phases, Working
  <2>21. ASSUME NEW p \in Commands, DeleteStoredSubscription(p) PROVE TypeOK'
    <3>1. PICK s \in plan[p].subscriptions : DeleteStoredSubscription(p)!(s)
      BY <2>21 DEF DeleteStoredSubscription
    <3>2. plan' \in [Commands -> PlanType]
      <4> DEFINE cursor == [plan[p] EXCEPT !.subscriptions = @ \ {s}]
      <4>1. cursor \in PlanType
        <5>1. plan[p] \in PlanType
          BY DEF TypeOK
        <5> QED
          BY <5>1 DEF PlanType
      <4>2. plan' = [plan EXCEPT ![p] = cursor]
        BY <3>1
      <4> QED
        BY <4>1, <4>2 DEF TypeOK
    <3> QED
      BY <3>1, <3>2, DropType DEF TypeOK, Stay, Disturb
  <2>22. ASSUME NEW p \in Commands, DeleteOpenAgreement(p) PROVE TypeOK'
    BY <2>22, DropType
       DEF TypeOK, DeleteOpenAgreement, Goto, Disturb, Phases, Working
  <2>23. ASSUME NEW p \in Commands, Deleted(p) PROVE TypeOK'
    BY <2>23 DEF TypeOK, Deleted, Goto, tables, progress, ghosts, Phases, Ended
  <2> QED
    BY <2>1, <2>2, <2>3, <2>4, <2>5, <2>6, <2>7, <2>8, <2>9, <2>10, <2>11, <2>12,
       <2>13, <2>14, <2>15, <2>16, <2>17, <2>18, <2>19, <2>20, <2>21, <2>22, <2>23
       DEF Next, Work
<1> QED
  BY <1>1, <1>2, PTL DEF Spec

-----------------------------------------------------------------------------
(***************************************************************************)
(* Reading phases.  The three promises that a command leaves the tables as *)
(* it found them - while a recalculate plans and accumulates, on a dry     *)
(* run, and in a daily run that cannot sum a charge - rest on one          *)
(* inductive invariant: such a command never reaches a phase that writes.  *)
(***************************************************************************)
Writing == {"deletingSubscriptions", "deletingAgreements", "persisting",
            "persistingAgreement", "pruningSubscriptions",
            "pruningAgreements", "deleting", "deletingStored"}

Doomed(p) == job[p].command = "run" /\ \E c \in Unpriced : Collected(job[p], c)

Reading(p) == pc[p] \in {"planning", "accumulating"} \/ job[p].dryRun \/ Doomed(p)

ReadingInv(p) ==
  /\ pc[p] = "planning" => job[p].command = "recalculate"
  /\ job[p].command = "run" => plan[p].statementAgreements = {}
  /\ job[p].dryRun => pc[p] \notin Writing /\ pushed[p] = {}
  /\ Doomed(p) => pc[p] \in {"idle", "accumulating", "stopped"}
  /\ Reading(p) /\ Alone(p) => Untouched(p)

QuietInv == \A p \in Commands : ReadingInv(p)

\* A step of p that writes a table, from the phase it is in to phase x.
WriteStep(p, x) ==
  /\ pc[p] \in Writing
  /\ pc' = [pc EXCEPT ![p] = x]
  /\ Disturb(p)
  /\ UNCHANGED <<job, pushed>>
  /\ \A q \in Commands :
       plan'[q].statementAgreements = plan[q].statementAgreements

\* A step of p that reads and computes, in or to phase x.
ReadStep(p, x) ==
  /\ pc[p] # "idle"
  /\ pc' = [pc EXCEPT ![p] = x]
  /\ UNCHANGED <<tables, ghosts, job>>
  /\ \A q \in Commands : q # p => pushed'[q] = pushed[q] /\ plan'[q] = plan[q]

\* A writing step keeps the reading phases' invariant: p is not reading, and
\* every other command knows it is no longer alone.
LEMMA WriteKeepsQuiet ==
  ASSUME TypeOK, QuietInv, NEW p \in Commands, NEW x, WriteStep(p, x),
         x \notin {"planning", "accumulating", "idle"}
  PROVE  QuietInv'
<1> SUFFICES ASSUME NEW q \in Commands PROVE ReadingInv(q)'
  BY DEF QuietInv
<1>1. CASE q = p
  <2>1. ReadingInv(p) /\ pc'[p] = x /\ job'[p] = job[p]
    BY DEF QuietInv, WriteStep, TypeOK
  <2>2. ~job[p].dryRun /\ ~Doomed(p)
    BY <2>1 DEF ReadingInv, WriteStep, Writing
  <2>3. ~Doomed(p)'
    BY <2>1, <2>2 DEF Doomed, Collected
  <2> QED
    BY <1>1, <2>1, <2>2, <2>3 DEF ReadingInv, Reading, WriteStep
<1>2. CASE q # p
  <2>1. /\ ReadingInv(q)
        /\ pc'[q] = pc[q] /\ job'[q] = job[q] /\ pushed'[q] = pushed[q]
        /\ plan'[q].statementAgreements = plan[q].statementAgreements
    BY <1>2 DEF QuietInv, WriteStep, TypeOK
  <2>2. disturbed'[q]
    BY <1>2 DEF WriteStep, Disturb
  <2>3. Doomed(q)' <=> Doomed(q)
    BY <2>1 DEF Doomed, Collected
  <2> QED
    BY <2>1, <2>2, <2>3 DEF ReadingInv, Alone
<1> QED
  BY <1>1, <1>2

\* A reading step keeps it for every other command, and for p if it does not
\* lead p into a phase it must not reach.
LEMMA ReadKeepsQuiet ==
  ASSUME TypeOK, QuietInv, NEW p \in Commands, NEW x, ReadStep(p, x),
         x = "planning" => job[p].command = "recalculate",
         x \in {"planning", "accumulating"} => pc[p] \in {"planning", "accumulating"},
         job[p].command = "run" => plan'[p].statementAgreements = {},
         job[p].dryRun => x \notin Writing /\ pushed'[p] = {},
         Doomed(p) => x \in {"accumulating", "stopped"}
  PROVE  QuietInv'
<1> SUFFICES ASSUME NEW q \in Commands PROVE ReadingInv(q)'
  BY DEF QuietInv
<1>1. ReadingInv(q) /\ job'[q] = job[q]
  BY DEF QuietInv, ReadStep
<1>2. Doomed(q)' <=> Doomed(q)
  BY <1>1 DEF Doomed, Collected
<1>3. Untouched(q)' <=> Untouched(q)
  BY DEF Untouched, ReadStep, tables, ghosts
<1>4. CASE q = p
  <2>1. pc'[p] = x
    BY DEF ReadStep, TypeOK
  <2>2. Alone(p)' <=> Alone(p) /\ x # "idle"
    BY <2>1 DEF Alone, ReadStep, ghosts
  <2>3. Reading(p)' => Reading(p)
    BY <1>1, <1>2, <1>4, <2>1 DEF Reading
  <2> QED
    BY <1>1, <1>2, <1>3, <1>4, <2>1, <2>2, <2>3 DEF ReadingInv
<1>5. CASE q # p
  <2>1. pc'[q] = pc[q] /\ pushed'[q] = pushed[q] /\ plan'[q] = plan[q]
    BY <1>5 DEF ReadStep, TypeOK
  <2>2. (Alone(q)' <=> Alone(q)) /\ (Reading(q)' <=> Reading(q))
    BY <1>1, <1>2, <2>1 DEF Alone, Reading, ReadStep, ghosts
  <2> QED
    BY <1>1, <1>2, <1>3, <2>1, <2>2 DEF ReadingInv
<1> QED
  BY <1>4, <1>5

\* A run that meets a charge it cannot sum does not get past accumulating.
LEMMA DoomedIsNotSummable ==
  ASSUME NEW p \in Commands, Doomed(p), plan[p].statementAgreements = {}
  PROVE  ~RunIsSummable(p)
<1>1. PICK c \in Unpriced : StatementOf[c] \in job[p].window \cap job[p].base
  BY DEF Doomed, Collected
<1>2. Selection(p) = job[p].window \cap job[p].base
  BY DEF Selection, SelectedStatements
<1>3. c \in ChargesOf(Selection(p), {}) \cap Unpriced
  BY <1>1, <1>2, BillingAssumption DEF BillingAssumption, ChargesOf, Passes
<1>4. UnsummableAgreements(Selection(p), {}) # {}
  BY <1>3 DEF UnsummableAgreements
<1> QED
  BY <1>4 DEF RunIsSummable

\* The invariant of the reading phases holds of every command, always.
THEOREM Quiet == Spec => [](TypeOK /\ QuietInv)
<1>1. Init => QuietInv
  BY DEF Init, QuietInv, ReadingInv, Reading, Alone, Doomed, NoPlan, Writing
<1>2. TypeOK /\ QuietInv /\ [Next]_vars => QuietInv'
  <2> SUFFICES ASSUME TypeOK, QuietInv, [Next]_vars PROVE QuietInv'
    OBVIOUS
  <2>1. CASE UNCHANGED vars
    BY <2>1 DEF vars, tables, progress, ghosts, QuietInv, ReadingInv, Reading, Alone,
                Doomed, Collected, Untouched
  <2>2. ASSUME NEW p \in Commands, Work(p) \/ Stop(p) PROVE QuietInv'
    <3>1. /\ ReadingInv(p)
          /\ job[p] \in Jobs
          /\ job[p].dryRun \in BOOLEAN
          /\ job[p].command \in {"run", "recalculate", "delete", "cleanup"}
          /\ job[p].dryRun => job[p].command = "recalculate"
      BY JobFields, JobsAssumption DEF QuietInv, TypeOK, JobsAssumption
    <3>2. CASE Begin(p)
      <4> SUFFICES ASSUME NEW q \in Commands PROVE ReadingInv(q)'
        BY DEF QuietInv
      <4>1. ReadingInv(q) /\ job'[q] = job[q] /\ pushed'[q] = pushed[q]
        BY <3>2 DEF QuietInv, Begin, progress
      <4>2. (Doomed(q)' <=> Doomed(q)) /\ plan'[q] = plan[q]
        BY <3>2, <4>1 DEF Doomed, Collected, Begin, progress
      <4>3. CASE q = p
        <5>1. pc'[p] = FirstPhase(job[p]) /\ pc[p] = "idle"
          BY <3>2 DEF Begin, Goto, TypeOK
        <5>2. before'[p] = [sub |-> subRows, agr |-> agrRows] /\ UNCHANGED tables
          BY <3>2 DEF Begin, TypeOK
        <5>3. Untouched(p)'
          BY <5>2 DEF Untouched, tables
        <5>4. /\ job[p].command = "run" => pc'[p] = "accumulating"
              /\ job[p].command = "recalculate" => pc'[p] = "planning"
              /\ pc'[p] = "planning" => job[p].command = "recalculate"
          BY <3>1, <5>1 DEF FirstPhase
        <5> QED
          BY <3>1, <4>1, <4>2, <4>3, <5>3, <5>4 DEF ReadingInv, Doomed, Writing
      <4>4. CASE q # p
        <5>1. /\ pc'[q] = pc[q]
              /\ before'[q] = before[q] /\ disturbed'[q] = disturbed[q]
              /\ UNCHANGED tables
          BY <3>2, <4>4 DEF Begin, Goto, TypeOK
        <5>2. /\ Alone(q)' <=> Alone(q)
              /\ Untouched(q)' <=> Untouched(q)
              /\ Reading(q)' <=> Reading(q)
          BY <4>1, <4>2, <5>1 DEF Alone, Untouched, Reading, tables
        <5> QED
          BY <4>1, <4>2, <5>1, <5>2 DEF ReadingInv
      <4> QED
        BY <4>3, <4>4
    <3>3. CASE PlanAgreement(p)
      <4>1. ReadStep(p, "planning")
        BY <3>3 DEF PlanAgreement, ReadStep, Stay, Resolving, tables, ghosts, TypeOK
      <4> QED
        BY <3>1, <3>3, <4>1, ReadKeepsQuiet
           DEF PlanAgreement, Stay, ReadingInv, Doomed, Writing
    <3>4. CASE PlanScope(p)
      <4>1. ReadStep(p, "accumulating")
        BY <3>4 DEF PlanScope, ReadStep, Goto, TypeOK
      <4> QED
        BY <3>1, <3>4, <4>1, ReadKeepsQuiet
           DEF PlanScope, Goto, ReadingInv, Doomed, Writing
    <3>5. CASE AccumulateRun(p)
      <4>1. ReadStep(p, "persisting")
        BY <3>5 DEF AccumulateRun, ReadStep, Goto, TypeOK
      <4>2. ~Doomed(p) /\ ~job[p].dryRun /\ plan' = plan
        BY <3>1, <3>5, DoomedIsNotSummable DEF AccumulateRun, ReadingInv
      <4> QED
        BY <3>1, <4>1, <4>2, ReadKeepsQuiet DEF ReadingInv
    <3>6. CASE RunRaises(p)
      <4>1. ReadStep(p, "stopped")
        BY <3>6 DEF RunRaises, ReadStep, Goto, progress
      <4> QED
        BY <3>1, <3>6, <4>1, ReadKeepsQuiet DEF RunRaises, progress, ReadingInv, Writing
    <3>7. CASE AccumulateScope(p)
      <4>1. ReadStep(p, AfterAccumulating(p))
        BY <3>7 DEF AccumulateScope, ReadStep, Goto, TypeOK
      <4>2. /\ job[p].command = "recalculate"
            /\ pushed' = pushed
            /\ job[p].dryRun => AfterAccumulating(p) = "estimating"
            /\ AfterAccumulating(p) \in {"estimating", "deletingSubscriptions"}
        BY <3>7 DEF AccumulateScope, AfterAccumulating
      <4> QED
        BY <3>1, <4>1, <4>2, ReadKeepsQuiet DEF ReadingInv, Doomed, Writing
    <3>8. ASSUME NEW from \in Writing, NEW x, Goto(p, from, x),
                 UNCHANGED <<tables, job, ghosts, pushed>>,
                 x \notin {"planning", "accumulating"},
                 \A q \in Commands :
                   /\ q # p => plan'[q] = plan[q]
                   /\ plan'[q].statementAgreements = plan[q].statementAgreements
          PROVE  QuietInv'
      <4>1. ReadStep(p, x) /\ ~job[p].dryRun /\ ~Doomed(p)
        BY <3>1, <3>8 DEF ReadStep, Goto, ReadingInv, Writing
      <4> QED
        BY <3>1, <3>8, <4>1, ReadKeepsQuiet DEF ReadingInv
    <3>9. CASE \/ SubscriptionsDeleted(p) \/ AgreementsDeleted(p)
               \/ Persisted(p) \/ Deleted(p)
      BY <3>8, <3>9 DEF SubscriptionsDeleted, AgreementsDeleted, Persisted, Deleted,
                        Writing, progress
    <3>10. CASE OpenAgreement(p)
      <4>1. \A q \in Commands :
              /\ q # p => plan'[q] = plan[q]
              /\ plan'[q].statementAgreements = plan[q].statementAgreements
        BY <3>10 DEF OpenAgreement, TypeOK, PlanType
      <4>2. Goto(p, "deleting", "deletingStored")
        BY <3>10 DEF OpenAgreement
      <4>3. UNCHANGED <<tables, job, ghosts, pushed>>
        BY <3>10 DEF OpenAgreement
      <4> QED
        BY <3>8, <4>1, <4>2, <4>3 DEF Writing
    <3>11. CASE UpdateEstimates(p)
      <4> DEFINE x == IF job[p].dryRun THEN "done" ELSE "pruningSubscriptions"
      <4>1. ReadStep(p, x)
        BY <3>11 DEF UpdateEstimates, ReadStep, Goto, TypeOK
      <4>2. /\ plan' = plan
            /\ job[p].dryRun => pushed'[p] = {}
            /\ ~Doomed(p)
        BY <3>1, <3>11 DEF UpdateEstimates, Goto, TypeOK, ReadingInv
      <4> QED
        BY <3>1, <4>1, <4>2, ReadKeepsQuiet DEF ReadingInv, Writing
    <3>12. CASE Stop(p)
      <4>1. ReadStep(p, "stopped")
        BY <3>12 DEF Stop, ReadStep, progress, Working
      <4> QED
        BY <3>1, <3>12, <4>1, ReadKeepsQuiet DEF Stop, progress, ReadingInv, Writing
    <3>13. CASE \/ DeletePlannedSubscription(p) \/ DeletePlannedAgreement(p)
                \/ PersistAgreement(p) \/ PruneSubscriptions(p)
                \/ PruneAgreements(p) \/ DeleteSubscriptionScope(p)
                \/ DeleteOpenAgreement(p)
      <4>1. \E x \in Phases \ {"planning", "accumulating", "idle"} : WriteStep(p, x)
        BY <3>13 DEF DeletePlannedSubscription, DeletePlannedAgreement,
             PersistAgreement, PruneSubscriptions, PruneAgreements,
             DeleteSubscriptionScope, DeleteOpenAgreement, WriteStep, Goto, Stay,
             progress, Writing, Phases, Working, Ended, TypeOK
      <4> QED
        BY <4>1, WriteKeepsQuiet
    <3>14. CASE PersistSubscription(p)
      <4>1. \E x \in {"persisting", "persistingAgreement"} : WriteStep(p, x)
        BY <3>14 DEF PersistSubscription, WriteStep, Writing
      <4> QED
        BY <4>1, WriteKeepsQuiet
    <3>15. CASE DeleteStoredSubscription(p)
      <4>1. WriteStep(p, "deletingStored")
        BY <3>15 DEF DeleteStoredSubscription, WriteStep, Stay, Writing, TypeOK, PlanType
      <4> QED
        BY <4>1, WriteKeepsQuiet
    <3> QED
      BY <2>2, <3>2, <3>3, <3>4, <3>5, <3>6, <3>7, <3>9, <3>10, <3>11, <3>12, <3>13,
         <3>14, <3>15 DEF Work
  <2> QED
    BY <2>1, <2>2 DEF Next
<1> QED
  BY <1>1, <1>2, TypeCorrect, PTL DEF Spec

(***************************************************************************)
(* A failure while planning or accumulating leaves the stored buckets      *)
(* untouched (pipeline.py, _reset_and_refill).                             *)
(***************************************************************************)
THEOREM FailureBeforeDeleteIsHarmless == Spec => []NothingDeletedBeforeAccumulated
<1>1. QuietInv => NothingDeletedBeforeAccumulated
  BY DEF QuietInv, ReadingInv, Reading, NothingDeletedBeforeAccumulated
<1> QED
  BY <1>1, Quiet, PTL

\* A dry run changes no table and pushes no estimate (pipeline.py, recalculate).
THEOREM DryRunIsHarmless == Spec => []DryRunChangesNothing
<1>1. QuietInv => DryRunChangesNothing
  BY DEF QuietInv, ReadingInv, Reading, DryRunChangesNothing
<1> QED
  BY <1>1, Quiet, PTL

(***************************************************************************)
(* A daily run with a charge it cannot sum persists nothing (charges.py,   *)
(* accumulate without isolate_agreements).                                 *)
(***************************************************************************)
THEOREM RunFailsBeforePersisting == Spec => []RunFailsWhole
<1>1. QuietInv => RunFailsWhole
  BY DEF QuietInv, ReadingInv, Reading, Doomed, RunFailsWhole
<1> QED
  BY <1>1, Quiet, PTL
=============================================================================
