----------------------- MODULE ChargeAccumulatorProofs -----------------------
(***************************************************************************)
(* Theorems about ChargeAccumulator, for every set of statements and       *)
(* charges, in every order, with every failure: at any moment the totals   *)
(* are the accumulation of the statements it has come to so far.           *)
(***************************************************************************)
EXTENDS ChargeAccumulator, FiniteSetTheorems, TLAPS

-----------------------------------------------------------------------------
(***************************************************************************)
(* What one more statement does to an isolating accumulation of `sts`.     *)
(***************************************************************************)

\* A charge of the statement that passes the filter and cannot be summed.
Spoils(st, ids) == \E c \in Listed(st) : c \in Unpriced /\ Passes(c, ids)

\* The charges of the statement that pass the filter.
Passing(st, ids) == {c \in Listed(st) : Passes(c, ids)}

\* The charges listed on a statement are of its agreement.
LEMMA ListedAgreement ==
  ASSUME NEW st, NEW c \in Listed(st)
  PROVE  AgreementOf(c) = StatementAgreement[st]
BY ListedByItsAgreement DEF Listed, AgreementOf

\* The charges of one more statement.
LEMMA ChargesOfOneMore ==
  ASSUME NEW sts, NEW st, NEW ids
  PROVE  ChargesOf(sts \cup {st}, ids) = ChargesOf(sts, ids) \cup Passing(st, ids)
BY DEF ChargesOf, Passing, Listed

\* Its agreement fails, or not; no other does.
LEMMA UnsummableOneMore ==
  ASSUME NEW sts, NEW st, NEW ids
  PROVE  UnsummableAgreements(sts \cup {st}, ids)
           = UnsummableAgreements(sts, ids)
               \cup (IF Spoils(st, ids) THEN {StatementAgreement[st]} ELSE {})
<1>1. UnsummableAgreements(sts \cup {st}, ids)
        = UnsummableAgreements(sts, ids)
            \cup {StatementAgreement[StatementOf[c]] : c \in Passing(st, ids) \cap Unpriced}
  BY ChargesOfOneMore DEF UnsummableAgreements
<1>2. {StatementAgreement[StatementOf[c]] : c \in Passing(st, ids) \cap Unpriced}
        = IF Spoils(st, ids) THEN {StatementAgreement[st]} ELSE {}
  BY DEF Passing, Listed, Spoils
<1> QED
  BY <1>1, <1>2

\* A statement of an agreement that has failed makes no difference.
LEMMA LeavingOut ==
  ASSUME NEW sts, NEW st, NEW ids,
         StatementAgreement[st] \in UnsummableAgreements(sts, ids)
  PROVE  /\ UnsummableAgreements(sts \cup {st}, ids) = UnsummableAgreements(sts, ids)
         /\ Accumulated(sts \cup {st}, ids) = Accumulated(sts, ids)
<1>1. UnsummableAgreements(sts \cup {st}, ids) = UnsummableAgreements(sts, ids)
  BY UnsummableOneMore
<1>2. \A c \in Passing(st, ids) : AgreementOf(c) \in UnsummableAgreements(sts, ids)
  BY ListedAgreement DEF Passing
<1> QED
  BY <1>1, <1>2, ChargesOfOneMore DEF Accumulated

\* A statement that can be summed, of an agreement that has not failed.
LEMMA Merging ==
  ASSUME NEW sts, NEW st, NEW ids,
         StatementAgreement[st] \notin UnsummableAgreements(sts, ids),
         ~Spoils(st, ids)
  PROVE  /\ UnsummableAgreements(sts \cup {st}, ids) = UnsummableAgreements(sts, ids)
         /\ Accumulated(sts \cup {st}, ids) = Accumulated(sts, ids) \cup Passing(st, ids)
<1>1. UnsummableAgreements(sts \cup {st}, ids) = UnsummableAgreements(sts, ids)
  BY UnsummableOneMore
<1>2. \A c \in Passing(st, ids) : AgreementOf(c) \notin UnsummableAgreements(sts, ids)
  BY ListedAgreement DEF Passing
<1> QED
  BY <1>1, <1>2, ChargesOfOneMore DEF Accumulated

\* A statement that cannot: its agreement is taken out.
LEMMA Failing ==
  ASSUME NEW sts, NEW st, NEW ids, Spoils(st, ids)
  PROVE  /\ UnsummableAgreements(sts \cup {st}, ids)
              = UnsummableAgreements(sts, ids) \cup {StatementAgreement[st]}
         /\ Accumulated(sts \cup {st}, ids)
              = {c \in Accumulated(sts, ids) : AgreementOf(c) # StatementAgreement[st]}
<1>1. UnsummableAgreements(sts \cup {st}, ids)
        = UnsummableAgreements(sts, ids) \cup {StatementAgreement[st]}
  BY UnsummableOneMore
<1>2. \A c \in Passing(st, ids) : AgreementOf(c) = StatementAgreement[st]
  BY ListedAgreement DEF Passing
<1> QED
  BY <1>1, <1>2, ChargesOfOneMore DEF Accumulated

-----------------------------------------------------------------------------
(***************************************************************************)
(* The inductive invariant.                                                *)
(***************************************************************************)

\* The statements it has come to, the open one excepted.
Done == arguments.statements \ (left \cup {current})

\* The totals count just these charges, once.
TotalsAre(cs) == totals = [c \in Charges |-> IF c \in cs THEN 1 ELSE 0]

LoopInv ==
  /\ left \subseteq arguments.statements
  /\ phase \in {"looping", "returned"} => current = None
  /\ phase = "returned" => left = {}

StreamInv ==
  phase = "streaming" =>
    /\ current \in arguments.statements \ left
    /\ ~OfFailedAgreement(current)
    /\ unread \subseteq Listed(current)
    /\ partial = {c \in Listed(current) \ unread : Passes(c, arguments.ids)}
    /\ \A c \in Listed(current) \ unread : CanBeSummed(c)

TotalsInv ==
  phase # "raised" =>
    /\ failed = UnsummableAgreements(Done, arguments.ids)
    /\ TotalsAre(Accumulated(Done, arguments.ids))
    /\ ~arguments.isolate => failed = {}

\* What is left when it raises: the totals of some of the statements.
SomeStatements == \E sts \in SUBSET Statements : TotalsAre(Accumulated(sts, arguments.ids))

Inv == TypeOK /\ LoopInv /\ StreamInv /\ TotalsInv /\ SomeStatements

\* The arguments are what ArgumentsAssumption says.
LEMMA ArgumentTypes ==
  ASSUME arguments \in Arguments
  PROVE  /\ arguments.statements \subseteq Statements
         /\ arguments.isolate \in BOOLEAN
BY ArgumentsAssumption DEF ArgumentsAssumption

\* Accumulating nothing.
LEMMA NothingAccumulated ==
  ASSUME NEW ids
  PROVE  UnsummableAgreements({}, ids) = {} /\ Accumulated({}, ids) = {}
BY DEF UnsummableAgreements, Accumulated, ChargesOf

\* The invariant holds when accumulate is called.
LEMMA InitInv == Init => Inv
<1> SUFFICES ASSUME Init PROVE Inv
  OBVIOUS
<1> USE DEF Init
<1>1. TypeOK /\ LoopInv /\ StreamInv
  BY ArgumentTypes DEF TypeOK, LoopInv, StreamInv
<1>2. Done = {}
  BY DEF Done
<1>3. TotalsInv
  BY <1>2, NothingAccumulated DEF TotalsInv, TotalsAre
<1>4. SomeStatements
  <2>1. TotalsAre(Accumulated({}, arguments.ids))
    BY NothingAccumulated DEF TotalsAre
  <2> QED
    BY <2>1 DEF SomeStatements
<1> QED
  BY <1>1, <1>3, <1>4 DEF Inv

\* A step that touches neither the totals nor the failed agreements.
LEMMA TotalsKept ==
  ASSUME SomeStatements, UNCHANGED <<arguments, totals>>
  PROVE  SomeStatements'
BY DEF SomeStatements, TotalsAre

-----------------------------------------------------------------------------
(***************************************************************************)
(* Each step keeps the invariant.                                          *)
(***************************************************************************)
LEMMA LeaveOutKeeps == ASSUME Inv, LeaveOut PROVE Inv'
<1> USE DEF Inv
<1> PICK st \in left : /\ phase = "looping"
                       /\ OfFailedAgreement(st)
                       /\ left' = left \ {st}
                       /\ UNCHANGED <<arguments, phase, stream, totals, failed, rows>>
  BY DEF LeaveOut
<1>1. TypeOK'
  BY DEF TypeOK, stream
<1>2. LoopInv' /\ StreamInv'
  BY DEF LoopInv, StreamInv, stream
<1>3. Done' = Done \cup {st}
  BY ArgumentTypes, ArgumentsAssumption DEF Done, LoopInv, TypeOK, stream, ArgumentsAssumption
<1>4. StatementAgreement[st] \in UnsummableAgreements(Done, arguments.ids)
  BY DEF OfFailedAgreement, TotalsInv
<1>5. /\ UnsummableAgreements(Done', arguments.ids) = UnsummableAgreements(Done, arguments.ids)
      /\ Accumulated(Done', arguments.ids) = Accumulated(Done, arguments.ids)
  BY <1>3, <1>4, LeavingOut
<1>6. TotalsInv'
  BY <1>5 DEF TotalsInv, TotalsAre
<1> QED
  BY <1>1, <1>2, <1>6, TotalsKept

LEMMA OpenStatementKeeps == ASSUME Inv, OpenStatement PROVE Inv'
<1> USE DEF Inv
<1> PICK st \in left : /\ phase = "looping"
                       /\ ~OfFailedAgreement(st)
                       /\ phase' = "streaming"
                       /\ left' = left \ {st}
                       /\ current' = st
                       /\ unread' = Listed(st)
                       /\ partial' = {}
                       /\ rows' = [rows EXCEPT ![st] = "running"]
                       /\ UNCHANGED <<arguments, totals, failed>>
  BY DEF OpenStatement
<1>1. TypeOK'
  BY DEF TypeOK, Listed
<1>2. LoopInv' /\ StreamInv'
  BY DEF LoopInv, StreamInv, OfFailedAgreement
<1>3. Done' = Done
  BY ArgumentTypes, ArgumentsAssumption DEF Done, LoopInv, TypeOK, ArgumentsAssumption
<1>4. TotalsInv'
  BY <1>3 DEF TotalsInv, TotalsAre
<1> QED
  BY <1>1, <1>2, <1>4, TotalsKept

LEMMA StreamChargeKeeps == ASSUME Inv, StreamCharge PROVE Inv'
<1> USE DEF Inv
<1> PICK c \in unread :
      /\ phase = "streaming"
      /\ CanBeSummed(c)
      /\ unread' = unread \ {c}
      /\ partial' = IF Passes(c, arguments.ids) THEN partial \cup {c} ELSE partial
      /\ UNCHANGED <<arguments, phase, left, current, totals, failed, rows>>
  BY DEF StreamCharge
<1>1. TypeOK'
  BY DEF TypeOK
<1>2. LoopInv'
  BY DEF LoopInv
<1>3. StreamInv'
  BY DEF StreamInv, OfFailedAgreement, CanBeSummed
<1>4. TotalsInv'
  BY DEF TotalsInv, TotalsAre, Done
<1> QED
  BY <1>1, <1>2, <1>3, <1>4, TotalsKept

LEMMA FinishStatementKeeps == ASSUME Inv, FinishStatement PROVE Inv'
<1> USE DEF Inv, FinishStatement
<1> DEFINE ids == arguments.ids
<1>1. TypeOK'
  <2>1. totals' \in [Charges -> Nat]
    <3>1. \A c \in Charges : totals[c] + (IF c \in partial THEN 1 ELSE 0) \in Nat
      BY DEF TypeOK
    <3> QED
      BY <3>1
  <2>2. rows' \in [Statements -> {"none", "running", "success", "failure"}]
    BY DEF TypeOK
  <2> QED
    BY <2>1, <2>2 DEF TypeOK
<1>2. LoopInv' /\ StreamInv'
  BY DEF LoopInv, StreamInv
<1>3. current \in Statements /\ current \in arguments.statements \ left
  BY ArgumentTypes DEF StreamInv, TypeOK
<1>4. Done' = Done \cup {current}
  BY <1>3, ArgumentTypes, ArgumentsAssumption DEF Done, TypeOK, ArgumentsAssumption
<1>5. partial = Passing(current, ids) /\ ~Spoils(current, ids)
  BY DEF StreamInv, Passing, Spoils, CanBeSummed
<1>6. StatementAgreement[current] \notin UnsummableAgreements(Done, ids)
  BY DEF StreamInv, TotalsInv, OfFailedAgreement
<1>7. /\ UnsummableAgreements(Done', ids) = UnsummableAgreements(Done, ids)
      /\ Accumulated(Done', ids) = Accumulated(Done, ids) \cup partial
  BY <1>4, <1>5, <1>6, Merging
<1>8. Accumulated(Done, ids) \cap partial = {}
  BY <1>5 DEF Accumulated, ChargesOf, Passing, Listed, Done
<1>9. TotalsAre(Accumulated(Done, ids))'
  <2>1. totals = [c \in Charges |-> IF c \in Accumulated(Done, ids) THEN 1 ELSE 0]
    BY DEF TotalsInv, TotalsAre
  <2>2. totals' = [c \in Charges |-> IF c \in Accumulated(Done, ids) \cup partial
                                     THEN 1 ELSE 0]
    BY <2>1, <1>8
  <2> QED
    BY <2>2, <1>7 DEF TotalsAre
<1>10. TotalsInv'
  BY <1>7, <1>9 DEF TotalsInv
<1>11. SomeStatements'
  <2>1. Done' \in SUBSET Statements
    BY <1>3, <1>4, ArgumentTypes DEF Done, TypeOK
  <2> QED
    BY <2>1, <1>9 DEF SomeStatements, TotalsAre
<1> QED
  BY <1>1, <1>2, <1>10, <1>11

LEMMA FailAgreementKeeps == ASSUME Inv, FailAgreement PROVE Inv'
<1> USE DEF Inv, FailAgreement, CloseFailedRow
<1> DEFINE ids == arguments.ids
<1>1. TypeOK'
  BY BillingAssumption, ArgumentTypes
     DEF TypeOK, WithoutAgreement, StreamInv, BillingAssumption
<1>2. LoopInv' /\ StreamInv'
  BY DEF LoopInv, StreamInv
<1>3. current \in Statements /\ current \in arguments.statements \ left
  BY ArgumentTypes DEF StreamInv, TypeOK
<1>4. Done' = Done \cup {current}
  BY <1>3, ArgumentTypes, ArgumentsAssumption DEF Done, TypeOK, ArgumentsAssumption
<1>5. Spoils(current, ids)
  BY DEF StreamInv, Spoils, CanBeSummed
<1>6. /\ UnsummableAgreements(Done', ids) = failed'
      /\ Accumulated(Done', ids)
           = {c \in Accumulated(Done, ids) : AgreementOf(c) # StatementAgreement[current]}
  BY <1>4, <1>5, Failing DEF TotalsInv
<1>7. TotalsAre(Accumulated(Done, ids))'
  <2>1. totals = [c \in Charges |-> IF c \in Accumulated(Done, ids) THEN 1 ELSE 0]
    BY DEF TotalsInv, TotalsAre
  <2> QED
    BY <2>1, <1>6 DEF TotalsAre, WithoutAgreement
<1>8. TotalsInv'
  BY <1>6, <1>7 DEF TotalsInv
<1>9. SomeStatements'
  <2>1. Done' \in SUBSET Statements
    BY <1>3, <1>4, ArgumentTypes DEF Done, TypeOK
  <2> QED
    BY <2>1, <1>7 DEF SomeStatements, TotalsAre
<1> QED
  BY <1>1, <1>2, <1>8, <1>9

LEMMA RaisingKeeps ==
  ASSUME Inv, ChargeRaises \/ StreamingRaises \/ Interrupted
  PROVE  Inv'
<1> USE DEF Inv, ChargeRaises, StreamingRaises, Interrupted, CloseFailedRow, stream
<1>1. phase' = "raised" /\ UNCHANGED <<arguments, left, totals, failed>>
  OBVIOUS
<1>2. TypeOK'
  BY DEF TypeOK
<1>3. LoopInv' /\ StreamInv' /\ TotalsInv'
  BY <1>1 DEF LoopInv, StreamInv, TotalsInv
<1> QED
  BY <1>1, <1>2, <1>3, TotalsKept

LEMMA ReturnKeeps == ASSUME Inv, Return PROVE Inv'
<1> USE DEF Inv, Return, stream
<1>1. TypeOK'
  BY DEF TypeOK
<1>2. LoopInv' /\ StreamInv'
  BY DEF LoopInv, StreamInv
<1>3. TotalsInv'
  BY DEF TotalsInv, TotalsAre, Done
<1> QED
  BY <1>1, <1>2, <1>3, TotalsKept

(***************************************************************************)
(* At any moment the totals are the accumulation of the statements come to *)
(* so far, and the failed agreements those it leaves out (charges.py,      *)
(* _process_statement).                                                    *)
(***************************************************************************)
THEOREM Accumulates == Spec => []Inv
<1>1. Inv /\ [Next]_vars => Inv'
  <2> SUFFICES ASSUME Inv, [Next]_vars PROVE Inv'
    OBVIOUS
  <2>1. CASE UNCHANGED vars
    BY <2>1 DEF Inv, vars, stream, TypeOK, LoopInv, StreamInv, TotalsInv, SomeStatements,
                TotalsAre, Done, OfFailedAgreement, CanBeSummed
  <2>2. CASE Next
    BY <2>2, LeaveOutKeeps, OpenStatementKeeps, StreamChargeKeeps, FinishStatementKeeps,
       FailAgreementKeeps, RaisingKeeps, ReturnKeeps DEF Next, Progress
  <2> QED
    BY <2>1, <2>2
<1> QED
  BY <1>1, InitInv, PTL DEF Spec

\* No value of the accumulator leaves its type (charges.py, accumulation.py).
THEOREM TypeCorrect == Spec => []TypeOK
<1>1. Inv => TypeOK
  BY DEF Inv
<1> QED
  BY <1>1, Accumulates, PTL

(***************************************************************************)
(* A statement never counts partly, whatever is raised or killed           *)
(* (charges.py, _accumulate_statement).                                    *)
(***************************************************************************)
THEOREM NeverCountsPartly == Spec => []StatementsCountWhole
<1>1. Inv => StatementsCountWhole
  <2> SUFFICES ASSUME Inv, NEW st \in Statements
               PROVE  \/ \A c \in Listed(st) : totals[c] = 0
                      \/ \A c \in Listed(st) :
                           totals[c] = IF Passes(c, arguments.ids) THEN 1 ELSE 0
    BY DEF StatementsCountWhole
  <2>1. PICK sts \in SUBSET Statements : TotalsAre(Accumulated(sts, arguments.ids))
    BY DEF Inv, SomeStatements
  <2>2. CASE /\ st \in sts
             /\ StatementAgreement[st] \notin UnsummableAgreements(sts, arguments.ids)
    <3>1. \A c \in Listed(st) :
            c \in Accumulated(sts, arguments.ids) <=> Passes(c, arguments.ids)
      BY <2>2, ListedAgreement DEF Accumulated, ChargesOf, Listed
    <3> QED
      BY <2>1, <3>1 DEF TotalsAre, Listed
  <2>3. CASE \/ st \notin sts
             \/ StatementAgreement[st] \in UnsummableAgreements(sts, arguments.ids)
    <3>1. \A c \in Listed(st) : c \notin Accumulated(sts, arguments.ids)
      BY <2>3, ListedAgreement DEF Accumulated, ChargesOf, Listed
    <3> QED
      BY <2>1, <3>1 DEF TotalsAre, Listed
  <2> QED
    BY <2>2, <2>3
<1> QED
  BY <1>1, Accumulates, PTL

-----------------------------------------------------------------------------
(***************************************************************************)
(* The statement_processing rows.                                          *)
(***************************************************************************)
FailureRows(a) ==
  {st \in Statements : StatementAgreement[st] = a /\ rows[st] = "failure"}

RowsInv ==
  /\ \A st \in left : rows[st] = "none"
  /\ \A st \in Statements : rows[st] = "running" <=> st = current
  /\ \A st \in Statements :
       rows[st] = "failure" /\ phase # "raised" => OfFailedAgreement(st)
  /\ \A a \in failed : \E st \in Statements : FailureRows(a) = {st}
  /\ \A c \in Charges :
       totals[c] > 0 <=> /\ rows[StatementOf[c]] = "success"
                         /\ Passes(c, arguments.ids)
                         /\ AgreementOf(c) \notin failed

\* A step that changes no row, total or failed agreement keeps RowsInv.
LEMMA OtherStepsKeepRows ==
  ASSUME RowsInv, left' \subseteq left,
         UNCHANGED <<arguments, current, totals, failed, rows>>,
         phase' # "raised" => phase # "raised"
  PROVE  RowsInv'
BY DEF RowsInv, OfFailedAgreement, FailureRows

LEMMA OpenStatementKeepsRows ==
  ASSUME Inv, RowsInv, OpenStatement
  PROVE  RowsInv'
<1> PICK st \in left : /\ phase = "looping"
                       /\ ~OfFailedAgreement(st)
                       /\ phase' = "streaming"
                       /\ left' = left \ {st}
                       /\ current' = st
                       /\ rows' = [rows EXCEPT ![st] = "running"]
                       /\ UNCHANGED <<arguments, totals, failed>>
  BY DEF OpenStatement
<1>1. /\ st \in Statements
      /\ rows \in [Statements -> {"none", "running", "success", "failure"}]
      /\ current = None
      /\ rows[st] = "none"
  BY DEF Inv, TypeOK, LoopInv, RowsInv
<1>2. \A x \in Statements : rows'[x] = IF x = st THEN "running" ELSE rows[x]
  BY <1>1
<1>3. \A a : FailureRows(a)' = FailureRows(a)
  BY <1>1, <1>2 DEF FailureRows
<1>4. \A c \in Charges : StatementOf[c] \in Statements
  BY BillingAssumption DEF BillingAssumption
<1>5. \A c \in Charges : rows'[StatementOf[c]] = "success" <=> rows[StatementOf[c]] = "success"
  BY <1>1, <1>2, <1>4
<1> QED
  BY <1>1, <1>2, <1>3, <1>5, ArgumentsAssumption
     DEF RowsInv, OfFailedAgreement, ArgumentsAssumption, Inv, TypeOK

LEMMA FinishStatementKeepsRows ==
  ASSUME Inv, RowsInv, FinishStatement
  PROVE  RowsInv'
<1> USE DEF FinishStatement
<1>1. /\ current \in Statements
      /\ current \notin left
      /\ rows \in [Statements -> {"none", "running", "success", "failure"}]
      /\ partial = Passing(current, arguments.ids)
      /\ ~OfFailedAgreement(current)
      /\ totals \in [Charges -> Nat]
      /\ left \subseteq Statements
  BY ArgumentTypes DEF Inv, TypeOK, StreamInv, Passing
<1>2. \A x \in Statements : rows'[x] = IF x = current THEN "success" ELSE rows[x]
  BY <1>1
<1>3. rows[current] = "running"
  BY <1>1 DEF RowsInv
<1>4. \A a : FailureRows(a)' = FailureRows(a)
  BY <1>1, <1>2, <1>3 DEF FailureRows
<1>5. ASSUME NEW c \in Charges
      PROVE  totals'[c] > 0 <=> /\ rows'[StatementOf[c]] = "success"
                                /\ Passes(c, arguments.ids)
                                /\ AgreementOf(c) \notin failed
  <2>1. StatementOf[c] \in Statements
    BY BillingAssumption DEF BillingAssumption
  <2>2. CASE StatementOf[c] = current
    <3>1. AgreementOf(c) \notin failed
      BY <1>1, <2>2, ListedByItsAgreement DEF OfFailedAgreement, AgreementOf
    <3>2. totals[c] = 0
      BY <1>1, <1>3, <2>2 DEF RowsInv
    <3>3. c \in partial <=> Passes(c, arguments.ids)
      BY <1>1, <2>2 DEF Passing, Listed
    <3>4. totals'[c] = IF c \in partial THEN 1 ELSE 0
      BY <3>2
    <3> QED
      BY <1>2, <2>1, <2>2, <3>1, <3>3, <3>4
  <2>3. CASE StatementOf[c] # current
    <3>1. totals'[c] = totals[c]
      BY <1>1, <2>3 DEF Passing, Listed
    <3> QED
      BY <1>2, <2>1, <2>3, <3>1 DEF RowsInv
  <2> QED
    BY <2>2, <2>3
<1>6. \A x \in Statements : rows'[x] = "running" <=> x = current'
  BY <1>2, ArgumentsAssumption DEF RowsInv, ArgumentsAssumption
<1>7. \A x \in left' : rows'[x] = "none"
  BY <1>1, <1>2 DEF RowsInv
<1> QED
  BY <1>1, <1>2, <1>4, <1>5, <1>6, <1>7 DEF RowsInv, OfFailedAgreement

LEMMA ClosingKeepsRows ==
  ASSUME Inv, RowsInv, FailAgreement \/ ChargeRaises \/ StreamingRaises
  PROVE  RowsInv'
<1> PICK agreement : agreement = StatementAgreement[current]
  OBVIOUS
<1>1. /\ phase = "streaming"
      /\ current' = None
      /\ rows' = [rows EXCEPT ![current] = "failure"]
      /\ UNCHANGED <<arguments, left>>
  BY DEF FailAgreement, ChargeRaises, StreamingRaises, CloseFailedRow
<1>2. /\ current \in Statements
      /\ current \notin left
      /\ rows \in [Statements -> {"none", "running", "success", "failure"}]
      /\ agreement \notin failed
      /\ totals \in [Charges -> Nat]
      /\ left \subseteq Statements
  BY <1>1, ArgumentTypes DEF Inv, TypeOK, StreamInv, OfFailedAgreement
<1>3. \A x \in Statements : rows'[x] = IF x = current THEN "failure" ELSE rows[x]
  BY <1>1, <1>2
<1>4. rows[current] = "running" /\ \A x \in Statements : rows[x] = "running" => x = current
  BY <1>2 DEF RowsInv
<1>5. \A x \in Statements : rows[x] = "failure" => OfFailedAgreement(x)
  BY <1>1 DEF RowsInv
<1>6. \A a \in failed : FailureRows(a)' = FailureRows(a)
  BY <1>2, <1>3 DEF FailureRows
<1>7. FailureRows(agreement)' = {current}
  <2>1. \A x \in Statements :
          x \in {y \in Statements : StatementAgreement[y] = agreement /\ rows'[y] = "failure"}
            <=> x = current
    BY <1>2, <1>3, <1>5 DEF OfFailedAgreement
  <2> QED
    BY <1>2, <2>1 DEF FailureRows
<1>8. /\ \A x \in left' : rows'[x] = "none"
      /\ \A x \in Statements : rows'[x] = "running" <=> x = current'
  BY <1>1, <1>2, <1>3, <1>4, ArgumentsAssumption DEF RowsInv, ArgumentsAssumption
<1>9. \A c \in Charges : /\ StatementOf[c] \in Statements
                         /\ rows'[StatementOf[c]] = "success"
                              <=> rows[StatementOf[c]] = "success"
  BY <1>3, <1>4, BillingAssumption DEF BillingAssumption
<1>10. CASE FailAgreement
  <2>1. /\ failed' = failed \cup {agreement}
        /\ totals' = WithoutAgreement(agreement)
        /\ phase' = "looping"
    BY <1>10 DEF FailAgreement, CloseFailedRow
  <2>2. \A a \in failed' : \E st \in Statements : FailureRows(a)' = {st}
    BY <1>2, <1>6, <1>7, <2>1 DEF RowsInv
  <2>3. \A x \in Statements : rows'[x] = "failure" => StatementAgreement[x] \in failed'
    BY <1>3, <1>5, <2>1 DEF OfFailedAgreement
  <2>4. \A c \in Charges :
          totals'[c] > 0 <=> /\ rows'[StatementOf[c]] = "success"
                             /\ Passes(c, arguments.ids)
                             /\ AgreementOf(c) \notin failed'
    BY <1>2, <1>9, <2>1 DEF RowsInv, WithoutAgreement
  <2> QED
    BY <1>1, <1>8, <2>2, <2>3, <2>4 DEF RowsInv, OfFailedAgreement
<1>11. CASE ChargeRaises \/ StreamingRaises
  <2>1. UNCHANGED <<totals, failed>> /\ phase' = "raised"
    BY <1>11 DEF ChargeRaises, StreamingRaises, CloseFailedRow
  <2> QED
    BY <1>1, <1>6, <1>8, <1>9, <2>1 DEF RowsInv, OfFailedAgreement
<1> QED
  BY <1>10, <1>11

(***************************************************************************)
(* The processing rows agree with the totals (execution_tracker.py, record,*)
(* charges.py, _accumulate_statement).                                     *)
(***************************************************************************)
THEOREM RowsTellTheTotals == Spec => []RowsMatchTotals
<1>1. Init => RowsInv
  BY ArgumentTypes, ArgumentsAssumption, BillingAssumption
     DEF Init, RowsInv, ArgumentsAssumption, BillingAssumption
<1>2. Inv /\ RowsInv /\ [Next]_vars => RowsInv'
  <2> SUFFICES ASSUME Inv, RowsInv, [Next]_vars PROVE RowsInv'
    OBVIOUS
  <2>1. CASE LeaveOut \/ StreamCharge \/ Interrupted \/ Return \/ UNCHANGED vars
    BY <2>1, OtherStepsKeepRows
       DEF LeaveOut, StreamCharge, Interrupted, Return, vars, stream
  <2> QED
    BY <2>1, OpenStatementKeepsRows, FinishStatementKeepsRows, ClosingKeepsRows
       DEF Next, Progress
<1>3. RowsInv => RowsMatchTotals
  BY FS_Singleton DEF RowsInv, RowsMatchTotals, FailureRows
<1> QED
  BY <1>1, <1>2, <1>3, Accumulates, PTL DEF Spec

-----------------------------------------------------------------------------
\* The contract accumulates with the operators of Billing.
LEMMA SameOperators ==
  ASSUME NEW sts, NEW ids
  PROVE  /\ Contract!UnsummableAgreements(sts, ids) = UnsummableAgreements(sts, ids)
         /\ Contract!Accumulated(sts, ids) = Accumulated(sts, ids)
BY DEF Contract!UnsummableAgreements, UnsummableAgreements, Contract!Accumulated,
       Accumulated, Contract!ChargesOf, ChargesOf, Contract!Passes, Passes,
       Contract!AgreementOf, AgreementOf

(***************************************************************************)
(* The accumulator implements its contract: the one step in which          *)
(* UsagePipeline accumulates is what the loop comes to.                    *)
(***************************************************************************)
THEOREM ImplementsContractSafely == Spec => Contract!Spec
<1>1. Init => Contract!Init
  BY ArgumentsAssumption
     DEF Init, Contract!Init, Contract!ArgumentsType, Contract!Once, Returned,
         ArgumentsAssumption
<1>2. Inv /\ [Next]_vars => [Contract!Next]_Contract!vars
  <2> SUFFICES ASSUME Inv, [Next]_vars PROVE [Contract!Next]_Contract!vars
    OBVIOUS
  <2> USE DEF Contract!vars, Returned
  <2>1. CASE LeaveOut \/ OpenStatement \/ StreamCharge \/ FinishStatement \/ FailAgreement
    BY <2>1 DEF LeaveOut, OpenStatement, StreamCharge, FinishStatement, FailAgreement,
                CloseFailedRow, stream
  <2>2. CASE ChargeRaises \/ StreamingRaises \/ Interrupted
    BY <2>2 DEF ChargeRaises, StreamingRaises, Interrupted, CloseFailedRow,
                Contract!Next, Contract!Raise
  <2>3. CASE Return
    <3>1. Done = arguments.statements
      BY <2>3, ArgumentTypes, ArgumentsAssumption
         DEF Return, Inv, TypeOK, LoopInv, Done, ArgumentsAssumption
    <3>2. /\ failed = UnsummableAgreements(arguments.statements, arguments.ids)
          /\ totals = Contract!Once(Accumulated(arguments.statements, arguments.ids))
          /\ arguments.isolate \/ failed = {}
      BY <2>3, <3>1 DEF Return, Inv, TotalsInv, TotalsAre, Contract!Once
    <3>3. totals = [c \in Charges |-> totals[c]]
      BY DEF Inv, TypeOK
    <3> QED
      BY <2>3, <3>2, <3>3, SameOperators
         DEF Return, stream, Contract!Next, Contract!Return, Contract!Unsummable,
             Contract!Summable
  <2>4. CASE UNCHANGED vars
    BY <2>4 DEF vars
  <2> QED
    BY <2>1, <2>2, <2>3, <2>4 DEF Next, Progress
<1> QED
  BY <1>1, <1>2, Accumulates, PTL DEF Spec, Contract!Spec
=============================================================================
