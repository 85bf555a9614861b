-------------------------- MODULE ChargeAccumulator --------------------------
(***************************************************************************)
(* ChargeAccumulator.accumulate (services/charges.py): the statements one  *)
(* at a time, the charges of each streamed into totals of its own, inside  *)
(* the bracket of a statement_processing row (StatementProcessingRecorder, *)
(* services/execution_tracker.py), and merged once all could be summed.    *)
(*                                                                         *)
(* The order of the statements and of the charges is the platform's: any.  *)
(***************************************************************************)
EXTENDS Billing, Integers, FiniteSets

CONSTANTS Arguments,  \* what accumulate may be called with
          None        \* no statement is being streamed

ASSUME ArgumentsAssumption ==
  /\ Arguments \subseteq [statements : SUBSET Statements,
                          ids        : SUBSET Subscriptions,
                          isolate    : BOOLEAN]
  /\ None \notin Statements

VARIABLES
  arguments,   \* the statements, the ids of the filter and isolate_agreements
  phase,       \* "looping", "streaming", "returned" or "raised"
  left,        \* the statements not yet come to
  current,     \* the one whose row is open
  unread,      \* its charges not yet streamed
  partial,     \* its own totals: the charges summed so far
  totals,      \* charge |-> how often the totals count it
  failed,      \* totals.failed_agreements
  rows         \* statement |-> the status of its statement_processing row

stream == <<current, unread, partial>>
vars   == <<arguments, phase, left, stream, totals, failed, rows>>

Listed(st) == {c \in Charges : StatementOf[c] = st}

CanBeSummed(c) == c \notin Unpriced \/ ~Passes(c, arguments.ids)

Init ==
  /\ arguments \in Arguments
  /\ phase = "looping"
  /\ left = arguments.statements
  /\ current = None
  /\ unread = {}
  /\ partial = {}
  /\ totals = [c \in Charges |-> 0]
  /\ failed = {}
  /\ rows = [st \in Statements |-> "none"]

FailedItself(st) == rows[st] = "failure"
OfFailedAgreement(st) == StatementAgreement[st] \in failed

\* The remaining statements of a failed agreement are not streamed.
LeaveOut ==
  \E st \in left :
    /\ phase = "looping"
    /\ OfFailedAgreement(st)
    /\ left' = left \ {st}
    /\ UNCHANGED <<arguments, phase, stream, totals, failed, rows>>

OpenStatement ==
  \E st \in left :
    /\ phase = "looping"
    /\ ~OfFailedAgreement(st)
    /\ phase' = "streaming"
    /\ left' = left \ {st}
    /\ current' = st
    /\ unread' = Listed(st)
    /\ partial' = {}
    /\ rows' = [rows EXCEPT ![st] = "running"]
    /\ UNCHANGED <<arguments, totals, failed>>

StreamCharge ==
  \E c \in unread :
    /\ phase = "streaming"
    /\ CanBeSummed(c)
    /\ unread' = unread \ {c}
    /\ partial' = IF Passes(c, arguments.ids) THEN partial \cup {c} ELSE partial
    /\ UNCHANGED <<arguments, phase, left, current, totals, failed, rows>>

\* The row is closed, then the statement merged.
FinishStatement ==
  /\ phase = "streaming"
  /\ unread = {}
  /\ phase' = "looping"
  /\ current' = None
  /\ partial' = {}
  /\ totals' = [c \in Charges |-> totals[c] + (IF c \in partial THEN 1 ELSE 0)]
  /\ rows' = [rows EXCEPT ![current] = "success"]
  /\ UNCHANGED <<arguments, left, unread, failed>>

CloseFailedRow(next) ==
  /\ phase' = next
  /\ current' = None
  /\ unread' = {}
  /\ partial' = {}
  /\ rows' = [rows EXCEPT ![current] = "failure"]
  /\ UNCHANGED <<arguments, left>>

\* fail_agreement
KeepingTheBuckets(agreement) == totals
Subtracting(agreement) ==
  [c \in Charges |-> IF AgreementOf(c) = agreement THEN totals[c] - 1 ELSE totals[c]]
DroppingItsBuckets(agreement) ==
  LET touched == {Key(c) : c \in Listed(current)}
  IN [c \in Charges |-> IF Key(c) \in touched THEN 0 ELSE totals[c]]
WithoutAgreement(agreement) ==
  [c \in Charges |-> IF AgreementOf(c) = agreement THEN 0 ELSE totals[c]]

FailAgreement ==
  /\ phase = "streaming"
  /\ arguments.isolate
  /\ \E c \in unread : ~CanBeSummed(c)
  /\ CloseFailedRow("looping")
  /\ failed' = failed \cup {StatementAgreement[current]}
  /\ totals' = WithoutAgreement(StatementAgreement[current])

ChargeRaises ==
  /\ phase = "streaming"
  /\ ~arguments.isolate
  /\ \E c \in unread : ~CanBeSummed(c)
  /\ CloseFailedRow("raised")
  /\ UNCHANGED <<totals, failed>>

\* Isolating or not, an upstream error while streaming is not contained.
StreamingRaises ==
  /\ phase = "streaming"
  /\ CloseFailedRow("raised")
  /\ UNCHANGED <<totals, failed>>

\* A write of the row raises, or the process is killed: the row stays as it is.
Interrupted ==
  /\ phase \in {"looping", "streaming"}
  /\ phase' = "raised"
  /\ UNCHANGED <<arguments, left, stream, totals, failed, rows>>

Return ==
  /\ phase = "looping"
  /\ left = {}
  /\ phase' = "returned"
  /\ UNCHANGED <<arguments, left, stream, totals, failed, rows>>

Progress ==
  \/ LeaveOut \/ OpenStatement \/ StreamCharge \/ FinishStatement
  \/ FailAgreement \/ ChargeRaises
  \/ Return

Next == Progress \/ StreamingRaises \/ Interrupted

Spec == Init /\ [][Next]_vars

\* The platform ends a stream of charges, and the loop goes on.
FairSpec == Spec /\ WF_vars(Progress)

-----------------------------------------------------------------------------
TypeOK ==
  /\ arguments \in Arguments
  /\ phase \in {"looping", "streaming", "returned", "raised"}
  /\ left \in SUBSET Statements
  /\ current \in Statements \cup {None}
  /\ unread \in SUBSET Charges
  /\ partial \in SUBSET Charges
  /\ totals \in [Charges -> Nat]
  /\ failed \in SUBSET Agreements
  /\ rows \in [Statements -> {"none", "running", "success", "failure"}]

(***************************************************************************)
(* "A statement never counts partly": of each statement the totals hold    *)
(* nothing, or every charge that passes the filter, once.                  *)
(***************************************************************************)
StatementsCountWhole ==
  \A st \in Statements :
    \/ \A c \in Listed(st) : totals[c] = 0
    \/ \A c \in Listed(st) : totals[c] = IF Passes(c, arguments.ids) THEN 1 ELSE 0

(***************************************************************************)
(* The statement_processing rows agree with the totals: a statement counts *)
(* if and only if its row says success and its agreement did not fail;     *)
(* each failed agreement has one failure row, that of the statement it     *)
(* failed on; and no two rows are open at a time.                          *)
(***************************************************************************)
RowsMatchTotals ==
  /\ \A c \in Charges :
       totals[c] > 0 <=> /\ rows[StatementOf[c]] = "success"
                         /\ Passes(c, arguments.ids)
                         /\ AgreementOf(c) \notin failed
  /\ \A a \in failed :
       Cardinality({st \in Statements : /\ StatementAgreement[st] = a
                                        /\ rows[st] = "failure"}) = 1
  /\ \A st \in Statements : rows[st] = "running" => st = current

-----------------------------------------------------------------------------
\* The caller sees neither the totals nor the failed agreements before the end.
Returned == phase = "returned"

Contract == INSTANCE AccumulationContract WITH
  arguments <- arguments,
  state     <- IF phase \in {"looping", "streaming"} THEN "running" ELSE phase,
  counted   <- [c \in Charges |-> IF Returned THEN totals[c] ELSE 0],
  leftOut   <- IF Returned THEN failed ELSE {}

(***************************************************************************)
(* Statement by statement, in any order and with any failure, the          *)
(* accumulator comes to what the contract says in one step, and it ends.   *)
(***************************************************************************)
ImplementsContract == Contract!FairSpec
=============================================================================
