--------------------------- MODULE DeleteContract ---------------------------
(***************************************************************************)
(* What BucketDeleter promises those who share the tables with it, however *)
(* much they write meanwhile.  It takes whole subscriptions, and only ones *)
(* it found in its scope; it takes an agreement when no subscription is in *)
(* hand; it reports what had rows when it was taken; and when it ends it   *)
(* owes nothing: a row of the scope that was there when it began, and that *)
(* no one else removed, is gone.                                           *)
(*                                                                         *)
(* A row, and not a subscription: one that another command moves from an   *)
(* agreement to be listed to one listed already is missed, though it was   *)
(* in the scope all the time.                                              *)
(***************************************************************************)
EXTENDS Sequences, SequencesExt

CONSTANTS Subscriptions, Agreements

VARIABLES
  subRows, agrRows,   \* the rows of the two tables
  scope, dryRun,      \* the subscriptions and agreements asked for
  state,              \* "open", "ended" or "raised"
  chosen,             \* the subscriptions in hand
  owed,               \* the rows that must go before the end
  report              \* the ids taken, or foretold

request == <<scope, dryRun>>
vars    == <<subRows, agrRows, request, state, chosen, owed, report>>

InScope(r) == r[1] \in scope.subscriptions \/ r[2] \in scope.agreements
RowsOf(s)  == {r \in subRows : r[1] = s}

Init ==
  /\ subRows \in SUBSET (Subscriptions \X Agreements) /\ agrRows \in SUBSET Agreements
  /\ scope \in [subscriptions : SUBSET Subscriptions, agreements : SUBSET Agreements]
  /\ dryRun \in BOOLEAN
  /\ state = "open"
  /\ chosen = {} /\ owed = {r \in subRows : InScope(r)}
  /\ report = [subscriptions |-> <<>>, agreements |-> <<>>]

Choose(ids) ==
  /\ state = "open"
  /\ \A s \in ids : s \in scope.subscriptions \/ \E r \in RowsOf(s) : InScope(r)
  /\ chosen' = chosen \cup ids
  /\ owed' = owed \cup {r \in subRows : InScope(r) /\ r[1] \in ids}
  /\ UNCHANGED <<subRows, agrRows, request, state, report>>

TakeSubscription(s) ==
  /\ state = "open" /\ ~dryRun /\ s \in chosen
  /\ subRows' = subRows \ RowsOf(s)
  /\ chosen' = chosen \ {s} /\ owed' = owed \ RowsOf(s)
  /\ report' = IF RowsOf(s) = {} THEN report
               ELSE [report EXCEPT !.subscriptions = Append(@, s)]
  /\ UNCHANGED <<agrRows, request, state>>

TakeAgreement(a) ==
  /\ state = "open" /\ ~dryRun /\ chosen = {} /\ a \in scope.agreements
  /\ agrRows' = agrRows \ {a}
  /\ report' = IF a \notin agrRows THEN report
               ELSE [report EXCEPT !.agreements = Append(@, a)]
  /\ UNCHANGED <<subRows, request, state, chosen, owed>>

End ==
  /\ state = "open" /\ ~dryRun
  /\ chosen = {} /\ owed = {} /\ agrRows \cap scope.agreements = {}
  /\ state' = "ended"
  /\ UNCHANGED <<subRows, agrRows, request, chosen, owed, report>>

\* What a dry run foretells includes all that is owed, each id once, in
\* whatever order.
Foretell ==
  /\ state = "open" /\ dryRun
  /\ \A r \in owed : r[1] \in chosen
  /\ state' = "ended"
  /\ report' \in [subscriptions : Seq(chosen), agreements : Seq(scope.agreements)]
  /\ IsInjective(report'.subscriptions) /\ ToSet(report'.subscriptions) = chosen
  /\ IsInjective(report'.agreements) /\ ToSet(report'.agreements) = scope.agreements
  /\ UNCHANGED <<subRows, agrRows, request, chosen, owed>>

\* Only a listing of agreements raises, with no subscription in hand.
Raise ==
  /\ state = "open" /\ scope.subscriptions = {} /\ chosen = {}
  /\ state' = "raised"
  /\ UNCHANGED <<subRows, agrRows, request, chosen, owed, report>>

\* Another command writes a row, which may come to be owed, or removes it.
Others(r) ==
  /\ \/ subRows' = subRows \cup {r} /\ owed' \in {owed, owed \cup {r}}
     \/ subRows' = subRows \ {r} /\ owed' = owed \ {r}
  /\ UNCHANGED <<agrRows, request, state, chosen, report>>

Next ==
  \/ \E ids \in SUBSET Subscriptions : Choose(ids)
  \/ \E s \in Subscriptions : TakeSubscription(s)
  \/ \E a \in Agreements : TakeAgreement(a)
  \/ End \/ Foretell \/ Raise
  \/ \E r \in Subscriptions \X Agreements : Others(r)

Spec == Init /\ [][Next]_vars
=============================================================================
