---------------------------- MODULE BucketDelete ----------------------------
(***************************************************************************)
(* BucketDeleter (bucket_delete.py): what a delete, or the planned delete  *)
(* of a recalculate, removes and what it reports to have removed.          *)
(*                                                                         *)
(* The agreements of a product or a seller are streamed from the API while *)
(* those listed before are already being deleted, and the stream may fail. *)
(* A recalculate lists all of them first and deletes much later.  The rows *)
(* of a subscription under an agreement are one here, whatever the month.  *)
(***************************************************************************)
EXTENDS Naturals, Sequences, FiniteSets, SequencesExt

CONSTANTS
  Subscriptions,
  Agreements,
  None,            \* the agreement of a subscription that has none
  MaxWrites        \* bound: how many rows another command adds or takes away

\* The rows of a table, and the ids the API lists, come to an end.
ASSUME DeleteAssumption ==
  /\ IsFiniteSet(Subscriptions) /\ IsFiniteSet(Agreements)
  /\ None \notin Agreements
  /\ MaxWrites \in Nat

VARIABLES
  subRows,         \* the <<subscription, agreement>> that have rows
  agrRows,         \* the agreements that have rows
  scope,           \* what the selector names, or the API finds for it
  rebuilds, dryRun,            \* whether, and how, a recalculate deletes
  phase,
  listed,          \* the agreements listed so far
  cursor, at,      \* the subscriptions to delete next, the agreements after
  planned,         \* the ResolvedScope
  outcome,         \* the DeleteOutcome
  writes,
  others           \* for the properties: the tables without this deleter

tables  == <<subRows, agrRows>>
request == <<scope, rebuilds, dryRun>>
vars    == <<tables, request, phase, listed, cursor, at, planned, outcome, writes, others>>

Nothing == [subscriptions |-> {}, agreements |-> {}]

Scopes ==
  [kind : {"subscription"}, subscriptions : {{s} : s \in Subscriptions}, agreements : {{}}]
  \cup [kind : {"agreement"}, subscriptions : {{}}, agreements : {{a} : a \in Agreements}]
  \cup [kind : {"query"}, subscriptions : {{}}, agreements : SUBSET (Agreements \cup {None})]

Init ==
  /\ subRows \in SUBSET (Subscriptions \X Agreements)
  /\ agrRows \in SUBSET Agreements
  /\ scope \in Scopes
  /\ rebuilds \in BOOLEAN /\ dryRun \in BOOLEAN /\ (dryRun => rebuilds)
  /\ phase = "listing"
  /\ listed = {} /\ cursor = {} /\ at = {}
  /\ planned = Nothing
  /\ outcome = [subscriptions |-> <<>>, agreements |-> <<>>]
  /\ writes = 0
  /\ others = [sub |-> subRows, agr |-> agrRows]

-----------------------------------------------------------------------------
EveryStored(a) == {r[1] : r \in subRows}
StoredUnder(a) == {r[1] : r \in {q \in subRows : q[2] = a}}
RowsOf(s) == {r \in subRows : r[1] = s}

\* The stream skips a subscription that has no agreement.
Unnamed(as) == as
Named(as) == as \ {None}

ListingFails ==
  /\ phase = "listing" /\ scope.kind = "query"
  /\ phase' = "raised"
  /\ UNCHANGED <<tables, request, listed, cursor, at, planned, outcome, writes, others>>

-----------------------------------------------------------------------------
(***************************************************************************)
(* delete: a subscription, or one agreement after the other as the stream  *)
(* yields them.                                                            *)
(***************************************************************************)
OpenSubscription ==
  /\ ~rebuilds /\ phase = "listing" /\ scope.kind = "subscription"
  /\ phase' = "deleting"
  /\ cursor' = scope.subscriptions
  /\ UNCHANGED <<tables, request, listed, at, planned, outcome, writes, others>>

OpenAgreement ==
  \E a \in Named(scope.agreements) \ listed :
    /\ ~rebuilds /\ phase = "listing"
    /\ phase' = "deleting"
    /\ listed' = listed \cup {a}
    /\ cursor' = StoredUnder(a)
    /\ at' = {a}
    /\ UNCHANGED <<tables, request, planned, outcome, writes, others>>

\* Only what had rows when it was deleted is reported.
Reported(ids, id, held) == Append(ids, id)
ReportHeld(ids, id, held) == IF held THEN Append(ids, id) ELSE ids

DeleteSubscription ==
  \E s \in cursor :
    /\ phase = "deleting"
    /\ cursor' = cursor \ {s}
    /\ subRows' = subRows \ RowsOf(s)
    /\ outcome' = [outcome EXCEPT !.subscriptions = ReportHeld(@, s, RowsOf(s) # {})]
    /\ UNCHANGED <<agrRows, request, phase, listed, at, planned, writes, others>>

DeleteAgreement ==
  \E a \in at :
    /\ phase = "deleting" /\ cursor = {}
    /\ at' = at \ {a}
    /\ agrRows' = agrRows \ {a}
    /\ outcome' = [outcome EXCEPT !.agreements = ReportHeld(@, a, a \in agrRows)]
    /\ UNCHANGED <<subRows, request, phase, listed, cursor, planned, writes, others>>

DeletingEnds ==
  /\ phase = "deleting" /\ cursor = {} /\ at = {}
  /\ phase' = IF rebuilds \/ listed = Named(scope.agreements) THEN "done" ELSE "listing"
  /\ UNCHANGED <<tables, request, listed, cursor, at, planned, outcome, writes, others>>

NoneListed ==
  /\ ~rebuilds /\ phase = "listing" /\ scope.kind = "query" /\ Named(scope.agreements) = {}
  /\ phase' = "done"
  /\ UNCHANGED <<tables, request, listed, cursor, at, planned, outcome, writes, others>>

-----------------------------------------------------------------------------
(***************************************************************************)
(* recalculate: resolve, reading only, and later delete_resolved.  A       *)
(* subscription keeps the agreements' rows, which sum up its siblings.     *)
(***************************************************************************)
List ==
  /\ rebuilds /\ phase = "listing"
  /\ phase' = "resolving"
  /\ listed' = Named(scope.agreements)
  /\ planned' = [Nothing EXCEPT !.subscriptions = scope.subscriptions]
  /\ UNCHANGED <<tables, request, cursor, at, outcome, writes, others>>

ResolveAgreement ==
  \E a \in listed \ planned.agreements :
    /\ phase = "resolving"
    /\ planned' = [subscriptions |-> planned.subscriptions \cup StoredUnder(a),
                   agreements    |-> planned.agreements \cup {a}]
    /\ UNCHANGED <<tables, request, phase, listed, cursor, at, outcome, writes, others>>

\* The resolved subscriptions; never those stored by the time of the delete.
ResolvedAgain == planned.subscriptions \cup UNION {StoredUnder(a) : a \in planned.agreements}
ResolvedSubscriptions == planned.subscriptions

DryRunDeletes ==
  /\ phase = "resolving" /\ planned.agreements = listed
  /\ phase' = "deleting"
  /\ cursor' = ResolvedSubscriptions
  /\ at' = planned.agreements
  /\ UNCHANGED <<tables, request, listed, planned, outcome, writes, others>>
DeleteResolved == ~dryRun /\ DryRunDeletes

ReportResolved ==
  /\ phase = "resolving" /\ planned.agreements = listed /\ dryRun
  /\ phase' = "done"
  /\ outcome' = [subscriptions |-> SetToSeq(ResolvedSubscriptions),
                 agreements    |-> SetToSeq(planned.agreements)]
  /\ UNCHANGED <<tables, request, listed, cursor, at, planned, writes, others>>

-----------------------------------------------------------------------------
\* Another command writes a row of a subscription, or takes it away.
OtherWrites ==
  /\ writes < MaxWrites
  /\ writes' = writes + 1
  /\ \E r \in Subscriptions \X Agreements :
       \/ /\ subRows' = subRows \cup {r}
          /\ others' = [others EXCEPT !.sub = @ \cup {r}]
       \/ /\ subRows' = subRows \ {r}
          /\ others' = [others EXCEPT !.sub = @ \ {r}]
  /\ UNCHANGED <<agrRows, request, phase, listed, cursor, at, planned, outcome>>

Next ==
  \/ ListingFails
  \/ OpenSubscription \/ OpenAgreement \/ DeleteSubscription \/ DeleteAgreement
  \/ DeletingEnds \/ NoneListed
  \/ List \/ ResolveAgreement \/ DeleteResolved \/ ReportResolved
  \/ OtherWrites

Spec == Init /\ [][Next]_vars

-----------------------------------------------------------------------------
(***************************************************************************)
(* Properties.                                                             *)
(***************************************************************************)
\* The types of the state: an agreement that is listed is one (_agreement_ids
\* passes over a subscription without one).
TypeOK ==
  /\ subRows \subseteq Subscriptions \X Agreements /\ agrRows \subseteq Agreements
  /\ scope \in Scopes
  /\ rebuilds \in BOOLEAN /\ dryRun \in BOOLEAN
  /\ phase \in {"listing", "resolving", "deleting", "done", "raised"}
  /\ listed \subseteq Agreements
  /\ cursor \subseteq Subscriptions /\ at \subseteq Agreements
  /\ planned \in [subscriptions : SUBSET Subscriptions, agreements : SUBSET Agreements]
  /\ outcome \in [subscriptions : Seq(Subscriptions), agreements : Seq(Agreements)]
  /\ writes \in 0..MaxWrites

\* What the scope covers of the tables as they were, if no one else wrote.
Covered ==
  scope.subscriptions \cup {r[1] : r \in {q \in others.sub : q[2] \in scope.agreements}}
Held == Covered \cap {r[1] : r \in others.sub}

\* A delete, and the delete of a recalculate, removes all the scope held and only
\* that, and its outcome - whose lengths the execution row records - names each
\* subscription and agreement that had rows once, also where a subscription was
\* stored under several of the agreements (delete, delete_resolved).
OutcomeIsTheScope ==
  phase = "done" /\ ~dryRun /\ writes = 0 =>
    /\ subRows = {r \in others.sub : r[1] \notin Held}
    /\ agrRows = others.agr \ scope.agreements
    /\ IsInjective(outcome.subscriptions) /\ ToSet(outcome.subscriptions) = Held
    /\ IsInjective(outcome.agreements)
    /\ ToSet(outcome.agreements) = others.agr \cap scope.agreements

\* A dry run removes nothing, and foretells all the delete would remove; beyond
\* that it names only what the scope itself names, stored or not.
DryRunForetells ==
  dryRun /\ writes = 0 =>
    /\ <<subRows, agrRows>> = <<others.sub, others.agr>>
    /\ phase = "done" =>
         /\ ToSet(outcome.subscriptions) = Covered
         /\ ToSet(outcome.agreements) = Named(scope.agreements)

\* When the stream of agreements fails, a recalculate has removed nothing, and a
\* delete has removed whole agreements: those listed are gone, and of the others
\* only the subscriptions they share with those.
FailedListingLeavesWhole ==
  phase = "raised" /\ writes = 0 =>
    LET gone == {r[1] : r \in {q \in others.sub : q[2] \in listed}}
    IN /\ rebuilds => listed = {}
       /\ subRows = {r \in others.sub : r[1] \notin gone}
       /\ agrRows = others.agr \ listed

\* "a recalculate deletes precisely the scope it accumulated even if membership
\* changed in the meantime": a subscription stored under its agreements only after
\* they were resolved keeps its rows (delete_resolved).
LateMembersStay ==
  rebuilds =>
    \A r \in others.sub \ subRows : r[1] \in planned.subscriptions

-----------------------------------------------------------------------------
\* The agreements whose subscriptions were not read yet, and the rows there are of
\* what is in hand or still to come.
Unopened == Named(scope.agreements) \ (IF rebuilds THEN planned.agreements ELSE listed)
InHand   == IF rebuilds /\ (dryRun \/ phase = "resolving") THEN planned.subscriptions ELSE cursor
Owed ==
  {r \in subRows :
     /\ r[1] \in scope.subscriptions \/ r[2] \in Named(scope.agreements)
     /\ \/ r[1] \in InHand \/ r[2] \in Unopened
        \/ phase = "listing" /\ r[1] \in scope.subscriptions}

Contract == INSTANCE DeleteContract WITH
  scope  <- [subscriptions |-> scope.subscriptions, agreements |-> Named(scope.agreements)],
  state  <- IF phase = "done" THEN "ended" ELSE IF phase = "raised" THEN phase ELSE "open",
  chosen <- InHand,
  owed   <- Owed,
  report <- outcome

(***************************************************************************)
(* Listing and deleting in turn, or resolved long before, and whatever is  *)
(* written meanwhile, a delete keeps the promise of DeleteContract.        *)
(***************************************************************************)
ImplementsContract == Contract!Spec
=============================================================================
