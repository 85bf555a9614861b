------------------------- MODULE BucketDeleteProofs -------------------------
(***************************************************************************)
(* What a delete that is cut short, or late, leaves alone, for any         *)
(* subscriptions and agreements.                                           *)
(***************************************************************************)
EXTENDS BucketDelete, FiniteSetTheorems, TLAPS

\* What is planned is resolved before the first row goes, and nothing more than
\* that is deleted.
PlanOK ==
  /\ others \in [sub : SUBSET (Subscriptions \X Agreements), agr : SUBSET Agreements]
  /\ rebuilds =>
       /\ phase = "listing" => planned = Nothing
       /\ phase \in {"listing", "resolving"} => cursor = {}
       /\ phase \in {"listing", "raised"} => listed = {}
       /\ cursor \subseteq planned.subscriptions

LEMMA PlanStep ==
  ASSUME PlanOK, LateMembersStay, [Next]_vars
  PROVE  PlanOK' /\ LateMembersStay'
<1>0. CASE ~rebuilds
  <2>1. CASE OtherWrites
    BY <1>0, <2>1 DEF PlanOK, LateMembersStay, OtherWrites, request
  <2>2. CASE ~OtherWrites
    BY <1>0, <2>2 DEF PlanOK, LateMembersStay, Next, vars, ListingFails, OpenSubscription, OpenAgreement,
         DeleteSubscription, DeleteAgreement, DeletingEnds, NoneListed, List, ResolveAgreement,
         DeleteResolved, DryRunDeletes, ReportResolved, request
  <2>3. QED
    BY <2>1, <2>2
<1> SUFFICES ASSUME rebuilds
             PROVE  PlanOK' /\ LateMembersStay'
  BY <1>0
<1> USE DEF PlanOK, LateMembersStay, request, tables
<1>1. CASE ListingFails
  BY <1>1 DEF ListingFails
<1>2. CASE OpenSubscription \/ OpenAgreement \/ NoneListed
  BY <1>2 DEF OpenSubscription, OpenAgreement, NoneListed
<1>3. CASE DeleteSubscription
  BY <1>3 DEF DeleteSubscription, RowsOf
<1>4. CASE DeleteAgreement
  BY <1>4 DEF DeleteAgreement
<1>5. CASE DeletingEnds
  BY <1>5 DEF DeletingEnds
<1>6. CASE List
  BY <1>6 DEF List, Nothing
<1>7. CASE ResolveAgreement
  BY <1>7 DEF ResolveAgreement
<1>8. CASE DeleteResolved
  BY <1>8 DEF DeleteResolved, DryRunDeletes, ResolvedSubscriptions
<1>9. CASE ReportResolved
  BY <1>9 DEF ReportResolved
<1>10. CASE OtherWrites
  BY <1>10 DEF OtherWrites
<1>11. CASE UNCHANGED vars
  BY <1>11 DEF vars
<1>12. QED
  BY <1>1, <1>2, <1>3, <1>4, <1>5, <1>6, <1>7, <1>8, <1>9, <1>10, <1>11 DEF Next

LEMMA PlanInvariant == Spec => [](PlanOK /\ LateMembersStay)
<1>1. Init => PlanOK /\ LateMembersStay
  BY DEF Init, PlanOK, LateMembersStay, Nothing
<1>2. (PlanOK /\ LateMembersStay) /\ [Next]_vars => (PlanOK /\ LateMembersStay)'
  BY PlanStep
<1>3. QED
  BY <1>1, <1>2, PTL DEF Spec

(***************************************************************************)
(* A recalculate deletes no subscription that was stored under its         *)
(* agreements after they were resolved.                                    *)
(***************************************************************************)
THEOREM LateMembersKeepTheirRows == Spec => []LateMembersStay
BY PlanInvariant, PTL

-----------------------------------------------------------------------------
Members(as) == {r[1] : r \in {q \in others.sub : q[2] \in as}}

\* A delete of agreements, as far as it has come, when no one else writes.
StreamOK ==
  scope.kind = "query" /\ ~rebuilds /\ writes = 0 =>
    /\ phase # "deleting" => cursor = {} /\ at = {}
    /\ cursor \subseteq Members(listed)
    /\ \A r \in others.sub : r \in subRows <=> r[1] \notin Members(listed) \/ r[1] \in cursor
    /\ subRows \subseteq others.sub
    /\ at \subseteq listed
    /\ agrRows = others.agr \ (listed \ at)

\* Only a listing raises, and a recalculate's comes before any delete.
RaisedOK ==
  /\ writes \in Nat
  /\ phase = "raised" => scope.kind = "query"
  /\ phase = "resolving" => rebuilds
  /\ rebuilds /\ phase \in {"listing", "resolving", "raised"} /\ writes = 0 =>
       subRows = others.sub /\ agrRows = others.agr

LEMMA RaisedStep == PlanOK /\ RaisedOK /\ [Next]_vars => RaisedOK'
BY DEF PlanOK, RaisedOK, Next, vars, ListingFails, OpenSubscription, OpenAgreement,
       DeleteSubscription, DeleteAgreement, DeletingEnds, NoneListed, List, ResolveAgreement,
       DeleteResolved, DryRunDeletes, ReportResolved, OtherWrites, request, tables

LEMMA StreamStep ==
  ASSUME RaisedOK, StreamOK, [Next]_vars
  PROVE  StreamOK'
<1> SUFFICES ASSUME scope'.kind = "query", ~rebuilds', writes' = 0
             PROVE  StreamOK'
  BY DEF StreamOK
<1>1. ~OtherWrites
  BY DEF OtherWrites, RaisedOK
<1>2. scope' = scope /\ ~rebuilds /\ writes = 0 /\ others' = others
  BY <1>1 DEF Next, vars, ListingFails, OpenSubscription, OpenAgreement, DeleteSubscription,
       DeleteAgreement, DeletingEnds, NoneListed, List, ResolveAgreement,
       DeleteResolved, DryRunDeletes, ReportResolved, request
<1> USE <1>2 DEF StreamOK, Members, tables
<1>3. CASE ListingFails
  BY <1>3 DEF ListingFails
<1>4. CASE OpenAgreement
  <2>1. PICK a : /\ a \notin listed /\ listed' = listed \cup {a} /\ at' = {a}
                 /\ cursor' = {r[1] : r \in {q \in subRows : q[2] = a}}
    BY <1>4 DEF OpenAgreement, StoredUnder
  <2>2. /\ UNCHANGED <<subRows, agrRows>> /\ phase' = "deleting"
        /\ cursor = {} /\ at = {}
    BY <1>4 DEF OpenAgreement
  <2>3. cursor' \subseteq Members(listed')
    BY <2>1
  <2>4. \A r \in others.sub : r \in subRows <=> r[1] \notin Members(listed') \/ r[1] \in cursor'
    <3> SUFFICES ASSUME NEW r \in others.sub
                 PROVE  r \in subRows <=> r[1] \notin Members(listed') \/ r[1] \in cursor'
      OBVIOUS
    <3>1. r[1] \in Members(listed') <=> r[1] \in Members(listed) \/ r[1] \in Members({a})
      BY <2>1
    <3>2. QED
      BY <2>1, <2>2, <3>1
  <2>5. QED
    BY <2>1, <2>2, <2>3, <2>4
<1>5. CASE DeleteSubscription
  BY <1>5 DEF DeleteSubscription, RowsOf
<1>6. CASE DeleteAgreement
  BY <1>6 DEF DeleteAgreement
<1>7. CASE DeletingEnds
  BY <1>7 DEF DeletingEnds
<1>8. CASE NoneListed
  BY <1>8 DEF NoneListed
<1>9. CASE OpenSubscription \/ List \/ ResolveAgreement \/ DeleteResolved \/ ReportResolved
  BY <1>9 DEF RaisedOK, OpenSubscription, List, ResolveAgreement, DeleteResolved, DryRunDeletes, ReportResolved
<1>10. CASE UNCHANGED vars
  BY <1>10 DEF vars
<1>11. QED
  BY <1>1, <1>3, <1>4, <1>5, <1>6, <1>7, <1>8, <1>9, <1>10 DEF Next

(***************************************************************************)
(* When the stream of agreements fails, a recalculate has removed nothing  *)
(* and a delete whole agreements only.                                     *)
(***************************************************************************)
THEOREM FailedListingIsClean == Spec => []FailedListingLeavesWhole
<1>1. Init => RaisedOK /\ StreamOK
  BY DEF Init, RaisedOK, StreamOK, Members
<1>2. PlanOK /\ (RaisedOK /\ StreamOK) /\ [Next]_vars => (RaisedOK /\ StreamOK)'
  BY RaisedStep, StreamStep
<1>3. PlanOK /\ RaisedOK /\ StreamOK => FailedListingLeavesWhole
  BY DEF PlanOK, RaisedOK, StreamOK, FailedListingLeavesWhole, Members
<1>4. QED
  BY <1>1, <1>2, <1>3, PlanInvariant, PTL DEF Spec
-----------------------------------------------------------------------------
(***************************************************************************)
(* The lists of ids an outcome is made of.                                 *)
(***************************************************************************)
\* A finite set has a listing of its members, each once.
LEMMA Listing ==
  ASSUME NEW S, IsFiniteSet(S)
  PROVE  SetToSeq(S) \in Seq(S) /\ IsInjective(SetToSeq(S)) /\ ToSet(SetToSeq(S)) = S
<1> DEFINE n == Cardinality(S)
<1>1. n \in Nat /\ ExistsBijection(1..n, S)
  BY FS_CardinalityType
<1>2. PICK b : b \in Bijection(1..n, S)
  BY <1>1 DEF ExistsBijection
<1>3. b \in [1..n -> S] /\ IsInjective(b)
  BY <1>2 DEF Bijection, Injection
<1>4. SetToSeq(S) \in [1..n -> S] /\ IsInjective(SetToSeq(S))
  BY <1>3 DEF SetToSeq
<1>5. SetToSeq(S) \in Injection(1..n, S)
  BY <1>4 DEF Injection
<1>6. IsFiniteSet(1..n) /\ Cardinality(1..n) = n
  BY <1>1, FS_Interval
<1>7. SetToSeq(S) \in Surjection(1..n, S)
  BY <1>5, <1>6, FS_Injection
<1>8. \A t \in S : \E i \in 1..n : SetToSeq(S)[i] = t
  BY <1>7 DEF Surjection
<1>9. ToSet(SetToSeq(S)) = S
  BY <1>4, <1>8 DEF ToSet
<1>10. QED
  BY <1>1, <1>4, <1>9

\* One more id that is not in the list yet.
LEMMA OneMore ==
  ASSUME NEW T, NEW ids \in Seq(T), NEW id \in T
  PROVE  /\ Append(ids, id) \in Seq(T)
         /\ ToSet(Append(ids, id)) = ToSet(ids) \cup {id}
         /\ IsInjective(ids) /\ id \notin ToSet(ids) => IsInjective(Append(ids, id))
<1>1. /\ DOMAIN Append(ids, id) = 1..(Len(ids) + 1)
      /\ DOMAIN ids = 1..Len(ids) /\ Len(ids) \in Nat
      /\ \A i \in 1..Len(ids) : Append(ids, id)[i] = ids[i]
      /\ Append(ids, id)[Len(ids) + 1] = id
  OBVIOUS
<1>2. ToSet(Append(ids, id)) = ToSet(ids) \cup {id}
  BY <1>1 DEF ToSet
<1>3. IsInjective(ids) /\ id \notin ToSet(ids) => IsInjective(Append(ids, id))
  BY <1>1 DEF ToSet, IsInjective
<1>4. QED
  BY <1>2, <1>3
-----------------------------------------------------------------------------
\* No step changes what was asked for, and only others' writes count as such.
LEMMA RequestStays ==
  ASSUME TypeOK, [Next]_vars
  PROVE  /\ UNCHANGED request /\ writes \in Nat /\ writes' \in Nat
         /\ writes' = 0 => writes = 0 /\ ~OtherWrites /\ UNCHANGED others
BY DEF TypeOK, Next, vars, ListingFails, OpenSubscription, OpenAgreement, DeleteSubscription,
       DeleteAgreement, DeletingEnds, NoneListed, List, ResolveAgreement,
       DeleteResolved, DryRunDeletes, ReportResolved, OtherWrites

(***************************************************************************)
(* The state stays within its types: what is planned, deleted and reported *)
(* are subscriptions and agreements, never the agreement of a subscription *)
(* that has none.                                                          *)
(***************************************************************************)
THEOREM TypeCorrect == Spec => []TypeOK
<1>1. Init => TypeOK
  BY DeleteAssumption DEF Init, TypeOK, Nothing, DeleteAssumption
<1>2. TypeOK /\ [Next]_vars => TypeOK'
  <2> SUFFICES ASSUME TypeOK, [Next]_vars PROVE TypeOK'
    OBVIOUS
  <2> USE DEF tables, request
  <2>1. Named(scope.agreements) \subseteq Agreements /\ scope.subscriptions \subseteq Subscriptions
    BY DEF TypeOK, Scopes, Named
  <2>2. \A a : StoredUnder(a) \subseteq Subscriptions
    BY DEF TypeOK, StoredUnder
  <2>3. CASE ListingFails \/ OpenSubscription \/ NoneListed \/ DeletingEnds \/ UNCHANGED vars
    BY <2>1, <2>3 DEF TypeOK, ListingFails, OpenSubscription, NoneListed, DeletingEnds, vars
  <2>4. CASE OpenAgreement
    BY <2>1, <2>2, <2>4 DEF TypeOK, OpenAgreement
  <2>5. CASE DeleteSubscription
    <3>1. PICK s \in cursor :
            /\ cursor' = cursor \ {s} /\ subRows' = subRows \ RowsOf(s)
            /\ outcome' = [outcome EXCEPT !.subscriptions = ReportHeld(@, s, RowsOf(s) # {})]
      BY <2>5 DEF DeleteSubscription
    <3>2. ReportHeld(outcome.subscriptions, s, RowsOf(s) # {}) \in Seq(Subscriptions)
      BY OneMore DEF TypeOK, ReportHeld
    <3>3. QED
      BY <2>5, <3>1, <3>2 DEF TypeOK, DeleteSubscription
  <2>6. CASE DeleteAgreement
    <3>1. PICK a \in at :
            /\ at' = at \ {a} /\ agrRows' = agrRows \ {a}
            /\ outcome' = [outcome EXCEPT !.agreements = ReportHeld(@, a, a \in agrRows)]
      BY <2>6 DEF DeleteAgreement
    <3>2. ReportHeld(outcome.agreements, a, a \in agrRows) \in Seq(Agreements)
      BY OneMore DEF TypeOK, ReportHeld
    <3>3. QED
      BY <2>6, <3>1, <3>2 DEF TypeOK, DeleteAgreement
  <2>7. CASE List
    BY <2>1, <2>7 DEF TypeOK, List, Nothing
  <2>8. CASE ResolveAgreement
    BY <2>2, <2>8 DEF TypeOK, ResolveAgreement
  <2>9. CASE DeleteResolved
    BY <2>9 DEF TypeOK, DeleteResolved, DryRunDeletes, ResolvedSubscriptions
  <2>10. CASE ReportResolved
    <3>1. /\ planned.subscriptions \in SUBSET Subscriptions
          /\ planned.agreements \in SUBSET Agreements
      BY DEF TypeOK
    <3>2. IsFiniteSet(planned.subscriptions) /\ IsFiniteSet(planned.agreements)
      BY <3>1, DeleteAssumption, FS_Subset DEF DeleteAssumption
    <3>3. /\ SetToSeq(planned.subscriptions) \in Seq(Subscriptions)
          /\ SetToSeq(planned.agreements) \in Seq(Agreements)
      BY <3>1, <3>2, Listing
    <3>4. QED
      BY <2>10, <3>3 DEF TypeOK, ReportResolved, ResolvedSubscriptions
  <2>11. CASE OtherWrites
    BY <2>11, DeleteAssumption DEF TypeOK, OtherWrites, DeleteAssumption
  <2>12. QED
    BY <2>3, <2>4, <2>5, <2>6, <2>7, <2>8, <2>9, <2>10, <2>11 DEF Next
<1>3. QED
  BY <1>1, <1>2, PTL DEF Spec
-----------------------------------------------------------------------------
(***************************************************************************)
(* What a delete reports is what it has removed so far, and that is what   *)
(* it has come to of the scope.                                            *)
(***************************************************************************)
IsHeld(s) == \E r \in others.sub : r[1] = s

\* Each subscription and agreement that is gone is in the outcome, once, and no
\* other: a subscription met again under a second agreement has no rows any more.
ReportOK ==
  /\ IsInjective(outcome.subscriptions) /\ IsInjective(outcome.agreements)
  /\ \A s \in ToSet(outcome.subscriptions) : IsHeld(s)
  /\ ToSet(outcome.agreements) \subseteq others.agr
  /\ subRows = {r \in others.sub : r[1] \notin ToSet(outcome.subscriptions)}
  /\ agrRows = others.agr \ ToSet(outcome.agreements)

\* The agreements that were opened, and the subscriptions with them.
OpenedAgreements == IF rebuilds THEN planned.agreements ELSE listed
OpenedSubscriptions ==
  IF rebuilds THEN planned.subscriptions
  ELSE (IF phase = "listing" THEN {} ELSE scope.subscriptions) \cup Members(listed)

\* What was opened, before anything is deleted or while it is.
OpenedOK ==
  /\ dryRun => rebuilds
  /\ OpenedAgreements \subseteq Named(scope.agreements)
  /\ rebuilds /\ phase \in {"resolving", "deleting", "done"} =>
       /\ listed = Named(scope.agreements)
       /\ planned.subscriptions = scope.subscriptions \cup Members(planned.agreements)
  /\ phase = "done" \/ (rebuilds /\ phase = "deleting") =>
       OpenedAgreements = Named(scope.agreements)

\* A recalculate has deleted nothing before it resolved its scope; from then on,
\* and in a delete always, what was opened is gone or is next.
NotBegun == rebuilds /\ phase \in {"listing", "resolving", "raised"}
DeletedOK ==
  /\ phase # "deleting" => cursor = {} /\ at = {}
  /\ NotBegun => ToSet(outcome.subscriptions) = {} /\ ToSet(outcome.agreements) = {}
  /\ cursor \cup ToSet(outcome.subscriptions) \subseteq OpenedSubscriptions
  /\ at \cup ToSet(outcome.agreements) \subseteq OpenedAgreements
  /\ ~NotBegun =>
       /\ \A s \in OpenedSubscriptions : IsHeld(s) => s \in cursor \cup ToSet(outcome.subscriptions)
       /\ OpenedAgreements \cap others.agr \subseteq at \cup ToSet(outcome.agreements)

\* What a dry run has come to.
ForetoldOK ==
  /\ subRows = others.sub /\ agrRows = others.agr
  /\ phase # "deleting"
  /\ phase = "done" =>
       /\ ToSet(outcome.subscriptions) = planned.subscriptions
       /\ ToSet(outcome.agreements) = planned.agreements

DeleteOK ==
  writes = 0 =>
    /\ OpenedOK
    /\ ~dryRun => ReportOK /\ DeletedOK
    /\ dryRun => ForetoldOK
\* A scope that names agreements names no subscription.
LEMMA ScopeOfOneKind ==
  ASSUME TypeOK
  PROVE  /\ scope.kind = "subscription" => scope.agreements = {}
         /\ scope.kind # "subscription" => scope.subscriptions = {}
         /\ Named(scope.agreements) = {a \in scope.agreements : a # None}
BY DEF TypeOK, Scopes, Named

LEMMA OpenedStep ==
  ASSUME TypeOK, PlanOK, RaisedOK, OpenedOK, [Next]_vars, writes' = 0
  PROVE  OpenedOK'
<1>1. /\ writes = 0 /\ ~OtherWrites /\ UNCHANGED <<scope, rebuilds, dryRun, others>>
  BY RequestStays DEF request
<1> USE <1>1 DEF OpenedOK, OpenedAgreements, tables
<1>2. CASE ListingFails
  BY <1>2 DEF ListingFails
<1>3. CASE OpenSubscription
  BY <1>3 DEF OpenSubscription
<1>4. CASE OpenAgreement
  BY <1>4 DEF OpenAgreement
<1>5. CASE DeleteSubscription \/ DeleteAgreement
  BY <1>5 DEF DeleteSubscription, DeleteAgreement, Members
<1>6. CASE DeletingEnds
  BY <1>6 DEF DeletingEnds, Members
<1>7. CASE NoneListed
  BY <1>7 DEF NoneListed
<1>8. CASE List
  <2>1. /\ phase' = "resolving" /\ listed' = Named(scope.agreements) /\ rebuilds
        /\ planned'.subscriptions = scope.subscriptions /\ planned'.agreements = {}
    BY <1>8 DEF List, Nothing
  <2>2. Members({})' = {}
    BY DEF Members
  <2>3. QED
    BY <2>1, <2>2
<1>9. CASE ResolveAgreement
  <2>1. PICK a \in listed \ planned.agreements :
          /\ planned'.subscriptions = planned.subscriptions \cup StoredUnder(a)
          /\ planned'.agreements = planned.agreements \cup {a}
    BY <1>9 DEF ResolveAgreement
  <2>2. rebuilds /\ phase = "resolving" /\ phase' = "resolving" /\ listed' = listed
    BY <1>9 DEF ResolveAgreement, RaisedOK
  <2>3. StoredUnder(a) = Members({a})
    BY <2>2 DEF RaisedOK, StoredUnder, Members
  <2>4. Members(planned.agreements)' = Members(planned.agreements) \cup Members({a})
    BY <2>1 DEF Members
  <2>5. planned'.subscriptions = scope.subscriptions \cup Members(planned.agreements)'
    BY <2>1, <2>2, <2>3, <2>4
  <2>6. /\ OpenedAgreements' \subseteq Named(scope'.agreements)
        /\ phase' = "resolving" /\ listed' = Named(scope'.agreements) /\ rebuilds'
    BY <2>1, <2>2
  <2> HIDE DEF OpenedAgreements
  <2>7. QED
    BY <2>5, <2>6
<1>10. CASE DeleteResolved \/ ReportResolved
  BY <1>10 DEF DeleteResolved, DryRunDeletes, ReportResolved, RaisedOK, Members
<1>11. CASE UNCHANGED vars
  BY <1>11 DEF vars, request, Members
<1>12. QED
  BY <1>1, <1>2, <1>3, <1>4, <1>5, <1>6, <1>7, <1>8, <1>9, <1>10, <1>11 DEF Next

LEMMA ReportStep ==
  ASSUME TypeOK, ReportOK, ~dryRun, [Next]_vars, writes' = 0
  PROVE  ReportOK'
<1>1. /\ writes = 0 /\ ~OtherWrites /\ UNCHANGED <<scope, rebuilds, dryRun, others>>
  BY RequestStays DEF request
<1>2. CASE UNCHANGED <<subRows, agrRows, outcome>>
  BY <1>1, <1>2 DEF ReportOK, IsHeld
<1>3. /\ outcome.subscriptions \in Seq(Subscriptions) /\ outcome.agreements \in Seq(Agreements)
      /\ DOMAIN outcome = {"subscriptions", "agreements"}
  BY DEF TypeOK
<1>4. CASE DeleteSubscription
  <2>1. PICK s \in cursor :
          /\ subRows' = subRows \ RowsOf(s)
          /\ outcome' = [outcome EXCEPT !.subscriptions = ReportHeld(@, s, RowsOf(s) # {})]
          /\ agrRows' = agrRows
    BY <1>4 DEF DeleteSubscription
  <2>2. /\ outcome'.agreements = outcome.agreements
        /\ outcome'.subscriptions = ReportHeld(outcome.subscriptions, s, RowsOf(s) # {})
    BY <1>3, <2>1
  <2>3. s \in Subscriptions
    BY DEF TypeOK
  <2>4. CASE RowsOf(s) = {}
    <3>1. outcome'.subscriptions = outcome.subscriptions /\ subRows' = subRows
      BY <2>1, <2>2, <2>4 DEF ReportHeld
    <3>2. QED
      BY <1>1, <2>1, <2>2, <3>1 DEF ReportOK, IsHeld
  <2>5. CASE RowsOf(s) # {}
    <3>1. PICK r \in subRows : r[1] = s
      BY <2>5 DEF RowsOf
    <3>2. IsHeld(s) /\ s \notin ToSet(outcome.subscriptions)
      BY <3>1 DEF ReportOK, IsHeld
    <3>3. /\ ToSet(outcome'.subscriptions) = ToSet(outcome.subscriptions) \cup {s}
          /\ IsInjective(outcome'.subscriptions)
      BY <1>3, <2>2, <2>3, <2>5, <3>2, OneMore DEF ReportHeld, ReportOK
    <3>4. subRows' = {q \in others.sub : q[1] \notin ToSet(outcome'.subscriptions)}
      BY <2>1, <3>3 DEF ReportOK, RowsOf
    <3>5. QED
      BY <1>1, <2>1, <2>2, <3>2, <3>3, <3>4 DEF ReportOK, IsHeld
  <2>6. QED
    BY <2>4, <2>5
<1>5. CASE DeleteAgreement
  <2>1. PICK a \in at :
          /\ agrRows' = agrRows \ {a}
          /\ outcome' = [outcome EXCEPT !.agreements = ReportHeld(@, a, a \in agrRows)]
          /\ subRows' = subRows
    BY <1>5 DEF DeleteAgreement
  <2>2. /\ outcome'.subscriptions = outcome.subscriptions
        /\ outcome'.agreements = ReportHeld(outcome.agreements, a, a \in agrRows)
    BY <1>3, <2>1
  <2>3. a \in Agreements
    BY DEF TypeOK
  <2>4. CASE a \notin agrRows
    <3>1. outcome'.agreements = outcome.agreements /\ agrRows' = agrRows
      BY <2>1, <2>2, <2>4 DEF ReportHeld
    <3>2. QED
      BY <1>1, <2>1, <2>2, <3>1 DEF ReportOK, IsHeld
  <2>5. CASE a \in agrRows
    <3>1. a \in others.agr /\ a \notin ToSet(outcome.agreements)
      BY <2>5 DEF ReportOK
    <3>2. /\ ToSet(outcome'.agreements) = ToSet(outcome.agreements) \cup {a}
          /\ IsInjective(outcome'.agreements)
      BY <1>3, <2>2, <2>3, <2>5, <3>1, OneMore DEF ReportHeld, ReportOK
    <3>3. QED
      BY <1>1, <2>1, <2>2, <3>1, <3>2 DEF ReportOK, IsHeld
  <2>6. QED
    BY <2>4, <2>5
<1>6. QED
  BY <1>1, <1>2, <1>4, <1>5 DEF Next, vars, tables, ListingFails, OpenSubscription, OpenAgreement,
     DeletingEnds, NoneListed, List, ResolveAgreement, DeleteResolved, DryRunDeletes, ReportResolved

LEMMA ForetoldStep ==
  ASSUME TypeOK, ForetoldOK, dryRun, rebuilds, [Next]_vars, writes' = 0
  PROVE  ForetoldOK'
<1>1. /\ writes = 0 /\ ~OtherWrites /\ UNCHANGED <<scope, rebuilds, dryRun, others>>
  BY RequestStays DEF request
<1>2. CASE ReportResolved
  <2>1. planned.subscriptions \in SUBSET Subscriptions /\ planned.agreements \in SUBSET Agreements
    BY DEF TypeOK
  <2>2. IsFiniteSet(planned.subscriptions) /\ IsFiniteSet(planned.agreements)
    BY <2>1, DeleteAssumption, FS_Subset DEF DeleteAssumption
  <2>3. /\ ToSet(SetToSeq(planned.subscriptions)) = planned.subscriptions
        /\ ToSet(SetToSeq(planned.agreements)) = planned.agreements
    BY <2>2, Listing
  <2>4. QED
    BY <1>1, <1>2, <2>3 DEF ForetoldOK, ReportResolved, ResolvedSubscriptions, tables
<1>3. QED
  BY <1>1, <1>2 DEF ForetoldOK, Next, vars, tables, ListingFails, OpenSubscription, OpenAgreement,
     DeleteSubscription, DeleteAgreement, DeletingEnds, NoneListed, List, ResolveAgreement,
     DeleteResolved
LEMMA DeletedStep ==
  ASSUME TypeOK, PlanOK, RaisedOK, OpenedOK, ReportOK, DeletedOK, ~dryRun,
         [Next]_vars, writes' = 0
  PROVE  DeletedOK'
<1>1. /\ writes = 0 /\ ~OtherWrites /\ UNCHANGED <<scope, rebuilds, dryRun, others>>
  BY RequestStays DEF request
<1> DEFINE gone == ToSet(outcome.subscriptions)
           goneAgreements == ToSet(outcome.agreements)
<1>2. /\ outcome.subscriptions \in Seq(Subscriptions) /\ outcome.agreements \in Seq(Agreements)
      /\ DOMAIN outcome = {"subscriptions", "agreements"}
  BY DEF TypeOK
<1>3. \A s : IsHeld(s)' <=> IsHeld(s)
  BY <1>1 DEF IsHeld
<1> USE DEF tables
<1>4. CASE ListingFails
  <2>1. scope.subscriptions = {}
    BY <1>4, ScopeOfOneKind DEF ListingFails
  <2>2. QED
    BY <1>1, <1>3, <1>4, <2>1
       DEF ListingFails, DeletedOK, OpenedSubscriptions, OpenedAgreements, NotBegun, Members
<1>5. CASE OpenSubscription
  <2>1. scope.agreements = {} /\ ~rebuilds
    BY <1>5, ScopeOfOneKind DEF OpenSubscription
  <2>2. listed = {}
    BY <2>1 DEF OpenedOK, OpenedAgreements, Named
  <2>3. QED
    BY <1>1, <1>3, <1>5, <2>1, <2>2
       DEF OpenSubscription, DeletedOK, OpenedSubscriptions, OpenedAgreements, NotBegun, Members
<1>6. CASE OpenAgreement
  <2>1. PICK a \in Named(scope.agreements) \ listed :
          /\ listed' = listed \cup {a} /\ at' = {a} /\ cursor' = StoredUnder(a)
    BY <1>6 DEF OpenAgreement
  <2>2. /\ ~rebuilds /\ phase = "listing" /\ phase' = "deleting"
        /\ UNCHANGED <<subRows, agrRows, planned, outcome>>
    BY <1>6 DEF OpenAgreement
  <2>3. scope.subscriptions = {}
    BY <2>1, ScopeOfOneKind DEF Named
  <2>4. Members(listed)' = Members(listed) \cup Members({a})
    BY <1>1, <2>1 DEF Members
  <2>5. StoredUnder(a) \subseteq Members({a})
    BY DEF StoredUnder, Members, ReportOK
  <2>6. Members({a}) \subseteq StoredUnder(a) \cup gone
    BY DEF StoredUnder, Members, ReportOK
  <2>7. OpenedSubscriptions = Members(listed) /\ OpenedSubscriptions' = Members(listed)'
    BY <1>1, <2>2, <2>3 DEF OpenedSubscriptions
  <2>8. cursor = {} /\ at = {} /\ ~NotBegun /\ ~NotBegun'
    BY <1>1, <2>2 DEF DeletedOK, NotBegun
  <2>9. /\ cursor' \cup gone \subseteq OpenedSubscriptions'
        /\ \A s \in OpenedSubscriptions' : IsHeld(s) => s \in cursor' \cup gone
    BY <2>1, <2>4, <2>5, <2>6, <2>7, <2>8 DEF DeletedOK
  <2>10. /\ at' \cup goneAgreements \subseteq OpenedAgreements'
         /\ OpenedAgreements' \cap others.agr \subseteq at' \cup goneAgreements
    BY <1>1, <2>1, <2>2, <2>8 DEF DeletedOK, OpenedAgreements
  <2>11. QED
    BY <1>1, <1>3, <2>2, <2>8, <2>9, <2>10 DEF DeletedOK
<1>7. CASE DeleteSubscription
  <2>1. PICK s \in cursor :
          /\ cursor' = cursor \ {s}
          /\ outcome' = [outcome EXCEPT !.subscriptions = ReportHeld(@, s, RowsOf(s) # {})]
    BY <1>7 DEF DeleteSubscription
  <2>2. /\ phase = "deleting" /\ phase' = "deleting" /\ ~NotBegun /\ ~NotBegun'
        /\ UNCHANGED <<listed, at, planned>>
    BY <1>7 DEF DeleteSubscription, NotBegun
  <2>3. /\ outcome'.agreements = outcome.agreements
        /\ outcome'.subscriptions = ReportHeld(outcome.subscriptions, s, RowsOf(s) # {})
    BY <1>2, <2>1
  <2>4. ToSet(outcome'.subscriptions) = IF RowsOf(s) # {} THEN gone \cup {s} ELSE gone
    <3>1. s \in Subscriptions
      BY DEF TypeOK
    <3>2. ToSet(Append(outcome.subscriptions, s)) = gone \cup {s}
      BY <1>2, <3>1, OneMore
    <3>3. QED
      BY <2>3, <3>2 DEF ReportHeld
  <2>5. IsHeld(s) /\ s \notin gone => RowsOf(s) # {}
    BY DEF IsHeld, ReportOK, RowsOf
  <2>6. UNCHANGED <<OpenedSubscriptions, OpenedAgreements>>
    BY <1>1, <2>2 DEF OpenedSubscriptions, OpenedAgreements, Members
  <2>7. QED
    BY <1>1, <1>3, <2>1, <2>2, <2>3, <2>4, <2>5, <2>6 DEF DeletedOK
<1>8. CASE DeleteAgreement
  <2>1. PICK a \in at :
          /\ at' = at \ {a}
          /\ outcome' = [outcome EXCEPT !.agreements = ReportHeld(@, a, a \in agrRows)]
    BY <1>8 DEF DeleteAgreement
  <2>2. /\ phase = "deleting" /\ phase' = "deleting" /\ ~NotBegun /\ ~NotBegun'
        /\ UNCHANGED <<listed, cursor, planned>>
    BY <1>8 DEF DeleteAgreement, NotBegun
  <2>3. /\ outcome'.subscriptions = outcome.subscriptions
        /\ outcome'.agreements = ReportHeld(outcome.agreements, a, a \in agrRows)
    BY <1>2, <2>1
  <2>4. ToSet(outcome'.agreements) = IF a \in agrRows THEN goneAgreements \cup {a} ELSE goneAgreements
    <3>1. a \in Agreements
      BY DEF TypeOK
    <3>2. ToSet(Append(outcome.agreements, a)) = goneAgreements \cup {a}
      BY <1>2, <3>1, OneMore
    <3>3. QED
      BY <2>3, <3>2 DEF ReportHeld
  <2>5. a \in others.agr /\ a \notin goneAgreements => a \in agrRows
    BY DEF ReportOK
  <2>6. UNCHANGED <<OpenedSubscriptions, OpenedAgreements>>
    BY <1>1, <2>2 DEF OpenedSubscriptions, OpenedAgreements, Members
  <2>7. QED
    BY <1>1, <1>3, <2>1, <2>2, <2>3, <2>4, <2>5, <2>6 DEF DeletedOK
<1>9. CASE DeletingEnds
  <2>1. /\ phase = "deleting" /\ cursor = {} /\ at = {} /\ phase' \in {"done", "listing"}
        /\ phase' = "listing" => ~rebuilds /\ listed # Named(scope.agreements)
        /\ UNCHANGED <<listed, cursor, at, planned, outcome>>
    BY <1>9 DEF DeletingEnds
  <2>2. phase' = "listing" => scope.subscriptions = {}
    BY <2>1, ScopeOfOneKind DEF OpenedOK, OpenedAgreements, Named
  <2>3. ~NotBegun /\ ~NotBegun'
    BY <1>1, <2>1 DEF NotBegun
  <2>4. UNCHANGED <<OpenedSubscriptions, OpenedAgreements>>
    BY <1>1, <2>1, <2>2 DEF OpenedSubscriptions, OpenedAgreements, Members
  <2>5. QED
    BY <1>1, <1>3, <2>1, <2>3, <2>4 DEF DeletedOK
<1>10. CASE NoneListed
  <2>1. scope.subscriptions = {}
    BY <1>10, ScopeOfOneKind DEF NoneListed
  <2>2. QED
    BY <1>1, <1>3, <1>10, <2>1
       DEF NoneListed, DeletedOK, OpenedSubscriptions, OpenedAgreements, NotBegun, Members
<1>11. CASE List \/ ResolveAgreement
  <2>1. rebuilds /\ phase \in {"listing", "resolving"} /\ phase' = "resolving"
        /\ UNCHANGED <<cursor, at, outcome>>
    BY <1>11 DEF List, ResolveAgreement, RaisedOK
  <2>2. NotBegun /\ NotBegun'
    BY <1>1, <2>1 DEF NotBegun
  <2>3. QED
    BY <2>1, <2>2 DEF DeletedOK
<1>12. CASE DeleteResolved
  <2>1. /\ rebuilds /\ phase = "resolving" /\ phase' = "deleting"
        /\ cursor' = planned.subscriptions /\ at' = planned.agreements
        /\ UNCHANGED <<planned, outcome>>
    BY <1>12 DEF DeleteResolved, DryRunDeletes, ResolvedSubscriptions, RaisedOK
  <2>2. gone = {} /\ goneAgreements = {}
    BY <2>1 DEF DeletedOK, NotBegun
  <2>3. QED
    BY <1>1, <2>1, <2>2 DEF DeletedOK, NotBegun, OpenedSubscriptions, OpenedAgreements
<1>13. CASE ReportResolved
  BY <1>13 DEF ReportResolved
<1>14. CASE UNCHANGED vars
  BY <1>1, <1>3, <1>14
     DEF vars, DeletedOK, OpenedSubscriptions, OpenedAgreements, NotBegun, Members
<1>15. QED
  BY <1>1, <1>4, <1>5, <1>6, <1>7, <1>8, <1>9, <1>10, <1>11, <1>12, <1>13, <1>14 DEF Next

LEMMA DeleteInvariant == Spec => []DeleteOK
<1>1. Init => DeleteOK
  <2> SUFFICES ASSUME Init PROVE DeleteOK
    OBVIOUS
  <2>1. ToSet(<<>>) = {} /\ IsInjective(<<>>)
    BY DEF ToSet, IsInjective
  <2>2. Members({}) = {}
    BY DEF Members
  <2>3. QED
    BY <2>1, <2>2 DEF Init, DeleteOK, OpenedOK, ReportOK, DeletedOK, ForetoldOK, OpenedAgreements,
       OpenedSubscriptions, NotBegun, Nothing, Named, IsHeld
<1>2. (TypeOK /\ PlanOK /\ RaisedOK) /\ DeleteOK /\ [Next]_vars => DeleteOK'
  <2> SUFFICES ASSUME TypeOK, PlanOK, RaisedOK, DeleteOK, [Next]_vars, writes' = 0
               PROVE  OpenedOK' /\ (~dryRun' => ReportOK' /\ DeletedOK') /\ (dryRun' => ForetoldOK')
    BY DEF DeleteOK
  <2>1. writes = 0 /\ dryRun' = dryRun
    BY RequestStays DEF request
  <2>2. OpenedOK /\ (~dryRun => ReportOK /\ DeletedOK) /\ (dryRun => ForetoldOK /\ rebuilds)
    BY <2>1 DEF DeleteOK, OpenedOK
  <2>3. QED
    BY <2>1, <2>2, OpenedStep, ReportStep, DeletedStep, ForetoldStep
<1>3. Spec => [](PlanOK /\ RaisedOK)
  <2>1. Init => RaisedOK
    BY DEF Init, RaisedOK
  <2>2. QED
    BY <2>1, RaisedStep, PlanInvariant, PTL DEF Spec
<1>4. QED
  BY <1>1, <1>2, <1>3, TypeCorrect, PTL DEF Spec

\* At the end all of the scope was opened, and no agreement but those.
LEMMA OpenedIsCovered ==
  ASSUME TypeOK, PlanOK, OpenedOK, phase = "done"
  PROVE  OpenedAgreements = Named(scope.agreements) /\ OpenedSubscriptions = Covered
<1>1. Members(Named(scope.agreements)) = Members(scope.agreements)
  BY DeleteAssumption DEF Members, Named, PlanOK, DeleteAssumption
<1>2. Covered = scope.subscriptions \cup Members(scope.agreements)
  BY DEF Covered, Members
<1>3. OpenedAgreements = Named(scope.agreements)
  BY DEF OpenedOK
<1>4. QED
  BY <1>1, <1>2, <1>3 DEF OpenedOK, OpenedAgreements, OpenedSubscriptions

(***************************************************************************)
(* A delete, and the delete of a recalculate, removes all the scope held   *)
(* and only that, and reports each subscription and agreement that had     *)
(* rows once, however the agreements share their subscriptions.            *)
(***************************************************************************)
THEOREM OutcomeNamesTheScope == Spec => []OutcomeIsTheScope
<1>1. TypeOK /\ PlanOK /\ DeleteOK => OutcomeIsTheScope
  <2> SUFFICES ASSUME TypeOK, PlanOK, DeleteOK, phase = "done", ~dryRun, writes = 0
               PROVE  /\ subRows = {r \in others.sub : r[1] \notin Held}
                      /\ agrRows = others.agr \ scope.agreements
                      /\ IsInjective(outcome.subscriptions) /\ ToSet(outcome.subscriptions) = Held
                      /\ IsInjective(outcome.agreements)
                      /\ ToSet(outcome.agreements) = others.agr \cap scope.agreements
    BY DEF OutcomeIsTheScope
  <2>1. OpenedOK /\ ReportOK /\ DeletedOK
    BY DEF DeleteOK
  <2>2. OpenedAgreements = Named(scope.agreements) /\ OpenedSubscriptions = Covered
    BY <2>1, OpenedIsCovered
  <2>3. \A s \in ToSet(outcome.subscriptions) : IsHeld(s) /\ s \in Covered
    BY <2>1, <2>2 DEF ReportOK, DeletedOK
  <2>4. \A s \in Covered : IsHeld(s) => s \in ToSet(outcome.subscriptions)
    BY <2>1, <2>2 DEF DeletedOK, NotBegun
  <2>5. ToSet(outcome.subscriptions) = Held
    BY <2>3, <2>4 DEF Held, IsHeld
  <2>6. ToSet(outcome.agreements) = others.agr \cap Named(scope.agreements)
    BY <2>1, <2>2 DEF ReportOK, DeletedOK, NotBegun
  <2>7. others.agr \cap Named(scope.agreements) = others.agr \cap scope.agreements
    BY DeleteAssumption DEF PlanOK, Named, DeleteAssumption
  <2>8. QED
    BY <2>1, <2>5, <2>6, <2>7 DEF ReportOK
<1>2. QED
  BY <1>1, TypeCorrect, PlanInvariant, DeleteInvariant, PTL

(***************************************************************************)
(* A dry run of a recalculate removes nothing and foretells the whole      *)
(* scope of the delete.                                                    *)
(***************************************************************************)
THEOREM DryRunIsForetelling == Spec => []DryRunForetells
<1>1. TypeOK /\ PlanOK /\ DeleteOK => DryRunForetells
  <2> SUFFICES ASSUME TypeOK, PlanOK, DeleteOK, dryRun, writes = 0
               PROVE  /\ <<subRows, agrRows>> = <<others.sub, others.agr>>
                      /\ phase = "done" =>
                           /\ ToSet(outcome.subscriptions) = Covered
                           /\ ToSet(outcome.agreements) = Named(scope.agreements)
    BY DEF DryRunForetells
  <2>1. OpenedOK /\ ForetoldOK /\ rebuilds
    BY DEF DeleteOK, OpenedOK
  <2>2. phase = "done" => planned.agreements = Named(scope.agreements)
                          /\ planned.subscriptions = Covered
    BY <2>1, OpenedIsCovered DEF OpenedAgreements, OpenedSubscriptions
  <2>3. QED
    BY <2>1, <2>2 DEF ForetoldOK
<1>2. QED
  BY <1>1, TypeCorrect, PlanInvariant, DeleteInvariant, PTL
-----------------------------------------------------------------------------
(***************************************************************************)
(* The refinement of DeleteContract.                                       *)
(***************************************************************************)
\* What is in hand in which phase, also while another command writes; and an
\* agreement that was opened and is not next has no row.
HandOK ==
  /\ dryRun => rebuilds /\ phase # "deleting"
  /\ phase # "deleting" => cursor = {} /\ at = {}
  /\ at \subseteq OpenedAgreements /\ OpenedAgreements \subseteq Named(scope.agreements)
  /\ rebuilds /\ phase = "resolving" => listed = Named(scope.agreements)
  /\ rebuilds /\ phase = "deleting" => OpenedAgreements = Named(scope.agreements)
  /\ ~rebuilds \/ phase = "deleting" => OpenedAgreements \cap agrRows \subseteq at

LEMMA HandStep ==
  ASSUME TypeOK, PlanOK, RaisedOK, HandOK, [Next]_vars
  PROVE  HandOK'
<1>1. UNCHANGED <<scope, rebuilds, dryRun>>
  BY RequestStays DEF request
<1> USE <1>1 DEF HandOK, OpenedAgreements, tables
<1>2. CASE ListingFails \/ OpenSubscription \/ NoneListed
  BY <1>2 DEF ListingFails, OpenSubscription, NoneListed
<1>3. CASE OpenAgreement
  BY <1>3 DEF OpenAgreement
<1>4. CASE DeleteSubscription
  BY <1>4 DEF DeleteSubscription
<1>5. CASE DeleteAgreement
  BY <1>5 DEF DeleteAgreement
<1>6. CASE DeletingEnds
  BY <1>6 DEF DeletingEnds
<1>7. CASE List
  BY <1>7 DEF List, Nothing
<1>8. CASE ResolveAgreement
  BY <1>8 DEF ResolveAgreement, RaisedOK
<1>9. CASE DeleteResolved \/ ReportResolved
  BY <1>9 DEF DeleteResolved, DryRunDeletes, ReportResolved, RaisedOK
<1>10. CASE OtherWrites
  BY <1>10 DEF OtherWrites, request
<1>11. CASE UNCHANGED vars
  BY <1>11 DEF vars, request
<1>12. QED
  BY <1>2, <1>3, <1>4, <1>5, <1>6, <1>7, <1>8, <1>9, <1>10, <1>11 DEF Next

\* The rows that are owed, one by one.
OwedRow(r) ==
  /\ r[1] \in scope.subscriptions \/ r[2] \in Named(scope.agreements)
  /\ \/ r[1] \in InHand \/ r[2] \in Unopened
     \/ phase = "listing" /\ r[1] \in scope.subscriptions

LEMMA OwedRows == \A r : r \in Owed <=> r \in subRows /\ OwedRow(r)
BY DEF Owed, OwedRow

\* A step that changes neither rows nor outcome, nor what is owed.
LEMMA Unseen ==
  ASSUME UNCHANGED <<tables, request, outcome, InHand>>,
         phase \notin {"done", "raised"}, phase' \notin {"done", "raised"},
         \A r \in subRows : OwedRow(r)' <=> OwedRow(r)
  PROVE  UNCHANGED Contract!vars
<1>1. UNCHANGED <<subRows, agrRows, scope, rebuilds, dryRun, outcome>>
  BY DEF tables, request
<1>2. Owed' = Owed
  BY <1>1 DEF Owed, OwedRow
<1>3. QED
  BY <1>1, <1>2 DEF Contract!vars, Contract!request

\* A step that takes ids in hand: what is still to come of theirs now is in hand.
LEMMA Chosen ==
  ASSUME NEW ids \in SUBSET Subscriptions,
         UNCHANGED <<tables, request, outcome>>, InHand' = InHand \cup ids,
         phase \notin {"done", "raised"}, phase' \notin {"done", "raised"},
         \A s \in ids : \/ s \in scope.subscriptions
                       \/ \E r \in subRows : r[1] = s /\ r[2] \in Named(scope.agreements),
         \A r \in subRows : OwedRow(r)' <=> \/ OwedRow(r)
                                          \/ /\ r[1] \in ids
                                             /\ \/ r[1] \in scope.subscriptions
                                                \/ r[2] \in Named(scope.agreements)
  PROVE  Contract!Choose(ids)
<1>1. UNCHANGED <<subRows, agrRows, scope, rebuilds, dryRun, outcome>>
  BY DEF tables, request
<1>2. Owed' = Owed \cup {r \in subRows : Contract!InScope(r) /\ r[1] \in ids}
  <2>1. \A r : r \in Owed' <=> r \in subRows /\ OwedRow(r)'
    BY <1>1 DEF Owed, OwedRow
  <2>2. QED
    BY <2>1, OwedRows DEF Contract!InScope
<1>3. \A s \in ids : s \in scope.subscriptions \/ \E r \in Contract!RowsOf(s) : Contract!InScope(r)
  BY DEF Contract!RowsOf, Contract!InScope
<1>4. QED
  BY <1>1, <1>2, <1>3 DEF Contract!Choose, Contract!request

LEMMA OpeningChooses ==
  ASSUME TypeOK, PlanOK, RaisedOK, HandOK, [Next]_vars,
         OpenSubscription \/ OpenAgreement \/ List \/ ResolveAgreement
  PROVE  \E ids \in SUBSET Subscriptions : Contract!Choose(ids)
<1>1. UNCHANGED <<tables, request, outcome>>
  BY DEF OpenSubscription, OpenAgreement, List, ResolveAgreement
<1>2. UNCHANGED <<subRows, agrRows, scope, rebuilds, dryRun>>
  BY <1>1 DEF tables, request
<1>3. /\ scope.subscriptions \subseteq Subscriptions
      /\ \A a : StoredUnder(a) \subseteq Subscriptions
      /\ \A a, s : s \in StoredUnder(a) <=> \E r \in subRows : r[1] = s /\ r[2] = a
  BY DEF TypeOK, Scopes, StoredUnder
<1>4. CASE OpenSubscription
  <2>1. /\ ~rebuilds /\ phase = "listing" /\ phase' = "deleting" /\ listed' = listed
        /\ cursor = {} /\ cursor' = scope.subscriptions
    BY <1>4 DEF OpenSubscription, HandOK
  <2>2. InHand' = InHand \cup scope.subscriptions /\ InHand = {} /\ Unopened' = Unopened
    BY <1>2, <2>1 DEF InHand, Unopened
  <2>3. \A r \in subRows : OwedRow(r)' <=> OwedRow(r) \/ r[1] \in scope.subscriptions
    BY <1>2, <2>1, <2>2 DEF OwedRow
  <2>4. Contract!Choose(scope.subscriptions)
    BY <1>1, <1>3, <2>1, <2>2, <2>3, Chosen
  <2>5. QED
    BY <1>3, <2>4
<1>5. CASE OpenAgreement
  <2>1. PICK a \in Named(scope.agreements) \ listed :
          listed' = listed \cup {a} /\ cursor' = StoredUnder(a)
    BY <1>5 DEF OpenAgreement
  <2>2. ~rebuilds /\ phase = "listing" /\ phase' = "deleting" /\ cursor = {}
    BY <1>5 DEF OpenAgreement, HandOK
  <2>3. scope.subscriptions = {}
    BY <2>1, ScopeOfOneKind DEF Named
  <2>4. InHand' = StoredUnder(a) /\ InHand = {} /\ Unopened' = Unopened \ {a} /\ a \in Unopened
    BY <1>2, <2>1, <2>2 DEF InHand, Unopened
  <2>5. \A r \in subRows : OwedRow(r)' <=> \/ OwedRow(r)
                                         \/ /\ r[1] \in StoredUnder(a)
                                            /\ \/ r[1] \in scope.subscriptions
                                               \/ r[2] \in Named(scope.agreements)
    BY <1>2, <1>3, <2>1, <2>2, <2>3, <2>4 DEF OwedRow
  <2>6. \A s \in StoredUnder(a) : \E r \in subRows : r[1] = s /\ r[2] \in Named(scope.agreements)
    BY <1>3, <2>1
  <2>7. InHand' = InHand \cup StoredUnder(a) /\ phase \notin {"done", "raised"}
        /\ phase' \notin {"done", "raised"}
    BY <2>2, <2>4
  <2>8. Contract!Choose(StoredUnder(a))
    BY <1>1, <1>3, <2>5, <2>6, <2>7, Chosen
  <2>9. QED
    BY <1>3, <2>8
<1>6. CASE List
  <2>1. /\ rebuilds /\ phase = "listing" /\ phase' = "resolving" /\ cursor = {}
        /\ planned = Nothing /\ planned'.subscriptions = scope.subscriptions
        /\ planned'.agreements = {}
    BY <1>6 DEF List, PlanOK, Nothing
  <2>2. InHand' = scope.subscriptions /\ InHand = {} /\ Unopened' = Unopened
    BY <1>2, <2>1 DEF InHand, Unopened, Nothing
  <2>3. \A r \in subRows : OwedRow(r)' <=> OwedRow(r) \/ r[1] \in scope.subscriptions
    BY <1>2, <2>1, <2>2 DEF OwedRow
  <2>4. Contract!Choose(scope.subscriptions)
    BY <1>1, <1>3, <2>1, <2>2, <2>3, Chosen
  <2>5. QED
    BY <1>3, <2>4
<1>7. CASE ResolveAgreement
  <2>1. PICK a \in listed \ planned.agreements :
          /\ planned'.subscriptions = planned.subscriptions \cup StoredUnder(a)
          /\ planned'.agreements = planned.agreements \cup {a}
    BY <1>7 DEF ResolveAgreement
  <2>2. rebuilds /\ phase = "resolving" /\ phase' = "resolving" /\ a \in Named(scope.agreements)
    BY <1>7, <2>1 DEF ResolveAgreement, RaisedOK, HandOK
  <2>3. InHand' = InHand \cup StoredUnder(a) /\ Unopened' = Unopened \ {a}
    BY <1>2, <2>1, <2>2 DEF InHand, Unopened
  <2>4. \A r \in subRows : OwedRow(r)' <=> \/ OwedRow(r)
                                         \/ /\ r[1] \in StoredUnder(a)
                                            /\ \/ r[1] \in scope.subscriptions
                                               \/ r[2] \in Named(scope.agreements)
    <3> SUFFICES ASSUME NEW r \in subRows
                 PROVE  OwedRow(r)' <=> \/ OwedRow(r)
                                        \/ /\ r[1] \in StoredUnder(a)
                                           /\ \/ r[1] \in scope.subscriptions
                                              \/ r[2] \in Named(scope.agreements)
      OBVIOUS
    <3>1. r[2] = a => r[1] \in StoredUnder(a)
      BY <1>3
    <3>2. scope' = scope
      BY <1>2
    <3> HIDE DEF Named
    <3>3. QED
      BY <2>2, <2>3, <3>1, <3>2 DEF OwedRow
  <2>5. Contract!Choose(StoredUnder(a))
    BY <1>1, <1>3, <2>2, <2>3, <2>4, Chosen
  <2>6. QED
    BY <1>3, <2>5
<1>8. QED
  BY <1>4, <1>5, <1>6, <1>7

LEMMA DeletingTakes ==
  ASSUME TypeOK, HandOK, [Next]_vars, DeleteSubscription \/ DeleteAgreement
  PROVE  \/ \E s \in Subscriptions : Contract!TakeSubscription(s)
         \/ \E a \in Agreements : Contract!TakeAgreement(a)
<1>1. /\ phase = "deleting" /\ phase' = phase /\ ~dryRun
      /\ UNCHANGED <<scope, rebuilds, dryRun, listed, planned>>
  BY DEF DeleteSubscription, DeleteAgreement, HandOK, request
<1>2. InHand = cursor /\ InHand' = cursor' /\ Unopened' = Unopened
  BY <1>1 DEF InHand, Unopened
<1>3. DOMAIN outcome = {"subscriptions", "agreements"}
  BY DEF TypeOK
<1>4. CASE DeleteSubscription
  <2>1. PICK s \in cursor :
          /\ cursor' = cursor \ {s} /\ subRows' = subRows \ RowsOf(s) /\ agrRows' = agrRows
          /\ outcome' = [outcome EXCEPT !.subscriptions = ReportHeld(@, s, RowsOf(s) # {})]
    BY <1>4 DEF DeleteSubscription
  <2>2. s \in Subscriptions /\ RowsOf(s) = Contract!RowsOf(s)
    BY DEF TypeOK, RowsOf, Contract!RowsOf
  <2>3. Owed' = Owed \ RowsOf(s)
    <3>1. \A r \in subRows' : OwedRow(r)' <=> OwedRow(r)
      BY <1>1, <1>2, <2>1 DEF OwedRow, RowsOf
    <3>2. \A r : r \in Owed' <=> r \in subRows' /\ OwedRow(r)'
      BY DEF Owed, OwedRow
    <3>3. QED
      BY <2>1, <3>1, <3>2, OwedRows
  <2>4. outcome' = IF RowsOf(s) = {} THEN outcome
                   ELSE [outcome EXCEPT !.subscriptions = Append(@, s)]
    BY <1>3, <2>1 DEF ReportHeld, TypeOK
  <2>5. Contract!TakeSubscription(s)
    BY <1>1, <1>2, <2>1, <2>2, <2>3, <2>4 DEF Contract!TakeSubscription, Contract!request
  <2>6. QED
    BY <2>2, <2>5
<1>5. CASE DeleteAgreement
  <2>1. PICK a \in at :
          /\ agrRows' = agrRows \ {a}
          /\ outcome' = [outcome EXCEPT !.agreements = ReportHeld(@, a, a \in agrRows)]
    BY <1>5 DEF DeleteAgreement
  <2>2. cursor = {} /\ cursor' = cursor /\ subRows' = subRows
    BY <1>5 DEF DeleteAgreement
  <2>3. a \in Agreements /\ a \in Named(scope.agreements)
    BY DEF TypeOK, HandOK
  <2>4. Owed' = Owed
    BY <1>1, <1>2, <2>2 DEF Owed
  <2>5. outcome' = IF a \notin agrRows THEN outcome
                   ELSE [outcome EXCEPT !.agreements = Append(@, a)]
    BY <1>3, <2>1 DEF ReportHeld, TypeOK
  <2>6. Contract!TakeAgreement(a)
    BY <1>1, <1>2, <2>1, <2>2, <2>3, <2>4, <2>5 DEF Contract!TakeAgreement, Contract!request
  <2>7. QED
    BY <2>3, <2>6
<1>6. QED
  BY <1>4, <1>5

LEMMA EndsOweNothing ==
  ASSUME TypeOK, RaisedOK, HandOK, [Next]_vars, DeletingEnds \/ NoneListed, phase' = "done"
  PROVE  Contract!End
<1>1. /\ UNCHANGED <<tables, request, listed, cursor, at, planned, outcome>>
      /\ phase \in {"listing", "deleting"} /\ cursor = {} /\ at = {}
      /\ phase = "listing" => ~rebuilds /\ scope.kind = "query"
      /\ OpenedAgreements = Named(scope.agreements)
  <2>1. CASE DeletingEnds
    BY <2>1 DEF DeletingEnds, HandOK, OpenedAgreements
  <2>2. CASE NoneListed
    BY <2>2 DEF NoneListed, HandOK, OpenedAgreements
  <2>3. QED
    BY <2>1, <2>2
<1>2. UNCHANGED <<subRows, agrRows, scope, rebuilds, dryRun>>
  BY <1>1 DEF tables, request
<1>3. ~dryRun /\ (rebuilds => phase = "deleting") /\ phase \notin {"done", "raised"}
  BY <1>1 DEF HandOK
<1>4. InHand = {} /\ InHand' = {} /\ Unopened = {} /\ Unopened' = {}
  BY <1>1, <1>2, <1>3 DEF InHand, Unopened, OpenedAgreements
<1>5. phase = "listing" => scope.subscriptions = {}
  BY <1>1, ScopeOfOneKind
<1>6. Owed = {} /\ Owed' = {}
  BY <1>4, <1>5 DEF Owed
<1>7. agrRows \cap Named(scope.agreements) = {}
  BY <1>1, <1>3 DEF HandOK
<1>8. QED
  BY <1>1, <1>2, <1>3, <1>4, <1>6, <1>7 DEF Contract!End, Contract!request

LEMMA DryRunForetellsTheOwed ==
  ASSUME TypeOK, RaisedOK, HandOK, [Next]_vars, ReportResolved
  PROVE  Contract!Foretell
<1>1. /\ UNCHANGED <<subRows, agrRows, scope, rebuilds, dryRun, listed, cursor, planned>>
      /\ dryRun /\ rebuilds /\ phase = "resolving" /\ phase' = "done"
      /\ planned.agreements = Named(scope.agreements)
      /\ outcome' = [subscriptions |-> SetToSeq(planned.subscriptions),
                     agreements    |-> SetToSeq(planned.agreements)]
  BY DEF ReportResolved, ResolvedSubscriptions, HandOK, tables, request
<1>2. InHand = planned.subscriptions /\ InHand' = InHand /\ Unopened = {} /\ Unopened' = {}
  BY <1>1 DEF InHand, Unopened
<1>3. Owed' = Owed /\ \A r \in Owed : r[1] \in InHand
  BY <1>1, <1>2 DEF Owed
<1>4. /\ InHand \in SUBSET Subscriptions /\ Named(scope.agreements) \in SUBSET Agreements
      /\ InHand = planned.subscriptions /\ Named(scope.agreements) = planned.agreements
  BY <1>1, <1>2 DEF TypeOK
<1>5. IsFiniteSet(InHand) /\ IsFiniteSet(Named(scope.agreements))
  BY <1>4, DeleteAssumption, FS_Subset DEF DeleteAssumption
<1>6. /\ outcome' \in [subscriptions : Seq(InHand), agreements : Seq(Named(scope.agreements))]
      /\ IsInjective(outcome'.subscriptions) /\ ToSet(outcome'.subscriptions) = InHand
      /\ IsInjective(outcome'.agreements)
      /\ ToSet(outcome'.agreements) = Named(scope.agreements)
  BY <1>1, <1>4, <1>5, Listing
<1>7. /\ Contract!IsInjective(outcome'.subscriptions)
      /\ Contract!ToSet(outcome'.subscriptions) = InHand
      /\ Contract!IsInjective(outcome'.agreements)
      /\ Contract!ToSet(outcome'.agreements) = Named(scope.agreements)
  BY <1>6 DEF IsInjective, Contract!IsInjective, ToSet, Contract!ToSet
<1>8. QED
  BY <1>1, <1>2, <1>3, <1>6, <1>7 DEF Contract!Foretell, Contract!request

LEMMA ListingRaises ==
  ASSUME TypeOK, PlanOK, HandOK, ListingFails
  PROVE  Contract!Raise
<1>1. /\ UNCHANGED <<subRows, agrRows, scope, rebuilds, dryRun, listed, cursor, planned, outcome>>
      /\ phase = "listing" /\ phase' = "raised" /\ cursor = {} /\ scope.kind = "query"
  BY DEF ListingFails, HandOK, tables, request
<1>2. InHand = {} /\ InHand' = {} /\ Unopened' = Unopened
  <2>1. rebuilds => planned.subscriptions = {}
    BY <1>1 DEF PlanOK, Nothing
  <2>2. QED
    BY <1>1, <2>1 DEF InHand, Unopened
<1>3. scope.subscriptions = {}
  BY <1>1, ScopeOfOneKind
<1>4. Owed' = Owed
  BY <1>1, <1>2, <1>3 DEF Owed
<1>5. QED
  BY <1>1, <1>2, <1>3, <1>4 DEF Contract!Raise, Contract!request

LEMMA OthersWrite ==
  ASSUME OtherWrites
  PROVE  \E r \in Subscriptions \X Agreements : Contract!Others(r)
<1>1. /\ UNCHANGED <<agrRows, scope, rebuilds, dryRun, phase, listed, cursor, planned, outcome>>
      /\ UNCHANGED <<InHand, Unopened>>
  BY DEF OtherWrites, request, InHand, Unopened
<1>2. \A q : OwedRow(q)' <=> OwedRow(q)
  BY <1>1 DEF OwedRow
<1>3. \A q : q \in Owed' <=> q \in subRows' /\ OwedRow(q)
  BY <1>2 DEF Owed, OwedRow
<1>4. PICK r \in Subscriptions \X Agreements :
        subRows' = subRows \cup {r} \/ subRows' = subRows \ {r}
  BY DEF OtherWrites
<1>5. CASE subRows' = subRows \cup {r}
  <2>1. Owed' = Owed \/ Owed' = Owed \cup {r}
    BY <1>3, <1>5, OwedRows
  <2>2. QED
    BY <1>1, <1>5, <2>1 DEF Contract!Others, Contract!request
<1>6. CASE subRows' = subRows \ {r}
  <2>1. Owed' = Owed \ {r}
    BY <1>3, <1>6, OwedRows
  <2>2. QED
    BY <1>1, <1>6, <2>1 DEF Contract!Others, Contract!request
<1>7. QED
  BY <1>4, <1>5, <1>6

LEMMA ContractStep ==
  ASSUME TypeOK, PlanOK, RaisedOK, HandOK, [Next]_vars
  PROVE  [Contract!Next]_Contract!vars
<1>1. CASE OpenSubscription \/ OpenAgreement \/ List \/ ResolveAgreement
  BY <1>1, OpeningChooses DEF Contract!Next
<1>2. CASE DeleteSubscription \/ DeleteAgreement
  BY <1>2, DeletingTakes DEF Contract!Next
<1>3. CASE (DeletingEnds \/ NoneListed) /\ phase' = "done"
  BY <1>3, EndsOweNothing DEF Contract!Next
<1>4. CASE DeletingEnds /\ phase' # "done"
  <2>1. /\ UNCHANGED <<tables, request, listed, cursor, planned, outcome>>
        /\ phase = "deleting" /\ phase' = "listing" /\ ~rebuilds
        /\ listed # Named(scope.agreements)
    BY <1>4 DEF DeletingEnds
  <2>2. UNCHANGED <<scope, rebuilds, dryRun>>
    BY <2>1 DEF request
  <2>3. UNCHANGED <<InHand, Unopened>>
    BY <2>1, <2>2 DEF InHand, Unopened
  <2>4. scope.subscriptions = {}
    BY <2>1, ScopeOfOneKind DEF HandOK, OpenedAgreements, Named
  <2>5. \A r \in subRows : OwedRow(r)' <=> OwedRow(r)
    BY <2>2, <2>3, <2>4 DEF OwedRow
  <2>6. QED
    BY <2>1, <2>3, <2>5, Unseen
<1>5. CASE DeleteResolved
  <2>1. /\ UNCHANGED <<tables, request, listed, planned, outcome>>
        /\ phase = "resolving" /\ phase' = "deleting" /\ rebuilds /\ ~dryRun
        /\ cursor' = planned.subscriptions
    BY <1>5 DEF DeleteResolved, DryRunDeletes, ResolvedSubscriptions, RaisedOK
  <2>2. UNCHANGED <<scope, rebuilds, dryRun>>
    BY <2>1 DEF request
  <2>3. UNCHANGED <<InHand, Unopened>>
    BY <2>1, <2>2 DEF InHand, Unopened
  <2>4. \A r \in subRows : OwedRow(r)' <=> OwedRow(r)
    BY <2>1, <2>2, <2>3 DEF OwedRow
  <2>5. QED
    BY <2>1, <2>3, <2>4, Unseen
<1>6. CASE ReportResolved
  BY <1>6, DryRunForetellsTheOwed DEF Contract!Next
<1>7. CASE ListingFails
  BY <1>7, ListingRaises DEF Contract!Next
<1>8. CASE OtherWrites
  BY <1>8, OthersWrite DEF Contract!Next
<1>9. CASE UNCHANGED vars
  <2>1. /\ UNCHANGED <<subRows, agrRows, scope, rebuilds, dryRun, phase, listed, cursor, planned, outcome>>
    BY <1>9 DEF vars, tables, request
  <2>2. UNCHANGED <<InHand, Owed>>
    BY <2>1 DEF InHand, Owed, Unopened
  <2>3. QED
    BY <2>1, <2>2 DEF Contract!vars, Contract!request
<1>10. CASE NoneListed
  BY <1>3, <1>10 DEF NoneListed
<1>11. QED
  BY <1>1, <1>2, <1>3, <1>4, <1>5, <1>6, <1>7, <1>8, <1>9, <1>10 DEF Next

(***************************************************************************)
(* Listing and deleting in turn, or resolved long before, and whatever is  *)
(* written meanwhile, a delete takes whole subscriptions of its scope,     *)
(* reports those that had rows, and owes no row of the scope at its end.   *)
(***************************************************************************)
THEOREM DeletesAsPromised == Spec => ImplementsContract
<1>1. Init => Contract!Init
  <2> SUFFICES ASSUME Init PROVE Contract!Init
    OBVIOUS
  <2>1. /\ scope.subscriptions \in SUBSET Subscriptions
        /\ Named(scope.agreements) \in SUBSET Agreements
    BY DEF Init, Scopes, Named
  <2>2. InHand = {} /\ Unopened = Named(scope.agreements)
    BY DEF Init, InHand, Unopened, Nothing
  <2>3. Owed = {r \in subRows : Contract!InScope(r)}
    BY <2>2 DEF Init, Owed, Contract!InScope
  <2>4. QED
    BY <2>1, <2>2, <2>3 DEF Init, Contract!Init
<1>2. Spec => [](PlanOK /\ RaisedOK /\ HandOK)
  <2>1. Init => RaisedOK /\ HandOK
    BY DEF Init, RaisedOK, HandOK, OpenedAgreements, Nothing
  <2>2. TypeOK /\ PlanOK /\ (RaisedOK /\ HandOK) /\ [Next]_vars => (RaisedOK /\ HandOK)'
    BY RaisedStep, HandStep
  <2>3. QED
    BY <2>1, <2>2, PlanInvariant, TypeCorrect, PTL DEF Spec
<1>3. TypeOK /\ PlanOK /\ RaisedOK /\ HandOK /\ [Next]_vars => [Contract!Next]_Contract!vars
  BY ContractStep
<1>4. QED
  BY <1>1, <1>2, <1>3, TypeCorrect, PTL DEF Spec, ImplementsContract, Contract!Spec
=============================================================================
