----------------------- MODULE ExecutionTrackingProofs -----------------------
(***************************************************************************)
(* Proofs about ExecutionTracking: what a row, a card and an exit code say *)
(* is true, and they say it of each other.                                 *)
(*                                                                         *)
(* The inductive invariant sorts the targets of a process into those not   *)
(* yet begun, the one in flight, and those reported, and says of each what *)
(* its traces are; an interrupted process leaves one target in flight.     *)
(***************************************************************************)
EXTENDS ExecutionTracking, TLAPS

Untouched(p, t) ==
  /\ rows[p][t] = "none"
  /\ cards[p][t] = <<>>
  /\ body[p][t] = "none"
  /\ t \notin unwritten[p]
  /\ t \notin failedIds[p]

RowTells(p, t) ==
  /\ rows[p][t] = "success" => body[p][t] = "returned"
  /\ rows[p][t] = "completed_with_errors" => body[p][t] = "flagged"
  /\ rows[p][t] = "failed" => body[p][t] = "raised"

Troubled(p, t) == body[p][t] \in {"flagged", "raised"} \/ t \in unwritten[p]

Over(p, t) ==
  /\ RowTells(p, t)
  /\ rows[p][t] \notin Statuses => t \in unwritten[p]
  /\ body[p][t] # "none" \/ t \in unwritten[p]
  /\ ~Troubled(p, t) => rows[p][t] = "success"

Reported(p, t) ==
  /\ Over(p, t)
  /\ t \in failedIds[p] <=> Troubled(p, t)
  /\ cards[p][t] = IF Notifies(p)
                   THEN <<IF Troubled(p, t) THEN "failure" ELSE "success">>
                   ELSE <<>>

InExecution(p) ==
  phase[p] \in {"connecting", "starting", "working", "finishing", "closing", "reporting"}

EndOfBody(p) == IF raised[p] THEN "raised" ELSE IF flag[p] THEN "flagged" ELSE "returned"

Underway(p, t) ==
  /\ t \notin failedIds[p]
  /\ cards[p][t] = <<>>
  /\ phase[p] \in {"connecting", "starting"} =>
       Untouched(p, t) /\ ~raised[p] /\ ~flag[p]
  /\ phase[p] = "working" =>
       /\ rows[p][t] = "running" /\ body[p][t] = "none"
       /\ t \notin unwritten[p] /\ ~raised[p]
  /\ phase[p] = "finishing" =>
       /\ rows[p][t] = "running" /\ body[p][t] = EndOfBody(p)
       /\ t \notin unwritten[p]
  /\ phase[p] \in {"closing", "reporting"} =>
       Over(p, t) /\ (Failed(p) <=> Troubled(p, t))

Sorted(p) ==
  \A t \in Targets :
    /\ t \notin found[p] \/ t \in queue[p] => Untouched(p, t)
    /\ t \in found[p] /\ t \notin queue[p] =>
         IF InExecution(p) /\ t = at[p] THEN Underway(p, t) ELSE Reported(p, t)

Cut(p) ==
  \A t \in Targets :
    Untouched(p, t) \/ Reported(p, t) \/ (cards[p][t] = <<>> /\ RowTells(p, t))

Bookkeeping(p) ==
  /\ exit[p] = "none" <=> phase[p] # "ended"
  /\ queue[p] \subseteq found[p]
  /\ phase[p] = "listing" => Migrates(p) /\ listing[p] = "complete" /\ found[p] = queue[p]
  /\ listing[p] = "complete" /\ phase[p] # "listing" /\ exit[p] # "interrupted" =>
       found[p] = job[p].targets
  /\ InExecution(p) => at[p] \in Targets /\ at[p] \in found[p] /\ at[p] \notin queue[p]
  /\ CameToItsEnd(p) => queue[p] = {}
  /\ listing[p] = "escaped" => exit[p] = "nonzero" /\ found[p] = queue[p]
  /\ exit[p] = "zero" => failedIds[p] = {} /\ listing[p] = "complete"
  /\ exit[p] = "nonzero" => failedIds[p] # {} \/ listing[p] # "complete"

Right(p) ==
  /\ Bookkeeping(p)
  /\ exit[p] # "interrupted" => Sorted(p)
  /\ exit[p] = "interrupted" => Cut(p)

Inv == TypeOK /\ \A p \in Processes : Right(p)

-----------------------------------------------------------------------------
Acts(p) ==
  \/ ListAgreement(p) \/ ListingEnds(p) \/ ListingFails(p) \/ ListingEscapes(p)
  \/ Execution(p) \/ Finish(p) \/ Interrupted(p)

\* No variable of q moves.
Still(q) ==
  /\ job'[q] = job[q]
  /\ phase'[q] = phase[q]
  /\ queue'[q] = queue[q]
  /\ at'[q] = at[q]
  /\ flag'[q] = flag[q]
  /\ raised'[q] = raised[q]
  /\ rows'[q] = rows[q]
  /\ cards'[q] = cards[q]
  /\ failedIds'[q] = failedIds[q]
  /\ listing'[q] = listing[q]
  /\ exit'[q] = exit[q]
  /\ found'[q] = found[q]
  /\ body'[q] = body[q]
  /\ unwritten'[q] = unwritten[q]

\* The types hold at the start: nothing is listed, executed or reported.
LEMMA InitTyped == Init => TypeOK
BY TrackingAssumption
   DEF Init, TypeOK, Phases, Statuses, Migrates

\* Every action writes members of the types, and reads at only in an execution.
LEMMA StepTyped ==
  ASSUME TypeOK, NEW p \in Processes, Right(p), Acts(p)
  PROVE  TypeOK'
<1> USE TrackingAssumption DEF TypeOK, Go, Exit, Row, Raise, Unwritten, Phases, Statuses
<1>at. InExecution(p) => at[p] \in Targets
  BY DEF Right, Bookkeeping, CameToItsEnd
<1>1. CASE ListAgreement(p)
  BY <1>1 DEF ListAgreement, handle, traces
<1>2. CASE ListingEnds(p)
  BY <1>2 DEF ListingEnds, handle, traces, ghosts
<1>3. CASE ListingFails(p)
  BY <1>3 DEF ListingFails, FoundSoFar, handle, traces, ghosts
<1>3e. CASE ListingEscapes(p)
  BY <1>3e DEF ListingEscapes, handle, traces, ghosts
<1>4. CASE Execute(p)
  BY <1>4 DEF Execute, traces, ghosts
<1>5. CASE Connect(p)
  BY <1>5 DEF Connect, handle, traces, ghosts
<1>6. CASE ConnectFails(p)
  BY <1>6, <1>at DEF ConnectFails, InExecution, traces
<1>7. CASE StartRow(p)
  BY <1>7, <1>at DEF StartRow, InExecution, handle, ghosts
<1>8. CASE StartRowFails(p)
  <2>1. at[p] \in Targets
    BY <1>8, <1>at DEF StartRowFails, InExecution
  <2>2. rows' \in [Processes -> [Targets -> {"none", "running"} \cup Statuses]]
    <3>1. rows \in [Processes -> [Targets -> {"none", "running"} \cup Statuses]]
      OBVIOUS
    <3>2. CASE Row(p, "running")
      BY ONLY <2>1, <3>1, <3>2 DEF Row, Statuses
    <3>3. CASE UNCHANGED rows
      BY ONLY <3>1, <3>3
    <3> QED
      BY <1>8, <3>2, <3>3 DEF StartRowFails
  <2>3. UNCHANGED <<job, queue, at, flag, cards, failedIds, listing, exit, found, body>>
    BY <1>8 DEF StartRowFails
  <2>4. raised' \in [Processes -> BOOLEAN] /\ phase' \in [Processes -> Phases]
    BY <1>8 DEF StartRowFails
  <2>5. unwritten' \in [Processes -> SUBSET Targets]
    BY <1>8, <2>1 DEF StartRowFails
  <2> QED
    BY <2>2, <2>3, <2>4, <2>5
<1>9. CASE SetHasErrors(p)
  BY <1>9 DEF SetHasErrors, traces, ghosts
<1>10. CASE BodyReturns(p)
  BY <1>10, <1>at DEF BodyReturns, InExecution, handle, traces
<1>11. CASE BodyRaises(p)
  BY <1>11, <1>at DEF BodyRaises, InExecution, traces
<1>12. CASE FinishRow(p)
  BY <1>12, <1>at DEF FinishRow, FinalStatus, InExecution, handle, ghosts
<1>13. CASE FinishRowFails(p)
  <2>1. at[p] \in Targets
    BY <1>13, <1>at DEF FinishRowFails, InExecution
  <2>2. rows' \in [Processes -> [Targets -> {"none", "running"} \cup Statuses]]
    <3>1. rows \in [Processes -> [Targets -> {"none", "running"} \cup Statuses]]
      OBVIOUS
    <3>2. CASE Row(p, FinalStatus(p))
      BY ONLY <2>1, <3>1, <3>2 DEF Row, FinalStatus, Statuses
    <3>3. CASE UNCHANGED rows
      BY ONLY <3>1, <3>3
    <3> QED
      BY <1>13, <3>2, <3>3 DEF FinishRowFails
  <2>3. UNCHANGED <<job, queue, at, flag, cards, failedIds, listing, exit, found, body>>
    BY <1>13 DEF FinishRowFails
  <2>4. raised' \in [Processes -> BOOLEAN] /\ phase' \in [Processes -> Phases]
    BY <1>13 DEF FinishRowFails
  <2>5. unwritten' \in [Processes -> SUBSET Targets]
    BY <1>13, <2>1 DEF FinishRowFails
  <2> QED
    BY <2>2, <2>3, <2>4, <2>5
<1>14. CASE Close(p)
  BY <1>14 DEF Close, handle, traces, ghosts
<1>15. CASE Report(p)
  <2>1. at[p] \in Targets
    BY <1>15, <1>at DEF Report, InExecution
  <2>2. Append(cards[p][at[p]], Card(p)) \in Seq({"success", "failure"})
    BY <2>1 DEF Card
  <2>3. cards' \in [Processes -> [Targets -> Seq({"success", "failure"})]]
    BY <1>15, <2>1, <2>2 DEF Report
  <2> QED
    BY <1>15, <2>1, <2>3 DEF Report, StillQueued, handle, ghosts
<1>16. CASE Finish(p)
  BY <1>16 DEF Finish, handle, traces, ghosts
<1>17. CASE Interrupted(p)
  BY <1>17 DEF Interrupted, handle, traces, ghosts
<1> QED
  BY <1>1, <1>2, <1>3, <1>3e, <1>4, <1>5, <1>6, <1>7, <1>8, <1>9, <1>10, <1>11,
     <1>12, <1>13, <1>14, <1>15, <1>16, <1>17 DEF Acts, Execution

\* A process moves none of another's variables.
LEMMA OthersStill ==
  ASSUME TypeOK, NEW p \in Processes, Acts(p), NEW q \in Processes, q # p
  PROVE  Still(q)
<1> USE DEF TypeOK, Still, Go, Exit, Row, Raise, Unwritten, handle, traces, ghosts
<1>1. CASE ListAgreement(p) \/ ListingEnds(p) \/ ListingFails(p) \/ ListingEscapes(p)
  BY <1>1 DEF ListAgreement, ListingEnds, ListingFails, ListingEscapes
<1>2. CASE Execute(p) \/ Connect(p) \/ ConnectFails(p)
  BY <1>2 DEF Execute, Connect, ConnectFails
<1>3. CASE StartRow(p) \/ StartRowFails(p) \/ SetHasErrors(p)
  BY <1>3 DEF StartRow, StartRowFails, SetHasErrors
<1>4. CASE BodyReturns(p) \/ BodyRaises(p)
  BY <1>4 DEF BodyReturns, BodyRaises
<1>5. CASE FinishRow(p) \/ FinishRowFails(p)
  BY <1>5 DEF FinishRow, FinishRowFails
<1>6. CASE Close(p) \/ Report(p)
  BY <1>6 DEF Close, Report
<1>7. CASE Finish(p) \/ Interrupted(p)
  BY <1>7 DEF Finish, Interrupted
<1> QED
  BY <1>1, <1>2, <1>3, <1>4, <1>5, <1>6, <1>7 DEF Acts, Execution

\* What is said of a process is said in terms of its own variables.
LEMMA StillRight ==
  ASSUME NEW q \in Processes, Still(q), Right(q)
  PROVE  Right(q)'
<1>1. \A t \in Targets : /\ Untouched(q, t)' = Untouched(q, t)
                         /\ Reported(q, t)' = Reported(q, t)
                         /\ Underway(q, t)' = Underway(q, t)
                         /\ RowTells(q, t)' = RowTells(q, t)
  BY DEF Still, Untouched, Reported, Underway, RowTells, Over, Troubled, EndOfBody,
         Failed, Notifies
<1>2. Bookkeeping(q)' = Bookkeeping(q)
  BY DEF Still, Bookkeeping, CameToItsEnd, InExecution, Migrates
<1>3. Sorted(q)' = Sorted(q)
  BY <1>1 DEF Still, Sorted, InExecution
<1>4. Cut(q)' = Cut(q)
  BY <1>1 DEF Still, Cut
<1> QED
  BY <1>2, <1>3, <1>4 DEF Right, Still

-----------------------------------------------------------------------------
\* A process that has not ended has its targets sorted.
LEMMA NotEnded ==
  ASSUME NEW p \in Processes, Right(p), phase[p] # "ended"
  PROVE  Bookkeeping(p) /\ Sorted(p) /\ exit[p] = "none"
BY DEF Right, Bookkeeping, CameToItsEnd

\* A step that leaves the exit code open has only the sorting to keep.
LEMMA SortedIsRight ==
  ASSUME NEW p \in Processes, exit'[p] = "none", Bookkeeping(p)', Sorted(p)'
  PROVE  Right(p)'
BY DEF Right

\* What a target that is not the one executed says depends on these alone.
Quiet(p, t) ==
  /\ rows'[p][t] = rows[p][t]
  /\ cards'[p][t] = cards[p][t]
  /\ body'[p][t] = body[p][t]
  /\ t \in unwritten'[p] <=> t \in unwritten[p]
  /\ t \in failedIds'[p] <=> t \in failedIds[p]

LEMMA QuietStands ==
  ASSUME NEW p \in Processes, NEW t \in Targets, Quiet(p, t), job' = job
  PROVE  /\ Untouched(p, t)' <=> Untouched(p, t)
         /\ Reported(p, t)' <=> Reported(p, t)
         /\ Over(p, t)' <=> Over(p, t)
         /\ RowTells(p, t)' <=> RowTells(p, t)
         /\ Troubled(p, t)' <=> Troubled(p, t)
<1>1. Troubled(p, t)' <=> Troubled(p, t)
  BY DEF Quiet, Troubled
<1>2. RowTells(p, t)' <=> RowTells(p, t)
  BY DEF Quiet, RowTells
<1>3. Over(p, t)' <=> Over(p, t)
  BY <1>1, <1>2 DEF Quiet, Over
<1>4. Notifies(p)' <=> Notifies(p)
  BY DEF Notifies
<1>5. Reported(p, t)' <=> Reported(p, t)
  BY <1>1, <1>3, <1>4 DEF Quiet, Reported
<1>6. Untouched(p, t)' <=> Untouched(p, t)
  BY DEF Quiet, Untouched
<1> QED
  BY <1>1, <1>2, <1>3, <1>5, <1>6

\* An action within an execution need only be right about its target.
LEMMA OneTarget ==
  ASSUME TypeOK, NEW p \in Processes, Right(p), InExecution(p),
         job' = job, queue' = queue, found' = found, listing' = listing,
         at' = at, exit' = exit, InExecution(p)', TypeOK',
         \A t \in Targets \ {at[p]} : Quiet(p, t),
         Underway(p, at[p])'
  PROVE  Right(p)'
<1>1. Bookkeeping(p) /\ Sorted(p) /\ exit[p] = "none"
  BY NotEnded DEF InExecution
<1>2. Bookkeeping(p)'
  BY <1>1 DEF Bookkeeping, CameToItsEnd, InExecution, Migrates
<1>3. ASSUME NEW t \in Targets
      PROVE  /\ t \notin found[p] \/ t \in queue[p] => Untouched(p, t)'
             /\ t \in found[p] /\ t \notin queue[p] =>
                  IF InExecution(p)' /\ t = at[p] THEN Underway(p, at[p])' ELSE Reported(p, t)'
  <2>1. CASE t = at[p]
    BY <1>1, <2>1 DEF Bookkeeping, CameToItsEnd
  <2>2. CASE t # at[p]
    BY <1>1, <2>2, QuietStands DEF Sorted
  <2> QED
    BY <2>1, <2>2
<1>4. Sorted(p)'
  BY <1>3 DEF Sorted
<1> QED
  BY <1>1, <1>2, <1>4, SortedIsRight

\* What the target of an execution is known to be while it lasts.
LEMMA TargetUnderway ==
  ASSUME TypeOK, NEW p \in Processes, Right(p), InExecution(p)
  PROVE  /\ at[p] \in Targets
         /\ Underway(p, at[p])
<1>1. Bookkeeping(p) /\ Sorted(p)
  BY NotEnded DEF InExecution
<1> QED
  BY <1>1 DEF Bookkeeping, CameToItsEnd, Sorted

-----------------------------------------------------------------------------
\* The actions of an execution but its report, each right about its target.
LEMMA WithinExecution ==
  ASSUME TypeOK, TypeOK', NEW p \in Processes, Right(p),
         \/ Connect(p) \/ ConnectFails(p) \/ StartRow(p) \/ StartRowFails(p)
         \/ SetHasErrors(p) \/ BodyReturns(p) \/ BodyRaises(p)
         \/ FinishRow(p) \/ FinishRowFails(p) \/ Close(p)
  PROVE  Right(p)'
<1> USE DEF Go, Row, Raise, Unwritten, handle, traces, ghosts
<1>0. /\ InExecution(p) /\ InExecution(p)'
      /\ job' = job /\ queue' = queue /\ found' = found /\ listing' = listing
      /\ at' = at /\ exit' = exit /\ cards' = cards /\ failedIds' = failedIds
  <2>1. CASE Connect(p) \/ ConnectFails(p) \/ StartRow(p) \/ StartRowFails(p)
    BY <2>1 DEF TypeOK, InExecution, Connect, ConnectFails, StartRow, StartRowFails
  <2>2. CASE SetHasErrors(p) \/ BodyReturns(p) \/ BodyRaises(p)
    BY <2>2 DEF TypeOK, InExecution, SetHasErrors, BodyReturns, BodyRaises
  <2>3. CASE FinishRow(p) \/ FinishRowFails(p) \/ Close(p)
    BY <2>3 DEF TypeOK, InExecution, FinishRow, FinishRowFails, Close
  <2> QED
    BY <2>1, <2>2, <2>3
<1>t. at[p] \in Targets /\ Underway(p, at[p])
  BY <1>0, TargetUnderway
<1>q. \A t \in Targets \ {at[p]} : Quiet(p, t)
  <2>1. CASE Connect(p) \/ ConnectFails(p) \/ StartRow(p) \/ StartRowFails(p)
    BY <2>1, <1>t DEF TypeOK, Quiet, Connect, ConnectFails, StartRow, StartRowFails
  <2>2. CASE SetHasErrors(p) \/ BodyReturns(p) \/ BodyRaises(p)
    BY <2>2, <1>t DEF TypeOK, Quiet, SetHasErrors, BodyReturns, BodyRaises
  <2>3. CASE FinishRow(p) \/ FinishRowFails(p) \/ Close(p)
    BY <2>3, <1>t DEF TypeOK, Quiet, FinishRow, FinishRowFails, Close
  <2> QED
    BY <2>1, <2>2, <2>3
<1>u. Underway(p, at[p])'
  <2> USE <1>0, <1>t DEF TypeOK, Underway
  <2>1. CASE Connect(p)
    BY <2>1 DEF Connect, Untouched
  <2>2. CASE ConnectFails(p)
    BY <2>2 DEF ConnectFails, Untouched, Over, RowTells, Troubled, Failed
  <2>3. CASE StartRow(p)
    BY <2>3 DEF StartRow, Untouched
  <2>4. CASE StartRowFails(p)
    BY <2>4 DEF StartRowFails, Untouched, Over, RowTells, Troubled, Failed, Statuses
  <2>5. CASE SetHasErrors(p)
    BY <2>5 DEF SetHasErrors
  <2>6. CASE BodyReturns(p)
    BY <2>6 DEF BodyReturns, EndOfBody
  <2>7. CASE BodyRaises(p)
    BY <2>7 DEF BodyRaises, EndOfBody
  <2>8. CASE FinishRow(p)
    BY <2>8 DEF FinishRow, FinalStatus, EndOfBody, Over, RowTells, Troubled, Failed, Statuses
  <2>9. CASE FinishRowFails(p)
    BY <2>9 DEF FinishRowFails, FinalStatus, EndOfBody, Over, RowTells, Troubled, Failed,
                Statuses
  <2>10. CASE Close(p)
    BY <2>10 DEF Close, Over, RowTells, Troubled, Failed
  <2> QED
    BY <2>1, <2>2, <2>3, <2>4, <2>5, <2>6, <2>7, <2>8, <2>9, <2>10
<1> QED
  BY <1>0, <1>t, <1>q, <1>u, OneTarget

\* Outside an execution no target's traces move.
LEMMA ListingRight ==
  ASSUME TypeOK, NEW p \in Processes, Right(p),
         ListAgreement(p) \/ ListingEnds(p) \/ ListingFails(p)
  PROVE  Right(p)'
<1> USE DEF Go, handle, traces, ghosts
<1>1. /\ phase[p] = "listing"
      /\ phase'[p] \in {"listing", "between"}
      /\ UNCHANGED <<job, rows, cards, failedIds, exit, body, unwritten>>
  BY DEF TypeOK, ListAgreement, ListingEnds, ListingFails
<1>2. Bookkeeping(p) /\ Sorted(p) /\ exit[p] = "none"
  BY <1>1, NotEnded
<1>3. found'[p] = queue'[p]
  <2>1. found[p] = queue[p]
    BY <1>1, <1>2 DEF Bookkeeping, CameToItsEnd
  <2>2. CASE ListAgreement(p)
    BY <2>1, <2>2 DEF TypeOK, ListAgreement
  <2>3. CASE ListingEnds(p)
    BY <2>1, <2>3 DEF ListingEnds
  <2>4. CASE ListingFails(p)
    BY <2>1, <2>4 DEF TypeOK, ListingFails, FoundSoFar
  <2> QED
    BY <2>2, <2>3, <2>4
<1>4. Bookkeeping(p)'
  <2>1. CASE ListAgreement(p)
    BY <1>1, <1>2, <1>3, <2>1 DEF TypeOK, Bookkeeping, CameToItsEnd, InExecution, Migrates, ListAgreement
  <2>2. CASE ListingEnds(p)
    BY <1>1, <1>2, <1>3, <2>2 DEF TypeOK, Bookkeeping, CameToItsEnd, InExecution, Migrates, ListingEnds
  <2>3. CASE ListingFails(p)
    BY <1>1, <1>2, <1>3, <2>3 DEF TypeOK, Bookkeeping, CameToItsEnd, InExecution, Migrates, ListingFails
  <2> QED
    BY <2>1, <2>2, <2>3
<1>5. \A t \in Targets : Untouched(p, t)'
  <2>1. \A t \in Targets : Untouched(p, t)
    BY <1>1, <1>2 DEF Sorted, Bookkeeping, CameToItsEnd
  <2> QED
    BY <1>1, <2>1 DEF Untouched
<1>6. Sorted(p)'
  BY <1>3, <1>5 DEF Sorted
<1> QED
  BY <1>1, <1>2, <1>4, <1>6, SortedIsRight

\* An error nobody catches ends the process before its first execution.
LEMMA EscapeRight ==
  ASSUME TypeOK, NEW p \in Processes, Right(p), ListingEscapes(p)
  PROVE  Right(p)'
<1> USE DEF Go, Exit, handle, traces, ghosts
<1>1. /\ phase[p] = "listing" /\ phase'[p] = "ended"
      /\ exit'[p] = "nonzero" /\ listing'[p] = "escaped"
      /\ UNCHANGED <<job, queue, at, rows, cards, failedIds, found, body, unwritten>>
  BY DEF TypeOK, ListingEscapes
<1>2. Bookkeeping(p) /\ Sorted(p) /\ exit[p] = "none"
  BY <1>1, NotEnded
<1>3. Bookkeeping(p)'
  BY <1>1, <1>2 DEF Bookkeeping, InExecution, Migrates, CameToItsEnd
<1>4. \A t \in Targets : Quiet(p, t)
  BY <1>1 DEF Quiet
<1>5. Sorted(p)'
  BY <1>1, <1>2, <1>4, QuietStands DEF Sorted, InExecution
<1> QED
  BY <1>1, <1>3, <1>5 DEF Right

\* The next target is one that was never touched; the last one was reported.
LEMMA ExecuteRight ==
  ASSUME TypeOK, NEW p \in Processes, Right(p), Execute(p)
  PROVE  Right(p)'
<1> USE DEF Go, traces, ghosts
<1>1. PICK t \in queue[p] :
        /\ phase[p] = "between" /\ phase'[p] = "connecting"
        /\ queue'[p] = queue[p] \ {t}
        /\ at'[p] = t /\ ~flag'[p] /\ ~raised'[p]
  BY DEF TypeOK, Execute
<1>2. UNCHANGED <<job, rows, cards, failedIds, listing, exit, found, body, unwritten>>
  BY DEF Execute
<1>3. Bookkeeping(p) /\ Sorted(p) /\ exit[p] = "none" /\ t \in Targets
  BY <1>1, NotEnded DEF TypeOK
<1>4. Bookkeeping(p)'
  BY <1>1, <1>2, <1>3 DEF Bookkeeping, CameToItsEnd, InExecution, Migrates
<1>5. \A u \in Targets : Quiet(p, u)
  BY <1>2 DEF Quiet
<1>6. Untouched(p, t) /\ Untouched(p, t)'
  BY <1>1, <1>2, <1>3, <1>5, QuietStands DEF Sorted
<1>7. Underway(p, t)'
  BY <1>1, <1>2, <1>6 DEF Underway, Untouched
<1>8. ASSUME NEW u \in Targets
      PROVE  /\ u \notin found'[p] \/ u \in queue'[p] => Untouched(p, u)'
             /\ u \in found'[p] /\ u \notin queue'[p] =>
                  IF u = t THEN Underway(p, u)' ELSE Reported(p, u)'
  <2>1. CASE u = t
    BY <1>1, <1>2, <1>3, <1>6, <1>7, <2>1 DEF Bookkeeping, CameToItsEnd
  <2>2. CASE u # t
    BY <1>1, <1>2, <1>3, <1>5, <2>2, QuietStands DEF Sorted, InExecution
  <2> QED
    BY <2>1, <2>2
<1>9. Sorted(p)'
  BY <1>1, <1>8 DEF Sorted, InExecution
<1> QED
  BY <1>2, <1>3, <1>4, <1>9, SortedIsRight

\* The report sends the one card and names the target if it failed.
LEMMA ReportRight ==
  ASSUME TypeOK, NEW p \in Processes, Right(p), Report(p)
  PROVE  Right(p)'
<1> DEFINE t == at[p]
<1> USE DEF Go, handle, ghosts
<1>1. /\ phase[p] = "reporting" /\ phase'[p] = "between"
      /\ UNCHANGED <<job, at, flag, raised, rows, listing, exit, found, body, unwritten>>
      /\ queue'[p] = queue[p]
  BY DEF TypeOK, Report, StillQueued
<1>2. Bookkeeping(p) /\ Sorted(p) /\ exit[p] = "none" /\ t \in Targets
  BY <1>1, NotEnded DEF InExecution, Bookkeeping, CameToItsEnd
<1>3. Underway(p, t)
  BY <1>1, TargetUnderway DEF InExecution
<1>4. Over(p, t) /\ (Failed(p) <=> Troubled(p, t)) /\ cards[p][t] = <<>> /\ t \notin failedIds[p]
  BY <1>1, <1>3 DEF Underway
<1>5. Over(p, t)' /\ (Troubled(p, t)' <=> Troubled(p, t)) /\ (Notifies(p)' <=> Notifies(p))
  BY <1>1, <1>4 DEF Over, RowTells, Troubled, Notifies
<1>6. t \in failedIds'[p] <=> Failed(p)
  BY <1>2, <1>4 DEF TypeOK, Report
<1>7. cards'[p][t] = IF Notifies(p)
                     THEN <<IF Troubled(p, t) THEN "failure" ELSE "success">>
                     ELSE <<>>
  <2>1. Card(p) = IF Troubled(p, t) THEN "failure" ELSE "success"
    BY <1>4 DEF Card, Failed
  <2>2. CASE Notifies(p)
    <3>1. cards'[p][t] = Append(cards[p][t], Card(p))
      BY <1>2, <2>2 DEF TypeOK, Report
    <3> QED
      BY <1>4, <2>1, <2>2, <3>1
  <2>3. CASE ~Notifies(p)
    BY <1>4, <2>3 DEF Report
  <2> QED
    BY <2>2, <2>3
<1>8. Reported(p, t)'
  BY <1>1, <1>4, <1>5, <1>6, <1>7 DEF Reported
<1>9. \A u \in Targets \ {t} : Quiet(p, u)
  BY <1>1, <1>2 DEF TypeOK, Report, Quiet
<1>10. Bookkeeping(p)'
  BY <1>1, <1>2 DEF Bookkeeping, CameToItsEnd, InExecution, Migrates
<1>11. ASSUME NEW u \in Targets
       PROVE  /\ u \notin found'[p] \/ u \in queue'[p] => Untouched(p, u)'
              /\ u \in found'[p] /\ u \notin queue'[p] => Reported(p, u)'
  <2>1. CASE u = t
    BY <1>1, <1>2, <1>8, <2>1 DEF Bookkeeping, CameToItsEnd, InExecution
  <2>2. CASE u # t
    BY <1>1, <1>2, <1>9, <2>2, QuietStands DEF Sorted
  <2> QED
    BY <2>1, <2>2
<1>12. Sorted(p)'
  BY <1>1, <1>11 DEF Sorted, InExecution
<1> QED
  BY <1>1, <1>2, <1>10, <1>12, SortedIsRight

\* Nothing is left to do: the code tells whether anything failed.
LEMMA FinishRight ==
  ASSUME TypeOK, NEW p \in Processes, Right(p), Finish(p)
  PROVE  Right(p)'
<1> USE DEF Go, Exit, handle, traces, ghosts
<1>1. /\ phase[p] = "between" /\ phase'[p] = "ended" /\ queue[p] = {}
      /\ UNCHANGED <<job, queue, at, flag, raised, rows, cards, failedIds, listing,
                     found, body, unwritten>>
      /\ exit'[p] = IF failedIds[p] = {} /\ listing[p] = "complete"
                    THEN "zero" ELSE "nonzero"
  BY DEF TypeOK, Finish
<1>2. Bookkeeping(p) /\ Sorted(p) /\ exit[p] = "none"
  BY <1>1, NotEnded
<1>3. Bookkeeping(p)'
  <2>1. listing[p] \in {"complete", "failed"}
    BY <1>1, <1>2 DEF TypeOK, Bookkeeping, CameToItsEnd
  <2> QED
    BY <1>1, <1>2, <2>1 DEF Bookkeeping, CameToItsEnd, InExecution, Migrates
<1>4. \A t \in Targets : Quiet(p, t)
  BY <1>1 DEF Quiet
<1>5. Sorted(p)'
  BY <1>1, <1>2, <1>4, QuietStands DEF Sorted, InExecution
<1> QED
  BY <1>1, <1>3, <1>5 DEF Right

\* An interruption leaves the target in flight with the row it had, no card.
LEMMA InterruptedRight ==
  ASSUME TypeOK, NEW p \in Processes, Right(p), Interrupted(p)
  PROVE  Right(p)'
<1> USE DEF Exit, handle, traces, ghosts
<1>1. /\ phase[p] # "ended" /\ phase'[p] = "ended" /\ exit'[p] = "interrupted"
      /\ UNCHANGED <<job, queue, at, flag, raised, rows, cards, failedIds, listing,
                     found, body, unwritten>>
  BY DEF TypeOK, Interrupted
<1>2. Bookkeeping(p) /\ Sorted(p)
  BY <1>1, NotEnded
<1>3. Bookkeeping(p)'
  BY <1>1, <1>2 DEF Bookkeeping, CameToItsEnd, InExecution, Migrates
<1>4. ASSUME NEW t \in Targets
      PROVE  Untouched(p, t) \/ Reported(p, t) \/ (cards[p][t] = <<>> /\ RowTells(p, t))
  <2>1. CASE Untouched(p, t) \/ Reported(p, t)
    BY <2>1
  <2>2. CASE InExecution(p) /\ Underway(p, t)
    BY <2>2 DEF InExecution, Underway, Untouched, RowTells, Over
  <2> QED
    BY <1>2, <2>1, <2>2 DEF Sorted
<1>5. \A t \in Targets : Quiet(p, t)
  BY <1>1 DEF Quiet
<1>6. Cut(p)'
  BY <1>1, <1>4, <1>5, QuietStands DEF Cut
<1> QED
  BY <1>1, <1>3, <1>6 DEF Right

-----------------------------------------------------------------------------
LEMMA InitRight == Init => Inv
<1> SUFFICES ASSUME Init PROVE Inv
  OBVIOUS
<1>1. TypeOK
  BY InitTyped
<1>2. ASSUME NEW p \in Processes
      PROVE  Right(p)
  <2>1. /\ phase[p] = IF Migrates(p) THEN "listing" ELSE "between"
        /\ queue[p] = (IF Migrates(p) THEN {} ELSE job[p].targets)
        /\ found[p] = queue[p] /\ listing[p] = "complete" /\ exit[p] = "none"
    BY DEF Init
  <2>2. \A t \in Targets : Untouched(p, t)
    BY DEF Init, Untouched
  <2>3. Bookkeeping(p)
    BY <2>1 DEF Bookkeeping, CameToItsEnd, InExecution
  <2>4. Sorted(p)
    BY <2>1, <2>2 DEF Sorted
  <2> QED
    BY <2>1, <2>3, <2>4 DEF Right
<1> QED
  BY <1>1, <1>2 DEF Inv

LEMMA StepRight == Inv /\ [Next]_vars => Inv'
<1> SUFFICES ASSUME Inv, [Next]_vars PROVE Inv'
  OBVIOUS
<1>1. CASE UNCHANGED vars
  <2>1. TypeOK'
    BY <1>1 DEF Inv, TypeOK, vars, handle, traces, ghosts
  <2>2. \A q \in Processes : Still(q)
    BY <1>1 DEF Still, vars, handle, traces, ghosts
  <2> QED
    BY <2>1, <2>2, StillRight DEF Inv
<1>2. ASSUME NEW p \in Processes, Acts(p)
      PROVE  Inv'
  <2>1. TypeOK'
    BY <1>2, StepTyped DEF Inv
  <2>2. Right(p)'
    <3>1. CASE ListAgreement(p) \/ ListingEnds(p) \/ ListingFails(p) \/ ListingEscapes(p)
      BY <3>1, ListingRight, EscapeRight DEF Inv
    <3>2. CASE Execute(p)
      BY <3>2, ExecuteRight DEF Inv
    <3>3. CASE Report(p)
      BY <3>3, ReportRight DEF Inv
    <3>4. CASE Finish(p)
      BY <3>4, FinishRight DEF Inv
    <3>5. CASE Interrupted(p)
      BY <3>5, InterruptedRight DEF Inv
    <3> QED
      BY <1>2, <2>1, <3>1, <3>2, <3>3, <3>4, <3>5, WithinExecution DEF Inv, Acts, Execution
  <2>3. \A q \in Processes \ {p} : Right(q)'
    BY <1>2, OthersStill, StillRight DEF Inv
  <2> QED
    BY <2>1, <2>2, <2>3 DEF Inv
<1> QED
  BY <1>1, <1>2 DEF Next, Acts

\* The targets of every process are sorted, however its executions end.
THEOREM Traced == Spec => []Inv
<1>1. Init => Inv
  BY InitRight
<1>2. Inv /\ [Next]_vars => Inv'
  BY StepRight
<1> QED
  BY <1>1, <1>2, PTL DEF Spec

\* No step of any process takes a row, a card or a list out of its type.
THEOREM TypeCorrect == Spec => []TypeOK
<1>1. Inv => TypeOK
  BY DEF Inv
<1> QED
  BY <1>1, Traced, PTL

\* What is known of a target of a process that came to its end.
LEMMA EndedByItself ==
  ASSUME Inv, NEW p \in Processes, CameToItsEnd(p)
  PROVE  /\ Bookkeeping(p)
         /\ \A t \in found[p] : t \in Targets /\ Reported(p, t)
         /\ \A t \in Targets \ found[p] : Untouched(p, t)
<1>1. Bookkeeping(p) /\ Sorted(p) /\ phase[p] = "ended" /\ queue[p] = {}
  BY DEF Inv, Right, Bookkeeping, CameToItsEnd
<1>2. found[p] \subseteq Targets
  BY DEF Inv, TypeOK
<1> QED
  BY <1>1, <1>2 DEF Sorted, InExecution

\* At any time a target is in one of four conditions.
LEMMA AtAnyTime ==
  ASSUME Inv, NEW p \in Processes, NEW t \in Targets
  PROVE  \/ Untouched(p, t)
         \/ Reported(p, t)
         \/ cards[p][t] = <<>> /\ RowTells(p, t)
<1>1. CASE exit[p] = "interrupted"
  BY <1>1 DEF Inv, Right, Cut
<1>2. CASE exit[p] # "interrupted"
  <2>1. CASE InExecution(p) /\ Underway(p, t)
    BY <2>1 DEF InExecution, Underway, Untouched, RowTells, Over
  <2> QED
    BY <1>2, <2>1 DEF Inv, Right, Sorted
<1> QED
  BY <1>1, <1>2

\* A row's status is true of its body, and one left running was never written.
THEOREM RowsAreTrue == Spec => []RowsTellTheBody
<1>1. Inv => RowsTellTheBody
  <2> SUFFICES ASSUME Inv, NEW p \in Processes, NEW t \in Targets
               PROVE  /\ RowTells(p, t)
                      /\ CameToItsEnd(p) /\ t \in found[p]
                            /\ rows[p][t] \notin Statuses => t \in unwritten[p]
    BY DEF RowsTellTheBody, RowTells
  <2>1. RowTells(p, t)
    BY AtAnyTime DEF Untouched, Reported, Over, RowTells
  <2> QED
    BY <2>1, EndedByItself DEF Reported, Over
<1> QED
  BY <1>1, Traced, PTL

\* One card for each execution that ends, and it agrees with the row.
THEOREM CardsAreTrue == Spec => []CardsMatchRows
<1>1. Inv => CardsMatchRows
  <2> SUFFICES ASSUME Inv, NEW p \in Processes, NEW t \in Targets
               PROVE  /\ Len(cards[p][t]) <= IF Notifies(p) THEN 1 ELSE 0
                      /\ CameToItsEnd(p) /\ Notifies(p) /\ t \in found[p]
                           => Len(cards[p][t]) = 1
                      /\ cards[p][t] = <<"success">> => rows[p][t] = "success"
                      /\ cards[p][t] = <<"failure">>
                            /\ rows[p][t] \notin {"failed", "completed_with_errors"}
                           => t \in unwritten[p]
    BY DEF CardsMatchRows
  <2>1. ASSUME cards[p][t] = <<>>
        PROVE  /\ Len(cards[p][t]) = 0
               /\ cards[p][t] # <<"success">> /\ cards[p][t] # <<"failure">>
    BY <2>1
  <2>2. ASSUME Reported(p, t)
        PROVE  /\ Len(cards[p][t]) = IF Notifies(p) THEN 1 ELSE 0
               /\ cards[p][t] = <<"success">> => ~Troubled(p, t)
    BY <2>2 DEF Reported
  <2>3. ASSUME Reported(p, t)
        PROVE  /\ ~Troubled(p, t) => rows[p][t] = "success"
               /\ cards[p][t] = <<"failure">>
                    /\ rows[p][t] \notin {"failed", "completed_with_errors"}
                      => t \in unwritten[p]
    BY <2>3 DEF Reported, Over, RowTells, Troubled, Statuses
  <2>4. CASE Reported(p, t)
    <3>1. Len(cards[p][t]) <= IF Notifies(p) THEN 1 ELSE 0
      BY <2>2, <2>4
    <3>2. Notifies(p) => Len(cards[p][t]) = 1
      BY <2>2, <2>4
    <3> QED
      BY <2>2, <2>3, <2>4, <3>1, <3>2, Zenon
  <2>5. CASE cards[p][t] = <<>> /\ ~Reported(p, t)
    BY <2>1, <2>5, EndedByItself
  <2> QED
    BY <2>4, <2>5, AtAnyTime DEF Untouched
<1> QED
  BY <1>1, Traced, PTL

\* The exit code is zero only if all there was to do says success.
THEOREM ExitIsTrue == Spec => []ExitTellsTheRows
<1>1. Inv => ExitTellsTheRows
  <2> SUFFICES ASSUME Inv, NEW p \in Processes
               PROVE  /\ exit[p] = "zero" => \A t \in job[p].targets : rows[p][t] = "success"
                      /\ exit[p] = "nonzero" =>
                           \/ listing[p] # "complete"
                           \/ \E t \in found[p] : Troubled(p, t)
    BY DEF ExitTellsTheRows, Troubled
  <2>1. CASE exit[p] = "zero"
    <3>1. failedIds[p] = {} /\ found[p] = job[p].targets /\ CameToItsEnd(p)
      BY <2>1 DEF Inv, Right, Bookkeeping, CameToItsEnd
    <3> QED
      BY <2>1, <3>1, EndedByItself DEF Reported, Over
  <2>2. CASE exit[p] = "nonzero" /\ listing[p] = "complete"
    <3>1. PICK t \in failedIds[p] : t \in Targets
      BY <2>2 DEF Inv, Right, Bookkeeping, CameToItsEnd, TypeOK
    <3>2. CameToItsEnd(p)
      BY <2>2 DEF CameToItsEnd
    <3>3. t \in found[p]
      BY <3>1, <3>2, EndedByItself DEF Untouched
    <3> QED
      BY <2>2, <3>1, <3>2, <3>3, EndedByItself DEF Reported
  <2> QED
    BY <2>1, <2>2
<1> QED
  BY <1>1, Traced, PTL

\* A migration that comes to its end has tried all it was told of.
THEOREM AllAreTried == Spec => []EveryAgreementTried
<1>1. Inv => EveryAgreementTried
  <2> SUFFICES ASSUME Inv, NEW p \in Processes
               PROVE  /\ CameToItsEnd(p) =>
                           /\ \A t \in found[p] : body[p][t] # "none" \/ t \in unwritten[p]
                           /\ failedIds[p] = {t \in found[p] : Troubled(p, t)}
                      /\ listing[p] = "escaped" =>
                           \A t \in found[p] : rows[p][t] = "none" /\ cards[p][t] = <<>>
    BY DEF EveryAgreementTried, Troubled
  <2>1. ASSUME CameToItsEnd(p)
        PROVE  \A t \in found[p] : body[p][t] # "none" \/ t \in unwritten[p]
    BY <2>1, EndedByItself DEF Reported, Over
  <2>2. ASSUME CameToItsEnd(p)
        PROVE  failedIds[p] = {t \in found[p] : Troubled(p, t)}
    <3>1. failedIds[p] \subseteq found[p]
      BY <2>2, EndedByItself DEF Inv, TypeOK, Untouched
    <3>2. \A t \in found[p] : t \in failedIds[p] <=> Troubled(p, t)
      BY <2>2, EndedByItself DEF Reported
    <3> QED
      BY <3>1, <3>2
  <2>3. ASSUME listing[p] = "escaped", NEW t \in found[p]
        PROVE  rows[p][t] = "none" /\ cards[p][t] = <<>>
    <3>1. t \in Targets /\ t \in queue[p] /\ exit[p] = "nonzero"
      BY <2>3 DEF Inv, TypeOK, Right, Bookkeeping
    <3>2. Untouched(p, t)
      BY <2>3, <3>1 DEF Inv, Right, Sorted
    <3> QED
      BY <3>2 DEF Untouched
  <2> QED
    BY <2>1, <2>2, <2>3
<1> QED
  BY <1>1, Traced, PTL

\* Only the start and the end of an execution write its row, and the end once.
THEOREM RowsSettle == Spec => RowsSettleOnce
<1>1. Inv /\ [Next]_vars =>
        [\A p \in Processes, t \in Targets :
           rows'[p][t] # rows[p][t] => /\ rows[p][t] \notin Statuses
                                       /\ t = at[p]
                                       /\ phase[p] \in {"starting", "finishing"}]_vars
  <2> SUFFICES ASSUME Inv, NEW q \in Processes, Acts(q),
                      NEW p \in Processes, NEW t \in Targets, rows'[p][t] # rows[p][t]
               PROVE  /\ rows[p][t] \notin Statuses
                      /\ t = at[p]
                      /\ phase[p] \in {"starting", "finishing"}
    BY DEF Next, Acts
  <2>1. p = q
    BY OthersStill DEF Inv, Still
  <2>2. StartRow(p) \/ StartRowFails(p) \/ FinishRow(p) \/ FinishRowFails(p)
    BY <2>1 DEF Acts, Execution, ListAgreement, ListingEnds, ListingFails, ListingEscapes,
               Execute, Connect, ConnectFails, SetHasErrors, BodyReturns, BodyRaises, Close, Report, Finish,
               Interrupted, traces
  <2>3. InExecution(p) /\ phase[p] \in {"starting", "finishing"}
    BY <2>2 DEF InExecution, StartRow, StartRowFails, FinishRow, FinishRowFails, Go
  <2>4. at[p] \in Targets /\ Underway(p, at[p])
    BY <2>3, TargetUnderway DEF Inv
  <2>5. t = at[p]
    BY <2>2, <2>4 DEF Inv, TypeOK, StartRow, StartRowFails, FinishRow, FinishRowFails, Row
  <2>6. rows[p][t] \notin Statuses
    BY <2>3, <2>4, <2>5 DEF Underway, Untouched, Statuses
  <2> QED
    BY <2>3, <2>5, <2>6
<1> QED
  BY <1>1, Traced, PTL DEF Spec, RowsSettleOnce
==============================================================================
