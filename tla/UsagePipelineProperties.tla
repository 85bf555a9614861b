----------------------- MODULE UsagePipelineProperties -----------------------
(***************************************************************************)
(* What the commands of UsagePipeline promise about the tables.  Most of   *)
(* it is promised to a command that had the tables to itself: nothing      *)
(* locks them, and an overlapping command may write what it likes.         *)
(***************************************************************************)
EXTENDS UsagePipeline

TypeOK ==
  /\ subRows \in [Charges -> Nat]
  /\ agrRows \in [Charges -> Nat]
  /\ job \in [Commands -> Jobs]
  /\ pc \in [Commands -> Phases]
  /\ plan \in [Commands -> PlanType]
  /\ todo \in [Commands -> SUBSET (Subscriptions \cup Agreements \cup Keys)]
  /\ at \in [Commands -> Agreements \cup Keys \cup {None}]
  /\ kept \in [Commands -> SUBSET Charges]
  /\ failed \in [Commands -> SUBSET Agreements]
  /\ hasErrors \in [Commands -> BOOLEAN]
  /\ pushed \in [Commands -> SUBSET Subscriptions]
  /\ before \in [Commands -> [sub : [Charges -> Nat], agr : [Charges -> Nat]]]
  /\ disturbed \in [Commands -> BOOLEAN]

-----------------------------------------------------------------------------
\* p has begun, and no other command has written since.
Alone(p) == pc[p] # "idle" /\ ~disturbed[p]

\* p's own clean-up leaves the charge's rows alone.
Retained(p, c) == MonthOf[c] >= job[p].cutoff

\* The charge is on a statement the daily run collects.
Collected(j, c) == StatementOf[c] \in j.window \cap j.base

SubUntouched(p, c) == subRows[c] = before[p].sub[c]
AgrUntouched(p, c) == agrRows[c] = before[p].agr[c]

Untouched(p) == subRows = before[p].sub /\ agrRows = before[p].agr

Once(b) == IF b THEN 1 ELSE 0

-----------------------------------------------------------------------------
(***************************************************************************)
(* The daily run adds each collected charge at most once to its            *)
(* subscription row and never to an agreement row before that, wherever it *)
(* stops; when it completes, exactly once to both.                         *)
(***************************************************************************)
RunCountsOnce ==
  \A p \in Commands : Alone(p) /\ job[p].command = "run" =>
    \A c \in Charges : Retained(p, c) =>
      LET most     == Once(Collected(job[p], c))
          addedSub == subRows[c] - before[p].sub[c]
          addedAgr == agrRows[c] - before[p].agr[c]
      IN /\ addedSub \in 0..most
         /\ addedAgr \in 0..addedSub
         /\ pc[p] = "done" => addedSub = most /\ addedAgr = most

(***************************************************************************)
(* A daily run that collects a charge it cannot sum writes nothing at all, *)
(* so that the day can be run again once the charge is fixed.              *)
(***************************************************************************)
RunFailsWhole ==
  \A p \in Commands :
    /\ Alone(p)
    /\ job[p].command = "run"
    /\ \E c \in Unpriced : Collected(job[p], c)
    => Untouched(p)

(***************************************************************************)
(* While a recalculate is still planning and accumulating, both tables are *)
(* as it found them; so they are if it fails there.                        *)
(***************************************************************************)
NothingDeletedBeforeAccumulated ==
  \A p \in Commands :
    Alone(p) /\ pc[p] \in {"planning", "accumulating"} => Untouched(p)

\* A dry run of recalculate changes no table and pushes no estimate.
DryRunChangesNothing ==
  \A p \in Commands :
    Alone(p) /\ job[p].dryRun => Untouched(p) /\ pushed[p] = {}

-----------------------------------------------------------------------------
\* p lists an agreement the subscription had rows under as failed.
SharedWithFailed(p, s) ==
  \E d \in Charges : /\ SubscriptionOf[d] = s
                     /\ AgreementOf(d) \in failed[p]
                     /\ before[p].sub[d] > 0

(***************************************************************************)
(* A completed recalculate leaves every charge of an agreement it does not *)
(* report as failed counted once if its statement is in the window and not *)
(* at all otherwise, whatever crashed, repeated or overlapping commands    *)
(* had left in the rows.  A subscription that also has rows under a failed *)
(* agreement is the exception: the failure takes it out of the scope.      *)
(***************************************************************************)
RebuildIsExact ==
  \A p \in Commands :
    /\ Alone(p)
    /\ pc[p] = "done"
    /\ job[p].command = "recalculate"
    /\ ~job[p].dryRun
    => \A c \in Charges :
         /\ Retained(p, c)
         /\ AgreementOf(c) \in job[p].agreements \ failed[p]
         => LET wanted == Once(StatementOf[c] \in job[p].window)
            IN /\ agrRows[c] = wanted
               /\ subRows[c] = wanted \/ SharedWithFailed(p, SubscriptionOf[c])

\* The agreements the subscription had rows under when p began.
StoredBefore(p, s) ==
  {AgreementOf(d) : d \in {e \in Charges : /\ SubscriptionOf[e] = s
                                           /\ before[p].sub[e] > 0}}

(***************************************************************************)
(* The same for one subscription: its rows are rebuilt from the statements *)
(* of the agreements it is stored under, or, when it is stored nowhere     *)
(* yet, from those of the configured products.  Asked for an id made up    *)
(* for charges without a subscription, it deletes the rows and puts none   *)
(* back, since the filter reads the charges' own subscription ids.         *)
(***************************************************************************)
SubscriptionRebuildIsExact ==
  \A p \in Commands :
    /\ Alone(p)
    /\ pc[p] = "done"
    /\ job[p].command = "recalculate"
    /\ ~job[p].dryRun
    => \A c \in Charges :
         LET stored == StoredBefore(p, SubscriptionOf[c])
         IN /\ Retained(p, c)
            /\ SubscriptionOf[c] \in job[p].subscriptions
            /\ stored \cap failed[p] = {}
            => subRows[c] =
                 Once(/\ SubscriptionOf[c] \notin Synthetic
                      /\ AgreementOf(c) \notin failed[p]
                      /\ StatementOf[c] \in job[p].window
                      /\ IF stored = {} THEN StatementOf[c] \in job[p].base
                                        ELSE AgreementOf(c) \in stored)

(***************************************************************************)
(* An agreement a recalculate reports as failed keeps the rows it had, in  *)
(* both tables and at every moment; the estimates of the subscriptions     *)
(* that are billed under failed agreements only are not pushed; and the    *)
(* command cannot end without errors.                                      *)
(***************************************************************************)
FailedAgreementsUntouched ==
  \A p \in Commands : Alone(p) =>
    /\ \A c \in Charges :
         AgreementOf(c) \in failed[p] /\ Retained(p, c)
           => SubUntouched(p, c) /\ AgrUntouched(p, c)
    /\ \A s \in pushed[p] :
         \E c \in OfSubscription(s) : AgreementOf(c) \notin failed[p]
    /\ failed[p] # {} => hasErrors[p]

(***************************************************************************)
(* A command given a subscription leaves every agreement row, which sums   *)
(* up its siblings too, and every other subscription's rows as they were.  *)
(***************************************************************************)
SubscriptionScopeKeepsTheRest ==
  \A p \in Commands : Alone(p) /\ job[p].kind = "subscription" =>
    \A c \in Charges : Retained(p, c) =>
      /\ AgrUntouched(p, c)
      /\ SubscriptionOf[c] \notin job[p].subscriptions => SubUntouched(p, c)

(***************************************************************************)
(* A run or recalculate that ends without errors has pushed the estimate   *)
(* of every real subscription it was to count a charge for: a run those of *)
(* its window, a recalculate of agreements theirs of the window, and one   *)
(* of a subscription that one's, on the statements its plan selects        *)
(* (_run, _refill, update_estimates).                                      *)
(***************************************************************************)
CleanEndPushedEstimates ==
  \A p \in Commands :
    /\ pc[p] = "done"
    /\ ~hasErrors[p]
    /\ ~job[p].dryRun
    /\ job[p].command \in {"run", "recalculate"}
    => \A c \in Charges :
         /\ Storable(c)
         /\ SubscriptionOf[c] \notin Synthetic
         /\ \/ job[p].command = "run" /\ Collected(job[p], c)
            \/ /\ AgreementOf(c) \in job[p].agreements
               /\ StatementOf[c] \in job[p].window
            \/ /\ SubscriptionOf[c] \in job[p].subscriptions
               /\ StatementOf[c] \in Selection(p)
         => SubscriptionOf[c] \in pushed[p]

-----------------------------------------------------------------------------
\* What a command may write: the rows of its selector or of the statements it
\* collects, and those its clean-up prunes.
MayPrune(j, c) == j.command # "delete" /\ ~j.dryRun /\ MonthOf[c] < j.cutoff
MayWriteAgr(j, c) ==
  \/ j.command = "run" /\ Collected(j, c)
  \/ AgreementOf(c) \in j.agreements /\ ~j.dryRun
  \/ MayPrune(j, c)
MayWriteSub(j, c) == MayWriteAgr(j, c) \/ SubscriptionOf[c] \in j.subscriptions

(***************************************************************************)
(* However commands overlap, a row only ever changes while a command is at *)
(* work whose selector or window covers it.  It takes subscriptions that   *)
(* are billed under one agreement each: a delete by subscription id does   *)
(* not look at the agreement.                                              *)
(***************************************************************************)
OnlyScopeWritten ==
  [][\A c \in Charges :
       /\ subRows'[c] # subRows[c] =>
            \E p \in Commands : pc[p] \in Working /\ MayWriteSub(job[p], c)
       /\ agrRows'[c] # agrRows[c] =>
            \E p \in Commands : pc[p] \in Working /\ MayWriteAgr(job[p], c)
    ]_tables

\* Every command ends: no phase of it waits for another command.
EveryCommandEnds == \A p \in Commands : <>(pc[p] \in Ended)

-----------------------------------------------------------------------------
(***************************************************************************)
(* What the docstrings of pipeline.py promise and the code does not keep.  *)
(***************************************************************************)
CompletedRebuild(p) ==
  /\ Alone(p)
  /\ pc[p] = "done"
  /\ job[p].command = "recalculate"
  /\ ~job[p].dryRun

(***************************************************************************)
(* "It selects the scope agreements' statements (no date window)": every   *)
(* charge of a rebuilt agreement is counted.                               *)
(***************************************************************************)
RebuildHasNoDateWindow ==
  \A p \in Commands : CompletedRebuild(p) =>
    \A c \in Charges :
      /\ Retained(p, c)
      /\ AgreementOf(c) \in job[p].agreements \ failed[p]
      => agrRows[c] = 1

(***************************************************************************)
(* "Delete exactly the planned scope's buckets, the ones the accumulation  *)
(* rebuilds": a charge that was counted still is, its statement being in   *)
(* the window.                                                             *)
(***************************************************************************)
DeletedIsRebuilt ==
  \A p \in Commands : CompletedRebuild(p) =>
    \A c \in Charges :
      /\ Retained(p, c)
      /\ StatementOf[c] \in job[p].window
      /\ before[p].sub[c] > 0
      => subRows[c] > 0

(***************************************************************************)
(* "The scope's buckets are deleted first, so re-runs do not               *)
(* double-count": no charge ends up counted more often than it was found   *)
(* to be, or more than once.                                               *)
(***************************************************************************)
RerunsDoNotDoubleCount ==
  \A p \in Commands : CompletedRebuild(p) =>
    \A c \in Charges : subRows[c] <= 1 \/ subRows[c] <= before[p].sub[c]
=============================================================================
