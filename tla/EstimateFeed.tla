---------------------------- MODULE EstimateFeed ----------------------------
(***************************************************************************)
(* What the platform shows of a subscription over the months: the rows as  *)
(* runs add to them and clean-ups prune them, the estimates computed from  *)
(* them, and the two push-estimates commands, which look for what to push  *)
(* by id or by the day a row was last written.                             *)
(*                                                                         *)
(* The steps inside a command are UsagePipeline's and EstimatesUploader's. *)
(* Here a command persists in one step and then uploads: it reads one      *)
(* subscription's rows after the other, month by month, and has the        *)
(* estimates on their way meanwhile, some of which land late, while days   *)
(* pass and other commands do the same.                                    *)
(***************************************************************************)
EXTENDS Calendar, FiniteSets, FiniteSetsExt

CONSTANTS
  Charges,           \* those that are ever billed
  Bill,              \* charge |-> its bucket, its amount and its currency
  Subscriptions,
  Synthetic,         \* the ids made up for a charge without a subscription
  Commands,
  Start,             \* the first month
  Batches,           \* bound: the sets of charges that are billed together
  MonthSteps,        \* bound: how many months a midnight may go forward
  MaxDay,            \* bound: how many days there are
  MaxMonthsAtWork,   \* bound: how many months may begin during a command
  DeletionDays,      \* bound: the days on which rows are deleted
  MaxGivenUp         \* bound: how many PUTs given up may still land

Agreements == {Bill[c].agreement : c \in Charges}
Currencies == {Bill[c].currency : c \in Charges}
BilledMonths == {Bill[c].month : c \in Charges}

ASSUME FeedAssumption ==
  /\ IsFiniteSet(Charges)
  /\ \A c \in Charges :
       /\ Bill[c].subscription \in Subscriptions
       /\ Bill[c].month \in Months
       /\ Bill[c].amount \in Int
  /\ Synthetic \subseteq Subscriptions
  /\ Batches \subseteq SUBSET Charges
  /\ Start \in Months /\ Start.year > 0
  /\ MonthSteps \subseteq Nat
  /\ MaxDay \in Nat \ {0}
  /\ MaxMonthsAtWork \in 0..(RetentionMonths - RollingMonths - 1)
  /\ MaxGivenUp \in Nat

VARIABLES
  day, month,        \* today
  stored,            \* the charges added into the rows that exist
  stamp,             \* row |-> updated_at, or 0 where there is no row
  shown,             \* subscription |-> the estimate the platform shows
  work,              \* what each command is doing
  uploads            \* the estimates being read, sent, or given up

\* What the properties compare with; no action's guard reads them.
VARIABLES
  counted,           \* the charges added and not deleted, pruned or not
  written,           \* row |-> the day it was last written, or 0
  source,            \* subscription |-> the upload its estimate came with
  newest,            \* subscription |-> the last day an estimate shown was read
  swept              \* the past days pushed without a failure

clock    == <<day, month>>
rows     == <<stored, stamp, counted, written>>
platform == <<shown, source, newest>>
vars     == <<clock, rows, platform, work, uploads, swept>>

-----------------------------------------------------------------------------
\* The subscription table.  A row exists while it holds a charge.
Row(c) == [subscription |-> Bill[c].subscription,
           agreement    |-> Bill[c].agreement,
           month        |-> Bill[c].month]
Rows == {Row(c) : c \in Charges}

InRow(k) == {c \in stored : Row(c) = k}
RowsOf(s) == {Row(c) : c \in {d \in stored : Bill[d].subscription = s}}
Of(s) == {c \in Charges : Bill[c].subscription = s}

FirstStamp(k, upserted) ==
  IF k \in upserted /\ stamp[k] = 0 THEN day ELSE stamp[k]
Stamp(k, upserted) == IF k \in upserted THEN day ELSE stamp[k]

\* The rows come to hold cs, those of `upserted` by being written.
SetRows(cs, upserted) ==
  LET exists(k) == \E c \in cs : Row(c) = k
  IN /\ stored' = cs
     /\ stamp' = [k \in Rows |-> IF exists(k) THEN Stamp(k, upserted) ELSE 0]
     /\ written' = [k \in Rows |-> IF ~exists(k) THEN 0
                                   ELSE IF k \in upserted THEN day ELSE written[k]]

KeptBy(date) == {c \in stored : Ordinal(Bill[c].month) >= Cutoff(date)}

-----------------------------------------------------------------------------
(***************************************************************************)
(* The estimate: a row for each month of the trailing window that has one. *)
(***************************************************************************)
Amount(cs) == MapThenSumSet(LAMBDA c : Bill[c].amount, cs)

Signed(amount) == amount
NonNegative(amount) == IF amount < 0 THEN 0 ELSE amount

\* Both figures, of the month and of the year, or nulls.
NoFigures == <<>>

\* A month is read without its agreement: of two rows either may come.
RowsRead(s, m) ==
  LET found == {k \in RowsOf(s) : k.month = m}
  IN IF found = {} THEN {{}} ELSE {InRow(k) : k \in found}

Latest(cs) == CHOOSE k \in {Row(c) : c \in cs} : \A d \in cs :
                Ordinal(Bill[d].month) <= Ordinal(k.month)

\* Of the charges in the rows read, a row for a month.
AnchorMonthOnly(cs, last) ==
  IF cs = {} THEN NoFigures
  ELSE <<NonNegative(Amount({c \in cs : Bill[c].month = last})), NonNegative(Amount(cs))>>
Estimate(cs, last) ==
  IF cs = {} THEN NoFigures
  ELSE <<NonNegative(Amount({c \in cs : Row(c) = Latest(cs)})), NonNegative(Amount(cs))>>

-----------------------------------------------------------------------------
Idle == [phase     |-> "idle",
         kind      |-> "none",
         anchor    |-> LastMonth(Start),
         ids       |-> {},            \* still to be read
         charged   |-> [s \in Subscriptions |-> {}],
         failed    |-> FALSE,         \* an upload of it
         updatedOn |-> 0]             \* the past day it pushes, if any

NeverShown == [anchor |-> LastMonth(Start), charges |-> {}, billed |-> {},
               day |-> 0, lost |-> FALSE]

Init ==
  /\ day = 1
  /\ month = Start
  /\ stored = {}
  /\ stamp = [k \in Rows |-> 0]
  /\ shown = [s \in Subscriptions |-> NoFigures]
  /\ work = [p \in Commands |-> Idle]
  /\ uploads = {}
  /\ counted = {}
  /\ written = [k \in Rows |-> 0]
  /\ source = [s \in Subscriptions |-> NeverShown]
  /\ newest = [s \in Subscriptions |-> 0]
  /\ swept = {}

Working(p) == work[p].phase # "idle"
Begin(p, how) == ~Working(p) /\ work' = [work EXCEPT ![p] = how]
End(p)        == work' = [work EXCEPT ![p] = Idle]

-----------------------------------------------------------------------------
(***************************************************************************)
(* run: the charges of the day are added, their subscriptions pushed.      *)
(***************************************************************************)
Billable == {c \in Charges \ counted : Ordinal(Bill[c].month) <= Ordinal(month)}

Persisted(cs) ==
  [Idle EXCEPT !.phase   = "persisted",
               !.kind    = "run",
               !.ids     = {Bill[c].subscription : c \in cs} \ Synthetic,
               !.charged = [s \in Subscriptions |-> {Bill[c].currency : c \in cs \cap Of(s)}]]

Run(p) ==
  \E cs \in {UNION some : some \in SUBSET Batches} :
    /\ cs \subseteq Billable
    /\ Begin(p, Persisted(cs))
    /\ SetRows(stored \cup cs, {Row(c) : c \in cs})
    /\ counted' = counted \cup cs
    /\ UNCHANGED <<clock, platform, uploads, swept>>

RunPushes(p) ==
  /\ work[p].phase = "persisted"
  /\ work' = [work EXCEPT ![p].phase = "pushing", ![p].anchor = LastMonth(month)]
  /\ UNCHANGED <<clock, rows, platform, uploads, swept>>

-----------------------------------------------------------------------------
(***************************************************************************)
(* push-estimates-by-id, push-estimates-by-updated-at: no charge is read,  *)
(* so the currency guard stays off.                                        *)
(***************************************************************************)
Pushing(targets, date) ==
  [Idle EXCEPT !.phase     = "pushing",
               !.kind      = "push",
               !.anchor    = LastMonth(month),
               !.ids       = targets \ Synthetic,
               !.updatedOn = IF date = day THEN 0 ELSE date]

Push(p, targets, date) ==
  /\ Begin(p, Pushing(targets, date))
  /\ UNCHANGED <<clock, rows, platform, uploads, swept>>

\* A product's and a seller's are the API's subscriptions, stored or not.
ById(p) ==
  \/ Push(p, Subscriptions, 0)
  \/ \E s \in Subscriptions : Push(p, {s}, 0)
  \/ \E a \in Agreements :
       Push(p, {Bill[c].subscription : c \in {d \in stored : Bill[d].agreement = a}}, 0)

UpdatedOn(date) == {k \in Rows : stamp[k] = date}

ByUpdatedAt(p) ==
  \E date \in 1..day :
    Push(p, {k.subscription : k \in UpdatedOn(date)}, date)

-----------------------------------------------------------------------------
(***************************************************************************)
(* An upload: the producer reads one subscription's months in any order,   *)
(* and has the estimate sent before it reads the next one's; several may   *)
(* be on their way.  What is billed, day and lost are the properties'.     *)
(***************************************************************************)
Upload(p, s) ==
  [by |-> p, subscription |-> s, anchor |-> work[p].anchor, state |-> "reading",
   unread  |-> TrailingMonths(work[p].anchor) \cap BilledMonths,
   charges |-> {},               \* those in the rows read
   billed  |-> {},               \* those billed of the months read
   day     |-> day,              \* it was begun
   lost    |-> FALSE]            \* rows of it were deleted since

InState(p, states) == {u \in uploads : u.by = p /\ u.state \in states}
Become(u, v) == uploads' = (uploads \ {u}) \cup {v}
Unreported(p) == UNCHANGED work
Fail(p)       == work' = [work EXCEPT ![p].failed = TRUE]

NextId(p) ==
  /\ work[p].phase = "pushing"
  /\ InState(p, {"reading"}) = {}
  /\ \E s \in work[p].ids :
       /\ work' = [work EXCEPT ![p].ids = @ \ {s}]
       /\ uploads' = uploads \cup {Upload(p, s)}
  /\ UNCHANGED <<clock, rows, platform, swept>>

BilledIn(s, m) == {c \in counted \cap Of(s) : Bill[c].month = m}
WithMonth(u, m, row) == [u EXCEPT !.unread  = @ \ {m},
                                  !.charges = @ \cup row,
                                  !.billed  = @ \cup BilledIn(u.subscription, m)]

ReadMonth(u) ==
  /\ u.state = "reading"
  /\ \E m \in u.unread : \E row \in RowsRead(u.subscription, m) :
       Become(u, WithMonth(u, m, row))
  /\ UNCHANGED <<clock, rows, platform, work, swept>>

Refused(u) == Cardinality(work[u.by].charged[u.subscription]) > 1

Refuse(u) ==
  /\ u.state = "reading" /\ u.unread = {} /\ Refused(u)
  /\ uploads' = uploads \ {u}
  /\ Fail(u.by)
  /\ UNCHANGED <<clock, rows, platform, swept>>

Send(u) ==
  /\ u.state = "reading" /\ u.unread = {} /\ ~Refused(u)
  /\ Become(u, [u EXCEPT !.state = "sent"])
  /\ UNCHANGED <<clock, rows, platform, work, swept>>

Shown(u) ==
  /\ shown' = [shown EXCEPT ![u.subscription] = Estimate(u.charges, u.anchor)]
  /\ source' = [source EXCEPT ![u.subscription] =
       [anchor |-> u.anchor, charges |-> u.charges, billed |-> u.billed,
        day |-> u.day, lost |-> u.lost]]
  /\ newest' = [newest EXCEPT ![u.subscription] = IF u.day > @ THEN u.day ELSE @]
  /\ uploads' = uploads \ {u}

\* It lands, and the answer arrives or is lost.
PutLands(u) ==
  /\ u.state = "sent"
  /\ Shown(u)
  /\ UNCHANGED work \/ Fail(u.by)
  /\ UNCHANGED <<clock, rows, swept>>

\* Of the uploads that end without an answer some are still on their way.
Abandon(us, late) ==
  /\ late \subseteq {u \in us : u.state = "sent"}
  /\ uploads' = (uploads \ us) \cup {[u EXCEPT !.state = "stray"] : u \in late}
  /\ Cardinality({u \in uploads' : u.state = "stray"}) <= MaxGivenUp

\* A rejection, or an error on the way.
PutFails(u) ==
  /\ u.state = "sent"
  /\ \E late \in SUBSET {u} : Abandon({u}, late)
  /\ Fail(u.by)
  /\ UNCHANGED <<clock, rows, platform, swept>>

StrayLands(u) ==
  /\ u.state = "stray"
  /\ Shown(u)
  /\ UNCHANGED <<clock, rows, work, swept>>

\* A read or the stream of ids fails, or the process is killed.
Break(p) ==
  /\ Working(p)
  /\ End(p)
  /\ \E late \in SUBSET InState(p, {"sent"}) : Abandon(InState(p, {"reading", "sent"}), late)
  /\ UNCHANGED <<clock, rows, platform, swept>>

-----------------------------------------------------------------------------
(***************************************************************************)
(* The last stage of a run prunes; so does cleanup, of any date.  That     *)
(* date is the operator's: here it is no later than today.                 *)
(***************************************************************************)
Prune(date) == SetRows(KeptBy(date), {}) /\ UNCHANGED counted

Done(p) == work[p].ids = {} /\ InState(p, {"reading", "sent"}) = {}

RunEnds(p) ==
  /\ work[p].kind = "run" /\ work[p].phase = "pushing" /\ Done(p)
  /\ End(p)
  /\ Prune(month)
  /\ UNCHANGED <<clock, platform, uploads, swept>>

PushEnds(p) ==
  /\ work[p].kind = "push" /\ Done(p)
  /\ End(p)
  /\ swept' = IF ~work[p].failed /\ work[p].updatedOn > 0
              THEN swept \cup {work[p].updatedOn} ELSE swept
  /\ UNCHANGED <<clock, rows, platform, uploads>>

CleanUp ==
  /\ \E date \in {month, LastMonth(month)} : Prune(date)
  /\ UNCHANGED <<clock, platform, work, uploads, swept>>

\* delete, or a recalculate that puts nothing in the place of what it deletes.
Delete ==
  \E s \in Subscriptions :
    /\ day \in DeletionDays
    /\ RowsOf(s) # {}
    /\ SetRows(stored \ Of(s), {})
    /\ counted' = counted \ Of(s)
    /\ source' = [source EXCEPT ![s].lost = TRUE]
    /\ uploads' = {IF u.subscription = s THEN [u EXCEPT !.lost = TRUE] ELSE u : u \in uploads}
    /\ UNCHANGED <<clock, shown, newest, work, swept>>

-----------------------------------------------------------------------------
After(m, n) ==
  LET o == m.month - 1 + n
  IN [year |-> m.year + (o \div MonthsPerYear), month |-> 1 + (o % MonthsPerYear)]

Midnight ==
  /\ day < MaxDay
  /\ \E n \in MonthSteps :
       /\ month' = After(month, n)
       /\ \A p \in Commands :
            work[p].phase = "pushing" =>
              Ordinal(month') - Ordinal(work[p].anchor) - 1 <= MaxMonthsAtWork
  /\ day' = day + 1
  /\ UNCHANGED <<rows, platform, work, uploads, swept>>

Next ==
  \/ Midnight \/ CleanUp \/ Delete
  \/ \E p \in Commands :
       \/ Run(p) \/ RunPushes(p) \/ ById(p) \/ ByUpdatedAt(p)
       \/ NextId(p) \/ Break(p) \/ RunEnds(p) \/ PushEnds(p)
  \/ \E u \in uploads :
       \/ ReadMonth(u) \/ Refuse(u) \/ Send(u)
       \/ PutLands(u) \/ PutFails(u) \/ StrayLands(u)

Spec == Init /\ [][Next]_vars

-----------------------------------------------------------------------------
(***************************************************************************)
(* Properties.                                                             *)
(***************************************************************************)
Figures == {NoFigures} \cup (Nat \X Nat)

WorkType == [phase     : {"idle", "persisted", "pushing"},
             kind      : {"none", "run", "push"},
             anchor    : Months,
             ids       : SUBSET (Subscriptions \ Synthetic),
             charged   : [Subscriptions -> SUBSET Currencies],
             failed    : BOOLEAN,
             updatedOn : 0..MaxDay]
SourceType == [anchor : Months, charges : SUBSET Charges, billed : SUBSET Charges,
               day : 0..MaxDay, lost : BOOLEAN]
UploadType == [by           : Commands,
               subscription : Subscriptions \ Synthetic,
               anchor       : Months,
               state        : {"reading", "sent", "stray"},
               unread       : SUBSET Months,
               charges      : SUBSET Charges,
               billed       : SUBSET Charges,
               day          : 1..MaxDay,
               lost         : BOOLEAN]

\* All but what the platform shows.
StateOK ==
  /\ day \in 1..MaxDay /\ month \in Months /\ month.year > 0
  /\ stored \subseteq counted /\ counted \subseteq Charges
  /\ stamp \in [Rows -> 0..MaxDay] /\ written \in [Rows -> 0..MaxDay]
  /\ work \in [Commands -> WorkType] /\ uploads \subseteq UploadType
  /\ source \in [Subscriptions -> SourceType] /\ newest \in [Subscriptions -> 0..MaxDay]
  /\ swept \subseteq 1..MaxDay

\* The types of the state: no figure of an estimate is negative, which the
\* platform would reject, although credits make sums so (_non_negative_sum).
TypeOK == StateOK /\ shown \in [Subscriptions -> Figures]

\* The clean-up never prunes what an estimate still sums up: whatever day it is
\* run on, what was added and not deleted of the twelve months that a command at
\* work reads is in the table, although the command's anchor ages as it works and
\* the window crosses a year (_trailing_months, prune).
NothingReadIsPruned ==
  \A p \in Commands : work[p].phase = "pushing" =>
    \A c \in counted :
      Bill[c].month \in TrailingMonths(work[p].anchor) => c \in stored

InWindow(m, last) == Ordinal(m) \in (Ordinal(last) - RollingMonths + 1)..Ordinal(last)
Due(cs, last) == {c \in cs : InWindow(Bill[c].month, last)}

Balance(cs) ==
  IF cs = {} THEN NoFigures
  ELSE LET last == CHOOSE c \in cs : \A d \in cs :
             Ordinal(Bill[d].month) <= Ordinal(Bill[c].month)
       IN <<NonNegative(Amount({c \in cs : Bill[c].month = Bill[last].month})),
            NonNegative(Amount(cs))>>

\* What the platform may show of s if cs is what was billed: where two agreements
\* billed s in the same month, the charges of one of them.
Balances(cs, last) ==
  LET due    == Due(cs, last)
      months == {Bill[c].month : c \in due}
      picks  == {f \in [months -> Agreements] : \A m \in months :
                   \E c \in due : Bill[c].month = m /\ Bill[c].agreement = f[m]}
  IN {Balance({c \in due : Bill[c].agreement = f[Bill[c].month]}) : f \in picks}

\* An estimate the platform shows, however late it landed, is that of all that was
\* billed of the subscription and not deleted, each month as it was when that month
\* was read, over the twelve months up to its anchor: pruned or not, credits
\* included, never negative, never null when something was billed.  Only of a month
\* shared by two agreements is it one agreement's part (_EstimateCalculator.estimate,
\* SubscriptionAccumulationRepository.get).
ShowsABalance ==
  \A s \in Subscriptions : source[s].day > 0 =>
    shown[s] \in Balances(source[s].billed, source[s].anchor)

\* A past day once pushed by updated-at without a failure is dealt with: every row
\* last written on it, of a month the estimate shown sums, is summed in it, or the
\* row of another agreement of that month in its place.  Only a PUT that was given
\* up or overtaken, and lands after the sweep, puts an estimate read on an earlier
\* day back; of those the property says nothing (PriceEstimateConsumer._put,
\* EstimatesUploader.update).
SweptDaysAreShown ==
  \A k \in Rows :
    LET s == k.subscription
    IN /\ written[k] \in swept /\ s \notin Synthetic
       /\ InWindow(k.month, source[s].anchor)
       /\ source[s].day = newest[s]
       => \/ InRow(k) \subseteq source[s].charges
          \/ \E c \in source[s].charges : Bill[c].month = k.month /\ Row(c) # k

\* An estimate that is no longer that of what was billed, a late one that put an
\* older back among them, is found by the days the rows were written on, unless
\* a row it lacks is gone: deletion and the clean-up leave nothing to find, and
\* the estimate stands until the subscription is billed again (_refill, prune).
StaleIsTraceable ==
  \A s \in Subscriptions :
    LET due == Due(counted \cap Of(s), source[s].anchor)
    IN source[s].day > 0 /\ ~source[s].lost /\ due \subseteq stored \cup source[s].billed =>
         \/ shown[s] \in Balances(due, source[s].anchor)
         \/ \E k \in RowsOf(s) :
              InWindow(k.month, source[s].anchor) /\ stamp[k] >= source[s].day

\* "an estimate summed over more than one currency is never uploaded"
\* (pipeline.py, update_estimates): of what a run uploads.
MixedSumNeverUploaded ==
  \A u \in uploads :
    u.state = "sent" /\ work[u.by].charged[u.subscription] # {} =>
      Cardinality({Bill[c].currency : c \in u.charges}) <= 1
=============================================================================
