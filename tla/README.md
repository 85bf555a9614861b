# A formal model of the usage reporting extension

The extension adds up the billing charges of the MPT platform per subscription,
agreement and billing month, keeps the sums in two PostgreSQL tables, derives a
price estimate for each subscription from them and PUTs it to the platform.
It is a command line program (`run`, `recalculate`, `delete`, `cleanup`,
`push-estimates-*`, `status`) started by cron jobs, by operators and by data
migrations. There is no lock, no transaction longer than a statement, and every
sum is kept by *adding* to a row: what the program can get wrong is what is
counted, how often, after which of its commands was stopped, repeated or
overlapped. That is what this directory models.

Paths below are relative to `src/backend/mpt_usage_reporting_extension/`, those of
`docs/` to the repository's `src/docs/`.

## 1. Inventory

| component | state it keeps | operations | correct when |
|---|---|---|---|
| Statement selection (`services/statements.py`, `window.py`, `cli/commands/run.py`) | none; the window is fixed at the start | `resolve_window`; two concurrent passes (issued, cancelled), merged by id | no statement of the window is skipped or taken twice, while the platform goes on issuing and cancelling |
| Charge accumulation (`accumulation.py`, `services/charges.py`) | the totals of one command, in memory; a `statement_processing` row for each statement | stream, filter, sum, isolate or raise | a statement counts whole or not at all; a failed agreement counts for nothing |
| Persistence (`services/charge_persistence.py`, `persistence/postgres/repositories/`) | `subscription_accumulation`, `agreement_accumulation` | upsert (adds), delete, prune, distinct reads; one autocommitted SQL statement each | a bucket is added once for each time it is meant to be |
| Bucket delete (`services/bucket_delete.py`, `cli/commands/delete.py`) | none | resolve a scope, delete it | the scope is gone, nothing else is |
| Usage pipeline (`pipeline.py`) | the plan of a recalculate, the accumulated charges | `run`; `recalculate` = plan, accumulate, delete, re-fill, estimate, prune | a run counts its charges once; a recalculate leaves its scope exact whatever was there; a failure before the delete is harmless |
| Clean-up (`services/accumulation_cleanup.py`) | none | prune both tables before a cutoff month | only what is older than the retention goes, never a month an estimate still sums up |
| Calendar (`utils.py`, `types.py`, months of `estimates_uploader.py` and `accumulation_cleanup.py`) | none | the month that is over, the twelve months of an estimate, the eighteen kept | right across a year's turn |
| Estimates uploader (`services/estimates_uploader.py`, `services/estimate_currency.py`) | semaphore, tasks, report | produce estimates, check their currency, PUT them concurrently | no slot leaks, each id has one outcome, the platform is not left with an older estimate |
| Execution tracking (`services/execution_tracker.py`, `services/execution_notifier.py`, `persistence/postgres/insights.py`, `persistence/postgres/database.py`) | `command_execution` row, Teams card, exit code | open a row, close it, notify, exit | row, card and exit code agree with what happened and with each other |
| Data migrations (`../migrations/`) | none | full recalculates; the recalculate of split-currency agreements one by one | each agreement is tried; failures show |
| `push-estimates-by-id`, `-by-updated-at` | none; `updated_at` of the rows is what the second looks for | resolve ids, run an uploader without the currency guard | an estimate that went stale can be found and pushed again |
| `status`, settings, connection and authentication, API client, observability, app wiring | none that a property depends on | read and configure | not modelled |

How they interact: `pipeline.py` calls selection, accumulation, delete,
persistence, uploader and clean-up one after the other inside the bracket of an
execution. Commands of different processes meet only in the two tables and on
the platform. Inside a process there are two places of concurrency: the two
selection passes (`asyncio.gather`), and the uploader's tasks (a `TaskGroup`
and a semaphore).

What is hard here: a command stopped between any two SQL statements; two
commands that overlap; a scope that is resolved long before it is deleted;
a recalculate in which one agreement fails and the others go on; a PUT whose answer
is lost; an update of the execution row that fails in the handler of another
failure; a statement that is cancelled while the two passes are read; a clean-up that
prunes while an uploader begun in an earlier month still reads; a PUT given up that lands days
later, over a newer estimate; agreements that are
deleted while the stream that lists them goes on and may break off. `PROJECT.json`
lists these, line by line, with the properties that cover each.

## 2. Modules

| module | models |
|---|---|
| `Billing` | the billing data and the pure functions over it: keys, charge filter, selection of a scope, isolation of agreements |
| `Calendar` | billing months: the last one that is over, the trailing ones, the ones kept |
| `UsagePipeline` | `run`, `recalculate`, `delete`, `cleanup`, as many processes as wanted, over the two tables |
| `UsagePipelineProperties` | what is promised about them |
| `DeleteContract` | abstract specification of a delete: what it promises those who write the same tables meanwhile |
| `BucketDelete` | a delete, or the planned delete of a recalculate, agreement by agreement and row by row, with its outcome; `ImplementsContract` is the refinement |
| `AccumulationContract` | abstract specification of an accumulation: one step that returns or raises |
| `ChargeAccumulator` | the accumulation itself, charge by charge; `ImplementsContract` is the refinement |
| `EstimatesUploader` | producers, semaphore, tasks and late PUTs of overlapping uploaders |
| `EstimateFeed` | amounts, months and days: what the platform shows of a subscription as commands add, prune, delete and push |
| `ExecutionTracking` | row, card and exit code of an execution, the split-currency migration |
| `StatementSelection` | windows, the two passes, the days, issuing and cancelling |
| `*Proofs` | the theorems about the module of that name, and their proofs |
| `MC*` | the values the runs give the constants |

`UsagePipeline` and `ChargeAccumulator` share `Billing`. The pipeline takes an
accumulation as one step; that step is the contract's `Return` (its `Accumulated`
and `UnsummableAgreements` are the same operators), and `ChargeAccumulator`
is checked and proved to implement it. It may be one step because nothing an
accumulation reads is written by another command. In the same way
`UpdateEstimates` of the pipeline is what `EstimatesUploader` details as to its
concurrency and `EstimateFeed` as to what it computes; the deletes of the pipeline are
what `BucketDelete` details; a run of `StatementSelection` is one step that counts, and a
body of `ExecutionTracking` is a pipeline that returns or raises. The accumulation and the delete each have a contract, and a refinement of it that is checked and
proved; the others are modules of their own over the same actions of the code.

An operator like `Replace` before `Add`, which no action uses, is a wrong version
of the one that follows it: the kind of slip a change of that code could make. Each
property was made to fail by putting one of them in (`PROJECT.json`, "mutants"), so
that it is known to look at the code.

### UsagePipeline

A row is the bag of charges that were added into it (`subRows`, `agrRows`: charge to
count), so "twice" and "not at all" can be told apart whatever the prices. A step is one SQL
statement, or a computation that touches no table. `Begin` stands for
`_track`; `PlanAgreement`/`PlanScope` for `plan_reset`; `AccumulateRun`,
`RunRaises`, `AccumulateScope` for selection and accumulation; `DeletePlanned*`
for `delete_planned`; `PersistSubscription`/`PersistAgreement` for the two upserts
of a bucket; `UpdateEstimates`, `Prune*` for the last stages; `OpenAgreement`,
`DeleteStoredSubscription`, `DeleteOpenAgreement`, `DeleteSubscriptionScope`
for `BucketDeleter.delete`. `Stop` is an exception or a kill between any two of
them. The ghosts `before` and `disturbed` say what the tables were when a
command began and whether another one has written since.

Abstractions: ids and buckets are worked through in any order; the cursor of a delete
(`WITH HOLD`, hence materialised when it is opened) is a snapshot of ids; a selector by
product, by seller, or none is the set of agreements it resolves to (`kind` =
"agreements"); a subscription selector is one id, which may be one made up for charges
without a subscription (its rows are then deleted and none put back, since
`StatementChargeFilter` reads the charges' own subscription ids); a month is an ordinal, and `NoMonth` that of a charge without a plausible date,
which is summed and never stored. A charge carries its agreement (`ChargeAgreement`), which keys its
buckets; a statement has one too (`StatementAgreement`), by which it is selected and, if it cannot
be summed, left out. Where the charge carries none the code takes the id `-`, and the assumption fails. The code leaves out a failed agreement's statements by the second and takes back its buckets
by the first, which comes out whole only if the two agree: that is the platform's doing, and
the named assumption `ListedByItsAgreement`. The set of agreements
found failing is read in one step by `_without_agreements`, agreement by agreement in the code.

### ChargeAccumulator

Statements in any order; of each, its charges in any order. `OpenStatement` and
`FinishStatement` are the recorder's bracket; `FailAgreement` is the isolating
error path, `ChargeRaises` the other; `StreamingRaises` an upstream error, which neither
contains; `Interrupted` a row write that raises, or a kill, which leaves the row open.

### EstimatesUploader

The rows of a month are a version, which another command may rewrite at any
time. The producer reads the months of an id one by one *before* it waits for a slot,
so that up to `MaxConcurrency + 1` ids are in hand. A PUT may land and its
answer be lost (`PutFails` on "landed"), or be given up and land later
(`StrayLands`). `Abandon` is a read that raises, upon which the TaskGroup cancels the tasks.
What the estimate amounts to is in `EstimateFeed`.

### EstimateFeed, Calendar

The subject is time: `day` for what is stamped, `month` for what is summed and kept. The
table is the set `stored` of the charges in it; a row (`Row`: subscription, agreement,
month) exists while it holds one. `stamp` is `updated_at`, set by every upsert
(`ON CONFLICT ... DO UPDATE`). Amounts may be negative, and each charge has its
currency. `Run` adds charges of the day (each once; a charge deleted may be billed
anew) and is then "pushing" the subscriptions it charged; `ById` and `ByUpdatedAt` push
what they find.

An upload is a record in `uploads`. `NextId` begins one, for the next id of a command;
`ReadMonth` reads one of its months, between which anything else may happen;
`Refuse` is the currency guard (more than one currency *among this run's charges*), `Send` the
start of the PUT, after which the producer goes on to the next id. A PUT lands (`PutLands`, its answer
arriving or not), or fails (`PutFails`), or its command is stopped (`Break`); in the last two cases it may
still be on its way, a stray, and `StrayLands` any time later, over whatever is shown by then.
Slots are left to `EstimatesUploader`. `Estimate` sums up the rows read, the month's figure being that of the latest
month that has a row (carried forward where the anchor's has none), both floored at zero and null without
a row. `SubscriptionAccumulationRepository.get` reads a month by subscription
alone, though the key has the agreement: where two rows match, `RowsRead` lets either
come. `RunEnds` prunes, as does `CleanUp`, in one step here. `Delete` removes a subscription's
rows and pushes nothing, as the code does.

`TrailingMonths` and `Cutoff` are written as the code computes them, the first by division
of a count of months from 0, the second by subtraction from a count from 1.
`NothingReadIsPruned` is where the two meet. The ghosts: `counted` (added and not deleted,
pruned or not), `written` (`stamp` as the properties mean it), `source` (of the estimate shown: its
anchor, the charges in the rows it summed, what was `billed` of each month when that month was read, the day it was
begun, whether rows were deleted since), `newest` (the last day an estimate shown was begun on), `swept`. An upload has the fields of
its future `source`. The reference definition of an estimate, `Balances`, uses
ordinals of months only and not the table, so that a fault of the calendar, of the sums or
of the retention shows as a difference.

`SweptDaysAreShown` is what a successful push of a past day achieves: every row last written
on that day, if its month is in the window of the estimate shown, is among the charges that estimate sums.
It makes two exceptions. The row may be left out for one of another agreement in the same
month. And where a PUT that was given up or overtaken lands after the sweep, an estimate begun on an
earlier day is shown (`source.day` is below `newest`), of which it says nothing: the code has no means
against that. `StaleIsTraceable` covers such estimates too.

An estimate that is no longer that of what was billed is found by the day its rows were
written, and `StaleIsTraceable` says so with two exceptions, both of the code: the
subscription's rows were deleted since, or a charge the estimate lacks is of a row
that the clean-up has pruned since. Neither leaves anything to find.

### BucketDelete, DeleteContract

A request is a subscription, an agreement, or a query the API answers with
agreements (products, sellers), `None` standing for a listed subscription without one.
A delete interleaves listing and deleting: `OpenAgreement` (its subscriptions are read),
`DeleteSubscription` each, `DeleteAgreement`, then the next; `ListingFails` may come
between. A recalculate lists everything first (`List`, `ResolveAgreement`), and deletes
what it resolved, or only reports it when dry. `OtherWrites` is another command adding or removing
a row in between. `outcome` has the ids in the order they were deleted, for its
lengths are what the execution row records. The ghost `others` is the tables as they
would be without this deleter. The rows of a pair are one whatever their months: no
delete has a month.

The other properties of a delete are about one that is alone with the tables (`writes = 0`);
`DeleteContract` is about one that is not. It takes whole subscriptions, and only ones it
found in its scope; it reports what had rows when it was taken; and at its end every
row of the scope that was there from the beginning, and that no one else removed, is gone. In the
refinement `chosen` is what was resolved, or the cursor, and `owed` the rows of what is in hand or
of agreements not yet listed. The contract is about rows on purpose: a row that another command
takes from an agreement still to be listed and writes under one listed already is missed, though its
subscription was in the scope all the time.

### ExecutionTracking

`Execute`..`Report` follow `_tracked` and `track`: connection, insert of the row,
the body, update of the row, closing, card, exit. A write of the row
may fail with or without having taken effect. `Interrupted` is what is no `Exception`:
a kill, a cancellation, a keyboard interrupt. A failed send of a card is logged
and does not matter (`docs/external-integrations.md`); closing the connection is taken
never to raise. `migration` jobs list agreements and recalculate each as an execution of its
own. A listing that breaks off with an upstream error is contained, and what was found is
tried (`ListingFails`); any other error of it ends the migration, with nothing tried
(`ListingEscapes`). `EveryAgreementTried` says of the first that none found is left out, of the second that
none was begun.

What the model makes visible: an execution whose closing update fails stays
`running` although an exception escaped, and one whose closing update took effect
but whose answer was lost says `success` while card and exit code say failure. The
properties name both through `unwritten`, and allow nothing else.

### StatementSelection

Time is counted in days, which is what windows are made of. `Run` takes any accepted
options of the command; the two `Pass`es of a runner are separate steps, between which
midnight, other runs and cancellations happen. The operator's discipline is in
`Run` and `Rebuild`: he has no day counted twice, and full recalculates are done "outside
the daily run's schedule" (`docs/migrations.md`). `OncePerDay` states what this
discipline buys and no more: a statement cancelled on a later day than it was issued
is counted on both, and one issued on the day of a full recalculate is counted again by
the run of that day. Both are what the code does.

## 3. Runs

| run | instance | shows |
|---|---|---|
| `pipeline` | one command out of 20, seven charges, every content of both tables with counts 0 or 1 | run counts once or fails whole; recalculate exact, also per subscription; a failed agreement untouched; dry run and early failures harmless; scopes kept; estimates pushed |
| `pipeline_pair` | two commands out of 5, four charges, empty tables, fair | rows change only under a command whose scope covers them; every command ends |
| `accumulate` | three statements of two agreements, filter or none, isolating or not | whole statements, truthful rows, refinement of the contract (with its fairness) |
| `upload` | two uploaders of one slot each, one with more ids than slots, two subscriptions and months, one rewrite, fair | slots, report, fresh estimates, refused ones not shown, termination |
| `feed` | one command at a time, two days, the first in a December, the second up to six months later, four charges, one PUT given up | estimates exact when read, nothing pruned that is read, swept days shown, stale ones can be found |
| `bucket_delete` | two subscriptions, two agreements, every content, two foreign writes | scope and outcome agree; dry run foretells; a broken listing leaves whole agreements; late members stay; refinement of the contract |
| `executions` | one process, each command, a migration of 0, 1 or 3 agreements whose listing may break off or raise | row, card, exit code |
| `selection` | three days, one statement, two runners | nothing skipped, nothing counted twice by a day |
| `rebuild_window`, `rebuild_shared`, `rebuild_failing` | one recalculate | findings below |
| `mixed_currency` | as `feed`, with three days in successive months | finding below |

Why the bounds are enough. A row is affected charge by charge, so counts of 0 and 1 in
the first state (`MaxStored`) stand for any (the proofs below do without the bound).
The charges of `pipeline` give two statements in one bucket, two buckets of an
agreement, two agreements, a subscription billed under both, a synthetic id, an expired
month and no month; the one that cannot be summed is in both tables or in neither at first,
which keeps the instance at 1.5 million states. `pipeline_pair` begins with empty tables: what a row holds
does not decide who may write it. Two commands show every pairwise
overlap, and a third adds only more of `disturbed`. Two months and one rewrite
suffice for an estimate that mixes versions; two ids for one slot make a
producer wait. In `feed` there are two days, in the same month or five or six months apart
(`MonthSteps`): in the same month a stamp tells the days apart and nothing else does; five months is the
most a command that pushes may be at work (`MaxMonthsAtWork`), so that it reads across them; six are what lets
a clean-up take a row an estimate begun before still sums. `Start` is a December and the oldest charge of the December
before: it is the first of the twelve months on the first day, and in the next May the last of the
eighteen that are kept; in June it is pruned. That the eighteen suffice whatever the months is
proved. The charges are billed in two batches (`Batches`), the credit apart from
the rest, and deleted on the second day only (`DeletionDays`), which leaves, on that day, every order of billing, pushing,
writing again, sweeping, deleting and late landing. One PUT given up (`MaxGivenUp`) is enough to put an older estimate
back; two identical ones count as one. With one command, other commands come between two of them but not
between two reads of an upload, where only midnight, a clean-up, a deletion and a late PUT do; that
several may overlap as they like is in the theorems, which are for every `Commands`. `MaxMonthsAtWork` says
that a command does not push across more than so many month ends: an upload ends within hours,
and five month ends is what `RetentionMonths` has to spare. Uploads of different
subscriptions do not meet, so that one and a synthetic id are enough. Two agreements and two subscriptions
are the least in which a subscription is stored under both agreements of a query and
another under one. Processes of `ExecutionTracking` share nothing, so one
is enough; three agreements have one before, at and after a failure. Statements do not
affect each other in `StatementSelection`, so one is enough, and three days hold issue,
cancellation and a run after both; `Runners` are interchangeable, hence the symmetry.
`CHECK_DEADLOCK FALSE` wherever commands end and nothing follows; `feed`
and `mixed_currency` check deadlock, since there a next command may always begin.

Fairness. `UsagePipeline!FairSpec`: a command is a process that keeps running; no step of
its own waits for another command. `Stop` has no fairness. `ChargeAccumulator!FairSpec`:
the platform ends a stream of charges (pages are finite) and the loop goes on.
`EstimatesUploader!FairSpec`: the event loop runs every ready task, and a
PUT is answered or times out (assumed of the API client, which is a library); weak fairness of the
producer is enough although it competes for slots, since only its own tasks take them.
The other specifications state no liveness: in `EstimateFeed` nothing makes an operator
push what went stale, and the model does not pretend so; `StaleIsTraceable` says when he can.

## 4. Proofs

Each for every value of the constants that satisfies the modules' assumptions
(`BillingAssumption`, `JobsAssumption`, `ArgumentsAssumption`, `TrackingAssumption`,
`UploaderAssumption`, `FeedAssumption`, `DeleteAssumption`, `SelectionAssumption`; and, for the
two modules that share `Billing`, `ListedByItsAgreement`), which TLC
evaluates in the runs. The `TypeCorrect` of each module is what the other invariants need to be
inductive. Every invariant that a run checks is proved, and both refinements, but for fairness.

* `UsagePipelineProofs`. `TypeCorrect`; then three properties of the same kind, that a
  command which must not write has not: `FailureBeforeDeleteIsHarmless`, `DryRunIsHarmless`,
  `RunFailsBeforePersisting`. None is inductive by itself: that a dry run has not
  written needs that it is never in a phase that writes, and that needs where
  `AccumulateScope` sends it; that a failing run has written nothing needs that it never
  gets past "accumulating". The inductive invariant `QuietInv` says, for a command
  that was alone, in which phases it may be and that the tables are those of
  `before` as long as its phase is a quiet one; a step of another command either
  writes, and sets `disturbed`, or leaves the tables alone.
* `UsageExactnessProofs`: what exactly the commands leave in the tables, on top of `QuietInv`.
  `OthersLeave` says once that another command's step leaves alone all that a command
  has in hand, and either the tables too or the command knows it was disturbed; so each of the
  following invariants is only shown for the command's own steps. `RunOK`: of a run, each charge
  of a bucket still to come has been added to neither table, of a bucket half done to the first
  only, of the others to both; a stopped run is somewhere in between. `RebuildOK`: which rows of the
  scope are deleted already, which not yet, and how much of the re-fill has come back; its hard case is
  a subscription shared with a failed agreement, whose rows stay and are added to. `OneOK`: the
  same for a single subscription, whose plan is the agreements it was stored under when it
  began. `ScopeOK` and `FailedOK`: nothing deleted or added is another subscription's, or a failed
  agreement's. `CleanOK`: an accumulation without errors leaves out nothing it was asked for (the charges of its
  statements, of its agreements or of its subscriptions), even if other commands write meanwhile. `CoverOK`: plan, cursor, list of work and accumulation
  lie within the selector or the window. These give `RunIsCountedOnce`, `RebuiltExactly`,
  `OneRebuiltExactly`, `TheRestIsKept`, `FailedKeepTheirRows`, `CleanEndHasPushed`, and
  `RowsChangeInScope`. The last one assumes that each subscription is billed under one agreement, as
  the property says; the others do not.
* `ChargeAccumulatorProofs`. The invariant says that the totals are, at each moment
  of the loop, the accumulation of the statements come to so far without the
  agreements failed so far, that `partial` is what of the open statement was read, and how
  rows tell one kind of statement from the other. From it `NeverCountsPartly`,
  `RowsTellTheTotals`, and `ImplementsContractSafely`: the initial states map to
  the contract's, and each step to one of its steps or a stutter.
* `ExecutionTrackingProofs`. The targets of a process are sorted: untouched ones (queued
  or never found), the one underway, and those reported. For each sort the
  invariant says what row, body, cards and `failedIds` may be; an interrupted process
  has its target cut off at some point of it; after a listing that raised all are untouched. From it `RowsAreTrue`,
  `CardsAreTrue`, `ExitIsTrue`, `AllAreTried` and the action property `RowsSettle`.

* `EstimatesUploaderProofs`. The invariant is a conjunction of parts: `LoopOK`, which ids are
  still to come, in the producer's hand, or have a task; `SentOK`, that nothing was sent that
  was refused; `CountsOK`, that the report counts the tasks that ended; and, for
  freshness, `ReadsOK`, that an estimate is of rows no older than the uploader's beginning, `AloneOK`,
  that an uploader nobody overlapped is followed only by ones that began with rows no older, and
  `ShownOK`, that what it has uploaded is then shown. From it `SlotsAccountedFor`, `ReportIsComplete`,
  `RefusedIsNotShown`, `UploadIsFresh`.
* `EstimateFeedProofs`. `StateCorrect` has the types of the tables, the commands, the uploads and the
  ghosts. `RetentionSuffices` rests on `Retained`: whatever was counted and is
  not stored is older than today's cutoff, and no pushing command's anchor is further behind
  today than `MaxMonthsAtWork` allows. A few lemmas put the divisions of the calendar in
  terms of ordinals. `FeedInvariant` is what holds of an upload as it reads month by month, and, `unread` being
  empty by then, while it is sent, is late and is shown. `Picked`: of each month read with charges it has those of one row,
  which by `Retained` is all that was billed of it (`MonthIsRead`). `Complete`: a row not written since the upload
  was begun is in it, or one of another agreement in its place. `Fresh`: unless rows were deleted, what it is of is
  still billed, and a charge it lacks is in a row written since. `Faithful` is the three, `Reading`
  that its command keeps its anchor; no step of any command or clean-up undoes them
  (`FaithfulStays`, `RowsKeepFaithful`). `EstimatesAreBalances` follows from `Picked`, because one of the rows read is of the
  latest month billed (`Newest`), so that `Estimate` is a member of `Balances` (`EstimateIsABalance`);
  `StaleEstimatesAreFound` from `Fresh`. `SweptDaysStayShown` needs `Traced` besides: a row last written on a past day that
  a command is pushing, without a failure so far, is of an id it has still to read, or of an upload
  it has under way, or an estimate begun later was shown (`Pending`); at the command's end only the last is left,
  and an estimate begun on the last such day is `Complete`.
  `TypeCorrect` adds that figures are numbers and not negative, which needs that the fold over a
  finite set of charges is a number at all (`AmountType`). That is an induction over data, without the
  library's induction theorems: there is a table of partial sums for every subset of the charges
  (`PartialSumExists`), because a smallest subset without one (`SmallestSet`, from the well-foundedness of
  strict inclusion) would get one from the subset less a member. The assumption that the charges
  are finite is what these sums need.
* `BucketDeleteProofs`. `PlanOK` says that a recalculate's cursor never leaves the plan, which
  does not change once it deletes; `StreamOK`, for a query's delete, that the rows that are gone are
  those of the agreements listed, but for the cursor's; `RaisedOK`, that
  only a listing raises and that a recalculate's comes before any delete. From these
  `LateMembersStay` and `FailedListingLeavesWhole`. `OutcomeNamesTheScope` and
  `DryRunIsForetelling` rest on `DeleteOK`: what is reported is what is gone, each id once, which holds
  because a subscription met under a second agreement has no rows any more (`ReportOK`);
  what was opened so far lies in the scope, and at the end is all of it (`OpenedOK`); and what was opened
  is gone or is next (`DeletedOK`), or, dry, is foretold (`ForetoldOK`). `Listing` and `OneMore`
  are about the lists of ids; the first needs the tables to be finite.
  `DeletesAsPromised` is the refinement of `DeleteContract`. Other commands may write, so that of the
  invariants above only `PlanOK` and `RaisedOK` help; `HandOK` adds what is in hand in which phase,
  and that an agreement opened and not next has no row. Opening an agreement moves its rows from those
  still to come to those in hand (`OpeningChooses`); a delete takes them out of both
  (`DeletingTakes`); at the end neither holds any (`EndsOweNothing`).
* `StatementSelectionProofs`. `DatesOK` (a status has a date, no later than today), `PassesOK`
  (a pass has returned statements dated in its window, and of those all that had their status
  before the command began) and `WindowsOK` (windows at work share no day with each other or with
  those counted, and a full recalculate is alone) give `OncePerDay` and `NothingSkipped`.

Model-checked only: liveness (`EveryCommandEnds`, `EveryUploaderEnds`, and the fairness of
the accumulation's `ImplementsContract`), which is out of the prover's reach, as ENABLED is.

## 5. Findings

* `rebuild_window`: the docstring of `recalculate` says it selects the scope's statements
  without a date window (`docs/architecture.md` says dates bound it); the code uses the window of `--from-date`/`--till-date`
  while it deletes without one, and rows of other days' statements are lost.
* `rebuild_shared`: the docstring of `delete_planned` says that what is deleted is what is
  rebuilt; the delete is by subscription id alone, and takes rows the
  subscription has under an agreement outside the scope.
* `rebuild_failing`: "the scope's buckets are deleted first, so re-runs do not
  double-count"; where a subscription is billed under two agreements and one
  fails, its rows are kept and the charges of the other one added to them.

* `mixed_currency`: "an estimate summed over more than one currency is never uploaded"
  (docstring of `update_estimates`); the guard knows the currencies of the charges of this
  run, the estimate sums twelve months, and the rows have no currency: a subscription billed in one
  currency in January and in another in December gets a sum over both. Of what a single
  run charges, the guard does refuse a mix.

A subscription under two agreements is a state the keys of the tables provide for.
`RebuildIsExact` and `OnlyScopeWritten` say which of their cases exclude it.

Some of what can go wrong no property denies, because the code does it and no text of the repository
says otherwise: a run over the same window as an earlier one counts again; two commands that share a scope may
spoil each other's counts in it; a statement counts on the day it is issued and on that it is cancelled; an estimate
has one agreement's part of a month that two share; rows deleted and not rebuilt leave their
estimate as it was; a late PUT puts an older one back. `PROJECT.json` notes each at its hazard, with what the properties
confine or allow of it.

## 6. Not modelled

* Prices inside the pipeline: a row is the bag of its charges there, which tells more than
  a sum would. Amounts are in `EstimateFeed`; decimal places and rounding are nowhere.
* `_delete_all`, the dry branches of `delete` and `statement_agreements`: no command calls them.
* A clean-up whose `--date` lies in the future: it prunes what it is told to, and
  `NothingReadIsPruned` does not hold of it. `CleanUp` takes today's month or the last.
* `status`, which reads once and prints.
* Connection options and tokens, settings, observability, the API client and app wiring: no property
  of the tables or the estimates depends on them, but for autocommit, which the
  pipeline's one-statement steps assume.
* The schema migrations, whose keys are the keys of the rows; the two migrations that
  are one full recalculate each, other than as that.
* The wording of reports, cards and logs.

## 7. Plan

Done, in this order: pipeline; accumulation and its contract; uploader; execution
tracking; selection; calendar, estimates and `push-estimates`; the delete in detail; proofs of
every invariant the runs check; the contract of the delete and its refinement. Next:

1. lemmas about `EstimateFeed`'s sums that a change of it would want: that the amount of disjoint
   sets of charges is the sum of their amounts, so that a row may be split;
2. a contract of an upload, of which `EstimatesUploader` and `EstimateFeed` are both refinements;
3. the deletes of `UsagePipeline` as instances of `DeleteContract`.
