# Verification of topchicken-labeler

TLA+ models of the Top Chicken labeler, the TLC configurations that check them
on small instances, and TLAPS proofs, for every instance, of the safety properties
that these runs find to hold. The models are translated from the source; paths below are relative to the repository, and
`PROJECT.json` names the source lines of every definition.

Contents: [the system](#the-system), [the hazards](#what-is-hard-to-test),
[the modules](#the-modules), [the runs](#the-runs),
[fairness](#fairness), [the proofs](#the-proofs),
[where code and documents disagree](#where-code-and-documents-disagree),
[what is not modelled](#what-is-not-modelled), [the plan](#the-plan).

## The system

Two bots on Bluesky announce once a day whose post got the most likes, the
"top chicken". This repository turns the announcements into labels. One
container runs two processes (`entrypoint.sh`): a **label server** in Go
(`vendor-labeler/`) that stores, signs and serves labels, and a **poller** in
Python (`poller.py`, `starterpack.py`) that decides which labels there should be
and POSTs them to the server.

| Part | Source | State | Operations |
|---|---|---|---|
| Write path | `server/server.go` (AddLabel), `server/core_logic.go` (writeLabel), `simpleapi/api.go` | table `log` in SQLite or PostgreSQL; the configured label values; locals of each call | AddLabel: check, transaction in at most 5 attempts, wake the streams |
| Subscription streams | `server/subscribe.go` | per connection: wake channel, `lastKey`, position in a replay | connect with or without a cursor, replay, wait, send batches, close |
| Queries | `server/query.go`, `LabelEntries` | none of its own | scan the table from the newest row, apply negations |
| Start-up and migration | `server/server.go` (NewWithConfig, ImportEntries), `server/migration.go` | new and old database | compare last keys, import in batches, `setval` |
| Clone | `cmd/clone/main.go` | messages received so far | subscribe from 0, import after 5 s of silence |
| Crown mirror | `poller.py` (build_state, reconcile) | none between cycles | read all announcements, POST every badge again |
| Eligible sweep | `poller.py` (eligible_sweep) | state file; `last_crowning_ts` | read pool, profiles, feeds; negate, assert, heal; save |
| Starter pack | `starterpack.py` | records on a PDS | find or make a list, add members, find or make the pack |
| List labeler | `cmd/list-labeler/main.go` | a label server of its own, lists on the network | compare list and labels, add and negate |
| Label definitions | `account/labeldefs.go`, `config/config.go`, `cmd/labeler/main.go` | the service record of the account; the values the server allows | read, compare, swap |
| PLC record | `account/plc.go`, `cmd/update-plc` | the DID document | read, sign, submit, by hand |

How they meet:

* The poller calls the label server through HTTP (`simpleapi`), one label per
  POST. It never asks what labels there are: all it knows about the past is in
  the announcements and in the state file. Everything it wants, it posts again
  and again; the server ignores what has no effect. So the server's **"ignore
  values that have no effect"** is what keeps the log short, and
  the poller's correctness rests on every POST being idempotent.
* Handlers of the server run concurrently. They meet in the database (in a
  transaction each) and in nothing else.
* After its commit, a call starts a goroutine that fills the wake channels of
  the streams. Streams read the table in transactions of their own.
* The poller waits at most 30 seconds for an answer; a handler whose answer
  nobody waits for any more still finishes its transaction.
* A server that starts opens (and perhaps migrates) its database, publishes its
  label values, and only then listens. Whatever fails on the way ends the
  process, and the container starts everything again.
* A subscriber keeps the last number it got, and comes back with it. The numbers
  have to survive everything: crashes, migration, clones.

What makes each part correct:

* **Write path**: a call takes effect at once or not at all; what it answers is
  true; no row has no effect; committed rows stay, at ascending numbers.
* **Streams**: no gap in what a subscriber has, over any number of connections;
  every entry arrives while the connection stays up; a cursor the server gave
  out stays valid.
* **Whole server**: a subscriber that has caught up shows the labels that a query
  would serve.
* **Queries**: exactly the labels in force, whatever is in the table.
* **Migration**: a server that serves has the whole old log; new numbers are
  above the old ones.
* **Crown mirror**: the derived state is what happened; a clean cycle leaves one
  badge on each crowned account, the right one; no account is bare in between.
* **Poller and server**: a cycle that was answered leaves the right badges, what
  late handlers spoil is repaired, and a badge that is right is not written again.
* **Starter pack**: one list, one pack, every member once; the pack is not made
  before its list is complete; every alumnus gets into it.
* **List labeler**: labels only move towards the list; a finished update leaves
  the members of the list, and an entry it cannot negate, but no other.
* **Definitions**: the values a listening server allows are the declared ones; an
  edit of the record that a start has not read is not overwritten by it.
* **Sweep**: a clean sweep leaves the label on the posts that are to be judged and
  takes it off those that are not; nothing is lost track of; what cannot be read
  is left alone.

## What is hard to test

The tests of the repository run one call after the other. The behaviours they do
not reach are listed with their lines in `PROJECT.json` under "hazards":

* **interleaving** of handlers in writeLabel (two calls read the last entry, both
  write), and of commits with the registration, the replay and the wait of a
  stream;
* **retries** that reuse `newLabel` with the number an earlier attempt left in it,
  and a PostgreSQL commit whose acknowledgement is lost;
* **crashes** between two statements, between two batches of an import, between
  the POSTs of a cycle and the state file;
* **lost answers** of POSTs and of createRecord: done, but reported as failed, or
  done only later, behind the requests that follow;
* **writes that break off** in the middle of an update, a sync or a start, and
  the next run that has to go on from there;
* **edits of others** between a read and a write of the service record, and of a
  list while its difference is written;
* **partial reads** in the sweep: a feed or a profile that cannot be read must not
  look like one that has nothing to show;
* **boundaries**: a cursor of 2^63 and more, a cursor that is the last number, a
  result of exactly one batch, the last batch of an import, as many likes as
  the record, two crownings of one account.

## The modules

Lowest first. A module EXTENDS the ones it is built on; `MC*` modules only give
values to constants.

### SeqNumbers, LabelLog: the table

`SeqNumbers` has sequence numbers and `Top`, the greatest of a set (0 if
empty), which is what `ORDER BY seq DESC LIMIT 1` leaves in a variable.
`LabelLog` has the table: a function from the numbers in use to entries (source,
value, subject, cid, expiry, negation). It may have gaps. `SameKey`,
`LatestMatch` and `IsNoOp` are the two queries and the test of writeLabel.
Creation time, version and signature are left out: nothing depends on them.

### LabelStore: what AddLabel promises

The abstract specification: each call takes effect at one instant between call
and return, either as the next row or, if it would change nothing, not at all;
an error means that it had no effect; a crash keeps the log.

### WriteLabel: what the code does

One action per statement, because handlers interleave between statements.

| Action | Code |
|---|---|
| AddLabelRefused, AddLabel | server.go AddLabel up to writeLabel: value allowed, source filled in |
| ReadLastKey | the first SELECT of the transaction |
| ReadMatch, ReadMatchNoOp | the SELECT of the last match, and the return without effect |
| Create, CreateConflicts | the INSERT; a row that names its key may hit one that exists |
| CountConcurrent, CountConcurrentFails | the count of rows written since, and the rollback it causes |
| Commit | COMMIT, the return of AddLabel and the wake-up goroutine |
| CommitUnacknowledged | PostgreSQL commits, the answer is lost, the loop goes on |
| TxError | a statement fails without effect (busy timeout, connection, I/O) |
| Crash | the process dies; it may start with another configuration |

`newSeq` is `newLabel.Seq`, declared outside the loop: gorm sets it in the INSERT
and a retry inserts at this explicit number. `CanReserve` and `CanCommit` are
the SQLite locks of a deferred transaction (SHARED from the first SELECT, RESERVED
from the INSERT, COMMIT waits for the readers). They are a model of SQLite, as
the code relies on it, and marked external in the map; which statements run
inside the transaction (`HoldsShared`) is the code's. PostgreSQL writers wait only
for an uncommitted row with their key; its sequence gives out numbers at the INSERT and does not take them back.

`ImplementsStore` is the refinement to LabelStore: the call is in effect at
COMMIT, or at the SELECT that shows there is nothing to do.

### Subscribe: the streams

One action is one query, the sends of the rows it has read (`batch`), one wake-up,
or one change of the connection, so commits and wake-ups fall between a query and
its sends too.
`cursor`, `got` and `base` belong to the subscriber: what it would send as its
cursor, what it has, and from where on it was promised everything. `Disconnect`
lets any first part of the batch on its way arrive. `Int64` is the conversion
of the cursor parameter, with a width of four bits in the runs. `InOrder` says
whether rows appear in the order of their numbers: TRUE for SQLite.

### Labeler: both together

The streams over the table of WriteLabel, which the module extends
(`LabelerSpec` is its specification): the rows and `wakes` are shared, Subscribe
comes by INSTANCE, and the stream's `lastKey` is called `sentKey`. A subscriber applies what it gets in the
order it gets it (`view`). `ImplementsSubscribe` shows that the table gives
Subscribe what it assumes; `SubscriberAgrees` is the end-to-end property.
`LabelerAssumption` is what Subscribe assumes of its constants, in the terms of
the whole.

### QueryLabels, ListLabeler: the readers, and a program that lives on them

`QueryLabels` has the table and its readers. `DedupeAndNegateEntries` is what the
backward loop of core_logic.go keeps of a set of rows (`Decided` is its map
"skip" when it comes to a row); `Query` and `LabelEntries` are the two ways to
call it.

`ListLabeler` is cmd/list-labeler. `Compare` is one call of LabelEntries and one
of getList, and the two differences; `AddTo` and `RemoveFrom` are one AddLabel
each, in any order, as Go walks maps; `Refused` and `WriteFails` (with the row
or without it) end the update of the label, `CompareFails` skips it, `Crash` ends the process. The process is the
only writer of its table, so AddLabel is one step. While it is down other
programs may leave rows of another source or with a cid (`Elsewhere`), in any
place, so the readers see gaps and redundant entries; the lists move at any time
(`Move`), and each start may have another configuration.

### EligibleSweep

One action reads everything (`Fetch`), one is one POST, one is the save. The
sweep reads the world once, so the world moves between sweeps only. A POST that
fails may have been done. Accounts are read or not in every combination: below
the limit, feed unreadable, follower count unknown, or out. `hidden` posts are
those a feed does not show. `forgot` and `clean` are history variables for
the properties: whether a crash or a lost file ever came in between, and whether
anything failed in this sweep. A failing pool request leaves everything as it is
and is not an action. The last crowning may be withdrawn (`Withdraw`), so the
cutoff may move back.

### Crownings, CrownMirror

`Crownings` is `build_state` as a function on a set of announcements: sorted as
Python sorts tuples, deduplicated by day, account and likes, and searched for the record. The two loops
are functions of the number of rounds (`Deduping`, `Records`).
`sorted` raises when it must compare a quoted post with None (`Sortable`), which
ends the cycle. `CrownMirror` has the world (a crowning a day, announced by one or
both bots, with or without the post; an announcement may be deleted), the cycle
POST by POST, failures and crashes. `Announced` are the crownings that the
feeds still name: the properties speak of those, and of the accounts that were
crowned but are no longer named, `Forgotten`, only CleanCycleIsExact knows, to
leave them out.
`Others` removes one badge from the list at its `Position`: the filter of poller.py, in a
form that the prover can expand.

### PollerServer: the poller and the server it posts to

CrownMirror takes a POST for one step, and WriteLabel takes its requests from
anywhere. Here reconcile sends the POSTs of one account, one at a time, to the
handlers of WriteLabel, which the module extends (`PollerSpec` is its
specification), and they run them statement by statement on SQLite. Two badges
stand for the three of ACCOUNT_LABELS: one that is right and one that is not
(`PollerServerAssumption`, which the run's module states as an ASSUME).
`SendPost` is add_label, `Answer` its return. `Timeout` is the end of add_label's
30 seconds: the cycle goes on, the handler (`abandoned`) goes on too, because the
transaction does not have the context of the request. `Handle` is the next
statement of a handler, or SQLITE_BUSY when its lock is taken; `StatementFails`
is an error by chance.

### StarterPack

The repository of the labeler's account has three collections; a record's place
in its collection stands for its URI. A sync is one action per request. `Fail`
is a request without effect (or a crash), `LoseAnswer` one with its effect but
no answer, `GiveUp` and `Land` one that takes effect after the client gave up.
`overtaken` is a history variable: the collections that got a record
from such a request after a later sync had listed them.

### Handover, LabelDefs, Startup: the start of a server

`Handover`: a new database gets the log of an old one, by migration from bolt or
SQLite at start-up, or by `cmd/clone`. One action is one statement that changes
the database. `padding` are the empty entries a bolt database may end with.
Once served, AddLabel is one step, which is what WriteLabel shows for SQLite;
for PostgreSQL the step tries the numbers its attempts would get from the
sequence.

`LabelDefs`: the values the server allows (`SetAllowedLabels`, with
UpdateLabelValues of the configuration), and UpdateLabelDefs: `GetRecord`
compares, `PutRecord` swaps the record it has read. The record has policies, the
other fields that `bsky.LabelerService` of the pinned indigo knows (`fields`), and
those that it does not (`extras`). The code has the record in that struct between
the read and the write, so `Put` writes the policies of the configuration and
carries over the known fields; the unknown ones are gone. `PutUnanswered` is a put whose
answer is lost. `Edit` is anyone else with access to the account. A configuration
without a password or definitions publishes nothing. `touched` is a history
variable.

`Startup` puts them in the order of runMain: nothing is declared before
NewWithConfig returns, and nothing is written before the listeners are up; an
error of LabelDefs ends the process that Handover has opened the database for.

### The `*_proofs` modules

`Subscribe_proofs`, `Startup_proofs`, `EligibleSweep_proofs`, `StarterPack_proofs`
and `CrownMirror_proofs` each hold the theorems about the component they are named
after. `ListLabeler_proofs` also has those of QueryLabels, on which the list
labeler lives, and `Labeler_proofs` has three parts over one table: the write
path, the streams on top of it, and the poller that posts to it.
`SeqNumbers_proofs` has the lemmas about `Top` that all who read the last row
rest on. See [the proofs](#the-proofs).

## The runs

| Run | Shows | Bounds |
|---|---|---|
| write_sqlite | AddLabel implements LabelStore; no redundant rows; what was read stays true; append only; calls return | 2 writers, 4 labels, 3 attempts, 3 rows, two configurations |
| write_postgres | no row is ever overwritten, "created" is always true | 2 writers, 3 labels, 2 attempts, 3 numbers |
| subscribe | no gap, nothing missed by a waiting stream, cursors stay valid, entries arrive | 1 client, every cursor of four bits, 5 rows, batches of 2 |
| labeler_sqlite | a caught-up subscriber shows the labels in force; the table behaves as Subscribe assumes | 2 writers, 1 client, 3 labels, 2 attempts, 3 rows |
| list_labeler | queries serve the labels in force; updates move labels towards the list only and leave exactly the list; members get the label | 2 accounts, 1 list, 2 rows from elsewhere, 2 moves, 1 failure or crash, two configurations |
| sweep | a clean sweep is exact; nothing is stranded without a crash; flaky accounts keep their labels | 2 accounts, 2 posts, times 0..4 |
| crown_mirror | the derived state is what happened; a clean cycle is exact; no account is bare in between | 2 accounts, 1 post, 2 like counts, three days, 1 deletion |
| poller_server | an answered cycle is exact, right badges are not written again, badges settle | 1 account, 2 badges, 2 handlers, 2 attempts, 1 move of the crown, 3 faults |
| startup | a migrated server has the whole log; writes work and new rows are last once the sequence is set; a listening server allows what is declared; no start overwrites an edit it has not read | logs of keys 1..4 with gaps and padding, batches of 2, three configurations, 2 edits |
| starter_pack | syncs go on where one broke off: one list, one pack, each member once; the pack comes last and shows every alumnus | 2 accounts, 3 failures, 4 list items, listings of at most 2 |
| subscribe_rewind | a stream that starts at the last entry replays the whole log | *violation* |
| sweep_heal | a crash before the save strands a label below the heal window | *violation* |

Why the bounds are enough for what they are to show:

* **Writers.** Two are enough for two calls to meet in every pair of
  statements; three rows are enough for an assertion, a negation and an
  assertion again, each raced. The labels of write_sqlite differ in one part of
  the key (the cid), in the expiry and in the negation, so all branches of the
  no-effect test are taken. Calls do not start when the bound on numbers could be
  passed (`RoomLeft`); a call that has started is never cut off.
* **Attempts.** The code has five. Three distinguish first, middle and last.
* **Streams.** Five rows and batches of two: a short batch, a full batch with
  and without more rows, and two full batches. Streams share only the table and
  the wake-ups, which do not depend on other streams, so one client is
  representative. Cursors 8..15 are the negative ones.
* **List labeler.** Two rows from elsewhere make a gap, a redundant entry and a
  label the update cannot negate; two moves make an account join and leave while
  an update runs; one failure falls between any two steps, and the updates after
  it show what it left.
* **Sweep.** The delays 1, 3 and 2 stand for 12, 36 and 24 hours (one unit is
  half a day), and time 4
  lets a post leave the window and the heal window.
* **Crown mirror.** Three days: a crown that moves away and comes back, a record
  that is equalled and broken, and a deletion of any of the announcements.
* **Poller and server.** Two badges: one to assert and one to negate. Three
  faults: a timeout for each POST of a cycle, and a failure or a crash besides.
  `MaxSeq` is above what the run can write, so the bound never holds a call up. With
  two handlers, a third POST waits while both are at work for POSTs given up.
* **Start.** Four keys in batches of two: nothing, a part of a batch, one batch
  and two. `MaxSeq` is above all of them. Two edits: one before the read and one
  between read and put. The configurations drop, list and define a value.
* **Starter pack.** A listing of two records is passed by the third member
  record, which duplicates of two accounts reach; three failures are one for each
  of the records that one sync makes at first. One createRecord at a time is late.

Deadlock is checked in all runs.

## Fairness

* `WriteLabel!FairSpec`: every statement a writer has started comes back, with a
  result or an error (weak fairness of `Statement(w)`, of which TxError is a
  part). SQLite's busy timeout and connection errors justify it. It is not
  assumed that a statement ever succeeds, so `CallsReturn` rests on the attempt
  counter.
* `Subscribe!FairSpec`: the Go scheduler runs goroutines that can run: wake-ups,
  and a stream's next step. Nothing makes clients connect, commits
  happen or connections break.
* `ListLabeler!FairSpec`: the container starts the process, the ticker fires, and
  the steps of an update are taken (weak fairness of `Update`). Failures and
  crashes are bounded by `MaxFailures`, so `MembersGetTheLabel` is what happens
  once they end.
* `PollerServer!PollerFairSpec`: the loop of main goes on (`Poll`), and each handler's
  statements come back (`Handle(h)`), with SQLITE_BUSY where a lock is taken.
  Timeouts, errors by chance and crashes are bounded by `MaxFaults`; nothing makes
  the crown rest but `MaxMoves`, which is what `BadgesSettle` is about.
* `StarterPack!FairSpec`: the poller calls sync in each of its cycles, and a request
  is answered or times out (`SyncStep`).
* Sweep, CrownMirror and Startup have safety properties only: nothing says
  that a cycle without a failure ever comes, or that a start succeeds; that is why
  their properties are about what a clean cycle and a completed start leave.

## The proofs

Each `*_proofs` module proves about its component for every value of the
constants: any number of writers, clients, accounts and posts, any bound. What it
rests on besides the definitions are the named ASSUMEs of the modules (requests
are labels, at least one attempt, batches are not empty, and so on; TLC evaluates
them in each run) and, where it says so, one of three conditions:

* `Engine = "sqlite"`: the model of SQLite's locks, under which transactions
  commit one after the other. The deployment uses it; the properties it is needed
  for do not hold on PostgreSQL (see below).
* `InOrder`: entries appear in the order of their numbers. Labeler proves that
  SQLite gives this to the streams.
* `PollerServerAssumption`: what PollerServer assumes of its constants, above all
  the two badges and that no configuration allows one without the other.
  TLC evaluates it in the run poller_server.

| Module | Theorem | States | Under |
|---|---|---|---|
| Labeler_proofs | TypeCorrect (WriteLabel) | `[]TypeOK` | |
| | NothingRedundant, SnapshotsValid, OnlyAppends | `[]NoRedundantEntries`, `[]SnapshotsStayValid`, `AppendOnly` | SQLite |
| | CallsAreAtomic | `ImplementsStore`: the refinement of LabelStore | SQLite |
| | RowsStay, CreatedMeansWritten | `NothingRewritten`, `CreatedIsWritten` | |
| | RunsTheStreams | `ImplementsSubscribe`: the refinement of Subscribe | SQLite |
| | SubscribersAgree | `[]SubscriberAgrees` | SQLite |
| | AnsweredCyclesAreExact, RepeatedPostsWriteNothing | `[]AnsweredCycleIsExact`, `UnchangedIsNotWritten` | SQLite, PollerServerAssumption |
| Subscribe_proofs | TypeCorrect, CursorsAreValid | `[]TypeOK`, `[]ReceivedCursorIsValid` | |
| | SubscribersHaveNoGap, NoWakeUpIsLost | `[]NoGap`, `[]WaitingIsCaughtUp` | InOrder |
| Startup_proofs | ServesWholeLog, WritesOnlyFailUnset, NewRowsComeLast | `[]ServedLogIsWhole`, `[]WritesWork`, `NewRowsAreLast` | |
| | AllowsWhatIsPublished, UnreadEditsAreKept | `[]AllowedIsPublished`, `UnreadEditsKept` | |
| EligibleSweep_proofs | TypeCorrect, NoLabelIsStranded, CleanSweepsAreExact | `[]TypeOK`, `[]NothingStranded`, `[]CleanSweepIsExact` | |
| | FlakyAccountsKeepLabels | `FlakyAccountKeepsLabels` | |
| StarterPack_proofs | TypeCorrect, SyncsAreIdempotent | `[]TypeOK`, `[]OneOfEach` | |
| | PacksComeLast, FinishedSyncsAreComplete | `[]PackComesLast`, `[]FinishedSyncIsComplete` | |
| CrownMirror_proofs | TypeCorrect, DerivesWhatHappened | `[]TypeOK`, `[]StateMatchesHistory` | |
| | AccountsKeepABadge, CleanCyclesAreExact | `KeepsABadge`, `[]CleanCycleIsExact` | |
| | CleanCyclesMirrorState | a clean cycle leaves the badges of `state`, on all accounts in it | |
| ListLabeler_proofs | QueriesServeLabelsInForce | `[]QueryServesLabelsInForce` | |
| | UpdatesAreExact, UpdatesMoveTowardsTheList | `[]UpdateIsExact`, `MovesTowardsTheList` | |

The invariants are seldom inductive. Each module proves one that is, which mostly stands
in the module of the component, by its side, and which TLC has checked too.

**WriteLabel, `SerialInv` (SQLite).** NoRedundantEntries alone is not inductive: a
writer at "commit" with an arbitrary entry would break it. The strengthening says
why the row about to be committed is neither redundant nor misplaced:

* what a transaction has read is still true (`SnapshotsStayValid`): the last
  number, that the label has an effect, and that its row is the next;
* at most one writer has inserted a row (RESERVED);
* rows are numbered without gaps, so "next" is one more than their number;
* the number that a failed attempt left in `newLabel` is at most the next one, so
  a retry either inserts there or conflicts.

Only COMMIT writes the log (`OnlyCommitWrites`), and COMMIT waits until no other
transaction has read: that keeps the snapshots of the others valid trivially and
is the heart of `CommitSerial`. All other statements leave the log alone
(`StatementSerial`). `NextRow` says what adding the row after the last does to
`LatestMatch`, and the lemmas of `SeqNumbers_proofs` say that `Top` of a finite
set of numbers exists and is unique. The refinement needs no more than this
invariant: `StatementImplements` shows that COMMIT is LabelStore's write, because
the snapshot is valid then, that the SELECT without effect is its no-op, and that
every other statement is a stutter.

**WriteLabel, `UniqueInv` (PostgreSQL).** Transactions interleave freely, so the
argument is about numbers only: the sequence is ahead of every number in use, no two
calls hold the same number, and a call that has inserted its row holds one that no
committed row has. The last part fails for a call that *retries* after a lost
acknowledgement, and the INSERT's conflict is what keeps it from its own row.

**Subscribe, `StreamInv` (InOrder).** NoGap speaks of what has arrived; what makes
it inductive is what is on the way. The client has everything up to `lastKey`, and
up to `floor` while the table is read (`HasUpTo`); the rows of a batch follow on
from `floor` without a gap, and a batch that is not full misses only rows whose
wake-up is still to come (`BatchFollows`), so a stream may wait after it. The prefix
that a broken connection lets through is gapless for the same reason.

**Labeler, `LabelerInv` (SQLite).** `RoomKept` and the writers' invariant make
each COMMIT a step of CommitEntry, at the next number and within the bound; every
other step of a writer is a stutter, so the streams' theorems hold in the whole.
`SubscriberAgrees` needs more than NoGap: after a rewind a subscriber *has*
everything while its view is that of an older prefix. `ViewOK` follows the
position, not the set: the view is what comes of the rows 1 to the last one
received, applied in order, and a stream always goes on from this row or from
the start (`ApplyRows` covers both). The writers' lemmas are at hand, since Labeler
extends WriteLabel; the streams come by INSTANCE, `SP` is the same instance with
its theorems, and `SameStreamInv` and `SameStreamSteps` say so, definition by
definition.

**PollerServer, `PollInv` (SQLite).** Every step is a step of WriteLabel or leaves
its state alone (`PollerStepIsNext`), so `SerialInv` holds and every row is
written with a valid snapshot. On top of it, `CyclePosted` says who works on what:
a handler that is not idle has the POST sent last, or was abandoned.
`CycleSettled` says what has been achieved: in a cycle with no abandoned handler,
the POSTs that were answered are *settled*, that is, posting them again would have
no effect. A row about the other badge leaves that as it is
(`OthersStaySettled`), and the handler's own row settles its own POST
(`RowSettles`). `CarriedFacts` ties this to what is seen from outside: a badge is
carried exactly if asserting it has no effect, which needs that there are no
redundant rows; so both theorems come from one invariant. It also shows
why `UnchangedIsNotWritten` has to except the abandoned: only for the POST sent
last is it known whether it has an effect.

**ListLabeler, `UpdateInv`.** The table is any set of numbered entries here, so the
proofs speak of rows "in force" as a function of the table (`Lasting`) and compare
it before and after a write. `NoOpFacts`: a label that is ignored is in force, or
is not, as it says, in a table with gaps and redundant rows too. `NewRowFacts`: a row after
the last one takes every row of its key out of force, comes into force unless it
is a negation, and leaves other keys alone. `PostedFacts` puts them together for
what the list labeler posts. The scan itself is taken apart by `OrderedFacts` (the
rows in the order of their numbers, each once: their places grow with them and are
as many as the rows, so no place is left out), `KeptFacts` (an entry
passes if it is the last of its key among the *selected* rows and no negation)
and `AnswerFacts`: a query selects by subject and source, both parts of the key, so
a row and the negation of it are selected together or not at all.

**Handover and Startup, `HandoverInv` and `DeclaringInv`.** What is copied is the
old log up to some row, `copied` with what is still to import is the whole of it,
and no new row exists before all of it does: so a last key that agrees means a
whole copy. Once the sequence is set it is ahead of every row. `DeclaringInv` says
that a process past SetAllowedLabels allows the values of its configuration.
The proofs are about Startup, whose steps are steps of one part or of neither.

**EligibleSweep, `SweepInv`.** Where the poller keeps track of a label moves in the
course of a sweep: from the file to `desired`, `failed` and `todo`, and back
(`TracksLabels`). `CleanSoFar` is what each of the three loops has achieved. An account
that could not be read has no post in the loops that negate.

**StarterPack, `SyncInv`.** What a sync is about to create was not there when it
listed the collection, and still is not (`Unseen`), because only a late
createRecord could have changed that, and then it has overtaken the listing. The
same is said of the late request itself (`IsNew`). The proof showed that
OneOfEach can say more than it did: items stay single also when there are
two lists.

**CrownMirror, `WorldInv`.** `StateMatchesHistory` is about what build_state makes of
any announcements that the world can have left: one crowning a day, each
announcement a copy of the crowning of its day at a later time (`HistoryOK`,
`FeedOK`). The sort is a rank, and `SortedFacts` says that it enumerates the feed in
order. Loops are recursive functions, so the proofs first show that they exist
(`LoopExists`) and then reason round by round: `DedupedFacts` (of the announcements of one crowning
the first is kept, and only it), `RecordFacts` (the record is the first of the greatest).
Where a loop calls for an induction, its statement is a set of rounds, and
either all of `0 .. n` is in it or there is a first round that is not (`UpTo`).
`BuildIsTrue` puts this together with the days: announcements are of one crowning
exactly if they are of one day.

**CrownMirror, `MirrorInv`.** For the account in work: the queue starts with its
assertion or has it behind it, then the wanted badge is there unless its POST failed,
and what is left of other badges is still to be negated. So `KeepsABadge` and
`CleanCyclesMirrorState` hold for any `state`; with DerivesWhatHappened, a clean
cycle is exact. `Reached` adds that no account without a crowning is ever touched.

What stays with TLC is **liveness** (`CallsReturn`, `Delivered`,
`MembersGetTheLabel`, `BadgesSettle`, `AlumniReachPack`): fairness and ENABLED are
out of the prover's reach. The two runs that end in a counterexample have no
theorem, of course. Every other property of a run is the statement of a theorem.

## Where code and documents disagree

Two runs end in a counterexample, each against a statement of the repository:

* `subscribe_rewind`. The stress test counts a message at or below the cursor as
  a rollback. A subscriber whose cursor is the last number gets no row in the
  replay, `lastKey` stays 0 (subscribe.go:87) and its first wake-up sends the
  whole log. Nothing is lost (`NoGap`, `SubscriberAgrees` hold) but everything is
  sent again.
* `sweep_heal`. The plan of 2026-07-07 says that a stranded label is caught
  "regardless of state-file integrity". After a crash before the save and a
  cutoff that moves past the heal window it is not.

Four more statements that the models contradict, without a run of their own:

* server.go:399 says that label negations are always allowed; AddLabel
  (server.go:328, `Permitted`) refuses every value the configuration lacks,
  negations included. A label whose value has left the configuration stays in
  force. In ListLabeler this makes an update of that list fail at its first
  write, every time.
* vendor-labeler/README.md:56-57 says that cmd/clone makes a copy with the same
  numbers. It takes five seconds of silence for the end (cmd/clone/main.go:71-78):
  a pause of the source makes the copy end early, without an error, and its next
  labels take numbers that subscribers have seen for others (`Handover!Clone`
  imports any first part of the log).
* README.md:39 says that each account carries exactly one account-level label, the
  current holder top-chicken, and poller.py:9 calls that label "single; moved by
  negation". When an announcement is deleted, its account leaves the set of alumni
  and keeps its badge (`Forgotten`); with the next crowning two accounts carry
  top-chicken. `CleanCycleIsExact` excepts these accounts.
* starterpack.py:98 calls sync idempotent. It is for what has happened when it
  lists the records; `OneOfEach` and `FinishedSyncIsComplete` say what they except.
  A createRecord that takes effect after that makes a second list. From then on
  new members go to the newest list while the pack shows the older one, for ever.
  A list of more than 5000 items (`Cap`, 50 pages of 100) is added to in each cycle.

Behaviour the models have that no document speaks about, or that the deployment
(SQLite) does not meet:

* On PostgreSQL at the default isolation, transactions do not see one another;
  the count in writeLabel catches rows committed since, not those committed
  after it. So two calls can both write one label: redundant rows, which queries
  and subscribers stand (`QueryServesLabelsInForce` holds on any table). Nor do rows become visible in the order of
  their numbers, and a stream does not go back for a lower one; NoGap fails with
  InOrder = FALSE. A commit whose answer is lost starts no wake-up; the next
  write's does.
* A carried-over post is asserted even when the cutoff has passed it, against
  the premise of the heal window at poller.py:75. A clean sweep that can read the
  account takes the label down.
* A bolt database that ends with padding migrates once; every later start finds
  the old log longer than the new one and refuses (`StartRefused`).
* Migration into SQLite queries the table before anything creates it, so it needs
  a file that already has it. `setval` with 0 fails when there was nothing to
  import. A crash between the import and `setval`, or a clone into PostgreSQL,
  leaves the sequence at the start: calls fail until it has counted past the rows, or
  take free numbers below them. `WritesWork` and `NewRowsAreLast` name this case
  and except it.
* A cursor of 2^63 and more turns negative and counts as no cursor. `NoGap` takes
  what such a client is owed from the same decision, so it says nothing about it.
* UpdateLabelDefs decodes the service record into a struct and encodes it again
  (labeldefs.go:53-70): fields that the struct does not know are dropped whenever
  the policies are updated. `UnreadEditsKept` promises the known ones only.
* CrownMirror's `KeepsABadge` is about POSTs that take effect before the next one
  is sent. A negation that add_label gave up after 30 seconds may take effect
  after a later cycle has asserted that badge: the account is without it until
  the cycle after (PollerServer; `BadgesSettle` says that it comes back).
* `list-labeler` calls its update loop in place of starting it (main.go:74) and
  never serves. It negates labels of its own source without a cid only: an
  account that has left the list but carries an imported label of another source
  is negated in vain. AddLabel ignores that negation, so the table does not grow.
* The tool for the PLC record reads the record, asks for a signature and submits
  what it read with its changes; a change that someone else makes in between is
  undone.

## What is not modelled

* **PLC record**: an operator runs `cmd/update-plc` once, by hand, with a token
  from an e-mail. It has no state, no retry and no second actor in this
  repository.
* **Container supervision**: two processes, and an exit with the first that ends;
  its effect, a restart, is the Crash of the modules.
* **Signing, metrics, logging, dump, stress test**: pure functions and output.
* **The poller's loop over its three tasks**: mirror, starter pack and sweep share no
  state but the labels, and an error of one does not reach the others (each has
  its own `try`); what the sweep takes from the mirror, the time of the last
  crowning, is in EligibleSweep.
* **Rows of another log in the new database**: Handover starts with an empty one. The
  code compares last numbers only (server.go:236, "we don't check if the labels in
  SQLite are actually the same"), so a new database that holds unrelated rows up to
  a number at least as great is taken for migrated, and the old log is not served.
* **A putRecord that takes effect after the process that sent it has ended**: LabelDefs
  has a put with and without its answer, not one that is late.
* **Inside modelled parts**: JSON, CBOR and frame encoding, keep-alive pings, HTTP
  status codes, the regular expression and facets of announcements, paging and
  the XRPC retries behind a read (a read works or does not), the key encoding of
  bolt, the creation time of labels. Expiry is compared, never acted upon: the
  server does not drop an expired label either.

## The plan

Modelled: everything above except what is listed as not modelled. Proved: every
safety property of the passing runs; see [the proofs](#the-proofs).

Worth doing next, should the code move there: PollerServer with all three badges
and several accounts (its invariant is written for one account and one other
badge); and the poller's loop with its three tasks over one label server.

## Running

    tlc -config WriteLabel_sqlite.cfg MCWriteLabel
    tlapm Labeler_proofs.tla         # and the other *_proofs modules

`PROJECT.json` lists every run with its module, configuration and properties,
and for each property a change of the code's model that breaks it.
