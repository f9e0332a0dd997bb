# A verification development for tron-tracker

tron-tracker follows the TRON block chain: it fetches every block, stores its
transactions in a MySQL table per day, recognises which addresses belong to
exchanges and which are *chargers* (deposit addresses of an exchange), derives
daily and weekly statistics, and serves them over HTTP and chat bots.

This directory holds TLA+ models of its stateful parts, TLC configurations that
check them on small instances, and proofs, checked by TLAPS, of the results
that hold for every instance. Paths and line numbers refer to `src/`.

Contents: [the system](#1-the-system), [the hard behaviours](#2-what-is-hard-about-it),
[the modules](#3-the-modules-and-the-code), [the runs](#4-the-runs),
[fairness](#5-fairness), [the proofs](#6-the-proofs),
[disagreements found](#7-where-code-and-comments-disagree),
[what is not modelled](#8-what-is-not-modelled-and-what-is-assumed),
[the plan](#9-plan).

## 1. The system

| Component | State | Operations | Interacts with |
|---|---|---|---|
| **Tracker** `tron/tracker.go` | `quitCh`, a goroutine `loop` | `Start`, `Stop`, `doTrackBlock` | fetches from a full node; calls `SetLastTrackedBlock`, `SaveCharger`, `SaveTransactions`, `updateExchanges`; closes the database at the end |
| **Block cursor and tables** `database/db.go` | `trackingDate`, `lastTrackedBlockNum`; meta rows `tracking_date`, `tracking_start_block_num`; `transactions_<day>` | `SetLastTrackedBlock`, `persistRolloverMeta`, `SaveTransactions`, `resumeBlockNum` in `New`, `Close` | sends the finished day on `statsCh` |
| **Exchange registry** `database/db.go` | map `exchanges` (no lock), table `exchanges` | `updateExchanges` (feed), `AddOrOverrideExchange` (HTTP), `loadExchanges`, `resolveExchangeName`, `IsExchange` | read by `SaveCharger`, by the refresh of the chargers and by the statistics |
| **Charger store** `database/charger_store.go` | `chargers`, `addrBackups`, `confBackups`, `dirty`, `mu`; table `chargers` | `ApplyCharge`, `FlushDirty`, `Refresh`, `Load` | called by the tracker (`SaveCharger`), the flush loop (`refreshChargers`) and `New` |
| **Flush loop** | `flushedDate`, meta `flushed_date` | `flushDailyStats`, `persistDailyStats`, `DoExchangeStatistics` | reads `trackingDate`; writes five kinds of statistics |
| **Count loop** | `countedDate`, `countedWeek`, their meta rows | `countForDate`, `countForWeek` | as above |
| **Market depth loop** | none of its own | `doMarketPairDepthStatistics` | the only reader of `statsCh` |
| **HTTP API** `api/` | `isRepairing` | `add_exchange`, `repair_exchange_statistics`, `count_for_date`, reports (`concentration.go`, `top_stake.go`) | starts jobs in goroutines of their own; reads tables and merges days |
| **Activity monitor** `tron/activity_*.go` | one accumulator in memory per bucket | `ReportIfLarge` | called per transaction; posts to Slack |
| **Statistics arithmetic** `database/models`, `common/sort.go` | none | sums, histograms, merging, selection of the largest | called per row by the loops, per day by the readers |
| **Exchange resources** `DoExchangeResourceStatistics`, `net/net.go` | rows per exchange and day | what the addresses of exchanges have staked and delegated | called by a cron job; asks the full node per address |
| **Market pairs** `database/db.go`, `bot/volume.go` | `market_pair_statistics_<month>`, rules | `DoMarketPairStatistics`, `addRule`, `editRule`, `GetMergedMarketPairStatistics` | cron job, chat, the depth loop |
| **Tables and indexes** `database/db.go`, `cmd/index-backfill` | tables of the schema | `DropStaleStatsTables`, `reconcileTxIndexes` | end of a flush |
| **Bots, slides, net, cmd, config, log** | chat ids, rules | formatting, I/O, cron schedule | call the database |

What makes each of them correct:

* *Block cursor and tables*: a restart neither skips a block with transactions
  nor inserts one again; transactions are on their day; a day that has ended
  does not change any more, so that the jobs that scan it once see all of it; a
  shutdown ends.
* *Charger store*: what is not pending is durable; the two side maps can be
  written into the one column `backup_address` and come back from it; a fake
  mark is not lost.
* *Exchange registry*: one exchange, one spelling, as far as a registry without a lock
  can keep it; a name never drifts to another exchange.
* *Recognition of chargers*: an address is marked fake only for what it did.
* *Daily jobs*: a cursor certifies that its day is written, completely and
  once; a day or a week is processed only when it is over.
* *Statistics and reports*: a figure is what the transactions add up to, whatever
  the registry does meanwhile; two reports of one figure agree; a share is a share.
* *Exchange resources*: a delegation inside an exchange is counted once.
* *Tables*: whoever inserts finds the table; maintenance leaves exactly the window.
* *Activity monitor*: no process lets anybody pass a threshold unnoticed, or reports anything
  twice; what a restart may hide or repeat is bounded.
* *Market pairs*: a daily row is the final average of its day, written once.

## 2. What is hard about it

`PROJECT.json` lists every hazard at its line with the properties that cover
it. In groups:

* **Crashes between two durable steps.** The cursor of the tracker is never
  stored block by block: it is reconstructed from `MAX(height)` of the day's
  table and two meta rows. Chargers are persisted in batches of 200. A flush is a
  dozen statements, each of which may be the last.
* **Failing and unacknowledged writes.** Some callers repeat for ever
  (`SaveTransactions`, the rollover), some give the day up and start it again
  (flush), some keep the entries pending (chargers), some go on as if nothing
  had happened (registry, count loop).
* **Interleaving without locks.** The registry is a plain map used by the
  tracker, the flush loop and HTTP handlers. Whoever adds an exchange resolves its
  spelling, waits for the database and inserts it then, so that two who add addresses
  of one exchange do not see each other's spelling. `SaveCharger` reads it before it
  takes the store's lock, and `Refresh` reads it under that lock. Repair and
  manual count run next to the loops that write the same rows.
* **Stale copies.** The store keeps spellings of exchange names that the
  registry has meanwhile changed.
* **Figures computed by several codes.** A window is merged from days whose pools were
  cut, "Other" is found by subtracting any list of names that a request has, changes are
  computed in place in fields of other meaning, one weekly report has its own copy of the rules
  of another.
* **Memory of durable things.** The tracker remembers which tables it has created
  while the flush drops them; the activity monitor's sums are in memory only, and a block that
  was reported but not saved is reported again after a restart.
* **Waiting in a circle.** The tracker sends to the depth loop without a
  buffer; a shutdown has to wake whoever waits.

## 3. The modules and the code

### ChargerStore, ChargerLedger

`ChargerStore` has the variables of the Go struct: `chargers`, `addrBackups`
and `confBackups` are functions whose domain is the set of keys present,
`dirty` is a set, `table` is the MySQL table (id -> row) with its
auto-increment value `nextId`. The dictionary of names (an index for each
string) is left out: an entry holds the name.

| Action | Code |
|---|---|
| `ApplyCharge` = `ChargeNew`, `ChargeConflict`, `ChargeFirstAddress`, `ChargeSecondAddress`, `ChargeIgnored` | `ApplyCharge`, a disjunct per return |
| `FlushDirty`, `DoFlush` = `SaveOk`, `SaveUnacknowledged`, `SaveFailed` | `doFlushLocked`: one upsert, ids copied back |
| `BeginRefresh`, `RefreshCharger`, `EndRefresh` | `Refresh`: `mu` is held throughout, an iteration is an action because it calls the unlocked registry |
| `Restart` | a kill or an exit, then `Load` (rows in the order of their ids) |

`mu` is held throughout every other method, which is why each is one action.
`RefreshCharger` gets what the registry answered as parameters; in
`ChargerStore` they are arbitrary, in `ChargerPipeline` they are what the
registry says.

`ChargerLedger` is what the store promises ("semantics mirror the old
SaveCharger"): one record per address with a single backup field, a durable copy, a
set of pending addresses. There are no side maps, ids, rows or locks in it.
`ChargerStore` defines the refinement mapping (`View`, `DurableView`).

### ExchangeRegistry

A name is a model value; what the code does to strings is given by three
constants: `Trim` (`TrimExchangeName`), `Class` (two names are `EqualFold` iff
they have one class) and `Upper` (`countUpper`). `Resolutions(name)` is the set of
results that `resolveExchangeName` can have: the first matching entry decides
and the iteration order of a Go map is arbitrary. Every write to the table may
fail unnoticed, as its error is ignored.

| Action | Code |
|---|---|
| `FeedNew`, `FeedKnown` | the loop of `updateExchanges`: an unknown address (resolves its name, `db.go:341`), a known one |
| `AddOrOverride` | the request `add_exchange`: resolves the name (`db.go:401`) |
| `Insert` | the second half of both: the row is written and the map entry set (`db.go:342-343`, `402-418`) |
| `ResolveOnly` | the refresh of the chargers |
| `BeginLoad`, `Normalise` | a restart with `loadExchanges` |

`inserting` holds, per caller, what it has resolved and not inserted yet: the tracker ("feed")
has one at a time, and so has each of the `Handlers`, the requests that run at once. There is no
lock between the halves, so that anything may happen in between. `reloaded` and `overtaken` are
history variables of the properties: a reload has happened; a name has been resolved while
another of its exchange was waiting in `inserting`.

### ChargerPipeline

Composes an instance of the registry and one of the store. `SaveCharger` is
three actions, `ReadReceiver`, `Apply`, `FlushIfManyPending`, because the
registry is read before the lock is taken and `FlushDirty` takes the lock anew;
between them handlers change the registry and the flush loop refreshes. The
registry's hourly update runs in the tracker's goroutine, hence between two
payments, and the next payment waits until it has inserted what it resolved (`InsertExchange`);
a handler's insertion comes at any time. `observed` and `named` are history variables of the properties, `changes`
bounds the number of changes of the registry and restarts.

### BlockTracking, BlockArchive

`pc` is the place of the tracker's goroutine in `loop`, `doTrackBlock`,
`SetLastTrackedBlock`, `persistRolloverMeta` and `SaveTransactions`. A block is
its height; a day's table is, per height, how many times the block's single INSERT
took effect. `depthLoop` says whether the reader of `statsCh` is at its select: it
starts "busy", as it first does the statistics of all the history. The two meta
rows are written in one database transaction. `Stop` may come at any moment,
`Crash` too, and `Restart` is `New` with `resumeBlockNum`.

`BlockArchive` is what the tables promise: blocks with transactions enter them in
the order of height, each on its day, none is left out, moved or removed.

### DailyJobs

A job (flush, count, repair, manual count) is a *script* of statements, each of
which is one action, `Done` or `Error`: scan the day, wipe what a table holds
for it, write it anew, move the cursor. `rows` counts how often each part of each
table is there. `Careful` jobs give up at the first error, the others go on
(`countForDate` only logs). `Restart` reads the cursors and forgets the jobs.
`Due` is the comparison with 24 hours; `EndsWeek` the Saturday that the count
loop waits for. `overlapped` and `unnoticed` are history variables of the properties.

### TransferStats, Statistics, DailyScan

A transaction is a record of the columns that the statistics read; the node's encoding,
ids and hashes are left out. `TransferStats` is the histogram of lengths (`vals[0]` is the
set `marks`, the inserted cells are the sequence `cells`, in the order of lengths), with
`mark`, `Add`, `Merge` and the JSON form. `Statistics` has the sums of one statistic, by
the code's own branches: `FeeStatistic.Add` splits a fee by type, `UserStatistic.Add` tells
small from large transfers, `ExchangeStatistic` adds charges, collections, withdrawals and
activations.

`DailyScan` reads the rows of a day one at a time, each an action, for each of the
program's scans:

| Action | Code |
|---|---|
| `FlushRow`, `FlushPersist` | `flushDailyStats`, `accumulate`, `persistDailyStats` |
| `CountRow` | `countForDate` with `FungibleTokenStatistic.Add` |
| `ExchangeRow`, `ExchangePersist` | `DoExchangeStatistics` |
| `DiffRow` | `DoExchangeStatisticsDiff`, old and new rules side by side |
| `TronLinkRow` | `DoTronLinkWeeklyStatistics` |
| `RegistryChanges` | an exchange or a charger becomes known or changes between two rows |

### StatQueries, Reports

Operators over what `DailyScan` has written: merging over a window of days, the
ranking with cut pools (`Pools` is the set of pools that a `LIMIT` with ties may
give), concentration (`StatQueries`); the handlers of `api/server.go` that compute
(`Reports`): exchange totals, tokens of exchanges with "Other", weekly fees, the changes of
users and tokens, stake boards. `Requests` are the lists of exchanges that are asked for: any
sequences of names, as nothing checks the parameter `exchanges`, with repetitions, "All" and
names of no exchange. A division, a percentage or a format is left out; where a
figure may depend on the order of rows with equal amounts, the operator is the set of the
figures. `GetTokenName` merges names that are not all capital letters under none
(`MixedCase`), as the code does. The transactions of a stake board are the set of their
indices in the rows.

### ExchangeStake

`DoExchangeResourceStatistics`, an address at a time: the calls of the node that list
what it has frozen and delegated, then the amount of each pair, each of which may
fail, or answer a page of errors that is decoded into zeros (`faults`). `snapshot` is the
exchange of each address when the job began, `nameOf` is the registry meanwhile.
Rows are inserted in batches, and a failing batch is logged.

### TableMaintenance

The tables by prefix and day, the two indexes on tables of transactions, and `migrated`,
the memory of created tables. The tracker creates the table of its day and inserts; the
flush drops and creates four tables, with an INSERT each; then `DropStaleStatsTables`
and `reconcileTxIndexes`. Every statement may fail, a listing may fail, `Midnight`
comes at any moment, `RestartTables` forgets the memory. `undisturbed` says whether
something failed or the day changed since the maintenance began.

### ActivityMonitor

`TrackTransaction` is the call in `doTrackBlock`: the detectors in their order (`Detected`),
then `buildAlertIfLarge` (`Single`, `Cumulative`, `NotYet`) with one accumulator per bucket of
an actor and an action. A block that is saved only after retries, and a restart that loses the
accumulators and tracks the block again, are in it. History variables of the properties, which
a restart does not reset: `since` (what has been reported of an actor in one way since the last
alert on him, by this process and those before it), `spanned` (the restarts since that alert),
`alerted` (how many alerts each transaction has entered) and `cuts` (how many times a restart left
each block in the middle). `parts` (the transactions that are in the memory of the process)
goes with the process.

### MarketPairs

Days in short months, with few polls a day. `Fetch` stamps the rows with the day of
the month, `Save` inserts them into the table of the month that it then is (`late`: a
poll that took past midnight); the loop of depths has its history, its
finished days and restarts in the middle of a day's rows; rules are added and edited
from the chat. The figures of a window (prices, volumes, depths, rules that are
broken) are operators over the rows.

### Sums, SetLemmas, and the modules of proofs

`Sums` defines `SumOver(f, S)`, the sum of what a function gives for the elements of a finite
set, in the form the proofs can use. `SetLemmas` are facts about finite sets, sums and
sequences that the modules of proofs share. These are `ChargerStoreProofs`, `RegistryProofs`,
`PipelineProofs`, `TrackerProofs` (about `BlockTracking`, `ActivityMonitor` and `MarketPairs`),
`DailyJobsProofs`, `DailyStatisticsProofs` (about `DailyScan`, `ExchangeStake` and
`TableMaintenance`, and of `Reports` the boards and the report on two sets of rules) and, on top of
it, `ReportProofs` (about `StatQueries` and `Reports`). Each extends the modules it is about, but
`PipelineProofs`, which has instances of the proofs of the pipeline's parts.

## 4. The runs

| Run | Question | Result |
|---|---|---|
| `ChargerStore` | types, ids, side maps, durability, loss of fake marks | holds |
| `ExchangeRegistryReload` | one spelling after a reload | **violated** (finding) |
| `ChargerPipeline` | causes of fake marks, with one spelling per exchange; refinement to the ledger | holds |
| `ChargerRename` | conflicts are with different exchanges, with two spellings | **violated** (finding) |
| `BlockTracking` | resumption, days, refinement to the archive; every block recorded; a shutdown ends | holds |
| `BlockTrackingStop` | a shutdown ends while the database is down | **violated** (finding) |
| `DailyJobs` | cursors certify complete days; no doubled rows; finished days and weeks only; the flush catches up | holds |
| `DailyJobsOverlap` | writing a day is idempotent, with a repair beside it | **violated** (finding) |
| `DailyStatistics` | statistics, queries and reports are exact and agree; resources are counted once; tables are there and retention is exact | holds |
| `Monitors` | names and original names of exchanges, spellings; what alerts may miss or repeat; daily depths are final; figures of markets agree with their rows | holds |
| `RuleEdit` | rules are about known pairs | **violated** (finding) |
| `AveragePrice` | average prices of a window of any length are in the range of its prices | **violated** (finding) |

Bounds, and why they are enough:

* **ChargerStore**: two addresses (a charger and its counterparty, each in
  either role), a malformed one, two names (own and conflicting exchange), at most
  two rows. The initial tables are what older versions may have left: a row with an
  invalid address, a name kept on a genuine row, a fake row without backup, two
  rows of one address. `LoseAcks = TRUE`, so that saves may be reported failed.
  Addresses and names are symmetric.
* **ChargerPipeline**: a payer, two receivers, two exchanges, three changes of
  the registry or restarts: enough for two receivers to become exchanges and one to
  be renamed. `FlushLimit` is 1 instead of 200, which makes flushes more frequent; the
  daily flush at the end of a refresh covers the case of few pending entries. The ledger
  treats addresses independently, so that one that charges is enough, as the proof
  shows for any number. One request of `add_exchange` runs beside the tracker's update, so that
  two insertions may overtake each other. The view `WithoutRegistryHistory` leaves `reloaded`
  and `overtaken` out of a state: no action and no property of this run reads them. The two
  receivers are symmetric, and so are the two names, each the only spelling of its exchange.
* **BlockTracking**: eight blocks over four days. The first day ends with an empty
  block, the second begins with one, the third has only empty ones, the fourth begins
  with two full ones: these are the cases in which `MAX(height)` and the day's
  first block disagree. `LoseAcks = TRUE`, and `MaxCopies` bounds the unacknowledged
  repetitions of an INSERT.
* **DailyJobs**: three days of which two come to be flushed, weeks of two days, two
  parts for the tables created per day and for the exchange rows, so that a job
  can fail between two of them, and one for the others; repairs and
  manual counts are asked for the second day, the one that ends a week and that
  both loops come to. The jobs run in the pairs that write the same rows
  (`Scopes`): flush with repair, count with manual count; and the flush runs by
  itself, with a day without a table and with answers that are lost. Jobs of different
  pairs share only the exchange table, where the flush deletes what the count
  wrote (a hazard without a property, see there). `MaxCopies = 2` is enough to see a
  doubled row.
* **DailyStatistics**: three parts that share nothing, each by itself. *Scans*: three
  addresses, two exchanges, two initial wirings of who is an exchange and whose
  charger, and one change of them during a scan. Rows are taken from a palette per
  scan, of transfers small and large, to oneself, by allowance, failed, with memo and
  several signatures, inside contracts, of tokens with and without a valid name, stakes and
  delegations. A count and the boards read one day of up to three rows; the others read two
  days of one and two rows, so that a window merges two days and begins before the
  first table. Six lists of exchanges are requested: one and two different names, a name twice,
  "All" with a name and twice, and a name of no exchange among two others. `PoolFactor` and `PoolFloor` are 1 instead of 10 and 1000, so that a pool of two
  is already cut. *Resources*: three accounts of two exchanges, up to three delegations, one
  renaming, batches of two. *Tables*: two days, a window and a year of one day each, any
  statement failing, one restart after the other.
* **Monitors**: four parts that share nothing, each by itself. *Registry*: two addresses, which
  share an exchange or belong to two, one exchange with two spellings, and an original name that
  is trimmed to one of them; the tracker and one request add exchanges, which is enough for one
  to overtake the other; addresses are symmetric (the theorems hold for any number of addresses
  and requests; the run `ExchangeRegistryReload` takes three addresses). The view
  `WithOneHistory` does not tell `reloaded` from `overtaken`, as the properties do not. *Activity*: every chain of two blocks, the first with up
  to two and the second with up to one of eight entries, threshold 3 (a sum passes it in two or three steps, or at once), one restart.
  *Markets*: two pairs of which one gives the price, two polls a day at most two in all, months of
  two days so that a poll's rows can land in the next month. *Rules*: two rules, one limit. Windows of
  figures have one or two days. For prices the length matters: the loop of the averages is right
  for two days and wrong for three, which `AveragePrice` shows with windows of up to three.

Properties worth a comment:

* `CleanIsDurable` is the central one of the store: for every entry outside the
  pending set, `Load` would rebuild exactly what memory holds, side map by side map.
* `IdsAreLastRows` is why it survives lost acknowledgements: of several rows
  of an address memory points to the one that a load keeps.
* `FakeIsSticky` states precisely what can take a fake mark away: a renaming without a
  backup (intended), or a crash before the mark was persisted (a limit of batching).
* `NoHole` and `NothingBeyondResume` are evaluated in *every* state: they say
  what `New` would do if the process died there.
* `FlushedComplete` is about the *stored* cursor and holds between any two
  statements. It excepts the exchange statistics of days that are repaired, as
  a failing repair deletes them, and the scopes with lost answers (`Lossy`): if the
  update of `flushed_date` took effect but was reported failed, the loop rewrites
  the day and a crash in the middle leaves a certified day incomplete.
* `RowsOnce` names its exceptions through the history variables: doubled rows need two
  overlapping jobs or an ignored failure. `OnlyFinishedDays` is about days and weeks.
* `RulesKeepTransfers` and `ExchangeRowsAddUp` hold although the registry changes during
  the scan, because a row is classified once and added to both sides of the sum.
* `SharesOfTotal` states what is true of the cut pools: never too large, and exact when
  nothing was cut. That the pools lose only addresses below every day's cut is not true.
* `StakeCountedOnce` excepts pages of errors that are taken for empty answers (`faults`).
* `OneSpelling` names the two things that make two spellings of one exchange: a reload (finding 1)
  and an insertion that is overtaken. Without the second premise TLC finds them in five states: the
  feed resolves Kucoin for one address, a handler KuCoin for another before the first is in the
  map, and both insert what they have. `NameMatchesOrigin` needs neither premise.
* `NoMissedAlarm` is about all processes together: after n restarts the sum that was reported
  without an alert is at most n + 1 times what is below the threshold. It is not below the
  threshold itself: with threshold 3, a stake of 2, a restart and a stake of 2 raise no alert. What
  passes while a process catches up (`isCatching`) is never reported and not counted.
* `AlertsEarned` allows a second alert of a transaction for each restart in the middle of its
  block, and no other: the block is not saved, so that the new process tracks it again.
* `ExchangeReportsAgree` says what "Other" is for any list: what the exchanges not in the list
  have, less what the list repeats (`Again`).
* `ChangesAddUp` says of the changes of number in `topUserTokenChange` what they do add up to:
  those of new payers are the transfers they received.
* `RetentionExact` is about a maintenance without failures; what an earlier one left
  undone must be made up, so that it starts from any set of tables and indexes.
* `DailyRowsFinal` excepts days with a poll that took past midnight, whose rows the
  average cannot know.
* `FiguresConsistent` claims the range of average prices for windows of up to two days only;
  all its other parts are proved of windows of any length (`DailyDepthsSampled`, `VolumesAddUp` ...).

Every property of a passing run has a mutant in `PROJECT.json`: a definition of
the model changed as a plausible bug would, under which TLC finds the property
violated. The mutated forms stand next to the definitions ("Mutant of ...").

## 5. Fairness

* `BlockTracking!RunningSpec`: the goroutines of the tracker, of `Close` and of the
  depth loop keep running and someone starts the process again (weak fairness). Calls may
  fail for ever. `BlockTrackingStop` uses it.
* `BlockTracking!FairSpec` adds that a call repeated for ever does not fail for
  ever (strong fairness of the successful outcome of a fetch, of the rollover's
  transaction and of the INSERT). Without it no system could make progress; it is
  what the retry loops of the code are written for. `Stop` and `Crash` have no
  fairness: they need not happen. `EveryBlockRecorded` assumes in its statement
  that they stop happening.
* `DailyJobs!FairSpec`: the flush loop's goroutine keeps running. `FlushCatchesUp`
  assumes in its statement that errors and restarts end.

The safety properties of these two modules are checked in the same runs; fairness
excludes no finite behaviour. The other modules have safety properties only.

## 6. The proofs

`tlapm` checks all of them with SMT (Z3), Zenon and, for the temporal steps,
LS4. They hold for every value of the constants that satisfies the named
assumptions in the modules.

**ChargerStoreProofs** - assumptions `AddrAssumption` (addresses are finitely
many; addresses, names and the empty string are different), `BoundAssumption`,
`TablesAssumption` (the initial table has rows 1..n of the right type; nothing is
assumed of their contents). The inductive invariant `Inv` is the conjunction of
`TypeOK`, `IdsAreLastRows`, `SideMapsExclusive`, `GenuineHasNoConflict`,
`PersistedIsKnown` and `CleanIsDurable`, none of which is inductive without the
others. Exclusiveness is needed because the table has one backup column;
`GenuineHasNoConflict` because a name on a genuine row is dropped by `Load`, so
that without it a clean genuine entry with a conflict would not survive;
`IdsAreLastRows` because a save overwrites the row that the id names, which must
be the one that a load keeps; `PersistedIsKnown` because a new entry has no id and
would otherwise hide a row. A theorem for each: `TypeCorrect`, `IdsOfLastRows`,
`BackupsExclusive`, `GenuineWithoutConflict`, `NoRowForgotten`, `CleanSurvivesCrash`.
The hard step is the save (`WrittenRows`, `SaveOkIsCorrect`,
`SaveUnacknowledgedIsCorrect`): the rows written get the greatest ids of their
addresses, and the rows of other addresses do not change.

In the same module, `FakeMarksStick` is the action property `FakeIsSticky`,
action by action from `Inv` (the restart needs `CleanIsDurable`).
`NobodyInsertedTwice` is `OneRowPerAddress`, under `~LoseAcks` and for initial tables
that have one row per address. It adds to `Inv` that an entry without an id has no
row: without lost acknowledgements, only an insert that is known creates rows.

Last, `StoreImplementsLedger`: `Spec => Ledger!Spec`, the mapping being that one
record per address stands for the entry and its two side maps, and the last row of the
address for its durable record. One lemma per action shows which ledger step it is, or that it is a stutter
(an ignored charge, a failed save, the beginning of a refresh). It uses `Inv`.

**TrackerProofs** is about the tracker and the two monitors that follow it.

*Blocks* - assumptions `ChainAssumption` (days do not decrease with
height, the first block is at least 1) and `WritesAssumption`. The inductive
invariant `TrackingInv` is `TypeOK /\ RowsOK /\ MetaOK /\ ProcessOK`: rows are on their day and
have no hole below the resume point; the meta rows bracket the recorded blocks;
and at each `pc` the cursor in memory agrees with what is stored. Only the last
connects the process to the disk: it is what makes the next INSERT the next block of
the archive. Results: `TypeCorrect`, `ResumeLeavesNoHole`,
`ResumeRepeatsNothing`, `RoutedToTheirDay`, `SavedOnce` (under `~LoseAcks`),
`PastIsFrozen` and `TrackingImplementsArchive`.

*Activity* - assumptions `ThresholdAssumption` and `ChainsAssumption` (whoever stakes signs for
himself, so that a stake has an owner). The invariant `ActivityInv` is `PlaceOK` with six parts:
the map holds what was added (`MapOK`, `PastOK`); it is exactly what this process has reported and
not alerted, and what the processes before it have forgotten is below the threshold each
(`Accounted`); what has accumulated is made of transactions that the tracker has been through,
each in its own bucket (`PartsOK`); what is still to come has entered one alert for each time that
its block was cut (`AlertedOK`, which a restart keeps, because it adds a cut to just the block
whose transactions come again); and the figures of the alert (`AlertOK`). Each kind of transaction
(alert at once, alert of a sum, not yet) and the restart keep it by a lemma of their own.
`NobodyPassesUnnoticed` and `AlertsAreEarned` hold for any chain of blocks, any thresholds and any
number of restarts.

*Market pairs* - assumptions `MarketAssumption` (pairs are finitely many, a month has days, midnight
is among the slots), `SlotAssumption` (no poll has the time of a daily row) and, for the
figures, `QuoteAssumption` (what is polled is never negative). `MarketInv` is `LoopOK`
(what the loop of depths is given to do is of days that are over), `FetchedOK` (a poll that waits to
be saved is stamped with a day that has come), `TableOK` (the daily rows have the right form, are there
once, and hold the averages of their day's samples if none of these is late) and `LeftOK` (a row
that the loop has still to create is not in the table, and will be right if it is created). Rows
that are saved after a daily row was made either are late or carry no sample of its day, because a
month and a day in it determine the day; so the averages stay what they were. `DailyRowsStayFinal`.

For the figures of a window `FiguresInv` adds that a poll's rows that are saved in time are of
a poll that has begun (`PollsReached`), once for each pair (`PollsOnce`; for this what waits to be saved has to be
of a poll without rows, `IsFresh`), and that every daily row, written or still to be written, lies
between two samples of its day and pair (`Backed`): an average of natural numbers
does (`AverageBetween`), and rows are never deleted. Then a sum of depths is at most the number
of days, or of polls, times its greatest sample, as the rows of a pair go one to one into
days, or into polls. The loop of average prices is a function that is defined by itself; that there is
one is shown from its end backwards (`FromExists`). `FiguresAreConsistent`.

**DailyJobsProofs** - assumptions `DaysAssumption` (the weeks do not decrease with the days; a
repair can be asked for any day) and `TablesAssumption` (every table has at least one part). The
inductive invariant `Inv` has nine parts. `TypeOK`, `CursorsOK` (no cursor reaches the day that
is being tracked, and the loops work on the day after their cursor) and `WeekOK` (as long as no
update of a cursor was lost unnoticed, the week that is due is not ahead of the days) place the
jobs. `FlushFills` says what a flush in the
middle of its script has already written of its day, by its position in the script: without it
nothing is known when the cursor is finally moved. `RivalsMet` (two jobs that write the same
rows of a day have been noticed as overlapping), `RoomAhead` (a part that a job has still to
write is empty) and `NothingTwice` make the INSERTs safe. The last two are
`FlushedComplete` and `OnlyFinishedDays`. The argument: lemmas about the scripts say which statement
is at which position; `Effect` reduces a step of a job to one row and the job's new position;
then each part has one lemma for the steps of jobs and a few for the actions that begin a job, for
the new day and for the restart. Results: `CertifiedDaysComplete`, `RowsNotDoubled`,
`FinishedDaysOnly`. The attempt corrected the model: it deleted the exchange rows of a day one
by one, while the code has a single DELETE, and the run had tables of one row only, so that TLC
could not tell.

**RegistryProofs** - assumption `NamesAssumption` (trimming maps names to names, every
name has a class and a number of capital letters; nothing is assumed of how they are
related). The lemma `Resolved` says what `resolveExchangeName` may do with any order of
the map: it returns a spelling of the same exchange, replaces names by better spellings only,
and keeps one spelling where there is one. The inductive invariant `RegistryInv` adds
to the two properties the types, that nothing is being normalised before the first
reload, and `WaitingOK`: a name that waits to be inserted denotes the exchange of its original,
and, as long as nothing was loaded anew or overtaken, it fits the map and no other name of
its exchange waits. The last is why the premise on `overtaken` is the only one that the missing
lock costs: whoever resolves such a name in between sets it. `NameMatchesOrigin` is needed for
the action property, because a handler that adds a known address again may change its name.
Any number of requests may be under way. Results: `NamesFollowOrigins`,
`ExchangesHaveOneSpelling`, `SpellingsImprove`; and `StoredOrigins` (resolving never changes
an original name in the table), for the next module.

**PipelineProofs** - assumptions `PipelineAssumption` and `PartsAssumption` (what the store and the
registry assume of the constants they share). It takes the theorems of ChargerStoreProofs and
RegistryProofs through instances; since the pipeline has instances of the parts of its own, the
lemmas `Same...` first show that the definitions agree. `Base` adds to the invariants
of the parts that the call in progress holds what was observed when it read the registry
(`CallOK`) and that every exchange an address has, or would have after a restart, is on
record (`NamedOK`). From it, every step of the pipeline is a step of each part, or none, and
`PipelineImplementsLedger` follows without any hypothesis on names.

`ChargerStaysWithExchange` (`ChargerOfExchangeMet`) needs `TrimSettles`: trimming a trimmed name
leads to no other exchange. The code relies on it, for `Refresh` trims the names of chargers
again (`charger_store.go:397`), but `TrimExchangeName` does not give it: from `Foo 12 Hot` it makes
`Foo 12`, as a number is only cut off at the end, and from that `Foo`. A charger of an exchange with
such a name is moved by the next refresh. `MetInv` says of every entry, every address backup
and every row that the payer has met it: rows, because a restart takes the entries from them.
`MarksAreCaused` (`FakeHasCause`) and `ConflictsAreGenuine` (`ConflictIsDifferentExchange`)
need in addition `OneSpellingEach`: no two trimmed names are spellings of one exchange. Without it
they are false, as the run `ChargerRename` shows, because the store compares names exactly.
`CauseInv` says that marked entries and rows have a cause and that conflicting names are those
of other exchanges. Lemmas about the effect of a charge, an iteration of the refresh, a
flush and a restart carry both invariants through the steps.

**DailyStatisticsProofs** has five sections.

*Scans* - assumptions `ScanAssumption` (the days are sequences of transactions of the right type)
and `FeeAssumption` (a fee is made of its parts as the network makes it: without this the
categories of a statistic need not add up). `CountInv`: the users counted so far are exactly those of
the rows read, bucket by bucket; `UniqueUsersAreExact`. `ExchangeInv`: in every figure of every flow
the entry of an exchange without a token is the sum of its entries by token, whatever the registry
answers between two rows; `ExchangeRowsStayExact`. `FlushInv`: what is sent of a token is what is
received of it, and the categories of fees add up; `NothingIsLost`. A row read changes one
entry of a map, or a few one after the other, and `SumOfChanged` says what this does to a sum
over the map.

*Two sets of rules* - assumption `ScanAssumption`. `DiffInv`, with the rows read so far
(`ReadSoFar`): what each of the two maps holds over all exchanges, in numbers and in fees, is what its rules
count of these rows (`HoldsInAll`, by `MapRaised` for one row more), and the map of the old rules
has, exchange by exchange and flow by flow, what `exchangesStatisticNow` makes of the same rows
(`Alike`, `NowShowsOld`). The registry stays the same during this scan in the model. The rules are compared row by
row: with the same registry `ClassesAgree` on everything that is not small, whatever flow
and exchange it is moved to, and the rows counted by the new ones only are the small ones (`SmallAreMore`). The
differences of the report are taken over the exchanges that differ; those that do not have none
(`DeltasAreAll`). `RulesAreKept`.

*Boards* - no assumption but `ScanAssumption`. Grouped by owner, the amounts of a board add up to
the amounts of all its transactions (`ScoresAddUp`), and those left at zero are exactly the
ones of other types (`BoardSums`). `TopOfTops`: if something of the first type is missing in the
board although it is larger than an entry of it, all n of that type's largest would be in the board as
well, which makes n + 1. `BoardsAreExact`.

*Stake* - assumption `StakeAssumption`. `StakeInv` is `ChainOK` (what
is true on the chain has its types), `PhaseOK` (where the scan is, and that the addresses to be asked
for are in the snapshot), `PairsOK` (what has been asked for and what is pending are together what the
address delegates within its exchange, unless a page of errors was taken for an answer) and `RowsOK`
(an address that is done has one row at most, which says what it is to say, or less as calls or
inserts have failed). To get from rows to
`StakeCountedOnce` the rows of an exchange are indexed by their addresses, and each pair within
the exchange is counted at the end that delegates.

*Tables* - assumption `TablesAssumption` (the bounds are natural numbers, the
windows have at least a day, the first day is not after the last). `CreationInv`: what the process
remembers as created is there, the tracker remembers the table of its day before it
works on it, the flush the one that it inserts into; the flush is behind the tracker, so that neither
drops what the other writes. `RetentionInv`, for a maintenance that nothing disturbs: its
cutoffs are of today (`CutoffsOK`), of the prefixes gone through no old table is left
(`StaleGone`), the indexes on methods that are left are still listed (`MethodGone`), a table that is
not listed any more has its index on amounts exactly when it is in the window (`AmountOK`), and what
was written is there (`WrittenOK`). Each part has a lemma with a step per action. Results:
`NoInsertIntoMissing`, `RetentionIsExact`.

**ReportProofs** extends it and has four.

*Windows* - assumptions `ScanAssumption`, `RowAssumption` (rows are as `trackBlock` makes them: one
with a name has both addresses or none, `tracker.go:166`) and `PoolAssumption` (`n` of the pools is a
number). `WindowsMerge` (`WindowIsOneScan`) needs no invariant of steps beyond those of the
scans; it is about what the maps *are*. `CacheOf` says it of the maps of a scan: each
entry is a statistic whose figures are sums and whose histograms are numbers of rows, over the rows
that are paired with the entry's key (`MapOf`, with a set of pairs <<key, row>> for the sending
and the receiving end). One lemma (`CacheWith`) takes a row read from one `CacheOf` to the
next. A fold is taken apart by `FoldIsChain`: it is the last value of a sequence of values, and
`AllNumbers` replaces the induction along it. `MapsBoth` says that merging
two such maps is `MapOf` of the pairs of both, if they share no row: sums add up (`FigureSums`), and the
histograms, which are packed sequences, merge into one of all lengths (`MergedHolds`). From there the
days' tables, merged, and the scan of all rows in one day are the same `MapOf` (`MergedWindow`,
`OneDayIs`, `WindowMaps`), and `TransferSummary` of one address agrees with the entry
(`SummaryAgrees`).

*Changes* - in addition `ReportAssumption` (TRX is no TRC10 token, USDT is neither). With `WindowMaps`
a merged window is a `MapOf` again, also one that is shorter than asked for or empty, as at the
first table (`SpanWindow`), so that the entries of a window add up to the transactions of its days
(`EntriesAddUp`). A change is a difference of two such maps over the keys of both:
`SumOfChanges` takes it apart into the sums of either window, whoever is new, has stayed or has
gone (`ChangeOfWindows`). Payers are the entries with a fee; those that are left out have none to
add. The changes of number are taken apart by who has paid when, with another figure for each
part: the number sent for who has stayed or gone, the number received for who is new
(`NumberShown`, `NumbersAddUp`). The groups of tokens are `MapThenFoldSet`s in an order that nothing is known of: the fold
over a set of statistics is their sum for each order. `TopUsers` merges parts of the days' maps:
a part's figures are no greater (`CutWindow`, `PartsAreLess`). `ChangesAreExact`.

*Rankings* - what `SharesOfTotal` says of the pools. A pool is some `IsTop` of the day's
entries; there is one (`TopExists`: of finitely many numbers the n largest exist, by induction
over n as a set of numbers). The pools merged are parts of the window's map, so
that a candidate's figure is no greater than what the address has, and the sum over the
candidates no greater than the rows of its side (`PartIsNoMore`), which is the total that shares are
taken of (`DayTotalIs`, `TransferTotalIs`). If no pool was cut the candidates are the window's map
itself (`UncutIsExact`). `SharesAreShares`.

*Exchanges* - in addition `ReportNamesAssumption`: no exchange is called "All" or "total_fee", no
token "Special" (`db.go:1126`, `server.go:703` and `db.go:1132` use these as keys and to leave rows
out; a namesake would be mixed up with a total), an exchange that the registry names is one, and
the requests are lists of any names ("Nobody" stands for those of no exchange).
`FitInv`, beside `ExchangeInv`: the rows of every table are of exchanges, and a flow without
transactions has no fee (`StatFit`), so that the analysis, which leaves out what has no
transactions, leaves out no fee. A figure of a map of statistics is a sum over the map (`FigSum`), and
every merge of the reports adds these sums: of two days (`MapsMerge`, `NamesMerge`), of the tokens of
one name (`MergedAll`, `ByNameAdds`), of all exchanges (`AllNamesAdd`). `Both` says of the window's
two maps - by exchange, and by exchange and name - that they hold the same; it is
true of a day (`DayIsBoth`) and kept by a day more (`BothMerge`), hence true of a window
(`WindowIsBoth`). The four parts of the property follow from it: `AnalysisAgrees`, `UnnamedHaveNoFees`,
`FeesAgree` and `OthersAgree`. For the last, the places of a list are divided into those that name an
exchange for the first time, one for each exchange in the list (`NamesOnce`), those of no
exchange, which have nothing, and the others (`Again`): what is listed is what the exchanges of the
list have and what the list repeats (`AskedAndRest`). `ReportsOfExchangesAgree`.

**SetLemmas** is how the proofs do without induction over data. Sets of integers have least and
greatest elements (`LeastElement`, and from it `AllNumbers`, induction for a set of
numbers instead of a formula). A sum of natural numbers over a finite set is the number of tokens, as
many of each element as its amount says; what the library knows of cardinalities then gives
that sums are natural, grow with the set, and may be grouped (`SumOfSums`), changed at one place
(`SumOfChanged`) and re-indexed. A flattened sequence of sequences is a sequence (`FlattenType`).

**Proved, without a run of their own**: `PersistedIsKnown`, `OneRowPerAddress`, `RightDay` and
`RecordedOnce`; the two that need writes whose errors mean that nothing was written
(`~LoseAcks`) could not share a run with lost answers. The refinement of the store by itself,
`StoreImplementsLedger`, for any calls, is checked by TLC only as the pipeline makes them.

**Only model-checked**: liveness (`EveryBlockRecorded`, `StopReturns`,
`FlushCatchesUp`; the prover has no rules for fairness and `ENABLED` that would
do). Every safety invariant that a run checks has a theorem.

## 7. Where code and comments disagree

1. **Two spellings after a reload** (`ExchangeRegistryReload`). The loop of
   `loadExchanges` resolves each name against a map that contains the entry
   itself; depending on the iteration order nothing is unified.
2. **Fake for paying into its own exchange** (`ChargerRename`). The
   store compares spellings, and after a renaming its own is stale until the next
   daily refresh.
3. **A shutdown that hangs** (`BlockTrackingStop`). The retry of the rollover
   waits for the database's quit channel, which is closed only after the retry
   has ended.
4. **Doubled exchange statistics** (`DailyJobsOverlap`). Delete and create are
   separate statements; a repair of the day that is being flushed interleaves
   with them.

5. **A rule that nobody added** (`RuleEdit`). `GetMarketPairRuleByID` waits for an
   error that gorm's `Find` does not report; editing an unknown number inserts a rule of
   no pair.

6. **An average below every price** (`AveragePrice`). `getAvgOpenOrClosePriceByTokenDateDays`
   shortens its loop by a day, and not only its divisor, for each day without a price: priced days
   at the end are not looked at, and what was added is divided by more days than were added. Of
   three days of which only the first has a price the "average" is half of it. The slides ask for
   seven days, and place the average between the lowest and the highest price (`updater.go:818`).

Smaller ones without a run, which the models follow:

* Two names of one exchange that are resolved at the same time, by the feed and by a request of
  `add_exchange`, are both inserted as they are (`db.go:341-343`, `401-418`): two spellings without a
  reload, although `resolveExchangeName` is there "to preserve meaningful casing" of one form.
* "Other" of `exchange_token_statistics` is negative, or at least too small, for a list that
  repeats a name or has "All" beside others (`server.go:385-411`): nothing checks the list.
* `tx_change` of an address that is new among the payers of a token is the number of transfers it
  has received, as `topUserTokenChange` sets the other field only (`server.go:1347-1354`, `1387`).
* A restart of the activity monitor forgets what has accumulated, and a block that was reported
  but not saved is reported again: two stakes below the threshold may pass it together
  unnoticed, and one large stake may be alerted twice (`tracker.go:252-253`, `309`).
* The comment of `flushDailyStats` says that a missing table "still writes empty stat
  tables" (`db.go:2744-2745`), its body returns without writing any.
* The pools of a ranking are said to lose only "an address that stays below the daily
  cutoff every single day" (`db.go:756-760`); one that is below it on some days is counted
  with the others only. `SharesOfTotal` says what does hold.
* `GetTokenName` compares capital letters: the configured tokens sTRX, stUSDT and wstUSDT
  are merged under the empty name, and cannot be asked for.
* Daily rows, which have no volume, are counted by the rules of pairs as polls with a
  broken volume.
* The totals of `exchangesStatistic` leave out the fees of activations, which the rows have.
* Tables `token_stats_` are never dropped as stale (`db.go:3015`).
* A repeated run of the exchange resources adds its rows to those of the day.
* Pages of errors of the full node are decoded into zeros.

## 8. What is not modelled, and what is assumed

* Translation of blocks into transactions, filters, and reports of the tracker's status: no state
  that the properties depend on (`isCatching` is in `ActivityMonitor`, the only part that it
  concerns). The alert filters are not registered in `cmd/main.go`.
* What a statistic holds beyond 64 bits: amounts are below 10^9 in the models.
* In `DailyJobs` a statistic is there or not; what it holds is in `DailyScan`, and the
  maintenance at the end of a flush in `TableMaintenance`. `FlushedComplete` is about days
  of the last year, as older statistics are dropped.
* The first start of the charger store from the file `all`, the command
  `index-backfill`, `cmd/backfill` and `cmd/token`: they run by hand or once, on a database
  that nobody else uses.
* The weekly CSV files and `countForWeek`'s filter of wallets; slides and charts
  (`google/updater.go`), the texts of the bots and of Slack, the layout of answers:
  formatting and I/O without state of their own.
* Configuration, logging and cron: the jobs of the schedule run independently of each other.
* Data races of the Go memory model on the registry's map and on words such as
  `lastTrackedBlockNum`: the interleavings of iterations are modelled, the
  runtime's fatal error is a crash.
* `Migrator().HasTable` is external and assumed to answer truthfully. (gorm reports
  a failed query as a missing table; the flush would then skip a day.)
* An INSERT of many rows, and the transaction of the rollover, are atomic, as
  in InnoDB. (Rows of market pairs are inserted one by one, and so are they in the model.)
* The server numbers the rows of one INSERT consecutively and in order.
* Integers are unbounded: heights, days and ids stay far below 2^31. The store
  ends the process by itself at 2^32 ids and 2^16 names. The sum of an accumulator would
  overflow only with thresholds above 4.6 * 10^12 tokens.

## 9. Plan

Done, in this order: `ChargerStore` with `ChargerLedger` and their proofs;
`ExchangeRegistry`; `ChargerPipeline`; `BlockTracking` with `BlockArchive` and proofs;
`DailyJobs`; the statistics (`TransferStats`, `Statistics`, `DailyScan`, `StatQueries`,
`Reports`); `ExchangeStake`; `TableMaintenance` with proofs; `ActivityMonitor` with proofs;
`MarketPairs`; the proofs of the registry, of the pipeline, of the daily jobs, of the scans, the
boards and the stake of the daily statistics, and of the market pairs; of windows, changes,
rankings, the two sets of rules and the reports of exchanges; of the figures of market pairs.

What would come next:

1. The composition of the tracker with the charger store: which charges of a block are
   applied twice or lost when the block is tracked again after a crash, as chargers are
   flushed on another schedule than blocks.
2. The first start: `loadExchanges` from the feed, the charger store from its file.
3. The weekly jobs: the filter of wallets in `countForWeek`, the files of TronLink.
