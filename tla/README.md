# A TLA+ model of dk-sighter

dk-sighter watches lists of Tron and BNB-chain addresses. It scans both chains
block by block, records transfers of watched addresses and tells of them, keeps
their balances in MySQL, repairs ranges of blocks it skipped, and offers a web
dashboard from which addresses are activated, given energy and gas, and
collected from with an HD wallet. This directory holds TLA+ models of the parts
where goroutines, processes and database rows meet, the TLC instances that check
them, and machine-checked proofs of the main results.

## 1. The system

| component | state it keeps | operations | talks to | module |
|---|---|---|---|---|
| Tron main scanner (`internal/service/scanner.go`) | row of `sync_state` under its key; locals of `scan()` | start, skip to latest, scan block, save cursor, refresh latest | Tron node, `tron_sync_gaps`, balance service | `TronSync` |
| Tron backups (`tron_backup_sync.go`, `tron_grpc_backup_sync.go`, two commands) | own `sync_state` row; status of gap rows | align on start, pick the next gap, reset the cursor, scan, take over from a stale main scanner, step back | the main scanner's row, gap rows | `TronSync` |
| BSC scanner and backups (`bsc_scanner.go`, `cmd/bsc-backup-block-sync`) | `sync_state`, `sync_gaps` with owner, `deferredRefresh` | the same with claims, confirmations, deferred refresh | BSC node, balance rows | `BscSync` |
| Tron transfer records (`scanBlock` and its handlers in the three Tron scanners, `repository.go`) | transfer tables; the block's channel and workers | load the block, look up both ends, insert, notify, ask for a refresh | address cache, notifiers, balance service | `TransferRecords` |
| Tron balance rows (`balance_service.go`) | `asset_balances` (balance, block number), one pending slot per address | Flush after a block, immediate refresh loop, full refresh | node, scanner, dashboard | `BalanceRows` |
| BSC balance rows (`bsc_scanner.go`, `bsc_repository.go`) | `bsc_asset_balances`, one pending slot per address | deferred, immediate, full refresh | the same | `BscBalances` |
| scheduled and manual full refresh (`hourly_balance_refresh.go`, `scheduled_refresh_state.go`, `web/server.go`) | two trackers, a flag and a start time per chain | wake-up, start, finish, request | balance rows | `FullRefresh` |
| address caches (`address_cache.go`, `bsc_address_cache.go`, handlers in `web/`) | `watch_addresses` rows; a map behind a lock | first load, tick, reload by a handler, add, delete | scanners, dashboard | `WatchCache` |
| notifiers (`callback_notifier.go`, `telegram_notifier.go`) | marks of the last ten minutes, a queue | look and mark, put, send, run out | scanners | `Notifiers` |
| Tron activator (`tron_activator.go`), the command, energy orders (`web/server.go`, `infrastructure/`) | job map, channel, worker | pay at once, enqueue, process, look up, order | dashboard, Tron node, providers | `TronActions`, `HourRules` |
| gas transfers (`web/bsc.go`, `bsc/client.go`, two commands) | batch slot and job statuses, the lock around the account's nonce | send one, start a batch, run it, time out | BSC node, dashboard | `GasTopups` |
| HD wallet (`internal/hdwallet`) | one background job, mnemonics by tag, wallet rows | save, derive, preview, sweep | nodes, activator, gas transfers | `WalletJobs` |
| supervisor (`app.go`), named lock (`named_lock.go`) | restart delay; a MySQL lock | restart after panic or error; refuse a second process | all | (what they allow) |

`PROJECT.json` lists these and the parts that are not worth modelling
(configuration, templates, key derivation, one-shot scripts).

**What is hard.** Four kinds of behaviour. (a) Several processes share
`sync_state` and the gap tables without transactions, and each may die between
any two statements. (b) Several writers read something (a balance from a node,
the watched addresses from a table) and store it later, not in the order they
read. (c) Two sides look at each other's state before they change their own:
both kinds of full refresh, the request and the worker of an activation. (d) A
payment is sent and its answer lost. Every place where one of these bites is
listed under `hazards` in `PROJECT.json`, with the properties that would catch
it, or the reason why none does.

**What makes each part correct.** Synchronisation: no block is lost; a gap is
closed only when its blocks are scanned (on BSC: when the balances they touch
are refreshed, since backups there write no transfers); a cursor passes nothing
nobody answers for; gaps do get repaired and a stale main scanner is taken over.
Transfers: a cursor passes a block only when its transfers are on record,
notified and queued for a refresh, except for what a failed call cost. Balance
rows: the row ends up with the account's balance, and no request to refresh is
dropped. Background jobs: one at a time, a flag never outlives its job, a status
that becomes final tells the truth. Payments: nobody pays twice by itself, and
what is reported as done was done. Alerts: the cache catches up with the table,
and a transfer is told of again only for a cause.

## 2. The modules

```
SyncCursor      cursor arithmetic shared by both chains
  BlockLedger   what synchronisation promises: passed => processed, owed or forfeited
  TronSync      main scanner + backups      implements BlockLedger
    TronSyncProofs                            MCTronSync
  BscSync       main scanner + claiming backups   implements BlockLedger
    BscSyncProofs                             MCBscSync
TransferRecords one block's transfers, taken apart     MCTransferRecords, TransferProofs
BalanceRows     three writers of one Tron row          MCBalanceRows, BalanceRowsProofs
BscBalances     three writers of two BSC rows          MCBscBalances, RefreshProofs
FullRefresh     manual and scheduled full refreshes    MCFullRefresh, RefreshProofs
HourRules       which energy provider at which hour
  TronActions   activations and energy orders          MCTronActions, TronActionsProofs
GasTopups       transfers of BNB from one account      MCGasTopups, GasTopupsProofs
WalletJobs      the HD wallet's one job slot           MCWalletJobs, WalletJobsProofs
WatchCache, Notifiers
  Alerts        from a watched address to a message    MCAlerts, TransferProofs
```

`RefreshProofs` and `TransferProofs` each prove about two components, so
`BscBalances` and `TransferRecords` write out their names: `BscSpec`, `bscVars`,
`RecordsSpec`, `RecordsNext` and so on.

### SyncCursor
Helpers both scanners share: `ShouldSkip` (`shouldSkipToLatestBlock`),
`InitialBlock`, `Reached`, `BeforeGap` (a repair starts at `from - 1`), `NoRow`
for an absent `sync_state` row.

### TronSync
One action per SQL statement or node call whose place in the order matters, so
another process (or a crash) may come between any two. The Go locals are
variables: `mCur`, `mLatest`, `mSince` for the main scanner's `currentBlock`,
`latestBlock`, `blocksSinceLatestRefresh`; `bCur`, `bTarget`, `bMode`, `bGap`,
`bSeen` for each backup. `mpc` and `bpc` say where in `scan()` a process is.

* Main scanner: `MainBeginScan`, `MainInitCursor`, `MainLoadCursor`,
  `MainRecordGap` then `MainSkipToLatest` (two statements in this order),
  `MainLoop` (which calls `resolveSyncCursor`), `MainScanBlock`,
  `MainSaveCursor`, `MainRefreshLatest`, `MainFail`.
* Backup: `BackupStart` and `BackupAlign` are `alignBackupSyncCursor`;
  `BackupReadGap`, `BackupFinishGap`, `BackupTakeGap`, `BackupResetCursor`,
  `BackupEnterGap`, `BackupSeeNoGap`, `BackupCheckMain`, `BackupTakeOver` are
  `resolveTargetBlock` and what `scan()` does with its answer; then
  `BackupLoop`, `BackupScanBlock`, `BackupSaveCursor`, `BackupRecheckMain`,
  `BackupPreempt`; `BackupFail`.
* Environment: `ChainGrows`, `MainGoesStale` (the age of the main row passes
  `mainStaleDuration`), `OperatorRewinds` (somebody lowers a cursor in the
  database, the case `resolveSyncCursor` is written for).

Things one could expect and the code does not have: a Tron gap has no owner, and
`MarkTronSyncGapRepairing` has no guard; `MarkTronSyncGapPendingWithError` is
never called from `scan()`, so a failed repair leaves its gap `repairing` and
the next run finds it again; the backups' commands turn skipping off. The gRPC
backup has the same control as the HTTP one, so both are instances of one
process. A named lock excludes two backups of one kind, which is why every
backup in the model has a key of its own.

### BlockLedger
The abstract specification: a watermark, and blocks processed, owed and forfeited.
`Process` handles a block, `Owe` puts blocks on the books, `Settle` handles blocks
on the books and strikes off what is handled, `Forfeit` is a failure that gives
promises up, and `Advance` passes blocks only if each is accounted for in one of
the three ways. Both scanners implement it with `high` (the highest main cursor
ever saved) as the watermark. For `TronSync` processed is `scanned`, owed the
blocks of open gap rows, and nothing is ever forfeited. For `BscSync` a block is
processed when its balances are refreshed, owed while an open gap row or the list
of a run has it, and forfeited when it was on the list of a run that failed.

### BscSync
The same scanner shape with these differences, all modelled: gap rows are
claimed (`SelectPending` reads, `Claim` is the conditional update) by an owner
that a restart changes; the command's resolver may lower the cursor row while
`scan()` holds one it read before; blocks wait for `Confirmations`;
`HasOpenSyncGap` decides between idling and looking at the main scanner. There
is no named lock here. `scan()` fetches token logs in batches but scans blocks
and saves the cursor one at a time, which is the grain of the model.

What a scan of a block amounts to depends on who scans.

* *Refreshes.* `SetDeferBalanceRefreshInCatchUp(true)` is set for the main scanner
  (`app.go:99` and `:180`) and for the backups, and `bsc_scanner.go:409` then
  defers in every run that comes to its loop. So `ScanBlock` puts the block on the
  list of its process (`deferred`), and `Flush` hands the list to
  `refreshBalances` (`refreshed`). Reaching the target, a cursor adopted from the
  database and the main scanner's skip in mid-loop all go through `flush`; a run
  that fails loses its list (`dropped`), though the cursor has passed its blocks.
  `refreshBalances` logs what fails inside it and returns; that is the matter of
  `BscBalances`.
* *Books.* The backups' command calls `SetDisableBookkeeping(true)`
  (`cmd/bsc-backup-block-sync/main.go:118`), so their `insertTransferIn` and
  `insertTransferOut` return before the insert and the notifier
  (`bsc_scanner.go:711`, `:740`), and no immediate refresh follows. Only what the
  main scanner scans is `booked` (`KeepsBooks`): repairing a gap on BSC refreshes
  balances and writes no transfer. `UnbookedIsInGap` says that the blocks
  concerned can at least be found from `sync_gaps`. A failed insert of the main
  scanner is logged and costs its transfer, not the block.

### TransferRecords
What TronSync takes as one step: a scan of one block by a main or by a backup
scanner (`scanner`, chosen at the start). `next` is `txCh`: the transactions not
received yet. Each worker goes through `Receive`, `LoadReceipt` (USDT calls),
`Look`, `InsertOut`, `Notify`, `InsertIn`, `Notify`, `AskRefresh` for each
transfer, then `WorkerEnds`; `Join` is `group.Wait` and `SaveCursor` the
`SaveLastBlock` after it. Every database and node call may fail, and a failed
insert may have stored its row; after a failure the main scanner gives the
transfer up, a backup goes on. `Shutdown` cancels the context under which all of
them run, `Crash` loses the process; what it asked for is in memory and is lost
with it. `LoadCache` is the first `Reload` of a process, which the scanner does
not wait for; edits of `watch_addresses` appear as a cache that may contain any
of the `Edited` addresses whenever it is read. Two scanners share nothing but
the tables, and an insert of a row that is there changes nothing, so one scanner
at a time is enough. Notifiers queue in memory and drop repeats and, when full,
messages; `told` is what they were handed.

### BalanceRows
One account, one Tron asset. A balance is represented by the block of the last
transfer it includes, `BalanceAt(h)`. Writers: `Flush` after a block, the loop
`runImmediateRefreshLoop` with its single pending slot, and a full refresh. Each
reads at some height, then calls `UpsertBalance`, which compares block numbers.
`SolidReads` distinguishes TRX (`GetAccountState` answers for the solid block)
from USDT (read at the head).

### BscBalances
One account, both BSC assets. `refreshAddressBalances` is followed statement by
statement for three callers. `getCurrentBSCBalances` returns USDT first and BNB
second while its caller names them the other way round, so the throttled
variant compares each fresh balance with the other asset's stored one; the model
keeps that. Rows carry no block number.

### FullRefresh
Handlers of the dashboard (`Request`, then the looks at the two trackers, the
loading of addresses without the lock, the second look, the job, the release of
flag and tracker) beside the scheduled loop (`WakeUp`, `CheckActiveManual`,
`TryStart`, `FinishScheduled`), and the cooldown.

### HourRules and TronActions
`HourRules` has `resolveProviderByRule` and `inHourRange`, which the dashboard
and the wallet each have a copy of, beside `Window`, the walk round the clock
they are meant to compute. `TronActions` has everybody who pays for something on
a Tron address: single activations (`ActivateOne`), the queue
(`Enqueue`, and `SetFirstStatus` which follows it in a step of its own), the
worker (`Receive`, `NextAddress`, `WorkerSends`, `Count`, `Pause`, `Final`, with
`Cancelled` for a shutdown seen before an address or in a pause), energy orders
(`Resolve`, `OrderEnergy`), the command (`ToolLooks`, `ToolSends`, `ToolPauses`)
and the part of a sweep that activates and orders (`SweepActivates`,
`SweepOrders`, `SweepGoesOn`). A payment is taken, taken without an answer, or
refused; an energy provider's answer may also hide its refusal, since any status
below 300 counts. `paid` says how often each payer's order for each address was
taken. Payers share the activator and nothing else, so one at a time stands beside
the jobs.

### GasTopups
Everybody who sends BNB from the one gas account. Dashboard transfers go through
`Look`, `Lock` (`bscGasTransferMu`), `ReadNonce`, `Send` or `SendRefused`; a
batch is `RequestBatch`, then `NextItem`, the same transfer, `Count`, `Cooldown`,
`FinalStatus`, `Release`, with `Expire` for its two hours. The two commands and a
sweep (`ToolStep`) send without the lock. `pool` is the node's list of
transactions by nonce: a transaction with a nonce in use replaces the older one
or is refused.

### WalletJobs
`Service.job`, a slot under a mutex, and the goroutines that take it:
derivation (`StartSync`, `LoadConfig`, `SyncTron`, `SyncBsc`) and sweeps
(`Preview` before the slot, `StartSweep`, `LoadAddresses`, then for each address
`ExamineTron` or `ExamineBsc`, `SendTron` or `SendBsc`, `Record`, `CollectFails`,
and `EndSweep`); `JobFails` is an error or a recovered panic. Saving the
mnemonics (`Save`, `WriteConfig`, `WriteTronKey`, `WriteBscKey`, `SaveFails`)
takes no slot and is three writes. A mnemonic is its tag, an address the tag and
its index. `pool` holds the addresses with a BSC transfer not mined yet.

### WatchCache, Notifiers and Alerts
`WatchCache` is one chain's table and cache: `LoadRows` outside the lock and
`Install` under it, by the ticker's goroutine (`Tick`, `Rerun` after a failed
first load) and by the handlers that add and delete addresses. `Notifiers` is
what both notifiers do: `CheckRecent` looks and marks under the lock,
`PutOnQueue` drops the message when the queue is full, `TakeMessage` and
`SendMessage` are the goroutine that sends, `RunOut` the end of a mark's ten
minutes. The notifiers are written for several calls at once, also for one
transfer, so `check` and `put` count the calls; one scanner per chain makes them
one after the other today. Marks, queue and cache live in memory:
`ProcessRestarts` empties them. `Alerts` puts them together: a
scanner that comes to a transfer, for the first time or again, tells of it if the
cache holds the address at that moment; it does so for rows already stored, too
(`scanner.go:362`).

## 3. The runs

| run | instance | what it shows |
|---|---|---|
| `tron_safety` | chain of 4, one backup, one failure anywhere, one rewind | `NoBlockLost`, `DoneMeansScanned`, `NoHoleBelowBackup`, `RepairStaysInGap`, and that TronSync implements `BlockLedger` |
| `tron_progress` | chain of 4, one backup deployed at any time, one failure | gaps of a backup that had its cursor before the first skip end up done and scanned for good; the main cursor reaches the head |
| `bsc_safety` | chain of 4, two backups, one failure, every confirmed block skipped | no block's refresh lost or passed but with a failed run, gaps closed only over refreshed blocks, claims exclude each other |
| `bsc_progress` | chain of 6, `SkipThreshold` 2, one backup deployed at any time, one rewind, main scanner may stop for good | every way out of the loop refreshes the list; blocks without transfers on record lie in gap rows; gaps of a backup deployed in time end up done and refreshed; a stale main scanner is taken over |
| `balance_usdt` | three blocks, one failed call | honest labels, no lost wake-up, latest balance stored |
| `bsc_balances_safe` | two transfers, full refreshes, one failure | a row never shows an amount the account never had of that asset |
| `refresh_exclusion` | two concurrent requests, both chains | one job; trackers and flags agree with it and are released |
| `transfer_records` | a block with a USDT call of two transfers, a call of another contract and a TRX transfer; two workers, two failed calls, one shutdown or crash, one edited address | the cursor passes the block only with all its transfers recorded, notified and queued for a refresh, what failed calls cost stays with their transfer; the scan ends |
| `gas_topups` | a single request, two batches of two, one command or sweep beside, one fault | a transfer the dashboard was given a hash for stays on the chain unless a command displaced it; statuses tell the truth; a batch gives its slot back |
| `tron_actions` | two jobs of two addresses, a queue of one, one other payer, one fault | nobody pays twice by itself; a job's status is true and, once final, believed; an accepted job is worked through; the provider is the one of the hour |
| `wallet_jobs` | two clients, two mnemonics, two addresses each, a batch of one, two faults | the slot is exclusive and always given back; no second BSC transfer before the first is mined; a sweep's report is true; no address without its mnemonic |
| `alerts` | one address, the ticker and two handlers, one transfer, two calls at once, a queue of one, one fault, one restart | cache and table agree in the end on what stays as it is; a transfer is told of again only after its mark ran out or a restart |

**Bounds.** The thresholds are scaled down with the chain: with `SkipThreshold`
1 a chain of 4 is long enough for two disjoint gap rows, a repair of more than
one block, a takeover beside gaps and its end. The latest block is refreshed
after every block, the main scanner rechecked after every second one. One Tron
backup is enough for TLC because the theorems below hold for any number of them;
two can only be told apart by the rows they mark, and a second one reopening a
row the first has closed (`repository.go:889`) is in the theorems alone. On the
BSC side claims need two backups and several gaps: `bsc_safety` sets
`SkipThreshold` to 0, so that every new confirmed block becomes part of a gap
and three of them fit on the chain; how the main scanner itself scans is left to
`bsc_progress`, whose chain of 6 with a threshold of 2 and one rewind lets the
main scanner come to its mid-loop skip with blocks on its list. One failure is
enough for every hazard listed: a process fails between two given statements and
comes back; `wallet_jobs` has two, for a save that fails and a job that fails
after it, and `transfer_records` two, for both rows of one transfer.
`MaxFaults`, `MaxRewinds`, `MaxStops`, `MaxBlock`, `MaxTransfers`, `MaxBeside`,
`MaxAges`, `MaxCalls`, `MaxRestarts`, `MaxCacheFaults` and `ToolTotal` are
budgets in guards. In `transfer_records` two workers and three transactions make
a worker wait, overtake and end early; two transfers in one receipt tell giving
up a transfer from giving up its transaction. A batch or job of two addresses
has one that is not the last (with a pause) and one that is; a queue of one is
full while the worker has another job. In `wallet_jobs` a batch of one makes
derivation take several jobs, and leave one with nothing to do. One watched
address is enough for `alerts`, since addresses meet only in a request's set and
the cache is installed as a whole. Interchangeable backups, clients and
mnemonics are declared symmetric in `bsc_safety` and `wallet_jobs`, which check
invariants only; no liveness run uses symmetry.

**Deadlock** is checked except in `balance_usdt`, `bsc_balances_safe`,
`gas_topups` and `tron_actions`: when the chain stops and everything is stored,
or all requests are answered and the worker is gone, nothing is left to do.

**Fairness.** Tickers restart every scan and every call has a timeout, so
`WF` on a process's steps is what the code gives. Not assumed: that the chain
grows, that the main scanner ages, that a failure or a rewind happens, that a
request is made. In `bsc_progress` the main scanner gets no fairness
at all, since the takeover is for a dead one. In `balance_usdt` blocks become
solid in the end. In `transfer_records` a process that was shut down is started
again, by its supervisor or the operator. `gas_topups` has `WF` for each web
transfer or batch (a holder of the lock lets go after 45 seconds; the commands are
free to stop), `tron_actions` for the worker, `alerts` for the ticker's goroutine
alone: handlers may stop with rows read and never install them. `wallet_jobs`
promises nothing of the kind and assumes none.

**Budget of failures in `balance_usdt`.** The immediate refresh and Flush make up
for each other: one failed read is repaired by the other writer, two in a row
lose the balance until the next transfer or full refresh. `MaxFaults` is 1 for
this reason. Full refreshes are taken to read the same chain as the scanner; they
use clients of their own, and a node that lags is not modelled there.

**Known behaviours outside the listed runs.** Where an instance is named, the
behaviour can be had by changing a constant, or the checked property, of that
instance. The first four disagree with what the repository says of itself:
* `tron_safety` with `LateDeploy` TRUE, no fault and no rewind violates
  `DoneMeansScanned`. A backup first deployed after the main scanner has skipped
  is aligned to the main cursor (`src/cmd/tron-grpc-block-sync/main.go:247`),
  stands above the pending gap, and closes it unscanned
  (`tron_backup_sync.go:272`); `src/README.md:340` has backups repair skipped
  ranges. That is why `GapsGetRepaired`, whose conclusion is that the range was
  scanned, has `InTime` for a premise and does not speak of late backups. The same
  constant in `bsc_safety` has the same effect (`DoneMeansRefreshed`), and a
  backup started before the main scanner has a cursor puts its own on the newest
  block, above blocks the main one has still to pass (`BackupPassesNothing`).
* BSC repairs record no transfers. `cmd/bsc-backup-block-sync/main.go:206` and
  `:208` log that transfers are recorded; line 118 of the same file switches
  bookkeeping off, and `bsc_scanner.go:711` and `:740` return before the insert
  and the notifier. In the model `booked` grows by the main scanner's blocks
  only; a repair books none of its gap's blocks.
* `bsc_progress` with `MaxFaults` 1 violates `StaleMainTakenOver`. A gap's owner
  is made of process id and start time (`cmd/bsc-backup-block-sync/main.go:261`),
  nobody puts the gap of a crashed owner back to pending, and `HasOpenSyncGap`
  (line 169) keeps every backup idle from then on; the help text at line 204
  promises a takeover after `mainStaleDuration`.
* `BscBalances` with `Full` FALSE and `MaxFaults` 0 violates `LatestStored`, a
  definition of that module. `getCurrentBSCBalances` returns USDT and BNB in this
  order (`bsc_scanner.go:1038`), its caller at line 982 names them the other way
  round, so a balance equal to the other asset's stored one is not stored
  (`src/README.md:275` and `:310` describe refreshes after each transfer).
* `BscSync`, `MaxFaults` 1: an error in a catch-up run drops `deferredRefresh`
  though the cursor has passed its blocks, and the gap it was in may be closed all
  the same. These blocks are in `dropped`, the exception every BSC property names.
  A main scanner that hangs for good keeps its list in hand, which is the
  exception `deferred[Main]` in `Repaired`.
* `BscSync` with two backups and a rewind of the main cursor: the range skipped
  again is recorded as a gap that overlaps an older one. A backup whose cursor
  stands above the new gap, because it repaired a later one, closes it unscanned
  while the other backup still owns the older row: `DoneMeansRefreshed` fails,
  though the block is still owed.
* `BscSync` with one key for two backups (both started with the default of
  `BSC_BACKUP_SYNC_KEY`, chain of 6): `DoneMeansRefreshed` fails, since one process
  closes its gap on the cursor the other has reset.
* `BalanceRows` with `SolidReads`: `LatestStored` fails for TRX, whether the
  scanner follows the head (Flush stores a solid balance under a head block over
  a fresher one) or the solid block (a manual refresh labels a solid balance with
  the head block, so the next refreshes are ignored).
* `BscBalances` with a failure or a full refresh: a slow refresh overwrites the
  balance of a faster one and nothing corrects it before the next transfer. With
  amounts that never coincide, no failure and no full refresh `LatestStored` holds.
  `RowWasOwned`, which the run checks, says only that no amount is stored under the
  wrong asset; a balance not stored at all does not violate it.
* `TransferRecords` without `early` in `Excused`: `SavedMeansRecorded` fails. The
  processes start the address cache beside the scanner (`app.go:268`,
  `cmd/tron-backup-block-sync/main.go:96`); a block scanned before the first
  `Reload` has ended, which takes longer when it fails and is retried after a
  second or more, is passed without its transfers. The property therefore says
  nothing of that case.
* `TransferRecords` does not promise rows for calls of other contracts (`kind`
  "other"): a USDT transfer that reaches a watched address through, say, a router
  is filtered by `ShouldInspectUSDTTriggerTx` though its log names the address.
* `FullRefresh`: a manual and a scheduled refresh can run together, since each
  side looks at the other's tracker before it enters its own.
* `CreateTronSyncGap` refuses `to < from`, which no caller passes; a
  `mainStaleDuration` of 0 would mean never stale and an empty main sync key no
  takeover at all; the commands always pass a key.
* Shared state of the dashboard: the handler that adds BSC addresses reloads the
  Tron cache, the only one the dashboard is given (`web/bsc.go:244`,
  `app.go:206`), and deleting BSC addresses reloads nothing; the BSC cache follows
  with its next tick. Of two concurrent reloads the one that read first may be
  installed last, until the next tick.
* Alerts: a message dropped because the queue is full keeps its mark for ten
  minutes. A crash between `scanBlock` and `SaveLastBlock` loses the marks and
  has the block scanned again; since the scanner tells of rows that are stored
  already (`scanner.go:362` to `:382`), its transfers are told of once more,
  which `RepeatsHaveACause` counts as a cause. The USDT repair may record a
  transfer before a backup comes to it; the backup's insert then stores nothing
  and tells nobody.
* Activations: `SetFirstStatus` may set a finished job back to unfinished, once
  (`FinishedStays` allows exactly that). Energy or an activation may be paid for
  before the sweep finds a reason to skip the address. A sweep asks the configured
  rule only and ignores the runtime setting `energy_provider`.
* Gas: a command or a sweep, which do not take the lock, can displace a dashboard
  transfer's nonce.
* Wallet: on Tron a sweep may send a second transfer before the first is on the
  chain (`NoSecondTransfer` is about BSC); after a Tron sweep the stored balance
  stays, since the zero carries block number 0 and `UpsertBalance` ignores it; an
  error of that write after the broadcast counts the address as failed. Deleted
  wallet rows come back with the next derivation. Saving that fails midway leaves
  a configuration whose mnemonic is not stored under its tag: `KeysAreKept`
  excuses such a tag, so it says nothing of that failure. Nor does it say that what
  is stored can be decrypted: the key file `.config.key` is loaded or created
  without a lock between processes (`hdwallet/service.go:785` to `:815`), and two
  processes started together on one empty directory may each write their own.

## 4. The proofs

All of them are checked to the last leaf and hold for every value of the
constants that satisfies the modules' assumptions.

**Tron synchronisation** (`TronSyncProofs`).
`TypeCorrect` is unconditional. The others assume `LateDeploy = FALSE`, that is,
every backup has been aligned before the main scanner first skips;
section 3 says what happens without it. For any number of backups, failures and
rewinds and any chain:
* `NothingLost`: every block the main cursor ever passed is scanned or owed.
* `GapsClosedScanned`, `CursorsStandOnScanned`, `RepairsStayInTheirGap`.
* `ImplementsLedger`: initial states and steps map to `BlockLedger`.

None of the properties is inductive by itself. A gap is closed by looking at the
backup's cursor alone, so one must know that this cursor stands on scanned
blocks; it may be moved up to a gap's start, so one must know that everything
below the *lowest open* gap is scanned, which is where the order of
`GetNextOpenTronSyncGap` comes in (lemma `LowestGap`); and that needs
`NoBlockLost`, which needs to know what the main scanner has recorded between its
two statements. `IInv` is that circle: `TypeInv`, `MainInv` (what each control
point of the main scanner has established), `GapInv` for every row, `BackupInv`
for every backup, and `NoBlockLost`. The proof has a lemma per kind of step
(`MainInitStep`, `MainRecordStep`, `MainMoveStep`, `MainScanStep`,
`BackupQuietStep`, `BackupSaveStep`, `BackupMarkStep`, `EnvironmentSafe`), and
"stable" lemmas for what a step leaves alone.

**BSC synchronisation** (`BscSyncProofs`). `TypeCorrect` and `OneRepairer`
(`ClaimsExclusive`) have no premise: for any number of backups, late
deployments, rewinds and crashes, owners are given out once (`OwnersKnown`), so
whoever works on a gap is named in its row (`ClaimsHeld`) and is the only one.
More hold without a premise: `ScansAreConfirmed` (`ConfirmedOnly`, from
`HeightInv`: a target never lies above the confirmed head, nor a block about to
be scanned above its target; no run lists it) and `NoRefreshForgotten`
(`RefreshNotForgotten`, of the main scanner's lists as of the backups', with
late deployments, rewinds and failures: a list is held only inside the loop,
`Lists`, every regular way out of the loop passes the flush, and a failed run's
list is in `dropped`). So does `MissingBooksAreInGaps` (`UnbookedIsInGap`): its
`BooksInv` follows the main scanner from the row it records to the cursor it
saves (`MainPlace`, `MainBooks`), where it books what it scans and never unbooks
or deletes a row. `GapRepairsStayInGap` (`RepairStaysInGap`, a definition of
`BscSync` no run lists) needs sync keys of their own: `RepairInv` says that
nobody but a backup itself moves its cursor, so the cursor it read is the row's,
and that the row stands at the gap's start or above it, although `scan()` works
with a cursor read before the resolver lowered the row. Under `Careful` (backups
are aligned before the first skip, have sync keys of their own, and nobody
lowers a cursor; section 3 shows a counterexample for each premise) and any
number of backups, failures and restarts:
* `NothingLost` (`NoRefreshLost`), `GapsClosedRefreshed` (`DoneMeansRefreshed`),
  `NothingPassed` (`BackupPassesNothing`), all about the balances a block touches,
  which is all a backup's scan does;
* `ImplementsLedger`: initial states and steps map to `BlockLedger`, with open
  rows and the lists of runs as the books.

The argument differs from Tron's, since several backups work on different rows
and a row may stay with a dead owner for ever; and cursors run ahead of the
refreshes, which come when a list is flushed. A process answers for a block
(`Handled`) when the block is settled, that is refreshed or dropped, or stands on
its own list. `IInv` says of every row
(`GapInv`) that each backup answers for the *pending* blocks up to its own cursor,
and that no pending row starts below a row once claimed (`GapOrder`); of every
backup (`BackupInv`) that it answers for what it owns up to its cursor
(`BackupClean`), that it has nothing of its own while it looks for a row
(`BackupFree`), and that the row it works on is the lowest of its own
(`LowestOwned`). A list is empty whenever the resolver looks at the cursor
(`Lists`): what a process answers for there is settled, and so a row closed on a
cursor past its end is closed over settled blocks. Claims are made from
below (`ClaimNextPendingSyncGap` orders by `from_block`), so when a backup lowers
its cursor to the start of its row, all that is pending starts above, and what it
scans from there on is clean for every row above too; what others own does not
matter to it. `MainInv` is what `scan()` of the main scanner has established at
each control point. The circle closes with `NoRefreshLost`, as it does with
`NoBlockLost` for Tron. One lemma per
kind of step (`ScanSafe`, `SaveSafe`, `ClaimSafe`, `FinishSafe`, `ResetSafe`,
`AlignSafe`, `MainCursorSafe`, `RecordSafe`, ...) rests on lemmas for what a step
leaves alone.

**Tron balance rows** (`BalanceRowsProofs`), for any chain, any interleaving of
the three writers and any number of failed calls. `TypeCorrect` and
`RequestsAreHeard` (`NoLostWakeup`) hold for both assets.
`LabelsAreHonest` (`LabelHonest`) assumes `SolidReads = FALSE`, which is USDT. Its
invariant `HonestInv` adds to the row what each writer has in its hands: a balance
about to be stored includes every transfer up to the label it will be stored
under, because labels are taken at or below the head and the read comes later.
`BalanceGrows` and `BalanceStays` say that a later height includes no less and that
a new block changes no balance at an earlier one; both rest on `GreatestIn`, that a
bounded set of numbers has a greatest one.

**Full refresh** (`RefreshProofs`). `OneJobAtATime`, `StatusIsTrue`,
`NoFlagLeftBehind`, `TypeCorrect` for any set of concurrent requests. The
invariant says: at most one request is past admission (`OneBusy`), it has set its
flag (`BusyHasFlag`), and the tracker has an entry exactly while a worker is
there (`TrackerHasWorker`, `WorkerInTracker`).

**BSC balance rows** (`RefreshProofs`), for any amounts, any number of transfers
and failed calls. `RowsShowOwned` (`RowWasOwned`): what a writer is about to store
is an amount the account owned of the asset it will be stored under (`Carries`),
because the mistaken comparison decides *whether* a fresh balance is stored and
never which; `past` only grows. `RefreshesAreHeard` is the wake-up of the
immediate loop, as for Tron, and `RowTypesCorrect` the type invariant.

**Tron transfer records** (`TransferProofs`), for any block, any number of workers
and of transfers in a transaction, and any failures, shutdowns and crashes.
`CursorMeansRows` (`SavedMeansRecorded`), `NoticeMeansRow` (`ToldIsStored`),
`CursorMeansRefreshes` (`SaveCoversBalances`) and `RecordTypesCorrect` from
`RecordsInv`. Its core is `RowsOwed`: while a scan may still save its cursor, every
due row is excused, recorded, still on the channel, or in the hands of a worker
whose step has yet to record it (`WillRecord`); `RefreshesOwed` says the same of
requests. `ScanControl` adds that the first worker to end has seen the channel
empty, and that the cursor is saved when all have ended, so in the end nobody is
left to owe anything. A worker that is about to tell holds a row it has stored
(`TellsStored`). Each step of a worker changes its own debts only, which is lemma
`WorkerSafe`: it is enough to show that whatever the worker owed before the step
it still owes, has done, or is excused from. A cancelled scan owes nothing, since
it never saves; for the rest it is enough to know of one worker, the first, that it
ended on an empty channel.

**Gas transfers** (`GasTopupsProofs`), for any number of requests, batches,
addresses and programs beside them. `HashesStayOnChain` (`SuccessIsOnChain`): the
lock has one holder from before the nonce is read until the answer
(`LockHolder`), so a nonce about to be used by a web transfer is above every nonce
of an answered one (`NonceIsNew`). `StatusIsTrue` (`StatusTellsTheTruth`) from
`JobInv`: the batch at work has the slot, its position agrees with its two
counts, and so does what is shown.

**Activations and energy** (`TronActionsProofs`), for any number of requests and
jobs and any queue. `NothingPaidTwice`, `JobStatusTrue`, `FinishedIsBelieved` from
`Inv`: a job is on the queue or with the worker, never twice (`QueueInv`), its
position agrees with its counts (`Progress`), and no address from its position
on has been paid for (`Ledger`). `ProviderIsOfTheHour` is for every rule, through
`HourRange`: the comparisons of the code select exactly the hours of the walk
round the clock.

**Wallet** (`WalletJobsProofs`), for any number of clients, mnemonics and
addresses. `OneJobInTheSlot`, `SweepReportsTruly`, `OneTransferAtATime` (a
transfer is only sent after a look at the pool by the one goroutine that holds
the slot, `FreeToSend`) and `KeysStay` (`KeptInv`: the configured tag, the tag
of a derivation under way and the tag of every row are stored, or excused).

**Alerts** (`TransferProofs`), for any number of transfers, calls at once and
restarts and any queue. `RepeatsAreCaused` (`RepeatsHaveACause`): what was told,
and what calls past the look are about to tell, is covered by the mark, by marks
that ran out and by restarts (`MarksCover`). A look and the mark are one step
under the lock, so each mark lets one call through; with the two apart the
counts of two calls would outrun it.

**Model-checked only.** Every liveness property (TLAPS has no support for
fairness here): `GapsGetRepaired`, `MainCatchesUp`, `StaleMainTakenOver`,
`LatestStored`, `BlockGetsSaved`, `BatchEnds`, `AcceptedIsHandled`,
`CacheCatchesUp`. Every invariant and every step property of the runs is the
conclusion of a theorem, under the premises named above. `GapsGetRepaired` of both
chains has the scan of the range (Tron) or its refresh (BSC) in its conclusion, for
a backup that had its cursor before the first skip.

## 5. Not modelled

* The USDT transfer repair a balance refresh can set off: it inserts missing rows
  if absent and nothing modelled reads them. The rows a BSC block writes: `Alerts`
  has the order of insert and notification, `BscSync` the sets of blocks scanned,
  booked and refreshed.
* The columns of transfer rows, amounts, prices and fees; the request throttle and
  decoding of the chain clients; login, pages, lists and JSON of the dashboard.
* Reorganisations of the chain: the code has no handling of them, it waits for
  confirmations or solid blocks.
* The named lock, `safeGo`'s back-off and the tickers appear only as what they
  allow. The standalone WSS scanner skips without recording a gap by design.
* Key derivation, and the HD wallet's file mode, which a configured database
  switches off.
* Which of several signers of the activator pays; direct messages of the Telegram
  notifier (uShield matches among them, which backups send, too); the trace
  service, which only answers queries.

## 6. Plan

All modules of the plan are written: SyncCursor, BlockLedger, TronSync, BscSync,
BalanceRows, BscBalances, FullRefresh, TransferRecords, HourRules, TronActions,
GasTopups, WalletJobs, WatchCache, Notifiers and Alerts, and all the safety
properties of their runs are proved. What is left of the models: a module for the
USDT transfer repair with its single flight, and one for the rows of a BSC block
with its three modes: insert, insert if absent, and bookkeeping switched off.
