--------------------------- MODULE TransferRecords ---------------------------
(***************************************************************************)
(* What becomes of the transfers of one block: scanBlock of the main       *)
(* scanner (internal/service/scanner.go) or of a backup scanner            *)
(* (tron_backup_sync.go, tron_grpc_backup_sync.go), whose workers share    *)
(* the block's transactions through a channel, the rows they insert, the   *)
(* notifications and balance refreshes they ask for, and the cursor that   *)
(* passes the block at the end.  TronSync takes a scanBlock as one step;   *)
(* here it may fail, be shut down or crash half way.                       *)
(*                                                                         *)
(* One scanner is modelled, of either kind: what others do beside it only  *)
(* adds rows, and inserting a row again leaves it as it was.               *)
(* Logs of a transaction that are no USDT transfers, or cannot be decoded, *)
(* are not in `legs`.  A row's columns follow from the transfer.           *)
(***************************************************************************)
EXTENDS Naturals, Sequences

CONSTANTS
    Block,       \* the block: a sequence of transactions (see Transaction)
    Steady,      \* addresses that are watched all the time
    Edited,      \* addresses an operator adds and removes
    TxWorkers,   \* watcher.tx_workers
    MaxFaults,   \* bound on failed calls
    MaxStops     \* bound on shutdowns and crashes

Workers == 1 .. TxWorkers
Side == {"OUT", "IN"}

\* kind: a TransferContract ("trx"), a call of the USDT contract ("usdt") or of
\* another contract ("other"); call: the addresses in the call's own arguments;
\* legs: the transfer itself, or the USDT Transfer logs of its receipt.
IsList(s) == Len(s) \in Nat /\ DOMAIN s = 1 .. Len(s)
Transaction(tx) ==
    /\ tx.kind \in {"trx", "usdt", "other"} /\ IsList(tx.legs)
    /\ tx.kind = "trx" => Len(tx.legs) = 1

ASSUME ConstantsOK ==
    /\ IsList(Block)
    /\ \A t \in DOMAIN Block : Transaction(Block[t])
    /\ Steady \cap Edited = {}
    /\ TxWorkers \in Nat \ {0}
    /\ MaxFaults \in Nat /\ MaxStops \in Nat

VARIABLES
    scanner,    \* which scanner this is, "main" or "backup"; never changes
    stored,     \* transfer_out_records and transfer_in_records
    told,       \* rows handed to the main scanner's notifier
    saved,      \* has the scanner's cursor passed the block?
    pc,         \* control of the scan of the block
    cancelled,  \* is the scan's context done?
    next,       \* txCh: the transaction the next receive returns
    worker,     \* what each worker is doing
    loaded,     \* has the process loaded its address cache?
    asked,      \* balance refreshes asked for, kept in memory
    lost,       \* history: rows whose insert failed in this scan, no shutdown
    unread,     \* history: transactions whose receipt could not be loaded
    early,      \* history: transactions looked at before the cache was loaded
    faults, stops

tableVars == <<stored, told>>
scanVars == <<pc, next, worker>>
failVars == <<lost, unread, early>>
budgetVars == <<faults, stops>>
recordsVars == <<scanner, tableVars, saved, scanVars, cancelled, loaded, asked, failVars, budgetVars>>

TxIndex == DOMAIN Block
Legs == UNION {{t} \X DOMAIN Block[t].legs : t \in TxIndex}
Rows == {[side |-> side, tx |-> l[1], leg |-> l[2]] : side \in Side, l \in Legs}
\* AddressCache at some moment: empty until the process's first Reload, which the
\* scanner does not wait for; then swapped, between any two reads of it, whenever
\* an operator has edited watch_addresses.
Cache == IF loaded THEN {Steady \cup edited : edited \in SUBSET Edited} ELSE {{}}
Reads(tx) == early' = IF loaded THEN early ELSE early \cup {tx}
LoadCache ==
    /\ ~loaded /\ loaded' = TRUE
    /\ UNCHANGED <<scanner, tableVars, saved, scanVars, cancelled, asked, failVars, budgetVars>>

\* The row's watch_address: the sender's in the OUT table, the receiver's in the IN table.
Watch(row) ==
    LET leg == Block[row.tx].legs[row.leg] IN IF row.side = "OUT" THEN leg.from ELSE leg.to

Step == {"idle", "info", "look", "out", "tellOut", "in", "tellIn", "ask", "gone"}
WorkerState == [step : Step, tx : Nat, leg : Nat, hit : SUBSET Side]
Idle == [step |-> "idle", tx |-> 0, leg |-> 0, hit |-> {}]
Gone == [Idle EXCEPT !.step = "gone"]

RecordsTypeOK ==
    /\ stored \subseteq Rows /\ told \subseteq Rows
    /\ scanner \in {"main", "backup"}
    /\ saved \in BOOLEAN /\ cancelled \in BOOLEAN /\ loaded \in BOOLEAN
    /\ pc \in {"idle", "scan", "save"}
    /\ next \in 1 .. Len(Block) + 1
    /\ worker \in [Workers -> WorkerState]
    /\ \A w \in Workers :
          worker[w].step \notin {"idle", "gone"} => worker[w].tx \in 1 .. next - 1
    /\ asked \subseteq Rows /\ lost \subseteq Rows
    /\ unread \subseteq TxIndex /\ early \subseteq TxIndex
    /\ faults \in 0 .. MaxFaults /\ stops \in 0 .. MaxStops

RecordsInit ==
    /\ stored = {} /\ told = {}
    /\ scanner \in {"main", "backup"}
    /\ saved = FALSE /\ cancelled = FALSE /\ loaded = FALSE
    /\ pc = "idle" /\ next = 1
    /\ worker = [w \in Workers |-> Gone]
    /\ asked = {} /\ lost = {} /\ unread = {} /\ early = {}
    /\ faults = 0 /\ stops = 0

-----------------------------------------------------------------------------
(* Calls that take the scanner's context.                                  *)

Fault == faults < MaxFaults /\ faults' = faults + 1

\* A worker goes on at `step` of its transfer.
Continue(w, step) == worker' = [worker EXCEPT ![w].step = step]

\* It takes up the transaction's next transfer, or waits for a transaction.
NextLeg(w) ==
    LET me == worker[w] IN
    worker' = [worker EXCEPT ![w] =
        IF me.leg < Len(Block[me.tx].legs)
        THEN [step |-> "look", tx |-> me.tx, leg |-> me.leg + 1, hit |-> {}]
        ELSE Idle]

-----------------------------------------------------------------------------
(* The scan of the block.                                                  *)

Scanning(w, step) == pc = "scan" /\ worker[w].step = step

\* GetBlockByNum answers; every transaction is put on the channel, the workers
\* start.  (A shutdown while they are put there leaves some out, as one before
\* they are received does.)
StartScan ==
    /\ pc = "idle" /\ ~saved /\ ~cancelled
    /\ pc' = "scan"
    /\ next' = 1
    /\ worker' = [w \in Workers |-> IF w <= Len(Block) THEN Idle ELSE Gone]
    /\ lost' = {}
    /\ unread' = {} /\ early' = {}
    /\ UNCHANGED <<scanner, tableVars, saved, cancelled, loaded, asked, budgetVars>>

\* handleTRXTransfer takes a TransferContract, ShouldInspectUSDTTriggerTx a call
\* of the USDT contract whose arguments name a watched address.
Inspected(tx, watched) ==
    \/ tx.kind = "trx"
    \/ tx.kind = "usdt" /\ tx.call \cap watched # {}

\* A worker receives a transaction, shutdown or not: select takes either way
\* when both are ready.
Receive(w) ==
    LET tx == Block[next] IN
    /\ Scanning(w, "idle") /\ next <= Len(Block)
    /\ next' = next + 1 /\ Reads(next)
    /\ \E watched \in Cache :
          worker' = [worker EXCEPT ![w] =
              IF ~Inspected(tx, watched) THEN Idle
              ELSE [step |-> IF tx.kind = "trx" THEN "look" ELSE "info",
                    tx |-> next, leg |-> IF tx.kind = "trx" THEN 1 ELSE 0, hit |-> {}]]
    /\ UNCHANGED <<scanner, tableVars, saved, pc, cancelled, loaded, asked, lost, unread, budgetVars>>

\* GetTransactionInfoByID: without a receipt the transaction is given up.
LoadReceipt(w) ==
    /\ Scanning(w, "info")
    /\ \/ ~cancelled /\ NextLeg(w) /\ UNCHANGED <<unread, faults>>
       \/ /\ worker' = [worker EXCEPT ![w] = Idle]
          /\ \/ cancelled /\ UNCHANGED <<unread, faults>>
             \/ /\ ~cancelled /\ Fault
                /\ unread' = unread \cup {worker[w].tx}
    /\ UNCHANGED <<scanner, tableVars, saved, pc, next, cancelled, loaded, asked, lost, early, stops>>

RowOf(w, side) == [side |-> side, tx |-> worker[w].tx, leg |-> worker[w].leg]

\* Which end of the transfer is watched.
Look(w) ==
    /\ Scanning(w, "look")
    /\ \E watched \in Cache :
          LET hit == {side \in Side : Watch(RowOf(w, side)) \in watched} IN
          IF hit = {} THEN NextLeg(w)
          ELSE worker' = [worker EXCEPT ![w].hit = hit,
                                        ![w].step = IF "OUT" \in hit THEN "out" ELSE "in"]
    /\ Reads(worker[w].tx)
    /\ UNCHANGED <<scanner, tableVars, saved, pc, next, cancelled, loaded, asked, lost, unread, budgetVars>>

AfterOut(w) == IF "IN" \in worker[w].hit THEN "in" ELSE "ask"

\* An insert that returns an error may have stored its row all the same.
Inserted(row) ==
    /\ ~cancelled
    /\ stored' = stored \cup {row}
    /\ UNCHANGED <<lost, faults>>
InsertFails(row) ==
    /\ stored' \in {stored, stored \cup {row}}
    /\ \/ cancelled /\ UNCHANGED <<lost, faults>>
       \/ ~cancelled /\ Fault /\ lost' = lost \cup {row}

\* After a failed insert the main scanner gives the transfer up; a backup logs
\* the error and goes on.
NotifyAnyway(w, step) ==
    Continue(w, IF scanner = "backup" THEN step
                ELSE IF worker[w].step = "out" THEN "tellOut" ELSE "tellIn")
GiveUp(w, step) == NextLeg(w)
AfterFailure(w, step) == IF scanner = "main" THEN NextLeg(w) ELSE Continue(w, step)

InsertOut(w) ==
    /\ Scanning(w, "out")
    /\ \/ Inserted(RowOf(w, "OUT"))
          /\ Continue(w, IF scanner = "main" THEN "tellOut" ELSE AfterOut(w))
       \/ InsertFails(RowOf(w, "OUT")) /\ AfterFailure(w, AfterOut(w))
    /\ UNCHANGED <<scanner, told, saved, pc, next, cancelled, loaded, asked, unread, early, stops>>

InsertIn(w) ==
    /\ Scanning(w, "in")
    /\ \/ Inserted(RowOf(w, "IN"))
          /\ Continue(w, IF scanner = "main" THEN "tellIn" ELSE "ask")
       \/ InsertFails(RowOf(w, "IN")) /\ AfterFailure(w, "ask")
    /\ UNCHANGED <<scanner, told, saved, pc, next, cancelled, loaded, asked, unread, early, stops>>

\* notifier.NotifyTransfer: put on a queue in memory; only the main scanner has one.
Notify(w) ==
    /\ \/ Scanning(w, "tellOut") /\ told' = told \cup {RowOf(w, "OUT")}
          /\ Continue(w, AfterOut(w))
       \/ Scanning(w, "tellIn") /\ told' = told \cup {RowOf(w, "IN")}
          /\ Continue(w, "ask")
    /\ UNCHANGED <<scanner, stored, saved, pc, next, cancelled, loaded, asked, failVars, budgetVars>>

\* markBalance, or triggerImmediateBalanceRefresh, for each watched end.
AskRefresh(w) ==
    /\ Scanning(w, "ask")
    /\ asked' = asked \cup {RowOf(w, side) : side \in worker[w].hit}
    /\ NextLeg(w)
    /\ UNCHANGED <<scanner, tableVars, saved, pc, next, cancelled, loaded, failVars, budgetVars>>

\* The channel is empty and closed, or the context is done.
NeverClosed == FALSE
Drained == next > Len(Block)
WorkerEnds(w) ==
    /\ Scanning(w, "idle")
    /\ Drained \/ cancelled
    /\ worker' = [worker EXCEPT ![w] = Gone]
    /\ UNCHANGED <<scanner, tableVars, saved, pc, next, cancelled, loaded, asked, failVars, budgetVars>>

\* group.Wait: context.Canceled is no error of the scan.
Join ==
    /\ pc = "scan" /\ \A w \in Workers : worker[w] = Gone
    /\ pc' = "save"
    /\ UNCHANGED <<scanner, tableVars, saved, next, worker, cancelled, loaded, asked, failVars, budgetVars>>

\* SaveLastBlock, with the context of the scan; if it fails the next run scans
\* the block again.
SaveRegardless == TRUE
MaySave == ~cancelled
SaveCursor ==
    /\ pc = "save"
    /\ pc' = "idle"
    /\ \/ MaySave /\ saved' = TRUE /\ UNCHANGED faults
       \/ cancelled /\ UNCHANGED <<saved, faults>>
       \/ ~cancelled /\ Fault /\ UNCHANGED saved
    /\ UNCHANGED <<scanner, tableVars, next, worker, cancelled, loaded, asked, failVars, stops>>

-----------------------------------------------------------------------------
(* Shutdowns and crashes.                                                  *)

StopAllowed == ~saved /\ stops < MaxStops /\ stops' = stops + 1

\* The process is told to end.
Shutdown ==
    /\ pc # "idle" /\ ~cancelled /\ StopAllowed
    /\ cancelled' = TRUE
    /\ UNCHANGED <<scanner, tableVars, saved, scanVars, loaded, asked, failVars, faults>>

\* It starts anew, after a shutdown or a crash; nothing of it lives on.
WorkersLeak == UNCHANGED worker
DropWorkers == worker' = [w \in Workers |-> Gone]
Begin ==
    /\ pc' = "idle" /\ DropWorkers
    /\ next' = 1
    /\ cancelled' = FALSE
    /\ loaded' = FALSE /\ asked' = {}
    /\ UNCHANGED <<scanner, tableVars, saved, failVars, faults>>
Restart == pc = "idle" /\ cancelled /\ Begin /\ UNCHANGED stops
Crash == pc # "idle" /\ ~cancelled /\ StopAllowed /\ Begin

WorkerStep(w) ==
    \/ Receive(w) \/ LoadReceipt(w) \/ Look(w) \/ InsertOut(w)
    \/ InsertIn(w) \/ Notify(w) \/ AskRefresh(w) \/ WorkerEnds(w)
\* Once the cursor has passed the block the scanner is done with it.
Passed == saved /\ UNCHANGED recordsVars

ScanStep == StartScan \/ Join \/ SaveCursor \/ Restart

RecordsNext ==
    \/ ScanStep \/ Shutdown \/ Crash
    \/ \E w \in Workers : WorkerStep(w)
    \/ LoadCache \/ Passed

RecordsSpec == RecordsInit /\ [][RecordsNext]_recordsVars

\* A scanner polls on, its workers run, a supervisor restarts it.
RecordsFairSpec ==
    /\ RecordsSpec
    /\ WF_recordsVars(ScanStep)
    /\ \A w \in Workers : WF_recordsVars(WorkerStep(w))

-----------------------------------------------------------------------------
\* The rows a scan of the block owes to addresses watched throughout.
Due == {row \in Rows : Watch(row) \in Steady /\ Inspected(Block[row.tx], Steady)}

\* What failed calls of the scan account for: a receipt, all of its transfers;
\* an insert, in a backup its own row, in the main scanner the whole transfer.
\* And what a process looked at before its address cache was loaded.
Excused ==
    {row \in Rows :
        \/ row.tx \in unread \cup early
        \/ row \in lost
        \/ scanner = "main" /\ \E side \in Side : [row EXCEPT !.side = side] \in lost}

\* A cursor passes the block only when every transfer of it is on record, and
\* the main scanner's notified: whatever was shut down or crashed in between,
\* only a call that failed by itself costs rows, and no more than its own, or a
\* process that scans before its first Reload.
SavedMeansRecorded ==
    saved =>
        /\ Due \ Excused \subseteq stored
        /\ scanner = "main" => Due \ Excused \subseteq told

\* A customer is never notified of a transfer the tables do not hold.
ToldIsStored == told \subseteq stored

\* When the cursor passes the block, the balances of its watched addresses are
\* about to be refreshed; a backup asks for that even where its insert failed.
SaveCoversBalances ==
    [][saved' /\ ~saved =>
          \A row \in Due :
              \/ row \in asked
              \/ row.tx \in unread \cup early
              \/ scanner = "main" /\ row \in Excused]_recordsVars

\* However often it is stopped, the scanner gets past the block in the end.
BlockGetsSaved == <>saved
=============================================================================
