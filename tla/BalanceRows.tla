---------------------------- MODULE BalanceRows -----------------------------
(***************************************************************************)
(* How one watched account's balance of one asset gets into the Tron table *)
(* asset_balances: internal/service/balance_service.go and its callers.    *)
(* Three writers race: the scanner's Flush after a block, the goroutine of *)
(* TriggerImmediateRefresh, and a full refresh (scheduled or by hand).     *)
(* Each reads the chain first and labels what it read with a block number  *)
(* of its own; UpsertBalance lets the higher label win.                    *)
(*                                                                         *)
(* A balance is represented by the last transfer it includes, so reading   *)
(* the account at height h yields BalanceAt(h).                            *)
(***************************************************************************)
EXTENDS Naturals, FiniteSetsExt

CONSTANTS
    MaxBlock,     \* bound: the chain stops growing at this height
    MaxFaults,    \* bound on failed node calls
    SolidReads,   \* GetAccountState (TRX) answers for the solid block; GetUSDTBalance for the head
    SolidSource   \* watcher.tron_block_source = solid

ASSUME ConstantsOK ==
    /\ MaxBlock \in Nat /\ MaxFaults \in Nat
    /\ SolidReads \in BOOLEAN /\ SolidSource \in BOOLEAN

VARIABLES
    head, solid,  \* newest and newest irreversible block
    moves,        \* blocks with a transfer of the account
    cursor,       \* last block the scanner processed
    spc, sVal,    \* the scanner in Flush: control and the balance it read
    pending,      \* immediatePending: block of the waiting request (0: none)
    lpc, lReq, lVal,    \* runImmediateRefreshLoop: control, request, balance read
    fpc, fLabel, fVal,  \* the full refresh: control, label, balance read
    balance, block,     \* the row
    faults

chain == <<head, solid, moves>>
scanner == <<cursor, spc, sVal>>
loop == <<lpc, lReq, lVal>>
full == <<fpc, fLabel, fVal>>
dbRow == <<balance, block>>
vars == <<chain, scanner, pending, loop, full, dbRow, faults>>

TypeOK ==
    /\ head \in 0 .. MaxBlock
    /\ solid \in 0 .. head
    /\ moves \subseteq 1 .. head
    /\ cursor \in 0 .. head
    /\ spc \in {"scan", "flush", "upsert"}
    /\ lpc \in {"none", "take", "check", "timer", "read", "upsert"}
    /\ fpc \in {"idle", "read", "upsert"}
    /\ {pending, lReq} \subseteq moves \cup {0}
    /\ fLabel \in 0 .. head
    /\ {sVal, lVal, fVal, balance} \subseteq moves \cup {0}
    /\ block \in 0 .. head
    /\ faults \in 0 .. MaxFaults

-----------------------------------------------------------------------------
BalanceAt(h) == Max({m \in moves : m <= h} \cup {0})

\* GetAccountState / GetUSDTBalance, and GetAccountStateHead for preferHead.
ReadSolid == BalanceAt(solid)
Read == BalanceAt(IF SolidReads THEN solid ELSE head)
ReadHead == BalanceAt(head)

\* The scanner's target, and the label of a scheduled refresh.
SourceLatest == IF SolidSource THEN solid ELSE head

\* UpsertBalance: an older block number changes nothing.
UpsertAlways(v, n) == balance' = v /\ block' = n
UpsertNextBlock(v, n) ==
    IF n >= block THEN balance' = v /\ block' = n + 1 ELSE UNCHANGED dbRow
UpsertBalance(v, n) ==
    IF n >= block THEN balance' = v /\ block' = n ELSE UNCHANGED dbRow

\* enqueueImmediateRefresh: the newest request replaces a waiting one; a
\* goroutine is started unless one is at work.
EnqueueOnly(n) == pending' = n /\ UNCHANGED lpc
Enqueue(n) == pending' = n /\ lpc' = IF lpc = "none" THEN "take" ELSE lpc

Init ==
    /\ head = 0 /\ solid = 0 /\ moves = {}
    /\ cursor = 0 /\ spc = "scan" /\ sVal = 0
    /\ pending = 0
    /\ lpc = "none" /\ lReq = 0 /\ lVal = 0
    /\ fpc = "idle" /\ fLabel = 0 /\ fVal = 0
    /\ balance = 0 /\ block = 0
    /\ faults = 0

-----------------------------------------------------------------------------
(* The scanner's goroutine.                                                *)

\* scanBlock of the next block; a matched transfer marks the balance dirty and
\* triggers the immediate refresh (markBalance).
ScanBlock ==
    /\ spc = "scan"
    /\ cursor < SourceLatest
    /\ cursor' = cursor + 1
    /\ IF cursor + 1 \in moves
       THEN Enqueue(cursor + 1) /\ spc' = "flush"
       ELSE UNCHANGED <<pending, lpc, spc>>
    /\ UNCHANGED <<sVal, lReq, lVal, chain, full, dbRow, faults>>

\* Flush(blockNum): take the dirty set, read the balance ...
FlushRead ==
    /\ spc = "flush"
    /\ sVal' = Read
    /\ spc' = "upsert"
    /\ UNCHANGED <<cursor, chain, pending, loop, full, dbRow, faults>>

\* ... and store it under the block just scanned.
FlushUpsert ==
    /\ spc = "upsert"
    /\ UpsertBalance(sVal, cursor)
    /\ spc' = "scan" /\ sVal' = 0
    /\ UNCHANGED <<cursor, chain, pending, loop, full, faults>>

-----------------------------------------------------------------------------
(* runImmediateRefreshLoop.                                                *)

\* takeImmediateRefreshRequest: with nothing waiting the goroutine ends, under
\* the lock that enqueueImmediateRefresh takes.
LoopTake ==
    /\ lpc = "take"
    /\ IF pending = 0
       THEN lpc' = "none" /\ UNCHANGED <<lReq, pending>>
       ELSE lpc' = "check" /\ lReq' = pending /\ pending' = 0
    /\ UNCHANGED <<lVal, chain, scanner, full, dbRow, faults>>

\* shouldDelayImmediateRefresh: a large difference (or an error) waits 30
\* seconds, a small one goes on at once.
LoopCheck ==
    /\ lpc = "check"
    /\ \/ lpc' = "timer"
       \/ lpc' = "read"
    /\ UNCHANGED <<lReq, lVal, chain, scanner, pending, full, dbRow, faults>>

\* The timer fires: takeLatestImmediateRefreshRequest.
LoopTimer ==
    /\ lpc = "timer"
    /\ lpc' = "read"
    /\ lReq' = IF pending = 0 THEN lReq ELSE pending
    /\ pending' = 0
    /\ UNCHANGED <<lVal, chain, scanner, full, dbRow, faults>>

\* refreshBalance: TRX is read with preferHead here.
LoopRead ==
    /\ lpc = "read"
    /\ lVal' = ReadHead
    /\ lpc' = "upsert"
    /\ UNCHANGED <<lReq, chain, scanner, pending, full, dbRow, faults>>

LoopUpsert ==
    /\ lpc = "upsert"
    /\ UpsertBalance(lVal, lReq)
    /\ lpc' = "take" /\ lReq' = 0 /\ lVal' = 0
    /\ UNCHANGED <<chain, scanner, pending, full, faults>>

-----------------------------------------------------------------------------
(* A full refresh: RefreshAllThrottled under the label of the configured   *)
(* source, RefreshAddresses and RefreshAddressesWithPositiveTRX under the  *)
(* head block number.  The label is read once, the balances much later.    *)

FullBegin ==
    /\ fpc = "idle"
    /\ fLabel' \in {SourceLatest, head}
    /\ fpc' = "read"
    /\ UNCHANGED <<fVal, chain, scanner, pending, loop, dbRow, faults>>

FullRead ==
    /\ fpc = "read"
    /\ fVal' = Read
    /\ fpc' = "upsert"
    /\ UNCHANGED <<fLabel, chain, scanner, pending, loop, dbRow, faults>>

FullUpsert ==
    /\ fpc = "upsert"
    /\ UpsertBalance(fVal, fLabel)
    /\ fpc' = "idle" /\ fLabel' = 0 /\ fVal' = 0
    /\ UNCHANGED <<chain, scanner, pending, loop, faults>>

\* An account without the wanted state (inactive, no TRX) is passed over.
FullSkip ==
    /\ fpc = "read"
    /\ fpc' = "idle" /\ fLabel' = 0
    /\ UNCHANGED <<fVal, chain, scanner, pending, loop, dbRow, faults>>

-----------------------------------------------------------------------------
\* A balance that cannot be read or stored is logged and forgotten.
Fault ==
    /\ faults < MaxFaults
    /\ faults' = faults + 1
    /\ \/ spc # "scan" /\ spc' = "scan" /\ sVal' = 0 /\ UNCHANGED <<loop, full>>
       \/ /\ lpc \in {"read", "upsert"}
          /\ lpc' = "take" /\ lReq' = 0 /\ lVal' = 0
          /\ UNCHANGED <<spc, sVal, full>>
       \/ /\ fpc # "idle"
          /\ fpc' = "idle" /\ fLabel' = 0 /\ fVal' = 0
          /\ UNCHANGED <<spc, sVal, loop>>
    /\ UNCHANGED <<cursor, chain, pending, dbRow>>

\* A block without or with a transfer of the account.
ChainGrows ==
    /\ head < MaxBlock
    /\ head' = head + 1
    /\ \/ moves' = moves
       \/ moves' = moves \cup {head + 1}
    /\ UNCHANGED <<solid, scanner, pending, loop, full, dbRow, faults>>

Solidify ==
    /\ solid < head
    /\ solid' = solid + 1
    /\ UNCHANGED <<head, moves, scanner, pending, loop, full, dbRow, faults>>

ScannerStep == ScanBlock \/ FlushRead \/ FlushUpsert
LoopStep == LoopTake \/ LoopCheck \/ LoopTimer \/ LoopRead \/ LoopUpsert
FullStep == FullRead \/ FullUpsert \/ FullSkip

Next == ScannerStep \/ LoopStep \/ FullBegin \/ FullStep \/ Fault \/ ChainGrows \/ Solidify

Spec == Init /\ [][Next]_vars

\* The scanner is triggered for ever, goroutines run, timers fire, blocks
\* become solid.  A full refresh that began ends; none is assumed to begin.
FairSpec ==
    Spec /\ WF_vars(ScannerStep) /\ WF_vars(LoopStep) /\ WF_vars(FullStep) /\ WF_vars(Solidify)

-----------------------------------------------------------------------------
\* The block number beside a balance is honest: the balance includes every
\* transfer up to that block.  It is what lets the higher label win in
\* UpsertBalance, and three writers that label before or after they read
\* have to keep it.
LabelHonest == balance >= BalanceAt(block)

\* No wakeup is lost: a waiting request always has a goroutine that will take
\* it, however enqueueing and the end of the loop fall together.
NoLostWakeup == pending # 0 => lpc # "none"

\* Once transfers stop, the row ends up with the account's latest balance.
LatestStored == <>[](balance = BalanceAt(head))
=============================================================================
