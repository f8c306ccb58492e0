----------------------------- MODULE BscBalances ----------------------------
(***************************************************************************)
(* How one watched account's BNB and USDT balances get into the table      *)
(* bsc_asset_balances: refreshAddressBalances and its callers in           *)
(* internal/service/bsc_scanner.go.  The scanner after a block or a run,   *)
(* the goroutine of triggerImmediateBalanceRefresh and the refreshes asked *)
(* for by the dashboard or the schedule work on the same two rows, which,  *)
(* unlike the Tron ones, carry no block number: the last writer wins.      *)
(***************************************************************************)
EXTENDS Naturals

CONSTANTS
    BNBs, USDTs,  \* the amounts the account may own of each asset
    NoAmount,     \* no amount, and what the throttled refresh compares with
    Full,         \* whether refreshes by hand and by schedule happen
    MaxTransfers, \* bound on the account's transfers
    MaxFaults     \* bound on failed node and database calls

ASSUME BscConstantsOK ==
    /\ BNBs # {} /\ USDTs # {}
    /\ NoAmount \notin BNBs \cup USDTs
    /\ Full \in BOOLEAN /\ MaxTransfers \in Nat /\ MaxFaults \in Nat

Assets == {"BNB", "USDT"}
Amounts == BNBs \cup USDTs
Owned == [BNB : BNBs, USDT : USDTs]
Zero == [BNB |-> 0, USDT |-> 0]
Unknown == [a \in Assets |-> NoAmount]
Writers == {"scanner", "loop", "full"}

VARIABLES
    chain,      \* what the account owns
    past,       \* what it owned at some time
    transfers,  \* transfers so far
    ahead,      \* blocks with a transfer that the scanner has not reached
    dirty,      \* deferredRefresh: scanned, not refreshed yet
    row,        \* bsc_asset_balances
    pending,    \* immediatePending
    pc,         \* each writer in refreshAddressBalances
    cmp,        \* currentBNB, currentUSDT: what the reads are compared with
    val,        \* the balance just read
    faults

world == <<chain, past, transfers>>
work == <<pc, cmp, val>>
bscVars == <<world, ahead, dirty, row, pending, work, faults>>

BscTypeOK ==
    /\ chain \in past /\ past \subseteq Owned
    /\ transfers \in 0 .. MaxTransfers
    /\ ahead \in 0 .. transfers
    /\ dirty \in BOOLEAN /\ pending \in BOOLEAN
    /\ row \in Owned
    /\ pc \in [Writers -> {"none", "take", "load", "BNB", "putBNB", "USDT", "putUSDT"}]
    /\ cmp \in [Writers -> [Assets -> Amounts \cup {0, NoAmount}]]
    /\ val \in [Writers -> Amounts \cup {NoAmount}]
    /\ faults \in 0 .. MaxFaults

\* An account whose balances are in the table and which nobody works on.
BscInit ==
    /\ chain \in Owned /\ past = {chain} /\ row = chain
    /\ transfers = 0 /\ ahead = 0
    /\ dirty = FALSE /\ pending = FALSE
    /\ pc = [w \in Writers |-> "none"]
    /\ cmp = [w \in Writers |-> Unknown]
    /\ val = [w \in Writers |-> NoAmount]
    /\ faults = 0

-----------------------------------------------------------------------------
(* refreshAddressBalances, one step per database or node call.             *)

StepTo(w, l) == pc' = [pc EXCEPT ![w] = l]

\* The call ends: the loop looks for its next request, the others return.
ReturnAtOnce(w) == "none"
After(w) == IF w = "loop" THEN "take" ELSE "none"

Return(w) ==
    /\ StepTo(w, After(w))
    /\ cmp' = [cmp EXCEPT ![w] = Unknown]
    /\ val' = [val EXCEPT ![w] = NoAmount]

\* getCurrentBSCBalances returns (usdt, bnb); its caller names the results
\* currentBNB and currentUSDT.
Current(r) == [BNB |-> r.USDT, USDT |-> r.BNB]

\* The balances it compares with come from the table or, if that fails, from the
\* node or are zero.
Load(w) ==
    /\ pc[w] = "load"
    /\ \/ cmp' = [cmp EXCEPT ![w] = Current(row)] /\ UNCHANGED faults
       \/ /\ faults < MaxFaults
          /\ faults' = faults + 1
          /\ \E r \in {chain, Zero} : cmp' = [cmp EXCEPT ![w] = Current(r)]
    /\ StepTo(w, "BNB")
    /\ UNCHANGED <<val, world, ahead, dirty, row, pending>>

\* A balance equal to the one compared with is not stored.
ReadBNB(w) ==
    /\ pc[w] = "BNB"
    /\ IF chain.BNB = cmp[w].BNB
       THEN StepTo(w, "USDT") /\ UNCHANGED val
       ELSE val' = [val EXCEPT ![w] = chain.BNB] /\ StepTo(w, "putBNB")
    /\ UNCHANGED <<cmp, world, ahead, dirty, row, pending, faults>>

ReadUSDT(w) ==
    /\ pc[w] = "USDT"
    /\ IF chain.USDT = cmp[w].USDT
       THEN Return(w)
       ELSE val' = [val EXCEPT ![w] = chain.USDT] /\ StepTo(w, "putUSDT") /\ UNCHANGED cmp
    /\ UNCHANGED <<world, ahead, dirty, row, pending, faults>>

\* UpsertBSCBalance.
UpsertUSDT(asset, v) == row' = [row EXCEPT !.USDT = v]
Upsert(asset, v) == row' = [row EXCEPT ![asset] = v]

PutBNB(w) ==
    /\ pc[w] = "putBNB"
    /\ Upsert("BNB", val[w])
    /\ val' = [val EXCEPT ![w] = NoAmount]
    /\ StepTo(w, "USDT")
    /\ UNCHANGED <<cmp, world, ahead, dirty, pending, faults>>

PutUSDT(w) ==
    /\ pc[w] = "putUSDT"
    /\ Upsert("USDT", val[w])
    /\ Return(w)
    /\ UNCHANGED <<world, ahead, dirty, pending, faults>>

\* A failed call is logged and the other asset goes on.
Fault(w) ==
    /\ faults < MaxFaults
    /\ faults' = faults + 1
    /\ \/ /\ pc[w] \in {"BNB", "putBNB"}
          /\ StepTo(w, "USDT")
          /\ val' = [val EXCEPT ![w] = NoAmount]
          /\ UNCHANGED cmp
       \/ pc[w] \in {"USDT", "putUSDT"} /\ Return(w)
    /\ UNCHANGED <<world, ahead, dirty, row, pending>>

Refresh(w) == Load(w) \/ ReadBNB(w) \/ PutBNB(w) \/ ReadUSDT(w) \/ PutUSDT(w)

-----------------------------------------------------------------------------
(* Who refreshes.                                                          *)

\* triggerImmediateBalanceRefresh.
TriggerOnly == pending' = TRUE /\ UNCHANGED pc
Trigger == /\ pending' = TRUE
           /\ pc' = IF pc["loop"] = "none" THEN [pc EXCEPT !["loop"] = "take"] ELSE pc

\* scanBlock of a block with a transfer: a record that is stored triggers the
\* immediate refresh; the address is refreshed now or at the end of the run.
ScanBlock ==
    /\ pc["scanner"] = "none"
    /\ ahead > 0
    /\ ahead' = ahead - 1
    /\ dirty' = TRUE
    /\ \/ Trigger /\ UNCHANGED faults
       \/ /\ faults < MaxFaults
          /\ faults' = faults + 1
          /\ UNCHANGED <<pc, pending>>
    /\ UNCHANGED <<cmp, val, world, row>>

RefreshHit ==
    /\ pc["scanner"] = "none"
    /\ dirty
    /\ dirty' = FALSE
    /\ StepTo("scanner", "load")
    /\ UNCHANGED <<cmp, val, world, ahead, row, pending, faults>>

\* takeImmediateBalanceRefresh.
TakeImmediate ==
    /\ pc["loop"] = "take"
    /\ StepTo("loop", IF pending THEN "load" ELSE "none")
    /\ pending' = FALSE
    /\ UNCHANGED <<cmp, val, world, ahead, dirty, row, faults>>

\* RefreshAddresses compares, RefreshAllBalancesThrottled stores what it reads.
FullRefresh ==
    /\ Full
    /\ pc["full"] = "none"
    /\ \/ StepTo("full", "load") /\ UNCHANGED cmp
       \/ StepTo("full", "BNB") /\ cmp' = [cmp EXCEPT !["full"] = Unknown]
    /\ UNCHANGED <<val, world, ahead, dirty, row, pending, faults>>

Transfer ==
    /\ transfers < MaxTransfers
    /\ transfers' = transfers + 1
    /\ ahead' = ahead + 1
    /\ \/ \E v \in BNBs : chain' = [chain EXCEPT !.BNB = v]
       \/ \E v \in USDTs : chain' = [chain EXCEPT !.USDT = v]
    /\ past' = past \cup {chain'}
    /\ UNCHANGED <<dirty, row, pending, work, faults>>

BscNext ==
    \/ ScanBlock \/ RefreshHit \/ TakeImmediate \/ FullRefresh \/ Transfer
    \/ \E w \in Writers : Refresh(w) \/ Fault(w)

BscSpec == BscInit /\ [][BscNext]_bscVars

\* The scanner is triggered for ever and goroutines run; nobody has to ask for
\* a full refresh, and the account need not move.
BscFairSpec ==
    /\ BscSpec
    /\ WF_bscVars(ScanBlock) /\ WF_bscVars(RefreshHit) /\ WF_bscVars(TakeImmediate)
    /\ \A w \in Writers : WF_bscVars(Refresh(w))

-----------------------------------------------------------------------------
\* The table never shows an amount the account did not own at some time, of
\* that asset, although refreshes confuse the two assets when they compare.
RowWasOwned == \A a \in Assets : \E p \in past : row[a] = p[a]

\* No wakeup of the immediate refresh is lost.
NoLostWakeup == pending => pc["loop"] # "none"

\* Once transfers stop, the table ends up with what the account owns.
LatestStored == <>[](row = chain)
=============================================================================
