---------------------------- MODULE RefreshProofs ----------------------------
(***************************************************************************)
(* Who may refresh every balance of a chain, and what such a refresh, the  *)
(* scanner and the immediate refresh store of a BSC account: the proofs    *)
(* about FullRefresh, for every set of concurrent requests, and about      *)
(* BscBalances, for any amounts.  The two share no variable; the names of  *)
(* BscBalances that both would have begin with Bsc.                        *)
(***************************************************************************)
EXTENDS FullRefresh, BscBalances, TLAPS

-----------------------------------------------------------------------------
(* Who may refresh (FullRefresh).                                          *)

\* From Admit until the flag is cleared, a request owns the flag of its chain.
Busy(r) == rpc[r] \in {"work", "clear"}

OneBusy == \A q, r \in Requests : Busy(q) /\ Busy(r) => q = r
BusyHasFlag == \A r \in Requests : Busy(r) => running[rchain[r]]
TrackerHasWorker == \A c \in manual : \E r \in Requests : Working(r) /\ rchain[r] = c
WorkerInTracker == \A r \in Requests : Working(r) => rchain[r] \in manual

\* The inductive invariant: flags, tracker and requests at work name the same
\* chains, and at most one request is at work or about to clear its flag.
Inv ==
    /\ TypeOK
    /\ OneBusy
    /\ BusyHasFlag
    /\ TrackerHasWorker
    /\ WorkerInTracker
    /\ FlagsAreReleased

USE DEF RequestPC, Chains

LEMMA NextDueIsDue ==
    ASSUME due \subseteq Chains, due # {}
    PROVE  NextDue \in due /\ NextDue \in Chains
BY DEF NextDue

LEMMA NoChainIsNoChain ==
    ASSUME TypeOK, NEW r \in Requests, rpc[r] # "none"
    PROVE  rchain[r] \in Chains
BY DEF TypeOK

\* The steps of a request that neither start nor end a job.
LEMMA QuietStep ==
    ASSUME Inv, NEW r \in Requests, ~Busy(r),
           UNCHANGED <<manual, running>>,
           rpc' \in [Requests -> RequestPC], rchain' \in [Requests -> Chains \cup {NoChain}],
           \A q \in Requests \ {r} : rpc'[q] = rpc[q] /\ rchain'[q] = rchain[q],
           ~Busy(r)'
    PROVE  (OneBusy /\ BusyHasFlag /\ TrackerHasWorker /\ WorkerInTracker /\ FlagsAreReleased)'
<1>1. \A q \in Requests : Busy(q)' <=> Busy(q)
  BY DEF Busy
<1>2. \A q \in Requests : Busy(q) => rchain'[q] = rchain[q] /\ rpc'[q] = rpc[q]
  BY DEF Busy
<1>3. OneBusy'
  BY <1>1 DEF Inv, OneBusy
<1>4. BusyHasFlag'
  BY <1>1, <1>2 DEF Inv, BusyHasFlag
<1>5. \A q \in Requests : Working(q)' <=> Working(q)
  BY <1>1, <1>2 DEF Working, Busy
<1>6. TrackerHasWorker'
  BY <1>2, <1>5 DEF Inv, TrackerHasWorker, Working, Busy
<1>7. WorkerInTracker'
  BY <1>2, <1>5 DEF Inv, WorkerInTracker, Working, Busy
<1>8. FlagsAreReleased'
  BY <1>1, <1>2 DEF Inv, FlagsAreReleased, Busy
<1>. QED BY <1>3, <1>4, <1>6, <1>7, <1>8

LEMMA InitInv == Init => Inv
<1>. SUFFICES ASSUME Init PROVE Inv
  OBVIOUS
<1>1. TypeOK
  BY DEF Init, TypeOK
<1>2. \A r \in Requests : ~Busy(r) /\ ~Working(r)
  BY DEF Init, Busy, Working
<1>3. FlagsAreReleased
  BY DEF Init, FlagsAreReleased
<1>. QED BY <1>1, <1>2, <1>3 DEF Init, Inv, OneBusy, BusyHasFlag, TrackerHasWorker, WorkerInTracker

LEMMA TypeStep == TypeOK /\ [Next]_vars => TypeOK'
<1>. SUFFICES ASSUME TypeOK, [Next]_vars PROVE TypeOK'
  OBVIOUS
<1>. USE DEF TypeOK, requestVars, loopVars
<1>1. ASSUME NEW r \in Requests, NEW c \in Chains, Request(r, c) PROVE TypeOK'
  <2>1. c # NoChain
    BY ConstantsOK
  <2>. QED BY <1>1, <2>1 DEF Request, Goto
<1>2. ASSUME NEW r \in Requests, CheckScheduled(r) PROVE TypeOK'
  BY <1>2 DEF CheckScheduled, End, Goto
<1>3. ASSUME NEW r \in Requests, CheckManual(r) PROVE TypeOK'
  BY <1>3 DEF CheckManual, End, Goto
<1>4. ASSUME NEW r \in Requests, LoadAddresses(r) PROVE TypeOK'
  BY <1>4 DEF LoadAddresses, End, Goto
<1>5. ASSUME NEW r \in Requests, Admit(r) PROVE TypeOK'
  BY <1>5 DEF Admit, End, Goto
<1>6. ASSUME NEW r \in Requests, FinishStatus(r) PROVE TypeOK'
  BY <1>6 DEF FinishStatus, DropEntry, Goto
<1>7. ASSUME NEW r \in Requests, ClearRunning(r) PROVE TypeOK'
  BY <1>7 DEF ClearRunning, ClearFlag, End, Goto
<1>8. ASSUME NEW c \in Chains, CooldownEnds(c) PROVE TypeOK'
  BY <1>8 DEF CooldownEnds
<1>9. ASSUME WakeUp PROVE TypeOK'
  BY <1>9 DEF WakeUp
<1>10. ASSUME CheckActiveManual PROVE TypeOK'
  BY <1>10, NextDueIsDue DEF CheckActiveManual, PassOver
<1>11. ASSUME TryStart PROVE TypeOK'
  BY <1>11, NextDueIsDue DEF TryStart, PassOver
<1>12. ASSUME FinishScheduled PROVE TypeOK'
  BY <1>12, NextDueIsDue DEF FinishScheduled, Finish, PassOver
<1>13. CASE UNCHANGED vars
  BY <1>13 DEF vars
<1>. QED BY <1>1, <1>2, <1>3, <1>4, <1>5, <1>6, <1>7, <1>8, <1>9, <1>10, <1>11, <1>12, <1>13
        DEF Next, RequestStep, LoopStep

LEMMA InvStep == Inv /\ [Next]_vars => Inv'
<1>. SUFFICES ASSUME Inv, [Next]_vars PROVE Inv'
  OBVIOUS
<1>. USE DEF requestVars, loopVars
<1>1. TypeOK /\ TypeOK'
  BY TypeStep DEF Inv
<1>. DEFINE Rest == OneBusy /\ BusyHasFlag /\ TrackerHasWorker /\ WorkerInTracker /\ FlagsAreReleased
<1>2. SUFFICES Rest'
  BY <1>1, <1>2 DEF Inv
<1>3. ASSUME NEW r \in Requests, NEW c \in Chains, Request(r, c) PROVE Rest'
  <2>1. ~Busy(r) /\ ~Busy(r)'
    BY <1>1, <1>3 DEF Request, Goto, Busy, TypeOK
  <2>2. \A q \in Requests \ {r} : rpc'[q] = rpc[q] /\ rchain'[q] = rchain[q]
    BY <1>1, <1>3 DEF Request, Goto, TypeOK
  <2>3. UNCHANGED <<manual, running>>
    BY <1>3 DEF Request
  <2>. QED BY <1>1, <2>1, <2>2, <2>3, QuietStep DEF TypeOK
<1>4. ASSUME NEW r \in Requests, CheckScheduled(r) \/ CheckManual(r) \/ LoadAddresses(r) PROVE Rest'
  <2>. USE DEF CheckScheduled, CheckManual, LoadAddresses, End, Goto
  <2>1. ~Busy(r) /\ ~Busy(r)'
    BY <1>1, <1>4 DEF Busy, TypeOK
  <2>2. \A q \in Requests \ {r} : rpc'[q] = rpc[q] /\ rchain'[q] = rchain[q]
    BY <1>1, <1>4 DEF TypeOK
  <2>3. UNCHANGED <<manual, running>>
    BY <1>4
  <2>. QED BY <1>1, <2>1, <2>2, <2>3, QuietStep DEF TypeOK
<1>5. ASSUME NEW r \in Requests, Admit(r) PROVE Rest'
  <2>. DEFINE c == rchain[r]
  <2>. c \in Chains /\ ~Busy(r) /\ rpc[r] = "admit"
    BY <1>1, <1>5, NoChainIsNoChain DEF Admit, Busy
  <2>1. CASE ManualRunning(c) \/ c \in cooling
    <3>1. ~Busy(r)'
      BY <1>1, <1>5, <2>1 DEF Admit, End, Goto, Busy, TypeOK
    <3>2. \A q \in Requests \ {r} : rpc'[q] = rpc[q] /\ rchain'[q] = rchain[q]
      BY <1>1, <1>5, <2>1 DEF Admit, End, Goto, TypeOK
    <3>3. UNCHANGED <<manual, running>>
      BY <1>5, <2>1 DEF Admit
    <3>. QED BY <1>1, <3>1, <3>2, <3>3, QuietStep DEF TypeOK
  <2>2. CASE ~(ManualRunning(c) \/ c \in cooling)
    <3>1. /\ running' = [running EXCEPT ![c] = TRUE]
          /\ manual' = manual \cup {c}
          /\ rpc' = [rpc EXCEPT ![r] = "work"]
          /\ rchain' = rchain
      BY <1>5, <2>2 DEF Admit, Goto
    <3>2. \A d \in Chains : ~running[d]
      BY <2>2 DEF ManualRunning
    <3>3. \A q \in Requests : ~Busy(q)
      <4>1. ASSUME NEW q \in Requests, Busy(q) PROVE FALSE
        <5>1. rchain[q] \in Chains
          BY <1>1, <4>1, NoChainIsNoChain DEF Busy
        <5>2. running[rchain[q]]
          BY <4>1 DEF Inv, BusyHasFlag
        <5>. QED BY <3>2, <5>1, <5>2
      <4>. QED BY <4>1
    <3>4. \A q \in Requests : Busy(q)' => q = r
      BY <1>1, <3>1, <3>3 DEF Busy, TypeOK
    <3>5. Working(r)' /\ rchain'[r] = c
      BY <1>1, <3>1 DEF Working, TypeOK
    <3>6. manual = {}
      BY <3>3 DEF Inv, TrackerHasWorker, Working, Busy
    <3>7. OneBusy'
      BY <3>4 DEF OneBusy
    <3>8. BusyHasFlag'
      BY <1>1, <3>1, <3>4 DEF BusyHasFlag, TypeOK
    <3>9. TrackerHasWorker'
      BY <3>1, <3>5, <3>6 DEF TrackerHasWorker
    <3>10. WorkerInTracker'
      <4>1. \A q \in Requests : Working(q)' => q = r
        BY <3>4 DEF Working, Busy
      <4>. QED BY <3>1, <4>1 DEF WorkerInTracker
    <3>11. FlagsAreReleased'
      <4>1. \A d \in Chains : running'[d] => d = c
        BY <1>1, <3>1, <3>2 DEF TypeOK
      <4>. QED BY <3>5, <4>1 DEF FlagsAreReleased, Working
    <3>. QED BY <3>7, <3>8, <3>9, <3>10, <3>11
  <2>. QED BY <2>1, <2>2
<1>6. ASSUME NEW r \in Requests, FinishStatus(r) PROVE Rest'
  <2>1. /\ rpc[r] = "work"
        /\ manual' = manual \ {rchain[r]}
        /\ rpc' = [rpc EXCEPT ![r] = "clear"]
        /\ UNCHANGED <<running, rchain>>
    BY <1>6 DEF FinishStatus, DropEntry, Goto
  <2>2. \A q \in Requests : Busy(q)' <=> Busy(q)
    BY <1>1, <2>1 DEF Busy, TypeOK
  <2>3. \A q \in Requests : ~Working(q)'
    BY <1>1, <2>1 DEF Inv, OneBusy, Busy, Working, TypeOK
  <2>4. manual' = {}
    BY <2>1 DEF Inv, OneBusy, Busy, TrackerHasWorker, Working
  <2>5. OneBusy'
    BY <2>2 DEF Inv, OneBusy
  <2>6. BusyHasFlag'
    BY <2>1, <2>2 DEF Inv, BusyHasFlag
  <2>7. TrackerHasWorker' /\ WorkerInTracker'
    BY <2>3, <2>4 DEF TrackerHasWorker, WorkerInTracker
  <2>8. FlagsAreReleased'
    BY <2>1, <2>2 DEF Inv, FlagsAreReleased, Busy
  <2>. QED BY <2>5, <2>6, <2>7, <2>8
<1>7. ASSUME NEW r \in Requests, ClearRunning(r) PROVE Rest'
  <2>. DEFINE c == rchain[r]
  <2>1. /\ rpc[r] = "clear"
        /\ running' = [running EXCEPT ![c] = FALSE]
        /\ rpc' = [rpc EXCEPT ![r] = "none"]
        /\ manual' = manual
    BY <1>7 DEF ClearRunning, ClearFlag, End, Goto
  <2>2. \A q \in Requests : ~Busy(q)'
    BY <1>1, <2>1 DEF Inv, OneBusy, Busy, TypeOK
  <2>3. \A q \in Requests : ~Working(q)'
    BY <2>2 DEF Busy, Working
  <2>4. manual' = {}
    BY <2>1 DEF Inv, OneBusy, Busy, TrackerHasWorker, Working
  <2>5. \A d \in Chains : ~running'[d]
    BY <1>1, <2>1 DEF Inv, FlagsAreReleased, OneBusy, Busy, TypeOK
  <2>. QED BY <2>2, <2>3, <2>4, <2>5
         DEF OneBusy, BusyHasFlag, TrackerHasWorker, WorkerInTracker, FlagsAreReleased
<1>8. CASE LoopStep \/ (\E c \in Chains : CooldownEnds(c)) \/ UNCHANGED vars
  <2>1. UNCHANGED <<manual, running, rpc, rchain>>
    BY <1>8 DEF LoopStep, WakeUp, CheckActiveManual, TryStart, FinishScheduled, CooldownEnds, vars
  <2>. QED BY <2>1 DEF Inv, OneBusy, Busy, BusyHasFlag, TrackerHasWorker, Working, WorkerInTracker,
                        FlagsAreReleased
<1>. QED BY <1>3, <1>4, <1>5, <1>6, <1>7, <1>8 DEF Next, RequestStep

\* The conditions of admission hold at every moment (startManualRefreshAll, the
\* scheduled loop and finishManualRefresh).
THEOREM InvAlways == Spec => []Inv
BY InitInv, InvStep, PTL DEF Spec

\* A refused request cannot start a second job, however the checks, the loading
\* of addresses and the ends of other jobs interleave.
THEOREM OneJobAtATime == Spec => []OneManualJob
<1>1. Inv => OneManualJob
  BY DEF Inv, OneBusy, OneManualJob, Busy, Working
<1>. QED BY <1>1, InvAlways, PTL

\* The trackers and flags tell other processes the truth about the job at work.
THEOREM StatusIsTrue == Spec => []StatusTellsTheTruth
<1>1. Inv => StatusTellsTheTruth
  <2>. SUFFICES ASSUME Inv PROVE StatusTellsTheTruth
    OBVIOUS
  <2>1. \A r \in Requests : Working(r) => Busy(r)
    BY DEF Working, Busy
  <2>2. \A r \in Requests : Working(r) => rchain[r] \in manual /\ running[rchain[r]]
    BY <2>1 DEF Inv, WorkerInTracker, BusyHasFlag
  <2>3. \A c \in manual : running[c]
    BY <2>2 DEF Inv, TrackerHasWorker
  <2>. QED BY <2>2, <2>3 DEF StatusTellsTheTruth
<1>. QED BY <1>1, InvAlways, PTL

\* A flag never outlives the job that set it.
THEOREM NoFlagLeftBehind == Spec => []FlagsAreReleased
<1>1. Inv => FlagsAreReleased
  BY DEF Inv
<1>. QED BY <1>1, InvAlways, PTL

\* Every variable keeps its type, and control agrees with the data it needs.
THEOREM TypeCorrect == Spec => []TypeOK
<1>1. Inv => TypeOK
  BY DEF Inv
<1>. QED BY <1>1, InvAlways, PTL

-----------------------------------------------------------------------------
(* What the refreshes of a BSC account store (BscBalances).                *)

\* What a writer is about to store is an amount the account owned, of the asset
\* it will be stored under.
Carries(w) ==
    /\ pc[w] = "putBNB" => \E p \in past : val[w] = p.BNB
    /\ pc[w] = "putUSDT" => \E p \in past : val[w] = p.USDT

\* The inductive invariant.
RowInv ==
    /\ BscTypeOK
    /\ RowWasOwned
    /\ \A w \in Writers : Carries(w)

WriterPC == {"none", "take", "load", "BNB", "putBNB", "USDT", "putUSDT"}

LEMMA OwnedFields ==
    ASSUME NEW p \in Owned
    PROVE  /\ p.BNB \in BNBs /\ p.USDT \in USDTs
           /\ p["BNB"] = p.BNB /\ p["USDT"] = p.USDT
           /\ p.BNB \in Amounts /\ p.USDT \in Amounts
  BY DEF Owned, Amounts

LEMMA RowInit == BscInit => RowInv
<1> SUFFICES ASSUME BscInit PROVE RowInv
  OBVIOUS
<1>1. BscTypeOK
  <2>1. cmp \in [Writers -> [Assets -> Amounts \cup {0, NoAmount}]]
    BY DEF BscInit, Unknown
  <2>2. val \in [Writers -> Amounts \cup {NoAmount}]
    BY DEF BscInit
  <2>3. pc \in [Writers -> {"none", "take", "load", "BNB", "putBNB", "USDT", "putUSDT"}]
    BY DEF BscInit
  <2>4. chain \in past /\ past \subseteq Owned /\ row \in Owned
    BY DEF BscInit
  <2>5. /\ transfers \in 0 .. MaxTransfers /\ ahead \in 0 .. transfers /\ faults \in 0 .. MaxFaults
    <3>1. transfers = 0 /\ ahead = 0 /\ faults = 0
      BY DEF BscInit
    <3> QED
      BY <3>1, BscConstantsOK DEF BscConstantsOK
  <2>6. dirty \in BOOLEAN /\ pending \in BOOLEAN
    BY DEF BscInit
  <2> QED
    BY <2>1, <2>2, <2>3, <2>4, <2>5, <2>6 DEF BscTypeOK
<1> QED
  BY <1>1 DEF BscInit, RowInv, RowWasOwned, Carries

\* A writer that moves on, with the row, the account and the others left alone.
LEMMA WriterMoves ==
    ASSUME RowInv, NEW w \in Writers, UNCHANGED <<world, ahead, dirty, row, pending>>,
           faults' \in 0 .. MaxFaults,
           pc' \in [Writers -> WriterPC],
           cmp' \in [Writers -> [Assets -> Amounts \cup {0, NoAmount}]],
           val' \in [Writers -> Amounts \cup {NoAmount}],
           \A u \in Writers \ {w} : pc'[u] = pc[u] /\ val'[u] = val[u],
           Carries(w)'
    PROVE  RowInv'
<1>1. BscTypeOK'
  BY DEF RowInv, BscTypeOK, world, WriterPC
<1>2. RowWasOwned'
  BY DEF RowInv, RowWasOwned, world
<1>3. \A u \in Writers : Carries(u)'
  BY DEF RowInv, Carries, world
<1> QED
  BY <1>1, <1>2, <1>3 DEF RowInv

LEMMA RowTypes ==
    ASSUME RowInv
    PROVE  /\ chain \in Owned /\ chain \in past /\ row \in Owned
           /\ pc \in [Writers -> WriterPC]
           /\ cmp \in [Writers -> [Assets -> Amounts \cup {0, NoAmount}]]
           /\ val \in [Writers -> Amounts \cup {NoAmount}]
           /\ faults \in 0 .. MaxFaults /\ MaxFaults \in Nat
  BY BscConstantsOK DEF BscConstantsOK, RowInv, BscTypeOK, WriterPC

\* A writer between two calls has nothing in its hands.
LEMMA ReturnKeeps ==
    ASSUME RowInv, NEW w \in Writers, Return(w)
    PROVE  /\ pc' \in [Writers -> WriterPC]
           /\ cmp' \in [Writers -> [Assets -> Amounts \cup {0, NoAmount}]]
           /\ val' \in [Writers -> Amounts \cup {NoAmount}]
           /\ \A u \in Writers \ {w} : pc'[u] = pc[u] /\ val'[u] = val[u]
           /\ pc'[w] \notin {"putBNB", "putUSDT"}
<1>1. After(w) \in {"take", "none"} /\ After(w) \in WriterPC
  BY DEF After, WriterPC
<1>2. Unknown \in [Assets -> Amounts \cup {0, NoAmount}]
  BY DEF Unknown
<1> QED
  BY <1>1, <1>2, RowTypes DEF Return, StepTo

LEMMA LoadSafe ==
    ASSUME RowInv, NEW w \in Writers, Load(w)
    PROVE  RowInv'
<1>1. \A r \in Owned \cup {Zero} : Current(r) \in [Assets -> Amounts \cup {0, NoAmount}]
  <2>1. \A r \in Owned \cup {Zero} : r.BNB \in Amounts \cup {0} /\ r.USDT \in Amounts \cup {0}
    BY DEF Owned, Zero, Amounts
  <2> QED
    BY <2>1 DEF Current, Assets
<1>2. /\ cmp' \in [Writers -> [Assets -> Amounts \cup {0, NoAmount}]]
      /\ faults' \in 0 .. MaxFaults
  <2>1. PICK r \in Owned \cup {Zero} : cmp' = [cmp EXCEPT ![w] = Current(r)]
    BY RowTypes DEF Load
  <2>2. faults' \in 0 .. MaxFaults
    BY RowTypes DEF Load
  <2> QED
    BY <1>1, <2>1, <2>2, RowTypes
<1>3. pc' = [pc EXCEPT ![w] = "BNB"] /\ UNCHANGED <<val, world, ahead, dirty, row, pending>>
  BY DEF Load, StepTo
<1>4. pc' \in [Writers -> WriterPC] /\ pc'[w] = "BNB" /\ \A u \in Writers \ {w} : pc'[u] = pc[u]
  BY <1>3, RowTypes DEF WriterPC
<1> QED
  BY <1>2, <1>3, <1>4, RowTypes, WriterMoves DEF Carries

LEMMA ReadBNBSafe ==
    ASSUME RowInv, NEW w \in Writers, ReadBNB(w)
    PROVE  RowInv'
<1>1. UNCHANGED <<cmp, world, ahead, dirty, row, pending, faults>>
  BY DEF ReadBNB
<1>2. CASE chain.BNB = cmp[w].BNB
  <2>1. pc' = [pc EXCEPT ![w] = "USDT"] /\ val' = val
    BY <1>2 DEF ReadBNB, StepTo
  <2>2. pc' \in [Writers -> WriterPC] /\ pc'[w] = "USDT" /\ \A u \in Writers \ {w} : pc'[u] = pc[u]
    BY <2>1, RowTypes DEF WriterPC
  <2> QED
    BY <1>1, <2>1, <2>2, RowTypes, WriterMoves DEF Carries
<1>3. CASE chain.BNB # cmp[w].BNB
  <2>1. pc' = [pc EXCEPT ![w] = "putBNB"] /\ val' = [val EXCEPT ![w] = chain.BNB]
    BY <1>3 DEF ReadBNB, StepTo
  <2>2. /\ pc' \in [Writers -> WriterPC] /\ pc'[w] = "putBNB"
        /\ val' \in [Writers -> Amounts \cup {NoAmount}] /\ val'[w] = chain.BNB
        /\ \A u \in Writers \ {w} : pc'[u] = pc[u] /\ val'[u] = val[u]
    BY <2>1, RowTypes, OwnedFields DEF WriterPC
  <2>3. Carries(w)'
    BY <1>1, <2>2, RowTypes DEF Carries, world
  <2> QED
    BY <1>1, <2>2, <2>3, RowTypes, WriterMoves
<1> QED
  BY <1>2, <1>3

LEMMA ReadUSDTSafe ==
    ASSUME RowInv, NEW w \in Writers, ReadUSDT(w)
    PROVE  RowInv'
<1>1. UNCHANGED <<world, ahead, dirty, row, pending, faults>>
  BY DEF ReadUSDT
<1>2. CASE chain.USDT = cmp[w].USDT
  <2>1. Return(w)
    BY <1>2 DEF ReadUSDT
  <2> QED
    BY <1>1, <2>1, ReturnKeeps, RowTypes, WriterMoves DEF Carries
<1>3. CASE chain.USDT # cmp[w].USDT
  <2>1. pc' = [pc EXCEPT ![w] = "putUSDT"] /\ val' = [val EXCEPT ![w] = chain.USDT] /\ cmp' = cmp
    BY <1>3 DEF ReadUSDT, StepTo
  <2>2. /\ pc' \in [Writers -> WriterPC] /\ pc'[w] = "putUSDT"
        /\ val' \in [Writers -> Amounts \cup {NoAmount}] /\ val'[w] = chain.USDT
        /\ \A u \in Writers \ {w} : pc'[u] = pc[u] /\ val'[u] = val[u]
    BY <2>1, RowTypes, OwnedFields DEF WriterPC
  <2>3. Carries(w)'
    BY <1>1, <2>2, RowTypes DEF Carries, world
  <2> QED
    BY <1>1, <2>1, <2>2, <2>3, RowTypes, WriterMoves
<1> QED
  BY <1>2, <1>3

\* UpsertBSCBalance of an amount the account owned of this asset.
LEMMA UpsertSafe ==
    ASSUME RowInv, NEW a \in Assets, NEW v, \E p \in past : v = p[a], Upsert(a, v),
           UNCHANGED past
    PROVE  row' \in Owned /\ RowWasOwned'
<1>1. PICK p \in past : v = p[a]
  OBVIOUS
<1>2. p \in Owned /\ row \in Owned
  BY <1>1 DEF RowInv, BscTypeOK
<1>3. /\ row' \in Owned /\ row'[a] = v
      /\ \A b \in Assets \ {a} : row'[b] = row[b]
  BY <1>1, <1>2, OwnedFields DEF Upsert, Assets, Owned
<1>4. RowWasOwned'
  BY <1>1, <1>3 DEF RowInv, RowWasOwned
<1> QED
  BY <1>3, <1>4

LEMMA PutBNBSafe ==
    ASSUME RowInv, NEW w \in Writers, PutBNB(w)
    PROVE  RowInv'
<1>1. /\ pc' = [pc EXCEPT ![w] = "USDT"] /\ val' = [val EXCEPT ![w] = NoAmount]
      /\ UNCHANGED <<cmp, world, ahead, dirty, pending, faults>> /\ Upsert("BNB", val[w])
  BY DEF PutBNB, StepTo
<1>2. row' \in Owned /\ RowWasOwned'
  <2>1. \E p \in past : val[w] = p["BNB"]
    BY DEF PutBNB, RowInv, Carries
  <2> QED
    BY <1>1, <2>1, UpsertSafe DEF Assets, world
<1>3. /\ pc' \in [Writers -> WriterPC] /\ pc'[w] = "USDT"
      /\ val' \in [Writers -> Amounts \cup {NoAmount}]
      /\ \A u \in Writers \ {w} : pc'[u] = pc[u] /\ val'[u] = val[u]
  BY <1>1, RowTypes DEF WriterPC
<1>4. BscTypeOK'
  BY <1>1, <1>2, <1>3 DEF RowInv, BscTypeOK, world, WriterPC
<1>5. \A u \in Writers : Carries(u)'
  BY <1>1, <1>3 DEF RowInv, Carries, world
<1> QED
  BY <1>2, <1>4, <1>5 DEF RowInv

LEMMA PutUSDTSafe ==
    ASSUME RowInv, NEW w \in Writers, PutUSDT(w)
    PROVE  RowInv'
<1>1. Return(w) /\ UNCHANGED <<world, ahead, dirty, pending, faults>> /\ Upsert("USDT", val[w])
  BY DEF PutUSDT
<1>2. row' \in Owned /\ RowWasOwned'
  <2>1. \E p \in past : val[w] = p["USDT"]
    BY DEF PutUSDT, RowInv, Carries
  <2> QED
    BY <1>1, <2>1, UpsertSafe DEF Assets, world
<1>3. BscTypeOK'
  BY <1>1, <1>2, ReturnKeeps DEF RowInv, BscTypeOK, world, WriterPC
<1>4. \A u \in Writers : Carries(u)'
  BY <1>1, ReturnKeeps DEF RowInv, Carries, world
<1> QED
  BY <1>2, <1>3, <1>4 DEF RowInv

LEMMA FaultSafe ==
    ASSUME RowInv, NEW w \in Writers, Fault(w)
    PROVE  RowInv'
<1>1. UNCHANGED <<world, ahead, dirty, row, pending>> /\ faults' \in 0 .. MaxFaults
  BY RowTypes DEF Fault
<1>2. CASE Return(w)
  BY <1>1, <1>2, ReturnKeeps, WriterMoves DEF Carries
<1>3. CASE ~Return(w)
  <2>1. pc' = [pc EXCEPT ![w] = "USDT"] /\ val' = [val EXCEPT ![w] = NoAmount] /\ cmp' = cmp
    BY <1>3 DEF Fault, StepTo
  <2>2. /\ pc' \in [Writers -> WriterPC] /\ pc'[w] = "USDT"
        /\ val' \in [Writers -> Amounts \cup {NoAmount}]
        /\ \A u \in Writers \ {w} : pc'[u] = pc[u] /\ val'[u] = val[u]
    BY <2>1, RowTypes DEF WriterPC
  <2> QED
    BY <1>1, <2>1, <2>2, RowTypes, WriterMoves DEF Carries
<1> QED
  BY <1>2, <1>3

\* The steps that only start a writer or mark work for one.
LEMMA StartSafe ==
    ASSUME RowInv, UNCHANGED <<world, row, val>>,
           ahead' \in 0 .. transfers, dirty' \in BOOLEAN, pending' \in BOOLEAN,
           faults' \in 0 .. MaxFaults,
           cmp' \in [Writers -> [Assets -> Amounts \cup {0, NoAmount}]],
           NEW u \in Writers, NEW l \in WriterPC \ {"putBNB", "putUSDT"},
           pc' = pc \/ pc' = [pc EXCEPT ![u] = l]
    PROVE  RowInv'
<1>1. /\ pc' \in [Writers -> WriterPC]
      /\ \A w \in Writers : pc'[w] \in {"putBNB", "putUSDT"} => pc'[w] = pc[w]
  BY RowTypes
<1>2. BscTypeOK'
  BY <1>1 DEF RowInv, BscTypeOK, world, WriterPC
<1>3. RowWasOwned' /\ \A w \in Writers : Carries(w)'
  BY <1>1 DEF RowInv, RowWasOwned, Carries, world
<1> QED
  BY <1>2, <1>3 DEF RowInv

LEMMA WorkSafe ==
    ASSUME RowInv, ScanBlock \/ RefreshHit \/ TakeImmediate \/ FullRefresh
    PROVE  RowInv'
<1>1. /\ ahead \in 0 .. transfers /\ transfers \in Nat /\ dirty \in BOOLEAN /\ pending \in BOOLEAN
      /\ faults \in 0 .. MaxFaults /\ MaxFaults \in Nat
      /\ cmp \in [Writers -> [Assets -> Amounts \cup {0, NoAmount}]]
      /\ pc \in [Writers -> WriterPC]
  BY RowTypes DEF RowInv, BscTypeOK
<1>2. /\ {"none", "take", "load", "BNB"} \subseteq WriterPC \ {"putBNB", "putUSDT"}
      /\ "loop" \in Writers /\ "scanner" \in Writers /\ "full" \in Writers
  BY DEF WriterPC, Writers
<1>3. CASE ScanBlock
  <2>1. /\ UNCHANGED <<cmp, val, world, row>> /\ dirty' \in BOOLEAN /\ pending' \in BOOLEAN
        /\ faults' \in 0 .. MaxFaults /\ ahead' \in 0 .. transfers
    <3>1. UNCHANGED <<cmp, val, world, row>> /\ dirty' \in BOOLEAN
      BY <1>3 DEF ScanBlock
    <3>2. pending' \in BOOLEAN
      BY <1>1, <1>3 DEF ScanBlock, Trigger
    <3>3. faults' \in 0 .. MaxFaults
      BY <1>1, <1>3 DEF ScanBlock
    <3>4. ahead' \in 0 .. transfers
      BY <1>1, <1>3 DEF ScanBlock
    <3> QED
      BY <3>1, <3>2, <3>3, <3>4
  <2>2. pc' = pc \/ pc' = [pc EXCEPT !["loop"] = "take"]
    BY <1>3 DEF ScanBlock, Trigger
  <2> QED
    BY <1>1, <1>2, <2>1, <2>2, StartSafe
<1>4. CASE RefreshHit
  <2>1. /\ UNCHANGED <<cmp, val, world, ahead, row, pending, faults>> /\ dirty' \in BOOLEAN
        /\ pc' = [pc EXCEPT !["scanner"] = "load"]
    BY <1>4 DEF RefreshHit, StepTo
  <2> QED
    BY <1>1, <1>2, <2>1, StartSafe
<1>5. CASE TakeImmediate
  <2>1. UNCHANGED <<cmp, val, world, ahead, dirty, row, faults>> /\ pending' \in BOOLEAN
    BY <1>5 DEF TakeImmediate
  <2>2. PICK l \in {"load", "none"} : pc' = [pc EXCEPT !["loop"] = l]
    BY <1>5 DEF TakeImmediate, StepTo
  <2> QED
    BY <1>1, <1>2, <2>1, <2>2, StartSafe
<1>6. CASE FullRefresh
  <2>1. UNCHANGED <<val, world, ahead, dirty, row, pending, faults>>
    BY <1>6 DEF FullRefresh
  <2>2. PICK l \in {"load", "BNB"} : pc' = [pc EXCEPT !["full"] = l]
    BY <1>6 DEF FullRefresh, StepTo
  <2>3. cmp' \in [Writers -> [Assets -> Amounts \cup {0, NoAmount}]]
    <3>1. Unknown \in [Assets -> Amounts \cup {0, NoAmount}]
      BY DEF Unknown
    <3> QED
      BY <1>1, <1>6, <3>1 DEF FullRefresh
  <2> QED
    BY <1>1, <1>2, <2>1, <2>2, <2>3, StartSafe
<1> QED
  BY <1>3, <1>4, <1>5, <1>6

\* What was owned once stays owned once.
LEMMA TransferSafe ==
    ASSUME RowInv, Transfer
    PROVE  RowInv'
<1>1. past \subseteq past' /\ chain' \in past' /\ past' = past \cup {chain'}
      /\ UNCHANGED <<dirty, row, pending, work, faults>>
  BY DEF Transfer
<1>2. chain' \in Owned
  BY RowTypes DEF Transfer, Owned
<1>3. BscTypeOK'
  <2>1. /\ transfers \in 0 .. MaxTransfers /\ MaxTransfers \in Nat /\ ahead \in 0 .. transfers
        /\ past \subseteq Owned
    BY BscConstantsOK DEF BscConstantsOK, RowInv, BscTypeOK
  <2>2. transfers' \in 0 .. MaxTransfers /\ ahead' \in 0 .. transfers'
    BY <2>1 DEF Transfer
  <2>3. past' \subseteq Owned
    BY <1>1, <1>2, <2>1
  <2> QED
    BY <1>1, <2>2, <2>3 DEF RowInv, BscTypeOK, work
<1>4. RowWasOwned' /\ \A w \in Writers : Carries(w)'
  BY <1>1 DEF RowInv, RowWasOwned, Carries, work
<1> QED
  BY <1>3, <1>4 DEF RowInv

LEMMA RowStep == RowInv /\ [BscNext]_bscVars => RowInv'
<1> SUFFICES ASSUME RowInv, [BscNext]_bscVars PROVE RowInv'
  OBVIOUS
<1>1. CASE \E w \in Writers : Refresh(w) \/ Fault(w)
  BY <1>1, LoadSafe, ReadBNBSafe, PutBNBSafe, ReadUSDTSafe, PutUSDTSafe, FaultSafe DEF Refresh
<1>2. CASE Transfer
  BY <1>2, TransferSafe
<1>3. CASE UNCHANGED bscVars
  BY <1>3 DEF RowInv, BscTypeOK, RowWasOwned, Carries, bscVars, world, work
<1> QED
  BY <1>1, <1>2, <1>3, WorkSafe DEF BscNext

LEMMA RowAlways == BscSpec => []RowInv
  BY RowInit, RowStep, PTL DEF BscSpec

(* No refresh stores an amount the account never owned of that asset, for  *)
(* any amounts and any interleaving, although getCurrentBSCBalances hands  *)
(* the two assets over in the wrong order.                                 *)
THEOREM RowsShowOwned == BscSpec => []RowWasOwned
<1>1. RowInv => RowWasOwned
  BY DEF RowInv
<1> QED
  BY <1>1, RowAlways, PTL

(* Every variable of BscBalances keeps its type.                           *)
THEOREM RowTypesCorrect == BscSpec => []BscTypeOK
<1>1. RowInv => BscTypeOK
  BY DEF RowInv
<1> QED
  BY <1>1, RowAlways, PTL

(* A request of triggerImmediateBalanceRefresh has a goroutine that will   *)
(* take it, however its end and the next request fall together.            *)
THEOREM RefreshesAreHeard == BscSpec => []NoLostWakeup
<1>1. BscInit => NoLostWakeup
  BY DEF BscInit, NoLostWakeup
<1>2. RowInv /\ NoLostWakeup /\ [BscNext]_bscVars => NoLostWakeup'
  <2> SUFFICES ASSUME RowInv, NoLostWakeup, [BscNext]_bscVars PROVE NoLostWakeup'
    OBVIOUS
  <2>1. pc \in [Writers -> WriterPC] /\ "loop" \in Writers
    BY RowTypes DEF Writers
  <2>2. CASE ScanBlock
    BY <2>1, <2>2 DEF ScanBlock, Trigger, NoLostWakeup
  <2>3. CASE TakeImmediate
    BY <2>3 DEF TakeImmediate, NoLostWakeup
  <2>4. ASSUME NEW w \in Writers, Refresh(w) \/ Fault(w) PROVE NoLostWakeup'
    <3>1. pending' = pending
      BY <2>4 DEF Refresh, Load, ReadBNB, PutBNB, ReadUSDT, PutUSDT, Fault
    <3>2. PICK l \in {"BNB", "putBNB", "USDT", "putUSDT", After(w)} : pc' = [pc EXCEPT ![w] = l]
      BY <2>4 DEF Refresh, Load, ReadBNB, PutBNB, ReadUSDT, PutUSDT, Fault, Return, StepTo
    <3>3. w # "loop" \/ l # "none"
      BY DEF After
    <3> QED
      BY <2>1, <3>1, <3>2, <3>3 DEF NoLostWakeup
  <2>5. CASE RefreshHit \/ FullRefresh
    <3>1. pending' = pending /\ pc'["loop"] = pc["loop"]
      BY <2>1, <2>5 DEF RefreshHit, FullRefresh, StepTo
    <3> QED
      BY <3>1 DEF NoLostWakeup
  <2>6. CASE Transfer \/ UNCHANGED bscVars
    BY <2>6 DEF Transfer, bscVars, work, NoLostWakeup
  <2> QED
    BY <2>2, <2>3, <2>4, <2>5, <2>6 DEF BscNext
<1> QED
  BY <1>1, <1>2, RowAlways, PTL DEF BscSpec
=============================================================================
