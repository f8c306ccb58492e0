------------------------------ MODULE BscSync -------------------------------
(***************************************************************************)
(* BSC block synchronisation: BSCScanner.scan (internal/service/           *)
(* bsc_scanner.go) as the main scanner runs it and as cmd/                 *)
(* bsc-backup-block-sync runs it with a resolver of scan targets, and the  *)
(* table sync_gaps, whose rows a backup CLAIMS before it repairs them.     *)
(*                                                                         *)
(* Grain: one action per database statement or node call whose place in    *)
(* the order matters; a process may fail between any two of them.          *)
(***************************************************************************)
EXTENDS SyncCursor, Sequences

CONSTANTS
    Main,             \* the main scanner's process
    Backups,          \* the backup processes
    Key,              \* process -> the sync key it saves its cursor under
    MaxBlock,         \* bound: the chain stops growing at this height
    SkipThreshold,    \* maxAllowedSyncLagBlocks
    StartBlock,       \* bsc.start_block
    Confirmations,    \* bsc.confirmations
    LateDeploy,       \* may a backup be started for the first time at any moment?
    MaxFaults,        \* bound on failed calls and crashes
    MaxRewinds        \* bound on cursors an operator lowers by hand

Procs == Backups \cup {Main}
Keys == {Key[p] : p \in Procs}

ASSUME ConstantsOK ==
    /\ Main \notin Backups
    /\ Key = [p \in Procs |-> Key[p]]
    /\ \A b \in Backups : Key[b] # Key[Main]
    /\ MaxBlock \in Nat /\ SkipThreshold \in Nat
    /\ StartBlock \in Nat /\ Confirmations \in Nat
    /\ LateDeploy \in BOOLEAN
    /\ MaxFaults \in Nat /\ MaxRewinds \in Nat

VARIABLES
    head,       \* newest block of the chain
    row,        \* sync_state: sync key -> last_block or NoRow
    fresh,      \* is the main row's updated_at younger than mainStaleDuration?
    gaps,       \* sync_gaps in id order
    scanned,    \* blocks some scanBlock call went through to the end
    booked,     \* of those, the ones whose transfers were handed to tables and notifiers
    refreshed,  \* those whose matched addresses were given to refreshBalances
    dropped,    \* history: those a failed run still had on its list
    base,       \* history: the main scanner's initial cursor (NoRow before)
    high,       \* history: the highest cursor the main scanner ever saved
    pc,         \* control point of each process's scan()
    cur,        \* its lastBlock, then currentBlock
    tgt,        \* its latestInt, then scanTarget
    gap,        \* id of the gap row it is working on (0: none)
    deferred,   \* its deferredRefresh, as the blocks that filled it
    me,         \* its repairOwner; a restarted process gets a new one
    lives,      \* how often each process was started
    faults, rewinds

chainVars == <<head, scanned, booked, refreshed, dropped>>
procVars == <<pc, cur, tgt, gap, deferred, me>>
tableVars == <<row, fresh, gaps, base, high>>
budgetVars == <<lives, faults, rewinds>>
vars == <<chainVars, procVars, tableVars, budgetVars>>

-----------------------------------------------------------------------------
\* A repairOwner, made of process id and start time, stands for a life of a process;
\* the main scanner has none, so its life 0 stands for NULL.
Owner == Procs \X Nat
NoOwner == <<Main, 0>>
owners == {o \in Owner : 1 <= o[2] /\ o[2] <= lives[o[1]]}

GapRow == [from : Nat, to : Nat, status : {"pending", "repairing", "done"}, owner : Owner]
PC == {"down", "align", "idle", "height", "init", "owned", "claim", "cas", "check",
       "reset", "any", "main", "decide", "record", "skip", "loop", "scan", "save", "flush"}

TypeOK ==
    /\ head \in Nat
    /\ row \in [Keys -> RowValue]
    /\ fresh \in BOOLEAN
    /\ gaps \in Seq(GapRow)
    /\ scanned \subseteq Nat
    /\ booked \subseteq scanned /\ refreshed \subseteq scanned /\ dropped \subseteq scanned
    /\ base \in RowValue /\ high \in RowValue
    /\ pc \in [Procs -> PC]
    /\ cur \in [Procs -> RowValue]
    /\ tgt \in [Procs -> Nat]
    /\ gap \in [Procs -> 0 .. Len(gaps)]
    /\ deferred \in [Procs -> SUBSET scanned]
    /\ me \in [Procs -> owners \cup {NoOwner}]
    /\ lives \in [Procs -> Nat] /\ faults \in Nat /\ rewinds \in Nat

-----------------------------------------------------------------------------
(* The tables.                                                             *)

MyRow(p) == row[Key[p]]

\* SaveLastBlock.  MySQL touches updated_at only when the value changes.
Save(p, block) ==
    /\ row' = [row EXCEPT ![Key[p]] = block]
    /\ fresh' = (fresh \/ (p = Main /\ MyRow(Main) # block))
    /\ high' = IF p = Main /\ block > high THEN block ELSE high

\* CreateSyncGap.
CreateGapLate(from, to) ==
    gaps' = Append(gaps, [from |-> from + 1, to |-> to, status |-> "pending", owner |-> NoOwner])
CreateGapShort(from, to) ==
    gaps' = Append(gaps, [from |-> from, to |-> to - 1, status |-> "pending", owner |-> NoOwner])
CreateSyncGap(from, to) ==
    gaps' = Append(gaps, [from |-> from, to |-> to, status |-> "pending", owner |-> NoOwner])

\* ORDER BY from_block, id LIMIT 1 over the rows with this status and owner.
IsFirst(i, status, owner) ==
    /\ i \in DOMAIN gaps
    /\ gaps[i].status = status /\ gaps[i].owner = owner
    /\ \A j \in DOMAIN gaps :
          gaps[j].status = status /\ gaps[j].owner = owner =>
              \/ gaps[i].from < gaps[j].from
              \/ gaps[i].from = gaps[j].from /\ i <= j

None(status, owner) ==
    \A i \in DOMAIN gaps : ~(gaps[i].status = status /\ gaps[i].owner = owner)

\* UPDATE ... SET status = 'repairing', repair_owner = ? WHERE id = ? AND
\* status = 'pending'; succeeds when a row is affected.
ClaimAlways(i) == TRUE
Claimable(i) == gaps[i].status = "pending"

\* MarkSyncGapDone: WHERE id = ?.
MarkAllDone(i) ==
    gaps' = [j \in DOMAIN gaps |-> [gaps[j] EXCEPT !.status = "done", !.owner = NoOwner]]
MarkDone(i) == gaps' = [gaps EXCEPT ![i].status = "done", ![i].owner = NoOwner]

\* HasOpenSyncGap.
HasAnyGap == gaps # <<>>
HasOpenSyncGap == \E i \in DOMAIN gaps : gaps[i].status \in {"pending", "repairing"}

\* eth_blockNumber less the confirmations.
Confirmed(h) == IF Confirmations > 0 /\ h > Confirmations THEN h - Confirmations ELSE h

Init ==
    /\ head = Confirmations + 1
    /\ row = [k \in Keys |-> NoRow]
    /\ fresh = FALSE
    /\ gaps = <<>>
    /\ scanned = {} /\ booked = {} /\ refreshed = {} /\ dropped = {}
    /\ base = NoRow /\ high = NoRow
    /\ pc = [p \in Procs |-> IF p = Main THEN "idle" ELSE "down"]
    /\ cur = [p \in Procs |-> NoRow]
    /\ tgt = [p \in Procs |-> 0]
    /\ gap = [p \in Procs |-> 0]
    /\ deferred = [p \in Procs |-> {}]
    /\ me = [p \in Procs |-> NoOwner]
    /\ lives = [p \in Procs |-> 0]
    /\ faults = 0 /\ rewinds = 0

-----------------------------------------------------------------------------
(* Control.                                                                *)

Goto(p, l) == pc' = [pc EXCEPT ![p] = l]

\* scan() returns, or the process dies: its locals are gone.
Leave(p, l) ==
    /\ Goto(p, l)
    /\ cur' = [cur EXCEPT ![p] = NoRow]
    /\ tgt' = [tgt EXCEPT ![p] = 0]
    /\ gap' = [gap EXCEPT ![p] = 0]
    /\ deferred' = [deferred EXCEPT ![p] = {}]

Stay == UNCHANGED <<cur, tgt, gap, deferred>>

\* When a backup may be started for the first time: at any moment, or (the
\* careful deployment) once the main cursor exists and before any skip.
MayDeploy(p) ==
    \/ LateDeploy
    \/ MyRow(p) # NoRow
    \/ MyRow(Main) # NoRow /\ gaps = <<>>

\* alignBackupSyncCursor reads both cursors; buildBSCRepairOwner.
Start(p) ==
    /\ pc[p] = "down"
    /\ MayDeploy(p)
    /\ lives' = [lives EXCEPT ![p] = @ + 1]
    /\ me' = [me EXCEPT ![p] = <<p, lives[p] + 1>>]
    /\ IF MyRow(p) = NoRow /\ MyRow(Main) # NoRow
       THEN Goto(p, "align") /\ cur' = [cur EXCEPT ![p] = MyRow(Main)]
       ELSE Goto(p, "idle") /\ UNCHANGED cur
    /\ UNCHANGED <<tgt, gap, deferred, faults, rewinds, chainVars, tableVars>>

\* SaveLastBlock(backup key, the main cursor read before).
Align(p) ==
    /\ pc[p] = "align"
    /\ Save(p, cur[p])
    /\ Leave(p, "idle")
    /\ UNCHANGED <<me, gaps, base, chainVars, budgetVars>>

\* A trigger: read the own cursor before anything else.
LoadCursor(p) ==
    /\ pc[p] = "idle"
    /\ cur' = [cur EXCEPT ![p] = MyRow(p)]
    /\ Goto(p, "height")
    /\ UNCHANGED <<tgt, gap, deferred, me, chainVars, tableVars, budgetVars>>

\* BlockNumber less the confirmations, whichever branch asks for it.
LoadHeight(p) ==
    /\ pc[p] = "height"
    /\ tgt' = [tgt EXCEPT ![p] = Confirmed(head)]
    /\ Goto(p, IF cur[p] = NoRow THEN "init" ELSE IF p = Main THEN "decide" ELSE "owned")
    /\ UNCHANGED <<cur, gap, deferred, me, chainVars, tableVars, budgetVars>>

\* No cursor yet: save the initial one and return.
InitCursor(p) ==
    /\ pc[p] = "init"
    /\ LET initial == InitialBlock(StartBlock, tgt[p])
       IN /\ Save(p, initial)
          /\ base' = IF p = Main THEN initial ELSE base
    /\ Leave(p, "idle")
    /\ UNCHANGED <<me, gaps, chainVars, budgetVars>>

-----------------------------------------------------------------------------
(* The backup's resolver.                                                  *)

\* GetRepairingSyncGapByOwner.
FindOwned(p) ==
    /\ pc[p] = "owned"
    /\ \/ \E i \in DOMAIN gaps :
             /\ IsFirst(i, "repairing", me[p])
             /\ gap' = [gap EXCEPT ![p] = i]
             /\ Goto(p, "check")
       \/ None("repairing", me[p]) /\ Goto(p, "claim") /\ UNCHANGED gap
    /\ UNCHANGED <<cur, tgt, deferred, me, chainVars, tableVars, budgetVars>>

\* ClaimNextPendingSyncGap: select the lowest pending row ...
SelectPending(p) ==
    /\ pc[p] = "claim"
    /\ \/ \E i \in DOMAIN gaps :
             /\ IsFirst(i, "pending", NoOwner)
             /\ gap' = [gap EXCEPT ![p] = i]
             /\ Goto(p, "cas")
       \/ None("pending", NoOwner) /\ Goto(p, "any") /\ UNCHANGED gap
    /\ UNCHANGED <<cur, tgt, deferred, me, chainVars, tableVars, budgetVars>>

\* ... and take it if it is still pending; start over when it is not.
Claim(p) ==
    /\ pc[p] = "cas"
    /\ IF Claimable(gap[p])
       THEN /\ gaps' = [gaps EXCEPT ![gap[p]].status = "repairing", ![gap[p]].owner = me[p]]
            /\ Goto(p, "check")
            /\ UNCHANGED gap
       ELSE Goto(p, "claim") /\ gap' = [gap EXCEPT ![p] = 0] /\ UNCHANGED gaps
    /\ UNCHANGED <<cur, tgt, deferred, me, row, fresh, base, high, chainVars, budgetVars>>

\* The own cursor is at or past the gap's end: mark it done, look again.
FinishGap(p) ==
    /\ pc[p] = "check"
    /\ MyRow(p) # NoRow
    /\ MyRow(p) >= gaps[gap[p]].to
    /\ MarkDone(gap[p])
    /\ gap' = [gap EXCEPT ![p] = 0]
    /\ Goto(p, "owned")
    /\ UNCHANGED <<cur, tgt, deferred, me, row, fresh, base, high, chainVars, budgetVars>>

\* Otherwise its end limits the scan; a cursor outside the gap is reset.
\* (The guard of FinishGap leaves only "below" of the code's two comparisons.)
EnterGap(p) ==
    /\ pc[p] = "check"
    /\ MyRow(p) = NoRow \/ MyRow(p) < gaps[gap[p]].to
    /\ LET g == gaps[gap[p]]
       IN /\ Goto(p, IF MyRow(p) = NoRow \/ MyRow(p) < g.from - 1 THEN "reset" ELSE "decide")
          /\ tgt' = [tgt EXCEPT ![p] = IF g.to < @ THEN g.to ELSE @]
    /\ UNCHANGED <<cur, gap, deferred, me, chainVars, tableVars, budgetVars>>

\* SaveLastBlock(just before the gap).
ResetCursor(p) ==
    /\ pc[p] = "reset"
    /\ Save(p, BeforeGap(gaps[gap[p]].from))
    /\ Goto(p, "decide")
    /\ UNCHANGED <<cur, tgt, gap, deferred, me, gaps, base, chainVars, budgetVars>>

\* HasOpenSyncGap: idle while any gap is open, whoever holds it.
CheckOpen(p) ==
    /\ pc[p] = "any"
    /\ IF HasOpenSyncGap THEN Leave(p, "idle") ELSE Goto(p, "main") /\ Stay
    /\ UNCHANGED <<me, chainVars, tableVars, budgetVars>>

\* GetSyncState(main key): take over only when the main scanner is not alive.
MainAlive == MyRow(Main) # NoRow /\ fresh

CheckMain(p) ==
    /\ pc[p] = "main"
    /\ IF MainAlive THEN Leave(p, "idle") ELSE Goto(p, "decide") /\ Stay
    /\ UNCHANGED <<me, chainVars, tableVars, budgetVars>>

-----------------------------------------------------------------------------
(* The scan itself.                                                        *)

SkipAhead(p, c) == p = Main /\ ShouldSkip(c, tgt[p], SkipThreshold)

\* Compare the target with the cursor read first, which a reset made stale.
Decide(p) ==
    /\ pc[p] = "decide"
    /\ IF Reached(cur[p], tgt[p])
       THEN Leave(p, "idle")
       ELSE Goto(p, IF SkipAhead(p, cur[p]) THEN "record" ELSE "loop") /\ Stay
    /\ UNCHANGED <<me, chainVars, tableVars, budgetVars>>

\* recordSkippedGap(currentBlock + 1, scanTarget).
RecordGap(p) ==
    /\ pc[p] = "record"
    /\ CreateSyncGap(cur[p] + 1, tgt[p])
    /\ Goto(p, "skip")
    /\ UNCHANGED <<cur, tgt, gap, deferred, me, row, fresh, base, high, chainVars, budgetVars>>

\* SaveLastBlock(scanTarget), only after the gap row is in the table.  Before the
\* loop, or with nothing on the list yet, scan() then returns; else it breaks out
\* of the loop to the deferred refresh.
SkipAndReturn(p) ==
    /\ pc[p] = "skip"
    /\ Save(p, tgt[p])
    /\ Leave(p, "idle")
    /\ UNCHANGED <<me, gaps, base, chainVars, budgetVars>>
SkipToLatest(p) ==
    /\ pc[p] = "skip"
    /\ Save(p, tgt[p])
    /\ IF deferred[p] = {} THEN Leave(p, "idle") ELSE Goto(p, "flush") /\ Stay
    /\ UNCHANGED <<me, gaps, base, chainVars, budgetVars>>

\* Loop head: resolveSyncCursor; a cursor moved by somebody else is adopted.
Loop(p) ==
    /\ pc[p] = "loop"
    /\ IF Reached(cur[p], tgt[p]) \/ Reached(MyRow(p), tgt[p])
       THEN Goto(p, "flush") /\ Stay
       ELSE /\ cur' = [cur EXCEPT ![p] = MyRow(p)]
            /\ Goto(p, IF MyRow(p) # cur[p] /\ SkipAhead(p, MyRow(p)) THEN "record" ELSE "scan")
            /\ UNCHANGED <<tgt, gap, deferred>>
    /\ UNCHANGED <<me, chainVars, tableVars, budgetVars>>

\* SetDisableBookkeeping(true) in the backups' command: their insertTransferIn
\* and insertTransferOut return before the insert and the notifier.
KeepsBooks(p) == p = Main

\* scanBlock(currentBlock + 1): the matched addresses go into deferredRefresh,
\* the main scanner's (SetDeferBalanceRefreshInCatchUp in app.go) like a backup's;
\* a failed insert is logged and costs its transfer, not the block.
ScanBlock(p) ==
    /\ pc[p] = "scan"
    /\ scanned' = scanned \cup {cur[p] + 1}
    /\ booked' = IF KeepsBooks(p) THEN booked \cup {cur[p] + 1} ELSE booked
    /\ deferred' = [deferred EXCEPT ![p] = @ \cup {cur[p] + 1}]
    /\ Goto(p, "save")
    /\ UNCHANGED <<head, refreshed, dropped, cur, tgt, gap, me, tableVars, budgetVars>>

\* SaveLastBlock(blockNum).
SaveCursor(p) ==
    /\ pc[p] = "save"
    /\ Save(p, cur[p] + 1)
    /\ cur' = [cur EXCEPT ![p] = @ + 1]
    /\ Goto(p, "loop")
    /\ UNCHANGED <<tgt, gap, deferred, me, gaps, base, chainVars, budgetVars>>

\* After the loop: refreshBalances of everything deferred, then return.
FlushNothing(p) == refreshed' = refreshed
RefreshDeferred(p) == refreshed' = refreshed \cup deferred[p]

Flush(p) ==
    /\ pc[p] = "flush"
    /\ RefreshDeferred(p)
    /\ Leave(p, "idle")
    /\ UNCHANGED <<head, scanned, booked, dropped, me, tableVars, budgetVars>>

\* Any call of scan() returns an error, or the process dies: a backup comes
\* back with a new repairOwner.  Its list is lost, and blocks below the saved
\* cursor are not scanned again.
Fail(p) ==
    /\ pc[p] # "down"
    /\ faults < MaxFaults
    /\ faults' = faults + 1
    /\ \/ pc[p] \notin {"idle", "align"} /\ Leave(p, "idle") /\ UNCHANGED me
       \/ p # Main /\ Leave(p, "down") /\ me' = [me EXCEPT ![p] = NoOwner]
    /\ dropped' = dropped \cup deferred[p]
    /\ UNCHANGED <<lives, rewinds, head, scanned, booked, refreshed, tableVars>>

Step(p) ==
    \/ LoadCursor(p) \/ LoadHeight(p) \/ InitCursor(p) \/ Decide(p)
    \/ Loop(p) \/ ScanBlock(p) \/ SaveCursor(p) \/ Flush(p)

MainStep == Step(Main) \/ RecordGap(Main) \/ SkipToLatest(Main)

BackupStep(b) ==
    \/ Start(b) \/ Align(b) \/ FindOwned(b) \/ SelectPending(b) \/ Claim(b)
    \/ FinishGap(b) \/ EnterGap(b) \/ ResetCursor(b) \/ CheckOpen(b)
    \/ CheckMain(b) \/ Step(b)

-----------------------------------------------------------------------------
(* The environment.                                                        *)

ChainGrows ==
    /\ head < MaxBlock
    /\ head' = head + 1
    /\ UNCHANGED <<scanned, booked, refreshed, dropped, procVars, tableVars, budgetVars>>

\* mainStaleDuration passes without a change of the main row.
MainGoesStale ==
    /\ fresh
    /\ fresh' = FALSE
    /\ UNCHANGED <<row, gaps, base, high, chainVars, procVars, budgetVars>>

\* An operator lowers a cursor by hand, the case resolveSyncCursor is for.
OperatorRewinds(k) ==
    /\ rewinds < MaxRewinds
    /\ rewinds' = rewinds + 1
    /\ base # NoRow
    /\ \E v \in base .. (row[k] - 1) : row' = [row EXCEPT ![k] = v]
    /\ fresh' = (fresh \/ k = Key[Main])
    /\ UNCHANGED <<lives, faults, gaps, base, high, chainVars, procVars>>

Next ==
    \/ MainStep
    \/ \E b \in Backups : BackupStep(b)
    \/ \E p \in Procs : Fail(p)
    \/ ChainGrows
    \/ MainGoesStale
    \/ \E k \in Keys : OperatorRewinds(k)

Spec == Init /\ [][Next]_vars

\* Every backup keeps being triggered and its calls return; the main scanner
\* may stop for good at any point, the case the takeover is for.
FairSpec == Spec /\ \A b \in Backups : WF_vars(BackupStep(b))

-----------------------------------------------------------------------------
(* What must hold.                                                         *)

Open(i) == gaps[i].status \in {"pending", "repairing"}
Covers(i, x) == gaps[i].from <= x /\ x <= gaps[i].to

\* What a scan owes for block x, the refresh of its matched addresses, is done,
\* was dropped by a failed run, or stands on the list of a run; or a gap row still
\* asks for the scan.
Listed(x) == \E p \in Procs : x \in deferred[p]
Answered(x) ==
    \/ x \in refreshed \cup dropped \/ Listed(x)
    \/ \E i \in DOMAIN gaps : Open(i) /\ Covers(i, x)

\* No block is lost to the balances: the addresses of every block the main cursor
\* ever passed are refreshed, will be, or met a run that failed.
NoRefreshLost == base # NoRow => \A x \in Between(base, high) : Answered(x)

\* Nor does a backup's cursor stand above a block nobody answers for, though
\* claims let it move on to a later gap while an earlier one is unfinished.
BackupPassesNothing ==
    base # NoRow =>
        \A b \in Backups : \A x \in Between(base, MyRow(b)) : Answered(x)

\* A gap row is closed only when the addresses of all its blocks are refreshed: the
\* resolver asks where the cursor stands, and the cursor is ahead of the list.
DoneMeansRefreshed ==
    \A i \in DOMAIN gaps :
        gaps[i].status = "done" => gaps[i].from .. gaps[i].to \subseteq refreshed \cup dropped

\* Repairs write no transfers (KeepsBooks), so what is missing in the tables must
\* be found from sync_gaps: every block the main cursor passed without books is
\* in a row, open or done, whatever was rewound, restarted or repaired since.
UnbookedIsInGap ==
    base # NoRow =>
        \A x \in Between(base, high) :
            x \in booked \/ \E i \in DOMAIN gaps : Covers(i, x)

\* A process is working on a gap it has claimed.
Working(b) == gap[b] # 0 /\ pc[b] # "cas"

\* A claim is exclusive, and its row says so until the claimant closes it: no
\* second process works on the gap, reopens it or closes it meanwhile.
ClaimsExclusive ==
    \A b \in Backups :
        Working(b) =>
            /\ gaps[gap[b]].status = "repairing" /\ gaps[gap[b]].owner = me[b]
            /\ \A c \in Backups \ {b} : Working(c) => gap[c] # gap[b]

\* No block is scanned before it has its confirmations.
ConfirmedOnly == \A x \in scanned : x + Confirmations <= head

\* A scanned block's addresses are refreshed, or the run that scanned it still has
\* them on its list: no way out of the loop forgets them, but a failed run does.
RefreshNotForgotten ==
    \A x \in scanned : x \in refreshed \cup dropped \/ Listed(x)

\* A backup that lowers the cursor for a gap works with the lowered value,
\* though the one it read first is stale: it scans neither below the gap nor
\* above it (below only when an operator lowers its cursor again).
RepairStaysInGap ==
    [][\A b \in Backups :
         ScanBlock(b) /\ gap[b] # 0 =>
             /\ cur[b] + 1 <= gaps[gap[b]].to
             /\ rewinds = 0 => Covers(gap[b], cur[b] + 1)]_vars

\* Every backup has a cursor, at or below the main one, before the first skip
\* (and not because somebody lowered it under a running scan).
InTime ==
    /\ MyRow(Main) # NoRow /\ gaps = <<>> /\ rewinds = 0
    /\ \A b \in Backups : MyRow(b) \in 0 .. MyRow(Main)

\* Then every gap is repaired in the end: its row is done and the addresses of its
\* blocks are refreshed, unless they were on the list of a run that failed or of
\* the main scanner, which may have stopped for good with its list in hand.
Repaired(i) ==
    /\ gaps[i].status = "done"
    /\ gaps[i].from .. gaps[i].to \subseteq refreshed \cup dropped \cup deferred[Main]
GapsGetRepaired == [](InTime => <>[](\A i \in DOMAIN gaps : Repaired(i)))

\* When the main cursor stays stale, a backup carries on to the chain's head.
StaleMainTakenOver ==
    <>[](MyRow(Main) # NoRow /\ ~fresh) =>
        <>[](\E b \in Backups : MyRow(b) = Confirmed(head))
=============================================================================
