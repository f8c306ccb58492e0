------------------------------ MODULE TronSync ------------------------------
(***************************************************************************)
(* Tron block synchronisation: the main scanner (internal/service/         *)
(* scanner.go), any number of gap-repairing backup scanners                *)
(* (tron_backup_sync.go and its twin tron_grpc_backup_sync.go, started by  *)
(* cmd/tron-backup-block-sync and cmd/tron-grpc-block-sync) and the two    *)
(* MySQL tables they talk through: sync_state (one cursor per scanner) and *)
(* tron_sync_gaps.                                                         *)
(*                                                                         *)
(* Grain: one action per database statement or node call whose place in    *)
(* the order matters.  A process may fail between any two of them.  Local  *)
(* variables of scan() are reset when it returns.                          *)
(***************************************************************************)
EXTENDS SyncCursor, Sequences

CONSTANTS
    Main,             \* the sync key of the main scanner
    Backups,          \* the sync keys of the backup scanners, one process each
    MaxBlock,         \* bound: the chain stops growing at this height
    SkipThreshold,    \* maxAllowedSyncLagBlocks
    RefreshInterval,  \* tronLatestRefreshIntervalBlocks
    RecheckInterval,  \* tronBackupTakeoverMainRecheckIntervalBlocks
    StartBlock,       \* watcher.start_block
    NodeLag,          \* how far behind the chain a node's answer may be
    LateDeploy,       \* may a backup be started for the first time at any moment?
    MaxFaults,        \* bound on failed calls and crashes
    MaxRewinds        \* bound on cursors an operator lowers by hand

ASSUME ConstantsOK ==
    /\ Main \notin Backups
    /\ MaxBlock \in Nat
    /\ SkipThreshold \in Nat
    /\ RefreshInterval \in Nat \ {0}
    /\ RecheckInterval \in Nat \ {0}
    /\ StartBlock \in Nat
    /\ NodeLag \in Nat
    /\ LateDeploy \in BOOLEAN
    /\ MaxFaults \in Nat
    /\ MaxRewinds \in Nat

VARIABLES
    head,       \* newest block of the chain
    row,        \* sync_state: sync key -> last_block or NoRow
    fresh,      \* is the main row's updated_at younger than mainStaleDuration?
    gaps,       \* tron_sync_gaps in id order
    scanned,    \* blocks some scanBlock call processed to the end
    base,       \* history: the main scanner's initial cursor (NoRow before)
    high,       \* history: the highest cursor the main scanner ever saved
    mpc,        \* control point of the main scanner's scan()
    mCur,       \* its currentBlock
    mLatest,    \* its latestBlock
    mSince,     \* its blocksSinceLatestRefresh
    bpc,        \* control point of each backup's scan()
    bCur,       \* its currentBlock
    bTarget,    \* its targetBlock (latestBlock until a target is resolved)
    bMode,      \* its targetMode
    bSince,     \* its blocksSinceTakeoverMainRecheck
    bGap,       \* id of the gap row it read last (0: none)
    bSeen,      \* the status that row had when it was read
    faults, rewinds

chainVars == <<head, scanned>>
mainVars == <<mpc, mCur, mLatest, mSince>>
backupVars == <<bpc, bCur, bTarget, bMode, bSince, bGap, bSeen>>
tableVars == <<row, fresh, gaps, base, high>>
budgetVars == <<faults, rewinds>>
vars == <<chainVars, mainVars, backupVars, tableVars, budgetVars>>

-----------------------------------------------------------------------------
Blocks == 1 .. MaxBlock
Keys == Backups \cup {Main}
GapStatus == {"pending", "repairing", "done"}
GapRow == [from : Nat, to : Nat, status : GapStatus]
MainPC == {"idle", "start", "gap", "skip", "loop", "scan", "save", "refresh"}
BackupPC == {"down", "align", "idle", "resolve", "gap", "reset", "enter", "main",
             "own", "loop", "scan", "save", "recheck", "preempt"}
Mode == {"none", "gap-repair", "takeover"}

TypeOK ==
    /\ head \in Nat
    /\ row \in [Keys -> RowValue]
    /\ fresh \in BOOLEAN
    /\ gaps \in Seq(GapRow)
    /\ scanned \subseteq Nat
    /\ base \in RowValue
    /\ high \in RowValue
    /\ mpc \in MainPC
    /\ mCur \in Nat /\ mLatest \in Nat /\ mSince \in Nat
    /\ bpc \in [Backups -> BackupPC]
    /\ bCur \in [Backups -> Nat]
    /\ bTarget \in [Backups -> Nat]
    /\ bMode \in [Backups -> Mode]
    /\ bSince \in [Backups -> Nat]
    /\ bGap \in [Backups -> Nat]
    /\ bSeen \in [Backups -> GapStatus]
    /\ faults \in Nat /\ rewinds \in Nat

-----------------------------------------------------------------------------
(* The tables.                                                             *)

\* SaveLastBlock for the main key.  MySQL touches updated_at only when the
\* value changes (ON UPDATE CURRENT_TIMESTAMP).
SaveMain(block) ==
    /\ row' = [row EXCEPT ![Main] = block]
    /\ fresh' = (fresh \/ row[Main] # block)
    /\ high' = IF block > high THEN block ELSE high

\* SaveLastBlock for a backup key.
SaveBackup(b, block) == row' = [row EXCEPT ![b] = block]

Open(i) == gaps[i].status \in {"pending", "repairing"}

\* ORDER BY CASE status WHEN 'repairing' THEN 0 ELSE 1 END, from_block, id.
PrecedesNewestFirst(i, j) == gaps[i].from >= gaps[j].from
Precedes(i, j) ==
    \/ gaps[i].status = "repairing" /\ gaps[j].status = "pending"
    \/ /\ gaps[i].status = gaps[j].status
       /\ \/ gaps[i].from < gaps[j].from
          \/ gaps[i].from = gaps[j].from /\ i <= j

\* GetNextOpenTronSyncGap returns row i.
NextOpenGap(i) ==
    /\ i \in DOMAIN gaps
    /\ Open(i)
    /\ \A j \in DOMAIN gaps : Open(j) => Precedes(i, j)

NoOpenGap == \A i \in DOMAIN gaps : ~Open(i)

\* CreateTronSyncGap.
CreateGapLate(from, to) ==
    gaps' = Append(gaps, [from |-> from + 1, to |-> to, status |-> "pending"])
CreateGapShort(from, to) ==
    gaps' = Append(gaps, [from |-> from, to |-> to - 1, status |-> "pending"])
CreateGapLong(from, to) ==
    gaps' = Append(gaps, [from |-> from, to |-> to + 1, status |-> "pending"])
CreateTronSyncGap(from, to) ==
    gaps' = Append(gaps, [from |-> from, to |-> to, status |-> "pending"])

\* MarkTronSyncGapRepairing and MarkTronSyncGapDone: UPDATE ... WHERE id = ?,
\* whatever the status is by now.
MarkAllGaps(i, status) ==
    gaps' = [j \in DOMAIN gaps |-> [gaps[j] EXCEPT !.status = status]]
MarkTronSyncGap(i, status) == gaps' = [gaps EXCEPT ![i].status = status]

\* The heights a node may answer with.
NodeView == {h \in 0 .. head : h >= head - NodeLag}

Init ==
    /\ head \in {h \in 0 .. 1 : h <= MaxBlock}
    /\ row = [k \in Keys |-> NoRow]
    /\ fresh = FALSE
    /\ gaps = <<>>
    /\ scanned = {}
    /\ base = NoRow /\ high = NoRow
    /\ mpc = "idle" /\ mCur = 0 /\ mLatest = 0 /\ mSince = 0
    /\ bpc = [b \in Backups |-> "down"]
    /\ bCur = [b \in Backups |-> 0]
    /\ bTarget = [b \in Backups |-> 0]
    /\ bMode = [b \in Backups |-> "none"]
    /\ bSince = [b \in Backups |-> 0]
    /\ bGap = [b \in Backups |-> 0]
    /\ bSeen = [b \in Backups |-> "done"]
    /\ faults = 0 /\ rewinds = 0

-----------------------------------------------------------------------------
(* The main scanner: Scanner.scan.                                         *)

\* scan() returns; its locals are gone.
MainReturn == mpc' = "idle" /\ mCur' = 0 /\ mLatest' = 0 /\ mSince' = 0

MainGoto(pc) == mpc' = pc

\* A tick or a trigger: read the heights.
MainBeginScan ==
    /\ mpc = "idle"
    /\ \E h \in NodeView : mLatest' = h
    /\ MainGoto("start")
    /\ UNCHANGED <<mCur, mSince, chainVars, backupVars, tableVars, budgetVars>>

\* No row yet: save the initial cursor and return.
MainInitCursor ==
    /\ mpc = "start"
    /\ row[Main] = NoRow
    /\ LET initial == InitialBlock(StartBlock, mLatest)
       IN SaveMain(initial) /\ base' = initial
    /\ MainReturn
    /\ UNCHANGED <<gaps, chainVars, backupVars, budgetVars>>

\* Load the cursor: too far behind -> record a gap, behind -> scan, else done.
MainLoadCursor ==
    /\ mpc = "start"
    /\ row[Main] # NoRow
    /\ IF Reached(row[Main], mLatest)
       THEN MainReturn
       ELSE /\ mCur' = row[Main]
            /\ MainGoto(IF ShouldSkip(row[Main], mLatest, SkipThreshold)
                        THEN "gap" ELSE "loop")
            /\ UNCHANGED <<mLatest, mSince>>
    /\ UNCHANGED <<chainVars, backupVars, tableVars, budgetVars>>

\* recordSkippedGap(currentBlock + 1, latestBlock).
MainRecordGap ==
    /\ mpc = "gap"
    /\ CreateTronSyncGap(mCur + 1, mLatest)
    /\ MainGoto("skip")
    /\ UNCHANGED <<mCur, mLatest, mSince, row, fresh, base, high,
                   chainVars, backupVars, budgetVars>>

\* SaveLastBlock(latestBlock), only after the gap row is in the table.
MainSkipToLatest ==
    /\ mpc = "skip"
    /\ SaveMain(mLatest)
    /\ MainReturn
    /\ UNCHANGED <<gaps, base, chainVars, backupVars, budgetVars>>

\* Loop head: resolveSyncCursor adopts a cursor changed in the database, and
\* only then looks at the lag again.
MainLoop ==
    /\ mpc = "loop"
    /\ IF Reached(mCur, mLatest) \/ Reached(row[Main], mLatest)
       THEN MainReturn
       ELSE /\ mCur' = row[Main]
            /\ MainGoto(IF /\ row[Main] # mCur
                           /\ ShouldSkip(row[Main], mLatest, SkipThreshold)
                        THEN "gap" ELSE "scan")
            /\ UNCHANGED <<mLatest, mSince>>
    /\ UNCHANGED <<chainVars, backupVars, tableVars, budgetVars>>

\* scanBlock(currentBlock + 1) succeeds.
MainScanBlock ==
    /\ mpc = "scan"
    /\ scanned' = scanned \cup {mCur + 1}
    /\ MainGoto("save")
    /\ UNCHANGED <<head, mCur, mLatest, mSince, backupVars, tableVars, budgetVars>>

\* SaveLastBlock(blockNum), and every RefreshInterval blocks a new latest.
MainSaveCursor ==
    /\ mpc = "save"
    /\ SaveMain(mCur + 1)
    /\ mCur' = mCur + 1
    /\ mSince' = mSince + 1
    /\ MainGoto(IF mSince + 1 >= RefreshInterval THEN "refresh" ELSE "loop")
    /\ UNCHANGED <<mLatest, gaps, base, chainVars, backupVars, budgetVars>>

\* loadLatestBlockForSource, and the lag check on the new height.
MainRefreshLatest ==
    /\ mpc = "refresh"
    /\ \E h \in NodeView :
          /\ mLatest' = h
          /\ MainGoto(IF ShouldSkip(mCur, h, SkipThreshold) THEN "gap" ELSE "loop")
    /\ mSince' = 0
    /\ UNCHANGED <<mCur, chainVars, backupVars, tableVars, budgetVars>>

\* Any call of scan() returns an error, or the process dies and is restarted.
MainFail ==
    /\ mpc # "idle"
    /\ faults < MaxFaults
    /\ faults' = faults + 1
    /\ MainReturn
    /\ UNCHANGED <<rewinds, chainVars, backupVars, tableVars>>

MainStep ==
    \/ MainBeginScan \/ MainInitCursor \/ MainLoadCursor \/ MainRecordGap
    \/ MainSkipToLatest \/ MainLoop \/ MainScanBlock \/ MainSaveCursor
    \/ MainRefreshLatest

-----------------------------------------------------------------------------
(* A backup scanner: alignBackupSyncCursor at startup, then scan().        *)

BackupGoto(b, pc) == bpc' = [bpc EXCEPT ![b] = pc]

\* scan() returns (or the process dies) and its locals are gone.
BackupLeave(b, pc) ==
    /\ BackupGoto(b, pc)
    /\ bCur' = [bCur EXCEPT ![b] = 0]
    /\ bTarget' = [bTarget EXCEPT ![b] = 0]
    /\ bMode' = [bMode EXCEPT ![b] = "none"]
    /\ bSince' = [bSince EXCEPT ![b] = 0]
    /\ bGap' = [bGap EXCEPT ![b] = 0]
    /\ bSeen' = [bSeen EXCEPT ![b] = "done"]

\* When a backup may be started for the first time: at any moment, or (the
\* careful deployment) once the main cursor exists and before any skip.
MayDeploy(b) ==
    \/ LateDeploy
    \/ row[b] # NoRow
    \/ row[Main] # NoRow /\ gaps = <<>>

\* Process start: read both cursors; only a missing backup cursor is aligned.
BackupStart(b) ==
    /\ bpc[b] = "down"
    /\ MayDeploy(b)
    /\ IF row[b] = NoRow /\ row[Main] # NoRow
       THEN /\ bCur' = [bCur EXCEPT ![b] = row[Main]]
            /\ BackupGoto(b, "align")
       ELSE BackupGoto(b, "idle") /\ UNCHANGED bCur
    /\ UNCHANGED <<bTarget, bMode, bSince, bGap, bSeen,
                   chainVars, mainVars, tableVars, budgetVars>>

\* SaveLastBlock(backup key, the main cursor read before).
BackupAlign(b) ==
    /\ bpc[b] = "align"
    /\ SaveBackup(b, bCur[b])
    /\ BackupLeave(b, "idle")
    /\ UNCHANGED <<fresh, gaps, base, high, chainVars, mainVars, budgetVars>>

\* A tick or a trigger: read the heights.
BackupBeginScan(b) ==
    /\ bpc[b] = "idle"
    /\ \E h \in NodeView : bTarget' = [bTarget EXCEPT ![b] = h]
    /\ BackupGoto(b, "resolve")
    /\ UNCHANGED <<bCur, bMode, bSince, bGap, bSeen,
                   chainVars, mainVars, tableVars, budgetVars>>

\* resolveTargetBlock: read the next open gap.
BackupReadGap(b) ==
    /\ bpc[b] = "resolve"
    /\ \E i \in DOMAIN gaps :
          /\ NextOpenGap(i)
          /\ bGap' = [bGap EXCEPT ![b] = i]
          /\ bSeen' = [bSeen EXCEPT ![b] = gaps[i].status]
    /\ BackupGoto(b, "gap")
    /\ UNCHANGED <<bCur, bTarget, bMode, bSince,
                   chainVars, mainVars, tableVars, budgetVars>>

\* The cursor is at or past the gap's end: mark it done, look for another.
BackupFinishGap(b) ==
    /\ bpc[b] = "gap"
    /\ row[b] # NoRow
    /\ row[b] >= gaps[bGap[b]].to
    /\ MarkTronSyncGap(bGap[b], "done")
    /\ bGap' = [bGap EXCEPT ![b] = 0]
    /\ bSeen' = [bSeen EXCEPT ![b] = "done"]
    /\ BackupGoto(b, "resolve")
    /\ UNCHANGED <<bCur, bTarget, bMode, bSince, row, fresh, base, high,
                   chainVars, mainVars, budgetVars>>

\* The cursor is outside [from-1, to] of gap g.
OutsideGap(b, g) == row[b] = NoRow \/ row[b] < g.from - 1 \/ row[b] > g.to

\* Otherwise repair it; a gap seen as pending is marked repairing.  The cursor
\* read once decides about "done" and about the reset.
BackupTakeGap(b) ==
    /\ bpc[b] = "gap"
    /\ row[b] = NoRow \/ row[b] < gaps[bGap[b]].to
    /\ IF bSeen[b] # "repairing"
       THEN MarkTronSyncGap(bGap[b], "repairing")
       ELSE UNCHANGED gaps
    /\ BackupGoto(b, IF OutsideGap(b, gaps[bGap[b]]) THEN "reset" ELSE "enter")
    /\ UNCHANGED <<bCur, bTarget, bMode, bSince, bGap, bSeen, row, fresh,
                   base, high, chainVars, mainVars, budgetVars>>

\* SaveLastBlock(just before the gap).
BackupResetCursor(b) ==
    /\ bpc[b] = "reset"
    /\ SaveBackup(b, BeforeGap(gaps[bGap[b]].from))
    /\ BackupGoto(b, "enter")
    /\ UNCHANGED <<bCur, bTarget, bMode, bSince, bGap, bSeen, fresh, gaps, base,
                   high, chainVars, mainVars, budgetVars>>

\* scan() loads the cursor and goes on with the gap's end as the target (a
\* cursor already there is turned away at the loop head).
BackupEnterGap(b) ==
    /\ bpc[b] = "enter"
    /\ bCur' = [bCur EXCEPT ![b] = row[b]]
    /\ bTarget' = [bTarget EXCEPT ![b] = gaps[bGap[b]].to]
    /\ bMode' = [bMode EXCEPT ![b] = "gap-repair"]
    /\ BackupGoto(b, "loop")
    /\ UNCHANGED <<bSince, bGap, bSeen, chainVars, mainVars, tableVars, budgetVars>>

\* No open gap.
BackupSeeNoGap(b) ==
    /\ bpc[b] = "resolve"
    /\ NoOpenGap
    /\ BackupGoto(b, "main")
    /\ UNCHANGED <<bCur, bTarget, bMode, bSince, bGap, bSeen,
                   chainVars, mainVars, tableVars, budgetVars>>

\* The main cursor exists and is not stale.
MainAlive == row[Main] # NoRow /\ fresh

\* GetSyncState(main key): take over only when the main scanner is not alive.
BackupCheckMain(b) ==
    /\ bpc[b] = "main"
    /\ IF MainAlive
       THEN BackupLeave(b, "idle")
       ELSE /\ BackupGoto(b, "own")
            /\ UNCHANGED <<bCur, bTarget, bMode, bSince, bGap, bSeen>>
    /\ UNCHANGED <<chainVars, mainVars, tableVars, budgetVars>>

\* Load the own cursor, behind the chain: scan up to its head.
BackupTakeOver(b) ==
    /\ bpc[b] = "own"
    /\ row[b] # NoRow
    /\ ~Reached(row[b], bTarget[b])
    /\ bCur' = [bCur EXCEPT ![b] = row[b]]
    /\ bMode' = [bMode EXCEPT ![b] = "takeover"]
    /\ BackupGoto(b, "loop")
    /\ UNCHANGED <<bTarget, bSince, bGap, bSeen,
                   chainVars, mainVars, tableVars, budgetVars>>

\* Taking over without a cursor of its own: save the initial one and return.
BackupInitCursor(b) ==
    /\ bpc[b] = "own"
    /\ row[b] = NoRow
    /\ SaveBackup(b, InitialBlock(StartBlock, bTarget[b]))
    /\ BackupLeave(b, "idle")
    /\ UNCHANGED <<fresh, gaps, base, high, chainVars, mainVars, budgetVars>>

\* Nothing is left to scan.
BackupStayIdle(b) ==
    /\ bpc[b] = "own"
    /\ row[b] # NoRow
    /\ Reached(row[b], bTarget[b])
    /\ BackupLeave(b, "idle")
    /\ UNCHANGED <<chainVars, mainVars, tableVars, budgetVars>>

\* Loop head: resolveSyncCursor.
BackupLoop(b) ==
    /\ bpc[b] = "loop"
    /\ IF Reached(bCur[b], bTarget[b]) \/ Reached(row[b], bTarget[b])
       THEN BackupLeave(b, "idle")
       ELSE /\ bCur' = [bCur EXCEPT ![b] = row[b]]
            /\ BackupGoto(b, "scan")
            /\ UNCHANGED <<bTarget, bMode, bSince, bGap, bSeen>>
    /\ UNCHANGED <<chainVars, mainVars, tableVars, budgetVars>>

\* scanBlock(currentBlock + 1) succeeds.
BackupScanBlock(b) ==
    /\ bpc[b] = "scan"
    /\ scanned' = scanned \cup {bCur[b] + 1}
    /\ BackupGoto(b, "save")
    /\ UNCHANGED <<head, bCur, bTarget, bMode, bSince, bGap, bSeen,
                   mainVars, tableVars, budgetVars>>

\* SaveLastBlock(blockNum).  A takeover counts the blocks up to its recheck.
BackupSaveCursor(b) ==
    /\ bpc[b] = "save"
    /\ SaveBackup(b, bCur[b] + 1)
    /\ bCur' = [bCur EXCEPT ![b] = @ + 1]
    /\ IF bMode[b] # "takeover"
       THEN BackupGoto(b, "loop") /\ UNCHANGED bSince
       ELSE IF bSince[b] + 1 >= RecheckInterval
            THEN BackupGoto(b, "recheck") /\ bSince' = [bSince EXCEPT ![b] = 0]
            ELSE BackupGoto(b, "preempt") /\ bSince' = [bSince EXCEPT ![b] = @ + 1]
    /\ UNCHANGED <<bTarget, bMode, bGap, bSeen, fresh, gaps, base, high,
                   chainVars, mainVars, budgetVars>>

\* stopTakeoverIfMainRecovered: a fresh main cursor ends the takeover.
BackupRecheckMain(b) ==
    /\ bpc[b] = "recheck"
    /\ IF MainAlive
       THEN BackupLeave(b, "idle")
       ELSE /\ BackupGoto(b, "preempt")
            /\ UNCHANGED <<bCur, bTarget, bMode, bSince, bGap, bSeen>>
    /\ UNCHANGED <<chainVars, mainVars, tableVars, budgetVars>>

\* preemptTakeoverForNewGap: an open gap that ends above the cursor does too.
BackupPreempt(b) ==
    /\ bpc[b] = "preempt"
    /\ IF \E i \in DOMAIN gaps : NextOpenGap(i) /\ bCur[b] < gaps[i].to
       THEN BackupLeave(b, "idle")
       ELSE /\ BackupGoto(b, "loop")
            /\ UNCHANGED <<bCur, bTarget, bMode, bSince, bGap, bSeen>>
    /\ UNCHANGED <<chainVars, mainVars, tableVars, budgetVars>>

\* Any call returns an error (back to waiting) or the process dies.
BackupFail(b) ==
    /\ bpc[b] # "down"
    /\ faults < MaxFaults
    /\ faults' = faults + 1
    /\ \/ bpc[b] \notin {"idle", "align"} /\ BackupLeave(b, "idle")
       \/ BackupLeave(b, "down")
    /\ UNCHANGED <<rewinds, chainVars, mainVars, tableVars>>

BackupStep(b) ==
    \/ BackupStart(b) \/ BackupAlign(b) \/ BackupBeginScan(b)
    \/ BackupReadGap(b) \/ BackupFinishGap(b) \/ BackupTakeGap(b)
    \/ BackupResetCursor(b) \/ BackupEnterGap(b) \/ BackupSeeNoGap(b)
    \/ BackupCheckMain(b) \/ BackupTakeOver(b) \/ BackupInitCursor(b)
    \/ BackupStayIdle(b) \/ BackupLoop(b) \/ BackupScanBlock(b)
    \/ BackupSaveCursor(b) \/ BackupRecheckMain(b) \/ BackupPreempt(b)

-----------------------------------------------------------------------------
(* The environment.                                                        *)

ChainGrows ==
    /\ head < MaxBlock
    /\ head' = head + 1
    /\ UNCHANGED <<scanned, mainVars, backupVars, tableVars, budgetVars>>

\* mainStaleDuration passes without a change of the main row.
MainGoesStale ==
    /\ fresh
    /\ fresh' = FALSE
    /\ UNCHANGED <<row, gaps, base, high, chainVars, mainVars, backupVars, budgetVars>>

\* An operator lowers a cursor by hand, the case resolveSyncCursor is for.
\* Never below the place where the main scanner began.
OperatorRewinds(k) ==
    /\ rewinds < MaxRewinds
    /\ rewinds' = rewinds + 1
    /\ base # NoRow
    /\ \E v \in base .. (row[k] - 1) : row' = [row EXCEPT ![k] = v]
    /\ fresh' = (fresh \/ k = Main)
    /\ UNCHANGED <<faults, gaps, base, high, chainVars, mainVars, backupVars>>

Next ==
    \/ MainStep
    \/ MainFail
    \/ \E b \in Backups : BackupStep(b) \/ BackupFail(b)
    \/ ChainGrows
    \/ MainGoesStale
    \/ \E k \in Keys : OperatorRewinds(k)

Spec == Init /\ [][Next]_vars

\* Each process keeps running: its ticker fires every poll interval and every
\* call returns.  Faults and rewinds are bounded, growth of the chain and the
\* passing of mainStaleDuration are not assumed to happen.
Fairness == WF_vars(MainStep) /\ \A b \in Backups : WF_vars(BackupStep(b))

FairSpec == Spec /\ Fairness

-----------------------------------------------------------------------------
(* What must hold.                                                         *)

InGap(x, i) == gaps[i].from <= x /\ x <= gaps[i].to

\* Block x is in the transfer tables, or a gap row still asks for it.
Accounted(x) ==
    \/ x \in scanned
    \/ \E i \in DOMAIN gaps : Open(i) /\ InGap(x, i)

\* No block is lost: every block the main cursor has ever passed since the
\* scanner began was scanned by somebody or is owed by an open gap row.  This
\* is what the order "gap row first, cursor second" in scanner.go is for.
NoBlockLost == base # NoRow => \A x \in Between(base, high) : Accounted(x)

\* A gap row is closed only over scanned blocks: MarkTronSyncGapDone looks at
\* the backup's cursor alone, so a cursor that ran ahead would close it early.
DoneMeansScanned ==
    \A i \in DOMAIN gaps :
        gaps[i].status = "done" => gaps[i].from .. gaps[i].to \subseteq scanned

\* A backup cursor never stands above an unscanned block: neither a takeover,
\* a reset to another gap nor a rewind opens a hole underneath it.
NoHoleBelowBackup ==
    base # NoRow =>
        \A b \in Backups : Between(base, row[b]) \subseteq scanned

\* Cursors, targets and gaps never get ahead of the chain.
WithinChain ==
    /\ \A k \in Keys : row[k] <= head
    /\ \A i \in DOMAIN gaps : gaps[i].to <= head

\* A repair never runs past the end of its gap, even when the main scanner
\* keeps recording gaps and another backup closes this one meanwhile.
RepairStaysInGap ==
    [][\A b \in Backups :
         BackupScanBlock(b) /\ bMode[b] = "gap-repair" => bCur[b] < gaps[bGap[b]].to]_vars

\* Every backup has a cursor, at or below the main one, before the first skip
\* (and not because somebody lowered it under a running takeover).
InTime ==
    /\ row[Main] # NoRow /\ gaps = <<>> /\ rewinds = 0
    /\ \A b \in Backups : row[b] \in 0 .. row[Main]

\* Then every gap is repaired in the end: its row is done and its blocks are
\* scanned, with takeovers, rewinds and crashes between any two statements around.
\* (A backup deployed later starts at the main cursor and closes the gaps below
\* it unscanned.)
Repaired(i) == gaps[i].status = "done" /\ gaps[i].from .. gaps[i].to \subseteq scanned
GapsGetRepaired == [](InTime => <>[](\A i \in DOMAIN gaps : Repaired(i)))

\* Once the chain stops, the main cursor reaches its head and stays there.
MainCatchesUp == <>[](row[Main] = head)

\* The blocks the open gap rows ask for.
Owed == UNION {gaps[i].from .. gaps[i].to : i \in {j \in DOMAIN gaps : Open(j)}}

\* The scanners and their tables implement the ledger: the main cursor is the
\* watermark, open gap rows are the books.  Nothing is given up: scanBlock does
\* all its work before the cursor is saved.
Ledger == INSTANCE BlockLedger WITH processed <- scanned, owed <- Owed, forfeited <- {}

LedgerSpec == Ledger!Spec
=============================================================================
