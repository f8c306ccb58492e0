--------------------------- MODULE TronSyncProofs ---------------------------
(***************************************************************************)
(* Type correctness of TronSync, and the safety of block synchronisation,  *)
(* for every number of backups and every value of the other constants.     *)
(* The latter is for backups deployed before the main scanner's first skip *)
(* (LateDeploy = FALSE): one first deployed later closes gaps unscanned.   *)
(***************************************************************************)
EXTENDS TronSync, SequenceTheorems, TLAPS

-----------------------------------------------------------------------------
(* Gap rows.                                                               *)

\* The fields of a row of the table.
LEMMA RowFields ==
    ASSUME NEW s \in Seq(GapRow), NEW i \in DOMAIN s
    PROVE  /\ i \in Nat
           /\ s[i] \in GapRow
           /\ s[i].from \in Nat /\ s[i].to \in Nat /\ s[i].status \in GapStatus
  <1>1. i \in Nat
    OBVIOUS
  <1>2. s[i] \in GapRow
    BY ElementOfSeq
  <1> QED BY <1>1, <1>2 DEF GapRow

\* CreateTronSyncGap adds a row and touches no other.
LEMMA AppendGap ==
    ASSUME NEW s \in Seq(GapRow), NEW g \in GapRow
    PROVE  /\ Append(s, g) \in Seq(GapRow)
           /\ DOMAIN Append(s, g) = DOMAIN s \cup {Len(s) + 1}
           /\ Len(s) + 1 \notin DOMAIN s
           /\ \A i \in DOMAIN s : Append(s, g)[i] = s[i]
           /\ Append(s, g)[Len(s) + 1] = g
  OBVIOUS

\* MarkTronSyncGap changes the status of one row and nothing else.
LEMMA MarkGap ==
    ASSUME NEW s \in Seq(GapRow), NEW i, NEW st \in GapStatus
    PROVE  LET t == [s EXCEPT ![i].status = st]
           IN /\ t \in Seq(GapRow)
              /\ DOMAIN t = DOMAIN s
              /\ \A j \in DOMAIN s : /\ t[j].from = s[j].from
                                     /\ t[j].to = s[j].to
                                     /\ j # i => t[j] = s[j]
                                     /\ j = i => t[j].status = st
  <1> DEFINE t == [s EXCEPT ![i].status = st]
  <1>1. DOMAIN t = DOMAIN s /\ DOMAIN s = 1 .. Len(s) /\ Len(s) \in Nat
    OBVIOUS
  <1>2. ASSUME NEW j \in DOMAIN s
        PROVE  /\ t[j] \in GapRow
               /\ t[j].from = s[j].from
               /\ t[j].to = s[j].to
               /\ j # i => t[j] = s[j]
               /\ j = i => t[j].status = st
    <2>1. s[j] \in GapRow
      BY RowFields
    <2>2. CASE j = i
      <3>1. t[j] = [s[j] EXCEPT !.status = st]
        BY <2>2
      <3> QED BY <2>1, <2>2, <3>1 DEF GapRow
    <2>3. CASE j # i
      <3>1. t[j] = s[j]
        BY <2>3
      <3> QED BY <2>1, <2>3, <3>1
    <2> QED BY <2>2, <2>3
  <1>3. t = [j \in DOMAIN s |-> t[j]]
    OBVIOUS
  <1>4. t \in [1 .. Len(s) -> GapRow]
    <2> HIDE DEF t
    <2> QED BY <1>1, <1>2, <1>3
  <1>5. t \in Seq(GapRow)
    <2> HIDE DEF t
    <2> QED BY <1>1, <1>4, SeqDef
  <1> QED BY <1>1, <1>2, <1>5

-----------------------------------------------------------------------------
(* Keys, rows and functions.                                               *)

LEMMA KeyFacts ==
    /\ Main \in Keys
    /\ \A b \in Backups : b \in Keys /\ b # Main
  BY ConstantsOK DEF Keys

LEMMA RowFacts ==
    /\ \A n \in Nat : n \in RowValue /\ n # NoRow
    /\ \A r \in RowValue : r # NoRow => r \in Nat
    /\ NoRow \in RowValue
  BY DEF RowValue, NoRow

LEMMA Assign ==
    ASSUME NEW S, NEW T, NEW f \in [S -> T], NEW a \in S, NEW v \in T
    PROVE  /\ [f EXCEPT ![a] = v] \in [S -> T]
           /\ [f EXCEPT ![a] = v][a] = v
           /\ \A c \in S \ {a} : [f EXCEPT ![a] = v][c] = f[c]
  OBVIOUS

\* The initial cursor is a block.
LEMMA InitialBlockType ==
    ASSUME NEW h \in Nat
    PROVE  InitialBlock(StartBlock, h) \in Nat
  BY ConstantsOK DEF InitialBlock

-----------------------------------------------------------------------------
(* The type invariant, group by group.                                     *)

Working == {"gap", "skip", "loop", "scan", "save", "refresh"}
Scanning == {"loop", "scan", "save", "recheck", "preempt"}

ChainTypes == head \in Nat /\ scanned \subseteq Nat
MainTypes == mpc \in MainPC /\ mCur \in Nat /\ mLatest \in Nat /\ mSince \in Nat
TableTypes ==
    /\ row \in [Keys -> RowValue]
    /\ fresh \in BOOLEAN
    /\ gaps \in Seq(GapRow)
    /\ base \in RowValue
    /\ high \in RowValue
BackupTypes ==
    /\ bpc \in [Backups -> BackupPC]
    /\ bCur \in [Backups -> Nat]
    /\ bTarget \in [Backups -> Nat]
    /\ bMode \in [Backups -> Mode]
    /\ bSince \in [Backups -> Nat]
    /\ bGap \in [Backups -> Nat]
    /\ bSeen \in [Backups -> GapStatus]
BudgetTypes == faults \in Nat /\ rewinds \in Nat

\* What makes the types inductive: a scan() past its first database read has a
\* cursor row, and a chosen gap is a row of the table.
MainHasRow == mpc \in Working => row[Main] # NoRow
BackupHasRow(b) ==
    /\ bpc[b] \in Scanning \cup {"enter"} => row[b] # NoRow
    /\ bpc[b] \in {"gap", "reset", "enter"} => bGap[b] \in DOMAIN gaps

TypeInv ==
    /\ ChainTypes /\ MainTypes /\ TableTypes /\ BackupTypes /\ BudgetTypes
    /\ MainHasRow
    /\ \A b \in Backups : BackupHasRow(b)

LEMMA TypeParts == TypeInv => TypeOK
  BY DEF TypeInv, TypeOK, ChainTypes, MainTypes, TableTypes, BackupTypes, BudgetTypes

LEMMA TypeInit == Init => TypeInv
  <1> SUFFICES ASSUME Init PROVE TypeInv
    OBVIOUS
  <1> USE RowFacts DEF Init
  <1>1. ChainTypes /\ MainTypes /\ BudgetTypes
    BY DEF ChainTypes, MainTypes, MainPC, BudgetTypes
  <1>2. TableTypes
    <2>1. gaps \in Seq(GapRow)
      OBVIOUS
    <2> QED BY <2>1 DEF TableTypes
  <1>3. BackupTypes
    BY DEF BackupTypes, BackupPC, Mode, GapStatus
  <1>4. MainHasRow /\ \A b \in Backups : BackupHasRow(b)
    BY DEF MainHasRow, BackupHasRow, Working, Scanning
  <1> QED BY <1>1, <1>2, <1>3, <1>4 DEF TypeInv

\* What a step leaves alone keeps its type.
LEMMA Frames ==
    /\ ChainTypes /\ UNCHANGED chainVars => ChainTypes'
    /\ MainTypes /\ UNCHANGED mainVars => MainTypes'
    /\ TableTypes /\ UNCHANGED tableVars => TableTypes'
    /\ BackupTypes /\ UNCHANGED backupVars => BackupTypes'
    /\ BudgetTypes /\ UNCHANGED budgetVars => BudgetTypes'
  BY DEF ChainTypes, chainVars, MainTypes, mainVars, TableTypes, tableVars,
         BackupTypes, backupVars, BudgetTypes, budgetVars

\* No step of anybody removes a cursor row or a gap row.
RowsKept ==
    /\ \A k \in Keys : row[k] # NoRow => row'[k] # NoRow
    /\ DOMAIN gaps \subseteq DOMAIN gaps'

LEMMA KeepsRow ==
    ASSUME RowsKept, NEW c \in Backups, BackupHasRow(c),
           bpc'[c] = bpc[c], bGap'[c] = bGap[c]
    PROVE  BackupHasRow(c)'
  BY KeyFacts DEF RowsKept, BackupHasRow

LEMMA TypeMain ==
    ASSUME TypeInv, MainStep \/ MainFail
    PROVE  TypeInv' /\ RowsKept
  <1>1. BackupTypes' /\ (\A c \in Backups : bpc'[c] = bpc[c] /\ bGap'[c] = bGap[c])
    <2>1. UNCHANGED backupVars
      BY DEF MainStep, MainBeginScan, MainInitCursor, MainLoadCursor, MainRecordGap,
             MainSkipToLatest, MainLoop, MainScanBlock, MainSaveCursor,
             MainRefreshLatest, MainFail
    <2> QED BY <2>1, Frames DEF TypeInv, backupVars
  <1>2. TypeInv /\ MainTypes
    BY DEF TypeInv
  <1>3. /\ ChainTypes' /\ MainTypes' /\ TableTypes' /\ BudgetTypes'
        /\ MainHasRow' /\ RowsKept
    <2> USE Frames, KeyFacts, RowFacts
        DEF TypeInv, MainPC, MainHasRow, RowsKept, Working, MainReturn, MainGoto
    <2>1. CASE MainBeginScan
      BY <2>1 DEF MainBeginScan, NodeView, MainTypes, ChainTypes, tableVars
    <2>2. CASE MainInitCursor
      <3> DEFINE n == InitialBlock(StartBlock, mLatest)
      <3>1. n \in Nat
        BY InitialBlockType DEF MainTypes
      <3>2. row' = [row EXCEPT ![Main] = n] /\ base' = n /\ fresh' \in BOOLEAN
            /\ high' \in RowValue /\ gaps' = gaps
        BY <2>2, <3>1 DEF MainInitCursor, SaveMain, TableTypes
      <3>3. TableTypes' /\ \A k \in Keys : row[k] # NoRow => row'[k] # NoRow
        <4> HIDE DEF n
        <4> QED BY <3>1, <3>2 DEF TableTypes
      <3> QED BY <2>2, <3>2, <3>3 DEF MainInitCursor, MainTypes
    <2>3. CASE MainLoadCursor
      <3>1. mCur' \in Nat /\ mLatest' \in Nat /\ mSince' \in Nat
        BY <2>3 DEF MainLoadCursor, MainTypes, TableTypes
      <3> QED BY <2>3, <3>1 DEF MainLoadCursor, MainTypes, tableVars
    <2>4. CASE MainRecordGap
      <3>1. [from |-> mCur + 1, to |-> mLatest, status |-> "pending"] \in GapRow
        BY DEF GapRow, MainTypes, GapStatus
      <3>2. gaps' \in Seq(GapRow) /\ DOMAIN gaps \subseteq DOMAIN gaps'
        BY <2>4, <3>1, AppendGap DEF MainRecordGap, CreateTronSyncGap, TableTypes
      <3> QED BY <2>4, <3>2 DEF MainRecordGap, MainTypes, TableTypes
    <2>5. CASE MainSkipToLatest
      BY <2>5 DEF MainSkipToLatest, SaveMain, MainTypes, TableTypes
    <2>6. CASE MainLoop
      <3>1. mCur' \in Nat /\ mLatest' \in Nat /\ mSince' \in Nat
        BY <2>6 DEF MainLoop, MainTypes, TableTypes
      <3> QED BY <2>6, <3>1 DEF MainLoop, MainTypes, tableVars
    <2>7. CASE MainScanBlock
      <3>1. mCur + 1 \in Nat
        BY DEF MainTypes
      <3>2. scanned' \subseteq Nat
        BY <2>7, <3>1 DEF MainScanBlock, ChainTypes
      <3> QED BY <2>7, <3>2 DEF MainScanBlock, MainTypes, ChainTypes, tableVars
    <2>8. CASE MainSaveCursor
      BY <2>8 DEF MainSaveCursor, SaveMain, MainTypes, TableTypes
    <2>9. CASE MainRefreshLatest
      BY <2>9 DEF MainRefreshLatest, NodeView, MainTypes, ChainTypes, tableVars
    <2>10. CASE MainFail
      BY <2>10 DEF MainFail, MainTypes, BudgetTypes, tableVars
    <2> QED BY <2>1, <2>2, <2>3, <2>4, <2>5, <2>6, <2>7, <2>8, <2>9, <2>10 DEF MainStep
  <1> QED BY <1>1, <1>3, KeepsRow DEF TypeInv

\* scan() of a backup returns, or its process dies.
LEMMA LeaveTypes ==
    ASSUME BackupTypes, NEW b \in Backups, NEW pc \in BackupPC, BackupLeave(b, pc)
    PROVE  /\ BackupTypes'
           /\ bpc'[b] = pc
           /\ \A c \in Backups \ {b} : bpc'[c] = bpc[c] /\ bGap'[c] = bGap[c]
  <1>1. "none" \in Mode /\ "done" \in GapStatus /\ 0 \in Nat
    BY DEF Mode, GapStatus
  <1> QED BY <1>1, Assign DEF BackupTypes, BackupLeave, BackupGoto

\* SaveLastBlock for a backup key.
LEMMA SaveTypes ==
    ASSUME TableTypes, NEW b \in Backups, NEW n \in Nat, SaveBackup(b, n),
           UNCHANGED <<fresh, gaps, base, high>>
    PROVE  /\ TableTypes' /\ RowsKept
           /\ row'[b] = n
           /\ \A k \in Keys \ {b} : row'[k] = row[k]
  <1>1. n \in RowValue /\ n # NoRow /\ b \in Keys
    BY RowFacts, KeyFacts
  <1>2. row' = [row EXCEPT ![b] = n]
    BY DEF SaveBackup
  <1>3. /\ row' \in [Keys -> RowValue]
        /\ row'[b] = n
        /\ \A k \in Keys \ {b} : row'[k] = row[k]
    BY <1>1, <1>2, Assign DEF TableTypes
  <1> QED BY <1>1, <1>3 DEF TableTypes, RowsKept

\* MarkTronSyncGapRepairing and MarkTronSyncGapDone.
LEMMA MarkTypes ==
    ASSUME TableTypes, NEW i, NEW st \in GapStatus, MarkTronSyncGap(i, st),
           UNCHANGED <<row, fresh, base, high>>
    PROVE  TableTypes' /\ RowsKept /\ DOMAIN gaps' = DOMAIN gaps
  <1>1. gaps' \in Seq(GapRow) /\ DOMAIN gaps' = DOMAIN gaps
    BY MarkGap DEF MarkTronSyncGap, TableTypes
  <1> QED BY <1>1 DEF TableTypes, RowsKept

\* A step of backup b: its own variables, the rows it writes, and nothing of
\* the others.
Contained(b) == \A c \in Backups \ {b} : bpc'[c] = bpc[c] /\ bGap'[c] = bGap[c]

LEMMA TypeBackup ==
    ASSUME TypeInv, NEW b \in Backups, BackupStep(b) \/ BackupFail(b)
    PROVE  TypeInv' /\ RowsKept
  <1> USE Frames DEF TypeInv
  <1>1. /\ BackupTypes' /\ ChainTypes' /\ TableTypes' /\ BudgetTypes'
        /\ RowsKept /\ Contained(b) /\ BackupHasRow(b)'
    <2> USE DEF BackupPC, Contained
    <2>1. CASE BackupStart(b)
      <3>1. row[b] = NoRow /\ row[Main] # NoRow => row[Main] \in Nat
        BY KeyFacts, RowFacts DEF TableTypes
      <3>2. BackupTypes' /\ bpc'[b] \in {"align", "idle"} /\ Contained(b)
        BY <2>1, <3>1, Assign DEF BackupStart, BackupGoto, BackupTypes
      <3> QED BY <2>1, <3>2 DEF BackupStart, RowsKept, tableVars, BackupHasRow, Scanning
    <2>2. CASE BackupAlign(b)
      <3>1. bCur[b] \in Nat
        BY DEF BackupTypes
      <3>2. TableTypes' /\ RowsKept
        BY <2>2, <3>1, SaveTypes DEF BackupAlign
      <3>3. BackupTypes' /\ Contained(b) /\ bpc'[b] = "idle"
        BY <2>2, LeaveTypes DEF BackupAlign
      <3> QED BY <2>2, <3>2, <3>3 DEF BackupAlign, BackupHasRow, Scanning
    <2>3. CASE BackupBeginScan(b)
      <3>1. PICK h \in NodeView : bTarget' = [bTarget EXCEPT ![b] = h]
        BY <2>3 DEF BackupBeginScan
      <3>2. h \in Nat
        BY DEF NodeView, ChainTypes
      <3>3. BackupTypes' /\ bpc'[b] = "resolve" /\ Contained(b)
        BY <2>3, <3>1, <3>2, Assign DEF BackupBeginScan, BackupGoto, BackupTypes
      <3> QED BY <2>3, <3>3 DEF BackupBeginScan, RowsKept, tableVars, BackupHasRow, Scanning
    <2>4. CASE BackupReadGap(b)
      <3>1. PICK i \in DOMAIN gaps :
                 /\ bGap' = [bGap EXCEPT ![b] = i]
                 /\ bSeen' = [bSeen EXCEPT ![b] = gaps[i].status]
        BY <2>4 DEF BackupReadGap
      <3>2. i \in Nat /\ gaps[i].status \in GapStatus
        BY RowFields DEF TableTypes
      <3>3. BackupTypes' /\ bpc'[b] = "gap" /\ bGap'[b] = i /\ Contained(b)
        BY <2>4, <3>1, <3>2, Assign DEF BackupReadGap, BackupGoto, BackupTypes
      <3> QED BY <2>4, <3>3 DEF BackupReadGap, RowsKept, tableVars, BackupHasRow, Scanning
    <2>5. CASE BackupFinishGap(b)
      <3>1. TableTypes' /\ RowsKept
        BY <2>5, MarkTypes DEF BackupFinishGap, GapStatus
      <3>2. "done" \in GapStatus /\ 0 \in Nat
        BY DEF GapStatus
      <3>3. BackupTypes' /\ bpc'[b] = "resolve" /\ Contained(b)
        BY <2>5, <3>2, Assign DEF BackupFinishGap, BackupGoto, BackupTypes
      <3> QED BY <2>5, <3>1, <3>3 DEF BackupFinishGap, BackupHasRow, Scanning
    <2>6. CASE BackupTakeGap(b)
      <3>1. TableTypes' /\ RowsKept /\ DOMAIN gaps' = DOMAIN gaps
        <4>1. CASE bSeen[b] # "repairing"
          BY <2>6, <4>1, MarkTypes DEF BackupTakeGap, GapStatus
        <4>2. CASE bSeen[b] = "repairing"
          BY <2>6, <4>2 DEF BackupTakeGap, TableTypes, RowsKept
        <4> QED BY <4>1, <4>2
      <3>2. /\ BackupTypes' /\ bGap'[b] = bGap[b] /\ Contained(b)
            /\ bpc'[b] = IF OutsideGap(b, gaps[bGap[b]]) THEN "reset" ELSE "enter"
        BY <2>6, Assign DEF BackupTakeGap, BackupGoto, BackupTypes
      <3>3. bpc[b] = "gap" /\ BackupHasRow(b)
        BY <2>6 DEF BackupTakeGap
      <3> QED BY <2>6, <3>1, <3>2, <3>3 DEF BackupTakeGap, BackupHasRow, Scanning, OutsideGap
    <2>7. CASE BackupResetCursor(b)
      <3>1. bGap[b] \in DOMAIN gaps
        BY <2>7 DEF BackupResetCursor, BackupHasRow
      <3>2. BeforeGap(gaps[bGap[b]].from) \in Nat
        BY <3>1, RowFields DEF TableTypes, BeforeGap
      <3>3. TableTypes' /\ RowsKept /\ row'[b] # NoRow
        BY <2>7, <3>2, SaveTypes, RowFacts DEF BackupResetCursor
      <3>4. BackupTypes' /\ bpc'[b] = "enter" /\ Contained(b) /\ bGap'[b] = bGap[b]
        BY <2>7, Assign DEF BackupResetCursor, BackupGoto, BackupTypes
      <3> QED BY <2>7, <3>1, <3>3, <3>4 DEF BackupResetCursor, BackupHasRow, RowsKept
    <2>17. CASE BackupEnterGap(b)
      <3>1. bGap[b] \in DOMAIN gaps /\ row[b] # NoRow
        BY <2>17 DEF BackupEnterGap, BackupHasRow
      <3>2. gaps[bGap[b]].to \in Nat /\ row[b] \in Nat
        BY <3>1, RowFields, KeyFacts, RowFacts DEF TableTypes
      <3>3. BackupTypes' /\ bpc'[b] = "loop" /\ Contained(b)
        <4>1. "gap-repair" \in Mode
          BY DEF Mode
        <4> QED BY <2>17, <3>2, <4>1, Assign DEF BackupEnterGap, BackupGoto, BackupTypes
      <3> QED BY <2>17, <3>1, <3>3 DEF BackupEnterGap, BackupHasRow, RowsKept, tableVars
    <2>18. CASE BackupSeeNoGap(b)
      <3>1. BackupTypes' /\ bpc'[b] = "main" /\ Contained(b)
        BY <2>18, Assign DEF BackupSeeNoGap, BackupGoto, BackupTypes
      <3> QED BY <2>18, <3>1 DEF BackupSeeNoGap, BackupHasRow, Scanning, RowsKept, tableVars
    <2>19. CASE BackupCheckMain(b)
      <3>1. BackupTypes' /\ bpc'[b] \in {"idle", "own"} /\ Contained(b)
        <4>1. CASE MainAlive
          BY <2>19, <4>1, LeaveTypes DEF BackupCheckMain
        <4>2. CASE ~MainAlive
          BY <2>19, <4>2, Assign DEF BackupCheckMain, BackupGoto, BackupTypes
        <4> QED BY <4>1, <4>2
      <3> QED BY <2>19, <3>1 DEF BackupCheckMain, BackupHasRow, Scanning, RowsKept, tableVars
    <2>8. CASE BackupTakeOver(b)
      <3>1. row[b] \in Nat
        BY <2>8, KeyFacts, RowFacts DEF BackupTakeOver, TableTypes
      <3>2. BackupTypes' /\ bpc'[b] = "loop" /\ Contained(b)
        <4>1. "takeover" \in Mode
          BY DEF Mode
        <4> QED BY <2>8, <3>1, <4>1, Assign DEF BackupTakeOver, BackupGoto, BackupTypes
      <3> QED BY <2>8, <3>2 DEF BackupTakeOver, RowsKept, tableVars, BackupHasRow
    <2>9. CASE BackupInitCursor(b)
      <3>1. InitialBlock(StartBlock, bTarget[b]) \in Nat
        BY InitialBlockType DEF BackupTypes
      <3>2. TableTypes' /\ RowsKept
        BY <2>9, <3>1, SaveTypes DEF BackupInitCursor
      <3>3. BackupTypes' /\ Contained(b) /\ bpc'[b] = "idle"
        BY <2>9, LeaveTypes DEF BackupInitCursor
      <3> QED BY <2>9, <3>2, <3>3 DEF BackupInitCursor, BackupHasRow, Scanning
    <2>10. CASE BackupStayIdle(b)
      <3>1. BackupTypes' /\ Contained(b) /\ bpc'[b] = "idle"
        BY <2>10, LeaveTypes DEF BackupStayIdle
      <3> QED BY <2>10, <3>1 DEF BackupStayIdle, RowsKept, tableVars, BackupHasRow, Scanning
    <2>11. CASE BackupLoop(b)
      <3>1. CASE Reached(bCur[b], bTarget[b]) \/ Reached(row[b], bTarget[b])
        <4>1. BackupTypes' /\ Contained(b) /\ bpc'[b] = "idle"
          BY <2>11, <3>1, LeaveTypes DEF BackupLoop
        <4> QED BY <2>11, <4>1 DEF BackupLoop, RowsKept, tableVars, BackupHasRow, Scanning
      <3>2. CASE ~(Reached(bCur[b], bTarget[b]) \/ Reached(row[b], bTarget[b]))
        <4>1. row[b] \in Nat /\ row[b] # NoRow
          BY <2>11, KeyFacts, RowFacts DEF BackupLoop, TableTypes, BackupHasRow, Scanning
        <4>2. BackupTypes' /\ bpc'[b] = "scan" /\ Contained(b)
          BY <2>11, <3>2, <4>1, Assign DEF BackupLoop, BackupGoto, BackupTypes
        <4> QED BY <2>11, <4>1, <4>2 DEF BackupLoop, RowsKept, tableVars, BackupHasRow
      <3> QED BY <3>1, <3>2
    <2>12. CASE BackupScanBlock(b)
      <3>1. bCur[b] + 1 \in Nat
        BY DEF BackupTypes
      <3>2. ChainTypes'
        BY <2>12, <3>1 DEF BackupScanBlock, ChainTypes
      <3>3. BackupTypes' /\ bpc'[b] = "save" /\ Contained(b)
        BY <2>12, Assign DEF BackupScanBlock, BackupGoto, BackupTypes
      <3>4. row[b] # NoRow
        BY <2>12 DEF BackupScanBlock, BackupHasRow, Scanning
      <3> QED BY <2>12, <3>2, <3>3, <3>4 DEF BackupScanBlock, RowsKept, tableVars, BackupHasRow
    <2>13. CASE BackupSaveCursor(b)
      <3>1. bCur[b] + 1 \in Nat /\ bSince[b] + 1 \in Nat
        BY DEF BackupTypes
      <3>2. TableTypes' /\ RowsKept /\ row'[b] # NoRow
        BY <2>13, <3>1, SaveTypes, RowFacts DEF BackupSaveCursor
      <3>3. BackupTypes' /\ bpc'[b] \in Scanning /\ Contained(b)
        <4>1. /\ bCur' = [bCur EXCEPT ![b] = bCur[b] + 1]
              /\ bSince' = bSince \/ \E n \in Nat : bSince' = [bSince EXCEPT ![b] = n]
              /\ \E pc \in {"loop", "recheck", "preempt"} : bpc' = [bpc EXCEPT ![b] = pc]
          BY <2>13, <3>1 DEF BackupSaveCursor, BackupGoto
        <4>2. bCur' \in [Backups -> Nat] /\ bSince' \in [Backups -> Nat]
          BY <3>1, <4>1, Assign DEF BackupTypes
        <4>3. bpc' \in [Backups -> BackupPC] /\ bpc'[b] \in Scanning
              /\ \A c \in Backups \ {b} : bpc'[c] = bpc[c]
          BY <4>1, Assign DEF BackupTypes, Scanning
        <4> QED BY <2>13, <4>2, <4>3 DEF BackupSaveCursor, BackupTypes
      <3> QED BY <2>13, <3>2, <3>3 DEF BackupSaveCursor, BackupHasRow, Scanning
    <2>14. CASE BackupRecheckMain(b)
      <3>1. CASE MainAlive
        <4>1. BackupTypes' /\ Contained(b) /\ bpc'[b] = "idle"
          BY <2>14, <3>1, LeaveTypes DEF BackupRecheckMain
        <4> QED BY <2>14, <4>1 DEF BackupRecheckMain, RowsKept, tableVars, BackupHasRow, Scanning
      <3>2. CASE ~MainAlive
        <4>1. BackupTypes' /\ bpc'[b] = "preempt" /\ Contained(b)
          BY <2>14, <3>2, Assign DEF BackupRecheckMain, BackupGoto, BackupTypes
        <4>2. row[b] # NoRow
          BY <2>14 DEF BackupRecheckMain, BackupHasRow, Scanning
        <4> QED BY <2>14, <4>1, <4>2 DEF BackupRecheckMain, RowsKept, tableVars, BackupHasRow
      <3> QED BY <3>1, <3>2
    <2>15. CASE BackupPreempt(b)
      <3> DEFINE found == \E i \in DOMAIN gaps : NextOpenGap(i) /\ bCur[b] < gaps[i].to
      <3>1. CASE found
        <4>1. BackupTypes' /\ Contained(b) /\ bpc'[b] = "idle"
          BY <2>15, <3>1, LeaveTypes DEF BackupPreempt
        <4> QED BY <2>15, <4>1 DEF BackupPreempt, RowsKept, tableVars, BackupHasRow, Scanning
      <3>2. CASE ~found
        <4>1. BackupTypes' /\ bpc'[b] = "loop" /\ Contained(b)
          BY <2>15, <3>2, Assign DEF BackupPreempt, BackupGoto, BackupTypes
        <4>2. row[b] # NoRow
          BY <2>15 DEF BackupPreempt, BackupHasRow, Scanning
        <4> QED BY <2>15, <4>1, <4>2 DEF BackupPreempt, RowsKept, tableVars, BackupHasRow
      <3> QED BY <3>1, <3>2
    <2>16. CASE BackupFail(b)
      <3>1. PICK pc \in {"idle", "down"} : BackupLeave(b, pc)
        BY <2>16 DEF BackupFail
      <3>2. BackupTypes' /\ Contained(b) /\ bpc'[b] = pc
        BY <3>1, LeaveTypes
      <3> QED BY <2>16, <3>2 DEF BackupFail, BudgetTypes, RowsKept, tableVars, BackupHasRow, Scanning
    <2> QED BY <2>1, <2>2, <2>3, <2>4, <2>5, <2>6, <2>7, <2>8, <2>9, <2>10, <2>11,
               <2>12, <2>13, <2>14, <2>15, <2>16, <2>17, <2>18, <2>19 DEF BackupStep
  <1>2. UNCHANGED mainVars
    BY DEF BackupStep, BackupStart, BackupAlign, BackupBeginScan, BackupReadGap,
           BackupFinishGap, BackupTakeGap, BackupResetCursor, BackupEnterGap,
           BackupSeeNoGap, BackupCheckMain, BackupTakeOver, BackupInitCursor, BackupStayIdle, BackupLoop, BackupScanBlock,
           BackupSaveCursor, BackupRecheckMain, BackupPreempt, BackupFail
  <1>3. MainHasRow'
    BY <1>1, <1>2, KeyFacts DEF MainHasRow, RowsKept, mainVars
  <1>4. \A c \in Backups : BackupHasRow(c)'
    BY <1>1, KeepsRow DEF Contained
  <1> QED BY <1>1, <1>2, <1>3, <1>4

LEMMA TypeEnvironment ==
    ASSUME TypeInv,
           ChainGrows \/ MainGoesStale \/ (\E k \in Keys : OperatorRewinds(k))
    PROVE  TypeInv' /\ RowsKept
  <1>1. BackupTypes' /\ (\A c \in Backups : bpc'[c] = bpc[c] /\ bGap'[c] = bGap[c])
        /\ UNCHANGED mainVars /\ MainTypes'
    <2>1. UNCHANGED <<backupVars, mainVars>>
      BY DEF ChainGrows, MainGoesStale, OperatorRewinds
    <2> QED BY <2>1, Frames DEF TypeInv, backupVars
  <1>2. ChainTypes' /\ TableTypes' /\ BudgetTypes' /\ RowsKept
    <2> USE Frames DEF TypeInv
    <2>1. CASE ChainGrows
      BY <2>1 DEF ChainGrows, ChainTypes, tableVars, RowsKept
    <2>2. CASE MainGoesStale
      BY <2>2 DEF MainGoesStale, TableTypes, RowsKept
    <2>3. ASSUME NEW k \in Keys, OperatorRewinds(k)
          PROVE  ChainTypes' /\ TableTypes' /\ BudgetTypes' /\ RowsKept
      <3>1. PICK v \in base .. (row[k] - 1) : row' = [row EXCEPT ![k] = v]
        BY <2>3 DEF OperatorRewinds
      <3>2. base \in Nat /\ v \in Nat
        <4>1. base \in Nat
          BY <2>3, RowFacts DEF OperatorRewinds, TableTypes
        <4>2. row[k] \in Int
          BY DEF TableTypes, RowValue, NoRow
        <4> QED BY <4>1, <4>2
      <3>3. v \in RowValue /\ v # NoRow
        BY <3>2, RowFacts
      <3>4. row' \in [Keys -> RowValue] /\ \A c \in Keys : row[c] # NoRow => row'[c] # NoRow
        BY <3>1, <3>3 DEF TableTypes
      <3> QED BY <2>3, <3>4 DEF OperatorRewinds, TableTypes, BudgetTypes, RowsKept
    <2> QED BY <2>1, <2>2, <2>3
  <1>3. MainHasRow'
    BY <1>1, <1>2, KeyFacts DEF MainHasRow, RowsKept, mainVars, TypeInv
  <1>4. \A c \in Backups : BackupHasRow(c)'
    BY <1>1, <1>2, KeepsRow DEF TypeInv
  <1> QED BY <1>1, <1>2, <1>3, <1>4 DEF TypeInv

LEMMA TypeStep ==
    ASSUME TypeInv, [Next]_vars
    PROVE  TypeInv' /\ RowsKept
  <1>1. CASE MainStep \/ MainFail
    BY <1>1, TypeMain
  <1>2. ASSUME NEW b \in Backups, BackupStep(b) \/ BackupFail(b)
        PROVE  TypeInv' /\ RowsKept
    BY <1>2, TypeBackup
  <1>3. CASE ChainGrows \/ MainGoesStale \/ (\E k \in Keys : OperatorRewinds(k))
    BY <1>3, TypeEnvironment
  <1>4. CASE UNCHANGED vars
    <2>1. UNCHANGED <<chainVars, mainVars, backupVars, tableVars, budgetVars>>
      BY <1>4 DEF vars
    <2>2. MainHasRow' /\ \A b \in Backups : BackupHasRow(b)'
      BY <2>1 DEF TypeInv, MainHasRow, BackupHasRow, mainVars, tableVars, backupVars
    <2> QED BY <2>1, <2>2, Frames DEF TypeInv, RowsKept, tableVars
  <1> QED BY <1>1, <1>2, <1>3, <1>4 DEF Next

LEMMA TypeInvariant == Spec => []TypeInv
  <1>1. TypeInv /\ [Next]_vars => TypeInv'
    BY TypeStep
  <1> QED BY TypeInit, <1>1, PTL DEF Spec

\* Every variable keeps its type, whatever the deployment, the faults and the
\* rewinds: cursors are block numbers, the rows of tron_sync_gaps well formed.
THEOREM TypeCorrect == Spec => []TypeOK
  BY TypeInvariant, TypeParts, PTL

-----------------------------------------------------------------------------
(* The inductive invariant.                                                *)

\* The main cursor runs between its start and the watermark; a gap about to be
\* skipped is on the books, a block about to be passed is scanned.
MainInv ==
    /\ base = NoRow <=> row[Main] = NoRow
    /\ base = NoRow => high = NoRow /\ gaps = <<>>
    /\ base # NoRow => base <= row[Main] /\ row[Main] <= high
    /\ mpc \in Working => base # NoRow /\ base <= mCur /\ mCur <= high
    /\ mpc \in {"gap", "skip"} => mCur < mLatest
    /\ mpc = "skip" => \A x \in Between(mCur, mLatest) : Accounted(x)
    /\ mpc = "save" => mCur + 1 \in scanned

\* A gap row begins above the start and below the watermark.  Gaps are repaired
\* bottom up, so below one that is being repaired nothing is missing.
GapInv(i) ==
    /\ base # NoRow
    /\ base < gaps[i].from /\ gaps[i].from <= gaps[i].to /\ gaps[i].from <= high + 1
    /\ gaps[i].status = "repairing" => Between(base, gaps[i].from - 1) \subseteq scanned
    /\ gaps[i].status = "done" => gaps[i].from .. gaps[i].to \subseteq scanned

\* Everything below a backup's cursor is scanned: the saved one, the one it is
\* about to save, and the one it is about to move in front of a gap.
BackupInv(b) ==
    /\ row[b] # NoRow => base # NoRow /\ Between(base, row[b]) \subseteq scanned
    /\ bpc[b] \notin {"down", "align"} => row[b] # NoRow
    /\ bpc[b] \in {"align", "scan", "save"} =>
           base # NoRow /\ Between(base, bCur[b]) \subseteq scanned
    /\ bpc[b] = "save" => bCur[b] + 1 \in scanned
    /\ bpc[b] \in {"gap", "reset", "enter"} =>
           /\ bGap[b] \in DOMAIN gaps
           /\ Between(base, gaps[bGap[b]].from - 1) \subseteq scanned
    /\ bpc[b] \notin Scanning => bMode[b] = "none"
    /\ bMode[b] = "gap-repair" => bGap[b] \in DOMAIN gaps /\ bTarget[b] = gaps[bGap[b]].to
    /\ bpc[b] = "scan" => bCur[b] < bTarget[b]

IInv ==
    /\ TypeInv
    /\ MainInv
    /\ \A i \in DOMAIN gaps : GapInv(i)
    /\ \A b \in Backups : BackupInv(b)
    /\ NoBlockLost

-----------------------------------------------------------------------------
(* What every step preserves.                                              *)

\* The numbers the arguments below compute with.
LEMMA Numbers ==
    ASSUME TypeInv
    PROVE  /\ base \in Int /\ high \in Int /\ (base # NoRow => base \in Nat)
           /\ (high # NoRow => high \in Nat)
           /\ mCur \in Nat /\ mLatest \in Nat
           /\ \A k \in Keys : row[k] \in Int /\ (row[k] # NoRow => row[k] \in Nat)
           /\ \A b \in Backups : bCur[b] \in Nat /\ bTarget[b] \in Nat /\ bGap[b] \in Nat
           /\ \A i \in DOMAIN gaps : /\ i \in Nat
                                     /\ gaps[i].from \in Nat
                                     /\ gaps[i].to \in Nat
                                     /\ gaps[i].status \in GapStatus
  <1>1. \A r \in RowValue : r \in Int /\ (r # NoRow => r \in Nat)
    BY DEF RowValue, NoRow
  <1>2. TableTypes /\ MainTypes /\ BackupTypes
    BY DEF TypeInv
  <1>3. \A i \in DOMAIN gaps : /\ i \in Nat
                               /\ gaps[i].from \in Nat
                               /\ gaps[i].to \in Nat
                               /\ gaps[i].status \in GapStatus
    BY <1>2, RowFields DEF TableTypes
  <1>4. \A k \in Keys : row[k] \in RowValue
    BY <1>2 DEF TableTypes
  <1>5. \A b \in Backups : bCur[b] \in Nat /\ bTarget[b] \in Nat /\ bGap[b] \in Nat
    BY <1>2 DEF BackupTypes
  <1> QED BY <1>1, <1>2, <1>3, <1>4, <1>5 DEF TableTypes, MainTypes

\* Gap rows keep their ends, and an open one is closed only over scanned blocks.
GapsKept ==
    \A i \in DOMAIN gaps :
        /\ i \in DOMAIN gaps'
        /\ gaps'[i].from = gaps[i].from
        /\ gaps'[i].to = gaps[i].to
        /\ gaps[i].status # "done" =>
               \/ gaps'[i].status # "done"
               \/ gaps[i].from .. gaps[i].to \subseteq scanned'

\* Scanned blocks stay scanned, the start stays put, the watermark never falls.
Grown ==
    /\ scanned \subseteq scanned'
    /\ base # NoRow => base' = base
    /\ high <= high'
    /\ GapsKept

LEMMA OpenMeans ==
    ASSUME TypeInv, NEW i \in DOMAIN gaps
    PROVE  Open(i) <=> gaps[i].status # "done"
  <1>1. gaps[i].status \in GapStatus
    BY Numbers
  <1> QED BY <1>1 DEF Open, GapStatus

LEMMA AccountedStable ==
    ASSUME TypeInv, TypeInv', Grown, NEW x \in Int, Accounted(x)
    PROVE  Accounted(x)'
  <1>1. CASE x \in scanned
    BY <1>1 DEF Accounted, Grown
  <1>2. CASE x \notin scanned
    <2>1. PICK i \in DOMAIN gaps : Open(i) /\ InGap(x, i)
      BY <1>2 DEF Accounted
    <2>2. gaps[i].status # "done" /\ gaps[i].from <= x /\ x <= gaps[i].to
      BY <2>1, OpenMeans DEF InGap
    <2>3. CASE gaps[i].from .. gaps[i].to \subseteq scanned'
      <3>1. x \in gaps[i].from .. gaps[i].to
        BY <2>2, Numbers
      <3> QED BY <2>3, <3>1 DEF Accounted
    <2>4. CASE ~(gaps[i].from .. gaps[i].to \subseteq scanned')
      <3>1. /\ i \in DOMAIN gaps' /\ gaps'[i].status # "done"
            /\ gaps'[i].from <= x /\ x <= gaps'[i].to
        BY <2>2, <2>4 DEF Grown, GapsKept
      <3>2. gaps'[i].status \in GapStatus
        <4>1. gaps' \in Seq(GapRow)
          BY DEF TypeInv, TableTypes
        <4> QED BY <3>1, <4>1, RowFields
      <3>3. Open(i)' /\ InGap(x, i)'
        BY <3>1, <3>2 DEF Open, InGap, GapStatus
      <3> QED BY <3>1, <3>3 DEF Accounted
    <2> QED BY <2>3, <2>4
  <1> QED BY <1>1, <1>2

LEMMA GapStable ==
    ASSUME TypeInv, Grown, NEW i \in DOMAIN gaps, GapInv(i), gaps'[i] = gaps[i],
           high' \in Int
    PROVE  GapInv(i)'
  <1>1. gaps[i].from \in Nat /\ base \in Int /\ high \in Int
    BY Numbers
  <1> QED BY <1>1 DEF GapInv, Grown, Between

\* A backup that takes no step, while the others scan and record gaps.
LEMMA BackupStable ==
    ASSUME TypeInv, Grown, NEW c \in Backups, BackupInv(c), row'[c] = row[c],
           UNCHANGED <<bpc[c], bCur[c], bTarget[c], bMode[c], bGap[c]>>
    PROVE  BackupInv(c)'
  <1>1. CASE base = NoRow
    BY <1>1 DEF BackupInv, Scanning
  <1>2. CASE base # NoRow
    <2>1. base' = base /\ scanned \subseteq scanned'
      BY <1>2 DEF Grown
    <2>2. \A i \in DOMAIN gaps : /\ i \in DOMAIN gaps'
                                 /\ gaps'[i].from = gaps[i].from
                                 /\ gaps'[i].to = gaps[i].to
      BY DEF Grown, GapsKept
    <2> QED BY <2>1, <2>2 DEF BackupInv
  <1> QED BY <1>1, <1>2

\* The main scanner that takes no step.
LEMMA MainStable ==
    ASSUME TypeInv, TypeInv', Grown, MainInv, UNCHANGED mainVars, row'[Main] = row[Main],
           UNCHANGED <<base, high>>, base = NoRow => gaps' = <<>>
    PROVE  MainInv'
  <1>1. mpc = "skip" => \A x \in Between(mCur, mLatest) : Accounted(x)'
    BY AccountedStable, Numbers DEF MainInv, Between
  <1> QED BY <1>1 DEF MainInv, mainVars, Grown, Between

LEMMA LostStable ==
    ASSUME TypeInv, TypeInv', Grown, NoBlockLost, UNCHANGED <<base, high>>
    PROVE  NoBlockLost'
  BY AccountedStable, Numbers DEF NoBlockLost, Between

-----------------------------------------------------------------------------
(* The main scanner.                                                       *)

\* Its steps that write neither a table nor the transfers.
MainQuiet == MainBeginScan \/ MainLoadCursor \/ MainLoop \/ MainRefreshLatest \/ MainFail

LEMMA MainQuietStep ==
    ASSUME IInv, TypeInv', MainQuiet
    PROVE  Grown /\ MainInv' /\ NoBlockLost'
           /\ UNCHANGED tableVars /\ scanned' = scanned
  <1>0. TypeInv
    BY DEF IInv
  <1>1. UNCHANGED tableVars /\ scanned' = scanned
    BY DEF MainQuiet, MainBeginScan, MainLoadCursor, MainLoop, MainRefreshLatest,
           MainFail, chainVars
  <1>2. Grown
    <2>1. high \in Int
      BY <1>0, Numbers
    <2> QED BY <1>1, <2>1 DEF Grown, GapsKept, tableVars
  <1>3. NoBlockLost'
    BY <1>0, <1>1, <1>2, LostStable DEF IInv, tableVars
  <1>4. MainInv'
    <2>0. /\ base \in Int /\ high \in Int /\ row[Main] \in Int
          /\ mCur \in Nat /\ mLatest \in Nat
      BY <1>0, Numbers, KeyFacts
    <2> USE <1>0, <1>1, <2>0 DEF IInv, MainInv, Working, tableVars, MainGoto, MainReturn
    <2>1. CASE MainBeginScan
      BY <2>1 DEF MainBeginScan
    <2>2. CASE MainLoadCursor
      BY <2>2 DEF MainLoadCursor, ShouldSkip
    <2>3. CASE MainLoop
      BY <2>3 DEF MainLoop, ShouldSkip
    <2>4. CASE MainRefreshLatest
      BY <2>4 DEF MainRefreshLatest, ShouldSkip
    <2>5. CASE MainFail
      BY <2>5 DEF MainFail
    <2> QED BY <2>1, <2>2, <2>3, <2>4, <2>5 DEF MainQuiet
  <1> QED BY <1>1, <1>2, <1>3, <1>4

\* The first cursor: nothing is below it, no gap and no backup row exists.
LEMMA MainInitStep ==
    ASSUME IInv, TypeInv', MainInitCursor
    PROVE  Grown /\ MainInv' /\ NoBlockLost' /\ gaps = <<>> /\ gaps' = gaps
           /\ \A b \in Backups : row'[b] = row[b]
  <1> DEFINE n == InitialBlock(StartBlock, mLatest)
  <1>0. TypeInv
    BY DEF IInv
  <1>1. n \in Nat /\ n # NoRow
    BY <1>0, InitialBlockType, Numbers, RowFacts
  <1>2. base = NoRow /\ high = NoRow /\ gaps = <<>>
    BY DEF IInv, MainInv, MainInitCursor
  <1>3. /\ row' = [row EXCEPT ![Main] = n] /\ base' = n
        /\ high' = (IF n > high THEN n ELSE high)
        /\ gaps' = gaps /\ scanned' = scanned /\ mpc' = "idle"
    BY DEF MainInitCursor, SaveMain, MainReturn, chainVars
  <1> HIDE DEF n
  <1>4. high' = n
    BY <1>1, <1>2, <1>3 DEF NoRow
  <1>5. row'[Main] = n /\ \A b \in Backups : row'[b] = row[b]
    BY <1>0, <1>3, KeyFacts DEF TypeInv, TableTypes
  <1>6. Grown
    BY <1>1, <1>2, <1>3, <1>4 DEF Grown, GapsKept, NoRow
  <1>7. NoBlockLost' /\ MainInv'
    BY <1>1, <1>2, <1>3, <1>4, <1>5 DEF NoBlockLost, MainInv, Between, Working
  <1> QED BY <1>2, <1>3, <1>5, <1>6, <1>7

\* The gap row of a skip: every block up to the new watermark is now owed.
LEMMA MainRecordStep ==
    ASSUME IInv, TypeInv', MainRecordGap
    PROVE  /\ Grown /\ MainInv' /\ NoBlockLost'
           /\ UNCHANGED <<row, base, high, scanned>>
           /\ \A i \in DOMAIN gaps : gaps'[i] = gaps[i]
           /\ \A i \in DOMAIN gaps' \ DOMAIN gaps : GapInv(i)'
  <1> DEFINE g == [from |-> mCur + 1, to |-> mLatest, status |-> "pending"]
  <1>0. TypeInv
    BY DEF IInv
  <1>1. gaps \in Seq(GapRow) /\ mCur \in Nat /\ mLatest \in Nat /\ base \in Int /\ high \in Int
    BY <1>0, Numbers DEF TypeInv, TableTypes
  <1>. PICK n \in Nat : n = Len(gaps) + 1
    BY <1>1
  <1>2. g \in GapRow
    BY <1>1 DEF GapRow, GapStatus
  <1>3. UNCHANGED <<row, base, high, scanned, mCur, mLatest>> /\ gaps' = Append(gaps, g)
        /\ mpc' = "skip"
    BY DEF MainRecordGap, CreateTronSyncGap, MainGoto, chainVars
  <1>4. /\ DOMAIN gaps' = DOMAIN gaps \cup {n} /\ n \notin DOMAIN gaps
        /\ \A i \in DOMAIN gaps : gaps'[i] = gaps[i]
        /\ gaps'[n] = g
    <2> HIDE DEF g
    <2> QED BY <1>1, <1>2, <1>3, AppendGap
  <1>5. base # NoRow /\ base <= mCur /\ mCur <= high /\ mCur < mLatest
    BY DEF IInv, MainInv, MainRecordGap, Working
  <1>6. Grown
    <2> HIDE DEF g
    <2> QED BY <1>1, <1>3, <1>4 DEF Grown, GapsKept
  <1>7. GapInv(n)'
    BY <1>1, <1>3, <1>4, <1>5 DEF GapInv
  <1>8. \A x \in Between(mCur, mLatest) : Accounted(x)'
    <2>1. Open(n)' /\ \A x \in Between(mCur, mLatest) : InGap(x, n)'
      BY <1>1, <1>4 DEF Open, InGap, Between
    <2> QED BY <1>4, <2>1 DEF Accounted
  <1>9. MainInv'
    <2>1. row'[Main] = row[Main] /\ base' = base /\ high' = high /\ scanned' = scanned
      BY <1>3
    <2> QED BY <1>1, <1>3, <1>5, <1>8, <2>1 DEF MainInv, IInv, Working, Between
  <1>10. NoBlockLost'
    BY <1>0, <1>3, <1>6, LostStable DEF IInv
  <1> QED BY <1>3, <1>4, <1>6, <1>7, <1>9, <1>10

\* The watermark jumps over the gap that was recorded, or over the one block
\* that was scanned.
LEMMA MainMoveStep ==
    ASSUME IInv, TypeInv', MainSkipToLatest \/ MainSaveCursor
    PROVE  /\ Grown /\ MainInv' /\ NoBlockLost'
           /\ UNCHANGED <<gaps, base, scanned>>
           /\ \A b \in Backups : row'[b] = row[b]
  <1> DEFINE n == IF MainSkipToLatest THEN mLatest ELSE mCur + 1
  <1>0. TypeInv
    BY DEF IInv
  <1>1. /\ base \in Nat /\ high \in Int /\ mCur \in Nat /\ n \in Nat
        /\ base <= mCur /\ mCur <= high /\ mCur < n
    <2>1. mpc \in {"skip", "save"} /\ mCur < n
      BY <1>0, Numbers DEF IInv, MainInv, MainSkipToLatest, MainSaveCursor
    <2> QED BY <1>0, <2>1, Numbers DEF IInv, MainInv, Working
  <1>2. \A x \in Between(mCur, n) : Accounted(x)
    <2>1. CASE MainSkipToLatest
      BY <2>1 DEF MainSkipToLatest, IInv, MainInv
    <2>2. CASE ~MainSkipToLatest
      <3>1. mCur + 1 \in scanned
        BY <2>2 DEF MainSaveCursor, IInv, MainInv
      <3>2. \A x \in Between(mCur, n) : x = mCur + 1
        BY <1>1, <2>2 DEF Between
      <3> QED BY <3>1, <3>2 DEF Accounted
    <2> QED BY <2>1, <2>2
  <1>3. /\ row' = [row EXCEPT ![Main] = n]
        /\ high' = (IF n > high THEN n ELSE high)
        /\ UNCHANGED <<gaps, base, scanned>>
        /\ \/ mpc' = "idle"
           \/ mpc' \in {"refresh", "loop"} /\ mCur' = n
    BY DEF MainSkipToLatest, MainSaveCursor, SaveMain, MainReturn, MainGoto, chainVars
  <1> HIDE DEF n
  <1>4. row'[Main] = n /\ \A b \in Backups : row'[b] = row[b]
    BY <1>0, <1>3, KeyFacts DEF TypeInv, TableTypes
  <1>5. high' \in Int /\ high <= high' /\ n <= high'
    BY <1>1, <1>3
  <1>6. Grown
    BY <1>3, <1>5 DEF Grown, GapsKept
  <1>7. NoBlockLost'
    <2> SUFFICES ASSUME NEW x \in Between(base', high') PROVE Accounted(x)'
      BY DEF NoBlockLost
    <2>1. x \in Int /\ base < x /\ (x <= high \/ x \in Between(mCur, n))
      BY <1>1, <1>3 DEF Between
    <2>2. Accounted(x)
      <3>1. CASE x <= high
        <4>1. x \in Between(base, high)
          BY <1>1, <2>1, <3>1 DEF Between
        <4> QED BY <1>1, <4>1, RowFacts DEF IInv, NoBlockLost
      <3> QED BY <1>2, <2>1, <3>1
    <2> QED BY <1>0, <1>6, <2>1, <2>2, AccountedStable
  <1>8. MainInv'
    BY <1>1, <1>3, <1>4, <1>5, RowFacts DEF MainInv, Working
  <1> QED BY <1>3, <1>4, <1>6, <1>7, <1>8

LEMMA MainScanStep ==
    ASSUME IInv, TypeInv', MainScanBlock
    PROVE  Grown /\ MainInv' /\ NoBlockLost' /\ UNCHANGED tableVars
  <1>0. TypeInv
    BY DEF IInv
  <1>1. /\ UNCHANGED tableVars /\ UNCHANGED mCur /\ mpc = "scan" /\ mpc' = "save"
        /\ scanned' = scanned \cup {mCur + 1}
    BY DEF MainScanBlock, MainGoto
  <1>2. Grown
    <2>1. high \in Int
      BY <1>0, Numbers
    <2> QED BY <1>1, <2>1 DEF Grown, GapsKept, tableVars
  <1>3. NoBlockLost'
    BY <1>0, <1>1, <1>2, LostStable DEF IInv, tableVars
  <1>4. MainInv'
    BY <1>1 DEF IInv, MainInv, Working, tableVars
  <1> QED BY <1>1, <1>2, <1>3, <1>4

LEMMA MainSafe ==
    ASSUME IInv, TypeInv', MainStep \/ MainFail
    PROVE  IInv'
  <1>0. TypeInv
    BY DEF IInv
  <1>1. /\ Grown /\ MainInv' /\ NoBlockLost'
        /\ \A b \in Backups : row'[b] = row[b]
        /\ \A i \in DOMAIN gaps' \cap DOMAIN gaps : gaps'[i] = gaps[i]
        /\ \A i \in DOMAIN gaps' \ DOMAIN gaps : GapInv(i)'
    <2>1. CASE MainQuiet
      BY <2>1, MainQuietStep DEF tableVars
    <2>2. CASE MainInitCursor
      BY <2>2, MainInitStep
    <2>3. CASE MainRecordGap
      BY <2>3, MainRecordStep
    <2>4. CASE MainSkipToLatest \/ MainSaveCursor
      BY <2>4, MainMoveStep
    <2>5. CASE MainScanBlock
      BY <2>5, MainScanStep DEF tableVars
    <2> QED BY <2>1, <2>2, <2>3, <2>4, <2>5 DEF MainStep, MainQuiet
  <1>2. \A b \in Backups : BackupInv(b)'
    <2>1. UNCHANGED backupVars
      BY DEF MainStep, MainBeginScan, MainInitCursor, MainLoadCursor, MainRecordGap,
             MainSkipToLatest, MainLoop, MainScanBlock, MainSaveCursor,
             MainRefreshLatest, MainFail
    <2> QED BY <1>0, <1>1, <2>1, BackupStable DEF IInv, backupVars
  <1>3. \A i \in DOMAIN gaps' : GapInv(i)'
    <2>1. high' \in Int
      BY DEF TypeInv, TableTypes, RowValue, NoRow
    <2> QED BY <1>0, <1>1, <2>1, GapStable DEF IInv
  <1> QED BY <1>1, <1>2, <1>3 DEF IInv

-----------------------------------------------------------------------------
(* The backups.                                                            *)

\* The block below which the lowest open gap begins is the first one missing.
LEMMA LowestGap ==
    ASSUME IInv, NEW i \in DOMAIN gaps, NextOpenGap(i)
    PROVE  Between(base, gaps[i].from - 1) \subseteq scanned
  <1>0. TypeInv
    BY DEF IInv
  <1>1. GapInv(i)
    BY DEF IInv
  <1>2. CASE gaps[i].status = "repairing"
    BY <1>1, <1>2 DEF GapInv
  <1>3. CASE gaps[i].status # "repairing"
    <2> SUFFICES ASSUME NEW x \in Between(base, gaps[i].from - 1), x \notin scanned
                 PROVE  FALSE
      OBVIOUS
    <2>1. /\ gaps[i].from \in Nat /\ base \in Int /\ high \in Int
          /\ base # NoRow /\ gaps[i].from <= high + 1
      BY <1>0, <1>1, Numbers DEF GapInv
    <2>2. x \in Int /\ x < gaps[i].from /\ x \in Between(base, high)
      BY <2>1 DEF Between
    <2>3. PICK j \in DOMAIN gaps : Open(j) /\ InGap(x, j)
      BY <2>1, <2>2 DEF IInv, NoBlockLost, Accounted
    <2>4. Precedes(i, j)
      BY <2>3 DEF NextOpenGap
    <2>5. gaps[i].from <= gaps[j].from
      <3>1. gaps[i].from \in Nat /\ gaps[j].from \in Nat
        BY <1>0, Numbers
      <3> QED BY <1>3, <2>4, <3>1 DEF Precedes
    <2>6. gaps[j].from <= x /\ gaps[j].from \in Nat
      BY <1>0, <2>3, Numbers DEF InGap
    <2> QED BY <2>1, <2>2, <2>5, <2>6
  <1> QED BY <1>2, <1>3

\* A backup that has left scan(), with its row where it was.
LEMMA LeaveInv ==
    ASSUME TypeInv, NEW b \in Backups, NEW pc \in {"idle", "down"}, BackupLeave(b, pc),
           BackupInv(b), UNCHANGED <<row, base, scanned>>, pc = "idle" => row[b] # NoRow
    PROVE  BackupInv(b)'
  <1>1. bpc'[b] = pc /\ bMode'[b] = "none"
    BY DEF BackupLeave, BackupGoto, TypeInv, BackupTypes
  <1> QED BY <1>1 DEF BackupInv, Scanning

\* Steps of a backup that write nothing the others read.
BackupQuiet(b) ==
    \/ BackupStart(b) \/ BackupBeginScan(b) \/ BackupReadGap(b) \/ BackupEnterGap(b)
    \/ BackupSeeNoGap(b) \/ BackupCheckMain(b) \/ BackupTakeOver(b)
    \/ BackupStayIdle(b) \/ BackupLoop(b) \/ BackupRecheckMain(b) \/ BackupPreempt(b)
    \/ BackupFail(b)

LEMMA BackupQuietStep ==
    ASSUME LateDeploy = FALSE, IInv, TypeInv', NEW b \in Backups, BackupQuiet(b)
    PROVE  UNCHANGED tableVars /\ scanned' = scanned /\ BackupInv(b)'
  <1>0. TypeInv /\ BackupTypes /\ BackupInv(b)
    BY DEF IInv, TypeInv
  <1>1. UNCHANGED tableVars /\ scanned' = scanned
    BY DEF BackupQuiet, BackupStart, BackupBeginScan, BackupReadGap, BackupEnterGap,
           BackupSeeNoGap, BackupCheckMain, BackupTakeOver,
           BackupStayIdle, BackupLoop, BackupRecheckMain, BackupPreempt, BackupFail,
           chainVars
  <1>2. UNCHANGED <<row, base, gaps>>
    BY <1>1 DEF tableVars
  <1>3. ASSUME NEW pc \in {"idle", "down"}, BackupLeave(b, pc), bpc[b] \notin {"down", "align"}
        PROVE  BackupInv(b)'
    <2>1. row[b] # NoRow
      BY <1>0, <1>3 DEF BackupInv
    <2> QED BY <1>0, <1>1, <1>2, <1>3, <2>1, LeaveInv
  <1>4. CASE BackupStart(b)
    <2>1. CASE row[b] = NoRow /\ row[Main] # NoRow
      <3>1. base # NoRow /\ gaps = <<>>
        BY <1>4, <2>1 DEF BackupStart, MayDeploy, IInv, MainInv
      <3>2. bCur'[b] = row[Main] /\ bpc'[b] = "align" /\ bMode'[b] = bMode[b]
        BY <1>0, <1>4, <2>1 DEF BackupStart, BackupGoto, BackupTypes
      <3>3. Between(base, row[Main]) \subseteq scanned
        <4>1. \A x \in Between(base, high) : x \in scanned
          BY <3>1 DEF IInv, NoBlockLost, Accounted
        <4>2. row[Main] \in Int /\ high \in Int /\ base \in Int /\ row[Main] <= high
          BY <1>0, <3>1, Numbers, KeyFacts DEF IInv, MainInv
        <4> QED BY <4>1, <4>2 DEF Between
      <3>4. bMode[b] = "none"
        BY <1>0, <1>4 DEF BackupStart, BackupInv, Scanning
      <3> QED BY <1>1, <1>2, <2>1, <3>1, <3>2, <3>3, <3>4 DEF BackupInv, Scanning
    <2>2. CASE ~(row[b] = NoRow /\ row[Main] # NoRow)
      <3>1. row[b] # NoRow
        BY <1>4, <2>2 DEF BackupStart, MayDeploy
      <3>2. bpc'[b] = "idle" /\ bMode'[b] = bMode[b] /\ bMode[b] = "none"
        BY <1>0, <1>4, <2>2 DEF BackupStart, BackupGoto, BackupTypes, BackupInv, Scanning
      <3> QED BY <1>0, <1>1, <1>2, <3>1, <3>2 DEF BackupInv, Scanning
    <2> QED BY <2>1, <2>2
  <1>5. CASE BackupBeginScan(b)
    <2>1. bpc[b] = "idle" /\ bpc'[b] = "resolve" /\ bMode'[b] = bMode[b]
      BY <1>0, <1>5 DEF BackupBeginScan, BackupGoto, BackupTypes
    <2> QED BY <1>0, <1>1, <1>2, <2>1 DEF BackupInv, Scanning
  <1>6. CASE BackupReadGap(b)
    <2>1. PICK i \in DOMAIN gaps : NextOpenGap(i) /\ bGap' = [bGap EXCEPT ![b] = i]
      BY <1>6 DEF BackupReadGap
    <2>2. bpc[b] = "resolve" /\ bpc'[b] = "gap" /\ bMode'[b] = bMode[b] /\ bGap'[b] = i
      BY <1>0, <1>6, <2>1 DEF BackupReadGap, BackupGoto, BackupTypes
    <2>3. Between(base, gaps[i].from - 1) \subseteq scanned
      BY <2>1, LowestGap
    <2> QED BY <1>0, <1>1, <1>2, <2>2, <2>3 DEF BackupInv, Scanning
  <1>7. CASE BackupTakeOver(b)
    <2>1. bpc'[b] = "loop" /\ bMode'[b] = "takeover"
      BY <1>0, <1>7 DEF BackupTakeOver, BackupGoto, BackupTypes
    <2> QED BY <1>0, <1>1, <1>2, <1>7, <2>1 DEF BackupInv, Scanning, BackupTakeOver
  <1>8. CASE BackupStayIdle(b)
    BY <1>1, <1>3, <1>8 DEF BackupStayIdle
  <1>9. CASE BackupLoop(b)
    <2>1. CASE Reached(bCur[b], bTarget[b]) \/ Reached(row[b], bTarget[b])
      BY <1>1, <1>3, <1>9, <2>1 DEF BackupLoop
    <2>2. CASE ~(Reached(bCur[b], bTarget[b]) \/ Reached(row[b], bTarget[b]))
      <3>1. /\ bpc[b] = "loop" /\ bpc'[b] = "scan" /\ bCur'[b] = row[b]
            /\ UNCHANGED <<bMode, bGap, bTarget>>
        BY <1>0, <1>9, <2>2 DEF BackupLoop, BackupGoto, BackupTypes
      <3>2. row[b] \in Int /\ bTarget[b] \in Nat /\ row[b] < bTarget[b]
        BY <1>0, <2>2, Numbers, KeyFacts DEF Reached
      <3> QED BY <1>0, <1>1, <1>2, <3>1, <3>2 DEF BackupInv, Scanning
    <2> QED BY <2>1, <2>2
  <1>10. CASE BackupRecheckMain(b)
    <2>1. CASE MainAlive
      BY <1>1, <1>3, <1>10, <2>1 DEF BackupRecheckMain
    <2>2. CASE ~MainAlive
      <3>1. bpc[b] = "recheck" /\ bpc'[b] = "preempt" /\ UNCHANGED <<bMode, bGap, bTarget>>
        BY <1>0, <1>10, <2>2 DEF BackupRecheckMain, BackupGoto, BackupTypes
      <3> QED BY <1>0, <1>1, <1>2, <3>1 DEF BackupInv, Scanning
    <2> QED BY <2>1, <2>2
  <1>11. CASE BackupPreempt(b)
    <2> DEFINE found == \E i \in DOMAIN gaps : NextOpenGap(i) /\ bCur[b] < gaps[i].to
    <2>1. CASE found
      BY <1>1, <1>3, <1>11, <2>1 DEF BackupPreempt
    <2>2. CASE ~found
      <3>1. bpc[b] = "preempt" /\ bpc'[b] = "loop" /\ UNCHANGED <<bMode, bGap, bTarget>>
        BY <1>0, <1>11, <2>2 DEF BackupPreempt, BackupGoto, BackupTypes
      <3> QED BY <1>0, <1>1, <1>2, <3>1 DEF BackupInv, Scanning
    <2> QED BY <2>1, <2>2
  <1>12. CASE BackupFail(b)
    <2>1. \/ bpc[b] \notin {"down", "idle", "align"} /\ BackupLeave(b, "idle")
          \/ BackupLeave(b, "down")
      BY <1>12 DEF BackupFail
    <2> QED BY <1>0, <1>1, <1>2, <1>3, <2>1, LeaveInv
  <1>13. CASE BackupEnterGap(b)
    <2>1. /\ bpc[b] = "enter" /\ bpc'[b] = "loop" /\ bMode'[b] = "gap-repair"
          /\ bTarget'[b] = gaps[bGap[b]].to /\ bGap' = bGap
      BY <1>0, <1>13 DEF BackupEnterGap, BackupGoto, BackupTypes
    <2> QED BY <1>0, <1>1, <1>2, <2>1 DEF BackupInv, Scanning
  <1>14. CASE BackupSeeNoGap(b)
    <2>1. bpc[b] = "resolve" /\ bpc'[b] = "main" /\ bMode' = bMode
      BY <1>0, <1>14 DEF BackupSeeNoGap, BackupGoto, BackupTypes
    <2> QED BY <1>0, <1>1, <1>2, <2>1 DEF BackupInv, Scanning
  <1>15. CASE BackupCheckMain(b)
    <2>1. CASE MainAlive
      BY <1>1, <1>3, <1>15, <2>1 DEF BackupCheckMain
    <2>2. CASE ~MainAlive
      <3>1. bpc[b] = "main" /\ bpc'[b] = "own" /\ bMode' = bMode
        BY <1>0, <1>15, <2>2 DEF BackupCheckMain, BackupGoto, BackupTypes
      <3> QED BY <1>0, <1>1, <1>2, <3>1 DEF BackupInv, Scanning
    <2> QED BY <2>1, <2>2
  <1> QED BY <1>1, <1>4, <1>5, <1>6, <1>7, <1>8, <1>9, <1>10, <1>11, <1>12, <1>13,
             <1>14, <1>15 DEF BackupQuiet

\* Steps of a backup that save its cursor.
BackupSaves(b) ==
    BackupAlign(b) \/ BackupResetCursor(b) \/ BackupInitCursor(b) \/ BackupSaveCursor(b)

LEMMA BackupSaveStep ==
    ASSUME LateDeploy = FALSE, IInv, TypeInv', NEW b \in Backups, BackupSaves(b)
    PROVE  /\ UNCHANGED <<gaps, base, high, scanned>>
           /\ \A k \in Keys \ {b} : row'[k] = row[k]
           /\ BackupInv(b)'
  <1>0. TypeInv /\ BackupTypes /\ TableTypes /\ BackupInv(b)
    BY DEF IInv, TypeInv
  <1>1. UNCHANGED <<fresh, gaps, base, high, scanned>>
    BY DEF BackupSaves, BackupAlign, BackupResetCursor, BackupInitCursor, BackupSaveCursor,
           chainVars
  <1>2. ASSUME NEW n \in Nat, SaveBackup(b, n)
        PROVE  row'[b] = n /\ row'[b] # NoRow /\ \A k \in Keys \ {b} : row'[k] = row[k]
    BY <1>0, <1>1, <1>2, SaveTypes, RowFacts
  <1>3. bCur[b] \in Nat /\ bCur[b] + 1 \in Nat /\ bGap[b] \in Nat /\ base \in Int
    BY <1>0, Numbers
  <1>4. CASE BackupAlign(b)
    <2>1. bpc[b] = "align" /\ SaveBackup(b, bCur[b]) /\ bpc'[b] = "idle" /\ bMode'[b] = "none"
      BY <1>0, <1>4 DEF BackupAlign, BackupLeave, BackupGoto, BackupTypes
    <2>2. row'[b] = bCur[b] /\ row'[b] # NoRow /\ \A k \in Keys \ {b} : row'[k] = row[k]
      BY <1>2, <1>3, <2>1
    <2> QED BY <1>0, <1>1, <2>1, <2>2 DEF BackupInv, Scanning
  <1>5. CASE BackupResetCursor(b)
    <2> DEFINE from == gaps[bGap[b]].from
    <2>1. /\ bpc[b] = "reset" /\ SaveBackup(b, BeforeGap(from))
          /\ bpc'[b] = "enter" /\ UNCHANGED <<bMode, bGap, bTarget>>
      BY <1>0, <1>5 DEF BackupResetCursor, BackupGoto, BackupTypes
    <2>2. bGap[b] \in DOMAIN gaps /\ Between(base, from - 1) \subseteq scanned
      BY <1>0, <2>1 DEF BackupInv
    <2>3. from \in Nat /\ base # NoRow /\ base \in Nat /\ base < from
      BY <1>0, <2>2, Numbers DEF IInv, GapInv
    <2>4. BeforeGap(from) = from - 1 /\ from - 1 \in Nat
      BY <2>3 DEF BeforeGap
    <2>5. row'[b] = from - 1 /\ row'[b] # NoRow /\ \A k \in Keys \ {b} : row'[k] = row[k]
      BY <1>2, <2>1, <2>4
    <2> QED BY <1>0, <1>1, <2>1, <2>2, <2>3, <2>5 DEF BackupInv, Scanning
  <1>6. CASE BackupInitCursor(b)
    BY <1>0, <1>6 DEF BackupInitCursor, BackupInv
  <1>7. CASE BackupSaveCursor(b)
    <2>1. /\ bpc[b] = "save" /\ SaveBackup(b, bCur[b] + 1)
          /\ bpc'[b] \in {"loop", "recheck", "preempt"}
          /\ UNCHANGED <<bMode, bGap, bTarget>>
      BY <1>0, <1>7 DEF BackupSaveCursor, BackupGoto, BackupTypes
    <2>2. row'[b] = bCur[b] + 1 /\ row'[b] # NoRow /\ \A k \in Keys \ {b} : row'[k] = row[k]
      BY <1>2, <1>3, <2>1
    <2>3. /\ base # NoRow /\ Between(base, bCur[b]) \subseteq scanned
          /\ bCur[b] + 1 \in scanned
      BY <1>0, <2>1 DEF BackupInv
    <2>4. Between(base, bCur[b] + 1) \subseteq scanned
      BY <1>3, <2>3 DEF Between
    <2> QED BY <1>0, <1>1, <2>1, <2>2, <2>3, <2>4 DEF BackupInv, Scanning
  <1> QED BY <1>1, <1>4, <1>5, <1>6, <1>7 DEF BackupSaves

\* Steps of a backup that mark the gap it read.
BackupMarks(b) == BackupFinishGap(b) \/ BackupTakeGap(b)

LEMMA BackupMarkStep ==
    ASSUME IInv, TypeInv', NEW b \in Backups, BackupMarks(b)
    PROVE  /\ UNCHANGED <<row, base, high, scanned>>
           /\ GapsKept
           /\ DOMAIN gaps' = DOMAIN gaps
           /\ \A i \in DOMAIN gaps : GapInv(i)'
           /\ BackupInv(b)'
  <1>0. TypeInv /\ BackupTypes /\ BackupInv(b) /\ gaps \in Seq(GapRow)
    BY DEF IInv, TypeInv, TableTypes
  <1>1. UNCHANGED <<row, base, high, scanned>> /\ bpc[b] = "gap"
    BY DEF BackupMarks, BackupFinishGap, BackupTakeGap, chainVars
  <1>2. /\ bGap[b] \in DOMAIN gaps
        /\ Between(base, gaps[bGap[b]].from - 1) \subseteq scanned
        /\ row[b] # NoRow
        /\ bMode[b] = "none"
    BY <1>0, <1>1 DEF BackupInv, Scanning
  <1>3. PICK k \in DOMAIN gaps : k = bGap[b]
    BY <1>2
  <1>4. GapInv(k) /\ gaps[k].from \in Nat /\ gaps[k].to \in Nat /\ base \in Int /\ row[b] \in Int
    BY <1>0, <1>3, Numbers, KeyFacts DEF IInv
  <1>5. \/ gaps' = gaps
        \/ MarkTronSyncGap(k, "repairing")
        \/ MarkTronSyncGap(k, "done") /\ gaps[k].from .. gaps[k].to \subseteq scanned
    <2>1. CASE BackupFinishGap(b)
      <3>1. row[b] >= gaps[k].to /\ MarkTronSyncGap(k, "done")
        BY <1>3, <2>1 DEF BackupFinishGap
      <3>2. Between(base, row[b]) \subseteq scanned
        BY <1>0, <1>2 DEF BackupInv
      <3>3. gaps[k].from .. gaps[k].to \subseteq Between(base, row[b])
        BY <1>4, <3>1 DEF GapInv, Between
      <3> QED BY <3>1, <3>2, <3>3
    <2>2. CASE BackupTakeGap(b)
      BY <1>3, <2>2 DEF BackupTakeGap
    <2> QED BY <2>1, <2>2 DEF BackupMarks
  <1>6. /\ DOMAIN gaps' = DOMAIN gaps
        /\ \A i \in DOMAIN gaps :
               /\ gaps'[i].from = gaps[i].from
               /\ gaps'[i].to = gaps[i].to
               /\ \/ gaps'[i].status = gaps[i].status
                  \/ i = k /\ gaps'[i].status = "repairing"
                  \/ /\ i = k /\ gaps'[i].status = "done"
                     /\ gaps[k].from .. gaps[k].to \subseteq scanned
    <2>1. CASE gaps' = gaps
      BY <2>1
    <2>2. CASE MarkTronSyncGap(k, "repairing")
      <3>1. "repairing" \in GapStatus /\ gaps' = [gaps EXCEPT ![k].status = "repairing"]
        BY <2>2 DEF GapStatus, MarkTronSyncGap
      <3> QED BY <1>0, <3>1, MarkGap
    <2>3. CASE MarkTronSyncGap(k, "done") /\ gaps[k].from .. gaps[k].to \subseteq scanned
      <3>1. "done" \in GapStatus /\ gaps' = [gaps EXCEPT ![k].status = "done"]
        BY <2>3 DEF GapStatus, MarkTronSyncGap
      <3> QED BY <1>0, <2>3, <3>1, MarkGap
    <2> QED BY <1>5, <2>1, <2>2, <2>3
  <1>7. GapsKept
    BY <1>1, <1>6 DEF GapsKept
  <1>8. \A i \in DOMAIN gaps : GapInv(i)'
    <2> SUFFICES ASSUME NEW i \in DOMAIN gaps PROVE GapInv(i)'
      OBVIOUS
    <2>1. GapInv(i)
      BY DEF IInv
    <2> QED BY <1>1, <1>2, <1>3, <1>6, <2>1 DEF GapInv
  <1>9. BackupInv(b)'
    <2>1. CASE BackupFinishGap(b)
      <3>1. bpc'[b] = "resolve" /\ bMode' = bMode
        BY <1>0, <2>1 DEF BackupFinishGap, BackupGoto, BackupTypes
      <3> QED BY <1>0, <1>1, <1>2, <3>1 DEF BackupInv, Scanning
    <2>2. CASE BackupTakeGap(b)
      <3>1. bpc'[b] \in {"reset", "enter"} /\ UNCHANGED <<bMode, bGap>>
        BY <1>0, <2>2 DEF BackupTakeGap, BackupGoto, BackupTypes
      <3> QED BY <1>0, <1>1, <1>2, <1>6, <3>1 DEF BackupInv, Scanning
    <2> QED BY <2>1, <2>2 DEF BackupMarks
  <1> QED BY <1>1, <1>6, <1>7, <1>8, <1>9

LEMMA BackupSafe ==
    ASSUME LateDeploy = FALSE, IInv, TypeInv', NEW b \in Backups,
           BackupStep(b) \/ BackupFail(b)
    PROVE  IInv'
  <1>0. TypeInv /\ BackupTypes
    BY DEF IInv, TypeInv
  <1>1. /\ UNCHANGED <<base, high>> /\ scanned \subseteq scanned'
        /\ \A k \in Keys \ {b} : row'[k] = row[k]
        /\ GapsKept
        /\ DOMAIN gaps' = DOMAIN gaps
        /\ \A i \in DOMAIN gaps : gaps'[i] = gaps[i] \/ GapInv(i)'
        /\ BackupInv(b)'
    <2>1. CASE BackupQuiet(b)
      BY <2>1, BackupQuietStep DEF tableVars, GapsKept
    <2>2. CASE BackupSaves(b)
      BY <2>2, BackupSaveStep DEF GapsKept
    <2>3. CASE BackupMarks(b)
      BY <2>3, BackupMarkStep
    <2>4. CASE BackupScanBlock(b)
      <3>1. /\ UNCHANGED tableVars /\ scanned' = scanned \cup {bCur[b] + 1}
            /\ bpc[b] = "scan" /\ bpc'[b] = "save" /\ UNCHANGED <<bCur, bMode, bGap, bTarget>>
        BY <1>0, <2>4 DEF BackupScanBlock, BackupGoto, BackupTypes
      <3>2. BackupInv(b)'
        BY <3>1 DEF IInv, BackupInv, Scanning, tableVars
      <3> QED BY <3>1, <3>2 DEF tableVars, GapsKept
    <2> QED BY <2>1, <2>2, <2>3, <2>4
            DEF BackupStep, BackupQuiet, BackupSaves, BackupMarks
  <1>2. Grown
    <2>1. high \in Int
      BY <1>0, Numbers
    <2> QED BY <1>1, <2>1 DEF Grown
  <1>3. \A c \in Backups : BackupInv(c)'
    <2> SUFFICES ASSUME NEW c \in Backups \ {b} PROVE BackupInv(c)'
      BY <1>1
    <2>1. UNCHANGED <<bpc[c], bCur[c], bTarget[c], bMode[c], bGap[c]>>
      <3> USE <1>0 DEF BackupTypes, BackupGoto, BackupLeave
      <3>1. CASE \/ BackupStart(b) \/ BackupAlign(b) \/ BackupBeginScan(b)
                 \/ BackupReadGap(b) \/ BackupFinishGap(b) \/ BackupTakeGap(b)
        BY <3>1 DEF BackupStart, BackupAlign, BackupBeginScan, BackupReadGap,
                    BackupFinishGap, BackupTakeGap
      <3>2. CASE \/ BackupResetCursor(b) \/ BackupEnterGap(b) \/ BackupSeeNoGap(b)
                 \/ BackupCheckMain(b) \/ BackupTakeOver(b) \/ BackupInitCursor(b)
        BY <3>2 DEF BackupResetCursor, BackupEnterGap, BackupSeeNoGap, BackupCheckMain,
                    BackupTakeOver, BackupInitCursor
      <3>3. CASE \/ BackupStayIdle(b) \/ BackupLoop(b) \/ BackupScanBlock(b)
                 \/ BackupSaveCursor(b) \/ BackupRecheckMain(b) \/ BackupPreempt(b)
                 \/ BackupFail(b)
        BY <3>3 DEF BackupStayIdle, BackupLoop, BackupScanBlock, BackupSaveCursor,
                    BackupRecheckMain, BackupPreempt, BackupFail
      <3> QED BY <3>1, <3>2, <3>3 DEF BackupStep
    <2>2. row'[c] = row[c] /\ BackupInv(c)
      BY <1>1, KeyFacts DEF IInv
    <2> QED BY <1>0, <1>2, <2>1, <2>2, BackupStable
  <1>4. \A i \in DOMAIN gaps' : GapInv(i)'
    <2>1. high' \in Int
      BY <1>0, <1>1, Numbers
    <2> QED BY <1>0, <1>1, <1>2, <2>1, GapStable DEF IInv
  <1>5. MainInv'
    <2>1. UNCHANGED mainVars
      BY DEF BackupStep, BackupStart, BackupAlign, BackupBeginScan, BackupReadGap,
             BackupFinishGap, BackupTakeGap, BackupResetCursor, BackupEnterGap,
             BackupSeeNoGap, BackupCheckMain, BackupTakeOver, BackupInitCursor, BackupStayIdle, BackupLoop, BackupScanBlock,
             BackupSaveCursor, BackupRecheckMain, BackupPreempt, BackupFail
    <2>2. base = NoRow => gaps' = <<>>
      <3>1. base = NoRow => DOMAIN gaps' = {} /\ gaps' \in Seq(GapRow)
        BY <1>1 DEF IInv, MainInv, TypeInv, TableTypes
      <3> QED BY <3>1
    <2>3. row'[Main] = row[Main] /\ MainInv
      BY <1>1, KeyFacts DEF IInv
    <2> QED BY <1>0, <1>1, <1>2, <2>1, <2>2, <2>3, MainStable
  <1>6. NoBlockLost'
    BY <1>0, <1>1, <1>2, LostStable DEF IInv
  <1> QED BY <1>3, <1>4, <1>5, <1>6 DEF IInv

-----------------------------------------------------------------------------
(* The environment.                                                        *)

LEMMA EnvironmentSafe ==
    ASSUME IInv, TypeInv',
           ChainGrows \/ MainGoesStale \/ (\E k \in Keys : OperatorRewinds(k))
    PROVE  IInv'
  <1>0. TypeInv
    BY DEF IInv
  <1>1. UNCHANGED <<gaps, base, high, scanned, mainVars, backupVars>>
    BY DEF ChainGrows, MainGoesStale, OperatorRewinds, tableVars, chainVars
  <1>2. Grown
    <2>1. high \in Int
      BY <1>0, Numbers
    <2> QED BY <1>1, <2>1 DEF Grown, GapsKept
  <1>3. \A k \in Keys : \/ row'[k] = row[k]
                        \/ base # NoRow /\ row'[k] \in base .. (row[k] - 1)
    <2>1. CASE ChainGrows \/ MainGoesStale
      BY <2>1 DEF ChainGrows, MainGoesStale, tableVars
    <2>2. ASSUME NEW c \in Keys, OperatorRewinds(c)
          PROVE  \A k \in Keys : \/ row'[k] = row[k]
                                 \/ base # NoRow /\ row'[k] \in base .. (row[k] - 1)
      BY <1>0, <2>2 DEF OperatorRewinds, TypeInv, TableTypes
    <2> QED BY <2>1, <2>2
  <1>4. \A k \in Keys : row[k] = NoRow => row'[k] = row[k]
    BY <1>0, <1>3, Numbers DEF NoRow
  <1>5. \A b \in Backups : BackupInv(b)'
    <2> SUFFICES ASSUME NEW b \in Backups PROVE BackupInv(b)'
      OBVIOUS
    <2>1. BackupInv(b) /\ b \in Keys /\ row[b] \in Int /\ base \in Int
      BY <1>0, KeyFacts, Numbers DEF IInv
    <2>2. CASE row'[b] = row[b]
      BY <1>0, <1>1, <1>2, <2>1, <2>2, BackupStable DEF backupVars
    <2>3. CASE base # NoRow /\ row'[b] \in base .. (row[b] - 1)
      <3>1. /\ row[b] # NoRow /\ row'[b] # NoRow /\ row'[b] \in Int
            /\ base <= row'[b] /\ row'[b] <= row[b]
        BY <1>0, <1>4, <2>1, <2>3, Numbers DEF NoRow
      <3>2. Between(base, row'[b]) \subseteq scanned
        BY <2>1, <3>1 DEF BackupInv, Between
      <3> QED BY <1>1, <2>1, <2>3, <3>1, <3>2 DEF BackupInv, backupVars
    <2> QED BY <1>3, <2>1, <2>2, <2>3
  <1>6. \A i \in DOMAIN gaps' : GapInv(i)'
    <2>1. high' \in Int
      BY <1>0, <1>1, Numbers
    <2> QED BY <1>0, <1>1, <1>2, <2>1, GapStable DEF IInv
  <1>7. MainInv'
    <2>1. mpc = "skip" => \A x \in Between(mCur, mLatest) : Accounted(x)'
      BY <1>0, <1>2, AccountedStable, Numbers DEF MainInv, Between, IInv
    <2>2. /\ row[Main] \in Int /\ base \in Int /\ high \in Int
          /\ \/ row'[Main] = row[Main]
             \/ base # NoRow /\ row'[Main] \in base .. (row[Main] - 1)
      BY <1>0, <1>3, KeyFacts, Numbers
    <2>3. row[Main] = NoRow => row'[Main] = NoRow
      BY <1>4, KeyFacts
    <2> QED BY <1>0, <1>1, <2>1, <2>2, <2>3, Numbers, RowFacts
            DEF MainInv, mainVars, Between, NoRow, IInv
  <1>8. NoBlockLost'
    BY <1>0, <1>1, <1>2, LostStable DEF IInv
  <1> QED BY <1>5, <1>6, <1>7, <1>8 DEF IInv

-----------------------------------------------------------------------------
(* The theorems.                                                           *)

LEMMA SafeInit == Init => IInv
  <1> SUFFICES ASSUME Init PROVE IInv
    OBVIOUS
  <1>1. TypeInv
    BY TypeInit
  <1>2. MainInv /\ NoBlockLost
    BY KeyFacts DEF Init, MainInv, NoBlockLost, Working
  <1>3. \A b \in Backups : BackupInv(b)
    BY KeyFacts DEF Init, BackupInv, Scanning
  <1>4. \A i \in DOMAIN gaps : GapInv(i)
    BY DEF Init
  <1> QED BY <1>1, <1>2, <1>3, <1>4 DEF IInv

LEMMA SafeStep ==
    ASSUME LateDeploy = FALSE, IInv, [Next]_vars
    PROVE  IInv'
  <1>0. TypeInv'
    BY TypeStep DEF IInv
  <1>1. CASE MainStep \/ MainFail
    BY <1>0, <1>1, MainSafe
  <1>2. ASSUME NEW b \in Backups, BackupStep(b) \/ BackupFail(b)
        PROVE  IInv'
    BY <1>0, <1>2, BackupSafe
  <1>3. CASE ChainGrows \/ MainGoesStale \/ (\E k \in Keys : OperatorRewinds(k))
    BY <1>0, <1>3, EnvironmentSafe
  <1>4. CASE UNCHANGED vars
    <2>1. UNCHANGED <<chainVars, mainVars, backupVars, tableVars, budgetVars>>
      BY <1>4 DEF vars
    <2>2. UNCHANGED <<row, gaps, base, high, scanned>>
      BY <2>1 DEF tableVars, chainVars
    <2>3. TypeInv /\ Grown
      <3>1. high \in Int
        BY Numbers DEF IInv
      <3> QED BY <2>2, <3>1 DEF IInv, Grown, GapsKept
    <2>4. \A b \in Backups : BackupInv(b)'
      BY <2>1, <2>2, <2>3, BackupStable DEF IInv, backupVars
    <2>5. \A i \in DOMAIN gaps' : GapInv(i)'
      BY <2>2, <2>3, Numbers, GapStable DEF IInv
    <2>6. MainInv'
      BY <1>0, <2>1, <2>2, <2>3, MainStable DEF IInv, MainInv
    <2>7. NoBlockLost'
      BY <1>0, <2>2, <2>3, LostStable DEF IInv
    <2> QED BY <1>0, <2>4, <2>5, <2>6, <2>7 DEF IInv
  <1> QED BY <1>1, <1>2, <1>3, <1>4 DEF Next

LEMMA SafeInvariant ==
    ASSUME LateDeploy = FALSE
    PROVE  Spec => []IInv
  <1>1. IInv /\ [Next]_vars => IInv'
    BY SafeStep
  <1> QED BY SafeInit, <1>1, PTL DEF Spec

\* No block is lost: what the main cursor has passed since it began is scanned
\* or asked for by an open gap row, whatever scanners and tables go through.
THEOREM NothingLost ==
    ASSUME LateDeploy = FALSE
    PROVE  Spec => []NoBlockLost
  <1>1. IInv => NoBlockLost
    BY DEF IInv
  <1> QED BY SafeInvariant, <1>1, PTL

\* MarkTronSyncGapDone, which looks at a backup's cursor alone, only ever
\* closes a gap over scanned blocks.
THEOREM GapsClosedScanned ==
    ASSUME LateDeploy = FALSE
    PROVE  Spec => []DoneMeansScanned
  <1>1. IInv => DoneMeansScanned
    BY DEF IInv, GapInv, DoneMeansScanned
  <1> QED BY SafeInvariant, <1>1, PTL

\* No backup cursor ever stands above a block nobody has scanned.
THEOREM CursorsStandOnScanned ==
    ASSUME LateDeploy = FALSE
    PROVE  Spec => []NoHoleBelowBackup
  <1>1. IInv => NoHoleBelowBackup
    <2> SUFFICES ASSUME IInv, base # NoRow, NEW b \in Backups
                 PROVE  Between(base, row[b]) \subseteq scanned
      BY DEF NoHoleBelowBackup
    <2>1. BackupInv(b) /\ base \in Nat
      BY Numbers DEF IInv
    <2> QED BY <2>1 DEF BackupInv, Between, NoRow
  <1> QED BY SafeInvariant, <1>1, PTL

\* A repair scans no block above the end of its gap.
THEOREM RepairsStayInTheirGap ==
    ASSUME LateDeploy = FALSE
    PROVE  Spec => RepairStaysInGap
  <1>1. IInv => \A b \in Backups :
            BackupScanBlock(b) /\ bMode[b] = "gap-repair" => bCur[b] < gaps[bGap[b]].to
    BY DEF IInv, BackupInv, BackupScanBlock
  <1>2. IInv /\ [Next]_vars =>
          [\A b \in Backups :
             BackupScanBlock(b) /\ bMode[b] = "gap-repair" => bCur[b] < gaps[bGap[b]].to]_vars
    BY <1>1
  <1> QED BY SafeInvariant, <1>2, PTL DEF Spec, RepairStaysInGap

-----------------------------------------------------------------------------
(* Refinement of the ledger.                                               *)

LEMMA OwedMeans ==
    ASSUME NEW x
    PROVE  x \in Owed <=> \E i \in DOMAIN gaps : Open(i) /\ x \in gaps[i].from .. gaps[i].to
  BY DEF Owed

LEMMA AccountedIsOwed ==
    ASSUME TypeInv, NEW x \in Int, Accounted(x)
    PROVE  x \in scanned \cup Owed
  <1>1. \A i \in DOMAIN gaps : InGap(x, i) => x \in gaps[i].from .. gaps[i].to
    BY Numbers DEF InGap
  <1> QED BY <1>1, OwedMeans DEF Accounted

\* The step of the ledger that each step of the scanners is.
LEMMA RefineStep ==
    ASSUME LateDeploy = FALSE, IInv, IInv', [Next]_vars
    PROVE  [Ledger!Next]_(Ledger!ledger)
  <1>0. TypeInv /\ TypeInv'
    BY DEF IInv
  <1> USE DEF Ledger!Next, Ledger!ledger
  <1>1. CASE UNCHANGED <<high, scanned, gaps>>
    <2>1. Owed' = Owed
      BY <1>1 DEF Owed, Open
    <2> QED BY <1>1, <2>1
  <1>2. ASSUME NEW x, scanned' = scanned \cup {x}, UNCHANGED <<high, gaps>>
        PROVE  [Ledger!Next]_(Ledger!ledger)
    <2>1. Owed' = Owed
      BY <1>2 DEF Owed, Open
    <2>2. Ledger!Process
      BY <1>2, <2>1 DEF Ledger!Process
    <2> QED BY <2>2
  <1>3. CASE MainInitCursor
    <2>1. high = NoRow /\ UNCHANGED <<scanned, gaps>>
      BY <1>3 DEF MainInitCursor, IInv, MainInv, chainVars
    <2>2. Owed' = Owed
      BY <2>1 DEF Owed, Open
    <2>3. high' \in Nat
      <3>1. InitialBlock(StartBlock, mLatest) \in Nat /\ mLatest \in Nat
        BY <1>0, InitialBlockType, Numbers
      <3> QED BY <1>3, <2>1, <3>1 DEF MainInitCursor, SaveMain, NoRow
    <2> QED BY <2>1, <2>2, <2>3 DEF Ledger!Begin, Ledger!NoRow, NoRow
  <1>4. CASE MainRecordGap
    <2>1. UNCHANGED <<high, scanned>> /\ \A i \in DOMAIN gaps : i \in DOMAIN gaps' /\ gaps'[i] = gaps[i]
      BY <1>4, MainRecordStep DEF Grown, GapsKept, IInv
    <2>2. Owed \subseteq Owed'
      BY <2>1 DEF Owed, Open
    <2> QED BY <2>1, <2>2 DEF Ledger!Owe
  <1>5. CASE MainSkipToLatest \/ MainSaveCursor
    <2>1. UNCHANGED <<gaps, scanned>> /\ high <= high' /\ NoBlockLost'
          /\ MainInv /\ MainInv'
      BY <1>5, MainMoveStep DEF Grown, IInv
    <2>2. Owed' = Owed
      BY <2>1 DEF Owed, Open
    <2>3. base \in Nat /\ high \in Nat /\ high' \in Nat /\ base' = base /\ base <= high
      <3>1. base # NoRow /\ base <= mCur /\ mCur <= high /\ base' = base
        BY <1>5 DEF MainSkipToLatest, MainSaveCursor, MainInv, IInv, Working
      <3>2. base \in Nat /\ high \in Int /\ mCur \in Nat /\ high' \in Int
        BY <1>0, <3>1, Numbers DEF TypeInv, TableTypes, RowValue, NoRow
      <3> QED BY <2>1, <3>1, <3>2
    <2>4. CASE high' = high
      BY <2>1, <2>2, <2>4
    <2>5. CASE high' # high
      <3>1. \A x \in Between(high, high') : Accounted(x)'
        BY <2>1, <2>3, RowFacts DEF NoBlockLost, Between
      <3>2. \A x \in Between(high, high') : x \in Int /\ Accounted(x)
        BY <2>1, <2>3, <3>1 DEF Accounted, Open, InGap, Between
      <3>3. Ledger!Between(high, high') \subseteq scanned \cup Owed
        BY <1>0, <3>2, AccountedIsOwed DEF Ledger!Between, Between
      <3> QED BY <2>1, <2>2, <2>3, <2>5, <3>3 DEF Ledger!Advance, Ledger!NoRow
    <2> QED BY <2>4, <2>5
  <1>6. ASSUME NEW b \in Backups, BackupMarks(b)
        PROVE  [Ledger!Next]_(Ledger!ledger)
    <2>1. /\ UNCHANGED <<high, scanned>> /\ GapsKept /\ DOMAIN gaps' = DOMAIN gaps
      BY <1>0, <1>6, BackupMarkStep
    <2>2. \A i \in DOMAIN gaps : (Open(i) <=> gaps[i].status # "done")
                              /\ (Open(i)' <=> gaps'[i].status # "done")
      <3>1. \A i \in DOMAIN gaps : gaps[i].status \in GapStatus
        BY <1>0, Numbers
      <3>2. \A i \in DOMAIN gaps : gaps'[i].status \in GapStatus
        <4>1. gaps' \in Seq(GapRow)
          BY <1>0 DEF TypeInv, TableTypes
        <4> QED BY <2>1, <4>1, RowFields
      <3> QED BY <3>1, <3>2 DEF Open, GapStatus
    <2>3. CASE BackupFinishGap(b)
      <3>1. \A i \in DOMAIN gaps : Open(i)' => Open(i)
        BY <2>2, <2>3 DEF BackupFinishGap, MarkTronSyncGap
      <3>2. Owed' \subseteq Owed
        BY <2>1, <3>1 DEF Owed, GapsKept
      <3>3. Owed \ Owed' \subseteq scanned
        <4> SUFFICES ASSUME NEW x \in Owed, x \notin Owed' PROVE x \in scanned
          OBVIOUS
        <4>1. PICK i \in DOMAIN gaps : Open(i) /\ x \in gaps[i].from .. gaps[i].to
          BY OwedMeans
        <4>2. ~Open(i)'
          BY <2>1, <4>1 DEF Owed, GapsKept
        <4>3. gaps[i].from .. gaps[i].to \subseteq scanned
          BY <2>1, <2>2, <4>1, <4>2 DEF GapsKept
        <4> QED BY <4>1, <4>3
      <3> QED BY <2>1, <3>2, <3>3 DEF Ledger!Settle
    <2>4. CASE BackupTakeGap(b)
      <3>1. \A i \in DOMAIN gaps : Open(i) => Open(i)'
        <4>1. CASE UNCHANGED gaps
          BY <2>2, <4>1
        <4>2. CASE MarkTronSyncGap(bGap[b], "repairing")
          <5>1. "repairing" \in GapStatus /\ gaps \in Seq(GapRow)
                /\ gaps' = [gaps EXCEPT ![bGap[b]].status = "repairing"]
            BY <1>0, <4>2 DEF GapStatus, MarkTronSyncGap, TypeInv, TableTypes
          <5>2. \A i \in DOMAIN gaps : gaps'[i].status \in {gaps[i].status, "repairing"}
            BY <5>1, MarkGap
          <5> QED BY <2>2, <5>2
        <4> QED BY <2>4, <4>1, <4>2 DEF BackupTakeGap
      <3>2. Owed \subseteq Owed'
        BY <2>1, <3>1 DEF Owed, GapsKept
      <3> QED BY <2>1, <3>2 DEF Ledger!Owe
    <2> QED BY <1>6, <2>3, <2>4 DEF BackupMarks
  <1>7. ASSUME NEW b \in Backups, BackupStep(b) \/ BackupFail(b)
        PROVE  [Ledger!Next]_(Ledger!ledger)
    <2>1. CASE BackupQuiet(b)
      BY <1>0, <1>1, <2>1, BackupQuietStep DEF tableVars
    <2>2. CASE BackupSaves(b)
      BY <1>0, <1>1, <2>2, BackupSaveStep
    <2>3. CASE BackupMarks(b)
      BY <1>6, <2>3
    <2>4. CASE BackupScanBlock(b)
      BY <1>2, <2>4 DEF BackupScanBlock, tableVars
    <2> QED BY <1>7, <2>1, <2>2, <2>3, <2>4
            DEF BackupStep, BackupQuiet, BackupSaves, BackupMarks
  <1>8. CASE MainStep \/ MainFail
    <2>1. CASE MainQuiet
      BY <1>0, <1>1, <2>1, MainQuietStep DEF tableVars
    <2>2. CASE MainScanBlock
      BY <1>2, <2>2 DEF MainScanBlock, tableVars
    <2> QED BY <1>3, <1>4, <1>5, <1>8, <2>1, <2>2 DEF MainStep, MainQuiet
  <1>9. CASE ChainGrows \/ MainGoesStale \/ (\E k \in Keys : OperatorRewinds(k))
    BY <1>1, <1>9 DEF ChainGrows, MainGoesStale, OperatorRewinds, tableVars, chainVars
  <1>10. CASE UNCHANGED vars
    BY <1>1, <1>10 DEF vars, tableVars, chainVars
  <1> QED BY <1>7, <1>8, <1>9, <1>10 DEF Next

\* The scanners and their tables implement the ledger: a watermark that passes
\* only blocks on the books, books that let go only of processed blocks.
THEOREM ImplementsLedger ==
    ASSUME LateDeploy = FALSE
    PROVE  Spec => LedgerSpec
  <1>1. Init => Ledger!Init
    BY DEF Init, Ledger!Init, Ledger!NoRow, NoRow, Owed
  <1>2. IInv /\ IInv' /\ [Next]_vars => [Ledger!Next]_(Ledger!ledger)
    BY RefineStep
  <1> QED BY SafeInvariant, <1>1, <1>2, PTL DEF Spec, LedgerSpec, Ledger!Spec
=============================================================================
