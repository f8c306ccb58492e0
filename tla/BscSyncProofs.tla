---------------------------- MODULE BscSyncProofs ----------------------------
(***************************************************************************)
(* What BscSync guarantees for any number of backups, any chain and any    *)
(* number of failures.  Without any premise: types, exclusive claims,      *)
(* confirmed scans, no refresh forgotten by a way out of the loop, and a   *)
(* gap row for every block whose transfers a repair did not write.  When   *)
(* backups have sync keys of their own: repairs that stay in their gap.    *)
(* When moreover backups are aligned before the first skip and nobody      *)
(* lowers a cursor by hand: no block lost to the balances, gaps closed     *)
(* over refreshed blocks, no block passed by a backup, and the promises    *)
(* of BlockLedger.                                                         *)
(***************************************************************************)
EXTENDS BscSync, SequenceTheorems, TLAPS

-----------------------------------------------------------------------------
(* Gap rows.                                                               *)

\* What a row or a process may be named: the owners given out so far, and nobody.
Ids == owners \cup {NoOwner}

LEMMA OwnerFacts ==
    NoOwner \in Owner /\ NoOwner \notin owners /\ NoOwner \in Ids /\ Ids \subseteq Owner /\ owners \subseteq Ids
  BY DEF Ids, owners, Owner, NoOwner, Procs

LEMMA LivesKept == UNCHANGED lives => UNCHANGED owners /\ UNCHANGED Ids
  BY DEF owners, Ids

\* A new life of a process has a name nobody had.
LEMMA NewOwner ==
    ASSUME NEW p \in Procs, lives \in [Procs -> Nat], lives' = [lives EXCEPT ![p] = @ + 1],
           NEW o, o = <<p, lives[p] + 1>>
    PROVE  /\ lives' \in [Procs -> Nat] /\ owners \subseteq owners'
           /\ o \in owners' /\ o \notin owners /\ o # NoOwner
<1>1. lives' \in [Procs -> Nat] /\ lives'[p] = lives[p] + 1 /\ \A q \in Procs : lives[q] <= lives'[q] /\ lives[q] \in Nat
  OBVIOUS
<1>2. o \in Owner /\ o[1] = p /\ o[2] = lives[p] + 1
  BY <1>1 DEF Owner
<1>3. \A x \in Owner : x[1] \in Procs /\ x[2] \in Nat
  BY DEF Owner
<1>4. owners \subseteq owners'
  BY <1>1, <1>3 DEF owners
<1>5. o \in owners' /\ o \notin owners
  BY <1>1, <1>2 DEF owners
<1>6. o # NoOwner
  BY <1>1, <1>2 DEF NoOwner
<1> QED
  BY <1>1, <1>4, <1>5, <1>6

Status == {"pending", "repairing", "done"}

LEMMA RowFields ==
    ASSUME NEW s \in Seq(GapRow), NEW i \in DOMAIN s
    PROVE  /\ i \in Nat /\ i # 0 /\ s[i] \in GapRow
           /\ s[i].from \in Nat /\ s[i].to \in Nat /\ s[i].status \in Status /\ s[i].owner \in Owner
<1>1. s[i] \in GapRow
  BY ElementOfSeq
<1> QED
  BY <1>1 DEF GapRow, Status

\* CreateSyncGap adds a row and touches no other.
LEMMA AddedRow ==
    ASSUME gaps \in Seq(GapRow), NEW from \in Nat, NEW to \in Nat, CreateSyncGap(from, to)
    PROVE  /\ gaps' \in Seq(GapRow) /\ Len(gaps') = Len(gaps) + 1
           /\ DOMAIN gaps' = DOMAIN gaps \cup {Len(gaps) + 1} /\ Len(gaps) + 1 \notin DOMAIN gaps
           /\ \A j \in DOMAIN gaps : gaps'[j] = gaps[j]
           /\ gaps'[Len(gaps) + 1] = [from |-> from, to |-> to, status |-> "pending", owner |-> NoOwner]
<1> DEFINE new == [from |-> from, to |-> to, status |-> "pending", owner |-> NoOwner]
<1>1. new \in GapRow
  BY OwnerFacts DEF GapRow
<1>2. gaps' = Append(gaps, new)
  BY DEF CreateSyncGap
<1> HIDE DEF new
<1>3. /\ gaps' \in Seq(GapRow) /\ Len(gaps') = Len(gaps) + 1
      /\ DOMAIN gaps' = DOMAIN gaps \cup {Len(gaps) + 1} /\ Len(gaps) + 1 \notin DOMAIN gaps
      /\ \A j \in DOMAIN gaps : gaps'[j] = gaps[j]
      /\ gaps'[Len(gaps) + 1] = new
  BY <1>1, <1>2
<1> QED
  BY <1>3 DEF new

LEMMA SeqOfRows == \A n \in Nat : \A s \in [1 .. n -> GapRow] : s \in Seq(GapRow)
  BY SeqDef

Marked(i, st, o) == [gaps EXCEPT ![i].status = st, ![i].owner = o]

\* A claim or a mark changes status and owner of one row, nothing else.
LEMMA ChangedRow ==
    ASSUME gaps \in Seq(GapRow), NEW i \in DOMAIN gaps, NEW st \in Status, NEW o \in Owner,
           gaps' = Marked(i, st, o)
    PROVE  /\ gaps' \in Seq(GapRow) /\ Len(gaps') = Len(gaps) /\ DOMAIN gaps' = DOMAIN gaps
           /\ \A j \in DOMAIN gaps : /\ gaps'[j].from = gaps[j].from /\ gaps'[j].to = gaps[j].to
                                     /\ j # i => gaps'[j] = gaps[j]
           /\ gaps'[i].status = st /\ gaps'[i].owner = o
<1> DEFINE marked == [gaps[i] EXCEPT !.status = st]
           new == [marked EXCEPT !.owner = o]
<1>1. gaps[i] \in GapRow /\ DOMAIN gaps = 1 .. Len(gaps) /\ Len(gaps) \in Nat
  BY RowFields
<1>2. marked \in GapRow /\ marked.from = gaps[i].from /\ marked.to = gaps[i].to /\ marked.status = st
  BY <1>1 DEF GapRow, Status
<1>3. /\ new \in GapRow /\ new.from = gaps[i].from /\ new.to = gaps[i].to
      /\ new.status = st /\ new.owner = o
  <2> HIDE DEF marked
  <2> QED
    BY <1>2 DEF GapRow
<1>4. gaps' = [gaps EXCEPT ![i] = new]
  <2> DEFINE once == [gaps EXCEPT ![i] = marked]
  <2>1. once[i] = marked
    BY <1>1
  <2>2. gaps' = [once EXCEPT ![i] = [once[i] EXCEPT !.owner = o]]
    BY Zenon DEF Marked
  <2>3. gaps' = [once EXCEPT ![i] = new]
    BY <2>1, <2>2
  <2> HIDE DEF new, marked
  <2> QED
    BY <1>1, <2>3
<1> HIDE DEF new
<1>5. gaps' \in Seq(GapRow) /\ Len(gaps') = Len(gaps) /\ DOMAIN gaps' = DOMAIN gaps
  <2>1. gaps \in [1 .. Len(gaps) -> GapRow]
    BY <1>1
  <2>2. gaps' \in [1 .. Len(gaps) -> GapRow]
    BY <1>1, <1>3, <1>4, <2>1, Zenon
  <2>3. gaps' \in Seq(GapRow)
    BY <1>1, <2>2, SeqOfRows
  <2>4. DOMAIN gaps' = 1 .. Len(gaps)
    BY <2>2, Zenon
  <2>5. Len(gaps') = Len(gaps)
    BY <1>1, <2>3, <2>4
  <2> QED
    BY <1>1, <2>3, <2>4, <2>5
<1>6. gaps'[i] = new /\ \A j \in DOMAIN gaps : j # i => gaps'[j] = gaps[j]
  BY <1>4
<1> QED
  BY <1>3, <1>5, <1>6

-----------------------------------------------------------------------------
(* Types, and where the processes are.                                     *)

MainPC == {"idle", "height", "init", "decide", "record", "skip", "loop", "scan", "save", "flush"}

ControlInv ==
    /\ gap[Main] = 0 /\ pc[Main] \in MainPC
    /\ \A b \in Backups : pc[b] \in {"cas", "check", "reset"} => gap[b] # 0

TypeInv == TypeOK /\ ControlInv

\* What is recorded of blocks is recorded of scanned ones.
Marks == booked \subseteq scanned /\ refreshed \subseteq scanned /\ dropped \subseteq scanned

LEMMA KeyFacts ==
    /\ Main \in Procs /\ \A b \in Backups : b \in Procs /\ b # Main /\ Key[b] # Key[Main]
    /\ \A p \in Procs : Key[p] \in Keys
    /\ Procs = Backups \cup {Main}
  BY ConstantsOK DEF Procs, Keys

LEMMA Numbers ==
    /\ NoRow \in RowValue /\ NoRow < 0 /\ Nat \subseteq RowValue
    /\ \A r \in RowValue : r \in Int /\ r + 1 \in Nat /\ (r # NoRow => r \in Nat)
  BY DEF RowValue, NoRow

LEMMA TypeInit == Init => TypeInv
<1> SUFFICES ASSUME Init PROVE TypeInv
  OBVIOUS
<1>1. Confirmations + 1 \in Nat
  BY ConstantsOK
<1>2. TypeOK
  <2>1. /\ gaps = <<>> /\ scanned = {} /\ booked = {} /\ refreshed = {} /\ dropped = {} /\ head \in Nat /\ fresh = FALSE
        /\ base = NoRow /\ high = NoRow /\ faults = 0 /\ rewinds = 0
    BY <1>1 DEF Init
  <2>2. row \in [Keys -> RowValue] /\ cur \in [Procs -> RowValue]
    BY Numbers DEF Init
  <2>3. pc \in [Procs -> PC] /\ tgt \in [Procs -> Nat] /\ deferred \in [Procs -> SUBSET scanned]
    BY DEF Init, PC
  <2>4. gap \in [Procs -> 0 .. 0] /\ me \in [Procs -> owners \cup {NoOwner}] /\ lives \in [Procs -> Nat]
    BY DEF Init
  <2>5. gaps \in Seq(GapRow) /\ Len(gaps) = 0
    BY <2>1
  <2> QED
    BY <2>1, <2>2, <2>3, <2>4, <2>5, Numbers DEF TypeOK
<1>3. ControlInv
  BY KeyFacts DEF Init, ControlInv, MainPC
<1> QED
  BY <1>2, <1>3 DEF TypeInv

\* What a step of process p may do to the variables kept per process.
Moves(p) ==
    /\ \E l \in PC : pc' = [pc EXCEPT ![p] = l]
    /\ UNCHANGED cur \/ \E v \in RowValue : cur' = [cur EXCEPT ![p] = v]
    /\ UNCHANGED tgt \/ \E n \in Nat : tgt' = [tgt EXCEPT ![p] = n]
    /\ UNCHANGED gap \/ \E i \in 0 .. Len(gaps) : gap' = [gap EXCEPT ![p] = i]
    /\ UNCHANGED deferred \/ \E S \in SUBSET scanned' : deferred' = [deferred EXCEPT ![p] = S]
    /\ UNCHANGED me \/ \E o \in Ids' : me' = [me EXCEPT ![p] = o]

LEMMA MovesApart ==
    ASSUME TypeOK, NEW p \in Procs, Moves(p)
    PROVE  \A q \in Procs : q # p =>
              /\ pc'[q] = pc[q] /\ cur'[q] = cur[q] /\ tgt'[q] = tgt[q]
              /\ gap'[q] = gap[q] /\ me'[q] = me[q]
<1>1. /\ pc \in [Procs -> PC] /\ cur \in [Procs -> RowValue] /\ tgt \in [Procs -> Nat]
      /\ gap \in [Procs -> 0 .. Len(gaps)] /\ me \in [Procs -> Ids]
  BY DEF TypeOK, Ids
<1>2. SUFFICES ASSUME NEW q \in Procs, q # p
               PROVE  /\ pc'[q] = pc[q] /\ cur'[q] = cur[q] /\ tgt'[q] = tgt[q]
                      /\ gap'[q] = gap[q] /\ me'[q] = me[q]
  OBVIOUS
<1>3. pc'[q] = pc[q]
  BY <1>1, <1>2, Zenon DEF Moves
<1>4. cur'[q] = cur[q]
  BY <1>1, <1>2, Zenon DEF Moves
<1>5. tgt'[q] = tgt[q]
  BY <1>1, <1>2, Zenon DEF Moves
<1>6. gap'[q] = gap[q]
  BY <1>1, <1>2, Zenon DEF Moves
<1>7. me'[q] = me[q]
  BY <1>1, <1>2, Zenon DEF Moves
<1> QED
  BY <1>3, <1>4, <1>5, <1>6, <1>7

\* The types of what is kept per process follow.
LEMMA MovesTypes ==
    ASSUME TypeOK, NEW p \in Procs, Moves(p), scanned \subseteq scanned',
           Len(gaps) <= Len(gaps'), Len(gaps') \in Nat, owners \subseteq owners', lives' \in [Procs -> Nat]
    PROVE  /\ pc' \in [Procs -> PC] /\ cur' \in [Procs -> RowValue] /\ tgt' \in [Procs -> Nat]
           /\ gap' \in [Procs -> 0 .. Len(gaps')] /\ deferred' \in [Procs -> SUBSET scanned']
           /\ me' \in [Procs -> Ids']
<1>1. /\ pc \in [Procs -> PC] /\ cur \in [Procs -> RowValue] /\ tgt \in [Procs -> Nat]
      /\ gap \in [Procs -> 0 .. Len(gaps)] /\ deferred \in [Procs -> SUBSET scanned]
      /\ me \in [Procs -> Ids] /\ lives \in [Procs -> Nat] /\ Len(gaps) \in Nat
  BY LenProperties DEF TypeOK, Ids
<1>2. pc' \in [Procs -> PC]
  BY <1>1, Zenon DEF Moves
<1>3. cur' \in [Procs -> RowValue]
  BY <1>1, Zenon DEF Moves
<1>4. tgt' \in [Procs -> Nat]
  BY <1>1, Zenon DEF Moves
<1>5. gap' \in [Procs -> 0 .. Len(gaps')]
  <2>1. 0 .. Len(gaps) \subseteq 0 .. Len(gaps')
    BY <1>1
  <2>2. gap' \in [Procs -> 0 .. Len(gaps)]
    BY <1>1, Zenon DEF Moves
  <2> QED
    BY <2>1, <2>2
<1>6. deferred' \in [Procs -> SUBSET scanned']
  <2>1. deferred \in [Procs -> SUBSET scanned']
    BY <1>1
  <2> QED
    BY <2>1, Zenon DEF Moves
<1>7. me' \in [Procs -> Ids']
  <2>1. Ids \subseteq Ids'
    BY DEF Ids
  <2>2. me \in [Procs -> Ids']
    BY <1>1, <2>1
  <2> QED
    BY <2>2, Zenon DEF Moves
<1> QED
  BY <1>2, <1>3, <1>4, <1>5, <1>6, <1>7

LEMMA LeaveMoves ==
    ASSUME NEW p \in Procs, NEW l \in PC, Leave(p, l), TypeOK
    PROVE  /\ UNCHANGED me => Moves(p)
           /\ \A o \in Ids' : me' = [me EXCEPT ![p] = o] => Moves(p)
           /\ pc'[p] = l /\ gap'[p] = 0 /\ cur'[p] = NoRow
<1>1. Len(gaps) \in Nat
  BY LenProperties DEF TypeOK, Ids
<1>2. 0 \in 0 .. Len(gaps) /\ 0 \in Nat /\ NoRow \in RowValue /\ {} \in SUBSET scanned'
  BY <1>1, Numbers
<1>3. pc'[p] = l /\ gap'[p] = 0 /\ cur'[p] = NoRow
  BY DEF Leave, Goto, TypeOK
<1>4. UNCHANGED me => Moves(p)
  BY <1>2, Zenon DEF Leave, Goto, Moves
<1>5. \A o \in Ids' : me' = [me EXCEPT ![p] = o] => Moves(p)
  BY <1>2, Zenon DEF Leave, Goto, Moves
<1> QED
  BY <1>3, <1>4, <1>5

\* A step that writes the control point alone.
LEMMA GotoMoves ==
    ASSUME NEW p \in Procs, NEW l \in PC, Goto(p, l), UNCHANGED <<cur, tgt, gap, deferred, me>>, TypeOK
    PROVE  Moves(p) /\ pc'[p] = l
<1>1. Moves(p)
  BY Zenon DEF Moves, Goto
<1>2. pc'[p] = l
  BY DEF Goto, TypeOK
<1> QED
  BY <1>1, <1>2

LEMMA SaveTypes ==
    ASSUME TypeOK, NEW p \in Procs, NEW block \in RowValue, Save(p, block)
    PROVE  /\ row' \in [Keys -> RowValue] /\ fresh' \in BOOLEAN /\ high' \in RowValue
           /\ row'[Key[p]] = block /\ \A k \in Keys : k # Key[p] => row'[k] = row[k]
<1>1. row \in [Keys -> RowValue] /\ fresh \in BOOLEAN /\ high \in RowValue /\ Key[p] \in Keys
  BY KeyFacts DEF TypeOK
<1>2. fresh' \in BOOLEAN
  BY <1>1, Zenon DEF Save
<1> QED
  BY <1>1, <1>2 DEF Save

\* The steps both kinds of process take.
LEMMA StepMoves ==
    ASSUME TypeInv, NEW p \in Procs, Step(p)
    PROVE  /\ Moves(p) /\ scanned \subseteq scanned' /\ scanned' \subseteq Nat
           /\ Marks'
           /\ row' \in [Keys -> RowValue] /\ fresh' \in BOOLEAN /\ high' \in RowValue
           /\ base' \in RowValue
           /\ UNCHANGED <<head, gaps, budgetVars>>
           /\ pc'[p] \in PC \ {"down", "align", "claim", "cas", "check", "reset", "any", "main", "skip"}
           /\ gap'[p] \in {0, gap[p]}
           /\ p = Main => pc'[p] \in MainPC
<1>1. /\ TypeOK /\ pc \in [Procs -> PC] /\ cur \in [Procs -> RowValue] /\ tgt \in [Procs -> Nat]
      /\ gap \in [Procs -> 0 .. Len(gaps)] /\ deferred \in [Procs -> SUBSET scanned]
      /\ row \in [Keys -> RowValue] /\ fresh \in BOOLEAN /\ high \in RowValue /\ base \in RowValue
      /\ scanned \subseteq Nat /\ Marks /\ head \in Nat /\ Key[p] \in Keys
  BY KeyFacts DEF TypeInv, TypeOK, Marks
<1> DEFINE Frame ==
        /\ row' \in [Keys -> RowValue] /\ fresh' \in BOOLEAN /\ high' \in RowValue
        /\ base' \in RowValue /\ UNCHANGED <<head, gaps, budgetVars>>
<1>2. CASE LoadCursor(p)
  <2>1. MyRow(p) \in RowValue /\ "height" \in PC
    BY <1>1 DEF MyRow, PC
  <2>2. Moves(p)
    BY <1>2, <2>1, Zenon DEF LoadCursor, Goto, Moves
  <2>3. Frame
    BY <1>1, <1>2 DEF LoadCursor, chainVars, tableVars
  <2> QED
    BY <1>1, <1>2, <2>2, <2>3 DEF LoadCursor, Goto, chainVars, Marks, PC, MainPC
<1>3. CASE LoadHeight(p)
  <2>1. Confirmed(head) \in Nat
    BY <1>1, ConstantsOK DEF Confirmed
  <2>2. PICK l \in {"init", "decide", "owned"} : Goto(p, l) /\ (p = Main => l # "owned")
    BY <1>3 DEF LoadHeight
  <2>3. Moves(p)
    <3>1. l \in PC
      BY DEF PC
    <3> QED
      BY <1>3, <2>1, <2>2, <3>1, Zenon DEF LoadHeight, Goto, Moves
  <2>4. Frame
    BY <1>1, <1>3 DEF LoadHeight, chainVars, tableVars
  <2> QED
    BY <1>1, <1>3, <2>2, <2>3, <2>4 DEF LoadHeight, Goto, chainVars, Marks, PC, MainPC
<1>4. CASE InitCursor(p)
  <2>1. InitialBlock(StartBlock, tgt[p]) \in Nat
    BY <1>1, ConstantsOK DEF InitialBlock
  <2>2. "idle" \in PC /\ Leave(p, "idle") /\ UNCHANGED me
    BY <1>4 DEF InitCursor, PC
  <2>3. Moves(p) /\ pc'[p] = "idle" /\ gap'[p] = 0
    BY <1>1, <2>2, LeaveMoves
  <2>4. Frame
    BY <1>1, <1>4, <2>1, SaveTypes, Numbers DEF InitCursor, chainVars
  <2> QED
    BY <1>1, <1>4, <2>3, <2>4 DEF InitCursor, chainVars, Marks, PC, MainPC
<1>5. CASE Decide(p)
  <2>1. /\ UNCHANGED <<me, chainVars, tableVars, budgetVars>>
        /\ \/ Leave(p, "idle")
           \/ (Goto(p, "loop") \/ Goto(p, "record")) /\ UNCHANGED <<cur, tgt, gap, deferred>>
    BY <1>5, Zenon DEF Decide, Stay
  <2>2. "idle" \in PC /\ "loop" \in PC /\ "record" \in PC
    BY DEF PC
  <2>3. Moves(p) /\ pc'[p] \in {"idle", "loop", "record"} /\ gap'[p] \in {0, gap[p]}
    BY <1>1, <2>1, <2>2, LeaveMoves, GotoMoves
  <2>4. Frame
    BY <1>1, <2>1 DEF chainVars, tableVars
  <2> QED
    BY <1>1, <2>1, <2>3, <2>4 DEF chainVars, Marks, PC, MainPC
<1>6. CASE Loop(p)
  <2>1. MyRow(p) \in RowValue
    BY <1>1 DEF MyRow
  <2>2. /\ UNCHANGED <<tgt, gap, deferred, me, chainVars, tableVars, budgetVars>>
        /\ UNCHANGED cur \/ cur' = [cur EXCEPT ![p] = MyRow(p)]
        /\ \E l \in {"flush", "record", "scan"} : Goto(p, l)
    BY <1>6, Zenon DEF Loop, Stay
  <2>3. PICK l \in {"flush", "record", "scan"} : Goto(p, l)
    BY <2>2
  <2>4. l \in PC
    BY DEF PC
  <2>5. Moves(p)
    BY <2>1, <2>2, <2>3, <2>4, Zenon DEF Goto, Moves
  <2>6. Frame
    BY <1>1, <2>2 DEF chainVars, tableVars
  <2> QED
    BY <1>1, <2>2, <2>3, <2>5, <2>6 DEF Goto, chainVars, Marks, PC, MainPC
<1>7. CASE ScanBlock(p)
  <2>1. cur[p] + 1 \in Nat
    BY <1>1, Numbers
  <2>2. scanned' = scanned \cup {cur[p] + 1}
    BY <1>7 DEF ScanBlock
  <2>3. deferred[p] \cup {cur[p] + 1} \in SUBSET scanned'
    BY <1>1, <2>2
  <2>4. deferred' = [deferred EXCEPT ![p] = deferred[p] \cup {cur[p] + 1}]
    BY <1>7, Zenon DEF ScanBlock
  <2>5. Moves(p)
    <3>1. "save" \in PC
      BY DEF PC
    <3> QED
      BY <1>7, <2>3, <2>4, <3>1, Zenon DEF ScanBlock, Goto, Moves
  <2>6. Frame
    BY <1>1, <1>7 DEF ScanBlock, tableVars
  <2>7. Marks'
    BY <1>1, <1>7, <2>2 DEF ScanBlock, KeepsBooks, Marks
  <2> QED
    BY <1>1, <1>7, <2>1, <2>2, <2>5, <2>6, <2>7 DEF ScanBlock, Goto, PC, MainPC
<1>8. CASE SaveCursor(p)
  <2>1. cur[p] + 1 \in RowValue
    BY <1>1, Numbers
  <2>2. "loop" \in PC
    BY DEF PC
  <2>3. Moves(p)
    BY <1>8, <2>1, <2>2, Zenon DEF SaveCursor, Goto, Moves
  <2>4. Frame
    BY <1>1, <1>8, <2>1, SaveTypes DEF SaveCursor, chainVars
  <2> QED
    BY <1>1, <1>8, <2>3, <2>4 DEF SaveCursor, Goto, chainVars, Marks, PC, MainPC
<1>9. CASE Flush(p)
  <2>1. "idle" \in PC /\ Leave(p, "idle") /\ UNCHANGED me
    BY <1>9 DEF Flush, PC
  <2>2. Moves(p) /\ pc'[p] = "idle" /\ gap'[p] = 0
    BY <1>1, <2>1, LeaveMoves
  <2>3. Marks' /\ UNCHANGED scanned
    BY <1>1, <1>9 DEF Flush, RefreshDeferred, Marks
  <2>4. Frame
    BY <1>1, <1>9 DEF Flush, tableVars
  <2> QED
    BY <1>1, <2>2, <2>3, <2>4 DEF PC, MainPC
<1> QED
  BY <1>2, <1>3, <1>4, <1>5, <1>6, <1>7, <1>8, <1>9 DEF Step

LEMMA ChosenRow ==
    ASSUME TypeOK, NEW p \in Procs, gap[p] # 0
    PROVE  /\ gap[p] \in DOMAIN gaps /\ gaps[gap[p]] \in GapRow
           /\ gaps[gap[p]].from \in Nat /\ gaps[gap[p]].to \in Nat
<1>1. gaps \in Seq(GapRow) /\ gap[p] \in 0 .. Len(gaps)
  BY DEF TypeOK
<1>2. gap[p] \in DOMAIN gaps
  BY <1>1
<1> QED
  BY <1>1, <1>2, RowFields

\* The resolver's steps that write locals alone.
ResolverLooks(b) ==
    FindOwned(b) \/ SelectPending(b) \/ EnterGap(b) \/ CheckOpen(b) \/ CheckMain(b)

LEMMA LookMoves ==
    ASSUME TypeInv, NEW b \in Backups, ResolverLooks(b)
    PROVE  /\ Moves(b) /\ UNCHANGED <<me, chainVars, tableVars, budgetVars>>
           /\ pc'[b] \in {"cas", "check", "reset"} => gap'[b] # 0
<1>1. /\ TypeOK /\ b \in Procs /\ pc \in [Procs -> PC] /\ gap \in [Procs -> 0 .. Len(gaps)]
      /\ tgt \in [Procs -> Nat] /\ gaps \in Seq(GapRow)
  BY KeyFacts DEF TypeInv, TypeOK
<1>2. UNCHANGED <<me, chainVars, tableVars, budgetVars>>
  BY Zenon DEF ResolverLooks, FindOwned, SelectPending, EnterGap, CheckOpen, CheckMain
<1>3. CASE FindOwned(b) \/ SelectPending(b)
  <2>1. UNCHANGED <<cur, tgt, deferred, me>>
    BY <1>3 DEF FindOwned, SelectPending
  <2>2. CASE UNCHANGED gap /\ (Goto(b, "claim") \/ Goto(b, "any"))
    <3>1. "claim" \in PC /\ "any" \in PC
      BY DEF PC
    <3> QED
      BY <1>1, <1>2, <2>1, <2>2, <3>1, GotoMoves
  <2>3. ASSUME NEW i \in DOMAIN gaps, gap' = [gap EXCEPT ![b] = i], Goto(b, "check") \/ Goto(b, "cas")
        PROVE  Moves(b) /\ gap'[b] # 0
    <3>1. i \in 0 .. Len(gaps) /\ i # 0
      BY <1>1, <2>3
    <3>2. "check" \in PC /\ "cas" \in PC
      BY DEF PC
    <3>3. Moves(b)
      BY <2>1, <2>3, <3>1, <3>2, Zenon DEF Moves, Goto
    <3>4. gap'[b] = i
      BY <1>1, <2>3
    <3> QED
      BY <3>1, <3>3, <3>4
  <2> QED
    BY <1>2, <1>3, <2>2, <2>3, Zenon DEF FindOwned, SelectPending
<1>4. CASE EnterGap(b)
  <2>1. pc[b] = "check" /\ gap[b] # 0
    BY <1>4 DEF EnterGap, TypeInv, ControlInv
  <2>2. gaps[gap[b]].to \in Nat
    BY <1>1, <2>1, ChosenRow
  <2> DEFINE to == IF gaps[gap[b]].to < tgt[b] THEN gaps[gap[b]].to ELSE tgt[b]
  <2>3. to \in Nat /\ tgt' = [tgt EXCEPT ![b] = to]
    BY <1>1, <1>4, <2>2 DEF EnterGap
  <2>4. PICK l \in {"reset", "decide"} : Goto(b, l)
    BY <1>4, Zenon DEF EnterGap
  <2>5. l \in PC
    BY DEF PC
  <2>6. UNCHANGED <<cur, gap, deferred, me>>
    BY <1>4 DEF EnterGap
  <2> HIDE DEF to
  <2>7. Moves(b)
    BY <2>3, <2>4, <2>5, <2>6, Zenon DEF Moves, Goto
  <2> QED
    BY <1>2, <2>1, <2>6, <2>7
<1>5. CASE CheckOpen(b) \/ CheckMain(b)
  <2>1. /\ UNCHANGED me
        /\ \/ Leave(b, "idle")
           \/ (Goto(b, "main") \/ Goto(b, "decide")) /\ UNCHANGED <<cur, tgt, gap, deferred>>
    BY <1>5, Zenon DEF CheckOpen, CheckMain, Stay
  <2>2. "idle" \in PC /\ "main" \in PC /\ "decide" \in PC
    BY DEF PC
  <2>3. Moves(b) /\ pc'[b] \in {"idle", "main", "decide"}
    BY <1>1, <2>1, <2>2, LeaveMoves, GotoMoves
  <2> QED
    BY <1>2, <2>3
<1> QED
  BY <1>3, <1>4, <1>5 DEF ResolverLooks

\* The others of the backup's own steps write tables, or start it.
ResolverWrites(b) == Align(b) \/ ResetCursor(b) \/ Claim(b) \/ FinishGap(b)

LEMMA WriteMoves ==
    ASSUME TypeInv, NEW b \in Backups, ResolverWrites(b)
    PROVE  /\ Moves(b) /\ UNCHANGED <<me, chainVars, base, budgetVars>>
           /\ row' \in [Keys -> RowValue] /\ fresh' \in BOOLEAN /\ high' \in RowValue
           /\ gaps' \in Seq(GapRow) /\ Len(gaps') = Len(gaps)
           /\ pc'[b] \in {"cas", "check", "reset"} => gap'[b] # 0
<1>1. /\ TypeOK /\ b \in Procs /\ pc \in [Procs -> PC] /\ gap \in [Procs -> 0 .. Len(gaps)]
      /\ cur \in [Procs -> RowValue] /\ gaps \in Seq(GapRow) /\ me \in [Procs -> Ids]
      /\ row \in [Keys -> RowValue] /\ fresh \in BOOLEAN /\ high \in RowValue /\ Len(gaps) \in Nat
      /\ lives \in [Procs -> Nat]
  BY KeyFacts, LenProperties DEF TypeInv, TypeOK, Ids
<1>2. UNCHANGED <<me, chainVars, base, budgetVars>>
  BY DEF ResolverWrites, Align, ResetCursor, Claim, FinishGap
<1>3. CASE Align(b)
  <2>1. Leave(b, "idle") /\ UNCHANGED gaps /\ Save(b, cur[b]) /\ cur[b] \in RowValue /\ "idle" \in PC
    BY <1>1, <1>3 DEF Align, PC
  <2>2. Moves(b) /\ pc'[b] = "idle"
    BY <1>1, <1>2, <2>1, LeaveMoves
  <2> QED
    BY <1>1, <1>2, <2>1, <2>2, SaveTypes
<1>4. CASE ResetCursor(b)
  <2>1. gap[b] # 0
    BY <1>4 DEF ResetCursor, TypeInv, ControlInv
  <2>2. BeforeGap(gaps[gap[b]].from) \in Nat
    BY <1>1, <2>1, ChosenRow DEF BeforeGap
  <2>3. Moves(b) /\ pc'[b] = "decide"
    <3>1. "decide" \in PC
      BY DEF PC
    <3> QED
      BY <1>1, <1>4, <3>1, GotoMoves DEF ResetCursor
  <2> QED
    BY <1>1, <1>2, <1>4, <2>2, <2>3, SaveTypes, Numbers DEF ResetCursor
<1>5. CASE Claim(b) /\ Claimable(gap[b])
  <2>1. gap[b] # 0 /\ gap[b] \in DOMAIN gaps
    BY <1>1, <1>5, ChosenRow DEF Claim, TypeInv, ControlInv
  <2>2. gaps' = Marked(gap[b], "repairing", me[b])
    BY <1>5, Zenon DEF Claim, Marked
  <2>3. "repairing" \in Status /\ me[b] \in Owner
    BY <1>1, OwnerFacts DEF Status
  <2>4. gaps' \in Seq(GapRow) /\ Len(gaps') = Len(gaps)
    BY <1>1, <2>1, <2>2, <2>3, ChangedRow
  <2>5. Moves(b)
    <3>1. "check" \in PC
      BY DEF PC
    <3> QED
      BY <1>1, <1>5, <3>1, GotoMoves DEF Claim
  <2> QED
    BY <1>1, <1>2, <1>5, <2>1, <2>4, <2>5 DEF Claim
<1>6. CASE Claim(b) /\ ~Claimable(gap[b])
  <2>1. "claim" \in PC /\ 0 \in 0 .. Len(gaps)
    BY <1>1 DEF PC
  <2>2. Moves(b)
    BY <1>6, <2>1, Zenon DEF Claim, Goto, Moves
  <2> QED
    BY <1>1, <1>2, <1>6, <2>2 DEF Claim, Goto
<1>7. CASE FinishGap(b)
  <2>1. gap[b] # 0 /\ gap[b] \in DOMAIN gaps
    BY <1>1, <1>7, ChosenRow DEF FinishGap, TypeInv, ControlInv
  <2>2. gaps' = Marked(gap[b], "done", NoOwner)
    BY <1>7, Zenon DEF FinishGap, MarkDone, Marked
  <2>3. "done" \in Status /\ NoOwner \in Owner
    BY OwnerFacts DEF Status
  <2>4. gaps' \in Seq(GapRow) /\ Len(gaps') = Len(gaps)
    BY <1>1, <2>1, <2>2, <2>3, ChangedRow
  <2>5. "owned" \in PC /\ 0 \in 0 .. Len(gaps)
    BY <1>1 DEF PC
  <2>6. Moves(b)
    BY <1>7, <2>5, Zenon DEF FinishGap, Goto, Moves
  <2> QED
    BY <1>1, <1>2, <1>7, <2>4, <2>6 DEF FinishGap, Goto
<1> QED
  BY <1>3, <1>4, <1>5, <1>6, <1>7 DEF ResolverWrites

LEMMA StartMoves ==
    ASSUME TypeInv, NEW b \in Backups, Start(b)
    PROVE  /\ Moves(b) /\ owners \subseteq owners' /\ lives' \in [Procs -> Nat]
           /\ me'[b] \in owners' /\ me'[b] \notin owners /\ me'[b] # NoOwner
           /\ UNCHANGED <<gap, faults, rewinds, chainVars, tableVars>>
           /\ pc'[b] \in {"align", "idle"}
<1>1. /\ TypeOK /\ b \in Procs /\ pc \in [Procs -> PC] /\ me \in [Procs -> Ids] /\ lives \in [Procs -> Nat]
      /\ row \in [Keys -> RowValue] /\ Key[Main] \in Keys
  BY KeyFacts DEF TypeInv, TypeOK, Ids
<1> DEFINE o == <<b, lives[b] + 1>>
<1>2. me' = [me EXCEPT ![b] = o] /\ lives' = [lives EXCEPT ![b] = @ + 1]
  BY Zenon DEF Start
<1>8. /\ lives' \in [Procs -> Nat] /\ owners \subseteq owners'
      /\ o \in owners' /\ o \notin owners /\ o # NoOwner /\ o \in Ids'
  BY <1>1, <1>2, NewOwner DEF Ids
<1> HIDE DEF o
<1>3. MyRow(Main) \in RowValue
  BY <1>1 DEF MyRow
<1>4. PICK l \in {"align", "idle"} : Goto(b, l)
  BY Zenon DEF Start
<1>5. l \in PC
  BY DEF PC
<1>6. UNCHANGED <<tgt, gap, deferred>> /\ (UNCHANGED cur \/ cur' = [cur EXCEPT ![b] = MyRow(Main)])
  BY DEF Start
<1>7. Moves(b)
  BY <1>2, <1>3, <1>4, <1>5, <1>6, <1>8, Zenon DEF Goto, Moves
<1> QED
  BY <1>1, <1>2, <1>4, <1>7, <1>8 DEF Start, Goto

\* The main scanner's own steps.
LEMMA SkipMoves ==
    ASSUME TypeInv, RecordGap(Main) \/ SkipToLatest(Main)
    PROVE  /\ Moves(Main) /\ UNCHANGED <<me, chainVars, base, budgetVars>>
           /\ row' \in [Keys -> RowValue] /\ fresh' \in BOOLEAN /\ high' \in RowValue
           /\ gaps' \in Seq(GapRow) /\ Len(gaps) <= Len(gaps')
           /\ pc'[Main] \in {"skip", "flush", "idle"} /\ gap'[Main] = 0
<1>1. /\ TypeOK /\ Main \in Procs /\ pc \in [Procs -> PC] /\ cur \in [Procs -> RowValue]
      /\ tgt \in [Procs -> Nat] /\ gaps \in Seq(GapRow) /\ gap[Main] = 0 /\ Len(gaps) \in Nat
      /\ row \in [Keys -> RowValue] /\ fresh \in BOOLEAN /\ high \in RowValue
  BY KeyFacts, LenProperties DEF TypeInv, TypeOK, ControlInv
<1>2. CASE RecordGap(Main)
  <2>1. cur[Main] + 1 \in Nat /\ tgt[Main] \in Nat
    BY <1>1, Numbers
  <2>2. gaps' \in Seq(GapRow) /\ Len(gaps') = Len(gaps) + 1
    BY <1>1, <1>2, <2>1, AddedRow DEF RecordGap
  <2>3. "skip" \in PC
    BY DEF PC
  <2>4. Moves(Main) /\ pc'[Main] = "skip"
    BY <1>1, <1>2, <2>3, GotoMoves DEF RecordGap
  <2> QED
    BY <1>1, <1>2, <2>2, <2>4 DEF RecordGap
<1>3. CASE SkipToLatest(Main)
  <2>1. "flush" \in PC /\ "idle" \in PC /\ tgt[Main] \in RowValue
    BY <1>1, Numbers DEF PC
  <2>2. /\ Leave(Main, "idle") \/ (Goto(Main, "flush") /\ UNCHANGED <<cur, tgt, gap, deferred>>)
        /\ UNCHANGED me
    BY <1>3, Zenon DEF SkipToLatest, Stay
  <2>3. Moves(Main) /\ pc'[Main] \in {"flush", "idle"} /\ gap'[Main] = 0
    BY <1>1, <2>1, <2>2, GotoMoves, LeaveMoves
  <2> QED
    BY <1>1, <1>3, <2>1, <2>3, SaveTypes DEF SkipToLatest
<1> QED
  BY <1>2, <1>3

LEMMA FailMoves ==
    ASSUME TypeInv, NEW p \in Procs, Fail(p)
    PROVE  /\ Moves(p) /\ faults' \in Nat
           /\ UNCHANGED <<head, scanned, booked, refreshed, tableVars, lives, owners, rewinds>>
           /\ dropped' = dropped \cup deferred[p] /\ deferred[p] \subseteq scanned
           /\ gap'[p] = 0 /\ pc'[p] \in {"idle", "down"} /\ (p = Main => pc'[p] = "idle")
           /\ \/ pc'[p] = "idle" /\ UNCHANGED me /\ pc[p] \notin {"down", "idle", "align"}
              \/ pc'[p] = "down" /\ me' = [me EXCEPT ![p] = NoOwner] /\ p # Main
<1>1. /\ TypeOK /\ faults \in Nat /\ lives \in [Procs -> Nat] /\ "idle" \in PC /\ "down" \in PC
      /\ deferred[p] \subseteq scanned
  BY DEF TypeInv, TypeOK, PC
<1>2. /\ UNCHANGED <<head, scanned, booked, refreshed, tableVars, lives, owners, rewinds>> /\ faults' \in Nat
      /\ dropped' = dropped \cup deferred[p]
  BY <1>1, LivesKept DEF Fail
<1>3. CASE pc[p] \notin {"idle", "align"} /\ Leave(p, "idle") /\ UNCHANGED me
  <2>1. pc[p] # "down"
    BY DEF Fail
  <2> QED
    BY <1>1, <1>2, <1>3, <2>1, LeaveMoves
<1>4. CASE p # Main /\ Leave(p, "down") /\ me' = [me EXCEPT ![p] = NoOwner]
  <2>1. NoOwner \in Ids'
    BY DEF Ids
  <2> QED
    BY <1>1, <1>2, <1>4, <2>1, LeaveMoves
<1> QED
  BY <1>3, <1>4, Zenon DEF Fail

\* A step of one process keeps the types when it keeps those of the tables.
LEMMA TypesKept ==
    ASSUME TypeInv, NEW p \in Procs, Moves(p), head' \in Nat,
           scanned \subseteq scanned', scanned' \subseteq Nat, Marks',
           row' \in [Keys -> RowValue], fresh' \in BOOLEAN, gaps' \in Seq(GapRow), Len(gaps) <= Len(gaps'),
           base' \in RowValue, high' \in RowValue,
           owners \subseteq owners', lives' \in [Procs -> Nat], faults' \in Nat, rewinds' \in Nat,
           p = Main => gap'[Main] = 0 /\ pc'[Main] \in MainPC,
           p # Main => (pc'[p] \in {"cas", "check", "reset"} => gap'[p] # 0)
    PROVE  TypeInv'
<1>1. TypeOK /\ ControlInv /\ Len(gaps') \in Nat
  BY LenProperties DEF TypeInv
<1>2. /\ pc' \in [Procs -> PC] /\ cur' \in [Procs -> RowValue] /\ tgt' \in [Procs -> Nat]
      /\ gap' \in [Procs -> 0 .. Len(gaps')] /\ deferred' \in [Procs -> SUBSET scanned']
      /\ me' \in [Procs -> Ids']
  BY <1>1, MovesTypes
<1>3. TypeOK'
  BY <1>2 DEF TypeOK, Marks, Ids
<1>4. \A q \in Procs : q # p => pc'[q] = pc[q] /\ gap'[q] = gap[q]
  BY <1>1, MovesApart
<1>5. ControlInv'
  <2>1. gap'[Main] = 0 /\ pc'[Main] \in MainPC
    BY <1>1, <1>4, KeyFacts DEF ControlInv
  <2>2. ASSUME NEW b \in Backups, pc'[b] \in {"cas", "check", "reset"} PROVE gap'[b] # 0
    BY <1>1, <1>4, <2>2, KeyFacts DEF ControlInv
  <2> QED
    BY <2>1, <2>2 DEF ControlInv
<1> QED
  BY <1>3, <1>5 DEF TypeInv

LEMMA TypeStep == TypeInv /\ [Next]_vars => TypeInv'
<1> SUFFICES ASSUME TypeInv, [Next]_vars PROVE TypeInv'
  OBVIOUS
<1>1. /\ TypeOK /\ ControlInv /\ head \in Nat /\ scanned \subseteq Nat /\ Marks
      /\ row \in [Keys -> RowValue] /\ fresh \in BOOLEAN /\ gaps \in Seq(GapRow) /\ Len(gaps) \in Nat
      /\ base \in RowValue /\ high \in RowValue /\ lives \in [Procs -> Nat] /\ faults \in Nat /\ rewinds \in Nat
      /\ gap[Main] = 0 /\ pc[Main] \in MainPC
  BY LenProperties DEF TypeInv, TypeOK, ControlInv, Marks
<1>2. CASE MainStep
  <2>1. CASE Step(Main)
    <3>1. /\ owners \subseteq owners' /\ lives' \in [Procs -> Nat] /\ faults' \in Nat /\ rewinds' \in Nat
      BY <1>1, <2>1, StepMoves, KeyFacts, LivesKept DEF budgetVars
    <3> QED
      BY <1>1, <2>1, <3>1, StepMoves, TypesKept, KeyFacts
  <2>2. CASE RecordGap(Main) \/ SkipToLatest(Main)
    <3>1. /\ Moves(Main) /\ head' \in Nat /\ scanned \subseteq scanned' /\ scanned' \subseteq Nat
          /\ Marks'
      BY <1>1, <2>2, SkipMoves DEF chainVars, Marks
    <3>2. /\ row' \in [Keys -> RowValue] /\ fresh' \in BOOLEAN /\ gaps' \in Seq(GapRow)
          /\ Len(gaps) <= Len(gaps') /\ base' \in RowValue /\ high' \in RowValue
      BY <1>1, <2>2, SkipMoves DEF tableVars
    <3>3. /\ owners \subseteq owners' /\ lives' \in [Procs -> Nat] /\ faults' \in Nat /\ rewinds' \in Nat
      BY <1>1, <2>2, SkipMoves, LivesKept DEF budgetVars
    <3>4. gap'[Main] = 0 /\ pc'[Main] \in MainPC
      BY <1>1, <2>2, SkipMoves DEF MainPC
    <3> QED
      BY <3>1, <3>2, <3>3, <3>4, TypesKept, KeyFacts
  <2> QED
    BY <1>2, <2>1, <2>2 DEF MainStep
<1>3. ASSUME NEW b \in Backups, BackupStep(b) PROVE TypeInv'
  <2>1. b \in Procs /\ b # Main
    BY KeyFacts
  <2>2. CASE Step(b)
    <3>1. /\ owners \subseteq owners' /\ lives' \in [Procs -> Nat] /\ faults' \in Nat /\ rewinds' \in Nat
      BY <1>1, <2>1, <2>2, StepMoves, LivesKept DEF budgetVars
    <3> QED
      BY <1>1, <2>1, <2>2, <3>1, StepMoves, TypesKept
  <2>3. CASE Start(b)
    <3>1. /\ Moves(b) /\ head' \in Nat /\ scanned \subseteq scanned' /\ scanned' \subseteq Nat
          /\ Marks'
      BY <1>1, <2>3, StartMoves DEF chainVars, Marks
    <3>2. /\ row' \in [Keys -> RowValue] /\ fresh' \in BOOLEAN /\ gaps' \in Seq(GapRow)
          /\ Len(gaps) <= Len(gaps') /\ base' \in RowValue /\ high' \in RowValue
      BY <1>1, <2>3, StartMoves DEF tableVars
    <3>3. /\ owners \subseteq owners' /\ lives' \in [Procs -> Nat] /\ faults' \in Nat /\ rewinds' \in Nat
      BY <1>1, <2>3, StartMoves, LivesKept DEF budgetVars
    <3>4. pc'[b] \in {"cas", "check", "reset"} => gap'[b] # 0
      BY <1>1, <2>3, StartMoves
    <3> QED
      BY <2>1, <3>1, <3>2, <3>3, <3>4, TypesKept, KeyFacts
  <2>4. CASE ResolverLooks(b)
    <3>1. /\ Moves(b) /\ head' \in Nat /\ scanned \subseteq scanned' /\ scanned' \subseteq Nat
          /\ Marks'
      BY <1>1, <2>4, LookMoves DEF chainVars, Marks
    <3>2. /\ row' \in [Keys -> RowValue] /\ fresh' \in BOOLEAN /\ gaps' \in Seq(GapRow)
          /\ Len(gaps) <= Len(gaps') /\ base' \in RowValue /\ high' \in RowValue
      BY <1>1, <2>4, LookMoves DEF tableVars
    <3>3. /\ owners \subseteq owners' /\ lives' \in [Procs -> Nat] /\ faults' \in Nat /\ rewinds' \in Nat
      BY <1>1, <2>4, LookMoves, LivesKept DEF budgetVars
    <3>4. pc'[b] \in {"cas", "check", "reset"} => gap'[b] # 0
      BY <1>1, <2>4, LookMoves
    <3> QED
      BY <2>1, <3>1, <3>2, <3>3, <3>4, TypesKept, KeyFacts
  <2>5. CASE ResolverWrites(b)
    <3>1. /\ Moves(b) /\ head' \in Nat /\ scanned \subseteq scanned' /\ scanned' \subseteq Nat
          /\ Marks'
      BY <1>1, <2>5, WriteMoves DEF chainVars, Marks
    <3>2. /\ row' \in [Keys -> RowValue] /\ fresh' \in BOOLEAN /\ gaps' \in Seq(GapRow)
          /\ Len(gaps) <= Len(gaps') /\ base' \in RowValue /\ high' \in RowValue
      BY <1>1, <2>5, WriteMoves DEF tableVars
    <3>3. /\ owners \subseteq owners' /\ lives' \in [Procs -> Nat] /\ faults' \in Nat /\ rewinds' \in Nat
      BY <1>1, <2>5, WriteMoves, LivesKept DEF budgetVars
    <3>4. pc'[b] \in {"cas", "check", "reset"} => gap'[b] # 0
      BY <1>1, <2>5, WriteMoves
    <3> QED
      BY <2>1, <3>1, <3>2, <3>3, <3>4, TypesKept, KeyFacts
  <2> QED
    BY <1>3, <2>2, <2>3, <2>4, <2>5 DEF BackupStep, ResolverLooks, ResolverWrites
<1>4. ASSUME NEW p \in Procs, Fail(p) PROVE TypeInv'
  <2>1. /\ Moves(p) /\ head' \in Nat /\ scanned \subseteq scanned' /\ scanned' \subseteq Nat
        /\ Marks'
    BY <1>1, <1>4, FailMoves DEF Marks
  <2>2. /\ row' \in [Keys -> RowValue] /\ fresh' \in BOOLEAN /\ gaps' \in Seq(GapRow)
        /\ Len(gaps) <= Len(gaps') /\ base' \in RowValue /\ high' \in RowValue
    BY <1>1, <1>4, FailMoves DEF tableVars
  <2>3. /\ owners \subseteq owners' /\ lives' \in [Procs -> Nat] /\ faults' \in Nat /\ rewinds' \in Nat
    BY <1>1, <1>4, FailMoves, LivesKept DEF budgetVars
  <2>4. gap'[p] = 0 /\ pc'[p] \notin {"cas", "check", "reset"} /\ (p = Main => pc'[p] \in MainPC)
    BY <1>1, <1>4, FailMoves DEF MainPC
  <2> QED
    BY <2>1, <2>2, <2>3, <2>4, TypesKept, KeyFacts
<1>5. CASE ChainGrows
  <2>1. head' \in Nat /\ UNCHANGED <<scanned, booked, refreshed, dropped, procVars, tableVars, budgetVars, owners>>
    BY <1>1, <1>5, LivesKept DEF ChainGrows, budgetVars
  <2> QED
    BY <1>1, <2>1 DEF TypeInv, TypeOK, ControlInv, Marks, procVars, tableVars, budgetVars
<1>6. CASE MainGoesStale
  <2>1. fresh' \in BOOLEAN /\ UNCHANGED <<row, gaps, base, high, chainVars, procVars, budgetVars, owners>>
    BY <1>6, LivesKept DEF MainGoesStale, budgetVars
  <2> QED
    BY <1>1, <2>1 DEF TypeInv, TypeOK, ControlInv, Marks, procVars, chainVars, budgetVars
<1>7. ASSUME NEW k \in Keys, OperatorRewinds(k) PROVE TypeInv'
  <2>1. PICK v \in base .. (row[k] - 1) : row' = [row EXCEPT ![k] = v]
    BY <1>7 DEF OperatorRewinds
  <2>2. base \in Nat /\ row[k] \in Int
    BY <1>1, <1>7, Numbers DEF OperatorRewinds
  <2>3. v \in RowValue
    BY <2>1, <2>2, Numbers
  <2>4. row' \in [Keys -> RowValue]
    BY <1>1, <2>1, <2>3
  <2>5. /\ UNCHANGED <<lives, owners, faults, gaps, base, high, chainVars, procVars>>
        /\ fresh' \in BOOLEAN /\ rewinds' \in Nat
    <3>1. fresh' = (fresh \/ k = Key[Main]) /\ rewinds' = rewinds + 1
      BY <1>7 DEF OperatorRewinds
    <3>2. fresh' \in BOOLEAN
      BY <1>1, <3>1, Zenon
    <3> QED
      BY <1>1, <1>7, <3>1, <3>2, LivesKept DEF OperatorRewinds
  <2> QED
    BY <1>1, <2>4, <2>5 DEF TypeInv, TypeOK, ControlInv, Marks, procVars, chainVars
<1>8. CASE UNCHANGED vars
  BY <1>1, <1>8, LivesKept DEF TypeInv, TypeOK, ControlInv, Marks, vars, procVars, chainVars, tableVars, budgetVars
<1> QED
  BY <1>2, <1>3, <1>4, <1>5, <1>6, <1>7, <1>8 DEF Next

LEMMA TypeAlways == Spec => []TypeInv
  BY TypeInit, TypeStep, PTL DEF Spec

(* Every variable keeps its type, for any number of backups, rewinds,      *)
(* failures and late deployments: a chosen gap is a row of the table, and  *)
(* what is still to be refreshed has been scanned (BSCScanner.scan).       *)
THEOREM TypeCorrect == Spec => []TypeOK
  BY TypeAlways, PTL DEF TypeInv

LEMMA Ranges ==
    ASSUME TypeInv
    PROVE  /\ high \in Int /\ -1 <= high /\ base \in Int /\ -1 <= base /\ scanned \subseteq Nat /\ lives \in [Procs -> Nat]
           /\ \A p \in Procs : /\ MyRow(p) \in Int /\ -1 <= MyRow(p) /\ cur[p] \in Int /\ -1 <= cur[p]
                               /\ tgt[p] \in Nat /\ pc[p] \in PC /\ me[p] \in Ids
                               /\ gap[p] # 0 => gap[p] \in DOMAIN gaps
           /\ \A i \in DOMAIN gaps : /\ i \in Nat /\ i # 0 /\ gaps[i].from \in Nat /\ gaps[i].to \in Nat
                                     /\ gaps[i].status \in Status /\ gaps[i].owner \in Owner
           /\ Main \in Procs /\ \A b \in Backups : b \in Procs /\ b # Main
<1>1. TypeOK /\ \A r \in RowValue : r \in Int /\ -1 <= r
  BY DEF TypeInv, RowValue, NoRow
<1>2. \A p \in Procs : MyRow(p) \in RowValue /\ cur[p] \in RowValue
  BY <1>1, KeyFacts DEF TypeOK, MyRow
<1>3. high \in RowValue /\ base \in RowValue /\ scanned \subseteq Nat /\ lives \in [Procs -> Nat]
  BY <1>1 DEF TypeOK
<1>4. \A p \in Procs : tgt[p] \in Nat /\ pc[p] \in PC /\ me[p] \in Ids
  BY <1>1 DEF TypeOK, Ids
<1>5. \A p \in Procs : gap[p] # 0 => gap[p] \in DOMAIN gaps
  BY <1>1, ChosenRow
<1>6. gaps \in Seq(GapRow)
  BY <1>1 DEF TypeOK
<1>7. \A i \in DOMAIN gaps : /\ i \in Nat /\ i # 0 /\ gaps[i].from \in Nat /\ gaps[i].to \in Nat
                             /\ gaps[i].status \in Status /\ gaps[i].owner \in Owner
  BY <1>6, RowFields
<1> QED
  BY <1>1, <1>2, <1>3, <1>4, <1>5, <1>7, KeyFacts

LEMMA NextHigh ==
    ASSUME TypeInv'
    PROVE  high' \in Int /\ -1 <= high'
  BY DEF TypeInv, TypeOK, RowValue, NoRow

-----------------------------------------------------------------------------
(* The lists.  What a process has put aside it refreshes, loses with a     *)
(* failed run, or still holds: no step takes a block out of this account.  *)

Holding == {"loop", "record", "skip", "scan", "save", "flush"}

\* A list is only held inside the loop, and on the skip out of it.
ListHeld(p) == deferred[p] # {} => pc[p] \in Holding

Lists == \A p \in Procs : ListHeld(p)

\* What a process can answer for: what is settled, and what it will refresh.
Settled == refreshed \cup dropped
Handled(p) == Settled \cup deferred[p]

Remembers == Settled \subseteq Settled' /\ \A q \in Procs : Handled(q) \subseteq Handled(q)'

\* What a step scans, somebody has on his list afterwards.
ScansListed == \A x \in scanned' : x \in scanned \/ \E p \in Procs : x \in deferred'[p]

\* A step that scans and refreshes nothing: where there is no list there is
\* nothing to lose, and a list that is there stays, in the loop.
Aside(p) ==
    /\ UNCHANGED <<scanned, refreshed, dropped>>
    /\ UNCHANGED deferred \/ deferred' = [deferred EXCEPT ![p] = {}]
    /\ \E l \in PC : /\ Goto(p, l)
                     /\ \/ pc[p] \notin Holding \/ deferred[p] = {}
                        \/ UNCHANGED deferred /\ l \in Holding

LEMMA AsideKeepsLists ==
    ASSUME TypeInv, Lists, NEW p \in Procs, Aside(p)
    PROVE  Lists' /\ Remembers /\ ScansListed /\ UNCHANGED deferred
<1>1. /\ pc \in [Procs -> PC] /\ deferred \in [Procs -> SUBSET scanned]
      /\ \A q \in Procs : ListHeld(q)
  BY DEF TypeInv, TypeOK, Lists
<1>2. PICK l \in PC : /\ Goto(p, l)
                      /\ \/ pc[p] \notin Holding \/ deferred[p] = {}
                         \/ UNCHANGED deferred /\ l \in Holding
  BY DEF Aside
<1>3. deferred' = deferred
  <2>1. CASE pc[p] \notin Holding \/ deferred[p] = {}
    <3>1. deferred[p] = {}
      BY <1>1, <2>1 DEF ListHeld
    <3>2. [deferred EXCEPT ![p] = {}] = deferred
      BY <1>1, <3>1
    <3> QED
      BY <3>2 DEF Aside
  <2> QED
    BY <1>2, <2>1
<1>4. pc'[p] = l /\ \A q \in Procs : q # p => pc'[q] = pc[q]
  BY <1>1, <1>2 DEF Goto
<1>5. ASSUME NEW q \in Procs PROVE ListHeld(q)'
  BY <1>1, <1>2, <1>3, <1>4 DEF ListHeld
<1> QED
  BY <1>3, <1>5 DEF Aside, Lists, Remembers, ScansListed, Handled, Settled

\* The steps inside the loop, and the ways out of it.
LEMMA LoopAside ==
    ASSUME TypeInv, NEW p \in Procs,
           Loop(p) \/ SaveCursor(p) \/ (p = Main /\ (RecordGap(p) \/ SkipToLatest(p)))
    PROVE  Aside(p)
<1>1. UNCHANGED <<scanned, refreshed, dropped>>
  BY DEF Loop, SaveCursor, RecordGap, SkipToLatest, Stay, chainVars
<1>2. CASE deferred[p] = {} /\ Leave(p, "idle")
  <2>1. Goto(p, "idle") /\ "idle" \in PC /\ deferred' = [deferred EXCEPT ![p] = {}]
    BY <1>2 DEF Leave, PC
  <2> QED
    BY <1>1, <1>2, <2>1 DEF Aside
<1>3. CASE UNCHANGED deferred /\ \E l \in {"flush", "record", "scan", "loop", "skip"} : Goto(p, l)
  <2>1. PICK l \in {"flush", "record", "scan", "loop", "skip"} : Goto(p, l)
    BY <1>3
  <2>2. l \in PC /\ l \in Holding
    BY DEF PC, Holding
  <2> QED
    BY <1>1, <1>3, <2>1, <2>2 DEF Aside
<1>4. SkipToLatest(p) => (deferred[p] = {} /\ Leave(p, "idle")) \/ (UNCHANGED deferred /\ Goto(p, "flush"))
  BY DEF SkipToLatest, Stay
<1> QED
  BY <1>2, <1>3, <1>4 DEF Loop, SaveCursor, RecordGap, Stay

\* Everything else but scans, refreshes and failures.
LEMMA RestAside ==
    ASSUME TypeInv, NEW p \in Procs,
           \/ LoadCursor(p) \/ LoadHeight(p) \/ InitCursor(p) \/ Decide(p)
           \/ Start(p) \/ Align(p) \/ ResolverLooks(p) \/ ResolverWrites(p)
    PROVE  Aside(p)
<1>1. CASE LoadCursor(p) \/ LoadHeight(p) \/ InitCursor(p) \/ Decide(p)
  <2>1. UNCHANGED <<scanned, refreshed, dropped>> /\ pc[p] \notin Holding
    BY <1>1 DEF LoadCursor, LoadHeight, InitCursor, Decide, chainVars, Holding
  <2>2. UNCHANGED deferred \/ deferred' = [deferred EXCEPT ![p] = {}]
    BY <1>1 DEF LoadCursor, LoadHeight, InitCursor, Decide, Leave, Stay
  <2>3. \E l \in PC : Goto(p, l)
    BY <1>1 DEF LoadCursor, LoadHeight, InitCursor, Decide, Leave, PC
  <2> QED
    BY <2>1, <2>2, <2>3 DEF Aside
<1>2. CASE Start(p) \/ Align(p) \/ ResolverLooks(p) \/ ResolverWrites(p)
  <2>1. UNCHANGED <<scanned, refreshed, dropped>> /\ pc[p] \notin Holding
    BY <1>2 DEF Start, Align, ResolverLooks, FindOwned, SelectPending, EnterGap, CheckOpen, CheckMain,
                ResolverWrites, ResetCursor, Claim, FinishGap, chainVars, Holding
  <2>2. UNCHANGED deferred \/ deferred' = [deferred EXCEPT ![p] = {}]
    BY <1>2 DEF Start, Align, ResolverLooks, FindOwned, SelectPending, EnterGap, CheckOpen, CheckMain,
                ResolverWrites, ResetCursor, Claim, FinishGap, Leave, Stay
  <2>3. \E l \in PC : Goto(p, l)
    BY <1>2 DEF Start, Align, ResolverLooks, FindOwned, SelectPending, EnterGap, CheckOpen, CheckMain,
                ResolverWrites, ResetCursor, Claim, FinishGap, Leave, PC
  <2> QED
    BY <2>1, <2>2, <2>3 DEF Aside
<1> QED
  BY <1>1, <1>2

LEMMA ScanKeepsLists ==
    ASSUME TypeInv, Lists, NEW p \in Procs, ScanBlock(p)
    PROVE  Lists' /\ Remembers /\ ScansListed /\ cur[p] + 1 \in Handled(p)'
<1>1. /\ pc \in [Procs -> PC] /\ deferred \in [Procs -> SUBSET scanned]
      /\ \A q \in Procs : ListHeld(q)
  BY DEF TypeInv, TypeOK, Lists
<1>2. /\ scanned' = scanned \cup {cur[p] + 1} /\ UNCHANGED <<refreshed, dropped>>
      /\ pc'[p] = "save" /\ \A q \in Procs : q # p => pc'[q] = pc[q]
      /\ deferred'[p] = deferred[p] \cup {cur[p] + 1}
      /\ \A q \in Procs : q # p => deferred'[q] = deferred[q]
  BY <1>1 DEF ScanBlock, Goto
<1>3. \A q \in Procs : ListHeld(q)'
  BY <1>1, <1>2 DEF ListHeld, Holding
<1> QED
  BY <1>2, <1>3 DEF Lists, Remembers, ScansListed, Handled, Settled

LEMMA FlushKeepsLists ==
    ASSUME TypeInv, Lists, NEW p \in Procs, Flush(p)
    PROVE  Lists' /\ Remembers /\ ScansListed
<1>1. /\ pc \in [Procs -> PC] /\ deferred \in [Procs -> SUBSET scanned]
      /\ \A q \in Procs : ListHeld(q)
  BY DEF TypeInv, TypeOK, Lists
<1>2. /\ refreshed' = refreshed \cup deferred[p] /\ UNCHANGED <<scanned, dropped>>
      /\ deferred'[p] = {} /\ \A q \in Procs : q # p => deferred'[q] = deferred[q] /\ pc'[q] = pc[q]
  BY <1>1 DEF Flush, RefreshDeferred, Leave, Goto
<1>3. \A q \in Procs : ListHeld(q)'
  BY <1>1, <1>2 DEF ListHeld
<1> QED
  BY <1>2, <1>3 DEF Lists, Remembers, ScansListed, Handled, Settled

\* A failed run loses its list, and that is on the account too.
LEMMA FailKeepsLists ==
    ASSUME TypeInv, Lists, NEW p \in Procs, Fail(p)
    PROVE  Lists' /\ Remembers /\ ScansListed
<1>1. /\ pc \in [Procs -> PC] /\ deferred \in [Procs -> SUBSET scanned]
      /\ \A q \in Procs : ListHeld(q)
  BY DEF TypeInv, TypeOK, Lists
<1>2. PICK l \in {"idle", "down"} : Leave(p, l)
  BY DEF Fail
<1>3. /\ deferred'[p] = {} /\ \A q \in Procs : q # p => deferred'[q] = deferred[q] /\ pc'[q] = pc[q]
      /\ dropped' = dropped \cup deferred[p] /\ UNCHANGED <<scanned, refreshed>>
  BY <1>1, <1>2 DEF Leave, Goto, Fail
<1>4. \A q \in Procs : ListHeld(q)'
  BY <1>1, <1>3 DEF ListHeld
<1> QED
  BY <1>3, <1>4 DEF Lists, Remembers, ScansListed, Handled, Settled

LEMMA ListStep ==
    ASSUME TypeInv, Lists, [Next]_vars
    PROVE  Lists' /\ Remembers /\ ScansListed
<1> DEFINE Kept == Lists' /\ Remembers /\ ScansListed
<1>1. ASSUME NEW p \in Procs, Step(p) PROVE Kept
  <2>1. CASE ScanBlock(p) \/ Flush(p)
    BY <2>1, ScanKeepsLists, FlushKeepsLists
  <2>2. CASE Loop(p) \/ SaveCursor(p)
    BY <2>2, LoopAside, AsideKeepsLists
  <2>3. CASE LoadCursor(p) \/ LoadHeight(p) \/ InitCursor(p) \/ Decide(p)
    BY <2>3, RestAside, AsideKeepsLists
  <2> QED
    BY <1>1, <2>1, <2>2, <2>3 DEF Step
<1>2. CASE MainStep
  <2>1. CASE RecordGap(Main) \/ SkipToLatest(Main)
    BY <2>1, LoopAside, AsideKeepsLists, KeyFacts
  <2> QED
    BY <1>1, <1>2, <2>1, KeyFacts DEF MainStep
<1>3. ASSUME NEW b \in Backups, BackupStep(b) PROVE Kept
  <2>1. b \in Procs
    BY KeyFacts
  <2>2. CASE Step(b)
    BY <1>1, <2>1, <2>2
  <2>3. CASE Start(b) \/ Align(b) \/ ResolverLooks(b) \/ ResolverWrites(b)
    BY <2>1, <2>3, RestAside, AsideKeepsLists
  <2> QED
    BY <1>3, <2>2, <2>3 DEF BackupStep, ResolverLooks, ResolverWrites
<1>4. CASE \E p \in Procs : Fail(p)
  BY <1>4, FailKeepsLists
<1>5. CASE ChainGrows \/ MainGoesStale \/ (\E k \in Keys : OperatorRewinds(k)) \/ UNCHANGED vars
  <2>1. UNCHANGED <<scanned, refreshed, dropped, pc, deferred>>
    BY <1>5 DEF ChainGrows, MainGoesStale, OperatorRewinds, vars, chainVars, procVars
  <2> QED
    BY <2>1 DEF Lists, ListHeld, Remembers, ScansListed, Handled, Settled
<1> QED
  BY <1>2, <1>3, <1>4, <1>5 DEF Next

LEMMA RefreshInit == Init => Lists /\ RefreshNotForgotten
  BY DEF Init, Lists, ListHeld, RefreshNotForgotten

LEMMA RefreshStep == TypeInv /\ Lists /\ RefreshNotForgotten /\ [Next]_vars => RefreshNotForgotten'
<1> SUFFICES ASSUME TypeInv, Lists, RefreshNotForgotten, [Next]_vars, NEW x \in scanned'
             PROVE  x \in Settled' \/ \E q \in Procs : x \in deferred'[q]
  BY DEF RefreshNotForgotten, Listed, Settled
<1>1. Remembers /\ (x \in scanned \/ \E q \in Procs : x \in deferred'[q])
  BY ListStep DEF ScansListed
<1>2. ASSUME x \in scanned PROVE \E q \in Procs : x \in Handled(q)
  BY <1>2, KeyFacts DEF RefreshNotForgotten, Listed, Handled, Settled
<1>3. ASSUME x \in scanned PROVE \E q \in Procs : x \in Handled(q)'
  BY <1>1, <1>2, <1>3 DEF Remembers
<1> QED
  BY <1>1, <1>3 DEF Handled

(* No way out of the loop forgets the addresses a process has put aside    *)
(* (deferredRefresh), the main scanner's skip in mid-loop included: they   *)
(* are refreshed, stand on a list, or were lost with a run that failed.    *)
THEOREM NoRefreshForgotten == Spec => []RefreshNotForgotten
<1>1. Init => Lists /\ RefreshNotForgotten
  BY RefreshInit
<1>2. TypeInv /\ Lists /\ RefreshNotForgotten /\ [Next]_vars => (Lists /\ RefreshNotForgotten)'
  BY ListStep, RefreshStep
<1> QED
  BY <1>1, <1>2, TypeAlways, PTL DEF Spec

-----------------------------------------------------------------------------
(* Claims.  Owners are never used twice, so a row that says "repairing"    *)
(* names one process at most, and only that process marks it done.         *)

Owned(i, b) == gaps[i].status = "repairing" /\ gaps[i].owner = me[b]

UpHaveOwner == \A b \in Backups : me[b] = NoOwner <=> pc[b] = "down"
OwnersUnique == \A b, c \in Backups : me[b] = me[c] /\ me[b] # NoOwner => b = c
OwnersKnown ==
    \A i \in DOMAIN gaps : /\ gaps[i].owner \in Ids
                           /\ gaps[i].status = "repairing" => gaps[i].owner # NoOwner
ClaimsHeld == \A b \in Backups : Working(b) => Owned(gap[b], b)

OwnerInv == UpHaveOwner /\ OwnersUnique /\ OwnersKnown /\ ClaimsHeld

LEMMA OwnerInit == Init => OwnerInv
  BY KeyFacts DEF Init, OwnerInv, UpHaveOwner, OwnersUnique, OwnersKnown, ClaimsHeld, Working

\* A step of a process that leaves rows and owners alone.
LEMMA OwnerLocal ==
    ASSUME TypeInv, OwnerInv, NEW p \in Procs, Moves(p), UNCHANGED <<gaps, me, owners, Ids>>,
           pc[p] = "down" <=> pc'[p] = "down",
           p \in Backups => (gap'[p] # 0 /\ pc'[p] # "cas" => Owned(gap'[p], p))
    PROVE  OwnerInv'
<1>1. \A q \in Procs : q # p => pc'[q] = pc[q] /\ gap'[q] = gap[q]
  BY MovesApart DEF TypeInv
<1>2. \A b \in Backups : b \in Procs
  BY KeyFacts
<1>3. UpHaveOwner'
  BY <1>1, <1>2, Zenon DEF OwnerInv, UpHaveOwner
<1>4. ClaimsHeld'
  BY <1>1, <1>2, Zenon DEF OwnerInv, ClaimsHeld, Working, Owned
<1>5. OwnersUnique' /\ OwnersKnown'
  BY Zenon DEF OwnerInv, OwnersUnique, OwnersKnown
<1> QED
  BY <1>3, <1>4, <1>5 DEF OwnerInv

\* A step of a process that changes a row, none of them to an unknown owner.
LEMMA OwnerRows ==
    ASSUME TypeInv, OwnerInv, NEW p \in Procs, Moves(p), UNCHANGED <<me, owners, Ids>>,
           pc[p] = "down" <=> pc'[p] = "down",
           OwnersKnown',
           \A b \in Backups : b # p /\ Working(b) => gap[b] \in DOMAIN gaps /\ gaps'[gap[b]] = gaps[gap[b]],
           p \in Backups => (gap'[p] # 0 /\ pc'[p] # "cas" =>
               gaps'[gap'[p]].status = "repairing" /\ gaps'[gap'[p]].owner = me[p])
    PROVE  OwnerInv'
<1>1. \A q \in Procs : q # p => pc'[q] = pc[q] /\ gap'[q] = gap[q]
  BY MovesApart DEF TypeInv
<1>2. \A b \in Backups : b \in Procs
  BY KeyFacts
<1>3. UpHaveOwner'
  BY <1>1, <1>2, Zenon DEF OwnerInv, UpHaveOwner
<1>4. ASSUME NEW b \in Backups, gap'[b] # 0, pc'[b] # "cas"
      PROVE  gaps'[gap'[b]].status = "repairing" /\ gaps'[gap'[b]].owner = me'[b]
  <2>1. CASE b = p
    BY <1>4, <2>1
  <2>2. CASE b # p
    <3>1. gap'[b] = gap[b] /\ Working(b)
      BY <1>1, <1>2, <1>4, <2>2 DEF Working
    <3> QED
      BY <2>2, <3>1 DEF OwnerInv, ClaimsHeld, Owned
  <2> QED
    BY <2>1, <2>2
<1>5. ClaimsHeld'
  BY <1>4 DEF ClaimsHeld, Working, Owned
<1>6. OwnersUnique'
  BY Zenon DEF OwnerInv, OwnersUnique
<1> QED
  BY <1>3, <1>5, <1>6 DEF OwnerInv

\* Two processes at work are at different rows.
LEMMA WorkApart ==
    ASSUME OwnerInv, NEW b \in Backups, NEW c \in Backups, b # c, Working(b), Working(c), pc[b] # "down"
    PROVE  gap[b] # gap[c]
<1>1. Owned(gap[b], b) /\ Owned(gap[c], c) /\ me[b] # NoOwner
  BY DEF OwnerInv, ClaimsHeld, UpHaveOwner
<1> QED
  BY <1>1 DEF OwnerInv, OwnersUnique, Owned

\* What a claim and a mark do to the rows.
LEMMA ClaimRows ==
    ASSUME TypeInv, NEW b \in Backups, Claim(b), Claimable(gap[b])
    PROVE  /\ gap[b] \in DOMAIN gaps /\ DOMAIN gaps' = DOMAIN gaps /\ pc[b] = "cas"
           /\ \A j \in DOMAIN gaps : /\ gaps'[j].from = gaps[j].from /\ gaps'[j].to = gaps[j].to
                                     /\ j # gap[b] => gaps'[j] = gaps[j]
           /\ gaps'[gap[b]].status = "repairing" /\ gaps'[gap[b]].owner = me[b]
<1>1. /\ TypeOK /\ b \in Procs /\ gaps \in Seq(GapRow) /\ pc[b] = "cas"
      /\ me[b] \in Ids /\ lives \in [Procs -> Nat]
  BY KeyFacts DEF TypeInv, TypeOK, Claim, Ids
<1>2. gap[b] \in DOMAIN gaps
  BY <1>1, ChosenRow DEF TypeInv, ControlInv
<1>3. PICK i \in DOMAIN gaps : i = gap[b]
  BY <1>2
<1>4. PICK o \in Owner : o = me[b]
  BY <1>1, OwnerFacts
<1>5. gaps' = Marked(i, "repairing", o)
  BY <1>3, <1>4, Zenon DEF Claim, Marked
<1>6. "repairing" \in Status
  BY DEF Status
<1>7. /\ DOMAIN gaps' = DOMAIN gaps
      /\ \A j \in DOMAIN gaps : /\ gaps'[j].from = gaps[j].from /\ gaps'[j].to = gaps[j].to
                                /\ j # i => gaps'[j] = gaps[j]
      /\ gaps'[i].status = "repairing" /\ gaps'[i].owner = o
  BY <1>1, <1>5, <1>6, ChangedRow
<1> QED
  BY <1>1, <1>2, <1>3, <1>4, <1>7

LEMMA FinishRows ==
    ASSUME TypeInv, NEW b \in Backups, FinishGap(b)
    PROVE  /\ gap[b] \in DOMAIN gaps /\ gap[b] # 0 /\ DOMAIN gaps' = DOMAIN gaps /\ pc[b] = "check"
           /\ \A j \in DOMAIN gaps : /\ gaps'[j].from = gaps[j].from /\ gaps'[j].to = gaps[j].to
                                     /\ j # gap[b] => gaps'[j] = gaps[j]
           /\ gaps'[gap[b]].status = "done" /\ gaps'[gap[b]].owner = NoOwner
<1>1. TypeOK /\ b \in Procs /\ gaps \in Seq(GapRow) /\ pc[b] = "check" /\ gap[b] # 0
  BY KeyFacts DEF TypeInv, TypeOK, FinishGap, ControlInv
<1>2. gap[b] \in DOMAIN gaps
  BY <1>1, ChosenRow
<1>3. PICK i \in DOMAIN gaps : i = gap[b]
  BY <1>2
<1>4. gaps' = Marked(i, "done", NoOwner)
  BY <1>3, Zenon DEF FinishGap, MarkDone, Marked
<1>5. "done" \in Status /\ NoOwner \in Owner
  BY OwnerFacts DEF Status
<1>6. /\ DOMAIN gaps' = DOMAIN gaps
      /\ \A j \in DOMAIN gaps : /\ gaps'[j].from = gaps[j].from /\ gaps'[j].to = gaps[j].to
                                /\ j # i => gaps'[j] = gaps[j]
      /\ gaps'[i].status = "done" /\ gaps'[i].owner = NoOwner
  BY <1>1, <1>4, <1>5, ChangedRow
<1> QED
  BY <1>1, <1>2, <1>3, <1>5, <1>6

LEMMA OwnerStepOf ==
    ASSUME TypeInv, OwnerInv, NEW b \in Backups, BackupStep(b)
    PROVE  OwnerInv'
<1>1. /\ TypeOK /\ b \in Procs /\ b # Main /\ gaps \in Seq(GapRow) /\ lives \in [Procs -> Nat]
      /\ me \in [Procs -> Ids] /\ gap \in [Procs -> 0 .. Len(gaps)] /\ pc \in [Procs -> PC]
      /\ \A c \in Backups : c \in Procs
  BY KeyFacts DEF TypeInv, TypeOK, Ids
<1>2. CASE Step(b)
  <2>1. pc[b] \notin {"cas", "down"}
    BY <1>2 DEF Step, LoadCursor, LoadHeight, InitCursor, Decide, Loop, ScanBlock, SaveCursor, Flush
  <2>2. /\ Moves(b) /\ UNCHANGED <<gaps, owners, Ids>> /\ pc'[b] \notin {"cas", "down"}
        /\ gap'[b] \in {0, gap[b]}
    BY <1>1, <1>2, StepMoves, LivesKept DEF budgetVars
  <2>3. UNCHANGED me
    BY <1>2, Zenon DEF Step, LoadCursor, LoadHeight, InitCursor, Decide, Loop, ScanBlock, SaveCursor, Flush
  <2>4. gap'[b] # 0 => Owned(gap'[b], b)
    BY <2>1, <2>2 DEF OwnerInv, ClaimsHeld, Working
  <2> QED
    BY <1>1, <2>1, <2>2, <2>3, <2>4, OwnerLocal
<1>3. CASE Start(b)
  <2>1. /\ Moves(b) /\ owners \subseteq owners' /\ me'[b] \notin Ids /\ UNCHANGED <<gap, gaps>>
        /\ pc'[b] # "down" /\ pc[b] = "down"
    BY <1>3, StartMoves DEF tableVars, Start, Ids
  <2>2. \A q \in Procs : q # b => pc'[q] = pc[q] /\ gap'[q] = gap[q] /\ me'[q] = me[q]
    BY <1>1, <2>1, MovesApart
  <2>3. UpHaveOwner'
    BY <1>1, <2>1, <2>2, OwnerFacts DEF OwnerInv, UpHaveOwner
  <2>4. NoOwner \in Ids /\ \A q \in Procs : me[q] \in Ids
    BY <1>1, OwnerFacts
  <2>5. OwnersUnique'
    BY <1>1, <2>1, <2>2, <2>4 DEF OwnerInv, OwnersUnique
  <2>7. OwnersKnown'
    BY <1>1, <2>1 DEF OwnerInv, OwnersKnown, Ids
  <2>8. gap[b] = 0
    <3>1. me[b] = NoOwner
      BY <2>1 DEF OwnerInv, UpHaveOwner
    <3>2. SUFFICES ASSUME gap[b] # 0 PROVE FALSE
      OBVIOUS
    <3>3. Owned(gap[b], b) /\ gap[b] \in DOMAIN gaps
      BY <1>1, <2>1, <3>2, ChosenRow DEF OwnerInv, ClaimsHeld, Working
    <3> QED
      BY <3>1, <3>3 DEF OwnerInv, OwnersKnown, Owned
  <2>9. ClaimsHeld'
    BY <1>1, <2>1, <2>2, <2>8 DEF OwnerInv, ClaimsHeld, Working, Owned
  <2> QED
    BY <2>3, <2>5, <2>7, <2>9 DEF OwnerInv
<1>4. CASE ResolverLooks(b)
  <2>1. Moves(b) /\ UNCHANGED <<me, gaps, owners, Ids>>
    BY <1>4, LookMoves, LivesKept DEF tableVars, budgetVars
  <2>2. pc[b] # "down" /\ pc[b] # "cas"
    BY <1>4 DEF ResolverLooks, FindOwned, SelectPending, EnterGap, CheckOpen, CheckMain
  <2>3. pc'[b] # "down" /\ (gap'[b] # 0 /\ pc'[b] # "cas" => Owned(gap'[b], b))
    <3>1. CASE UNCHANGED gap /\ \E l \in {"claim", "any", "reset", "decide", "main"} : Goto(b, l)
      BY <1>1, <2>2, <3>1 DEF Goto, OwnerInv, ClaimsHeld, Working
    <3>2. CASE Leave(b, "idle")
      BY <1>1, <3>2 DEF Leave, Goto
    <3>3. CASE \E i \in DOMAIN gaps : IsFirst(i, "repairing", me[b]) /\ gap' = [gap EXCEPT ![b] = i] /\ Goto(b, "check")
      BY <1>1, <3>3 DEF Goto, IsFirst, Owned
    <3>4. CASE Goto(b, "cas")
      BY <1>1, <3>4 DEF Goto
    <3> QED
      BY <1>4, <3>1, <3>2, <3>3, <3>4, Zenon DEF ResolverLooks, FindOwned, SelectPending, EnterGap,
         CheckOpen, CheckMain, Stay
  <2> QED
    BY <1>1, <2>1, <2>2, <2>3, OwnerLocal
<1>5. CASE Align(b) \/ ResetCursor(b)
  <2>1. Moves(b) /\ UNCHANGED <<me, gaps, owners, Ids>>
    BY <1>5, WriteMoves, LivesKept DEF ResolverWrites, budgetVars, Align, ResetCursor
  <2>2. pc[b] \in {"align", "reset"} /\ pc'[b] \in {"idle", "decide"}
    BY <1>1, <1>5 DEF Align, ResetCursor, Leave, Goto
  <2>3. gap'[b] # 0 => gap'[b] = gap[b]
    BY <1>1, <1>5 DEF Align, ResetCursor, Leave
  <2>4. gap'[b] # 0 => Owned(gap'[b], b)
    BY <2>2, <2>3 DEF OwnerInv, ClaimsHeld, Working
  <2> QED
    BY <1>1, <2>1, <2>2, <2>4, OwnerLocal
<1>6. CASE Claim(b)
  <2>1. Moves(b) /\ UNCHANGED <<me, owners, Ids>> /\ pc[b] = "cas" /\ gap[b] \in DOMAIN gaps
    BY <1>1, <1>6, WriteMoves, ChosenRow, LivesKept DEF ResolverWrites, budgetVars, Claim, TypeInv, ControlInv
  <2>2. CASE ~Claimable(gap[b])
    <3>1. UNCHANGED gaps /\ gap'[b] = 0 /\ pc'[b] = "claim"
      BY <1>1, <1>6, <2>2 DEF Claim, Goto
    <3> QED
      BY <1>1, <2>1, <3>1, OwnerLocal
  <2>3. CASE Claimable(gap[b])
    <3>1. pc'[b] = "check" /\ gap'[b] = gap[b]
      BY <1>1, <1>6, <2>3 DEF Claim, Goto
    <3>2. me[b] # NoOwner /\ me[b] \in Ids /\ "repairing" \in Status
      BY <1>1, <2>1 DEF OwnerInv, UpHaveOwner, Status
    <3>3. /\ DOMAIN gaps' = DOMAIN gaps /\ \A j \in DOMAIN gaps : j # gap[b] => gaps'[j] = gaps[j]
          /\ gaps'[gap[b]].status = "repairing" /\ gaps'[gap[b]].owner = me[b]
      BY <1>6, <2>3, ClaimRows
    <3>4. ASSUME NEW c \in Backups, c # b, Working(c)
          PROVE  gap[c] \in DOMAIN gaps /\ gaps'[gap[c]] = gaps[gap[c]]
      <4>1. gap[c] \in DOMAIN gaps
        BY <1>1, <3>4, ChosenRow DEF Working
      <4>2. gaps[gap[c]].status = "repairing" /\ gaps[gap[b]].status = "pending"
        BY <2>3, <3>4 DEF OwnerInv, ClaimsHeld, Owned, Claimable
      <4>3. gap[c] # gap[b]
        BY <4>2
      <4> QED
        BY <3>3, <4>1, <4>3
    <3>5. ASSUME NEW i \in DOMAIN gaps
          PROVE  gaps'[i].owner \in Ids' /\ (gaps'[i].status = "repairing" => gaps'[i].owner # NoOwner)
      <4>1. CASE i = gap[b]
        BY <2>1, <3>2, <3>3, <4>1
      <4>2. CASE i # gap[b]
        BY <2>1, <3>3, <4>2 DEF OwnerInv, OwnersKnown
      <4> QED
        BY <4>1, <4>2
    <3>6. OwnersKnown'
      BY <3>3, <3>5 DEF OwnersKnown
    <3> QED
      BY <1>1, <2>1, <3>1, <3>3, <3>4, <3>6, OwnerRows
  <2> QED
    BY <2>2, <2>3
<1>7. CASE FinishGap(b)
  <2>1. Moves(b) /\ UNCHANGED <<me, owners, Ids>> /\ pc[b] = "check" /\ gap[b] \in DOMAIN gaps /\ gap[b] # 0
    BY <1>1, <1>7, WriteMoves, ChosenRow, LivesKept DEF ResolverWrites, budgetVars, FinishGap, TypeInv, ControlInv
  <2>2. pc'[b] = "owned" /\ gap'[b] = 0
    BY <1>1, <1>7 DEF FinishGap, Goto
  <2>4. /\ DOMAIN gaps' = DOMAIN gaps /\ \A j \in DOMAIN gaps : j # gap[b] => gaps'[j] = gaps[j]
        /\ gaps'[gap[b]].status = "done" /\ gaps'[gap[b]].owner = NoOwner
    BY <1>7, FinishRows
  <2>5. ASSUME NEW c \in Backups, c # b, Working(c)
        PROVE  gap[c] \in DOMAIN gaps /\ gaps'[gap[c]] = gaps[gap[c]]
    <3>1. gap[c] \in DOMAIN gaps
      BY <1>1, <2>5, ChosenRow DEF Working
    <3>2. gap[c] # gap[b]
      BY <2>1, <2>5, WorkApart DEF Working
    <3> QED
      BY <2>4, <3>1, <3>2
  <2>6. OwnersKnown'
    <3>1. ASSUME NEW i \in DOMAIN gaps
          PROVE  gaps'[i].owner \in Ids' /\ (gaps'[i].status = "repairing" => gaps'[i].owner # NoOwner)
      <4>1. CASE i = gap[b]
        BY <1>1, <2>1, <2>4, <4>1, OwnerFacts DEF Ids
      <4>2. CASE i # gap[b]
        BY <2>1, <2>4, <4>2 DEF OwnerInv, OwnersKnown
      <4> QED
        BY <4>1, <4>2
    <3> QED
      BY <2>4, <3>1 DEF OwnersKnown
  <2> QED
    BY <1>1, <2>1, <2>2, <2>5, <2>6, OwnerRows
<1> QED
  BY <1>2, <1>3, <1>4, <1>5, <1>6, <1>7 DEF BackupStep, ResolverLooks

LEMMA OwnerMain ==
    ASSUME TypeInv, OwnerInv, MainStep
    PROVE  OwnerInv'
<1>1. /\ TypeOK /\ Main \in Procs /\ Main \notin Backups /\ gaps \in Seq(GapRow) /\ pc[Main] \in MainPC
      /\ cur \in [Procs -> RowValue] /\ tgt \in [Procs -> Nat] /\ lives \in [Procs -> Nat]
  BY KeyFacts, ConstantsOK DEF TypeInv, TypeOK, ControlInv
<1>2. CASE Step(Main)
  <2>1. Moves(Main) /\ UNCHANGED <<gaps, owners, Ids>> /\ pc'[Main] # "down"
    BY <1>1, <1>2, StepMoves, LivesKept DEF budgetVars
  <2>2. UNCHANGED me
    BY <1>2, Zenon DEF Step, LoadCursor, LoadHeight, InitCursor, Decide, Loop, ScanBlock, SaveCursor, Flush
  <2> QED
    BY <1>1, <2>1, <2>2, OwnerLocal DEF MainPC
<1>3. CASE SkipToLatest(Main)
  <2>1. Moves(Main) /\ UNCHANGED <<gaps, me, owners, Ids>> /\ pc'[Main] # "down"
    BY <1>1, <1>3, SkipMoves, LivesKept DEF budgetVars, SkipToLatest, MainPC
  <2> QED
    BY <1>1, <2>1, OwnerLocal DEF MainPC
<1>4. CASE RecordGap(Main)
  <2>1. Moves(Main) /\ UNCHANGED <<me, owners, Ids>> /\ pc'[Main] # "down"
    BY <1>1, <1>4, SkipMoves, LivesKept DEF budgetVars, RecordGap, MainPC
  <2>2. cur[Main] + 1 \in Nat /\ tgt[Main] \in Nat
    BY <1>1, Numbers
  <2>3. /\ DOMAIN gaps' = DOMAIN gaps \cup {Len(gaps) + 1} /\ Len(gaps) + 1 \notin DOMAIN gaps
        /\ \A j \in DOMAIN gaps : gaps'[j] = gaps[j]
        /\ gaps'[Len(gaps) + 1] = [from |-> cur[Main] + 1, to |-> tgt[Main], status |-> "pending", owner |-> NoOwner]
    <3>1. CreateSyncGap(cur[Main] + 1, tgt[Main])
      BY <1>4 DEF RecordGap
    <3> QED
      BY <1>1, <2>2, <3>1, AddedRow
  <2>4. ASSUME NEW b \in Backups, Working(b)
        PROVE  gap[b] \in DOMAIN gaps /\ gaps'[gap[b]] = gaps[gap[b]]
    <3>1. gap[b] \in DOMAIN gaps
      BY <1>1, <2>4, ChosenRow, KeyFacts DEF Working
    <3> QED
      BY <2>3, <3>1
  <2>5. OwnersKnown'
    <3>1. ASSUME NEW i \in DOMAIN gaps'
          PROVE  gaps'[i].owner \in Ids' /\ (gaps'[i].status = "repairing" => gaps'[i].owner # NoOwner)
      <4>1. CASE i = Len(gaps) + 1
        <5>1. gaps'[i].owner = NoOwner /\ gaps'[i].status = "pending"
          BY <2>3, <4>1
        <5> QED
          BY <1>1, <2>1, <5>1, OwnerFacts
      <4>2. CASE i \in DOMAIN gaps
        BY <2>1, <2>3, <4>2 DEF OwnerInv, OwnersKnown
      <4> QED
        BY <2>3, <4>1, <4>2
    <3> QED
      BY <3>1 DEF OwnersKnown
  <2> QED
    BY <1>1, <2>1, <2>4, <2>5, OwnerRows DEF MainPC
<1> QED
  BY <1>2, <1>3, <1>4 DEF MainStep

LEMMA OwnerFail ==
    ASSUME TypeInv, OwnerInv, NEW p \in Procs, Fail(p)
    PROVE  OwnerInv'
<1>1. /\ TypeOK /\ me \in [Procs -> Ids] /\ pc \in [Procs -> PC] /\ gap \in [Procs -> 0 .. Len(gaps)]
      /\ \A b \in Backups : b \in Procs /\ b # Main
  BY KeyFacts DEF TypeInv, TypeOK, Ids
<1>2. Moves(p) /\ UNCHANGED <<gaps, owners, Ids>> /\ pc[p] # "down"
  BY <1>1, FailMoves, LivesKept DEF tableVars, Fail
<1>3. CASE Leave(p, "idle") /\ UNCHANGED me
  <2>1. pc'[p] = "idle" /\ gap'[p] = 0
    BY <1>1, <1>3 DEF Leave, Goto
  <2> QED
    BY <1>2, <1>3, <2>1, OwnerLocal
<1>4. CASE p # Main /\ Leave(p, "down") /\ me' = [me EXCEPT ![p] = NoOwner]
  <2>1. pc'[p] = "down" /\ gap'[p] = 0 /\ me'[p] = NoOwner
    BY <1>1, <1>4 DEF Leave, Goto
  <2>2. \A q \in Procs : q # p => pc'[q] = pc[q] /\ gap'[q] = gap[q] /\ me'[q] = me[q]
    BY <1>1, <1>2, <1>4, MovesApart
  <2>3. UpHaveOwner'
    BY <1>1, <2>1, <2>2 DEF OwnerInv, UpHaveOwner
  <2>4. OwnersUnique'
    BY <1>1, <2>1, <2>2 DEF OwnerInv, OwnersUnique
  <2>5. OwnersKnown'
    BY <1>2 DEF OwnerInv, OwnersKnown
  <2>6. ClaimsHeld'
    BY <1>1, <1>2, <2>1, <2>2 DEF OwnerInv, ClaimsHeld, Working, Owned
  <2> QED
    BY <2>3, <2>4, <2>5, <2>6 DEF OwnerInv
<1> QED
  BY <1>3, <1>4 DEF Fail

LEMMA OwnerStep == TypeInv /\ OwnerInv /\ [Next]_vars => OwnerInv'
<1> SUFFICES ASSUME TypeInv, OwnerInv, [Next]_vars PROVE OwnerInv'
  OBVIOUS
<1>1. CASE UNCHANGED <<gaps, me, owners, Ids, pc, gap>>
  BY <1>1 DEF OwnerInv, UpHaveOwner, OwnersUnique, OwnersKnown, ClaimsHeld, Working, Owned
<1>2. ASSUME ChainGrows \/ MainGoesStale \/ (\E k \in Keys : OperatorRewinds(k)) \/ UNCHANGED vars
      PROVE  UNCHANGED <<gaps, me, owners, Ids, pc, gap>>
  BY <1>2, LivesKept DEF ChainGrows, MainGoesStale, OperatorRewinds, vars, procVars, tableVars, budgetVars
<1> QED
  BY <1>1, <1>2, OwnerMain, OwnerStepOf, OwnerFail DEF Next

LEMMA OwnerAlways == Spec => [](TypeInv /\ OwnerInv)
<1>1. Init => TypeInv /\ OwnerInv
  BY TypeInit, OwnerInit
<1>2. TypeInv /\ OwnerInv /\ [Next]_vars => (TypeInv /\ OwnerInv)'
  BY TypeStep, OwnerStep
<1> QED
  BY <1>1, <1>2, PTL DEF Spec

(* A claim is exclusive for any number of backups, crashes and restarts:   *)
(* while a process works on a gap the row names it and nobody else works   *)
(* on the same gap (ClaimNextPendingSyncGap and its conditional update).   *)
THEOREM OneRepairer == Spec => []ClaimsExclusive
<1>1. TypeInv /\ OwnerInv => ClaimsExclusive
  <2> SUFFICES ASSUME TypeInv, OwnerInv, NEW b \in Backups, Working(b)
               PROVE  /\ gaps[gap[b]].status = "repairing" /\ gaps[gap[b]].owner = me[b]
                      /\ \A c \in Backups \ {b} : Working(c) => gap[c] # gap[b]
    BY DEF ClaimsExclusive
  <2>1. Owned(gap[b], b)
    BY DEF OwnerInv, ClaimsHeld
  <2>2. me[b] # NoOwner
    <3>1. gap[b] \in DOMAIN gaps
      BY ChosenRow, KeyFacts DEF TypeInv, Working
    <3> QED
      BY <2>1, <3>1 DEF OwnerInv, OwnersKnown, Owned
  <2>3. pc[b] # "down"
    BY <2>2 DEF OwnerInv, UpHaveOwner
  <2>4. ASSUME NEW c \in Backups \ {b}, Working(c) PROVE gap[c] # gap[b]
    BY <2>3, <2>4, WorkApart
  <2> QED
    BY <2>1, <2>4 DEF Owned
<1> QED
  BY <1>1, OwnerAlways, PTL

-----------------------------------------------------------------------------
(* Nothing is lost, when every backup is aligned before the first skip,    *)
(* has a sync key of its own, and nobody lowers a cursor by hand.          *)

Careful ==
    /\ ~LateDeploy /\ MaxRewinds = 0
    /\ \A b, c \in Backups : Key[b] = Key[c] => b = c

Pending(i) == gaps[i].status = "pending"

\* For the row's blocks up to c process b answers: their addresses are settled or
\* stand on its own list.
CleanUpTo(i, b, c) == \A x \in Nat : Covers(i, x) /\ x <= c => x \in Handled(b)

\* The main scanner's cursor is the highest there ever was, and what it has
\* established on its way through scan().
AtCursor == {"decide", "record", "skip", "loop", "scan", "save"}

MainRow == MyRow(Main) = high /\ base <= high /\ (base = NoRow <=> high = NoRow)
MainCursor ==
    /\ pc[Main] \in AtCursor \cup {"height"} => cur[Main] = high
    /\ pc[Main] \in AtCursor => high # NoRow
    /\ pc[Main] = "init" => high = NoRow
MainScanned == pc[Main] = "save" => high + 1 \in Handled(Main)
MainSkips ==
    /\ pc[Main] \in {"record", "skip"} => high < tgt[Main]
    /\ pc[Main] = "skip" => \E i \in DOMAIN gaps : gaps[i].from = high + 1 /\ gaps[i].to = tgt[Main]

MainInv == MainRow /\ MainCursor /\ MainScanned /\ MainSkips

\* Gap rows start below the main cursor; backups work from below: nothing is
\* claimed above a row that is still to be claimed.
GapBounds(i) == 0 < gaps[i].from /\ gaps[i].from <= high + 1
GapDone(i) == gaps[i].status = "done" => \A x \in Nat : Covers(i, x) => x \in Settled
GapPending(i) ==
    Pending(i) => gaps[i].owner = NoOwner /\ \A b \in Backups : CleanUpTo(i, b, MyRow(b))
GapOrder(i) == ~Pending(i) => \A j \in DOMAIN gaps : Pending(j) => gaps[i].from <= gaps[j].from

GapInv(i) == GapBounds(i) /\ GapDone(i) /\ GapPending(i) /\ GapOrder(i)

\* A backup's cursor: for what lies between the main one and its own it answers.
BackupRow(b) ==
    /\ MyRow(b) # NoRow => high # NoRow
    /\ \A x \in Nat : high < x /\ x <= MyRow(b) => x \in Handled(b)
BackupUp(b) == pc[b] \notin {"down", "align"} => MyRow(b) # NoRow
BackupAligns(b) ==
    pc[b] = "align" =>
        /\ MyRow(b) = NoRow /\ cur[b] # NoRow /\ cur[b] <= high
        /\ \A i \in DOMAIN gaps : cur[b] < gaps[i].from
BackupScans(b) ==
    /\ pc[b] = "height" => cur[b] # NoRow
    /\ pc[b] # "init"
    /\ pc[b] \in {"scan", "save"} => cur[b] = MyRow(b)
    /\ pc[b] = "save" => cur[b] + 1 \in Handled(b)

\* Its claims: clean below its cursor, no claim while it looks for one, and
\* the row it works on is the lowest of its own.
BackupClean(b) == \A i \in DOMAIN gaps : Owned(i, b) => CleanUpTo(i, b, MyRow(b))
BackupFree(b) == pc[b] \in {"claim", "cas"} => \A i \in DOMAIN gaps : ~Owned(i, b)
LowestPending(b) == pc[b] = "cas" => \A j \in DOMAIN gaps : Pending(j) => gaps[gap[b]].from <= gaps[j].from
LowestOwned(b) == Working(b) => \A j \in DOMAIN gaps : Owned(j, b) => gaps[gap[b]].from <= gaps[j].from

BackupInv(b) ==
    /\ BackupRow(b) /\ BackupUp(b) /\ BackupAligns(b) /\ BackupScans(b)
    /\ BackupClean(b) /\ BackupFree(b) /\ LowestPending(b) /\ LowestOwned(b)

IInv ==
    /\ TypeInv /\ OwnerInv /\ Lists /\ MainInv
    /\ \A i \in DOMAIN gaps : GapInv(i)
    /\ \A b \in Backups : BackupInv(b)
    /\ NoRefreshLost

LEMMA SafeInit == Init => Lists /\ MainInv /\ (\A i \in DOMAIN gaps : GapInv(i)) /\ (\A b \in Backups : BackupInv(b)) /\ NoRefreshLost
<1> SUFFICES ASSUME Init
             PROVE  Lists /\ MainInv /\ (\A i \in DOMAIN gaps : GapInv(i)) /\ (\A b \in Backups : BackupInv(b)) /\ NoRefreshLost
  OBVIOUS
<1>1. gaps = <<>> /\ base = NoRow /\ high = NoRow /\ DOMAIN gaps = {}
  BY DEF Init
<1>2. \A p \in Procs : MyRow(p) = NoRow /\ gap[p] = 0
  BY KeyFacts DEF Init, MyRow
<1>3. pc[Main] = "idle" /\ \A b \in Backups : b \in Procs /\ pc[b] = "down"
  BY KeyFacts DEF Init
<1>4. MainInv
  BY <1>1, <1>2, <1>3, KeyFacts DEF MainInv, MainRow, MainCursor, MainScanned, MainSkips, AtCursor, NoRow
<1>5. ASSUME NEW b \in Backups PROVE BackupInv(b)
  <2>1. BackupRow(b)
    BY <1>1, <1>2, <1>3 DEF BackupRow, NoRow
  <2>2. BackupUp(b) /\ BackupAligns(b) /\ BackupScans(b) /\ BackupFree(b) /\ LowestPending(b)
    BY <1>3 DEF BackupUp, BackupAligns, BackupScans, BackupFree, LowestPending
  <2>3. BackupClean(b) /\ LowestOwned(b)
    BY <1>1 DEF BackupClean, LowestOwned
  <2> QED
    BY <2>1, <2>2, <2>3 DEF BackupInv
<1> QED
  BY <1>1, <1>4, <1>5, RefreshInit DEF NoRefreshLost

\* Nobody's answers are forgotten, nor the rows that are left alone.
LEMMA HandledAnswered == \A p \in Procs : \A x \in Handled(p) : Answered(x)
  BY DEF Handled, Settled, Answered, Listed

LEMMA AnswerKept ==
    ASSUME Remembers, NEW x, Answered(x), DOMAIN gaps \subseteq DOMAIN gaps',
           \A j \in DOMAIN gaps : gaps'[j] = gaps[j]
    PROVE  Answered(x)'
<1>1. CASE \E i \in DOMAIN gaps : Open(i) /\ Covers(i, x)
  BY <1>1 DEF Answered, Open, Covers
<1>2. CASE \E p \in Procs : x \in Handled(p)
  <2>1. \E p \in Procs : x \in Handled(p)'
    BY <1>2 DEF Remembers
  <2> QED
    BY <2>1 DEF Answered, Listed, Handled, Settled
<1> QED
  BY <1>1, <1>2, KeyFacts DEF Answered, Listed, Handled, Settled

\* What a step leaves alone stays true: the rows.
LEMMA GapsStable ==
    ASSUME TypeInv, TypeInv', \A i \in DOMAIN gaps : GapInv(i), UNCHANGED gaps, Remembers,
           high <= high',
           \A i \in DOMAIN gaps : \A b \in Backups : Pending(i) => CleanUpTo(i, b, MyRow(b))'
    PROVE  (\A i \in DOMAIN gaps : GapInv(i))'
<1> SUFFICES ASSUME NEW i \in DOMAIN gaps PROVE GapInv(i)'
  OBVIOUS
<1>1. GapBounds(i) /\ GapDone(i) /\ GapPending(i) /\ GapOrder(i)
  BY DEF GapInv
<1>2. GapBounds(i)'
  <2>1. high \in Int /\ high' \in Int /\ gaps[i].from \in Nat
    BY Ranges, NextHigh
  <2> QED
    BY <1>1, <2>1 DEF GapBounds
<1>3. GapDone(i)'
  BY <1>1 DEF GapDone, Covers, Remembers
<1>4. GapPending(i)'
  BY <1>1 DEF GapPending, Pending
<1>5. GapOrder(i)'
  BY <1>1 DEF GapOrder, Pending
<1> QED
  BY <1>2, <1>3, <1>4, <1>5 DEF GapInv

\* In particular when no backup's cursor moves.
LEMMA GapsQuiet ==
    ASSUME TypeInv, TypeInv', \A i \in DOMAIN gaps : GapInv(i), UNCHANGED gaps, Remembers,
           high <= high', \A b \in Backups : MyRow(b)' = MyRow(b)
    PROVE  (\A i \in DOMAIN gaps : GapInv(i))'
<1>1. ASSUME NEW i \in DOMAIN gaps, NEW b \in Backups, Pending(i) PROVE CleanUpTo(i, b, MyRow(b))'
  <2>1. CleanUpTo(i, b, MyRow(b)) /\ MyRow(b)' = MyRow(b)
    BY <1>1 DEF GapInv, GapPending
  <2> QED
    BY <2>1, KeyFacts DEF CleanUpTo, Covers, Remembers
<1> QED
  BY <1>1, GapsStable

\* A backup that does not move, beside steps that change rows: rows are not
\* moved, new ones are pending and start at the main cursor, none becomes its
\* own or pending.
LEMMA BackupStable ==
    ASSUME TypeInv, TypeInv', NEW c \in Backups, BackupInv(c), \A i \in DOMAIN gaps : GapInv(i),
           pc'[c] = pc[c], cur'[c] = cur[c], gap'[c] = gap[c], MyRow(c)' = MyRow(c),
           Remembers, high <= high', DOMAIN gaps \subseteq DOMAIN gaps',
           \A j \in DOMAIN gaps : /\ gaps'[j].from = gaps[j].from /\ gaps'[j].to = gaps[j].to
                                  /\ Owned(j, c)' => Owned(j, c)
                                  /\ Pending(j)' => Pending(j),
           \A j \in DOMAIN gaps' \ DOMAIN gaps : gaps'[j].from = high + 1 /\ ~Owned(j, c)'
    PROVE  BackupInv(c)'
<1>0. /\ c \in Procs /\ high \in Int /\ -1 <= high /\ high' \in Int /\ MyRow(c) \in Int /\ -1 <= MyRow(c) /\ cur[c] \in Int
      /\ gap[c] # 0 => gap[c] \in DOMAIN gaps
      /\ \A i \in DOMAIN gaps : gaps[i].from \in Nat /\ gaps[i].to \in Nat
  BY Ranges, NextHigh
<1>1. /\ BackupRow(c) /\ BackupUp(c) /\ BackupAligns(c) /\ BackupScans(c)
      /\ BackupClean(c) /\ BackupFree(c) /\ LowestPending(c) /\ LowestOwned(c)
  BY DEF BackupInv
<1>2. BackupRow(c)'
  BY <1>0, <1>1 DEF BackupRow, NoRow, Remembers
<1>3. BackupUp(c)'
  BY <1>1 DEF BackupUp
<1>4. BackupAligns(c)'
  BY <1>0, <1>1 DEF BackupAligns
<1>5. BackupScans(c)'
  BY <1>0, <1>1 DEF BackupScans, Remembers
<1>6. BackupClean(c)'
  <2> SUFFICES ASSUME NEW i \in DOMAIN gaps', Owned(i, c)' PROVE CleanUpTo(i, c, MyRow(c))'
    BY DEF BackupClean
  <2>1. i \in DOMAIN gaps /\ CleanUpTo(i, c, MyRow(c))
    BY <1>1 DEF BackupClean
  <2> QED
    BY <1>0, <2>1 DEF CleanUpTo, Covers, Remembers
<1>7. BackupFree(c)'
  BY <1>1 DEF BackupFree
<1>8. LowestPending(c)'
  <2> SUFFICES ASSUME pc[c] = "cas", NEW j \in DOMAIN gaps', Pending(j)'
               PROVE  gaps'[gap[c]].from <= gaps'[j].from
    BY DEF LowestPending
  <2>1. gap[c] \in DOMAIN gaps
    BY <1>0 DEF TypeInv, ControlInv
  <2>2. CASE j \in DOMAIN gaps
    BY <1>1, <2>1, <2>2 DEF LowestPending
  <2>3. CASE j \notin DOMAIN gaps
    BY <1>0, <2>1, <2>3 DEF GapInv, GapBounds
  <2> QED
    BY <2>2, <2>3
<1>9. LowestOwned(c)'
  <2> SUFFICES ASSUME gap[c] # 0, pc[c] # "cas", NEW j \in DOMAIN gaps', Owned(j, c)'
               PROVE  gaps'[gap[c]].from <= gaps'[j].from
    BY DEF LowestOwned, Working
  <2>1. j \in DOMAIN gaps /\ gap[c] \in DOMAIN gaps
    BY <1>0
  <2> QED
    BY <1>1, <2>1 DEF LowestOwned, Working
<1> QED
  BY <1>2, <1>3, <1>4, <1>5, <1>6, <1>7, <1>8, <1>9 DEF BackupInv

\* In particular when no row changes.
LEMMA BackupQuiet ==
    ASSUME TypeInv, TypeInv', NEW c \in Backups, BackupInv(c), \A i \in DOMAIN gaps : GapInv(i),
           pc'[c] = pc[c], cur'[c] = cur[c], gap'[c] = gap[c], me'[c] = me[c], MyRow(c)' = MyRow(c),
           Remembers, high <= high', UNCHANGED gaps
    PROVE  BackupInv(c)'
<1>1. \A j \in DOMAIN gaps : (Owned(j, c)' => Owned(j, c)) /\ (Pending(j)' => Pending(j))
  BY DEF Owned, Pending
<1> QED
  BY <1>1, BackupStable

LEMMA LossQuiet ==
    ASSUME NoRefreshLost, UNCHANGED <<base, high>>, Remembers, DOMAIN gaps \subseteq DOMAIN gaps',
           \A j \in DOMAIN gaps : gaps'[j] = gaps[j]
    PROVE  NoRefreshLost'
<1> SUFFICES ASSUME base # NoRow, NEW x \in Between(base, high) PROVE Answered(x)'
  BY DEF NoRefreshLost, Between
<1>1. Answered(x)
  BY DEF NoRefreshLost
<1> QED
  BY <1>1, AnswerKept

LEMMA MainQuiet ==
    ASSUME TypeInv, MainInv, UNCHANGED <<gaps, base, high>>, MyRow(Main)' = MyRow(Main),
           pc'[Main] = pc[Main], cur'[Main] = cur[Main], tgt'[Main] = tgt[Main], Remembers
    PROVE  MainInv'
<1>1. MainRow' /\ MainCursor'
  BY DEF MainInv, MainRow, MainCursor
<1>2. MainScanned' /\ MainSkips'
  BY KeyFacts DEF MainInv, MainScanned, MainSkips, Remembers
<1> QED
  BY <1>1, <1>2 DEF MainInv

\* A backup's step that changes no table: it has only itself to answer for.
LEMMA OwnStep ==
    ASSUME IInv, TypeInv', OwnerInv', Lists', Remembers, NEW b \in Backups, Moves(b),
           UNCHANGED <<row, gaps, base, high>>, BackupInv(b)'
    PROVE  IInv'
<1>1. /\ TypeInv /\ MainInv /\ (\A i \in DOMAIN gaps : GapInv(i)) /\ NoRefreshLost
      /\ \A c \in Backups : BackupInv(c)
  BY DEF IInv
<1>2. b \in Procs /\ \A q \in Procs : q # b =>
         /\ pc'[q] = pc[q] /\ cur'[q] = cur[q] /\ tgt'[q] = tgt[q]
         /\ gap'[q] = gap[q] /\ me'[q] = me[q]
  BY <1>1, MovesApart, KeyFacts DEF TypeInv
<1>3. \A p \in Procs : MyRow(p)' = MyRow(p)
  BY DEF MyRow
<1>4. high <= high'
  BY <1>1, Ranges
<1>5. MainInv'
  BY <1>1, <1>2, <1>3, MainQuiet, KeyFacts
<1>6. (\A i \in DOMAIN gaps : GapInv(i))'
  BY <1>1, <1>3, <1>4, GapsQuiet, KeyFacts
<1>7. ASSUME NEW c \in Backups, c # b PROVE BackupInv(c)'
  BY <1>1, <1>2, <1>3, <1>4, <1>7, BackupQuiet, KeyFacts
<1>8. NoRefreshLost'
  BY <1>1, LossQuiet
<1> QED
  BY <1>5, <1>6, <1>7, <1>8 DEF IInv

\* A step of the main scanner that changes no table.
LEMMA MainStepQuiet ==
    ASSUME IInv, TypeInv', OwnerInv', Lists', Remembers, Moves(Main),
           UNCHANGED <<row, gaps, base, high, me>>, MainInv'
    PROVE  IInv'
<1>1. /\ TypeInv /\ (\A i \in DOMAIN gaps : GapInv(i)) /\ NoRefreshLost
      /\ \A c \in Backups : BackupInv(c)
  BY DEF IInv
<1>2. \A c \in Backups : pc'[c] = pc[c] /\ cur'[c] = cur[c] /\ gap'[c] = gap[c] /\ me'[c] = me[c]
  BY <1>1, MovesApart, KeyFacts DEF TypeInv
<1>3. \A p \in Procs : MyRow(p)' = MyRow(p)
  BY DEF MyRow
<1>4. high <= high'
  BY <1>1, Ranges
<1>5. (\A i \in DOMAIN gaps : GapInv(i))'
  BY <1>1, <1>3, <1>4, GapsQuiet, KeyFacts
<1>6. ASSUME NEW c \in Backups PROVE BackupInv(c)'
  BY <1>1, <1>2, <1>3, <1>4, BackupQuiet, KeyFacts
<1>7. NoRefreshLost'
  BY <1>1, LossQuiet
<1> QED
  BY <1>5, <1>6, <1>7 DEF IInv

\* What a backup keeps of itself in a step that changes no table.
LEMMA SelfKept ==
    ASSUME TypeInv, NEW b \in Backups, BackupInv(b), UNCHANGED <<row, gaps, high>>,
           Remembers, me'[b] = me[b]
    PROVE  /\ BackupRow(b)' /\ BackupClean(b)' /\ MyRow(b)' = MyRow(b)
           /\ \A i \in DOMAIN gaps : Owned(i, b)' <=> Owned(i, b)
<1>1. BackupRow(b) /\ BackupClean(b)
  BY DEF BackupInv
<1>2. MyRow(b)' = MyRow(b)
  BY DEF MyRow
<1>3. BackupRow(b)'
  BY <1>1, <1>2, KeyFacts DEF BackupRow, Remembers
<1>4. \A i \in DOMAIN gaps : Owned(i, b)' <=> Owned(i, b)
  BY DEF Owned
<1>5. BackupClean(b)'
  BY <1>1, <1>2, <1>4, KeyFacts DEF BackupClean, CleanUpTo, Covers, Remembers
<1> QED
  BY <1>2, <1>3, <1>4, <1>5

\* Most of its steps only go to where nothing new is asked.
LEMMA PlainStep ==
    ASSUME IInv, TypeInv', OwnerInv', Lists', Remembers, NEW b \in Backups, Moves(b),
           UNCHANGED <<row, gaps, base, high>>, me'[b] = me[b],
           pc[b] \notin {"down", "align"},
           pc'[b] \in {"idle", "owned", "any", "main", "reset", "decide", "loop", "flush"},
           gap'[b] = 0 \/ (gap'[b] = gap[b] /\ pc[b] # "cas")
    PROVE  IInv'
<1>1. TypeInv /\ BackupInv(b)
  BY DEF IInv
<1>2. /\ BackupRow(b)' /\ BackupClean(b)' /\ MyRow(b)' = MyRow(b)
      /\ \A i \in DOMAIN gaps : Owned(i, b)' <=> Owned(i, b)
  BY <1>1, SelfKept
<1>3. BackupUp(b)'
  BY <1>1, <1>2 DEF BackupInv, BackupUp
<1>4. BackupAligns(b)' /\ BackupScans(b)' /\ BackupFree(b)' /\ LowestPending(b)'
  BY DEF BackupAligns, BackupScans, BackupFree, LowestPending
<1>5. LowestOwned(b)'
  BY <1>1, <1>2 DEF BackupInv, LowestOwned, Working
<1>6. BackupInv(b)'
  BY <1>2, <1>3, <1>4, <1>5 DEF BackupInv
<1> QED
  BY <1>6, OwnStep

\* The first half of ClaimNextPendingSyncGap and GetRepairingSyncGapByOwner.
LEMMA LookSafe ==
    ASSUME IInv, TypeInv', OwnerInv', Lists', Remembers, NEW b \in Backups, ResolverLooks(b)
    PROVE  IInv'
<1>1. /\ TypeInv /\ TypeOK /\ BackupInv(b) /\ b \in Procs /\ \A i \in DOMAIN gaps : GapInv(i)
      /\ gap \in [Procs -> 0 .. Len(gaps)] /\ pc \in [Procs -> PC]
  BY KeyFacts DEF IInv, TypeInv, TypeOK
<1>2. /\ Moves(b) /\ UNCHANGED <<row, gaps, base, high>> /\ me'[b] = me[b]
      /\ pc[b] \notin {"down", "align", "cas"}
  <2>1. Moves(b) /\ UNCHANGED <<me, chainVars, tableVars, budgetVars>>
    BY <1>1, LookMoves
  <2>2. pc[b] \notin {"down", "align", "cas"}
    BY DEF ResolverLooks, FindOwned, SelectPending, EnterGap, CheckOpen, CheckMain
  <2> QED
    BY <2>1, <2>2 DEF chainVars, tableVars
<1>3. CASE \/ UNCHANGED gap /\ \E l \in {"any", "reset", "decide", "main"} : Goto(b, l)
           \/ Leave(b, "idle")
  <2>1. /\ pc'[b] \in {"any", "reset", "decide", "main", "idle"}
        /\ gap'[b] = 0 \/ gap'[b] = gap[b]
    BY <1>1, <1>3 DEF Leave, Goto
  <2> QED
    BY <1>2, <2>1, PlainStep
<1>4. /\ BackupRow(b)' /\ BackupClean(b)' /\ MyRow(b)' = MyRow(b)
      /\ \A i \in DOMAIN gaps : Owned(i, b)' <=> Owned(i, b)
  BY <1>1, <1>2, SelfKept
<1>5. BackupUp(b)'
  BY <1>1, <1>2, <1>4 DEF BackupInv, BackupUp
<1>6. ASSUME NEW i \in DOMAIN gaps, IsFirst(i, "repairing", me[b]),
             gap' = [gap EXCEPT ![b] = i], Goto(b, "check")
      PROVE  IInv'
  <2>1. pc'[b] = "check" /\ gap'[b] = i
    BY <1>1, <1>6 DEF Goto
  <2>2. BackupAligns(b)' /\ BackupScans(b)' /\ BackupFree(b)' /\ LowestPending(b)'
    BY <2>1 DEF BackupAligns, BackupScans, BackupFree, LowestPending
  <2>3. ASSUME NEW j \in DOMAIN gaps, Owned(j, b) PROVE gaps[i].from <= gaps[j].from
    <3>1. gaps[i].from \in Nat /\ gaps[j].from \in Nat
      BY <1>1, Ranges
    <3> QED
      BY <1>6, <2>3, <3>1 DEF IsFirst, Owned
  <2>4. LowestOwned(b)'
    BY <1>2, <1>4, <2>1, <2>3 DEF LowestOwned
  <2> QED
    BY <1>2, <1>4, <1>5, <2>2, <2>4, OwnStep DEF BackupInv
<1>7. CASE None("repairing", me[b]) /\ Goto(b, "claim") /\ UNCHANGED gap
  <2>1. pc'[b] = "claim"
    BY <1>1, <1>7 DEF Goto
  <2>2. \A i \in DOMAIN gaps : ~Owned(i, b)
    BY <1>7 DEF None, Owned
  <2>3. BackupAligns(b)' /\ BackupScans(b)' /\ LowestPending(b)'
    BY <2>1 DEF BackupAligns, BackupScans, LowestPending
  <2>4. BackupFree(b)' /\ LowestOwned(b)'
    BY <1>2, <1>4, <2>2 DEF BackupFree, LowestOwned
  <2> QED
    BY <1>2, <1>4, <1>5, <2>3, <2>4, OwnStep DEF BackupInv
<1>8. ASSUME NEW i \in DOMAIN gaps, IsFirst(i, "pending", NoOwner),
             gap' = [gap EXCEPT ![b] = i], Goto(b, "cas"), pc[b] = "claim"
      PROVE  IInv'
  <2>1. pc'[b] = "cas" /\ gap'[b] = i
    BY <1>1, <1>8 DEF Goto
  <2>2. \A j \in DOMAIN gaps : ~Owned(j, b)
    BY <1>1, <1>8 DEF BackupInv, BackupFree
  <2>3. BackupAligns(b)' /\ BackupScans(b)'
    BY <2>1 DEF BackupAligns, BackupScans
  <2>4. BackupFree(b)' /\ LowestOwned(b)'
    BY <1>2, <1>4, <2>2 DEF BackupFree, LowestOwned
  <2>5. ASSUME NEW j \in DOMAIN gaps, Pending(j) PROVE gaps[i].from <= gaps[j].from
    <3>1. gaps[i].from \in Nat /\ gaps[j].from \in Nat
      BY <1>1, Ranges
    <3>2. gaps[j].owner = NoOwner
      BY <1>1, <2>5 DEF GapInv, GapPending
    <3> QED
      BY <1>8, <2>5, <3>1, <3>2 DEF IsFirst, Pending
  <2>6. LowestPending(b)'
    BY <1>2, <2>1, <2>5 DEF LowestPending, Pending
  <2> QED
    BY <1>2, <1>4, <1>5, <2>3, <2>4, <2>6, OwnStep DEF BackupInv
<1>9. CASE FindOwned(b)
  BY <1>6, <1>7, <1>9, Zenon DEF FindOwned
<1>10. CASE SelectPending(b)
  BY <1>3, <1>8, <1>10, Zenon DEF SelectPending
<1>11. CASE EnterGap(b) \/ CheckOpen(b) \/ CheckMain(b)
  BY <1>3, <1>11, Zenon DEF EnterGap, CheckOpen, CheckMain, Stay
<1> QED
  BY <1>9, <1>10, <1>11 DEF ResolverLooks

\* The scan of a backup, but for the save of its cursor.
LEMMA ScanSafe ==
    ASSUME IInv, TypeInv', OwnerInv', Lists', Remembers, NEW b \in Backups, Step(b), ~SaveCursor(b)
    PROVE  IInv'
<1>1. /\ TypeInv /\ TypeOK /\ BackupInv(b) /\ b \in Procs /\ b # Main /\ cur \in [Procs -> RowValue]
      /\ gap \in [Procs -> 0 .. Len(gaps)] /\ pc \in [Procs -> PC]
      /\ BackupUp(b) /\ BackupScans(b) /\ LowestOwned(b)
  BY KeyFacts DEF IInv, TypeInv, TypeOK, BackupInv
<1>2. /\ Moves(b) /\ UNCHANGED gaps
      /\ pc'[b] \in PC \ {"down", "align", "claim", "cas", "check", "reset", "any", "main", "skip"}
  BY <1>1, StepMoves
<1>3. me'[b] = me[b] /\ pc[b] \notin {"down", "align", "cas"}
  BY Zenon DEF Step, LoadCursor, LoadHeight, InitCursor, Decide, Loop, ScanBlock, SaveCursor, Flush
<1>4. ~InitCursor(b)
  BY <1>1 DEF BackupScans, InitCursor
<1>5. UNCHANGED <<row, base, high>>
  BY <1>4, Zenon DEF Step, LoadCursor, LoadHeight, Decide, Loop, ScanBlock, Flush, tableVars
<1>6. /\ BackupRow(b)' /\ BackupClean(b)' /\ MyRow(b)' = MyRow(b) /\ BackupUp(b)'
      /\ \A i \in DOMAIN gaps : Owned(i, b)' <=> Owned(i, b)
  BY <1>1, <1>2, <1>3, <1>5, SelfKept DEF BackupUp
<1>7. ASSUME pc'[b] \in {"height", "scan", "save"}, gap'[b] = gap[b], BackupScans(b)' PROVE IInv'
  <2>1. BackupAligns(b)' /\ BackupFree(b)' /\ LowestPending(b)'
    BY <1>7 DEF BackupAligns, BackupFree, LowestPending
  <2>2. LowestOwned(b)'
    BY <1>1, <1>2, <1>3, <1>6, <1>7 DEF LowestOwned, Working
  <2> QED
    BY <1>2, <1>5, <1>6, <1>7, <2>1, <2>2, OwnStep DEF BackupInv
<1>8. CASE LoadCursor(b)
  <2>1. pc[b] = "idle" /\ pc'[b] = "height" /\ cur'[b] = MyRow(b) /\ gap'[b] = gap[b]
    BY <1>1, <1>8 DEF LoadCursor, Goto
  <2>2. BackupScans(b)'
    BY <1>1, <2>1 DEF BackupScans, BackupUp
  <2> QED
    BY <1>7, <2>1, <2>2
<1>9. CASE LoadHeight(b)
  <2>1. pc'[b] = "owned" /\ gap'[b] = gap[b]
    BY <1>1, <1>9 DEF LoadHeight, Goto, BackupScans
  <2> QED
    BY <1>2, <1>3, <1>5, <2>1, PlainStep
<1>10. CASE Decide(b)
  <2>1. pc'[b] \in {"idle", "loop"} /\ (gap'[b] = 0 \/ gap'[b] = gap[b])
    BY <1>1, <1>10 DEF Decide, Goto, Leave, Stay, SkipAhead
  <2> QED
    BY <1>2, <1>3, <1>5, <2>1, PlainStep
<1>11. CASE Loop(b)
  <2>1. \/ pc'[b] = "flush" /\ gap'[b] = gap[b]
        \/ pc'[b] = "scan" /\ gap'[b] = gap[b] /\ cur'[b] = MyRow(b)
    BY <1>1, <1>11 DEF Loop, Goto, Stay, SkipAhead
  <2>2. CASE pc'[b] = "flush"
    BY <1>2, <1>3, <1>5, <2>1, <2>2, PlainStep
  <2>3. CASE pc'[b] = "scan"
    <3>1. BackupScans(b)'
      BY <1>6, <2>1, <2>3 DEF BackupScans
    <3> QED
      BY <1>7, <2>1, <2>3, <3>1
  <2> QED
    BY <2>1, <2>2, <2>3
<1>12. CASE ScanBlock(b)
  <2>1. /\ pc[b] = "scan" /\ pc'[b] = "save" /\ gap'[b] = gap[b] /\ cur'[b] = cur[b]
        /\ cur[b] + 1 \in Handled(b)'
    BY <1>1, <1>12, ScanKeepsLists DEF ScanBlock, Goto, IInv
  <2>2. BackupScans(b)'
    BY <1>1, <1>6, <2>1 DEF BackupScans
  <2> QED
    BY <1>7, <2>1, <2>2
<1>13. CASE Flush(b)
  <2>1. pc'[b] = "idle" /\ gap'[b] = 0
    BY <1>1, <1>13 DEF Flush, Leave, Goto
  <2> QED
    BY <1>2, <1>3, <1>5, <2>1, PlainStep
<1> QED
  BY <1>4, <1>8, <1>9, <1>10, <1>11, <1>12, <1>13 DEF Step

\* alignBackupSyncCursor looks while there is no gap row, or nothing to align.
LEMMA StartSafe ==
    ASSUME IInv, TypeInv', OwnerInv', Lists', Remembers, Careful, NEW b \in Backups, Start(b)
    PROVE  IInv'
<1>1. /\ TypeInv /\ TypeOK /\ BackupInv(b) /\ b \in Procs /\ b # Main /\ lives \in [Procs -> Nat]
      /\ me \in [Procs -> Ids] /\ pc \in [Procs -> PC] /\ cur \in [Procs -> RowValue]
      /\ BackupRow(b) /\ OwnerInv /\ MainInv
  BY KeyFacts DEF IInv, TypeInv, TypeOK, BackupInv, Ids
<1>2. /\ Moves(b) /\ UNCHANGED <<row, gaps, base, high>> /\ me'[b] \notin Ids
      /\ pc'[b] \in {"align", "idle"}
  BY <1>1, StartMoves DEF Start, tableVars, chainVars, Goto, Ids
<1>3. MyRow(b)' = MyRow(b) /\ BackupRow(b)'
  BY <1>1, <1>2 DEF BackupRow, MyRow, Remembers
<1>4. \A i \in DOMAIN gaps : ~Owned(i, b)'
  <2>1. \A i \in DOMAIN gaps : gaps[i].owner \in Ids
    BY <1>1 DEF OwnerInv, OwnersKnown
  <2> QED
    BY <1>1, <1>2, <2>1 DEF Owned
<1>5. BackupClean(b)' /\ BackupFree(b)' /\ LowestOwned(b)'
  BY <1>2, <1>4 DEF BackupClean, BackupFree, LowestOwned
<1>6. LowestPending(b)' /\ BackupScans(b)'
  BY <1>2 DEF LowestPending, BackupScans
<1>7. MyRow(b) # NoRow \/ (MyRow(Main) # NoRow /\ gaps = <<>>)
  BY DEF Start, MayDeploy, Careful
<1>8. CASE MyRow(b) # NoRow
  <2>1. pc'[b] = "idle"
    BY <1>1, <1>8 DEF Start, Goto
  <2>2. BackupUp(b)' /\ BackupAligns(b)'
    BY <1>3, <1>8, <2>1 DEF BackupUp, BackupAligns
  <2> QED
    BY <1>2, <1>3, <1>5, <1>6, <2>2, OwnStep DEF BackupInv
<1>9. CASE MyRow(b) = NoRow
  <2>1. pc'[b] = "align" /\ cur'[b] = MyRow(Main) /\ MyRow(Main) # NoRow /\ gaps = <<>>
    BY <1>1, <1>7, <1>9 DEF Start, Goto
  <2>2. cur'[b] # NoRow /\ cur'[b] <= high /\ DOMAIN gaps = {}
    <3>1. MyRow(Main) = high /\ high \in Int
      BY <1>1, Ranges DEF MainInv, MainRow
    <3> QED
      BY <2>1, <3>1
  <2>3. BackupUp(b)' /\ BackupAligns(b)'
    BY <1>2, <1>3, <1>9, <2>1, <2>2 DEF BackupUp, BackupAligns
  <2> QED
    BY <1>2, <1>3, <1>5, <1>6, <2>3, OwnStep DEF BackupInv
<1> QED
  BY <1>8, <1>9

\* A failure takes a process back; a crash costs a backup its claims.
LEMMA FailSafe ==
    ASSUME IInv, TypeInv', OwnerInv', Lists', Remembers, NEW p \in Procs, Fail(p)
    PROVE  IInv'
<1>1. /\ TypeInv /\ TypeOK /\ me \in [Procs -> Ids] /\ pc \in [Procs -> PC]
      /\ cur \in [Procs -> RowValue] /\ tgt \in [Procs -> Nat]
      /\ gap \in [Procs -> 0 .. Len(gaps)] /\ Procs = Backups \cup {Main} /\ Main \notin Backups
  BY KeyFacts, ConstantsOK DEF IInv, TypeInv, TypeOK, Ids
<1>2. Moves(p) /\ UNCHANGED <<row, gaps, base, high>> /\ pc[p] # "down"
  BY <1>1, FailMoves DEF tableVars, chainVars, Fail
<1>3. \/ pc[p] \notin {"idle", "align"} /\ Leave(p, "idle") /\ UNCHANGED me
      \/ p # Main /\ Leave(p, "down") /\ me' = [me EXCEPT ![p] = NoOwner]
  BY DEF Fail
<1>4. CASE p = Main
  <2>1. pc'[Main] = "idle" /\ UNCHANGED me
    BY <1>1, <1>3, <1>4 DEF Leave, Goto
  <2>2. MainInv'
    BY <1>1, <1>2, <2>1 DEF IInv, MainInv, MainRow, MainCursor, MainScanned, MainSkips, AtCursor, MyRow
  <2> QED
    BY <1>2, <1>4, <2>1, <2>2, MainStepQuiet
<1>5. CASE p # Main /\ pc[p] \notin {"idle", "align"} /\ Leave(p, "idle") /\ UNCHANGED me
  <2>1. p \in Backups /\ pc'[p] = "idle" /\ gap'[p] = 0
    BY <1>1, <1>5 DEF Leave, Goto
  <2> QED
    BY <1>2, <1>5, <2>1, PlainStep
<1>6. CASE p # Main /\ Leave(p, "down") /\ me' = [me EXCEPT ![p] = NoOwner]
  <2>1. p \in Backups /\ pc'[p] = "down" /\ gap'[p] = 0 /\ me'[p] = NoOwner
    BY <1>1, <1>6 DEF Leave, Goto
  <2>2. \A i \in DOMAIN gaps : ~Owned(i, p)'
    BY <1>2, <2>1 DEF IInv, OwnerInv, OwnersKnown, Owned
  <2>3. BackupRow(p)'
    BY <1>2, <2>1 DEF IInv, BackupInv, BackupRow, MyRow, Remembers
  <2>4. BackupUp(p)' /\ BackupAligns(p)' /\ BackupScans(p)' /\ LowestPending(p)'
    BY <2>1 DEF BackupUp, BackupAligns, BackupScans, LowestPending
  <2>5. BackupClean(p)' /\ BackupFree(p)' /\ LowestOwned(p)'
    BY <1>2, <2>2 DEF BackupClean, BackupFree, LowestOwned
  <2> QED
    BY <1>2, <2>1, <2>3, <2>4, <2>5, OwnStep DEF BackupInv
<1> QED
  BY <1>3, <1>4, <1>5, <1>6

\* A backup's cursor moves: no other cursor does, and what is still to be
\* claimed must be clean up to the new one.
LEMMA SavesSafe ==
    ASSUME IInv, TypeInv', OwnerInv', Lists', Remembers, Careful, NEW b \in Backups, Moves(b), NEW block \in RowValue,
           Save(b, block), UNCHANGED <<gaps, base>>, BackupInv(b)',
           \A i \in DOMAIN gaps : Pending(i) => CleanUpTo(i, b, block)
    PROVE  IInv'
<1>1. /\ TypeInv /\ TypeOK /\ MainInv /\ (\A i \in DOMAIN gaps : GapInv(i)) /\ NoRefreshLost
      /\ (\A c \in Backups : BackupInv(c)) /\ row \in [Keys -> RowValue]
      /\ b \in Procs /\ b # Main /\ \A c \in Backups : c \in Procs /\ c # Main
  BY KeyFacts DEF IInv, TypeInv, TypeOK
<1>2. UNCHANGED high
  BY <1>1 DEF Save
<1>3. \A q \in Procs : q # b =>
         /\ pc'[q] = pc[q] /\ cur'[q] = cur[q] /\ tgt'[q] = tgt[q]
         /\ gap'[q] = gap[q] /\ me'[q] = me[q]
  BY <1>1, MovesApart
<1>4. MyRow(b)' = block /\ \A q \in Procs : q # b => MyRow(q)' = MyRow(q)
  <2>1. row'[Key[b]] = block /\ \A k \in Keys : k # Key[b] => row'[k] = row[k]
    BY <1>1, SaveTypes
  <2>2. \A q \in Procs : q # b => Key[q] # Key[b] /\ Key[q] \in Keys
    BY <1>1, KeyFacts DEF Careful
  <2> QED
    BY <2>1, <2>2 DEF MyRow
<1>5. high <= high'
  BY <1>1, <1>2, Ranges
<1>6. MainInv'
  BY <1>1, <1>2, <1>3, <1>4, MainQuiet, KeyFacts
<1>7. (\A i \in DOMAIN gaps : GapInv(i))'
  <2>1. ASSUME NEW i \in DOMAIN gaps, NEW c \in Backups, Pending(i) PROVE CleanUpTo(i, c, MyRow(c))'
    <3>1. CleanUpTo(i, c, MyRow(c)')
      BY <1>1, <1>4, <2>1 DEF GapInv, GapPending
    <3> QED
      BY <1>1, <3>1 DEF CleanUpTo, Covers, Remembers
  <2> QED
    BY <1>1, <1>5, <2>1, GapsStable
<1>8. ASSUME NEW c \in Backups, c # b PROVE BackupInv(c)'
  BY <1>1, <1>3, <1>4, <1>5, <1>8, BackupQuiet
<1>9. NoRefreshLost'
  BY <1>1, <1>2, LossQuiet
<1> QED
  BY <1>6, <1>7, <1>8, <1>9 DEF IInv

LEMMA AlignSafe ==
    ASSUME IInv, TypeInv', OwnerInv', Lists', Remembers, Careful, NEW b \in Backups, Align(b)
    PROVE  IInv'
<1>1. /\ TypeInv /\ TypeOK /\ BackupInv(b) /\ b \in Procs /\ cur \in [Procs -> RowValue]
      /\ pc \in [Procs -> PC] /\ gap \in [Procs -> 0 .. Len(gaps)]
      /\ BackupAligns(b) /\ pc[b] = "align" /\ row \in [Keys -> RowValue]
  BY KeyFacts DEF IInv, TypeInv, TypeOK, BackupInv, Align
<1>2. /\ Moves(b) /\ Save(b, cur[b]) /\ UNCHANGED <<gaps, base, me>>
      /\ pc'[b] = "idle" /\ gap'[b] = 0
  <2>1. Moves(b)
    BY <1>1, WriteMoves DEF ResolverWrites
  <2> QED
    BY <1>1, <2>1 DEF Align, Leave, Goto, chainVars
<1>3. /\ cur[b] # NoRow /\ cur[b] <= high /\ cur[b] \in RowValue /\ cur[b] \in Int /\ high \in Int /\ -1 <= cur[b]
      /\ \A i \in DOMAIN gaps : cur[b] < gaps[i].from /\ gaps[i].from \in Nat
  BY <1>1, Ranges DEF BackupAligns
<1>4. MyRow(b)' = cur[b] /\ high' = high
  BY <1>1, <1>2, <1>3, SaveTypes, KeyFacts DEF MyRow, Save
<1>5. \A i \in DOMAIN gaps : CleanUpTo(i, b, cur[b])
  BY <1>3 DEF CleanUpTo, Covers
<1>6. BackupRow(b)' /\ BackupUp(b)'
  BY <1>2, <1>3, <1>4 DEF BackupRow, BackupUp, NoRow
<1>7. BackupAligns(b)' /\ BackupScans(b)' /\ BackupFree(b)' /\ LowestPending(b)' /\ LowestOwned(b)'
  BY <1>2 DEF BackupAligns, BackupScans, BackupFree, LowestPending, LowestOwned, Working
<1>8. BackupClean(b)'
  BY <1>1, <1>2, <1>4, <1>5 DEF BackupClean, CleanUpTo, Covers, Remembers
<1> QED
  BY <1>2, <1>3, <1>5, <1>6, <1>7, <1>8, SavesSafe DEF BackupInv

\* The reset goes below the lowest row the backup owns, hence below all that
\* are pending too.
LEMMA ResetSafe ==
    ASSUME IInv, TypeInv', OwnerInv', Lists', Remembers, Careful, NEW b \in Backups, ResetCursor(b)
    PROVE  IInv'
<1>1. /\ TypeInv /\ TypeOK /\ OwnerInv /\ BackupInv(b) /\ b \in Procs /\ (\A i \in DOMAIN gaps : GapInv(i))
      /\ pc \in [Procs -> PC] /\ pc[b] = "reset" /\ row \in [Keys -> RowValue]
  BY KeyFacts DEF IInv, TypeInv, TypeOK, ResetCursor
<1>2. PICK block \in Int : block = BeforeGap(gaps[gap[b]].from)
  <2>1. gap[b] # 0
    BY <1>1 DEF TypeInv, ControlInv
  <2> QED
    BY <1>1, <2>1, Ranges DEF BeforeGap
<1>3. /\ Moves(b) /\ Save(b, block) /\ UNCHANGED <<gaps, base, me, gap>> /\ pc'[b] = "decide"
  <2>1. Moves(b)
    BY <1>1, WriteMoves DEF ResolverWrites
  <2> QED
    BY <1>1, <1>2, <2>1 DEF ResetCursor, Goto, chainVars
<1>4. /\ gap[b] # 0 /\ gap[b] \in DOMAIN gaps /\ Working(b) /\ Owned(gap[b], b)
  <2>1. gap[b] # 0
    BY <1>1 DEF TypeInv, ControlInv
  <2>2. Working(b)
    BY <1>1, <2>1 DEF Working
  <2> QED
    BY <1>1, <2>1, <2>2, Ranges DEF OwnerInv, ClaimsHeld
<1>5. /\ block \in Nat /\ block + 1 = gaps[gap[b]].from /\ block <= high /\ high \in Nat
      /\ \A i \in DOMAIN gaps : gaps[i].from \in Nat
  <2>1. GapBounds(gap[b]) /\ gaps[gap[b]].from \in Nat /\ high \in Int
    BY <1>1, <1>4, Ranges DEF GapInv
  <2> QED
    BY <1>1, <1>2, <2>1, Ranges DEF GapBounds, BeforeGap
<1>6. MyRow(b)' = block /\ high' = high /\ block \in RowValue
  BY <1>1, <1>3, <1>5, SaveTypes, KeyFacts, Numbers DEF MyRow, Save
<1>7. ASSUME NEW i \in DOMAIN gaps, Pending(i) \/ Owned(i, b) PROVE block < gaps[i].from
  <2>1. CASE Pending(i)
    <3>1. GapOrder(gap[b]) /\ ~Pending(gap[b])
      BY <1>1, <1>4 DEF GapInv, Pending, Owned
    <3> QED
      BY <1>5, <2>1, <3>1 DEF GapOrder
  <2>2. CASE Owned(i, b)
    BY <1>1, <1>4, <1>5, <2>2 DEF BackupInv, LowestOwned
  <2> QED
    BY <1>7, <2>1, <2>2
<1>8. ASSUME NEW i \in DOMAIN gaps, Pending(i) \/ Owned(i, b) PROVE CleanUpTo(i, b, block)
  BY <1>5, <1>7, <1>8 DEF CleanUpTo, Covers
<1>9. BackupRow(b)' /\ BackupUp(b)'
  BY <1>3, <1>5, <1>6 DEF BackupRow, BackupUp, NoRow
<1>10. BackupAligns(b)' /\ BackupScans(b)' /\ BackupFree(b)' /\ LowestPending(b)'
  BY <1>3 DEF BackupAligns, BackupScans, BackupFree, LowestPending
<1>11. \A i \in DOMAIN gaps : Owned(i, b)' => Owned(i, b)
  BY <1>3 DEF Owned
<1>12. LowestOwned(b)'
  BY <1>1, <1>3, <1>4, <1>11 DEF BackupInv, LowestOwned
<1>13. BackupClean(b)'
  BY <1>1, <1>3, <1>6, <1>8, <1>11 DEF BackupClean, CleanUpTo, Covers, Remembers
<1> QED
  BY <1>3, <1>6, <1>8, <1>9, <1>10, <1>12, <1>13, SavesSafe DEF BackupInv

LEMMA SaveSafe ==
    ASSUME IInv, TypeInv', OwnerInv', Lists', Remembers, Careful, NEW b \in Backups, SaveCursor(b)
    PROVE  IInv'
<1>1. /\ TypeInv /\ TypeOK /\ BackupInv(b) /\ b \in Procs /\ (\A i \in DOMAIN gaps : GapInv(i))
      /\ pc \in [Procs -> PC] /\ cur \in [Procs -> RowValue] /\ pc[b] = "save" /\ row \in [Keys -> RowValue]
      /\ BackupScans(b) /\ BackupUp(b) /\ BackupRow(b) /\ BackupClean(b) /\ LowestOwned(b)
  BY KeyFacts DEF IInv, TypeInv, TypeOK, SaveCursor, BackupInv
<1>2. PICK block \in Nat : block = cur[b] + 1
  BY <1>1, Numbers
<1>3. /\ Moves(b) /\ Save(b, block) /\ UNCHANGED <<gaps, base, me, gap>> /\ pc'[b] = "loop"
  <2>1. Moves(b)
    BY <1>1, StepMoves DEF Step
  <2> QED
    BY <1>1, <1>2, <2>1 DEF SaveCursor, Goto, chainVars
<1>4. /\ block \in Handled(b) /\ block = MyRow(b) + 1 /\ MyRow(b) \in Int /\ high # NoRow
      /\ high \in Int /\ \A i \in DOMAIN gaps : gaps[i].from \in Nat
  BY <1>1, <1>2, Ranges DEF BackupScans, BackupUp, BackupRow
<1>5. MyRow(b)' = block /\ high' = high /\ block \in RowValue
  BY <1>1, <1>3, SaveTypes, KeyFacts, Numbers DEF MyRow, Save
<1>6. ASSUME NEW i \in DOMAIN gaps, CleanUpTo(i, b, MyRow(b)) PROVE CleanUpTo(i, b, block)
  BY <1>4, <1>6 DEF CleanUpTo
<1>7. BackupRow(b)' /\ BackupUp(b)'
  BY <1>1, <1>3, <1>4, <1>5 DEF BackupRow, BackupUp, NoRow, Remembers
<1>8. BackupAligns(b)' /\ BackupScans(b)' /\ BackupFree(b)' /\ LowestPending(b)'
  BY <1>3 DEF BackupAligns, BackupScans, BackupFree, LowestPending
<1>9. \A i \in DOMAIN gaps : Owned(i, b)' => Owned(i, b)
  BY <1>3 DEF Owned
<1>10. LowestOwned(b)'
  BY <1>1, <1>3, <1>9 DEF LowestOwned, Working
<1>11. BackupClean(b)'
  BY <1>1, <1>3, <1>5, <1>6, <1>9 DEF BackupClean, CleanUpTo, Covers, Remembers
<1>12. \A i \in DOMAIN gaps : Pending(i) => CleanUpTo(i, b, block)
  BY <1>1, <1>6 DEF GapInv, GapPending
<1> QED
  BY <1>3, <1>5, <1>7, <1>8, <1>10, <1>11, <1>12, SavesSafe DEF BackupInv

\* Steps that change the status of one row: the rest of the argument.
LEMMA MarkSafe ==
    ASSUME IInv, TypeInv', OwnerInv', Lists', Remembers, NEW b \in Backups, Moves(b), UNCHANGED <<row, base, high>>,
           NEW g \in DOMAIN gaps, DOMAIN gaps' = DOMAIN gaps,
           \A j \in DOMAIN gaps : /\ gaps'[j].from = gaps[j].from /\ gaps'[j].to = gaps[j].to
                                  /\ j # g => gaps'[j] = gaps[j],
           ~Pending(g)', GapDone(g)', GapOrder(g)', BackupInv(b)',
           \A c \in Backups : c # b => ~Owned(g, c)',
           Open(g)' \/ gaps'[g].status = "done"
    PROVE  IInv'
<1>1. /\ TypeInv /\ TypeOK /\ MainInv /\ (\A i \in DOMAIN gaps : GapInv(i)) /\ NoRefreshLost
      /\ (\A c \in Backups : BackupInv(c)) /\ b \in Procs /\ b # Main
      /\ \A c \in Backups : c \in Procs /\ c # Main
  BY KeyFacts DEF IInv, TypeInv
<1>2. \A q \in Procs : q # b =>
         /\ pc'[q] = pc[q] /\ cur'[q] = cur[q] /\ tgt'[q] = tgt[q]
         /\ gap'[q] = gap[q] /\ me'[q] = me[q]
  BY <1>1, MovesApart
<1>3. \A p \in Procs : MyRow(p)' = MyRow(p)
  BY DEF MyRow
<1>4. high <= high'
  BY <1>1, Ranges
<1>5. \A j \in DOMAIN gaps : Pending(j)' => Pending(j)
  BY DEF Pending
<1>6. MainInv'
  <2>1. MainRow' /\ MainCursor' /\ MainScanned'
    BY <1>1, <1>2, <1>3, KeyFacts DEF MainInv, MainRow, MainCursor, MainScanned, Remembers
  <2>2. MainSkips'
    BY <1>1, <1>2, KeyFacts DEF MainInv, MainSkips
  <2> QED
    BY <2>1, <2>2 DEF MainInv
<1>7. ASSUME NEW i \in DOMAIN gaps PROVE GapInv(i)'
  <2>1. GapBounds(i) /\ GapDone(i) /\ GapPending(i) /\ GapOrder(i)
    BY <1>1 DEF GapInv
  <2>2. GapBounds(i)'
    BY <2>1 DEF GapBounds
  <2>3. GapDone(i)'
    BY <2>1 DEF GapDone, Covers, Remembers
  <2>4. GapPending(i)'
    <3>1. SUFFICES ASSUME Pending(i)'
                   PROVE  gaps'[i].owner = NoOwner /\ \A c \in Backups : CleanUpTo(i, c, MyRow(c))'
      BY DEF GapPending
    <3>2. i # g /\ Pending(i)
      BY <1>5, <3>1
    <3>3. gaps[i].owner = NoOwner /\ \A c \in Backups : CleanUpTo(i, c, MyRow(c))
      BY <2>1, <3>2 DEF GapPending
    <3>4. \A c \in Backups : CleanUpTo(i, c, MyRow(c))'
      BY <1>1, <1>3, <3>3 DEF CleanUpTo, Covers, Remembers
    <3> QED
      BY <3>2, <3>3, <3>4
  <2>5. GapOrder(i)'
    <3>1. CASE i = g
      BY <3>1
    <3>2. CASE i # g
      BY <1>5, <2>1, <3>2 DEF GapOrder, Pending
    <3> QED
      BY <3>1, <3>2
  <2> QED
    BY <2>2, <2>3, <2>4, <2>5 DEF GapInv
<1>8. ASSUME NEW c \in Backups, c # b PROVE BackupInv(c)'
  <2>1. \A j \in DOMAIN gaps : Owned(j, c)' => Owned(j, c)
    BY <1>1, <1>2, <1>8 DEF Owned
  <2> QED
    BY <1>1, <1>2, <1>3, <1>4, <1>5, <1>8, <2>1, BackupStable
<1>9. NoRefreshLost'
  <2>1. SUFFICES ASSUME base # NoRow, NEW x \in Between(base, high) PROVE Answered(x)'
    BY DEF NoRefreshLost, Between
  <2>2. Answered(x)
    BY <1>1, <2>1 DEF NoRefreshLost
  <2>3. CASE \E p \in Procs : x \in Handled(p)
    <3>1. \E p \in Procs : x \in Handled(p)'
      BY <2>3 DEF Remembers
    <3> QED
      BY <3>1 DEF Answered, Listed, Handled, Settled
  <2>4. CASE \E i \in DOMAIN gaps : Open(i) /\ Covers(i, x)
    <3>1. PICK i \in DOMAIN gaps : Open(i) /\ Covers(i, x)
      BY <2>4
    <3>2. CASE i # g \/ Open(g)'
      BY <3>1, <3>2 DEF Answered, Open, Covers
    <3>3. CASE i = g /\ ~Open(g)'
      <4>1. x \in Nat
        BY <1>1, <2>1, Ranges DEF Between, NoRow
      <4> QED
        BY <3>1, <3>3, <4>1 DEF GapDone, Covers, Answered, Settled
    <3> QED
      BY <3>2, <3>3
  <2> QED
    BY <1>1, <2>2, <2>3, <2>4 DEF Answered, Listed, Handled, Settled
<1> QED
  BY <1>6, <1>7, <1>8, <1>9 DEF IInv

\* A claim: the row was pending, so it is clean up to every cursor, and the
\* claimant had none beside it.
LEMMA ClaimSafe ==
    ASSUME IInv, TypeInv', OwnerInv', Lists', Remembers, NEW b \in Backups, Claim(b)
    PROVE  IInv'
<1>1. /\ TypeInv /\ TypeOK /\ OwnerInv /\ BackupInv(b) /\ b \in Procs /\ (\A i \in DOMAIN gaps : GapInv(i))
      /\ pc \in [Procs -> PC] /\ gap \in [Procs -> 0 .. Len(gaps)] /\ pc[b] = "cas"
      /\ BackupRow(b) /\ BackupUp(b) /\ BackupFree(b) /\ LowestPending(b)
  BY KeyFacts DEF IInv, TypeInv, TypeOK, Claim, BackupInv
<1>2. Moves(b) /\ UNCHANGED <<row, base, high, me>>
  BY <1>1, WriteMoves DEF ResolverWrites, Claim, chainVars
<1>3. CASE ~Claimable(gap[b])
  <2>1. UNCHANGED gaps /\ gap'[b] = 0 /\ pc'[b] = "claim"
    BY <1>1, <1>3 DEF Claim, Goto
  <2>2. /\ BackupRow(b)' /\ BackupClean(b)' /\ MyRow(b)' = MyRow(b)
        /\ \A i \in DOMAIN gaps : Owned(i, b)' <=> Owned(i, b)
    BY <1>1, <1>2, <2>1, SelfKept
  <2>3. BackupUp(b)' /\ BackupAligns(b)' /\ BackupScans(b)' /\ LowestPending(b)' /\ LowestOwned(b)'
    BY <1>1, <2>1, <2>2 DEF BackupUp, BackupAligns, BackupScans, LowestPending, LowestOwned, Working
  <2>4. BackupFree(b)'
    BY <1>1, <2>1, <2>2 DEF BackupFree
  <2> QED
    BY <1>2, <2>1, <2>2, <2>3, <2>4, OwnStep DEF BackupInv
<1>4. CASE Claimable(gap[b])
  <2>1. /\ gap[b] \in DOMAIN gaps /\ DOMAIN gaps' = DOMAIN gaps
        /\ \A j \in DOMAIN gaps : /\ gaps'[j].from = gaps[j].from /\ gaps'[j].to = gaps[j].to
                                  /\ j # gap[b] => gaps'[j] = gaps[j]
        /\ gaps'[gap[b]].status = "repairing" /\ gaps'[gap[b]].owner = me[b]
    BY <1>1, <1>4, ClaimRows
  <2>2. PICK g \in DOMAIN gaps : g = gap[b]
    BY <2>1
  <2>3. Pending(g) /\ pc'[b] = "check" /\ gap'[b] = g
    BY <1>1, <1>4, <2>2 DEF Claim, Claimable, Pending, Goto
  <2>4. \A j \in DOMAIN gaps : Pending(j)' => Pending(j)
    BY <2>1, <2>2, <2>3 DEF Pending
  <2>5. MyRow(b)' = MyRow(b)
    BY <1>2 DEF MyRow
  <2>6. \A j \in DOMAIN gaps : Owned(j, b)' => j = g
    BY <1>1, <1>2, <2>1, <2>2 DEF BackupFree, Owned
  <2>7. CleanUpTo(g, b, MyRow(b))'
    BY <1>1, <1>2, <2>1, <2>2, <2>3, <2>5 DEF GapInv, GapPending, CleanUpTo, Covers, Remembers
  <2>8. BackupClean(b)' /\ LowestOwned(b)'
    <3>1. gaps[g].from \in Nat
      BY <1>1, Ranges
    <3> QED
      BY <2>1, <2>3, <2>6, <2>7, <3>1 DEF BackupClean, LowestOwned
  <2>9. BackupRow(b)' /\ BackupUp(b)'
    BY <1>1, <1>2, <2>5 DEF BackupRow, BackupUp, Remembers
  <2>10. BackupAligns(b)' /\ BackupScans(b)' /\ BackupFree(b)' /\ LowestPending(b)'
    BY <2>3 DEF BackupAligns, BackupScans, BackupFree, LowestPending
  <2>11. BackupInv(b)'
    BY <2>8, <2>9, <2>10 DEF BackupInv
  <2>12. ~Pending(g)' /\ GapDone(g)' /\ Open(g)'
    BY <2>1, <2>2 DEF Pending, GapDone, Open
  <2>13. GapOrder(g)'
    BY <1>1, <2>1, <2>2, <2>4 DEF LowestPending, GapOrder
  <2>14. \A c \in Backups : c # b => ~Owned(g, c)'
    <3>1. me[b] # NoOwner
      BY <1>1 DEF OwnerInv, UpHaveOwner
    <3> QED
      BY <1>1, <1>2, <2>1, <2>2, <3>1 DEF OwnerInv, OwnersUnique, Owned
  <2> QED
    BY <1>2, <2>1, <2>2, <2>11, <2>12, <2>13, <2>14, MarkSafe
<1> QED
  BY <1>3, <1>4

\* A row is closed: its owner's cursor is past its end, and it is clean up to
\* that cursor.
LEMMA FinishSafe ==
    ASSUME IInv, TypeInv', OwnerInv', Lists', Remembers, NEW b \in Backups, FinishGap(b)
    PROVE  IInv'
<1>1. /\ TypeInv /\ TypeOK /\ OwnerInv /\ BackupInv(b) /\ b \in Procs /\ (\A i \in DOMAIN gaps : GapInv(i))
      /\ pc \in [Procs -> PC] /\ gap \in [Procs -> 0 .. Len(gaps)] /\ pc[b] = "check"
      /\ BackupRow(b) /\ BackupUp(b) /\ BackupClean(b)
  BY KeyFacts DEF IInv, TypeInv, TypeOK, FinishGap, BackupInv
<1>2. Moves(b) /\ UNCHANGED <<row, base, high, me>>
  BY <1>1, WriteMoves DEF ResolverWrites, FinishGap, chainVars
<1>3. /\ gap[b] \in DOMAIN gaps /\ gap[b] # 0 /\ DOMAIN gaps' = DOMAIN gaps
      /\ \A j \in DOMAIN gaps : /\ gaps'[j].from = gaps[j].from /\ gaps'[j].to = gaps[j].to
                                /\ j # gap[b] => gaps'[j] = gaps[j]
      /\ gaps'[gap[b]].status = "done" /\ gaps'[gap[b]].owner = NoOwner
  BY <1>1, FinishRows
<1>4. PICK g \in DOMAIN gaps : g = gap[b]
  BY <1>3
<1>5. /\ Owned(g, b) /\ pc'[b] = "owned" /\ gap'[b] = 0
  <2>1. Working(b)
    BY <1>1, <1>3 DEF Working
  <2> QED
    BY <1>1, <1>4, <2>1 DEF OwnerInv, ClaimsHeld, FinishGap, Goto
<1>6. GapDone(g)'
  <2>1. MyRow(b) >= gaps[g].to /\ CleanUpTo(g, b, MyRow(b))
    BY <1>1, <1>4, <1>5 DEF FinishGap, BackupClean
  <2>2. MyRow(b) \in Int /\ gaps[g].to \in Nat
    BY <1>1, Ranges
  <2>3. \A x \in Nat : Covers(g, x) => x \in Handled(b)
    BY <2>1, <2>2 DEF CleanUpTo, Covers
  <2>4. Handled(b) = Settled
    <3>1. deferred[b] = {}
      BY <1>1 DEF IInv, Lists, ListHeld, Holding
    <3> QED
      BY <3>1 DEF Handled
  <2> QED
    BY <1>2, <1>3, <2>3, <2>4 DEF GapDone, Covers, Remembers
<1>7. ~Pending(g)' /\ \A c \in Backups : ~Owned(g, c)'
  BY <1>3, <1>4 DEF Pending, Owned
<1>8. \A j \in DOMAIN gaps : (Pending(j)' => Pending(j)) /\ (Owned(j, b)' => Owned(j, b))
  BY <1>2, <1>3, <1>4, <1>7 DEF Pending, Owned
<1>9. GapOrder(g)'
  <2>1. GapOrder(g) /\ ~Pending(g)
    BY <1>1, <1>5 DEF GapInv, Owned, Pending
  <2> QED
    BY <1>3, <1>8, <2>1 DEF GapOrder
<1>10. MyRow(b)' = MyRow(b)
  BY <1>2 DEF MyRow
<1>11. BackupRow(b)' /\ BackupUp(b)'
  BY <1>1, <1>2, <1>10 DEF BackupRow, BackupUp, Remembers
<1>12. BackupAligns(b)' /\ BackupScans(b)' /\ BackupFree(b)' /\ LowestPending(b)' /\ LowestOwned(b)'
  BY <1>5 DEF BackupAligns, BackupScans, BackupFree, LowestPending, LowestOwned, Working
<1>13. BackupClean(b)'
  BY <1>1, <1>2, <1>3, <1>8, <1>10 DEF BackupClean, CleanUpTo, Covers, Remembers
<1>14. BackupInv(b)'
  BY <1>11, <1>12, <1>13 DEF BackupInv
<1> QED
  BY <1>2, <1>3, <1>4, <1>6, <1>7, <1>9, <1>14, MarkSafe

\* The main scanner on its way between two statements.
LEMMA MainWaySafe ==
    ASSUME IInv, TypeInv', OwnerInv', Lists', Remembers, Step(Main), ~InitCursor(Main), ~SaveCursor(Main)
    PROVE  IInv'
<1>1. /\ TypeInv /\ TypeOK /\ Main \in Procs /\ pc \in [Procs -> PC] /\ cur \in [Procs -> RowValue]
      /\ tgt \in [Procs -> Nat] /\ MainRow /\ MainCursor /\ MainScanned /\ MainSkips
  BY KeyFacts DEF IInv, TypeInv, TypeOK, MainInv
<1>2. Moves(Main) /\ UNCHANGED gaps
  BY <1>1, StepMoves
<1>3. UNCHANGED <<row, base, high, me>>
  BY Zenon DEF Step, LoadCursor, LoadHeight, Decide, Loop, ScanBlock, Flush, tableVars
<1>4. MainRow' /\ MyRow(Main) = high
  BY <1>1, <1>3 DEF MainRow, MyRow
<1>5. ASSUME MainCursor', MainScanned', pc'[Main] \notin {"record", "skip"} PROVE IInv'
  <2>1. MainSkips'
    BY <1>5 DEF MainSkips
  <2> QED
    BY <1>2, <1>3, <1>4, <1>5, <2>1, MainStepQuiet DEF MainInv
<1>6. CASE LoadCursor(Main)
  <2>1. pc'[Main] = "height" /\ cur'[Main] = high
    BY <1>1, <1>4, <1>6 DEF LoadCursor, Goto
  <2> QED
    BY <1>3, <1>5, <2>1 DEF MainCursor, MainScanned, AtCursor
<1>7. CASE LoadHeight(Main)
  <2>1. /\ pc[Main] = "height" /\ cur'[Main] = cur[Main]
        /\ pc'[Main] = IF cur[Main] = NoRow THEN "init" ELSE "decide"
    BY <1>1, <1>7 DEF LoadHeight, Goto
  <2>2. cur[Main] = high
    BY <1>1, <2>1 DEF MainCursor
  <2> QED
    BY <1>3, <1>5, <2>1, <2>2 DEF MainCursor, MainScanned, AtCursor
<1>8. CASE Decide(Main)
  <2>1. pc[Main] = "decide" /\ cur[Main] = high /\ high # NoRow /\ high \in Int /\ tgt[Main] \in Nat
    BY <1>1, <1>8, Ranges DEF Decide, MainCursor, AtCursor
  <2>2. CASE Leave(Main, "idle")
    <3>1. pc'[Main] = "idle"
      BY <1>1, <2>2 DEF Leave, Goto
    <3> QED
      BY <1>5, <3>1 DEF MainCursor, MainScanned, AtCursor
  <2>3. CASE Goto(Main, "loop") /\ Stay
    <3>1. pc'[Main] = "loop" /\ cur'[Main] = high
      BY <1>1, <2>1, <2>3 DEF Goto, Stay
    <3> QED
      BY <1>3, <1>5, <2>1, <3>1 DEF MainCursor, MainScanned, AtCursor
  <2>4. CASE SkipAhead(Main, cur[Main]) /\ Goto(Main, "record") /\ Stay
    <3>1. pc'[Main] = "record" /\ cur'[Main] = high /\ tgt'[Main] = tgt[Main]
      BY <1>1, <2>1, <2>4 DEF Goto, Stay
    <3>2. high < tgt[Main]
      BY <2>1, <2>4 DEF SkipAhead, ShouldSkip
    <3>3. MainCursor' /\ MainScanned' /\ MainSkips'
      BY <1>3, <2>1, <3>1, <3>2 DEF MainCursor, MainScanned, MainSkips, AtCursor
    <3> QED
      BY <1>2, <1>3, <1>4, <3>3, MainStepQuiet DEF MainInv
  <2> QED
    BY <1>8, <2>2, <2>3, <2>4 DEF Decide
<1>9. CASE Loop(Main)
  <2>1. pc[Main] = "loop" /\ cur[Main] = high /\ high # NoRow
    BY <1>1, <1>9 DEF Loop, MainCursor, AtCursor
  <2>2. cur'[Main] = high /\ pc'[Main] \in {"flush", "scan"}
    BY <1>1, <1>4, <1>9, <2>1 DEF Loop, Goto, Stay
  <2> QED
    BY <1>3, <1>5, <2>1, <2>2 DEF MainCursor, MainScanned, AtCursor
<1>10. CASE ScanBlock(Main)
  <2>1. pc[Main] = "scan" /\ cur[Main] = high /\ high # NoRow
    BY <1>1, <1>10 DEF ScanBlock, MainCursor, AtCursor
  <2>2. pc'[Main] = "save" /\ cur'[Main] = high /\ high + 1 \in Handled(Main)'
    BY <1>1, <1>10, <2>1, ScanKeepsLists DEF ScanBlock, Goto, IInv
  <2> QED
    BY <1>3, <1>5, <2>1, <2>2 DEF MainCursor, MainScanned, AtCursor
<1>11. CASE Flush(Main)
  <2>1. pc'[Main] = "idle"
    BY <1>1, <1>11 DEF Flush, Leave, Goto
  <2> QED
    BY <1>5, <2>1 DEF MainCursor, MainScanned, AtCursor
<1> QED
  BY <1>6, <1>7, <1>8, <1>9, <1>10, <1>11 DEF Step

\* The main cursor moves up, over blocks that are accounted for.
LEMMA MainMovesUp ==
    ASSUME IInv, TypeInv', OwnerInv', Lists', Remembers, Careful, Moves(Main), UNCHANGED <<gaps, me>>,
           NEW block \in Nat, Save(Main, block), high < block,
           pc'[Main] \in {"idle", "flush"} \/ (pc'[Main] = "loop" /\ cur'[Main] = block),
           base' \in Nat, base' <= block,
           \A x \in Nat : base' < x /\ x <= block => Answered(x)
    PROVE  IInv'
<1>1. /\ TypeInv /\ TypeOK /\ (\A i \in DOMAIN gaps : GapInv(i)) /\ (\A c \in Backups : BackupInv(c))
      /\ row \in [Keys -> RowValue] /\ Main \in Procs
      /\ \A c \in Backups : c \in Procs /\ c # Main
  BY KeyFacts DEF IInv, TypeInv, TypeOK
<1>2. high' = block /\ high \in Int /\ high <= high' /\ high' # NoRow
  <2>1. high' = block
    BY DEF Save
  <2> QED
    BY <1>1, <2>1, Ranges DEF NoRow
<1>3. \A c \in Backups : pc'[c] = pc[c] /\ cur'[c] = cur[c] /\ gap'[c] = gap[c] /\ me'[c] = me[c]
  BY <1>1, MovesApart
<1>4. MyRow(Main)' = block /\ \A c \in Backups : MyRow(c)' = MyRow(c)
  <2>1. row'[Key[Main]] = block /\ \A k \in Keys : k # Key[Main] => row'[k] = row[k]
    BY <1>1, SaveTypes, Numbers
  <2> QED
    BY <1>1, <2>1, KeyFacts DEF MyRow
<1>5. MainInv'
  <2>1. MainRow'
    BY <1>2, <1>4 DEF MainRow, NoRow
  <2>2. MainCursor' /\ MainScanned' /\ MainSkips'
    BY <1>2 DEF MainCursor, MainScanned, MainSkips, AtCursor
  <2> QED
    BY <2>1, <2>2 DEF MainInv
<1>6. (\A i \in DOMAIN gaps : GapInv(i))'
  BY <1>1, <1>2, <1>4, GapsQuiet
<1>7. ASSUME NEW c \in Backups PROVE BackupInv(c)'
  BY <1>1, <1>2, <1>3, <1>4, BackupQuiet
<1>8. NoRefreshLost'
  <2>1. \A n \in Nat : \A x \in (n + 1) .. block : x \in Nat /\ n < x /\ x <= block
    OBVIOUS
  <2>2. \A x \in (base' + 1) .. block : Answered(x)
    BY <2>1, Zenon
  <2>3. \A x \in (base' + 1) .. block : Answered(x)'
    BY <2>2, AnswerKept
  <2> QED
    BY <1>2, <2>3 DEF NoRefreshLost, Between
<1> QED
  BY <1>5, <1>6, <1>7, <1>8 DEF IInv

LEMMA MainCursorSafe ==
    ASSUME IInv, TypeInv', OwnerInv', Lists', Remembers, Careful,
           InitCursor(Main) \/ SaveCursor(Main) \/ SkipToLatest(Main)
    PROVE  IInv'
<1>1. /\ TypeInv /\ TypeOK /\ Main \in Procs /\ pc \in [Procs -> PC] /\ cur \in [Procs -> RowValue]
      /\ MainRow /\ MainCursor /\ MainScanned /\ MainSkips /\ (\A i \in DOMAIN gaps : GapInv(i)) /\ NoRefreshLost
  BY KeyFacts DEF IInv, TypeInv, TypeOK, MainInv
<1>2. Moves(Main)
  BY <1>1, StepMoves, SkipMoves DEF Step
<1>3. UNCHANGED <<gaps, me>>
  BY DEF InitCursor, SaveCursor, SkipToLatest, chainVars
<1>4. /\ high \in Int /\ -1 <= high /\ base \in Int /\ -1 <= base
      /\ tgt[Main] \in Nat /\ \A i \in DOMAIN gaps : gaps[i].from \in Nat /\ gaps[i].to \in Nat
  BY <1>1, Ranges
<1>5. \A x \in Nat : base # NoRow /\ base < x /\ x <= high => Answered(x)
  BY <1>1, <1>4 DEF NoRefreshLost, Between
<1>6. CASE InitCursor(Main)
  <2>1. PICK block \in Nat : block = InitialBlock(StartBlock, tgt[Main])
    BY <1>4, ConstantsOK DEF InitialBlock
  <2>2. Save(Main, block) /\ base' = block /\ pc'[Main] = "idle" /\ high = NoRow
    BY <1>1, <1>6, <2>1 DEF InitCursor, Leave, Goto, MainCursor
  <2>3. high < block /\ \A x \in Nat : ~(base' < x /\ x <= block)
    BY <1>4, <2>2 DEF NoRow
  <2> QED
    BY <1>2, <1>3, <2>1, <2>2, <2>3, MainMovesUp
<1>7. ASSUME NEW block \in Nat, Save(Main, block), high < block, high # NoRow, UNCHANGED base,
             pc'[Main] \in {"idle", "flush"} \/ (pc'[Main] = "loop" /\ cur'[Main] = block),
             \A x \in Nat : high < x /\ x <= block => Answered(x)
      PROVE  IInv'
  <2>1. base \in Nat /\ base <= block /\ base # NoRow
    BY <1>1, <1>4, <1>7 DEF MainRow, NoRow
  <2>2. \A x \in Nat : base < x /\ x <= block => Answered(x)
    BY <1>4, <1>5, <1>7, <2>1
  <2> QED
    BY <1>2, <1>3, <1>7, <2>1, <2>2, MainMovesUp
<1>8. CASE SaveCursor(Main)
  <2>1. cur[Main] = high /\ high # NoRow /\ high + 1 \in Handled(Main)
    BY <1>1, <1>8 DEF SaveCursor, MainCursor, MainScanned, AtCursor
  <2>2. PICK block \in Nat : block = high + 1
    BY <1>4, <2>1
  <2>3. Save(Main, block) /\ UNCHANGED base /\ pc'[Main] = "loop" /\ cur'[Main] = block
    BY <1>1, <1>8, <2>1, <2>2 DEF SaveCursor, Goto
  <2>4. \A x \in Nat : high < x /\ x <= block => Answered(x)
    BY <1>1, <1>4, <2>1, <2>2, HandledAnswered
  <2> QED
    BY <1>4, <1>7, <2>1, <2>2, <2>3, <2>4
<1>9. CASE SkipToLatest(Main)
  <2>1. /\ pc[Main] = "skip" /\ Save(Main, tgt[Main]) /\ UNCHANGED base /\ pc'[Main] \in {"idle", "flush"}
        /\ high # NoRow /\ high < tgt[Main]
    BY <1>1, <1>9 DEF SkipToLatest, Leave, Goto, MainCursor, MainSkips, AtCursor
  <2>2. PICK i \in DOMAIN gaps : gaps[i].from = high + 1 /\ gaps[i].to = tgt[Main]
    BY <1>1, <2>1 DEF MainSkips
  <2>3. ASSUME NEW x \in Nat, high < x, x <= tgt[Main] PROVE Answered(x)
    <3>1. Covers(i, x)
      BY <1>4, <2>2, <2>3 DEF Covers
    <3>2. Open(i) \/ gaps[i].status = "done"
      BY <1>1, Ranges DEF Open, Status
    <3> QED
      BY <1>1, <3>1, <3>2 DEF GapInv, GapDone, Answered, Settled
  <2> QED
    BY <1>4, <1>7, <2>1, <2>3
<1> QED
  BY <1>6, <1>8, <1>9

\* A new gap row: it starts where the main cursor is, so the backups have
\* answer of it for what lies below their own cursors.
LEMMA RecordSafe ==
    ASSUME IInv, TypeInv', OwnerInv', Lists', Remembers, RecordGap(Main)
    PROVE  IInv'
<1>1. /\ TypeInv /\ TypeOK /\ OwnerInv /\ Main \in Procs /\ pc \in [Procs -> PC] /\ gaps \in Seq(GapRow)
      /\ MainRow /\ MainCursor /\ MainSkips /\ (\A i \in DOMAIN gaps : GapInv(i)) /\ NoRefreshLost
      /\ (\A c \in Backups : BackupInv(c)) /\ \A c \in Backups : c \in Procs /\ c # Main
  BY KeyFacts DEF IInv, TypeInv, TypeOK, MainInv
<1>2. /\ Moves(Main) /\ UNCHANGED <<row, base, high, me, cur, tgt>>
      /\ pc[Main] = "record" /\ pc'[Main] = "skip"
  <2>1. Moves(Main)
    BY <1>1, SkipMoves
  <2> QED
    BY <1>1, <2>1 DEF RecordGap, Goto, chainVars
<1>3. cur[Main] = high /\ high # NoRow /\ high < tgt[Main] /\ high \in Nat /\ tgt[Main] \in Nat
  <2>1. high \in Int /\ -1 <= high /\ tgt[Main] \in Nat
    BY <1>1, Ranges
  <2> QED
    BY <1>1, <1>2, <2>1 DEF MainCursor, MainSkips, AtCursor, NoRow
<1>4. PICK n \in Nat : n = Len(gaps) + 1
  BY <1>1, LenProperties
<1>5. /\ DOMAIN gaps' = DOMAIN gaps \cup {n} /\ n \notin DOMAIN gaps
      /\ \A j \in DOMAIN gaps : gaps'[j] = gaps[j]
      /\ gaps'[n].from = high + 1 /\ gaps'[n].to = tgt[Main]
      /\ gaps'[n].status = "pending" /\ gaps'[n].owner = NoOwner
  <2>1. CreateSyncGap(high + 1, tgt[Main]) /\ high + 1 \in Nat
    BY <1>3 DEF RecordGap
  <2>2. /\ gaps' \in Seq(GapRow) /\ Len(gaps') = Len(gaps) + 1
        /\ DOMAIN gaps' = DOMAIN gaps \cup {n} /\ n \notin DOMAIN gaps
        /\ \A j \in DOMAIN gaps : gaps'[j] = gaps[j]
        /\ gaps'[n] = [from |-> high + 1, to |-> tgt[Main], status |-> "pending", owner |-> NoOwner]
    <3>1. gaps \in Seq(GapRow) /\ high + 1 \in Nat /\ tgt[Main] \in Nat /\ n = Len(gaps) + 1
      BY <1>1, <1>3, <1>4, <2>1
    <3> QED
      BY ONLY <2>1, <3>1, AddedRow
  <2> QED
    BY <2>2
<1>6. \A p \in Procs : MyRow(p)' = MyRow(p)
  BY <1>2 DEF MyRow
<1>7. /\ high <= high'
      /\ \A c \in Backups : pc'[c] = pc[c] /\ cur'[c] = cur[c] /\ gap'[c] = gap[c] /\ me'[c] = me[c]
  <2>1. \A c \in Backups : pc'[c] = pc[c] /\ cur'[c] = cur[c] /\ gap'[c] = gap[c] /\ me'[c] = me[c]
    BY <1>1, <1>2, MovesApart
  <2> QED
    BY <1>2, <1>3, <2>1
<1>8. MainInv'
  <2>1. MainRow' /\ MainCursor' /\ MainScanned'
    BY <1>1, <1>2, <1>3, <1>6 DEF MainRow, MainCursor, MainScanned, AtCursor
  <2>2. MainSkips'
    BY <1>2, <1>3, <1>5 DEF MainSkips
  <2> QED
    BY <2>1, <2>2 DEF MainInv
<1>9. ASSUME NEW i \in DOMAIN gaps' PROVE GapInv(i)'
  <2>1. CASE i \in DOMAIN gaps
    <3>1. GapBounds(i) /\ GapDone(i) /\ GapPending(i) /\ GapOrder(i)
      BY <1>1, <2>1 DEF GapInv
    <3>2. GapBounds(i)' /\ GapDone(i)'
      BY <1>2, <1>5, <2>1, <3>1 DEF GapBounds, GapDone, Covers, Remembers
    <3>3. GapPending(i)'
      BY <1>1, <1>2, <1>5, <1>6, <2>1, <3>1 DEF GapPending, Pending, CleanUpTo, Covers, Remembers
    <3>4. GapOrder(i)'
      <4>1. SUFFICES ASSUME ~Pending(i)', NEW j \in DOMAIN gaps', Pending(j)'
                     PROVE  gaps'[i].from <= gaps'[j].from
        BY DEF GapOrder
      <4>2. CASE j = n
        BY <1>5, <2>1, <3>1, <4>2 DEF GapBounds
      <4>3. CASE j \in DOMAIN gaps
        BY <1>5, <2>1, <3>1, <4>1, <4>3 DEF GapOrder, Pending
      <4> QED
        BY <1>5, <4>2, <4>3
    <3> QED
      BY <3>2, <3>3, <3>4 DEF GapInv
  <2>2. CASE i = n
    <3>1. GapBounds(i)' /\ GapDone(i)' /\ GapOrder(i)'
      BY <1>2, <1>3, <1>5, <2>2 DEF GapBounds, GapDone, GapOrder, Pending
    <3>2. ASSUME NEW c \in Backups PROVE CleanUpTo(i, c, MyRow(c))'
      <4>1. \A x \in Nat : high < x /\ x <= MyRow(c) => x \in Handled(c)
        BY <1>1 DEF BackupInv, BackupRow
      <4>2. \A x \in Nat : high + 1 <= x /\ x <= MyRow(c) => x \in Handled(c)
        BY <1>3, <4>1
      <4> QED
        BY <1>1, <1>2, <1>5, <1>6, <2>2, <4>2 DEF CleanUpTo, Covers, Remembers
    <3>3. GapPending(i)'
      BY <1>5, <2>2, <3>2 DEF GapPending
    <3> QED
      BY <3>1, <3>3 DEF GapInv
  <2> QED
    BY <1>5, <2>1, <2>2
<1>10. ASSUME NEW c \in Backups PROVE BackupInv(c)'
  <2>1. \A j \in DOMAIN gaps : (Owned(j, c)' => Owned(j, c)) /\ (Pending(j)' => Pending(j))
    BY <1>2, <1>5 DEF Owned, Pending
  <2>2. \A j \in DOMAIN gaps' \ DOMAIN gaps : gaps'[j].from = high + 1 /\ ~Owned(j, c)'
    BY <1>5 DEF Owned
  <2>3. \A j \in DOMAIN gaps : gaps'[j].from = gaps[j].from /\ gaps'[j].to = gaps[j].to
    BY <1>5
  <2> QED
    BY <1>1, <1>2, <1>5, <1>6, <1>7, <2>1, <2>2, <2>3, BackupStable
<1>11. NoRefreshLost'
  BY <1>1, <1>2, <1>5, LossQuiet
<1> QED
  BY <1>8, <1>9, <1>10, <1>11 DEF IInv

\* Growth of the chain and the age of the main row are of no account here.
LEMMA EnvironmentSafe ==
    ASSUME IInv, TypeInv', OwnerInv', Lists', Remembers, Careful,
           ChainGrows \/ MainGoesStale \/ (\E k \in Keys : OperatorRewinds(k)) \/ UNCHANGED vars
    PROVE  IInv'
<1>1. TypeInv /\ Main \in Procs /\ \A c \in Backups : c \in Procs
  BY KeyFacts DEF IInv
<1>2. ~(\E k \in Keys : OperatorRewinds(k))
  BY <1>1 DEF OperatorRewinds, Careful, TypeInv, TypeOK
<1>3. UNCHANGED <<row, gaps, base, high, pc, cur, tgt, gap, me>>
  BY <1>2 DEF ChainGrows, MainGoesStale, vars, procVars, tableVars, chainVars
<1>4. /\ MainInv /\ (\A i \in DOMAIN gaps : GapInv(i)) /\ NoRefreshLost
      /\ \A c \in Backups : BackupInv(c)
  BY DEF IInv
<1>5. high <= high' /\ \A p \in Procs : MyRow(p)' = MyRow(p)
  BY <1>1, <1>3, Ranges DEF MyRow
<1>6. MainInv'
  BY <1>1, <1>3, <1>4, <1>5, MainQuiet
<1>7. (\A i \in DOMAIN gaps : GapInv(i))'
  BY <1>1, <1>3, <1>4, <1>5, GapsQuiet
<1>8. \A c \in Backups : BackupInv(c)'
  BY <1>1, <1>3, <1>4, <1>5, BackupQuiet
<1>9. NoRefreshLost'
  BY <1>3, <1>4, LossQuiet
<1> QED
  BY <1>6, <1>7, <1>8, <1>9 DEF IInv

LEMMA SafeStep ==
    ASSUME Careful, IInv, [Next]_vars
    PROVE  IInv'
<1>1. TypeInv' /\ OwnerInv' /\ Lists' /\ Remembers
  BY TypeStep, OwnerStep, ListStep DEF IInv
<1>2. CASE MainStep
  BY <1>1, <1>2, MainWaySafe, MainCursorSafe, RecordSafe DEF MainStep
<1>3. ASSUME NEW b \in Backups, BackupStep(b) PROVE IInv'
  <2>1. CASE Step(b)
    BY <1>1, <2>1, ScanSafe, SaveSafe
  <2>2. CASE ResolverLooks(b)
    BY <1>1, <2>2, LookSafe
  <2> QED
    BY <1>1, <1>3, <2>1, <2>2, StartSafe, AlignSafe, ResetSafe, ClaimSafe, FinishSafe
       DEF BackupStep, ResolverLooks
<1>4. CASE \E p \in Procs : Fail(p)
  BY <1>1, <1>4, FailSafe
<1>5. CASE ChainGrows \/ MainGoesStale \/ (\E k \in Keys : OperatorRewinds(k)) \/ UNCHANGED vars
  BY <1>1, <1>5, EnvironmentSafe
<1> QED
  BY <1>2, <1>3, <1>4, <1>5 DEF Next

LEMMA SafeInvariant ==
    ASSUME Careful
    PROVE  Spec => []IInv
<1>1. Init => IInv
  BY TypeInit, OwnerInit, SafeInit DEF IInv
<1>2. IInv /\ [Next]_vars => IInv'
  BY SafeStep
<1> QED
  BY <1>1, <1>2, PTL DEF Spec

(* No block is lost to the balances, for any number of backups and         *)
(* failures and any chain: the addresses of what the main cursor passed    *)
(* are refreshed, on a list, lost with a failed run, or asked for by an    *)
(* open row, also between the two statements of a skip (recordSkippedGap,  *)
(* SaveLastBlock).                                                         *)
THEOREM NothingLost ==
    ASSUME Careful
    PROVE  Spec => []NoRefreshLost
<1>1. IInv => NoRefreshLost
  BY DEF IInv
<1> QED
  BY <1>1, SafeInvariant, PTL

(* A row is marked done only when the addresses of all its blocks are      *)
(* refreshed or lost with a failed run: the resolver asks only where the   *)
(* backup's cursor stands (MarkSyncGapDone), and while a list is held the  *)
(* cursor is ahead of it.                                                  *)
THEOREM GapsClosedRefreshed ==
    ASSUME Careful
    PROVE  Spec => []DoneMeansRefreshed
<1>1. IInv => DoneMeansRefreshed
  <2> SUFFICES ASSUME IInv, NEW i \in DOMAIN gaps, gaps[i].status = "done", NEW x \in gaps[i].from .. gaps[i].to
               PROVE  x \in Settled
    BY DEF DoneMeansRefreshed, Settled
  <2>1. GapDone(i) /\ gaps[i].from \in Nat /\ gaps[i].to \in Nat
    BY Ranges DEF IInv, GapInv
  <2> QED
    BY <2>1 DEF GapDone, Covers
<1> QED
  BY <1>1, SafeInvariant, PTL

(* No backup's cursor stands above a block nobody answers for: it passes   *)
(* what others have claimed, never what nobody has.                        *)
THEOREM NothingPassed ==
    ASSUME Careful
    PROVE  Spec => []BackupPassesNothing
<1>1. IInv => BackupPassesNothing
  <2> SUFFICES ASSUME IInv, base # NoRow, NEW b \in Backups, NEW x \in Between(base, MyRow(b))
               PROVE  Answered(x)
    BY DEF BackupPassesNothing
  <2>1. TypeInv /\ BackupRow(b) /\ NoRefreshLost
    BY DEF IInv, BackupInv
  <2>2. base \in Nat /\ high \in Int /\ MyRow(b) \in Int /\ b \in Procs
    BY <2>1, Ranges DEF NoRow
  <2>3. x \in Nat /\ base < x /\ x <= MyRow(b)
    BY <2>2 DEF Between
  <2>4. CASE x <= high
    BY <2>1, <2>2, <2>3, <2>4 DEF NoRefreshLost, Between
  <2>5. CASE high < x
    BY <2>1, <2>2, <2>3, <2>5, HandledAnswered DEF BackupRow
  <2> QED
    BY <2>2, <2>3, <2>4, <2>5
<1> QED
  BY <1>1, SafeInvariant, PTL

-----------------------------------------------------------------------------
(* How far a scan goes: never past what is confirmed, and in a repair      *)
(* never out of the gap, though its cursor is reset behind its back.       *)

\* Its target is the gap's end at most; elsewhere it works on no gap.
Limited == {"reset", "decide", "loop", "scan", "save", "flush"}
Target(p) ==
    /\ tgt[p] + Confirmations <= head
    /\ pc[p] = "scan" => cur[p] + 1 <= tgt[p]
    /\ gap[p] # 0 /\ pc[p] \in Limited => tgt[p] <= gaps[gap[p]].to
    /\ pc[p] \notin Limited \cup {"cas", "check"} => gap[p] = 0

HeightInv ==
    /\ Confirmations < head /\ ConfirmedOnly
    /\ \A p \in Procs : Target(p)

\* While nobody lowers it, its cursor is not below the gap, and is the one it uses.
AtGap(b) ==
    rewinds = 0 =>
        /\ gap[b] # 0 /\ pc[b] \in {"decide", "loop", "scan", "save"} =>
              gaps[gap[b]].from <= MyRow(b) + 1
        /\ pc[b] \in {"scan", "save"} => cur[b] = MyRow(b)

RepairInv == \A b \in Backups : AtGap(b)

\* What every step leaves of the rows' bounds.
BoundsKept ==
    \A i \in DOMAIN gaps :
        i \in DOMAIN gaps' /\ gaps'[i].from = gaps[i].from /\ gaps'[i].to = gaps[i].to

LEMMA BoundsOf ==
    ASSUME TypeInv, NEW p \in Procs,
           \/ UNCHANGED gaps \/ (p = Main /\ RecordGap(p)) \/ Claim(p) \/ FinishGap(p)
    PROVE  BoundsKept
<1>1. /\ gaps \in Seq(GapRow) /\ TypeOK /\ me[p] \in Owner /\ cur[p] + 1 \in Nat /\ tgt[p] \in Nat
      /\ gap[p] # 0 => gap[p] \in DOMAIN gaps
      /\ p # Main => (pc[p] \in {"cas", "check"} => gap[p] # 0)
  <2>1. cur[p] + 1 \in Nat
    BY Numbers DEF TypeInv, TypeOK
  <2>2. me[p] \in Owner
    BY Ranges, OwnerFacts
  <2>3. p # Main => (pc[p] \in {"cas", "check"} => gap[p] # 0)
    BY KeyFacts DEF TypeInv, ControlInv
  <2> QED
    BY <2>1, <2>2, <2>3, Ranges DEF TypeInv, TypeOK
<1>2. pc[p] \in {"cas", "check"} => p # Main
  BY DEF TypeInv, ControlInv, MainPC
<1>3. CASE UNCHANGED gaps
  BY <1>3 DEF BoundsKept
<1>4. CASE p = Main /\ RecordGap(p)
  <2>1. CreateSyncGap(cur[p] + 1, tgt[p])
    BY <1>4 DEF RecordGap
  <2> QED
    BY <1>1, <2>1, AddedRow DEF BoundsKept
<1>5. CASE Claim(p)
  <2>1. gap[p] \in DOMAIN gaps
    BY <1>1, <1>2, <1>5 DEF Claim
  <2>2. UNCHANGED gaps \/ gaps' = Marked(gap[p], "repairing", me[p])
    BY <1>5 DEF Claim, Marked
  <2> QED
    BY <1>1, <1>3, <2>1, <2>2, ChangedRow DEF BoundsKept, Status
<1>6. CASE FinishGap(p)
  <2>1. gap[p] \in DOMAIN gaps
    BY <1>1, <1>2, <1>6 DEF FinishGap
  <2>2. gaps' = Marked(gap[p], "done", NoOwner) /\ NoOwner \in Owner
    BY <1>6, OwnerFacts DEF FinishGap, MarkDone, Marked
  <2> QED
    BY <1>1, <2>1, <2>2, ChangedRow DEF BoundsKept, Status
<1> QED
  BY <1>3, <1>4, <1>5, <1>6

LEMMA HeightInit == Init => HeightInv /\ RepairInv
<1> SUFFICES ASSUME Init PROVE HeightInv /\ RepairInv
  OBVIOUS
<1>1. /\ head = Confirmations + 1 /\ Confirmations \in Nat /\ scanned = {}
      /\ \A p \in Procs : tgt[p] = 0 /\ gap[p] = 0 /\ pc[p] \in {"idle", "down"}
  BY ConstantsOK DEF Init
<1>2. \A p \in Procs : Target(p)
  BY <1>1 DEF Target
<1>3. RepairInv
  BY <1>1, KeyFacts DEF RepairInv, AtGap
<1> QED
  BY <1>1, <1>2, <1>3 DEF HeightInv, ConfirmedOnly

\* What has to hold of a step of one process.
LEMMA TargetSafe ==
    ASSUME TypeInv, HeightInv, NEW p \in Procs, Moves(p), BoundsKept, UNCHANGED head,
           \A x \in scanned' : x \in scanned \/ x + Confirmations <= head,
           Target(p)'
    PROVE  HeightInv'
<1>1. ASSUME NEW q \in Procs, q # p PROVE Target(q)'
  <2>1. Target(q) /\ (gap[q] # 0 => gap[q] \in DOMAIN gaps)
    BY <1>1, Ranges DEF HeightInv
  <2>2. pc'[q] = pc[q] /\ cur'[q] = cur[q] /\ tgt'[q] = tgt[q] /\ gap'[q] = gap[q]
    BY <1>1, MovesApart DEF TypeInv
  <2> QED
    BY <2>1, <2>2 DEF Target, BoundsKept
<1> QED
  BY <1>1 DEF HeightInv, ConfirmedOnly

\* A process that leaves scan() aims at nothing.
LEMMA LeaveTarget ==
    ASSUME TypeInv, HeightInv, NEW p \in Procs, NEW l \in {"idle", "down"}, Leave(p, l), UNCHANGED head
    PROVE  Target(p)'
<1>1. /\ pc' = [pc EXCEPT ![p] = l] /\ tgt' = [tgt EXCEPT ![p] = 0] /\ gap' = [gap EXCEPT ![p] = 0]
      /\ p \in DOMAIN pc /\ p \in DOMAIN tgt /\ p \in DOMAIN gap
  BY DEF Leave, Goto, TypeInv, TypeOK
<1>2. pc'[p] = l /\ tgt'[p] = 0 /\ gap'[p] = 0
  BY <1>1
<1>3. 0 + Confirmations <= head
  BY ConstantsOK DEF HeightInv, TypeInv, TypeOK
<1> QED
  BY <1>2, <1>3 DEF Target, Limited

LEMMA StepTarget ==
    ASSUME TypeInv, HeightInv, NEW p \in Procs, Step(p)
    PROVE  /\ Target(p)' /\ UNCHANGED head
           /\ \A x \in scanned' : x \in scanned \/ x + Confirmations <= head
<1>1. /\ pc \in [Procs -> PC] /\ cur \in [Procs -> RowValue] /\ tgt \in [Procs -> Nat]
      /\ gap \in [Procs -> 0 .. Len(gaps)] /\ head \in Nat /\ Confirmations \in Nat
      /\ Target(p) /\ Confirmations < head
      /\ p = Main => gap[p] = 0
      /\ cur[p] \in Int /\ tgt[p] \in Int /\ MyRow(p) \in Int
  <2>1. /\ pc \in [Procs -> PC] /\ cur \in [Procs -> RowValue] /\ tgt \in [Procs -> Nat]
        /\ gap \in [Procs -> 0 .. Len(gaps)] /\ head \in Nat
        /\ p = Main => gap[p] = 0
    BY DEF TypeInv, TypeOK, ControlInv
  <2>2. Confirmations \in Nat /\ Target(p) /\ Confirmations < head
    BY ConstantsOK DEF HeightInv
  <2>3. cur[p] \in Int /\ tgt[p] \in Int /\ MyRow(p) \in Int
    BY Ranges
  <2> QED
    BY <2>1, <2>2, <2>3
<1>2. UNCHANGED <<head, gaps>>
  BY StepMoves
<1>3. CASE LoadCursor(p)
  <2>1. pc[p] = "idle" /\ pc'[p] = "height" /\ UNCHANGED <<tgt, gap, scanned>>
    BY <1>1, <1>3 DEF LoadCursor, Goto, chainVars
  <2> QED
    BY <1>1, <1>2, <2>1 DEF Target, Limited
<1>4. CASE LoadHeight(p)
  <2>1. /\ pc[p] = "height" /\ tgt'[p] = Confirmed(head) /\ pc'[p] \in {"init", "decide", "owned"}
        /\ UNCHANGED <<gap, scanned>>
    BY <1>1, <1>4 DEF LoadHeight, Goto, chainVars
  <2>2. gap'[p] = 0
    BY <1>1, <2>1 DEF Target, Limited
  <2>3. Confirmed(head) + Confirmations <= head
    BY <1>1 DEF Confirmed
  <2> QED
    BY <1>1, <1>2, <2>1, <2>2, <2>3 DEF Target, Limited
<1>5. CASE InitCursor(p) \/ Flush(p)
  <2>1. Leave(p, "idle") /\ UNCHANGED scanned
    BY <1>5 DEF InitCursor, Flush, chainVars
  <2> QED
    BY <1>2, <2>1, LeaveTarget
<1>6. CASE Decide(p)
  <2>1. UNCHANGED scanned /\ pc[p] = "decide"
    BY <1>6 DEF Decide, chainVars
  <2>2. CASE Leave(p, "idle")
    BY <1>2, <2>1, <2>2, LeaveTarget
  <2>3. CASE ~Leave(p, "idle")
    <3>1. /\ UNCHANGED <<tgt, gap, cur>>
          /\ pc'[p] = "loop" \/ (pc'[p] = "record" /\ p = Main)
      BY <1>1, <1>6, <2>3 DEF Decide, Goto, Stay, SkipAhead
    <3> QED
      BY <1>1, <1>2, <2>1, <3>1 DEF Target, Limited
  <2> QED
    BY <2>2, <2>3
<1>7. CASE Loop(p)
  <2>1. UNCHANGED <<scanned, tgt, gap>> /\ pc[p] = "loop"
    BY <1>7 DEF Loop, Stay, chainVars
  <2>2. \/ pc'[p] = "flush"
        \/ pc'[p] = "record" /\ p = Main
        \/ pc'[p] = "scan" /\ cur'[p] = MyRow(p) /\ ~Reached(MyRow(p), tgt[p])
    BY <1>1, <1>7 DEF Loop, Goto, SkipAhead
  <2>3. ~Reached(MyRow(p), tgt[p]) => MyRow(p) + 1 <= tgt[p]
    BY <1>1 DEF Reached
  <2> QED
    BY <1>1, <1>2, <2>1, <2>2, <2>3 DEF Target, Limited
<1>8. CASE ScanBlock(p)
  <2>1. /\ UNCHANGED <<tgt, gap>> /\ pc[p] = "scan" /\ pc'[p] = "save"
        /\ scanned' = scanned \cup {cur[p] + 1}
    BY <1>1, <1>8 DEF ScanBlock, Goto
  <2>2. cur[p] + 1 + Confirmations <= head
    BY <1>1, <2>1 DEF Target
  <2> QED
    BY <1>1, <1>2, <2>1, <2>2 DEF Target, Limited
<1>9. CASE SaveCursor(p)
  <2>1. UNCHANGED <<tgt, gap, scanned>> /\ pc[p] = "save" /\ pc'[p] = "loop"
    BY <1>1, <1>9 DEF SaveCursor, Goto, chainVars
  <2> QED
    BY <1>1, <1>2, <2>1 DEF Target, Limited
<1> QED
  BY <1>3, <1>4, <1>5, <1>6, <1>7, <1>8, <1>9 DEF Step

LEMMA SkipTarget ==
    ASSUME TypeInv, HeightInv, RecordGap(Main) \/ SkipToLatest(Main)
    PROVE  Target(Main)' /\ UNCHANGED <<head, scanned>>
<1>1. UNCHANGED <<head, scanned>> /\ Main \in Procs
  BY KeyFacts DEF RecordGap, SkipToLatest, chainVars
<1>2. CASE Leave(Main, "idle")
  BY <1>1, <1>2, LeaveTarget
<1>3. CASE \E l \in {"skip", "flush"} : Goto(Main, l) /\ Stay
  <2>1. pc'[Main] \in {"skip", "flush"} /\ gap'[Main] = 0 /\ UNCHANGED tgt /\ Target(Main)
    BY <1>1, <1>3 DEF Stay, Goto, TypeInv, TypeOK, ControlInv, HeightInv
  <2> QED
    BY <1>1, <2>1 DEF Target, Limited
<1> QED
  BY <1>2, <1>3 DEF RecordGap, SkipToLatest, Stay

\* The resolver's steps: the end of the gap limits the target.
LEMMA ResolverTarget ==
    ASSUME TypeInv, HeightInv, NEW b \in Backups,
           Start(b) \/ ResolverLooks(b) \/ ResolverWrites(b), BoundsKept
    PROVE  Target(b)' /\ UNCHANGED <<head, scanned>>
<1>1. /\ pc \in [Procs -> PC] /\ tgt \in [Procs -> Nat] /\ gap \in [Procs -> 0 .. Len(gaps)]
      /\ head \in Nat /\ Confirmations \in Nat /\ b \in Procs /\ Target(b)
      /\ gap[b] # 0 => gap[b] \in DOMAIN gaps
      /\ pc[b] \in {"cas", "check", "reset"} => gap[b] # 0
      /\ \A i \in DOMAIN gaps : gaps[i].to \in Nat
      /\ tgt[b] \in Nat
  BY Ranges, KeyFacts, ConstantsOK DEF TypeInv, TypeOK, ControlInv, HeightInv
<1>2. UNCHANGED <<head, scanned>>
  BY DEF Start, ResolverLooks, FindOwned, SelectPending, EnterGap, CheckOpen, CheckMain,
         ResolverWrites, Align, ResetCursor, Claim, FinishGap, chainVars
<1>3. CASE Start(b)
  <2>1. pc[b] = "down" /\ pc'[b] \in {"align", "idle"} /\ UNCHANGED <<tgt, gap>>
    BY <1>1, <1>3 DEF Start, Goto
  <2> QED
    BY <1>1, <1>2, <2>1 DEF Target, Limited
<1>4. CASE FindOwned(b) \/ SelectPending(b)
  <2>1. /\ pc[b] \in {"owned", "claim"} /\ UNCHANGED tgt
        /\ \/ pc'[b] \in {"check", "cas"}
           \/ pc'[b] \in {"claim", "any"} /\ UNCHANGED gap
    BY <1>1, <1>4 DEF FindOwned, SelectPending, Goto
  <2> QED
    BY <1>1, <1>2, <2>1 DEF Target, Limited
<1>5. CASE EnterGap(b)
  <2>1. /\ pc[b] = "check" /\ pc'[b] \in {"reset", "decide"} /\ UNCHANGED gap
        /\ tgt'[b] = (IF gaps[gap[b]].to < tgt[b] THEN gaps[gap[b]].to ELSE tgt[b]) /\ UNCHANGED gaps
    BY <1>1, <1>5 DEF EnterGap, Goto, tableVars
  <2>2. gaps[gap[b]].to \in Nat
    BY <1>1, <2>1
  <2>3. tgt'[b] <= tgt[b] /\ tgt'[b] <= gaps[gap[b]].to /\ tgt'[b] \in Nat
    BY <1>1, <2>1, <2>2
  <2> QED
    BY <1>1, <1>2, <2>1, <2>3 DEF Target, Limited
<1>6. CASE CheckOpen(b) \/ CheckMain(b)
  <2>1. pc[b] \in {"any", "main"} /\ (Leave(b, "idle") \/ (UNCHANGED <<tgt, gap>> /\ pc'[b] \in {"main", "decide"}))
    BY <1>1, <1>6 DEF CheckOpen, CheckMain, Goto, Stay
  <2>2. CASE Leave(b, "idle")
    BY <1>1, <1>2, <2>2, LeaveTarget
  <2>3. CASE UNCHANGED <<tgt, gap>> /\ pc'[b] \in {"main", "decide"}
    BY <1>1, <1>2, <2>1, <2>3 DEF Target, Limited
  <2> QED
    BY <2>1, <2>2, <2>3
<1>7. CASE Align(b)
  BY <1>1, <1>2, <1>7, LeaveTarget DEF Align
<1>8. CASE ResetCursor(b)
  <2>1. pc[b] = "reset" /\ pc'[b] = "decide" /\ UNCHANGED <<tgt, gap, gaps>>
    BY <1>1, <1>8 DEF ResetCursor, Goto
  <2> QED
    BY <1>1, <1>2, <2>1 DEF Target, Limited
<1>9. CASE Claim(b)
  <2>1. UNCHANGED tgt /\ (pc'[b] = "check" \/ (pc'[b] = "claim" /\ gap'[b] = 0))
    BY <1>1, <1>9 DEF Claim, Goto
  <2> QED
    BY <1>1, <1>2, <2>1 DEF Target, Limited
<1>10. CASE FinishGap(b)
  <2>1. UNCHANGED tgt /\ pc'[b] = "owned" /\ gap'[b] = 0
    BY <1>1, <1>10 DEF FinishGap, Goto
  <2> QED
    BY <1>1, <1>2, <2>1 DEF Target, Limited
<1> QED
  BY <1>2, <1>3, <1>4, <1>5, <1>6, <1>7, <1>8, <1>9, <1>10 DEF ResolverLooks, ResolverWrites

\* The chain only grows, and nothing else is touched from outside.
LEMMA EnvironmentTarget ==
    ASSUME TypeInv, HeightInv,
           ChainGrows \/ MainGoesStale \/ (\E k \in Keys : OperatorRewinds(k)) \/ UNCHANGED vars
    PROVE  HeightInv'
<1>1. UNCHANGED <<pc, cur, tgt, gap, gaps, scanned>>
  BY DEF ChainGrows, MainGoesStale, OperatorRewinds, vars, chainVars, procVars, tableVars
<1>2. head \in Nat /\ (head' = head \/ head' = head + 1)
  BY DEF ChainGrows, MainGoesStale, OperatorRewinds, vars, chainVars, TypeInv, TypeOK
<1>3. scanned \subseteq Nat /\ Confirmations \in Nat /\ \A p \in Procs : tgt[p] \in Nat
  BY ConstantsOK DEF TypeInv, TypeOK
<1>4. ASSUME NEW p \in Procs PROVE Target(p)'
  BY <1>1, <1>2, <1>3 DEF HeightInv, Target
<1>5. ConfirmedOnly' /\ Confirmations < head'
  BY <1>1, <1>2, <1>3 DEF HeightInv, ConfirmedOnly
<1> QED
  BY <1>4, <1>5 DEF HeightInv

LEMMA HeightStep == TypeInv /\ HeightInv /\ [Next]_vars => HeightInv'
<1> SUFFICES ASSUME TypeInv, HeightInv, [Next]_vars PROVE HeightInv'
  OBVIOUS
<1>1. ASSUME NEW p \in Procs, Step(p) PROVE HeightInv'
  <2>1. Moves(p) /\ UNCHANGED gaps
    BY <1>1, StepMoves
  <2>2. BoundsKept
    BY <2>1, BoundsOf
  <2> QED
    BY <1>1, <2>1, <2>2, StepTarget, TargetSafe
<1>2. CASE RecordGap(Main) \/ SkipToLatest(Main)
  <2>1. Moves(Main) /\ Main \in Procs
    BY <1>2, SkipMoves, KeyFacts
  <2>2. BoundsKept
    BY <1>2, <2>1, BoundsOf DEF SkipToLatest
  <2> QED
    BY <1>2, <2>1, <2>2, SkipTarget, TargetSafe
<1>3. ASSUME NEW b \in Backups, Start(b) \/ ResolverLooks(b) \/ ResolverWrites(b) PROVE HeightInv'
  <2>1. Moves(b) /\ b \in Procs
    BY <1>3, StartMoves, LookMoves, WriteMoves, KeyFacts
  <2>2. UNCHANGED gaps \/ Claim(b) \/ FinishGap(b)
    BY <1>3 DEF Start, ResolverLooks, FindOwned, SelectPending, EnterGap, CheckOpen, CheckMain,
                ResolverWrites, Align, ResetCursor, tableVars
  <2>3. BoundsKept
    BY <2>1, <2>2, BoundsOf
  <2> QED
    BY <1>3, <2>1, <2>3, ResolverTarget, TargetSafe
<1>4. ASSUME NEW p \in Procs, Fail(p) PROVE HeightInv'
  <2>1. Moves(p) /\ UNCHANGED <<head, scanned, gaps>>
    BY <1>4, FailMoves DEF chainVars, tableVars
  <2>2. BoundsKept
    BY <2>1, BoundsOf
  <2>3. Target(p)'
    <3>1. PICK l \in {"idle", "down"} : Leave(p, l)
      BY <1>4 DEF Fail
    <3> QED
      BY <2>1, <3>1, LeaveTarget
  <2> QED
    BY <2>1, <2>2, <2>3, TargetSafe
<1>5. CASE ChainGrows \/ MainGoesStale \/ (\E k \in Keys : OperatorRewinds(k)) \/ UNCHANGED vars
  BY <1>5, EnvironmentTarget
<1>6. MainStep => Step(Main) \/ RecordGap(Main) \/ SkipToLatest(Main)
  BY DEF MainStep
<1>7. \A b \in Backups : BackupStep(b) => Step(b) \/ Start(b) \/ ResolverLooks(b) \/ ResolverWrites(b)
  BY DEF BackupStep, ResolverLooks, ResolverWrites
<1> QED
  BY <1>1, <1>2, <1>3, <1>4, <1>5, <1>6, <1>7, KeyFacts DEF Next

LEMMA HeightAlways == Spec => [](TypeInv /\ HeightInv)
<1>1. Init => HeightInv
  BY HeightInit
<1> QED
  BY <1>1, HeightStep, TypeAlways, PTL DEF Spec

(* No block is scanned before it has its confirmations (bsc.confirmations  *)
(* of scan()), whoever scans it and however its cursor came about.         *)
THEOREM ScansAreConfirmed == Spec => []ConfirmedOnly
<1>1. HeightInv => ConfirmedOnly
  BY DEF HeightInv
<1> QED
  BY <1>1, HeightAlways, PTL

\* A cursor moves only by its own process, unless an operator moves it.
LEMMA RowsApart ==
    ASSUME TypeInv, NEW p \in Procs,
           \/ Step(p) \/ Start(p) \/ ResolverLooks(p) \/ ResolverWrites(p) \/ Fail(p)
           \/ p = Main /\ (RecordGap(p) \/ SkipToLatest(p))
    PROVE  /\ \A k \in Keys : k # Key[p] => row'[k] = row[k]
           /\ UNCHANGED rewinds
<1>1. row \in [Keys -> RowValue]
  BY DEF TypeInv, TypeOK
<1>2. /\ UNCHANGED row \/ \E block : row' = [row EXCEPT ![Key[p]] = block]
      /\ UNCHANGED rewinds
  BY Zenon DEF Step, LoadCursor, LoadHeight, InitCursor, Decide, Loop, ScanBlock, SaveCursor, Flush, Start,
     ResolverLooks, FindOwned, SelectPending, EnterGap, CheckOpen, CheckMain, ResolverWrites, Align,
     ResetCursor, Claim, FinishGap, Fail, RecordGap, SkipToLatest, Save, tableVars, budgetVars
<1> QED
  BY <1>1, <1>2

\* A step of another process leaves the backup at its gap.
LEMMA AtGapOthers ==
    ASSUME TypeInv, NEW p \in Procs, NEW b \in Backups, b # p, Key[b] # Key[p], AtGap(b), Moves(p), BoundsKept,
           \A k \in Keys : k # Key[p] => row'[k] = row[k], UNCHANGED rewinds
    PROVE  AtGap(b)'
<1>1. b \in Procs /\ Key[b] \in Keys /\ (gap[b] # 0 => gap[b] \in DOMAIN gaps)
  BY KeyFacts, Ranges
<1>2. pc'[b] = pc[b] /\ cur'[b] = cur[b] /\ gap'[b] = gap[b]
  BY <1>1, MovesApart DEF TypeInv
<1>3. MyRow(b)' = MyRow(b)
  BY <1>1 DEF MyRow
<1> QED
  BY <1>1, <1>2, <1>3 DEF AtGap, BoundsKept

\* Its own steps.
LEMMA AtGapStep ==
    ASSUME TypeInv, HeightInv, NEW b \in Backups, AtGap(b), Step(b)
    PROVE  AtGap(b)'
<1>1. /\ pc \in [Procs -> PC] /\ cur \in [Procs -> RowValue] /\ row \in [Keys -> RowValue]
      /\ gap \in [Procs -> 0 .. Len(gaps)] /\ b \in Procs /\ b # Main /\ Key[b] \in Keys
  BY KeyFacts DEF TypeInv, TypeOK
<1>2. /\ cur[b] \in Int /\ MyRow(b) \in Int
      /\ gap[b] # 0 => gap[b] \in DOMAIN gaps /\ gaps[gap[b]].from \in Nat
  BY <1>1, Ranges
<1>3. UNCHANGED <<gaps, rewinds>>
  BY <1>1, StepMoves DEF budgetVars
<1>4. CASE LoadCursor(b) \/ InitCursor(b) \/ Flush(b)
  <2>1. pc'[b] \in {"height", "idle"}
    BY <1>1, <1>4 DEF LoadCursor, InitCursor, Flush, Leave, Goto
  <2> QED
    BY <2>1 DEF AtGap
<1>5. CASE LoadHeight(b)
  <2>1. pc'[b] \in {"init", "owned"}
    BY <1>1, <1>5 DEF LoadHeight, Goto
  <2> QED
    BY <2>1 DEF AtGap
<1>6. CASE Decide(b)
  <2>1. pc[b] = "decide" /\ row' = row
    BY <1>6 DEF Decide, tableVars
  <2>2. pc'[b] = "idle" \/ (pc'[b] = "loop" /\ UNCHANGED gap)
    BY <1>1, <1>6 DEF Decide, Leave, Goto, Stay, SkipAhead
  <2> QED
    BY <1>3, <2>1, <2>2 DEF AtGap, MyRow
<1>7. CASE Loop(b)
  <2>1. pc[b] = "loop" /\ row' = row /\ UNCHANGED gap
    BY <1>7 DEF Loop, tableVars, Stay
  <2>2. pc'[b] = "flush" \/ (pc'[b] = "scan" /\ cur'[b] = MyRow(b))
    BY <1>1, <1>7 DEF Loop, Goto, SkipAhead
  <2> QED
    BY <1>3, <2>1, <2>2 DEF AtGap, MyRow
<1>8. CASE ScanBlock(b)
  <2>1. pc[b] = "scan" /\ pc'[b] = "save" /\ row' = row /\ UNCHANGED <<gap, cur>>
    BY <1>1, <1>8 DEF ScanBlock, tableVars, Goto
  <2> QED
    BY <1>3, <2>1 DEF AtGap, MyRow
<1>9. CASE SaveCursor(b)
  <2>1. pc[b] = "save" /\ pc'[b] = "loop" /\ UNCHANGED gap /\ Save(b, cur[b] + 1)
    BY <1>1, <1>9 DEF SaveCursor, Goto
  <2>2. MyRow(b)' = cur[b] + 1
    BY <1>1, <2>1 DEF Save, MyRow
  <2> QED
    BY <1>2, <1>3, <2>1, <2>2 DEF AtGap
<1> QED
  BY <1>4, <1>5, <1>6, <1>7, <1>8, <1>9 DEF Step

LEMMA AtGapResolver ==
    ASSUME TypeInv, HeightInv, NEW b \in Backups, AtGap(b),
           Start(b) \/ ResolverLooks(b) \/ ResolverWrites(b) \/ Fail(b)
    PROVE  AtGap(b)'
<1>1. /\ pc \in [Procs -> PC] /\ cur \in [Procs -> RowValue] /\ row \in [Keys -> RowValue]
      /\ gap \in [Procs -> 0 .. Len(gaps)] /\ b \in Procs /\ b # Main /\ Key[b] \in Keys
      /\ pc[b] \in {"cas", "check", "reset"} => gap[b] # 0
      /\ Target(b)
  BY KeyFacts DEF TypeInv, TypeOK, ControlInv, HeightInv
<1>2. /\ MyRow(b) \in Int
      /\ gap[b] # 0 => gap[b] \in DOMAIN gaps /\ gaps[gap[b]].from \in Nat
  BY <1>1, Ranges
<1>3. CASE EnterGap(b)
  <2>1. /\ pc[b] = "check" /\ UNCHANGED <<gap, gaps, row>>
        /\ \/ pc'[b] = "reset"
           \/ pc'[b] = "decide" /\ ~(MyRow(b) < gaps[gap[b]].from - 1)
    BY <1>1, <1>3 DEF EnterGap, Goto, tableVars
  <2>2. gaps[gap[b]].from \in Nat
    BY <1>1, <1>2, <2>1
  <2>3. pc'[b] = "decide" => gaps[gap[b]].from <= MyRow(b) + 1
    BY <1>2, <2>1, <2>2
  <2> QED
    BY <2>1, <2>3 DEF AtGap, MyRow
<1>4. CASE ResetCursor(b)
  <2>1. /\ pc[b] = "reset" /\ pc'[b] = "decide" /\ UNCHANGED <<gap, gaps>>
        /\ Save(b, BeforeGap(gaps[gap[b]].from))
    BY <1>1, <1>4 DEF ResetCursor, Goto
  <2>2. gaps[gap[b]].from \in Nat
    BY <1>1, <1>2, <2>1
  <2>3. MyRow(b)' = BeforeGap(gaps[gap[b]].from)
    BY <1>1, <2>1 DEF Save, MyRow
  <2>4. gaps[gap[b]].from <= BeforeGap(gaps[gap[b]].from) + 1
    BY <2>2 DEF BeforeGap
  <2> QED
    BY <2>1, <2>3, <2>4 DEF AtGap
<1>5. CASE CheckMain(b)
  <2>1. pc[b] = "main" /\ (pc'[b] = "idle" \/ (pc'[b] = "decide" /\ UNCHANGED gap))
    BY <1>1, <1>5 DEF CheckMain, Leave, Goto, Stay
  <2>2. gap[b] = 0
    BY <1>1, <2>1 DEF Target, Limited
  <2> QED
    BY <2>1, <2>2 DEF AtGap
<1>6. CASE \/ Start(b) \/ FindOwned(b) \/ SelectPending(b) \/ CheckOpen(b) \/ Align(b)
           \/ Claim(b) \/ FinishGap(b) \/ Fail(b)
  <2>1. pc'[b] \in {"align", "idle", "check", "claim", "cas", "any", "main", "owned", "down"}
    BY <1>1, <1>6 DEF Start, FindOwned, SelectPending, CheckOpen, Align, Claim, FinishGap, Fail, Leave, Goto
  <2> QED
    BY <2>1 DEF AtGap
<1> QED
  BY <1>3, <1>4, <1>5, <1>6 DEF ResolverLooks, ResolverWrites

SeparateKeys == \A b, c \in Backups : Key[b] = Key[c] => b = c

LEMMA RepairStep == SeparateKeys /\ TypeInv /\ HeightInv /\ RepairInv /\ [Next]_vars => RepairInv'
<1> SUFFICES ASSUME SeparateKeys, TypeInv, HeightInv, RepairInv, [Next]_vars, NEW b \in Backups
             PROVE  AtGap(b)'
  BY DEF RepairInv
<1>1. AtGap(b) /\ b \in Procs /\ b # Main /\ Key[b] # Key[Main] /\ Main \in Procs
  BY KeyFacts DEF RepairInv
<1>2. ASSUME NEW p \in Procs, p # b, Moves(p), BoundsKept,
             \/ Step(p) \/ Start(p) \/ ResolverLooks(p) \/ ResolverWrites(p) \/ Fail(p)
             \/ p = Main /\ (RecordGap(p) \/ SkipToLatest(p))
      PROVE  AtGap(b)'
  <2>1. Key[b] # Key[p]
    BY <1>1, <1>2, KeyFacts DEF SeparateKeys
  <2>2. (\A k \in Keys : k # Key[p] => row'[k] = row[k]) /\ UNCHANGED rewinds
    BY <1>2, RowsApart
  <2> QED
    BY <1>1, <1>2, <2>1, <2>2, AtGapOthers
<1>3. ASSUME NEW p \in Procs, Step(p) PROVE AtGap(b)'
  <2>1. Moves(p) /\ UNCHANGED gaps
    BY <1>3, StepMoves
  <2>2. BoundsKept
    BY <2>1, BoundsOf
  <2> QED
    BY <1>1, <1>2, <1>3, <2>1, <2>2, AtGapStep
<1>4. CASE RecordGap(Main) \/ SkipToLatest(Main)
  <2>1. Moves(Main)
    BY <1>4, SkipMoves
  <2>2. BoundsKept
    BY <1>1, <1>4, BoundsOf DEF SkipToLatest
  <2> QED
    BY <1>1, <1>2, <1>4, <2>1, <2>2
<1>5. ASSUME NEW c \in Backups, Start(c) \/ ResolverLooks(c) \/ ResolverWrites(c) PROVE AtGap(b)'
  <2>1. Moves(c) /\ c \in Procs
    BY <1>5, StartMoves, LookMoves, WriteMoves, KeyFacts
  <2>2. UNCHANGED gaps \/ Claim(c) \/ FinishGap(c)
    BY <1>5 DEF Start, ResolverLooks, FindOwned, SelectPending, EnterGap, CheckOpen, CheckMain,
                ResolverWrites, Align, ResetCursor, tableVars
  <2>3. BoundsKept
    BY <2>1, <2>2, BoundsOf
  <2> QED
    BY <1>1, <1>2, <1>5, <2>1, <2>3, AtGapResolver
<1>6. ASSUME NEW p \in Procs, Fail(p) PROVE AtGap(b)'
  <2>1. Moves(p) /\ UNCHANGED gaps
    BY <1>6, FailMoves DEF tableVars
  <2>2. BoundsKept
    BY <2>1, BoundsOf
  <2> QED
    BY <1>1, <1>2, <1>6, <2>1, <2>2, AtGapResolver
<1>7. CASE \E k \in Keys : OperatorRewinds(k)
  <2>1. rewinds' = rewinds + 1 /\ rewinds \in Nat
    BY <1>7 DEF OperatorRewinds, TypeInv, TypeOK
  <2>2. rewinds' # 0
    BY <2>1
  <2> QED
    BY <2>2 DEF AtGap
<1>8. CASE ChainGrows \/ MainGoesStale \/ UNCHANGED vars
  <2>1. UNCHANGED <<pc, cur, gap, gaps, row, rewinds>>
    BY <1>8 DEF ChainGrows, MainGoesStale, vars, procVars, tableVars, budgetVars
  <2> QED
    BY <1>1, <2>1 DEF AtGap, MyRow
<1>9. MainStep => Step(Main) \/ RecordGap(Main) \/ SkipToLatest(Main)
  BY DEF MainStep
<1>10. \A c \in Backups : BackupStep(c) => Step(c) \/ Start(c) \/ ResolverLooks(c) \/ ResolverWrites(c)
  BY DEF BackupStep, ResolverLooks, ResolverWrites
<1> QED
  BY <1>3, <1>4, <1>5, <1>6, <1>7, <1>8, <1>9, <1>10, KeyFacts DEF Next

(* A repair scans the gap's blocks alone: not above its end, though the    *)
(* cursor scan() has read first is stale after the reset, and not below    *)
(* its start unless an operator lowers the cursor meanwhile. Backups have  *)
(* sync keys of their own; nothing else is assumed.                        *)
THEOREM GapRepairsStayInGap ==
    ASSUME SeparateKeys
    PROVE  Spec => RepairStaysInGap
<1>1. TypeInv /\ HeightInv /\ RepairInv /\ [Next]_vars
          => [\A b \in Backups :
                 ScanBlock(b) /\ gap[b] # 0 =>
                     /\ cur[b] + 1 <= gaps[gap[b]].to
                     /\ rewinds = 0 => Covers(gap[b], cur[b] + 1)]_vars
  <2> SUFFICES ASSUME TypeInv, HeightInv, RepairInv, NEW b \in Backups, ScanBlock(b), gap[b] # 0
               PROVE  /\ cur[b] + 1 <= gaps[gap[b]].to
                      /\ rewinds = 0 => Covers(gap[b], cur[b] + 1)
    OBVIOUS
  <2>1. /\ pc[b] = "scan" /\ b \in Procs /\ gap[b] \in DOMAIN gaps /\ gaps[gap[b]].to \in Nat
        /\ gaps[gap[b]].from \in Nat /\ cur[b] \in Int /\ tgt[b] \in Nat
    BY KeyFacts, Ranges DEF ScanBlock
  <2>2. cur[b] + 1 <= tgt[b] /\ tgt[b] <= gaps[gap[b]].to
    BY <2>1 DEF HeightInv, Target, Limited
  <2>3. rewinds = 0 => gaps[gap[b]].from <= cur[b] + 1
    BY <2>1 DEF RepairInv, AtGap
  <2> QED
    BY <2>1, <2>2, <2>3 DEF Covers
<1>2. Init => RepairInv
  BY HeightInit
<1>3. TypeInv /\ HeightInv /\ RepairInv /\ [Next]_vars => RepairInv'
  BY RepairStep
<1> QED
  BY <1>1, <1>2, <1>3, HeightAlways, PTL DEF Spec, RepairStaysInGap

-----------------------------------------------------------------------------
(* Blocks the main cursor passed without books can be found from the gap   *)
(* rows, whatever was rewound, late or lost.                               *)

MainStarted ==
    /\ MyRow(Main) <= high
    /\ base = NoRow => MyRow(Main) = NoRow /\ high = NoRow
    /\ base # NoRow => MyRow(Main) # NoRow
MainPlace ==
    /\ pc[Main] \in AtCursor \cup {"height"} => cur[Main] <= high
    /\ pc[Main] = "height" => (cur[Main] = NoRow <=> base = NoRow)
    /\ pc[Main] \in AtCursor => base # NoRow
    /\ pc[Main] = "init" => base = NoRow
MainBooks ==
    /\ pc[Main] = "save" => cur[Main] + 1 \in booked
    /\ pc[Main] = "skip" => \E i \in DOMAIN gaps : gaps[i].from = cur[Main] + 1 /\ gaps[i].to = tgt[Main]

BooksInv == MainStarted /\ MainPlace /\ MainBooks /\ UnbookedIsInGap

LEMMA BooksInit == Init => BooksInv
<1> SUFFICES ASSUME Init PROVE BooksInv
  OBVIOUS
<1>1. /\ base = NoRow /\ high = NoRow /\ MyRow(Main) = NoRow /\ pc[Main] = "idle"
  BY KeyFacts DEF Init, MyRow
<1> QED
  BY <1>1 DEF BooksInv, MainStarted, MainPlace, MainBooks, UnbookedIsInGap, AtCursor, NoRow

\* A block that is in the books or in a row stays there.
LEMMA FoundStays ==
    ASSUME BoundsKept, booked \subseteq booked', NEW x,
           x \in booked \/ \E i \in DOMAIN gaps : Covers(i, x)
    PROVE  x \in booked' \/ \E i \in DOMAIN gaps' : gaps'[i].from <= x /\ x <= gaps'[i].to
  BY DEF BoundsKept, Covers

\* Steps in which the main scanner stays where it is.
LEMMA OthersBook ==
    ASSUME TypeInv, BooksInv, BoundsKept, booked \subseteq booked', UNCHANGED <<base, high>>,
           MyRow(Main)' = MyRow(Main),
           pc'[Main] = pc[Main], cur'[Main] = cur[Main], tgt'[Main] = tgt[Main]
    PROVE  BooksInv'
<1>1. MainStarted' /\ MainPlace'
  BY DEF BooksInv, MainStarted, MainPlace
<1>2. MainBooks'
  BY DEF BooksInv, MainBooks, BoundsKept
<1>3. UnbookedIsInGap'
  BY FoundStays DEF BooksInv, UnbookedIsInGap, Between, Covers
<1> QED
  BY <1>1, <1>2, <1>3 DEF BooksInv

\* Its steps between two statements.
LEMMA MainWayBooks ==
    ASSUME TypeInv, BooksInv, LoadCursor(Main) \/ LoadHeight(Main) \/ Decide(Main) \/ Loop(Main)
                              \/ ScanBlock(Main) \/ Flush(Main) \/ Fail(Main)
    PROVE  BooksInv'
<1>1. /\ Main \in Procs /\ pc \in [Procs -> PC] /\ cur \in [Procs -> RowValue]
      /\ high \in Int /\ base \in Int /\ MyRow(Main) \in Int /\ cur[Main] \in Int
      /\ MainStarted /\ MainPlace /\ MainBooks /\ UnbookedIsInGap
  BY Ranges DEF TypeInv, TypeOK, BooksInv
<1>2. /\ UNCHANGED <<row, gaps, base, high>> /\ booked \subseteq booked'
      /\ ScanBlock(Main) \/ UNCHANGED booked
  BY DEF LoadCursor, LoadHeight, Decide, Loop, ScanBlock, Flush, Fail, tableVars, chainVars, KeepsBooks
<1>3. MyRow(Main)' = MyRow(Main) /\ MainStarted'
  BY <1>1, <1>2 DEF MainStarted, MyRow
<1>4. UnbookedIsInGap'
  BY <1>1, <1>2 DEF UnbookedIsInGap, Between, Covers
<1>5. MainPlace' /\ MainBooks'
  <2>1. CASE LoadCursor(Main)
    <3>1. pc'[Main] = "height" /\ cur'[Main] = MyRow(Main)
      BY <1>1, <2>1 DEF LoadCursor, Goto
    <3> QED
      BY <1>1, <1>2, <3>1 DEF MainPlace, MainBooks, MainStarted, AtCursor
  <2>2. CASE LoadHeight(Main)
    <3>1. pc[Main] = "height" /\ pc'[Main] \in {"init", "decide"} /\ UNCHANGED cur
      BY <1>1, <2>2 DEF LoadHeight, Goto
    <3>2. pc'[Main] = "init" <=> cur[Main] = NoRow
      BY <1>1, <2>2 DEF LoadHeight, Goto
    <3> QED
      BY <1>1, <1>2, <3>1, <3>2 DEF MainPlace, MainBooks, AtCursor
  <2>3. CASE Decide(Main)
    <3>1. pc[Main] = "decide" /\ (pc'[Main] = "idle" \/ (pc'[Main] \in {"record", "loop"} /\ UNCHANGED cur))
      BY <1>1, <2>3 DEF Decide, Goto, Leave, Stay
    <3> QED
      BY <1>1, <1>2, <3>1 DEF MainPlace, MainBooks, AtCursor
  <2>4. CASE Loop(Main)
    <3>1. /\ pc[Main] = "loop" /\ pc'[Main] \in {"flush", "record", "scan"}
          /\ pc'[Main] # "flush" => cur'[Main] = MyRow(Main)
      BY <1>1, <2>4 DEF Loop, Goto, Stay
    <3> QED
      BY <1>1, <1>2, <3>1 DEF MainPlace, MainBooks, MainStarted, AtCursor
  <2>5. CASE ScanBlock(Main)
    <3>1. pc[Main] = "scan" /\ pc'[Main] = "save" /\ UNCHANGED cur /\ cur[Main] + 1 \in booked'
      BY <1>1, <2>5 DEF ScanBlock, Goto, KeepsBooks
    <3> QED
      BY <1>1, <1>2, <3>1 DEF MainPlace, MainBooks, AtCursor
  <2>6. CASE Flush(Main) \/ Fail(Main)
    <3>1. pc'[Main] = "idle"
      BY <1>1, <2>6 DEF Flush, Fail, Leave, Goto
    <3> QED
      BY <3>1 DEF MainPlace, MainBooks, AtCursor
  <2> QED
    BY <2>1, <2>2, <2>3, <2>4, <2>5, <2>6
<1> QED
  BY <1>3, <1>4, <1>5 DEF BooksInv

Found(block) ==
    \A x \in Nat : high < x /\ x <= block => x \in booked \/ \E i \in DOMAIN gaps : Covers(i, x)

\* The statements by which its cursor moves, and the row it leaves behind.
LEMMA MainMovesBooks ==
    ASSUME TypeInv, BooksInv, UNCHANGED <<gaps, booked>>, NEW block \in Nat, Save(Main, block),
           pc'[Main] \in {"idle", "flush"} \/ (pc'[Main] = "loop" /\ cur'[Main] = block),
           \/ base' = block /\ high = NoRow
           \/ base # NoRow /\ base' = base /\ Found(block)
    PROVE  BooksInv'
<1>1. /\ Main \in Procs /\ high \in Int /\ -1 <= high /\ base \in Int /\ -1 <= base /\ TypeOK
      /\ MainStarted /\ UnbookedIsInGap
  BY Ranges DEF TypeInv, BooksInv
<1>2. MyRow(Main)' = block /\ high' = IF block > high THEN block ELSE high
  BY <1>1, SaveTypes, Numbers DEF MyRow, Save
<1>3. MainStarted'
  BY <1>1, <1>2 DEF MainStarted, NoRow
<1>4. MainPlace' /\ MainBooks'
  <2>1. base' # NoRow /\ block <= high'
    BY <1>1, <1>2 DEF NoRow
  <2> QED
    BY <2>1 DEF MainPlace, MainBooks, AtCursor
<1>5. UnbookedIsInGap'
  <2> SUFFICES ASSUME NEW x \in Between(base', high')
               PROVE  x \in booked' \/ \E i \in DOMAIN gaps' : Covers(i, x)'
    BY DEF UnbookedIsInGap, Between
  <2>1. x \in booked \/ \E i \in DOMAIN gaps : Covers(i, x)
    <3>1. base' \in Nat /\ high' \in Int /\ x \in Nat /\ base' < x /\ x <= high'
      BY <1>1, <1>2 DEF Between, NoRow
    <3>2. CASE base' = block /\ high = NoRow
      BY <1>2, <3>1, <3>2 DEF NoRow
    <3>3. CASE base' = base /\ x <= high
      BY <1>1, <3>1, <3>3 DEF UnbookedIsInGap, Between
    <3>4. CASE Found(block) /\ high < x
      BY <1>2, <3>1, <3>4 DEF Found
    <3> QED
      BY <1>1, <3>1, <3>2, <3>3, <3>4
  <2> QED
    BY <2>1 DEF Covers
<1> QED
  BY <1>3, <1>4, <1>5 DEF BooksInv

LEMMA MainCursorBooks ==
    ASSUME TypeInv, BooksInv, InitCursor(Main) \/ SaveCursor(Main) \/ SkipToLatest(Main) \/ RecordGap(Main)
    PROVE  BooksInv'
<1>1. /\ Main \in Procs /\ pc \in [Procs -> PC] /\ cur \in [Procs -> RowValue] /\ TypeOK
      /\ high \in Int /\ -1 <= high /\ base \in Int /\ -1 <= base /\ cur[Main] \in Int /\ -1 <= cur[Main]
      /\ tgt[Main] \in Nat /\ MainStarted /\ MainPlace /\ MainBooks /\ UnbookedIsInGap
      /\ \A i \in DOMAIN gaps : gaps[i].from \in Nat /\ gaps[i].to \in Nat
  BY Ranges DEF TypeInv, TypeOK, BooksInv
<1>2. CASE InitCursor(Main)
  <2>1. PICK block \in Nat : block = InitialBlock(StartBlock, tgt[Main])
    BY <1>1, ConstantsOK DEF InitialBlock
  <2>2. /\ Save(Main, block) /\ base' = block /\ pc'[Main] = "idle" /\ high = NoRow
        /\ UNCHANGED <<gaps, booked>>
    BY <1>1, <1>2, <2>1 DEF InitCursor, Leave, Goto, MainPlace, MainStarted, chainVars
  <2> QED
    BY <2>1, <2>2, MainMovesBooks DEF NoRow
<1>3. CASE SaveCursor(Main)
  <2>1. /\ base # NoRow /\ cur[Main] <= high /\ cur[Main] + 1 \in booked
    BY <1>1, <1>3 DEF SaveCursor, MainPlace, MainBooks, AtCursor
  <2>2. PICK block \in Nat : block = cur[Main] + 1
    BY <1>1
  <2>3. /\ Save(Main, block) /\ UNCHANGED <<base, gaps, booked>> /\ pc'[Main] = "loop" /\ cur'[Main] = block
    BY <1>1, <1>3, <2>2 DEF SaveCursor, Goto, chainVars
  <2>4. Found(block)
    BY <1>1, <2>1, <2>2 DEF Found
  <2> QED
    BY <2>1, <2>3, <2>4, MainMovesBooks
<1>4. CASE SkipToLatest(Main)
  <2>1. /\ pc[Main] = "skip" /\ base # NoRow /\ cur[Main] <= high /\ Save(Main, tgt[Main])
        /\ pc'[Main] \in {"idle", "flush"} /\ UNCHANGED <<base, gaps, booked>>
    BY <1>1, <1>4 DEF SkipToLatest, Leave, Goto, MainPlace, AtCursor, chainVars
  <2>2. PICK i \in DOMAIN gaps : gaps[i].from = cur[Main] + 1 /\ gaps[i].to = tgt[Main]
    BY <1>1, <2>1 DEF MainBooks
  <2>3. \A x \in Nat : high < x /\ x <= tgt[Main] => Covers(i, x)
    BY <1>1, <2>1, <2>2 DEF Covers
  <2>4. Found(tgt[Main])
    BY <2>2, <2>3 DEF Found
  <2> QED
    BY <1>1, <2>1, <2>4, MainMovesBooks
<1>5. CASE RecordGap(Main)
  <2>1. /\ pc[Main] = "record" /\ pc'[Main] = "skip" /\ UNCHANGED <<row, base, high, cur, tgt, booked>>
    BY <1>1, <1>5 DEF RecordGap, Goto, chainVars
  <2>2. BoundsKept
    BY <1>1, <1>5, BoundsOf
  <2>3. \E i \in DOMAIN gaps' : gaps'[i].from = cur[Main] + 1 /\ gaps'[i].to = tgt[Main]
    <3>1. gaps \in Seq(GapRow) /\ cur[Main] + 1 \in Nat /\ CreateSyncGap(cur[Main] + 1, tgt[Main])
      BY <1>1, <1>5 DEF TypeOK, RecordGap
    <3>2. /\ DOMAIN gaps' = DOMAIN gaps \cup {Len(gaps) + 1}
          /\ gaps'[Len(gaps) + 1] = [from |-> cur[Main] + 1, to |-> tgt[Main], status |-> "pending", owner |-> NoOwner]
      BY <1>1, <3>1, AddedRow
    <3>3. PICK i \in DOMAIN gaps' : i = Len(gaps) + 1
      BY <3>2
    <3> QED
      BY <3>2, <3>3
  <2>4. MainStarted' /\ MainPlace'
    BY <1>1, <2>1 DEF MainStarted, MainPlace, MyRow, AtCursor
  <2>5. MainBooks'
    BY <2>1, <2>3 DEF MainBooks
  <2>6. UnbookedIsInGap'
    BY <1>1, <2>1, <2>2, FoundStays DEF UnbookedIsInGap, Between, Covers
  <2> QED
    BY <2>4, <2>5, <2>6 DEF BooksInv
<1> QED
  BY <1>2, <1>3, <1>4, <1>5

\* A backup neither keeps books nor moves the main scanner.
LEMMA BackupBooks ==
    ASSUME TypeInv, BooksInv, NEW b \in Backups, BackupStep(b) \/ Fail(b)
    PROVE  BooksInv'
<1>1. TypeOK /\ b \in Procs /\ b # Main /\ Main \in Procs /\ row \in [Keys -> RowValue]
  BY KeyFacts DEF TypeInv, TypeOK
<1>2. Moves(b)
  BY <1>1, StartMoves, StepMoves, LookMoves, WriteMoves, FailMoves
     DEF BackupStep, ResolverLooks, ResolverWrites
<1>3. pc'[Main] = pc[Main] /\ cur'[Main] = cur[Main] /\ tgt'[Main] = tgt[Main]
  BY <1>1, <1>2, MovesApart
<1>4. booked \subseteq booked'
  BY DEF BackupStep, Step, Start, Align, FindOwned, SelectPending, Claim, FinishGap, EnterGap, ResetCursor,
         CheckOpen, CheckMain, LoadCursor, LoadHeight, InitCursor, Decide, Loop, ScanBlock, SaveCursor, Flush,
         Fail, chainVars
<1>5. MyRow(Main)' = MyRow(Main) /\ UNCHANGED <<base, high>>
  <2>1. CASE \E block : Save(b, block) /\ UNCHANGED base
    BY <1>1, <2>1, KeyFacts DEF Save, MyRow
  <2>2. CASE UNCHANGED <<row, base, high>>
    BY <2>2 DEF MyRow
  <2> QED
    BY <1>1, <2>1, <2>2
       DEF BackupStep, Step, Start, Align, FindOwned, SelectPending, Claim, FinishGap, EnterGap, ResetCursor,
           CheckOpen, CheckMain, LoadCursor, LoadHeight, InitCursor, Decide, Loop, ScanBlock, SaveCursor, Flush,
           Fail, tableVars
<1>6. BoundsKept
  <2>1. UNCHANGED gaps \/ Claim(b) \/ FinishGap(b)
    BY DEF BackupStep, Step, Start, Align, FindOwned, SelectPending, EnterGap, ResetCursor,
           CheckOpen, CheckMain, LoadCursor, LoadHeight, InitCursor, Decide, Loop, ScanBlock, SaveCursor, Flush,
           Fail, tableVars
  <2> QED
    BY <1>1, <2>1, BoundsOf
<1> QED
  BY <1>3, <1>4, <1>5, <1>6, OthersBook

LEMMA BooksStep == TypeInv /\ BooksInv /\ [Next]_vars => BooksInv'
<1> SUFFICES ASSUME TypeInv, BooksInv, [Next]_vars PROVE BooksInv'
  OBVIOUS
<1>1. CASE MainStep
  BY <1>1, MainWayBooks, MainCursorBooks DEF MainStep, Step
<1>2. CASE \E b \in Backups : BackupStep(b) \/ Fail(b)
  BY <1>2, BackupBooks
<1>3. CASE \E p \in Procs : Fail(p)
  BY <1>2, <1>3, MainWayBooks, KeyFacts
<1>4. CASE ChainGrows \/ MainGoesStale \/ UNCHANGED vars
  <2>1. /\ UNCHANGED <<row, gaps, base, high, booked, pc, cur, tgt>>
    BY <1>4 DEF ChainGrows, MainGoesStale, vars, chainVars, procVars, tableVars
  <2>2. BoundsKept /\ MyRow(Main)' = MyRow(Main)
    BY <2>1 DEF BoundsKept, MyRow
  <2> QED
    BY <2>1, <2>2, OthersBook
<1>5. ASSUME NEW k \in Keys, OperatorRewinds(k) PROVE BooksInv'
  <2>1. /\ UNCHANGED <<gaps, base, high, booked, pc, cur, tgt>> /\ base # NoRow
    BY <1>5 DEF OperatorRewinds, chainVars, procVars
  <2>2. PICK v \in base .. (row[k] - 1) : row' = [row EXCEPT ![k] = v]
    BY <1>5 DEF OperatorRewinds
  <2>3. /\ row \in [Keys -> RowValue] /\ Key[Main] \in Keys /\ base \in Int /\ -1 <= base
        /\ high \in Int /\ row[k] \in Int /\ MyRow(Main) \in Int
    BY Ranges, Numbers, KeyFacts DEF TypeInv, TypeOK
  <2>4. MyRow(Main)' = MyRow(Main) \/ (MyRow(Main)' = v /\ v < MyRow(Main))
    BY <2>2, <2>3 DEF MyRow
  <2>5. MainStarted'
    BY <2>1, <2>2, <2>3, <2>4 DEF BooksInv, MainStarted, NoRow
  <2>6. MainPlace' /\ MainBooks'
    BY <2>1 DEF BooksInv, MainPlace, MainBooks
  <2>7. UnbookedIsInGap'
    BY <2>1 DEF BooksInv, UnbookedIsInGap, Between, Covers
  <2> QED
    BY <2>5, <2>6, <2>7 DEF BooksInv
<1> QED
  BY <1>1, <1>2, <1>3, <1>4, <1>5 DEF Next

(* Every block the main cursor passed without writing its transfers lies   *)
(* in a row of sync_gaps, open or done (CreateSyncGap before the skip's    *)
(* SaveLastBlock): since the backups' scans write none (SetDisable-        *)
(* Bookkeeping), the rows are where the missing transfers can be found.    *)
(* No premise: rewinds, late deployments and failures included.            *)
THEOREM MissingBooksAreInGaps == Spec => []UnbookedIsInGap
<1>1. Init => BooksInv
  BY BooksInit
<1>2. TypeInv /\ BooksInv /\ [Next]_vars => BooksInv'
  BY BooksStep
<1>3. BooksInv => UnbookedIsInGap
  BY DEF BooksInv
<1> QED
  BY <1>1, <1>2, <1>3, TypeAlways, PTL DEF Spec

-----------------------------------------------------------------------------
(* The promises of BlockLedger: the main cursor is the watermark, the open *)
(* gap rows and the lists are the books, a failed run gives its list up.   *)

Owed == {x \in Nat : Listed(x) \/ \E i \in DOMAIN gaps : Open(i) /\ Covers(i, x)}

Ledger == INSTANCE BlockLedger WITH processed <- refreshed, owed <- Owed, forfeited <- dropped

LEMMA BooksKept == UNCHANGED <<gaps, deferred>> => Owed' = Owed
  BY DEF Owed, Listed, Open, Covers

LEMMA LedgerStutters ==
    ASSUME UNCHANGED <<high, refreshed, dropped, gaps, deferred>>
    PROVE  [Ledger!Next]_(Ledger!ledger)
  BY BooksKept DEF Ledger!ledger

\* A scan puts its block on the books, the refresh settles the list, a failed
\* run gives it up.
LEMMA LedgerLists ==
    ASSUME TypeInv, Lists, NEW p \in Procs, ScanBlock(p) \/ Flush(p) \/ Fail(p)
    PROVE  [Ledger!Next]_(Ledger!ledger)
<1>1. /\ deferred \in [Procs -> SUBSET scanned] /\ scanned \subseteq Nat
      /\ UNCHANGED <<high, gaps>> /\ cur[p] + 1 \in Nat
  BY Numbers DEF TypeInv, TypeOK, ScanBlock, Flush, Fail, tableVars
<1>2. \A x : (\E i \in DOMAIN gaps : Open(i) /\ Covers(i, x))' <=> \E i \in DOMAIN gaps : Open(i) /\ Covers(i, x)
  BY <1>1 DEF Open, Covers
<1>3. deferred[p] \subseteq Owed
  BY <1>1 DEF Owed, Listed
<1>4. CASE ScanBlock(p)
  <2>1. \A q \in Procs : deferred[q] \subseteq deferred'[q]
    BY <1>1, <1>4 DEF ScanBlock
  <2>2. Owed \subseteq Owed'
    BY <1>2, <2>1 DEF Owed, Listed
  <2>3. UNCHANGED <<high, refreshed, dropped>>
    BY <1>4 DEF ScanBlock, tableVars
  <2>4. Ledger!Owe
    BY <2>2, <2>3 DEF Ledger!Owe
  <2> QED
    BY <2>4 DEF Ledger!Next
<1>5. CASE Flush(p) \/ Fail(p)
  <2>1. deferred'[p] = {} /\ \A q \in Procs : q # p => deferred'[q] = deferred[q]
    BY <1>1, <1>5 DEF Flush, Fail, Leave
  <2>2. Owed' \subseteq Owed
    BY <1>2, <2>1 DEF Owed, Listed
  <2>3. Owed \ Owed' \subseteq deferred[p]
    <3> SUFFICES ASSUME NEW x \in Owed, x \notin deferred[p] PROVE x \in Owed'
      OBVIOUS
    <3>1. x \in Nat
      BY DEF Owed
    <3>2. CASE Listed(x)
      <4>1. PICK q \in Procs : x \in deferred[q]
        BY <3>2 DEF Listed
      <4>2. x \in deferred'[q]
        BY <2>1, <4>1
      <4> QED
        BY <3>1, <4>2 DEF Owed, Listed
    <3>3. CASE \E i \in DOMAIN gaps : Open(i) /\ Covers(i, x)
      BY <1>2, <3>1, <3>3 DEF Owed
    <3> QED
      BY <3>2, <3>3 DEF Owed
  <2>4. CASE Flush(p)
    <3>1. refreshed' = refreshed \cup deferred[p] /\ UNCHANGED dropped
      BY <2>4 DEF Flush, RefreshDeferred
    <3>2. Ledger!Settle
      BY <1>1, <1>3, <2>2, <2>3, <3>1 DEF Ledger!Settle
    <3> QED
      BY <3>2 DEF Ledger!Next
  <2>5. CASE Fail(p)
    <3>1. dropped' = dropped \cup deferred[p] /\ UNCHANGED refreshed
      BY <2>5 DEF Fail
    <3>2. Ledger!Forfeit
      BY <1>1, <1>3, <2>2, <2>3, <3>1 DEF Ledger!Forfeit
    <3> QED
      BY <3>2 DEF Ledger!Next
  <2> QED
    BY <1>5, <2>4, <2>5
<1> QED
  BY <1>4, <1>5

\* A cursor the main scanner saves is the old one or passes only what is
\* accounted for: NoRefreshLost of the next state.
LEMMA LedgerAdvances ==
    ASSUME IInv, IInv', UNCHANGED <<gaps, refreshed, dropped, deferred, base>>, NEW block \in Nat,
           Save(Main, block), high # NoRow
    PROVE  [Ledger!Next]_(Ledger!ledger)
<1>1. /\ TypeInv /\ base # NoRow /\ base <= high /\ NoRefreshLost'
      /\ base \in Int /\ high \in Nat
  <2>1. TypeInv /\ MainRow /\ NoRefreshLost'
    BY DEF IInv, MainInv
  <2>2. base \in Int /\ high \in Int /\ -1 <= high
    BY <2>1, Ranges
  <2> QED
    BY <2>1, <2>2 DEF MainRow, NoRow
<1>2. high' = IF block > high THEN block ELSE high
  BY DEF Save
<1>3. CASE high' = high
  BY <1>3, LedgerStutters
<1>4. CASE high' # high
  <2>1. high' = block /\ block > high
    BY <1>2, <1>4
  <2>2. \A x \in Between(high, block) : x \in Nat /\ base < x /\ x <= block
    BY <1>1 DEF Between
  <2>3. \A x \in Between(high, block) : Answered(x)'
    BY <1>1, <2>1, <2>2 DEF NoRefreshLost, Between
  <2>4. \A x : Answered(x)' <=> Answered(x)
    BY DEF Answered, Listed, Open, Covers
  <2>5. Between(high, block) \subseteq refreshed \cup Owed \cup dropped
    BY <2>2, <2>3, <2>4 DEF Answered, Owed
  <2>6. Ledger!Between(high, block) = Between(high, block)
    BY DEF Ledger!Between, Between
  <2>7. Ledger!Advance
    BY <1>1, <2>1, <2>5, <2>6, BooksKept DEF Ledger!Advance, Ledger!NoRow, NoRow
  <2> QED
    BY <2>7 DEF Ledger!Next
<1> QED
  BY <1>3, <1>4

\* The cursor, the gap row and the skip of the main scanner.
LEMMA LedgerMain ==
    ASSUME IInv, IInv', MainStep
    PROVE  [Ledger!Next]_(Ledger!ledger)
<1>1. /\ TypeInv /\ TypeOK /\ MainInv /\ Lists /\ Main \in Procs /\ cur[Main] \in Int /\ -1 <= cur[Main]
      /\ tgt[Main] \in Nat /\ high \in Int /\ -1 <= high
  BY Ranges DEF IInv, TypeInv
<1>2. CASE ScanBlock(Main) \/ Flush(Main)
  BY <1>1, <1>2, LedgerLists
<1>3. CASE ~(ScanBlock(Main) \/ Flush(Main))
  <2>1. UNCHANGED <<refreshed, dropped, deferred>>
    <3>1. Aside(Main)
      BY <1>1, <1>3, RestAside, LoopAside DEF MainStep, Step
    <3> QED
      BY <1>1, <3>1, AsideKeepsLists DEF Aside
  <2>2. CASE LoadCursor(Main) \/ LoadHeight(Main) \/ Decide(Main) \/ Loop(Main)
    BY <2>1, <2>2, LedgerStutters DEF LoadCursor, LoadHeight, Decide, Loop, tableVars
  <2>3. CASE InitCursor(Main)
    <3>1. high = NoRow
      BY <1>1, <2>3 DEF InitCursor, MainInv, MainCursor, AtCursor
    <3>2. InitialBlock(StartBlock, tgt[Main]) \in Nat
      BY <1>1, ConstantsOK DEF InitialBlock
    <3>3. high' \in Nat /\ UNCHANGED gaps
      BY <2>3, <3>1, <3>2 DEF InitCursor, Save, NoRow
    <3>4. Ledger!Begin
      BY <2>1, <3>1, <3>3, BooksKept DEF Ledger!Begin, Ledger!NoRow, NoRow
    <3> QED
      BY <3>4 DEF Ledger!Next
  <2>4. CASE SaveCursor(Main)
    <3>1. high # NoRow /\ cur[Main] + 1 \in Nat
      BY <1>1, <2>4 DEF SaveCursor, MainInv, MainCursor, AtCursor
    <3> QED
      BY <2>1, <2>4, <3>1, LedgerAdvances DEF SaveCursor
  <2>5. CASE SkipToLatest(Main)
    <3>1. high # NoRow
      BY <1>1, <2>5 DEF SkipToLatest, MainInv, MainCursor, AtCursor
    <3>2. UNCHANGED deferred
      BY <2>1, <2>5, LoopAside, AsideKeepsLists
    <3> QED
      BY <1>1, <2>1, <2>5, <3>1, <3>2, LedgerAdvances DEF SkipToLatest
  <2>6. CASE RecordGap(Main)
    <3>1. UNCHANGED high /\ CreateSyncGap(cur[Main] + 1, tgt[Main])
      BY <2>6 DEF RecordGap
    <3>2. cur[Main] + 1 \in Nat /\ gaps \in Seq(GapRow)
      BY <1>1 DEF TypeOK
    <3>3. \A j \in DOMAIN gaps : j \in DOMAIN gaps' /\ gaps'[j] = gaps[j]
      BY <1>1, <3>1, <3>2, AddedRow
    <3>4. Owed \subseteq Owed'
      BY <2>1, <3>3 DEF Owed, Listed, Open, Covers
    <3>5. Ledger!Owe
      BY <2>1, <3>1, <3>4 DEF Ledger!Owe
    <3> QED
      BY <3>5 DEF Ledger!Next
  <2> QED
    BY <1>3, <2>2, <2>3, <2>4, <2>5, <2>6 DEF MainStep, Step
<1> QED
  BY <1>2, <1>3

\* A backup strikes off what is settled and otherwise adds to the books.
LEMMA LedgerBackup ==
    ASSUME IInv, IInv', NEW b \in Backups, BackupStep(b)
    PROVE  [Ledger!Next]_(Ledger!ledger)
<1>1. TypeInv /\ TypeOK /\ Lists /\ b \in Procs /\ b # Main /\ gaps \in Seq(GapRow) /\ ControlInv
  BY Ranges DEF IInv, TypeInv, TypeOK
<1>2. CASE ScanBlock(b) \/ Flush(b)
  BY <1>1, <1>2, LedgerLists
<1>3. ASSUME ~(ScanBlock(b) \/ Flush(b)) PROVE UNCHANGED <<refreshed, dropped, deferred>>
  <2>1. Aside(b)
    BY <1>1, <1>3, RestAside, LoopAside DEF BackupStep, Step, ResolverLooks, ResolverWrites
  <2> QED
    BY <1>1, <2>1, AsideKeepsLists DEF Aside
<1>4. CASE UNCHANGED <<high, gaps>> /\ ~(ScanBlock(b) \/ Flush(b))
  BY <1>3, <1>4, LedgerStutters
<1>5. CASE ResolverLooks(b) \/ Start(b) \/ LoadCursor(b) \/ LoadHeight(b) \/ Decide(b) \/ Loop(b)
  <2>1. UNCHANGED <<high, gaps>>
    BY <1>5 DEF ResolverLooks, FindOwned, SelectPending, EnterGap, CheckOpen, CheckMain, Start,
                LoadCursor, LoadHeight, Decide, Loop, tableVars
  <2> QED
    BY <1>2, <1>4, <2>1
<1>6. CASE Align(b) \/ ResetCursor(b) \/ InitCursor(b) \/ SaveCursor(b)
  <2>1. UNCHANGED <<high, gaps>>
    BY <1>1, <1>6 DEF Align, ResetCursor, InitCursor, SaveCursor, Save
  <2> QED
    BY <1>2, <1>4, <2>1
<1>7. CASE Claim(b) /\ ~ScanBlock(b) /\ ~Flush(b)
  <2>1. CASE UNCHANGED gaps
    BY <1>4, <1>7, <2>1 DEF Claim
  <2>2. CASE gaps' = Marked(gap[b], "repairing", me[b])
    <3>1. gap[b] \in DOMAIN gaps /\ me[b] \in Owner
      BY <1>1, <1>7, Ranges, OwnerFacts DEF Claim, ControlInv
    <3>2. /\ DOMAIN gaps' = DOMAIN gaps
          /\ \A j \in DOMAIN gaps : /\ gaps'[j].from = gaps[j].from /\ gaps'[j].to = gaps[j].to
                                    /\ j # gap[b] => gaps'[j] = gaps[j]
          /\ gaps'[gap[b]].status = "repairing"
      BY <1>1, <2>2, <3>1, ChangedRow DEF Status
    <3>3. Owed \subseteq Owed'
      BY <1>3, <1>7, <3>2 DEF Owed, Listed, Open, Covers
    <3>4. Ledger!Owe
      BY <1>3, <1>7, <3>3 DEF Claim, Ledger!Owe
    <3> QED
      BY <3>4 DEF Ledger!Next
  <2> QED
    BY <1>7, <2>1, <2>2 DEF Claim, Marked
<1>8. CASE FinishGap(b) /\ ~ScanBlock(b) /\ ~Flush(b)
  <2>1. gap[b] \in DOMAIN gaps /\ UNCHANGED high /\ gaps' = Marked(gap[b], "done", NoOwner)
    BY <1>1, <1>8, Ranges DEF FinishGap, ControlInv, MarkDone, Marked
  <2>2. /\ DOMAIN gaps' = DOMAIN gaps
        /\ \A j \in DOMAIN gaps : /\ gaps'[j].from = gaps[j].from /\ gaps'[j].to = gaps[j].to
                                  /\ j # gap[b] => gaps'[j] = gaps[j]
        /\ gaps'[gap[b]].status = "done"
    BY <1>1, <2>1, ChangedRow, OwnerFacts DEF Status
  <2>3. Owed' \subseteq Owed
    BY <1>3, <1>8, <2>2 DEF Owed, Listed, Open, Covers
  <2>4. \A x \in Nat : Covers(gap[b], x) => x \in refreshed \cup dropped
    <3>1. PICK i \in DOMAIN gaps : i = gap[b]
      BY <2>1
    <3>2. gaps'[i].status = "done" /\ gaps'[i].from = gaps[i].from /\ gaps'[i].to = gaps[i].to
      BY <2>2, <3>1
    <3>3. (\A j \in DOMAIN gaps : GapInv(j))' /\ i \in DOMAIN gaps'
      BY <2>2 DEF IInv
    <3>4. GapInv(i)'
      BY <3>3
    <3>5. \A x \in Nat : Covers(i, x)' => x \in Settled'
      BY <3>2, <3>4 DEF GapInv, GapDone
    <3> QED
      BY <1>3, <1>8, <3>1, <3>2, <3>5 DEF Covers, Settled
  <2>5. Owed \ Owed' \subseteq refreshed \cup dropped
    <3> SUFFICES ASSUME NEW x \in Owed, x \notin Owed' PROVE x \in refreshed \cup dropped
      OBVIOUS
    <3>1. ~Listed(x)
      BY <1>3, <1>8 DEF Owed, Listed
    <3>2. PICK i \in DOMAIN gaps : x \in Nat /\ Open(i) /\ Covers(i, x)
      BY <3>1 DEF Owed
    <3> QED
      BY <2>2, <2>4, <3>2 DEF Owed, Open, Covers
  <2>6. Ledger!Settle
    BY <1>3, <1>8, <2>1, <2>3, <2>5 DEF Ledger!Settle
  <2> QED
    BY <2>6 DEF Ledger!Next
<1> QED
  BY <1>2, <1>5, <1>6, <1>7, <1>8 DEF BackupStep, Step, ResolverLooks

LEMMA LedgerStep ==
    ASSUME IInv, IInv', [Next]_vars
    PROVE  [Ledger!Next]_(Ledger!ledger)
<1>1. CASE MainStep
  BY <1>1, LedgerMain
<1>2. CASE \E b \in Backups : BackupStep(b)
  BY <1>2, LedgerBackup
<1>3. CASE \E p \in Procs : Fail(p)
  BY <1>3, LedgerLists DEF IInv
<1>4. CASE ChainGrows \/ MainGoesStale \/ (\E k \in Keys : OperatorRewinds(k)) \/ UNCHANGED vars
  BY <1>4, LedgerStutters
     DEF ChainGrows, MainGoesStale, OperatorRewinds, vars, chainVars, tableVars, procVars
<1> QED
  BY <1>1, <1>2, <1>3, <1>4 DEF Next

(* The claiming scheme keeps the promises of BlockLedger: the main cursor  *)
(* passes only blocks whose addresses are refreshed, promised by a list or *)
(* an open row, or given up by a run that failed; a row (MarkSyncGapDone)  *)
(* and a list (refreshBalances) let go of nothing else.                    *)
THEOREM ImplementsLedger ==
    ASSUME Careful
    PROVE  Spec => Ledger!Spec
<1>1. Init => Ledger!Init
  BY DEF Init, Ledger!Init, Ledger!NoRow, NoRow, Owed, Listed
<1>2. IInv /\ IInv' /\ [Next]_vars => [Ledger!Next]_(Ledger!ledger)
  BY LedgerStep
<1> QED
  BY SafeInvariant, <1>1, <1>2, PTL DEF Spec, Ledger!Spec
=============================================================================
