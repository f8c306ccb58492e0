-------------------------- MODULE BalanceRowsProofs --------------------------
(***************************************************************************)
(* What BalanceRows guarantees for any chain, any interleaving of its      *)
(* three writers and any number of failed calls: no request is forgotten,  *)
(* for both assets; of USDT, which is read at the head, the row's label is *)
(* honest as well.                                                         *)
(***************************************************************************)
EXTENDS BalanceRows, WellFoundedInduction, TLAPS

USE ConstantsOK DEF ConstantsOK

-----------------------------------------------------------------------------
(* The balance at a height.                                                *)

\* A bounded set of numbers has a greatest one: the distance to the bound has
\* a least value.
LEMMA GreatestIn ==
    ASSUME NEW bound \in Nat, NEW S \in SUBSET (0 .. bound), S # {}
    PROVE  Max(S) \in S /\ \A y \in S : y <= Max(S)
<1> DEFINE D == {d \in 0 .. bound : bound - d \in S}
<1>1. D \subseteq Nat /\ D # {}
  <2>1. PICK s : s \in S /\ s \in 0 .. bound
    OBVIOUS
  <2>2. bound - s \in 0 .. bound /\ bound - (bound - s) = s
    BY <2>1
  <2>3. bound - s \in D
    BY <2>1, <2>2
  <2> QED
    BY <2>3
<1>2. \E x \in D : \A y \in D : <<y, x>> \notin OpToRel(<, Nat)
  <2> HIDE DEF D
  <2> QED
    BY <1>1, NatLessThanWellFounded, WFMin
<1>3. \A x, y \in Nat : y < x => <<y, x>> \in OpToRel(<, Nat)
  <2>1. SUFFICES ASSUME NEW x \in Nat, NEW y \in Nat, y < x
                 PROVE  <<y, x>> \in {ss \in Nat \X Nat : ss[1] < ss[2]}
    BY DEF OpToRel
  <2> QED
    BY <2>1, SMT
<1>4. PICK x \in D : \A y \in D : ~(y < x)
  <2> HIDE DEF D
  <2> QED
    BY <1>1, <1>2, <1>3, Zenon
<1>5. bound - x \in S /\ \A y \in S : bound - x >= y
  <2>1. \A y \in S : bound - y \in D
    <3>1. \A y \in S : bound - y \in 0 .. bound /\ bound - (bound - y) = y
      OBVIOUS
    <3> QED
      BY <3>1
  <2>2. \A y \in S : ~(bound - y < x)
    BY <1>4, <2>1
  <2> QED
    BY <2>2
<1>6. Max(S) \in S /\ \A y \in S : Max(S) >= y
  BY <1>5, Zenon DEF Max
<1> QED
  BY <1>6

\* The transfers a balance at this height includes, and the start.
Upto(h) == {m \in moves : m <= h} \cup {0}

LEMMA BalanceIs ==
    ASSUME TypeOK, NEW h \in Nat
    PROVE  /\ BalanceAt(h) \in moves \cup {0} /\ BalanceAt(h) \in Nat
           /\ BalanceAt(h) <= h /\ \A m \in moves : m <= h => m <= BalanceAt(h)
<1>1. head \in Nat /\ moves \subseteq 1 .. head
  BY DEF TypeOK
<1>2. Upto(h) \in SUBSET (0 .. head) /\ Upto(h) # {} /\ 0 \in Upto(h)
  <2>1. \A y \in Upto(h) : y \in 0 .. head
    BY <1>1 DEF Upto
  <2>2. 0 \in Upto(h)
    BY DEF Upto
  <2> QED
    BY <2>1, <2>2
<1>3. Max(Upto(h)) \in Upto(h) /\ \A y \in Upto(h) : y <= Max(Upto(h))
  BY <1>1, <1>2, GreatestIn
<1>4. BalanceAt(h) = Max(Upto(h))
  BY DEF BalanceAt, Upto
<1>5. \A y : y \in Upto(h) <=> (y \in moves /\ y <= h) \/ y = 0
  BY DEF Upto
<1>6. /\ BalanceAt(h) \in 0 .. head
      /\ (BalanceAt(h) \in moves /\ BalanceAt(h) <= h) \/ BalanceAt(h) = 0
  BY <1>2, <1>3, <1>4, <1>5
<1>7. \A m \in moves : m <= h => m <= BalanceAt(h)
  BY <1>3, <1>4, <1>5
<1> QED
  BY <1>1, <1>6, <1>7

\* A later height includes no less.
LEMMA BalanceGrows ==
    ASSUME TypeOK, NEW g \in Nat, NEW h \in Nat, g <= h
    PROVE  BalanceAt(g) <= BalanceAt(h)
<1>1. BalanceAt(g) \in moves \cup {0} /\ BalanceAt(g) <= g /\ BalanceAt(g) \in Nat
  BY BalanceIs
<1>2. BalanceAt(h) \in Nat /\ \A m \in moves : m <= h => m <= BalanceAt(h)
  BY BalanceIs
<1> QED
  BY <1>1, <1>2

\* A new block changes no balance at a height already reached.
LEMMA BalanceStays ==
    ASSUME TypeOK, NEW h \in Nat, h <= head, moves' = moves \/ moves' = moves \cup {head + 1}
    PROVE  BalanceAt(h)' = BalanceAt(h)
<1>1. head \in Nat
  BY DEF TypeOK
<1>2. {m \in moves' : m <= h} = {m \in moves : m <= h}
  BY <1>1
<1> QED
  BY <1>2 DEF BalanceAt

-----------------------------------------------------------------------------
(* Types.                                                                  *)

LEMMA TypeInit == Init => TypeOK
  BY DEF Init, TypeOK

\* TypeOK, one variable at a time.
TypeFlat ==
    /\ head \in 0 .. MaxBlock /\ solid \in 0 .. head /\ moves \subseteq 1 .. head
    /\ cursor \in 0 .. head /\ fLabel \in 0 .. head /\ block \in 0 .. head
    /\ spc \in {"scan", "flush", "upsert"}
    /\ lpc \in {"none", "take", "check", "timer", "read", "upsert"}
    /\ fpc \in {"idle", "read", "upsert"}
    /\ pending \in moves \cup {0} /\ lReq \in moves \cup {0}
    /\ sVal \in moves \cup {0} /\ lVal \in moves \cup {0} /\ fVal \in moves \cup {0}
    /\ balance \in moves \cup {0}
    /\ faults \in 0 .. MaxFaults

LEMMA Flatten == (TypeOK <=> TypeFlat) /\ (TypeOK' <=> TypeFlat')
<1>1. TypeOK <=> TypeFlat
  BY DEF TypeOK, TypeFlat
<1>2. TypeOK' <=> TypeFlat'
  BY DEF TypeOK, TypeFlat
<1> QED
  BY <1>1, <1>2

\* What a node answers for a height of the chain.
LEMMA ReadType ==
    ASSUME TypeOK
    PROVE  Read \in moves \cup {0} /\ ReadHead \in moves \cup {0}
<1>1. head \in Nat /\ solid \in Nat
  BY DEF TypeOK
<1> QED
  BY <1>1, BalanceIs DEF Read, ReadHead

LEMMA UpsertType ==
    ASSUME TypeOK, NEW v \in moves \cup {0}, NEW n \in 0 .. head, UpsertBalance(v, n)
    PROVE  balance' \in moves \cup {0} /\ block' \in 0 .. head /\ block <= block'
  BY DEF TypeOK, UpsertBalance, dbRow

LEMMA TypeStep == TypeOK /\ [Next]_vars => TypeOK'
<1> SUFFICES ASSUME TypeOK, TypeFlat, [Next]_vars PROVE TypeFlat'
  BY Flatten
<1>1. /\ head \in Nat /\ solid \in Nat /\ cursor \in Nat /\ SourceLatest \in 0 .. head
      /\ moves \subseteq 1 .. head
  BY DEF TypeFlat, SourceLatest
<1>2. CASE ScanBlock
  BY <1>1, <1>2 DEF ScanBlock, Enqueue, TypeFlat, chain, full, dbRow
<1>3. CASE FlushRead
  BY <1>3, ReadType DEF FlushRead, TypeFlat, chain, loop, full, dbRow
<1>4. CASE FlushUpsert
  <2>1. balance' \in moves \cup {0} /\ block' \in 0 .. head
    <3>1. sVal \in moves \cup {0} /\ cursor \in 0 .. head
      BY DEF TypeFlat
    <3> QED
      BY <1>4, <3>1, UpsertType DEF FlushUpsert
  <2> QED
    BY <1>4, <2>1 DEF FlushUpsert, TypeFlat, chain, loop, full
<1>5. CASE LoopTake
  BY <1>5 DEF LoopTake, TypeFlat, chain, scanner, full, dbRow
<1>6. CASE LoopCheck
  BY <1>6 DEF LoopCheck, TypeFlat, chain, scanner, full, dbRow
<1>7. CASE LoopTimer
  BY <1>7 DEF LoopTimer, TypeFlat, chain, scanner, full, dbRow
<1>8. CASE LoopRead
  BY <1>8, ReadType DEF LoopRead, TypeFlat, chain, scanner, full, dbRow
<1>9. CASE LoopUpsert
  <2>1. balance' \in moves \cup {0} /\ block' \in 0 .. head
    <3>1. lVal \in moves \cup {0} /\ lReq \in 0 .. head
      BY <1>1 DEF TypeFlat
    <3> QED
      BY <1>9, <3>1, UpsertType DEF LoopUpsert
  <2> QED
    BY <1>9, <2>1 DEF LoopUpsert, TypeFlat, chain, scanner, full
<1>10. CASE FullBegin
  BY <1>1, <1>10 DEF FullBegin, TypeFlat, chain, scanner, loop, dbRow
<1>11. CASE FullSkip
  BY <1>1, <1>11 DEF FullSkip, TypeFlat, chain, scanner, loop, dbRow
<1>12. CASE FullRead
  BY <1>12, ReadType DEF FullRead, TypeFlat, chain, scanner, loop, dbRow
<1>13. CASE FullUpsert
  <2>1. balance' \in moves \cup {0} /\ block' \in 0 .. head
    <3>1. fVal \in moves \cup {0} /\ fLabel \in 0 .. head
      BY DEF TypeFlat
    <3> QED
      BY <1>13, <3>1, UpsertType DEF FullUpsert
  <2> QED
    BY <1>13, <2>1 DEF FullUpsert, TypeFlat, chain, scanner, loop
<1>14. CASE Fault
  BY <1>1, <1>14 DEF Fault, TypeFlat, chain, loop, full, dbRow
<1>15. CASE ChainGrows
  <2>1. UNCHANGED <<solid, scanner, pending, loop, full, dbRow, faults>> /\ head' = head + 1
    BY <1>15 DEF ChainGrows
  <2>2. moves \subseteq moves' /\ moves' \subseteq 1 .. head' /\ head' \in 0 .. MaxBlock
    <3>1. moves \subseteq moves' /\ moves' \subseteq moves \cup {head + 1}
      BY <1>15 DEF ChainGrows
    <3>2. \A n : n \in 1 .. head \cup {head + 1} => n \in 1 .. head + 1
      BY <1>1
    <3>3. head' \in 0 .. MaxBlock
      BY <1>15 DEF ChainGrows, TypeFlat
    <3>4. moves \cup {head + 1} \subseteq 1 .. head + 1
      BY <1>1, <3>2
    <3> QED
      BY <2>1, <3>1, <3>3, <3>4
  <2>3. 0 .. head \subseteq 0 .. head'
    BY <1>1, <2>1
  <2>4. /\ solid' \in 0 .. head' /\ cursor' \in 0 .. head' /\ fLabel' \in 0 .. head'
        /\ block' \in 0 .. head'
    BY <2>1, <2>3 DEF TypeFlat, scanner, full, dbRow
  <2>5. /\ pending' \in moves' \cup {0} /\ lReq' \in moves' \cup {0} /\ sVal' \in moves' \cup {0}
        /\ lVal' \in moves' \cup {0} /\ fVal' \in moves' \cup {0} /\ balance' \in moves' \cup {0}
    BY <2>1, <2>2 DEF TypeFlat, scanner, loop, full, dbRow
  <2> QED
    BY <2>1, <2>2, <2>4, <2>5 DEF TypeFlat, scanner, loop, full
<1>16. CASE Solidify
  BY <1>1, <1>16 DEF Solidify, TypeFlat, scanner, loop, full, dbRow
<1>17. CASE UNCHANGED vars
  BY <1>17 DEF TypeFlat, vars, chain, scanner, loop, full, dbRow
<1> QED
  BY <1>2, <1>3, <1>4, <1>5, <1>6, <1>7, <1>8, <1>9, <1>10, <1>11, <1>12, <1>13, <1>14, <1>15,
     <1>16, <1>17 DEF Next, ScannerStep, LoopStep, FullStep

(* Types, for any chain and any number of failed calls.                    *)
THEOREM TypeCorrect == Spec => []TypeOK
  BY TypeInit, TypeStep, PTL DEF Spec

-----------------------------------------------------------------------------
(* The slot of the immediate loop, of either asset.                        *)

(* A waiting request has a goroutine that will take it, however the end of *)
(* runImmediateRefreshLoop and enqueueImmediateRefresh fall together.      *)
THEOREM RequestsAreHeard == Spec => []NoLostWakeup
<1>1. Init => NoLostWakeup
  BY DEF Init, NoLostWakeup
<1>2. NoLostWakeup /\ [Next]_vars => NoLostWakeup'
  <2> SUFFICES ASSUME NoLostWakeup, [Next]_vars PROVE NoLostWakeup'
    OBVIOUS
  <2>1. CASE ScanBlock
    BY <2>1 DEF ScanBlock, Enqueue, NoLostWakeup
  <2>2. CASE LoopStep
    BY <2>2 DEF LoopStep, LoopTake, LoopCheck, LoopTimer, LoopRead, LoopUpsert, NoLostWakeup
  <2>3. CASE Fault
    BY <2>3 DEF Fault, loop, NoLostWakeup
  <2>4. CASE FlushRead \/ FlushUpsert \/ FullBegin \/ FullStep \/ ChainGrows \/ Solidify \/ UNCHANGED vars
    BY <2>4 DEF FlushRead, FlushUpsert, FullBegin, FullStep, FullRead, FullUpsert, FullSkip,
                ChainGrows, Solidify, vars, loop, NoLostWakeup
  <2> QED
    BY <2>1, <2>2, <2>3, <2>4 DEF Next, ScannerStep
<1> QED
  BY <1>1, <1>2, PTL DEF Spec

-----------------------------------------------------------------------------
(* The label, of balances read at the head.                                *)

\* What a writer is about to store includes every transfer up to its label.
HonestInv ==
    /\ TypeOK /\ LabelHonest
    /\ spc = "upsert" => sVal >= BalanceAt(cursor)
    /\ lpc = "upsert" => lVal >= BalanceAt(lReq)
    /\ fpc = "upsert" => fVal >= BalanceAt(fLabel)

\* Only the three upserts touch the row.
LEMMA RowMoves ==
    ASSUME TypeOK, [Next]_vars
    PROVE  \/ UNCHANGED dbRow
           \/ FlushUpsert \/ LoopUpsert \/ FullUpsert
  BY DEF Next, ScannerStep, LoopStep, FullStep, ScanBlock, FlushRead, LoopTake, LoopCheck,
         LoopTimer, LoopRead, FullBegin, FullRead, FullSkip, Fault, ChainGrows, Solidify, vars

LEMMA HonestInit == Init => HonestInv
<1> SUFFICES ASSUME Init PROVE HonestInv
  OBVIOUS
<1>1. TypeOK /\ balance = 0 /\ block = 0
  BY TypeInit DEF Init
<1>2. BalanceAt(0) <= 0 /\ BalanceAt(0) \in Nat
  BY <1>1, BalanceIs
<1> QED
  BY <1>1, <1>2 DEF Init, HonestInv, LabelHonest

\* Of two honest pairs either may be the row.
LEMMA HonestUpsert ==
    ASSUME LabelHonest, UNCHANGED moves, NEW v, NEW n, v >= BalanceAt(n), UpsertBalance(v, n)
    PROVE  LabelHonest'
<1>1. (balance' = balance /\ block' = block) \/ (balance' = v /\ block' = n)
  BY DEF UpsertBalance, dbRow
<1>2. \A h : BalanceAt(h)' = BalanceAt(h)
  BY DEF BalanceAt
<1> QED
  BY <1>1, <1>2 DEF LabelHonest, BalanceAt

LEMMA HonestStep ==
    ASSUME ~SolidReads, HonestInv, [Next]_vars
    PROVE  HonestInv'
<1>1. TypeOK /\ TypeOK' /\ LabelHonest
  BY TypeStep DEF HonestInv
<1>2. /\ head \in Nat /\ cursor \in Nat /\ lReq \in Nat /\ fLabel \in Nat /\ block \in Nat
      /\ cursor <= head /\ lReq <= head /\ fLabel <= head /\ block <= head
  <2>1. TypeFlat
    BY <1>1, Flatten
  <2>2. head \in Nat /\ moves \subseteq 1 .. head /\ lReq \in moves \cup {0}
    BY <2>1 DEF TypeFlat
  <2>3. lReq \in 0 .. head
    BY <2>2
  <2>4. cursor \in 0 .. head /\ fLabel \in 0 .. head /\ block \in 0 .. head
    BY <2>1 DEF TypeFlat
  <2> QED
    BY <2>2, <2>3, <2>4
<1>3. /\ ReadHead >= BalanceAt(cursor) /\ ReadHead >= BalanceAt(lReq) /\ ReadHead >= BalanceAt(fLabel)
      /\ Read = ReadHead
  <2>1. \A h \in Nat : h <= head => BalanceAt(h) <= BalanceAt(head) /\ BalanceAt(h) \in Nat /\ BalanceAt(head) \in Nat
    BY <1>1, <1>2, BalanceGrows, BalanceIs
  <2> QED
    BY <1>2, <2>1 DEF Read, ReadHead
<1>4. CASE ChainGrows
  <2>1. /\ BalanceAt(block)' = BalanceAt(block) /\ BalanceAt(cursor)' = BalanceAt(cursor)
        /\ BalanceAt(lReq)' = BalanceAt(lReq) /\ BalanceAt(fLabel)' = BalanceAt(fLabel)
    <3>1. \A h \in Nat : h <= head => BalanceAt(h)' = BalanceAt(h)
      BY <1>1, <1>4, BalanceStays DEF ChainGrows
    <3>2. UNCHANGED <<block, cursor, lReq, fLabel>>
      BY <1>4 DEF ChainGrows, scanner, loop, full, dbRow
    <3> QED
      BY <1>2, <3>1, <3>2 DEF BalanceAt
  <2> QED
    BY <1>1, <1>4, <2>1 DEF ChainGrows, HonestInv, LabelHonest, scanner, loop, full, dbRow
<1>5. CASE ~ChainGrows
  <2>1. UNCHANGED moves
    BY <1>5 DEF Next, ScannerStep, LoopStep, FullStep, ScanBlock, FlushRead, FlushUpsert, LoopTake,
                LoopCheck, LoopTimer, LoopRead, LoopUpsert, FullBegin, FullRead, FullUpsert, FullSkip,
                Fault, Solidify, vars, chain
  <2>2. LabelHonest'
    <3>1. CASE UNCHANGED dbRow
      BY <1>1, <2>1, <3>1 DEF LabelHonest, BalanceAt, dbRow
    <3>2. CASE FlushUpsert
      BY <1>1, <2>1, <3>2, HonestUpsert DEF FlushUpsert, HonestInv
    <3>3. CASE LoopUpsert
      BY <1>1, <2>1, <3>3, HonestUpsert DEF LoopUpsert, HonestInv
    <3>4. CASE FullUpsert
      BY <1>1, <2>1, <3>4, HonestUpsert DEF FullUpsert, HonestInv
    <3> QED
      BY <1>1, <3>1, <3>2, <3>3, <3>4, RowMoves
  <2>3. spc' = "upsert" => sVal' >= BalanceAt(cursor)'
    <3>1. spc' = "upsert" => FlushRead \/ (spc = "upsert" /\ UNCHANGED <<sVal, cursor>>)
      BY <1>5 DEF Next, ScannerStep, LoopStep, FullStep, ScanBlock, FlushUpsert, LoopTake,
                  LoopCheck, LoopTimer, LoopRead, LoopUpsert, FullBegin, FullRead, FullUpsert, FullSkip,
                  Fault, Solidify, vars, scanner
    <3> QED
      BY <1>3, <2>1, <3>1 DEF HonestInv, FlushRead, BalanceAt
  <2>4. lpc' = "upsert" => lVal' >= BalanceAt(lReq)'
    <3>1. lpc' = "upsert" => LoopRead \/ (lpc = "upsert" /\ UNCHANGED <<lVal, lReq>>)
      BY <1>5 DEF Next, ScannerStep, LoopStep, FullStep, ScanBlock, FlushRead, FlushUpsert, LoopTake,
                  LoopCheck, LoopTimer, LoopUpsert, FullBegin, FullRead, FullUpsert, FullSkip,
                  Fault, Solidify, vars, loop, Enqueue
    <3> QED
      BY <1>3, <2>1, <3>1 DEF HonestInv, LoopRead, BalanceAt
  <2>5. fpc' = "upsert" => fVal' >= BalanceAt(fLabel)'
    <3>1. fpc' = "upsert" => FullRead \/ (fpc = "upsert" /\ UNCHANGED <<fVal, fLabel>>)
      BY <1>5 DEF Next, ScannerStep, LoopStep, FullStep, ScanBlock, FlushRead, FlushUpsert, LoopTake,
                  LoopCheck, LoopTimer, LoopRead, LoopUpsert, FullBegin, FullUpsert, FullSkip,
                  Fault, Solidify, vars, full
    <3> QED
      BY <1>3, <2>1, <3>1 DEF HonestInv, FullRead, BalanceAt
  <2> QED
    BY <1>1, <2>2, <2>3, <2>4, <2>5 DEF HonestInv
<1> QED
  BY <1>4, <1>5

(* Of balances read at the head (GetUSDTBalance) the row includes every    *)
(* transfer up to the block number beside it, though the writers take      *)
(* their labels before they read, and long before they store.              *)
THEOREM LabelsAreHonest ==
    ASSUME ~SolidReads
    PROVE  Spec => []LabelHonest
<1>1. HonestInv => LabelHonest
  BY DEF HonestInv
<1>2. HonestInv /\ [Next]_vars => HonestInv'
  BY HonestStep
<1> QED
  BY <1>1, <1>2, HonestInit, PTL DEF Spec
=============================================================================
