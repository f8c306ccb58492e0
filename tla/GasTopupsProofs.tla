---------------------------- MODULE GasTopupsProofs ----------------------------
(***************************************************************************)
(* What GasTopups guarantees for any number of requests, batches and       *)
(* addresses, and with all the other programs at work at once.             *)
(***************************************************************************)
EXTENDS GasTopups, FiniteSetTheorems, TLAPS

USE ConstantsOK DEF ConstantsOK, Web, Senders

-----------------------------------------------------------------------------
(* Types.                                                                  *)

LEMMA TypeInit == Init => TypeOK
<1> SUFFICES ASSUME Init PROVE TypeOK
  OBVIOUS
<1>1. pc \in [Senders -> Labels]
  BY SMT DEF Init, Labels
<1>2. pool \in Seq(Transactions) /\ answered \subseteq Transactions
  BY SMT DEF Init
<1>3. status \in [Batches -> Statuses]
  BY SMT DEF Init, NoStatus, Statuses
<1>4. /\ item \in [Senders -> Nat] /\ nonce \in [Senders -> Nat]
      /\ good \in [Batches -> Nat] /\ bad \in [Batches -> Nat]
  <2>1. /\ item = [s \in Senders |-> 1] /\ nonce = [s \in Senders |-> 0]
        /\ good = [b \in Batches |-> 0] /\ bad = [b \in Batches |-> 0]
    BY DEF Init
  <2> QED
    BY <2>1
<1>5. /\ lock \in Web \cup {Nobody} /\ running \in BOOLEAN
      /\ current \in Batches \cup {Nobody} /\ expired \subseteq Batches /\ faults \in 0 .. MaxFaults
  <2>1. lock = Nobody /\ running = FALSE /\ current = Nobody /\ expired = {} /\ faults = 0
    BY DEF Init
  <2>2. faults \in 0 .. MaxFaults
    BY <2>1, MaxFaults \in Nat
  <2>3. lock \in Web \cup {Nobody} /\ current \in Batches \cup {Nobody}
    BY <2>1
  <2>4. running \in BOOLEAN /\ expired \subseteq Batches
    BY <2>1
  <2> QED
    BY <2>2, <2>3, <2>4
<1> QED
  BY <1>1, <1>2, <1>3, <1>4, <1>5, Zenon DEF TypeOK

LEMMA GotoType ==
    ASSUME TypeOK, NEW s \in Senders, NEW l \in Labels, Goto(s, l)
    PROVE  pc' \in [Senders -> Labels]
  BY SMT DEF TypeOK, Goto, Labels

LEMMA AfterLabel == \A s : After(s) \in Labels
  BY DEF After, Labels

LEMMA FaultType == TypeOK /\ (Fault \/ UNCHANGED faults) => faults' \in 0 .. MaxFaults
  BY SMT DEF TypeOK, Fault

\* One transfer more on the node, or another in its place.
LEMMA RawType ==
    ASSUME TypeOK, NEW tx \in Transactions, tx.nonce \in 1 .. Len(pool) + 1, SendRawTransaction(tx)
    PROVE  /\ pool' \in Seq(Transactions)
           /\ tx.nonce \in DOMAIN pool' /\ pool'[tx.nonce] = tx
           /\ DOMAIN pool \subseteq DOMAIN pool' /\ Len(pool) <= Len(pool')
           /\ \A n \in DOMAIN pool : n # tx.nonce => pool'[n] = pool[n]
<1>1. pool \in Seq(Transactions)
  BY DEF TypeOK, Transactions
<1>2. CASE tx.nonce = Len(pool) + 1
  <2>1. pool' = Append(pool, tx)
    BY <1>2 DEF SendRawTransaction, PendingNonceAt
  <2> QED
    BY <1>1, <1>2, <2>1, SMT
<1>3. CASE tx.nonce # Len(pool) + 1
  <2>1. pool' = [pool EXCEPT ![tx.nonce] = tx] /\ tx.nonce \in 1 .. Len(pool)
    BY <1>3, SMT DEF SendRawTransaction, PendingNonceAt
  <2> QED
    BY <1>1, <2>1, SMT
<1> QED
  BY <1>2, <1>3

\* A sender that is about to send has read a nonce the node knows or expects next.
NoncesOK == \A s \in Senders : pc[s] = "send" => nonce[s] \in 1 .. Len(pool) + 1

LEMMA NoteType ==
    ASSUME TypeOK, NEW s \in Senders, NEW ok \in BOOLEAN, Note(s, ok)
    PROVE  /\ pc' \in [Senders -> Labels]
           /\ good' \in [Batches -> Nat] /\ bad' \in [Batches -> Nat]
<1>1. pc' \in [Senders -> Labels]
  BY AfterLabel, GotoType DEF Note
<1> QED
  BY <1>1, SMT DEF TypeOK, Note

LEMMA EndSendType ==
    ASSUME TypeOK, NEW s \in Senders, NEW ok \in BOOLEAN, EndSend(s, ok)
    PROVE  /\ pc' \in [Senders -> Labels]
           /\ good' \in [Batches -> Nat] /\ bad' \in [Batches -> Nat]
           /\ lock' \in Web \cup {Nobody} /\ nonce' \in [Senders -> Nat]
<1>1. Note(s, ok)
  BY DEF EndSend
<1>2. lock' \in Web \cup {Nobody}
  BY Zenon DEF EndSend, TypeOK
<1>3. nonce' \in [Senders -> Nat]
  BY SMT DEF EndSend, TypeOK
<1> QED
  BY <1>1, <1>2, <1>3, NoteType

LEMMA SetStatusType ==
    ASSUME TypeOK, NEW b \in Batches, NEW finished \in BOOLEAN, SetStatus(b, finished)
    PROVE  status' \in [Batches -> Statuses]
  BY SMT DEF TypeOK, SetStatus, Statuses

LEMMA TransferType ==
    ASSUME TypeOK, NEW s \in Senders
    PROVE  Transfer(s) \in Transactions
  BY SMT DEF TypeOK, Transfer, Transactions

LEMMA WebType ==
    ASSUME TypeOK, NEW w \in Web,
           RequestOne(w) \/ RequestBatch(w) \/ Look(w) \/ Lock(w)
    PROVE  TypeOK'
<1>1. CASE RequestOne(w)
  <2>1. pc' \in [Senders -> Labels]
    BY <1>1, GotoType DEF RequestOne, Labels
  <2> QED
    BY <1>1, <2>1, Zenon DEF TypeOK, RequestOne, webVars, slotVars
<1>2. CASE RequestBatch(w)
  <2>1. pc' \in [Senders -> Labels]
    BY <1>2, GotoType DEF RequestBatch, Labels
  <2>2. status' \in [Batches -> Statuses] /\ running' \in BOOLEAN /\ current' \in Batches \cup {Nobody}
    <3>1. CASE running
      BY <1>2, <3>1, Zenon DEF TypeOK, RequestBatch, slotVars
    <3>2. CASE ~running
      <4>1. Started \in Statuses
        BY 0 \in Nat, Zenon DEF Started, Statuses
      <4>2. /\ running' = TRUE /\ current' = w /\ w \in Batches
            /\ status' = [status EXCEPT ![w] = Started]
        BY <1>2, <3>2, Zenon DEF RequestBatch
      <4> QED
        BY <4>1, <4>2, Zenon DEF TypeOK
    <3> QED
      BY <3>1, <3>2
  <2> QED
    BY <1>2, <2>1, <2>2, Zenon DEF TypeOK, RequestBatch
<1>3. CASE Look(w)
  <2>1. /\ pc' \in [Senders -> Labels]
        /\ good' \in [Batches -> Nat] /\ bad' \in [Batches -> Nat]
    BY <1>3, GotoType, NoteType, Zenon DEF Look, Labels, TypeOK
  <2> QED
    BY <1>3, <2>1, Zenon DEF TypeOK, Look, slotVars
<1>4. CASE Lock(w)
  <2>1. pc' \in [Senders -> Labels]
    BY <1>4, GotoType DEF Lock, Labels
  <2> QED
    BY <1>4, <2>1, Zenon DEF TypeOK, Lock, webVars, slotVars
<1> QED
  BY <1>1, <1>2, <1>3, <1>4

LEMMA TransferringType ==
    ASSUME TypeOK, NoncesOK, NEW s \in Senders, Transferring(s)
    PROVE  TypeOK'
<1>1. CASE ReadNonce(s)
  <2>1. /\ pc' \in [Senders -> Labels]
        /\ good' \in [Batches -> Nat] /\ bad' \in [Batches -> Nat]
        /\ lock' \in Web \cup {Nobody} /\ nonce' \in [Senders -> Nat]
    <3>1. CASE EndSend(s, FALSE)
      BY <3>1, EndSendType
    <3>2. CASE /\ nonce' = [nonce EXCEPT ![s] = PendingNonceAt]
               /\ Goto(s, "send") /\ UNCHANGED <<lock, good, bad>>
      <4>1. pc' \in [Senders -> Labels]
        BY <3>2, GotoType DEF Labels
      <4>2. PendingNonceAt \in Nat
        BY SMT DEF PendingNonceAt, TypeOK
      <4> QED
        BY <3>2, <4>1, <4>2 DEF TypeOK
    <3> QED
      BY <1>1, <3>1, <3>2, Zenon DEF ReadNonce
  <2> QED
    BY <1>1, <2>1, Zenon DEF TypeOK, ReadNonce, slotVars
<1>2. CASE Send(s)
  <2>1. pool' \in Seq(Transactions)
    <3>1. Transfer(s).nonce \in 1 .. Len(pool) + 1
      BY <1>2, Zenon DEF Send, NoncesOK, Transfer
    <3> QED
      BY <1>2, <3>1, TransferType, RawType DEF Send
  <2>2. \E ok \in BOOLEAN : EndSend(s, ok)
    BY <1>2, Zenon DEF Send
  <2>3. faults' \in 0 .. MaxFaults
    BY <1>2, FaultType DEF Send
  <2>4. answered' \subseteq Transactions
    <3>1. answered' \subseteq answered \cup {Transfer(s)}
      BY <1>2, Zenon DEF Send
    <3> QED
      BY <3>1, TransferType DEF TypeOK
  <2> QED
    BY <1>2, <2>1, <2>2, <2>3, <2>4, EndSendType, Zenon DEF TypeOK, Send, slotVars
<1>3. CASE SendRefused(s)
  <2>1. EndSend(s, FALSE)
    BY <1>3 DEF SendRefused
  <2>2. faults' \in 0 .. MaxFaults
    BY <1>3, FaultType DEF SendRefused, CallFails
  <2> QED
    BY <1>3, <2>1, <2>2, EndSendType, Zenon DEF TypeOK, SendRefused, slotVars
<1> QED
  BY <1>1, <1>2, <1>3 DEF Transferring

LEMMA ExpireType ==
    ASSUME TypeOK, NEW b \in Batches, Expire(b)
    PROVE  TypeOK'
<1>1. faults' \in 0 .. MaxFaults
  BY FaultType DEF Expire
<1> QED
  BY <1>1, Zenon DEF TypeOK, Expire, slotVars

LEMMA JobType ==
    ASSUME TypeOK, NEW b \in Web, JobStep(b)
    PROVE  TypeOK'
<1>1. b \in Batches
  BY DEF JobStep, NextItem, Count, Cooldown, FinalStatus, Release
<1>2. status' \in [Batches -> Statuses]
  <2>1. UNCHANGED status \/ SetStatus(b, TRUE) \/ SetStatus(b, FALSE)
    BY Zenon DEF JobStep, NextItem, Count, Cooldown, FinalStatus, Release, Finish
  <2> QED
    BY <1>1, <2>1, SetStatusType DEF TypeOK
<1>3. pc' \in [Senders -> Labels]
  <2>1. \E l \in {"look", "cool", "final", "item", "release", "done"} : Goto(b, l)
    BY Zenon DEF JobStep, NextItem, Count, Cooldown, FinalStatus, Release, Finish
  <2> QED
    BY <2>1, GotoType DEF Labels
<1>4. item' \in [Senders -> Nat]
  <2>1. UNCHANGED item \/ item' = [item EXCEPT ![b] = @ + 1]
    BY Zenon DEF JobStep, NextItem, Count, Cooldown, FinalStatus, Release
  <2>2. item \in [Senders -> Nat]
    BY DEF TypeOK
  <2> QED
    BY <2>1, <2>2, SMT
<1>5. running' \in BOOLEAN /\ current' \in Batches \cup {Nobody}
  <2>1. CASE UNCHANGED slotVars
    BY <2>1, Zenon DEF TypeOK, slotVars
  <2>2. CASE Release(b)
    BY <2>2, Zenon DEF TypeOK, Release
  <2> QED
    BY <2>1, <2>2, Zenon DEF JobStep, NextItem, Count, Cooldown, FinalStatus
<1>6. UNCHANGED <<pool, lock, nonce, good, bad, expired, answered, faults>>
  BY Zenon DEF JobStep, NextItem, Count, Cooldown, FinalStatus, Release
<1> QED
  BY <1>2, <1>3, <1>4, <1>5, <1>6, Zenon DEF TypeOK

LEMMA ToolType ==
    ASSUME TypeOK, NEW s \in Tools, PassOver(s) \/ Take(s) \/ Pause(s) \/ Leave(s)
    PROVE  TypeOK'
<1>1. pc' \in [Senders -> Labels]
  <2>1. UNCHANGED pc \/ \E l \in Labels : Goto(s, l)
    BY Zenon DEF PassOver, Take, Pause, Leave, Labels
  <2>2. pc \in [Senders -> Labels] /\ s \in Senders
    BY DEF TypeOK
  <2> QED
    BY <2>1, <2>2, GotoType, Zenon
<1>2. item' \in [Senders -> Nat]
  <2>1. UNCHANGED item \/ item' = [item EXCEPT ![s] = @ + 1]
    BY Zenon DEF PassOver, Take, Pause, Leave
  <2>2. item \in [Senders -> Nat]
    BY DEF TypeOK
  <2> QED
    BY <2>1, <2>2, SMT
<1>3. UNCHANGED <<pool, lock, nonce, webVars, answered, faults>>
  BY Zenon DEF PassOver, Take, Pause, Leave
<1> QED
  BY <1>1, <1>2, <1>3, Zenon DEF TypeOK, webVars, slotVars

-----------------------------------------------------------------------------
(* The account's nonces.  Who is between reading the nonce and the node's  *)
(* answer on the web side holds the lock, so a hash given meanwhile can    *)
(* only be that sender's own: its nonce is above all answered ones.        *)

LockHolder == \A w \in Web : pc[w] \in {"nonce", "send"} => lock = w
NonceIsNew == \A w \in Web : pc[w] = "send" => \A t \in answered : t.nonce < nonce[w]
AnsweredWeb == \A t \in answered : t.by \in Web

PoolInv == TypeOK /\ NoncesOK /\ LockHolder /\ NonceIsNew /\ AnsweredWeb /\ SuccessIsOnChain

LEMMA PoolInit == Init => PoolInv
<1> SUFFICES ASSUME Init PROVE PoolInv
  OBVIOUS
<1>1. TypeOK
  BY TypeInit
<1>2. \A s \in Senders : pc[s] \notin {"nonce", "send"}
  BY DEF Init
<1>3. answered = {}
  BY DEF Init
<1> QED
  BY <1>1, <1>2, <1>3 DEF PoolInv, NoncesOK, LockHolder, NonceIsNew, AnsweredWeb, SuccessIsOnChain

\* A step that neither reads a nonce nor sends.
LEMMA Settles ==
    ASSUME PoolInv, NEW s \in Senders, NEW l \in Labels \ {"nonce", "send"},
           Goto(s, l), UNCHANGED <<pool, answered>>,
           lock' = lock \/ (lock = s /\ lock' = Nobody),
           nonce' = nonce \/ nonce' = [nonce EXCEPT ![s] = 0]
    PROVE  (NoncesOK /\ LockHolder /\ NonceIsNew /\ AnsweredWeb /\ SuccessIsOnChain)'
<1>1. /\ pc \in [Senders -> Labels] /\ nonce \in [Senders -> Nat]
      /\ NoncesOK /\ LockHolder /\ NonceIsNew /\ AnsweredWeb /\ SuccessIsOnChain
  BY DEF PoolInv, TypeOK
<1>2. /\ pc'[s] \notin {"nonce", "send"}
      /\ \A r \in Senders : r # s => pc'[r] = pc[r] /\ nonce'[r] = nonce[r]
  BY <1>1 DEF Goto
<1>3. NoncesOK'
  BY <1>1, <1>2, Zenon DEF NoncesOK
<1>4. LockHolder'
  BY <1>1, <1>2 DEF LockHolder
<1>5. NonceIsNew'
  BY <1>1, <1>2, Zenon DEF NonceIsNew
<1>6. AnsweredWeb' /\ SuccessIsOnChain'
  BY <1>1, Zenon DEF AnsweredWeb, SuccessIsOnChain
<1> QED
  BY <1>3, <1>4, <1>5, <1>6

LEMMA PoolStutter ==
    ASSUME PoolInv, UNCHANGED <<pool, lock, pc, nonce, answered>>
    PROVE  (NoncesOK /\ LockHolder /\ NonceIsNew /\ AnsweredWeb /\ SuccessIsOnChain)'
  BY Zenon DEF PoolInv, NoncesOK, LockHolder, NonceIsNew, AnsweredWeb, SuccessIsOnChain

\* Taking up the transfer: the web side with the lock.
LEMMA Begins ==
    ASSUME PoolInv, NEW s \in Senders, Goto(s, "nonce"),
           UNCHANGED <<pool, nonce, answered>>,
           \/ s \in Web /\ lock = Nobody /\ lock' = s
           \/ s \in Tools /\ UNCHANGED lock
    PROVE  (NoncesOK /\ LockHolder /\ NonceIsNew /\ AnsweredWeb /\ SuccessIsOnChain)'
<1>1. /\ pc \in [Senders -> Labels]
      /\ NoncesOK /\ LockHolder /\ NonceIsNew /\ AnsweredWeb /\ SuccessIsOnChain
  BY DEF PoolInv, TypeOK
<1>2. pc'[s] = "nonce" /\ \A r \in Senders : r # s => pc'[r] = pc[r]
  BY <1>1 DEF Goto
<1>3. NoncesOK' /\ NonceIsNew'
  BY <1>1, <1>2 DEF NoncesOK, NonceIsNew
<1>4. LockHolder'
  BY <1>1, <1>2 DEF LockHolder
<1>5. AnsweredWeb' /\ SuccessIsOnChain'
  BY <1>1, Zenon DEF AnsweredWeb, SuccessIsOnChain
<1> QED
  BY <1>3, <1>4, <1>5

\* A transfer ends without a transaction.
LEMMA EndSettles ==
    ASSUME PoolInv, NEW s \in Senders, NEW ok \in BOOLEAN, EndSend(s, ok),
           UNCHANGED <<pool, answered>>
    PROVE  (NoncesOK /\ LockHolder /\ NonceIsNew /\ AnsweredWeb /\ SuccessIsOnChain)'
<1>1. Goto(s, After(s)) /\ After(s) \in Labels \ {"nonce", "send"}
  BY DEF EndSend, Note, After, Labels
<1>2. lock' = lock \/ (lock = s /\ lock' = Nobody)
  BY DEF EndSend
<1>3. nonce' = [nonce EXCEPT ![s] = 0]
  BY DEF EndSend
<1> QED
  BY <1>1, <1>2, <1>3, Settles

LEMMA PoolRead ==
    ASSUME PoolInv, NEW s \in Senders, ReadNonce(s)
    PROVE  (NoncesOK /\ LockHolder /\ NonceIsNew /\ AnsweredWeb /\ SuccessIsOnChain)'
<1>1. CASE EndSend(s, FALSE)
  BY <1>1, EndSettles DEF ReadNonce
<1>2. CASE /\ nonce' = [nonce EXCEPT ![s] = PendingNonceAt]
           /\ Goto(s, "send") /\ UNCHANGED <<lock, good, bad>>
  <2>1. /\ pc \in [Senders -> Labels] /\ nonce \in [Senders -> Nat] /\ Len(pool) \in Nat
        /\ DOMAIN pool = 1 .. Len(pool) /\ answered \subseteq Transactions
        /\ NoncesOK /\ LockHolder /\ NonceIsNew /\ AnsweredWeb /\ SuccessIsOnChain
    BY DEF PoolInv, TypeOK
  <2>2. /\ pc'[s] = "send" /\ nonce'[s] = Len(pool) + 1 /\ pc[s] = "nonce"
        /\ \A r \in Senders : r # s => pc'[r] = pc[r] /\ nonce'[r] = nonce[r]
    BY <1>2, <2>1 DEF Goto, PendingNonceAt, ReadNonce
  <2>3. UNCHANGED <<pool, lock, answered>>
    BY <1>2 DEF ReadNonce
  <2>4. NoncesOK'
    <3>1. Len(pool) + 1 \in 1 .. Len(pool) + 1
      BY <2>1
    <3> QED
      BY <2>1, <2>2, <2>3, <3>1, Zenon DEF NoncesOK
  <2>5. LockHolder'
    BY <2>1, <2>2, <2>3 DEF LockHolder
  <2>6. NonceIsNew'
    <3>1. \A t \in answered : t.nonce < Len(pool) + 1
      BY <2>1 DEF SuccessIsOnChain
    <3> QED
      BY <2>1, <2>2, <2>3, <3>1, Zenon DEF NonceIsNew
  <2>7. AnsweredWeb' /\ SuccessIsOnChain'
    BY <2>1, <2>3, Zenon DEF AnsweredWeb, SuccessIsOnChain
  <2> QED
    BY <2>4, <2>5, <2>6, <2>7
<1> QED
  BY <1>1, <1>2, Zenon DEF ReadNonce

\* The node takes the transaction: behind the others, or for a nonce that no
\* web request was given, or from one of the three that take no lock.
LEMMA PoolSend ==
    ASSUME PoolInv, NEW s \in Senders, Send(s)
    PROVE  (NoncesOK /\ LockHolder /\ NonceIsNew /\ AnsweredWeb /\ SuccessIsOnChain)'
<1> DEFINE tx == Transfer(s)
<1>1. /\ pc \in [Senders -> Labels] /\ nonce \in [Senders -> Nat] /\ Len(pool) \in Nat
      /\ DOMAIN pool = 1 .. Len(pool) /\ answered \subseteq Transactions /\ TypeOK
      /\ NoncesOK /\ LockHolder /\ NonceIsNew /\ AnsweredWeb /\ SuccessIsOnChain
  BY DEF PoolInv, TypeOK
<1>2. pc[s] = "send" /\ SendRawTransaction(tx) /\ \E ok \in BOOLEAN : EndSend(s, ok)
  BY Zenon DEF Send
<1>3. tx \in Transactions /\ tx.by = s /\ tx.nonce = nonce[s] /\ tx.nonce \in 1 .. Len(pool) + 1
  BY <1>1, <1>2, TransferType DEF NoncesOK, Transfer
<1> HIDE DEF tx
<1>4. /\ pool' \in Seq(Transactions) /\ tx.nonce \in DOMAIN pool' /\ pool'[tx.nonce] = tx
      /\ DOMAIN pool \subseteq DOMAIN pool' /\ Len(pool) <= Len(pool')
      /\ \A n \in DOMAIN pool : n # tx.nonce => pool'[n] = pool[n]
  BY <1>1, <1>2, <1>3, RawType
<1>5. \/ UNCHANGED answered
      \/ s \in Web /\ answered' = answered \cup {tx}
  BY Zenon DEF Send, tx
<1>6. /\ pc'[s] \notin {"nonce", "send"}
      /\ \A r \in Senders : r # s => pc'[r] = pc[r] /\ nonce'[r] = nonce[r]
  BY <1>1, <1>2 DEF EndSend, Note, After, Goto
<1>7. \A w \in Web : w # s /\ lock = w => lock' = w
  BY <1>2 DEF EndSend
<1>8. NoncesOK'
  <2>1. Len(pool') \in Nat
    BY <1>4
  <2>2. \A n \in 1 .. Len(pool) + 1 : n \in 1 .. Len(pool') + 1
    BY <1>1, <1>4, <2>1
  <2> QED
    BY <1>1, <1>6, <2>2, Zenon DEF NoncesOK
<1>9. LockHolder'
  BY <1>1, <1>6, <1>7, Zenon DEF LockHolder
<1>10. NonceIsNew'
  <2>1. SUFFICES ASSUME NEW w \in Web, pc'[w] = "send", NEW t \in answered'
                 PROVE  t.nonce < nonce'[w]
    BY Zenon DEF NonceIsNew
  <2>2. w # s /\ pc[w] = "send" /\ nonce'[w] = nonce[w] /\ lock = w
    BY <1>1, <1>6, <2>1 DEF LockHolder
  <2>3. s \notin Web
    BY <1>1, <1>2, <2>2 DEF LockHolder
  <2>4. t \in answered
    BY <1>5, <2>3
  <2> QED
    BY <1>1, <2>2, <2>4, Zenon DEF NonceIsNew
<1>11. AnsweredWeb'
  BY <1>1, <1>3, <1>5, Zenon DEF AnsweredWeb
<1>12. SuccessIsOnChain'
  <2>1. SUFFICES ASSUME NEW t \in answered'
                 PROVE  /\ t.nonce \in DOMAIN pool'
                        /\ pool'[t.nonce] = t \/ pool'[t.nonce].by \in Tools
    BY Zenon DEF SuccessIsOnChain
  <2>2. CASE t = tx
    BY <1>4, <2>2, Zenon
  <2>3. CASE t \in answered
    <3>1. t.nonce \in DOMAIN pool /\ (pool[t.nonce] = t \/ pool[t.nonce].by \in Tools)
      BY <1>1, <2>3, Zenon DEF SuccessIsOnChain
    <3>2. CASE t.nonce # tx.nonce
      BY <1>4, <3>1, <3>2, Zenon
    <3>3. CASE t.nonce = tx.nonce /\ s \in Tools
      BY <1>3, <1>4, <3>1, <3>3, Zenon
    <3>4. CASE t.nonce = tx.nonce /\ s \in Web
      <4>1. t.nonce < nonce[s]
        BY <1>1, <1>2, <2>3, <3>4, Zenon DEF NonceIsNew
      <4>2. t.nonce \in Nat
        BY <1>1, <2>3 DEF Transactions
      <4> QED
        BY <1>3, <3>4, <4>1, <4>2
    <3> QED
      BY <3>2, <3>3, <3>4
  <2> QED
    BY <1>5, <2>2, <2>3
<1> QED
  BY <1>8, <1>9, <1>10, <1>11, <1>12

LEMMA PoolWeb ==
    ASSUME PoolInv, NEW w \in Web,
           RequestOne(w) \/ RequestBatch(w) \/ Expire(w) \/ WebStep(w)
    PROVE  PoolInv'
<1> DEFINE Rest == NoncesOK /\ LockHolder /\ NonceIsNew /\ AnsweredWeb /\ SuccessIsOnChain
<1>1. TypeOK /\ NoncesOK /\ w \in Senders
  BY DEF PoolInv
<1>2. CASE RequestOne(w) \/ RequestBatch(w)
  <2>1. \E l \in Labels \ {"nonce", "send"} : Goto(w, l)
    BY <1>2, Zenon DEF RequestOne, RequestBatch, Labels
  <2>2. UNCHANGED <<pool, lock, nonce, answered>>
    BY <1>2, Zenon DEF RequestOne, RequestBatch
  <2> QED
    BY <1>1, <1>2, <2>1, <2>2, Settles, WebType DEF PoolInv
<1>3. CASE Expire(w)
  <2>1. Rest'
    BY <1>3, PoolStutter DEF Expire
  <2> QED
    BY <1>1, <1>3, <2>1, ExpireType DEF PoolInv, Expire
<1>4. CASE Look(w)
  <2>1. \E l \in Labels \ {"nonce", "send"} : Goto(w, l)
    BY <1>4 DEF Look, Note, After, Labels
  <2>2. UNCHANGED <<pool, lock, nonce, answered>>
    BY <1>4 DEF Look
  <2> QED
    BY <1>1, <1>4, <2>1, <2>2, Settles, WebType DEF PoolInv
<1>5. CASE Lock(w)
  <2>1. Rest'
    BY <1>1, <1>5, Begins DEF Lock, MutexFree
  <2> QED
    BY <1>1, <1>5, <2>1, WebType DEF PoolInv
<1>6. CASE Transferring(w)
  <2>1. CASE ReadNonce(w) \/ Send(w)
    BY <1>1, <1>6, <2>1, PoolRead, PoolSend, TransferringType DEF PoolInv
  <2>2. CASE SendRefused(w)
    <3>1. Rest'
      BY <1>1, <2>2, EndSettles DEF SendRefused
    <3> QED
      BY <1>1, <1>6, <3>1, TransferringType DEF PoolInv
  <2> QED
    BY <1>6, <2>1, <2>2 DEF Transferring
<1>7. CASE JobStep(w)
  <2>1. \E l \in Labels \ {"nonce", "send"} : Goto(w, l)
    BY <1>7, Zenon DEF JobStep, NextItem, Count, Cooldown, FinalStatus, Release, Finish, Labels
  <2>2. UNCHANGED <<pool, lock, nonce, answered>>
    BY <1>7, Zenon DEF JobStep, NextItem, Count, Cooldown, FinalStatus, Release
  <2> QED
    BY <1>1, <1>7, <2>1, <2>2, Settles, JobType DEF PoolInv
<1> QED
  BY <1>2, <1>3, <1>4, <1>5, <1>6, <1>7 DEF WebStep

LEMMA PoolTools ==
    ASSUME PoolInv, ToolStep
    PROVE  PoolInv'
<1>1. TypeOK /\ NoncesOK
  BY DEF PoolInv
<1>2. PICK s \in Tools : PassOver(s) \/ Take(s) \/ Pause(s) \/ Leave(s) \/ Transferring(s)
  BY Zenon DEF ToolStep, Draw, AfterDraw, SendBNB, SendBNBWithNonce, SendBSCGasTopup, Tools
<1>3. s \in Senders
  OBVIOUS
<1>4. CASE PassOver(s)
  <2>1. UNCHANGED <<pool, lock, pc, nonce, answered>>
    BY <1>4 DEF PassOver
  <2> QED
    BY <1>1, <1>4, <2>1, PoolStutter, ToolType DEF PoolInv
<1>5. CASE Take(s)
  <2>1. Goto(s, "nonce") /\ UNCHANGED <<pool, lock, nonce, answered>>
    BY <1>5 DEF Take
  <2> QED
    BY <1>1, <1>3, <1>5, <2>1, Begins, ToolType DEF PoolInv
<1>6. CASE Pause(s) \/ Leave(s)
  <2>1. \E l \in Labels \ {"nonce", "send"} : Goto(s, l)
    BY <1>6, Zenon DEF Pause, Leave, Labels
  <2>2. UNCHANGED <<pool, lock, nonce, answered>>
    BY <1>6, Zenon DEF Pause, Leave
  <2> QED
    BY <1>1, <1>3, <1>6, <2>1, <2>2, Settles, ToolType DEF PoolInv
<1>7. CASE Transferring(s)
  <2>1. CASE ReadNonce(s) \/ Send(s)
    BY <1>1, <1>3, <1>7, <2>1, PoolRead, PoolSend, TransferringType DEF PoolInv
  <2>2. CASE SendRefused(s)
    <3>1. UNCHANGED <<pool, answered>> /\ EndSend(s, FALSE)
      BY <2>2 DEF SendRefused
    <3> QED
      BY <1>1, <1>3, <1>7, <3>1, EndSettles, TransferringType DEF PoolInv
  <2> QED
    BY <1>7, <2>1, <2>2 DEF Transferring
<1> QED
  BY <1>2, <1>4, <1>5, <1>6, <1>7

LEMMA PoolStep == PoolInv /\ [Next]_vars => PoolInv'
<1> SUFFICES ASSUME PoolInv, [Next]_vars PROVE PoolInv'
  OBVIOUS
<1>1. CASE UNCHANGED vars
  <2>1. TypeOK'
    BY <1>1, Zenon DEF PoolInv, TypeOK, vars, webVars, slotVars
  <2>2. UNCHANGED <<pool, lock, pc, nonce, answered>>
    BY <1>1 DEF vars
  <2> QED
    BY <2>1, <2>2, PoolStutter DEF PoolInv
<1> QED
  BY <1>1, PoolWeb, PoolTools DEF Next

LEMMA PoolAlways == Spec => []PoolInv
  BY PoolInit, PoolStep, PTL DEF Spec

(* Every variable stays in its type, whatever the numbers of requests,     *)
(* addresses and faults (handleBSCTransferGas, runBSCGasTransferJob and    *)
(* the commands that send BNB).                                            *)
THEOREM TypeCorrect == Spec => []TypeOK
  BY PoolAlways, PTL DEF PoolInv

(* No web transfer displaces another: the transaction of a hash that was   *)
(* given out is the account's one for its nonce, unless one of the three   *)
(* that do not take bscGasTransferMu replaced it (sendBSCGasTopup).        *)
THEOREM HashesStayOnChain == Spec => []SuccessIsOnChain
  BY PoolAlways, PTL DEF PoolInv

-----------------------------------------------------------------------------
(* The batch job.  What its status says follows from where the job is: how *)
(* many addresses it has dealt with is its place in the list, each success *)
(* has a hash of its own, and the batch at work is the one in the slot.    *)

Dealing == {"item", "look", "wait", "nonce", "send"}
Dealt == {"count", "cool", "final"}
Working(b) == pc[b] \in Dealing \cup Dealt \cup {"release"}
Hashes(b) == {t \in answered : t.by = b}

SlotInv == \A b \in Batches : Working(b) => running /\ current = b

Place(b) ==
    /\ pc[b] # "pause"
    /\ pc[b] = "new" => ~status[b].known /\ item[b] = 1 /\ good[b] = 0 /\ bad[b] = 0
    /\ pc[b] \in Dealing => good[b] + bad[b] + 1 = item[b] /\ item[b] <= Total
    /\ pc[b] \in Dealt => good[b] + bad[b] = item[b] /\ item[b] <= Total
    /\ pc[b] = "cool" => item[b] < Total
    /\ pc[b] = "final" => item[b] = Total

Shown(b) ==
    /\ status[b].known /\ ~status[b].finished => pc[b] \in Dealing \cup Dealt
    /\ status[b].known /\ status[b].finished =>
          /\ pc[b] \in {"release", "done"}
          /\ \/ status[b].good + status[b].bad = Total
             \/ b \in expired /\ status[b].good + status[b].bad < Total
    /\ status[b].good <= good[b]

Counted(b) ==
    /\ IsFiniteSet(Hashes(b)) /\ good[b] <= Cardinality(Hashes(b))
    /\ \A t \in Hashes(b) : t.item <= item[b] /\ (pc[b] \in Dealing \cup {"new"} => t.item < item[b])

Batch(b) == Place(b) /\ Shown(b) /\ Counted(b)

JobInv == TypeOK /\ SlotInv /\ \A b \in Batches : Batch(b)

LEMMA JobInit == Init => JobInv
<1> SUFFICES ASSUME Init PROVE JobInv
  OBVIOUS
<1>1. TypeOK
  BY TypeInit
<1>2. \A b \in Batches : pc[b] = "new" /\ item[b] = 1 /\ good[b] = 0 /\ bad[b] = 0
  BY DEF Init
<1>3. \A b \in Batches : status[b] = NoStatus
  BY DEF Init
<1>4. answered = {}
  BY DEF Init
<1>5. SlotInv
  BY <1>2 DEF SlotInv, Working, Dealing, Dealt
<1>6. ASSUME NEW b \in Batches PROVE Batch(b)
  <2>1. Place(b)
    BY <1>2, <1>3 DEF Place, Dealing, Dealt, NoStatus
  <2>2. Shown(b)
    BY <1>2, <1>3 DEF Shown, NoStatus
  <2>3. Hashes(b) = {}
    BY <1>4 DEF Hashes
  <2>4. Counted(b)
    BY <1>2, <2>3, FS_EmptySet DEF Counted
  <2> QED
    BY <2>1, <2>2, <2>4 DEF Batch
<1> QED
  BY <1>1, <1>5, <1>6 DEF JobInv

\* What a step of another sender leaves of a batch.
LEMMA BatchStays ==
    ASSUME NEW b \in Batches, Batch(b), pc'[b] = pc[b], item'[b] = item[b],
           good'[b] = good[b], bad'[b] = bad[b], status'[b] = status[b],
           expired \subseteq expired', Hashes(b)' = Hashes(b)
    PROVE  Batch(b)'
<1>1. Place(b)'
  BY Zenon DEF Batch, Place
<1>2. Shown(b)'
  BY SMT DEF Batch, Shown
<1>3. Counted(b)'
  BY Zenon DEF Batch, Counted
<1> QED
  BY <1>1, <1>2, <1>3 DEF Batch

\* Everything a batch other than s can see of a step of s.
Apart(s) ==
    /\ \A r \in Senders : r # s => pc'[r] = pc[r] /\ item'[r] = item[r]
    /\ \A b \in Batches : b # s =>
          good'[b] = good[b] /\ bad'[b] = bad[b] /\ status'[b] = status[b] /\ Hashes(b)' = Hashes(b)
    /\ expired \subseteq expired'

LEMMA ApartMoves ==
    ASSUME TypeOK, NEW s \in Senders, NEW l \in Labels,
           UNCHANGED pc \/ Goto(s, l), UNCHANGED item \/ item' = [item EXCEPT ![s] = @ + 1],
           UNCHANGED <<good, bad>> \/ \E ok \in BOOLEAN : Note(s, ok),
           UNCHANGED status \/ (s \in Batches /\ \E v : status' = [status EXCEPT ![s] = v]),
           UNCHANGED answered \/ (\E t : t.by = s /\ answered' = answered \cup {t}),
           expired \subseteq expired'
    PROVE  Apart(s)
<1>1. /\ pc \in [Senders -> Labels] /\ item \in [Senders -> Nat]
      /\ good \in [Batches -> Nat] /\ bad \in [Batches -> Nat] /\ status \in [Batches -> Statuses]
  BY DEF TypeOK
<1>2. \A r \in Senders : r # s => pc'[r] = pc[r]
  BY <1>1 DEF Goto
<1>3. \A r \in Senders : r # s => item'[r] = item[r]
  BY <1>1
<1>4. \A b \in Batches : b # s => good'[b] = good[b] /\ bad'[b] = bad[b]
  BY <1>1 DEF Note
<1>5. \A b \in Batches : b # s => status'[b] = status[b]
  BY <1>1, Zenon
<1>6. \A b \in Batches : b # s => Hashes(b)' = Hashes(b)
  BY Zenon DEF Hashes
<1> QED
  BY <1>2, <1>3, <1>4, <1>5, <1>6, Zenon DEF Apart

\* From one stage before the outcome of an address to another.
LEMMA StillDealing ==
    ASSUME TypeOK, NEW b \in Batches, Batch(b), pc[b] \in Dealing, pc'[b] \in Dealing,
           UNCHANGED <<item, good, bad, status, expired, answered>>
    PROVE  Batch(b)'
<1>1. Place(b)'
  BY DEF Batch, Place, Dealing, Dealt
<1>2. Shown(b)'
  BY DEF Batch, Shown, Dealing, Dealt
<1>3. Counted(b)'
  BY Zenon DEF Batch, Counted, Hashes
<1> QED
  BY <1>1, <1>2, <1>3 DEF Batch

\* The outcome of an address; a success comes with a hash no earlier one had.
LEMMA OutcomeNoted ==
    ASSUME TypeOK, NEW b \in Batches, Batch(b), pc[b] \in Dealing,
           NEW ok \in BOOLEAN, Note(b, ok), UNCHANGED <<item, status, expired>>,
           \/ ~ok /\ UNCHANGED answered
           \/ ok /\ answered' = answered \cup {Transfer(b)}
    PROVE  Batch(b)'
<1>1. /\ pc \in [Senders -> Labels] /\ item \in [Senders -> Nat] /\ Total \in Nat
      /\ good \in [Batches -> Nat] /\ bad \in [Batches -> Nat] /\ b \in Senders
      /\ status[b] \in Statuses
  BY DEF TypeOK
<1>2. pc'[b] = "count"
  BY <1>1 DEF Note, Goto, After
<1>3. /\ good'[b] = IF ok THEN good[b] + 1 ELSE good[b]
      /\ bad'[b] = IF ok THEN bad[b] ELSE bad[b] + 1
  BY <1>1 DEF Note
<1>4. Place(b)'
  BY <1>1, <1>2, <1>3 DEF Batch, Place, Dealing, Dealt
<1>5. Shown(b)'
  <2>1. status[b].good \in Nat
    BY <1>1 DEF Statuses
  <2> QED
    BY <1>1, <1>2, <1>3, <2>1 DEF Batch, Shown, Dealing, Dealt
<1>6. Counted(b)'
  <2>1. /\ IsFiniteSet(Hashes(b)) /\ good[b] <= Cardinality(Hashes(b))
        /\ \A t \in Hashes(b) : t.item < item[b] /\ t.item <= item[b]
    BY DEF Batch, Counted
  <2>2. CASE ~ok
    <3>1. Hashes(b)' = Hashes(b)
      BY <2>2 DEF Hashes
    <3> QED
      BY <1>2, <1>3, <2>1, <2>2, <3>1 DEF Counted, Dealing
  <2>3. CASE ok
    <3>1. Hashes(b)' = Hashes(b) \cup {Transfer(b)}
      <4>1. Transfer(b).by = b
        BY DEF Transfer
      <4>2. answered' = answered \cup {Transfer(b)}
        BY <2>3
      <4> HIDE DEF Transfer
      <4> QED
        BY <4>1, <4>2, SMT DEF Hashes
    <3>2. Transfer(b).item = item[b] /\ Transfer(b) \notin Hashes(b)
      BY <1>1, <2>1 DEF Transfer
    <3>3. /\ IsFiniteSet(Hashes(b)')
          /\ Cardinality(Hashes(b)') = Cardinality(Hashes(b)) + 1
      BY <2>1, <3>1, <3>2, FS_AddElement
    <3>4. Cardinality(Hashes(b)) \in Nat
      BY <2>1, FS_CardinalityType
    <3>5. \A t \in Hashes(b)' : t.item <= item'[b]
      BY <1>1, <2>1, <3>1, <3>2
    <3> QED
      BY <1>1, <1>2, <1>3, <2>1, <2>3, <3>3, <3>4, <3>5 DEF Counted, Dealing
  <2> QED
    BY <2>2, <2>3
<1> QED
  BY <1>4, <1>5, <1>6 DEF Batch

LEMMA BatchBegins ==
    ASSUME TypeOK, NEW b \in Batches, Batch(b), RequestBatch(b)
    PROVE  Batch(b)'
<1>1. /\ pc \in [Senders -> Labels] /\ item \in [Senders -> Nat] /\ b \in Senders
      /\ good \in [Batches -> Nat] /\ bad \in [Batches -> Nat] /\ Total \in Nat \ {0, 1}
      /\ status \in [Batches -> Statuses] /\ pc[b] = "new"
  BY DEF TypeOK, RequestBatch
<1>2. UNCHANGED <<item, good, bad, expired, answered>>
  BY DEF RequestBatch
<1>3. ~status[b].known /\ item[b] = 1 /\ good[b] = 0 /\ bad[b] = 0
  BY <1>1 DEF Batch, Place
<1>4. Hashes(b)' = Hashes(b)
  BY <1>2 DEF Hashes
<1>5. CASE running
  <2>1. pc'[b] = "done" /\ UNCHANGED status
    BY <1>1, <1>5 DEF RequestBatch, Goto
  <2>2. Place(b)'
    BY <2>1 DEF Place, Dealing, Dealt
  <2>3. Shown(b)'
    BY <1>2, <1>3, <2>1 DEF Batch, Shown
  <2>4. Counted(b)'
    BY <1>2, <1>4, <2>1 DEF Batch, Counted, Dealing
  <2> QED
    BY <2>2, <2>3, <2>4 DEF Batch
<1>6. CASE ~running
  <2>1. pc'[b] = "item" /\ status'[b] = Started
    BY <1>1, <1>6 DEF RequestBatch, Goto
  <2>2. Place(b)'
    BY <1>1, <1>2, <1>3, <2>1 DEF Place, Dealing, Dealt
  <2>3. Shown(b)'
    BY <1>2, <1>3, <2>1 DEF Shown, Dealing, Started
  <2>4. Counted(b)'
    BY <1>1, <1>2, <1>4, <2>1 DEF Batch, Counted, Dealing
  <2> QED
    BY <2>2, <2>3, <2>4 DEF Batch
<1> QED
  BY <1>5, <1>6

\* The status of a job that ends where it is.
LEMMA BatchFinishes ==
    ASSUME TypeOK, NEW b \in Batches, Batch(b), Finish(b),
           UNCHANGED <<item, good, bad, expired, answered>>,
           good[b] + bad[b] = Total \/ (b \in expired /\ good[b] + bad[b] < Total),
           pc[b] \in Dealing \cup Dealt
    PROVE  Batch(b)'
<1>1. /\ pc \in [Senders -> Labels] /\ status \in [Batches -> Statuses] /\ b \in Senders
      /\ good[b] \in Nat
  BY DEF TypeOK
<1>2. /\ pc'[b] = "release"
      /\ status'[b] = [known |-> TRUE, good |-> good[b], bad |-> bad[b], finished |-> TRUE]
  BY <1>1 DEF Finish, SetStatus, Goto
<1>3. Place(b)'
  BY <1>2 DEF Place, Dealing, Dealt
<1>4. Shown(b)'
  BY <1>1, <1>2 DEF Shown
<1>5. Counted(b)'
  <2>1. Hashes(b)' = Hashes(b)
    BY DEF Hashes
  <2> QED
    BY <1>2, <2>1 DEF Batch, Counted, Dealing
<1> QED
  BY <1>3, <1>4, <1>5 DEF Batch

LEMMA BatchJob ==
    ASSUME TypeOK, NEW b \in Batches, Batch(b), JobStep(b)
    PROVE  Batch(b)'
<1>1. /\ pc \in [Senders -> Labels] /\ item \in [Senders -> Nat] /\ b \in Senders
      /\ good[b] \in Nat /\ bad[b] \in Nat /\ Total \in Nat
      /\ status \in [Batches -> Statuses]
  BY DEF TypeOK
<1>2. Place(b) /\ Shown(b) /\ Counted(b)
  BY DEF Batch
<1>3. CASE NextItem(b)
  <2>1. CASE b \in expired
    BY <1>1, <1>2, <1>3, <2>1, BatchFinishes DEF NextItem, Place, Dealing
  <2>2. CASE b \notin expired
    <3>1. pc'[b] \in Dealing /\ pc[b] \in Dealing
      BY <1>1, <1>3, <2>2 DEF NextItem, Goto, Dealing
    <3>2. UNCHANGED <<item, good, bad, status, expired, answered>>
      BY <1>3, <2>2 DEF NextItem
    <3> QED
      BY <3>1, <3>2, StillDealing
  <2> QED
    BY <2>1, <2>2
<1>4. CASE Count(b)
  <2>1. /\ pc[b] = "count" /\ pc'[b] = IF item[b] < Total THEN "cool" ELSE "final"
        /\ status'[b] = [known |-> TRUE, good |-> good[b], bad |-> bad[b], finished |-> FALSE]
        /\ UNCHANGED <<item, good, bad, expired, answered>>
    BY <1>1, <1>4 DEF Count, SetStatus, Goto
  <2>2. Place(b)'
    BY <1>1, <1>2, <2>1 DEF Place, Dealing, Dealt
  <2>3. Shown(b)'
    BY <1>1, <2>1 DEF Shown, Dealt
  <2>4. Hashes(b)' = Hashes(b)
    BY <2>1 DEF Hashes
  <2>5. Counted(b)'
    BY <1>2, <2>1, <2>4 DEF Counted, Dealing
  <2> QED
    BY <2>2, <2>3, <2>5 DEF Batch
<1>5. CASE Cooldown(b)
  <2>1. pc[b] = "cool" /\ good[b] + bad[b] = item[b] /\ item[b] < Total
    BY <1>2, <1>5 DEF Cooldown, Place, Dealt
  <2>2. UNCHANGED <<good, bad, expired, answered>>
    BY <1>5 DEF Cooldown
  <2>3. CASE b \in expired /\ Finish(b) /\ UNCHANGED item
    BY <2>1, <2>2, <2>3, BatchFinishes DEF Dealt
  <2>4. CASE item' = [item EXCEPT ![b] = @ + 1] /\ Goto(b, "item") /\ UNCHANGED status
    <3>1. pc'[b] = "item" /\ item'[b] = item[b] + 1
      BY <1>1, <2>4 DEF Goto
    <3>2. Place(b)'
      BY <1>1, <2>1, <2>2, <3>1 DEF Place, Dealing, Dealt
    <3>3. Shown(b)'
      BY <1>2, <2>1, <2>2, <2>4, <3>1 DEF Shown, Dealing
    <3>4. Hashes(b)' = Hashes(b)
      BY <2>2 DEF Hashes
    <3>5. \A t \in Hashes(b) : t.item \in Nat
      BY DEF Hashes, TypeOK, Transactions
    <3>6. Counted(b)'
      BY <1>1, <1>2, <2>2, <3>1, <3>4, <3>5 DEF Counted
    <3> QED
      BY <3>2, <3>3, <3>6 DEF Batch
  <2> QED
    BY <1>5, <2>3, <2>4 DEF Cooldown
<1>6. CASE FinalStatus(b)
  <2>1. good[b] + bad[b] = Total /\ pc[b] \in Dealt
    BY <1>2, <1>6 DEF FinalStatus, Place, Dealt
  <2> QED
    BY <1>6, <2>1, BatchFinishes DEF FinalStatus
<1>7. CASE Release(b)
  <2>1. /\ pc[b] = "release" /\ pc'[b] = "done"
        /\ UNCHANGED <<item, good, bad, status, expired, answered>>
    BY <1>1, <1>7 DEF Release, Goto
  <2>2. Place(b)'
    BY <2>1 DEF Place, Dealing, Dealt
  <2>3. Shown(b)'
    BY <1>2, <2>1 DEF Shown, Dealing, Dealt
  <2>4. Hashes(b)' = Hashes(b)
    BY <2>1 DEF Hashes
  <2>5. Counted(b)'
    BY <1>2, <2>1, <2>4 DEF Counted, Dealing
  <2> QED
    BY <2>2, <2>3, <2>5 DEF Batch
<1> QED
  BY <1>3, <1>4, <1>5, <1>6, <1>7 DEF JobStep

LEMMA BatchSends ==
    ASSUME TypeOK, NEW b \in Batches, Batch(b), Look(b) \/ Lock(b) \/ Transferring(b)
    PROVE  Batch(b)'
<1>1. pc \in [Senders -> Labels] /\ b \in Senders
  BY DEF TypeOK
<1>2. pc[b] \in Dealing
  BY DEF Look, Lock, Transferring, ReadNonce, Send, SendRefused, Dealing
<1>3. CASE \E l \in Dealing : Goto(b, l) /\ UNCHANGED <<item, good, bad, status, expired, answered>>
  <2>1. pc'[b] \in Dealing
    BY <1>1, <1>3 DEF Goto
  <2> QED
    BY <1>2, <1>3, <2>1, StillDealing
<1>4. CASE Note(b, FALSE) /\ UNCHANGED <<item, status, expired, answered>>
  BY <1>2, <1>4, OutcomeNoted
<1>5. CASE Look(b)
  BY <1>3, <1>4, <1>5, Zenon DEF Look, Dealing
<1>6. CASE Lock(b)
  BY <1>3, <1>6, Zenon DEF Lock, webVars, Dealing
<1>7. CASE ReadNonce(b)
  BY <1>3, <1>4, <1>7, Zenon DEF ReadNonce, EndSend, Dealing
<1>8. CASE SendRefused(b)
  BY <1>4, <1>8, Zenon DEF SendRefused, EndSend
<1>9. CASE Send(b)
  <2>1. CASE Note(b, TRUE) /\ answered' = answered \cup {Transfer(b)} /\ UNCHANGED <<item, status, expired>>
    BY <1>2, <2>1, OutcomeNoted
  <2>2. b \in Web
    OBVIOUS
  <2> QED
    BY <1>4, <1>9, <2>1, <2>2, Zenon DEF Send, EndSend
<1> QED
  BY <1>5, <1>6, <1>7, <1>8, <1>9 DEF Transferring

-----------------------------------------------------------------------------
(* Each step leaves the batches of others alone.                           *)

LEMMA ApartTransferring ==
    ASSUME TypeOK, NEW s \in Senders, Transferring(s)
    PROVE  Apart(s)
<1>1. UNCHANGED <<item, status, expired>>
  BY Zenon DEF Transferring, ReadNonce, Send, SendRefused
<1>2. UNCHANGED answered \/ (\E t : t.by = s /\ answered' = answered \cup {t})
  <2>1. Transfer(s).by = s
    BY DEF Transfer
  <2> QED
    BY <2>1, Zenon DEF Transferring, ReadNonce, Send, SendRefused
<1>3. \/ UNCHANGED <<good, bad>> /\ Goto(s, "send")
      \/ \E ok \in BOOLEAN : Note(s, ok)
  BY Zenon DEF Transferring, ReadNonce, Send, SendRefused, EndSend
<1>4. \E l \in Labels : Goto(s, l)
  BY <1>3, AfterLabel, Zenon DEF Note, Labels
<1> QED
  BY <1>1, <1>2, <1>3, <1>4, ApartMoves

LEMMA ApartWeb ==
    ASSUME TypeOK, NEW w \in Web,
           RequestOne(w) \/ RequestBatch(w) \/ Expire(w) \/ WebStep(w)
    PROVE  Apart(w)
<1>1. CASE Transferring(w)
  BY <1>1, ApartTransferring
<1>2. CASE Look(w)
  <2>1. \E l \in Labels : Goto(w, l)
    BY <1>2, AfterLabel, Zenon DEF Look, Note, Labels
  <2>2. UNCHANGED <<good, bad>> \/ \E ok \in BOOLEAN : Note(w, ok)
    BY <1>2, Zenon DEF Look
  <2>3. UNCHANGED <<item, status, expired, answered>>
    BY <1>2 DEF Look
  <2> QED
    BY <2>1, <2>2, <2>3, ApartMoves
<1>3. CASE RequestOne(w) \/ RequestBatch(w) \/ Lock(w) \/ JobStep(w)
  <2>1. \E l \in Labels : Goto(w, l)
    BY <1>3, Zenon DEF RequestOne, RequestBatch, Lock, JobStep, NextItem, Count, Cooldown,
                       FinalStatus, Release, Finish, Labels
  <2>2. UNCHANGED item \/ item' = [item EXCEPT ![w] = @ + 1]
    BY <1>3, Zenon DEF RequestOne, RequestBatch, Lock, JobStep, NextItem, Count, Cooldown,
                       FinalStatus, Release
  <2>3. UNCHANGED status \/ (w \in Batches /\ \E v : status' = [status EXCEPT ![w] = v])
    BY <1>3, Zenon DEF RequestOne, RequestBatch, Lock, JobStep, NextItem, Count, Cooldown,
                       FinalStatus, Release, Finish, SetStatus, webVars
  <2>4. UNCHANGED <<good, bad, expired, answered>>
    BY <1>3, Zenon DEF RequestOne, RequestBatch, Lock, JobStep, NextItem, Count, Cooldown,
                       FinalStatus, Release, webVars
  <2> QED
    BY <2>1, <2>2, <2>3, <2>4, ApartMoves
<1>4. CASE Expire(w)
  <2>1. UNCHANGED <<pc, item, good, bad, status, answered>> /\ expired \subseteq expired'
    BY <1>4 DEF Expire
  <2> QED
    BY <2>1, Zenon DEF Apart, Hashes
<1> QED
  BY <1>1, <1>2, <1>3, <1>4 DEF WebStep

LEMMA ApartTools ==
    ASSUME TypeOK, ToolStep
    PROVE  \E s \in Tools : Apart(s)
<1>1. PICK s \in Tools : PassOver(s) \/ Take(s) \/ Pause(s) \/ Leave(s) \/ Transferring(s)
  BY Zenon DEF ToolStep, Draw, AfterDraw, SendBNB, SendBNBWithNonce, SendBSCGasTopup, Tools
<1>2. s \in Senders
  OBVIOUS
<1>3. CASE Transferring(s)
  BY <1>2, <1>3, ApartTransferring
<1>4. CASE PassOver(s) \/ Take(s) \/ Pause(s) \/ Leave(s)
  <2>1. UNCHANGED pc \/ \E l \in Labels : Goto(s, l)
    BY <1>4, Zenon DEF PassOver, Take, Pause, Leave, Labels
  <2>2. UNCHANGED item \/ item' = [item EXCEPT ![s] = @ + 1]
    BY <1>4, Zenon DEF PassOver, Take, Pause, Leave
  <2>3. UNCHANGED <<good, bad, status, expired, answered>>
    BY <1>4, Zenon DEF PassOver, Take, Pause, Leave, webVars
  <2>4. CASE UNCHANGED pc
    <3>1. "item" \in Labels
      BY DEF Labels
    <3> QED
      BY <1>2, <2>2, <2>3, <2>4, <3>1, ApartMoves
  <2> QED
    BY <1>2, <2>1, <2>2, <2>3, <2>4, ApartMoves
<1> QED
  BY <1>1, <1>3, <1>4

-----------------------------------------------------------------------------
\* The batch at work is the one in the slot.
LEMMA SlotStep ==
    ASSUME TypeOK, SlotInv, NEW s \in Senders, Apart(s),
           \/ UNCHANGED slotVars /\ (s \in Batches /\ Working(s)' => Working(s))
           \/ RequestBatch(s) \/ Release(s)
    PROVE  SlotInv'
<1>1. \A b \in Batches : b # s => (Working(b)' <=> Working(b))
  BY Zenon DEF Apart, Working
<1>2. pc \in [Senders -> Labels]
  BY DEF TypeOK
<1>3. CASE UNCHANGED slotVars /\ (s \in Batches /\ Working(s)' => Working(s))
  BY <1>1, <1>3, Zenon DEF SlotInv, slotVars
<1>4. CASE RequestBatch(s)
  <2>1. CASE running
    <3>1. ~Working(s)'
      BY <1>2, <1>4, <2>1 DEF RequestBatch, Goto, Working, Dealing, Dealt
    <3>2. UNCHANGED slotVars
      BY <1>4, <2>1 DEF RequestBatch
    <3> QED
      BY <1>1, <3>1, <3>2, Zenon DEF SlotInv, slotVars
  <2>2. CASE ~running
    BY <1>1, <1>4, <2>2, Zenon DEF SlotInv, RequestBatch
  <2> QED
    BY <2>1, <2>2
<1>5. CASE Release(s)
  <2>1. s \in Batches /\ Working(s)
    BY <1>5 DEF Release, Working
  <2>2. ~Working(s)'
    BY <1>2, <1>5 DEF Release, Goto, Working, Dealing, Dealt
  <2> QED
    BY <1>1, <2>1, <2>2, Zenon DEF SlotInv
<1> QED
  BY <1>3, <1>4, <1>5

LEMMA JobWeb ==
    ASSUME JobInv, NEW w \in Web,
           RequestOne(w) \/ RequestBatch(w) \/ Expire(w) \/ WebStep(w)
    PROVE  SlotInv' /\ \A b \in Batches : Batch(b)'
<1>1. TypeOK /\ SlotInv /\ w \in Senders /\ Apart(w)
  BY ApartWeb DEF JobInv
<1>2. \A b \in Batches : b # w => Batch(b)'
  <2>1. SUFFICES ASSUME NEW b \in Batches, b # w PROVE Batch(b)'
    OBVIOUS
  <2> QED
    BY <1>1, <2>1, BatchStays DEF Apart, JobInv
<1>3. w \in Batches => Batch(w)'
  <2>1. SUFFICES ASSUME w \in Batches PROVE Batch(w)'
    OBVIOUS
  <2>2. CASE RequestOne(w)
    BY <2>1, <2>2 DEF RequestOne
  <2>3. CASE RequestBatch(w)
    BY <2>1, <2>3, BatchBegins DEF JobInv
  <2>4. CASE Expire(w)
    <3>1. /\ UNCHANGED <<pc, item, good, bad, status>> /\ expired \subseteq expired'
          /\ Hashes(w)' = Hashes(w)
      BY <2>4 DEF Expire, Hashes
    <3> QED
      BY <2>1, <3>1, BatchStays DEF JobInv
  <2>5. CASE Look(w) \/ Lock(w) \/ Transferring(w)
    BY <2>1, <2>5, BatchSends DEF JobInv
  <2>6. CASE JobStep(w)
    BY <2>1, <2>6, BatchJob DEF JobInv
  <2> QED
    BY <2>2, <2>3, <2>4, <2>5, <2>6 DEF WebStep
<1>4. SlotInv'
  <2>1. CASE RequestBatch(w) \/ Release(w)
    BY <1>1, <2>1, SlotStep
  <2>2. CASE RequestOne(w)
    BY <1>1, <2>2, SlotStep DEF RequestOne, webVars, slotVars
  <2>3. CASE Expire(w)
    BY <1>1, <2>3, SlotStep DEF Expire, Working
  <2>4. CASE Look(w) \/ Lock(w) \/ Transferring(w) \/ (JobStep(w) /\ ~Release(w))
    <3>1. Working(w)
      BY <2>4 DEF Look, Lock, Transferring, ReadNonce, Send, SendRefused, JobStep,
                  NextItem, Count, Cooldown, FinalStatus, Working, Dealing, Dealt
    <3>2. UNCHANGED slotVars
      BY <2>4 DEF Look, Lock, Transferring, ReadNonce, Send, SendRefused, JobStep,
                  NextItem, Count, Cooldown, FinalStatus, webVars
    <3> QED
      BY <1>1, <3>1, <3>2, SlotStep
  <2> QED
    BY <2>1, <2>2, <2>3, <2>4 DEF WebStep, JobStep
<1> QED
  BY <1>2, <1>3, <1>4

LEMMA JobTools ==
    ASSUME JobInv, ToolStep
    PROVE  SlotInv' /\ \A b \in Batches : Batch(b)'
<1>1. TypeOK /\ SlotInv
  BY DEF JobInv
<1>2. PICK s \in Tools : Apart(s)
  BY <1>1, ApartTools
<1>3. s \in Senders /\ s \notin Batches
  OBVIOUS
<1>4. UNCHANGED slotVars
  BY Zenon DEF ToolStep, PassOver, Take, Pause, Leave, Draw, AfterDraw, SendBNB, SendBNBWithNonce,
               SendBSCGasTopup, Transferring, ReadNonce, Send, SendRefused, webVars
<1>5. SlotInv'
  BY <1>1, <1>2, <1>3, <1>4, SlotStep
<1>6. ASSUME NEW b \in Batches PROVE Batch(b)'
  BY <1>2, <1>3, <1>6, BatchStays DEF Apart, JobInv
<1> QED
  BY <1>5, <1>6

LEMMA JobNext == JobInv /\ TypeOK' /\ [Next]_vars => JobInv'
<1> SUFFICES ASSUME JobInv, TypeOK', [Next]_vars PROVE JobInv'
  OBVIOUS
<1>1. CASE UNCHANGED vars
  <2>1. UNCHANGED <<pc, item, good, bad, status, expired, answered, slotVars>>
    BY <1>1 DEF vars, webVars
  <2>2. ASSUME NEW b \in Batches PROVE Batch(b)'
    <3>1. Hashes(b)' = Hashes(b)
      BY <2>1 DEF Hashes
    <3> QED
      BY <2>1, <2>2, <3>1, BatchStays DEF JobInv
  <2>3. SlotInv'
    BY <2>1, Zenon DEF JobInv, SlotInv, Working, slotVars
  <2> QED
    BY <2>2, <2>3 DEF JobInv
<1> QED
  BY <1>1, JobWeb, JobTools DEF Next, JobInv

(* What a client polls of a batch agrees with the job, for any number of   *)
(* batches and addresses: an unfinished one is the batch in the slot, its  *)
(* successes were given as many hashes, and a finished one has dealt with  *)
(* every address or run out of time (runBSCGasTransferJob,                 *)
(* setBSCGasTransferJobStatus).                                            *)
THEOREM StatusIsTrue == Spec => []StatusTellsTheTruth
<1>1. JobInv => StatusTellsTheTruth
  <2> SUFFICES ASSUME JobInv, NEW b \in Batches, status[b].known
               PROVE  /\ status[b].finished \/ (running /\ current = b)
                      /\ status[b].good <= Cardinality({t \in answered : t.by = b})
                      /\ status[b].finished =>
                            \/ status[b].good + status[b].bad = Total
                            \/ b \in expired /\ status[b].good + status[b].bad < Total
    BY DEF StatusTellsTheTruth
  <2>1. Shown(b) /\ Counted(b) /\ SlotInv
    BY DEF JobInv, Batch
  <2>2. /\ good[b] \in Nat /\ status[b].good \in Nat
        /\ status[b].finished \in BOOLEAN
    BY DEF JobInv, TypeOK, Statuses
  <2>3. status[b].finished \/ (running /\ current = b)
    BY <2>1 DEF Shown, SlotInv, Working
  <2>4. status[b].good <= Cardinality({t \in answered : t.by = b})
    <3>1. Cardinality(Hashes(b)) \in Nat
      BY <2>1, FS_CardinalityType DEF Counted
    <3> QED
      BY <2>1, <2>2, <3>1 DEF Shown, Counted, Hashes
  <2> QED
    BY <2>1, <2>2, <2>3, <2>4 DEF Shown
<1>2. Spec => []TypeOK
  BY TypeCorrect
<1> QED
  BY <1>1, <1>2, JobInit, JobNext, PTL DEF Spec
=============================================================================
