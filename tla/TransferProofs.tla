---------------------------- MODULE TransferProofs ----------------------------
(***************************************************************************)
(* Proofs about what becomes of a transfer: that its row is stored before  *)
(* the cursor passes its block, its customer told and its balances asked   *)
(* for (TransferRecords), and that a customer hears of it again only for a *)
(* cause (Alerts).                                                         *)
(*                                                                         *)
(* Alerts.  A message may be put on the queue as often as its mark was     *)
(* set; a mark is set once more only after it ran out or a restart took    *)
(* it, so what was told and what is about to be put is at most what ran    *)
(* out, what is marked, and the restarts.                                  *)
(*                                                                         *)
(* TransferRecords.  While a scan may still save its cursor, a due row is  *)
(* on the channel, with a worker that has not got to its insert yet, on    *)
(* record, or excused; once the last worker has ended nothing is left for  *)
(* the first two.                                                          *)
(***************************************************************************)
EXTENDS Alerts, TransferRecords, TLAPS

-----------------------------------------------------------------------------
(* A customer is told again only for a cause (Alerts).                     *)

Marked(t) == IF t \in recent THEN 1 ELSE 0

CountsOK ==
    /\ recent \subseteq Transfers
    /\ check \in [Transfers -> Nat] /\ put \in [Transfers -> Nat]
    /\ timesTold \in [Transfers -> Nat] /\ aged \in [Transfers -> Nat] /\ restarts \in Nat

MarksCover == \A t \in Transfers : timesTold[t] + put[t] <= aged[t] + Marked(t) + restarts

TellInv == CountsOK /\ MarksCover

LEMMA TellInit == Init => TellInv
  BY SMT DEF Init, NotifierInit, TellInv, CountsOK, MarksCover, Marked

\* The look and the mark are one step, so a mark comes with every pass.
LEMMA TellCheck ==
    ASSUME NEW t \in Transfers, TellInv, CheckRecent(t)
    PROVE  TellInv'
  BY SMT DEF TellInv, CountsOK, MarksCover, Marked, CheckRecent, PassLook

LEMMA TellPut ==
    ASSUME NEW t \in Transfers, TellInv, PutOnQueue(t)
    PROVE  TellInv'
<1>1. /\ put' = [put EXCEPT ![t] = @ - 1] /\ put[t] \in Nat /\ put[t] > 0
      /\ timesTold' = [timesTold EXCEPT ![t] = @ + 1] \/ timesTold' = timesTold
      /\ UNCHANGED <<recent, check, aged, restarts>>
  BY DEF TellInv, CountsOK, PutOnQueue
<1>2. CountsOK'
  BY <1>1 DEF TellInv, CountsOK
<1>3. MarksCover'
  BY <1>1 DEF TellInv, CountsOK, MarksCover, Marked
<1> QED
  BY <1>2, <1>3 DEF TellInv

LEMMA TellRunOut ==
    ASSUME NEW t \in Transfers, TellInv, RunOut(t)
    PROVE  TellInv'
  BY SMT DEF TellInv, CountsOK, MarksCover, Marked, RunOut

LEMMA TellCall ==
    ASSUME NEW t \in Transfers, TellInv, NotifyTransfer(t)
    PROVE  TellInv'
  BY SMT DEF TellInv, CountsOK, MarksCover, Marked, NotifyTransfer

LEMMA TellRun == TellInv /\ RunStep => TellInv'
  BY SMT DEF TellInv, CountsOK, MarksCover, Marked, RunStep, TakeMessage, SendMessage

\* A restart takes the marks, and the calls that are under way with them.
LEMMA TellRestart == TellInv /\ NotifierRestart => TellInv'
<1> SUFFICES ASSUME TellInv, NotifierRestart PROVE TellInv'
  OBVIOUS
<1>1. CountsOK'
  BY DEF TellInv, CountsOK, NotifierRestart
<1>2. \A t \in Transfers : /\ timesTold[t] + put[t] <= aged[t] + Marked(t) + restarts
                          /\ timesTold[t] \in Nat /\ put[t] \in Nat /\ aged[t] \in Nat
                          /\ Marked(t) \in {0, 1}
  BY DEF TellInv, CountsOK, MarksCover, Marked
<1>3. /\ restarts' = restarts + 1 /\ restarts \in Nat /\ UNCHANGED <<timesTold, aged>>
      /\ \A t \in Transfers : put'[t] = 0 /\ Marked(t)' = 0
  BY DEF TellInv, CountsOK, Marked, NotifierRestart
<1>4. MarksCover'
  BY <1>2, <1>3 DEF MarksCover
<1> QED
  BY <1>1, <1>4 DEF TellInv

LEMMA TellStutter == TellInv /\ UNCHANGED notifierVars => TellInv'
  BY SMT DEF TellInv, CountsOK, MarksCover, Marked, notifierVars

LEMMA TellStep == TellInv /\ [Next]_vars => TellInv'
<1> SUFFICES ASSUME TellInv, [Next]_vars PROVE TellInv'
  OBVIOUS
<1>1. CASE \E t \in Transfers : Match(t)
  BY <1>1, TellCall DEF Match
<1>2. CASE NotifierNext
  <2>1. CASE \E t \in Transfers : CallStep(t) \/ RunOut(t)
    BY <2>1, TellCheck, TellPut, TellRunOut DEF CallStep
  <2>2. CASE RunStep
    BY <2>2, TellRun
  <2> QED
    BY <1>2, <2>1, <2>2 DEF NotifierNext
<1>3. CASE UNCHANGED notifierVars
  BY <1>3, TellStutter
<1>4. CASE ProcessRestarts
  BY <1>4, TellRestart DEF ProcessRestarts
<1> QED
  BY <1>1, <1>2, <1>3, <1>4 DEF Next, vars

(* A transfer is told of again only after its mark ran out or the process  *)
(* was restarted: never because its block is scanned again in between, two *)
(* calls look at the marks together, or messages wait (NotifyTransfer of   *)
(* both notifiers). Any number of transfers, calls and restarts, any queue.*)
THEOREM RepeatsAreCaused == Spec => []RepeatsHaveACause
<1>1. TellInv => RepeatsHaveACause
  BY SMT DEF TellInv, CountsOK, MarksCover, Marked, RepeatsHaveACause
<1> QED
  BY <1>1, TellInit, TellStep, PTL DEF Spec

-----------------------------------------------------------------------------
(* What becomes of the transfers of a block (TransferRecords).             *)

\* The row a worker in this state is busy with.
HeldRow(me, side) == [side |-> side, tx |-> me.tx, leg |-> me.leg]

\* A transfer of its transaction that the worker has not looked at yet.
Ahead(me, r) ==
    /\ me.step \notin {"idle", "gone"} /\ me.tx = r.tx
    /\ r.leg > me.leg \/ (r.leg = me.leg /\ me.step = "look")

\* A watched end of the transfer it is busy with, at one of these steps.
InHand(me, r, steps) ==
    me.tx = r.tx /\ me.leg = r.leg /\ r.side \in me.hit /\ me.step \in steps

RecordSteps(side) ==
    {"out", "tellOut"} \cup (IF side = "IN" THEN {"in", "tellIn"} ELSE {})
AskSteps == {"out", "tellOut", "in", "tellIn", "ask"}

\* Will a worker in this state record the row; will it ask for a refresh?
WillRecord(me, r) == Ahead(me, r) \/ InHand(me, r, RecordSteps(r.side))
WillAsk(me, r) == Ahead(me, r) \/ InHand(me, r, AskSteps)

Recorded(r) == r \in stored /\ (scanner = "main" => r \in told)

\* What SaveCoversBalances excuses.
Unasked ==
    {r \in Rows : r.tx \in unread \cup early \/ (scanner = "main" /\ r \in Excused)}

\* A scan that may still save its cursor.
Live == pc # "idle" /\ ~cancelled

\* Every due row of a live scan is still on the channel, with a worker, done or
\* excused.
RowsOwed ==
    Live => \A r \in Due :
        \/ r \in Excused \/ r.tx >= next \/ Recorded(r)
        \/ \E w \in Workers : WillRecord(worker[w], r)
RefreshesOwed ==
    Live => \A r \in Due :
        \/ r \in Unasked \/ r.tx >= next \/ r \in asked
        \/ \E w \in Workers : WillAsk(worker[w], r)

\* A worker is where its transaction lets it be, and has stored what it tells of.
Fits(me, n) ==
    /\ me.step \notin {"idle", "gone"} => me.tx \in 1 .. n - 1
    /\ me.step = "info" => me.leg = 0
    /\ me.step \notin {"idle", "gone", "info"} => me.leg \in DOMAIN Block[me.tx].legs
TellsStored(me, rows) ==
    /\ me.step = "tellOut" => HeldRow(me, "OUT") \in rows
    /\ me.step = "tellIn" => HeldRow(me, "IN") \in rows

\* The channel is empty when the first worker ends, and the cursor is saved
\* when all have.
ScanControl ==
    /\ saved => pc = "idle" /\ ~cancelled
    /\ pc = "save" => \A w \in Workers : worker[w] = Gone
    /\ Live /\ worker[1] = Gone => next > Len(Block)

\* The inductive invariant.
RecordsInv ==
    /\ RecordsTypeOK
    /\ \A w \in Workers : Fits(worker[w], next) /\ TellsStored(worker[w], stored)
    /\ ToldIsStored
    /\ ScanControl
    /\ RowsOwed /\ RefreshesOwed
    /\ SavedMeansRecorded

-----------------------------------------------------------------------------
(* A worker's state.                                                       *)

LEMMA BlockShape ==
    /\ Len(Block) \in Nat /\ TxIndex = 1 .. Len(Block)
    /\ \A t \in TxIndex : Len(Block[t].legs) \in Nat /\ DOMAIN Block[t].legs = 1 .. Len(Block[t].legs)
    /\ \A t \in TxIndex : Block[t].kind = "trx" => Len(Block[t].legs) = 1
  BY ConstantsOK DEF ConstantsOK, IsList, Transaction, TxIndex

LEMMA RowShape ==
    ASSUME NEW r \in Rows
    PROVE  /\ r.side \in Side /\ r.tx \in TxIndex /\ r.leg \in DOMAIN Block[r.tx].legs
           /\ r = [side |-> r.side, tx |-> r.tx, leg |-> r.leg]
           /\ r.tx \in Nat /\ r.leg \in Nat /\ r.leg >= 1 /\ r.leg <= Len(Block[r.tx].legs)
<1>1. PICK side \in Side, l \in Legs : r = [side |-> side, tx |-> l[1], leg |-> l[2]]
  BY DEF Rows
<1>2. PICK t \in TxIndex : l \in {t} \X DOMAIN Block[t].legs
  BY <1>1 DEF Legs
<1>3. l[1] = t /\ l[2] \in DOMAIN Block[t].legs
  BY <1>2
<1>4. r.side = side /\ r.tx = t /\ r.leg = l[2]
  BY <1>1, <1>3
<1>5. t \in Nat /\ l[2] \in 1 .. Len(Block[t].legs) /\ Len(Block[t].legs) \in Nat
  BY <1>3, BlockShape
<1> QED
  BY <1>1, <1>3, <1>4, <1>5

LEMMA HeldIsRow ==
    ASSUME NEW me \in WorkerState, NEW side \in Side,
           me.tx \in TxIndex, me.leg \in DOMAIN Block[me.tx].legs
    PROVE  HeldRow(me, side) \in Rows
<1>1. <<me.tx, me.leg>> \in Legs
  BY DEF Legs
<1> QED
  BY <1>1 DEF HeldRow, Rows

\* The row a worker holds is known by its three parts.
LEMMA HeldIs ==
    ASSUME NEW me \in WorkerState, NEW r \in Rows, me.tx = r.tx, me.leg = r.leg
    PROVE  r = HeldRow(me, r.side)
  BY RowShape DEF HeldRow

LEMMA IdleIs ==
    /\ Idle \in WorkerState /\ Gone \in WorkerState /\ Idle.step = "idle" /\ Gone.step = "gone"
    /\ Idle.hit = {} /\ Gone.hit = {}
  BY DEF Idle, Gone, WorkerState, Step

\* A worker that waits or has ended owes nothing.
LEMMA NothingOwed ==
    ASSUME NEW me, me.step \in {"idle", "gone"}, NEW r
    PROVE  /\ ~WillRecord(me, r) /\ ~WillAsk(me, r)
           /\ \A n, rows : Fits(me, n) /\ TellsStored(me, rows)
  BY DEF WillRecord, WillAsk, Ahead, InHand, RecordSteps, AskSteps, Fits, TellsStored

\* The state NextLeg leads to.
AfterLeg(me) ==
    IF me.leg < Len(Block[me.tx].legs)
    THEN [step |-> "look", tx |-> me.tx, leg |-> me.leg + 1, hit |-> {}]
    ELSE Idle

LEMMA NextLegIs ==
    ASSUME NEW w \in Workers, worker \in [Workers -> WorkerState], NextLeg(w)
    PROVE  worker' = [worker EXCEPT ![w] = AfterLeg(worker[w])]
  BY DEF NextLeg, AfterLeg

LEMMA AfterLegFits ==
    ASSUME NEW me \in WorkerState, NEW n \in Nat, n <= Len(Block) + 1,
           me.step \notin {"idle", "gone"}, Fits(me, n)
    PROVE  /\ AfterLeg(me) \in WorkerState /\ AfterLeg(me) # Gone
           /\ Fits(AfterLeg(me), n)
           /\ AfterLeg(me).step \in {"look", "idle"}
           /\ \A r \in Rows : me.tx = r.tx /\ r.leg > me.leg => Ahead(AfterLeg(me), r)
<1>1. me.tx \in TxIndex /\ me.tx \in 1 .. n - 1 /\ me.leg \in Nat
  BY BlockShape DEF Fits, WorkerState
<1>2. Len(Block[me.tx].legs) \in Nat /\ DOMAIN Block[me.tx].legs = 1 .. Len(Block[me.tx].legs)
  BY <1>1, BlockShape
<1>3. CASE me.leg < Len(Block[me.tx].legs)
  <2>1. AfterLeg(me) = [step |-> "look", tx |-> me.tx, leg |-> me.leg + 1, hit |-> {}]
    BY <1>3 DEF AfterLeg
  <2>2. /\ AfterLeg(me) \in WorkerState /\ AfterLeg(me).step = "look" /\ AfterLeg(me).tx = me.tx
        /\ AfterLeg(me).leg = me.leg + 1
    BY <1>1, <2>1 DEF WorkerState, Step
  <2>3. Fits(AfterLeg(me), n)
    BY <1>1, <1>2, <1>3, <2>2 DEF Fits
  <2>4. ASSUME NEW r \in Rows, me.tx = r.tx, r.leg > me.leg
        PROVE  Ahead(AfterLeg(me), r)
    BY <1>1, <2>2, <2>4, RowShape DEF Ahead
  <2> QED
    BY <2>2, <2>3, <2>4, IdleIs
<1>4. CASE ~(me.leg < Len(Block[me.tx].legs))
  <2>1. AfterLeg(me) = Idle
    BY <1>4 DEF AfterLeg
  <2>2. \A r \in Rows : me.tx = r.tx => ~(r.leg > me.leg)
    BY <1>1, <1>2, <1>4, RowShape
  <2>3. Fits(Idle, n)
    BY IdleIs DEF Fits
  <2> QED
    BY <2>1, <2>2, <2>3, IdleIs
<1> QED
  BY <1>3, <1>4

\* Another step of the same transfer.
LEMMA ContinueFits ==
    ASSUME NEW me \in WorkerState, NEW n \in Nat, me.step \notin {"idle", "gone", "info"}, Fits(me, n),
           NEW s \in Step \ {"idle", "gone", "info"}
    PROVE  LET new == [me EXCEPT !.step = s] IN
           /\ new \in WorkerState /\ new # Gone /\ Fits(new, n)
           /\ new.step = s /\ new.tx = me.tx /\ new.leg = me.leg /\ new.hit = me.hit
           /\ \A side : HeldRow(new, side) = HeldRow(me, side)
<1> DEFINE new == [me EXCEPT !.step = s]
<1>1. /\ new \in WorkerState
      /\ new.step = s /\ new.tx = me.tx /\ new.leg = me.leg /\ new.hit = me.hit
  BY DEF WorkerState
<1>2. new # Gone
  BY <1>1, IdleIs
<1> HIDE DEF new
<1>3. Fits(new, n) /\ \A side : HeldRow(new, side) = HeldRow(me, side)
  BY <1>1 DEF Fits, HeldRow
<1> QED
  BY <1>1, <1>2, <1>3 DEF new

-----------------------------------------------------------------------------
(* One worker's step.                                                      *)

LEMMA RecordsTypes ==
    ASSUME RecordsInv
    PROVE  /\ worker \in [Workers -> WorkerState] /\ next \in 1 .. Len(Block) + 1 /\ next \in Nat
           /\ stored \subseteq Rows /\ told \subseteq stored /\ asked \subseteq Rows /\ lost \subseteq Rows
           /\ unread \subseteq TxIndex /\ early \subseteq TxIndex
           /\ scanner \in {"main", "backup"} /\ loaded \in BOOLEAN /\ cancelled \in BOOLEAN
           /\ faults \in 0 .. MaxFaults /\ MaxFaults \in Nat
           /\ stops \in 0 .. MaxStops /\ MaxStops \in Nat
           /\ Len(Block) \in Nat
           /\ Due \subseteq Rows /\ 1 \in Workers
<1>1. Len(Block) \in Nat /\ MaxFaults \in Nat /\ MaxStops \in Nat /\ TxWorkers \in Nat \ {0}
  BY ConstantsOK DEF ConstantsOK, IsList
<1>2. 1 \in Workers
  BY <1>1 DEF Workers
<1>3. next \in 1 .. Len(Block) + 1 /\ next \in Nat
  BY <1>1 DEF RecordsInv, RecordsTypeOK
<1>4. Due \subseteq Rows
  BY DEF Due
<1>5. told \subseteq stored
  BY DEF RecordsInv, ToldIsStored
<1> QED
  BY <1>1, <1>2, <1>3, <1>4, <1>5 DEF RecordsInv, RecordsTypeOK

\* Failures and early looks only excuse more.
LEMMA ExcusesGrow ==
    ASSUME UNCHANGED scanner, lost \subseteq lost', unread \subseteq unread', early \subseteq early',
           NEW r \in Rows
    PROVE  (r \in Excused => r \in Excused') /\ (r \in Unasked => r \in Unasked')
<1>1. r \in Excused => r \in Excused'
  BY DEF Excused
<1> QED
  BY <1>1 DEF Unasked

\* What has to hold of a step of one worker, whatever the others do.
LEMMA WorkerSafe ==
    ASSUME RecordsInv, pc = "scan", UNCHANGED <<scanner, saved, pc, cancelled, loaded, stops>>,
           NEW w \in Workers, NEW new \in WorkerState, worker' = [worker EXCEPT ![w] = new],
           next' \in next .. Len(Block) + 1, Fits(new, next'), TellsStored(new, stored'),
           stored \subseteq stored', stored' \subseteq Rows, told \subseteq told', told' \subseteq stored',
           asked \subseteq asked', asked' \subseteq Rows,
           lost \subseteq lost', lost' \subseteq Rows, unread \subseteq unread', unread' \subseteq TxIndex,
           early \subseteq early', early' \subseteq TxIndex, faults' \in 0 .. MaxFaults,
           new = Gone => cancelled \/ next' > Len(Block),
           \A r \in Due :
               ~cancelled /\ r \notin Excused' /\ (WillRecord(worker[w], r) \/ r.tx \in next .. next' - 1)
                   => WillRecord(new, r) \/ Recorded(r)',
           \A r \in Due :
               ~cancelled /\ r \notin Unasked' /\ (WillAsk(worker[w], r) \/ r.tx \in next .. next' - 1)
                   => WillAsk(new, r) \/ r \in asked'
    PROVE  RecordsInv'
<1>1. /\ worker' \in [Workers -> WorkerState] /\ worker'[w] = new
      /\ \A u \in Workers \ {w} : worker'[u] = worker[u]
  BY RecordsTypes
<1>2. next' \in 1 .. Len(Block) + 1 /\ next' >= next /\ next' \in Nat
  BY RecordsTypes
<1>3. \A u \in Workers : Fits(worker'[u], next') /\ TellsStored(worker'[u], stored')
  <2>1. \A u \in Workers \ {w} : Fits(worker[u], next) /\ TellsStored(worker[u], stored)
    BY DEF RecordsInv
  <2>2. \A u \in Workers \ {w} : Fits(worker[u], next')
    BY <1>2, <2>1, RecordsTypes DEF Fits
  <2>3. \A u \in Workers \ {w} : TellsStored(worker'[u], stored')
    BY <1>1, <2>1 DEF TellsStored, HeldRow
  <2>4. TellsStored(worker'[w], stored')
    BY <1>1 DEF TellsStored
  <2> QED
    BY <1>1, <2>2, <2>3, <2>4
<1>4. RecordsTypeOK'
  <2>1. \A u \in Workers : worker'[u].step \notin {"idle", "gone"} => worker'[u].tx \in 1 .. next' - 1
    BY <1>3 DEF Fits
  <2>2. told' \subseteq Rows
    OBVIOUS
  <2> QED
    BY <1>1, <1>2, <2>1, <2>2 DEF RecordsInv, RecordsTypeOK
<1>5. ToldIsStored'
  BY DEF ToldIsStored
<1>6. ScanControl'
  <2>1. Live' /\ worker'[1] = Gone => next' > Len(Block)
    BY <1>1, <1>2, RecordsTypes DEF RecordsInv, ScanControl, Live
  <2> QED
    BY <2>1 DEF RecordsInv, ScanControl
<1>7. RowsOwed'
  <2> SUFFICES ASSUME ~cancelled, NEW r \in Due
               PROVE  \/ r \in Excused' \/ r.tx >= next' \/ Recorded(r)'
                      \/ \E u \in Workers : WillRecord(worker'[u], r)
    BY DEF RowsOwed, Live
  <2>1. r \in Rows /\ r.tx \in Nat
    BY RecordsTypes, RowShape
  <2>2. \/ r \in Excused \/ r.tx >= next \/ Recorded(r)
        \/ \E u \in Workers : WillRecord(worker[u], r)
    BY DEF RecordsInv, RowsOwed, Live
  <2>3. Recorded(r) => Recorded(r)'
    BY DEF Recorded
  <2>4. r \in Excused => r \in Excused'
    BY <2>1, ExcusesGrow
  <2>5. CASE r.tx >= next
    <3>1. r.tx >= next' \/ r.tx \in next .. next' - 1
      BY <1>2, <2>1, <2>5, RecordsTypes
    <3> QED
      BY <1>1, <3>1
  <2>6. CASE \E u \in Workers : WillRecord(worker[u], r)
    BY <1>1, <2>6
  <2> QED
    BY <2>2, <2>3, <2>4, <2>5, <2>6
<1>8. RefreshesOwed'
  <2> SUFFICES ASSUME ~cancelled, NEW r \in Due
               PROVE  \/ r \in Unasked' \/ r.tx >= next' \/ r \in asked'
                      \/ \E u \in Workers : WillAsk(worker'[u], r)
    BY DEF RefreshesOwed, Live
  <2>1. r \in Rows /\ r.tx \in Nat
    BY RecordsTypes, RowShape
  <2>2. \/ r \in Unasked \/ r.tx >= next \/ r \in asked
        \/ \E u \in Workers : WillAsk(worker[u], r)
    BY DEF RecordsInv, RefreshesOwed, Live
  <2>3. r \in Unasked => r \in Unasked'
    BY <2>1, ExcusesGrow
  <2>4. CASE r.tx >= next
    <3>1. r.tx >= next' \/ r.tx \in next .. next' - 1
      BY <1>2, <2>1, <2>4, RecordsTypes
    <3> QED
      BY <1>1, <3>1
  <2>5. CASE \E u \in Workers : WillAsk(worker[u], r)
    BY <1>1, <2>5
  <2> QED
    BY <2>2, <2>3, <2>4, <2>5
<1>9. SavedMeansRecorded'
  BY DEF RecordsInv, ScanControl, SavedMeansRecorded
<1> QED
  BY <1>3, <1>4, <1>5, <1>6, <1>7, <1>8, <1>9 DEF RecordsInv

-----------------------------------------------------------------------------
(* Each of its steps.                                                      *)

\* A worker at a transfer, as the lemmas need it.
LEMMA Holding ==
    ASSUME RecordsInv, NEW w \in Workers, worker[w].step \notin {"idle", "gone"}
    PROVE  /\ worker[w] \in WorkerState /\ worker[w] # Gone
           /\ Fits(worker[w], next) /\ TellsStored(worker[w], stored)
           /\ worker[w].tx \in TxIndex /\ worker[w].leg \in Nat /\ worker[w].hit \subseteq Side
           /\ \A side : RowOf(w, side) = HeldRow(worker[w], side)
           /\ worker[w].step # "info" => \A side \in Side : HeldRow(worker[w], side) \in Rows
<1>1. worker[w] \in WorkerState /\ Fits(worker[w], next) /\ TellsStored(worker[w], stored)
  BY RecordsTypes DEF RecordsInv
<1>2. worker[w].tx \in TxIndex /\ worker[w].leg \in Nat /\ worker[w].hit \subseteq Side
  BY <1>1, RecordsTypes, BlockShape DEF Fits, WorkerState
<1>3. \A side : RowOf(w, side) = HeldRow(worker[w], side)
  BY DEF RowOf, HeldRow
<1>4. worker[w].step # "info" => \A side \in Side : HeldRow(worker[w], side) \in Rows
  BY <1>1, <1>2, HeldIsRow DEF Fits
<1> QED
  BY <1>1, <1>2, <1>3, <1>4, IdleIs

\* Once loaded, the cache holds what is watched throughout.
LEMMA CacheHolds == ASSUME loaded, NEW watched \in Cache PROVE Steady \subseteq watched
  BY DEF Cache

\* What a due row is.
LEMMA DueIs ==
    ASSUME NEW r \in Due
    PROVE  r \in Rows /\ Watch(r) \in Steady /\ Inspected(Block[r.tx], Steady)
  BY DEF Due

\* What is looked at before the cache is loaded is excused.
LEMMA ReadsLate ==
    ASSUME NEW tx, Reads(tx)
    PROVE  /\ \A r \in Rows : r.tx = tx /\ (r \notin Excused' \/ r \notin Unasked') => loaded
           /\ early \subseteq early' /\ early' \subseteq early \cup {tx}
<1>1. ~loaded => tx \in early'
  BY DEF Reads
<1>2. \A r \in Rows : tx \in early' /\ r.tx = tx => r \in Excused' /\ r \in Unasked'
  BY DEF Excused, Unasked
<1>3. early \subseteq early' /\ early' \subseteq early \cup {tx}
  BY DEF Reads
<1> QED
  BY <1>1, <1>2, <1>3

LEMMA ReceiveSafe ==
    ASSUME RecordsInv, NEW w \in Workers, Receive(w)
    PROVE  RecordsInv'
<1> DEFINE tx == Block[next]
           Taken(watched) ==
              IF ~Inspected(tx, watched) THEN Idle
              ELSE [step |-> IF tx.kind = "trx" THEN "look" ELSE "info",
                    tx |-> next, leg |-> IF tx.kind = "trx" THEN 1 ELSE 0, hit |-> {}]
<1>1. /\ pc = "scan" /\ worker[w].step = "idle" /\ next <= Len(Block)
      /\ next' = next + 1 /\ Reads(next)
      /\ UNCHANGED <<scanner, stored, told, saved, pc, cancelled, loaded, asked, lost, unread, faults, stops>>
  BY DEF Receive, Scanning, tableVars, budgetVars
<1>2. PICK watched \in Cache : worker' = [worker EXCEPT ![w] = Taken(watched)]
  BY DEF Receive
<1> DEFINE new == Taken(watched)
<1>3. /\ next \in TxIndex /\ next \in Nat /\ next' \in next .. Len(Block) + 1
      /\ next \in 1 .. next' - 1 /\ next .. next' - 1 = {next}
  BY <1>1, RecordsTypes, BlockShape
<1>4. ASSUME Inspected(tx, watched)
      PROVE  /\ new \in WorkerState /\ Fits(new, next') /\ TellsStored(new, stored') /\ new # Gone
             /\ \A r \in Rows : r.tx = next => Ahead(new, r)
  <2>1. /\ new.step = (IF tx.kind = "trx" THEN "look" ELSE "info")
        /\ new.tx = next /\ new.leg = (IF tx.kind = "trx" THEN 1 ELSE 0)
        /\ new \in WorkerState
    BY <1>3, <1>4 DEF WorkerState, Step
  <2> HIDE DEF new
  <2>2. Fits(new, next')
    <3>1. tx.kind = "trx" => 1 \in DOMAIN Block[next].legs
      BY <1>3, BlockShape
    <3> QED
      BY <1>3, <2>1, <3>1 DEF Fits
  <2>3. TellsStored(new, stored') /\ new # Gone
    BY <2>1, IdleIs DEF TellsStored
  <2>4. \A r \in Rows : r.tx = next => Ahead(new, r)
    BY <1>3, <2>1, RowShape, BlockShape DEF Ahead
  <2> QED
    BY <2>1, <2>2, <2>3, <2>4
<1>5. ASSUME ~Inspected(tx, watched)
      PROVE  new \in WorkerState /\ Fits(new, next') /\ TellsStored(new, stored') /\ new # Gone
  <2>1. new = Idle
    BY <1>5
  <2> HIDE DEF new
  <2>2. Fits(new, next') /\ TellsStored(new, stored') /\ new # Gone /\ new \in WorkerState
    BY <2>1, IdleIs DEF Fits, TellsStored
  <2> QED
    BY <2>1, <2>2
<1>6. new \in WorkerState /\ Fits(new, next') /\ TellsStored(new, stored') /\ new # Gone
  BY <1>4, <1>5
<1>7. /\ early \subseteq early' /\ early' \subseteq TxIndex
      /\ \A r \in Rows : r.tx = next /\ (r \notin Excused' \/ r \notin Unasked') => loaded
  BY <1>1, <1>3, RecordsTypes, ReadsLate
<1>8. ASSUME NEW r \in Due, r \notin Excused' \/ r \notin Unasked',
             \/ WillRecord(worker[w], r) \/ WillAsk(worker[w], r)
             \/ r.tx \in next .. next' - 1
      PROVE  Ahead(new, r)
  <2>1. r.tx = next /\ r \in Rows /\ Inspected(Block[r.tx], Steady)
    BY <1>1, <1>3, <1>8, NothingOwed, DueIs
  <2>2. Steady \subseteq watched
    BY <1>7, <1>8, <2>1, CacheHolds
  <2>3. Inspected(tx, watched)
    BY <2>1, <2>2 DEF Inspected
  <2> QED
    BY <1>4, <2>1, <2>3
<1> HIDE DEF new
<1>9. \A r \in Due : Ahead(new, r) => WillRecord(new, r) /\ WillAsk(new, r)
  BY DEF WillRecord, WillAsk
<1>10. /\ stored' \subseteq Rows /\ told' \subseteq stored' /\ asked' \subseteq Rows /\ lost' \subseteq Rows
       /\ unread' \subseteq TxIndex /\ faults' \in 0 .. MaxFaults
  BY <1>1, RecordsTypes
<1>11. worker' = [worker EXCEPT ![w] = new]
  BY <1>2 DEF new
<1> QED
  BY <1>1, <1>3, <1>6, <1>7, <1>8, <1>9, <1>10, <1>11, WorkerSafe

LEMMA LoadReceiptSafe ==
    ASSUME RecordsInv, NEW w \in Workers, LoadReceipt(w)
    PROVE  RecordsInv'
<1> DEFINE me == worker[w]
<1>1. /\ pc = "scan" /\ me.step = "info"
      /\ UNCHANGED <<scanner, stored, told, saved, pc, next, cancelled, loaded, asked, lost, early, stops>>
  BY DEF LoadReceipt, Scanning, tableVars
<1>2. /\ me \in WorkerState /\ me # Gone /\ Fits(me, next) /\ me.tx \in TxIndex /\ me.leg \in Nat
      /\ me.step \notin {"idle", "gone"}
  BY <1>1, Holding
<1>3. /\ stored' \subseteq Rows /\ told' \subseteq stored' /\ asked' \subseteq Rows /\ lost' \subseteq Rows
      /\ early' \subseteq TxIndex /\ next' \in next .. Len(Block) + 1 /\ next .. next' - 1 = {}
  BY <1>1, RecordsTypes
<1>4. \A r \in Rows : WillRecord(me, r) \/ WillAsk(me, r) => me.tx = r.tx /\ r.leg > me.leg
  BY <1>1 DEF WillRecord, WillAsk, Ahead, InHand, RecordSteps, AskSteps
<1>5. CASE ~cancelled /\ NextLeg(w) /\ UNCHANGED <<unread, faults>>
  <2> DEFINE new == AfterLeg(me)
  <2>1. worker' = [worker EXCEPT ![w] = new]
    BY <1>5, RecordsTypes, NextLegIs
  <2>2. /\ new \in WorkerState /\ new # Gone /\ Fits(new, next') /\ new.step \in {"look", "idle"}
        /\ \A r \in Rows : me.tx = r.tx /\ r.leg > me.leg => Ahead(new, r)
    BY <1>1, <1>2, RecordsTypes, AfterLegFits
  <2> HIDE DEF new
  <2>3. TellsStored(new, stored')
    BY <2>2 DEF TellsStored
  <2>4. \A r \in Due : WillRecord(me, r) \/ WillAsk(me, r) => WillRecord(new, r) /\ WillAsk(new, r)
    BY <1>4, <2>2, DueIs DEF WillRecord, WillAsk
  <2>5. unread' \subseteq TxIndex /\ faults' \in 0 .. MaxFaults
    BY <1>5, RecordsTypes
  <2> QED
    BY <1>1, <1>3, <1>5, <2>1, <2>2, <2>3, <2>4, <2>5, WorkerSafe
<1>6. CASE /\ worker' = [worker EXCEPT ![w] = Idle]
           /\ \/ cancelled /\ UNCHANGED <<unread, faults>>
              \/ ~cancelled /\ Fault /\ unread' = unread \cup {me.tx}
  <2>1. Fits(Idle, next') /\ TellsStored(Idle, stored') /\ Idle # Gone /\ Idle \in WorkerState
    BY IdleIs DEF Fits, TellsStored
  <2>2. unread' \subseteq TxIndex /\ unread \subseteq unread'
    BY <1>2, <1>6, RecordsTypes
  <2>3. faults' \in 0 .. MaxFaults
    BY <1>6, RecordsTypes DEF Fault
  <2>4. \A r \in Rows : ~cancelled /\ r.tx = me.tx => r \in Excused' /\ r \in Unasked'
    BY <1>6 DEF Excused, Unasked
  <2>5. \A r \in Due : ~cancelled /\ (WillRecord(me, r) \/ WillAsk(me, r)) => r \in Excused' /\ r \in Unasked'
    BY <1>4, <2>4, DueIs
  <2> QED
    BY <1>1, <1>3, <1>6, <2>1, <2>2, <2>3, <2>5, WorkerSafe
<1> QED
  BY <1>5, <1>6 DEF LoadReceipt

LEMMA WorkerEndsSafe ==
    ASSUME RecordsInv, NEW w \in Workers, WorkerEnds(w)
    PROVE  RecordsInv'
<1>1. /\ pc = "scan" /\ worker[w].step = "idle" /\ (next > Len(Block) \/ cancelled)
      /\ worker' = [worker EXCEPT ![w] = Gone]
      /\ UNCHANGED <<scanner, stored, told, saved, pc, next, cancelled, loaded, asked, lost, unread, early,
                     faults, stops>>
  BY DEF WorkerEnds, Scanning, Drained, tableVars, failVars, budgetVars
<1>2. /\ stored' \subseteq Rows /\ told' \subseteq stored' /\ asked' \subseteq Rows /\ lost' \subseteq Rows
      /\ unread' \subseteq TxIndex /\ early' \subseteq TxIndex /\ faults' \in 0 .. MaxFaults
      /\ next' \in next .. Len(Block) + 1 /\ next .. next' - 1 = {}
  BY <1>1, RecordsTypes
<1>3. Fits(Gone, next') /\ TellsStored(Gone, stored') /\ Gone \in WorkerState
  BY IdleIs DEF Fits, TellsStored
<1>4. \A r \in Due : ~WillRecord(worker[w], r) /\ ~WillAsk(worker[w], r)
  BY <1>1, NothingOwed
<1> QED
  BY <1>1, <1>2, <1>3, <1>4, WorkerSafe

LEMMA LookSafe ==
    ASSUME RecordsInv, NEW w \in Workers, Look(w)
    PROVE  RecordsInv'
<1> DEFINE me == worker[w]
<1>1. /\ pc = "scan" /\ me.step = "look" /\ Reads(me.tx)
      /\ UNCHANGED <<scanner, stored, told, saved, pc, next, cancelled, loaded, asked, lost, unread, faults, stops>>
  BY DEF Look, Scanning, tableVars, budgetVars
<1>2. /\ me \in WorkerState /\ me # Gone /\ Fits(me, next) /\ me.tx \in TxIndex /\ me.leg \in Nat
      /\ me.step \notin {"idle", "gone", "info"}
      /\ \A side : RowOf(w, side) = HeldRow(me, side)
  BY <1>1, Holding
<1>3. /\ stored' \subseteq Rows /\ told' \subseteq stored' /\ asked' \subseteq Rows /\ lost' \subseteq Rows
      /\ unread' \subseteq TxIndex /\ faults' \in 0 .. MaxFaults
      /\ next' \in next .. Len(Block) + 1 /\ next .. next' - 1 = {}
  BY <1>1, RecordsTypes
<1>4. /\ early \subseteq early' /\ early' \subseteq TxIndex
      /\ \A r \in Rows : r.tx = me.tx /\ (r \notin Excused' \/ r \notin Unasked') => loaded
  BY <1>1, <1>2, RecordsTypes, ReadsLate
<1>5. \A r \in Rows : WillRecord(me, r) \/ WillAsk(me, r) => me.tx = r.tx /\ r.leg >= me.leg
  BY <1>1, <1>2, RowShape DEF WillRecord, WillAsk, Ahead, InHand, RecordSteps, AskSteps
<1>6. PICK watched \in Cache :
        LET hit == {side \in Side : Watch(RowOf(w, side)) \in watched} IN
        IF hit = {} THEN NextLeg(w)
        ELSE worker' = [worker EXCEPT ![w].hit = hit,
                                      ![w].step = IF "OUT" \in hit THEN "out" ELSE "in"]
  BY DEF Look
<1> DEFINE hit == {side \in Side : Watch(RowOf(w, side)) \in watched}
\* A due row of this transfer is seen.
<1>7. ASSUME NEW r \in Due, r \notin Excused' \/ r \notin Unasked', r.tx = me.tx, r.leg = me.leg
      PROVE  r.side \in hit
  <2>1. r \in Rows /\ r.side \in Side /\ Watch(r) \in Steady
    BY DueIs, RowShape
  <2>2. r = RowOf(w, r.side)
    BY <1>2, <1>7, <2>1, HeldIs
  <2>3. Watch(r) \in watched
    BY <1>4, <1>7, <2>1, CacheHolds
  <2> QED
    BY <2>1, <2>2, <2>3
<1>8. CASE hit = {}
  <2> DEFINE new == AfterLeg(me)
  <2>1. worker' = [worker EXCEPT ![w] = new]
    BY <1>6, <1>8, RecordsTypes, NextLegIs
  <2>2. /\ new \in WorkerState /\ new # Gone /\ Fits(new, next') /\ new.step \in {"look", "idle"}
        /\ \A r \in Rows : me.tx = r.tx /\ r.leg > me.leg => Ahead(new, r)
    BY <1>1, <1>2, RecordsTypes, AfterLegFits
  <2> HIDE DEF new
  <2>3. TellsStored(new, stored')
    BY <2>2 DEF TellsStored
  <2>4. ASSUME NEW r \in Due, r \notin Excused' \/ r \notin Unasked', WillRecord(me, r) \/ WillAsk(me, r)
        PROVE  WillRecord(new, r) /\ WillAsk(new, r)
    <3>1. r \in Rows /\ me.tx = r.tx /\ r.leg >= me.leg /\ r.leg \in Nat
      BY <1>5, <2>4, DueIs, RowShape
    <3>2. r.leg # me.leg
      BY <1>7, <1>8, <2>4, <3>1
    <3> QED
      BY <1>2, <2>2, <3>1, <3>2 DEF WillRecord, WillAsk
  <2> QED
    BY <1>1, <1>3, <1>4, <2>1, <2>2, <2>3, <2>4, WorkerSafe
<1>9. CASE hit # {}
  <2> DEFINE new == [me EXCEPT !.hit = hit, !.step = IF "OUT" \in hit THEN "out" ELSE "in"]
  <2>1. worker' = [worker EXCEPT ![w] = new]
    BY <1>6, <1>9, RecordsTypes
  <2>2. /\ new \in WorkerState /\ new.tx = me.tx /\ new.leg = me.leg /\ new.hit = hit
        /\ new.step = (IF "OUT" \in hit THEN "out" ELSE "in")
    BY <1>2 DEF WorkerState, Step
  <2> HIDE DEF new
  <2>3. Fits(new, next') /\ TellsStored(new, stored') /\ new # Gone
    BY <1>1, <1>2, <2>2, IdleIs DEF Fits, TellsStored
  <2>4. ASSUME NEW r \in Due, r \notin Excused' \/ r \notin Unasked', WillRecord(me, r) \/ WillAsk(me, r)
        PROVE  WillRecord(new, r) /\ WillAsk(new, r)
    <3>1. r \in Rows /\ me.tx = r.tx /\ r.leg >= me.leg /\ r.leg \in Nat /\ r.side \in {"OUT", "IN"}
      BY <1>5, <2>4, DueIs, RowShape DEF Side
    <3>2. CASE r.leg > me.leg
      BY <2>2, <3>1, <3>2 DEF WillRecord, WillAsk, Ahead
    <3>3. CASE r.leg = me.leg
      <4>1. r.side \in hit
        BY <1>7, <2>4, <3>1, <3>3
      <4>2. new.step \in RecordSteps(r.side) /\ new.step \in AskSteps
        BY <2>2, <3>1, <4>1 DEF RecordSteps, AskSteps
      <4> QED
        BY <2>2, <3>1, <3>3, <4>1, <4>2 DEF WillRecord, WillAsk, InHand
    <3> QED
      BY <1>2, <3>1, <3>2, <3>3
  <2> QED
    BY <1>1, <1>3, <1>4, <2>1, <2>2, <2>3, <2>4, WorkerSafe
<1> QED
  BY <1>8, <1>9

\* What a worker that goes on with its transfer, or leaves it, still owes.
LEMMA GoesOn ==
    ASSUME RecordsInv, NEW w \in Workers, worker[w].step \in AskSteps,
           NEW s \in AskSteps, Continue(w, s)
    PROVE  LET me == worker[w]
               new == [me EXCEPT !.step = s] IN
           /\ worker' = [worker EXCEPT ![w] = new]
           /\ new \in WorkerState /\ new # Gone /\ new.step = s /\ Fits(new, next)
           /\ \A side : HeldRow(new, side) = HeldRow(me, side)
           /\ \A r \in Rows : WillAsk(me, r) => WillAsk(new, r)
           /\ \A r \in Rows : WillRecord(me, r) =>
                 WillRecord(new, r) \/ (r = HeldRow(me, r.side) /\ r.side \in me.hit
                                        /\ me.step \in RecordSteps(r.side) /\ s \notin RecordSteps(r.side))
<1> DEFINE me == worker[w]
           new == [me EXCEPT !.step = s]
<1>1. /\ me \in WorkerState /\ Fits(me, next) /\ next \in Nat
      /\ me.step \notin {"idle", "gone", "info", "look"} /\ s \in Step \ {"idle", "gone", "info", "look"}
  BY Holding, RecordsTypes DEF AskSteps, Step
<1>2. worker' = [worker EXCEPT ![w] = new]
  BY RecordsTypes DEF Continue
<1>3. /\ new \in WorkerState /\ new # Gone /\ Fits(new, next)
      /\ new.step = s /\ new.tx = me.tx /\ new.leg = me.leg /\ new.hit = me.hit
      /\ \A side : HeldRow(new, side) = HeldRow(me, side)
  BY <1>1, ContinueFits
<1> HIDE DEF new, me
<1>4. \A r \in Rows : Ahead(me, r) => Ahead(new, r)
  BY <1>1, <1>3 DEF Ahead
<1>5. \A r \in Rows : WillAsk(me, r) => WillAsk(new, r)
  BY <1>3, <1>4 DEF WillAsk, InHand
<1>6. \A r \in Rows : WillRecord(me, r) =>
         WillRecord(new, r) \/ (r = HeldRow(me, r.side) /\ r.side \in me.hit
                                /\ me.step \in RecordSteps(r.side) /\ s \notin RecordSteps(r.side))
  BY <1>1, <1>3, <1>4, HeldIs DEF WillRecord, InHand
<1> QED
  BY <1>2, <1>3, <1>5, <1>6 DEF me, new

LEMMA Leaves ==
    ASSUME RecordsInv, NEW w \in Workers, worker[w].step \in AskSteps, NextLeg(w)
    PROVE  LET me == worker[w]
               new == AfterLeg(me) IN
           /\ worker' = [worker EXCEPT ![w] = new]
           /\ new \in WorkerState /\ new # Gone /\ Fits(new, next) /\ TellsStored(new, stored')
           /\ \A r \in Rows : WillAsk(me, r) =>
                 WillAsk(new, r) \/ (r = HeldRow(me, r.side) /\ r.side \in me.hit)
           /\ \A r \in Rows : WillRecord(me, r) =>
                 WillRecord(new, r) \/ (r = HeldRow(me, r.side) /\ r.side \in me.hit
                                        /\ me.step \in RecordSteps(r.side))
<1> DEFINE me == worker[w]
           new == AfterLeg(me)
<1>1. /\ me \in WorkerState /\ Fits(me, next) /\ next \in Nat /\ next <= Len(Block) + 1
      /\ me.step \notin {"idle", "gone", "info", "look"}
  BY Holding, RecordsTypes DEF AskSteps
<1>2. worker' = [worker EXCEPT ![w] = new]
  BY RecordsTypes, NextLegIs
<1>3. /\ new \in WorkerState /\ new # Gone /\ Fits(new, next) /\ new.step \in {"look", "idle"}
      /\ \A r \in Rows : me.tx = r.tx /\ r.leg > me.leg => Ahead(new, r)
  BY <1>1, AfterLegFits
<1> HIDE DEF new, me
<1>4. TellsStored(new, stored')
  BY <1>3 DEF TellsStored
<1>5. \A r \in Rows : Ahead(me, r) => Ahead(new, r)
  BY <1>1, <1>3 DEF Ahead
<1>6. \A r \in Rows : WillAsk(me, r) =>
         WillAsk(new, r) \/ (r = HeldRow(me, r.side) /\ r.side \in me.hit)
  BY <1>1, <1>5, HeldIs DEF WillAsk, InHand
<1>7. \A r \in Rows : WillRecord(me, r) =>
         WillRecord(new, r) \/ (r = HeldRow(me, r.side) /\ r.side \in me.hit
                                /\ me.step \in RecordSteps(r.side))
  BY <1>1, <1>5, HeldIs DEF WillRecord, InHand
<1> QED
  BY <1>2, <1>3, <1>4, <1>6, <1>7 DEF me, new

\* An insert that stores its row.
LEMMA InsertedSafe ==
    ASSUME RecordsInv, NEW w \in Workers, pc = "scan",
           NEW side \in Side, worker[w].step = (IF side = "OUT" THEN "out" ELSE "in"),
           Inserted(RowOf(w, side)),
           Continue(w, IF scanner = "main" THEN (IF side = "OUT" THEN "tellOut" ELSE "tellIn")
                       ELSE IF side = "OUT" THEN AfterOut(w) ELSE "ask"),
           UNCHANGED <<scanner, told, saved, pc, next, cancelled, loaded, asked, unread, early, stops>>
    PROVE  RecordsInv'
<1> DEFINE me == worker[w]
           s == IF scanner = "main" THEN (IF side = "OUT" THEN "tellOut" ELSE "tellIn")
                ELSE IF side = "OUT" THEN AfterOut(w) ELSE "ask"
           new == [me EXCEPT !.step = s]
<1>1. /\ me.step \in AskSteps /\ s \in AskSteps /\ me.step \notin {"idle", "gone", "info"}
      /\ AfterOut(w) = (IF "IN" \in me.hit THEN "in" ELSE "ask")
  BY DEF AskSteps, AfterOut
<1>2. HeldRow(me, side) \in Rows /\ RowOf(w, side) = HeldRow(me, side)
  BY <1>1, Holding
<1>3. /\ worker' = [worker EXCEPT ![w] = new]
      /\ new \in WorkerState /\ new # Gone /\ new.step = s /\ Fits(new, next)
      /\ \A e : HeldRow(new, e) = HeldRow(me, e)
      /\ \A r \in Rows : WillAsk(me, r) => WillAsk(new, r)
      /\ \A r \in Rows : WillRecord(me, r) =>
            WillRecord(new, r) \/ (r = HeldRow(me, r.side) /\ r.side \in me.hit
                                   /\ me.step \in RecordSteps(r.side) /\ s \notin RecordSteps(r.side))
  BY <1>1, GoesOn
<1> HIDE DEF new
<1>4. stored' = stored \cup {HeldRow(me, side)} /\ UNCHANGED <<lost, faults>>
  BY <1>2 DEF Inserted
<1>5. /\ stored' \subseteq Rows /\ told' \subseteq stored' /\ asked' \subseteq Rows /\ lost' \subseteq Rows
      /\ unread' \subseteq TxIndex /\ early' \subseteq TxIndex /\ faults' \in 0 .. MaxFaults
      /\ next' \in next .. Len(Block) + 1 /\ next .. next' - 1 = {}
  BY <1>2, <1>4, RecordsTypes
<1>6. TellsStored(new, stored')
  BY <1>1, <1>3, <1>4 DEF TellsStored, Side
<1>7. ASSUME NEW r \in Due, WillRecord(me, r)
      PROVE  WillRecord(new, r) \/ Recorded(r)'
  <2>1. r \in Rows /\ r.side \in {"OUT", "IN"} /\ side \in {"OUT", "IN"}
    BY DueIs, RowShape DEF Side
  <2>2. SUFFICES ASSUME ~WillRecord(new, r) PROVE Recorded(r)'
    OBVIOUS
  <2>3. /\ r = HeldRow(me, r.side) /\ r.side \in me.hit
        /\ me.step \in RecordSteps(r.side) /\ s \notin RecordSteps(r.side)
    BY <1>3, <1>7, <2>1, <2>2
  <2>4. r.side = side /\ scanner # "main"
    BY <1>1, <2>1, <2>3 DEF RecordSteps
  <2>5. r \in stored'
    BY <1>4, <2>3, <2>4
  <2> QED
    BY <2>4, <2>5 DEF Recorded
<1>8. \A r \in Due : WillAsk(me, r) => WillAsk(new, r)
  BY <1>3, DueIs
<1> QED
  BY <1>3, <1>4, <1>5, <1>6, <1>7, <1>8, WorkerSafe

\* An insert that fails: the main scanner gives the transfer up, a backup goes on.
LEMMA InsertFailsSafe ==
    ASSUME RecordsInv, NEW w \in Workers, pc = "scan",
           NEW side \in Side, worker[w].step = (IF side = "OUT" THEN "out" ELSE "in"),
           InsertFails(RowOf(w, side)),
           AfterFailure(w, IF side = "OUT" THEN AfterOut(w) ELSE "ask"),
           UNCHANGED <<scanner, told, saved, pc, next, cancelled, loaded, asked, unread, early, stops>>
    PROVE  RecordsInv'
<1> DEFINE me == worker[w]
           s == IF side = "OUT" THEN AfterOut(w) ELSE "ask"
<1>1. /\ me.step \in AskSteps /\ s \in AskSteps /\ me.step \notin {"idle", "gone", "info"}
      /\ s = (IF side = "OUT" /\ "IN" \in me.hit THEN "in" ELSE "ask")
  BY DEF AskSteps, AfterOut
<1>2. HeldRow(me, side) \in Rows /\ RowOf(w, side) = HeldRow(me, side)
  BY <1>1, Holding
<1>3. stored \subseteq stored' /\ stored' \subseteq stored \cup {HeldRow(me, side)}
  BY <1>2 DEF InsertFails
<1>4. /\ lost \subseteq lost' /\ lost' \subseteq Rows
      /\ ~cancelled => HeldRow(me, side) \in lost'
  BY <1>2, RecordsTypes DEF InsertFails
<1>5. faults' \in 0 .. MaxFaults
  BY RecordsTypes DEF InsertFails, Fault
<1>6. /\ stored' \subseteq Rows /\ told' \subseteq stored' /\ asked' \subseteq Rows
      /\ unread' \subseteq TxIndex /\ early' \subseteq TxIndex
      /\ next' \in next .. Len(Block) + 1 /\ next .. next' - 1 = {}
  BY <1>2, <1>3, RecordsTypes
<1>7. CASE scanner = "main"
  <2> DEFINE new == AfterLeg(me)
  <2>1. NextLeg(w)
    BY <1>7 DEF AfterFailure
  <2>2. /\ worker' = [worker EXCEPT ![w] = new]
        /\ new \in WorkerState /\ new # Gone /\ Fits(new, next) /\ TellsStored(new, stored')
        /\ \A r \in Rows : WillAsk(me, r) =>
              WillAsk(new, r) \/ (r = HeldRow(me, r.side) /\ r.side \in me.hit)
        /\ \A r \in Rows : WillRecord(me, r) =>
              WillRecord(new, r) \/ (r = HeldRow(me, r.side) /\ r.side \in me.hit
                                     /\ me.step \in RecordSteps(r.side))
    BY <1>1, <2>1, Leaves
  <2> HIDE DEF new
  <2>3. ASSUME NEW r \in Due, ~cancelled, r = HeldRow(me, r.side)
        PROVE  r \in Excused' /\ r \in Unasked'
    <3>1. r \in Rows /\ [r EXCEPT !.side = side] = HeldRow(me, side)
      BY <2>3, DueIs DEF HeldRow
    <3>2. r \in Excused'
      BY <1>4, <1>7, <2>3, <3>1 DEF Excused
    <3> QED
      BY <1>7, <3>1, <3>2 DEF Unasked
  <2>4. \A r \in Due : ~cancelled /\ r \notin Excused' /\ WillRecord(me, r) => WillRecord(new, r)
    BY <2>2, <2>3, DueIs
  <2>5. \A r \in Due : ~cancelled /\ r \notin Unasked' /\ WillAsk(me, r) => WillAsk(new, r)
    BY <2>2, <2>3, DueIs
  <2> QED
    BY <1>3, <1>4, <1>5, <1>6, <2>2, <2>4, <2>5, WorkerSafe
<1>8. CASE scanner # "main"
  <2> DEFINE new == [me EXCEPT !.step = s]
  <2>1. Continue(w, s)
    BY <1>8 DEF AfterFailure
  <2>2. /\ worker' = [worker EXCEPT ![w] = new]
        /\ new \in WorkerState /\ new # Gone /\ new.step = s /\ Fits(new, next)
        /\ \A r \in Rows : WillAsk(me, r) => WillAsk(new, r)
        /\ \A r \in Rows : WillRecord(me, r) =>
              WillRecord(new, r) \/ (r = HeldRow(me, r.side) /\ r.side \in me.hit
                                     /\ me.step \in RecordSteps(r.side) /\ s \notin RecordSteps(r.side))
    BY <1>1, <2>1, GoesOn
  <2> HIDE DEF new
  <2>3. TellsStored(new, stored')
    BY <1>1, <2>2 DEF TellsStored
  <2>4. ASSUME NEW r \in Due, ~cancelled, r \notin Excused', WillRecord(me, r)
        PROVE  WillRecord(new, r)
    <3>1. r \in Rows /\ r.side \in {"OUT", "IN"} /\ side \in {"OUT", "IN"}
      BY DueIs, RowShape DEF Side
    <3>2. SUFFICES ASSUME ~WillRecord(new, r) PROVE FALSE
      OBVIOUS
    <3>3. /\ r = HeldRow(me, r.side) /\ r.side \in me.hit
          /\ me.step \in RecordSteps(r.side) /\ s \notin RecordSteps(r.side)
      BY <2>2, <2>4, <3>1, <3>2
    <3>4. r.side = side
      BY <1>1, <3>1, <3>3 DEF RecordSteps
    <3>5. r \in lost'
      BY <1>4, <2>4, <3>3, <3>4
    <3> QED
      BY <2>4, <3>1, <3>5 DEF Excused
  <2>5. \A r \in Due : WillAsk(me, r) => WillAsk(new, r)
    BY <2>2, DueIs
  <2> QED
    BY <1>3, <1>4, <1>5, <1>6, <2>2, <2>3, <2>4, <2>5, WorkerSafe
<1> QED
  BY <1>7, <1>8

LEMMA InsertSafe ==
    ASSUME RecordsInv, NEW w \in Workers, InsertOut(w) \/ InsertIn(w)
    PROVE  RecordsInv'
<1>1. CASE InsertOut(w)
  <2>1. /\ pc = "scan" /\ worker[w].step = "out"
        /\ UNCHANGED <<scanner, told, saved, pc, next, cancelled, loaded, asked, unread, early, stops>>
    BY <1>1 DEF InsertOut, Scanning
  <2>2. CASE /\ Inserted(RowOf(w, "OUT"))
             /\ Continue(w, IF scanner = "main" THEN "tellOut" ELSE AfterOut(w))
    BY <2>1, <2>2, InsertedSafe DEF Side
  <2>3. CASE InsertFails(RowOf(w, "OUT")) /\ AfterFailure(w, AfterOut(w))
    BY <2>1, <2>3, InsertFailsSafe DEF Side
  <2> QED
    BY <1>1, <2>2, <2>3 DEF InsertOut
<1>2. CASE InsertIn(w)
  <2>1. /\ pc = "scan" /\ worker[w].step = "in"
        /\ UNCHANGED <<scanner, told, saved, pc, next, cancelled, loaded, asked, unread, early, stops>>
    BY <1>2 DEF InsertIn, Scanning
  <2>2. CASE /\ Inserted(RowOf(w, "IN"))
             /\ Continue(w, IF scanner = "main" THEN "tellIn" ELSE "ask")
    BY <2>1, <2>2, InsertedSafe DEF Side
  <2>3. CASE InsertFails(RowOf(w, "IN")) /\ AfterFailure(w, "ask")
    BY <2>1, <2>3, InsertFailsSafe DEF Side
  <2> QED
    BY <1>2, <2>2, <2>3 DEF InsertIn
<1> QED
  BY <1>1, <1>2

LEMMA NotifySafe ==
    ASSUME RecordsInv, NEW w \in Workers, Notify(w)
    PROVE  RecordsInv'
<1> DEFINE me == worker[w]
<1>1. PICK side \in Side :
        /\ pc = "scan" /\ me.step = (IF side = "OUT" THEN "tellOut" ELSE "tellIn")
        /\ told' = told \cup {RowOf(w, side)}
        /\ Continue(w, IF side = "OUT" THEN AfterOut(w) ELSE "ask")
  BY DEF Notify, Scanning, Side
<1>2. /\ UNCHANGED <<scanner, stored, saved, pc, next, cancelled, loaded, asked, lost, unread, early, faults, stops>>
  BY DEF Notify, failVars, budgetVars
<1> DEFINE s == IF side = "OUT" THEN AfterOut(w) ELSE "ask"
           new == [me EXCEPT !.step = s]
<1>3. /\ me.step \in AskSteps /\ s \in AskSteps /\ me.step \notin {"idle", "gone", "info"}
      /\ s = (IF side = "OUT" /\ "IN" \in me.hit THEN "in" ELSE "ask")
  BY <1>1 DEF AskSteps, AfterOut
<1>4. RowOf(w, side) = HeldRow(me, side) /\ TellsStored(me, stored)
  BY <1>3, Holding
<1>5. HeldRow(me, side) \in stored
  BY <1>1, <1>4 DEF TellsStored, Side
<1>6. /\ worker' = [worker EXCEPT ![w] = new]
      /\ new \in WorkerState /\ new # Gone /\ new.step = s /\ Fits(new, next)
      /\ \A r \in Rows : WillAsk(me, r) => WillAsk(new, r)
      /\ \A r \in Rows : WillRecord(me, r) =>
            WillRecord(new, r) \/ (r = HeldRow(me, r.side) /\ r.side \in me.hit
                                   /\ me.step \in RecordSteps(r.side) /\ s \notin RecordSteps(r.side))
  BY <1>1, <1>3, GoesOn
<1> HIDE DEF new
<1>7. /\ stored' \subseteq Rows /\ told \subseteq told' /\ told' \subseteq stored'
      /\ asked' \subseteq Rows /\ lost' \subseteq Rows
      /\ unread' \subseteq TxIndex /\ early' \subseteq TxIndex /\ faults' \in 0 .. MaxFaults
      /\ next' \in next .. Len(Block) + 1 /\ next .. next' - 1 = {}
  BY <1>1, <1>2, <1>4, <1>5, RecordsTypes
<1>8. TellsStored(new, stored')
  BY <1>3, <1>6 DEF TellsStored
<1>9. ASSUME NEW r \in Due, WillRecord(me, r)
      PROVE  WillRecord(new, r) \/ Recorded(r)'
  <2>1. r \in Rows /\ r.side \in {"OUT", "IN"} /\ side \in {"OUT", "IN"}
    BY DueIs, RowShape DEF Side
  <2>2. SUFFICES ASSUME ~WillRecord(new, r) PROVE Recorded(r)'
    OBVIOUS
  <2>3. /\ r = HeldRow(me, r.side) /\ r.side \in me.hit
        /\ me.step \in RecordSteps(r.side) /\ s \notin RecordSteps(r.side)
    BY <1>6, <1>9, <2>1, <2>2
  <2>4. r.side = side
    BY <1>1, <1>3, <2>1, <2>3 DEF RecordSteps
  <2> QED
    BY <1>1, <1>2, <1>4, <1>5, <2>3, <2>4 DEF Recorded
<1>10. \A r \in Due : WillAsk(me, r) => WillAsk(new, r)
  BY <1>6, DueIs
<1> QED
  BY <1>1, <1>2, <1>6, <1>7, <1>8, <1>9, <1>10, WorkerSafe

LEMMA AskRefreshSafe ==
    ASSUME RecordsInv, NEW w \in Workers, AskRefresh(w)
    PROVE  RecordsInv'
<1> DEFINE me == worker[w]
           new == AfterLeg(me)
<1>1. /\ pc = "scan" /\ me.step = "ask" /\ NextLeg(w)
      /\ asked' = asked \cup {RowOf(w, side) : side \in me.hit}
      /\ UNCHANGED <<scanner, stored, told, saved, pc, next, cancelled, loaded, lost, unread, early, faults, stops>>
  BY DEF AskRefresh, Scanning, tableVars, failVars, budgetVars
<1>2. me.step \in AskSteps /\ me.step \notin {"idle", "gone", "info"} /\ \A side : me.step \notin RecordSteps(side)
  BY <1>1 DEF AskSteps, RecordSteps
<1>3. /\ me.hit \subseteq Side
      /\ \A side \in Side : RowOf(w, side) = HeldRow(me, side) /\ HeldRow(me, side) \in Rows
  BY <1>2, Holding
<1>4. /\ worker' = [worker EXCEPT ![w] = new]
      /\ new \in WorkerState /\ new # Gone /\ Fits(new, next) /\ TellsStored(new, stored')
      /\ \A r \in Rows : WillAsk(me, r) =>
            WillAsk(new, r) \/ (r = HeldRow(me, r.side) /\ r.side \in me.hit)
      /\ \A r \in Rows : WillRecord(me, r) =>
            WillRecord(new, r) \/ (r = HeldRow(me, r.side) /\ r.side \in me.hit
                                   /\ me.step \in RecordSteps(r.side))
  BY <1>1, <1>2, Leaves
<1> HIDE DEF new
<1>5. /\ stored' \subseteq Rows /\ told' \subseteq stored' /\ lost' \subseteq Rows
      /\ unread' \subseteq TxIndex /\ early' \subseteq TxIndex /\ faults' \in 0 .. MaxFaults
      /\ next' \in next .. Len(Block) + 1 /\ next .. next' - 1 = {}
  BY <1>1, RecordsTypes
<1>6. asked \subseteq asked' /\ asked' \subseteq Rows
  BY <1>1, <1>3, RecordsTypes
<1>7. \A r \in Due : WillRecord(me, r) => WillRecord(new, r)
  BY <1>2, <1>4, DueIs
<1>8. \A r \in Due : WillAsk(me, r) => WillAsk(new, r) \/ r \in asked'
  BY <1>1, <1>3, <1>4, DueIs
<1> QED
  BY <1>1, <1>4, <1>5, <1>6, <1>7, <1>8, WorkerSafe

-----------------------------------------------------------------------------
(* The steps of the scan and of its process.                               *)

LEMMA RecordsInitSafe == RecordsInit => RecordsInv
<1> SUFFICES ASSUME RecordsInit PROVE RecordsInv
  OBVIOUS
<1>1. /\ stored = {} /\ told = {} /\ scanner \in {"main", "backup"}
      /\ saved = FALSE /\ cancelled = FALSE /\ loaded = FALSE /\ pc = "idle" /\ next = 1
      /\ worker = [w \in Workers |-> Gone]
      /\ asked = {} /\ lost = {} /\ unread = {} /\ early = {} /\ faults = 0 /\ stops = 0
  BY DEF RecordsInit
<1>2. Len(Block) \in Nat /\ MaxFaults \in Nat /\ MaxStops \in Nat
  BY ConstantsOK DEF ConstantsOK, IsList
<1>3. \A w \in Workers : worker[w].step \in {"idle", "gone"}
  BY <1>1, IdleIs
<1>4. next \in 1 .. Len(Block) + 1 /\ faults \in 0 .. MaxFaults /\ stops \in 0 .. MaxStops
  BY <1>1, <1>2
<1>5. worker \in [Workers -> WorkerState]
  BY <1>1, IdleIs
<1>6. RecordsTypeOK
  BY <1>1, <1>3, <1>4, <1>5 DEF RecordsTypeOK
<1>7. \A w \in Workers : Fits(worker[w], next) /\ TellsStored(worker[w], stored)
  BY <1>3, NothingOwed
<1> QED
  BY <1>1, <1>6, <1>7 DEF RecordsInv, ToldIsStored, ScanControl, Live, RowsOwed, RefreshesOwed,
                          SavedMeansRecorded

LEMMA StartScanSafe ==
    ASSUME RecordsInv, StartScan
    PROVE  RecordsInv'
<1>1. /\ pc' = "scan" /\ saved = FALSE /\ next' = 1
      /\ worker' = [w \in Workers |-> IF w <= Len(Block) THEN Idle ELSE Gone]
      /\ lost' = {} /\ unread' = {} /\ early' = {}
      /\ UNCHANGED <<scanner, stored, told, saved, cancelled, loaded, asked, faults, stops>>
  BY DEF StartScan, tableVars, budgetVars, RecordsInv, RecordsTypeOK
<1>2. \A w \in Workers : worker'[w] = Idle \/ worker'[w] = Gone
  BY <1>1
<1>3. \A w \in Workers : worker'[w].step \in {"idle", "gone"}
  BY <1>2, IdleIs
<1>4. worker' \in [Workers -> WorkerState]
  BY <1>1, IdleIs
<1>5. next' \in 1 .. Len(Block) + 1
  BY <1>1, RecordsTypes
<1>6. RecordsTypeOK'
  BY <1>1, <1>3, <1>4, <1>5 DEF RecordsInv, RecordsTypeOK
<1>7. \A w \in Workers : Fits(worker'[w], next') /\ TellsStored(worker'[w], stored')
  BY <1>3, NothingOwed
<1>8. worker'[1] = Gone => next' > Len(Block)
  <2>1. 1 <= Len(Block) => worker'[1] = Idle
    BY <1>1, RecordsTypes
  <2>2. Idle # Gone
    BY IdleIs
  <2> QED
    BY <1>1, <2>1, <2>2, RecordsTypes
<1>9. ScanControl'
  BY <1>1, <1>8 DEF ScanControl
<1>10. \A r \in Due : r.tx >= next'
  BY <1>1, DueIs, RowShape, BlockShape
<1>11. RowsOwed' /\ RefreshesOwed'
  BY <1>10 DEF RowsOwed, RefreshesOwed
<1>12. ToldIsStored' /\ SavedMeansRecorded'
  BY <1>1 DEF RecordsInv, ToldIsStored, SavedMeansRecorded
<1> QED
  BY <1>6, <1>7, <1>9, <1>11, <1>12 DEF RecordsInv

LEMMA JoinSafe ==
    ASSUME RecordsInv, Join
    PROVE  RecordsInv'
<1>1. /\ pc = "scan" /\ pc' = "save" /\ \A w \in Workers : worker[w] = Gone
      /\ UNCHANGED <<scanner, stored, told, saved, next, worker, cancelled, loaded, asked, lost, unread, early,
                     faults, stops>>
  BY DEF Join, tableVars, failVars, budgetVars
<1>2. RecordsTypeOK'
  BY <1>1 DEF RecordsInv, RecordsTypeOK
<1>3. ScanControl'
  BY <1>1 DEF RecordsInv, ScanControl, Live
<1>4. RowsOwed'
  BY <1>1 DEF RecordsInv, RowsOwed, Live, Recorded, Excused
<1>5. RefreshesOwed'
  BY <1>1 DEF RecordsInv, RefreshesOwed, Live, Unasked, Excused
<1>6. SavedMeansRecorded' /\ ToldIsStored'
  BY <1>1 DEF RecordsInv, SavedMeansRecorded, ToldIsStored, Excused
<1> QED
  BY <1>1, <1>2, <1>3, <1>4, <1>5, <1>6 DEF RecordsInv

\* When the cursor may be saved, nothing is owed any more.
LEMMA NothingLeft ==
    ASSUME RecordsInv, pc = "save", ~cancelled, NEW r \in Due
    PROVE  /\ r \in Excused \/ Recorded(r)
           /\ r \in Unasked \/ r \in asked
<1>1. Live /\ \A w \in Workers : worker[w] = Gone
  BY DEF RecordsInv, ScanControl, Live
<1>2. next > Len(Block)
  BY <1>1, RecordsTypes DEF RecordsInv, ScanControl
<1>3. ~(r.tx >= next)
  BY <1>2, RecordsTypes, DueIs, RowShape, BlockShape
<1>4. \A w \in Workers : ~WillRecord(worker[w], r) /\ ~WillAsk(worker[w], r)
  BY <1>1, IdleIs, NothingOwed
<1> QED
  BY <1>1, <1>3, <1>4 DEF RecordsInv, RowsOwed, RefreshesOwed

LEMMA SaveCursorSafe ==
    ASSUME RecordsInv, SaveCursor
    PROVE  RecordsInv'
<1>1. /\ pc = "save" /\ pc' = "idle" /\ saved = FALSE
      /\ UNCHANGED <<scanner, stored, told, next, worker, cancelled, loaded, asked, lost, unread, early, stops>>
      /\ \/ ~cancelled /\ saved' = TRUE
         \/ saved' = saved
  BY DEF SaveCursor, MaySave, tableVars, failVars, RecordsInv, RecordsTypeOK, ScanControl
<1>2. faults' \in 0 .. MaxFaults
  BY RecordsTypes DEF SaveCursor, Fault
<1>3. RecordsTypeOK'
  BY <1>1, <1>2 DEF RecordsInv, RecordsTypeOK
<1>4. ScanControl' /\ RowsOwed' /\ RefreshesOwed' /\ ToldIsStored'
  BY <1>1 DEF RecordsInv, ScanControl, Live, RowsOwed, RefreshesOwed, ToldIsStored
<1>5. SavedMeansRecorded'
  <2>1. CASE ~cancelled /\ saved' = TRUE
    <3>1. \A r \in Due : r \in Excused \/ Recorded(r)
      BY <1>1, <2>1, NothingLeft
    <3>2. Excused' = Excused
      BY <1>1 DEF Excused
    <3> QED
      BY <1>1, <3>1, <3>2 DEF SavedMeansRecorded, Recorded
  <2>2. CASE saved' = saved
    BY <1>1, <2>2 DEF SavedMeansRecorded
  <2> QED
    BY <1>1, <2>1, <2>2
<1> QED
  BY <1>1, <1>3, <1>4, <1>5 DEF RecordsInv

LEMMA ShutdownSafe ==
    ASSUME RecordsInv, Shutdown
    PROVE  RecordsInv'
<1>1. /\ pc # "idle" /\ cancelled' = TRUE /\ saved = FALSE
      /\ UNCHANGED <<scanner, stored, told, saved, pc, next, worker, loaded, asked, lost, unread, early, faults>>
  BY DEF Shutdown, StopAllowed, tableVars, scanVars, failVars, RecordsInv, RecordsTypeOK
<1>2. stops' \in 0 .. MaxStops
  BY RecordsTypes DEF Shutdown, StopAllowed
<1>3. RecordsTypeOK'
  BY <1>1, <1>2 DEF RecordsInv, RecordsTypeOK
<1> QED
  BY <1>1, <1>3 DEF RecordsInv, ScanControl, Live, RowsOwed, RefreshesOwed, ToldIsStored, SavedMeansRecorded

LEMMA BeginSafe ==
    ASSUME RecordsInv, ~saved, Begin, stops' \in 0 .. MaxStops
    PROVE  RecordsInv'
<1>1. /\ pc' = "idle" /\ next' = 1 /\ cancelled' = FALSE /\ loaded' = FALSE /\ asked' = {}
      /\ worker' = [w \in Workers |-> Gone] /\ saved = FALSE
      /\ UNCHANGED <<scanner, stored, told, saved, lost, unread, early, faults>>
  BY DEF Begin, DropWorkers, tableVars, failVars, RecordsInv, RecordsTypeOK
<1>2. worker' \in [Workers -> WorkerState] /\ \A w \in Workers : worker'[w].step = "gone"
  BY <1>1, IdleIs
<1>3. next' \in 1 .. Len(Block) + 1
  BY <1>1, RecordsTypes
<1>4. RecordsTypeOK'
  BY <1>1, <1>2, <1>3 DEF RecordsInv, RecordsTypeOK
<1>5. \A w \in Workers : Fits(worker'[w], next') /\ TellsStored(worker'[w], stored')
  BY <1>2, NothingOwed
<1> QED
  BY <1>1, <1>4, <1>5 DEF RecordsInv, ScanControl, Live, RowsOwed, RefreshesOwed, ToldIsStored, SavedMeansRecorded

\* The cache is loaded, or nothing happens.
LEMMA QuietSafe ==
    ASSUME RecordsInv, loaded' \in BOOLEAN,
           UNCHANGED <<scanner, stored, told, saved, pc, cancelled, next, worker, asked, lost, unread, early,
                       faults, stops>>
    PROVE  RecordsInv'
<1>1. RecordsTypeOK'
  BY DEF RecordsInv, RecordsTypeOK
<1>2. ScanControl' /\ ToldIsStored'
  BY DEF RecordsInv, ScanControl, Live, ToldIsStored
<1>3. RowsOwed'
  BY DEF RecordsInv, RowsOwed, Live, Recorded, Excused
<1>4. RefreshesOwed'
  BY DEF RecordsInv, RefreshesOwed, Live, Unasked, Excused
<1>5. SavedMeansRecorded'
  BY DEF RecordsInv, SavedMeansRecorded, Excused
<1> QED
  BY <1>1, <1>2, <1>3, <1>4, <1>5 DEF RecordsInv

LEMMA RecordsNextSafe == RecordsInv /\ [RecordsNext]_recordsVars => RecordsInv'
<1> SUFFICES ASSUME RecordsInv, [RecordsNext]_recordsVars PROVE RecordsInv'
  OBVIOUS
<1>1. CASE StartScan
  BY <1>1, StartScanSafe
<1>2. CASE Join
  BY <1>2, JoinSafe
<1>3. CASE SaveCursor
  BY <1>3, SaveCursorSafe
<1>4. CASE Restart
  <2>1. Begin /\ ~saved /\ stops' \in 0 .. MaxStops
    BY <1>4, RecordsTypes DEF Restart, RecordsInv, ScanControl
  <2> QED
    BY <2>1, BeginSafe
<1>5. CASE Shutdown
  BY <1>5, ShutdownSafe
<1>6. CASE Crash
  <2>1. Begin /\ ~saved
    BY <1>6 DEF Crash, StopAllowed
  <2>2. stops' \in 0 .. MaxStops
    BY <1>6, RecordsTypes DEF Crash, StopAllowed
  <2> QED
    BY <2>1, <2>2, BeginSafe
<1>7. ASSUME NEW w \in Workers, WorkerStep(w) PROVE RecordsInv'
  BY <1>7, ReceiveSafe, LoadReceiptSafe, LookSafe, InsertSafe, NotifySafe, AskRefreshSafe, WorkerEndsSafe
     DEF WorkerStep
<1>8. CASE LoadCache
  <2>1. /\ loaded' \in BOOLEAN
        /\ UNCHANGED <<scanner, stored, told, saved, pc, cancelled, next, worker, asked, lost, unread, early,
                       faults, stops>>
    BY <1>8 DEF LoadCache, tableVars, scanVars, failVars, budgetVars
  <2> QED
    BY <2>1, QuietSafe
<1>9. CASE UNCHANGED recordsVars
  <2>1. /\ loaded' \in BOOLEAN
        /\ UNCHANGED <<scanner, stored, told, saved, pc, cancelled, next, worker, asked, lost, unread, early,
                       faults, stops>>
    BY <1>9, RecordsTypes DEF recordsVars, tableVars, scanVars, failVars, budgetVars
  <2> QED
    BY <2>1, QuietSafe
<1> QED
  BY <1>1, <1>2, <1>3, <1>4, <1>5, <1>6, <1>7, <1>8, <1>9 DEF RecordsNext, ScanStep, Passed

LEMMA RecordsInvariant == RecordsSpec => []RecordsInv
  BY RecordsInitSafe, RecordsNextSafe, PTL DEF RecordsSpec

\* A scan of a block keeps its state well-formed (TransferRecords).
THEOREM RecordTypesCorrect == RecordsSpec => []RecordsTypeOK
<1>1. RecordsInv => RecordsTypeOK
  BY DEF RecordsInv
<1> QED
  BY <1>1, RecordsInvariant, PTL

\* A cursor passes the block only when every transfer of it is on record, and the
\* main scanner's notified, whatever shutdowns, crashes and failed calls came
\* before: for every block, number of workers and set of watched addresses.
THEOREM CursorMeansRows == RecordsSpec => []SavedMeansRecorded
<1>1. RecordsInv => SavedMeansRecorded
  BY DEF RecordsInv
<1> QED
  BY <1>1, RecordsInvariant, PTL

\* A customer is never notified of a transfer the tables do not hold.
THEOREM NoticeMeansRow == RecordsSpec => []ToldIsStored
<1>1. RecordsInv => ToldIsStored
  BY DEF RecordsInv
<1> QED
  BY <1>1, RecordsInvariant, PTL

\* When the cursor passes the block, the balances of its watched addresses are
\* about to be refreshed.
THEOREM CursorMeansRefreshes == RecordsSpec => SaveCoversBalances
<1>1. RecordsInv /\ [RecordsNext]_recordsVars
          => [saved' /\ ~saved =>
                 \A row \in Due :
                    \/ row \in asked
                    \/ row.tx \in unread \cup early
                    \/ scanner = "main" /\ row \in Excused]_recordsVars
  <2> SUFFICES ASSUME RecordsInv, [RecordsNext]_recordsVars, saved', ~saved, NEW row \in Due
               PROVE  row \in asked \/ row.tx \in unread \cup early \/ (scanner = "main" /\ row \in Excused)
    OBVIOUS
  <2>1. SaveCursor
    BY DEF RecordsNext, ScanStep, StartScan, Join, Restart, Begin, Shutdown, Crash, WorkerStep, Receive,
           LoadReceipt, Look, InsertOut, InsertIn, Notify, AskRefresh, WorkerEnds, LoadCache, Passed, recordsVars
  <2>2. pc = "save" /\ ~cancelled
    BY <2>1 DEF SaveCursor, MaySave
  <2>3. row \in Unasked \/ row \in asked
    BY <2>2, NothingLeft
  <2> QED
    BY <2>3 DEF Unasked
<1> QED
  BY <1>1, RecordsInvariant, PTL DEF RecordsSpec, SaveCoversBalances
=============================================================================
