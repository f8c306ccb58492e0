------------------------------- MODULE Notifiers -------------------------------
(***************************************************************************)
(* Telling of transfers: CallbackNotifier and TelegramNotifier in          *)
(* internal/service, which do the same; MultiTransferNotifier calls one    *)
(* after the other.  A scanner's call leaves a mark in `recent` for ten    *)
(* minutes and puts the message on a queue if it has room; one goroutine   *)
(* sends, and does not try again.  Marks and queue live in memory.         *)
(*                                                                         *)
(* A transfer stands for its key: chain, direction, hash, asset, address   *)
(* and log index.  Transfers of small amounts are not told of and left out.*)
(***************************************************************************)
EXTENDS Naturals, Sequences

CONSTANTS
    Transfers,
    QueueSize,   \* telegram.queue_size, callback.queue_size
    MaxAges,     \* bound on how often a mark runs out
    MaxCalls,    \* bound on calls at once for one transfer
    MaxRestarts  \* bound on restarts of the process

NoTransfer == "none"

ASSUME NotifierConstantsOK ==
    /\ QueueSize \in Nat \ {0} /\ NoTransfer \notin Transfers
    /\ MaxAges \in Nat /\ MaxCalls \in Nat /\ MaxRestarts \in Nat

VARIABLES
    recent,    \* transfers with a mark that has not run out
    check,     \* calls of NotifyTransfer for each transfer, before the look at `recent`
    put,       \* those that have passed it
    queue,     \* the channel
    sending,   \* what the goroutine is sending
    timesTold, \* history: how often each transfer was put on the queue
    aged,      \* history: how often each transfer's mark ran out
    restarts   \* history: how often the process was started again

notifierVars == <<recent, check, put, queue, sending, timesTold, aged, restarts>>

NotifierTypeOK ==
    /\ recent \subseteq Transfers
    /\ check \in [Transfers -> 0 .. MaxCalls] /\ put \in [Transfers -> 0 .. MaxCalls]
    /\ queue \in Seq(Transfers) /\ Len(queue) <= QueueSize
    /\ sending \in Transfers \cup {NoTransfer}
    /\ timesTold \in [Transfers -> Nat] /\ aged \in [Transfers -> 0 .. MaxAges]
    /\ restarts \in 0 .. MaxRestarts

NotifierInit ==
    /\ recent = {}
    /\ check = [t \in Transfers |-> 0] /\ put = [t \in Transfers |-> 0]
    /\ queue = <<>> /\ sending = NoTransfer
    /\ timesTold = [t \in Transfers |-> 0] /\ aged = [t \in Transfers |-> 0]
    /\ restarts = 0

\* A scanner has stored the transfer and tells of it, while other calls are on.
NotifyTransfer(t) ==
    /\ check[t] + put[t] < MaxCalls
    /\ check' = [check EXCEPT ![t] = @ + 1]
    /\ UNCHANGED <<recent, put, queue, sending, timesTold, aged, restarts>>

\* Past the look at `recent`, or done with.
PassLook(t) ==
    /\ check[t] > 0
    /\ check' = [check EXCEPT ![t] = @ - 1]
    /\ put' = IF t \in recent THEN put ELSE [put EXCEPT ![t] = @ + 1]

\* Under the lock: a marked transfer was told of, any other is marked now.
CheckUnmarked(t) == PassLook(t) /\ UNCHANGED <<recent, queue, sending, timesTold, aged, restarts>>
CheckRecent(t) ==
    /\ PassLook(t)
    /\ recent' = recent \cup {t}
    /\ UNCHANGED <<queue, sending, timesTold, aged, restarts>>

\* Dropped when the queue is full; the mark stays.
PutOnQueue(t) ==
    /\ put[t] > 0
    /\ put' = [put EXCEPT ![t] = @ - 1]
    /\ IF Len(queue) < QueueSize
       THEN queue' = Append(queue, t) /\ timesTold' = [timesTold EXCEPT ![t] = @ + 1]
       ELSE UNCHANGED <<queue, timesTold>>
    /\ UNCHANGED <<recent, check, sending, aged, restarts>>

\* Ten minutes are over: the mark is as good as gone, whenever clean removes it.
RunOut(t) ==
    /\ t \in recent /\ aged[t] < MaxAges
    /\ recent' = recent \ {t}
    /\ aged' = [aged EXCEPT ![t] = @ + 1]
    /\ UNCHANGED <<check, put, queue, sending, timesTold, restarts>>

\* Run takes the next message.
TakeMessage ==
    /\ sending = NoTransfer /\ queue # <<>>
    /\ sending' = Head(queue) /\ queue' = Tail(queue)
    /\ UNCHANGED <<recent, check, put, timesTold, aged, restarts>>

\* send: delivered or not, that was it.
SendMessage ==
    /\ sending # NoTransfer
    /\ sending' = NoTransfer
    /\ UNCHANGED <<recent, check, put, queue, timesTold, aged, restarts>>

\* The process ends, whatever it was at, and starts again: marks and messages gone.
NotifierRestart ==
    /\ restarts < MaxRestarts
    /\ restarts' = restarts + 1
    /\ recent' = {}
    /\ check' = [t \in Transfers |-> 0] /\ put' = [t \in Transfers |-> 0]
    /\ queue' = <<>> /\ sending' = NoTransfer
    /\ UNCHANGED <<timesTold, aged>>

CallStep(t) == CheckRecent(t) \/ PutOnQueue(t)
RunStep == TakeMessage \/ SendMessage

-----------------------------------------------------------------------------
(* A transfer told of again has a cause: its mark ran out, or the process  *)
(* was restarted and scanned the block again (scanner.go tells of rows     *)
(* already stored, too).  Scanning again alone, calls at the same time or  *)
(* a full queue are none.                                                  *)
RepeatsHaveACause == \A t \in Transfers : timesTold[t] <= 1 + aged[t] + restarts
=============================================================================
