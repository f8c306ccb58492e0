------------------------------ MODULE GasTopups ------------------------------
(***************************************************************************)
(* Sending BNB for gas to BSC watch addresses, all from one account:       *)
(* single and batch requests of the dashboard (handleBSCTransferGas and    *)
(* runBSCGasTransferJob in internal/web/bsc.go), and three others that     *)
(* sign with the same key: "list" is cmd/bsc-transfer-gas, "draw" is       *)
(* cmd/bsc-transfer-fixed-amount, "sweep" a manual sweep of the HD wallet  *)
(* (internal/hdwallet/collect.go).                                         *)
(*                                                                         *)
(* The BSC node is external: it keeps one transaction per nonce of the     *)
(* account and may take another for a nonce in use as a replacement.       *)
(* Amounts, prices and balances only decide whether a step goes on; an     *)
(* address is its place in the list of its request or program.             *)
(***************************************************************************)
EXTENDS Naturals, Sequences, FiniteSets

CONSTANTS
    Singles,     \* requests for one address
    Batches,     \* requests for several
    Total,       \* addresses in a batch
    ToolTotal,   \* rows of bsc_watch_addresses, -draw-count, addresses of a sweep
    MaxBeside,   \* bound on who is at work beside the batches
    MaxFaults    \* bound on failed sends and on batches that run out of time

Web == Singles \cup Batches
Tools == {"list", "draw", "sweep"}
Senders == Web \cup Tools
Nobody == "nobody"

ASSUME ConstantsOK ==
    /\ Singles \cap Batches = {} /\ Tools \cap Web = {} /\ Nobody \notin Senders
    /\ Total \in Nat \ {0, 1} /\ ToolTotal \in Nat \ {0}
    /\ MaxBeside \in Nat /\ MaxFaults \in Nat

VARIABLES
    pool,       \* the node's transactions of the account, by nonce
    lock,       \* holder of bscGasTransferMu
    pc,         \* control of each sender
    item,       \* its position in its list of addresses
    nonce,      \* the nonce it read, while it sends
    running,    \* bscGasBatchRunning
    current,    \* bscGasBatchCurrentJob
    status,     \* bscGasBatchStatus
    good, bad,  \* each batch: lengths of successAddresses and failedAddresses
    expired,    \* batches whose two hours are over
    answered,   \* history: web transfers that were given a transaction hash
    faults

slotVars == <<running, current>>
webVars == <<slotVars, status, good, bad, expired>>
vars == <<pool, lock, pc, item, nonce, webVars, answered, faults>>

NoStatus == [known |-> FALSE, good |-> 0, bad |-> 0, finished |-> FALSE]

Labels == {"new", "look", "wait", "nonce", "send", "item", "count", "cool",
           "final", "release", "pause", "done"}
Transactions == [by : Senders, item : Nat, nonce : Nat]
Statuses == [known : BOOLEAN, good : Nat, bad : Nat, finished : BOOLEAN]

TypeOK ==
    /\ pool \in Seq(Transactions)
    /\ lock \in Web \cup {Nobody}
    /\ pc \in [Senders -> Labels]
    /\ item \in [Senders -> Nat] /\ nonce \in [Senders -> Nat]
    /\ running \in BOOLEAN /\ current \in Batches \cup {Nobody}
    /\ status \in [Batches -> Statuses]
    /\ good \in [Batches -> Nat] /\ bad \in [Batches -> Nat]
    /\ expired \subseteq Batches
    /\ answered \subseteq Transactions
    /\ faults \in 0 .. MaxFaults

Init ==
    /\ pool = <<>> /\ lock = Nobody
    /\ \E beside \in SUBSET (Senders \ Batches) :
          /\ Cardinality(beside) <= MaxBeside
          /\ pc = [s \in Senders |-> IF s \notin Batches \cup beside THEN "done"
                                    ELSE IF s \in Tools THEN "item" ELSE "new"]
    /\ item = [s \in Senders |-> 1]
    /\ nonce = [s \in Senders |-> 0]
    /\ running = FALSE /\ current = Nobody
    /\ status = [b \in Batches |-> NoStatus]
    /\ good = [b \in Batches |-> 0] /\ bad = [b \in Batches |-> 0]
    /\ expired = {} /\ answered = {} /\ faults = 0

-----------------------------------------------------------------------------
(* The node and the calls that reach it.                                   *)

Goto(s, l) == pc' = [pc EXCEPT ![s] = l]
Fault == faults < MaxFaults /\ faults' = faults + 1

\* A call fails, as all do once the batch's context is done.
CallFails(s) == Fault \/ (s \in expired /\ UNCHANGED faults)

\* eth_getTransactionCount(account, "pending").
PendingNonceAt == Len(pool) + 1

\* eth_sendRawTransaction of a transfer puts it into the pool, in place of
\* another for the same nonce, or is refused.
SendRawTransaction(tx) ==
    IF tx.nonce = PendingNonceAt THEN pool' = Append(pool, tx)
    ELSE pool' = [pool EXCEPT ![tx.nonce] = tx]

-----------------------------------------------------------------------------
(* One transfer.  A web request holds bscGasTransferMu from before it      *)
(* reads the account until the node has answered; the others have no lock. *)
(* Each transfer then gets a row in bsc_gas_topup_logs, an attempt whose   *)
(* error is ignored: pages read those rows, nothing here does.             *)

After(s) == IF s \in Batches THEN "count" ELSE IF s \in Tools THEN "pause" ELSE "done"

NoteAllSent(s, ok) ==
    /\ good' = IF s \in Batches THEN [good EXCEPT ![s] = @ + 1] ELSE good
    /\ Goto(s, After(s))
    /\ UNCHANGED bad

\* The end of a batch's transfer: successAddresses or failedAddresses grows.
Note(s, ok) ==
    /\ good' = IF s \in Batches /\ ok THEN [good EXCEPT ![s] = @ + 1] ELSE good
    /\ bad' = IF s \in Batches /\ ~ok THEN [bad EXCEPT ![s] = @ + 1] ELSE bad
    /\ Goto(s, After(s))

\* transferBSCGasToAddress reads the address's row: it must be active.
Look(w) ==
    /\ pc[w] = "look"
    /\ \/ Goto(w, "wait") /\ UNCHANGED <<good, bad>>
       \/ Note(w, FALSE)
    /\ UNCHANGED <<pool, lock, item, nonce, slotVars, status, expired, answered, faults>>

NoMutex == TRUE
MutexFree == lock = Nobody

Lock(w) ==
    /\ pc[w] = "wait" /\ MutexFree
    /\ lock' = w
    /\ Goto(w, "nonce")
    /\ UNCHANGED <<pool, item, nonce, webVars, answered, faults>>

\* sendBSCGasTopup returns and unlocks.
EndSend(s, ok) ==
    /\ lock' = IF lock = s THEN Nobody ELSE lock
    /\ nonce' = [nonce EXCEPT ![s] = 0]
    /\ Note(s, ok)

\* Balance, gas price, nonce and chain id of the account: a call may fail, and the
\* balance be too low.
ReadNonce(s) ==
    /\ pc[s] = "nonce"
    /\ \/ /\ s \notin expired
          /\ nonce' = [nonce EXCEPT ![s] = PendingNonceAt]
          /\ Goto(s, "send")
          /\ UNCHANGED <<lock, good, bad>>
       \/ EndSend(s, FALSE)
    /\ UNCHANGED <<pool, item, slotVars, status, expired, answered, faults>>

\* The transfer s is sending, to the address it has come to.
Transfer(s) == [by |-> s, item |-> item[s], nonce |-> nonce[s]]

\* The answer may be lost after the node has taken the transaction.
Send(s) ==
    /\ pc[s] = "send"
    /\ SendRawTransaction(Transfer(s))
    /\ \/ /\ s \notin expired
          /\ EndSend(s, TRUE)
          /\ answered' = IF s \in Web THEN answered \cup {Transfer(s)} ELSE answered
          /\ UNCHANGED faults
       \/ EndSend(s, FALSE) /\ Fault /\ UNCHANGED answered
    /\ UNCHANGED <<item, slotVars, status, expired>>

SendRefused(s) ==
    /\ pc[s] = "send"
    /\ EndSend(s, FALSE)
    /\ \/ CallFails(s)
       \/ nonce[s] # PendingNonceAt /\ UNCHANGED faults     \* the nonce is taken
    /\ UNCHANGED <<pool, item, slotVars, status, expired, answered>>

-----------------------------------------------------------------------------
(* handleBSCTransferGas.                                                   *)

\* One address: the handler sends and answers.
RequestOne(w) ==
    /\ w \in Singles /\ pc[w] = "new"
    /\ Goto(w, "look")
    /\ UNCHANGED <<pool, lock, item, nonce, webVars, answered, faults>>

\* The first status of a job.
Started == [known |-> TRUE, good |-> 0, bad |-> 0, finished |-> FALSE]

\* Several: refused while another batch runs, else handed to a goroutine.
RequestBatch(b) ==
    /\ b \in Batches /\ pc[b] = "new"
    /\ IF running
       THEN Goto(b, "done") /\ UNCHANGED <<slotVars, status>>
       ELSE /\ running' = TRUE /\ current' = b
            /\ status' = [status EXCEPT ![b] = Started]
            /\ Goto(b, "item")
    /\ UNCHANGED <<pool, lock, item, nonce, good, bad, expired, answered, faults>>

-----------------------------------------------------------------------------
(* runBSCGasTransferJob.                                                   *)

\* Two hours have passed since the job began.
Expire(b) ==
    /\ b \in Batches \ expired /\ pc[b] \notin {"new", "release", "done"}
    /\ Fault /\ expired' = expired \cup {b}
    /\ UNCHANGED <<pool, lock, pc, item, nonce, slotVars, status, good, bad,
                   answered>>

\* setBSCGasTransferJobStatus.
SetStatus(b, finished) ==
    status' = [status EXCEPT ![b] =
        [known |-> TRUE, good |-> good[b], bad |-> bad[b], finished |-> finished]]

Finish(b) == SetStatus(b, TRUE) /\ Goto(b, "release")

\* The head of the loop.
NextItem(b) ==
    /\ b \in Batches /\ pc[b] = "item"
    /\ IF b \in expired THEN Finish(b) ELSE Goto(b, "look") /\ UNCHANGED status
    /\ UNCHANGED <<pool, lock, item, nonce, slotVars, good, bad, expired,
                   answered, faults>>

\* The outcome is shown; the last address has no pause.
Count(b) ==
    /\ b \in Batches /\ pc[b] = "count"
    /\ SetStatus(b, FALSE)
    /\ Goto(b, IF item[b] < Total THEN "cool" ELSE "final")
    /\ UNCHANGED <<pool, lock, item, nonce, slotVars, good, bad, expired,
                   answered, faults>>

\* Five seconds between addresses, or the end of the context.
Cooldown(b) ==
    /\ b \in Batches /\ pc[b] = "cool"
    /\ \/ item' = [item EXCEPT ![b] = @ + 1] /\ Goto(b, "item") /\ UNCHANGED status
       \/ b \in expired /\ Finish(b) /\ UNCHANGED item
    /\ UNCHANGED <<pool, lock, nonce, slotVars, good, bad, expired, answered, faults>>

\* The balances of the successes are refreshed, then the last status is set.
FinalStatus(b) ==
    /\ b \in Batches /\ pc[b] = "final"
    /\ Finish(b)
    /\ UNCHANGED <<pool, lock, item, nonce, slotVars, good, bad, expired,
                   answered, faults>>

ReleaseNothing(b) ==
    /\ b \in Batches /\ pc[b] = "release"
    /\ Goto(b, "done")
    /\ UNCHANGED <<pool, lock, item, nonce, slotVars, status, good, bad, expired, answered, faults>>

\* The deferred function.
Release(b) ==
    /\ b \in Batches /\ pc[b] = "release"
    /\ running' = FALSE
    /\ current' = IF current = b THEN Nobody ELSE current
    /\ Goto(b, "done")
    /\ UNCHANGED <<pool, lock, item, nonce, status, good, bad, expired,
                   answered, faults>>

-----------------------------------------------------------------------------
(* The three others, each one transfer after the other.                   *)

Transferring(s) == ReadNonce(s) \/ Send(s) \/ SendRefused(s)

Left(s) == pc[s] = "item" /\ item[s] <= ToolTotal

\* An address whose balances cannot be read or ask for no gas; with a row in
\* bsc-transfer-gas, without a pause.
PassOver(s) ==
    /\ Left(s)
    /\ item' = [item EXCEPT ![s] = @ + 1]
    /\ UNCHANGED <<pool, lock, pc, nonce, webVars, answered, faults>>

\* The next address.
Take(s) ==
    /\ Left(s)
    /\ Goto(s, "nonce")
    /\ UNCHANGED <<pool, lock, item, nonce, webVars, answered, faults>>

\* No lock: price, nonce, chain id and gas estimate, in some order, then the transfer.
SendBNB == Transferring("list")
SendBNBWithNonce == Transferring("draw")
SendBSCGasTopup == Transferring("sweep")

\* Five seconds after a transfer, done or failed; a sweep waits three and collects.
Pause(s) ==
    /\ pc[s] = "pause"
    /\ item' = [item EXCEPT ![s] = @ + 1]
    /\ Goto(s, "item")
    /\ UNCHANGED <<pool, lock, nonce, webVars, answered, faults>>

\* Addresses drawn at random, the same one perhaps twice; no pause after a failure.
Draw == Take("draw")
AfterDraw == Pause("draw")

\* The addresses are done, or the operator interrupts it, or the process ends.
Leave(s) ==
    /\ pc[s] \in {"item", "pause"}
    /\ Goto(s, "done")
    /\ UNCHANGED <<pool, lock, item, nonce, webVars, answered, faults>>

ToolStep ==
    \/ \E s \in {"list", "sweep"} : PassOver(s) \/ Take(s) \/ Pause(s)
    \/ Draw \/ AfterDraw
    \/ \E s \in Tools : Leave(s)
    \/ SendBNB \/ SendBNBWithNonce \/ SendBSCGasTopup

-----------------------------------------------------------------------------
JobStep(b) == NextItem(b) \/ Count(b) \/ Cooldown(b) \/ FinalStatus(b) \/ Release(b)
WebStep(w) == Look(w) \/ Lock(w) \/ Transferring(w) \/ JobStep(w)

Next ==
    \/ \E w \in Web : RequestOne(w) \/ RequestBatch(w) \/ Expire(w) \/ WebStep(w)
    \/ ToolStep

Spec == Init /\ [][Next]_vars

\* Goroutines go on and their calls end, by 45 seconds at most; nothing obliges a
\* request to be made, nor the others to go on.
FairSpec == Spec /\ \A w \in Web : WF_vars(WebStep(w))

-----------------------------------------------------------------------------
(* A transfer the dashboard was given a hash for is the one the node keeps *)
(* for its nonce, so no other web transfer was given the nonce: they read  *)
(* it under bscGasTransferMu.  Only the three others, which do not take    *)
(* that lock, can have displaced it.                                       *)
SuccessIsOnChain ==
    \A t \in answered :
        /\ t.nonce \in DOMAIN pool
        /\ pool[t.nonce] = t \/ pool[t.nonce].by \in Tools

(* What a client polls agrees with the job: without a batch at work every  *)
(* job it knows is finished, with one that job alone is not, or is about   *)
(* to give the slot back; what counts as a success was given a hash, and   *)
(* a finished job has dealt with every address or run out of time.         *)
StatusTellsTheTruth ==
    \A b \in Batches : status[b].known =>
        /\ status[b].finished \/ (running /\ current = b)
        /\ status[b].good <= Cardinality({t \in answered : t.by = b})
        /\ status[b].finished =>
              \/ status[b].good + status[b].bad = Total
              \/ b \in expired /\ status[b].good + status[b].bad < Total

(* A batch, once accepted, gives its slot back: later ones are not refused *)
(* for ever.                                                               *)
BatchEnds == running ~> ~running
=============================================================================
