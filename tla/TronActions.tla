----------------------------- MODULE TronActions -----------------------------
(***************************************************************************)
(* What the dashboard pays for on Tron addresses: activations (1 TRX       *)
(* each), one at once or several through the queue and the one worker of   *)
(* TronAddressActivator (internal/service/tron_activator.go), and energy   *)
(* orders (handleActionPreview in internal/web/server.go).  Beside it      *)
(* cmd/tron-activate-watch-addresses activates whatever is watched, and a  *)
(* manual sweep of the HD wallet activates an address and orders energy    *)
(* for it before it collects (collectTronUSDT in internal/hdwallet).       *)
(*                                                                         *)
(* Chain and providers are external: an order that was paid for may still  *)
(* look failed, its answer lost.  Each outcome also gets a row in          *)
(* tron_activation_logs or energy_action_logs, an attempt whose error is   *)
(* ignored; which of the activator's signers pays makes no difference.     *)
(***************************************************************************)
EXTENDS HourRules, Sequences, FiniteSets

CONSTANTS
    Singles,     \* requests to activate one address
    Jobs,        \* requests to activate several
    Orders,      \* requests for energy
    Tool,        \* the command
    Sweep,       \* a sweep, at one address
    Total,       \* addresses of a job, of an order, of the command
    QueueSize,   \* tron_activator.queue_size
    Settings,    \* values of the runtime setting energy_provider
    Defaults,    \* values of energy.provider in the configuration
    Clock,       \* hours at which an order may be placed
    Configured,  \* providers that have an URL and keys
    MaxFaults    \* bound on failed calls

Payers == Singles \cup Jobs \cup Orders \cup {Tool, Sweep}

\* Places in a list of addresses; of a sweep, the activation and the energy.
Items == 1 .. Total
NoJob == "none"

ASSUME ConstantsOK ==
    /\ NoJob \notin Jobs /\ Tool # Sweep /\ {Tool, Sweep} \cap (Singles \cup Jobs \cup Orders) = {}
    /\ Singles \cap Jobs = {} /\ Singles \cap Orders = {} /\ Jobs \cap Orders = {}
    /\ Total \in Nat \ {0, 1} /\ QueueSize \in Nat \ {0} /\ MaxFaults \in Nat
    /\ Clock \subseteq Hours /\ \A r \in Settings \cup Defaults : IsRule(r)

VARIABLES
    paid,       \* how often each payer's order for each address was taken
    pc,         \* control of requests, handlers of jobs and the command
    item,       \* the address each payer has come to
    good, bad,  \* successCount and failedCount
    queue,      \* the channel jobs
    job, step,  \* the worker: its job, its control
    status,     \* jobStatus
    choice,     \* orders and sweep: setting and hour they met, provider they took
    stopping,   \* is the process being shut down?
    faults

tallyVars == <<paid, good, bad>>
workerVars == <<job, step>>
vars == <<tallyVars, pc, item, queue, workerVars, status, choice, stopping, faults>>

NoStatus == [known |-> FALSE, good |-> 0, bad |-> 0, finished |-> FALSE]
NoChoice == [provider |-> "none"]

Labels == {"new", "first", "activate", "energy", "send", "pause", "look", "done"}
Idle == {"receive", "gone"}
Steps == Idle \cup {"item", "send", "count", "pause", "final"}
Statuses == [known : BOOLEAN, good : Nat, bad : Nat, finished : BOOLEAN]
Choices == {NoChoice} \cup [provider : Configured, rule : Settings \cup Defaults, hour : Clock]

TypeOK ==
    /\ paid \in [Payers -> [Items -> Nat]]
    /\ pc \in [Payers -> Labels]
    /\ item \in [Payers -> Items]
    /\ good \in [Payers -> Nat] /\ bad \in [Payers -> Nat]
    /\ queue \in Seq(Jobs) /\ Len(queue) <= QueueSize
    /\ job \in Jobs \cup {NoJob} /\ step \in Steps
    /\ job = NoJob <=> step \in Idle
    /\ status \in [Jobs -> Statuses]
    /\ choice \in [Orders \cup {Sweep} -> Choices]
    /\ stopping \in BOOLEAN /\ faults \in 0 .. MaxFaults

Init ==
    /\ paid = [p \in Payers |-> [i \in Items |-> 0]]
    \* Beside the jobs one other payer is at work: no two of them share any state.
    /\ \E beside \in Payers \ Jobs :
          pc = [p \in Payers |-> IF p \notin Jobs \cup {beside} THEN "done"
                                ELSE IF p = Tool THEN "look"
                                ELSE IF p = Sweep THEN "activate" ELSE "new"]
    /\ item = [p \in Payers |-> 1]
    /\ good = [p \in Payers |-> 0] /\ bad = [p \in Payers |-> 0]
    /\ queue = <<>> /\ job = NoJob /\ step = "receive"
    /\ status = [j \in Jobs |-> NoStatus]
    /\ choice = [o \in Orders \cup {Sweep} |-> NoChoice]
    /\ stopping = FALSE /\ faults = 0

-----------------------------------------------------------------------------
(* Paying.                                                                 *)

Goto(p, l) == pc' = [pc EXCEPT ![p] = l]
Fault == faults < MaxFaults /\ faults' = faults + 1
Take(p) == paid' = [paid EXCEPT ![p][item[p]] = @ + 1]

Succeeded(p) == good' = [good EXCEPT ![p] = @ + 1] /\ UNCHANGED bad
Failed(p) == bad' = [bad EXCEPT ![p] = @ + 1] /\ UNCHANGED good

Unsent(p) == Failed(p) /\ UNCHANGED paid

\* BroadcastTransactionJSON: taken, taken without an answer, refused.
BroadcastTransaction(p) ==
    \/ Take(p) /\ Succeeded(p) /\ UNCHANGED faults
    \/ Take(p) /\ Failed(p) /\ Fault
    \/ Unsent(p) /\ Fault

\* CreateTRXTransferTransaction, signing and the broadcast.
SendOneWithLog(p) == (Unsent(p) /\ Fault) \/ BroadcastTransaction(p)

\* To catfee an order is a request; any answer below 300 is a success, whatever it says.
OrderCatfee(p) ==
    \/ Take(p) /\ Succeeded(p) /\ UNCHANGED faults
    \/ Fault /\ Failed(p) /\ (Take(p) \/ UNCHANGED paid)
    \/ Fault /\ Succeeded(p) /\ UNCHANGED paid

\* To trxfee, with a number of its own: the time of the order.
OrderSafe(p) == OrderCatfee(p)

OrderFrom(provider, p) == IF provider = "trxfee" THEN OrderSafe(p) ELSE OrderCatfee(p)

-----------------------------------------------------------------------------
(* handleActivateAddress.                                                  *)

\* One address: the handler pays and answers.
ActivateOne(p) ==
    /\ p \in Singles /\ pc[p] = "new"
    /\ SendOneWithLog(p)
    /\ Goto(p, "done")
    /\ UNCHANGED <<item, queue, workerVars, status, choice, stopping>>

EnqueueDropping(j) ==
    /\ j \in Jobs /\ pc[j] = "new"
    /\ queue' = IF Len(queue) < QueueSize THEN Append(queue, j) ELSE queue
    /\ Goto(j, "first")
    /\ UNCHANGED <<tallyVars, item, workerVars, status, choice, stopping, faults>>

\* EnqueueBatch: onto the channel if it has room.  An idle worker takes the job from it.
Enqueue(j) ==
    /\ j \in Jobs /\ pc[j] = "new"
    /\ IF Len(queue) < QueueSize
       THEN queue' = Append(queue, j) /\ Goto(j, "first")
       ELSE Goto(j, "done") /\ UNCHANGED queue
    /\ UNCHANGED <<tallyVars, item, workerVars, status, choice, stopping, faults>>

SetStatusSwapped(j, finished) ==
    status' = [status EXCEPT ![j] =
        [known |-> TRUE, good |-> bad[j], bad |-> good[j], finished |-> finished]]

\* setJobStatus.
SetStatus(j, finished) ==
    status' = [status EXCEPT ![j] =
        [known |-> TRUE, good |-> good[j], bad |-> bad[j], finished |-> finished]]

Started == [known |-> TRUE, good |-> 0, bad |-> 0, finished |-> FALSE]
FirstStatus(j) == status' = [status EXCEPT ![j] = Started]

\* The job's first status follows the send on the channel: the worker may be ahead.
SetFirstStatus(j) ==
    /\ j \in Jobs /\ pc[j] = "first"
    /\ FirstStatus(j)
    /\ Goto(j, "done")
    /\ UNCHANGED <<tallyVars, item, queue, workerVars, choice, stopping, faults>>

-----------------------------------------------------------------------------
(* The worker: Run and processJob.                                         *)

WorkerGoes(s) == step' = s /\ UNCHANGED job
LeaveJob == step' = "receive" /\ job' = NoJob

\* select takes either way when both are ready.
Receive ==
    /\ step = "receive" /\ queue # <<>>
    /\ job' = Head(queue) /\ queue' = Tail(queue)
    /\ FirstStatus(Head(queue))
    /\ step' = "item"
    /\ UNCHANGED <<tallyVars, pc, item, choice, stopping, faults>>

WorkerEnds ==
    /\ step = "receive" /\ stopping
    /\ WorkerGoes("gone")
    /\ UNCHANGED <<tallyVars, pc, item, queue, status, choice, stopping, faults>>

CancelledGoesOn == SetStatus(job, TRUE) /\ WorkerGoes("send")

\* The context is looked at before each address, and in the pause.
Cancelled == SetStatus(job, TRUE) /\ LeaveJob

NextAddress ==
    /\ step = "item"
    /\ IF stopping THEN Cancelled ELSE WorkerGoes("send") /\ UNCHANGED status
    /\ UNCHANGED <<tallyVars, pc, item, queue, choice, stopping, faults>>

WorkerSends ==
    /\ step = "send"
    /\ SendOneWithLog(job) \/ (stopping /\ Unsent(job) /\ UNCHANGED faults)
    /\ WorkerGoes("count")
    /\ UNCHANGED <<pc, item, queue, status, choice, stopping>>

Count ==
    /\ step = "count"
    /\ SetStatus(job, FALSE)
    /\ WorkerGoes(IF item[job] < Total THEN "pause" ELSE "final")
    /\ UNCHANGED <<tallyVars, pc, item, queue, choice, stopping, faults>>

RepeatFailed ==
    /\ step = "pause"
    /\ item' = [item EXCEPT ![job] = IF bad[job] > 0 THEN 1 ELSE @ + 1]
    /\ WorkerGoes("item") /\ UNCHANGED status
    /\ UNCHANGED <<tallyVars, pc, queue, choice, stopping, faults>>

\* Three seconds.
Pause ==
    /\ step = "pause"
    /\ \/ item' = [item EXCEPT ![job] = @ + 1] /\ WorkerGoes("item") /\ UNCHANGED status
       \/ stopping /\ Cancelled /\ UNCHANGED item
    /\ UNCHANGED <<tallyVars, pc, queue, choice, stopping, faults>>

Final ==
    /\ step = "final"
    /\ SetStatus(job, TRUE)
    /\ LeaveJob
    /\ UNCHANGED <<tallyVars, pc, item, queue, choice, stopping, faults>>

\* The root context is cancelled; handlers under way are let finish.
Stop ==
    /\ ~stopping /\ stopping' = TRUE
    /\ UNCHANGED <<tallyVars, pc, item, queue, workerVars, status, choice, faults>>

-----------------------------------------------------------------------------
(* handleActionPreview: energy once or twice for each address in turn.     *)

\* resolveEnergyProvider: the runtime setting if it can be read and names a provider
\* at this hour, else the default.
InForce(hour) ==
    Defaults \cup {r \in Settings : ResolveProviderByRule(r, hour) \in {"trxfee", "catfee"}}

Choose(p, provider, rule, hour) ==
    choice' = [choice EXCEPT ![p] = [provider |-> provider, rule |-> rule, hour |-> hour]]

\* Without a provider that is configured the request is refused.
Resolve(o) ==
    /\ o \in Orders /\ pc[o] = "new"
    /\ \E hour \in Clock : \E rule \in InForce(hour) :
          LET provider == ResolveProviderByRule(rule, hour) IN
          IF provider \in Configured
          THEN Choose(o, provider, rule, hour) /\ Goto(o, "send")
          ELSE Goto(o, "done") /\ UNCHANGED choice
    /\ UNCHANGED <<tallyVars, item, queue, workerVars, status, stopping, faults>>

OrderEnergy(o) ==
    /\ o \in Orders /\ pc[o] = "send"
    /\ OrderFrom(choice[o].provider, o)
    /\ IF item[o] < Total
       THEN item' = [item EXCEPT ![o] = @ + 1] /\ UNCHANGED pc
       ELSE Goto(o, "done") /\ UNCHANGED item
    /\ UNCHANGED <<queue, workerVars, status, choice, stopping>>

-----------------------------------------------------------------------------
(* collectTronUSDT, until it creates the transfer: a failure ends it.      *)

\* An address with no account or less than 1 TRX is activated.
SweepActivates ==
    /\ pc[Sweep] = "activate"
    /\ \/ /\ SendOneWithLog(Sweep)
          /\ IF good'[Sweep] > good[Sweep]
             THEN Goto(Sweep, "energy") /\ item' = [item EXCEPT ![Sweep] = 2]
             ELSE Goto(Sweep, "done") /\ UNCHANGED item
       \/ /\ Goto(Sweep, "energy") /\ item' = [item EXCEPT ![Sweep] = 2]
          /\ UNCHANGED <<tallyVars, faults>>
    /\ UNCHANGED <<queue, workerVars, status, choice, stopping>>

\* The address, or its energy, is good for no transfer or for one as it is.
SweepGoesOn ==
    /\ pc[Sweep] \in {"activate", "energy"}
    /\ Goto(Sweep, "done")
    /\ UNCHANGED <<tallyVars, item, queue, workerVars, status, choice, stopping, faults>>

\* The wallet's resolveEnergyProvider asks the default alone; with none it is trxfee.
SweepProvider(rule, hour) ==
    LET named == ResolveProviderByRule(rule, hour) IN
    IF named \in {"trxfee", "catfee"} THEN named ELSE "trxfee"

SweepOrders ==
    /\ pc[Sweep] = "energy"
    /\ \E hour \in Clock : \E rule \in Defaults :
          LET provider == SweepProvider(rule, hour) IN
          /\ provider \in Configured
          /\ Choose(Sweep, provider, rule, hour)
          /\ OrderFrom(provider, Sweep)
    /\ Goto(Sweep, "done")
    /\ UNCHANGED <<item, queue, workerVars, status, stopping>>

-----------------------------------------------------------------------------
(* cmd/tron-activate-watch-addresses, a process of its own.                *)

ToolNext == IF item[Tool] < Total THEN item' = [item EXCEPT ![Tool] = @ + 1] /\ Goto(Tool, "look")
            ELSE Goto(Tool, "done") /\ UNCHANGED item

\* An address whose balance is 1 TRX or more is passed over, as is one it cannot read.
ToolLooks ==
    /\ pc[Tool] = "look"
    /\ \/ Goto(Tool, "send") /\ UNCHANGED item
       \/ ToolNext
    /\ UNCHANGED <<tallyVars, queue, workerVars, status, choice, stopping, faults>>

\* A success is followed by a second's pause.
ToolSends ==
    /\ pc[Tool] = "send"
    /\ SendOneWithLog(Tool)
    /\ IF good'[Tool] > good[Tool] THEN Goto(Tool, "pause") /\ UNCHANGED item ELSE ToolNext
    /\ UNCHANGED <<queue, workerVars, status, choice, stopping>>

ToolPauses ==
    /\ pc[Tool] = "pause"
    /\ ToolNext
    /\ UNCHANGED <<tallyVars, queue, workerVars, status, choice, stopping, faults>>

-----------------------------------------------------------------------------
WorkerStep ==
    Receive \/ WorkerEnds \/ NextAddress \/ WorkerSends \/ Count \/ Pause \/ Final

Next ==
    \/ \E p \in Singles : ActivateOne(p)
    \/ \E j \in Jobs : Enqueue(j) \/ SetFirstStatus(j)
    \/ \E o \in Orders : Resolve(o) \/ OrderEnergy(o)
    \/ WorkerStep \/ Stop
    \/ ToolLooks \/ ToolSends \/ ToolPauses
    \/ SweepActivates \/ SweepGoesOn \/ SweepOrders

Spec == Init /\ [][Next]_vars

\* The worker goes on: its sends end after 45 seconds at most.
FairSpec == Spec /\ WF_vars(WorkerStep)

-----------------------------------------------------------------------------
(* No request pays for an address twice, whatever answers were lost: an    *)
(* address counted as failed is left to the operator.  What a request      *)
(* counts as a success was taken, of energy orders unless a provider's     *)
(* answer hid its refusal.                                                 *)
PaidOnce ==
    \A p \in Payers :
        /\ \A i \in Items : paid[p][i] <= 1
        /\ p \notin Orders \cup {Sweep} =>
              good[p] <= Cardinality({i \in Items : paid[p][i] > 0})

(* A job's status never runs ahead of the job; one shown as finished has   *)
(* dealt with all of its addresses, or the process is stopping.            *)
JobStatusIsTrue ==
    \A j \in Jobs :
        /\ status[j].good <= good[j] /\ status[j].bad <= bad[j]
        /\ status[j].finished =>
              /\ job # j
              /\ status[j].good + status[j].bad < Total => stopping

(* A client that has seen its job finished can believe it: only the        *)
(* handler of its own request, when the worker has overtaken it, sets the  *)
(* status back, and only once.                                             *)
FinishedStays ==
    [][\A j \in Jobs : status[j].finished /\ status'[j] # status[j] => pc[j] = "first"]_vars

(* An order goes to the provider its setting names for that hour of the    *)
(* day, ranges over midnight included, from the dashboard and from sweeps. *)
ProviderOfTheHour ==
    \A o \in Orders \cup {Sweep} : choice[o] # NoChoice /\ IsPair(choice[o].rule) =>
        (choice[o].provider = "trxfee"
            <=> choice[o].hour \in Window(choice[o].rule.start, choice[o].rule.end))

(* A job taken onto the channel is worked through, unless the process      *)
(* stops.                                                                  *)
AcceptedIsHandled ==
    \A j \in Jobs : (pc[j] = "first") ~> (good[j] + bad[j] = Total \/ stopping)
=============================================================================
