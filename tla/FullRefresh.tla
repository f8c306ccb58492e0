---------------------------- MODULE FullRefresh -----------------------------
(***************************************************************************)
(* Who may refresh every balance of a chain, and when: the loop of         *)
(* RunHourlyBalanceRefresh (internal/service/hourly_balance_refresh.go),   *)
(* the manual refresh of the web dashboard (startManualRefreshAll and      *)
(* runManualRefreshAll in internal/web/server.go), and the two             *)
(* ScheduledRefreshStateTrackers through which they watch each other.      *)
(***************************************************************************)
CONSTANTS
    Requests,   \* handler goroutines: concurrent POSTs to .../manual-refresh-all
    Tron, Bsc   \* the chains

Chains == {Tron, Bsc}
NoChain == "none"

ASSUME ConstantsOK == Tron # Bsc /\ NoChain \notin Chains

VARIABLES
    manual,      \* manualRefreshTracker: chains in `running`
    scheduled,   \* scheduledRefreshTracker: chains in `running`
    running,     \* manualRefreshJob(chain).running
    cooling,     \* chains whose lastStarted is younger than manualRefreshCooldown
    rpc, rchain, \* each request: control and chain
    spc,         \* the scheduled loop: control
    due,         \* chains whose boundary this wakeup reached
    started      \* scheduledRefreshStarted

requestVars == <<rpc, rchain>>
loopVars == <<spc, due, started>>
vars == <<manual, scheduled, running, cooling, requestVars, loopVars>>

RequestPC == {"none", "scheduled", "manual", "load", "admit", "work", "clear"}

TypeOK ==
    /\ manual \subseteq Chains /\ scheduled \subseteq Chains
    /\ running \in [Chains -> BOOLEAN]
    /\ cooling \subseteq Chains
    /\ rpc \in [Requests -> RequestPC]
    /\ rchain \in [Requests -> Chains \cup {NoChain}]
    /\ \A r \in Requests : rchain[r] = NoChain <=> rpc[r] = "none"
    /\ spc \in {"wait", "check", "try", "work"}
    /\ due \subseteq Chains /\ started \in BOOLEAN
    /\ due = {} <=> spc = "wait"

Init ==
    /\ manual = {} /\ scheduled = {}
    /\ running = [c \in Chains |-> FALSE]
    /\ cooling = {}
    /\ rpc = [r \in Requests |-> "none"]
    /\ rchain = [r \in Requests |-> NoChain]
    /\ spc = "wait" /\ due = {} /\ started = FALSE

-----------------------------------------------------------------------------
(* A manual request: the handler, then the goroutine it starts.            *)

Goto(r, l) == rpc' = [rpc EXCEPT ![r] = l]

\* The request ends, answered or done.
EndKeepingChain(r) == Goto(r, "none") /\ UNCHANGED rchain
End(r) == Goto(r, "none") /\ rchain' = [rchain EXCEPT ![r] = NoChain]

\* POST /api/<chain>/manual-refresh-all.
Request(r, c) ==
    /\ rpc[r] = "none"
    /\ Goto(r, "scheduled")
    /\ rchain' = [rchain EXCEPT ![r] = c]
    /\ UNCHANGED <<manual, scheduled, running, cooling, loopVars>>

\* activeScheduledRefreshChains, before the lock is taken.
CheckScheduled(r) ==
    /\ rpc[r] = "scheduled"
    /\ IF scheduled # {} THEN End(r) ELSE Goto(r, "manual") /\ UNCHANGED rchain
    /\ UNCHANGED <<manual, scheduled, running, cooling, loopVars>>

\* activeManualRefreshChainsLocked: the flags of both chains.
ThisChainRunning(c) == running[c]
ManualRunning(c) == \E d \in Chains : running[d]

\* The first look under manualRefreshMu, which is released again.
CheckManual(r) ==
    /\ rpc[r] = "manual"
    /\ IF ManualRunning(rchain[r]) THEN End(r) ELSE Goto(r, "load") /\ UNCHANGED rchain
    /\ UNCHANGED <<manual, scheduled, running, cooling, loopVars>>

\* loadManualRefreshAddresses without the lock; no address or an error ends it.
LoadAddresses(r) ==
    /\ rpc[r] = "load"
    /\ End(r) \/ (Goto(r, "admit") /\ UNCHANGED rchain)
    /\ UNCHANGED <<manual, scheduled, running, cooling, loopVars>>

\* The second look, the cooldown and the start, in one critical section.
Admit(r) ==
    /\ rpc[r] = "admit"
    /\ LET c == rchain[r]
       IN IF ManualRunning(c) \/ c \in cooling
          THEN End(r) /\ UNCHANGED <<manual, running, cooling>>
          ELSE /\ running' = [running EXCEPT ![c] = TRUE]
               /\ cooling' = cooling \cup {c}
               /\ manual' = manual \cup {c}
               /\ Goto(r, "work")
               /\ UNCHANGED rchain
    /\ UNCHANGED <<scheduled, loopVars>>

\* runManualRefreshAll returns; its tracker entry goes first ...
LeaveEntry(c) == UNCHANGED manual
DropEntry(c) == manual' = manual \ {c}
FinishStatus(r) ==
    /\ rpc[r] = "work"
    /\ DropEntry(rchain[r])
    /\ Goto(r, "clear")
    /\ UNCHANGED <<scheduled, running, cooling, rchain, loopVars>>

\* ... and then, under the lock, the flag.
ClearOther(c) == running' = [running EXCEPT ![CHOOSE d \in Chains : d # c] = FALSE]
ClearFlag(c) == running' = [running EXCEPT ![c] = FALSE]
ClearRunning(r) ==
    /\ rpc[r] = "clear"
    /\ ClearFlag(rchain[r])
    /\ End(r)
    /\ UNCHANGED <<manual, scheduled, cooling, loopVars>>

\* Twenty minutes after a start; a job may run for two hours.
CooldownEnds(c) ==
    /\ c \in cooling
    /\ cooling' = cooling \ {c}
    /\ UNCHANGED <<manual, scheduled, running, requestVars, loopVars>>

-----------------------------------------------------------------------------
(* The scheduled loop: one goroutine, Tron before BSC.                     *)

NextDue == IF Tron \in due THEN Tron ELSE Bsc

\* The loop goes on with the other chain or waits for the next boundary.
PassOver ==
    /\ due' = due \ {NextDue}
    /\ IF due \ {NextDue} = {}
       THEN spc' = "wait" /\ started' = FALSE
       ELSE spc' = "check" /\ UNCHANGED started

\* The timer fires at a boundary of one chain or of both.
WakeUp ==
    /\ spc = "wait"
    /\ \E d \in SUBSET Chains : d # {} /\ due' = d
    /\ spc' = "check"
    /\ UNCHANGED <<manual, scheduled, running, cooling, requestVars, started>>

\* Passed over when this wakeup already refreshed the other chain or a manual
\* refresh is active.
CheckActiveManual ==
    /\ spc = "check"
    /\ IF started \/ manual # {} THEN PassOver ELSE spc' = "try" /\ UNCHANGED <<due, started>>
    /\ UNCHANGED <<manual, scheduled, running, cooling, requestVars>>

\* tracker.TryStart fails while anything runs.
TryStart ==
    /\ spc = "try"
    /\ IF scheduled # {}
       THEN PassOver /\ UNCHANGED scheduled
       ELSE /\ scheduled' = {NextDue}
            /\ started' = TRUE
            /\ spc' = "work"
            /\ UNCHANGED due
    /\ UNCHANGED <<manual, running, cooling, requestVars>>

\* The refresh ends or its twenty minutes are over: deferred tracker.Finish.
FinishNothing(c) == UNCHANGED scheduled
Finish(c) == scheduled' = scheduled \ {c}
FinishScheduled ==
    /\ spc = "work"
    /\ Finish(NextDue)
    /\ PassOver
    /\ UNCHANGED <<manual, running, cooling, requestVars>>

RequestStep(r) ==
    \/ CheckScheduled(r) \/ CheckManual(r) \/ LoadAddresses(r)
    \/ Admit(r) \/ FinishStatus(r) \/ ClearRunning(r)

LoopStep == WakeUp \/ CheckActiveManual \/ TryStart \/ FinishScheduled

Next ==
    \/ \E r \in Requests : (\E c \in Chains : Request(r, c)) \/ RequestStep(r)
    \/ LoopStep
    \/ \E c \in Chains : CooldownEnds(c)

Spec == Init /\ [][Next]_vars

\* Handlers and goroutines run to their end (each has a timeout), the timer
\* keeps firing.  Nobody is assumed to ask for a refresh.
FairSpec == Spec /\ WF_vars(LoopStep) /\ \A r \in Requests : WF_vars(RequestStep(r))

-----------------------------------------------------------------------------
Working(r) == rpc[r] = "work"

\* Two handlers that both saw no refresh running, and loaded addresses without
\* the lock, still start one job only, whatever their chains are.
OneManualJob == \A q, r \in Requests : Working(q) /\ Working(r) => q = r

\* What the dashboard and the scheduled loop are shown is true: a chain whose
\* job is refreshing is in the tracker and flagged as running, and the tracker
\* never names a chain whose flag says that nothing runs.
StatusTellsTheTruth ==
    /\ \A r \in Requests : Working(r) => rchain[r] \in manual /\ running[rchain[r]]
    /\ \A c \in manual : running[c]

\* No flag outlives its job: were one left behind, every later manual refresh
\* of both chains would be refused.
FlagsAreReleased ==
    \A c \in Chains : running[c] => \E r \in Requests : rchain[r] = c /\ rpc[r] \in {"work", "clear"}

\* A tracker entry never blocks the manual refresh for ever.
ScheduledEnds == \A c \in Chains : c \in scheduled ~> c \notin scheduled
=============================================================================
