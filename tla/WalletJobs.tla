------------------------------ MODULE WalletJobs ------------------------------
(***************************************************************************)
(* The HD wallet of the dashboard (internal/hdwallet) on its database:     *)
(* saving the mnemonics, deriving the next addresses (runFullSync) and     *)
(* collecting USDT (runSweep).  Derivation and sweeps run in a goroutine   *)
(* of their own and share one slot, Service.job; saving does not take it.  *)
(*                                                                         *)
(* A mnemonic is its tag; both chains' are saved together.  An address is  *)
(* the tag and the wallet index it is derived from.  Balances in the       *)
(* database are written by the balance components at any time, so the      *)
(* addresses a sweep finds worth its while are any, at most the given one  *)
(* if it is for one; so are the balances it then reads from the chain.     *)
(* The chains are external: a transfer is in the pool until it is mined.   *)
(***************************************************************************)
EXTENDS Integers, FiniteSets

CONSTANTS
    Clients,    \* browsers, and the goroutine each may have started
    Tags,       \* mnemonics
    Count,      \* most addresses of a mnemonic
    Batch,      \* hdWalletGenerateBatchSize
    MaxFaults   \* bound on failed calls and panics

Chains == {"tron", "bsc"}
Indexes == 0 .. Count - 1
NoTag == "none"

ASSUME ConstantsOK ==
    /\ NoTag \notin Tags
    /\ Count \in Nat \ {0} /\ Batch \in Nat \ {0} /\ MaxFaults \in Nat

VARIABLES
    config,    \* runtime setting hd_wallet_config_v1
    keys,      \* runtime settings hd_wallet_mnemonic_<chain>_<tag>
    rows,      \* watch_addresses, bsc_watch_addresses: live rows of the wallet
    failed,    \* history: tags whose save was answered with an error
    job,       \* Service.job
    pc, tag,   \* each client: control, the mnemonic its request or job is about
    eligible,  \* each client: previewed number of addresses
    todo,      \* each client: addresses its sweep has still to collect from
    tally,     \* each client: outcomes of its sweep, and transfers it sent
    chain,     \* chain of the sweeps
    pool,      \* addresses with a transfer not mined yet
    twice,     \* history: addresses sent from while such a transfer was there
    faults

savedVars == <<config, keys, failed>>
sweepVars == <<eligible, todo, tally>>
chainVars == <<chain, pool, twice>>
vars == <<savedVars, rows, job, pc, tag, sweepVars, chainVars, faults>>

NoTally == [good |-> 0, failed |-> 0, skipped |-> 0, sent |-> 0]
Working == {"load", "tron", "bsc", "addresses", "examine", "send", "record", "end"}

TypeOK ==
    /\ config \in Tags \cup {NoTag} /\ keys \in [Chains -> SUBSET Tags]
    /\ rows \in [Chains -> [Tags -> SUBSET Indexes]]
    /\ failed \subseteq Tags
    /\ job \in [running : BOOLEAN, current : Nat, total : Nat]
    /\ pc \in [Clients -> {"idle", "config", "keyTron", "keyBsc", "begin"} \cup Working]
    /\ tag \in [Clients -> Tags \cup {NoTag}]
    /\ eligible \in [Clients -> 0 .. Count]
    /\ todo \in [Clients -> SUBSET Indexes]
    /\ tally \in [Clients -> [good : Nat, failed : Nat, skipped : Nat, sent : Nat]]
    /\ chain \in Chains /\ pool \subseteq Tags \X Indexes /\ twice \subseteq Tags \X Indexes
    /\ faults \in 0 .. MaxFaults

Init ==
    /\ config = NoTag /\ keys = [c \in Chains |-> {}]
    /\ rows = [c \in Chains |-> [t \in Tags |-> {}]]
    /\ failed = {}
    /\ job = [running |-> FALSE, current |-> 0, total |-> 0]
    /\ pc = [c \in Clients |-> "idle"] /\ tag = [c \in Clients |-> NoTag]
    /\ eligible = [c \in Clients |-> 0]
    /\ todo = [c \in Clients |-> {}] /\ tally = [c \in Clients |-> NoTally]
    /\ chain \in Chains /\ pool = {} /\ twice = {}
    /\ faults = 0

-----------------------------------------------------------------------------
Goto(c, l) == pc' = [pc EXCEPT ![c] = l]
Idle(c) ==
    /\ Goto(c, "idle")
    /\ tag' = [tag EXCEPT ![c] = NoTag]
    /\ eligible' = [eligible EXCEPT ![c] = 0]
    /\ todo' = [todo EXCEPT ![c] = {}] /\ tally' = [tally EXCEPT ![c] = NoTally]
Fault == faults < MaxFaults /\ faults' = faults + 1

-----------------------------------------------------------------------------
(* SaveConfig: the setting, then both chains' mnemonics by tag.            *)

Save(c) ==
    /\ pc[c] = "idle"
    /\ \E t \in Tags : tag' = [tag EXCEPT ![c] = t]
    /\ Goto(c, "config")
    /\ UNCHANGED <<savedVars, rows, job, sweepVars, chainVars, faults>>

SaveFails(c) ==
    /\ pc[c] \in {"config", "keyTron", "keyBsc"}
    /\ Fault /\ Idle(c)
    /\ failed' = failed \cup {tag[c]}
    /\ UNCHANGED <<config, keys, rows, job, chainVars>>

WriteConfig(c) ==
    /\ pc[c] = "config"
    /\ config' = tag[c]
    /\ Goto(c, "keyTron")
    /\ UNCHANGED <<keys, failed, rows, job, tag, sweepVars, chainVars, faults>>

\* An error of the next setting, tron-m, is ignored; nothing here reads it.
WriteTronKey(c) ==
    /\ pc[c] = "keyTron"
    /\ keys' = [keys EXCEPT !["tron"] = @ \cup {tag[c]}]
    /\ Goto(c, "keyBsc")
    /\ UNCHANGED <<config, failed, rows, job, tag, sweepVars, chainVars, faults>>

WriteNoBscKey(c) ==
    /\ pc[c] = "keyBsc"
    /\ Idle(c)
    /\ UNCHANGED <<savedVars, rows, job, chainVars, faults>>

WriteBscKey(c) ==
    /\ pc[c] = "keyBsc"
    /\ keys' = [keys EXCEPT !["bsc"] = @ \cup {tag[c]}]
    /\ Idle(c)
    /\ UNCHANGED <<config, failed, rows, job, chainVars, faults>>

-----------------------------------------------------------------------------
(* Service.job, always under Service.mu.                                   *)

Cap(current) == IF job.total > 0 /\ current > job.total THEN job.total ELSE current

BeginJobAnyway(total) == job' = [running |-> TRUE, current |-> 0, total |-> total]
BeginJob(total) ==
    /\ ~job.running
    /\ job' = [running |-> TRUE, current |-> 0, total |-> total]
SetProgress(current) == job' = IF job.running THEN [job EXCEPT !.current = Cap(current)] ELSE job

\* With a last error or without.
FinishSuccess == job' = [job EXCEPT !.running = FALSE, !.current = job.total]
FinishWithError == job' = [job EXCEPT !.running = FALSE]
FinishSkipped == job' = [job EXCEPT !.running = FALSE]

-----------------------------------------------------------------------------
(* StartSync, runFullSync and runFullSyncToDB.                             *)

StartSync(c) ==
    /\ pc[c] = "idle"
    /\ BeginJob(2 * Batch)
    /\ Goto(c, "load")
    /\ UNCHANGED <<savedVars, rows, tag, sweepVars, chainVars, faults>>

\* A failed call, no mnemonic, or a panic: the job ends with an error.
JobFails(c) ==
    /\ \/ pc[c] \in Working /\ Fault
       \/ pc[c] \in {"load", "addresses"} /\ config = NoTag /\ UNCHANGED faults
    /\ FinishWithError /\ Idle(c)
    /\ UNCHANGED <<savedVars, rows, chainVars>>

ConfigFromDB == config

LoadConfig(c) ==
    /\ pc[c] = "load" /\ ConfigFromDB # NoTag
    /\ tag' = [tag EXCEPT ![c] = ConfigFromDB]
    /\ Goto(c, "tron")
    /\ UNCHANGED <<savedVars, rows, job, sweepVars, chainVars, faults>>

\* The lowest missing indexes, a batch at most.
CollectMissing(existing) ==
    {i \in Indexes \ existing : Cardinality({k \in Indexes \ existing : k < i}) < Batch}

\* listHDWalletIndexes: a row's index is the one its address was derived at.
WalletIndexes(k, t) == rows[k][t]

\* In one transaction; a deleted row comes back to life.
InsertTronRows(t, new) == rows' = [rows EXCEPT !["tron"][t] = @ \cup new]
InsertBscRows(t, new) == rows' = [rows EXCEPT !["bsc"][t] = @ \cup new]

SyncTron(c) ==
    /\ pc[c] = "tron"
    /\ LET new == CollectMissing(WalletIndexes("tron", tag[c])) IN
          /\ InsertTronRows(tag[c], new)
          /\ SetProgress(Cardinality(new))
    /\ Goto(c, "bsc")
    /\ UNCHANGED <<savedVars, tag, sweepVars, chainVars, faults>>

\* With nothing new on either chain (job.current counts Tron's) the job ends with an error.
SyncBsc(c) ==
    /\ pc[c] = "bsc"
    /\ LET new == CollectMissing(WalletIndexes("bsc", tag[c])) IN
          /\ InsertBscRows(tag[c], new)
          /\ IF job.current = 0 /\ new = {} THEN FinishWithError ELSE FinishSuccess
    /\ Idle(c)
    /\ UNCHANGED <<savedVars, chainVars, faults>>

-----------------------------------------------------------------------------
(* StartSweep: previewed first, then the slot is taken.                    *)

\* The wallet's rows of the chain, the saved mnemonic's alone, with their balances.
TronDashboardRows(t) == rows["tron"][t]
BscDashboardRows(t) == rows["bsc"][t]
SweepContext(t) == IF chain = "tron" THEN TronDashboardRows(t) ELSE BscDashboardRows(t)

\* Balances decide which of them are worth collecting from.
EligibleCandidates(t) == SUBSET SweepContext(t)

PreviewSweep(t) == {Cardinality(found) : found \in EligibleCandidates(t)}

Preview(c) ==
    /\ pc[c] = "idle" /\ ConfigFromDB # NoTag
    /\ \E n \in PreviewSweep(ConfigFromDB) \ {0} :
          eligible' = [eligible EXCEPT ![c] = n]
    /\ Goto(c, "begin")
    /\ UNCHANGED <<savedVars, rows, job, tag, todo, tally, chainVars, faults>>

StartSweep(c) ==
    /\ pc[c] = "begin"
    /\ \/ BeginJob(eligible[c]) /\ Goto(c, "addresses") /\ eligible' = [eligible EXCEPT ![c] = 0]
          /\ UNCHANGED <<tag, todo, tally>>
       \/ job.running /\ Idle(c) /\ UNCHANGED job
    /\ UNCHANGED <<savedVars, rows, chainVars, faults>>

\* runSweepFromDB looks again for what is worth collecting.
LoadAddresses(c) ==
    /\ pc[c] = "addresses" /\ ConfigFromDB # NoTag
    /\ \E found \in EligibleCandidates(ConfigFromDB) :
          IF found = {} THEN FinishSkipped /\ Idle(c)
          ELSE /\ todo' = [todo EXCEPT ![c] = found]
               /\ tag' = [tag EXCEPT ![c] = ConfigFromDB]
               /\ Goto(c, "examine")
               /\ SetProgress(1)
               /\ UNCHANGED <<eligible, tally>>
    /\ UNCHANGED <<savedVars, rows, chainVars, faults>>

-----------------------------------------------------------------------------
(* collectTronUSDT and collectBSCUSDT, for one address.                    *)

Lowest(S) == CHOOSE i \in S : \A k \in S : i <= k
Address(c) == <<tag[c], Lowest(todo[c])>>
Done(c) == tally[c].good + tally[c].failed + tally[c].skipped

ConcludeAsSkip(c, outcome) ==
    /\ tally' = [tally EXCEPT ![c][IF outcome = "failed" THEN "skipped" ELSE outcome] = @ + 1]
    /\ todo' = [todo EXCEPT ![c] = @ \ {Lowest(@)}]
    /\ SetProgress(Done(c) + IF todo'[c] = {} THEN 1 ELSE 2)
    /\ Goto(c, IF todo'[c] = {} THEN "end" ELSE "examine")

\* An address is done with: its outcome and how far the sweep has come.
Conclude(c, outcome) ==
    /\ tally' = [tally EXCEPT ![c][outcome] = @ + 1]
    /\ todo' = [todo EXCEPT ![c] = @ \ {Lowest(@)}]
    /\ SetProgress(Done(c) + IF todo'[c] = {} THEN 1 ELSE 2)
    /\ Goto(c, IF todo'[c] = {} THEN "end" ELSE "examine")

GoOnOrSkip(c) ==
    \/ Goto(c, "send") /\ UNCHANGED <<job, todo, tally>>
    \/ Conclude(c, "skipped")

\* Balances decide; on the way the account may be activated and energy ordered, and it be
\* a skip all the same (TronActions).
ExamineTron(c) ==
    /\ pc[c] = "examine" /\ chain = "tron"
    /\ GoOnOrSkip(c)
    /\ UNCHANGED <<savedVars, rows, tag, eligible, chainVars, faults>>

NoPendingCheck(c) == TRUE
\* LatestNonceAt against PendingNonceAt.
NothingPending(c) == Address(c) \notin pool

\* Nonces, then balances; on the way gas may be sent to the address (GasTopups).
ExamineBsc(c) ==
    /\ pc[c] = "examine" /\ chain = "bsc"
    /\ \/ NothingPending(c) /\ GoOnOrSkip(c)
       \/ ~NothingPending(c) /\ Conclude(c, "skipped")
    /\ UNCHANGED <<savedVars, rows, tag, eligible, chainVars, faults>>

\* A call fails, or the 45 seconds of the address are over.
CollectFails(c) ==
    /\ pc[c] \in {"examine", "send", "record"}
    /\ Fault /\ Conclude(c, "failed")
    /\ UNCHANGED <<savedVars, rows, tag, eligible, chainVars>>

\* The node has taken the transfer; its answer may be lost.
Sent(c) ==
    \/ /\ Goto(c, "record") /\ UNCHANGED <<job, todo, faults>>
       /\ tally' = [tally EXCEPT ![c].sent = @ + 1]
    \/ /\ Fault
       /\ todo' = [todo EXCEPT ![c] = @ \ {Lowest(@)}]
       /\ tally' = [tally EXCEPT ![c].sent = @ + 1, ![c].failed = @ + 1]
       /\ SetProgress(Done(c) + IF todo'[c] = {} THEN 1 ELSE 2)
       /\ Goto(c, IF todo'[c] = {} THEN "end" ELSE "examine")

\* Tron has no nonces to watch: the pool is BSC's.
SendTron(c) ==
    /\ pc[c] = "send" /\ chain = "tron"
    /\ Sent(c)
    /\ UNCHANGED <<savedVars, rows, tag, eligible, chainVars>>

\* The gas estimate or the fee may still make it a skip.
SendBsc(c) ==
    /\ pc[c] = "send" /\ chain = "bsc"
    /\ \/ /\ Sent(c)
          /\ pool' = pool \cup {Address(c)}
          /\ twice' = IF Address(c) \in pool THEN twice \cup {Address(c)} ELSE twice
       \/ Conclude(c, "skipped") /\ UNCHANGED <<pool, twice, faults>>
    /\ UNCHANGED <<savedVars, rows, tag, eligible, chain>>

\* The balance in the database is set to zero; an error makes the transfer a failure.
Record(c) ==
    /\ pc[c] = "record"
    /\ Conclude(c, "good")
    /\ UNCHANGED <<savedVars, rows, tag, eligible, chainVars, faults>>

EndSweep(c) ==
    /\ pc[c] = "end"
    /\ FinishSuccess /\ Idle(c)
    /\ UNCHANGED <<savedVars, rows, chainVars, faults>>

\* Transfers are mined.
Mine ==
    /\ \E a \in pool : pool' = pool \ {a}
    /\ UNCHANGED <<savedVars, rows, job, pc, tag, sweepVars, chain, twice, faults>>

-----------------------------------------------------------------------------
SaveStep(c) == WriteConfig(c) \/ WriteTronKey(c) \/ WriteBscKey(c) \/ SaveFails(c)
CollectTronUSDT(c) == ExamineTron(c) \/ SendTron(c)
CollectBSCUSDT(c) == ExamineBsc(c) \/ SendBsc(c)
Collect(c) == CollectTronUSDT(c) \/ CollectBSCUSDT(c) \/ Record(c) \/ CollectFails(c)
JobStep(c) ==
    LoadConfig(c) \/ SyncTron(c) \/ SyncBsc(c) \/ LoadAddresses(c) \/ Collect(c)
        \/ EndSweep(c) \/ JobFails(c)

HandleHDWalletConfig(c) == Save(c) \/ SaveStep(c)
HandleHDWalletSync(c) == StartSync(c)
HandleHDWalletSweepExecute(c) == Preview(c) \/ StartSweep(c)

Next ==
    \/ \E c \in Clients :
          \/ HandleHDWalletConfig(c) \/ HandleHDWalletSync(c) \/ HandleHDWalletSweepExecute(c)
          \/ JobStep(c)
    \/ Mine

Spec == Init /\ [][Next]_vars

-----------------------------------------------------------------------------
(* One job at a time, however many clients ask for derivation and sweeps   *)
(* at once, and the slot says so: it is taken exactly while one goroutine  *)
(* is at work, so no error, panic or empty sweep leaves it taken.          *)
SlotIsExclusive ==
    LET working == {c \in Clients : pc[c] \in Working} IN
    Cardinality(working) = IF job.running THEN 1 ELSE 0

(* On BSC no second transfer is sent from an address while its first is    *)
(* not mined: whatever was previewed, and however many sweeps were asked.  *)
NoSecondTransfer == chain = "bsc" => twice = {}

(* What a sweep reports of its transfers: each address it counts as        *)
(* collected was sent from, and no address it counts as skipped was.       *)
ReportIsTrue ==
    \A c \in Clients :
        /\ tally[c].good <= tally[c].sent
        /\ tally[c].sent <= tally[c].good + tally[c].failed + IF pc[c] = "record" THEN 1 ELSE 0

(* The mnemonic of every address in the database can be read back by its   *)
(* tag, whatever was saved since, unless a client was told that saving it  *)
(* failed or is still waiting for the answer.                              *)
KeysAreKept ==
    \A k \in Chains : \A t \in Tags : rows[k][t] # {} =>
        \/ t \in keys[k]
        \/ t \in failed
        \/ \E c \in Clients : pc[c] \in {"keyTron", "keyBsc"} /\ tag[c] = t
=============================================================================
