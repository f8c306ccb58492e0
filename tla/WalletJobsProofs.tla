-------------------------- MODULE WalletJobsProofs --------------------------
(***************************************************************************)
(* What WalletJobs guarantees for any number of clients, mnemonics,        *)
(* addresses and faults.                                                   *)
(***************************************************************************)
EXTENDS WalletJobs, FiniteSetTheorems, WellFoundedInduction, TLAPS

USE ConstantsOK DEF ConstantsOK

-----------------------------------------------------------------------------
(* Addresses.                                                              *)

LEMMA IndexesFinite ==
    ASSUME NEW S \in SUBSET Indexes
    PROVE  IsFiniteSet(S) /\ Cardinality(S) \in Nat /\ Cardinality(S) <= Count
<1>1. IsFiniteSet(Indexes) /\ Cardinality(Indexes) = Count
  <2>1. 0 \in Int /\ Count - 1 \in Int /\ ~(0 > Count - 1) /\ (Count - 1) - 0 + 1 = Count
    OBVIOUS
  <2> QED
    BY <2>1, FS_Interval DEF Indexes
<1> QED
  BY <1>1, FS_Subset, FS_CardinalityType

LEMMA LowestIn ==
    ASSUME NEW S \in SUBSET Indexes, S # {}
    PROVE  Lowest(S) \in S
<1>1. S \subseteq Nat
  BY DEF Indexes
<1>2. \E x \in S : \A y \in S : <<y, x>> \notin OpToRel(<, Nat)
  BY <1>1, NatLessThanWellFounded, WFMin
<1>3. \A x, y \in Nat : y < x => <<y, x>> \in OpToRel(<, Nat)
  <2>1. SUFFICES ASSUME NEW x \in Nat, NEW y \in Nat, y < x
                 PROVE  <<y, x>> \in {ss \in Nat \X Nat : ss[1] < ss[2]}
    BY DEF OpToRel
  <2> QED
    BY <2>1, SMT
<1>4. \E i \in S : \A k \in S : ~(k < i)
  BY <1>1, <1>2, <1>3, Zenon
<1>5. \E i \in S : \A k \in S : i <= k
  BY <1>1, <1>4
<1> QED
  BY <1>5, Zenon DEF Lowest

-----------------------------------------------------------------------------
(* Types, and where a client's sweep is.                                   *)

Labels == {"idle", "config", "keyTron", "keyBsc", "begin"} \cup Working
Jobs == [running : BOOLEAN, current : Nat, total : Nat]
Tallies == [good : Nat, failed : Nat, skipped : Nat, sent : Nat]

AtAddress == {"examine", "send", "record"}
WithTag == AtAddress \cup {"config", "keyTron", "keyBsc", "tron", "bsc"}

Place(c) ==
    /\ pc[c] \in AtAddress => todo[c] # {}
    /\ pc[c] \in WithTag => tag[c] \in Tags

PlaceInv == TypeOK /\ \A c \in Clients : Place(c)

LEMMA TallyOfNone == NoTally \in Tallies
  BY 0 \in Nat, Zenon DEF NoTally, Tallies

LEMMA PlaceInit == Init => PlaceInv
<1> SUFFICES ASSUME Init PROVE PlaceInv
  OBVIOUS
<1>1. /\ keys = [k \in Chains |-> {}] /\ rows = [k \in Chains |-> [t \in Tags |-> {}]]
      /\ config = NoTag /\ failed = {} /\ pool = {} /\ twice = {} /\ faults = 0 /\ chain \in Chains
      /\ pc = [c \in Clients |-> "idle"] /\ tag = [c \in Clients |-> NoTag]
      /\ eligible = [c \in Clients |-> 0] /\ todo = [c \in Clients |-> {}]
      /\ tally = [c \in Clients |-> NoTally]
      /\ job = [running |-> FALSE, current |-> 0, total |-> 0]
  BY Zenon DEF Init
<1>2. keys \in [Chains -> SUBSET Tags] /\ rows \in [Chains -> [Tags -> SUBSET Indexes]]
  BY <1>1
<1>3. /\ config \in Tags \cup {NoTag} /\ failed \subseteq Tags
      /\ pool \subseteq Tags \X Indexes /\ twice \subseteq Tags \X Indexes
  BY <1>1
<1>4. pc \in [Clients -> Labels] /\ tag \in [Clients -> Tags \cup {NoTag}]
  BY <1>1 DEF Labels
<1>5. eligible \in [Clients -> 0 .. Count] /\ faults \in 0 .. MaxFaults
  <2>1. 0 \in 0 .. Count /\ 0 \in 0 .. MaxFaults
    BY Count \in Nat, MaxFaults \in Nat
  <2> QED
    BY <1>1, <2>1
<1>6. todo \in [Clients -> SUBSET Indexes] /\ tally \in [Clients -> Tallies]
  BY <1>1, TallyOfNone
<1>7. job \in Jobs
  BY <1>1, 0 \in Nat, Zenon DEF Jobs
<1>8. TypeOK
  BY <1>1, <1>2, <1>3, <1>4, <1>5, <1>6, <1>7, Zenon DEF TypeOK, Labels, Jobs, Tallies
<1>9. \A c \in Clients : Place(c)
  BY <1>1 DEF Place, AtAddress, WithTag
<1> QED
  BY <1>8, <1>9 DEF PlaceInv

\* What a step of client c may do to the variables kept per client.
Moves(c) ==
    /\ \E l \in Labels : pc' = [pc EXCEPT ![c] = l]
    /\ UNCHANGED tag \/ \E t \in Tags \cup {NoTag} : tag' = [tag EXCEPT ![c] = t]
    /\ UNCHANGED eligible \/ \E n \in 0 .. Count : eligible' = [eligible EXCEPT ![c] = n]
    /\ UNCHANGED todo \/ \E S \in SUBSET Indexes : todo' = [todo EXCEPT ![c] = S]
    /\ UNCHANGED tally \/ \E t \in Tallies : tally' = [tally EXCEPT ![c] = t]

LEMMA OneChanges ==
    ASSUME NEW S, NEW T, NEW f \in [S -> T], NEW c \in S, NEW g,
           g = f \/ \E v \in T : g = [f EXCEPT ![c] = v]
    PROVE  g \in [S -> T] /\ \A d \in S : d # c => g[d] = f[d]
<1>1. CASE g = f
  BY <1>1
<1>2. ASSUME NEW v \in T, g = [f EXCEPT ![c] = v]
      PROVE  g \in [S -> T] /\ \A d \in S : d # c => g[d] = f[d]
  BY <1>2
<1> QED
  BY <1>1, <1>2

LEMMA MovesApart ==
    ASSUME TypeOK, NEW c \in Clients, Moves(c)
    PROVE  /\ pc' \in [Clients -> Labels] /\ tag' \in [Clients -> Tags \cup {NoTag}]
           /\ eligible' \in [Clients -> 0 .. Count] /\ todo' \in [Clients -> SUBSET Indexes]
           /\ tally' \in [Clients -> Tallies]
           /\ \A d \in Clients : d # c =>
                 /\ pc'[d] = pc[d] /\ tag'[d] = tag[d] /\ todo'[d] = todo[d]
                 /\ eligible'[d] = eligible[d] /\ tally'[d] = tally[d]
<1>1. /\ pc \in [Clients -> Labels] /\ tag \in [Clients -> Tags \cup {NoTag}]
      /\ eligible \in [Clients -> 0 .. Count] /\ todo \in [Clients -> SUBSET Indexes]
      /\ tally \in [Clients -> Tallies]
  BY DEF TypeOK, Labels, Tallies
<1>2. pc' \in [Clients -> Labels] /\ \A d \in Clients : d # c => pc'[d] = pc[d]
  <2>1. pc \in [Clients -> Labels] /\ c \in Clients
    BY <1>1
  <2>2. pc' = pc \/ \E l \in Labels : pc' = [pc EXCEPT ![c] = l]
    BY Zenon DEF Moves
  <2> QED
    BY ONLY <2>1, <2>2, OneChanges, Zenon
<1>3. tag' \in [Clients -> Tags \cup {NoTag}] /\ \A d \in Clients : d # c => tag'[d] = tag[d]
  <2>1. tag \in [Clients -> Tags \cup {NoTag}] /\ c \in Clients
    BY <1>1
  <2>2. tag' = tag \/ \E t \in Tags \cup {NoTag} : tag' = [tag EXCEPT ![c] = t]
    BY Zenon DEF Moves
  <2> QED
    BY ONLY <2>1, <2>2, OneChanges, Zenon
<1>4. eligible' \in [Clients -> 0 .. Count] /\ \A d \in Clients : d # c => eligible'[d] = eligible[d]
  <2>1. eligible \in [Clients -> 0 .. Count] /\ c \in Clients
    BY <1>1
  <2>2. eligible' = eligible \/ \E n \in 0 .. Count : eligible' = [eligible EXCEPT ![c] = n]
    BY Zenon DEF Moves
  <2> QED
    BY ONLY <2>1, <2>2, OneChanges, Zenon
<1>5. todo' \in [Clients -> SUBSET Indexes] /\ \A d \in Clients : d # c => todo'[d] = todo[d]
  <2>1. todo \in [Clients -> SUBSET Indexes] /\ c \in Clients
    BY <1>1
  <2>2. todo' = todo \/ \E S \in SUBSET Indexes : todo' = [todo EXCEPT ![c] = S]
    BY Zenon DEF Moves
  <2> QED
    BY ONLY <2>1, <2>2, OneChanges, Zenon
<1>6. tally' \in [Clients -> Tallies] /\ \A d \in Clients : d # c => tally'[d] = tally[d]
  <2>1. tally \in [Clients -> Tallies] /\ c \in Clients
    BY <1>1
  <2>2. tally' = tally \/ \E t \in Tallies : tally' = [tally EXCEPT ![c] = t]
    BY Zenon DEF Moves
  <2> QED
    BY ONLY <2>1, <2>2, OneChanges, Zenon
<1> QED
  BY <1>2, <1>3, <1>4, <1>5, <1>6

\* The slot.
LEMMA SlotType ==
    ASSUME TypeOK, NEW total \in Nat, NEW current \in Nat,
           UNCHANGED job \/ BeginJob(total) \/ SetProgress(current) \/ FinishSuccess
             \/ FinishWithError \/ FinishSkipped
    PROVE  job' \in Jobs
<1>1. job \in Jobs /\ job.total \in Nat
  BY DEF TypeOK, Jobs
<1>2. CASE UNCHANGED job
  BY <1>1, <1>2
<1>3. CASE BeginJob(total)
  <2>1. job' = [running |-> TRUE, current |-> 0, total |-> total]
    BY <1>3 DEF BeginJob
  <2> QED
    BY <2>1, 0 \in Nat, Zenon DEF Jobs
<1>4. CASE SetProgress(current)
  <2>1. Cap(current) \in Nat
    BY <1>1 DEF Cap
  <2>2. UNCHANGED job \/ job' = [job EXCEPT !.current = Cap(current)]
    BY <1>4 DEF SetProgress
  <2> QED
    BY <1>1, <2>1, <2>2, SMT DEF Jobs
<1>5. CASE FinishSuccess \/ FinishWithError \/ FinishSkipped
  <2>1. \/ job' = [job EXCEPT !.running = FALSE, !.current = job.total]
        \/ job' = [job EXCEPT !.running = FALSE]
    BY <1>5 DEF FinishSuccess, FinishWithError, FinishSkipped
  <2> QED
    BY <1>1, <2>1, Zenon DEF Jobs
<1> QED
  BY <1>2, <1>3, <1>4, <1>5

LEMMA FaultType == TypeOK /\ (Fault \/ UNCHANGED faults) => faults' \in 0 .. MaxFaults
  BY SMT DEF TypeOK, Fault

LEMMA IdleMoves ==
    ASSUME NEW c \in Clients, Idle(c)
    PROVE  Moves(c)
<1>1. "idle" \in Labels /\ 0 \in 0 .. Count
  BY Count \in Nat DEF Labels
<1>2. {} \in SUBSET Indexes /\ NoTag \in Tags \cup {NoTag}
  OBVIOUS
<1> QED
  BY <1>1, <1>2, TallyOfNone, Zenon DEF Idle, Goto, Moves

-----------------------------------------------------------------------------
(* Every step of a client moves that client alone.                         *)

ClientStep(c) ==
    \/ HandleHDWalletConfig(c) \/ HandleHDWalletSync(c) \/ HandleHDWalletSweepExecute(c)
    \/ JobStep(c)

LEMMA StaysAtHome ==
    ASSUME TypeOK, NEW c \in Clients, UNCHANGED <<eligible, todo, tally>>,
           UNCHANGED tag \/ \E t \in Tags \cup {NoTag} : tag' = [tag EXCEPT ![c] = t],
           NEW l \in Labels, Goto(c, l)
    PROVE  Moves(c) /\ pc'[c] = l
<1>1. Moves(c)
  BY Zenon DEF Moves, Goto
<1>2. pc'[c] = l
  BY DEF Goto, TypeOK
<1> QED
  BY <1>1, <1>2

LEMMA IdlePlace ==
    ASSUME TypeOK, NEW c \in Clients, Idle(c)
    PROVE  /\ Moves(c) /\ Place(c)' /\ pc'[c] = "idle" /\ tally'[c] = NoTally
<1>1. Moves(c)
  BY IdleMoves
<1>2. pc'[c] = "idle" /\ tally'[c] = NoTally
  BY DEF Idle, Goto, TypeOK
<1> QED
  BY <1>1, <1>2 DEF Place, AtAddress, WithTag

\* An address is done with.
LEMMA ConcludePlace ==
    ASSUME TypeOK, NEW c \in Clients, NEW outcome \in {"good", "failed", "skipped"},
           tag[c] \in Tags, Conclude(c, outcome), UNCHANGED <<tag, eligible>>
    PROVE  /\ Moves(c) /\ Place(c)' /\ job' \in Jobs
           /\ pc'[c] \in {"end", "examine"}
           /\ tally'[c] = [tally[c] EXCEPT ![outcome] = @ + 1]
<1>1. /\ pc \in [Clients -> Labels] /\ todo \in [Clients -> SUBSET Indexes]
      /\ tally \in [Clients -> Tallies]
  BY DEF TypeOK, Labels, Tallies
<1> DEFINE after == [tally[c] EXCEPT ![outcome] = @ + 1]
           left == todo[c] \ {Lowest(todo[c])}
           next == IF todo'[c] = {} THEN "end" ELSE "examine"
<1>2. after \in Tallies
  <2>1. tally[c] \in Tallies
    BY <1>1
  <2> QED
    BY <2>1, SMT DEF Tallies
<1>3. tally' = [tally EXCEPT ![c] = after] /\ tally'[c] = after
  BY <1>1 DEF Conclude
<1>4. todo' = [todo EXCEPT ![c] = left] /\ left \in SUBSET Indexes
  BY <1>1 DEF Conclude
<1>5. pc' = [pc EXCEPT ![c] = next] /\ next \in {"end", "examine"} /\ pc'[c] = next
  BY <1>1 DEF Conclude, Goto
<1>6. Moves(c)
  <2>1. next \in Labels
    BY <1>5 DEF Labels, Working
  <2> HIDE DEF after, left, next
  <2> QED
    BY <1>2, <1>3, <1>4, <1>5, <2>1, Zenon DEF Moves
<1>7. Place(c)'
  BY <1>5 DEF Place, AtAddress, WithTag
<1>8. job' \in Jobs
  <2>1. Done(c) + 1 \in Nat /\ Done(c) + 2 \in Nat
    BY <1>1 DEF Done, Tallies
  <2>2. SetProgress(Done(c) + 1) \/ SetProgress(Done(c) + 2)
    BY Zenon DEF Conclude
  <2> QED
    BY <2>1, <2>2, SlotType
<1> QED
  BY <1>3, <1>5, <1>6, <1>7, <1>8

\* The transfer is sent, or its answer lost.
LEMMA SentPlace ==
    ASSUME TypeOK, NEW c \in Clients, tag[c] \in Tags, todo[c] # {}, Sent(c), UNCHANGED <<tag, eligible>>
    PROVE  /\ Moves(c) /\ Place(c)' /\ job' \in Jobs
           /\ \/ pc'[c] = "record" /\ UNCHANGED job /\ tally'[c] = [tally[c] EXCEPT !.sent = @ + 1]
              \/ /\ pc'[c] \in {"end", "examine"}
                 /\ tally'[c] = [tally[c] EXCEPT !.sent = @ + 1, !.failed = @ + 1]
                 /\ \E n \in Nat : SetProgress(n)
<1>1. /\ pc \in [Clients -> Labels] /\ todo \in [Clients -> SUBSET Indexes]
      /\ tally \in [Clients -> Tallies] /\ tally[c] \in Tallies /\ job \in Jobs
  BY DEF TypeOK, Labels, Tallies, Jobs
<1>2. CASE Goto(c, "record") /\ UNCHANGED <<job, todo>> /\ tally' = [tally EXCEPT ![c].sent = @ + 1]
  <2> DEFINE after == [tally[c] EXCEPT !.sent = @ + 1]
  <2>1. after \in Tallies
    BY <1>1, SMT DEF Tallies
  <2>2. tally' = [tally EXCEPT ![c] = after] /\ tally'[c] = after
    BY <1>1, <1>2
  <2>3. pc' = [pc EXCEPT ![c] = "record"] /\ pc'[c] = "record" /\ "record" \in Labels
    BY <1>1, <1>2 DEF Goto, Labels, Working
  <2> HIDE DEF after
  <2>4. Moves(c)
    BY <1>2, <2>1, <2>2, <2>3, Zenon DEF Moves
  <2>5. Place(c)'
    BY <1>2, <2>3 DEF Place
  <2> QED
    BY <1>1, <1>2, <2>2, <2>3, <2>4, <2>5 DEF after
<1>3. CASE /\ todo' = [todo EXCEPT ![c] = @ \ {Lowest(@)}]
           /\ tally' = [tally EXCEPT ![c].sent = @ + 1, ![c].failed = @ + 1]
           /\ SetProgress(Done(c) + IF todo'[c] = {} THEN 1 ELSE 2)
           /\ Goto(c, IF todo'[c] = {} THEN "end" ELSE "examine")
  <2> DEFINE after == [tally[c] EXCEPT !.sent = @ + 1, !.failed = @ + 1]
             left == todo[c] \ {Lowest(todo[c])}
             next == IF todo'[c] = {} THEN "end" ELSE "examine"
  <2>1. after \in Tallies
    <3> DEFINE first == [tally[c] EXCEPT !.sent = @ + 1]
    <3>1. first \in Tallies
      BY <1>1, SMT DEF Tallies
    <3>2. after = [first EXCEPT !.failed = @ + 1]
      BY <1>1, SMT DEF Tallies
    <3> HIDE DEF first
    <3>3. [first EXCEPT !.failed = @ + 1] \in Tallies
      BY <3>1, SMT DEF Tallies
    <3> QED
      BY <3>2, <3>3
  <2>2. tally' = [tally EXCEPT ![c] = after] /\ tally'[c] = after
    BY <1>1, <1>3, SMT DEF Tallies
  <2>3. todo' = [todo EXCEPT ![c] = left] /\ left \in SUBSET Indexes
    BY <1>1, <1>3
  <2>4. pc' = [pc EXCEPT ![c] = next] /\ next \in {"end", "examine"} /\ pc'[c] = next
    BY <1>1, <1>3 DEF Goto
  <2>5. Moves(c)
    <3>1. next \in Labels
      BY <2>4 DEF Labels, Working
    <3> HIDE DEF after, left, next
    <3> QED
      BY <2>1, <2>2, <2>3, <2>4, <3>1, Zenon DEF Moves
  <2>6. Place(c)'
    BY <2>4 DEF Place, AtAddress, WithTag
  <2>7. \E n \in Nat : SetProgress(n)
    <3>1. Done(c) + 1 \in Nat /\ Done(c) + 2 \in Nat
      BY <1>1 DEF Done, Tallies
    <3> QED
      BY <1>3, <3>1, Zenon
  <2>8. job' \in Jobs
    BY <2>7, SlotType
  <2> QED
    BY <2>2, <2>4, <2>5, <2>6, <2>7, <2>8
<1> QED
  BY <1>2, <1>3 DEF Sent

LEMMA SavingPlace ==
    ASSUME PlaceInv, NEW c \in Clients, HandleHDWalletConfig(c)
    PROVE  Moves(c) /\ Place(c)' /\ UNCHANGED job
<1>1. TypeOK /\ Place(c) /\ tag \in [Clients -> Tags \cup {NoTag}]
  BY DEF PlaceInv, TypeOK
<1>2. UNCHANGED job
  BY Zenon DEF HandleHDWalletConfig, SaveStep, Save, WriteConfig, WriteTronKey, WriteBscKey, SaveFails
<1>3. CASE Idle(c)
  BY <1>1, <1>2, <1>3, IdlePlace
<1>4. CASE Save(c)
  <2>1. PICK t \in Tags : tag' = [tag EXCEPT ![c] = t]
    BY <1>4 DEF Save
  <2>2. Moves(c) /\ pc'[c] = "config"
    BY <1>1, <1>4, <2>1, StaysAtHome DEF Save, sweepVars, Labels
  <2>3. tag'[c] = t
    BY <1>1, <2>1
  <2> QED
    BY <1>2, <2>2, <2>3 DEF Place, AtAddress
<1>5. CASE WriteConfig(c) \/ WriteTronKey(c)
  <2>1. /\ UNCHANGED <<tag, eligible, todo, tally>> /\ pc[c] \in WithTag
        /\ Goto(c, "keyTron") \/ Goto(c, "keyBsc")
    BY <1>5 DEF WriteConfig, WriteTronKey, sweepVars, WithTag
  <2>2. Moves(c) /\ pc'[c] \in {"keyTron", "keyBsc"}
    BY <1>1, <2>1, StaysAtHome DEF Labels
  <2> QED
    BY <1>1, <1>2, <2>1, <2>2 DEF Place, AtAddress
<1> QED
  BY <1>3, <1>4, <1>5 DEF HandleHDWalletConfig, SaveStep, WriteBscKey, SaveFails

LEMMA PreviewFinite ==
    ASSUME TypeOK, NEW t \in Tags, NEW found \in EligibleCandidates(t)
    PROVE  found \in SUBSET Indexes
  BY DEF EligibleCandidates, SweepContext, TronDashboardRows, BscDashboardRows, TypeOK, Chains

LEMMA StartingPlace ==
    ASSUME PlaceInv, NEW c \in Clients, HandleHDWalletSync(c) \/ HandleHDWalletSweepExecute(c)
    PROVE  Moves(c) /\ Place(c)' /\ job' \in Jobs
<1>1. TypeOK /\ eligible \in [Clients -> 0 .. Count] /\ pc \in [Clients -> Labels] /\ job \in Jobs
  BY DEF PlaceInv, TypeOK, Labels, Jobs
<1>2. CASE StartSync(c)
  <2>1. Moves(c) /\ pc'[c] = "load"
    BY <1>1, <1>2, StaysAtHome DEF StartSync, sweepVars, Labels, Working
  <2>2. 2 * Batch \in Nat
    OBVIOUS
  <2>3. job' \in Jobs
    BY <1>1, <1>2, <2>2, SlotType DEF StartSync
  <2> QED
    BY <2>1, <2>3 DEF Place, AtAddress, WithTag
<1>3. CASE Preview(c)
  <2>1. PICK found \in EligibleCandidates(config) : eligible' = [eligible EXCEPT ![c] = Cardinality(found)]
    BY <1>3 DEF Preview, PreviewSweep, ConfigFromDB
  <2>2. config \in Tags
    BY <1>1, <1>3 DEF Preview, ConfigFromDB, TypeOK
  <2>3. Cardinality(found) \in 0 .. Count
    BY <1>1, <2>2, PreviewFinite, IndexesFinite
  <2>4. UNCHANGED <<tag, todo, tally, job>> /\ pc' = [pc EXCEPT ![c] = "begin"] /\ "begin" \in Labels
    BY <1>3 DEF Preview, Goto, Labels
  <2>5. Moves(c)
    BY <2>1, <2>3, <2>4, Zenon DEF Moves
  <2>6. Place(c)'
    BY <1>1, <2>4 DEF Place, AtAddress, WithTag
  <2> QED
    BY <1>1, <2>4, <2>5, <2>6
<1>4. CASE StartSweep(c)
  <2>1. CASE Idle(c) /\ UNCHANGED job
    BY <1>1, <2>1, IdlePlace
  <2>2. CASE /\ BeginJob(eligible[c]) /\ Goto(c, "addresses") /\ eligible' = [eligible EXCEPT ![c] = 0]
             /\ UNCHANGED <<tag, todo, tally>>
    <3>1. "addresses" \in Labels /\ 0 \in 0 .. Count
      BY Count \in Nat DEF Labels, Working
    <3>2. Moves(c)
      BY <2>2, <3>1, Zenon DEF Moves, Goto
    <3>3. Place(c)'
      BY <1>1, <2>2 DEF Place, AtAddress, WithTag, Goto
    <3>4. eligible[c] \in Nat
      BY <1>1
    <3> QED
      BY <1>1, <2>2, <3>2, <3>3, <3>4, SlotType
  <2> QED
    BY <1>4, <2>1, <2>2, Zenon DEF StartSweep
<1> QED
  BY <1>2, <1>3, <1>4 DEF HandleHDWalletSync, HandleHDWalletSweepExecute

LEMMA MissingIndexes == \A existing : CollectMissing(existing) \in SUBSET Indexes
  BY DEF CollectMissing

LEMMA DerivingPlace ==
    ASSUME PlaceInv, NEW c \in Clients,
           LoadConfig(c) \/ SyncTron(c) \/ SyncBsc(c) \/ LoadAddresses(c) \/ EndSweep(c) \/ JobFails(c)
    PROVE  Moves(c) /\ Place(c)' /\ job' \in Jobs
<1>1. /\ TypeOK /\ Place(c) /\ pc \in [Clients -> Labels] /\ job \in Jobs
      /\ tag \in [Clients -> Tags \cup {NoTag}] /\ todo \in [Clients -> SUBSET Indexes]
  BY DEF PlaceInv, TypeOK, Labels, Jobs
<1>2. CASE Idle(c) /\ (FinishSuccess \/ FinishWithError \/ FinishSkipped)
  BY <1>1, <1>2, IdlePlace, SlotType, 0 \in Nat
<1>3. CASE LoadConfig(c)
  <2>1. config \in Tags /\ tag' = [tag EXCEPT ![c] = config]
    BY <1>1, <1>3 DEF LoadConfig, ConfigFromDB, TypeOK
  <2>2. UNCHANGED <<eligible, todo, tally, job>> /\ pc' = [pc EXCEPT ![c] = "tron"] /\ "tron" \in Labels
    BY <1>3 DEF LoadConfig, Goto, Labels, Working, sweepVars
  <2>3. Moves(c)
    BY <2>1, <2>2, Zenon DEF Moves
  <2>4. Place(c)'
    BY <1>1, <2>1, <2>2 DEF Place, AtAddress, WithTag
  <2> QED
    BY <1>1, <2>2, <2>3, <2>4
<1>4. CASE SyncTron(c)
  <2>1. Moves(c) /\ pc'[c] = "bsc" /\ UNCHANGED tag
    BY <1>1, <1>4, StaysAtHome DEF SyncTron, sweepVars, Labels, Working
  <2>2. Place(c)'
    BY <1>1, <1>4, <2>1 DEF Place, AtAddress, WithTag, SyncTron
  <2>3. PICK new \in SUBSET Indexes : SetProgress(Cardinality(new))
    BY <1>4, MissingIndexes, Zenon DEF SyncTron
  <2>4. job' \in Jobs
    BY <1>1, <2>3, IndexesFinite, SlotType
  <2> QED
    BY <2>1, <2>2, <2>4
<1>5. CASE LoadAddresses(c) /\ ~Idle(c)
  <2>1. PICK found \in EligibleCandidates(config) :
           /\ todo' = [todo EXCEPT ![c] = found] /\ found # {}
           /\ tag' = [tag EXCEPT ![c] = config]
           /\ Goto(c, "examine") /\ SetProgress(1) /\ UNCHANGED <<eligible, tally>>
    BY <1>5, Zenon DEF LoadAddresses, ConfigFromDB
  <2>2. config \in Tags
    BY <1>1, <1>5 DEF LoadAddresses, ConfigFromDB, TypeOK
  <2>3. found \in SUBSET Indexes
    BY <1>1, <2>2, PreviewFinite
  <2>4. pc' = [pc EXCEPT ![c] = "examine"] /\ "examine" \in Labels
    BY <2>1 DEF Goto, Labels, Working
  <2>5. Moves(c)
    BY <2>1, <2>2, <2>3, <2>4, Zenon DEF Moves
  <2>6. Place(c)'
    BY <1>1, <2>1, <2>2 DEF Place
  <2>7. job' \in Jobs
    BY <1>1, <2>1, SlotType, 1 \in Nat
  <2> QED
    BY <2>5, <2>6, <2>7
<1>6. CASE LoadAddresses(c) /\ Idle(c)
  <2>1. FinishSkipped \/ (SetProgress(1) /\ ~Idle(c)) \/ SetProgress(1)
    BY <1>6, Zenon DEF LoadAddresses
  <2>2. job' \in Jobs
    BY <1>1, <2>1, SlotType, 1 \in Nat
  <2> QED
    BY <1>1, <1>6, <2>2, IdlePlace
<1> QED
  BY <1>2, <1>3, <1>4, <1>5, <1>6, Zenon DEF SyncBsc, EndSweep, JobFails

LEMMA CollectingPlace ==
    ASSUME PlaceInv, NEW c \in Clients, Collect(c)
    PROVE  Moves(c) /\ Place(c)' /\ job' \in Jobs
<1>1. TypeOK /\ Place(c) /\ job \in Jobs
  BY DEF PlaceInv, TypeOK, Jobs
<1>2. pc[c] \in AtAddress /\ UNCHANGED <<tag, eligible>>
  BY Zenon DEF Collect, CollectTronUSDT, CollectBSCUSDT, ExamineTron, ExamineBsc, SendTron,
               SendBsc, Record, CollectFails, AtAddress
<1>3. tag[c] \in Tags /\ todo[c] # {}
  BY <1>1, <1>2 DEF Place, WithTag
<1>4. CASE \E outcome \in {"good", "failed", "skipped"} : Conclude(c, outcome)
  BY <1>1, <1>2, <1>3, <1>4, ConcludePlace
<1>5. CASE Sent(c)
  BY <1>1, <1>2, <1>3, <1>5, SentPlace
<1>6. CASE Goto(c, "send") /\ UNCHANGED <<job, todo, tally>>
  <2>1. Moves(c) /\ pc'[c] = "send"
    BY <1>1, <1>2, <1>6, StaysAtHome DEF Labels, Working
  <2>2. Place(c)'
    BY <1>2, <1>3, <1>6 DEF Place
  <2> QED
    BY <1>1, <1>6, <2>1, <2>2
<1> QED
  BY <1>4, <1>5, <1>6, Zenon DEF Collect, CollectTronUSDT, CollectBSCUSDT, ExamineTron, ExamineBsc,
     SendTron, SendBsc, Record, CollectFails, GoOnOrSkip

LEMMA ClientMoves ==
    ASSUME PlaceInv, NEW c \in Clients, ClientStep(c)
    PROVE  Moves(c) /\ Place(c)' /\ job' \in Jobs
<1>1. job \in Jobs
  BY DEF PlaceInv, TypeOK, Jobs
<1> QED
  BY <1>1, SavingPlace, StartingPlace, DerivingPlace, CollectingPlace DEF ClientStep, JobStep

LEMMA SavedType ==
    ASSUME PlaceInv, NEW c \in Clients, ClientStep(c)
    PROVE  /\ config' \in Tags \cup {NoTag} /\ keys' \in [Chains -> SUBSET Tags]
           /\ failed' \subseteq Tags
<1>1. /\ config \in Tags \cup {NoTag} /\ keys \in [Chains -> SUBSET Tags] /\ failed \subseteq Tags
      /\ Place(c)
  BY DEF PlaceInv, TypeOK
<1>2. CASE UNCHANGED savedVars
  BY <1>1, <1>2 DEF savedVars
<1>3. CASE SaveStep(c)
  <2>1. tag[c] \in Tags
    BY <1>1, <1>3 DEF SaveStep, WriteConfig, WriteTronKey, WriteBscKey, SaveFails, Place, WithTag
  <2>2. config' \in {config, tag[c]} /\ failed' \in {failed, failed \cup {tag[c]}}
    BY <1>3, Zenon DEF SaveStep, WriteConfig, WriteTronKey, WriteBscKey, SaveFails
  <2>3. UNCHANGED keys \/ \E k \in Chains : keys' = [keys EXCEPT ![k] = @ \cup {tag[c]}]
    BY <1>3, Zenon DEF SaveStep, WriteConfig, WriteTronKey, WriteBscKey, SaveFails, Chains
  <2> QED
    BY <1>1, <2>1, <2>2, <2>3
<1> QED
  BY <1>2, <1>3, Zenon DEF ClientStep, HandleHDWalletConfig, Save, HandleHDWalletSync, StartSync,
     HandleHDWalletSweepExecute, Preview, StartSweep, JobStep, LoadConfig, SyncTron, SyncBsc,
     LoadAddresses, Collect, CollectTronUSDT, CollectBSCUSDT, ExamineTron, ExamineBsc, SendTron,
     SendBsc, Record, CollectFails, EndSweep, JobFails

LEMMA RowsType ==
    ASSUME PlaceInv, NEW c \in Clients, ClientStep(c)
    PROVE  rows' \in [Chains -> [Tags -> SUBSET Indexes]]
<1>1. rows \in [Chains -> [Tags -> SUBSET Indexes]] /\ Place(c)
  BY DEF PlaceInv, TypeOK
<1>2. CASE UNCHANGED rows
  BY <1>1, <1>2
<1>3. CASE SyncTron(c) \/ SyncBsc(c)
  <2>1. \E k \in Chains : \E new \in SUBSET Indexes : rows' = [rows EXCEPT ![k][tag[c]] = @ \cup new]
    BY <1>3, MissingIndexes, Zenon DEF SyncTron, SyncBsc, InsertTronRows, InsertBscRows, Chains
  <2>2. tag[c] \in Tags
    BY <1>1, <1>3 DEF SyncTron, SyncBsc, Place, WithTag
  <2> QED
    BY <1>1, <2>1, <2>2
<1> QED
  BY <1>2, <1>3, Zenon DEF ClientStep, HandleHDWalletConfig, Save, SaveStep, WriteConfig,
     WriteTronKey, WriteBscKey, SaveFails, HandleHDWalletSync, StartSync,
     HandleHDWalletSweepExecute, Preview, StartSweep, JobStep, LoadConfig,
     LoadAddresses, Collect, CollectTronUSDT, CollectBSCUSDT, ExamineTron, ExamineBsc, SendTron,
     SendBsc, Record, CollectFails, EndSweep, JobFails

LEMMA PoolType ==
    ASSUME PlaceInv, NEW c \in Clients, ClientStep(c)
    PROVE  /\ pool' \subseteq Tags \X Indexes /\ twice' \subseteq Tags \X Indexes
           /\ UNCHANGED chain /\ faults' \in 0 .. MaxFaults
<1>1. /\ pool \subseteq Tags \X Indexes /\ twice \subseteq Tags \X Indexes /\ Place(c) /\ TypeOK
      /\ todo \in [Clients -> SUBSET Indexes]
  BY DEF PlaceInv, TypeOK
<1>2. UNCHANGED chain
  BY Zenon DEF ClientStep, HandleHDWalletConfig, Save, SaveStep, WriteConfig,
     WriteTronKey, WriteBscKey, SaveFails, HandleHDWalletSync, StartSync,
     HandleHDWalletSweepExecute, Preview, StartSweep, JobStep, LoadConfig, SyncTron, SyncBsc,
     LoadAddresses, Collect, CollectTronUSDT, CollectBSCUSDT, ExamineTron, ExamineBsc, SendTron,
     SendBsc, Record, CollectFails, EndSweep, JobFails, chainVars
<1>3. Fault \/ UNCHANGED faults
  BY Zenon DEF ClientStep, HandleHDWalletConfig, Save, SaveStep, WriteConfig,
     WriteTronKey, WriteBscKey, SaveFails, HandleHDWalletSync, StartSync,
     HandleHDWalletSweepExecute, Preview, StartSweep, JobStep, LoadConfig, SyncTron, SyncBsc,
     LoadAddresses, Collect, CollectTronUSDT, CollectBSCUSDT, ExamineTron, ExamineBsc, SendTron,
     SendBsc, Record, CollectFails, EndSweep, JobFails, Sent
<1>4. \/ UNCHANGED <<pool, twice>>
      \/ SendBsc(c) /\ pool' = pool \cup {Address(c)} /\ twice' \in {twice, twice \cup {Address(c)}}
  BY Zenon DEF ClientStep, HandleHDWalletConfig, Save, SaveStep, WriteConfig,
     WriteTronKey, WriteBscKey, SaveFails, HandleHDWalletSync, StartSync,
     HandleHDWalletSweepExecute, Preview, StartSweep, JobStep, LoadConfig, SyncTron, SyncBsc,
     LoadAddresses, Collect, CollectTronUSDT, CollectBSCUSDT, ExamineTron, ExamineBsc, SendTron,
     SendBsc, Record, CollectFails, EndSweep, JobFails, chainVars
<1>5. SendBsc(c) => Address(c) \in Tags \X Indexes
  <2>1. SUFFICES ASSUME SendBsc(c) PROVE Address(c) \in Tags \X Indexes
    OBVIOUS
  <2>2. tag[c] \in Tags /\ todo[c] # {} /\ todo[c] \in SUBSET Indexes
    BY <1>1, <2>1 DEF SendBsc, Place, AtAddress, WithTag
  <2>3. Lowest(todo[c]) \in Indexes
    BY <2>2, LowestIn
  <2> HIDE DEF Lowest
  <2> QED
    BY <2>2, <2>3 DEF Address
<1>6. pool' \subseteq Tags \X Indexes /\ twice' \subseteq Tags \X Indexes
  BY <1>1, <1>4, <1>5
<1> QED
  BY <1>1, <1>2, <1>3, <1>6, FaultType

LEMMA PlaceStep == PlaceInv /\ [Next]_vars => PlaceInv'
<1> SUFFICES ASSUME PlaceInv, [Next]_vars PROVE PlaceInv'
  OBVIOUS
<1>1. ASSUME NEW c \in Clients, ClientStep(c) PROVE PlaceInv'
  <2>1. TypeOK /\ Moves(c) /\ Place(c)' /\ job' \in Jobs /\ chain \in Chains
    BY <1>1, ClientMoves DEF PlaceInv, TypeOK
  <2>2. /\ pc' \in [Clients -> Labels] /\ tag' \in [Clients -> Tags \cup {NoTag}]
        /\ eligible' \in [Clients -> 0 .. Count] /\ todo' \in [Clients -> SUBSET Indexes]
        /\ tally' \in [Clients -> Tallies]
        /\ \A d \in Clients : d # c => pc'[d] = pc[d] /\ tag'[d] = tag[d] /\ todo'[d] = todo[d]
    BY <2>1, MovesApart
  <2>3. TypeOK'
    BY <1>1, <2>1, <2>2, SavedType, RowsType, PoolType, Zenon DEF TypeOK, Labels, Jobs, Tallies
  <2>4. ASSUME NEW d \in Clients, d # c PROVE Place(d)'
    BY <2>2, <2>4, Zenon DEF PlaceInv, Place
  <2> QED
    BY <2>1, <2>3, <2>4 DEF PlaceInv
<1>2. CASE Mine
  <2>1. /\ pool' \subseteq pool
        /\ UNCHANGED <<savedVars, rows, job, pc, tag, sweepVars, chain, twice, faults>>
    BY <1>2 DEF Mine
  <2>2. pool' \subseteq Tags \X Indexes
    BY <2>1 DEF PlaceInv, TypeOK
  <2>3. TypeOK'
    BY <2>1, <2>2, Zenon DEF PlaceInv, TypeOK, savedVars, sweepVars
  <2>4. \A c \in Clients : Place(c)'
    BY <2>1, Zenon DEF PlaceInv, Place, sweepVars
  <2> QED
    BY <2>3, <2>4 DEF PlaceInv
<1>3. CASE UNCHANGED vars
  <2>1. TypeOK'
    BY <1>3, Zenon DEF vars, PlaceInv, TypeOK, savedVars, sweepVars, chainVars
  <2>2. \A c \in Clients : Place(c)'
    BY <1>3, Zenon DEF vars, PlaceInv, Place, sweepVars
  <2> QED
    BY <2>1, <2>2 DEF PlaceInv
<1> QED
  BY <1>1, <1>2, <1>3 DEF Next, ClientStep

LEMMA PlaceAlways == Spec => []PlaceInv
  BY PlaceInit, PlaceStep, PTL DEF Spec

(* Every variable stays in its type: what is previewed and collected from  *)
(* is among the derived indexes, for any number of clients and mnemonics   *)
(* (internal/hdwallet).                                                    *)
THEOREM TypeCorrect == Spec => []TypeOK
  BY PlaceAlways, PTL DEF PlaceInv

-----------------------------------------------------------------------------
(* One job in the slot.  Whoever enters it found it free, whoever leaves   *)
(* it was the one in it.                                                   *)

AtWork(c) == pc[c] \in Working

SlotInv ==
    /\ \A c, d \in Clients : AtWork(c) /\ AtWork(d) => c = d
    /\ job.running <=> \E c \in Clients : AtWork(c)

\* How a step of a client changes the slot.
Enters(c) == ~job.running /\ job'.running
Leaves(c) == AtWork(c) /\ pc'[c] \notin Working /\ ~job'.running
Keeps(c) == (AtWork(c) <=> pc'[c] \in Working) /\ (job'.running <=> job.running)

LEMMA SlotFields ==
    ASSUME TypeOK, NEW total, NEW current
    PROVE  /\ BeginJob(total) => ~job.running /\ job'.running
           /\ SetProgress(current) \/ UNCHANGED job => (job'.running <=> job.running)
           /\ FinishSuccess \/ FinishWithError \/ FinishSkipped => ~job'.running
<1>1. job \in Jobs
  BY DEF TypeOK, Jobs
<1>2. BeginJob(total) => ~job.running /\ job'.running
  BY DEF BeginJob
<1>3. SetProgress(current) \/ UNCHANGED job => (job'.running <=> job.running)
  <2>1. CASE SetProgress(current)
    <3>1. UNCHANGED job \/ job' = [job EXCEPT !.current = Cap(current)]
      BY <2>1 DEF SetProgress
    <3>2. [job EXCEPT !.current = Cap(current)].running = job.running
      BY <1>1, Zenon DEF Jobs
    <3> QED
      BY <3>1, <3>2
  <2> QED
    BY <2>1
<1>4. FinishSuccess \/ FinishWithError \/ FinishSkipped => ~job'.running
  <2>1. /\ ~[job EXCEPT !.running = FALSE].running
        /\ ~[job EXCEPT !.running = FALSE, !.current = job.total].running
    BY <1>1, Zenon DEF Jobs
  <2> QED
    BY <2>1, Zenon DEF FinishSuccess, FinishWithError, FinishSkipped
<1> QED
  BY <1>2, <1>3, <1>4

LEMMA SlotUse ==
    ASSUME PlaceInv, NEW c \in Clients, ClientStep(c)
    PROVE  (Enters(c) /\ ~AtWork(c) /\ pc'[c] \in Working) \/ Leaves(c) \/ Keeps(c)
<1>1. TypeOK /\ pc \in [Clients -> Labels] /\ Place(c)
  BY DEF PlaceInv, TypeOK, Labels
<1>2. CASE Idle(c) /\ (FinishSuccess \/ FinishWithError \/ FinishSkipped) /\ AtWork(c)
  BY <1>1, <1>2, IdlePlace, SlotFields DEF Leaves, Working
<1>3. CASE HandleHDWalletConfig(c)
  <2>1. UNCHANGED job /\ pc[c] \in {"idle", "config", "keyTron", "keyBsc"}
    BY <1>3, Zenon DEF HandleHDWalletConfig, SaveStep, Save, WriteConfig, WriteTronKey, WriteBscKey, SaveFails
  <2>2. \E l \in {"idle", "config", "keyTron", "keyBsc"} : pc' = [pc EXCEPT ![c] = l]
    BY <1>3, Zenon DEF HandleHDWalletConfig, SaveStep, Save, WriteConfig, WriteTronKey, WriteBscKey, SaveFails,
                       Idle, Goto
  <2> QED
    BY <1>1, <2>1, <2>2 DEF Keeps, AtWork, Working
<1>4. CASE Preview(c)
  BY <1>1, <1>4 DEF Preview, Goto, Keeps, AtWork, Working
<1>5. CASE StartSync(c)
  <2>1. BeginJob(2 * Batch) /\ pc[c] = "idle" /\ pc'[c] = "load"
    BY <1>1, <1>5 DEF StartSync, Goto
  <2> QED
    BY <1>1, <2>1, SlotFields DEF Enters, AtWork, Working
<1>6. CASE StartSweep(c)
  <2>1. pc[c] = "begin"
    BY <1>6 DEF StartSweep
  <2>2. CASE BeginJob(eligible[c]) /\ Goto(c, "addresses")
    <3>1. pc'[c] = "addresses"
      BY <1>1, <2>2 DEF Goto
    <3> QED
      BY <1>1, <2>1, <2>2, <3>1, SlotFields DEF Enters, AtWork, Working
  <2>3. CASE Idle(c) /\ UNCHANGED job
    BY <1>1, <2>1, <2>3, IdlePlace DEF Keeps, AtWork, Working
  <2> QED
    BY <1>6, <2>2, <2>3, Zenon DEF StartSweep
<1>7. CASE LoadConfig(c) \/ SyncTron(c) \/ (LoadAddresses(c) /\ Goto(c, "examine") /\ SetProgress(1))
  <2>1. /\ pc[c] \in Working /\ \E l \in Working : Goto(c, l)
        /\ UNCHANGED job \/ \E n : SetProgress(n)
    BY <1>7, Zenon DEF LoadConfig, SyncTron, LoadAddresses, Working
  <2> QED
    BY <1>1, <2>1, SlotFields DEF Goto, Keeps, AtWork
<1>8. CASE SyncBsc(c) \/ EndSweep(c) \/ (LoadAddresses(c) /\ FinishSkipped /\ Idle(c))
  <2>1. AtWork(c)
    BY <1>8 DEF SyncBsc, EndSweep, LoadAddresses, AtWork, Working
  <2> QED
    BY <1>2, <1>8, <2>1, Zenon DEF SyncBsc, EndSweep
<1>9. CASE JobFails(c)
  <2>1. AtWork(c)
    BY <1>9 DEF JobFails, AtWork, Working
  <2> QED
    BY <1>2, <1>9, <2>1 DEF JobFails
<1>10. CASE Collect(c)
  <2>1. pc[c] \in AtAddress /\ UNCHANGED <<tag, eligible>>
    BY <1>10, Zenon DEF Collect, CollectTronUSDT, CollectBSCUSDT, ExamineTron, ExamineBsc, SendTron,
                        SendBsc, Record, CollectFails, AtAddress
  <2>2. \/ Goto(c, "send") /\ UNCHANGED job
        \/ Sent(c)
        \/ \E outcome \in {"good", "failed", "skipped"} : Conclude(c, outcome)
    BY <1>10, Zenon DEF Collect, CollectTronUSDT, CollectBSCUSDT, ExamineTron, ExamineBsc, SendTron,
                        SendBsc, Record, CollectFails, GoOnOrSkip
  <2>3. /\ \E l \in {"send", "record", "end", "examine"} : Goto(c, l)
        /\ UNCHANGED job \/ \E n : SetProgress(n)
    BY <2>2, Zenon DEF Conclude, Sent
  <2>4. pc'[c] \in Working /\ pc[c] \in Working
    BY <1>1, <2>1, <2>3 DEF Goto, Working, AtAddress
  <2> QED
    BY <1>1, <2>3, <2>4, SlotFields DEF Keeps, AtWork
<1> QED
  BY <1>3, <1>4, <1>5, <1>6, <1>7, <1>8, <1>9, <1>10, Zenon DEF ClientStep, HandleHDWalletSync,
     HandleHDWalletSweepExecute, JobStep, LoadAddresses

LEMMA SlotInit == Init => SlotInv
  BY DEF Init, SlotInv, AtWork, Working

LEMMA SlotStep == PlaceInv /\ SlotInv /\ [Next]_vars => SlotInv'
<1> SUFFICES ASSUME PlaceInv, SlotInv, [Next]_vars PROVE SlotInv'
  OBVIOUS
<1>1. ASSUME NEW c \in Clients, ClientStep(c) PROVE SlotInv'
  <2>1. \A d \in Clients : d # c => (AtWork(d)' <=> AtWork(d))
    BY <1>1, ClientMoves, MovesApart, Zenon DEF PlaceInv, AtWork
  <2>2. CASE Enters(c) /\ ~AtWork(c) /\ pc'[c] \in Working
    BY <2>1, <2>2, Zenon DEF SlotInv, Enters, AtWork
  <2>3. CASE Leaves(c)
    BY <2>1, <2>3, Zenon DEF SlotInv, Leaves, AtWork
  <2>4. CASE Keeps(c)
    BY <2>1, <2>4, Zenon DEF SlotInv, Keeps, AtWork
  <2> QED
    BY <1>1, <2>2, <2>3, <2>4, SlotUse
<1>2. CASE Mine \/ UNCHANGED vars
  <2>1. UNCHANGED <<pc, job>>
    BY <1>2 DEF Mine, vars
  <2> QED
    BY <2>1, Zenon DEF SlotInv, AtWork
<1> QED
  BY <1>1, <1>2 DEF Next, ClientStep

LEMMA SlotAlways == Spec => []SlotInv
  BY PlaceAlways, SlotInit, SlotStep, PTL DEF Spec

(* However many clients start derivations and sweeps at once, and whatever *)
(* fails or panics, one job at most is at work, and the slot is taken      *)
(* exactly while one is (StartSync, StartSweep, beginJob and the finishes).*)
THEOREM OneJobInTheSlot == Spec => []SlotIsExclusive
<1>1. SlotInv => SlotIsExclusive
  <2> SUFFICES ASSUME SlotInv
               PROVE  Cardinality({c \in Clients : pc[c] \in Working}) = IF job.running THEN 1 ELSE 0
    BY DEF SlotIsExclusive
  <2> DEFINE working == {c \in Clients : pc[c] \in Working}
  <2>1. CASE job.running
    <3>1. PICK c \in Clients : AtWork(c)
      BY <2>1, Zenon DEF SlotInv
    <3>2. working = {c}
      BY <3>1, Zenon DEF SlotInv, AtWork
    <3> QED
      BY <2>1, <3>2, FS_Singleton
  <2>2. CASE ~job.running
    <3>1. working = {}
      BY <2>2, Zenon DEF SlotInv, AtWork
    <3> QED
      BY <2>2, <3>1, FS_EmptySet
  <2> QED
    BY <2>1, <2>2
<1> QED
  BY <1>1, SlotAlways, PTL

-----------------------------------------------------------------------------
(* A sweep's report.  A transfer that was sent is counted in one of two    *)
(* steps: with its answer lost, at once as failed; else when it is         *)
(* recorded, as collected or failed.                                       *)

Pending(c) == IF pc[c] = "record" THEN 1 ELSE 0
Report(c) ==
    /\ tally[c].good + Pending(c) <= tally[c].sent
    /\ tally[c].sent <= tally[c].good + tally[c].failed + Pending(c)

LEMMA ReportInit == Init => \A c \in Clients : Report(c)
  BY DEF Init, Report, Pending, NoTally

\* A step of a client either starts over, leaves the tally alone or concludes or sends.
LEMMA TallyUse ==
    ASSUME PlaceInv, NEW c \in Clients, ClientStep(c)
    PROVE  \/ Idle(c)
           \/ UNCHANGED tally /\ pc[c] # "record" /\ \E l \in Labels \ {"record"} : Goto(c, l)
           \/ Conclude(c, "good") /\ pc[c] = "record"
           \/ Conclude(c, "failed")
           \/ Conclude(c, "skipped") /\ pc[c] # "record"
           \/ Sent(c) /\ pc[c] = "send"
<1>1. CASE HandleHDWalletConfig(c)
  <2>1. "config" \in Labels \ {"record"} /\ "keyTron" \in Labels \ {"record"} /\ "keyBsc" \in Labels \ {"record"}
    BY DEF Labels
  <2>2. CASE Save(c)
    BY <2>1, <2>2 DEF Save, sweepVars
  <2>3. CASE WriteConfig(c)
    BY <2>1, <2>3 DEF WriteConfig, sweepVars
  <2>4. CASE WriteTronKey(c)
    BY <2>1, <2>4 DEF WriteTronKey, sweepVars
  <2> QED
    BY <1>1, <2>2, <2>3, <2>4, Zenon DEF HandleHDWalletConfig, SaveStep, SaveFails, WriteBscKey
<1>2. CASE HandleHDWalletSync(c) \/ HandleHDWalletSweepExecute(c)
  <2>1. "load" \in Labels \ {"record"} /\ "begin" \in Labels \ {"record"} /\ "addresses" \in Labels \ {"record"}
    BY DEF Labels, Working
  <2>2. CASE StartSync(c)
    BY <2>1, <2>2 DEF StartSync, sweepVars
  <2>3. CASE Preview(c)
    BY <2>1, <2>3 DEF Preview
  <2>4. CASE StartSweep(c)
    BY <2>1, <2>4 DEF StartSweep
  <2> QED
    BY <1>2, <2>2, <2>3, <2>4 DEF HandleHDWalletSync, HandleHDWalletSweepExecute
<1>3. CASE Collect(c)
  <2>1. "send" \in Labels \ {"record"}
    BY DEF Labels, Working
  <2>2. CASE ExamineTron(c) \/ ExamineBsc(c)
    BY <2>1, <2>2 DEF ExamineTron, ExamineBsc, GoOnOrSkip
  <2>3. CASE SendTron(c) \/ SendBsc(c)
    BY <2>3 DEF SendTron, SendBsc
  <2>4. CASE Record(c) \/ CollectFails(c)
    BY <2>4 DEF Record, CollectFails
  <2> QED
    BY <1>3, <2>2, <2>3, <2>4 DEF Collect, CollectTronUSDT, CollectBSCUSDT
<1>4. CASE LoadConfig(c) \/ SyncTron(c) \/ LoadAddresses(c)
  <2>1. "tron" \in Labels \ {"record"} /\ "bsc" \in Labels \ {"record"} /\ "examine" \in Labels \ {"record"}
    BY DEF Labels, Working
  <2>2. CASE LoadConfig(c)
    BY <2>1, <2>2 DEF LoadConfig, sweepVars
  <2>3. CASE SyncTron(c)
    BY <2>1, <2>3 DEF SyncTron, sweepVars
  <2>4. CASE LoadAddresses(c)
    BY <2>1, <2>4 DEF LoadAddresses
  <2> QED
    BY <1>4, <2>2, <2>3, <2>4
<1>5. CASE SyncBsc(c) \/ EndSweep(c) \/ JobFails(c)
  BY <1>5, Zenon DEF SyncBsc, EndSweep, JobFails
<1> QED
  BY <1>1, <1>2, <1>3, <1>4, <1>5, Zenon DEF ClientStep, JobStep

LEMMA ReportStep ==
    ASSUME PlaceInv, NEW c \in Clients, Report(c), ClientStep(c)
    PROVE  Report(c)'
<1>1. TypeOK /\ Place(c) /\ pc \in [Clients -> Labels] /\ tally[c] \in Tallies
  BY DEF PlaceInv, TypeOK, Labels, Tallies
<1>2. tally[c].good \in Nat /\ tally[c].failed \in Nat /\ tally[c].sent \in Nat
  BY <1>1 DEF Tallies
<1>3. CASE Idle(c)
  BY <1>1, <1>3, IdlePlace DEF Report, Pending, NoTally
<1>4. CASE UNCHANGED tally /\ pc[c] # "record" /\ \E l \in Labels \ {"record"} : Goto(c, l)
  <2>1. pc'[c] # "record"
    BY <1>1, <1>4 DEF Goto
  <2> QED
    BY <1>4, <2>1 DEF Report, Pending
<1>5. ASSUME NEW outcome \in {"good", "failed", "skipped"}, Conclude(c, outcome),
             outcome = "good" => pc[c] = "record", outcome = "skipped" => pc[c] # "record",
             pc[c] \in AtAddress, UNCHANGED <<tag, eligible>>
      PROVE  Report(c)'
  <2>1. tag[c] \in Tags
    BY <1>1, <1>5 DEF Place, WithTag
  <2>2. pc'[c] # "record" /\ tally'[c] = [tally[c] EXCEPT ![outcome] = @ + 1]
    BY <1>1, <1>5, <2>1, ConcludePlace
  <2>3. /\ tally'[c].good = IF outcome = "good" THEN tally[c].good + 1 ELSE tally[c].good
        /\ tally'[c].failed = IF outcome = "failed" THEN tally[c].failed + 1 ELSE tally[c].failed
        /\ tally'[c].sent = tally[c].sent
    BY <1>1, <2>2 DEF Tallies
  <2> QED
    BY <1>2, <1>5, <2>2, <2>3 DEF Report, Pending
<1>6. ASSUME Sent(c), pc[c] = "send", UNCHANGED <<tag, eligible>>
      PROVE  Report(c)'
  <2>1. tag[c] \in Tags /\ todo[c] # {}
    BY <1>1, <1>6 DEF Place, AtAddress, WithTag
  <2>2. \/ pc'[c] = "record" /\ tally'[c] = [tally[c] EXCEPT !.sent = @ + 1]
        \/ pc'[c] # "record" /\ tally'[c] = [tally[c] EXCEPT !.sent = @ + 1, !.failed = @ + 1]
    BY <1>1, <1>6, <2>1, SentPlace
  <2>3. CASE pc'[c] = "record" /\ tally'[c] = [tally[c] EXCEPT !.sent = @ + 1]
    <3>1. tally'[c].good = tally[c].good /\ tally'[c].failed = tally[c].failed /\ tally'[c].sent = tally[c].sent + 1
      BY <1>1, <2>3 DEF Tallies
    <3> QED
      BY <1>2, <1>6, <2>3, <3>1 DEF Report, Pending
  <2>4. CASE pc'[c] # "record" /\ tally'[c] = [tally[c] EXCEPT !.sent = @ + 1, !.failed = @ + 1]
    <3>1. tally'[c].good = tally[c].good /\ tally'[c].failed = tally[c].failed + 1 /\ tally'[c].sent = tally[c].sent + 1
      BY <1>1, <2>4 DEF Tallies
    <3> QED
      BY <1>2, <1>6, <2>4, <3>1 DEF Report, Pending
  <2> QED
    BY <2>2, <2>3, <2>4
<1>7. Collect(c) => pc[c] \in AtAddress /\ UNCHANGED <<tag, eligible>>
  BY Zenon DEF Collect, CollectTronUSDT, CollectBSCUSDT, ExamineTron, ExamineBsc, SendTron,
               SendBsc, Record, CollectFails, AtAddress
<1>8. Collect(c) \/ Idle(c) \/ UNCHANGED tally
  BY Zenon DEF ClientStep, HandleHDWalletConfig, Save, SaveStep, WriteConfig,
     WriteTronKey, WriteBscKey, SaveFails, HandleHDWalletSync, StartSync,
     HandleHDWalletSweepExecute, Preview, StartSweep, JobStep, LoadConfig, SyncTron, SyncBsc,
     LoadAddresses, EndSweep, JobFails, sweepVars
<1>9. CASE Collect(c)
  BY <1>3, <1>4, <1>5, <1>6, <1>7, <1>9, TallyUse, Zenon
<1>10. CASE UNCHANGED tally
  <2>1. tally'[c] = tally[c]
    BY <1>10
  <2>2. ~Conclude(c, "good") /\ ~Conclude(c, "failed") /\ ~Conclude(c, "skipped") /\ ~Sent(c)
    <3>1. tally \in [Clients -> Tallies]
      BY <1>1 DEF TypeOK, Tallies
    <3>2. ASSUME NEW outcome \in {"good", "failed", "skipped"}
          PROVE  ~Conclude(c, outcome)
      <4>1. tally[c][outcome] \in Nat
        BY <1>1 DEF Tallies
      <4>2. [tally EXCEPT ![c][outcome] = @ + 1][c][outcome] = tally[c][outcome] + 1
        BY <1>1, <3>1 DEF Tallies
      <4> QED
        BY <1>10, <4>1, <4>2 DEF Conclude
    <3>3. [tally EXCEPT ![c].sent = @ + 1][c].sent = tally[c].sent + 1
      BY <1>1, <3>1 DEF Tallies
    <3>4. [tally EXCEPT ![c].sent = @ + 1, ![c].failed = @ + 1][c].sent = tally[c].sent + 1
      BY <1>1, <3>1 DEF Tallies
    <3>5. tally[c].sent + 1 # tally[c].sent
      BY <1>2
    <3>6. ~Sent(c)
      BY <1>10, <3>3, <3>4, <3>5, Zenon DEF Sent
    <3> QED
      BY <3>2, <3>6
  <2> QED
    BY <1>3, <1>4, <2>2, TallyUse, Zenon
<1> QED
  BY <1>3, <1>8, <1>9, <1>10

LEMMA ReportKept ==
    PlaceInv /\ (\A c \in Clients : Report(c)) /\ [Next]_vars => (\A c \in Clients : Report(c))'
<1> SUFFICES ASSUME PlaceInv, \A c \in Clients : Report(c), [Next]_vars, NEW d \in Clients
             PROVE  Report(d)'
  OBVIOUS
<1>1. ASSUME NEW c \in Clients, ClientStep(c) PROVE Report(d)'
  <2>1. CASE d = c
    BY <1>1, <2>1, ReportStep
  <2>2. CASE d # c
    <3>1. tally'[d] = tally[d] /\ pc'[d] = pc[d]
      BY <1>1, <2>2, ClientMoves, MovesApart, Zenon DEF PlaceInv
    <3> QED
      BY <3>1 DEF Report, Pending
  <2> QED
    BY <2>1, <2>2
<1>2. CASE Mine \/ UNCHANGED vars
  <2>1. UNCHANGED <<pc, tally>>
    BY <1>2 DEF Mine, vars, sweepVars
  <2> QED
    BY <2>1 DEF Report, Pending
<1> QED
  BY <1>1, <1>2 DEF Next, ClientStep

(* For any number of sweeps one after another, of addresses and of faults: *)
(* what a sweep counts as collected was sent, and what it counts as        *)
(* skipped was not (runSweepFromDB, collectTronUSDT, collectBSCUSDT).      *)
THEOREM SweepReportsTruly == Spec => []ReportIsTrue
<1>1. Spec => [](\A c \in Clients : Report(c))
  BY PlaceAlways, ReportInit, ReportKept, PTL DEF Spec
<1>2. PlaceInv /\ (\A c \in Clients : Report(c)) => ReportIsTrue
  <2> SUFFICES ASSUME PlaceInv, NEW c \in Clients, Report(c)
               PROVE  /\ tally[c].good <= tally[c].sent
                      /\ tally[c].sent <= tally[c].good + tally[c].failed + IF pc[c] = "record" THEN 1 ELSE 0
    BY DEF ReportIsTrue
  <2>1. tally[c].good \in Nat /\ tally[c].failed \in Nat /\ tally[c].sent \in Nat
    BY DEF PlaceInv, TypeOK
  <2> QED
    BY <2>1 DEF Report, Pending
<1> QED
  BY <1>1, <1>2, PlaceAlways, PTL

-----------------------------------------------------------------------------
(* No second transfer.  The address was found free, and from then on the   *)
(* one at work is the only one who could send from it.                     *)

FreeToSend ==
    chain = "bsc" =>
        /\ twice = {}
        /\ \A c \in Clients : pc[c] = "send" => Address(c) \notin pool

LEMMA FreeInit == Init => FreeToSend
  BY DEF Init, FreeToSend

\* Who goes to "send" has just examined the address.
LEMMA SendAfterLook ==
    ASSUME PlaceInv, chain = "bsc", NEW c \in Clients, ClientStep(c), pc'[c] = "send"
    PROVE  Address(c) \notin pool /\ UNCHANGED <<todo, tag, pool, twice>>
<1>1. TypeOK /\ Place(c) /\ pc \in [Clients -> Labels]
  BY DEF PlaceInv, TypeOK, Labels
<1>2. ~Idle(c)
  BY <1>1, IdlePlace
<1>3. \A l \in Labels : Goto(c, l) => l = "send"
  BY <1>1 DEF Goto
<1>4. Collect(c)
  <2>1. /\ ~Goto(c, "config") /\ ~Goto(c, "keyTron") /\ ~Goto(c, "keyBsc") /\ ~Goto(c, "load")
        /\ ~Goto(c, "begin") /\ ~Goto(c, "addresses") /\ ~Goto(c, "tron") /\ ~Goto(c, "bsc")
    BY <1>1 DEF Goto
  <2>2. LoadAddresses(c) => Idle(c) \/ Goto(c, "examine")
    BY Zenon DEF LoadAddresses
  <2>3. ~Goto(c, "examine")
    BY <1>1 DEF Goto
  <2> QED
    BY <1>2, <2>1, <2>2, <2>3, Zenon DEF ClientStep, HandleHDWalletConfig, Save, SaveStep, WriteConfig,
       WriteTronKey, WriteBscKey, SaveFails, HandleHDWalletSync, StartSync,
       HandleHDWalletSweepExecute, Preview, StartSweep, JobStep, LoadConfig, SyncTron, SyncBsc,
       EndSweep, JobFails
<1>5. ASSUME NEW outcome \in {"good", "failed", "skipped"}
      PROVE  ~Conclude(c, outcome)
  BY <1>1, Zenon DEF Conclude, Goto, Labels, Working
<1>6. ~Sent(c)
  BY <1>1, Zenon DEF Sent, Goto, Labels, Working
<1>7. ExamineBsc(c) /\ NothingPending(c) /\ Goto(c, "send") /\ UNCHANGED <<todo, tag, pool, twice>>
  <2>1. ExamineBsc(c)
    BY <1>4, <1>5, <1>6, Zenon DEF Collect, CollectTronUSDT, CollectBSCUSDT, ExamineTron,
       SendTron, SendBsc, Record, CollectFails
  <2>2. NothingPending(c) /\ Goto(c, "send") /\ UNCHANGED <<job, todo, tally>>
    BY <1>5, <2>1, Zenon DEF ExamineBsc, GoOnOrSkip
  <2> QED
    BY <2>1, <2>2 DEF ExamineBsc, chainVars
<1> QED
  BY <1>7 DEF NothingPending

LEMMA FreeStep == PlaceInv /\ SlotInv /\ FreeToSend /\ [Next]_vars => FreeToSend'
<1> SUFFICES ASSUME PlaceInv, SlotInv, FreeToSend, [Next]_vars PROVE FreeToSend'
  OBVIOUS
<1>1. ASSUME NEW c \in Clients, ClientStep(c) PROVE FreeToSend'
  <2>1. SUFFICES ASSUME chain' = "bsc"
                 PROVE  twice' = {} /\ \A d \in Clients : pc'[d] = "send" => Address(d)' \notin pool'
    BY DEF FreeToSend
  <2>2. UNCHANGED chain
    BY <1>1, PoolType
  <2>3. twice = {} /\ \A d \in Clients : pc[d] = "send" => Address(d) \notin pool
    BY <2>1, <2>2 DEF FreeToSend
  <2>4. ASSUME NEW d \in Clients, d # c PROVE Address(d)' = Address(d) /\ pc'[d] = pc[d]
    BY <1>1, <2>4, ClientMoves, MovesApart, Zenon DEF PlaceInv, Address
  <2>5. pc'[c] = "send" => Address(c)' \notin pool'
    BY <1>1, <2>1, <2>2, SendAfterLook, Zenon DEF Address
  <2>6. CASE UNCHANGED <<pool, twice>>
    BY <2>3, <2>4, <2>5, <2>6, Zenon
  <2>7. CASE SendBsc(c) /\ pool' = pool \cup {Address(c)}
    <3>1. pc[c] = "send" /\ Address(c) \notin pool
      BY <2>3, <2>7 DEF SendBsc
    <3>2. twice' = {}
      BY <2>3, <2>7, <3>1, Zenon DEF SendBsc
    <3>3. ASSUME NEW d \in Clients, pc'[d] = "send", d # c PROVE FALSE
      <4>1. AtWork(c) /\ AtWork(d)
        BY <2>4, <3>1, <3>3 DEF AtWork, Working
      <4> QED
        BY <3>3, <4>1, Zenon DEF SlotInv
    <3> QED
      BY <2>5, <3>2, <3>3
  <2>8. \/ UNCHANGED <<pool, twice>>
        \/ SendBsc(c) /\ pool' = pool \cup {Address(c)}
    BY <1>1, Zenon DEF ClientStep, HandleHDWalletConfig, Save, SaveStep, WriteConfig,
       WriteTronKey, WriteBscKey, SaveFails, HandleHDWalletSync, StartSync,
       HandleHDWalletSweepExecute, Preview, StartSweep, JobStep, LoadConfig, SyncTron, SyncBsc,
       LoadAddresses, Collect, CollectTronUSDT, CollectBSCUSDT, ExamineTron, ExamineBsc, SendTron,
       SendBsc, Record, CollectFails, EndSweep, JobFails, chainVars
  <2> QED
    BY <2>6, <2>7, <2>8
<1>2. CASE Mine
  <2>1. pool' \subseteq pool /\ UNCHANGED <<pc, tag, todo, chain, twice>>
    BY <1>2 DEF Mine, sweepVars
  <2>2. \A c \in Clients : Address(c)' = Address(c)
    BY <2>1, Zenon DEF Address
  <2> QED
    BY <2>1, <2>2, Zenon DEF FreeToSend
<1>3. CASE UNCHANGED vars
  <2>1. UNCHANGED <<pc, tag, todo, chain, twice, pool>>
    BY <1>3 DEF vars, sweepVars, chainVars
  <2>2. \A c \in Clients : Address(c)' = Address(c)
    BY <2>1, Zenon DEF Address
  <2> QED
    BY <2>1, <2>2, Zenon DEF FreeToSend
<1> QED
  BY <1>1, <1>2, <1>3 DEF Next, ClientStep

(* However many sweeps are asked for, and whatever was previewed, a BSC    *)
(* address is not sent from again before its transfer is mined: no other   *)
(* job can send between the look at the nonces and the transfer            *)
(* (collectBSCUSDT under the slot of StartSweep).                          *)
THEOREM OneTransferAtATime == Spec => []NoSecondTransfer
<1>1. Spec => []FreeToSend
  BY PlaceAlways, SlotAlways, FreeInit, FreeStep, PTL DEF Spec
<1>2. FreeToSend => NoSecondTransfer
  BY DEF FreeToSend, NoSecondTransfer
<1> QED
  BY <1>1, <1>2, PTL

-----------------------------------------------------------------------------
(* Mnemonics are never forgotten, and the setting that names one is        *)
(* written only on the way to storing it.                                  *)

Covered(k, t) ==
    \/ t \in keys[k]
    \/ t \in failed
    \/ \E c \in Clients : pc[c] \in {"keyTron", "keyBsc"} /\ tag[c] = t

KeptInv ==
    \A k \in Chains :
        /\ config # NoTag => Covered(k, config)
        /\ \A c \in Clients : pc[c] \in {"tron", "bsc"} => Covered(k, tag[c])
        /\ \A t \in Tags : rows[k][t] # {} => Covered(k, t)
        /\ \A c \in Clients : pc[c] = "keyBsc" => tag[c] \in keys["tron"]

LEMMA KeptInit == Init => KeptInv
<1> SUFFICES ASSUME Init PROVE KeptInv
  OBVIOUS
<1>1. config = NoTag /\ rows = [k \in Chains |-> [t \in Tags |-> {}]] /\ pc = [c \in Clients |-> "idle"]
  BY DEF Init
<1> QED
  BY <1>1 DEF KeptInv

LEMMA SavesApart ==
    ASSUME PlaceInv, NEW c \in Clients, ClientStep(c)
    PROVE  \/ UNCHANGED savedVars /\ pc[c] \notin {"keyTron", "keyBsc"}
              /\ pc'[c] \notin {"keyTron", "keyBsc"}
           \/ SaveStep(c)
<1>1. TypeOK /\ pc \in [Clients -> Labels]
  BY DEF PlaceInv, TypeOK, Labels
<1>2. CASE Save(c)
  BY <1>1, <1>2 DEF Save, Goto
<1>3. CASE HandleHDWalletSync(c) \/ HandleHDWalletSweepExecute(c)
  <2>1. UNCHANGED savedVars /\ pc[c] \in {"idle", "begin"}
    BY <1>3, Zenon DEF HandleHDWalletSync, HandleHDWalletSweepExecute, StartSync, Preview, StartSweep
  <2>2. Idle(c) \/ Goto(c, "load") \/ Goto(c, "begin") \/ Goto(c, "addresses")
    BY <1>3, Zenon DEF HandleHDWalletSync, HandleHDWalletSweepExecute, StartSync, Preview, StartSweep
  <2> QED
    BY <1>1, <2>1, <2>2 DEF Idle, Goto
<1>4. CASE JobStep(c)
  <2>1. UNCHANGED savedVars
    BY <1>4, Zenon DEF JobStep, LoadConfig, SyncTron, SyncBsc, LoadAddresses, EndSweep, JobFails, Collect,
       CollectTronUSDT, CollectBSCUSDT, ExamineTron, ExamineBsc, SendTron, SendBsc, Record, CollectFails
  <2>2. AtWork(c)
    BY <1>4, Zenon DEF JobStep, LoadConfig, SyncTron, SyncBsc, LoadAddresses, EndSweep, JobFails, Collect,
       CollectTronUSDT, CollectBSCUSDT, ExamineTron, ExamineBsc, SendTron, SendBsc, Record, CollectFails,
       AtWork, Working
  <2>3. Idle(c) \/ \E l \in {"tron", "bsc", "examine", "send", "record", "end"} : Goto(c, l)
    BY <1>4, Zenon DEF JobStep, LoadConfig, SyncTron, SyncBsc, LoadAddresses, EndSweep, JobFails, Collect,
       CollectTronUSDT, CollectBSCUSDT, ExamineTron, ExamineBsc, SendTron, SendBsc, Record, CollectFails,
       GoOnOrSkip, Conclude, Sent
  <2> QED
    BY <1>1, <2>1, <2>2, <2>3 DEF AtWork, Working, Idle, Goto
<1> QED
  BY <1>2, <1>3, <1>4 DEF ClientStep, HandleHDWalletConfig

\* What is covered once stays covered.
LEMMA CoveredStays ==
    ASSUME PlaceInv, KeptInv, NEW c \in Clients, ClientStep(c), NEW k \in Chains, NEW t, Covered(k, t)
    PROVE  Covered(k, t)'
<1>1. /\ TypeOK /\ pc \in [Clients -> Labels] /\ keys \in [Chains -> SUBSET Tags]
      /\ "tron" \in Chains /\ "bsc" \in Chains /\ Chains = {"tron", "bsc"}
  BY DEF PlaceInv, TypeOK, Labels, Chains
<1>2. \A d \in Clients : d # c => pc'[d] = pc[d] /\ tag'[d] = tag[d]
  BY <1>1, ClientMoves, MovesApart, Zenon
<1>3. CASE \E d \in Clients : d # c /\ pc[d] \in {"keyTron", "keyBsc"} /\ tag[d] = t
  BY <1>2, <1>3, Zenon DEF Covered
<1>4. keys[k] \subseteq keys'[k] /\ failed \subseteq failed'
  <2>1. \/ UNCHANGED keys
        \/ \E j \in Chains : keys' = [keys EXCEPT ![j] = @ \cup {tag[c]}]
    BY <1>1, SavesApart, Zenon DEF savedVars, SaveStep, WriteConfig, WriteTronKey, WriteBscKey, SaveFails
  <2>2. failed \subseteq failed'
    BY SavesApart, Zenon DEF savedVars, SaveStep, WriteConfig, WriteTronKey, WriteBscKey, SaveFails
  <2>3. keys[k] \subseteq keys'[k]
    BY <1>1, <2>1
  <2> QED
    BY <2>2, <2>3
<1>5. CASE t \in keys[k] \/ t \in failed
  BY <1>4, <1>5, Zenon DEF Covered
<1>6. CASE pc[c] \in {"keyTron", "keyBsc"} /\ tag[c] = t
  <2>1. SaveStep(c)
    BY <1>6, SavesApart
  <2>2. CASE SaveFails(c)
    BY <1>6, <2>2, Zenon DEF SaveFails, Covered
  <2>3. CASE WriteTronKey(c)
    <3>1. pc'[c] = "keyBsc" /\ tag'[c] = t
      BY <1>1, <1>6, <2>3 DEF WriteTronKey, Goto
    <3> QED
      BY <3>1, Zenon DEF Covered
  <2>4. CASE WriteBscKey(c)
    <3>1. t \in keys["tron"]
      BY <1>1, <1>6, <2>4, Zenon DEF WriteBscKey, KeptInv
    <3>2. keys' = [keys EXCEPT !["bsc"] = @ \cup {t}]
      BY <1>6, <2>4, Zenon DEF WriteBscKey
    <3>3. t \in keys'[k]
      BY <1>1, <3>1, <3>2
    <3> QED
      BY <3>3, Zenon DEF Covered
  <2>5. ~WriteConfig(c)
    BY <1>6 DEF WriteConfig
  <2> QED
    BY <2>1, <2>2, <2>3, <2>4, <2>5, Zenon DEF SaveStep
<1> QED
  BY <1>3, <1>5, <1>6, Zenon DEF Covered

\* Rows are added of the tag that is being derived alone.
LEMMA NewRows ==
    ASSUME PlaceInv, NEW c \in Clients, ClientStep(c), NEW k \in Chains, NEW t \in Tags,
           rows'[k][t] # {}
    PROVE  rows[k][t] # {} \/ (pc[c] \in {"tron", "bsc"} /\ tag[c] = t)
<1>1. rows \in [Chains -> [Tags -> SUBSET Indexes]] /\ Place(c)
  BY DEF PlaceInv, TypeOK
<1>2. CASE UNCHANGED rows
  BY <1>2
<1>3. CASE SyncTron(c) \/ SyncBsc(c)
  <2>1. PICK j \in Chains, new \in SUBSET Indexes : rows' = [rows EXCEPT ![j][tag[c]] = @ \cup new]
    BY <1>3, MissingIndexes, Zenon DEF SyncTron, SyncBsc, InsertTronRows, InsertBscRows, Chains
  <2>2. tag[c] \in Tags /\ pc[c] \in {"tron", "bsc"}
    BY <1>1, <1>3 DEF SyncTron, SyncBsc, Place, WithTag
  <2>3. tag[c] # t => rows'[k][t] = rows[k][t]
    BY <1>1, <2>1, <2>2
  <2> QED
    BY <2>2, <2>3
<1> QED
  BY <1>2, <1>3, Zenon DEF ClientStep, HandleHDWalletConfig, Save, SaveStep, WriteConfig,
     WriteTronKey, WriteBscKey, SaveFails, HandleHDWalletSync, StartSync,
     HandleHDWalletSweepExecute, Preview, StartSweep, JobStep, LoadConfig,
     LoadAddresses, Collect, CollectTronUSDT, CollectBSCUSDT, ExamineTron, ExamineBsc, SendTron,
     SendBsc, Record, CollectFails, EndSweep, JobFails

\* The setting changes, and a derivation begins, as follows.
LEMMA NewTags ==
    ASSUME PlaceInv, NEW c \in Clients, ClientStep(c)
    PROVE  /\ UNCHANGED config \/ (pc'[c] = "keyTron" /\ config' = tag'[c])
           /\ pc'[c] \in {"tron", "bsc"} =>
                 \/ config # NoTag /\ tag'[c] = config
                 \/ pc[c] \in {"tron", "bsc"} /\ tag'[c] = tag[c]
           /\ pc'[c] = "keyBsc" => tag'[c] \in keys'["tron"]
<1>1. /\ TypeOK /\ pc \in [Clients -> Labels] /\ tag \in [Clients -> Tags \cup {NoTag}]
      /\ keys \in [Chains -> SUBSET Tags] /\ "tron" \in Chains
  BY DEF PlaceInv, TypeOK, Labels, Chains
<1>2. UNCHANGED config \/ (pc'[c] = "keyTron" /\ config' = tag'[c])
  <2>1. UNCHANGED config \/ WriteConfig(c)
    BY SavesApart, Zenon DEF savedVars, SaveStep, WriteTronKey, WriteBscKey, SaveFails
  <2>2. CASE WriteConfig(c)
    BY <1>1, <2>2 DEF WriteConfig, Goto
  <2> QED
    BY <2>1, <2>2
<1>3. pc'[c] = "keyBsc" => tag'[c] \in keys'["tron"]
  <2>1. SUFFICES ASSUME pc'[c] = "keyBsc" PROVE tag'[c] \in keys'["tron"]
    OBVIOUS
  <2>2. SaveStep(c)
    BY <2>1, SavesApart
  <2>3. ~Idle(c) /\ ~Goto(c, "keyTron")
    BY <1>1, <2>1 DEF Idle, Goto
  <2>4. WriteTronKey(c)
    BY <2>2, <2>3, Zenon DEF SaveStep, WriteConfig, WriteBscKey, SaveFails
  <2> QED
    BY <1>1, <2>4 DEF WriteTronKey
<1>4. ASSUME pc'[c] \in {"tron", "bsc"}
      PROVE  \/ config # NoTag /\ tag'[c] = config
             \/ pc[c] \in {"tron", "bsc"} /\ tag'[c] = tag[c]
  <2>1. /\ ~Idle(c) /\ ~Goto(c, "config") /\ ~Goto(c, "keyTron") /\ ~Goto(c, "keyBsc") /\ ~Goto(c, "load")
        /\ ~Goto(c, "begin") /\ ~Goto(c, "addresses") /\ ~Goto(c, "examine") /\ ~Goto(c, "send")
        /\ ~Goto(c, "record") /\ ~Goto(c, "end")
    BY <1>1, <1>4 DEF Idle, Goto
  <2>2. ~Sent(c) /\ \A outcome : ~Conclude(c, outcome)
    BY <2>1, Zenon DEF Sent, Conclude
  <2>3. LoadConfig(c) \/ SyncTron(c)
    BY <2>1, <2>2, Zenon DEF ClientStep, HandleHDWalletConfig, Save, SaveStep, WriteConfig,
     WriteTronKey, WriteBscKey, SaveFails, HandleHDWalletSync, StartSync,
     HandleHDWalletSweepExecute, Preview, StartSweep, JobStep, SyncBsc,
     LoadAddresses, Collect, CollectTronUSDT, CollectBSCUSDT, ExamineTron, ExamineBsc, SendTron,
     SendBsc, Record, CollectFails, EndSweep, JobFails, GoOnOrSkip
  <2>4. CASE LoadConfig(c)
    BY <1>1, <2>4 DEF LoadConfig, ConfigFromDB
  <2>5. CASE SyncTron(c)
    BY <1>1, <2>5 DEF SyncTron
  <2> QED
    BY <2>3, <2>4, <2>5
<1> QED
  BY <1>2, <1>3, <1>4

LEMMA KeptStep == PlaceInv /\ KeptInv /\ [Next]_vars => KeptInv'
<1> SUFFICES ASSUME PlaceInv, KeptInv, [Next]_vars PROVE KeptInv'
  OBVIOUS
<1>1. ASSUME NEW c \in Clients, ClientStep(c) PROVE KeptInv'
  <2>1. \A k \in Chains : \A t : Covered(k, t) => Covered(k, t)'
    BY <1>1, CoveredStays
  <2>2. \A d \in Clients : d # c => pc'[d] = pc[d] /\ tag'[d] = tag[d]
    BY <1>1, ClientMoves, MovesApart, Zenon DEF PlaceInv
  <2>3. ASSUME NEW k \in Chains, NEW t, t = config', t # NoTag PROVE Covered(k, t)'
    <3>1. CASE UNCHANGED config
      BY <2>1, <2>3, <3>1, Zenon DEF KeptInv
    <3>2. CASE pc'[c] = "keyTron" /\ config' = tag'[c]
      BY <2>3, <3>2, Zenon DEF Covered
    <3> QED
      BY <1>1, <3>1, <3>2, NewTags
  <2>4. ASSUME NEW k \in Chains, NEW d \in Clients, NEW t, t = tag'[d], pc'[d] \in {"tron", "bsc"}
        PROVE  Covered(k, t)'
    <3>1. CASE pc[d] \in {"tron", "bsc"} /\ tag'[d] = tag[d]
      BY <2>1, <2>4, <3>1, Zenon DEF KeptInv
    <3>2. CASE config # NoTag /\ tag'[d] = config
      BY <2>1, <2>4, <3>2, Zenon DEF KeptInv
    <3> QED
      BY <1>1, <2>2, <2>4, <3>1, <3>2, NewTags
  <2>5. ASSUME NEW k \in Chains, NEW t \in Tags, rows'[k][t] # {} PROVE Covered(k, t)'
    <3>1. rows[k][t] # {} \/ (pc[c] \in {"tron", "bsc"} /\ tag[c] = t)
      BY <1>1, <2>5, NewRows
    <3>2. Covered(k, t)
      BY <3>1, Zenon DEF KeptInv
    <3> QED
      BY <2>1, <3>2
  <2>6. ASSUME NEW d \in Clients, pc'[d] = "keyBsc" PROVE tag'[d] \in keys'["tron"]
    <3>1. CASE d = c
      BY <1>1, <2>6, <3>1, NewTags
    <3>2. CASE d # c
      <4>1. tag[d] \in keys["tron"] /\ tag'[d] = tag[d]
        BY <2>2, <2>6, <3>2, Zenon DEF KeptInv, Chains
      <4>2. keys["tron"] \subseteq keys'["tron"]
        <5>1. keys \in [Chains -> SUBSET Tags] /\ "tron" \in Chains
          BY DEF PlaceInv, TypeOK, Chains
        <5>2. UNCHANGED keys \/ \E j \in Chains : keys' = [keys EXCEPT ![j] = @ \cup {tag[c]}]
          BY <1>1, SavesApart, Zenon DEF savedVars, SaveStep, WriteConfig, WriteTronKey, WriteBscKey,
                                         SaveFails, Chains
        <5> QED
          BY <5>1, <5>2
      <4> QED
        BY <4>1, <4>2
    <3> QED
      BY <3>1, <3>2
  <2>7. (\A k \in Chains : config # NoTag => Covered(k, config))'
    BY <2>3, Zenon DEF Covered
  <2>8. (\A k \in Chains : \A d \in Clients : pc[d] \in {"tron", "bsc"} => Covered(k, tag[d]))'
    <3>1. ASSUME NEW k \in Chains, NEW d \in Clients, pc'[d] \in {"tron", "bsc"}
          PROVE  Covered(k, tag[d])'
      <4>1. PICK t : t = tag'[d]
        OBVIOUS
      <4>2. Covered(k, t)'
        BY <2>4, <3>1, <4>1
      <4> QED
        BY <4>1, <4>2 DEF Covered
    <3> QED
      BY <3>1
  <2>9. (\A k \in Chains : \A t \in Tags : rows[k][t] # {} => Covered(k, t))'
    BY <2>5
  <2>10. (\A k \in Chains : \A d \in Clients : pc[d] = "keyBsc" => tag[d] \in keys["tron"])'
    BY <2>6
  <2> QED
    BY <2>7, <2>8, <2>9, <2>10, Zenon DEF KeptInv
<1>2. CASE Mine \/ UNCHANGED vars
  <2>1. UNCHANGED <<config, keys, failed, rows, pc, tag>>
    BY <1>2 DEF Mine, vars, savedVars
  <2> QED
    BY <2>1, Zenon DEF KeptInv, Covered
<1> QED
  BY <1>1, <1>2 DEF Next, ClientStep

(* The mnemonic of every derived address can be read back by its tag, for  *)
(* any number of mnemonics saved and derived from one after another, by    *)
(* any number of clients, with any calls failing (SaveConfig, runFullSync).*)
THEOREM KeysStay == Spec => []KeysAreKept
<1>1. Spec => []KeptInv
  BY PlaceAlways, KeptInit, KeptStep, PTL DEF Spec
<1>2. KeptInv => KeysAreKept
  BY Zenon DEF KeptInv, KeysAreKept, Covered
<1> QED
  BY <1>1, <1>2, PTL
=============================================================================
