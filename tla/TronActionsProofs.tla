-------------------------- MODULE TronActionsProofs --------------------------
(***************************************************************************)
(* What TronActions guarantees for any number of requests, jobs, addresses *)
(* and faults, any length of the queue and any settings.                   *)
(***************************************************************************)
EXTENDS TronActions, FiniteSetTheorems, TLAPS

-----------------------------------------------------------------------------
(* The hours of a rule.                                                    *)

\* What the code's comparisons select is the walk round the clock from the
\* start to the end, midnight written 24 included.
LEMMA HourRange ==
    ASSUME NEW h \in Hours, NEW start \in 0 .. 24, NEW end \in 0 .. 24
    PROVE  InHourRange(h, start, end) <=> h \in Window(start, end)
<1> DEFINE from == start % 24
           to == IF end = 24 THEN 23 ELSE end
<1>1. from \in 0 .. 23 /\ to \in 0 .. 23 /\ from = IF start = 24 THEN 0 ELSE start
  BY SMT
<1>2. InHourRange(h, start, end) <=>
        IF from <= to THEN h \in from .. to ELSE h >= from \/ h <= to
  BY <1>1 DEF InHourRange, RoundTheClock
<1>3. Window(start, end) = {(from + k) % 24 : k \in 0 .. (to - from) % 24}
  BY DEF Window
<1> HIDE DEF from, to
<1>4. CASE from <= to
  <2>1. (to - from) % 24 = to - from
    BY <1>1, <1>4, SMT
  <2>2. \A k \in 0 .. to - from : (from + k) % 24 = from + k
    BY <1>1, <1>4, SMT
  <2>3. h \in from .. to <=> \E k \in 0 .. to - from : h = from + k
    <3>1. h \in from .. to => h - from \in 0 .. to - from /\ h = from + (h - from)
      BY <1>1, <1>4, SMT DEF Hours
    <3>2. \A k \in 0 .. to - from : from + k \in from .. to
      BY <1>1, <1>4, SMT
    <3> QED
      BY <3>1, <3>2
  <2> QED
    BY <1>2, <1>3, <1>4, <2>1, <2>2, <2>3
<1>5. CASE from > to
  <2>1. (to - from) % 24 = to - from + 24
    BY <1>1, <1>5, SMT
  <2>2. \A k \in 0 .. to - from + 24 :
           (from + k) % 24 = IF from + k < 24 THEN from + k ELSE from + k - 24
    BY <1>1, <1>5, SMT
  <2>3. ASSUME NEW k \in 0 .. to - from + 24, h = (from + k) % 24
        PROVE  h >= from \/ h <= to
    BY <1>1, <1>5, <2>2, <2>3, SMT
  <2>4. CASE h >= from
    <3>1. h - from \in 0 .. to - from + 24 /\ h = (from + (h - from)) % 24
      BY <1>1, <1>5, <2>4, SMT DEF Hours
    <3> QED
      BY <1>1, <1>2, <1>3, <1>5, <2>1, <2>4, <3>1
  <2>5. CASE h <= to
    <3>1. h + 24 - from \in 0 .. to - from + 24 /\ h = (from + (h + 24 - from)) % 24
      BY <1>1, <1>5, <2>5, SMT DEF Hours
    <3>2. h \in Window(start, end)
      BY <1>3, <2>1, <3>1, Zenon
    <3>3. InHourRange(h, start, end)
      BY <1>1, <1>2, <1>5, <2>5
    <3> QED
      BY <3>2, <3>3
  <2>6. CASE h < from /\ h > to
    <3>1. h \notin Window(start, end)
      BY <1>1, <1>3, <1>5, <2>1, <2>3, <2>6 DEF Hours
    <3> QED
      BY <1>1, <1>2, <1>5, <2>6, <3>1 DEF Hours
  <2> QED
    BY <1>1, <2>4, <2>5, <2>6 DEF Hours
<1> QED
  BY <1>1, <1>4, <1>5

-----------------------------------------------------------------------------
(* Who an order went to.                                                   *)

Chosen(c) ==
    /\ c.rule \in Settings \cup Defaults /\ c.hour \in Clock
    /\ IsPair(c.rule) => c.provider = ResolveProviderByRule(c.rule, c.hour)

ChoiceInv ==
    /\ choice \in [Orders \cup {Sweep} -> Choices]
    /\ \A o \in Orders \cup {Sweep} : choice[o] # NoChoice => Chosen(choice[o])

LEMMA ChoiceInit == Init => ChoiceInv
<1> SUFFICES ASSUME Init PROVE ChoiceInv
  OBVIOUS
<1>1. choice = [o \in Orders \cup {Sweep} |-> NoChoice]
  BY DEF Init
<1>2. NoChoice \in Choices
  BY DEF Choices
<1> QED
  BY <1>1, <1>2, Zenon DEF ChoiceInv

LEMMA ChoiceMade ==
    ASSUME ChoiceInv, NEW o \in Orders \cup {Sweep}, NEW provider \in Configured,
           NEW rule \in Settings \cup Defaults, NEW hour \in Clock,
           IsPair(rule) => provider = ResolveProviderByRule(rule, hour),
           Choose(o, provider, rule, hour)
    PROVE  ChoiceInv'
<1> DEFINE c == [provider |-> provider, rule |-> rule, hour |-> hour]
<1>1. c \in Choices
  BY Zenon DEF Choices
<1>2. Chosen(c)
  <2>1. c.provider = provider /\ c.rule = rule /\ c.hour = hour
    OBVIOUS
  <2> HIDE DEF c
  <2> QED
    BY <2>1, Zenon DEF Chosen
<1>3. choice' = [choice EXCEPT ![o] = c]
  BY DEF Choose
<1> HIDE DEF c
<1>4. choice' \in [Orders \cup {Sweep} -> Choices]
  BY <1>1, <1>3, Zenon DEF ChoiceInv
<1>5. ASSUME NEW p \in Orders \cup {Sweep}, choice'[p] # NoChoice PROVE Chosen(choice'[p])
  <2>1. choice'[p] = IF p = o THEN c ELSE choice[p]
    BY <1>3, Zenon DEF ChoiceInv
  <2> QED
    BY <1>2, <1>5, <2>1, Zenon DEF ChoiceInv
<1> QED
  BY <1>4, <1>5, Zenon DEF ChoiceInv, Chosen

LEMMA ChoiceStep == ChoiceInv /\ [Next]_vars => ChoiceInv'
<1> SUFFICES ASSUME ChoiceInv, [Next]_vars PROVE ChoiceInv'
  OBVIOUS
<1>1. CASE UNCHANGED choice
  BY <1>1, Zenon DEF ChoiceInv, Chosen
<1>2. CASE \E o \in Orders : Resolve(o)
  <2>1. PICK o \in Orders : Resolve(o)
    BY <1>2
  <2>2. CASE \E hour \in Clock : \E rule \in Settings \cup Defaults :
               LET provider == ResolveProviderByRule(rule, hour) IN
               provider \in Configured /\ Choose(o, provider, rule, hour)
    BY <2>1, <2>2, ChoiceMade
  <2> QED
    BY <1>1, <2>1, <2>2, Zenon DEF Resolve, InForce
<1>3. CASE SweepOrders
  <2>1. PICK hour \in Clock, rule \in Defaults :
           /\ SweepProvider(rule, hour) \in Configured
           /\ Choose(Sweep, SweepProvider(rule, hour), rule, hour)
    BY <1>3 DEF SweepOrders
  <2>2. IsPair(rule) => SweepProvider(rule, hour) = ResolveProviderByRule(rule, hour)
    BY DEF SweepProvider, ResolveProviderByRule
  <2> QED
    BY <2>1, <2>2, ChoiceMade
<1>4. CASE WorkerStep
  <2>1. UNCHANGED choice
    BY <1>4, Zenon DEF WorkerStep, Receive, WorkerEnds, NextAddress, WorkerSends, Count, Pause, Final
  <2> QED
    BY <1>1, <2>1
<1>5. CASE Stop \/ ToolLooks \/ ToolSends \/ ToolPauses \/ SweepActivates \/ SweepGoesOn
  <2>1. UNCHANGED choice
    BY <1>5, Zenon DEF Stop, ToolLooks, ToolSends, ToolPauses, SweepActivates, SweepGoesOn
  <2> QED
    BY <1>1, <2>1
<1>6. CASE \/ \E p \in Singles : ActivateOne(p)
           \/ \E j \in Jobs : Enqueue(j) \/ SetFirstStatus(j)
           \/ \E o \in Orders : OrderEnergy(o)
  <2>1. UNCHANGED choice
    BY <1>6, Zenon DEF ActivateOne, Enqueue, SetFirstStatus, OrderEnergy
  <2> QED
    BY <1>1, <2>1
<1>7. CASE UNCHANGED vars
  BY <1>1, <1>7 DEF vars
<1> QED
  BY <1>2, <1>3, <1>4, <1>5, <1>6, <1>7 DEF Next

(* Every energy order paired with an hour rule goes to the provider of the *)
(* hour it was placed at, for all settings, defaults and hours             *)
(* (resolveEnergyProvider of the dashboard and of the wallet).             *)
THEOREM ProviderIsOfTheHour == Spec => []ProviderOfTheHour
<1>1. ChoiceInv => ProviderOfTheHour
  <2> SUFFICES ASSUME ChoiceInv, NEW o \in Orders \cup {Sweep},
                      choice[o] # NoChoice, IsPair(choice[o].rule)
               PROVE  choice[o].provider = "trxfee"
                        <=> choice[o].hour \in Window(choice[o].rule.start, choice[o].rule.end)
    BY Zenon DEF ProviderOfTheHour
  <2> DEFINE c == choice[o]
  <2>1. Chosen(c)
    BY Zenon DEF ChoiceInv
  <2> HIDE DEF c
  <2>2. c.hour \in Hours
    BY <2>1, ConstantsOK DEF ConstantsOK, Chosen
  <2>3. c.rule.start \in 0 .. 24 /\ c.rule.end \in 0 .. 24
    BY <2>1, ConstantsOK, Zenon DEF ConstantsOK, Chosen, IsRule, c
  <2>4. c.provider = IF InHourRange(c.hour, c.rule.start, c.rule.end) THEN "trxfee" ELSE "catfee"
    BY <2>1, Zenon DEF Chosen, ResolveProviderByRule, c
  <2>5. InHourRange(c.hour, c.rule.start, c.rule.end) <=> c.hour \in Window(c.rule.start, c.rule.end)
    BY <2>2, <2>3, HourRange
  <2> QED
    BY <2>4, <2>5 DEF c
<1> QED
  BY <1>1, ChoiceInit, ChoiceStep, PTL DEF Spec

-----------------------------------------------------------------------------
(* Who has been paid for.  A payer that may still pay for the address it   *)
(* has come to has paid neither for it nor for a later one; a job is on    *)
(* the channel once, and not while the worker has it.                      *)

USE ConstantsOK DEF ConstantsOK, Payers

InQueue(j) == \E i \in 1 .. Len(queue) : queue[i] = j
Waiting(j) == pc[j] = "new" \/ InQueue(j)

Open(p) ==
    \/ p \in Jobs /\ (Waiting(p) \/ (job = p /\ step \in {"item", "send"}))
    \/ p \notin Jobs /\ pc[p] \in {"new", "look", "send", "activate", "energy"}
Ahead(p) ==
    \/ p \in Jobs /\ job = p /\ step \in {"count", "pause", "final"}
    \/ p \notin Jobs /\ pc[p] = "pause"

PaidItems(p) == {i \in Items : paid[p][i] > 0}

Ledger(p) ==
    /\ \A i \in Items : paid[p][i] <= 1
    /\ Open(p) => \A i \in Items : i >= item[p] => paid[p][i] = 0
    /\ Ahead(p) => \A i \in Items : i > item[p] => paid[p][i] = 0
    /\ p \notin Orders \cup {Sweep} => good[p] <= Cardinality(PaidItems(p))

QueueInv ==
    /\ \A i, k \in 1 .. Len(queue) : queue[i] = queue[k] => i = k
    /\ \A j \in Jobs : InQueue(j) => pc[j] # "new" /\ job # j
    /\ \A j \in Jobs : job = j => pc[j] # "new"

Progress(j) ==
    /\ Waiting(j) => item[j] = 1 /\ good[j] = 0 /\ bad[j] = 0 /\ ~status[j].finished
    /\ job = j /\ step \in {"item", "send"} => good[j] + bad[j] + 1 = item[j]
    /\ job = j /\ step \in {"count", "pause", "final"} => good[j] + bad[j] = item[j]
    /\ job = j /\ step = "pause" => item[j] < Total
    /\ job = j /\ step = "final" => item[j] = Total

Shown(j) ==
    /\ status[j].good <= good[j] /\ status[j].bad <= bad[j]
    /\ status[j].finished =>
          job # j /\ (status[j].good + status[j].bad < Total => stopping)

SweepPlace == pc[Sweep] = "activate" => item[Sweep] = 1

Inv ==
    /\ TypeOK /\ QueueInv /\ SweepPlace
    /\ \A p \in Payers : Ledger(p)
    /\ \A j \in Jobs : Progress(j) /\ Shown(j)

LEMMA ItemsOK == /\ IsFiniteSet(Items) /\ Items \subseteq Nat /\ Total \in Items /\ 1 \in Items /\ 2 \in Items
                 /\ \A i \in Items : i < Total => i + 1 \in Items
  BY FS_Interval, SMT DEF Items

LEMMA PaidFinite == \A p : IsFiniteSet(PaidItems(p)) /\ Cardinality(PaidItems(p)) \in Nat
  BY ItemsOK, FS_Subset, FS_CardinalityType DEF PaidItems

LEMMA InvInit == Init => Inv
<1> SUFFICES ASSUME Init PROVE Inv
  OBVIOUS
<1>1. /\ paid = [p \in Payers |-> [i \in Items |-> 0]] /\ item = [p \in Payers |-> 1]
      /\ good = [p \in Payers |-> 0] /\ bad = [p \in Payers |-> 0]
  BY Zenon DEF Init
<1>2. /\ queue = <<>> /\ job = NoJob /\ step = "receive" /\ stopping = FALSE /\ faults = 0
      /\ status = [j \in Jobs |-> NoStatus] /\ choice = [o \in Orders \cup {Sweep} |-> NoChoice]
  BY DEF Init
<1>3. TypeOK
  <2>1. paid \in [Payers -> [Items -> Nat]] /\ good \in [Payers -> Nat] /\ bad \in [Payers -> Nat]
    BY <1>1
  <2>2. item \in [Payers -> Items]
    BY <1>1, ItemsOK
  <2>3. pc \in [Payers -> Labels]
    BY DEF Init, Labels
  <2>4. status \in [Jobs -> Statuses]
    <3>1. NoStatus \in Statuses
      BY 0 \in Nat, Zenon DEF NoStatus, Statuses
    <3> QED
      BY <1>2, <3>1
  <2>5. choice \in [Orders \cup {Sweep} -> Choices]
    BY <1>2, Zenon DEF Choices
  <2>6. queue \in Seq(Jobs) /\ Len(queue) <= QueueSize
    BY <1>2
  <2>7. /\ job \in Jobs \cup {NoJob} /\ step \in Steps /\ (job = NoJob <=> step \in Idle)
        /\ stopping \in BOOLEAN
    BY <1>2 DEF Steps, Idle
  <2>8. faults \in 0 .. MaxFaults
    BY <1>2, MaxFaults \in Nat
  <2> QED
    BY <2>1, <2>2, <2>3, <2>4, <2>5, <2>6, <2>7, <2>8, Zenon DEF TypeOK
<1>4. QueueInv
  BY <1>2 DEF QueueInv, InQueue
<1>5. SweepPlace
  BY <1>1 DEF SweepPlace
<1>6. ASSUME NEW p \in Payers PROVE Ledger(p)
  <2>1. \A i \in Items : paid[p][i] = 0
    BY <1>1
  <2>2. good[p] = 0
    BY <1>1
  <2> QED
    BY <2>1, <2>2, PaidFinite DEF Ledger
<1>7. ASSUME NEW j \in Jobs PROVE Progress(j) /\ Shown(j)
  <2>1. status[j] = NoStatus /\ good[j] = 0 /\ bad[j] = 0 /\ item[j] = 1 /\ job # j
    BY <1>1, <1>2
  <2> QED
    BY <2>1 DEF Progress, Shown, NoStatus
<1> QED
  BY <1>3, <1>4, <1>5, <1>6, <1>7 DEF Inv

-----------------------------------------------------------------------------
(* The books.                                                              *)

Outcome(p) ==
    \/ Take(p) /\ Succeeded(p)
    \/ (Take(p) \/ UNCHANGED paid) /\ Failed(p)
OrderOutcome(p) == (Take(p) \/ UNCHANGED paid) /\ (Succeeded(p) \/ Failed(p))

LEMMA SendOutcome == \A p : SendOneWithLog(p) => Outcome(p)
  BY Zenon DEF SendOneWithLog, BroadcastTransaction, Unsent, Outcome

LEMMA OrderedOutcome == \A p, provider : OrderFrom(provider, p) => OrderOutcome(p)
  BY Zenon DEF OrderFrom, OrderSafe, OrderCatfee, OrderOutcome

LEMMA FaultType == TypeOK /\ (Fault \/ UNCHANGED faults) => faults' \in 0 .. MaxFaults
  BY SMT DEF TypeOK, Fault

\* An outcome changes one entry of the payer's books, and its tally.
LEMMA TallyType ==
    ASSUME TypeOK, NEW p \in Payers, OrderOutcome(p) \/ Outcome(p) \/ UNCHANGED tallyVars
    PROVE  /\ paid' \in [Payers -> [Items -> Nat]]
           /\ good' \in [Payers -> Nat] /\ bad' \in [Payers -> Nat]
           /\ \A q \in Payers : q # p => paid'[q] = paid[q] /\ good'[q] = good[q] /\ bad'[q] = bad[q]
<1>1. /\ paid \in [Payers -> [Items -> Nat]] /\ item[p] \in Items
      /\ good \in [Payers -> Nat] /\ bad \in [Payers -> Nat]
  BY DEF TypeOK
<1>2. Take(p) \/ UNCHANGED paid
  BY DEF OrderOutcome, Outcome, tallyVars
<1>3. Succeeded(p) \/ Failed(p) \/ UNCHANGED <<good, bad>>
  BY DEF OrderOutcome, Outcome, tallyVars
<1>4. paid' \in [Payers -> [Items -> Nat]] /\ \A q \in Payers : q # p => paid'[q] = paid[q]
  BY <1>1, <1>2 DEF Take
<1>5. good' \in [Payers -> Nat] /\ \A q \in Payers : q # p => good'[q] = good[q]
  BY <1>1, <1>3 DEF Succeeded, Failed
<1>6. bad' \in [Payers -> Nat] /\ \A q \in Payers : q # p => bad'[q] = bad[q]
  BY <1>1, <1>3 DEF Succeeded, Failed
<1> QED
  BY <1>4, <1>5, <1>6

LEMMA OneMore ==
    ASSUME TypeOK, NEW p \in Payers, Take(p), paid[p][item[p]] = 0
    PROVE  Cardinality(PaidItems(p)') = Cardinality(PaidItems(p)) + 1
<1>1. /\ paid \in [Payers -> [Items -> Nat]] /\ item[p] \in Items
  BY DEF TypeOK
<1>2. \A i \in Items : paid'[p][i] = IF i = item[p] THEN 1 ELSE paid[p][i]
  BY <1>1 DEF Take
<1>3. PaidItems(p)' = PaidItems(p) \cup {item[p]} /\ item[p] \notin PaidItems(p)
  BY <1>1, <1>2 DEF PaidItems
<1>4. \A S, x : IsFiniteSet(S) /\ x \notin S => Cardinality(S \cup {x}) = Cardinality(S) + 1
  BY ONLY FS_AddElement
<1>5. IsFiniteSet(PaidItems(p))
  BY PaidFinite
<1> QED
  BY ONLY <1>3, <1>4, <1>5, Zenon

LEMMA LedgerPays ==
    ASSUME TypeOK, NEW p \in Payers, Ledger(p), Open(p),
           Outcome(p) \/ (p \in Orders \cup {Sweep} /\ OrderOutcome(p)),
           item'[p] \in Nat, item'[p] >= item[p], Open(p)' => item'[p] > item[p]
    PROVE  Ledger(p)'
<1>1. /\ paid \in [Payers -> [Items -> Nat]] /\ item[p] \in Items /\ item[p] \in Nat
      /\ good \in [Payers -> Nat]
  BY ItemsOK DEF TypeOK
<1>2. \A i \in Items : i >= item[p] => paid[p][i] = 0
  BY DEF Ledger
<1>3. Take(p) \/ UNCHANGED paid
  BY DEF OrderOutcome, Outcome
<1>4. \A i \in Items : /\ i > item[p] => paid'[p][i] = 0
                       /\ paid'[p][i] <= 1
  <2>1. \A i \in Items : paid[p][i] <= 1 /\ i \in Nat
    BY ItemsOK DEF Ledger
  <2>2. \A i \in Items : paid'[p][i] = paid[p][i] \/ (i = item[p] /\ paid'[p][i] = paid[p][i] + 1)
    BY <1>1, <1>3 DEF Take
  <2>3. paid[p][item[p]] = 0
    BY <1>1, <1>2
  <2> QED
    BY <1>1, <1>2, <2>1, <2>2, <2>3
<1>5. p \notin Orders \cup {Sweep} => good'[p] <= Cardinality(PaidItems(p)')
  <2>1. SUFFICES ASSUME p \notin Orders \cup {Sweep} PROVE good'[p] <= Cardinality(PaidItems(p)')
    OBVIOUS
  <2>2. good[p] <= Cardinality(PaidItems(p)) /\ good[p] \in Nat
    BY <1>1, <2>1 DEF Ledger
  <2>3. CASE Take(p)
    <3>1. Cardinality(PaidItems(p)') = Cardinality(PaidItems(p)) + 1
      BY <1>1, <1>2, <2>3, OneMore
    <3>2. good'[p] <= good[p] + 1
      BY <1>1, <2>1 DEF Outcome, Succeeded, Failed
    <3> QED
      BY <2>2, <3>1, <3>2, <1>1, <2>1, PaidFinite DEF Outcome, Succeeded, Failed
  <2>4. CASE UNCHANGED paid /\ Failed(p)
    BY <2>2, <2>4 DEF Failed, PaidItems
  <2> QED
    BY <2>1, <2>3, <2>4 DEF Outcome
<1>6. \A i \in Items : i \in Nat
  BY ItemsOK
<1> QED
  BY <1>1, <1>4, <1>5, <1>6 DEF Ledger

LEMMA LedgerStays ==
    ASSUME TypeOK, NEW p \in Payers, Ledger(p), paid'[p] = paid[p], good'[p] = good[p],
           item'[p] \in Nat, item'[p] >= item[p],
           Open(p)' => Open(p) \/ (Ahead(p) /\ item'[p] > item[p]),
           Ahead(p)' => Open(p) \/ Ahead(p)
    PROVE  Ledger(p)'
<1>1. item[p] \in Nat /\ \A i \in Items : i \in Nat
  BY ItemsOK DEF TypeOK
<1>2. PaidItems(p)' = PaidItems(p)
  BY DEF PaidItems
<1>3. \A i \in Items : i >= item'[p] => i >= item[p]
  BY <1>1
<1>4. \A i \in Items : item'[p] > item[p] /\ i >= item'[p] => i > item[p]
  BY <1>1
<1>5. \A i \in Items : i > item'[p] => i > item[p] /\ i >= item[p]
  BY <1>1
<1>6. Open(p)' => \A i \in Items : i >= item'[p] => paid'[p][i] = 0
  BY <1>3, <1>4, Zenon DEF Ledger
<1>7. Ahead(p)' => \A i \in Items : i > item'[p] => paid'[p][i] = 0
  BY <1>5, Zenon DEF Ledger
<1> QED
  BY <1>2, <1>6, <1>7, Zenon DEF Ledger

-----------------------------------------------------------------------------
(* Payers beside the jobs: no two of them share any state.                 *)

\* A step of such a payer, whose books it leaves in order.
Outside(p) ==
    /\ \E l \in Labels : pc' = [pc EXCEPT ![p] = l]
    /\ UNCHANGED item \/ \E k \in Items : item' = [item EXCEPT ![p] = k]
    /\ OrderOutcome(p) \/ Outcome(p) \/ UNCHANGED tallyVars
    /\ UNCHANGED <<queue, workerVars, status, stopping>>

LEMMA OutsideInv ==
    ASSUME Inv, NEW p \in Payers \ Jobs, Outside(p), Ledger(p)',
           p = Sweep => SweepPlace', Fault \/ UNCHANGED faults,
           choice' \in [Orders \cup {Sweep} -> Choices]
    PROVE  Inv'
<1>1. /\ TypeOK /\ QueueInv /\ SweepPlace
      /\ \A q \in Payers : Ledger(q)
      /\ \A j \in Jobs : Progress(j) /\ Shown(j)
  BY DEF Inv
<1>2. /\ pc \in [Payers -> Labels] /\ item \in [Payers -> Items]
      /\ \A q \in Payers : item[q] \in Items /\ item[q] \in Nat
  BY <1>1, ItemsOK DEF TypeOK
<1>3. /\ paid' \in [Payers -> [Items -> Nat]]
      /\ good' \in [Payers -> Nat] /\ bad' \in [Payers -> Nat]
      /\ \A q \in Payers : q # p => paid'[q] = paid[q] /\ good'[q] = good[q] /\ bad'[q] = bad[q]
  BY <1>1, TallyType DEF Outside
<1>4. pc' \in [Payers -> Labels] /\ \A q \in Payers : q # p => pc'[q] = pc[q]
  BY <1>2, SMT DEF Outside
<1>5. item' \in [Payers -> Items] /\ \A q \in Payers : q # p => item'[q] = item[q]
  BY <1>2, SMT DEF Outside
<1>6. UNCHANGED <<queue, job, step, status, stopping>>
  BY DEF Outside, workerVars
<1>7. TypeOK'
  BY <1>1, <1>3, <1>4, <1>5, <1>6, FaultType, Zenon DEF TypeOK
<1>8. QueueInv'
  BY <1>1, <1>4, <1>6, Zenon DEF QueueInv, InQueue
<1>9. SweepPlace'
  <2>1. Sweep \in Payers
    OBVIOUS
  <2> QED
    BY <1>1, <1>4, <1>5, <2>1, Zenon DEF SweepPlace
<1>10. ASSUME NEW q \in Payers, q # p PROVE Ledger(q)'
  <2>1. (Open(q)' <=> Open(q)) /\ (Ahead(q)' <=> Ahead(q))
    BY <1>4, <1>6, <1>10, Zenon DEF Open, Ahead, Waiting, InQueue
  <2>2. /\ paid'[q] = paid[q] /\ good'[q] = good[q] /\ item'[q] = item[q]
        /\ item'[q] \in Nat /\ item'[q] >= item[q]
    BY <1>2, <1>3, <1>5, <1>10
  <2> QED
    BY <1>1, <2>1, <2>2, LedgerStays
<1>11. ASSUME NEW j \in Jobs PROVE Progress(j)' /\ Shown(j)'
  <2>1. j \in Payers /\ j # p
    OBVIOUS
  <2>2. /\ pc'[j] = pc[j] /\ item'[j] = item[j] /\ good'[j] = good[j] /\ bad'[j] = bad[j]
    BY <1>3, <1>4, <1>5, <2>1
  <2>3. Progress(j)'
    BY <1>1, <1>6, <2>2, Zenon DEF Progress, Waiting, InQueue
  <2>4. Shown(j)'
    BY <1>1, <1>6, <2>2, Zenon DEF Shown
  <2> QED
    BY <2>3, <2>4
<1> QED
  BY <1>7, <1>8, <1>9, <1>10, <1>11 DEF Inv

LEMMA SinglePreserves ==
    ASSUME Inv, NEW p \in Singles, ActivateOne(p)
    PROVE  Inv'
<1>1. TypeOK /\ Ledger(p) /\ p \in Payers \ Jobs /\ p # Sweep
  BY DEF Inv
<1>2. /\ pc \in [Payers -> Labels] /\ item \in [Payers -> Items]
      /\ \A q \in Payers : item[q] \in Items /\ item[q] \in Nat
  BY <1>1, ItemsOK DEF TypeOK
<1>3. pc[p] = "new" /\ pc' = [pc EXCEPT ![p] = "done"] /\ UNCHANGED item /\ Outcome(p)
  BY SendOutcome DEF ActivateOne, Goto
<1>4. Open(p) /\ ~Open(p)'
  BY <1>1, <1>2, <1>3 DEF Open
<1>5. Ledger(p)'
  <2>1. item'[p] \in Nat /\ item'[p] >= item[p]
    BY <1>1, <1>2, <1>3
  <2> QED
    BY <1>1, <1>3, <1>4, <2>1, LedgerPays
<1>6. Outside(p)
  BY <1>3, Zenon DEF Outside, ActivateOne, Labels
<1>7. Fault \/ UNCHANGED faults
  BY Zenon DEF ActivateOne, SendOneWithLog, BroadcastTransaction
<1>8. choice' \in [Orders \cup {Sweep} -> Choices]
  BY <1>1 DEF ActivateOne, TypeOK
<1> QED
  BY <1>1, <1>5, <1>6, <1>7, <1>8, OutsideInv

LEMMA OrderPreserves ==
    ASSUME Inv, NEW o \in Orders, Resolve(o) \/ OrderEnergy(o),
           choice' \in [Orders \cup {Sweep} -> Choices]
    PROVE  Inv'
<1>1. TypeOK /\ Ledger(o) /\ o \in Payers \ Jobs /\ o # Sweep
  BY DEF Inv
<1>2. /\ pc \in [Payers -> Labels] /\ item \in [Payers -> Items]
      /\ \A q \in Payers : item[q] \in Items /\ item[q] \in Nat
  BY <1>1, ItemsOK DEF TypeOK
<1>3. CASE Resolve(o)
  <2>1. /\ pc[o] = "new" /\ UNCHANGED <<tallyVars, item, queue, workerVars, status, stopping, faults>>
        /\ \E l \in {"send", "done"} : pc' = [pc EXCEPT ![o] = l]
    BY <1>3, Zenon DEF Resolve, Goto
  <2>2. Open(o)
    BY <1>1, <2>1 DEF Open
  <2>3. ~Ahead(o)'
    BY <1>1, <1>2, <2>1 DEF Ahead
  <2>4. Ledger(o)'
    <3>1. item'[o] = item[o] /\ paid'[o] = paid[o] /\ good'[o] = good[o]
      BY <2>1 DEF tallyVars
    <3> QED
      BY <1>1, <1>2, <2>2, <2>3, <3>1, LedgerStays
  <2>5. Outside(o)
    BY <2>1, Zenon DEF Outside, Labels
  <2>6. UNCHANGED faults
    BY <2>1
  <2> QED
    BY <1>1, <2>4, <2>5, <2>6, OutsideInv
<1>4. CASE OrderEnergy(o)
  <2>1. pc[o] = "send" /\ UNCHANGED <<queue, workerVars, status, stopping>>
    BY <1>4 DEF OrderEnergy
  <2>2. OrderOutcome(o)
    BY <1>4, OrderedOutcome DEF OrderEnergy
  <2>3. \/ item[o] < Total /\ item' = [item EXCEPT ![o] = @ + 1] /\ UNCHANGED pc
        \/ pc' = [pc EXCEPT ![o] = "done"] /\ UNCHANGED item
    BY <1>4 DEF OrderEnergy, Goto
  <2>4. Open(o)
    BY <1>1, <2>1 DEF Open
  <2>5. /\ item'[o] \in Nat /\ item'[o] >= item[o]
        /\ Open(o)' => item'[o] > item[o]
    BY <1>1, <1>2, <2>3 DEF Open
  <2>6. Ledger(o)'
    BY <1>1, <2>2, <2>4, <2>5, LedgerPays
  <2>7. Outside(o)
    <3>1. \E l \in Labels : pc' = [pc EXCEPT ![o] = l]
      <4>1. CASE UNCHANGED pc
        <5>1. pc' = [pc EXCEPT ![o] = "send"] /\ "send" \in Labels
          BY <1>2, <2>1, <4>1 DEF Labels
        <5> QED
          BY <5>1
      <4> QED
        BY <2>3, <4>1, Zenon DEF Labels
    <3>2. UNCHANGED item \/ \E k \in Items : item' = [item EXCEPT ![o] = k]
      <4>1. item[o] < Total => item[o] + 1 \in Items
        BY <1>1, <1>2, ItemsOK
      <4> QED
        BY <2>3, <4>1
    <3> QED
      BY <2>1, <2>2, <3>1, <3>2 DEF Outside
  <2>8. Fault \/ UNCHANGED faults
    BY <1>4, Zenon DEF OrderEnergy, OrderFrom, OrderSafe, OrderCatfee
  <2> QED
    BY <1>1, <2>6, <2>7, <2>8, OutsideInv
<1> QED
  BY <1>3, <1>4

LEMMA ToolPreserves ==
    ASSUME Inv, ToolLooks \/ ToolSends \/ ToolPauses
    PROVE  Inv'
<1>1. TypeOK /\ Ledger(Tool) /\ Tool \in Payers \ Jobs /\ Tool # Sweep
  BY DEF Inv
<1>2. /\ pc \in [Payers -> Labels] /\ item \in [Payers -> Items]
      /\ \A q \in Payers : item[q] \in Items /\ item[q] \in Nat
  BY <1>1, ItemsOK DEF TypeOK
<1>3. UNCHANGED <<queue, workerVars, status, choice, stopping>> /\ (Fault \/ UNCHANGED faults)
  BY Zenon DEF ToolLooks, ToolSends, ToolPauses, SendOneWithLog, BroadcastTransaction
<1>4. choice' \in [Orders \cup {Sweep} -> Choices]
  BY <1>1, <1>3 DEF TypeOK
<1>5. Outcome(Tool) \/ UNCHANGED tallyVars
  BY SendOutcome DEF ToolLooks, ToolSends, ToolPauses
<1>6. \/ item[Tool] < Total /\ item' = [item EXCEPT ![Tool] = @ + 1] /\ Goto(Tool, "look")
      \/ UNCHANGED item /\ \E l \in {"send", "pause", "done"} : Goto(Tool, l)
  BY Zenon DEF ToolLooks, ToolSends, ToolPauses, ToolNext
<1>7. Outside(Tool)
  <2>1. \E l \in Labels : pc' = [pc EXCEPT ![Tool] = l]
    BY <1>6, Zenon DEF Goto, Labels
  <2>2. UNCHANGED item \/ \E k \in Items : item' = [item EXCEPT ![Tool] = k]
    <3>1. item[Tool] < Total => item[Tool] + 1 \in Items
      BY <1>1, <1>2, ItemsOK
    <3> QED
      BY <1>6, <3>1
  <2> QED
    BY <1>3, <1>5, <2>1, <2>2 DEF Outside
<1>8. item'[Tool] \in Nat /\ item'[Tool] >= item[Tool]
  BY <1>1, <1>2, <1>6
<1>9. pc[Tool] \in {"look", "send", "pause"}
  BY DEF ToolLooks, ToolSends, ToolPauses
<1>10. Ledger(Tool)'
  <2>1. CASE ToolSends
    <3>1. Open(Tool) /\ Outcome(Tool)
      BY <1>1, <2>1, SendOutcome DEF Open, ToolSends
    <3>2. Open(Tool)' => item'[Tool] > item[Tool]
      <4>1. \/ item[Tool] < Total /\ item' = [item EXCEPT ![Tool] = @ + 1]
            \/ \E l \in {"pause", "done"} : Goto(Tool, l)
        BY <2>1, Zenon DEF ToolSends, ToolNext
      <4> QED
        BY <1>1, <1>2, <4>1 DEF Open, Goto
    <3> QED
      BY <1>1, <1>8, <3>1, <3>2, LedgerPays
  <2>2. CASE ToolLooks \/ ToolPauses
    <3>1. UNCHANGED tallyVars
      BY <2>2 DEF ToolLooks, ToolPauses
    <3>2. paid'[Tool] = paid[Tool] /\ good'[Tool] = good[Tool]
      BY <3>1 DEF tallyVars
    <3>3. CASE pc[Tool] = "look"
      <4>1. Open(Tool)
        BY <1>1, <3>3 DEF Open
      <4> QED
        BY <1>1, <1>8, <3>2, <4>1, LedgerStays
    <3>4. CASE pc[Tool] = "pause"
      <4>1. Ahead(Tool)
        BY <1>1, <3>4 DEF Ahead
      <4>2. \/ item[Tool] < Total /\ item' = [item EXCEPT ![Tool] = @ + 1]
            \/ Goto(Tool, "done")
        BY <2>2, <3>4 DEF ToolLooks, ToolPauses, ToolNext
      <4>3. Open(Tool)' => item'[Tool] > item[Tool]
        BY <1>1, <1>2, <4>2 DEF Open, Goto
      <4> QED
        BY <1>1, <1>8, <3>2, <4>1, <4>3, LedgerStays
    <3> QED
      BY <2>2, <3>3, <3>4 DEF ToolLooks, ToolPauses
  <2> QED
    BY <2>1, <2>2
<1> QED
  BY <1>1, <1>3, <1>4, <1>7, <1>10, OutsideInv

LEMMA SweepPreserves ==
    ASSUME Inv, SweepActivates \/ SweepGoesOn \/ SweepOrders,
           choice' \in [Orders \cup {Sweep} -> Choices]
    PROVE  Inv'
<1>1. TypeOK /\ Ledger(Sweep) /\ Sweep \in Payers \ Jobs /\ SweepPlace
  BY DEF Inv
<1>2. /\ pc \in [Payers -> Labels] /\ item \in [Payers -> Items]
      /\ \A q \in Payers : item[q] \in Items /\ item[q] \in Nat
  BY <1>1, ItemsOK DEF TypeOK
<1>3. UNCHANGED <<queue, workerVars, status, stopping>> /\ (Fault \/ UNCHANGED faults)
  BY Zenon DEF SweepActivates, SweepGoesOn, SweepOrders, SendOneWithLog, BroadcastTransaction,
               OrderFrom, OrderSafe, OrderCatfee
<1>4. \/ pc[Sweep] = "activate" /\ item' = [item EXCEPT ![Sweep] = 2] /\ Goto(Sweep, "energy")
      \/ UNCHANGED item /\ Goto(Sweep, "done")
  BY Zenon DEF SweepActivates, SweepGoesOn, SweepOrders
<1>5. OrderOutcome(Sweep) \/ Outcome(Sweep) \/ UNCHANGED tallyVars
  BY SendOutcome, OrderedOutcome, Zenon DEF SweepActivates, SweepGoesOn, SweepOrders, tallyVars
<1>6. Open(Sweep)
  BY <1>1, Zenon DEF Open, SweepActivates, SweepGoesOn, SweepOrders
<1>7. /\ item'[Sweep] \in Nat /\ item'[Sweep] >= item[Sweep]
      /\ Open(Sweep)' => item'[Sweep] > item[Sweep]
      /\ ~Ahead(Sweep)' /\ pc'[Sweep] # "activate"
  BY <1>1, <1>2, <1>4 DEF Open, Ahead, Goto, SweepPlace
<1>8. Ledger(Sweep)'
  <2>1. CASE OrderOutcome(Sweep) \/ Outcome(Sweep)
    BY <1>1, <1>6, <1>7, <2>1, LedgerPays
  <2>2. CASE UNCHANGED tallyVars
    <3>1. paid'[Sweep] = paid[Sweep] /\ good'[Sweep] = good[Sweep]
      BY <2>2 DEF tallyVars
    <3> QED
      BY <1>1, <1>6, <1>7, <3>1, LedgerStays
  <2> QED
    BY <1>5, <2>1, <2>2
<1>9. Outside(Sweep)
  <2>1. \E l \in Labels : pc' = [pc EXCEPT ![Sweep] = l]
    BY <1>4, Zenon DEF Goto, Labels
  <2>2. UNCHANGED item \/ \E k \in Items : item' = [item EXCEPT ![Sweep] = k]
    BY <1>4, ItemsOK
  <2> QED
    BY <1>3, <1>5, <2>1, <2>2 DEF Outside
<1>10. SweepPlace'
  BY <1>7 DEF SweepPlace
<1> QED
  BY <1>1, <1>3, <1>8, <1>9, <1>10, OutsideInv

LEMMA StopPreserves ==
    ASSUME Inv, Stop \/ UNCHANGED vars
    PROVE  Inv'
<1>1. UNCHANGED <<tallyVars, pc, item, queue, workerVars, status, choice, faults>>
  BY DEF Stop, vars
<1>2. stopping => stopping'
  BY DEF Stop, vars
<1>3. stopping' \in BOOLEAN
  BY DEF Stop, vars, Inv, TypeOK
<1>4. TypeOK' /\ QueueInv' /\ SweepPlace'
  BY <1>1, <1>3, Zenon DEF Inv, TypeOK, QueueInv, InQueue, SweepPlace, tallyVars, workerVars
<1>5. \A p \in Payers : Ledger(p)'
  BY <1>1, Zenon DEF Inv, Ledger, Open, Ahead, Waiting, InQueue, PaidItems, tallyVars, workerVars
<1>6. \A j \in Jobs : Progress(j)' /\ Shown(j)'
  BY <1>1, <1>2, Zenon DEF Inv, Progress, Shown, Waiting, InQueue, tallyVars, workerVars
<1> QED
  BY <1>4, <1>5, <1>6 DEF Inv

-----------------------------------------------------------------------------
(* The channel.                                                            *)

LEMMA QueueGrows ==
    ASSUME TypeOK, NEW j \in Jobs, queue' = Append(queue, j), Len(queue) < QueueSize
    PROVE  /\ queue' \in Seq(Jobs) /\ Len(queue') <= QueueSize
           /\ \A k : InQueue(k)' <=> InQueue(k) \/ k = j
           /\ ~InQueue(j) /\ (\A i, k \in 1 .. Len(queue) : queue[i] = queue[k] => i = k)
                => \A i, k \in 1 .. Len(queue') : queue'[i] = queue'[k] => i = k
<1>1. queue \in Seq(Jobs) /\ Len(queue) \in Nat
  BY DEF TypeOK
<1>2. /\ queue' \in Seq(Jobs) /\ Len(queue') = Len(queue) + 1
      /\ \A i \in 1 .. Len(queue') : queue'[i] = IF i = Len(queue) + 1 THEN j ELSE queue[i]
  BY <1>1, SMT
<1>3. \A k : InQueue(k)' <=> InQueue(k) \/ k = j
  BY <1>1, <1>2, SMT DEF InQueue
<1>4. ~InQueue(j) /\ (\A i, k \in 1 .. Len(queue) : queue[i] = queue[k] => i = k)
        => \A i, k \in 1 .. Len(queue') : queue'[i] = queue'[k] => i = k
  BY <1>1, <1>2, SMT DEF InQueue
<1> QED
  BY <1>1, <1>2, <1>3, <1>4

LEMMA QueueShrinks ==
    ASSUME TypeOK, NEW j, j = Head(queue), queue # <<>>, queue' = Tail(queue),
           \A i, k \in 1 .. Len(queue) : queue[i] = queue[k] => i = k
    PROVE  /\ queue' \in Seq(Jobs) /\ Len(queue') <= QueueSize
           /\ j \in Jobs /\ InQueue(j) /\ ~InQueue(j)'
           /\ \A k : InQueue(k)' => InQueue(k)
           /\ \A i, k \in 1 .. Len(queue') : queue'[i] = queue'[k] => i = k
<1>1. queue \in Seq(Jobs) /\ Len(queue) \in Nat \ {0} /\ Len(queue) <= QueueSize
  BY DEF TypeOK
<1>2. /\ queue' \in Seq(Jobs) /\ Len(queue') = Len(queue) - 1
      /\ \A i \in 1 .. Len(queue') : queue'[i] = queue[i + 1]
      /\ j = queue[1] /\ j \in Jobs
  BY <1>1, SMT
<1>3. Len(queue') <= QueueSize
  BY <1>1, <1>2
<1>4. InQueue(j) /\ ~InQueue(j)'
  BY <1>1, <1>2, SMT DEF InQueue
<1>5. \A k : InQueue(k)' => InQueue(k)
  BY <1>1, <1>2, SMT DEF InQueue
<1>6. \A i, k \in 1 .. Len(queue') : queue'[i] = queue'[k] => i = k
  BY <1>1, <1>2, SMT
<1> QED
  BY <1>2, <1>3, <1>4, <1>5, <1>6

\* Payers that are no jobs do not see what jobs and worker do.
LEMMA OthersKeep ==
    ASSUME Inv, NEW p \in Payers \ Jobs, pc'[p] = pc[p], paid'[p] = paid[p],
           good'[p] = good[p], item'[p] = item[p]
    PROVE  Ledger(p)' /\ (p = Sweep => SweepPlace')
<1>1. TypeOK /\ Ledger(p) /\ SweepPlace /\ item[p] \in Nat
  BY ItemsOK DEF Inv, TypeOK
<1>2. (Open(p)' <=> Open(p)) /\ (Ahead(p)' <=> Ahead(p))
  BY DEF Open, Ahead
<1>3. Ledger(p)'
  BY <1>1, <1>2, LedgerStays
<1> QED
  BY <1>1, <1>3, Zenon DEF SweepPlace

\* A job in front of the worker keeps its place and its books.
LEMMA JobKeeps ==
    ASSUME Inv, NEW j \in Jobs, paid'[j] = paid[j], good'[j] = good[j], bad'[j] = bad[j],
           item'[j] = item[j], Waiting(j)' => Waiting(j), job' = j => job = j /\ step' = step,
           \/ status'[j] = status[j]
           \/ status'[j] = Started,
           stopping => stopping'
    PROVE  Ledger(j)' /\ Progress(j)' /\ Shown(j)'
<1>1. TypeOK /\ Ledger(j) /\ Progress(j) /\ Shown(j) /\ item[j] \in Nat /\ j \in Payers
  BY ItemsOK DEF Inv, TypeOK
<1>2. (Open(j)' => Open(j)) /\ (Ahead(j)' => Ahead(j))
  BY Zenon DEF Open, Ahead
<1>3. Ledger(j)'
  BY <1>1, <1>2, LedgerStays
<1>4. Progress(j)'
  <2>1. status'[j].finished => status[j].finished
    BY DEF Started
  <2> QED
    BY <1>1, <2>1, Zenon DEF Progress
<1>5. Shown(j)'
  <2>1. CASE status'[j] = status[j]
    BY <1>1, <2>1, Zenon DEF Shown
  <2>2. CASE status'[j] = Started
    <3>1. good[j] \in Nat /\ bad[j] \in Nat
      BY <1>1 DEF TypeOK
    <3> QED
      BY <2>2, <3>1 DEF Shown, Started
  <2> QED
    BY <2>1, <2>2
<1> QED
  BY <1>3, <1>4, <1>5

LEMMA StartedType == Started \in Statuses
  BY 0 \in Nat, Zenon DEF Started, Statuses

LEMMA EnqueuePreserves ==
    ASSUME Inv, NEW j \in Jobs, Enqueue(j)
    PROVE  Inv'
<1>1. TypeOK /\ QueueInv /\ j \in Payers
  BY DEF Inv
<1>2. /\ pc \in [Payers -> Labels] /\ pc[j] = "new" /\ UNCHANGED <<tallyVars, item, job, step, status, choice, stopping, faults>>
      /\ \E l \in {"first", "done"} : pc' = [pc EXCEPT ![j] = l]
  BY <1>1, Zenon DEF Enqueue, Goto, workerVars, TypeOK
<1>3. UNCHANGED <<paid, good, bad>>
  BY <1>2 DEF tallyVars
<1>4. pc' \in [Payers -> Labels] /\ pc'[j] # "new" /\ \A q \in Payers : q # j => pc'[q] = pc[q]
  BY <1>1, <1>2 DEF Labels
<1>5. /\ queue' \in Seq(Jobs) /\ Len(queue') <= QueueSize
      /\ \A k : InQueue(k)' => InQueue(k) \/ k = j
      /\ \A i, k \in 1 .. Len(queue') : queue'[i] = queue'[k] => i = k
  <2>1. CASE UNCHANGED queue
    BY <1>1, <2>1, Zenon DEF TypeOK, QueueInv, InQueue
  <2>2. CASE queue' = Append(queue, j) /\ Len(queue) < QueueSize
    <3>1. ~InQueue(j) /\ \A i, k \in 1 .. Len(queue) : queue[i] = queue[k] => i = k
      BY <1>1, <1>2, Zenon DEF QueueInv
    <3> QED
      BY <1>1, <2>2, <3>1, QueueGrows
  <2> QED
    BY <2>1, <2>2, Zenon DEF Enqueue
<1>6. job # j
  BY <1>1, <1>2, Zenon DEF QueueInv
<1>7. TypeOK'
  BY <1>1, <1>2, <1>3, <1>4, <1>5, Zenon DEF TypeOK
<1>8. QueueInv'
  <2>1. \A k \in Jobs : pc'[k] = "new" => pc[k] = "new"
    BY <1>4
  <2> QED
    BY <1>1, <1>2, <1>4, <1>5, <1>6, <2>1, Zenon DEF QueueInv
<1>9. \A k \in Jobs : Ledger(k)' /\ Progress(k)' /\ Shown(k)'
  <2>1. SUFFICES ASSUME NEW k \in Jobs PROVE Ledger(k)' /\ Progress(k)' /\ Shown(k)'
    OBVIOUS
  <2>2. Waiting(k)' => Waiting(k)
    BY <1>2, <1>4, <1>5, Zenon DEF Waiting
  <2> QED
    BY <1>2, <1>3, <2>2, JobKeeps
<1>10. \A p \in Payers \ Jobs : Ledger(p)' /\ (p = Sweep => SweepPlace')
  BY <1>2, <1>3, <1>4, OthersKeep
<1> QED
  BY <1>7, <1>8, <1>9, <1>10 DEF Inv

LEMMA FirstStatusPreserves ==
    ASSUME Inv, NEW j \in Jobs, SetFirstStatus(j)
    PROVE  Inv'
<1>1. TypeOK /\ QueueInv /\ j \in Payers
  BY DEF Inv
<1>2. /\ pc \in [Payers -> Labels] /\ status \in [Jobs -> Statuses] /\ pc[j] = "first"
      /\ pc' = [pc EXCEPT ![j] = "done"] /\ status' = [status EXCEPT ![j] = Started]
      /\ UNCHANGED <<tallyVars, item, queue, job, step, choice, stopping, faults>>
  BY <1>1 DEF SetFirstStatus, FirstStatus, Goto, workerVars, TypeOK
<1>3. UNCHANGED <<paid, good, bad>>
  BY <1>2 DEF tallyVars
<1>4. pc' \in [Payers -> Labels] /\ pc'[j] # "new" /\ \A q \in Payers : q # j => pc'[q] = pc[q]
  BY <1>1, <1>2 DEF Labels
<1>5. status' \in [Jobs -> Statuses]
  BY <1>2, StartedType
<1>6. TypeOK'
  BY <1>1, <1>2, <1>3, <1>4, <1>5, Zenon DEF TypeOK
<1>7. \A k \in Jobs : pc'[k] = "new" => pc[k] = "new"
  BY <1>4
<1>8. QueueInv'
  BY <1>1, <1>2, <1>7, Zenon DEF QueueInv, InQueue
<1>9. \A k \in Jobs : Ledger(k)' /\ Progress(k)' /\ Shown(k)'
  <2>1. SUFFICES ASSUME NEW k \in Jobs PROVE Ledger(k)' /\ Progress(k)' /\ Shown(k)'
    OBVIOUS
  <2>2. Waiting(k)' => Waiting(k)
    BY <1>2, <1>7, Zenon DEF Waiting, InQueue
  <2>3. status'[k] = status[k] \/ status'[k] = Started
    BY <1>2
  <2> QED
    BY <1>2, <1>3, <2>2, <2>3, JobKeeps
<1>10. \A p \in Payers \ Jobs : Ledger(p)' /\ (p = Sweep => SweepPlace')
  BY <1>2, <1>3, <1>4, OthersKeep
<1> QED
  BY <1>6, <1>8, <1>9, <1>10 DEF Inv

LEMMA ReceivePreserves ==
    ASSUME Inv, Receive
    PROVE  Inv'
<1> PICK j : j = Head(queue)
  OBVIOUS
<1>1. TypeOK /\ QueueInv /\ step = "receive" /\ job = NoJob
  BY Zenon DEF Inv, TypeOK, Receive, Idle
<1>2. /\ queue # <<>> /\ queue' = Tail(queue) /\ job' = j /\ step' = "item"
      /\ status' = [status EXCEPT ![j] = Started] /\ status \in [Jobs -> Statuses]
      /\ UNCHANGED <<tallyVars, pc, item, choice, stopping, faults>>
  BY <1>1 DEF Receive, FirstStatus, TypeOK
<1>3. /\ queue' \in Seq(Jobs) /\ Len(queue') <= QueueSize
      /\ j \in Jobs /\ InQueue(j) /\ ~InQueue(j)'
      /\ \A k : InQueue(k)' => InQueue(k)
      /\ \A i, k \in 1 .. Len(queue') : queue'[i] = queue'[k] => i = k
  BY <1>1, <1>2, QueueShrinks, Zenon DEF QueueInv
<1>4. UNCHANGED <<paid, good, bad>>
  BY <1>2 DEF tallyVars
<1>5. status' \in [Jobs -> Statuses] /\ status'[j] = Started /\ \A k \in Jobs : k # j => status'[k] = status[k]
  BY <1>2, <1>3, StartedType
<1>6. TypeOK'
  <2>1. j # NoJob
    BY <1>3
  <2>2. job' \in Jobs \cup {NoJob} /\ step' \in Steps /\ (job' = NoJob <=> step' \in Idle)
    BY <1>2, <1>3, <2>1 DEF Steps, Idle
  <2> QED
    BY <1>1, <1>2, <1>3, <1>4, <1>5, <2>2, Zenon DEF TypeOK
<1>7. pc[j] # "new"
  BY <1>1, <1>3, Zenon DEF QueueInv
<1>8. QueueInv'
  BY <1>1, <1>2, <1>3, <1>7, Zenon DEF QueueInv
<1>9. \A k \in Jobs : k # j => Ledger(k)' /\ Progress(k)' /\ Shown(k)'
  <2>1. SUFFICES ASSUME NEW k \in Jobs, k # j PROVE Ledger(k)' /\ Progress(k)' /\ Shown(k)'
    OBVIOUS
  <2>2. Waiting(k)' => Waiting(k)
    BY <1>2, <1>3, Zenon DEF Waiting
  <2> QED
    BY <1>2, <1>4, <1>5, <2>1, <2>2, JobKeeps
<1>10. Ledger(j)' /\ Progress(j)' /\ Shown(j)'
  <2>1. Ledger(j) /\ Progress(j) /\ j \in Payers
    BY <1>3 DEF Inv
  <2>2. Waiting(j) /\ ~Waiting(j)'
    BY <1>2, <1>3, <1>7, Zenon DEF Waiting
  <2>3. item[j] = 1 /\ good[j] = 0 /\ bad[j] = 0
    BY <2>1, <2>2 DEF Progress
  <2>4. Open(j) /\ ~Ahead(j)'
    BY <1>2, <1>3, <2>2 DEF Open, Ahead
  <2>5. Ledger(j)'
    BY <1>1, <1>2, <1>4, <2>1, <2>3, <2>4, LedgerStays
  <2>6. Progress(j)'
    BY <1>2, <1>4, <2>2, <2>3 DEF Progress
  <2>7. Shown(j)'
    BY <1>4, <1>5, <2>3 DEF Shown, Started
  <2> QED
    BY <2>5, <2>6, <2>7
<1>11. \A p \in Payers \ Jobs : Ledger(p)' /\ (p = Sweep => SweepPlace')
  BY <1>2, <1>4, OthersKeep
<1> QED
  BY <1>6, <1>8, <1>9, <1>10, <1>11 DEF Inv

-----------------------------------------------------------------------------
(* The worker with a job.                                                  *)

\* A step of the worker at job j, after which the job's own part holds.
LEMMA WorkerInv ==
    ASSUME Inv, NEW j \in Jobs, job = j, job' \in {j, NoJob}, step' \in Steps,
           job' = NoJob <=> step' \in Idle,
           UNCHANGED <<pc, queue, choice, stopping>>,
           Outcome(j) \/ UNCHANGED tallyVars, Fault \/ UNCHANGED faults,
           UNCHANGED item \/ (item[j] < Total /\ item' = [item EXCEPT ![j] = @ + 1]),
           UNCHANGED status \/ \E finished \in BOOLEAN : SetStatus(j, finished),
           Ledger(j)', Progress(j)', Shown(j)'
    PROVE  Inv'
<1>1. TypeOK /\ QueueInv /\ j \in Payers
  BY DEF Inv
<1>2. /\ item \in [Payers -> Items] /\ status \in [Jobs -> Statuses]
      /\ good[j] \in Nat /\ bad[j] \in Nat
  BY <1>1 DEF TypeOK
<1>3. /\ paid' \in [Payers -> [Items -> Nat]]
      /\ good' \in [Payers -> Nat] /\ bad' \in [Payers -> Nat]
      /\ \A q \in Payers : q # j => paid'[q] = paid[q] /\ good'[q] = good[q] /\ bad'[q] = bad[q]
  BY <1>1, TallyType
<1>4. item' \in [Payers -> Items] /\ \A q \in Payers : q # j => item'[q] = item[q]
  <2>1. item[j] < Total => item[j] + 1 \in Items
    BY <1>1, <1>2, ItemsOK
  <2> QED
    BY <1>1, <1>2, <2>1
<1>5. status' \in [Jobs -> Statuses] /\ \A k \in Jobs : k # j => status'[k] = status[k]
  <2>1. CASE UNCHANGED status
    BY <1>2, <2>1
  <2>2. ASSUME NEW finished \in BOOLEAN, SetStatus(j, finished)
        PROVE  status' \in [Jobs -> Statuses] /\ \A k \in Jobs : k # j => status'[k] = status[k]
    <3> DEFINE shown == [known |-> TRUE, good |-> good[j], bad |-> bad[j], finished |-> finished]
    <3>1. shown \in Statuses
      BY <1>2, Zenon DEF Statuses
    <3>2. status' = [status EXCEPT ![j] = shown]
      BY <2>2 DEF SetStatus
    <3> HIDE DEF shown
    <3> QED
      BY <1>2, <3>1, <3>2
  <2> QED
    BY <2>1, <2>2
<1>6. TypeOK'
  <2>1. job' \in Jobs \cup {NoJob}
    OBVIOUS
  <2>2. stopping' \in BOOLEAN
    BY <1>1 DEF TypeOK
  <2> QED
    BY <1>1, <1>3, <1>4, <1>5, <2>1, <2>2, FaultType, Zenon DEF TypeOK
<1>7. QueueInv'
  <2>1. \A k \in Jobs : job' = k => job = k
    OBVIOUS
  <2> QED
    BY <1>1, <2>1, Zenon DEF QueueInv, InQueue
<1>8. \A k \in Jobs : k # j => Ledger(k)' /\ Progress(k)' /\ Shown(k)'
  <2>1. SUFFICES ASSUME NEW k \in Jobs, k # j PROVE Ledger(k)' /\ Progress(k)' /\ Shown(k)'
    OBVIOUS
  <2>2. Waiting(k)' => Waiting(k)
    BY Zenon DEF Waiting, InQueue
  <2>3. job' # k
    BY <2>1
  <2> QED
    BY <1>3, <1>4, <1>5, <2>1, <2>2, <2>3, JobKeeps
<1>9. \A p \in Payers \ Jobs : Ledger(p)' /\ (p = Sweep => SweepPlace')
  BY <1>3, <1>4, OthersKeep
<1> QED
  BY <1>6, <1>7, <1>8, <1>9 DEF Inv

LEMMA WorkerPreserves ==
    ASSUME Inv, NextAddress \/ WorkerSends \/ Count \/ Pause \/ Final
    PROVE  Inv'
<1>1. step \in {"item", "send", "count", "pause", "final"}
  BY DEF NextAddress, WorkerSends, Count, Pause, Final
<1>2. PICK j \in Jobs : j = job
  BY <1>1 DEF Inv, TypeOK, Idle
<1>3. /\ TypeOK /\ QueueInv /\ Ledger(j) /\ Progress(j) /\ Shown(j) /\ j \in Payers
      /\ j # NoJob
  BY DEF Inv
<1>4. /\ good \in [Payers -> Nat] /\ bad \in [Payers -> Nat] /\ item \in [Payers -> Items]
      /\ item[j] \in Nat /\ status \in [Jobs -> Statuses]
  BY <1>3, ItemsOK DEF TypeOK
<1>5. UNCHANGED <<pc, queue, choice, stopping>> /\ ~Waiting(j) /\ ~Waiting(j)'
  <2>1. UNCHANGED <<pc, queue, choice, stopping>>
    BY Zenon DEF NextAddress, WorkerSends, Count, Pause, Final
  <2>2. ~Waiting(j)
    BY <1>2, <1>3, Zenon DEF QueueInv, Waiting
  <2> QED
    BY <2>1, <2>2, Zenon DEF Waiting, InQueue
\* The job is over.
<1>6. ASSUME SetStatus(j, TRUE), LeaveJob, UNCHANGED <<tallyVars, item, faults>>,
             stopping \/ good[j] + bad[j] >= Total
      PROVE  Inv'
  <2>1. /\ job' = NoJob /\ step' = "receive" /\ UNCHANGED <<paid, good, bad>>
        /\ status'[j] = [known |-> TRUE, good |-> good[j], bad |-> bad[j], finished |-> TRUE]
    BY <1>4, <1>6 DEF LeaveJob, SetStatus, tallyVars
  <2>2. ~Open(j)' /\ ~Ahead(j)'
    BY <1>3, <1>5, <2>1 DEF Open, Ahead
  <2>3. Ledger(j)'
    BY <1>3, <1>4, <1>6, <2>1, <2>2, LedgerStays
  <2>4. Progress(j)'
    BY <1>3, <1>5, <2>1 DEF Progress
  <2>5. Shown(j)'
    BY <1>3, <1>4, <1>5, <1>6, <2>1 DEF Shown
  <2>6. job' \in {j, NoJob} /\ step' \in Steps /\ (job' = NoJob <=> step' \in Idle)
    BY <2>1 DEF Steps, Idle
  <2> QED
    BY <1>2, <1>5, <1>6, <2>3, <2>4, <2>5, <2>6, WorkerInv
\* The job goes on.
<1>7. ASSUME NEW s \in Steps \ Idle, WorkerGoes(s),
             Outcome(j) \/ UNCHANGED tallyVars, Fault \/ UNCHANGED faults,
             UNCHANGED item \/ (item[j] < Total /\ item' = [item EXCEPT ![j] = @ + 1]),
             UNCHANGED status \/ SetStatus(j, FALSE),
             Ledger(j)', Progress(j)', Shown(j)'
      PROVE  Inv'
  <2>1. job' \in {j, NoJob} /\ step' \in Steps /\ (job' = NoJob <=> step' \in Idle)
    BY <1>2, <1>3, <1>7 DEF WorkerGoes, Steps, Idle
  <2> QED
    BY <1>2, <1>5, <1>7, <2>1, WorkerInv
<1>8. CASE NextAddress
  <2>1. UNCHANGED <<tallyVars, item, faults>> /\ step = "item"
    BY <1>8 DEF NextAddress
  <2>2. CASE stopping /\ Cancelled
    BY <1>2, <1>6, <2>1, <2>2 DEF Cancelled
  <2>3. CASE WorkerGoes("send") /\ UNCHANGED status
    <3>1. job' = j /\ step' = "send" /\ UNCHANGED <<paid, good, bad>>
      BY <1>2, <2>1, <2>3 DEF WorkerGoes, tallyVars
    <3>2. Open(j) /\ ~Ahead(j)'
      BY <1>2, <2>1, <3>1 DEF Open, Ahead
    <3>3. Ledger(j)'
      BY <1>3, <1>4, <2>1, <3>1, <3>2, LedgerStays
    <3>4. Progress(j)'
      BY <1>2, <1>3, <1>5, <2>1, <3>1 DEF Progress
    <3>5. Shown(j)'
      BY <1>2, <1>3, <1>5, <2>3, <3>1, Zenon DEF Shown
    <3> QED
      BY <1>7, <2>1, <2>3, <3>3, <3>4, <3>5 DEF Steps, Idle
  <2> QED
    BY <1>8, <2>2, <2>3 DEF NextAddress
<1>9. CASE WorkerSends
  <2>1. /\ step = "send" /\ job' = j /\ step' = "count" /\ UNCHANGED <<item, status>>
        /\ WorkerGoes("count")
    BY <1>2, <1>9 DEF WorkerSends, WorkerGoes
  <2>2. Outcome(j) /\ (Fault \/ UNCHANGED faults)
    BY <1>2, <1>9, SendOutcome, Zenon DEF WorkerSends, SendOneWithLog, BroadcastTransaction, Outcome, Unsent
  <2>3. Open(j) /\ ~Open(j)'
    BY <1>2, <1>5, <2>1 DEF Open
  <2>4. Ledger(j)'
    BY <1>3, <1>4, <2>1, <2>2, <2>3, LedgerPays
  <2>5. \/ good'[j] = good[j] + 1 /\ bad'[j] = bad[j]
        \/ good'[j] = good[j] /\ bad'[j] = bad[j] + 1
    BY <1>3, <1>4, <2>2 DEF Outcome, Succeeded, Failed
  <2>6. Progress(j)'
    <3>1. good[j] + bad[j] + 1 = item[j]
      BY <1>2, <1>3, <2>1 DEF Progress
    <3> QED
      BY <1>3, <1>4, <1>5, <2>1, <2>5, <3>1 DEF Progress
  <2>7. Shown(j)'
    <3>1. status[j].good \in Nat /\ status[j].bad \in Nat
      BY <1>4 DEF Statuses
    <3>2. status[j].good <= good[j] /\ status[j].bad <= bad[j] /\ ~status[j].finished
      BY <1>2, <1>3 DEF Shown
    <3> QED
      BY <1>3, <1>4, <2>1, <2>5, <3>1, <3>2 DEF Shown
  <2> QED
    BY <1>7, <2>1, <2>2, <2>4, <2>6, <2>7 DEF Steps, Idle
<1>10. CASE Count
  <2>1. /\ step = "count" /\ UNCHANGED <<tallyVars, item, faults>> /\ SetStatus(j, FALSE)
        /\ WorkerGoes(IF item[j] < Total THEN "pause" ELSE "final")
    BY <1>2, <1>10 DEF Count
  <2>2. /\ job' = j /\ step' = IF item[j] < Total THEN "pause" ELSE "final"
        /\ UNCHANGED <<paid, good, bad>>
        /\ status'[j] = [known |-> TRUE, good |-> good[j], bad |-> bad[j], finished |-> FALSE]
    BY <1>2, <1>4, <2>1 DEF WorkerGoes, SetStatus, tallyVars
  <2>3. Ahead(j) /\ ~Open(j)'
    BY <1>2, <1>5, <2>1, <2>2 DEF Open, Ahead
  <2>4. Ledger(j)'
    BY <1>3, <1>4, <2>1, <2>2, <2>3, LedgerStays
  <2>5. item[j] <= Total
    BY <1>3, <1>4 DEF Items
  <2>6. Progress(j)'
    BY <1>2, <1>3, <1>4, <1>5, <2>1, <2>2, <2>5 DEF Progress
  <2>7. Shown(j)'
    BY <1>3, <1>4, <2>2 DEF Shown
  <2> QED
    BY <1>7, <2>1, <2>2, <2>4, <2>6, <2>7 DEF Steps, Idle
<1>11. CASE Pause
  <2>1. step = "pause" /\ UNCHANGED <<tallyVars, faults>>
    BY <1>11 DEF Pause
  <2>2. CASE stopping /\ Cancelled /\ UNCHANGED item
    BY <1>2, <1>6, <2>1, <2>2 DEF Cancelled
  <2>3. CASE item' = [item EXCEPT ![job] = @ + 1] /\ WorkerGoes("item") /\ UNCHANGED status
    <3>1. /\ job' = j /\ step' = "item" /\ UNCHANGED <<paid, good, bad>>
          /\ item'[j] = item[j] + 1 /\ item[j] < Total /\ good[j] + bad[j] = item[j]
      BY <1>2, <1>3, <1>4, <2>1, <2>3 DEF WorkerGoes, tallyVars, Progress
    <3>2. Ahead(j) /\ ~Ahead(j)'
      BY <1>2, <2>1, <3>1 DEF Ahead
    <3>3. Ledger(j)'
      <4>1. item'[j] \in Nat /\ item'[j] >= item[j] /\ item'[j] > item[j]
        BY <1>4, <3>1
      <4> QED
        BY <1>3, <3>1, <3>2, <4>1, LedgerStays
    <3>4. Progress(j)'
      BY <1>3, <1>4, <1>5, <3>1 DEF Progress
    <3>5. Shown(j)'
      BY <1>2, <1>3, <1>5, <2>3, <3>1, Zenon DEF Shown
    <3> QED
      BY <1>2, <1>7, <2>1, <2>3, <3>1, <3>3, <3>4, <3>5 DEF Steps, Idle
  <2> QED
    BY <1>11, <2>2, <2>3 DEF Pause
<1>12. CASE Final
  <2>1. step = "final" /\ UNCHANGED <<tallyVars, item, faults>> /\ SetStatus(j, TRUE) /\ LeaveJob
    BY <1>2, <1>12 DEF Final
  <2>2. good[j] + bad[j] >= Total
    BY <1>2, <1>3, <2>1 DEF Progress
  <2> QED
    BY <1>6, <2>1, <2>2
<1> QED
  BY <1>8, <1>9, <1>10, <1>11, <1>12

LEMMA WorkerEndsPreserves ==
    ASSUME Inv, WorkerEnds
    PROVE  Inv'
<1>1. /\ TypeOK /\ step = "receive" /\ step' = "gone" /\ job = NoJob /\ job' = NoJob
      /\ UNCHANGED <<tallyVars, pc, item, queue, status, choice, stopping, faults>>
  BY DEF Inv, TypeOK, WorkerEnds, WorkerGoes, Idle
<1>2. \A j \in Jobs : job # j /\ job' # j
  BY <1>1
<1>3. UNCHANGED <<paid, good, bad>>
  BY <1>1 DEF tallyVars
<1>4. TypeOK'
  <2>1. step' \in Steps /\ step' \in Idle
    BY <1>1 DEF Steps, Idle
  <2> QED
    BY <1>1, <1>3, <2>1, Zenon DEF TypeOK
<1>5. QueueInv'
  BY <1>1, <1>2, Zenon DEF Inv, QueueInv, InQueue
<1>6. \A k \in Jobs : Ledger(k)' /\ Progress(k)' /\ Shown(k)'
  <2>1. SUFFICES ASSUME NEW k \in Jobs PROVE Ledger(k)' /\ Progress(k)' /\ Shown(k)'
    OBVIOUS
  <2>2. Waiting(k)' => Waiting(k)
    BY <1>1, Zenon DEF Waiting, InQueue
  <2> QED
    BY <1>1, <1>2, <1>3, <2>2, JobKeeps
<1>7. \A p \in Payers \ Jobs : Ledger(p)' /\ (p = Sweep => SweepPlace')
  BY <1>1, <1>3, OthersKeep
<1> QED
  BY <1>4, <1>5, <1>6, <1>7 DEF Inv

-----------------------------------------------------------------------------
LEMMA InvStep == Inv /\ ChoiceInv' /\ [Next]_vars => Inv'
<1> SUFFICES ASSUME Inv, ChoiceInv', [Next]_vars PROVE Inv'
  OBVIOUS
<1>1. choice' \in [Orders \cup {Sweep} -> Choices]
  BY DEF ChoiceInv
<1>2. CASE WorkerStep
  BY <1>2, ReceivePreserves, WorkerPreserves, WorkerEndsPreserves DEF WorkerStep
<1> QED
  BY <1>1, <1>2, SinglePreserves, EnqueuePreserves, FirstStatusPreserves, OrderPreserves,
     ToolPreserves, SweepPreserves, StopPreserves DEF Next

LEMMA InvAlways == Spec => []Inv
  BY InvInit, InvStep, ChoiceInit, ChoiceStep, PTL DEF Spec

(* Every variable stays in its type (TronAddressActivator, the handlers of *)
(* the dashboard, the command and the sweep).                              *)
THEOREM TypeCorrect == Spec => []TypeOK
  BY InvAlways, PTL DEF Inv

(* However many requests, jobs and addresses there are and whichever       *)
(* answers are lost, no request pays for an address twice, and what an     *)
(* activation counts as a success was taken (processJob, sendOneWithLog).  *)
THEOREM NothingPaidTwice == Spec => []PaidOnce
<1>1. Inv => PaidOnce
  BY Zenon DEF Inv, Ledger, PaidOnce, PaidItems
<1> QED
  BY <1>1, InvAlways, PTL

(* The status of a job never runs ahead of the job, and a finished one has *)
(* dealt with all addresses unless the process stops (setJobStatus).       *)
THEOREM JobStatusTrue == Spec => []JobStatusIsTrue
<1>1. Inv => JobStatusIsTrue
  BY Zenon DEF Inv, Shown, JobStatusIsTrue
<1> QED
  BY <1>1, InvAlways, PTL

(* A finished status is touched again only by the handler of the request   *)
(* that started the job (EnqueueBatch): the worker is with another job, a  *)
(* job on the channel is not finished.                                     *)
THEOREM FinishedIsBelieved == Spec => FinishedStays
<1> DEFINE Stays == \A j \in Jobs : status[j].finished /\ status'[j] # status[j] => pc[j] = "first"
<1>1. Inv /\ [Next]_vars => [Stays]_vars
  <2> SUFFICES ASSUME Inv, Next, NEW j \in Jobs, status[j].finished, status'[j] # status[j]
               PROVE  pc[j] = "first"
    BY Zenon DEF Stays
  <2>1. /\ status \in [Jobs -> Statuses] /\ job # j /\ ~Waiting(j) /\ QueueInv /\ TypeOK
    BY DEF Inv, TypeOK, Shown, Progress
  <2>2. CASE \E k \in Jobs : SetFirstStatus(k)
    BY <2>1, <2>2 DEF SetFirstStatus, FirstStatus
  <2>3. CASE Receive
    <3>1. PICK k : k = Head(queue)
      OBVIOUS
    <3>2. InQueue(k)
      BY <2>1, <2>3, <3>1, QueueShrinks, Zenon DEF Receive, QueueInv
    <3>3. k # j
      BY <2>1, <3>2 DEF Waiting
    <3> QED
      BY <2>1, <2>3, <3>1, <3>3 DEF Receive, FirstStatus
  <2>4. CASE NextAddress \/ WorkerSends \/ Count \/ Pause \/ Final \/ WorkerEnds
    <3>1. UNCHANGED status \/ \E finished \in BOOLEAN : SetStatus(job, finished)
      BY <2>4, Zenon DEF NextAddress, WorkerSends, Count, Pause, Final, WorkerEnds, Cancelled
    <3> QED
      BY <2>1, <3>1 DEF SetStatus
  <2>5. CASE \/ \E p \in Singles : ActivateOne(p)
             \/ \E k \in Jobs : Enqueue(k)
             \/ \E o \in Orders : Resolve(o) \/ OrderEnergy(o)
             \/ Stop \/ ToolLooks \/ ToolSends \/ ToolPauses
             \/ SweepActivates \/ SweepGoesOn \/ SweepOrders
    <3>1. UNCHANGED status
      BY <2>5, Zenon DEF ActivateOne, Enqueue, Resolve, OrderEnergy, Stop, ToolLooks, ToolSends,
                         ToolPauses, SweepActivates, SweepGoesOn, SweepOrders
    <3> QED
      BY <3>1
  <2> QED
    BY <2>2, <2>3, <2>4, <2>5, Zenon DEF Next, WorkerStep
<1> QED
  BY <1>1, InvAlways, PTL DEF Spec, FinishedStays
=============================================================================
