-------------------------------- MODULE Alerts --------------------------------
(***************************************************************************)
(* From a watched address to a message: WatchCache and Notifiers side by   *)
(* side, in one process, which may be restarted.  A scanner tells of a     *)
(* transfer it has come to, once more whenever its block is scanned again, *)
(* if the cache holds the address then                                     *)
(* (handleTRXTransfer and handleUSDTTransfers in                           *)
(* internal/service/scanner.go, insertTransferIn and insertTransferOut in  *)
(* internal/service/bsc_scanner.go).                                       *)
(***************************************************************************)
EXTENDS WatchCache, Notifiers

CONSTANT AddressOf   \* each transfer's watched address

ASSUME AddressOfOK == AddressOf \in [Transfers -> Addresses]

vars == <<cacheVars, notifierVars>>

Init == CacheInit /\ NotifierInit

\* The transfer's row is written first: without it nobody is told.
Match(t) ==
    /\ AddressOf[t] \in cache
    /\ NotifyTransfer(t)
    /\ UNCHANGED cacheVars

NotifierNext ==
    /\ \/ \E t \in Transfers : CallStep(t) \/ RunOut(t)
       \/ RunStep
    /\ UNCHANGED cacheVars

ProcessRestarts == CacheRestart /\ NotifierRestart

Next ==
    \/ \E t \in Transfers : Match(t)
    \/ NotifierNext
    \/ CacheNext /\ UNCHANGED notifierVars
    \/ ProcessRestarts

Spec == Init /\ [][Next]_vars

\* The ticker ticks, the reads it leads to end.
FairSpec == Spec /\ WF_vars(RunnerStep /\ UNCHANGED notifierVars)
=============================================================================
