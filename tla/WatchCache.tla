------------------------------ MODULE WatchCache ------------------------------
(***************************************************************************)
(* The watched addresses of one chain: the live rows of watch_addresses or *)
(* bsc_watch_addresses, and the copy in memory a scanner asks              *)
(* (AddressCache and BSCAddressCache in internal/service), reloaded by a   *)
(* goroutine of its own and by the dashboard's handlers that add and       *)
(* delete addresses (internal/web/server.go, internal/web/bsc.go).         *)
(*                                                                         *)
(* The dashboard is given the Tron cache alone: what its handlers reload   *)
(* after a change of BSC addresses is the cache of the other chain.        *)
(***************************************************************************)
EXTENDS Naturals, FiniteSets

CONSTANTS
    Addresses,
    Handlers,   \* requests the dashboard serves at once
    Runner,     \* the goroutine of the cache
    MaxCacheFaults   \* bound on failed calls

Loaders == Handlers \cup {Runner}

ASSUME CacheConstantsOK == Runner \notin Handlers /\ MaxCacheFaults \in Nat

VARIABLES
    chain,    \* whose addresses these are
    active,   \* rows with status 1
    cache,    \* base58 and hexToB58, or addrs
    at,       \* control of each loader
    snap,     \* each loader: rows it has read and not yet put into the cache
    req,      \* each handler: addresses of its request
    cacheFaults

cacheVars == <<chain, active, cache, at, snap, req, cacheFaults>>

CacheTypeOK ==
    /\ chain \in {"tron", "bsc"}
    /\ active \subseteq Addresses /\ cache \subseteq Addresses
    /\ at \in [Loaders -> {"idle", "find", "insert", "disable", "first", "load", "install", "down"}]
    /\ snap \in [Loaders -> SUBSET Addresses] /\ req \in [Handlers -> SUBSET Addresses]
    /\ cacheFaults \in 0 .. MaxCacheFaults

CacheInit ==
    /\ chain \in {"tron", "bsc"}
    /\ active \in SUBSET Addresses /\ cache = {}
    /\ at = [l \in Loaders |-> IF l = Runner THEN "first" ELSE "idle"]
    /\ snap = [l \in Loaders |-> {}] /\ req = [h \in Handlers |-> {}]
    /\ cacheFaults = 0

-----------------------------------------------------------------------------
MoveTo(l, s) == at' = [at EXCEPT ![l] = s]
CallFault == cacheFaults < MaxCacheFaults /\ cacheFaults' = cacheFaults + 1
Answer(h) == MoveTo(h, "idle") /\ req' = [req EXCEPT ![h] = {}]

-----------------------------------------------------------------------------
(* Run and Reload: the rows are read outside the lock and put into the     *)
(* cache under it, so of two reloads the one that read first may be last.  *)

LoadRows(l) ==
    /\ at[l] \in {"first", "load"}
    /\ snap' = [snap EXCEPT ![l] = active]
    /\ MoveTo(l, "install")
    /\ UNCHANGED <<chain, active, cache, req, cacheFaults>>

InstallMissing(l) ==
    /\ at[l] = "install"
    /\ cache' = IF l = Runner \/ chain = "tron" THEN cache \cup snap[l] ELSE cache
    /\ snap' = [snap EXCEPT ![l] = {}]
    /\ IF l = Runner THEN MoveTo(l, "idle") /\ UNCHANGED req ELSE Answer(l)
    /\ UNCHANGED <<chain, active, cacheFaults>>

\* A handler then answers that all is well; it reloads Tron's cache, whatever its chain.
Install(l) ==
    /\ at[l] = "install"
    /\ cache' = IF l = Runner \/ chain = "tron" THEN snap[l] ELSE cache
    /\ snap' = [snap EXCEPT ![l] = {}]
    /\ IF l = Runner THEN MoveTo(l, "idle") /\ UNCHANGED req ELSE Answer(l)
    /\ UNCHANGED <<chain, active, cacheFaults>>

\* The first load's error ends Run, a later one waits for the next tick; a handler
\* answers that the addresses are saved and the reload failed, or says nothing of it.
LoadFails(l) ==
    /\ at[l] \in {"first", "load"} /\ CallFault
    /\ IF l # Runner THEN Answer(l)
       ELSE MoveTo(l, IF at[l] = "first" THEN "down" ELSE "idle") /\ UNCHANGED req
    /\ UNCHANGED <<chain, active, cache, snap>>

\* The ticker.
Tick ==
    /\ at[Runner] = "idle"
    /\ MoveTo(Runner, "load")
    /\ UNCHANGED <<chain, active, cache, snap, req, cacheFaults>>

\* safeGo runs it again after a pause.
Rerun ==
    /\ at[Runner] = "down"
    /\ MoveTo(Runner, "first")
    /\ UNCHANGED <<chain, active, cache, snap, req, cacheFaults>>

-----------------------------------------------------------------------------
(* handleAddWatchAddresses and handleBSCAddWatchAddresses,                 *)
(* handleDeleteWatchAddress and handleBSCDeleteAddresses.                  *)

Ask(h) ==
    /\ at[h] = "idle"
    /\ \E S \in SUBSET Addresses \ {{}} : req' = [req EXCEPT ![h] = S]
    /\ MoveTo(h, "find") \/ MoveTo(h, "disable")
    /\ UNCHANGED <<chain, active, cache, snap, cacheFaults>>

\* Addresses already live are left out; with none left all is well and nothing reloaded.
FindExisting(h, existing) ==
    /\ at[h] = "find"
    /\ IF req[h] \subseteq existing THEN Answer(h)
       ELSE req' = [req EXCEPT ![h] = @ \ existing] /\ MoveTo(h, "insert")
    /\ UNCHANGED <<chain, active, cache, snap, cacheFaults>>

FindExistingWatchAddresses(h) == FindExisting(h, active)
FindExistingBSCWatchAddresses(h) == FindExisting(h, active)

\* One transaction; rows deleted earlier come back to life.
InsertWatchAddresses(h) ==
    /\ at[h] = "insert"
    /\ active' = active \cup req[h]
    /\ MoveTo(h, "load")
    /\ UNCHANGED <<chain, cache, snap, req, cacheFaults>>

InsertBSCWatchAddresses(h) == InsertWatchAddresses(h)

\* Row by row; where one fails the others still go.
DisableWatchAddress(h) ==
    /\ at[h] = "disable"
    /\ \E a \in req[h] :
          /\ req' = [req EXCEPT ![h] = @ \ {a}]
          /\ \/ active' = active \ {a} /\ UNCHANGED cacheFaults
             \/ CallFault /\ UNCHANGED active
    /\ UNCHANGED <<chain, cache, at, snap>>

\* Whatever failed.
Disabled(h) ==
    /\ at[h] = "disable" /\ req[h] = {}
    /\ MoveTo(h, "load")
    /\ UNCHANGED <<chain, active, cache, snap, req, cacheFaults>>

\* In one statement; nothing is reloaded.
SoftDeleteBSCWatchAddresses(h) ==
    /\ at[h] = "disable"
    /\ active' = active \ req[h]
    /\ Answer(h)
    /\ UNCHANGED <<chain, cache, snap, cacheFaults>>

RowsFail(h) ==
    /\ at[h] \in {"find", "insert"} \/ (at[h] = "disable" /\ chain = "bsc")
    /\ CallFault /\ Answer(h)
    /\ UNCHANGED <<chain, active, cache, snap>>

\* After either the rows' balances are read, which changes nothing here (BalanceRows,
\* BscBalances).
HandleAddWatchAddresses(h) ==
    chain = "tron" /\ (FindExistingWatchAddresses(h) \/ InsertWatchAddresses(h))
HandleBSCAddWatchAddresses(h) ==
    chain = "bsc" /\ (FindExistingBSCWatchAddresses(h) \/ InsertBSCWatchAddresses(h))
HandleDeleteWatchAddress(h) == chain = "tron" /\ (DisableWatchAddress(h) \/ Disabled(h))
HandleBSCDeleteAddresses(h) == chain = "bsc" /\ SoftDeleteBSCWatchAddresses(h)

-----------------------------------------------------------------------------
RunnerStep == LoadRows(Runner) \/ Install(Runner) \/ LoadFails(Runner) \/ Tick \/ Rerun
HandlerStep(h) ==
    \/ Ask(h) \/ RowsFail(h) \/ LoadRows(h) \/ Install(h) \/ LoadFails(h)
    \/ HandleAddWatchAddresses(h) \/ HandleBSCAddWatchAddresses(h)
    \/ HandleDeleteWatchAddress(h) \/ HandleBSCDeleteAddresses(h)

CacheNext == RunnerStep \/ \E h \in Handlers : HandlerStep(h)

\* The process ends and starts again: requests are cut off, the rows stay.
CacheRestart ==
    /\ cache' = {}
    /\ at' = [l \in Loaders |-> IF l = Runner THEN "first" ELSE "idle"]
    /\ snap' = [l \in Loaders |-> {}] /\ req' = [h \in Handlers |-> {}]
    /\ UNCHANGED <<chain, active, cacheFaults>>

-----------------------------------------------------------------------------
(* The copy in memory catches up with the database: an address that stays  *)
(* watched is in the cache for good, one that stays deleted is out of it,  *)
(* whatever reloads overtook one another, failed, or were of the wrong     *)
(* chain's cache.                                                          *)
CacheCatchesUp ==
    \A a \in Addresses :
        /\ <>[](a \in active) => <>[](a \in cache)
        /\ <>[](a \notin active) => <>[](a \notin cache)
=============================================================================
