------------------------------ MODULE SyncLock ------------------------------
(***************************************************************************)
(* The per-account sync lock (apps/exchange/services/lock.py) and the runs *)
(* that take it (SyncService.run, apps/exchange/services/sync.py).         *)
(*                                                                         *)
(* The lock is the Redis key sync:account:<id>, set by SET NX EX ttl to    *)
(* the constant value "1" and deleted unconditionally when the `with`      *)
(* block is left. The value does not name its owner, so nothing in the     *)
(* program can tell one run's key from the next one's; `setter` is an      *)
(* auxiliary variable that remembers it here. Nothing in the program bounds *)
(* a run by the TTL either: a run may outlive its key, after which runs    *)
(* overlap and delete each other's keys. The auxiliary variable `overran`  *)
(* marks that time, from the tick that drops the key of a live run until   *)
(* no run is inside.                                                       *)
(***************************************************************************)
EXTENDS Naturals

CONSTANTS
    Runs,      \* Celery worker processes that may sync the account
    TTL,       \* SYNC_LOCK_TTL_SECONDS, in ticks
    MaxRun,    \* bound: ticks a run may stay inside, before or beyond the TTL
    Nobody,    \* no run: the value of `setter` while the key is absent
    Abandoned, \* the holder, to the abstract mutex, of a dead run's key
    Shared     \* the holder, to the abstract mutex, after a run outlived its key

ASSUME TTLAssumption == TTL \in Nat \ {0}
ASSUME MaxRunAssumption == MaxRun \in Nat \ {0}
ASSUME HolderAssumption ==
    /\ Nobody \notin Runs /\ Abandoned \notin Runs /\ Shared \notin Runs
    /\ Nobody # Abandoned /\ Nobody # Shared /\ Abandoned # Shared

VARIABLES
    ttl,       \* remaining life of the Redis key, 0 when it is absent
    setter,    \* auxiliary: the run whose SET created the present key
    pc,        \* where each process is in SyncService.run
    age,       \* ticks since each live run took the lock
    log,       \* status of the last SyncLog row each process wrote
    overran    \* auxiliary: a run now inside, or one it overlapped, outlived its key

vars == <<ttl, setter, pc, age, log, overran>>

Inside == {"syncing", "leaving"}
LogStatus == {"none", "RUNNING", "SUCCESS", "FAILED", "SKIPPED"}

TypeOK ==
    /\ ttl \in 0..TTL
    /\ setter \in Runs \cup {Nobody}
    /\ pc \in [Runs -> {"idle"} \cup Inside]
    /\ age \in [Runs -> 0..MaxRun]
    /\ log \in [Runs -> LogStatus]
    /\ overran \in BOOLEAN

(* The processes inside the `with sync_lock` body or about to leave it.    *)
Live == {r \in Runs : pc[r] \in Inside}

-----------------------------------------------------------------------------
Init ==
    /\ ttl = 0
    /\ setter = Nobody
    /\ pc = [r \in Runs |-> "idle"]
    /\ age = [r \in Runs |-> 0]
    /\ log = [r \in Runs |-> "none"]
    /\ overran = FALSE

(* Mutant of Acquire: SET without NX.                                      *)
AcquireWithoutNX(r) ==
    /\ pc[r] = "idle"
    /\ ttl' = TTL
    /\ setter' = r
    /\ pc' = [pc EXCEPT ![r] = "syncing"]
    /\ age' = [age EXCEPT ![r] = 0]
    /\ log' = [log EXCEPT ![r] = "RUNNING"]
    /\ UNCHANGED overran

(* SET sync:account:<id> 1 NX EX ttl on an absent key, then the RUNNING row. *)
Acquire(r) ==
    /\ pc[r] = "idle"
    /\ ttl = 0
    /\ ttl' = TTL
    /\ setter' = r
    /\ pc' = [pc EXCEPT ![r] = "syncing"]
    /\ age' = [age EXCEPT ![r] = 0]
    /\ log' = [log EXCEPT ![r] = "RUNNING"]
    /\ UNCHANGED overran

(* Mutant of Skip: the DEL of lock.py:22 outside `if acquired`.            *)
SkipDeletesKey(r) ==
    /\ pc[r] = "idle"
    /\ ttl > 0
    /\ ttl' = 0
    /\ setter' = Nobody
    /\ log' = [log EXCEPT ![r] = "SKIPPED"]
    /\ UNCHANGED <<pc, age, overran>>

(* The key exists: the body gets False and only writes a SKIPPED row.      *)
Skip(r) ==
    /\ pc[r] = "idle"
    /\ ttl > 0
    /\ log' = [log EXCEPT ![r] = "SKIPPED"]
    /\ UNCHANGED <<ttl, setter, pc, age, overran>>

(* _execute_sync returns: its row is closed, the lock is still held.       *)
(* PARTIAL never occurs: errors_count is raised only where FAILED is set.  *)
Close(r, status) ==
    /\ pc[r] = "syncing"
    /\ pc' = [pc EXCEPT ![r] = "leaving"]
    /\ log' = [log EXCEPT ![r] = status]
    /\ UNCHANGED <<ttl, setter, age, overran>>

(* The finally clause: DEL, whoever's key is there now.                    *)
Release(r) ==
    /\ pc[r] = "leaving"
    /\ ttl' = 0
    /\ setter' = Nobody
    /\ pc' = [pc EXCEPT ![r] = "idle"]
    /\ age' = [age EXCEPT ![r] = 0]
    /\ overran' = (overran /\ Live' # {})
    /\ UNCHANGED log

(* The worker is killed, or Redis does not answer the DEL: the run is over *)
(* and the key stays. A row still RUNNING is never closed.                 *)
Crash(r) ==
    /\ pc[r] \in Inside
    /\ pc' = [pc EXCEPT ![r] = "idle"]
    /\ age' = [age EXCEPT ![r] = 0]
    /\ overran' = (overran /\ Live' # {})
    /\ UNCHANGED <<ttl, setter, log>>

(* Mutant of Tick: SET without EX, the key never expires.                  *)
TickWithoutEX ==
    /\ \A r \in Live : age[r] < MaxRun
    /\ age' = [r \in Runs |-> IF r \in Live THEN age[r] + 1 ELSE 0]
    /\ UNCHANGED <<ttl, setter, pc, log, overran>>

(* Time passes: Redis drops the key when its life is over, whether or not  *)
(* the run that set it is still inside.                                    *)
Tick ==
    /\ \A r \in Live : age[r] < MaxRun
    /\ ttl' = IF ttl > 0 THEN ttl - 1 ELSE 0
    /\ setter' = IF ttl > 1 THEN setter ELSE Nobody
    /\ age' = [r \in Runs |-> IF r \in Live THEN age[r] + 1 ELSE 0]
    /\ overran' = (overran \/ (ttl = 1 /\ Live # {}))
    /\ UNCHANGED <<pc, log>>

Next ==
    \/ Tick
    \/ \E r \in Runs :
        \/ Acquire(r)
        \/ Skip(r)
        \/ Close(r, "SUCCESS")
        \/ Close(r, "FAILED")
        \/ Release(r)
        \/ Crash(r)

(* Beat attempts a sync every hour, a worker that runs keeps running until *)
(* it finishes, is killed or loses Redis, and the clock does not stop.     *)
Fairness ==
    /\ WF_vars(Tick)
    /\ \A r \in Runs :
        /\ WF_vars(Acquire(r))
        /\ WF_vars(\E s \in {"SUCCESS", "FAILED"} : Close(r, s))
        /\ WF_vars(Release(r))

SafeSpec == Init /\ [][Next]_vars
Spec == SafeSpec /\ Fairness

-----------------------------------------------------------------------------
(* Two runs of an account list, store and normalise at the same time       *)
(* (sync_lock is there to prevent it: "Sync already running", sync.py:44)  *)
(* only after a run outlived the TTL of its key. No skipped attempt, no    *)
(* killed worker and no lost DEL lets a second run in before that, and     *)
(* once all runs of an overlap are out, exclusion holds again.             *)
MutualExclusion == overran \/ \A r, s \in Live : r = s

(* The DEL of lock.py:22 does not look at whose key it is; it deletes the  *)
(* key of another run only after a run outlived the TTL of its own.        *)
DeletesOwnKey ==
    [][\A r \in Runs : pc[r] = "leaving" /\ pc'[r] = "idle" /\ ttl > 0 /\ ttl' = 0
            => overran \/ setter = r]_vars

(* However often workers are killed inside the lock, or Redis loses the    *)
(* DEL, a later attempt gets in again: the TTL frees the account.          *)
SyncsKeepStarting == []<>(\E r \in Runs : pc[r] = "syncing")

-----------------------------------------------------------------------------
(* Refinement: the account is shared once a run outlived its key, else     *)
(* held by the live run, or abandoned while the key of a dead run lives,   *)
(* or free.                                                                *)
holder ==
    IF overran THEN Shared
    ELSE IF Live # {} THEN CHOOSE r \in Runs : r \in Live
    ELSE IF ttl > 0 THEN Abandoned
    ELSE Nobody

Mutex == INSTANCE SyncMutex WITH Free <- Nobody

(* The Redis lock implements the abstract lease, the liveness included:    *)
(* an account is shared in no other way than by a holder that overran.     *)
ImplementsMutex == Mutex!Spec
=============================================================================
