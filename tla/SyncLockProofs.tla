--------------------------- MODULE SyncLockProofs ---------------------------
(***************************************************************************)
(* The sync lock, for every set of processes, every TTL and runs of any    *)
(* length, those that outlive their key included. The invariant ties the   *)
(* remaining life of the key to the age of the run inside, so that until   *)
(* a run has outlived its key, the key present when a run leaves is the    *)
(* run's own.                                                              *)
(***************************************************************************)
EXTENDS SyncLock, TLAPS

(* The key of a live run has lived as long as the run, and is its own.     *)
Lease ==
    overran \/ \A r \in Live : ttl = TTL - age[r] /\ ttl > 0 /\ setter = r

IInv == TypeOK /\ Lease

USE TTLAssumption, MaxRunAssumption, HolderAssumption

-----------------------------------------------------------------------------
(* The state of the lock keeps its type (lock.py:10-22).                   *)
THEOREM TypeCorrect == SafeSpec => []TypeOK
<1>1. Init => TypeOK
  <2>1. Init => overran \in BOOLEAN
    BY DEF Init
  <2>2. QED
    BY <2>1 DEF Init, TypeOK, LogStatus
<1>2. ASSUME TypeOK, [Next]_vars PROVE TypeOK'
  <2> USE <1>2 DEF TypeOK, Inside, LogStatus
  <2>1. CASE Tick
    <3>1. ttl' \in 0..TTL
      BY <2>1 DEF Tick
    <3>2. age' \in [Runs -> 0..MaxRun]
      BY <2>1 DEF Tick, Live
    <3>3. QED
      BY <2>1, <3>1, <3>2 DEF Tick
  <2>2. ASSUME NEW r \in Runs, Acquire(r) PROVE TypeOK'
    BY <2>2 DEF Acquire
  <2>3. ASSUME NEW r \in Runs, Skip(r) PROVE TypeOK'
    BY <2>3 DEF Skip
  <2>4. ASSUME NEW r \in Runs, NEW s \in {"SUCCESS", "FAILED"}, Close(r, s) PROVE TypeOK'
    BY <2>4 DEF Close
  <2>5. ASSUME NEW r \in Runs, Release(r) PROVE TypeOK'
    BY <2>5 DEF Release
  <2>6. ASSUME NEW r \in Runs, Crash(r) PROVE TypeOK'
    BY <2>6 DEF Crash
  <2>7. CASE UNCHANGED vars
    BY <2>7 DEF vars
  <2>8. QED
    BY <2>1, <2>2, <2>3, <2>4, <2>5, <2>6, <2>7 DEF Next
<1>3. QED
  BY <1>1, <1>2, PTL DEF SafeSpec

-----------------------------------------------------------------------------
(* Until a run has outlived its key, a live run's key is present.          *)
LEMMA LeaseKeepsKey ==
    ASSUME IInv, ~overran, NEW r \in Live
    PROVE  ttl > 0 /\ setter = r
BY DEF IInv, Lease

(* Two live runs would both be the setter of the one key.                  *)
LEMMA LeaseExcludes == IInv => MutualExclusion
BY DEF IInv, Lease, MutualExclusion

LEMMA LeaseInit == Init => IInv
<1> SUFFICES ASSUME Init PROVE IInv
  OBVIOUS
<1>1. TypeOK
  <2>1. overran \in BOOLEAN
    BY DEF Init
  <2>2. QED
    BY <2>1 DEF Init, TypeOK, LogStatus
<1>2. Lease
  BY DEF Init, Lease, Live, Inside
<1>3. QED
  BY <1>1, <1>2 DEF IInv

(* Every step keeps the lease: a run enters only where no key is, hence    *)
(* where no run lives or one has overrun, and the tick that takes the key  *)
(* of a live run marks the overrun.                                        *)
LEMMA LeaseStep ==
    ASSUME IInv, TypeOK', [Next]_vars
    PROVE  IInv'
<1> USE DEF TypeOK, Inside, Live
<1>1. CASE Tick
  <2> SUFFICES ASSUME ~overran', NEW r \in Live'
               PROVE  ttl' = TTL - age'[r] /\ ttl' > 0 /\ setter' = r
    BY DEF IInv, Lease
  <2>1. r \in Live /\ r \in Runs
    BY <1>1 DEF Tick
  <2>2. ~overran /\ ttl # 1
    BY <1>1, <2>1 DEF Tick, IInv
  <2>3. ttl = TTL - age[r] /\ ttl > 0 /\ setter = r /\ age[r] \in 0..MaxRun
    BY <2>1, <2>2 DEF IInv, Lease
  <2>4. age'[r] = age[r] + 1
    BY <1>1, <2>1 DEF Tick
  <2>5. ttl > 1
    BY <2>2, <2>3 DEF IInv
  <2>6. QED
    BY <1>1, <2>3, <2>4, <2>5 DEF Tick
<1>2. ASSUME NEW r \in Runs, Acquire(r) PROVE IInv'
  <2>1. CASE overran
    BY <1>2, <2>1 DEF Acquire, IInv, Lease
  <2>2. CASE ~overran
    <3>1. Live = {}
      BY <1>2, <2>2, LeaseKeepsKey DEF Acquire
    <3>2. Live' = {r}
      BY <1>2, <3>1 DEF Acquire, IInv
    <3>3. ttl' = TTL - age'[r] /\ ttl' > 0 /\ setter' = r
      BY <1>2 DEF Acquire, IInv
    <3>4. QED
      BY <3>2, <3>3 DEF IInv, Lease
  <2>3. QED
    BY <2>1, <2>2
<1>3. ASSUME NEW r \in Runs, Skip(r) PROVE IInv'
  BY <1>3 DEF Skip, IInv, Lease
<1>4. ASSUME NEW r \in Runs, NEW s \in {"SUCCESS", "FAILED"}, Close(r, s) PROVE IInv'
  <2>1. Live' = Live
    BY <1>4 DEF Close, IInv
  <2>2. QED
    BY <1>4, <2>1 DEF Close, IInv, Lease
<1>5. ASSUME NEW r \in Runs, Release(r) PROVE IInv'
  <2>1. CASE overran
    <3>1. ~overran' => Live' = {}
      BY <1>5, <2>1 DEF Release
    <3>2. QED
      BY <3>1 DEF IInv, Lease
  <2>2. CASE ~overran
    <3>1. Live' \subseteq {}
      BY <1>5, <2>2, LeaseExcludes DEF Release, IInv, MutualExclusion
    <3>2. QED
      BY <3>1 DEF IInv, Lease
  <2>3. QED
    BY <2>1, <2>2
<1>6. ASSUME NEW r \in Runs, Crash(r) PROVE IInv'
  <2>1. \A s \in Live' : s \in Live /\ age'[s] = age[s]
    BY <1>6 DEF Crash, IInv
  <2>2. overran /\ ~overran' => Live' = {}
    BY <1>6 DEF Crash
  <2>3. QED
    BY <1>6, <2>1, <2>2 DEF Crash, IInv, Lease
<1>7. CASE UNCHANGED vars
  BY <1>7 DEF vars, IInv, Lease
<1>8. QED
  BY <1>1, <1>2, <1>3, <1>4, <1>5, <1>6, <1>7 DEF Next

LEMMA LeaseInvariant == SafeSpec => []IInv
<1>1. IInv /\ TypeOK' /\ [Next]_vars => IInv'
  BY LeaseStep
<1>2. QED
  BY <1>1, LeaseInit, TypeCorrect, PTL DEF SafeSpec

-----------------------------------------------------------------------------
(* Two runs sync the same account at the same time (sync.py:38-48) only    *)
(* after one of them, or of the runs they overlap, outlived its key.       *)
THEOREM Exclusion == SafeSpec => []MutualExclusion
BY LeaseInvariant, LeaseExcludes, PTL

(* The unconditional DEL of lock.py:22 removes the key of another run      *)
(* only after a run outlived its key.                                      *)
THEOREM OwnKey == SafeSpec => DeletesOwnKey
<1>1. IInv => (\A r \in Runs : pc[r] = "leaving" /\ pc'[r] = "idle" /\ ttl > 0 /\ ttl' = 0
                    => overran \/ setter = r)
  BY DEF IInv, Lease, Live, Inside
<1>2. QED
  BY <1>1, LeaseInvariant, PTL DEF DeletesOwnKey

(* The Redis lock with its TTL implements the abstract lease: every step   *)
(* of a run enters, leaves or abandons the account, expiry recovers it or  *)
(* makes it a shared one, and it is shared until the last run is out.      *)
THEOREM Refinement == SafeSpec => Mutex!SafeSpec
<1>1. Init => Mutex!Init
  BY DEF Init, Mutex!Init, holder, Live, Inside
<1>2. ASSUME IInv, IInv', [Next]_vars PROVE [Mutex!Next]_holder
  <2>1. ~overran => \A r \in Live : holder = r /\ r \in Runs
    BY <1>2, LeaseExcludes DEF holder, MutualExclusion, Live
  <2>2. ~overran' => \A r \in Live' : holder' = r /\ r \in Runs
    <3>1. MutualExclusion'
      BY <1>2, LeaseExcludes, PTL
    <3>2. QED
      BY <3>1 DEF holder, MutualExclusion, Live
  <2>3. ~overran /\ Live = {} => holder = IF ttl > 0 THEN Abandoned ELSE Nobody
    BY DEF holder
  <2>4. ~overran' /\ Live' = {} => holder' = IF ttl' > 0 THEN Abandoned ELSE Nobody
    BY DEF holder
  <2>5. /\ overran => holder = Shared
        /\ overran' => holder' = Shared
    BY DEF holder
  <2>6. CASE Tick
    <3>1. Live' = Live
      BY <2>6 DEF Tick, Live
    <3>2. CASE overran
      BY <2>5, <2>6, <3>2 DEF Tick
    <3>3. CASE ~overran /\ overran'
      <4>1. PICK r \in Live : TRUE
        BY <2>6, <3>3 DEF Tick
      <4>2. Mutex!Overrun(r)
        BY <2>1, <2>5, <3>3, <4>1 DEF Mutex!Overrun
      <4>3. QED
        BY <4>1, <4>2 DEF Mutex!Next, Live
    <3>4. CASE ~overran' /\ Live # {}
      BY <2>1, <2>2, <2>6, <3>1, <3>4 DEF Tick
    <3>5. CASE ~overran' /\ Live = {}
      BY <1>2, <2>3, <2>4, <2>6, <3>1, <3>5
         DEF Tick, Mutex!Next, Mutex!Recover, IInv, TypeOK
    <3>6. QED
      BY <3>2, <3>3, <3>4, <3>5
  <2>7. ASSUME NEW r \in Runs, Acquire(r) PROVE [Mutex!Enter(r)]_holder
    <3>1. CASE overran
      BY <2>5, <2>7, <3>1 DEF Acquire
    <3>2. CASE ~overran
      <4>1. Live = {}
        BY <1>2, <2>7, <3>2, LeaseKeepsKey DEF Acquire
      <4>2. r \in Live' /\ ~overran'
        BY <1>2, <2>7, <3>2 DEF Acquire, Live, Inside, IInv, TypeOK
      <4>3. QED
        BY <2>2, <2>3, <2>7, <3>2, <4>1, <4>2 DEF Acquire, Mutex!Enter
    <3>3. QED
      BY <3>1, <3>2
  <2>8. ASSUME NEW r \in Runs,
               Skip(r) \/ \E s \in {"SUCCESS", "FAILED"} : Close(r, s)
        PROVE  UNCHANGED holder
    <3>1. Live' = Live /\ ttl' = ttl /\ overran' = overran
      BY <1>2, <2>8 DEF Skip, Close, Live, Inside, IInv, TypeOK
    <3>2. QED
      BY <3>1 DEF holder
  <2>9. ASSUME NEW r \in Runs, Release(r) PROVE [Mutex!Leave(r) \/ Mutex!Heal]_holder
    <3>1. r \in Live /\ ttl' = 0
      BY <2>9 DEF Release, Live, Inside
    <3>2. Live' = {} => ~overran'
      BY <2>9 DEF Release
    <3>3. Live' = {} => holder' = Nobody
      <4>1. ~(ttl' > 0)
        BY <3>1
      <4>2. QED
        BY <2>4, <3>2, <4>1
    <3>4. CASE overran
      <4>1. CASE Live' = {}
        BY <2>5, <3>4, <3>3, <4>1 DEF Mutex!Heal
      <4>2. CASE Live' # {}
        BY <2>5, <2>9, <3>4, <4>2 DEF Release
      <4>3. QED
        BY <4>1, <4>2
    <3>5. CASE ~overran
      <4>1. Live' = {}
        BY <1>2, <2>9, <3>1, <3>5, LeaseExcludes
           DEF Release, Live, Inside, IInv, TypeOK, MutualExclusion
      <4>2. QED
        BY <2>1, <3>1, <3>5, <3>3, <4>1 DEF Mutex!Leave
    <3>6. QED
      BY <3>4, <3>5
  <2>10. ASSUME NEW r \in Runs, Crash(r) PROVE [Mutex!Abandon(r) \/ Mutex!Heal]_holder
    <3>1. r \in Live
      BY <2>10 DEF Crash, Live
    <3>2. CASE overran
      <4>1. CASE Live' = {}
        <5>1. holder' \in {Nobody, Abandoned}
          BY <2>4, <2>10, <4>1 DEF Crash
        <5>2. QED
          BY <2>5, <3>2, <5>1 DEF Mutex!Heal
      <4>2. CASE Live' # {}
        BY <2>5, <2>10, <3>2, <4>2 DEF Crash
      <4>3. QED
        BY <4>1, <4>2
    <3>3. CASE ~overran
      <4>1. Live' = {}
        BY <1>2, <2>10, <3>1, <3>3, LeaseExcludes
           DEF Crash, Live, Inside, IInv, TypeOK, MutualExclusion
      <4>2. ttl' > 0 /\ ~overran'
        BY <1>2, <2>10, <3>1, <3>3, LeaseKeepsKey DEF Crash
      <4>3. QED
        BY <2>1, <2>4, <3>1, <3>3, <4>1, <4>2 DEF Mutex!Abandon
    <3>4. QED
      BY <3>2, <3>3
  <2>11. CASE UNCHANGED vars
    BY <2>11 DEF vars, holder, Live
  <2>12. QED
    BY <1>2, <2>6, <2>7, <2>8, <2>9, <2>10, <2>11 DEF Next, Mutex!Next
<1>3. QED
  BY <1>1, <1>2, LeaseInvariant, PTL DEF SafeSpec, Mutex!SafeSpec
=============================================================================
