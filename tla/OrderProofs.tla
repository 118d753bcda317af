---------------------------- MODULE OrderProofs ----------------------------
(***************************************************************************)
(* One order, for any number of processes: who writes its rows (OrderRow)  *)
(* and what they write as its fee (OrderFee).                              *)
(*                                                                         *)
(* Of the rows: a stored detail outlives every writer of the raw row but   *)
(* the admin's form, for of the others the only step that writes a list    *)
(* payload into it finds no row there: it was read as absent, and the      *)
(* unique key refuses it if it has come since. Of the fee: what settles    *)
(* stays, although each run computes it from the row's own figures.        *)
(***************************************************************************)
EXTENDS OrderRow, OrderFee, TLAPS

(* What a process holds while it works.                                    *)
Job == [seen : {"absent"} \cup Payloads, copy : Copies, pending : BOOLEAN,
        pc : {"idle", "store", "snapshot", "read", "save", "apply", "queue"}]

LEMMA WorkerType == TypeOK <=>
    /\ raw \in {"absent"} \cup Payloads
    /\ order \in Rows
    /\ user \in {"none"} \cup Payloads /\ raw_form \in {"none"} \cup Payloads
    /\ before \in BOOLEAN /\ rule \in BOOLEAN /\ recent \in BOOLEAN
    /\ worker \in [Workers -> Job]
    /\ details \in BOOLEAN /\ rebuilds \in BOOLEAN /\ ledger \in BOOLEAN
BY DEF TypeOK, Job

(* The rows an action may write are rows.                                  *)
LEMMA RowTypes ==
  /\ NoRow \in Rows
  /\ \A net \in Payloads, included \in BOOLEAN : Row(net, included) \in Rows
  /\ \A r \in Rows : Exclude(r) \in Rows
  /\ \A r \in Rows : r.included \in BOOLEAN
  /\ \A r \in Rows : r.included => r.net \in Payloads
  /\ \A r \in Rows : r # NoRow => r.net \in Payloads
  /\ \A r \in Rows : Flags(r) \in Copies
  /\ Idle \in Job
<1>1. /\ NoRow \in Rows
      /\ \A net \in Payloads, included \in BOOLEAN : Row(net, included) \in Rows
      /\ \A r \in Rows : Exclude(r) \in Rows
  BY DEF NoRow, Rows, Row, Exclude, Payloads
<1>2. ASSUME NEW r \in Rows
      PROVE  /\ r.included \in BOOLEAN
             /\ r.included => r.net \in Payloads
             /\ r # NoRow => r.net \in Payloads
  <2>1. CASE r \in [net : Payloads, included : BOOLEAN]
    BY <2>1
  <2>2. CASE r = NoRow
    BY <2>2 DEF NoRow
  <2> QED
    BY <2>1, <2>2 DEF Rows
<1>3. Idle \in Job /\ \A r \in Rows : Flags(r) \in Copies
  BY <1>1 DEF Idle, Job, Copies, Flags
<1> QED
  BY <1>1, <1>2, <1>3

(* A raw row that a process has seen, or goes on to normalise, is there,   *)
(* and it normalises a payload.                                            *)
Sound(job, r) ==
    /\ job.pc = "store" /\ job.seen # "absent" => r # "absent"
    /\ job.pc \in {"snapshot", "read", "save"} => r # "absent"
    /\ job.pc \in {"read", "save"} => job.seen # "absent"

StoredInv == \A w \in Workers : Sound(worker[w], raw)

IInv == TypeOK /\ StoredInv

LEMMA InitInv == Init => IInv
<1> SUFFICES ASSUME Init PROVE IInv
  OBVIOUS
<1>1. worker \in [Workers -> Job] /\ \A w \in Workers : worker[w].pc = "idle"
  BY RowTypes DEF Init, Idle
<1>2. /\ raw \in {"absent"} \cup Payloads /\ order \in Rows
      /\ user \in {"none"} \cup Payloads /\ raw_form \in {"none"} \cup Payloads
  BY RowTypes DEF Init
<1>3. TypeOK
  <2>1. /\ before \in BOOLEAN /\ rule \in BOOLEAN /\ recent \in BOOLEAN
        /\ details \in BOOLEAN /\ rebuilds \in BOOLEAN /\ ledger \in BOOLEAN
    BY DEF Init
  <2> QED
    BY <1>1, <1>2, <2>1, WorkerType
<1>4. StoredInv
  BY <1>1 DEF StoredInv, Sound
<1> QED
  BY <1>3, <1>4 DEF IInv

-----------------------------------------------------------------------------
(* One process gets a new job or goes a step further, and the raw row      *)
(* stays or comes.                                                         *)
LEMMA Onwards ==
  ASSUME IInv, NEW w \in Workers, NEW job \in Job, worker' = [worker EXCEPT ![w] = job],
         raw' \in {"absent"} \cup Payloads, raw # "absent" => raw' # "absent",
         Sound(job, raw'),
         order' \in Rows, UNCHANGED <<user, raw_form>>, before' \in BOOLEAN, rule' \in BOOLEAN,
         UNCHANGED recent, details' \in BOOLEAN, rebuilds' \in BOOLEAN, UNCHANGED ledger
  PROVE  IInv'
<1>1. /\ worker \in [Workers -> Job] /\ recent \in BOOLEAN /\ ledger \in BOOLEAN
      /\ user \in {"none"} \cup Payloads /\ raw_form \in {"none"} \cup Payloads
  BY WorkerType DEF IInv
<1>2. worker' \in [Workers -> Job]
  BY <1>1
<1>3. TypeOK'
  <2>1. /\ user' \in {"none"} \cup Payloads /\ raw_form' \in {"none"} \cup Payloads
        /\ recent' \in BOOLEAN /\ ledger' \in BOOLEAN
    BY <1>1
  <2> QED
    BY <1>2, <2>1 DEF TypeOK, Job
<1>4. \A v \in Workers : worker'[v] = IF v = w THEN job ELSE worker[v]
  BY <1>1
<1>5. StoredInv'
  BY <1>4 DEF IInv, StoredInv, Sound
<1> QED
  BY <1>3, <1>5 DEF IInv

(* The steps of a process, each with the job it leaves behind.             *)
LEMMA StepKeeps == ASSUME IInv, NEW w \in Workers, Step(w) \/ Abort(w) PROVE IInv'
<1>1. /\ worker \in [Workers -> Job] /\ worker[w] \in Job
      /\ raw \in {"absent"} \cup Payloads /\ order \in Rows
      /\ before \in BOOLEAN /\ rule \in BOOLEAN /\ details \in BOOLEAN /\ rebuilds \in BOOLEAN
      /\ Sound(worker[w], raw)
  BY WorkerType DEF IInv, StoredInv
<1>2. CASE SyncStore(w)
  <2> DEFINE next == [worker[w] EXCEPT !.pc = "snapshot", !.seen = "absent",
                                       !.pending = (worker[w].seen # "detailed")]
  <2>1. worker' = [worker EXCEPT ![w] = next]
    BY <1>1, <1>2 DEF SyncStore, Job
  <2>2. next \in Job /\ next.pc = "snapshot"
    BY <1>1 DEF Job
  <2>3. raw' \in Payloads /\ raw' # "absent"
    BY <1>1, <1>2 DEF SyncStore, Payloads, Sound, At
  <2>4. UNCHANGED <<order, before, rule, recent, user, raw_form, details, rebuilds, ledger>>
    BY <1>2 DEF SyncStore, facts
  <2> HIDE DEF next
  <2> QED
    BY <1>1, <2>1, <2>2, <2>3, <2>4, Onwards DEF Sound
<1>3. CASE DetailStore(w)
  <2> DEFINE next == [worker[w] EXCEPT !.pc = "snapshot"]
  <2>1. worker' = [worker EXCEPT ![w] = next]
    BY <1>1, <1>3 DEF DetailStore, Goto, Job
  <2>2. next \in Job /\ next.pc = "snapshot"
    BY <1>1 DEF Job
  <2>3. raw' \in Payloads /\ raw' # "absent"
    BY <1>3 DEF DetailStore, Payloads
  <2>4. UNCHANGED <<order, before, rule, recent, user, raw_form, details, rebuilds, ledger>>
    BY <1>3 DEF DetailStore, facts
  <2> HIDE DEF next
  <2> QED
    BY <1>1, <2>1, <2>2, <2>3, <2>4, Onwards DEF Sound
<1>4. CASE Snapshot(w)
  <2> DEFINE next == [worker[w] EXCEPT !.pc = "read", !.seen = raw]
  <2>1. worker' = [worker EXCEPT ![w] = next]
    BY <1>1, <1>4 DEF Snapshot, Job
  <2>2. next \in Job /\ next.pc = "read" /\ next.seen = raw
    BY <1>1 DEF Job
  <2>3. raw # "absent"
    BY <1>1, <1>4 DEF Snapshot, At, Sound
  <2>4. UNCHANGED <<raw, order, before, rule, recent, user, raw_form, details, rebuilds, ledger>>
    BY <1>4 DEF Snapshot, rows, facts
  <2> HIDE DEF next
  <2> QED
    BY <1>1, <2>1, <2>2, <2>3, <2>4, Onwards DEF Sound
<1>5. CASE ReadOrder(w)
  <2> DEFINE next == [worker[w] EXCEPT !.pc = "save", !.copy = Flags(order)]
  <2>1. worker' = [worker EXCEPT ![w] = next]
    BY <1>1, <1>5 DEF ReadOrder, Job
  <2>2. next \in Job /\ next.pc = "save" /\ next.seen = worker[w].seen
    BY <1>1, RowTypes DEF Job
  <2>3. raw # "absent" /\ worker[w].seen # "absent"
    BY <1>1, <1>5 DEF ReadOrder, At, Sound
  <2>4. UNCHANGED <<raw, order, before, rule, recent, user, raw_form, details, rebuilds, ledger>>
    BY <1>5 DEF ReadOrder, rows, facts
  <2> HIDE DEF next
  <2> QED
    BY <1>1, <2>1, <2>2, <2>3, <2>4, Onwards DEF Sound
<1>6. CASE SaveOrder(w)
  <2> DEFINE next == [worker[w] EXCEPT !.pc = "apply", !.seen = "absent", !.copy = "none"]
  <2>1. worker' = [worker EXCEPT ![w] = next]
    BY <1>1, <1>6 DEF SaveOrder, Job
  <2>2. next \in Job /\ next.pc = "apply"
    BY <1>1 DEF Job, Copies
  <2>3. worker[w].seen \in Payloads
    BY <1>1, <1>6 DEF SaveOrder, At, Sound, Job
  <2>4. order' \in Rows
    BY <1>6, <2>3, RowTypes DEF SaveOrder
  <2>5. UNCHANGED <<raw, before, rule, recent, user, raw_form, details, rebuilds, ledger>>
    BY <1>6 DEF SaveOrder, facts
  <2> HIDE DEF next
  <2> QED
    BY <1>1, <2>1, <2>2, <2>4, <2>5, Onwards DEF Sound
<1>7. CASE ApplyRules(w)
  <2> DEFINE next == [worker[w] EXCEPT !.pc = "queue"]
  <2>1. worker' = [worker EXCEPT ![w] = next]
    BY <1>1, <1>7 DEF ApplyRules, Goto, Job
  <2>2. next \in Job /\ next.pc = "queue"
    BY <1>1 DEF Job
  <2>3. order' \in Rows
    BY <1>1, <1>7, RowTypes DEF ApplyRules
  <2>4. UNCHANGED <<raw, before, rule, recent, user, raw_form, details, rebuilds, ledger>>
    BY <1>7 DEF ApplyRules, facts
  <2> HIDE DEF next
  <2> QED
    BY <1>1, <2>1, <2>2, <2>3, <2>4, Onwards DEF Sound
<1>8. CASE Queue(w) \/ Refused(w) \/ Abort(w)
  <2>1. worker' = [worker EXCEPT ![w] = Idle]
    BY <1>8 DEF Queue, Refused, Abort
  <2>2. Idle \in Job /\ Idle.pc = "idle"
    BY RowTypes DEF Idle
  <2>3. UNCHANGED <<raw, order, before, rule, recent, user, raw_form, ledger>>
    BY <1>8 DEF Queue, Refused, Abort, rows, facts
  <2>4. details' \in BOOLEAN /\ rebuilds' \in BOOLEAN
    BY <1>1, <1>8 DEF Queue, Refused, Abort
  <2> QED
    BY <1>1, <2>1, <2>2, <2>3, <2>4, Onwards DEF Sound
<1> QED
  BY <1>2, <1>3, <1>4, <1>5, <1>6, <1>7, <1>8 DEF Step

(* A job that begins: nothing but itself and the rules may change.         *)
LEMMA Beginning ==
  ASSUME IInv, NEW w \in Workers, NEW job \in Job, worker' = [worker EXCEPT ![w] = job],
         \/ job.pc \in {"store", "apply"}
         \/ job.pc = "snapshot" /\ raw # "absent",
         job.seen = "absent" \/ job.seen = raw,
         before' \in BOOLEAN, rule' \in BOOLEAN, details' \in BOOLEAN,
         UNCHANGED <<rows, recent, user, raw_form, rebuilds, ledger>>
  PROVE  IInv'
<1>1. UNCHANGED <<raw, order, recent, user, raw_form, rebuilds, ledger>>
  BY DEF rows
<1>2. /\ raw \in {"absent"} \cup Payloads /\ order \in Rows /\ rebuilds \in BOOLEAN
  BY WorkerType DEF IInv
<1>3. Sound(job, raw')
  BY <1>1 DEF Sound
<1> QED
  BY <1>1, <1>2, <1>3, Onwards

LEMMA Beginnings ==
  ASSUME IInv, NEW w \in Workers,
         \/ SyncRead(w) \/ SyncPassOver(w)
         \/ DetailRead(w) \/ FetchMissing(w)
         \/ \E b \in BOOLEAN : SetStart(w, b)
         \/ Import(w)
  PROVE  IInv'
<1>1. /\ raw \in {"absent"} \cup Payloads /\ before \in BOOLEAN /\ rule \in BOOLEAN
      /\ details \in BOOLEAN
  BY WorkerType DEF IInv
<1>2. CASE SyncRead(w)
  <2> DEFINE next == [Idle EXCEPT !.pc = "store", !.seen = raw]
  <2>1. worker' = [worker EXCEPT ![w] = next]
    BY <1>2 DEF SyncRead
  <2>2. next \in Job /\ next.pc \in {"store", "apply"} /\ next.seen = raw
    BY <1>1, RowTypes DEF Idle, Job
  <2>3. UNCHANGED <<rows, recent, user, raw_form, rebuilds, ledger, before, rule, details>>
    BY <1>2 DEF SyncRead, facts
  <2> HIDE DEF next
  <2> QED
    BY <1>1, <2>1, <2>2, <2>3, Beginning
<1>3. CASE DetailRead(w) \/ FetchMissing(w)
  <2> DEFINE next == [Idle EXCEPT !.pc = "store"]
  <2>1. worker' = [worker EXCEPT ![w] = next]
    BY <1>3 DEF DetailRead, FetchMissing
  <2>2. next \in Job /\ next.pc \in {"store", "apply"} /\ next.seen = "absent"
    BY <1>1, RowTypes DEF Idle, Job
  <2>3. UNCHANGED <<rows, recent, user, raw_form, rebuilds, ledger, before, rule>>
    BY <1>3 DEF DetailRead, FetchMissing, facts
  <2>4. details' \in BOOLEAN
    BY <1>1, <1>3 DEF DetailRead, FetchMissing
  <2> HIDE DEF next
  <2> QED
    BY <1>1, <2>1, <2>2, <2>3, <2>4, Beginning
<1>4. ASSUME NEW b \in BOOLEAN, SetStart(w, b) PROVE IInv'
  <2> DEFINE next == [Idle EXCEPT !.pc = "apply"]
  <2>1. worker' = [worker EXCEPT ![w] = next]
    BY <1>4 DEF SetStart
  <2>2. next \in Job /\ next.pc \in {"store", "apply"} /\ next.seen = "absent"
    BY <1>1, RowTypes DEF Idle, Job
  <2>3. UNCHANGED <<rows, recent, user, raw_form, rebuilds, ledger, rule, details>>
    BY <1>4 DEF SetStart
  <2>4. before' \in BOOLEAN
    BY <1>1, <1>4 DEF SetStart
  <2> HIDE DEF next
  <2> QED
    BY <1>1, <2>1, <2>2, <2>3, <2>4, Beginning
<1>5. CASE Import(w)
  <2> DEFINE next == [Idle EXCEPT !.pc = "apply"]
  <2>1. worker' = [worker EXCEPT ![w] = next]
    BY <1>5 DEF Import
  <2>2. next \in Job /\ next.pc \in {"store", "apply"} /\ next.seen = "absent"
    BY <1>1, RowTypes DEF Idle, Job
  <2>3. UNCHANGED <<rows, recent, user, raw_form, rebuilds, ledger, before, details>>
    BY <1>5 DEF Import
  <2>4. rule' \in BOOLEAN
    BY <1>1, <1>5 DEF Import
  <2> HIDE DEF next
  <2> QED
    BY <1>1, <2>1, <2>2, <2>3, <2>4, Beginning
<1>6. CASE SyncPassOver(w)
  <2> DEFINE next == [Idle EXCEPT !.pc = "snapshot"]
  <2>1. worker' = [worker EXCEPT ![w] = next]
    BY <1>6 DEF SyncPassOver
  <2>2. next \in Job /\ next.pc = "snapshot" /\ next.seen = "absent"
    BY <1>1, RowTypes DEF Idle, Job
  <2>3. /\ raw # "absent"
        /\ UNCHANGED <<rows, recent, user, raw_form, rebuilds, ledger, before, rule, details>>
    BY <1>6 DEF SyncPassOver, facts
  <2> HIDE DEF next
  <2> QED
    BY <1>1, <2>1, <2>2, <2>3, Beginning
<1> QED
  BY <1>2, <1>3, <1>4, <1>5, <1>6

(* What is done without a job: the user, the admin, the queue, the clock.  *)
LEMMA Others ==
  ASSUME IInv,
         \/ DetailAlreadyThere \/ UserRead \/ AdminMark \/ Rebuild \/ LeaveOverlap
         \/ RawFormRead
         \/ \E include \in BOOLEAN : UserSave(include)
         \/ UNCHANGED vars
  PROVE  IInv'
<1>1. UNCHANGED <<raw, worker, before, rule>>
  BY DEF DetailAlreadyThere, UserRead, AdminMark, Rebuild, LeaveOverlap, RawFormRead, UserSave,
     vars, rows, facts
<1>2. StoredInv'
  BY <1>1 DEF IInv, StoredInv, Sound
<1>3. /\ worker \in [Workers -> Job] /\ raw \in {"absent"} \cup Payloads
      /\ order \in Rows /\ user \in {"none"} \cup Payloads /\ raw_form \in {"none"} \cup Payloads
      /\ before \in BOOLEAN /\ rule \in BOOLEAN /\ recent \in BOOLEAN
      /\ details \in BOOLEAN /\ rebuilds \in BOOLEAN /\ ledger \in BOOLEAN
  BY WorkerType DEF IInv
<1>4. order' \in Rows /\ user' \in {"none"} \cup Payloads
  <2>1. CASE DetailAlreadyThere \/ Rebuild \/ LeaveOverlap \/ RawFormRead \/ UNCHANGED vars
    BY <1>3, <2>1 DEF DetailAlreadyThere, Rebuild, LeaveOverlap, RawFormRead, vars, rows
  <2>2. CASE AdminMark
    BY <1>3, <2>2, RowTypes DEF AdminMark
  <2>3. CASE UserRead
    BY <1>3, <2>3, RowTypes DEF UserRead, rows
  <2>4. ASSUME NEW include \in BOOLEAN, UserSave(include)
        PROVE  order' \in Rows /\ user' \in {"none"} \cup Payloads
    BY <1>3, <2>4, RowTypes DEF UserSave
  <2> QED
    BY <2>1, <2>2, <2>3, <2>4
<1>5. raw_form' \in {"none"} \cup Payloads
  BY <1>3 DEF DetailAlreadyThere, UserRead, AdminMark, Rebuild, LeaveOverlap,
     RawFormRead, UserSave, vars
<1>6. /\ details' \in BOOLEAN /\ rebuilds' \in BOOLEAN /\ recent' \in BOOLEAN
      /\ ledger' \in BOOLEAN
  BY <1>3, RowTypes DEF DetailAlreadyThere, UserRead, AdminMark, Rebuild, LeaveOverlap, RawFormRead,
     UserSave, vars, facts
<1>7. TypeOK'
  BY <1>1, <1>3, <1>4, <1>5, <1>6 DEF TypeOK, Job
<1> QED
  BY <1>2, <1>7 DEF IInv

(* The form writes back a payload it has read: the row is there.           *)
LEMMA FormKeeps == ASSUME IInv, RawFormSave PROVE IInv'
<1>1. /\ worker \in [Workers -> Job] /\ order \in Rows /\ user \in {"none"} \cup Payloads
      /\ raw_form \in Payloads
      /\ before \in BOOLEAN /\ rule \in BOOLEAN /\ recent \in BOOLEAN
      /\ details \in BOOLEAN /\ rebuilds \in BOOLEAN /\ ledger \in BOOLEAN
  BY WorkerType DEF IInv, RawFormSave
<1>2. /\ raw' \in Payloads /\ raw' # "absent" /\ raw_form' = "none"
      /\ UNCHANGED <<order, before, rule, recent, worker, user, details, rebuilds, ledger>>
  BY <1>1 DEF RawFormSave, facts, Payloads
<1>3. TypeOK'
  <2>1. (/\ raw \in {"absent"} \cup Payloads
         /\ order \in Rows
         /\ user \in {"none"} \cup Payloads /\ raw_form \in {"none"} \cup Payloads
         /\ before \in BOOLEAN /\ rule \in BOOLEAN /\ recent \in BOOLEAN
         /\ worker \in [Workers -> Job]
         /\ details \in BOOLEAN /\ rebuilds \in BOOLEAN /\ ledger \in BOOLEAN)'
    BY <1>1, <1>2
  <2> QED
    BY <2>1 DEF TypeOK, Job
<1>4. StoredInv'
  BY <1>2 DEF IInv, StoredInv, Sound
<1> QED
  BY <1>3, <1>4 DEF IInv

LEMMA Invariance == Spec => []IInv
<1>1. IInv /\ [Next]_vars => IInv'
  BY StepKeeps, Beginnings, Others, FormKeeps DEF Next, Workers
<1> QED
  BY <1>1, InitInv, PTL DEF Spec

-----------------------------------------------------------------------------
(* Every row and every job in hand stays well-formed; in particular no     *)
(* process normalises an order without a payload.                          *)
THEOREM RowTypeCorrect == Spec => []TypeOK
BY Invariance, PTL DEF IInv

(* Only a request of the raw row's admin form that read the row before its *)
(* detail came puts a stored detail away: no sync, task or command does,   *)
(* whatever it has read (sync.py:209-211, 257-261; orders/admin.py:6-10).  *)
THEOREM DetailStays == Spec => DetailKept
<1>1. IInv /\ [Next]_vars =>
        [raw = "detailed" /\ raw' # "detailed" => RawFormSave /\ raw_form = "listed"]_vars
  <2> SUFFICES ASSUME IInv, Next, raw = "detailed", raw' # "detailed"
               PROVE  RawFormSave /\ raw_form = "listed"
    BY DEF vars
  <2>1. ASSUME NEW w \in Workers, Step(w) \/ Abort(w) PROVE FALSE
    BY <2>1 DEF Step, Abort, SyncStore, DetailStore, Snapshot, ReadOrder,
       SaveOrder, ApplyRules, Queue, Refused, rows
  <2>2. ASSUME NEW w \in Workers, \/ SyncRead(w) \/ SyncPassOver(w)
                                 \/ DetailRead(w) \/ FetchMissing(w)
                                 \/ \E b \in BOOLEAN : SetStart(w, b)
                                 \/ Import(w)
        PROVE  FALSE
    BY <2>2 DEF SyncRead, SyncPassOver, DetailRead, FetchMissing, SetStart, Import, rows
  <2>3. ~(\/ DetailAlreadyThere \/ UserRead \/ AdminMark \/ Rebuild \/ LeaveOverlap
          \/ RawFormRead
          \/ \E include \in BOOLEAN : UserSave(include))
    BY DEF DetailAlreadyThere, UserRead, AdminMark, Rebuild, LeaveOverlap,
       RawFormRead, UserSave, rows
  <2>4. RawFormSave
    BY <2>1, <2>2, <2>3 DEF Next, Workers
  <2>5. raw_form \in {"none"} \cup Payloads
    BY WorkerType DEF IInv
  <2> QED
    BY <2>4, <2>5 DEF RawFormSave, Payloads
<1> QED
  BY <1>1, Invariance, PTL DEF Spec, DetailKept

-----------------------------------------------------------------------------
(* A step of one process leaves the others' jobs alone.                    *)
LEMMA OneProcess ==
  ASSUME worker \in [Workers -> Job], NEW w \in Workers, NEW job,
         worker' = [worker EXCEPT ![w] = job]
  PROVE  \A v \in Workers : worker'[v] = IF v = w THEN job ELSE worker[v]
OBVIOUS

(* A process that begins has read no order yet, and has written none.      *)
LEMMA Begun ==
  ASSUME NEW w \in Workers,
         \/ SyncRead(w) \/ SyncPassOver(w)
         \/ DetailRead(w) \/ FetchMissing(w)
         \/ \E b \in BOOLEAN : SetStart(w, b)
         \/ Import(w)
  PROVE  /\ \E job : worker' = [worker EXCEPT ![w] = job] /\ job.pc \notin {"read", "save"}
         /\ UNCHANGED <<raw, order, user, raw_form, ledger>>
<1>1. ASSUME NEW pc \in {"store", "snapshot", "apply"}, NEW seen,
             \/ worker' = [worker EXCEPT ![w] = [Idle EXCEPT !.pc = pc]]
             \/ worker' = [worker EXCEPT ![w] =
                              [Idle EXCEPT !.pc = pc, !.seen = seen]]
      PROVE  \E job : worker' = [worker EXCEPT ![w] = job] /\ job.pc \notin {"read", "save"}
  <2>1. [Idle EXCEPT !.pc = pc].pc = pc
    BY DEF Idle
  <2>2. [Idle EXCEPT !.pc = pc, !.seen = seen].pc = pc
    BY DEF Idle
  <2> QED
    BY <1>1, <2>1, <2>2
<1>2. \E job : worker' = [worker EXCEPT ![w] = job] /\ job.pc \notin {"read", "save"}
  <2>1. CASE SyncRead(w)
    BY <1>1, <2>1 DEF SyncRead
  <2>2. CASE SyncPassOver(w)
    BY <1>1, <2>2 DEF SyncPassOver
  <2>3. CASE DetailRead(w) \/ FetchMissing(w)
    BY <1>1, <2>3 DEF DetailRead, FetchMissing
  <2>4. ASSUME NEW b \in BOOLEAN, SetStart(w, b)
        PROVE  \E job : worker' = [worker EXCEPT ![w] = job] /\ job.pc \notin {"read", "save"}
    BY <1>1, <2>4 DEF SetStart
  <2>5. CASE Import(w)
    BY <1>1, <2>5 DEF Import
  <2> QED
    BY <2>1, <2>2, <2>3, <2>4, <2>5
<1>3. UNCHANGED <<raw, order, user, raw_form, ledger>>
  BY DEF SyncRead, SyncPassOver, DetailRead, FetchMissing, SetStart, Import, rows
<1> QED
  BY <1>2, <1>3

(* The normalised row is of the detail, and nobody has anything older.     *)
DetailSettled ==
    /\ raw = "detailed" /\ order.net = "detailed"
    /\ user # "listed" /\ raw_form # "listed"
    /\ \A w \in Workers :
        worker[w].pc \in {"read", "save"} => worker[w].seen = "detailed"

(* Once the detail is in the normalised row and in everybody's hand, no    *)
(* sync, job, page or crash brings the listed amounts back                 *)
(* (normalizer.py:136, orders/views.py:76).                                *)
THEOREM DetailStaysInOrder == Spec => [][DetailSettled => DetailSettled']_vars
<1>1. IInv /\ [Next]_vars => (DetailSettled => DetailSettled')
  <2> SUFFICES ASSUME IInv, [Next]_vars, DetailSettled PROVE DetailSettled'
    OBVIOUS
  <2>1. /\ worker \in [Workers -> Job] /\ order \in Rows /\ order # NoRow
        /\ raw = "detailed" /\ order.net = "detailed"
        /\ user # "listed" /\ raw_form # "listed"
        /\ \A w \in Workers :
             worker[w].pc \in {"read", "save"} => worker[w].seen = "detailed"
    BY WorkerType DEF IInv, DetailSettled, NoRow
  <2>2. ASSUME NEW w \in Workers, NEW job, worker' = [worker EXCEPT ![w] = job],
               job.pc \in {"read", "save"} => job.seen = "detailed",
               raw' = raw, UNCHANGED <<user, raw_form>>, order'.net = "detailed"
        PROVE  DetailSettled'
    BY <2>1, <2>2, OneProcess DEF DetailSettled
  <2>3. ASSUME NEW w \in Workers, Step(w) \/ Abort(w) PROVE DetailSettled'
    <3> DEFINE job == worker[w]
    <3>1. job \in Job
      BY <2>1
    <3>2. CASE SyncStore(w)
      <4> DEFINE next == [job EXCEPT !.pc = "snapshot", !.seen = "absent",
                                     !.pending = (job.seen # "detailed")]
      <4>1. worker' = [worker EXCEPT ![w] = next] /\ next.pc = "snapshot"
        BY <2>1, <3>2 DEF SyncStore, Job
      <4>2. raw' = raw /\ UNCHANGED <<user, raw_form>> /\ order' = order
        BY <2>1, <3>2 DEF SyncStore
      <4> HIDE DEF next
      <4> QED
        BY <2>1, <2>2, <4>1, <4>2
    <3>3. CASE DetailStore(w)
      <4> DEFINE next == [job EXCEPT !.pc = "snapshot"]
      <4>1. worker' = [worker EXCEPT ![w] = next] /\ next.pc = "snapshot"
        BY <2>1, <3>3 DEF DetailStore, Goto, Job
      <4>2. raw' = raw /\ UNCHANGED <<user, raw_form>> /\ order' = order
        BY <2>1, <3>3 DEF DetailStore
      <4> HIDE DEF next
      <4> QED
        BY <2>1, <2>2, <4>1, <4>2
    <3>4. CASE Snapshot(w)
      <4> DEFINE next == [job EXCEPT !.pc = "read", !.seen = raw]
      <4>1. worker' = [worker EXCEPT ![w] = next] /\ next.seen = "detailed"
        BY <2>1, <3>1, <3>4 DEF Snapshot, Job
      <4>2. raw' = raw /\ UNCHANGED <<user, raw_form>> /\ order' = order
        BY <3>4 DEF Snapshot, rows
      <4> HIDE DEF next
      <4> QED
        BY <2>1, <2>2, <4>1, <4>2
    <3>5. CASE ReadOrder(w)
      <4> DEFINE next == [job EXCEPT !.pc = "save", !.copy = Flags(order)]
      <4>1. worker' = [worker EXCEPT ![w] = next] /\ next.seen = job.seen
        BY <2>1, <3>1, <3>5 DEF ReadOrder, Job
      <4>2. job.seen = "detailed"
        BY <2>1, <3>5 DEF ReadOrder, At
      <4>3. raw' = raw /\ UNCHANGED <<user, raw_form>> /\ order' = order
        BY <3>5 DEF ReadOrder, rows
      <4> HIDE DEF next
      <4> QED
        BY <2>1, <2>2, <4>1, <4>2, <4>3
    <3>6. CASE SaveOrder(w)
      <4> DEFINE next == [job EXCEPT !.pc = "apply", !.seen = "absent", !.copy = "none"]
      <4>1. worker' = [worker EXCEPT ![w] = next] /\ next.pc = "apply"
        BY <2>1, <3>1, <3>6 DEF SaveOrder, Job
      <4>2. order'.net = "detailed"
        BY <2>1, <3>6 DEF SaveOrder, At, Row
      <4>3. raw' = raw /\ UNCHANGED <<user, raw_form>>
        BY <3>6 DEF SaveOrder, facts
      <4> HIDE DEF next
      <4> QED
        BY <2>1, <2>2, <4>1, <4>2, <4>3
    <3>7. CASE ApplyRules(w)
      <4> DEFINE next == [job EXCEPT !.pc = "queue"]
      <4>1. worker' = [worker EXCEPT ![w] = next] /\ next.pc = "queue"
        BY <2>1, <3>1, <3>7 DEF ApplyRules, Goto, Job
      <4>2. order'.net = "detailed"
        BY <2>1, <3>7 DEF ApplyRules, Exclude, Row
      <4>3. raw' = raw /\ UNCHANGED <<user, raw_form>>
        BY <3>7 DEF ApplyRules, facts
      <4> HIDE DEF next
      <4> QED
        BY <2>1, <2>2, <4>1, <4>2, <4>3
    <3>8. CASE Queue(w) \/ Refused(w) \/ Abort(w)
      <4>1. worker' = [worker EXCEPT ![w] = Idle] /\ Idle.pc = "idle"
        BY <3>8 DEF Queue, Refused, Abort, Idle
      <4>2. raw' = raw /\ UNCHANGED <<user, raw_form>> /\ order' = order
        BY <3>8 DEF Queue, Refused, Abort, rows
      <4> QED
        BY <2>1, <2>2, <4>1, <4>2
    <3> QED
      BY <2>3, <3>2, <3>3, <3>4, <3>5, <3>6, <3>7, <3>8 DEF Step
  <2>4. ASSUME NEW w \in Workers,
               \/ SyncRead(w) \/ SyncPassOver(w)
               \/ DetailRead(w) \/ FetchMissing(w)
               \/ \E b \in BOOLEAN : SetStart(w, b)
               \/ Import(w)
        PROVE  DetailSettled'
    <3>1. PICK job : worker' = [worker EXCEPT ![w] = job] /\ job.pc \notin {"read", "save"}
      BY <2>4, Begun
    <3>2. raw' = raw /\ UNCHANGED <<user, raw_form>> /\ order' = order
      BY <2>4, Begun
    <3> QED
      BY <2>1, <2>2, <3>1, <3>2
  <2>5. CASE \/ DetailAlreadyThere \/ AdminMark \/ Rebuild \/ LeaveOverlap \/ UserRead
             \/ RawFormRead \/ RawFormSave
             \/ \E include \in BOOLEAN : UserSave(include)
    <3>1. order'.net = "detailed"
      <4>1. user \in {"none", "detailed"}
        BY <2>1, WorkerType DEF IInv, Payloads
      <4> QED
        BY <2>1, <2>5, <4>1 DEF DetailAlreadyThere, AdminMark, Rebuild, LeaveOverlap,
           UserRead, RawFormRead, RawFormSave, UserSave, rows, Exclude, Row
    <3>2. /\ UNCHANGED worker /\ raw' = "detailed"
          /\ user' # "listed" /\ raw_form' # "listed"
      <4>1. raw_form \in {"none", "detailed"}
        BY <2>1, WorkerType DEF IInv, Payloads
      <4> QED
        BY <2>1, <2>5, <4>1 DEF DetailAlreadyThere, AdminMark, Rebuild, LeaveOverlap,
           UserRead, RawFormRead, RawFormSave, UserSave, rows
    <3> QED
      BY <2>1, <3>1, <3>2 DEF DetailSettled
  <2>6. CASE UNCHANGED vars
    BY <2>1, <2>6 DEF vars, DetailSettled
  <2> QED
    BY <2>3, <2>4, <2>5, <2>6 DEF Next, Workers
<1> QED
  BY <1>1, Invariance, PTL DEF Spec

(* The order is out of the ledger, and nobody is about to write it in.     *)
ExclusionSettled ==
    /\ Excluded(order) /\ ~ledger
    /\ \A w \in Workers : worker[w].pc = "save" => worker[w].copy # "included"

(* Once the order is out and no normaliser has it in hand as included,     *)
(* only a restore brings it back (normalizer.py:118-136, ignore_rules.py): *)
(* the copy read before the ignore is the one way round it.                *)
THEOREM ExclusionStays ==
    Spec => [][ExclusionSettled /\ ~UserSave(TRUE) => ExclusionSettled']_vars
<1>1. IInv /\ [Next]_vars =>
        (ExclusionSettled /\ ~UserSave(TRUE) => ExclusionSettled')
  <2> SUFFICES ASSUME IInv, [Next]_vars, ExclusionSettled, ~UserSave(TRUE)
               PROVE  ExclusionSettled'
    OBVIOUS
  <2>1. /\ worker \in [Workers -> Job]
        /\ order \in Rows /\ order # NoRow /\ ~order.included /\ ~ledger
        /\ \A w \in Workers : worker[w].pc = "save" => worker[w].copy # "included"
    BY WorkerType DEF IInv, ExclusionSettled, Excluded
  <2>2. \A net \in Payloads : Excluded(Row(net, FALSE))
    BY DEF Row, NoRow, Excluded, Payloads
  <2>3. Excluded(Exclude(order))
    BY <2>1, <2>2, RowTypes DEF Exclude
  <2>4. ASSUME NEW w \in Workers, NEW job, worker' = [worker EXCEPT ![w] = job],
               job.pc = "save" => job.copy # "included",
               ledger' = ledger, Excluded(order')
        PROVE  ExclusionSettled'
    <3>1. \A v \in Workers : worker'[v] = IF v = w THEN job ELSE worker[v]
      BY <2>1, <2>4
    <3>2. (Excluded(order))'
      BY <2>4 DEF Excluded, NoRow
    <3> QED
      BY <2>1, <2>4, <3>1, <3>2 DEF ExclusionSettled
  <2>5. ASSUME NEW w \in Workers, Step(w) \/ Abort(w) PROVE ExclusionSettled'
    <3> DEFINE job == worker[w]
    <3>1. job \in Job /\ Excluded(order)
      BY <2>1 DEF ExclusionSettled
    <3>2. CASE \/ SyncStore(w) \/ DetailStore(w) \/ Snapshot(w)
      <4> DEFINE next(pc, seen, pending) ==
                   [job EXCEPT !.pc = pc, !.seen = seen, !.pending = pending]
      <4>1. PICK pc \in {"snapshot", "read"} :
              \E seen, pending : worker' = [worker EXCEPT ![w] = next(pc, seen, pending)]
        <5>1. CASE SyncStore(w)
          BY <2>1, <3>1, <5>1 DEF SyncStore, Job
        <5>2. CASE DetailStore(w)
          <6>1. worker' = [worker EXCEPT ![w] = next("snapshot", job.seen, job.pending)]
            BY <2>1, <3>1, <5>2 DEF DetailStore, Goto, Job
          <6> QED
            BY <6>1
        <5>3. CASE Snapshot(w)
          <6>1. worker' = [worker EXCEPT ![w] = next("read", raw, job.pending)]
            BY <2>1, <3>1, <5>3 DEF Snapshot, Job
          <6> QED
            BY <6>1
        <5> QED
          BY <3>2, <5>1, <5>2, <5>3
      <4>2. PICK seen, pending : worker' = [worker EXCEPT ![w] = next(pc, seen, pending)]
        BY <4>1
      <4>3. next(pc, seen, pending).pc = pc
        BY <3>1 DEF Job
      <4>4. ledger' = ledger /\ order' = order
        BY <3>2 DEF SyncStore, DetailStore, Snapshot, rows
      <4> HIDE DEF next, job
      <4> QED
        BY <2>4, <3>1, <4>1, <4>2, <4>3, <4>4
    <3>3. CASE ReadOrder(w)
      <4> DEFINE next == [job EXCEPT !.pc = "save", !.copy = Flags(order)]
      <4>1. worker' = [worker EXCEPT ![w] = next] /\ next.copy = Flags(order)
        BY <2>1, <3>1, <3>3 DEF ReadOrder, Job
      <4>2. Flags(order) # "included"
        BY <2>1 DEF Flags
      <4>3. ledger' = ledger /\ order' = order
        BY <3>3 DEF ReadOrder, rows
      <4> HIDE DEF next, job
      <4> QED
        BY <2>4, <3>1, <4>1, <4>2, <4>3
    <3>4. CASE SaveOrder(w)
      <4> DEFINE next == [job EXCEPT !.pc = "apply", !.seen = "absent", !.copy = "none"]
      <4>1. worker' = [worker EXCEPT ![w] = next] /\ next.pc = "apply"
        BY <2>1, <3>1, <3>4 DEF SaveOrder, Job
      <4>2. job.seen \in Payloads /\ job.copy # "included"
        BY <2>1, <3>1, <3>4 DEF SaveOrder, At, IInv, StoredInv, Sound, Job
      <4>3. Excluded(order') /\ ledger' = ledger
        BY <2>1, <2>2, <3>4, <4>2 DEF SaveOrder
      <4> HIDE DEF next, job
      <4> QED
        BY <2>4, <4>1, <4>3
    <3>5. CASE ApplyRules(w)
      <4> DEFINE next == [job EXCEPT !.pc = "queue"]
      <4>1. worker' = [worker EXCEPT ![w] = next] /\ next.pc = "queue"
        BY <2>1, <3>1, <3>5 DEF ApplyRules, Goto, Job
      <4>2. Excluded(order') /\ ledger' = ledger
        BY <2>3, <3>1, <3>5 DEF ApplyRules
      <4> HIDE DEF next, job
      <4> QED
        BY <2>4, <4>1, <4>2
    <3>6. CASE Queue(w) \/ Refused(w) \/ Abort(w)
      <4>1. worker' = [worker EXCEPT ![w] = Idle] /\ Idle.pc = "idle"
        BY <3>6 DEF Queue, Refused, Abort, Idle
      <4>2. ledger' = ledger /\ order' = order
        BY <3>6 DEF Queue, Refused, Abort, rows
      <4> QED
        BY <2>4, <3>1, <4>1, <4>2
    <3> QED
      BY <2>5, <3>2, <3>3, <3>4, <3>5, <3>6 DEF Step
  <2>6. ASSUME NEW w \in Workers,
               \/ SyncRead(w) \/ SyncPassOver(w)
               \/ DetailRead(w) \/ FetchMissing(w)
               \/ \E b \in BOOLEAN : SetStart(w, b)
               \/ Import(w)
        PROVE  ExclusionSettled'
    <3>1. PICK job : worker' = [worker EXCEPT ![w] = job] /\ job.pc \notin {"read", "save"}
      BY <2>6, Begun
    <3>2. ledger' = ledger /\ order' = order
      BY <2>6, Begun
    <3> QED
      BY <2>4, <3>1, <3>2 DEF ExclusionSettled
  <2>7. CASE \/ DetailAlreadyThere \/ AdminMark \/ Rebuild \/ LeaveOverlap \/ UserRead
             \/ RawFormRead \/ RawFormSave
    <3>1. order' = order \/ order' = Exclude(order)
      BY <2>7 DEF DetailAlreadyThere, AdminMark, Rebuild, LeaveOverlap, UserRead,
         RawFormRead, RawFormSave, rows
    <3>2. worker' = worker /\ ~ledger'
      BY <2>1, <2>7 DEF DetailAlreadyThere, AdminMark, Rebuild, LeaveOverlap, UserRead,
         RawFormRead, RawFormSave
    <3>3. Excluded(order')
      BY <2>3, <3>1 DEF ExclusionSettled
    <3> QED
      BY <2>1, <3>2, <3>3 DEF ExclusionSettled, Excluded, NoRow
  <2>8. ASSUME NEW include \in BOOLEAN, UserSave(include) PROVE ExclusionSettled'
    <3>1. include = FALSE
      BY <2>8
    <3>2. user \in Payloads
      BY <2>8, WorkerType DEF IInv, UserSave
    <3>3. Excluded(order') /\ worker' = worker /\ ledger' = ledger
      BY <2>2, <2>8, <3>1, <3>2 DEF UserSave
    <3> QED
      BY <2>1, <3>3 DEF ExclusionSettled, Excluded, NoRow
  <2>9. CASE UNCHANGED vars
    BY <2>1, <2>9 DEF vars, ExclusionSettled, Excluded
  <2> QED
    BY <2>5, <2>6, <2>7, <2>8, <2>9 DEF Next, Workers
<1> QED
  BY <1>1, Invariance, PTL DEF Spec

-----------------------------------------------------------------------------
USE OrderAssumption, PayloadAssumption, RulesAssumption, ManualsAssumption DEF Currencies

(* The fee of the row: arithmetic of OrderFee.                             *)
MaybeManual == Manuals \cup {NoManual}

(* What the resolution returns is a fee, and the amount that goes with it  *)
(* is a number, perhaps below zero.                                        *)
LEMMA GrossType ==
  ASSUME NEW r \in RawRows PROVE Gross(r) \in Nat
BY DEF Gross, RawRows, NoDetail

LEMMA AmountType ==
  ASSUME NEW gross \in Nat, NEW fee \in Fees PROVE AmountRub(gross, fee) \in Int
<1>1. fee.amount \in Nat
  BY DEF Fees
<1> QED
  BY <1>1 DEF AmountRub

LEMMA RuleFeeType ==
  ASSUME NEW entry \in Rules, NEW quantity \in Nat, NEW amount \in Int
  PROVE  RuleFee(entry, quantity, amount) \in Fees
<1> DEFINE fee == entry.rate * (IF entry.currency = "USDT" THEN quantity ELSE amount)
<1>1. fee \in Int
  OBVIOUS
<1>2. Fee(0, "", "none") \in Fees
  BY DEF Fee, Fees
<1>3. fee > 0 => Fee(fee, "USDT", "calculated") \in Fees
  BY <1>1 DEF Fee, Fees
<1> QED
  BY <1>2, <1>3 DEF RuleFee, NoFee

LEMMA NoRuleIsNone == NoRule \notin Rules
<1> SUFFICES ASSUME NoRule \in Rules PROVE FALSE
  OBVIOUS
<1>1. NoRule \in [side : {"BUY", "SELL", "both"}, rate : Nat, currency : Currencies,
                  from : Nat, to : Nat \cup {Forever}, active : BOOLEAN]
  OBVIOUS
<1>2. DOMAIN NoRule = {"side", "rate", "currency", "from", "to", "active"}
  BY <1>1
<1> QED
  BY <1>2 DEF NoRule

LEMMA RuleFeesType ==
  ASSUME FeeTypeOK, NEW quantity \in Nat, NEW amount \in Int
  PROVE  RuleFees(quantity, amount) \subseteq Fees
<1> DEFINE set == Latest({rules[i] : i \in {i \in RuleIds : InForce(rules[i])}})
<1>1. set \subseteq Rules
  BY DEF Latest, InForce, FeeTypeOK
<1>2. NoFee \in Fees
  BY DEF NoFee, Fee, Fees
<1> HIDE DEF set
<1>3. {RuleFee(r, quantity, amount) : r \in set} \subseteq Fees
  BY <1>1, RuleFeeType
<1> QED
  BY <1>2, <1>3 DEF RuleFees, set

LEMMA ResolveType ==
  ASSUME FeeTypeOK, NEW manual \in MaybeManual, NEW quantity \in Nat, NEW amount \in Int,
         NEW r \in RawRows
  PROVE  ResolveFee(manual, quantity, amount, r) \subseteq Fees
<1>1. manual # NoManual => Fee(manual.amount, manual.currency, "manual") \in Fees
  BY DEF MaybeManual, Fee, Fees
<1>2. r.detail.fee > 0 => Fee(r.detail.fee, r.detail.currency, "api") \in Fees
  <2>1. CASE r.detail = NoDetail
    BY <2>1 DEF NoDetail
  <2>2. CASE r.detail \in Details
    <3>1. r.detail.fee \in Nat /\ r.detail.currency \in {"USDT", "RUB"}
      BY <2>2
    <3> QED
      BY <3>1 DEF Fee, Fees
  <2> QED
    BY <2>1, <2>2 DEF RawRows
<1>3. r.list.fee > 0 => Fee(r.list.fee, "USDT", "api") \in Fees
  BY DEF RawRows, Fee, Fees
<1> QED
  BY <1>1, <1>2, <1>3, RuleFeesType DEF ResolveFee

(* The stages of a normaliser are told apart by pc.                        *)
Resolving == [pc : {"resolve"}, seen : RawRows]
Loading == [pc : {"load"}, seen : RawRows, fee : Fees]
Saving == [pc : {"save"}, seen : RawRows, fee : Fees, new : BOOLEAN, manual : MaybeManual]
Stages == {AtRest} \cup Resolving \cup Loading \cup Saving

LEMMA StageOf ==
  ASSUME NEW s \in Stages
  PROVE  /\ s.pc = "resolve" => s \in Resolving
         /\ s.pc = "load" => s \in Loading
         /\ s.pc = "save" => s \in Saving
BY DEF Stages, Resolving, Loading, Saving, AtRest

LEMMA Typed ==
  FeeTypeOK <=> /\ raw_order \in RawRows
             /\ rules \in [RuleIds -> Rules \cup {NoRule}]
             /\ row \in OrderRows \cup {NoOrder}
             /\ normaliser \in [Normalisers -> Stages]
             /\ form \in OrderRows \cup {NoOrder}
BY DEF FeeTypeOK, Stages, Resolving, Loading, Saving, MaybeManual

LEMMA NormalisedType ==
  ASSUME FeeTypeOK, NEW w \in Normalisers, normaliser[w].pc = "save"
  PROVE  Normalised(w) \in OrderRows
<1> DEFINE s == normaliser[w]
<1>1. s \in Saving
  BY StageOf, Typed
<1> HIDE DEF s
<1>2. s.seen \in RawRows /\ s.fee \in Fees /\ s.manual \in MaybeManual
  BY <1>1 DEF Saving
<1>3. Gross(s.seen) \in Nat
  BY <1>2, GrossType
<1>4. s.seen.list.amount \in Nat
  BY <1>2 DEF RawRows
<1>5. AmountRub(s.seen.list.amount, s.fee) \in Int
  BY <1>2, <1>4, AmountType
<1> QED
  BY <1>2, <1>3, <1>5 DEF Normalised, OrderRows, MaybeManual, s

(* Whatever rules, payloads and pages say, the fee is one of the four      *)
(* sources', in a currency there is, and the row's amounts are numbers.    *)
THEOREM FeeTypeCorrect == FeeSpec => []FeeTypeOK
<1>1. FeeInit => FeeTypeOK
  BY DEF FeeInit, FeeTypeOK, RawRows
<1>2. FeeTypeOK /\ [FeeNext]_feeVars => FeeTypeOK'
  <2> SUFFICES ASSUME FeeTypeOK, [FeeNext]_feeVars PROVE FeeTypeOK'
    OBVIOUS
  <2>0. /\ raw_order \in RawRows
        /\ rules \in [RuleIds -> Rules \cup {NoRule}]
        /\ row \in OrderRows \cup {NoOrder}
        /\ normaliser \in [Normalisers -> Stages]
        /\ form \in OrderRows \cup {NoOrder}
    BY Typed
  <2>1. ASSUME NEW w \in Normalisers, FetchRaw(w) PROVE FeeTypeOK'
    <3>1. [pc |-> "resolve", seen |-> raw_order] \in Stages
      BY <2>0 DEF Stages, Resolving
    <3> QED
      BY <2>0, <2>1, <3>1, Typed
      DEF FetchRaw, FeeTypeOK, Stages, Resolving, Loading, Saving, MaybeManual
  <2>2. ASSUME NEW w \in Normalisers, Resolve(w) PROVE FeeTypeOK'
    <3> DEFINE seen == normaliser[w].seen
               fees == IF row = NoOrder
                       THEN ResolveFee(NoManual, Gross(seen), seen.list.amount, seen)
                       ELSE ResolveFee(row.manual, row.quantity, row.amount_rub, seen)
    <3>1. seen \in RawRows
      BY <2>0, <2>2, StageOf DEF Resolve, Resolving
    <3> HIDE DEF seen
    <3>2. Gross(seen) \in Nat /\ seen.list.amount \in Int
      BY <3>1, GrossType DEF RawRows
    <3>3. NoManual \in MaybeManual
      BY DEF MaybeManual
    <3>4. row # NoOrder => /\ row.manual \in MaybeManual
                         /\ row.quantity \in Nat /\ row.amount_rub \in Int
      BY <2>0 DEF OrderRows, MaybeManual
    <3>5. fees \subseteq Fees
      BY <3>1, <3>2, <3>3, <3>4, ResolveType
    <3>6. PICK fee \in fees :
            normaliser' = [normaliser EXCEPT ![w] = [pc |-> "load", seen |-> seen, fee |-> fee]]
      BY <2>2 DEF Resolve, seen
    <3> HIDE DEF fees
    <3>7. [pc |-> "load", seen |-> seen, fee |-> fee] \in Stages
      BY <3>1, <3>5 DEF Stages, Loading
    <3>8. normaliser' \in [Normalisers -> Stages]
      BY <2>0, <3>6, <3>7
    <3> QED
      BY <2>0, <2>2, <3>8 DEF Resolve, FeeTypeOK, Stages, Resolving, Loading, Saving, MaybeManual
  <2>3. ASSUME NEW w \in Normalisers, Load(w) PROVE FeeTypeOK'
    <3> DEFINE manual == IF row = NoOrder THEN NoManual ELSE row.manual
    <3>1. normaliser[w] \in Loading
      BY <2>0, <2>3, StageOf DEF Load
    <3>2. manual \in MaybeManual
      BY <2>0 DEF OrderRows, MaybeManual
    <3> HIDE DEF manual
    <3>3. [pc |-> "save", seen |-> normaliser[w].seen, fee |-> normaliser[w].fee,
           new |-> row = NoOrder, manual |-> manual] \in Stages
      BY <3>1, <3>2 DEF Stages, Loading, Saving
    <3>4. normaliser' \in [Normalisers -> Stages]
      BY <2>0, <2>3, <3>3 DEF Load, manual
    <3> QED
      BY <2>0, <2>3, <3>4 DEF Load, FeeTypeOK, Stages, Resolving, Loading, Saving, MaybeManual
  <2>4. ASSUME NEW w \in Normalisers, Save(w) PROVE FeeTypeOK'
    <3>1. Normalised(w) \in OrderRows
      BY <2>4, NormalisedType DEF Save
    <3>2. normaliser' \in [Normalisers -> Stages] /\ row' \in OrderRows \cup {NoOrder}
      BY <2>0, <2>4, <3>1 DEF Save, Stages
    <3> QED
      BY <2>0, <2>4, <3>2 DEF Save, FeeTypeOK, Stages, Resolving, Loading, Saving, MaybeManual
  <2>5. ASSUME NEW list \in Lists, Listed(list) PROVE FeeTypeOK'
    BY <2>5 DEF FeeTypeOK, Listed, RawRows
  <2>6. ASSUME NEW detail \in Details, Detailed(detail) PROVE FeeTypeOK'
    BY <2>6 DEF FeeTypeOK, Detailed, RawRows
  <2>7. ASSUME NEW i \in RuleIds, NEW entry \in Rules \cup {NoRule}, SaveRule(i, entry)
        PROVE  FeeTypeOK'
    BY <2>7 DEF FeeTypeOK, SaveRule
  <2>8. CASE OpenForm
    BY <2>8 DEF FeeTypeOK, OpenForm
  <2>9. ASSUME NEW manual \in Manuals \cup {NoManual}, SaveForm(manual) PROVE FeeTypeOK'
    <3>1. [form EXCEPT !.manual = manual] \in OrderRows
      BY <2>0, <2>9 DEF SaveForm, OrderRows
    <3> QED
      BY <2>9, <3>1 DEF FeeTypeOK, SaveForm
  <2>10. CASE UNCHANGED feeVars
    BY <2>10 DEF FeeTypeOK, feeVars
  <2> QED
    BY <2>1, <2>2, <2>3, <2>4, <2>5, <2>6, <2>7, <2>8, <2>9, <2>10 DEF FeeNext, Normalise
<1> QED
  BY <1>1, <1>2, PTL DEF FeeSpec

-----------------------------------------------------------------------------
(* Every process has in hand the payload there is now, a fee documented    *)
(* for it and the manual fee of the row.                                   *)
InHand ==
    \A w \in Normalisers :
        /\ normaliser[w].pc # "idle" => normaliser[w].seen = raw_order
        /\ normaliser[w].pc \in {"load", "save"} => normaliser[w].fee \in DocumentedFees
        /\ normaliser[w].pc = "save" => normaliser[w].new \/ normaliser[w].manual = RowManual

Settled == row \in DocumentedRows /\ InHand

(* The query of _fee_from_rule finds the rules of the order's own time and *)
(* side, and nothing else.                                                 *)
LEMMA QueryFindsOwn ==
  ASSUME FeeTypeOK
  PROVE  {rules[i] : i \in {i \in RuleIds : InForce(rules[i])}} = OwnRules
<1>1. ASSUME NEW i \in RuleIds
      PROVE  InForce(rules[i]) <=>
                /\ rules[i] # NoRule
                /\ rules[i].active /\ rules[i].side # (IF Side = "BUY" THEN "SELL" ELSE "BUY")
                /\ Created >= rules[i].from
                /\ rules[i].to # Forever => Created <= rules[i].to
  <2>1. CASE rules[i] = NoRule
    BY <2>1 DEF InForce
  <2>2. CASE rules[i] \in Rules
    <3>1. /\ rules[i].side \in {"BUY", "SELL", "both"}
          /\ rules[i].from \in Nat /\ rules[i].to \in Nat \cup {Forever}
      BY <2>2
    <3> QED
      BY <3>1 DEF InForce
  <2> QED
    BY <2>1, <2>2 DEF FeeTypeOK
<1> QED
  BY <1>1 DEF OwnRules

(* A row with the documented amounts gives the resolution the figures the  *)
(* payload has: an amount with a RUB fee in it never meets a rule.         *)
LEMMA ResolvesDocumented ==
  ASSUME FeeTypeOK, row \in DocumentedRows
  PROVE  ResolveFee(row.manual, row.quantity, row.amount_rub, raw_order) \subseteq DocumentedFees
<1>1. PICK fee \in DocumentedFees :
        row = [source |-> "payload", quantity |-> Gross(raw_order), fee |-> fee,
               manual |-> RowManual, amount_rub |-> AmountRub(raw_order.list.amount, fee)]
  BY DEF DocumentedRows
<1>2. row # NoOrder
  BY <1>1 DEF NoOrder
<1>3. row.manual = RowManual /\ row.quantity = Gross(raw_order)
      /\ row.amount_rub = AmountRub(raw_order.list.amount, fee)
  BY <1>1
<1>4. CASE RowManual # NoManual \/ raw_order.detail.fee > 0 \/ raw_order.list.fee > 0
  BY <1>3, <1>4 DEF ResolveFee, DocumentedFees
<1>5. CASE RowManual = NoManual /\ ~(raw_order.detail.fee > 0) /\ ~(raw_order.list.fee > 0)
  <2>1. DocumentedFees = IF OwnRules = {} THEN {NoFee}
                         ELSE {RuleFee(r, Gross(raw_order), raw_order.list.amount) :
                                  r \in Latest(OwnRules)}
    BY <1>5 DEF DocumentedFees
  <2>2. fee.currency # "RUB"
    <3>1. NoFee.currency # "RUB"
      BY DEF NoFee, Fee
    <3>2. \A r, quantity, amount : RuleFee(r, quantity, amount).currency # "RUB"
      BY <3>1 DEF RuleFee, Fee
    <3>3. fee = NoFee \/ \E r : fee = RuleFee(r, Gross(raw_order), raw_order.list.amount)
      BY <2>1
    <3> QED
      BY <3>1, <3>2, <3>3
  <2>3. row.amount_rub = raw_order.list.amount
    BY <1>3, <2>2 DEF AmountRub
  <2>4. ResolveFee(row.manual, row.quantity, row.amount_rub, raw_order)
            = RuleFees(Gross(raw_order), raw_order.list.amount)
    BY <1>3, <1>5, <2>3 DEF ResolveFee
  <2>5. RuleFees(Gross(raw_order), raw_order.list.amount)
            = IF Latest(OwnRules) = {} THEN {NoFee}
              ELSE {RuleFee(r, Gross(raw_order), raw_order.list.amount) :
                                  r \in Latest(OwnRules)}
    BY QueryFindsOwn DEF RuleFees
  <2>6. OwnRules # {} => Latest(OwnRules) # {}
    BY <1>1, <2>1
  <2>7. OwnRules = {} => Latest(OwnRules) = {}
    BY DEF Latest
  <2> QED
    BY <2>1, <2>4, <2>5, <2>6, <2>7
<1> QED
  BY <1>4, <1>5

(* What is documented does not depend on the row but for its manual fee.   *)
LEMMA SameDocuments ==
  ASSUME Quiet, row # NoOrder, row' # NoOrder, row'.manual = row.manual
  PROVE  /\ DocumentedFees' = DocumentedFees
         /\ DocumentedRows' = DocumentedRows
         /\ RowManual' = RowManual
<1>1. raw_order' = raw_order /\ OwnRules' = OwnRules
  BY DEF Quiet
<1>2. RowManual' = RowManual /\ RowManual = row.manual
  BY DEF RowManual
<1>3. DocumentedFees' = DocumentedFees
  BY <1>1, <1>2 DEF DocumentedFees, Latest, RuleFee, Gross
<1> QED
  BY <1>1, <1>2, <1>3 DEF DocumentedRows, Gross, AmountRub

(* A row once documented, with nothing older in anybody's hand, stays so   *)
(* whatever is normalised, until the payload, a rule of the order's own    *)
(* time or an admin changes it (normalizer.py:77-136): the recomputing of  *)
(* the fee from the row's own figures is a fixed point.                    *)
THEOREM FeeStays == FeeSpec => [][Settled /\ Quiet => Settled']_feeVars
<1>1. FeeTypeOK /\ [FeeNext]_feeVars => (Settled /\ Quiet => Settled')
  <2> SUFFICES ASSUME FeeTypeOK, [FeeNext]_feeVars, Settled, Quiet PROVE Settled'
    OBVIOUS
  <2>1. /\ row # NoOrder /\ row.manual = RowManual /\ raw_order' = raw_order
        /\ normaliser \in [Normalisers -> Stages]
    <3>1. row.source = "payload" /\ row.manual = RowManual
      BY DEF Settled, DocumentedRows
    <3>2. NoOrder.source # "payload"
      BY DEF NoOrder
    <3>3. normaliser \in [Normalisers -> Stages]
      BY Typed
    <3> QED
      BY <3>1, <3>2, <3>3 DEF Quiet
  <2>2. ASSUME UNCHANGED <<row, normaliser>> PROVE Settled'
    BY <2>1, <2>2, SameDocuments DEF Settled, InHand
  <2>3. ASSUME NEW w \in Normalisers, row' = row, NEW s,
               normaliser' = [normaliser EXCEPT ![w] = s],
               s.pc # "idle" => s.seen = raw_order,
               s.pc \in {"load", "save"} => s.fee \in DocumentedFees,
               s.pc = "save" => s.new \/ s.manual = RowManual
        PROVE  Settled'
    <3>1. /\ DocumentedFees' = DocumentedFees /\ DocumentedRows' = DocumentedRows
          /\ RowManual' = RowManual
      BY <2>1, <2>3, SameDocuments
    <3>2. ASSUME NEW v \in Normalisers
          PROVE  normaliser'[v] = IF v = w THEN s ELSE normaliser[v]
      BY <2>1, <2>3
    <3> QED
      BY <2>1, <2>3, <3>1, <3>2 DEF Settled, InHand
  <2>4. ASSUME NEW w \in Normalisers, FetchRaw(w) PROVE Settled'
    <3> DEFINE s == [pc |-> "resolve", seen |-> raw_order]
    <3>1. /\ normaliser' = [normaliser EXCEPT ![w] = s] /\ row' = row
          /\ s.pc = "resolve" /\ s.seen = raw_order
      BY <2>4 DEF FetchRaw
    <3> HIDE DEF s
    <3> QED
      BY <2>3, <3>1
  <2>5. ASSUME NEW w \in Normalisers, Resolve(w) PROVE Settled'
    <3>1. normaliser[w].seen = raw_order
      BY <2>5 DEF Resolve, Settled, InHand
    <3>2. PICK fee \in ResolveFee(row.manual, row.quantity, row.amount_rub, raw_order) :
            normaliser' = [normaliser EXCEPT ![w] =
                               [pc |-> "load", seen |-> raw_order, fee |-> fee]]
      BY <2>1, <2>5, <3>1 DEF Resolve
    <3>3. fee \in DocumentedFees
      BY <3>2, ResolvesDocumented DEF Settled
    <3> DEFINE s == [pc |-> "load", seen |-> raw_order, fee |-> fee]
    <3>4. /\ normaliser' = [normaliser EXCEPT ![w] = s] /\ row' = row
          /\ s.pc = "load" /\ s.seen = raw_order /\ s.fee = fee
      BY <2>5, <3>2 DEF Resolve
    <3> HIDE DEF s
    <3> QED
      BY <2>3, <3>3, <3>4
  <2>6. ASSUME NEW w \in Normalisers, Load(w) PROVE Settled'
    <3> DEFINE s == [pc |-> "save", seen |-> normaliser[w].seen, fee |-> normaliser[w].fee,
                     new |-> row = NoOrder, manual |-> row.manual]
    <3>1. normaliser' = [normaliser EXCEPT ![w] = s] /\ row' = row
      BY <2>1, <2>6 DEF Load
    <3>2. s.seen = normaliser[w].seen /\ s.fee = normaliser[w].fee /\ s.manual = RowManual
      BY <2>1
    <3>3. normaliser[w].seen = raw_order /\ normaliser[w].fee \in DocumentedFees
      BY <2>6 DEF Load, Settled, InHand
    <3> HIDE DEF s
    <3> QED
      BY <2>3, <3>1, <3>2, <3>3
  <2>7. ASSUME NEW w \in Normalisers, Save(w) PROVE Settled'
    <3>1. /\ normaliser[w].seen = raw_order /\ normaliser[w].fee \in DocumentedFees
          /\ normaliser[w].new \/ normaliser[w].manual = RowManual
      BY <2>7 DEF Save, Settled, InHand
    <3>2. row' \in DocumentedRows /\ row' # NoOrder /\ row'.manual = row.manual
      <4>1. CASE normaliser[w].new
        BY <2>1, <2>7, <4>1 DEF Save, Settled
      <4>2. CASE ~normaliser[w].new
        <5>1. row' = Normalised(w)
          BY <2>7, <4>2 DEF Save
        <5> QED
          BY <2>1, <3>1, <4>2, <5>1 DEF Normalised, DocumentedRows, NoOrder
      <4> QED
        BY <4>1, <4>2
    <3>3. /\ DocumentedFees' = DocumentedFees /\ DocumentedRows' = DocumentedRows
          /\ RowManual' = RowManual
      BY <2>1, <3>2, SameDocuments
    <3>4. ASSUME NEW v \in Normalisers
          PROVE  normaliser'[v] = IF v = w THEN AtRest ELSE normaliser[v]
      BY <2>1, <2>7 DEF Save
    <3> QED
      BY <2>1, <3>2, <3>3, <3>4 DEF Settled, InHand, AtRest
  <2>8. ASSUME NEW manual \in Manuals \cup {NoManual}, SaveForm(manual) PROVE FALSE
    BY <2>8 DEF Quiet, SavesForm
  <2>9. CASE UNCHANGED feeVars
    BY <2>2, <2>9 DEF feeVars
  <2>10. ASSUME NEW list \in Lists, Listed(list) PROVE Settled'
    BY <2>2, <2>10 DEF Listed
  <2>11. ASSUME NEW detail \in Details, Detailed(detail) PROVE Settled'
    BY <2>2, <2>11 DEF Detailed
  <2>12. ASSUME NEW i \in RuleIds, NEW entry \in Rules \cup {NoRule}, SaveRule(i, entry)
         PROVE  Settled'
    BY <2>2, <2>12 DEF SaveRule
  <2>13. CASE OpenForm
    BY <2>2, <2>13 DEF OpenForm
  <2> QED
    BY <2>4, <2>5, <2>6, <2>7, <2>8, <2>9, <2>10, <2>11, <2>12, <2>13 DEF FeeNext, Normalise
<1> QED
  BY <1>1, FeeTypeCorrect, PTL DEF FeeSpec

-----------------------------------------------------------------------------
ManualFee == Fee(RowManual.amount, RowManual.currency, "manual")

(* The row has the fee an admin entered, and nobody has another in hand.   *)
ManualSettled ==
    /\ RowManual # NoManual /\ RowFee = ManualFee
    /\ \A w \in Normalisers :
        /\ normaliser[w].pc \in {"load", "save"} => normaliser[w].fee = ManualFee
        /\ normaliser[w].pc = "save" => normaliser[w].new \/ normaliser[w].manual = RowManual

(* Once a fee entered by hand is the row's and in everybody's hand, no     *)
(* payload, no rule and no normaliser takes it off again, only a page      *)
(* (fees.py:13).                                                           *)
THEOREM ManualStays == FeeSpec => [][ManualSettled /\ ~SavesForm => ManualSettled']_feeVars
<1>1. FeeTypeOK /\ [FeeNext]_feeVars => (ManualSettled /\ ~SavesForm => ManualSettled')
  <2> SUFFICES ASSUME FeeTypeOK, [FeeNext]_feeVars, ManualSettled, ~SavesForm PROVE ManualSettled'
    OBVIOUS
  <2>1. /\ row # NoOrder /\ row.manual = RowManual /\ row.fee = ManualFee
        /\ row.manual # NoManual
        /\ normaliser \in [Normalisers -> Stages]
    BY Typed DEF ManualSettled, RowManual, RowFee
  <2>2. ASSUME UNCHANGED <<row, normaliser>> PROVE ManualSettled'
    BY <2>2 DEF ManualSettled, RowManual, RowFee, ManualFee, Fee
  <2>3. ASSUME NEW w \in Normalisers, NEW s, normaliser' = [normaliser EXCEPT ![w] = s],
               row' # NoOrder, row'.manual = row.manual, row'.fee = ManualFee,
               s.pc \in {"load", "save"} => s.fee = ManualFee,
               s.pc = "save" => s.new \/ s.manual = RowManual
        PROVE  ManualSettled'
    <3>1. RowManual' = RowManual /\ ManualFee' = ManualFee /\ RowFee' = ManualFee
      BY <2>1, <2>3 DEF RowManual, RowFee, ManualFee, Fee
    <3>2. ASSUME NEW v \in Normalisers
          PROVE  normaliser'[v] = IF v = w THEN s ELSE normaliser[v]
      BY <2>1, <2>3
    <3> QED
      BY <2>1, <2>3, <3>1, <3>2 DEF ManualSettled
  <2>4. ASSUME NEW w \in Normalisers, FetchRaw(w) PROVE ManualSettled'
    <3> DEFINE s == [pc |-> "resolve", seen |-> raw_order]
    <3>1. normaliser' = [normaliser EXCEPT ![w] = s] /\ row' = row /\ s.pc = "resolve"
      BY <2>4 DEF FetchRaw
    <3> HIDE DEF s
    <3> QED
      BY <2>1, <2>3, <3>1
  <2>5. ASSUME NEW w \in Normalisers, Resolve(w) PROVE ManualSettled'
    <3> DEFINE s == [pc |-> "load", seen |-> normaliser[w].seen, fee |-> ManualFee]
    <3>1. normaliser' = [normaliser EXCEPT ![w] = s] /\ row' = row
      BY <2>1, <2>5 DEF Resolve, ResolveFee, ManualFee
    <3>2. s.pc = "load" /\ s.fee = ManualFee
      OBVIOUS
    <3> HIDE DEF s
    <3> QED
      BY <2>1, <2>3, <3>1, <3>2
  <2>6. ASSUME NEW w \in Normalisers, Load(w) PROVE ManualSettled'
    <3> DEFINE s == [pc |-> "save", seen |-> normaliser[w].seen, fee |-> normaliser[w].fee,
                     new |-> row = NoOrder, manual |-> row.manual]
    <3>1. normaliser' = [normaliser EXCEPT ![w] = s] /\ row' = row
      BY <2>1, <2>6 DEF Load
    <3>2. s.fee = normaliser[w].fee /\ s.manual = RowManual
      BY <2>1
    <3>3. normaliser[w].fee = ManualFee
      BY <2>6 DEF Load, ManualSettled
    <3> HIDE DEF s
    <3> QED
      BY <2>1, <2>3, <3>1, <3>2, <3>3
  <2>7. ASSUME NEW w \in Normalisers, Save(w) PROVE ManualSettled'
    <3>1. /\ normaliser[w].fee = ManualFee
          /\ normaliser[w].new \/ normaliser[w].manual = RowManual
      BY <2>7 DEF Save, ManualSettled
    <3>2. row' # NoOrder /\ row'.manual = row.manual /\ row'.fee = ManualFee
      <4>1. CASE normaliser[w].new
        BY <2>1, <2>7, <4>1 DEF Save
      <4>2. CASE ~normaliser[w].new
        <5>1. row' = Normalised(w)
          BY <2>7, <4>2 DEF Save
        <5> QED
          BY <2>1, <3>1, <4>2, <5>1 DEF Normalised, NoOrder
      <4> QED
        BY <4>1, <4>2
    <3>3. normaliser' = [normaliser EXCEPT ![w] = AtRest] /\ AtRest.pc = "idle"
      BY <2>7 DEF Save, AtRest
    <3> HIDE DEF AtRest
    <3> QED
      BY <2>3, <3>2, <3>3
  <2>8. ASSUME NEW manual \in Manuals \cup {NoManual}, SaveForm(manual) PROVE FALSE
    BY <2>8 DEF SavesForm
  <2>9. CASE UNCHANGED feeVars
    BY <2>2, <2>9 DEF feeVars
  <2>10. ASSUME NEW list \in Lists, Listed(list) PROVE ManualSettled'
    BY <2>2, <2>10 DEF Listed
  <2>11. ASSUME NEW detail \in Details, Detailed(detail) PROVE ManualSettled'
    BY <2>2, <2>11 DEF Detailed
  <2>12. ASSUME NEW i \in RuleIds, NEW entry \in Rules \cup {NoRule}, SaveRule(i, entry)
         PROVE  ManualSettled'
    BY <2>2, <2>12 DEF SaveRule
  <2>13. CASE OpenForm
    BY <2>2, <2>13 DEF OpenForm
  <2> QED
    BY <2>4, <2>5, <2>6, <2>7, <2>8, <2>9, <2>10, <2>11, <2>12, <2>13 DEF FeeNext, Normalise
<1> QED
  BY <1>1, FeeTypeCorrect, PTL DEF FeeSpec
=============================================================================
