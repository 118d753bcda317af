--------------------------- MODULE LedgerRebuild ---------------------------
(***************************************************************************)
(* Concurrent rebuilds of one account's ledger (LedgerEngine.rebuild,      *)
(* apps/ledger/services/engine.py:77-193), as PostgreSQL runs them at READ *)
(* COMMITTED: each statement sees what is committed when it starts, a      *)
(* DELETE waits for a transaction that has deleted one of its rows, an     *)
(* INSERT for one that has inserted or deleted a row of its key, and of    *)
(* transactions that wait for each other in a circle one is rolled back.   *)
(* Nothing keeps two workers, or a worker and a management command, from   *)
(* rebuilding the same account at once.                                    *)
(*                                                                         *)
(* A row is who wrote it, its day or week, and for each of its days the    *)
(* inputs it was computed from. LedgerEvent has no unique key, and all its *)
(* rows of a day are one; DailySnapshot is unique by day, WeeklySnapshot   *)
(* by week.                                                                *)
(***************************************************************************)
EXTENDS Naturals, Functions

CONSTANTS
    Workers,         \* processes that may rebuild the account
    Days, Week,      \* the days, and the week each is in
    MaxOrders,       \* bound on the changes to the included orders
    OrderDays,       \* the days that have some after each of them
    MaxAdjustments,  \* the same for adjustments
    AdjustmentDays,
    Before(_, _),    \* the order in which a DELETE comes to its rows
    MaxQueue,        \* rebuild tasks beyond this many are alike
    MaxCrashes       \* bound on the workers that die in a rebuild

ASSUME DaysAssumption == Days \subseteq Nat /\ Week \in [Days -> Nat]
ASSUME InputAssumption ==
    /\ MaxOrders \in Nat /\ OrderDays \in [0..MaxOrders -> SUBSET Days]
    /\ MaxAdjustments \in Nat /\ AdjustmentDays \in [0..MaxAdjustments -> SUBSET Days]
ASSUME QueueAssumption == MaxQueue \in Nat \ {0}
ASSUME CrashAssumption == MaxCrashes \in Nat

VARIABLES
    input,   \* versions of the orders and of the adjustments, committed
    queue,   \* rebuild_ledger tasks waiting for a worker
    rows,    \* committed rows of the three tables
    tx,      \* each worker's transaction
    crashes

vars == <<input, queue, rows, tx, crashes>>

Inputs == [orders : 0..MaxOrders, adjustments : 0..MaxAdjustments]
NoInput == [orders |-> 0, adjustments |-> 0]
Tables == {"events", "daily", "weekly"}
Contents == UNION {[D -> Inputs] : D \in SUBSET Days}
Row == [table : Tables, by : Workers, key : Nat, of : Contents]

(* sees: rows the DELETE it is at has still to take; waits: the one of     *)
(* them that it waits for; read: the inputs read so far; todo: rows still  *)
(* to insert.                                                              *)
NoTx == [pc |-> "idle", sees |-> {}, waits |-> {}, deletes |-> {}, read |-> NoInput,
         todo |-> {}, inserts |-> {}]

Transactions ==
    [pc : Tables \cup {"idle", "reading", "insert_daily", "insert_weekly"},
     sees : SUBSET Row, waits : SUBSET Row, deletes : SUBSET Row, read : Inputs,
     todo : SUBSET Row, inserts : SUBSET Row]

(* Transactions have rows of known days and weeks and versions of the      *)
(* inputs in hand, and no task is run that was not queued (tasks.py:24).   *)
TypeOK ==
    /\ input \in Inputs
    /\ queue \in 0..MaxQueue
    /\ rows \subseteq Row
    /\ tx \in [Workers -> Transactions]
    /\ crashes \in 0..MaxCrashes

Init ==
    /\ input = NoInput /\ queue = 0
    /\ rows = {}
    /\ tx = [w \in Workers |-> NoTx]
    /\ crashes = 0

-----------------------------------------------------------------------------
Others(w) == Workers \ {w}
At(w, pc) == tx[w].pc = pc
Of(table, R) == {r \in R : r.table = table}
Enqueue == queue' = IF queue < MaxQueue THEN queue + 1 ELSE queue

(* The included orders are changed and committed, or the adjustments; the  *)
(* views then call rebuild_ledger.delay, the admin and the blacklist       *)
(* import do not.                                                          *)
ChangeOrders ==
    /\ input.orders < MaxOrders
    /\ input' = [input EXCEPT !.orders = @ + 1]
    /\ Enqueue \/ UNCHANGED queue
    /\ UNCHANGED <<rows, tx, crashes>>

ChangeAdjustments ==
    /\ input.adjustments < MaxAdjustments
    /\ input' = [input EXCEPT !.adjustments = @ + 1]
    /\ Enqueue \/ UNCHANGED queue
    /\ UNCHANGED <<rows, tx, crashes>>

(* Mutant of HourlySync: a sync that finds nothing new queues no rebuild.  *)
SyncWithoutRebuild == UNCHANGED vars

(* The hourly sync ends by queueing a rebuild.                             *)
HourlySync == Enqueue /\ UNCHANGED <<input, rows, tx, crashes>>

(* Mutant of Begin: the task is run once more than it was queued.          *)
BeginUnqueued(w) ==
    /\ At(w, "idle")
    /\ queue' = queue - 1
    /\ tx' = [tx EXCEPT ![w].pc = "events", ![w].sees = Of("events", rows)]
    /\ UNCHANGED <<input, rows, crashes>>

(* The transaction begins with DELETE FROM ledgerevent, whose view of the  *)
(* table is the one at its start.                                          *)
Begin(w) ==
    /\ At(w, "idle") /\ queue > 0
    /\ queue' = queue - 1
    /\ tx' = [tx EXCEPT ![w].pc = "events", ![w].sees = Of("events", rows)]
    /\ UNCHANGED <<input, rows, crashes>>

(* A DELETE takes its rows as they lie in the table, and one that others   *)
(* wait for after them. Rows that it did not see stay.                     *)
IsFirst(w, r) == r \in tx[w].sees /\ \A s \in tx[w].sees : ~Before(s, r)

Free(w, r) ==
    /\ \A v \in Others(w) : r \notin tx[v].deletes
    /\ r \in tx[w].waits \/ \A v \in Others(w) : r \notin tx[v].waits

DeleteRow(w, r) ==
    /\ IsFirst(w, r) /\ Free(w, r)
    /\ tx' = [tx EXCEPT ![w].sees = @ \ {r}, ![w].waits = {}, ![w].deletes = @ \cup {r}]
    /\ UNCHANGED <<input, queue, rows, crashes>>

(* It comes to a row that another transaction has.                         *)
WaitForRow(w, r) ==
    /\ IsFirst(w, r) /\ ~Free(w, r)
    /\ tx[w].waits = {}
    /\ tx' = [tx EXCEPT ![w].waits = {r}]
    /\ UNCHANGED <<input, queue, rows, crashes>>

(* It has taken all of its rows, and the DELETE of the next table starts.  *)
NextDelete(w) ==
    /\ tx[w].sees = {}
    /\ \E next \in {<<"events", "daily">>, <<"daily", "weekly">>} :
        /\ At(w, next[1])
        /\ tx' = [tx EXCEPT ![w].pc = next[2], ![w].sees = Of(next[2], rows)]
    /\ UNCHANGED <<input, queue, rows, crashes>>

(* build_events reads the orders, and in a statement of its own the        *)
(* adjustments committed by then.                                          *)
ReadOrders(w) ==
    /\ At(w, "weekly") /\ tx[w].sees = {}
    /\ tx' = [tx EXCEPT ![w].pc = "reading", ![w].read.orders = input.orders]
    /\ UNCHANGED <<input, queue, rows, crashes>>

DaysOf(i) == OrderDays[i.orders] \cup AdjustmentDays[i.adjustments]

ByDay(table, w, i) ==
    {[table |-> table, by |-> w, key |-> d, of |-> [x \in {d} |-> i]] : d \in DaysOf(i)}

(* The events are inserted, no key is in their way, and then the daily     *)
(* snapshots.                                                              *)
ReadAdjustments(w) ==
    /\ At(w, "reading")
    /\ LET i == [tx[w].read EXCEPT !.adjustments = input.adjustments]
       IN  tx' = [tx EXCEPT ![w].pc = "insert_daily", ![w].read = i,
                            ![w].inserts = ByDay("events", w, i),
                            ![w].todo = ByDay("daily", w, i)]
    /\ UNCHANGED <<input, queue, rows, crashes>>

SameKey(r, s) == r.table = s.table /\ r.key = s.key

(* Days and weeks come in their order.                                     *)
IsNext(w, r) == r \in tx[w].todo /\ \A s \in tx[w].todo : r.key <= s.key

(* No open transaction has inserted or deleted a row of the key.           *)
KeyFree(w, r) ==
    \A v \in Others(w) : \A s \in tx[v].inserts \cup tx[v].deletes : ~SameKey(r, s)

(* A committed row that w has not deleted has it.                          *)
KeyTaken(w, r) == \E s \in rows \ tx[w].deletes : SameKey(r, s)

(* Mutant of InsertRow: update_or_create instead of create.                *)
UpdateOrCreate(w, r) ==
    /\ IsNext(w, r) /\ KeyFree(w, r)
    /\ tx' = [tx EXCEPT ![w].todo = @ \ {r}, ![w].inserts = @ \cup {r},
                        ![w].deletes = @ \cup {s \in rows : SameKey(r, s)}]
    /\ UNCHANGED <<input, queue, rows, crashes>>

InsertRow(w, r) ==
    /\ IsNext(w, r)
    /\ KeyFree(w, r) /\ ~KeyTaken(w, r)
    /\ tx' = [tx EXCEPT ![w].todo = @ \ {r}, ![w].inserts = @ \cup {r}]
    /\ UNCHANGED <<input, queue, rows, crashes>>

(* Mutant of DuplicateKey: the INSERT is tried again in the transaction.   *)
RetryInsert(w, r) ==
    /\ IsNext(w, r)
    /\ KeyFree(w, r) /\ KeyTaken(w, r)
    /\ UNCHANGED vars

(* IntegrityError: the transaction rolls back and the task fails. Celery   *)
(* does not retry it.                                                      *)
DuplicateKey(w, r) ==
    /\ IsNext(w, r)
    /\ KeyFree(w, r) /\ KeyTaken(w, r)
    /\ tx' = [tx EXCEPT ![w] = NoTx]
    /\ UNCHANGED <<input, queue, rows, crashes>>

(* A week is made of the daily snapshots there are: w's own, and those of  *)
(* others that it did not see when it deleted.                             *)
ByWeek(w, R) ==
    LET daily == Of("daily", R)
        In(k) == {r \in daily : Week[r.key] = k}
    IN  {[table |-> "weekly", by |-> w, key |-> k,
          of |-> [d \in {r.key : r \in In(k)} |-> (CHOOSE r \in In(k) : r.key = d).of[d]]] :
            k \in {Week[r.key] : r \in daily}}

Visible(w) == (rows \ tx[w].deletes) \cup tx[w].inserts

BuildWeekly(w) ==
    /\ At(w, "insert_daily") /\ tx[w].todo = {}
    /\ tx' = [tx EXCEPT ![w].pc = "insert_weekly", ![w].todo = ByWeek(w, Visible(w))]
    /\ UNCHANGED <<input, queue, rows, crashes>>

(* The rows w deleted are dead to a statement that waits for them: it will *)
(* skip them, also if w's new rows look the same.                          *)
Commit(w) ==
    /\ At(w, "insert_weekly") /\ tx[w].todo = {}
    /\ rows' = Visible(w)
    /\ tx' = [v \in Workers |->
                IF v = w THEN NoTx ELSE [tx[v] EXCEPT !.sees = @ \ tx[w].deletes,
                                                 !.waits = @ \ tx[w].deletes]]
    /\ UNCHANGED <<input, queue, crashes>>

(* The worker dies or loses the database: PostgreSQL rolls back.           *)
Crash(w) ==
    /\ ~At(w, "idle")
    /\ crashes < MaxCrashes
    /\ crashes' = crashes + 1
    /\ tx' = [tx EXCEPT ![w] = NoTx]
    /\ UNCHANGED <<input, queue, rows>>

(* w's statement has come to a row or a key that v holds.                  *)
WaitsFor(w, v) ==
    /\ v # w
    /\ \/ tx[w].waits \cap tx[v].deletes # {}
       \/ \E r \in tx[w].todo, s \in tx[v].inserts \cup tx[v].deletes :
            IsNext(w, r) /\ SameKey(r, s)

(* Each worker of such a set waits for another one, so all are in circles. *)
InCircle(w) ==
    \E C \in SUBSET Workers :
        /\ w \in C
        /\ \E next \in Bijection(C, C) : \A v \in C : WaitsFor(v, next[v])

(* PostgreSQL finds the circle and rolls one of its transactions back.     *)
DeadlockVictim(w) ==
    /\ InCircle(w)
    /\ tx' = [tx EXCEPT ![w] = NoTx]
    /\ UNCHANGED <<input, queue, rows, crashes>>

Step(w) ==
    \/ Begin(w)
    \/ \E r \in tx[w].sees : DeleteRow(w, r) \/ WaitForRow(w, r)
    \/ NextDelete(w)
    \/ ReadOrders(w)
    \/ ReadAdjustments(w)
    \/ \E r \in tx[w].todo : InsertRow(w, r) \/ DuplicateKey(w, r)
    \/ BuildWeekly(w)
    \/ Commit(w)

Next ==
    \/ ChangeOrders \/ ChangeAdjustments
    \/ HourlySync
    \/ \E w \in Workers : Step(w) \/ DeadlockVictim(w) \/ Crash(w)

(* Syncs keep succeeding, workers go on, and circles are broken. Fairness  *)
(* of a worker is strong because a statement that waits for a transaction  *)
(* is woken when it ends, before the same worker's next rebuild gets as    *)
(* far as the rows.                                                        *)
Fairness ==
    /\ WF_vars(HourlySync)
    /\ \A w \in Workers : SF_vars(Step(w))
    /\ WF_vars(\E w \in Workers : DeadlockVictim(w))

Spec == Init /\ [][Next]_vars /\ Fairness

-----------------------------------------------------------------------------
(* What a rebuild of the inputs i that nobody disturbs leaves to readers.  *)
Content(R) == {[table |-> r.table, key |-> r.key, of |-> r.of] : r \in R}
Daily(i) == {[table |-> "daily", key |-> d, of |-> [x \in {d} |-> i]] : d \in DaysOf(i)}
Weekly(i) ==
    {[table |-> "weekly", key |-> k,
      of |-> [d \in {x \in DaysOf(i) : Week[x] = k} |-> i]] : k \in {Week[d] : d \in DaysOf(i)}}

(* After the inputs have come to rest the snapshots show them, all of them *)
(* and nothing else, and keep showing them: although rebuilds that overlap *)
(* may lose their keys or be rolled back and are not retried, may leave    *)
(* each other's rows, and may build weeks of them (engine.py:77-193).      *)
Shows(i) == Content(Of("daily", rows) \cup Of("weekly", rows)) = Daily(i) \cup Weekly(i)
EventuallyFresh == <>[]Shows(input)

Older(i, j) == i.orders <= j.orders /\ i.adjustments <= j.adjustments

(* A day's snapshot never gives way to one of older orders or adjustments: *)
(* of rebuilds that read different ones and wait for each other's key, the *)
(* one that read first cannot end last (engine.py:79-83).                  *)
NeverOlder ==
    [][\A r \in Of("daily", rows), s \in Of("daily", rows') :
            r.key = s.key => Older(r.of[r.key], s.of[s.key])]_vars

(* No rebuild stays open: whoever waits for a row or a key waits for a     *)
(* transaction that ends, or for one in a circle that PostgreSQL breaks    *)
(* (engine.py:77-193).                                                     *)
RebuildsEnd == \A w \in Workers : tx[w].pc # "idle" ~> tx[w].pc = "idle"
=============================================================================
