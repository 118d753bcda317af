------------------------------ MODULE OrderRow ------------------------------
(***************************************************************************)
(* One order's rows in the database, and everyone who writes them:         *)
(*   - the sync, the detail task and the fetch_missing_details command,    *)
(*     which store payloads in RawP2POrder and then normalise              *)
(*     (apps/exchange/services/sync.py, apps/exchange/tasks.py,            *)
(*     apps/orders/services/normalizer.py and ignore_rules.py);            *)
(*   - the commands that move the ledger start and import the blacklist;   *)
(*   - the user, who ignores and restores the order (apps/orders/views.py),*)
(*     the admin's bulk action and the form of the raw row                 *)
(*     (apps/orders/admin.py).                                             *)
(*                                                                         *)
(* No reader takes a row lock: a row is read, changed in memory and saved. *)
(* The payload columns are saved one by one (update_fields) by all but the *)
(* admin's form; the normalised row is saved whole by the normaliser and   *)
(* by the user's view, each writing back what the other changed since.     *)
(***************************************************************************)
EXTENDS Naturals

CONSTANTS
    Syncs,      \* processes that run the sync
    Jobs,       \* processes that run the other tasks and commands
    OneAtATime  \* bound: no order view runs while the raw row's form is being saved

ASSUME ProcessAssumption == Syncs \cap Jobs = {} /\ OneAtATime \in BOOLEAN

Workers == Syncs \cup Jobs

VARIABLES
    raw,       \* the RawP2POrder row: absent, with a list payload, with both
    order,     \* the P2POrder row: NoRow, or the payload it was normalised
               \* from and whether it is included in ledger, lists and export
    before,    \* the order lies before ledger_start_at
    rule,      \* an IgnoredOrderRule names it
    recent,    \* the hourly sync lists it: it lies within the overlap
    worker,    \* the job each process is executing
    user,      \* the payload behind the row an order view has read and not
               \* yet saved, if any; it decides the flags by itself
    raw_form,  \* the payload of the raw row a request of its admin form has
               \* read and not yet saved, if any
    details,   \* a fetch_sync_order_details task is queued for it
    rebuilds,  \* a rebuild_ledger task is queued
    ledger     \* the order was in the ledger that was last built

rows == <<raw, order>>
facts == <<before, rule, recent>>
vars == <<raw, order, before, rule, recent, worker, user, raw_form, details, rebuilds, ledger>>

Payloads == {"listed", "detailed"}
NoRow == [net |-> "none", included |-> FALSE]
Row(net, included) == [net |-> net, included |-> included]
Rows == [net : Payloads, included : BOOLEAN] \cup {NoRow}

(* What a normaliser keeps of the order it has read: its flags.            *)
Copies == {"none", "included", "excluded"}
Flags(row) ==
    IF row = NoRow THEN "none" ELSE IF row.included THEN "included" ELSE "excluded"

Idle == [pc |-> "idle", seen |-> "absent", copy |-> "none", pending |-> FALSE]

TypeOK ==
    /\ raw \in {"absent"} \cup Payloads
    /\ order \in Rows
    /\ before \in BOOLEAN /\ rule \in BOOLEAN /\ recent \in BOOLEAN
    /\ worker \in [Workers ->
            [seen : {"absent"} \cup Payloads, copy : Copies, pending : BOOLEAN,
             pc : {"idle", "store", "snapshot", "read", "save", "apply", "queue"}]]
    /\ user \in {"none"} \cup Payloads /\ raw_form \in {"none"} \cup Payloads
    /\ details \in BOOLEAN /\ rebuilds \in BOOLEAN
    /\ ledger \in BOOLEAN

Init ==
    /\ raw = "absent" /\ order = NoRow
    /\ before = FALSE /\ rule = FALSE /\ recent = TRUE
    /\ worker = [w \in Workers |-> Idle]
    /\ user = "none" /\ raw_form = "none"
    /\ details = FALSE /\ rebuilds = FALSE /\ ledger = FALSE

-----------------------------------------------------------------------------
At(w, pc) == worker[w].pc = pc
Goto(w, pc) == worker' = [worker EXCEPT ![w].pc = pc]

(* _upsert_raw_order reads the row of an order the exchange lists, to the  *)
(* hourly sync while it is recent, to a backfill also later.               *)
SyncRead(w) ==
    /\ w \in Syncs /\ At(w, "idle")
    /\ worker' = [worker EXCEPT ![w] =
            [Idle EXCEPT !.pc = "store", !.seen = raw]]
    /\ UNCHANGED <<rows, facts, user, raw_form, details, rebuilds, ledger>>

(* The last success is so long ago that syncs from it on do not list the   *)
(* order any more (_resolve_period). By then one of them has stored it.    *)
LeaveOverlap ==
    /\ recent /\ raw # "absent"
    /\ recent' = FALSE
    /\ UNCHANGED <<rows, before, rule, worker, user, raw_form, details, rebuilds, ledger>>

(* A sync that does not list the order still normalises all raw rows.      *)
SyncPassOver(w) ==
    /\ w \in Syncs /\ At(w, "idle")
    /\ ~recent /\ raw # "absent"
    /\ worker' = [worker EXCEPT ![w] = [Idle EXCEPT !.pc = "snapshot"]]
    /\ UNCHANGED <<rows, facts, user, raw_form, details, rebuilds, ledger>>

HourlySync(w) == IF recent THEN SyncRead(w) ELSE SyncPassOver(w)

(* Mutant of SyncStore: the whole row read before is written back.         *)
SyncStoreWholeRow(w) ==
    /\ w \in Syncs /\ At(w, "store")
    /\ worker[w].seen = "absent" => raw = "absent"
    /\ raw' = IF worker[w].seen = "absent" THEN "listed" ELSE worker[w].seen
    /\ worker' = [worker EXCEPT ![w].pc = "snapshot", ![w].seen = "absent",
                                ![w].pending = (worker[w].seen # "detailed")]
    /\ UNCHANGED <<order, facts, user, raw_form, details, rebuilds, ledger>>

(* Mutant of SyncStore: an UPDATE that never creates the row.              *)
SyncStoreUpdateOnly(w) ==
    /\ w \in Syncs /\ At(w, "store")
    /\ worker' = [worker EXCEPT ![w].pc = "snapshot", ![w].seen = "absent",
                                ![w].pending = (worker[w].seen # "detailed")]
    /\ UNCHANGED <<raw, order, facts, user, raw_form, details, rebuilds, ledger>>

(* The row is created, or its raw_list_payload alone is written. Its       *)
(* detail is pending if the row just read had none.                        *)
SyncStore(w) ==
    /\ w \in Syncs /\ At(w, "store")
    /\ IF worker[w].seen = "absent"
       THEN raw = "absent" /\ raw' = "listed"
       ELSE UNCHANGED raw
    /\ worker' = [worker EXCEPT ![w].pc = "snapshot", ![w].seen = "absent",
                                ![w].pending = (worker[w].seen # "detailed")]
    /\ UNCHANGED <<order, facts, user, raw_form, details, rebuilds, ledger>>

(* fetch_order_details_for_ids reads the row in the queued task, or in the *)
(* command over every row without detail. A row that has one is passed over.*)
DetailRead(w) ==
    /\ w \in Jobs /\ At(w, "idle")
    /\ details /\ raw = "listed"
    /\ details' = FALSE
    /\ worker' = [worker EXCEPT ![w] = [Idle EXCEPT !.pc = "store"]]
    /\ UNCHANGED <<rows, facts, user, raw_form, rebuilds, ledger>>

FetchMissing(w) ==
    /\ w \in Jobs /\ At(w, "idle")
    /\ raw = "listed"
    /\ worker' = [worker EXCEPT ![w] = [Idle EXCEPT !.pc = "store"]]
    /\ UNCHANGED <<rows, facts, user, raw_form, details, rebuilds, ledger>>

DetailAlreadyThere ==
    /\ details /\ raw = "detailed"
    /\ details' = FALSE
    /\ UNCHANGED <<rows, facts, worker, user, raw_form, rebuilds, ledger>>

(* The answer arrives and raw_detail_payload alone is written.             *)
DetailStore(w) ==
    /\ w \in Jobs /\ At(w, "store")
    /\ raw' = "detailed"
    /\ Goto(w, "snapshot")
    /\ UNCHANGED <<order, facts, user, raw_form, details, rebuilds, ledger>>

-----------------------------------------------------------------------------
(* normalize_account_orders fetches all raw rows before it saves the first *)
(* order; normalize_raw_order then reads the order and saves it whole.     *)
Snapshot(w) ==
    /\ At(w, "snapshot")
    /\ worker' = [worker EXCEPT ![w].pc = "read", ![w].seen = raw]
    /\ UNCHANGED <<rows, facts, user, raw_form, details, rebuilds, ledger>>

ReadOrder(w) ==
    /\ At(w, "read")
    /\ worker' = [worker EXCEPT ![w].pc = "save", ![w].copy = Flags(order)]
    /\ UNCHANGED <<rows, facts, user, raw_form, details, rebuilds, ledger>>

(* Mutant of SaveOrder: an order is normalised once, when it is created.   *)
SaveNewOrderOnly(w) ==
    /\ At(w, "save")
    /\ IF worker[w].copy = "none"
       THEN order = NoRow /\ order' = Row(worker[w].seen, TRUE)
       ELSE UNCHANGED order
    /\ worker' = [worker EXCEPT ![w].pc = "apply", ![w].seen = "absent", ![w].copy = "none"]
    /\ UNCHANGED <<raw, facts, user, raw_form, details, rebuilds, ledger>>

(* The normalised fields are new, the flags are those of the row read; a   *)
(* new row is included.                                                    *)
SaveOrder(w) ==
    /\ At(w, "save")
    /\ IF worker[w].copy = "none"
       THEN order = NoRow /\ order' = Row(worker[w].seen, TRUE)
       ELSE order' = Row(worker[w].seen, worker[w].copy = "included")
    /\ worker' = [worker EXCEPT ![w].pc = "apply", ![w].seen = "absent", ![w].copy = "none"]
    /\ UNCHANGED <<raw, facts, user, raw_form, details, rebuilds, ledger>>

Excluded(row) == row # NoRow /\ ~row.included
Exclude(row) == IF row = NoRow THEN NoRow ELSE Row(row.net, FALSE)


(* apply_ignore_rules: the orders before the start, as the account row     *)
(* says now, and the orders named by rules are excluded. It never includes *)
(* an order again.                                                         *)
ApplyRules(w) ==
    /\ At(w, "apply")
    /\ order' = IF before \/ rule THEN Exclude(order) ELSE order
    /\ Goto(w, "queue")
    /\ UNCHANGED <<raw, facts, user, raw_form, details, rebuilds, ledger>>

(* Mutant of Queue: a sync rebuilds only when it has found new orders.     *)
QueueWhenNew(w) ==
    /\ At(w, "queue")
    /\ rebuilds' \in {TRUE, rebuilds}
    /\ w \in Syncs => rebuilds' = (rebuilds \/ worker[w].pending)
    /\ details' = (details \/ worker[w].pending)
    /\ worker' = [worker EXCEPT ![w] = Idle]
    /\ UNCHANGED <<rows, facts, user, raw_form, ledger>>

(* What is done last. The sync queues a rebuild and the pending detail. Of *)
(* the jobs the detail task and the ledger start command rebuild, the      *)
(* other two leave the ledger as it is; which one it was is not kept.      *)
Queue(w) ==
    /\ At(w, "queue")
    /\ rebuilds' \in {TRUE, rebuilds}
    /\ w \in Syncs => rebuilds'
    /\ details' = (details \/ worker[w].pending)
    /\ worker' = [worker EXCEPT ![w] = Idle]
    /\ UNCHANGED <<rows, facts, user, raw_form, ledger>>

(* The unique constraints refuse a row that another process has created    *)
(* since it was looked for: the run ends with the exception.               *)
Refused(w) ==
    /\ \/ w \in Syncs /\ At(w, "store")
          /\ worker[w].seen = "absent" /\ raw # "absent"
       \/ At(w, "save") /\ worker[w].copy = "none" /\ order # NoRow
    /\ worker' = [worker EXCEPT ![w] = Idle]
    /\ UNCHANGED <<rows, facts, user, raw_form, details, rebuilds, ledger>>

(* The process is killed or the exchange fails.                            *)
Abort(w) ==
    /\ ~At(w, "idle")
    /\ worker' = [worker EXCEPT ![w] = Idle]
    /\ UNCHANGED <<rows, facts, user, raw_form, details, rebuilds, ledger>>

-----------------------------------------------------------------------------
(* set_ledger_start_date and set_ledger_start_from_order: store the start, *)
(* apply the rules, rebuild.                                               *)
SetStart(w, b) ==
    /\ w \in Jobs /\ At(w, "idle")
    /\ before' = b
    /\ worker' = [worker EXCEPT ![w] = [Idle EXCEPT !.pc = "apply"]]
    /\ UNCHANGED <<rows, rule, recent, user, raw_form, details, rebuilds, ledger>>

(* import_legacy_blacklist: upsert_ignored_order_rules stores the rule and *)
(* then excludes the order, if there is one.                               *)
Import(w) ==
    /\ w \in Jobs /\ At(w, "idle")
    /\ rule' = TRUE
    /\ worker' = [worker EXCEPT ![w] = [Idle EXCEPT !.pc = "apply"]]
    /\ UNCHANGED <<rows, before, recent, user, raw_form, details, rebuilds, ledger>>

(* order_ignore and order_restore: the view reads the row, then saves all  *)
(* of it with the flags the user asked for and queues a rebuild.           *)
UserRead ==
    /\ user = "none" /\ order # NoRow
    /\ OneAtATime => raw_form = "none"
    /\ user' = order.net
    /\ UNCHANGED <<rows, facts, worker, raw_form, details, rebuilds, ledger>>

UserSave(include) ==
    /\ user # "none"
    /\ order' = Row(user, include)
    /\ user' = "none"
    /\ rebuilds' = TRUE
    /\ UNCHANGED <<raw, facts, worker, raw_form, details, ledger>>

(* The admin action "mark_ignored": one UPDATE of the flags, no rebuild.   *)
AdminMark ==
    /\ order # NoRow
    /\ order' = Exclude(order)
    /\ UNCHANGED <<raw, facts, worker, user, raw_form, details, rebuilds, ledger>>

(* The admin form of the raw row: its POST reads the row, the payloads     *)
(* being read-only fields that keep what was read, and saves all columns.  *)
RawFormRead ==
    /\ raw_form = "none" /\ raw # "absent"
    /\ OneAtATime => user = "none"
    /\ raw_form' = raw
    /\ UNCHANGED <<rows, facts, worker, user, details, rebuilds, ledger>>

RawFormSave ==
    /\ raw_form # "none"
    /\ raw' = raw_form
    /\ raw_form' = "none"
    /\ UNCHANGED <<order, facts, worker, user, details, rebuilds, ledger>>

(* The rebuild task: build_events reads the included orders.               *)
Rebuild ==
    /\ rebuilds
    /\ rebuilds' = FALSE
    /\ ledger' = order.included
    /\ UNCHANGED <<rows, facts, worker, user, raw_form, details>>

-----------------------------------------------------------------------------
Step(w) ==
    \/ SyncStore(w)
    \/ DetailStore(w)
    \/ Snapshot(w)
    \/ ReadOrder(w)
    \/ SaveOrder(w)
    \/ ApplyRules(w)
    \/ Queue(w)
    \/ Refused(w)

Next ==
    \/ \E w \in Workers : Step(w) \/ Abort(w)
    \/ \E w \in Syncs : SyncRead(w) \/ SyncPassOver(w)
    \/ LeaveOverlap
    \/ \E w \in Jobs :
        \/ DetailRead(w)
        \/ FetchMissing(w)
        \/ \E b \in BOOLEAN : SetStart(w, b)
        \/ Import(w)
    \/ DetailAlreadyThere
    \/ UserRead
    \/ \E include \in BOOLEAN : UserSave(include)
    \/ AdminMark
    \/ RawFormRead
    \/ RawFormSave
    \/ Rebuild

(* Beat starts a sync every hour, what is started goes on, and the worker  *)
(* takes its queue, from which commands, being processes of their own, do  *)
(* not keep it. Nothing is assumed of users, the admin and commands.       *)
Fairness ==
    /\ \A w \in Syncs : WF_vars(HourlySync(w))
    /\ \A w \in Jobs : SF_vars(DetailRead(w))
    /\ \A w \in Workers : WF_vars(Step(w))
    /\ WF_vars(Rebuild)
    /\ <>[][\A w \in Workers : Abort(w) => Step(w)]_vars

Spec == Init /\ [][Next]_vars /\ Fairness

-----------------------------------------------------------------------------
(* A detail payload, once stored, is lost to one writer only: the admin's  *)
(* form, whose request read the raw row before the detail came. No sync,   *)
(* task or command writes an older row over it (sync.py:209-211, 257-261). *)
DetailKept ==
    [][raw = "detailed" /\ raw' # "detailed" => RawFormSave /\ raw_form = "listed"]_vars

(* A detail that stays in the database reaches the normalised row, also if *)
(* a normaliser that fetched the rows earlier, or a user's view, writes    *)
(* the older amounts over it, and also if the order has left the overlap.  *)
(* While the order has not, a detail whose fetch fails, or which the       *)
(* admin's form has put away, is fetched again.                            *)
DetailReachesOrder ==
    /\ raw = "detailed" ~> order.net = "detailed" \/ raw = "listed"
    /\ []recent => []<>(raw = "detailed")


(* An order that stays excluded leaves the ledger for good, by whatever    *)
(* path it was excluded.                                                   *)
ExclusionReachesLedger == <>[]Excluded(order) => <>[](~ledger)

(* An order the user or the admin has ignored comes back by a restore      *)
(* only: "Mark selected as ignored (exclude from ledger)"                  *)
(* (apps/orders/admin.py:23).                                              *)
OnlyRestoreIncludes == [][Excluded(order) /\ order'.included => UserSave(TRUE)]_vars
=============================================================================
