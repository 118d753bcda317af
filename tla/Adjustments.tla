----------------------------- MODULE Adjustments -----------------------------
(***************************************************************************)
(* The adjustments of one exchange account and the requests that book      *)
(* them: create, edit and delete (apps/ledger/views.py, forms.py), deposit,*)
(* withdraw and link_contribution (apps/investors/services.py, views.py),  *)
(* and the reconciliation with its correction                              *)
(* (apps/reconciliation/views.py); with the rebuild each of them queues.   *)
(*                                                                         *)
(* Requests run in several web workers. Each that changes a row reads it,  *)
(* looks for a link, and later saves the whole row or creates the link; no *)
(* row is locked and no constraint refuses a second link.                  *)
(***************************************************************************)
EXTENDS Integers, Sequences, FiniteSets, Functions

CONSTANTS
    Ids,         \* LedgerAdjustment rows there may be
    Requests,    \* web workers
    Forms,       \* what the form of an adjustment may bring, the amounts
                 \* with the sign of their type
    Amounts,     \* what an investor may pay in, or out if negative
    Facts,       \* balances a reconciliation may state
    Trades,      \* what a synced order may move
    MaxChanges   \* bound on requests that change something

Sides == {"bank", "exchange"}

(* What the code tells apart of account and type: deposits and withdrawals *)
(* of the bank may be linked, its corrections and taxes may not, nor may   *)
(* anything on the exchange.                                               *)
Kinds == {"capital", "other", "usdt"}
Side(kind) == IF kind = "usdt" THEN "exchange" ELSE "bank"

ASSUME IdsAssumption == IsFiniteSet(Ids)
ASSUME FormsAssumption == Forms \subseteq [kind : Kinds, amount : Int, counted : BOOLEAN]
ASSUME AmountsAssumption == Amounts \subseteq Int \ {0}
ASSUME FactsAssumption == Facts \subseteq [Sides -> Int] /\ Trades \subseteq [Sides -> Int]
ASSUME ChangesAssumption == MaxChanges \in Nat

VARIABLES
    adj,       \* LedgerAdjustment rows
    links,     \* the amounts of each one's InvestorCapitalTransactions
    req,       \* what each web worker is doing
    snap,      \* the BalanceSnapshot, if there is one
    account,   \* "shown": get_active_account finds this account;
               \* "hidden": it finds another one first; "inactive"
    rebuild,   \* a rebuild_ledger task of this account is queued
    ledger,    \* balances of the adjustments in the last rebuild
    traded,    \* what the orders included in the ledger amount to
    raced,     \* auxiliary: rows two requests have had in hand at once
    moved,     \* auxiliary: what was booked and traded since each request's
               \* reconciliation read the books
    changes

vars == <<adj, links, req, snap, account, rebuild, ledger, traded, raced, moved, changes>>

Row(kind, amount, counted) ==
    [kind |-> kind, amount |-> amount, counted |-> counted, deleted |-> FALSE]
Saved(form) == Row(form.kind, form.amount, form.counted)
Rows == [kind : Kinds, amount : Int, counted : BOOLEAN, deleted : BOOLEAN]
NoRow == [kind |-> "none"]
NoSnapshot == [diff |-> "none"]

Idle == [op |-> "none", pc |-> "idle", id |-> "none", copy |-> NoRow, own |-> FALSE]

TypeOK ==
    /\ adj \in [Ids -> Rows \cup {NoRow}]
    /\ links \in [Ids -> Seq(Int)]
    /\ req \in [Requests ->
            {Idle} \cup [op : {"edit", "delete", "link"}, pc : {"hand"}, id : Ids,
                         copy : Rows, own : BOOLEAN]
                   \cup [op : {"none"}, pc : {"queue"}, id : {"none"}, copy : {NoRow},
                         own : BOOLEAN]
                   \cup [op : {"check"}, pc : {"orders", "state"}, fact : [Sides -> Int],
                         state : [Sides -> Int]]]
    /\ snap \in {NoSnapshot} \cup [by : Requests, fact : [Sides -> Int],
                                   diff : [Sides -> Int], booked : [Sides -> Nat]]
    /\ account \in {"shown", "hidden", "inactive"}
    /\ rebuild \in BOOLEAN
    /\ ledger \in [Sides -> Int]
    /\ traded \in [Sides -> Int]
    /\ raced \subseteq Ids
    /\ moved \in [Requests -> [Sides -> Int]]
    /\ changes \in 0..MaxChanges

Nothing == [s \in Sides |-> 0]

Init ==
    /\ adj = [a \in Ids |-> NoRow]
    /\ links = [a \in Ids |-> <<>>]
    /\ req = [r \in Requests |-> Idle]
    /\ snap = NoSnapshot
    /\ account = "shown"
    /\ rebuild = FALSE /\ ledger = Nothing /\ traded = Nothing
    /\ raced = {} /\ moved = [r \in Requests |-> Nothing]
    /\ changes = 0

-----------------------------------------------------------------------------
(* build_events takes what is included, of a known type and not deleted.   *)
Counts(row, s) == row # NoRow /\ row.counted /\ ~row.deleted /\ Side(row.kind) = s

Balance(rows, s) ==
    SumFunction([a \in Ids |-> IF Counts(rows[a], s) THEN rows[a].amount ELSE 0])

Balances(rows) == [s \in Sides |-> Balance(rows, s)]

Fresh == CHOOSE a \in Ids : adj[a] = NoRow
HasFresh == \E a \in Ids : adj[a] = NoRow

Change == changes < MaxChanges /\ changes' = changes + 1

(* A reconciliation that has read the adjustments, or at least the orders, *)
(* and is not given up: it is still to be saved or is the snapshot.        *)
HasState(r) == IF snap = NoSnapshot THEN req[r].pc = "state" ELSE snap.by = r
HasOrders(r) == HasState(r) \/ (snap = NoSnapshot /\ req[r].pc = "orders")

(* Rows change, and the auxiliary sums of what moved since they were read. *)
Book(rows) ==
    /\ adj' = rows
    /\ moved' = [r \in Requests |->
                    IF HasState(r)
                    THEN [s \in Sides |-> moved[r][s] + Balance(rows, s) - Balance(adj, s)]
                    ELSE moved[r]]

(* The change is committed, and a rebuild is yet to be queued: for this    *)
(* account, or for the one the request has found active.                   *)
Committed(r, own) ==
    req' = [req EXCEPT ![r] = [Idle EXCEPT !.pc = "queue", !.own = own]]

Free(r) == req[r] = Idle
InHand(r, op) == req[r].pc = "hand" /\ req[r].op = op

-----------------------------------------------------------------------------
(* adjustment_create: AdjustmentForm.save and one INSERT.                  *)
Create(r, form) ==
    /\ Free(r) /\ Change /\ HasFresh
    /\ account = "shown"
    /\ Book([adj EXCEPT ![Fresh] = Saved(form)])
    /\ Committed(r, TRUE)
    /\ UNCHANGED <<links, snap, account, rebuild, ledger, traded, raced>>

(* deposit and withdraw, the latter when the report lets it: adjustment    *)
(* and capital transaction in one database transaction.                    *)
Move(r, amount) ==
    /\ Free(r) /\ Change /\ HasFresh
    /\ account = "shown"
    /\ Book([adj EXCEPT ![Fresh] = Row("capital", amount, TRUE)])
    /\ links' = [links EXCEPT ![Fresh] = <<amount>>]
    /\ Committed(r, TRUE)
    /\ UNCHANGED <<snap, account, rebuild, ledger, traded, raced>>

(* Two requests with the same row in hand, of which one will not leave it  *)
(* free.                                                                   *)
Races(r, op, a) ==
    \E q \in Requests \ {r} :
        /\ req[q].pc = "hand" /\ req[q].id = a
        /\ op # "edit" \/ req[q].op # "edit"

Linkable(row) == row.kind = "capital" /\ row.amount # 0

(* Mutant of Look: the views do not look for a link.                       *)
LookAtRowOnly(r, op, a) ==
    /\ Free(r) /\ adj[a] # NoRow /\ ~adj[a].deleted
    /\ op = "link" => account = "shown" /\ Linkable(adj[a]) /\ links[a] = <<>>
    /\ req' = [req EXCEPT ![r] = [op |-> op, pc |-> "hand", id |-> a, copy |-> adj[a],
                                  own |-> op = "delete" \/ account = "shown"]]
    /\ raced' = IF Races(r, op, a) THEN raced \cup {a} ELSE raced
    /\ UNCHANGED <<adj, links, snap, account, rebuild, ledger, traded, moved, changes>>

(* The row is read and no link of it is found. adjustment_edit asks for    *)
(* the active account before that, whichever account the row is of.        *)
Look(r, op, a) ==
    /\ Free(r) /\ adj[a] # NoRow /\ ~adj[a].deleted
    /\ links[a] = <<>>
    /\ op = "link" => account = "shown" /\ Linkable(adj[a])
    /\ req' = [req EXCEPT ![r] = [op |-> op, pc |-> "hand", id |-> a, copy |-> adj[a],
                                  own |-> op = "delete" \/ account = "shown"]]
    /\ raced' = IF Races(r, op, a) THEN raced \cup {a} ELSE raced
    /\ UNCHANGED <<adj, links, snap, account, rebuild, ledger, traded, moved, changes>>

(* adjustment_edit saves the row it has read with the fields of the form.  *)
Edit(r, form) ==
    /\ InHand(r, "edit") /\ Change
    /\ Book([adj EXCEPT ![req[r].id] = Saved(form)])
    /\ Committed(r, req[r].own)
    /\ UNCHANGED <<links, snap, account, rebuild, ledger, traded, raced>>

(* adjustment_delete saves the row it has read with is_deleted.            *)
Delete(r) ==
    /\ InHand(r, "delete") /\ Change
    /\ Book([adj EXCEPT ![req[r].id] = [req[r].copy EXCEPT !.deleted = TRUE]])
    /\ Committed(r, req[r].own)
    /\ UNCHANGED <<links, snap, account, rebuild, ledger, traded, raced>>

(* Mutant of Link: the amount is stored without regard to the type's sign. *)
LinkUnsigned(r) ==
    /\ InHand(r, "link") /\ Change
    /\ links' = [links EXCEPT ![req[r].id] =
                    Append(@, IF req[r].copy.amount < 0 THEN -req[r].copy.amount
                              ELSE req[r].copy.amount)]
    /\ req' = [req EXCEPT ![r] = Idle]
    /\ UNCHANGED <<adj, snap, account, rebuild, ledger, traded, raced, moved>>

(* link_contribution: a capital transaction of the amount that was read,   *)
(* also of a row that is left out of the ledger. No money moves and no     *)
(* rebuild is queued.                                                      *)
Link(r) ==
    /\ InHand(r, "link") /\ Change
    /\ links' = [links EXCEPT ![req[r].id] = Append(@, req[r].copy.amount)]
    /\ req' = [req EXCEPT ![r] = Idle]
    /\ UNCHANGED <<adj, snap, account, rebuild, ledger, traded, raced, moved>>

-----------------------------------------------------------------------------
Check(pc, fact, state) == [op |-> "check", pc |-> pc, fact |-> fact, state |-> state]

(* reconciliation_create, GET or POST: LedgerEngine.get_current_state      *)
(* selects the included orders first. One reconciliation is followed.      *)
ReadOrders(r, fact) ==
    /\ Free(r) /\ account = "shown" /\ snap = NoSnapshot
    /\ req' = [req EXCEPT ![r] = Check("orders", fact, traded)]
    /\ UNCHANGED <<adj, links, snap, account, rebuild, ledger, traded, raced, moved,
                   changes>>

(* Then the adjustments, in a statement of its own: whatever moment the    *)
(* user says the stated balances are of, the state is of these two.        *)
ReadAdjustments(r) ==
    /\ req[r].pc = "orders" /\ snap = NoSnapshot
    /\ req' = [req EXCEPT ![r] =
                  Check("state", req[r].fact,
                        [s \in Sides |-> req[r].state[s] + Balance(adj, s)])]
    /\ UNCHANGED <<adj, links, snap, account, rebuild, ledger, traded, raced, moved,
                   changes>>

(* Mutant of Save: the exchange is not compared.                           *)
SaveBank(r) ==
    /\ req[r].pc = "state" /\ snap = NoSnapshot /\ Change
    /\ snap' = [by |-> r, fact |-> req[r].fact, booked |-> Nothing,
                diff |-> [s \in {"bank"} |-> req[r].fact[s] - req[r].state[s]]]
    /\ req' = [req EXCEPT ![r] = Idle]
    /\ moved' = [q \in Requests |-> IF q = r THEN moved[r] ELSE Nothing]
    /\ UNCHANGED <<adj, links, account, rebuild, ledger, traded, raced>>

(* And the snapshot is saved with the difference from what was read; no    *)
(* transaction holds the three together.                                   *)
Save(r) ==
    /\ req[r].pc = "state" /\ snap = NoSnapshot /\ Change
    /\ snap' = [by |-> r, fact |-> req[r].fact, booked |-> Nothing,
                diff |-> [s \in Sides |-> req[r].fact[s] - req[r].state[s]]]
    /\ req' = [req EXCEPT ![r] = Idle]
    /\ moved' = [q \in Requests |-> IF q = r THEN moved[r] ELSE Nothing]
    /\ UNCHANGED <<adj, links, account, rebuild, ledger, traded, raced>>

(* An order is normalised, restated, excluded or put back.                 *)
Trade(t) ==
    /\ Change
    /\ traded' = [s \in Sides |-> traded[s] + t[s]]
    /\ moved' = [r \in Requests |->
                    IF HasOrders(r) THEN [s \in Sides |-> moved[r][s] + t[s]] ELSE moved[r]]
    /\ UNCHANGED <<adj, links, req, snap, account, rebuild, ledger, raced>>

(* Mutant of Correct: the difference the wrong way round.                  *)
CorrectReversed(r, s) ==
    /\ Free(r) /\ Change
    /\ snap # NoSnapshot
    /\ IF snap.diff[s] = 0
       THEN UNCHANGED <<adj, snap>>
       ELSE /\ HasFresh
            /\ adj' = [adj EXCEPT ![Fresh] =
                        Row(IF s = "bank" THEN "other" ELSE "usdt", -snap.diff[s], TRUE)]
            /\ snap' = [snap EXCEPT !.booked[s] = @ + 1]
    /\ Committed(r, TRUE)
    /\ UNCHANGED <<links, account, rebuild, ledger, traded, raced, moved>>

(* create_correction: an adjustment of the difference found then. Nothing  *)
(* marks the snapshot as corrected: it may be asked for again.             *)
Correct(r, s) ==
    /\ Free(r) /\ Change
    /\ snap # NoSnapshot
    /\ IF snap.diff[s] = 0
       THEN UNCHANGED <<adj, snap>>
       ELSE /\ HasFresh
            /\ adj' = [adj EXCEPT ![Fresh] =
                        Row(IF s = "bank" THEN "other" ELSE "usdt", snap.diff[s], TRUE)]
            /\ snap' = [snap EXCEPT !.booked[s] = @ + 1]
    /\ Committed(r, TRUE)
    /\ UNCHANGED <<links, account, rebuild, ledger, traded, raced, moved>>

-----------------------------------------------------------------------------
(* rebuild_ledger.delay, after the response's change is committed.         *)
Queue(r) ==
    /\ req[r].pc = "queue"
    /\ rebuild' = (rebuild \/ req[r].own)
    /\ req' = [req EXCEPT ![r] = Idle]
    /\ UNCHANGED <<adj, links, snap, account, ledger, traded, raced, moved, changes>>

(* The web worker is killed, the broker does not answer, a form is refused,*)
(* or there is no active account to queue for.                             *)
GiveUp(r) ==
    /\ ~Free(r)
    /\ req' = [req EXCEPT ![r] = Idle]
    /\ moved' = IF snap = NoSnapshot THEN [moved EXCEPT ![r] = Nothing] ELSE moved
    /\ UNCHANGED <<adj, links, snap, account, rebuild, ledger, traded, raced, changes>>

(* The admin activates and deactivates this account and others.            *)
Switch(to) ==
    /\ account # to
    /\ account' = to
    /\ UNCHANGED <<adj, links, req, snap, rebuild, ledger, traded, raced, moved, changes>>

(* Mutant of HourlySync: only the account users are shown is synced.       *)
HourlySyncOfShown ==
    /\ account = "shown" /\ ~rebuild
    /\ rebuild' = TRUE
    /\ UNCHANGED <<adj, links, req, snap, account, ledger, traded, raced, moved, changes>>

(* sync_all_active_accounts; every sync that succeeds queues a rebuild.    *)
HourlySync ==
    /\ account # "inactive" /\ ~rebuild
    /\ rebuild' = TRUE
    /\ UNCHANGED <<adj, links, req, snap, account, ledger, traded, raced, moved, changes>>

Rebuild ==
    /\ rebuild
    /\ rebuild' = FALSE
    /\ ledger' = Balances(adj)
    /\ UNCHANGED <<adj, links, req, snap, account, traded, raced, moved, changes>>

Next ==
    \/ \E r \in Requests :
        \/ \E form \in Forms : Create(r, form) \/ Edit(r, form)
        \/ \E amount \in Amounts : Move(r, amount)
        \/ \E op \in {"edit", "delete", "link"}, a \in Ids : Look(r, op, a)
        \/ Delete(r)
        \/ Link(r)
        \/ \E fact \in Facts : ReadOrders(r, fact)
        \/ ReadAdjustments(r)
        \/ Save(r)
        \/ \E s \in Sides : Correct(r, s)
        \/ Queue(r)
        \/ GiveUp(r)
    \/ \E to \in {"shown", "hidden", "inactive"} : Switch(to)
    \/ \E t \in Trades : Trade(t)
    \/ HourlySync
    \/ Rebuild

(* Syncs succeed again and again and the worker takes its queue. Nothing   *)
(* is assumed of requests: any of them may end before it has queued.       *)
Fairness == SF_vars(HourlySync) /\ WF_vars(Rebuild)

Spec == Init /\ [][Next]_vars /\ Fairness

-----------------------------------------------------------------------------
Status(a) ==
    IF adj[a] = NoRow THEN "absent"
    ELSE IF a \in raced THEN "contested"
    ELSE IF adj[a].deleted THEN "deleted"
    ELSE IF links[a] # <<>> THEN "owned" ELSE "free"

Life == INSTANCE AdjustmentLife WITH status <- [a \in Ids |-> Status(a)]

(* However requests interleave and wherever they end, a row that no two of *)
(* them have had in hand at once is an investor's or deleted for good, and *)
(* is one of the two only (ledger/views.py:59 and 82, services.py:382).    *)
ImplementsLife == Life!Spec

(* An investor's capital is what the adjustment says: of a row no two      *)
(* requests had in hand at once there is one capital transaction at most,  *)
(* of the row's amount, also after edits before the link and refused ones  *)
(* after it, and the row is one of capital and not deleted.                *)
CapitalIsBooked ==
    \A a \in Ids \ raced :
        links[a] # <<>> => /\ links[a] = <<adj[a].amount>>
                           /\ adj[a].kind = "capital" /\ ~adj[a].deleted

(* A correction closes the difference the reconciliation has found, and    *)
(* every repetition opens it again by as much: what the books say is what  *)
(* was stated, the corrections beyond the first (or one that is missing)   *)
(* and whatever else was traded, booked, edited or deleted since the books *)
(* were read (reconciliation/views.py:51), also before it was saved (:61). *)
CorrectionSettles ==
    snap # NoSnapshot =>
        \A s \in Sides :
            traded[s] + Balance(adj, s)
                = snap.fact[s] + (snap.booked[s] - 1) * snap.diff[s] + moved[snap.by][s]

(* The ledger catches up with the adjustments of an account that stays     *)
(* active, also when a request ends between its commit and its rebuild, or *)
(* an edit queues the rebuild of another account (ledger/views.py:52, 65). *)
LedgerCatchesUp == <>[](account # "inactive") => <>[](ledger = Balances(adj))
=============================================================================
