---------------------------- MODULE SyncCoverage ----------------------------
(***************************************************************************)
(* Which completed orders a sync run brings in, from choosing its period   *)
(* to recording it (SyncService._execute_sync, _resolve_period and         *)
(* _sync_period in apps/exchange/services/sync.py).                        *)
(*                                                                         *)
(* Bybit lists an account's completed orders by the time they were         *)
(* created. A run asks for [last success - overlap, now], cut to the       *)
(* history the API keeps, window by window and in each page by page; then  *)
(* it normalises every raw row and records the end of its period as the    *)
(* last success. An order is brought in by no other path, so one that      *)
(* every successful run passes over is missing for good once the overlap   *)
(* has moved on. The page loop may pass over orders, and the run succeed   *)
(* (see Pagination), when the list has grown under it; it passes over none *)
(* when no order has come into the window since its first page.            *)
(*                                                                         *)
(* The module does not use the lock: runs interleave freely, as they do    *)
(* once a run has outlived its key (see SyncLock).                         *)
(***************************************************************************)
EXTENDS Integers

CONSTANTS
    Orders,     \* orders the account may place, of those followed here
    Others,     \* whether it places others besides
    Runs,       \* processes that may execute a sync
    Overlap,    \* SYNC_OVERLAP_DAYS
    History,    \* SAFE_HISTORY_DAYS
    MaxWindow,  \* MAX_QUERY_WINDOW_DAYS
    MaxLag,     \* an order that completes does so within MaxLag of its creation
    MaxGap,     \* time does not run MaxGap past the latest recorded period
    MaxNow,     \* bound on the clock
    None        \* last_successful_sync_at of an account never synced

ASSUME OthersAssumption == Others \in BOOLEAN
ASSUME OverlapAssumption == Overlap \in Nat \ {0}
ASSUME HistoryAssumption == History \in Nat \ {0}
ASSUME WindowAssumption == MaxWindow \in Nat \ {0}
ASSUME LagAssumption == MaxLag \in Nat
ASSUME GapAssumption == MaxGap \in Nat
ASSUME NowAssumption == MaxNow \in Nat
ASSUME NoneAssumption == None \notin Int

VARIABLES
    now,        \* the clock, in days; the account opens at 0
    placed,     \* orders that exist on the exchange
    created,    \* their creation times
    done,       \* orders with COMPLETED_STATUS
    completed,  \* their completion times
    raw,        \* orders with a RawP2POrder row
    kept,       \* orders with a normalised P2POrder row
    last,       \* ExchangeAccount.last_successful_sync_at in the database
    best,       \* auxiliary: the latest period end ever recorded
    passed,     \* auxiliary: orders a page loop has passed over
    run,        \* the sync each process executes
    copy        \* the row an admin form has loaded and will write back whole

exchange == <<placed, created, done, completed>>
vars == <<now, placed, created, done, completed, raw, kept, last, best, passed, run, copy>>

Modes == {"incremental", "backfill"}   \* manual and hourly syncs choose alike
Phases == {"idle", "loaded", "listing", "paging", "normalized", "recorded"}

(* opened is what the API listed of a window at its first page.            *)
RunState == [pc : Phases, base : Nat \cup {None}, from : Int, to : Nat, cursor : Int,
             opened : SUBSET Orders]

(* A process outside _sync_period, knowing only the row it has loaded.     *)
Outside(pc, base) == [pc |-> pc, base |-> base, from |-> 0, to |-> 0, cursor |-> 0,
                      opened |-> {}]
Idle == Outside("idle", None)

-----------------------------------------------------------------------------
TypeOK ==
    /\ now \in 0..MaxNow
    /\ done \subseteq placed /\ placed \subseteq Orders
    /\ created \in [Orders -> Nat] /\ completed \in [Orders -> Nat]
    /\ kept \subseteq raw /\ raw \subseteq done
    /\ last \in Nat \cup {None} /\ copy \in Nat \cup {None}
    /\ best \in Nat /\ passed \subseteq done
    /\ run \in [Runs -> RunState] /\ \A r \in Runs : run[r].opened \subseteq done

Init ==
    /\ now = 0
    /\ placed = {} /\ done = {}
    /\ created = [o \in Orders |-> 0] /\ completed = [o \in Orders |-> 0]
    /\ raw = {} /\ kept = {}
    /\ last = None /\ best = 0 /\ passed = {} /\ copy = None
    /\ run = [r \in Runs |-> Idle]

-----------------------------------------------------------------------------
(* The exchange and the clock.                                             *)
Place(o) ==
    /\ o \notin placed
    /\ placed' = placed \cup {o}
    /\ created' = [created EXCEPT ![o] = now]
    /\ UNCHANGED <<now, done, completed, raw, kept, last, best, passed, run, copy>>

Complete(o) ==
    /\ o \in placed \ done
    /\ now <= created[o] + MaxLag
    /\ done' = done \cup {o}
    /\ completed' = [completed EXCEPT ![o] = now]
    /\ UNCHANGED <<now, placed, created, raw, kept, last, best, passed, run, copy>>

(* Some sync succeeds at least every MaxGap days.                          *)
Tick ==
    /\ now < MaxNow /\ now < best + MaxGap
    /\ now' = now + 1
    /\ UNCHANGED <<exchange, raw, kept, last, best, passed, run, copy>>

-----------------------------------------------------------------------------
(* The task loads the account row, before it asks for the lock.            *)
LoadAccount(r) ==
    /\ run[r].pc \in {"idle", "recorded"}
    /\ run' = [run EXCEPT ![r] = Outside("loaded", last)]
    /\ UNCHANGED <<now, exchange, raw, kept, last, best, passed, copy>>

Later(a, b) == IF a < b THEN b ELSE a
Earlier(a, b) == IF a < b THEN a ELSE b

(* Mutant of PeriodFrom: no overlap with the last period.                  *)
PeriodFromLastSuccess(base, mode) ==
    LET earliest == now - History
    IN  IF mode = "backfill" \/ base = None THEN earliest
        ELSE Later(base, earliest)

(* _resolve_period: from what the loaded row says, which may be stale.     *)
PeriodFrom(base, mode) ==
    LET earliest == now - History
    IN  IF mode = "backfill" \/ base = None THEN earliest
        ELSE Later(base - Overlap, earliest)

Resolve(r, mode) ==
    /\ run[r].pc = "loaded"
    /\ LET from == PeriodFrom(run[r].base, mode)
       IN  run' = [run EXCEPT ![r] = [pc |-> "listing", base |-> None,
                                      from |-> from, to |-> now, cursor |-> from,
                                      opened |-> {}]]
    /\ UNCHANGED <<now, exchange, raw, kept, last, best, passed, copy>>

(* Mutant of Listed: the COMPLETED_STATUS filter is dropped.               *)
ListedInAnyStatus(from, to) == {o \in placed : from <= created[o] /\ created[o] <= to}

(* The orders of a window that are completed by now.                       *)
WindowEnd(r) == Earlier(run[r].cursor + MaxWindow, run[r].to)
Listed(from, to) == {o \in done : from <= created[o] /\ created[o] <= to}
WindowList(r) == Listed(run[r].cursor, WindowEnd(r))

(* _sync_single_window, for the next of iter_query_windows: the first page.*)
OpenWindow(r) ==
    /\ run[r].pc = "listing"
    /\ run[r].cursor < run[r].to
    /\ run' = [run EXCEPT ![r].pc = "paging", ![r].opened = WindowList(r)]
    /\ UNCHANGED <<now, exchange, raw, kept, last, best, passed, copy>>

(* The orders of a page are upserted; some may have come in meanwhile.     *)
StorePage(r) ==
    /\ run[r].pc = "paging"
    /\ \E page \in SUBSET (WindowList(r) \ raw) \ {{}} : raw' = raw \cup page
    /\ UNCHANGED <<now, exchange, kept, last, best, passed, run, copy>>

(* The loop ends. What it was listed and has not stored was pushed past    *)
(* the last page by orders that have come into the window since the first. *)
Missed(r) == run[r].opened \ raw

CloseWindow(r) ==
    /\ run[r].pc = "paging"
    /\ Missed(r) = {} \/ WindowList(r) # run[r].opened \/ Others
    /\ passed' = passed \cup Missed(r)
    /\ run' = [run EXCEPT ![r].pc = "listing", ![r].cursor = WindowEnd(r),
                          ![r].opened = {}]
    /\ UNCHANGED <<now, exchange, raw, kept, last, best, copy>>

(* After the last window, normalize_account_orders goes over every raw row *)
(* of the account.                                                         *)
Normalizing(r) == run[r].pc = "listing" /\ run[r].cursor >= run[r].to

Normalize(r) ==
    /\ Normalizing(r)
    /\ kept' = raw
    /\ run' = [run EXCEPT ![r] = [Outside("normalized", None) EXCEPT !.to = run[r].to]]
    /\ UNCHANGED <<now, exchange, raw, last, best, passed, copy>>

(* Mutant of Record: the time the run ends, not the end of its period.     *)
RecordFinishTime(r) ==
    /\ run[r].pc = "normalized"
    /\ last' = now
    /\ best' = Later(best, now)
    /\ run' = [run EXCEPT ![r] = Outside("recorded", None)]
    /\ UNCHANGED <<now, exchange, raw, kept, passed, copy>>

(* last_successful_sync_at := period_to, the only column written.          *)
Record(r) ==
    /\ run[r].pc = "normalized"
    /\ last' = run[r].to
    /\ best' = Later(best, run[r].to)
    /\ run' = [run EXCEPT ![r] = Outside("recorded", None)]
    /\ UNCHANGED <<now, exchange, raw, kept, passed, copy>>

(* An API error after its retries, or a row the normaliser cannot read,    *)
(* ends the run as FAILED; a killed worker just ends it. What it has stored *)
(* and normalised stays, the last success does not move.                   *)
Fail(r) ==
    /\ run[r].pc # "idle"
    /\ \E some \in SUBSET raw :
        /\ some = {} \/ Normalizing(r)
        /\ kept' = kept \cup some
    /\ run' = [run EXCEPT ![r] = Idle]
    /\ UNCHANGED <<now, exchange, raw, last, best, passed, copy>>

(* The account's admin form saves the whole row it read.                   *)
AdminLoad ==
    /\ copy' = last
    /\ UNCHANGED <<now, exchange, raw, kept, last, best, passed, run>>

AdminSave ==
    /\ last' = copy
    /\ UNCHANGED <<now, exchange, raw, kept, best, passed, run, copy>>

RunStep(r) ==
    \/ LoadAccount(r)
    \/ \E mode \in Modes : Resolve(r, mode)
    \/ OpenWindow(r)
    \/ StorePage(r)
    \/ CloseWindow(r)
    \/ Normalize(r)
    \/ Record(r)

Next ==
    \/ Tick
    \/ \E o \in Orders : Place(o) \/ Complete(o)
    \/ \E r \in Runs : RunStep(r) \/ Fail(r)
    \/ AdminLoad
    \/ AdminSave

(* A sync is attempted for ever and takes its next step once started, and  *)
(* from some time on none is killed or refused by the API.                 *)
Fairness ==
    /\ \A r \in Runs : WF_vars(RunStep(r))
    /\ <>[][\A r \in Runs : ~Fail(r)]_vars

SafeSpec == Init /\ [][Next]_vars
Spec == SafeSpec /\ Fairness

-----------------------------------------------------------------------------
(* Every order completed before the last success is in the database and    *)
(* normalised, but for those a page loop has passed over: what "List sync  *)
(* completed" (sync.py:72) lets a reader conclude, and why the next run    *)
(* may start where this one ended.                                         *)
Coverage == last # None => \A o \in done : completed[o] < last => o \in kept \cup passed

(* A completed order is brought in eventually, whatever runs fail on the   *)
(* way, unless a page loop passes over it.                                 *)
CompletedIsKept == \A o \in Orders : o \in done ~> o \in kept \cup passed
=============================================================================
