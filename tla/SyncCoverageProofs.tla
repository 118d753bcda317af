------------------------- MODULE SyncCoverageProofs -------------------------
(***************************************************************************)
(* Coverage for any number of orders and of interleaving runs, any period  *)
(* lengths and clock: nothing completed before the last success is missing *)
(* but what a page loop has passed over, provided an order completes       *)
(* within the overlap and a run succeeds often enough for the history the  *)
(* exchange keeps.                                                         *)
(*                                                                         *)
(* `last` may move backwards (an overlapping run, a stale admin form), so  *)
(* the invariant speaks of `best`, the furthest period ever recorded, and  *)
(* of each run's own period: it starts at least Overlap before `best`.     *)
(***************************************************************************)
EXTENDS SyncCoverage, TLAPS

(* The times of orders, which only the exchange and the clock write.       *)
OrdersInv ==
    /\ \A o \in placed : created[o] <= now
    /\ \A o \in done :
        /\ created[o] <= completed[o]
        /\ completed[o] <= created[o] + MaxLag
        /\ completed[o] <= now

(* Everything completed before t is in the set s.                          *)
CoveredBy(s, t) == \A o \in done : completed[o] < t => o \in s

NoLater(t, bound) == t # None => t <= bound

RecordInv ==
    /\ best <= now /\ now <= best + MaxGap
    /\ NoLater(last, best) /\ NoLater(copy, best)
    /\ CoveredBy(kept \cup passed, best)

(* What a run knows at each step: where it started from, its period, and   *)
(* that what was completed then is stored, passed over, or still listed in *)
(* the window that is being paged through.                                 *)
LoadedInv(r) == run[r].pc = "loaded" => NoLater(run[r].base, best)

ListingInv(r) ==
    run[r].pc \in {"listing", "paging"} =>
        /\ run[r].from + Overlap <= best
        /\ run[r].from <= run[r].cursor
        /\ run[r].to <= now
        /\ \A o \in done : completed[o] < run[r].to /\ run[r].from <= created[o]
                           /\ created[o] < run[r].cursor => o \in raw \cup passed

PagingInv(r) ==
    run[r].pc = "paging" =>
        /\ run[r].cursor < run[r].to
        /\ \A o \in done : completed[o] < run[r].to /\ run[r].cursor <= created[o]
                           /\ created[o] <= WindowEnd(r) => o \in run[r].opened

NormalizedInv(r) ==
    run[r].pc = "normalized" => run[r].to <= now /\ CoveredBy(kept \cup passed, run[r].to)

RunInv(r) == LoadedInv(r) /\ ListingInv(r) /\ PagingInv(r) /\ NormalizedInv(r)

IInv == TypeOK /\ OrdersInv /\ RecordInv /\ \A r \in Runs : RunInv(r)

USE OverlapAssumption, HistoryAssumption, WindowAssumption, LagAssumption,
    GapAssumption, NowAssumption, NoneAssumption

-----------------------------------------------------------------------------
LEMMA CoverageInit == Init => IInv
BY DEF Init, IInv, TypeOK, OrdersInv, RecordInv, CoveredBy, NoLater, RunInv,
       LoadedInv, ListingInv, PagingInv, NormalizedInv, Idle, Outside, RunState, Phases

(* Type correctness, step by step.                                         *)
LEMMA TypeStep == ASSUME TypeOK, [Next]_vars PROVE TypeOK'
<1> USE DEF TypeOK
<1>1. CASE Tick
  BY <1>1 DEF Tick, exchange
<1>2. ASSUME NEW o \in Orders, Place(o) PROVE TypeOK'
  BY <1>2 DEF Place
<1>3. ASSUME NEW o \in Orders, Complete(o) PROVE TypeOK'
  BY <1>3 DEF Complete
<1>4. ASSUME NEW r \in Runs, RunStep(r) PROVE TypeOK'
  <2>1. CASE LoadAccount(r)
    BY <2>1 DEF LoadAccount, exchange, Outside, RunState, Phases
  <2>2. ASSUME NEW mode \in Modes, Resolve(r, mode) PROVE TypeOK'
    <3>1. PeriodFrom(run[r].base, mode) \in Int
      BY DEF PeriodFrom, Later, RunState
    <3>2. QED
      BY <2>2, <3>1 DEF Resolve, exchange, RunState, Phases
  <2>3. CASE OpenWindow(r)
    <3>1. WindowList(r) \subseteq done
      BY DEF WindowList, Listed
    <3> DEFINE next == [run[r] EXCEPT !.pc = "paging", !.opened = WindowList(r)]
    <3>2. next \in RunState /\ next.opened \subseteq done
      BY <3>1 DEF RunState, Phases
    <3>3. run' = [run EXCEPT ![r] = next]
      BY <2>3 DEF OpenWindow
    <3> HIDE DEF next
    <3>4. QED
      BY <2>3, <3>2, <3>3 DEF OpenWindow, exchange
  <2>7. CASE StorePage(r)
    BY <2>7 DEF StorePage, WindowList, Listed, exchange
  <2>8. CASE CloseWindow(r)
    <3>1. WindowEnd(r) \in Int
      BY DEF WindowEnd, Earlier, RunState
    <3>2. QED
      <4> DEFINE next == [run[r] EXCEPT !.pc = "listing", !.cursor = WindowEnd(r),
                                        !.opened = {}]
      <4>1. next \in RunState /\ next.opened \subseteq done
        BY <3>1 DEF RunState, Phases
      <4>2. run' = [run EXCEPT ![r] = next] /\ passed' \subseteq done
        BY <2>8 DEF CloseWindow, Missed
      <4> HIDE DEF next
      <4>3. QED
        BY <2>8, <4>1, <4>2 DEF CloseWindow, exchange
  <2>4. CASE Normalize(r)
    BY <2>4 DEF Normalize, exchange, Outside, RunState, Phases
  <2>5. CASE Record(r)
    BY <2>5 DEF Record, Later, exchange, Outside, RunState, Phases
  <2>6. QED
    BY <1>4, <2>1, <2>2, <2>3, <2>4, <2>5, <2>7, <2>8 DEF RunStep
<1>5. ASSUME NEW r \in Runs, Fail(r) PROVE TypeOK'
  BY <1>5 DEF Fail, exchange, Idle, Outside, RunState, Phases
<1>6. CASE AdminLoad
  BY <1>6 DEF AdminLoad, exchange
<1>7. CASE AdminSave
  BY <1>7 DEF AdminSave, exchange
<1>8. CASE UNCHANGED vars
  BY <1>8 DEF vars, exchange
<1>9. QED
  BY <1>1, <1>2, <1>3, <1>4, <1>5, <1>6, <1>7, <1>8 DEF Next

(* The clock stays near the last success, stored rows stay within what the *)
(* exchange has completed.                                                 *)
THEOREM TypeCorrect == SafeSpec => []TypeOK
<1>1. Init => TypeOK
  BY CoverageInit DEF IInv
<1>2. QED
  BY <1>1, TypeStep, PTL DEF SafeSpec

-----------------------------------------------------------------------------
(* What a step leaves of a run's invariant when the run itself does not    *)
(* move: the stored sets only grow, and what completes later completes at  *)
(* a time no recorded or resolved period has passed.                       *)
LEMMA OthersKeep ==
    ASSUME IInv, TypeOK', NEW r \in Runs, run'[r] = run[r],
           now <= now', best <= best', raw \subseteq raw', kept \subseteq kept',
           passed \subseteq passed',
           \A o \in done : o \in done' /\ created'[o] = created[o] /\ completed'[o] = completed[o],
           \A o \in done' \ done : completed'[o] >= now
    PROVE  RunInv(r)'
<1> USE DEF IInv, TypeOK, RunState, RunInv
<1>1. LoadedInv(r)'
  BY DEF LoadedInv, NoLater
<1>2. ListingInv(r)'
  BY DEF ListingInv
<1>3. NormalizedInv(r)'
  BY DEF NormalizedInv, CoveredBy
<1>5. PagingInv(r)'
  <2>1. CASE run[r].pc = "paging"
    <3>1. run[r].to <= now
      BY <2>1 DEF ListingInv
    <3>2. \A o \in done' : completed'[o] < run[r].to => o \in done
      BY <3>1
    <3>3. QED
      BY <2>1, <3>2 DEF PagingInv, WindowEnd, Earlier
  <2>2. QED
    BY <2>1 DEF PagingInv
<1>4. QED
  BY <1>1, <1>2, <1>3, <1>5

(* The heart of the argument: once its windows are listed, every order     *)
(* completed before the run's period ended is stored or has been passed    *)
(* over. Those completed before `best` were so already; a later one was    *)
(* created less than MaxLag <= Overlap before it completed, hence inside   *)
(* the period.                                                             *)
LEMMA ListedCovers ==
    ASSUME MaxLag <= Overlap, IInv, NEW r \in Runs, Normalizing(r)
    PROVE  CoveredBy(raw \cup passed, run[r].to) /\ run[r].to <= now
<1> USE DEF IInv, TypeOK, RunState
<1>1. ListingInv(r) /\ run[r].pc = "listing" /\ run[r].cursor >= run[r].to
  BY DEF RunInv, Normalizing
<1>2. ASSUME NEW o \in done, completed[o] < run[r].to PROVE o \in raw \cup passed
  <2>1. created[o] \in Nat /\ completed[o] \in Nat
    OBVIOUS
  <2>2. created[o] <= completed[o] /\ completed[o] <= created[o] + MaxLag
    BY DEF OrdersInv
  <2>3. CASE completed[o] < best
    BY <2>3 DEF RecordInv, CoveredBy
  <2>4. CASE completed[o] >= best
    <3>1. run[r].from <= created[o]
      BY <1>1, <2>1, <2>2, <2>4 DEF ListingInv
    <3>2. created[o] < run[r].cursor
      BY <1>1, <1>2, <2>1, <2>2
    <3>3. QED
      BY <1>1, <1>2, <3>1, <3>2 DEF ListingInv
  <2>5. QED
    BY <2>1, <2>3, <2>4
<1>3. QED
  BY <1>1, <1>2 DEF CoveredBy, ListingInv

(* A period starts at least Overlap before everything recorded: by the     *)
(* overlap itself, or because the history reaches that far.                *)
LEMMA PeriodStart ==
    ASSUME MaxGap + Overlap <= History, IInv, NEW r \in Runs, run[r].pc = "loaded",
           NEW mode \in Modes
    PROVE  /\ PeriodFrom(run[r].base, mode) \in Int
           /\ PeriodFrom(run[r].base, mode) + Overlap <= best
<1> USE DEF IInv, TypeOK, RunState
<1>1. NoLater(run[r].base, best) /\ run[r].base \in Nat \cup {None}
  BY DEF RunInv, LoadedInv
<1>2. now - History + Overlap <= best
  BY DEF RecordInv
<1>3. QED
  BY <1>1, <1>2 DEF PeriodFrom, Later, NoLater

-----------------------------------------------------------------------------
LEMMA CoverageStep ==
    ASSUME MaxLag <= Overlap, MaxGap + Overlap <= History,
           IInv, TypeOK', [Next]_vars
    PROVE  IInv'
<1> DEFINE Frame ==
        /\ now <= now' /\ best <= best' /\ raw \subseteq raw' /\ kept \subseteq kept'
        /\ passed \subseteq passed'
        /\ \A o \in done : o \in done' /\ created'[o] = created[o] /\ completed'[o] = completed[o]
        /\ \A o \in done' \ done : completed'[o] >= now
<1> USE DEF IInv
<1>1. CASE Tick
  <2>1. Frame /\ run' = run
    BY <1>1 DEF Tick, exchange, TypeOK
  <2>2. OrdersInv'
    BY <1>1 DEF Tick, exchange, OrdersInv, TypeOK
  <2>3. RecordInv'
    BY <1>1 DEF Tick, exchange, RecordInv, NoLater, CoveredBy, TypeOK
  <2>4. QED
    BY <2>1, <2>2, <2>3, OthersKeep
<1>2. ASSUME NEW o \in Orders, Place(o) PROVE IInv'
  <2>1. Frame /\ run' = run
    BY <1>2 DEF Place, TypeOK
  <2>2. OrdersInv'
    BY <1>2 DEF Place, OrdersInv, TypeOK
  <2>3. RecordInv'
    BY <1>2 DEF Place, RecordInv, NoLater, CoveredBy, TypeOK
  <2>4. QED
    BY <2>1, <2>2, <2>3, OthersKeep
<1>3. ASSUME NEW o \in Orders, Complete(o) PROVE IInv'
  <2>1. Frame /\ run' = run
    BY <1>3 DEF Complete, TypeOK
  <2>2. OrdersInv'
    BY <1>3 DEF Complete, OrdersInv, TypeOK
  <2>3. RecordInv'
    BY <1>3 DEF Complete, RecordInv, NoLater, CoveredBy, TypeOK
  <2>4. QED
    BY <2>1, <2>2, <2>3, OthersKeep
<1>4. ASSUME NEW r \in Runs, RunStep(r) PROVE IInv'
  <2>1. OrdersInv'
    BY <1>4 DEF RunStep, LoadAccount, Resolve, OpenWindow, StorePage, CloseWindow,
                Normalize, Record, exchange, OrdersInv
  <2>2. Frame
    BY <1>4 DEF RunStep, LoadAccount, Resolve, OpenWindow, StorePage, CloseWindow,
                Normalize, Record, exchange, TypeOK, RunState, Later
  <2>3. \A s \in Runs \ {r} : RunInv(s)'
    <3>1. \A s \in Runs \ {r} : run'[s] = run[s]
      BY <1>4 DEF RunStep, LoadAccount, Resolve, OpenWindow, StorePage, CloseWindow,
                  Normalize, Record, TypeOK
    <3>2. QED
      BY <2>2, <3>1, OthersKeep
  <2>4. RecordInv' /\ RunInv(r)'
    <3>1. CASE LoadAccount(r)
      <4>1. run'[r] = Outside("loaded", last)
        BY <3>1 DEF LoadAccount, TypeOK
      <4>2. QED
        BY <3>1, <4>1 DEF LoadAccount, exchange, RecordInv, CoveredBy, NoLater, Outside,
                          RunInv, LoadedInv, ListingInv, PagingInv, NormalizedInv
    <3>2. ASSUME NEW mode \in Modes, Resolve(r, mode) PROVE RecordInv' /\ RunInv(r)'
      <4>1. PICK from \in Int :
              /\ from + Overlap <= best
              /\ run'[r] = [pc |-> "listing", base |-> None, from |-> from,
                            to |-> now, cursor |-> from, opened |-> {}]
        BY <3>2, PeriodStart DEF Resolve, TypeOK
      <4>2. ListingInv(r)'
        BY <3>2, <4>1 DEF Resolve, exchange, ListingInv, TypeOK
      <4>3. QED
        BY <3>2, <4>1, <4>2 DEF Resolve, exchange, RecordInv, CoveredBy, NoLater,
                                RunInv, LoadedInv, PagingInv, NormalizedInv
    <3>3. CASE OpenWindow(r)
      <4>1. run'[r] = [run[r] EXCEPT !.pc = "paging", !.opened = WindowList(r)]
            /\ run[r].pc = "listing"
        BY <3>3 DEF OpenWindow, TypeOK
      <4>2. /\ run'[r].pc = "paging" /\ run'[r].opened = WindowList(r)
            /\ run'[r].from = run[r].from /\ run'[r].to = run[r].to
            /\ run'[r].cursor = run[r].cursor
        BY <4>1 DEF TypeOK, RunState
      <4>3. ListingInv(r)'
        BY <3>3, <4>1, <4>2 DEF OpenWindow, exchange, RunInv, ListingInv
      <4>4. PagingInv(r)'
        BY <3>3, <4>2 DEF OpenWindow, exchange, PagingInv, WindowList, Listed, WindowEnd
      <4>5. RecordInv'
        BY <3>3 DEF OpenWindow, exchange, RecordInv, CoveredBy, NoLater
      <4>6. QED
        BY <4>2, <4>3, <4>4, <4>5 DEF RunInv, LoadedInv, NormalizedInv
    <3>7. CASE StorePage(r)
      <4>1. run' = run /\ raw \subseteq raw'
        BY <3>7 DEF StorePage
      <4>2. RunInv(r)'
        BY <2>2, <4>1, OthersKeep
      <4>3. RecordInv'
        BY <3>7 DEF StorePage, exchange, RecordInv, CoveredBy, NoLater
      <4>4. QED
        BY <4>2, <4>3
    <3>8. CASE CloseWindow(r)
      <4>1. /\ run'[r] = [run[r] EXCEPT !.pc = "listing", !.cursor = WindowEnd(r),
                                       !.opened = {}]
            /\ run[r].pc = "paging" /\ passed' = passed \cup (run[r].opened \ raw)
            /\ UNCHANGED <<now, done, created, completed, raw, kept, last, best, copy>>
        BY <3>8 DEF CloseWindow, Missed, exchange, TypeOK
      <4>2. /\ run'[r].pc = "listing" /\ run'[r].from = run[r].from
            /\ run'[r].to = run[r].to /\ run'[r].cursor = WindowEnd(r)
        BY <4>1 DEF TypeOK, RunState
      <4>3. /\ run[r].cursor \in Int /\ run[r].from \in Int /\ WindowEnd(r) \in Int
            /\ run[r].cursor <= run[r].to => run[r].cursor <= WindowEnd(r)
            /\ run[r].to <= run[r].cursor => WindowEnd(r) = run[r].to
        BY DEF WindowEnd, Earlier, TypeOK, RunState
      <4>4. ListingInv(r) /\ PagingInv(r)
        BY DEF RunInv
      <4>5. ListingInv(r)'
        <5>1. ASSUME NEW o \in done, completed[o] < run[r].to,
                     run[r].from <= created[o], created[o] < WindowEnd(r)
              PROVE  o \in raw' \cup passed'
          <6>1. created[o] \in Nat
            BY DEF TypeOK
          <6>2. CASE created[o] < run[r].cursor
            BY <4>1, <4>4, <5>1, <6>2 DEF ListingInv
          <6>3. CASE run[r].cursor <= created[o]
            <7>1. o \in run[r].opened
              BY <4>1, <4>3, <4>4, <5>1, <6>1, <6>3 DEF PagingInv
            <7>2. QED
              BY <4>1, <7>1
          <6>4. QED
            BY <4>3, <6>1, <6>2, <6>3
        <5>2. run[r].from <= WindowEnd(r)
          <6>1. /\ run[r].from <= run[r].cursor /\ run[r].cursor < run[r].to
                /\ run[r].to \in Nat
            BY <4>1, <4>4 DEF ListingInv, PagingInv, TypeOK, RunState
          <6>2. QED
            BY <4>3, <6>1
        <5>3. QED
          BY <4>1, <4>2, <4>4, <5>1, <5>2 DEF ListingInv
      <4>6. RecordInv'
        BY <4>1 DEF RecordInv, CoveredBy, NoLater
      <4>7. QED
        BY <4>2, <4>5, <4>6 DEF RunInv, LoadedInv, PagingInv, NormalizedInv
    <3>4. CASE Normalize(r)
      <4>1. CoveredBy(raw \cup passed, run[r].to) /\ run[r].to <= now
        BY <3>4, ListedCovers DEF Normalize
      <4>2. run'[r].pc = "normalized" /\ run'[r].to = run[r].to
        BY <3>4 DEF Normalize, Outside, TypeOK, RunState
      <4>3. RecordInv'
        BY <3>4 DEF Normalize, exchange, RecordInv, CoveredBy, NoLater, TypeOK
      <4>4. QED
        BY <3>4, <4>1, <4>2, <4>3 DEF Normalize, exchange, CoveredBy,
                                      RunInv, LoadedInv, ListingInv, PagingInv, NormalizedInv
    <3>5. CASE Record(r)
      <4>1. run[r].to \in Nat /\ run[r].to <= now /\ CoveredBy(kept \cup passed, run[r].to)
        BY <3>5 DEF Record, RunInv, NormalizedInv, TypeOK, RunState
      <4>2. RecordInv'
        BY <3>5, <4>1 DEF Record, Later, exchange, RecordInv, CoveredBy, NoLater, TypeOK
      <4>3. run'[r] = Outside("recorded", None)
        BY <3>5 DEF Record, TypeOK
      <4>4. QED
        BY <4>2, <4>3 DEF Outside, RunInv, LoadedInv, ListingInv, PagingInv, NormalizedInv
    <3>6. QED
      BY <1>4, <3>1, <3>2, <3>3, <3>4, <3>5, <3>7, <3>8 DEF RunStep
  <2>5. QED
    BY <2>1, <2>3, <2>4
<1>5. ASSUME NEW r \in Runs, Fail(r) PROVE IInv'
  <2>1. Frame /\ \A s \in Runs \ {r} : run'[s] = run[s]
    BY <1>5 DEF Fail, exchange, TypeOK
  <2>2. run'[r] = Idle
    BY <1>5 DEF Fail, TypeOK
  <2>3. RunInv(r)'
    BY <2>2 DEF Idle, Outside, RunInv, LoadedInv, ListingInv, PagingInv, NormalizedInv
  <2>4. OrdersInv' /\ RecordInv'
    BY <1>5 DEF Fail, exchange, OrdersInv, RecordInv, CoveredBy, NoLater
  <2>5. QED
    BY <2>1, <2>3, <2>4, OthersKeep
<1>6. CASE AdminLoad \/ AdminSave
  <2>1. Frame /\ run' = run
    BY <1>6 DEF AdminLoad, AdminSave, exchange, TypeOK
  <2>2. OrdersInv' /\ RecordInv'
    BY <1>6 DEF AdminLoad, AdminSave, exchange, OrdersInv, RecordInv, CoveredBy, NoLater
  <2>3. QED
    BY <2>1, <2>2, OthersKeep
<1>7. CASE UNCHANGED vars
  <2>1. Frame /\ run' = run
    BY <1>7 DEF vars, exchange, TypeOK
  <2>2. OrdersInv' /\ RecordInv'
    BY <1>7 DEF vars, exchange, OrdersInv, RecordInv, CoveredBy, NoLater
  <2>3. QED
    BY <2>1, <2>2, OthersKeep
<1>8. QED
  BY <1>1, <1>2, <1>3, <1>4, <1>5, <1>6, <1>7 DEF Next

(* However runs overlap, fail and start from stale rows (sync.py:50-133),  *)
(* every order completed before the last success has its normalised row,   *)
(* unless a page loop has passed over it (sync.py:192-196).                *)
THEOREM NothingMissed ==
    ASSUME MaxLag <= Overlap, MaxGap + Overlap <= History
    PROVE  SafeSpec => []Coverage
<1>1. IInv /\ TypeOK' /\ [Next]_vars => IInv'
  BY CoverageStep
<1>2. IInv => Coverage
  BY DEF IInv, TypeOK, RecordInv, Coverage, CoveredBy, NoLater
<1>3. QED
  BY <1>1, <1>2, CoverageInit, TypeCorrect, PTL DEF SafeSpec
=============================================================================
