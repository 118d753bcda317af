----------------------------- MODULE Pagination -----------------------------
(***************************************************************************)
(* The page loop of one query window (SyncService._sync_single_window,     *)
(* apps/exchange/services/sync.py:135-198) against a list that grows while *)
(* it is read: an order created in the window may complete between two     *)
(* pages and enters the list wherever its creation time puts it, shifting  *)
(* the orders after it to the right.                                       *)
(***************************************************************************)
EXTENDS Naturals, FiniteSets, Sequences, SequencesExt

CONSTANTS
    PageSize,    \* PAGE_SIZE
    MaxListed,   \* bound on the orders listed when the loop starts
    MaxInserts   \* bound on the orders that complete while it runs

ASSUME PageAssumption == PageSize \in Nat \ {0}
ASSUME BoundsAssumption == MaxListed \in Nat /\ MaxInserts \in Nat

VARIABLES
    list,     \* the exchange's answer to the query, were it one page
    listed,   \* the orders in it when the loop started
    counts,   \* whether the API reports "count" with its pages
    page,     \* the next page asked for
    total,    \* total_count, 0 standing for None
    seen,     \* seen_ids: the orders upserted
    status    \* "paging", "completed", or "failed" after an API error

vars == <<list, listed, counts, page, total, seen, status>>

Inserts == Len(list) - Cardinality(listed)

TypeOK ==
    /\ list \in Seq(1..(MaxListed + MaxInserts)) /\ IsInjective(list)
    /\ listed \subseteq ToSet(list)
    /\ counts \in BOOLEAN
    /\ page \in 1..(MaxListed + MaxInserts + 1)
    /\ total \in 0..(MaxListed + MaxInserts)
    /\ seen \subseteq ToSet(list)
    /\ status \in {"paging", "completed", "failed"}

-----------------------------------------------------------------------------
Init ==
    /\ \E n \in 0..MaxListed : list = [i \in 1..n |-> i]
    /\ listed = ToSet(list)
    /\ counts \in BOOLEAN
    /\ page = 1 /\ total = 0 /\ seen = {}
    /\ status = "paging"

(* An order created in the window completes.                               *)
Insert ==
    /\ status = "paging"
    /\ Inserts < MaxInserts
    /\ \E i \in 1..(Len(list) + 1) : list' = InsertAt(list, i, Len(list) + 1)
    /\ UNCHANGED <<listed, counts, page, total, seen, status>>

Items == {list[i] : i \in {j \in DOMAIN list : (page - 1) * PageSize < j /\ j <= page * PageSize}}

(* Mutant of TotalCount: the counts of all pages are added up.             *)
TotalCountSummed == IF counts THEN total + Len(list) ELSE total

(* total_count is taken from the first page that reports a count.          *)
TotalCount == IF total = 0 /\ counts THEN Len(list) ELSE total

(* Mutant of Pages: rounds down.                                           *)
PagesRoundedDown(count) == count \div PageSize

Pages(count) == (count + PageSize - 1) \div PageSize

(* Mutant of LastPage: one order seen before is enough to stop.            *)
LastPageOnAnyDuplicate ==
    \/ Items = {}
    \/ Items \cap seen # {}
    \/ Cardinality(Items) < PageSize
    \/ counts /\ Cardinality(seen \cup Items) >= TotalCount
    \/ counts /\ page >= Pages(TotalCount)

(* The breaks of the loop, in their order: an empty page, a page of        *)
(* duplicates, a short page, as many orders seen as were counted, and the  *)
(* last page the count allows for. An empty list counts 0 and never        *)
(* reaches the last two.                                                   *)
LastPage ==
    \/ Items = {}
    \/ Items \subseteq seen
    \/ Cardinality(Items) < PageSize
    \/ counts /\ Cardinality(seen \cup Items) >= TotalCount
    \/ counts /\ page >= Pages(TotalCount)

(* Mutant of FetchPage: a page of duplicates is asked for again.           *)
FetchPageUntilNew ==
    /\ status = "paging"
    /\ Items = {} \/ ~(Items \subseteq seen)
    /\ total' = TotalCount
    /\ seen' = seen \cup Items
    /\ IF LastPage
       THEN status' = "completed" /\ UNCHANGED page
       ELSE page' = page + 1 /\ UNCHANGED status
    /\ UNCHANGED <<list, listed, counts>>

FetchPage ==
    /\ status = "paging"
    /\ total' = TotalCount
    /\ seen' = seen \cup Items
    /\ IF LastPage
       THEN status' = "completed" /\ UNCHANGED page
       ELSE page' = page + 1 /\ UNCHANGED status
    /\ UNCHANGED <<list, listed, counts>>

(* The API fails three times over: the exception ends the whole sync.      *)
ApiError ==
    /\ status = "paging"
    /\ status' = "failed"
    /\ UNCHANGED <<list, listed, counts, page, total, seen>>

Next == Insert \/ FetchPage \/ ApiError

Spec == Init /\ [][Next]_vars /\ WF_vars(FetchPage)

-----------------------------------------------------------------------------
(* While fewer orders complete than fit a page, what a completed listing   *)
(* passes over was pushed past its last page by them: it is the tail of    *)
(* the list, and no longer than the number of orders that came in.         *)
OnlyTailMissed ==
    status = "completed" /\ Inserts < PageSize =>
        /\ \A i \in DOMAIN list : list[i] \in listed \ seen => i > page * PageSize
        /\ Cardinality(listed \ seen) <= Inserts

(* The API's count is what lets the loop stop short of the tail: a loop    *)
(* that must run until a short or empty page misses nothing.               *)
NothingMissedWithoutCount ==
    status = "completed" /\ ~counts /\ Inserts < PageSize => listed \subseteq seen

(* The loop ends, however the list shifts under it.                        *)
Terminates == <>(status # "paging")
=============================================================================
