--------------------------- MODULE AdjustmentLife ---------------------------
(***************************************************************************)
(* What the program promises of a ledger adjustment: it is free to be      *)
(* edited, until it becomes an investor's capital or is deleted, and both  *)
(* are for good ("this adjustment is managed by the investor",             *)
(* apps/ledger/views.py:60 and 83; "already linked to an investor",        *)
(* apps/investors/services.py:383). Nothing is promised of one that two    *)
(* requests have had in hand at once.                                      *)
(***************************************************************************)
CONSTANT Ids   \* LedgerAdjustment rows

VARIABLE status

TypeOK == status \in [Ids -> {"absent", "free", "owned", "deleted", "contested"}]

Init == status = [a \in Ids |-> "absent"]

Turn(a, from, to) ==
    /\ status[a] = from
    /\ status' = [status EXCEPT ![a] = to]

(* By the form of the ledger, or as a correction.                          *)
Create(a) == Turn(a, "absent", "free")

(* A deposit or a withdrawal comes with its capital transaction.           *)
Move(a) == Turn(a, "absent", "owned")

Link(a) == Turn(a, "free", "owned")

Delete(a) == Turn(a, "free", "deleted")

Contest(a) == Turn(a, "free", "contested")

Next == \E a \in Ids : Create(a) \/ Move(a) \/ Link(a) \/ Delete(a) \/ Contest(a)

Spec == Init /\ [][Next]_status
=============================================================================
