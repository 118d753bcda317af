-------------------------- MODULE MCLedgerRebuild --------------------------
(* Two days of one week and a day of the next. The orders come to be on    *)
(* the first; the only adjustment is booked on the second and then moved   *)
(* to the third.                                                           *)
EXTENDS LedgerRebuild

MCDays == {1, 2, 8}
MCWeek == [d \in MCDays |-> d \div 7]
MCOrderDays == [n \in 0..MaxOrders |-> IF n = 1 THEN {1} ELSE {}]
MCAdjustmentDays ==
    [n \in 0..MaxAdjustments |-> CASE n = 1 -> {2} [] n = 2 -> {8} [] OTHER -> {}]
MCBefore(r, s) == r.key < s.key \/ (r.key = s.key /\ r.by < s.by)
=============================================================================
