---------------------------- MODULE MCAdjustments ----------------------------
(* Two forms for TLC: an outgoing amount that may be linked and is left    *)
(* out of the ledger, and one on the exchange. Moves book capital in it.   *)
EXTENDS Adjustments

Form(kind, amount, counted) == [kind |-> kind, amount |-> amount, counted |-> counted]

MCForms == {Form("capital", -1, FALSE), Form("usdt", 1, TRUE)}

MCFacts == {[s \in Sides |-> IF s = "bank" THEN 1 ELSE 0]}

(* An order that buys.                                                     *)
MCTrades == {[s \in Sides |-> IF s = "bank" THEN -2 ELSE 1]}
=============================================================================
