----------------------------- MODULE MCOrderFee -----------------------------
(* A sale at time 3, its payloads and the rules for TLC.                   *)
EXTENDS OrderFee

(* The detail corrects the quantity, and may or may not bring a fee.       *)
MCLists == {[quantity |-> 4, amount |-> 9, fee |-> 0], [quantity |-> 4, amount |-> 9, fee |-> 1]}
MCDetails == {[quantity |-> 3, fee |-> 0, currency |-> "USDT"],
              [quantity |-> 4, fee |-> 5, currency |-> "USDT"]}

Rule(side, currency, from, to) ==
    [side |-> side, rate |-> 1, currency |-> currency, from |-> from, to |-> to,
     active |-> TRUE]

(* Of the order's time, the second on its last day and by amount; of a     *)
(* later time, and of the other side.                                      *)
MCRules == {Rule("both", "USDT", 1, Forever), Rule("SELL", "RUB", 2, 3),
            Rule("both", "USDT", 4, Forever), Rule("BUY", "USDT", 3, Forever)}

MCManuals == {[amount |-> 2, currency |-> "RUB"]}
=============================================================================
