-------------------------- MODULE MCInvestorReport --------------------------
(* Three investors for TLC: a has capital like m, and they and b make      *)
(* every kind of agreement.                                                *)
EXTENDS InvestorReport

CONSTANTS a, b, m

Rule(mode, pct, other) == [mode |-> mode, pct |-> pct, other |-> other]

Capital == Rule("same_as_capital", 0, Nobody)
Half == Rule("multiplier", 50, m)
HalfLost == Rule("multiplier", 50, Nobody)
More == Rule("multiplier", 150, m)
Fixed == Rule("fixed_pct", 20, Nobody)
NoProfit == Rule("none", 0, a)
Split == Rule("split_from_investor", 50, m)

MCRules == {Capital, Half, HalfLost, More, Fixed, NoProfit, Split}

Agreement(ofA, ofB, ofM) ==
    [i \in {a, b, m} |-> CASE i = a -> ofA [] i = b -> ofB [] i = m -> ofM]

MCStakes == {[i \in {a, b, m} |-> IF i = b THEN 5 ELSE 10]}

MCProfits == {-7, 11}

MCAgreements == {Agreement(Capital, Half, Capital),
                 Agreement(Split, Fixed, NoProfit)}
=============================================================================
