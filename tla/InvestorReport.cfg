\* Three snapshots, and two things users do at any time between them.
CONSTANTS
    Investors = {a, b, m}
    a = a
    b = b
    m = m
    Nobody = Nobody
    Rules <- MCRules
    Agreements <- MCAgreements
    Stakes <- MCStakes
    Amounts = {10}
    Profits <- MCProfits
    Opening = 3
    MaxDays = 3
    MaxChanges = 2
SPECIFICATION Spec
INVARIANTS TypeOK ReconcilesToEquity SplitIsZeroSum GoodDayHurtsNobody
CHECK_DEADLOCK FALSE
