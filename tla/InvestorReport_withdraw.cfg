\* Two withdrawals with no snapshot between them.
CONSTANTS
    Investors = {a, b, m}
    a = a
    b = b
    m = m
    Nobody = Nobody
    Rules <- MCRules
    Agreements <- MCAgreements
    Stakes <- MCStakes
    Amounts = {10}
    Profits <- MCProfits
    Opening = 3
    MaxDays = 3
    MaxChanges = 2
SPECIFICATION Spec
INVARIANT WithdrawalIsCovered
CHECK_DEADLOCK FALSE
