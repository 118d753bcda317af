\* Two web workers, two adjustments, three changes.
CONSTANTS
    Ids = {a1, a2}
    Requests = {r1, r2}
    Forms <- MCForms
    Amounts = {2}
    Facts <- MCFacts
    Trades <- MCTrades
    MaxChanges = 3
SPECIFICATION Spec
INVARIANTS TypeOK CapitalIsBooked CorrectionSettles
PROPERTIES ImplementsLife LedgerCatchesUp
