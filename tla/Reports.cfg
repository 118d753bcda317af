\* Every ledger of up to four events, cut into days and windows anyhow.
CONSTANTS
    Scale = 10
    Orders <- MCOrders
    Adjustments <- MCAdjustments
    MaxEvents = 4
SPECIFICATION ReportSpec
INVARIANTS PositionMatchesExchange TwoProfitsAgree FlowsAreNoProfit ReportsTypeOK WindowProfitsAgree CleanCurveIsProfit
CHECK_DEADLOCK FALSE
