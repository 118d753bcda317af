\* A deposit on the second day of a ledger.
CONSTANTS
    Scale = 10
    Orders <- MCOrders
    Adjustments <- MCAdjustments
    MaxEvents = 2
SPECIFICATION ReportSpec
INVARIANT CleanIsTradingOnly
CHECK_DEADLOCK FALSE
