\* Two workers rebuild while the inputs change.
CONSTANTS
    Workers = {1, 2}
    Days <- MCDays
    Week <- MCWeek
    MaxOrders = 1
    OrderDays <- MCOrderDays
    MaxAdjustments = 2
    AdjustmentDays <- MCAdjustmentDays
    Before <- MCBefore
    MaxQueue = 1
    MaxCrashes = 1
SPECIFICATION Spec
INVARIANTS TypeOK
PROPERTIES NeverOlder EventuallyFresh RebuildsEnd
