\* One event, two broker ids, two contracts: partial fills, two crashes.
CONSTANTS
    e1 = e1
    e2 = e2
    NoEvent = NoEvent
    EventId <- MCOneEvent
    OrderId <- MCOrders
    Quantity = 2
    MaxHistory = 6
    MaxCrashes = 2
    MaxDrops = 2
SPECIFICATION FairSpec
INVARIANT LedgerFollowsBroker
PROPERTY SubmissionsResolve
CHECK_DEADLOCK FALSE
