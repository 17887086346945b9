\* Two events, two broker ids, one contract per order; one crash, one lost connection.
CONSTANTS
    e1 = e1
    e2 = e2
    NoEvent = NoEvent
    EventId <- MCEvents
    OrderId <- MCOrders
    Quantity = 1
    MaxHistory = 6
    MaxCrashes = 1
    MaxDrops = 1
SPECIFICATION Spec
SYMMETRY EventSymmetry
INVARIANTS TypeOK OneOrderPerEvent SubmittedBeforeBroker LedgerFollowsBroker ExecIdsAreBacked
PROPERTY ImplementsLedger
CHECK_DEADLOCK FALSE
