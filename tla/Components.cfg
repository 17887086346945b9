\* Three events for the store, which alone numbers them 0 to 3, and the ledger;
\* contracts of two, a loss limit of two.
CONSTANTS
    e1 = e1
    e2 = e2
    e3 = e3
    Event <- MCEvents
    MaxSeq = 3
    EventId <- MCEvents
    OrderId <- MCOrders
    MaxHistory = 6
    Quantity = 2
    Sizes <- MCSizes
    MaxDailyLoss = 2
    Pnl <- MCPnl
SPECIFICATION ComponentsSpec
INVARIANTS ComponentsTypeOK AcceptedOnce AcceptedIsDurable HistoryExplainsRecord BrokerStateHasOrderId AtMostOneLate PositionBounded
PROPERTIES AcceptedInOrder RecordsAreFinal NoneBegunClosed
CHECK_DEADLOCK FALSE
