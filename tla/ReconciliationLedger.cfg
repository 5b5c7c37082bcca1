SPECIFICATION Spec
CONSTANTS
    Capacity = 4
    OrderIds <- MCOrderIds
    Hash <- MCHash
    MaxQty = 2
INVARIANTS TypeOK EveryEntryReachable
PROPERTY ImplementsOpenOrders
