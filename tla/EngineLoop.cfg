SPECIFICATION Spec
CONSTANTS
    None = None
    Symbols = {1, 2}
    RequestCapacity = 1
    ResponseCapacity = 1
    MaxPerTurn = 1
    FillCapacity = 1
    OutboundCapacity = 1
    MaxRestId = 2
    MaxStrategyId = 1
INVARIANTS RestOrdersReported EgressDrains
\* The engine stops.
CHECK_DEADLOCK FALSE
PROPERTIES FillsNotStarved ShutdownCompletes
