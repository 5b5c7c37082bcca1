SPECIFICATION Spec
CONSTANTS
    s1 = s1
    Symbols <- OneSymbol
    OrderIds <- TwoIds
    SymbolsOf <- AllInS1
    MaxActiveOrders = 2
    LedgerCapacity = 4
    Hash <- Spread
    MaxOrderQty = 2
    MaxAbsPosition = 2
    MaxRejections = 1
    Prices <- TwoPrices
    Setups <- OnlyLoggedRejected
    MaxGross = 4
    MaxRecords = 4
INVARIANTS ReplayMatches
