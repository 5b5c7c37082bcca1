SPECIFICATION Spec
CONSTANTS
    Prices <- MCTwoPrices
    Refs <- MCRefs
    MaxQty = 2
    LevelsPerSide = 2
    Limits <- MCTwoOrders
    MaxTotal = 3
    NoLocation = nowhere
    Capacity = 4
    MaxProbeLength = 2
    MaxEntries = 3
    Hash <- MCHash
PROPERTY ReplaceKeepsAnOrder
