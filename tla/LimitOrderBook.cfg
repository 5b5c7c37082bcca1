SPECIFICATION Spec
CONSTANTS
    Prices <- MCPrices
    Refs <- MCRefs
    MaxQty = 2
    LevelsPerSide = 2
    Limits <- MCLimits
    MaxTotal = 3
    NoLocation = nowhere
    Capacity = 4
    MaxProbeLength = 2
    MaxEntries = 3
    Hash <- MCHash
INVARIANTS LevelsSorted LevelsConsistent EntriesSound LocationsExact
PROPERTY ImplementsBook
