SPECIFICATION FairSpec
CONSTANTS
    Capacity = 2
    Values = {a, b}
    MaxItems = 5
INVARIANTS RingInv NoSlotRace
PROPERTIES ImplementsFifo EveryItemConsumed
