SPECIFICATION Spec
CONSTANTS
    r1 = r1
    r2 = r2
    r3 = r3
    None = None
    Clients <- MCClients
    RequestIds <- MCRequestIds
    RequestCapacity = 1
    ResponseCapacity = 2
    MaxPending = 2
    MaxOrderId = 2
INVARIANTS OutstandingCarried AnswersTheRequest BodyNotLeaked OrderIdsUnique
PROPERTIES ClientsLeave PlacesReturned
