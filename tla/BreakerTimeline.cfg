SPECIFICATION Spec
CONSTANTS
    MaxFailures = 2
    CoolDown = 2
    HalfOpenEnabled = TRUE
    MaxProbes = 2
    SuccessesNeeded = 2
    MaxRejections = 2
    MaxRate = 2
    RateWindow = 2
    LossLimit = 3
    MaxTime = 5
    MaxCalls = 7
    MaxInFlight = 3
    Losses = {2, 3}
INVARIANTS AtMostMaxProbes HalfOpenUndecided RateWithinTwoWindows
PROPERTY NoAdmissionInCoolDown
CHECK_DEADLOCK FALSE
