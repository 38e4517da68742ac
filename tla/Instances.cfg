CONSTANTS
    Boot = {b1, b2}
    Client = {w1, w2, w3, w4, w5}
    Timer = {t1, t2}
    NoClient = NoClient
    NoTimer = NoTimer
    NoEntry = NoEntry
    NoBoot = NoBoot
    MaxFaults = 2
    MaxSessions = 3
    MaxRequests = 1
SPECIFICATION InstancesSpec
INVARIANTS
    LiveIsKnown
    ReconnectsThroughClose
PROPERTIES
    StaleBootIsInert
    ComesToRest
CHECK_DEADLOCK FALSE
