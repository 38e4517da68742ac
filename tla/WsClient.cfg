CONSTANTS
    Socket = {s1, s2, s3}
    Channel = {c1}
    Owner = {chat, mls}
    NoSocket = NoSocket
    MaxFaults = 3
    MaxWire = 4
SPECIFICATION Spec
INVARIANTS
    OneLiveSocket
    ServerWillKnow
    RevokedStaysOut
    AlwaysARoute
PROPERTIES
    ConnectsInTheEnd
CHECK_DEADLOCK FALSE
