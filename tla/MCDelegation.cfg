CONSTANTS
    Connection = {c1, c2}
    Stream = {w}
    Activity = {w}
    WebSocketSlots = 1
    Capacity = 2
    Nobody = Nobody
    Others = Others
    MaxCatalog = 2
    MaxConnections = 2
    MaxCommands = 1
    MayForce = TRUE
CONSTRAINT Bounded
SPECIFICATION FairSpec
INVARIANTS TypeOK ReportsAreTrue StopLeavesNothing StreamUpToDate NothingAfterRevocation
PROPERTIES StopEnds
CHECK_DEADLOCK FALSE
