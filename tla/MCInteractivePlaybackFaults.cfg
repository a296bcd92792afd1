CONSTANTS
    Sessions = {s1, s2}
    Nobody = Nobody
    Outside = Outside
    Length = 3
    FramesPerMs = 2
    Window = 2
    MaxEntries = 1
    MaxExact = 3
    MaxActions = 1
    MaxListens = 2
    Targets = {1}
    Steering = {s1}
    MaxFaults = 2
SPECIFICATION Spec
PROPERTIES WritesInOrder
CHECK_DEADLOCK FALSE
