CONSTANTS
    Sessions = {s1, s2}
    Nobody = Nobody
    Outside = Outside
    Length = 3
    FramesPerMs = 2
    Window = 2
    MaxEntries = 2
    MaxExact = 3
    MaxActions = 1
    MaxListens = 2
    Targets = {0, 1, 2}
    Steering = {s1}
    MaxFaults = 0
SPECIFICATION Spec
INVARIANTS TypeOK LeaseCoversWrites CheckpointWasHeard HistoryIsExact SavedIsDurable
CHECK_DEADLOCK FALSE
