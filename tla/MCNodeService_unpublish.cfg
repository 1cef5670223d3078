\* One call fails or the driver restarts once.
SPECIFICATION FairSpec
CONSTANTS
    Paths = {p1}
    KeepApart = TRUE
    MaxFaults = 1
CHECK_DEADLOCK FALSE
PROPERTIES
    ReleasedGetsUnpublished
