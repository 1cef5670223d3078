\* Any number of publishes at a time, or of unpublishes; calls fail and the
\* driver restarts.
SPECIFICATION FairSpec
CONSTANTS
    Paths = {p1, p2, p3}
    KeepApart = TRUE
    MaxFaults = 1
CHECK_DEADLOCK FALSE
INVARIANTS
    TypeOK
    PublishedIsMounted
    LastOneOut
    NeverRemovesData
    OneTearsDown
PROPERTIES
    Implements
    WantedGetsPublished
    UnpublishedUnlessDisturbed
