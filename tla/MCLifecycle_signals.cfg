\* Two requests at a time; steps fail, requests hang, the process is killed.
SPECIFICATION FairSpec
CONSTANTS
    Requests = {r1, r2}
    MaxFaults = 3
CHECK_DEADLOCK FALSE
INVARIANTS
    LifecycleInv
PROPERTIES
    ProbeIsHonest
    NothingIsCut
    ServesAgain
    SignalEndsIt
