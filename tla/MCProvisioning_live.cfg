\* Given up calls and faults, with fairness.
SPECIFICATION FairSpec
CONSTANTS
    Ids = {v1}
    TargetIdx = {t1, t2}
    LunIdx = {l1, l2}
    LunOutcomes = {"ready", "unknown"}
    Handlers = {h1, h2}
    None = None
    Err = Err
    Zero = Zero
    SessionsExpire = FALSE
    MaxFaults = 1
    MaxTimeouts = 1
PROPERTIES
    GetsBoundUnlessDisturbed
    HandlersFinish
    ReleasedGetsDeleted
