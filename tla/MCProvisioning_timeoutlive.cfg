\* WantedGetsBound when one call is given up and nothing fails.
SPECIFICATION FairSpec
CONSTANTS
    Ids = {v1}
    TargetIdx = {t1, t2}
    LunIdx = {l1, l2}
    LunOutcomes = {"ready"}
    Handlers = {h1, h2}
    None = None
    Err = Err
    Zero = Zero
    SessionsExpire = FALSE
    MaxFaults = 0
    MaxTimeouts = 1
PROPERTIES
    WantedGetsBound
