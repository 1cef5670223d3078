\* DeletedIsGone when one call to the NAS fails.
SPECIFICATION Spec
CONSTANTS
    Ids = {v1}
    TargetIdx = {t1}
    LunIdx = {l1}
    LunOutcomes = {"ready"}
    Handlers = {h1}
    None = None
    Err = Err
    Zero = Zero
    SessionsExpire = FALSE
    MaxFaults = 1
    MaxTimeouts = 0
INVARIANTS
    DeletedIsGone
