\* One request at a time; the NAS ends sessions, calls fail.
SPECIFICATION Spec
CONSTANTS
    Ids = {v1, v2}
    TargetIdx = {Zero, t1}
    LunIdx = {Zero, l1}
    LunOutcomes = {"ready", "unknown"}
    Handlers = {h1}
    None = None
    Err = Err
    Zero = Zero
    SessionsExpire = TRUE
    MaxFaults = 3
    MaxTimeouts = 1
INVARIANTS
    AttachesOwnLUN
    OneRequestInv
