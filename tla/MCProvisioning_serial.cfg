\* One handler per volume at a time; calls fail, answers get lost and the
\* controller crashes.
SPECIFICATION SerialSpec
CONSTANTS
    Ids = {v1, v2, v3}
    TargetIdx = {t1, t2}
    LunIdx = {l1, l2}
    LunOutcomes = {"unknown"}
    Handlers = {h1, h2, h3}
    None = None
    Err = Err
    Zero = Zero
    SessionsExpire = FALSE
    MaxFaults = 2
    MaxTimeouts = 1
SYMMETRY Symmetry
INVARIANTS
    TypeOK
    OneTargetPerVolume
    BoundIsBacked
    DeletedIsUnreachable
    NoLeakWithoutFault
    NoSecondLUN
    Isolation
    SerialInv
PROPERTIES
    BoundUntouched
    KeepsToItsOwn
    Implements
