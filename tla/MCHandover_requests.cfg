\* Sizes on, just below and just above every limit; every kind of context.
SPECIFICATION Spec
CONSTANTS
    giB = 4
    maxGiB = 128
    defGiB = 16
    Alnum = {"A", "a", "7"}
    Lower <- MCLower
    Missing = Missing
    Garbage = Garbage
    Half32 = 8
    Portal <- MCPortal
    Names <- MCNames
    Bytes <- MCBytes
    Contexts <- MCContexts
    None = None
CHECK_DEADLOCK FALSE
INVARIANTS
    TypeOK
    SizeHonoured
    WholeSizesAccepted
    CreatedIsUsable
    ConnectorIsNeverNil
    SecretsComeTogether
    ConnectsAsAsked
