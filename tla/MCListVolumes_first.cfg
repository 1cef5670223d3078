\* A listing that begins the way the protocol says, without a token.
SPECIFICATION Spec
CONSTANTS
    Vols = {v1, v2, v3, v4}
    Idx = {i1, i2, i3}
    PageSizes = {0, 1, 2}
    FirstTokens = {NoToken}
    NoToken = NoToken
    BadToken = BadToken
    None = None
CHECK_DEADLOCK FALSE
INVARIANTS
    NeverPanics
