\* Listings that begin with a token the driver ignores, or without one, and
\* volumes that come and go meanwhile.
SPECIFICATION FairSpec
CONSTANTS
    Vols = {v1, v2, v3, v4, v5}
    Idx = {i1, i2, i3, i4}
    PageSizes = {0, 1, 2}
    FirstTokens = {NoToken, BadToken}
    NoToken = NoToken
    BadToken = BadToken
    None = None
CHECK_DEADLOCK FALSE
INVARIANTS
    ListInv
    ListedOnce
    EndComplete
PROPERTIES
    ListingEnds
