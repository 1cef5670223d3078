\* One pod leaves while another comes; nothing fails.
SPECIFICATION Spec
CONSTANTS
    Paths = {p1, p2}
    KeepApart = FALSE
    MaxFaults = 0
CHECK_DEADLOCK FALSE
INVARIANTS
    DisconnectsUnused
