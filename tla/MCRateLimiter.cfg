SPECIFICATION Spec
CONSTANTS
    Key = {k1, k2}
    Limit = 2
    Window = 2
    Second = 2
    MaxTracked = 1
    MaxClock = 7
    MaxGrants = 5
SYMMETRY Symmetry
INVARIANTS
    LimitPerWindow
    TwiceLimitPerStretch
    RetryAfterIsEnough
CHECK_DEADLOCK FALSE
