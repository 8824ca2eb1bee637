SPECIFICATION APISpec
CONSTANTS
    Call = {c1, c2}
    MaxTries = 5
    InboxId = {i1, i2}
    EventId = {1}
    ReplayId = {}
    Token = {t1}
    Owner = {o1}
    Secret = {}
    None = None
    Keep = {0}
    Days = {0}
    Configs <- MCConfigs
    Patches <- NoPatches
    MaxNo = 0
    MaxClock = 0
SYMMETRY Symmetry
INVARIANT CreatedIsStored
CHECK_DEADLOCK FALSE
