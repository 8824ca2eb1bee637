SPECIFICATION APISpec
CONSTANTS
    Call = {c1, c2, c3}
    MaxTries = 2
    InboxId = {i1, i2}
    EventId = {1}
    ReplayId = {}
    Token = {t1, t2}
    Owner = {o1, o2}
    Secret = {}
    None = None
    Keep = {0}
    Days = {0}
    Configs <- MCConfigs
    Patches <- MCPatches
    MaxNo = 0
    MaxClock = 0
SYMMETRY Symmetry
INVARIANTS
    APITypeOK
    NoLostUpdate
    AnsweredTokenResolves
PROPERTY OnlyOwnerChanges
CHECK_DEADLOCK FALSE
