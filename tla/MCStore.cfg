SPECIFICATION MemSpec
CONSTANTS
    InboxId = {1, 2}
    EventId = {1, 2}
    ReplayId = {1, 2}
    Token = {t1, t2}
    Owner = {o1}
    Secret = {}
    None = None
    Keep = {0, 1}
    Days = {0, 1}
    Configs <- MCConfigs
    Patches <- MCPatches
    MaxNo = 2
    MaxClock = 2
    Window <- MCWindow
    Limit = {1, 2}
    Offset = {0, 1, 3}
SYMMETRY Symmetry
INVARIANTS
    StoreTypeOK
    ReferencesHold
    TokensUnique
    DriversAgree
CHECK_DEADLOCK FALSE
