SPECIFICATION RetentionSpec
CONSTANTS
    PageSize = 1
    LostSecret = {}
    MaxErrors = 1
    InboxId = {1, 2}
    EventId = {1, 2}
    ReplayId = {}
    Token = {t1, t2}
    Owner = {o1, o2}
    Secret = {}
    None = None
    Keep = {0, 1}
    Days = {0, 1}
    Configs <- MCConfigs
    Patches <- MCPatches
    MaxNo = 0
    MaxClock = 2
INVARIANTS
    WalksEveryInbox
PROPERTIES
    OnlyOverLimitPruned
    EventuallyWithinLimits
