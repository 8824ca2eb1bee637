SPECIFICATION RetentionSpec
CONSTANTS
    PageSize = 2
    LostSecret = {s2}
    MaxErrors = 0
    InboxId = {1, 2}
    EventId = {}
    ReplayId = {}
    Token = {t1, t2}
    Owner = {o1}
    Secret = {s1, s2}
    None = None
    Keep = {0}
    Days = {0}
    Configs <- SecretConfigs
    Patches <- NoPatches
    MaxNo = 0
    MaxClock = 0
INVARIANT BrokenInboxDoesNotStopRest
