SPECIFICATION CaptureSpec
CONSTANTS
    Request = {r1}
    InboxId = {i1, i2}
    EventId = {1}
    ReplayId = {}
    Token = {t1, t2}
    Owner = {o1}
    Secret = {s1}
    None = None
    Keep = {0}
    Days = {0}
    Configs <- MCConfigs
    Patches <- MCPatches
    MaxNo = 0
    MaxClock = 0
    MaxChanges = 4
INVARIANTS
    CaptureTypeOK
    AnswerExplained
    StoredIffAccepted
    AnnouncedIsStored
PROPERTIES
    EveryRequestAnswered
    EveryAcceptedAnnounced
CHECK_DEADLOCK FALSE
