SPECIFICATION ReplaySpec
CONSTANTS
    Run = {r1, r2}
    MaxRetries = 2
    Reported = {"success", "http_5xx", "network_error"}
    StoreFails = TRUE
    InboxId = {i1}
    EventId = {1}
    ReplayId = {1, 2, 3, 4}
    Token = {t1}
    Owner = {o1}
    Secret = {}
    None = None
    Keep = {0}
    Days = {0}
    Configs <- MCConfigs
    Patches <- NoPatches
    MaxNo = 3
    MaxClock = 0
INVARIANTS
    ReplayTypeOK
    NeverAheadOfHistory
    HistoryIsChain
    RetriesJustified
    AnswerMatchesHistory
PROPERTY EveryReplayAnswered
CHECK_DEADLOCK FALSE
