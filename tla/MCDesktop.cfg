SPECIFICATION Spec
CONSTANTS
    Tray = {t1, t2}
    Server = {s1, s2}
    Caller = {c1}
    Nobody = Nobody
    MaxClicks = 1
    Flags <- MCFlags
INVARIANTS
    OneTray
    MenuStartWorks
    SuccessMeansGone
PROPERTY ExitEndsTray
CHECK_DEADLOCK FALSE
