SPECIFICATION Spec
CONSTANTS
    Tray = {t1}
    Server = {s1}
    Caller = {c1}
    Nobody = Nobody
    MaxClicks = 0
    Flags <- MCFlags
INVARIANT UninstallerSurvives
CHECK_DEADLOCK FALSE
