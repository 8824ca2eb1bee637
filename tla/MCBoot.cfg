SPECIFICATION BootSpec
CONSTANTS
    Writer = {w1}
    Url = {1, 2}
    PortArg <- MCPortArg
    RetriesArg <- MCRetriesArg
    MaxSaves = 2
    Server = {s1, s2}
    Provided <- MCProvided
    Not = Not
    DefaultPort = 8080
    LastVersion = 2
    SchemaBefore <- MCSchemaBefore
    MaxLaunches = 2
INVARIANTS
    Recoverable
    SchemaInOrder
    RunsOnSaved
PROPERTY EveryBootEnds
CHECK_DEADLOCK FALSE
