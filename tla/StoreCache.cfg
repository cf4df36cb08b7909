\* Two threads of a server, one of which also writes, beside another process.
SPECIFICATION LiveSpec
CONSTANTS
    Thread = {t1, t2}
    Writer = {t2}
    NoThread = none
    MaxStores = 3
    MaxCommits = 1
    MaxCalls = 5
INVARIANTS
    FlockCovers
    LeasesCover
PROPERTY
    EveryCallEnds
CHECK_DEADLOCK FALSE
