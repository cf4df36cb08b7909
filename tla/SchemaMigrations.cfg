\* Every version that a crash can leave in a state of its own; the processes of
\* two binaries, their opens overlapping or not.
SPECIFICATION SchemaSpec
CONSTANTS
    Openers = {p1, p2, old}
    old = old
    Latest <- Binaries
    From = {1, 4, 8, 11, 12, 15, 17, 19}
    Shared = {TRUE, FALSE}
    MaxOverlap = 2
    MaxCrashes = 1
SYMMETRY Symmetry
INVARIANTS
    VersionHonest
    OpensLatest
