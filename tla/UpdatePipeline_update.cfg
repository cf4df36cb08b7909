SPECIFICATION FairSpec
CONSTANTS
    Files = {"a", "b"}
    Owned = {"a"}
    Imports <- ImportsOfB
    Updaters = {"u1"}
    MaxClock = 3
    MaxCommits = 2
    Events = {"crash", "unreadable", "discard", "commit", "build", "upgrade", "base", "preserve"}
    MaxEvents = 2
INVARIANTS
    TypeOK
    StampHidesNothing
    QuietUpdateConverges
    ExtractorStampHonest
    AssessmentHonest
PROPERTY
    EventuallyInSync
