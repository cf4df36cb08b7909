\* One update with a commit landing while it runs.
SPECIFICATION Spec
CONSTANTS
    Files = {"a", "b"}
    Owned = {"a"}
    Imports <- ImportsOfB
    Updaters = {"u1"}
    MaxClock = 2
    MaxCommits = 2
    Events = {"commit"}
    MaxEvents = 1
INVARIANT
    NothingHidden
