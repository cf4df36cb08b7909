\* Two pairs of files, with and without a manifest; three runs, one failure.
SPECIFICATION Spec
CONSTANTS
    Files = {1, 2, 3, 4}
    Clusters <- MCClusters
    Links <- MCLinks
    Fates = {"edited", "touched", "deleted", "unscoped"}
    Levels = {"none", "full"}
    Manifests = {TRUE, FALSE}
    Extractors = TRUE
    BulkThreshold = 3
    MaxFound = 1
    MaxRuns = 3
    MaxFaults = 1
INVARIANTS
    TypeOK
    IndexCurrent
    ReferencesLive
    SignaturesIndexed
    Pruned
CHECK_DEADLOCK FALSE
