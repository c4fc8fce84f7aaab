SPECIFICATION Spec
CONSTANTS
    Workers = {w1, w2}
    NoWorker = none
    Contents = {1, 2}
    AttemptLimit = 2
    MaxRetries = 0
    Discovered = FALSE
INVARIANT ArtifactMatchesRevision
CHECK_DEADLOCK FALSE
