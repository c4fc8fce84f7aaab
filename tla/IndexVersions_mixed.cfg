SPECIFICATION Spec
CONSTANTS
    Sources = {s1, s2}
    Versions = {v1, v2}
    Runs = {r1}
    Baseline = v1
    NoVersion = NoVersion
    MaxFailures = 1
CHECK_DEADLOCK FALSE
INVARIANTS RunPinsOneVersion
