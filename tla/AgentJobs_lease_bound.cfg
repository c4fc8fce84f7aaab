SPECIFICATION Spec
CONSTANTS
    r1 = r1
    w1 = w1
    w2 = w2
    Runs = {r1}
    Workers = {w1, w2}
    NoRun = NoRun
    MaxAttempts = 2
    MaxAgentLeases = 3
    LeaseDuration = 1
    RunTimeout = 4
    Backoffs = {1}
    WaitTimeouts = {1}
    MaxTime = 5
INVARIANTS ClaimNeverErrors
