SPECIFICATION Spec
CONSTANTS
    m1 = m1
    m2 = m2
    MaxAttempts = 2
    MaxDecisions = 1
    MaxActions = 2
    Batches <- MCBatches
    ReplaySafe <- MCReplaySafe
    Parallel <- MCParallel
    Messages = {m1}
    NoMessage = NoMessage
CHECK_DEADLOCK FALSE
INVARIANTS UnsafeAtMostOnce PublicationHolds
PROPERTIES LogHolds SteeringPrecedesDecision
