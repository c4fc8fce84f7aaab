SPECIFICATION Spec
CONSTANTS
    Sources = {s1, s2}
    Enders = 2
    MayRemove = FALSE
    ScopeLimit = 2
INVARIANTS NoLostWakeup
CHECK_DEADLOCK FALSE
