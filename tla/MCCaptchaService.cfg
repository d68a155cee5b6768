SPECIFICATION Spec
CONSTANTS
    SessionIds = {s1}
    Calls = {c1, c2, c3, c4}
    MaxAttempts = 2
    SessionTimeout = 0
    MaxLayers = 2
    MaxEvents = 2
    MaxTime = 1
INVARIANTS
    TypeOK
    AttemptsAccounted
    ValidatedByRightAnswer
    SuccessesOverlap
    AuditKept
PROPERTIES
    Lifecycle
CHECK_DEADLOCK FALSE
