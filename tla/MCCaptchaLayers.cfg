SPECIFICATION Spec
CONSTANTS
    SessionIds = {s1, s2}
    Calls = {c1, c2, c3}
    MaxAttempts = 1
    SessionTimeout = 1
    MaxLayers = 2
    MaxEvents = 2
    MaxTime = 2
INVARIANT GenerationAccounted
PROPERTY ImplementsContract
CHECK_DEADLOCK FALSE
