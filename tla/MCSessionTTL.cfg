SPECIFICATION Spec
CONSTANTS
    Managers = {m1}
    SessionIds = {s1}
    Calls = {c1, c2, c3}
    MaxAttempts = 2
    DefaultTTL = 1
    AttemptWindow = 0
    Second = 1
    MaxFaults = 0
    MaxRestarts = 0
    MaxTicks = 2
INVARIANT EveryKeyHasTTL
CHECK_DEADLOCK FALSE
