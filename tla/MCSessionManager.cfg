SPECIFICATION FairSpec
CONSTANTS
    Managers = {m1}
    SessionIds = {s1}
    Calls = {c1, c2, c3}
    MaxAttempts = 2
    DefaultTTL = 1
    AttemptWindow = 0
    Second = 1
    MaxFaults = 1
    MaxRestarts = 1
    MaxTicks = 2
INVARIANTS
    NeverOvercounted
    VerifiedJustified
    OnlyOverlapsErr
    SweepNeedsForeignKey
PROPERTIES ExpiryFixed KeysCollected
CHECK_DEADLOCK FALSE
