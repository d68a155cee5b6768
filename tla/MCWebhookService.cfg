SPECIFICATION FairSpec
CONSTANTS
    MaxHooks = 2
    MaxDeliveries = 2
    MaxRetries = 2
    MaxRedeliveries = 1
    Edits <- SomeEdits
INVARIANTS
    Residence
    IdleMeansDrained
    PostsBounded
    FirstAttemptsInOrder
PROPERTIES FinishedIsFinal DeliveriesSettle
CHECK_DEADLOCK FALSE
