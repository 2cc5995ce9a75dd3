SPECIFICATION FairSpec
CONSTANTS
    w1 = w1
    w2 = w2
    NoOwner = NoOwner
    Gone = Gone
    Workers <- MCWorkers
    MaxEpochs = 1
    MaxCommands = 3
    MaxFaults = 2
    Attempts = 2
CHECK_DEADLOCK FALSE
INVARIANTS ClaimsHold OneCycleAfterRevocation
PROPERTIES ImplementsContract DesiredConverges
