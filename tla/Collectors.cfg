SPECIFICATION FairSpec
CONSTANTS
    w1 = w1
    w2 = w2
    NoOwner = NoOwner
    Gone = Gone
    Workers <- MCWorkers
    MaxEpochs = 2
    MaxCommands = 2
    MaxFaults = 2
    Attempts = 2
CHECK_DEADLOCK FALSE
INVARIANTS ClaimsHold
PROPERTIES ImplementsContract DesiredConverges
