SPECIFICATION Spec
CONSTANTS
    None = None
    Targets <- MCTargets
    Holes <- MCHoles
    Bootstrap = 2
    Overlap = 1
    ChunkSize = 2
    MaxTotal = 4
    MaxChunks = 2
    Page = 1
    Requests <- MCRequests
    Actors = {a1, a2}
    StartTime = 4
    MaxTime = 7
    MaxCycles = 2
    MaxJobs = 2
    MaxFaults = 2
CHECK_DEADLOCK FALSE
SYMMETRY ActorSymmetry
INVARIANTS
    GapsAreExplained
    OutcomesHold
    CyclesAreAccepted
