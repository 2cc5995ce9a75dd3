SPECIFICATION SessionsSpec
CONSTANTS
    None = None
    Corrupt = Corrupt
    early = early
    late = late
    Decide <- MCDecide
    Sessions <- MCSessions
    ConfigOf <- MCConfig
    Actors = {a1, a2}
    RawCandles <- MCCandles
    Horizon = 3
    MaxCorrections = 1
    MaxCycles = 1
    MaxReplays = 2
    MaxFaults = 1
CHECK_DEADLOCK FALSE
SYMMETRY ActorSymmetry
INVARIANTS
    SessionsAreWhole
    VerifyIsExact
    OnlyCorrectionsRefuse
PROPERTIES
    PublishedHistoryStands
