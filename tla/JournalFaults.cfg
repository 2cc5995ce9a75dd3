SPECIFICATION Spec
CONSTANTS
    btc = btc
    eth = eth
    c1 = c1
    c2 = c2
    c3 = c3
    p1 = p1
    p2 = p2
    None = None
    Datasets = {btc, eth}
    Months = {1, 2}
    Chunks = {c1, c2, c3}
    Procs = {p1, p2}
    DatasetOf <- MCDatasetOf
    MonthsOf <- MCMonthsOf
    MaxRuns = 2
    MaxFaults = 2
    FailureCost = 2
INVARIANTS
    JournalInv
    ReadersSeeOneVersion
    ReportedIsKept
