SPECIFICATION ResearchSpec
CONSTANTS
    Descriptor <- MCDescriptor
    Lifecycle = 2
    RefusedByFactory <- MCRefused
    MostCombinations = 8
    MostSpecs = 48
    MostFolds = 4
    MostCandles = 10
    MostStabilityFolds = 4
    None = None
    Broken = Broken
    Callers = {c1, c2}
    Requests <- MCRequests
    Policies <- MCPolicies
    Outcomes <- MCOutcomes
    Usual = 4
    Budgets <- MCBudgets
CHECK_DEADLOCK FALSE
SYMMETRY CallerSymmetry
INVARIANTS
    PlansAndReportsAreSound
    WritersMeetReaders
    PublishedIsSound
