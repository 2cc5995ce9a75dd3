CONSTANTS
  Procs = {p1, p2}
  Months = {1, 2}
  Halves = {1}
  Ranges <- WholeMonths
  None = None
  MaxEdits = 2
  MaxRuns = 3
  MaxFaults = 2
SPECIFICATION Spec
CHECK_DEADLOCK FALSE
SYMMETRY Symmetric
INVARIANTS
  NothingIsLost
  VerifiedIsCurrent
