SPECIFICATION PresenceSpec
CONSTANTS
  Ops = {1}
  DatasetOf <- OneDataset
  Chunks = 2
  ControlledOps = {1}
  btc = btc
  Workers = {w1, w2}
  NoOwner = NoOwner
  Gone = Gone
  LackingOps = {1}
  CliControls = TRUE
  PlansMayFail = TRUE
CHECK_DEADLOCK TRUE
SYMMETRY WorkerSymmetry
INVARIANTS
  EvidenceInv
  CompletedIsDurable
  ReportsAreTrue
  OnlyResumesRefuse
