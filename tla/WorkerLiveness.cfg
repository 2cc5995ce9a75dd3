SPECIFICATION LiveSpec
CONSTANTS
  Ops = {1, 2}
  DatasetOf <- OneDataset
  Chunks = 2
  ControlledOps = {1}
  btc = btc
  Workers = {w1, w2}
  NoOwner = NoOwner
  Gone = Gone
  LackingOps = {1}
  CliControls = FALSE
  PlansMayFail = FALSE
  MaxFaults = 1
  MaxRequests = 1
CHECK_DEADLOCK TRUE
INVARIANTS
  ExclusiveWork
  StoppedMeansQuiet
PROPERTIES
  ImplementsLifecycle
  PendingIsServed
