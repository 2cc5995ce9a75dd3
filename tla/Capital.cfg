CONSTANTS
  SessionProfiles = {p1, p2}
  session = session
  Content <- OneContent
  Simulations = {s1}
  Clients = {c1}
  InitialCapital = 1
  Capitals = {1}
  Amounts = {1}
  MaxMovements = 3
  MaxAuthorizations = 2
  MaxActivations = 2
  MaxStarts = 2
  None = None
SPECIFICATION Spec
CHECK_DEADLOCK FALSE
SYMMETRY Symmetric
INVARIANTS
  CapitalIsCovered
  SettledIsFinal
  ClosedEraIsSettled
