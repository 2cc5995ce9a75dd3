CONSTANTS
  Mandates = {m1}
  Profiles = {p1}
  Actors = {ana, bia}
  Keys = {k1}
  Instruments = {btc, eth}
  Selections = {{btc}, {eth}}
  MaxRevisions = 3
  Nobody = Nobody
SPECIFICATION DocumentsSpec
SYMMETRY Symmetric
INVARIANTS
  HistoryIsSound
  ApprovalIsOwn
  ProfilesRestOnMandates
