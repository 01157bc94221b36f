SPECIFICATION Spec
CONSTANTS
  Client = {c1, c2}
  NoClient = NoClient
  NO_PAGE = 4
  Data = {0, 4}
  Faults = {"write", "sync", "crash"}
INVARIANTS
  AllocTypeOK
  IdsAreExclusive
  SyncedStateSurvives
