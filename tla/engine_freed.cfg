SPECIFICATION EngineSpec
CONSTANTS
  Client = {c1}
  NoClient = NoClient
  NO_PAGE = 4
  Data = {0, 3}
  Faults = {}
  Orders = {"allocator first"}
  CleanFree = FALSE
INVARIANT
  SyncedStateSurvives
