SPECIFICATION EngineSpec
CONSTANTS
  Client = {c1}
  NoClient = NoClient
  NO_PAGE = 4
  Data = {3}
  Faults = {"write", "crash"}
  Orders = {"pool first", "allocator first"}
  CleanFree = TRUE
INVARIANTS
  SyncedStateSurvives
  
