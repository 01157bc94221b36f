SPECIFICATION Spec
CONSTANTS
  Client = {c1}
  NoClient = NoClient
  NO_PAGE = 4
  Data = {0, 4}
  Faults = {}
INVARIANT
  OnlyForeignSuperblocksInvalid
