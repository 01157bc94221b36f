SPECIFICATION FormatSpec
CONSTANTS
  Lengths = {0, 1, 7, 8, 9, 16, 17}
  MIN_PAGE_SIZE = 64
  MAX_PAGE_SIZE = 128
  Sizes = {32, 64, 96, 128}
  Stored = 64
  Ids = {{}, {63}}
  Lsns = {{}, {5}}
  Values = {{0, 7}}
  MaxChanges = 2
CHECK_DEADLOCK FALSE
INVARIANTS
  StreamIsCrc32c
  FlipsAreDetected
  RoundTrips
  OnlyIntactPagesPass
  ErrorNamesTheDamage
