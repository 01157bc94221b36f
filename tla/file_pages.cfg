SPECIFICATION Spec
CONSTANTS
  Thread = {t1, t2}
  PageId = {0, 1, 2}
  page_size = 2
  OffsetSpace = 4
  a = a
  b = b
  c = c
  Data <- Pages
  Ops = {"read", "write"}
SYMMETRY Symmetry
INVARIANTS
  ReadsAreWhole
  SettledPageIsRead
  SyncedPageSurvives
