SPECIFICATION Spec
CONSTANTS
  t1 = t1
  t2 = t2
  p1 = p1
  p2 = p2
  p3 = p3
  NoThread = NoThread
  NoPage = NoPage
  Thread <- TwoThreads
  Page <- TwoPages
  capacity = 1
  MaxGuards = 1
  MaxVersion = 2
  Ops = {"fetch", "new_page", "flush_all", "checkpoint", "sync"}
  ExclusiveFlush = TRUE
  ShortBorrows = TRUE
SYMMETRY Symmetry
INVARIANTS
  ChangesAreDirty
PROPERTIES
  CacheIsTransparent
  CheckpointDurable
