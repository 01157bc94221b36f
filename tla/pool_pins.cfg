SPECIFICATION FairSpec
CONSTANTS
  t1 = t1
  t2 = t2
  p1 = p1
  p2 = p2
  p3 = p3
  NoThread = NoThread
  NoPage = NoPage
  Thread <- TwoThreads
  Page <- TwoPages
  capacity = 1
  MaxGuards = 1
  MaxVersion = 1
  Ops = {"fetch", "new_page", "flush"}
  ExclusiveFlush = FALSE
  ShortBorrows = TRUE
INVARIANTS
  TypeOK
  PinsCountGuards
  GuardShowsItsPage
  FramesAccountedFor
  TornPageStaysDirty
  CoreNotDeadlocked
PROPERTIES
  CoreIsReleased
