SPECIFICATION Spec
CONSTANTS
  t1 = t1
  t2 = t2
  p1 = p1
  p2 = p2
  p3 = p3
  NoThread = NoThread
  NoPage = NoPage
  Thread <- TwoThreads
  Page <- ThreePages
  capacity = 2
  MaxGuards = 2
  MaxVersion = 0
  Ops = {"fetch"}
  ExclusiveFlush = TRUE
  ShortBorrows = TRUE
SYMMETRY Symmetry
INVARIANTS
  ExhaustedMeansAllPinned
  VictimWasCold
