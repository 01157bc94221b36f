SPECIFICATION Spec
CONSTANTS
  NO_PAGE = 5
CHECK_DEADLOCK FALSE
INVARIANTS
  WalkIsExact
  WalkIsBounded
  RepeatIsRefused
PROPERTIES
  WalkEnds
