SPECIFICATION Spec
CONSTANTS
  Goroutines <- Connections
  Program <- Programs
  NCells = 11
  Words = {"other"}
INVARIANTS TypeOK HandlesAreOwned NothingLeaks
CHECK_DEADLOCK FALSE
