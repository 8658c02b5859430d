SPECIFICATION Spec
CONSTANTS
  Goroutines <- OneConnection
  Program <- OneServer
  NCells = 6
  Words = {"zero", "other"}
INVARIANTS StateSurvivesCalls
CHECK_DEADLOCK FALSE
