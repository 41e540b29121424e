CONSTANTS
  Solvers <- TwoSolvers
  Day = 2
  MaxClock = 3
  MaxRequests = 2
SPECIFICATION Spec
CHECK_DEADLOCK FALSE
INVARIANTS
  AnswersMatchTheCatalogue
  
  StampedWhileValid
  FingerprintsAgree
