CONSTANTS
  Requests = {r1, r2}
  Kids = {k1, k2}
  TTL = 2
  MaxClock = 4
  MaxKeyChanges = 2
  NoFetch = NoFetch
SPECIFICATION Spec
SYMMETRY Symmetry
CHECK_DEADLOCK FALSE
INVARIANTS
  TypeOK
  FailureNotCached
  RevocationBound
  RotationNeverDenies
  FetchesCoalesce
PROPERTIES
  EntryChanges
