CONSTANTS
  ActiveSlugs = {base}
  Bnb = bsc
  MaxDataChanges = 4
  MaxEdits = 2
SPECIFICATION Spec
INVARIANTS
  CompletedRunAgrees
  CleanAuditAgrees
PROPERTIES
  ActivationFailsClosed
  
