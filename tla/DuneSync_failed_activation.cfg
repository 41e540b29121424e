CONSTANTS
  ActiveSlugs = {base}
  Bnb = bsc
  MaxDataChanges = 3
  MaxEdits = 0
SPECIFICATION Spec
INVARIANTS
  PendingSqlOmitsBnb
