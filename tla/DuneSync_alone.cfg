CONSTANTS
  ActiveSlugs = {base, hyperevm}
  Bnb = bsc
  MaxDataChanges = 5
  MaxEdits = 0
SPECIFICATION Spec
INVARIANTS
  FinalStaysWhole
PROPERTIES
  DisagreementNeedsHand
