CONSTANTS
  Signers = {s1, s2}
  Chains = {c1, c2}
  Clients <- AllClients
  Validity = 2
  MaxSkew = 1
  Patience = 3
  PublishWithin = 4
  MaxRotations = 1
  MaxFaults = 1
  None = None
  Malformed = Malformed
SPECIFICATION Spec
SYMMETRY Symmetry
INVARIANTS
  TypeOK
  
  
  
  AcceptedIsRecent
  
