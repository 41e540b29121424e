CONSTANTS
  Signers = {s1, s2}
  Chains = {c1, c2}
  Clients <- UnpinnedOnTime
  Validity = 3
  MaxSkew = 1
  Patience = 1
  PublishWithin = 1
  MaxRotations = 1
  MaxFaults = 1
  None = None
  Malformed = Malformed
SPECIFICATION FairSpec
PROPERTY KeepsGettingRoutes
