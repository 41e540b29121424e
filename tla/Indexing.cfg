CONSTANTS
  base = base
  bsc = bsc
  Chains = {base, bsc}
  Networks = {n1}
  Assets = {a1}
  Routes = {r1}
  Router = router
  Standards = {s1}
  Fills = {f1}
  Statuses = {1, 2}
  Modules = {0, 1}
  MaxEmits = 3
  MaxForks = 1
  MaxCopies = 1
  Indexes <- SmallIndexes
  Publications <- OneAtATime
SPECIFICATION FairSpec
CHECK_DEADLOCK FALSE
INVARIANTS
  ChangesAreTheLog
  ProvenanceIsTheEvent
  CountsAreTheContracts
PROPERTIES
  
  EveryIndexCatchesUp
