CONSTANTS
  Browsers = {b1}
  Attempts = {a1, a2}
  Tokens = {t1, t2}
  Limit = 1
  MaxWindows = 1
  None = None
SPECIFICATION FairSpec
CHECK_DEADLOCK FALSE
PROPERTIES
  EverySubmissionEnds
