CONSTANTS
  Browsers = {b1, b2}
  Attempts = {a1, a2, a3}
  Tokens = {t1, t2}
  Limit = 1
  MaxWindows = 1
  None = None
SPECIFICATION Spec
SYMMETRY Symmetry
CHECK_DEADLOCK FALSE
INVARIANTS
  TypeOK
  OneMailPerToken
  RetriesUseFreshTokens
  SentMeansMailed
  MailWithinRate
