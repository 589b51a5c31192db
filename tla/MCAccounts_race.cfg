SPECIFICATION Spec
CONSTANTS
  None = None
  Logins = {l1, l2}
  Texts = {t1}
  Handlers = {h1, h2}
  MaxUsers = 2
  MaxTokens = 2
  Crashes = TRUE
INVARIANTS
  UniqueLogins
SYMMETRY Interchangeable
