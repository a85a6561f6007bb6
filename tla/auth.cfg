SPECIFICATION Spec
CONSTANTS
  Tabs = {t1, t2}
  Cookies = TRUE
  MaxTokens = 4
  MaxAborts = 1
  MaxOthers = 1
INVARIANTS
  AuthTypeOK
  JarUsable
  StaysSignedIn
  SignedOut
CHECK_DEADLOCK FALSE
