SPECIFICATION PageSpec
CONSTANTS
  Attempts = 3
  MaxStalled = 1
  Clients = {"a", "b"}
  Slots = {s1, s2}
  Files = {"f1"}
  NoFile = "none"
  Type <- MCType
  Cols = {"c1"}
  Targets = {"title", "ignore"}
  Headers <- MCHeaders
  Detect <- MCDetect
  Bodies <- MCBodies
  Keys = {"k1", "k2"}
  Catalog <- MCCatalog
  Unreadable = {}
  Faulty = {"k2"}
  MaxClock = 2
  Bounds <- MCTwoTabs
  Uploader = "a"
  Chosen = "f1"
INVARIANTS
  NoTwins
CHECK_DEADLOCK FALSE
