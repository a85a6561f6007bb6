SPECIFICATION Spec
CONSTANTS
  Attempts = 2
  MaxStalled = 1
  Clients = {c1}
  Slots = {s1, s2}
  Files = {"csv", "zip"}
  NoFile = "none"
  Type <- MCType
  Cols = {"c1"}
  Targets = {"title", "ignore"}
  Headers <- MCHeaders
  Detect <- MCDetect
  Bodies <- MCBodies
  Keys = {"k1", "k2"}
  Catalog <- MCCatalog
  Unreadable = {}
  Faulty = {"k2"}
  MaxClock = 2
  Bounds <- MCBounds
INVARIANTS
  OneMappingPerRun
  TypeOK
  MappedProducts
PROPERTIES
  UserMappingKept
SYMMETRY Symmetry
CHECK_DEADLOCK FALSE
