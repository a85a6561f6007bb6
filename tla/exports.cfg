SPECIFICATION FairReadySpec
CONSTANTS
  Attempts = 3
  MaxStalled = 1
  Clients = {c1}
  Slots = {s1, s2}
  Files = {"f1"}
  NoFile = "none"
  Type <- MCType
  Cols = {"c1"}
  Targets = {"title", "ignore"}
  Headers <- MCHeaders
  Detect <- MCDetect
  Bodies <- MCBodies
  Keys = {"k1", "k2"}
  Catalog <- MCCatalog
  Unreadable = {}
  Faulty = {"k2"}
  MaxClock = 1
  Bounds <- MCNone
  Exports = {"e1", "e2"}
  NoExport = none
  Fields = {"title"}
  ExportBounds <- MCFailures
INVARIANTS
  ExportTypeOK
  ExportedWasStored
  ShownTotal
PROPERTIES
  CompletedStays
  QueuedCompletes
CHECK_DEADLOCK FALSE
