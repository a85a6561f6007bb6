SPECIFICATION FairPageSpec
CONSTANTS
  Attempts = 3
  MaxStalled = 1
  Clients = {"a"}
  Slots = {s1}
  Files = {"f1"}
  NoFile = "none"
  Type <- MCType
  Cols = {"c1"}
  Targets = {"title", "ignore"}
  Headers <- MCHeaders
  Detect <- MCDetect
  Bodies <- MCBodies
  Keys = {"k1", "k2"}
  Catalog <- MCCatalog
  Unreadable = {}
  Faulty = {"k2"}
  MaxClock = 1
  Bounds <- MCNoFailure
  Uploader = "a"
  Chosen = "f1"
PROPERTIES
  UploadShowsWizard
CHECK_DEADLOCK FALSE
