SPECIFICATION FairSpec
CONSTANTS
  Handlers = {h1, h2}
  Prices = {"pro", "business", "starter", "legacy"}
  ProPrice = "pro"
  BusinessPrice = "business"
  StarterPrice = "starter"
  Events <- MCEvents
  InOrder = FALSE
  MaxEvents = 2
  MaxAborts = 0
  MaxRepeats = 0
PROPERTIES
  SettlesOnTruth
CHECK_DEADLOCK FALSE
