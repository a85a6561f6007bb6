SPECIFICATION FairSpec
CONSTANTS
  Handlers = {h1, h2}
  Prices = {"pro", "business", "starter", "legacy"}
  ProPrice = "pro"
  BusinessPrice = "business"
  StarterPrice = "starter"
  Events <- MCEvents
  InOrder = TRUE
  MaxEvents = 4
  MaxAborts = 2
  MaxRepeats = 1
INVARIANTS
  WebhookTypeOK
  AckedIsDone
  NothingSkipped
PROPERTIES
  FollowsHistory
  SettlesOnTruth
CHECK_DEADLOCK FALSE
