SPECIFICATION MCSpec
CONSTANTS
  Clients = {1, 2}
  Owner = 1
  Slots = {1, 2}
  MaxEvents = 3
  MaxWrites = 2
  Garbage = Garbage
  None = None
  MaxGuidEvents = 2
  MaxMints = 2
  Paths = {p1, p2}
  Home = p1
  Folder = folder
  Pushes = {k1, k2}
  MaxContent = 3
  MaxInfo = 2
  MaxTries = 1
  MaxWebEvents = 2
INVARIANTS
  RecordHasBytes
  NewestEverywhere
  OneGuid
  PruneIsSafe
  WebFollowsTheVault
  OutboundExact
PROPERTIES
  EditsKept
CONSTRAINT OutsideWindows
CHECK_DEADLOCK FALSE
