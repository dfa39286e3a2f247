SPECIFICATION FairSpec
CONSTANTS
  o = o
  l1 = l1
  l2 = l2
  p1 = p1
  p2 = p2
  Original = {o}
  Local = {l1}
  Peer = {p1}
  MaxRetry = 1
  Starts = {"agreed", "created here"}
  Events = {"drop", "crash"}
PROPERTIES
  Converges
CONSTRAINT OutsideWindows
CHECK_DEADLOCK FALSE
