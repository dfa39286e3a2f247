SPECIFICATION Spec
CONSTANTS
  o = o
  l1 = l1
  l2 = l2
  p1 = p1
  p2 = p2
  Original = {o}
  Local = {l1}
  Peer = {p1}
  MaxRetry = 1
  Starts = {"agreed", "upgraded", "created here", "created by a peer"}
  Events = {"connect", "drop", "claim", "copy", "crash", "command"}
INVARIANTS
  NothingLost
  BaseWasShown
CONSTRAINT FewFlows
CHECK_DEADLOCK FALSE
