SPECIFICATION MCSpec
CONSTANTS
  d1 = d1
  d2 = d2
  d3 = d3
  s1 = s1
  Items <- ThreeItems
  Shares = {s1}
  Calls <- FiveCalls
  ItemOf <- CallItem
  LaneOf <- CallLane
  ShareOf <- OneShareOf
  Rank <- PathRank
  LaneLimit = 2
  Stuck = {d1}
  NoCall = NoCall
INVARIANTS
  LaneBooksExact
PROPERTIES
  CompletedMeansIdle
  LanesArePools
  AcceptedTaskStarts
CHECK_DEADLOCK FALSE
