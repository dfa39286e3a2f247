SPECIFICATION CacheSpec
CONSTANTS
  Documents = {d1, d2}
  ConnectionCap = 1
  MaxAttempts = 1
  MaxFetches = 2
INVARIANTS
  QueueMoves
  SubscriberInStep
  StaysInTheSweep
PROPERTIES
  IsATokenSource
