SPECIFICATION Spec
CONSTANTS
  Clients = {1, 2}
  Kinds = {"init", "reconcile"}
  MaxTries = 2
  MaxFlush = 1
  MaxDelay = 1
  Quiet = 4
  MaxWait = 6
  MaxDeaths = 1
INVARIANTS
  OneWriter
PROPERTIES
  DeadClaimsAreReplaced
CHECK_DEADLOCK FALSE
