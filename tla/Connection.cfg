SPECIFICATION Spec
CHECK_DEADLOCK FALSE
CONSTANTS
  Docs = {d1}
  MaxSockets = 3
  MaxAsked = 2
  MaxEvents = 8
  None = None
INVARIANTS
  LetGoStaysDown
  SyncedUntilClosed
PROPERTIES
  ComesOnline
