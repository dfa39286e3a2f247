SPECIFICATION Spec
CONSTANTS
  Servers = {1, 2}
  Saved = {new, newer, old}
  Legacies = {old}
  MaxStorageEvents = 3
  Nothing = Nothing
INVARIANTS
  NoSessionVanishes
CHECK_DEADLOCK FALSE
