SPECIFICATION Spec
CONSTANTS
  Clients = {1, 2}
  Dirs = {A, B, C}
  Names = {x, y}
  Guids = {1, 2, 3, 4, 5, 6, 7}
  Folder = Folder
  MaxWrites = 3
  None = None
  A = A
  B = B
  C = C
  x = x
  y = y
  Plans <- MCPlans
INVARIANTS Agreement NothingLost
CHECK_DEADLOCK FALSE
