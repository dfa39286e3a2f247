SPECIFICATION Spec
CONSTANTS
  s1 = s1
  f1 = f1
  f2 = f2
  None = None
  Shares = {s1}
  Files = {f1, f2}
  ShareOf <- TwoInOneShare
  MaxContent = 3
  MaxEvents = 2
INVARIANTS
  WatermarkIsHonest
  KeptStaysKept
PROPERTIES
  EditsKept
  ChangesAreTakenUp
