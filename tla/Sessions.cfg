SPECIFICATION MCSpec
CONSTANTS
  Users = {a, b}
  Hosts = {h1, h2}
  Legacy = {h2}
  Slots = {p1, p2}
  Calls = {1, 2}
  MaxGrants = 3
  MaxEvents = 5
  None = None
  h1 = h1
  p1 = p1
  Servers = {1, 2}
  Saved = {new, newer, old}
  Legacies = {old}
  MaxStorageEvents = 3
  Guids = {g1}
  Values = {v1, v2}
  Writes = {1, 2, 3}
  MaxWrites = 4
  MaxArrays = 2
INVARIANTS
  UserMatchesToken
  SignedOutStaysOut
  TokenToItsHost
  RestartKeepsTheSession
  SessionsStay
  SettledIsLatest
PROPERTIES
  LiveSessionKept
CHECK_DEADLOCK FALSE
