SPECIFICATION FairSpec
CONSTANTS
  c1 = c1  c2 = c2  c3 = c3  c4 = c4
  alice = alice  bob = bob
  p = p  q = q
  Conn = {c1, c2, c3}
  User = {alice, bob}
  Instance = {p, q}
  owner <- TwoAndOne
  host <- TwoProcesses
  Faults = {"early", "redis", "crash", "listener"}
  MaxTabs = 2
CHECK_DEADLOCK FALSE
PROPERTIES DepartureIsSeen GoneMeansOffline
