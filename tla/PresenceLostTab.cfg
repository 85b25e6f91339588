SPECIFICATION Spec
CONSTANTS
  c1 = c1  c2 = c2  c3 = c3  c4 = c4
  alice = alice  bob = bob
  p = p  q = q
  Conn = {c1, c2}
  User = {alice}
  Instance = {p}
  owner <- AllAlice
  host <- OneProcess
  Faults = {}
  MaxTabs = 2
CHECK_DEADLOCK FALSE
INVARIANT ListedWhileOpen
