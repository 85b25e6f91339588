SPECIFICATION Spec
CONSTANTS
  c1 = c1  c2 = c2  c3 = c3  c4 = c4
  alice = alice  bob = bob
  p = p  q = q
  Conn = {c1, c2, c3, c4}
  User = {alice, bob}
  Instance = {p}
  owner <- ThreeAndOne
  host <- OneProcess
  Faults = {"early", "redis", "crash", "listener"}
  MaxTabs = 3
SYMMETRY TabSymmetry
CHECK_DEADLOCK FALSE
INVARIANTS CountNeverExceedsHolders NoStaleEntry ExactUnlessRaced SnapshotBeforeOwnJoin ViewConverges
