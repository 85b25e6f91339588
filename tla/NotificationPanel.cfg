SPECIFICATION FairBellSpec
CONSTANTS
  n1 = n1  n2 = n2  c1 = c1  c2 = c2
  NoData = NoData
  Note = {n1, n2}
  Click = {c1}
  MaxLosses = 1
CHECK_DEADLOCK FALSE
INVARIANTS PanelShowsTable
PROPERTIES BadgeSettles
