SPECIFICATION Spec
CONSTANTS
  l1 = l1  l2 = l2  x = x  y = y  padded = padded  r1 = r1  r2 = r2
  None = None
  Blank = Blank
  first = x
  trim <- Trim
  Label = {l1, l2}
  Text = {Blank, x, y, padded}
  Req = {r1, r2}
  MaxCommits = 2
  MaxFailures = 1
SYMMETRY Symmetry
CHECK_DEADLOCK FALSE
INVARIANTS PanelShowsTables LabelsAsClicked FieldsSaved
