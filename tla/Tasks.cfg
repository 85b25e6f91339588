SPECIFICATION Spec
CONSTANTS
  t1 = t1  t2 = t2  t3 = t3
  r1 = r1  r2 = r2  r3 = r3
  todo = todo  finished = finished
  u1 = u1  u2 = u2
  NoUser = NoUser  Unset = Unset
  Task = {t1, t2, t3}
  Existing = {t1}
  Req = {r1, r2, r3}
  Label = {"bug", "ui"}
  Status = {todo, finished}
  FirstStatus = todo
  Member = {u1, u2}
  MaxFailures = 1
  Body <- Bodies
SYMMETRY RequestSymmetry
CHECK_DEADLOCK FALSE
INVARIANTS  LogExplainsRow PatchTakesEffect AssigneeNotified ChangesAnnounced NewTaskAtEnd
