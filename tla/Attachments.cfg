SPECIFICATION Spec
CONSTANTS
  t1 = t1  t2 = t2
  r1 = r1  r2 = r2  r3 = r3  r4 = r4
  NoTask = NoTask
  Task = {t1, t2}
  parentOf <- SubtaskOfT1
  Req = {r1, r2, r3, r4}
  Kinds = {"upload", "delete_attachment", "delete_task", "comment"}
  Faults = {"storage", "crash"}
  MaxActive = 3
SYMMETRY RequestSymmetry
CHECK_DEADLOCK FALSE
INVARIANTS MissingFileBlame OrphanBlame ReferencesIntact AnnouncedIsGone
