SPECIFICATION FairSpec
CONSTANTS
  t1 = t1  t2 = t2  todo = todo  done = done  m1 = m1  m2 = m2
  None = None
  Task = {t1, t2}
  Column = {todo, done}
  Move = {m1, m2}
  MaxEvents = 2
  MaxFailures = 1
CHECK_DEADLOCK FALSE
INVARIANTS BoardShowsTable MoveStaysShown
PROPERTIES BoardSettles
