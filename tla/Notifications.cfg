SPECIFICATION Spec
CONSTANTS
  u1 = u1  u2 = u2  u3 = u3  t1 = t1  t2 = t2  j1 = j1  j2 = j2
  NoUser = NoUser  NoTask = NoTask
  User = {u1, u2, u3}
  Task = {t1, t2}
  Job = {j1, j2}
  FirstMembers = {u1}
  FirstAdmins = {u1}
  FirstDue <- NothingDue
  MaxFailures = 1
CHECK_DEADLOCK FALSE
SYMMETRY Symmetry
INVARIANTS AllOrNothing EverybodyNotified InvitedOnce InvitationsLogged
PROPERTIES ImplementsFeed
