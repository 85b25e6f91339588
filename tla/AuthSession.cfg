SPECIFICATION FairSpec
CONSTANTS
  t1 = t1  t2 = t2  u1 = u1  u2 = u2
  NoUser = NoUser
  Tab = {t1, t2}
  BusyTab = {t1}
  User = {u1, u2}
CHECK_DEADLOCK FALSE
INVARIANTS SessionsAgree InNameOfMaker WaitersServed
PROPERTIES CallsEnd ReloadsEnd
