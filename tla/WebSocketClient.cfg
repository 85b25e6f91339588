SPECIFICATION FairSpec
CONSTANTS
  e1 = e1  e2 = e2
  s1 = s1  s2 = s2
  a = a  b = b
  NoEffect = NoEffect  NoSock = NoSock  NoProject = NoProject
  Effect = {e1, e2}
  Sock = {s1, s2}
  Project = {a, b}
INVARIANTS TypeOK OneConnection StatusNotStuckOpen
PROPERTIES Reconnects ImplementsLink
