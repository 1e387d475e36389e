CONSTANTS
  c1 = c1  c2 = c2
  k1 = k1  k2 = k2
  p1 = p1  p2 = p2
  Conns = {c1, c2}
  Keys = {k1, k2}
  Ids = {p1, p2}
  KeyOf <- SamePane
  IdOf <- OwnIds
  NoConn = NoConn
  CrashBudget = 1
  MaxGeneration = 2
  Clients = {c2}
  DirtyHangUps = TRUE
  TabsClose = TRUE
  MaxFrames = 1
  MaxLines = 0
SPECIFICATION Spec
CHECK_DEADLOCK FALSE
INVARIANTS
  TypeOK
  CurrentIsRouted
  PageIsServed
PROPERTIES
  OnlyForward
  ImplementsPaneOwners
  HostedHasItsPage
  PaintsInOrder
