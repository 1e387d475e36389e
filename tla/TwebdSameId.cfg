CONSTANTS
  c1 = c1  c2 = c2
  k1 = k1  k2 = k2
  p1 = p1  p2 = p2
  Conns = {c1, c2}
  Keys = {k1, k2}
  Ids = {p1, p2}
  KeyOf <- OwnPanes
  IdOf <- SharedId
  NoConn = NoConn
  CrashBudget = 2
  MaxGeneration = 2
  Clients = {}
  DirtyHangUps = TRUE
  TabsClose = FALSE
  MaxFrames = 0
  MaxLines = 0
SPECIFICATION Spec
CHECK_DEADLOCK FALSE
INVARIANT RoutedIdsUnique
