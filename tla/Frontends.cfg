CONSTANTS
  Nobody = Nobody
  Panes = {p1, p2}
  Procs = {d1, d2}
  Attempts = 1
  MaxFaults = 1
  Restarts = TRUE
  ReadsAhead = TRUE
SPECIFICATION FairFrontSpec
CHECK_DEADLOCK FALSE
INVARIANTS
  FrontTypeOK
  SocketIsTrue
PROPERTIES
  PaneSettles
