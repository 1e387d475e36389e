SPECIFICATION SessionsSpec
CONSTANTS
  p1 = p1
  p2 = p2
  p3 = p3
  w2 = w2
  host = host
  own = own
  w1 = w1
  mail = mail
  auto = auto
  Nobody = Nobody
  Panes = {p1, p3}
  Procs = {host, own}
  ProcOf <- OneEach
  Places = {1, 2, 3}
  MaxSlots = 2
  Windows = {w1, w2}
  FirstIndex <- FirstIndices
  FirstName <- BothAuto
  NamesOf <- NoNames
  Automatic = auto
  MaxPages = 1
  MaxRenames = 0
  MaxRenumbers = 1
  MaxRestarts = 0
  MaxTogether = 9
  Mortal = {host, own}
INVARIANTS
  FilesApart
CHECK_DEADLOCK FALSE
