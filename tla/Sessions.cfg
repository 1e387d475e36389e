SPECIFICATION SessionsSpec
CONSTANTS
  p1 = p1
  p2 = p2
  p3 = p3
  w2 = w2
  host = host
  own = own
  w1 = w1
  mail = mail
  auto = auto
  Nobody = Nobody
  Panes = {p1, p3}
  Procs = {host, own}
  ProcOf <- OneEach
  Places = {1, 2}
  MaxSlots = 2
  Windows = {w1}
  FirstIndex <- OneIndex
  FirstName <- Mail
  NamesOf <- OneName
  Automatic = auto
  MaxPages = 2
  MaxRenames = 1
  MaxRenumbers = 1
  MaxRestarts = 1
  MaxTogether = 2
  Mortal = {own}
INVARIANTS
  SlotsApart
  OnlyOverlapsRob
PROPERTIES
  ComesBack
CHECK_DEADLOCK FALSE
