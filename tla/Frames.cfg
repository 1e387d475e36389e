SPECIFICATION FramesSpec
CONSTANTS
  p1 = p1
  p2 = p2
  t1 = t1
  t2 = t2
  FramePanes = {p1}
  Tabs = {t1, t2}
  PaneOf <- OneOf
  FirstTab <- OneFirst
  Kept = {t1}
  FirstPane = p1
  Width = 2
  PatchLimit = 1
  Slots = 1
  RawLimit = 1
  MaxChanges = 2
  MaxResizes = 1
  MaxSwitches = 2
  MaxFrameFaults = 1
INVARIANTS
  PaneIsRight
PROPERTIES
  DrawnIsCurrent
  Settles
CHECK_DEADLOCK FALSE
