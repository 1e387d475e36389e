SPECIFICATION FramesSpec
CONSTANTS
  p1 = p1
  p2 = p2
  t1 = t1
  t2 = t2
  FramePanes = {p1}
  Tabs = {t1, t2}
  PaneOf <- OneOf
  FirstTab <- OneFirst
  Kept = {t1}
  FirstPane = p1
  Width = 3
  PatchLimit = 2
  Slots = 2
  RawLimit = 1
  MaxChanges = 2
  MaxResizes = 1
  MaxSwitches = 1
  MaxFrameFaults = 1
CHECK_DEADLOCK FALSE
INVARIANT HiddenShowsNothing
