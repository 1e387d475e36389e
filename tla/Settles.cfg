SPECIFICATION MCSettlesSpec
CONSTANTS
  Queries = {1, 2}
  FindMatches = 2
  FindScenes <- FindSceneSet
  KeysTyped <- Typing
  PasteLimit = 4
  KeyTabs = {1, 2}
  Reports = FALSE
  Initial = 5
  Jitter = 2
  KeyScenes <- KeySceneSet
  e1 = e1
  e2 = e2
  t1 = t1
  f1 = f1
  NoChrome = NoChrome
  Engines = {e1, e2}
  Tabs = {t1}
  OwnerOf <- OneTab
  Outside = {f1}
  MaxLaunches = 3
  MaxFaults = 1
  SubFrames = {1}
  WebKitScenes <- WebKitSceneSet
  Players = {1, 2}
  ClaimTtl = 3
  SilenceTicks = 2
  AudioScenes <- AudioSceneSet
  p1 = p1
  p2 = p2
  h1 = h1
  w1 = w1
  mail = mail
  auto = auto
  Nobody = Nobody
  Panes = {p1, p2}
  Procs = {h1}
  ProcOf <- Hosted
  Places = {1, 2}
  MaxSlots = 1
  Windows = {w1}
  FirstIndex <- OneIndex
  FirstName <- OneAuto
  NamesOf <- OneName
  Automatic = auto
  MaxPages = 1
  MaxRenames = 1
  MaxRenumbers = 1
  MaxRestarts = 0
  MaxTogether = 9
  Mortal = {h1}
INVARIANTS
  SettlesTypeOK
  FindIsCurrent
  KeysAreTrue
  ChromeIsShared
  ViewsAgree
PROPERTIES
  InputEnds
  StartedSettles
CHECK_DEADLOCK FALSE
