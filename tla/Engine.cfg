SPECIFICATION MCEngineSpec
CONSTANTS
  OverlayScenes <- OverSceneSet
  Sites = {"a"}
  AskScenes <- AskSceneSet
  Listings <- ListingSet
  Lower <- LowerCase
  Limit = 4
  TypeLimit = 4
  BadgeTabs = {1}
  MaxLive = 2
  Strangers = FALSE
  TransferScenes <- TransferSceneSet
  Subs = {"s1"}
  MaxDocs = 4
  Targets = {0, 1}
  Keys <- FrameKeys
  Backspace <- BackspaceKey
  Scenes <- FrameSceneSet
  Panes = {1, 2}
  TabIds = {1, 2, 3, 4, 5, 6, 7, 8}
  JobIds = {1, 2, 3, 4, 5}
  OtherEngines = {"chrome"}
  TabScenes <- TabSceneSet
  FloatPanes = {1, 2}
  PagesOf <- PanePages
  ScaleShrinks = TRUE
  FloatScenes <- FloatSceneSet
  LoadUrls = {"a", "b"}
  OpeningUrl = "a"
  OpensStart = {TRUE, FALSE}
  LoadScenes <- LoadSceneSet
  ModeTabs = {1, 2}
  ModeFrames = {"top", "sub"}
  BackgroundActs = FALSE
  ModeScenes <- ModeSceneSet
  Places <- PointerPlaces
  Origins = {3, 4}
  Cell = 8
  Cols = 3
  PointerScenes <- PointerSceneSet
  WheelTabs = {1, 2}
  Skew = 1
  WheelScenes <- WheelSceneSet
  ChromeInputScenes <- QueueSceneSet
  Looks = {"a", "b"}
  Budgets <- CaptureSceneSet
  ScalesAgree = TRUE
  MaxEvents = 7
  MaxKeyframes = 3
  RecordWaiters = {1}
  RecorderScenes <- RecorderSceneSet
  Homes = {1, 2}
  WholeRing = 3
  PatchRing = 2
  ShmLimit = 2
  Lag = 3
  StoreScenes <- StoreSceneSet
  Servers = {1, 2, 3}
  KillsAllowed = 2
INVARIANTS
  EngineTypeOK
  OverlaysAgree
  AsksAreAnswered
  FilesAreSafe
  HintsAgree
  TabsAreKept
  FloatsFit
  InputIsTrue
  QueueIsTrue
  PicturesAreTrue
  FilesOutlive
PROPERTIES
  StepsAreSafe
CHECK_DEADLOCK FALSE
