------------------------------ MODULE MCEngine ------------------------------
(* The parts of an engine process that wait for nothing but their user and their page: overlays,       *)
(* questions, transfers, frames and tabs; the pointer, the wheel and the modes keys are read in; the   *)
(* pictures it takes, and leaves in files; the socket agents find it by.  One part at a time: every    *)
(* behaviour is one of the part it begins with, and the others stand still in one state.               *)
EXTENDS OverlayModes, PageAsks, PathPrompt, Transfers, TabFrames, PaneTabs, FloatDisplay, TabLoads,
        InputModes, NativePointer, NativeWheel, ChromeInput, ChromeCapture, Recorder, FrameStore,
        AgentSocket

VARIABLE part

(* How much of everything a behaviour holds, of each part.                                             *)
OverScene(o, p, f, r, m, e) ==
  [opens |-> o, pushes |-> p, focuses |-> f, replies |-> r, modes |-> m, escapes |-> e]
OverSceneSet ==
  {OverScene(2, 1, 1, 1, 0, 1), OverScene(1, 2, 0, 1, 1, 1), OverScene(3, 0, 0, 1, 0, 2), OverScene(1, 1, 1, 2, 1, 2)}

AskScene(a, k, c, m, n, l, s) ==
  [asks |-> a, keys |-> k, choosers |-> c, menus |-> m, navigations |-> n, losses |-> l, switches |-> s]
AskSceneSet ==
  {AskScene(2, 2, 0, 0, 1, 0, 0), AskScene(0, 0, 2, 1, 1, 1, 0), AskScene(0, 0, 1, 2, 1, 0, 0),
   AskScene(1, 1, 1, 1, 1, 0, 1)}

\* Names of three letters, of which two differ in case only; the directories have names that begin
\* alike, that fold alike, and a directory whose name begins another's.
LowerCase == [c \in {"a", "b", "A"} |-> IF c = "b" THEN "b" ELSE "a"]
File(n) == [name |-> n, dir |-> FALSE]
Folder(n) == [name |-> n, dir |-> TRUE]
ListingSet ==
  {{File(<<"a", "b">>), File(<<"a", "a", "b">>), Folder(<<"b", "a">>)},
   {File(<<"A", "b">>), File(<<"a", "b", "a">>), File(<<"a", "b">>)},
   {File(<<"b", "A", "b">>), File(<<"b", "a", "a">>)},
   {Folder(<<"a", "a">>), Folder(<<"a", "a", "b">>), File(<<"a", "b">>)}}

TransferScene(d, p, pp, u, c, n, s) ==
  [downloads |-> d, prints |-> p, papers |-> pp, updates |-> u, cancels |-> c, documents |-> n, switches |-> s]
TransferSceneSet ==
  {TransferScene(3, 0, 0, 1, 2, 1, 0), TransferScene(1, 1, 1, 0, 1, 0, 0), TransferScene(2, 1, 0, 0, 1, 1, 0)}

FrameScene(r, m, k, f, l) == [reloads |-> r, moves |-> m, keys |-> k, focuses |-> f, losses |-> l]
FrameSceneSet ==
  {FrameScene(1, 2, 0, 0, 0), FrameScene(1, 0, 3, 0, 1), FrameScene(1, 1, 0, 3, 0), FrameScene(0, 1, 2, 0, 0),
   FrameScene(0, 0, 3, 0, 1)}
BackspaceKey == -1
FrameKeys == {0, 1, 9, BackspaceKey}

TabScene(o, m, c, y, l, k) ==
  [opens |-> o, moves |-> m, closes |-> c, cycles |-> y, losses |-> l, kills |-> k]
TabSceneSet == {TabScene(1, 1, 1, 1, 0, 0), TabScene(1, 1, 0, 0, 1, 0), TabScene(1, 0, 0, 0, 0, 1)}

PanePages == [p \in {1, 2} |-> IF p = 1 THEN {1, 2} ELSE {3}]
FloatSceneSet == {[toggles |-> 3, resizes |-> 1, closes |-> 1, cycles |-> 2, loads |-> 1, reveals |-> 2]}

LoadScene(u, f, d, c, p, k) ==
  [user |-> u, fails |-> f, downloads |-> d, crashes |-> c, preloads |-> p, keys |-> k]
LoadSceneSet == {LoadScene(2, 1, 1, 0, 0, 0), LoadScene(1, 1, 0, 4, 0, 0), LoadScene(1, 1, 0, 0, 2, 3)}

ModeScene(f, r, s, t, p) == [focuses |-> f, reloads |-> r, switches |-> s, toggles |-> t, pings |-> p]
ModeSceneSet ==
  {ModeScene(2, 1, 1, 0, 0), ModeScene(2, 0, 2, 0, 0), ModeScene(3, 0, 0, 1, 0), ModeScene(2, 0, 0, 1, 1)}

PointerPlaces == {0, 5, 9, 15, 20, 29}
PointerScene(m, p, l, s, w) == [moves |-> m, presses |-> p, late |-> l, shifts |-> s, windows |-> w]
PointerSceneSet ==
  {PointerScene(2, 1, 0, 0, 1), PointerScene(1, 2, 0, 0, 1), PointerScene(3, 0, 1, 0, 0), PointerScene(2, 0, 0, 1, 0)}

WheelScene(s, t, d, w, m) == [swipes |-> s, turns |-> t, deaf |-> d, switches |-> w, moves |-> m]
WheelSceneSet ==
  {WheelScene(2, 1, 0, 0, 0), WheelScene(0, 0, 4, 0, 0), WheelScene(1, 0, 3, 0, 0),
   WheelScene(1, 1, 0, 1, 0), WheelScene(0, 1, 1, 1, 0), WheelScene(2, 0, 0, 0, 1)}

QueueScene(p, k, s, a, m, x) ==
  [pointer |-> p, keys |-> k, skews |-> s, ages |-> a, metrics |-> m, misses |-> x]
QueueSceneSet ==
  {QueueScene(2, 1, 1, 1, 0, 0), QueueScene(2, 1, 0, 0, 1, 1), QueueScene(1, 3, 0, 0, 0, 0),
   QueueScene(3, 0, 1, 0, 0, 1)}

CaptureScene(c, r, s, t) == [changes |-> c, resizes |-> r, switches |-> s, timeouts |-> t]
CaptureSceneSet ==
  {CaptureScene(1, 0, 1, 0), CaptureScene(1, 0, 0, 1), CaptureScene(0, 1, 0, 0), CaptureScene(0, 0, 1, 1)}

RecorderScene(s, t, o, e, p, f, h, w) ==
  [starts |-> s, stops |-> t, overlaps |-> o, events |-> e, paints |-> p, failures |-> f, hides |-> h, waits |-> w]
RecorderSceneSet ==
  {RecorderScene(2, 2, 0, 1, 0, 1, 0, 0), RecorderScene(1, 1, 0, 2, 1, 1, 0, 0),
   RecorderScene(1, 1, 0, 1, 1, 0, 1, 0), RecorderScene(2, 1, 0, 0, 0, 0, 0, 1), RecorderScene(2, 2, 1, 0, 0, 0, 0, 0)}

StoreScene(f, p, r, u, o, d, q, k, l) ==
  [frames |-> f, patches |-> p, resizes |-> r, faults |-> u, drops |-> o, detaches |-> d, quits |-> q,
   kills |-> k, lateKills |-> l]
StoreSceneSet ==
  {StoreScene(3, 1, 1, 0, 0, 0, 0, 1, 0), StoreScene(2, 1, 0, 1, 0, 0, 1, 0, 0),
   StoreScene(2, 1, 0, 0, 1, 1, 1, 1, 0), StoreScene(4, 0, 2, 0, 1, 0, 0, 0, 0),
   StoreScene(1, 4, 0, 1, 0, 0, 0, 0, 0), StoreScene(3, 0, 0, 3, 0, 0, 0, 0, 0),
   StoreScene(2, 1, 0, 0, 0, 0, 1, 0, 1)}

-----------------------------------------------------------------------------
Parts ==
  {"overlays", "asks", "path", "transfers", "frames", "tabs", "float", "loads", "modes", "pointer",
  "wheel", "queue", "capture", "recorder", "store", "socket"}

\* A part that stands still begins in one state.
OverlaysBegin == OverlaysInit /\ (part = "overlays" \/ overBudget = OverScene(2, 1, 1, 1, 0, 1))
AsksBegin == AsksInit /\ (part = "asks" \/ askBudget = AskScene(2, 2, 0, 0, 1, 0, 0))
PathBegins == PathInit /\ (part = "path" \/ listing = {File(<<"b", "A", "b">>), File(<<"b", "a", "a">>)})
TransfersBegin ==
  TransfersInit /\ (part = "transfers" \/ transferBudget = TransferScene(1, 1, 1, 0, 1, 0, 0))
FramesBegin == TabInit /\ (part = "frames" \/ (left = FrameScene(1, 2, 0, 0, 0) /\ doc[1] = Fresh(0)))
TabsBegin == TabsInit /\ (part = "tabs" \/ tabSpend = TabScene(1, 1, 1, 1, 0, 0))
LoadsBegin ==
  LoadsInit /\ (part = "loads" \/ (loadSpend = LoadScene(2, 1, 1, 0, 0, 0) /\ opening.afterPlaceholder))
ModesBegin == ModesInit /\ (part = "modes" \/ (modeTab = 1 /\ modeSpend = ModeScene(2, 1, 1, 0, 0)))
PointerBegins ==
  PointerInit /\ origin = 3 /\ (part = "pointer" \/ (pos = 0 /\ pointerSpend = PointerScene(2, 0, 0, 1, 0)))
WheelBegins ==
  /\ WheelInit /\ wheelTab = 1 /\ (placed = "here" \/ wheelSpend.moves > 0)
  /\ part = "wheel" \/ wheelSpend = WheelScene(0, 0, 4, 0, 0)
QueueBegins == ChromeInputInit /\ (part = "queue" \/ chromeInputBudget = QueueScene(3, 0, 1, 0, 0, 1))
ScreenBegins == CaptureInit /\ page = "a" /\ (part = "capture" \/ budget = CaptureScene(0, 1, 0, 0))
RecordingBegins == RecorderInit /\ (part = "recorder" \/ recBudget = RecorderScene(2, 1, 0, 0, 0, 0, 0, 1))
StoreBegins == StoreInit /\ (part = "store" \/ storeBudget = StoreScene(3, 0, 0, 3, 0, 0, 0, 0, 0))

MCEngineInit ==
  /\ part \in Parts
  /\ OverlaysBegin /\ AsksBegin /\ PathBegins /\ TransfersBegin
  /\ FramesBegin /\ TabsBegin /\ FloatInit /\ LoadsBegin
  /\ ModesBegin /\ PointerBegins /\ WheelBegins /\ QueueBegins
  /\ ScreenBegins /\ RecordingBegins /\ StoreBegins /\ SocketInit

pagesVars ==
  <<overlayVars, asksVars, pathVars, transferVars, tabVars, tabsVars, floatVars, loadVars>>
inputVars ==
  <<modeVars, pointerVars, wheelVars, chromeInputVars>>
outputVars ==
  <<captureVars, recorderVars, storeVars, socketVars>>

MCEngineNext ==
  \/ /\ part = "overlays" /\ OverlaysNext
     /\ UNCHANGED <<asksVars, pathVars, transferVars, tabVars, tabsVars, floatVars, loadVars, inputVars,
                   outputVars, part>>
  \/ /\ part = "asks" /\ AsksNext
     /\ UNCHANGED <<overlayVars, pathVars, transferVars, tabVars, tabsVars, floatVars, loadVars,
                   inputVars, outputVars, part>>
  \/ /\ part = "path" /\ PathNext
     /\ UNCHANGED <<overlayVars, asksVars, transferVars, tabVars, tabsVars, floatVars, loadVars,
                   inputVars, outputVars, part>>
  \/ /\ part = "transfers" /\ TransfersNext
     /\ UNCHANGED <<overlayVars, asksVars, pathVars, tabVars, tabsVars, floatVars, loadVars, inputVars,
                   outputVars, part>>
  \/ /\ part = "frames" /\ TabNext
     /\ UNCHANGED <<overlayVars, asksVars, pathVars, transferVars, tabsVars, floatVars, loadVars,
                   inputVars, outputVars, part>>
  \/ /\ part = "tabs" /\ TabsNext
     /\ UNCHANGED <<overlayVars, asksVars, pathVars, transferVars, tabVars, floatVars, loadVars,
                   inputVars, outputVars, part>>
  \/ /\ part = "float" /\ FloatNext
     /\ UNCHANGED <<overlayVars, asksVars, pathVars, transferVars, tabVars, tabsVars, loadVars,
                   inputVars, outputVars, part>>
  \/ /\ part = "loads" /\ LoadsNext
     /\ UNCHANGED <<overlayVars, asksVars, pathVars, transferVars, tabVars, tabsVars, floatVars,
                   inputVars, outputVars, part>>
  \/ /\ part = "modes" /\ ModesNext
     /\ UNCHANGED <<pointerVars, wheelVars, chromeInputVars, pagesVars, outputVars, part>>
  \/ /\ part = "pointer" /\ PointerNext
     /\ UNCHANGED <<modeVars, wheelVars, chromeInputVars, pagesVars, outputVars, part>>
  \/ /\ part = "wheel" /\ WheelNext
     /\ UNCHANGED <<modeVars, pointerVars, chromeInputVars, pagesVars, outputVars, part>>
  \/ /\ part = "queue" /\ ChromeInputNext
     /\ UNCHANGED <<modeVars, pointerVars, wheelVars, pagesVars, outputVars, part>>
  \/ /\ part = "capture" /\ CaptureNext
     /\ UNCHANGED <<recorderVars, storeVars, socketVars, pagesVars, inputVars, part>>
  \/ /\ part = "recorder" /\ RecorderNext
     /\ UNCHANGED <<captureVars, storeVars, socketVars, pagesVars, inputVars, part>>
  \/ /\ part = "store" /\ StoreNext
     /\ UNCHANGED <<captureVars, recorderVars, socketVars, pagesVars, inputVars, part>>
  \/ /\ part = "socket" /\ SocketNext
     /\ UNCHANGED <<captureVars, recorderVars, storeVars, pagesVars, inputVars, part>>

MCEngineSpec == MCEngineInit /\ [][MCEngineNext]_<<pagesVars, inputVars, outputVars, part>>

\* The types of all parts.
EngineTypeOK ==
  /\ OverlaysTypeOK /\ AsksTypeOK /\ PathTypeOK /\ TransfersTypeOK
  /\ TabTypeOK /\ TabsTypeOK /\ FloatTypeOK /\ LoadsTypeOK
  /\ ModesTypeOK /\ PointerTypeOK /\ WheelTypeOK /\ ChromeInputTypeOK
  /\ CaptureTypeOK /\ RecorderTypeOK /\ StoreTypeOK /\ SocketTypeOK

-----------------------------------------------------------------------------
(* What the parts promise, part by part; each name is stated in its module.                            *)

\* Overlays: one at a time, an indicator that names it, and text only where keys are read as text
\* (cancelTransient and setMode of the preload, TEXT_MODES of main.cjs).
OverlaysAgree == OneOverlay /\ IndicatorIsTrue /\ TypedIsText

\* Questions: each is answered once, by the user and for the document that asked; the box shows the
\* first of the queue, and a page that is told nothing any more is one that went.
AsksAreAnswered == AnsweredOnce /\ NewDocumentNeverAnswers /\ BoxIsHead /\ NothingIsForgotten

\* Files: no completion adds a letter the directory does not settle, no transfer takes the name of
\* another's file, and the badge sums up exactly what runs and has just ended.
FilesAreSafe == NeverGuessesWrong /\ NothingIsOverwritten /\ BadgeIsTrue /\ BadgeExpires

\* Hints over several frames: what is asked can be reached, labels are given once, and a round is
\* open exactly as long as a frame can end it; native keys belong to a frame that is there.
HintsAgree ==
  PagesAreReachable /\ AskedAreThere /\ LabelsDistinct /\ RoundHasMatch /\ BadgesHaveRound /\ NativeHasOwner

\* Tabs: what is shown is active, no page is lost or held twice while tabs move between engines, a
\* frozen tab is one under way; a session keeps the address that was seen, a dead page is replaced.
TabsAreKept == ShownIsActive /\ PagesAreKept /\ FrozenIsMoving /\ SessionUrlIsShown /\ DeadPageIsReplaced

\* Floats: one viewer each, at a size and a zoom that make up for one another.
FloatsFit == OneViewerPerFloat /\ ShrinkIsMadeUpFor /\ FullscreenIsFullSize

\* Input: the mode keys are read in is the one of the frame with the focus, a point is estimated from
\* reports of one place, and a turn of the wheel scrolls once.
InputIsTrue ==
  MirrorIsRightAlone /\ ArmedIsOwner /\ EstimateIsRight /\ PointIsTrue /\ ScrolledOnce /\ HeldIsFlushed

\* Chrome's input queue: nothing typed overtakes a click, nothing is typed twice, and a press lands
\* where the page is drawn.
QueueIsTrue == ClickThenType /\ TypedOnce /\ PressLandsTrue

\* Pictures: a page at rest ends up sharp, one is taken at a time, and a recording's are of their
\* events, all of which it mentions.
PicturesAreTrue ==
  StillIsSharpButSlips /\ OneShot /\ PictureIsOfItsEvent /\ TimelineMentionsAll /\ RunningIsStoppable

\* What an engine leaves in files outlives it as it should: a name the terminal is told has the pixels
\* of its frame, what is left is found by the next engine, and the newest engine's socket stays.
FilesOutlive == NamedIsThere /\ PixelsAreItsOwn /\ LeftIsFindable /\ NewestIsReached

\* What a step may never do: Escape go anywhere but back, a sweep take a living engine's files.
StepsAreSafe == EscapeGoesBack /\ LivingIsSpared
=============================================================================
