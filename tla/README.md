# tweb in TLA+

tweb draws web pages inside tmux panes. A small frontend (`tweb-pane`) owns the pane's terminal;
pages are rendered by an Electron engine (`electron/main.cjs`), or by a Chrome or WebKit process
behind it; a daemon (`twebd`) can let many panes share one engine. The specifications here model
the parts of that system whose correctness depends on the order in which processes, tasks and
messages meet.

## 1. The system

| component | state it keeps | operations | talks to |
|---|---|---|---|
| pane frontend (`tweb-pane`) | terminal, geometry, its engine or its daemon connection | start, host or spawn, reattach, forward control lines, write frames | tmux, daemon socket, engine pipes |
| daemon server (`twebd/server.rs`) | one task and one `ConnectionState` per connection | attach, host, control, detach, list, shutdown; push events; reap | frontends, registry, engine host |
| pane registry (`page_registry.rs`) | pane -> registration, generation counter | attach, detach | server |
| engine host (`engine_host.rs`) | engine state, stdin sender, routing table, recent starts | open, control, close, deliver, watch_exit | server, engine process |
| daemon process (`singleton.rs`, `daemon_autostart.rs`, `tweb-cli/daemon.rs`) | lock file, socket file | acquire, bind, serve, stop, autostart, restart | file system, other daemons |
| engine (`electron/main.cjs` and its modules) | panes, windows, tabs, frames, downloads, prompts, agent sessions | one control line or one Chromium event at a time | daemon or frontend, Chromium, gfx workers |
| frame pipeline (`frame-writer.cjs`, `gfx-worker.cjs`, `frame-rate-policy.cjs`) | pending frame, worker jobs, write queue | paint, encode, write, drop | engine, terminal |
| Chrome engine (`electron/cdp/*`) | pending commands, sessions, targets | send, answer, event, close | Chrome process over a pipe |
| WebKit engine (`electron/webkit/*`, `tweb-engine/webkit`) | helper process, pages | the same, over its own framing | helper process |
| cross-process claims (`audio-owner.cjs`, `history-lock.cjs`, `window-session.cjs`) | claim files | claim, judge, release | other engine processes |
| agent interface (`agent-*.cjs`) | sessions, hand-over state, waits | request, reply, interrupt | agent clients |
| page script (`preload.cjs`) | modes, hints, find | keys, messages | engine |
| input of a pane (`native-input.cjs`, `held-keys.cjs`, `paste-state.cjs`, `cdp/input.cjs`) | bytes not parsed yet, held keys, grid estimate, held notches, input queue | parse, press, release, move, scroll | terminal, native helper, Chrome |
| tabs of a pane (`main.cjs`, `pane-windows.cjs`, `float-display.cjs`) | tab list, moves under way, floats, loads | open, move, close, freeze, float, load, recover | page engines, windows |
| transfers and recorder (`download-state.cjs`, `recorder.cjs`) | items, badges, timelines, waiters | start, update, settle, stop, wait | Chromium, agents, files |
| command line tools (`tweb-cli`) | none of their own | one-shot | daemon, engine, files |

What is hard in it: connection tasks interleave at every `await` and around every mutex; frontends
are killed at any moment and their pane ids are reused; the engine dies with panes routed to it;
the daemon and the engine keep two tables of the same panes and only a one-way FIFO of lines
connects them; a worker finishes frames of panes that have meanwhile been resized, hidden or
switched to another tab; daemons come and go under one socket name; many engine processes share
files, with nothing but exclusive creation to arbitrate.

What makes each part correct:

* registry and engine host: one engine; a registration is taken away by its owner only; no route
  without an engine; a refused or failed request leaves nothing behind;
* daemon, frontends and engine together: the registration, the route and the page of a pane agree;
  every request is answered; a loss is heard; a hang-up is cleaned up after;
* daemon processes: the socket file names the daemon that serves; a pane always ends up hosted or
  with an engine of its own;
* frame pipeline: when nothing is on its way, the pane shows the page; a name the terminal is told
  has the pixels of its frame;
* window sessions: two panes never save into one file; a pane that starts in a window gets back
  what the last pane there left;
* tabs and loads: the tab shown is the one the index names; a page survives being moved to another
  engine; a session restores the address its tab shows, through failures and crashes;
* input: every byte is read once, as what was typed; a key goes down and up in one page; a scroll
  heard twice is given once; a press lands where the page is drawn;
* questions: each is answered once, by the user, for the document that asked;
* shared Chrome, WebKit and the claims: what was asked ends in success or failure, the last engine to
  go closes Chrome, one page in the end may be heard.

## 2. Modules

| module | models | composes |
|---|---|---|
| `PaneKeys` | pane keys and the pane id an addressed line carries | |
| `PaneOwners` | abstract: who a pane belongs to, without generations, tasks or messages | |
| `PaneRegistry` | `page_registry.rs` | `PaneKeys` |
| `EngineHost` | `engine_host.rs`, the engine process and the daemon's tasks around it; the abstract specification of hosting | `PaneKeys` |
| `Twebd` | frontends, connection tasks, the engine's pane table; implements `EngineHost` and `PaneOwners` | `PaneRegistry`, `EngineHost` |
| `DaemonProcess` | serve processes: lock file, socket file, stop, kill | |
| `Frontends` | a pane's search for a daemon, its session and its retreat; `tweb daemon restart` | `DaemonProcess` |
| `FramePipeline` | paint, patches, whole frames, the graphics worker, the terminal | |
| `FrameStore` | the files and shared-memory objects frames wait in, their markers, the sweeps of dead engines' | |
| `SlotClaims` | the claim files engines arbitrate session slots with | |
| `WindowSessions` | panes saving and restoring their windows' tabs | `SlotClaims` |
| `PaneTabs`, `FloatDisplay`, `TabLoads` | a pane's tabs; pages floated into windows; what one tab loads | |
| `TabFrames` | the frames of a Chrome tab, their scripts, hints over all of them | |
| `OverlayModes`, `PageAsks`, `PathPrompt`, `FindBar` | the page script: overlays, questions, path completion, find | |
| `TerminalInput`, `KeyDispatch`, `InputModes` | bytes, keys, and whether a page gets real keys | |
| `NativePointer`, `NativeWheel` | the mouse, heard from the device and from the terminal | |
| `ChromeInput`, `ChromeCapture`, `ChromeShared` | input into and pictures out of Chrome; the one Chrome of all engines | |
| `WebKitEngine` | the WebKit host process, its pipe, views and downloads | |
| `AudioOwners`, `AgentSocket` | claims and names that engine processes share | |
| `Transfers`, `Recorder` | downloads and prints; recordings and who waits for them | |
| `TwebdProperties` | what daemon, frontends and engine promise together (the other modules end with their properties) | |
| `MC*` | instances for TLC; `MCEngine` and `MCSettles` hold 16 and 7 modules | |
| `TwebdProofs`, `OwnPaneProofs` | theorems about registry, engine host and daemon; the second for connections that share no pane | |
| `DaemonProcessProofs`, `FrameProofs` | theorems about serve processes and panes, and about `FramePipeline` | |
| `SettlesProofs` | theorems about `ChromeShared`, `SlotClaims` and `WindowSessions` | |
| `PictureProofs` | lemmas: invariants of `ChromeCapture`, `Recorder`, `FloatDisplay` | |
| `ExchangeProofs` | lemmas: invariants of `ChromeInput`, `NativeWheel`, `InputModes`, `NativePointer`, `FrameStore`, `AgentSocket` | |
| `EngineProofs` | theorems about the modules of `MCEngine` | `PictureProofs`, `ExchangeProofs` |

### PaneRegistry

`panes` maps a key to the generation registered there (0 for none), `nextGeneration` is the counter.
`Attach` is `PageRegistry::attach`, `Detach` is `detach`, which both a detach request and
`reap_connection` call. Page id, pid and time are diagnostics and not modelled.

### EngineHost

`open()` is the sequence `OpenBegin`, then under the `starting` mutex one of `OpenRefused`,
`OpenFindsEngine`, or `OpenStarts` followed by `SpawnReady`/`SpawnFails`; then `Register` (the
`HostState` mutex) and `SendAttach` (no mutex held). `close()` is `CloseCheck` and `CloseRemove`,
its two locked sections; `control()` is one. `PumpBreaks`, `Deliver` and `WatchExit` are the three
tasks `spawn_engine` starts. An engine process is named after the connection that started it, which
opens once. Time appears as `StartAgesOut`: a start leaves the 30 s crash window at any moment.

### Twebd

A connection task (`handle_connection`) is sequential; `task` says where it stands. A frontend
makes one connection per attempt to be hosted. `HandleControlLine` is the engine taking one line
off stdin: `handleAttach` (with both refusals, which tell no one) and `closePane`.
`LastTabCloses` is the user closing the last tab of one pane among several.
`ImplementsPaneOwners` maps it to `PaneOwners`: `owner` of a pane is the connection whose generation
is registered, `known` those that asked, `accepted` those told they are hosted.

### DaemonProcess and Frontends

`serve` says how far each serve process has come (`Begin`, `TakeLock` or `Yield`, `Decide`,
`ClearStale`, `Bind`, `StopServing`, `Unlink`, `Exit`), `lock` who holds the flock, `socket` whose
name is in the file. `Killed` happens at any of these points and frees the lock but not the name.
A pane (`at`) looks for a daemon (`Look`, `StartServe`, `PollFinds`, `PollGivesUp`, `Abandon`:
`ensure_running`), asks to be hosted (`Connect`, `ReadAnswer`, `AnswerNeverCame`:
`connect_and_host`), follows the session (`SessionLost`: `pump`), and goes back or gives up
(`Fails`: `host_until_settled`). Inside, a daemon is only what its clients see of it: it accepts,
answers, may report its engine's loss, and goes away; `Twebd` has its inside.

### FramePipeline

A page is a function from columns to looks; damage is a set of columns. `Paint` is `queueFrame`
with `sendPatch` or the pending frame; `Flush` is `flushPendingFrame` with `sendFrameNow` and
`transferFrame`; `WorkerReplies`, `WorkerFails` and `WorkerDies` are the worker's three answers,
the first through `completeGfxFrame`; `Resize` is `applyViewport`; `Hide` and `Show` are a pane
leaving and entering view, `Reconcile` the reconciliation that follows, `Activate` a tab switch.
The terminal (`layers`) is a set of placed images, each of which knows the ids it lies over: a
placement lies over all that are there, and replaces the image of its own id. Left out: the byte-level writer, the rate policy, names of shared-memory
frames, deflate, floating tabs, and surfaces an agent holds.

### SlotClaims and WindowSessions

A claim file is found under the window index its pane started with (`place`) and a slot. Every file
operation of `takeSlot` is a step: `Create` (exclusive), `Write` (the text, a moment later),
`Check` (the readback), `Read`, `RemoveStale`, `Recreate`; other engines act between any two, an engine's
own panes do not (`Idle`). `Named` is `parseSlotClaim`, `IsStale` is `slotClaimIsStale`,
`SweepReads`/`SweepUnlinks` the sweep at an engine's start, `Release` is
`releaseWindowSessionClaim` with an unlink that may fail. `robbed` and `began` are history: whose
claim was removed by whom, and who was there when each walk began.

A pane saves its tabs (`Saves`) under three keys: `byId`, `byName`, `byIndex`, each with its slot,
and a new pane reads the first that exists (`Saved`). `CreateWindow` is a pane's first tabs:
restored, restored with the address it was opened with, or neither. `ChangeTabs` arms the timer,
`TimerFires` asks tmux for the window's name, `NameAnswers` saves under it or, if tmux fails, under
the name known before; `Settle` is the last save. tmux itself is external: `Rename`, `Renumber`,
`Restart` do what tmux does with names, indices and ids. `left` is history: the last tabs saved
from each window and slot. Left out: the legacy key, which is only read; the order, zoom and engine
of tabs and the limit of 50; popups, which are never saved; write errors of a save; panes moved to
another window; a process id used again.

### FrameStore

Each engine serves one pane. `HandsToWorker` to `WorkerAnswers` is a raw frame on its way through
`gfx-worker.cjs`: an object out of a ring (`WritesObject`, `ObjectFails`) or the pane's file, staged
and renamed (`StagesFile`, `RenamesFile`, `FileFails`). `SendsPatch` takes a name of the patch ring.
`TerminalReads` comes any time later and takes an object away; `EscapeIsDropped` is an escape that
never arrives. `BeforeQuit`, `ExitHandler` and `Killed` are the three ends; `StartsUp` sweeps.

### Tabs, floats, loads

`PaneTabs`: `ui` holds each pane's list and index; a job of `JobIds` is one `switchTabEngine` or one
step of `rebuildLostTabs`, which awaits twice (`OpeningGoesOn`, `TabMoves`), with everything else
happening in between. `FloatDisplay`: a viewer window per floated page, its full screen, the shrink
and the zoom. `TabLoads`: `Commit`, `Finish`, `Fail`, `BecomesDownload`, `RendererGone` are
Chromium's events; `LoadOpening`, `PortsArrive`, `PreloadLost`, `PingTimesOut` the engine's.
`TabFrames`: Chrome's events in one order on `wire`; the page scripts' contexts; one hint round that
all frames share.

### The page script

`OverlayModes` has an action per key, message and reply that opens, changes or closes an overlay.
`PageAsks` has permission requests, file choosers and context menus with both queues of messages
between page and engine and the documents that come and go. `PathPrompt` computes on real names of
two or three letters. `FindBar` has the bar, the session main keeps, and the two kinds of matcher.

### Input

`TerminalInput` cuts what is typed into lines at every place. `KeyDispatch` runs in ticks of 30 ms,
which the code's windows are multiples of; the keyboard repeats and the finger leaves at any tick
the hardware allows. `InputModes` is the flag that says keys are real keys, kept twice, by the engine
and by each frame. `NativePointer` and `NativeWheel` hear every move or scroll on two streams of
different delay. `ChromeInput` is the queue of `sendInputEvent` with its probe of the scale.

### Chrome, WebKit, shared names

`ChromeCapture`: signals of a screencast, one screenshot at a time, metrics, five timers.
`ChromeShared`: engines probe, launch, attach, sweep, open targets and quit, over one Chrome that may
die. `WebKitEngine`: commands and events on two pipes; views that close, popups, evaluations,
downloads; the host's death. `AudioOwners` and `AgentSocket` make every read and write of a shared
file a step. `Transfers` and `Recorder` are the remaining tables of `main.cjs` that timers, events
and waiting clients meet on.

## 3. Runs

| run | instance | shows |
|---|---|---|
| `shared_pane` | 2 connections of one pane, one also an attaching client, any death | registrations only move forward; `Twebd` implements the engine host's specification and `PaneOwners` |
| `own_panes` | 2 panes on one engine, clean hang-ups, crash budget 2, 1 frame, 1 waiting line, last tabs close | one engine; routes, registrations and the engine's pages agree; a line the engine reads costs no routed pane its page |
| `liveness` | 2 tmux servers' panes with one id, crash budget 1, fair tasks | every request answered, a loss heard, a hang-up reaped; a refusal or an end leaves nothing behind |
| `frontends` | 2 panes, 2 serve processes at a time, 1 further attempt, 1 stop, kill or lost engine, a restart | the socket names the serving daemon, bind meets no name, every pane settles |
| `frames` | 1 pane, 2 tabs, 2 columns, 1 patch id, 2 changes, 1 resize, 2 switches, 1 failed frame, the worker's death | a still pane shows its page; frames are drawn at their own geometry; what is on its way gets out |
| `sessions` | 2 panes of 2 engines in one named window, 2 slots; 2 of: pages, a rename, a renumbering, a server restart; 1 kill | slots apart unless one was robbed; no later start robs; tabs come back |
| `engine` | 16 modules, one at a time | what an engine process promises its user and its page |
| `settles` | 7 modules, one at a time, fair | what waits is answered, and nothing late is taken for something new |
| `late_reap`, `same_id`, `hidden_draw`, `renumbered` | see below | the code departs from a comment |

The names of the properties a run lists are often conjunctions of named parts: `HostSafe`,
`LeavesNothing`, `PagesAgree`, `EndsAreHeard`, `SocketIsTrue`, `PaneIsRight` where their module ends,
those of `engine` and `settles` at the end of `MCEngine` and `MCSettles`, where each part is a
property its own module states and explains.

`MCEngine` and `MCSettles` check many modules in one state space. Their parts share no state: the
variable `part` says which of them moves, the others stand still in one initial state. The number of
states is the sum of what the parts reach, not the product, and no interleaving between parts is
claimed. What two parts say to one another in the program is in each of them an input that may come
at any time (the mode an overlay names, the frame that owns native keys, the tab that is shown).

Why the bounds are enough. A property of the daemon speaks of one registration and one other party
(predecessor and successor on one key, or two panes on one engine): two connections are that pair. A
crash budget of 1 or 2 stands for the code's 3: both sides of the limit are reached. Two serve
processes at a time, reused when they are gone, are a daemon and its successor, the restart
command's old and new; one further attempt reaches both sides of the retry budget. Two columns
let a patch cover a part or the whole of a page, one patch id wraps at once, and two changes let
the second overtake the first. Two panes are a holder of a slot and its rival; with a third, on an
engine of its own, the claims' properties hold as well (5.1 million states), as the proof says for
any number. The two engines of `sessions` are alike, so it is enough that one of them may be killed
(`Mortal`). `Frames` was also checked with three columns, two patch ids and three changes, and with
two panes.

The modules of `MCEngine` and `MCSettles` are bounded by scenes: records that say how many of each
kind of event one behaviour holds (`OverSceneSet`, `QueueSceneSet`, ...). A scene is a question: two
overlays and a late reply; a click, a move and a skew that comes and goes; a move to another engine
and a close. Every behaviour within a scene is checked, each scene holds at least two events that
can meet, and every action of every part happens in some scene, but for two of `Transfers`: those
that show another tab or save from outside are left to the instances `BadgeTabs = {1, 2}` and
`Strangers = TRUE`, under which `BadgeExpires` fails (below). Rings, limits and windows keep
their shape and lose their size: a ring of 3 objects and one of 2, a paste limit of 4, a hold of 2
ticks and a silence of 10.

`CHECK_DEADLOCK FALSE` everywhere: panes finish, processes end, and every instance bounds what may
still happen.

Fairness. Every step of a connection task, of the host's tasks and of the engine's stdin reader is
weakly fair: tokio polls every ready task, a starting engine answers, exits or runs into
`READY_TIMEOUT`, and the engine's event loop reads its stdin. `Push` is strongly fair because
`select!` polls the event channel in the same poll in which it found no line. In `Frontends` the
frontends' and the serve processes' own steps are weakly fair, and a daemon that accepted answers.
In `FramePipeline` the compositor's paint callback, the pending frame's timer and the worker thread
are; in `WindowSessions` a pane's walk, its first tabs, its timer and the end of its question to
tmux, which has a timeout of a second. In `MCSettles` each module has the fairness it states, for the
part that goes on: Node's timers fire, messages on a pipe arrive, Chrome carries out what it was
sent, the WebKit host answers or dies (its exit is heard), each step of a claim is taken by a process
that lives, and a finger that can be lifted again and again is lifted (the one strong fairness: a
key held for ever is a user who never lets go). Nothing is assumed of users, pages, kills, renames
or faults.

### What the properties exempt

`own_panes` and `liveness` are checked with clean hang-ups, because of the disagreements below.
`StillIsRight` exempts a pane whose whole frame could not
be written, and one with a patch that overtook a whole frame. `ChangesAreSaved` speaks of a pane
that shares its files with nobody. `ComesBack` speaks of a pane that starts alone in its window
(`Lone`), was not robbed, in windows not renumbered, and not of a name's file that lags behind.
`OneOverlay` leaves out the tab list, `IndicatorIsTrue` and `TypedIsText` closes that do not say their
mode. `MirrorIsRightAlone` and `ArmedIsOwner` leave out a mode another tab or an answered ping has meddled with, `StillIsSharpButSlips` two
races of a resize, `KeysAreReadRight` the known misreads of the escape window and of mixed lines,
`ScrolledOnce` two devices in turn, `MatchIsKept` an answer that outlived its bar,
`SessionUrlIsShown` a page loaded while an error page was on its way, `FrozenIsMoving` a frozen
tab whose replacement was closed, `ClosedIsClosed` a close before the target's id is known.
`EstimateIsRight` leaves out a report that names a cell the native helper never heard of, because it
had the pointer elsewhere: the code takes the cell it last saw for the one before; and, with
`PointIsTrue`, a report later than the window: with narrow cells it moves a grid already known by the
slack of two within which a report is taken to agree. `TimelineMentionsAll`
leaves out a recording whose log was full when an event came, whose picture is written all the same.
Each exemption is a disagreement of the next table or a case the module names where it is exempted,
so none hides a case nobody has looked at.

### Where the code departs from its comments

Four are runs that TLC must find violated. Each of the others can be seen by giving the named
configuration the constants of the middle column and the property alone.

| configuration | constants | property | what happens |
|---|---|---|---|
| `TwebdLeak` | (run `late_reap`) | `EndedOwnsNothing` | an answer that cannot be written ends the task before `reap_connection` |
| `TwebdSameId` | (run `same_id`) | `RoutedIdsUnique` | the check for a conflicting pane id precedes an await |
| `FrameHidden` | (run `hidden_draw`) | `HiddenShowsNothing` | visibility is not looked at again when the worker's answer is drawn |
| `SessRenumber` | (run `renumbered`) | `FilesApart` | claims are found by index, files by window id: two panes of a renumbered window share slot 0 |
| `TwebdOwn` | `KeyOf <- SamePane` | `CurrentIsRouted` | `close()` removes the route of whoever opened the pane between its two sections |
| `TwebdOwn` | `KeyOf <- SamePane` | `PaintsOwnPage` | a late frame is routed by pane id and stamped with the successor's generation |
| `TwebdOwn` | `KeyOf <- SamePane`, dirty hang-ups | `HostedHasItsPage` | a pane attached again while its old record lives gets no page, and nobody is told |
| `Frontends` | `MaxFaults = 2` | `LostGoesBack` | the retry budget is counted over the pane's life |
| `Frontends` | as it is | `TabsComeBack` | only the last of several failures decides whether tabs are restored |
| `Frontends` | as it is | `ToldIsHeard` | what arrives with the answer is dropped with its read buffer |
| `Frontends` | `MaxFaults = 0` | `ReachableIsSpared` | a daemon that binds after the last poll is killed by the pane that started it |
| `Frontends` | `MaxFaults = 0` | `RestartFindsWinner` | the new serve process loses the lock to the daemon that is going away |
| `Frames` | `Width = 3`, `Slots = 2` | `PatchStays`, `PatchOverBase` | a patch is drawn before the whole frame it belongs on |
| `Frames` | as it is | `NoneStaysBusy` | a dead worker leaves its panes waiting, and is not replaced |
| `Frames` | `Panes = {p1, p2}`, `TwoOf`, `TwoFirst` | `GivesUpAndRepaints` | giving raw frames up repaints the first pane only |
| `Sessions` | as it is | `NoneBothHave` | a claim read before its text is written is taken for stale and removed |
| `Sessions` | as it is | `NameIsFresh` | a save that missed the name leaves older tabs under it, which are preferred |
| `SessRenumber` | as it is | `LoneIsZero` | a claim whose unlink failed keeps the next pane off slot 0 |
| `SessRenumber` | `NamesOf <- SameName`, `MaxRenames = 2` | `NotAnothers` | two windows given one name share the name's file |
| `SlotClaims` itself | three panes, an engine each, one place, two slots | `SweepSpares` | the sweep unlinks a slot that was taken over after it was judged |

The others are of the parts of `Engine` and `Settles`, whose configurations show them as they are
unless the table says otherwise.

| part | property | what happens |
|---|---|---|
| overlays | `OwnInputsAreText` | inputs of the page script that are not in `TEXT_MODES`, and the palette's Enter and Escape, leave the engine reading commands |
| overlays | `TextHasAPlace` | timers and broadcasts set a mode over an overlay that is open |
| asks | `EveryAskerIsHeld`, `FilesGoWhereAsked` | a chooser replaced by the next is not cancelled; an old document's is drawn over the new one |
| asks | `CommandIsOfItsMenu` | a menu's command reaches what was asked about last |
| path | `TabKeepsWhatIsTyped` | a completion that arrives late replaces what was typed meanwhile; with `Limit = 2`, `NeverGuessesWrong` fails as well: the list is cut before the common prefix is taken |
| transfers | `RunningIsShown` | the badge of a finished transfer hides one that runs; with `BadgeTabs = {1, 2}` a tab switch leaves `BadgeExpires` without its timer |
| frames | `DoneEndsItsRound` | `hint-done` carries no round (scene of four keys) |
| tabs | `ClosedPaneIsEmpty` | a move under way puts its page into a pane that has closed |
| tabs | `OneTabPerPage` | a move whose old tab was closed and restored leaves the page twice; with `webkit` among the engines, `PagesAreKept` fails |
| float | `FocusComesBack`, `ResizeHolds` | focus is handed back for one of several ways a viewer goes; the surface tick undoes a resize. With two panes the shared fullscreen variables break `FullscreenIsFullSize` and `ShrinkIsMadeUpFor` |
| loads | `BarGoes`, `AskedLoadSurvives` | the bar of a superseded load stays; the start page drawn again and the reload of a lost preload cancel what the user asked for |
| modes | `MirrorIsRight` | a report of a tab no longer shown turns the flag, and so does the answer to a ping, which is taken for a new document's |
| wheel | `ScrollsItsTab` | a held notch is given to the tab that is shown when its window ends |
| queue | `NeverMidDrag` | the probe's move is sent between press and release |
| capture | `StillIsSharp` | a frame or an answer of before a resize is taken for one after it |
| recorder | `NamedIsFound`, `WaiterHearsItsOwn` | the results of the last recording replace those a wait names; where a stop is asked for while one is under way and a second recording starts, `RunningIsStoppable` |
| store | `DetachedHoldsNothing` | the worker writes the file of a pane that is gone (scene with a fault and a detach); with late kills, `LeftIsFindable`; with four faults, a ring of 3 and a lag of 2, `PixelsAreItsOwn` and `NamedIsThere` |
| socket | `NeverMissing` | an engine that closes unlinks a name that is another's by then; with `ExitIsOneStep = FALSE`, `NewestIsReached` |
| find | `RepeatAdvances` | the matchers of Chrome and WebKit start over where Chromium's goes on |
| webkit | `LoadTellsItsOwn` | the failure of a superseded navigation fails the load after it |
| audio | `ReclaimSticks` | a heartbeat decided before a claim was written replaces it |
| chrome | `ClosedLeavesNothing` | a tab closed while its target is made stays in Chrome |
| chrome | `OutsideOnlyIsHanded` | a pane's own new target is taken for one from outside |
| chrome | `SweepSparesLiving`, `QuitSparesOthers` | the sweep at a start and the count at a quit miss panes that are starting |
| chrome | `RunningIsFound` | a launch that loses to the running Chrome ends in failure |

## 4. Proofs

For any number of connections, panes and engines and for any bounds. All of it rests on the named
assumptions on the constants (`...Assumption`): types, and that a stand-in for "nobody" is not a
member of the set it stands beside. A theorem that needs more states it as a hypothesis.

### The daemon

* `RegistryInvariant`, `RegistryOnlyForward`: generations are unique and only grow, from
  `RegInv` (type correctness and `panes[k] <= nextGeneration`).
* `HostTyped`, `OneEngine`, `HostIsSafe`: from `HostInv`. The invariant
  says that whoever is between "no engine" and READY holds `starting`, that `stdin` names the only
  process not yet waited for, and that a route's holder has an open that has not failed.
* `ImplementsHost`: every step of `Twebd` is a step of `EngineHost` or leaves its state alone; from
  it `DaemonIsSafe`. `DaemonKeepsGenerations`: the same for the registry. `PathTyped`: types of all
  of `Twebd`.
* `ImplementsOwners`: `Twebd` implements `PaneOwners`. The refinement mapping reads the owner of a
  pane off the generations, so the invariant (`OwnersInv`) has to make generations names: a
  connection asks for its pane once and at the beginning (`AsksOnce`), the generation it got is its
  own alone (`GensDistinct`, `HoldsItsOwn`), every registered generation was given to somebody
  (`OwnersExist`), and who has been released is not current. Then each step of `Twebd` registers,
  accepts, refuses, leaves or releases in the abstract account, or is one of the many it does not
  see; the five kinds and the quiet steps are one lemma each.
* `RefusedIsForgotten` (`RefusedLeavesNothing`): a connection that was refused is neither registered
  nor routed, for any assignment of panes. `TasksInv` says what has become of a connection's request by each
  point of its task's way (`InStep`), and that a refused one has no open left that could still
  register it (`RefusedHasNothing`).

### Connections with panes of their own

The properties that relate the daemon's tables to the engine's pages hold only under hypotheses,
and each hypothesis is needed: TLC finds every one of these properties violated without it.

| theorem | says | needs |
|---|---|---|
| `LonePaneIsRouted` | a pane one connection alone speaks for stays routed while hosted and current, or its engine's loss is on its way | only that pane to be alone |
| `CurrentRouted` (`CurrentIsRouted`) | the same of every pane | `OwnPanesOnly` |
| `EndLeavesNothing` (`LeavesNothing`) | an ended connection is neither registered nor routed | `OwnPanesOnly`, `~DirtyHangUps` |
| `PagesAreServed` (`PageIsServed`) | with the lines read, every page of the engine is that of a hosted connection | `OwnPanesOnly` |
| `RoutedKeepsPage` (`HostedHasItsPage`) | a line read does not close the page of a routed pane | `OwnPanesOnly`, `OwnIdsOnly` |
| `FramesReachTheirOwn` (`PagesAgree`) | no frame is painted for another's page | `OwnPanesOnly`, `OwnIdsOnly` |

`OwnPanesOnly` (no two connections have one key) fails when a pane is attached again: `close()` then
takes the successor's route (`CurrentIsRouted`), and the successor's page is not the one the lines
speak of. `OwnIdsOnly` (keys with one pane id are equal) fails for two tmux servers (`same_id`).
`~DirtyHangUps` fails in the run `late_reap`. `PathInv` follows a pane through the FIFO of
lines: a page belongs to a connection that is being served or whose detach is still in the FIFO;
the line that asks for a page is sent once, before the page is there, and is that of a connection
being served or followed by its detach; what is being detached is not being served (`PagesInv`).
`FramesInv` adds that every frame on its way carries the id of its own connection's pane, and that
what has been routed to a connection is its own.

### Processes, claims

* `DaemonNamed`: the socket names the daemon that serves, and bind never meets a name. The
  invariant ties every stage between the lock and the unlink to holding the lock, and the socket's
  name to a process that holds the lock or is gone. `FrontendsKeepNames`: the steps of `Frontends`
  are steps of `DaemonProcess` or leave it alone. `FrontendsTyped`: types of both.
* `SessionsKeepSlotsApart`, `SessionsRobOnlyOverlapping`: two living panes save into one slot only
  if one was robbed of its claim, and nobody robs a pane that had its slot before the robber's walk
  or sweep began. Neither is inductive. `ClaimInv` adds that a claim naming a living pane is the
  file of that pane's present slot (`NamesHolder`), that a holder not robbed still has its file
  (`HoldsFile`), and that whoever is about to unlink has not judged a claim that was there when it
  began (`JudgedOthers`): this carries a judgement made at a read over to the unlink that follows
  many steps later.

### The frame pipeline

`PaneShowsItsPage` (`PaneIsRight`) and `NoOldFrameIsDrawn` (`DrawnIsCurrent`), for any panes, tabs,
columns and patch ids. That a still pane shows its page says nothing of a pane that is not still, so
`FrameInv` says for each visible pane where its newest look is to be found: in the damage the next
paint reports; else in the pending frame; else in the frame queued behind the worker's; else in the
worker's; else on the terminal (`LayersTrue`), where the image on top of a column is the last that
was placed over it. Frames that are not current are recognised by their generation, and there is one
job per pane with the worker, so that the answer that comes is that of the frame handed over. The
terminal is a set of images with `over`, not a sequence, because removing and replacing elements of
a sequence by a filter is recursion, which no prover here reasons about.

### Inside an engine

* `ClicksThenTyping` (`QueueIsTrue`), for `ChromeInput` and for the instance `MCEngine`. `QueueInv`
  takes what has arrived and what still waits as one history: of two events in it, a pointer event
  behind another was called later, and two events never type one text. A key that waits for its text
  is numbered when it is called and its text after it, so the text cannot be used twice. A press
  is never sent on a scale measured earlier: it waits at the head of the queue for its own probe.
* `QuestionsAreAnswered` (`AsksAreAnswered`), for `PageAsks` and for `MCEngine`. What the runs check
  speaks of moments at which no message is on its way. `AsksInv` says what is on its way at the
  others: the last question of a kind among the messages to the page is the one main would ask now,
  or there is none and it is drawn (`EndsUpAt`); a chooser of this document whose attribute was read
  is on its way to the page, drawn, or about to be answered (`ChooserComes`), a menu likewise
  (`MenuComes`); a frame that has not registered has nothing drawn, waiting or coming (`Blank`);
  and the queue holds exactly the unanswered requests, each once, all of the present document.
* `OverlaysKeepApart` (`OverlaysAgree`), for `OverlayModes` and for `MCEngine`. `OverInv` adds to the
  checked properties what they take from earlier steps: the omnibox and the command line are up only
  while commands are switched on (`LineNeedsVim`), and one that can be typed into is never called
  normal (`LineIsText`) unless a close is unsaid or a message on show; `IndicatorIsTrue` alone allows
  "normal" over an open line.
* `StepsStaySafe` (`StepsAreSafe`, that is `EscapeGoesBack` and `LivingIsSpared`), for `OverlayModes`, for
  `FrameStore` and for `MCEngine`. Escape looks at `insertMode` before the palette and before a filter
  that has been begun, so it would stop there if either were open in insert mode: `StepsBack` says they
  never are. The files of a living engine are safe from the sweeps of others because the names of
  engines differ and a sweep asks who is running; they are safe from the engine's own rename because
  what has been staged is still there when it is renamed (`StagedIsThere`), and it holds pixels because
  whatever the worker has was made (`WorkIsReal`). Of the rings and limits it needs no more than that
  they are positive.

* `WheelScrollsOnce` (`ScrolledOnce`, `HeldIsFlushed`), for any scrolls of any devices and any delay of
  the terminal's path shorter than the hold (`Skew < HoldTicks`; beyond it TLC finds the second scroll).
  `WheelInv` accounts for every scroll by its number: it is on exactly one of the two streams, held, or
  given (`PlainOnce`), and each held notch has what will free it: the hold's timer, which runs out after
  the pad's report of the same turn has come (`HoldIsYounger`, `PadHeardFirst`).
* `InputStaysTrue` (`InputIsTrue`), for `InputModes`, `NativePointer` and `MCEngine`: any tabs, frames and
  scenes; any width of a cell and any places on a screen. `ModesInv` reads the reports on their way as
  what will be: a frame that was given real keys has its field, or a report that takes them comes later
  (`GivenHaveField`, `OwnersHaveField`), and a field of the tab shown is its frame's, will be, or that
  frame has yet to hear a mode message (`FieldIsGiven`). `PointerInv` says why two streams can be matched
  at all: a report has a sample of its age in its cell (`ReportsAreOfSamples`), and a sample since the
  last report is of the cell it named or younger than a report on its way (`SamplesAreOfLast`), so every
  interval offered holds the place where the grid starts; half a narrow interval is less than half a
  cell. The wheel's part is `WheelScrollsOnce`, whose hypothesis it has.
* `PagesEndUpSharp` (`StillIsSharpButSlips`, `OneShot`), for any looks of the page and any number of
  changes, resizes, switches and timeouts. What is checked speaks of a page at rest; `CapInv` says of
  every other moment that the pane is sharp or something is under way that will make it so
  (`SharpOrPromised`): a signal not yet heard, the settle timer, a shot that has not been taken or
  whose picture is of the page as it is, a size Chrome has not applied. A shot of an older page is
  always followed by one of these (`OldIsFollowed`, `StaleIsFollowed`).
* `TimelinesMentionPictures` (`PictureIsOfItsEvent`, `TimelineMentionsAll`), for any number of recordings,
  failed captures and any limits. An event is asked to be captured once at all times, whichever of
  the five queues holds the request (`AskedOnce`); every picture on disk is linked, on its way to
  its link, or of an event a full log dropped (`LinksHold`, `LostIsFull`); and nothing is on its way to
  a log whose timeline has been written (`WrittenIsOver`).
* `PicturesStayTrue` (`PicturesAreTrue`): the two above and `RunningIsStoppable`, which needs that no stop is
  asked for while one is under way; the recorder row above is what happens otherwise.
* `FloatsKeepFitting` (`FloatsFit`), for any tabs and any number of toggles, resizes, closes and loads, in a
  process of one pane (`OneFloatPane`, the ordinary one: a hosted process of several shares the full
  screen's variables, see the float row). `FloatInv` ties zoom, base and viewer of each page to the
  full-screen state at the end of each handler; the handlers' inner steps are lemmas on displays.
* `FilesStayFound` (`FilesOutlive`), for any engines, frames, patches, kills and dropped escapes.
  `FilesInv` counts ring slots: an escape still to be read lies at most so many slots behind the
  one handed out last as there are escapes and failures between (`RingsHold`), so with a ring longer than
  that its slot is not reused. The hypothesis `Bears(most)` is this count: `2 * Lag + most < 2 * WholeRing + 2` and
  `Lag <= PatchRing`, where `most` bounds the writes that fail; a frame that fails twice takes a
  slot and sends no escape. The code has a ring of 4 and one of 16 and gives raw frames up after
  three failures (`RAW_FRAME_FAILURE_LIMIT`). `LeftIsFindable` follows from `MarksHold`: what is in shared memory, or about to
  be, has a marker until it is cleaned up; it needs that no engine is killed while it leaves
  (`FewFail`). `NewestIsReached` follows from `SocketInv`: engines of a pane start in the order of their numbers,
  and the last to rename its socket has the name, if closing reads and unlinks in one step
  (`ExitIsOneStep`). Each of these hypotheses is needed (store and socket rows above).

### The Chrome that engines share

`ChromeStaysShared` (`ChromeIsShared`) and `ChromeIsTyped`, for any engines, tabs, launches and faults.
`SharedInv` says that one Chrome at most has the profile and whoever is linked is linked to it
(`ProcInv`); that a target is made for a new tab, handed over once and then closed, and a session is
that of an open tab (`TabInv`); and that, while Chrome is up and every engine is on its way out, one of
them has yet to ask who is left, or has asked and found nobody (`LastOneAsks`). The last is what
`LastClosesChrome` needs: two engines that leave together must not each count the other.

### What is only model-checked

* Liveness: `RequestAnswered`, `EndsAreHeard`, `PaneSettles`, `Settles`, `ComesBack`, `InputEnds`,
  `StartedSettles`. Neither fairness nor ENABLED is within the prover's reach.
* `FilesAreSafe`, `HintsAgree`, `TabsAreKept`, `FindIsCurrent`, `KeysAreTrue`, `ViewsAgree`. Their modules filter and fold
  sequences or compute by recursion (`SelectSeq`, `FoldSeq`, the completion of paths, the parser of
  keys), and what a recursive definition yields for every input is induction over data, which the
  prover cannot do.
* `EngineTypeOK` and `SettlesTypeOK` as wholes; the types each proof needs are parts of its invariant.

Not expressed at all: hashing of keys, JSON, escape sequences and pixels.

## 5. Plan, and what is not modelled

To prove next: `TabsAreKept` and `NoOrphanUp`, for which `PaneTabs` and `KeyDispatch` would have to state
what their filters keep without `SelectSeq`.

Not modelled yet: the hand-over between agent and user and the waits of `agent-*.cjs`;
`pane_writer.rs` and `image_sweep.rs`; the remote relay (`ssh.rs`); `history-lock.cjs`; Hangul
composition; the pictures of the WebKit host; quitting and transparent pages; dialogs and printing
of Chrome pages. `list`, `status`, `ping` and `shutdown` of the daemon ask or end and change no table.

Simplified inside what is modelled: the parts of an engine process do not run beside each other
(section 3); places in `ChromeInput` are right or wrong and not coordinates; time is order, or ticks
where the code compares durations; Chrome, WebKit, tmux and the terminal are external and do what
the code relies on, in any order it allows.

Not to be modelled: the one-shot commands of `tweb-cli`, settings, key and URL parsing, start and
history pages, benchmarks. They are sequential, and what they compute is text.
