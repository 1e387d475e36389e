----------------------------- MODULE MCSettles -----------------------------
(* The parts of an engine that wait: for a timer, for an answer, or for what another process does to
   a file, a socket or a browser the engines share.  One part at a time: every behaviour is one of the
   part it begins with, and the others stand still in one state. *)
EXTENDS FindBar, TerminalInput, KeyDispatch, ChromeShared, WebKitEngine, AudioOwners, WindowSessions, TLC

CONSTANTS e1, e2, t1, f1,                  \* panes, a tab and another one of the shared Chrome
          p1, p2, h1, w1, mail, auto    \* panes of one engine, their window, its name

VARIABLE part

settleVars == <<findVars, termVars, keyVars, sharedVars, webkitVars, audioVars, vars, part>>

FindScene(e, o, t, m) == [engine |-> e, opens |-> o, types |-> t, moves |-> m]
FindSceneSet ==
  {FindScene("electron", 2, 3, 0), FindScene("electron", 1, 2, 1), FindScene("chrome", 2, 2, 0),
   FindScene("chrome", 1, 2, 1)}

\* What is typed: any two of these in a row.
Typable == {"char", "control", "escape", "arrow", "altBracket", "paste"}
Typing == {<<a, b>> : a \in Typable, b \in Typable}

KeyScene(p, m, s) == [presses |-> p, modes |-> m, switches |-> s]
KeySceneSet == {KeyScene(2, 0, 0), KeyScene(1, 1, 1)}

\* One tab, of the first of two panes.
OneTab == t1 :> e1

WebKitScene(l, m, f, e, p, c, d, x, s) ==
  [loads |-> l, moves |-> m, frames |-> f, evals |-> e, popups |-> p, closes |-> c, downloads |-> d,
   deaths |-> x, stops |-> s]
WebKitSceneSet ==
  {WebKitScene(1, 0, 0, 1, 0, 1, 0, 1, 0), WebKitScene(0, 0, 0, 1, 1, 1, 1, 1, 0),
   WebKitScene(0, 0, 0, 0, 0, 0, 2, 1, 1), WebKitScene(2, 0, 0, 0, 0, 0, 0, 0, 0),
   WebKitScene(1, 1, 1, 0, 0, 0, 0, 0, 0), WebKitScene(0, 1, 2, 1, 0, 0, 0, 0, 0)}

AudioScene(c, m, d, s) == [claims |-> c, changes |-> m, deaths |-> d, sticks |-> s]
AudioSceneSet ==
  {AudioScene(1, 2, 0, 0), AudioScene(0, 2, 1, 0), AudioScene(0, 2, 0, 1), AudioScene(0, 3, 0, 0)}

\* Two panes that start in one window and compete for its one slot.
Hosted == (p1 :> h1) @@ (p2 :> h1)
OneIndex == w1 :> 2
OneAuto == w1 :> auto
OneName == w1 :> {mail}

Parts == {"find", "terminal", "keys", "chrome", "webkit", "audio", "saves"}

FindBegins == FindInit /\ (part = "find" \/ findSpend = FindScene("chrome", 1, 2, 1))
TerminalBegins == TermInit /\ (part = "terminal" \/ typed = <<"char", "char">>)
KeysBegin == KeysInit /\ keyTab = 1 /\ (part = "keys" \/ (modes.vimium /\ keySpend = KeyScene(2, 0, 0)))
\* Chrome runs already when the first pane starts, or it does not and a process may fail.
ChromeBegins ==
  /\ SharedInit
  /\ \/ chrome[1] = "up" /\ files.own = NoChrome /\ chfaults = 0 /\ \A t \in Outside : target[t] = "none"
     \/ /\ part = "chrome"
        /\ chrome[1] # "up" /\ chfaults = MaxFaults /\ \A t \in Outside : target[t] = "closed"
WebKitBegins == WebKitInit /\ (part = "webkit" \/ wkSpend = WebKitScene(2, 0, 0, 0, 0, 0, 0, 0, 0))
AudioBegins == AudioInit /\ (part = "audio" \/ audioBudget = AudioScene(0, 3, 0, 0))

MCSettlesInit ==
  /\ part \in Parts
  /\ FindBegins /\ TerminalBegins /\ KeysBegin /\ ChromeBegins /\ WebKitBegins /\ AudioBegins
  /\ SessionsInit

MCSettlesNext ==
  \/ /\ part = "find" /\ FindNext
     /\ UNCHANGED <<termVars, keyVars, sharedVars, webkitVars, audioVars, vars, part>>
  \/ /\ part = "terminal" /\ TermNext
     /\ UNCHANGED <<findVars, keyVars, sharedVars, webkitVars, audioVars, vars, part>>
  \/ /\ part = "keys" /\ KeysNext
     /\ UNCHANGED <<findVars, termVars, sharedVars, webkitVars, audioVars, vars, part>>
  \/ /\ part = "chrome" /\ SharedNext
     /\ UNCHANGED <<findVars, termVars, keyVars, webkitVars, audioVars, vars, part>>
  \/ /\ part = "webkit" /\ WebKitNext
     /\ UNCHANGED <<findVars, termVars, keyVars, sharedVars, audioVars, vars, part>>
  \/ /\ part = "audio" /\ AudioNext
     /\ UNCHANGED <<findVars, termVars, keyVars, sharedVars, webkitVars, vars, part>>
  \/ /\ part = "saves" /\ SessionsNext
     /\ UNCHANGED <<findVars, termVars, keyVars, sharedVars, webkitVars, audioVars, part>>

\* The fairness each module states, asked of the part that goes on only.
SettlesFairness ==
  /\ WF_findVars(part = "find" /\ RestoreTimer) /\ WF_findVars(part = "find" /\ FindResultArrives)
  /\ WF_findVars(part = "find" /\ CallArrives) /\ WF_findVars(part = "find" /\ PageFinds)
  /\ WF_termVars(part = "terminal" /\ FlushEscape) /\ WF_termVars(part = "terminal" /\ Parse)
  /\ WF_keyVars(part = "keys" /\ KeysTick)
  /\ WF_keyVars(part = "keys" /\ \E i \in Ids : LetGo(i))
  /\ \A k \in {"a", ";"} : SF_keyVars(part = "keys" /\ FingerUp(k))
  /\ \A e \in Engines :
       /\ WF_sharedVars(part = "chrome" /\ (StartStep(e) \/ StopStep(e)))
       /\ WF_sharedVars(part = "chrome" /\ \E t \in Tabs \cup Outside : HearForeignTab(e, t) \/ ForwardForeignTab(e, t))
  /\ \A t \in Tabs : WF_sharedVars(part = "chrome" /\ TabStep(t))
  /\ WF_sharedVars(part = "chrome" /\ \E c \in Chromes : ChromeStarts(c))
  /\ WF_webkitVars(part = "webkit" /\ HostTakes) /\ WF_webkitVars(part = "webkit" /\ JsHears)
  /\ WF_webkitVars(part = "webkit" /\ ExitHeard) /\ WF_webkitVars(part = "webkit" /\ EvalEnds)
  /\ WF_webkitVars(part = "webkit" /\ DownloadEnds)
  /\ \A v \in Views :
       /\ WF_webkitVars(part = "webkit" /\ PollPageState(v))
       /\ WF_webkitVars(part = "webkit" /\ LoadStarts(v))
       /\ WF_webkitVars(part = "webkit" /\ (NavCommits(v) \/ NavFails(v)))
       /\ WF_webkitVars(part = "webkit" /\ NavFinishes(v))
  /\ WF_audioVars(part = "audio" /\ HeartbeatPasses)
  /\ \A p \in Players :
       /\ WF_audioVars(part = "audio" /\ AudioTimer(p)) /\ WF_audioVars(part = "audio" /\ PlayerGoesOn(p))
       /\ WF_audioVars(part = "audio" /\ WriteAudioClaim(p))
       /\ WF_audioVars(part = "audio" /\ ClearAudioClaim(p))
       /\ WF_audioVars(part = "audio" /\ UnlinksClaim(p))
  /\ \A p \in Panes :
       /\ WF_vars(part = "saves" /\ Claiming(p))
       /\ WF_vars(part = "saves" /\ \E way \in Ways : CreateWindow(p, way))
       /\ WF_vars(part = "saves" /\ TimerFires(p)) /\ WF_vars(part = "saves" /\ NameAnswers(p))

MCSettlesSpec == MCSettlesInit /\ [][MCSettlesNext]_settleVars /\ SettlesFairness

\* The types of all parts.
SettlesTypeOK ==
  /\ FindTypeOK /\ TermTypeOK /\ KeysTypeOK /\ SharedTypeOK /\ WebKitTypeOK /\ AudioTypeOK
  /\ SessionsTypeOK

-----------------------------------------------------------------------------
(* What the parts promise, part by part; each name is stated in its module. *)

\* The find bar: the match that is counted is kept, and a count is of the query that is shown.
FindIsCurrent == MatchIsKept /\ CountIsOfTheQuery

\* The terminal's bytes and keys: what is heard is what was typed, a paste is no key; a key that is held
\* stays down, a tap is a tap, and no key goes up that is not down.
KeysAreTrue == KeysAreReadRight /\ PasteIsNeverTyped /\ HeldStaysDown /\ TapsAreTaps /\ NoOrphanUp

\* The Chrome that engines share: an address opens once, a closed tab stays closed, and the last
\* engine to go closes Chrome.
ChromeIsShared == UrlOpensOnce /\ ClosedIsClosed /\ LastClosesChrome

\* WebKit's views: once all is heard the engine's address and frames are the host's, and a host that
\* died owes nothing.
ViewsAgree == UrlAgrees /\ FramesAgree /\ DeadHostOwesNothing

\* Input ends: Enter closes the bar, an escape on its own arrives, every key is let go.
InputEnds == EnterCloses /\ EscapeArrives /\ EveryKeyIsLetGo

\* What was started among processes settles: engines and tabs of the shared Chrome, the requests,
\* loads and transfers of the WebKit host, the page that may be heard, and a pane's saved tabs.
StartedSettles ==
  StartSettles /\ TabSettles /\ RequestsEnd /\ LoadsSettle /\ TransfersEnd /\ OneIsHeard /\ ChangesAreSaved
=============================================================================
