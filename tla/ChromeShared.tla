---- MODULE ChromeShared ----
(***************************************************************************)
(* One Google Chrome per profile, shared by the engines of several panes:  *)
(* how an engine finds it or launches it (cdp/connection.cjs), what it     *)
(* sweeps when it starts, how its tabs come and go, how a tab opened from  *)
(* outside is handed on, and who closes Chrome (cdp/engine.cjs), under the *)
(* backend that starts and forgets engines (cdp/backend.cjs).              *)
(* Chrome itself is external: it holds its profile alone, carries out one  *)
(* command at a time and answers; it may die, and a link to it may drop.   *)
(***************************************************************************)
EXTENDS Naturals, FiniteSets

CONSTANTS
  Engines,      \* page backends, one to a pane
  Tabs,         \* tabs panes may open
  OwnerOf,      \* the engine each tab is opened on
  Outside,      \* tabs the system opens in this Chrome, e.g. a link in a mail
  NoChrome,     \* stands for no Chrome process
  MaxLaunches,  \* Chrome processes started in a behaviour
  MaxFaults     \* deaths of Chrome, of links and of panes, and probes that time out

ChromeAssumption ==
  /\ OwnerOf \in [Tabs -> Engines] /\ Tabs \cap Outside = {}
  /\ Engines # {} /\ MaxLaunches \in Nat \ {0} /\ MaxFaults \in Nat /\ NoChrome \notin 1 .. MaxLaunches
ASSUME ChromeAssumption

VARIABLES
  chrome,   \* how far each launched Chrome is
  files,    \* the Chrome whose port each port file names
  at,       \* where each engine's start or stop stands
  child,    \* the Chrome an engine launched and waits for
  link,     \* the Chrome an engine's socket leads to
  seen,     \* targets of the last getTargets answer an engine acts upon
  tabWindow,   \* each tab's window in its engine
  step,     \* how far the making of its target is
  target,   \* each tab's target in Chrome
  session,  \* whether its engine is attached to it
  foreign,    \* targets each engine took for foreign and has asked Chrome to close
  handed,   \* targets handed to the user's own Chrome, with how often
  missed,   \* history: tabs closed after their target was made and before its id was known
  chfaults  \* faults so far

chromeVars == <<chrome, files, child>>
tabVars == <<tabWindow, step, target, session>>
hand == <<foreign, handed, missed>>
sharedVars == <<chromeVars, at, link, seen, tabVars, hand, chfaults>>

Chromes == 1 .. MaxLaunches
Targets == Tabs \cup Outside
EngineStages == {"off", "probe", "pick", "wait", "retry", "waitown", "connect", "sweep", "sweeping",
                 "on", "stopping", "asked", "stopped", "killed"}

EngineStarting == {"probe", "pick", "wait", "retry", "waitown"}
Linked(e) == link[e] # NoChrome /\ at[e] \in {"sweep", "sweeping", "on", "stopping", "asked"}
Up(c) == c # NoChrome /\ chrome[c] = "up"
Launched == {c \in Chromes : chrome[c] # "none"}
Exists(t) == target[t] \in {"blank", "page"}

\* What becomes of the tabs of engines es when their links are gone: the commands they wait for
\* are refused, their windows close, and Chrome lets go of their sessions.
TabsLose(es) ==
  LET lost == {t \in Tabs : OwnerOf[t] \in es} IN
    /\ tabWindow' = [t \in Tabs |-> IF t \in lost /\ tabWindow[t] = "open" THEN "closed" ELSE tabWindow[t]]
    /\ step' = [t \in Tabs |-> IF t \in lost /\ step[t] # "idle" THEN "failed" ELSE step[t]]
    /\ session' = [t \in Tabs |-> session[t] /\ t \notin lost]

\* Chrome c is gone, with its targets and every link to it.
ChromeGone(c) ==
  LET es == {e \in Engines : link[e] = c} IN
    /\ chrome' = [chrome EXCEPT ![c] = "gone"]
    /\ target' = [t \in Targets |-> IF Exists(t) THEN "closed" ELSE target[t]]
    /\ TabsLose(es)
    /\ link' = [e \in Engines |-> IF e \in es THEN NoChrome ELSE link[e]]
    /\ at' = [e \in Engines |-> IF e \in es THEN IF at[e] \in {"stopping", "asked"} THEN "stopped"
                                                 ELSE "off"
                                ELSE at[e]]

\* No Chrome runs yet, or one a pane launched earlier, which its file names. Some of the links
\* may have been opened, and closed, before.
SharedInit ==
  /\ \/ /\ chrome = [c \in Chromes |-> "none"]
        /\ files = [own |-> NoChrome, picked |-> NoChrome]
     \/ /\ chrome = [c \in Chromes |-> IF c = 1 THEN "up" ELSE "none"]
        /\ files \in {[own |-> NoChrome, picked |-> 1], [own |-> 1, picked |-> NoChrome]}
  /\ at = [e \in Engines |-> "off"]
  /\ child = [e \in Engines |-> NoChrome]
  /\ link = [e \in Engines |-> NoChrome]
  /\ seen = [e \in Engines |-> {}]
  /\ tabWindow = [t \in Tabs |-> "none"] /\ step = [t \in Tabs |-> "idle"]
  /\ \E before \in SUBSET Outside : target = [t \in Targets |-> IF t \in before THEN "closed" ELSE "none"]
  /\ session = [t \in Tabs |-> FALSE]
  /\ foreign = [e \in Engines |-> {}] /\ handed = [t \in Targets |-> 0] /\ missed = {}
  /\ chfaults \in {0, MaxFaults}

-----------------------------------------------------------------------------
\* Finding or launching Chrome.

\* A pane's first tab on Chrome, or its next after a failure (bounded by the launches it may need).
EnsureEngine(e) ==
  /\ at[e] = "off"
  /\ Cardinality(Launched) + 2 * Cardinality({d \in Engines : at[d] \in EngineStarting}) + 2 <= MaxLaunches
  /\ at' = [at EXCEPT ![e] = "probe"]
  /\ UNCHANGED <<chromeVars, link, seen, tabVars, hand, chfaults>>

\* The Chrome the port files lead to: Chrome's own file is read before tweb's.
ActivePort == IF files.own # NoChrome THEN files.own ELSE files.picked

Finds(e, from) ==
  /\ at[e] = from /\ Up(ActivePort)
  /\ link' = [link EXCEPT ![e] = ActivePort]
  /\ at' = [at EXCEPT ![e] = "connect"]
  /\ UNCHANGED <<chromeVars, seen, tabVars, hand, chfaults>>

ProbeFinds(e) == Finds(e, "probe")

\* No answer: what is left in the directory is taken for a dead Chrome's.
ProbeFails(e) ==
  /\ at[e] = "probe"
  /\ IF Up(ActivePort) THEN chfaults < MaxFaults /\ chfaults' = chfaults + 1 ELSE UNCHANGED chfaults
  /\ files' = [own |-> NoChrome, picked |-> NoChrome]
  /\ at' = [at EXCEPT ![e] = "pick"]
  /\ UNCHANGED <<chrome, child, link, seen, tabVars, hand>>

\* One launch, on the port tweb picked or on one of Chrome's choosing.
LaunchChrome(e, from, to, picked) ==
  /\ at[e] = from
  /\ \E c \in Chromes \ Launched :
       /\ \A d \in Chromes \ Launched : c <= d
       /\ chrome' = [chrome EXCEPT ![c] = "starting"]
       /\ child' = [child EXCEPT ![e] = c]
       /\ files' = IF picked THEN [files EXCEPT !.picked = c] ELSE files
  /\ at' = [at EXCEPT ![e] = to]
  /\ UNCHANGED <<link, seen, tabVars, hand, chfaults>>

Launch(e) == LaunchChrome(e, "pick", "wait", TRUE) \/ LaunchChrome(e, "pick", "waitown", FALSE)
Relaunch(e) == LaunchChrome(e, "retry", "waitown", FALSE)

\* A process that was started has its profile, or has exited, by the time the launcher looks.
WaitFinds(e) == /\ at[e] \in {"wait", "waitown"} /\ chrome[child[e]] # "starting"
                /\ Finds(e, at[e])

\* The tries are over: the child is killed, so that the next is not refused as a second instance.
WaitGivesUp(e) ==
  /\ at[e] \in {"wait", "waitown"} /\ ~Up(ActivePort)
  /\ IF chrome[child[e]] = "starting" THEN chfaults < MaxFaults /\ chfaults' = chfaults + 1
                                      ELSE UNCHANGED chfaults
  /\ files' = [files EXCEPT !.picked = NoChrome]
  /\ child' = [child EXCEPT ![e] = NoChrome]
  /\ IF Up(child[e])
     THEN LET next == IF at[e] = "wait" THEN "retry" ELSE "off" IN
          /\ chrome' = [chrome EXCEPT ![child[e]] = "gone"]
          /\ target' = [t \in Targets |-> IF Exists(t) THEN "closed" ELSE target[t]]
          /\ TabsLose({d \in Engines : link[d] = child[e]})
          /\ link' = [d \in Engines |-> IF link[d] = child[e] THEN NoChrome ELSE link[d]]
          /\ at' = [d \in Engines |-> IF d = e THEN next ELSE IF link[d] = child[e] THEN "off" ELSE at[d]]
     ELSE /\ chrome' = [chrome EXCEPT ![child[e]] = "gone"]
          /\ at' = [at EXCEPT ![e] = IF at[e] = "wait" THEN "retry" ELSE "off"]
          /\ UNCHANGED <<link, tabVars>>
  /\ UNCHANGED <<seen, hand>>

\* Chrome (external) comes up with its profile to itself, or hands over to the one that has it.
ChromeStarts(c) ==
  /\ chrome[c] = "starting"
  /\ IF \E d \in Chromes : Up(d)
     THEN chrome' = [chrome EXCEPT ![c] = "gone"] /\ UNCHANGED files
     ELSE /\ chrome' = [chrome EXCEPT ![c] = "up"]
          /\ files' = IF \E e \in Engines : child[e] = c /\ at[e] = "waitown"
                      THEN [files EXCEPT !.own = c] ELSE files
  /\ UNCHANGED <<child, at, link, seen, tabVars, hand, chfaults>>

ConnectLink(e) ==
  /\ at[e] = "connect"
  /\ IF Up(link[e]) THEN at' = [at EXCEPT ![e] = "sweep"] /\ UNCHANGED link
                    ELSE at' = [at EXCEPT ![e] = "off"] /\ link' = [link EXCEPT ![e] = NoChrome]
  /\ UNCHANGED <<chromeVars, seen, tabVars, hand, chfaults>>

-----------------------------------------------------------------------------
\* Tabs nobody is attached to: closed when an engine starts.

HasSession(t) == t \in Tabs /\ session[t]
IsOrphan(t) == Exists(t) /\ ~HasSession(t)

SweepAsks(e) ==
  /\ at[e] = "sweep"
  /\ seen' = [seen EXCEPT ![e] = {t \in Targets : IsOrphan(t)}]
  /\ at' = [at EXCEPT ![e] = "sweeping"]
  /\ UNCHANGED <<chromeVars, link, tabVars, hand, chfaults>>

\* Chrome closes targets: an engine attached to one destroys its window when it hears of it.
ClosesTargets(ts) ==
  /\ target' = [t \in Targets |-> IF t \in ts /\ Exists(t) THEN "closed" ELSE target[t]]
  /\ session' = [t \in Tabs |-> session[t] /\ t \notin ts]
  /\ tabWindow' = [t \in Tabs |-> IF t \in ts /\ tabWindow[t] = "open" THEN "closed" ELSE tabWindow[t]]
  /\ step' = [t \in Tabs |-> IF t \in ts THEN "failed" ELSE step[t]]

SweepCloses(e) ==
  /\ at[e] = "sweeping"
  /\ ClosesTargets(seen[e])
  /\ seen' = [seen EXCEPT ![e] = {}]
  /\ at' = [at EXCEPT ![e] = "on"]
  /\ UNCHANGED <<chromeVars, link, hand, chfaults>>

\* The tab was opened from outside, as far as an engine can tell.
IsForeignTab(t) == target[t] = "page" /\ ~HasSession(t)

\* Every engine hears of it and asks Chrome to close it.
HearForeignTab(e, t) ==
  /\ Linked(e) /\ IsForeignTab(t) /\ t \notin foreign[e]
  /\ foreign' = [foreign EXCEPT ![e] = @ \cup {t}]
  /\ UNCHANGED <<chromeVars, at, link, seen, tabVars, handed, missed, chfaults>>

\* A forward that does not look whether its close succeeded.
ForwardsAnyway(e, t) ==
  /\ Linked(e) /\ t \in foreign[e]
  /\ foreign' = [foreign EXCEPT ![e] = @ \ {t}] /\ handed' = [handed EXCEPT ![t] = @ + 1]
  /\ ClosesTargets({t} \cap {u \in Targets : Exists(u)})
  /\ UNCHANGED <<chromeVars, at, link, seen, missed, chfaults>>

\* The one whose close succeeds hands the url on.
ForwardForeignTab(e, t) ==
  /\ Linked(e) /\ t \in foreign[e]
  /\ foreign' = [foreign EXCEPT ![e] = @ \ {t}]
  /\ handed' = [handed EXCEPT ![t] = IF Exists(t) THEN @ + 1 ELSE @]
  /\ ClosesTargets({t} \cap {u \in Targets : Exists(u)})
  /\ UNCHANGED <<chromeVars, at, link, seen, missed, chfaults>>

\* External: macOS routes a url open to this Chrome.
OutsideOpens(t) ==
  /\ target[t] = "none" /\ \E c \in Chromes : Up(c)
  /\ target' = [target EXCEPT ![t] = "page"]
  /\ UNCHANGED <<chromeVars, at, link, seen, tabWindow, step, session, hand, chfaults>>

-----------------------------------------------------------------------------
\* An engine's own tabs. The window is there at once; its target takes two round trips.

NewTarget(t) ==
  /\ tabWindow[t] = "none" /\ at[OwnerOf[t]] = "on"
  /\ tabWindow' = [tabWindow EXCEPT ![t] = "open"] /\ step' = [step EXCEPT ![t] = "create"]
  /\ UNCHANGED <<chromeVars, at, link, seen, target, session, hand, chfaults>>

ChromeCreates(t) ==
  /\ step[t] = "create"
  /\ target' = [target EXCEPT ![t] = "blank"] /\ step' = [step EXCEPT ![t] = "created"]
  /\ UNCHANGED <<chromeVars, at, link, seen, tabWindow, session, hand, chfaults>>

\* The answer: a window closed meanwhile takes its target along.
AdoptTarget(t) ==
  /\ step[t] = "created"
  /\ IF tabWindow[t] = "closed"
     THEN target' = [target EXCEPT ![t] = "closed"] /\ step' = [step EXCEPT ![t] = "failed"]
     ELSE step' = [step EXCEPT ![t] = "attach"] /\ UNCHANGED target
  /\ UNCHANGED <<chromeVars, at, link, seen, tabWindow, session, hand, chfaults>>

ChromeAttaches(t) ==
  /\ step[t] = "attach"
  /\ step' = [step EXCEPT ![t] = "attached"] /\ session' = [session EXCEPT ![t] = TRUE]
  /\ UNCHANGED <<chromeVars, at, link, seen, tabWindow, target, hand, chfaults>>

Initialize(t) ==
  /\ step[t] = "attached"
  /\ step' = [step EXCEPT ![t] = "ready"]
  /\ UNCHANGED <<chromeVars, at, link, seen, tabWindow, target, session, hand, chfaults>>

LoadURL(t) ==
  /\ step[t] = "ready" /\ target[t] = "blank" /\ tabWindow[t] = "open"
  /\ target' = [target EXCEPT ![t] = "page"]
  /\ UNCHANGED <<chromeVars, at, link, seen, tabWindow, step, session, hand, chfaults>>

\* Closing a window closes its target if its id is known by then.
ClosesOwn(ts) ==
  LET known == {t \in ts : step[t] = "ready"} IN
    /\ missed' = missed \cup {t \in ts : step[t] \in {"attach", "attached"}}
    /\ tabWindow' = [t \in Tabs |-> IF t \in ts THEN "closed" ELSE tabWindow[t]]
    /\ target' = [t \in Targets |-> IF t \in known THEN "closed" ELSE target[t]]
    /\ session' = [t \in Tabs |-> session[t] /\ t \notin known]

CloseTarget(t) ==
  /\ tabWindow[t] = "open" /\ at[OwnerOf[t]] = "on"
  /\ ClosesOwn({t})
  /\ UNCHANGED <<chromeVars, at, link, seen, step, foreign, handed, chfaults>>

-----------------------------------------------------------------------------
\* The pane quits: its tabs, then Chrome itself if no page has anyone attached.

StopEngine(e) ==
  /\ at[e] = "on"
  /\ at' = [at EXCEPT ![e] = "stopping"]
  /\ ClosesOwn({t \in Tabs : OwnerOf[t] = e /\ tabWindow[t] = "open"})
  /\ UNCHANGED <<chromeVars, link, seen, step, foreign, handed, chfaults>>

StopAsks(e) ==
  /\ at[e] = "stopping"
  /\ seen' = [seen EXCEPT ![e] = {t \in Targets : Exists(t) /\ HasSession(t)}]
  /\ at' = [at EXCEPT ![e] = "asked"]
  /\ UNCHANGED <<chromeVars, link, tabVars, hand, chfaults>>

StopEnds(e) ==
  /\ at[e] = "asked"
  /\ seen' = [seen EXCEPT ![e] = {}]
  /\ IF seen[e] = {}
     THEN ChromeGone(link[e]) /\ UNCHANGED <<files, child>>
     ELSE /\ at' = [at EXCEPT ![e] = "stopped"] /\ link' = [link EXCEPT ![e] = NoChrome]
          /\ TabsLose({e}) /\ UNCHANGED <<chromeVars, target>>
  /\ UNCHANGED <<hand, chfaults>>

-----------------------------------------------------------------------------
\* Faults.

ChromeDies(c) ==
  /\ Up(c) /\ chfaults < MaxFaults /\ chfaults' = chfaults + 1
  /\ ChromeGone(c)
  /\ UNCHANGED <<files, child, seen, hand>>

\* The socket closes, or with it the whole pane: the backend forgets the engine.
LinkDrops(e, to) ==
  /\ Linked(e) /\ chfaults < MaxFaults /\ chfaults' = chfaults + 1
  /\ at' = [at EXCEPT ![e] = to] /\ link' = [link EXCEPT ![e] = NoChrome]
  /\ seen' = [seen EXCEPT ![e] = {}]
  /\ TabsLose({e})
  /\ UNCHANGED <<chromeVars, target, hand>>

ForgetEngine(e) == at[e] \notin {"stopping", "asked"} /\ LinkDrops(e, "off")
PaneKilled(e) == LinkDrops(e, "killed")

StartStep(e) ==
  ProbeFinds(e) \/ ProbeFails(e) \/ Launch(e) \/ Relaunch(e) \/ WaitFinds(e) \/ WaitGivesUp(e)
    \/ ConnectLink(e) \/ SweepAsks(e) \/ SweepCloses(e)

TabStep(t) ==
  ChromeCreates(t) \/ AdoptTarget(t) \/ ChromeAttaches(t) \/ Initialize(t) \/ LoadURL(t)

StopStep(e) == StopAsks(e) \/ StopEnds(e)

SharedNext ==
  \/ \E e \in Engines :
       EnsureEngine(e) \/ StartStep(e) \/ StopEngine(e) \/ StopStep(e) \/ ForgetEngine(e) \/ PaneKilled(e)
  \/ \E e \in Engines, t \in Targets : HearForeignTab(e, t) \/ ForwardForeignTab(e, t)
  \/ \E t \in Outside : OutsideOpens(t)
  \/ \E t \in Tabs : NewTarget(t) \/ TabStep(t) \/ CloseTarget(t)
  \/ \E c \in Chromes : ChromeStarts(c) \/ ChromeDies(c)

\* Timers, sockets and Chrome go on by themselves; panes, links and Chrome's end do not.
SharedFairness ==
  /\ \A e \in Engines : /\ WF_sharedVars(StartStep(e) \/ StopStep(e))
                         /\ WF_sharedVars(\E t \in Targets : HearForeignTab(e, t) \/ ForwardForeignTab(e, t))
  /\ \A t \in Tabs : WF_sharedVars(TabStep(t))
  /\ WF_sharedVars(\E c \in Chromes : ChromeStarts(c))

SharedSpec == SharedInit /\ [][SharedNext]_sharedVars /\ SharedFairness

-----------------------------------------------------------------------------
SharedTypeOK ==
  /\ chrome \in [Chromes -> {"none", "starting", "up", "gone"}]
  /\ files \in [own : Chromes \cup {NoChrome}, picked : Chromes \cup {NoChrome}]
  /\ at \in [Engines -> EngineStages]
  /\ child \in [Engines -> Chromes \cup {NoChrome}] /\ link \in [Engines -> Chromes \cup {NoChrome}]
  /\ seen \in [Engines -> SUBSET Targets] /\ foreign \in [Engines -> SUBSET Targets]
  /\ tabWindow \in [Tabs -> {"none", "open", "closed"}]
  /\ step \in [Tabs -> {"idle", "create", "created", "attach", "attached", "ready", "failed"}]
  /\ target \in [Targets -> {"none", "blank", "page", "closed"}] /\ session \in [Tabs -> BOOLEAN]
  /\ handed \in [Targets -> Nat] /\ missed \subseteq Tabs /\ chfaults \in 0 .. MaxFaults

\* A url opened from outside reaches the user's Chrome once, however many panes hear of it.
UrlOpensOnce == \A t \in Targets : handed[t] <= 1

\* A tab its pane has closed is closed in Chrome, except where the close came between the making
\* of the target and the pane's learning its id.
ClosedIsClosed ==
  \A t \in Tabs \ missed :
    tabWindow[t] = "closed" /\ step[t] \in {"attach", "attached", "ready"} => ~Exists(t)

\* The last pane to quit takes Chrome with it.
LastClosesChrome ==
  (\A e \in Engines : at[e] = "stopped") /\ missed = {}
    => ~\E c \in Chromes : Up(c)

\* A pane that asks for Chrome is told: it has it, or the start failed.
StartSettles == \A e \in Engines : []<>(at[e] \notin EngineStarting)

\* A tab that was asked for is there in the end, or given up.
TabSettles == \A t \in Tabs : []<>(step[t] \in {"idle", "ready", "failed"})

\* What the code's comment says of it: a target that arrives for a closed tab is closed.
ClosedLeavesNothing ==
  \A t \in Tabs : tabWindow[t] = "closed" /\ step[t] = "ready" /\ at[OwnerOf[t]] = "on" => ~Exists(t)

\* What is handed to the user's own Chrome was opened from outside.
OutsideOnlyIsHanded == \A t \in Tabs : handed[t] = 0

\* The sweep of a starting engine leaves the tabs of living panes alone.
SweepSparesLiving ==
  [][\A e \in Engines, t \in Tabs :
       SweepCloses(e) /\ tabWindow[t] = "open" /\ Linked(OwnerOf[t]) => tabWindow'[t] = "open"]_sharedVars

\* A pane that quits leaves the tabs of other panes alone.
QuitSparesOthers ==
  [][\A e \in Engines, t \in Tabs :
       StopEnds(e) /\ tabWindow[t] = "open" /\ OwnerOf[t] # e => tabWindow'[t] = "open"]_sharedVars

\* Nobody gives up on Chrome while the profile's Chrome runs.
RunningIsFound ==
  [][\A e \in Engines : at[e] = "waitown" /\ WaitGivesUp(e) => ~\E c \in Chromes : Up(c)]_sharedVars
====
