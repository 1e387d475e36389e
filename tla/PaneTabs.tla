------------------------------ MODULE PaneTabs ------------------------------
\* The tabs of the panes one hosted engine process serves (src/electron/main.cjs):
\* each pane's list and shown tab (pane-windows.cjs), opening, closing and restoring a
\* tab, moving a tab to another page engine (switchTabEngine), and rebuilding every tab
\* of an engine whose link died (rebuildLostTabs).  A move awaits twice, the engine and
\* then its page, and everything else may happen in between.
EXTENDS Integers, Sequences, FiniteSets, SequencesExt, FiniteSetsExt

CONSTANTS Panes,       \* the panes the process serves at first, naturals
          TabIds,      \* windows that may ever be made, naturals
          JobIds,      \* moves and openings that may be in flight, naturals
          OtherEngines,\* page engines beside Electron: "chrome", "webkit"
          TabScenes    \* what may happen, how often: a set of records of bounds

NoTab == 0
Engines == {"electron"} \cup OtherEngines
ASSUME TabsAssumption == /\ OtherEngines \subseteq {"chrome", "webkit"}
                         /\ TabIds \subseteq Nat \ {NoTab} /\ JobIds \subseteq Nat \ {0}

VARIABLES ui,      \* panes and their windows; for the properties, the pages the user closed
                   \* ("unwanted") or moved on while they were being moved ("touched")
          jobs,    \* moves and openings waiting for an engine or its page
          engines, \* engine -> whether it runs, and whether it was lost within a minute
          tabSpend \* how much of the scene is left
tabsVars == <<ui, jobs, engines, tabSpend>>

NoWindows == [tabs |-> <<>>, win |-> NoTab, active |-> 0, closedTabs |-> <<>>]
NoWindow == [pane |-> NoTab, engine |-> "", page |-> NoTab, life |-> "none"]
NoJob == [kind |-> "none", tab |-> NoTab, pane |-> NoTab, engine |-> "", next |-> NoTab, back |-> ""]
Alive(u, t) == t # NoTab /\ u.tab[t].life \notin {"none", "gone"}
PlaceIn(w, t) == IF t \in Range(w.tabs) THEN CHOOSE i \in DOMAIN w.tabs : w.tabs[i] = t ELSE 0
Spend(what) == tabSpend[what] > 0 /\ tabSpend' = [tabSpend EXCEPT ![what] = @ - 1]

------------------------------------------------------------------------------
\* A pane's list.

\* activateTab: an index counts round the list.
Activate(w, i) == LET k == ((i - 1) % Len(w.tabs)) + 1 IN [w EXCEPT !.active = k, !.win = w.tabs[k]]

\* adoptTab: at a place inside the list, or at its end; a tab put in at or before the
\* shown one moves its index along.
Insert(w, t, at, activate) ==
    LET inside == at \in DOMAIN w.tabs
        put == IF inside THEN [w EXCEPT !.tabs = InsertAt(@, at, t),
                                        !.active = IF ~activate /\ at <= @ THEN @ + 1 ELSE @]
               ELSE [w EXCEPT !.tabs = Append(@, t)]
    IN IF activate THEN Activate(put, PlaceIn(put, t)) ELSE put

\* The list part of adoptTab's "closed" handler.
Removed(w, t) ==
    LET k == PlaceIn(w, t)
        left == [w EXCEPT !.tabs = RemoveAt(@, k)]
    IN IF left.tabs = <<>> THEN [left EXCEPT !.win = NoTab, !.active = 0]
       ELSE IF t = w.win THEN Activate(left, Min({k, Len(left.tabs)}))
       ELSE IF k < w.active THEN [left EXCEPT !.active = @ - 1] ELSE left

------------------------------------------------------------------------------
\* Windows.

\* closePaneOnce: the pane's windows are destroyed and its registration dropped.
WithoutPane(u, p) ==
    [u EXCEPT !.open = @ \ {p}, !.pane[p] = NoWindows,
              !.tab = [t \in TabIds |-> IF u.tab[t].pane = p /\ Alive(u, t)
                                        THEN [u.tab[t] EXCEPT !.life = "gone"] ELSE u.tab[t]]]

\* A pane out of tabs closes; the process's only pane takes the process with it.
LastTabClosed(u, p) ==
    IF Cardinality(u.open) > 1 THEN WithoutPane(u, p) ELSE [u EXCEPT !.quit = TRUE]

\* adoptTab's "closed" handler.
TabClosed(u, t) ==
    LET p == u.tab[t].pane
        gone == [u EXCEPT !.tab[t].life = "gone"]
        w == Removed(u.pane[p], t)
    IN IF PlaceIn(u.pane[p], t) = 0 THEN gone
       ELSE IF w.tabs # <<>> THEN [gone EXCEPT !.pane[p] = w]
       ELSE LastTabClosed([gone EXCEPT !.pane[p] = w], p)

\* window.close(): a Chrome tab is gone at once, the others tell later.
CloseWindow(u, t) ==
    IF u.tab[t].engine = "chrome" THEN TabClosed(u, t) ELSE [u EXCEPT !.tab[t].life = "closing"]

\* closeTab: the last tab closes the pane itself.
CloseTab(u, p, i) ==
    LET t == u.pane[p].tabs[i]
        kept == [u EXCEPT !.pane[p].closedTabs = Append(@, u.tab[t].engine),
                          !.unwanted = @ \cup {u.tab[t].page}]
    IN IF Len(u.pane[p].tabs) = 1 THEN LastTabClosed(kept, p) ELSE CloseWindow(kept, t)

Unused(u) == {t \in TabIds : u.tab[t].life = "none"}
HasRoom == Unused(ui) # {}  \* bounds the windows made

\* createTab on a started engine; `page` is the page of the tab it replaces.
CreateTab(u, p, engine, activate, at, page) ==
    LET t == Min(Unused(u))
    IN [u EXCEPT !.tab[t] = [pane |-> p, engine |-> engine, life |-> "open",
                             page |-> IF page = NoTab THEN t ELSE page],
                 !.pane[p] = Insert(@, t, at, activate)]

------------------------------------------------------------------------------
\* Jobs.

Started(e) == IF e = "electron" THEN TRUE ELSE engines[e].up
EnsureEngine(e) == IF e = "electron" THEN engines ELSE [engines EXCEPT ![e].up = TRUE]
Idle == {j \in JobIds : jobs[j] = NoJob}

MoveJob(t, e, back) == [NoJob EXCEPT !.kind = "move", !.tab = t, !.engine = e, !.back = back]

\* A move that comes to nothing is nobody's business.
GivesUp(j, u) == jobs' = [jobs EXCEPT ![j] = NoJob]

\* The outcome null of a move: only a rebuild goes on, to Electron.
CouldNotMove(j, u) ==
    jobs' = [jobs EXCEPT ![j] = IF jobs[j].back # "" /\ Alive(u, jobs[j].tab)
                                THEN MoveJob(jobs[j].tab, jobs[j].back, "") ELSE NoJob]

------------------------------------------------------------------------------

TabsInit ==
    /\ LET first == [p \in Panes |-> CHOOSE t \in TabIds : t = Cardinality({q \in Panes : q <= p})]
       IN ui = [pane |-> [p \in Panes |-> [NoWindows EXCEPT !.tabs = <<first[p]>>, !.win = first[p], !.active = 1]],
                tab |-> [t \in TabIds |-> IF \E p \in Panes : first[p] = t
                           THEN [pane |-> CHOOSE p \in Panes : first[p] = t, engine |-> "electron",
                                 page |-> t, life |-> "open"]
                           ELSE NoWindow],
                open |-> Panes, quit |-> FALSE, unwanted |-> {}, touched |-> {}]
    /\ jobs = [j \in JobIds |-> NoJob]
    /\ engines = [e \in OtherEngines |-> [up |-> FALSE, lost |-> FALSE]]
    /\ tabSpend \in TabScenes

\* openTabRouted: on the engine of the tab it comes from, or on the one the url is pinned
\* to, once that engine runs.
OpenTabRouted(p, e) ==
    /\ p \in ui.open /\ ui.pane[p].win # NoTab /\ HasRoom
    /\ Spend("opens") /\ UNCHANGED engines
    /\ LET from == ui.tab[ui.pane[p].win].engine
       IN IF e = from /\ Started(e)
          THEN ui' = CreateTab(ui, p, e, TRUE, 0, NoTab) /\ UNCHANGED jobs
          ELSE /\ UNCHANGED ui
               /\ jobs' = [jobs EXCEPT ![Min(Idle)] =
                             [NoJob EXCEPT !.kind = "open", !.pane = p, !.engine = e, !.back = from]]

\* restoreClosedTab: on the engine the tab had.
RestoreClosedTab(p) ==
    /\ p \in ui.open /\ ui.pane[p].win # NoTab /\ ui.pane[p].closedTabs # <<>> /\ HasRoom
    /\ Spend("opens")
    /\ LET e == Last(ui.pane[p].closedTabs)
           u == [ui EXCEPT !.pane[p].closedTabs = Front(@)]
       IN IF e = "electron"
          THEN ui' = CreateTab(u, p, e, TRUE, 0, NoTab) /\ UNCHANGED jobs
          ELSE /\ ui' = u
               /\ jobs' = [jobs EXCEPT ![Min(Idle)] =
                             [NoJob EXCEPT !.kind = "open", !.pane = p, !.engine = e, !.back = "electron"]]
    /\ UNCHANGED engines

\* A page opens a window with an opener (setWindowOpenHandler, "did-create-window"): a tab
\* on the opener's engine, shown unless it was asked for in the background.
WindowOpens(t, activate) ==
    /\ ui.tab[t].life = "open" /\ ui.tab[t].pane \in ui.open /\ HasRoom /\ Spend("opens")
    /\ ui' = CreateTab(ui, ui.tab[t].pane, ui.tab[t].engine, activate, 0, NoTab)
    /\ UNCHANGED <<jobs, engines>>

\* The awaited engine runs: createTab, in the scope of a pane that may be gone by now.
OpeningGoesOn(j) ==
    /\ jobs[j].kind = "open" /\ HasRoom
    /\ \/ ui' = CreateTab(ui, jobs[j].pane, jobs[j].engine, TRUE, 0, NoTab)
          /\ engines' = EnsureEngine(jobs[j].engine)
       \/ /\ ~Started(jobs[j].engine) /\ Started(jobs[j].back)
          /\ ui' = CreateTab(ui, jobs[j].pane, jobs[j].back, TRUE, 0, NoTab) /\ UNCHANGED engines
    /\ jobs' = [jobs EXCEPT ![j] = NoJob] /\ UNCHANGED tabSpend

\* switchTabEngine up to its first await: the badge's menu, an agent, a followed pin.
SwitchTabEngine(t, e) ==
    /\ Alive(ui, t) /\ ui.tab[t].pane \in ui.open /\ e # ui.tab[t].engine /\ Spend("moves")
    /\ jobs' = [jobs EXCEPT ![Min(Idle)] = MoveJob(t, e, "")]
    /\ ui' = [ui EXCEPT !.touched = @ \cup (IF \E j \in JobIds : jobs[j].next = t
                                              THEN {ui.tab[t].page} ELSE {})]
    /\ UNCHANGED engines

\* The engine did not start.
EngineFails(j) ==
    /\ jobs[j].kind = "move" /\ jobs[j].next = NoTab /\ ~Started(jobs[j].engine)
    /\ CouldNotMove(j, ui) /\ UNCHANGED <<ui, engines, tabSpend>>

\* The old tab closed as soon as the new one is made.
ClosesOldFirst(j) ==
    /\ jobs[j].kind = "move" /\ jobs[j].next = NoTab /\ HasRoom
    /\ PlaceIn(ui.pane[ui.tab[jobs[j].tab].pane], jobs[j].tab) # 0 /\ Alive(ui, jobs[j].tab)
    /\ LET t == jobs[j].tab p == ui.tab[t].pane
       IN ui' = CloseWindow(CreateTab(ui, p, jobs[j].engine, TRUE, PlaceIn(ui.pane[p], t), ui.tab[t].page), t)
    /\ jobs' = [jobs EXCEPT ![j].next = Min(Unused(ui))]
    /\ engines' = EnsureEngine(jobs[j].engine) /\ UNCHANGED tabSpend

\* It runs: the new tab is made in the background, where the old one is.
NextTab(j) ==
    /\ jobs[j].kind = "move" /\ jobs[j].next = NoTab /\ HasRoom
    /\ engines' = EnsureEngine(jobs[j].engine) /\ UNCHANGED tabSpend
    /\ LET t == jobs[j].tab
           p == ui.tab[t].pane
           at == PlaceIn(ui.pane[p], t)
       IN IF ~Alive(ui, t) \/ at = 0 THEN CouldNotMove(j, ui) /\ UNCHANGED ui
          ELSE /\ ui' = CreateTab(ui, p, jobs[j].engine, FALSE, at, ui.tab[t].page)
               /\ jobs' = [jobs EXCEPT ![j].next = Min(Unused(ui))]

\* The new engine has the page: the new tab is shown where the old one was, which closes.
TabMoves(j) ==
    /\ jobs[j].kind = "move" /\ jobs[j].next # NoTab /\ UNCHANGED <<engines, tabSpend>>
    /\ LET t == jobs[j].tab
           next == jobs[j].next
           p == ui.tab[next].pane
           shown == IF ui.pane[p].win = t
                    THEN [ui EXCEPT !.pane[p] = Activate(@, PlaceIn(@, next))] ELSE ui
       IN /\ ui.tab[next].life # "cut"
          /\ IF ~Alive(ui, next) THEN CouldNotMove(j, ui) /\ UNCHANGED ui
             ELSE /\ ui' = IF Alive(ui, t) THEN CloseWindow(shown, t) ELSE ui
                  /\ jobs' = [jobs EXCEPT ![j] = NoJob]

\* It has not, within ENGINE_TAB_READY_MS or at all: the new tab closes instead.
MoveFails(j) ==
    /\ jobs[j].kind = "move" /\ jobs[j].next # NoTab /\ jobs[j].engine # "electron"
    /\ ui' = IF Alive(ui, jobs[j].next) THEN CloseWindow(ui, jobs[j].next) ELSE ui
    /\ CouldNotMove(j, ui') /\ UNCHANGED <<engines, tabSpend>>

------------------------------------------------------------------------------

UserCloses(p, i) ==
    /\ p \in ui.open /\ i \in DOMAIN ui.pane[p].tabs /\ Spend("closes")
    /\ ui' = CloseTab(ui, p, i) /\ UNCHANGED <<jobs, engines>>

CycleTab(p) ==
    /\ p \in ui.open /\ Len(ui.pane[p].tabs) > 1 /\ Spend("cycles")
    /\ \E d \in {1, -1} : ui' = [ui EXCEPT !.pane[p] = Activate(@, @.active + d)]
    /\ UNCHANGED <<jobs, engines>>

\* "closed", where it was not told at once.
WindowCloses(t) ==
    /\ ui.tab[t].life = "closing"
    /\ ui' = TabClosed(ui, t) /\ UNCHANGED <<jobs, engines, tabSpend>>

\* DETACH, or the pane's window gone.
ClosePane(p) ==
    /\ p \in ui.open /\ Cardinality(ui.open) > 1 /\ Spend("kills")
    /\ ui' = [WithoutPane(ui, p) EXCEPT
                !.unwanted = @ \cup {ui.tab[t].page : t \in Range(ui.pane[p].tabs)}]
    /\ UNCHANGED <<jobs, engines>>

\* The tabs of a dead link: Chrome's are frozen; tweb-webkit's exit destroys its windows
\* before it is told (WebKitEngine.start).
Cut(u, e) ==
    IF e = "webkit"
    THEN FoldSet(LAMBDA t, v : TabClosed(v, t), u,
                 {t \in TabIds : u.tab[t].engine = e /\ Alive(u, t)})
    ELSE [u EXCEPT !.tab = [t \in TabIds |-> IF u.tab[t].engine = e /\ u.tab[t].life = "open"
                                             THEN [u.tab[t] EXCEPT !.life = "cut"] ELSE u.tab[t]]]

\* rebuildLostTabs: every tab of the lost engine that is still there, in the open panes.
LostTabs(u, e) == {t \in TabIds : Alive(u, t) /\ u.tab[t].engine = e /\ u.tab[t].pane \in u.open}

LoseEngine(e) ==
    /\ engines[e].up /\ Spend("losses")
    /\ LET u == Cut(ui, e)
           lost == SetToSeq(LostTabs(u, e))
           free == SetToSortSeq(Idle, <)
       IN /\ ui' = u
          /\ jobs' = [j \in JobIds |->
               IF \E k \in DOMAIN lost : free[k] = j
               THEN LET t == lost[CHOOSE k \in DOMAIN lost : free[k] = j]
                    IN IF engines[e].lost THEN MoveJob(t, "electron", "") ELSE MoveJob(t, e, "electron")
               ELSE jobs[j]]
    /\ engines' = [engines EXCEPT ![e] = [up |-> FALSE, lost |-> TRUE]]

LossForgotten(e) ==
    /\ engines[e].lost
    /\ engines' = [engines EXCEPT ![e].lost = FALSE] /\ UNCHANGED <<ui, jobs, tabSpend>>

TabsNext ==
    /\ ~ui.quit
    /\ \/ \E p \in Panes : \/ \E e \in Engines : OpenTabRouted(p, e)
                           \/ RestoreClosedTab(p) \/ CycleTab(p) \/ ClosePane(p)
                           \/ \E i \in 1..Len(ui.pane[p].tabs) : UserCloses(p, i)
       \/ \E t \in TabIds : \/ WindowCloses(t)
                            \/ \E activate \in BOOLEAN : WindowOpens(t, activate)
                            \/ \E e \in Engines : SwitchTabEngine(t, e)
       \/ \E j \in JobIds : \/ OpeningGoesOn(j) \/ EngineFails(j) \/ NextTab(j)
                            \/ TabMoves(j) \/ MoveFails(j)
       \/ \E e \in OtherEngines : LoseEngine(e) \/ LossForgotten(e)

TabsSpec == TabsInit /\ [][TabsNext]_tabsVars
------------------------------------------------------------------------------

TabsTypeOK ==
    /\ \A p \in Panes : /\ Range(ui.pane[p].tabs) \subseteq TabIds
                        /\ ui.pane[p].active \in 0..Len(ui.pane[p].tabs)
    /\ \A t \in TabIds : ui.tab[t].life \in {"none", "open", "cut", "closing", "gone"}
    /\ \A j \in JobIds : jobs[j].kind \in {"none", "open", "move"}

\* The tab a pane paints, types into and reports is the one its index names, through
\* every insertion, move and late "closed" event (activateTab, adoptTab).
ShownIsActive ==
    \A p \in Panes : LET w == ui.pane[p] IN
        IF w.tabs = <<>> THEN w.win = NoTab ELSE w.active \in DOMAIN w.tabs /\ w.win = w.tabs[w.active]

\* A page is never lost to a move or to an engine: until the user closes a tab of it or
\* its pane goes, an open tab shows it (switchTabEngine: "the old tab closed only once
\* the new engine has the page").
PagesAreKept ==
    \A t \in TabIds : ui.tab[t].life # "none" /\ ui.tab[t].page \notin ui.unwanted
        => \E s \in TabIds : ui.tab[s].page = ui.tab[t].page /\ ui.tab[s].life \in {"open", "cut"}

\* A tab whose engine died is on its way to another engine or a fresh one
\* (rebuildLostTabs: "Left alone, such a tab is a frozen frame ... and nothing ever
\* repairs it").  Not so when the user closes its replacement, or moves that on, before
\* the move ends: the move then has no outcome, and the frozen tab stays.
FrozenIsMoving ==
    \A t \in TabIds : ui.tab[t].life = "cut" /\ ui.tab[t].pane \in ui.open
                       /\ ui.tab[t].page \notin ui.unwanted \cup ui.touched
        => \E j \in JobIds : t \in {jobs[j].tab, jobs[j].next}

\* A pane that is gone has no tabs (closePaneOnce).
ClosedPaneIsEmpty == \A p \in Panes \ ui.open : ui.pane[p].tabs = <<>>

\* Once nothing is in flight a page is in one tab (switchTabEngine: "The tab replaced by
\* one on `engine`, at the same place").
OneTabPerPage ==
    (\A j \in JobIds : jobs[j].kind # "move") =>
        \A s, t \in {r \in TabIds : ui.tab[r].life = "open"} :
            ui.tab[s].page = ui.tab[t].page => s = t
=============================================================================
