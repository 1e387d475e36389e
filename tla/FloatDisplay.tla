---------------------------- MODULE FloatDisplay ----------------------------
\* Floating a pane's page into an OS window (src/electron/main.cjs toggleFloat,
\* openDisplayWindow, applySurfacePlan; float-display.cjs).  The page's own window stays
\* hidden; a viewer window draws its frames and relays input.  In fullscreen on a coarser
\* monitor the page's surface is shrunk and its zoom makes up for it.  One set of
\* fullscreen variables serves every pane of the process.
EXTENDS FiniteSets, FiniteSetsExt, Integers

CONSTANTS FloatPanes,  \* panes of the process
          PagesOf,     \* pane -> its tabs
          ScaleShrinks,\* the monitor a fullscreen viewer lands on is coarser than the page's surface
          FloatScenes  \* what may happen, how often

ASSUME FloatAssumption == /\ \A p \in FloatPanes : PagesOf[p] # {}
                          /\ \A p, q \in FloatPanes : p # q => PagesOf[p] \cap PagesOf[q] = {}
                          /\ ScaleShrinks \in BOOLEAN

VARIABLES floatTab,     \* pane -> the tab it shows
          floatOf,      \* pane -> inputState().floating
          onScreen,     \* pane -> whether its terminal shows it
          floatingTabs, \* tabs with a viewer
          viewer,       \* tab -> its viewer window
          full,         \* fullscreenFloat, fullscreenSize, fullscreenScale
          surface,      \* tab -> its hidden window's size, and whether it is shrunk
          zoomed,       \* tab -> whether its zoom makes up for a shrunk surface
          osFocus,      \* which window has OS focus
          crossed,      \* history: panes that floated when another's step wrote the
                        \* fullscreen variables
          floatSpend
floatVars ==
  <<floatTab, floatOf, onScreen, floatingTabs, viewer, full, surface, zoomed, osFocus, crossed,
    floatSpend>>

Pages == UNION {PagesOf[p] : p \in FloatPanes}
PaneOf(t) == CHOOSE p \in FloatPanes : t \in PagesOf[p]
ViewerStates == {"none", "loading", "shown", "entering", "full", "leaving"}
NotFull == [on |-> FALSE, sized |-> FALSE, shrunk |-> FALSE]
FloatSpend(what) == floatSpend[what] > 0 /\ floatSpend' = [floatSpend EXCEPT ![what] = @ - 1]

\* The variables as a record, for the steps that make several changes in a row.
Now == [shown |-> floatTab, float |-> floatOf, seen |-> onScreen, tabs |-> floatingTabs,
        viewer |-> viewer, full |-> full, surface |-> surface, zoom |-> zoomed]
Becomes(s) == /\ floatTab' = s.shown /\ floatOf' = s.float /\ onScreen' = s.seen
              /\ floatingTabs' = s.tabs /\ viewer' = s.viewer /\ full' = s.full
              /\ surface' = s.surface /\ zoomed' = s.zoom

\* Every tab is compensated.
ZoomsAll(s, t) == s.full.shrunk

\* effectiveZoomFactor: only a floating tab is compensated, while anything is shrunk.
EffectiveZoom(s, t) == s.full.shrunk /\ t \in s.tabs

\* setContentSize and the zoom Chromium resets with it.
Sized(s, t, size) ==
    IF s.surface[t] = size THEN s
    ELSE [s EXCEPT !.surface[t] = size, !.zoom[t] = EffectiveZoom(s, t)]

\* applyFullscreenSurface, whose resize is unconditional.
FullscreenSurface(s, t, base) ==
    [s EXCEPT !.surface[t] = [base |-> base, shrunk |-> s.full.shrunk], !.zoom[t] = EffectiveZoom(s, t)]

\* surfacePlan and applySurfacePlan of one tab: its viewer opens or goes, and its surface
\* is the fullscreen monitor's, the pane's, or one line high when nothing shows it.
Planned(s, p, t) ==
    LET floating == t = s.shown[p] /\ s.float[p]
        painting == floating \/ (t = s.shown[p] /\ s.seen[p])
        opened == IF floating /\ t \notin s.tabs
                  THEN [s EXCEPT !.tabs = @ \cup {t}, !.viewer[t] = "loading"]
                  ELSE IF ~floating /\ t \in s.tabs
                  THEN [s EXCEPT !.tabs = @ \ {t}, !.viewer[t] = "none"] ELSE s
        base == IF ~painting THEN "line"
                ELSE IF floating /\ s.full.on /\ s.full.sized THEN "full" ELSE "pane"
    IN Sized(opened, t, [base |-> base, shrunk |-> floating /\ s.full.shrunk])

\* updatePaintingState, tab by tab: what is done to one changes nothing of another.
UpdatePainting(s, p) ==
    LET done(t) == IF t \in PagesOf[p] THEN Planned(s, p, t) ELSE s
    IN [s EXCEPT !.tabs = {t \in Pages : t \in done(t).tabs},
                 !.viewer = [t \in Pages |-> done(t).viewer[t]],
                 !.surface = [t \in Pages |-> done(t).surface[t]],
                 !.zoom = [t \in Pages |-> done(t).zoom[t]]]

------------------------------------------------------------------------------

FloatInit ==
    /\ floatTab = [p \in FloatPanes |-> CHOOSE t \in PagesOf[p] : TRUE]
    /\ floatOf = [p \in FloatPanes |-> FALSE] /\ onScreen = [p \in FloatPanes |-> TRUE]
    /\ floatingTabs = {} /\ viewer = [t \in Pages |-> "none"] /\ full = NotFull
    /\ surface = [t \in Pages |-> [base |-> IF t = floatTab[PaneOf(t)] THEN "pane"
                                            ELSE "line", shrunk |-> FALSE]]
    /\ zoomed = [t \in Pages |-> FALSE] /\ osFocus = "terminal"
    /\ crossed = {}
    /\ floatSpend \in FloatScenes

\* toggleFloat: `w`, the agent's float and pin, and the fullscreen key on a pane that
\* does not float.  Focus comes back by hiding the process, unless it was fullscreen.
ToggleFloat(p, fullscreen, restoreFocus) ==
    LET on == ~floatOf[p]
        s == [Now EXCEPT !.float[p] = on,
                         !.full = IF on /\ fullscreen THEN [@ EXCEPT !.on = TRUE]
                                  ELSE IF on THEN [@ EXCEPT !.on = FALSE, !.shrunk = FALSE] ELSE NotFull]
    IN /\ Becomes(UpdatePainting(s, p))
       /\ osFocus' = IF on \/ ~restoreFocus THEN osFocus
                     ELSE IF full.on THEN (IF osFocus = "viewer" THEN "none" ELSE osFocus) ELSE "terminal"

ToggleKey(p) == FloatSpend("toggles") /\ ToggleFloat(p, FALSE, TRUE)
AgentPins(p) == FloatSpend("toggles") /\ floatOf[p] /\ ToggleFloat(p, FALSE, FALSE)

\* The toggle-fullscreen action: on a viewer that is up it flips that window.
ToggleFullscreenKey(p) ==
    /\ FloatSpend("toggles")
    /\ LET t == floatTab[p]
       IN IF ~floatOf[p] THEN ToggleFloat(p, TRUE, TRUE)
          ELSE /\ viewer' = [viewer EXCEPT ![t] = CASE @ = "shown" -> "entering"
                                                     [] @ = "full" -> "leaving" [] OTHER -> @]
               /\ UNCHANGED <<floatTab, floatOf, onScreen, floatingTabs, full, surface, zoomed, osFocus>>

\* The viewer's page loaded: it is shown, taking focus, or goes fullscreen without it.
ViewerLoads(t) ==
    /\ viewer[t] = "loading"
    /\ viewer' = [viewer EXCEPT ![t] = IF full.on THEN "entering" ELSE "shown"]
    /\ osFocus' = IF full.on THEN osFocus ELSE "viewer"
    /\ UNCHANGED <<floatTab, floatOf, onScreen, floatingTabs, full, surface, zoomed, floatSpend>>

EnterFullScreen(t) ==
    /\ viewer[t] = "entering"
    /\ Becomes(FullscreenSurface([Now EXCEPT !.viewer[t] = "full",
                                    !.full = [on |-> TRUE, sized |-> TRUE, shrunk |-> ScaleShrinks]], t, "full"))
    /\ UNCHANGED <<osFocus, floatSpend>>

LeaveFullScreen(t) ==
    /\ viewer[t] = "leaving"
    /\ Becomes(UpdatePainting([Now EXCEPT !.viewer[t] = "shown", !.full = NotFull], PaneOf(t)))
    /\ UNCHANGED <<osFocus, floatSpend>>

\* "tweb-float-resized": the user drags the viewer's edge.
ViewerResized(t) ==
    /\ viewer[t] = "shown" /\ t \in floatingTabs /\ FloatSpend("resizes")
    /\ Becomes(FullscreenSurface(Now, t, "window")) /\ UNCHANGED osFocus

\* The user closes the viewer: it means pin.
ViewerClosed(t) ==
    /\ viewer[t] # "none" /\ FloatSpend("closes")
    /\ Becomes(UpdatePainting([Now EXCEPT !.viewer[t] = "none", !.tabs = @ \ {t}, !.full = NotFull,
                                          !.float[PaneOf(t)] = FALSE], PaneOf(t)))
    /\ osFocus' = IF ~full.on THEN "terminal" ELSE IF osFocus = "viewer" THEN "none" ELSE osFocus

ShowTab(p, t) ==
    /\ t \in PagesOf[p] \ {floatTab[p]} /\ FloatSpend("cycles")
    /\ LET s == UpdatePainting([Now EXCEPT !.shown[p] = t], p)
       IN Becomes([s EXCEPT !.zoom[t] = EffectiveZoom(s, t)])
    /\ UNCHANGED osFocus

\* A navigation ends: the zoom is set again.
PageLoads(t) ==
    /\ FloatSpend("loads") /\ Becomes([Now EXCEPT !.zoom[t] = EffectiveZoom(Now, t)])
    /\ UNCHANGED osFocus

TerminalShows(p) ==
    /\ FloatSpend("reveals")
    /\ Becomes(UpdatePainting([Now EXCEPT !.seen[p] = ~@], p)) /\ UNCHANGED osFocus

\* The watchdog, once a second.
SurfaceTick(p) == Becomes(UpdatePainting(Now, p)) /\ UNCHANGED <<osFocus, floatSpend>>

\* History: a step of pane p's that writes the fullscreen variables writes them for every
\* pane that floats.
Crosses(p) ==
    crossed' = crossed \cup IF full' = full THEN {} ELSE {q \in FloatPanes \ {p} : floatOf[q]}

PaneSteps(p) ==
    \/ ToggleKey(p) \/ AgentPins(p) \/ ToggleFullscreenKey(p) \/ TerminalShows(p) \/ SurfaceTick(p)
    \/ \E t \in PagesOf[p] : \/ ShowTab(p, t) \/ ViewerLoads(t) \/ EnterFullScreen(t)
                             \/ LeaveFullScreen(t) \/ ViewerResized(t) \/ ViewerClosed(t)
                             \/ PageLoads(t)

FloatNext == \E p \in FloatPanes : PaneSteps(p) /\ Crosses(p)

FloatSpec == FloatInit /\ [][FloatNext]_floatVars
------------------------------------------------------------------------------

FloatTypeOK ==
    /\ \A p \in FloatPanes : floatTab[p] \in PagesOf[p]
    /\ viewer \in [Pages -> ViewerStates]
    /\ osFocus \in {"terminal", "viewer", "none"}

\* A floating pane has one viewer, of the tab it shows, and no tab has one otherwise, through
\* the tab switches, pins, closes and late window events of every pane of the process.
OneViewerPerFloat ==
    /\ floatingTabs = {floatTab[p] : p \in {q \in FloatPanes : floatOf[q]}}
    /\ floatingTabs = {t \in Pages : viewer[t] # "none"}

\* A shrunk surface and the zoom that makes up for it come and go together, and the same
\* factor is in force for the clicks the viewer relays (scaleRelayInput): otherwise the
\* page is laid out, or clicked, at a fraction of its size.  A pane whose float another pane
\* went into or out of fullscreen beside has lost that: the factor is the other's from then.
ShrinkMatchesZoom(t) == zoomed[t] = surface[t].shrunk
ClicksMatchShrink(t) == t \in floatingTabs => surface[t].shrunk = full.shrunk

ShrinkIsMadeUpFor ==
    \A p \in FloatPanes \ crossed : \A t \in PagesOf[p] : ShrinkMatchesZoom(t) /\ ClicksMatchShrink(t)

\* A viewer in fullscreen draws a surface of the monitor's size; one in a window never does
\* (updatePaintingState runs every second and would put the pane's size back), but for the
\* panes another one's fullscreen was written over.
SizeMatchesViewer(t) ==
    /\ viewer[t] = "full" => surface[t].base = "full"
    /\ viewer[t] = "shown" => surface[t].base # "full"

FullscreenIsFullSize ==
    \A p \in FloatPanes \ crossed : \A t \in PagesOf[p] \cap floatingTabs : SizeMatchesViewer(t)

\* With no viewer left OS focus is not stranded (restoreFocusFromFloat).
FocusComesBack == floatingTabs = {} => osFocus # "none"

\* A viewer the user resized keeps its page at that size ("tweb-float-resized").
ResizeHolds == [][\A p \in FloatPanes : SurfaceTick(p) => \A t \in Pages :
                    surface[t].base = "window" => surface'[t].base = "window"]_floatVars
=============================================================================
