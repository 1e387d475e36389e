--------------------------- MODULE FramePipeline ---------------------------
(***************************************************************************)
(* How a page's pixels reach the terminal (electron/main.cjs,              *)
(* frame-context.cjs, gfx-worker.cjs, patch-geometry.cjs): whole frames    *)
(* wait for their turn, go through one worker thread that all panes share  *)
(* and replace the pane's base image; small damage is written at once as a *)
(* patch over it.  Meanwhile the page changes, the pane is resized, hidden *)
(* and shown, and the user changes tabs.                                   *)
(*                                                                         *)
(* A pane is a row of columns; a page gives each a version of its content. *)
(***************************************************************************)
EXTENDS Integers, Sequences, FiniteSets

CONSTANTS
  FramePanes, Tabs,
  PaneOf,        \* the pane a tab belongs to
  FirstTab,      \* the tab each pane starts with
  Kept,          \* tabs of the Chrome engine: their last frame is kept
  FirstPane,     \* the pane main.cjs falls back to outside any pane's scope
  Width,         \* number of columns
  PatchLimit,    \* how many of them a patch may cover (PATCH_AREA_LIMIT)
  Slots,         \* patch ids of a pane (PATCH_ID_COUNT)
  RawLimit,      \* RAW_FRAME_FAILURE_LIMIT
  MaxChanges, MaxResizes, MaxSwitches, MaxFrameFaults   \* bounds

ASSUME FrameAssumption ==
  /\ PaneOf \in [Tabs -> FramePanes] /\ FirstTab \in [FramePanes -> Tabs]
  /\ \A p \in FramePanes : PaneOf[FirstTab[p]] = p
  /\ Kept \subseteq Tabs /\ FirstPane \in FramePanes
  /\ Width \in Nat /\ PatchLimit \in 0 .. Width - 1
  /\ Slots \in Nat \ {0} /\ RawLimit \in Nat \ {0}
  /\ {MaxChanges, MaxResizes, MaxSwitches, MaxFrameFaults} \subseteq Nat

VARIABLES
  page,        \* what each tab's page looks like
  dirt,        \* the columns the pane's next paint reports as damaged
  visible, active,
  gen,         \* the viewport generation
  transferred, \* imageTransferred: the terminal is taken to hold the base
  toDelete,    \* pendingImageDelete
  damage,      \* patchedDamage
  slot,        \* nextPatchSlot
  pending,     \* pendingFrame and its timer: no frame or one
  handed,      \* the generation of the frame in the worker, or none
  queued,      \* pendingGfxFrame
  cache,       \* tabFrames
  jobs,        \* the worker's messages, and its answers
  alive,       \* whether the worker thread lives
  raw, fails,  \* rawFramesEnabled, rawFrameFailures
  layers,      \* the terminal: images placed in the pane, each over others
  stored,      \* the terminal: the base image's data
  lost,        \* history: the pane's last whole frame never got out
  crossed,     \* history: patched while a whole frame was with the worker,
               \* and no whole frame since
  used         \* for the bounds

pageVars == <<page, dirt, visible, active>>
framePaneVars == <<gen, transferred, toDelete, damage, slot, pending, handed, queued>>
workVars == <<jobs, alive, raw, fails>>
termVars == <<layers, stored, lost, crossed>>
vars == <<pageVars, framePaneVars, cache, workVars, termVars, used>>

Columns == 1 .. Width
Base == 0
Ids == 0 .. Slots
Looks == [Columns -> Nat]
Frames == [tab : Tabs, pix : Looks, gen : Nat]
Encoded == [tab : Tabs, pix : Looks, gen : Nat, raw : BOOLEAN]

FramesInit ==
  /\ page = [t \in Tabs |-> [c \in Columns |-> 0]]
  /\ dirt = [p \in FramePanes |-> Columns]
  /\ visible = [p \in FramePanes |-> TRUE]
  /\ active = FirstTab
  /\ gen = [p \in FramePanes |-> 0]
  /\ transferred = [p \in FramePanes |-> FALSE]
  /\ toDelete = [p \in FramePanes |-> FALSE]
  /\ damage = [p \in FramePanes |-> {}]
  /\ slot = [p \in FramePanes |-> 0]
  /\ pending = [p \in FramePanes |-> {}]
  /\ handed = [p \in FramePanes |-> {}]
  /\ queued = [p \in FramePanes |-> {}]
  /\ cache = [t \in Tabs |-> {}]
  /\ jobs = <<>> /\ alive = TRUE
  /\ raw = TRUE /\ fails = 0
  /\ layers = [p \in FramePanes |-> {}]
  /\ stored = [p \in FramePanes |-> {}]
  /\ lost = [p \in FramePanes |-> FALSE]
  /\ crossed = [p \in FramePanes |-> FALSE]
  /\ used = [changes |-> 0, resizes |-> 0, switches |-> 0, faults |-> 0]

Use(what, max) == used[what] < max /\ used' = [used EXCEPT ![what] = @ + 1]

-----------------------------------------------------------------------------
(* The terminal                                                             *)

(* Images that go take nothing else with them.                              *)
Without(ids, screen) ==
  {[layer EXCEPT !.over = @ \ ids] : layer \in {l \in screen : l.id \notin ids}}

(* A placement replaces the one with its id, and the later one is on top.   *)
Placed(layer, screen) ==
  LET rest == Without({layer.id}, screen)
  IN rest \cup {[layer EXCEPT !.over = {l.id : l \in rest}]}

Layer(id, cover, frame) ==
  [id |-> id, cover |-> cover, over |-> {}, tab |-> frame.tab, pix |-> frame.pix,
   gen |-> frame.gen]

PatchIds == Ids \ {Base}
Draw(p, screen) == layers' = [layers EXCEPT ![p] = screen]

-----------------------------------------------------------------------------
(* Page and paint                                                           *)

Painting(t) == visible[PaneOf[t]] /\ active[PaneOf[t]] = t

(* Chromium reports the damage of a paint as one rectangle, and unionDamage *)
(* keeps one: here, an interval.                                            *)
Span(D) == {c \in Columns : \E a, b \in D : a <= c /\ c <= b}
Rectangles == {Span({a, b}) : a, b \in Columns}
DirtyAll(p) == dirt' = [dirt EXCEPT ![p] = Columns]

PageChanges(t, D) ==
  /\ Use("changes", MaxChanges)
  /\ page' = [page EXCEPT ![t] = [c \in Columns |-> IF c \in D THEN @[c] + 1 ELSE @[c]]]
  /\ dirt' = [dirt EXCEPT ![PaneOf[t]] = IF Painting(t) THEN Span(@ \cup D) ELSE @]
  /\ UNCHANGED <<visible, active, framePaneVars, cache, workVars, termVars>>

NewFrame(p) == [tab |-> active[p], pix |-> page[active[p]], gen |-> gen[p]]

(* What a patch covers besides its own damage; the mutant, nothing.         *)
OwnDamage(p, D) == Span(D)
PatchCover(p, D) == Span(D \cup damage[p])
NextSlot(s) == (s + 1) % Slots

CanPatch(p, D) ==
  /\ pending[p] = {}
  /\ transferred[p] /\ ~toDelete[p]
  /\ Cardinality(PatchCover(p, D)) <= PatchLimit

(* sendPatch, where its encoded form is small enough.                       *)
SendPatch(p, D) ==
  /\ CanPatch(p, D)
  /\ Draw(p, Placed(Layer(slot[p] + 1, PatchCover(p, D), NewFrame(p)), layers[p]))
  /\ slot' = [slot EXCEPT ![p] = NextSlot(@)]
  /\ damage' = [damage EXCEPT ![p] = PatchCover(p, D)]
  /\ crossed' = [crossed EXCEPT ![p] = @ \/ handed[p] # {}]
  /\ UNCHANGED <<gen, transferred, toDelete, pending, handed, queued, stored, lost>>

Wait(p, frame) ==
  /\ pending' = [pending EXCEPT ![p] = {frame}]
  /\ UNCHANGED <<gen, transferred, toDelete, damage, slot, handed, queued, termVars>>

(* The paint event and queueFrame.  A paint may be on its way when the pane *)
(* is hidden.                                                               *)
Paint(p) ==
  /\ dirt[p] # {}
  /\ dirt' = [dirt EXCEPT ![p] = {}]
  /\ cache' = [cache EXCEPT ![active[p]] = {NewFrame(p)}]
  /\ \/ ~visible[p] /\ UNCHANGED <<framePaneVars, termVars>>
     \/ visible[p] /\ SendPatch(p, dirt[p])
     \/ visible[p] /\ Wait(p, NewFrame(p))
  /\ UNCHANGED <<page, visible, active, workVars, used>>

-----------------------------------------------------------------------------
(* Whole frames                                                             *)

Encode(f) == [tab |-> f.tab, pix |-> f.pix, gen |-> f.gen, raw |-> raw]
Decode(f) == [tab |-> f.tab, pix |-> f.pix, gen |-> f.gen]

(* Posting to a thread that is gone does nothing.                           *)
Post(js, p, frames) ==
  IF alive THEN js \o (IF frames = {} THEN <<>>
                       ELSE <<[pane |-> p, frame |-> CHOOSE f \in frames : TRUE]>>)
  ELSE js

(* transferFrame and queueGfxFrame.                                         *)
Transfer(p, frame) ==
  /\ transferred' = [transferred EXCEPT ![p] = TRUE]
  /\ toDelete' = [toDelete EXCEPT ![p] = FALSE]
  /\ damage' = [damage EXCEPT ![p] = {}]
  /\ Draw(p, Without(PatchIds \cup (IF toDelete[p] THEN {Base} ELSE {}), layers[p]))
  /\ crossed' = [crossed EXCEPT ![p] = FALSE]
  /\ IF handed[p] = {}
     THEN /\ handed' = [handed EXCEPT ![p] = {frame.gen}]
          /\ jobs' = Post(jobs, p, {frame})
          /\ UNCHANGED queued
     ELSE /\ queued' = [queued EXCEPT ![p] = {frame}]
          /\ UNCHANGED <<handed, jobs>>

(* flushPendingFrame and sendFrameNow.                                      *)
Flush(p) ==
  \E frame \in pending[p] :
    /\ pending' = [pending EXCEPT ![p] = {}]
    /\ IF frame.tab = active[p] /\ frame.gen = gen[p] /\ visible[p]
       THEN Transfer(p, Encode(frame))
       ELSE UNCHANGED <<transferred, toDelete, damage, handed, queued, jobs, layers,
                      crossed>>
    /\ UNCHANGED <<pageVars, gen, slot, cache, alive, raw, fails, stored, lost, used>>

(* The pane's key travels with the request and the answer.                  *)
RepliedTo == Head(jobs).pane

(* The mutants: a finished frame is never too old; the pane stays busy with *)
(* nothing in the worker when no frame waits.                               *)
NeverStale(p) == FALSE
StaysBusy(p) == handed[p]

Stale(p) == \E g \in handed[p] : g # gen[p]
NextUp(p) == {f \in queued[p] : f.gen = gen[p]}
HandedNext(p) == {f.gen : f \in NextUp(p)}

(* completeGfxFrame.                                                        *)
Complete(p) ==
  /\ transferred' = [transferred EXCEPT ![p] = @ /\ ~Stale(p)]
  /\ handed' = [handed EXCEPT ![p] = HandedNext(p)]
  /\ queued' = [queued EXCEPT ![p] = {}]
  /\ jobs' = Post(Tail(jobs), p, NextUp(p))
  /\ UNCHANGED <<gen, toDelete, damage, slot, pending>>

Discard(p) ==
  /\ Draw(p, Without({Base}, layers[p]))
  /\ stored' = [stored EXCEPT ![p] = {}]
  /\ UNCHANGED lost

WorkerReplies ==
  /\ alive /\ jobs # <<>>
  /\ LET p == RepliedTo
         frame == Head(jobs).frame
     IN /\ Complete(p)
        /\ IF Stale(p) THEN Discard(p)
           ELSE /\ Draw(p, Placed(Layer(Base, Columns, frame), layers[p]))
                /\ stored' = [stored EXCEPT ![p] = {Decode(frame)}]
                /\ lost' = [lost EXCEPT ![p] = FALSE]
  /\ fails' = 0
  /\ UNCHANGED <<pageVars, cache, alive, raw, crossed, used>>

(* The frame's file cannot be written.  A PNG goes out inline instead.      *)
WorkerFails ==
  /\ alive /\ jobs # <<>> /\ Head(jobs).frame.raw
  /\ Use("faults", MaxFrameFaults)
  /\ LET p == RepliedTo
     IN /\ Complete(p)
        /\ IF Stale(p) THEN Discard(p)
           ELSE lost' = [lost EXCEPT ![p] = TRUE] /\ UNCHANGED <<layers, stored>>
  /\ fails' = IF raw THEN fails + 1 ELSE fails
  /\ raw' = (raw /\ fails' < RawLimit)
  /\ IF raw /\ ~raw' /\ visible[FirstPane] THEN DirtyAll(FirstPane) ELSE UNCHANGED dirt
  /\ UNCHANGED <<page, visible, active, cache, alive, crossed>>

(* The "error" event: every hand-off is gone, and so is the thread.         *)
WorkerDies ==
  /\ alive /\ alive' = FALSE
  /\ jobs' = <<>>
  /\ lost' = [p \in FramePanes |-> lost[p] \/ handed[p] # {}]
  /\ handed' = [p \in FramePanes |-> {}]
  /\ queued' = [p \in FramePanes |-> {}]
  /\ UNCHANGED <<pageVars, gen, transferred, toDelete, damage, slot, pending,
                 cache, raw, fails, layers, stored, crossed, used>>

-----------------------------------------------------------------------------
(* Geometry, visibility, tabs                                               *)

NoFrames == cache' = [t \in Tabs |-> {}]

Replaced(p, screen) ==
  IF stored[p] = {} THEN screen
  ELSE Placed(Layer(Base, Columns, CHOOSE f \in stored[p] : TRUE), screen)

(* applyViewport; strands: the pane moved or shrank.                        *)
Resize(p, strands) ==
  LET bare == Without(PatchIds, layers[p])
      deletes == toDelete[p] \/ strands
      replaces == visible[p] /\ transferred[p]
  IN /\ Use("resizes", MaxResizes)
     /\ gen' = [gen EXCEPT ![p] = @ + 1]
     /\ pending' = [pending EXCEPT ![p] = {}]
     /\ queued' = [queued EXCEPT ![p] = {}]
     /\ damage' = [damage EXCEPT ![p] = {}]
     /\ toDelete' = [toDelete EXCEPT ![p] = deletes /\ ~replaces]
     /\ Draw(p, IF ~replaces THEN bare
                ELSE Replaced(p, IF deletes THEN Without({Base}, bare) ELSE bare))
     /\ IF visible[p] THEN DirtyAll(p) ELSE UNCHANGED dirt
     /\ NoFrames
     /\ UNCHANGED <<page, visible, active, transferred, slot, handed, workVars, stored, lost,
                    crossed>>

(* applyClientListing without a client, and updatePaintingState.            *)
Hide(p) ==
  /\ visible[p] /\ Use("switches", MaxSwitches)
  /\ visible' = [visible EXCEPT ![p] = FALSE]
  /\ Draw(p, {})
  /\ stored' = [stored EXCEPT ![p] = {}]
  /\ NoFrames
  /\ UNCHANGED <<page, dirt, active, framePaneVars, workVars, lost, crossed>>

(* The watchdog runs updatePaintingState every second.                      *)
Reconcile(p) ==
  /\ ~visible[p] /\ \E t \in Tabs : cache[t] # {}
  /\ NoFrames
  /\ UNCHANGED <<pageVars, framePaneVars, workVars, termVars, used>>

Cached(p, t) == {f \in cache[t] : f.gen = gen[p]}

(* A client again: the surface starts painting, and repaintActiveTab.       *)
Show(p) ==
  /\ ~visible[p]
  /\ visible' = [visible EXCEPT ![p] = TRUE]
  /\ DirtyAll(p)
  /\ IF Cached(p, active[p]) # {}
     THEN pending' = [pending EXCEPT ![p] = Cached(p, active[p])]
     ELSE UNCHANGED pending
  /\ UNCHANGED <<page, active, gen, transferred, toDelete, damage, slot, handed, queued,
                 cache, workVars, termVars, used>>

(* activateTab                                                              *)
Activate(p, t) ==
  /\ PaneOf[t] = p /\ active[p] # t /\ Use("switches", MaxSwitches)
  /\ active' = [active EXCEPT ![p] = t]
  /\ IF visible[p]
     THEN /\ DirtyAll(p)
          /\ pending' = [pending EXCEPT ![p] = IF Cached(p, t) # {} THEN Cached(p, t) ELSE @]
          /\ cache' = [cache EXCEPT ![active[p]] = IF active[p] \in Kept THEN @ ELSE {}]
     ELSE NoFrames /\ UNCHANGED <<dirt, pending>>
  /\ UNCHANGED <<page, visible, gen, transferred, toDelete, damage, slot, handed, queued,
                 workVars, termVars>>

PageStep == \E t \in Tabs, D \in Rectangles : PageChanges(t, D)

EngineStep(p) == Paint(p) \/ Flush(p)

WorkerStep == WorkerReplies \/ WorkerFails

UserStep(p) ==
  \/ \E strands \in BOOLEAN : Resize(p, strands)
  \/ Hide(p) \/ Reconcile(p) \/ Show(p)
  \/ \E t \in Tabs : Activate(p, t)

FramesNext ==
  \/ PageStep
  \/ \E p \in FramePanes : EngineStep(p) \/ UserStep(p)
  \/ WorkerStep \/ WorkerDies

FramesFairness ==
  /\ \A p \in FramePanes : WF_vars(Paint(p)) /\ WF_vars(Flush(p))
  /\ WF_vars(WorkerStep)

FramesSpec == FramesInit /\ [][FramesNext]_vars /\ FramesFairness
-----------------------------------------------------------------------------
(* What the frame pipeline promises the person who looks at the pane.       *)

Layers == [id : Ids, cover : SUBSET Columns, over : SUBSET Ids, tab : Tabs, pix : Looks, gen : Nat]

(* Of two images one lies over the other.                                   *)
Stacked(screen) ==
  \A l, m \in screen : l # m => l.id # m.id /\ (l.id \in m.over <=> m.id \notin l.over)

(* Every variable holds a value of its kind; patch ids stay in their pool.  *)
FramesTypeOK ==
  /\ page \in [Tabs -> Looks]
  /\ dirt \in [FramePanes -> SUBSET Columns] /\ damage \in [FramePanes -> SUBSET Columns]
  /\ active \in [FramePanes -> Tabs]
  /\ {visible, transferred, toDelete, lost, crossed} \subseteq [FramePanes -> BOOLEAN]
  /\ gen \in [FramePanes -> Nat] /\ slot \in [FramePanes -> 0 .. Slots - 1]
  /\ \A p \in FramePanes : /\ pending[p] \cup stored[p] \subseteq Frames
                      /\ queued[p] \subseteq Encoded
                      /\ Cardinality(pending[p]) <= 1 /\ Cardinality(queued[p]) <= 1
                      /\ handed[p] \subseteq Nat /\ Cardinality(handed[p]) <= 1
                      /\ layers[p] \subseteq Layers /\ Stacked(layers[p])
  /\ \A t \in Tabs : cache[t] \subseteq Frames
  /\ jobs \in Seq([pane : FramePanes, frame : Encoded])
  /\ alive \in BOOLEAN /\ raw \in BOOLEAN /\ fails \in Nat

OnTop(screen, c, l) ==
  /\ l \in screen /\ c \in l.cover
  /\ \A m \in screen : m # l /\ c \in m.cover => m.id \in l.over

(* What the user sees in the pane is the active tab's page as it is.        *)
RightAt(p, c) ==
  \E l \in layers[p] :
    /\ OnTop(layers[p], c, l)
    /\ l.tab = active[p] /\ l.pix[c] = page[active[p]][c] /\ l.gen = gen[p]

Right(p) == \A c \in Columns : RightAt(p, c)

(* Nothing of the pane is on its way to the terminal.                       *)
Still(p) == dirt[p] = {} /\ pending[p] = {} /\ queued[p] = {} /\ handed[p] = {}

(* Once nothing is on its way, a visible pane shows the page: no damage is  *)
(* forgotten by patches, dropped frames, caches or re-placed images.  Two   *)
(* exceptions: a whole frame the worker could not write, and a patch that   *)
(* overtook a whole frame (see PatchStays).                                 *)
StillIsRight ==
  \A p \in FramePanes : visible[p] /\ Still(p) /\ ~lost[p] /\ ~crossed[p] => Right(p)

(* A still pane is right, and no patch has left the pool of its ids.        *)
PaneIsRight == FramesTypeOK /\ StillIsRight

(* A whole frame is drawn only while the pane has the geometry it was made  *)
(* for; a finished frame of another generation is thrown away.              *)
BaseOf(p) == {l \in layers[p] : l.id = Base}
DrawnIsCurrent ==
  [][\A p \in FramePanes : \A l \in BaseOf(p)' :
       l.gen = gen'[p] \/ \E f \in stored[p] : f.gen = l.gen]_vars

(* What a visible pane has on its way gets out, or is lost with a frame the *)
(* worker could not write, as long as the worker lives.                     *)
Settles == \A p \in FramePanes : <>[](visible[p] /\ alive => Still(p))

-----------------------------------------------------------------------------
(* Promises of comments that the code does not keep                         *)

(* A hidden pane has nothing on the terminal (main.cjs, on visibility).     *)
HiddenShowsNothing == \A p \in FramePanes : ~visible[p] => layers[p] = {}

(* A patch lies over a base of its own generation (sendPatch).              *)
PatchOverBase ==
  \A p \in FramePanes : \A l \in layers[p] :
    l.id # Base => \E m \in layers[p] : m.id \in l.over /\ m.id = Base /\ m.gen = l.gen

(* A patch covers the stale pixels underneath (main.cjs, damage patches),   *)
(* even those of a base that lands after it.                                *)
PatchStays == \A p \in FramePanes : visible[p] /\ Still(p) /\ ~lost[p] => Right(p)

(* A pane is not left waiting for the worker (the worker's error handler).  *)
NoneStaysBusy == \A p \in FramePanes : handed[p] # {} ~> handed[p] = {}

(* Giving raw frames up repaints what they lost (noteRawFrameFailure).      *)
GivesUpAndRepaints == \A p \in FramePanes : lost[p] /\ ~raw ~> ~lost[p] \/ ~visible[p]
=============================================================================
