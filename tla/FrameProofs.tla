---------------------------- MODULE FrameProofs ----------------------------
(* Proofs about the frame pipeline: once nothing of a pane is on its way,   *)
(* the pane shows its page, for any number of panes, tabs, columns and      *)
(* patch ids, however the page changes and the panes are resized, hidden,   *)
(* shown and switched.                                                      *)
EXTENDS FramePipeline, FiniteSetTheorems, TLAPS

-----------------------------------------------------------------------------
(* The invariant.  A frame is current when it shows the active tab of its   *)
(* pane as it is, but for what the pane's next paint will report; when that *)
(* is every column, any frame is.                                           *)
Current(p, f) ==
  \A c \in Columns \ dirt[p] :
    f.tab = active[p] /\ f.pix[c] = page[active[p]][c] /\ f.gen = gen[p]

(* Every placed patch is within the accumulated damage, and a placed base   *)
(* is the one the terminal stores.                                          *)
LayersTrue(p) ==
  \A l \in layers[p] :
    /\ l.id # Base => l.cover \subseteq damage[p]
    /\ l.id = Base => \E f \in stored[p] : f.gen = l.gen

(* The frame that waits for its turn is current; if none does, the one that *)
(* waits for the worker is; if there is nothing of the pane on its way, the *)
(* terminal shows the page where no damage waits.                           *)
PaneTrue(p) ==
  /\ PaneOf[active[p]] = p
  /\ visible[p] => \A f \in pending[p] : Current(p, f)
  /\ handed[p] = {} => queued[p] = {}
  /\ visible[p] /\ pending[p] = {} /\ ~crossed[p] => \A f \in queued[p] : Current(p, f)
  /\ visible[p] /\ pending[p] = {} /\ queued[p] = {} /\ handed[p] = {} /\ ~lost[p] /\ ~crossed[p]
       => \A c \in Columns \ dirt[p] : RightAt(p, c)
  /\ LayersTrue(p)

(* A pane has one frame in the worker at most; that is current if no other  *)
(* of the pane's waits and no patch overtook it.                            *)
JobIsTrue(job) ==
  /\ handed[job.pane] = {job.frame.gen}
  /\ visible[job.pane] /\ pending[job.pane] = {} /\ queued[job.pane] = {} /\ ~crossed[job.pane]
       => Current(job.pane, job.frame)

JobsInv ==
  /\ \A i \in 1 .. Len(jobs) : JobIsTrue(jobs[i])
  /\ \A i, j \in 1 .. Len(jobs) : jobs[i].pane = jobs[j].pane => i = j

FrameInv == (\A p \in FramePanes : PaneTrue(p)) /\ JobsInv

-----------------------------------------------------------------------------
(* The terminal.                                                            *)

(* Removing images leaves the others stacked as they were.                  *)
LEMMA WithoutTyped ==
  ASSUME NEW screen, screen \subseteq Layers, Stacked(screen), NEW ids
  PROVE  Without(ids, screen) \subseteq Layers /\ Stacked(Without(ids, screen))
<1>1. ASSUME NEW l \in Without(ids, screen)
      PROVE  \E k \in screen : k.id \notin ids /\ l = [k EXCEPT !.over = k.over \ ids]
  BY <1>1 DEF Without
<1>2. Without(ids, screen) \subseteq Layers
  BY <1>1 DEF Layers
<1>3. ASSUME NEW l \in Without(ids, screen), NEW m \in Without(ids, screen), l # m
      PROVE  l.id # m.id /\ (l.id \in m.over <=> m.id \notin l.over)
  <2>1. PICK k \in screen : k.id \notin ids /\ l = [k EXCEPT !.over = k.over \ ids]
    BY <1>1
  <2>2. PICK n \in screen : n.id \notin ids /\ m = [n EXCEPT !.over = n.over \ ids]
    BY <1>1
  <2>3. /\ l.id = k.id /\ l.over = k.over \ ids /\ m.id = n.id /\ m.over = n.over \ ids
    BY <2>1, <2>2 DEF Layers
  <2>4. k # n
    BY <1>3, <2>1, <2>2
  <2> QED BY <2>1, <2>2, <2>3, <2>4 DEF Stacked
<1> QED BY <1>2, <1>3 DEF Stacked

(* A placed image lies over all the others.                                 *)
LEMMA PlacedTyped ==
  ASSUME NEW screen, screen \subseteq Layers, Stacked(screen), NEW layer \in Layers
  PROVE  Placed(layer, screen) \subseteq Layers /\ Stacked(Placed(layer, screen))
<1> DEFINE rest == Without({layer.id}, screen)
           top == [layer EXCEPT !.over = {l.id : l \in rest}]
<1>1. rest \subseteq Layers /\ Stacked(rest)
  BY WithoutTyped
<1>2. \A l \in rest : l.id # layer.id /\ layer.id \notin l.over
  BY DEF Without, Layers
<1>3. Placed(layer, screen) = rest \cup {top}
  BY DEF Placed
<1>4. top \in Layers /\ top.id = layer.id /\ top.over = {l.id : l \in rest}
  BY <1>1 DEF Layers
<1> HIDE DEF rest, top
<1>5. ASSUME NEW l \in rest \cup {top}, NEW m \in rest \cup {top}, l # m
      PROVE  l.id # m.id /\ (l.id \in m.over <=> m.id \notin l.over)
  BY <1>1, <1>2, <1>4, <1>5 DEF Stacked
<1> QED BY <1>1, <1>3, <1>4, <1>5 DEF Stacked

(* A layer made of a frame carries the frame's tab, pixels and generation.  *)
LEMMA LayerTyped ==
  ASSUME NEW id \in Ids, NEW cover \in SUBSET Columns, NEW f \in Frames \cup Encoded
  PROVE  /\ Layer(id, cover, f) \in Layers
         /\ Layer(id, cover, f).id = id /\ Layer(id, cover, f).cover = cover
         /\ Layer(id, cover, f).tab = f.tab /\ Layer(id, cover, f).pix = f.pix
         /\ Layer(id, cover, f).gen = f.gen
BY DEF Layer, Layers, Frames, Encoded

(* Where it covers, the user sees the image placed last.                    *)
LEMMA PlacedIsSeen ==
  ASSUME NEW screen, screen \subseteq Layers, NEW layer \in Layers, NEW c \in layer.cover
  PROVE  \E l \in Placed(layer, screen) :
           /\ OnTop(Placed(layer, screen), c, l)
           /\ l.tab = layer.tab /\ l.pix = layer.pix /\ l.gen = layer.gen
<1> DEFINE rest == Without({layer.id}, screen)
           top == [layer EXCEPT !.over = {l.id : l \in rest}]
<1>1. Placed(layer, screen) = rest \cup {top}
  BY DEF Placed
<1>2. /\ top.over = {l.id : l \in rest} /\ top.cover = layer.cover
      /\ top.tab = layer.tab /\ top.pix = layer.pix /\ top.gen = layer.gen
  BY DEF Layers
<1>3. OnTop(rest \cup {top}, c, top)
  <2> HIDE DEF rest, top
  <2> QED BY <1>2 DEF OnTop
<1> QED BY <1>1, <1>2, <1>3

(* Elsewhere the user sees what was seen before, unless that was replaced.  *)
LEMMA OthersAreSeen ==
  ASSUME NEW screen, screen \subseteq Layers, NEW layer \in Layers, NEW c, c \notin layer.cover,
         NEW l, OnTop(screen, c, l), l.id # layer.id
  PROVE  \E k \in Placed(layer, screen) :
           /\ OnTop(Placed(layer, screen), c, k)
           /\ k.tab = l.tab /\ k.pix = l.pix /\ k.gen = l.gen
<1> DEFINE rest == Without({layer.id}, screen)
           top == [layer EXCEPT !.over = {n.id : n \in rest}]
           k == [l EXCEPT !.over = l.over \ {layer.id}]
<1>1. Placed(layer, screen) = rest \cup {top} /\ top.cover = layer.cover
  BY DEF Placed, Layers
<1>2. l \in Layers /\ l \in screen /\ c \in l.cover
  BY DEF OnTop
<1>3. /\ k.id = l.id /\ k.over = l.over \ {layer.id} /\ k.cover = l.cover
      /\ k.tab = l.tab /\ k.pix = l.pix /\ k.gen = l.gen
  BY <1>2 DEF Layers
<1>4. k \in rest
  BY <1>2 DEF Without
<1>5. ASSUME NEW m \in rest \cup {top}, m # k, c \in m.cover
      PROVE  m.id \in k.over
  <2>1. m \in rest
    BY <1>1, <1>5
  <2>2. PICK n \in screen : n.id # layer.id /\ m = [n EXCEPT !.over = n.over \ {layer.id}]
    BY <2>1 DEF Without
  <2>3. n # l /\ n.id = m.id /\ n.cover = m.cover
    BY <1>5, <2>2 DEF Layers
  <2>4. n.id \in l.over
    BY <1>5, <2>2, <2>3 DEF OnTop
  <2> QED BY <1>3, <2>2, <2>3, <2>4
<1>6. OnTop(rest \cup {top}, c, k)
  <2> HIDE DEF rest, top, k
  <2> QED BY <1>2, <1>3, <1>4, <1>5 DEF OnTop
<1> QED BY <1>1, <1>3, <1>4, <1>6

-----------------------------------------------------------------------------
(* Types.                                                                   *)

AtMostOne(S) == \A x, y \in S : x = y

PageTyped ==
  /\ page \in [Tabs -> Looks]
  /\ dirt \in [FramePanes -> SUBSET Columns]
  /\ visible \in [FramePanes -> BOOLEAN] /\ active \in [FramePanes -> Tabs]

PaneTyped ==
  /\ gen \in [FramePanes -> Nat] /\ slot \in [FramePanes -> 0 .. Slots - 1]
  /\ transferred \in [FramePanes -> BOOLEAN] /\ toDelete \in [FramePanes -> BOOLEAN]
  /\ damage \in [FramePanes -> SUBSET Columns]

WaitTyped ==
  /\ pending \in [FramePanes -> SUBSET Frames] /\ queued \in [FramePanes -> SUBSET Encoded]
  /\ handed \in [FramePanes -> SUBSET Nat] /\ cache \in [Tabs -> SUBSET Frames]
  /\ \A p \in FramePanes : AtMostOne(pending[p]) /\ AtMostOne(queued[p]) /\ AtMostOne(handed[p])
  /\ \A t \in Tabs : AtMostOne(cache[t])

Jobs == [pane : FramePanes, frame : Encoded]

WorkTyped ==
  /\ jobs \in Seq(Jobs)
  /\ alive \in BOOLEAN /\ raw \in BOOLEAN /\ fails \in Nat

TermTyped ==
  /\ layers \in [FramePanes -> SUBSET Layers] /\ \A p \in FramePanes : Stacked(layers[p])
  /\ stored \in [FramePanes -> SUBSET Frames]
  /\ lost \in [FramePanes -> BOOLEAN] /\ crossed \in [FramePanes -> BOOLEAN]

FrameTypes == PageTyped /\ PaneTyped /\ WaitTyped /\ WorkTyped /\ TermTyped

(* A set with at most one member has at most that cardinality.              *)
LEMMA AtMostOneCounted ==
  ASSUME NEW S, AtMostOne(S)
  PROVE  Cardinality(S) <= 1
<1>1. CASE S = {}
  BY <1>1, FS_EmptySet
<1>2. ASSUME NEW x \in S PROVE Cardinality(S) <= 1
  <2>1. S = {x}
    BY DEF AtMostOne
  <2>2. Cardinality({x}) = 1
    BY FS_Singleton
  <2> QED BY <2>1, <2>2
<1> QED BY <1>1, <1>2

(* The types proved here are those TLC checks.                              *)
LEMMA TypesSuffice == FrameTypes => FramesTypeOK
<1> SUFFICES ASSUME FrameTypes PROVE FramesTypeOK
  OBVIOUS
<1>1. ASSUME NEW p \in FramePanes
      PROVE  Cardinality(pending[p]) <= 1 /\ Cardinality(queued[p]) <= 1 /\ Cardinality(handed[p]) <= 1
  BY AtMostOneCounted DEF FrameTypes, WaitTyped
<1> QED BY <1>1 DEF FrameTypes, PageTyped, PaneTyped, WaitTyped, WorkTyped, TermTyped, Jobs,
          FramesTypeOK

(* Damage is never forgotten by taking its span, nor is the whole pane.     *)
LEMMA SpanCovers ==
  ASSUME NEW D, D \subseteq Columns
  PROVE  D \subseteq Span(D) /\ Span(D) \subseteq Columns
BY FrameAssumption DEF Span, Columns

(* A painted frame is the active tab's page, of the pane's generation.      *)
LEMMA NewFrameTyped ==
  ASSUME PageTyped, PaneTyped, NEW p \in FramePanes
  PROVE  /\ NewFrame(p) \in Frames /\ NewFrame(p).tab = active[p]
         /\ NewFrame(p).pix = page[active[p]] /\ NewFrame(p).gen = gen[p]
BY DEF PageTyped, PaneTyped, NewFrame, Frames

(* Drawing a stacked screen keeps every pane's screen stacked.              *)
LEMMA DrawTyped ==
  ASSUME TermTyped, NEW p \in FramePanes, NEW screen, screen \subseteq Layers, Stacked(screen),
         Draw(p, screen)
  PROVE  layers' \in [FramePanes -> SUBSET Layers] /\ \A q \in FramePanes : Stacked(layers'[q])
BY DEF TermTyped, Draw

(* A page's change (PageChanges) keeps the types.                           *)
LEMMA TypesPageChanges ==
  ASSUME FrameTypes, NEW t \in Tabs, NEW D \in Rectangles, PageChanges(t, D)
  PROVE  FrameTypes'
<1>1. page' \in [Tabs -> Looks]
  BY DEF PageChanges, FrameTypes, PageTyped, Looks
<1>2. dirt' \in [FramePanes -> SUBSET Columns]
  BY SpanCovers, FrameAssumption DEF PageChanges, FrameTypes, PageTyped, Span
<1> QED BY <1>1, <1>2 DEF PageChanges, framePaneVars, workVars, termVars, FrameTypes, PageTyped,
          PaneTyped, WaitTyped, WorkTyped, TermTyped

(* The paint event (Paint) keeps the types.                                 *)
LEMMA TypesPaint ==
  ASSUME FrameTypes, NEW p \in FramePanes, Paint(p)
  PROVE  FrameTypes'
<1> USE DEF FrameTypes
<1>a. NewFrame(p) \in Frames
  BY NewFrameTyped
<1>1. PageTyped' /\ WorkTyped'
  BY DEF Paint, PageTyped, workVars, WorkTyped
<1>2. cache' \in [Tabs -> SUBSET Frames] /\ \A t \in Tabs : AtMostOne(cache'[t])
  BY <1>a DEF Paint, WaitTyped, AtMostOne, PageTyped
<1>3. CASE UNCHANGED <<framePaneVars, termVars>>
  BY <1>1, <1>2, <1>3 DEF framePaneVars, termVars, PaneTyped, WaitTyped, TermTyped
<1>4. CASE SendPatch(p, dirt[p])
  <2> DEFINE cover == PatchCover(p, dirt[p])
             layer == Layer(slot[p] + 1, cover, NewFrame(p))
  <2>1. cover \in SUBSET Columns /\ slot[p] + 1 \in Ids
    BY FrameAssumption DEF PatchCover, Span, PaneTyped, Ids
  <2>2. layer \in Layers
    BY <1>a, <2>1, LayerTyped
  <2>3. Placed(layer, layers[p]) \subseteq Layers /\ Stacked(Placed(layer, layers[p]))
    BY <2>2, PlacedTyped DEF TermTyped
  <2>4. layers' \in [FramePanes -> SUBSET Layers] /\ \A q \in FramePanes : Stacked(layers'[q])
    BY <1>4, <2>3, DrawTyped DEF SendPatch
  <2>5. NextSlot(slot[p]) \in 0 .. Slots - 1
    BY FrameAssumption DEF NextSlot, PaneTyped
  <2>6. PaneTyped'
    BY <1>4, <2>1, <2>5 DEF SendPatch, PaneTyped
  <2>7. TermTyped'
    BY <1>4, <2>4 DEF SendPatch, TermTyped
  <2> QED BY <1>1, <1>2, <1>4, <2>6, <2>7 DEF SendPatch, WaitTyped
<1>5. CASE Wait(p, NewFrame(p))
  BY <1>1, <1>2, <1>5, <1>a DEF Wait, termVars, PaneTyped, WaitTyped, TermTyped, AtMostOne
<1> QED BY <1>3, <1>4, <1>5 DEF Paint

(* Encoding (sendFrameNow) keeps a frame's tab, pixels and generation.      *)
LEMMA EncodeTyped ==
  ASSUME NEW f \in Frames, raw \in BOOLEAN
  PROVE  /\ Encode(f) \in Encoded /\ Encode(f).tab = f.tab /\ Encode(f).pix = f.pix
         /\ Encode(f).gen = f.gen
BY DEF Encode, Encoded, Frames

(* So does what the terminal keeps of it.                                   *)
LEMMA DecodeTyped ==
  ASSUME NEW f \in Encoded
  PROVE  Decode(f) \in Frames /\ Decode(f).gen = f.gen
BY DEF Decode, Encoded, Frames

(* Posting leaves a sequence of messages.                                   *)
LEMMA PostTyped ==
  ASSUME NEW js \in Seq(Jobs), NEW p \in FramePanes, NEW S, S \subseteq Encoded
  PROVE  Post(js, p, S) \in Seq(Jobs)
<1>1. CASE S = {} \/ ~alive
  BY <1>1 DEF Post
<1>2. CASE S # {} /\ alive
  <2> DEFINE f == CHOOSE x \in S : TRUE
             new == <<[pane |-> p, frame |-> f]>>
  <2>1. f \in S
    BY <1>2
  <2>2. new \in Seq(Jobs)
    BY <2>1 DEF Jobs
  <2>3. Post(js, p, S) = js \o new
    BY <1>2 DEF Post
  <2> QED BY <2>2, <2>3
<1> QED BY <1>1, <1>2

(* Handing a frame over (Flush) keeps the types.                            *)
LEMMA TypesFlush ==
  ASSUME FrameTypes, NEW p \in FramePanes, Flush(p)
  PROVE  FrameTypes'
<1> USE DEF FrameTypes
<1>1. PICK frame \in pending[p] :
        /\ pending' = [pending EXCEPT ![p] = {}]
        /\ IF frame.tab = active[p] /\ frame.gen = gen[p] /\ visible[p]
           THEN Transfer(p, Encode(frame))
           ELSE UNCHANGED <<transferred, toDelete, damage, handed, queued, jobs, layers, crossed>>
        /\ UNCHANGED <<pageVars, gen, slot, cache, alive, raw, fails, stored, lost, used>>
  BY DEF Flush
<1>2. PageTyped'
  BY <1>1 DEF pageVars, PageTyped
<1>3. pending' \in [FramePanes -> SUBSET Frames] /\ \A q \in FramePanes : AtMostOne(pending'[q])
  BY <1>1 DEF WaitTyped, AtMostOne
<1>4. CASE UNCHANGED <<transferred, toDelete, damage, handed, queued, jobs, layers, crossed>>
  BY <1>1, <1>2, <1>3, <1>4 DEF PaneTyped, WaitTyped, WorkTyped, TermTyped
<1>5. CASE Transfer(p, Encode(frame))
  <2> DEFINE e == Encode(frame)
             ids == PatchIds \cup (IF toDelete[p] THEN {Base} ELSE {})
  <2>1. e \in Encoded /\ e.gen \in Nat
    BY EncodeTyped DEF WaitTyped, WorkTyped, Encoded
  <2>2. Without(ids, layers[p]) \subseteq Layers /\ Stacked(Without(ids, layers[p]))
    BY WithoutTyped DEF TermTyped
  <2>3. layers' \in [FramePanes -> SUBSET Layers] /\ \A q \in FramePanes : Stacked(layers'[q])
    BY <1>5, <2>2, DrawTyped DEF Transfer
  <2>4. PaneTyped'
    BY <1>1, <1>5 DEF Transfer, PaneTyped
  <2>5. TermTyped'
    BY <1>1, <1>5, <2>3 DEF Transfer, TermTyped
  <2> HIDE DEF e
  <2>6. CASE handed[p] = {}
    <3>1. handed' = [handed EXCEPT ![p] = {e.gen}] /\ jobs' = Post(jobs, p, {e}) /\ queued' = queued
      BY <1>5, <2>6 DEF Transfer, e
    <3>2. jobs' \in Seq(Jobs)
      BY <2>1, <3>1, PostTyped DEF WorkTyped
    <3>3. WaitTyped'
      BY <1>1, <1>3, <2>1, <3>1 DEF WaitTyped, AtMostOne
    <3> QED BY <1>1, <1>2, <2>4, <2>5, <3>2, <3>3 DEF WorkTyped
  <2>7. CASE handed[p] # {}
    <3>1. queued' = [queued EXCEPT ![p] = {e}] /\ UNCHANGED <<handed, jobs>>
      BY <1>5, <2>7 DEF Transfer, e
    <3>2. WaitTyped'
      BY <1>1, <1>3, <2>1, <3>1 DEF WaitTyped, AtMostOne
    <3> QED BY <1>1, <1>2, <2>4, <2>5, <3>1, <3>2 DEF WorkTyped
  <2> QED BY <2>6, <2>7
<1> QED BY <1>1, <1>4, <1>5

(* completeGfxFrame keeps the types of what waits.                          *)
LEMMA TypesComplete ==
  ASSUME FrameTypes, alive, jobs # <<>>, Complete(RepliedTo)
  PROVE  /\ RepliedTo \in FramePanes /\ Head(jobs).frame \in Encoded
         /\ (cache' = cache => WaitTyped') /\ jobs' \in Seq(Jobs) /\ PaneTyped'
<1> USE DEF FrameTypes
<1>1. Head(jobs) \in Jobs /\ Tail(jobs) \in Seq(Jobs)
  BY DEF WorkTyped
<1> DEFINE p == RepliedTo
<1>2. p \in FramePanes /\ Head(jobs).frame \in Encoded
  BY <1>1 DEF RepliedTo, Jobs
<1>3. NextUp(p) \subseteq Encoded /\ AtMostOne(NextUp(p))
  BY <1>2 DEF NextUp, WaitTyped, AtMostOne
<1>4. HandedNext(p) \subseteq Nat /\ AtMostOne(HandedNext(p))
  BY <1>3 DEF HandedNext, AtMostOne, Encoded
<1>5. jobs' \in Seq(Jobs)
  BY <1>1, <1>2, <1>3, PostTyped DEF Complete
<1> QED BY <1>2, <1>4, <1>5 DEF Complete, PaneTyped, WaitTyped, AtMostOne

(* Discarding a finished frame keeps the terminal's types.                  *)
LEMMA TypesDiscard ==
  ASSUME FrameTypes, NEW p \in FramePanes, Discard(p), crossed' = crossed
  PROVE  TermTyped'
<1> USE DEF FrameTypes
<1>1. Without({Base}, layers[p]) \subseteq Layers /\ Stacked(Without({Base}, layers[p]))
  BY WithoutTyped DEF TermTyped
<1>2. layers' \in [FramePanes -> SUBSET Layers] /\ \A q \in FramePanes : Stacked(layers'[q])
  BY <1>1, DrawTyped DEF Discard
<1> QED BY <1>2 DEF Discard, TermTyped

(* The worker's answer (WorkerReplies) keeps the types.                     *)
LEMMA TypesWorkerReplies ==
  ASSUME FrameTypes, WorkerReplies
  PROVE  FrameTypes'
<1> USE DEF FrameTypes
<1> DEFINE p == RepliedTo
           frame == Head(jobs).frame
<1>1. /\ alive /\ jobs # <<>> /\ Complete(p) /\ fails' = 0
      /\ UNCHANGED <<pageVars, cache, alive, raw, crossed, used>>
  BY DEF WorkerReplies
<1>2. p \in FramePanes /\ frame \in Encoded /\ WaitTyped' /\ jobs' \in Seq(Jobs) /\ PaneTyped'
  BY <1>1, TypesComplete
<1>3. PageTyped' /\ WorkTyped'
  BY <1>1, <1>2 DEF pageVars, PageTyped, WorkTyped
<1>4. CASE Discard(p)
  BY <1>1, <1>2, <1>3, <1>4, TypesDiscard
<1>5. CASE /\ Draw(p, Placed(Layer(Base, Columns, frame), layers[p]))
           /\ stored' = [stored EXCEPT ![p] = {Decode(frame)}]
           /\ lost' = [lost EXCEPT ![p] = FALSE]
  <2>1. Layer(Base, Columns, frame) \in Layers
    BY <1>2, LayerTyped, FrameAssumption DEF Ids, Base
  <2>2. /\ Placed(Layer(Base, Columns, frame), layers[p]) \subseteq Layers
        /\ Stacked(Placed(Layer(Base, Columns, frame), layers[p]))
    BY <1>2, <2>1, PlacedTyped DEF TermTyped
  <2>3. layers' \in [FramePanes -> SUBSET Layers] /\ \A q \in FramePanes : Stacked(layers'[q])
    BY <1>2, <1>5, <2>2, DrawTyped
  <2>4. Decode(frame) \in Frames
    BY <1>2, DecodeTyped
  <2>5. TermTyped'
    BY <1>1, <1>5, <2>3, <2>4 DEF TermTyped
  <2> QED BY <1>2, <1>3, <2>5
<1> QED BY <1>4, <1>5 DEF WorkerReplies

(* The worker's failure (WorkerFails) keeps the types.                      *)
LEMMA TypesWorkerFails ==
  ASSUME FrameTypes, WorkerFails
  PROVE  FrameTypes'
<1> USE DEF FrameTypes
<1> DEFINE p == RepliedTo
<1>1. /\ alive /\ jobs # <<>> /\ Complete(p) /\ fails' = (IF raw THEN fails + 1 ELSE fails)
      /\ raw' = (raw /\ fails' < RawLimit)
      /\ dirt' = [dirt EXCEPT ![FirstPane] = Columns] \/ dirt' = dirt
      /\ UNCHANGED <<page, visible, active, cache, alive, crossed>>
  BY DEF WorkerFails, DirtyAll
<1>2. p \in FramePanes /\ WaitTyped' /\ jobs' \in Seq(Jobs) /\ PaneTyped'
  BY <1>1, TypesComplete
<1>3. PageTyped'
  BY <1>1 DEF PageTyped
<1>4. WorkTyped'
  <2>1. raw' \in BOOLEAN
    BY <1>1 DEF WorkTyped
  <2>2. fails' \in Nat
    BY <1>1 DEF WorkTyped
  <2> QED BY <1>1, <1>2, <2>1, <2>2 DEF WorkTyped
<1>5. TermTyped'
  <2>1. CASE Discard(p)
    BY <1>1, <1>2, <2>1, TypesDiscard
  <2>2. CASE lost' = [lost EXCEPT ![p] = TRUE] /\ UNCHANGED <<layers, stored>>
    BY <1>1, <2>2 DEF TermTyped
  <2> QED BY <2>1, <2>2 DEF WorkerFails
<1> QED BY <1>2, <1>3, <1>4, <1>5

(* The worker's death (WorkerDies) keeps the types.                         *)
LEMMA TypesWorkerDies ==
  ASSUME FrameTypes, WorkerDies
  PROVE  FrameTypes'
<1> USE DEF FrameTypes
<1>1. PageTyped' /\ PaneTyped' /\ WorkTyped'
  <2>1. jobs' \in Seq(Jobs)
    BY DEF WorkerDies
  <2> QED BY <2>1 DEF WorkerDies, pageVars, PageTyped, PaneTyped, WorkTyped
<1>2. WaitTyped'
  BY DEF WorkerDies, WaitTyped, AtMostOne
<1>3. TermTyped'
  BY DEF WorkerDies, TermTyped
<1> QED BY <1>1, <1>2, <1>3

(* Placing the stored base again (replacePlacement) keeps the stack.        *)
LEMMA ReplacedTyped ==
  ASSUME TermTyped, NEW p \in FramePanes, NEW screen, screen \subseteq Layers, Stacked(screen)
  PROVE  Replaced(p, screen) \subseteq Layers /\ Stacked(Replaced(p, screen))
<1>1. CASE stored[p] = {}
  BY <1>1 DEF Replaced
<1>2. CASE stored[p] # {}
  <2> DEFINE f == CHOOSE x \in stored[p] : TRUE
  <2>1. f \in Frames
    BY <1>2 DEF TermTyped
  <2>2. Layer(Base, Columns, f) \in Layers
    BY <2>1, LayerTyped, FrameAssumption DEF Ids, Base
  <2> QED BY <1>2, <2>2, PlacedTyped DEF Replaced
<1> QED BY <1>1, <1>2

(* A resize (Resize) keeps the types.                                       *)
LEMMA TypesResize ==
  ASSUME FrameTypes, NEW p \in FramePanes, NEW strands \in BOOLEAN, Resize(p, strands)
  PROVE  FrameTypes'
<1> USE DEF FrameTypes
<1> DEFINE bare == Without(PatchIds, layers[p])
           bald == Without({Base}, bare)
<1>1. PageTyped' /\ PaneTyped'
  <2>1. toDelete' \in [FramePanes -> BOOLEAN]
    BY DEF Resize, PaneTyped
  <2> QED BY <2>1 DEF Resize, DirtyAll, PageTyped, PaneTyped
<1>2. WaitTyped' /\ WorkTyped'
  BY DEF Resize, NoFrames, workVars, WaitTyped, WorkTyped, AtMostOne
<1>3. bare \subseteq Layers /\ Stacked(bare) /\ bald \subseteq Layers /\ Stacked(bald)
  <2>1. bare \subseteq Layers /\ Stacked(bare)
    BY WithoutTyped DEF TermTyped
  <2> QED BY <2>1, WithoutTyped
<1>4. Draw(p, bare) \/ Draw(p, Replaced(p, bare)) \/ Draw(p, Replaced(p, bald))
  BY DEF Resize
<1>5. layers' \in [FramePanes -> SUBSET Layers] /\ \A q \in FramePanes : Stacked(layers'[q])
  <2> HIDE DEF bare, bald
  <2>1. /\ Replaced(p, bare) \subseteq Layers /\ Stacked(Replaced(p, bare))
        /\ Replaced(p, bald) \subseteq Layers /\ Stacked(Replaced(p, bald))
    BY <1>3, ReplacedTyped
  <2> QED BY <1>3, <1>4, <2>1, DrawTyped
<1>6. TermTyped'
  BY <1>5 DEF Resize, TermTyped
<1> QED BY <1>1, <1>2, <1>6

(* Hiding, showing and switching tabs keep the types.                       *)
LEMMA TypesSwitch ==
  ASSUME FrameTypes, NEW p \in FramePanes,
         Hide(p) \/ Reconcile(p) \/ Show(p) \/ (\E t \in Tabs : Activate(p, t))
  PROVE  FrameTypes'
<1> USE DEF FrameTypes
<1>a. \A t \in Tabs : Cached(p, t) \subseteq Frames /\ AtMostOne(Cached(p, t))
  BY DEF Cached, WaitTyped, AtMostOne
<1>1. CASE Hide(p)
  <2>1. PageTyped' /\ PaneTyped' /\ WaitTyped' /\ WorkTyped'
    BY <1>1 DEF Hide, NoFrames, framePaneVars, workVars, PageTyped, PaneTyped, WaitTyped, WorkTyped,
                AtMostOne
  <2>2. TermTyped'
    BY <1>1 DEF Hide, Draw, TermTyped, Stacked
  <2> QED BY <2>1, <2>2
<1>2. CASE Reconcile(p)
  BY <1>2 DEF Reconcile, NoFrames, pageVars, framePaneVars, workVars, termVars, PageTyped, PaneTyped,
              WaitTyped, WorkTyped, TermTyped, AtMostOne
<1>3. CASE Show(p)
  <2>1. PageTyped' /\ PaneTyped' /\ WorkTyped' /\ TermTyped'
    BY <1>3 DEF Show, DirtyAll, workVars, termVars, PageTyped, PaneTyped, WorkTyped, TermTyped
  <2>2. active[p] \in Tabs
    BY DEF PageTyped
  <2>3. WaitTyped'
    BY <1>3, <1>a, <2>2 DEF Show, WaitTyped
  <2> QED BY <2>1, <2>3
<1>4. ASSUME NEW t \in Tabs, Activate(p, t) PROVE FrameTypes'
  <2>1. PageTyped' /\ PaneTyped' /\ WorkTyped' /\ TermTyped'
    <3>1. PageTyped'
      BY <1>4 DEF Activate, DirtyAll, PageTyped
    <3>2. PaneTyped' /\ WorkTyped' /\ TermTyped'
      BY <1>4 DEF Activate, workVars, termVars, PaneTyped, WorkTyped, TermTyped
    <3> QED BY <3>1, <3>2
  <2>2. cache' \in [Tabs -> SUBSET Frames] /\ \A u \in Tabs : AtMostOne(cache'[u])
    BY <1>4 DEF Activate, NoFrames, WaitTyped, AtMostOne
  <2>3. pending' \in [FramePanes -> SUBSET Frames] /\ \A q \in FramePanes : AtMostOne(pending'[q])
    BY <1>4, <1>a DEF Activate, WaitTyped
  <2> QED BY <1>4, <2>1, <2>2, <2>3 DEF Activate, WaitTyped
<1> QED BY <1>1, <1>2, <1>3, <1>4

(* The types hold initially.                                                *)
LEMMA TypesBegin == FramesInit => FrameTypes
<1> SUFFICES ASSUME FramesInit PROVE FrameTypes
  OBVIOUS
<1>1. PageTyped /\ PaneTyped
  BY FrameAssumption DEF FramesInit, PageTyped, PaneTyped, Looks
<1>2. WaitTyped /\ WorkTyped
  BY DEF FramesInit, WaitTyped, WorkTyped, AtMostOne
<1>3. TermTyped
  BY DEF FramesInit, TermTyped, Stacked
<1> QED BY <1>1, <1>2, <1>3 DEF FrameTypes

(* Every step keeps the types.                                              *)
LEMMA TypesStep == FrameTypes /\ [FramesNext]_vars => FrameTypes'
<1> SUFFICES ASSUME FrameTypes, [FramesNext]_vars PROVE FrameTypes'
  OBVIOUS
<1>1. CASE UNCHANGED vars
  BY <1>1 DEF vars, pageVars, framePaneVars, workVars, termVars, FrameTypes, PageTyped, PaneTyped,
              WaitTyped, WorkTyped, TermTyped
<1>2. CASE FramesNext
  BY <1>2, TypesPageChanges, TypesPaint, TypesFlush, TypesWorkerReplies, TypesWorkerFails,
     TypesWorkerDies, TypesResize, TypesSwitch
     DEF FramesNext, PageStep, EngineStep, UserStep, WorkerStep
<1> QED BY <1>1, <1>2

-----------------------------------------------------------------------------
(* The steps.                                                               *)

(* What Without and Placed leave of a layer.                                *)
LEMMA WithoutKeeps ==
  ASSUME NEW screen, screen \subseteq Layers, NEW ids, NEW l \in Without(ids, screen)
  PROVE  /\ l.id \notin ids
         /\ \E k \in screen : k.id = l.id /\ k.cover = l.cover /\ k.gen = l.gen
BY DEF Without, Layers

(* The placed image carries its own cover and generation, the others theirs. *)
LEMMA PlacedKeeps ==
  ASSUME NEW screen, screen \subseteq Layers, NEW layer \in Layers, NEW l \in Placed(layer, screen)
  PROVE  \/ l.id = layer.id /\ l.cover = layer.cover /\ l.gen = layer.gen
         \/ /\ l.id # layer.id
            /\ \E k \in screen : k.id = l.id /\ k.cover = l.cover /\ k.gen = l.gen
<1> DEFINE rest == Without({layer.id}, screen)
           top == [layer EXCEPT !.over = {n.id : n \in rest}]
<1>1. Placed(layer, screen) = rest \cup {top}
  BY DEF Placed
<1>2. top.id = layer.id /\ top.cover = layer.cover /\ top.gen = layer.gen
  BY DEF Layers
<1> HIDE DEF top
<1>3. CASE l \in rest
  BY <1>3, WithoutKeeps
<1> QED BY <1>1, <1>2, <1>3

\* Current and JobIsTrue, after the step.
CurrentAfter(p, f) ==
  \A c \in Columns \ dirt'[p] :
    f.tab = active'[p] /\ f.pix[c] = page'[active'[p]][c] /\ f.gen = gen'[p]

JobTrueAfter(job) ==
  /\ handed'[job.pane] = {job.frame.gen}
  /\ visible'[job.pane] /\ pending'[job.pane] = {} /\ queued'[job.pane] = {} /\ ~crossed'[job.pane]
       => CurrentAfter(job.pane, job.frame)

(* The step may have damaged the page p shows, and nothing else of p.       *)
LooksOn(p) ==
  /\ visible'[p] = visible[p] /\ active'[p] = active[p] /\ gen'[p] = gen[p]
  /\ dirt[p] \subseteq dirt'[p]
  /\ \A c \in Columns \ dirt'[p] : page'[active[p]][c] = page[active[p]][c]

Idle(p) ==
  /\ LooksOn(p)
  /\ pending'[p] = pending[p] /\ queued'[p] = queued[p] /\ handed'[p] = handed[p]
  /\ crossed'[p] = crossed[p]

LeftAlone(p) ==
  /\ Idle(p)
  /\ damage'[p] = damage[p] /\ layers'[p] = layers[p] /\ stored'[p] = stored[p]
  /\ lost'[p] = lost[p]

(* Whoever looks at p sees nothing, or all of it will be painted again.     *)
Blind(p) == ~visible'[p] \/ dirt'[p] = Columns

(* A current frame stays current while its pane looks on.                   *)
LEMMA LooksOnIsCurrent ==
  ASSUME NEW p, LooksOn(p), NEW f, Current(p, f)
  PROVE  CurrentAfter(p, f)
BY DEF LooksOn, Current, CurrentAfter

(* A pane the step leaves alone keeps its part of the invariant.            *)
LEMMA LeftAloneIsTrue ==
  ASSUME NEW p \in FramePanes, PaneTrue(p), LeftAlone(p)
  PROVE  PaneTrue(p)'
<1>1. \A f : Current(p, f) => CurrentAfter(p, f)
  BY LooksOnIsCurrent DEF LeftAlone, Idle
<1>2. ASSUME NEW c \in Columns \ dirt'[p], RightAt(p, c) PROVE RightAt(p, c)'
  BY <1>2 DEF LeftAlone, Idle, LooksOn, RightAt, OnTop
<1>3. LayersTrue(p)'
  BY DEF LeftAlone, PaneTrue, LayersTrue
<1>4. /\ visible'[p] => \A f \in pending'[p] : CurrentAfter(p, f)
      /\ visible'[p] /\ pending'[p] = {} /\ ~crossed'[p] => \A f \in queued'[p] : CurrentAfter(p, f)
  BY <1>1 DEF LeftAlone, Idle, LooksOn, PaneTrue
<1>5. /\ visible'[p] /\ pending'[p] = {} /\ queued'[p] = {} /\ handed'[p] = {}
         /\ ~lost'[p] /\ ~crossed'[p]
           => \A c \in Columns \ dirt'[p] : RightAt(p, c)'
  BY <1>2 DEF LeftAlone, Idle, LooksOn, PaneTrue
<1>6. PaneOf[active'[p]] = p /\ (handed'[p] = {} => queued'[p] = {})
  BY DEF LeftAlone, Idle, LooksOn, PaneTrue
<1> QED BY <1>3, <1>4, <1>5, <1>6 DEF PaneTrue, Current, CurrentAfter

(* So does a pane that is hidden, or will be painted whole.                 *)
LEMMA BlindIsTrue ==
  ASSUME NEW p \in FramePanes, Blind(p), PaneOf[active'[p]] = p,
         handed'[p] = {} => queued'[p] = {}, LayersTrue(p)'
  PROVE  PaneTrue(p)'
BY DEF Blind, PaneTrue, Current

(* A message to the worker stays true while its pane is idle.               *)
LEMMA JobStays ==
  ASSUME NEW job, JobIsTrue(job), Idle(job.pane)
  PROVE  JobTrueAfter(job)
BY LooksOnIsCurrent DEF JobIsTrue, JobTrueAfter, Idle, LooksOn

(* Or while the pane is hidden or will be painted whole.                    *)
LEMMA JobBlind ==
  ASSUME NEW job, JobIsTrue(job), Blind(job.pane), handed'[job.pane] = handed[job.pane]
  PROVE  JobTrueAfter(job)
BY DEF Blind, JobIsTrue, JobTrueAfter, CurrentAfter

(* True messages that stay posted keep JobsInv.                             *)
LEMMA JobsStay ==
  ASSUME JobsInv, jobs' = jobs, \A i \in 1 .. Len(jobs) : JobTrueAfter(jobs[i])
  PROVE  JobsInv'
<1>1. ASSUME NEW i \in 1 .. Len(jobs') PROVE JobIsTrue(jobs[i])'
  <2>1. JobTrueAfter(jobs[i]) /\ jobs'[i] = jobs[i]
    OBVIOUS
  <2>2. handed'[jobs[i].pane] = {jobs[i].frame.gen}
    BY <2>1 DEF JobTrueAfter
  <2>3. visible'[jobs[i].pane] /\ pending'[jobs[i].pane] = {} /\ queued'[jobs[i].pane] = {}
          /\ ~crossed'[jobs[i].pane] => CurrentAfter(jobs[i].pane, jobs[i].frame)
    BY <2>1 DEF JobTrueAfter
  <2> QED BY <2>1, <2>2, <2>3 DEF JobIsTrue, Current, CurrentAfter
<1>3. \A i, j \in 1 .. Len(jobs') : jobs'[i].pane = jobs'[j].pane => i = j
  BY DEF JobsInv
<1> QED BY <1>1, <1>3 DEF JobsInv

(* No pane has a part in the step but this one.                             *)
OthersLeft(p) == \A q \in FramePanes \ {p} : LeftAlone(q)

(* A step of one pane need only be followed in that pane.                   *)
LEMMA OthersSuffice ==
  ASSUME FrameInv, FrameTypes, NEW p \in FramePanes, OthersLeft(p), PaneTrue(p)', jobs' = jobs,
         \A i \in 1 .. Len(jobs) : jobs[i].pane = p => JobTrueAfter(jobs[i])
  PROVE  FrameInv'
<1>1. \A q \in FramePanes : PaneTrue(q)'
  BY LeftAloneIsTrue DEF FrameInv, OthersLeft
<1>2. ASSUME NEW i \in 1 .. Len(jobs) PROVE JobTrueAfter(jobs[i])
  <2>0. jobs[i] \in Jobs
    BY DEF FrameTypes, WorkTyped
  <2>1. jobs[i].pane \in FramePanes /\ JobIsTrue(jobs[i])
    BY <2>0 DEF Jobs, FrameInv, JobsInv
  <2>2. CASE jobs[i].pane = p
    BY <2>2
  <2>3. CASE jobs[i].pane # p
    BY <2>1, <2>3, JobStays DEF OthersLeft, LeftAlone
  <2> QED BY <2>2, <2>3
<1> QED BY <1>1, <1>2, JobsStay DEF FrameInv

(* A pane that will be painted again keeps the invariant while what is with *)
(* the worker stays and the images are accounted for.                       *)
LEMMA BlindSuffices ==
  ASSUME FrameInv, FrameTypes, NEW p \in FramePanes, OthersLeft(p), Blind(p), jobs' = jobs,
         PaneOf[active'[p]] = p, handed'[p] = handed[p], queued'[p] \subseteq queued[p],
         LayersTrue(p)'
  PROVE  FrameInv'
<1>1. PaneTrue(p)'
  BY BlindIsTrue DEF FrameInv, PaneTrue
<1>2. \A i \in 1 .. Len(jobs) : jobs[i].pane = p => JobTrueAfter(jobs[i])
  BY JobBlind DEF FrameInv, JobsInv
<1> QED BY <1>1, <1>2, OthersSuffice

(* A page's change damages what it changed (PageChanges).                   *)
LEMMA InvPageChanges ==
  ASSUME FrameInv, FrameTypes, NEW t \in Tabs, NEW D \in Rectangles, PageChanges(t, D)
  PROVE  FrameInv'
<1> DEFINE p == PaneOf[t]
<1>1. p \in FramePanes /\ D \subseteq Columns
  BY FrameAssumption DEF Rectangles, Span
<1>2. /\ page' = [page EXCEPT ![t] = [c \in Columns |-> IF c \in D THEN page[t][c] + 1 ELSE page[t][c]]]
      /\ dirt' = [dirt EXCEPT ![p] = IF Painting(t) THEN Span(dirt[p] \cup D) ELSE dirt[p]]
      /\ UNCHANGED <<visible, active, framePaneVars, cache, workVars, termVars>>
  BY DEF PageChanges
<1>a. /\ page \in [Tabs -> [Columns -> Nat]] /\ dirt \in [FramePanes -> SUBSET Columns]
      /\ active \in [FramePanes -> Tabs]
  BY DEF FrameTypes, PageTyped, Looks
<1>3. \A q \in FramePanes : PaneOf[active[q]] = q
  BY DEF FrameInv, PaneTrue
<1>4. ASSUME NEW q \in FramePanes, LooksOn(q) PROVE LeftAlone(q)
  BY <1>2, <1>4 DEF LeftAlone, Idle, framePaneVars, termVars
<1>5. ASSUME NEW q \in FramePanes, q # p PROVE LooksOn(q)
  <2>1. active[q] # t
    BY <1>3, <1>5
  <2> QED BY <1>2, <1>a, <1>5, <2>1 DEF LooksOn, framePaneVars
<1>6. OthersLeft(p)
  BY <1>4, <1>5 DEF OthersLeft
<1>7. jobs' = jobs
  BY <1>2 DEF workVars
<1>8. CASE active[p] = t /\ ~visible[p]
  <2>1. LayersTrue(p)'
    BY <1>1, <1>2 DEF framePaneVars, termVars, LayersTrue, FrameInv, PaneTrue
  <2> QED BY <1>1, <1>2, <1>3, <1>6, <1>7, <1>8, <2>1, BlindSuffices DEF Blind, framePaneVars
<1>9. CASE ~(active[p] = t /\ ~visible[p])
  <2>3. LooksOn(p)
    <3>1. CASE active[p] = t
      <4>1. Painting(t)
        BY <1>9, <3>1 DEF Painting
      <4>2. dirt'[p] = Span(dirt[p] \cup D) /\ dirt[p] \cup D \subseteq Columns
        BY <1>1, <1>2, <1>a, <4>1
      <4>3. dirt[p] \cup D \subseteq dirt'[p]
        BY <4>2, SpanCovers
      <4>4. \A c \in Columns \ dirt'[p] : page'[t][c] = page[t][c]
        BY <1>2, <1>a, <4>3
      <4> QED BY <1>2, <3>1, <4>3, <4>4 DEF LooksOn, framePaneVars
    <3>2. CASE active[p] # t
      BY <1>1, <1>2, <1>a, <3>2 DEF LooksOn, framePaneVars, Painting
    <3> QED BY <3>1, <3>2
  <2>4. LeftAlone(p)
    BY <1>1, <1>4, <2>3
  <2>5. PaneTrue(p)'
    BY <1>1, <2>4, LeftAloneIsTrue DEF FrameInv
  <2>6. \A i \in 1 .. Len(jobs) : jobs[i].pane = p => JobTrueAfter(jobs[i])
    BY <2>4, JobStays DEF FrameInv, JobsInv, LeftAlone
  <2> QED BY <1>1, <1>6, <1>7, <2>5, <2>6, OthersSuffice
<1> QED BY <1>8, <1>9

(* A painted frame waits, or is patched over all earlier damage (Paint).    *)
LEMMA InvPaint ==
  ASSUME FrameInv, FrameTypes, NEW p \in FramePanes, Paint(p)
  PROVE  FrameInv'
<1>1. /\ dirt' = [dirt EXCEPT ![p] = {}] /\ jobs' = jobs
      /\ UNCHANGED <<page, visible, active>>
  BY DEF Paint, workVars
<1>2. PageTyped /\ PaneTyped /\ WaitTyped /\ WorkTyped /\ TermTyped /\ PaneTrue(p)
  BY DEF FrameTypes, FrameInv
<1>3. /\ NewFrame(p) \in Frames /\ NewFrame(p).tab = active[p]
      /\ NewFrame(p).pix = page[active[p]] /\ NewFrame(p).gen = gen[p]
  BY <1>2, NewFrameTyped
<1>4. PaneOf[active'[p]] = p
  BY <1>1, <1>2 DEF PaneTrue
<1>5. CASE ~visible[p] /\ UNCHANGED <<framePaneVars, termVars>>
  <2>1. OthersLeft(p)
    BY <1>1, <1>2, <1>5 DEF OthersLeft, LeftAlone, Idle, LooksOn, framePaneVars, termVars, PageTyped
  <2>2. LayersTrue(p)'
    BY <1>2, <1>5 DEF PaneTrue, LayersTrue, framePaneVars, termVars
  <2> QED BY <1>1, <1>4, <1>5, <2>1, <2>2, BlindSuffices DEF Blind, framePaneVars
<1>6. CASE Wait(p, NewFrame(p))
  <2>1. /\ pending' = [pending EXCEPT ![p] = {NewFrame(p)}]
        /\ UNCHANGED <<gen, transferred, toDelete, damage, slot, handed, queued, termVars>>
    BY <1>6 DEF Wait
  <2>2. OthersLeft(p)
    BY <1>1, <1>2, <2>1 DEF OthersLeft, LeftAlone, Idle, LooksOn, termVars, PageTyped, WaitTyped
  <2>3. pending'[p] = {NewFrame(p)} /\ gen'[p] = gen[p]
    BY <1>2, <2>1 DEF WaitTyped
  <2>4. CurrentAfter(p, NewFrame(p))
    BY <1>1, <1>3, <2>1 DEF CurrentAfter
  <2>5. LayersTrue(p)'
    BY <1>2, <2>1 DEF PaneTrue, LayersTrue, termVars
  <2>6. PaneTrue(p)'
    BY <1>2, <1>4, <2>1, <2>3, <2>4, <2>5 DEF PaneTrue, Current, CurrentAfter
  <2>7. \A i \in 1 .. Len(jobs) : jobs[i].pane = p => JobTrueAfter(jobs[i])
    BY <2>1, <2>3 DEF JobTrueAfter, FrameInv, JobsInv, JobIsTrue
  <2> QED BY <1>1, <2>2, <2>6, <2>7, OthersSuffice
<1>7. CASE visible[p] /\ SendPatch(p, dirt[p])
  <2> DEFINE cover == PatchCover(p, dirt[p])
             layer == Layer(slot[p] + 1, cover, NewFrame(p))
             screen == Placed(layer, layers[p])
  <2>1. /\ pending[p] = {} /\ damage' = [damage EXCEPT ![p] = cover]
        /\ layers' = [layers EXCEPT ![p] = screen]
        /\ crossed' = [crossed EXCEPT ![p] = crossed[p] \/ handed[p] # {}]
        /\ UNCHANGED <<gen, transferred, toDelete, pending, handed, queued, stored, lost>>
    BY <1>7 DEF SendPatch, CanPatch, Draw
  <2>2. dirt[p] \subseteq cover /\ damage[p] \subseteq cover /\ cover \in SUBSET Columns
    <3>1. dirt[p] \cup damage[p] \subseteq Columns
      BY <1>2 DEF PageTyped, PaneTyped
    <3> QED BY <3>1, SpanCovers DEF PatchCover
  <2>3. slot[p] + 1 \in Ids /\ slot[p] + 1 # Base
    BY <1>2, FrameAssumption DEF PaneTyped, Ids, Base
  <2>4. /\ layer \in Layers /\ layer.id = slot[p] + 1 /\ layer.cover = cover
        /\ layer.tab = active[p] /\ layer.pix = page[active[p]] /\ layer.gen = gen[p]
    BY <1>3, <2>2, <2>3, LayerTyped
  <2>5. OthersLeft(p)
    BY <1>1, <1>2, <2>1 DEF OthersLeft, LeftAlone, Idle, LooksOn, PageTyped, PaneTyped, TermTyped
  <2>6. layers[p] \subseteq Layers /\ layers'[p] = screen /\ damage'[p] = cover
    BY <1>2, <2>1 DEF TermTyped, PaneTyped
  <2> HIDE DEF cover, layer
  <2>7. LayersTrue(p)'
    <3>1. ASSUME NEW l \in screen
          PROVE  /\ l.id # Base => l.cover \subseteq cover
                 /\ l.id = Base => \E f \in stored[p] : f.gen = l.gen
      <4>1. CASE l.id = layer.id /\ l.cover = layer.cover
        BY <2>3, <2>4, <4>1
      <4>2. ASSUME NEW k \in layers[p], k.id = l.id, k.cover = l.cover, k.gen = l.gen
            PROVE  /\ l.id # Base => l.cover \subseteq cover
                   /\ l.id = Base => \E f \in stored[p] : f.gen = l.gen
        <5>1. (k.id # Base => k.cover \subseteq damage[p])
              /\ (k.id = Base => \E f \in stored[p] : f.gen = k.gen)
          BY <1>2 DEF PaneTrue, LayersTrue
        <5> QED BY <2>2, <4>2, <5>1
      <4> QED BY <2>4, <2>6, <4>1, <4>2, PlacedKeeps
    <3> QED BY <2>1, <2>6, <3>1 DEF LayersTrue
  <2>8. ASSUME ~lost[p], ~crossed'[p], NEW c \in Columns
        PROVE  RightAt(p, c)'
    <3>1. ~crossed[p] /\ handed[p] = {} /\ queued[p] = {}
      BY <1>2, <2>1, <2>8 DEF TermTyped, PaneTrue
    <3>2. \E l \in screen :
            /\ OnTop(screen, c, l)
            /\ l.tab = active[p] /\ l.pix[c] = page[active[p]][c] /\ l.gen = gen[p]
      <4>1. CASE c \in cover
        <5>1. c \in layer.cover
          BY <2>4, <4>1
        <5>2. \E l \in screen : /\ OnTop(screen, c, l)
                                /\ l.tab = layer.tab /\ l.pix = layer.pix /\ l.gen = layer.gen
          BY <2>4, <2>6, <5>1, PlacedIsSeen
        <5> QED BY <2>4, <5>2
      <4>2. CASE c \notin cover
        <5>1. PICK l \in layers[p] :
                /\ OnTop(layers[p], c, l)
                /\ l.tab = active[p] /\ l.pix[c] = page[active[p]][c] /\ l.gen = gen[p]
          BY <1>2, <1>7, <2>1, <2>2, <2>8, <3>1, <4>2 DEF PaneTrue, RightAt
        <5>2. c \in l.cover
          BY <5>1 DEF OnTop
        <5>3. l.id = Base
          BY <1>2, <2>2, <4>2, <5>2 DEF PaneTrue, LayersTrue
        <5>4. l.id # layer.id /\ c \notin layer.cover
          BY <2>3, <2>4, <4>2, <5>3
        <5> QED BY <2>4, <2>6, <5>1, <5>4, OthersAreSeen
      <4> QED BY <4>1, <4>2
    <3> QED BY <1>1, <2>1, <2>6, <3>2 DEF RightAt
  <2>9. PaneTrue(p)'
    <3>1. crossed'[p] = (crossed[p] \/ handed[p] # {})
      BY <1>2, <2>1 DEF TermTyped
    <3>2. /\ pending'[p] = {} /\ queued'[p] = queued[p] /\ handed'[p] = handed[p]
          /\ lost'[p] = lost[p]
      BY <2>1
    <3>3. ~crossed'[p] => queued'[p] = {}
      BY <1>2, <3>1, <3>2 DEF PaneTrue
    <3>4. PaneOf[active'[p]] = p /\ (handed'[p] = {} => queued'[p] = {})
      BY <1>2, <1>4, <2>1, <3>2 DEF PaneTrue
    <3> QED BY <2>7, <2>8, <3>2, <3>3, <3>4 DEF PaneTrue
  <2>10. \A i \in 1 .. Len(jobs) : jobs[i].pane = p => JobTrueAfter(jobs[i])
    <3> SUFFICES ASSUME NEW i \in 1 .. Len(jobs), jobs[i].pane = p PROVE JobTrueAfter(jobs[i])
      OBVIOUS
    <3>1. handed[p] = {jobs[i].frame.gen}
      BY DEF FrameInv, JobsInv, JobIsTrue
    <3>2. handed'[p] = handed[p] /\ crossed'[p]
      BY <1>2, <2>1, <3>1 DEF TermTyped
    <3> QED BY <3>1, <3>2 DEF JobTrueAfter
  <2> QED BY <1>1, <2>5, <2>9, <2>10, OthersSuffice
<1> QED BY <1>5, <1>6, <1>7 DEF Paint

(* What is posted goes to the end of the worker's messages, or nowhere.     *)
LEMMA Posted ==
  ASSUME NEW js \in Seq(Jobs), NEW p \in FramePanes, NEW S, S \subseteq Encoded
  PROVE  \/ Post(js, p, S) = js
         \/ \E f \in S : Post(js, p, S) = Append(js, [pane |-> p, frame |-> f])
<1>1. CASE ~alive
  BY <1>1 DEF Post
<1>2. CASE S = {} /\ alive
  <2>1. Post(js, p, S) = js \o <<>>
    BY <1>2 DEF Post
  <2>2. js \o <<>> = js
    OBVIOUS
  <2> QED BY <2>1, <2>2
<1>3. CASE S # {} /\ alive
  <2> DEFINE f == CHOOSE x \in S : TRUE
             new == [pane |-> p, frame |-> f]
  <2>1. f \in S /\ new \in Jobs
    BY <1>3 DEF Jobs
  <2>2. Post(js, p, S) = js \o <<new>>
    BY <1>3 DEF Post
  <2> HIDE DEF f
  <2>3. js \o <<new>> = Append(js, new)
    BY <2>1
  <2> QED BY <2>1, <2>2, <2>3
<1> QED BY <1>1, <1>2, <1>3

(* The messages stay true when the only new one is, and no other is of its  *)
(* pane.                                                                    *)
LEMMA PostSuffices ==
  ASSUME NEW js \in Seq(Jobs), NEW p \in FramePanes, NEW S, S \subseteq Encoded,
         jobs' = Post(js, p, S),
         \A i \in 1 .. Len(js) : js[i].pane # p /\ JobTrueAfter(js[i]),
         \A i, j \in 1 .. Len(js) : js[i].pane = js[j].pane => i = j,
         \A f \in S : JobTrueAfter([pane |-> p, frame |-> f])
  PROVE  JobsInv'
<1> SUFFICES /\ \A i \in 1 .. Len(jobs') : JobTrueAfter(jobs'[i])
             /\ \A i, j \in 1 .. Len(jobs') : jobs'[i].pane = jobs'[j].pane => i = j
  BY DEF JobsInv, JobIsTrue, JobTrueAfter, Current, CurrentAfter
<1>1. CASE jobs' = js
  BY <1>1
<1>2. ASSUME NEW f \in S, jobs' = Append(js, [pane |-> p, frame |-> f])
      PROVE  /\ \A i \in 1 .. Len(jobs') : JobTrueAfter(jobs'[i])
             /\ \A i, j \in 1 .. Len(jobs') : jobs'[i].pane = jobs'[j].pane => i = j
  <2> DEFINE new == [pane |-> p, frame |-> f]
  <2>1. new \in Jobs /\ new.pane = p /\ JobTrueAfter(new)
    BY DEF Jobs
  <2> HIDE DEF new
  <2>2. /\ Len(jobs') = Len(js) + 1 /\ jobs'[Len(js) + 1] = new
        /\ \A i \in 1 .. Len(js) : jobs'[i] = js[i]
    BY <1>2, <2>1 DEF new
  <2>3. \A i \in 1 .. Len(jobs') : i \in 1 .. Len(js) \/ i = Len(js) + 1
    BY <2>2
  <2> QED BY <2>1, <2>2, <2>3
<1> QED BY <1>1, <1>2, Posted

(* A frame is handed over, or dropped because it will be painted again (Flush). *)
LEMMA InvFlush ==
  ASSUME FrameInv, FrameTypes, NEW p \in FramePanes, Flush(p)
  PROVE  FrameInv'
<1>1. PICK frame \in pending[p] :
        /\ pending' = [pending EXCEPT ![p] = {}]
        /\ IF frame.tab = active[p] /\ frame.gen = gen[p] /\ visible[p]
           THEN Transfer(p, Encode(frame))
           ELSE UNCHANGED <<transferred, toDelete, damage, handed, queued, jobs, layers, crossed>>
        /\ UNCHANGED <<pageVars, gen, slot, cache, alive, raw, fails, stored, lost, used>>
  BY DEF Flush
<1>2. PageTyped /\ PaneTyped /\ WaitTyped /\ WorkTyped /\ TermTyped /\ PaneTrue(p)
  BY DEF FrameTypes, FrameInv
<1>3. PaneOf[active'[p]] = p /\ (visible[p] => Current(p, frame))
  BY <1>1, <1>2 DEF PaneTrue, pageVars
<1>4. CASE ~(frame.tab = active[p] /\ frame.gen = gen[p] /\ visible[p])
  <2>1. UNCHANGED <<transferred, toDelete, damage, handed, queued, jobs, layers, crossed>>
    BY <1>1, <1>4
  <2>2. OthersLeft(p)
    BY <1>1, <1>2, <2>1 DEF OthersLeft, LeftAlone, Idle, LooksOn, pageVars, WaitTyped
  <2>3. Blind(p)
    BY <1>1, <1>2, <1>3, <1>4 DEF Blind, Current, pageVars, PageTyped
  <2>4. LayersTrue(p)'
    BY <1>1, <1>2, <2>1 DEF PaneTrue, LayersTrue
  <2> QED BY <1>3, <2>1, <2>2, <2>3, <2>4, BlindSuffices
<1>5. CASE frame.tab = active[p] /\ frame.gen = gen[p] /\ visible[p]
  <2> DEFINE e == Encode(frame)
             ids == PatchIds \cup (IF toDelete[p] THEN {Base} ELSE {})
  <2>1. /\ damage' = [damage EXCEPT ![p] = {}]
        /\ layers' = [layers EXCEPT ![p] = Without(ids, layers[p])]
        /\ crossed' = [crossed EXCEPT ![p] = FALSE]
        /\ \/ handed[p] = {} /\ handed' = [handed EXCEPT ![p] = {e.gen}]
              /\ jobs' = Post(jobs, p, {e}) /\ queued' = queued
           \/ handed[p] # {} /\ queued' = [queued EXCEPT ![p] = {e}] /\ UNCHANGED <<handed, jobs>>
    BY <1>1, <1>5 DEF Transfer, Draw
  <2>2. e \in Encoded /\ e.tab = frame.tab /\ e.pix = frame.pix /\ e.gen = frame.gen
    BY <1>2, EncodeTyped DEF WaitTyped, WorkTyped
  <2> HIDE DEF e
  <2>3. CurrentAfter(p, e)
    BY <1>1, <1>3, <1>5, <2>2 DEF Current, CurrentAfter, pageVars
  <2>4. OthersLeft(p)
    <3>1. ASSUME NEW q \in FramePanes \ {p}
          PROVE  /\ pending'[q] = pending[q] /\ queued'[q] = queued[q] /\ handed'[q] = handed[q]
                 /\ crossed'[q] = crossed[q] /\ damage'[q] = damage[q] /\ layers'[q] = layers[q]
      BY <1>1, <1>2, <2>1 DEF WaitTyped, PaneTyped, TermTyped
    <3> QED BY <1>1, <3>1 DEF OthersLeft, LeftAlone, Idle, LooksOn, pageVars
  <2>5. LayersTrue(p)'
    <3>1. layers'[p] = Without(ids, layers[p]) /\ layers[p] \subseteq Layers /\ stored' = stored
      BY <1>1, <1>2, <2>1 DEF TermTyped
    <3>2. ASSUME NEW l \in layers'[p]
          PROVE  l.id = Base /\ \E f \in stored[p] : f.gen = l.gen
      <4>1. PICK k \in layers[p] : k.id = l.id /\ k.cover = l.cover /\ k.gen = l.gen
        BY <3>1, WithoutKeeps
      <4>2. l.id \notin PatchIds /\ k.id \in Ids
        BY <3>1, WithoutKeeps DEF Layers
      <4> QED BY <1>2, <4>1, <4>2 DEF PatchIds, PaneTrue, LayersTrue
    <3> QED BY <3>1, <3>2 DEF LayersTrue
  <2>6. pending'[p] = {} /\ crossed'[p] = FALSE /\ visible'[p] = visible[p]
    BY <1>1, <1>2, <2>1 DEF WaitTyped, TermTyped, pageVars
  <2>7. CASE handed[p] = {}
    <3>1. /\ handed'[p] = {e.gen} /\ queued'[p] = {} /\ jobs' = Post(jobs, p, {e})
      BY <1>2, <2>1, <2>7 DEF WaitTyped, PaneTrue
    <3>2. PaneTrue(p)'
      BY <1>3, <2>5, <2>6, <3>1 DEF PaneTrue
    <3>3. ASSUME NEW i \in 1 .. Len(jobs)
          PROVE  jobs[i].pane # p /\ JobTrueAfter(jobs[i])
      <4>1. jobs[i].pane \in FramePanes /\ JobIsTrue(jobs[i])
        <5>1. jobs[i] \in Jobs
          BY <1>2 DEF WorkTyped
        <5> QED BY <5>1 DEF Jobs, FrameInv, JobsInv
      <4>2. jobs[i].pane # p
        BY <2>7, <4>1 DEF JobIsTrue
      <4> QED BY <2>4, <4>1, <4>2, JobStays DEF OthersLeft, LeftAlone
    <3>4. JobTrueAfter([pane |-> p, frame |-> e])
      BY <2>3, <3>1 DEF JobTrueAfter
    <3>5. JobsInv'
      <4>1. jobs \in Seq(Jobs) /\ \A i, j \in 1 .. Len(jobs) : jobs[i].pane = jobs[j].pane => i = j
        BY <1>2 DEF WorkTyped, FrameInv, JobsInv
      <4>2. {e} \subseteq Encoded /\ \A f \in {e} : JobTrueAfter([pane |-> p, frame |-> f])
        BY <2>2, <3>4
      <4> QED BY <3>1, <3>3, <4>1, <4>2, PostSuffices
    <3>6. \A q \in FramePanes : PaneTrue(q)'
      BY <2>4, <3>2, LeftAloneIsTrue DEF FrameInv, OthersLeft
    <3> QED BY <3>5, <3>6 DEF FrameInv
  <2>8. CASE handed[p] # {}
    <3>1. queued'[p] = {e} /\ handed'[p] = handed[p] /\ jobs' = jobs
      BY <1>2, <2>1, <2>8 DEF WaitTyped
    <3>2. PaneTrue(p)'
      BY <1>3, <2>3, <2>5, <2>6, <2>8, <3>1 DEF PaneTrue, Current, CurrentAfter
    <3>3. \A i \in 1 .. Len(jobs) : jobs[i].pane = p => JobTrueAfter(jobs[i])
      BY <3>1 DEF JobTrueAfter, FrameInv, JobsInv, JobIsTrue
    <3> QED BY <2>4, <3>1, <3>2, <3>3, OthersSuffice
  <2> QED BY <2>7, <2>8
<1> QED BY <1>4, <1>5

(* The worker is done with the pane's frame: its place goes to the one that *)
(* waited; without one, what the worker drew is what the page looks like.   *)
LEMMA DoneSuffices ==
  ASSUME FrameInv, FrameTypes, jobs # <<>>, NEW p \in FramePanes, p = RepliedTo, Complete(p),
         OthersLeft(p), LooksOn(p), crossed'[p] = crossed[p], LayersTrue(p)',
         /\ Current(p, Head(jobs).frame) /\ ~Stale(p) /\ ~lost'[p]
            => \A c \in Columns \ dirt'[p] : RightAt(p, c)'
  PROVE  FrameInv'
<1> DEFINE job == Head(jobs)
           rest == Tail(jobs)
<1>1. /\ handed' = [handed EXCEPT ![p] = HandedNext(p)] /\ queued' = [queued EXCEPT ![p] = {}]
      /\ jobs' = Post(rest, p, NextUp(p)) /\ pending' = pending
  BY DEF Complete
<1>2. PageTyped /\ PaneTyped /\ WaitTyped /\ WorkTyped /\ TermTyped /\ PaneTrue(p)
  BY DEF FrameTypes, FrameInv
<1>3. /\ rest \in Seq(Jobs) /\ Len(rest) = Len(jobs) - 1 /\ Len(jobs) \in Nat \ {0}
      /\ \A i \in 1 .. Len(rest) : rest[i] = jobs[i + 1] /\ rest[i] \in Jobs
      /\ job = jobs[1]
  BY <1>2 DEF WorkTyped
<1>4. job.pane = p /\ JobIsTrue(job)
  BY <1>3 DEF RepliedTo, FrameInv, JobsInv
<1>5. \A f : Current(p, f) => CurrentAfter(p, f)
  BY LooksOnIsCurrent
<1>6. handed'[p] = HandedNext(p) /\ queued'[p] = {} /\ pending'[p] = pending[p]
  BY <1>1, <1>2 DEF WaitTyped
<1> HIDE DEF rest
<1>7. ASSUME NEW i \in 1 .. Len(rest)
      PROVE  rest[i].pane # p /\ JobTrueAfter(rest[i])
  <2>1. rest[i] = jobs[i + 1] /\ i + 1 \in 1 .. Len(jobs) /\ 1 \in 1 .. Len(jobs) /\ i + 1 # 1
    BY <1>3
  <2>2. JobIsTrue(rest[i]) /\ rest[i].pane # p
    BY <1>3, <1>4, <2>1 DEF FrameInv, JobsInv
  <2>3. rest[i].pane \in FramePanes
    BY <1>3 DEF Jobs
  <2> QED BY <2>2, <2>3, JobStays DEF OthersLeft, LeftAlone
<1>8. \A i, j \in 1 .. Len(rest) : rest[i].pane = rest[j].pane => i = j
  <2>1. ASSUME NEW i \in 1 .. Len(rest), NEW j \in 1 .. Len(rest), rest[i].pane = rest[j].pane
        PROVE  i = j
    <3>1. /\ rest[i] = jobs[i + 1] /\ i + 1 \in 1 .. Len(jobs)
          /\ rest[j] = jobs[j + 1] /\ j + 1 \in 1 .. Len(jobs)
      BY <1>3
    <3>2. i + 1 = j + 1
      BY <2>1, <3>1 DEF FrameInv, JobsInv
    <3> QED BY <3>2
  <2> QED BY <2>1
<1>9. ASSUME NEW f \in NextUp(p)
      PROVE  f \in Encoded /\ JobTrueAfter([pane |-> p, frame |-> f])
  <2>1. f \in queued[p] /\ f.gen = gen[p] /\ NextUp(p) = {f}
    BY <1>2, <1>9 DEF NextUp, WaitTyped, AtMostOne
  <2>2. handed'[p] = {f.gen}
    BY <1>6, <2>1 DEF HandedNext
  <2>3. visible[p] /\ pending[p] = {} /\ ~crossed[p] => CurrentAfter(p, f)
    BY <1>2, <1>5, <2>1 DEF PaneTrue
  <2>4. visible'[p] = visible[p]
    BY DEF LooksOn
  <2> QED BY <1>2, <1>6, <2>1, <2>2, <2>3, <2>4 DEF JobTrueAfter, WaitTyped
<1>10. JobsInv'
  BY <1>1, <1>3, <1>7, <1>8, <1>9, PostSuffices
<1>11. ASSUME visible[p], pending[p] = {}, HandedNext(p) = {}, ~lost'[p], ~crossed[p],
             NEW c \in Columns \ dirt'[p]
       PROVE  RightAt(p, c)'
  <2>1. c \in Columns \ dirt[p]
    BY <1>11 DEF LooksOn
  <2>2. NextUp(p) = {}
    BY <1>11 DEF HandedNext
  <2>3. queued[p] = {}
    BY <1>2, <1>11, <2>1, <2>2 DEF NextUp, PaneTrue, Current
  <2>4. Current(p, job.frame) /\ handed[p] = {job.frame.gen}
    BY <1>4, <1>11, <2>3 DEF JobIsTrue
  <2>5. ~Stale(p)
    BY <2>1, <2>4 DEF Stale, Current
  <2> QED BY <1>11, <2>4, <2>5
<1>12. PaneTrue(p)'
  <2>1. PaneOf[active'[p]] = p /\ visible'[p] = visible[p]
    BY <1>2 DEF LooksOn, PaneTrue
  <2>2. \A f \in pending'[p] : visible[p] => CurrentAfter(p, f)
    BY <1>2, <1>5, <1>6 DEF PaneTrue
  <2> QED BY <1>6, <1>11, <2>1, <2>2 DEF PaneTrue, Current, CurrentAfter
<1>13. \A q \in FramePanes : PaneTrue(q)'
  BY <1>12, LeftAloneIsTrue DEF FrameInv, OthersLeft
<1> QED BY <1>10, <1>13 DEF FrameInv

(* A discarded frame takes the base off the terminal, and nothing else.     *)
LEMMA DiscardKeeps ==
  ASSUME TermTyped, NEW p \in FramePanes, LayersTrue(p), Discard(p), damage'[p] = damage[p]
  PROVE  LayersTrue(p)'
<1>1. layers'[p] = Without({Base}, layers[p]) /\ layers[p] \subseteq Layers
  BY DEF Discard, Draw, TermTyped
<1>2. ASSUME NEW l \in layers'[p]
      PROVE  l.id # Base /\ l.cover \subseteq damage'[p]
  BY <1>1, WithoutKeeps DEF LayersTrue
<1> QED BY <1>2 DEF LayersTrue

(* A finished frame is drawn or is too old (WorkerReplies).                 *)
LEMMA InvWorkerReplies ==
  ASSUME FrameInv, FrameTypes, WorkerReplies, NEW p \in FramePanes, p = RepliedTo,
         NEW frame \in Encoded, frame = Head(jobs).frame
  PROVE  FrameInv'
<1>1. /\ jobs # <<>> /\ Complete(p)
      /\ \/ Stale(p) /\ Discard(p)
         \/ /\ ~Stale(p)
            /\ Draw(p, Placed(Layer(Base, Columns, frame), layers[p]))
            /\ stored' = [stored EXCEPT ![p] = {Decode(frame)}]
            /\ lost' = [lost EXCEPT ![p] = FALSE]
      /\ UNCHANGED <<pageVars, cache, alive, raw, crossed, used>>
  BY DEF WorkerReplies
<1>2. PageTyped /\ PaneTyped /\ WaitTyped /\ WorkTyped /\ TermTyped
  BY DEF FrameTypes
<1>3. /\ UNCHANGED <<gen, damage, pending>> /\ queued' = [queued EXCEPT ![p] = {}]
      /\ handed' = [handed EXCEPT ![p] = HandedNext(p)]
  BY <1>1 DEF Complete
<1>4. /\ \A q \in FramePanes \ {p} : layers'[q] = layers[q] /\ stored'[q] = stored[q]
                                    /\ lost'[q] = lost[q]
  BY <1>1, <1>2, <1>3 DEF Discard, Draw, TermTyped
<1>5. OthersLeft(p) /\ LooksOn(p)
  BY <1>1, <1>2, <1>3, <1>4 DEF OthersLeft, LeftAlone, Idle, LooksOn, pageVars, WaitTyped
<1>6. LayersTrue(p) /\ damage'[p] = damage[p]
  BY <1>3 DEF FrameInv, PaneTrue
<1>7. CASE Stale(p) /\ Discard(p)
  <2>1. LayersTrue(p)'
    BY <1>2, <1>6, <1>7, DiscardKeeps
  <2> QED BY <1>1, <1>5, <1>7, <2>1, DoneSuffices
<1>8. CASE /\ Draw(p, Placed(Layer(Base, Columns, frame), layers[p]))
           /\ stored' = [stored EXCEPT ![p] = {Decode(frame)}]
           /\ lost' = [lost EXCEPT ![p] = FALSE]
           /\ ~Stale(p)
  <2> DEFINE layer == Layer(Base, Columns, frame)
  <2>1. /\ layer \in Layers /\ layer.id = Base /\ layer.cover = Columns
        /\ layer.tab = frame.tab /\ layer.pix = frame.pix /\ layer.gen = frame.gen
    BY LayerTyped, FrameAssumption DEF Ids, Base
  <2>2. layers'[p] = Placed(layer, layers[p]) /\ layers[p] \subseteq Layers
    BY <1>2, <1>8 DEF Draw, TermTyped
  <2>3. stored'[p] = {Decode(frame)} /\ Decode(frame).gen = frame.gen
    BY <1>2, <1>8, DecodeTyped DEF TermTyped
  <2> HIDE DEF layer
  <2>4. ASSUME NEW l \in layers'[p]
        PROVE  /\ l.id # Base => l.cover \subseteq damage[p]
               /\ l.id = Base => l.gen = frame.gen
    <3>1. CASE l.id = layer.id /\ l.gen = layer.gen
      BY <2>1, <3>1
    <3>2. ASSUME l.id # layer.id, NEW k \in layers[p], k.id = l.id, k.cover = l.cover
          PROVE  l.id # Base /\ l.cover \subseteq damage[p]
      BY <1>6, <2>1, <3>2 DEF LayersTrue
    <3> QED BY <2>1, <2>2, <3>1, <3>2, PlacedKeeps
  <2>5. LayersTrue(p)'
    BY <1>6, <2>3, <2>4 DEF LayersTrue
  <2>6. ASSUME Current(p, frame), NEW c \in Columns \ dirt'[p]
        PROVE  RightAt(p, c)'
    <3>1. CurrentAfter(p, frame)
      BY <1>5, <2>6, LooksOnIsCurrent
    <3>a. c \in layer.cover
      BY <2>1
    <3>b. layer \in Layers /\ layers[p] \subseteq Layers
      BY <2>1, <2>2
    <3>2. PICK l \in Placed(layer, layers[p]) :
            /\ OnTop(Placed(layer, layers[p]), c, l)
            /\ l.tab = layer.tab /\ l.pix = layer.pix /\ l.gen = layer.gen
      BY <3>a, <3>b, PlacedIsSeen
    <3>3. l.tab = active'[p] /\ l.pix[c] = page'[active'[p]][c] /\ l.gen = gen'[p]
      BY <2>1, <2>6, <3>1, <3>2 DEF CurrentAfter
    <3> QED BY <2>2, <3>2, <3>3 DEF RightAt
  <2> QED BY <1>1, <1>5, <2>5, <2>6, DoneSuffices
<1> QED BY <1>1, <1>7, <1>8

(* A frame that could not be written is lost or too old (WorkerFails).      *)
LEMMA InvWorkerFails ==
  ASSUME FrameInv, FrameTypes, WorkerFails, NEW p \in FramePanes, p = RepliedTo
  PROVE  FrameInv'
<1>1. /\ jobs # <<>> /\ Complete(p)
      /\ \/ Discard(p)
         \/ lost' = [lost EXCEPT ![p] = TRUE] /\ UNCHANGED <<layers, stored>>
      /\ Stale(p) \/ lost' = [lost EXCEPT ![p] = TRUE]
      /\ dirt' = [dirt EXCEPT ![FirstPane] = Columns] \/ dirt' = dirt
      /\ UNCHANGED <<page, visible, active, cache, alive, crossed>>
  BY DEF WorkerFails, DirtyAll
<1>2. PageTyped /\ PaneTyped /\ WaitTyped /\ WorkTyped /\ TermTyped
  BY DEF FrameTypes
<1>3. /\ UNCHANGED <<gen, damage, pending>> /\ queued' = [queued EXCEPT ![p] = {}]
      /\ handed' = [handed EXCEPT ![p] = HandedNext(p)]
  BY <1>1 DEF Complete
<1>4. /\ \A q \in FramePanes \ {p} : layers'[q] = layers[q] /\ stored'[q] = stored[q]
                                    /\ lost'[q] = lost[q]
  BY <1>1, <1>2, <1>3 DEF Discard, Draw, TermTyped
<1>5. \A q \in FramePanes : dirt[q] \subseteq dirt'[q]
  BY <1>1, <1>2 DEF PageTyped
<1>6. OthersLeft(p) /\ LooksOn(p)
  BY <1>1, <1>2, <1>3, <1>4, <1>5 DEF OthersLeft, LeftAlone, Idle, LooksOn, WaitTyped
<1>7. LayersTrue(p) /\ damage'[p] = damage[p]
  BY <1>3 DEF FrameInv, PaneTrue
<1>8. LayersTrue(p)'
  <2>1. CASE Discard(p)
    BY <1>2, <1>7, <2>1, DiscardKeeps
  <2>2. CASE UNCHANGED <<layers, stored>>
    BY <1>7, <2>2 DEF LayersTrue
  <2> QED BY <1>1, <2>1, <2>2
<1>9. Stale(p) \/ lost'[p]
  BY <1>1, <1>2, <1>3 DEF TermTyped
<1> QED BY <1>1, <1>6, <1>8, <1>9, DoneSuffices

(* The frames in the worker are lost with it (WorkerDies).                  *)
LEMMA InvWorkerDies ==
  ASSUME FrameInv, FrameTypes, WorkerDies
  PROVE  FrameInv'
<1>1. /\ jobs' = <<>>
      /\ lost' = [p \in FramePanes |-> lost[p] \/ handed[p] # {}]
      /\ handed' = [p \in FramePanes |-> {}] /\ queued' = [p \in FramePanes |-> {}]
      /\ UNCHANGED <<pageVars, gen, damage, pending, layers, stored, crossed>>
  BY DEF WorkerDies
<1>2. ASSUME NEW p \in FramePanes PROVE PaneTrue(p)'
  <2>1. PaneTrue(p) /\ LooksOn(p)
    BY <1>1 DEF FrameInv, LooksOn, pageVars
  <2>2. \A f : Current(p, f) => CurrentAfter(p, f)
    BY <2>1, LooksOnIsCurrent
  <2>3. LayersTrue(p)'
    BY <1>1, <2>1 DEF PaneTrue, LayersTrue
  <2>4. ASSUME visible[p], pending[p] = {}, ~lost'[p], ~crossed[p], NEW c \in Columns \ dirt[p]
        PROVE  RightAt(p, c)'
    <3>1. ~lost[p] /\ handed[p] = {} /\ queued[p] = {}
      BY <1>1, <2>1, <2>4 DEF PaneTrue
    <3>2. RightAt(p, c)
      BY <2>1, <2>4, <3>1 DEF PaneTrue
    <3> QED BY <1>1, <3>2 DEF RightAt, OnTop, pageVars
  <2>5. handed'[p] = {} /\ queued'[p] = {} /\ UNCHANGED <<dirt, visible, active>>
    BY <1>1 DEF pageVars
  <2> QED BY <1>1, <2>1, <2>2, <2>3, <2>4, <2>5 DEF PaneTrue, Current, CurrentAfter
<1>3. JobsInv'
  BY <1>1 DEF JobsInv
<1> QED BY <1>2, <1>3 DEF FrameInv

\* Only the base is left, and it is the one the terminal stores.
BaseOnly(p, screen) ==
  \A l \in screen : l.id = Base /\ \E f \in stored[p] : f.gen = l.gen

(* Without its patches a pane has its base at most.                         *)
LEMMA BareIsBase ==
  ASSUME TermTyped, NEW p \in FramePanes, LayersTrue(p)
  PROVE  BaseOnly(p, Without(PatchIds, layers[p]))
<1>1. layers[p] \subseteq Layers
  BY DEF TermTyped
<1>2. ASSUME NEW l \in Without(PatchIds, layers[p])
      PROVE  l.id = Base /\ \E f \in stored[p] : f.gen = l.gen
  <2>1. PICK k \in layers[p] : k.id = l.id /\ k.cover = l.cover /\ k.gen = l.gen
    BY <1>1, WithoutKeeps
  <2>2. l.id \notin PatchIds /\ k.id \in Ids
    BY <1>1, WithoutKeeps DEF Layers
  <2> QED BY <2>1, <2>2 DEF PatchIds, LayersTrue
<1> QED BY <1>2 DEF BaseOnly

(* Placing the stored base again adds nothing else.                         *)
LEMMA ReplacedIsBase ==
  ASSUME TermTyped, NEW p \in FramePanes, NEW screen, screen \subseteq Layers, BaseOnly(p, screen)
  PROVE  BaseOnly(p, Replaced(p, screen))
<1>1. CASE stored[p] = {}
  BY <1>1 DEF Replaced
<1>2. CASE stored[p] # {}
  <2> DEFINE f == CHOOSE x \in stored[p] : TRUE
             layer == Layer(Base, Columns, f)
  <2>1. f \in stored[p] /\ f \in Frames
    BY <1>2 DEF TermTyped
  <2>2. layer \in Layers /\ layer.id = Base /\ layer.gen = f.gen
    BY <2>1, LayerTyped, FrameAssumption DEF Ids, Base
  <2>3. Replaced(p, screen) = Placed(layer, screen)
    BY <1>2 DEF Replaced
  <2> HIDE DEF layer, f
  <2>4. ASSUME NEW l \in Placed(layer, screen)
        PROVE  l.id = Base /\ \E g \in stored[p] : g.gen = l.gen
    <3>1. CASE l.id = layer.id /\ l.gen = layer.gen
      BY <2>1, <2>2, <3>1
    <3>2. ASSUME l.id # layer.id, NEW k \in screen, k.id = l.id PROVE FALSE
      BY <2>2, <3>2 DEF BaseOnly
    <3> QED BY <2>2, <3>1, <3>2, PlacedKeeps
  <2> QED BY <2>3, <2>4 DEF BaseOnly
<1> QED BY <1>1, <1>2

(* A resized pane is painted whole (Resize).                                *)
LEMMA InvResize ==
  ASSUME FrameInv, FrameTypes, NEW p \in FramePanes, NEW strands \in BOOLEAN, Resize(p, strands)
  PROVE  FrameInv'
<1> DEFINE bare == Without(PatchIds, layers[p])
           bald == Without({Base}, bare)
<1>1. /\ UNCHANGED <<page, visible, active, handed, jobs, stored, lost, crossed>>
      /\ gen' = [gen EXCEPT ![p] = gen[p] + 1]
      /\ pending' = [pending EXCEPT ![p] = {}] /\ queued' = [queued EXCEPT ![p] = {}]
      /\ damage' = [damage EXCEPT ![p] = {}]
      /\ IF visible[p] THEN dirt' = [dirt EXCEPT ![p] = Columns] ELSE dirt' = dirt
      /\ Draw(p, bare) \/ Draw(p, Replaced(p, bare)) \/ Draw(p, Replaced(p, bald))
  BY DEF Resize, DirtyAll, workVars
<1>2. PageTyped /\ PaneTyped /\ WaitTyped /\ TermTyped /\ PaneTrue(p)
  BY DEF FrameTypes, FrameInv
<1>3. bare \subseteq Layers /\ bald \subseteq Layers
  <2>1. bare \subseteq Layers /\ Stacked(bare)
    BY <1>2, WithoutTyped DEF TermTyped
  <2> QED BY <2>1, WithoutTyped
<1>4. BaseOnly(p, bare)
  BY <1>2, BareIsBase DEF PaneTrue
<1>5. bald = {}
  BY <1>4 DEF BaseOnly, Without
<1> HIDE DEF bare, bald
<1>6. \A screen : Draw(p, screen) => layers'[p] = screen
  BY <1>2 DEF Draw, TermTyped
<1>7. BaseOnly(p, layers'[p])
  <2>1. BaseOnly(p, bald)
    BY <1>5 DEF BaseOnly
  <2>2. BaseOnly(p, Replaced(p, bare)) /\ BaseOnly(p, Replaced(p, bald))
    BY <1>2, <1>3, <1>4, <2>1, ReplacedIsBase
  <2> QED BY <1>1, <1>4, <1>6, <2>2
<1>8. LayersTrue(p)'
  BY <1>1, <1>7 DEF BaseOnly, LayersTrue
<1>9. OthersLeft(p)
  <2>1. ASSUME NEW q \in FramePanes \ {p}
        PROVE  /\ gen'[q] = gen[q] /\ dirt'[q] = dirt[q] /\ layers'[q] = layers[q]
               /\ pending'[q] = pending[q] /\ queued'[q] = queued[q] /\ damage'[q] = damage[q]
    BY <1>1, <1>2 DEF PageTyped, PaneTyped, WaitTyped, TermTyped, Draw
  <2> QED BY <1>1, <2>1 DEF OthersLeft, LeftAlone, Idle, LooksOn
<1>10. Blind(p)
  BY <1>1, <1>2 DEF Blind, PageTyped
<1>11. PaneOf[active'[p]] = p /\ handed'[p] = handed[p] /\ queued'[p] \subseteq queued[p]
  BY <1>1, <1>2 DEF PaneTrue, WaitTyped
<1> QED BY <1>1, <1>8, <1>9, <1>10, <1>11, BlindSuffices

(* A hidden pane has nothing placed or stored (Hide).                       *)
LEMMA InvHide ==
  ASSUME FrameInv, FrameTypes, NEW p \in FramePanes, Hide(p)
  PROVE  FrameInv'
<1>1. /\ visible' = [visible EXCEPT ![p] = FALSE] /\ layers' = [layers EXCEPT ![p] = {}]
      /\ stored' = [stored EXCEPT ![p] = {}]
      /\ UNCHANGED <<page, dirt, active, framePaneVars, workVars, lost, crossed>>
  BY DEF Hide, Draw
<1>2. PageTyped /\ TermTyped /\ PaneTrue(p)
  BY DEF FrameTypes, FrameInv
<1>3. OthersLeft(p)
  BY <1>1, <1>2 DEF OthersLeft, LeftAlone, Idle, LooksOn, framePaneVars, PageTyped, TermTyped
<1>4. LayersTrue(p)' /\ Blind(p)
  BY <1>1, <1>2 DEF LayersTrue, Blind, PageTyped, TermTyped
<1> QED BY <1>1, <1>2, <1>3, <1>4, BlindSuffices DEF framePaneVars, workVars, PaneTrue

(* A pane that is shown again is painted whole (Show).                      *)
LEMMA InvShow ==
  ASSUME FrameInv, FrameTypes, NEW p \in FramePanes, Show(p)
  PROVE  FrameInv'
<1>1. /\ visible' = [visible EXCEPT ![p] = TRUE] /\ dirt' = [dirt EXCEPT ![p] = Columns]
      /\ pending' = [pending EXCEPT ![p] = Cached(p, active[p])] \/ pending' = pending
      /\ UNCHANGED <<page, active, gen, damage, handed, queued, workVars, termVars>>
  BY DEF Show, DirtyAll
<1>2. PageTyped /\ WaitTyped /\ PaneTrue(p)
  BY DEF FrameTypes, FrameInv
<1>3. \A q \in FramePanes \ {p} : pending'[q] = pending[q]
  BY <1>1, <1>2 DEF WaitTyped
<1>4. OthersLeft(p)
  BY <1>1, <1>2, <1>3 DEF OthersLeft, LeftAlone, Idle, LooksOn, termVars, PageTyped
<1>5. LayersTrue(p)' /\ Blind(p)
  BY <1>1, <1>2 DEF LayersTrue, Blind, PageTyped, PaneTrue, termVars
<1> QED BY <1>1, <1>2, <1>4, <1>5, BlindSuffices DEF workVars, PaneTrue

(* So is a pane that shows another tab (Activate).                          *)
LEMMA InvActivate ==
  ASSUME FrameInv, FrameTypes, NEW p \in FramePanes, NEW t \in Tabs, Activate(p, t)
  PROVE  FrameInv'
<1>1. /\ PaneOf[t] = p /\ active' = [active EXCEPT ![p] = t]
      /\ IF visible[p] THEN dirt' = [dirt EXCEPT ![p] = Columns] ELSE dirt' = dirt
      /\ \/ \E f : pending' = [pending EXCEPT ![p] = f]
         \/ pending' = pending
      /\ UNCHANGED <<page, visible, gen, damage, handed, queued, workVars, termVars>>
  BY DEF Activate, DirtyAll
<1>2. PageTyped /\ WaitTyped /\ PaneTrue(p)
  BY DEF FrameTypes, FrameInv
<1>3. \A q \in FramePanes \ {p} : pending'[q] = pending[q]
  BY <1>1, <1>2 DEF WaitTyped
<1>4. OthersLeft(p)
  BY <1>1, <1>2, <1>3 DEF OthersLeft, LeftAlone, Idle, LooksOn, termVars, PageTyped
<1>5. LayersTrue(p)' /\ Blind(p) /\ PaneOf[active'[p]] = p
  BY <1>1, <1>2 DEF LayersTrue, Blind, PageTyped, PaneTrue, termVars
<1> QED BY <1>1, <1>2, <1>4, <1>5, BlindSuffices DEF workVars

(* A step that leaves every pane alone.                                     *)
LEMMA AllLeftSuffices ==
  ASSUME FrameInv, FrameTypes, jobs' = jobs, \A q \in FramePanes : LeftAlone(q)
  PROVE  FrameInv'
<1>1. \A q \in FramePanes : PaneTrue(q)'
  BY LeftAloneIsTrue DEF FrameInv
<1>2. ASSUME NEW i \in 1 .. Len(jobs) PROVE JobTrueAfter(jobs[i])
  <2>1. jobs[i] \in Jobs
    BY DEF FrameTypes, WorkTyped
  <2> QED BY <2>1, JobStays DEF Jobs, FrameInv, JobsInv, LeftAlone
<1> QED BY <1>1, <1>2, JobsStay DEF FrameInv

(* The invariant holds initially.                                           *)
LEMMA InvBegin == FramesInit => FrameInv
<1> SUFFICES ASSUME FramesInit PROVE FrameInv
  OBVIOUS
<1>1. ASSUME NEW p \in FramePanes PROVE PaneTrue(p)
  BY FrameAssumption DEF FramesInit, PaneTrue, LayersTrue
<1>2. JobsInv
  BY DEF FramesInit, JobsInv
<1> QED BY <1>1, <1>2 DEF FrameInv

(* Every step keeps the invariant.                                          *)
LEMMA InvStep == FrameInv /\ FrameTypes /\ [FramesNext]_vars => FrameInv'
<1> SUFFICES ASSUME FrameInv, FrameTypes, [FramesNext]_vars PROVE FrameInv'
  OBVIOUS
<1>1. CASE PageStep
  BY <1>1, InvPageChanges DEF PageStep
<1>2. ASSUME NEW p \in FramePanes, EngineStep(p) \/ UserStep(p) PROVE FrameInv'
  <2>1. CASE Reconcile(p)
    BY <2>1, AllLeftSuffices DEF Reconcile, pageVars, framePaneVars, workVars, termVars, LeftAlone,
                                 Idle, LooksOn
  <2> QED BY <1>2, <2>1, InvPaint, InvFlush, InvResize, InvHide, InvShow, InvActivate
             DEF EngineStep, UserStep
<1>3. CASE WorkerStep
  <2>1. jobs # <<>>
    BY <1>3 DEF WorkerStep, WorkerReplies, WorkerFails
  <2>2. Head(jobs) \in Jobs
    BY <2>1 DEF FrameTypes, WorkTyped
  <2>3. PICK p \in FramePanes : p = RepliedTo
    BY <2>2 DEF Jobs, RepliedTo
  <2>4. PICK frame \in Encoded : frame = Head(jobs).frame
    BY <2>2 DEF Jobs
  <2> QED BY <1>3, <2>3, <2>4, InvWorkerReplies, InvWorkerFails DEF WorkerStep
<1>4. CASE UNCHANGED vars
  BY <1>4, AllLeftSuffices DEF vars, pageVars, framePaneVars, workVars, termVars, LeftAlone, Idle,
                               LooksOn
<1> QED BY <1>1, <1>2, <1>3, <1>4, InvWorkerDies DEF FramesNext

-----------------------------------------------------------------------------
(* The theorems.                                                            *)

(* The invariant implies that a still pane is right.                        *)
LEMMA InvSuffices == FrameTypes /\ FrameInv => PaneIsRight
<1> SUFFICES ASSUME FrameTypes, FrameInv PROVE PaneIsRight
  OBVIOUS
<1>1. ASSUME NEW p \in FramePanes, visible[p], Still(p), ~lost[p], ~crossed[p] PROVE Right(p)
  <2>1. \A c \in Columns \ dirt[p] : RightAt(p, c)
    BY <1>1 DEF FrameInv, PaneTrue, Still
  <2> QED BY <1>1, <2>1 DEF Right, Still
<1> QED BY <1>1, TypesSuffice DEF PaneIsRight, StillIsRight

(* The terminal stores a base only for the geometry it was made for.        *)
StoredIsCurrent == \A p \in FramePanes : \A f \in stored'[p] : f \in stored[p] \/ f.gen = gen'[p]

(* Only a frame of the pane's own generation becomes the stored base.       *)
LEMMA StoredStep ==
  ASSUME FrameTypes, FrameInv, [FramesNext]_vars
  PROVE  StoredIsCurrent
<1>a. stored \in [FramePanes -> SUBSET Frames]
  BY DEF FrameTypes, TermTyped
<1>1. CASE UNCHANGED stored
  BY <1>1 DEF StoredIsCurrent
<1>2. ASSUME NEW p \in FramePanes, stored' = [stored EXCEPT ![p] = {}] PROVE StoredIsCurrent
  BY <1>2, <1>a DEF StoredIsCurrent
<1>3. CASE WorkerStep
  <2>1. jobs # <<>>
    BY <1>3 DEF WorkerStep, WorkerReplies, WorkerFails
  <2>2. Head(jobs) \in Jobs /\ Head(jobs) = jobs[1] /\ 1 \in 1 .. Len(jobs)
    BY <2>1 DEF FrameTypes, WorkTyped
  <2>3. PICK p \in FramePanes : p = RepliedTo
    BY <2>2 DEF Jobs, RepliedTo
  <2>4. PICK frame \in Encoded : frame = Head(jobs).frame
    BY <2>2 DEF Jobs
  <2>5. handed[p] = {frame.gen}
    BY <2>2, <2>3, <2>4 DEF RepliedTo, FrameInv, JobsInv, JobIsTrue
  <2>6. CASE Discard(p) \/ UNCHANGED stored
    BY <1>1, <1>2, <2>6 DEF Discard
  <2>7. CASE stored' = [stored EXCEPT ![p] = {Decode(frame)}] /\ ~Stale(p) /\ gen' = gen
    <3>1. Decode(frame).gen = gen'[p]
      BY <2>5, <2>7, DecodeTyped DEF Stale
    <3>2. \A q \in FramePanes : stored'[q] = IF q = p THEN {Decode(frame)} ELSE stored[q]
      BY <1>a, <2>7
    <3> QED BY <2>7, <3>1, <3>2 DEF StoredIsCurrent
  <2>8. gen' = gen
    BY <1>3 DEF WorkerStep, WorkerReplies, WorkerFails, Complete
  <2>9. \/ Discard(p) \/ UNCHANGED stored
        \/ ~Stale(p) /\ stored' = [stored EXCEPT ![p] = {Decode(frame)}]
    BY <1>3, <2>3, <2>4 DEF WorkerStep, WorkerReplies, WorkerFails
  <2> QED BY <2>6, <2>7, <2>8, <2>9
<1>4. CASE FramesNext /\ ~WorkerStep
  <2>1. UNCHANGED stored \/ \E p \in FramePanes : stored' = [stored EXCEPT ![p] = {}]
    <3>1. PageStep \/ WorkerDies => UNCHANGED stored
      <4>1. PageStep => UNCHANGED stored
        BY DEF PageStep, PageChanges, termVars
      <4>2. WorkerDies => UNCHANGED stored
        BY DEF WorkerDies, termVars
      <4> QED BY <4>1, <4>2
    <3>2. \A p \in FramePanes : EngineStep(p) => UNCHANGED stored
      BY DEF EngineStep, Paint, SendPatch, Wait, Flush, termVars
    <3>3. \A p \in FramePanes : UserStep(p) =>
            UNCHANGED stored \/ stored' = [stored EXCEPT ![p] = {}]
      <4>1. ASSUME NEW p \in FramePanes, NEW strands \in BOOLEAN, Resize(p, strands)
            PROVE  UNCHANGED stored \/ stored' = [stored EXCEPT ![p] = {}]
        BY <4>1 DEF Resize, termVars
      <4>2. ASSUME NEW p \in FramePanes, Hide(p) \/ Reconcile(p) \/ Show(p)
            PROVE  UNCHANGED stored \/ stored' = [stored EXCEPT ![p] = {}]
        BY <4>2 DEF Hide, Reconcile, Show, termVars
      <4>3. ASSUME NEW p \in FramePanes, NEW t \in Tabs, Activate(p, t)
            PROVE  UNCHANGED stored \/ stored' = [stored EXCEPT ![p] = {}]
        BY <4>3 DEF Activate, termVars
      <4> QED BY <4>1, <4>2, <4>3 DEF UserStep
    <3> QED BY <1>4, <3>1, <3>2, <3>3 DEF FramesNext
  <2> QED BY <1>1, <1>2, <2>1
<1>5. CASE UNCHANGED vars
  BY <1>1, <1>5 DEF vars, termVars
<1> QED BY <1>3, <1>4, <1>5

\* What DrawnIsCurrent says of a step.
BaseIsCurrent ==
  \A p \in FramePanes : \A l \in BaseOf(p)' :
    l.gen = gen'[p] \/ \E f \in stored[p] : f.gen = l.gen

(* So only such a frame is newly drawn.                                     *)
LEMMA BaseStep ==
  ASSUME FrameTypes, FrameInv, [FramesNext]_vars
  PROVE  BaseIsCurrent
<1>1. FrameInv' /\ StoredIsCurrent
  BY InvStep, StoredStep
<1>2. ASSUME NEW p \in FramePanes, NEW l \in BaseOf(p)'
      PROVE  l.gen = gen'[p] \/ \E f \in stored[p] : f.gen = l.gen
  <2>1. l \in layers'[p] /\ l.id = Base
    BY <1>2 DEF BaseOf
  <2>2. PICK f \in stored'[p] : f.gen = l.gen
    BY <1>1, <2>1 DEF FrameInv, PaneTrue, LayersTrue
  <2> QED BY <1>1, <2>2 DEF StoredIsCurrent
<1> QED BY <1>2 DEF BaseIsCurrent

(* Types and invariant hold in every state.                                 *)
LEMMA PipelineInvariant == FramesSpec => [](FrameTypes /\ FrameInv)
<1>1. FramesInit => FrameTypes /\ FrameInv
  BY TypesBegin, InvBegin
<1>2. (FrameTypes /\ FrameInv) /\ [FramesNext]_vars => (FrameTypes /\ FrameInv)'
  BY TypesStep, InvStep
<1> QED BY <1>1, <1>2, PTL DEF FramesSpec

(* A visible pane that nothing is on its way for shows its active tab's     *)
(* page, whatever patches, dropped frames, tab caches, resizes and late     *)
(* answers of the worker led there.                                         *)
THEOREM PaneShowsItsPage == FramesSpec => []PaneIsRight
<1>1. FrameTypes /\ FrameInv => PaneIsRight
  BY InvSuffices
<1> QED BY <1>1, PipelineInvariant, PTL

(* A whole frame reaches the screen only while its pane has the geometry it *)
(* was made for: completeGfxFrame throws the others away.                   *)
THEOREM NoOldFrameIsDrawn == FramesSpec => DrawnIsCurrent
<1>1. (FrameTypes /\ FrameInv) /\ [FramesNext]_vars => BaseIsCurrent
  BY BaseStep
<1>2. FramesSpec => [][BaseIsCurrent]_vars
  BY <1>1, PipelineInvariant, PTL DEF FramesSpec
<1> QED BY <1>2 DEF DrawnIsCurrent, BaseIsCurrent
=============================================================================
