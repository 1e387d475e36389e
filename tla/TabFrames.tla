---- MODULE TabFrames ----
(***************************************************************************)
(* The frames of one tab in Chrome and what the engine keeps of them: the  *)
(* frame records and child sessions of cdp/web-contents.cjs, the frames    *)
(* main.cjs takes for ready, the frame that owns the native keys, and the  *)
(* hint rounds that are shared by all frames (main.cjs, preload.cjs).      *)
(* Chrome sends events in one order over one socket; what the engine sends *)
(* to a page is evaluated in its context, in order, if that still lives.   *)
(***************************************************************************)
EXTENDS Integers, FiniteSets, SequencesExt

CONSTANTS
  Subs,       \* subframes, each there at most once
  MaxDocs,    \* documents a behaviour may load
  Targets,    \* how many targets a document may have
  Keys,       \* labels the user types into a round, and keys that are none
  Backspace,  \* a key that is no label
  Scenes      \* budgets: reloads, changes of subframes, keys, focus changes, torn-down pickers

FramesAssumption ==
  /\ "main" \notin Subs /\ Targets \subseteq Nat /\ MaxDocs \in Nat
  /\ Scenes \subseteq [reloads : Nat, moves : Nat, keys : Nat, focuses : Nat, losses : Nat]
ASSUME FramesAssumption

VARIABLES
  tree,     \* Chrome: each frame's process and context (0 while it loads), or Gone
  doc,      \* each living context: its targets, its pending count, its picker, the native keys
  loaded,   \* contexts made so far
  wire,     \* events and messages on their way to the engine
  down,     \* messages on their way to each context
  frames,   \* CdpWebContents.frames
  ready,    \* readyFrameKeys
  round,    \* the open hint round, or NoRound; history: the main document its last key went to
  serial,   \* hintRoundSerial
  owner,    \* insertModeOwners and inputState().insertMode
  lapses,   \* history: what the comments rule out and the code lets through
  left      \* the scene's budgets

chromeSide == <<tree, doc, loaded, down>>
engineSide == <<frames, ready, round, serial, owner>>
tabVars == <<chromeSide, wire, engineSide, lapses, left>>

Contexts == 1 .. MaxDocs
FrameIds == {"main"} \cup Subs
Gone == [session |-> "none", ctx |-> 0]
Root == "root"
NoFrame == [session |-> "none", iso |-> 0, parent |-> "none", detached |-> TRUE]
NoRound == [id |-> 0, expected |-> {}, counts |-> <<>>, open |-> FALSE, waited |-> FALSE, total |-> 0,
            drawn |-> {}, missed |-> {}, typed |-> <<>>,
            told |-> 0]
NoPicker == [round |-> 0, labels |-> {}, typed |-> <<>>]
Fresh(n) == [targets |-> n, pending |-> 0, picker |-> NoPicker, native |-> FALSE]
NoDoc == Fresh(0)

TabInit ==
  /\ tree = [f \in FrameIds |-> IF f = "main" THEN [session |-> Root, ctx |-> 1] ELSE Gone]
  /\ loaded = 1
  /\ \E n \in Targets : doc = [c \in Contexts |-> IF c = 1 THEN Fresh(n) ELSE NoDoc]
  /\ wire = <<>> /\ down = [c \in Contexts |-> <<>>]
  /\ frames = [f \in FrameIds |-> IF f = "main"
                 THEN [session |-> Root, iso |-> 1, parent |-> "none", detached |-> FALSE] ELSE NoFrame]
  /\ ready = {<<Root, "main">>}
  /\ round = NoRound /\ serial = 0
  /\ owner = [on |-> FALSE, key |-> <<>>]
  /\ lapses = {} /\ left \in Scenes

Living == {c \in Contexts : \E f \in FrameIds : tree[f].ctx = c}
FrameOf(c) == CHOOSE f \in FrameIds : tree[f].ctx = c

Spends(what) == left[what] > 0 /\ left' = [left EXCEPT ![what] = @ - 1]
Event(kind, f, s) == [kind |-> kind, frame |-> f, session |-> s]
Says(c, kind, value) == [kind |-> kind, ctx |-> c, session |-> tree[FrameOf(c)].session, value |-> value]

-----------------------------------------------------------------------------
\* Chrome. A context that goes takes its page and its messages along.

Loses(fs) ==
  LET cs == {tree[f].ctx : f \in fs} IN
    /\ doc' = [c \in Contexts |-> IF c \in cs THEN NoDoc ELSE doc[c]]
    /\ down' = [c \in Contexts |-> IF c \in cs THEN <<>> ELSE down[c]]

\* What a subframe that goes may leave behind: its part in a round, and the native keys.
Unbadged(fs) == IF \E k \in round.expected : k[2] \in fs THEN {"badges"} ELSE {}
Lapsed(f) ==
  lapses \cup Unbadged({f})
         \cup (IF tree[f].ctx # 0 /\ doc[tree[f].ctx].native THEN {"keys"} ELSE {})

\* The old document's iframes go without a word, but for the sessions of those in processes of
\* their own.
MainReloads ==
  /\ Spends("reloads")
  /\ LET apart == {f \in Subs : tree[f].session = f} IN
       wire' = wire \o <<Event("started", "main", Root), Event("navigated", "main", Root),
                         Event("cleared", "main", Root)>>
                    \o SetToSeq({Event("childGone", f, f) : f \in apart})
  /\ Loses(FrameIds) /\ lapses' = lapses \cup Unbadged(Subs)
  /\ tree' = [f \in FrameIds |-> IF f = "main" THEN [session |-> Root, ctx |-> 0] ELSE Gone]
  /\ UNCHANGED <<loaded, engineSide>>

\* A document begins: its context is made and the page script announces itself. A child process
\* waits until the engine has prepared it.
DocumentBegins(f) ==
  /\ tree[f] # Gone /\ tree[f].ctx = 0 /\ loaded + 1 \in Contexts
  /\ tree[f].session = Root \/ frames[f].session = f
  /\ loaded' = loaded + 1
  /\ tree' = [tree EXCEPT ![f].ctx = loaded']
  /\ \E n \in Targets : doc' = [doc EXCEPT ![loaded'] = Fresh(n)]
  /\ wire' = wire \o <<[kind |-> "context", frame |-> f, session |-> tree[f].session, ctx |-> loaded'],
                       [kind |-> "ready", ctx |-> loaded', session |-> tree[f].session, value |-> 0]>>
  /\ UNCHANGED <<down, engineSide, lapses, left>>

FrameAdded(f) ==
  /\ tree[f] = Gone /\ frames[f] = NoFrame /\ tree["main"].ctx # 0 /\ Spends("moves")
  /\ \E s \in {Root, f} :
       /\ tree' = [tree EXCEPT ![f] = [session |-> s, ctx |-> 0]]
       /\ wire' = wire \o <<Event("attached", f, Root)>>
                       \o (IF s = f THEN <<Event("swapped", f, Root), Event("child", f, f)>> ELSE <<>>)
  /\ UNCHANGED <<doc, loaded, down, engineSide, lapses>>

FrameRemoved(f) ==
  /\ tree[f] # Gone /\ Spends("moves")
  /\ wire' = wire \o (IF tree[f].session = f THEN <<Event("childGone", f, f)>> ELSE <<>>)
                  \o <<Event("detached", f, Root)>>
  /\ Loses({f}) /\ tree' = [tree EXCEPT ![f] = Gone] /\ lapses' = Lapsed(f)
  /\ UNCHANGED <<loaded, engineSide>>

\* A subframe goes to another page, in its process or in another.
FrameMoves(f) ==
  /\ tree[f] # Gone /\ tree[f].ctx # 0 /\ Spends("moves")
  /\ \E s \in {Root, f} :
       /\ tree' = [tree EXCEPT ![f] = [session |-> s, ctx |-> 0]]
       /\ wire' = wire \o
            CASE s = Root /\ tree[f].session = Root ->
                   <<Event("started", f, Root), Event("navigated", f, Root)>>
              [] s = f /\ tree[f].session = Root ->
                   <<Event("started", f, Root), Event("swapped", f, Root), Event("child", f, f)>>
              [] s = Root /\ tree[f].session = f ->
                   <<Event("navigated", f, Root), Event("childGone", f, f)>>
              [] OTHER -> <<Event("navigated", f, f), Event("cleared", f, f)>>
  /\ Loses({f}) /\ lapses' = Lapsed(f)
  /\ UNCHANGED <<loaded, engineSide>>

-----------------------------------------------------------------------------
\* The engine's frames.

Key(fs, f) == <<fs[f].session, f>>
\* framesInSubtree of the main frame, with the main frame: what a broadcast and a round go through.
Shown == {f \in FrameIds : ~frames[f].detached /\ (f = "main" \/ frames[f].parent = "main")}

\* frameKey of the frame a context belongs to, by frameForContext.
Known(m) == {f \in FrameIds : frames[f].session = m.session /\ frames[f].iso = m.ctx}

\* ensureFrame: a frame that moved into another process has no context yet.
Ensured(f, s) ==
  [frames EXCEPT ![f] = IF @ = NoFrame THEN [session |-> s, iso |-> 0, parent |-> "none", detached |-> FALSE]
                        ELSE IF @.session # s THEN [@ EXCEPT !.session = s, !.iso = 0, !.detached = FALSE]
                        ELSE [@ EXCEPT !.detached = FALSE]]

Hears(kind) == wire # <<>> /\ Head(wire).kind = kind /\ wire' = Tail(wire)
Unasked == UNCHANGED <<chromeSide, round, serial, owner, lapses, left>>

\* onFrameStartedLoading of a new document, and main.cjs's did-start-navigation.
OnFrameStarted ==
  /\ Hears("started")
  /\ LET m == Head(wire) IN
       frames' = Ensured(m.frame, m.session) /\ ready' = ready \ {Key(frames', m.frame)}
  /\ Unasked

\* onFrameNavigated: a committed document has no children yet (dropChildFrames).
OnFrameNavigated ==
  /\ Hears("navigated")
  /\ LET m == Head(wire) fs == Ensured(m.frame, m.session) IN
       frames' = [f \in FrameIds |->
                    IF fs[f].parent = m.frame THEN NoFrame
                    ELSE IF f = m.frame /\ f # "main" /\ m.session = Root THEN [fs[f] EXCEPT !.parent = "main"]
                    ELSE fs[f]]
  /\ UNCHANGED ready /\ Unasked

OnFrameAttached ==
  /\ Hears("attached")
  /\ LET m == Head(wire) IN frames' = [Ensured(m.frame, m.session) EXCEPT ![m.frame].parent = "main"]
  /\ UNCHANGED ready /\ Unasked

\* A frame that moved to another process lives on under a new session.
OnFrameDetached ==
  /\ Hears("detached") \/ Hears("swapped")
  /\ LET m == Head(wire) IN
       frames' = IF m.kind = "swapped" THEN frames ELSE [frames EXCEPT ![m.frame] = NoFrame]
  /\ UNCHANGED ready /\ Unasked

OnContextCreated ==
  /\ Hears("context")
  /\ LET m == Head(wire) IN frames' = [Ensured(m.frame, m.session) EXCEPT ![m.frame].iso = m.ctx]
  /\ UNCHANGED ready /\ Unasked

\* Contexts cleared whatever session they were in.
ClearsAll ==
  /\ Hears("cleared")
  /\ frames' = [f \in FrameIds |-> [frames[f] EXCEPT !.iso = 0]]
  /\ UNCHANGED ready /\ Unasked

OnContextsCleared ==
  /\ Hears("cleared")
  /\ frames' = [f \in FrameIds |-> IF frames[f].session = Head(wire).session THEN [frames[f] EXCEPT !.iso = 0]
                                   ELSE frames[f]]
  /\ UNCHANGED ready /\ Unasked

\* onChildAttached, to the end of prepareSession and the reading of its tree.
OnChildAttached ==
  /\ Hears("child")
  /\ LET m == Head(wire) IN frames' = [Ensured(m.frame, m.session) EXCEPT ![m.frame].parent = "main"]
  /\ UNCHANGED ready /\ Unasked

OnChildDetached ==
  /\ Hears("childGone")
  /\ frames' = [f \in FrameIds |-> IF frames[f].session = Head(wire).session
                                   THEN [frames[f] EXCEPT !.detached = TRUE] ELSE frames[f]]
  /\ UNCHANGED ready /\ Unasked

\* tweb-preload-ready: a fresh document of the main frame starts in normal mode.
OnPreloadReady ==
  /\ Hears("ready")
  /\ \/ \E f \in Known(Head(wire)) :
          /\ ~frames[f].detached
          /\ ready' = ready \cup {Key(frames, f)}
          /\ owner' = IF f = "main" THEN [on |-> FALSE, key |-> <<>>] ELSE owner
     \/ (\A f \in Known(Head(wire)) : frames[f].detached) /\ UNCHANGED <<ready, owner>>
  /\ UNCHANGED <<chromeSide, frames, round, serial, lapses, left>>

-----------------------------------------------------------------------------
\* Messages to the pages. A frame without a context is sent nothing.

Reached(fs) == {frames[f].iso : f \in {g \in fs : frames[g].iso \in Living}}
With(d, fs, m) == [c \in Contexts |-> IF c \in Reached(fs) THEN Append(d[c], m) ELSE d[c]]
ReadyFrames == {f \in Shown : Key(frames, f) \in ready}
\* sendToTabFrames: to all that are ready; it forgets the keys of frames that are gone.
Broadcast(d, m) == With(d, ReadyFrames, m)
Pruned == ready \cap {Key(frames, f) : f \in Shown}

EndMessage == [kind |-> "end"]
Answered == {x.key : x \in Range(round.counts)}
IndexIn(counts, k) == CHOOSE i \in DOMAIN counts : counts[i].key = k

\* endHintRound.
Ended(d) == IF round = NoRound THEN d ELSE Broadcast(d, EndMessage)

\* shareLabels: blocks in the order of the answers.
Sum(counts) == FoldSeq(LAMBDA x, n : n + x.count, 0, counts)

Offset(counts, k) == Sum(SelectSeq(counts, LAMBDA x : IndexIn(counts, x.key) < IndexIn(counts, k)))

\* closeHintRound: the labels are shared out, or a round without any ends.
Closed(r) ==
  LET total == Sum(r.counts)
      there == {f \in FrameIds : ~frames[f].detached /\ Key(frames, f) \in {x.key : x \in Range(r.counts)}}
      space(f) == [kind |-> "space", round |-> r.id, offset |-> Offset(r.counts, Key(frames, f)),
                   count |-> r.counts[IndexIn(r.counts, Key(frames, f))].count]
  IN IF total = 0 THEN round' = NoRound /\ ready' = Pruned /\ down' = Broadcast(down, EndMessage)
     ELSE /\ round' = [r EXCEPT !.open = TRUE, !.total = total,
                         !.drawn = {Key(frames, f) : f \in {g \in there : space(g).count > 0}}]
          /\ down' = [c \in Contexts |-> IF \E f \in there : frames[f].iso = c /\ c \in Living
                        THEN Append(down[c], space(CHOOSE f \in there : frames[f].iso = c)) ELSE down[c]]
          /\ UNCHANGED ready

Typing == UNCHANGED <<tree, doc, loaded, wire, frames, owner>>

\* `f`: a round takes the place of one still collecting; typed into an open one it is a label's key.
PressF ==
  /\ ~round.open /\ ~owner.on /\ Spends("keys")
  /\ LET asked == {Key(frames, f) : f \in ReadyFrames} IN
       /\ round' = IF asked = {} THEN NoRound ELSE [NoRound EXCEPT !.id = serial + 1, !.expected = asked]
       /\ serial' = IF asked = {} THEN serial ELSE serial + 1
  /\ ready' = Pruned
  /\ down' = Broadcast(Ended(down), [kind |-> "f"])
  /\ UNCHANGED lapses /\ Typing

\* routeHintKey, to every frame, since the label may be any one's.
PressKey(k) ==
  /\ round.open /\ ~owner.on /\ Spends("keys")
  /\ round' = [round EXCEPT !.missed = {}, !.told = IF "main" \in ReadyFrames THEN frames["main"].iso
                                                    ELSE 0,
                 !.typed = IF k # Backspace THEN Append(@, k) ELSE IF @ = <<>> THEN @ ELSE Front(@)]
  /\ ready' = Pruned
  /\ down' = Broadcast(down, [kind |-> "key", key |-> k, round |-> round.id])
  /\ UNCHANGED <<serial, lapses>> /\ Typing

PressEscape ==
  /\ round.open /\ ~owner.on /\ Spends("keys")
  /\ round' = NoRound /\ ready' = Pruned /\ down' = Ended(down)
  /\ UNCHANGED <<serial, lapses>> /\ Typing

\* hintRoundWaitElapsed: a slow main frame is waited for.
WaitElapses ==
  /\ round # NoRound /\ ~round.open /\ ~round.waited
  /\ LET main == Key(frames, "main") IN
       IF main \notin round.expected \/ main \in Answered
       THEN Closed([round EXCEPT !.waited = TRUE])
       ELSE round' = [round EXCEPT !.waited = TRUE] /\ UNCHANGED <<ready, down>>
  /\ UNCHANGED <<serial, lapses, left>> /\ Typing

CapElapses ==
  /\ round.waited /\ ~round.open
  /\ Closed(round)
  /\ UNCHANGED <<serial, lapses, left>> /\ Typing

-----------------------------------------------------------------------------
\* What the pages say. The sender is told by its context; a frame that is not known is not heard.

Heard(kind) == Hears(kind) /\ UNCHANGED <<tree, doc, loaded, frames, left>>
From(m) == {Key(frames, f) : f \in Known(m)}

\* noteHintCount.
OnHintCount ==
  /\ Heard("count")
  /\ LET m == Head(wire) news == (From(m) \cap round.expected) \ Answered IN
       IF news = {} THEN UNCHANGED <<round, ready, down>>
       ELSE LET k == CHOOSE x \in news : TRUE
                r == [round EXCEPT !.counts = Append(@, [key |-> k, count |-> m.value])]
            IN IF Len(r.counts) = Cardinality(r.expected) \/ (r.waited /\ k = Key(frames, "main"))
               THEN IF r.open THEN round' = r /\ UNCHANGED <<ready, down>> ELSE Closed(r)
               ELSE round' = r /\ UNCHANGED <<ready, down>>
  /\ UNCHANGED <<serial, owner, lapses>>

Ends(when) ==
  /\ IF when THEN round' = NoRound /\ ready' = (IF round = NoRound THEN ready
                                                ELSE Pruned) /\ down' = Ended(down)
     ELSE UNCHANGED <<round, ready, down>>
  /\ UNCHANGED <<serial, owner>>

\* hint-done carries no round.
OnHintDone ==
  /\ Heard("done") /\ From(Head(wire)) # {} /\ Ends(TRUE)
  /\ lapses' = IF round # NoRound /\ round.id # Head(wire).value THEN lapses \cup {"done"} ELSE lapses

\* A miss counts for the prefix typed now; the last of the frames that drew ends the round.
OnHintMiss ==
  /\ Heard("miss")
  /\ LET m == Head(wire) IN
       IF round.open /\ m.value = round.typed /\ From(m) # {}
       THEN IF Cardinality(round.missed \cup From(m)) >= Cardinality(round.drawn) THEN Ends(TRUE)
            ELSE round' = [round EXCEPT !.missed = @ \cup From(m)] /\ UNCHANGED <<ready, down, serial,
                                                                                  owner>>
       ELSE Ends(FALSE)
  /\ UNCHANGED lapses

\* drawnFrameGone.
DrawnFrameGone == \E k \in round.drawn : k \notin {Key(frames, f) : f \in Shown}
OnHintLost ==
  /\ Heard("lost")
  /\ LET m == Head(wire) IN
       Ends(round.open /\ m.value = round.id /\ (From(m) \cap round.drawn # {} \/ (From(m) # {} /\ DrawnFrameGone)))
  /\ UNCHANGED lapses

\* A frame the engine no longer knows is not heard.
OnStranger == Heard("done") /\ From(Head(wire)) = {} /\ Ends(FALSE) /\ UNCHANGED lapses

\* insert-mode: only its owner turns it off.
OnInsertMode ==
  /\ Heard("insert")
  /\ LET m == Head(wire) IN
       owner' = IF From(m) = {} THEN owner
                ELSE LET k == CHOOSE x \in From(m) : TRUE IN
                  IF m.value THEN [on |-> TRUE, key |-> k]
                  ELSE IF owner.key \in {<<>>, k} THEN [on |-> FALSE, key |-> <<>>] ELSE owner
  /\ UNCHANGED <<round, ready, down, serial, lapses>>

-----------------------------------------------------------------------------
\* The page script of a context.

Gets(c, kind) ==
  /\ down[c] # <<>> /\ Head(down[c]).kind = kind /\ down' = [down EXCEPT ![c] = Tail(@)]
  /\ UNCHANGED <<tree, loaded, engineSide, lapses, left>>

\* startHints: the targets counted now are the ones the badges will be drawn over.
PageCounts(c) ==
  /\ Gets(c, "f")
  /\ doc' = [doc EXCEPT ![c].pending = doc[c].targets]
  /\ wire' = Append(wire, Says(c, "count", doc[c].targets))

\* cancelPicker, as a loss: of a picker that was up, its round is told.
Loss(c) == IF doc[c].picker.round = 0 THEN <<>> ELSE <<Says(c, "lost", doc[c].picker.round)>>

\* drawHints and startPicker: never more badges than the block this frame was given.
PageDraws(c) ==
  /\ Gets(c, "space")
  /\ LET m == Head(down[c])
         n == IF doc[c].pending < m.count THEN doc[c].pending ELSE m.count
     IN doc' = [doc EXCEPT ![c].pending = 0, ![c].picker =
                  IF n = 0 THEN NoPicker
                  ELSE [round |-> m.round, labels |-> m.offset .. m.offset + n - 1, typed |-> <<>>]]
  /\ wire' = wire \o Loss(c)

PageEnds(c) ==
  /\ Gets(c, "end")
  /\ doc' = [doc EXCEPT ![c].picker = NoPicker]
  /\ UNCHANGED wire

\* tweb-hint-key and updatePicker: a pick, a miss, or a word that there is nothing here to pick from.
PageTakesKey(c) ==
  /\ Gets(c, "key")
  /\ LET m == Head(down[c]) p == doc[c].picker
         typed == IF m.key # Backspace THEN Append(p.typed, m.key)
                  ELSE IF p.typed = <<>> THEN p.typed ELSE Front(p.typed)
         picks == \E l \in p.labels : typed = <<l>>
     IN IF p = NoPicker THEN wire' = Append(wire, Says(c, "lost", m.round)) /\ UNCHANGED doc
        ELSE IF picks THEN /\ wire' = Append(wire, Says(c, "done", p.round))
                           /\ doc' = [doc EXCEPT ![c].picker = NoPicker]
        ELSE /\ wire' = IF typed = <<>> THEN wire ELSE Append(wire, Says(c, "miss", typed))
             /\ doc' = [doc EXCEPT ![c].picker.typed = typed]

\* A change of mode takes the badges down.
PageTearsDown(c) ==
  /\ c \in Living /\ doc[c].picker # NoPicker /\ Spends("losses")
  /\ wire' = wire \o Loss(c)
  /\ doc' = [doc EXCEPT ![c].picker = NoPicker]
  /\ UNCHANGED <<tree, loaded, down, engineSide, lapses>>

\* An editable takes the focus; the frame that had it says so later, or earlier.
FocusMoves(c) ==
  /\ c \in Living /\ ~doc[c].native /\ Spends("focuses")
  /\ LET old == {d \in Living : doc[d].native}
         off == SetToSeq({Says(d, "insert", FALSE) : d \in old})
         on == <<Says(c, "insert", TRUE)>> IN
       /\ wire' \in {wire \o on \o off, wire \o off \o on}
       /\ doc' = [d \in Contexts |-> [doc[d] EXCEPT !.native = d = c]]
  /\ UNCHANGED <<tree, loaded, down, engineSide, lapses>>

FocusLeaves(c) ==
  /\ c \in Living /\ doc[c].native /\ Spends("focuses")
  /\ wire' = Append(wire, Says(c, "insert", FALSE))
  /\ doc' = [doc EXCEPT ![c].native = FALSE]
  /\ UNCHANGED <<tree, loaded, down, engineSide, lapses>>

-----------------------------------------------------------------------------
ChromeEvent ==
  OnFrameStarted \/ OnFrameNavigated \/ OnFrameAttached \/ OnFrameDetached \/ OnContextCreated
    \/ OnContextsCleared \/ OnChildAttached \/ OnChildDetached \/ OnPreloadReady
PageMessage == OnHintCount \/ OnHintDone \/ OnHintMiss \/ OnHintLost \/ OnStranger \/ OnInsertMode
PageStep(c) == PageCounts(c) \/ PageDraws(c) \/ PageEnds(c) \/ PageTakesKey(c)

TabNext ==
  \/ MainReloads \/ \E f \in FrameIds : DocumentBegins(f)
  \/ \E f \in Subs : FrameAdded(f) \/ FrameRemoved(f) \/ FrameMoves(f)
  \/ ChromeEvent \/ PageMessage
  \/ \E c \in Contexts : PageStep(c) \/ PageTearsDown(c) \/ FocusMoves(c) \/ FocusLeaves(c)
  \/ PressF \/ PressEscape \/ \E k \in Keys : PressKey(k)
  \/ WaitElapses \/ CapElapses

TabSpec == TabInit /\ [][TabNext]_tabVars

-----------------------------------------------------------------------------
TabTypeOK ==
  /\ tree \in [FrameIds -> [session : {"none", Root} \cup Subs, ctx : {0} \cup Contexts]]
  /\ loaded \in Contexts /\ ready \subseteq ({Root} \cup Subs) \X FrameIds
  /\ frames \in [FrameIds -> [session : {"none", Root} \cup Subs, iso : {0} \cup Contexts,
                              parent : {"none", "main"}, detached : BOOLEAN]]
  /\ \A c \in Contexts \ Living : doc[c] = NoDoc /\ down[c] = <<>>
  /\ round.drawn \subseteq round.expected /\ serial \in Nat /\ lapses \subseteq {"done", "badges", "keys"}

Resting ==
  /\ wire = <<>> /\ \A c \in Contexts : down[c] = <<>>
  /\ \A f \in FrameIds : tree[f] # Gone => tree[f].ctx # 0

\* Every page whose script runs can be sent to: its frame is known, in its process, and ready.
PagesAreReachable ==
  Resting => \A c \in Living :
    LET f == FrameOf(c) IN f \in ReadyFrames /\ frames[f].iso = c /\ frames[f].session = tree[f].session

\* No round asks a frame that is gone, which could never answer.
AskedAreThere == Resting => \A f \in ReadyFrames : tree[f] # Gone

\* A label is worn once in a round, whichever frames wear it.
LabelsDistinct ==
  \A c, d \in Living : c # d /\ doc[c].picker.round = doc[d].picker.round
                         => doc[c].picker.labels \cap doc[d].picker.labels = {}

Matches(c) == \E l \in doc[c].picker.labels : IsPrefix(doc[c].picker.typed, <<l>>)
\* A round that has been typed into ends when no label shown anywhere begins with that.
RoundHasMatch ==
  /\ "badges" \notin lapses /\ Resting
  /\ round.open /\ round.typed # <<>> /\ round.told = tree["main"].ctx
  => \E c \in Living : doc[c].picker.round = round.id /\ Matches(c)

\* Badges belong to the round whose keys they get.
BadgesHaveRound == Resting => \A c \in Living : doc[c].picker.round \in {0, round.id}

\* A pick ends the round it was made in, and not the one that replaced it.
DoneEndsItsRound == "done" \notin lapses

\* Native keys are on where an editable has the focus, and off where none has.
NativeHasOwner == "keys" \notin lapses /\ Resting => (owner.on <=> \E c \in Living : doc[c].native)
====
