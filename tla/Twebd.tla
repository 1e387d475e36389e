------------------------------- MODULE Twebd -------------------------------
(***************************************************************************)
(* The shared-engine path end to end: pane frontends (tweb-pane), the      *)
(* daemon's connection tasks (twebd server.rs), its pane registry and      *)
(* engine host, and the pane table inside the hosted engine (main.cjs).    *)
(*                                                                         *)
(* A connection task is sequential: it reads a request, runs dispatch to   *)
(* its end, writes the response, and only then looks at the socket or at   *)
(* its event channel again.  Tasks of different connections interleave.    *)
(***************************************************************************)
EXTENDS PaneRegistry, EngineHost

CONSTANTS
  Clients,         \* connections of other clients: they may attach and detach
  DirtyHangUps,    \* frontends may also die while their task is mid-dispatch
  TabsClose,       \* the user may close the last tab of a hosted pane
  MaxLines         \* bound: lines on the engine's stdin when a frontend sends

ASSUME TwebdAssumption ==
  Clients \subseteq Conns /\
  DirtyHangUps \in BOOLEAN /\ TabsClose \in BOOLEAN /\ MaxLines \in Nat

VARIABLES
  task,        \* where each connection's task stands
  inbox,       \* requests waiting in the socket
  gen,         \* generation this connection's request was registered under
  attached,    \* ConnectionState.attached (its generation, 0 for None)
  hosted,      \* ConnectionState.hosted
  outgoing,    \* what the task is about to write to the socket
  front,       \* what has been written to the frontend's socket (what it reads
               \* of that is the subject of Frontends.tla)
  painted,     \* frontend -> connections whose pages it has painted
  pages,       \* the engine's pane table: one entry per pane it holds
  met          \* history: what each connection's open() met at its pane id

connVars == <<task, inbox, gen, attached, hosted, outgoing, front, painted, pages, met>>
vars == <<panes, nextGeneration, hostVars, connVars>>

Page == [key : Keys, owner : Conns]
Pushed == Event
Replies == [kind : {"hosted", "attached", "refused", "ok"}]
Nothing == [kind |-> "nothing"]

Init ==
  /\ RegInit /\ HostInit
  /\ task = [c \in Conns |-> "none"]
  /\ inbox = [c \in Conns |-> <<>>]
  /\ gen = [c \in Conns |-> NoGeneration]
  /\ attached = [c \in Conns |-> NoGeneration]
  /\ hosted = [c \in Conns |-> FALSE]
  /\ outgoing = [c \in Conns |-> Nothing]
  /\ front = [c \in Conns |-> "away"]
  /\ painted = [c \in Conns |-> {}]
  /\ pages = {}
  /\ met = [c \in Conns |-> "nobody"]

-----------------------------------------------------------------------------
(* History: an open() meets nobody at its pane id, or the route of an       *)
(* earlier connection, or another task inside an open() or a close(), be it *)
(* when it begins or before it is through.  Only the properties read it.    *)
SameId(c, d) == d # c /\ IdOf[KeyOf[d]] = IdOf[KeyOf[c]]
Busy(d) == task[d] \in {"opening", "detaching", "closing"}

OpensMeet(c) ==
  [d \in Conns |-> IF SameId(c, d) /\ task[d] = "opening" THEN "task" ELSE met[d]]

OpenMeets(c) ==
  met' = [OpensMeet(c) EXCEPT ![c] =
            IF \E d \in Conns : SameId(c, d) /\ Busy(d) THEN "task"
            ELSE IF \E k \in Keys : sinks[k] # NoConn /\ IdOf[k] = IdOf[KeyOf[c]]
                 THEN "route" ELSE "nobody"]

CloseMeets(c) == met' = OpensMeet(c)

-----------------------------------------------------------------------------
(* Frontends                                                                *)

Ask(c, request, knows) ==
  /\ inbox' = [inbox EXCEPT ![c] = Append(@, request)]
  /\ front' = [front EXCEPT ![c] = knows]
  /\ UNCHANGED <<regVars, hostVars, gen, attached, hosted, outgoing, painted, met, pages>>

(* A pane's terminal runs one frontend at a time; another client (`twebd    *)
(* attach`) may name any pane.                                              *)
PaneIsFree(c) ==
  \A d \in Conns \ {c} : KeyOf[d] = KeyOf[c] => front[d] \in {"away", "gone"}

(* connect_and_host, or another client: connect and write one request.      *)
Connect(c) ==
  /\ front[c] = "away"
  /\ c \in Clients \/ PaneIsFree(c)
  /\ task' = [task EXCEPT ![c] = "reading"]
  /\ \/ Ask(c, "host", "asked")
     \/ c \in Clients /\ Ask(c, "attach", "asked")

(* A hosted frontend forwards a control line; another client of the         *)
(* protocol may detach.  Both carry the generation the connection was given.*)
SendRequest(c) ==
  /\ inbox[c] = <<>> /\ task[c] = "reading"
  /\ \/ /\ front[c] = "hosted" /\ stdin # NoConn /\ Len(lines[stdin]) < MaxLines
        /\ Ask(c, "control", "hosted")
     \/ c \in Clients /\ front[c] \in {"hosted", "attached"} /\ Ask(c, "detach", "left")
  /\ UNCHANGED task

(* The frontend process ends and its socket closes.  A clean hang-up finds  *)
(* the task waiting with nothing of this frontend's left to read or answer. *)
Resting(c) == task[c] = "reading" /\ inbox[c] = <<>>

HangUp(c) ==
  /\ front[c] \notin {"away", "gone"}
  /\ DirtyHangUps \/ Resting(c)
  /\ front' = [front EXCEPT ![c] = "gone"]
  /\ UNCHANGED <<regVars, hostVars, task, inbox, gen, attached, hosted,
                 outgoing, painted, met, pages>>

-----------------------------------------------------------------------------
(* The connection task: reading a request and dispatching it                *)

Goto(c, step) == task' = [task EXCEPT ![c] = step]

Answer(c, kind) ==
  /\ Goto(c, "writing")
  /\ outgoing' = [outgoing EXCEPT ![c] = [kind |-> kind]]

Reads(c, request) ==
  /\ task[c] = "reading" /\ inbox[c] # <<>> /\ Head(inbox[c]) = request
  /\ inbox' = [inbox EXCEPT ![c] = Tail(@)]

ReadAttach(c) ==
  /\ Reads(c, "attach")
  /\ Attach(KeyOf[c])
  /\ gen' = [gen EXCEPT ![c] = NewGeneration]
  /\ attached' = [attached EXCEPT ![c] = NewGeneration]
  /\ Answer(c, "attached")
  /\ UNCHANGED <<hostVars, hosted, front, painted, met, pages>>

(* The same tmux pane id already routed for another tmux server.            *)
ConflictingPaneId(k) ==
  \E j \in Keys : sinks[j] # NoConn /\ j # k /\ IdOf[j] = IdOf[k]

ReadHostConflict(c) ==
  /\ Reads(c, "host")
  /\ ConflictingPaneId(KeyOf[c])
  /\ Answer(c, "refused")
  /\ UNCHANGED <<regVars, hostVars, gen, attached, hosted, front, painted, met, pages>>

(* Registered before the engine is asked.                                   *)
ReadHost(c) ==
  /\ Reads(c, "host")
  /\ ~ConflictingPaneId(KeyOf[c])
  /\ Attach(KeyOf[c])
  /\ gen' = [gen EXCEPT ![c] = NewGeneration]
  /\ OpenBegin(c)
  /\ OpenMeets(c)
  /\ Goto(c, "opening")
  /\ UNCHANGED <<attached, hosted, outgoing, front, painted, pages>>

(* open().await, step by step; other tasks run in between.                  *)
Opening(c) ==
  /\ task[c] = "opening"
  /\ \/ OpenRefused(c) \/ OpenFindsEngine(c) \/ OpenStarts(c) \/ SpawnReady(c)
     \/ SpawnFails(c)  \/ Register(c)
     \/ SendAttach(c) /\ call'[c] = "failed"
  /\ UNCHANGED <<regVars, connVars>>

(* open() returned Ok; what follows touches only this task's own state.     *)
HostAccepted(c) ==
  /\ task[c] = "opening"
  /\ SendAttach(c) /\ call'[c] = "opened"
  /\ attached' = [attached EXCEPT ![c] = gen[c]]
  /\ hosted' = [hosted EXCEPT ![c] = TRUE]
  /\ Answer(c, "hosted")
  /\ UNCHANGED <<regVars, inbox, gen, front, painted, met, pages>>

HostRefusedKeeps(c) ==
  /\ task[c] = "opening" /\ call[c] = "failed"
  /\ Answer(c, "refused")
  /\ UNCHANGED <<regVars, hostVars, inbox, gen, attached, hosted, front, painted, met, pages>>

(* Nothing stays registered for a pane the daemon does not serve.           *)
HostRefused(c) ==
  /\ task[c] = "opening" /\ call[c] = "failed"
  /\ Detach(KeyOf[c], gen[c])
  /\ Answer(c, "refused")
  /\ UNCHANGED <<hostVars, inbox, gen, attached, hosted, front, painted, met, pages>>

(* A control line is dropped unless its generation is current; the check    *)
(* and the forwarding are under different locks.                            *)
ReadControl(c) ==
  /\ Reads(c, "control")
  /\ IF IsCurrent(KeyOf[c], gen[c])
     THEN Goto(c, "forwarding") /\ UNCHANGED outgoing
     ELSE Answer(c, "ok")
  /\ UNCHANGED <<regVars, hostVars, gen, attached, hosted, front, painted, met, pages>>

Forward(c) ==
  /\ task[c] = "forwarding"
  /\ ForwardControl(c)
  /\ Answer(c, "ok")
  /\ UNCHANGED <<regVars, inbox, gen, attached, hosted, front, painted, met, pages>>

(* A stale detach is answered ok and changes nothing.                       *)
ReadDetach(c) ==
  /\ Reads(c, "detach")
  /\ Detach(KeyOf[c], gen[c])
  /\ IF IsCurrent(KeyOf[c], gen[c])
     THEN Goto(c, "detaching") /\ CloseMeets(c) /\ UNCHANGED outgoing
     ELSE Answer(c, "ok") /\ UNCHANGED met
  /\ UNCHANGED <<hostVars, gen, attached, hosted, front, painted, pages>>

-----------------------------------------------------------------------------
(* engine.close(), called by a detach request or by reaping                 *)

CloseFirst(c) ==
  /\ task[c] \in {"detaching", "closing"} /\ c \notin closing /\ CloseCheck(c)
  /\ UNCHANGED <<regVars, inbox, gen, front, painted, met, pages>>
  /\ IF sinks[KeyOf[c]] # NoConn
     THEN UNCHANGED <<task, attached, hosted, outgoing>>
     ELSE CASE task[c] = "detaching" ->
                 /\ Answer(c, "ok")
                 /\ attached' = [attached EXCEPT ![c] = NoGeneration]
                 /\ hosted' = [hosted EXCEPT ![c] = FALSE]
            [] task[c] = "closing" ->
                 Goto(c, "ended") /\ UNCHANGED <<attached, hosted, outgoing>>

CloseSecond(c) ==
  /\ task[c] \in {"detaching", "closing"} /\ c \in closing
  /\ CloseRemove(c)
  /\ UNCHANGED <<regVars, inbox, gen, front, painted, met, pages>>
  /\ CASE task[c] = "detaching" ->
            /\ Answer(c, "ok")
            /\ attached' = [attached EXCEPT ![c] = NoGeneration]
            /\ hosted' = [hosted EXCEPT ![c] = FALSE]
       [] task[c] = "closing" ->
            Goto(c, "ended") /\ UNCHANGED <<attached, hosted, outgoing>>

-----------------------------------------------------------------------------
(* The connection task: pushing events, writing, and ending                 *)

(* select! is biased: an event is taken only when there is no line and no   *)
(* end-of-file to read.  A connection that has attached nothing drops it.   *)
Push(c) ==
  /\ Resting(c) /\ front[c] # "gone"
  /\ TakeEvent(c)
  /\ IF attached[c] = NoGeneration
     THEN UNCHANGED <<task, outgoing>>
     ELSE /\ Goto(c, "writing")
          /\ outgoing' = [outgoing EXCEPT ![c] = Head(events[c])]
  /\ UNCHANGED <<regVars, inbox, gen, attached, hosted, front, painted, met, pages>>

TakesAnyReply(c, m) == m.kind

(* What a frontend makes of a response.  A frame carries the connection's   *)
(* own generation, so message_is_current accepts it.                        *)
FrontAfter(c, m) ==
  CASE m.kind \in {"hosted", "attached", "refused"} -> m.kind
    [] m.kind = "lost" /\ front[c] = "hosted" -> "lost"
    [] OTHER -> front[c]

WriteSucceeds(c) ==
  /\ task[c] = "writing" /\ front[c] # "gone"
  /\ front' = [front EXCEPT ![c] = FrontAfter(c, outgoing[c])]
  /\ painted' = IF outgoing[c].kind = "frame" /\ front[c] = "hosted"
                THEN [painted EXCEPT ![c] = @ \cup {outgoing[c].owner}]
                ELSE painted
  /\ outgoing' = [outgoing EXCEPT ![c] = Nothing]
  /\ Goto(c, "reading")
  /\ UNCHANGED <<regVars, hostVars, inbox, gen, attached, hosted, met, pages>>

(* write_all(..).await? on a closed socket leaves handle_connection at      *)
(* once: the call to reap_connection after the loop is not reached.         *)
WriteFails(c) ==
  /\ task[c] = "writing" /\ front[c] = "gone"
  /\ outgoing' = [outgoing EXCEPT ![c] = Nothing]
  /\ Goto(c, "ended")
  /\ UNCHANGED <<regVars, hostVars, inbox, gen, attached, hosted, front, painted, met,
                 pages>>

(* A bug: to close the pane of whoever holds it by then.                    *)
ReapsAnyway(c) == IF hosted[c] THEN "closing" ELSE "ended"
ReapLeadsTo(c) ==
  IF IsCurrent(KeyOf[c], attached[c]) /\ hosted[c] THEN "closing" ELSE "ended"

(* End of file: reap_connection drops the registration if it is current,    *)
(* and goes on to close the pane when the connection hosted it.             *)
Reap(c) ==
  /\ Resting(c) /\ front[c] = "gone"
  /\ Detach(KeyOf[c], attached[c])
  /\ Goto(c, ReapLeadsTo(c))
  /\ IF ReapLeadsTo(c) = "closing" THEN CloseMeets(c) ELSE UNCHANGED met
  /\ UNCHANGED <<hostVars, inbox, gen, attached, hosted, outgoing, front, painted,
                 pages>>

-----------------------------------------------------------------------------
(* The hosted engine: its stdin is one FIFO shared by every pane            *)

(* Two bugs: a pane taken without looking at its id, and a lost detach.     *)
AttachesAnyway(l) == pages \cup {[key |-> l.key, owner |-> l.from]}
KeepsPage(l) == pages

(* handleAttach: refused without a word to anyone when the pane id is       *)
(* already held -- by another server's pane (resolveTarget could not tell   *)
(* them apart) or by the same pane (its image ids, derived from the pane's  *)
(* identity, overlap those of its own previous page).                       *)
AfterAttach(l) ==
  IF \E p \in pages : IdOf[p.key] = l.id
  THEN pages
  ELSE pages \cup {[key |-> l.key, owner |-> l.from]}

(* detach names a pane by id; closePane removes it.                         *)
AfterDetach(l) == {p \in pages : IdOf[p.key] # l.id}

HandleControlLine(e) ==
  /\ EngineTakesLine(e)
  /\ LET l == Head(lines[e]) IN
       pages' = CASE l.op = "attach" -> AfterAttach(l)
                  [] l.op = "detach" -> AfterDetach(l)
                  [] OTHER -> pages
  /\ UNCHANGED <<regVars, task, inbox, gen, attached, hosted, outgoing, front,
                 painted, met>>

Paint(e) ==
  /\ \E p \in pages :
       EnginePaints(e, [id |-> IdOf[p.key], owner |-> p.owner])
  /\ UNCHANGED <<regVars, connVars>>

(* The last tab of one pane among several closes: closePane, and nothing is *)
(* written to stdout.  The last tab of the last pane quits the engine,      *)
(* which is EngineGone.                                                     *)
LastTabCloses(e) ==
  /\ TabsClose /\ proc[e] = "running"
  /\ \E p, q \in pages : p # q /\ pages' = pages \ {p}
  /\ UNCHANGED <<regVars, hostVars, task, inbox, gen, attached, hosted, outgoing,
                 front, painted, met>>

EngineGone(e) ==
  /\ EngineExits(e)
  /\ pages' = {}
  /\ UNCHANGED <<regVars, task, inbox, gen, attached, hosted, outgoing, front,
                 painted, met>>

HostTask(e) ==
  /\ Deliver(e) \/ PumpBreaks(e) \/ WatchExit(e)
  /\ UNCHANGED <<regVars, connVars>>

Ages == StartAgesOut /\ UNCHANGED <<regVars, connVars>>

-----------------------------------------------------------------------------
Dispatch(c) ==
  \/ ReadAttach(c)   \/ ReadHostConflict(c) \/ ReadHost(c) \/ Opening(c)
  \/ HostAccepted(c) \/ HostRefused(c)      \/ ReadControl(c) \/ Forward(c)
  \/ ReadDetach(c)   \/ CloseFirst(c)       \/ CloseSecond(c)

TaskStep(c) ==
  Dispatch(c) \/ Push(c) \/ WriteSucceeds(c) \/ WriteFails(c) \/ Reap(c)

FrontStep(c) == Connect(c) \/ SendRequest(c) \/ HangUp(c)

EngineAct(e) ==
  HandleControlLine(e) \/ Paint(e) \/ LastTabCloses(e) \/ EngineGone(e) \/ HostTask(e)

Next ==
  \/ \E c \in Conns : TaskStep(c) \/ FrontStep(c) \/ EngineAct(c)
  \/ Ages

Spec == Init /\ [][Next]_vars

(* tokio runs every ready task; a starting engine answers, exits or hits    *)
(* READY_TIMEOUT; the daemon's pumps run and its wait for the child ends.   *)
(* Push is strongly fair: the select that finds no line polls the events in *)
(* the same poll, so a frontend's further lines cannot get in between.      *)
(* Nothing obliges a frontend, the user or the engine's pages to act.       *)
Fairness ==
  \A c \in Conns :
    /\ WF_vars(TaskStep(c)) /\ SF_vars(Push(c))
    /\ WF_vars(HostTask(c)) /\ WF_vars(HandleControlLine(c))

FairSpec == Spec /\ Fairness
=============================================================================
