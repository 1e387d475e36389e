---------------------------- MODULE EngineHost ----------------------------
(***************************************************************************)
(* twebd's EngineHost: the one engine process that draws every hosted      *)
(* pane, and the routing table from a pane key to the connection serving   *)
(* it (crates/twebd/src/engine_host.rs).                                   *)
(*                                                                         *)
(* open, close and control are called by connection tasks that run in      *)
(* parallel, so each is split at every await and every release of the      *)
(* HostState mutex.  An engine process is named after the connection whose *)
(* open started it: a connection opens once, so the name is never reused.  *)
(***************************************************************************)
EXTENDS Integers, Sequences, PaneKeys

CONSTANTS
  Conns,         \* frontend connections, one per attempt to be hosted
  KeyOf,         \* the pane each connection speaks for
  NoConn,
  CrashBudget,   \* engine starts allowed inside the crash window
  MaxFrames      \* bound: frames the engine writes of one page

ASSUME HostAssumption ==
  /\ NoConn \notin Conns
  /\ KeyOf \in [Conns -> Keys]
  /\ CrashBudget \in Nat \ {0}
  /\ MaxFrames \in Nat

VARIABLES
  state,      \* EngineState: "idle", "running", "stopped", "unavailable"
  stdin,      \* the running engine's stdin sender: its process, or NoConn
  sinks,      \* key -> connection whose channel gets the pane's events
  starting,   \* holder of the async `starting` mutex, or NoConn
  recent,     \* starts still inside the crash window
  proc,       \* engine processes
  call,       \* where each connection's open() stands
  handle,     \* the stdin sender an open() took with it out of register()
  closing,    \* connections between the two locked sections of close()
  lines,      \* process -> lines on its stdin channel and pipe
  pump,       \* process -> whether pump_stdin still takes lines
  stdout,     \* process -> frames on its stdout pipe
  frames,     \* frames written of each page (for the bound)
  events      \* connection -> engine events waiting in its sink

hostVars == <<state, stdin, sinks, starting, recent, proc, call, handle,
              closing, lines, pump, stdout, frames, events>>

ProcStates == {"none", "spawning", "running", "exited", "gone"}
CallStates == {"none", "locking", "spawning", "registering", "sending",
               "opened", "failed"}
Frame == [id : Ids, owner : Conns]
Line  == [op : {"attach", "detach", "control"}, id : Ids, key : Keys, from : Conns]
Event == [kind : {"frame"}, owner : Conns] \cup [kind : {"lost"}]

LineOf(op, c) ==
  [op |-> op, id |-> IdOf[KeyOf[c]], key |-> KeyOf[c], from |-> c]

EngineStates == {"idle", "running", "stopped", "unavailable"}

HostInit ==
  /\ state \in {"idle", "unavailable"}
  /\ stdin = NoConn
  /\ sinks = [k \in Keys |-> NoConn]
  /\ starting = NoConn
  /\ recent = 0
  /\ proc = [c \in Conns |-> "none"]
  /\ call = [c \in Conns |-> "none"]
  /\ handle = [c \in Conns |-> NoConn]
  /\ closing = {}
  /\ lines = [c \in Conns |-> <<>>]
  /\ pump = [c \in Conns |-> TRUE]
  /\ stdout = [c \in Conns |-> <<>>]
  /\ frames = [c \in Conns |-> 0]
  /\ events = [c \in Conns |-> <<>>]

-----------------------------------------------------------------------------
(* open(): wait for the starting mutex, see whether an engine is needed.    *)

OpenBegin(c) ==
  /\ call[c] = "none"
  /\ call' = [call EXCEPT ![c] = "locking"]
  /\ UNCHANGED <<state, stdin, sinks, starting, recent, proc, handle, closing,
                 lines, pump, stdout, frames, events>>

(* Two bugs the code could have: opens that do not wait for one another, and *)
(* a budget that is checked but leads to no answer.                          *)
EntersFreely(c) == call[c] = "locking"
UnavailableOnly == state = "unavailable"

(* starting.lock().await                                                    *)
Enters(c) == call[c] = "locking" /\ starting = NoConn

(* A host that may never start, or has used up its crash budget, refuses.   *)
CannotHost == state = "unavailable" \/ (stdin = NoConn /\ recent >= CrashBudget)

OpenRefused(c) ==
  /\ Enters(c) /\ CannotHost
  /\ state' = "unavailable"
  /\ call' = [call EXCEPT ![c] = "failed"]
  /\ UNCHANGED <<stdin, sinks, starting, recent, proc, handle, closing, lines,
                 pump, stdout, frames, events>>

(* An engine is already up: the guard is dropped before registering.        *)
OpenFindsEngine(c) ==
  /\ Enters(c)
  /\ state # "unavailable" /\ stdin # NoConn
  /\ call' = [call EXCEPT ![c] = "registering"]
  /\ UNCHANGED <<state, stdin, sinks, starting, recent, proc, handle, closing,
                 lines, pump, stdout, frames, events>>

(* No engine: record the start and spawn one, holding the starting mutex.   *)
OpenStarts(c) ==
  /\ Enters(c)
  /\ state # "unavailable" /\ stdin = NoConn /\ recent < CrashBudget
  /\ starting' = c
  /\ recent' = recent + 1
  /\ proc' = [proc EXCEPT ![c] = "spawning"]
  /\ call' = [call EXCEPT ![c] = "spawning"]
  /\ UNCHANGED <<state, stdin, sinks, handle, closing, lines, pump, stdout,
                 frames, events>>

(* The process declared READY in the daemon's protocol version.             *)
SpawnReady(c) ==
  /\ call[c] = "spawning"
  /\ proc' = [proc EXCEPT ![c] = "running"]
  /\ state' = "running"
  /\ stdin' = c
  /\ starting' = NoConn
  /\ call' = [call EXCEPT ![c] = "registering"]
  /\ UNCHANGED <<sinks, recent, handle, closing, lines, pump, stdout, frames,
                 events>>

(* Wrong protocol, exit before READY, or READY_TIMEOUT: the process is      *)
(* killed and hosting is off.                                               *)
SpawnFails(c) ==
  /\ call[c] = "spawning"
  /\ proc' = [proc EXCEPT ![c] = "gone"]
  /\ state' = "unavailable"
  /\ starting' = NoConn
  /\ call' = [call EXCEPT ![c] = "failed"]
  /\ UNCHANGED <<stdin, sinks, recent, handle, closing, lines, pump, stdout,
                 frames, events>>

(* register(): the sink goes into the table only while there is an engine.  *)
Register(c) ==
  /\ call[c] = "registering"
  /\ IF stdin = NoConn
     THEN /\ call' = [call EXCEPT ![c] = "failed"]
          /\ UNCHANGED <<sinks, handle>>
     ELSE /\ sinks' = [sinks EXCEPT ![KeyOf[c]] = c]
          /\ handle' = [handle EXCEPT ![c] = stdin]
          /\ call' = [call EXCEPT ![c] = "sending"]
  /\ UNCHANGED <<state, stdin, starting, recent, proc, closing, lines, pump,
                 stdout, frames, events>>

(* The table without this pane.                                             *)
Unrouted(c) == [sinks EXCEPT ![KeyOf[c]] = NoConn]

(* The SESSION and ATTACH lines, sent outside the mutex.  A pump that has   *)
(* stopped makes the send fail, and the key's sink is taken out again.      *)
SendAttach(c) ==
  /\ call[c] = "sending"
  /\ IF pump[handle[c]]
     THEN /\ lines' = [lines EXCEPT ![handle[c]] = Append(@, LineOf("attach", c))]
          /\ call' = [call EXCEPT ![c] = "opened"]
          /\ UNCHANGED sinks
     ELSE /\ sinks' = Unrouted(c)
          /\ call' = [call EXCEPT ![c] = "failed"]
          /\ UNCHANGED lines
  /\ UNCHANGED <<state, stdin, starting, recent, proc, handle, closing, pump,
                 stdout, frames, events>>

-----------------------------------------------------------------------------
(* control() and close()                                                    *)

(* A bug: a close that tells the engine nothing.                            *)
ClosesSilently(c, op) ==
  lines' = IF op = "control" /\ stdin # NoConn /\ sinks[KeyOf[c]] # NoConn
           THEN [lines EXCEPT ![stdin] = Append(@, LineOf(op, c))]
           ELSE lines

Forwards(c, op) ==
  lines' = IF stdin # NoConn /\ sinks[KeyOf[c]] # NoConn
           THEN [lines EXCEPT ![stdin] = Append(@, LineOf(op, c))]
           ELSE lines

(* One control line for a pane in the table; otherwise nothing.             *)
ForwardControl(c) ==
  /\ Forwards(c, "control")
  /\ UNCHANGED <<state, stdin, sinks, starting, recent, proc, call, handle,
                 closing, pump, stdout, frames, events>>

(* First locked section of close(): DETACH goes out if the pane is known.   *)
CloseCheck(c) ==
  /\ c \notin closing
  /\ Forwards(c, "detach")
  /\ closing' = IF sinks[KeyOf[c]] # NoConn THEN closing \cup {c} ELSE closing
  /\ UNCHANGED <<state, stdin, sinks, starting, recent, proc, call, handle,
                 pump, stdout, frames, events>>

(* Second locked section: whatever is under the key now is removed.         *)
CloseRemove(c) ==
  /\ c \in closing
  /\ closing' = closing \ {c}
  /\ sinks' = [sinks EXCEPT ![KeyOf[c]] = NoConn]
  /\ UNCHANGED <<state, stdin, starting, recent, proc, call, handle, lines,
                 pump, stdout, frames, events>>

-----------------------------------------------------------------------------
(* The engine process and the daemon tasks attached to it                   *)

(* The engine takes one line off its stdin.                                 *)
EngineTakesLine(e) ==
  /\ proc[e] = "running" /\ lines[e] # <<>>
  /\ lines' = [lines EXCEPT ![e] = Tail(@)]
  /\ UNCHANGED <<state, stdin, sinks, starting, recent, proc, call, handle,
                 closing, pump, stdout, frames, events>>

(* The engine paints a frame of a page opened by connection `owner`.        *)
EnginePaints(e, f) ==
  /\ proc[e] = "running" /\ frames[f.owner] < MaxFrames
  /\ frames' = [frames EXCEPT ![f.owner] = @ + 1]
  /\ stdout' = [stdout EXCEPT ![e] = Append(@, f)]
  /\ UNCHANGED <<state, stdin, sinks, starting, recent, proc, call, handle,
                 closing, lines, pump, events>>

(* The routes a frame may take: the table is searched by pane id alone.     *)
RoutesOf(f) == {k \in Keys : sinks[k] # NoConn /\ IdOf[k] = f.id}

(* pump_stdout reads one frame, and deliver() hands it to one of them.      *)
Deliver(e) ==
  /\ stdout[e] # <<>>
  /\ stdout' = [stdout EXCEPT ![e] = Tail(@)]
  /\ LET f == Head(stdout[e]) IN
        IF RoutesOf(f) = {}
        THEN UNCHANGED events
        ELSE \E k \in RoutesOf(f) :
               events' = [events EXCEPT ![sinks[k]] =
                            Append(@, [kind |-> "frame", owner |-> f.owner])]
  /\ UNCHANGED <<state, stdin, sinks, starting, recent, proc, call, handle,
                 closing, lines, pump, frames>>

EngineExits(e) ==
  /\ proc[e] = "running"
  /\ proc' = [proc EXCEPT ![e] = "exited"]
  /\ UNCHANGED <<state, stdin, sinks, starting, recent, call, handle, closing,
                 lines, pump, stdout, frames, events>>

(* pump_stdin's write to a dead engine fails and the task ends.             *)
PumpBreaks(e) ==
  /\ proc[e] \in {"exited", "gone"} /\ pump[e] /\ lines[e] # <<>>
  /\ pump' = [pump EXCEPT ![e] = FALSE]
  /\ lines' = [lines EXCEPT ![e] = <<>>]
  /\ UNCHANGED <<state, stdin, sinks, starting, recent, proc, call, handle,
                 closing, stdout, frames, events>>

(* The emptied table, and the connections whose panes are in the table.     *)
Drained == [k \in Keys |-> NoConn]
Routed == {c \in Conns : \E k \in Keys : sinks[k] = c}

(* watch_exit: the table is emptied in one locked section and every         *)
(* connection that was in it is told.                                       *)
WatchExit(e) ==
  /\ proc[e] = "exited"
  /\ proc' = [proc EXCEPT ![e] = "gone"]
  /\ stdin' = NoConn
  /\ state' = "stopped"
  /\ sinks' = Drained
  /\ events' = [c \in Conns |-> IF c \in Routed
                                THEN Append(events[c], [kind |-> "lost"])
                                ELSE events[c]]
  /\ UNCHANGED <<starting, recent, call, handle, closing, lines, pump, stdout,
                 frames>>

(* One start ages out of the crash window.                                  *)
StartAgesOut ==
  /\ recent > 0
  /\ recent' = recent - 1
  /\ UNCHANGED <<state, stdin, sinks, starting, proc, call, handle, closing,
                 lines, pump, stdout, frames, events>>

(* A connection task takes the next event out of its sink.                  *)
TakeEvent(c) ==
  /\ events[c] # <<>>
  /\ events' = [events EXCEPT ![c] = Tail(@)]
  /\ UNCHANGED <<state, stdin, sinks, starting, recent, proc, call, handle,
                 closing, lines, pump, stdout, frames>>

OpenStep(c) ==
  \/ OpenBegin(c)  \/ OpenRefused(c) \/ OpenFindsEngine(c) \/ OpenStarts(c)
  \/ SpawnReady(c) \/ SpawnFails(c)  \/ Register(c)        \/ SendAttach(c)

CallStep(c) == ForwardControl(c) \/ CloseCheck(c) \/ CloseRemove(c) \/ TakeEvent(c)

EngineStep(e) ==
  \/ EngineTakesLine(e) \/ Deliver(e) \/ EngineExits(e) \/ PumpBreaks(e)
  \/ WatchExit(e)       \/ \E f \in Frame : EnginePaints(e, f)

HostNext ==
  \/ \E c \in Conns : OpenStep(c) \/ CallStep(c) \/ EngineStep(c)
  \/ StartAgesOut

HostSpec == HostInit /\ [][HostNext]_hostVars

-----------------------------------------------------------------------------
(* Type invariant of the engine host.                                       *)
HostTypeOK ==
  /\ state \in EngineStates
  /\ stdin \in Conns \cup {NoConn}
  /\ sinks \in [Keys -> Conns \cup {NoConn}]
  /\ starting \in Conns \cup {NoConn}
  /\ recent \in Nat
  /\ proc \in [Conns -> ProcStates]
  /\ call \in [Conns -> CallStates]
  /\ handle \in [Conns -> Conns \cup {NoConn}]
  /\ closing \in SUBSET Conns
  /\ lines \in [Conns -> Seq(Line)]
  /\ pump \in [Conns -> BOOLEAN]
  /\ stdout \in [Conns -> Seq(Frame)]
  /\ frames \in [Conns -> Nat]
  /\ events \in [Conns -> Seq(Event)]

(* The daemon never has two engine processes alive: `starting` is held from *)
(* "is there an engine" until READY, and stdin is cleared only once the old *)
(* process has been waited for.  Two would share one Chromium profile.      *)
Alive(e) == proc[e] \in {"spawning", "running"}

AtMostOneEngine == \A d, e \in Conns : Alive(d) /\ Alive(e) => d = e

(* A pane in the routing table has an engine to feed it: an engine that     *)
(* dies between READY and register() leaves no sink that nothing closes.    *)
NoSinkWithoutEngine == stdin = NoConn => \A k \in Keys : sinks[k] = NoConn

(* An open that failed has left nothing in the table, so the frontend that  *)
(* falls back to its own engine is not also counted as hosted.              *)
FailedOpenIsUnrouted == \A c \in Conns : call[c] = "failed" => sinks[KeyOf[c]] # c

(* What the host promises the daemon at every moment: one engine process,   *)
(* routes only beside an engine that can close them, and none for an open   *)
(* that failed, whichever connections open, close and restart meanwhile.    *)
HostSafe == AtMostOneEngine /\ NoSinkWithoutEngine /\ FailedOpenIsUnrouted
=============================================================================
