----------------------------- MODULE Frontends -----------------------------
(***************************************************************************)
(* Pane frontends looking for a daemon: starting one when none answers     *)
(* (daemon_autostart.rs), asking it to host the pane and following the     *)
(* session (hosted.rs), going back when the session is lost, and falling   *)
(* back to an engine of their own (tweb-pane lib.rs); and the command      *)
(* `tweb daemon restart` (tweb-cli daemon.rs).                             *)
(*                                                                         *)
(* Inside, a daemon is only what its clients see of it: it accepts,        *)
(* answers a host request, may report the engine's loss, and goes away.    *)
(***************************************************************************)
EXTENDS DaemonProcess, Sequences

CONSTANTS
  Panes,
  Attempts,      \* REATTACH_ATTEMPTS
  MaxFaults,     \* bound: daemons stopped or killed, engines lost, by others
  Restarts,      \* whether the user runs `tweb daemon restart` (once)
  ReadsAhead     \* whether the answer's read may pick up what follows it

ASSUME FrontendAssumption ==
  Attempts \in Nat /\ MaxFaults \in Nat /\ Restarts \in BOOLEAN /\ ReadsAhead \in BOOLEAN

VARIABLES
  at,        \* where each pane's frontend stands
  child,     \* the serve process it started in this attempt, or Nobody
  tries,     \* how often it has gone back
  conn,      \* the daemon at the other end of its connection
  unread,    \* messages in the socket it has not read
  washosted, \* whether a daemon has ever hosted it
  restores,  \* whether the engine it started restores the window's tabs
  faults,    \* for the bound
  tool       \* the restart command: [step, old, new]

paneVars == <<at, child, tries, conn, unread, washosted, restores>>
frontVars == <<procVars, paneVars, faults, tool>>

PaneStates == {"trying", "starting", "waiting", "leaving", "connecting",
               "queued", "asking", "hosted", "finished", "own"}

FrontInit ==
  /\ ProcInit
  /\ at = [p \in Panes |-> "trying"]
  /\ child = [p \in Panes |-> Nobody]
  /\ tries = [p \in Panes |-> 0]
  /\ conn = [p \in Panes |-> Nobody]
  /\ unread = [p \in Panes |-> <<>>]
  /\ washosted = [p \in Panes |-> FALSE]
  /\ restores = [p \in Panes |-> FALSE]
  /\ faults = 0
  /\ tool = [step |-> "idle", old |-> Nobody, new |-> Nobody]

Moves(p, s) == at' = [at EXCEPT ![p] = s]

-----------------------------------------------------------------------------
(* Failing, and what follows: host_until_settled                            *)

(* Reasons that may pass: a lost session, a daemon that could not be        *)
(* started or reached, an engine that is not available.                     *)
Passing == {"lost", "unreachable", "unavailable"}

RestoresAfter(reason) == reason = "lost"

(* The mutant never counts how often the pane went back.                    *)
AlwaysGoesBack(p, reason) == reason \in Passing
GoesBack(p, reason) == reason \in Passing /\ tries[p] < Attempts

Fails(p, reason) ==
  /\ IF GoesBack(p, reason)
     THEN /\ Moves(p, "trying")
          /\ tries' = [tries EXCEPT ![p] = @ + 1]
          /\ UNCHANGED restores
     ELSE /\ Moves(p, "own")
          /\ restores' = [restores EXCEPT ![p] = RestoresAfter(reason)]
          /\ UNCHANGED tries
  /\ conn' = [conn EXCEPT ![p] = Nobody]
  /\ unread' = [unread EXCEPT ![p] = <<>>]
  /\ child' = [child EXCEPT ![p] = Nobody]

-----------------------------------------------------------------------------
(* ensure_running                                                           *)

Look(p) ==
  /\ at[p] = "trying"
  /\ Moves(p, IF SocketIsLive THEN "connecting" ELSE "starting")
  /\ UNCHANGED <<procVars, child, tries, conn, unread, washosted, restores,
                 faults, tool>>

StartServe(p) ==
  /\ at[p] = "starting"
  /\ \E d \in Procs : Begin(d) /\ child' = [child EXCEPT ![p] = d]
  /\ Moves(p, "waiting")
  /\ UNCHANGED <<tries, conn, unread, washosted, restores, faults, tool>>

(* No twebd to be found, or it cannot be spawned.                           *)
CannotStart(p) ==
  /\ at[p] = "starting"
  /\ Fails(p, "unreachable")
  /\ UNCHANGED <<procVars, washosted, faults, tool>>

PollFinds(p) ==
  /\ at[p] = "waiting" /\ SocketIsLive
  /\ Moves(p, "connecting")
  /\ child' = [child EXCEPT ![p] = Nobody]
  /\ UNCHANGED <<procVars, tries, conn, unread, washosted, restores, faults,
                 tool>>

(* The last poll before the deadline found nothing.                         *)
PollGivesUp(p) ==
  /\ at[p] = "waiting" /\ ~SocketIsLive
  /\ Moves(p, "leaving")
  /\ UNCHANGED <<procVars, child, tries, conn, unread, washosted, restores,
                 faults, tool>>

(* try_wait, and a child that still runs is killed.                         *)
Abandon(p) ==
  /\ at[p] = "leaving"
  /\ IF serve[child[p]] \in Ended THEN UNCHANGED procVars ELSE Killed(child[p])
  /\ Fails(p, "unreachable")
  /\ UNCHANGED <<washosted, faults, tool>>

-----------------------------------------------------------------------------
(* connect_and_host, and the session's pump                                 *)

Connect(p) ==
  /\ at[p] = "connecting"
  /\ IF SocketIsLive
     THEN /\ conn' = [conn EXCEPT ![p] = socket]
          /\ Moves(p, "queued")
          /\ UNCHANGED <<child, tries, unread, restores>>
     ELSE Fails(p, "unreachable")
  /\ UNCHANGED <<procVars, washosted, faults, tool>>

Accept(p) ==
  /\ at[p] = "queued" /\ serve[conn[p]] = "serving"
  /\ Moves(p, "asking")
  /\ UNCHANGED <<procVars, child, tries, conn, unread, washosted, restores,
                 faults, tool>>

Writes(p, message) ==
  /\ unread' = [unread EXCEPT ![p] = Append(@, message)]
  /\ UNCHANGED <<procVars, at, child, tries, conn, washosted, restores, tool>>

DaemonRuns(p) == conn[p] # Nobody /\ serve[conn[p]] \in {"serving", "stopping", "unlinked"}

Answer(p) ==
  /\ at[p] = "asking" /\ unread[p] = <<>> /\ DaemonRuns(p)
  /\ \E m \in {"hosted", "unavailable", "declined"} : Writes(p, m)
  /\ UNCHANGED faults

(* The engine dies, or drops the pane, once the daemon has said hosted.     *)
EngineLost(p) ==
  /\ DaemonRuns(p) /\ faults < MaxFaults
  /\ \/ at[p] = "asking" /\ unread[p] = <<"hosted">>
     \/ at[p] = "hosted" /\ unread[p] = <<>>
  /\ Writes(p, "lost")
  /\ faults' = faults + 1

(* read_line through a BufReader that is dropped afterwards: what else the  *)
(* one read brought in is dropped with it.                                  *)
ReadAnswer(p) ==
  /\ at[p] = "asking" /\ unread[p] # <<>>
  /\ LET answer == Head(unread[p])
         rest == Tail(unread[p])
     IN IF answer = "hosted"
        THEN /\ Moves(p, "hosted")
             /\ \E left \in {rest} \cup (IF ReadsAhead THEN {<<>>} ELSE {}) :
                  unread' = [unread EXCEPT ![p] = left]
             /\ washosted' = [washosted EXCEPT ![p] = TRUE]
             /\ UNCHANGED <<child, tries, conn, restores>>
        ELSE Fails(p, answer) /\ UNCHANGED washosted
  /\ UNCHANGED <<procVars, faults, tool>>

(* The end of the stream; the mutant waits for a line that never comes.     *)
NoticesNothing(p) == FALSE
HungUp(p) == unread[p] = <<>> /\ serve[conn[p]] = "gone"

AnswerNeverCame(p) ==
  /\ at[p] \in {"queued", "asking"} /\ HungUp(p)
  /\ Fails(p, "unreachable")
  /\ UNCHANGED <<procVars, washosted, faults, tool>>

(* pump: EngineLost and Closed events, or the end of the stream.            *)
SessionLost(p) ==
  /\ at[p] = "hosted"
  /\ unread[p] # <<>> \/ HungUp(p)
  /\ Fails(p, "lost")
  /\ UNCHANGED <<procVars, washosted, faults, tool>>

(* A signal or a typed Ctrl-C ends a hosted pane.                           *)
Finish(p) ==
  /\ at[p] = "hosted"
  /\ Moves(p, "finished")
  /\ conn' = [conn EXCEPT ![p] = Nobody]
  /\ unread' = [unread EXCEPT ![p] = <<>>]
  /\ UNCHANGED <<procVars, child, tries, washosted, restores, faults, tool>>

-----------------------------------------------------------------------------
(* tweb daemon restart                                                      *)

(* daemon_pid, and then `twebd stop`, which returns once it is answered.    *)
RestartStops ==
  /\ Restarts /\ tool.step = "idle" /\ SocketIsLive /\ serve[socket] = "serving"
  /\ tool' = [tool EXCEPT !.step = "stopped", !.old = socket]
  /\ StopServing(socket)
  /\ UNCHANGED <<paneVars, faults>>

RestartServes ==
  /\ tool.step = "stopped"
  /\ \E d \in Procs : Begin(d) /\ tool' = [tool EXCEPT !.step = "waiting", !.new = d]
  /\ UNCHANGED <<paneVars, faults>>

(* wait_for_serve                                                           *)
AnyDaemon == SocketIsLive /\ serve[socket] = "serving"
NotTheOld == AnyDaemon /\ socket # tool.old

RestartReports ==
  /\ tool.step = "waiting" /\ NotTheOld
  /\ tool' = [tool EXCEPT !.step = IF socket = tool.new THEN "ours" ELSE "other"]
  /\ UNCHANGED <<procVars, paneVars, faults>>

-----------------------------------------------------------------------------
(* Somebody else stops or kills a daemon.                                   *)
Fault ==
  /\ faults < MaxFaults
  /\ \E d \in Procs : StopServing(d) \/ Killed(d)
  /\ faults' = faults + 1
  /\ UNCHANGED <<paneVars, tool>>

Serves(d) == ServeStep(d) /\ UNCHANGED <<paneVars, faults, tool>>

PaneStep(p) ==
  \/ Look(p)       \/ StartServe(p) \/ CannotStart(p)     \/ PollFinds(p)
  \/ PollGivesUp(p) \/ Abandon(p)   \/ Connect(p)         \/ ReadAnswer(p)
  \/ AnswerNeverCame(p) \/ SessionLost(p)

DaemonFor(p) == Accept(p) \/ Answer(p)

FrontNext ==
  \/ \E p \in Panes : PaneStep(p) \/ DaemonFor(p) \/ EngineLost(p) \/ Finish(p)
  \/ \E d \in Procs : Serves(d)
  \/ RestartStops \/ RestartServes \/ RestartReports \/ Fault

FrontSpec == FrontInit /\ [][FrontNext]_frontVars

(* The frontends and the daemons run; a daemon that accepted answers.       *)
FrontFairness ==
  /\ \A p \in Panes : WF_frontVars(PaneStep(p)) /\ WF_frontVars(DaemonFor(p))
  /\ \A d \in Procs : WF_frontVars(Serves(d))

FairFrontSpec == FrontSpec /\ FrontFairness

-----------------------------------------------------------------------------
(* What a pane may expect of the search for a daemon.                       *)

(* Type invariant.                                                          *)
FrontTypeOK ==
  /\ ProcTypeOK
  /\ at \in [Panes -> PaneStates]
  /\ child \in [Panes -> Procs \cup {Nobody}]
  /\ tries \in [Panes -> 0 .. Attempts]
  /\ conn \in [Panes -> Procs \cup {Nobody}]
  /\ unread \in [Panes -> Seq({"hosted", "unavailable", "declined", "lost"})]
  /\ washosted \in [Panes -> BOOLEAN] /\ restores \in [Panes -> BOOLEAN]
  /\ faults \in 0 .. MaxFaults
  /\ tool \in [step : {"idle", "stopped", "waiting", "ours", "other"},
               old : Procs \cup {Nobody}, new : Procs \cup {Nobody}]

(* The search ends: whatever daemons do, a pane is hosted or has an engine  *)
(* of its own, and a daemon that goes away under it does not strand it      *)
(* (host_until_settled; ensure_running; connect_and_host).                  *)
PaneSettles ==
  \A p \in Panes :
    (at[p] \notin {"hosted", "own", "finished"})
      ~> (at[p] \in {"hosted", "own", "finished"})

(* A pane whose hosted session ended goes back to the daemon before it      *)
(* starts an engine of its own (REATTACH_ATTEMPTS).                         *)
LostGoesBack ==
  [][\A p \in Panes : at[p] = "hosted" => at'[p] # "own"]_frontVars

(* Once hosting has run, the engine a pane ends up starting restores the    *)
(* window's tabs (restores_after).                                          *)
TabsComeBack ==
  \A p \in Panes : at[p] = "own" /\ washosted[p] => restores[p]

(* A hosted pane the daemon has told of the loss of its engine leaves the   *)
(* session.                                                                 *)
ToldIsHeard ==
  \A p \in Panes :
    (at[p] = "asking" /\ unread[p] = <<"hosted", "lost">>) ~> (at[p] \in {"trying", "own"})

(* A pane that gives up on the daemon it started does not take it from      *)
(* under others: it is killed only if it has not bound its socket           *)
(* (start_with).                                                            *)
ReachableIsSpared ==
  [][\A d \in Procs :
       serve[d] = "serving" /\ serve'[d] = "gone" => faults' # faults]_frontVars

(* When the serve process of `tweb daemon restart` yields, there is a       *)
(* daemon other than the one it replaces to report (wait_for_serve).        *)
RestartFindsWinner ==
  tool.step = "waiting" /\ serve[tool.new] = "yielded" =>
    \E d \in Procs \ {tool.old, tool.new} : serve[d] # "none"
=============================================================================
