--------------------------- MODULE DaemonProcess ---------------------------
(***************************************************************************)
(* `twebd serve` as a process: taking the singleton lock, binding the      *)
(* socket, serving, and going away (singleton.rs, server.rs bind and       *)
(* serve).  The lock is an flock: the kernel grants it to one process and  *)
(* takes it back when that process dies.  The socket file is a name on     *)
(* disk that outlives the process that bound it.                           *)
(***************************************************************************)
EXTENDS Integers

CONSTANTS
  Procs,     \* the serve processes of one run; each runs once
  Nobody

ASSUME ProcAssumption == Nobody \notin Procs

VARIABLES
  serve,    \* how far each process has come
  lock,     \* holder of twebd.lock, or Nobody
  socket    \* whose listener twebd.sock names; Nobody when there is no file

procVars == <<serve, lock, socket>>

ServeStates == {"none", "started", "locked", "clearing", "binding", "serving",
                "stopping", "unlinked", "yielded", "gone"}
Ended == {"none", "yielded", "gone"}

ProcInit ==
  /\ serve = [d \in Procs |-> "none"]
  /\ lock = Nobody
  /\ socket = Nobody

Becomes(d, s) == serve' = [serve EXCEPT ![d] = s]

(* connect() succeeds: the name is there and its listener still open.       *)
SocketIsLive == socket # Nobody /\ serve[socket] \in {"serving", "stopping"}

Begin(d) ==
  /\ serve[d] = "none"
  /\ Becomes(d, "started")
  /\ UNCHANGED <<lock, socket>>

(* try_acquire                                                              *)
LockIsFree == lock = Nobody

TakeLock(d) ==
  /\ serve[d] = "started" /\ LockIsFree
  /\ lock' = d
  /\ Becomes(d, "locked")
  /\ UNCHANGED socket

(* A loser exits with status 0 and touches nothing.                         *)
Yield(d) ==
  /\ serve[d] = "started" /\ ~LockIsFree
  /\ Becomes(d, "yielded")
  /\ UNCHANGED <<lock, socket>>

(* decide: a socket file that is there belongs to a daemon that is gone.    *)
Decision == IF socket # Nobody THEN "clearing" ELSE "binding"

Decide(d) ==
  /\ serve[d] = "locked"
  /\ Becomes(d, Decision)
  /\ UNCHANGED <<lock, socket>>

ClearStale(d) ==
  /\ serve[d] = "clearing"
  /\ socket' = Nobody
  /\ Becomes(d, "binding")
  /\ UNCHANGED lock

(* bind(2) refuses a name that exists, and the process ends with an error.  *)
Bind(d) ==
  /\ serve[d] = "binding"
  /\ IF socket = Nobody
     THEN socket' = d /\ Becomes(d, "serving") /\ UNCHANGED lock
     ELSE lock' = Nobody /\ Becomes(d, "gone") /\ UNCHANGED socket

(* The bug the shutdown's order avoids: the lock goes before the name.      *)
ReleasesEarly(d) ==
  /\ serve[d] = "serving"
  /\ lock' = Nobody
  /\ Becomes(d, "stopping")
  /\ UNCHANGED socket

(* A stop request, SIGINT or SIGTERM ends the accept loop.                  *)
StopServing(d) ==
  /\ serve[d] = "serving"
  /\ Becomes(d, "stopping")
  /\ UNCHANGED <<lock, socket>>

(* Unlinked while the lock is still held.                                   *)
Unlink(d) ==
  /\ serve[d] = "stopping"
  /\ socket' = Nobody
  /\ Becomes(d, "unlinked")
  /\ UNCHANGED lock

ReleasedBy(d) == IF lock = d THEN Nobody ELSE lock

Exit(d) ==
  /\ serve[d] = "unlinked"
  /\ lock' = ReleasedBy(d)
  /\ Becomes(d, "gone")
  /\ UNCHANGED socket

(* SIGKILL at any point: the kernel frees the lock, the name stays.         *)
Killed(d) ==
  /\ serve[d] \notin Ended
  /\ lock' = ReleasedBy(d)
  /\ Becomes(d, "gone")
  /\ UNCHANGED socket

(* What a serve process does by itself.                                     *)
ServeStep(d) ==
  \/ TakeLock(d) \/ Yield(d) \/ Decide(d) \/ ClearStale(d) \/ Bind(d)
  \/ Unlink(d)   \/ Exit(d)

ProcNext == \E d \in Procs : ServeStep(d) \/ Begin(d) \/ StopServing(d) \/ Killed(d)

ProcSpec == ProcInit /\ [][ProcNext]_procVars

-----------------------------------------------------------------------------
(* Type invariant of the daemon processes.                                  *)
ProcTypeOK ==
  /\ serve \in [Procs -> ServeStates]
  /\ lock \in Procs \cup {Nobody}
  /\ socket \in Procs \cup {Nobody}

(* A daemon that serves can be found: the socket file names it, whatever    *)
(* other daemons start, lose the lock, stop or are killed meanwhile.  No    *)
(* daemon ever unlinks the name of a live one (bind, serve).                *)
ServingIsReachable == \A d \in Procs : serve[d] = "serving" => socket = d

(* bind() never meets a name: whoever decided to bind is alone, and has     *)
(* cleared what a killed predecessor left.                                  *)
BindIsFree == \A d \in Procs : serve[d] = "binding" => socket = Nobody

(* The socket file is never wrong: it names whoever serves, and is gone     *)
(* when somebody binds (bind, clear_stale_socket, the lock of serve).       *)
SocketIsTrue == ServingIsReachable /\ BindIsFree
=============================================================================
