-------------------------- MODULE TwebdProperties --------------------------
(* What the shared-engine path promises its panes (see Twebd.tla).          *)
EXTENDS Twebd

(* Type invariant of the composition.                                       *)
TypeOK ==
  /\ RegTypeOK /\ HostTypeOK
  /\ task \in [Conns -> {"none", "reading", "opening", "forwarding",
                         "detaching", "writing", "closing", "ended"}]
  /\ inbox \in [Conns -> Seq({"host", "attach", "control", "detach"})]
  /\ gen \in [Conns -> Nat] /\ attached \in [Conns -> Nat]
  /\ hosted \in [Conns -> BOOLEAN]
  /\ outgoing \in [Conns -> Pushed \cup Replies \cup {Nothing}]
  /\ front \in [Conns -> {"away", "asked", "hosted", "attached", "refused",
                          "lost", "left", "gone"}]
  /\ painted \in [Conns -> SUBSET Conns]
  /\ pages \in SUBSET Page
  /\ met \in [Conns -> {"nobody", "route", "task"}]

(* Seen through its registrations the daemon implements PaneOwners: the     *)
(* owner of a pane is the connection whose generation is registered, so a   *)
(* generation stands for one connection, a waiting frontend keeps its pane  *)
(* but for a successor, and a refused one has none, whatever tasks run in   *)
(* between (dispatch, reap_connection).                                     *)
OwnerOf(k) ==
  IF panes[k] = NoGeneration THEN NoConn
  ELSE CHOOSE c \in Conns : KeyOf[c] = k /\ gen[c] = panes[k]

Owners == INSTANCE PaneOwners
            WITH owner <- [k \in Keys |-> OwnerOf(k)],
                 known <- {c \in Conns : gen[c] # NoGeneration},
                 waiting <- {c \in Conns : task[c] = "opening"},
                 accepted <- {c \in Conns : attached[c] # NoGeneration}
ImplementsPaneOwners == Owners!OwnersSpec

(* A frontend that was refused falls back to an engine of its own, so the   *)
(* daemon must hold neither a registration nor a route for it               *)
(* (server.rs, the Err branch of Host).                                     *)
RefusedLeavesNothing ==
  \A c \in Conns :
    "refused" \in {front[c], outgoing[c].kind} =>
      /\ sinks[KeyOf[c]] # c
      /\ ~IsCurrent(KeyOf[c], gen[c])

(* A connection's end takes everything it registered with it: the           *)
(* registration, and the route its pane was hosted by (reap_connection).    *)
EndedOwnsNothing ==
  \A c \in Conns :
    task[c] = "ended" =>
      /\ sinks[KeyOf[c]] # c
      /\ ~IsCurrent(KeyOf[c], gen[c])

(* Neither a refusal nor an end leaves the daemon with a registration or a  *)
(* route of that connection (the Err branch of Host, reap_connection).      *)
LeavesNothing == RefusedLeavesNothing /\ EndedOwnsNothing

(* While a hosted connection holds the pane's current registration, the     *)
(* pane's events come to it -- or the news that the engine died is on its   *)
(* way to it.  That takes a successor's route through whatever a            *)
(* predecessor's task does later: its detach, hang-up and reaping must find *)
(* that they are no longer current.  Only an open() or a close() that ran   *)
(* beside the connection's own open() may take the route away, since        *)
(* close() is two sections and removes what it finds in the second          *)
(* (engine_host.rs close, register; server.rs reap_connection).             *)
News(c) ==
  \/ \E i \in 1 .. Len(events[c]) : events[c][i].kind = "lost"
  \/ outgoing[c].kind = "lost" \/ front[c] \in {"lost", "gone"}

CurrentIsRouted ==
  \A c \in Conns :
    hosted[c] /\ IsCurrent(KeyOf[c], attached[c]) /\ met[c] # "task" =>
      sinks[KeyOf[c]] = c \/ News(c)

(* Once the engine has read its stdin, nothing of it is under way.          *)
Settled == stdin # NoConn /\ proc[stdin] = "running" /\ lines[stdin] = <<>>

(* What the daemon's table says of a pane id is what the engine will find:  *)
(* where it routes nobody under the id when a request to be hosted is read, *)
(* the ATTACH that follows is not refused, although the predecessor's       *)
(* DETACH may still be on its way; and while the pane stays routed to its   *)
(* connection no line closes its page.  A pane whose earlier connection is  *)
(* still routed is refused without a word (handleAttach), and two tasks     *)
(* beside one another may leave a page without its route.                   *)
AsksFor(l, c) == l.op = "attach" /\ l.from = c
Kept(c) == sinks[KeyOf[c]] = c /\ \A d \in closing : KeyOf[d] # KeyOf[c]
FoundFree(c) == met[c] = "nobody" /\ \A d \in Conns : SameId(c, d) => met[d] # "task"

HostedHasItsPage ==
  [][\A c \in Conns : LET page == [key |-> KeyOf[c], owner |-> c] IN
       /\ stdin # NoConn /\ proc[stdin] = "running"
       /\ lines[stdin] # <<>> /\ lines'[stdin] = Tail(lines[stdin])
       /\ Kept(c)
       /\ \/ page \in pages /\ met[c] # "task"
          \/ AsksFor(Head(lines[stdin]), c) /\ FoundFree(c)
       => page \in pages']_vars

(* Once the engine has read its stdin it holds no page that the daemon does *)
(* not route: nothing keeps painting for a pane whose frontend has gone,    *)
(* unless its open() ran beside another open() or close().                  *)
PageIsServed ==
  \A p \in pages : Settled /\ met[p.owner] # "task" => sinks[p.key] # NoConn

(* One pane id is routed for at most one tmux server: the engine cannot     *)
(* tell two apart (conflicting_pane_id).                                    *)
RoutedIdsUnique ==
  \A j, k \in Keys :
    sinks[j] # NoConn /\ sinks[k] # NoConn /\ IdOf[j] = IdOf[k] => j = k

(* A frame of a pane's previous page may be read off the pipe when the pane *)
(* has a new connection, and carries its generation.  Such a frame is of    *)
(* this pane id at least, and it comes before the first frame of the        *)
(* frontend's own page, which it then does not cover (deliver,              *)
(* message_is_current): but for what an engine that died had left on its    *)
(* pipe, and an open() beside another.                                      *)
PaintsInOrder ==
  [][\A c \in Conns : \A d \in painted'[c] \ painted[c] :
       /\ IdOf[KeyOf[d]] = IdOf[KeyOf[c]]
       /\ c \in painted[c] /\ met[c] # "task" => handle[d] # handle[c]]_vars

(* Every request to be hosted is answered -- hosted or refused -- so no     *)
(* frontend waits for ever on connect_and_host's untimed read.              *)
RequestAnswered ==
  \A c \in Conns : (front[c] = "asked") ~> (front[c] # "asked")

(* A hosted frontend whose engine dies hears of it, and can reattach.       *)
LossHeard ==
  \A c \in Conns :
    (hosted[c] /\ front[c] = "hosted" /\ stdin # NoConn /\ proc[stdin] = "exited")
      ~> (front[c] # "hosted")

(* A frontend that hung up is forgotten by the daemon and its page goes.    *)
HangUpReaped ==
  \A c \in Conns :
    (front[c] = "gone") ~> /\ ~IsCurrent(KeyOf[c], gen[c])
                           /\ sinks[KeyOf[c]] # c
                           /\ \A p \in pages : p.owner # c

(* Both ends hear of the other's: a frontend of its engine's death, and the *)
(* daemon and its engine of a frontend's hang-up.                           *)
EndsAreHeard == LossHeard /\ HangUpReaped

(* Not so, in the code as it is; each shows where the exemptions above are  *)
(* needed.  A close() that a re-attaching pane's open() overtakes between   *)
(* its two sections takes the successor's route (engine_host.rs close).     *)
RouteStays ==
  \A c \in Conns :
    hosted[c] /\ IsCurrent(KeyOf[c], attached[c]) => sinks[KeyOf[c]] = c \/ News(c)

(* A connection that the daemon routes gets its page when its ATTACH is     *)
(* read: not when a predecessor of the pane still has its own.              *)
AttachIsServed ==
  [][\A c \in Conns :
       /\ stdin # NoConn /\ proc[stdin] = "running"
       /\ lines[stdin] # <<>> /\ lines'[stdin] = Tail(lines[stdin])
       /\ AsksFor(Head(lines[stdin]), c) /\ Kept(c)
       => [key |-> KeyOf[c], owner |-> c] \in pages']_vars

(* The daemon routes every page the engine has.                             *)
PageIsRouted == \A p \in pages : Settled => sinks[p.key] # NoConn

(* A frontend paints frames of its own page only: a late frame of its       *)
(* predecessor's page finds the route of the pane (deliver).                *)
PaintsOwnPage == \A c \in Conns : painted[c] \subseteq {c}
=============================================================================
