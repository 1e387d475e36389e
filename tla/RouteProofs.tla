---------------------------- MODULE RouteProofs ----------------------------
(* What the daemon's routes, the engine's pages and the frontends' pictures *)
(* hold of one another, for any connections, panes and tmux servers: only   *)
(* an open() beside another open() or close() of its pane id is excepted.   *)
EXTENDS TwebdProofs, SequenceTheorems

\* The open() of c ran beside no other open() or close() of its pane id.
Calm(c) == met[c] # "task"
InCharge(c) == IsCurrent(KeyOf[c], gen[c])

(* A connection that has not asked to be hosted has met nobody; while an    *)
(* open() that met no task waits nobody else of the pane id is busy; and    *)
(* while the connection it hosted is in charge nobody else of the pane is.  *)
MetNobody(c) == gen[c] = NoGeneration => met[c] = "nobody"

Solo(c) == Calm(c) /\ task[c] = "opening" => \A d \in Conns : SameId(c, d) => ~Busy(d)

Clear(c) ==
  Calm(c) /\ InCharge(c) /\ hosted[c] =>
    \A d \in Conns : d # c /\ KeyOf[d] = KeyOf[c] => ~Busy(d)

HostedIsGiven(c) == hosted[c] => gen[c] # NoGeneration

MetInv == \A c \in Conns : MetNobody(c) /\ Solo(c) /\ Clear(c) /\ HostedIsGiven(c)

-----------------------------------------------------------------------------
(* The route of a registered pane.                                          *)

NewsWaits(c) == \E i \in 1 .. Len(events[c]) : events[c][i].kind = "lost"

Serves(c) == hosted[c] /\ IsCurrent(KeyOf[c], attached[c])

(* The frontend is told that it is hosted before it hears of a loss, and    *)
(* leaves before it is forgotten.                                           *)
HearsIt(c) ==
  /\ \/ front[c] \in {"hosted", "lost", "gone"}
     \/ front[c] = "asked" /\ outgoing[c].kind = "hosted"
     \/ front[c] = "left" /\ inbox[c] = <<"detach">>
  /\ outgoing[c].kind \notin {"refused", "attached"}
  /\ outgoing[c].kind = "hosted" => front[c] \in {"asked", "gone"}

Routed1(c) ==
  /\ Calm(c) /\ InCharge(c) /\ call[c] = "sending" => sinks[KeyOf[c]] = c \/ NewsWaits(c)
  /\ hosted[c] => gen[c] # NoGeneration
  /\ Serves(c) => HearsIt(c)
  /\ Serves(c) /\ Calm(c) => sinks[KeyOf[c]] = c \/ News(c)

RoutesInv == \A c \in Conns : Routed1(c)

-----------------------------------------------------------------------------
(* What the steps of other connections leave alone.                  *)
ConnsTyped ==
  /\ task \in [Conns -> TaskStates] /\ inbox \in [Conns -> Seq(Requests)]
  /\ front \in [Conns -> FrontStates]
  /\ gen \in [Conns -> Nat] /\ attached \in [Conns -> Nat] /\ hosted \in [Conns -> BOOLEAN]
  /\ outgoing \in [Conns -> Pushed \cup Replies \cup {Nothing}]
  /\ painted \in [Conns -> SUBSET Conns] /\ MetTyped /\ frames \in [Conns -> Nat]
  /\ call \in [Conns -> CallStates] /\ handle \in [Conns -> Conns \cup {NoConn}]
  /\ closing \in SUBSET Conns
  /\ events \in [Conns -> Seq(Event)] /\ lines \in [Conns -> Seq(Line)]
  /\ stdout \in [Conns -> Seq(Frame)] /\ pages \subseteq Page
  /\ sinks \in [Keys -> Conns \cup {NoConn}] /\ stdin \in Conns \cup {NoConn}
  /\ proc \in [Conns -> ProcStates] /\ pump \in [Conns -> BOOLEAN]
  /\ panes \in [Keys -> Nat] /\ nextGeneration \in Nat
  /\ KeyOf \in [Conns -> Keys] /\ NoConn \notin Conns /\ IdOf \in [Keys -> Ids]

(* The invariants that are already proved give the types used below.        *)
LEMMA BasisTyped == Basis => ConnsTyped
<1> SUFFICES ASSUME Basis PROVE ConnsTyped
  OBVIOUS
<1>1. panes \in [Keys -> Nat] /\ nextGeneration \in Nat
  BY RegistryAssumption DEF Basis, OwnersInv, RegInv, RegTypeOK
<1>2. gen \in [Conns -> Nat] /\ attached \in [Conns -> Nat]
  <2>1. gen \in [Conns -> 0 .. nextGeneration] /\ attached \in [Conns -> 0 .. nextGeneration]
    BY DEF Basis, OwnersInv, GensIssued
  <2> QED BY <1>1, <2>1
<1> QED
  BY <1>1, <1>2, HostAssumption, KeysAssumption
  DEF Basis, ConnsTyped, ConnType, CompositionInv, QueueType, PagesTyped, HostInv, CoreType

TaskOf(d) == <<task[d], inbox[d], front[d], outgoing[d], painted[d], gen[d], attached[d], hosted[d]>>

Aside(c, d) ==
  /\ UNCHANGED TaskOf(d) /\ call'[d] = call[d] /\ handle'[d] = handle[d] /\ events'[d] = events[d]
  /\ d \in closing' <=> d \in closing
  /\ panes'[KeyOf[d]] \in {panes[KeyOf[d]], NoGeneration, NewGeneration}
  /\ sinks'[KeyOf[d]] # sinks[KeyOf[d]] => KeyOf[d] = KeyOf[c] /\ Busy(c)

(* A step of an open() touches no other one's call or events, and no other  *)
(* pane's route.                                                            *)
LEMMA OpenAside ==
  ASSUME ConnsTyped, NEW c \in Conns, NEW d \in Conns, d # c, OpenStep(c)
  PROVE  /\ call'[d] = call[d] /\ handle'[d] = handle[d] /\ UNCHANGED <<events, closing>>
         /\ sinks'[KeyOf[d]] # sinks[KeyOf[d]] => KeyOf[d] = KeyOf[c]
<1> USE DEF ConnsTyped
<1>1. CASE OpenBegin(c)       BY <1>1 DEF OpenBegin
<1>2. CASE OpenRefused(c)     BY <1>2 DEF OpenRefused
<1>3. CASE OpenFindsEngine(c) BY <1>3 DEF OpenFindsEngine
<1>4. CASE OpenStarts(c)      BY <1>4 DEF OpenStarts
<1>5. CASE SpawnReady(c)      BY <1>5 DEF SpawnReady
<1>6. CASE SpawnFails(c)      BY <1>6 DEF SpawnFails
<1>7. CASE Register(c)        BY <1>7 DEF Register
<1>8. CASE SendAttach(c)      BY <1>8 DEF SendAttach, Unrouted
<1> QED BY <1>1, <1>2, <1>3, <1>4, <1>5, <1>6, <1>7, <1>8 DEF OpenStep

(* Nor does a control line, a close or taking an event.                     *)
LEMMA CallAside ==
  ASSUME ConnsTyped, NEW c \in Conns, NEW d \in Conns, d # c, CallStep(c)
  PROVE  /\ UNCHANGED <<call, handle>> /\ events'[d] = events[d] /\ (d \in closing' <=> d \in closing)
         /\ sinks'[KeyOf[d]] # sinks[KeyOf[d]] => KeyOf[d] = KeyOf[c] /\ c \in closing
<1> USE DEF ConnsTyped
<1>1. CASE ForwardControl(c) BY <1>1 DEF ForwardControl
<1>2. CASE CloseCheck(c)     BY <1>2 DEF CloseCheck
<1>3. CASE CloseRemove(c)    BY <1>3 DEF CloseRemove
<1>4. CASE TakeEvent(c)      BY <1>4 DEF TakeEvent
<1> QED BY <1>1, <1>2, <1>3, <1>4 DEF CallStep

(* No task or frontend moves what belongs to another connection, and the    *)
(* route of another's pane only from inside an open() or a close().         *)
LEMMA StepsAside ==
  ASSUME ConnsTyped, TasksInv, NEW c \in Conns, NEW d \in Conns, d # c,
         TaskStep(c) \/ FrontStep(c)
  PROVE  Aside(c, d)
<1> USE DEF Goto, Answer, regVars, hostVars, connVars, TaskOf
<1>0. d # c
  OBVIOUS
<1>i. c \in closing => Busy(c)
  BY DEF TasksInv, InStep, Busy
<1> DEFINE Registers == panes'[KeyOf[d]] \in {panes[KeyOf[d]], NoGeneration, NewGeneration}
<1>a. ASSUME (OpenStep(c) /\ Busy(c)) \/ CallStep(c) \/ UNCHANGED hostVars,
             Registers, UNCHANGED TaskOf(d)
      PROVE  Aside(c, d)
  <2>1. CASE OpenStep(c) /\ Busy(c) BY <1>a, <2>1, OpenAside DEF Aside
  <2>2. CASE CallStep(c) BY <1>a, <1>i, <2>2, CallAside DEF Aside
  <2>3. CASE UNCHANGED hostVars BY <1>a, <2>3 DEF Aside
  <2> QED BY <1>a, <2>1, <2>2, <2>3
<1>b. /\ Attach(KeyOf[c]) => Registers
      /\ \A g : Detach(KeyOf[c], g) => Registers
      /\ UNCHANGED panes => Registers
  BY DEF ConnsTyped, Attach, Detach
<1>c. \A r : Reads(c, r) => inbox'[d] = inbox[d]
  BY <1>0 DEF ConnsTyped, Reads
<1> USE DEF ConnsTyped
<1>5. CASE ReadAttach(c)
  <2>1. UNCHANGED TaskOf(d) BY <1>0, <1>c, <1>5 DEF ReadAttach
  <2> QED BY <1>a, <1>b, <1>5, <2>1 DEF ReadAttach
<1>6. CASE ReadHostConflict(c)
  <2>1. UNCHANGED TaskOf(d) BY <1>0, <1>c, <1>6 DEF ReadHostConflict
  <2> QED BY <1>a, <1>b, <1>6, <2>1 DEF ReadHostConflict
<1>7. CASE ReadHost(c)
  <2>1. UNCHANGED TaskOf(d) BY <1>0, <1>c, <1>7 DEF ReadHost
  <2>2. Registers /\ OpenBegin(c)
    BY <1>b, <1>7 DEF ReadHost
  <2> QED BY <1>0, <2>1, <2>2 DEF OpenBegin, Aside
<1>8. CASE Opening(c)
  <2>1. UNCHANGED TaskOf(d) BY <1>8 DEF Opening
  <2>2. OpenStep(c) /\ Busy(c) BY <1>8 DEF Opening, OpenStep, Busy
  <2> QED BY <1>a, <1>b, <1>8, <2>1, <2>2 DEF Opening
<1>9. CASE HostAccepted(c)
  <2>1. UNCHANGED TaskOf(d) BY <1>0, <1>9 DEF HostAccepted
  <2> QED BY <1>a, <1>b, <1>9, <2>1 DEF HostAccepted, OpenStep, Busy
<1>10. CASE HostRefused(c)
  <2>1. UNCHANGED TaskOf(d) BY <1>0, <1>10 DEF HostRefused
  <2> QED BY <1>a, <1>b, <1>10, <2>1 DEF HostRefused
<1>11. CASE ReadControl(c)
  <2>1. UNCHANGED TaskOf(d) BY <1>0, <1>c, <1>11 DEF ReadControl
  <2> QED BY <1>a, <1>b, <1>11, <2>1 DEF ReadControl
<1>12. CASE Forward(c)
  <2>1. UNCHANGED TaskOf(d) BY <1>0, <1>12 DEF Forward
  <2> QED BY <1>a, <1>b, <1>12, <2>1 DEF Forward, CallStep
<1>13. CASE ReadDetach(c)
  <2>1. UNCHANGED TaskOf(d) BY <1>0, <1>c, <1>13 DEF ReadDetach
  <2> QED BY <1>a, <1>b, <1>13, <2>1 DEF ReadDetach
<1>15. CASE CloseFirst(c)
  <2>1. UNCHANGED TaskOf(d) BY <1>0, <1>15 DEF CloseFirst
  <2> QED BY <1>a, <1>b, <1>15, <2>1 DEF CloseFirst, CallStep
<1>16. CASE CloseSecond(c)
  <2>1. UNCHANGED TaskOf(d) BY <1>0, <1>16 DEF CloseSecond
  <2> QED BY <1>a, <1>b, <1>16, <2>1 DEF CloseSecond, CallStep
<1>17. CASE Push(c)
  <2>1. UNCHANGED TaskOf(d) BY <1>0, <1>17 DEF Push
  <2> QED BY <1>a, <1>b, <1>17, <2>1 DEF Push, CallStep
<1>18. CASE WriteSucceeds(c)
  <2>1. UNCHANGED TaskOf(d) BY <1>0, <1>18 DEF WriteSucceeds
  <2> QED BY <1>a, <1>b, <1>18, <2>1 DEF WriteSucceeds
<1>19. CASE WriteFails(c)
  <2>1. UNCHANGED TaskOf(d) BY <1>0, <1>19 DEF WriteFails
  <2> QED BY <1>a, <1>b, <1>19, <2>1 DEF WriteFails
<1>20. CASE Reap(c)
  <2>1. UNCHANGED TaskOf(d) BY <1>0, <1>20 DEF Reap
  <2> QED BY <1>a, <1>b, <1>20, <2>1 DEF Reap
<1>21. CASE FrontStep(c)
  <2>1. UNCHANGED TaskOf(d)
    BY <1>0, <1>21 DEF FrontStep, Connect, SendRequest, HangUp, Ask
  <2> QED BY <1>a, <1>b, <1>21, <2>1 DEF FrontStep, Connect, SendRequest, HangUp, Ask
<1> QED
  BY <1>5, <1>6, <1>7, <1>8, <1>9, <1>10, <1>11, <1>12, <1>13, <1>15, <1>16, <1>17, <1>18,
     <1>19, <1>20, <1>21 DEF TaskStep, Dispatch

(* How a connection's step is noted: only a request to be hosted begins an  *)
(* open(), and whoever becomes busy is met by the open()s of its pane id.   *)
LEMMA TaskMeets ==
  ASSUME ConnsTyped, NEW c \in Conns, TaskStep(c) \/ FrontStep(c)
  PROVE  /\ \A d \in Conns \ {c} : met'[d] = met[d] \/ (met'[d] = "task" /\ task[d] = "opening")
         /\ ReadHost(c) \/ (met'[c] = met[c] /\ (task'[c] = "opening" => task[c] = "opening"))
         /\ Busy(c)' /\ ~Busy(c) =>
              \A d \in Conns : SameId(d, c) /\ task[d] = "opening" => met'[d] = "task"
<1> DEFINE Others == \A d \in Conns \ {c} : met'[d] = met[d] \/ (met'[d] = "task" /\ task[d] = "opening")
           Own == met'[c] = met[c] /\ (task'[c] = "opening" => task[c] = "opening")
           Noted == \A d \in Conns : SameId(d, c) /\ task[d] = "opening" => met'[d] = "task"
<1>s. \A d \in Conns : SameId(d, c) <=> SameId(c, d)
  BY DEF SameId
<1>o. ASSUME met' = OpensMeet(c) PROVE Others /\ met'[c] = met[c] /\ Noted
  BY <1>s, <1>o DEF ConnsTyped, MetTyped, OpensMeet, SameId
<1>u. UNCHANGED met => Others /\ met'[c] = met[c]
  OBVIOUS
<1>g. ASSUME NEW t \in TaskStates, Goto(c, t) PROVE task'[c] = t
  BY <1>g DEF ConnsTyped, Goto
<1>w. ASSUME NEW r, Answer(c, r) PROVE task'[c] = "writing"
  BY <1>g, <1>w DEF Answer, TaskStates
<1> USE DEF Busy, TaskStates
<1>5. CASE ReadAttach(c)        BY <1>u, <1>w, <1>5 DEF ReadAttach
<1>6. CASE ReadHostConflict(c)  BY <1>u, <1>w, <1>6 DEF ReadHostConflict
<1>7. CASE ReadHost(c)
  <2>1. DOMAIN OpensMeet(c) = Conns /\ DOMAIN met = Conns
    BY DEF OpensMeet, ConnsTyped, MetTyped
  <2>2. \A d \in Conns \ {c} : met'[d] = OpensMeet(c)[d]
    BY <1>7, <2>1 DEF ReadHost, OpenMeets
  <2>3. Others /\ Noted
    BY <1>s, <2>2 DEF OpensMeet, SameId
  <2> QED BY <1>7, <2>3
<1>8. CASE Opening(c)           BY <1>u, <1>8 DEF Opening, connVars
<1>9. CASE HostAccepted(c)      BY <1>u, <1>w, <1>9 DEF HostAccepted
<1>10. CASE HostRefused(c)      BY <1>u, <1>w, <1>10 DEF HostRefused
<1>11. CASE ReadControl(c)      BY <1>g, <1>u, <1>w, <1>11 DEF ReadControl
<1>12. CASE Forward(c)          BY <1>u, <1>w, <1>12 DEF Forward
<1>13. CASE ReadDetach(c)
  <2>1. CASE IsCurrent(KeyOf[c], gen[c])  BY <1>g, <1>o, <1>13, <2>1 DEF ReadDetach, CloseMeets
  <2>2. CASE ~IsCurrent(KeyOf[c], gen[c]) BY <1>u, <1>w, <1>13, <2>2 DEF ReadDetach
  <2> QED BY <2>1, <2>2
<1>15. CASE CloseFirst(c)       BY <1>g, <1>u, <1>w, <1>15 DEF CloseFirst
<1>16. CASE CloseSecond(c)      BY <1>g, <1>u, <1>w, <1>16 DEF CloseSecond
<1>17. CASE Push(c)             BY <1>g, <1>u, <1>17 DEF Push
<1>18. CASE WriteSucceeds(c)    BY <1>g, <1>u, <1>18 DEF WriteSucceeds
<1>19. CASE WriteFails(c)       BY <1>g, <1>u, <1>19 DEF WriteFails
<1>20. CASE Reap(c)
  <2>1. ReapLeadsTo(c) \in {"closing", "ended"}
    BY DEF ReapLeadsTo
  <2>2. CASE ReapLeadsTo(c) = "closing" BY <1>g, <1>o, <1>20, <2>2 DEF Reap, CloseMeets
  <2>3. CASE ReapLeadsTo(c) = "ended"   BY <1>g, <1>u, <1>20, <2>3 DEF Reap
  <2> QED BY <2>1, <2>2, <2>3
<1>21. CASE FrontStep(c)
  <2>1. UNCHANGED met /\ (UNCHANGED task \/ Goto(c, "reading"))
    BY <1>21 DEF FrontStep, Connect, SendRequest, HangUp, Ask, Goto
  <2> QED BY <1>g, <1>u, <2>1
<1> QED
  BY <1>5, <1>6, <1>7, <1>8, <1>9, <1>10, <1>11, <1>12, <1>13, <1>15, <1>16, <1>17, <1>18,
     <1>19, <1>20, <1>21 DEF TaskStep, Dispatch

-----------------------------------------------------------------------------
(* The engine's side: nothing it does touches a task, and a route it takes  *)
(* away is one whose connection is told.                                    *)
EngineSide == (\E e \in Conns : EngineAct(e)) \/ Ages \/ UNCHANGED vars

(* What the engine and the daemon's tasks for it never touch.               *)
LEMMA EngineSideAside ==
  ASSUME EngineSide
  PROVE  UNCHANGED <<panes, nextGeneration, task, inbox, gen, attached, hosted, outgoing, front,
                     painted, met, call, handle, closing>>
<1> USE DEF connVars, regVars, hostVars
<1>1. ASSUME NEW e \in Conns, EngineAct(e)
      PROVE  UNCHANGED <<panes, nextGeneration, task, inbox, gen, attached, hosted, outgoing,
                         front, painted, met, call, handle, closing>>
  <2>1. CASE HandleControlLine(e) BY <2>1 DEF HandleControlLine, EngineTakesLine
  <2>2. CASE Paint(e)             BY <2>2 DEF Paint, EnginePaints
  <2>3. CASE LastTabCloses(e)     BY <2>3 DEF LastTabCloses
  <2>4. CASE EngineGone(e)        BY <2>4 DEF EngineGone, EngineExits
  <2>5. CASE HostTask(e)          BY <2>5 DEF HostTask, Deliver, PumpBreaks, WatchExit
  <2> QED BY <1>1, <2>1, <2>2, <2>3, <2>4, <2>5 DEF EngineAct
<1>2. CASE Ages BY <1>2 DEF Ages, StartAgesOut
<1>3. CASE UNCHANGED vars BY <1>3 DEF vars
<1> QED BY <1>1, <1>2, <1>3 DEF EngineSide

(* A loss that waits stays in the queue until it is taken.                  *)
LEMMA NewsStays ==
  ASSUME ConnsTyped, NEW d \in Conns, NEW m, m \in Event, events'[d] = Append(events[d], m)
  PROVE  (NewsWaits(d) => NewsWaits(d)') /\ (m.kind = "lost" => NewsWaits(d)')
<1>1. events[d] \in Seq(Event) /\ Len(events[d]) \in Nat
  BY DEF ConnsTyped
<1>2. Len(events'[d]) = Len(events[d]) + 1 /\ events'[d][Len(events[d]) + 1] = m
  BY <1>1
<1>3. \A i \in 1 .. Len(events[d]) : events'[d][i] = events[d][i]
  BY <1>1
<1>4. NewsWaits(d) => NewsWaits(d)'
  BY <1>1, <1>2, <1>3 DEF NewsWaits
<1>5. m.kind = "lost" => NewsWaits(d)'
  BY <1>1, <1>2 DEF NewsWaits
<1> QED BY <1>4, <1>5

(* deliver() appends a frame to the channel of one connection.              *)
LEMMA DeliverAdds ==
  ASSUME ConnsTyped, NEW e \in Conns, Deliver(e)
  PROVE  /\ stdout[e] # <<>> /\ Head(stdout[e]) \in Frame /\ stdout' = [stdout EXCEPT ![e] = Tail(@)]
         /\ \/ UNCHANGED events
            \/ \E k \in RoutesOf(Head(stdout[e])) :
                 /\ sinks[k] \in Conns
                 /\ events' = [events EXCEPT ![sinks[k]] =
                                 Append(@, [kind |-> "frame", owner |-> Head(stdout[e]).owner])]
<1>1. stdout[e] \in Seq(Frame) /\ stdout[e] # <<>>
  BY DEF ConnsTyped, Deliver
<1>2. Head(stdout[e]) \in Frame
  BY <1>1
<1> QED BY <1>1, <1>2 DEF Deliver, RoutesOf, ConnsTyped

(* Whoever loses its route to the engine's end is told of it.               *)
LEMMA EngineTells ==
  ASSUME ConnsTyped, NEW d \in Conns, EngineSide
  PROVE  /\ NewsWaits(d) => NewsWaits(d)'
         /\ sinks[KeyOf[d]] = d => sinks'[KeyOf[d]] = d \/ NewsWaits(d)'
<1> DEFINE Goal == /\ NewsWaits(d) => NewsWaits(d)'
                   /\ sinks[KeyOf[d]] = d => sinks'[KeyOf[d]] = d \/ NewsWaits(d)'
<1> USE DEF connVars, regVars, hostVars
<1>1. ASSUME UNCHANGED sinks, events'[d] = events[d] PROVE Goal
  BY <1>1 DEF NewsWaits
<1>2. ASSUME NEW e \in Conns, EngineAct(e) PROVE Goal
  <2>1. CASE HandleControlLine(e) BY <1>1, <2>1 DEF HandleControlLine, EngineTakesLine
  <2>2. CASE Paint(e)             BY <1>1, <2>2 DEF Paint, EnginePaints
  <2>3. CASE LastTabCloses(e)     BY <1>1, <2>3 DEF LastTabCloses
  <2>4. CASE EngineGone(e)        BY <1>1, <2>4 DEF EngineGone, EngineExits
  <2>5. CASE Deliver(e)
    <3>1. UNCHANGED sinks
      BY <2>5 DEF Deliver
    <3>2. CASE UNCHANGED events BY <1>1, <3>1, <3>2
    <3>3. ASSUME NEW k \in RoutesOf(Head(stdout[e])), sinks[k] \in Conns,
                 events' = [events EXCEPT ![sinks[k]] =
                              Append(@, [kind |-> "frame", owner |-> Head(stdout[e]).owner])]
          PROVE  Goal
      <4>1. CASE sinks[k] # d
        BY <1>1, <3>1, <3>3, <4>1 DEF ConnsTyped
      <4>2. CASE sinks[k] = d
        <5>1. [kind |-> "frame", owner |-> Head(stdout[e]).owner] \in Event
          BY <2>5, DeliverAdds DEF Frame, Event
        <5>2. events'[d] = Append(events[d], [kind |-> "frame", owner |-> Head(stdout[e]).owner])
          BY <3>3, <4>2 DEF ConnsTyped
        <5> QED BY <3>1, <5>1, <5>2, NewsStays
      <4> QED BY <4>1, <4>2
    <3> QED BY <2>5, <3>2, <3>3, DeliverAdds
  <2>6. CASE PumpBreaks(e) BY <1>1, <2>6 DEF PumpBreaks
  <2>7. CASE WatchExit(e)
    <3>1. CASE d \in Routed
      <4>1. [kind |-> "lost"] \in Event
        BY DEF Event
      <4>2. events'[d] = Append(events[d], [kind |-> "lost"])
        BY <2>7, <3>1 DEF WatchExit
      <4> QED BY <4>1, <4>2, NewsStays
    <3>2. CASE d \notin Routed
      <4>1. events'[d] = events[d] /\ sinks[KeyOf[d]] # d
        BY <2>7, <3>2 DEF WatchExit, Routed, ConnsTyped
      <4> QED BY <4>1 DEF NewsWaits
    <3> QED BY <3>1, <3>2
  <2> QED BY <1>2, <2>1, <2>2, <2>3, <2>4, <2>5, <2>6, <2>7 DEF EngineAct, HostTask
<1>3. CASE Ages BY <1>1, <1>3 DEF Ages, StartAgesOut
<1>4. CASE UNCHANGED vars BY <1>1, <1>4 DEF vars
<1> QED BY <1>2, <1>3, <1>4 DEF EngineSide

(* The engine's side takes routes away and adds none.                       *)
LEMMA SinksOnlyGo ==
  ASSUME ConnsTyped, EngineSide
  PROVE  \A k \in Keys : sinks'[k] \in {sinks[k], NoConn}
<1> USE DEF connVars, regVars, hostVars
<1>1. ASSUME NEW e \in Conns, EngineAct(e) PROVE sinks' \in {sinks, Drained}
  <2>1. CASE HandleControlLine(e) BY <2>1 DEF HandleControlLine, EngineTakesLine
  <2>2. CASE Paint(e)             BY <2>2 DEF Paint, EnginePaints
  <2>3. CASE LastTabCloses(e)     BY <2>3 DEF LastTabCloses
  <2>4. CASE EngineGone(e)        BY <2>4 DEF EngineGone, EngineExits
  <2>5. CASE HostTask(e)          BY <2>5 DEF HostTask, Deliver, PumpBreaks, WatchExit
  <2> QED BY <1>1, <2>1, <2>2, <2>3, <2>4, <2>5 DEF EngineAct
<1>2. CASE Ages BY <1>2 DEF Ages, StartAgesOut
<1>3. CASE UNCHANGED vars BY <1>3 DEF vars
<1> QED BY <1>1, <1>2, <1>3 DEF EngineSide, Drained, ConnsTyped

LEMMA RoutesOnlyGo ==
  ASSUME ConnsTyped, NEW d \in Conns, EngineSide
  PROVE  sinks'[KeyOf[d]] \in {sinks[KeyOf[d]], NoConn}
BY SinksOnlyGo DEF ConnsTyped

-----------------------------------------------------------------------------
(* Nobody gets beside an open() unmet.                                      *)

(* What a connection's step is to the engine host, and to the pages.        *)
LEMMA TaskHost ==
  ASSUME NEW c \in Conns, TaskStep(c) \/ FrontStep(c)
  PROVE  UNCHANGED pages /\ (OpenStep(c) \/ CallStep(c) \/ UNCHANGED hostVars)
<1> USE DEF connVars
<1>5. CASE ReadAttach(c)        BY <1>5 DEF ReadAttach
<1>6. CASE ReadHostConflict(c)  BY <1>6 DEF ReadHostConflict
<1>7. CASE ReadHost(c)          BY <1>7 DEF ReadHost, OpenStep
<1>8. CASE Opening(c)           BY <1>8 DEF Opening, OpenStep
<1>9. CASE HostAccepted(c)      BY <1>9 DEF HostAccepted, OpenStep
<1>10. CASE HostRefused(c)      BY <1>10 DEF HostRefused
<1>11. CASE ReadControl(c)      BY <1>11 DEF ReadControl
<1>12. CASE Forward(c)          BY <1>12 DEF Forward, CallStep
<1>13. CASE ReadDetach(c)       BY <1>13 DEF ReadDetach
<1>15. CASE CloseFirst(c)       BY <1>15 DEF CloseFirst, CallStep
<1>16. CASE CloseSecond(c)      BY <1>16 DEF CloseSecond, CallStep
<1>17. CASE Push(c)             BY <1>17 DEF Push, CallStep
<1>18. CASE WriteSucceeds(c)    BY <1>18 DEF WriteSucceeds
<1>19. CASE WriteFails(c)       BY <1>19 DEF WriteFails
<1>20. CASE Reap(c)             BY <1>20 DEF Reap
<1>21. CASE FrontStep(c)        BY <1>21 DEF FrontStep, Connect, SendRequest, HangUp, Ask
<1> QED
  BY <1>5, <1>6, <1>7, <1>8, <1>9, <1>10, <1>11, <1>12, <1>13, <1>15, <1>16, <1>17, <1>18,
     <1>19, <1>20, <1>21 DEF TaskStep, Dispatch

(* Whoever becomes busy has just been registered, or was registered until   *)
(* then.                                                                    *)
LEMMA BecomesBusy ==
  ASSUME ConnsTyped, NEW c \in Conns, TaskStep(c) \/ FrontStep(c), Busy(c)', ~Busy(c)
  PROVE  \/ ReadHost(c)
         \/ IsCurrent(KeyOf[c], gen[c]) \/ IsCurrent(KeyOf[c], attached[c])
<1>g. ASSUME NEW t \in TaskStates, Goto(c, t) PROVE task'[c] = t
  BY <1>g DEF ConnsTyped, Goto
<1>w. ASSUME NEW r, Answer(c, r) PROVE task'[c] = "writing"
  BY <1>g, <1>w DEF Answer, TaskStates
<1> USE DEF Busy, TaskStates
<1>5. CASE ReadAttach(c)        BY <1>w, <1>5 DEF ReadAttach
<1>6. CASE ReadHostConflict(c)  BY <1>w, <1>6 DEF ReadHostConflict
<1>8. CASE Opening(c)           BY <1>8 DEF Opening, connVars
<1>9. CASE HostAccepted(c)      BY <1>w, <1>9 DEF HostAccepted
<1>10. CASE HostRefused(c)      BY <1>w, <1>10 DEF HostRefused
<1>11. CASE ReadControl(c)      BY <1>g, <1>w, <1>11 DEF ReadControl
<1>12. CASE Forward(c)          BY <1>w, <1>12 DEF Forward
<1>13. CASE ReadDetach(c)       BY <1>w, <1>13 DEF ReadDetach
<1>15. CASE CloseFirst(c)       BY <1>15 DEF CloseFirst
<1>16. CASE CloseSecond(c)      BY <1>16 DEF CloseSecond
<1>17. CASE Push(c)             BY <1>g, <1>17 DEF Push
<1>18. CASE WriteSucceeds(c)    BY <1>g, <1>18 DEF WriteSucceeds
<1>19. CASE WriteFails(c)       BY <1>g, <1>19 DEF WriteFails
<1>20. CASE Reap(c)             BY <1>g, <1>20 DEF Reap, ReapLeadsTo
<1>21. CASE FrontStep(c)
  <2>1. UNCHANGED task \/ Goto(c, "reading")
    BY <1>21 DEF FrontStep, Connect, SendRequest, HangUp, Ask, Goto
  <2> QED BY <1>g, <2>1
<1> QED
  BY <1>5, <1>6, <1>8, <1>9, <1>10, <1>11, <1>12, <1>13, <1>15, <1>16, <1>17, <1>18,
     <1>19, <1>20, <1>21 DEF TaskStep, Dispatch

(* A generation that was given is not taken back.                           *)
LEMMA GenStays ==
  ASSUME ConnsTyped, NEW c \in Conns, TaskStep(c) \/ FrontStep(c)
  PROVE  gen'[c] = NoGeneration => gen[c] = NoGeneration
<1>1. nextGeneration \in Nat /\ gen \in [Conns -> Nat]
  BY DEF ConnsTyped
<1>2. ASSUME gen' = [gen EXCEPT ![c] = NewGeneration] PROVE gen'[c] # NoGeneration
  BY <1>1, <1>2 DEF NewGeneration, NoGeneration
<1>3. gen' = gen \/ gen' = [gen EXCEPT ![c] = NewGeneration]
  BY DEF TaskStep, FrontStep, Dispatch, ReadAttach, ReadHostConflict, ReadHost, Opening, HostAccepted,
         HostRefused, ReadControl, Forward, ReadDetach, CloseFirst, CloseSecond, Push,
         WriteSucceeds, WriteFails, Reap, Connect, SendRequest, HangUp, Ask, connVars
<1> QED BY <1>2, <1>3

(* A connection is hosted by its accepted open(), and regains no charge.    *)
LEMMA OwnCharge ==
  ASSUME Basis, TasksInv, NEW c \in Conns, HostedIsGiven(c), TaskStep(c) \/ FrontStep(c)
  PROVE  /\ HostedIsGiven(c)'
         /\ hosted'[c] => \/ task[c] = "opening"
                          \/ hosted[c] /\ (InCharge(c)' => InCharge(c))
<1>t. ConnsTyped /\ AsksOnce(c) /\ HoldsItsOwn(c) /\ OwnersInv
  BY BasisTyped DEF Basis, OwnersInv
<1> DEFINE Goal == /\ HostedIsGiven(c)'
                   /\ hosted'[c] => \/ task[c] = "opening"
                                    \/ hosted[c] /\ (InCharge(c)' => InCharge(c))
<1>1. ASSUME gen'[c] = gen[c], hosted'[c] => hosted[c], panes'[KeyOf[c]] \in {panes[KeyOf[c]], NoGeneration}
      PROVE  Goal
  BY <1>1 DEF HostedIsGiven, InCharge, IsCurrent
<1>2. ASSUME NEW r \in {"host", "attach"}, Reads(c, r), front' = front PROVE ~hosted[c]
  <2>1. inbox[c] = <<r>>
    BY <1>2, <1>t, ReadsOne
  <2> QED BY <1>t, <2>1 DEF AsksOnce, Unregistered, HostedIsGiven
<1>3. \A g : Detach(KeyOf[c], g) => panes'[KeyOf[c]] \in {panes[KeyOf[c]], NoGeneration}
  BY <1>t DEF ConnsTyped, Detach
<1> USE DEF regVars, connVars
<1>5. CASE ReadAttach(c)        BY <1>2, <1>5 DEF ReadAttach, HostedIsGiven
<1>6. CASE ReadHostConflict(c)  BY <1>1, <1>6 DEF ReadHostConflict
<1>7. CASE ReadHost(c)          BY <1>2, <1>7 DEF ReadHost, HostedIsGiven
<1>8. CASE Opening(c)           BY <1>1, <1>8 DEF Opening
<1>9. CASE HostAccepted(c)      BY <1>t, <1>9 DEF HostAccepted, HoldsItsOwn, HostedIsGiven
<1>10. CASE HostRefused(c)      BY <1>1, <1>3, <1>10 DEF HostRefused
<1>11. CASE ReadControl(c)      BY <1>1, <1>11 DEF ReadControl
<1>12. CASE Forward(c)          BY <1>1, <1>12 DEF Forward
<1>13. CASE ReadDetach(c)       BY <1>1, <1>3, <1>13 DEF ReadDetach
<1>h. hosted' = hosted \/ hosted' = [hosted EXCEPT ![c] = FALSE] => (hosted'[c] => hosted[c])
  BY <1>t DEF ConnsTyped
<1>15. CASE CloseFirst(c)       BY <1>1, <1>h, <1>15 DEF CloseFirst
<1>16. CASE CloseSecond(c)      BY <1>1, <1>h, <1>16 DEF CloseSecond
<1>17. CASE Push(c)             BY <1>1, <1>17 DEF Push
<1>18. CASE WriteSucceeds(c)    BY <1>1, <1>18 DEF WriteSucceeds
<1>19. CASE WriteFails(c)       BY <1>1, <1>19 DEF WriteFails
<1>20. CASE Reap(c)             BY <1>1, <1>3, <1>20 DEF Reap
<1>21. CASE FrontStep(c)        BY <1>1, <1>21 DEF FrontStep, Connect, SendRequest, HangUp, Ask
<1> QED
  BY <1>5, <1>6, <1>7, <1>8, <1>9, <1>10, <1>11, <1>12, <1>13, <1>15, <1>16, <1>17, <1>18,
     <1>19, <1>20, <1>21 DEF TaskStep, Dispatch

(* The connection's own step.                                               *)
LEMMA MetOwnStep ==
  ASSUME Basis, TasksInv, MetInv, NEW c \in Conns, TaskStep(c) \/ FrontStep(c)
  PROVE  MetNobody(c)' /\ Solo(c)' /\ Clear(c)' /\ HostedIsGiven(c)' /\ (Calm(c)' => Calm(c))
<1>t. ConnsTyped /\ MetNobody(c) /\ Solo(c) /\ Clear(c) /\ HostedIsGiven(c)
  BY BasisTyped DEF MetInv
<1>b. \A e \in Conns \ {c} : Busy(e)' <=> Busy(e)
  BY <1>t, StepsAside DEF Aside, TaskOf, Busy
<1>c. HostedIsGiven(c)' /\ (hosted'[c] => task[c] = "opening" \/ (hosted[c] /\ (InCharge(c)' => InCharge(c))))
  BY <1>t, OwnCharge
<1>s. \A e \in Conns : e # c /\ KeyOf[e] = KeyOf[c] => SameId(c, e)
  BY DEF SameId
<1>1. CASE ReadHost(c)
  <2>1. gen[c] = NoGeneration /\ gen'[c] # NoGeneration
    <3>1. inbox[c] = <<"host">>
      BY <1>t, <1>1, ReadsOne DEF ReadHost, Basis, OwnersInv
    <3>2. nextGeneration \in Nat /\ gen'[c] = nextGeneration + 1
      BY <1>t, <1>1 DEF ReadHost, NewGeneration, ConnsTyped
    <3> QED BY <3>1, <3>2 DEF Basis, OwnersInv, AsksOnce, Unregistered, NoGeneration
  <2>2. \A e \in Conns : SameId(c, e) /\ Busy(e) => ~Calm(c)'
    <3>1. DOMAIN OpensMeet(c) = Conns
      BY DEF OpensMeet
    <3>2. met'[c] = IF \E e \in Conns : SameId(c, e) /\ Busy(e) THEN "task"
                    ELSE IF \E k \in Keys : sinks[k] # NoConn /\ IdOf[k] = IdOf[KeyOf[c]]
                         THEN "route" ELSE "nobody"
      BY <1>1, <3>1 DEF ReadHost, OpenMeets
    <3> QED BY <3>2 DEF Calm
  <2>3. Solo(c)'
    BY <1>b, <2>2 DEF Solo, SameId
  <2>4. Clear(c)'
    BY <1>b, <1>s, <2>2 DEF Clear
  <2> QED BY <1>c, <1>t, <2>1, <2>3, <2>4 DEF MetNobody, Calm
<1>2. CASE ~ReadHost(c)
  <2>1. met'[c] = met[c] /\ (task'[c] = "opening" => task[c] = "opening")
    BY <1>t, <1>2, TaskMeets
  <2>2. MetNobody(c)'
    <3>1. gen'[c] = NoGeneration => gen[c] = NoGeneration
      BY <1>t, GenStays
    <3> QED BY <1>t, <2>1, <3>1 DEF MetNobody
  <2>3. Solo(c)'
    BY <1>b, <1>t, <2>1 DEF Solo, SameId, Calm
  <2>4. Clear(c)'
    BY <1>b, <1>c, <1>s, <1>t, <2>1 DEF Clear, Solo, Calm
  <2> QED BY <1>c, <2>1, <2>2, <2>3, <2>4 DEF Calm
<1> QED BY <1>1, <1>2

(* A step of another connection: it is met, or registers, or was registered *)
(* in place of the one that was in charge.                                  *)
LEMMA ChargeOnlyGoes ==
  ASSUME Basis, NEW c \in Conns, NEW d \in Conns, Aside(c, d), InCharge(d)'
  PROVE  InCharge(d) /\ panes'[KeyOf[d]] # NewGeneration
<1>1. gen'[d] = gen[d] /\ panes'[KeyOf[d]] \in {panes[KeyOf[d]], NoGeneration, NewGeneration}
  BY DEF Aside, TaskOf
<1>2. gen[d] \in 0 .. nextGeneration /\ nextGeneration \in Nat
  BY DEF Basis, OwnersInv, GensIssued, RegInv, RegTypeOK
<1> QED BY <1>1, <1>2 DEF InCharge, IsCurrent, NewGeneration

LEMMA MetOtherStep ==
  ASSUME Basis, TasksInv, MetInv, NEW c \in Conns, TaskStep(c) \/ FrontStep(c),
         NEW d \in Conns, d # c
  PROVE  MetNobody(d)' /\ Solo(d)' /\ Clear(d)' /\ HostedIsGiven(d)' /\ (Calm(d)' => Calm(d))
<1>t. ConnsTyped /\ MetNobody(d) /\ Solo(d) /\ Clear(d) /\ HostedIsGiven(d) /\ MetNobody(c)
  BY BasisTyped DEF MetInv
<1>o. Aside(c, d) /\ \A e \in Conns \ {c} : Aside(c, e)
  BY <1>t, StepsAside
<1>b. \A e \in Conns \ {c} : Busy(e)' <=> Busy(e)
  BY <1>o DEF Aside, TaskOf, Busy
<1>m. /\ met'[d] = met[d] \/ (met'[d] = "task" /\ task[d] = "opening")
      /\ Busy(c)' /\ ~Busy(c) /\ SameId(d, c) /\ task[d] = "opening" => met'[d] = "task"
  BY <1>t, TaskMeets
<1>u. /\ task'[d] = task[d] /\ hosted'[d] = hosted[d] /\ gen'[d] = gen[d] /\ call'[d] = call[d]
      /\ Calm(d)' => Calm(d)
  BY <1>m, <1>o DEF Aside, TaskOf, Calm
<1>1. MetNobody(d)'
  <2>1. task[d] = "opening" => gen[d] # NoGeneration
    BY DEF Basis, OwnersInv, HoldsItsOwn
  <2> QED BY <1>t, <1>u, <1>m, <2>1 DEF MetNobody
<1>2. Solo(d)'
  BY <1>b, <1>m, <1>t, <1>u DEF Solo, SameId, Calm
<1>3. Clear(d)'
  <2> SUFFICES ASSUME Calm(d)', InCharge(d)', hosted[d], NEW e \in Conns, e # d,
                      KeyOf[e] = KeyOf[d], Busy(e)'
               PROVE  FALSE
    BY <1>u DEF Clear
  <2>1. InCharge(d) /\ panes'[KeyOf[d]] # NewGeneration
    BY <1>o, ChargeOnlyGoes
  <2>2. ~Busy(e)
    BY <1>t, <1>u, <2>1 DEF Clear
  <2>3. e = c
    BY <1>b, <2>2
  <2>4. CASE ReadHost(c)
    BY <1>t, <2>1, <2>3, <2>4 DEF ReadHost, Attach, ConnsTyped
  <2>5. CASE IsCurrent(KeyOf[c], gen[c]) \/ IsCurrent(KeyOf[c], attached[c])
    <3>1. gen[c] = gen[d] /\ gen[d] # NoGeneration
      BY <2>1, <2>3, <2>5 DEF InCharge, IsCurrent, Basis, OwnersInv, HoldsItsOwn
    <3> QED BY <2>3, <3>1 DEF Basis, OwnersInv, GensDistinct
  <2> QED BY <1>t, <2>2, <2>3, <2>4, <2>5, BecomesBusy
<1> QED BY <1>1, <1>2, <1>3, <1>t, <1>u DEF HostedIsGiven

LEMMA MetStep ==
  Basis /\ TasksInv /\ MetInv /\ [Next]_vars
    => MetInv' /\ \A c \in Conns : Calm(c)' => Calm(c)
<1> SUFFICES ASSUME Basis, TasksInv, MetInv, [Next]_vars
             PROVE  MetInv' /\ \A c \in Conns : Calm(c)' => Calm(c)
  OBVIOUS
<1>1. ASSUME NEW c \in Conns, TaskStep(c) \/ FrontStep(c)
      PROVE  MetInv' /\ \A d \in Conns : Calm(d)' => Calm(d)
  <2>1. \A d \in Conns : d = c \/ d # c
    OBVIOUS
  <2> QED BY <1>1, <2>1, MetOwnStep, MetOtherStep DEF MetInv
<1>2. ASSUME EngineSide PROVE MetInv' /\ \A d \in Conns : Calm(d)' => Calm(d)
  <2>1. UNCHANGED <<panes, task, gen, hosted, met>>
    BY <1>2, EngineSideAside
  <2> QED
    BY <2>1 DEF MetInv, MetNobody, Solo, Clear, HostedIsGiven, Calm, Busy, InCharge, IsCurrent
<1> QED BY <1>1, <1>2 DEF Next, EngineSide

LEMMA MetBegins == Init => MetInv
BY DEF Init, MetInv, MetNobody, Solo, Clear, HostedIsGiven

-----------------------------------------------------------------------------
(* The route of a registered pane.                                          *)

(* RoutesInv survives the steps of the connection's own task.               *)
LEMMA RoutesOwnStep ==
  ASSUME Basis, TasksInv, MetInv, NEW c \in Conns, Routed1(c), TaskStep(c)
  PROVE  Routed1(c)'
<1> USE DEF Goto, Answer
<1>t. ConnsTyped
  BY BasisTyped
<1>a. /\ AsksOnce(c) /\ HoldsItsOwn(c) /\ InStep(c) /\ OwnersInv
      /\ Calm(c) /\ InCharge(c) /\ call[c] = "sending" => sinks[KeyOf[c]] = c \/ NewsWaits(c)
      /\ hosted[c] => gen[c] # NoGeneration
      /\ Serves(c) => HearsIt(c)
      /\ Serves(c) /\ Calm(c) => sinks[KeyOf[c]] = c \/ News(c)
  BY DEF Basis, OwnersInv, TasksInv, Routed1
<1>m. UNCHANGED met => (Calm(c)' <=> Calm(c))
  BY DEF Calm
<1>b. Nothing.kind = "nothing"
        /\ \A kind \in {"hosted", "attached", "ok", "refused"} : [kind |-> kind].kind = kind
  BY DEF Nothing
<1>d. ASSUME NEW r, Reads(c, r), front' = front
      PROVE  /\ task[c] = "reading" /\ inbox[c] = <<r>> /\ inbox'[c] = <<>>
             /\ front[c] # "away" /\ outgoing[c] = Nothing /\ call[c] # "sending"
  BY <1>a, <1>d, ReadsOne DEF InStep
<1>e. ASSUME ~Serves(c)', call'[c] # "sending", hosted'[c] => hosted[c], gen'[c] = gen[c]
      PROVE  Routed1(c)'
  BY <1>a, <1>e DEF Routed1
<1>n. \A r \in {"host", "attach"} : inbox[c] = <<r>> => ~hosted[c] /\ gen[c] = NoGeneration
  BY <1>a DEF AsksOnce, Unregistered
<1>p. UNCHANGED events => (NewsWaits(c)' <=> NewsWaits(c))
  BY DEF NewsWaits
<1>q. \A g : Detach(KeyOf[c], g)
        => panes'[KeyOf[c]] = IF IsCurrent(KeyOf[c], g) THEN NoGeneration ELSE panes[KeyOf[c]]
  BY <1>t DEF ConnsTyped, Detach
<1> USE DEF regVars, hostVars, connVars
<1>5. CASE ReadAttach(c)
  <2>1. Reads(c, "attach") /\ front' = front
    BY <1>5 DEF ReadAttach
  <2>2. ~hosted'[c] /\ call'[c] # "sending"
    BY <1>d, <1>n, <1>5, <2>1 DEF ReadAttach
  <2> QED BY <2>2 DEF Routed1, Serves
<1>6. CASE ReadHostConflict(c)
  <2>1. Reads(c, "host") /\ front' = front
    BY <1>6 DEF ReadHostConflict
  <2>2. ~hosted'[c] /\ call'[c] # "sending"
    BY <1>d, <1>n, <1>6, <2>1 DEF ReadHostConflict
  <2> QED BY <2>2 DEF Routed1, Serves
<1>7. CASE ReadHost(c)
  <2>1. Reads(c, "host") /\ front' = front
    BY <1>7 DEF ReadHost
  <2>2. ~hosted'[c] /\ call'[c] # "sending"
    BY <1>d, <1>n, <1>t, <1>7, <2>1 DEF ReadHost, OpenBegin, ConnsTyped
  <2> QED BY <2>2 DEF Routed1, Serves
<1>8. CASE Opening(c)
  <2>1. task[c] = "opening" /\ UNCHANGED <<attached, hosted, gen>>
    BY <1>8 DEF Opening
  <2>2. ~Serves(c)'
    BY <1>a, <2>1 DEF HoldsItsOwn, Serves, IsCurrent
  <2>3. call'[c] = "sending" => sinks'[KeyOf[c]] = c
    <3>1. \A s : call' = [call EXCEPT ![c] = s] => call'[c] = s
      BY <1>t DEF ConnsTyped
    <3>2. CASE OpenRefused(c)     BY <3>1, <3>2 DEF OpenRefused
    <3>3. CASE OpenFindsEngine(c) BY <3>1, <3>3 DEF OpenFindsEngine
    <3>4. CASE OpenStarts(c)      BY <3>1, <3>4 DEF OpenStarts
    <3>5. CASE SpawnReady(c)      BY <3>1, <3>5 DEF SpawnReady
    <3>6. CASE SpawnFails(c)      BY <3>1, <3>6 DEF SpawnFails
    <3>7. CASE Register(c)        BY <1>t, <3>1, <3>7 DEF Register, ConnsTyped
    <3>8. CASE SendAttach(c) /\ call'[c] = "failed" BY <3>8
    <3> QED BY <1>8, <3>2, <3>3, <3>4, <3>5, <3>6, <3>7, <3>8 DEF Opening
  <2> QED BY <1>a, <2>1, <2>2, <2>3 DEF Routed1
<1>9. CASE HostAccepted(c)
  <2>1. /\ task[c] = "opening" /\ call[c] = "sending" /\ call'[c] = "opened"
        /\ UNCHANGED <<sinks, events, front, gen, regVars, met>> /\ outgoing'[c].kind = "hosted"
        /\ attached'[c] = gen[c]
    BY <1>b, <1>t, <1>9 DEF HostAccepted, SendAttach, ConnsTyped
  <2>2. front[c] \in {"asked", "gone"} /\ gen[c] # NoGeneration
    BY <1>a, <2>1 DEF InStep, Waits, HoldsItsOwn
  <2>3. HearsIt(c)'
    BY <1>a, <2>1, <2>2 DEF HearsIt
  <2>4. Serves(c)' /\ Calm(c)' => sinks'[KeyOf[c]] = c \/ News(c)'
    <3>1. Serves(c)' => InCharge(c)
      BY <2>1 DEF Serves, InCharge, IsCurrent
    <3> QED BY <1>a, <1>m, <1>p, <2>1, <3>1 DEF News, NewsWaits
  <2> QED BY <2>1, <2>2, <2>3, <2>4 DEF Routed1
<1>10. CASE HostRefused(c)
  <2>1. task[c] = "opening" /\ call'[c] # "sending" /\ UNCHANGED <<attached, hosted, gen>>
    BY <1>10 DEF HostRefused
  <2>2. ~Serves(c)'
    BY <1>a, <2>1 DEF HoldsItsOwn, Serves, IsCurrent
  <2> QED BY <1>e, <2>1, <2>2
<1>h. ASSUME Serves(c), outgoing[c] = Nothing, inbox[c] # <<"detach">>
      PROVE  front[c] \in {"hosted", "lost", "gone"}
  BY <1>a, <1>b, <1>h DEF HearsIt
<1>k. ASSUME outgoing[c] = Nothing, inbox[c] # <<"detach">>, call'[c] # "sending",
             outgoing'[c].kind \in {"nothing", "ok"}, front'[c] = front[c],
             UNCHANGED <<sinks, events, panes, gen, attached, hosted, met>>
      PROVE  Routed1(c)'
  <2>1. Serves(c)' <=> Serves(c)
    BY <1>k DEF Serves, IsCurrent
  <2>2. Serves(c) => HearsIt(c)'
    BY <1>h, <1>k DEF HearsIt
  <2>3. Serves(c) /\ Calm(c)' => sinks'[KeyOf[c]] = c \/ News(c)'
    BY <1>a, <1>b, <1>k, <1>m DEF News
  <2> QED BY <1>a, <1>k, <2>1, <2>2, <2>3 DEF Routed1
<1>11. CASE ReadControl(c)
  <2>1. Reads(c, "control") /\ front' = front /\ UNCHANGED <<hostVars, panes, gen, attached, hosted, met>>
    BY <1>11 DEF ReadControl
  <2>2. outgoing'[c].kind \in {"nothing", "ok"}
    BY <1>b, <1>d, <1>t, <1>11, <2>1 DEF ReadControl, ConnsTyped
  <2>3. inbox[c] # <<"detach">>
    BY <1>d, <2>1
  <2> QED BY <1>d, <1>k, <2>1, <2>2, <2>3
<1>12. CASE Forward(c)
  <2>1. /\ task[c] = "forwarding"
        /\ UNCHANGED <<call, sinks, events, panes, gen, attached, hosted, front, met>>
        /\ outgoing'[c].kind = "ok"
    BY <1>b, <1>t, <1>12 DEF Forward, ForwardControl, ConnsTyped
  <2>2. outgoing[c] = Nothing /\ inbox[c] = <<>> /\ call[c] # "sending"
    BY <1>a, <2>1 DEF InStep, AsksOnce
  <2> QED BY <1>k, <2>1, <2>2
<1>13. CASE ReadDetach(c)
  <2>1. Reads(c, "detach") /\ front' = front /\ Detach(KeyOf[c], gen[c])
          /\ UNCHANGED <<hostVars, gen, attached, hosted>>
    BY <1>13 DEF ReadDetach
  <2>2. ~Serves(c)'
    BY <1>a, <1>q, <2>1 DEF HoldsItsOwn, Serves, IsCurrent, NoGeneration
  <2> QED BY <1>d, <1>e, <2>1, <2>2
<1>l. ASSUME task[c] \in {"detaching", "closing"}, UNCHANGED <<panes, gen, call>>,
             attached' = attached \/ attached' = [attached EXCEPT ![c] = NoGeneration],
             hosted' = hosted \/ hosted' = [hosted EXCEPT ![c] = FALSE]
      PROVE  Routed1(c)'
  <2>1. attached'[c] \in {attached[c], NoGeneration} /\ (hosted'[c] => hosted[c])
    BY <1>l, <1>t DEF ConnsTyped
  <2>2. ~Serves(c)'
    BY <1>a, <1>l, <2>1 DEF HoldsItsOwn, Serves, IsCurrent
  <2>3. call'[c] # "sending"
    BY <1>a, <1>l DEF InStep
  <2> QED BY <1>e, <1>l, <2>1, <2>2, <2>3
<1>15. CASE CloseFirst(c)
  BY <1>l, <1>15 DEF CloseFirst, CloseCheck
<1>16. CASE CloseSecond(c)
  BY <1>l, <1>16 DEF CloseSecond, CloseRemove
<1>17. CASE Push(c)
  <2>1. /\ task[c] = "reading" /\ inbox[c] = <<>> /\ outgoing[c] = Nothing
        /\ events[c] \in Seq(Event) /\ events[c] # <<>> /\ events'[c] = Tail(events[c])
        /\ UNCHANGED <<call, sinks, panes, gen, attached, hosted, front, met>>
    BY <1>a, <1>t, <1>17 DEF Push, Resting, TakeEvent, ConnsTyped, InStep
  <2>2. call'[c] # "sending"
    BY <1>a, <2>1 DEF InStep
  <2>3. ASSUME Serves(c)' PROVE HearsIt(c)' /\ (Calm(c)' => sinks'[KeyOf[c]] = c \/ News(c)')
    <3>1. Serves(c) /\ attached[c] # NoGeneration
      BY <2>1, <2>3 DEF Serves, IsCurrent
    <3>2. outgoing'[c] = Head(events[c])
      BY <1>t, <1>17, <3>1 DEF Push, ConnsTyped
    <3>3. Head(events[c]) = events[c][1] /\ Head(events[c]) \in Event
      BY <2>1
    <3>4. outgoing'[c].kind \in {"frame", "lost"}
      BY <3>2, <3>3 DEF Event
    <3>5. front[c] \in {"hosted", "lost", "gone"}
      BY <1>h, <2>1, <3>1
    <3>6. NewsWaits(c) => NewsWaits(c)' \/ outgoing'[c].kind = "lost"
      <4>1. SUFFICES ASSUME NEW i \in 1 .. Len(events[c]), events[c][i].kind = "lost", i # 1
                     PROVE  NewsWaits(c)'
        BY <3>2, <3>3 DEF NewsWaits
      <4>2. i - 1 \in 1 .. Len(events'[c]) /\ events'[c][i - 1] = events[c][i]
        BY <2>1, <4>1
      <4> QED BY <4>1, <4>2 DEF NewsWaits
    <3>7. Calm(c)' => sinks[KeyOf[c]] = c \/ NewsWaits(c) \/ front[c] \in {"lost", "gone"}
      BY <1>a, <1>b, <1>m, <2>1, <3>1 DEF News, NewsWaits
    <3> QED BY <2>1, <3>4, <3>5, <3>6, <3>7 DEF HearsIt, News, NewsWaits
  <2> QED BY <1>a, <2>1, <2>2, <2>3 DEF Routed1
<1>18. CASE WriteSucceeds(c)
  <2>1. /\ task[c] = "writing" /\ front[c] # "gone" /\ front'[c] = FrontAfter(c, outgoing[c])
        /\ outgoing'[c] = Nothing
        /\ UNCHANGED <<call, sinks, events, panes, gen, attached, hosted, met>>
    BY <1>t, <1>18 DEF WriteSucceeds, ConnsTyped
  <2>2. call'[c] # "sending" /\ inbox[c] = <<>>
    BY <1>a, <2>1 DEF InStep, AsksOnce
  <2>3. ASSUME Serves(c) PROVE HearsIt(c)' /\ (Calm(c)' => sinks'[KeyOf[c]] = c \/ News(c)')
    <3>1. HearsIt(c) /\ (Calm(c)' => sinks[KeyOf[c]] = c \/ News(c))
      BY <1>a, <1>m, <2>1, <2>3
    <3>2. front'[c] \in {"hosted", "lost"} /\ (front[c] = "lost" => front'[c] = "lost")
      BY <2>1, <2>2, <3>1 DEF HearsIt, FrontAfter
    <3>3. outgoing[c].kind = "lost" => front'[c] = "lost"
      BY <2>1, <2>2, <3>1 DEF HearsIt, FrontAfter
    <3> QED BY <1>b, <2>1, <3>1, <3>2, <3>3 DEF HearsIt, News
  <2>4. Serves(c)' <=> Serves(c)
    BY <2>1 DEF Serves, IsCurrent
  <2> QED BY <1>a, <2>1, <2>2, <2>3, <2>4 DEF Routed1
<1>r. ASSUME front'[c] = "gone", outgoing'[c] = Nothing, call'[c] # "sending", UNCHANGED <<gen, hosted>>
      PROVE  Routed1(c)'
  BY <1>a, <1>b, <1>r DEF Routed1, HearsIt, News
<1>19. CASE WriteFails(c)
  <2>1. task[c] = "writing" /\ front'[c] = "gone" /\ outgoing'[c] = Nothing
          /\ UNCHANGED <<gen, hosted, call>>
    BY <1>t, <1>19 DEF WriteFails, ConnsTyped
  <2>2. call[c] # "sending"
    BY <1>a, <2>1 DEF InStep
  <2> QED BY <1>r, <2>1, <2>2
<1>20. CASE Reap(c)
  <2>1. /\ task[c] = "reading" /\ front'[c] = "gone" /\ outgoing' = outgoing
        /\ UNCHANGED <<gen, hosted, call>>
    BY <1>20 DEF Reap, Resting
  <2>2. outgoing[c] = Nothing /\ call[c] # "sending"
    BY <1>a, <2>1 DEF InStep
  <2> QED BY <1>r, <2>1, <2>2
<1> QED
  BY <1>5, <1>6, <1>7, <1>8, <1>9, <1>10, <1>11, <1>12, <1>13, <1>15, <1>16, <1>17, <1>18,
     <1>19, <1>20 DEF TaskStep, Dispatch

(* RoutesInv survives the steps of its frontend.                            *)
LEMMA RoutesFrontStep ==
  ASSUME Basis, TasksInv, MetInv, NEW c \in Conns, Routed1(c), FrontStep(c)
  PROVE  Routed1(c)'
<1>t. ConnsTyped
  BY BasisTyped
<1>a. /\ AsksOnce(c) /\ HoldsItsOwn(c) /\ InStep(c)
      /\ hosted[c] => gen[c] # NoGeneration
      /\ Serves(c) => HearsIt(c)
      /\ Serves(c) /\ Calm(c) => sinks[KeyOf[c]] = c \/ News(c)
  BY DEF Basis, OwnersInv, TasksInv, Routed1
<1>b. /\ UNCHANGED <<regVars, hostVars, gen, attached, hosted, outgoing, met>>
      /\ (Serves(c)' <=> Serves(c)) /\ (Calm(c)' <=> Calm(c)) /\ (InCharge(c)' <=> InCharge(c))
  BY DEF FrontStep, Connect, SendRequest, HangUp, Ask, regVars, Serves, IsCurrent, Calm, InCharge
<1>c. ASSUME Serves(c) => HearsIt(c)' /\ (News(c) => News(c)') PROVE Routed1(c)'
  BY <1>a, <1>b, <1>c DEF Routed1, hostVars, NewsWaits
<1>1. CASE Connect(c)
  <2>1. ~hosted[c]
    BY <1>1, <1>a DEF Connect, AsksOnce, Untouched, Unregistered
  <2> QED BY <1>c, <2>1 DEF Serves
<1>2. CASE SendRequest(c)
  <2>1. inbox[c] = <<>> /\ outgoing[c] = Nothing /\ Nothing.kind = "nothing"
    BY <1>2, <1>a DEF SendRequest, InStep, Nothing
  <2>2. \/ front[c] = "hosted" /\ front'[c] = "hosted"
        \/ front[c] \in {"hosted", "attached"} /\ front'[c] = "left" /\ inbox'[c] = <<"detach">>
    BY <1>2, <1>t, <2>1 DEF SendRequest, Ask, ConnsTyped
  <2>3. Serves(c) => front[c] = "hosted"
    BY <1>a, <2>1, <2>2 DEF HearsIt
  <2> QED BY <1>b, <1>c, <2>1, <2>2, <2>3 DEF HearsIt, News, hostVars
<1>3. CASE HangUp(c)
  <2>1. front'[c] = "gone"
    BY <1>3, <1>t DEF HangUp, ConnsTyped
  <2> QED BY <1>a, <1>b, <1>c, <2>1 DEF HearsIt, News
<1> QED BY <1>1, <1>2, <1>3 DEF FrontStep

(* RoutesInv survives the steps of other connections: what takes the route  *)
(* of one that is in charge would be busy beside it.                        *)
LEMMA RoutesOtherStep ==
  ASSUME Basis, TasksInv, MetInv, NEW c \in Conns, TaskStep(c) \/ FrontStep(c),
         NEW d \in Conns, d # c, Routed1(d), Calm(d)' => Calm(d)
  PROVE  Routed1(d)'
<1>1. ConnsTyped /\ Solo(d) /\ Clear(d) /\ InStep(d) /\ HoldsItsOwn(d)
  BY BasisTyped DEF MetInv, TasksInv, Basis, OwnersInv
<1>2. Aside(c, d)
  BY <1>1, StepsAside
<1>3. InCharge(d)' => InCharge(d)
  BY <1>2, ChargeOnlyGoes
<1>4. ASSUME Calm(d)', InCharge(d)', hosted[d] \/ call[d] = "sending"
      PROVE  sinks'[KeyOf[d]] = sinks[KeyOf[d]]
  <2>1. KeyOf[d] = KeyOf[c] => SameId(d, c)
    BY DEF SameId
  <2>2. KeyOf[d] = KeyOf[c] => ~Busy(c)
    BY <1>1, <1>3, <1>4, <2>1 DEF Solo, Clear, InStep
  <2> QED BY <1>2, <2>2 DEF Aside
<1>5. Serves(d)' => InCharge(d)' /\ Serves(d)
  <2>1. Serves(d)' => InCharge(d)'
    BY <1>1, <1>2 DEF Serves, InCharge, IsCurrent, HoldsItsOwn, Aside, TaskOf
  <2> QED BY <1>1, <1>2, <1>3, <2>1 DEF Serves, InCharge, IsCurrent, HoldsItsOwn, Aside, TaskOf
<1>6. /\ HearsIt(d)' <=> HearsIt(d)
      /\ NewsWaits(d)' <=> NewsWaits(d)
      /\ News(d)' <=> News(d)
  BY <1>2 DEF Aside, TaskOf, HearsIt, News, NewsWaits
<1> QED BY <1>2, <1>3, <1>4, <1>5, <1>6 DEF Routed1, Aside, TaskOf, Serves

(* RoutesInv is inductive, given the invariants proved before.              *)
LEMMA RoutesStep == Basis /\ TasksInv /\ MetInv /\ RoutesInv /\ [Next]_vars => RoutesInv'
<1> SUFFICES ASSUME Basis, TasksInv, MetInv, RoutesInv, [Next]_vars, NEW d \in Conns
             PROVE  Routed1(d)'
  BY DEF RoutesInv
<1>1. Routed1(d) /\ ConnsTyped /\ (Calm(d)' => Calm(d))
  BY BasisTyped, MetStep DEF RoutesInv
<1>2. ASSUME NEW c \in Conns, TaskStep(c) \/ FrontStep(c) PROVE Routed1(d)'
  <2>1. CASE c = d
    BY <1>1, <1>2, <2>1, RoutesOwnStep, RoutesFrontStep
  <2>2. CASE c # d
    BY <1>1, <1>2, <2>2, RoutesOtherStep
  <2> QED BY <2>1, <2>2
<1>3. ASSUME EngineSide PROVE Routed1(d)'
  <2>1. UNCHANGED <<panes, inbox, gen, attached, hosted, outgoing, front, call, met>>
    BY <1>3, EngineSideAside
  <2>2. /\ NewsWaits(d) => NewsWaits(d)'
        /\ sinks[KeyOf[d]] = d => sinks'[KeyOf[d]] = d \/ NewsWaits(d)'
    BY <1>1, <1>3, EngineTells
  <2> QED BY <1>1, <2>1, <2>2
          DEF Routed1, Serves, HearsIt, News, NewsWaits, IsCurrent, Calm, InCharge
<1> QED BY <1>2, <1>3 DEF Next, EngineSide

(* RoutesInv holds to begin with.                                           *)
LEMMA RoutesBegin == Init => RoutesInv
BY HostAssumption DEF Init, HostInit, RoutesInv, Routed1, Serves

LEMMA CalmPath == Spec => [](Basis /\ TasksInv /\ MetInv)
BY PathInvariant, MetStep, MetBegins, PTL DEF Spec

(* The daemon never takes the route of a connection that is hosted and      *)
(* registered: its pane's events come to it, or the news that the engine    *)
(* died does -- whatever a predecessor's task, another pane's connections   *)
(* and the engine do meanwhile, unless its open() ran beside another open() *)
(* or close() of its pane id.                                               *)
THEOREM CurrentRouted == Spec => []CurrentIsRouted
<1>1. RoutesInv => CurrentIsRouted
  BY DEF RoutesInv, Routed1, Serves, CurrentIsRouted, Calm
<1> QED BY <1>1, RoutesBegin, RoutesStep, CalmPath, PTL DEF Spec

-----------------------------------------------------------------------------
(* Routes, engines, and who else may be about to take them.                 *)

(* What the invariants below take from the host's and the tasks'.          *)
HostBasis ==
  /\ ConnsTyped
  /\ \A c \in Conns : call[c] = "sending" => handle[c] \in Conns
  /\ \A c \in Conns : sinks[KeyOf[c]] = c => call[c] \in {"sending", "opened"}
  /\ \A c \in Conns : c \in closing => call[c] \in {"none", "opened", "failed"}
  /\ \A e \in Conns : proc[e] \in {"running", "exited"} <=> stdin = e
  /\ \A c \in Conns : call[c] = "spawning" => proc[c] = "spawning" /\ stdin = NoConn
  /\ \A c \in Conns : call[c] \in {"locking", "spawning", "registering", "sending"} => task[c] = "opening"
  /\ \A c \in Conns : c \in closing => task[c] \in {"detaching", "closing"}
  /\ NoSinkWithoutEngine

(* The proved invariants, as far as lines and pages need them.              *)
LEMMA HostBasisHolds == Basis /\ TasksInv => HostBasis
<1> SUFFICES ASSUME Basis, TasksInv PROVE HostBasis
  OBVIOUS
<1>1. ConnsTyped
  BY BasisTyped
<1>2. \A c \in Conns : c \in closing => call[c] \in {"none", "opened", "failed"}
  BY <1>1 DEF TasksInv, InStep, ConnsTyped, CallStates
<1>3. \A c \in Conns : sinks[KeyOf[c]] = c => call[c] \in {"sending", "opened"}
  BY <1>1 DEF Basis, CompositionInv, HostInv, RouteHasOpen, ConnsTyped
<1>4. /\ \A c \in Conns : call[c] = "sending" => handle[c] \in Conns
      /\ \A e \in Conns : proc[e] \in {"running", "exited"} <=> stdin = e
      /\ \A c \in Conns : call[c] = "spawning" => proc[c] = "spawning" /\ stdin = NoConn
  BY DEF Basis, CompositionInv, HostInv, QueueType, StdinIsInstalled, StartIsExclusive
<1>5. NoSinkWithoutEngine
  BY DEF Basis, CompositionInv, HostInv
<1>6. /\ \A c \in Conns : call[c] \in {"locking", "spawning", "registering", "sending"} => task[c] = "opening"
      /\ \A c \in Conns : c \in closing => task[c] \in {"detaching", "closing"}
  BY DEF TasksInv, InStep
<1> QED BY <1>1, <1>2, <1>3, <1>4, <1>5, <1>6 DEF HostBasis

\* The steps of an open() that has begun.
OpenGoes(c) ==
  \/ OpenRefused(c) \/ OpenFindsEngine(c) \/ OpenStarts(c) \/ SpawnReady(c)
  \/ SpawnFails(c)  \/ Register(c)        \/ SendAttach(c)

(* What a connection's step is to the host, and what its task is by then.   *)
LEMMA TaskKinds ==
  ASSUME NEW c \in Conns, TaskStep(c) \/ FrontStep(c)
  PROVE  \/ ReadHost(c)
         \/ task[c] = "opening" /\ OpenGoes(c)
         \/ task[c] \in {"detaching", "closing"} /\ (CloseCheck(c) \/ CloseRemove(c))
         \/ ForwardControl(c) \/ TakeEvent(c) \/ UNCHANGED hostVars
<1>5. CASE ReadAttach(c)        BY <1>5 DEF ReadAttach
<1>6. CASE ReadHostConflict(c)  BY <1>6 DEF ReadHostConflict
<1>8. CASE Opening(c)           BY <1>8 DEF Opening, OpenGoes
<1>9. CASE HostAccepted(c)      BY <1>9 DEF HostAccepted, OpenGoes
<1>10. CASE HostRefused(c)      BY <1>10 DEF HostRefused
<1>11. CASE ReadControl(c)      BY <1>11 DEF ReadControl
<1>12. CASE Forward(c)          BY <1>12 DEF Forward
<1>13. CASE ReadDetach(c)       BY <1>13 DEF ReadDetach
<1>15. CASE CloseFirst(c)       BY <1>15 DEF CloseFirst
<1>16. CASE CloseSecond(c)      BY <1>16 DEF CloseSecond
<1>17. CASE Push(c)             BY <1>17 DEF Push
<1>18. CASE WriteSucceeds(c)    BY <1>18 DEF WriteSucceeds
<1>19. CASE WriteFails(c)       BY <1>19 DEF WriteFails
<1>20. CASE Reap(c)             BY <1>20 DEF Reap
<1>21. CASE FrontStep(c)        BY <1>21 DEF FrontStep, Connect, SendRequest, HangUp, Ask
<1> QED
  BY <1>5, <1>6, <1>8, <1>9, <1>10, <1>11, <1>12, <1>13, <1>15, <1>16, <1>17, <1>18,
     <1>19, <1>20, <1>21 DEF TaskStep, Dispatch

(* What each step of an open() that has begun does to the tables.           *)
Starts(c) ==
  /\ call[c] = "locking" /\ call' = [call EXCEPT ![c] = "spawning"]
  /\ stdin = NoConn /\ proc' = [proc EXCEPT ![c] = "spawning"]
  /\ UNCHANGED <<sinks, handle, lines, stdin>>
Readies(c) ==
  /\ call[c] = "spawning" /\ call' = [call EXCEPT ![c] = "registering"]
  /\ proc' = [proc EXCEPT ![c] = "running"] /\ stdin' = c
  /\ UNCHANGED <<sinks, handle, lines>>
Fails(c) ==
  /\ call[c] = "spawning" /\ call' = [call EXCEPT ![c] = "failed"]
  /\ proc' = [proc EXCEPT ![c] = "gone"]
  /\ UNCHANGED <<sinks, handle, lines, stdin>>
Proceeds(c) ==
  /\ call[c] \in {"locking", "registering"}
  /\ \E s \in {"failed", "registering"} : call' = [call EXCEPT ![c] = s]
  /\ UNCHANGED <<sinks, handle, lines, stdin, proc>>
Routes(c) ==
  /\ call[c] = "registering" /\ call' = [call EXCEPT ![c] = "sending"]
  /\ stdin # NoConn /\ sinks' = [sinks EXCEPT ![KeyOf[c]] = c]
  /\ handle' = [handle EXCEPT ![c] = stdin] /\ UNCHANGED <<lines, stdin, proc>>
Attaches(c) ==
  /\ call[c] = "sending" /\ call' = [call EXCEPT ![c] = "opened"]
  /\ lines' = [lines EXCEPT ![handle[c]] = Append(@, LineOf("attach", c))]
  /\ UNCHANGED <<sinks, handle, stdin, proc>>
Unroutes(c) ==
  /\ call[c] = "sending" /\ call' = [call EXCEPT ![c] = "failed"]
  /\ ~pump[handle[c]] /\ sinks' = [sinks EXCEPT ![KeyOf[c]] = NoConn]
  /\ UNCHANGED <<lines, handle, stdin, proc>>

LEMMA OpenDoes ==
  ASSUME ConnsTyped, NEW c \in Conns, OpenGoes(c)
  PROVE  /\ UNCHANGED <<closing, pump, events, stdout, frames>>
         /\ \/ Starts(c) \/ Readies(c) \/ Fails(c) \/ Proceeds(c)
            \/ Routes(c) \/ Attaches(c) \/ Unroutes(c)
<1>1. CASE OpenRefused(c)     BY <1>1 DEF OpenRefused, Enters, Proceeds
<1>2. CASE OpenFindsEngine(c) BY <1>2 DEF OpenFindsEngine, Enters, Proceeds
<1>3. CASE OpenStarts(c)      BY <1>3 DEF OpenStarts, Enters, Starts
<1>4. CASE SpawnReady(c)      BY <1>4 DEF SpawnReady, Readies
<1>5. CASE SpawnFails(c)      BY <1>5 DEF SpawnFails, Fails
<1>6. CASE Register(c)        BY <1>6 DEF Register, Routes, Proceeds
<1>7. CASE SendAttach(c)      BY <1>7 DEF SendAttach, Unrouted, Attaches, Unroutes
<1> QED BY <1>1, <1>2, <1>3, <1>4, <1>5, <1>6, <1>7 DEF OpenGoes

(* What a step does to the tables of the engine host and of the engine.     *)
tables == <<stdin, proc, sinks, handle, closing, lines, pump, pages>>

Still ==
  /\ UNCHANGED tables
  /\ UNCHANGED call \/ \E c \in Conns : call[c] = "none" /\ call' = [call EXCEPT ![c] = "locking"]

Opens(c) == task[c] = "opening" /\ OpenGoes(c) /\ UNCHANGED pages
Closes(c) ==
  task[c] \in {"detaching", "closing"} /\ (CloseCheck(c) \/ CloseRemove(c)) /\ UNCHANGED pages
Controls(c) == ForwardControl(c) /\ UNCHANGED pages
Ends(e) == EngineGone(e) \/ ((PumpBreaks(e) \/ WatchExit(e)) /\ UNCHANGED pages)

LEMMA StepKinds ==
  ASSUME [Next]_vars
  PROVE  \/ \E c \in Conns : Opens(c) \/ Closes(c) \/ Controls(c)
         \/ \E e \in Conns : HandleControlLine(e) \/ LastTabCloses(e) \/ Ends(e)
         \/ Still
<1> USE DEF hostVars, regVars, connVars, tables
<1>1. ASSUME NEW c \in Conns, TaskStep(c) \/ FrontStep(c)
      PROVE  Opens(c) \/ Closes(c) \/ Controls(c) \/ Still
  <2>1. UNCHANGED pages
    BY <1>1, TaskHost
  <2>2. CASE ReadHost(c)
    BY <2>1, <2>2 DEF ReadHost, OpenBegin, Still
  <2>3. CASE TakeEvent(c)
    BY <2>1, <2>3 DEF TakeEvent, Still
  <2>4. CASE UNCHANGED hostVars
    BY <2>1, <2>4 DEF Still
  <2> QED BY <1>1, <2>1, <2>2, <2>3, <2>4, TaskKinds DEF Opens, Closes, Controls
<1>2. ASSUME NEW e \in Conns, EngineAct(e)
      PROVE  HandleControlLine(e) \/ LastTabCloses(e) \/ Ends(e) \/ Still
  <2>1. CASE Paint(e)      BY <2>1 DEF Paint, EnginePaints, Still
  <2>2. CASE Deliver(e) /\ UNCHANGED connVars   BY <2>2 DEF Deliver, Still
  <2> QED BY <1>2, <2>1, <2>2 DEF EngineAct, HostTask, Ends
<1>3. CASE Ages BY <1>3 DEF Ages, StartAgesOut, Still
<1>4. CASE UNCHANGED vars BY <1>4 DEF vars, Still
<1> QED BY <1>1, <1>2, <1>3, <1>4 DEF Next

-----------------------------------------------------------------------------
(* The engine's queue and its pages.                                        *)
Up == stdin # NoConn /\ proc[stdin] = "running"
Queue == lines[stdin]
Own(l) == l.key = KeyOf[l.from] /\ l.id = IdOf[l.key]

(* An engine that is not running has no pages, one that has not yet run has *)
(* no lines, and only an engine's end stops its pump.                       *)
EngineSound ==
  /\ ~Up => pages = {}
  /\ \A e \in Conns : proc[e] \in {"none", "spawning"} => lines[e] = <<>>
  /\ \A c \in Conns : call[c] \in {"none", "locking"} => proc[c] = "none"
  /\ \A c \in Conns : handle[c] \in Conns => proc[handle[c]] \notin {"none", "spawning"}
  /\ \A c \in Conns : call[c] = "opened" => handle[c] \in Conns
  /\ \A e \in Conns : ~pump[e] => proc[e] \in {"exited", "gone"}
  /\ \A e \in Conns : \A i \in 1 .. Len(lines[e]) : Own(lines[e][i])
  /\ \A p \in pages : p.key = KeyOf[p.owner]

LEMMA LinesGrow ==
  ASSUME ConnsTyped, NEW h \in Conns, NEW c \in Conns, NEW op \in {"attach", "detach", "control"},
         lines' = [lines EXCEPT ![h] = Append(@, LineOf(op, c))]
  PROVE  /\ \A e \in Conns : e # h => lines'[e] = lines[e]
         /\ lines[h] \in Seq(Line) /\ Len(lines'[h]) = Len(lines[h]) + 1
         /\ \A i \in 1 .. Len(lines[h]) : lines'[h][i] = lines[h][i]
         /\ lines'[h][Len(lines[h]) + 1] = LineOf(op, c)
         /\ Own(LineOf(op, c))
<1>1. lines \in [Conns -> Seq(Line)]
  BY DEF ConnsTyped
<1>2. lines'[h] = Append(lines[h], LineOf(op, c)) /\ lines[h] \in Seq(Line)
  BY <1>1
<1>3. Own(LineOf(op, c))
  BY DEF Own, LineOf
<1>4. \A e \in Conns : e # h => lines'[e] = lines[e]
  BY <1>1
<1>5. /\ Len(lines'[h]) = Len(lines[h]) + 1
      /\ \A i \in 1 .. Len(lines[h]) : lines'[h][i] = lines[h][i]
      /\ lines'[h][Len(lines[h]) + 1] = LineOf(op, c)
  BY <1>2
<1> QED BY <1>2, <1>3, <1>4, <1>5

LEMMA LinesShrink ==
  ASSUME ConnsTyped, NEW h \in Conns, lines[h] # <<>>, lines' = [lines EXCEPT ![h] = Tail(@)]
  PROVE  /\ \A e \in Conns : e # h => lines'[e] = lines[e]
         /\ lines[h] \in Seq(Line) /\ Len(lines'[h]) = Len(lines[h]) - 1 /\ Len(lines[h]) \in Nat \ {0}
         /\ \A i \in 1 .. Len(lines'[h]) : lines'[h][i] = lines[h][i + 1]
         /\ Head(lines[h]) = lines[h][1]
<1>1. lines \in [Conns -> Seq(Line)]
  BY DEF ConnsTyped
<1>2. lines'[h] = Tail(lines[h]) /\ lines[h] \in Seq(Line)
  BY <1>1
<1>3. \A e \in Conns : e # h => lines'[e] = lines[e]
  BY <1>1
<1>4. Len(lines[h]) \in Nat \ {0}
  BY <1>2, EmptySeq
<1>5. /\ Len(Tail(lines[h])) = Len(lines[h]) - 1
      /\ \A i \in 1 .. Len(Tail(lines[h])) : Tail(lines[h])[i] = lines[h][i + 1]
  BY <1>2, HeadTailProperties
<1>6. Head(lines[h]) = lines[h][1]
  BY <1>2
<1>7. Len(lines'[h]) = Len(lines[h]) - 1 /\ \A i \in 1 .. Len(lines'[h]) : lines'[h][i] = lines[h][i + 1]
  BY <1>2, <1>5
<1> QED BY <1>2, <1>3, <1>4, <1>6, <1>7

LEMMA SoundBegins == Init => EngineSound
BY HostAssumption DEF Init, HostInit, EngineSound, Up

(* The steps that start and end no process.                                 *)
LEMMA SoundFrom ==
  ASSUME HostBasis, EngineSound, UNCHANGED <<stdin, proc, pages, pump>>,
         \A d \in Conns : call'[d] \in {"none", "locking"} => call[d] \in {"none", "locking"},
         \A d \in Conns : handle'[d] = handle[d] \/ (handle'[d] \in Conns /\ proc[handle'[d]] \in {"running", "exited"}),
         \A d \in Conns : call'[d] = "opened" => handle'[d] \in Conns,
         \A e \in Conns : proc[e] \in {"none", "spawning"} => lines'[e] = <<>>,
         \A e \in Conns : \A i \in 1 .. Len(lines'[e]) : Own(lines'[e][i])
  PROVE  EngineSound'
<1>1. \A d \in Conns : handle'[d] \in Conns => proc'[handle'[d]] \notin {"none", "spawning"}
  BY DEF EngineSound
<1>2. Up' <=> Up
  BY DEF Up
<1> QED BY <1>1, <1>2 DEF EngineSound, Own

LEMMA SoundStep == HostBasis /\ EngineSound /\ [Next]_vars => EngineSound'
<1> SUFFICES ASSUME HostBasis, EngineSound, [Next]_vars PROVE EngineSound'
  OBVIOUS
<1>0. ConnsTyped
  BY DEF HostBasis
<1> DEFINE Lined == /\ \A e \in Conns : proc[e] \in {"none", "spawning"} => lines[e] = <<>>
                    /\ \A e \in Conns : \A i \in 1 .. Len(lines[e]) : Own(lines[e][i])
<1>g. ASSUME NEW h \in Conns, NEW c \in Conns, NEW op \in {"attach", "detach", "control"},
             proc[h] \notin {"none", "spawning"}, UNCHANGED proc,
             lines' = [lines EXCEPT ![h] = Append(@, LineOf(op, c))]
      PROVE  Lined'
  <2>1. ASSUME NEW e \in Conns, e # h PROVE lines'[e] = lines[e]
    BY <1>0, <1>g, <2>1, LinesGrow
  <2>2. \A i \in 1 .. Len(lines'[h]) : Own(lines'[h][i])
    <3>1. /\ Len(lines[h]) \in Nat /\ Len(lines'[h]) = Len(lines[h]) + 1
          /\ \A i \in 1 .. Len(lines[h]) : lines'[h][i] = lines[h][i]
          /\ lines'[h][Len(lines[h]) + 1] = LineOf(op, c) /\ Own(LineOf(op, c))
      BY <1>0, <1>g, LinesGrow, LenProperties
    <3>2. \A i \in 1 .. Len(lines[h]) : Own(lines[h][i])
      BY DEF EngineSound
    <3>3. ASSUME NEW i \in 1 .. Len(lines'[h]) PROVE Own(lines'[h][i])
      <4>1. CASE i \in 1 .. Len(lines[h]) BY <3>1, <3>2, <4>1 DEF Own
      <4>2. CASE i = Len(lines[h]) + 1 BY <3>1, <4>2 DEF Own
      <4> QED BY <3>1, <4>1, <4>2
    <3> QED BY <3>3
  <2>3. \A e \in Conns : \A i \in 1 .. Len(lines'[e]) : Own(lines'[e][i])
    BY <2>1, <2>2 DEF EngineSound, Own
  <2> QED BY <1>g, <2>1, <2>3 DEF EngineSound, Own
<1>o. ASSUME UNCHANGED <<lines, proc>> PROVE Lined'
  BY <1>o DEF EngineSound, Own
<1>1. ASSUME NEW c \in Conns, Opens(c) PROVE EngineSound'
  <2>1. UNCHANGED <<pages, pump>> /\ OpenGoes(c)
    BY <1>0, <1>1, OpenDoes DEF Opens
  <2>p. \A p \in pages' : p.key = KeyOf[p.owner]
    BY <2>1 DEF EngineSound
  <2>2. CASE Starts(c)
    <3> USE <1>0, <2>1 DEF EngineSound, HostBasis, ConnsTyped, Up, Own, CallStates
    <3>1. Lined'
      BY <2>2 DEF Starts
    <3> QED BY <2>2, <2>p, <3>1 DEF Starts
  <2>3. CASE Readies(c)
    <3> USE <1>0, <2>1 DEF EngineSound, HostBasis, ConnsTyped, Up, Own, CallStates
    <3>1. Lined'
      BY <2>3 DEF Readies
    <3>2. Up'
      BY <2>3 DEF Readies
    <3> QED BY <2>3, <2>p, <3>1, <3>2 DEF Readies
  <2>4. CASE Fails(c)
    <3> USE <1>0, <2>1 DEF EngineSound, HostBasis, ConnsTyped, Up, Own, CallStates
    <3>1. Lined'
      BY <2>4 DEF Fails
    <3> QED BY <2>4, <2>p, <3>1 DEF Fails
  <2>5. CASE Proceeds(c)
    <3> USE <1>0, <2>1 DEF EngineSound, HostBasis, ConnsTyped, Up, Own, CallStates
    <3>1. Lined'
      BY <1>o, <2>5 DEF Proceeds
    <3> QED BY <2>5, <2>p, <3>1 DEF Proceeds
  <2>6. CASE Routes(c)
    <3>1. UNCHANGED <<stdin, proc, lines>>
      BY <1>0, <2>6 DEF Routes, HostBasis, ConnsTyped
    <3>2. stdin \in Conns /\ proc[stdin] \in {"running", "exited"}
      BY <1>0, <2>6 DEF Routes, HostBasis, ConnsTyped
    <3>3. \A d \in Conns : handle'[d] = IF d = c THEN stdin ELSE handle[d]
      BY <1>0, <2>6 DEF Routes, HostBasis, ConnsTyped
    <3>4. \A d \in Conns : call'[d] = IF d = c THEN "sending" ELSE call[d]
      BY <1>0, <2>6 DEF Routes, HostBasis, ConnsTyped
    <3>5. Lined'
      BY <1>o, <3>1
    <3> QED BY <2>1, <2>p, <3>1, <3>2, <3>3, <3>4, <3>5, SoundFrom DEF EngineSound
  <2>7. CASE Attaches(c)
    <3>1. UNCHANGED <<stdin, proc, handle>> /\ call[c] = "sending"
      BY <1>0, <2>7 DEF Attaches, ConnsTyped
    <3>2. \A d \in Conns : call'[d] = IF d = c THEN "opened" ELSE call[d]
      BY <1>0, <2>7 DEF Attaches, ConnsTyped
    <3>3. handle[c] \in Conns /\ proc[handle[c]] \notin {"none", "spawning"}
      BY <3>1 DEF HostBasis, EngineSound
    <3>4. Lined'
      BY <1>g, <2>7, <3>1, <3>3 DEF Attaches
    <3> QED BY <2>1, <2>p, <3>1, <3>2, <3>3, <3>4, SoundFrom DEF EngineSound
  <2>8. CASE Unroutes(c)
    <3>1. UNCHANGED <<stdin, proc, handle, lines>>
      BY <1>0, <2>8 DEF Unroutes, ConnsTyped
    <3>2. \A d \in Conns : call'[d] = IF d = c THEN "failed" ELSE call[d]
      BY <1>0, <2>8 DEF Unroutes, ConnsTyped
    <3>3. Lined'
      BY <1>o, <3>1
    <3> QED BY <2>1, <2>p, <3>1, <3>2, <3>3, SoundFrom DEF EngineSound
  <2> QED BY <1>0, <2>1, <2>2, <2>3, <2>4, <2>5, <2>6, <2>7, <2>8, OpenDoes
<1>2. ASSUME NEW c \in Conns, Closes(c) \/ Controls(c) PROVE EngineSound'
  <2>1. UNCHANGED <<stdin, proc, call, handle, pump, pages>>
    BY <1>2 DEF Closes, Controls, CloseCheck, CloseRemove, ForwardControl
  <2>2. UNCHANGED lines \/ \E op \in {"attach", "detach", "control"} :
           stdin \in Conns /\ lines' = [lines EXCEPT ![stdin] = Append(@, LineOf(op, c))]
    BY <1>0, <1>2 DEF Closes, Controls, CloseCheck, CloseRemove, ForwardControl, Forwards, ConnsTyped
  <2>3. Lined'
    BY <1>g, <1>o, <2>1, <2>2 DEF HostBasis
  <2> QED BY <2>1, <2>3 DEF EngineSound, Up, Own
<1>3. ASSUME NEW e \in Conns, HandleControlLine(e) PROVE EngineSound'
  <2>1. /\ UNCHANGED <<stdin, proc, call, handle, pump>> /\ proc[e] = "running" /\ lines[e] # <<>>
        /\ lines' = [lines EXCEPT ![e] = Tail(@)]
    BY <1>3 DEF HandleControlLine, EngineTakesLine
  <2>2. /\ \A d \in Conns : d # e => lines'[d] = lines[d]
        /\ Len(lines[e]) \in Nat \ {0} /\ Len(lines'[e]) = Len(lines[e]) - 1
        /\ \A i \in 1 .. Len(lines'[e]) : lines'[e][i] = lines[e][i + 1]
        /\ Head(lines[e]) = lines[e][1]
    BY <1>0, <2>1, LinesShrink
  <2>3. Lined'
    <3>1. \A i \in 1 .. Len(lines'[e]) : Own(lines'[e][i])
      BY <2>2 DEF EngineSound, Own
    <3> QED BY <2>1, <2>2, <3>1 DEF EngineSound, Own
  <2>4. Own(Head(lines[e]))
    BY <2>2 DEF EngineSound, Own
  <2>5. \A p \in pages' : p \in pages \/ p = [key |-> Head(lines[e]).key, owner |-> Head(lines[e]).from]
    BY <1>3 DEF HandleControlLine, AfterAttach, AfterDetach
  <2>6. \A p \in pages' : p.key = KeyOf[p.owner]
    BY <2>4, <2>5 DEF EngineSound, Own
  <2>7. Up'
    BY <2>1, HostAssumption DEF Up, HostBasis
  <2> QED BY <2>1, <2>3, <2>6, <2>7 DEF EngineSound, Own
<1>4. ASSUME NEW e \in Conns, LastTabCloses(e) PROVE EngineSound'
  <2>1. UNCHANGED <<stdin, proc, call, handle, pump, lines>> /\ proc[e] = "running" /\ pages' \subseteq pages
    BY <1>4 DEF LastTabCloses, hostVars
  <2> QED BY <1>o, <2>1 DEF EngineSound, Up, Own
<1>5. ASSUME NEW e \in Conns, Ends(e) PROVE EngineSound'
  <2>1. CASE EngineGone(e)
    <3>1. UNCHANGED <<stdin, call, handle, pump, lines>> /\ pages' = {} /\ proc' = [proc EXCEPT ![e] = "exited"]
      BY <2>1 DEF EngineGone, EngineExits
    <3>2. \A d \in Conns : proc'[d] = proc[d] \/ (d = e /\ proc[d] = "running" /\ proc'[d] = "exited")
      BY <1>0, <2>1, <3>1 DEF EngineGone, EngineExits, ConnsTyped
    <3>3. Lined'
      BY <3>1, <3>2 DEF EngineSound, Own
    <3> QED BY <3>1, <3>2, <3>3 DEF EngineSound, Own
  <2>2. CASE PumpBreaks(e) /\ UNCHANGED pages
    <3>1. \A d \in Conns : lines'[d] \in {lines[d], <<>>} /\ (~pump'[d] => ~pump[d] \/ d = e)
      BY <1>0, <2>2 DEF PumpBreaks, ConnsTyped
    <3>2. Lined'
      BY <2>2, <3>1 DEF PumpBreaks, EngineSound, Own
    <3> QED BY <2>2, <3>1, <3>2 DEF PumpBreaks, EngineSound, Up, Own
  <2>3. CASE WatchExit(e) /\ UNCHANGED pages
    <3>1. UNCHANGED <<call, handle, pump, lines>> /\ pages' = pages /\ stdin' = NoConn /\ proc[e] = "exited"
      BY <2>3 DEF WatchExit
    <3>2. \A d \in Conns : proc'[d] = proc[d] \/ (d = e /\ proc[d] = "exited" /\ proc'[d] = "gone")
      BY <1>0, <2>3 DEF WatchExit, ConnsTyped
    <3>3. Lined'
      BY <3>1, <3>2 DEF EngineSound, Own
    <3>4. pages = {}
      BY <1>0, <3>1 DEF HostBasis, EngineSound, Up, ConnsTyped
    <3> QED BY <3>1, <3>2, <3>3, <3>4 DEF EngineSound, Own
  <2> QED BY <1>5, <2>1, <2>2, <2>3 DEF Ends
<1>6. CASE Still
  <2>1. UNCHANGED tables /\ \A c \in Conns : call'[c] \in {call[c], "locking"} /\ (call'[c] # call[c] => call[c] = "none")
    BY <1>0, <1>6 DEF Still, ConnsTyped
  <2>2. Lined'
    BY <1>o, <2>1 DEF tables
  <2>3. Up' <=> Up
    BY <2>1 DEF tables, Up
  <2> QED BY <2>1, <2>2, <2>3 DEF tables, EngineSound, Own
<1> QED BY <1>1, <1>2, <1>3, <1>4, <1>5, <1>6, StepKinds

-----------------------------------------------------------------------------
(* Where a connection's attach stands: at 0 its page is there, else the     *)
(* line waits at that place of the queue; and whether a detach of a pane id *)
(* waits behind a place.                                                    *)
Holds(o, i) ==
  \/ i = 0 /\ [key |-> KeyOf[o], owner |-> o] \in pages
  \/ i \in 1 .. Len(Queue) /\ AsksFor(Queue[i], o)

Undone(n, i) == \E j \in 1 .. Len(Queue) : j > i /\ Queue[j].op = "detach" /\ Queue[j].id = n

Between(n, i, m) ==
  \E j \in 1 .. Len(Queue) : j > i /\ j < m /\ Queue[j].op = "detach" /\ Queue[j].id = n

\* What was held is held still, and what undid it still does.
Carried(o) ==
  \A i \in Nat : Holds(o, i)' =>
    \E m \in Nat : Holds(o, m) /\ (Undone(IdOf[KeyOf[o]], m) => Undone(IdOf[KeyOf[o]], i)')

\* Nothing else undoes it, and between two nothing that was there is gone.
Back(o) ==
  \A i \in Nat : Holds(o, i)' /\ Undone(IdOf[KeyOf[o]], i)' =>
    \E m \in Nat : Holds(o, m) /\ Undone(IdOf[KeyOf[o]], m)

PairCarried(o, d) ==
  \A i, m \in Nat : Holds(o, m)' /\ Holds(d, i)' /\ i < m =>
    \E p, q \in Nat : /\ Holds(o, p) /\ Holds(d, q) /\ q < p
                      /\ Between(IdOf[KeyOf[o]], q, p) => Between(IdOf[KeyOf[o]], i, m)'

LEMMA QueueStays ==
  ASSUME NEW o \in Conns, Queue' = Queue, pages' \subseteq pages
  PROVE  Carried(o) /\ Back(o) /\ \A d \in Conns : PairCarried(o, d)
<1>1. \A d \in Conns : \A i \in Nat : Holds(d, i)' => Holds(d, i)
  BY DEF Holds, AsksFor
<1>2. \A n : \A i \in Nat : Undone(n, i) <=> Undone(n, i)'
  BY DEF Undone
<1>3. \A n : \A i, m \in Nat : Between(n, i, m) => Between(n, i, m)'
  BY DEF Between
<1> QED BY <1>1, <1>2, <1>3 DEF Carried, Back, PairCarried

LEMMA QueueGrows ==
  ASSUME ConnsTyped, stdin \in Conns, NEW c \in Conns, NEW op \in {"attach", "detach", "control"},
         lines' = [lines EXCEPT ![stdin] = Append(@, LineOf(op, c))], UNCHANGED <<stdin, pages>>
  PROVE  /\ \A o \in Conns : \A i \in Nat :
              Holds(o, i)' => Holds(o, i) \/ (i = Len(Queue) + 1 /\ op = "attach" /\ c = o)
         /\ \A n : \A i \in Nat : Undone(n, i) => Undone(n, i)'
         /\ \A o \in Conns : \A i \in Nat :
              op = "detach" /\ Holds(o, i) => Undone(IdOf[KeyOf[c]], i)'
         /\ \A n : \A i \in Nat : op # "detach" \/ n # IdOf[KeyOf[c]] => (Undone(n, i)' => Undone(n, i))
         /\ \A n : \A i, m \in Nat : Between(n, i, m) => Between(n, i, m)'
         /\ \A n : \A i, m \in Nat : m = Len(Queue) + 1 /\ Undone(n, i) => Between(n, i, m)'
         /\ \A o \in Conns : \A i \in Nat : Holds(o, i) => i <= Len(Queue)
         /\ \A n : \A m \in Nat : m = Len(Queue) + 1 => ~Undone(n, m)'
<1> DEFINE L == Len(Queue)
<1>h. PICK h \in Conns : h = stdin /\ Queue = lines[h] /\ Queue' = lines'[h]
  BY DEF Queue
<1>1. /\ L \in Nat /\ Len(Queue') = L + 1
      /\ \A i \in 1 .. L : Queue'[i] = Queue[i]
      /\ Queue'[L + 1] = LineOf(op, c)
  <2>1. lines' = [lines EXCEPT ![h] = Append(@, LineOf(op, c))]
    BY <1>h
  <2>2. /\ lines[h] \in Seq(Line) /\ Len(lines'[h]) = Len(lines[h]) + 1
        /\ \A i \in 1 .. Len(lines[h]) : lines'[h][i] = lines[h][i]
        /\ lines'[h][Len(lines[h]) + 1] = LineOf(op, c)
    BY <2>1, LinesGrow
  <2> QED BY <1>h, <2>2, LenProperties
<1>2. LineOf(op, c).op = op /\ LineOf(op, c).from = c /\ LineOf(op, c).id = IdOf[KeyOf[c]]
  BY DEF LineOf
<1>3. ASSUME NEW o \in Conns, NEW i \in Nat, Holds(o, i)'
      PROVE  Holds(o, i) \/ (i = L + 1 /\ op = "attach" /\ c = o)
  <2>1. CASE i = 0 BY <1>3, <2>1 DEF Holds
  <2>2. CASE i = L + 1 BY <1>1, <1>2, <1>3, <2>2 DEF Holds, AsksFor
  <2>3. CASE i # 0 /\ i # L + 1
    <3>1. i \in 1 .. Len(Queue') /\ AsksFor(Queue'[i], o)
      BY <1>3, <2>3 DEF Holds, AsksFor
    <3>2. i \in 1 .. L
      BY <1>1, <2>3, <3>1
    <3> QED BY <1>1, <3>1, <3>2 DEF Holds, AsksFor
  <2> QED BY <2>1, <2>2, <2>3
<1>4. ASSUME NEW n, NEW i \in Nat, Undone(n, i) PROVE Undone(n, i)'
  <2>1. PICK j \in 1 .. L : j > i /\ Queue[j].op = "detach" /\ Queue[j].id = n
    BY <1>4 DEF Undone
  <2>2. j \in 1 .. Len(Queue') /\ Queue'[j] = Queue[j]
    BY <1>1
  <2> QED BY <2>1, <2>2 DEF Undone
<1>5. ASSUME NEW o \in Conns, NEW i \in Nat, op = "detach", Holds(o, i)
      PROVE  Undone(IdOf[KeyOf[c]], i)'
  <2>1. L + 1 \in 1 .. Len(Queue') /\ L + 1 > i
    BY <1>1, <1>5 DEF Holds
  <2> QED BY <1>1, <1>2, <1>5, <2>1 DEF Undone
<1>6. ASSUME NEW n, NEW i \in Nat, op # "detach" \/ n # IdOf[KeyOf[c]], Undone(n, i)' PROVE Undone(n, i)
  <2>1. PICK j \in 1 .. Len(Queue') : j > i /\ Queue'[j].op = "detach" /\ Queue'[j].id = n
    BY <1>6 DEF Undone
  <2>2. j # L + 1
    BY <1>1, <1>2, <1>6, <2>1
  <2>3. j \in 1 .. L /\ Queue'[j] = Queue[j]
    BY <1>1, <2>1, <2>2
  <2> QED BY <2>1, <2>3 DEF Undone
<1>7. ASSUME NEW n, NEW i \in Nat, NEW m \in Nat, Between(n, i, m) PROVE Between(n, i, m)'
  <2>1. PICK j \in 1 .. L : j > i /\ j < m /\ Queue[j].op = "detach" /\ Queue[j].id = n
    BY <1>7 DEF Between
  <2>2. j \in 1 .. Len(Queue') /\ Queue'[j] = Queue[j]
    BY <1>1
  <2> QED BY <2>1, <2>2 DEF Between
<1>8. ASSUME NEW n, NEW i \in Nat, NEW m \in Nat, m = L + 1, Undone(n, i) PROVE Between(n, i, m)'
  <2>1. PICK j \in 1 .. L : j > i /\ Queue[j].op = "detach" /\ Queue[j].id = n
    BY <1>8 DEF Undone
  <2>2. j \in 1 .. Len(Queue') /\ Queue'[j] = Queue[j] /\ j < m
    BY <1>1, <1>8
  <2> QED BY <2>1, <2>2 DEF Between
<1>9. \A o \in Conns : \A i \in Nat : Holds(o, i) => i <= L
  BY <1>1 DEF Holds
<1>10. \A n : \A m \in Nat : m = L + 1 => ~Undone(n, m)'
  BY <1>1 DEF Undone
<1> QED BY <1>3, <1>4, <1>5, <1>6, <1>7, <1>8, <1>9, <1>10

(* The engine takes a line: the attach it was for is served, the detach     *)
(* takes the page, and everything else moves up.                            *)
LEMMA LineTaken ==
  ASSUME ConnsTyped, EngineSound, stdin \in Conns, HandleControlLine(stdin)
  PROVE  /\ UNCHANGED stdin /\ Len(Queue) \in Nat \ {0} /\ Len(Queue') = Len(Queue) - 1
         /\ \A i \in 1 .. Len(Queue') : Queue'[i] = Queue[i + 1]
         /\ pages' = CASE Queue[1].op = "attach" -> AfterAttach(Queue[1])
                       [] Queue[1].op = "detach" -> AfterDetach(Queue[1])
                       [] OTHER -> pages
         /\ Own(Queue[1])
<1>1. /\ UNCHANGED stdin /\ Queue # <<>> /\ lines' = [lines EXCEPT ![stdin] = Tail(@)]
      /\ pages' = CASE Head(Queue).op = "attach" -> AfterAttach(Head(Queue))
                    [] Head(Queue).op = "detach" -> AfterDetach(Head(Queue))
                    [] OTHER -> pages
  BY DEF HandleControlLine, EngineTakesLine, Queue
<1>2. /\ Len(Queue) \in Nat \ {0} /\ Len(Queue') = Len(Queue) - 1 /\ Head(Queue) = Queue[1]
      /\ \A i \in 1 .. Len(Queue') : Queue'[i] = Queue[i + 1]
  <2>1. PICK h \in Conns : h = stdin /\ Queue = lines[h] /\ Queue' = lines'[h]
    BY <1>1 DEF Queue
  <2>2. lines' = [lines EXCEPT ![h] = Tail(@)] /\ lines[h] # <<>>
    BY <1>1, <2>1
  <2>3. /\ Len(lines[h]) \in Nat \ {0} /\ Len(lines'[h]) = Len(lines[h]) - 1
        /\ Head(lines[h]) = lines[h][1]
        /\ \A i \in 1 .. Len(lines'[h]) : lines'[h][i] = lines[h][i + 1]
    BY <2>2, LinesShrink
  <2> QED BY <2>1, <2>3
<1>3. Own(Queue[1])
  BY <1>2 DEF EngineSound, Queue
<1> QED BY <1>1, <1>2, <1>3

\* The place i of after a line was taken is the place m of before.
WasAt(o, m, i) ==
  /\ m \in {i, i + 1} /\ Holds(o, m)
  /\ m = i => i = 0 /\ ~(Queue[1].op = "detach" /\ Queue[1].id = IdOf[KeyOf[o]])

LEMMA PlaceTaken ==
  ASSUME ConnsTyped, EngineSound, stdin \in Conns, HandleControlLine(stdin),
         NEW o \in Conns, NEW i \in Nat, Holds(o, i)'
  PROVE  \E m \in Nat : WasAt(o, m, i) /\ (i > 0 => m = i + 1)
<1> DEFINE page == [key |-> KeyOf[o], owner |-> o]
<1>1. CASE i # 0
  <2>1. i \in 1 .. Len(Queue') /\ AsksFor(Queue'[i], o)
    BY <1>1 DEF Holds, AsksFor
  <2>2. i + 1 \in 1 .. Len(Queue) /\ AsksFor(Queue[i + 1], o)
    BY <2>1, LineTaken DEF AsksFor
  <2>3. Holds(o, i + 1)
    BY <2>2 DEF Holds
  <2> QED BY <1>1, <2>3 DEF WasAt
<1>2. CASE i = 0 /\ page \notin pages
  <2>1. page \in pages'
    BY <1>2 DEF Holds
  <2>2. Queue[1].op = "attach" /\ page = [key |-> Queue[1].key, owner |-> Queue[1].from]
    BY <1>2, <2>1, LineTaken DEF AfterAttach, AfterDetach
  <2>3. Holds(o, 1)
    BY <2>2, LineTaken DEF Holds, AsksFor
  <2> QED BY <1>2, <2>3 DEF WasAt
<1>3. CASE i = 0 /\ page \in pages
  <2>1. page \in pages'
    BY <1>3 DEF Holds
  <2>2. ~(Queue[1].op = "detach" /\ Queue[1].id = IdOf[KeyOf[o]])
    BY <2>1, LineTaken DEF AfterDetach
  <2>3. Holds(o, 0)
    BY <1>3 DEF Holds
  <2> QED BY <1>3, <2>2, <2>3 DEF WasAt
<1> QED BY <1>1, <1>2, <1>3

LEMMA QueueTaken ==
  ASSUME ConnsTyped, EngineSound, NEW o \in Conns, stdin \in Conns, HandleControlLine(stdin)
  PROVE  /\ Carried(o) /\ Back(o) /\ UNCHANGED stdin
         /\ \A d \in Conns : IdOf[KeyOf[d]] = IdOf[KeyOf[o]] => PairCarried(o, d)
<1> DEFINE L == Len(Queue)
           id == IdOf[KeyOf[o]]
           Undoes(j) == Queue[j].op = "detach" /\ Queue[j].id = id
<1>1. /\ L \in Nat \ {0} /\ Len(Queue') = L - 1
      /\ \A i \in 1 .. Len(Queue') : Queue'[i] = Queue[i + 1]
  BY LineTaken
<1>2. ASSUME NEW d \in Conns, IdOf[KeyOf[d]] = id, NEW i \in Nat, NEW m \in Nat, WasAt(d, m, i),
             NEW j \in 1 .. L, j > m, Undoes(j)
      PROVE  j - 1 \in 1 .. Len(Queue') /\ j - 1 > i /\ Queue'[j - 1] = Queue[j]
  <2>1. j # 1
    BY <1>2 DEF WasAt
  <2>2. j - 1 \in 1 .. Len(Queue')
    BY <1>1, <2>1
  <2> QED BY <1>1, <1>2, <2>1, <2>2 DEF WasAt
<1>3. ASSUME NEW i \in Nat, NEW m \in Nat, WasAt(o, m, i), Undone(id, m)
      PROVE  Undone(id, i)'
  <2>1. PICK j \in 1 .. L : j > m /\ Undoes(j)
    BY <1>3 DEF Undone
  <2>2. j - 1 \in 1 .. Len(Queue') /\ j - 1 > i /\ Queue'[j - 1] = Queue[j]
    BY <1>2, <1>3, <2>1
  <2> QED BY <2>1, <2>2 DEF Undone
<1>4. ASSUME NEW i \in Nat, NEW m \in Nat, m \in {i, i + 1}, Undone(id, i)'
      PROVE  Undone(id, m)
  <2>1. PICK j \in 1 .. Len(Queue') : j > i /\ Queue'[j].op = "detach" /\ Queue'[j].id = id
    BY <1>4 DEF Undone
  <2>2. j + 1 \in 1 .. L /\ j + 1 > m /\ Undoes(j + 1)
    BY <1>1, <1>4, <2>1
  <2> QED BY <2>2 DEF Undone
<1>5. Carried(o) /\ Back(o)
  <2>1. ASSUME NEW i \in Nat, Holds(o, i)' PROVE \E m \in Nat : WasAt(o, m, i)
    BY <2>1, PlaceTaken
  <2>2. \A i, m \in Nat : WasAt(o, m, i) => Holds(o, m) /\ m \in {i, i + 1}
    BY DEF WasAt
  <2> QED BY <1>3, <1>4, <2>1, <2>2 DEF Carried, Back
<1>6. ASSUME NEW d \in Conns, IdOf[KeyOf[d]] = id, NEW i \in Nat, NEW m \in Nat,
             Holds(o, m)', Holds(d, i)', i < m
      PROVE  \E p, q \in Nat : /\ Holds(o, p) /\ Holds(d, q) /\ q < p
                               /\ Between(id, q, p) => Between(id, i, m)'
  <2>1. WasAt(o, m + 1, m)
    BY <1>6, PlaceTaken
  <2>2. PICK q \in Nat : WasAt(d, q, i)
    BY <1>6, PlaceTaken
  <2>3. Holds(o, m + 1) /\ Holds(d, q) /\ q < m + 1
    BY <1>6, <2>1, <2>2 DEF WasAt
  <2>4. ASSUME Between(id, q, m + 1) PROVE Between(id, i, m)'
    <3>1. PICK j \in 1 .. L : j > q /\ j < m + 1 /\ Undoes(j)
      BY <2>4 DEF Between
    <3>2. j - 1 \in 1 .. Len(Queue') /\ j - 1 > i /\ Queue'[j - 1] = Queue[j] /\ j - 1 < m
      BY <1>2, <1>6, <2>2, <3>1
    <3> QED BY <3>1, <3>2 DEF Between
  <2> QED BY <2>3, <2>4
<1> QED BY <1>5, <1>6, LineTaken DEF PairCarried

(* A calm connection whose attach stands somewhere is routed, or a detach   *)
(* follows: one has been sent before a close() takes the route, and an      *)
(* open() that fails to send takes none of this engine's routes.            *)
Served(o) ==
  Calm(o) =>
    /\ \A i \in Nat : Holds(o, i) =>
         /\ sinks[KeyOf[o]] # NoConn \/ Undone(IdOf[KeyOf[o]], i)
         /\ \A d \in closing : KeyOf[d] = KeyOf[o] => Undone(IdOf[KeyOf[o]], i)
         /\ \A d \in Conns : call[d] = "sending" /\ KeyOf[d] = KeyOf[o] => handle[d] = stdin
    /\ call[o] = "sending" /\ handle[o] = stdin => sinks[KeyOf[o]] # NoConn

ServedInv == Up => \A o \in Conns : Served(o)

\* A calm open() has nobody of its pane beside it.
Alone(o, c) == Calm(o) /\ task[o] = "opening" /\ KeyOf[c] = KeyOf[o] /\ c # o => ~Busy(c)

LEMMA SoloAlone == MetInv => \A o, c \in Conns : Alone(o, c)
BY DEF MetInv, Solo, Alone, SameId

(* A step that carries the queue on and takes no route keeps it.            *)
LEMMA ServedCarried ==
  ASSUME NEW o \in Conns, Served(o), Calm(o)' => Calm(o), Carried(o),
         UNCHANGED <<stdin, handle, closing>>,
         sinks[KeyOf[o]] # NoConn => sinks'[KeyOf[o]] # NoConn,
         \A d \in Conns : call'[d] = "sending" => call[d] = "sending"
  PROVE  Served(o)'
<1>1. ASSUME NEW i \in Nat, Holds(o, i)', Calm(o)'
      PROVE  /\ sinks'[KeyOf[o]] # NoConn \/ Undone(IdOf[KeyOf[o]], i)'
             /\ \A d \in closing' : KeyOf[d] = KeyOf[o] => Undone(IdOf[KeyOf[o]], i)'
             /\ \A d \in Conns : call'[d] = "sending" /\ KeyOf[d] = KeyOf[o] => handle'[d] = stdin'
  <2>1. PICK m \in Nat : Holds(o, m) /\ (Undone(IdOf[KeyOf[o]], m) => Undone(IdOf[KeyOf[o]], i)')
    BY <1>1 DEF Carried
  <2> QED BY <1>1, <2>1 DEF Served
<1>2. Calm(o)' /\ call'[o] = "sending" /\ handle'[o] = stdin' => sinks'[KeyOf[o]] # NoConn
  BY DEF Served
<1> QED BY <1>1, <1>2 DEF Served

(* An open()'s step.                                                        *)
LEMMA ServedOpens ==
  ASSUME HostBasis, MetInv, EngineSound, ServedInv, NEW c \in Conns, Opens(c),
         \A d \in Conns : Calm(d)' => Calm(d), Up', NEW o \in Conns
  PROVE  Served(o)'
<1>0. /\ ConnsTyped /\ task[c] = "opening" /\ UNCHANGED <<pages, closing>> /\ KeyOf[o] \in Keys
      /\ KeyOf[c] \in Keys
  BY OpenDoes DEF HostBasis, Opens, ConnsTyped
<1>a. Alone(o, c)
  BY SoloAlone
<1>b. Busy(c) /\ \A d \in closing : task[d] \in {"detaching", "closing"} /\ d \in Conns
  BY <1>0 DEF Busy, HostBasis, ConnsTyped
<1>1. CASE Starts(c)
  BY <1>1 DEF Starts, Up
<1>2. CASE Readies(c)
  <2>1. ~Up /\ proc[c] = "spawning"
    BY <1>0, <1>2 DEF Readies, HostBasis, Up
  <2>2. Queue' = <<>> /\ pages' = {}
    BY <1>0, <1>2, <2>1 DEF Readies, EngineSound, Queue
  <2>3. \A i \in Nat : ~Holds(o, i)'
    BY <2>2 DEF Holds
  <2>4. call'[o] = "sending" => call[o] = "sending" /\ handle[o] # c
    BY <1>0, <1>2, <2>1 DEF Readies, EngineSound, ConnsTyped
  <2> QED BY <1>2, <2>3, <2>4 DEF Served, Readies
<1>3. CASE Fails(c) \/ Proceeds(c)
  <2>1. UNCHANGED <<stdin, handle, sinks, lines>> /\ \A d \in Conns : call'[d] = "sending" => call[d] = "sending"
    BY <1>0, <1>3 DEF Fails, Proceeds, ConnsTyped
  <2>2. \A d \in Conns : proc'[d] = "running" => proc[d] = "running"
    BY <1>0, <1>3 DEF Fails, Proceeds, ConnsTyped
  <2>3. Served(o) /\ Carried(o)
    BY <1>0, <2>1, <2>2, QueueStays DEF Up, ServedInv, Queue, ConnsTyped
  <2> QED BY <1>0, <2>1, <2>3, ServedCarried
<1>4. CASE Routes(c)
  <2>1. UNCHANGED <<stdin, lines, proc>> /\ stdin # NoConn
    BY <1>4 DEF Routes
  <2>2. Served(o) /\ Queue' = Queue
    BY <2>1 DEF Up, ServedInv, Queue
  <2>3. /\ \A d \in Conns : call'[d] = "sending" => call[d] = "sending" \/ (d = c /\ handle'[d] = stdin)
        /\ \A d \in Conns : handle'[d] = handle[d] \/ (d = c /\ handle'[d] = stdin)
        /\ sinks'[KeyOf[o]] \in {sinks[KeyOf[o]], c} /\ c # NoConn
        /\ sinks'[KeyOf[c]] = c /\ (o # c => handle'[o] = handle[o] /\ (call'[o] = "sending" => call[o] = "sending"))
    BY <1>0, <1>4, HostAssumption DEF Routes, ConnsTyped
  <2>4. \A i \in Nat : Holds(o, i)' => Holds(o, i)
    BY <1>0, <2>2 DEF Holds, AsksFor
  <2>5. \A i \in Nat : Undone(IdOf[KeyOf[o]], i) => Undone(IdOf[KeyOf[o]], i)'
    BY <2>2 DEF Undone
  <2>6. Calm(o)' => \A i \in Nat : Holds(o, i)' =>
          /\ sinks'[KeyOf[o]] # NoConn \/ Undone(IdOf[KeyOf[o]], i)'
          /\ \A d \in closing' : KeyOf[d] = KeyOf[o] => Undone(IdOf[KeyOf[o]], i)'
          /\ \A d \in Conns : call'[d] = "sending" /\ KeyOf[d] = KeyOf[o] => handle'[d] = stdin'
    BY <1>0, <2>1, <2>2, <2>3, <2>4, <2>5 DEF Served
  <2>7. Calm(o)' /\ call'[o] = "sending" /\ handle'[o] = stdin' => sinks'[KeyOf[o]] # NoConn
    BY <2>1, <2>2, <2>3 DEF Served
  <2> QED BY <2>6, <2>7 DEF Served
<1>5. CASE Attaches(c)
  <2>1. UNCHANGED <<sinks, handle, stdin, proc>> /\ call[c] = "sending" /\ handle[c] \in Conns
    BY <1>5 DEF Attaches, HostBasis
  <2>2. Served(o) /\ (\A d \in Conns : call'[d] = IF d = c THEN "opened" ELSE call[d])
    BY <1>0, <1>5, <2>1 DEF Up, ServedInv, Attaches, ConnsTyped
  <2>3. CASE handle[c] # stdin
    <3>1. Queue' = Queue
      BY <1>0, <1>5, <2>1, <2>3 DEF Attaches, Queue, ConnsTyped
    <3> QED BY <1>0, <2>1, <2>2, <3>1, QueueStays, ServedCarried
  <2>4. CASE handle[c] = stdin
    <3>1. lines' = [lines EXCEPT ![stdin] = Append(@, LineOf("attach", c))]
      BY <1>5, <2>4 DEF Attaches
    <3>2. /\ \A i \in Nat : Holds(o, i)' => Holds(o, i) \/ (i = Len(Queue) + 1 /\ c = o)
          /\ \A i \in Nat : Undone(IdOf[KeyOf[o]], i) => Undone(IdOf[KeyOf[o]], i)'
      BY <1>0, <2>1, <2>4, <3>1, QueueGrows
    <3>3. CASE o # c
      BY <1>0, <2>1, <2>2, <3>2, <3>3, ServedCarried DEF Carried
    <3>4. CASE o = c /\ Calm(c)
      <4>1. sinks'[KeyOf[o]] # NoConn
        BY <2>1, <2>2, <2>4, <3>4 DEF Served
      <4>2. \A d \in Conns : KeyOf[d] = KeyOf[c] => d = c \/ ~Busy(d)
        BY <1>0, <3>4, SoloAlone DEF Alone
      <4>3. \A d \in closing' : KeyOf[d] # KeyOf[c]
        BY <1>0, <1>b, <4>2 DEF Busy
      <4>4. \A d \in Conns : KeyOf[d] = KeyOf[c] => call'[d] # "sending"
        BY <2>2, <4>2 DEF Busy, HostBasis
      <4> QED BY <3>4, <4>1, <4>3, <4>4 DEF Served
    <3>5. CASE o = c /\ ~Calm(c)
      BY <3>5 DEF Served
    <3> QED BY <3>3, <3>4, <3>5
  <2> QED BY <2>3, <2>4
<1>6. CASE Unroutes(c)
  <2>1. UNCHANGED <<handle, stdin, proc, lines>> /\ call[c] = "sending" /\ handle[c] \in Conns /\ ~pump[handle[c]]
    BY <1>6 DEF Unroutes, HostBasis
  <2>2. handle[c] # stdin
    BY <2>1 DEF EngineSound, Up
  <2>3. Served(o) /\ (\A d \in Conns : call'[d] = IF d = c THEN "failed" ELSE call[d]) /\ Queue' = Queue
    BY <1>0, <1>6, <2>1 DEF Up, ServedInv, Unroutes, ConnsTyped, Queue
  <2>4. CASE KeyOf[o] # KeyOf[c]
    <3>1. sinks'[KeyOf[o]] = sinks[KeyOf[o]]
      BY <1>0, <1>6, <2>4 DEF Unroutes, ConnsTyped
    <3> QED BY <1>0, <2>1, <2>3, <3>1, QueueStays, ServedCarried
  <2>5. CASE KeyOf[o] = KeyOf[c] /\ Calm(o)
    <3>1. \A i \in Nat : ~Holds(o, i)
      BY <2>1, <2>2, <2>3, <2>5 DEF Served
    <3>2. \A i \in Nat : ~Holds(o, i)'
      BY <1>0, <2>3, <3>1 DEF Holds, AsksFor
    <3>3. ~(call'[o] = "sending" /\ handle'[o] = stdin')
      BY <1>a, <1>b, <2>1, <2>2, <2>3, <2>5 DEF Alone, HostBasis
    <3> QED BY <3>2, <3>3 DEF Served
  <2>6. CASE ~Calm(o)
    BY <2>6 DEF Served
  <2> QED BY <2>4, <2>5, <2>6
<1> QED BY <1>0, <1>1, <1>2, <1>3, <1>4, <1>5, <1>6, OpenDoes DEF Opens

(* A control line, or one of the two sections of a close().                 *)
LEMMA ServedCalls ==
  ASSUME HostBasis, MetInv, EngineSound, ServedInv, NEW c \in Conns, Closes(c) \/ Controls(c),
         \A d \in Conns : Calm(d)' => Calm(d), Up', NEW o \in Conns
  PROVE  Served(o)'
<1>0. ConnsTyped /\ UNCHANGED <<stdin, proc, call, handle, pages>> /\ KeyOf[o] \in Keys /\ KeyOf[c] \in Keys
  BY DEF HostBasis, Closes, Controls, CloseCheck, CloseRemove, ForwardControl, ConnsTyped
<1>1. Up /\ Served(o) /\ stdin \in Conns
  BY <1>0 DEF Up, ServedInv, ConnsTyped
<1>2. CASE Controls(c)
  <2>1. UNCHANGED <<sinks, closing>> /\ (UNCHANGED lines \/ lines' = [lines EXCEPT ![stdin] = Append(@, LineOf("control", c))])
    BY <1>2 DEF Controls, ForwardControl, Forwards
  <2>2. Carried(o)
    <3>1. CASE UNCHANGED lines BY <1>0, <3>1, QueueStays DEF Queue
    <3>2. CASE lines' = [lines EXCEPT ![stdin] = Append(@, LineOf("control", c))]
      <4>1. /\ \A i \in Nat : Holds(o, i)' => Holds(o, i)
            /\ \A i \in Nat : Undone(IdOf[KeyOf[o]], i) => Undone(IdOf[KeyOf[o]], i)'
        BY <1>0, <1>1, <3>2, QueueGrows
      <4> QED BY <4>1 DEF Carried
    <3> QED BY <2>1, <3>1, <3>2
  <2> QED BY <1>0, <1>1, <2>1, <2>2, ServedCarried
<1>3. CASE Closes(c) /\ CloseCheck(c)
  <2>1. CASE sinks[KeyOf[c]] = NoConn
    <3>1. UNCHANGED <<sinks, closing, lines>>
      BY <1>3, <2>1 DEF CloseCheck, Forwards
    <3> QED BY <1>0, <1>1, <3>1, QueueStays, ServedCarried DEF Queue
  <2>2. CASE sinks[KeyOf[c]] # NoConn
    <3>1. /\ lines' = [lines EXCEPT ![stdin] = Append(@, LineOf("detach", c))]
          /\ closing' = closing \cup {c} /\ UNCHANGED sinks
      BY <1>1, <1>3, <2>2 DEF CloseCheck, Forwards, Up
    <3>2. /\ \A i \in Nat : Holds(o, i)' => Holds(o, i)
          /\ \A i \in Nat : Undone(IdOf[KeyOf[o]], i) => Undone(IdOf[KeyOf[o]], i)'
          /\ \A i \in Nat : Holds(o, i) => Undone(IdOf[KeyOf[c]], i)'
      BY <1>0, <1>1, <3>1, QueueGrows
    <3>3. Calm(o)' => \A i \in Nat : Holds(o, i)' =>
            /\ sinks'[KeyOf[o]] # NoConn \/ Undone(IdOf[KeyOf[o]], i)'
            /\ \A d \in closing' : KeyOf[d] = KeyOf[o] => Undone(IdOf[KeyOf[o]], i)'
            /\ \A d \in Conns : call'[d] = "sending" /\ KeyOf[d] = KeyOf[o] => handle'[d] = stdin'
      BY <1>0, <1>1, <3>1, <3>2 DEF Served
    <3> QED BY <1>0, <1>1, <3>1, <3>3 DEF Served
  <2> QED BY <2>1, <2>2
<1>4. CASE Closes(c) /\ CloseRemove(c)
  <2>1. c \in closing /\ closing' = closing \ {c} /\ sinks' = [sinks EXCEPT ![KeyOf[c]] = NoConn] /\ UNCHANGED lines
    BY <1>4 DEF CloseRemove
  <2>2. \A i \in Nat : Holds(o, i)' => Holds(o, i)
    BY <1>0, <2>1 DEF Holds, AsksFor, Queue
  <2>3. \A i \in Nat : Undone(IdOf[KeyOf[o]], i) => Undone(IdOf[KeyOf[o]], i)'
    BY <1>0, <2>1 DEF Undone, Queue
  <2>4. sinks'[KeyOf[o]] = IF KeyOf[o] = KeyOf[c] THEN NoConn ELSE sinks[KeyOf[o]]
    BY <1>0, <2>1 DEF ConnsTyped
  <2>5. Calm(o)' => \A i \in Nat : Holds(o, i)' =>
          /\ sinks'[KeyOf[o]] # NoConn \/ Undone(IdOf[KeyOf[o]], i)'
          /\ \A d \in closing' : KeyOf[d] = KeyOf[o] => Undone(IdOf[KeyOf[o]], i)'
          /\ \A d \in Conns : call'[d] = "sending" /\ KeyOf[d] = KeyOf[o] => handle'[d] = stdin'
    BY <1>0, <1>1, <2>1, <2>2, <2>3, <2>4 DEF Served
  <2>6. Calm(o)' /\ call'[o] = "sending" /\ handle'[o] = stdin' => sinks'[KeyOf[o]] # NoConn
    <3>1. Calm(o) /\ task[o] = "opening" => KeyOf[o] # KeyOf[c]
      BY <1>4, SoloAlone DEF Alone, Busy, Closes
    <3> QED BY <1>0, <1>1, <2>4, <3>1 DEF Served, HostBasis
  <2> QED BY <2>5, <2>6 DEF Served
<1> QED BY <1>2, <1>3, <1>4 DEF Closes

(* The engine's steps.                                                      *)
LEMMA ServedEngine ==
  ASSUME HostBasis, EngineSound, ServedInv, NEW e \in Conns,
         HandleControlLine(e) \/ LastTabCloses(e) \/ Ends(e),
         \A d \in Conns : Calm(d)' => Calm(d), Up', NEW o \in Conns
  PROVE  Served(o)'
<1>0. ConnsTyped
  BY DEF HostBasis
<1>1. CASE HandleControlLine(e)
  <2>1. UNCHANGED <<stdin, proc, call, handle, sinks, closing>> /\ proc[e] = "running"
    BY <1>1 DEF HandleControlLine, EngineTakesLine
  <2>2. e = stdin /\ Up /\ Served(o)
    BY <2>1 DEF HostBasis, ServedInv, Up
  <2>3. Carried(o)
    BY <1>0, <1>1, <2>2, QueueTaken
  <2> QED BY <2>1, <2>2, <2>3, ServedCarried
<1>2. CASE LastTabCloses(e)
  <2>1. UNCHANGED <<stdin, proc, call, handle, sinks, closing, lines>> /\ pages' \subseteq pages
    BY <1>2 DEF LastTabCloses, hostVars
  <2>2. Served(o) /\ Queue' = Queue
    BY <2>1 DEF ServedInv, Up, Queue
  <2> QED BY <2>1, <2>2, QueueStays, ServedCarried
<1>3. CASE EngineGone(e)
  <2>1. UNCHANGED stdin /\ proc[e] = "running" /\ proc' = [proc EXCEPT ![e] = "exited"]
    BY <1>3 DEF EngineGone, EngineExits
  <2>2. stdin = e /\ proc'[e] = "exited"
    BY <1>0, <2>1 DEF HostBasis, ConnsTyped
  <2> QED BY <2>1, <2>2 DEF Up
<1>4. CASE PumpBreaks(e) /\ UNCHANGED pages
  <2>1. UNCHANGED <<stdin, proc, call, handle, sinks, closing>> /\ proc[e] # "running" /\ lines' = [lines EXCEPT ![e] = <<>>]
    BY <1>4 DEF PumpBreaks
  <2>2. Served(o) /\ stdin \in Conns /\ stdin # e
    BY <1>0, <2>1 DEF ServedInv, Up, ConnsTyped
  <2>3. Queue' = Queue
    BY <1>0, <2>1, <2>2 DEF Queue, ConnsTyped
  <2> QED BY <1>4, <2>1, <2>2, <2>3, QueueStays, ServedCarried
<1>5. CASE WatchExit(e)
  BY <1>5 DEF WatchExit, Up
<1> QED BY <1>1, <1>2, <1>3, <1>4, <1>5 DEF Ends

LEMMA ServedStep ==
  HostBasis /\ MetInv /\ EngineSound /\ ServedInv /\ [Next]_vars /\ (\A d \in Conns : Calm(d)' => Calm(d))
    => ServedInv'
<1> SUFFICES ASSUME HostBasis, MetInv, EngineSound, ServedInv, [Next]_vars, Up',
                    \A d \in Conns : Calm(d)' => Calm(d), NEW o \in Conns
             PROVE  Served(o)'
  BY DEF ServedInv
<1>1. CASE Still
  <2>1. UNCHANGED <<stdin, handle, sinks, closing, proc, lines, pages>>
    BY <1>1 DEF Still, tables
  <2>2. \A d \in Conns : call'[d] = "sending" => call[d] = "sending"
    BY <1>1 DEF Still, HostBasis, ConnsTyped
  <2>3. Served(o) /\ Queue' = Queue
    BY <2>1 DEF ServedInv, Up, Queue
  <2> QED BY <2>1, <2>2, <2>3, QueueStays, ServedCarried
<1> QED BY <1>1, StepKinds, ServedOpens, ServedCalls, ServedEngine

LEMMA ServedPath == Spec => [](Basis /\ TasksInv /\ MetInv /\ HostBasis /\ EngineSound /\ ServedInv)
<1>1. Init => EngineSound /\ ServedInv
  BY SoundBegins DEF Init, HostInit, ServedInv, Up
<1>2. Basis /\ TasksInv /\ MetInv /\ EngineSound /\ ServedInv /\ [Next]_vars => EngineSound' /\ ServedInv'
  BY HostBasisHolds, MetStep, SoundStep, ServedStep
<1> QED BY <1>1, <1>2, CalmPath, HostBasisHolds, PTL DEF Spec

(* The engine keeps no page whose pane the daemon has forgotten: once it    *)
(* has read its stdin every page it holds is of a routed pane, whichever    *)
(* connections of the pane came, went, failed or were closed, and whatever  *)
(* the engine's own end did; an open() beside another open() or close() of  *)
(* its pane id excepted (open, close, watch_exit, handleAttach).            *)
THEOREM PagesAreServed == Spec => []PageIsServed
<1>1. EngineSound /\ ServedInv /\ HostBasis => PageIsServed
  <2> SUFFICES ASSUME EngineSound, ServedInv, HostBasis, NEW p \in pages, Settled, Calm(p.owner)
               PROVE  sinks[p.key] # NoConn
    BY DEF PageIsServed, Calm
  <2>1. Up /\ Queue = <<>> /\ p \in Page /\ p.key = KeyOf[p.owner] /\ p.owner \in Conns
    BY DEF Settled, Up, Queue, EngineSound, HostBasis, ConnsTyped, Page
  <2>2. p = [key |-> p.key, owner |-> p.owner]
    BY <2>1 DEF Page
  <2>3. Holds(p.owner, 0)
    BY <2>1, <2>2 DEF Holds
  <2>4. \A n : ~Undone(n, 0)
    BY <2>1 DEF Undone
  <2>5. Served(p.owner)
    BY <2>1 DEF ServedInv
  <2> QED BY <2>1, <2>3, <2>4, <2>5 DEF Served
<1> QED BY <1>1, ServedPath, PTL

-----------------------------------------------------------------------------
(* A calm connection that is routed, or about to be, is the only one of its *)
(* pane id across tmux servers (conflicting_pane_id): another server's pane *)
(* is neither routed nor about to be.                                       *)
Rival(c) ==
  Calm(c) =>
    /\ task[c] = "opening" \/ sinks[KeyOf[c]] = c =>
         \A k \in Keys : k # KeyOf[c] /\ IdOf[k] = IdOf[KeyOf[c]] => sinks[k] = NoConn
    /\ sinks[KeyOf[c]] = c =>
         \A d \in Conns : SameId(c, d) /\ KeyOf[d] # KeyOf[c] => task[d] # "opening"

RivalInv == \A c \in Conns : Rival(c)

(* Only an open() adds a route, its own.                                    *)
LEMMA SinksMove ==
  ASSUME ConnsTyped, NEW c \in Conns, TaskStep(c) \/ FrontStep(c), NEW k \in Keys
  PROVE  \/ sinks'[k] \in {sinks[k], NoConn}
         \/ task[c] = "opening" /\ k = KeyOf[c] /\ sinks'[k] = c
<1>1. CASE ReadHost(c)
  BY <1>1 DEF ReadHost, OpenBegin
<1>2. CASE task[c] = "opening" /\ OpenGoes(c)
  <2>1. CASE Routes(c)   BY <1>2, <2>1 DEF Routes, ConnsTyped
  <2>2. CASE Unroutes(c) BY <1>2, <2>2 DEF Unroutes, ConnsTyped
  <2>3. CASE Starts(c) \/ Readies(c) \/ Fails(c) \/ Proceeds(c) \/ Attaches(c)
    BY <2>3 DEF Starts, Readies, Fails, Proceeds, Attaches
  <2> QED BY <1>2, <2>1, <2>2, <2>3, OpenDoes
<1>3. CASE CloseCheck(c) \/ CloseRemove(c) \/ ForwardControl(c) \/ TakeEvent(c) \/ UNCHANGED hostVars
  BY <1>3 DEF ConnsTyped, CloseCheck, CloseRemove, ForwardControl, TakeEvent, hostVars
<1> QED BY <1>1, <1>2, <1>3, TaskKinds

LEMMA RivalOwnStep ==
  ASSUME HostBasis, MetInv, NEW c \in Conns, Rival(c), TaskStep(c) \/ FrontStep(c),
         \A d \in Conns \ {c} : task'[d] = task[d], Calm(c)' => Calm(c)
  PROVE  Rival(c)'
<1>0. ConnsTyped /\ KeyOf[c] \in Keys
  BY DEF HostBasis, ConnsTyped
<1>1. CASE ReadHost(c)
  <2>1. UNCHANGED sinks /\ call[c] = "none" /\ ~ConflictingPaneId(KeyOf[c])
    BY <1>1 DEF ReadHost, OpenBegin
  <2>2. sinks[KeyOf[c]] # c
    BY <2>1 DEF HostBasis
  <2>3. \A k \in Keys : k # KeyOf[c] /\ IdOf[k] = IdOf[KeyOf[c]] => sinks[k] = NoConn
    BY <2>1 DEF ConflictingPaneId
  <2> QED BY <2>1, <2>2, <2>3 DEF Rival
<1>2. CASE ~ReadHost(c) /\ Calm(c)
  <2>1. task'[c] = "opening" => task[c] = "opening"
    BY <1>0, <1>2, TaskMeets
  <2>2. sinks'[KeyOf[c]] = c => sinks[KeyOf[c]] = c \/ task[c] = "opening"
    BY <1>0, SinksMove DEF ConnsTyped
  <2>3. \A k \in Keys : k # KeyOf[c] => sinks'[k] \in {sinks[k], NoConn}
    BY <1>0, SinksMove
  <2>4. task[c] = "opening" => \A d \in Conns : SameId(c, d) => task[d] # "opening"
    BY <1>2 DEF MetInv, Solo, Busy
  <2>5. \A d \in Conns : SameId(c, d) => task'[d] = task[d]
    BY DEF SameId
  <2> QED BY <1>2, <2>1, <2>2, <2>3, <2>4, <2>5 DEF Rival, SameId
<1>3. CASE ~Calm(c)
  BY <1>3 DEF Rival
<1> QED BY <1>1, <1>2, <1>3

LEMMA RivalOtherStep ==
  ASSUME HostBasis, MetInv, NEW c \in Conns, Rival(c), NEW x \in Conns, x # c, TaskStep(x) \/ FrontStep(x),
         \A d \in Conns \ {x} : task'[d] = task[d], Calm(c)' => Calm(c)
  PROVE  Rival(c)'
<1>0. ConnsTyped /\ KeyOf[c] \in Keys /\ KeyOf[x] \in Keys /\ c # NoConn
  BY HostAssumption DEF HostBasis, ConnsTyped
<1> SUFFICES ASSUME Calm(c) PROVE Rival(c)'
  BY DEF Rival
<1>1. task'[c] = task[c] /\ (sinks'[KeyOf[c]] = c => sinks[KeyOf[c]] = c)
  BY <1>0, SinksMove
<1>2. ASSUME NEW k \in Keys, sinks'[k] # NoConn, k # KeyOf[c], IdOf[k] = IdOf[KeyOf[c]],
             task[c] = "opening" \/ sinks[KeyOf[c]] = c
      PROVE  FALSE
  <2>1. sinks[k] = NoConn
    BY <1>2 DEF Rival
  <2>2. task[x] = "opening" /\ k = KeyOf[x]
    BY <1>0, <1>2, <2>1, SinksMove
  <2>3. SameId(c, x) /\ KeyOf[x] # KeyOf[c]
    BY <1>2, <2>2 DEF SameId
  <2> QED BY <1>2, <2>2, <2>3 DEF Rival, MetInv, Solo, Busy
<1>3. ASSUME sinks[KeyOf[c]] = c, NEW d \in Conns, SameId(c, d), KeyOf[d] # KeyOf[c], task'[d] = "opening"
      PROVE  FALSE
  <2>1. task[d] # "opening"
    BY <1>3 DEF Rival
  <2>2. d = x /\ ReadHost(x)
    BY <1>0, <1>3, <2>1, TaskMeets
  <2>3. ConflictingPaneId(KeyOf[x])
    BY <1>0, <1>3, <2>2 DEF ConflictingPaneId, SameId
  <2> QED BY <2>2, <2>3 DEF ReadHost
<1> QED BY <1>1, <1>2, <1>3 DEF Rival, SameId

LEMMA RivalStep ==
  Basis /\ TasksInv /\ MetInv /\ HostBasis /\ RivalInv /\ [Next]_vars => RivalInv'
<1> SUFFICES ASSUME Basis, TasksInv, MetInv, HostBasis, RivalInv, [Next]_vars, NEW c \in Conns
             PROVE  Rival(c)'
  BY DEF RivalInv
<1>0. ConnsTyped /\ Rival(c) /\ (Calm(c)' => Calm(c))
  BY MetStep DEF HostBasis, RivalInv
<1>1. ASSUME NEW x \in Conns, TaskStep(x) \/ FrontStep(x) PROVE Rival(c)'
  <2>1. \A d \in Conns \ {x} : task'[d] = task[d]
    BY <1>0, <1>1, StepsAside DEF Aside, TaskOf
  <2>2. CASE x = c BY <1>0, <1>1, <2>1, <2>2, RivalOwnStep
  <2>3. CASE x # c BY <1>0, <1>1, <2>1, <2>3, RivalOtherStep
  <2> QED BY <2>2, <2>3
<1>2. CASE EngineSide
  <2>1. UNCHANGED task /\ \A d \in Conns : sinks'[KeyOf[d]] \in {sinks[KeyOf[d]], NoConn}
    BY <1>0, <1>2, EngineSideAside, RoutesOnlyGo
  <2>2. \A k \in Keys : sinks'[k] \in {sinks[k], NoConn}
    BY <1>0, <1>2, SinksOnlyGo
  <2> QED BY <1>0, <2>1, <2>2, HostAssumption DEF Rival, SameId
<1> QED BY <1>1, <1>2 DEF Next, EngineSide

-----------------------------------------------------------------------------
(* The page of a routed pane.                                               *)

(* Whose attach stands somewhere has been sent to this engine.              *)
Sent(c) == \A i \in Nat : Holds(c, i) => call[c] = "opened" /\ handle[c] = stdin

(* No detach follows the attach of a calm connection that stays routed.     *)
Keeps(c) ==
  Calm(c) /\ Kept(c) => \A i \in Nat : Holds(c, i) => ~Undone(IdOf[KeyOf[c]], i)

(* Where an open() met nobody, a detach follows whatever else of its pane   *)
(* id still stands, and stands before its own attach.                       *)
Free(c) ==
  FoundFree(c) =>
    /\ task[c] = "opening" =>
         \A d \in Conns : SameId(c, d) =>
           \A i \in Nat : Holds(d, i) => Undone(IdOf[KeyOf[c]], i)
    /\ \A d \in Conns : SameId(c, d) =>
         \A i, m \in Nat : Holds(c, m) /\ Holds(d, i) /\ i < m => Between(IdOf[KeyOf[c]], i, m)

KeepInv == Up => \A c \in Conns : Sent(c) /\ Keeps(c) /\ Free(c)

\* A close() that tells the engine.
Detaches(x) ==
  /\ CloseCheck(x) /\ sinks[KeyOf[x]] # NoConn /\ UNCHANGED sinks
  /\ closing' = closing \cup {x}

(* What a step does to a queue that there is: no attach stands, or one is   *)
(* sent, or what stands is carried on, and undone only by a close().        *)
AttachSent(x) ==
  /\ Opens(x) /\ call[x] = "sending" /\ handle[x] = stdin /\ stdin \in Conns
  /\ call' = [call EXCEPT ![x] = "opened"]
  /\ lines' = [lines EXCEPT ![stdin] = Append(@, LineOf("attach", x))]
  /\ UNCHANGED <<sinks, handle, stdin, closing, pages>>

CarriedOn ==
  /\ (stdin \in Conns /\ HandleControlLine(stdin)) \/ \A o \in Conns : \A i \in Nat : Holds(o, i)' => Holds(o, i)
  /\ \A o \in Conns :
       /\ Carried(o) /\ \A d \in Conns : SameId(o, d) => PairCarried(o, d)
       /\ Back(o) \/ \E x \in Conns : Detaches(x) /\ IdOf[KeyOf[x]] = IdOf[KeyOf[o]]

QueueKinds ==
  \/ \A o \in Conns : \A i \in Nat : ~Holds(o, i)'
  \/ Up /\ \E x \in Conns : AttachSent(x)
  \/ Up /\ UNCHANGED stdin /\ CarriedOn

LEMMA StaysCarried ==
  ASSUME Queue' = Queue, pages' \subseteq pages
  PROVE  CarriedOn
<1>1. \A o \in Conns : \A i \in Nat : Holds(o, i)' => Holds(o, i)
  BY DEF Holds, AsksFor
<1> QED BY <1>1, QueueStays DEF CarriedOn

LEMMA QueueOpens ==
  ASSUME HostBasis, EngineSound, NEW x \in Conns, Opens(x), Up'
  PROVE  QueueKinds
<1>0. /\ ConnsTyped /\ UNCHANGED <<pages, closing>>
  BY OpenDoes DEF HostBasis, Opens, ConnsTyped
<1>1. CASE Starts(x)
  BY <1>1 DEF Starts, Up
<1>2. CASE Readies(x)
  <2>1. ~Up /\ proc[x] = "spawning"
    BY <1>0, <1>2 DEF Readies, HostBasis, Up
  <2>2. Queue' = <<>> /\ pages' = {}
    BY <1>0, <1>2, <2>1 DEF Readies, EngineSound, Queue
  <2> QED BY <2>2 DEF Holds, QueueKinds
<1>3. CASE Fails(x) \/ Proceeds(x) \/ Routes(x) \/ Unroutes(x)
  <2>1. UNCHANGED <<stdin, lines>>
    BY <1>3 DEF Fails, Proceeds, Routes, Unroutes
  <2>2. \A d \in Conns : proc'[d] = "running" => proc[d] = "running"
    BY <1>0, <1>3 DEF Fails, Proceeds, Routes, Unroutes, ConnsTyped
  <2>3. Up /\ Queue' = Queue
    BY <1>0, <2>1, <2>2 DEF Up, Queue, ConnsTyped
  <2> QED BY <1>0, <2>1, <2>3, StaysCarried DEF QueueKinds
<1>4. CASE Attaches(x)
  <2>1. UNCHANGED <<sinks, handle, stdin, proc>> /\ call[x] = "sending" /\ handle[x] \in Conns
    BY <1>4 DEF Attaches, HostBasis
  <2>2. Up
    BY <2>1 DEF Up
  <2>3. CASE handle[x] # stdin
    <3>1. Queue' = Queue
      BY <1>0, <1>4, <2>1, <2>3 DEF Attaches, Queue, ConnsTyped
    <3> QED BY <1>0, <2>1, <2>2, <3>1, StaysCarried DEF QueueKinds
  <2>4. CASE handle[x] = stdin
    BY <1>0, <1>4, <2>1, <2>2, <2>4 DEF Attaches, AttachSent, QueueKinds
  <2> QED BY <2>3, <2>4
<1> QED BY <1>0, <1>1, <1>2, <1>3, <1>4, OpenDoes DEF Opens

LEMMA QueueCalls ==
  ASSUME HostBasis, NEW x \in Conns, Closes(x) \/ Controls(x), Up'
  PROVE  QueueKinds
<1>0. ConnsTyped /\ UNCHANGED <<stdin, proc, pages>> /\ KeyOf[x] \in Keys
  BY DEF HostBasis, Closes, Controls, CloseCheck, CloseRemove, ForwardControl, ConnsTyped
<1>1. Up /\ stdin \in Conns
  BY <1>0 DEF Up, ConnsTyped
<1>2. CASE UNCHANGED lines
  BY <1>0, <1>1, <1>2, StaysCarried DEF QueueKinds, Queue
<1>3. ASSUME NEW op \in {"control", "detach"}, op = "detach" => Detaches(x),
             lines' = [lines EXCEPT ![stdin] = Append(@, LineOf(op, x))]
      PROVE  QueueKinds
  <2>1. /\ \A o \in Conns : \A i \in Nat : Holds(o, i)' => Holds(o, i)
        /\ \A n : \A i \in Nat : Undone(n, i) => Undone(n, i)'
        /\ \A n : \A i \in Nat : op # "detach" \/ n # IdOf[KeyOf[x]] => (Undone(n, i)' => Undone(n, i))
        /\ \A n : \A i, m \in Nat : Between(n, i, m) => Between(n, i, m)'
    BY <1>0, <1>1, <1>3, QueueGrows
  <2>2. \A o \in Conns : Carried(o) /\ \A d \in Conns : PairCarried(o, d)
    BY <2>1 DEF Carried, PairCarried
  <2>3. \A o \in Conns : op # "detach" \/ IdOf[KeyOf[o]] # IdOf[KeyOf[x]] => Back(o)
    BY <2>1 DEF Back
  <2> QED BY <1>0, <1>1, <1>3, <2>1, <2>2, <2>3 DEF QueueKinds, CarriedOn
<1>4. \/ UNCHANGED lines
      \/ lines' = [lines EXCEPT ![stdin] = Append(@, LineOf("control", x))]
      \/ Detaches(x) /\ lines' = [lines EXCEPT ![stdin] = Append(@, LineOf("detach", x))]
  BY <1>1 DEF Closes, Controls, CloseCheck, CloseRemove, ForwardControl, Forwards, Detaches
<1> QED BY <1>2, <1>3, <1>4

LEMMA QueueStep ==
  ASSUME HostBasis, EngineSound, [Next]_vars, Up'
  PROVE  QueueKinds
<1>0. ConnsTyped
  BY DEF HostBasis
<1>1. ASSUME NEW e \in Conns, HandleControlLine(e) PROVE QueueKinds
  <2>1. e = stdin /\ Up
    BY <1>1 DEF HandleControlLine, EngineTakesLine, HostBasis, Up
  <2> QED BY <1>0, <1>1, <2>1, QueueTaken DEF QueueKinds, CarriedOn, SameId
<1>2. ASSUME NEW e \in Conns, LastTabCloses(e) PROVE QueueKinds
  <2>1. UNCHANGED <<stdin, proc, lines>> /\ pages' \subseteq pages
    BY <1>2 DEF LastTabCloses, hostVars
  <2> QED BY <2>1, StaysCarried DEF QueueKinds, Up, Queue
<1>3. ASSUME NEW e \in Conns, Ends(e) PROVE QueueKinds
  <2>1. CASE EngineGone(e)
    <3>1. UNCHANGED stdin /\ proc[e] = "running" /\ proc' = [proc EXCEPT ![e] = "exited"]
      BY <2>1 DEF EngineGone, EngineExits
    <3>2. stdin = e /\ proc'[e] = "exited"
      BY <1>0, <3>1 DEF HostBasis, ConnsTyped
    <3> QED BY <3>1, <3>2 DEF Up
  <2>2. CASE PumpBreaks(e) /\ UNCHANGED pages
    <3>1. UNCHANGED <<stdin, proc>> /\ proc[e] # "running" /\ lines' = [lines EXCEPT ![e] = <<>>]
      BY <2>2 DEF PumpBreaks
    <3>2. Up /\ stdin \in Conns /\ stdin # e
      BY <1>0, <3>1 DEF Up, ConnsTyped
    <3>3. Queue' = Queue
      BY <1>0, <3>1, <3>2 DEF Queue, ConnsTyped
    <3> QED BY <2>2, <3>1, <3>2, <3>3, StaysCarried DEF QueueKinds
  <2>3. CASE WatchExit(e)
    BY <2>3 DEF WatchExit, Up
  <2> QED BY <1>3, <2>1, <2>2, <2>3 DEF Ends
<1>4. CASE Still
  <2>1. UNCHANGED <<stdin, proc, lines, pages>>
    BY <1>4 DEF Still, tables
  <2> QED BY <2>1, StaysCarried DEF QueueKinds, Up, Queue
<1> QED BY <1>1, <1>2, <1>3, <1>4, StepKinds, QueueOpens, QueueCalls

(* Who may take a place in the table, or leave one section of close() for   *)
(* the next.                                                                *)
LEMMA CallMoves ==
  ASSUME HostBasis, [Next]_vars, NEW c \in Conns
  PROVE  /\ call[c] = "opened" => call'[c] = "opened" /\ handle'[c] = handle[c]
         /\ sinks'[KeyOf[c]] = c => sinks[KeyOf[c]] = c \/ call[c] = "registering"
         /\ \A d \in closing : d \notin closing' => sinks'[KeyOf[d]] = NoConn
<1>0. ConnsTyped /\ KeyOf[c] \in Keys /\ c # NoConn /\ closing \subseteq Conns
  BY HostAssumption DEF HostBasis, ConnsTyped
<1> DEFINE Goal == /\ call[c] = "opened" => call'[c] = "opened" /\ handle'[c] = handle[c]
                   /\ sinks'[KeyOf[c]] = c => sinks[KeyOf[c]] = c \/ call[c] = "registering"
                   /\ \A d \in closing : d \notin closing' => sinks'[KeyOf[d]] = NoConn
<1>s. ASSUME call'[c] = call[c] \/ call[c] # "opened", handle'[c] = handle[c] \/ call[c] # "opened",
             sinks'[KeyOf[c]] \in {sinks[KeyOf[c]], NoConn} \/ call[c] = "registering" \/ sinks'[KeyOf[c]] # c,
             UNCHANGED closing
      PROVE  Goal
  BY <1>0, <1>s
<1>1. ASSUME NEW x \in Conns, Opens(x) PROVE Goal
  <2>1. UNCHANGED closing
    BY <1>0, <1>1, OpenDoes DEF Opens
  <2>2. CASE Starts(x)   BY <1>0, <1>s, <2>1, <2>2 DEF Starts, ConnsTyped
  <2>3. CASE Readies(x)  BY <1>0, <1>s, <2>1, <2>3 DEF Readies, ConnsTyped
  <2>4. CASE Fails(x)    BY <1>0, <1>s, <2>1, <2>4 DEF Fails, ConnsTyped
  <2>5. CASE Proceeds(x) BY <1>0, <1>s, <2>1, <2>5 DEF Proceeds, ConnsTyped
  <2>6. CASE Routes(x)   BY <1>0, <1>s, <2>1, <2>6 DEF Routes, ConnsTyped
  <2>7. CASE Attaches(x) BY <1>0, <1>s, <2>1, <2>7 DEF Attaches, ConnsTyped
  <2>8. CASE Unroutes(x) BY <1>0, <1>s, <2>1, <2>8 DEF Unroutes, ConnsTyped
  <2> QED BY <1>0, <1>1, <2>2, <2>3, <2>4, <2>5, <2>6, <2>7, <2>8, OpenDoes DEF Opens
<1>2. ASSUME NEW x \in Conns, Closes(x) \/ Controls(x) PROVE Goal
  <2>1. UNCHANGED <<call, handle>>
    BY <1>2 DEF Closes, Controls, CloseCheck, CloseRemove, ForwardControl
  <2>2. CASE Closes(x) /\ CloseCheck(x) BY <1>0, <2>1, <2>2 DEF CloseCheck
  <2>3. CASE Controls(x) BY <1>0, <2>1, <2>3 DEF Controls, ForwardControl
  <2>4. CASE CloseRemove(x)
    <3>1. closing' = closing \ {x} /\ sinks' = [sinks EXCEPT ![KeyOf[x]] = NoConn]
      BY <2>4 DEF CloseRemove
    <3>2. sinks'[KeyOf[c]] \in {sinks[KeyOf[c]], NoConn} /\ sinks'[KeyOf[x]] = NoConn
      BY <1>0, <3>1 DEF ConnsTyped
    <3> QED BY <1>0, <2>1, <3>1, <3>2
  <2> QED BY <1>2, <2>2, <2>3, <2>4 DEF Closes
<1>3. ASSUME NEW e \in Conns, HandleControlLine(e) \/ LastTabCloses(e) \/ Ends(e) PROVE Goal
  <2>1. UNCHANGED <<call, handle, closing>> /\ sinks' \in {sinks, Drained}
    BY <1>3 DEF HandleControlLine, EngineTakesLine, LastTabCloses, hostVars, Ends, EngineGone, EngineExits,
                PumpBreaks, WatchExit
  <2> QED BY <1>0, <1>s, <2>1 DEF Drained
<1>4. CASE Still
  BY <1>0, <1>s, <1>4 DEF Still, tables, ConnsTyped
<1> QED BY <1>1, <1>2, <1>3, <1>4, StepKinds

(* What a connection's open() has met is settled when it begins, or grows   *)
(* worse.                                                                   *)
LEMMA MeetsOnce ==
  ASSUME ConnsTyped, TasksInv, [Next]_vars, NEW c \in Conns
  PROVE  \/ ReadHost(c)
         \/ (task'[c] = "opening" => task[c] = "opening") /\ met'[c] \in {met[c], "task"}
<1>1. ASSUME NEW x \in Conns, TaskStep(x) \/ FrontStep(x), x # c
      PROVE  task'[c] = task[c] /\ met'[c] \in {met[c], "task"}
  BY <1>1, StepsAside, TaskMeets DEF Aside, TaskOf
<1>2. CASE TaskStep(c) \/ FrontStep(c)
  BY <1>2, TaskMeets
<1>3. CASE EngineSide
  BY <1>3, EngineSideAside
<1> QED BY <1>1, <1>2, <1>3 DEF Next, EngineSide

LEMMA FoundBefore ==
  ASSUME ConnsTyped, TasksInv, [Next]_vars, NEW c \in Conns, ~ReadHost(c), FoundFree(c)',
         \A d \in Conns : Calm(d)' => Calm(d)
  PROVE  FoundFree(c) /\ (task'[c] = "opening" => task[c] = "opening")
BY MeetsOnce DEF FoundFree, Calm, SameId

LEMMA SentStep ==
  ASSUME HostBasis, EngineSound, KeepInv, [Next]_vars, Up', NEW c \in Conns
  PROVE  Sent(c)'
<1>0. ConnsTyped /\ (call[c] = "opened" => call'[c] = "opened" /\ handle'[c] = handle[c])
  BY CallMoves DEF HostBasis
<1>1. CASE \A i \in Nat : ~Holds(c, i)'
  BY <1>1 DEF Sent
<1>2. ASSUME Up, NEW x \in Conns, AttachSent(x) PROVE Sent(c)'
  <2>1. \A i \in Nat : Holds(c, i)' => Holds(c, i) \/ x = c
    BY <1>0, <1>2, QueueGrows DEF AttachSent
  <2>2. x = c => call'[c] = "opened" /\ handle'[c] = stdin
    BY <1>0, <1>2 DEF AttachSent, ConnsTyped
  <2> QED BY <1>0, <1>2, <2>1, <2>2 DEF KeepInv, Sent, AttachSent
<1>3. ASSUME Up, UNCHANGED stdin, CarriedOn PROVE Sent(c)'
  BY <1>0, <1>3 DEF KeepInv, Sent, CarriedOn, Carried
<1> QED BY <1>1, <1>2, <1>3, QueueStep DEF QueueKinds

LEMMA KeepsStep ==
  ASSUME HostBasis, EngineSound, RivalInv, KeepInv, [Next]_vars, Up', NEW c \in Conns, Calm(c)' => Calm(c)
  PROVE  Keeps(c)'
<1>0. ConnsTyped /\ KeyOf[c] \in Keys /\ c # NoConn
  BY HostAssumption DEF HostBasis, ConnsTyped
<1> SUFFICES ASSUME Calm(c)', Kept(c)', NEW i \in Nat, Holds(c, i)', Undone(IdOf[KeyOf[c]], i)'
             PROVE  FALSE
  BY DEF Keeps
<1>m. /\ sinks[KeyOf[c]] = c \/ call[c] = "registering"
      /\ \A d \in closing : KeyOf[d] # KeyOf[c]
  BY <1>0, CallMoves DEF Kept
<1>1. ASSUME Up, NEW x \in Conns, AttachSent(x) PROVE FALSE
  <2>1. /\ \A o \in Conns : \A j \in Nat : Holds(o, j)' => Holds(o, j) \/ (j = Len(Queue) + 1 /\ x = o)
        /\ \A n : \A j \in Nat : Undone(n, j)' => Undone(n, j)
        /\ \A n : \A j \in Nat : j = Len(Queue) + 1 => ~Undone(n, j)
    BY <1>0, <1>1, QueueGrows DEF AttachSent
  <2>2. Holds(c, i) /\ Undone(IdOf[KeyOf[c]], i)
    BY <2>1
  <2>3. sinks[KeyOf[c]] = c
    BY <1>1, <1>m, <2>2 DEF KeepInv, Sent
  <2> QED BY <1>1, <1>m, <2>2, <2>3 DEF KeepInv, Keeps, Kept
<1>2. ASSUME Up, UNCHANGED stdin, CarriedOn PROVE FALSE
  <2>1. PICK m \in Nat : Holds(c, m)
    BY <1>2 DEF CarriedOn, Carried
  <2>2. Kept(c) /\ Calm(c)
    BY <1>2, <1>m, <2>1 DEF KeepInv, Sent, Kept
  <2>3. CASE Back(c)
    BY <1>2, <2>2, <2>3 DEF Back, KeepInv, Keeps
  <2>4. ASSUME NEW x \in Conns, Detaches(x), IdOf[KeyOf[x]] = IdOf[KeyOf[c]] PROVE FALSE
    <3>1. KeyOf[x] # KeyOf[c]
      BY <2>4 DEF Detaches, Kept
    <3>2. sinks[KeyOf[x]] = NoConn
      BY <1>0, <2>2, <2>4, <3>1 DEF RivalInv, Rival, Kept, ConnsTyped
    <3> QED BY <2>4, <3>2 DEF Detaches
  <2> QED BY <1>2, <2>3, <2>4 DEF CarriedOn
<1> QED BY <1>1, <1>2, QueueStep DEF QueueKinds

(* A request to be hosted that meets nobody: whoever of its pane id still   *)
(* stands is no longer routed, so its detach is on its way.                 *)
LEMMA FreeBegins ==
  ASSUME HostBasis, EngineSound, ServedInv, KeepInv, Up', NEW c \in Conns, ReadHost(c),
         \A d \in Conns : Calm(d)' => Calm(d)
  PROVE  Free(c)'
<1> SUFFICES ASSUME FoundFree(c)' PROVE Free(c)'
  BY DEF Free
<1>0. ConnsTyped /\ UNCHANGED <<stdin, proc, lines, pages, sinks>> /\ call[c] = "none"
  BY DEF HostBasis, ReadHost, OpenBegin
<1>1. Up /\ Queue' = Queue
  BY <1>0 DEF Up, Queue
<1>2. \A d \in Conns : \A i \in Nat : Holds(d, i)' => Holds(d, i)
  BY <1>0, <1>1 DEF Holds, AsksFor
<1>3. \A n : \A i \in Nat : Undone(n, i) => Undone(n, i)'
  BY <1>1 DEF Undone
<1>4. \A k \in Keys : IdOf[k] = IdOf[KeyOf[c]] => sinks[k] = NoConn
  <2>1. DOMAIN OpensMeet(c) = Conns
    BY DEF OpensMeet
  <2>2. met'[c] = IF \E e \in Conns : SameId(c, e) /\ Busy(e) THEN "task"
                  ELSE IF \E k \in Keys : sinks[k] # NoConn /\ IdOf[k] = IdOf[KeyOf[c]]
                       THEN "route" ELSE "nobody"
    BY <2>1 DEF ReadHost, OpenMeets
  <2> QED BY <2>2 DEF FoundFree
<1>5. ASSUME NEW d \in Conns, SameId(c, d), NEW i \in Nat, Holds(d, i)'
      PROVE  Undone(IdOf[KeyOf[c]], i)'
  <2>1. Calm(d)
    BY <1>5 DEF FoundFree, Calm, SameId
  <2>2. sinks[KeyOf[d]] = NoConn
    BY <1>0, <1>4, <1>5 DEF SameId, ConnsTyped
  <2>3. Undone(IdOf[KeyOf[d]], i)
    BY <1>1, <1>2, <1>5, <2>1, <2>2 DEF ServedInv, Served
  <2> QED BY <1>3, <1>5, <2>3 DEF SameId
<1>6. \A i \in Nat : ~Holds(c, i)'
  BY <1>0, <1>1, <1>2 DEF KeepInv, Sent
<1> QED BY <1>5, <1>6 DEF Free, SameId

LEMMA FreeStep ==
  ASSUME HostBasis, MetInv, TasksInv, EngineSound, ServedInv, KeepInv, [Next]_vars, Up', NEW c \in Conns,
         \A d \in Conns : Calm(d)' => Calm(d)
  PROVE  Free(c)'
<1>0. ConnsTyped
  BY DEF HostBasis
<1>1. CASE ReadHost(c)
  BY <1>1, FreeBegins
<1>2. CASE \A o \in Conns : \A i \in Nat : ~Holds(o, i)'
  BY <1>2 DEF Free
<1> SUFFICES ASSUME ~ReadHost(c), FoundFree(c)', FoundFree(c), task'[c] = "opening" => task[c] = "opening"
             PROVE  Free(c)'
  BY <1>0, <1>1, FoundBefore DEF Free
<1> DEFINE id == IdOf[KeyOf[c]]
<1>3. ASSUME Up, NEW x \in Conns, AttachSent(x) PROVE Free(c)'
  <2>1. /\ \A o \in Conns : \A j \in Nat : Holds(o, j)' => Holds(o, j) \/ (j = Len(Queue) + 1 /\ x = o)
        /\ \A n : \A j \in Nat : Undone(n, j) => Undone(n, j)'
        /\ \A n : \A i, m \in Nat : Between(n, i, m) => Between(n, i, m)'
        /\ \A n : \A i, m \in Nat : m = Len(Queue) + 1 /\ Undone(n, i) => Between(n, i, m)'
        /\ \A o \in Conns : \A j \in Nat : Holds(o, j) => j <= Len(Queue)
    BY <1>0, <1>3, QueueGrows DEF AttachSent
  <2>2. task[x] = "opening" /\ Free(c) /\ (\A d \in Conns : Sent(d)) /\ Len(Queue) \in Nat
    BY <1>0, <1>3, LenProperties DEF AttachSent, Opens, KeepInv, Queue, ConnsTyped
  <2>3. ASSUME task'[c] = "opening", NEW d \in Conns, SameId(c, d), NEW i \in Nat, Holds(d, i)'
        PROVE  Undone(id, i)'
    <3>1. Calm(c) /\ task[c] = "opening"
      BY <2>3 DEF FoundFree, Calm
    <3>2. d # x
      BY <2>2, <2>3, <3>1 DEF MetInv, Solo, Busy
    <3> QED BY <2>1, <2>2, <2>3, <3>1, <3>2 DEF Free
  <2>4. ASSUME NEW d \in Conns, SameId(c, d), NEW i \in Nat, NEW m \in Nat,
               Holds(c, m)', Holds(d, i)', i < m
        PROVE  Between(id, i, m)'
    <3>1. Holds(d, i)
      BY <2>1, <2>2, <2>4
    <3>2. CASE Holds(c, m)
      BY <2>1, <2>2, <2>4, <3>1, <3>2 DEF Free
    <3>3. CASE m = Len(Queue) + 1 /\ x = c
      BY <2>1, <2>2, <2>4, <3>1, <3>3 DEF Free
    <3> QED BY <2>1, <2>4, <3>2, <3>3
  <2> QED BY <2>3, <2>4 DEF Free, SameId
<1>4. ASSUME Up, UNCHANGED stdin, CarriedOn PROVE Free(c)'
  <2>1. Free(c)
    BY <1>4 DEF KeepInv
  <2>2. \A d \in Conns : SameId(c, d) => IdOf[KeyOf[d]] = id
    BY DEF SameId
  <2>3. ASSUME task'[c] = "opening", NEW d \in Conns, SameId(c, d), NEW i \in Nat, Holds(d, i)'
        PROVE  Undone(id, i)'
    <3>1. PICK m \in Nat : Holds(d, m) /\ (Undone(id, m) => Undone(id, i)')
      BY <1>4, <2>2, <2>3 DEF CarriedOn, Carried
    <3> QED BY <2>1, <2>3, <3>1 DEF Free
  <2>4. ASSUME NEW d \in Conns, SameId(c, d), NEW i \in Nat, NEW m \in Nat,
               Holds(c, m)', Holds(d, i)', i < m
        PROVE  Between(id, i, m)'
    <3>1. PairCarried(c, d)
      BY <1>4, <2>4 DEF CarriedOn
    <3>2. \E p, q \in Nat : /\ Holds(c, p) /\ Holds(d, q) /\ q < p
                            /\ Between(id, q, p) => Between(id, i, m)'
      BY <2>4, <3>1 DEF PairCarried
    <3>3. \A p, q \in Nat : Holds(c, p) /\ Holds(d, q) /\ q < p => Between(id, q, p)
      BY <2>1, <2>4 DEF Free
    <3>4. PICK p \in Nat, q \in Nat : /\ Holds(c, p) /\ Holds(d, q) /\ q < p
                                      /\ Between(id, q, p) => Between(id, i, m)'
      BY <3>2
    <3>5. Between(id, q, p)
      BY <3>3, <3>4
    <3> QED BY <3>4, <3>5
  <2> QED BY <2>3, <2>4 DEF Free, SameId
<1> QED BY <1>2, <1>3, <1>4, QueueStep DEF QueueKinds

LEMMA KeepPath == Spec => [](HostBasis /\ EngineSound /\ RivalInv /\ KeepInv)
<1>1. Init => RivalInv /\ KeepInv
  BY HostAssumption DEF Init, HostInit, RivalInv, Rival, KeepInv, Up
<1>2. /\ Basis /\ TasksInv /\ MetInv /\ HostBasis /\ EngineSound /\ ServedInv /\ RivalInv /\ KeepInv
      /\ [Next]_vars
      => RivalInv' /\ KeepInv'
  BY MetStep, RivalStep, SentStep, KeepsStep, FreeStep DEF KeepInv
<1> QED BY <1>1, <1>2, ServedPath, PTL DEF Spec

(* Whoever takes a line off the queue is the engine.                        *)
LEMMA TakerIs ==
  ASSUME HostBasis, EngineSound, [Next]_vars, Up, lines[stdin] # <<>>, lines'[stdin] = Tail(lines[stdin])
  PROVE  stdin \in Conns /\ HandleControlLine(stdin)
<1>0. ConnsTyped /\ stdin \in Conns
  BY DEF HostBasis, ConnsTyped, Up
<1>h. PICK h \in Conns : h = stdin
  BY <1>0
<1>l. lines[h] \in Seq(Line) /\ lines[h] # <<>> /\ lines'[h] = Tail(lines[h])
  BY <1>0, <1>h DEF ConnsTyped
<1>n. Len(lines[h]) \in Nat /\ Len(lines'[h]) = Len(lines[h]) - 1
  BY <1>l, HeadTailProperties, EmptySeq
<1>1. lines'[h] # lines[h]
  BY <1>n
<1>2. ASSUME NEW p \in Conns, NEW c \in Conns, NEW op \in {"attach", "detach", "control"},
             lines' = [lines EXCEPT ![p] = Append(@, LineOf(op, c))]
      PROVE  FALSE
  <2>1. CASE p = h
    <3>1. Len(lines'[h]) = Len(lines[h]) + 1
      BY <1>0, <1>2, <2>1, LinesGrow
    <3> QED BY <1>n, <3>1
  <2>2. CASE p # h
    BY <1>0, <1>1, <1>2, <2>2 DEF ConnsTyped
  <2> QED BY <2>1, <2>2
<1>3. ~(UNCHANGED lines)
  BY <1>1
<1>4. ASSUME NEW x \in Conns, Opens(x) PROVE FALSE
  <2>1. CASE Attaches(x)
    <3>1. PICK p \in Conns : p = handle[x]
      BY <2>1 DEF Attaches, HostBasis
    <3> QED BY <1>2, <2>1, <3>1 DEF Attaches
  <2>2. CASE Starts(x) \/ Readies(x) \/ Fails(x) \/ Proceeds(x) \/ Routes(x) \/ Unroutes(x)
    BY <1>3, <2>2 DEF Starts, Readies, Fails, Proceeds, Routes, Unroutes
  <2> QED BY <1>0, <1>4, <2>1, <2>2, OpenDoes DEF Opens
<1>5. ASSUME NEW x \in Conns, Closes(x) \/ Controls(x) PROVE FALSE
  <2>1. UNCHANGED lines \/ \E op \in {"detach", "control"} :
           lines' = [lines EXCEPT ![h] = Append(@, LineOf(op, x))]
    BY <1>5, <1>h DEF Closes, Controls, CloseCheck, CloseRemove, ForwardControl, Forwards
  <2> QED BY <1>2, <1>3, <2>1
<1>6. ASSUME NEW e \in Conns, HandleControlLine(e) PROVE e = stdin
  BY <1>6 DEF HandleControlLine, EngineTakesLine, HostBasis
<1>7. ASSUME NEW e \in Conns, LastTabCloses(e) PROVE FALSE
  BY <1>3, <1>7 DEF LastTabCloses, hostVars
<1>8. ASSUME NEW e \in Conns, Ends(e) PROVE FALSE
  <2>1. CASE PumpBreaks(e)
    <3>1. e # h /\ lines' = [lines EXCEPT ![e] = <<>>]
      BY <1>h, <2>1 DEF PumpBreaks, Up
    <3> QED BY <1>0, <1>1, <3>1 DEF ConnsTyped
  <2>2. CASE EngineGone(e) \/ WatchExit(e)
    BY <1>3, <2>2 DEF EngineGone, EngineExits, WatchExit
  <2> QED BY <1>8, <2>1, <2>2 DEF Ends
<1> QED BY <1>0, <1>3, <1>4, <1>5, <1>6, <1>7, <1>8, StepKinds DEF Still, tables

(* While a pane stays routed to its connection the engine closes its page   *)
(* for no line of anyone's -- not for a predecessor's detach, which may     *)
(* still be on its way -- and where the daemon routes nobody under the pane *)
(* id when the request to be hosted is read, its attach is not refused.     *)
THEOREM RoutedKeepsPage == Spec => HostedHasItsPage
<1>1. HostBasis /\ EngineSound /\ RivalInv /\ KeepInv /\ [Next]_vars =>
        [\A c \in Conns : LET page == [key |-> KeyOf[c], owner |-> c] IN
           /\ stdin # NoConn /\ proc[stdin] = "running"
           /\ lines[stdin] # <<>> /\ lines'[stdin] = Tail(lines[stdin])
           /\ Kept(c)
           /\ \/ page \in pages /\ met[c] # "task"
              \/ AsksFor(Head(lines[stdin]), c) /\ FoundFree(c)
           => page \in pages']_vars
  <2> SUFFICES ASSUME HostBasis, EngineSound, RivalInv, KeepInv, [Next]_vars, NEW c \in Conns, Up,
                      lines[stdin] # <<>>, lines'[stdin] = Tail(lines[stdin]), Kept(c),
                      \/ [key |-> KeyOf[c], owner |-> c] \in pages /\ met[c] # "task"
                      \/ AsksFor(Head(lines[stdin]), c) /\ FoundFree(c)
               PROVE  [key |-> KeyOf[c], owner |-> c] \in pages'
    BY DEF Up
  <2> DEFINE page == [key |-> KeyOf[c], owner |-> c]
             l == Queue[1]
  <2>0. ConnsTyped /\ stdin \in Conns /\ HandleControlLine(stdin)
    BY TakerIs DEF HostBasis
  <2>1. /\ Len(Queue) \in Nat \ {0} /\ Own(l)
        /\ pages' = CASE l.op = "attach" -> AfterAttach(l)
                      [] l.op = "detach" -> AfterDetach(l)
                      [] OTHER -> pages
    BY <2>0, LineTaken
  <2>2. Head(lines[stdin]) = l
    BY <2>0, <2>1 DEF Queue, ConnsTyped
  <2>3. Sent(c) /\ Keeps(c) /\ Free(c)
    BY DEF KeepInv
  <2>4. CASE page \in pages /\ met[c] # "task"
    <3>1. Holds(c, 0) /\ Calm(c)
      BY <2>4 DEF Holds, Calm
    <3>2. ~Undone(IdOf[KeyOf[c]], 0)
      BY <2>3, <3>1 DEF Keeps
    <3>3. ~(l.op = "detach" /\ l.id = IdOf[KeyOf[c]])
      BY <2>1, <3>2 DEF Undone
    <3> QED BY <2>1, <2>4, <3>3 DEF AfterAttach, AfterDetach
  <2>5. CASE AsksFor(l, c) /\ FoundFree(c)
    <3>1. Holds(c, 1) /\ l.op = "attach" /\ l.from = c /\ l.key = KeyOf[c] /\ l.id = IdOf[KeyOf[c]]
      BY <2>1, <2>5 DEF Holds, AsksFor, Own
    <3>2. ASSUME NEW p \in pages, IdOf[p.key] = l.id PROVE p = page
      <4>1. p.key = KeyOf[p.owner] /\ p.owner \in Conns /\ p = [key |-> p.key, owner |-> p.owner]
        BY <2>0, <3>2 DEF EngineSound, ConnsTyped, Page
      <4>2. Holds(p.owner, 0)
        BY <3>2, <4>1 DEF Holds
      <4>3. p.owner # c => Between(IdOf[KeyOf[c]], 0, 1)
        BY <2>3, <2>5, <3>1, <3>2, <4>1, <4>2 DEF Free, SameId
      <4>4. ~Between(IdOf[KeyOf[c]], 0, 1)
        BY DEF Between
      <4> QED BY <4>1, <4>3, <4>4
    <3> QED BY <2>1, <3>1, <3>2 DEF AfterAttach
  <2> QED BY <2>2, <2>4, <2>5
<1> QED BY <1>1, KeepPath, PTL DEF Spec, HostedHasItsPage
=============================================================================
