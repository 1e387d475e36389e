---------------------------- MODULE TwebdProofs ----------------------------
(* The composition implements its two components: what is proved of the     *)
(* registry and of the engine host holds of the whole shared-engine path.   *)
EXTENDS TwebdProperties, TLAPS

-----------------------------------------------------------------------------
(* The registry's invariants, for any set of panes and any number of        *)
(* registrations.                                                           *)

RegInv == RegTypeOK /\ GenerationsDistinct

(* The initial registry is empty.  *)
LEMMA RegInitEstablishes == RegInit => RegInv
BY RegistryAssumption
   DEF RegInit, RegInv, RegTypeOK, GenerationsDistinct, NoGeneration

(* Attach hands out a generation above every registered one; Detach only    *)
(* clears an entry.                                                         *)
LEMMA RegStepPreserves == RegInv /\ [RegNext]_regVars => RegInv'
<1> SUFFICES ASSUME RegInv, [RegNext]_regVars PROVE RegInv'
  OBVIOUS
<1> USE RegistryAssumption DEF RegInv, RegTypeOK, GenerationsDistinct, NoGeneration
<1>1. ASSUME NEW k \in Keys, Attach(k) PROVE RegInv'
  <2>1. panes' = [panes EXCEPT ![k] = nextGeneration + 1]
    BY <1>1 DEF Attach, NewGeneration
  <2>2. nextGeneration' = nextGeneration + 1 /\ nextGeneration' \in 0 .. MaxGeneration
    BY <1>1 DEF Attach, NewGeneration
  <2>3. RegTypeOK'
    BY <2>1, <2>2
  <2>4. \A j \in Keys : panes'[j] = IF j = k THEN nextGeneration + 1 ELSE panes[j]
    BY <2>1
  <2>5. GenerationsDistinct'
    BY <2>2, <2>4
  <2> QED BY <2>3, <2>5
<1>2. ASSUME NEW k \in Keys, NEW g \in 1 .. nextGeneration, Detach(k, g) PROVE RegInv'
  <2>1. \A j \in Keys : panes'[j] = IF j = k /\ IsCurrent(k, g) THEN 0 ELSE panes[j]
    BY <1>2 DEF Detach
  <2>2. panes' \in [Keys -> Nat] /\ nextGeneration' = nextGeneration
    BY <1>2 DEF Detach
  <2> QED BY <2>1, <2>2
<1>3. ASSUME UNCHANGED regVars PROVE RegInv'
  BY <1>3 DEF regVars
<1> QED BY <1>1, <1>2, <1>3 DEF RegNext

(* The type invariant and the uniqueness of generations hold of every       *)
(* registry (State.next_generation is shared by all panes and never reset). *)
THEOREM RegistryInvariant == RegSpec => [](RegTypeOK /\ GenerationsDistinct)
<1>1. RegInv => RegTypeOK /\ GenerationsDistinct
  BY DEF RegInv
<1> QED BY RegInitEstablishes, RegStepPreserves, <1>1, PTL DEF RegSpec

(* A step replaces a registration only by one younger than every generation *)
(* handed out before it (generation_is_current, should_reap).               *)
THEOREM RegistryOnlyForward == RegSpec => OnlyForward
<1> DEFINE Moves == \A k \in Keys :
              panes'[k] # panes[k] =>
                \/ panes'[k] = NoGeneration
                \/ panes'[k] > nextGeneration /\ panes'[k] = nextGeneration'
<1>1. RegInv /\ [RegNext]_regVars => [Moves]_regVars
  <2> SUFFICES ASSUME RegInv, RegNext PROVE Moves
    BY DEF regVars
  <2>1. ASSUME NEW j \in Keys, Attach(j) PROVE Moves
    BY <2>1 DEF Attach, NewGeneration, RegInv, RegTypeOK
  <2>2. ASSUME NEW j \in Keys, NEW g \in 1 .. nextGeneration, Detach(j, g) PROVE Moves
    BY <2>2 DEF Detach, RegInv, RegTypeOK
  <2> QED BY <2>1, <2>2 DEF RegNext
<1> QED BY <1>1, RegInitEstablishes, RegStepPreserves, PTL DEF RegSpec, OnlyForward

-----------------------------------------------------------------------------
(* The engine host keeps at most one engine alive, and routes nothing       *)
(* without one, for any connections, panes and crash budget.                *)

(* What TypeOK is needed for below.  The queues play no part.               *)
CoreType ==
  /\ state \in {"idle", "running", "stopped", "unavailable"}
  /\ stdin \in Conns \cup {NoConn}
  /\ sinks \in [Keys -> Conns \cup {NoConn}]
  /\ starting \in Conns \cup {NoConn}
  /\ recent \in Nat
  /\ proc \in [Conns -> ProcStates]
  /\ call \in [Conns -> CallStates]

(* A process is starting exactly while the open that started it waits, and  *)
(* that open holds the starting mutex with no engine installed.             *)
StartIsExclusive ==
  \A c \in Conns :
    /\ proc[c] = "spawning" <=> call[c] = "spawning"
    /\ call[c] = "spawning" => starting = c /\ stdin = NoConn

(* stdin names the process whose exit has not been collected yet.           *)
StdinIsInstalled == \A e \in Conns : proc[e] \in {"running", "exited"} <=> stdin = e

(* A route belongs to an open that registered it under its own key.         *)
RouteHasOpen ==
  \A k \in Keys : sinks[k] # NoConn =>
    KeyOf[sinks[k]] = k /\ call[sinks[k]] \in {"sending", "opened"}

HostInv ==
  /\ CoreType /\ StartIsExclusive /\ StdinIsInstalled
  /\ NoSinkWithoutEngine /\ RouteHasOpen

LEMMA HostInitEstablishes == HostInit => HostInv
BY HostAssumption
   DEF HostInit, HostInv, CoreType, StartIsExclusive, StdinIsInstalled,
       NoSinkWithoutEngine, RouteHasOpen, ProcStates, CallStates

(* An open's step up to the moment it holds an engine.                      *)
LEMMA OpenStepPreserves ==
  ASSUME HostInv, NEW c \in Conns, OpenStep(c) PROVE HostInv'
<1> USE HostAssumption
    DEF HostInv, CoreType, StartIsExclusive, StdinIsInstalled,
        NoSinkWithoutEngine, RouteHasOpen, ProcStates, CallStates
<1>1. CASE OpenBegin(c)       BY <1>1 DEF OpenBegin
<1>2. CASE OpenRefused(c)     BY <1>2 DEF OpenRefused, Enters, CannotHost
<1>3. CASE OpenFindsEngine(c) BY <1>3 DEF OpenFindsEngine, Enters
<1>4. CASE OpenStarts(c)      BY <1>4 DEF OpenStarts, Enters
<1>5. CASE SpawnReady(c)      BY <1>5 DEF SpawnReady
<1>6. CASE SpawnFails(c)      BY <1>6 DEF SpawnFails
<1>7. CASE Register(c)        BY <1>7 DEF Register
<1>8. CASE SendAttach(c)      BY <1>8 DEF SendAttach, Unrouted
<1> QED BY <1>1, <1>2, <1>3, <1>4, <1>5, <1>6, <1>7, <1>8 DEF OpenStep

LEMMA CallStepPreserves ==
  ASSUME HostInv, NEW c \in Conns, CallStep(c) PROVE HostInv'
<1> USE HostAssumption
    DEF HostInv, CoreType, StartIsExclusive, StdinIsInstalled,
        NoSinkWithoutEngine, RouteHasOpen, ProcStates, CallStates
<1>1. CASE ForwardControl(c) BY <1>1 DEF ForwardControl
<1>2. CASE CloseCheck(c)     BY <1>2 DEF CloseCheck
<1>3. CASE CloseRemove(c)    BY <1>3 DEF CloseRemove
<1>4. CASE TakeEvent(c)      BY <1>4 DEF TakeEvent
<1> QED BY <1>1, <1>2, <1>3, <1>4 DEF CallStep

LEMMA EngineStepPreserves ==
  ASSUME HostInv, NEW e \in Conns, EngineStep(e) PROVE HostInv'
<1> USE HostAssumption
    DEF HostInv, CoreType, StartIsExclusive, StdinIsInstalled,
        NoSinkWithoutEngine, RouteHasOpen, ProcStates, CallStates
<1>1. CASE EngineTakesLine(e) BY <1>1 DEF EngineTakesLine
<1>2. CASE Deliver(e)         BY <1>2 DEF Deliver
<1>3. CASE EngineExits(e)     BY <1>3 DEF EngineExits
<1>4. CASE PumpBreaks(e)      BY <1>4 DEF PumpBreaks
<1>5. CASE WatchExit(e)       BY <1>5 DEF WatchExit, Drained
<1>6. ASSUME NEW f \in Frame, EnginePaints(e, f) PROVE HostInv'
  BY <1>6 DEF EnginePaints
<1> QED BY <1>1, <1>2, <1>3, <1>4, <1>5, <1>6 DEF EngineStep

LEMMA HostStepPreserves == HostInv /\ [HostNext]_hostVars => HostInv'
<1> SUFFICES ASSUME HostInv, [HostNext]_hostVars PROVE HostInv'
  OBVIOUS
<1>1. CASE StartAgesOut
  BY <1>1, HostAssumption
  DEF StartAgesOut, HostInv, CoreType, StartIsExclusive, StdinIsInstalled,
      NoSinkWithoutEngine, RouteHasOpen
<1>2. CASE UNCHANGED hostVars
  BY <1>2 DEF hostVars, HostInv, CoreType, StartIsExclusive, StdinIsInstalled,
              NoSinkWithoutEngine, RouteHasOpen
<1> QED
  BY <1>1, <1>2, OpenStepPreserves, CallStepPreserves, EngineStepPreserves
  DEF HostNext

LEMMA HostInvariant == HostSpec => []HostInv
BY HostInitEstablishes, HostStepPreserves, PTL DEF HostSpec

(* The full type invariant: besides the above, the sender an open holds is  *)
(* an engine's, and the queues hold well-formed lines, frames and events.   *)
QueueType ==
  /\ handle \in [Conns -> Conns \cup {NoConn}]
  /\ \A c \in Conns : call[c] = "sending" => handle[c] \in Conns
  /\ closing \in SUBSET Conns
  /\ lines \in [Conns -> Seq(Line)]
  /\ pump \in [Conns -> BOOLEAN]
  /\ stdout \in [Conns -> Seq(Frame)]
  /\ frames \in [Conns -> Nat]
  /\ events \in [Conns -> Seq(Event)]

LEMMA LineIsTyped ==
  ASSUME NEW c \in Conns, NEW op \in {"attach", "detach", "control"}
  PROVE  LineOf(op, c) \in Line
BY HostAssumption, KeysAssumption DEF LineOf, Line

LEMMA ForwardsTyped ==
  ASSUME CoreType, QueueType, NEW c \in Conns,
         NEW op \in {"attach", "detach", "control"}, Forwards(c, op)
  PROVE  lines' \in [Conns -> Seq(Line)]
<1>1. CASE stdin # NoConn /\ sinks[KeyOf[c]] # NoConn
  <2>1. stdin \in Conns /\ lines[stdin] \in Seq(Line)
    BY <1>1 DEF CoreType, QueueType
  <2>2. Append(lines[stdin], LineOf(op, c)) \in Seq(Line)
    BY <2>1, LineIsTyped
  <2>3. lines' = [lines EXCEPT ![stdin] = Append(lines[stdin], LineOf(op, c))]
    BY <1>1 DEF Forwards
  <2> QED BY <2>1, <2>2, <2>3 DEF QueueType
<1>2. CASE ~(stdin # NoConn /\ sinks[KeyOf[c]] # NoConn)
  BY <1>2 DEF Forwards, QueueType
<1> QED BY <1>1, <1>2

LEMMA QueueStepTyped ==
  ASSUME CoreType, QueueType, [HostNext]_hostVars PROVE QueueType'
<1> USE HostAssumption, KeysAssumption DEF QueueType, CoreType, CallStates
<1>1. ASSUME NEW c \in Conns, OpenStep(c) PROVE QueueType'
  <2>1. CASE OpenBegin(c)       BY <2>1 DEF OpenBegin
  <2>2. CASE OpenRefused(c)     BY <2>2 DEF OpenRefused
  <2>3. CASE OpenFindsEngine(c) BY <2>3 DEF OpenFindsEngine
  <2>4. CASE OpenStarts(c)      BY <2>4 DEF OpenStarts
  <2>5. CASE SpawnReady(c)      BY <2>5 DEF SpawnReady
  <2>6. CASE SpawnFails(c)      BY <2>6 DEF SpawnFails
  <2>7. CASE Register(c)
    <3>1. CASE stdin = NoConn BY <2>7, <3>1 DEF Register
    <3>2. CASE stdin # NoConn
      <4>0. handle' = [handle EXCEPT ![c] = stdin] /\ stdin \in Conns
        BY <2>7, <3>2 DEF Register
      <4>1. handle' \in [Conns -> Conns \cup {NoConn}] /\ handle'[c] \in Conns
        BY <4>0
      <4>2. \A d \in Conns \ {c} : handle'[d] = handle[d] /\ call'[d] = call[d]
        BY <2>7, <3>2 DEF Register
      <4>3. \A d \in Conns : call'[d] = "sending" => handle'[d] \in Conns
        BY <4>1, <4>2
      <4>4. UNCHANGED <<closing, lines, pump, stdout, frames, events>>
        BY <2>7 DEF Register
      <4> QED BY <4>1, <4>3, <4>4
    <3> QED BY <3>1, <3>2
  <2>8. CASE SendAttach(c)
    <3>1. handle[c] \in Conns /\ LineOf("attach", c) \in Line
      BY <2>8, LineIsTyped DEF SendAttach
    <3>2. Append(lines[handle[c]], LineOf("attach", c)) \in Seq(Line)
      BY <3>1
    <3>3. lines' \in [Conns -> Seq(Line)]
      <4>1. lines \in [Conns -> Seq(Line)]
        BY DEF QueueType
      <4>2. lines' = lines \/ lines' = [lines EXCEPT ![handle[c]] = Append(@, LineOf("attach", c))]
        BY <2>8 DEF SendAttach
      <4>3. PICK h \in Conns : h = handle[c]
        BY <3>1
      <4>4. PICK longer \in Seq(Line) : longer = Append(lines[h], LineOf("attach", c))
        BY <3>2, <4>3
      <4>5. lines' = lines \/ lines' = [lines EXCEPT ![h] = longer]
        BY <4>2, <4>3, <4>4
      <4> QED BY <4>1, <4>5
    <3>4. \A d \in Conns : call'[d] = "sending" => call[d] = "sending"
      BY <2>8 DEF SendAttach
    <3> QED BY <2>8, <3>3, <3>4 DEF SendAttach
  <2> QED BY <1>1, <2>1, <2>2, <2>3, <2>4, <2>5, <2>6, <2>7, <2>8 DEF OpenStep
<1>2. ASSUME NEW c \in Conns, CallStep(c) PROVE QueueType'
  <2>1. CASE ForwardControl(c)
    <3>1. lines' \in [Conns -> Seq(Line)]
      BY <2>1, ForwardsTyped DEF ForwardControl
    <3> QED BY <2>1, <3>1 DEF ForwardControl
  <2>2. CASE CloseCheck(c)
    <3>1. lines' \in [Conns -> Seq(Line)]
      BY <2>2, ForwardsTyped DEF CloseCheck
    <3> QED BY <2>2, <3>1 DEF CloseCheck
  <2>3. CASE CloseRemove(c)    BY <2>3 DEF CloseRemove
  <2>4. CASE TakeEvent(c)      BY <2>4 DEF TakeEvent
  <2> QED BY <1>2, <2>1, <2>2, <2>3, <2>4 DEF CallStep
<1>3. ASSUME NEW e \in Conns, EngineStep(e) PROVE QueueType'
  <2>1. CASE EngineTakesLine(e) BY <2>1 DEF EngineTakesLine
  <2>2. CASE Deliver(e)
    <3>1. stdout[e] \in Seq(Frame) /\ stdout[e] # <<>>
      BY <2>2 DEF Deliver
    <3>2. Head(stdout[e]) \in Frame /\ Tail(stdout[e]) \in Seq(Frame)
      BY <3>1
    <3>3. [kind |-> "frame", owner |-> Head(stdout[e]).owner] \in Event
      BY <3>2 DEF Frame, Event
    <3>4. events' \in [Conns -> Seq(Event)]
      <4>1. CASE RoutesOf(Head(stdout[e])) = {}
        BY <2>2, <4>1 DEF Deliver
      <4>2. CASE RoutesOf(Head(stdout[e])) # {}
        <5>1. PICK k \in RoutesOf(Head(stdout[e])) :
                events' = [events EXCEPT ![sinks[k]] =
                   Append(@, [kind |-> "frame", owner |-> Head(stdout[e]).owner])]
          BY <2>2, <4>2 DEF Deliver
        <5>2. sinks[k] \in Conns
          BY DEF RoutesOf
        <5> QED BY <5>1, <5>2, <3>3
      <4> QED BY <4>1, <4>2
    <3> QED BY <2>2, <3>2, <3>4 DEF Deliver
  <2>3. CASE EngineExits(e) BY <2>3 DEF EngineExits
  <2>4. CASE PumpBreaks(e)  BY <2>4 DEF PumpBreaks
  <2>5. CASE WatchExit(e)
    <3>1. [kind |-> "lost"] \in Event
      BY DEF Event
    <3> QED BY <2>5, <3>1 DEF WatchExit
  <2>6. ASSUME NEW f \in Frame, EnginePaints(e, f) PROVE QueueType'
    <3>1. f.owner \in Conns /\ frames[f.owner] \in Nat
      BY DEF Frame
    <3>2. /\ frames' = [frames EXCEPT ![f.owner] = frames[f.owner] + 1]
          /\ stdout' = [stdout EXCEPT ![e] = Append(stdout[e], f)]
          /\ UNCHANGED <<state, stdin, sinks, starting, recent, proc, call, handle, closing,
                         lines, pump, events>>
      BY <2>6 DEF EnginePaints
    <3>3. frames[f.owner] + 1 \in Nat /\ Append(stdout[e], f) \in Seq(Frame)
      BY <3>1
    <3>4. frames' \in [Conns -> Nat] /\ stdout' \in [Conns -> Seq(Frame)]
      BY <3>1, <3>2, <3>3
    <3> QED BY <3>2, <3>4
  <2> QED BY <1>3, <2>1, <2>2, <2>3, <2>4, <2>5, <2>6 DEF EngineStep
<1>4. CASE StartAgesOut BY <1>4 DEF StartAgesOut
<1>5. CASE UNCHANGED hostVars BY <1>5 DEF hostVars
<1> QED BY <1>1, <1>2, <1>3, <1>4, <1>5 DEF HostNext

(* Every reachable state of the engine host is well typed.                  *)
THEOREM HostTyped == HostSpec => []HostTypeOK
<1>1. HostInit => QueueType
  BY HostAssumption DEF HostInit, QueueType
<1>2. HostInv => CoreType
  BY DEF HostInv
<1>3. CoreType /\ QueueType => HostTypeOK
  BY DEF CoreType, QueueType, HostTypeOK, EngineStates
<1> QED BY <1>1, <1>2, <1>3, HostInvariant, QueueStepTyped, PTL DEF HostSpec

(* The daemon never runs two engines at once: the `starting` mutex covers a *)
(* start until READY, and stdin is cleared only when the exit is collected. *)
THEOREM OneEngine == HostSpec => []AtMostOneEngine
<1>1. HostInv => AtMostOneEngine
  BY HostAssumption
  DEF HostInv, CoreType, StartIsExclusive, StdinIsInstalled, AtMostOneEngine, Alive
<1> QED BY HostInvariant, <1>1, PTL

(* The routes of a host are beside an engine, and none is left by a failed  *)
(* open: with OneEngine, all it promises at every moment.                   *)
THEOREM HostIsSafe == HostSpec => []HostSafe
<1>1. HostInv => FailedOpenIsUnrouted
  BY HostAssumption DEF HostInv, CoreType, RouteHasOpen, FailedOpenIsUnrouted
<1>2. HostInv => NoSinkWithoutEngine
  BY DEF HostInv
<1> QED BY HostInvariant, OneEngine, <1>1, <1>2, PTL DEF HostSafe

-----------------------------------------------------------------------------
(* The composition.                                                         *)

PagesTyped == pages \subseteq Page
CompositionInv == HostInv /\ QueueType /\ PagesTyped

LEMMA CompositionInit == Init => CompositionInv
BY HostInitEstablishes, HostAssumption
   DEF Init, HostInit, CompositionInv, QueueType, PagesTyped

(* Every step of the composition is a step of the engine host, or leaves it *)
(* alone.                                                                   *)
LEMMA StepIsHostStep ==
  ASSUME PagesTyped, [Next]_vars PROVE [HostNext]_hostVars
<1> USE DEF HostNext
<1>1. ASSUME NEW c \in Conns, TaskStep(c) PROVE [HostNext]_hostVars
  <2>1. CASE ReadAttach(c)       BY <2>1 DEF ReadAttach
  <2>2. CASE ReadHostConflict(c) BY <2>2 DEF ReadHostConflict
  <2>3. CASE ReadHost(c)         BY <2>3 DEF ReadHost, OpenStep
  <2>4. CASE Opening(c)          BY <2>4 DEF Opening, OpenStep
  <2>5. CASE HostAccepted(c)     BY <2>5 DEF HostAccepted, OpenStep
  <2>6. CASE HostRefused(c)      BY <2>6 DEF HostRefused
  <2>7. CASE ReadControl(c)      BY <2>7 DEF ReadControl
  <2>8. CASE Forward(c)          BY <2>8 DEF Forward, CallStep
  <2>9. CASE ReadDetach(c)       BY <2>9 DEF ReadDetach
  <2>10. CASE CloseFirst(c)      BY <2>10 DEF CloseFirst, CallStep
  <2>11. CASE CloseSecond(c)     BY <2>11 DEF CloseSecond, CallStep
  <2>12. CASE Push(c)            BY <2>12 DEF Push, CallStep
  <2>13. CASE WriteSucceeds(c)   BY <2>13 DEF WriteSucceeds
  <2>14. CASE WriteFails(c)      BY <2>14 DEF WriteFails
  <2>15. CASE Reap(c)            BY <2>15 DEF Reap
  <2> QED
    BY <1>1, <2>1, <2>2, <2>3, <2>4, <2>5, <2>6, <2>7, <2>8, <2>9, <2>10,
       <2>11, <2>12, <2>13, <2>14, <2>15 DEF TaskStep, Dispatch
<1>2. ASSUME NEW c \in Conns, FrontStep(c) PROVE [HostNext]_hostVars
  BY <1>2 DEF FrontStep, Connect, SendRequest, HangUp, Ask
<1>3. ASSUME NEW e \in Conns, EngineAct(e) PROVE [HostNext]_hostVars
  <2>1. CASE HandleControlLine(e) BY <2>1 DEF HandleControlLine, EngineStep
  <2>2. CASE Paint(e)
    <3>1. PICK p \in pages : EnginePaints(e, [id |-> IdOf[p.key], owner |-> p.owner])
      BY <2>2 DEF Paint
    <3>2. [id |-> IdOf[p.key], owner |-> p.owner] \in Frame
      BY KeysAssumption DEF PagesTyped, Page, Frame
    <3> QED BY <3>1, <3>2 DEF EngineStep
  <2>3. CASE LastTabCloses(e) BY <2>3 DEF LastTabCloses
  <2>4. CASE EngineGone(e)    BY <2>4 DEF EngineGone, EngineStep
  <2>5. CASE HostTask(e)      BY <2>5 DEF HostTask, EngineStep
  <2> QED BY <1>3, <2>1, <2>2, <2>3, <2>4, <2>5 DEF EngineAct
<1>4. CASE Ages BY <1>4 DEF Ages
<1>5. CASE UNCHANGED vars BY <1>5 DEF vars
<1> QED BY <1>1, <1>2, <1>3, <1>4, <1>5 DEF Next

(* The engine's pane table holds pages of known panes only.                 *)
LEMMA PagesStayTyped ==
  ASSUME QueueType, PagesTyped, [Next]_vars PROVE PagesTyped'
<1>1. ASSUME NEW e \in Conns, HandleControlLine(e) PROVE PagesTyped'
  <2>1. Head(lines[e]) \in Line
    <3>1. lines[e] \in Seq(Line) /\ lines[e] # <<>>
      BY <1>1 DEF QueueType, HandleControlLine, EngineTakesLine
    <3> QED BY <3>1
  <2>2. [key |-> Head(lines[e]).key, owner |-> Head(lines[e]).from] \in Page
    BY <2>1 DEF Line, Page
  <2>3. pages' \subseteq pages \cup {[key |-> Head(lines[e]).key, owner |-> Head(lines[e]).from]}
    BY <1>1 DEF HandleControlLine, AfterAttach, AfterDetach
  <2> QED BY <2>2, <2>3 DEF PagesTyped
<1>2. ASSUME NEW e \in Conns, LastTabCloses(e) \/ EngineGone(e) PROVE PagesTyped'
  BY <1>2 DEF PagesTyped, LastTabCloses, EngineGone
<1>3. ASSUME UNCHANGED pages PROVE PagesTyped'
  BY <1>3 DEF PagesTyped
<1>4. ASSUME NEW c \in Conns, TaskStep(c) \/ FrontStep(c) PROVE UNCHANGED pages
  BY <1>4
  DEF TaskStep, FrontStep, Dispatch, ReadAttach, ReadHostConflict, ReadHost,
      Opening, HostAccepted, HostRefused, ReadControl, Forward, ReadDetach,
      CloseFirst, CloseSecond, Push, WriteSucceeds, WriteFails, Reap, Connect,
      SendRequest, HangUp, Ask, connVars
<1>5. ASSUME NEW e \in Conns, Paint(e) \/ HostTask(e) PROVE UNCHANGED pages
  BY <1>5 DEF Paint, HostTask, connVars
<1> QED
  BY <1>1, <1>2, <1>3, <1>4, <1>5 DEF Next, EngineAct, Ages, connVars, vars

(* The shared-engine path takes the engine host's steps only.               *)
LEMMA TakesHostSteps == Spec => HostSpec
<1>1. CompositionInv /\ [Next]_vars => CompositionInv' /\ [HostNext]_hostVars
  <2> SUFFICES ASSUME CompositionInv, [Next]_vars
               PROVE  CompositionInv' /\ [HostNext]_hostVars
    OBVIOUS
  <2>1. [HostNext]_hostVars
    BY StepIsHostStep DEF CompositionInv
  <2>2. CoreType
    BY DEF CompositionInv, HostInv
  <2> QED
    BY <2>1, <2>2, HostStepPreserves, QueueStepTyped, PagesStayTyped
    DEF CompositionInv
<1>2. Init => HostInit
  BY DEF Init
<1> QED BY <1>1, <1>2, CompositionInit, PTL DEF Spec, HostSpec

(* So the daemon as a whole, with any number of frontends coming, dying and *)
(* reattaching, never has two engines, routes no pane without one, and      *)
(* leaves no route of an open that failed.                                  *)
THEOREM DaemonIsSafe == Spec => []HostSafe
BY TakesHostSteps, HostIsSafe, PTL

-----------------------------------------------------------------------------
(* Connections carry only generations the registry has handed out.          *)
GensIssued ==
  /\ gen \in [Conns -> 0 .. nextGeneration]
  /\ attached \in [Conns -> 0 .. nextGeneration]

(* A detach tagged with an issued generation, or with none, is the          *)
(* registry's.                                                              *)
LEMMA DetachIsRegStep ==
  ASSUME RegTypeOK, NEW k \in Keys, NEW g \in 0 .. nextGeneration, Detach(k, g)
  PROVE  [RegNext]_regVars /\ UNCHANGED nextGeneration
<1>1. CASE g = 0
  <2>1. panes' = panes
    BY <1>1 DEF Detach, IsCurrent, NoGeneration, RegTypeOK
  <2> QED BY <2>1 DEF Detach, regVars
<1>2. CASE g # 0
  <2>1. g \in 1 .. nextGeneration
    BY <1>2 DEF RegTypeOK
  <2> QED BY <2>1 DEF RegNext, Detach
<1> QED BY <1>1, <1>2

LEMMA StepIsRegStep ==
  ASSUME RegInv, GensIssued, [Next]_vars
  PROVE  [RegNext]_regVars /\ GensIssued'
<1> USE RegistryAssumption, HostAssumption DEF RegInv, RegTypeOK, GensIssued
<1>1. ASSUME UNCHANGED <<regVars, gen, attached>>
      PROVE  [RegNext]_regVars /\ GensIssued'
  BY <1>1 DEF regVars
<1>2. ASSUME NEW c \in Conns, TaskStep(c)
      PROVE  [RegNext]_regVars /\ GensIssued'
  <2>1. ASSUME Attach(KeyOf[c]),
               gen' = [gen EXCEPT ![c] = NewGeneration],
               attached' = attached \/ attached' = [attached EXCEPT ![c] = NewGeneration]
        PROVE  [RegNext]_regVars /\ GensIssued'
    <3>1. [RegNext]_regVars
      BY <2>1 DEF RegNext
    <3>2. nextGeneration' = nextGeneration + 1 /\ nextGeneration \in Nat
      BY <2>1 DEF Attach, NewGeneration
    <3>3. gen' \in [Conns -> 0 .. nextGeneration']
      BY <2>1, <3>2 DEF NewGeneration
    <3>4. attached' \in [Conns -> 0 .. nextGeneration']
      BY <2>1, <3>2 DEF NewGeneration
    <3> QED BY <3>1, <3>3, <3>4
  <2>2. ASSUME Detach(KeyOf[c], gen[c]) \/ Detach(KeyOf[c], attached[c]),
               UNCHANGED <<gen, attached>>
        PROVE  [RegNext]_regVars /\ GensIssued'
    BY <2>2, DetachIsRegStep
  <2>3. ASSUME UNCHANGED <<regVars, gen>>,
               \/ attached' = [attached EXCEPT ![c] = gen[c]]
               \/ attached' = [attached EXCEPT ![c] = NoGeneration]
        PROVE  [RegNext]_regVars /\ GensIssued'
    BY <2>3 DEF regVars, NoGeneration
  <2>4. CASE ReadAttach(c)       BY <2>4, <2>1 DEF ReadAttach
  <2>5. CASE ReadHostConflict(c) BY <2>5, <1>1 DEF ReadHostConflict
  <2>6. CASE ReadHost(c)         BY <2>6, <2>1 DEF ReadHost
  <2>7. CASE Opening(c)          BY <2>7, <1>1 DEF Opening, connVars
  <2>8. CASE HostAccepted(c)     BY <2>8, <2>3 DEF HostAccepted
  <2>9. CASE HostRefused(c)      BY <2>9, <2>2 DEF HostRefused
  <2>10. CASE ReadControl(c)     BY <2>10, <1>1 DEF ReadControl
  <2>11. CASE Forward(c)         BY <2>11, <1>1 DEF Forward
  <2>12. CASE ReadDetach(c)      BY <2>12, <2>2 DEF ReadDetach
  <2>13. CASE CloseFirst(c)      BY <2>13, <1>1, <2>3 DEF CloseFirst
  <2>14. CASE CloseSecond(c)     BY <2>14, <1>1, <2>3 DEF CloseSecond
  <2>15. CASE Push(c)            BY <2>15, <1>1 DEF Push
  <2>16. CASE WriteSucceeds(c)   BY <2>16, <1>1 DEF WriteSucceeds
  <2>17. CASE WriteFails(c)      BY <2>17, <1>1 DEF WriteFails
  <2>18. CASE Reap(c)            BY <2>18, <2>2 DEF Reap
  <2> QED
    BY <1>2, <2>4, <2>5, <2>6, <2>7, <2>8, <2>9, <2>10, <2>11, <2>12, <2>13,
       <2>14, <2>15, <2>16, <2>17, <2>18 DEF TaskStep, Dispatch
<1>3. ASSUME NEW c \in Conns, FrontStep(c) \/ EngineAct(c)
      PROVE  UNCHANGED <<regVars, gen, attached>>
  BY <1>3
  DEF FrontStep, Connect, SendRequest, HangUp, Ask, EngineAct, HandleControlLine,
      Paint, LastTabCloses, EngineGone, HostTask, connVars
<1>4. ASSUME Ages \/ UNCHANGED vars PROVE UNCHANGED <<regVars, gen, attached>>
  BY <1>4 DEF Ages, vars, connVars, regVars
<1> QED BY <1>1, <1>2, <1>3, <1>4 DEF Next

(* The shared-engine path implements the pane registry, so its panes never  *)
(* share a generation and a registration only ever gives way to a younger   *)
(* one, however dispatches, hang-ups and failed opens interleave.           *)
THEOREM DaemonKeepsGenerations == Spec => []GenerationsDistinct /\ OnlyForward
<1>1. RegInv /\ GensIssued /\ [Next]_vars
        => (RegInv /\ GensIssued)' /\ [RegNext]_regVars
  BY StepIsRegStep, RegStepPreserves
<1>2. Init => RegInit /\ RegInv /\ GensIssued
  BY RegInitEstablishes, HostAssumption
  DEF Init, GensIssued, NoGeneration, RegInv, RegTypeOK, RegInit
<1>3. Spec => RegSpec
  BY <1>1, <1>2, PTL DEF Spec, RegSpec
<1> QED BY <1>3, RegistryInvariant, RegistryOnlyForward, PTL

-----------------------------------------------------------------------------
(* Who a pane belongs to: the daemon implements PaneOwners.                 *)

(* A connection asks to be registered once, and before it has a generation; *)
(* what it is attached under is the generation it was given, which names it *)
(* alone; and whoever has released its pane is not registered any more.     *)
Unregistered(c) == gen[c] = NoGeneration /\ attached[c] = NoGeneration

Untouched(c) == task[c] = "none" /\ inbox[c] = <<>> /\ Unregistered(c)

AsksOnce(c) ==
  /\ inbox[c] \in {<<>>, <<"host">>, <<"attach">>, <<"control">>, <<"detach">>}
  /\ front[c] = "away" => Untouched(c)
  /\ task[c] \notin {"none", "reading"} => inbox[c] = <<>>
  /\ inbox[c] \in {<<"host">>, <<"attach">>} => Unregistered(c) /\ task[c] = "reading"

HoldsItsOwn(c) ==
  /\ attached[c] \in {NoGeneration, gen[c]}
  /\ task[c] = "opening" => gen[c] # NoGeneration /\ attached[c] = NoGeneration
  /\ IsCurrent(KeyOf[c], gen[c]) =>
       /\ attached[c] = gen[c] \/ task[c] = "opening"
       /\ task[c] \notin {"detaching", "closing"}

GensDistinct ==
  \A c, d \in Conns : gen[c] = gen[d] /\ gen[c] # NoGeneration => c = d

OwnersExist ==
  \A k \in Keys :
    panes[k] # NoGeneration => \E c \in Conns : KeyOf[c] = k /\ gen[c] = panes[k]

OwnersInv ==
  /\ RegInv /\ GensIssued
  /\ DOMAIN task = Conns /\ DOMAIN inbox = Conns /\ DOMAIN front = Conns
  /\ \A c \in Conns : AsksOnce(c) /\ HoldsItsOwn(c)
  /\ GensDistinct /\ OwnersExist

LEMMA OwnersBegin == Init => OwnersInv /\ Owners!OwnersInit
<1> SUFFICES ASSUME Init PROVE OwnersInv /\ Owners!OwnersInit
  OBVIOUS
<1>1. OwnersInv
  BY RegInitEstablishes, HostAssumption
  DEF Init, OwnersInv, GensIssued, RegInv, RegTypeOK, RegInit, NoGeneration, AsksOnce,
      Untouched, Unregistered, HoldsItsOwn, IsCurrent, GensDistinct, OwnersExist
<1>2. Owners!OwnersInit
  BY DEF Init, RegInit, Owners!OwnersInit, OwnerOf, NoGeneration
<1> QED BY <1>1, <1>2

(* The owner of a pane is the one connection of its registered generation.  *)
OwnersRead ==
  \A k \in Keys :
    /\ OwnerOf(k) \in Conns \cup {NoConn}
    /\ \A c \in Conns : OwnerOf(k) = c <=> KeyOf[c] = k /\ IsCurrent(k, gen[c])

LEMMA OwnerIs == OwnersInv => OwnersRead
<1> SUFFICES ASSUME OwnersInv, NEW k \in Keys
             PROVE  /\ OwnerOf(k) \in Conns \cup {NoConn}
                    /\ \A c \in Conns : OwnerOf(k) = c <=> KeyOf[c] = k /\ IsCurrent(k, gen[c])
  BY DEF OwnersRead
<1>1. CASE panes[k] = NoGeneration
  BY <1>1, HostAssumption DEF OwnerOf, IsCurrent
<1>2. CASE panes[k] # NoGeneration
  <2>1. PICK d \in Conns : KeyOf[d] = k /\ gen[d] = panes[k]
    BY <1>2 DEF OwnersInv, OwnersExist
  <2>2. \A c \in Conns : KeyOf[c] = k /\ gen[c] = panes[k] => c = d
    BY <1>2, <2>1 DEF OwnersInv, GensDistinct
  <2>3. OwnerOf(k) = d
    BY <1>2, <2>1, <2>2 DEF OwnerOf
  <2> QED BY <1>2, <2>1, <2>2, <2>3 DEF IsCurrent
<1> QED BY <1>1, <1>2

(* What a step of c leaves alone stays true of the other connections, when  *)
(* it registers none of them.                                               *)
LEMMA OthersKeep ==
  ASSUME OwnersInv, NEW c \in Conns, NEW d \in Conns \ {c},
         task'[d] = task[d], inbox'[d] = inbox[d], front'[d] = front[d],
         gen'[d] = gen[d], attached'[d] = attached[d],
         panes'[KeyOf[d]] \in {panes[KeyOf[d]], NoGeneration, nextGeneration + 1}
  PROVE  AsksOnce(d)' /\ HoldsItsOwn(d)'
<1>1. gen[d] \in 0 .. nextGeneration /\ nextGeneration \in Nat
  BY DEF OwnersInv, GensIssued, RegInv, RegTypeOK
<1>2. AsksOnce(d) /\ HoldsItsOwn(d)
  BY DEF OwnersInv
<1>3. IsCurrent(KeyOf[d], gen[d])' => IsCurrent(KeyOf[d], gen[d])
  BY <1>1 DEF IsCurrent, NoGeneration
<1> QED BY <1>2, <1>3 DEF AsksOnce, Untouched, Unregistered, HoldsItsOwn

-----------------------------------------------------------------------------
(* The kinds of step, by what they do to registrations.                     *)

\* A step of c that registers and releases nothing.
Quiet(c) ==
  /\ UNCHANGED <<panes, nextGeneration, gen, attached>>
  /\ \A d \in Conns \ {c} : task'[d] = task[d] /\ inbox'[d] = inbox[d] /\ front'[d] = front[d]
  /\ task'[c] = "opening" <=> task[c] = "opening"
  /\ task'[c] \in {"detaching", "closing"} =>
       task[c] \in {"detaching", "closing"} \/ ~IsCurrent(KeyOf[c], gen[c])
  /\ AsksOnce(c)'

LEMMA QuietStep ==
  ASSUME OwnersInv, NEW c \in Conns, Quiet(c),
         DOMAIN task' = Conns, DOMAIN inbox' = Conns, DOMAIN front' = Conns
  PROVE  OwnersInv' /\ UNCHANGED Owners!ownersVars
<1>1. RegInv' /\ GensIssued' /\ GensDistinct' /\ OwnersExist'
  BY DEF Quiet, OwnersInv, RegInv, RegTypeOK, GenerationsDistinct, GensIssued, GensDistinct,
         OwnersExist
<1>2. ASSUME NEW d \in Conns \ {c} PROVE AsksOnce(d)' /\ HoldsItsOwn(d)'
  BY <1>2, OthersKeep DEF Quiet
<1>3. HoldsItsOwn(c)'
  BY DEF Quiet, OwnersInv, HoldsItsOwn, IsCurrent
<1>4. OwnersInv'
  BY <1>1, <1>2, <1>3 DEF OwnersInv, Quiet
<1>5. UNCHANGED [k \in Keys |-> OwnerOf(k)]
  BY DEF Quiet, OwnerOf
<1>6. UNCHANGED {d \in Conns : task[d] = "opening"}
  BY DEF Quiet
<1>7. UNCHANGED <<{d \in Conns : gen[d] # NoGeneration}, {d \in Conns : attached[d] # NoGeneration}>>
  BY DEF Quiet
<1> QED BY <1>4, <1>5, <1>6, <1>7 DEF Owners!ownersVars

\* Of the connections only c's task and inbox change, to values that ask nothing more.
Moves(c, next) ==
  /\ task' = [task EXCEPT ![c] = next] /\ front' = front
  /\ DOMAIN inbox' = Conns /\ \A d \in Conns \ {c} : inbox'[d] = inbox[d]
  /\ inbox'[c] = <<>> /\ front[c] # "away"

LEMMA MovesKeep ==
  ASSUME OwnersInv, NEW c \in Conns, NEW next, Moves(c, next)
  PROVE  /\ DOMAIN task' = Conns /\ DOMAIN inbox' = Conns /\ DOMAIN front' = Conns
         /\ AsksOnce(c)'
         /\ task'[c] = next
         /\ \A d \in Conns \ {c} : task'[d] = task[d] /\ inbox'[d] = inbox[d] /\ front'[d] = front[d]
BY DEF Moves, OwnersInv, AsksOnce

LEMMA RegistersStep ==
  ASSUME OwnersInv, NEW c \in Conns, Attach(KeyOf[c]), Unregistered(c), task[c] = "reading",
         gen' = [gen EXCEPT ![c] = NewGeneration],
         \/ Moves(c, "opening") /\ attached' = attached
         \/ Moves(c, "writing") /\ attached' = [attached EXCEPT ![c] = NewGeneration],
         RegInv', GensIssued'
  PROVE  OwnersInv' /\ Owners!Registers(c)
<1> DEFINE n == nextGeneration + 1
<1>1. /\ KeyOf[c] \in Keys /\ nextGeneration \in Nat
      /\ \A d \in Conns : gen[d] \in 0 .. nextGeneration
  BY HostAssumption DEF OwnersInv, RegInv, RegTypeOK, GensIssued
<1>2. /\ panes' = [panes EXCEPT ![KeyOf[c]] = n] /\ panes \in [Keys -> Nat]
      /\ gen' = [gen EXCEPT ![c] = n] /\ DOMAIN gen = Conns /\ DOMAIN attached = Conns
  BY DEF Attach, NewGeneration, OwnersInv, RegInv, RegTypeOK, GensIssued
<1>3. /\ DOMAIN task' = Conns /\ DOMAIN inbox' = Conns /\ DOMAIN front' = Conns /\ AsksOnce(c)'
      /\ \A d \in Conns \ {c} : task'[d] = task[d] /\ inbox'[d] = inbox[d] /\ front'[d] = front[d]
  BY MovesKeep
<1>4. ASSUME NEW d \in Conns \ {c} PROVE AsksOnce(d)' /\ HoldsItsOwn(d)'
  <2>1. KeyOf[d] \in Keys
    BY HostAssumption
  <2>2. attached'[d] = attached[d] /\ gen'[d] = gen[d]
    BY <1>2
  <2> QED BY <1>2, <1>3, <2>1, <2>2, OthersKeep
<1>5. HoldsItsOwn(c)'
  <2>1. gen'[c] = n /\ n # NoGeneration
    BY <1>1, <1>2 DEF NoGeneration
  <2>2. \/ task'[c] = "opening" /\ attached'[c] = NoGeneration
        \/ task'[c] = "writing" /\ attached'[c] = n
    BY <1>2, MovesKeep DEF Unregistered, NewGeneration
  <2> QED BY <2>1, <2>2 DEF HoldsItsOwn
<1>6. GensDistinct'
  BY <1>1, <1>2 DEF OwnersInv, GensDistinct, NoGeneration
<1>7. OwnersExist'
  <2> SUFFICES ASSUME NEW k \in Keys, panes'[k] # NoGeneration
               PROVE  \E d \in Conns : KeyOf[d] = k /\ gen'[d] = panes'[k]
    BY DEF OwnersExist
  <2>1. CASE k = KeyOf[c] BY <1>2, <2>1
  <2>2. CASE k # KeyOf[c]
    <3>1. PICK d \in Conns : KeyOf[d] = k /\ gen[d] = panes[k]
      BY <1>2, <2>2 DEF OwnersInv, OwnersExist
    <3> QED BY <1>2, <2>2, <3>1
  <2> QED BY <2>1, <2>2
<1>8. OwnersInv'
  BY <1>3, <1>4, <1>5, <1>6, <1>7 DEF OwnersInv
<1>9. OwnersRead /\ OwnersRead'
  BY <1>8, OwnerIs, PTL
<1>10. ASSUME NEW k \in Keys
       PROVE  OwnerOf(k)' = IF k = KeyOf[c] THEN c ELSE OwnerOf(k)
  <2>1. CASE k = KeyOf[c]
    <3>1. IsCurrent(k, gen[c])'
      BY <1>1, <1>2, <2>1 DEF IsCurrent, NoGeneration
    <3> QED BY <1>9, <2>1, <3>1 DEF OwnersRead
  <2>2. CASE k # KeyOf[c]
    <3>1. \A d \in Conns : KeyOf[d] = k => (IsCurrent(k, gen[d])' <=> IsCurrent(k, gen[d]))
      BY <1>2, <2>2 DEF IsCurrent
    <3>2. \A d \in Conns : OwnerOf(k)' = d <=> OwnerOf(k) = d
      BY <1>9, <3>1 DEF OwnersRead
    <3> QED BY <1>9, <2>2, <3>2, HostAssumption DEF OwnersRead
  <2> QED BY <2>1, <2>2
<1>11. c \notin {d \in Conns : gen[d] # NoGeneration}
  BY DEF Unregistered
<1>12. {d \in Conns : gen[d] # NoGeneration}' = {d \in Conns : gen[d] # NoGeneration} \cup {c}
  BY <1>1, <1>2 DEF NoGeneration
<1>13. [k \in Keys |-> OwnerOf(k)]' = [[k \in Keys |-> OwnerOf(k)] EXCEPT ![KeyOf[c]] = c]
  BY <1>1, <1>10
<1>14. CASE Moves(c, "opening") /\ attached' = attached
  <2>1. /\ {d \in Conns : task[d] = "opening"}' = {d \in Conns : task[d] = "opening"} \cup {c}
        /\ UNCHANGED {d \in Conns : attached[d] # NoGeneration}
    BY <1>3, <1>14, MovesKeep
  <2> QED BY <1>8, <1>11, <1>12, <1>13, <2>1 DEF Owners!Registers
<1>15. CASE Moves(c, "writing") /\ attached' = [attached EXCEPT ![c] = NewGeneration]
  <2>1. /\ UNCHANGED {d \in Conns : task[d] = "opening"}
    BY <1>3, <1>15, MovesKeep
  <2>2. {d \in Conns : attached[d] # NoGeneration}' = {d \in Conns : attached[d] # NoGeneration} \cup {c}
    BY <1>1, <1>2, <1>15 DEF NewGeneration, NoGeneration
  <2> QED BY <1>8, <1>11, <1>12, <1>13, <2>1, <2>2 DEF Owners!Registers
<1> QED BY <1>14, <1>15

(* A step of c that registers nothing keeps the owners' invariant, when c   *)
(* is as it should be after it.                                             *)
LEMMA MovesPreserve ==
  ASSUME OwnersInv, NEW c \in Conns, NEW next, Moves(c, next), gen' = gen,
         NEW a \in {NoGeneration, gen[c], attached[c]}, attached' = [attached EXCEPT ![c] = a],
         NEW g \in {NoGeneration, gen[c], attached[c]}, Detach(KeyOf[c], g),
         HoldsItsOwn(c)', RegInv', GensIssued'
  PROVE  OwnersInv'
<1>1. /\ panes' = [panes EXCEPT ![KeyOf[c]] = IF IsCurrent(KeyOf[c], g) THEN NoGeneration ELSE @]
      /\ panes \in [Keys -> Nat] /\ \A d \in Conns : KeyOf[d] \in Keys
  BY HostAssumption DEF Detach, OwnersInv, RegInv, RegTypeOK
<1>2. ASSUME NEW d \in Conns \ {c} PROVE AsksOnce(d)' /\ HoldsItsOwn(d)'
  <2>1. panes'[KeyOf[d]] \in {panes[KeyOf[d]], NoGeneration}
    BY <1>1
  <2>2. attached'[d] = attached[d] /\ gen'[d] = gen[d]
    BY DEF OwnersInv, GensIssued
  <2> QED BY <2>1, <2>2, MovesKeep, OthersKeep
<1>3. GensDistinct' /\ OwnersExist'
  BY <1>1 DEF OwnersInv, GensDistinct, OwnersExist
<1> QED BY <1>2, <1>3, MovesKeep DEF OwnersInv

(* A registration that is its own goes, and only that.                      *)
LEMMA DropsIts ==
  ASSUME OwnersInv, OwnersInv', NEW c \in Conns, gen' = gen, Detach(KeyOf[c], gen[c])
  PROVE  Owners!Drops(c)
<1>1. OwnersRead /\ OwnersRead'
  BY OwnerIs, PTL
<1>2. /\ panes' = [panes EXCEPT ![KeyOf[c]] = IF IsCurrent(KeyOf[c], gen[c]) THEN NoGeneration ELSE @]
      /\ panes \in [Keys -> Nat] /\ KeyOf[c] \in Keys
  BY HostAssumption DEF Detach, OwnersInv, RegInv, RegTypeOK
<1>3. ASSUME NEW k \in Keys
      PROVE  OwnerOf(k)' = IF k = KeyOf[c] /\ OwnerOf(k) = c THEN NoConn ELSE OwnerOf(k)
  <2>1. CASE k = KeyOf[c] /\ OwnerOf(k) = c
    <3>1. panes'[k] = NoGeneration
      BY <1>1, <1>2, <2>1 DEF OwnersRead
    <3> QED BY <2>1, <3>1 DEF OwnerOf
  <2>2. CASE ~ (k = KeyOf[c] /\ OwnerOf(k) = c)
    <3>1. panes'[k] = panes[k]
      BY <1>1, <1>2, <2>2 DEF OwnersRead
    <3> QED BY <2>2, <3>1 DEF OwnerOf
  <2> QED BY <2>1, <2>2
<1>4. [k \in Keys |-> OwnerOf(k)]'
        = [[k \in Keys |-> OwnerOf(k)] EXCEPT ![KeyOf[c]] = IF @ = c THEN NoConn ELSE @]
  BY <1>2, <1>3
<1> QED BY <1>4 DEF Owners!Drops

LEMMA AcceptedStep ==
  ASSUME OwnersInv, NEW c \in Conns, task[c] = "opening", Moves(c, "writing"),
         UNCHANGED <<panes, nextGeneration, gen>>, attached' = [attached EXCEPT ![c] = gen[c]],
         RegInv', GensIssued'
  PROVE  OwnersInv' /\ Owners!IsAccepted(c)
<1>1. Detach(KeyOf[c], NoGeneration)
  BY DEF Detach, IsCurrent, OwnersInv, RegInv, RegTypeOK
<1>2. DOMAIN attached = Conns /\ gen[c] # NoGeneration
  BY DEF OwnersInv, GensIssued, HoldsItsOwn
<1>3. HoldsItsOwn(c)'
  BY <1>2, MovesKeep DEF HoldsItsOwn, IsCurrent
<1>4. OwnersInv'
  BY <1>1, <1>3, MovesPreserve
<1>5. UNCHANGED [k \in Keys |-> OwnerOf(k)]
  BY DEF OwnerOf
<1>6. {d \in Conns : task[d] = "opening"}' = {d \in Conns : task[d] = "opening"} \ {c}
  BY MovesKeep
<1>7. {d \in Conns : attached[d] # NoGeneration}' = {d \in Conns : attached[d] # NoGeneration} \cup {c}
  BY <1>2
<1>8. UNCHANGED {d \in Conns : gen[d] # NoGeneration}
  OBVIOUS
<1> QED BY <1>4, <1>5, <1>6, <1>7, <1>8 DEF Owners!IsAccepted

LEMMA RefusedStep ==
  ASSUME OwnersInv, NEW c \in Conns, task[c] = "opening", Moves(c, "writing"),
         Detach(KeyOf[c], gen[c]), UNCHANGED <<gen, attached>>, RegInv', GensIssued'
  PROVE  OwnersInv' /\ Owners!IsRefused(c)
<1>1. KeyOf[c] \in Keys /\ DOMAIN panes = Keys /\ DOMAIN attached = Conns
  BY HostAssumption DEF OwnersInv, RegInv, RegTypeOK, GensIssued
<1>2. ~IsCurrent(KeyOf[c], gen[c])'
  BY <1>1 DEF Detach, IsCurrent, NoGeneration
<1>3. HoldsItsOwn(c)'
  BY <1>2, MovesKeep DEF OwnersInv, HoldsItsOwn
<1>4. attached' = [attached EXCEPT ![c] = attached[c]]
  BY <1>1 DEF OwnersInv, GensIssued
<1>5. OwnersInv'
  BY <1>3, <1>4, MovesPreserve
<1>6. Owners!Drops(c)
  BY <1>5, DropsIts
<1>7. {d \in Conns : task[d] = "opening"}' = {d \in Conns : task[d] = "opening"} \ {c}
  BY MovesKeep
<1>8. /\ UNCHANGED {d \in Conns : gen[d] # NoGeneration}
      /\ UNCHANGED {d \in Conns : attached[d] # NoGeneration}
  OBVIOUS
<1> QED BY <1>5, <1>6, <1>7, <1>8 DEF Owners!IsRefused

LEMMA LeavesStep ==
  ASSUME OwnersInv, NEW c \in Conns, task[c] = "reading", NEW next, next # "opening", Moves(c, next),
         NEW g \in {gen[c], attached[c]}, Detach(KeyOf[c], g), UNCHANGED <<gen, attached>>,
         next \in {"detaching", "closing"} => IsCurrent(KeyOf[c], g),
         RegInv', GensIssued'
  PROVE  OwnersInv' /\ [Owners!OwnersNext]_Owners!ownersVars
<1>1. KeyOf[c] \in Keys /\ panes \in [Keys -> Nat] /\ DOMAIN attached = Conns /\ HoldsItsOwn(c)
  BY HostAssumption DEF OwnersInv, RegInv, RegTypeOK, GensIssued
<1>2. UNCHANGED <<{d \in Conns : gen[d] # NoGeneration}, {d \in Conns : task[d] = "opening"},
                  {d \in Conns : attached[d] # NoGeneration}>>
  BY MovesKeep
<1>3. attached' = [attached EXCEPT ![c] = attached[c]]
  BY <1>1 DEF OwnersInv, GensIssued
<1>4. CASE IsCurrent(KeyOf[c], g)
  <2>1. g = gen[c] /\ attached[c] = gen[c] /\ gen[c] # NoGeneration
    BY <1>1, <1>4 DEF HoldsItsOwn, IsCurrent
  <2>2. ~IsCurrent(KeyOf[c], gen[c])'
    BY <1>1, <2>1 DEF Detach, IsCurrent, NoGeneration
  <2>3. HoldsItsOwn(c)'
    BY <1>1, <2>2, MovesKeep DEF HoldsItsOwn
  <2>4. OwnersInv'
    BY <1>3, <2>3, MovesPreserve
  <2>5. Owners!Leaves(c)
    BY <1>2, <2>1, <2>4, DropsIts DEF Owners!Leaves
  <2> QED BY <2>4, <2>5 DEF Owners!OwnersNext
<1>5. CASE ~IsCurrent(KeyOf[c], g)
  <2>1. panes' = panes
    BY <1>1, <1>5 DEF Detach
  <2>2. HoldsItsOwn(c)'
    BY <1>1, <1>5, <2>1, MovesKeep DEF HoldsItsOwn, IsCurrent
  <2>3. OwnersInv'
    BY <1>3, <2>2, MovesPreserve
  <2>4. UNCHANGED [k \in Keys |-> OwnerOf(k)]
    BY <2>1 DEF OwnerOf
  <2> QED BY <1>2, <2>3, <2>4 DEF Owners!ownersVars
<1> QED BY <1>4, <1>5

LEMMA ReleasesStep ==
  ASSUME OwnersInv, NEW c \in Conns, task[c] = "detaching", Moves(c, "writing"),
         UNCHANGED <<panes, nextGeneration, gen>>, attached' = [attached EXCEPT ![c] = NoGeneration],
         RegInv', GensIssued'
  PROVE  OwnersInv' /\ [Owners!OwnersNext]_Owners!ownersVars
<1>1. DOMAIN attached = Conns /\ HoldsItsOwn(c) /\ ~IsCurrent(KeyOf[c], gen[c])
  BY DEF OwnersInv, GensIssued, HoldsItsOwn
<1>2. HoldsItsOwn(c)'
  BY <1>1, MovesKeep DEF HoldsItsOwn, IsCurrent
<1>3. Detach(KeyOf[c], NoGeneration)
  BY DEF Detach, IsCurrent, OwnersInv, RegInv, RegTypeOK
<1>4. OwnersInv'
  BY <1>2, <1>3, MovesPreserve
<1>5. UNCHANGED <<[k \in Keys |-> OwnerOf(k)], {d \in Conns : gen[d] # NoGeneration},
                  {d \in Conns : task[d] = "opening"}>>
  <2>1. UNCHANGED [k \in Keys |-> OwnerOf(k)]
    BY DEF OwnerOf
  <2> QED BY <2>1, MovesKeep
<1>6. {d \in Conns : attached[d] # NoGeneration}' = {d \in Conns : attached[d] # NoGeneration} \ {c}
  BY <1>1
<1>7. CASE attached[c] = NoGeneration
  BY <1>4, <1>5, <1>6, <1>7 DEF Owners!ownersVars
<1>8. CASE attached[c] # NoGeneration
  <2>1. OwnerOf(KeyOf[c]) # c /\ KeyOf[c] \in Keys
    BY <1>1, OwnerIs, HostAssumption DEF OwnersRead
  <2>2. Owners!IsReleased(c)
    BY <1>5, <1>6, <1>8, <2>1 DEF Owners!IsReleased
  <2> QED BY <1>4, <2>2 DEF Owners!OwnersNext
<1> QED BY <1>7, <1>8

(* Reading a request takes the only one there is.                           *)
LEMMA ReadsOne ==
  ASSUME OwnersInv, NEW c \in Conns, NEW r, Reads(c, r), front' = front
  PROVE  /\ task[c] = "reading" /\ inbox[c] = <<r>> /\ inbox'[c] = <<>>
         /\ DOMAIN inbox' = Conns /\ \A d \in Conns \ {c} : inbox'[d] = inbox[d]
         /\ front[c] # "away" /\ DOMAIN task = Conns
<1>1. /\ task[c] = "reading" /\ inbox[c] # <<>> /\ Head(inbox[c]) = r
      /\ inbox' = [inbox EXCEPT ![c] = Tail(@)]
  BY DEF Reads
<1>2. /\ inbox[c] \in {<<>>, <<"host">>, <<"attach">>, <<"control">>, <<"detach">>}
      /\ DOMAIN task = Conns /\ DOMAIN inbox = Conns
  BY DEF OwnersInv, AsksOnce
<1>3. front[c] # "away"
  BY <1>1 DEF OwnersInv, AsksOnce, Untouched
<1>4. PICK q \in {"host", "attach", "control", "detach"} : inbox[c] = <<q>>
  BY <1>1, <1>2
<1>5. r = q /\ Tail(inbox[c]) = <<>>
  BY <1>1, <1>4
<1> QED BY <1>1, <1>2, <1>3, <1>4, <1>5

LEMMA TaskOwners ==
  ASSUME OwnersInv, NEW c \in Conns, TaskStep(c), RegInv', GensIssued'
  PROVE  OwnersInv' /\ [Owners!OwnersNext]_Owners!ownersVars
<1> USE DEF Owners!OwnersNext, Goto, Answer
<1>1. /\ DOMAIN task = Conns /\ DOMAIN inbox = Conns /\ DOMAIN front = Conns
      /\ AsksOnce(c) /\ HoldsItsOwn(c)
  BY DEF OwnersInv
<1>2. ASSUME NEW next \in {"reading", "forwarding", "writing", "closing", "ended"},
             task' = [task EXCEPT ![c] = next],
             UNCHANGED <<regVars, gen, attached>>, task[c] \notin {"none", "opening"},
             next = "closing" => task[c] \in {"detaching", "closing"},
             \/ inbox' = inbox /\ inbox[c] = <<>>
             \/ \E r \in {"host", "attach", "control", "detach"} : Reads(c, r),
             \/ front' = front
             \/ \E knows : knows # "away" /\ front' = [front EXCEPT ![c] = knows]
      PROVE  OwnersInv' /\ UNCHANGED Owners!ownersVars
  <2>1. DOMAIN inbox' = Conns /\ inbox'[c] = <<>> /\ \A d \in Conns \ {c} : inbox'[d] = inbox[d]
    BY <1>1, <1>2 DEF Reads, AsksOnce
  <2>2. front'[c] # "away" /\ DOMAIN front' = Conns /\ \A d \in Conns \ {c} : front'[d] = front[d]
    BY <1>1, <1>2 DEF AsksOnce, Untouched
  <2>3. Quiet(c)
    BY <1>1, <1>2, <2>1, <2>2 DEF Quiet, AsksOnce, regVars
  <2> QED BY <1>1, <1>2, <2>1, <2>2, <2>3, QuietStep
<1>3. ASSUME NEW r \in {"host", "attach"}, Reads(c, r), front' = front
      PROVE  Unregistered(c) /\ task[c] = "reading"
  BY <1>1, <1>3, ReadsOne DEF AsksOnce
<1>4. task[c] \notin {"none", "reading"} => inbox[c] = <<>> /\ front[c] # "away"
  BY <1>1 DEF AsksOnce, Untouched
<1>5. CASE ReadAttach(c)
  <2>1. Moves(c, "writing")
    BY <1>5, ReadsOne DEF ReadAttach, Moves
  <2> QED BY <1>3, <1>5, <2>1, RegistersStep DEF ReadAttach
<1>6. CASE ReadHostConflict(c)
  BY <1>2, <1>6, ReadsOne DEF ReadHostConflict
<1>7. CASE ReadHost(c)
  <2>1. Moves(c, "opening")
    BY <1>7, ReadsOne DEF ReadHost, Moves
  <2> QED BY <1>3, <1>7, <2>1, RegistersStep DEF ReadHost
<1>8. CASE Opening(c)
  <2>1. Quiet(c)
    BY <1>1, <1>4, <1>8 DEF Opening, connVars, regVars, Quiet, AsksOnce, Untouched, Unregistered
  <2> QED BY <1>1, <1>8, <2>1, QuietStep DEF Opening, connVars
<1>9. CASE HostAccepted(c)
  <2>1. Moves(c, "writing")
    BY <1>1, <1>4, <1>9 DEF HostAccepted, Moves
  <2> QED BY <1>9, <2>1, AcceptedStep DEF HostAccepted, regVars
<1>10. CASE HostRefused(c)
  <2>1. Moves(c, "writing")
    BY <1>1, <1>4, <1>10 DEF HostRefused, Moves
  <2> QED BY <1>10, <2>1, RefusedStep DEF HostRefused
<1>11. CASE ReadControl(c)
  BY <1>2, <1>11, ReadsOne DEF ReadControl
<1>12. CASE Forward(c)
  BY <1>2, <1>4, <1>12 DEF Forward
<1>13. CASE ReadDetach(c)
  <2>1. PICK next \in {"detaching", "writing"} :
           Moves(c, next) /\ (next = "detaching" => IsCurrent(KeyOf[c], gen[c]))
    BY <1>13, ReadsOne DEF ReadDetach, Moves
  <2> QED BY <1>13, <2>1, ReadsOne, LeavesStep DEF ReadDetach
<1>14. ASSUME task[c] \in {"detaching", "closing"}, UNCHANGED <<regVars, inbox, gen, front>>,
              \/ UNCHANGED <<task, attached>>
              \/ /\ task[c] = "detaching" /\ task' = [task EXCEPT ![c] = "writing"]
                 /\ attached' = [attached EXCEPT ![c] = NoGeneration]
              \/ /\ task[c] = "closing" /\ task' = [task EXCEPT ![c] = "ended"]
                 /\ UNCHANGED attached
       PROVE  OwnersInv' /\ [Owners!OwnersNext]_Owners!ownersVars
  <2>1. CASE UNCHANGED <<task, attached>>
    <3>1. Quiet(c)
      BY <1>1, <1>14, <2>1 DEF Quiet, AsksOnce, Untouched, Unregistered, regVars
    <3> QED BY <1>1, <1>14, <2>1, <3>1, QuietStep
  <2>2. CASE /\ task[c] = "detaching" /\ task' = [task EXCEPT ![c] = "writing"]
             /\ attached' = [attached EXCEPT ![c] = NoGeneration]
    <3>1. Moves(c, "writing")
      BY <1>1, <1>4, <1>14, <2>2 DEF Moves
    <3> QED BY <1>14, <2>2, <3>1, ReleasesStep DEF regVars
  <2>3. CASE task[c] = "closing" /\ task' = [task EXCEPT ![c] = "ended"] /\ UNCHANGED attached
    BY <1>2, <1>4, <1>14, <2>3
  <2> QED BY <1>14, <2>1, <2>2, <2>3
<1>15. CASE CloseFirst(c)
  BY <1>14, <1>15 DEF CloseFirst
<1>16. CASE CloseSecond(c)
  BY <1>14, <1>16 DEF CloseSecond
<1>17. CASE Push(c)
  <2>1. CASE attached[c] = NoGeneration
    <3>1. Quiet(c)
      BY <1>1, <1>17, <2>1 DEF Push, Quiet, AsksOnce, Untouched, Unregistered, regVars
    <3> QED BY <1>1, <1>17, <2>1, <3>1, QuietStep DEF Push
  <2>2. CASE attached[c] # NoGeneration
    BY <1>2, <1>17, <2>2 DEF Push, Resting
  <2> QED BY <2>1, <2>2
<1>18. CASE WriteSucceeds(c)
  <2>1. FrontAfter(c, outgoing[c]) # "away"
    BY <1>4, <1>18 DEF WriteSucceeds, FrontAfter
  <2> QED BY <1>2, <1>4, <1>18, <2>1 DEF WriteSucceeds
<1>19. CASE WriteFails(c)
  BY <1>2, <1>4, <1>19 DEF WriteFails
<1>20. CASE Reap(c)
  <2>1. /\ Moves(c, ReapLeadsTo(c)) /\ ReapLeadsTo(c) \in {"closing", "ended"}
        /\ ReapLeadsTo(c) = "closing" => IsCurrent(KeyOf[c], attached[c])
    BY <1>1, <1>20 DEF Reap, Moves, ReapLeadsTo, Resting
  <2> QED BY <1>20, <2>1, LeavesStep DEF Reap, Resting
<1> QED
  BY <1>5, <1>6, <1>7, <1>8, <1>9, <1>10, <1>11, <1>12, <1>13, <1>15, <1>16, <1>17, <1>18,
     <1>19, <1>20 DEF TaskStep, Dispatch

LEMMA FrontOwners ==
  ASSUME OwnersInv, NEW c \in Conns, FrontStep(c)
  PROVE  OwnersInv' /\ UNCHANGED Owners!ownersVars
<1>1. /\ DOMAIN task = Conns /\ DOMAIN inbox = Conns /\ DOMAIN front = Conns
      /\ AsksOnce(c) /\ HoldsItsOwn(c)
  BY DEF OwnersInv
<1>2. CASE Connect(c)
  <2>1. Untouched(c)
    BY <1>1, <1>2 DEF Connect, AsksOnce
  <2>2. PICK r \in {"host", "attach"} : Ask(c, r, "asked") /\ task' = [task EXCEPT ![c] = "reading"]
    BY <1>2 DEF Connect
  <2>3. inbox'[c] = <<r>>
    BY <1>1, <2>1, <2>2 DEF Untouched, Ask
  <2>4. Quiet(c)
    BY <1>1, <2>1, <2>2, <2>3 DEF Ask, Quiet, AsksOnce, Untouched, Unregistered, regVars
  <2> QED BY <1>1, <2>2, <2>4, QuietStep DEF Ask
<1>3. CASE SendRequest(c)
  <2>1. PICK r \in {"control", "detach"}, knows \in {"hosted", "left"} : Ask(c, r, knows)
    BY <1>3 DEF SendRequest
  <2>2. inbox'[c] = <<r>>
    BY <1>1, <1>3, <2>1 DEF SendRequest, Ask
  <2>3. Quiet(c)
    BY <1>1, <1>3, <2>1, <2>2 DEF Ask, SendRequest, Quiet, AsksOnce, regVars
  <2> QED BY <1>1, <1>3, <2>1, <2>3, QuietStep DEF Ask, SendRequest
<1>4. CASE HangUp(c)
  <2>1. Quiet(c)
    BY <1>1, <1>4 DEF HangUp, Quiet, AsksOnce, Unregistered, regVars
  <2> QED BY <1>1, <1>4, <2>1, QuietStep DEF HangUp
<1> QED BY <1>2, <1>3, <1>4 DEF FrontStep

LEMMA OwnersStep == OwnersInv /\ [Next]_vars => OwnersInv' /\ [Owners!OwnersNext]_Owners!ownersVars
<1> SUFFICES ASSUME OwnersInv, [Next]_vars
             PROVE  OwnersInv' /\ [Owners!OwnersNext]_Owners!ownersVars
  OBVIOUS
<1>1. RegInv' /\ GensIssued'
  BY StepIsRegStep, RegStepPreserves DEF OwnersInv
<1>2. ASSUME NEW c \in Conns, TaskStep(c)
      PROVE  OwnersInv' /\ [Owners!OwnersNext]_Owners!ownersVars
  BY <1>1, <1>2, TaskOwners
<1>3. ASSUME NEW c \in Conns, FrontStep(c)
      PROVE  OwnersInv' /\ [Owners!OwnersNext]_Owners!ownersVars
  BY <1>3, FrontOwners
<1>4. ASSUME UNCHANGED <<regVars, task, inbox, gen, attached, front>>
      PROVE  OwnersInv' /\ [Owners!OwnersNext]_Owners!ownersVars
  <2>1. OwnersInv'
    BY <1>1, <1>4
    DEF OwnersInv, AsksOnce, Untouched, Unregistered, HoldsItsOwn, IsCurrent, GensDistinct,
        OwnersExist, regVars
  <2>2. UNCHANGED Owners!ownersVars
    BY <1>4 DEF Owners!ownersVars, OwnerOf, regVars
  <2> QED BY <2>1, <2>2
<1>5. ASSUME NEW e \in Conns, EngineAct(e)
      PROVE  UNCHANGED <<regVars, task, inbox, gen, attached, front>>
  BY <1>5 DEF EngineAct, HandleControlLine, Paint, LastTabCloses, EngineGone, HostTask, connVars
<1>6. ASSUME Ages \/ UNCHANGED vars
      PROVE  UNCHANGED <<regVars, task, inbox, gen, attached, front>>
  BY <1>6 DEF Ages, vars, connVars, regVars
<1> QED BY <1>2, <1>3, <1>4, <1>5, <1>6 DEF Next

(* The daemon implements PaneOwners: a pane belongs to the connection that  *)
(* registered it last until that one is refused or leaves, however many     *)
(* frontends ask, die, detach and are reaped in between.                    *)
THEOREM ImplementsOwners == Spec => ImplementsPaneOwners
BY OwnersStep, OwnersBegin, PTL DEF Spec, ImplementsPaneOwners, Owners!OwnersSpec

-----------------------------------------------------------------------------
(* The types of the connections' own state.                                *)
TaskStates == {"none", "reading", "opening", "forwarding", "detaching", "writing", "closing",
               "ended"}
Requests == {"host", "attach", "control", "detach"}
FrontStates == {"away", "asked", "hosted", "attached", "refused", "lost", "left",
                "gone"}

ConnType ==
  /\ task \in [Conns -> TaskStates]
  /\ inbox \in [Conns -> Seq(Requests)]
  /\ hosted \in [Conns -> BOOLEAN]
  /\ outgoing \in [Conns -> Pushed \cup Replies \cup {Nothing}]
  /\ front \in [Conns -> FrontStates]
  /\ painted \in [Conns -> SUBSET Conns]

MetTyped == met \in [Conns -> {"nobody", "route", "task"}]

LEMMA ReadsTyped ==
  ASSUME ConnType, NEW c \in Conns, NEW r, Reads(c, r)
  PROVE  inbox' \in [Conns -> Seq(Requests)]
<1>1. inbox[c] \in Seq(Requests) /\ inbox[c] # <<>>
  BY DEF ConnType, Reads
<1>2. Tail(inbox[c]) \in Seq(Requests)
  BY <1>1
<1> QED BY <1>2 DEF ConnType, Reads

LEMMA AskTyped ==
  ASSUME ConnType, NEW c \in Conns, NEW r \in Requests, NEW s \in FrontStates, Ask(c, r, s)
  PROVE  inbox' \in [Conns -> Seq(Requests)] /\ front' \in [Conns -> FrontStates]
<1>1. inbox[c] \in Seq(Requests)
  BY DEF ConnType
<1>2. Append(inbox[c], r) \in Seq(Requests)
  BY <1>1
<1> QED BY <1>2 DEF ConnType, Ask

LEMMA ConnStepTyped ==
  ASSUME QueueType, ConnType, [Next]_vars PROVE ConnType'
<1>1. ASSUME NEW c \in Conns, TaskStep(c) PROVE ConnType'
  <2> USE DEF TaskStates, Goto
  <2> DEFINE Says == \/ UNCHANGED outgoing
                     \/ \E kind \in {"hosted", "attached", "refused", "ok"} :
                           outgoing' = [outgoing EXCEPT ![c] = [kind |-> kind]]
             Goes == task' = task \/ \E t \in TaskStates : task' = [task EXCEPT ![c] = t]
  <2>01. Goes => task' \in [Conns -> TaskStates]
    BY DEF ConnType
  <2>02. Says => outgoing' \in [Conns -> Pushed \cup Replies \cup {Nothing}]
    <3>1. outgoing \in [Conns -> Pushed \cup Replies \cup {Nothing}]
      BY DEF ConnType
    <3>2. \A kind \in {"hosted", "attached", "refused", "ok"} : [kind |-> kind] \in Replies
      BY DEF Replies
    <3> QED BY <3>1, <3>2
  <2>1. ASSUME NEW r, Reads(c, r), UNCHANGED <<hosted, front, painted>>, Goes, Says
        PROVE  ConnType'
    BY <2>01, <2>02, <2>1, ReadsTyped DEF ConnType
  <2>2. ASSUME UNCHANGED <<inbox, front, painted>>, Goes, Says,
               hosted' = hosted \/ \E b \in BOOLEAN : hosted' = [hosted EXCEPT ![c] = b]
        PROVE  ConnType'
    BY <2>01, <2>02, <2>2 DEF ConnType
  <2>3. CASE ReadAttach(c)       BY <2>3, <2>1 DEF ReadAttach, Answer
  <2>4. CASE ReadHostConflict(c) BY <2>4, <2>1 DEF ReadHostConflict, Answer
  <2>5. CASE ReadHost(c)         BY <2>5, <2>1 DEF ReadHost
  <2>6. CASE Opening(c)          BY <2>6, <2>2 DEF Opening, connVars
  <2>7. CASE HostAccepted(c)     BY <2>7, <2>2 DEF HostAccepted, Answer
  <2>8. CASE HostRefused(c)      BY <2>8, <2>2 DEF HostRefused, Answer
  <2>9. CASE ReadControl(c)      BY <2>9, <2>1 DEF ReadControl, Answer
  <2>10. CASE Forward(c)         BY <2>10, <2>2 DEF Forward, Answer
  <2>11. CASE ReadDetach(c)      BY <2>11, <2>1 DEF ReadDetach, Answer
  <2>12. CASE CloseFirst(c)      BY <2>12, <2>2 DEF CloseFirst, Answer
  <2>13. CASE CloseSecond(c)     BY <2>13, <2>2 DEF CloseSecond, Answer
  <2>14. CASE Push(c)
    <3>1. events[c] \in Seq(Event) /\ events[c] # <<>>
      BY <2>14 DEF Push, TakeEvent, QueueType
    <3>2. Head(events[c]) \in Pushed
      BY <3>1 DEF Pushed
    <3> QED BY <2>14, <3>2 DEF Push, ConnType
  <2>15. CASE WriteSucceeds(c)
    <3>1. outgoing[c] \in Pushed \cup Replies \cup {Nothing}
      BY DEF ConnType
    <3>2. FrontAfter(c, outgoing[c]) \in FrontStates
      BY DEF ConnType, FrontAfter, FrontStates
    <3>3. outgoing[c].kind = "frame" => outgoing[c].owner \in Conns
      BY <3>1 DEF Pushed, Event, Replies, Nothing
    <3>4. painted' \in [Conns -> SUBSET Conns]
      BY <2>15, <3>3 DEF WriteSucceeds, ConnType
    <3> QED BY <2>15, <3>2, <3>4 DEF WriteSucceeds, ConnType
  <2>16. CASE WriteFails(c) BY <2>16 DEF WriteFails, ConnType
  <2>17. CASE Reap(c)       BY <2>17, <2>2 DEF Reap, ReapLeadsTo
  <2> QED
    BY <1>1, <2>3, <2>4, <2>5, <2>6, <2>7, <2>8, <2>9, <2>10, <2>11, <2>12, <2>13,
       <2>14, <2>15, <2>16, <2>17 DEF TaskStep, Dispatch
<1>2. ASSUME NEW c \in Conns, FrontStep(c) PROVE ConnType'
  <2>1. CASE Connect(c)
    <3>1. PICK r \in {"host", "attach"} : Ask(c, r, "asked")
      BY <2>1 DEF Connect
    <3> QED BY <2>1, <3>1, AskTyped DEF Connect, Ask, ConnType, Requests, FrontStates, TaskStates
  <2>2. CASE SendRequest(c)
    <3>1. PICK r \in {"control", "detach"}, s \in {"hosted", "left"} : Ask(c, r, s)
      BY <2>2 DEF SendRequest
    <3> QED BY <2>2, <3>1, AskTyped DEF SendRequest, Ask, ConnType, Requests, FrontStates
  <2>3. CASE HangUp(c) BY <2>3 DEF HangUp, ConnType, FrontStates
  <2> QED BY <1>2, <2>1, <2>2, <2>3 DEF FrontStep
<1>3. ASSUME NEW e \in Conns, EngineAct(e) PROVE ConnType'
  BY <1>3 DEF EngineAct, HandleControlLine, Paint, LastTabCloses, EngineGone, HostTask, connVars,
     ConnType
<1>4. CASE Ages \/ UNCHANGED vars
  BY <1>4 DEF Ages, vars, connVars, ConnType
<1> QED BY <1>1, <1>2, <1>3, <1>4 DEF Next

LEMMA MetStaysTyped ==
  ASSUME MetTyped, [Next]_vars PROVE MetTyped'
<1> USE DEF MetTyped, connVars
<1>1. ASSUME NEW c \in Conns, TaskStep(c) PROVE MetTyped'
  <2>1. OpensMeet(c) \in [Conns -> {"nobody", "route", "task"}]
    BY DEF OpensMeet
  <2>2. CASE ReadHost(c)   BY <2>1, <2>2 DEF ReadHost, OpenMeets
  <2>3. CASE ReadDetach(c) BY <2>1, <2>3 DEF ReadDetach, CloseMeets
  <2>4. CASE Reap(c)       BY <2>1, <2>4 DEF Reap, CloseMeets
  <2> QED
    BY <1>1, <2>2, <2>3, <2>4
    DEF TaskStep, Dispatch, ReadAttach, ReadHostConflict, Opening, HostAccepted, HostRefused,
        ReadControl, Forward, CloseFirst, CloseSecond, Push, WriteSucceeds, WriteFails
<1>2. ASSUME NEW c \in Conns, FrontStep(c) PROVE MetTyped'
  BY <1>2 DEF FrontStep, Connect, SendRequest, HangUp, Ask
<1>3. ASSUME NEW e \in Conns, EngineAct(e) PROVE MetTyped'
  BY <1>3 DEF EngineAct, HandleControlLine, Paint, LastTabCloses, EngineGone, HostTask
<1>4. CASE Ages \/ UNCHANGED vars
  BY <1>4 DEF Ages, vars
<1> QED BY <1>1, <1>2, <1>3, <1>4 DEF Next

(* Every reachable state of the shared-engine path is well typed, its       *)
(* registry and host included.                                              *)
THEOREM PathTyped == Spec => []TypeOK
<1>1. /\ CompositionInv /\ ConnType /\ MetTyped /\ RegInv /\ GensIssued /\ [Next]_vars
         => (CompositionInv /\ ConnType /\ MetTyped /\ RegInv /\ GensIssued)'
  <2>1. CompositionInv => QueueType /\ PagesTyped /\ HostInv /\ CoreType
    BY DEF CompositionInv, HostInv
  <2> QED
    BY <2>1, StepIsHostStep, HostStepPreserves, QueueStepTyped, PagesStayTyped,
       ConnStepTyped, MetStaysTyped, StepIsRegStep, RegStepPreserves
    DEF CompositionInv
<1>2. Init => CompositionInv /\ ConnType /\ MetTyped /\ RegInv /\ GensIssued
  BY CompositionInit, RegInitEstablishes, HostAssumption
  DEF Init, GensIssued, NoGeneration, RegInv, RegTypeOK, RegInit, ConnType, MetTyped, TaskStates,
      Requests, FrontStates
<1>3. CompositionInv /\ ConnType /\ MetTyped /\ RegInv /\ GensIssued => TypeOK
  BY RegistryAssumption
  DEF CompositionInv, HostInv, CoreType, QueueType, PagesTyped, ConnType, MetTyped, RegInv, RegTypeOK,
      GensIssued, TypeOK, HostTypeOK, EngineStates, TaskStates, Requests, FrontStates
<1> QED BY <1>1, <1>2, <1>3, PTL DEF Spec

-----------------------------------------------------------------------------
(* The tasks, and what a refusal leaves.                                    *)

(* Where a connection's task, its open() and its frontend stand together.   *)
Waits(c) == task[c] = "opening" \/ inbox[c] \in {<<"host">>, <<"attach">>}

InStep(c) ==
  /\ outgoing[c] # Nothing => task[c] = "writing"
  /\ call[c] \in {"locking", "spawning", "registering", "sending"} => task[c] = "opening"
  /\ inbox[c] \in {<<"host">>, <<"attach">>} \/ front[c] = "away" => call[c] = "none"
  /\ Waits(c) => front[c] \in {"asked", "gone"}
  /\ c \in closing => task[c] \in {"detaching", "closing"}

Refused(c) == "refused" \in {front[c], outgoing[c].kind}

RefusedHasNothing(c) ==
  Refused(c) => /\ ~Waits(c) /\ front[c] # "away" /\ call[c] \in {"none", "failed"}
                /\ ~IsCurrent(KeyOf[c], gen[c])

TasksInv == \A c \in Conns : InStep(c) /\ RefusedHasNothing(c)

Basis == CompositionInv /\ ConnType /\ MetTyped /\ OwnersInv

LEMMA OthersInStep ==
  ASSUME Basis, NEW c \in Conns, NEW d \in Conns \ {c}, InStep(d), RefusedHasNothing(d),
         task'[d] = task[d], inbox'[d] = inbox[d], front'[d] = front[d], outgoing'[d] = outgoing[d],
         gen'[d] = gen[d], call'[d] = call[d], d \in closing' => d \in closing,
         panes'[KeyOf[d]] \in {panes[KeyOf[d]], NoGeneration, nextGeneration + 1}
  PROVE  InStep(d)' /\ RefusedHasNothing(d)'
<1>1. gen[d] \in 0 .. nextGeneration /\ nextGeneration \in Nat
  BY DEF Basis, OwnersInv, GensIssued, RegInv, RegTypeOK
<1>2. IsCurrent(KeyOf[d], gen[d])' => IsCurrent(KeyOf[d], gen[d])
  BY <1>1 DEF IsCurrent, NoGeneration
<1> QED BY <1>2 DEF InStep, RefusedHasNothing, Refused, Waits

LEMMA TaskInStep ==
  ASSUME Basis, TasksInv, NEW c \in Conns, TaskStep(c)
  PROVE  TasksInv'
<1> USE DEF Goto, Answer
<1>a. /\ task \in [Conns -> TaskStates] /\ front \in [Conns -> FrontStates]
      /\ inbox \in [Conns -> Seq(Requests)]
      /\ outgoing \in [Conns -> Pushed \cup Replies \cup {Nothing}]
      /\ call \in [Conns -> CallStates] /\ closing \in SUBSET Conns
      /\ DOMAIN gen = Conns /\ panes \in [Keys -> Nat] /\ KeyOf \in [Conns -> Keys]
      /\ AsksOnce(c) /\ HoldsItsOwn(c) /\ InStep(c) /\ RefusedHasNothing(c)
  BY HostAssumption
  DEF Basis, ConnType, CompositionInv, HostInv, CoreType, QueueType, OwnersInv, GensIssued,
      RegInv, RegTypeOK, TasksInv
<1>b. Nothing.kind = "nothing" /\ \A kind \in {"hosted", "attached", "ok", "refused"} : [kind |-> kind].kind = kind
  BY DEF Nothing
<1> DEFINE Own == InStep(c)' /\ RefusedHasNothing(c)'
<1>c. ASSUME \A d \in Conns \ {c} :
                /\ task'[d] = task[d] /\ inbox'[d] = inbox[d] /\ front'[d] = front[d]
                /\ outgoing'[d] = outgoing[d] /\ gen'[d] = gen[d] /\ call'[d] = call[d]
                /\ d \in closing' => d \in closing
                /\ panes'[KeyOf[d]] \in {panes[KeyOf[d]], NoGeneration, nextGeneration + 1},
             Own
      PROVE  TasksInv'
  BY <1>c, OthersInStep DEF TasksInv
<1>d. ASSUME NEW r, Reads(c, r), front' = front
      PROVE  /\ task[c] = "reading" /\ inbox[c] = <<r>> /\ inbox'[c] = <<>>
             /\ \A d \in Conns \ {c} : inbox'[d] = inbox[d]
             /\ front[c] # "away"
  BY <1>d, ReadsOne DEF Basis
<1> USE DEF regVars, hostVars, connVars
<1>5. CASE ReadAttach(c)
  <2>1. Reads(c, "attach") /\ front' = front
    BY <1>5 DEF ReadAttach
  <2>2. Own
    BY <1>a, <1>b, <1>d, <2>1, <1>5 DEF ReadAttach, InStep, RefusedHasNothing, Refused, Waits
  <2> QED BY <1>a, <1>c, <1>d, <1>5, <2>1, <2>2 DEF ReadAttach, Attach, NewGeneration
<1>6. CASE ReadHostConflict(c)
  <2>1. Reads(c, "host") /\ front' = front
    BY <1>6 DEF ReadHostConflict
  <2>2. gen[c] = NoGeneration /\ c \notin closing /\ call[c] = "none"
    BY <1>a, <1>d, <2>1 DEF AsksOnce, Unregistered, InStep
  <2>3. /\ task' = [task EXCEPT ![c] = "writing"] /\ outgoing' = [outgoing EXCEPT ![c] = [kind |-> "refused"]]
        /\ UNCHANGED <<front, closing, call, gen>>
    BY <1>6 DEF ReadHostConflict
  <2>4. Own
    <3>1. task'[c] = "writing" /\ inbox'[c] = <<>> /\ front'[c] # "away" /\ gen'[c] = NoGeneration
      BY <1>a, <1>d, <2>1, <2>2, <2>3
    <3> QED BY <2>2, <2>3, <3>1 DEF InStep, RefusedHasNothing, Waits, IsCurrent
  <2> QED BY <1>a, <1>c, <1>d, <1>6, <2>1, <2>4 DEF ReadHostConflict
<1>7. CASE ReadHost(c)
  <2>1. Reads(c, "host") /\ front' = front
    BY <1>7 DEF ReadHost
  <2>2. ~Refused(c) /\ front[c] \in {"asked", "gone"} /\ c \notin closing
    BY <1>a, <1>d, <2>1 DEF InStep, RefusedHasNothing, Waits
  <2>3. /\ task' = [task EXCEPT ![c] = "opening"] /\ call' = [call EXCEPT ![c] = "locking"]
        /\ UNCHANGED <<front, outgoing, closing>>
    BY <1>7 DEF ReadHost, OpenBegin
  <2>4. Own
    <3>1. /\ task'[c] = "opening" /\ call'[c] = "locking" /\ outgoing'[c] = outgoing[c]
          /\ front'[c] = front[c] /\ c \notin closing' /\ inbox'[c] = <<>>
      BY <1>a, <1>d, <2>1, <2>2, <2>3
    <3>2. outgoing[c] = Nothing
      BY <1>a, <1>d, <2>1 DEF InStep
    <3> QED BY <2>2, <3>1, <3>2 DEF InStep, RefusedHasNothing, Refused, Waits
  <2> QED BY <1>a, <1>c, <1>d, <1>7, <2>1, <2>4 DEF ReadHost, OpenBegin, Attach, NewGeneration
<1>8. CASE Opening(c)
  <2>0. task[c] = "opening" /\ UNCHANGED <<regVars, connVars>>
    BY <1>8 DEF Opening
  <2>1. closing' = closing /\ \A d \in Conns \ {c} : call'[d] = call[d]
    <3>1. \A s : \A d \in Conns \ {c} : [call EXCEPT ![c] = s][d] = call[d]
      BY <1>a
    <3>2. CASE OpenRefused(c)     BY <3>1, <3>2 DEF OpenRefused
    <3>3. CASE OpenFindsEngine(c) BY <3>1, <3>3 DEF OpenFindsEngine
    <3>4. CASE OpenStarts(c)      BY <3>1, <3>4 DEF OpenStarts
    <3>5. CASE SpawnReady(c)      BY <3>1, <3>5 DEF SpawnReady
    <3>6. CASE SpawnFails(c)      BY <3>1, <3>6 DEF SpawnFails
    <3>7. CASE Register(c)        BY <3>1, <3>7 DEF Register
    <3>8. CASE SendAttach(c)
      <4>1. closing' = closing /\ \E s : call' = [call EXCEPT ![c] = s]
        BY <3>8 DEF SendAttach
      <4> QED BY <3>1, <4>1
    <3> QED BY <1>8, <3>2, <3>3, <3>4, <3>5, <3>6, <3>7, <3>8 DEF Opening
  <2>2. Own
    BY <1>a, <2>0, <2>1 DEF InStep, RefusedHasNothing, Refused, Waits, AsksOnce, Untouched
  <2> QED BY <1>c, <2>0, <2>1, <2>2
<1>9. CASE HostAccepted(c)
  <2>0. /\ task[c] = "opening" /\ task' = [task EXCEPT ![c] = "writing"]
        /\ outgoing' = [outgoing EXCEPT ![c] = [kind |-> "hosted"]]
        /\ UNCHANGED <<regVars, inbox, gen, front>>
        /\ closing' = closing /\ call' = [call EXCEPT ![c] = "opened"]
    BY <1>9 DEF HostAccepted, SendAttach
  <2>1. Own
    BY <1>a, <1>b, <2>0 DEF InStep, RefusedHasNothing, Refused, Waits, AsksOnce, Untouched
  <2> QED BY <1>a, <1>c, <2>0, <2>1
<1>10. CASE HostRefused(c)
  <2>1. Own
    BY <1>a, <1>b, <1>10
    DEF HostRefused, InStep, RefusedHasNothing, Refused, Waits, AsksOnce, Untouched, Detach, IsCurrent, NoGeneration
  <2> QED BY <1>a, <1>c, <1>10, <2>1 DEF HostRefused, Detach
<1>11. CASE ReadControl(c)
  <2>1. Reads(c, "control") /\ front' = front
    BY <1>11 DEF ReadControl
  <2>2. Own
    BY <1>a, <1>b, <1>d, <2>1, <1>11
    DEF ReadControl, InStep, RefusedHasNothing, Refused, Waits, IsCurrent
  <2> QED BY <1>a, <1>c, <1>d, <1>11, <2>1, <2>2 DEF ReadControl
<1>12. CASE Forward(c)
  <2>1. Own
    BY <1>a, <1>b, <1>12
    DEF Forward, ForwardControl, InStep, RefusedHasNothing, Refused, Waits, AsksOnce, IsCurrent
  <2> QED BY <1>a, <1>c, <1>12, <2>1 DEF Forward, ForwardControl
<1>13. CASE ReadDetach(c)
  <2>1. Reads(c, "detach") /\ front' = front
    BY <1>13 DEF ReadDetach
  <2>2. Own
    BY <1>a, <1>b, <1>d, <2>1, <1>13
    DEF ReadDetach, InStep, RefusedHasNothing, Refused, Waits, IsCurrent, Detach, NoGeneration
  <2> QED BY <1>a, <1>c, <1>d, <1>13, <2>1, <2>2 DEF ReadDetach, Detach
<1>15. CASE CloseFirst(c)
  <2>1. Own
    BY <1>a, <1>b, <1>15
    DEF CloseFirst, CloseCheck, InStep, RefusedHasNothing, Refused, Waits, AsksOnce, IsCurrent
  <2> QED BY <1>a, <1>c, <1>15, <2>1 DEF CloseFirst, CloseCheck
<1>16. CASE CloseSecond(c)
  <2>1. Own
    BY <1>a, <1>b, <1>16
    DEF CloseSecond, CloseRemove, InStep, RefusedHasNothing, Refused, Waits, AsksOnce, IsCurrent
  <2> QED BY <1>a, <1>c, <1>16, <2>1 DEF CloseSecond, CloseRemove
<1>17. CASE Push(c)
  <2>0. Head(events[c]).kind # "refused"
    <3>1. events[c] \in Seq(Event) /\ events[c] # <<>>
      BY <1>17 DEF Push, TakeEvent, Basis, CompositionInv, QueueType
    <3>2. Head(events[c]) \in Event
      BY <3>1
    <3> QED BY <3>2 DEF Event
  <2>1. Own
    BY <1>a, <1>b, <1>17, <2>0
    DEF Push, TakeEvent, InStep, RefusedHasNothing, Refused, Waits, Resting, IsCurrent
  <2> QED BY <1>a, <1>c, <1>17, <2>1 DEF Push, TakeEvent
<1>18. CASE WriteSucceeds(c)
  <2>1. front'[c] = FrontAfter(c, outgoing[c]) /\ inbox[c] = <<>> /\ front[c] # "away"
    BY <1>a, <1>18 DEF WriteSucceeds, AsksOnce, Untouched
  <2>2. FrontAfter(c, outgoing[c]) # "away" /\ (FrontAfter(c, outgoing[c]) = "refused" => Refused(c))
    BY <2>1 DEF FrontAfter, Refused
  <2>3. Own
    BY <1>a, <1>b, <1>18, <2>1, <2>2
    DEF WriteSucceeds, InStep, RefusedHasNothing, Refused, Waits, IsCurrent
  <2> QED BY <1>a, <1>c, <1>18, <2>3 DEF WriteSucceeds
<1>19. CASE WriteFails(c)
  <2>1. Own
    BY <1>a, <1>b, <1>19
    DEF WriteFails, InStep, RefusedHasNothing, Refused, Waits, AsksOnce, IsCurrent
  <2> QED BY <1>a, <1>c, <1>19, <2>1 DEF WriteFails
<1>20. CASE Reap(c)
  <2>1. Own
    BY <1>a, <1>b, <1>20
    DEF Reap, ReapLeadsTo, Resting, InStep, RefusedHasNothing, Refused, Waits, IsCurrent, Detach, NoGeneration
  <2> QED BY <1>a, <1>c, <1>20, <2>1 DEF Reap, Detach
<1> QED
  BY <1>5, <1>6, <1>7, <1>8, <1>9, <1>10, <1>11, <1>12, <1>13, <1>15, <1>16, <1>17, <1>18,
     <1>19, <1>20 DEF TaskStep, Dispatch

LEMMA FrontInStep ==
  ASSUME Basis, TasksInv, NEW c \in Conns, FrontStep(c)
  PROVE  TasksInv'
<1>a. /\ task \in [Conns -> TaskStates] /\ front \in [Conns -> FrontStates]
      /\ DOMAIN inbox = Conns /\ AsksOnce(c) /\ InStep(c) /\ RefusedHasNothing(c)
      /\ panes \in [Keys -> Nat] /\ KeyOf \in [Conns -> Keys]
  BY HostAssumption DEF Basis, ConnType, OwnersInv, RegInv, RegTypeOK, TasksInv
<1>c. ASSUME UNCHANGED <<regVars, hostVars, gen, outgoing>>, InStep(c)' /\ RefusedHasNothing(c)',
             \A d \in Conns \ {c} : task'[d] = task[d] /\ inbox'[d] = inbox[d] /\ front'[d] = front[d]
      PROVE  TasksInv'
  BY <1>a, <1>c, OthersInStep DEF TasksInv, regVars, hostVars
<1> USE DEF regVars, hostVars
<1>1. CASE Connect(c)
  <2>1. PICK r \in {"host", "attach"} : Ask(c, r, "asked") /\ task' = [task EXCEPT ![c] = "reading"]
    BY <1>1 DEF Connect
  <2>2. inbox[c] = <<>> /\ task[c] = "none" /\ gen[c] = NoGeneration /\ front[c] = "away"
    BY <1>a, <1>1 DEF Connect, AsksOnce, Untouched, Unregistered
  <2>3. call[c] = "none" /\ outgoing[c] = Nothing /\ c \notin closing
    BY <1>a, <2>2 DEF InStep
  <2>4. inbox'[c] = <<r>> /\ task'[c] = "reading" /\ front'[c] = "asked"
    BY <1>a, <2>1, <2>2 DEF Ask
  <2>5. InStep(c)' /\ RefusedHasNothing(c)'
    BY <2>1, <2>3, <2>4 DEF Ask, InStep, RefusedHasNothing, Refused, Waits, Nothing
  <2> QED BY <1>a, <1>c, <2>1, <2>5 DEF Ask
<1>2. CASE SendRequest(c)
  <2>1. PICK r \in {"control", "detach"}, s \in {"hosted", "left"} : Ask(c, r, s)
    BY <1>2 DEF SendRequest
  <2>2. inbox[c] = <<>> /\ task[c] = "reading" /\ task' = task /\ outgoing[c] = Nothing /\ c \notin closing
    BY <1>a, <1>2 DEF SendRequest, InStep
  <2>3. inbox'[c] = <<r>> /\ front'[c] = s
    BY <1>a, <2>1, <2>2 DEF Ask
  <2>5. InStep(c)' /\ RefusedHasNothing(c)'
    BY <1>a, <2>1, <2>2, <2>3 DEF Ask, InStep, RefusedHasNothing, Refused, Waits, Nothing
  <2> QED BY <1>a, <1>c, <2>1, <2>2, <2>5 DEF Ask
<1>3. CASE HangUp(c)
  <2>1. front'[c] = "gone" /\ UNCHANGED <<regVars, hostVars, task, inbox, gen, outgoing>> /\ front[c] # "away"
    BY <1>a, <1>3 DEF HangUp
  <2>2. InStep(c)' /\ RefusedHasNothing(c)'
    BY <1>a, <2>1 DEF InStep, RefusedHasNothing, Refused, Waits, IsCurrent
  <2> QED BY <1>a, <1>c, <1>3, <2>1, <2>2 DEF HangUp
<1> QED BY <1>1, <1>2, <1>3 DEF FrontStep

LEMMA TasksStayInStep == Basis /\ TasksInv /\ [Next]_vars => TasksInv'
<1> SUFFICES ASSUME Basis, TasksInv, [Next]_vars PROVE TasksInv'
  OBVIOUS
<1>1. ASSUME UNCHANGED <<regVars, task, inbox, gen, front, outgoing, call, closing>> PROVE TasksInv'
  BY <1>1 DEF TasksInv, InStep, RefusedHasNothing, Refused, Waits, IsCurrent, regVars
<1>2. ASSUME NEW e \in Conns, EngineAct(e) PROVE TasksInv'
  <2> DEFINE Same == UNCHANGED <<regVars, task, inbox, gen, front, outgoing, call, closing>>
  <2> USE DEF connVars, hostVars
  <2>1. HandleControlLine(e) => Same BY DEF HandleControlLine, EngineTakesLine
  <2>2. Paint(e) => Same             BY DEF Paint, EnginePaints
  <2>3. LastTabCloses(e) => Same     BY DEF LastTabCloses
  <2>4. EngineGone(e) => Same        BY DEF EngineGone, EngineExits
  <2>5. HostTask(e) => Same          BY DEF HostTask, Deliver, PumpBreaks, WatchExit
  <2>6. Same
    BY <1>2, <2>1, <2>2, <2>3, <2>4, <2>5 DEF EngineAct
  <2> QED BY <1>1, <2>6
<1>3. ASSUME Ages \/ UNCHANGED vars
      PROVE  TasksInv'
  <2> DEFINE Same == UNCHANGED <<regVars, task, inbox, gen, front, outgoing, call, closing>>
  <2>1. Ages => Same
    BY DEF Ages, StartAgesOut, connVars
  <2>2. UNCHANGED vars => Same
    BY DEF vars, connVars, hostVars, regVars
  <2> QED BY <1>1, <1>3, <2>1, <2>2
<1>4. ASSUME NEW c \in Conns, TaskStep(c) PROVE TasksInv'
  BY <1>4, TaskInStep
<1>5. ASSUME NEW c \in Conns, FrontStep(c) PROVE TasksInv'
  BY <1>5, FrontInStep
<1> QED BY <1>2, <1>3, <1>4, <1>5 DEF Next

LEMMA PathInvariant == Spec => [](Basis /\ TasksInv)
<1>1. Init => Basis /\ TasksInv
  <2> SUFFICES ASSUME Init PROVE Basis /\ TasksInv
    OBVIOUS
  <2>1. CompositionInv /\ OwnersInv
    BY CompositionInit, OwnersBegin
  <2>2. ConnType /\ MetTyped
    BY DEF Init, ConnType, MetTyped, TaskStates, Requests, FrontStates
  <2>3. TasksInv
    BY DEF Init, HostInit, TasksInv, InStep, RefusedHasNothing, Refused, Waits, Nothing
  <2> QED BY <2>1, <2>2, <2>3 DEF Basis
<1>2. Basis /\ [Next]_vars => Basis'
  <2> SUFFICES ASSUME Basis, [Next]_vars PROVE Basis'
    OBVIOUS
  <2>1. CompositionInv /\ QueueType /\ PagesTyped /\ HostInv /\ CoreType /\ ConnType
        /\ MetTyped /\ OwnersInv
    BY DEF Basis, CompositionInv, HostInv
  <2>2. CompositionInv'
    BY <2>1, StepIsHostStep, HostStepPreserves, QueueStepTyped, PagesStayTyped DEF CompositionInv
  <2> QED BY <2>1, <2>2, ConnStepTyped, MetStaysTyped, OwnersStep DEF Basis
<1> QED BY <1>1, <1>2, TasksStayInStep, PTL DEF Spec

(* A frontend that was refused has nothing left with the daemon: no         *)
(* registration and no route, whoever is served for its pane meanwhile.     *)
THEOREM RefusedIsForgotten == Spec => []RefusedLeavesNothing
<1>1. Basis /\ TasksInv => RefusedLeavesNothing
  <2> SUFFICES ASSUME Basis, TasksInv, NEW c \in Conns, Refused(c)
               PROVE  sinks[KeyOf[c]] # c /\ ~IsCurrent(KeyOf[c], gen[c])
    BY DEF RefusedLeavesNothing, Refused
  <2>1. call[c] \in {"none", "failed"} /\ ~IsCurrent(KeyOf[c], gen[c])
    BY DEF TasksInv, RefusedHasNothing
  <2> QED
    BY <2>1, HostAssumption DEF Basis, CompositionInv, HostInv, RouteHasOpen
<1> QED BY <1>1, PathInvariant, PTL
=============================================================================
