------------------------ MODULE DaemonProcessProofs ------------------------
(* Proofs about the daemon's processes: the socket file always names the    *)
(* daemon that serves, for any number of daemons started and killed.        *)
EXTENDS Frontends, TLAPS

(* The processes that hold the lock are those between taking it and exit.   *)
Holding == {"locked", "clearing", "binding", "serving", "stopping", "unlinked"}

LockIsHolders == \A d \in Procs : serve[d] \in Holding <=> lock = d

NameIsHolders ==
  \A d \in Procs :
    /\ serve[d] \in {"serving", "stopping"} => socket = d
    /\ serve[d] \in {"binding", "unlinked"} => socket = Nobody

ProcInv == ProcTypeOK /\ LockIsHolders /\ NameIsHolders

LEMMA ProcInitInv == ProcInit => ProcInv
BY ProcAssumption
   DEF ProcInit, ProcInv, ProcTypeOK, ServeStates, LockIsHolders, Holding, NameIsHolders

LEMMA ProcNextInv == ProcInv /\ [ProcNext]_procVars => ProcInv'
<1> SUFFICES ASSUME ProcInv, [ProcNext]_procVars PROVE ProcInv'
  OBVIOUS
<1> USE ProcAssumption
<1>1. ASSUME NEW d \in Procs,
             Begin(d) \/ TakeLock(d) \/ Yield(d) \/ Decide(d) \/ ClearStale(d) \/ Bind(d)
               \/ StopServing(d) \/ Unlink(d) \/ Exit(d) \/ Killed(d)
      PROVE  ProcTypeOK'
  BY <1>1 DEF ProcInv, ProcTypeOK, ServeStates, Becomes, Begin, TakeLock, Yield, Decide,
              Decision, ClearStale, Bind, StopServing, Unlink, Exit, Killed, ReleasedBy
<1>2. ASSUME NEW d \in Procs,
             Begin(d) \/ TakeLock(d) \/ Yield(d) \/ Decide(d) \/ ClearStale(d) \/ Bind(d)
               \/ StopServing(d) \/ Unlink(d) \/ Exit(d) \/ Killed(d)
      PROVE  LockIsHolders'
  BY <1>2 DEF ProcInv, ProcTypeOK, LockIsHolders, Holding, Ended, Becomes, Begin, TakeLock,
              Yield, LockIsFree, Decide, Decision, ClearStale, Bind, StopServing, Unlink,
              Exit, Killed, ReleasedBy
<1>3. ASSUME NEW d \in Procs,
             Begin(d) \/ TakeLock(d) \/ Yield(d) \/ Decide(d) \/ ClearStale(d) \/ Bind(d)
               \/ StopServing(d) \/ Unlink(d) \/ Exit(d) \/ Killed(d)
      PROVE  NameIsHolders'
  BY <1>3 DEF ProcInv, ProcTypeOK, LockIsHolders, NameIsHolders, Holding, Ended, Becomes,
              Begin, TakeLock, Yield, LockIsFree, Decide, Decision, ClearStale, Bind,
              StopServing, Unlink, Exit, Killed, ReleasedBy
<1>4. CASE ProcNext
  BY <1>4, <1>1, <1>2, <1>3 DEF ProcNext, ServeStep, ProcInv
<1>5. CASE UNCHANGED procVars
  BY <1>5 DEF procVars, ProcInv, ProcTypeOK, LockIsHolders, NameIsHolders
<1>6. QED
  BY <1>4, <1>5

(* A serving daemon is always the one the socket file names, and nobody     *)
(* ever binds over a name.                                                  *)
THEOREM DaemonNamed == ProcSpec => []SocketIsTrue
<1>1. ProcInv => SocketIsTrue
  BY DEF ProcInv, NameIsHolders, SocketIsTrue, ServingIsReachable, BindIsFree
<1>2. QED
  BY <1>1, ProcInitInv, ProcNextInv, PTL DEF ProcSpec

(* A pane that waits for a daemon, or leaves one, has started it.           *)
ChildKnown ==
  /\ at \in [Panes -> PaneStates] /\ child \in [Panes -> Procs \cup {Nobody}]
  /\ \A p \in Panes : at[p] \in {"waiting", "leaving"} => child[p] \in Procs

LEMMA FailsKeepsChild ==
  ASSUME ChildKnown, NEW p \in Panes, NEW r, Fails(p, r)
  PROVE  ChildKnown'
<1>1. /\ child' = [child EXCEPT ![p] = Nobody]
      /\ at' = [at EXCEPT ![p] = "trying"] \/ at' = [at EXCEPT ![p] = "own"]
  BY DEF Fails, Moves
<1>2. QED
  BY <1>1 DEF ChildKnown, PaneStates

LEMMA PaneStepKeepsChild ==
  ASSUME ChildKnown, NEW p \in Panes, PaneStep(p)
  PROVE  ChildKnown'
<1>1. CASE Look(p)
  BY <1>1 DEF Look, Moves, ChildKnown, PaneStates
<1>2. CASE StartServe(p)
  BY <1>2 DEF StartServe, Moves, ChildKnown, PaneStates
<1>3. CASE PollFinds(p)
  BY <1>3 DEF PollFinds, Moves, ChildKnown, PaneStates
<1>4. CASE PollGivesUp(p)
  BY <1>4 DEF PollGivesUp, Moves, ChildKnown, PaneStates
<1>5. CASE Abandon(p)
  BY <1>5, FailsKeepsChild DEF Abandon
<1>6. CASE Connect(p)
  <2>1. CASE SocketIsLive
    BY <1>6, <2>1 DEF Connect, Moves, ChildKnown, PaneStates
  <2>2. CASE ~SocketIsLive
    BY <1>6, <2>2, FailsKeepsChild DEF Connect
  <2>3. QED
    BY <2>1, <2>2
<1>7. CASE ReadAnswer(p)
  <2>1. CASE Head(unread[p]) = "hosted"
    <3>1. at' = [at EXCEPT ![p] = "hosted"] /\ child' = child
      BY <1>7, <2>1 DEF ReadAnswer, Moves
    <3>2. QED
      BY <3>1 DEF ChildKnown, PaneStates
  <2>2. CASE Head(unread[p]) # "hosted"
    <3>1. Fails(p, Head(unread[p]))
      BY <1>7, <2>2 DEF ReadAnswer
    <3>2. QED
      BY <3>1, FailsKeepsChild
  <2>3. QED
    BY <2>1, <2>2
<1>8. CASE AnswerNeverCame(p)
  BY <1>8, FailsKeepsChild DEF AnswerNeverCame
<1>9. CASE SessionLost(p)
  BY <1>9, FailsKeepsChild DEF SessionLost
<1>10. CASE CannotStart(p)
  BY <1>10, FailsKeepsChild DEF CannotStart
<1>11. QED
  BY <1>1, <1>2, <1>3, <1>4, <1>5, <1>6, <1>7, <1>8, <1>9, <1>10 DEF PaneStep

LEMMA FrontKeepsChild == ChildKnown /\ [FrontNext]_frontVars => ChildKnown'
<1> SUFFICES ASSUME ChildKnown, [FrontNext]_frontVars PROVE ChildKnown'
  OBVIOUS
<1>1. ASSUME NEW p \in Panes, DaemonFor(p) \/ EngineLost(p) \/ Finish(p)
      PROVE  ChildKnown'
  BY <1>1 DEF DaemonFor, Accept, Answer, EngineLost, Finish, Writes, Moves, ChildKnown, PaneStates
<1>2. ASSUME UNCHANGED paneVars
      PROVE  ChildKnown'
  BY <1>2 DEF paneVars, ChildKnown, PaneStates
<1>3. (\E d \in Procs : Serves(d)) \/ RestartStops \/ RestartServes \/ RestartReports
        \/ Fault \/ UNCHANGED frontVars => UNCHANGED paneVars
  BY DEF Serves, RestartStops, RestartServes, RestartReports, Fault, frontVars, paneVars
<1>4. QED
  BY <1>1, <1>2, <1>3, PaneStepKeepsChild DEF FrontNext

LEMMA FrontStepIsProcStep ==
  ASSUME ProcTypeOK, ChildKnown, [FrontNext]_frontVars
  PROVE  [ProcNext]_procVars
<1>1. ASSUME NEW p \in Panes, PaneStep(p)
      PROVE  [ProcNext]_procVars
  <2>1. CASE StartServe(p)
    BY <2>1 DEF StartServe, ProcNext
  <2>2. CASE Abandon(p)
    <3>1. child[p] \in Procs
      BY <2>2 DEF Abandon, ChildKnown, PaneStates
    <3>2. Killed(child[p]) => ProcNext
      BY <3>1 DEF ProcNext
    <3>3. Killed(child[p]) \/ UNCHANGED procVars
      BY <2>2 DEF Abandon
    <3>4. QED
      BY <3>2, <3>3
  <2>3. ~StartServe(p) /\ ~Abandon(p) => UNCHANGED procVars
    BY <1>1 DEF PaneStep, Look, CannotStart, PollFinds, PollGivesUp, Connect, ReadAnswer,
                AnswerNeverCame, SessionLost
  <2>4. QED
    BY <2>1, <2>2, <2>3
<1>2. ASSUME NEW p \in Panes, DaemonFor(p) \/ EngineLost(p) \/ Finish(p)
      PROVE  UNCHANGED procVars
  BY <1>2 DEF DaemonFor, Accept, Answer, EngineLost, Finish, Writes
<1>3. CASE RestartStops
  <2>1. socket \in Procs
    BY <1>3 DEF RestartStops, SocketIsLive, ProcTypeOK
  <2>2. QED
    BY <1>3, <2>1 DEF RestartStops, ProcNext
<1>4. CASE RestartServes \/ RestartReports \/ Fault \/ (\E d \in Procs : Serves(d))
  BY <1>4 DEF RestartServes, RestartReports, Fault, Serves, ProcNext
<1>5. CASE UNCHANGED frontVars
  BY <1>5 DEF frontVars, procVars
<1>6. QED
  BY <1>1, <1>2, <1>3, <1>4, <1>5 DEF FrontNext

(* The frontends, the restart command and the faults they meet take only    *)
(* steps the daemon's processes allow, so what is true of those holds       *)
(* however many panes start, kill and restart daemons.                      *)
THEOREM FrontendsKeepNames == FrontSpec => []SocketIsTrue
<1>1. FrontInit => ProcInv /\ ChildKnown
  BY ProcInitInv, ProcAssumption DEF FrontInit, ChildKnown, PaneStates
<1>2. ProcInv /\ ChildKnown /\ [FrontNext]_frontVars => ProcInv' /\ ChildKnown'
  BY FrontKeepsChild, FrontStepIsProcStep, ProcNextInv DEF ProcInv
<1>3. ProcInv => SocketIsTrue
  BY DEF ProcInv, NameIsHolders, SocketIsTrue, ServingIsReachable, BindIsFree
<1>4. QED
  BY <1>1, <1>2, <1>3, PTL DEF FrontSpec

(* What a frontend keeps, as its type invariant describes it.               *)
PanesTyped ==
  /\ at \in [Panes -> PaneStates]
  /\ child \in [Panes -> Procs \cup {Nobody}]
  /\ tries \in [Panes -> 0 .. Attempts]
  /\ conn \in [Panes -> Procs \cup {Nobody}]
  /\ unread \in [Panes -> Seq({"hosted", "unavailable", "declined", "lost"})]
  /\ washosted \in [Panes -> BOOLEAN] /\ restores \in [Panes -> BOOLEAN]

ToolTyped ==
  tool \in [step : {"idle", "stopped", "waiting", "ours", "other"},
            old : Procs \cup {Nobody}, new : Procs \cup {Nobody}]

(* Going back counts an attempt, and never one too many.                    *)
LEMMA FailsTyped ==
  ASSUME PanesTyped, NEW p \in Panes, NEW r, Fails(p, r), washosted' \in [Panes -> BOOLEAN]
  PROVE  PanesTyped'
<1> USE FrontendAssumption DEF PanesTyped
<1>1. /\ conn' \in [Panes -> Procs \cup {Nobody}] /\ child' \in [Panes -> Procs \cup {Nobody}]
      /\ unread' \in [Panes -> Seq({"hosted", "unavailable", "declined", "lost"})]
  BY DEF Fails
<1>2. CASE GoesBack(p, r)
  <2>1. at' = [at EXCEPT ![p] = "trying"] /\ tries' = [tries EXCEPT ![p] = @ + 1] /\ restores' = restores
    BY <1>2 DEF Fails, Moves
  <2>2. tries[p] + 1 \in 0 .. Attempts
    BY <1>2 DEF GoesBack
  <2> QED BY <1>1, <2>1, <2>2 DEF PaneStates
<1>3. CASE ~GoesBack(p, r)
  <2>1. /\ at' = [at EXCEPT ![p] = "own"] /\ tries' = tries
        /\ restores' = [restores EXCEPT ![p] = RestoresAfter(r)]
    BY <1>3 DEF Fails, Moves
  <2>2. RestoresAfter(r) \in BOOLEAN
    BY DEF RestoresAfter
  <2> QED BY <1>1, <2>1, <2>2 DEF PaneStates
<1> QED BY <1>2, <1>3

LEMMA PaneStepTyped ==
  ASSUME PanesTyped, ProcTypeOK, NEW p \in Panes, PaneStep(p)
  PROVE  PanesTyped'
<1>a. at \in [Panes -> PaneStates] /\ washosted \in [Panes -> BOOLEAN]
  BY DEF PanesTyped
<1>1. ASSUME NEW s \in PaneStates, Moves(p, s), UNCHANGED <<tries, conn, unread, washosted, restores>>,
             child' \in [Panes -> Procs \cup {Nobody}]
      PROVE  PanesTyped'
  BY <1>1 DEF PanesTyped, Moves
<1>2. CASE Look(p)
  BY <1>1, <1>2 DEF Look, PanesTyped, PaneStates
<1>3. CASE StartServe(p)
  BY <1>1, <1>3 DEF StartServe, PanesTyped, PaneStates
<1>4. CASE CannotStart(p)
  BY <1>4, <1>a, FailsTyped DEF CannotStart
<1>5. CASE PollFinds(p)
  BY <1>1, <1>5 DEF PollFinds, PanesTyped, PaneStates
<1>6. CASE PollGivesUp(p)
  BY <1>1, <1>6 DEF PollGivesUp, PanesTyped, PaneStates
<1>7. CASE Abandon(p)
  BY <1>7, <1>a, FailsTyped DEF Abandon
<1>8. CASE Connect(p)
  <2>1. CASE SocketIsLive
    BY <1>8, <2>1 DEF Connect, Moves, PanesTyped, PaneStates, ProcTypeOK
  <2>2. CASE ~SocketIsLive
    BY <1>8, <1>a, <2>2, FailsTyped DEF Connect
  <2> QED BY <2>1, <2>2
<1>9. CASE ReadAnswer(p)
  <2>1. CASE Head(unread[p]) = "hosted"
    <3> DEFINE rest == Tail(unread[p])
    <3>1. /\ at' = [at EXCEPT ![p] = "hosted"] /\ UNCHANGED <<child, tries, conn, restores>>
          /\ washosted' = [washosted EXCEPT ![p] = TRUE] /\ unread[p] # <<>>
          /\ \E left \in {rest, <<>>} : unread' = [unread EXCEPT ![p] = left]
      BY <1>9, <2>1 DEF ReadAnswer, Moves
    <3>2. rest \in Seq({"hosted", "unavailable", "declined", "lost"})
      BY <3>1 DEF PanesTyped
    <3>3. unread' \in [Panes -> Seq({"hosted", "unavailable", "declined", "lost"})]
      <4> DEFINE S == Seq({"hosted", "unavailable", "declined", "lost"})
      <4>1. <<>> \in S /\ rest \in S /\ unread \in [Panes -> S]
        BY <3>2 DEF PanesTyped
      <4> HIDE DEF rest, S
      <4>2. PICK left \in {rest, <<>>} : unread' = [unread EXCEPT ![p] = left]
        BY <3>1
      <4>3. left \in S
        BY <4>1, <4>2
      <4>4. unread' \in [Panes -> S]
        BY <4>1, <4>2, <4>3
      <4> QED BY <4>4 DEF S
    <3> QED BY <3>1, <3>3 DEF PanesTyped, PaneStates
  <2>2. CASE Head(unread[p]) # "hosted"
    BY <1>9, <1>a, <2>2, FailsTyped DEF ReadAnswer
  <2> QED BY <2>1, <2>2
<1>10. CASE AnswerNeverCame(p)
  BY <1>10, <1>a, FailsTyped DEF AnswerNeverCame
<1>11. CASE SessionLost(p)
  BY <1>11, <1>a, FailsTyped DEF SessionLost
<1> QED BY <1>2, <1>3, <1>4, <1>5, <1>6, <1>7, <1>8, <1>9, <1>10, <1>11 DEF PaneStep

LEMMA FrontTyped ==
  ASSUME PanesTyped, ToolTyped, faults \in 0 .. MaxFaults, ProcTypeOK, [FrontNext]_frontVars
  PROVE  PanesTyped' /\ ToolTyped' /\ faults' \in 0 .. MaxFaults
<1> USE FrontendAssumption
<1>a. UNCHANGED paneVars => PanesTyped'
  BY DEF paneVars, PanesTyped
<1>b. UNCHANGED tool => ToolTyped'
  BY DEF ToolTyped
<1>1. ASSUME NEW p \in Panes, PaneStep(p) PROVE UNCHANGED <<faults, tool>>
  BY <1>1 DEF PaneStep, Look, StartServe, CannotStart, PollFinds, PollGivesUp, Abandon, Connect,
              ReadAnswer, AnswerNeverCame, SessionLost
<1>2. ASSUME NEW p \in Panes, NEW m \in {"hosted", "unavailable", "declined", "lost"}, Writes(p, m)
      PROVE  PanesTyped' /\ UNCHANGED tool
  <2> DEFINE S == {"hosted", "unavailable", "declined", "lost"}
  <2>1. unread \in [Panes -> Seq(S)] /\ unread[p] \in Seq(S) /\ m \in S
    BY DEF PanesTyped
  <2>2. Append(unread[p], m) \in Seq(S)
    <3> HIDE DEF S
    <3> QED BY <2>1
  <2>3. unread' = [unread EXCEPT ![p] = Append(unread[p], m)]
    BY <1>2 DEF Writes
  <2>4. unread' \in [Panes -> Seq(S)]
    <3> HIDE DEF S
    <3> QED BY <2>1, <2>2, <2>3
  <2> QED BY <1>2, <2>4 DEF Writes, PanesTyped
<1>3. ASSUME NEW p \in Panes, Accept(p) \/ Finish(p)
      PROVE  PanesTyped' /\ UNCHANGED <<faults, tool>>
  <2>1. CASE Accept(p)
    BY <2>1 DEF Accept, Moves, PanesTyped, PaneStates
  <2>2. CASE Finish(p)
    <3> DEFINE S == Seq({"hosted", "unavailable", "declined", "lost"})
    <3>1. <<>> \in S /\ unread \in [Panes -> S]
      BY DEF PanesTyped
    <3>2. unread' = [unread EXCEPT ![p] = <<>>]
      BY <2>2 DEF Finish
    <3>3. unread' \in [Panes -> S]
      <4> HIDE DEF S
      <4> QED BY <3>1, <3>2
    <3> QED BY <2>2, <3>3 DEF Finish, Moves, PanesTyped, PaneStates
  <2> QED BY <1>3, <2>1, <2>2
<1>4. ASSUME NEW p \in Panes, Answer(p)
      PROVE  PanesTyped' /\ UNCHANGED <<faults, tool>>
  BY <1>2, <1>4 DEF Answer
<1>5. ASSUME NEW p \in Panes, EngineLost(p)
      PROVE  PanesTyped' /\ UNCHANGED tool /\ faults' \in 0 .. MaxFaults
  BY <1>2, <1>5 DEF EngineLost
<1>6. CASE RestartStops \/ RestartServes \/ RestartReports
  <2>1. UNCHANGED <<paneVars, faults>>
    BY <1>6 DEF RestartStops, RestartServes, RestartReports
  <2>2. ToolTyped'
    BY <1>6 DEF RestartStops, RestartServes, RestartReports, ToolTyped, ProcTypeOK
  <2> QED BY <1>a, <2>1, <2>2
<1>7. CASE Fault \/ (\E d \in Procs : Serves(d)) \/ UNCHANGED frontVars
  <2>1. UNCHANGED <<paneVars, tool>> /\ faults' \in 0 .. MaxFaults
    BY <1>7 DEF Fault, Serves, frontVars, paneVars
  <2> QED BY <1>a, <1>b, <2>1
<1> QED BY <1>b, <1>1, <1>3, <1>4, <1>5, <1>6, <1>7, PaneStepTyped DEF FrontNext, DaemonFor

(* A pane goes back to the daemon at most REATTACH_ATTEMPTS times and every *)
(* variable keeps its kind, for any number of panes and daemons.            *)
THEOREM FrontendsTyped == FrontSpec => []FrontTypeOK
<1> DEFINE Inv == ProcInv /\ ChildKnown /\ PanesTyped /\ ToolTyped /\ faults \in 0 .. MaxFaults
<1>1. FrontInit => Inv
  BY ProcInitInv, ProcAssumption, FrontendAssumption
     DEF FrontInit, ChildKnown, PanesTyped, ToolTyped, PaneStates
<1>2. Inv /\ [FrontNext]_frontVars => Inv'
  BY FrontKeepsChild, FrontStepIsProcStep, ProcNextInv, FrontTyped DEF ProcInv
<1>3. Inv => FrontTypeOK
  BY DEF ProcInv, PanesTyped, ToolTyped, FrontTypeOK
<1> QED BY <1>1, <1>2, <1>3, PTL DEF FrontSpec
=============================================================================
