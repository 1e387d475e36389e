--------------------------- MODULE SettlesProofs ---------------------------
(* Proofs about the parts of an engine that wait (MCSettles), for any engines, tabs, panes and faults:   *)
(* the Chrome that the engines of several panes share; and the claim files, where two living panes share *)
(* a slot only if one was robbed of its claim, and only engines and panes that started before it had the *)
(* slot can have done that.                                                                              *)
EXTENDS MCSettles, TLAPS

-----------------------------------------------------------------------------
(* The shared Chrome: what is true of it between any two steps.             *)

LinkStages == {"sweep", "sweeping", "on", "stopping", "asked"}
LastStages == {"stopping", "asked", "stopped"}

\* One Chrome has the profile; one that is still coming up is waited for by its launcher, and a link
\* is up exactly as far as its engine is.
UniqueUp == \A c, d \in Chromes : chrome[c] = "up" /\ chrome[d] = "up" => c = d
StartingIsAwaited ==
  \A c \in Chromes : chrome[c] = "starting" => \E e \in Engines : child[e] = c /\ at[e] \in {"wait", "waitown"}
WaitersHaveChild == \A e \in Engines : at[e] \in {"wait", "waitown"} => child[e] \in Chromes
LinkedIsUp == \A e \in Engines : at[e] \in LinkStages => link[e] \in Chromes /\ chrome[link[e]] = "up"
LinksOfLinked == \A e \in Engines : link[e] # NoChrome => at[e] \in LinkStages \cup {"connect"}
ProcInv == LinksOfLinked /\ UniqueUp /\ StartingIsAwaited /\ WaitersHaveChild /\ LinkedIsUp

\* A target is made for a tab that is new, and is closed for good when its url is handed on; a tab is
\* open only while its engine is on, and attached only while it is open, unless it was missed.
TargetsAreNew == \A t \in Tabs : tabWindow[t] = "none" \/ step[t] = "create" => target[t] = "none"
HandedIsClosed == \A t \in Targets : handed[t] = 0 \/ (handed[t] = 1 /\ target[t] = "closed")
StepHasWindow == \A t \in Tabs : step[t] \notin {"idle", "failed"} => tabWindow[t] # "none"
OpenIsOn == \A t \in Tabs : tabWindow[t] = "open" => at[OwnerOf[t]] = "on"
SessionIsStep == \A t \in Tabs : session[t] => step[t] \in {"attached", "ready"}
SessionIsOpen ==
  \A t \in Tabs \ missed : session[t] \/ step[t] \in {"attach", "attached"} => tabWindow[t] = "open"
TabInv ==
  /\ TargetsAreNew /\ HandedIsClosed /\ StepHasWindow /\ OpenIsOn /\ SessionIsStep /\ SessionIsOpen
  /\ ClosedIsClosed

\* While Chrome is up and every engine is stopping or has stopped, one of them has still to ask, or
\* has asked and found nobody attached: it is the one that closes Chrome.
LastOneAsks ==
  missed = {} /\ (\A e \in Engines : at[e] \in LastStages) /\ (\E c \in Chromes : chrome[c] = "up")
    => \E e \in Engines : at[e] = "stopping" \/ (at[e] = "asked" /\ seen[e] = {})

SharedInv == SharedTypeOK /\ ProcInv /\ TabInv /\ LastOneAsks

\* The types, in the groups the steps below need.
ProcTypes ==
  /\ chrome \in [Chromes -> {"none", "starting", "up", "gone"}] /\ at \in [Engines -> EngineStages]
  /\ child \in [Engines -> Chromes \cup {NoChrome}] /\ link \in [Engines -> Chromes \cup {NoChrome}]
TabTypes ==
  /\ tabWindow \in [Tabs -> {"none", "open", "closed"}]
  /\ step \in [Tabs -> {"idle", "create", "created", "attach", "attached", "ready", "failed"}]
  /\ target \in [Targets -> {"none", "blank", "page", "closed"}] /\ session \in [Tabs -> BOOLEAN]
  /\ missed \subseteq Tabs /\ handed \in [Targets -> Nat]
RestTypes ==
  /\ files \in [own : Chromes \cup {NoChrome}, picked : Chromes \cup {NoChrome}]
  /\ seen \in [Engines -> SUBSET Targets] /\ foreign \in [Engines -> SUBSET Targets]
  /\ chfaults \in 0 .. MaxFaults

\* The types are these three groups.
LEMMA TypeGroups == SharedTypeOK <=> ProcTypes /\ TabTypes /\ RestTypes
BY DEF SharedTypeOK, ProcTypes, TabTypes, RestTypes

\* What is assumed of the constants, as the steps use it.
LEMMA Consts ==
  /\ OwnerOf \in [Tabs -> Engines] /\ Tabs \cap Outside = {} /\ Engines # {} /\ NoChrome \notin Chromes
  /\ Targets = Tabs \cup Outside /\ MaxFaults \in Nat /\ 1 \in Chromes
BY ChromeAssumption DEF ChromeAssumption, Chromes, Targets

\* When links are lost the tabs' variables keep their types (TabsLose).
LEMMA LostTypes ==
  ASSUME TabTypes, NEW es, TabsLose(es)
  PROVE  /\ tabWindow' \in [Tabs -> {"none", "open", "closed"}]
         /\ step' \in [Tabs -> {"idle", "create", "created", "attach", "attached", "ready", "failed"}]
         /\ session' \in [Tabs -> BOOLEAN]
BY DEF TabTypes, TabsLose

\* A tab that is attached, or about to be, after links are lost has lost nothing (TabsLose).
LEMMA LostTabs ==
  ASSUME TabTypes, NEW es, TabsLose(es)
  PROVE  \A t \in Tabs : session'[t] \/ step'[t] \in {"attach", "attached"} =>
           session'[t] = session[t] /\ step'[t] = step[t] /\ tabWindow'[t] = tabWindow[t]
BY DEF TabTypes, TabsLose

\* Every step keeps the types.
LEMMA SharedTypeStep ==
  ASSUME SharedTypeOK, ProcInv, SharedNext PROVE SharedTypeOK'
<1>a. ProcTypes /\ TabTypes /\ RestTypes
  BY TypeGroups
<1>1. ASSUME NEW e \in Engines, EnsureEngine(e) PROVE SharedTypeOK'
  BY <1>1, <1>a, Consts DEF EnsureEngine, chromeVars, tabVars, hand, ProcTypes, RestTypes,
      WaitersHaveChild, ProcInv, EngineStages, TabTypes, Exists, SharedTypeOK
<1>2. ASSUME NEW e \in Engines, ProbeFinds(e) PROVE SharedTypeOK'
  <2>1. ProcTypes'
    BY <1>2, <1>a, Consts DEF ProbeFinds, Finds, ActivePort, Up, chromeVars, tabVars, hand, ProcTypes,
        RestTypes, WaitersHaveChild, ProcInv, EngineStages
  <2>2. TabTypes'
    BY <1>2, <1>a, Consts DEF ProbeFinds, Finds, ActivePort, Up, chromeVars, tabVars, hand, TabTypes,
        Exists
  <2>3. RestTypes'
    BY <1>2, <1>a, Consts DEF ProbeFinds, Finds, ActivePort, Up, chromeVars, tabVars, hand, RestTypes,
        Exists, ProcInv, WaitersHaveChild, ProcTypes
  <2> QED BY <2>1, <2>2, <2>3 DEF SharedTypeOK, ProcTypes, TabTypes, RestTypes
<1>3. ASSUME NEW e \in Engines, ProbeFails(e) PROVE SharedTypeOK'
  <2>1. ProcTypes'
    BY <1>3, <1>a, Consts DEF ProbeFails, ActivePort, Up, tabVars, hand, ProcTypes, RestTypes,
        WaitersHaveChild, ProcInv, EngineStages
  <2>2. TabTypes'
    BY <1>3, <1>a, Consts DEF ProbeFails, ActivePort, Up, tabVars, hand, TabTypes, Exists
  <2>3. RestTypes'
    BY <1>3, <1>a, Consts DEF ProbeFails, ActivePort, Up, tabVars, hand, RestTypes, Exists, ProcInv,
        WaitersHaveChild, ProcTypes
  <2> QED BY <2>1, <2>2, <2>3 DEF SharedTypeOK, ProcTypes, TabTypes, RestTypes
<1>4. ASSUME NEW e \in Engines, Launch(e) PROVE SharedTypeOK'
  <2>1. ProcTypes'
    BY <1>4, <1>a, Consts DEF Launch, LaunchChrome, Launched, tabVars, hand, ProcTypes, RestTypes,
        WaitersHaveChild, ProcInv, EngineStages
  <2>2. TabTypes'
    BY <1>4, <1>a, Consts DEF Launch, LaunchChrome, Launched, tabVars, hand, TabTypes, Exists
  <2>3. RestTypes'
    BY <1>4, <1>a, Consts DEF Launch, LaunchChrome, Launched, tabVars, hand, RestTypes, Exists, ProcInv,
        WaitersHaveChild, ProcTypes
  <2> QED BY <2>1, <2>2, <2>3 DEF SharedTypeOK, ProcTypes, TabTypes, RestTypes
<1>5. ASSUME NEW e \in Engines, Relaunch(e) PROVE SharedTypeOK'
  BY <1>5, <1>a, Consts DEF Relaunch, LaunchChrome, Launched, tabVars, hand, ProcTypes, RestTypes,
      WaitersHaveChild, ProcInv, EngineStages, TabTypes, Exists, SharedTypeOK
<1>6. ASSUME NEW e \in Engines, WaitFinds(e) PROVE SharedTypeOK'
  <2>1. ProcTypes'
    BY <1>6, <1>a, Consts DEF WaitFinds, Finds, ActivePort, Up, chromeVars, tabVars, hand, ProcTypes,
        RestTypes, WaitersHaveChild, ProcInv, EngineStages
  <2>2. TabTypes'
    BY <1>6, <1>a, Consts DEF WaitFinds, Finds, ActivePort, Up, chromeVars, tabVars, hand, TabTypes,
        Exists
  <2>3. RestTypes'
    BY <1>6, <1>a, Consts DEF WaitFinds, Finds, ActivePort, Up, chromeVars, tabVars, hand, RestTypes,
        Exists, ProcInv, WaitersHaveChild, ProcTypes
  <2> QED BY <2>1, <2>2, <2>3 DEF SharedTypeOK, ProcTypes, TabTypes, RestTypes
<1>7. ASSUME NEW e \in Engines, WaitGivesUp(e) PROVE SharedTypeOK'
  <2>1. ProcTypes'
    BY <1>7, <1>a, Consts DEF WaitGivesUp, ActivePort, Up, TabsLose, Exists, tabVars, hand, ProcTypes,
        RestTypes, WaitersHaveChild, ProcInv, EngineStages
  <2>2. TabTypes'
    <3>1. PICK es \in SUBSET Engines : TabsLose(es) \/ UNCHANGED tabVars
      BY <1>7 DEF WaitGivesUp
    <3>2. target' \in [Targets -> {"none", "blank", "page", "closed"}]
      BY <1>7, <1>a DEF WaitGivesUp, tabVars, TabTypes
    <3> QED BY <1>7, <1>a, <3>1, <3>2, LostTypes DEF WaitGivesUp, TabTypes, tabVars, hand
  <2>3. RestTypes'
    BY <1>7, <1>a, Consts DEF WaitGivesUp, ActivePort, Up, TabsLose, Exists, tabVars, hand, RestTypes,
        ProcInv, WaitersHaveChild, ProcTypes
  <2> QED BY <2>1, <2>2, <2>3 DEF SharedTypeOK, ProcTypes, TabTypes, RestTypes
<1>8. ASSUME NEW e \in Engines, ConnectLink(e) PROVE SharedTypeOK'
  BY <1>8, <1>a, Consts DEF ConnectLink, Up, chromeVars, tabVars, hand, ProcTypes, RestTypes,
      WaitersHaveChild, ProcInv, EngineStages, TabTypes, Exists, SharedTypeOK
<1>9. ASSUME NEW e \in Engines, SweepAsks(e) PROVE SharedTypeOK'
  BY <1>9, <1>a, Consts DEF SweepAsks, IsOrphan, Exists, HasSession, chromeVars, tabVars, hand, ProcTypes,
      RestTypes, WaitersHaveChild, ProcInv, EngineStages, TabTypes, SharedTypeOK
<1>10. ASSUME NEW e \in Engines, SweepCloses(e) PROVE SharedTypeOK'
  BY <1>10, <1>a, Consts DEF SweepCloses, ClosesTargets, Exists, chromeVars, hand, ProcTypes, RestTypes,
      WaitersHaveChild, ProcInv, EngineStages, TabTypes, SharedTypeOK
<1>11. ASSUME NEW e \in Engines, StopEngine(e) PROVE SharedTypeOK'
  BY <1>11, <1>a, Consts DEF StopEngine, ClosesOwn, chromeVars, ProcTypes, RestTypes, WaitersHaveChild,
      ProcInv, EngineStages, TabTypes, Exists, SharedTypeOK
<1>12. ASSUME NEW e \in Engines, StopAsks(e) PROVE SharedTypeOK'
  BY <1>12, <1>a, Consts DEF StopAsks, Exists, HasSession, chromeVars, tabVars, hand, ProcTypes,
      RestTypes, WaitersHaveChild, ProcInv, EngineStages, TabTypes, SharedTypeOK
<1>13. ASSUME NEW e \in Engines, StopEnds(e) PROVE SharedTypeOK'
  <2>1. ProcTypes'
    BY <1>13, <1>a, Consts DEF StopEnds, ChromeGone, TabsLose, Exists, chromeVars, hand, ProcTypes,
        RestTypes, WaitersHaveChild, ProcInv, EngineStages
  <2>2. TabTypes'
    <3>1. PICK es \in SUBSET Engines : TabsLose(es)
      BY <1>13 DEF StopEnds, ChromeGone
    <3>2. target' \in [Targets -> {"none", "blank", "page", "closed"}]
      BY <1>13, <1>a DEF StopEnds, ChromeGone, TabTypes
    <3> QED BY <1>13, <1>a, <3>1, <3>2, LostTypes DEF StopEnds, TabTypes, hand
  <2>3. RestTypes'
    BY <1>13, <1>a, Consts DEF StopEnds, ChromeGone, TabsLose, Exists, chromeVars, hand, RestTypes,
        ProcInv, WaitersHaveChild, ProcTypes
  <2> QED BY <2>1, <2>2, <2>3 DEF SharedTypeOK, ProcTypes, TabTypes, RestTypes
<1>14. ASSUME NEW e \in Engines, ForgetEngine(e) PROVE SharedTypeOK'
  <2>1. ProcTypes'
    BY <1>14, <1>a, Consts DEF ForgetEngine, LinkDrops, TabsLose, Linked, chromeVars, hand, ProcTypes,
        RestTypes, WaitersHaveChild, ProcInv, EngineStages
  <2>2. TabTypes'
    BY <1>14, <1>a, Consts DEF ForgetEngine, LinkDrops, TabsLose, Linked, chromeVars, hand, TabTypes,
        Exists
  <2>3. RestTypes'
    BY <1>14, <1>a, Consts DEF ForgetEngine, LinkDrops, TabsLose, Linked, chromeVars, hand, RestTypes,
        Exists, ProcInv, WaitersHaveChild, ProcTypes
  <2> QED BY <2>1, <2>2, <2>3 DEF SharedTypeOK, ProcTypes, TabTypes, RestTypes
<1>15. ASSUME NEW e \in Engines, PaneKilled(e) PROVE SharedTypeOK'
  <2>1. ProcTypes'
    BY <1>15, <1>a, Consts DEF PaneKilled, LinkDrops, TabsLose, Linked, chromeVars, hand, ProcTypes,
        RestTypes, WaitersHaveChild, ProcInv, EngineStages
  <2>2. TabTypes'
    BY <1>15, <1>a, Consts DEF PaneKilled, LinkDrops, TabsLose, Linked, chromeVars, hand, TabTypes,
        Exists
  <2>3. RestTypes'
    BY <1>15, <1>a, Consts DEF PaneKilled, LinkDrops, TabsLose, Linked, chromeVars, hand, RestTypes,
        Exists, ProcInv, WaitersHaveChild, ProcTypes
  <2> QED BY <2>1, <2>2, <2>3 DEF SharedTypeOK, ProcTypes, TabTypes, RestTypes
<1>16. ASSUME NEW e \in Engines, NEW t \in Targets, HearForeignTab(e, t) PROVE SharedTypeOK'
  BY <1>16, <1>a, Consts DEF HearForeignTab, Linked, IsForeignTab, HasSession, chromeVars, tabVars,
      ProcTypes, RestTypes, WaitersHaveChild, ProcInv, EngineStages, TabTypes, Exists, SharedTypeOK
<1>17. ASSUME NEW e \in Engines, NEW t \in Targets, ForwardForeignTab(e, t) PROVE SharedTypeOK'
  BY <1>17, <1>a, Consts DEF ForwardForeignTab, ClosesTargets, Exists, Linked, chromeVars, ProcTypes,
      RestTypes, WaitersHaveChild, ProcInv, EngineStages, TabTypes, SharedTypeOK
<1>18. ASSUME NEW t \in Outside, OutsideOpens(t) PROVE SharedTypeOK'
  BY <1>18, <1>a, Consts DEF OutsideOpens, Up, chromeVars, hand, ProcTypes, RestTypes, WaitersHaveChild,
      ProcInv, EngineStages, TabTypes, Exists, SharedTypeOK
<1>19. ASSUME NEW t \in Tabs, NewTarget(t) PROVE SharedTypeOK'
  BY <1>19, <1>a, Consts DEF NewTarget, chromeVars, hand, ProcTypes, RestTypes, WaitersHaveChild, ProcInv,
      EngineStages, TabTypes, Exists, SharedTypeOK
<1>20. ASSUME NEW t \in Tabs, ChromeCreates(t) PROVE SharedTypeOK'
  BY <1>20, <1>a, Consts DEF ChromeCreates, chromeVars, hand, ProcTypes, RestTypes, WaitersHaveChild,
      ProcInv, EngineStages, TabTypes, Exists, SharedTypeOK
<1>21. ASSUME NEW t \in Tabs, AdoptTarget(t) PROVE SharedTypeOK'
  <2>1. ProcTypes'
    BY <1>21, <1>a, Consts DEF AdoptTarget, chromeVars, hand, ProcTypes, RestTypes, WaitersHaveChild,
        ProcInv, EngineStages
  <2>2. TabTypes'
    BY <1>21, <1>a, Consts DEF AdoptTarget, chromeVars, hand, TabTypes, Exists
  <2>3. RestTypes'
    BY <1>21, <1>a, Consts DEF AdoptTarget, chromeVars, hand, RestTypes, Exists, ProcInv,
        WaitersHaveChild, ProcTypes
  <2> QED BY <2>1, <2>2, <2>3 DEF SharedTypeOK, ProcTypes, TabTypes, RestTypes
<1>22. ASSUME NEW t \in Tabs, ChromeAttaches(t) PROVE SharedTypeOK'
  BY <1>22, <1>a, Consts DEF ChromeAttaches, chromeVars, hand, ProcTypes, RestTypes, WaitersHaveChild,
      ProcInv, EngineStages, TabTypes, Exists, SharedTypeOK
<1>23. ASSUME NEW t \in Tabs, Initialize(t) PROVE SharedTypeOK'
  BY <1>23, <1>a, Consts DEF Initialize, chromeVars, hand, ProcTypes, RestTypes, WaitersHaveChild,
      ProcInv, EngineStages, TabTypes, Exists, SharedTypeOK
<1>24. ASSUME NEW t \in Tabs, LoadURL(t) PROVE SharedTypeOK'
  BY <1>24, <1>a, Consts DEF LoadURL, chromeVars, hand, ProcTypes, RestTypes, WaitersHaveChild, ProcInv,
      EngineStages, TabTypes, Exists, SharedTypeOK
<1>25. ASSUME NEW t \in Tabs, CloseTarget(t) PROVE SharedTypeOK'
  BY <1>25, <1>a, Consts DEF CloseTarget, ClosesOwn, chromeVars, ProcTypes, RestTypes, WaitersHaveChild,
      ProcInv, EngineStages, TabTypes, Exists, SharedTypeOK
<1>26. ASSUME NEW c \in Chromes, ChromeStarts(c) PROVE SharedTypeOK'
  BY <1>26, <1>a, Consts DEF ChromeStarts, Up, tabVars, hand, ProcTypes, RestTypes, WaitersHaveChild,
      ProcInv, EngineStages, TabTypes, Exists, SharedTypeOK
<1>27. ASSUME NEW c \in Chromes, ChromeDies(c) PROVE SharedTypeOK'
  <2>1. ProcTypes'
    BY <1>27, <1>a, Consts DEF ChromeDies, ChromeGone, TabsLose, Exists, Up, hand, ProcTypes, RestTypes,
        WaitersHaveChild, ProcInv, EngineStages
  <2>2. TabTypes'
    BY <1>27, <1>a, Consts DEF ChromeDies, ChromeGone, TabsLose, Exists, Up, hand, TabTypes
  <2>3. RestTypes'
    BY <1>27, <1>a, Consts DEF ChromeDies, ChromeGone, TabsLose, Exists, Up, hand, RestTypes, ProcInv,
        WaitersHaveChild, ProcTypes
  <2> QED BY <2>1, <2>2, <2>3 DEF SharedTypeOK, ProcTypes, TabTypes, RestTypes
<1> QED BY <1>1, <1>2, <1>3, <1>4, <1>5, <1>6, <1>7, <1>8, <1>9, <1>10, <1>11, <1>12, <1>13, <1>14, <1>15,
    <1>16, <1>17, <1>18, <1>19, <1>20, <1>21, <1>22, <1>23, <1>24, <1>25, <1>26, <1>27 DEF SharedNext,
    StartStep, TabStep, StopStep

\* Every step keeps what is true of the processes and the links.
LEMMA SharedProcStep ==
  ASSUME SharedTypeOK, ProcInv, SharedNext PROVE ProcInv'
<1>a. ProcTypes /\ TabTypes /\ RestTypes
  BY TypeGroups
<1>1. ASSUME NEW e \in Engines, EnsureEngine(e) PROVE ProcInv'
  BY <1>1, <1>a, Consts DEF EnsureEngine, chromeVars, LinksOfLinked, LinkStages, ProcInv, ProcTypes,
      EngineStages, UniqueUp, StartingIsAwaited, WaitersHaveChild, LinkedIsUp
<1>2. ASSUME NEW e \in Engines, ProbeFinds(e) PROVE ProcInv'
  <2>1. LinksOfLinked'
    BY <1>2, <1>a, Consts DEF ProbeFinds, Finds, ActivePort, Up, chromeVars, LinksOfLinked, LinkStages,
        ProcInv, ProcTypes, EngineStages
  <2>2. UniqueUp'
    BY <1>2, <1>a, Consts DEF ProbeFinds, Finds, ActivePort, Up, chromeVars, UniqueUp, ProcInv,
        ProcTypes, EngineStages
  <2>3. StartingIsAwaited'
    BY <1>2, <1>a, Consts DEF ProbeFinds, Finds, ActivePort, Up, chromeVars, StartingIsAwaited,
        WaitersHaveChild, LinksOfLinked, LinkStages, ProcInv, ProcTypes, EngineStages
  <2>4. WaitersHaveChild'
    BY <1>2, <1>a, Consts DEF ProbeFinds, Finds, ActivePort, Up, chromeVars, WaitersHaveChild, ProcInv,
        ProcTypes, EngineStages
  <2>5. LinkedIsUp'
    BY <1>2, <1>a, Consts DEF ProbeFinds, Finds, ActivePort, Up, chromeVars, LinkedIsUp, LinkStages,
        ProcInv, ProcTypes, EngineStages
  <2> QED BY <2>1, <2>2, <2>3, <2>4, <2>5 DEF ProcInv
<1>3. ASSUME NEW e \in Engines, ProbeFails(e) PROVE ProcInv'
  <2>1. LinksOfLinked'
    BY <1>3, <1>a, Consts DEF ProbeFails, ActivePort, Up, LinksOfLinked, LinkStages, ProcInv, ProcTypes,
        EngineStages
  <2>2. UniqueUp'
    BY <1>3, <1>a, Consts DEF ProbeFails, ActivePort, Up, UniqueUp, ProcInv, ProcTypes, EngineStages
  <2>3. StartingIsAwaited'
    BY <1>3, <1>a, Consts DEF ProbeFails, ActivePort, Up, StartingIsAwaited, WaitersHaveChild,
        LinksOfLinked, LinkStages, ProcInv, ProcTypes, EngineStages
  <2>4. WaitersHaveChild'
    BY <1>3, <1>a, Consts DEF ProbeFails, ActivePort, Up, WaitersHaveChild, ProcInv, ProcTypes,
        EngineStages
  <2>5. LinkedIsUp'
    BY <1>3, <1>a, Consts DEF ProbeFails, ActivePort, Up, LinkedIsUp, LinkStages, ProcInv, ProcTypes,
        EngineStages
  <2> QED BY <2>1, <2>2, <2>3, <2>4, <2>5 DEF ProcInv
<1>4. ASSUME NEW e \in Engines, Launch(e) PROVE ProcInv'
  <2>1. LinksOfLinked'
    BY <1>4, <1>a, Consts DEF Launch, LaunchChrome, Launched, LinksOfLinked, LinkStages, ProcInv,
        ProcTypes, EngineStages
  <2>2. UniqueUp'
    BY <1>4, <1>a, Consts DEF Launch, LaunchChrome, Launched, UniqueUp, ProcInv, ProcTypes, EngineStages
  <2>3. StartingIsAwaited'
    BY <1>4, <1>a, Consts DEF Launch, LaunchChrome, Launched, StartingIsAwaited, WaitersHaveChild,
        LinksOfLinked, LinkStages, ProcInv, ProcTypes, EngineStages
  <2>4. WaitersHaveChild'
    BY <1>4, <1>a, Consts DEF Launch, LaunchChrome, Launched, WaitersHaveChild, ProcInv, ProcTypes,
        EngineStages
  <2>5. LinkedIsUp'
    BY <1>4, <1>a, Consts DEF Launch, LaunchChrome, Launched, LinkedIsUp, LinkStages, ProcInv,
        ProcTypes, EngineStages
  <2> QED BY <2>1, <2>2, <2>3, <2>4, <2>5 DEF ProcInv
<1>5. ASSUME NEW e \in Engines, Relaunch(e) PROVE ProcInv'
  <2>1. LinksOfLinked'
    BY <1>5, <1>a, Consts DEF Relaunch, LaunchChrome, Launched, LinksOfLinked, LinkStages, ProcInv,
        ProcTypes, EngineStages
  <2>2. UniqueUp'
    BY <1>5, <1>a, Consts DEF Relaunch, LaunchChrome, Launched, UniqueUp, ProcInv, ProcTypes,
        EngineStages
  <2>3. StartingIsAwaited'
    BY <1>5, <1>a, Consts DEF Relaunch, LaunchChrome, Launched, StartingIsAwaited, WaitersHaveChild,
        LinksOfLinked, LinkStages, ProcInv, ProcTypes, EngineStages
  <2>4. WaitersHaveChild'
    BY <1>5, <1>a, Consts DEF Relaunch, LaunchChrome, Launched, WaitersHaveChild, ProcInv, ProcTypes,
        EngineStages
  <2>5. LinkedIsUp'
    BY <1>5, <1>a, Consts DEF Relaunch, LaunchChrome, Launched, LinkedIsUp, LinkStages, ProcInv,
        ProcTypes, EngineStages
  <2> QED BY <2>1, <2>2, <2>3, <2>4, <2>5 DEF ProcInv
<1>6. ASSUME NEW e \in Engines, WaitFinds(e) PROVE ProcInv'
  BY <1>6, <1>a, Consts DEF WaitFinds, Finds, ActivePort, Up, chromeVars, LinksOfLinked, LinkStages,
      ProcInv, ProcTypes, EngineStages, UniqueUp, StartingIsAwaited, WaitersHaveChild, LinkedIsUp
<1>7. ASSUME NEW e \in Engines, WaitGivesUp(e) PROVE ProcInv'
  <2>1. LinksOfLinked'
    BY <1>7, <1>a, Consts DEF WaitGivesUp, ActivePort, Up, LinksOfLinked, LinkStages, ProcInv,
        ProcTypes, EngineStages
  <2>2. UniqueUp'
    BY <1>7, <1>a, Consts DEF WaitGivesUp, ActivePort, Up, UniqueUp, ProcInv, ProcTypes, EngineStages
  <2>3. StartingIsAwaited'
    BY <1>7, <1>a, Consts DEF WaitGivesUp, ActivePort, Up, StartingIsAwaited, WaitersHaveChild,
        LinksOfLinked, LinkStages, ProcInv, ProcTypes, EngineStages
  <2>4. WaitersHaveChild'
    BY <1>7, <1>a, Consts DEF WaitGivesUp, ActivePort, Up, WaitersHaveChild, ProcInv, ProcTypes,
        EngineStages
  <2>5. LinkedIsUp'
    BY <1>7, <1>a, Consts DEF WaitGivesUp, ActivePort, Up, LinkedIsUp, LinkStages, ProcInv, ProcTypes,
        EngineStages
  <2> QED BY <2>1, <2>2, <2>3, <2>4, <2>5 DEF ProcInv
<1>8. ASSUME NEW e \in Engines, ConnectLink(e) PROVE ProcInv'
  <2>1. LinksOfLinked'
    BY <1>8, <1>a, Consts DEF ConnectLink, Up, chromeVars, LinksOfLinked, LinkStages, ProcInv,
        ProcTypes, EngineStages
  <2>2. UniqueUp'
    BY <1>8, <1>a, Consts DEF ConnectLink, Up, chromeVars, UniqueUp, ProcInv, ProcTypes, EngineStages
  <2>3. StartingIsAwaited'
    BY <1>8, <1>a, Consts DEF ConnectLink, Up, chromeVars, StartingIsAwaited, WaitersHaveChild,
        LinksOfLinked, LinkStages, ProcInv, ProcTypes, EngineStages
  <2>4. WaitersHaveChild'
    BY <1>8, <1>a, Consts DEF ConnectLink, Up, chromeVars, WaitersHaveChild, ProcInv, ProcTypes,
        EngineStages
  <2>5. LinkedIsUp'
    BY <1>8, <1>a, Consts DEF ConnectLink, Up, chromeVars, LinkedIsUp, LinkStages, ProcInv, ProcTypes,
        EngineStages
  <2> QED BY <2>1, <2>2, <2>3, <2>4, <2>5 DEF ProcInv
<1>9. ASSUME NEW e \in Engines, SweepAsks(e) PROVE ProcInv'
  BY <1>9, <1>a, Consts DEF SweepAsks, chromeVars, LinksOfLinked, LinkStages, ProcInv, ProcTypes,
      EngineStages, UniqueUp, StartingIsAwaited, WaitersHaveChild, LinkedIsUp
<1>10. ASSUME NEW e \in Engines, SweepCloses(e) PROVE ProcInv'
  <2>1. LinksOfLinked'
    BY <1>10, <1>a, Consts DEF SweepCloses, chromeVars, LinksOfLinked, LinkStages, ProcInv, ProcTypes,
        EngineStages
  <2>2. UniqueUp'
    BY <1>10, <1>a, Consts DEF SweepCloses, chromeVars, UniqueUp, ProcInv, ProcTypes, EngineStages
  <2>3. StartingIsAwaited'
    BY <1>10, <1>a, Consts DEF SweepCloses, chromeVars, StartingIsAwaited, WaitersHaveChild,
        LinksOfLinked, LinkStages, ProcInv, ProcTypes, EngineStages
  <2>4. WaitersHaveChild'
    BY <1>10, <1>a, Consts DEF SweepCloses, chromeVars, WaitersHaveChild, ProcInv, ProcTypes,
        EngineStages
  <2>5. LinkedIsUp'
    BY <1>10, <1>a, Consts DEF SweepCloses, chromeVars, LinkedIsUp, LinkStages, ProcInv, ProcTypes,
        EngineStages
  <2> QED BY <2>1, <2>2, <2>3, <2>4, <2>5 DEF ProcInv
<1>11. ASSUME NEW e \in Engines, StopEngine(e) PROVE ProcInv'
  <2>1. LinksOfLinked'
    BY <1>11, <1>a, Consts DEF StopEngine, chromeVars, LinksOfLinked, LinkStages, ProcInv, ProcTypes,
        EngineStages
  <2>2. UniqueUp'
    BY <1>11, <1>a, Consts DEF StopEngine, chromeVars, UniqueUp, ProcInv, ProcTypes, EngineStages
  <2>3. StartingIsAwaited'
    BY <1>11, <1>a, Consts DEF StopEngine, chromeVars, StartingIsAwaited, WaitersHaveChild,
        LinksOfLinked, LinkStages, ProcInv, ProcTypes, EngineStages
  <2>4. WaitersHaveChild'
    BY <1>11, <1>a, Consts DEF StopEngine, chromeVars, WaitersHaveChild, ProcInv, ProcTypes,
        EngineStages
  <2>5. LinkedIsUp'
    BY <1>11, <1>a, Consts DEF StopEngine, chromeVars, LinkedIsUp, LinkStages, ProcInv, ProcTypes,
        EngineStages
  <2> QED BY <2>1, <2>2, <2>3, <2>4, <2>5 DEF ProcInv
<1>12. ASSUME NEW e \in Engines, StopAsks(e) PROVE ProcInv'
  BY <1>12, <1>a, Consts DEF StopAsks, chromeVars, LinksOfLinked, LinkStages, ProcInv, ProcTypes,
      EngineStages, UniqueUp, StartingIsAwaited, WaitersHaveChild, LinkedIsUp
<1>13. ASSUME NEW e \in Engines, StopEnds(e) PROVE ProcInv'
  <2>1. LinksOfLinked'
    BY <1>13, <1>a, Consts DEF StopEnds, ChromeGone, chromeVars, LinksOfLinked, LinkStages, ProcInv,
        ProcTypes, EngineStages
  <2>2. UniqueUp'
    BY <1>13, <1>a, Consts DEF StopEnds, ChromeGone, chromeVars, UniqueUp, ProcInv, ProcTypes,
        EngineStages
  <2>3. StartingIsAwaited'
    <3> SUFFICES ASSUME NEW c \in Chromes, chrome'[c] = "starting"
                 PROVE  \E d \in Engines : child'[d] = c /\ at'[d] \in {"wait", "waitown"}
      BY DEF StartingIsAwaited
    <3>1. chrome[c] = "starting" /\ child' = child
      BY <1>13, <1>a DEF StopEnds, ChromeGone, chromeVars, ProcTypes
    <3>2. PICK d \in Engines : child[d] = c /\ at[d] \in {"wait", "waitown"}
      BY <3>1 DEF ProcInv, StartingIsAwaited
    <3>3. link[d] = NoChrome /\ d # e
      BY <1>13, <3>2 DEF StopEnds, ProcInv, LinksOfLinked, LinkStages
    <3>4. link[e] # NoChrome
      BY <1>13, Consts DEF StopEnds, ProcInv, LinkedIsUp, LinkStages
    <3>5. at'[d] = at[d]
      BY <1>13, <1>a, <3>3, <3>4 DEF StopEnds, ChromeGone, ProcTypes
    <3> QED BY <3>1, <3>2, <3>5
  <2>4. WaitersHaveChild'
    BY <1>13, <1>a, Consts DEF StopEnds, ChromeGone, chromeVars, WaitersHaveChild, ProcInv, ProcTypes,
        EngineStages
  <2>5. LinkedIsUp'
    BY <1>13, <1>a, Consts DEF StopEnds, ChromeGone, chromeVars, LinkedIsUp, LinkStages, ProcInv,
        ProcTypes, EngineStages
  <2> QED BY <2>1, <2>2, <2>3, <2>4, <2>5 DEF ProcInv
<1>14. ASSUME NEW e \in Engines, ForgetEngine(e) PROVE ProcInv'
  <2>1. LinksOfLinked'
    BY <1>14, <1>a, Consts DEF ForgetEngine, LinkDrops, Linked, chromeVars, LinksOfLinked, LinkStages,
        ProcInv, ProcTypes, EngineStages
  <2>2. UniqueUp'
    BY <1>14, <1>a, Consts DEF ForgetEngine, LinkDrops, Linked, chromeVars, UniqueUp, ProcInv,
        ProcTypes, EngineStages
  <2>3. StartingIsAwaited'
    BY <1>14, <1>a, Consts DEF ForgetEngine, LinkDrops, Linked, chromeVars, StartingIsAwaited,
        WaitersHaveChild, LinksOfLinked, LinkStages, ProcInv, ProcTypes, EngineStages
  <2>4. WaitersHaveChild'
    BY <1>14, <1>a, Consts DEF ForgetEngine, LinkDrops, Linked, chromeVars, WaitersHaveChild, ProcInv,
        ProcTypes, EngineStages
  <2>5. LinkedIsUp'
    BY <1>14, <1>a, Consts DEF ForgetEngine, LinkDrops, Linked, chromeVars, LinkedIsUp, LinkStages,
        ProcInv, ProcTypes, EngineStages
  <2> QED BY <2>1, <2>2, <2>3, <2>4, <2>5 DEF ProcInv
<1>15. ASSUME NEW e \in Engines, PaneKilled(e) PROVE ProcInv'
  <2>1. LinksOfLinked'
    BY <1>15, <1>a, Consts DEF PaneKilled, LinkDrops, Linked, chromeVars, LinksOfLinked, LinkStages,
        ProcInv, ProcTypes, EngineStages
  <2>2. UniqueUp'
    BY <1>15, <1>a, Consts DEF PaneKilled, LinkDrops, Linked, chromeVars, UniqueUp, ProcInv, ProcTypes,
        EngineStages
  <2>3. StartingIsAwaited'
    BY <1>15, <1>a, Consts DEF PaneKilled, LinkDrops, Linked, chromeVars, StartingIsAwaited,
        WaitersHaveChild, LinksOfLinked, LinkStages, ProcInv, ProcTypes, EngineStages
  <2>4. WaitersHaveChild'
    BY <1>15, <1>a, Consts DEF PaneKilled, LinkDrops, Linked, chromeVars, WaitersHaveChild, ProcInv,
        ProcTypes, EngineStages
  <2>5. LinkedIsUp'
    BY <1>15, <1>a, Consts DEF PaneKilled, LinkDrops, Linked, chromeVars, LinkedIsUp, LinkStages,
        ProcInv, ProcTypes, EngineStages
  <2> QED BY <2>1, <2>2, <2>3, <2>4, <2>5 DEF ProcInv
<1>16. ASSUME NEW e \in Engines, NEW t \in Targets, HearForeignTab(e, t) PROVE ProcInv'
  BY <1>16, <1>a, Consts DEF HearForeignTab, Linked, chromeVars, LinksOfLinked, LinkStages, ProcInv,
      ProcTypes, EngineStages, UniqueUp, StartingIsAwaited, WaitersHaveChild, LinkedIsUp
<1>17. ASSUME NEW e \in Engines, NEW t \in Targets, ForwardForeignTab(e, t) PROVE ProcInv'
  BY <1>17, <1>a, Consts DEF ForwardForeignTab, Linked, chromeVars, LinksOfLinked, LinkStages, ProcInv,
      ProcTypes, EngineStages, UniqueUp, StartingIsAwaited, WaitersHaveChild, LinkedIsUp
<1>18. ASSUME NEW t \in Outside, OutsideOpens(t) PROVE ProcInv'
  BY <1>18, <1>a, Consts DEF OutsideOpens, Up, chromeVars, LinksOfLinked, LinkStages, ProcInv, ProcTypes,
      EngineStages, UniqueUp, StartingIsAwaited, WaitersHaveChild, LinkedIsUp
<1>19. ASSUME NEW t \in Tabs, NewTarget(t) PROVE ProcInv'
  BY <1>19, <1>a, Consts DEF NewTarget, chromeVars, LinksOfLinked, LinkStages, ProcInv, ProcTypes,
      EngineStages, UniqueUp, StartingIsAwaited, WaitersHaveChild, LinkedIsUp
<1>20. ASSUME NEW t \in Tabs, ChromeCreates(t) PROVE ProcInv'
  BY <1>20, <1>a, Consts DEF ChromeCreates, chromeVars, LinksOfLinked, LinkStages, ProcInv, ProcTypes,
      EngineStages, UniqueUp, StartingIsAwaited, WaitersHaveChild, LinkedIsUp
<1>21. ASSUME NEW t \in Tabs, AdoptTarget(t) PROVE ProcInv'
  BY <1>21, <1>a, Consts DEF AdoptTarget, chromeVars, LinksOfLinked, LinkStages, ProcInv, ProcTypes,
      EngineStages, UniqueUp, StartingIsAwaited, WaitersHaveChild, LinkedIsUp
<1>22. ASSUME NEW t \in Tabs, ChromeAttaches(t) PROVE ProcInv'
  BY <1>22, <1>a, Consts DEF ChromeAttaches, chromeVars, LinksOfLinked, LinkStages, ProcInv, ProcTypes,
      EngineStages, UniqueUp, StartingIsAwaited, WaitersHaveChild, LinkedIsUp
<1>23. ASSUME NEW t \in Tabs, Initialize(t) PROVE ProcInv'
  BY <1>23, <1>a, Consts DEF Initialize, chromeVars, LinksOfLinked, LinkStages, ProcInv, ProcTypes,
      EngineStages, UniqueUp, StartingIsAwaited, WaitersHaveChild, LinkedIsUp
<1>24. ASSUME NEW t \in Tabs, LoadURL(t) PROVE ProcInv'
  BY <1>24, <1>a, Consts DEF LoadURL, chromeVars, LinksOfLinked, LinkStages, ProcInv, ProcTypes,
      EngineStages, UniqueUp, StartingIsAwaited, WaitersHaveChild, LinkedIsUp
<1>25. ASSUME NEW t \in Tabs, CloseTarget(t) PROVE ProcInv'
  BY <1>25, <1>a, Consts DEF CloseTarget, chromeVars, LinksOfLinked, LinkStages, ProcInv, ProcTypes,
      EngineStages, UniqueUp, StartingIsAwaited, WaitersHaveChild, LinkedIsUp
<1>26. ASSUME NEW c \in Chromes, ChromeStarts(c) PROVE ProcInv'
  <2>1. LinksOfLinked'
    BY <1>26, <1>a, Consts DEF ChromeStarts, Up, LinksOfLinked, LinkStages, ProcInv, ProcTypes,
        EngineStages
  <2>2. UniqueUp'
    BY <1>26, <1>a, Consts DEF ChromeStarts, Up, UniqueUp, ProcInv, ProcTypes, EngineStages
  <2>3. StartingIsAwaited'
    BY <1>26, <1>a, Consts DEF ChromeStarts, Up, StartingIsAwaited, WaitersHaveChild, LinksOfLinked,
        LinkStages, ProcInv, ProcTypes, EngineStages
  <2>4. WaitersHaveChild'
    BY <1>26, <1>a, Consts DEF ChromeStarts, Up, WaitersHaveChild, ProcInv, ProcTypes, EngineStages
  <2>5. LinkedIsUp'
    BY <1>26, <1>a, Consts DEF ChromeStarts, Up, LinkedIsUp, LinkStages, ProcInv, ProcTypes,
        EngineStages
  <2> QED BY <2>1, <2>2, <2>3, <2>4, <2>5 DEF ProcInv
<1>27. ASSUME NEW c \in Chromes, ChromeDies(c) PROVE ProcInv'
  <2>1. LinksOfLinked'
    BY <1>27, <1>a, Consts DEF ChromeDies, ChromeGone, Up, LinksOfLinked, LinkStages, ProcInv,
        ProcTypes, EngineStages
  <2>2. UniqueUp'
    BY <1>27, <1>a, Consts DEF ChromeDies, ChromeGone, Up, UniqueUp, ProcInv, ProcTypes, EngineStages
  <2>3. StartingIsAwaited'
    BY <1>27, <1>a, Consts DEF ChromeDies, ChromeGone, Up, StartingIsAwaited, WaitersHaveChild,
        LinksOfLinked, LinkStages, ProcInv, ProcTypes, EngineStages
  <2>4. WaitersHaveChild'
    BY <1>27, <1>a, Consts DEF ChromeDies, ChromeGone, Up, WaitersHaveChild, ProcInv, ProcTypes,
        EngineStages
  <2>5. LinkedIsUp'
    BY <1>27, <1>a, Consts DEF ChromeDies, ChromeGone, Up, LinkedIsUp, LinkStages, ProcInv, ProcTypes,
        EngineStages
  <2> QED BY <2>1, <2>2, <2>3, <2>4, <2>5 DEF ProcInv
<1> QED BY <1>1, <1>2, <1>3, <1>4, <1>5, <1>6, <1>7, <1>8, <1>9, <1>10, <1>11, <1>12, <1>13, <1>14, <1>15,
    <1>16, <1>17, <1>18, <1>19, <1>20, <1>21, <1>22, <1>23, <1>24, <1>25, <1>26, <1>27 DEF SharedNext,
    StartStep, TabStep, StopStep

\* Every step keeps what is true of the tabs.
LEMMA SharedTabStep ==
  ASSUME SharedTypeOK, TabInv, ProcInv, SharedNext PROVE TabInv'
<1>a. ProcTypes /\ TabTypes /\ RestTypes
  BY TypeGroups
<1>1. ASSUME NEW e \in Engines, EnsureEngine(e) PROVE TabInv'
  BY <1>1, <1>a, Consts DEF EnsureEngine, chromeVars, tabVars, hand, TargetsAreNew, TabInv, TabTypes,
      ProcTypes, Exists, HandedIsClosed, StepHasWindow, OpenIsOn, ProcInv, LinkedIsUp, LinkStages,
      SessionIsStep, SessionIsOpen, ClosedIsClosed
<1>2. ASSUME NEW e \in Engines, ProbeFinds(e) PROVE TabInv'
  BY <1>2, <1>a, Consts DEF ProbeFinds, Finds, ActivePort, Up, chromeVars, tabVars, hand, TargetsAreNew,
      TabInv, TabTypes, ProcTypes, Exists, HandedIsClosed, StepHasWindow, OpenIsOn, ProcInv, LinkedIsUp,
      LinkStages, SessionIsStep, SessionIsOpen, ClosedIsClosed
<1>3. ASSUME NEW e \in Engines, ProbeFails(e) PROVE TabInv'
  BY <1>3, <1>a, Consts DEF ProbeFails, ActivePort, Up, tabVars, hand, TargetsAreNew, TabInv, TabTypes,
      ProcTypes, Exists, HandedIsClosed, StepHasWindow, OpenIsOn, ProcInv, LinkedIsUp, LinkStages,
      SessionIsStep, SessionIsOpen, ClosedIsClosed
<1>4. ASSUME NEW e \in Engines, Launch(e) PROVE TabInv'
  <2>1. TargetsAreNew'
    BY <1>4, <1>a, Consts DEF Launch, LaunchChrome, Launched, tabVars, hand, TargetsAreNew, TabInv,
        TabTypes, ProcTypes, Exists
  <2>2. HandedIsClosed'
    BY <1>4, <1>a, Consts DEF Launch, LaunchChrome, Launched, tabVars, hand, HandedIsClosed,
        TargetsAreNew, TabInv, TabTypes, ProcTypes, Exists
  <2>3. StepHasWindow'
    BY <1>4, <1>a, Consts DEF Launch, LaunchChrome, Launched, tabVars, hand, StepHasWindow, TabInv,
        TabTypes, ProcTypes, Exists
  <2>4. OpenIsOn'
    BY <1>4, <1>a, Consts DEF Launch, LaunchChrome, Launched, tabVars, hand, OpenIsOn, ProcInv,
        LinkedIsUp, LinkStages, TabInv, TabTypes, ProcTypes, Exists
  <2>5. SessionIsStep'
    BY <1>4, <1>a, Consts DEF Launch, LaunchChrome, Launched, tabVars, hand, SessionIsStep,
        StepHasWindow, TabInv, TabTypes, ProcTypes, Exists
  <2>6. SessionIsOpen'
    BY <1>4, <1>a, Consts DEF Launch, LaunchChrome, Launched, tabVars, hand, SessionIsOpen,
        SessionIsStep, StepHasWindow, TabInv, TabTypes, ProcTypes, Exists
  <2>7. ClosedIsClosed'
    BY <1>4, <1>a, Consts DEF Launch, LaunchChrome, Launched, tabVars, hand, ClosedIsClosed, TabInv,
        TabTypes, ProcTypes, Exists
  <2> QED BY <2>1, <2>2, <2>3, <2>4, <2>5, <2>6, <2>7 DEF TabInv
<1>5. ASSUME NEW e \in Engines, Relaunch(e) PROVE TabInv'
  BY <1>5, <1>a, Consts DEF Relaunch, LaunchChrome, Launched, tabVars, hand, TargetsAreNew, TabInv,
      TabTypes, ProcTypes, Exists, HandedIsClosed, StepHasWindow, OpenIsOn, ProcInv, LinkedIsUp,
      LinkStages, SessionIsStep, SessionIsOpen, ClosedIsClosed
<1>6. ASSUME NEW e \in Engines, WaitFinds(e) PROVE TabInv'
  BY <1>6, <1>a, Consts DEF WaitFinds, Finds, ActivePort, Up, chromeVars, tabVars, hand, TargetsAreNew,
      TabInv, TabTypes, ProcTypes, Exists, HandedIsClosed, StepHasWindow, OpenIsOn, ProcInv, LinkedIsUp,
      LinkStages, SessionIsStep, SessionIsOpen, ClosedIsClosed
<1>7. ASSUME NEW e \in Engines, WaitGivesUp(e) PROVE TabInv'
  <2>1. TargetsAreNew'
    BY <1>7, <1>a, Consts DEF WaitGivesUp, ActivePort, Up, TabsLose, Exists, tabVars, hand,
        TargetsAreNew, TabInv, TabTypes, ProcTypes
  <2>2. HandedIsClosed'
    BY <1>7, <1>a, Consts DEF WaitGivesUp, ActivePort, Up, TabsLose, Exists, tabVars, hand,
        HandedIsClosed, TargetsAreNew, TabInv, TabTypes, ProcTypes
  <2>3. StepHasWindow'
    BY <1>7, <1>a, Consts DEF WaitGivesUp, ActivePort, Up, TabsLose, Exists, tabVars, hand,
        StepHasWindow, TabInv, TabTypes, ProcTypes
  <2>4. OpenIsOn'
    BY <1>7, <1>a, Consts DEF WaitGivesUp, ActivePort, Up, TabsLose, Exists, tabVars, hand, OpenIsOn,
        ProcInv, LinkedIsUp, LinkStages, TabInv, TabTypes, ProcTypes
  <2>5. SessionIsStep'
    <3>1. PICK es \in SUBSET Engines : TabsLose(es) \/ UNCHANGED tabVars
      BY <1>7 DEF WaitGivesUp
    <3> QED BY <1>a, <3>1, LostTabs DEF TabInv, SessionIsStep, tabVars
  <2>6. SessionIsOpen'
    <3>1. PICK es \in SUBSET Engines : TabsLose(es) \/ UNCHANGED tabVars
      BY <1>7 DEF WaitGivesUp
    <3>2. missed' = missed
      BY <1>7 DEF WaitGivesUp, hand
    <3> QED BY <1>a, <3>1, <3>2, LostTabs DEF TabInv, SessionIsOpen, tabVars
  <2>7. ClosedIsClosed'
    BY <1>7, <1>a, Consts DEF WaitGivesUp, ActivePort, Up, TabsLose, Exists, tabVars, hand,
        ClosedIsClosed, TabInv, TabTypes, ProcTypes
  <2> QED BY <2>1, <2>2, <2>3, <2>4, <2>5, <2>6, <2>7 DEF TabInv
<1>8. ASSUME NEW e \in Engines, ConnectLink(e) PROVE TabInv'
  <2>1. TargetsAreNew'
    BY <1>8, <1>a, Consts DEF ConnectLink, Up, chromeVars, tabVars, hand, TargetsAreNew, TabInv,
        TabTypes, ProcTypes, Exists
  <2>2. HandedIsClosed'
    BY <1>8, <1>a, Consts DEF ConnectLink, Up, chromeVars, tabVars, hand, HandedIsClosed, TargetsAreNew,
        TabInv, TabTypes, ProcTypes, Exists
  <2>3. StepHasWindow'
    BY <1>8, <1>a, Consts DEF ConnectLink, Up, chromeVars, tabVars, hand, StepHasWindow, TabInv,
        TabTypes, ProcTypes, Exists
  <2>4. OpenIsOn'
    BY <1>8, <1>a, Consts DEF ConnectLink, Up, chromeVars, tabVars, hand, OpenIsOn, ProcInv, LinkedIsUp,
        LinkStages, TabInv, TabTypes, ProcTypes, Exists
  <2>5. SessionIsStep'
    BY <1>8, <1>a, Consts DEF ConnectLink, Up, chromeVars, tabVars, hand, SessionIsStep, StepHasWindow,
        TabInv, TabTypes, ProcTypes, Exists
  <2>6. SessionIsOpen'
    BY <1>8, <1>a, Consts DEF ConnectLink, Up, chromeVars, tabVars, hand, SessionIsOpen, SessionIsStep,
        StepHasWindow, TabInv, TabTypes, ProcTypes, Exists
  <2>7. ClosedIsClosed'
    BY <1>8, <1>a, Consts DEF ConnectLink, Up, chromeVars, tabVars, hand, ClosedIsClosed, TabInv,
        TabTypes, ProcTypes, Exists
  <2> QED BY <2>1, <2>2, <2>3, <2>4, <2>5, <2>6, <2>7 DEF TabInv
<1>9. ASSUME NEW e \in Engines, SweepAsks(e) PROVE TabInv'
  BY <1>9, <1>a, Consts DEF SweepAsks, IsOrphan, Exists, HasSession, chromeVars, tabVars, hand,
      TargetsAreNew, TabInv, TabTypes, ProcTypes, HandedIsClosed, StepHasWindow, OpenIsOn, ProcInv,
      LinkedIsUp, LinkStages, SessionIsStep, SessionIsOpen, ClosedIsClosed
<1>10. ASSUME NEW e \in Engines, SweepCloses(e) PROVE TabInv'
  <2>1. TargetsAreNew'
    BY <1>10, <1>a, Consts DEF SweepCloses, ClosesTargets, Exists, chromeVars, hand, TargetsAreNew,
        TabInv, TabTypes, ProcTypes
  <2>2. HandedIsClosed'
    BY <1>10, <1>a, Consts DEF SweepCloses, ClosesTargets, Exists, chromeVars, hand, HandedIsClosed,
        TargetsAreNew, TabInv, TabTypes, ProcTypes
  <2>3. StepHasWindow'
    BY <1>10, <1>a, Consts DEF SweepCloses, ClosesTargets, Exists, chromeVars, hand, StepHasWindow,
        TabInv, TabTypes, ProcTypes
  <2>4. OpenIsOn'
    BY <1>10, <1>a, Consts DEF SweepCloses, ClosesTargets, Exists, chromeVars, hand, OpenIsOn, ProcInv,
        LinkedIsUp, LinkStages, TabInv, TabTypes, ProcTypes
  <2>5. SessionIsStep'
    BY <1>10, <1>a, Consts DEF SweepCloses, ClosesTargets, Exists, chromeVars, hand, SessionIsStep,
        StepHasWindow, TabInv, TabTypes, ProcTypes
  <2>6. SessionIsOpen'
    BY <1>10, <1>a, Consts DEF SweepCloses, ClosesTargets, Exists, chromeVars, hand, SessionIsOpen,
        SessionIsStep, StepHasWindow, TabInv, TabTypes, ProcTypes
  <2>7. ClosedIsClosed'
    BY <1>10, <1>a, Consts DEF SweepCloses, ClosesTargets, Exists, chromeVars, hand, ClosedIsClosed,
        TabInv, TabTypes, ProcTypes
  <2> QED BY <2>1, <2>2, <2>3, <2>4, <2>5, <2>6, <2>7 DEF TabInv
<1>11. ASSUME NEW e \in Engines, StopEngine(e) PROVE TabInv'
  <2>1. TargetsAreNew'
    BY <1>11, <1>a, Consts DEF StopEngine, ClosesOwn, chromeVars, TargetsAreNew, TabInv, TabTypes,
        ProcTypes, Exists
  <2>2. HandedIsClosed'
    BY <1>11, <1>a, Consts DEF StopEngine, ClosesOwn, chromeVars, HandedIsClosed, TargetsAreNew, TabInv,
        TabTypes, ProcTypes, Exists
  <2>3. StepHasWindow'
    BY <1>11, <1>a, Consts DEF StopEngine, ClosesOwn, chromeVars, StepHasWindow, TabInv, TabTypes,
        ProcTypes, Exists
  <2>4. OpenIsOn'
    BY <1>11, <1>a, Consts DEF StopEngine, ClosesOwn, chromeVars, OpenIsOn, ProcInv, LinkedIsUp,
        LinkStages, TabInv, TabTypes, ProcTypes, Exists
  <2>5. SessionIsStep'
    BY <1>11, <1>a, Consts DEF StopEngine, ClosesOwn, chromeVars, SessionIsStep, StepHasWindow, TabInv,
        TabTypes, ProcTypes, Exists
  <2>6. SessionIsOpen'
    BY <1>11, <1>a, Consts DEF StopEngine, ClosesOwn, chromeVars, SessionIsOpen, SessionIsStep,
        StepHasWindow, TabInv, TabTypes, ProcTypes, Exists
  <2>7. ClosedIsClosed'
    BY <1>11, <1>a, Consts DEF StopEngine, ClosesOwn, chromeVars, ClosedIsClosed, TabInv, TabTypes,
        ProcTypes, Exists
  <2> QED BY <2>1, <2>2, <2>3, <2>4, <2>5, <2>6, <2>7 DEF TabInv
<1>12. ASSUME NEW e \in Engines, StopAsks(e) PROVE TabInv'
  BY <1>12, <1>a, Consts DEF StopAsks, Exists, HasSession, chromeVars, tabVars, hand, TargetsAreNew,
      TabInv, TabTypes, ProcTypes, HandedIsClosed, StepHasWindow, OpenIsOn, ProcInv, LinkedIsUp,
      LinkStages, SessionIsStep, SessionIsOpen, ClosedIsClosed
<1>13. ASSUME NEW e \in Engines, StopEnds(e) PROVE TabInv'
  <2>1. TargetsAreNew'
    BY <1>13, <1>a, Consts DEF StopEnds, ChromeGone, TabsLose, Exists, chromeVars, hand, TargetsAreNew,
        TabInv, TabTypes, ProcTypes
  <2>2. HandedIsClosed'
    BY <1>13, <1>a, Consts DEF StopEnds, ChromeGone, TabsLose, Exists, chromeVars, hand, HandedIsClosed,
        TargetsAreNew, TabInv, TabTypes, ProcTypes
  <2>3. StepHasWindow'
    BY <1>13, <1>a, Consts DEF StopEnds, ChromeGone, TabsLose, Exists, chromeVars, hand, StepHasWindow,
        TabInv, TabTypes, ProcTypes
  <2>4. OpenIsOn'
    BY <1>13, <1>a, Consts DEF StopEnds, ChromeGone, TabsLose, Exists, chromeVars, hand, OpenIsOn,
        ProcInv, LinkedIsUp, LinkStages, TabInv, TabTypes, ProcTypes
  <2>5. SessionIsStep'
    <3>1. PICK es \in SUBSET Engines : TabsLose(es)
      BY <1>13 DEF StopEnds, ChromeGone
    <3> QED BY <1>a, <3>1, LostTabs DEF TabInv, SessionIsStep
  <2>6. SessionIsOpen'
    <3>1. PICK es \in SUBSET Engines : TabsLose(es)
      BY <1>13 DEF StopEnds, ChromeGone
    <3>2. missed' = missed
      BY <1>13 DEF StopEnds, hand
    <3> QED BY <1>a, <3>1, <3>2, LostTabs DEF TabInv, SessionIsOpen
  <2>7. ClosedIsClosed'
    BY <1>13, <1>a, Consts DEF StopEnds, ChromeGone, TabsLose, Exists, chromeVars, hand, ClosedIsClosed,
        TabInv, TabTypes, ProcTypes
  <2> QED BY <2>1, <2>2, <2>3, <2>4, <2>5, <2>6, <2>7 DEF TabInv
<1>14. ASSUME NEW e \in Engines, ForgetEngine(e) PROVE TabInv'
  <2>1. TargetsAreNew'
    BY <1>14, <1>a, Consts DEF ForgetEngine, LinkDrops, TabsLose, Linked, chromeVars, hand,
        TargetsAreNew, TabInv, TabTypes, ProcTypes, Exists
  <2>2. HandedIsClosed'
    BY <1>14, <1>a, Consts DEF ForgetEngine, LinkDrops, TabsLose, Linked, chromeVars, hand,
        HandedIsClosed, TargetsAreNew, TabInv, TabTypes, ProcTypes, Exists
  <2>3. StepHasWindow'
    BY <1>14, <1>a, Consts DEF ForgetEngine, LinkDrops, TabsLose, Linked, chromeVars, hand,
        StepHasWindow, TabInv, TabTypes, ProcTypes, Exists
  <2>4. OpenIsOn'
    BY <1>14, <1>a, Consts DEF ForgetEngine, LinkDrops, TabsLose, Linked, chromeVars, hand, OpenIsOn,
        ProcInv, LinkedIsUp, LinkStages, TabInv, TabTypes, ProcTypes, Exists
  <2>5. SessionIsStep'
    BY <1>14, <1>a, Consts DEF ForgetEngine, LinkDrops, TabsLose, Linked, chromeVars, hand,
        SessionIsStep, StepHasWindow, TabInv, TabTypes, ProcTypes, Exists
  <2>6. SessionIsOpen'
    BY <1>14, <1>a, Consts DEF ForgetEngine, LinkDrops, TabsLose, Linked, chromeVars, hand,
        SessionIsOpen, SessionIsStep, StepHasWindow, TabInv, TabTypes, ProcTypes, Exists
  <2>7. ClosedIsClosed'
    BY <1>14, <1>a, Consts DEF ForgetEngine, LinkDrops, TabsLose, Linked, chromeVars, hand,
        ClosedIsClosed, TabInv, TabTypes, ProcTypes, Exists
  <2> QED BY <2>1, <2>2, <2>3, <2>4, <2>5, <2>6, <2>7 DEF TabInv
<1>15. ASSUME NEW e \in Engines, PaneKilled(e) PROVE TabInv'
  <2>1. TargetsAreNew'
    BY <1>15, <1>a, Consts DEF PaneKilled, LinkDrops, TabsLose, Linked, chromeVars, hand, TargetsAreNew,
        TabInv, TabTypes, ProcTypes, Exists
  <2>2. HandedIsClosed'
    BY <1>15, <1>a, Consts DEF PaneKilled, LinkDrops, TabsLose, Linked, chromeVars, hand,
        HandedIsClosed, TargetsAreNew, TabInv, TabTypes, ProcTypes, Exists
  <2>3. StepHasWindow'
    BY <1>15, <1>a, Consts DEF PaneKilled, LinkDrops, TabsLose, Linked, chromeVars, hand, StepHasWindow,
        TabInv, TabTypes, ProcTypes, Exists
  <2>4. OpenIsOn'
    BY <1>15, <1>a, Consts DEF PaneKilled, LinkDrops, TabsLose, Linked, chromeVars, hand, OpenIsOn,
        ProcInv, LinkedIsUp, LinkStages, TabInv, TabTypes, ProcTypes, Exists
  <2>5. SessionIsStep'
    BY <1>15, <1>a, Consts DEF PaneKilled, LinkDrops, TabsLose, Linked, chromeVars, hand, SessionIsStep,
        StepHasWindow, TabInv, TabTypes, ProcTypes, Exists
  <2>6. SessionIsOpen'
    BY <1>15, <1>a, Consts DEF PaneKilled, LinkDrops, TabsLose, Linked, chromeVars, hand, SessionIsOpen,
        SessionIsStep, StepHasWindow, TabInv, TabTypes, ProcTypes, Exists
  <2>7. ClosedIsClosed'
    BY <1>15, <1>a, Consts DEF PaneKilled, LinkDrops, TabsLose, Linked, chromeVars, hand,
        ClosedIsClosed, TabInv, TabTypes, ProcTypes, Exists
  <2> QED BY <2>1, <2>2, <2>3, <2>4, <2>5, <2>6, <2>7 DEF TabInv
<1>16. ASSUME NEW e \in Engines, NEW t \in Targets, HearForeignTab(e, t) PROVE TabInv'
  BY <1>16, <1>a, Consts DEF HearForeignTab, Linked, IsForeignTab, HasSession, chromeVars, tabVars,
      TargetsAreNew, TabInv, TabTypes, ProcTypes, Exists, HandedIsClosed, StepHasWindow, OpenIsOn,
      ProcInv, LinkedIsUp, LinkStages, SessionIsStep, SessionIsOpen, ClosedIsClosed
<1>17. ASSUME NEW e \in Engines, NEW t \in Targets, ForwardForeignTab(e, t) PROVE TabInv'
  <2>1. TargetsAreNew'
    BY <1>17, <1>a, Consts DEF ForwardForeignTab, ClosesTargets, Exists, Linked, chromeVars,
        TargetsAreNew, TabInv, TabTypes, ProcTypes
  <2>2. HandedIsClosed'
    BY <1>17, <1>a, Consts DEF ForwardForeignTab, ClosesTargets, Exists, Linked, chromeVars,
        HandedIsClosed, TargetsAreNew, TabInv, TabTypes, ProcTypes
  <2>3. StepHasWindow'
    BY <1>17, <1>a, Consts DEF ForwardForeignTab, ClosesTargets, Exists, Linked, chromeVars,
        StepHasWindow, TabInv, TabTypes, ProcTypes
  <2>4. OpenIsOn'
    BY <1>17, <1>a, Consts DEF ForwardForeignTab, ClosesTargets, Exists, Linked, chromeVars, OpenIsOn,
        ProcInv, LinkedIsUp, LinkStages, TabInv, TabTypes, ProcTypes
  <2>5. SessionIsStep'
    BY <1>17, <1>a, Consts DEF ForwardForeignTab, ClosesTargets, Exists, Linked, chromeVars,
        SessionIsStep, StepHasWindow, TabInv, TabTypes, ProcTypes
  <2>6. SessionIsOpen'
    BY <1>17, <1>a, Consts DEF ForwardForeignTab, ClosesTargets, Exists, Linked, chromeVars,
        SessionIsOpen, SessionIsStep, StepHasWindow, TabInv, TabTypes, ProcTypes
  <2>7. ClosedIsClosed'
    BY <1>17, <1>a, Consts DEF ForwardForeignTab, ClosesTargets, Exists, Linked, chromeVars,
        ClosedIsClosed, TabInv, TabTypes, ProcTypes
  <2> QED BY <2>1, <2>2, <2>3, <2>4, <2>5, <2>6, <2>7 DEF TabInv
<1>18. ASSUME NEW t \in Outside, OutsideOpens(t) PROVE TabInv'
  <2>1. TargetsAreNew'
    BY <1>18, <1>a, Consts DEF OutsideOpens, Up, chromeVars, hand, TargetsAreNew, TabInv, TabTypes,
        ProcTypes, Exists
  <2>2. HandedIsClosed'
    BY <1>18, <1>a, Consts DEF OutsideOpens, Up, chromeVars, hand, HandedIsClosed, TargetsAreNew,
        TabInv, TabTypes, ProcTypes, Exists
  <2>3. StepHasWindow'
    BY <1>18, <1>a, Consts DEF OutsideOpens, Up, chromeVars, hand, StepHasWindow, TabInv, TabTypes,
        ProcTypes, Exists
  <2>4. OpenIsOn'
    BY <1>18, <1>a, Consts DEF OutsideOpens, Up, chromeVars, hand, OpenIsOn, ProcInv, LinkedIsUp,
        LinkStages, TabInv, TabTypes, ProcTypes, Exists
  <2>5. SessionIsStep'
    BY <1>18, <1>a, Consts DEF OutsideOpens, Up, chromeVars, hand, SessionIsStep, StepHasWindow, TabInv,
        TabTypes, ProcTypes, Exists
  <2>6. SessionIsOpen'
    BY <1>18, <1>a, Consts DEF OutsideOpens, Up, chromeVars, hand, SessionIsOpen, SessionIsStep,
        StepHasWindow, TabInv, TabTypes, ProcTypes, Exists
  <2>7. ClosedIsClosed'
    BY <1>18, <1>a, Consts DEF OutsideOpens, Up, chromeVars, hand, ClosedIsClosed, TabInv, TabTypes,
        ProcTypes, Exists
  <2> QED BY <2>1, <2>2, <2>3, <2>4, <2>5, <2>6, <2>7 DEF TabInv
<1>19. ASSUME NEW t \in Tabs, NewTarget(t) PROVE TabInv'
  <2>1. TargetsAreNew'
    BY <1>19, <1>a, Consts DEF NewTarget, chromeVars, hand, TargetsAreNew, TabInv, TabTypes, ProcTypes,
        Exists
  <2>2. HandedIsClosed'
    BY <1>19, <1>a, Consts DEF NewTarget, chromeVars, hand, HandedIsClosed, TargetsAreNew, TabInv,
        TabTypes, ProcTypes, Exists
  <2>3. StepHasWindow'
    BY <1>19, <1>a, Consts DEF NewTarget, chromeVars, hand, StepHasWindow, TabInv, TabTypes, ProcTypes,
        Exists
  <2>4. OpenIsOn'
    BY <1>19, <1>a, Consts DEF NewTarget, chromeVars, hand, OpenIsOn, ProcInv, LinkedIsUp, LinkStages,
        TabInv, TabTypes, ProcTypes, Exists
  <2>5. SessionIsStep'
    BY <1>19, <1>a, Consts DEF NewTarget, chromeVars, hand, SessionIsStep, StepHasWindow, TabInv,
        TabTypes, ProcTypes, Exists
  <2>6. SessionIsOpen'
    BY <1>19, <1>a, Consts DEF NewTarget, chromeVars, hand, SessionIsOpen, SessionIsStep, StepHasWindow,
        TabInv, TabTypes, ProcTypes, Exists
  <2>7. ClosedIsClosed'
    BY <1>19, <1>a, Consts DEF NewTarget, chromeVars, hand, ClosedIsClosed, TabInv, TabTypes, ProcTypes,
        Exists
  <2> QED BY <2>1, <2>2, <2>3, <2>4, <2>5, <2>6, <2>7 DEF TabInv
<1>20. ASSUME NEW t \in Tabs, ChromeCreates(t) PROVE TabInv'
  BY <1>20, <1>a, Consts DEF ChromeCreates, chromeVars, hand, TargetsAreNew, TabInv, TabTypes, ProcTypes,
      Exists, HandedIsClosed, StepHasWindow, OpenIsOn, ProcInv, LinkedIsUp, LinkStages, SessionIsStep,
      SessionIsOpen, ClosedIsClosed
<1>21. ASSUME NEW t \in Tabs, AdoptTarget(t) PROVE TabInv'
  <2>1. TargetsAreNew'
    BY <1>21, <1>a, Consts DEF AdoptTarget, chromeVars, hand, TargetsAreNew, TabInv, TabTypes,
        ProcTypes, Exists
  <2>2. HandedIsClosed'
    BY <1>21, <1>a, Consts DEF AdoptTarget, chromeVars, hand, HandedIsClosed, TargetsAreNew, TabInv,
        TabTypes, ProcTypes, Exists
  <2>3. StepHasWindow'
    BY <1>21, <1>a, Consts DEF AdoptTarget, chromeVars, hand, StepHasWindow, TabInv, TabTypes,
        ProcTypes, Exists
  <2>4. OpenIsOn'
    BY <1>21, <1>a, Consts DEF AdoptTarget, chromeVars, hand, OpenIsOn, ProcInv, LinkedIsUp, LinkStages,
        TabInv, TabTypes, ProcTypes, Exists
  <2>5. SessionIsStep'
    BY <1>21, <1>a, Consts DEF AdoptTarget, chromeVars, hand, SessionIsStep, StepHasWindow, TabInv,
        TabTypes, ProcTypes, Exists
  <2>6. SessionIsOpen'
    BY <1>21, <1>a, Consts DEF AdoptTarget, chromeVars, hand, SessionIsOpen, SessionIsStep,
        StepHasWindow, TabInv, TabTypes, ProcTypes, Exists
  <2>7. ClosedIsClosed'
    BY <1>21, <1>a, Consts DEF AdoptTarget, chromeVars, hand, ClosedIsClosed, TabInv, TabTypes,
        ProcTypes, Exists
  <2> QED BY <2>1, <2>2, <2>3, <2>4, <2>5, <2>6, <2>7 DEF TabInv
<1>22. ASSUME NEW t \in Tabs, ChromeAttaches(t) PROVE TabInv'
  BY <1>22, <1>a, Consts DEF ChromeAttaches, chromeVars, hand, TargetsAreNew, TabInv, TabTypes, ProcTypes,
      Exists, HandedIsClosed, StepHasWindow, OpenIsOn, ProcInv, LinkedIsUp, LinkStages, SessionIsStep,
      SessionIsOpen, ClosedIsClosed
<1>23. ASSUME NEW t \in Tabs, Initialize(t) PROVE TabInv'
  BY <1>23, <1>a, Consts DEF Initialize, chromeVars, hand, TargetsAreNew, TabInv, TabTypes, ProcTypes,
      Exists, HandedIsClosed, StepHasWindow, OpenIsOn, ProcInv, LinkedIsUp, LinkStages, SessionIsStep,
      SessionIsOpen, ClosedIsClosed
<1>24. ASSUME NEW t \in Tabs, LoadURL(t) PROVE TabInv'
  BY <1>24, <1>a, Consts DEF LoadURL, chromeVars, hand, TargetsAreNew, TabInv, TabTypes, ProcTypes,
      Exists, HandedIsClosed, StepHasWindow, OpenIsOn, ProcInv, LinkedIsUp, LinkStages, SessionIsStep,
      SessionIsOpen, ClosedIsClosed
<1>25. ASSUME NEW t \in Tabs, CloseTarget(t) PROVE TabInv'
  <2>1. TargetsAreNew'
    BY <1>25, <1>a, Consts DEF CloseTarget, ClosesOwn, chromeVars, TargetsAreNew, TabInv, TabTypes,
        ProcTypes, Exists
  <2>2. HandedIsClosed'
    BY <1>25, <1>a, Consts DEF CloseTarget, ClosesOwn, chromeVars, HandedIsClosed, TargetsAreNew,
        TabInv, TabTypes, ProcTypes, Exists
  <2>3. StepHasWindow'
    BY <1>25, <1>a, Consts DEF CloseTarget, ClosesOwn, chromeVars, StepHasWindow, TabInv, TabTypes,
        ProcTypes, Exists
  <2>4. OpenIsOn'
    BY <1>25, <1>a, Consts DEF CloseTarget, ClosesOwn, chromeVars, OpenIsOn, ProcInv, LinkedIsUp,
        LinkStages, TabInv, TabTypes, ProcTypes, Exists
  <2>5. SessionIsStep'
    BY <1>25, <1>a, Consts DEF CloseTarget, ClosesOwn, chromeVars, SessionIsStep, StepHasWindow, TabInv,
        TabTypes, ProcTypes, Exists
  <2>6. SessionIsOpen'
    BY <1>25, <1>a, Consts DEF CloseTarget, ClosesOwn, chromeVars, SessionIsOpen, SessionIsStep,
        StepHasWindow, TabInv, TabTypes, ProcTypes, Exists
  <2>7. ClosedIsClosed'
    BY <1>25, <1>a, Consts DEF CloseTarget, ClosesOwn, chromeVars, ClosedIsClosed, TabInv, TabTypes,
        ProcTypes, Exists
  <2> QED BY <2>1, <2>2, <2>3, <2>4, <2>5, <2>6, <2>7 DEF TabInv
<1>26. ASSUME NEW c \in Chromes, ChromeStarts(c) PROVE TabInv'
  BY <1>26, <1>a, Consts DEF ChromeStarts, Up, tabVars, hand, TargetsAreNew, TabInv, TabTypes, ProcTypes,
      Exists, HandedIsClosed, StepHasWindow, OpenIsOn, ProcInv, LinkedIsUp, LinkStages, SessionIsStep,
      SessionIsOpen, ClosedIsClosed
<1>27. ASSUME NEW c \in Chromes, ChromeDies(c) PROVE TabInv'
  <2>1. TargetsAreNew'
    BY <1>27, <1>a, Consts DEF ChromeDies, ChromeGone, TabsLose, Exists, Up, hand, TargetsAreNew,
        TabInv, TabTypes, ProcTypes
  <2>2. HandedIsClosed'
    BY <1>27, <1>a, Consts DEF ChromeDies, ChromeGone, TabsLose, Exists, Up, hand, HandedIsClosed,
        TargetsAreNew, TabInv, TabTypes, ProcTypes
  <2>3. StepHasWindow'
    BY <1>27, <1>a, Consts DEF ChromeDies, ChromeGone, TabsLose, Exists, Up, hand, StepHasWindow,
        TabInv, TabTypes, ProcTypes
  <2>4. OpenIsOn'
    BY <1>27, <1>a, Consts DEF ChromeDies, ChromeGone, TabsLose, Exists, Up, hand, OpenIsOn, ProcInv,
        LinkedIsUp, LinkStages, TabInv, TabTypes, ProcTypes
  <2>5. SessionIsStep'
    BY <1>27, <1>a, Consts DEF ChromeDies, ChromeGone, TabsLose, Exists, Up, hand, SessionIsStep,
        StepHasWindow, TabInv, TabTypes, ProcTypes
  <2>6. SessionIsOpen'
    BY <1>27, <1>a, Consts DEF ChromeDies, ChromeGone, TabsLose, Exists, Up, hand, SessionIsOpen,
        SessionIsStep, StepHasWindow, TabInv, TabTypes, ProcTypes
  <2>7. ClosedIsClosed'
    BY <1>27, <1>a, Consts DEF ChromeDies, ChromeGone, TabsLose, Exists, Up, hand, ClosedIsClosed,
        TabInv, TabTypes, ProcTypes
  <2> QED BY <2>1, <2>2, <2>3, <2>4, <2>5, <2>6, <2>7 DEF TabInv
<1> QED BY <1>1, <1>2, <1>3, <1>4, <1>5, <1>6, <1>7, <1>8, <1>9, <1>10, <1>11, <1>12, <1>13, <1>14, <1>15,
    <1>16, <1>17, <1>18, <1>19, <1>20, <1>21, <1>22, <1>23, <1>24, <1>25, <1>26, <1>27 DEF SharedNext,
    StartStep, TabStep, StopStep

\* Every step leaves one engine that closes Chrome, if all are stopping.
LEMMA SharedLastStep ==
  ASSUME SharedTypeOK, TabInv, ProcInv, LastOneAsks, SharedNext PROVE LastOneAsks'
<1>a. ProcTypes /\ TabTypes /\ RestTypes
  BY TypeGroups
<1>1. ASSUME NEW e \in Engines, EnsureEngine(e) PROVE LastOneAsks'
  BY <1>1, <1>a, Consts DEF EnsureEngine, chromeVars, tabVars, hand, LastOneAsks, LastStages, UniqueUp,
      StartingIsAwaited, LinkedIsUp, LinkStages, ProcInv, TabInv, OpenIsOn, SessionIsOpen, ProcTypes,
      TabTypes, RestTypes
<1>2. ASSUME NEW e \in Engines, ProbeFinds(e) PROVE LastOneAsks'
  BY <1>2, <1>a, Consts DEF ProbeFinds, Finds, ActivePort, Up, chromeVars, tabVars, hand, LastOneAsks,
      LastStages, UniqueUp, StartingIsAwaited, LinkedIsUp, LinkStages, ProcInv, TabInv, OpenIsOn,
      SessionIsOpen, ProcTypes, TabTypes, RestTypes
<1>3. ASSUME NEW e \in Engines, ProbeFails(e) PROVE LastOneAsks'
  BY <1>3, <1>a, Consts DEF ProbeFails, ActivePort, Up, tabVars, hand, LastOneAsks, LastStages, UniqueUp,
      StartingIsAwaited, LinkedIsUp, LinkStages, ProcInv, TabInv, OpenIsOn, SessionIsOpen, ProcTypes,
      TabTypes, RestTypes
<1>4. ASSUME NEW e \in Engines, Launch(e) PROVE LastOneAsks'
  BY <1>4, <1>a, Consts DEF Launch, LaunchChrome, Launched, tabVars, hand, LastOneAsks, LastStages,
      UniqueUp, StartingIsAwaited, LinkedIsUp, LinkStages, ProcInv, TabInv, OpenIsOn, SessionIsOpen,
      ProcTypes, TabTypes, RestTypes
<1>5. ASSUME NEW e \in Engines, Relaunch(e) PROVE LastOneAsks'
  BY <1>5, <1>a, Consts DEF Relaunch, LaunchChrome, Launched, tabVars, hand, LastOneAsks, LastStages,
      UniqueUp, StartingIsAwaited, LinkedIsUp, LinkStages, ProcInv, TabInv, OpenIsOn, SessionIsOpen,
      ProcTypes, TabTypes, RestTypes
<1>6. ASSUME NEW e \in Engines, WaitFinds(e) PROVE LastOneAsks'
  BY <1>6, <1>a, Consts DEF WaitFinds, Finds, ActivePort, Up, chromeVars, tabVars, hand, LastOneAsks,
      LastStages, UniqueUp, StartingIsAwaited, LinkedIsUp, LinkStages, ProcInv, TabInv, OpenIsOn,
      SessionIsOpen, ProcTypes, TabTypes, RestTypes
<1>7. ASSUME NEW e \in Engines, WaitGivesUp(e) PROVE LastOneAsks'
  BY <1>7, <1>a, Consts DEF WaitGivesUp, ActivePort, Up, TabsLose, Exists, tabVars, hand, LastOneAsks,
      LastStages, UniqueUp, StartingIsAwaited, LinkedIsUp, LinkStages, ProcInv, TabInv, OpenIsOn,
      SessionIsOpen, ProcTypes, TabTypes, RestTypes
<1>8. ASSUME NEW e \in Engines, ConnectLink(e) PROVE LastOneAsks'
  BY <1>8, <1>a, Consts DEF ConnectLink, Up, chromeVars, tabVars, hand, LastOneAsks, LastStages, UniqueUp,
      StartingIsAwaited, LinkedIsUp, LinkStages, ProcInv, TabInv, OpenIsOn, SessionIsOpen, ProcTypes,
      TabTypes, RestTypes
<1>9. ASSUME NEW e \in Engines, SweepAsks(e) PROVE LastOneAsks'
  BY <1>9, <1>a, Consts DEF SweepAsks, IsOrphan, Exists, HasSession, chromeVars, tabVars, hand,
      LastOneAsks, LastStages, UniqueUp, StartingIsAwaited, LinkedIsUp, LinkStages, ProcInv, TabInv,
      OpenIsOn, SessionIsOpen, ProcTypes, TabTypes, RestTypes
<1>10. ASSUME NEW e \in Engines, SweepCloses(e) PROVE LastOneAsks'
  BY <1>10, <1>a, Consts DEF SweepCloses, ClosesTargets, Exists, chromeVars, hand, LastOneAsks,
      LastStages, UniqueUp, StartingIsAwaited, LinkedIsUp, LinkStages, ProcInv, TabInv, OpenIsOn,
      SessionIsOpen, ProcTypes, TabTypes, RestTypes
<1>11. ASSUME NEW e \in Engines, StopEngine(e) PROVE LastOneAsks'
  BY <1>11, <1>a, Consts DEF StopEngine, ClosesOwn, chromeVars, LastOneAsks, LastStages, UniqueUp,
      StartingIsAwaited, LinkedIsUp, LinkStages, ProcInv, TabInv, OpenIsOn, SessionIsOpen, ProcTypes,
      TabTypes, RestTypes
<1>12. ASSUME NEW e \in Engines, StopAsks(e) PROVE LastOneAsks'
  <2> SUFFICES ASSUME missed' = {}, \A d \in Engines : at'[d] \in LastStages
               PROVE  at'[e] = "asked" /\ seen'[e] = {}
    BY DEF LastOneAsks
  <2>1. \A t \in Tabs : at[OwnerOf[t]] # "on"
    BY <1>12, <1>a, Consts DEF StopAsks, LastStages, ProcTypes, EngineStages
  <2>2. \A t \in Tabs : ~session[t]
    BY <1>12, <2>1 DEF StopAsks, hand, TabInv, OpenIsOn, SessionIsOpen
  <2> QED BY <1>12, <1>a, <2>2 DEF StopAsks, HasSession, ProcTypes, RestTypes
<1>13. ASSUME NEW e \in Engines, StopEnds(e) PROVE LastOneAsks'
  <2>1. CASE seen[e] = {}
    <3>1. chrome' = [chrome EXCEPT ![link[e]] = "gone"]
      BY <1>13, <2>1 DEF StopEnds, ChromeGone
    <3>2. chrome[link[e]] = "up"
      BY <1>13 DEF StopEnds, ProcInv, LinkedIsUp, LinkStages
    <3>3. \A c \in Chromes : chrome'[c] # "up"
      BY <1>a, <3>1, <3>2, <1>13 DEF ProcTypes, ProcInv, UniqueUp, LinkedIsUp, LinkStages, StopEnds
    <3> QED BY <3>3 DEF LastOneAsks
  <2>2. CASE seen[e] # {}
    <3>1. /\ at' = [at EXCEPT ![e] = "stopped"] /\ seen' = [seen EXCEPT ![e] = {}]
          /\ chrome' = chrome /\ missed' = missed /\ at[e] = "asked"
      BY <1>13, <2>2 DEF StopEnds, chromeVars, hand
    <3> SUFFICES ASSUME missed = {}, \A d \in Engines : at'[d] \in LastStages, \E c \in Chromes : chrome[c] = "up"
                 PROVE  \E d \in Engines : at'[d] = "stopping" \/ (at'[d] = "asked" /\ seen'[d] = {})
      BY <3>1 DEF LastOneAsks
    <3>2. \A d \in Engines : at[d] \in LastStages
      BY <1>a, <3>1 DEF ProcTypes, LastStages
    <3>3. PICK d \in Engines : at[d] = "stopping" \/ (at[d] = "asked" /\ seen[d] = {})
      BY <3>2 DEF LastOneAsks
    <3>4. d # e
      BY <2>2, <3>1, <3>3
    <3> QED BY <1>a, <3>1, <3>3, <3>4 DEF ProcTypes, RestTypes
  <2> QED BY <2>1, <2>2
<1>14. ASSUME NEW e \in Engines, ForgetEngine(e) PROVE LastOneAsks'
  BY <1>14, <1>a, Consts DEF ForgetEngine, LinkDrops, TabsLose, Linked, chromeVars, hand, LastOneAsks,
      LastStages, UniqueUp, StartingIsAwaited, LinkedIsUp, LinkStages, ProcInv, TabInv, OpenIsOn,
      SessionIsOpen, ProcTypes, TabTypes, RestTypes
<1>15. ASSUME NEW e \in Engines, PaneKilled(e) PROVE LastOneAsks'
  BY <1>15, <1>a, Consts DEF PaneKilled, LinkDrops, TabsLose, Linked, chromeVars, hand, LastOneAsks,
      LastStages, UniqueUp, StartingIsAwaited, LinkedIsUp, LinkStages, ProcInv, TabInv, OpenIsOn,
      SessionIsOpen, ProcTypes, TabTypes, RestTypes
<1>16. ASSUME NEW e \in Engines, NEW t \in Targets, HearForeignTab(e, t) PROVE LastOneAsks'
  BY <1>16, <1>a, Consts DEF HearForeignTab, Linked, IsForeignTab, HasSession, chromeVars, tabVars,
      LastOneAsks, LastStages, UniqueUp, StartingIsAwaited, LinkedIsUp, LinkStages, ProcInv, TabInv,
      OpenIsOn, SessionIsOpen, ProcTypes, TabTypes, RestTypes
<1>17. ASSUME NEW e \in Engines, NEW t \in Targets, ForwardForeignTab(e, t) PROVE LastOneAsks'
  BY <1>17, <1>a, Consts DEF ForwardForeignTab, ClosesTargets, Exists, Linked, chromeVars, LastOneAsks,
      LastStages, UniqueUp, StartingIsAwaited, LinkedIsUp, LinkStages, ProcInv, TabInv, OpenIsOn,
      SessionIsOpen, ProcTypes, TabTypes, RestTypes
<1>18. ASSUME NEW t \in Outside, OutsideOpens(t) PROVE LastOneAsks'
  BY <1>18, <1>a, Consts DEF OutsideOpens, Up, chromeVars, hand, LastOneAsks, LastStages, UniqueUp,
      StartingIsAwaited, LinkedIsUp, LinkStages, ProcInv, TabInv, OpenIsOn, SessionIsOpen, ProcTypes,
      TabTypes, RestTypes
<1>19. ASSUME NEW t \in Tabs, NewTarget(t) PROVE LastOneAsks'
  BY <1>19, <1>a, Consts DEF NewTarget, chromeVars, hand, LastOneAsks, LastStages, UniqueUp,
      StartingIsAwaited, LinkedIsUp, LinkStages, ProcInv, TabInv, OpenIsOn, SessionIsOpen, ProcTypes,
      TabTypes, RestTypes
<1>20. ASSUME NEW t \in Tabs, ChromeCreates(t) PROVE LastOneAsks'
  BY <1>20, <1>a, Consts DEF ChromeCreates, chromeVars, hand, LastOneAsks, LastStages, UniqueUp,
      StartingIsAwaited, LinkedIsUp, LinkStages, ProcInv, TabInv, OpenIsOn, SessionIsOpen, ProcTypes,
      TabTypes, RestTypes
<1>21. ASSUME NEW t \in Tabs, AdoptTarget(t) PROVE LastOneAsks'
  BY <1>21, <1>a, Consts DEF AdoptTarget, chromeVars, hand, LastOneAsks, LastStages, UniqueUp,
      StartingIsAwaited, LinkedIsUp, LinkStages, ProcInv, TabInv, OpenIsOn, SessionIsOpen, ProcTypes,
      TabTypes, RestTypes
<1>22. ASSUME NEW t \in Tabs, ChromeAttaches(t) PROVE LastOneAsks'
  BY <1>22, <1>a, Consts DEF ChromeAttaches, chromeVars, hand, LastOneAsks, LastStages, UniqueUp,
      StartingIsAwaited, LinkedIsUp, LinkStages, ProcInv, TabInv, OpenIsOn, SessionIsOpen, ProcTypes,
      TabTypes, RestTypes
<1>23. ASSUME NEW t \in Tabs, Initialize(t) PROVE LastOneAsks'
  BY <1>23, <1>a, Consts DEF Initialize, chromeVars, hand, LastOneAsks, LastStages, UniqueUp,
      StartingIsAwaited, LinkedIsUp, LinkStages, ProcInv, TabInv, OpenIsOn, SessionIsOpen, ProcTypes,
      TabTypes, RestTypes
<1>24. ASSUME NEW t \in Tabs, LoadURL(t) PROVE LastOneAsks'
  BY <1>24, <1>a, Consts DEF LoadURL, chromeVars, hand, LastOneAsks, LastStages, UniqueUp,
      StartingIsAwaited, LinkedIsUp, LinkStages, ProcInv, TabInv, OpenIsOn, SessionIsOpen, ProcTypes,
      TabTypes, RestTypes
<1>25. ASSUME NEW t \in Tabs, CloseTarget(t) PROVE LastOneAsks'
  BY <1>25, <1>a, Consts DEF CloseTarget, ClosesOwn, chromeVars, LastOneAsks, LastStages, UniqueUp,
      StartingIsAwaited, LinkedIsUp, LinkStages, ProcInv, TabInv, OpenIsOn, SessionIsOpen, ProcTypes,
      TabTypes, RestTypes
<1>26. ASSUME NEW c \in Chromes, ChromeStarts(c) PROVE LastOneAsks'
  BY <1>26, <1>a, Consts DEF ChromeStarts, Up, tabVars, hand, LastOneAsks, LastStages, UniqueUp,
      StartingIsAwaited, LinkedIsUp, LinkStages, ProcInv, TabInv, OpenIsOn, SessionIsOpen, ProcTypes,
      TabTypes, RestTypes
<1>27. ASSUME NEW c \in Chromes, ChromeDies(c) PROVE LastOneAsks'
  BY <1>27, <1>a, Consts DEF ChromeDies, ChromeGone, TabsLose, Exists, Up, hand, LastOneAsks, LastStages,
      UniqueUp, StartingIsAwaited, LinkedIsUp, LinkStages, ProcInv, TabInv, OpenIsOn, SessionIsOpen,
      ProcTypes, TabTypes, RestTypes
<1> QED BY <1>1, <1>2, <1>3, <1>4, <1>5, <1>6, <1>7, <1>8, <1>9, <1>10, <1>11, <1>12, <1>13, <1>14, <1>15,
    <1>16, <1>17, <1>18, <1>19, <1>20, <1>21, <1>22, <1>23, <1>24, <1>25, <1>26, <1>27 DEF SharedNext,
    StartStep, TabStep, StopStep

\* It is true at first, whichever Chrome there is already.
LEMMA SharedFirst == SharedInit => SharedInv
<1> SUFFICES ASSUME SharedInit PROVE SharedInv
  OBVIOUS
<1>1. ProcTypes
  BY Consts DEF SharedInit, ProcTypes, EngineStages
<1>2. TabTypes
  BY Consts DEF SharedInit, TabTypes
<1>3. files \in [own : Chromes \cup {NoChrome}, picked : Chromes \cup {NoChrome}]
  BY Consts DEF SharedInit
<1>4. RestTypes
  BY <1>3, Consts DEF SharedInit, RestTypes
<1>5. ProcInv
  BY Consts DEF SharedInit, ProcInv, UniqueUp, StartingIsAwaited, WaitersHaveChild, LinkedIsUp, LinksOfLinked,
     LinkStages
<1>6. TabInv
  BY Consts DEF SharedInit, TabInv, TargetsAreNew, HandedIsClosed, StepHasWindow, OpenIsOn, SessionIsStep,
     SessionIsOpen, ClosedIsClosed
<1>7. LastOneAsks
  BY Consts DEF SharedInit, LastOneAsks, LastStages
<1> QED BY <1>1, <1>2, <1>4, <1>5, <1>6, <1>7, TypeGroups DEF SharedInv

\* Every step keeps all of it, and so does one of another part.
LEMMA SharedKept == SharedInv /\ [MCSettlesNext]_settleVars => SharedInv'
<1> SUFFICES ASSUME SharedInv, [MCSettlesNext]_settleVars PROVE SharedInv'
  OBVIOUS
<1>1. SharedNext \/ UNCHANGED sharedVars
  BY DEF MCSettlesNext, settleVars
<1>2. CASE SharedNext
  BY <1>2, SharedTypeStep, SharedProcStep, SharedTabStep, SharedLastStep DEF SharedInv
<1>3. CASE UNCHANGED sharedVars
  <2>1. SharedTypeOK'
    BY <1>3 DEF SharedInv, SharedTypeOK, sharedVars, chromeVars, tabVars, hand
  <2>2. ProcInv'
    BY <1>3 DEF SharedInv, ProcInv, UniqueUp, StartingIsAwaited, WaitersHaveChild, LinkedIsUp, LinksOfLinked,
       sharedVars, chromeVars
  <2>3. TabInv'
    BY <1>3 DEF SharedInv, TabInv, TargetsAreNew, HandedIsClosed, StepHasWindow, OpenIsOn, SessionIsStep,
       SessionIsOpen, ClosedIsClosed, Exists, sharedVars, tabVars, hand
  <2>4. LastOneAsks'
    BY <1>3 DEF SharedInv, LastOneAsks, sharedVars, chromeVars, hand
  <2> QED BY <2>1, <2>2, <2>3, <2>4 DEF SharedInv
<1> QED BY <1>1, <1>2, <1>3

\* However the engines of several panes find, launch, share and leave Chrome, whatever dies: a url
\* opened from outside is handed on once (forwardForeignTab of cdp/engine.cjs), a tab that was closed
\* is closed in Chrome, and the last engine that stops closes Chrome (stop of cdp/engine.cjs).
THEOREM ChromeStaysShared == MCSettlesSpec => []ChromeIsShared
<1>1. MCSettlesInit => SharedInv
  BY SharedFirst DEF MCSettlesInit, ChromeBegins
<1>2. SharedInv => ChromeIsShared
  <2> SUFFICES ASSUME SharedInv PROVE ChromeIsShared
    OBVIOUS
  <2>1. UrlOpensOnce
    BY DEF SharedInv, TabInv, HandedIsClosed, UrlOpensOnce
  <2>2. LastClosesChrome
    BY Consts DEF SharedInv, LastOneAsks, LastStages, LastClosesChrome, Up
  <2> QED BY <2>1, <2>2 DEF SharedInv, TabInv, ChromeIsShared
<1> QED BY <1>1, <1>2, SharedKept, PTL DEF MCSettlesSpec

\* The shared Chrome's state has its type in every state of the parts that wait.
THEOREM ChromeIsTyped == MCSettlesSpec => []SharedTypeOK
<1>1. MCSettlesInit => SharedInv
  BY SharedFirst DEF MCSettlesInit, ChromeBegins
<1>2. SharedInv => SharedTypeOK
  BY DEF SharedInv
<1> QED BY <1>1, <1>2, SharedKept, PTL DEF MCSettlesSpec

-----------------------------------------------------------------------------
(* The claim files: what is true of them between any two steps.             *)

(* A claim file in a living pane's name is the file of its present slot.    *)
NamesHolder ==
  \A f \in Files, p \in Panes : claim[f].by = p =>
    \/ walk[p] = "gone"
    \/ /\ f = FileOf(p) /\ walk[p] \in {"write", "check", "has"}
       /\ walk[p] # "write" => claim[f].full

(* A pane that has its slot has the file, unless it was robbed.             *)
HoldsFile ==
  \A p \in Panes : walk[p] = "has" /\ ~Robbed(p) => claim[FileOf(p)] = [by |-> p, full |-> TRUE]

ThereAlive == \A p \in Panes : Attached(p) => IsAlive(ProcOf[p])

(* What the histories say stays true of the present.                        *)
HadStays ==
  /\ \A x \in Panes \cup Procs : \A v \in began[x].had : walk[v] \in {"has", "gone"}
  /\ \A r \in robbed :
       /\ r.had => walk[r.pane] \in {"has", "gone"} /\ claim[r.file].by # r.pane
       /\ r.by \in Panes => walk[r.by] # "new"
       /\ r.by \in Procs => proc[r.by] # "off"

(* Whoever is about to unlink a file has not judged a claim that was there  *)
(* when it began.                                                           *)
JudgedOthers ==
  /\ \A q \in Panes : walk[q] = "remove" =>
       \A v \in began[q].had : walk[v] = "has" /\ FileOf(v) = FileOf(q) => Robbed(v)
  /\ \A q \in Procs : \A v \in began[q].had :
       walk[v] = "has" /\ FileOf(v) \in doomed[q] => Robbed(v)

ClaimInv == /\ ClaimTypeOK /\ NamesHolder /\ HoldsFile /\ ThereAlive
            /\ HadStays /\ JudgedOthers /\ OnlyOverlapsRob

LEMMA ClaimInitInv == ClaimInit => ClaimInv
<1> SUFFICES ASSUME ClaimInit PROVE ClaimInv
  OBVIOUS
<1>1. ClaimTypeOK
  BY ClaimAssumption DEF ClaimInit, ClaimTypeOK, ProcStates, WalkStates, Walking, Slots, NoClaim, Files
<1>2. NamesHolder /\ HoldsFile /\ ThereAlive
  BY ClaimAssumption DEF ClaimInit, NamesHolder, HoldsFile, ThereAlive, Attached, NoClaim
<1>3. HadStays /\ JudgedOthers /\ OnlyOverlapsRob
  BY DEF ClaimInit, HadStays, JudgedOthers, OnlyOverlapsRob
<1>4. QED
  BY <1>1, <1>2, <1>3 DEF ClaimInv

-----------------------------------------------------------------------------
LEMMA NextSlotTyped ==
  ASSUME ClaimTypeOK, NEW p \in Panes, NextSlot(p)
  PROVE  /\ slot' \in [Panes -> Slots] /\ walk' \in [Panes -> WalkStates]
         /\ walk'[p] \in {"create", "unclaimed"}
         /\ \A q \in Panes \ {p} : walk'[q] = walk[q] /\ slot'[q] = slot[q]
<1>1. 0 \in Slots /\ (slot[p] + 1 < MaxSlots => slot[p] + 1 \in Slots)
  BY ClaimAssumption DEF ClaimTypeOK, Slots
<1>2. /\ (slot' = [slot EXCEPT ![p] = @ + 1] /\ slot[p] + 1 \in Slots) \/ slot' = [slot EXCEPT ![p] = 0]
      /\ walk' = [walk EXCEPT ![p] = "create"] \/ walk' = [walk EXCEPT ![p] = "unclaimed"]
  BY <1>1 DEF NextSlot, Moves
<1>3. slot' \in [Panes -> Slots] /\ \A q \in Panes \ {p} : slot'[q] = slot[q]
  BY <1>1, <1>2 DEF ClaimTypeOK
<1>4. /\ walk' \in [Panes -> WalkStates] /\ walk'[p] \in {"create", "unclaimed"}
      /\ \A q \in Panes \ {p} : walk'[q] = walk[q]
  BY <1>2 DEF ClaimTypeOK, WalkStates, Walking
<1>5. QED
  BY <1>3, <1>4

(* What unlinking file f does, whoever does it.                             *)
LEMMA RemovesFacts ==
  ASSUME ClaimInv, NEW f \in Files, NEW who \in Panes \cup Procs, Removes(f, who)
  PROVE  /\ claim' \in [Files -> [by : Panes \cup {Nobody}, full : BOOLEAN]]
         /\ claim' = [claim EXCEPT ![f] = NoClaim]
         /\ robbed \subseteq robbed'
         /\ \A r \in robbed' \ robbed : /\ r.pane \in Panes /\ r.by = who /\ r.file = f
                                        /\ claim[f].by = r.pane /\ Attached(r.pane)
                                        /\ r.had = (r.pane \in HasSlot)
         /\ \A p \in Panes : claim[f].by = p /\ walk[p] = "has" =>
              [pane |-> p, file |-> f, by |-> who, had |-> TRUE] \in robbed'
         /\ robbed' \subseteq [pane : Panes, file : Files, by : Panes \cup Procs, had : BOOLEAN]
<1>1. claim' = [claim EXCEPT ![f] = NoClaim]
  BY DEF Removes, Puts
<1>2. NoClaim \in [by : Panes \cup {Nobody}, full : BOOLEAN]
  BY DEF NoClaim
<1>3. claim' \in [Files -> [by : Panes \cup {Nobody}, full : BOOLEAN]]
  BY <1>1, <1>2 DEF ClaimInv, ClaimTypeOK
<1> DEFINE New == {[pane |-> p, file |-> f, by |-> who, had |-> p \in HasSlot] :
                     p \in {q \in Panes : claim[f].by = q /\ Attached(q)}}
<1>4. robbed' = robbed \cup New
  BY DEF Removes
<1>5. \A r \in New : /\ r.pane \in Panes /\ r.by = who /\ r.file = f
                     /\ claim[f].by = r.pane /\ Attached(r.pane)
                     /\ r.had = (r.pane \in HasSlot)
                     /\ r \in [pane : Panes, file : Files, by : Panes \cup Procs, had : BOOLEAN]
  <2> SUFFICES ASSUME NEW p \in Panes, claim[f].by = p, Attached(p), NEW r,
                      r = [pane |-> p, file |-> f, by |-> who, had |-> p \in HasSlot]
               PROVE  /\ r.pane \in Panes /\ r.by = who /\ r.file = f
                      /\ claim[f].by = r.pane /\ Attached(r.pane)
                      /\ r.had = (r.pane \in HasSlot)
                      /\ r \in [pane : Panes, file : Files, by : Panes \cup Procs, had : BOOLEAN]
    OBVIOUS
  <2>1. (p \in HasSlot) \in BOOLEAN
    OBVIOUS
  <2>2. QED
    BY <2>1
<1>6. \A p \in Panes : claim[f].by = p /\ walk[p] = "has" =>
        [pane |-> p, file |-> f, by |-> who, had |-> TRUE] \in New
  <2> SUFFICES ASSUME NEW p \in Panes, claim[f].by = p, walk[p] = "has"
               PROVE  [pane |-> p, file |-> f, by |-> who, had |-> TRUE] \in New
    OBVIOUS
  <2>1. (p \in HasSlot) = TRUE /\ Attached(p)
    BY DEF HasSlot, Attached
  <2>2. [pane |-> p, file |-> f, by |-> who, had |-> p \in HasSlot] \in New
    BY <2>1
  <2>3. QED
    BY <2>1, <2>2
<1>7. robbed' \subseteq [pane : Panes, file : Files, by : Panes \cup Procs, had : BOOLEAN]
  BY <1>4, <1>5 DEF ClaimInv, ClaimTypeOK
<1>8. QED
  BY <1>1, <1>3, <1>4, <1>5, <1>6, <1>7

(* Where a pane looks, and whether it was robbed there.                     *)
LEMMA Frame ==
  ASSUME UNCHANGED <<place, slot, robbed>>
  PROVE  \A v : FileOf(v)' = FileOf(v) /\ (Robbed(v)' <=> Robbed(v))
BY DEF FileOf, Robbed

LEMMA HolderNamed ==
  ASSUME HoldsFile, NEW v \in Panes, walk[v] = "has", ~Robbed(v)
  PROVE  Named(FileOf(v)) = v /\ claim[FileOf(v)].by = v
<1>1. claim[FileOf(v)] = [by |-> v, full |-> TRUE]
  BY DEF HoldsFile
<1>2. QED
  BY <1>1 DEF Named

LEMMA SweepReadsKeeps == ASSUME ClaimInv, NEW q \in Procs, SweepReads(q) PROVE ClaimInv'
<1> USE ClaimAssumption
<1>1. ClaimTypeOK'
  BY DEF ClaimInv, ClaimTypeOK, SweepReads, ProcStates, Abandoned, Now, HasSlot
<1>0. \A v : FileOf(v)' = FileOf(v) /\ (Robbed(v)' <=> Robbed(v))
  BY Frame DEF SweepReads
<1>2. NamesHolder' /\ HoldsFile'
  BY <1>0 DEF ClaimInv, NamesHolder, HoldsFile, SweepReads, Files
<1>8. ThereAlive'
  BY DEF ClaimInv, ClaimTypeOK, ThereAlive, SweepReads, IsAlive, Attached
<1>3. HadStays'
  BY DEF ClaimInv, ClaimTypeOK, HadStays, SweepReads, Now, HasSlot
<1>4. \A v \in Panes : walk[v] = "has" /\ FileOf(v) \in Abandoned => Robbed(v)
  <2> SUFFICES ASSUME NEW v \in Panes, walk[v] = "has", ~Robbed(v), FileOf(v) \in Abandoned
               PROVE  FALSE
    OBVIOUS
  <2>1. Named(FileOf(v)) = v
    BY HolderNamed DEF ClaimInv
  <2>2. QED
    BY <2>1 DEF Abandoned, ClaimInv, ThereAlive, Attached
<1>5. JudgedOthers'
  <2>2. \A x \in Panes \cup Procs : x # q => began'[x] = began[x]
    BY DEF SweepReads, ClaimInv, ClaimTypeOK
  <2>3. began'[q].had \subseteq Panes /\ doomed'[q] = Abandoned
    BY DEF SweepReads, ClaimInv, ClaimTypeOK, Now, HasSlot
  <2>4. \A x \in Procs : x # q => doomed'[x] = doomed[x]
    BY DEF SweepReads, ClaimInv, ClaimTypeOK
  <2>5. \A x \in Panes \cup Procs : began[x].had \subseteq Panes
    BY DEF ClaimInv, ClaimTypeOK
  <2>6. walk' = walk
    BY DEF SweepReads
  <2>7. QED
    BY <1>0, <1>4, <2>2, <2>3, <2>4, <2>5, <2>6 DEF ClaimInv, JudgedOthers
<1>6. OnlyOverlapsRob'
  BY DEF ClaimInv, ClaimTypeOK, HadStays, OnlyOverlapsRob, SweepReads, Now, HasSlot
<1>7. QED
  BY <1>1, <1>2, <1>3, <1>5, <1>6, <1>8 DEF ClaimInv

LEMMA SweepEndsKeeps == ASSUME ClaimInv, NEW q \in Procs, SweepEnds(q) PROVE ClaimInv'
<1>1. /\ proc' = [proc EXCEPT ![q] = "up"] /\ proc[q] = "sweeping"
      /\ UNCHANGED <<doomed, place, slot, walk, claim, began, robbed>>
  BY DEF SweepEnds
<1>2. ClaimTypeOK'
  BY <1>1 DEF ClaimInv, ClaimTypeOK, ProcStates
<1>3. ThereAlive' /\ HadStays'
  BY <1>1, ClaimAssumption DEF ClaimInv, ClaimTypeOK, ThereAlive, HadStays, IsAlive, Attached
<1>0. \A v : FileOf(v)' = FileOf(v) /\ (Robbed(v)' <=> Robbed(v))
  BY <1>1, Frame
<1>4. NamesHolder' /\ HoldsFile' /\ JudgedOthers' /\ OnlyOverlapsRob'
  BY <1>0, <1>1 DEF ClaimInv, NamesHolder, HoldsFile, JudgedOthers, OnlyOverlapsRob, Files
<1>5. QED
  BY <1>2, <1>3, <1>4 DEF ClaimInv

LEMMA DiesKeeps == ASSUME ClaimInv, NEW q \in Procs, Dies(q) PROVE ClaimInv'
<1> USE ClaimAssumption
<1>1. ClaimTypeOK'
  BY DEF ClaimInv, ClaimTypeOK, Dies, ProcStates, WalkStates, Walking
<1>0. \A v : FileOf(v)' = FileOf(v) /\ (Robbed(v)' <=> Robbed(v))
  BY Frame DEF Dies
<1>5. /\ \A v \in Panes : walk'[v] = "gone" \/ (walk'[v] = walk[v] /\ ProcOf[v] # q)
      /\ claim' = claim /\ began' = began
      /\ \A x \in Procs : doomed'[x] \subseteq doomed[x] /\ (x # q => proc'[x] = proc[x])
  BY DEF ClaimInv, ClaimTypeOK, Dies
<1>2. NamesHolder' /\ HoldsFile'
  BY <1>0, <1>5 DEF ClaimInv, NamesHolder, HoldsFile, Files
<1>6. ThereAlive'
  BY <1>5 DEF ClaimInv, ClaimTypeOK, ThereAlive, IsAlive, Attached
<1>3. HadStays' /\ OnlyOverlapsRob'
  BY DEF ClaimInv, ClaimTypeOK, HadStays, OnlyOverlapsRob, Dies
<1>4. JudgedOthers'
  BY <1>0, <1>5 DEF ClaimInv, ClaimTypeOK, JudgedOthers
<1>7. QED
  BY <1>1, <1>2, <1>3, <1>4, <1>6 DEF ClaimInv

LEMMA BeginWalkKeeps ==
  ASSUME ClaimInv, NEW p \in Panes, NEW i \in Places, BeginWalk(p, i) PROVE ClaimInv'
<1> USE ClaimAssumption
<1>0. /\ walk[p] = "new" /\ walk' = [walk EXCEPT ![p] = "create"] /\ proc[ProcOf[p]] = "up"
      /\ place' = [place EXCEPT ![p] = i] /\ slot' = [slot EXCEPT ![p] = 0]
      /\ began' = [began EXCEPT ![p] = Now] /\ UNCHANGED <<proc, doomed, claim, robbed>>
  BY DEF BeginWalk, Moves
<1>1. ClaimTypeOK'
  BY <1>0 DEF ClaimInv, ClaimTypeOK, WalkStates, Walking, Slots, Now, HasSlot
<1>2. \A v \in Panes : v # p => FileOf(v)' = FileOf(v) /\ walk'[v] = walk[v]
                                /\ Robbed(v)' = Robbed(v)
  BY <1>0 DEF ClaimInv, ClaimTypeOK, FileOf, Robbed
<1>3. walk'[p] = "create"
  BY <1>0 DEF ClaimInv, ClaimTypeOK
<1>4. NamesHolder' /\ HoldsFile' /\ ThereAlive'
  BY <1>0, <1>2, <1>3 DEF ClaimInv, ClaimTypeOK, NamesHolder, HoldsFile, ThereAlive, IsAlive, Attached
<1>5. HadStays' /\ OnlyOverlapsRob'
  BY <1>0, <1>2, <1>3 DEF ClaimInv, ClaimTypeOK, HadStays, OnlyOverlapsRob, Now, HasSlot
<1>6. JudgedOthers'
  BY <1>0, <1>2, <1>3 DEF ClaimInv, ClaimTypeOK, JudgedOthers
<1>7. QED
  BY <1>1, <1>4, <1>5, <1>6 DEF ClaimInv

(* Moves of one pane's walk: what is left to show of each is its own claim. *)
OthersStay(p) ==
  /\ walk' \in [Panes -> WalkStates] /\ slot' \in [Panes -> Slots]
  /\ \A q \in Panes \ {p} : walk'[q] = walk[q] /\ slot'[q] = slot[q]
  /\ UNCHANGED <<proc, doomed, place, began>>

LEMMA OthersFrame ==
  ASSUME NEW p \in Panes, OthersStay(p), robbed \subseteq robbed'
  PROVE  \A v \in Panes : v # p => /\ FileOf(v)' = FileOf(v) /\ walk'[v] = walk[v]
                                   /\ (Robbed(v) => Robbed(v)')
BY DEF OthersStay, FileOf, Robbed

LEMMA QuietMove ==
  ASSUME ClaimInv, NEW p \in Panes, OthersStay(p), UNCHANGED <<claim, robbed>>,
         walk[p] \in Walking,
         walk'[p] \notin {"new", "write", "check", "gone"},
         walk'[p] = "has" => slot'[p] = slot[p] /\ OwnedBy(FileOf(p), p),
         walk'[p] # "has" => \A f \in Files : claim[f].by # p,
         walk'[p] = "remove" => FileOf(p)' = FileOf(p) /\ IsStale(FileOf(p), p)
  PROVE  ClaimInv'
<1> USE ClaimAssumption
<1>0. \A v \in Panes : v # p => /\ FileOf(v)' = FileOf(v) /\ walk'[v] = walk[v]
                                /\ (Robbed(v) => Robbed(v)')
  BY OthersFrame
<1>1. ClaimTypeOK'
  BY DEF ClaimInv, ClaimTypeOK, OthersStay
<1>2. walk'[p] = "has" => /\ FileOf(p)' = FileOf(p)
                          /\ claim[FileOf(p)] = [by |-> p, full |-> TRUE]
  <2> SUFFICES ASSUME walk'[p] = "has"
               PROVE  /\ FileOf(p)' = FileOf(p) /\ claim[FileOf(p)] = [by |-> p, full |-> TRUE]
    OBVIOUS
  <2>1. FileOf(p) \in Files /\ FileOf(p)' = FileOf(p)
    BY DEF FileOf, Files, ClaimInv, ClaimTypeOK, OthersStay
  <2>2. claim[FileOf(p)] \in [by : Panes \cup {Nobody}, full : BOOLEAN]
    BY <2>1 DEF ClaimInv, ClaimTypeOK
  <2>3. claim[FileOf(p)].full = TRUE /\ claim[FileOf(p)].by = p
    BY <2>2 DEF OwnedBy, Named
  <2>4. QED
    BY <2>1, <2>2, <2>3
<1>3. NamesHolder'
  <2> SUFFICES ASSUME NEW f \in Files, NEW v \in Panes, claim[f].by = v
               PROVE  \/ walk'[v] = "gone"
                      \/ /\ f = FileOf(v)' /\ walk'[v] \in {"write", "check", "has"}
                         /\ walk'[v] # "write" => claim[f].full
    BY DEF NamesHolder, Files
  <2>1. CASE v # p
    BY <1>0, <2>1 DEF ClaimInv, NamesHolder
  <2>2. CASE v = p
    <3>1. walk'[p] = "has"
      BY <2>2
    <3>2. f = FileOf(p)
      BY <2>2 DEF ClaimInv, NamesHolder, Walking
    <3>3. QED
      BY <1>2, <2>2, <3>1, <3>2
  <2>3. QED
    BY <2>1, <2>2
<1>4. HoldsFile'
  BY <1>0, <1>2 DEF ClaimInv, HoldsFile
<1>5. ThereAlive'
  BY <1>0 DEF ClaimInv, ThereAlive, Attached, IsAlive, OthersStay, Walking
<1>6. HadStays' /\ OnlyOverlapsRob'
  <2>1. proc' = proc /\ began' = began /\ robbed' = robbed /\ claim' = claim
    BY DEF OthersStay
  <2>2. \A x \in Panes \cup Procs : \A v \in began[x].had : v \in Panes /\ v # p /\ walk[v] \in {"has", "gone"}
    BY DEF ClaimInv, ClaimTypeOK, HadStays, Walking
  <2>3. \A r \in robbed : r.pane \in Panes /\ (r.had => r.pane # p)
    BY DEF ClaimInv, ClaimTypeOK, HadStays, Walking
  <2>4. \A r \in robbed : r.by \in Panes => walk'[r.by] # "new"
    BY <1>0 DEF ClaimInv, HadStays
  <2>5. QED
    BY <1>0, <2>1, <2>2, <2>3, <2>4 DEF ClaimInv, HadStays, OnlyOverlapsRob
<1>7. JudgedOthers'
  <2>1. \A v \in Panes : walk[v] = "has" /\ FileOf(v) = FileOf(p) /\ IsStale(FileOf(p), p) => Robbed(v)
    <3> SUFFICES ASSUME NEW v \in Panes, walk[v] = "has", FileOf(v) = FileOf(p), ~Robbed(v),
                        IsStale(FileOf(p), p)
                 PROVE  FALSE
      OBVIOUS
    <3>1. Named(FileOf(p)) = v
      BY HolderNamed DEF ClaimInv
    <3>2. QED
      BY <3>1 DEF IsStale, ClaimInv, ThereAlive, Attached
  <2>2. \A x \in Panes \cup Procs : /\ began'[x] = began[x] /\ p \notin began[x].had
                                    /\ began[x].had \subseteq Panes
    BY DEF ClaimInv, ClaimTypeOK, HadStays, OthersStay, Walking
  <2>3. doomed' = doomed
    BY DEF OthersStay
  <2>4. \A q \in Procs : \A v \in began'[q].had : walk'[v] = "has" /\ FileOf(v)' \in doomed'[q] => Robbed(v)'
    BY <1>0, <2>2, <2>3 DEF ClaimInv, JudgedOthers
  <2>5. \A q \in Panes : walk'[q] = "remove" =>
          \A v \in began'[q].had : walk'[v] = "has" /\ FileOf(v)' = FileOf(q)' => Robbed(v)'
    BY <1>0, <2>1, <2>2 DEF ClaimInv, JudgedOthers
  <2>6. QED
    BY <2>4, <2>5 DEF JudgedOthers
<1>8. QED
  BY <1>1, <1>3, <1>4, <1>5, <1>6, <1>7 DEF ClaimInv

LEMMA CheckKeeps == ASSUME ClaimInv, NEW p \in Panes, Check(p) PROVE ClaimInv'
<1> DEFINE own == OwnedBy(FileOf(p), p)
<1>1. walk[p] = "check" /\ UNCHANGED <<proc, doomed, place, claim, began, robbed>>
  BY DEF Check
<1>2. CASE own
  <2>1. walk' = [walk EXCEPT ![p] = "has"] /\ slot' = slot
    BY <1>2 DEF Check, Moves
  <2>2. OthersStay(p) /\ walk'[p] = "has" /\ slot'[p] = slot[p]
    BY <1>1, <2>1 DEF OthersStay, ClaimInv, ClaimTypeOK, WalkStates
  <2>3. QED
    BY <1>1, <1>2, <2>2, QuietMove DEF Walking
<1>3. CASE ~own
  <2>1. NextSlot(p)
    BY <1>3 DEF Check
  <2>2. OthersStay(p) /\ walk'[p] \in {"create", "unclaimed"}
    BY <1>1, <2>1, NextSlotTyped DEF OthersStay, ClaimInv
  <2>3. \A f \in Files : claim[f].by # p
    BY <1>1, <1>3 DEF ClaimInv, NamesHolder, OwnedBy, Named
  <2>4. QED
    BY <1>1, <2>2, <2>3, QuietMove DEF Walking
<1>4. QED
  BY <1>2, <1>3

LEMMA ReadKeeps == ASSUME ClaimInv, NEW p \in Panes, Read(p) PROVE ClaimInv'
<1>1. walk[p] = "read" /\ UNCHANGED <<proc, doomed, place, claim, began, robbed>>
  BY DEF Read
<1>2. \A f \in Files : claim[f].by # p
  BY <1>1 DEF ClaimInv, NamesHolder
<1>3. ~OwnedBy(FileOf(p), p)
  <2>1. FileOf(p) \in Files
    BY DEF FileOf, Files, ClaimInv, ClaimTypeOK
  <2>2. QED
    BY <1>2, <2>1, ClaimAssumption DEF OwnedBy, Named
<1>4. CASE IsStale(FileOf(p), p)
  <2>1. walk' = [walk EXCEPT ![p] = "remove"] /\ slot' = slot
    BY <1>3, <1>4 DEF Read, Moves
  <2>2. OthersStay(p) /\ walk'[p] = "remove" /\ FileOf(p)' = FileOf(p)
    BY <1>1, <2>1 DEF OthersStay, ClaimInv, ClaimTypeOK, WalkStates, Walking, FileOf
  <2>3. QED
    BY <1>1, <1>2, <1>4, <2>2, QuietMove DEF Walking
<1>5. CASE ~IsStale(FileOf(p), p)
  <2>1. NextSlot(p)
    BY <1>3, <1>5 DEF Read
  <2>2. OthersStay(p) /\ walk'[p] \in {"create", "unclaimed"}
    BY <1>1, <2>1, NextSlotTyped DEF OthersStay, ClaimInv
  <2>3. QED
    BY <1>1, <1>2, <2>2, QuietMove DEF Walking
<1>6. QED
  BY <1>4, <1>5

(* A create that succeeds: the file was not there.                          *)
LEMMA CreatesKeeps ==
  ASSUME ClaimInv, NEW p \in Panes, walk[p] \in {"create", "recreate"},
         claim[FileOf(p)] = NoClaim, Puts(FileOf(p), [by |-> p, full |-> FALSE]),
         Moves(p, "write"), UNCHANGED <<proc, doomed, place, slot, began, robbed>>
  PROVE  ClaimInv'
<1> USE ClaimAssumption
<1> DEFINE F == FileOf(p)
<1>1. /\ claim' = [claim EXCEPT ![F] = [by |-> p, full |-> FALSE]]
      /\ walk' = [walk EXCEPT ![p] = "write"] /\ F \in Files
  BY DEF Puts, Moves, FileOf, Files, ClaimInv, ClaimTypeOK
<1>2. ClaimTypeOK'
  BY <1>1 DEF ClaimInv, ClaimTypeOK, WalkStates, Walking
<1>3. /\ walk'[p] = "write" /\ \A v \in Panes : v # p => walk'[v] = walk[v]
      /\ claim'[F].by = p /\ \A f \in Files : f # F => claim'[f] = claim[f]
  BY <1>1 DEF ClaimInv, ClaimTypeOK
<1>4. \A v : FileOf(v)' = FileOf(v) /\ (Robbed(v)' <=> Robbed(v))
  BY Frame
<1>5. NamesHolder'
  <2>1. \A f \in Files : claim[f].by # p
    BY DEF ClaimInv, NamesHolder
  <2> SUFFICES ASSUME NEW f \in Files, NEW v \in Panes, claim'[f].by = v
               PROVE  \/ walk'[v] = "gone"
                      \/ /\ f = FileOf(v) /\ walk'[v] \in {"write", "check", "has"}
                         /\ walk'[v] # "write" => claim'[f].full
    BY <1>4 DEF NamesHolder, Files
  <2>2. CASE f = F
    BY <1>3, <2>2
  <2>3. CASE f # F
    BY <1>3, <2>1, <2>3 DEF ClaimInv, NamesHolder
  <2>4. QED
    BY <2>2, <2>3
<1>6. HoldsFile'
  <2> SUFFICES ASSUME NEW v \in Panes, walk'[v] = "has", ~Robbed(v)
               PROVE  claim'[FileOf(v)] = [by |-> v, full |-> TRUE]
    BY <1>4 DEF HoldsFile
  <2>1. v # p /\ walk[v] = "has"
    BY <1>3
  <2>2. claim[FileOf(v)] = [by |-> v, full |-> TRUE]
    BY <2>1 DEF ClaimInv, HoldsFile
  <2>3. FileOf(v) # F /\ FileOf(v) \in Files
    <3>1. FileOf(v) \in Files
      BY DEF FileOf, Files, ClaimInv, ClaimTypeOK
    <3>2. claim[FileOf(v)].full = TRUE /\ claim[F].full = FALSE
      BY <2>2 DEF NoClaim
    <3>3. QED
      BY <3>1, <3>2
  <2>4. QED
    BY <1>3, <2>2, <2>3
<1>7. ThereAlive'
  BY <1>3 DEF ClaimInv, ThereAlive, Attached, IsAlive
<1>8. HadStays' /\ OnlyOverlapsRob'
  <2>1. \A x \in Panes \cup Procs : \A v \in began[x].had : v \in Panes /\ v # p /\ walk[v] \in {"has", "gone"}
    BY DEF ClaimInv, ClaimTypeOK, HadStays
  <2>2. \A r \in robbed : r.pane \in Panes /\ r.file \in Files /\ (r.had => r.pane # p)
    BY DEF ClaimInv, ClaimTypeOK, HadStays
  <2>3. QED
    BY <1>3, <2>1, <2>2 DEF ClaimInv, HadStays, OnlyOverlapsRob
<1>9. JudgedOthers'
  <2>1. \A x \in Panes \cup Procs : began[x].had \subseteq Panes
    BY DEF ClaimInv, ClaimTypeOK
  <2>2. QED
    BY <1>3, <1>4, <2>1 DEF ClaimInv, JudgedOthers
<1>10. QED
  BY <1>2, <1>5, <1>6, <1>7, <1>8, <1>9 DEF ClaimInv

LEMMA CreateKeeps == ASSUME ClaimInv, NEW p \in Panes, Create(p) PROVE ClaimInv'
<1>1. walk[p] = "create" /\ UNCHANGED <<proc, doomed, place, slot, began, robbed>>
  BY DEF Create
<1>2. CASE claim[FileOf(p)] = NoClaim
  BY <1>1, <1>2, CreatesKeeps DEF Create
<1>3. CASE claim[FileOf(p)] # NoClaim
  <2>1. walk' = [walk EXCEPT ![p] = "read"] /\ claim' = claim
    BY <1>3 DEF Create, Moves
  <2>2. OthersStay(p) /\ walk'[p] = "read"
    BY <1>1, <2>1 DEF OthersStay, ClaimInv, ClaimTypeOK, WalkStates, Walking
  <2>3. \A f \in Files : claim[f].by # p
    BY <1>1 DEF ClaimInv, NamesHolder
  <2>4. QED
    BY <1>1, <2>1, <2>2, <2>3, QuietMove DEF Walking
<1>4. QED
  BY <1>2, <1>3

LEMMA RecreateKeeps == ASSUME ClaimInv, NEW p \in Panes, Recreate(p) PROVE ClaimInv'
<1>1. walk[p] = "recreate" /\ UNCHANGED <<proc, doomed, place, began, robbed>>
  BY DEF Recreate
<1>2. CASE claim[FileOf(p)] = NoClaim
  BY <1>1, <1>2, CreatesKeeps DEF Recreate
<1>3. CASE claim[FileOf(p)] # NoClaim
  <2>1. NextSlot(p) /\ claim' = claim
    BY <1>3 DEF Recreate
  <2>2. OthersStay(p) /\ walk'[p] \in {"create", "unclaimed"}
    BY <1>1, <2>1, NextSlotTyped DEF OthersStay, ClaimInv
  <2>3. \A f \in Files : claim[f].by # p
    BY <1>1 DEF ClaimInv, NamesHolder
  <2>4. QED
    BY <1>1, <2>1, <2>2, <2>3, QuietMove DEF Walking
<1>4. QED
  BY <1>2, <1>3

-----------------------------------------------------------------------------
(* The text that goes into a pane's own file.                               *)
LEMMA WriteKeeps == ASSUME ClaimInv, NEW p \in Panes, Write(p) PROVE ClaimInv'
<1> USE ClaimAssumption
<1> DEFINE F == FileOf(p)
<1>1. /\ walk[p] = "write" /\ walk' = [walk EXCEPT ![p] = "check"]
      /\ UNCHANGED <<proc, doomed, place, slot, began, robbed>>
  BY DEF Write, Moves
<1>2. F \in Files /\ walk'[p] = "check" /\ \A v \in Panes : v # p => walk'[v] = walk[v]
  BY <1>1 DEF FileOf, Files, ClaimInv, ClaimTypeOK
<1>3. /\ claim' \in [Files -> [by : Panes \cup {Nobody}, full : BOOLEAN]]
      /\ \A f \in Files : claim'[f].by = claim[f].by
      /\ \A f \in Files : claim'[f].by # p => claim'[f] = claim[f]
      /\ claim'[F].by = p => claim'[F].full
  <2>1. CASE claim[F].by = p
    <3>1. claim' = [claim EXCEPT ![F] = [by |-> p, full |-> TRUE]]
      BY <2>1 DEF Write, Puts
    <3>2. QED
      BY <1>2, <2>1, <3>1 DEF ClaimInv, ClaimTypeOK
  <2>2. CASE claim[F].by # p
    BY <2>2 DEF Write, ClaimInv, ClaimTypeOK
  <2>3. QED
    BY <2>1, <2>2
<1>4. \A v : FileOf(v)' = FileOf(v) /\ (Robbed(v)' <=> Robbed(v))
  BY <1>1, Frame
<1>5. ClaimTypeOK'
  BY <1>1, <1>3 DEF ClaimInv, ClaimTypeOK, WalkStates, Walking
<1>6. NamesHolder'
  <2> SUFFICES ASSUME NEW f \in Files, NEW v \in Panes, claim'[f].by = v
               PROVE  \/ walk'[v] = "gone"
                      \/ /\ f = FileOf(v) /\ walk'[v] \in {"write", "check", "has"}
                         /\ walk'[v] # "write" => claim'[f].full
    BY <1>4 DEF NamesHolder, Files
  <2>1. claim[f].by = v
    BY <1>3
  <2>2. CASE v # p
    BY <1>2, <1>3, <2>1, <2>2 DEF ClaimInv, NamesHolder
  <2>3. CASE v = p
    BY <1>1, <1>2, <1>3, <2>1, <2>3 DEF ClaimInv, NamesHolder
  <2>4. QED
    BY <2>2, <2>3
<1>7. HoldsFile'
  <2> SUFFICES ASSUME NEW v \in Panes, walk'[v] = "has", ~Robbed(v)
               PROVE  claim'[FileOf(v)] = [by |-> v, full |-> TRUE]
    BY <1>4 DEF HoldsFile
  <2>1. v # p /\ walk[v] = "has" /\ FileOf(v) \in Files
    BY <1>2 DEF FileOf, Files, ClaimInv, ClaimTypeOK
  <2>2. claim[FileOf(v)] = [by |-> v, full |-> TRUE]
    BY <2>1 DEF ClaimInv, HoldsFile
  <2>3. QED
    BY <1>3, <2>1, <2>2
<1>8. ThereAlive'
  BY <1>1, <1>2 DEF ClaimInv, ThereAlive, Attached, IsAlive
<1>9. HadStays' /\ OnlyOverlapsRob'
  <2>1. \A x \in Panes \cup Procs : \A v \in began[x].had : v \in Panes /\ v # p /\ walk[v] \in {"has", "gone"}
    BY <1>1 DEF ClaimInv, ClaimTypeOK, HadStays
  <2>2. \A r \in robbed : r.pane \in Panes /\ r.file \in Files /\ (r.had => r.pane # p)
    BY <1>1 DEF ClaimInv, ClaimTypeOK, HadStays
  <2>3. QED
    BY <1>1, <1>2, <1>3, <2>1, <2>2 DEF ClaimInv, HadStays, OnlyOverlapsRob
<1>10. JudgedOthers'
  <2>1. \A x \in Panes \cup Procs : began[x].had \subseteq Panes
    BY DEF ClaimInv, ClaimTypeOK
  <2>2. QED
    BY <1>1, <1>2, <1>4, <2>1 DEF ClaimInv, JudgedOthers
<1>11. QED
  BY <1>5, <1>6, <1>7, <1>8, <1>9, <1>10 DEF ClaimInv

-----------------------------------------------------------------------------
(* An unlink by whoever judged the file while none that had its slot then   *)
(* was in it.                                                               *)
LEMMA UnlinkKeeps ==
  ASSUME ClaimInv, NEW f \in Files, NEW who \in Panes \cup Procs, Removes(f, who),
         UNCHANGED <<proc, place, slot, began>>,
         doomed' \in [Procs -> SUBSET Files], \A x \in Procs : doomed'[x] \subseteq doomed[x],
         walk' \in [Panes -> WalkStates],
         \A v \in Panes : walk'[v] = walk[v] \/ (walk[v] = "remove" /\ walk'[v] = "recreate"),
         who \in Panes => walk[who] # "new", who \in Procs => proc[who] # "off",
         \A v \in began[who].had : walk[v] = "has" /\ FileOf(v) = f => Robbed(v)
  PROVE  ClaimInv'
<1> USE ClaimAssumption
<1> DEFINE Rs == [pane : Panes, file : Files, by : Panes \cup Procs, had : BOOLEAN]
<1>1. /\ claim' \in [Files -> [by : Panes \cup {Nobody}, full : BOOLEAN]]
      /\ claim' = [claim EXCEPT ![f] = NoClaim]
      /\ robbed \subseteq robbed' /\ robbed' \subseteq Rs
      /\ \A r \in robbed' \ robbed : /\ r.pane \in Panes /\ r.by = who /\ r.file = f
                                     /\ claim[f].by = r.pane /\ Attached(r.pane)
                                     /\ r.had = (r.pane \in HasSlot)
      /\ \A p \in Panes : claim[f].by = p /\ walk[p] = "has" =>
           [pane |-> p, file |-> f, by |-> who, had |-> TRUE] \in robbed'
  BY RemovesFacts
<1>2. \A g \in Files : g # f => claim'[g] = claim[g]
  BY <1>1 DEF ClaimInv, ClaimTypeOK
<1>3. claim'[f].by = Nobody
  BY <1>1 DEF ClaimInv, ClaimTypeOK, NoClaim
<1>4. \A v : FileOf(v)' = FileOf(v) /\ (Robbed(v) => Robbed(v)')
  BY <1>1 DEF FileOf, Robbed
<1>5. ClaimTypeOK'
  BY <1>1 DEF ClaimInv, ClaimTypeOK
<1>6. NamesHolder'
  <2> SUFFICES ASSUME NEW g \in Files, NEW v \in Panes, claim'[g].by = v
               PROVE  \/ walk'[v] = "gone"
                      \/ /\ g = FileOf(v) /\ walk'[v] \in {"write", "check", "has"}
                         /\ walk'[v] # "write" => claim'[g].full
    BY <1>4 DEF NamesHolder, Files
  <2>1. g # f
    BY <1>3
  <2>2. QED
    BY <1>2, <2>1 DEF ClaimInv, NamesHolder
<1>7. HoldsFile'
  <2> SUFFICES ASSUME NEW v \in Panes, walk'[v] = "has", ~Robbed(v)'
               PROVE  claim'[FileOf(v)] = [by |-> v, full |-> TRUE]
    BY <1>4 DEF HoldsFile
  <2>1. walk[v] = "has" /\ ~Robbed(v) /\ FileOf(v) \in Files
    BY <1>4 DEF FileOf, Files, ClaimInv, ClaimTypeOK
  <2>2. claim[FileOf(v)] = [by |-> v, full |-> TRUE]
    BY <2>1 DEF ClaimInv, HoldsFile
  <2>3. FileOf(v) # f
    <3> SUFFICES ASSUME FileOf(v) = f PROVE FALSE
      OBVIOUS
    <3>1. [pane |-> v, file |-> f, by |-> who, had |-> TRUE] \in robbed'
      BY <1>1, <2>1, <2>2
    <3>2. Robbed(v)'
      BY <1>4, <3>1 DEF Robbed
    <3>3. QED
      BY <3>2
  <2>4. QED
    BY <1>2, <2>1, <2>2, <2>3
<1>8. ThereAlive'
  BY DEF ClaimInv, ThereAlive, Attached, IsAlive
<1>9. HadStays'
  <2>1. \A x \in Panes \cup Procs : \A v \in began[x].had : walk'[v] \in {"has", "gone"}
    BY DEF ClaimInv, ClaimTypeOK, HadStays
  <2>2. \A r \in robbed : /\ r.pane \in Panes /\ r.file \in Files
                          /\ r.had => walk'[r.pane] \in {"has", "gone"} /\ claim'[r.file].by # r.pane
                          /\ r.by \in Panes => walk'[r.by] # "new"
                          /\ r.by \in Procs => proc[r.by] # "off"
    <3> SUFFICES ASSUME NEW r \in robbed
                 PROVE  /\ r.pane \in Panes /\ r.file \in Files
                        /\ r.had => walk'[r.pane] \in {"has", "gone"} /\ claim'[r.file].by # r.pane
                        /\ r.by \in Panes => walk'[r.by] # "new"
                        /\ r.by \in Procs => proc[r.by] # "off"
      OBVIOUS
    <3>1. r.pane \in Panes /\ r.file \in Files
      BY DEF ClaimInv, ClaimTypeOK
    <3>2. /\ r.had => walk[r.pane] \in {"has", "gone"} /\ claim[r.file].by # r.pane
          /\ r.by \in Panes => walk[r.by] # "new"
          /\ r.by \in Procs => proc[r.by] # "off"
      BY DEF ClaimInv, HadStays
    <3>3. r.had => walk'[r.pane] \in {"has", "gone"}
      BY <3>1, <3>2
    <3>4. r.had => claim'[r.file].by # r.pane
      BY <1>2, <1>3, <3>1, <3>2
    <3>5. r.by \in Panes => walk'[r.by] # "new"
      BY <3>2
    <3>6. QED
      BY <3>1, <3>2, <3>3, <3>4, <3>5
  <2>3. \A r \in robbed' \ robbed :
                          /\ r.had => walk'[r.pane] \in {"has", "gone"} /\ claim'[r.file].by # r.pane
                          /\ r.by \in Panes => walk'[r.by] # "new"
                          /\ r.by \in Procs => proc[r.by] # "off"
    BY <1>1, <1>3 DEF HasSlot
  <2>4. QED
    BY <2>1, <2>2, <2>3 DEF HadStays
<1>10. OnlyOverlapsRob'
  <2>1. \A r \in robbed' \ robbed : r.pane \notin began[who].had
    <3> SUFFICES ASSUME NEW r \in robbed' \ robbed, r.pane \in began[who].had PROVE FALSE
      OBVIOUS
    <3> DEFINE v == r.pane
    <3>1. v \in Panes /\ claim[f].by = v /\ walk[v] = "has"
      BY <1>1 DEF ClaimInv, HadStays, Attached
    <3>2. f = FileOf(v) /\ Robbed(v)
      BY <3>1 DEF ClaimInv, NamesHolder
    <3>3. PICK r2 \in robbed : r2.pane = v /\ r2.file = f /\ r2.had
      BY <3>2 DEF Robbed
    <3>4. QED
      BY <3>1, <3>3 DEF ClaimInv, HadStays
  <2>2. QED
    BY <1>1, <2>1 DEF ClaimInv, OnlyOverlapsRob
<1>11. JudgedOthers'
  <2>1. \A x \in Panes \cup Procs : began[x].had \subseteq Panes
    BY DEF ClaimInv, ClaimTypeOK
  <2>2. \A v \in Panes : /\ walk'[v] = "has" => walk[v] = "has"
                         /\ walk'[v] = "remove" => walk[v] = "remove"
    OBVIOUS
  <2>3. \A q \in Panes : walk'[q] = "remove" =>
          \A v \in began[q].had : walk'[v] = "has" /\ FileOf(v)' = FileOf(q)' => Robbed(v)'
    BY <1>4, <2>1, <2>2 DEF ClaimInv, JudgedOthers
  <2>4. \A q \in Procs : \A v \in began[q].had :
          walk'[v] = "has" /\ FileOf(v)' \in doomed'[q] => Robbed(v)'
    BY <1>4, <2>1, <2>2 DEF ClaimInv, JudgedOthers
  <2>5. QED
    BY <2>3, <2>4 DEF JudgedOthers
<1>12. QED
  BY <1>5, <1>6, <1>7, <1>8, <1>9, <1>10, <1>11 DEF ClaimInv

LEMMA RemoveKeeps == ASSUME ClaimInv, NEW p \in Panes, RemoveStale(p) PROVE ClaimInv'
<1>1. /\ walk[p] = "remove" /\ Removes(FileOf(p), p) /\ walk' = [walk EXCEPT ![p] = "recreate"]
      /\ UNCHANGED <<proc, doomed, place, slot, began>>
  BY DEF RemoveStale, Moves
<1>2. FileOf(p) \in Files /\ doomed \in [Procs -> SUBSET Files]
  BY DEF FileOf, Files, ClaimInv, ClaimTypeOK
<1>3. /\ walk' \in [Panes -> WalkStates]
      /\ \A v \in Panes : walk'[v] = walk[v] \/ (walk[v] = "remove" /\ walk'[v] = "recreate")
  BY <1>1 DEF ClaimInv, ClaimTypeOK, WalkStates, Walking
<1>4. \A v \in began[p].had : walk[v] = "has" /\ FileOf(v) = FileOf(p) => Robbed(v)
  BY <1>1 DEF ClaimInv, JudgedOthers
<1>5. p \notin Procs
  BY ClaimAssumption
<1>6. QED
  BY <1>1, <1>2, <1>3, <1>4, <1>5, UnlinkKeeps

LEMMA SweepUnlinksKeeps == ASSUME ClaimInv, NEW q \in Procs, SweepUnlinks(q) PROVE ClaimInv'
<1>1. PICK f \in doomed[q] : Removes(f, q) /\ doomed' = [doomed EXCEPT ![q] = @ \ {f}]
  BY DEF SweepUnlinks
<1>2. proc[q] = "sweeping" /\ UNCHANGED <<proc, place, slot, walk, began>>
  BY DEF SweepUnlinks
<1>3. /\ f \in Files /\ doomed' \in [Procs -> SUBSET Files]
      /\ \A x \in Procs : doomed'[x] \subseteq doomed[x]
  BY <1>1 DEF ClaimInv, ClaimTypeOK
<1>4. \A v \in began[q].had : walk[v] = "has" /\ FileOf(v) = f => Robbed(v)
  BY DEF ClaimInv, JudgedOthers
<1>5. q \notin Panes /\ walk' \in [Panes -> WalkStates]
  BY <1>2, ClaimAssumption DEF ClaimInv, ClaimTypeOK
<1>6. QED
  BY <1>1, <1>2, <1>3, <1>4, <1>5, UnlinkKeeps

LEMMA ReleaseKeeps ==
  ASSUME ClaimInv, NEW p \in Panes, NEW fails \in BOOLEAN, Release(p, fails) PROVE ClaimInv'
<1> USE ClaimAssumption
<1> DEFINE F == FileOf(p)
<1>1. /\ walk[p] \in {"has", "unclaimed"} /\ walk' = [walk EXCEPT ![p] = "gone"]
      /\ UNCHANGED <<proc, doomed, place, slot, began, robbed>>
  BY DEF Release, Moves
<1>2. /\ F \in Files /\ walk'[p] = "gone"
      /\ \A v \in Panes : v # p => walk'[v] = walk[v]
  BY <1>1 DEF FileOf, Files, ClaimInv, ClaimTypeOK
<1>3. claim' = claim \/ (claim[F].by = p /\ claim' = [claim EXCEPT ![F] = NoClaim])
  BY DEF Release, Puts, OwnedBy, Named
<1>4. /\ claim' \in [Files -> [by : Panes \cup {Nobody}, full : BOOLEAN]]
      /\ \A f \in Files : \/ claim'[f] = claim[f]
                          \/ claim[f].by = p /\ claim'[f].by = Nobody
  <2>1. CASE claim' = claim
    BY <2>1 DEF ClaimInv, ClaimTypeOK
  <2>2. CASE claim[F].by = p /\ claim' = [claim EXCEPT ![F] = NoClaim]
    BY <1>2, <2>2 DEF ClaimInv, ClaimTypeOK, NoClaim
  <2>3. QED
    BY <1>3, <2>1, <2>2
<1>5. \A v : FileOf(v)' = FileOf(v) /\ (Robbed(v)' <=> Robbed(v))
  BY <1>1, Frame
<1>6. ClaimTypeOK'
  BY <1>1, <1>4 DEF ClaimInv, ClaimTypeOK, WalkStates, Walking
<1>7. NamesHolder'
  <2> SUFFICES ASSUME NEW f \in Files, NEW v \in Panes, claim'[f].by = v, v # p
               PROVE  \/ walk'[v] = "gone"
                      \/ /\ f = FileOf(v) /\ walk'[v] \in {"write", "check", "has"}
                         /\ walk'[v] # "write" => claim'[f].full
    BY <1>2, <1>5 DEF NamesHolder, Files
  <2>1. claim'[f] = claim[f]
    BY <1>4
  <2>2. QED
    BY <1>2, <2>1 DEF ClaimInv, NamesHolder
<1>8. HoldsFile'
  <2> SUFFICES ASSUME NEW v \in Panes, walk'[v] = "has", ~Robbed(v)
               PROVE  claim'[FileOf(v)] = [by |-> v, full |-> TRUE]
    BY <1>5 DEF HoldsFile
  <2>1. v # p /\ walk[v] = "has" /\ FileOf(v) \in Files
    BY <1>2 DEF FileOf, Files, ClaimInv, ClaimTypeOK
  <2>2. claim[FileOf(v)] = [by |-> v, full |-> TRUE]
    BY <2>1 DEF ClaimInv, HoldsFile
  <2>3. QED
    BY <1>4, <2>1, <2>2
<1>9. ThereAlive'
  BY <1>1, <1>2 DEF ClaimInv, ThereAlive, Attached, IsAlive
<1>10. HadStays' /\ OnlyOverlapsRob'
  <2>1. \A x \in Panes \cup Procs : \A v \in began[x].had : walk'[v] \in {"has", "gone"}
    BY <1>2 DEF ClaimInv, ClaimTypeOK, HadStays
  <2>2. \A r \in robbed : /\ r.pane \in Panes /\ r.file \in Files
                          /\ r.had => walk'[r.pane] \in {"has", "gone"} /\ claim'[r.file].by # r.pane
                          /\ r.by \in Panes => walk'[r.by] # "new"
    <3> SUFFICES ASSUME NEW r \in robbed
                 PROVE  /\ r.pane \in Panes /\ r.file \in Files
                        /\ r.had => walk'[r.pane] \in {"has", "gone"} /\ claim'[r.file].by # r.pane
                        /\ r.by \in Panes => walk'[r.by] # "new"
      OBVIOUS
    <3>1. r.pane \in Panes /\ r.file \in Files
      BY DEF ClaimInv, ClaimTypeOK
    <3>2. /\ r.had => walk[r.pane] \in {"has", "gone"} /\ claim[r.file].by # r.pane
          /\ r.by \in Panes => walk[r.by] # "new"
      BY DEF ClaimInv, HadStays
    <3>3. r.had => walk'[r.pane] \in {"has", "gone"}
      BY <1>2, <3>1, <3>2
    <3>4. r.had => claim'[r.file].by # r.pane
      BY <1>4, <3>1, <3>2
    <3>5. r.by \in Panes => walk'[r.by] # "new"
      BY <1>2, <3>2
    <3>6. QED
      BY <3>1, <3>3, <3>4, <3>5
  <2>3. QED
    BY <1>1, <2>1, <2>2 DEF ClaimInv, HadStays, OnlyOverlapsRob
<1>11. JudgedOthers'
  <2>1. \A x \in Panes \cup Procs : began[x].had \subseteq Panes
    BY DEF ClaimInv, ClaimTypeOK
  <2>2. QED
    BY <1>1, <1>2, <1>5, <2>1 DEF ClaimInv, JudgedOthers
<1>12. QED
  BY <1>6, <1>7, <1>8, <1>9, <1>10, <1>11 DEF ClaimInv

-----------------------------------------------------------------------------
LEMMA ClaimNextInv == ASSUME ClaimInv, ClaimNext PROVE ClaimInv'
<1>1. ASSUME NEW q \in Procs, SweepReads(q) \/ SweepUnlinks(q) \/ SweepEnds(q) \/ Dies(q)
      PROVE  ClaimInv'
  BY <1>1, SweepReadsKeeps, SweepUnlinksKeeps, SweepEndsKeeps, DiesKeeps
<1>2. ASSUME NEW p \in Panes, WalkStep(p)
      PROVE  ClaimInv'
  BY <1>2, CreateKeeps, WriteKeeps, CheckKeeps, ReadKeeps, RemoveKeeps, RecreateKeeps DEF WalkStep
<1>3. ASSUME NEW p \in Panes, NEW i \in Places, BeginWalk(p, i)
      PROVE  ClaimInv'
  BY <1>3, BeginWalkKeeps
<1>4. ASSUME NEW p \in Panes, NEW fails \in BOOLEAN, Release(p, fails)
      PROVE  ClaimInv'
  BY <1>4, ReleaseKeeps
<1>5. QED
  BY <1>1, <1>2, <1>3, <1>4 DEF ClaimNext

LEMMA ClaimStutter == ASSUME ClaimInv, UNCHANGED claimVars PROVE ClaimInv'
<1>1. UNCHANGED <<proc, doomed, place, slot, walk, claim, began, robbed>>
  BY DEF claimVars
<1>2. \A v : FileOf(v)' = FileOf(v) /\ (Robbed(v)' <=> Robbed(v))
  BY <1>1, Frame
<1>3. ClaimTypeOK' /\ ThereAlive' /\ HadStays' /\ OnlyOverlapsRob'
  BY <1>1 DEF ClaimInv, ClaimTypeOK, ThereAlive, Attached, IsAlive, HadStays, OnlyOverlapsRob
<1>4. NamesHolder' /\ HoldsFile' /\ JudgedOthers'
  BY <1>1, <1>2 DEF ClaimInv, NamesHolder, HoldsFile, JudgedOthers, Files
<1>5. QED
  BY <1>3, <1>4 DEF ClaimInv

LEMMA HoldersApart == ClaimInv => SlotsApart
<1> SUFFICES ASSUME ClaimInv, NEW p \in HasSlot, NEW q \in HasSlot,
                    FileOf(p) = FileOf(q), ~Robbed(p), ~Robbed(q)
             PROVE  p = q
  BY DEF SlotsApart
<1>1. p \in Panes /\ q \in Panes /\ walk[p] = "has" /\ walk[q] = "has"
  BY DEF HasSlot
<1>2. claim[FileOf(p)].by = p /\ claim[FileOf(q)].by = q
  BY <1>1, HolderNamed DEF ClaimInv
<1>3. QED
  BY <1>2

(* Every window session is a run of the claims: of its steps only these     *)
(* touch a claim.  Windows stay within the places there are.                *)
WindowsPlaced == index \in [Windows -> Places]

LEMMA SessionStep ==
  ASSUME WindowsPlaced, SessionsNext
  PROVE  (ClaimNext \/ UNCHANGED claimVars) /\ WindowsPlaced'
<1> USE SessionAssumption
<1>1. ASSUME NEW q \in Procs, Sweeping(q) \/ Killed(q)
      PROVE  ClaimNext /\ index' = index
  BY <1>1 DEF Sweeping, Killed, sessVars, ClaimNext
<1>2. ASSUME NEW p \in Panes, NEW w \in Windows, Start(p, w)
      PROVE  ClaimNext /\ index' = index
  BY <1>2 DEF Start, WindowsPlaced, ClaimNext
<1>3. ASSUME NEW p \in Panes, PaneStep(p) \/ ChangeTabs(p)
      PROVE  (ClaimNext \/ UNCHANGED claimVars) /\ index' = index
  BY <1>3 DEF PaneStep, Claiming, CreateWindow, TimerFires, NameAnswers, ChangeTabs, sessVars, ClaimNext
<1>4. ASSUME NEW p \in Panes, NEW fails \in BOOLEAN, Settle(p, fails)
      PROVE  ClaimNext /\ index' = index
  BY <1>4 DEF Settle, ClaimNext
<1>5. ASSUME NEW w \in Windows, NEW n \in NamesOf[w] \cup {Automatic}, Rename(w, n)
      PROVE  UNCHANGED claimVars /\ index' = index
  BY <1>5 DEF Rename
<1>6. ASSUME NEW i \in Places, Renumber(i)
      PROVE  UNCHANGED claimVars /\ WindowsPlaced'
  <2>1. ASSUME NEW w \in Windows, index[w] > i PROVE index[w] - 1 \in Places
    <3>1. index[w] \in Places /\ i \in Nat /\ index[w] \in Nat
      BY DEF WindowsPlaced
    <3>2. index[w] - 1 \in i .. index[w]
      BY <2>1, <3>1
    <3>3. QED
      BY <3>1, <3>2
  <2>2. QED
    BY <1>6, <2>1 DEF Renumber, WindowsPlaced
<1>7. ASSUME Restart
      PROVE  UNCHANGED claimVars /\ index' = index
  BY <1>7 DEF Restart
<1>8. QED
  BY <1>1, <1>2, <1>3, <1>4, <1>5, <1>6, <1>7 DEF SessionsNext, WindowsPlaced

(* However panes start and close and engines are killed, however windows    *)
(* are renamed and renumbered: two living panes that save into one slot are *)
(* two of which one lost its claim file to another (takeSlot).              *)
THEOREM SessionsKeepSlotsApart == SessionsSpec => []SlotsApart
<1>1. SessionsInit => ClaimInv /\ WindowsPlaced
  BY ClaimInitInv, SessionAssumption DEF SessionsInit, WindowsPlaced
<1>2. ClaimInv /\ WindowsPlaced /\ [SessionsNext]_vars => (ClaimInv /\ WindowsPlaced)'
  <2> SUFFICES ASSUME ClaimInv, WindowsPlaced, [SessionsNext]_vars
               PROVE  (ClaimInv /\ WindowsPlaced)'
    OBVIOUS
  <2>1. (ClaimNext \/ UNCHANGED claimVars) /\ WindowsPlaced'
    BY SessionStep DEF vars, sessVars, WindowsPlaced
  <2>2. QED
    BY <2>1, ClaimNextInv, ClaimStutter
<1>3. ClaimInv => SlotsApart
  BY HoldersApart
<1>4. QED
  BY <1>1, <1>2, <1>3, PTL DEF SessionsSpec

(* The claim of a pane that has its slot is removed only by a pane or an    *)
(* engine whose own start was already under way when it got the slot        *)
(* (slotClaimIsStale, abandonedClaimFiles): no later start can rob it.      *)
THEOREM SessionsRobOnlyOverlapping == SessionsSpec => []OnlyOverlapsRob
<1>1. SessionsInit => ClaimInv /\ WindowsPlaced
  BY ClaimInitInv, SessionAssumption DEF SessionsInit, WindowsPlaced
<1>2. ClaimInv /\ WindowsPlaced /\ [SessionsNext]_vars => (ClaimInv /\ WindowsPlaced)'
  <2> SUFFICES ASSUME ClaimInv, WindowsPlaced, [SessionsNext]_vars
               PROVE  (ClaimInv /\ WindowsPlaced)'
    OBVIOUS
  <2>1. (ClaimNext \/ UNCHANGED claimVars) /\ WindowsPlaced'
    BY SessionStep DEF vars, sessVars, WindowsPlaced
  <2>2. QED
    BY <2>1, ClaimNextInv, ClaimStutter
<1>3. ClaimInv => OnlyOverlapsRob
  BY DEF ClaimInv
<1>4. QED
  BY <1>1, <1>2, <1>3, PTL DEF SessionsSpec
=============================================================================
