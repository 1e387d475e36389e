--------------------------- MODULE WindowSessions ---------------------------
(***************************************************************************)
(* The tabs a tmux window gets back (main.cjs, window-session.cjs): panes  *)
(* save their tabs under three keys, the id, the name and the index of     *)
(* their window, each with the pane's slot, and a new pane reads the first *)
(* that exists.  Panes of many engines, saves waiting for a timer and for  *)
(* tmux, windows renamed and renumbered, engines killed, the tmux server   *)
(* restarted.                                                              *)
(***************************************************************************)
EXTENDS SlotClaims, FiniteSets

CONSTANTS
  Windows,
  FirstIndex,      \* the index of each window at first; Places holds them all
  FirstName,       \* its name at first
  NamesOf,         \* names someone may give each window
  Automatic,       \* the name tmux chooses
  MaxPages, MaxRenames, MaxRenumbers, MaxRestarts,  \* bounds of an instance,
  MaxTogether,     \* and of all these together
  Mortal           \* engines that may be killed

ASSUME SessionAssumption ==
  /\ FirstIndex \in [Windows -> Places] /\ Places \subseteq Nat
  /\ \A i, j \in Places : i .. j \subseteq Places
  /\ \A w \in Windows : Automatic \notin NamesOf[w] /\ FirstName[w] \in NamesOf[w] \cup {Automatic}

VARIABLES
  index, name,     \* of each window, as tmux has them
  window,          \* the window a pane started in
  opened,          \* how a pane's first tabs came about; "no" before they exist
  tabs,            \* each pane's pages
  timer,           \* a pane's debounced save is due
  asked,           \* names tmux gave for saves that have not been written yet
  nameKey,         \* the window name a pane saves under
  byId, byName, byIndex,    \* the session files
  left,            \* history: the last tabs saved from each window and slot
  leaked,          \* history: panes whose claim outlived them in a living engine
  used             \* what the bounds limit

sessVars == <<index, name, window, opened, tabs, timer, asked, nameKey,
              byId, byName, byIndex, left, leaked, used>>
vars == <<claimVars, sessVars>>

Names == UNION {NamesOf[w] : w \in Windows}
Pages == 1 .. MaxPages
MayYet(k, max) ==
  /\ used[k] < max
  /\ used.pages + used.renames + used.renumbers + used.restarts < MaxTogether
WalkOver(p) == walk[p] \in {"has", "unclaimed"}
(* The walk and the making of the first tabs are one piece of work.         *)
Free(q) == Idle(q) /\ \A p \in Panes : ProcOf[p] = q /\ WalkOver(p) => opened[p] # "no"
Works(p) == WalkOver(p) /\ opened[p] # "no" /\ Free(ProcOf[p])

SessionsInit ==
  /\ ClaimInit
  /\ index = FirstIndex
  /\ name = FirstName
  /\ window = [p \in Panes |-> CHOOSE w \in Windows : TRUE]
  /\ opened = [p \in Panes |-> "no"]
  /\ tabs = [p \in Panes |-> {}]
  /\ timer = [p \in Panes |-> FALSE]
  /\ asked = [p \in Panes |-> {}]
  /\ nameKey = [p \in Panes |-> Automatic]
  /\ byId = [w \in Windows |-> [s \in Slots |-> {}]]
  /\ byName = [n \in Names |-> [s \in Slots |-> {}]]
  /\ byIndex = [i \in Places |-> [s \in Slots |-> {}]]
  /\ left = [w \in Windows |-> [s \in Slots |-> {}]]
  /\ leaked = {}
  /\ used = [pages |-> 0, renames |-> 0, renumbers |-> 0, restarts |-> 0]

(* writeWindowSessionState, under every key the pane has; with no page      *)
(* worth keeping the files stay as they are.  n is the name it saves under. *)
Saves(p, T, n) ==
  LET w == window[p]  s == slot[p] IN
  IF T = {} THEN UNCHANGED <<byId, byName, byIndex, left>>
  ELSE /\ byId' = [byId EXCEPT ![w][s] = T]
       /\ byName' = IF n \in Names THEN [byName EXCEPT ![n][s] = T] ELSE byName
       /\ byIndex' = [byIndex EXCEPT ![place[p]][s] = T]
       /\ left' = [left EXCEPT ![w][s] = T]

(* readWindowSession: the id, then the name, then the index.                *)
Saved(p) ==
  LET s == slot[p]
      named == IF nameKey[p] \in Names THEN byName[nameKey[p]][s] ELSE {}
  IN  IF byId[window[p]][s] # {} THEN byId[window[p]][s]
      ELSE IF named # {} THEN named ELSE byIndex[place[p]][s]

-----------------------------------------------------------------------------
(* resolveWindowSessionPaths: the window's name and index are asked for as  *)
(* the pane starts, then the slot is walked for.  Without an answer there   *)
(* is no name to save under.                                                *)
Start(p, w) ==
  /\ BeginWalk(p, index[w]) /\ Free(ProcOf[p])
  /\ window' = [window EXCEPT ![p] = w]
  /\ \E n \in {name[w], Automatic} : nameKey' = [nameKey EXCEPT ![p] = n]
  /\ UNCHANGED <<index, name, opened, tabs, timer, asked, byId, byName, byIndex, left, leaked, used>>

Claiming(p) == WalkStep(p) /\ UNCHANGED sessVars

Sweeping(q) ==
  /\ SweepReads(q) \/ SweepUnlinks(q) \/ SweepEnds(q)
  /\ UNCHANGED sessVars

NewPage == used.pages + 1
(* createWindow, and what it finds.  A pane opened with an address shows it *)
(* among the saved tabs; one that neither restores nor opens one reads      *)
(* nothing.  What only an older key had is saved under the current ones.    *)
Ways == {"restore", "address", "plain"}
(* The mutant is the behaviour sessionWithOpenedUrl replaced.               *)
AddressAlone(p, way) ==
  IF way = "plain" THEN {} ELSE IF way = "address" THEN {NewPage} ELSE Saved(p)
FirstTabs(p, way) ==
  (IF way = "plain" THEN {} ELSE Saved(p)) \cup (IF way = "address" THEN {NewPage} ELSE {})

CreateWindow(p, way) ==
  /\ WalkOver(p) /\ opened[p] = "no"
  /\ way = "address" => MayYet("pages", MaxPages)
  /\ opened' = [opened EXCEPT ![p] = way]
  /\ tabs' = [tabs EXCEPT ![p] = FirstTabs(p, way)]
  /\ timer' = [timer EXCEPT ![p] = TRUE]
  /\ used' = [used EXCEPT !.pages = @ + (IF way = "address" THEN 1 ELSE 0)]
  /\ IF way # "plain" /\ byId[window[p]][slot[p]] = {}
     THEN Saves(p, Saved(p), nameKey[p])
     ELSE UNCHANGED <<byId, byName, byIndex, left>>
  /\ UNCHANGED <<claimVars, index, name, window, asked, nameKey, leaked>>

(* A tab opens, or goes; scheduleWindowSessionSave arms the timer anew.     *)
ChangeTabs(p) ==
  /\ Works(p)
  /\ \/ /\ MayYet("pages", MaxPages)
        /\ tabs' = [tabs EXCEPT ![p] = @ \cup {NewPage}]
        /\ used' = [used EXCEPT !.pages = @ + 1]
     \/ /\ \E x \in tabs[p] : tabs[p] # {x} /\ tabs' = [tabs EXCEPT ![p] = @ \ {x}]
        /\ UNCHANGED used
  /\ timer' = [timer EXCEPT ![p] = TRUE]
  /\ UNCHANGED <<claimVars, index, name, window, opened, asked, nameKey,
                 byId, byName, byIndex, left, leaked>>

(* The timer fires and tmux is asked for the name (refreshWindowName); the  *)
(* answer says what the name was when tmux was asked.                       *)
TimerFires(p) ==
  /\ Works(p) /\ timer[p]
  /\ timer' = [timer EXCEPT ![p] = FALSE]
  /\ asked' = [asked EXCEPT ![p] = @ \cup {name[window[p]]}]
  /\ UNCHANGED <<claimVars, index, name, window, opened, tabs, nameKey,
                 byId, byName, byIndex, left, leaked, used>>

(* The answer comes, or tmux has failed to give one, and the tabs of that   *)
(* moment are written.                                                      *)
NameAnswers(p) ==
  /\ Works(p)
  /\ \E n \in asked[p] : \E heard \in {n, nameKey[p]} :
       /\ asked' = [asked EXCEPT ![p] = @ \ {n}]
       /\ nameKey' = [nameKey EXCEPT ![p] = heard]
       /\ Saves(p, tabs[p], heard)
  /\ UNCHANGED <<claimVars, index, name, window, opened, tabs, timer, leaked, used>>
(* settleWindowSession as the pane closes or its engine quits: its tabs as  *)
(* they are, under the name last heard, and the slot handed back.  An       *)
(* answer that comes later finds no tab to save; a pane that ends because   *)
(* its last page closed itself has none left either.                        *)
Settle(p, fails) ==
  /\ Works(p) /\ Release(p, fails)
  /\ leaked' = IF fails THEN leaked \cup {p} ELSE leaked
  /\ tabs' = [tabs EXCEPT ![p] = {}]
  /\ timer' = [timer EXCEPT ![p] = FALSE]
  /\ asked' = [asked EXCEPT ![p] = {}]
  /\ \E T \in {tabs[p], {}} : /\ T # tabs[p] => Cardinality(tabs[p]) = 1
                              /\ Saves(p, T, nameKey[p])
  /\ UNCHANGED <<index, name, window, opened, nameKey, used>>

Killed(q) ==
  /\ q \in Mortal /\ Dies(q)
  /\ timer' = [p \in Panes |-> ProcOf[p] # q /\ timer[p]]
  /\ asked' = [p \in Panes |-> IF ProcOf[p] = q THEN {} ELSE asked[p]]
  /\ tabs' = [p \in Panes |-> IF ProcOf[p] = q THEN {} ELSE tabs[p]]
  /\ UNCHANGED <<index, name, window, opened, nameKey, byId, byName, byIndex, left,
                 leaked, used>>

-----------------------------------------------------------------------------
(* tmux                                                                     *)
Rename(w, n) ==
  /\ MayYet("renames", MaxRenames) /\ n # name[w]
  /\ name' = [name EXCEPT ![w] = n]
  /\ used' = [used EXCEPT !.renames = @ + 1]
  /\ UNCHANGED <<claimVars, index, window, opened, tabs, timer, asked, nameKey,
                 byId, byName, byIndex, left, leaked>>

(* renumber-windows: another window, of index i, closes.                    *)
Renumber(i) ==
  /\ MayYet("renumbers", MaxRenumbers)
  /\ \A w \in Windows : index[w] # i
  /\ index' = [w \in Windows |-> IF index[w] > i THEN index[w] - 1 ELSE index[w]]
  /\ used' = [used EXCEPT !.renumbers = @ + 1]
  /\ UNCHANGED <<claimVars, name, window, opened, tabs, timer, asked, nameKey,
                 byId, byName, byIndex, left, leaked>>

(* The tmux server goes with every pane in it; the windows come back under  *)
(* new ids, with their names and indices.                                   *)
Restart ==
  /\ MayYet("restarts", MaxRestarts)
  /\ \A p \in Panes : walk[p] \in {"new", "gone"}
  /\ byId' = [w \in Windows |-> [s \in Slots |-> {}]]
  /\ used' = [used EXCEPT !.restarts = @ + 1]
  /\ UNCHANGED <<claimVars, index, name, window, opened, tabs, timer, asked, nameKey,
                 byName, byIndex, left, leaked>>

PaneStep(p) ==
  \/ Claiming(p)
  \/ \E way \in Ways : CreateWindow(p, way)
  \/ TimerFires(p) \/ NameAnswers(p)

SessionsNext ==
  \/ \E q \in Procs : Sweeping(q) \/ Killed(q)
  \/ \E p \in Panes : \/ \E w \in Windows : Start(p, w)
                      \/ PaneStep(p) \/ ChangeTabs(p)
                      \/ \E fails \in BOOLEAN : Settle(p, fails)
  \/ \E w \in Windows : \E n \in NamesOf[w] \cup {Automatic} : Rename(w, n)
  \/ \E i \in Places : Renumber(i)
  \/ Restart

SessionsFairness ==
  \A p \in Panes : /\ WF_vars(Claiming(p)) /\ WF_vars(\E way \in Ways : CreateWindow(p, way))
                   /\ WF_vars(TimerFires(p)) /\ WF_vars(NameAnswers(p))

SessionsSpec == SessionsInit /\ [][SessionsNext]_vars /\ SessionsFairness

-----------------------------------------------------------------------------
(* Properties.                                                              *)

(* Every variable holds a value of its kind.                                *)
SessionsTypeOK ==
  /\ ClaimTypeOK
  /\ index \in [Windows -> Places] /\ name \in [Windows -> Names \cup {Automatic}]
  /\ window \in [Panes -> Windows] /\ opened \in [Panes -> Ways \cup {"no"}]
  /\ tabs \in [Panes -> SUBSET Pages] /\ timer \in [Panes -> BOOLEAN]
  /\ asked \in [Panes -> SUBSET (Names \cup {Automatic})]
  /\ nameKey \in [Panes -> Names \cup {Automatic}]
  /\ {byId, left} \subseteq [Windows -> [Slots -> SUBSET Pages]]
  /\ byName \in [Names -> [Slots -> SUBSET Pages]]
  /\ byIndex \in [Places -> [Slots -> SUBSET Pages]]
  /\ leaked \subseteq Panes

(* No other pane was in the window while p walked for its slot, and no      *)
(* engine still holds a claim there that it failed to release.              *)
Lone(p) ==
  \A q \in Panes \ {p} : window[q] = window[p] /\ walk[q] # "new" =>
    /\ q \notin began[p].there /\ p \notin began[q].there
    /\ q \in leaked => ProcOf[q] = ProcOf[p]

(* A save that missed the window's name leaves older tabs under that name.  *)
NameLags(p) ==
  /\ nameKey[p] \in Names /\ byId[window[p]][slot[p]] = {}
  /\ byName[nameKey[p]][slot[p]] \notin {{}, byIndex[place[p]][slot[p]]}

(* A pane that starts alone in a window gets the tabs its last pane there   *)
(* saved, whether that pane was closed, its engine killed or the tmux       *)
(* server restarted, and an address it is opened with is added to them.     *)
(* After a restart this needs a name's file that does not lag behind.       *)
ComesBack ==
  [][\A p \in Panes :
       /\ opened[p] = "no" /\ opened'[p] \in {"restore", "address"}
       /\ Lone(p) /\ ~(\E r \in robbed : r.pane = p) /\ used.renumbers = 0
       /\ ~NameLags(p)
       => tabs'[p] = left[window[p]][0]
                       \cup (IF opened'[p] = "address" THEN {used'.pages} ELSE {})]_vars

SharesFile(p) ==
  \E q \in Panes \ {p} : WalkOver(q) /\ window[q] = window[p] /\ slot[q] = slot[p]
Unsaved(p) == WalkOver(p) /\ tabs[p] # {} /\ byId[window[p]][slot[p]] # tabs[p]

(* A pane that comes to have its files to itself gets its tabs saved,       *)
(* however saves are put off and whatever becomes of the questions to tmux. *)
ChangesAreSaved == \A p \in Panes : []<>(SharesFile(p) \/ ~Unsaved(p))

-----------------------------------------------------------------------------
(* Promises of comments that the code does not keep                         *)

(* Two living panes never save into one file (slotClaimIsStale).            *)
FilesApart == \A p, q \in HasSlot : p # q /\ ~Robbed(p) /\ ~Robbed(q) =>
                <<window[p], slot[p]>> # <<window[q], slot[q]>>

(* One pane in a window is always slot 0 (window-session.cjs).              *)
LoneIsZero == \A p \in HasSlot : Lone(p) => slot[p] = 0

(* The name "outlives" a server restart, so what it finds is the last save  *)
(* (windowSessionKeys).                                                     *)
NameIsFresh == \A p \in Panes : WalkOver(p) /\ opened[p] = "no" => ~NameLags(p)

(* A pane's tabs come back from the last save, whichever key they are found *)
(* under: no window's tabs are another's.                                   *)
NotAnothers ==
  \A p \in Panes : opened[p] = "restore" =>
    \A v \in Windows \ {window[p]} : tabs[p] # {} => tabs[p] # left[v][0]
=============================================================================
