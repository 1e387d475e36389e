----------------------------- MODULE SlotClaims -----------------------------
(***************************************************************************)
(* Which pane saves into which slot of a tmux window (window-session.cjs). *)
(* Engines share nothing but a directory of claim files: every file        *)
(* operation of a walk is a step, and other engines act between any two.   *)
(* A claim file is found under the index its window had when the pane      *)
(* started (a place) and a slot.  Creating it and writing into it are two  *)
(* steps, so a reader can meet it empty.                                   *)
(***************************************************************************)
EXTENDS Integers

CONSTANTS
  Panes,        \* each starts once: tmux gives a respawned pane a new id
  Procs,        \* engine processes
  ProcOf,       \* the engine of each pane; a host serves several
  Places,       \* window indices
  MaxSlots,
  Nobody

ASSUME ClaimAssumption ==
  /\ ProcOf \in [Panes -> Procs]
  /\ MaxSlots \in Nat \ {0} /\ Places # {}
  /\ Nobody \notin Panes
  /\ Panes \cap Procs = {}

VARIABLES
  proc,       \* how far each engine has come
  doomed,     \* claim files a starting engine has judged abandoned and not unlinked yet
  place,      \* where each pane looks for claims
  slot,       \* the slot it tries, or has
  walk,       \* how far its walk has come
  claim,      \* the files: whose, and whether the text is in it
  began,      \* history: who had a slot, and who was there, when a walk or sweep began
  robbed      \* history: claims of living panes that others removed

claimVars == <<proc, doomed, place, slot, walk, claim, began, robbed>>

Slots == 0 .. MaxSlots - 1
Files == Places \X Slots
NoClaim == [by |-> Nobody, full |-> FALSE]

ProcStates == {"off", "sweeping", "up", "dead"}
Walking == {"create", "read", "remove", "recreate", "write", "check"}
WalkStates == Walking \cup {"new", "has", "unclaimed", "gone"}

FileOf(p) == <<place[p], slot[p]>>
IsAlive(q) == proc[q] \in {"sweeping", "up"}
HasSlot == {p \in Panes : walk[p] = "has"}
Attached(p) == walk[p] \notin {"new", "gone"}
Now == [had |-> HasSlot, there |-> {p \in Panes : Attached(p)}]
(* An engine runs one thing at a time: nothing of it moves during a walk.   *)
Idle(q) == \A p \in Panes : ProcOf[p] = q => walk[p] \notin Walking

ClaimInit ==
  /\ proc = [q \in Procs |-> "off"]
  /\ doomed = [q \in Procs |-> {}]
  /\ place = [p \in Panes |-> CHOOSE i \in Places : TRUE]
  /\ slot = [p \in Panes |-> 0]
  /\ walk = [p \in Panes |-> "new"]
  /\ claim = [f \in Files |-> NoClaim]
  /\ began = [x \in Panes \cup Procs |-> [had |-> {}, there |-> {}]]
  /\ robbed = {}

Moves(p, s) == walk' = [walk EXCEPT ![p] = s]
Puts(f, c) == claim' = [claim EXCEPT ![f] = c]

(* unlink, whatever the file holds by now                                   *)
Removes(f, who) ==
  /\ Puts(f, NoClaim)
  /\ robbed' = robbed \cup {[pane |-> p, file |-> f, by |-> who, had |-> p \in HasSlot] :
                              p \in {q \in Panes : claim[f].by = q /\ Attached(q)}}

(* parseSlotClaim: an empty file names nobody.  claimOwnedBy: the pane as   *)
(* well as the process; a pane names its process.                           *)
Named(f) == IF claim[f].full THEN claim[f].by ELSE Nobody
OwnedBy(f, p) == Named(f) = p

(* slotClaimIsStale.  A host knows of its own panes which are attached.     *)
IsStale(f, p) ==
  LET owner == Named(f) IN
  \/ owner = Nobody
  \/ ProcOf[owner] = ProcOf[p] /\ ~Attached(owner)
  \/ ~IsAlive(ProcOf[owner])

-----------------------------------------------------------------------------
(* sweepAbandonedClaimFiles, at the start of an engine: every file is read, *)
(* then those of dead engines are unlinked one after the other.             *)
(* The mutant spares only what it cannot parse.                             *)
AnyNamed == {f \in Files : Named(f) # Nobody}
Abandoned == {f \in Files : Named(f) # Nobody /\ ~IsAlive(ProcOf[Named(f)])}

SweepReads(q) ==
  /\ proc[q] = "off"
  /\ proc' = [proc EXCEPT ![q] = "sweeping"]
  /\ doomed' = [doomed EXCEPT ![q] = Abandoned]
  /\ began' = [began EXCEPT ![q] = Now]
  /\ UNCHANGED <<place, slot, walk, claim, robbed>>

SweepUnlinks(q) ==
  /\ proc[q] = "sweeping"
  /\ \E f \in doomed[q] : /\ Removes(f, q)
                          /\ doomed' = [doomed EXCEPT ![q] = @ \ {f}]
  /\ UNCHANGED <<proc, place, slot, walk, began>>

SweepEnds(q) ==
  /\ proc[q] = "sweeping" /\ doomed[q] = {}
  /\ proc' = [proc EXCEPT ![q] = "up"]
  /\ UNCHANGED <<doomed, place, slot, walk, claim, began, robbed>>

-----------------------------------------------------------------------------
(* claimWindowSessionSlot for pane p in a window with index i.              *)
BeginWalk(p, i) ==
  /\ walk[p] = "new" /\ proc[ProcOf[p]] = "up" /\ Idle(ProcOf[p])
  /\ place' = [place EXCEPT ![p] = i]
  /\ slot' = [slot EXCEPT ![p] = 0]
  /\ Moves(p, "create")
  /\ began' = [began EXCEPT ![p] = Now]
  /\ UNCHANGED <<proc, doomed, claim, robbed>>

(* The bug of a walk without an end.                                        *)
NoLimit(p) == slot' = [slot EXCEPT ![p] = @ + 1] /\ Moves(p, "create")
(* The walk goes on; past the last slot the pane uses slot 0 unclaimed.     *)
NextSlot(p) ==
  IF slot[p] + 1 < MaxSlots
  THEN slot' = [slot EXCEPT ![p] = @ + 1] /\ Moves(p, "create")
  ELSE slot' = [slot EXCEPT ![p] = 0] /\ Moves(p, "unclaimed")

(* createClaim opens with "wx": an existing file fails the create.          *)
Create(p) ==
  /\ walk[p] = "create"
  /\ IF claim[FileOf(p)] = NoClaim
     THEN Puts(FileOf(p), [by |-> p, full |-> FALSE]) /\ Moves(p, "write")
     ELSE Moves(p, "read") /\ UNCHANGED claim
  /\ UNCHANGED <<proc, doomed, place, slot, began, robbed>>

(* The text goes into the file this pane created, wherever it is now.       *)
Write(p) ==
  /\ walk[p] = "write"
  /\ IF claim[FileOf(p)].by = p THEN Puts(FileOf(p), [by |-> p, full |-> TRUE])
                                ELSE UNCHANGED claim
  /\ Moves(p, "check")
  /\ UNCHANGED <<proc, doomed, place, slot, began, robbed>>

(* The bug the readback prevents: a create that succeeded is trusted.       *)
Trusts(p) ==
  /\ walk[p] = "check"
  /\ Moves(p, "has")
  /\ UNCHANGED <<proc, doomed, place, slot, claim, began, robbed>>

(* The readback settles what a race for a stale file left open.             *)
Check(p) ==
  /\ walk[p] = "check"
  /\ IF OwnedBy(FileOf(p), p) THEN Moves(p, "has") /\ UNCHANGED slot ELSE NextSlot(p)
  /\ UNCHANGED <<proc, doomed, place, claim, began, robbed>>

Read(p) ==
  /\ walk[p] = "read"
  /\ IF OwnedBy(FileOf(p), p) THEN Moves(p, "has") /\ UNCHANGED slot
     ELSE IF IsStale(FileOf(p), p) THEN Moves(p, "remove") /\ UNCHANGED slot ELSE NextSlot(p)
  /\ UNCHANGED <<proc, doomed, place, claim, began, robbed>>

RemoveStale(p) ==
  /\ walk[p] = "remove"
  /\ Removes(FileOf(p), p)
  /\ Moves(p, "recreate")
  /\ UNCHANGED <<proc, doomed, place, slot, began>>

Recreate(p) ==
  /\ walk[p] = "recreate"
  /\ IF claim[FileOf(p)] = NoClaim
     THEN Puts(FileOf(p), [by |-> p, full |-> FALSE]) /\ Moves(p, "write") /\ UNCHANGED slot
     ELSE NextSlot(p) /\ UNCHANGED claim
  /\ UNCHANGED <<proc, doomed, place, began, robbed>>

WalkStep(p) ==
  \/ Create(p) \/ Write(p) \/ Check(p) \/ Read(p) \/ RemoveStale(p) \/ Recreate(p)

(* releaseWindowSessionClaim: only a claim that names this pane.  The       *)
(* unlink may fail, which is logged and forgotten.                          *)
Release(p, fails) ==
  /\ walk[p] \in {"has", "unclaimed"} /\ IsAlive(ProcOf[p]) /\ Idle(ProcOf[p])
  /\ LET mine == walk[p] = "has" /\ OwnedBy(FileOf(p), p) IN
     /\ fails => mine
     /\ IF mine /\ ~fails THEN Puts(FileOf(p), NoClaim) ELSE UNCHANGED claim
  /\ Moves(p, "gone")
  /\ UNCHANGED <<proc, doomed, place, slot, began, robbed>>

(* An engine exits or is killed, at any point of what it does.              *)
Dies(q) ==
  /\ IsAlive(q)
  /\ proc' = [proc EXCEPT ![q] = "dead"]
  /\ doomed' = [doomed EXCEPT ![q] = {}]
  /\ walk' = [p \in Panes |-> IF ProcOf[p] = q THEN "gone" ELSE walk[p]]
  /\ UNCHANGED <<place, slot, claim, began, robbed>>

ClaimNext ==
  \/ \E q \in Procs : SweepReads(q) \/ SweepUnlinks(q) \/ SweepEnds(q) \/ Dies(q)
  \/ \E p \in Panes : \/ \E i \in Places : BeginWalk(p, i)
                      \/ WalkStep(p)
                      \/ \E fails \in BOOLEAN : Release(p, fails)

ClaimSpec == ClaimInit /\ [][ClaimNext]_claimVars

-----------------------------------------------------------------------------
(* Type invariant of the claims.                                            *)
ClaimTypeOK ==
  /\ proc \in [Procs -> ProcStates]
  /\ doomed \in [Procs -> SUBSET Files]
  /\ place \in [Panes -> Places] /\ slot \in [Panes -> Slots]
  /\ walk \in [Panes -> WalkStates]
  /\ claim \in [Files -> [by : Panes \cup {Nobody}, full : BOOLEAN]]
  /\ began \in [Panes \cup Procs -> [had : SUBSET Panes, there : SUBSET Panes]]
  /\ robbed \subseteq [pane : Panes, file : Files, by : Panes \cup Procs,
                had : BOOLEAN]

Robbed(p) == \E r \in robbed : r.pane = p /\ r.file = FileOf(p) /\ r.had

(* Two living panes have one slot only if the claim of one was removed      *)
(* under it (takeSlot).                                                     *)
SlotsApart ==
  \A p, q \in HasSlot : p # q /\ FileOf(p) = FileOf(q) => Robbed(p) \/ Robbed(q)

(* Whoever starts after a pane has its slot leaves that pane's claim alone: *)
(* only starts that overlap can rob each other (slotClaimIsStale,           *)
(* abandonedClaimFiles).                                                    *)
OnlyOverlapsRob == \A r \in robbed : r.pane \notin began[r.by].had

(* "Two panes cannot both believe they claimed" (createClaim in main.cjs).  *)
NoneBothHave == \A p, q \in HasSlot : p # q => FileOf(p) # FileOf(q)

(* An exit or a sweep never removes a living pane's claim (main.cjs on      *)
(* releaseWindowSessionClaim, window-session.cjs on the sweep).             *)
SweepSpares == \A r \in robbed : r.had => r.by \notin Procs
=============================================================================
