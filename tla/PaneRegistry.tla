--------------------------- MODULE PaneRegistry ---------------------------
(***************************************************************************)
(* twebd's pane registry: which pane is attached, and which registration   *)
(* of it is the current one.  A registration is its generation number;     *)
(* page id, pid and time are diagnostics and left out.                     *)
(*                                                                         *)
(* The module is the abstract account of pane ownership: Twebd.tla EXTENDS *)
(* it, calls Attach and Detach from its connection tasks, and is checked   *)
(* to implement RegSpec.                                                   *)
(***************************************************************************)
EXTENDS Integers, PaneKeys

CONSTANT MaxGeneration     \* bound: how many registrations one run hands out

ASSUME RegistryAssumption == MaxGeneration \in Nat

VARIABLES
  panes,            \* key -> generation registered there, 0 when none is
  nextGeneration    \* the last generation handed out

regVars == <<panes, nextGeneration>>

NoGeneration == 0

RegInit ==
  /\ panes = [k \in Keys |-> NoGeneration]
  /\ nextGeneration = 0

(* What the generation guards against: a detach that goes by the key alone, *)
(* a counter that restarts with an empty registry, one that never moves.    *)
AnyRegistered(k, g) == panes[k] # NoGeneration
CounterRestarts ==
  IF \A k \in Keys : panes[k] = NoGeneration THEN 1 ELSE nextGeneration + 1
CounterStuck == 1

(* A lifecycle message tagged g still speaks for the pane.  *)
IsCurrent(k, g) == g # NoGeneration /\ panes[k] = g

(* The registration an attach of k creates now.  *)
NewGeneration == nextGeneration + 1

(* attach: displaces whatever was registered under the key.  *)
Attach(k) ==
  /\ nextGeneration < MaxGeneration
  /\ nextGeneration' = NewGeneration
  /\ panes' = [panes EXCEPT ![k] = NewGeneration]

(* detach: removes the registration only when g is still the current one.  *)
Detach(k, g) ==
  /\ panes' = [panes EXCEPT ![k] = IF IsCurrent(k, g) THEN NoGeneration ELSE @]
  /\ UNCHANGED nextGeneration

RegNext ==
  \E k \in Keys :
    \/ Attach(k)
    \/ \E g \in 1 .. nextGeneration : Detach(k, g)

RegSpec == RegInit /\ [][RegNext]_regVars

-----------------------------------------------------------------------------
(* Type invariant of the registry.  *)
RegTypeOK ==
  /\ panes \in [Keys -> Nat]
  /\ nextGeneration \in 0 .. MaxGeneration

(* A generation names one registration: no two panes ever carry the same    *)
(* one, and none is registered that the counter has not handed out.  The    *)
(* counter is shared by all panes and never reset (State.next_generation).  *)
GenerationsDistinct ==
  /\ \A k \in Keys : panes[k] <= nextGeneration
  /\ \A j, k \in Keys : panes[j] = panes[k] /\ panes[j] # NoGeneration => j = k

(* A registration is only ever replaced by a younger one or removed, never  *)
(* by an older one; and a step that hands out no generation brings none     *)
(* back.  This is what makes a late detach harmless to a successor.         *)
OnlyForward ==
  [][\A k \in Keys :
        panes'[k] # panes[k] =>
          \/ panes'[k] = NoGeneration
          \/ panes'[k] > nextGeneration /\ panes'[k] = nextGeneration']_regVars
=============================================================================
