---------------------------- MODULE PaneOwners ----------------------------
(* What the daemon promises of a pane's registration, without generations,  *)
(* tasks or an engine: a pane belongs to the connection that registered it  *)
(* last, until that one is refused or leaves.  A connection registers once; *)
(* while it waits for its answer nothing but a successor takes the pane     *)
(* from it, and once it is refused the pane is not its own.                 *)
CONSTANTS Keys, Conns,
          NoConn,     \* no connection: not a member of Conns
          KeyOf       \* [Conns -> Keys]

VARIABLES
  owner,      \* pane -> the connection it is registered to, or NoConn
  known,      \* connections that have registered
  waiting,    \* those whose request to be hosted is not decided
  accepted    \* those that were told yes, and have not been released

ownersVars == <<owner, known, waiting, accepted>>

OwnersInit ==
  /\ owner = [k \in Keys |-> NoConn]
  /\ known = {} /\ waiting = {} /\ accepted = {}

Drops(c) == owner' = [owner EXCEPT ![KeyOf[c]] = IF @ = c THEN NoConn ELSE @]

\* c takes its pane over, from whoever has it: to be hosted, or at once.
Registers(c) ==
  /\ c \notin known
  /\ known' = known \cup {c}
  /\ owner' = [owner EXCEPT ![KeyOf[c]] = c]
  /\ \/ waiting' = waiting \cup {c} /\ UNCHANGED accepted
     \/ accepted' = accepted \cup {c} /\ UNCHANGED waiting

\* The answer to c, which may have lost the pane to a successor meanwhile.
IsAccepted(c) ==
  /\ c \in waiting
  /\ waiting' = waiting \ {c}
  /\ accepted' = accepted \cup {c}
  /\ UNCHANGED <<owner, known>>

IsRefused(c) ==
  /\ c \in waiting
  /\ waiting' = waiting \ {c}
  /\ Drops(c)
  /\ UNCHANGED <<known, accepted>>

\* c detaches or hangs up: its own registration goes, never a successor's.
Leaves(c) ==
  /\ c \in accepted
  /\ Drops(c)
  /\ UNCHANGED <<known, waiting, accepted>>

\* What c was served with is released, after the pane.
IsReleased(c) ==
  /\ c \in accepted /\ owner[KeyOf[c]] # c
  /\ accepted' = accepted \ {c}
  /\ UNCHANGED <<owner, known, waiting>>

OwnersNext ==
  \E c \in Conns :
    Registers(c) \/ IsAccepted(c) \/ IsRefused(c) \/ Leaves(c) \/ IsReleased(c)

OwnersSpec == OwnersInit /\ [][OwnersNext]_ownersVars
=============================================================================
