------------------------------ MODULE MCTwebd ------------------------------
(* Instances of the shared-engine path: connections c1, c2, and which pane  *)
(* each one is in.                                                          *)
EXTENDS TwebdProperties, TLC

CONSTANTS c1, c2, k1, k2, p1, p2

SamePane == c1 :> k1 @@ c2 :> k1
OwnPanes == c1 :> k1 @@ c2 :> k2
OwnIds == k1 :> p1 @@ k2 :> p2
SharedId == k1 :> p1 @@ k2 :> p1
=============================================================================
