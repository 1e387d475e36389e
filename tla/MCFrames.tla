------------------------------ MODULE MCFrames ------------------------------
EXTENDS FramePipeline, TLC
CONSTANTS p1, p2, t1, t2
OneOf == (t1 :> p1) @@ (t2 :> p1)
OneFirst == p1 :> t1
TwoOf == (t1 :> p1) @@ (t2 :> p2)
TwoFirst == (p1 :> t1) @@ (p2 :> t2)
=============================================================================
