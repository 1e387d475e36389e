----------------------------- MODULE MCSessions -----------------------------
EXTENDS WindowSessions, TLC
CONSTANTS p1, p2, p3, host, own, w1, w2, mail, auto
Hosted == (p1 :> host) @@ (p2 :> host)
OneEach == (p1 :> host) @@ (p3 :> own)
FirstIndices == (w1 :> 2) @@ (w2 :> 3)
OneIndex == w1 :> 2
Mail == w1 :> mail
OneAuto == w1 :> auto
BothAuto == (w1 :> auto) @@ (w2 :> auto)
NoNames == (w1 :> {}) @@ (w2 :> {})
OneName == w1 :> {mail}
SameName == (w1 :> {mail}) @@ (w2 :> {mail})
=============================================================================
