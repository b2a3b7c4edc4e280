--------------------------- MODULE MCAccessUsers ---------------------------
(* AccessUsers for TLC: two connections at wsconnect, one at connect.      *)
EXTENDS AccessUsers, TLC

CONSTANTS a1, a2, u1, u2, u3, t1, t2, t3, c, w

TwoAccounts == {a1, a2}
ThreeUsers == {u1, u2, u3}
TwoOfOne == (u1 :> a1) @@ (u2 :> a1) @@ (u3 :> a2)
BothServers == {c, w}
Ws == {w}
TwoAndOne == (t1 :> w) @@ (t2 :> w) @@ (t3 :> c)
ThreeTokens == {t1, t2, t3}
=============================================================================
