------------------------------ MODULE MCTeaBar ------------------------------
(* TeaBar for TLC: a master and a member, who may change places.           *)
EXTENDS TeaBar, TLC

CONSTANTS u1, u2

TwoUsers == {u1, u2}
Symmetric == Permutations(TwoUsers)
=============================================================================
