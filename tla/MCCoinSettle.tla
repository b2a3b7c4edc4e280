---------------------------- MODULE MCCoinSettle ----------------------------
(* CoinSettle for TLC: three users with one coin each, scores 1 and 2.     *)
EXTENDS CoinSettle

CONSTANTS u1, u2, u3

ThreeUsers == {u1, u2, u3}
TheScores == {1, 2}
ThePurses == {1}
=============================================================================
