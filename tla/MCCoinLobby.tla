---------------------------- MODULE MCCoinLobby ----------------------------
(* Small instances of CoinLobby. *)
EXTENDS CoinLobby, TLC

CONSTANTS p1, p2, p3, r1

TwoPlayers   == {p1, p2}
ThreePlayers == {p1, p2, p3}
OneRobot     == {r1}
Nobody       == {}
AllTables    == Tables

PlayerSymmetry == Permutations(Players)

=============================================================================
