---------------------------- MODULE MCRoomTables ----------------------------
(* RoomTables for TLC: three ids, of which one left the configuration.       *)
EXTENDS RoomTables, TLC

CONSTANTS u1, u2, g1

TwoUsers == {u1, u2}
OneGame == {g1}
ThreeIds == 1 .. 3
TheMiddle == {2}
OwnAndOthers == {"own", "delegate"}
SetsAndDels == {"set", "del"}
Symmetric == Permutations(TwoUsers)
=============================================================================
