----------------------------- MODULE MCDdzTable -----------------------------
(* DdzTable for TLC: the table states clients log out in, and who sits.    *)
EXTENDS DdzTable

Players == {FALSE}
PlayersAndRobots == {FALSE, TRUE}

OnceStarted == {"WAIT_QIANG", "PLAYING", "FINISH"}

Nobody == {}
FirstSeat == {0}
AnySeat == Seats
=============================================================================
