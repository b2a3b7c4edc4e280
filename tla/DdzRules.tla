------------------------------ MODULE DdzRules ------------------------------
(***************************************************************************)
(* The game a table plays, as its players know it: they bid for the        *)
(* landlord, he takes the bottom cards and leads, they play in turn, a     *)
(* trick is over after two passes, and who has no cards left has won.      *)
(* Nothing is said here of messages, tokens, offers, timers or queues;     *)
(* DdzTable implements this module.  Cards are counted.                    *)
(***************************************************************************)
EXTENDS Integers

CONSTANTS HandSize, BottomSize, Nobody

Seats == 0 .. 2

VARIABLES
    stage,   \* "none", "bidding", "play" or "over"
    bid,     \* the bidding: who was first, how many have bid, who called,
             \* whether somebody raised, and who called or raised last
    lord,    \* the landlord while the play is on
    hands,   \* cards of each seat
    leader,  \* who played last, Nobody before the first play
    passes,  \* the passes since
    winner
vars == <<stage, bid, lord, hands, leader, passes, winner>>

Opened(s) == [first |-> s, count |-> 0, caller |-> Nobody, raised |-> FALSE,
              last |-> Nobody]
NoBid == Opened(Nobody)

NoGame(st, b, l, h, w) ==
    st = "none" /\ b = NoBid /\ l = Nobody /\ h = [s \in Seats |-> 0] /\ w = Nobody

Init == NoGame(stage, bid, lord, hands, winner) /\ leader = Nobody /\ passes = 0

(* Somebody has left, or the table was dissolved.                          *)
Leave ==
    /\ NoGame(stage', bid', lord', hands', winner')
    /\ leader' = Nobody /\ passes' = 0

(* A new game, or a new deal when nobody has called.                       *)
Deal(s) ==
    /\ stage = "none" \/ (stage = "bidding" /\ bid.count = 3 /\ bid.caller = Nobody)
    /\ stage' = "bidding" /\ bid' = Opened(s)
    /\ hands' = [r \in Seats |-> HandSize]
    /\ lord' = Nobody /\ leader' = Nobody /\ passes' = 0 /\ winner' = Nobody

Over(s) == stage' = "over" /\ bid' = NoBid /\ lord' = Nobody /\ winner' = s

(* A game is given up when all three seats are played for.                 *)
GivenUp == \E s \in Seats : Over(s)

(* Everybody bids once, and the caller once more if somebody has raised.   *)
Bidder == IF bid.count < 3 THEN (bid.first + bid.count) % 3 ELSE bid.caller
BidsDone == bid.count = 4 \/ (bid.count = 3 /\ ~bid.raised)

BidMade(yes) ==
    [first |-> bid.first, count |-> bid.count + 1,
     caller |-> IF yes /\ bid.caller = Nobody THEN Bidder ELSE bid.caller,
     raised |-> IF yes THEN bid.caller # Nobody ELSE bid.raised,
     last |-> IF yes THEN Bidder ELSE bid.last]

Bid(yes) ==
    /\ stage = "bidding" /\ ~BidsDone
    /\ \/ bid' = BidMade(yes) /\ UNCHANGED <<stage, lord, winner>>
       \/ GivenUp
    /\ UNCHANGED <<hands, leader, passes>>

(* The last who called or raised is the landlord.                          *)
Lead ==
    /\ stage = "bidding" /\ BidsDone /\ bid.last # Nobody
    /\ stage' = "play" /\ bid' = NoBid /\ lord' = bid.last
    /\ hands' = [hands EXCEPT ![bid.last] = @ + BottomSize]
    /\ UNCHANGED <<leader, passes, winner>>

(* The landlord begins; the seats follow each other.                       *)
Turn == IF leader = Nobody THEN lord ELSE (leader + 1 + passes) % 3
GoesOn == UNCHANGED <<stage, bid, lord, winner>> \/ GivenUp

Play(k) ==
    /\ stage = "play" /\ k \in 1 .. hands[Turn]
    /\ hands' = [hands EXCEPT ![Turn] = @ - k]
    /\ leader' = Turn /\ passes' = 0
    /\ IF hands[Turn] = k THEN Over(Turn) ELSE GoesOn

(* Who leads a trick can not pass.                                         *)
Pass ==
    /\ stage = "play" /\ leader # Nobody /\ passes < 2
    /\ passes' = passes + 1
    /\ GoesOn
    /\ UNCHANGED <<hands, leader>>

Next ==
    \/ Leave
    \/ \E s \in Seats : Deal(s)
    \/ \E yes \in BOOLEAN : Bid(yes)
    \/ Lead
    \/ \E k \in 1 .. HandSize + BottomSize : Play(k)
    \/ Pass

Spec == Init /\ [][Next]_vars
=============================================================================
