---------------------------- MODULE MCRobotPlay ----------------------------
(* RobotPlay for TLC: hands around every kind of play, and plays to beat.  *)
EXTENDS RobotPlay

Hand(f) == [v \in {x \in DOMAIN f : f[x] > 0} |-> f[v]]

(* Up to two of each of six values: straights, of pairs and joined.        *)
SmallHands == {Hand(f) : f \in [3 .. 8 -> 0 .. 2]}

(* Triples in a row or not, with singles and pairs to carry, and twos.     *)
TripleHands ==
    {Hand(t @@ f @@ (Two :> n)) : t \in [3 .. 6 -> {0, 3}],
        f \in [{9, 11, 13} -> 0 .. 2], n \in {0, 1, 3}}

(* Bombs, jokers and twos.                                                 *)
BombHands ==
    {Hand(b @@ j @@ (7 :> m) @@ (Two :> n)) : b \in [{4, 6} -> {0, 4}],
        j \in [{SmallJoker, BigJoker} -> 0 .. 1], m \in 0 .. 3, n \in 0 .. 4}

(* Long runs, of one, two or three of a value.                             *)
LongHands ==
    {Row(3, 9, 1) (+) Row(v, 5, 1) : v \in {3, 5, 7}} \cup
    {Row(10, 5, 1) (+) Row(3, 5, 2), Row(3, 6, 3), Row(3, 5, 3) (+) Row(9, 1, 2),
     Row(6, 3, 3) (+) Row(11, 2, 2), Row(6, 3, 3) (+) Row(11, 1, 2) (+) Row(13, 1, 1)}

NotEmpty(H) == {h \in H : h # EmptyBag /\ BagCardinality(h) <= 20}
DealtHands == NotEmpty(SmallHands \cup TripleHands \cup BombHands \cup LongHands)
LeftHands == NotEmpty(BombHands)

Single(v) == Play("SINGLE", v, 1, Copies(v, 1))
Pair(v) == Play("PAIR", v, 1, Copies(v, 2))
Triple(v) == Play("TRIPLE", v, 1, Copies(v, 3))
Bomb(v) == Play("BOMB", v, 1, Copies(v, 4))
Run(type, v, k, n) == Play(type, v, k, Row(v, k, n))
With(p, type, cards) == Play(type, p.real, p.num, p.cards (+) cards)

SeenPlays ==
    {Single(v) : v \in {3, 7, 14, Two, BigJoker}} \cup
    {Pair(v) : v \in {3, 14}} \cup {Triple(v) : v \in {3, 9}} \cup
    {Bomb(v) : v \in {5, Two}} \cup {Run("ROCKET", SmallJoker, 2, 1)} \cup
    {With(Triple(3), "TRIPLE_1", Copies(14, 1)),
     With(Triple(4), "TRIPLE_2", Copies(14, 2)),
     With(Bomb(3), "QUADRUPLE_2", Row(13, 2, 1)),
     With(Bomb(3), "QUADRUPLE_2_PAIR", Row(13, 2, 2)),
     Run("STRAIGHT_3", 3, 2, 3),
     With(Run("STRAIGHT_3", 3, 2, 3), "STRAIGHT_3_1", Row(13, 2, 1)),
     With(Run("STRAIGHT_3", 3, 2, 3), "STRAIGHT_3_2", Row(13, 2, 2)),
     With(Run("STRAIGHT_3", 3, 3, 3), "STRAIGHT_3_1", Row(12, 3, 1))} \cup
    {Run("STRAIGHT", v, k, 1) : v \in {3, 4, 6}, k \in {5, 6}} \cup
    {Run("STRAIGHT_2", v, k, 2) : v \in {3, 4}, k \in {3, 4}}
=============================================================================
