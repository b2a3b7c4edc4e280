----------------------------- MODULE PokerLogic -----------------------------
(***************************************************************************)
(* The card rules of the coin table (src/svr/ddz_Coin_3/src/PokerLogic):   *)
(* which cards make a play of the type, value and length a request names,  *)
(* and which play beats the one before it.                                 *)
(*                                                                         *)
(* Cards are a bag of values (GetCardLogicVal): 3 .. 14 for three to ace,  *)
(* 15 for the twos, 16 and 17 for the jokers.  Suits play no part in the   *)
(* rules.  No coin table ever sets laizi_card, so no card is a wild card   *)
(* (IsLaiZi) and every number of them in the code is zero here.            *)
(***************************************************************************)
EXTENDS Integers, FiniteSets, Bags

Vals == 3 .. 17
Two == 15
SmallJoker == 16
BigJoker == 17

(* The low four bits of a card, which the code sorts and pairs by: a joker *)
(* is 0x51 or 0x52, so the big joker and the twos have the same.           *)
GetLow(v) ==
    CASE v = Two -> 2 [] v = SmallJoker -> 1 [] v = BigJoker -> 2 [] OTHER -> v

Lows == 1 .. 14

(* EN_POKER_TYPE_...: the types a coin table accepts, by their numbers.    *)
TypeNum ==
    [ UNKNOWN |-> 0, SINGLE |-> 1, PAIR |-> 2, TRIPLE |-> 3, TRIPLE_1 |-> 4,
      TRIPLE_2 |-> 5, STRAIGHT |-> 6, STRAIGHT_2 |-> 7, STRAIGHT_3 |-> 8,
      STRAIGHT_3_2 |-> 9, QUADRUPLE_2 |-> 10, STRAIGHT_3_1 |-> 14,
      QUADRUPLE_2_PAIR |-> 18, BOMB |-> 22, ROCKET |-> 23 ]
SoftBombNum == 20

(* A play: cards with the type, first value and length it is meant as.     *)
Play(type, real, num, cards) ==
    [type |-> type, real |-> real, num |-> num, cards |-> cards]
NoPlay == Play("UNKNOWN", 0, 0, EmptyBag)

Copies(v, n) == [x \in {v} |-> n]
Row(v, k, n) == [x \in v .. v + k - 1 |-> n]

(* CopiesIn, which the Bags module of the prover does not have.            *)
NumOf(v, cards) == IF v \in DOMAIN cards THEN cards[v] ELSE 0

FindCardNumByVal(cards, val) == NumOf(IF val = 2 THEN Two ELSE val, cards)
FindJokerNum(cards) == NumOf(SmallJoker, cards) + NumOf(BigJoker, cards)
Find2CardNum(cards) == NumOf(Two, cards)

(* How many cards have low bits in L.                                      *)
NumLow(cards, L) ==
    BagCardinality([v \in {x \in DOMAIN cards : GetLow(x) \in L} |-> cards[v]])

(* The low bits of the i-th card (from 0), once the cards are sorted.      *)
LowAt(cards, i) ==
    CHOOSE l \in Lows : NumLow(cards, 1 .. l - 1) <= i /\ i < NumLow(cards, 1 .. l)

-----------------------------------------------------------------------------
(* Check...: may these cards be played as that type?                       *)

(* The two cards with a triple are compared when the triple is the first   *)
(* three or the last three of the sorted five.                             *)
KickersPair(cards) ==
    /\ LowAt(cards, 2) = LowAt(cards, 0) => LowAt(cards, 3) = LowAt(cards, 4)
    /\ LowAt(cards, 2) # LowAt(cards, 0) /\ LowAt(cards, 2) = LowAt(cards, 4)
         => LowAt(cards, 0) = LowAt(cards, 1)

(* CheckSingle, CheckPair, CheckTriple, CheckBomb: n cards of a value.     *)
CheckSame(type, n, cards, val) ==
    /\ BagCardinality(cards) = n
    /\ type = "SINGLE" \/ FindJokerNum(cards) = 0
    /\ FindCardNumByVal(cards, val) >= n

CheckTripleWithOne(cards, val) ==
    /\ BagCardinality(cards) = 4 /\ FindJokerNum(cards) <= 1
    /\ FindCardNumByVal(cards, val) >= 3

CheckTripleWithTwo(cards, val) ==
    /\ BagCardinality(cards) = 5 /\ FindJokerNum(cards) <= 1
    /\ KickersPair(cards)
    /\ FindCardNumByVal(cards, val) >= 3

CheckQuadrupleWithTwo(cards, val) ==
    BagCardinality(cards) = 6 /\ FindCardNumByVal(cards, val) >= 4

CheckQuadrupleWithTwoPair(cards, val) ==
    /\ BagCardinality(cards) = 8 /\ FindCardNumByVal(cards, val) >= 4
    /\ \A l \in Lows : NumLow(cards, {l}) % 2 = 0

CheckBombOfJoker(cards, val) ==
    cards = Row(SmallJoker, 2, 1) /\ val = SmallJoker

(* CheckStraight, CheckStraight_2, CheckStraight_3: n cards of each value. *)
CheckStraight(n, cards, val, len) ==
    LET size == BagCardinality(cards) IN
    /\ size >= IF n = 1 THEN 5 ELSE 6
    /\ size % n = 0 /\ len = size \div n
    /\ FindJokerNum(cards) = 0 /\ Find2CardNum(cards) = 0
    /\ \A i \in 0 .. len - 1 : FindCardNumByVal(cards, val + i) = n

CheckStraight_3_1(cards, val, len) ==
    LET size == BagCardinality(cards) IN
    /\ size >= 8 /\ size % 4 = 0 /\ len = size \div 4
    /\ \A i \in 0 .. len - 1 : FindCardNumByVal(cards, val + i) >= 3

CheckStraight_3_2(cards, val, len) ==
    LET size == BagCardinality(cards)
        used == {l \in Lows : NumLow(cards, {l}) > 0} IN
    /\ size >= 10 /\ size % 5 = 0 /\ len = size \div 5
    /\ Cardinality(used) = 4 /\ \A l \in used : NumLow(cards, {l}) \in {2, 3}
    /\ \A i \in 0 .. len - 1 : FindCardNumByVal(cards, val + i) = 3

Check(p) ==
    \/ p.type = "SINGLE" /\ CheckSame(p.type, 1, p.cards, p.real)
    \/ p.type = "PAIR" /\ CheckSame(p.type, 2, p.cards, p.real)
    \/ p.type = "TRIPLE" /\ CheckSame(p.type, 3, p.cards, p.real)
    \/ p.type = "BOMB" /\ CheckSame(p.type, 4, p.cards, p.real)
    \/ p.type = "TRIPLE_1" /\ CheckTripleWithOne(p.cards, p.real)
    \/ p.type = "TRIPLE_2" /\ CheckTripleWithTwo(p.cards, p.real)
    \/ p.type = "QUADRUPLE_2" /\ CheckQuadrupleWithTwo(p.cards, p.real)
    \/ p.type = "QUADRUPLE_2_PAIR" /\ CheckQuadrupleWithTwoPair(p.cards, p.real)
    \/ p.type = "ROCKET" /\ CheckBombOfJoker(p.cards, p.real)
    \/ p.type = "STRAIGHT" /\ CheckStraight(1, p.cards, p.real, p.num)
    \/ p.type = "STRAIGHT_2" /\ CheckStraight(2, p.cards, p.real, p.num)
    \/ p.type = "STRAIGHT_3" /\ CheckStraight(3, p.cards, p.real, p.num)
    \/ p.type = "STRAIGHT_3_1" /\ CheckStraight_3_1(p.cards, p.real, p.num)
    \/ p.type = "STRAIGHT_3_2" /\ CheckStraight_3_2(p.cards, p.real, p.num)

-----------------------------------------------------------------------------
(* last is the play to beat, or NoPlay for a seat that leads.              *)
PrioCompare(last, p) ==
    \/ last.type = "UNKNOWN"
    \/ /\ TypeNum[p.type] > TypeNum[last.type] /\ TypeNum[p.type] >= SoftBombNum
    \/ /\ p.type = last.type /\ p.real > last.real
       /\ BagCardinality(p.cards) = BagCardinality(last.cards)

AnalyseFromCards(last, p) ==
    /\ BagCardinality(p.cards) > 0
    /\ Check(p)
    /\ p.type = "ROCKET" \/ PrioCompare(last, p)

=============================================================================
