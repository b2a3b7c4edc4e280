----------------------------- MODULE RobotPlay -----------------------------
(***************************************************************************)
(* The turns of one seat that the table plays by itself: a robot, which    *)
(* splits its hand into plays (AnalyzeModle) and lets its behaviour tree   *)
(* choose one (ActionBehaviorImp), or a player in trusteeship, for whom    *)
(* DoDefaultAction plays.  What they choose goes the way of a request:     *)
(* DetermineAction asks PokerLogic, and nothing happens when it refuses.   *)
(*                                                                         *)
(* The other seats are whatever they put on the table before the turn.     *)
(* Suits are left out; where the code goes by the card and not by its      *)
(* value, every value the suits allow is possible.                         *)
(***************************************************************************)
EXTENDS PokerLogic, Sequences, SequencesExt

CONSTANTS
    RobotHands,    \* the hands a robot may be dealt
    TrusteeHands,  \* the hands a player leaves to the table
    Plays          \* what the other seats may have played

(* Only plays the rules accept are ever on the table.                      *)
ASSUME PlaysAssumption == \A p \in Plays : AnalyseFromCards(NoPlay, p)

VARIABLES
    robot,     \* user().is_robot(); otherwise a player in trusteeship
    hand,      \* hand_cards
    residual,  \* residualCards: what the analysis has not placed yet
    cols,      \* shouCards, then shou_cols
    stage,     \* where the turn is
    prev,      \* the play to beat, NoPlay when the seat leads
    choice     \* the action in robot_action_buff or in the inner message
vars == <<robot, hand, residual, cols, stage, prev, choice>>

Pass == Play("PASS", 0, 0, EmptyBag)

Init ==
    /\ robot \in BOOLEAN
    /\ hand \in IF robot THEN RobotHands ELSE TrusteeHands
    /\ residual = hand
    /\ cols = <<>> /\ prev = NoPlay /\ choice = NoPlay
    /\ stage = IF robot THEN "analysing" ELSE "choosing"

-----------------------------------------------------------------------------
(* AnalyzeModle: the loop of AnalyzeSeatPaiZhang, one call of              *)
(* TryTransformShou a step.  The steps are tried in the order of Step.     *)

Cols == Range(cols)
OfType(type) == {c \in Cols : c.type = type}
LastVal(c) == c.real + c.num - 1

Held(n) == {v \in Vals : NumOf(v, residual) >= n}
Groups(n) == Held(n) \ Held(n + 1)
HasRocket == {SmallJoker, BigJoker} \subseteq Held(1)

(* How many values of V follow each other from v.                          *)
RowLength(V, v) == Cardinality({k \in 1 .. 12 : v .. v + k - 1 \subseteq V})

(* The run of values held n times that starts at v.  It ends at the ace,   *)
(* and a run of pairs after five values.                                   *)
RunLength(v, n) ==
    LET k == RowLength(Held(n) \cap 3 .. 14, v)
    IN  IF n = 1 \/ k <= 5 THEN k ELSE 5
RunStarts(n) ==
    LET V == Held(n) \cap 3 .. 14
    IN  {v \in V : RowLength(V, v) >= IF n = 1 THEN 5 ELSE 3}

(* How many triples of consecutive values start at v, up to the ace.       *)
TriplesFrom(v) == RowLength({c.real : c \in OfType("TRIPLE")} \ {Two}, v)
TripleStarts == {v \in 3 .. 13 : TriplesFrom(v) >= 2}

(* Two straights that share five values or more.                           *)
Doubled ==
    {ij \in (DOMAIN cols) \X (DOMAIN cols) :
        /\ ij[1] # ij[2]
        /\ \A k \in {1, 2} : cols[ij[k]].type = "STRAIGHT"
        /\ cols[ij[1]].real <= cols[ij[2]].real
        /\ LastVal(cols[ij[1]]) >= cols[ij[2]].real + 4}

Step ==
    CASE HasRocket -> "rocket"
      [] Groups(4) # {} -> "bomb"
      [] Groups(3) # {} -> "triple"
      [] TripleStarts # {} -> "join triples"
      [] RunStarts(1) # {} -> "straight"
      [] RunStarts(2) # {} -> "straight of pairs"
      [] Doubled # {} -> "join straights"
      [] Groups(2) # {} -> "pair"
      [] Groups(1) # {} -> "single"
      [] OTHER -> "end"

Analysing(step) ==
    /\ stage = "analysing" /\ Step = step
    /\ UNCHANGED <<robot, hand, prev, choice>>

(* CreateShouFromCards                                                     *)
Take(p) ==
    /\ cols' = Append(cols, p)
    /\ residual' = residual (-) p.cards
    /\ UNCHANGED stage

TakeRocket ==
    /\ Analysing("rocket")
    /\ Take(Play("ROCKET", SmallJoker, 1, Row(SmallJoker, 2, 1)))

TakeGroup(n, step, type) ==
    /\ Analysing(step)
    /\ LET v == Min(Groups(n)) IN Take(Play(type, v, 1, Copies(v, n)))

TakeRun(n, step, type) ==
    /\ Analysing(step)
    /\ LET v == Min(RunStarts(n))
           k == RunLength(v, n)
       IN  Take(Play(type, v, k, Row(v, k, n)))

(* CreateShouFromOtherShou                                                 *)
JoinTriples ==
    /\ Analysing("join triples")
    /\ LET v == Min(TripleStarts)
           k == TriplesFrom(v)
           Rest(c) == ~(c.type = "TRIPLE" /\ c.real \in v .. v + k - 1)
       IN  cols' = Append(SelectSeq(cols, Rest),
                          Play("STRAIGHT_3", v, k, Row(v, k, 3)))
    /\ UNCHANGED <<residual, stage>>

(* What two straights share becomes a straight of pairs; what is left of   *)
(* them goes back to the residual cards.                                   *)
Joined(a, b) ==
    LET k == Min({LastVal(a), LastVal(b)}) - b.real + 1
    IN  Play("STRAIGHT_2", b.real, k, Row(b.real, k, 2))
M_MergeLoses(rest, a, b) ==
    [cols |-> Append(rest, Joined(a, b)),
     back |-> a.cards (-) Joined(a, b).cards]
M_MergeForgets(rest, a, b) ==
    [cols |-> rest, back |-> a.cards (+) b.cards]
Merge(rest, a, b) ==
    [cols |-> Append(rest, Joined(a, b)),
     back |-> (a.cards (+) b.cards) (-) Joined(a, b).cards]
JoinStraights ==
    /\ Analysing("join straights")
    /\ \E ij \in Doubled :
          LET a == cols[ij[1]]
              b == cols[ij[2]]
              rest == RemoveAt(RemoveAt(cols, Max({ij[1], ij[2]})),
                               Min({ij[1], ij[2]}))
          IN  /\ cols' = Merge(rest, a, b).cols
              /\ residual' = residual (+) Merge(rest, a, b).back
    /\ UNCHANGED stage

AnalysisOver ==
    /\ Analysing("end")
    /\ stage' = "choosing"
    /\ UNCHANGED <<residual, cols>>

Analyze ==
    \/ TakeRocket
    \/ TakeGroup(4, "bomb", "BOMB")
    \/ TakeGroup(3, "triple", "TRIPLE")
    \/ JoinTriples
    \/ TakeRun(1, "straight", "STRAIGHT")
    \/ TakeRun(2, "straight of pairs", "STRAIGHT_2")
    \/ JoinStraights
    \/ TakeGroup(2, "pair", "PAIR")
    \/ TakeGroup(1, "single", "SINGLE")
    \/ AnalysisOver

-----------------------------------------------------------------------------
(* The nodes of the behaviour tree.  Each is the set of plays it may       *)
(* choose, empty when its Process returns false.                           *)

Least(C) == {c \in C : \A d \in C : c.real <= d.real}
Greatest(C) == {c \in C : \A d \in C : c.real >= d.real}
Reals(type) == {c.real : c \in OfType(type)}
Bombs == OfType("BOMB") \cup OfType("ROCKET")

(* The least k values of V.                                                *)
LeastOf(V, k) == {v \in V : Cardinality({w \in V : w < v}) < k}
Each(V, n) == [v \in V |-> n]

(* The first node that chooses something.                                  *)
FirstOf(nodes) == nodes[Min({i \in DOMAIN nodes : nodes[i] # {}})]

(* ChupaiNode: the seat leads.                                             *)

(* A bomb is led only as the last play but, as every play counts as one    *)
(* that is no bomb, never while there are two.                             *)
LeadBomb(type) == IF Len(cols) > 1 THEN {} ELSE OfType(type)

(* Twos are held back while there is something else to play.               *)
OthersThan(c) == Cardinality(Cols \ (Bombs \cup {c}))

(* Only singles below the twos are carried: GetCardLogicVal(-1) is 15.     *)
LeadTriple ==
    LET kickers == {v \in Reals("SINGLE") : v < Two} IN
    UNION {
        IF kickers # {} /\ (c.real = Two => OthersThan(c) <= 1)
        THEN {Play("TRIPLE_1", c.real, c.num, c.cards (+) Copies(Min(kickers), 1))}
        ELSE IF c.real = Two /\ OthersThan(c) > 0 THEN {} ELSE {c}
        : c \in Least(OfType("TRIPLE"))}

(* n of the singles in the order of the cards, jokers last.                *)
Kickers(S, n) ==
    {K \in kSubset(n, S) :
        \A v \in K, w \in S \ K : v >= SmallJoker => w > v}

LeadStraight_3 ==
    LET longest == {c \in OfType("STRAIGHT_3") :
                        \A d \in OfType("STRAIGHT_3") : c.num >= d.num}
        S == Reals("SINGLE")
        P == Reals("PAIR")
        Carry(c, type, cards) == Play(type, c.real, c.num, c.cards (+) cards)
        (* ceil(n / 2), but one at least *)
        PairsFor(n) == LeastOf(P, IF n < 1 THEN 1 ELSE (n + 1) \div 2)
    IN UNION {
        LET n == c.num IN
        IF Cardinality(S) >= n
        THEN {Carry(c, "STRAIGHT_3_1", Each(K, 1)) : K \in Kickers(S, n)}
        ELSE IF S # {} /\ Cardinality(S) + 2 * Cardinality(P) >= n
        THEN {Carry(c, "STRAIGHT_3_1", Each(PairsFor(n \div 2), 2) (+)
                    Each(IF n % 2 = 1 THEN {Min(S)} ELSE {}, 1))}
        ELSE IF S = {} /\ Cardinality(P) >= n
        THEN {Carry(c, "STRAIGHT_3_2", Each(PairsFor(n), 2))}
        ELSE {c}
        : c \in Least(longest)}

LeadPair ==
    {c \in Least(OfType("PAIR")) : c.real = Two => OthersThan(c) = 0}

(* The least single, or the greatest when another seat has one card left.  *)
(* Without a single an empty play is chosen all the same.                  *)
LeadSingle ==
    LET S == OfType("SINGLE")
    IN  IF S = {} THEN {NoPlay} ELSE Least(S) \cup Greatest(S)

Lead ==
    FirstOf(<<LeadBomb("BOMB"), LeadBomb("ROCKET"), LeadTriple, LeadStraight_3,
              Least(OfType("STRAIGHT")), Least(OfType("STRAIGHT_2")),
              LeadPair, LeadSingle>>)

-----------------------------------------------------------------------------
(* GenPaiNode: the seat follows the play p of another seat.                *)

(* A triple, or else one split off a run of triples, with what p carries.  *)
(* Separate3TiaoFrom3Shun gives the split one no type.                     *)
FollowTriple(p) ==
    LET own == Greatest({c \in OfType("TRIPLE") : c.real > p.real})
        runs == Greatest({c \in OfType("STRAIGHT_3") : LastVal(c) > p.real})
        split == {LET v == Max({c.real, p.real + 1})
                  IN  Play("UNKNOWN", v, 1, Copies(v, 3)) : c \in runs}
        triples == IF own # {} THEN own ELSE split
        With(c, type, kickers) ==
            {Play(type, c.real, c.num, c.cards (+) k.cards) : k \in Least(kickers)}
    IN UNION {
        CASE p.type = "TRIPLE" -> {c}
          [] p.type = "TRIPLE_1" -> With(c, p.type, OfType("SINGLE"))
          [] p.type = "TRIPLE_2" -> With(c, p.type, OfType("PAIR"))
          [] OTHER -> {} : c \in triples}

(* A run of triples that starts above p, cut to its length.  Where pairs   *)
(* are to be carried all are, and where they are too few or singles are    *)
(* to be carried, singles or the least pair make a STRAIGHT_3_1.           *)
FollowStraight_3(p) ==
    LET S == Reals("SINGLE")
        P == Reals("PAIR")
        n == p.num
        runs == Greatest({c \in OfType("STRAIGHT_3") :
                            c.real > p.real /\ c.num >= n})
        Carry(c, type, cards) ==
            {Play(type, c.real, n, Row(c.real, n, 3) (+) cards)}
    IN UNION {
        IF p.type = "STRAIGHT_3" THEN Carry(c, p.type, EmptyBag)
        ELSE IF p.type \notin {"STRAIGHT_3_1", "STRAIGHT_3_2"} THEN {}
        ELSE IF p.type = "STRAIGHT_3_2" /\ Cardinality(P) >= n
        THEN Carry(c, p.type, Each(P, 2))
        ELSE IF Cardinality(S) >= n
        THEN Carry(c, "STRAIGHT_3_1", Each(LeastOf(S, n), 1))
        ELSE IF P # {}
        THEN Carry(c, "STRAIGHT_3_1", Each(LeastOf(P, 1), 2))
        ELSE {}
        : c \in runs}

(* The values of the run c that answer p, from the first above p.          *)
M_CutFrom(c, p) == IF c.real <= p.real THEN p.real ELSE c.real
CutFrom(c, p) == IF c.real <= p.real THEN p.real + 1 ELSE c.real
Cut(c, p, n) == Play(p.type, CutFrom(c, p), p.num, Row(CutFrom(c, p), p.num, n))

(* First a straight of the length of p, of one card each, two or three,    *)
(* then a longer one.  The least that may do is looked at, and left when   *)
(* it is too short above p.                                                *)
FollowStraight(p) ==
    LET Same(type) ==
            {Cut(c, p, 1) : c \in Least({d \in OfType(type) :
                                d.num = p.num /\ d.real > p.real})}
        Longer(type) ==
            {Cut(c, p, 1) : c \in {d \in Least({e \in OfType(type) :
                                e.num >= p.num /\ LastVal(e) - p.num + 1 >= p.real}) :
                                CutFrom(d, p) + p.num - 1 <= LastVal(d)}}
    IN  IF p.type # "STRAIGHT" THEN {}
        ELSE FirstOf(<<Same("STRAIGHT"), Same("STRAIGHT_2"), Same("STRAIGHT_3"),
                       Longer("STRAIGHT"), Longer("STRAIGHT_2"),
                       Longer("STRAIGHT_3"), {Pass}>>) \ {Pass}

FollowStraight_2(p) ==
    IF p.type # "STRAIGHT_2" THEN {}
    ELSE {Cut(c, p, 2) : c \in Least({d \in OfType("STRAIGHT_2") :
                d.num >= p.num /\ LastVal(d) - p.num + 1 > p.real})}

FollowGroup(p, type) ==
    IF p.type # type THEN {}
    ELSE Least({c \in OfType(type) : c.real > p.real})

(* Against a mate (both are farmers) twos, jokers and bombs are kept.      *)
FollowSingle(p, mate) ==
    {c \in FollowGroup(p, "SINGLE") : mate => c.real < Two}
FollowBomb(p, mate) ==
    IF mate \/ p.type = "ROCKET" THEN {}
    ELSE Least({c \in OfType("BOMB") : p.type = "BOMB" => c.real >= p.real})
FollowRocket(mate) == IF mate THEN {} ELSE OfType("ROCKET")

Follow(p, mate) ==
    FirstOf(<<FollowTriple(p), FollowStraight_3(p), FollowStraight(p),
              FollowStraight_2(p), FollowGroup(p, "PAIR"), FollowSingle(p, mate),
              FollowBomb(p, mate), FollowRocket(mate), {Pass}>>)

-----------------------------------------------------------------------------
(* One deck.                                                               *)
Dealt(cards) ==
    \A v \in DOMAIN cards : cards[v] <= IF v >= SmallJoker THEN 1 ELSE 4

(* The tree runs when the choice is offered.  A farmer may leave the trick *)
(* to a mate who has hardly any plays left (GenpaiBehaviorNode::Judge).    *)
RobotChoose ==
    /\ stage = "choosing" /\ robot
    /\ \/ prev' = NoPlay /\ choice' \in Lead
       \/ \E p \in Plays, mate \in BOOLEAN :
            /\ Dealt(hand (+) p.cards)
            /\ prev' = p
            /\ choice' \in Follow(p, mate) \cup IF mate THEN {Pass} ELSE {}
    /\ stage' = "chosen"
    /\ UNCHANGED <<robot, hand, residual, cols>>

(* DoDefaultAction passes where it may, at the first lead of a round too,  *)
(* and else plays the first card.  Hands are sorted by suit with the       *)
(* jokers last, but the dealer takes three more cards behind them.         *)
FirstCards ==
    {v \in DOMAIN hand :
        v >= SmallJoker => BagCardinality(hand) - FindJokerNum(hand) <= 3}
GetRealValue(v) == IF GetLow(v) = 2 THEN Two ELSE GetLow(v)
DoDefaultAction ==
    /\ stage = "choosing" /\ ~robot
    /\ \/ choice' = Pass
       \/ \E v \in FirstCards :
            choice' = Play("SINGLE", GetRealValue(v), 1, Copies(v, 1))
    /\ stage' = "chosen"
    /\ UNCHANGED <<robot, hand, residual, cols, prev>>

(* CInterEventAutoDoAction: a play that IsPlayerAbleDoAction or            *)
(* DetermineAction refuses changes nothing, and nobody asks again.         *)
InterEventAutoDoAction ==
    LET able == choice = Pass \/ DOMAIN choice.cards \subseteq DOMAIN hand
        left == IF choice = Pass THEN hand ELSE hand (-) choice.cards
    IN
    /\ stage = "chosen"
    /\ IF able /\ (choice # Pass => AnalyseFromCards(prev, choice))
       THEN /\ hand' = left /\ residual' = left /\ cols' = <<>>
            /\ prev' = NoPlay /\ choice' = NoPlay
            /\ stage' = IF left = EmptyBag THEN "out"
                        ELSE IF robot THEN "analysing" ELSE "choosing"
       ELSE stage' = "refused" /\ UNCHANGED <<hand, residual, cols, prev, choice>>
    /\ UNCHANGED robot

Next == Analyze \/ RobotChoose \/ DoDefaultAction \/ InterEventAutoDoAction

Spec == Init /\ [][Next]_vars

(* The loop of AnalyzeSeatPaiZhang runs on while it has a step.            *)
FairSpec == Spec /\ WF_vars(Analyze)

-----------------------------------------------------------------------------
(* The hand is at all times what the analysis has placed and what it has   *)
(* not, though plays are joined, cut and given back; and what the tree     *)
(* then chooses, cut and carried along from other plays, is in the hand.   *)
SplitsHand ==
    /\ robot => \A v \in Vals :
          NumOf(v, hand) =
          FoldSeq(LAMBDA c, n : n + NumOf(v, c.cards), NumOf(v, residual), cols)
    /\ choice.cards \sqsubseteq hand

(* Every answer of a robot is accepted, whatever the hand and whatever it  *)
(* answers, but for two kinds after which nobody would act any more: one   *)
(* in which a run of triples is split or carries pairs, and a lead with    *)
(* nothing but bombs; and every card of a trusteeship but a joker.         *)
RefusalsKnown ==
    stage = "refused" =>
        \/ /\ robot /\ OfType("STRAIGHT_3") # {}
           /\ \/ prev.type = "TRIPLE"
              \/ prev.type \in {"UNKNOWN", "STRAIGHT_3_1"} /\ OfType("PAIR") # {}
              \/ prev.type = "STRAIGHT_3_2"
        \/ robot /\ prev = NoPlay /\ Cols \subseteq Bombs
        \/ ~robot /\ FindJokerNum(choice.cards) = 1

(* The analysis ends, although joining straights gives cards back to it.   *)
AnalysisEnds == stage = "analysing" ~> stage = "choosing"

=============================================================================
