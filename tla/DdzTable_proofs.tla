--------------------------- MODULE DdzTable_proofs ---------------------------
(***************************************************************************)
(* Theorems about DdzTable, for every hand size, number of rounds and      *)
(* choice of who sits, trusts and leaves.                                  *)
(*                                                                         *)
(* 1. SingleTurn is not inductive: that nobody else has choices when a     *)
(* seat is asked rests on the reset before each AddChoise, and that        *)
(* DoAction runs to its own reset rests on DetermineAction finding the     *)
(* seat's play as the last flow entry.  The invariant Good keeps the three *)
(* together, and the first lemmas take it through the operators in the     *)
(* order of the call graph (IInv).                                         *)
(*                                                                         *)
(* 2. What each operator does is then said by a relation of two tables     *)
(* (Asking, Fresh, Led, Follows, Played, Passed, BidNo, BidYes, ...), and  *)
(* TableSteps finds each step of the specification among a few of them     *)
(* (TableStep).  The invariants of a round are proved from those.          *)
(*                                                                         *)
(* 3. Orderly is the invariant of a round: where the bidding and the play  *)
(* of an intact table are, and that there is one baton.  A round can start *)
(* while the OVER event of the one before is still queued (OldEvent); with *)
(* two events between two drains it is in order again when that event is   *)
(* drained (Late), with more it need not be.                               *)
(*                                                                         *)
(* 4. From it follow the trick, the baton, the refinement of DdzRules and  *)
(* that a round of players moves, up to a play that the card rules refuse. *)
(***************************************************************************)
EXTENDS DdzTable, FiniteSetTheorems, TLAPS

(* A table of the right type whose dealer and caller can be indexed.       *)
Sound(t) == t \in TableRec /\ t.dealer \in Seats /\ t.jiao \in Seats

(* t and u have the same turn open and the same action flow.               *)
SameTurn(t, u) ==
    /\ u.op = t.op /\ u.flow = t.flow
    /\ \A s \in Seats : /\ u.seats[s].choices = t.seats[s].choices
                        /\ u.seats[s].det = t.seats[s].det

(* No seat is asked for anything.                                          *)
NoTurn(t) ==
    \A s \in Seats : t.seats[s].choices = {} /\ t.seats[s].det = FALSE

(* At most the seat at operation_index is asked, no choice is left half   *)
(* done, and a seat that may play finds its play open in the flow.         *)
OneTurn(t) ==
    \A s \in Seats :
        /\ t.seats[s].choices # {} => s = t.op
        /\ t.seats[s].det = FALSE
        /\ "CHUPAI" \in t.seats[s].choices =>
               t.flow.act = "CHUPAI" /\ t.flow.seat = s

(* What holds of the table between two handlers.                           *)
Good(t) ==
    /\ t \in TableRec
    /\ t.state # "UB" => t.dealer \in Seats /\ t.jiao \in Seats
    /\ OneTurn(t)

(* A change that touches neither the turn nor the flow (SameTurn) leaves   *)
(* at most one seat with choices.                                          *)
LEMMA SameOneTurn ==
    ASSUME NEW t, NEW u, SameTurn(t, u), OneTurn(t)
    PROVE  OneTurn(u)
BY DEF SameTurn, OneTurn

(* A sound table is good: it never stands for a process that indexed       *)
(* seats(-1).                                                              *)
LEMMA SoundGood ==
    ASSUME NEW t, Sound(t), OneTurn(t)
    PROVE  Good(t)
BY DEF Sound, Good

(* PushInnerMsg only lengthens the inner queue.                            *)
LEMMA PushSound ==
    ASSUME NEW t, NEW m \in InnerMsg, Sound(t)
    PROVE  /\ Sound(PushInnerMsg(t, m))
           /\ SameTurn(t, PushInnerMsg(t, m))
<1>1. t.inner \in Seq(InnerMsg)  BY DEF Sound, TableRec
<1>2. Append(t.inner, m) \in Seq(InnerMsg)  BY <1>1
<1>. QED  BY <1>1, <1>2 DEF Sound, SameTurn, TableRec, PushInnerMsg

(* Every message the table pushes is an inner message.                     *)
LEMMA MsgTypes ==
    /\ \A type \in {2, 6} : OverMsg(type) \in InnerMsg
    /\ [cmd |-> "RECORD"] \in InnerMsg
    /\ [cmd |-> "DISSOLVE"] \in InnerMsg
    /\ [cmd |-> "RESULT"] \in InnerMsg
    /\ \A s \in Seats, a \in ActTypes, k \in Nat, n \in Nat :
           AutoMsg(s, a, k, n) \in InnerMsg
BY DEF InnerMsg, OverMsg, AutoMsg

(* The seat after a seat, as CheckSingleOver and the turns compute it, is  *)
(* a seat.                                                                 *)
LEMMA NextSeatType == \A s \in Seats : NextSeat(s) \in Seats
BY DEF Seats, NextSeat, SeatNum

(* A nonempty set of seats has a first one: the loops over the seats from  *)
(* 0 up find it.                                                           *)
LEMMA LeastSeat ==
    ASSUME NEW S \in SUBSET Seats, S # {}
    PROVE  \E i \in S : \A j \in S : i <= j
<1>1. \A j \in S : j \in {0, 1, 2}  BY DEF Seats, SeatNum
<1>2. CASE 0 \in S
  <2>1. \A j \in S : 0 <= j  BY <1>1
  <2>. QED  BY <1>2, <2>1
<1>3. CASE 0 \notin S /\ 1 \in S
  <2>1. \A j \in S : 1 <= j  BY <1>1, <1>3
  <2>. QED  BY <1>3, <2>1
<1>4. CASE 0 \notin S /\ 1 \notin S
  <2>1. \A j \in S : j = 2  BY <1>1, <1>4
  <2>2. 2 \in S  BY <2>1
  <2>. QED  BY <2>1, <2>2
<1>. QED  BY <1>2, <1>3, <1>4

(* ResetPlayerChoice leaves nobody with choices.                           *)
LEMMA ResetSound ==
    ASSUME NEW t, Sound(t)
    PROVE  /\ Sound(ResetPlayerChoice(t))
           /\ \A s \in Seats : /\ ResetPlayerChoice(t).seats[s].choices = {}
                               /\ ResetPlayerChoice(t).seats[s].det = FALSE
<1> DEFINE f == [s \in Seats |-> [t.seats[s] EXCEPT !.choices = {}, !.det = FALSE]]
<1>1. ASSUME NEW s \in Seats PROVE f[s] \in SeatRec /\ f[s].choices = {} /\ f[s].det = FALSE
  BY t.seats[s] \in SeatRec DEF Sound, TableRec, SeatRec
<1>2. f \in [Seats -> SeatRec]  BY <1>1
<1>3. ResetPlayerChoice(t) = [t EXCEPT !.seats = f]  BY DEF ResetPlayerChoice
<1>. HIDE DEF f
<1>. QED  BY <1>1, <1>2, <1>3 DEF Sound, TableRec

(* DoDefaultAction trusts the seat and pushes its action; the turn stays   *)
(* as it is until the action is drained.                                   *)
LEMMA DefaultSound ==
    ASSUME NEW t, NEW s \in Seats, Sound(t)
    PROVE  /\ Sound(DoDefaultAction(t, s))
           /\ SameTurn(t, DoDefaultAction(t, s))
<1> DEFINE u == [t EXCEPT !.seats[s].trust = TRUE]
           cs == t.seats[s].choices
           act == IF cs \cap PassActs # {} THEN CHOOSE a \in cs : a \in PassActs
                  ELSE CHOOSE a \in cs : TRUE
           cards == IF act = "CHUPAI" /\ t.seats[s].hand >= 1 THEN 1 ELSE 0
<1>1. t.seats[s] \in SeatRec  BY DEF Sound, TableRec
<1>2. Sound(u) /\ SameTurn(t, u)
  BY <1>1 DEF Sound, SameTurn, TableRec, SeatRec
<1>3. CASE cs = {}  BY <1>2, <1>3 DEF DoDefaultAction
<1>4. CASE cs # {}
  <2>1. act \in cs  BY <1>4
  <2>2. act \in ActTypes  BY <1>1, <2>1 DEF SeatRec
  <2>3. cards \in Nat /\ t.seats[s].token \in Nat  BY <1>1 DEF SeatRec
  <2>. DEFINE m == AutoMsg(s, act, cards, t.seats[s].token)
  <2>4. m \in InnerMsg  BY <2>2, <2>3, MsgTypes
  <2>5. DoDefaultAction(t, s) = PushInnerMsg(u, m)  BY <1>4 DEF DoDefaultAction
  <2>6. Sound(PushInnerMsg(u, m)) /\ SameTurn(u, PushInnerMsg(u, m))
    <3>. HIDE DEF u, m
    <3>. QED  BY <1>2, <2>4, PushSound
  <2>. HIDE DEF u, m
  <2>. QED  BY <1>2, <2>5, <2>6 DEF SameTurn
<1>. QED  BY <1>3, <1>4

(* NotifyOperationChoiceForSeat starts a timer and changes nothing else.   *)
LEMMA NotifySound ==
    ASSUME NEW t, NEW s \in Seats, Sound(t)
    PROVE  /\ Sound(NotifyOperationChoice(t, s))
           /\ SameTurn(t, NotifyOperationChoice(t, s))
BY DEF Sound, SameTurn, TableRec, NotifyOperationChoice

(* The behaviour tree fills the robot buffer of its own seat and starts    *)
(* the robot timer.                                                        *)
LEMMA RobotSound ==
    ASSUME NEW t, NEW s \in Seats, NEW pick, Sound(t)
    PROVE  /\ Sound(RobotDoAction(t, s, pick))
           /\ SameTurn(t, RobotDoAction(t, s, pick))
<1> DEFINE found == {a \in t.seats[s].choices :
                       pick = IF a \in PassActs THEN "pass" ELSE "play"}
           a == CHOOSE a \in found : TRUE
           u == IF found = {} THEN t ELSE [t EXCEPT !.seats[s].buff = a]
<1>1. t.seats[s] \in SeatRec  BY DEF Sound, TableRec
<1>2. found # {} => a \in ActTypes
  <2>1. found # {} => a \in found  OBVIOUS
  <2>. QED  BY <1>1, <2>1 DEF SeatRec
<1>3. Sound(u) /\ SameTurn(t, u)
  <2>1. CASE found = {}  BY <2>1 DEF SameTurn
  <2>2. CASE found # {}
    <3>1. a \in ActTypes  BY <1>2, <2>2
    <3>2. u = [t EXCEPT !.seats[s].buff = a]  BY <2>2
    <3>. HIDE DEF u, a, found
    <3>. QED  BY <1>1, <3>1, <3>2 DEF Sound, SameTurn, TableRec, SeatRec
  <2>. QED  BY <2>1, <2>2
<1>4. RobotDoAction(t, s, pick) =
        IF u.seats[s].buff = NoAct THEN u ELSE [u EXCEPT !.robot_timer = TRUE]
  BY DEF RobotDoAction
<1>. HIDE DEF u
<1>. QED  BY <1>3, <1>4 DEF Sound, SameTurn, TableRec

(* Whoever was just offered choices, asking it leaves the turn as it is.   *)
LEMMA AfterAddSound ==
    ASSUME NEW t, NEW s \in Seats, NEW pick, Sound(t)
    PROVE  /\ Sound(OnOperateAfterAddChoice(t, s, pick))
           /\ SameTurn(t, OnOperateAfterAddChoice(t, s, pick))
BY DefaultSound, NotifySound, RobotSound DEF OnOperateAfterAddChoice

(* AddChoise gives a seat the choices it is asked for under a new token.   *)
LEMMA AskedType ==
    ASSUME NEW seat \in SeatRec, NEW acts \in SUBSET ActTypes
    PROVE  /\ Asked(seat, acts) \in SeatRec
           /\ Asked(seat, acts).choices = acts
           /\ Asked(seat, acts).det = seat.det
<1>1. seat.token + 1 \in Nat  BY DEF SeatRec
<1>. QED  BY <1>1 DEF Asked, SeatRec

(* From a table where nobody has choices, one step of the bidding leaves   *)
(* the asked seat alone with some.                                         *)
LEMMA OfferSound ==
    ASSUME NEW t, NEW s \in Seats, NEW pick, Sound(t), NoTurn(t),
           NEW acts \in SUBSET (ActTypes \ {"CHUPAI"})
    PROVE  /\ Sound(OfferBid(t, s, acts, pick))
           /\ OneTurn(OfferBid(t, s, acts, pick))
<1> DEFINE f == [t.seats EXCEPT ![s] = Asked(t.seats[s], acts)]
           u == [t EXCEPT !.op = s, !.seats = f]
<1>1. t.seats \in [Seats -> SeatRec]  BY DEF Sound, TableRec
<1>2. acts \in SUBSET ActTypes  OBVIOUS
<1>3. f \in [Seats -> SeatRec]  BY <1>1, <1>2, AskedType
<1>4. \A r \in Seats : /\ f[r].choices # {} => r = s
                       /\ f[r].det = FALSE
                       /\ "CHUPAI" \notin f[r].choices
  BY <1>1, <1>2, AskedType DEF NoTurn
<1>5. OfferBid(t, s, acts, pick) = OnOperateAfterAddChoice(u, s, pick)
  BY DEF OfferBid
<1>. HIDE DEF f
<1>6. Sound(u) /\ u.op = s /\ u.seats = f  BY <1>3 DEF Sound, TableRec
<1>. HIDE DEF u
<1>7. OneTurn(u)  BY <1>4, <1>6 DEF OneTurn
<1>. QED  BY <1>5, <1>6, <1>7, AfterAddSound, SameOneTurn

(* So does the first turn of a seat in GameStart_2, which also moves       *)
(* jiao_dizhu_index on.                                                    *)
LEMMA FirstBidSound ==
    ASSUME NEW t, NEW s \in Seats, NEW pick, Sound(t), NoTurn(t)
    PROVE  /\ Sound(FirstBid(t, s, pick))
           /\ OneTurn(FirstBid(t, s, pick))
<1> DEFINE u == [t EXCEPT !.jiao = NextSeat(s)]
<1>1. Sound(u)  BY NextSeatType DEF Sound, TableRec
<1>2. NoTurn(u)  BY DEF Sound, TableRec, NoTurn
<1>3. /\ {"JIAO", "BU_JIAO"} \in SUBSET (ActTypes \ {"CHUPAI"})
      /\ {"QIANG", "BU_QIANG"} \in SUBSET (ActTypes \ {"CHUPAI"})
  BY DEF ActTypes, PassActs, CallActs
<1>4. FirstBid(t, s, pick) =
        IF t.jiao = s THEN OfferBid(u, s, {"JIAO", "BU_JIAO"}, pick)
        ELSE OfferBid(t, s, {"QIANG", "BU_QIANG"}, pick)
  BY DEF FirstBid
<1>. HIDE DEF u
<1>. QED  BY <1>1, <1>2, <1>3, <1>4, OfferSound

(* AppendActionFlow changes the action flow only, and the entry it appends *)
(* is the last one.                                                        *)
LEMMA FlowType ==
    ASSUME NEW t, NEW s \in Seats, NEW act \in ActTypes, NEW over \in BOOLEAN,
           Sound(t)
    PROVE  /\ Sound(AppendActionFlow(t, s, act, over))
           /\ AppendActionFlow(t, s, act, over).seats = t.seats
           /\ AppendActionFlow(t, s, act, over).state = t.state
           /\ AppendActionFlow(t, s, act, over).op = t.op
           /\ AppendActionFlow(t, s, act, over).dealer2 = t.dealer2
           /\ AppendActionFlow(t, s, act, over).flow.act = act
           /\ AppendActionFlow(t, s, act, over).flow.seat = s
<1> DEFINE f == AppendActionFlow(t, s, act, over).flow
<1>1. t.flow \in FlowRec  BY DEF Sound, TableRec
<1>2. f \in FlowRec /\ f.act = act /\ f.seat = s
  BY <1>1 DEF AppendActionFlow, FlowRec, Sound, TableRec
<1>3. AppendActionFlow(t, s, act, over) = [t EXCEPT !.flow = f]
  BY DEF AppendActionFlow, Sound, TableRec
<1>. HIDE DEF f
<1>. QED  BY <1>2, <1>3 DEF Sound, TableRec

(* GameStart_1 deals the round over: with a dealer the round opens with    *)
(* one turn; without one (last_winner = -1) the table is lost, and no      *)
(* other field of it is ill typed.                                         *)
LEMMA StartSound ==
    ASSUME NEW t \in TableRec, NEW r \in Int, r + 1 \in Nat,
           NEW drawn \in Seats, NEW pick
    PROVE  Good(GameStart_1([t EXCEPT !.round = r], drawn, pick))
<1> DEFINE v == [t EXCEPT !.round = r]
           f == [s \in Seats |-> DealtSeat(v.seats[s])]
           dealer == IF r + 1 = 1 THEN drawn ELSE v.last_winner
           dealt == [v EXCEPT !.round = r + 1, !.state = "WAIT_QIANG",
                              !.flow = NoFlow, !.dealer = dealer,
                              !.jiao = dealer, !.dealer2 = NoSeat,
                              !.last_winner = NoSeat, !.op = NoSeat, !.seats = f]
<1>1. ASSUME NEW s \in Seats
      PROVE  f[s] \in SeatRec /\ f[s].choices = {} /\ f[s].det = FALSE
  <2>1. v.seats[s] \in SeatRec  BY DEF TableRec
  <2>. QED  BY <2>1, TableAssumption DEF DealtSeat, SeatRec, SeatStates
<1>2. f \in [Seats -> SeatRec]  BY <1>1
<1>3. dealer \in Seats \cup {NoSeat}  BY DEF TableRec
<1>4. NoFlow \in FlowRec  BY DEF NoFlow, FlowRec, Seats, SeatNum
<1>5. GameStart_1(v, drawn, pick) =
        IF dealer = NoSeat THEN [dealt EXCEPT !.state = "UB"]
        ELSE FirstBid(dealt, dealer, pick)
  BY DEF GameStart_1, TableRec
<1>6. /\ dealt \in TableRec /\ [dealt EXCEPT !.state = "UB"] \in TableRec
      /\ dealt.dealer = dealer /\ dealt.jiao = dealer /\ dealt.seats = f
      /\ [dealt EXCEPT !.state = "UB"].state = "UB"
      /\ [dealt EXCEPT !.state = "UB"].seats = f
  <2>. HIDE DEF f, dealer
  <2>. QED  BY <1>2, <1>3, <1>4 DEF TableRec, TableStates
<1>7. CASE dealer = NoSeat
  <2>. HIDE DEF dealt, dealer, f
  <2>. QED  BY <1>1, <1>5, <1>6, <1>7 DEF Good, OneTurn
<1>8. CASE dealer # NoSeat
  <2>1. dealer \in Seats  BY <1>3, <1>8
  <2>. HIDE DEF dealt, dealer, f
  <2>2. Sound(dealt) /\ NoTurn(dealt)  BY <1>1, <1>6, <2>1 DEF Sound, NoTurn
  <2>. QED  BY <1>5, <1>8, <2>1, <2>2, FirstBidSound, SoundGood
<1>. QED  BY <1>7, <1>8

(* GameStart_3 gives the turn to the landlord, with its play open in the   *)
(* flow.                                                                   *)
LEMMA LandlordSound ==
    ASSUME NEW t, NEW pick, Sound(t), t.dealer2 # NoSeat
    PROVE  Sound(GameStart_3(t, pick)) /\ OneTurn(GameStart_3(t, pick))
<1> DEFINE lord == t.dealer2
           c == ResetPlayerChoice(t)
           u == [c EXCEPT !.dealer = lord, !.dealer2 = t.dealer, !.op = lord,
                          !.state = "PLAYING", !.seats[lord].hand = @ + BottomSize]
           f == [u.seats EXCEPT ![lord] = Asked(u.seats[lord], {"CHUPAI"})]
           v == [u EXCEPT !.seats = f]
           a == AppendActionFlow(v, lord, "CHUPAI", FALSE)
<1>1. lord \in Seats  BY DEF Sound, TableRec
<1>2. Sound(c) /\ NoTurn(c)  BY ResetSound DEF NoTurn
<1>3. GameStart_3(t, pick) = OnOperateAfterAddChoice(a, lord, pick)
  BY DEF GameStart_3
<1>. HIDE DEF c
<1>4. c.seats \in [Seats -> SeatRec]  BY <1>2 DEF Sound, TableRec
<1>5. c.seats[lord].hand + BottomSize \in Nat
  BY <1>1, <1>4, TableAssumption DEF SeatRec
<1>6. Sound(u) /\ NoTurn(u) /\ u.op = lord
  <2> DEFINE h == [c.seats[lord] EXCEPT !.hand = @ + BottomSize]
             g == [c.seats EXCEPT ![lord] = h]
  <2>1. /\ h \in SeatRec /\ h.choices = c.seats[lord].choices
        /\ h.det = c.seats[lord].det
    BY <1>1, <1>4, <1>5 DEF SeatRec
  <2>2. u = [c EXCEPT !.dealer = lord, !.dealer2 = t.dealer, !.op = lord,
                      !.state = "PLAYING", !.seats = g]
    OBVIOUS
  <2>. HIDE DEF u, h, lord
  <2>4. g \in [Seats -> SeatRec]  BY <1>1, <1>4, <2>1
  <2>5. \A s \in Seats : g[s].choices = {} /\ g[s].det = FALSE
    BY <1>1, <1>2, <1>4, <2>1 DEF NoTurn
  <2>. HIDE DEF g
  <2>3. t.dealer \in Seats /\ "PLAYING" \in TableStates  BY DEF Sound, TableStates
  <2>. QED  BY <1>1, <1>2, <2>2, <2>3, <2>4, <2>5 DEF Sound, TableRec, NoTurn
<1>. HIDE DEF u
<1>7. u.seats \in [Seats -> SeatRec]  BY <1>6 DEF Sound, TableRec
<1>8. "CHUPAI" \in ActTypes /\ {"CHUPAI"} \in SUBSET ActTypes  BY DEF ActTypes
<1>9. f \in [Seats -> SeatRec]  BY <1>1, <1>7, <1>8, AskedType
<1>10. \A s \in Seats : f[s].det = FALSE /\ (f[s].choices # {} => s = lord)
  BY <1>1, <1>6, <1>7, <1>8, AskedType DEF NoTurn
<1>. HIDE DEF f
<1>11. Sound(v) /\ v.op = lord /\ v.seats = f
  BY <1>6, <1>9 DEF Sound, TableRec
<1>. HIDE DEF v
<1>12. /\ Sound(a) /\ a.op = lord /\ a.seats = f
       /\ a.flow.act = "CHUPAI" /\ a.flow.seat = lord
  BY <1>1, <1>8, <1>11, FlowType, ZenonT(60)
<1>. HIDE DEF a, lord
<1>13. OneTurn(a)  BY <1>10, <1>12 DEF OneTurn
<1>. QED  BY <1>1, <1>3, <1>12, <1>13, AfterAddSound, SameOneTurn

(* Nobody with choices is at most one seat with choices.                   *)
LEMMA NoTurnOneTurn ==
    ASSUME NEW t, NoTurn(t)
    PROVE  OneTurn(t)
BY DEF NoTurn, OneTurn

(* Whatever the bidding has come to, GameStart_2 leaves a good table.      *)
LEMMA BiddingSound ==
    ASSUME NEW t, NEW drawn \in Seats, NEW pick, Sound(t)
    PROVE  Good(GameStart_2(t, drawn, pick))
<1> DEFINE u == [ResetPlayerChoice(t) EXCEPT !.state = "WAIT_QIANG"]
           at(i) == (u.dealer + i) % SeatNum
           waiting == {i \in Seats : u.seats[at(i)].times = 0}
           first == CHOOSE i \in waiting : \A j \in waiting : i <= j
           v == [u EXCEPT !.seats[u.jiao].is_jiao = FALSE]
           acts == {"QIANG", "BU_QIANG"}
           r == u.round - 1
           w == [u EXCEPT !.round = r]
<1>1. Sound(u) /\ NoTurn(u)
  <2>1. /\ Sound(ResetPlayerChoice(t)) /\ NoTurn(ResetPlayerChoice(t))
    BY ResetSound DEF NoTurn
  <2>2. "WAIT_QIANG" \in TableStates  BY DEF TableStates
  <2>. QED  BY <2>1, <2>2 DEF Sound, TableRec, NoTurn
<1>2. GameStart_2(t, drawn, pick) =
        IF waiting # {} THEN FirstBid(u, at(first), pick)
        ELSE IF u.seats[u.jiao].is_jiao /\ u.flow.qiang
        THEN OfferBid(v, u.jiao, acts, pick)
        ELSE IF u.dealer2 = NoSeat
        THEN IF u.trust_err THEN u ELSE GameStart_1(w, drawn, pick)
        ELSE GameStart_3(u, pick)
  BY DEF GameStart_2
<1>. HIDE DEF u
<1>3. CASE waiting # {}
  <2>1. \E i \in waiting : \A j \in waiting : i <= j
    <3>1. waiting \subseteq Seats  OBVIOUS
    <3>. HIDE DEF waiting
    <3>. QED  BY <1>3, <3>1, LeastSeat
  <2>2. first \in Seats
    <3>1. waiting \subseteq Seats  OBVIOUS
    <3>. HIDE DEF waiting
    <3>. QED  BY <2>1, <3>1
  <2>. HIDE DEF first
  <2>3. at(first) \in Seats  BY <1>1, <2>2 DEF Sound, Seats, SeatNum
  <2>. HIDE DEF at
  <2>. QED  BY <1>1, <1>2, <1>3, <2>3, FirstBidSound, SoundGood
<1>. HIDE DEF waiting, first, at
<1>4. u.jiao \in Seats /\ u.seats \in [Seats -> SeatRec]  BY <1>1 DEF Sound, TableRec
<1>5. Sound(v) /\ NoTurn(v)
  <2> DEFINE h == [u.seats[u.jiao] EXCEPT !.is_jiao = FALSE]
             g == [u.seats EXCEPT ![u.jiao] = h]
  <2>1. /\ h \in SeatRec /\ h.choices = u.seats[u.jiao].choices
        /\ h.det = u.seats[u.jiao].det
    <3>1. u.seats[u.jiao] \in SeatRec  BY <1>4
    <3>. QED  BY <3>1 DEF SeatRec
  <2>2. v = [u EXCEPT !.seats = g]  OBVIOUS
  <2>. HIDE DEF h, v
  <2>3. g \in [Seats -> SeatRec]  BY <1>4, <2>1
  <2>4. \A s \in Seats : g[s].choices = {} /\ g[s].det = FALSE
    BY <1>1, <1>4, <2>1 DEF NoTurn
  <2>. HIDE DEF g
  <2>. QED  BY <1>1, <2>2, <2>3, <2>4 DEF Sound, TableRec, NoTurn
<1>6. Good(OfferBid(v, u.jiao, acts, pick))
  <2>1. acts \in SUBSET (ActTypes \ {"CHUPAI"})  BY DEF ActTypes, PassActs, CallActs
  <2>. HIDE DEF v, acts
  <2>. QED  BY <1>4, <1>5, <2>1, OfferSound, SoundGood
<1>7. Good(u)  BY <1>1, NoTurnOneTurn, SoundGood
<1>8. Good(GameStart_1(w, drawn, pick))
  <2>1. u \in TableRec /\ r \in Int /\ r + 1 \in Nat  BY <1>1 DEF Sound, TableRec
  <2>. HIDE DEF r
  <2>. QED  BY <2>1, StartSound
<1>9. CASE u.dealer2 # NoSeat
  <2>1. Good(GameStart_3(u, pick))  BY <1>1, <1>9, LandlordSound, SoundGood
  <2>. HIDE DEF v, w, acts
  <2>. QED  BY <1>1, <1>2, <1>3, <1>6, <1>9, <2>1
<1>10. CASE u.dealer2 = NoSeat
  <2>. HIDE DEF v, w, acts
  <2>. QED  BY <1>2, <1>3, <1>6, <1>7, <1>8, <1>10
<1>. QED  BY <1>9, <1>10

(* GameOver leaves the turn as it is: the choices of the last play are     *)
(* cleared by the caller.                                                  *)
LEMMA GameOverSound ==
    ASSUME NEW t, Sound(t)
    PROVE  Sound(GameOver(t)) /\ SameTurn(t, GameOver(t))
<1> DEFINE w == IF t.last_winner = NoSeat THEN NextSeat(t.dealer) ELSE t.last_winner
           u == [t EXCEPT !.last_winner = w, !.state = "FINISH"]
           v == PushInnerMsg(u, [cmd |-> "RESULT"])
           x == PushInnerMsg(v, [cmd |-> "RECORD"])
<1>1. w \in Seats \cup {NoSeat}  BY NextSeatType DEF Sound, TableRec
<1>2. GameOver(t) = IF t.state = "FINISH" THEN t
                    ELSE PushInnerMsg(x, [cmd |-> "DISSOLVE"])
  BY DEF GameOver, GameFinish
<1>. HIDE DEF w
<1>3. Sound(u) /\ SameTurn(t, u)
  BY <1>1 DEF Sound, TableRec, TableStates, SameTurn
<1>. HIDE DEF u
<1>4. Sound(v) /\ SameTurn(u, v)  BY <1>3, MsgTypes, PushSound
<1>. HIDE DEF v
<1>5. Sound(x) /\ SameTurn(v, x)  BY <1>4, MsgTypes, PushSound
<1>. HIDE DEF x
<1>6. /\ Sound(PushInnerMsg(x, [cmd |-> "DISSOLVE"]))
      /\ SameTurn(x, PushInnerMsg(x, [cmd |-> "DISSOLVE"]))
  BY <1>5, MsgTypes, PushSound
<1>7. SameTurn(t, t)  BY DEF SameTurn
<1>8. SameTurn(t, PushInnerMsg(x, [cmd |-> "DISSOLVE"]))
  BY <1>3, <1>4, <1>5, <1>6 DEF SameTurn
<1>. QED  BY <1>2, <1>6, <1>7, <1>8

(* DealWithTrusteeshipAfterAct and the OVER event after it keep the table  *)
(* sound.                                                                  *)
LEMMA AfterActSound ==
    ASSUME NEW t, NEW type \in {0, 2, 6}, Sound(t)
    PROVE  Sound(AfterAct(t, type))
<1> DEFINE u == [t EXCEPT !.off_timer = FALSE]
           v == [u EXCEPT !.trust_err = TRUE]
<1>1. Sound(u) /\ Sound(v)  BY DEF Sound, TableRec
<1>2. AfterAct(t, type) =
        IF CheckIsTrusteeshipOver(u) /\ u.state # "FINISH" THEN GameOver(v)
        ELSE IF type = 0 THEN u ELSE PushInnerMsg(u, OverMsg(type))
  BY DEF AfterAct
<1>. HIDE DEF u, v
<1>. QED  BY <1>1, <1>2, MsgTypes, PushSound, GameOverSound

(* Replacing the record of one seat keeps the table sound.                 *)
LEMMA SeatsSound ==
    ASSUME NEW t, NEW s \in Seats, NEW seat \in SeatRec, Sound(t)
    PROVE  Sound([t EXCEPT !.seats[s] = seat])
<1> DEFINE f == [t.seats EXCEPT ![s] = seat]
<1>1. f \in [Seats -> SeatRec]  BY DEF Sound, TableRec
<1>2. [t EXCEPT !.seats[s] = seat] = [t EXCEPT !.seats = f]  OBVIOUS
<1>. HIDE DEF f
<1>. QED  BY <1>1, <1>2 DEF Sound, TableRec

(* PlayerDoActionQiangDiZhu keeps the table sound.                         *)
LEMMA BidSound ==
    ASSUME NEW t, NEW s \in Seats, NEW act \in ActTypes, Sound(t)
    PROVE  Sound(PlayerDoActionQiangDiZhu(t, s, act))
<1> DEFINE a == AppendActionFlow(t, s, act, FALSE)
           seat == Bid(a.seats[s], act)
           v == [a EXCEPT !.seats[s] = seat]
           j == IF act = "JIAO" THEN s ELSE v.jiao
           u == [v EXCEPT !.jiao = j, !.dealer2 = s]
           type == IF t.state = "WAIT_QIANG" THEN 6 ELSE 0
<1>1. PlayerDoActionQiangDiZhu(t, s, act) = AfterAct(u, type)
  BY DEF PlayerDoActionQiangDiZhu
<1>2. Sound(a)  BY FlowType
<1>. HIDE DEF a
<1>3. a.seats[s] \in SeatRec  BY <1>2 DEF Sound, TableRec
<1>4. seat \in SeatRec
  <2> DEFINE n == a.seats[s].times + IF act = "QIANG" THEN 10 ELSE 1
             b == a.seats[s].is_jiao \/ act = "JIAO"
  <2>1. n \in Nat  BY <1>3 DEF SeatRec
  <2>2. b \in BOOLEAN  OBVIOUS
  <2>3. seat = [a.seats[s] EXCEPT !.times = n, !.is_jiao = b]  BY DEF Bid
  <2>. HIDE DEF n, b, seat
  <2>. QED  BY <1>3, <2>1, <2>2, <2>3 DEF SeatRec
<1>. HIDE DEF seat
<1>5. Sound(v)  BY <1>2, <1>4, SeatsSound
<1>. HIDE DEF v
<1>6. j \in Seats  BY <1>5 DEF Sound
<1>. HIDE DEF j
<1>7. Sound(u)  BY <1>5, <1>6 DEF Sound, TableRec
<1>. HIDE DEF u
<1>. QED  BY <1>1, <1>7, AfterActSound

(* PlayerDoActionPass keeps the table sound.                               *)
LEMMA PassSound ==
    ASSUME NEW t, NEW s \in Seats, NEW act \in ActTypes, Sound(t)
    PROVE  Sound(PlayerDoActionPass(t, s, act))
<1> DEFINE a == AppendActionFlow(t, s, act, FALSE)
           b == AppendActionFlow(t, s, act, CheckSingleOver(t, s))
           seat == [a.seats[s] EXCEPT !.times = @ + 1]
           u == [a EXCEPT !.seats[s] = seat]
<1>1. PlayerDoActionPass(t, s, act) =
        IF t.state = "WAIT_QIANG" THEN AfterAct(u, 6) ELSE AfterAct(b, 2)
  BY DEF PlayerDoActionPass
<1>2. CheckSingleOver(t, s) \in BOOLEAN  BY DEF CheckSingleOver
<1>3. Sound(a) /\ Sound(b)  BY <1>2, FlowType
<1>. HIDE DEF a, b
<1>4. a.seats[s] \in SeatRec  BY <1>3 DEF Sound, TableRec
<1>5. seat \in SeatRec  BY <1>4 DEF SeatRec
<1>. HIDE DEF seat
<1>6. Sound(u)  BY <1>3, <1>5, SeatsSound
<1>. HIDE DEF u
<1>. QED  BY <1>1, <1>3, <1>6, AfterActSound

(* PlayerDoActionChupai keeps the table sound when the seat holds the      *)
(* cards it plays.                                                         *)
LEMMA PlaySound ==
    ASSUME NEW t, NEW s \in Seats, NEW cards \in Nat, Sound(t),
           cards <= t.seats[s].hand
    PROVE  Sound(PlayerDoActionChupai(t, s, cards))
<1> DEFINE seat == [t.seats[s] EXCEPT !.hand = @ - cards]
           u == [t EXCEPT !.seats[s] = seat]
           v == [u EXCEPT !.last_winner = s]
<1>1. PlayerDoActionChupai(t, s, cards) =
        IF u.seats[s].hand = 0 THEN GameOver(v) ELSE AfterAct(u, 2)
  BY DEF PlayerDoActionChupai
<1>2. t.seats[s] \in SeatRec  BY DEF Sound, TableRec
<1>3. t.seats[s].hand - cards \in Nat  BY <1>2 DEF SeatRec
<1>4. seat \in SeatRec  BY <1>2, <1>3 DEF SeatRec
<1>. HIDE DEF seat
<1>5. Sound(u)  BY <1>4, SeatsSound
<1>. HIDE DEF u
<1>6. Sound(v)  BY <1>5 DEF Sound, TableRec
<1>. HIDE DEF v
<1>. QED  BY <1>1, <1>5, <1>6, AfterActSound, GameOverSound

(* PlayerDoAction ends with nobody having choices.                         *)
LEMMA ActSound ==
    ASSUME NEW t, NEW s \in Seats, NEW act \in ActTypes, NEW cards \in Nat,
           Sound(t), act = "CHUPAI" => cards <= t.seats[s].hand
    PROVE  /\ Sound(PlayerDoAction(t, s, act, cards))
           /\ NoTurn(PlayerDoAction(t, s, act, cards))
<1> DEFINE u == IF act = "CHUPAI" THEN PlayerDoActionChupai(t, s, cards)
                ELSE IF act \in PassActs THEN PlayerDoActionPass(t, s, act)
                ELSE PlayerDoActionQiangDiZhu(t, s, act)
<1>1. PlayerDoAction(t, s, act, cards) = ResetPlayerChoice(u)
  BY DEF PlayerDoAction
<1>2. Sound(u)  BY PlaySound, PassSound, BidSound
<1>. HIDE DEF u
<1>. QED  BY <1>1, <1>2, ResetSound DEF NoTurn

(* DetermineAction marks a choice and may name the leader of the trick; it *)
(* takes no cards.                                                         *)
LEMMA DetermineSound ==
    ASSUME NEW t, NEW s \in Seats, NEW act, Sound(t)
    PROVE  /\ Sound(DetermineAction(t, s, act))
           /\ DetermineAction(t, s, act).seats[s].hand = t.seats[s].hand
<1> DEFINE seat == [t.seats[s] EXCEPT !.det = TRUE]
           u == [t EXCEPT !.seats[s] = seat]
           f == [t.flow EXCEPT !.lead = t.flow.seat, !.passes = 0]
           v == [u EXCEPT !.flow = f]
<1>1. t.seats[s] \in SeatRec /\ t.flow \in FlowRec  BY DEF Sound, TableRec
<1>2. DetermineAction(t, s, act) =
        IF act = "CHUPAI" /\ t.flow.act = "CHUPAI" THEN v ELSE u
  BY DEF DetermineAction, Sound, TableRec
<1>3. seat \in SeatRec /\ seat.hand = t.seats[s].hand  BY <1>1 DEF SeatRec
<1>4. f \in FlowRec  BY <1>1 DEF FlowRec
<1>. HIDE DEF seat, f
<1>5. Sound(u) /\ u.seats[s] = seat
  BY <1>3, SeatsSound DEF Sound, TableRec
<1>. HIDE DEF u
<1>6. Sound(v) /\ v.seats[s] = seat  BY <1>4, <1>5 DEF Sound, TableRec
<1>. HIDE DEF v
<1>. QED  BY <1>2, <1>3, <1>5, <1>6

(* A turn that is acted on is acted on completely: the request does not    *)
(* stop between DetermineAction and the action.                            *)
LEMMA TrySound ==
    ASSUME NEW t, NEW s \in Seats, NEW act \in ActTypes, NEW cards \in Nat,
           NEW token, NEW legal, Sound(t), OneTurn(t)
    PROVE  /\ Sound(TryAction(t, s, act, cards, token, legal))
           /\ OneTurn(TryAction(t, s, act, cards, token, legal))
<1>1. CASE ~IsPlayerAbleDoAction(t, s, act, cards, token) \/ RulesRefuse(act, legal)
  BY <1>1 DEF TryAction
<1>2. CASE IsPlayerAbleDoAction(t, s, act, cards, token) /\ ~RulesRefuse(act, legal)
  <2> DEFINE u == DetermineAction(t, s, act)
  <2>1. act \in t.seats[s].choices /\ (act = "CHUPAI" => cards <= t.seats[s].hand)
    <3>1. t.seats[s].hand \in Nat  BY DEF Sound, TableRec, SeatRec
    <3>. QED  BY <1>2, <3>1 DEF IsPlayerAbleDoAction
  <2>2. ~DetermineFails(t, act)  BY <2>1 DEF DetermineFails, OneTurn
  <2>3. TryAction(t, s, act, cards, token, legal) = PlayerDoAction(u, s, act, cards)
    BY <1>2, <2>2 DEF TryAction
  <2>4. Sound(u) /\ u.seats[s].hand = t.seats[s].hand  BY DetermineSound
  <2>. HIDE DEF u
  <2>. QED  BY <2>1, <2>3, <2>4, ActSound, NoTurnOneTurn
<1>. QED  BY <1>1, <1>2

(* ProcessChuPaiForNextSeat opens exactly one turn, that of the next seat, *)
(* and appends its play to the flow.                                       *)
LEMMA NextPlaySound ==
    ASSUME NEW t, NEW pick, Sound(t), OneTurn(t)
    PROVE  /\ Sound(ProcessChuPaiForNextSeat(t, pick))
           /\ OneTurn(ProcessChuPaiForNextSeat(t, pick))
<1> DEFINE s == NextSeat(t.flow.seat)
           acts == IF t.flow.lead \in {NoSeat, s} THEN {"CHUPAI"}
                   ELSE {"CHUPAI", "PASS"}
           c == ResetPlayerChoice(t)
           seat == [c.seats[s] EXCEPT !.choices = acts]
           f == [c.seats EXCEPT ![s] = seat]
           u == [c EXCEPT !.op = s, !.seats = f]
           a == AppendActionFlow(u, s, "CHUPAI", FALSE)
<1>1. ProcessChuPaiForNextSeat(t, pick) =
        IF t.flow.act = NoAct THEN t ELSE OnOperateAfterAddChoice(a, s, pick)
  BY DEF ProcessChuPaiForNextSeat
<1>2. s \in Seats  BY NextSeatType DEF Sound, TableRec, FlowRec
<1>3. Sound(c) /\ NoTurn(c)  BY ResetSound DEF NoTurn
<1>. HIDE DEF c, s
<1>4. acts \in SUBSET ActTypes /\ "CHUPAI" \in ActTypes  BY DEF ActTypes, PassActs
<1>. HIDE DEF acts
<1>5. c.seats \in [Seats -> SeatRec]  BY <1>3 DEF Sound, TableRec
<1>6. seat \in SeatRec /\ seat.det = FALSE
  <2>1. c.seats[s] \in SeatRec /\ c.seats[s].det = FALSE  BY <1>2, <1>3, <1>5 DEF NoTurn
  <2>. QED  BY <1>4, <2>1 DEF SeatRec
<1>. HIDE DEF seat
<1>7. /\ f \in [Seats -> SeatRec]
      /\ \A r \in Seats : f[r].det = FALSE /\ (f[r].choices # {} => r = s)
  BY <1>2, <1>3, <1>5, <1>6 DEF NoTurn
<1>. HIDE DEF f
<1>8. Sound(u) /\ u.op = s /\ u.seats = f  BY <1>2, <1>3, <1>7 DEF Sound, TableRec
<1>. HIDE DEF u
<1>9. /\ Sound(a) /\ a.op = s /\ a.seats = f
      /\ a.flow.act = "CHUPAI" /\ a.flow.seat = s
  BY <1>2, <1>4, <1>8, FlowType
<1>. HIDE DEF a
<1>10. OneTurn(a)  BY <1>7, <1>9 DEF OneTurn
<1>. QED  BY <1>1, <1>2, <1>9, <1>10, AfterAddSound, SameOneTurn

(* Both kinds of OVER event leave a good table.                            *)
LEMMA OverSound ==
    ASSUME NEW t, NEW type, NEW drawn \in Seats, NEW pick, Sound(t), OneTurn(t)
    PROVE  Good(OnDoActionOver(t, type, drawn, pick))
BY NextPlaySound, BiddingSound, SoundGood DEF OnDoActionOver

(* The operation timer acts through the inner queue, so the turn survives  *)
(* it.                                                                     *)
LEMMA TimeOutSound ==
    ASSUME NEW t, Sound(t), OneTurn(t)
    PROVE  Sound(OnOperationTimeOut(t)) /\ OneTurn(OnOperationTimeOut(t))
<1>1. ASSUME NEW u, NEW s \in Seats, Sound(u), OneTurn(u)
      PROVE  Sound(TimeOutSeat(u, s)) /\ OneTurn(TimeOutSeat(u, s))
  BY <1>1, DefaultSound, SameOneTurn DEF TimeOutSeat
<1>2. 0 \in Seats /\ 1 \in Seats /\ 2 \in Seats  BY DEF Seats, SeatNum
<1>. DEFINE a == TimeOutSeat(t, 0)
            b == TimeOutSeat(a, 1)
<1>3. Sound(a) /\ OneTurn(a)  BY <1>1, <1>2
<1>. HIDE DEF a
<1>4. Sound(b) /\ OneTurn(b)  BY <1>1, <1>2, <1>3
<1>5. OnOperationTimeOut(t) = TimeOutSeat(b, 2)  BY DEF OnOperationTimeOut, a
<1>. HIDE DEF b
<1>. QED  BY <1>1, <1>2, <1>4, <1>5

(* So does the robot timer.                                                *)
LEMMA RobotTimeOutSound ==
    ASSUME NEW t, NEW cards \in Nat, Sound(t), OneTurn(t)
    PROVE  /\ Sound(OnRobotTimerTimeOut(t, cards))
           /\ OneTurn(OnRobotTimerTimeOut(t, cards))
<1>1. ASSUME NEW u, NEW s \in Seats, Sound(u), OneTurn(u)
      PROVE  Sound(RobotSeat(u, s, cards)) /\ OneTurn(RobotSeat(u, s, cards))
  <2> DEFINE seat == u.seats[s]
             k == IF seat.buff = "CHUPAI" /\ seat.robot THEN cards ELSE 0
             m == AutoMsg(s, seat.buff, k, seat.token)
             v == IF seat.buff \in seat.choices /\ ~seat.det
                  THEN PushInnerMsg(u, m) ELSE u
             w == [v EXCEPT !.seats[s].buff = NoAct]
  <2>1. RobotSeat(u, s, cards) = w  BY DEF RobotSeat
  <2>2. seat \in SeatRec  BY <1>1 DEF Sound, TableRec
  <2>3. k \in Nat /\ seat.token \in Nat  BY <2>2 DEF SeatRec
  <2>. HIDE DEF k
  <2>4. seat.buff \in seat.choices => m \in InnerMsg
    BY <2>2, <2>3, MsgTypes DEF SeatRec
  <2>. HIDE DEF m, seat
  <2>5. Sound(v) /\ SameTurn(u, v)  BY <1>1, <2>4, PushSound DEF SameTurn
  <2>. HIDE DEF v
  <2>6. Sound(w) /\ SameTurn(v, w)
    <3> DEFINE x == [v.seats[s] EXCEPT !.buff = NoAct]
               g == [v.seats EXCEPT ![s] = x]
    <3>1. v.seats \in [Seats -> SeatRec]  BY <2>5 DEF Sound, TableRec
    <3>2. v.seats[s] \in SeatRec  BY <3>1
    <3>3. /\ x \in SeatRec /\ x.choices = v.seats[s].choices
          /\ x.det = v.seats[s].det
      BY <3>2 DEF SeatRec
    <3>4. w = [v EXCEPT !.seats = g]  OBVIOUS
    <3>. HIDE DEF x, w
    <3>5. g \in [Seats -> SeatRec]  BY <3>1, <3>3
    <3>6. \A r \in Seats : /\ g[r].choices = v.seats[r].choices
                           /\ g[r].det = v.seats[r].det
      BY <3>1, <3>3
    <3>. HIDE DEF g
    <3>. QED  BY <2>5, <3>4, <3>5, <3>6 DEF Sound, TableRec, SameTurn
  <2>. HIDE DEF w
  <2>. QED  BY <1>1, <2>1, <2>5, <2>6, SameOneTurn
<1>2. 0 \in Seats /\ 1 \in Seats /\ 2 \in Seats  BY DEF Seats, SeatNum
<1>. DEFINE a == RobotSeat(t, 0, cards)
            b == RobotSeat(a, 1, cards)
<1>3. Sound(a) /\ OneTurn(a)  BY <1>1, <1>2
<1>. HIDE DEF a
<1>4. Sound(b) /\ OneTurn(b)  BY <1>1, <1>2, <1>3
<1>5. OnRobotTimerTimeOut(t, cards) = RobotSeat(b, 2, cards)
  BY DEF OnRobotTimerTimeOut, a
<1>. HIDE DEF b
<1>. QED  BY <1>1, <1>2, <1>4, <1>5

(* A seat that LogoutTable cleared has no choices left.                    *)
LEMMA ClearedType ==
    ASSUME NEW seat \in SeatRec
    PROVE  /\ ClearedSeat(seat) \in SeatRec
           /\ ClearedSeat(seat).choices = {} /\ ClearedSeat(seat).det = FALSE
BY DEF ClearedSeat, SeatRec, SeatStates

(* A logout takes at most the turn of the seat that leaves.                *)
LEMMA LogoutSound ==
    ASSUME NEW t, NEW s \in Seats, Sound(t), OneTurn(t)
    PROVE  Sound(LogoutTable(t, s)) /\ OneTurn(LogoutTable(t, s))
<1> DEFINE seat == ClearedSeat(t.seats[s])
           u == [t EXCEPT !.seats[s] = seat]
<1>1. t.seats \in [Seats -> SeatRec]  BY DEF Sound, TableRec
<1>2. seat \in SeatRec /\ seat.choices = {} /\ seat.det = FALSE
  BY <1>1, ClearedType
<1>3. LogoutTable(t, s) = u  BY DEF LogoutTable
<1>. HIDE DEF seat
<1>4. Sound(u)  BY <1>2, SeatsSound
<1>5. OneTurn(u)  BY <1>1, <1>2 DEF Sound, TableRec, OneTurn
<1>. HIDE DEF u
<1>. QED  BY <1>3, <1>4, <1>5

(* Sitting down takes a seat and no turn, even in the middle of a round.   *)
LEMMA SitSound ==
    ASSUME NEW t, NEW s \in Seats, NEW robot \in BOOLEAN, Sound(t), OneTurn(t)
    PROVE  Sound(SitDownOnTable(t, s, robot)) /\ OneTurn(SitDownOnTable(t, s, robot))
<1> DEFINE a == [t.seats[s] EXCEPT !.state = "WAIT_NEXT"]
           b == [a EXCEPT !.robot = robot]
           g == [t.seats EXCEPT ![s] = b]
           u == [t EXCEPT !.seats = g, !.state = "WAIT"]
<1>1. t.seats \in [Seats -> SeatRec] /\ t.seats[s] \in SeatRec  BY DEF Sound, TableRec
<1>2. /\ b \in SeatRec /\ b.choices = t.seats[s].choices
      /\ b.det = t.seats[s].det
  BY <1>1 DEF SeatRec, SeatStates
<1>3. SitDownOnTable(t, s, robot) = u
  BY <1>1 DEF SitDownOnTable, Sound, TableRec, SeatRec
<1>. HIDE DEF b
<1>4. /\ g \in [Seats -> SeatRec]
      /\ \A r \in Seats : /\ g[r].choices = t.seats[r].choices
                          /\ g[r].det = t.seats[r].det
  BY <1>1, <1>2
<1>. HIDE DEF g
<1>5. Sound(u) /\ SameTurn(t, u)
  BY <1>4 DEF Sound, TableRec, TableStates, SameTurn
<1>. HIDE DEF u
<1>. QED  BY <1>3, <1>5, SameOneTurn

(* TableManager::DissolveTable leaves the empty seats as they are and      *)
(* nobody else with choices.                                               *)
LEMMA DissolveSound ==
    ASSUME NEW t, Sound(t), OneTurn(t)
    PROVE  Sound(DissolveTable(t)) /\ OneTurn(DissolveTable(t))
<1> DEFINE x(s) == [ClearedSeat(t.seats[s]) EXCEPT !.robot = FALSE]
           f == [s \in Seats |-> IF Occupied(t, s) THEN x(s) ELSE t.seats[s]]
           u == [t EXCEPT !.off_timer = FALSE, !.seats = f]
<1>1. t.seats \in [Seats -> SeatRec]  BY DEF Sound, TableRec
<1>2. DissolveTable(t) = u  BY DEF DissolveTable
<1>3. ASSUME NEW s \in Seats
      PROVE  x(s) \in SeatRec /\ x(s).choices = {} /\ x(s).det = FALSE
  <2> DEFINE c == ClearedSeat(t.seats[s])
  <2>1. c \in SeatRec /\ c.choices = {} /\ c.det = FALSE  BY <1>1, ClearedType
  <2>. HIDE DEF c
  <2>2. LET y == [c EXCEPT !.robot = FALSE]
        IN  y \in SeatRec /\ y.choices = {} /\ y.det = FALSE
    BY <2>1 DEF SeatRec
  <2>. QED  BY <2>2 DEF c
<1>. HIDE DEF x
<1>4. f \in [Seats -> SeatRec]  BY <1>1, <1>3
<1>5. \A s \in Seats : f[s] = t.seats[s] \/ (f[s].choices = {} /\ f[s].det = FALSE)
  BY <1>3
<1>. HIDE DEF f
<1>6. Sound(u) /\ u.seats = f /\ u.op = t.op /\ u.flow = t.flow
  BY <1>4 DEF Sound, TableRec
<1>. HIDE DEF u
<1>7. OneTurn(u)  BY <1>5, <1>6 DEF OneTurn
<1>. QED  BY <1>2, <1>6, <1>7

(***************************************************************************)
(* The inductive invariant, and the theorems that follow from it.          *)
(***************************************************************************)
IInv == TypeOK /\ Good(table)

(* A dealer that may be drawn is a seat.                                   *)
LEMMA DealersAreSeats == Dealers \subseteq Seats
BY TableAssumption DEF Seats, SeatNum

(* An event that leaves a good table preserves the invariant.              *)
LEMMA EventType ==
    ASSUME TypeOK, NEW t, Good(t), Event(t), dissolving' \in Nat
    PROVE  IInv'
<1>1. table' = t /\ batch' \in 0 .. BatchSize /\ refused' \subseteq Seats
  BY TableAssumption DEF TypeOK, Event, StillRefused
<1>. QED  BY <1>1 DEF IInv, TypeOK, Good, OneTurn

(* So does draining one inner message.                                     *)
LEMMA DrainType ==
    ASSUME TypeOK, NEW t, Good(t), NEW r \in SUBSET Seats, Drain(t, r),
           dissolving' \in Nat
    PROVE  IInv'
<1>1. table' = t /\ batch' \in 0 .. BatchSize /\ refused' \subseteq Seats
  BY TableAssumption DEF TypeOK, Drain
<1>. QED  BY <1>1 DEF IInv, TypeOK, Good, OneTurn

(* A fresh table (CPBGameTable::Init) satisfies the invariant.             *)
LEMMA InitIInv == Init => IInv
<1> SUFFICES ASSUME Init PROVE IInv
  OBVIOUS
<1>1. EmptySeat \in SeatRec /\ EmptySeat.choices = {} /\ EmptySeat.det = FALSE
  BY DEF EmptySeat, SeatRec, SeatStates
<1>2. NoFlow \in FlowRec  BY DEF NoFlow, FlowRec, Seats, SeatNum
<1>3. PICK d \in Dealers : table =
        [state |-> "WAIT", round |-> 0, dealer |-> d, dealer2 |-> 0,
         jiao |-> 0, last_winner |-> NoSeat, op |-> 0, trust_err |-> FALSE,
         seats |-> [s \in Seats |-> EmptySeat], flow |-> NoFlow,
         off_timer |-> FALSE, robot_timer |-> FALSE, inner |-> << >>]
  BY DEF Init
<1>4. d \in Seats /\ 0 \in Seats  BY DealersAreSeats DEF Seats, SeatNum
<1>5. << >> \in Seq(InnerMsg)  OBVIOUS
<1>6. table \in TableRec
  BY <1>1, <1>2, <1>3, <1>4, <1>5 DEF TableRec, TableStates
<1>7. table.dealer \in Seats /\ table.jiao \in Seats /\ OneTurn(table)
  BY <1>1, <1>3, <1>4 DEF OneTurn
<1>8. dissolving \in Nat /\ batch \in 0 .. BatchSize /\ refused \subseteq Seats
  BY TableAssumption DEF Init
<1>. QED  BY <1>6, <1>7, <1>8 DEF IInv, TypeOK, Good

(* Every handler, timer and drained message preserves the invariant.       *)
LEMMA NextIInv == IInv /\ [Next]_vars => IInv'
<1> SUFFICES ASSUME IInv, [Next]_vars PROVE IInv'
  OBVIOUS
<1>1. TypeOK /\ Good(table) /\ table \in TableRec /\ dissolving \in Nat
  BY DEF IInv, TypeOK
<1>2. Running => Sound(table) /\ OneTurn(table)
  BY <1>1 DEF Running, Sound, Good
<1>3. ASSUME NEW robot \in RobotKinds, SitDown(robot) PROVE IInv'
  <2> DEFINE empty == {s \in Seats : ~Occupied(table, s)}
             s == CHOOSE s \in empty : \A r \in empty : s <= r
  <2>1. s \in Seats
    <3>1. empty # {} /\ empty \in SUBSET Seats  BY <1>3 DEF SitDown
    <3>. HIDE DEF empty
    <3>2. \E r \in empty : \A q \in empty : r <= q  BY <3>1, LeastSeat
    <3>. QED  BY <3>1, <3>2
  <2>2. FindEmptySeatInTable(table) = s  BY DEF FindEmptySeatInTable
  <2>. HIDE DEF s
  <2>3. robot \in BOOLEAN  BY <1>3, TableAssumption
  <2>4. Running /\ Event(SitDownOnTable(table, s, robot)) /\ dissolving' = dissolving
    BY <1>3, <2>2 DEF SitDown, Event
  <2>5. Good(SitDownOnTable(table, s, robot))
    BY <1>2, <2>1, <2>3, <2>4, SitSound, SoundGood
  <2>. QED  BY <1>1, <2>4, <2>5, EventType
<1>4. ASSUME NEW s \in Seats, NEW ready \in BOOLEAN, NEW d \in Seats, NEW p,
             Ready(s, ready, d, p)
      PROVE  IInv'
  <2> DEFINE st == IF ready THEN "READY" ELSE "WAIT_NEXT"
             seat == [table.seats[s] EXCEPT !.state = st]
             u == [table EXCEPT !.seats[s] = seat]
  <2>1. Running /\ dissolving' = dissolving
    BY <1>4 DEF Ready, Event
  <2>2. IF ReadyToStart(u) THEN Event(GameStart_1(u, d, p)) ELSE Event(u)
    BY <1>4 DEF Ready
  <2>3. table.seats \in [Seats -> SeatRec]  BY <1>1 DEF TableRec
  <2>4. st \in SeatStates  BY DEF SeatStates
  <2>. HIDE DEF st
  <2>5. /\ seat \in SeatRec /\ seat.choices = table.seats[s].choices
        /\ seat.det = table.seats[s].det
    <3>1. table.seats[s] \in SeatRec  BY <2>3
    <3>. QED  BY <2>4, <3>1 DEF SeatRec
  <2>. HIDE DEF seat
  <2>6. Sound(u)  BY <1>2, <2>1, <2>5, SeatsSound
  <2>7. SameTurn(table, u)  BY <1>1, <2>3, <2>5 DEF SameTurn, TableRec
  <2>8. Good(u)  BY <1>2, <2>1, <2>6, <2>7, SameOneTurn, SoundGood
  <2>. HIDE DEF u
  <2>9. Good(GameStart_1(u, d, p))
    <3>1. u \in TableRec /\ u.round \in Int /\ u.round + 1 \in Nat
      BY <2>6 DEF Sound, TableRec
    <3>2. u = [u EXCEPT !.round = u.round]  BY <3>1 DEF TableRec
    <3>3. Good(GameStart_1([u EXCEPT !.round = u.round], d, p))
      BY <3>1, StartSound
    <3>. QED  BY <3>2, <3>3
  <2>. QED  BY <1>1, <2>1, <2>2, <2>8, <2>9, EventType
<1>5. ASSUME NEW s \in Seats, NEW act \in ActTypes, NEW k \in Nat,
             RequestDoAction(s, act, k)
      PROVE  IInv'
  <2> DEFINE u == TryAction(table, s, act, k, table.seats[s].token, TRUE)
  <2>1. Running /\ Event(u) /\ dissolving' = dissolving
    BY <1>5 DEF RequestDoAction, Event
  <2>2. Good(u)  BY <1>2, <2>1, TrySound, SoundGood
  <2>. HIDE DEF u
  <2>. QED  BY <1>1, <2>1, <2>2, EventType
<1>6. ASSUME NEW s \in Seats, RequestTrusteeship(s) PROVE IInv'
  <2> DEFINE b == ~table.seats[s].trust
             seat == [table.seats[s] EXCEPT !.trust = b]
             u == [table EXCEPT !.seats[s] = seat]
  <2>1. Running /\ Event(u) /\ dissolving' = dissolving
    BY <1>6 DEF RequestTrusteeship, Event
  <2>2. table.seats \in [Seats -> SeatRec]  BY <1>1 DEF TableRec
  <2>3. b \in BOOLEAN  OBVIOUS
  <2>. HIDE DEF b
  <2>4. /\ seat \in SeatRec /\ seat.choices = table.seats[s].choices
        /\ seat.det = table.seats[s].det
    <3>1. table.seats[s] \in SeatRec  BY <2>2
    <3>. QED  BY <2>3, <3>1 DEF SeatRec
  <2>. HIDE DEF seat
  <2>5. Sound(u)  BY <1>2, <2>1, <2>4, SeatsSound
  <2>6. SameTurn(table, u)  BY <1>1, <2>2, <2>4 DEF SameTurn, TableRec
  <2>7. Good(u)  BY <1>2, <2>1, <2>5, <2>6, SameOneTurn, SoundGood
  <2>. HIDE DEF u
  <2>. QED  BY <1>1, <2>1, <2>7, EventType
<1>7. ASSUME NEW s \in Seats, LogoutDone(s) PROVE IInv'
  <2>1. Running /\ Event(LogoutTable(table, s)) /\ dissolving' = dissolving
    BY <1>7 DEF LogoutDone, Event
  <2>2. Good(LogoutTable(table, s))  BY <1>2, <2>1, LogoutSound, SoundGood
  <2>. QED  BY <1>1, <2>1, <2>2, EventType
<1>8. CASE CheckUserOffTimeOut
  <2> DEFINE u == [table EXCEPT !.off_timer = FALSE]
  <2>1. Running /\ Event(OnOperationTimeOut(u)) /\ dissolving' = dissolving
    BY <1>8 DEF CheckUserOffTimeOut, Event
  <2>2. Sound(u) /\ OneTurn(u)  BY <1>2, <2>1 DEF Sound, TableRec, OneTurn
  <2>. HIDE DEF u
  <2>3. Good(OnOperationTimeOut(u))  BY <2>2, TimeOutSound, SoundGood
  <2>. QED  BY <1>1, <2>1, <2>3, EventType
<1>9. ASSUME NEW k \in Nat, RobotTimeOut(k) PROVE IInv'
  <2> DEFINE u == [table EXCEPT !.robot_timer = FALSE]
  <2>1. Running /\ Event(OnRobotTimerTimeOut(u, k)) /\ dissolving' = dissolving
    BY <1>9 DEF RobotTimeOut, Event
  <2>2. Sound(u) /\ OneTurn(u)  BY <1>2, <2>1 DEF Sound, TableRec, OneTurn
  <2>. HIDE DEF u
  <2>3. Good(OnRobotTimerTimeOut(u, k))  BY <2>2, RobotTimeOutSound, SoundGood
  <2>. QED  BY <1>1, <2>1, <2>3, EventType
<1>10. CASE DissolveDone
  <2>1. Running /\ Event(DissolveTable(table)) /\ dissolving' \in Nat
    BY <1>1, <1>10 DEF DissolveDone, Event
  <2>2. Good(DissolveTable(table))  BY <1>2, <2>1, DissolveSound, SoundGood
  <2>. QED  BY <1>1, <2>1, <2>2, EventType
<1>11. CASE GmRequestDissolveTable
  <2>1. Running /\ Event(table) /\ dissolving' \in Nat
    BY <1>1, <1>11 DEF GmRequestDissolveTable, Event
  <2>. QED  BY <1>1, <2>1, EventType
<1>12. table.inner # << >> =>
         /\ Head(table.inner) \in InnerMsg
         /\ Running => Sound(Popped) /\ OneTurn(Popped) /\ Good(Popped)
  <2> SUFFICES ASSUME table.inner # << >>
               PROVE  /\ Head(table.inner) \in InnerMsg
                      /\ Running => Sound(Popped) /\ OneTurn(Popped) /\ Good(Popped)
    OBVIOUS
  <2>1. table.inner \in Seq(InnerMsg)  BY <1>1 DEF TableRec
  <2>2. Head(table.inner) \in InnerMsg /\ Tail(table.inner) \in Seq(InnerMsg)
    BY <2>1
  <2>3. Running => Sound(Popped) /\ OneTurn(Popped)
    BY <1>2, <2>2 DEF Popped, Sound, TableRec, OneTurn
  <2>. QED  BY <2>2, <2>3, SoundGood
<1>21. \A t : StillRefused(t) \in SUBSET Seats
  BY <1>1 DEF StillRefused, TypeOK
<1>13. ASSUME NEW legal \in BOOLEAN, InnerAuto(legal) PROVE IInv'
  <2> DEFINE m == Head(table.inner)
             u == TryAction(Popped, m.seat, m.act, m.cards, m.token, legal)
             b == /\ IsPlayerAbleDoAction(Popped, m.seat, m.act, m.cards, m.token)
                  /\ RulesRefuse(m.act, legal)
             r == StillRefused(u) \cup IF b THEN {m.seat} ELSE {}
  <2>1. /\ Running /\ Drain(u, r) /\ dissolving' = dissolving
        /\ table.inner # << >> /\ m.cmd = "AUTO"
    BY <1>13 DEF InnerAuto, Drain
  <2>2. m.seat \in Seats /\ m.act \in ActTypes /\ m.cards \in Nat
    BY <1>12, <2>1 DEF InnerMsg
  <2>. HIDE DEF m, b
  <2>3. Good(u)  BY <1>12, <2>1, <2>2, TrySound, SoundGood
  <2>. HIDE DEF u
  <2>4. r \in SUBSET Seats  BY <1>21, <2>2
  <2>. HIDE DEF r
  <2>. QED  BY <1>1, <2>1, <2>3, <2>4, DrainType
<1>14. ASSUME NEW d \in Seats, NEW p, InnerOver(d, p) PROVE IInv'
  <2> DEFINE u == OnDoActionOver(Popped, Head(table.inner).type, d, p)
  <2>1. Running /\ Drain(u, {}) /\ dissolving' = dissolving /\ table.inner # << >>
    BY <1>14 DEF InnerOver, Drain
  <2>2. Good(u)  BY <1>12, <2>1, OverSound
  <2>. HIDE DEF u
  <2>. QED  BY <1>1, <2>1, <2>2, DrainType
<1>15. CASE InnerReport
  <2>1. /\ Running /\ Drain(Popped, StillRefused(Popped))
        /\ dissolving' = dissolving /\ table.inner # << >>
    BY <1>15 DEF InnerReport, Drain
  <2>. QED  BY <1>1, <1>12, <1>21, <2>1, DrainType
<1>16. CASE InnerDissolve
  <2>1. /\ Running /\ Drain(Popped, StillRefused(Popped))
        /\ dissolving' \in Nat /\ table.inner # << >>
    BY <1>1, <1>16 DEF InnerDissolve, Drain
  <2>. QED  BY <1>1, <1>12, <1>21, <2>1, DrainType
<1>17. CASE UNCHANGED vars
  BY <1>1, <1>17 DEF vars, IInv, TypeOK, Good, OneTurn
<1>18. CASE Client
  <2>1. Cards \subseteq Nat  BY TableAssumption DEF Cards
  <2>2. 0 \in Seats /\ Trustees \subseteq Seats
    BY TableAssumption DEF Seats, SeatNum
  <2>3. CASE \E r \in RobotKinds : SitDown(r)  BY <1>3, <2>3
  <2>4. CASE \E s \in Seats, d \in Dealers, p \in Picks : Ready(s, TRUE, d, p)
    BY <1>4, <2>4, DealersAreSeats
  <2>5. CASE \E s \in Seats : Ready(s, FALSE, 0, "none")  BY <1>4, <2>2, <2>5
  <2>6. CASE \E s \in Seats, a \in ActTypes :
               \E k \in IF a = "CHUPAI" THEN Cards ELSE {0} : RequestDoAction(s, a, k)
    <3>1. PICK s \in Seats, a \in ActTypes :
             \E k \in IF a = "CHUPAI" THEN Cards ELSE {0} : RequestDoAction(s, a, k)
      BY <2>6
    <3>2. PICK k \in Nat : RequestDoAction(s, a, k)  BY <2>1, <3>1
    <3>. QED  BY <1>5, <3>2
  <2>7. CASE \E s \in Trustees : RequestTrusteeship(s)  BY <1>6, <2>2, <2>7
  <2>8. CASE \E s \in Seats : LogoutDone(s)  BY <1>7, <2>8
  <2>. QED  BY <1>18, <2>3, <2>4, <2>5, <2>6, <2>7, <2>8 DEF Client
<1>19. CASE Timer
  <2>1. Cards \subseteq Nat  BY TableAssumption DEF Cards
  <2>. QED  BY <1>8, <1>9, <1>19, <2>1 DEF Timer
<1>20. CASE Inner
  BY <1>13, <1>14, <1>15, <1>16, <1>20, DealersAreSeats DEF Inner
<1>. QED  BY <1>10, <1>17, <1>18, <1>19, <1>20, <1>11 DEF Next

(* The inductive invariant holds in every state of the table.              *)
THEOREM Invariance == Spec => []IInv
BY InitIInv, NextIInv, PTL DEF Spec

(* Type correctness of the table, the dissolve sessions and the batch.     *)
THEOREM TypeCorrect == Spec => []TypeOK
<1>1. IInv => TypeOK  BY DEF IInv
<1>. QED  BY <1>1, Invariance, PTL

(* At most the seat at operation_index can act: ResetPlayerChoice precedes *)
(* every AddChoise, whatever requests, timers, logouts, dissolutions and   *)
(* drained events come between.                                            *)
THEOREM OnlyOneSeatActs == Spec => []SingleTurn
<1>1. IInv => SingleTurn  BY DEF IInv, Good, OneTurn, SingleTurn
<1>. QED  BY <1>1, Invariance, PTL

(* A seat asked to play always finds its own play open in the action flow, *)
(* so no request ends between DetermineAction and the action.              *)
THEOREM PlaysFindTheirFlow == Spec => []PlayHasOpenFlow
<1>1. IInv => PlayHasOpenFlow  BY DEF IInv, Good, OneTurn, PlayHasOpenFlow
<1>. QED  BY <1>1, Invariance, PTL

(* A table that runs has a dealer and a seat that may call: the only way   *)
(* to index seats(-1) is GameStart_1 with a last_winner of -1.             *)
THEOREM DealerKnown == Spec => [](Running => table.dealer \in Seats /\ table.jiao \in Seats)
<1>1. IInv => (Running => table.dealer \in Seats /\ table.jiao \in Seats)
  BY DEF IInv, Good, Running
<1>. QED  BY <1>1, Invariance, PTL

(***************************************************************************)
(* The OVER events on their way, and what does not disturb the game.       *)
(***************************************************************************)
NoOver(q) == \A i \in DOMAIN q : q[i].cmd # "OVER"

OneOver(q, type) ==
    \E i \in DOMAIN q : /\ q[i] = OverMsg(type)
                        /\ \A j \in DOMAIN q : q[j].cmd = "OVER" => j = i

(* q and r hold the same OVER events, if they hold one at most.            *)
Quiet(q, r) ==
    /\ NoOver(q) <=> NoOver(r)
    /\ \A type \in {2, 6} : OneOver(q, type) <=> OneOver(r, type)

(* An OVER message is one, whatever step of the round it opens.            *)
LEMMA OverCmd ==
    \A type : OverMsg(type).cmd = "OVER" /\ OverMsg(type).type = type
BY DEF OverMsg

(* The places of a queue to which a message is added, and of one whose     *)
(* head is taken.                                                          *)
LEMMA QueuePlaces ==
    ASSUME NEW q \in Seq(InnerMsg)
    PROVE  /\ DOMAIN q = 1 .. Len(q) /\ Len(q) \in Nat
           /\ \A m \in InnerMsg :
                /\ DOMAIN Append(q, m) = 1 .. Len(q) + 1
                /\ Append(q, m)[Len(q) + 1] = m
                /\ \A i \in 1 .. Len(q) : Append(q, m)[i] = q[i]
           /\ q # << >> =>
                /\ Tail(q) \in Seq(InnerMsg) /\ Head(q) = q[1] /\ Head(q) \in InnerMsg
                /\ DOMAIN Tail(q) = 1 .. Len(q) - 1 /\ Len(q) > 0
                /\ \A i \in 1 .. Len(q) - 1 : Tail(q)[i] = q[i + 1]
<1>1. DOMAIN q = 1 .. Len(q) /\ Len(q) \in Nat  OBVIOUS
<1>2. ASSUME NEW m \in InnerMsg
      PROVE  /\ DOMAIN Append(q, m) = 1 .. Len(q) + 1
             /\ Append(q, m)[Len(q) + 1] = m
             /\ \A i \in 1 .. Len(q) : Append(q, m)[i] = q[i]
  BY <1>1
<1>3. ASSUME q # << >>
      PROVE  /\ Tail(q) \in Seq(InnerMsg) /\ Head(q) = q[1] /\ Head(q) \in InnerMsg
             /\ DOMAIN Tail(q) = 1 .. Len(q) - 1 /\ Len(q) > 0
             /\ \A i \in 1 .. Len(q) - 1 : Tail(q)[i] = q[i + 1]
  BY <1>1, <1>3
<1>. QED  BY <1>1, <1>2, <1>3

(* A message that is no OVER event is added quietly.                       *)
LEMMA QuietAppend ==
    ASSUME NEW q \in Seq(InnerMsg), NEW m \in InnerMsg, m.cmd # "OVER"
    PROVE  Quiet(q, Append(q, m))
<1> DEFINE r == Append(q, m)
           n == Len(q)
<1>1. /\ DOMAIN q = 1 .. n /\ n \in Nat /\ DOMAIN r = 1 .. n + 1
      /\ r[n + 1] = m /\ \A i \in 1 .. n : r[i] = q[i]
  BY QueuePlaces
<1>2. \A i \in DOMAIN r : r[i].cmd = "OVER" => i \in DOMAIN q /\ r[i] = q[i]
  <2>. HIDE DEF r, n
  <2>. QED  BY <1>1
<1>3. \A i \in DOMAIN q : i \in DOMAIN r /\ r[i] = q[i]
  <2>. HIDE DEF r, n
  <2>. QED  BY <1>1
<1>. HIDE DEF r, n
<1>4. NoOver(q) <=> NoOver(r)  BY <1>2, <1>3 DEF NoOver
<1>5. ASSUME NEW type \in {2, 6} PROVE OneOver(q, type) <=> OneOver(r, type)
  BY <1>2, <1>3, OverCmd DEF OneOver
<1>. QED  BY <1>4, <1>5 DEF Quiet, r

(* The one OVER event on its way is the one that was pushed last.          *)
LEMMA OverAppend ==
    ASSUME NEW q \in Seq(InnerMsg), NEW type \in {2, 6}, NoOver(q)
    PROVE  /\ OneOver(Append(q, OverMsg(type)), type)
           /\ ~NoOver(Append(q, OverMsg(type)))
           /\ \A other \in {2, 6} : OneOver(Append(q, OverMsg(type)), other) => other = type
<1> DEFINE m == OverMsg(type)
           r == Append(q, m)
           n == Len(q)
<1>1. m \in InnerMsg /\ m.cmd = "OVER" /\ m.type = type  BY MsgTypes, OverCmd
<1>2. /\ DOMAIN q = 1 .. n /\ n \in Nat /\ DOMAIN r = 1 .. n + 1
      /\ r[n + 1] = m /\ \A i \in 1 .. n : r[i] = q[i]
  <2>. HIDE DEF m
  <2>. QED  BY <1>1, QueuePlaces
<1>3. \A i \in DOMAIN r : r[i].cmd = "OVER" => i = n + 1
  <2>. HIDE DEF r, n, m
  <2>. QED  BY <1>2 DEF NoOver
<1>4. n + 1 \in DOMAIN r
  <2>. HIDE DEF r, n, m
  <2>. QED  BY <1>2
<1>. HIDE DEF r, n
<1>5. OneOver(r, type)  BY <1>2, <1>3, <1>4 DEF OneOver
<1>6. ~NoOver(r)  BY <1>1, <1>2, <1>4 DEF NoOver
<1>7. \A other \in {2, 6} : OneOver(r, other) => other = type
  BY <1>1, <1>2, <1>3, OverCmd DEF OneOver
<1>. QED  BY <1>5, <1>6, <1>7 DEF r, m

(* Taking a head that is no OVER event is quiet; taking the one OVER event *)
(* leaves none.                                                            *)
LEMMA OverTail ==
    ASSUME NEW q \in Seq(InnerMsg), q # << >>
    PROVE  /\ Head(q).cmd # "OVER" => Quiet(q, Tail(q))
           /\ NoOver(q) => NoOver(Tail(q)) /\ Head(q).cmd # "OVER"
           /\ \A type \in {2, 6} : OneOver(q, type) /\ Head(q).cmd = "OVER" =>
                 Head(q) = OverMsg(type) /\ NoOver(Tail(q))
<1> DEFINE r == Tail(q)
           n == Len(q)
<1>1. /\ DOMAIN q = 1 .. n /\ n \in Nat /\ n > 0 /\ DOMAIN r = 1 .. n - 1
      /\ Head(q) = q[1] /\ \A i \in 1 .. n - 1 : r[i] = q[i + 1]
  BY QueuePlaces
<1>. HIDE DEF r, n
<1>2. /\ 1 \in DOMAIN q
      /\ \A i \in DOMAIN r : i \in Int /\ i + 1 \in DOMAIN q /\ r[i] = q[i + 1] /\ i + 1 # 1
  BY <1>1
<1>3. \A j \in DOMAIN q : j \in Int /\ (j # 1 => j - 1 \in DOMAIN r /\ r[j - 1] = q[j])
  <2>1. ASSUME NEW j \in DOMAIN q, j # 1 PROVE j - 1 \in DOMAIN r /\ r[j - 1] = q[j]
    <3>1. j \in Int /\ j - 1 \in 1 .. n - 1 /\ (j - 1) + 1 = j  BY <1>1, <2>1
    <3>. QED  BY <1>1, <3>1
  <2>. QED  BY <1>1, <2>1
<1>4. ASSUME Head(q).cmd # "OVER" PROVE Quiet(q, r)
  <2>1. NoOver(q) <=> NoOver(r)
    <3>1. ASSUME NoOver(q) PROVE NoOver(r)  BY <1>2, <3>1 DEF NoOver
    <3>2. ASSUME NoOver(r), NEW i \in DOMAIN q PROVE q[i].cmd # "OVER"
      BY <1>1, <1>3, <1>4, <3>2 DEF NoOver
    <3>. QED  BY <3>1, <3>2 DEF NoOver
  <2>2. ASSUME NEW type \in {2, 6}, OneOver(q, type) PROVE OneOver(r, type)
    <3>1. PICK i \in DOMAIN q : q[i] = OverMsg(type)
                                /\ \A j \in DOMAIN q : q[j].cmd = "OVER" => j = i
      BY <2>2 DEF OneOver
    <3>2. i # 1  BY <1>1, <1>4, <3>1, OverCmd
    <3>3. i - 1 \in DOMAIN r /\ r[i - 1] = OverMsg(type)  BY <1>3, <3>1, <3>2
    <3>4. ASSUME NEW j \in DOMAIN r, r[j].cmd = "OVER" PROVE j = i - 1
      <4>1. j + 1 = i /\ j \in Int  BY <1>2, <3>1, <3>4
      <4>. QED  BY <1>3, <4>1
    <3>. QED  BY <3>3, <3>4 DEF OneOver
  <2>3. ASSUME NEW type \in {2, 6}, OneOver(r, type) PROVE OneOver(q, type)
    <3>1. PICK i \in DOMAIN r : r[i] = OverMsg(type)
                                /\ \A j \in DOMAIN r : r[j].cmd = "OVER" => j = i
      BY <2>3 DEF OneOver
    <3>2. i + 1 \in DOMAIN q /\ q[i + 1] = OverMsg(type)  BY <1>2, <3>1
    <3>3. ASSUME NEW j \in DOMAIN q, q[j].cmd = "OVER" PROVE j = i + 1
      <4>1. j # 1  BY <1>1, <1>4, <3>3
      <4>2. j \in Int /\ j - 1 = i  BY <1>3, <3>1, <3>3, <4>1
      <4>. QED  BY <1>2, <4>2
    <3>. QED  BY <3>2, <3>3 DEF OneOver
  <2>. QED  BY <2>1, <2>2, <2>3 DEF Quiet
<1>5. NoOver(q) => NoOver(r) /\ Head(q).cmd # "OVER"  BY <1>1, <1>2 DEF NoOver
<1>6. ASSUME NEW type \in {2, 6}, OneOver(q, type), Head(q).cmd = "OVER"
      PROVE  Head(q) = OverMsg(type) /\ NoOver(r)
  <2>1. PICK i \in DOMAIN q : q[i] = OverMsg(type)
                              /\ \A j \in DOMAIN q : q[j].cmd = "OVER" => j = i
    BY <1>6 DEF OneOver
  <2>2. i = 1  BY <1>1, <1>2, <1>6, <2>1
  <2>3. \A j \in DOMAIN r : r[j].cmd # "OVER"  BY <1>2, <2>1, <2>2
  <2>. QED  BY <1>1, <2>1, <2>2, <2>3 DEF NoOver
<1>. QED  BY <1>4, <1>5, <1>6 DEF r

(* t and u are the same for the game and for who may move it; what may     *)
(* differ is who is trusted, the robots' buffers, the timers and the       *)
(* inner messages.                                                         *)
SameGame(t, u) ==
    /\ SameTurn(t, u)
    /\ u.state = t.state /\ u.round = t.round /\ u.dealer = t.dealer
    /\ u.dealer2 = t.dealer2 /\ u.jiao = t.jiao
    /\ u.last_winner = t.last_winner /\ u.trust_err = t.trust_err
    /\ \A s \in Seats :
         /\ u.seats[s].state = t.seats[s].state
         /\ u.seats[s].robot = t.seats[s].robot
         /\ u.seats[s].times = t.seats[s].times
         /\ u.seats[s].is_jiao = t.seats[s].is_jiao
         /\ u.seats[s].hand = t.seats[s].hand
         /\ u.seats[s].token = t.seats[s].token

(* The game does not move from t to u, and no OVER event comes or goes.    *)
Still(t, u) == SameGame(t, u) /\ Quiet(t.inner, u.inner)

(* A game that does not move twice does not move.                          *)
LEMMA StillTwice ==
    ASSUME NEW t, NEW u, NEW v, Still(t, u), Still(u, v)
    PROVE  Still(t, v)
BY DEF Still, SameGame, SameTurn, Quiet

(* Where nothing changes, the game does not move.                          *)
LEMMA StillSelf == \A t : Still(t, t)
BY DEF Still, SameGame, SameTurn, Quiet

(* Pushing a message that opens no turn does not move the game.            *)
LEMMA PushStill ==
    ASSUME NEW t, NEW m \in InnerMsg, m.cmd # "OVER", Sound(t)
    PROVE  Still(t, PushInnerMsg(t, m))
<1>1. t.inner \in Seq(InnerMsg)  BY DEF Sound, TableRec
<1>2. PushInnerMsg(t, m).inner = Append(t.inner, m)
  BY DEF PushInnerMsg, Sound, TableRec
<1>3. SameGame(t, PushInnerMsg(t, m))
  BY DEF SameGame, SameTurn, PushInnerMsg, Sound, TableRec
<1>. QED  BY <1>1, <1>2, <1>3, QuietAppend DEF Still

(* An automatic action says who acts, how, and under which token.          *)
LEMMA AutoCmd ==
    \A s, act, cards, token :
        /\ AutoMsg(s, act, cards, token).cmd = "AUTO"
        /\ AutoMsg(s, act, cards, token).seat = s
        /\ AutoMsg(s, act, cards, token).act = act
        /\ AutoMsg(s, act, cards, token).cards = cards
        /\ AutoMsg(s, act, cards, token).token = token
BY DEF AutoMsg

(* Neither does the action that DoDefaultAction pushes, ...                *)
LEMMA DefaultStill ==
    ASSUME NEW t, NEW s \in Seats, Sound(t)
    PROVE  Still(t, DoDefaultAction(t, s))
<1> DEFINE u == [t EXCEPT !.seats[s].trust = TRUE]
           cs == t.seats[s].choices
           act == IF cs \cap PassActs # {} THEN CHOOSE a \in cs : a \in PassActs
                  ELSE CHOOSE a \in cs : TRUE
           cards == IF act = "CHUPAI" /\ t.seats[s].hand >= 1 THEN 1 ELSE 0
<1>1. t.seats[s] \in SeatRec  BY DEF Sound, TableRec
<1>2. Sound(u) /\ SameGame(t, u) /\ u.inner = t.inner
  BY <1>1 DEF Sound, SameGame, SameTurn, TableRec, SeatRec
<1>3. Still(t, u)  BY <1>2 DEF Still, Quiet
<1>4. CASE cs = {}  BY <1>3, <1>4 DEF DoDefaultAction
<1>5. CASE cs # {}
  <2>1. act \in cs  BY <1>5
  <2>2. act \in ActTypes  BY <1>1, <2>1 DEF SeatRec
  <2>3. cards \in Nat /\ t.seats[s].token \in Nat  BY <1>1 DEF SeatRec
  <2>. DEFINE m == AutoMsg(s, act, cards, t.seats[s].token)
  <2>4. m \in InnerMsg  BY <2>2, <2>3, MsgTypes
  <2>5. m.cmd # "OVER"  BY AutoCmd
  <2>6. DoDefaultAction(t, s) = PushInnerMsg(u, m)  BY <1>5 DEF DoDefaultAction
  <2>7. Still(u, PushInnerMsg(u, m))
    <3>. HIDE DEF u, m
    <3>. QED  BY <1>2, <2>4, <2>5, PushStill
  <2>. HIDE DEF u, m
  <2>. QED  BY <1>3, <2>6, <2>7, StillTwice
<1>. QED  BY <1>4, <1>5

(* ... the notification, ...                                               *)
LEMMA NotifyStill ==
    ASSUME NEW t, NEW s \in Seats, Sound(t)
    PROVE  Still(t, NotifyOperationChoice(t, s)) /\ NotifyOperationChoice(t, s).inner = t.inner
<1>1. SameGame(t, NotifyOperationChoice(t, s)) /\ NotifyOperationChoice(t, s).inner = t.inner
  BY DEF Sound, TableRec, SameGame, SameTurn, NotifyOperationChoice
<1>. QED  BY <1>1 DEF Still, Quiet

(* ... or the robot, whose buffer has the timer behind it.                 *)
LEMMA RobotStill ==
    ASSUME NEW t, NEW s \in Seats, NEW pick, Sound(t)
    PROVE  /\ Still(t, RobotDoAction(t, s, pick))
           /\ RobotDoAction(t, s, pick).inner = t.inner
           /\ RobotDoAction(t, s, pick).seats[s].buff # NoAct =>
                 RobotDoAction(t, s, pick).robot_timer
<1> DEFINE found == {a \in t.seats[s].choices :
                       pick = IF a \in PassActs THEN "pass" ELSE "play"}
           a == CHOOSE a \in found : TRUE
           u == IF found = {} THEN t ELSE [t EXCEPT !.seats[s].buff = a]
           v == [u EXCEPT !.robot_timer = TRUE]
<1>1. t.seats[s] \in SeatRec  BY DEF Sound, TableRec
<1>2. found # {} => a \in ActTypes
  <2>1. found # {} => a \in found  OBVIOUS
  <2>. QED  BY <1>1, <2>1 DEF SeatRec
<1>3. u \in TableRec /\ SameGame(t, u) /\ u.inner = t.inner
  <2>1. CASE found = {}  BY <2>1 DEF SameGame, SameTurn, Sound
  <2>2. CASE found # {}
    <3>1. a \in ActTypes  BY <1>2, <2>2
    <3>2. u = [t EXCEPT !.seats[s].buff = a]  BY <2>2
    <3>. HIDE DEF u, a, found
    <3>. QED  BY <1>1, <3>1, <3>2 DEF Sound, SameGame, SameTurn, TableRec, SeatRec
  <2>. QED  BY <2>1, <2>2
<1>4. RobotDoAction(t, s, pick) = IF u.seats[s].buff = NoAct THEN u ELSE v
  BY DEF RobotDoAction
<1>. HIDE DEF u
<1>5. SameGame(u, v) /\ v.inner = u.inner /\ v.seats = u.seats /\ v.robot_timer = TRUE
  BY <1>3 DEF SameGame, SameTurn, TableRec
<1>. HIDE DEF v
<1>6. SameGame(t, v) /\ v.inner = t.inner  BY <1>3, <1>5 DEF SameGame, SameTurn
<1>. QED  BY <1>3, <1>4, <1>5, <1>6 DEF Still, Quiet

(* Whoever is asked, the asking does not move the game; a robot that has   *)
(* an action in its buffer has the timer.                                  *)
LEMMA AfterAddStill ==
    ASSUME NEW t, NEW s \in Seats, NEW pick, Sound(t)
    PROVE  /\ Still(t, OnOperateAfterAddChoice(t, s, pick))
           /\ ~t.seats[s].trust => OnOperateAfterAddChoice(t, s, pick).inner = t.inner
           /\ t.seats[s].robot /\ OnOperateAfterAddChoice(t, s, pick).seats[s].buff # NoAct
                 => OnOperateAfterAddChoice(t, s, pick).robot_timer
<1>1. CASE t.seats[s].robot
  BY <1>1, RobotStill DEF OnOperateAfterAddChoice
<1>2. CASE ~t.seats[s].robot /\ t.seats[s].trust
  BY <1>2, DefaultStill DEF OnOperateAfterAddChoice
<1>3. CASE ~t.seats[s].robot /\ ~t.seats[s].trust
  BY <1>3, NotifyStill DEF OnOperateAfterAddChoice
<1>. QED  BY <1>1, <1>2, <1>3

(* The operation timer acts for the seats through the inner queue only.    *)
LEMMA TimeOutStill ==
    ASSUME NEW t, Sound(t)
    PROVE  Still(t, OnOperationTimeOut(t))
<1>1. ASSUME NEW u, NEW s \in Seats, Sound(u)
      PROVE  Sound(TimeOutSeat(u, s)) /\ Still(u, TimeOutSeat(u, s))
  BY <1>1, DefaultSound, DefaultStill, StillSelf DEF TimeOutSeat
<1>2. 0 \in Seats /\ 1 \in Seats /\ 2 \in Seats  BY DEF Seats, SeatNum
<1>. DEFINE a == TimeOutSeat(t, 0)
            b == TimeOutSeat(a, 1)
<1>3. Sound(a) /\ Still(t, a)  BY <1>1, <1>2
<1>. HIDE DEF a
<1>4. Sound(b) /\ Still(a, b)  BY <1>1, <1>2, <1>3
<1>5. OnOperationTimeOut(t) = TimeOutSeat(b, 2)  BY DEF OnOperationTimeOut, a
<1>. HIDE DEF b
<1>6. Still(b, TimeOutSeat(b, 2))  BY <1>1, <1>2, <1>4
<1>7. Still(t, b)  BY <1>3, <1>4, StillTwice
<1>. QED  BY <1>5, <1>6, <1>7, StillTwice

(* So does the robot timer, and it leaves no buffer filled.                *)
LEMMA RobotTimeOutStill ==
    ASSUME NEW t, NEW cards \in Nat, Sound(t)
    PROVE  /\ Still(t, OnRobotTimerTimeOut(t, cards))
           /\ \A s \in Seats : OnRobotTimerTimeOut(t, cards).seats[s].buff = NoAct
<1>1. ASSUME NEW u, NEW s \in Seats, Sound(u)
      PROVE  /\ Sound(RobotSeat(u, s, cards)) /\ Still(u, RobotSeat(u, s, cards))
             /\ \A r \in Seats : RobotSeat(u, s, cards).seats[r].buff =
                    IF r = s THEN NoAct ELSE u.seats[r].buff
  <2> DEFINE seat == u.seats[s]
             k == IF seat.buff = "CHUPAI" /\ seat.robot THEN cards ELSE 0
             m == AutoMsg(s, seat.buff, k, seat.token)
             v == IF seat.buff \in seat.choices /\ ~seat.det
                  THEN PushInnerMsg(u, m) ELSE u
             w == [v EXCEPT !.seats[s].buff = NoAct]
  <2>1. RobotSeat(u, s, cards) = w  BY DEF RobotSeat
  <2>2. seat \in SeatRec  BY <1>1 DEF Sound, TableRec
  <2>3. k \in Nat /\ seat.token \in Nat  BY <2>2 DEF SeatRec
  <2>. HIDE DEF k
  <2>4. seat.buff \in seat.choices => m \in InnerMsg
    BY <2>2, <2>3, MsgTypes DEF SeatRec
  <2>5. m.cmd # "OVER"  BY AutoCmd
  <2>6. PushInnerMsg(u, m).seats = u.seats  BY <1>1 DEF PushInnerMsg, Sound, TableRec
  <2>. HIDE DEF m, seat
  <2>7. Sound(v) /\ Still(u, v) /\ v.seats = u.seats
    BY <1>1, <2>4, <2>5, <2>6, PushSound, PushStill, StillSelf
  <2>. HIDE DEF v
  <2>8. /\ Sound(w) /\ SameGame(v, w) /\ w.inner = v.inner
        /\ \A r \in Seats : w.seats[r].buff = IF r = s THEN NoAct ELSE v.seats[r].buff
    <3> DEFINE x == [v.seats[s] EXCEPT !.buff = NoAct]
               g == [v.seats EXCEPT ![s] = x]
    <3>1. v.seats \in [Seats -> SeatRec]  BY <2>7 DEF Sound, TableRec
    <3>2. v.seats[s] \in SeatRec  BY <3>1
    <3>3. /\ x \in SeatRec /\ x.buff = NoAct /\ x.choices = v.seats[s].choices
          /\ x.det = v.seats[s].det /\ x.state = v.seats[s].state
          /\ x.robot = v.seats[s].robot /\ x.times = v.seats[s].times
          /\ x.is_jiao = v.seats[s].is_jiao /\ x.hand = v.seats[s].hand
          /\ x.token = v.seats[s].token
      BY <3>2 DEF SeatRec
    <3>4. w = [v EXCEPT !.seats = g]  OBVIOUS
    <3>. HIDE DEF x, w
    <3>5. g \in [Seats -> SeatRec]  BY <3>1, <3>3
    <3>6. \A r \in Seats : g[r] = IF r = s THEN x ELSE v.seats[r]  BY <3>1
    <3>. HIDE DEF g
    <3>7. Sound(w) /\ w.seats = g /\ w.inner = v.inner
      BY <2>7, <3>4, <3>5 DEF Sound, TableRec
    <3>8. SameGame(v, w)
      BY <2>7, <3>3, <3>4, <3>6, <3>7 DEF Sound, TableRec, SameGame, SameTurn
    <3>9. \A r \in Seats : w.seats[r].buff = IF r = s THEN NoAct ELSE v.seats[r].buff
      BY <3>3, <3>6, <3>7
    <3>. QED  BY <3>7, <3>8, <3>9
  <2>. HIDE DEF w
  <2>9. Still(v, w)  BY <2>8 DEF Still, Quiet
  <2>. QED  BY <2>1, <2>7, <2>8, <2>9, StillTwice
<1>2. 0 \in Seats /\ 1 \in Seats /\ 2 \in Seats /\ \A s \in Seats : s \in {0, 1, 2}
  BY DEF Seats, SeatNum
<1>. DEFINE a == RobotSeat(t, 0, cards)
            b == RobotSeat(a, 1, cards)
            c == RobotSeat(b, 2, cards)
<1>3. /\ Sound(a) /\ Still(t, a)
      /\ \A r \in Seats : a.seats[r].buff = IF r = 0 THEN NoAct ELSE t.seats[r].buff
  BY <1>1, <1>2
<1>. HIDE DEF a
<1>4. /\ Sound(b) /\ Still(a, b)
      /\ \A r \in Seats : b.seats[r].buff = IF r = 1 THEN NoAct ELSE a.seats[r].buff
  BY <1>1, <1>2, <1>3
<1>. HIDE DEF b
<1>5. /\ Still(b, c)
      /\ \A r \in Seats : c.seats[r].buff = IF r = 2 THEN NoAct ELSE b.seats[r].buff
  BY <1>1, <1>2, <1>4
<1>6. OnRobotTimerTimeOut(t, cards) = c  BY DEF OnRobotTimerTimeOut, a, b
<1>. HIDE DEF c
<1>7. Still(t, b)  BY <1>3, <1>4, StillTwice
<1>8. Still(t, c)  BY <1>5, <1>7, StillTwice
<1>9. \A r \in Seats : c.seats[r].buff = NoAct  BY <1>2, <1>3, <1>4, <1>5
<1>. QED  BY <1>6, <1>8, <1>9

(***************************************************************************)
(* Asking a seat: what the operators that open a turn leave behind.        *)
(***************************************************************************)
AllPlay(t) == \A s \in Seats : t.seats[s].state = "PLAYING"

(* A robot that is asked and has an action in its buffer has the timer.    *)
RobotsTimed(t) ==
    \A s \in Seats :
        t.seats[s].choices # {} /\ t.seats[s].robot /\ t.seats[s].buff # NoAct
            => t.robot_timer

(* The message is an action the seat may take when it is drained.          *)
ValidAuto(t, s, m) ==
    /\ m.cmd = "AUTO" /\ m.seat = s /\ m.act \in t.seats[s].choices
    /\ m.token = t.seats[s].token
    /\ m.act = "CHUPAI" => m.cards \in 1 .. t.seats[s].hand

Backed(t, s) ==
    t.off_timer \/ \E i \in DOMAIN t.inner : ValidAuto(t, s, t.inner[i])

(* A player who is asked has the operation timer or an automatic action    *)
(* behind him.                                                             *)
PlayersBacked(t) ==
    \A s \in Seats :
        t.seats[s].choices # {} /\ ~t.seats[s].robot /\ Occupied(t, s)
          /\ t.seats[s].hand >= 1 => Backed(t, s)

Prompted(t) == RobotsTimed(t) /\ PlayersBacked(t)

(* The automatic action of a trusted seat is one it may take.              *)
LEMMA DefaultBacked ==
    ASSUME NEW t, NEW s \in Seats, Sound(t), t.seats[s].choices # {},
           t.seats[s].hand >= 1
    PROVE  Backed(DoDefaultAction(t, s), s)
<1> DEFINE u == [t EXCEPT !.seats[s].trust = TRUE]
           cs == t.seats[s].choices
           act == IF cs \cap PassActs # {} THEN CHOOSE a \in cs : a \in PassActs
                  ELSE CHOOSE a \in cs : TRUE
           cards == IF act = "CHUPAI" /\ t.seats[s].hand >= 1 THEN 1 ELSE 0
           m == AutoMsg(s, act, cards, t.seats[s].token)
           w == PushInnerMsg(u, m)
<1>1. t.seats[s] \in SeatRec  BY DEF Sound, TableRec
<1>2. u \in TableRec /\ u.inner = t.inner /\ u.seats[s].choices = cs
      /\ u.seats[s].token = t.seats[s].token /\ u.seats[s].hand = t.seats[s].hand
  BY <1>1 DEF Sound, TableRec, SeatRec
<1>3. act \in cs
  OBVIOUS
<1>4. act \in ActTypes  BY <1>1, <1>3 DEF SeatRec
<1>5. cards \in Nat /\ t.seats[s].token \in Nat /\ t.seats[s].hand \in Nat
      /\ (act = "CHUPAI" => cards = 1)
  BY <1>1 DEF SeatRec
<1>6. m \in InnerMsg  BY <1>4, <1>5, MsgTypes
<1>7. /\ m.cmd = "AUTO" /\ m.seat = s /\ m.act = act /\ m.cards = cards
      /\ m.token = t.seats[s].token
  BY AutoCmd
<1>8. DoDefaultAction(t, s) = w  BY DEF DoDefaultAction
<1>. HIDE DEF u, m, act, cards
<1>9. u.inner \in Seq(InnerMsg)  BY <1>2 DEF TableRec
<1>10. w.inner = Append(u.inner, m) /\ w.seats = u.seats
  BY <1>2 DEF PushInnerMsg, TableRec
<1>. HIDE DEF w
<1>11. Len(u.inner) + 1 \in DOMAIN w.inner /\ w.inner[Len(u.inner) + 1] = m
  BY <1>6, <1>9, <1>10, QueuePlaces
<1>12. 1 \in 1 .. t.seats[s].hand  BY <1>5
<1>13. ValidAuto(w, s, m)
  BY <1>2, <1>3, <1>5, <1>7, <1>10, <1>12 DEF ValidAuto
<1>. QED  BY <1>8, <1>11, <1>13 DEF Backed

(* Whoever was just asked is prompted to act.                              *)
LEMMA AskPrompts ==
    ASSUME NEW t, NEW s \in Seats, NEW pick, Sound(t),
           \A r \in Seats : t.seats[r].choices # {} => r = s,
           t.seats[s].det = FALSE
    PROVE  Prompted(OnOperateAfterAddChoice(t, s, pick))
<1> DEFINE u == OnOperateAfterAddChoice(t, s, pick)
<1>1. Still(t, u) /\ (t.seats[s].robot /\ u.seats[s].buff # NoAct => u.robot_timer)
  BY AfterAddStill
<1>2. \A r \in Seats : /\ u.seats[r].choices # {} => r = s
                       /\ u.seats[r].robot = t.seats[r].robot
                       /\ u.seats[r].state = t.seats[r].state
                       /\ u.seats[r].hand = t.seats[r].hand
                       /\ u.seats[r].choices = t.seats[r].choices
  <2>. HIDE DEF u
  <2>. QED  BY <1>1 DEF Still, SameGame, SameTurn
<1>3. RobotsTimed(u)
  <2>. HIDE DEF u
  <2>. QED  BY <1>1, <1>2 DEF RobotsTimed
<1>4. ASSUME t.seats[s].choices # {}, ~t.seats[s].robot, Occupied(t, s),
             t.seats[s].hand >= 1
      PROVE  Backed(u, s)
  <2>1. CASE t.seats[s].trust
    BY <1>4, <2>1, DefaultBacked DEF OnOperateAfterAddChoice
  <2>2. CASE ~t.seats[s].trust
    <3>1. u = [t EXCEPT !.off_timer = TRUE]
      BY <1>4, <2>2 DEF OnOperateAfterAddChoice, NotifyOperationChoice, Open
    <3>2. u.off_timer  BY <3>1 DEF Sound, TableRec
    <3>. QED  BY <3>2 DEF Backed
  <2>. QED  BY <2>1, <2>2
<1>5. PlayersBacked(u)
  <2>. HIDE DEF u
  <2>1. ASSUME NEW r \in Seats, u.seats[r].choices # {}, ~u.seats[r].robot,
               Occupied(u, r), u.seats[r].hand >= 1
        PROVE  Backed(u, r)
    <3>1. r = s  BY <1>2, <2>1
    <3>2. t.seats[s].choices # {} /\ Occupied(t, s)  BY <1>2, <2>1, <3>1 DEF Occupied
    <3>3. ~t.seats[s].robot /\ t.seats[s].hand >= 1  BY <1>2, <2>1, <3>1
    <3>. QED  BY <1>4, <3>1, <3>2, <3>3
  <2>. QED  BY <2>1 DEF PlayersBacked
<1>. QED  BY <1>3, <1>5 DEF Prompted

(* From t to u seat s, and no other, is asked for acts.                    *)
Asking(t, u, s, acts) ==
    /\ u.state = t.state /\ u.dealer = t.dealer /\ u.dealer2 = t.dealer2
    /\ u.jiao = t.jiao /\ u.flow = t.flow /\ u.trust_err = t.trust_err
    /\ u.round = t.round
    /\ \A r \in Seats : /\ u.seats[r].state = t.seats[r].state
                        /\ u.seats[r].times = t.seats[r].times
                        /\ u.seats[r].is_jiao = t.seats[r].is_jiao
                        /\ u.seats[r].hand = t.seats[r].hand
                        /\ u.seats[r].robot = t.seats[r].robot
                        /\ u.seats[r].det = FALSE
                        /\ u.seats[r].choices = IF r = s THEN acts ELSE {}
    /\ Quiet(t.inner, u.inner)
    /\ Prompted(u)

(* OfferBid asks the seat, and leaves the inner queue to a trusted seat.   *)
LEMMA OfferAsks ==
    ASSUME NEW t, NEW s \in Seats, NEW pick, Sound(t), NoTurn(t),
           NEW acts \in SUBSET (ActTypes \ {"CHUPAI"})
    PROVE  /\ Asking(t, OfferBid(t, s, acts, pick), s, acts)
           /\ ~t.seats[s].trust => OfferBid(t, s, acts, pick).inner = t.inner
<1> DEFINE f == [t.seats EXCEPT ![s] = Asked(t.seats[s], acts)]
           u == [t EXCEPT !.op = s, !.seats = f]
           v == OnOperateAfterAddChoice(u, s, pick)
<1>1. t.seats \in [Seats -> SeatRec]  BY DEF Sound, TableRec
<1>2. acts \in SUBSET ActTypes  OBVIOUS
<1>3. f \in [Seats -> SeatRec]  BY <1>1, <1>2, AskedType
<1>4. \A r \in Seats : /\ f[r].choices = IF r = s THEN acts ELSE {}
                       /\ f[r].det = FALSE
                       /\ f[r].state = t.seats[r].state
                       /\ f[r].times = t.seats[r].times
                       /\ f[r].is_jiao = t.seats[r].is_jiao
                       /\ f[r].hand = t.seats[r].hand
                       /\ f[r].robot = t.seats[r].robot
                       /\ f[r].trust = t.seats[r].trust
  <2>1. t.seats[s] \in SeatRec  BY <1>1
  <2>2. LET x == Asked(t.seats[s], acts) IN
          /\ x.choices = acts /\ x.det = t.seats[s].det
          /\ x.state = t.seats[s].state /\ x.times = t.seats[s].times
          /\ x.is_jiao = t.seats[s].is_jiao /\ x.hand = t.seats[s].hand
          /\ x.robot = t.seats[s].robot /\ x.trust = t.seats[s].trust
    BY <2>1 DEF Asked, SeatRec
  <2>. HIDE DEF f
  <2>3. \A r \in Seats : f[r] = IF r = s THEN Asked(t.seats[s], acts) ELSE t.seats[r]
    BY <1>1 DEF f
  <2>. QED  BY <2>2, <2>3 DEF NoTurn
<1>5. OfferBid(t, s, acts, pick) = v  BY DEF OfferBid
<1>. HIDE DEF f
<1>6. /\ Sound(u) /\ u.seats = f /\ u.inner = t.inner /\ u.flow = t.flow
      /\ u.state = t.state /\ u.dealer = t.dealer /\ u.dealer2 = t.dealer2
      /\ u.jiao = t.jiao /\ u.trust_err = t.trust_err /\ u.round = t.round
  BY <1>3 DEF Sound, TableRec
<1>. HIDE DEF u
<1>7. Still(u, v) /\ (~u.seats[s].trust => v.inner = u.inner)
  BY <1>6, AfterAddStill
<1>8. Prompted(v)  BY <1>4, <1>6, AskPrompts
<1>. HIDE DEF v
<1>9. Asking(t, v, s, acts)
  BY <1>4, <1>6, <1>7, <1>8 DEF Asking, Still, SameGame, SameTurn
<1>. QED  BY <1>4, <1>5, <1>6, <1>7, <1>9

(* A seat's first turn of the bidding: the seat at jiao_dizhu_index is     *)
(* asked to call and the index moves on, every other is asked to raise.    *)
LEMMA FirstBidAsks ==
    ASSUME NEW t, NEW s \in Seats, NEW pick, Sound(t), NoTurn(t)
    PROVE  /\ t.jiao = s => Asking([t EXCEPT !.jiao = NextSeat(s)],
                                   FirstBid(t, s, pick), s, {"JIAO", "BU_JIAO"})
           /\ t.jiao # s => Asking(t, FirstBid(t, s, pick), s, {"QIANG", "BU_QIANG"})
           /\ ~t.seats[s].trust => FirstBid(t, s, pick).inner = t.inner
<1> DEFINE u == [t EXCEPT !.jiao = NextSeat(s)]
<1>1. Sound(u) /\ u.seats = t.seats /\ u.inner = t.inner
  BY NextSeatType DEF Sound, TableRec
<1>2. NoTurn(u)  BY <1>1 DEF NoTurn
<1>3. /\ {"JIAO", "BU_JIAO"} \in SUBSET (ActTypes \ {"CHUPAI"})
      /\ {"QIANG", "BU_QIANG"} \in SUBSET (ActTypes \ {"CHUPAI"})
  BY DEF ActTypes, PassActs, CallActs
<1>4. FirstBid(t, s, pick) =
        IF t.jiao = s THEN OfferBid(u, s, {"JIAO", "BU_JIAO"}, pick)
        ELSE OfferBid(t, s, {"QIANG", "BU_QIANG"}, pick)
  BY DEF FirstBid
<1>. HIDE DEF u
<1>5. /\ Asking(u, OfferBid(u, s, {"JIAO", "BU_JIAO"}, pick), s, {"JIAO", "BU_JIAO"})
      /\ ~u.seats[s].trust => OfferBid(u, s, {"JIAO", "BU_JIAO"}, pick).inner = u.inner
  BY <1>1, <1>2, <1>3, OfferAsks
<1>6. /\ Asking(t, OfferBid(t, s, {"QIANG", "BU_QIANG"}, pick), s, {"QIANG", "BU_QIANG"})
      /\ ~t.seats[s].trust => OfferBid(t, s, {"QIANG", "BU_QIANG"}, pick).inner = t.inner
  BY <1>3, OfferAsks
<1>7. CASE t.jiao = s  BY <1>1, <1>4, <1>5, <1>7 DEF u
<1>8. CASE t.jiao # s  BY <1>4, <1>6, <1>8
<1>. QED  BY <1>7, <1>8

(* A round just dealt: its dealer is asked whether he calls.               *)
Fresh(t) ==
    /\ t.state = "WAIT_QIANG" /\ t.flow = NoFlow
    /\ t.dealer \in Seats /\ t.dealer2 = NoSeat /\ t.jiao = NextSeat(t.dealer)
    /\ \A s \in Seats :
         /\ t.seats[s].state = "PLAYING" /\ t.seats[s].times = 0
         /\ t.seats[s].is_jiao = FALSE /\ t.seats[s].hand = HandSize
         /\ t.seats[s].det = FALSE
         /\ t.seats[s].choices = IF s = t.dealer THEN {"JIAO", "BU_JIAO"} ELSE {}
    /\ Prompted(t)

(* GameStart_1 deals such a round, and leaves the inner queue to those who *)
(* use it; or it has no dealer.                                            *)
LEMMA StartDeals ==
    ASSUME NEW t \in TableRec, NEW r \in Int, r + 1 \in Nat,
           NEW drawn \in Seats, NEW pick
    PROVE  LET u == GameStart_1([t EXCEPT !.round = r], drawn, pick)
           IN  /\ u.state = "UB" \/ (Fresh(u) /\ u.inner = t.inner /\ u.round = r + 1)
               /\ \A s \in Seats : u.seats[s].robot = t.seats[s].robot
<1> DEFINE v == [t EXCEPT !.round = r]
           f == [s \in Seats |-> DealtSeat(v.seats[s])]
           dealer == IF r + 1 = 1 THEN drawn ELSE v.last_winner
           dealt == [v EXCEPT !.round = r + 1, !.state = "WAIT_QIANG",
                              !.flow = NoFlow, !.dealer = dealer,
                              !.jiao = dealer, !.dealer2 = NoSeat,
                              !.last_winner = NoSeat, !.op = NoSeat, !.seats = f]
           u == FirstBid(dealt, dealer, pick)
           w == [dealt EXCEPT !.jiao = NextSeat(dealer)]
           lost == [dealt EXCEPT !.state = "UB"]
<1>1. ASSUME NEW s \in Seats
      PROVE  /\ f[s] \in SeatRec /\ f[s].choices = {} /\ f[s].det = FALSE
             /\ f[s].state = "PLAYING" /\ f[s].times = 0 /\ f[s].is_jiao = FALSE
             /\ f[s].hand = HandSize /\ f[s].trust = FALSE
             /\ f[s].robot = t.seats[s].robot
  <2>1. v.seats[s] \in SeatRec /\ v.seats = t.seats  BY DEF TableRec
  <2>. QED  BY <2>1, TableAssumption DEF DealtSeat, SeatRec, SeatStates
<1>2. f \in [Seats -> SeatRec]  BY <1>1
<1>3. dealer \in Seats \cup {NoSeat}  BY DEF TableRec
<1>4. NoFlow \in FlowRec  BY DEF NoFlow, FlowRec, Seats, SeatNum
<1>5. GameStart_1(v, drawn, pick) =
        IF dealer = NoSeat THEN lost ELSE u
  BY DEF GameStart_1, TableRec
<1>. HIDE DEF f, dealer
<1>6. /\ dealt \in TableRec
      /\ dealt.dealer = dealer /\ dealt.jiao = dealer /\ dealt.seats = f
      /\ dealt.state = "WAIT_QIANG" /\ dealt.flow = NoFlow
      /\ dealt.dealer2 = NoSeat /\ dealt.inner = t.inner /\ dealt.round = r + 1
  <2>. HIDE DEF u, w
  <2>. QED  BY <1>2, <1>3, <1>4 DEF TableRec, TableStates
<1>10. /\ lost.state = "UB"
       /\ lost.seats = f
       /\ w.dealer = dealer /\ w.jiao = NextSeat(dealer) /\ w.seats = f
       /\ w.state = "WAIT_QIANG" /\ w.flow = NoFlow
       /\ w.dealer2 = NoSeat /\ w.inner = t.inner /\ w.round = r + 1
  <2>. HIDE DEF dealt, u
  <2>. QED  BY <1>6 DEF TableRec
<1>7. CASE dealer = NoSeat
  <2>. HIDE DEF dealt, u, w, lost
  <2>. QED  BY <1>1, <1>5, <1>7, <1>10
<1>8. CASE dealer # NoSeat
  <2>1. dealer \in Seats  BY <1>3, <1>8
  <2>2. Sound(dealt) /\ NoTurn(dealt)
    <3>. HIDE DEF dealt
    <3>. QED  BY <1>1, <1>6, <2>1 DEF Sound, NoTurn
  <2>3. /\ Asking(w, u, dealer, {"JIAO", "BU_JIAO"})
        /\ u.inner = t.inner
    <3>. HIDE DEF dealt
    <3>1. /\ dealt.jiao = dealer => Asking(w, u, dealer, {"JIAO", "BU_JIAO"})
          /\ ~dealt.seats[dealer].trust => u.inner = dealt.inner
      BY <2>1, <2>2, FirstBidAsks
    <3>. HIDE DEF u, w
    <3>. QED  BY <1>1, <1>6, <2>1, <3>1
  <2>. HIDE DEF dealt, u, w, lost
  <2>4. /\ u.state = "WAIT_QIANG" /\ u.flow = NoFlow /\ u.dealer = dealer
        /\ u.dealer2 = NoSeat /\ u.jiao = NextSeat(dealer) /\ Prompted(u)
        /\ u.round = r + 1
    BY <1>10, <2>3 DEF Asking
  <2>5. ASSUME NEW s \in Seats
        PROVE  /\ u.seats[s].state = f[s].state /\ u.seats[s].times = f[s].times
               /\ u.seats[s].is_jiao = f[s].is_jiao /\ u.seats[s].hand = f[s].hand
               /\ u.seats[s].robot = f[s].robot /\ u.seats[s].det = FALSE
               /\ u.seats[s].choices = IF s = dealer THEN {"JIAO", "BU_JIAO"} ELSE {}
    BY <1>10, <2>3 DEF Asking
  <2>6. Fresh(u)
    <3>1. ASSUME NEW s \in Seats
          PROVE  /\ u.seats[s].state = "PLAYING" /\ u.seats[s].times = 0
                 /\ u.seats[s].is_jiao = FALSE /\ u.seats[s].hand = HandSize
                 /\ u.seats[s].det = FALSE
                 /\ u.seats[s].choices = IF s = u.dealer THEN {"JIAO", "BU_JIAO"} ELSE {}
      <4>1. u.dealer = dealer  BY <2>4
      <4>2. /\ f[s].state = "PLAYING" /\ f[s].times = 0 /\ f[s].is_jiao = FALSE
            /\ f[s].hand = HandSize
        BY <1>1
      <4>. QED  BY <2>5, <4>1, <4>2
    <3>. QED  BY <2>1, <2>4, <3>1 DEF Fresh
  <2>7. \A s \in Seats : u.seats[s].robot = t.seats[s].robot  BY <1>1, <2>5
  <2>. QED  BY <1>5, <1>8, <2>3, <2>4, <2>6, <2>7
<1>. QED  BY <1>7, <1>8

(* From t to u a play opens for seat s: an undetermined play of its is the *)
(* last entry of the flow.                                                 *)
Opens(t, u, s, acts) ==
    /\ u.flow.act = "CHUPAI" /\ u.flow.seat = s
    /\ u.flow.lead = t.flow.lead /\ u.flow.passes = t.flow.passes
    /\ u.round = t.round
    /\ \A r \in Seats : /\ u.seats[r].state = t.seats[r].state
                        /\ u.seats[r].robot = t.seats[r].robot
                        /\ u.seats[r].det = FALSE
                        /\ u.seats[r].choices = IF r = s THEN acts ELSE {}
    /\ Quiet(t.inner, u.inner)
    /\ Prompted(u)

(* The landlord takes the bottom cards and leads.                          *)
Led(t, u) ==
    /\ Opens(t, u, t.dealer2, {"CHUPAI"})
    /\ u.state = "PLAYING" /\ u.dealer = t.dealer2
    /\ \A r \in Seats : u.seats[r].hand =
          IF r = t.dealer2 THEN t.seats[r].hand + BottomSize ELSE t.seats[r].hand

(* From t to u the choices of all seats were taken, and nothing else.      *)
Cleared(t, u) ==
    /\ Sound(u) /\ NoTurn(u)
    /\ u.state = t.state /\ u.dealer = t.dealer /\ u.dealer2 = t.dealer2
    /\ u.jiao = t.jiao /\ u.flow = t.flow /\ u.round = t.round
    /\ u.trust_err = t.trust_err /\ u.last_winner = t.last_winner
    /\ u.inner = t.inner /\ u.off_timer = t.off_timer
    /\ \A s \in Seats : /\ u.seats[s].state = t.seats[s].state
                        /\ u.seats[s].times = t.seats[s].times
                        /\ u.seats[s].is_jiao = t.seats[s].is_jiao
                        /\ u.seats[s].hand = t.seats[s].hand
                        /\ u.seats[s].robot = t.seats[s].robot

(* ResetPlayerChoice clears exactly the choices.                           *)
LEMMA ResetClears ==
    ASSUME NEW t, Sound(t)
    PROVE  Cleared(t, ResetPlayerChoice(t))
<1> DEFINE f == [s \in Seats |-> [t.seats[s] EXCEPT !.choices = {}, !.det = FALSE]]
           c == ResetPlayerChoice(t)
<1>1. ASSUME NEW s \in Seats
      PROVE  /\ f[s].state = t.seats[s].state /\ f[s].times = t.seats[s].times
             /\ f[s].is_jiao = t.seats[s].is_jiao /\ f[s].hand = t.seats[s].hand
             /\ f[s].robot = t.seats[s].robot
  BY t.seats[s] \in SeatRec DEF Sound, TableRec, SeatRec
<1>2. c = [t EXCEPT !.seats = f]  BY DEF ResetPlayerChoice
<1>3. Sound(c) /\ NoTurn(c)  BY ResetSound DEF NoTurn
<1>. HIDE DEF f, c
<1>4. /\ c.state = t.state /\ c.dealer = t.dealer /\ c.dealer2 = t.dealer2
      /\ c.jiao = t.jiao /\ c.flow = t.flow /\ c.round = t.round
      /\ c.trust_err = t.trust_err /\ c.last_winner = t.last_winner
      /\ c.inner = t.inner /\ c.off_timer = t.off_timer /\ c.seats = f
  BY <1>2 DEF Sound, TableRec
<1>. QED  BY <1>1, <1>3, <1>4 DEF c, Cleared

(* From t to u an entry was appended to the action flow.                   *)
FlowAdded(t, u, s, act, over) ==
    /\ Sound(u) /\ u.seats = t.seats /\ u.state = t.state
    /\ u.dealer = t.dealer /\ u.dealer2 = t.dealer2 /\ u.jiao = t.jiao
    /\ u.last_winner = t.last_winner /\ u.trust_err = t.trust_err
    /\ u.inner = t.inner /\ u.off_timer = t.off_timer /\ u.round = t.round
    /\ u.flow.act = act /\ u.flow.seat = s /\ u.flow.lead = t.flow.lead
    /\ u.flow.over <=> over
    /\ u.flow.passes = IF act = "PASS" THEN t.flow.passes + 1 ELSE t.flow.passes
    /\ u.flow.qiang <=> (t.flow.qiang \/ act = "QIANG")

(* AppendActionFlow adds exactly one entry to the flow.                    *)
LEMMA FlowAdds ==
    ASSUME NEW t, NEW s \in Seats, NEW act \in ActTypes, NEW over \in BOOLEAN,
           Sound(t)
    PROVE  FlowAdded(t, AppendActionFlow(t, s, act, over), s, act, over)
<1>1. t.flow \in FlowRec  BY DEF Sound, TableRec
<1>2. Sound(AppendActionFlow(t, s, act, over))  BY FlowType
<1>. QED  BY <1>1, <1>2, ZenonT(60) DEF FlowAdded, AppendActionFlow, Sound, TableRec, FlowRec

(* GameStart_3 makes the last who called or raised the landlord: he takes  *)
(* the bottom cards and his play is opened.                                *)
LEMMA LandlordLeads ==
    ASSUME NEW t, NEW pick, Sound(t), t.dealer2 # NoSeat
    PROVE  Led(t, GameStart_3(t, pick))
<1> DEFINE lord == t.dealer2
           c == ResetPlayerChoice(t)
           h == [c.seats[lord] EXCEPT !.hand = @ + BottomSize]
           x == Asked(h, {"CHUPAI"})
           g == [c.seats EXCEPT ![lord] = x]
           u == [c EXCEPT !.dealer = lord, !.dealer2 = t.dealer, !.op = lord,
                          !.state = "PLAYING", !.seats = g]
           a == AppendActionFlow(u, lord, "CHUPAI", FALSE)
           w == OnOperateAfterAddChoice(a, lord, pick)
<1>1. lord \in Seats /\ t.dealer \in Seats  BY DEF Sound, TableRec
<1>2. /\ Sound(c) /\ NoTurn(c) /\ c.flow = t.flow /\ c.inner = t.inner
      /\ c.round = t.round
      /\ \A s \in Seats : /\ c.seats[s].state = t.seats[s].state
                          /\ c.seats[s].hand = t.seats[s].hand
                          /\ c.seats[s].robot = t.seats[s].robot
  BY ResetClears DEF Cleared
<1>3. GameStart_3(t, pick) = w  BY <1>1, <1>2, ZenonT(60) DEF GameStart_3, Sound, TableRec
<1>. HIDE DEF c
<1>4. c.seats \in [Seats -> SeatRec] /\ c.seats[lord] \in SeatRec
  BY <1>1, <1>2 DEF Sound, TableRec
<1>5. c.seats[lord].hand + BottomSize \in Nat
  BY <1>1, <1>4, TableAssumption DEF SeatRec
<1>6. "CHUPAI" \in ActTypes /\ {"CHUPAI"} \in SUBSET ActTypes  BY DEF ActTypes
<1>7. /\ h \in SeatRec /\ h.det = c.seats[lord].det
      /\ h.state = c.seats[lord].state /\ h.robot = c.seats[lord].robot
      /\ h.hand = c.seats[lord].hand + BottomSize
  BY <1>4, <1>5 DEF SeatRec
<1>. HIDE DEF h
<1>8. /\ x \in SeatRec /\ x.choices = {"CHUPAI"} /\ x.det = h.det
      /\ x.state = h.state /\ x.robot = h.robot /\ x.hand = h.hand
  <2>1. x \in SeatRec /\ x.choices = {"CHUPAI"} /\ x.det = h.det
    BY <1>6, <1>7, AskedType
  <2>2. x.state = h.state /\ x.robot = h.robot /\ x.hand = h.hand
    BY <1>7 DEF Asked, SeatRec
  <2>. QED  BY <2>1, <2>2
<1>. HIDE DEF x
<1>9. /\ g \in [Seats -> SeatRec]
      /\ \A r \in Seats : g[r] = IF r = lord THEN x ELSE c.seats[r]
  BY <1>1, <1>4, <1>8
<1>. HIDE DEF g
<1>10. /\ Sound(u) /\ u.seats = g /\ u.state = "PLAYING" /\ u.dealer = lord
       /\ u.flow = t.flow /\ u.inner = t.inner /\ u.round = t.round
  BY <1>1, <1>2, <1>9 DEF Sound, TableRec, TableStates
<1>. HIDE DEF u
<1>11. /\ Sound(a) /\ a.seats = g /\ a.state = "PLAYING" /\ a.dealer = lord
       /\ a.inner = t.inner /\ a.flow.act = "CHUPAI" /\ a.flow.seat = lord
       /\ a.flow.lead = t.flow.lead /\ a.flow.passes = t.flow.passes
       /\ a.round = t.round
  <2>. HIDE DEF lord
  <2>1. FlowAdded(u, a, lord, "CHUPAI", FALSE)  BY <1>1, <1>6, <1>10, FlowAdds
  <2>. HIDE DEF a
  <2>. QED  BY <1>10, <2>1 DEF FlowAdded
<1>. HIDE DEF a, lord
<1>12. \A r \in Seats : /\ g[r].state = t.seats[r].state
                        /\ g[r].robot = t.seats[r].robot
                        /\ g[r].det = FALSE
                        /\ g[r].choices = IF r = lord THEN {"CHUPAI"} ELSE {}
  BY <1>1, <1>2, <1>7, <1>8, <1>9, ZenonT(60) DEF NoTurn
<1>13. \A r \in Seats : g[r].hand =
          IF r = lord THEN t.seats[r].hand + BottomSize ELSE t.seats[r].hand
  BY <1>1, <1>2, <1>7, <1>8, <1>9
<1>14. Still(a, w)  BY <1>1, <1>11, AfterAddStill
<1>15. Prompted(w)  BY <1>1, <1>11, <1>12, AskPrompts
<1>. HIDE DEF w
<1>16. Opens(t, w, lord, {"CHUPAI"})
  BY <1>11, <1>12, <1>14, <1>15 DEF Opens, Still, SameGame, SameTurn
<1>17. /\ w.state = "PLAYING" /\ w.dealer = lord
       /\ \A r \in Seats : w.seats[r].hand = g[r].hand
  BY <1>11, <1>14 DEF Still, SameGame
<1>. QED  BY <1>3, <1>13, <1>16, <1>17 DEF Led, lord

(* The i-th seat from the dealer on.                                       *)
At(t, i) == (t.dealer + i) % SeatNum

(* From the dealer on, every seat comes once.                              *)
LEMMA AtType ==
    ASSUME NEW t, t.dealer \in Seats
    PROVE  /\ \A i \in Seats : At(t, i) \in Seats
           /\ \A s \in Seats : \E i \in Seats : s = At(t, i)
           /\ \A i, j \in Seats : At(t, i) = At(t, j) => i = j
           /\ At(t, 0) = t.dealer
           /\ \A i \in {0, 1} : NextSeat(At(t, i)) = At(t, i + 1)
           /\ NextSeat(At(t, 2)) = At(t, 0)
<1>1. t.dealer \in {0, 1, 2}  BY DEF Seats, SeatNum
<1>2. CASE t.dealer = 0  BY <1>2 DEF At, Seats, SeatNum, NextSeat
<1>3. CASE t.dealer = 1
  <2>1. At(t, 0) = 1 /\ At(t, 1) = 2 /\ At(t, 2) = 0  BY <1>3 DEF At, SeatNum
  <2>2. NextSeat(0) = 1 /\ NextSeat(1) = 2 /\ NextSeat(2) = 0  BY DEF NextSeat, SeatNum
  <2>3. \A i \in Seats : i \in {0, 1, 2}  BY DEF Seats, SeatNum
  <2>4. 0 \in Seats /\ 1 \in Seats /\ 2 \in Seats  BY DEF Seats, SeatNum
  <2>. QED  BY <1>3, <2>1, <2>2, <2>3, <2>4
<1>4. CASE t.dealer = 2
  <2>1. At(t, 0) = 2 /\ At(t, 1) = 0 /\ At(t, 2) = 1  BY <1>4 DEF At, SeatNum
  <2>2. NextSeat(0) = 1 /\ NextSeat(1) = 2 /\ NextSeat(2) = 0  BY DEF NextSeat, SeatNum
  <2>3. \A i \in Seats : i \in {0, 1, 2}  BY DEF Seats, SeatNum
  <2>4. 0 \in Seats /\ 1 \in Seats /\ 2 \in Seats  BY DEF Seats, SeatNum
  <2>. QED  BY <1>4, <2>1, <2>2, <2>3, <2>4
<1>. QED  BY <1>1, <1>2, <1>3, <1>4

(* From t, a table on which nobody is asked, to u the bidding moved on:    *)
(* the next seat bids, the caller bids once more, nothing happens, a new   *)
(* round is dealt, or the landlord leads.                                  *)
NextBid(t, u) ==
    \E i \in Seats :
       /\ t.seats[At(t, i)].times = 0
       /\ \A j \in Seats : j < i => t.seats[At(t, j)].times # 0
       /\ IF t.jiao = At(t, i)
          THEN \E v : /\ v = [t EXCEPT !.jiao = NextSeat(At(t, i))]
                      /\ Asking(v, u, At(t, i), {"JIAO", "BU_JIAO"})
          ELSE Asking(t, u, At(t, i), {"QIANG", "BU_QIANG"})

LastBid(t, u) ==
    /\ t.seats[t.jiao].is_jiao /\ t.flow.qiang
    /\ \E v : /\ v = [t EXCEPT !.seats[t.jiao].is_jiao = FALSE]
              /\ Asking(v, u, t.jiao, {"QIANG", "BU_QIANG"})

BidsEnd(t, u) ==
    /\ ~(t.seats[t.jiao].is_jiao /\ t.flow.qiang)
    /\ \/ t.dealer2 = NoSeat /\ t.trust_err /\ u = t
       \/ t.dealer2 = NoSeat /\ (u.state = "UB" \/ (Fresh(u) /\ u.inner = t.inner /\ u.round = t.round))
       \/ t.dealer2 # NoSeat /\ Led(t, u)

BidsMove(t, u) ==
    \/ NextBid(t, u)
    \/ (\A s \in Seats : t.seats[s].times # 0) /\ (LastBid(t, u) \/ BidsEnd(t, u))

(* That is what GameStart_2 does.                                          *)
LEMMA BiddingMoves ==
    ASSUME NEW t, NEW drawn \in Seats, NEW pick, Sound(t)
    PROVE  \E w : /\ w = [ResetPlayerChoice(t) EXCEPT !.state = "WAIT_QIANG"]
                  /\ BidsMove(w, GameStart_2(t, drawn, pick))
                  /\ \A s \in Seats : GameStart_2(t, drawn, pick).seats[s].robot
                                         = t.seats[s].robot
<1> DEFINE c == ResetPlayerChoice(t)
           u == [c EXCEPT !.state = "WAIT_QIANG"]
           at(i) == (u.dealer + i) % SeatNum
           waiting == {i \in Seats : u.seats[at(i)].times = 0}
           first == CHOOSE i \in waiting : \A j \in waiting : i <= j
           v == [u EXCEPT !.seats[u.jiao].is_jiao = FALSE]
           acts == {"QIANG", "BU_QIANG"}
           r == u.round - 1
           w == [u EXCEPT !.round = r]
           z == GameStart_2(t, drawn, pick)
<1>1. Sound(u) /\ NoTurn(u) /\ \A s \in Seats : u.seats[s].robot = t.seats[s].robot
  <2>1. Cleared(t, c)  BY ResetClears
  <2>2. "WAIT_QIANG" \in TableStates  BY DEF TableStates
  <2>. HIDE DEF c
  <2>. QED  BY <2>1, <2>2 DEF Sound, TableRec, NoTurn, Cleared
<1>2. z = IF waiting # {} THEN FirstBid(u, at(first), pick)
          ELSE IF u.seats[u.jiao].is_jiao /\ u.flow.qiang
          THEN OfferBid(v, u.jiao, acts, pick)
          ELSE IF u.dealer2 = NoSeat
          THEN IF u.trust_err THEN u ELSE GameStart_1(w, drawn, pick)
          ELSE GameStart_3(u, pick)
  BY DEF GameStart_2
<1>. HIDE DEF u, z
<1>3. \A i \in Seats : at(i) = At(u, i)  BY DEF At
<1>4. u.dealer \in Seats  BY <1>1 DEF Sound
<1>7. BidsMove(u, z) /\ \A s \in Seats : z.seats[s].robot = t.seats[s].robot
  <2>5. CASE waiting # {}
    <3>1. \E i \in waiting : \A j \in waiting : i <= j
      <4>1. waiting \subseteq Seats  OBVIOUS
      <4>. HIDE DEF waiting
      <4>. QED  BY <2>5, <4>1, LeastSeat
    <3>2. first \in waiting /\ \A j \in waiting : first <= j
      <4>. HIDE DEF waiting
      <4>. QED  BY <3>1
    <3>3. /\ first \in Seats /\ u.seats[At(u, first)].times = 0
          /\ \A j \in Seats : j < first => u.seats[At(u, j)].times # 0
      <4>. HIDE DEF first, at
      <4>1. first \in Seats /\ u.seats[at(first)].times = 0  BY <3>2
      <4>2. ASSUME NEW j \in Seats, j < first PROVE u.seats[at(j)].times # 0
        <5>1. j \notin waiting
          <6>. HIDE DEF waiting
          <6>. QED  BY <3>2, <4>1, <4>2 DEF Seats, SeatNum
        <5>. QED  BY <5>1
      <4>. QED  BY <1>3, <4>1, <4>2
    <3>4. at(first) = At(u, first)  BY <1>3, <3>3
    <3>. HIDE DEF first, at
    <3>5. At(u, first) \in Seats  BY <1>4, <3>3, AtType
    <3>6. z = FirstBid(u, At(u, first), pick)  BY <1>2, <2>5, <3>4
    <3>7. /\ u.jiao = At(u, first) =>
               Asking([u EXCEPT !.jiao = NextSeat(At(u, first))], z, At(u, first),
                      {"JIAO", "BU_JIAO"})
          /\ u.jiao # At(u, first) => Asking(u, z, At(u, first), {"QIANG", "BU_QIANG"})
      BY <1>1, <3>5, <3>6, FirstBidAsks
    <3>. DEFINE x == [u EXCEPT !.jiao = NextSeat(At(u, first))]
    <3>8. x.seats = u.seats  BY <1>1 DEF Sound, TableRec
    <3>9. u.jiao = At(u, first) => Asking(x, z, At(u, first), {"JIAO", "BU_JIAO"})
      BY <3>7
    <3>10. \E y : /\ y = [u EXCEPT !.jiao = NextSeat(At(u, first))]
                  /\ u.jiao = At(u, first) => Asking(y, z, At(u, first), {"JIAO", "BU_JIAO"})
      BY <3>7
    <3>11. NextBid(u, z)
      <4>1. IF u.jiao = At(u, first)
            THEN \E y : /\ y = [u EXCEPT !.jiao = NextSeat(At(u, first))]
                        /\ Asking(y, z, At(u, first), {"JIAO", "BU_JIAO"})
            ELSE Asking(u, z, At(u, first), {"QIANG", "BU_QIANG"})
        BY <3>7
      <4>. QED  BY <3>3, <4>1 DEF NextBid
    <3>. HIDE DEF x
    <3>12. \A s \in Seats : z.seats[s].robot = u.seats[s].robot
      BY <3>7, <3>8, <3>9 DEF Asking
    <3>. QED  BY <1>1, <3>11, <3>12 DEF BidsMove
  <2>6. CASE waiting = {}
    <3>1. \A s \in Seats : u.seats[s].times # 0
      <4>1. \A i \in Seats : u.seats[At(u, i)].times # 0  BY <1>3, <2>6
      <4>. QED  BY <1>4, <4>1, AtType
    <3>. HIDE DEF waiting, first, at
    <3>2. u.jiao \in Seats /\ u.seats \in [Seats -> SeatRec]  BY <1>1 DEF Sound, TableRec
    <3>3. CASE u.seats[u.jiao].is_jiao /\ u.flow.qiang
      <4>1. /\ Sound(v) /\ NoTurn(v)
            /\ \A s \in Seats : v.seats[s].robot = u.seats[s].robot
        <5> DEFINE h == [u.seats[u.jiao] EXCEPT !.is_jiao = FALSE]
                   g == [u.seats EXCEPT ![u.jiao] = h]
        <5>1. /\ h \in SeatRec /\ h.choices = u.seats[u.jiao].choices
              /\ h.det = u.seats[u.jiao].det /\ h.robot = u.seats[u.jiao].robot
          <6>1. u.seats[u.jiao] \in SeatRec  BY <3>2
          <6>. QED  BY <6>1 DEF SeatRec
        <5>2. v = [u EXCEPT !.seats = g]  OBVIOUS
        <5>. HIDE DEF h, v
        <5>3. g \in [Seats -> SeatRec]  BY <3>2, <5>1
        <5>4. \A s \in Seats : /\ g[s].choices = {} /\ g[s].det = FALSE
                               /\ g[s].robot = u.seats[s].robot
          BY <1>1, <3>2, <5>1 DEF NoTurn
        <5>. HIDE DEF g
        <5>. QED  BY <1>1, <5>2, <5>3, <5>4 DEF Sound, TableRec, NoTurn
      <4>2. acts \in SUBSET (ActTypes \ {"CHUPAI"})  BY DEF ActTypes, PassActs, CallActs
      <4>3. z = OfferBid(v, u.jiao, acts, pick)  BY <1>2, <2>6, <3>3
      <4>4. Asking(v, z, u.jiao, acts)
        <5>. HIDE DEF v, acts
        <5>. QED  BY <3>2, <4>1, <4>2, <4>3, OfferAsks
      <4>5. LastBid(u, z)  BY <3>3, <4>4 DEF LastBid
      <4>. HIDE DEF v, acts
      <4>6. \A s \in Seats : z.seats[s].robot = u.seats[s].robot
        BY <4>1, <4>4 DEF Asking
      <4>. QED  BY <1>1, <3>1, <4>5, <4>6 DEF BidsMove
    <3>4. CASE ~(u.seats[u.jiao].is_jiao /\ u.flow.qiang)
      <4>1. CASE u.dealer2 # NoSeat
        <5>1. Led(u, z)
          <6>. HIDE DEF v, w, acts
          <6>1. z = GameStart_3(u, pick)  BY <1>2, <2>6, <3>4, <4>1
          <6>. QED  BY <1>1, <4>1, <6>1, LandlordLeads
        <5>2. \A s \in Seats : z.seats[s].robot = u.seats[s].robot
          BY <5>1 DEF Led, Opens
        <5>. QED  BY <1>1, <3>1, <3>4, <4>1, <5>1, <5>2 DEF BidsMove, BidsEnd
      <4>2. CASE u.dealer2 = NoSeat /\ u.trust_err
        <5>1. z = u
          <6>. HIDE DEF v, w, acts
          <6>. QED  BY <1>2, <2>6, <3>4, <4>2
        <5>. QED  BY <1>1, <3>1, <3>4, <4>2, <5>1 DEF BidsMove, BidsEnd
      <4>3. CASE u.dealer2 = NoSeat /\ ~u.trust_err
        <5>1. z = GameStart_1(w, drawn, pick)
          <6>. HIDE DEF v, w, acts
          <6>. QED  BY <1>2, <2>6, <3>4, <4>3
        <5>2. /\ z.state = "UB" \/ (Fresh(z) /\ z.inner = u.inner /\ z.round = u.round)
              /\ \A s \in Seats : z.seats[s].robot = u.seats[s].robot
          <6>1. u \in TableRec /\ r \in Int /\ r + 1 \in Nat /\ r + 1 = u.round  BY <1>1 DEF Sound, TableRec
          <6>. HIDE DEF r
          <6>. QED  BY <5>1, <6>1, StartDeals
        <5>. QED  BY <1>1, <3>1, <3>4, <4>3, <5>2 DEF BidsMove, BidsEnd
      <4>. QED  BY <4>1, <4>2, <4>3
    <3>. QED  BY <3>3, <3>4
  <2>. QED  BY <2>5, <2>6
<1>. QED  BY <1>7 DEF u, z

(* From t to u the next seat is asked to play.                             *)
Follows(t, u) ==
    /\ Opens(t, u, NextSeat(t.flow.seat),
             IF t.flow.lead \in {NoSeat, NextSeat(t.flow.seat)} THEN {"CHUPAI"}
             ELSE {"CHUPAI", "PASS"})
    /\ u.state = t.state /\ u.dealer = t.dealer
    /\ \A r \in Seats : u.seats[r].hand = t.seats[r].hand

(* ProcessChuPaiForNextSeat asks the next seat.                            *)
LEMMA NextFollows ==
    ASSUME NEW t, NEW pick, Sound(t), t.flow.act # NoAct
    PROVE  Follows(t, ProcessChuPaiForNextSeat(t, pick))
<1> DEFINE s == NextSeat(t.flow.seat)
           acts == IF t.flow.lead \in {NoSeat, s} THEN {"CHUPAI"}
                   ELSE {"CHUPAI", "PASS"}
           c == ResetPlayerChoice(t)
           x == [c.seats[s] EXCEPT !.choices = acts]
           g == [c.seats EXCEPT ![s] = x]
           u == [c EXCEPT !.op = s, !.seats = g]
           a == AppendActionFlow(u, s, "CHUPAI", FALSE)
           w == OnOperateAfterAddChoice(a, s, pick)
<1>1. ProcessChuPaiForNextSeat(t, pick) = w
  BY DEF ProcessChuPaiForNextSeat
<1>2. s \in Seats  BY NextSeatType DEF Sound, TableRec, FlowRec
<1>3. Cleared(t, c)  BY ResetClears
<1>. HIDE DEF c, s
<1>4. acts \in SUBSET ActTypes /\ "CHUPAI" \in ActTypes  BY DEF ActTypes, PassActs
<1>. HIDE DEF acts
<1>5. Sound(c) /\ c.seats \in [Seats -> SeatRec]  BY <1>3 DEF Sound, TableRec, Cleared
<1>6. /\ x \in SeatRec /\ x.choices = acts /\ x.det = c.seats[s].det
      /\ x.state = c.seats[s].state /\ x.robot = c.seats[s].robot
      /\ x.hand = c.seats[s].hand
  <2>1. c.seats[s] \in SeatRec  BY <1>2, <1>5
  <2>. QED  BY <1>4, <2>1 DEF SeatRec
<1>. HIDE DEF x
<1>7. /\ g \in [Seats -> SeatRec]
      /\ \A r \in Seats : g[r] = IF r = s THEN x ELSE c.seats[r]
  BY <1>2, <1>5, <1>6
<1>. HIDE DEF g
<1>8. /\ Sound(u) /\ u.seats = g /\ u.state = c.state /\ u.dealer = c.dealer
      /\ u.flow = c.flow /\ u.inner = c.inner /\ u.round = c.round
  BY <1>2, <1>5, <1>7 DEF Sound, TableRec
<1>. HIDE DEF u
<1>9. FlowAdded(u, a, s, "CHUPAI", FALSE)  BY <1>2, <1>4, <1>8, FlowAdds
<1>. HIDE DEF a
<1>10. /\ Sound(a) /\ a.seats = g /\ a.state = t.state /\ a.dealer = t.dealer
       /\ a.inner = t.inner /\ a.flow.act = "CHUPAI" /\ a.flow.seat = s
       /\ a.flow.lead = t.flow.lead /\ a.flow.passes = t.flow.passes
       /\ a.round = t.round
  BY <1>3, <1>8, <1>9 DEF FlowAdded, Cleared
<1>11. \A r \in Seats : /\ g[r].state = t.seats[r].state
                        /\ g[r].robot = t.seats[r].robot
                        /\ g[r].hand = t.seats[r].hand
                        /\ g[r].det = FALSE
                        /\ g[r].choices = IF r = s THEN acts ELSE {}
  BY <1>3, <1>6, <1>7, ZenonT(60) DEF NoTurn, Cleared
<1>12. Still(a, w)  BY <1>2, <1>10, AfterAddStill
<1>13. Prompted(w)  BY <1>2, <1>10, <1>11, AskPrompts
<1>. HIDE DEF w
<1>14. Opens(t, w, s, acts)
  BY <1>10, <1>11, <1>12, <1>13 DEF Opens, Still, SameGame, SameTurn
<1>15. /\ w.state = t.state /\ w.dealer = t.dealer
       /\ \A r \in Seats : w.seats[r].hand = t.seats[r].hand
  BY <1>10, <1>11, <1>12 DEF Still, SameGame
<1>. QED  BY <1>1, <1>14, <1>15 DEF Follows, s, acts

(***************************************************************************)
(* Acting: what the operators that end a turn leave behind.                *)
(***************************************************************************)

(* From t to u the round was given up because all three seats are played   *)
(* for, or an OVER event of this type was pushed (none for type 0).        *)
Ended(t, u, type) ==
    \/ u.state = "FINISH" /\ u.last_winner \in Seats /\ Quiet(t.inner, u.inner)
    \/ /\ u.state = t.state
       /\ u.inner = IF type = 0 THEN t.inner ELSE Append(t.inner, OverMsg(type))

(* From t to u the round may have ended; its seats and flow did not change.*)
Kept(t, u) ==
    /\ Sound(u) /\ u.seats = t.seats /\ u.flow = t.flow
    /\ u.dealer = t.dealer /\ u.dealer2 = t.dealer2 /\ u.jiao = t.jiao
    /\ u.round = t.round

(* GameOver finishes the round and names a winner, who stays the one that  *)
(* was known; it pushes no OVER event.                                     *)
LEMMA GameOverEnds ==
    ASSUME NEW t, Sound(t), t.state # "FINISH"
    PROVE  /\ Kept(t, GameOver(t)) /\ Quiet(t.inner, GameOver(t).inner)
           /\ GameOver(t).state = "FINISH"
           /\ GameOver(t).last_winner = IF t.last_winner = NoSeat THEN NextSeat(t.dealer)
                                        ELSE t.last_winner
           /\ GameOver(t).last_winner \in Seats
<1> DEFINE w == IF t.last_winner = NoSeat THEN NextSeat(t.dealer) ELSE t.last_winner
           u == [t EXCEPT !.last_winner = w, !.state = "FINISH"]
           v == PushInnerMsg(u, [cmd |-> "RESULT"])
           x == PushInnerMsg(v, [cmd |-> "RECORD"])
           y == PushInnerMsg(x, [cmd |-> "DISSOLVE"])
<1>1. w \in Seats  BY NextSeatType DEF Sound, TableRec
<1>2. GameOver(t) = y
  BY DEF GameOver, GameFinish
<1>. HIDE DEF w
<1>3. /\ Kept(t, u) /\ u.inner = t.inner /\ u.state = "FINISH" /\ u.last_winner = w
  BY <1>1 DEF Sound, TableRec, TableStates, Kept
<1>. HIDE DEF u
<1>4. ASSUME NEW a, Sound(a), NEW m \in InnerMsg, m.cmd # "OVER"
      PROVE  /\ Kept(a, PushInnerMsg(a, m))
             /\ Quiet(a.inner, PushInnerMsg(a, m).inner)
             /\ PushInnerMsg(a, m).state = a.state
             /\ PushInnerMsg(a, m).last_winner = a.last_winner
  <2>1. Sound(PushInnerMsg(a, m)) /\ Still(a, PushInnerMsg(a, m))
    BY <1>4, PushSound, PushStill
  <2>2. PushInnerMsg(a, m).seats = a.seats /\ PushInnerMsg(a, m).round = a.round
    BY <1>4 DEF PushInnerMsg, Sound, TableRec
  <2>. QED  BY <2>1, <2>2 DEF Still, SameGame, SameTurn, Kept
<1>5. /\ [cmd |-> "RESULT"].cmd # "OVER" /\ [cmd |-> "RECORD"].cmd # "OVER"
      /\ [cmd |-> "DISSOLVE"].cmd # "OVER"
  OBVIOUS
<1>6. /\ Kept(u, v) /\ Quiet(u.inner, v.inner) /\ v.state = u.state
      /\ v.last_winner = u.last_winner
  BY <1>3, <1>4, <1>5, MsgTypes DEF Kept
<1>. HIDE DEF v
<1>7. /\ Kept(v, x) /\ Quiet(v.inner, x.inner) /\ x.state = v.state
      /\ x.last_winner = v.last_winner
  BY <1>6, <1>4, <1>5, MsgTypes DEF Kept
<1>. HIDE DEF x
<1>8. /\ Kept(x, y) /\ Quiet(x.inner, y.inner) /\ y.state = x.state
      /\ y.last_winner = x.last_winner
  BY <1>7, <1>4, <1>5, MsgTypes DEF Kept
<1>. HIDE DEF y
<1>9. Kept(t, y)  BY <1>3, <1>6, <1>7, <1>8 DEF Kept
<1>10. Quiet(t.inner, y.inner)  BY <1>3, <1>6, <1>7, <1>8 DEF Quiet
<1>11. y.state = "FINISH" /\ y.last_winner = w  BY <1>3, <1>6, <1>7, <1>8
<1>. QED  BY <1>1, <1>2, <1>9, <1>10, <1>11 DEF w

(* After an act the round is given up, or its OVER event is pushed.        *)
LEMMA AfterActEnds ==
    ASSUME NEW t, NEW type \in {0, 2, 6}, Sound(t), t.state # "FINISH"
    PROVE  Kept(t, AfterAct(t, type)) /\ Ended(t, AfterAct(t, type), type)
<1> DEFINE u == [t EXCEPT !.off_timer = FALSE]
           v == [u EXCEPT !.trust_err = TRUE]
           p == PushInnerMsg(u, OverMsg(type))
<1>1. /\ Kept(t, u) /\ u.state = t.state /\ u.inner = t.inner
      /\ Kept(t, v) /\ v.state = t.state /\ v.inner = t.inner
  BY DEF Sound, TableRec, Kept
<1>2. AfterAct(t, type) =
        IF CheckIsTrusteeshipOver(u) /\ u.state # "FINISH" THEN GameOver(v)
        ELSE IF type = 0 THEN u ELSE p
  BY DEF AfterAct
<1>. HIDE DEF u, v
<1>3. Kept(t, GameOver(v)) /\ Ended(t, GameOver(v), type)
  <2>1. Sound(v) /\ v.state # "FINISH"  BY <1>1 DEF Kept
  <2>2. /\ Kept(v, GameOver(v)) /\ Quiet(v.inner, GameOver(v).inner)
        /\ GameOver(v).state = "FINISH" /\ GameOver(v).last_winner \in Seats
    BY <2>1, GameOverEnds
  <2>. QED  BY <1>1, <2>2 DEF Kept, Ended
<1>4. CASE type = 0
  BY <1>1, <1>2, <1>3, <1>4 DEF Ended
<1>5. CASE type # 0
  <2>1. Sound(u) /\ OverMsg(type) \in InnerMsg  BY <1>1, <1>5, MsgTypes DEF Kept
  <2>2. Sound(p)  BY <2>1, PushSound
  <2>3. /\ p.seats = u.seats /\ p.flow = u.flow /\ p.dealer = u.dealer
        /\ p.dealer2 = u.dealer2 /\ p.jiao = u.jiao /\ p.state = u.state
        /\ p.round = u.round
        /\ p.inner = Append(u.inner, OverMsg(type))
    BY <2>1 DEF PushInnerMsg, Sound, TableRec
  <2>. HIDE DEF p
  <2>4. Kept(t, p) /\ Ended(t, p, type)  BY <1>1, <1>5, <2>2, <2>3 DEF Kept, Ended
  <2>. QED  BY <1>2, <1>3, <1>5, <2>4
<1>. QED  BY <1>4, <1>5

(* From t to u seat s took its turn: nobody is asked, and nobody came, left*)
(* or changed.                                                             *)
TurnTaken(t, u) ==
    /\ NoTurn(u) /\ u.dealer = t.dealer /\ u.round = t.round
    /\ \A r \in Seats : /\ u.seats[r].state = t.seats[r].state
                        /\ u.seats[r].robot = t.seats[r].robot

(* It played, ...                                                          *)
Played(t, u, s, cards) ==
    /\ TurnTaken(t, u)
    /\ u.flow.act = "CHUPAI" /\ u.flow.seat = s
    /\ u.flow.lead = s /\ u.flow.passes = 0
    /\ \A r \in Seats : u.seats[r].hand =
          IF r = s THEN t.seats[r].hand - cards ELSE t.seats[r].hand
    /\ IF t.seats[s].hand = cards
       THEN u.state = "FINISH" /\ u.last_winner = s /\ Quiet(t.inner, u.inner)
       ELSE Ended(t, u, 2)

(* ... passed, ...                                                         *)
Passed(t, u, s, act) ==
    /\ TurnTaken(t, u)
    /\ u.flow.act = act /\ u.flow.seat = s
    /\ u.flow.lead = t.flow.lead
    /\ u.flow.passes = IF act = "PASS" THEN t.flow.passes + 1 ELSE t.flow.passes
    /\ u.flow.over <=> t.flow.lead = NextSeat(s)
    /\ \A r \in Seats : u.seats[r].hand = t.seats[r].hand
    /\ Ended(t, u, 2)

(* ... bid no, ...                                                         *)
BidNo(t, u, s, act) ==
    /\ TurnTaken(t, u)
    /\ u.dealer2 = t.dealer2 /\ u.jiao = t.jiao
    /\ u.flow.lead = t.flow.lead
    /\ act # "PASS" => u.flow.passes = t.flow.passes
    /\ u.flow.qiang <=> t.flow.qiang
    /\ \A r \in Seats : /\ u.seats[r].hand = t.seats[r].hand
                        /\ u.seats[r].is_jiao = t.seats[r].is_jiao
                        /\ u.seats[r].times = IF r = s THEN t.seats[r].times + 1
                                              ELSE t.seats[r].times
    /\ Ended(t, u, 6)

(* ... or called or raised.                                                *)
BidYes(t, u, s, act) ==
    /\ TurnTaken(t, u)
    /\ u.dealer2 = s /\ u.jiao = IF act = "JIAO" THEN s ELSE t.jiao
    /\ u.flow.lead = t.flow.lead /\ u.flow.passes = t.flow.passes
    /\ u.flow.qiang <=> (t.flow.qiang \/ act = "QIANG")
    /\ \A r \in Seats :
         /\ u.seats[r].hand = t.seats[r].hand
         /\ u.seats[r].is_jiao <=> (t.seats[r].is_jiao \/ (r = s /\ act = "JIAO"))
         /\ u.seats[r].times = IF r # s THEN t.seats[r].times
                               ELSE t.seats[r].times + IF act = "QIANG" THEN 10 ELSE 1
    /\ Ended(t, u, IF t.state = "WAIT_QIANG" THEN 6 ELSE 0)

(* DetermineAction marks the choice of seat s; a play that is open in the  *)
(* flow becomes the last play with cards.                                  *)
Determined(t, d, s, act) ==
    /\ Sound(d)
    /\ d.state = t.state /\ d.dealer = t.dealer /\ d.dealer2 = t.dealer2
    /\ d.jiao = t.jiao /\ d.last_winner = t.last_winner /\ d.inner = t.inner
    /\ d.flow.act = t.flow.act /\ d.flow.seat = t.flow.seat
    /\ d.flow.qiang = t.flow.qiang /\ d.round = t.round
    /\ IF act = "CHUPAI" /\ t.flow.act = "CHUPAI"
       THEN d.flow.lead = t.flow.seat /\ d.flow.passes = 0
       ELSE d.flow.lead = t.flow.lead /\ d.flow.passes = t.flow.passes
    /\ \A r \in Seats : /\ d.seats[r].state = t.seats[r].state
                        /\ d.seats[r].robot = t.seats[r].robot
                        /\ d.seats[r].hand = t.seats[r].hand
                        /\ d.seats[r].times = t.seats[r].times
                        /\ d.seats[r].is_jiao = t.seats[r].is_jiao

(* DetermineAction changes no more than that.                              *)
LEMMA DetermineMarks ==
    ASSUME NEW t, NEW s \in Seats, NEW act, Sound(t)
    PROVE  Determined(t, DetermineAction(t, s, act), s, act)
<1> DEFINE seat == [t.seats[s] EXCEPT !.det = TRUE]
           g == [t.seats EXCEPT ![s] = seat]
           u == [t EXCEPT !.seats = g]
           f == [t.flow EXCEPT !.lead = t.flow.seat, !.passes = 0]
           v == [u EXCEPT !.flow = f]
<1>1. t.seats \in [Seats -> SeatRec] /\ t.seats[s] \in SeatRec /\ t.flow \in FlowRec
  BY DEF Sound, TableRec
<1>2. DetermineAction(t, s, act) =
        IF act = "CHUPAI" /\ t.flow.act = "CHUPAI" THEN v ELSE u
  BY DEF DetermineAction, Sound, TableRec
<1>3. /\ seat \in SeatRec /\ seat.hand = t.seats[s].hand
      /\ seat.state = t.seats[s].state /\ seat.robot = t.seats[s].robot
      /\ seat.times = t.seats[s].times /\ seat.is_jiao = t.seats[s].is_jiao
  BY <1>1 DEF SeatRec
<1>4. /\ f \in FlowRec /\ f.act = t.flow.act /\ f.seat = t.flow.seat
      /\ f.qiang = t.flow.qiang /\ f.lead = t.flow.seat /\ f.passes = 0
  BY <1>1 DEF FlowRec
<1>. HIDE DEF seat, f
<1>5. /\ g \in [Seats -> SeatRec]
      /\ \A r \in Seats : g[r] = IF r = s THEN seat ELSE t.seats[r]
  BY <1>1, <1>3
<1>. HIDE DEF g
<1>6. /\ Sound(u) /\ u.seats = g /\ u.flow = t.flow
      /\ u.state = t.state /\ u.dealer = t.dealer /\ u.dealer2 = t.dealer2
      /\ u.jiao = t.jiao /\ u.last_winner = t.last_winner /\ u.inner = t.inner
      /\ u.round = t.round
  BY <1>5 DEF Sound, TableRec
<1>. HIDE DEF u
<1>7. /\ Sound(v) /\ v.seats = g /\ v.flow = f
      /\ v.state = t.state /\ v.dealer = t.dealer /\ v.dealer2 = t.dealer2
      /\ v.jiao = t.jiao /\ v.last_winner = t.last_winner /\ v.inner = t.inner
      /\ v.round = t.round
  BY <1>4, <1>6 DEF Sound, TableRec
<1>. HIDE DEF v
<1>8. \A r \in Seats : /\ g[r].state = t.seats[r].state
                       /\ g[r].robot = t.seats[r].robot
                       /\ g[r].hand = t.seats[r].hand
                       /\ g[r].times = t.seats[r].times
                       /\ g[r].is_jiao = t.seats[r].is_jiao
  BY <1>3, <1>5
<1>9. CASE act = "CHUPAI" /\ t.flow.act = "CHUPAI"
  BY <1>2, <1>4, <1>7, <1>8, <1>9 DEF Determined
<1>10. CASE ~(act = "CHUPAI" /\ t.flow.act = "CHUPAI")
  BY <1>2, <1>6, <1>8, <1>10 DEF Determined
<1>. QED  BY <1>9, <1>10

(* From t to u the record of seat s was replaced.                          *)
SeatChanged(t, u, s, seat) ==
    /\ Sound(u) /\ u.flow = t.flow /\ u.state = t.state
    /\ u.dealer = t.dealer /\ u.dealer2 = t.dealer2 /\ u.jiao = t.jiao
    /\ u.last_winner = t.last_winner /\ u.inner = t.inner
    /\ u.round = t.round
    /\ \A r \in Seats : u.seats[r] = IF r = s THEN seat ELSE t.seats[r]

(* Writing one seat's record changes nothing else.                         *)
LEMMA SeatPut ==
    ASSUME NEW t, NEW s \in Seats, NEW seat \in SeatRec, Sound(t)
    PROVE  SeatChanged(t, [t EXCEPT !.seats[s] = seat], s, seat)
<1> DEFINE g == [t.seats EXCEPT ![s] = seat]
           u == [t EXCEPT !.seats[s] = seat]
<1>1. /\ g \in [Seats -> SeatRec]
      /\ \A r \in Seats : g[r] = IF r = s THEN seat ELSE t.seats[r]
  BY DEF Sound, TableRec
<1>2. u = [t EXCEPT !.seats = g]  OBVIOUS
<1>. HIDE DEF g, u
<1>3. SeatChanged(t, u, s, seat)  BY <1>1, <1>2 DEF Sound, TableRec, SeatChanged
<1>. QED  BY <1>3 DEF u

(* PlayerDoActionChupai takes the cards from the hand; the last card wins. *)
LEMMA PlayTurn ==
    ASSUME NEW t, NEW s \in Seats, NEW cards \in Nat, Sound(t),
           t.state # "FINISH", cards <= t.seats[s].hand
    PROVE  LET p == PlayerDoActionChupai(t, s, cards)
           IN  /\ Sound(p) /\ p.flow = t.flow /\ p.dealer = t.dealer
               /\ p.round = t.round
               /\ \A r \in Seats :
                    /\ p.seats[r].state = t.seats[r].state
                    /\ p.seats[r].robot = t.seats[r].robot
                    /\ p.seats[r].hand = IF r = s THEN t.seats[r].hand - cards
                                         ELSE t.seats[r].hand
               /\ IF t.seats[s].hand = cards
                  THEN /\ p.state = "FINISH" /\ p.last_winner = s
                       /\ Quiet(t.inner, p.inner)
                  ELSE Ended(t, p, 2)
<1> DEFINE seat == [t.seats[s] EXCEPT !.hand = @ - cards]
           u == [t EXCEPT !.seats[s] = seat]
           v == [u EXCEPT !.last_winner = s]
           p == PlayerDoActionChupai(t, s, cards)
<1>1. p = IF u.seats[s].hand = 0 THEN GameOver(v) ELSE AfterAct(u, 2)
  BY DEF PlayerDoActionChupai
<1>. HIDE DEF p
<1>2. t.seats[s] \in SeatRec  BY DEF Sound, TableRec
<1>3. t.seats[s].hand - cards \in Nat /\ t.seats[s].hand \in Nat
  BY <1>2 DEF SeatRec
<1>4. /\ seat \in SeatRec /\ seat.hand = t.seats[s].hand - cards
      /\ seat.state = t.seats[s].state /\ seat.robot = t.seats[s].robot
  BY <1>2, <1>3 DEF SeatRec
<1>. HIDE DEF seat
<1>10. SeatChanged(t, u, s, seat)  BY <1>4, SeatPut
<1>. HIDE DEF u
<1>5. /\ Sound(u) /\ u.flow = t.flow /\ u.state = t.state /\ u.dealer = t.dealer
      /\ u.inner = t.inner /\ u.round = t.round
      /\ \A r \in Seats : u.seats[r] = IF r = s THEN seat ELSE t.seats[r]
  BY <1>10 DEF SeatChanged
<1>6. /\ Sound(v) /\ v.flow = u.flow /\ v.state = u.state /\ v.dealer = u.dealer
      /\ v.inner = u.inner /\ v.round = u.round /\ v.seats = u.seats /\ v.last_winner = s
  BY <1>5 DEF Sound, TableRec
<1>. HIDE DEF v
<1>7. \A r \in Seats :
        /\ u.seats[r].state = t.seats[r].state
        /\ u.seats[r].robot = t.seats[r].robot
        /\ u.seats[r].hand = IF r = s THEN t.seats[r].hand - cards
                             ELSE t.seats[r].hand
  BY <1>4, <1>5
<1>8. CASE t.seats[s].hand = cards
  <2>1. u.seats[s].hand = 0  BY <1>3, <1>4, <1>5, <1>8
  <2>2. p = GameOver(v)  BY <1>1, <2>1
  <2>3. /\ Kept(v, p) /\ Quiet(v.inner, p.inner) /\ p.state = "FINISH"
        /\ p.last_winner = IF v.last_winner = NoSeat THEN NextSeat(v.dealer)
                           ELSE v.last_winner
    BY <1>5, <1>6, <2>2, GameOverEnds
  <2>4. p.last_winner = s  BY <1>6, <2>3 DEF Seats, SeatNum, NoSeat
  <2>. QED  BY <1>5, <1>6, <1>7, <1>8, <2>3, <2>4 DEF Kept, p
<1>9. CASE t.seats[s].hand # cards
  <2>1. u.seats[s].hand # 0  BY <1>3, <1>4, <1>5, <1>9
  <2>2. p = AfterAct(u, 2)  BY <1>1, <2>1
  <2>3. Kept(u, p) /\ Ended(u, p, 2)  BY <1>5, <2>2, AfterActEnds
  <2>. QED  BY <1>5, <1>7, <1>9, <2>3 DEF Kept, Ended, p
<1>. QED  BY <1>8, <1>9

(* PlayerDoActionPass adds a pass: in the bidding it counts as a bid, in   *)
(* the play it is marked when the next seat led the trick.                 *)
LEMMA PassTurn ==
    ASSUME NEW t, NEW s \in Seats, NEW act \in PassActs, Sound(t), t.state # "FINISH"
    PROVE  LET p == PlayerDoActionPass(t, s, act)
           IN  /\ Sound(p) /\ p.round = t.round /\ p.dealer = t.dealer /\ p.flow.lead = t.flow.lead
               /\ p.flow.act = act /\ p.flow.seat = s
               /\ p.flow.passes = IF act = "PASS" THEN t.flow.passes + 1
                                  ELSE t.flow.passes
               /\ \A r \in Seats : /\ p.seats[r].state = t.seats[r].state
                                   /\ p.seats[r].robot = t.seats[r].robot
                                   /\ p.seats[r].hand = t.seats[r].hand
               /\ t.state # "WAIT_QIANG" =>
                    /\ p.flow.over <=> t.flow.lead = NextSeat(s)
                    /\ Ended(t, p, 2)
               /\ t.state = "WAIT_QIANG" =>
                    /\ p.dealer2 = t.dealer2 /\ p.jiao = t.jiao
                    /\ p.flow.qiang <=> t.flow.qiang
                    /\ \A r \in Seats :
                         /\ p.seats[r].is_jiao = t.seats[r].is_jiao
                         /\ p.seats[r].times = IF r = s THEN t.seats[r].times + 1
                                               ELSE t.seats[r].times
                    /\ Ended(t, p, 6)
<1> DEFINE a == AppendActionFlow(t, s, act, FALSE)
           over == CheckSingleOver(t, s)
           b == AppendActionFlow(t, s, act, over)
           seat == [a.seats[s] EXCEPT !.times = @ + 1]
           u == [a EXCEPT !.seats[s] = seat]
           p == PlayerDoActionPass(t, s, act)
<1>1. p = IF t.state = "WAIT_QIANG" THEN AfterAct(u, 6) ELSE AfterAct(b, 2)
  BY DEF PlayerDoActionPass
<1>. HIDE DEF p
<1>2. act \in ActTypes /\ act # "QIANG" /\ over \in BOOLEAN
      /\ (over <=> t.flow.lead = NextSeat(s))
  BY DEF ActTypes, PassActs, CheckSingleOver
<1>3. FlowAdded(t, a, s, act, FALSE) /\ FlowAdded(t, b, s, act, over)
  <2>. HIDE DEF over
  <2>. QED  BY <1>2, FlowAdds
<1>. HIDE DEF a, b, over
<1>4. CASE t.state # "WAIT_QIANG"
  <2>1. p = AfterAct(b, 2)  BY <1>1, <1>4
  <2>2. Kept(b, p) /\ Ended(b, p, 2)
    BY <1>3, <2>1, AfterActEnds DEF FlowAdded
  <2>3. Ended(t, p, 2)  BY <1>3, <2>2 DEF Ended, FlowAdded
  <2>4. Sound(p) /\ p.round = t.round /\ p.seats = t.seats /\ p.flow = b.flow /\ p.dealer = t.dealer
    BY <1>3, <2>2 DEF Kept, FlowAdded
  <2>5. /\ p.flow.act = act /\ p.flow.seat = s /\ p.flow.lead = t.flow.lead
        /\ p.flow.passes = IF act = "PASS" THEN t.flow.passes + 1 ELSE t.flow.passes
        /\ p.flow.over <=> t.flow.lead = NextSeat(s)
    BY <1>2, <1>3, <2>4 DEF FlowAdded
  <2>. QED  BY <1>4, <2>3, <2>4, <2>5 DEF p
<1>5. CASE t.state = "WAIT_QIANG"
  <2>1. p = AfterAct(u, 6)  BY <1>1, <1>5
  <2>2. Sound(a) /\ a.seats = t.seats  BY <1>3 DEF FlowAdded
  <2>3. a.seats[s] \in SeatRec  BY <2>2 DEF Sound, TableRec
  <2>4. /\ seat \in SeatRec /\ seat.times = a.seats[s].times + 1
        /\ seat.hand = a.seats[s].hand
        /\ seat.state = a.seats[s].state /\ seat.robot = a.seats[s].robot
        /\ seat.is_jiao = a.seats[s].is_jiao
    BY <2>3 DEF SeatRec
  <2>. HIDE DEF seat
  <2>5. SeatChanged(a, u, s, seat)  BY <2>2, <2>4, SeatPut
  <2>. HIDE DEF u
  <2>6. /\ Sound(u) /\ u.flow = a.flow /\ u.state = a.state /\ u.dealer = a.dealer
        /\ u.dealer2 = a.dealer2 /\ u.jiao = a.jiao /\ u.inner = a.inner
        /\ u.round = a.round
        /\ \A r \in Seats : u.seats[r] = IF r = s THEN seat ELSE a.seats[r]
    BY <2>5 DEF SeatChanged
  <2>7. u.state = t.state  BY <1>3, <2>6 DEF FlowAdded
  <2>8. Kept(u, p) /\ Ended(u, p, 6)  BY <1>5, <2>1, <2>6, <2>7, AfterActEnds
  <2>9. Ended(t, p, 6)  BY <1>3, <2>6, <2>8 DEF Ended, FlowAdded
  <2>10. /\ Sound(p) /\ p.round = t.round /\ p.dealer = t.dealer /\ p.flow = a.flow
         /\ p.dealer2 = t.dealer2 /\ p.jiao = t.jiao /\ p.seats = u.seats
    BY <1>3, <2>6, <2>8 DEF Kept, FlowAdded
  <2>11. /\ p.flow.act = act /\ p.flow.seat = s /\ p.flow.lead = t.flow.lead
         /\ p.flow.passes = IF act = "PASS" THEN t.flow.passes + 1 ELSE t.flow.passes
         /\ p.flow.qiang <=> t.flow.qiang
    BY <1>2, <1>3, <2>10 DEF FlowAdded
  <2>12. ASSUME NEW r \in Seats
         PROVE  /\ p.seats[r].state = t.seats[r].state
                /\ p.seats[r].robot = t.seats[r].robot
                /\ p.seats[r].hand = t.seats[r].hand
                /\ p.seats[r].is_jiao = t.seats[r].is_jiao
                /\ p.seats[r].times = IF r = s THEN t.seats[r].times + 1
                                      ELSE t.seats[r].times
    BY <2>2, <2>4, <2>6, <2>10
  <2>. QED  BY <1>5, <2>9, <2>10, <2>11, <2>12 DEF p
<1>. QED  BY <1>4, <1>5

(* PlayerDoActionQiangDiZhu records who called or raised.                  *)
LEMMA YesTurn ==
    ASSUME NEW t, NEW s \in Seats, NEW act \in CallActs, Sound(t), t.state # "FINISH"
    PROVE  LET p == PlayerDoActionQiangDiZhu(t, s, act)
           IN  /\ Sound(p) /\ p.round = t.round /\ p.dealer = t.dealer
               /\ p.dealer2 = s /\ p.jiao = IF act = "JIAO" THEN s ELSE t.jiao
               /\ p.flow.lead = t.flow.lead /\ p.flow.passes = t.flow.passes
               /\ p.flow.qiang <=> (t.flow.qiang \/ act = "QIANG")
               /\ \A r \in Seats :
                    /\ p.seats[r].state = t.seats[r].state
                    /\ p.seats[r].robot = t.seats[r].robot
                    /\ p.seats[r].hand = t.seats[r].hand
                    /\ p.seats[r].is_jiao <=> (t.seats[r].is_jiao \/ (r = s /\ act = "JIAO"))
                    /\ p.seats[r].times = IF r # s THEN t.seats[r].times
                         ELSE t.seats[r].times + IF act = "QIANG" THEN 10 ELSE 1
               /\ Ended(t, p, IF t.state = "WAIT_QIANG" THEN 6 ELSE 0)
<1> DEFINE a == AppendActionFlow(t, s, act, FALSE)
           seat == Bid(a.seats[s], act)
           v == [a EXCEPT !.seats[s] = seat]
           j == IF act = "JIAO" THEN s ELSE v.jiao
           u == [v EXCEPT !.jiao = j, !.dealer2 = s]
           type == IF t.state = "WAIT_QIANG" THEN 6 ELSE 0
           p == PlayerDoActionQiangDiZhu(t, s, act)
<1>1. p = AfterAct(u, type)
  BY DEF PlayerDoActionQiangDiZhu
<1>. HIDE DEF p
<1>2. act \in ActTypes /\ act # "PASS"  BY DEF ActTypes, CallActs
<1>3. FlowAdded(t, a, s, act, FALSE)  BY <1>2, FlowAdds
<1>. HIDE DEF a
<1>4. Sound(a) /\ a.seats = t.seats  BY <1>3 DEF FlowAdded
<1>5. a.seats[s] \in SeatRec  BY <1>4 DEF Sound, TableRec
<1>6. /\ seat \in SeatRec
      /\ seat.times = a.seats[s].times + IF act = "QIANG" THEN 10 ELSE 1
      /\ seat.is_jiao <=> (a.seats[s].is_jiao \/ act = "JIAO")
      /\ seat.hand = a.seats[s].hand
      /\ seat.state = a.seats[s].state /\ seat.robot = a.seats[s].robot
  <2> DEFINE n == a.seats[s].times + IF act = "QIANG" THEN 10 ELSE 1
             b == a.seats[s].is_jiao \/ act = "JIAO"
  <2>1. n \in Nat  BY <1>5 DEF SeatRec
  <2>2. b \in BOOLEAN  OBVIOUS
  <2>3. seat = [a.seats[s] EXCEPT !.times = n, !.is_jiao = b]  BY DEF Bid
  <2>. HIDE DEF n, b, seat
  <2>4. /\ seat \in SeatRec /\ seat.times = n /\ seat.is_jiao = b
        /\ seat.hand = a.seats[s].hand
        /\ seat.state = a.seats[s].state /\ seat.robot = a.seats[s].robot
    BY <1>5, <2>1, <2>2, <2>3 DEF SeatRec
  <2>. QED  BY <2>4 DEF n, b
<1>. HIDE DEF seat
<1>7. SeatChanged(a, v, s, seat)  BY <1>4, <1>6, SeatPut
<1>. HIDE DEF v
<1>8. /\ Sound(v) /\ v.flow = a.flow /\ v.state = a.state /\ v.dealer = a.dealer
      /\ v.dealer2 = a.dealer2 /\ v.jiao = a.jiao /\ v.inner = a.inner
      /\ v.round = a.round
      /\ \A r \in Seats : v.seats[r] = IF r = s THEN seat ELSE a.seats[r]
  BY <1>7 DEF SeatChanged
<1>9. j \in Seats /\ j = IF act = "JIAO" THEN s ELSE t.jiao
  BY <1>3, <1>8 DEF Sound, FlowAdded
<1>. HIDE DEF j
<1>10. /\ Sound(u) /\ u.flow = v.flow /\ u.state = v.state /\ u.dealer = v.dealer
       /\ u.dealer2 = s /\ u.jiao = j /\ u.inner = v.inner /\ u.seats = v.seats
       /\ u.round = v.round
  BY <1>8, <1>9 DEF Sound, TableRec
<1>. HIDE DEF u
<1>11. u.state = t.state /\ u.inner = t.inner  BY <1>3, <1>8, <1>10 DEF FlowAdded
<1>12. type \in {0, 2, 6}  OBVIOUS
<1>. HIDE DEF type
<1>13. Kept(u, p) /\ Ended(u, p, type)  BY <1>1, <1>10, <1>11, <1>12, AfterActEnds
<1>14. Ended(t, p, type)  BY <1>11, <1>13 DEF Ended
<1>15. /\ Sound(p) /\ p.round = t.round /\ p.dealer = t.dealer /\ p.flow = a.flow
       /\ p.dealer2 = s /\ p.jiao = j /\ p.seats = v.seats
  BY <1>3, <1>8, <1>10, <1>13 DEF Kept, FlowAdded
<1>16. /\ p.flow.lead = t.flow.lead /\ p.flow.passes = t.flow.passes
       /\ p.flow.qiang <=> (t.flow.qiang \/ act = "QIANG")
  BY <1>2, <1>3, <1>15 DEF FlowAdded
<1>17. ASSUME NEW r \in Seats
       PROVE  /\ p.seats[r].state = t.seats[r].state
              /\ p.seats[r].robot = t.seats[r].robot
              /\ p.seats[r].hand = t.seats[r].hand
              /\ p.seats[r].is_jiao <=> (t.seats[r].is_jiao \/ (r = s /\ act = "JIAO"))
              /\ p.seats[r].times = IF r # s THEN t.seats[r].times
                   ELSE t.seats[r].times + IF act = "QIANG" THEN 10 ELSE 1
  <2>1. CASE r = s  BY <1>4, <1>6, <1>8, <1>15, <2>1
  <2>2. CASE r # s  BY <1>4, <1>8, <1>15, <2>2
  <2>. QED  BY <2>1, <2>2
<1>. QED  BY <1>9, <1>14, <1>15, <1>16, <1>17 DEF p, type

(* From t to u seat s did what it was asked for.                           *)
Acted(t, u, s, act, cards) ==
    IF act = "CHUPAI" THEN Played(t, u, s, cards)
    ELSE IF act \in CallActs THEN BidYes(t, u, s, act)
    ELSE IF t.state = "WAIT_QIANG" THEN BidNo(t, u, s, act)
    ELSE Passed(t, u, s, act)

(* An action that IsPlayerAbleDoAction and the rules let through is done   *)
(* completely.                                                             *)
LEMMA TryActs ==
    ASSUME NEW t, NEW s \in Seats, NEW act \in ActTypes, NEW cards \in Nat,
           NEW token, NEW legal, Sound(t), OneTurn(t), t.state # "FINISH",
           IsPlayerAbleDoAction(t, s, act, cards, token),
           ~RulesRefuse(act, legal)
    PROVE  Acted(t, TryAction(t, s, act, cards, token, legal), s, act, cards)
<1> DEFINE d == DetermineAction(t, s, act)
           p == IF act = "CHUPAI" THEN PlayerDoActionChupai(d, s, cards)
                ELSE IF act \in PassActs THEN PlayerDoActionPass(d, s, act)
                ELSE PlayerDoActionQiangDiZhu(d, s, act)
           u == TryAction(t, s, act, cards, token, legal)
<1>1. /\ act \in t.seats[s].choices
      /\ act = "CHUPAI" => /\ cards <= t.seats[s].hand
                           /\ t.flow.act = "CHUPAI" /\ t.flow.seat = s
  <2>1. t.seats[s].hand \in Nat  BY DEF Sound, TableRec, SeatRec
  <2>2. act \in t.seats[s].choices /\ (act = "CHUPAI" => cards <= t.seats[s].hand)
    BY <2>1 DEF IsPlayerAbleDoAction
  <2>. QED  BY <2>2 DEF OneTurn
<1>2. u = ResetPlayerChoice(p)
  <2>1. ~DetermineFails(t, act)  BY <1>1 DEF DetermineFails
  <2>. QED  BY <2>1 DEF TryAction, PlayerDoAction
<1>3. Determined(t, d, s, act)  BY DetermineMarks
<1>. HIDE DEF d, u
<1>4. Sound(d) /\ d.state = t.state /\ d.state # "FINISH" /\ d.inner = t.inner
      /\ d.seats[s].hand = t.seats[s].hand
  BY <1>3 DEF Determined
<1>5. ASSUME NEW q, Sound(q), q.dealer = t.dealer, q.round = t.round, u = ResetPlayerChoice(q),
             \A r \in Seats : q.seats[r].state = t.seats[r].state
                              /\ q.seats[r].robot = t.seats[r].robot
      PROVE  /\ TurnTaken(t, u) /\ Cleared(q, u)
             /\ \A type : Ended(d, q, type) => Ended(t, u, type)
  <2>1. Cleared(q, u)  BY <1>5, ResetClears
  <2>2. TurnTaken(t, u)  BY <1>5, <2>1 DEF TurnTaken, Cleared
  <2>3. u.state = q.state /\ u.inner = q.inner /\ u.last_winner = q.last_winner
    BY <2>1 DEF Cleared
  <2>4. \A type : Ended(d, q, type) => Ended(t, u, type)
    BY <1>4, <2>3 DEF Ended
  <2>. QED  BY <2>1, <2>2, <2>4
<1>6. CASE act = "CHUPAI"
  <2> DEFINE q == PlayerDoActionChupai(d, s, cards)
  <2>1. u = ResetPlayerChoice(q)  BY <1>2, <1>6
  <2>2. /\ Sound(q) /\ q.round = d.round /\ q.flow = d.flow /\ q.dealer = d.dealer
        /\ \A r \in Seats :
             /\ q.seats[r].state = d.seats[r].state
             /\ q.seats[r].robot = d.seats[r].robot
             /\ q.seats[r].hand = IF r = s THEN d.seats[r].hand - cards
                                  ELSE d.seats[r].hand
        /\ IF d.seats[s].hand = cards
           THEN q.state = "FINISH" /\ q.last_winner = s /\ Quiet(d.inner, q.inner)
           ELSE Ended(d, q, 2)
    BY <1>1, <1>4, <1>6, PlayTurn
  <2>. HIDE DEF q
  <2>3. /\ TurnTaken(t, u) /\ Cleared(q, u)
        /\ Ended(d, q, 2) => Ended(t, u, 2)
    <3>1. /\ q.dealer = t.dealer /\ q.round = t.round
          /\ \A r \in Seats : q.seats[r].state = t.seats[r].state
                              /\ q.seats[r].robot = t.seats[r].robot
      BY <1>3, <2>2 DEF Determined
    <3>. QED  BY <1>5, <2>1, <2>2, <3>1
  <2>4. /\ u.flow.act = "CHUPAI" /\ u.flow.seat = s
        /\ u.flow.lead = s /\ u.flow.passes = 0
    BY <1>1, <1>3, <1>6, <2>2, <2>3 DEF Determined, Cleared
  <2>5. \A r \in Seats : u.seats[r].hand =
          IF r = s THEN t.seats[r].hand - cards ELSE t.seats[r].hand
    BY <1>3, <2>2, <2>3 DEF Determined, Cleared
  <2>6. IF t.seats[s].hand = cards
        THEN u.state = "FINISH" /\ u.last_winner = s /\ Quiet(t.inner, u.inner)
        ELSE Ended(t, u, 2)
    BY <1>4, <2>2, <2>3 DEF Cleared
  <2>7. Played(t, u, s, cards)  BY <2>3, <2>4, <2>5, <2>6 DEF Played
  <2>. QED  BY <1>6, <2>7 DEF Acted, u
<1>7. CASE act \in PassActs
  <2> DEFINE q == PlayerDoActionPass(d, s, act)
  <2>0. act # "CHUPAI" /\ act \notin CallActs  BY <1>7 DEF PassActs, CallActs
  <2>1. u = ResetPlayerChoice(q)  BY <1>2, <1>7, <2>0
  <2>2. /\ Sound(q) /\ q.round = d.round /\ q.dealer = d.dealer /\ q.flow.lead = d.flow.lead
        /\ q.flow.act = act /\ q.flow.seat = s
        /\ q.flow.passes = IF act = "PASS" THEN d.flow.passes + 1
                           ELSE d.flow.passes
        /\ \A r \in Seats : /\ q.seats[r].state = d.seats[r].state
                            /\ q.seats[r].robot = d.seats[r].robot
                            /\ q.seats[r].hand = d.seats[r].hand
        /\ d.state # "WAIT_QIANG" =>
             /\ q.flow.over <=> d.flow.lead = NextSeat(s)
             /\ Ended(d, q, 2)
        /\ d.state = "WAIT_QIANG" =>
             /\ q.dealer2 = d.dealer2 /\ q.jiao = d.jiao
             /\ q.flow.qiang <=> d.flow.qiang
             /\ \A r \in Seats :
                  /\ q.seats[r].is_jiao = d.seats[r].is_jiao
                  /\ q.seats[r].times = IF r = s THEN d.seats[r].times + 1
                                        ELSE d.seats[r].times
             /\ Ended(d, q, 6)
    BY <1>4, <1>7, PassTurn
  <2>. HIDE DEF q
  <2>3. /\ TurnTaken(t, u) /\ Cleared(q, u)
        /\ Ended(d, q, 2) => Ended(t, u, 2)
        /\ Ended(d, q, 6) => Ended(t, u, 6)
    <3>1. /\ q.dealer = t.dealer /\ q.round = t.round
          /\ \A r \in Seats : q.seats[r].state = t.seats[r].state
                              /\ q.seats[r].robot = t.seats[r].robot
      BY <1>3, <2>2 DEF Determined
    <3>. QED  BY <1>5, <2>1, <2>2, <3>1
  <2>4. \A r \in Seats : u.seats[r].hand = t.seats[r].hand
    BY <1>3, <2>2, <2>3 DEF Determined, Cleared
  <2>5. /\ u.flow.lead = t.flow.lead /\ u.flow.act = act /\ u.flow.seat = s
        /\ u.flow.passes = IF act = "PASS" THEN t.flow.passes + 1 ELSE t.flow.passes
    BY <1>3, <2>0, <2>2, <2>3 DEF Determined, Cleared
  <2>6. CASE t.state = "WAIT_QIANG"
    <3>1. u.dealer2 = t.dealer2 /\ u.jiao = t.jiao /\ (u.flow.qiang <=> t.flow.qiang)
      BY <1>3, <1>4, <2>2, <2>3, <2>6 DEF Determined, Cleared
    <3>2. \A r \in Seats :
             /\ u.seats[r].is_jiao = t.seats[r].is_jiao
             /\ u.seats[r].times = IF r = s THEN t.seats[r].times + 1
                                   ELSE t.seats[r].times
      BY <1>3, <1>4, <2>2, <2>3, <2>6 DEF Determined, Cleared
    <3>3. Ended(t, u, 6)  BY <1>4, <2>2, <2>3, <2>6
    <3>4. BidNo(t, u, s, act)  BY <2>3, <2>4, <2>5, <3>1, <3>2, <3>3 DEF BidNo
    <3>. QED  BY <2>0, <2>6, <3>4 DEF Acted, u
  <2>7. CASE t.state # "WAIT_QIANG"
    <3>1. u.flow.over <=> t.flow.lead = NextSeat(s)
      BY <1>3, <1>4, <2>0, <2>2, <2>3, <2>7 DEF Determined, Cleared
    <3>2. Ended(t, u, 2)  BY <1>4, <2>2, <2>3, <2>7
    <3>3. Passed(t, u, s, act)  BY <2>3, <2>4, <2>5, <3>1, <3>2 DEF Passed
    <3>. QED  BY <2>0, <2>7, <3>3 DEF Acted, u
  <2>. QED  BY <2>6, <2>7
<1>8. CASE act \in CallActs
  <2> DEFINE q == PlayerDoActionQiangDiZhu(d, s, act)
  <2>0. act # "CHUPAI" /\ act \notin PassActs  BY <1>8 DEF PassActs, CallActs
  <2>1. u = ResetPlayerChoice(q)  BY <1>2, <2>0
  <2>2. /\ Sound(q) /\ q.round = d.round /\ q.dealer = d.dealer
        /\ q.dealer2 = s /\ q.jiao = IF act = "JIAO" THEN s ELSE d.jiao
        /\ q.flow.lead = d.flow.lead /\ q.flow.passes = d.flow.passes
        /\ q.flow.qiang <=> (d.flow.qiang \/ act = "QIANG")
        /\ \A r \in Seats :
             /\ q.seats[r].state = d.seats[r].state
             /\ q.seats[r].robot = d.seats[r].robot
             /\ q.seats[r].hand = d.seats[r].hand
             /\ q.seats[r].is_jiao <=> (d.seats[r].is_jiao \/ (r = s /\ act = "JIAO"))
             /\ q.seats[r].times = IF r # s THEN d.seats[r].times
                  ELSE d.seats[r].times + IF act = "QIANG" THEN 10 ELSE 1
        /\ Ended(d, q, IF d.state = "WAIT_QIANG" THEN 6 ELSE 0)
    BY <1>4, <1>8, YesTurn
  <2>. HIDE DEF q
  <2>3. /\ TurnTaken(t, u) /\ Cleared(q, u)
        /\ \A type : Ended(d, q, type) => Ended(t, u, type)
    <3>1. /\ q.dealer = t.dealer /\ q.round = t.round
          /\ \A r \in Seats : q.seats[r].state = t.seats[r].state
                              /\ q.seats[r].robot = t.seats[r].robot
      BY <1>3, <2>2 DEF Determined
    <3>. QED  BY <1>5, <2>1, <2>2, <3>1
  <2>4. /\ u.dealer2 = s /\ u.jiao = IF act = "JIAO" THEN s ELSE t.jiao
        /\ u.flow.lead = t.flow.lead /\ u.flow.passes = t.flow.passes
        /\ u.flow.qiang <=> (t.flow.qiang \/ act = "QIANG")
    BY <1>3, <2>0, <2>2, <2>3 DEF Determined, Cleared
  <2>5. \A r \in Seats :
             /\ u.seats[r].hand = t.seats[r].hand
             /\ u.seats[r].is_jiao <=> (t.seats[r].is_jiao \/ (r = s /\ act = "JIAO"))
             /\ u.seats[r].times = IF r # s THEN t.seats[r].times
                  ELSE t.seats[r].times + IF act = "QIANG" THEN 10 ELSE 1
    BY <1>3, <2>2, <2>3 DEF Determined, Cleared
  <2>6. Ended(t, u, IF t.state = "WAIT_QIANG" THEN 6 ELSE 0)
    BY <1>4, <2>2, <2>3
  <2>7. BidYes(t, u, s, act)  BY <2>3, <2>4, <2>5, <2>6 DEF BidYes
  <2>. QED  BY <1>8, <2>0, <2>7 DEF Acted, u
<1>9. act = "CHUPAI" \/ act \in PassActs \/ act \in CallActs  BY DEF ActTypes
<1>. QED  BY <1>6, <1>7, <1>8, <1>9

(***************************************************************************)
(* The steps of the table, as they matter to a round.                      *)
(***************************************************************************)

(* The game does not move from t to u, and no robot loses the timer.       *)
Quietly(t, u) ==
    /\ Sound(u) /\ OneTurn(u) /\ Still(t, u)
    /\ RobotsTimed(t) => RobotsTimed(u)

(* Nor does a player lose what is behind him.                              *)
Calm(t, u) == Quietly(t, u) /\ (PlayersBacked(t) => PlayersBacked(u))

(* The messages of q keep their places in r.                               *)
Grows(q, r) == \A i \in DOMAIN q : i \in DOMAIN r /\ r[i] = q[i]

(* An added message moves no other.                                        *)
LEMMA PushGrows ==
    ASSUME NEW t, NEW m \in InnerMsg, Sound(t)
    PROVE  Grows(t.inner, PushInnerMsg(t, m).inner)
<1>1. t.inner \in Seq(InnerMsg)  BY DEF Sound, TableRec
<1>2. PushInnerMsg(t, m).inner = Append(t.inner, m)
  BY DEF PushInnerMsg, Sound, TableRec
<1>3. /\ DOMAIN t.inner = 1 .. Len(t.inner) /\ Len(t.inner) \in Nat
      /\ DOMAIN Append(t.inner, m) = 1 .. Len(t.inner) + 1
      /\ \A i \in 1 .. Len(t.inner) : Append(t.inner, m)[i] = t.inner[i]
  BY <1>1, QueuePlaces
<1>. QED  BY <1>2, <1>3 DEF Grows

(* A message that would be acted on still would be, when the game has not  *)
(* moved and the message is still on its way.                              *)
LEMMA BackedKept ==
    ASSUME NEW t, NEW u, Still(t, u), NEW s \in Seats,
           t.off_timer => u.off_timer,
           \A i \in DOMAIN t.inner : ValidAuto(t, s, t.inner[i]) =>
               \E j \in DOMAIN u.inner : u.inner[j] = t.inner[i]
    PROVE  Backed(t, s) => Backed(u, s)
<1>1. \A m : ValidAuto(t, s, m) => ValidAuto(u, s, m)
  BY DEF Still, SameGame, SameTurn, ValidAuto
<1>. QED  BY <1>1 DEF Backed

(* So the players stay backed.                                             *)
LEMMA PlayersKept ==
    ASSUME NEW t, NEW u, Still(t, u),
           \A s \in Seats : Backed(t, s) => Backed(u, s)
    PROVE  PlayersBacked(t) => PlayersBacked(u)
BY DEF Still, SameGame, SameTurn, PlayersBacked, Occupied

(* DoDefaultAction touches no timer and no robot buffer.                   *)
LEMMA DefaultKeeps ==
    ASSUME NEW t, NEW s \in Seats, Sound(t)
    PROVE  LET u == DoDefaultAction(t, s)
           IN  /\ Grows(t.inner, u.inner)
               /\ u.off_timer = t.off_timer /\ u.robot_timer = t.robot_timer
               /\ \A r \in Seats : u.seats[r].buff = t.seats[r].buff
<1> DEFINE u == [t EXCEPT !.seats[s].trust = TRUE]
           cs == t.seats[s].choices
           act == IF cs \cap PassActs # {} THEN CHOOSE a \in cs : a \in PassActs
                  ELSE CHOOSE a \in cs : TRUE
           cards == IF act = "CHUPAI" /\ t.seats[s].hand >= 1 THEN 1 ELSE 0
           m == AutoMsg(s, act, cards, t.seats[s].token)
           w == DoDefaultAction(t, s)
<1>1. t.seats[s] \in SeatRec  BY DEF Sound, TableRec
<1>2. /\ Sound(u) /\ u.inner = t.inner /\ u.off_timer = t.off_timer
      /\ u.robot_timer = t.robot_timer
      /\ \A r \in Seats : u.seats[r].buff = t.seats[r].buff
  BY <1>1 DEF Sound, TableRec, SeatRec
<1>3. w = IF cs = {} THEN u ELSE PushInnerMsg(u, m)
  BY DEF DoDefaultAction
<1>. HIDE DEF w
<1>4. CASE cs = {}
  <2>. HIDE DEF u
  <2>. QED  BY <1>2, <1>3, <1>4 DEF Grows, w
<1>5. CASE cs # {}
  <2>1. act \in cs  BY <1>5
  <2>2. act \in ActTypes  BY <1>1, <2>1 DEF SeatRec
  <2>3. cards \in Nat /\ t.seats[s].token \in Nat  BY <1>1 DEF SeatRec
  <2>4. m \in InnerMsg  BY <2>2, <2>3, MsgTypes
  <2>. HIDE DEF u, m, cs
  <2>5. Grows(u.inner, PushInnerMsg(u, m).inner)  BY <1>2, <2>4, PushGrows
  <2>6. /\ PushInnerMsg(u, m).off_timer = u.off_timer
        /\ PushInnerMsg(u, m).robot_timer = u.robot_timer
        /\ PushInnerMsg(u, m).seats = u.seats
    BY <1>2 DEF PushInnerMsg, Sound, TableRec
  <2>. QED  BY <1>2, <1>3, <1>5, <2>5, <2>6 DEF w
<1>. QED  BY <1>4, <1>5

(* The operation timer acts for every player it finds asked.               *)
LEMMA TimeOutCalm ==
    ASSUME NEW t, Sound(t), OneTurn(t)
    PROVE  /\ Sound([t EXCEPT !.off_timer = FALSE])
           /\ Calm(t, OnOperationTimeOut([t EXCEPT !.off_timer = FALSE]))
<1> DEFINE Asked1(u, s) == Occupied(u, s) /\ u.seats[s].choices # {} /\ u.seats[s].hand >= 1
           Step(u, v) == /\ Sound(v) /\ OneTurn(v) /\ Still(u, v)
                         /\ v.robot_timer = u.robot_timer
                         /\ \A r \in Seats : v.seats[r].buff = u.seats[r].buff
                         /\ \A r \in Seats : Asked1(v, r) = Asked1(u, r)
                         /\ \A r \in Seats : Backed(u, r) => Backed(v, r)
<1>1. ASSUME NEW u, NEW s \in Seats, Sound(u), OneTurn(u)
      PROVE  /\ Step(u, TimeOutSeat(u, s))
             /\ Asked1(u, s) => Backed(TimeOutSeat(u, s), s)
  <2> DEFINE v == DoDefaultAction(u, s)
  <2>1. /\ Sound(v) /\ SameTurn(u, v) /\ Still(u, v) /\ Grows(u.inner, v.inner)
        /\ v.off_timer = u.off_timer /\ v.robot_timer = u.robot_timer
        /\ \A r \in Seats : v.seats[r].buff = u.seats[r].buff
    BY <1>1, DefaultSound, DefaultStill, DefaultKeeps
  <2>2. Asked1(u, s) => Backed(v, s)  BY <1>1, DefaultBacked
  <2>. HIDE DEF v
  <2>3. \A r \in Seats : Backed(u, r) => Backed(v, r)
    BY <2>1, BackedKept DEF Grows
  <2>4. OneTurn(v)  BY <1>1, <2>1, SameOneTurn
  <2>5. \A r \in Seats : Asked1(v, r) = Asked1(u, r)
    BY <2>1 DEF Still, SameGame, SameTurn, Occupied
  <2>6. Step(u, v)  BY <2>1, <2>3, <2>4, <2>5
  <2>7. Step(u, u)  BY <1>1, StillSelf
  <2>8. Asked1(u, s) => Open(u, s) /\ Occupied(u, s)
    BY <1>1 DEF Open, OneTurn
  <2>. HIDE DEF Step, Asked1
  <2>. QED  BY <2>2, <2>6, <2>7, <2>8 DEF TimeOutSeat, v
<1>2. ASSUME NEW u, NEW v, NEW w, Step(u, v), Step(v, w) PROVE Step(u, w)
  BY <1>2, StillTwice
<1>3. 0 \in Seats /\ 1 \in Seats /\ 2 \in Seats /\ \A s \in Seats : s \in {0, 1, 2}
  BY DEF Seats, SeatNum
<1>. DEFINE o == [t EXCEPT !.off_timer = FALSE]
<1>4. /\ Sound(o) /\ OneTurn(o) /\ SameGame(t, o) /\ o.inner = t.inner
      /\ o.robot_timer = t.robot_timer /\ o.seats = t.seats
  BY DEF Sound, TableRec, OneTurn, SameGame, SameTurn
<1>. DEFINE a == TimeOutSeat(o, 0)
            b == TimeOutSeat(a, 1)
            c == TimeOutSeat(b, 2)
<1>5. OnOperationTimeOut(o) = c  BY DEF OnOperationTimeOut
<1>. HIDE DEF o, Step, Asked1
<1>6. Step(o, a) /\ (Asked1(o, 0) => Backed(a, 0))  BY <1>1, <1>3, <1>4
<1>7. Sound(a) /\ OneTurn(a) /\ (\A r \in Seats : Asked1(a, r) = Asked1(o, r))
  BY <1>6 DEF Step
<1>. HIDE DEF a
<1>8. Step(a, b) /\ (Asked1(a, 1) => Backed(b, 1))  BY <1>1, <1>3, <1>7
<1>9. /\ Sound(b) /\ OneTurn(b) /\ (\A r \in Seats : Asked1(b, r) = Asked1(a, r))
      /\ Backed(a, 0) => Backed(b, 0)
  BY <1>3, <1>8 DEF Step
<1>. HIDE DEF b
<1>10. Step(b, c) /\ (Asked1(b, 2) => Backed(c, 2))  BY <1>1, <1>3, <1>9
<1>11. Backed(b, 0) => Backed(c, 0)  BY <1>3, <1>10 DEF Step
<1>12. Backed(b, 1) => Backed(c, 1)  BY <1>3, <1>10 DEF Step
<1>. HIDE DEF c
<1>13. \A r \in Seats : Asked1(o, r) => Backed(c, r)
  BY <1>3, <1>6, <1>7, <1>8, <1>9, <1>10, <1>11, <1>12
<1>14. Step(o, c)  BY <1>2, <1>6, <1>8, <1>10
<1>15. /\ Sound(c) /\ OneTurn(c) /\ Still(o, c) /\ c.robot_timer = o.robot_timer
       /\ \A r \in Seats : c.seats[r].buff = o.seats[r].buff
       /\ \A r \in Seats : Asked1(c, r) = Asked1(o, r)
  BY <1>14 DEF Step
<1>16. Still(t, c)
  <2>1. Still(t, o)  BY <1>4 DEF Still, Quiet
  <2>. QED  BY <1>15, <2>1, StillTwice
<1>17. RobotsTimed(t) => RobotsTimed(c)
  <2>1. \A r \in Seats : /\ c.seats[r].choices = t.seats[r].choices
                         /\ c.seats[r].robot = t.seats[r].robot
    BY <1>16 DEF Still, SameGame, SameTurn
  <2>2. \A r \in Seats : c.seats[r].buff = t.seats[r].buff  BY <1>4, <1>15
  <2>. QED  BY <1>4, <1>15, <2>1, <2>2 DEF RobotsTimed
<1>18. PlayersBacked(c)  BY <1>13, <1>15 DEF PlayersBacked, Asked1
<1>19. Calm(t, c)  BY <1>15, <1>16, <1>17, <1>18 DEF Calm, Quietly
<1>. QED  BY <1>4, <1>5, <1>19 DEF o

(* RobotSeat touches no timer and takes no message away.                   *)
LEMMA RobotKeeps ==
    ASSUME NEW t, NEW s \in Seats, NEW cards \in Nat, Sound(t)
    PROVE  LET u == RobotSeat(t, s, cards)
           IN  Sound(u) /\ Grows(t.inner, u.inner) /\ u.off_timer = t.off_timer
<1> DEFINE seat == t.seats[s]
           k == IF seat.buff = "CHUPAI" /\ seat.robot THEN cards ELSE 0
           m == AutoMsg(s, seat.buff, k, seat.token)
           v == IF seat.buff \in seat.choices /\ ~seat.det
                THEN PushInnerMsg(t, m) ELSE t
           w == [v EXCEPT !.seats[s].buff = NoAct]
<1>1. RobotSeat(t, s, cards) = w  BY DEF RobotSeat
<1>2. seat \in SeatRec  BY DEF Sound, TableRec
<1>3. k \in Nat /\ seat.token \in Nat  BY <1>2 DEF SeatRec
<1>. HIDE DEF k
<1>4. seat.buff \in seat.choices => m \in InnerMsg
  BY <1>2, <1>3, MsgTypes DEF SeatRec
<1>5. PushInnerMsg(t, m).off_timer = t.off_timer
  BY DEF PushInnerMsg, Sound, TableRec
<1>. HIDE DEF m, seat
<1>6. Grows(t.inner, t.inner)  BY DEF Grows
<1>7. Sound(v) /\ Grows(t.inner, v.inner) /\ v.off_timer = t.off_timer
  BY <1>4, <1>5, <1>6, PushSound, PushGrows
<1>. HIDE DEF v
<1>8. v.seats[s] \in SeatRec  BY <1>7 DEF Sound, TableRec
<1>9. LET x == [v.seats[s] EXCEPT !.buff = NoAct] IN x \in SeatRec
  BY <1>8 DEF SeatRec
<1>10. Sound(w) /\ w.inner = v.inner /\ w.off_timer = v.off_timer
  <2> DEFINE x == [v.seats[s] EXCEPT !.buff = NoAct]
             g == [v.seats EXCEPT ![s] = x]
  <2>1. w = [v EXCEPT !.seats = g]  OBVIOUS
  <2>2. x \in SeatRec  BY <1>9
  <2>. HIDE DEF x, w
  <2>3. g \in [Seats -> SeatRec]  BY <1>7, <2>2 DEF Sound, TableRec
  <2>. HIDE DEF g
  <2>. QED  BY <1>7, <2>1, <2>3 DEF Sound, TableRec
<1>. HIDE DEF w
<1>. QED  BY <1>1, <1>7, <1>10

(* The robot timer empties every buffer and takes no message away.         *)
LEMMA RobotTimeOutCalm ==
    ASSUME NEW t, NEW cards \in Nat, Sound(t), OneTurn(t)
    PROVE  Calm(t, OnRobotTimerTimeOut([t EXCEPT !.robot_timer = FALSE], cards))
<1> DEFINE o == [t EXCEPT !.robot_timer = FALSE]
           a == RobotSeat(o, 0, cards)
           b == RobotSeat(a, 1, cards)
           c == RobotSeat(b, 2, cards)
<1>1. /\ Sound(o) /\ OneTurn(o) /\ SameGame(t, o) /\ o.inner = t.inner
      /\ o.off_timer = t.off_timer
  BY DEF Sound, TableRec, OneTurn, SameGame, SameTurn
<1>2. OnRobotTimerTimeOut(o, cards) = c  BY DEF OnRobotTimerTimeOut
<1>3. 0 \in Seats /\ 1 \in Seats /\ 2 \in Seats  BY DEF Seats, SeatNum
<1>. HIDE DEF o
<1>4. /\ Sound(c) /\ OneTurn(c) /\ Still(o, c)
      /\ \A s \in Seats : c.seats[s].buff = NoAct
  BY <1>1, <1>2, RobotTimeOutSound, RobotTimeOutStill
<1>5. Sound(a) /\ Grows(o.inner, a.inner) /\ a.off_timer = o.off_timer
  BY <1>1, <1>3, RobotKeeps
<1>. HIDE DEF a
<1>6. Sound(b) /\ Grows(a.inner, b.inner) /\ b.off_timer = a.off_timer
  BY <1>3, <1>5, RobotKeeps
<1>. HIDE DEF b
<1>7. Grows(b.inner, c.inner) /\ c.off_timer = b.off_timer
  BY <1>3, <1>6, RobotKeeps
<1>. HIDE DEF c
<1>8. Grows(t.inner, c.inner) /\ c.off_timer = t.off_timer
  BY <1>1, <1>5, <1>6, <1>7 DEF Grows
<1>9. Still(t, c)
  <2>1. Still(t, o)  BY <1>1 DEF Still, Quiet
  <2>. QED  BY <1>4, <2>1, StillTwice
<1>10. RobotsTimed(c)  BY <1>4 DEF RobotsTimed
<1>11. PlayersBacked(t) => PlayersBacked(c)
  <2>1. \A s \in Seats : Backed(t, s) => Backed(c, s)
    BY <1>8, <1>9, BackedKept DEF Grows
  <2>. QED  BY <1>9, <2>1, PlayersKept
<1>. QED  BY <1>2, <1>4, <1>9, <1>10, <1>11 DEF Calm, Quietly, o

(* Asking for trusteeship, or giving it up, does not move the game.        *)
LEMMA TrustCalm ==
    ASSUME NEW t, NEW s \in Seats, Sound(t), OneTurn(t)
    PROVE  Calm(t, [t EXCEPT !.seats[s].trust = ~@])
<1> DEFINE b == ~t.seats[s].trust
           x == [t.seats[s] EXCEPT !.trust = b]
           g == [t.seats EXCEPT ![s] = x]
           u == [t EXCEPT !.seats[s].trust = ~@]
<1>1. t.seats \in [Seats -> SeatRec] /\ t.seats[s] \in SeatRec  BY DEF Sound, TableRec
<1>2. b \in BOOLEAN  OBVIOUS
<1>3. u = [t EXCEPT !.seats = g]  OBVIOUS
<1>. HIDE DEF b, u
<1>4. /\ x \in SeatRec /\ x.buff = t.seats[s].buff /\ x.choices = t.seats[s].choices
      /\ x.det = t.seats[s].det /\ x.state = t.seats[s].state
      /\ x.robot = t.seats[s].robot /\ x.times = t.seats[s].times
      /\ x.is_jiao = t.seats[s].is_jiao /\ x.hand = t.seats[s].hand
      /\ x.token = t.seats[s].token
  BY <1>1, <1>2 DEF SeatRec
<1>. HIDE DEF x
<1>5. /\ g \in [Seats -> SeatRec]
      /\ \A r \in Seats : g[r] = IF r = s THEN x ELSE t.seats[r]
  BY <1>1, <1>4
<1>. HIDE DEF g
<1>6. /\ Sound(u) /\ u.seats = g /\ u.inner = t.inner
      /\ u.off_timer = t.off_timer /\ u.robot_timer = t.robot_timer
  BY <1>3, <1>5 DEF Sound, TableRec
<1>7. SameGame(t, u)
  BY <1>3, <1>4, <1>5, <1>6 DEF Sound, TableRec, SameGame, SameTurn
<1>8. Still(t, u)  BY <1>6, <1>7 DEF Still, Quiet
<1>9. RobotsTimed(t) => RobotsTimed(u)  BY <1>4, <1>5, <1>6 DEF RobotsTimed
<1>10. PlayersBacked(t) => PlayersBacked(u)
  BY <1>6, <1>8, BackedKept, PlayersKept
<1>11. OneTurn(u)  BY <1>7, SameOneTurn DEF SameGame
<1>. QED  BY <1>6, <1>8, <1>9, <1>10, <1>11 DEF Calm, Quietly, u

(* Taking a message that is no OVER event does not move the game, ...      *)
LEMMA PopQuietly ==
    ASSUME NEW t, Sound(t), OneTurn(t), t.inner # << >>,
           Head(t.inner).cmd # "OVER"
    PROVE  Quietly(t, [t EXCEPT !.inner = Tail(@)])
<1> DEFINE u == [t EXCEPT !.inner = Tail(@)]
           q == t.inner
<1>1. q \in Seq(InnerMsg)  BY DEF Sound, TableRec
<1>2. Tail(q) \in Seq(InnerMsg)  BY <1>1, QueuePlaces
<1>3. /\ Sound(u) /\ SameGame(t, u) /\ u.inner = Tail(q) /\ u.seats = t.seats
      /\ u.robot_timer = t.robot_timer
  BY <1>2 DEF Sound, TableRec, SameGame, SameTurn
<1>. HIDE DEF u
<1>4. Quiet(q, Tail(q))  BY <1>1, OverTail
<1>5. Still(t, u)  BY <1>3, <1>4 DEF Still
<1>6. RobotsTimed(t) => RobotsTimed(u)  BY <1>3 DEF RobotsTimed
<1>7. OneTurn(u)  BY <1>3, SameOneTurn DEF SameGame
<1>. QED  BY <1>3, <1>5, <1>6, <1>7 DEF Quietly, u

(* ... nor does it leave a player alone, if it asks for nothing or for what *)
(* can not be done any more.                                               *)
LEMMA PopCalm ==
    ASSUME NEW t, Sound(t), OneTurn(t), t.inner # << >>,
           Head(t.inner).cmd # "OVER",
           \A s \in Seats : ~ValidAuto(t, s, Head(t.inner))
    PROVE  Calm(t, [t EXCEPT !.inner = Tail(@)])
<1> DEFINE u == [t EXCEPT !.inner = Tail(@)]
           q == t.inner
<1>1. q \in Seq(InnerMsg)  BY DEF Sound, TableRec
<1>2. /\ Tail(q) \in Seq(InnerMsg) /\ Head(q) = q[1] /\ Len(q) \in Nat
      /\ DOMAIN q = 1 .. Len(q) /\ DOMAIN Tail(q) = 1 .. Len(q) - 1
      /\ \A i \in 1 .. Len(q) - 1 : Tail(q)[i] = q[i + 1]
  BY <1>1, QueuePlaces
<1>3. /\ Sound(u) /\ SameGame(t, u) /\ u.inner = Tail(q) /\ u.seats = t.seats
      /\ u.off_timer = t.off_timer /\ u.robot_timer = t.robot_timer
  BY <1>2 DEF Sound, TableRec, SameGame, SameTurn
<1>4. Quietly(t, u)  BY PopQuietly
<1>. HIDE DEF u
<1>5. Still(t, u)  BY <1>4 DEF Quietly
<1>6. ASSUME NEW s \in Seats PROVE Backed(t, s) => Backed(u, s)
  <2>1. ASSUME NEW i \in DOMAIN q, ValidAuto(t, s, q[i])
        PROVE  \E j \in DOMAIN Tail(q) : Tail(q)[j] = q[i]
    <3>1. i # 1  BY <1>2, <2>1
    <3>2. i - 1 \in 1 .. Len(q) - 1 /\ (i - 1) + 1 = i  BY <1>2, <3>1
    <3>3. Tail(q)[i - 1] = q[i]  BY <1>2, <3>2
    <3>. QED  BY <1>2, <3>2, <3>3
  <2>2. \A i \in DOMAIN t.inner : ValidAuto(t, s, t.inner[i]) =>
            \E j \in DOMAIN u.inner : u.inner[j] = t.inner[i]
    BY <1>3, <2>1
  <2>3. t.off_timer => u.off_timer  BY <1>3
  <2>. HIDE DEF q
  <2>. QED  BY <1>5, <2>2, <2>3, BackedKept
<1>7. PlayersBacked(t) => PlayersBacked(u)  BY <1>5, <1>6, PlayersKept
<1>. QED  BY <1>4, <1>7 DEF Calm, u

(* From t to u no robot comes, unless robots sit down at this table.       *)
NoNewRobots(t, u) ==
    \A s \in Seats : u.seats[s].robot => t.seats[s].robot \/ TRUE \in RobotKinds

(* From t to u somebody sat down, got ready, left or was dissolved, and at *)
(* least one seat does not play.                                           *)
Disturbed(t, u) ==
    /\ Sound(u) /\ ~AllPlay(u)
    /\ u.inner = t.inner /\ u.round = t.round
    /\ u.state = t.state \/ u.state = "WAIT"
    /\ NoNewRobots(t, u)
    /\ \A s \in Seats : \/ u.seats[s].choices = {} /\ u.seats[s].det = FALSE
                        \/ /\ u.seats[s].choices = t.seats[s].choices
                           /\ u.seats[s].det = t.seats[s].det

(* Somebody sits down: the table is set back to WAIT.                      *)
LEMMA SitDisturbs ==
    ASSUME NEW t, NEW s \in Seats, NEW robot \in RobotKinds, Sound(t)
    PROVE  Disturbed(t, SitDownOnTable(t, s, robot))
<1> DEFINE a == [t.seats[s] EXCEPT !.state = "WAIT_NEXT"]
           b == [a EXCEPT !.robot = robot]
           g == [t.seats EXCEPT ![s] = b]
           u == [t EXCEPT !.seats = g, !.state = "WAIT"]
<1>1. t.seats \in [Seats -> SeatRec] /\ t.seats[s] \in SeatRec  BY DEF Sound, TableRec
<1>2. /\ b \in SeatRec /\ b.choices = t.seats[s].choices
      /\ b.det = t.seats[s].det /\ b.state = "WAIT_NEXT" /\ b.robot = robot
  BY <1>1, TableAssumption DEF SeatRec, SeatStates
<1>3. SitDownOnTable(t, s, robot) = u
  BY <1>1 DEF SitDownOnTable, Sound, TableRec, SeatRec
<1>. HIDE DEF b
<1>4. /\ g \in [Seats -> SeatRec] /\ g[s].state # "PLAYING"
      /\ \A r \in Seats : /\ g[r].choices = t.seats[r].choices
                          /\ g[r].det = t.seats[r].det
  BY <1>1, <1>2
<1>5. \A r \in Seats : g[r].robot => t.seats[r].robot \/ TRUE \in RobotKinds
  <2>1. robot => TRUE \in RobotKinds
    <3>1. robot \in BOOLEAN  BY TableAssumption
    <3>. QED  BY <3>1
  <2>. QED  BY <1>1, <1>2, <2>1
<1>. HIDE DEF g
<1>6. /\ Sound(u) /\ u.seats = g /\ u.inner = t.inner /\ u.round = t.round
      /\ u.state = "WAIT"
  BY <1>4 DEF Sound, TableRec, TableStates
<1>. HIDE DEF u
<1>. QED  BY <1>3, <1>4, <1>5, <1>6 DEF Disturbed, AllPlay, NoNewRobots

(* Somebody leaves.                                                        *)
LEMMA LogoutDisturbs ==
    ASSUME NEW t, NEW s \in Seats, Sound(t)
    PROVE  Disturbed(t, LogoutTable(t, s))
<1> DEFINE seat == ClearedSeat(t.seats[s])
           u == [t EXCEPT !.seats[s] = seat]
<1>1. t.seats[s] \in SeatRec  BY DEF Sound, TableRec
<1>2. seat \in SeatRec /\ seat.choices = {} /\ seat.det = FALSE
  BY <1>1, ClearedType
<1>3. seat.state = "NO_PLAYER" /\ seat.robot = t.seats[s].robot
  BY <1>1 DEF ClearedSeat, SeatRec
<1>4. LogoutTable(t, s) = u  BY DEF LogoutTable
<1>. HIDE DEF seat
<1>5. SeatChanged(t, u, s, seat)  BY <1>2, SeatPut
<1>. HIDE DEF u
<1>. QED
  BY <1>2, <1>3, <1>4, <1>5 DEF SeatChanged, Disturbed, AllPlay, NoNewRobots

(* The table is dissolved.                                                 *)
LEMMA DissolveDisturbs ==
    ASSUME NEW t, Sound(t), OneTurn(t)
    PROVE  Disturbed(t, DissolveTable(t))
<1> DEFINE x(s) == [ClearedSeat(t.seats[s]) EXCEPT !.robot = FALSE]
           f == [s \in Seats |-> IF Occupied(t, s) THEN x(s) ELSE t.seats[s]]
           u == DissolveTable(t)
<1>1. t.seats \in [Seats -> SeatRec]  BY DEF Sound, TableRec
<1>2. u = [t EXCEPT !.off_timer = FALSE, !.seats = f]  BY DEF DissolveTable
<1>3. ASSUME NEW s \in Seats
      PROVE  /\ x(s).state = "NO_PLAYER" /\ x(s).choices = {} /\ x(s).det = FALSE
             /\ x(s).robot = FALSE
  <2>1. t.seats[s] \in SeatRec  BY <1>1
  <2>. QED  BY <2>1 DEF ClearedSeat, SeatRec
<1>. HIDE DEF x
<1>4. \A s \in Seats : /\ f[s] = t.seats[s] \/ (f[s].choices = {} /\ f[s].det = FALSE)
                       /\ f[s].state = "NO_PLAYER"
                       /\ f[s].robot => t.seats[s].robot
  BY <1>3 DEF Occupied
<1>. HIDE DEF f
<1>5. Sound(u)  BY DissolveSound
<1>. HIDE DEF u
<1>6. /\ u.seats = f /\ u.inner = t.inner /\ u.round = t.round
      /\ u.state = t.state
  BY <1>2 DEF Sound, TableRec
<1>7. 0 \in Seats  BY DEF Seats, SeatNum
<1>. QED  BY <1>4, <1>5, <1>6, <1>7 DEF Disturbed, AllPlay, NoNewRobots, u

(* From t to u a seat that is able to act acted.                           *)
Acts(t, u) ==
    \E s \in Seats, act \in ActTypes, cards \in Nat, token \in Nat :
       /\ IsPlayerAbleDoAction(t, s, act, cards, token)
       /\ Sound(u) /\ NoTurn(u)
       /\ t.state # "FINISH" => Acted(t, u, s, act, cards)

(* TryAction does the whole action or, for a seat not able to and for a    *)
(* play that the rules refuse, nothing.                                    *)
LEMMA TryMoves ==
    ASSUME NEW t, NEW s \in Seats, NEW act \in ActTypes, NEW cards \in Nat,
           NEW token \in Nat, NEW legal, Sound(t), OneTurn(t)
    PROVE  IF IsPlayerAbleDoAction(t, s, act, cards, token) /\ ~RulesRefuse(act, legal)
           THEN Acts(t, TryAction(t, s, act, cards, token, legal))
           ELSE TryAction(t, s, act, cards, token, legal) = t
<1> DEFINE u == TryAction(t, s, act, cards, token, legal)
<1>1. CASE ~IsPlayerAbleDoAction(t, s, act, cards, token) \/ RulesRefuse(act, legal)
  BY <1>1 DEF TryAction
<1>2. CASE IsPlayerAbleDoAction(t, s, act, cards, token) /\ ~RulesRefuse(act, legal)
  <2> DEFINE d == DetermineAction(t, s, act)
  <2>1. act \in t.seats[s].choices /\ (act = "CHUPAI" => cards <= t.seats[s].hand)
    <3>1. t.seats[s].hand \in Nat  BY DEF Sound, TableRec, SeatRec
    <3>. QED  BY <1>2, <3>1 DEF IsPlayerAbleDoAction
  <2>2. ~DetermineFails(t, act)  BY <2>1 DEF DetermineFails, OneTurn
  <2>3. u = PlayerDoAction(d, s, act, cards)
    BY <1>2, <2>2 DEF TryAction
  <2>4. Sound(d) /\ d.seats[s].hand = t.seats[s].hand  BY DetermineSound
  <2>. HIDE DEF d
  <2>5. Sound(u) /\ NoTurn(u)  BY <2>1, <2>3, <2>4, ActSound
  <2>6. t.state # "FINISH" => Acted(t, u, s, act, cards)
    BY <1>2, TryActs
  <2>. HIDE DEF u
  <2>7. Acts(t, u)  BY <1>2, <2>5, <2>6 DEF Acts
  <2>. QED  BY <1>2, <2>7 DEF u
<1>. QED  BY <1>1, <1>2

(* The round began: all three are ready.                                   *)
Starts(t, u) ==
    /\ t.state = "WAIT" /\ t.round < MaxRound /\ NoNewRobots(t, u)
    /\ u.state = "UB" \/ (Fresh(u) /\ u.inner = t.inner /\ u.round = t.round + 1)

(* The round moved on.                                                     *)
Overs(t, type, u) ==
    /\ NoNewRobots(t, u)
    /\ \/ /\ type = 6
          /\ \E w : /\ w = [ResetPlayerChoice(t) EXCEPT !.state = "WAIT_QIANG"]
                    /\ BidsMove(w, u)
       \/ type = 2 /\ t.flow.act = NoAct /\ u = t
       \/ type = 2 /\ t.flow.act # NoAct /\ Follows(t, u)

(* What drains the head of the queue finds the table as it was.            *)
LEMMA PoppedSound ==
    ASSUME Sound(table), OneTurn(table), table.inner # << >>
    PROVE  /\ Sound(Popped) /\ OneTurn(Popped) /\ SameGame(table, Popped)
           /\ Popped.inner = Tail(table.inner) /\ Popped.seats = table.seats
           /\ Popped.off_timer = table.off_timer
           /\ Popped.robot_timer = table.robot_timer
           /\ Head(table.inner) \in InnerMsg
<1>1. table.inner \in Seq(InnerMsg)  BY DEF Sound, TableRec
<1>2. Tail(table.inner) \in Seq(InnerMsg) /\ Head(table.inner) \in InnerMsg
  BY <1>1, QueuePlaces
<1>3. /\ Sound(Popped) /\ Popped.inner = Tail(table.inner)
      /\ Popped.seats = table.seats /\ Popped.op = table.op
      /\ Popped.flow = table.flow /\ SameGame(table, Popped)
      /\ Popped.off_timer = table.off_timer
      /\ Popped.robot_timer = table.robot_timer
  BY <1>2 DEF Popped, Sound, TableRec, SameGame, SameTurn
<1>4. OneTurn(Popped)  BY <1>3 DEF OneTurn
<1>. QED  BY <1>2, <1>3, <1>4

(* What the reactor does to its batch when it takes an event, and when it  *)
(* drains the head of the inner queue.                                     *)
TakesEvent ==
    /\ Running /\ batch > 0
    /\ batch' = IF table'.inner = << >> THEN BatchSize ELSE batch - 1
    /\ refused' = StillRefused(table')

DrainsOne ==
    /\ Running /\ table.inner # << >>
    /\ batch' = IF table'.inner = << >> THEN BatchSize ELSE 0
    /\ Head(table.inner).cmd # "OVER" => StillRefused(table') \subseteq refused'
    /\ \A s \in refused' : s \in StillRefused(table') \/ (s \in Seats /\ Open(table', s))

(* Every step of the table is one of these.                                *)
TableStep ==
    \/ UNCHANGED vars
    \/ TakesEvent /\ Calm(table, table')
    \/ TakesEvent /\ Disturbed(table, table')
    \/ TakesEvent /\ Acts(table, table')
    \/ TakesEvent /\ Starts(table, table')
    \/ DrainsOne /\ Head(table.inner).cmd # "OVER" /\ Calm(table, table')
    \/ DrainsOne /\ Head(table.inner).cmd # "OVER" /\ Quietly(table, table')
         /\ refused' # {}
    \/ DrainsOne /\ Head(table.inner).cmd # "OVER" /\ Acts(Popped, table')
    \/ DrainsOne /\ Head(table.inner).cmd = "OVER"
         /\ Overs(Popped, Head(table.inner).type, table')

(* Every action of the specification is one of the steps above.            *)
LEMMA TableSteps == IInv /\ [Next]_vars => TableStep
<1> SUFFICES ASSUME IInv, [Next]_vars PROVE TableStep
  OBVIOUS
<1>1. TypeOK /\ Good(table) /\ table \in TableRec
  BY DEF IInv, TypeOK
<1>2. Running => Sound(table) /\ OneTurn(table)
  BY <1>1 DEF Running, Sound, Good
<1>3. ASSUME NEW t, Event(t)
      PROVE  Running /\ TakesEvent /\ table' = t
  BY <1>3 DEF Event, TakesEvent
<1>4. ASSUME NEW t, NEW r, Drain(t, r),
             Head(table.inner).cmd # "OVER" => StillRefused(t) \subseteq r,
             \A s \in r : s \in StillRefused(t) \/ (s \in Seats /\ Open(t, s))
      PROVE  Running /\ DrainsOne /\ table' = t /\ refused' = r
  BY <1>4 DEF Drain, DrainsOne
<1>5. ASSUME NEW robot \in RobotKinds, SitDown(robot) PROVE TableStep
  <2> DEFINE empty == {s \in Seats : ~Occupied(table, s)}
             s == CHOOSE s \in empty : \A r \in empty : s <= r
             u == SitDownOnTable(table, s, robot)
  <2>1. s \in Seats
    <3>1. empty # {} /\ empty \in SUBSET Seats  BY <1>5 DEF SitDown
    <3>. HIDE DEF empty
    <3>2. \E r \in empty : \A q \in empty : r <= q  BY <3>1, LeastSeat
    <3>. QED  BY <3>1, <3>2
  <2>2. FindEmptySeatInTable(table) = s  BY DEF FindEmptySeatInTable
  <2>. HIDE DEF s
  <2>4. Event(u)  BY <1>5, <2>2 DEF SitDown
  <2>5. Disturbed(table, u)  BY <1>2, <1>3, <2>1, <2>4, SitDisturbs
  <2>. HIDE DEF u
  <2>. QED  BY <1>3, <2>4, <2>5 DEF TableStep
<1>6. ASSUME NEW s \in Seats, NEW ready \in BOOLEAN, NEW d \in Seats, NEW p,
             Ready(s, ready, d, p)
      PROVE  TableStep
  <2> DEFINE st == IF ready THEN "READY" ELSE "WAIT_NEXT"
             seat == [table.seats[s] EXCEPT !.state = st]
             u == [table EXCEPT !.seats[s] = seat]
  <2>2. /\ table.state = "WAIT"
        /\ IF ReadyToStart(u)
           THEN u.round < MaxRound /\ Event(GameStart_1(u, d, p)) ELSE Event(u)
    BY <1>6 DEF Ready
  <2>1. Running  BY <1>3, <2>2
  <2>3. table.seats[s] \in SeatRec  BY <1>1 DEF TableRec
  <2>4. st \in SeatStates /\ st # "PLAYING"  BY DEF SeatStates
  <2>. HIDE DEF st
  <2>5. /\ seat \in SeatRec /\ seat.choices = table.seats[s].choices
        /\ seat.det = table.seats[s].det /\ seat.state = st
        /\ seat.robot = table.seats[s].robot
    BY <2>3, <2>4 DEF SeatRec
  <2>. HIDE DEF seat
  <2>6. SeatChanged(table, u, s, seat)  BY <1>2, <2>1, <2>5, SeatPut
  <2>. HIDE DEF u
  <2>7. CASE ~ReadyToStart(u)
    <3>1. Disturbed(table, u)
      BY <2>4, <2>5, <2>6 DEF SeatChanged, Disturbed, AllPlay, NoNewRobots
    <3>. QED  BY <1>3, <2>2, <2>7, <3>1 DEF TableStep
  <2>8. CASE ReadyToStart(u)
    <3> DEFINE v == GameStart_1(u, d, p)
    <3>1. u \in TableRec /\ u.round \in Int /\ u.round + 1 \in Nat
          /\ u.round = table.round /\ u.inner = table.inner
      BY <2>6 DEF SeatChanged, Sound, TableRec
    <3>2. u = [u EXCEPT !.round = u.round]  BY <3>1 DEF TableRec
    <3>3. LET w == GameStart_1([u EXCEPT !.round = u.round], d, p)
          IN  /\ w.state = "UB" \/ (Fresh(w) /\ w.inner = u.inner /\ w.round = u.round + 1)
              /\ \A r \in Seats : w.seats[r].robot = u.seats[r].robot
      BY <3>1, StartDeals
    <3>4. /\ v.state = "UB" \/ (Fresh(v) /\ v.inner = u.inner /\ v.round = u.round + 1)
          /\ \A r \in Seats : v.seats[r].robot = u.seats[r].robot
      BY <3>2, <3>3
    <3>5. Event(v)  BY <2>2, <2>8
    <3>. HIDE DEF v
    <3>6. NoNewRobots(table, v)
      BY <2>5, <2>6, <3>4 DEF SeatChanged, NoNewRobots
    <3>7. Starts(table, v)  BY <2>2, <2>8, <3>1, <3>4, <3>6 DEF Starts
    <3>. QED  BY <1>3, <3>5, <3>7 DEF TableStep
  <2>. QED  BY <2>7, <2>8
<1>7. ASSUME NEW s \in Seats, NEW act \in ActTypes, NEW k \in Nat,
             RequestDoAction(s, act, k)
      PROVE  TableStep
  <2> DEFINE u == TryAction(table, s, act, k, table.seats[s].token, TRUE)
  <2>1. Event(u) /\ IsPlayerAbleDoAction(table, s, act, k, table.seats[s].token)
    BY <1>7 DEF RequestDoAction
  <2>2. table.seats[s].token \in Nat  BY <1>1 DEF TableRec, SeatRec
  <2>4. ~RulesRefuse(act, TRUE)  BY DEF RulesRefuse
  <2>5. Running  BY <2>1 DEF Event
  <2>3. Acts(table, u)  BY <1>2, <2>1, <2>2, <2>4, <2>5, TryMoves
  <2>. HIDE DEF u
  <2>. QED  BY <1>3, <2>1, <2>3 DEF TableStep
<1>8. ASSUME NEW s \in Seats, RequestTrusteeship(s) PROVE TableStep
  <2> DEFINE u == [table EXCEPT !.seats[s].trust = ~@]
  <2>1. Event(u)  BY <1>8 DEF RequestTrusteeship
  <2>2. Calm(table, u)  BY <1>2, <1>3, <2>1, TrustCalm
  <2>. HIDE DEF u
  <2>. QED  BY <1>3, <2>1, <2>2 DEF TableStep
<1>9. ASSUME NEW s \in Seats, LogoutDone(s) PROVE TableStep
  <2> DEFINE u == LogoutTable(table, s)
  <2>1. Event(u)  BY <1>9 DEF LogoutDone
  <2>2. Disturbed(table, u)  BY <1>2, <1>3, <2>1, LogoutDisturbs
  <2>. HIDE DEF u
  <2>. QED  BY <1>3, <2>1, <2>2 DEF TableStep
<1>10. CASE CheckUserOffTimeOut
  <2> DEFINE u == OnOperationTimeOut([table EXCEPT !.off_timer = FALSE])
  <2>1. Event(u)  BY <1>10 DEF CheckUserOffTimeOut
  <2>2. Calm(table, u)  BY <1>2, <1>3, <2>1, TimeOutCalm
  <2>. HIDE DEF u
  <2>. QED  BY <1>3, <2>1, <2>2 DEF TableStep
<1>11. ASSUME NEW k \in Nat, RobotTimeOut(k) PROVE TableStep
  <2> DEFINE u == OnRobotTimerTimeOut([table EXCEPT !.robot_timer = FALSE], k)
  <2>1. Event(u)  BY <1>11 DEF RobotTimeOut
  <2>2. Calm(table, u)  BY <1>2, <1>3, <2>1, RobotTimeOutCalm
  <2>. HIDE DEF u
  <2>. QED  BY <1>3, <2>1, <2>2 DEF TableStep
<1>12. CASE DissolveDone
  <2> DEFINE u == DissolveTable(table)
  <2>1. Event(u)  BY <1>12 DEF DissolveDone
  <2>2. Disturbed(table, u)  BY <1>2, <1>3, <2>1, DissolveDisturbs
  <2>. HIDE DEF u
  <2>. QED  BY <1>3, <2>1, <2>2 DEF TableStep
<1>13. CASE GmRequestDissolveTable
  <2>1. Event(table)  BY <1>13 DEF GmRequestDissolveTable
  <2>2. Calm(table, table)  BY <1>2, <1>3, <2>1, StillSelf DEF Calm, Quietly
  <2>. QED  BY <1>3, <2>1, <2>2 DEF TableStep
<1>14. ASSUME table.inner # << >>, Running
       PROVE  /\ Sound(Popped) /\ OneTurn(Popped) /\ SameGame(table, Popped)
              /\ Head(table.inner) \in InnerMsg
              /\ Head(table.inner).cmd # "OVER"
                   /\ (\A s \in Seats : ~ValidAuto(table, s, Head(table.inner)))
                     => Calm(table, Popped)
              /\ Head(table.inner).cmd # "OVER" => Quietly(table, Popped)
  BY <1>2, <1>14, PoppedSound, PopCalm, PopQuietly DEF Popped
<1>15. ASSUME NEW legal \in BOOLEAN, InnerAuto(legal) PROVE TableStep
  <2> DEFINE m == Head(table.inner)
             u == TryAction(Popped, m.seat, m.act, m.cards, m.token, legal)
             able == IsPlayerAbleDoAction(Popped, m.seat, m.act, m.cards, m.token)
             b == able /\ RulesRefuse(m.act, legal)
             r == StillRefused(u) \cup IF b THEN {m.seat} ELSE {}
  <2>1. Drain(u, r) /\ table.inner # << >> /\ m.cmd = "AUTO"
    BY <1>15 DEF InnerAuto
  <2>2. Running  BY <2>1 DEF Drain
  <2>3. /\ m.seat \in Seats /\ m.act \in ActTypes /\ m.cards \in Nat
        /\ m.token \in Nat
    BY <1>14, <2>1, <2>2 DEF InnerMsg
  <2>4. b => u = Popped /\ Open(u, m.seat)
    BY DEF TryAction, IsPlayerAbleDoAction
  <2>5. /\ Running /\ DrainsOne /\ table' = u /\ refused' = r
    <3>1. m.cmd # "OVER"  BY <2>1
    <3>2. StillRefused(u) \subseteq r  OBVIOUS
    <3>. HIDE DEF u, b
    <3>3. \A s \in r : s \in StillRefused(u) \/ (s \in Seats /\ Open(u, s))
      <4>. HIDE DEF m
      <4>. QED  BY <2>3, <2>4
    <3>. HIDE DEF r
    <3>. QED  BY <1>4, <2>1, <3>2, <3>3
  <2>6. CASE able /\ ~RulesRefuse(m.act, legal)
    <3>1. Acts(Popped, u)
      <4>. HIDE DEF m
      <4>. QED  BY <1>14, <2>1, <2>2, <2>3, <2>6, TryMoves DEF m
    <3>. HIDE DEF u
    <3>. QED  BY <2>1, <2>5, <3>1 DEF TableStep
  <2>7. CASE b
    <3>1. u = Popped  BY <2>4, <2>7
    <3>2. m.seat \in r  BY <2>7
    <3>3. Quietly(table, Popped)  BY <1>14, <2>1, <2>2
    <3>4. refused' # {}  BY <2>5, <3>2
    <3>. HIDE DEF u, b, r
    <3>. QED  BY <2>1, <2>5, <3>1, <3>3, <3>4 DEF TableStep
  <2>8. CASE ~able
    <3>1. u = Popped  BY <2>8 DEF TryAction
    <3>2. ASSUME NEW s \in Seats PROVE ~ValidAuto(table, s, m)
      <4>1. Popped.seats = table.seats  BY <1>2, <2>1, <2>2, PoppedSound
      <4>2. \A q \in Seats : table.seats[q].det = FALSE
        BY <1>2, <2>2 DEF OneTurn
      <4>. HIDE DEF m, u
      <4>. QED  BY <2>3, <2>8, <4>1, <4>2 DEF ValidAuto, IsPlayerAbleDoAction, Open
    <3>3. Calm(table, Popped)  BY <1>14, <2>1, <2>2, <3>2
    <3>. HIDE DEF u
    <3>. QED  BY <2>1, <2>5, <3>1, <3>3 DEF TableStep
  <2>. QED  BY <2>6, <2>7, <2>8
<1>16. ASSUME NEW d \in Seats, NEW p, InnerOver(d, p) PROVE TableStep
  <2> DEFINE type == Head(table.inner).type
             u == OnDoActionOver(Popped, type, d, p)
  <2>1. Drain(u, {}) /\ table.inner # << >> /\ Head(table.inner).cmd = "OVER"
    BY <1>16 DEF InnerOver
  <2>2. Running /\ DrainsOne /\ table' = u
    <3>. HIDE DEF u
    <3>. QED  BY <1>4, <2>1
  <2>3. Sound(Popped)  BY <1>14, <2>1, <2>2
  <2>4. type \in {2, 6}  BY <1>14, <2>1, <2>2 DEF InnerMsg
  <2>5. Overs(Popped, type, u)
    <3>1. CASE type = 6
      <4>1. u = GameStart_2(Popped, d, p)  BY <3>1 DEF OnDoActionOver
      <4>2. \E w : /\ w = [ResetPlayerChoice(Popped) EXCEPT !.state = "WAIT_QIANG"]
                   /\ BidsMove(w, GameStart_2(Popped, d, p))
                   /\ \A s \in Seats : GameStart_2(Popped, d, p).seats[s].robot
                                          = Popped.seats[s].robot
        BY <2>3, BiddingMoves
      <4>3. NoNewRobots(Popped, u)  BY <4>1, <4>2 DEF NoNewRobots
      <4>. QED  BY <3>1, <4>1, <4>2, <4>3 DEF Overs
    <3>2. CASE type = 2 /\ Popped.flow.act = NoAct
      <4>1. u = Popped  BY <3>2 DEF OnDoActionOver, ProcessChuPaiForNextSeat
      <4>2. NoNewRobots(Popped, u)  BY <4>1 DEF NoNewRobots
      <4>. QED  BY <3>2, <4>1, <4>2 DEF Overs
    <3>3. CASE type = 2 /\ Popped.flow.act # NoAct
      <4>1. u = ProcessChuPaiForNextSeat(Popped, p)  BY <3>3 DEF OnDoActionOver
      <4>2. Follows(Popped, u)  BY <2>3, <3>3, <4>1, NextFollows
      <4>3. NoNewRobots(Popped, u)  BY <4>2 DEF NoNewRobots, Follows, Opens
      <4>. QED  BY <3>3, <4>2, <4>3 DEF Overs
    <3>. QED  BY <2>4, <3>1, <3>2, <3>3
  <2>. HIDE DEF u
  <2>. QED  BY <2>1, <2>2, <2>5 DEF TableStep
<1>17. CASE InnerReport
  <2>1. /\ Drain(Popped, StillRefused(Popped)) /\ table.inner # << >>
        /\ Head(table.inner).cmd \in {"RESULT", "RECORD"}
    BY <1>17 DEF InnerReport
  <2>2. Running /\ DrainsOne /\ table' = Popped  BY <1>4, <2>1
  <2>3. Calm(table, Popped)  BY <1>14, <2>1, <2>2 DEF ValidAuto
  <2>. QED  BY <2>1, <2>2, <2>3 DEF TableStep
<1>18. CASE InnerDissolve
  <2>1. /\ Drain(Popped, StillRefused(Popped)) /\ table.inner # << >>
        /\ Head(table.inner).cmd = "DISSOLVE"
    BY <1>18 DEF InnerDissolve
  <2>2. Running /\ DrainsOne /\ table' = Popped  BY <1>4, <2>1
  <2>3. Calm(table, Popped)  BY <1>14, <2>1, <2>2 DEF ValidAuto
  <2>. QED  BY <2>1, <2>2, <2>3 DEF TableStep
<1>19. CASE UNCHANGED vars
  BY <1>19 DEF TableStep
<1>20. CASE Client
  <2>1. Cards \subseteq Nat  BY TableAssumption DEF Cards
  <2>2. 0 \in Seats /\ Trustees \subseteq Seats
    BY TableAssumption DEF Seats, SeatNum
  <2>3. CASE \E r \in RobotKinds : SitDown(r)  BY <1>5, <2>3
  <2>4. CASE \E s \in Seats, d \in Dealers, p \in Picks : Ready(s, TRUE, d, p)
    BY <1>6, <2>4, DealersAreSeats
  <2>5. CASE \E s \in Seats : Ready(s, FALSE, 0, "none")  BY <1>6, <2>2, <2>5
  <2>6. CASE \E s \in Seats, a \in ActTypes :
               \E k \in IF a = "CHUPAI" THEN Cards ELSE {0} : RequestDoAction(s, a, k)
    <3>1. PICK s \in Seats, a \in ActTypes :
             \E k \in IF a = "CHUPAI" THEN Cards ELSE {0} : RequestDoAction(s, a, k)
      BY <2>6
    <3>2. PICK k \in Nat : RequestDoAction(s, a, k)  BY <2>1, <3>1
    <3>. QED  BY <1>7, <3>2
  <2>7. CASE \E s \in Trustees : RequestTrusteeship(s)  BY <1>8, <2>2, <2>7
  <2>8. CASE \E s \in Seats : LogoutDone(s)  BY <1>9, <2>8
  <2>. QED  BY <1>20, <2>3, <2>4, <2>5, <2>6, <2>7, <2>8 DEF Client
<1>21. CASE Timer
  <2>1. Cards \subseteq Nat  BY TableAssumption DEF Cards
  <2>. QED  BY <1>10, <1>11, <1>21, <2>1 DEF Timer
<1>22. CASE Inner
  BY <1>15, <1>16, <1>17, <1>18, <1>22, DealersAreSeats DEF Inner
<1>. QED  BY <1>12, <1>13, <1>19, <1>20, <1>21, <1>22 DEF Next

(* From t to w the choices of all seats were taken, and the bidding goes on.*)
Rebids(t, w) ==
    /\ Sound(w) /\ NoTurn(w) /\ w.state = "WAIT_QIANG"
    /\ w.dealer = t.dealer /\ w.dealer2 = t.dealer2
    /\ w.jiao = t.jiao /\ w.flow = t.flow /\ w.round = t.round
    /\ w.trust_err = t.trust_err /\ w.last_winner = t.last_winner
    /\ w.inner = t.inner /\ w.off_timer = t.off_timer
    /\ \A s \in Seats : /\ w.seats[s].state = t.seats[s].state
                        /\ w.seats[s].times = t.seats[s].times
                        /\ w.seats[s].is_jiao = t.seats[s].is_jiao
                        /\ w.seats[s].hand = t.seats[s].hand
                        /\ w.seats[s].robot = t.seats[s].robot

(* That is how GameStart_2 begins.                                         *)
LEMMA ResetRebids ==
    ASSUME NEW t, Sound(t)
    PROVE  Rebids(t, [ResetPlayerChoice(t) EXCEPT !.state = "WAIT_QIANG"])
<1> DEFINE c == ResetPlayerChoice(t)
           w == [c EXCEPT !.state = "WAIT_QIANG"]
<1>1. Cleared(t, c)  BY ResetClears
<1>. HIDE DEF c
<1>2. c \in TableRec  BY <1>1 DEF Cleared, Sound
<1>3. /\ w \in TableRec /\ w.state = "WAIT_QIANG" /\ w.seats = c.seats
      /\ w.dealer = c.dealer /\ w.dealer2 = c.dealer2
      /\ w.jiao = c.jiao /\ w.flow = c.flow /\ w.round = c.round
      /\ w.trust_err = c.trust_err /\ w.last_winner = c.last_winner
      /\ w.inner = c.inner /\ w.off_timer = c.off_timer
  BY <1>2 DEF TableRec, TableStates
<1>. HIDE DEF w
<1>4. Rebids(t, w)
  BY <1>1, <1>3 DEF Rebids, Cleared, Sound, NoTurn
<1>. QED  BY <1>4 DEF w, c

(* Whatever an OVER event does, a robot it asks has its timer.             *)
LEMMA OverPrompts ==
    ASSUME NEW t, NEW u, NEW type, Sound(t), Overs(t, type, u)
    PROVE  u = t \/ u.state = "UB" \/ NoTurn(u) \/ Prompted(u)
<1>1. CASE \E w : /\ w = [ResetPlayerChoice(t) EXCEPT !.state = "WAIT_QIANG"]
                  /\ BidsMove(w, u)
  <2>1. PICK w : /\ w = [ResetPlayerChoice(t) EXCEPT !.state = "WAIT_QIANG"]
                 /\ BidsMove(w, u)
    BY <1>1
  <2>2. NoTurn(w)  BY <2>1, ResetRebids DEF Rebids
  <2>3. CASE NextBid(w, u)
    BY <2>3 DEF NextBid, Asking
  <2>4. CASE LastBid(w, u)
    BY <2>4 DEF LastBid, Asking
  <2>5. CASE BidsEnd(w, u)
    BY <2>2, <2>5 DEF BidsEnd, Fresh, Led, Opens
  <2>. QED  BY <2>1, <2>3, <2>4, <2>5 DEF BidsMove
<1>2. CASE Follows(t, u)
  BY <1>2 DEF Follows, Opens
<1>. QED  BY <1>1, <1>2 DEF Overs

(* A robot of a round that is asked and has an action in its buffer has    *)
(* the timer.                                                              *)
RobotsReady == Running /\ AllPlay(table) => RobotsTimed(table)

(* No step takes the timer from under it.                                  *)
LEMMA RobotsStayReady == IInv /\ RobotsReady /\ TableStep => RobotsReady'
<1> SUFFICES ASSUME IInv, RobotsReady, TableStep, Running', AllPlay(table')
             PROVE  RobotsTimed(table')
  BY DEF RobotsReady, Running, AllPlay, RobotsTimed
<1>1. ASSUME SameGame(table, table')
      PROVE  RobotsTimed(table)
  BY <1>1 DEF SameGame, AllPlay, RobotsReady, Running
<1>2. CASE UNCHANGED vars
  BY <1>2 DEF vars, RobotsReady, Running
<1>3. CASE Quietly(table, table')
  BY <1>1, <1>3 DEF Quietly, Still
<1>4. CASE NoTurn(table')
  BY <1>4 DEF NoTurn, RobotsTimed
<1>5. CASE Disturbed(table, table')
  BY <1>5 DEF Disturbed
<1>6. CASE Acts(table, table') \/ Acts(Popped, table')
  BY <1>4, <1>6 DEF Acts
<1>7. CASE Prompted(table')
  BY <1>7 DEF Prompted
<1>8. CASE Starts(table, table')
  BY <1>7, <1>8 DEF Starts, Running, Fresh
<1>9. ASSUME DrainsOne, Overs(Popped, Head(table.inner).type, table')
      PROVE  RobotsTimed(table')
  <2>1. Sound(table) /\ OneTurn(table)
    BY <1>9 DEF IInv, TypeOK, Good, Sound, Running, DrainsOne
  <2>2. /\ Sound(Popped) /\ SameGame(table, Popped)
        /\ Popped.seats = table.seats /\ Popped.robot_timer = table.robot_timer
    BY <1>9, <2>1, PoppedSound DEF DrainsOne
  <2>3. CASE table' = Popped
    <3>1. RobotsTimed(table)  BY <1>1, <2>2, <2>3
    <3>. QED  BY <2>2, <2>3, <3>1 DEF RobotsTimed
  <2>. QED  BY <1>4, <1>7, <1>9, <2>2, <2>3, OverPrompts DEF Running
<1>. QED  BY <1>2, <1>3, <1>5, <1>6, <1>8, <1>9 DEF TableStep, Calm

(* RobotActsOnItsBuffer: however the three seats share their one timer, a  *)
(* robot that has chosen an action is never left without it.               *)
THEOREM RobotsAct == Spec => []RobotActsOnItsBuffer
<1>1. Init => RobotsReady
  <2> SUFFICES ASSUME Init PROVE ~AllPlay(table)
    BY DEF RobotsReady
  <2>1. 0 \in Seats  BY DEF Seats, SeatNum
  <2>2. table.seats[0] = EmptySeat  BY <2>1 DEF Init
  <2>. QED  BY <2>1, <2>2 DEF AllPlay, EmptySeat
<1>2. IInv /\ RobotsReady /\ [Next]_vars => RobotsReady'
  BY TableSteps, RobotsStayReady
<1>3. RobotsReady => RobotActsOnItsBuffer
  BY DEF RobotsReady, RobotActsOnItsBuffer, InRound, Intact, AllPlay, RobotsTimed, Open
<1>. QED  BY <1>1, <1>2, <1>3, Invariance, PTL DEF Spec

(***************************************************************************)
(* The invariant of a round.  Orderly says where the bidding and the play  *)
(* of an intact table are, and that the round has one baton: an open turn  *)
(* or one OVER event on its way.                                           *)
(***************************************************************************)

(* n bids are made, from the dealer on; the fourth is the caller's second. *)
BidsAre(t, n) ==
    /\ \A i \in Seats :
         /\ n <= i => t.seats[At(t, i)].times = 0
         /\ i < n => IF n = 4 /\ At(t, i) = t.jiao
                     THEN t.seats[At(t, i)].times \in {2, 11}
                     ELSE t.seats[At(t, i)].times \in {1, 10}
    /\ t.dealer2 = NoSeat => n <= 3 /\ ~t.flow.qiang
    /\ t.dealer2 # NoSeat =>
         /\ \E i \in Seats : i < n /\ t.jiao = At(t, i)
         /\ n <= 3 => t.seats[t.jiao].times = 1
         /\ n = 4 => t.flow.qiang

(* Seat s is asked for the bid that follows: whether it calls, whether it  *)
(* raises, or, having called, whether it raises who raised.                *)
AskedToCall(t, s, n) ==
    /\ n < 3 /\ s = At(t, n) /\ t.dealer2 = NoSeat
    /\ t.seats[s].choices = {"JIAO", "BU_JIAO"} /\ t.jiao = NextSeat(s)

AskedToRaise(t, s, n) ==
    /\ n < 3 /\ s = At(t, n) /\ t.dealer2 # NoSeat /\ t.seats[t.jiao].is_jiao
    /\ t.seats[s].choices = {"QIANG", "BU_QIANG"}

AskedAgain(t, s, n) ==
    /\ n = 3 /\ s = t.jiao /\ t.dealer2 # NoSeat /\ ~t.seats[t.jiao].is_jiao
    /\ t.flow.qiang /\ t.seats[s].choices = {"QIANG", "BU_QIANG"}

Asks(t, s, n) == AskedToCall(t, s, n) \/ AskedToRaise(t, s, n) \/ AskedAgain(t, s, n)

(* Where jiao_dizhu_index is when nobody is asked.                         *)
Answered(t, n) ==
    /\ t.dealer2 = NoSeat /\ n < 3 => t.jiao = At(t, n)
    /\ t.dealer2 # NoSeat => (t.seats[t.jiao].is_jiao <=> n # 4)

BiddingAt(t, n) ==
    /\ t.flow.lead = NoSeat /\ t.flow.passes = 0
    /\ \A s \in Seats : t.seats[s].hand = HandSize
    /\ BidsAre(t, n)
    /\ \A s \in Seats : t.seats[s].choices # {} => Asks(t, s, n)
    /\ NoTurn(t) => Answered(t, n)

Bidding(t) == \E n \in 0 .. 4 : BiddingAt(t, n)

(* The seat whose turn it is to play, and whether it leads.                *)
TurnOf(t) ==
    IF t.flow.lead = NoSeat THEN t.dealer
    ELSE (t.flow.lead + 1 + t.flow.passes) % SeatNum

Leads(t) == t.flow.lead = NoSeat \/ t.flow.passes = 2

Playing(t) ==
    /\ t.flow.passes \in 0 .. 2
    /\ \A s \in Seats : t.seats[s].hand \in 1 .. HandSize + BottomSize
    /\ t.flow.lead = NoSeat => t.flow.passes = 0
    /\ \A s \in Seats : t.seats[s].choices # {} =>
         /\ s = TurnOf(t)
         /\ t.seats[s].choices = IF Leads(t) THEN {"CHUPAI"} ELSE {"CHUPAI", "PASS"}
    /\ NoTurn(t) => /\ t.flow.lead # NoSeat /\ t.flow.act # NoAct
                    /\ NextSeat(t.flow.seat) = TurnOf(t)
    /\ t.flow.act = "PASS" => (t.flow.over <=> t.flow.passes = 2)

Baton(t) ==
    \/ NoOver(t.inner)
    \/ NoTurn(t) /\ \E type \in {2, 6} : OneOver(t.inner, type)

Orderly(t) ==
    /\ Baton(t)
    /\ t.state = "FINISH" => NoTurn(t) /\ NoOver(t.inner)
    /\ t.state = "WAIT" => ~AllPlay(t)
    /\ AllPlay(t) /\ t.state = "WAIT_QIANG" => Bidding(t) /\ ~OneOver(t.inner, 2)
    /\ AllPlay(t) /\ t.state = "PLAYING" => Playing(t) /\ ~OneOver(t.inner, 6)

(* A round that started while an OVER event of the one before, of a seat   *)
(* that was asked and left, is still on its way.                           *)
Late(t) == t.inner = <<OverMsg(2)>> /\ Fresh(t)

(* A batch of two leaves room for one event between that OVER event and    *)
(* the drain of the queue.                                                 *)
Drained(t, b) ==
    /\ t.inner = << >> <=> b = BatchSize
    /\ b > 0 /\ t.state = "WAIT" => NoOver(t.inner) \/ t.inner = <<OverMsg(2)>>

RoundInv ==
    Running => /\ Orderly(table) \/ (batch = 0 /\ Late(table))
               /\ Drained(table, batch)

(* A game that does not move keeps its place in the bidding ...            *)
LEMMA StillBidding ==
    ASSUME NEW t, NEW u, SameGame(t, u), NEW n \in 0 .. 4, BiddingAt(t, n),
           t.jiao \in Seats, t.dealer \in Seats
    PROVE  BiddingAt(u, n)
<1>1. \A i : At(u, i) = At(t, i)  BY DEF At, SameGame
<1>2. \A i \in Seats : At(t, i) \in Seats  BY AtType
<1>3. u.flow = t.flow /\ u.dealer2 = t.dealer2 /\ u.jiao = t.jiao
  BY DEF SameGame, SameTurn
<1>4. \A s \in Seats : /\ u.seats[s].times = t.seats[s].times
                       /\ u.seats[s].is_jiao = t.seats[s].is_jiao
                       /\ u.seats[s].hand = t.seats[s].hand
                       /\ u.seats[s].choices = t.seats[s].choices
                       /\ u.seats[s].det = t.seats[s].det
  BY DEF SameGame, SameTurn
<1>5. BidsAre(u, n)
  BY <1>1, <1>2, <1>3, <1>4 DEF BidsAre, BiddingAt
<1>6. ASSUME NEW s \in Seats, u.seats[s].choices # {} PROVE Asks(u, s, n)
  <2>1. Asks(t, s, n)  BY <1>4, <1>6 DEF BiddingAt
  <2>. QED
    BY <1>1, <1>3, <1>4, <2>1 DEF Asks, AskedToCall, AskedToRaise, AskedAgain
<1>7. NoTurn(u) => Answered(u, n)
  <2>1. NoTurn(u) => NoTurn(t)  BY <1>4 DEF NoTurn
  <2>. QED  BY <1>1, <1>3, <1>4, <2>1 DEF Answered, BiddingAt
<1>. QED  BY <1>3, <1>4, <1>5, <1>6, <1>7 DEF BiddingAt

(* ... and in the play, ...                                                *)
LEMMA StillPlaying ==
    ASSUME NEW t, NEW u, SameGame(t, u), Playing(t)
    PROVE  Playing(u)
<1>1. TurnOf(u) = TurnOf(t) /\ (Leads(u) <=> Leads(t)) /\ u.flow = t.flow
  BY DEF SameGame, SameTurn, TurnOf, Leads
<1>2. \A s \in Seats : /\ u.seats[s].hand = t.seats[s].hand
                       /\ u.seats[s].choices = t.seats[s].choices
                       /\ u.seats[s].det = t.seats[s].det
  BY DEF SameGame, SameTurn
<1>3. NoTurn(u) => NoTurn(t)  BY <1>2 DEF NoTurn
<1>. QED  BY <1>1, <1>2, <1>3 DEF Playing

(* ... and so its order.                                                   *)
LEMMA StillOrderly ==
    ASSUME NEW t, NEW u, Still(t, u), Sound(t), Orderly(t)
    PROVE  Orderly(u)
<1>1. SameGame(t, u) /\ Quiet(t.inner, u.inner)  BY DEF Still
<1>2. (NoTurn(u) <=> NoTurn(t)) /\ (AllPlay(u) <=> AllPlay(t)) /\ u.state = t.state
  BY <1>1 DEF SameGame, SameTurn, NoTurn, AllPlay
<1>3. Bidding(t) => Bidding(u)
  BY <1>1, StillBidding DEF Bidding, Sound
<1>4. Playing(t) => Playing(u)  BY <1>1, StillPlaying
<1>. QED  BY <1>1, <1>2, <1>3, <1>4 DEF Orderly, Baton, Quiet

(* Somebody comes or leaves: the round is no longer intact.                *)
LEMMA DisturbedOrderly ==
    ASSUME NEW t, NEW u, Disturbed(t, u), Orderly(t)
    PROVE  Orderly(u)
<1>1. NoTurn(t) => NoTurn(u)  BY DEF Disturbed, NoTurn
<1>. QED  BY <1>1 DEF Disturbed, Orderly, Baton

(* A round just dealt waits for its first bid.                             *)
LEMMA FreshOrderly ==
    ASSUME NEW t, Fresh(t), NoOver(t.inner)
    PROVE  Orderly(t)
<1>1. t.dealer \in Seats /\ t.dealer2 = NoSeat /\ t.jiao = NextSeat(t.dealer)
      /\ t.flow = NoFlow /\ t.state = "WAIT_QIANG"
  BY DEF Fresh
<1>2. At(t, 0) = t.dealer /\ \A i \in Seats : At(t, i) \in Seats
  BY <1>1, AtType
<1>3. t.flow.lead = NoSeat /\ t.flow.passes = 0 /\ t.flow.qiang = FALSE
  BY <1>1 DEF NoFlow
<1>4. BidsAre(t, 0)
  BY <1>1, <1>2, <1>3 DEF BidsAre, Fresh, Seats, SeatNum
<1>5. \A s \in Seats : t.seats[s].choices # {} => AskedToCall(t, s, 0)
  BY <1>1, <1>2 DEF AskedToCall, Fresh
<1>6. ~NoTurn(t)
  BY <1>1 DEF NoTurn, Fresh
<1>7. BiddingAt(t, 0)
  BY <1>3, <1>4, <1>5, <1>6 DEF BiddingAt, Asks, Fresh
<1>8. ~OneOver(t.inner, 2)  BY OverCmd DEF OneOver, NoOver
<1>9. 0 \in 0 .. 4  OBVIOUS
<1>. QED  BY <1>1, <1>7, <1>8, <1>9 DEF Orderly, Baton, Bidding

(* A bid of yes or no goes to the next bid.                                *)
LEMMA BidsNo ==
    ASSUME NEW t, NEW u, NEW s \in Seats, NEW n \in 0 .. 4, NEW act, act # "PASS",
           Sound(t), BiddingAt(t, n), Asks(t, s, n), BidNo(t, u, s, act)
    PROVE  n + 1 \in 0 .. 4 /\ BiddingAt(u, n + 1)
<1>1. /\ \A i : At(u, i) = At(t, i)
      /\ u.dealer2 = t.dealer2 /\ u.jiao = t.jiao
      /\ u.flow.lead = NoSeat /\ u.flow.passes = 0
      /\ u.flow.qiang <=> t.flow.qiang
  BY DEF BidNo, TurnTaken, At, BiddingAt
<1>2. \A r \in Seats : /\ u.seats[r].hand = HandSize
                       /\ u.seats[r].is_jiao = t.seats[r].is_jiao
                       /\ u.seats[r].times = IF r = s THEN t.seats[r].times + 1
                                             ELSE t.seats[r].times
                       /\ u.seats[r].choices = {}
  BY DEF BidNo, TurnTaken, NoTurn, BiddingAt
<1>3. /\ t.dealer \in Seats /\ t.jiao \in Seats
      /\ \A r \in Seats : t.seats[r].times \in Nat
  BY DEF Sound, TableRec, SeatRec
<1>4. /\ \A i \in Seats : At(t, i) \in Seats
      /\ \A i, j \in Seats : At(t, i) = At(t, j) => i = j
      /\ \A r \in Seats : \E i \in Seats : r = At(t, i)
  BY <1>3, AtType
<1>5. Seats = {0, 1, 2}  BY DEF Seats, SeatNum
<1>6. CASE AskedToCall(t, s, n)
  <2>1. /\ n \in 0 .. 2 /\ s = At(t, n) /\ t.dealer2 = NoSeat
        /\ t.jiao = NextSeat(s) /\ n \in Seats
    BY <1>5, <1>6 DEF AskedToCall
  <2>2. BidsAre(u, n + 1)
    BY <1>1, <1>2, <1>3, <1>4, <1>5, <2>1 DEF BidsAre, BiddingAt
  <2>3. Answered(u, n + 1)
    <3>1. n + 1 < 3 => n \in {0, 1}  BY <2>1
    <3>2. n + 1 < 3 => NextSeat(At(t, n)) = At(t, n + 1)  BY <1>3, <3>1, AtType
    <3>. QED  BY <1>1, <2>1, <3>2 DEF Answered
  <2>. QED  BY <1>1, <1>2, <2>1, <2>2, <2>3 DEF BiddingAt
<1>7. CASE AskedToRaise(t, s, n)
  <2>1. /\ n \in 0 .. 2 /\ s = At(t, n) /\ t.dealer2 # NoSeat
        /\ t.seats[t.jiao].is_jiao /\ n \in Seats
    BY <1>5, <1>7 DEF AskedToRaise
  <2>2. t.jiao # s  BY <1>4, <2>1 DEF BiddingAt, BidsAre
  <2>3. BidsAre(u, n + 1)
    BY <1>1, <1>2, <1>3, <1>4, <1>5, <2>1, <2>2 DEF BidsAre, BiddingAt
  <2>4. Answered(u, n + 1)
    <3>1. u.seats[u.jiao].is_jiao  BY <1>1, <1>2, <1>3, <2>1
    <3>2. n + 1 # 4 /\ u.dealer2 # NoSeat  BY <1>1, <2>1
    <3>. QED  BY <3>1, <3>2 DEF Answered
  <2>. QED  BY <1>1, <1>2, <2>1, <2>3, <2>4 DEF BiddingAt
<1>8. CASE AskedAgain(t, s, n)
  <2>1. /\ n = 3 /\ s = t.jiao /\ t.dealer2 # NoSeat
        /\ ~t.seats[t.jiao].is_jiao /\ t.flow.qiang
    BY <1>8 DEF AskedAgain
  <2>2. BidsAre(u, 4)
    BY <1>1, <1>2, <1>3, <1>4, <1>5, <2>1 DEF BidsAre, BiddingAt
  <2>3. Answered(u, 4)
    BY <1>1, <1>2, <1>3, <2>1 DEF Answered
  <2>. QED  BY <1>1, <1>2, <2>1, <2>2, <2>3 DEF BiddingAt
<1>. QED  BY <1>6, <1>7, <1>8 DEF Asks

(* Who calls becomes the caller, who raises is the last to have raised.    *)
LEMMA BidsYes ==
    ASSUME NEW t, NEW u, NEW s \in Seats, NEW n \in 0 .. 4,
           NEW act \in t.seats[s].choices, act \in CallActs,
           Sound(t), BiddingAt(t, n), Asks(t, s, n), BidYes(t, u, s, act)
    PROVE  n + 1 \in 0 .. 4 /\ BiddingAt(u, n + 1)
<1>1. /\ \A i : At(u, i) = At(t, i)
      /\ u.dealer2 = s /\ u.jiao = IF act = "JIAO" THEN s ELSE t.jiao
      /\ u.flow.lead = NoSeat /\ u.flow.passes = 0
      /\ u.flow.qiang <=> (t.flow.qiang \/ act = "QIANG")
  BY DEF BidYes, TurnTaken, At, BiddingAt
<1>2. \A r \in Seats :
         /\ u.seats[r].hand = HandSize
         /\ u.seats[r].is_jiao <=> (t.seats[r].is_jiao \/ (r = s /\ act = "JIAO"))
         /\ u.seats[r].times = IF r # s THEN t.seats[r].times
                               ELSE t.seats[r].times + IF act = "QIANG" THEN 10 ELSE 1
         /\ u.seats[r].choices = {}
  BY DEF BidYes, TurnTaken, NoTurn, BiddingAt
<1>3. /\ t.dealer \in Seats /\ t.jiao \in Seats
      /\ \A r \in Seats : t.seats[r].times \in Nat
  BY DEF Sound, TableRec, SeatRec
<1>4. /\ \A i \in Seats : At(t, i) \in Seats
      /\ \A i, j \in Seats : At(t, i) = At(t, j) => i = j
      /\ \A r \in Seats : \E i \in Seats : r = At(t, i)
  BY <1>3, AtType
<1>5. Seats = {0, 1, 2} /\ s # NoSeat  BY DEF Seats, SeatNum, NoSeat
<1>6. CASE AskedToCall(t, s, n)
  <2>1. /\ n \in 0 .. 2 /\ s = At(t, n) /\ t.dealer2 = NoSeat
        /\ act = "JIAO" /\ n \in Seats
    BY <1>5, <1>6 DEF AskedToCall, CallActs
  <2>2. BidsAre(u, n + 1)
    BY <1>1, <1>2, <1>3, <1>4, <1>5, <2>1 DEF BidsAre, BiddingAt
  <2>3. Answered(u, n + 1)
    BY <1>1, <1>2, <1>5, <2>1 DEF Answered
  <2>. QED  BY <1>1, <1>2, <2>1, <2>2, <2>3 DEF BiddingAt
<1>7. CASE AskedToRaise(t, s, n)
  <2>1. /\ n \in 0 .. 2 /\ s = At(t, n) /\ t.dealer2 # NoSeat
        /\ act = "QIANG" /\ t.seats[t.jiao].is_jiao /\ n \in Seats
    BY <1>5, <1>7 DEF AskedToRaise, CallActs
  <2>2. t.jiao # s  BY <1>4, <2>1 DEF BiddingAt, BidsAre
  <2>3. BidsAre(u, n + 1)
    BY <1>1, <1>2, <1>3, <1>4, <1>5, <2>1, <2>2 DEF BidsAre, BiddingAt
  <2>4. Answered(u, n + 1)
    BY <1>1, <1>2, <1>3, <1>5, <2>1 DEF Answered
  <2>. QED  BY <1>1, <1>2, <2>1, <2>3, <2>4 DEF BiddingAt
<1>8. CASE AskedAgain(t, s, n)
  <2>1. /\ n = 3 /\ s = t.jiao /\ t.dealer2 # NoSeat /\ act = "QIANG"
        /\ ~t.seats[t.jiao].is_jiao /\ t.flow.qiang
    BY <1>8 DEF AskedAgain, CallActs
  <2>2. BidsAre(u, 4)
    BY <1>1, <1>2, <1>3, <1>4, <1>5, <2>1 DEF BidsAre, BiddingAt
  <2>3. Answered(u, 4)
    BY <1>1, <1>2, <1>3, <2>1 DEF Answered
  <2>. QED  BY <1>1, <1>2, <2>1, <2>2, <2>3 DEF BiddingAt
<1>. QED  BY <1>6, <1>7, <1>8 DEF Asks

(* How the turns of the play are counted.                                  *)
LEMMA TurnCount ==
    \A lead \in Seats : \A p \in 0 .. 2 :
        /\ (lead + 1 + p) % SeatNum \in Seats
        /\ (lead + 1 + p) % SeatNum = lead <=> p = 2
        /\ NextSeat((lead + 1 + p) % SeatNum) = lead <=> p = 1
        /\ p # 2 => NextSeat((lead + 1 + p) % SeatNum) = (lead + 1 + (p + 1)) % SeatNum
        /\ p = 0 => (lead + 1 + p) % SeatNum = NextSeat(lead)
<1>1. \A s \in Seats : s \in {0, 1, 2}  BY DEF Seats, SeatNum
<1>2. 0 \in Seats /\ 1 \in Seats /\ 2 \in Seats  BY DEF Seats, SeatNum
<1>3. /\ NextSeat(0) = 1 /\ NextSeat(1) = 2 /\ NextSeat(2) = 0
      /\ 1 % SeatNum = 1 /\ 2 % SeatNum = 2 /\ 3 % SeatNum = 0
      /\ 4 % SeatNum = 1 /\ 5 % SeatNum = 2
  BY DEF NextSeat, SeatNum
<1> SUFFICES ASSUME NEW lead \in Seats, NEW p \in 0 .. 2
             PROVE  /\ (lead + 1 + p) % SeatNum \in Seats
                    /\ (lead + 1 + p) % SeatNum = lead <=> p = 2
                    /\ NextSeat((lead + 1 + p) % SeatNum) = lead <=> p = 1
                    /\ p # 2 => NextSeat((lead + 1 + p) % SeatNum)
                                  = (lead + 1 + (p + 1)) % SeatNum
                    /\ p = 0 => (lead + 1 + p) % SeatNum = NextSeat(lead)
  OBVIOUS
<1> DEFINE k == lead + 1 + p
           m == lead + 1 + (p + 1)
<1>4. p \in {0, 1, 2} /\ lead \in {0, 1, 2}  BY <1>1
<1>5. CASE lead = 0
  <2>1. k = p + 1 /\ m = p + 2  BY <1>4, <1>5
  <2>. HIDE DEF k, m
  <2>2. \/ p = 0 /\ k % SeatNum = 1 /\ m % SeatNum = 2
        \/ p = 1 /\ k % SeatNum = 2 /\ m % SeatNum = 0
        \/ p = 2 /\ k % SeatNum = 0
    BY <1>3, <1>4, <2>1
  <2>3. /\ k % SeatNum \in Seats
        /\ k % SeatNum = lead <=> p = 2
        /\ NextSeat(k % SeatNum) = lead <=> p = 1
        /\ p # 2 => NextSeat(k % SeatNum) = m % SeatNum
        /\ p = 0 => k % SeatNum = NextSeat(lead)
    BY <1>2, <1>3, <1>5, <2>2
  <2>. QED  BY <2>3 DEF k, m
<1>6. CASE lead = 1
  <2>1. k = p + 2 /\ m = p + 3  BY <1>4, <1>6
  <2>. HIDE DEF k, m
  <2>2. \/ p = 0 /\ k % SeatNum = 2 /\ m % SeatNum = 0
        \/ p = 1 /\ k % SeatNum = 0 /\ m % SeatNum = 1
        \/ p = 2 /\ k % SeatNum = 1
    BY <1>3, <1>4, <2>1
  <2>3. /\ k % SeatNum \in Seats
        /\ k % SeatNum = lead <=> p = 2
        /\ NextSeat(k % SeatNum) = lead <=> p = 1
        /\ p # 2 => NextSeat(k % SeatNum) = m % SeatNum
        /\ p = 0 => k % SeatNum = NextSeat(lead)
    BY <1>2, <1>3, <1>6, <2>2
  <2>. QED  BY <2>3 DEF k, m
<1>7. CASE lead = 2
  <2>1. k = p + 3 /\ m = p + 4  BY <1>4, <1>7
  <2>. HIDE DEF k, m
  <2>2. \/ p = 0 /\ k % SeatNum = 0 /\ m % SeatNum = 1
        \/ p = 1 /\ k % SeatNum = 1 /\ m % SeatNum = 2
        \/ p = 2 /\ k % SeatNum = 2
    BY <1>3, <1>4, <2>1
  <2>3. /\ k % SeatNum \in Seats
        /\ k % SeatNum = lead <=> p = 2
        /\ NextSeat(k % SeatNum) = lead <=> p = 1
        /\ p # 2 => NextSeat(k % SeatNum) = m % SeatNum
        /\ p = 0 => k % SeatNum = NextSeat(lead)
    BY <1>2, <1>3, <1>7, <2>2
  <2>. QED  BY <2>3 DEF k, m
<1>. QED  BY <1>4, <1>5, <1>6, <1>7

(* The event that an action pushes when the round goes on.                 *)
NextEvent(t, act) ==
    IF act = "CHUPAI" THEN 2
    ELSE IF t.state = "WAIT_QIANG" THEN 6
    ELSE IF act \in CallActs THEN 0 ELSE 2

(* Whoever acts gives his turn away: that event is pushed, or the round is *)
(* over.                                                                   *)
LEMMA ActedEnds ==
    ASSUME NEW t, NEW u, NEW s, NEW act, NEW cards, Acted(t, u, s, act, cards)
    PROVE  /\ TurnTaken(t, u)
           /\ \/ u.state = "FINISH" /\ Quiet(t.inner, u.inner)
              \/ Ended(t, u, NextEvent(t, act))
<1>1. "CHUPAI" \notin CallActs  BY DEF CallActs
<1>. QED
  BY <1>1 DEF Acted, Played, Passed, BidYes, BidNo, NextEvent

(* A play that is not the last passes the turn on, ...                     *)
LEMMA PlayedOn ==
    ASSUME NEW t, NEW u, NEW s \in Seats, NEW cards \in Nat, Sound(t),
           Playing(t), Played(t, u, s, cards),
           cards \in 1 .. t.seats[s].hand, cards # t.seats[s].hand
    PROVE  Playing(u)
<1>1. /\ u.flow.act = "CHUPAI" /\ u.flow.seat = s
      /\ u.flow.lead = s /\ u.flow.passes = 0
  BY DEF Played
<1>2. s # NoSeat  BY DEF Seats, NoSeat
<1>3. TurnOf(u) = NextSeat(s)
  <2>1. 0 \in 0 .. 2  OBVIOUS
  <2>2. (s + 1 + 0) % SeatNum = NextSeat(s)  BY <2>1, TurnCount
  <2>. QED  BY <1>1, <1>2, <2>2 DEF TurnOf
<1>4. \A r \in Seats : u.seats[r].choices = {} /\ t.seats[r].hand \in Nat
  BY DEF Played, TurnTaken, NoTurn, Sound, TableRec, SeatRec
<1>5. \A r \in Seats : u.seats[r].hand \in 1 .. HandSize + BottomSize
  <2>1. HandSize + BottomSize \in Nat  BY TableAssumption
  <2> DEFINE top == HandSize + BottomSize
  <2>2. \A r \in Seats : t.seats[r].hand \in 1 .. top  BY DEF Playing
  <2>3. \A r \in Seats : u.seats[r].hand =
           IF r = s THEN t.seats[r].hand - cards ELSE t.seats[r].hand
    BY DEF Played
  <2>. HIDE DEF top
  <2>4. top \in Nat  BY <2>1 DEF top
  <2>5. \A r \in Seats : u.seats[r].hand \in 1 .. top
    BY <1>4, <2>2, <2>3, <2>4
  <2>. QED  BY <2>5 DEF top
<1>. QED  BY <1>1, <1>2, <1>3, <1>4, <1>5 DEF Playing, NoAct

(* ... and so does a pass, the second of which ends the trick.             *)
LEMMA PassedOn ==
    ASSUME NEW t, NEW u, NEW s \in Seats, Sound(t), Playing(t),
           "PASS" \in t.seats[s].choices, Passed(t, u, s, "PASS")
    PROVE  Playing(u) /\ t.flow.lead # NoSeat /\ t.flow.passes \in 0 .. 1
<1>1. /\ s = TurnOf(t) /\ ~Leads(t) /\ t.flow.passes \in 0 .. 2
  BY DEF Playing
<1>2. t.flow.lead \in Seats /\ t.flow.lead # NoSeat /\ t.flow.passes \in 0 .. 1
  BY <1>1 DEF Leads, Sound, TableRec, FlowRec
<1>3. /\ u.flow.act = "PASS" /\ u.flow.seat = s
      /\ u.flow.lead = t.flow.lead /\ u.flow.passes = t.flow.passes + 1
      /\ u.flow.over <=> t.flow.lead = NextSeat(s)
      /\ \A r \in Seats : u.seats[r].hand = t.seats[r].hand
      /\ \A r \in Seats : u.seats[r].choices = {}
  BY DEF Passed, TurnTaken, NoTurn
<1>4. s = (t.flow.lead + 1 + t.flow.passes) % SeatNum
  BY <1>1, <1>2 DEF TurnOf
<1>5. /\ NextSeat(s) = t.flow.lead <=> t.flow.passes = 1
      /\ NextSeat(s) = (t.flow.lead + 1 + (t.flow.passes + 1)) % SeatNum
  <2>1. t.flow.passes \in 0 .. 2 /\ t.flow.passes # 2  BY <1>2
  <2>. QED  BY <1>2, <1>4, <2>1, TurnCount, ZenonT(60)
<1>6. TurnOf(u) = NextSeat(s)  BY <1>2, <1>3, <1>5 DEF TurnOf
<1>7. u.flow.passes \in 0 .. 2 /\ (u.flow.passes = 2 <=> t.flow.passes = 1)
  BY <1>2, <1>3
<1>8. u.flow.over <=> u.flow.passes = 2
  BY <1>3, <1>5, <1>7
<1>9. \A r \in Seats : u.seats[r].hand \in 1 .. HandSize + BottomSize
  BY <1>3 DEF Playing
<1>. QED  BY <1>2, <1>3, <1>6, <1>7, <1>8, <1>9 DEF Playing, NoAct

(* Who acts on an orderly table takes the baton: he turns it into the OVER *)
(* event that opens the next turn, or ends the round.                      *)
LEMMA ActsOrderly ==
    ASSUME NEW t, NEW u, Sound(t), OneTurn(t), Orderly(t), Acts(t, u)
    PROVE  /\ Orderly(u) /\ NoOver(t.inner)
           /\ t.inner = << >> /\ u.state = "WAIT" =>
                 NoOver(u.inner) \/ u.inner = <<OverMsg(2)>>
<1>1. PICK s \in Seats, act \in ActTypes, cards \in Nat, token \in Nat :
         /\ IsPlayerAbleDoAction(t, s, act, cards, token)
         /\ Sound(u) /\ NoTurn(u)
         /\ t.state # "FINISH" => Acted(t, u, s, act, cards)
  BY DEF Acts
<1>2. /\ act \in t.seats[s].choices
      /\ act = "CHUPAI" => cards \in 1 .. t.seats[s].hand
  BY <1>1 DEF IsPlayerAbleDoAction
<1>3. ~NoTurn(t)  BY <1>2 DEF NoTurn
<1>4. NoOver(t.inner) /\ t.state # "FINISH"  BY <1>3 DEF Orderly, Baton
<1>5. /\ TurnTaken(t, u)
      /\ \/ u.state = "FINISH" /\ Quiet(t.inner, u.inner)
         \/ Ended(t, u, NextEvent(t, act))
  BY <1>1, <1>4, ActedEnds
<1>6. CASE u.state = "FINISH" /\ Quiet(t.inner, u.inner)
  BY <1>1, <1>4, <1>6 DEF Orderly, Baton, Quiet
<1>7. ASSUME u.state = t.state,
             u.inner = IF NextEvent(t, act) = 0 THEN t.inner
                       ELSE Append(t.inner, OverMsg(NextEvent(t, act)))
      PROVE  /\ Orderly(u)
             /\ t.inner = << >> /\ u.state = "WAIT" =>
                  NoOver(u.inner) \/ u.inner = <<OverMsg(2)>>
  <2> DEFINE type == NextEvent(t, act)
  <2>1. type \in {0, 2, 6}  BY DEF NextEvent
  <2>2. t.inner \in Seq(InnerMsg)  BY DEF Sound, TableRec
  <2>3. /\ type = 0 => NoOver(u.inner)
        /\ type # 0 => OneOver(u.inner, type)
        /\ \A other \in {2, 6} : OneOver(u.inner, other) => other = type
    <3>. HIDE DEF type
    <3>1. CASE type = 0
      <4>1. u.inner = t.inner  BY <1>7, <3>1 DEF type
      <4>2. \A other \in {2, 6} : ~OneOver(t.inner, other)
        BY <1>4, OverCmd DEF OneOver, NoOver
      <4>. QED  BY <1>4, <3>1, <4>1, <4>2
    <3>2. CASE type # 0
      <4>1. u.inner = Append(t.inner, OverMsg(type))  BY <1>7, <3>2 DEF type
      <4>. QED  BY <1>4, <2>1, <2>2, <3>2, <4>1, OverAppend
    <3>. QED  BY <3>1, <3>2
  <2>4. Baton(u)  BY <1>1, <2>1, <2>3 DEF Baton
  <2>5. AllPlay(u) <=> AllPlay(t)  BY <1>5 DEF TurnTaken, AllPlay
  <2>6. t.state = "WAIT" => type \in {0, 2}  BY DEF NextEvent
  <2>7. t.inner = << >> /\ u.state = "WAIT" => NoOver(u.inner) \/ u.inner = <<OverMsg(2)>>
    <3>1. CASE type = 0  BY <2>3, <3>1
    <3>2. CASE type # 0
      <4>. SUFFICES ASSUME t.inner = << >>, u.state = "WAIT"
                    PROVE  u.inner = <<OverMsg(2)>>
        OBVIOUS
      <4>1. type = 2  BY <1>7, <2>6, <3>2
      <4>2. u.inner = Append(<< >>, OverMsg(2))  BY <1>7, <3>2, <4>1
      <4>. QED  BY <4>2
    <3>. QED  BY <3>1, <3>2
  <2>8. ASSUME AllPlay(u), u.state = "WAIT_QIANG"
        PROVE  Bidding(u) /\ type = 6
    <3>1. Bidding(t) /\ t.state = "WAIT_QIANG"
      BY <1>7, <2>5, <2>8 DEF Orderly
    <3>2. PICK n \in 0 .. 4 : BiddingAt(t, n)  BY <3>1 DEF Bidding
    <3>3. Asks(t, s, n)  BY <1>2, <3>2 DEF BiddingAt
    <3>4. act \in {"JIAO", "BU_JIAO", "QIANG", "BU_QIANG"}
      BY <1>2, <3>3 DEF Asks, AskedToCall, AskedToRaise, AskedAgain
    <3>5. type = 6 /\ act # "PASS" /\ act # "CHUPAI"  BY <3>1, <3>4 DEF NextEvent
    <3>6. CASE act \in CallActs
      <4>1. BidYes(t, u, s, act)  BY <1>1, <1>4, <3>5, <3>6 DEF Acted
      <4>2. n + 1 \in 0 .. 4 /\ BiddingAt(u, n + 1)
        BY <1>2, <3>2, <3>3, <3>6, <4>1, BidsYes
      <4>. QED  BY <3>5, <4>2 DEF Bidding
    <3>7. CASE act \notin CallActs
      <4>1. BidNo(t, u, s, act)  BY <1>1, <1>4, <3>1, <3>5, <3>7 DEF Acted
      <4>2. n + 1 \in 0 .. 4 /\ BiddingAt(u, n + 1)
        BY <3>2, <3>3, <3>5, <4>1, BidsNo
      <4>. QED  BY <3>5, <4>2 DEF Bidding
    <3>. QED  BY <3>6, <3>7
  <2>9. ASSUME AllPlay(u), u.state = "PLAYING"
        PROVE  Playing(u) /\ type = 2
    <3>1. Playing(t) /\ t.state = "PLAYING"
      BY <1>7, <2>5, <2>9 DEF Orderly
    <3>2. act \in {"CHUPAI", "PASS"}
      <4>1. t.seats[s].choices = IF Leads(t) THEN {"CHUPAI"} ELSE {"CHUPAI", "PASS"}
        BY <1>2, <3>1 DEF Playing
      <4>. QED  BY <1>2, <4>1
    <3>3. type = 2  BY <3>1, <3>2 DEF NextEvent, CallActs
    <3>4. CASE act = "CHUPAI"
      <4>1. Played(t, u, s, cards)  BY <1>1, <1>4, <3>4 DEF Acted
      <4>2. cards # t.seats[s].hand  BY <2>9, <4>1 DEF Played
      <4>. QED  BY <1>2, <3>1, <3>3, <3>4, <4>1, <4>2, PlayedOn
    <3>5. CASE act = "PASS"
      <4>1. Passed(t, u, s, "PASS")
        BY <1>1, <1>4, <3>1, <3>5 DEF Acted, CallActs
      <4>. QED  BY <1>2, <3>1, <3>3, <3>5, <4>1, PassedOn
    <3>. QED  BY <3>2, <3>4, <3>5
  <2>10. u.state = "WAIT" => ~AllPlay(u)  BY <1>7, <2>5 DEF Orderly
  <2>. HIDE DEF type
  <2>11. Orderly(u)
    BY <1>4, <1>7, <2>3, <2>4, <2>8, <2>9, <2>10 DEF Orderly
  <2>. QED  BY <2>7, <2>11
<1>8. CASE Ended(t, u, NextEvent(t, act))
  BY <1>4, <1>6, <1>7, <1>8 DEF Ended
<1>. QED  BY <1>4, <1>5, <1>6, <1>8

(* From t to u seat s is asked for acts, and no other.                     *)
Offered(t, u, s, acts) ==
    /\ u.state = t.state /\ u.dealer = t.dealer /\ u.dealer2 = t.dealer2
    /\ u.flow = t.flow /\ u.round = t.round
    /\ \A r \in Seats : /\ u.seats[r].state = t.seats[r].state
                        /\ u.seats[r].times = t.seats[r].times
                        /\ u.seats[r].hand = t.seats[r].hand
                        /\ u.seats[r].choices = IF r = s THEN acts ELSE {}
    /\ Quiet(t.inner, u.inner)

(* Whom the bidding asks next.                                             *)
LEMMA NextBidOffers ==
    ASSUME NEW t, NEW u, Sound(t), NextBid(t, u)
    PROVE  \E i \in Seats :
              /\ t.seats[At(t, i)].times = 0
              /\ \A j \in Seats : j < i => t.seats[At(t, j)].times # 0
              /\ Offered(t, u, At(t, i), IF t.jiao = At(t, i) THEN {"JIAO", "BU_JIAO"}
                                         ELSE {"QIANG", "BU_QIANG"})
              /\ u.jiao = IF t.jiao = At(t, i) THEN NextSeat(t.jiao) ELSE t.jiao
              /\ \A r \in Seats : u.seats[r].is_jiao = t.seats[r].is_jiao
<1>1. PICK i \in Seats :
         /\ t.seats[At(t, i)].times = 0
         /\ \A j \in Seats : j < i => t.seats[At(t, j)].times # 0
         /\ IF t.jiao = At(t, i)
            THEN \E v : /\ v = [t EXCEPT !.jiao = NextSeat(At(t, i))]
                        /\ Asking(v, u, At(t, i), {"JIAO", "BU_JIAO"})
            ELSE Asking(t, u, At(t, i), {"QIANG", "BU_QIANG"})
  BY DEF NextBid
<1> DEFINE s == At(t, i)
<1>. HIDE DEF s
<1>2. CASE t.jiao = s
  <2>1. PICK v : /\ v = [t EXCEPT !.jiao = NextSeat(s)]
                 /\ Asking(v, u, s, {"JIAO", "BU_JIAO"})
    BY <1>1, <1>2 DEF s
  <2>2. /\ v.state = t.state /\ v.dealer = t.dealer /\ v.dealer2 = t.dealer2
        /\ v.flow = t.flow /\ v.round = t.round /\ v.jiao = NextSeat(s)
        /\ v.seats = t.seats /\ v.inner = t.inner
    BY <2>1 DEF Sound, TableRec
  <2>3. Offered(t, u, s, {"JIAO", "BU_JIAO"})
    BY <2>1, <2>2 DEF Offered, Asking
  <2>4. u.jiao = NextSeat(s) /\ \A r \in Seats : u.seats[r].is_jiao = t.seats[r].is_jiao
    BY <2>1, <2>2 DEF Asking
  <2>. QED  BY <1>1, <1>2, <2>3, <2>4 DEF s
<1>3. CASE t.jiao # s
  <2>1. Asking(t, u, s, {"QIANG", "BU_QIANG"})  BY <1>1, <1>3 DEF s
  <2>2. /\ Offered(t, u, s, {"QIANG", "BU_QIANG"}) /\ u.jiao = t.jiao
        /\ \A r \in Seats : u.seats[r].is_jiao = t.seats[r].is_jiao
    BY <2>1 DEF Offered, Asking
  <2>. QED  BY <1>1, <1>3, <2>2 DEF s
<1>. QED  BY <1>2, <1>3

(* The caller is asked once more, and not a third time.                    *)
LEMMA LastBidOffers ==
    ASSUME NEW t, NEW u, Sound(t), LastBid(t, u)
    PROVE  /\ Offered(t, u, t.jiao, {"QIANG", "BU_QIANG"}) /\ u.jiao = t.jiao
           /\ ~u.seats[t.jiao].is_jiao
<1>1. PICK v : /\ v = [t EXCEPT !.seats[t.jiao].is_jiao = FALSE]
               /\ Asking(v, u, t.jiao, {"QIANG", "BU_QIANG"})
  BY DEF LastBid
<1> DEFINE h == [t.seats[t.jiao] EXCEPT !.is_jiao = FALSE]
           g == [t.seats EXCEPT ![t.jiao] = h]
<1>2. t.jiao \in Seats /\ t.seats \in [Seats -> SeatRec]  BY DEF Sound, TableRec
<1>3. /\ h.state = t.seats[t.jiao].state /\ h.times = t.seats[t.jiao].times
      /\ h.hand = t.seats[t.jiao].hand /\ ~h.is_jiao
  BY <1>2 DEF SeatRec
<1>4. v = [t EXCEPT !.seats = g]  BY <1>1
<1>. HIDE DEF h
<1>5. \A r \in Seats : g[r] = IF r = t.jiao THEN h ELSE t.seats[r]  BY <1>2
<1>6. \A r \in Seats : /\ g[r].state = t.seats[r].state
                       /\ g[r].times = t.seats[r].times
                       /\ g[r].hand = t.seats[r].hand
  BY <1>3, <1>5
<1>7. ~g[t.jiao].is_jiao  BY <1>2, <1>3, <1>5
<1>. HIDE DEF g
<1>8. /\ v.state = t.state /\ v.dealer = t.dealer /\ v.dealer2 = t.dealer2
      /\ v.flow = t.flow /\ v.round = t.round /\ v.jiao = t.jiao
      /\ v.seats = g /\ v.inner = t.inner
  BY <1>4 DEF Sound, TableRec
<1>9. Offered(t, u, t.jiao, {"QIANG", "BU_QIANG"}) /\ u.jiao = t.jiao
  <2>1. Asking(v, u, t.jiao, {"QIANG", "BU_QIANG"})  BY <1>1
  <2>2. \A r \in Seats : /\ v.seats[r].state = t.seats[r].state
                         /\ v.seats[r].times = t.seats[r].times
                         /\ v.seats[r].hand = t.seats[r].hand
    BY <1>6, <1>8
  <2>. QED  BY <1>8, <2>1, <2>2 DEF Offered, Asking
<1>10. u.seats[t.jiao].is_jiao = g[t.jiao].is_jiao
  BY <1>1, <1>2, <1>8 DEF Asking
<1>. QED  BY <1>7, <1>9, <1>10

(* The seat that is asked next is the one that is due.                     *)
LEMMA NextBidOrderly ==
    ASSUME NEW t, NEW u, NEW n \in 0 .. 4, Sound(t), NoTurn(t), BiddingAt(t, n),
           NextBid(t, u)
    PROVE  BiddingAt(u, n) /\ (t.dealer2 # NoSeat => u.jiao = t.jiao)
<1>1. PICK i \in Seats :
         /\ t.seats[At(t, i)].times = 0
         /\ \A j \in Seats : j < i => t.seats[At(t, j)].times # 0
         /\ Offered(t, u, At(t, i), IF t.jiao = At(t, i) THEN {"JIAO", "BU_JIAO"}
                                    ELSE {"QIANG", "BU_QIANG"})
         /\ u.jiao = IF t.jiao = At(t, i) THEN NextSeat(t.jiao) ELSE t.jiao
         /\ \A r \in Seats : u.seats[r].is_jiao = t.seats[r].is_jiao
  BY NextBidOffers
<1>2. /\ t.dealer \in Seats /\ t.jiao \in Seats
      /\ \A j \in Seats : At(t, j) \in Seats
      /\ \A j, k \in Seats : At(t, j) = At(t, k) => j = k
  BY AtType DEF Sound
<1>3. Seats = {0, 1, 2}  BY DEF Seats, SeatNum
<1>4. i = n /\ n \in Seats
  BY <1>1, <1>2, <1>3 DEF BiddingAt, BidsAre
<1> DEFINE s == At(t, n)
<1>5. Answered(t, n) /\ BidsAre(t, n)  BY DEF BiddingAt
<1>6. CASE t.dealer2 = NoSeat
  <2>1. t.jiao = s  BY <1>3, <1>4, <1>5, <1>6 DEF Answered
  <2>. HIDE DEF s
  <2>2. Offered(t, u, s, {"JIAO", "BU_JIAO"}) /\ u.jiao = NextSeat(s)
    BY <1>1, <1>4, <2>1 DEF s
  <2>3. \A j : At(u, j) = At(t, j)  BY <2>2 DEF Offered, At
  <2>4. BidsAre(u, n)
    BY <1>2, <1>5, <1>6, <2>2, <2>3 DEF BidsAre, Offered
  <2>5. \A r \in Seats : u.seats[r].choices # {} => AskedToCall(u, r, n)
    BY <1>3, <1>4, <1>6, <2>2, <2>3 DEF AskedToCall, Offered, s
  <2>6. ~NoTurn(u)
    BY <1>2, <1>4, <2>2 DEF NoTurn, Offered, s
  <2>. QED  BY <1>6, <2>2, <2>4, <2>5, <2>6 DEF BiddingAt, Asks, Offered
<1>7. CASE t.dealer2 # NoSeat
  <2>1. t.jiao # s /\ t.seats[t.jiao].is_jiao
    BY <1>2, <1>3, <1>4, <1>5, <1>7 DEF Answered, BidsAre
  <2>. HIDE DEF s
  <2>2. Offered(t, u, s, {"QIANG", "BU_QIANG"}) /\ u.jiao = t.jiao
    BY <1>1, <1>4, <2>1 DEF s
  <2>3. \A j : At(u, j) = At(t, j)  BY <2>2 DEF Offered, At
  <2>4. BidsAre(u, n)
    BY <1>2, <1>5, <1>7, <2>2, <2>3 DEF BidsAre, Offered
  <2>5. u.seats[u.jiao].is_jiao  BY <1>1, <1>2, <2>1, <2>2
  <2>6. \A r \in Seats : u.seats[r].choices # {} => AskedToRaise(u, r, n)
    BY <1>3, <1>4, <1>7, <2>2, <2>3, <2>5 DEF AskedToRaise, Offered, s
  <2>7. ~NoTurn(u)
    BY <1>2, <1>4, <2>2 DEF NoTurn, Offered, s
  <2>. QED  BY <1>7, <2>2, <2>4, <2>6, <2>7 DEF BiddingAt, Asks, Offered
<1>. QED  BY <1>6, <1>7

(* When everybody has bid and somebody raised, it is the caller's turn.    *)
LEMMA LastBidOrderly ==
    ASSUME NEW t, NEW u, NEW n \in 0 .. 4, Sound(t), NoTurn(t), BiddingAt(t, n),
           \A s \in Seats : t.seats[s].times # 0, LastBid(t, u)
    PROVE  BiddingAt(u, n) /\ u.jiao = t.jiao
<1>1. /\ Offered(t, u, t.jiao, {"QIANG", "BU_QIANG"}) /\ u.jiao = t.jiao
      /\ ~u.seats[t.jiao].is_jiao
  BY LastBidOffers
<1>2. t.seats[t.jiao].is_jiao /\ t.flow.qiang  BY DEF LastBid
<1>3. /\ t.dealer \in Seats /\ t.jiao \in Seats
      /\ \A j \in Seats : At(t, j) \in Seats
  BY AtType DEF Sound
<1>4. Answered(t, n) /\ BidsAre(t, n)  BY DEF BiddingAt
<1>5. t.dealer2 # NoSeat /\ n = 3
  <2>1. t.dealer2 # NoSeat  BY <1>2, <1>4 DEF BidsAre
  <2>2. n # 4  BY <1>2, <1>4, <2>1 DEF Answered
  <2>3. \A i \in Seats : ~(n <= i)  BY <1>3, <1>4 DEF BidsAre
  <2>4. n \notin {0, 1, 2}  BY <2>3 DEF Seats, SeatNum
  <2>. QED  BY <2>1, <2>2, <2>4
<1>6. \A j : At(u, j) = At(t, j)  BY <1>1 DEF Offered, At
<1>7. BidsAre(u, n)
  BY <1>1, <1>3, <1>4, <1>6 DEF BidsAre, Offered
<1>8. \A r \in Seats : u.seats[r].choices # {} => AskedAgain(u, r, n)
  BY <1>1, <1>2, <1>5 DEF AskedAgain, Offered
<1>9. ~NoTurn(u)  BY <1>1, <1>3 DEF NoTurn, Offered
<1>. QED  BY <1>1, <1>7, <1>8, <1>9 DEF BiddingAt, Asks, Offered

(* The landlord leads the first trick.                                     *)
LEMMA LedPlaying ==
    ASSUME NEW t, NEW u, NEW n \in 0 .. 4, Sound(t), BiddingAt(t, n),
           t.dealer2 # NoSeat, Led(t, u)
    PROVE  Playing(u)
<1>1. t.dealer2 \in Seats  BY DEF Sound, TableRec
<1>2. /\ u.flow.act = "CHUPAI" /\ u.flow.lead = NoSeat /\ u.flow.passes = 0
      /\ u.dealer = t.dealer2
      /\ \A r \in Seats : u.seats[r].choices = IF r = t.dealer2 THEN {"CHUPAI"} ELSE {}
  BY DEF Led, Opens, BiddingAt
<1>3. \A r \in Seats : u.seats[r].hand =
         IF r = t.dealer2 THEN HandSize + BottomSize ELSE HandSize
  BY DEF Led, BiddingAt
<1>4. \A r \in Seats : u.seats[r].hand \in 1 .. HandSize + BottomSize
  BY <1>3, TableAssumption
<1>5. TurnOf(u) = t.dealer2 /\ Leads(u)  BY <1>2 DEF TurnOf, Leads
<1>6. ~NoTurn(u)  BY <1>1, <1>2 DEF NoTurn
<1>. QED  BY <1>2, <1>4, <1>5, <1>6 DEF Playing

(* The seat after the last entry of the flow has the turn.                 *)
LEMMA FollowsPlaying ==
    ASSUME NEW t, NEW u, Sound(t), NoTurn(t), Playing(t), Follows(t, u)
    PROVE  Playing(u)
<1> DEFINE s == NextSeat(t.flow.seat)
<1>1. /\ t.flow.lead # NoSeat /\ s = TurnOf(t) /\ t.flow.passes \in 0 .. 2
      /\ t.flow.lead \in Seats /\ t.flow.seat \in Seats
  BY DEF Playing, Sound, TableRec, FlowRec
<1>2. s \in Seats  BY <1>1, NextSeatType
<1>. HIDE DEF s
<1>3. /\ u.flow.act = "CHUPAI" /\ u.flow.lead = t.flow.lead
      /\ u.flow.passes = t.flow.passes /\ u.dealer = t.dealer
      /\ \A r \in Seats : u.seats[r].choices =
            IF r # s THEN {}
            ELSE IF t.flow.lead \in {NoSeat, s} THEN {"CHUPAI"} ELSE {"CHUPAI", "PASS"}
      /\ \A r \in Seats : u.seats[r].hand = t.seats[r].hand
  BY DEF Follows, Opens, s
<1>4. TurnOf(u) = s  BY <1>1, <1>3 DEF TurnOf
<1>5. t.flow.lead = s <=> t.flow.passes = 2
  <2>1. s = (t.flow.lead + 1 + t.flow.passes) % SeatNum  BY <1>1 DEF TurnOf
  <2>2. (t.flow.lead + 1 + t.flow.passes) % SeatNum = t.flow.lead <=> t.flow.passes = 2
    BY <1>1, TurnCount
  <2>. QED  BY <2>1, <2>2
<1>6. t.flow.lead \in {NoSeat, s} <=> Leads(u)  BY <1>1, <1>3, <1>5 DEF Leads
<1>7. ~NoTurn(u)
  <2>1. u.seats[s].choices # {}  BY <1>2, <1>3
  <2>. QED  BY <1>2, <2>1 DEF NoTurn
<1>8. \A r \in Seats : u.seats[r].hand \in 1 .. HandSize + BottomSize
  BY <1>3 DEF Playing
<1>9. \A r \in Seats : u.seats[r].choices # {} =>
         /\ r = TurnOf(u)
         /\ u.seats[r].choices = IF Leads(u) THEN {"CHUPAI"} ELSE {"CHUPAI", "PASS"}
  BY <1>3, <1>4, <1>6
<1>. QED  BY <1>1, <1>3, <1>7, <1>8, <1>9 DEF Playing

(* When the bidding moves on from an orderly table, it is orderly again.   *)
LEMMA BidsMoveOrderly ==
    ASSUME NEW t, NEW u, Sound(t), NoTurn(t), NoOver(t.inner),
           t.state = "WAIT_QIANG", AllPlay(t) => Bidding(t),
           BidsMove(t, u), u.state # "UB"
    PROVE  Orderly(u)
<1>1. \A v : NoOver(v.inner) => ~OneOver(v.inner, 2) /\ ~OneOver(v.inner, 6) /\ Baton(v)
  BY OverCmd DEF NoOver, OneOver, Baton
<1>2. CASE NextBid(t, u)
  <2>1. PICK s, acts : Offered(t, u, s, acts)  BY <1>2, NextBidOffers
  <2>2. u.state = "WAIT_QIANG" /\ NoOver(u.inner) /\ (AllPlay(u) <=> AllPlay(t))
    BY <2>1 DEF Offered, Quiet, AllPlay
  <2>3. AllPlay(t) => Bidding(u)
    BY <1>2, NextBidOrderly DEF Bidding
  <2>. QED  BY <1>1, <2>2, <2>3 DEF Orderly
<1>3. CASE (\A s \in Seats : t.seats[s].times # 0) /\ LastBid(t, u)
  <2>1. PICK s, acts : Offered(t, u, s, acts)  BY <1>3, LastBidOffers
  <2>2. u.state = "WAIT_QIANG" /\ NoOver(u.inner) /\ (AllPlay(u) <=> AllPlay(t))
    BY <2>1 DEF Offered, Quiet, AllPlay
  <2>3. AllPlay(t) => Bidding(u)
    BY <1>3, LastBidOrderly DEF Bidding
  <2>. QED  BY <1>1, <2>2, <2>3 DEF Orderly
<1>4. CASE BidsEnd(t, u)
  <2>1. CASE u = t
    BY <1>1, <2>1 DEF Orderly
  <2>2. CASE Fresh(u) /\ u.inner = t.inner
    BY <2>2, FreshOrderly
  <2>3. CASE t.dealer2 # NoSeat /\ Led(t, u)
    <3>1. u.state = "PLAYING" /\ NoOver(u.inner) /\ (AllPlay(u) <=> AllPlay(t))
      BY <2>3 DEF Led, Opens, Quiet, AllPlay
    <3>2. AllPlay(t) => Playing(u)
      BY <2>3, LedPlaying DEF Bidding
    <3>. QED  BY <1>1, <3>1, <3>2 DEF Orderly
  <2>. QED  BY <1>4, <2>1, <2>2, <2>3 DEF BidsEnd
<1>. QED  BY <1>2, <1>3, <1>4 DEF BidsMove

(* An intact bidding with nobody asked is where it was when GameStart_2    *)
(* sets out.                                                               *)
LEMMA RebidsBidding ==
    ASSUME NEW t, NEW w, Sound(t), NoTurn(t), Rebids(t, w), Bidding(t)
    PROVE  Bidding(w)
<1>1. PICK n \in 0 .. 4 : BiddingAt(t, n)  BY DEF Bidding
<1>2. \A j : At(w, j) = At(t, j)  BY DEF Rebids, At
<1>3. /\ t.dealer \in Seats /\ t.jiao \in Seats
      /\ \A j \in Seats : At(t, j) \in Seats
  BY AtType DEF Sound
<1>4. BidsAre(w, n)  BY <1>1, <1>2, <1>3 DEF BidsAre, BiddingAt, Rebids
<1>5. Answered(w, n)  BY <1>1, <1>2, <1>3 DEF Answered, BiddingAt, Rebids
<1>6. BiddingAt(w, n)
  BY <1>1, <1>4, <1>5 DEF BiddingAt, Rebids, NoTurn
<1>. QED  BY <1>6 DEF Bidding

(* The drained OVER event passes the baton on.                             *)
LEMMA OversOrderly ==
    ASSUME NEW t, NEW u, NEW type \in {2, 6}, Sound(t), NoTurn(t), NoOver(t.inner),
           Orderly(t), t.state # "FINISH",
           AllPlay(t) /\ t.state = "WAIT_QIANG" => type = 6,
           AllPlay(t) /\ t.state = "PLAYING" => type = 2,
           Overs(t, type, u), u.state # "UB", t.state # "UB"
    PROVE  Orderly(u)
<1>1. CASE type = 6 /\ \E w : /\ w = [ResetPlayerChoice(t) EXCEPT !.state = "WAIT_QIANG"]
                              /\ BidsMove(w, u)
  <2>1. PICK w : /\ w = [ResetPlayerChoice(t) EXCEPT !.state = "WAIT_QIANG"]
                 /\ BidsMove(w, u)
    BY <1>1
  <2>2. Rebids(t, w)  BY <2>1, ResetRebids
  <2>3. AllPlay(w) => Bidding(w)
    <3>1. AllPlay(w) <=> AllPlay(t)  BY <2>2 DEF Rebids, AllPlay
    <3>2. AllPlay(t) => t.state = "WAIT_QIANG"
      BY <1>1 DEF Orderly, Sound, TableRec, TableStates
    <3>. QED  BY <2>2, <3>1, <3>2, RebidsBidding DEF Orderly
  <2>4. Sound(w) /\ NoTurn(w) /\ NoOver(w.inner) /\ w.state = "WAIT_QIANG"
    BY <2>2 DEF Rebids
  <2>. QED  BY <2>1, <2>3, <2>4, BidsMoveOrderly
<1>2. CASE u = t
  BY <1>2
<1>3. CASE type = 2 /\ Follows(t, u)
  <2>1. /\ u.state = t.state /\ NoOver(u.inner) /\ (AllPlay(u) <=> AllPlay(t))
    BY <1>3 DEF Follows, Opens, Quiet, AllPlay
  <2>2. ~OneOver(u.inner, 6) /\ Baton(u)
    BY <2>1, OverCmd DEF NoOver, OneOver, Baton
  <2>3. AllPlay(t) /\ t.state = "PLAYING" => Playing(u)
    BY <1>3, FollowsPlaying DEF Orderly
  <2>4. ~(AllPlay(t) /\ t.state = "WAIT_QIANG")  BY <1>3
  <2>. QED  BY <2>1, <2>2, <2>3, <2>4 DEF Orderly
<1>. QED  BY <1>1, <1>2, <1>3 DEF Overs

(* Taking the head of the queue leaves an orderly table in order; an OVER  *)
(* event that is taken is the step of the round that is due.               *)
LEMMA PoppedOrderly ==
    ASSUME Sound(table), OneTurn(table), Orderly(table), table.inner # << >>
    PROVE  /\ Orderly(Popped)
           /\ Head(table.inner).cmd = "OVER" =>
                /\ Head(table.inner).type \in {2, 6}
                /\ NoTurn(Popped) /\ NoOver(Popped.inner) /\ Popped.state # "FINISH"
                /\ AllPlay(Popped) /\ Popped.state = "WAIT_QIANG" =>
                      Head(table.inner).type = 6
                /\ AllPlay(Popped) /\ Popped.state = "PLAYING" =>
                      Head(table.inner).type = 2
<1>1. /\ Sound(Popped) /\ SameGame(table, Popped)
      /\ Popped.inner = Tail(table.inner) /\ Popped.state = table.state
      /\ table.inner \in Seq(InnerMsg)
  BY PoppedSound DEF SameGame, Sound, TableRec
<1>2. CASE Head(table.inner).cmd # "OVER"
  <2>1. Quiet(table.inner, Tail(table.inner))  BY <1>1, <1>2, OverTail
  <2>. QED  BY <1>1, <1>2, <2>1, StillOrderly DEF Still
<1>3. CASE Head(table.inner).cmd = "OVER"
  <2>1. ~NoOver(table.inner)  BY <1>1, <1>3, OverTail
  <2>2. NoTurn(table) /\ table.state # "FINISH"  BY <2>1 DEF Orderly, Baton
  <2>3. PICK type \in {2, 6} : OneOver(table.inner, type)
    BY <2>1 DEF Orderly, Baton
  <2>4. Head(table.inner) = OverMsg(type) /\ NoOver(Popped.inner)
    BY <1>1, <1>3, <2>3, OverTail
  <2>5. Head(table.inner).type = type  BY <2>4, OverCmd
  <2>6. (AllPlay(Popped) <=> AllPlay(table)) /\ NoTurn(Popped)
    BY <1>1, <2>2 DEF SameGame, SameTurn, NoTurn, AllPlay
  <2>7. /\ AllPlay(table) /\ table.state = "WAIT_QIANG" => type = 6
        /\ AllPlay(table) /\ table.state = "PLAYING" => type = 2
    BY <2>3 DEF Orderly
  <2>8. ~OneOver(Popped.inner, 2) /\ ~OneOver(Popped.inner, 6)
    BY <2>4, OverCmd DEF NoOver, OneOver
  <2>9. Bidding(table) => Bidding(Popped)
    BY <1>1, StillBidding DEF Bidding, Sound
  <2>10. Playing(table) => Playing(Popped)  BY <1>1, StillPlaying
  <2>11. Orderly(Popped)
    BY <1>1, <2>2, <2>4, <2>6, <2>8, <2>9, <2>10 DEF Orderly, Baton
  <2>. QED  BY <1>1, <2>2, <2>4, <2>5, <2>6, <2>7, <2>11
<1>. QED  BY <1>2, <1>3

(* A late round takes no event: what is drained is the event it is late    *)
(* for, which finds no play to follow and does nothing.                    *)
LEMMA LateOver ==
    ASSUME Sound(table), OneTurn(table), Late(table),
           Overs(Popped, Head(table.inner).type, table')
    PROVE  table' = Popped /\ Fresh(Popped) /\ Popped.inner = << >>
<1>1. table.inner = <<OverMsg(2)>>  BY DEF Late
<1>2. Head(table.inner) = OverMsg(2) /\ Tail(table.inner) = << >> /\ table.inner # << >>
  BY <1>1
<1>3. Head(table.inner).type = 2  BY <1>2, OverCmd
<1>4. /\ SameGame(table, Popped) /\ Popped.seats = table.seats
      /\ Popped.off_timer = table.off_timer /\ Popped.robot_timer = table.robot_timer
      /\ Popped.inner = << >>
  BY <1>2, PoppedSound
<1>5. Popped.flow = NoFlow
  BY <1>4 DEF SameGame, SameTurn, Late, Fresh
<1>6. table' = Popped
  BY <1>3, <1>5 DEF Overs, NoFlow
<1>7. Prompted(Popped)
  <2>1. Prompted(table)  BY DEF Late, Fresh
  <2>2. \A s \in Seats : ~ValidAuto(table, s, OverMsg(2))
    BY OverCmd DEF ValidAuto
  <2>3. \A i \in DOMAIN table.inner : table.inner[i] = OverMsg(2)  BY <1>1
  <2>4. \A s \in Seats : Backed(table, s) => table.off_timer
    BY <2>2, <2>3 DEF Backed
  <2>. QED
    BY <1>4, <2>1, <2>4 DEF Prompted, RobotsTimed, PlayersBacked, Occupied, Backed
<1>8. Fresh(Popped)
  BY <1>4, <1>7 DEF Late, Fresh, SameGame, SameTurn
<1>. QED  BY <1>4, <1>6, <1>8

(* What the step does to the batch and the queue is consistent.            *)
LEMMA StaysDrained ==
    ASSUME BatchSize <= 2, batch \in 0 .. BatchSize, Drained(table, batch),
           TakesEvent \/ DrainsOne,
           TakesEvent /\ table.inner = << >> /\ table'.state = "WAIT" =>
               NoOver(table'.inner) \/ table'.inner = <<OverMsg(2)>>
    PROVE  Drained(table', batch')
<1>1. BatchSize \in {1, 2}  BY TableAssumption
<1>2. NoOver(<< >>)  BY DEF NoOver
<1>3. CASE TakesEvent
  <2>1. batch > 0 /\ batch' = IF table'.inner = << >> THEN BatchSize ELSE batch - 1
    BY <1>3 DEF TakesEvent
  <2>2. table'.inner = << >> <=> batch' = BatchSize  BY <1>1, <2>1
  <2>3. table'.inner # << >> /\ batch' > 0 => table.inner = << >>
    BY <1>1, <2>1 DEF Drained
  <2>. QED  BY <1>2, <1>3, <2>2, <2>3 DEF Drained
<1>4. CASE DrainsOne
  <2>1. batch' = IF table'.inner = << >> THEN BatchSize ELSE 0
    BY <1>4 DEF DrainsOne
  <2>. QED  BY <1>1, <1>2, <2>1 DEF Drained
<1>. QED  BY <1>3, <1>4

(* Every step but the start of a round keeps an orderly table in order.    *)
LEMMA OrderStays ==
    ASSUME IInv, Running, Running', Orderly(table), TableStep,
           ~(TakesEvent /\ Starts(table, table'))
    PROVE  /\ Orderly(table')
           /\ TakesEvent /\ table.inner = << >> /\ table'.state = "WAIT" =>
                 NoOver(table'.inner) \/ table'.inner = <<OverMsg(2)>>
<1>1. Sound(table) /\ OneTurn(table)
  BY DEF IInv, TypeOK, Good, Sound, Running
<1>2. DrainsOne => table.inner # << >>  BY DEF DrainsOne
<1>3. CASE UNCHANGED vars
  BY <1>3 DEF vars, NoOver
<1>4. CASE Quietly(table, table')
  <2>1. Orderly(table')  BY <1>1, <1>4, StillOrderly DEF Quietly
  <2>2. table.inner = << >> => NoOver(table'.inner)
    BY <1>4 DEF Quietly, Still, Quiet, NoOver
  <2>. QED  BY <2>1, <2>2
<1>5. CASE Disturbed(table, table')
  <2>1. Orderly(table')  BY <1>5, DisturbedOrderly
  <2>2. table.inner = << >> => NoOver(table'.inner)
    BY <1>5 DEF Disturbed, NoOver
  <2>. QED  BY <2>1, <2>2
<1>6. CASE Acts(table, table')
  BY <1>1, <1>6, ActsOrderly
<1>7. CASE DrainsOne /\ Acts(Popped, table')
  <2>1. Sound(Popped) /\ OneTurn(Popped) /\ Orderly(Popped)
    BY <1>1, <1>2, <1>7, PoppedSound, PoppedOrderly
  <2>2. Orderly(table')  BY <1>7, <2>1, ActsOrderly
  <2>. QED  BY <1>2, <1>7, <2>2
<1>8. CASE DrainsOne /\ Head(table.inner).cmd = "OVER"
             /\ Overs(Popped, Head(table.inner).type, table')
  <2>1. Sound(Popped) /\ Popped.state = table.state
    BY <1>1, <1>2, <1>8, PoppedSound DEF SameGame
  <2>2. Orderly(table')
    BY <1>1, <1>2, <1>8, <2>1, PoppedOrderly, OversOrderly DEF Running
  <2>. QED  BY <1>2, <1>8, <2>2
<1>. QED  BY <1>3, <1>4, <1>5, <1>6, <1>7, <1>8 DEF TableStep, Calm

(* A round starts in order, or late in a batch that is then full.          *)
LEMMA StartOrder ==
    ASSUME BatchSize <= 2, batch \in 0 .. BatchSize, Drained(table, batch),
           TakesEvent, Starts(table, table'), Running'
    PROVE  /\ NoOver(table.inner) => Orderly(table')
           /\ ~NoOver(table.inner) => BatchSize # 1 /\ batch' = 0 /\ Late(table')
           /\ table'.state # "WAIT"
<1>1. /\ Fresh(table') /\ table'.inner = table.inner /\ table.state = "WAIT"
      /\ batch > 0
  BY DEF Starts, Running, TakesEvent
<1>2. table'.state # "WAIT"  BY <1>1 DEF Fresh
<1>3. NoOver(table.inner) => Orderly(table')  BY <1>1, FreshOrderly
<1>4. ASSUME ~NoOver(table.inner)
      PROVE  BatchSize # 1 /\ batch' = 0 /\ Late(table')
  <2>1. table.inner = <<OverMsg(2)>>  BY <1>1, <1>4 DEF Drained
  <2>2. table.inner # << >>  BY <2>1
  <2>3. batch' = batch - 1  BY <1>1, <2>2 DEF TakesEvent
  <2>4. batch # BatchSize  BY <2>2 DEF Drained
  <2>5. batch' = 0 /\ BatchSize # 1
    <3>1. BatchSize \in {1, 2}  BY TableAssumption
    <3>. QED  BY <1>1, <2>3, <2>4, <3>1
  <2>. QED  BY <1>1, <2>1, <2>5 DEF Late
<1>. QED  BY <1>2, <1>3, <1>4

(* So a round is always in order, or late with nothing but its drain ahead.*)
LEMMA RoundStays ==
    ASSUME BatchSize <= 2
    PROVE  IInv /\ RoundInv /\ TableStep => RoundInv'
<1> SUFFICES ASSUME IInv, RoundInv, TableStep, Running'
             PROVE  /\ Orderly(table') \/ (batch' = 0 /\ Late(table'))
                    /\ Drained(table', batch')
  BY DEF RoundInv, Running, Orderly, Late, Drained, Baton, Bidding, Playing
<1>1. CASE UNCHANGED vars
  <2>1. table' = table /\ batch' = batch  BY <1>1 DEF vars
  <2>. QED  BY <2>1 DEF RoundInv, Running
<1>2. CASE TakesEvent \/ DrainsOne
  <2>1. /\ Running /\ Drained(table, batch) /\ batch \in 0 .. BatchSize
        /\ Orderly(table) \/ (batch = 0 /\ Late(table))
    BY <1>2 DEF TakesEvent, DrainsOne, RoundInv, IInv, TypeOK
  <2>2. CASE TakesEvent /\ Starts(table, table')
    BY <2>1, <2>2, StartOrder, StaysDrained
  <2>3. CASE Orderly(table) /\ ~(TakesEvent /\ Starts(table, table'))
    BY <1>2, <2>1, <2>3, OrderStays, StaysDrained
  <2>4. CASE batch = 0 /\ Late(table)
    <3>1. Sound(table) /\ OneTurn(table)
      BY <2>1 DEF IInv, TypeOK, Good, Sound, Running
    <3>2. Head(table.inner) = OverMsg(2)  BY <2>4 DEF Late
    <3>3. DrainsOne /\ ~TakesEvent  BY <1>2, <2>4 DEF TakesEvent
    <3>4. Overs(Popped, Head(table.inner).type, table') \/ UNCHANGED vars
      BY <3>2, <3>3, OverCmd DEF TableStep
    <3>5. CASE Overs(Popped, Head(table.inner).type, table')
      <4>1. table' = Popped /\ Fresh(Popped) /\ Popped.inner = << >>
        BY <2>4, <3>1, <3>5, LateOver
      <4>2. Orderly(table')  BY <4>1, FreshOrderly DEF NoOver
      <4>. QED  BY <2>1, <3>3, <4>2, StaysDrained
    <3>. QED  BY <1>1, <3>4, <3>5
  <2>. QED  BY <2>1, <2>2, <2>3, <2>4
<1>. QED  BY <1>1, <1>2 DEF TableStep

(* It holds of a new table, ...                                            *)
LEMMA RoundInit == Init => RoundInv
<1> SUFFICES ASSUME Init PROVE Orderly(table) /\ Drained(table, batch)
  BY DEF RoundInv
<1>1. /\ table.state = "WAIT" /\ table.inner = << >> /\ batch = BatchSize
      /\ \A s \in Seats : table.seats[s] = EmptySeat
  BY DEF Init
<1>2. ~AllPlay(table)
  <2>1. 0 \in Seats  BY DEF Seats, SeatNum
  <2>. QED  BY <1>1, <2>1 DEF AllPlay, EmptySeat
<1>3. NoOver(table.inner)  BY <1>1 DEF NoOver
<1>. QED  BY <1>1, <1>2, <1>3 DEF Orderly, Baton, Drained

(* ... and ever after, when the queue is drained after at most two events. *)
THEOREM RoundInvariance ==
    ASSUME BatchSize <= 2
    PROVE  Spec => []RoundInv
<1>1. IInv /\ RoundInv /\ [Next]_vars => RoundInv'
  BY TableSteps, RoundStays
<1>. QED  BY <1>1, RoundInit, Invariance, PTL DEF Spec

(***************************************************************************)
(* Where no round is late: the first round of a table, and all its rounds  *)
(* if the queue is drained after every event.                              *)
(***************************************************************************)

(* Before the first round nobody is asked, and no OVER event is on its way.*)
Idle == table.round = 0 => NoTurn(table) /\ NoOver(table.inner)

InOrder ==
    Running => /\ Orderly(table) /\ Idle
               /\ table.inner = << >> <=> batch = BatchSize

(* A round that is not the first was not started from an idle table.       *)
LEMMA IdleStays ==
    ASSUME IInv, Running, Running', Orderly(table), Idle, TableStep
    PROVE  Idle'
<1> SUFFICES ASSUME table'.round = 0 PROVE NoTurn(table') /\ NoOver(table'.inner)
  BY DEF Idle
<1>1. Sound(table) /\ OneTurn(table) /\ table.round \in Nat
  BY DEF IInv, TypeOK, Good, Sound, Running, TableRec
<1>2. CASE UNCHANGED vars
  BY <1>2 DEF vars, Idle
<1>3. CASE Quietly(table, table')
  BY <1>3 DEF Quietly, Still, SameGame, SameTurn, Quiet, Idle, NoTurn
<1>4. CASE Disturbed(table, table')
  BY <1>4 DEF Disturbed, Idle, NoTurn
<1>5. ASSUME NEW t, Sound(t), Orderly(t), Acts(t, table') PROVE ~NoTurn(t) /\ table'.round = t.round
  <2>1. PICK s \in Seats, act \in ActTypes, cards \in Nat, token \in Nat :
           /\ IsPlayerAbleDoAction(t, s, act, cards, token)
           /\ t.state # "FINISH" => Acted(t, table', s, act, cards)
    BY <1>5 DEF Acts
  <2>2. ~NoTurn(t)  BY <2>1 DEF IsPlayerAbleDoAction, NoTurn
  <2>3. t.state # "FINISH"  BY <1>5, <2>2 DEF Orderly
  <2>. QED  BY <2>1, <2>2, <2>3, ActedEnds DEF TurnTaken
<1>6. CASE Acts(table, table')
  BY <1>1, <1>5, <1>6 DEF Idle
<1>7. CASE DrainsOne /\ Acts(Popped, table')
  <2>1. /\ Sound(Popped) /\ Orderly(Popped) /\ SameGame(table, Popped)
    BY <1>1, <1>7, PoppedSound, PoppedOrderly DEF DrainsOne
  <2>2. ~NoTurn(Popped) /\ table'.round = Popped.round  BY <1>5, <1>7, <2>1
  <2>. QED  BY <2>1, <2>2 DEF SameGame, SameTurn, NoTurn, Idle
<1>8. CASE Starts(table, table')
  BY <1>1, <1>8 DEF Starts, Running
<1>9. CASE DrainsOne /\ Head(table.inner).cmd = "OVER"
             /\ Overs(Popped, Head(table.inner).type, table')
  <2>1. table.inner # << >> /\ Sound(Popped) /\ Popped.round = table.round
    BY <1>1, <1>9, PoppedSound DEF DrainsOne, SameGame
  <2>2. ~NoOver(table.inner)
    <3>1. table.inner \in Seq(InnerMsg)  BY <1>1 DEF Sound, TableRec
    <3>. QED  BY <1>9, <2>1, <3>1, OverTail
  <2>3. table'.round = table.round
    <3>1. CASE \E w : /\ w = [ResetPlayerChoice(Popped) EXCEPT !.state = "WAIT_QIANG"]
                      /\ BidsMove(w, table')
      <4>1. PICK w : /\ w = [ResetPlayerChoice(Popped) EXCEPT !.state = "WAIT_QIANG"]
                     /\ BidsMove(w, table')
        BY <3>1
      <4>2. Rebids(Popped, w)  BY <2>1, <4>1, ResetRebids
      <4>3. Sound(w) /\ w.round = table.round  BY <2>1, <4>2 DEF Rebids
      <4>4. CASE NextBid(w, table')
        BY <4>3, <4>4, NextBidOffers DEF Offered
      <4>5. CASE LastBid(w, table')
        BY <4>3, <4>5, LastBidOffers DEF Offered
      <4>6. CASE BidsEnd(w, table')
        BY <4>3, <4>6 DEF BidsEnd, Led, Opens, Running
      <4>. QED  BY <4>1, <4>4, <4>5, <4>6 DEF BidsMove
    <3>. QED  BY <1>9, <2>1, <3>1 DEF Overs, Follows, Opens
  <2>. QED  BY <2>2, <2>3 DEF Idle
<1>. QED  BY <1>2, <1>3, <1>4, <1>6, <1>7, <1>8, <1>9 DEF TableStep, Calm

(* A new table is idle and in order, ...                                   *)
LEMMA InOrderInit == Init => InOrder
<1> SUFFICES ASSUME Init, Running
             PROVE  Orderly(table) /\ Idle /\ table.inner = << >> /\ batch = BatchSize
  BY DEF InOrder
<1>1. /\ table.state = "WAIT" /\ table.inner = << >> /\ batch = BatchSize
      /\ \A s \in Seats : table.seats[s] = EmptySeat
  BY DEF Init
<1>2. NoTurn(table) /\ NoOver(table.inner)  BY <1>1 DEF NoTurn, NoOver, EmptySeat
<1>3. Orderly(table) \/ Late(table)
  BY RoundInit DEF RoundInv
<1>. QED  BY <1>1, <1>2, <1>3 DEF Late, Idle

(* ... and stays so: the round that starts finds no OVER event on its way. *)
LEMMA InOrderStays ==
    ASSUME MaxRound <= 1 \/ BatchSize = 1
    PROVE  IInv /\ InOrder /\ TableStep => InOrder'
<1> SUFFICES ASSUME IInv, InOrder, TableStep, Running'
             PROVE  /\ Orderly(table') /\ Idle'
                    /\ table'.inner = << >> <=> batch' = BatchSize
  BY DEF InOrder, Running, Orderly, Baton, Bidding, Playing, Idle
<1>1. CASE UNCHANGED vars
  BY <1>1 DEF vars, InOrder, Running, Idle
<1>2. CASE TakesEvent \/ DrainsOne
  <2>1. /\ Running /\ Orderly(table) /\ Idle
        /\ table.inner = << >> <=> batch = BatchSize
    BY <1>2 DEF TakesEvent, DrainsOne, InOrder
  <2>2. Idle'  BY <2>1, IdleStays
  <2>3. /\ batch \in 0 .. BatchSize /\ BatchSize \in Nat \ {0}
        /\ table.round \in Nat /\ MaxRound \in Nat
    BY TableAssumption DEF IInv, TypeOK, TableRec
  <2>4. table'.inner = << >> <=> batch' = BatchSize
    BY <1>2, <2>3 DEF TakesEvent, DrainsOne
  <2>5. CASE TakesEvent /\ Starts(table, table')
    <3>1. NoOver(table.inner)
      <4>1. CASE MaxRound <= 1
        <5>1. table.round = 0  BY <2>3, <2>5, <4>1 DEF Starts
        <5>. QED  BY <2>1, <5>1 DEF Idle
      <4>2. CASE BatchSize = 1
        <5>1. batch = BatchSize  BY <2>3, <2>5, <4>2 DEF TakesEvent
        <5>. QED  BY <2>1, <5>1 DEF NoOver
      <4>. QED  BY <4>1, <4>2
    <3>2. Fresh(table') /\ table'.inner = table.inner
      BY <2>5 DEF Starts, Running
    <3>3. Orderly(table')  BY <3>1, <3>2, FreshOrderly
    <3>. QED  BY <2>2, <2>4, <3>3
  <2>6. CASE ~(TakesEvent /\ Starts(table, table'))
    BY <2>1, <2>2, <2>4, <2>6, OrderStays
  <2>. QED  BY <2>5, <2>6
<1>. QED  BY <1>1, <1>2 DEF TableStep

(* So the round is always in order.                                        *)
THEOREM OrderInvariance ==
    ASSUME MaxRound <= 1 \/ BatchSize = 1
    PROVE  Spec => []InOrder
<1>1. IInv /\ InOrder /\ [Next]_vars => InOrder'
  BY TableSteps, InOrderStays
<1>. QED  BY <1>1, InOrderInit, Invariance, PTL DEF Spec

(***************************************************************************)
(* Any number of rounds and any number of events between two drains: there *)
(* a round may begin while the OVER event of the one before, of a seat     *)
(* that acted just before somebody left, is still in the queue (OldEvent). *)
(* That is the only way out of order: where it does not happen every round *)
(* is in order.                                                            *)
(***************************************************************************)
OldEvent ==
    /\ Running /\ AllPlay(table) /\ table.state = "WAIT_QIANG"
    /\ \A s \in Seats : table.seats[s].times = 0
    /\ ~NoOver(table.inner)

Ordered == Running => Orderly(table)

(* A round that begins without an old event begins in order.               *)
LEMMA OrderedStays == IInv /\ Ordered /\ TableStep /\ ~OldEvent' => Ordered'
<1> SUFFICES ASSUME IInv, Ordered, TableStep, ~OldEvent', Running'
             PROVE  Orderly(table')
  BY DEF Ordered, Running, Orderly, Baton, Bidding, Playing
<1>1. CASE UNCHANGED vars
  <2>1. table' = table  BY <1>1 DEF vars
  <2>. QED  BY <2>1 DEF Ordered, Running
<1>2. CASE TakesEvent /\ Starts(table, table')
  <2>1. Fresh(table')  BY <1>2 DEF Starts, Running
  <2>2. AllPlay(table') /\ table'.state = "WAIT_QIANG"
        /\ \A s \in Seats : table'.seats[s].times = 0
    BY <2>1 DEF Fresh, AllPlay
  <2>3. NoOver(table'.inner)
    BY <2>2 DEF OldEvent, AllPlay, NoOver, Running
  <2>. QED  BY <2>1, <2>3, FreshOrderly
<1>3. CASE (TakesEvent \/ DrainsOne) /\ ~(TakesEvent /\ Starts(table, table'))
  <2>1. Running /\ Orderly(table)  BY <1>3 DEF TakesEvent, DrainsOne, Ordered
  <2>. QED  BY <1>3, <2>1, OrderStays
<1>. QED  BY <1>1, <1>2, <1>3 DEF TableStep

(* So they all do.                                                         *)
THEOREM OrderedRounds == Spec /\ []~OldEvent => []Ordered
<1>1. Init => Ordered  BY InOrderInit DEF InOrder, Ordered
<1>2. IInv /\ Ordered /\ [Next]_vars /\ ~OldEvent' => Ordered'
  BY TableSteps, OrderedStays
<1>. QED  BY <1>1, <1>2, Invariance, PTL DEF Spec

(* What the properties of a round need of any of the invariants.           *)
RoundOrder == Running => Orderly(table) \/ (batch = 0 /\ Late(table))

(* Where an old event does no harm: the first round has none before it,    *)
(* and a batch of two leaves no room for an event between the round that   *)
(* begins late and the drain.                                              *)
Paced == BatchSize <= 2 \/ MaxRound <= 1

(* A table is in order as long as no round begins over an old event,       *)
(* however many events the reactor takes between two drains; and it is in  *)
(* its first round, or with at most two events, whatever happens.          *)
THEOREM RoundOrdered == Spec /\ (Paced \/ []~OldEvent) => []RoundOrder
<1>1. CASE BatchSize <= 2
  <2>1. RoundInv => RoundOrder  BY DEF RoundInv, RoundOrder
  <2>2. Spec => []RoundInv  BY <1>1, RoundInvariance
  <2>. QED  BY <2>1, <2>2, PTL
<1>2. CASE MaxRound <= 1
  <2>1. InOrder => RoundOrder  BY DEF InOrder, RoundOrder
  <2>2. Spec => []InOrder  BY <1>2, OrderInvariance
  <2>. QED  BY <2>1, <2>2, PTL
<1>3. CASE ~Paced
  <2>1. Ordered => RoundOrder  BY DEF Ordered, RoundOrder
  <2>. QED  BY <1>3, <2>1, OrderedRounds, PTL
<1>. QED  BY <1>1, <1>2, <1>3 DEF Paced

(* TrickEndsAfterTwoPasses: the pass that is marked single-over is the     *)
(* second, and a seat may pass exactly when it does not lead.              *)
THEOREM TricksEnd ==
    Spec /\ (Paced \/ []~OldEvent) => []TrickEndsAfterTwoPasses
<1>1. IInv /\ RoundOrder => TrickEndsAfterTwoPasses
  <2> SUFFICES ASSUME IInv, RoundOrder, InRound, table.state = "PLAYING"
               PROVE  /\ table.flow.passes <= 2
                      /\ table.flow.act = "PASS" =>
                            (table.flow.over <=> table.flow.passes = 2)
                      /\ \A s \in Seats : Open(table, s) =>
                            ("PASS" \notin table.seats[s].choices
                               <=> table.flow.lead = NoSeat \/ table.flow.passes = 2)
    BY DEF TrickEndsAfterTwoPasses
  <2>1. AllPlay(table) /\ Running  BY DEF InRound, Intact, AllPlay
  <2>2. Playing(table)
    BY <2>1 DEF RoundOrder, Orderly, Late, Fresh
  <2>. QED  BY <2>2 DEF Playing, Open, Leads
<1>. QED  BY <1>1, Invariance, RoundOrdered, PTL

(* Where there is no old event at all: in the first round, and when the    *)
(* queue is drained after each event.                                      *)
Single == MaxRound <= 1 \/ BatchSize = 1

(* OneBaton: there is an open turn or one OVER event, never both and never *)
(* two, as long as no round begins over an old event.                      *)
THEOREM BatonIsOne == Spec /\ (Single \/ []~OldEvent) => []OneBaton
<1>1. IInv /\ Ordered => OneBaton
  <2> SUFFICES ASSUME IInv, Ordered, Running PROVE Batons <= 1
    BY DEF OneBaton
  <2> DEFINE open == {s \in Seats : Open(table, s)}
             overs == {i \in DOMAIN table.inner : table.inner[i].cmd = "OVER"}
  <2>1. Batons = Cardinality(open) + Cardinality(overs)  BY DEF Batons
  <2>2. Orderly(table) /\ OneTurn(table)
    BY DEF Ordered, IInv, Good
  <2>3. Cardinality({}) = 0 /\ \A x : Cardinality({x}) = 1
    BY FS_EmptySet, FS_Singleton
  <2>4. CASE NoOver(table.inner)
    <3>1. overs = {}  BY <2>4 DEF NoOver
    <3>2. open = {} \/ open = {table.op}  BY <2>2 DEF OneTurn, Open
    <3>3. Cardinality(overs) = 0 /\ Cardinality(open) \in {0, 1}
      BY <2>3, <3>1, <3>2
    <3>. HIDE DEF open, overs
    <3>. QED  BY <2>1, <3>3
  <2>5. CASE NoTurn(table) /\ \E type \in {2, 6} : OneOver(table.inner, type)
    <3>1. open = {}  BY <2>5 DEF NoTurn, Open
    <3>2. PICK i \in DOMAIN table.inner :
             /\ table.inner[i].cmd = "OVER"
             /\ \A j \in DOMAIN table.inner : table.inner[j].cmd = "OVER" => j = i
      BY <2>5, OverCmd DEF OneOver
    <3>3. overs = {i}  BY <3>2
    <3>4. Cardinality(overs) = 1 /\ Cardinality(open) = 0
      BY <2>3, <3>1, <3>3
    <3>. HIDE DEF open, overs
    <3>. QED  BY <2>1, <3>4
  <2>. QED  BY <2>2, <2>4, <2>5 DEF Orderly, Baton
<1>2. CASE Single
  <2>1. Spec => []InOrder  BY <1>2, OrderInvariance DEF Single
  <2>2. InOrder => Ordered  BY DEF InOrder, Ordered
  <2>. QED  BY <1>1, <2>1, <2>2, Invariance, PTL
<1>3. CASE ~Single
  BY <1>1, <1>3, Invariance, OrderedRounds, PTL
<1>. QED  BY <1>2, <1>3

(***************************************************************************)
(* The refinement: the table plays the game of DdzRules.                   *)
(***************************************************************************)

(* The bids made, counted as GameBid counts them.                          *)
CountOf(t) ==
    Cardinality({s \in Seats : t.seats[s].times > 0})
  + Cardinality({s \in Seats : t.seats[s].times \in {2, 11}})

(* After n bids the count is n.                                            *)
LEMMA BidsCount ==
    ASSUME NEW t, NEW n \in 0 .. 4, Sound(t), BidsAre(t, n)
    PROVE  CountOf(t) = n
<1> DEFINE made == {s \in Seats : t.seats[s].times > 0}
           twice == {s \in Seats : t.seats[s].times \in {2, 11}}
           at(i) == At(t, i)
<1>1. /\ t.dealer \in Seats /\ t.jiao \in Seats
      /\ \A r \in Seats : t.seats[r].times \in Nat
  BY DEF Sound, TableRec, SeatRec
<1>2. /\ \A i \in Seats : At(t, i) \in Seats
      /\ \A i, j \in Seats : At(t, i) = At(t, j) => i = j
      /\ \A s \in Seats : \E i \in Seats : s = At(t, i)
  BY <1>1, AtType
<1>3. Seats = {0, 1, 2}  BY DEF Seats, SeatNum
<1>4. /\ Cardinality({}) = 0
      /\ \A x : Cardinality({x}) = 1
      /\ \A x, y : x # y => Cardinality({x, y}) = 2
      /\ Cardinality(Seats) = 3
  <2>1. Cardinality({}) = 0 /\ \A x : IsFiniteSet({x}) /\ Cardinality({x}) = 1
    BY FS_EmptySet, FS_Singleton
  <2>2. ASSUME NEW x, NEW y, x # y PROVE Cardinality({x, y}) = 2
    <3>1. {x, y} = {x} \cup {y} /\ y \notin {x}  BY <2>2
    <3>2. IsFiniteSet({x}) /\ Cardinality({x}) = 1  BY <2>1
    <3>3. Cardinality({x} \cup {y}) = Cardinality({x}) + 1
      BY <3>1, <3>2, FS_AddElement
    <3>4. Cardinality({x} \cup {y}) = 2  BY <3>2, <3>3
    <3>. QED  BY <3>1, <3>4
  <2>3. Cardinality(Seats) = 3
    <3>1. Seats = 0 .. 2  BY DEF Seats, SeatNum
    <3>2. 0 \in Int /\ 2 \in Int /\ ~(0 > 2) /\ 2 - 0 + 1 = 3  OBVIOUS
    <3>3. Cardinality(0 .. 2) = 2 - 0 + 1  BY <3>2, FS_Interval
    <3>. QED  BY <3>1, <3>2, <3>3
  <2>. QED  BY <2>1, <2>2, <2>3
<1>5. \A i \in Seats :
         /\ n <= i => t.seats[at(i)].times = 0
         /\ i < n => t.seats[at(i)].times \in {1, 2, 10, 11}
         /\ t.seats[at(i)].times \in {2, 11} <=> n = 4 /\ at(i) = t.jiao
  <2>1. \A i \in Seats : i \in Int /\ i < 4  BY <1>3
  <2>. QED  BY <2>1 DEF BidsAre
<1>. HIDE DEF at
<1>6. \A i \in Seats : at(i) \in made <=> i < n
  BY <1>1, <1>2, <1>3, <1>5 DEF at
<1>7. \A i \in Seats : at(i) \in twice <=> n = 4 /\ at(i) = t.jiao
  BY <1>1, <1>2, <1>3, <1>5 DEF at
<1>8. Cardinality(twice) = IF n = 4 THEN 1 ELSE 0
  <2>1. n = 4 => twice = {t.jiao}  BY <1>1, <1>2, <1>7 DEF at
  <2>2. n # 4 => twice = {}  BY <1>2, <1>7 DEF at
  <2>. HIDE DEF twice
  <2>. QED  BY <1>4, <2>1, <2>2
<1>9. Cardinality(made) = IF n >= 3 THEN 3 ELSE n
  <2>1. CASE n >= 3
    <3>1. made = Seats  BY <1>2, <1>3, <1>6, <2>1 DEF at
    <3>. HIDE DEF made
    <3>. QED  BY <1>4, <2>1, <3>1
  <2>2. CASE n = 0
    <3>1. made = {}  BY <1>2, <1>3, <1>6, <2>2 DEF at
    <3>. HIDE DEF made
    <3>. QED  BY <1>4, <2>2, <3>1
  <2>3. CASE n = 1
    <3>1. made = {at(0)}  BY <1>2, <1>3, <1>6, <2>3 DEF at
    <3>2. Cardinality({at(0)}) = 1  BY <1>4
    <3>3. Cardinality(made) = 1  BY <3>1, <3>2
    <3>. HIDE DEF made
    <3>. QED  BY <2>3, <3>3
  <2>4. CASE n = 2
    <3>1. made = {at(0), at(1)}  BY <1>2, <1>3, <1>6, <2>4 DEF at
    <3>2. at(0) # at(1)  BY <1>2, <1>3 DEF at
    <3>3. Cardinality({at(0), at(1)}) = 2  BY <1>4, <3>2
    <3>4. Cardinality(made) = 2  BY <3>1, <3>3
    <3>. HIDE DEF made
    <3>. QED  BY <2>4, <3>4
  <2>. QED  BY <2>1, <2>2, <2>3, <2>4
<1>10. CountOf(t) = Cardinality(made) + Cardinality(twice)  BY DEF CountOf
<1>. HIDE DEF made, twice
<1>. QED  BY <1>8, <1>9, <1>10

(* What DdzRules calls the bidding and the hands.                          *)
NoBids == [first |-> NoSeat, count |-> 0, caller |-> NoSeat, raised |-> FALSE,
           last |-> NoSeat]

BidsOf(t) ==
    [first |-> t.dealer, count |-> CountOf(t),
     caller |-> IF t.dealer2 = NoSeat THEN NoSeat ELSE t.jiao,
     raised |-> t.flow.qiang, last |-> t.dealer2]

HandsOf(t) == [s \in Seats |-> t.seats[s].hand]

(* The game read off a table ...                                           *)
LEMMA GameRead ==
    /\ ~AllPlay(table) \/ table.state \in {"WAIT", "UB"} =>
         /\ GameStage = "none" /\ GameBid = NoBids /\ GameLord = NoSeat
         /\ GameHands = [s \in Seats |-> 0] /\ GameLeader = NoSeat
         /\ GamePasses = 0 /\ GameWinner = NoSeat
    /\ AllPlay(table) /\ table.state = "WAIT_QIANG" =>
         /\ GameStage = "bidding" /\ GameBid = BidsOf(table) /\ GameLord = NoSeat
         /\ GameHands = HandsOf(table) /\ GameLeader = NoSeat
         /\ GamePasses = 0 /\ GameWinner = NoSeat
    /\ AllPlay(table) /\ table.state = "PLAYING" =>
         /\ GameStage = "play" /\ GameBid = NoBids /\ GameLord = table.dealer
         /\ GameHands = HandsOf(table) /\ GameLeader = table.flow.lead
         /\ GamePasses = table.flow.passes /\ GameWinner = NoSeat
    /\ AllPlay(table) /\ table.state = "FINISH" =>
         /\ GameStage = "over" /\ GameBid = NoBids /\ GameLord = NoSeat
         /\ GameHands = HandsOf(table) /\ GameLeader = table.flow.lead
         /\ GamePasses = table.flow.passes /\ GameWinner = table.last_winner
<1>1. /\ ~AllPlay(table) \/ table.state \in {"WAIT", "UB"} => GameStage = "none"
      /\ AllPlay(table) /\ table.state = "WAIT_QIANG" => GameStage = "bidding"
      /\ AllPlay(table) /\ table.state = "PLAYING" => GameStage = "play"
      /\ AllPlay(table) /\ table.state = "FINISH" => GameStage = "over"
  BY DEF GameStage, Intact, AllPlay
<1>2. /\ GameStage = "bidding" => GameBid = BidsOf(table)
      /\ GameStage # "bidding" => GameBid = NoBids
  BY DEF GameBid, BidsOf, NoBids, CountOf, BidsMade
<1>3. /\ GameStage = "none" => GameHands = [s \in Seats |-> 0]
      /\ GameStage # "none" => GameHands = HandsOf(table)
  BY DEF GameHands, HandsOf
<1>. QED  BY <1>1, <1>2, <1>3 DEF GameLord, GameLeader, GamePasses, GameWinner

(* ... and off the next one.                                               *)
LEMMA GameReadNext ==
    /\ ~AllPlay(table') \/ table'.state \in {"WAIT", "UB"} =>
         /\ GameStage' = "none" /\ GameBid' = NoBids /\ GameLord' = NoSeat
         /\ GameHands' = [s \in Seats |-> 0] /\ GameLeader' = NoSeat
         /\ GamePasses' = 0 /\ GameWinner' = NoSeat
    /\ AllPlay(table') /\ table'.state = "WAIT_QIANG" =>
         /\ GameStage' = "bidding" /\ GameBid' = BidsOf(table') /\ GameLord' = NoSeat
         /\ GameHands' = HandsOf(table') /\ GameLeader' = NoSeat
         /\ GamePasses' = 0 /\ GameWinner' = NoSeat
    /\ AllPlay(table') /\ table'.state = "PLAYING" =>
         /\ GameStage' = "play" /\ GameBid' = NoBids /\ GameLord' = table'.dealer
         /\ GameHands' = HandsOf(table') /\ GameLeader' = table'.flow.lead
         /\ GamePasses' = table'.flow.passes /\ GameWinner' = NoSeat
    /\ AllPlay(table') /\ table'.state = "FINISH" =>
         /\ GameStage' = "over" /\ GameBid' = NoBids /\ GameLord' = NoSeat
         /\ GameHands' = HandsOf(table') /\ GameLeader' = table'.flow.lead
         /\ GamePasses' = table'.flow.passes /\ GameWinner' = table'.last_winner
<1>1. /\ ~AllPlay(table') \/ table'.state \in {"WAIT", "UB"} => GameStage' = "none"
      /\ AllPlay(table') /\ table'.state = "WAIT_QIANG" => GameStage' = "bidding"
      /\ AllPlay(table') /\ table'.state = "PLAYING" => GameStage' = "play"
      /\ AllPlay(table') /\ table'.state = "FINISH" => GameStage' = "over"
  BY DEF GameStage, Intact, AllPlay
<1>2. /\ GameStage' = "bidding" => GameBid' = BidsOf(table')
      /\ GameStage' # "bidding" => GameBid' = NoBids
  BY DEF GameBid, BidsOf, NoBids, CountOf, BidsMade
<1>3. /\ GameStage' = "none" => GameHands' = [s \in Seats |-> 0]
      /\ GameStage' # "none" => GameHands' = HandsOf(table')
  BY DEF GameHands, HandsOf
<1>. QED  BY <1>1, <1>2, <1>3 DEF GameLord, GameLeader, GamePasses, GameWinner

(* A table that is no longer intact, or waits, has left the game.          *)
LEMMA GameLeaves ==
    ~AllPlay(table') \/ table'.state \in {"WAIT", "UB"} => Game!Leave
BY GameReadNext DEF Game!Leave, Game!NoGame, Game!NoBid, Game!Opened, Game!Seats, NoBids, Seats, SeatNum

(* A round that is dealt is a deal, ...                                    *)
LEMMA GameDeals ==
    ASSUME Sound(table'), Fresh(table'),
           \/ ~AllPlay(table) \/ table.state = "WAIT"
           \/ /\ AllPlay(table) /\ table.state = "WAIT_QIANG"
              /\ CountOf(table) = 3 /\ table.dealer2 = NoSeat
    PROVE  \E s \in 0 .. 2 : Game!Deal(s)
<1>1. AllPlay(table') /\ table'.state = "WAIT_QIANG" /\ table'.flow = NoFlow
      /\ table'.dealer \in Seats /\ table'.dealer2 = NoSeat
  BY DEF Fresh, AllPlay
<1>2. CountOf(table') = 0
  <2>1. At(table', 0) = table'.dealer /\ \A i \in Seats : At(table', i) \in Seats
    BY <1>1, AtType
  <2>2. BidsAre(table', 0)
    BY <1>1, <2>1 DEF BidsAre, Fresh, Seats, SeatNum, NoFlow
  <2>3. 0 \in 0 .. 4  OBVIOUS
  <2>. QED  BY <2>2, <2>3, BidsCount
<1>3. GameBid' = [first |-> table'.dealer, count |-> 0, caller |-> NoSeat,
                  raised |-> FALSE, last |-> NoSeat]
  <2>1. table'.flow.qiang = FALSE  BY <1>1 DEF NoFlow
  <2>2. GameBid' = BidsOf(table')  BY <1>1, GameReadNext
  <2>. QED  BY <1>1, <1>2, <2>1, <2>2 DEF BidsOf
<1>4. GameHands' = [s \in 0 .. 2 |-> HandSize]
  BY <1>1, GameReadNext DEF HandsOf, Fresh, Seats, SeatNum
<1>5. /\ GameStage' = "bidding" /\ GameLord' = NoSeat /\ GameLeader' = NoSeat
      /\ GamePasses' = 0 /\ GameWinner' = NoSeat
  BY <1>1, GameReadNext
<1>6. \/ GameStage = "none"
      \/ GameStage = "bidding" /\ GameBid.count = 3 /\ GameBid.caller = NoSeat
  BY GameRead DEF BidsOf
<1>7. Game!Deal(table'.dealer)
  BY <1>3, <1>4, <1>5, <1>6 DEF Game!Deal, Game!Opened, Game!Seats
<1>. QED  BY <1>1, <1>7 DEF Seats, SeatNum

(* ... the last bid is followed by the landlord's lead, ...                *)
LEMMA GameLeads ==
    ASSUME Sound(table), AllPlay(table), table.state = "WAIT_QIANG",
           NEW n \in 3 .. 4, CountOf(table) = n, n = 3 => ~table.flow.qiang,
           table.dealer2 # NoSeat, table.flow.lead = NoSeat, table.flow.passes = 0,
           AllPlay(table'), table'.state = "PLAYING",
           table'.flow.lead = NoSeat, table'.flow.passes = 0,
           table'.dealer = table.dealer2,
           \A s \in Seats : table'.seats[s].hand =
              IF s = table.dealer2 THEN table.seats[s].hand + BottomSize
              ELSE table.seats[s].hand
    PROVE  Game!Lead
<1>1. table.dealer2 \in Seats /\ \A s \in Seats : table.seats[s].hand \in Nat
  BY DEF Sound, TableRec, SeatRec
<1>2. GameHands' = [GameHands EXCEPT ![table.dealer2] = @ + BottomSize]
  <2>1. GameHands' = HandsOf(table') /\ GameHands = HandsOf(table)
    BY GameRead, GameReadNext
  <2>2. HandsOf(table') = [HandsOf(table) EXCEPT ![table.dealer2] = @ + BottomSize]
    BY <1>1 DEF HandsOf
  <2>. QED  BY <2>1, <2>2
<1>3. /\ GameStage = "bidding" /\ GameBid.last = table.dealer2
      /\ GameBid.count = n /\ GameBid.raised = table.flow.qiang
  BY GameRead DEF BidsOf
<1>4. /\ GameStage' = "play" /\ GameBid' = NoBids /\ GameLord' = table.dealer2
      /\ GameLeader' = GameLeader /\ GamePasses' = GamePasses /\ GameWinner' = GameWinner
  BY GameRead, GameReadNext
<1>. QED
  BY <1>2, <1>3, <1>4 DEF Game!Lead, Game!BidsDone, Game!NoBid, Game!Opened, NoBids

(* t and u are the same to those who play.                                 *)
SameView(t, u) ==
    /\ u.state = t.state /\ u.dealer = t.dealer
    /\ u.flow.lead = t.flow.lead /\ u.flow.passes = t.flow.passes
    /\ t.state = "FINISH" => u.last_winner = t.last_winner
    /\ \A s \in Seats : /\ u.seats[s].state = t.seats[s].state
                        /\ u.seats[s].hand = t.seats[s].hand
    /\ t.state = "WAIT_QIANG" =>
         /\ u.dealer2 = t.dealer2 /\ u.flow.qiang = t.flow.qiang
         /\ t.dealer2 # NoSeat => u.jiao = t.jiao
         /\ \A s \in Seats : u.seats[s].times = t.seats[s].times

(* ... and a step that keeps that view is no move of the game.             *)
LEMMA GameStutters ==
    ASSUME SameView(table, table'), table.state \in TableStates
    PROVE  UNCHANGED Game!vars
<1>1. AllPlay(table') <=> AllPlay(table)  BY DEF SameView, AllPlay
<1>2. HandsOf(table') = HandsOf(table)  BY DEF SameView, HandsOf
<1>3. /\ GameStage' = GameStage /\ GameBid' = GameBid /\ GameLord' = GameLord
      /\ GameHands' = GameHands /\ GameLeader' = GameLeader
      /\ GamePasses' = GamePasses /\ GameWinner' = GameWinner
  <2>1. /\ table'.state = table.state /\ table'.flow.lead = table.flow.lead
        /\ table'.flow.passes = table.flow.passes /\ table'.dealer = table.dealer
        /\ table.state = "FINISH" => table'.last_winner = table.last_winner
    BY DEF SameView
  <2>2. CASE ~AllPlay(table) \/ table.state \in {"WAIT", "UB"}
    BY <1>1, <2>1, <2>2, GameRead, GameReadNext
  <2>3. CASE AllPlay(table) /\ table.state = "WAIT_QIANG"
    <3>1. BidsOf(table') = BidsOf(table)
      BY <2>3 DEF SameView, BidsOf, CountOf
    <3>. QED  BY <1>1, <1>2, <2>1, <2>3, <3>1, GameRead, GameReadNext
  <2>4. CASE AllPlay(table) /\ table.state = "PLAYING"
    BY <1>1, <1>2, <2>1, <2>4, GameRead, GameReadNext
  <2>5. CASE AllPlay(table) /\ table.state = "FINISH"
    BY <1>1, <1>2, <2>1, <2>5, GameRead, GameReadNext
  <2>. QED  BY <2>2, <2>3, <2>4, <2>5 DEF TableStates
<1>. QED  BY <1>3 DEF Game!vars

(* A bid is a bid of the game: by the seat whose turn it is, recorded as a *)
(* call, a raise or neither.                                               *)
LEMMA GameBids ==
    ASSUME NEW t, SameGame(table, t), Sound(table), Sound(t), Sound(table'),
           AllPlay(table), table.state = "WAIT_QIANG",
           NEW n \in 0 .. 4, BiddingAt(t, n),
           NEW s \in Seats, NEW act \in t.seats[s].choices, Asks(t, s, n),
           IF act \in CallActs THEN BidYes(t, table', s, act)
           ELSE BidNo(t, table', s, act)
    PROVE  \E yes \in BOOLEAN : Game!Bid(yes)
<1> DEFINE yes == act \in CallActs
           u == table'
<1>1. /\ t.state = "WAIT_QIANG" /\ BidsOf(table) = BidsOf(t) /\ HandsOf(table) = HandsOf(t)
  BY DEF SameGame, SameTurn, BidsOf, CountOf, HandsOf
<1>2. /\ GameStage = "bidding" /\ GameBid = BidsOf(t) /\ GameLord = NoSeat
      /\ GameHands = HandsOf(t) /\ GameLeader = NoSeat
      /\ GamePasses = 0 /\ GameWinner = NoSeat
  BY <1>1, GameRead
<1>3. /\ GameBid.first = t.dealer /\ GameBid.count = CountOf(t)
      /\ GameBid.caller = IF t.dealer2 = NoSeat THEN NoSeat ELSE t.jiao
      /\ GameBid.raised = t.flow.qiang /\ GameBid.last = t.dealer2
  BY <1>2 DEF BidsOf
<1>4. act \notin CallActs => act # "PASS"
  BY DEF Asks, AskedToCall, AskedToRaise, AskedAgain
<1>5. n + 1 \in 0 .. 4 /\ BiddingAt(u, n + 1)
  BY <1>4, BidsNo, BidsYes
<1>6. CountOf(t) = n /\ CountOf(u) = n + 1
  BY <1>5, BidsCount DEF BiddingAt
<1>7. t.dealer \in Seats /\ t.jiao \in Seats /\ t.flow.qiang \in BOOLEAN
      /\ u.flow.qiang \in BOOLEAN /\ NoSeat \notin Seats
  BY DEF Sound, TableRec, FlowRec, Seats, SeatNum, NoSeat
<1>8. ~Game!BidsDone
  <2>1. n < 3 \/ (n = 3 /\ t.flow.qiang)
    BY DEF Asks, AskedToCall, AskedToRaise, AskedAgain
  <2>. QED  BY <1>3, <1>6, <2>1 DEF Game!BidsDone
<1>9. Game!Bidder = s
  <2>1. n < 3 => s = (t.dealer + n) % 3
    BY DEF Asks, AskedToCall, AskedToRaise, AskedAgain, At, SeatNum
  <2>2. ~(n < 3) => s = t.jiao /\ t.dealer2 # NoSeat
    BY DEF Asks, AskedToCall, AskedToRaise, AskedAgain
  <2>. QED  BY <1>3, <1>6, <2>1, <2>2 DEF Game!Bidder
<1>10. /\ yes => (act = "JIAO" <=> t.dealer2 = NoSeat)
       /\ yes => (act = "QIANG" <=> t.dealer2 # NoSeat)
       /\ t.dealer2 = NoSeat => ~t.flow.qiang
  BY DEF Asks, AskedToCall, AskedToRaise, AskedAgain, CallActs, BiddingAt, BidsAre
<1>11. /\ u.dealer = t.dealer
       /\ u.dealer2 = IF yes THEN s ELSE t.dealer2
       /\ u.jiao = IF yes /\ t.dealer2 = NoSeat THEN s ELSE t.jiao
       /\ u.flow.qiang <=> IF yes THEN t.dealer2 # NoSeat ELSE t.flow.qiang
       /\ u.flow.lead = NoSeat /\ u.flow.passes = 0
       /\ AllPlay(u) /\ HandsOf(u) = HandsOf(t)
  <2>0. AllPlay(t)  BY DEF SameGame, AllPlay
  <2>1. CASE yes
    <3>1. /\ u.dealer = t.dealer /\ u.dealer2 = s
          /\ u.jiao = IF act = "JIAO" THEN s ELSE t.jiao
          /\ u.flow.qiang <=> (t.flow.qiang \/ act = "QIANG")
          /\ u.flow.lead = t.flow.lead /\ u.flow.passes = t.flow.passes
          /\ AllPlay(u) /\ HandsOf(u) = HandsOf(t)
      BY <2>0, <2>1 DEF BidYes, TurnTaken, AllPlay, HandsOf
    <3>2. t.flow.lead = NoSeat /\ t.flow.passes = 0  BY DEF BiddingAt
    <3>. QED  BY <1>10, <2>1, <3>1, <3>2
  <2>2. CASE ~yes
    <3>1. /\ u.dealer = t.dealer /\ u.dealer2 = t.dealer2 /\ u.jiao = t.jiao
          /\ u.flow.qiang <=> t.flow.qiang
          /\ u.flow.lead = t.flow.lead /\ u.flow.passes = t.flow.passes
          /\ AllPlay(u) /\ HandsOf(u) = HandsOf(t)
      BY <1>4, <2>0, <2>2 DEF BidNo, TurnTaken, AllPlay, HandsOf
    <3>2. t.flow.lead = NoSeat /\ t.flow.passes = 0  BY DEF BiddingAt
    <3>. QED  BY <2>2, <3>1, <3>2
  <2>. QED  BY <2>1, <2>2
<1>12. \/ /\ UNCHANGED <<GameHands, GameLeader, GamePasses>>
          /\ u.state = "WAIT_QIANG" => UNCHANGED <<GameStage, GameLord, GameWinner>>
       \/ u.state \notin {"WAIT_QIANG", "FINISH"}
  BY <1>2, <1>11, GameReadNext
<1>13. u.state = "WAIT_QIANG" \/ (u.state = "FINISH" /\ u.last_winner \in Seats)
  BY <1>1 DEF BidYes, BidNo, Ended
<1>16. ASSUME Game!Bid(yes) PROVE \E y \in BOOLEAN : Game!Bid(y)
  <2>1. yes \in BOOLEAN  OBVIOUS
  <2>. HIDE DEF yes
  <2>. QED  BY <1>16, <2>1
<1>14. CASE u.state = "WAIT_QIANG"
  <2>1. BidsOf(u) = Game!BidMade(yes)
    <3>1. u.dealer2 = NoSeat <=> t.dealer2 = NoSeat /\ ~yes  BY <1>7, <1>11
    <3>2. (IF u.dealer2 = NoSeat THEN NoSeat ELSE u.jiao)
            = IF yes /\ GameBid.caller = NoSeat THEN Game!Bidder ELSE GameBid.caller
      BY <1>3, <1>7, <1>9, <1>11, <3>1
    <3>3. u.flow.qiang = IF yes THEN GameBid.caller # NoSeat ELSE GameBid.raised
      BY <1>3, <1>7, <1>11
    <3>4. u.dealer2 = IF yes THEN Game!Bidder ELSE GameBid.last
      BY <1>3, <1>9, <1>11
    <3>5. u.dealer = GameBid.first /\ CountOf(u) = GameBid.count + 1
      BY <1>3, <1>6, <1>11
    <3>. HIDE DEF yes, u
    <3>. QED  BY <3>2, <3>3, <3>4, <3>5 DEF BidsOf, Game!BidMade
  <2>2. GameBid' = BidsOf(u)  BY <1>11, <1>14, GameReadNext
  <2>3. Game!Bid(yes)
    BY <1>2, <1>8, <1>12, <1>14, <2>1, <2>2 DEF Game!Bid
  <2>. QED  BY <1>16, <2>3
<1>15. CASE u.state = "FINISH" /\ u.last_winner \in Seats
  <2>1. /\ GameStage' = "over" /\ GameBid' = NoBids /\ GameLord' = NoSeat
        /\ GameWinner' = u.last_winner
    BY <1>11, <1>15, GameReadNext
  <2>2. Game!Over(u.last_winner)
    BY <2>1 DEF Game!Over, Game!NoBid, Game!Opened, NoBids
  <2>3. Game!GivenUp
    BY <1>15, <2>2 DEF Game!GivenUp, Game!Seats, Seats, SeatNum
  <2>4. Game!Bid(yes)
    BY <1>2, <1>8, <1>12, <1>15, <2>3 DEF Game!Bid
  <2>. QED  BY <1>16, <2>4
<1>. QED  BY <1>13, <1>14, <1>15

(* The turn in the play is the one the game gives, ...                     *)
LEMMA GameTurn ==
    ASSUME NEW t, SameGame(table, t), Sound(t), AllPlay(table),
           table.state = "PLAYING", Playing(t)
    PROVE  /\ GameStage = "play" /\ GameBid = NoBids /\ GameLord = t.dealer
           /\ GameHands = HandsOf(t) /\ GameLeader = t.flow.lead
           /\ GamePasses = t.flow.passes /\ GameWinner = NoSeat
           /\ Game!Turn = TurnOf(t)
<1>1. /\ t.dealer = table.dealer /\ t.flow = table.flow /\ HandsOf(t) = HandsOf(table)
  BY DEF SameGame, SameTurn, HandsOf
<1>2. /\ GameStage = "play" /\ GameBid = NoBids /\ GameLord = t.dealer
      /\ GameHands = HandsOf(t) /\ GameLeader = t.flow.lead
      /\ GamePasses = t.flow.passes /\ GameWinner = NoSeat
  BY <1>1, GameRead
<1>3. Game!Turn = TurnOf(t)
  BY <1>2 DEF Game!Turn, TurnOf, SeatNum
<1>. QED  BY <1>2, <1>3

(* ... and after it the play goes on, or is given up.                      *)
LEMMA GameGoesOn ==
    ASSUME NEW t, Sound(t), GameStage = "play", GameBid = NoBids,
           GameLord = t.dealer, GameWinner = NoSeat, t.state = "PLAYING",
           AllPlay(table'), table'.dealer = t.dealer, Ended(t, table', 2)
    PROVE  Game!GoesOn /\ table'.state \in {"PLAYING", "FINISH"}
<1>1. table'.state = "PLAYING" \/ (table'.state = "FINISH" /\ table'.last_winner \in Seats)
  BY DEF Ended
<1>2. CASE table'.state = "PLAYING"
  <2>1. /\ GameStage' = GameStage /\ GameBid' = GameBid /\ GameLord' = GameLord
        /\ GameWinner' = GameWinner
    BY <1>2, GameReadNext
  <2>. QED  BY <1>2, <2>1 DEF Game!GoesOn
<1>3. CASE table'.state = "FINISH" /\ table'.last_winner \in Seats
  <2>1. /\ GameStage' = "over" /\ GameBid' = NoBids /\ GameLord' = NoSeat
        /\ GameWinner' = table'.last_winner
    BY <1>3, GameReadNext
  <2>2. Game!Over(table'.last_winner)
    BY <2>1 DEF Game!Over, Game!NoBid, Game!Opened, NoBids
  <2>3. Game!GivenUp
    BY <1>3, <2>2 DEF Game!GivenUp, Game!Seats, Seats, SeatNum
  <2>. QED  BY <1>3, <2>3 DEF Game!GoesOn
<1>. QED  BY <1>1, <1>2, <1>3

(* A play is a play of the game: by the seat whose turn it is, of cards it *)
(* holds, and the last card wins.                                          *)
LEMMA GamePlayed ==
    ASSUME NEW t, SameGame(table, t), Sound(t), Sound(table'), AllPlay(table),
           table.state = "PLAYING", Playing(t), NEW s \in Seats,
           t.seats[s].choices # {}, NEW cards \in 1 .. t.seats[s].hand,
           Played(t, table', s, cards)
    PROVE  \E k \in 1 .. HandSize + BottomSize : Game!Play(k)
<1> DEFINE u == table'
<1>1. /\ GameStage = "play" /\ GameBid = NoBids /\ GameLord = t.dealer
      /\ GameHands = HandsOf(t) /\ GameLeader = t.flow.lead
      /\ GamePasses = t.flow.passes /\ GameWinner = NoSeat
      /\ Game!Turn = TurnOf(t)
  BY GameTurn
<1>2. s = TurnOf(t) /\ \A r \in Seats : t.seats[r].hand \in 1 .. HandSize + BottomSize
  BY DEF Playing
<1>3. Game!Turn = s /\ GameHands[s] = t.seats[s].hand  BY <1>1, <1>2 DEF HandsOf
<1>4. cards \in 1 .. HandSize + BottomSize
  <2>1. t.seats[s].hand \in 1 .. HandSize + BottomSize  BY <1>2
  <2>. QED  BY <2>1, TableAssumption
<1>5. AllPlay(t) /\ t.state = "PLAYING"  BY DEF SameGame, AllPlay
<1>6. /\ AllPlay(u) /\ u.dealer = t.dealer /\ u.flow.lead = s /\ u.flow.passes = 0
      /\ \A r \in Seats : u.seats[r].hand =
            IF r = s THEN t.seats[r].hand - cards ELSE t.seats[r].hand
      /\ IF t.seats[s].hand = cards THEN u.state = "FINISH" /\ u.last_winner = s
         ELSE Ended(t, u, 2)
  BY <1>5 DEF Played, TurnTaken, AllPlay
<1>7. HandsOf(u) = [HandsOf(t) EXCEPT ![s] = @ - cards]
  BY <1>6 DEF HandsOf
<1>8. CASE t.seats[s].hand = cards
  <2>1. /\ GameStage' = "over" /\ GameBid' = NoBids /\ GameLord' = NoSeat
        /\ GameHands' = HandsOf(u) /\ GameLeader' = s /\ GamePasses' = 0
        /\ GameWinner' = s
    BY <1>6, <1>8, GameReadNext
  <2>2. Game!Over(s)  BY <2>1 DEF Game!Over, Game!NoBid, Game!Opened, NoBids
  <2>3. Game!Play(cards)
    BY <1>1, <1>3, <1>7, <1>8, <2>1, <2>2 DEF Game!Play
  <2>. QED  BY <1>4, <2>3
<1>9. CASE t.seats[s].hand # cards
  <2>1. Game!GoesOn /\ u.state \in {"PLAYING", "FINISH"}
    BY <1>1, <1>5, <1>6, <1>9, GameGoesOn
  <2>2. GameHands' = HandsOf(u) /\ GameLeader' = s /\ GamePasses' = 0
    BY <1>6, <2>1, GameReadNext
  <2>3. Game!Play(cards)
    BY <1>1, <1>3, <1>7, <1>9, <2>1, <2>2 DEF Game!Play
  <2>. QED  BY <1>4, <2>3
<1>. QED  BY <1>8, <1>9

(* A pass is a pass of the game: not of a trick the seat leads.            *)
LEMMA GamePassed ==
    ASSUME NEW t, SameGame(table, t), Sound(t), Sound(table'), AllPlay(table),
           table.state = "PLAYING", Playing(t), NEW s \in Seats,
           "PASS" \in t.seats[s].choices, Passed(t, table', s, "PASS")
    PROVE  Game!Pass
<1> DEFINE u == table'
<1>1. /\ GameStage = "play" /\ GameBid = NoBids /\ GameLord = t.dealer
      /\ GameHands = HandsOf(t) /\ GameLeader = t.flow.lead
      /\ GamePasses = t.flow.passes /\ GameWinner = NoSeat
  BY GameTurn
<1>2. t.flow.lead # NoSeat /\ t.flow.passes \in 0 .. 1
  BY PassedOn
<1>3. AllPlay(t) /\ t.state = "PLAYING"  BY DEF SameGame, AllPlay
<1>4. /\ AllPlay(u) /\ u.dealer = t.dealer
      /\ u.flow.lead = t.flow.lead /\ u.flow.passes = t.flow.passes + 1
      /\ HandsOf(u) = HandsOf(t) /\ Ended(t, u, 2)
  BY <1>3 DEF Passed, TurnTaken, AllPlay, HandsOf
<1>5. Game!GoesOn /\ u.state \in {"PLAYING", "FINISH"}
  BY <1>1, <1>3, <1>4, GameGoesOn
<1>6. GameHands' = HandsOf(u) /\ GameLeader' = u.flow.lead /\ GamePasses' = u.flow.passes
  BY <1>4, <1>5, GameReadNext
<1>. QED  BY <1>1, <1>2, <1>4, <1>5, <1>6 DEF Game!Pass

(* So what a seat does at the table is a move of the game, or the game has *)
(* been left.                                                              *)
LEMMA GameActs ==
    ASSUME NEW t, SameGame(table, t), Sound(table), Sound(t), t.state # "UB",
           Orderly(t), Acts(t, table')
    PROVE  Game!Next
<1>1. PICK s \in Seats, act \in ActTypes, cards \in Nat, token \in Nat :
         /\ IsPlayerAbleDoAction(t, s, act, cards, token)
         /\ Sound(table') /\ NoTurn(table')
         /\ t.state # "FINISH" => Acted(t, table', s, act, cards)
  BY DEF Acts
<1>2. /\ act \in t.seats[s].choices
      /\ act = "CHUPAI" => cards \in 1 .. t.seats[s].hand
  BY <1>1 DEF IsPlayerAbleDoAction
<1>3. t.state # "FINISH" /\ Acted(t, table', s, act, cards)
  BY <1>1, <1>2 DEF Orderly, NoTurn
<1>4. (AllPlay(table) <=> AllPlay(t)) /\ table.state = t.state
  BY DEF SameGame, AllPlay
<1>5. AllPlay(table') <=> AllPlay(t)
  BY <1>3, ActedEnds DEF TurnTaken, AllPlay
<1>6. CASE ~AllPlay(t)
  BY <1>5, <1>6, GameLeaves DEF Game!Next
<1>7. CASE AllPlay(t) /\ t.state = "WAIT_QIANG"
  <2>1. PICK n \in 0 .. 4 : BiddingAt(t, n)  BY <1>7 DEF Orderly, Bidding
  <2>2. Asks(t, s, n)  BY <1>2, <2>1 DEF BiddingAt
  <2>3. act # "CHUPAI"
    BY <1>2, <2>2 DEF Asks, AskedToCall, AskedToRaise, AskedAgain
  <2>4. IF act \in CallActs THEN BidYes(t, table', s, act) ELSE BidNo(t, table', s, act)
    BY <1>3, <1>7, <2>3 DEF Acted
  <2>5. \E yes \in BOOLEAN : Game!Bid(yes)
    BY <1>1, <1>2, <1>4, <1>7, <2>1, <2>2, <2>4, GameBids
  <2>. QED  BY <2>5 DEF Game!Next
<1>8. CASE AllPlay(t) /\ t.state = "PLAYING"
  <2>1. Playing(t)  BY <1>8 DEF Orderly
  <2>2. act \in {"CHUPAI", "PASS"}  BY <1>2, <2>1 DEF Playing
  <2>3. CASE act = "CHUPAI"
    <3>1. Played(t, table', s, cards)  BY <1>3, <2>3 DEF Acted
    <3>2. \E k \in 1 .. HandSize + BottomSize : Game!Play(k)
      BY <1>1, <1>2, <1>4, <1>8, <2>1, <2>3, <3>1, GamePlayed
    <3>. QED  BY <3>2 DEF Game!Next
  <2>4. CASE act = "PASS"
    <3>1. "PASS" \notin CallActs  BY DEF CallActs
    <3>2. Passed(t, table', s, "PASS")  BY <1>3, <1>8, <2>4, <3>1 DEF Acted
    <3>3. Game!Pass
      BY <1>1, <1>2, <1>4, <1>8, <2>1, <2>4, <3>2, GamePassed
    <3>. QED  BY <3>3 DEF Game!Next
  <2>. QED  BY <2>2, <2>3, <2>4
<1>9. t.state \in TableStates /\ ~(AllPlay(t) /\ t.state = "WAIT")
  BY DEF Sound, TableRec, Orderly
<1>. QED  BY <1>3, <1>6, <1>7, <1>8, <1>9 DEF TableStates

(* When the bidding of an intact table moves on, the game waits for the    *)
(* next bid, is dealt anew, or is led.                                     *)
LEMMA GameBidsMove ==
    ASSUME NEW t, SameGame(table, t), Sound(table), Sound(t), NEW w,
           Rebids(t, w), AllPlay(table), table.state = "WAIT_QIANG",
           NEW n \in 0 .. 4, BiddingAt(w, n), BidsMove(w, table'), Sound(table')
    PROVE  Game!Next \/ table'.state = "UB" \/ UNCHANGED Game!vars
<1>1. /\ w.dealer = table.dealer /\ w.dealer2 = table.dealer2 /\ w.jiao = table.jiao
      /\ w.flow = table.flow /\ w.state = table.state /\ table.state \in TableStates
      /\ \A s \in Seats : /\ w.seats[s].state = table.seats[s].state
                          /\ w.seats[s].times = table.seats[s].times
                          /\ w.seats[s].hand = table.seats[s].hand
  BY DEF Rebids, SameGame, SameTurn, TableStates
<1>2. Sound(w) /\ NoTurn(w) /\ w.dealer \in Seats  BY DEF Rebids, Sound
<1>3. CountOf(table) = n
  <2>1. CountOf(w) = CountOf(table)  BY <1>1 DEF CountOf
  <2>2. BidsAre(w, n)  BY DEF BiddingAt
  <2>. QED  BY <1>2, <2>1, <2>2, BidsCount
<1>4. (\A s \in Seats : w.seats[s].times # 0) => n \in 3 .. 4
  <2> SUFFICES ASSUME \A s \in Seats : w.seats[s].times # 0 PROVE ~(n <= 2)
    OBVIOUS
  <2>1. 2 \in Seats  BY DEF Seats, SeatNum
  <2>2. At(w, 2) \in Seats  BY <1>2, <2>1, AtType
  <2>3. w.seats[At(w, 2)].times # 0  BY <2>2
  <2>. QED  BY <2>1, <2>3 DEF BiddingAt, BidsAre
<1>5. CASE NextBid(w, table')
  <2>1. w.dealer2 # NoSeat => table'.jiao = w.jiao
    BY <1>2, <1>5, NextBidOrderly
  <2>2. \E s, acts : Offered(w, table', s, acts)
    BY <1>2, <1>5, NextBidOffers
  <2>3. SameView(table, table')
    BY <1>1, <2>1, <2>2 DEF SameView, Offered
  <2>. QED  BY <1>1, <2>3, GameStutters
<1>6. CASE (\A s \in Seats : w.seats[s].times # 0) /\ LastBid(w, table')
  <2>1. \E s, acts : Offered(w, table', s, acts) /\ table'.jiao = w.jiao
    BY <1>2, <1>6, LastBidOffers
  <2>2. SameView(table, table')
    BY <1>1, <2>1 DEF SameView, Offered
  <2>. QED  BY <1>1, <2>2, GameStutters
<1>7. CASE (\A s \in Seats : w.seats[s].times # 0) /\ BidsEnd(w, table')
  <2>1. n \in 3 .. 4  BY <1>4, <1>7
  <2>2. CASE table' = w
    <3>1. SameView(table, table')  BY <1>1, <2>2 DEF SameView
    <3>. QED  BY <1>1, <3>1, GameStutters
  <2>3. CASE w.dealer2 = NoSeat /\ Fresh(table')
    <3>1. n = 3  BY <2>1, <2>3 DEF BiddingAt, BidsAre
    <3>2. \E s \in 0 .. 2 : Game!Deal(s)
      BY <1>1, <1>3, <2>3, <3>1, GameDeals
    <3>. QED  BY <3>2 DEF Game!Next, Game!Seats
  <2>4. CASE w.dealer2 # NoSeat /\ Led(w, table')
    <3>1. n = 3 => ~table.flow.qiang
      <4>1. n = 3 => w.seats[w.jiao].is_jiao
        BY <1>2, <2>4 DEF BiddingAt, Answered
      <4>. QED  BY <1>1, <1>7, <4>1 DEF BidsEnd
    <3>2. /\ w.flow.lead = NoSeat /\ w.flow.passes = 0  BY DEF BiddingAt
    <3>3. /\ AllPlay(table') /\ table'.state = "PLAYING"
          /\ table'.flow.lead = NoSeat /\ table'.flow.passes = 0
          /\ table'.dealer = table.dealer2
          /\ \A s \in Seats : table'.seats[s].hand =
                IF s = table.dealer2 THEN table.seats[s].hand + BottomSize
                ELSE table.seats[s].hand
      BY <1>1, <2>4, <3>2 DEF Led, Opens, AllPlay
    <3>4. Game!Lead
      BY <1>1, <1>3, <2>1, <2>4, <3>1, <3>2, <3>3, GameLeads
    <3>. QED  BY <3>4 DEF Game!Next
  <2>. QED  BY <1>7, <2>2, <2>3, <2>4 DEF BidsEnd
<1>. QED  BY <1>5, <1>6, <1>7 DEF BidsMove

(* A drained OVER event keeps the game's rules.                            *)
LEMMA GameOvers ==
    ASSUME NEW t, SameGame(table, t), Sound(table), Sound(t), NoTurn(t),
           Orderly(t), t.state \notin {"FINISH", "UB"}, NEW type \in {2, 6},
           AllPlay(t) /\ t.state = "WAIT_QIANG" => type = 6,
           AllPlay(t) /\ t.state = "PLAYING" => type = 2,
           Overs(t, type, table'), Sound(table')
    PROVE  Game!Next \/ UNCHANGED Game!vars
<1>1. (AllPlay(table) <=> AllPlay(t)) /\ table.state = t.state
  BY DEF SameGame, AllPlay
<1>2. t.state \in TableStates /\ table.state \in TableStates
  BY DEF Sound, TableRec
<1>3. ~AllPlay(table') \/ table'.state \in {"WAIT", "UB"} => Game!Next
  BY GameLeaves DEF Game!Next
<1>4. CASE type = 6 /\ \E w : /\ w = [ResetPlayerChoice(t) EXCEPT !.state = "WAIT_QIANG"]
                              /\ BidsMove(w, table')
  <2>1. PICK w : /\ w = [ResetPlayerChoice(t) EXCEPT !.state = "WAIT_QIANG"]
                 /\ BidsMove(w, table')
    BY <1>4
  <2>2. Rebids(t, w)  BY <2>1, ResetRebids
  <2>3. Sound(w) /\ (AllPlay(w) <=> AllPlay(t))  BY <2>2 DEF Rebids, AllPlay
  <2>4. CASE AllPlay(t)
    <3>1. t.state = "WAIT_QIANG"
      BY <1>2, <1>4, <2>4 DEF Orderly, TableStates
    <3>2. Bidding(w)
      BY <2>2, <2>4, <3>1, RebidsBidding DEF Orderly
    <3>3. PICK n \in 0 .. 4 : BiddingAt(w, n)  BY <3>2 DEF Bidding
    <3>. QED  BY <1>1, <1>3, <2>1, <2>2, <2>4, <3>1, <3>3, GameBidsMove
  <2>5. CASE ~AllPlay(t)
    <3>1. CASE NextBid(w, table') \/ LastBid(w, table')
      <4>1. \E s, acts : Offered(w, table', s, acts)
        BY <2>3, <3>1, NextBidOffers, LastBidOffers
      <4>2. ~AllPlay(table')  BY <2>3, <2>5, <4>1 DEF Offered, AllPlay
      <4>. QED  BY <1>3, <4>2
    <3>2. CASE BidsEnd(w, table')
      <4>1. CASE Fresh(table')
        <5>1. \E s \in 0 .. 2 : Game!Deal(s)
          BY <1>1, <2>5, <4>1, GameDeals
        <5>. QED  BY <5>1 DEF Game!Next, Game!Seats
      <4>2. CASE table' = w \/ Led(w, table')
        <5>1. ~AllPlay(table')  BY <2>3, <2>5, <4>2 DEF Led, Opens, AllPlay
        <5>. QED  BY <1>3, <5>1
      <4>. QED  BY <1>3, <3>2, <4>1, <4>2 DEF BidsEnd
    <3>. QED  BY <2>1, <3>1, <3>2 DEF BidsMove
  <2>. QED  BY <2>4, <2>5
<1>5. CASE type = 2 /\ (table' = t \/ Follows(t, table'))
  <2>1. AllPlay(table') <=> AllPlay(t)
    BY <1>5 DEF Follows, Opens, AllPlay
  <2>2. CASE AllPlay(t)
    <3>1. t.state = "PLAYING"
      BY <1>2, <1>5, <2>2 DEF Orderly, TableStates
    <3>2. table'.state = t.state
      BY <1>5 DEF Follows
    <3>3. SameView(t, table')
      BY <1>5, <3>1 DEF SameView, Follows, Opens
    <3>4. SameView(table, table')
      BY <3>1, <3>3 DEF SameView, SameGame, SameTurn
    <3>. QED  BY <1>2, <3>4, GameStutters
  <2>. QED  BY <1>3, <2>1, <2>2
<1>. QED  BY <1>4, <1>5 DEF Overs

(* Every step of the table is a move of the game or none.                  *)
LEMMA GameSteps ==
    IInv /\ IInv' /\ RoundOrder /\ TableStep => [Game!Next]_(Game!vars)
<1> SUFFICES ASSUME IInv, IInv', RoundOrder, TableStep
             PROVE  Game!Next \/ UNCHANGED Game!vars
  OBVIOUS
<1>1. table.state \in TableStates  BY DEF IInv, TypeOK, TableRec
<1>2. table'.state = "UB" => Game!Next
  BY GameLeaves DEF Game!Next
<1>3. ASSUME SameGame(table, table') PROVE UNCHANGED Game!vars
  <2>1. SameView(table, table')
    BY <1>3 DEF SameGame, SameTurn, SameView
  <2>. QED  BY <1>1, <2>1, GameStutters
<1>4. CASE UNCHANGED vars
  <2>1. SameView(table, table')  BY <1>4 DEF vars, SameView
  <2>. QED  BY <1>1, <2>1, GameStutters
<1>5. CASE (TakesEvent \/ DrainsOne) /\ table'.state # "UB"
  <2>1. /\ Running /\ Sound(table) /\ OneTurn(table)
        /\ Orderly(table) \/ (batch = 0 /\ Late(table))
    BY <1>5 DEF TakesEvent, DrainsOne, RoundOrder, Running, IInv, TypeOK, Good, Sound
  <2>2. Sound(table')
    BY <1>5 DEF IInv, TypeOK, Good, Sound
  <2>3. SameGame(table, table)  BY DEF SameGame, SameTurn
  <2>4. DrainsOne => /\ Sound(Popped) /\ OneTurn(Popped) /\ SameGame(table, Popped)
                     /\ Popped.state = table.state
    <3>1. DrainsOne => table.inner # << >>  BY DEF DrainsOne
    <3>. QED  BY <2>1, <3>1, PoppedSound DEF SameGame
  <2>5. Late(table) => Head(table.inner) = OverMsg(2)  BY DEF Late
  <2>6. CASE Quietly(table, table')
    BY <1>3, <2>6 DEF Quietly, Still
  <2>7. CASE Disturbed(table, table')
    BY <2>7, GameLeaves DEF Disturbed, Game!Next
  <2>8. CASE TakesEvent /\ Acts(table, table')
    <3>1. Orderly(table)  BY <2>1, <2>8 DEF TakesEvent
    <3>. QED  BY <2>1, <2>3, <2>8, <3>1, GameActs DEF Running
  <2>9. CASE TakesEvent /\ Starts(table, table')
    <3>1. \E s \in 0 .. 2 : Game!Deal(s)
      BY <1>5, <2>2, <2>9, GameDeals DEF Starts
    <3>. QED  BY <3>1 DEF Game!Next, Game!Seats
  <2>10. CASE DrainsOne /\ Head(table.inner).cmd # "OVER" /\ Acts(Popped, table')
    <3>1. Orderly(table)  BY <2>1, <2>5, <2>10, OverCmd
    <3>2. Orderly(Popped)
      BY <2>1, <2>10, <3>1, PoppedOrderly DEF DrainsOne
    <3>. QED  BY <2>1, <2>4, <2>10, <3>2, GameActs DEF Running
  <2>11. CASE DrainsOne /\ Head(table.inner).cmd = "OVER"
                /\ Overs(Popped, Head(table.inner).type, table')
    <3>1. CASE Orderly(table)
      <4>1. /\ Orderly(Popped) /\ Head(table.inner).type \in {2, 6}
            /\ NoTurn(Popped) /\ Popped.state # "FINISH"
            /\ AllPlay(Popped) /\ Popped.state = "WAIT_QIANG" =>
                  Head(table.inner).type = 6
            /\ AllPlay(Popped) /\ Popped.state = "PLAYING" =>
                  Head(table.inner).type = 2
        BY <2>1, <2>11, <3>1, PoppedOrderly DEF DrainsOne
      <4>. HIDE DEF Popped
      <4>. QED  BY <2>1, <2>2, <2>4, <2>11, <4>1, GameOvers DEF Running
    <3>2. CASE Late(table)
      <4>1. table' = Popped  BY <2>1, <2>11, <3>2, LateOver
      <4>2. SameGame(table, table')  BY <2>4, <2>11, <4>1
      <4>. QED  BY <1>3, <4>2
    <3>. QED  BY <2>1, <3>1, <3>2
  <2>12. CASE Calm(table, table')
    BY <2>6, <2>12 DEF Calm
  <2>13. CASE UNCHANGED vars
    BY <1>4, <2>13
  <2>. QED  BY <2>6, <2>7, <2>8, <2>9, <2>10, <2>11, <2>12, <2>13
    DEF TableStep
<1>. QED  BY <1>2, <1>4, <1>5 DEF TableStep

(* PlaysTheGame: the table implements DdzRules.  Nobody bids, plays or     *)
(* passes out of turn, the last who called or raised leads with the bottom *)
(* cards, and who plays his last card has won.                             *)
THEOREM TablePlaysTheGame ==
    Spec /\ (Paced \/ []~OldEvent) => PlaysTheGame
<1>1. Init => Game!Init
  <2> SUFFICES ASSUME Init PROVE Game!Init
    OBVIOUS
  <2>1. ~AllPlay(table)
    <3>1. 0 \in Seats  BY DEF Seats, SeatNum
    <3>. QED  BY <3>1 DEF Init, AllPlay, EmptySeat
  <2>. QED
    BY <2>1, GameRead
    DEF Game!Init, Game!NoGame, Game!NoBid, Game!Opened, Game!Seats, NoBids, Seats, SeatNum
<1>2. IInv /\ IInv' /\ RoundOrder /\ [Next]_vars => [Game!Next]_(Game!vars)
  BY TableSteps, GameSteps
<1>. QED
  BY <1>1, <1>2, Invariance, RoundOrdered, PTL DEF Spec, PlaysTheGame, Game!Spec

(***************************************************************************)
(* The round moves.                                                        *)
(***************************************************************************)

(* Nobody called in a round whose predecessor ended by trusteeship.        *)
Stuck(t) ==
    /\ t.state = "WAIT_QIANG" /\ t.dealer2 = NoSeat /\ t.trust_err
    /\ \A s \in Seats : t.seats[s].times > 0

(* Who is asked is backed by the timer or by an automatic action, and when *)
(* nobody is asked an OVER event is on its way, but for that one bidding.  *)
Moves(t) ==
    AllPlay(t) /\ t.state \in {"WAIT_QIANG", "PLAYING"} =>
        /\ PlayersBacked(t)
        /\ NoTurn(t) => ~NoOver(t.inner) \/ Stuck(t)

(* A drained OVER event asks a seat, who is then backed.                   *)
LEMMA OversMove ==
    ASSUME NEW t, NEW u, NEW type \in {2, 6}, Sound(t), NoTurn(t), Orderly(t),
           AllPlay(t) /\ t.state = "WAIT_QIANG" => type = 6,
           AllPlay(t) /\ t.state = "PLAYING" => type = 2,
           Overs(t, type, u), u.state # "UB"
    PROVE  Moves(u)
<1>1. ASSUME NEW s \in Seats, u.seats[s].choices # {}, Prompted(u) PROVE Moves(u)
  BY <1>1 DEF Moves, Prompted, NoTurn
<1>2. CASE \E w : /\ w = [ResetPlayerChoice(t) EXCEPT !.state = "WAIT_QIANG"]
                  /\ BidsMove(w, u)
  <2>1. PICK w : /\ w = [ResetPlayerChoice(t) EXCEPT !.state = "WAIT_QIANG"]
                 /\ BidsMove(w, u)
    BY <1>2
  <2>2. Rebids(t, w)  BY <2>1, ResetRebids
  <2>3. /\ Sound(w) /\ NoTurn(w) /\ w.state = "WAIT_QIANG"
        /\ w.dealer \in Seats /\ w.jiao \in Seats
        /\ \A i \in Seats : At(w, i) \in Seats
    BY <2>2, AtType DEF Rebids, Sound
  <2>4. CASE NextBid(w, u)
    <3>1. Prompted(u)  BY <2>4 DEF NextBid, Asking
    <3>2. \E i \in Seats : \E acts : Offered(w, u, At(w, i), acts) /\ acts # {}
      <4>1. {"JIAO", "BU_JIAO"} # {} /\ {"QIANG", "BU_QIANG"} # {}  OBVIOUS
      <4>. QED  BY <2>3, <2>4, <4>1, NextBidOffers
    <3>3. \E s \in Seats : u.seats[s].choices # {}
      BY <2>3, <3>2 DEF Offered
    <3>. QED  BY <1>1, <3>1, <3>3
  <2>5. CASE LastBid(w, u)
    <3>1. Prompted(u)  BY <2>5 DEF LastBid, Asking
    <3>2. u.seats[w.jiao].choices = {"QIANG", "BU_QIANG"}
      BY <2>3, <2>5, LastBidOffers DEF Offered
    <3>. QED  BY <1>1, <2>3, <3>1, <3>2
  <2>6. CASE (\A s \in Seats : w.seats[s].times # 0) /\ BidsEnd(w, u)
    <3>1. CASE w.dealer2 = NoSeat /\ w.trust_err /\ u = w
      <4>1. \A s \in Seats : w.seats[s].times > 0
        <5>1. \A s \in Seats : w.seats[s].times \in Nat
          BY <2>3 DEF Sound, TableRec, SeatRec
        <5>2. \A s \in Seats : w.seats[s].times # 0  BY <2>6
        <5>. QED  BY <5>1, <5>2
      <4>2. Stuck(w)  BY <2>3, <3>1, <4>1 DEF Stuck
      <4>3. PlayersBacked(w)  BY <2>3 DEF PlayersBacked, NoTurn
      <4>. QED  BY <3>1, <4>2, <4>3 DEF Moves
    <3>2. CASE Fresh(u)
      BY <1>1, <3>2 DEF Fresh
    <3>3. CASE w.dealer2 # NoSeat /\ Led(w, u)
      <4>1. w.dealer2 \in Seats  BY <2>3, <3>3 DEF Sound, TableRec
      <4>2. Prompted(u) /\ u.seats[w.dealer2].choices = {"CHUPAI"}
        BY <3>3, <4>1 DEF Led, Opens
      <4>. QED  BY <1>1, <4>1, <4>2
    <3>. QED  BY <2>6, <3>1, <3>2, <3>3 DEF BidsEnd
  <2>. QED  BY <2>1, <2>4, <2>5, <2>6 DEF BidsMove
<1>3. CASE type = 2 /\ t.flow.act = NoAct /\ u = t
  BY <1>3 DEF Orderly, Playing, Moves
<1>4. CASE Follows(t, u)
  <2>1. NextSeat(t.flow.seat) \in Seats
    BY NextSeatType DEF Sound, TableRec, FlowRec
  <2>2. Prompted(u) /\ u.seats[NextSeat(t.flow.seat)].choices # {}
    BY <1>4, <2>1 DEF Follows, Opens
  <2>. QED  BY <1>1, <2>1, <2>2
<1>. QED  BY <1>2, <1>3, <1>4 DEF Overs

(* What a seat does leaves an OVER event behind it, or ends the round.     *)
LEMMA ActsMove ==
    ASSUME NEW t, NEW u, Sound(t), Orderly(t), Acts(t, u)
    PROVE  Moves(u)
<1>1. PICK s \in Seats, act \in ActTypes, cards \in Nat, token \in Nat :
         /\ IsPlayerAbleDoAction(t, s, act, cards, token)
         /\ Sound(u) /\ NoTurn(u)
         /\ t.state # "FINISH" => Acted(t, u, s, act, cards)
  BY DEF Acts
<1>2. act \in t.seats[s].choices  BY <1>1 DEF IsPlayerAbleDoAction
<1>3. t.state # "FINISH" /\ Acted(t, u, s, act, cards)
  BY <1>1, <1>2 DEF Orderly, NoTurn
<1>4. PlayersBacked(u)  BY <1>1 DEF PlayersBacked, NoTurn
<1> SUFFICES ASSUME AllPlay(u), u.state \in {"WAIT_QIANG", "PLAYING"}
             PROVE  ~NoOver(u.inner)
  BY <1>4 DEF Moves
<1>5. TurnTaken(t, u) /\ Ended(t, u, NextEvent(t, act))
  BY <1>3, ActedEnds
<1>6. AllPlay(t) /\ u.state = t.state
  BY <1>5 DEF TurnTaken, AllPlay, Ended
<1>7. NextEvent(t, act) \in {2, 6}
  <2>1. CASE t.state = "WAIT_QIANG"  BY <2>1 DEF NextEvent
  <2>2. CASE t.state = "PLAYING"
    <3>1. act \in {"CHUPAI", "PASS"}
      BY <1>2, <1>6, <2>2 DEF Orderly, Playing
    <3>2. act \notin CallActs  BY <3>1 DEF CallActs
    <3>. QED  BY <2>2, <3>2 DEF NextEvent
  <2>. QED  BY <1>6, <2>1, <2>2
<1>8. u.inner = Append(t.inner, OverMsg(NextEvent(t, act)))
  <2> DEFINE e == NextEvent(t, act)
  <2>1. Ended(t, u, e) /\ e # 0 /\ u.state # "FINISH"  BY <1>5, <1>7
  <2>. HIDE DEF e
  <2>2. u.inner = Append(t.inner, OverMsg(e))  BY <2>1 DEF Ended
  <2>. QED  BY <2>2 DEF e
<1>9. t.inner \in Seq(InnerMsg) /\ OverMsg(NextEvent(t, act)) \in InnerMsg
  BY <1>7 DEF Sound, TableRec, InnerMsg, OverMsg
<1>10. /\ Len(t.inner) + 1 \in DOMAIN u.inner
       /\ u.inner[Len(t.inner) + 1].cmd = "OVER"
  <2>1. Len(t.inner) + 1 \in 1 .. Len(t.inner) + 1
    BY <1>9, QueuePlaces
  <2>. QED  BY <1>8, <1>9, <2>1, QueuePlaces, OverCmd
<1>. QED  BY <1>10 DEF NoOver

(* A turn whose automatic play was refused is open.                        *)
RefusedOpen == \A s \in refused : s \in Seats /\ Open(table, s)

(* It is, since it leaves refused when it is taken or the round is over.   *)
LEMMA RefusedStayOpen == RefusedOpen /\ TableStep => RefusedOpen'
<1> SUFFICES ASSUME RefusedOpen, TableStep PROVE RefusedOpen'
  OBVIOUS
<1>1. CASE UNCHANGED vars  BY <1>1 DEF vars, RefusedOpen, Open
<1>2. CASE TakesEvent
  BY <1>2 DEF TakesEvent, StillRefused, RefusedOpen, Open
<1>3. CASE DrainsOne
  BY <1>3 DEF DrainsOne, StillRefused, RefusedOpen, Open
<1>. QED  BY <1>1, <1>2, <1>3 DEF TableStep

(* Where the game does not move, neither does such a turn close.           *)
LEMMA RefusedStay ==
    ASSUME RefusedOpen, Still(table, table'), refused # {},
           \/ TakesEvent
           \/ DrainsOne /\ Head(table.inner).cmd # "OVER"
    PROVE  refused' # {}
<1>1. PICK s \in refused : s \in Seats /\ Open(table, s)
  BY DEF RefusedOpen
<1>2. Open(table', s) /\ table'.round = table.round
  BY <1>1 DEF Open, Still, SameGame, SameTurn
<1>3. s \in StillRefused(table')  BY <1>1, <1>2 DEF StillRefused
<1>. QED  BY <1>3 DEF TakesEvent, DrainsOne

(* So every step leaves a round that moves, or a refused turn.             *)
LEMMA MovesStay ==
    ASSUME IInv, RoundOrder, Running, Running', RefusedOpen,
           Moves(table) \/ refused # {}, TableStep
    PROVE  Moves(table') \/ refused' # {}
<1>1. /\ Sound(table) /\ OneTurn(table)
      /\ Orderly(table) \/ (batch = 0 /\ Late(table))
  BY DEF RoundOrder, Running, IInv, TypeOK, Good, Sound
<1>2. Late(table) => Head(table.inner) = OverMsg(2)  BY DEF Late
<1>3. CASE UNCHANGED vars
  <2>1. table' = table /\ refused' = refused  BY <1>3 DEF vars
  <2>. QED  BY <2>1
<1>10. CASE /\ TakesEvent \/ (DrainsOne /\ Head(table.inner).cmd # "OVER")
            /\ Calm(table, table') /\ refused # {}
  BY <1>10, RefusedStay DEF Calm, Quietly
<1>4. CASE Calm(table, table') /\ Moves(table)
  <2>1. /\ PlayersBacked(table) => PlayersBacked(table')
        /\ SameGame(table, table') /\ Quiet(table.inner, table'.inner)
    BY <1>4 DEF Calm, Quietly, Still
  <2>2. /\ AllPlay(table') <=> AllPlay(table)
        /\ NoTurn(table') <=> NoTurn(table)
        /\ Stuck(table') <=> Stuck(table)
        /\ table'.state = table.state
    BY <2>1 DEF SameGame, SameTurn, AllPlay, NoTurn, Stuck
  <2>. QED  BY <1>4, <2>1, <2>2 DEF Moves, Quiet
<1>5. CASE Disturbed(table, table')
  BY <1>5 DEF Disturbed, Moves
<1>6. CASE TakesEvent /\ Acts(table, table')
  <2>1. Orderly(table)  BY <1>1, <1>6 DEF TakesEvent
  <2>. QED  BY <1>1, <1>6, <2>1, ActsMove
<1>7. CASE Starts(table, table')
  <2>1. Fresh(table')  BY <1>7 DEF Starts, Running
  <2>. QED  BY <2>1 DEF Fresh, Prompted, Moves, NoTurn
<1>8. CASE DrainsOne /\ Head(table.inner).cmd # "OVER" /\ Acts(Popped, table')
  <2>1. Orderly(table)  BY <1>1, <1>2, <1>8, OverCmd
  <2>2. Sound(Popped) /\ Orderly(Popped)
    BY <1>1, <1>8, <2>1, PoppedSound, PoppedOrderly DEF DrainsOne
  <2>. QED  BY <1>8, <2>2, ActsMove
<1>9. CASE DrainsOne /\ Head(table.inner).cmd = "OVER"
             /\ Overs(Popped, Head(table.inner).type, table')
  <2>1. CASE Orderly(table)
    <3>1. /\ Sound(Popped) /\ Orderly(Popped) /\ Head(table.inner).type \in {2, 6}
          /\ NoTurn(Popped)
          /\ AllPlay(Popped) /\ Popped.state = "WAIT_QIANG" =>
                Head(table.inner).type = 6
          /\ AllPlay(Popped) /\ Popped.state = "PLAYING" =>
                Head(table.inner).type = 2
      BY <1>1, <1>9, <2>1, PoppedSound, PoppedOrderly DEF DrainsOne
    <3>2. table'.state # "UB"  BY DEF Running
    <3>. HIDE DEF Popped
    <3>. QED  BY <1>9, <3>1, <3>2, OversMove
  <2>2. CASE Late(table)
    <3>1. table' = Popped /\ Fresh(Popped)  BY <1>1, <1>9, <2>2, LateOver
    <3>. QED  BY <3>1 DEF Fresh, Prompted, Moves, NoTurn
  <2>. QED  BY <1>1, <2>1, <2>2
<1>. QED  BY <1>3, <1>4, <1>5, <1>6, <1>7, <1>8, <1>9, <1>10 DEF TableStep

MovesOn == Running => Moves(table) \/ refused # {}

(* Where only players sit down no seat is a robot.                         *)
NoRobots == \A s \in Seats : ~table.seats[s].robot

(* ... and none becomes one.                                               *)
LEMMA NoRobotsStay ==
    ASSUME RobotKinds \subseteq {FALSE}
    PROVE  IInv /\ RoundOrder /\ NoRobots /\ TableStep => NoRobots'
<1> SUFFICES ASSUME IInv, RoundOrder, NoRobots, TableStep PROVE NoRobots'
  OBVIOUS
<1>1. TRUE \notin RobotKinds  OBVIOUS
<1>2. NoNewRobots(table, table') => NoRobots'
  BY <1>1 DEF NoNewRobots, NoRobots
<1>3. CASE UNCHANGED vars  BY <1>3 DEF vars, NoRobots
<1>4. CASE TakesEvent \/ DrainsOne
  <2>1. /\ Sound(table) /\ OneTurn(table)
        /\ Orderly(table) \/ (batch = 0 /\ Late(table))
    BY <1>4 DEF TakesEvent, DrainsOne, RoundOrder, Running, IInv, TypeOK, Good, Sound
  <2>2. ASSUME NEW t, SameGame(table, t), Orderly(t), Acts(t, table')
        PROVE  NoRobots'
    <3>1. PICK s \in Seats, act \in ActTypes, cards \in Nat, token \in Nat :
             /\ IsPlayerAbleDoAction(t, s, act, cards, token)
             /\ t.state # "FINISH" => Acted(t, table', s, act, cards)
      BY <2>2 DEF Acts
    <3>2. t.state # "FINISH"
      BY <2>2, <3>1 DEF Orderly, NoTurn, IsPlayerAbleDoAction
    <3>3. TurnTaken(t, table')  BY <3>1, <3>2, ActedEnds
    <3>. QED  BY <2>2, <3>3 DEF TurnTaken, SameGame, NoRobots
  <2>3. SameGame(table, table)  BY DEF SameGame, SameTurn
  <2>4. DrainsOne => SameGame(table, Popped)
    BY <2>1, PoppedSound DEF DrainsOne
  <2>5. CASE Quietly(table, table')
    BY <2>5 DEF Quietly, Still, SameGame, NoRobots
  <2>6. CASE Disturbed(table, table') \/ Starts(table, table')
    BY <1>2, <2>6 DEF Disturbed, Starts
  <2>7. CASE TakesEvent /\ Acts(table, table')
    <3>1. Orderly(table)  BY <2>1, <2>7 DEF TakesEvent
    <3>. QED  BY <2>2, <2>3, <2>7, <3>1
  <2>8. CASE DrainsOne /\ Head(table.inner).cmd # "OVER" /\ Acts(Popped, table')
    <3>1. Orderly(table)
      <4>1. Late(table) => Head(table.inner) = OverMsg(2)  BY DEF Late
      <4>. QED  BY <2>1, <2>8, <4>1, OverCmd
    <3>2. Orderly(Popped)  BY <2>1, <2>8, <3>1, PoppedOrderly DEF DrainsOne
    <3>. QED  BY <2>2, <2>4, <2>8, <3>2
  <2>9. CASE DrainsOne /\ NoNewRobots(Popped, table')
    <3>1. NoNewRobots(table, table')
      BY <2>4, <2>9 DEF NoNewRobots, SameGame
    <3>. QED  BY <1>2, <3>1
  <2>. QED
    BY <1>3, <1>4, <2>5, <2>6, <2>7, <2>8, <2>9 DEF TableStep, Overs, Calm
<1>. QED  BY <1>3, <1>4 DEF TableStep

(* RoundMoves: in a round of three players somebody is always about to     *)
(* act, by himself, by the operation timer or by the automatic action of   *)
(* his trusteeship, or the event that asks the next seat is on its way;    *)
(* excepted are the bidding that is_trusteeship_error stops and a turn     *)
(* whose automatic play the card rules refused.                            *)
THEOREM RoundsMove ==
    ASSUME RobotKinds \subseteq {FALSE}
    PROVE  Spec /\ (Paced \/ []~OldEvent) => []RoundMoves
<1>1. Init => MovesOn /\ NoRobots /\ RefusedOpen
  <2> SUFFICES ASSUME Init PROVE ~AllPlay(table) /\ NoRobots /\ refused = {}
    BY DEF MovesOn, Moves, RefusedOpen
  <2>1. \A s \in Seats : table.seats[s] = EmptySeat  BY DEF Init
  <2>2. 0 \in Seats  BY DEF Seats, SeatNum
  <2>. QED  BY <2>1, <2>2 DEF AllPlay, NoRobots, EmptySeat, Init
<1>5. IInv /\ RefusedOpen /\ [Next]_vars => RefusedOpen'
  BY TableSteps, RefusedStayOpen
<1>2. IInv /\ RoundOrder /\ RefusedOpen /\ MovesOn /\ [Next]_vars => MovesOn'
  <2> SUFFICES ASSUME IInv, RoundOrder, RefusedOpen, MovesOn, [Next]_vars, Running'
               PROVE  Moves(table') \/ refused' # {}
    BY DEF MovesOn, Running, Moves, PlayersBacked, Stuck
  <2>1. TableStep  BY TableSteps
  <2>2. Running
    BY <2>1 DEF TableStep, TakesEvent, DrainsOne, vars, Running
  <2>. QED  BY <2>1, <2>2, MovesStay DEF MovesOn
<1>3. IInv /\ RoundOrder /\ NoRobots /\ [Next]_vars => NoRobots'
  BY TableSteps, NoRobotsStay
<1>4. IInv /\ RoundOrder /\ MovesOn /\ NoRobots => RoundMoves
  <2> SUFFICES ASSUME IInv, RoundOrder, MovesOn, NoRobots, InRound, refused = {}
               PROVE  Moving \/ (NobodyCalled /\ table.trust_err)
    BY DEF RoundMoves
  <2>1. /\ Running /\ AllPlay(table) /\ table.state \in {"WAIT_QIANG", "PLAYING"}
    BY DEF InRound, Intact, AllPlay
  <2>2. /\ PlayersBacked(table) /\ OneTurn(table)
        /\ NoTurn(table) => ~NoOver(table.inner) \/ Stuck(table)
    BY <2>1 DEF MovesOn, Moves, IInv, Good
  <2>3. CASE NoTurn(table)
    <3>1. CASE ~NoOver(table.inner)  BY <3>1 DEF NoOver, Moving
    <3>2. CASE Stuck(table)  BY <3>2 DEF Stuck, NobodyCalled
    <3>. QED  BY <2>2, <2>3, <3>1, <3>2
  <2>4. ASSUME NEW s \in Seats, table.seats[s].choices # {}
        PROVE  Moving
    <3>1. table.seats[s].hand >= 1
      <4>1. CASE Late(table)
        BY <4>1, TableAssumption DEF Late, Fresh
      <4>2. CASE Orderly(table) /\ table.state = "WAIT_QIANG"
        BY <2>1, <4>2, TableAssumption DEF Orderly, Bidding, BiddingAt
      <4>3. CASE Orderly(table) /\ table.state = "PLAYING"
        BY <2>1, <4>3, TableAssumption DEF Orderly, Playing
      <4>. QED  BY <2>1, <4>1, <4>2, <4>3 DEF RoundOrder
    <3>2. Occupied(table, s) /\ ~table.seats[s].robot
      BY <2>1 DEF Occupied, AllPlay, NoRobots
    <3>3. Backed(table, s)  BY <2>2, <2>4, <3>1, <3>2 DEF PlayersBacked
    <3>4. Open(table, s)  BY <2>2, <2>4 DEF OneTurn, Open
    <3>. QED  BY <3>3, <3>4 DEF Backed, ValidAuto, Moving
  <2>. QED  BY <2>2, <2>3, <2>4 DEF NoTurn, OneTurn
<1>. QED
  BY <1>1, <1>2, <1>3, <1>4, <1>5, Invariance, RoundOrdered, PTL DEF Spec

=============================================================================
