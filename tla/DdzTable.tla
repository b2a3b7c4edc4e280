------------------------------ MODULE DdzTable ------------------------------
(***************************************************************************)
(* One coin table of the Dou Di Zhu game server (src/svr/ddz_Coin_3): the  *)
(* table record CPBGameTable, the functions of TableLogic that play a      *)
(* round on it, the handlers that call them, the two timers that matter    *)
(* and the queue of inner messages through which a step of the round       *)
(* schedules the next one.                                                 *)
(*                                                                         *)
(* The server is single threaded.  Its reactor takes a batch of events     *)
(* (packets and timers) and then drains the inner queue, messages pushed   *)
(* while draining included; the queue is first in first out.               *)
(*                                                                         *)
(* Every operator named after a function of the source takes the table     *)
(* before the call and returns the table after it, so the composition of   *)
(* operators is the call graph of the code.  Cards are counted, not named: *)
(* which cards are legal is PokerLogic's business, so a player may play    *)
(* any positive number of cards he holds, and whether the rules refuse an  *)
(* automatic play is left open.                                            *)
(*                                                                         *)
(* Two limits of the process are not modelled: HandlerInnerMsg stops after *)
(* 100 inner messages, which all the tables of the process share, and it   *)
(* drops a message when no session is free.  The queue of the model is     *)
(* drained whole and loses nothing.                                        *)
(***************************************************************************)
EXTENDS Integers, Sequences, FiniteSets

CONSTANTS
    HandSize,      \* cards dealt to each seat (17 in DealHandCards)
    BottomSize,    \* cards left for the landlord (3)
    BatchSize,     \* bound: events the reactor takes between two drains
    MaxRound,      \* bound: rounds played on the table
    RobotKinds,    \* who sits down: FALSE a player, TRUE a robot account
    Dealers,       \* bound: the seats a draw of the dealer yields
    Trustees,      \* bound: the seats that ask for trusteeship
    LogoutStates,  \* bound: table states in which clients log out
    GmDissolves    \* bound: GM dissolutions that may be waiting

ASSUME TableAssumption ==
    /\ HandSize \in Nat \ {0} /\ BottomSize \in Nat
    /\ BatchSize \in Nat \ {0} /\ MaxRound \in Nat
    /\ RobotKinds \subseteq BOOLEAN
    /\ Dealers \subseteq 0 .. 2 /\ Trustees \subseteq 0 .. 2
    /\ GmDissolves \in Nat

SeatNum == 3                    \* CreateTableByP: set_seat_num(3)
Seats == 0 .. SeatNum - 1
NoSeat == -1
(* Definitions named M_... are mutants: the definition after them with a   *)
(* slip, by which a property shows that it can fail.  Nothing uses them.   *)
M_NextSeatNoWrap(s) == s + 1
NextSeat(s) == (s + 1) % SeatNum

PassActs == {"PASS", "BU_QIANG", "BU_JIAO"}      \* CheckActionIsPassAction
CallActs == {"QIANG", "JIAO"}
ActTypes == PassActs \cup CallActs \cup {"CHUPAI"}
NoAct == "NONE"

(* READY_TO_START is left within the handler that sets it, and SINGLE_OVER *)
(* is never entered: a coin table has config.round = 1, so every round is  *)
(* the last one.  "UB" stands for the process after it indexed seats(-1).  *)
TableStates == {"WAIT", "WAIT_QIANG", "PLAYING", "FINISH", "UB"}
SeatStates == {"NO_PLAYER", "WAIT_NEXT", "READY", "PLAYING"}

SeatRec == [state: SeatStates, robot: BOOLEAN, trust: BOOLEAN,
            times: Nat,          \* qiang_di_zhu_times
            is_jiao: BOOLEAN,    \* is_jiao_dizhu
            hand: Nat, token: Nat,
            choices: SUBSET ActTypes, det: BOOLEAN,
            buff: ActTypes \cup {NoAct}]     \* robot_action_buff

(* What the code reads of total_action_flows: the last entry, the seat of  *)
(* the last play that has cards (lead), the passes after it, whether       *)
(* somebody raised, and the single-over mark of the last entry.            *)
FlowRec == [act: ActTypes \cup {NoAct}, seat: Seats, over: BOOLEAN,
            lead: Seats \cup {NoSeat}, passes: Nat, qiang: BOOLEAN]

InnerMsg == [cmd: {"AUTO"}, seat: Seats, act: ActTypes, cards: Nat, token: Nat]
       \cup [cmd: {"OVER"}, type: {2, 6}]
       \cup [cmd: {"RESULT", "RECORD", "DISSOLVE"}]

TableRec == [state: TableStates, round: Nat,
             dealer: Seats \cup {NoSeat}, dealer2: Seats \cup {NoSeat},
             jiao: Seats \cup {NoSeat}, last_winner: Seats \cup {NoSeat},
             op: Seats \cup {NoSeat}, trust_err: BOOLEAN,
             seats: [Seats -> SeatRec], flow: FlowRec,
             off_timer: BOOLEAN,      \* m_CheckUserOffTimer is running
             robot_timer: BOOLEAN,    \* m_RobotTimer is running
             inner: Seq(InnerMsg)]    \* GameHandlerProxy::_inner_msg_queue

VARIABLES table,       \* the table, with the inner messages it pushed
          dissolving,  \* dissolve sessions waiting for their save
          batch,       \* events the reactor may still take before it drains
          refused      \* history: seats whose automatic play the card rules
                       \* refused and whose turn is open since

vars == <<table, dissolving, batch, refused>>

-----------------------------------------------------------------------------
(* Small pieces *)

Occupied(t, s) == t.seats[s].state # "NO_PLAYER"

Open(t, s) == t.seats[s].choices # {} /\ ~t.seats[s].det

NoFlow == [act |-> NoAct, seat |-> 0, over |-> FALSE,
           lead |-> NoSeat, passes |-> 0, qiang |-> FALSE]

OverMsg(type) == [cmd |-> "OVER", type |-> type]

AutoMsg(s, act, cards, token) ==
    [cmd |-> "AUTO", seat |-> s, act |-> act, cards |-> cards, token |-> token]

PushInnerMsg(t, m) == [t EXCEPT !.inner = Append(@, m)]

M_ResetAllButLast(t) ==
    [t EXCEPT !.seats = [s \in Seats |-> IF s = SeatNum - 1 THEN t.seats[s]
        ELSE [t.seats[s] EXCEPT !.choices = {}, !.det = FALSE]]]

ResetPlayerChoice(t) ==
    [t EXCEPT !.seats = [s \in Seats |->
        [t.seats[s] EXCEPT !.choices = {}, !.det = FALSE]]]

AppendActionFlow(t, s, act, over) ==
    [t EXCEPT !.flow = [act |-> act, seat |-> s, over |-> over, lead |-> @.lead,
                        passes |-> IF act = "PASS" THEN @.passes + 1 ELSE @.passes,
                        qiang |-> @.qiang \/ act = "QIANG"]]

-----------------------------------------------------------------------------
(* The end of a round *)

GameFinish(t) ==
    PushInnerMsg(PushInnerMsg(t, [cmd |-> "RECORD"]), [cmd |-> "DISSOLVE"])

M_GameOverOverwritesWinner(t) ==
    IF t.state = "FINISH" THEN t
    ELSE GameFinish(PushInnerMsg([t EXCEPT !.last_winner = NextSeat(t.dealer),
                                           !.state = "FINISH"],
                                 [cmd |-> "RESULT"]))

GameOver(t) ==
    IF t.state = "FINISH" THEN t
    ELSE GameFinish(PushInnerMsg(
            [t EXCEPT !.last_winner = IF @ = NoSeat THEN NextSeat(t.dealer) ELSE @,
                      !.state = "FINISH"],
            [cmd |-> "RESULT"]))

CheckIsTrusteeshipOver(t) == \A s \in Seats : t.seats[s].trust

(* DealWithTrusteeshipAfterAct and what its callers do when it returns     *)
(* false: push the OVER event that continues the round (none for type 0).  *)
AfterAct(t, type) ==
    LET u == [t EXCEPT !.off_timer = FALSE]
    IN  IF CheckIsTrusteeshipOver(u) /\ u.state # "FINISH"
        THEN GameOver([u EXCEPT !.trust_err = TRUE])
        ELSE IF type = 0 THEN u ELSE PushInnerMsg(u, OverMsg(type))

-----------------------------------------------------------------------------
(* Offering choices to a seat *)

DoDefaultAction(t, s) ==
    LET u == [t EXCEPT !.seats[s].trust = TRUE]
        cs == t.seats[s].choices
        act == IF cs \cap PassActs # {} THEN CHOOSE a \in cs : a \in PassActs
               ELSE CHOOSE a \in cs : TRUE
        cards == IF act = "CHUPAI" /\ t.seats[s].hand >= 1 THEN 1 ELSE 0
    IN  IF cs = {} THEN u
        ELSE PushInnerMsg(u, AutoMsg(s, act, cards, t.seats[s].token))

(* NotifyOperationChoiceForSeat: the 15 second timer is started here and   *)
(* nowhere else, and not for an empty seat.                                *)
NotifyOperationChoice(t, s) ==
    IF Occupied(t, s) /\ Open(t, s) THEN [t EXCEPT !.off_timer = TRUE] ELSE t

(* The behaviour tree of a robot leaves one of the seat's choices in       *)
(* robot_action_buff, or finds nothing and leaves the buffer as it was.    *)
RobotDoAction(t, s, pick) ==
    LET found == {a \in t.seats[s].choices :
                    pick = IF a \in PassActs THEN "pass" ELSE "play"}
        u == IF found = {} THEN t
             ELSE [t EXCEPT !.seats[s].buff = CHOOSE a \in found : TRUE]
    IN  IF u.seats[s].buff = NoAct THEN u ELSE [u EXCEPT !.robot_timer = TRUE]

M_TrusteeLeftToItself(t, s, pick) ==
    IF t.seats[s].robot THEN RobotDoAction(t, s, pick)
    ELSE IF t.seats[s].trust THEN t ELSE NotifyOperationChoice(t, s)

OnOperateAfterAddChoice(t, s, pick) ==
    IF t.seats[s].robot THEN RobotDoAction(t, s, pick)
    ELSE IF t.seats[s].trust THEN DoDefaultAction(t, s)
    ELSE NotifyOperationChoice(t, s)

-----------------------------------------------------------------------------
(* Starting a round and choosing the landlord *)

(* A seat is offered choices under a new action_token. *)
Asked(seat, acts) == [seat EXCEPT !.choices = acts, !.token = @ + 1]

(* One turn of the bidding: seat s is asked. *)
OfferBid(t, s, acts, pick) ==
    OnOperateAfterAddChoice(
        [t EXCEPT !.op = s, !.seats[s] = Asked(@, acts)], s, pick)

(* A seat's first turn: the seat at jiao_dizhu_index may call, the index   *)
(* moves on, and every other seat may raise.                               *)
FirstBid(t, s, pick) ==
    IF t.jiao = s
    THEN OfferBid([t EXCEPT !.jiao = NextSeat(s)], s, {"JIAO", "BU_JIAO"}, pick)
    ELSE OfferBid(t, s, {"QIANG", "BU_QIANG"}, pick)

DealtSeat(seat) ==
    [seat EXCEPT !.state = "PLAYING", !.trust = FALSE, !.times = 0,
                 !.is_jiao = FALSE, !.hand = HandSize, !.token = 0,
                 !.choices = {}, !.det = FALSE]

(* GameStart_1, GameStart_1_3 and the call of GameStart_2 they end with.   *)
(* All seats have bid zero times there, so GameStart_2 asks the dealer.    *)
(* Only the first round draws a dealer; a later one takes last_winner.     *)
GameStart_1(t, drawn, pick) ==
    LET round == t.round + 1
        dealer == IF round = 1 THEN drawn ELSE t.last_winner
        dealt == [t EXCEPT !.round = round, !.state = "WAIT_QIANG",
                           !.flow = NoFlow, !.dealer = dealer, !.jiao = dealer,
                           !.dealer2 = NoSeat, !.last_winner = NoSeat,
                           !.op = NoSeat,
                           !.seats = [s \in Seats |-> DealtSeat(t.seats[s])]]
    IN  IF dealer = NoSeat THEN [dealt EXCEPT !.state = "UB"]
        ELSE FirstBid(dealt, dealer, pick)

M_GameStart3NoFlow(t, pick) ==
    LET u == [ResetPlayerChoice(t) EXCEPT
                 !.dealer = t.dealer2, !.dealer2 = t.dealer, !.op = t.dealer2,
                 !.state = "PLAYING",
                 !.seats[t.dealer2].hand = @ + BottomSize]
    IN  OnOperateAfterAddChoice(
            [u EXCEPT !.seats[t.dealer2] = Asked(@, {"CHUPAI"})], t.dealer2, pick)

(* The landlord takes the bottom cards (GameStart_3) and leads             *)
(* (GameStart_5); dealer_index_2 held the last seat that called or raised. *)
GameStart_3(t, pick) ==
    LET lord == t.dealer2
        u == [ResetPlayerChoice(t) EXCEPT
                 !.dealer = lord, !.dealer2 = t.dealer, !.op = lord,
                 !.state = "PLAYING",
                 !.seats[lord].hand = @ + BottomSize]
        v == [u EXCEPT !.seats[lord] = Asked(@, {"CHUPAI"})]
    IN  OnOperateAfterAddChoice(
            AppendActionFlow(v, lord, "CHUPAI", FALSE), lord, pick)

(* The next step of the bidding: the next seat from the dealer on that has *)
(* not bid; else the caller once more if somebody raised; else a new deal  *)
(* if nobody called; else the play.                                        *)
GameStart_2(t, drawn, pick) ==
    LET u == [ResetPlayerChoice(t) EXCEPT !.state = "WAIT_QIANG"]
        at(i) == (u.dealer + i) % SeatNum
        waiting == {i \in Seats : u.seats[at(i)].times = 0}
        first == CHOOSE i \in waiting : \A j \in waiting : i <= j
    IN  IF waiting # {} THEN FirstBid(u, at(first), pick)
        ELSE IF u.seats[u.jiao].is_jiao /\ u.flow.qiang
        THEN OfferBid([u EXCEPT !.seats[u.jiao].is_jiao = FALSE], u.jiao,
                      {"QIANG", "BU_QIANG"}, pick)
        ELSE IF u.dealer2 = NoSeat
        THEN IF u.trust_err THEN u
             ELSE GameStart_1([u EXCEPT !.round = @ - 1], drawn, pick)
        ELSE GameStart_3(u, pick)

ReadyToStart(t) == \A s \in Seats : t.seats[s].state = "READY"

-----------------------------------------------------------------------------
(* A seat acts *)

Bid(seat, act) ==
    [seat EXCEPT !.times = @ + IF act = "QIANG" THEN 10 ELSE 1,
                 !.is_jiao = @ \/ act = "JIAO"]

PlayerDoActionQiangDiZhu(t, s, act) ==
    LET u == [AppendActionFlow(t, s, act, FALSE) EXCEPT
                 !.seats[s] = Bid(@, act),
                 !.jiao = IF act = "JIAO" THEN s ELSE @,
                 !.dealer2 = s]
    IN  AfterAct(u, IF t.state = "WAIT_QIANG" THEN 6 ELSE 0)

M_SingleOverAfterOnePass(t, s) == NextSeat(t.flow.lead) = s
CheckSingleOver(t, s) == t.flow.lead = NextSeat(s)

(* Outside the bidding the undetermined play offered to the seat is taken  *)
(* out of the flow (RemoveActionFlow) and the pass takes its place.        *)
PlayerDoActionPass(t, s, act) ==
    IF t.state = "WAIT_QIANG"
    THEN AfterAct([AppendActionFlow(t, s, act, FALSE) EXCEPT
                      !.seats[s].times = @ + 1], 6)
    ELSE AfterAct(AppendActionFlow(t, s, act, CheckSingleOver(t, s)), 2)

PlayerDoActionChupai(t, s, cards) ==
    LET u == [t EXCEPT !.seats[s].hand = @ - cards]
    IN  IF u.seats[s].hand = 0
        THEN GameOver([u EXCEPT !.last_winner = s])
        ELSE AfterAct(u, 2)

PlayerDoAction(t, s, act, cards) ==
    ResetPlayerChoice(
        IF act = "CHUPAI" THEN PlayerDoActionChupai(t, s, cards)
        ELSE IF act \in PassActs THEN PlayerDoActionPass(t, s, act)
        ELSE PlayerDoActionQiangDiZhu(t, s, act))

(* The card rules speak before the choice is marked determined.  The cards *)
(* of a legal play are then written into the last entry of the flow, and   *)
(* the request fails, half done, when that entry is not a play.            *)
DetermineAction(t, s, act) ==
    LET u == [t EXCEPT !.seats[s].det = TRUE]
    IN  IF act = "CHUPAI" /\ t.flow.act = "CHUPAI"
        THEN [u EXCEPT !.flow.lead = t.flow.seat, !.flow.passes = 0]
        ELSE u

DetermineFails(t, act) == act = "CHUPAI" /\ t.flow.act \notin {"CHUPAI", NoAct}

M_AbleWithoutOpenTurn(t, s, act, cards, token) ==
    /\ t.seats[s].token = token
    /\ act = "CHUPAI" => cards \in 1 .. t.seats[s].hand

IsPlayerAbleDoAction(t, s, act, cards, token) ==
    /\ Open(t, s) /\ act \in t.seats[s].choices
    /\ t.seats[s].token = token
    /\ act = "CHUPAI" => cards \in 1 .. t.seats[s].hand

(* What DetermineAction refuses: a play against the card rules.            *)
RulesRefuse(act, legal) == act = "CHUPAI" /\ ~legal

(* CRequestDoAction and CInterEventAutoDoAction past their table checks;   *)
(* legal is what AnalyseFromCards says of the cards.                       *)
TryAction(t, s, act, cards, token, legal) ==
    IF ~IsPlayerAbleDoAction(t, s, act, cards, token) THEN t
    ELSE IF RulesRefuse(act, legal) THEN t
    ELSE LET u == DetermineAction(t, s, act)
         IN  IF DetermineFails(t, act) THEN u
             ELSE PlayerDoAction(u, s, act, cards)

-----------------------------------------------------------------------------
(* The play moves on *)

ProcessChuPaiForNextSeat(t, pick) ==
    LET s == NextSeat(t.flow.seat)
        acts == IF t.flow.lead \in {NoSeat, s} THEN {"CHUPAI"}
                ELSE {"CHUPAI", "PASS"}
        u == [ResetPlayerChoice(t) EXCEPT !.op = s, !.seats[s].choices = acts]
    IN  IF t.flow.act = NoAct THEN t
        ELSE OnOperateAfterAddChoice(
                AppendActionFlow(u, s, "CHUPAI", FALSE), s, pick)

OnDoActionOver(t, type, drawn, pick) ==
    IF type = 2 THEN ProcessChuPaiForNextSeat(t, pick)
    ELSE GameStart_2(t, drawn, pick)

-----------------------------------------------------------------------------
(* Timers *)

M_TimeOutOnlyTrusts(t, s) ==
    IF Occupied(t, s) /\ Open(t, s) THEN [t EXCEPT !.seats[s].trust = TRUE] ELSE t

TimeOutSeat(t, s) ==
    IF Occupied(t, s) /\ Open(t, s) THEN DoDefaultAction(t, s) ELSE t

OnOperationTimeOut(t) == TimeOutSeat(TimeOutSeat(TimeOutSeat(t, 0), 1), 2)

(* ProcessAutoAction replays the choice of the buffered type.  Only the    *)
(* behaviour tree put cards into a CHUPAI choice: for a seat that a player *)
(* took over from a robot there are none.                                  *)
RobotSeat(t, s, cards) ==
    LET seat == t.seats[s]
        u == IF seat.buff \in seat.choices /\ ~seat.det
             THEN PushInnerMsg(t, AutoMsg(s, seat.buff,
                    IF seat.buff = "CHUPAI" /\ seat.robot THEN cards ELSE 0,
                    seat.token))
             ELSE t
    IN  [u EXCEPT !.seats[s].buff = NoAct]

M_RobotTimerSkipsLast(t, cards) == RobotSeat(RobotSeat(t, 0, cards), 1, cards)

OnRobotTimerTimeOut(t, cards) ==
    RobotSeat(RobotSeat(RobotSeat(t, 0, cards), 1, cards), 2, cards)

-----------------------------------------------------------------------------
(* Players come and go *)

FindEmptySeatInTable(t) ==
    LET empty == {s \in Seats : ~Occupied(t, s)}
    IN  CHOOSE s \in empty : \A r \in empty : s <= r

(* SitDownOnTable and the tail of CRequestEnterTable::ProcessUpdateSucc:   *)
(* whatever the table was doing, it is set back to WAIT.                   *)
SitDownOnTable(t, s, robot) ==
    [t EXCEPT !.seats[s].state = "WAIT_NEXT", !.seats[s].robot = robot,
              !.state = "WAIT"]

(* LogoutTable keeps the user record of the seat (and so is_robot), the    *)
(* robot buffer and every field of the table.                              *)
ClearedSeat(seat) ==
    [seat EXCEPT !.state = "NO_PLAYER", !.trust = FALSE, !.times = 0,
                 !.is_jiao = FALSE, !.hand = 0, !.token = 0,
                 !.choices = {}, !.det = FALSE]

LogoutTable(t, s) == [t EXCEPT !.seats[s] = ClearedSeat(@)]

(* TableManager::DissolveTable: the seats are emptied, the table is kept.  *)
DissolveTable(t) ==
    [t EXCEPT !.off_timer = FALSE,
              !.seats = [s \in Seats |->
                  IF Occupied(t, s)
                  THEN [ClearedSeat(t.seats[s]) EXCEPT !.robot = FALSE]
                  ELSE t.seats[s]]]

-----------------------------------------------------------------------------
(* Init and the actions *)

EmptySeat ==
    [state |-> "NO_PLAYER", robot |-> FALSE, trust |-> FALSE, times |-> 0,
     is_jiao |-> FALSE, hand |-> 0, token |-> 0, choices |-> {},
     det |-> FALSE, buff |-> NoAct]

(* CPBGameTable::Init; the fields it does not set have protobuf's zero.    *)
Init ==
    /\ \E d \in Dealers : table =
         [state |-> "WAIT", round |-> 0, dealer |-> d, dealer2 |-> 0,
          jiao |-> 0, last_winner |-> NoSeat, op |-> 0, trust_err |-> FALSE,
          seats |-> [s \in Seats |-> EmptySeat], flow |-> NoFlow,
          off_timer |-> FALSE, robot_timer |-> FALSE, inner |-> << >>]
    /\ dissolving = 0
    /\ batch = BatchSize
    /\ refused = {}

Running == table.state # "UB"

(* The refused turns that are still open; a new round opens a new turn.    *)
StillRefused(t) == {s \in refused : Open(t, s) /\ t.round = table.round}

(* An event the reactor takes: the next batch begins when nothing is left  *)
(* to drain.                                                               *)
Event(t) ==
    /\ Running /\ batch > 0
    /\ table' = t
    /\ refused' = StillRefused(t)
    /\ batch' = IF t.inner = << >> THEN BatchSize ELSE batch - 1

(* A user whose position was saved at this table enters it: whatever the   *)
(* table's state, while a seat is empty.                                   *)
SitDown(robot) ==
    /\ \E s \in Seats : ~Occupied(table, s)
    /\ Event(SitDownOnTable(table, FindEmptySeatInTable(table), robot))
    /\ UNCHANGED dissolving

(* CRequestReadyForGame *)
Ready(s, ready, drawn, pick) ==
    /\ table.state = "WAIT"
    /\ table.seats[s].state = IF ready THEN "WAIT_NEXT" ELSE "READY"
    /\ LET u == [table EXCEPT !.seats[s].state =
                    IF ready THEN "READY" ELSE "WAIT_NEXT"]
       IN  IF ReadyToStart(u)
           THEN u.round < MaxRound /\ Event(GameStart_1(u, drawn, pick))
           ELSE Event(u)
    /\ UNCHANGED dissolving

(* CRequestDoAction: a request for an offered choice with the seat's       *)
(* token.  One whose cards are not legal is answered with an error and     *)
(* changes nothing.                                                        *)
RequestDoAction(s, act, cards) ==
    /\ Occupied(table, s)
    /\ IsPlayerAbleDoAction(table, s, act, cards, table.seats[s].token)
    /\ Event(TryAction(table, s, act, cards, table.seats[s].token, TRUE))
    /\ UNCHANGED dissolving

(* CRequestTrusteeship *)
RequestTrusteeship(s) ==
    /\ Occupied(table, s) /\ table.state # "WAIT"
    /\ Event([table EXCEPT !.seats[s].trust = ~@])
    /\ UNCHANGED dissolving

(* CRequestLogoutTable once the position is saved, or the save failed.     *)
LogoutDone(s) ==
    /\ Occupied(table, s) /\ table.state \in LogoutStates
    /\ Event(LogoutTable(table, s))
    /\ UNCHANGED dissolving

CheckUserOffTimeOut ==
    /\ table.off_timer
    /\ Event(OnOperationTimeOut([table EXCEPT !.off_timer = FALSE]))
    /\ UNCHANGED dissolving

RobotTimeOut(cards) ==
    /\ table.robot_timer
    /\ Event(OnRobotTimerTimeOut([table EXCEPT !.robot_timer = FALSE], cards))
    /\ UNCHANGED dissolving

(* CGmReuqestDissolveTable: an operator dissolves the table as it stands.  *)
GmRequestDissolveTable ==
    /\ dissolving < GmDissolves
    /\ \E s \in Seats : Occupied(table, s)
    /\ Event(table)
    /\ dissolving' = dissolving + 1

(* The update of a dissolve session succeeded, failed or timed out.        *)
DissolveDone ==
    /\ dissolving > 0
    /\ dissolving' = dissolving - 1
    /\ Event(DissolveTable(table))

(* The reactor drains the head of the inner queue, and stays with it; r    *)
(* are the refused turns after that.                                       *)
Drain(t, r) ==
    /\ Running /\ table.inner # << >>
    /\ table' = t
    /\ refused' = r
    /\ batch' = IF t.inner = << >> THEN BatchSize ELSE 0

Popped == [table EXCEPT !.inner = Tail(@)]

(* CInterEventAutoDoAction.  DoDefaultAction plays the first card, with 1  *)
(* and 15 for the two jokers, which AnalyseFromCards refuses, and a robot  *)
(* may choose what it refuses, too.  The handler then just returns: the    *)
(* turn stays open, and nothing but a request of its seat goes on with it. *)
InnerAuto(legal) ==
    /\ table.inner # << >> /\ Head(table.inner).cmd = "AUTO"
    /\ LET m == Head(table.inner)
           t == TryAction(Popped, m.seat, m.act, m.cards, m.token, legal)
           refuses == /\ IsPlayerAbleDoAction(Popped, m.seat, m.act, m.cards, m.token)
                      /\ RulesRefuse(m.act, legal)
       IN  Drain(t, StillRefused(t) \cup IF refuses THEN {m.seat} ELSE {})
    /\ UNCHANGED dissolving

(* The turn an OVER event opens has not been refused.                      *)
InnerOver(drawn, pick) ==
    /\ table.inner # << >> /\ Head(table.inner).cmd = "OVER"
    /\ Drain(OnDoActionOver(Popped, Head(table.inner).type, drawn, pick), {})
    /\ UNCHANGED dissolving

(* The settlement and the record of the round do not touch the table.      *)
InnerReport ==
    /\ table.inner # << >> /\ Head(table.inner).cmd \in {"RESULT", "RECORD"}
    /\ Drain(Popped, StillRefused(Popped))
    /\ UNCHANGED dissolving

(* CInnerDissolveTable::ProcessRequestMsg: a save for every seated player; *)
(* with nobody seated there is no save and the session just ends.          *)
InnerDissolve ==
    /\ table.inner # << >> /\ Head(table.inner).cmd = "DISSOLVE"
    /\ Drain(Popped, StillRefused(Popped))
    /\ dissolving' = IF \E s \in Seats : Occupied(table, s)
                     THEN dissolving + 1 ELSE dissolving

Picks == IF TRUE \in RobotKinds THEN {"pass", "play", "none"} ELSE {"none"}
Cards == 0 .. HandSize + BottomSize

Client ==
    \/ \E r \in RobotKinds : SitDown(r)
    \/ \E s \in Seats, d \in Dealers, p \in Picks : Ready(s, TRUE, d, p)
    \/ \E s \in Seats : Ready(s, FALSE, 0, "none")
    \/ \E s \in Seats, a \in ActTypes :
          \E k \in IF a = "CHUPAI" THEN Cards ELSE {0} : RequestDoAction(s, a, k)
    \/ \E s \in Trustees : RequestTrusteeship(s)
    \/ \E s \in Seats : LogoutDone(s)

Timer == CheckUserOffTimeOut \/ \E k \in Cards : RobotTimeOut(k)

Inner ==
    \/ \E legal \in BOOLEAN : InnerAuto(legal)
    \/ \E d \in Dealers, p \in Picks : InnerOver(d, p)
    \/ InnerReport
    \/ InnerDissolve

Next == Client \/ Timer \/ Inner \/ GmRequestDissolveTable \/ DissolveDone

Spec == Init /\ [][Next]_vars

(* The reactor drains its queue and fires the operation timer.             *)
Fairness == WF_vars(Inner) /\ WF_vars(CheckUserOffTimeOut)

FairSpec == Spec /\ Fairness

-----------------------------------------------------------------------------
(* Properties *)

TypeOK ==
    /\ table \in TableRec
    /\ dissolving \in Nat
    /\ batch \in 0 .. BatchSize
    /\ refused \subseteq Seats

(* Only the seat at operation_index is ever offered choices: however turns *)
(* time out, are acted on twice, or their seats are emptied, no second     *)
(* seat can act.                                                           *)
SingleTurn ==
    \A s \in Seats : table.seats[s].choices # {} => s = table.op

(* A seat that may play finds its own undetermined play as the last entry  *)
(* of the action flow, so DetermineAction, which looks the flow up after   *)
(* it has marked the choice determined, never fails there and never leaves *)
(* a turn that is marked and was not played.                               *)
PlayHasOpenFlow ==
    \A s \in Seats :
        /\ ~table.seats[s].det
        /\ "CHUPAI" \in table.seats[s].choices =>
               table.flow.act = "CHUPAI" /\ table.flow.seat = s

(* The round moves by one baton: an open turn or one OVER event on its way *)
(* to open the next, never both and never two, whatever the interleaving   *)
(* of requests, timers, logouts and the dissolution with the inner queue.  *)
Batons ==
    Cardinality({s \in Seats : Open(table, s)})
  + Cardinality({i \in DOMAIN table.inner : table.inner[i].cmd = "OVER"})

OneBaton == Running => Batons <= 1

(* All three seats are the ones the round was dealt to. *)
Intact == \A s \in Seats : table.seats[s].state = "PLAYING"

InRound == Running /\ Intact /\ table.state \in {"WAIT_QIANG", "PLAYING"}

(* Somebody moves the round: the open turn has the operation timer, an     *)
(* automatic action or the robot timer behind it, or an OVER event is on   *)
(* its way.  Two exceptions: a bidding in which nobody called after a      *)
(* round that ended by trusteeship, where GameStart_2 returns without a    *)
(* turn; and a turn whose automatic play the card rules refused, which     *)
(* only its player can still take.                                         *)
Moving ==
    \/ \E i \in DOMAIN table.inner : table.inner[i].cmd \in {"OVER", "AUTO"}
    \/ \E s \in Seats :
          Open(table, s) /\ (table.off_timer \/ (table.seats[s].robot /\ table.robot_timer))

NobodyCalled ==
    /\ table.state = "WAIT_QIANG" /\ table.dealer2 = NoSeat
    /\ \A s \in Seats : table.seats[s].times > 0

RoundMoves ==
    InRound => Moving \/ (NobodyCalled /\ table.trust_err) \/ refused # {}

(* The three seats share one robot timer, restarted by every robot turn and *)
(* stopped by none: a robot that chose an action is never left waiting for *)
(* a timer that has already fired for another seat.                        *)
RobotActsOnItsBuffer ==
    InRound => \A s \in Seats :
        Open(table, s) /\ table.seats[s].robot /\ table.seats[s].buff # NoAct =>
            \/ table.robot_timer
            \/ \E i \in DOMAIN table.inner :
                  table.inner[i].cmd = "AUTO" /\ table.inner[i].seat = s

(* A trick: after a play by lead the other two seats may pass, the pass    *)
(* that is marked single-over is the second one, and a seat must play      *)
(* exactly when it leads, that is after two passes or at the first turn.   *)
TrickEndsAfterTwoPasses ==
    InRound /\ table.state = "PLAYING" =>
        /\ table.flow.passes <= 2
        /\ table.flow.act = "PASS" => (table.flow.over <=> table.flow.passes = 2)
        /\ \A s \in Seats : Open(table, s) =>
              ("PASS" \notin table.seats[s].choices
                 <=> table.flow.lead = NoSeat \/ table.flow.passes = 2)

(* The game the three seats play, read off the table.                      *)
GameStage ==
    IF ~Intact \/ table.state \in {"WAIT", "UB"} THEN "none"
    ELSE [WAIT_QIANG |-> "bidding", PLAYING |-> "play", FINISH |-> "over"][table.state]

BidsMade ==
    Cardinality({s \in Seats : table.seats[s].times > 0})
  + Cardinality({s \in Seats : table.seats[s].times \in {2, 11}})

GameBid ==
    IF GameStage = "bidding"
    THEN [first |-> table.dealer, count |-> BidsMade,
          caller |-> IF table.dealer2 = NoSeat THEN NoSeat ELSE table.jiao,
          raised |-> table.flow.qiang, last |-> table.dealer2]
    ELSE [first |-> NoSeat, count |-> 0, caller |-> NoSeat, raised |-> FALSE,
          last |-> NoSeat]

GameLord == IF GameStage = "play" THEN table.dealer ELSE NoSeat
GameHands == [s \in Seats |-> IF GameStage = "none" THEN 0 ELSE table.seats[s].hand]
GameLeader == IF GameStage \in {"play", "over"} THEN table.flow.lead ELSE NoSeat
GamePasses == IF GameStage \in {"play", "over"} THEN table.flow.passes ELSE 0
GameWinner == IF GameStage = "over" THEN table.last_winner ELSE NoSeat

Game == INSTANCE DdzRules WITH
    Nobody <- NoSeat, stage <- GameStage, bid <- GameBid, lord <- GameLord,
    hands <- GameHands, leader <- GameLeader, passes <- GamePasses,
    winner <- GameWinner

(* The table plays the game of DdzRules: whichever of requests, timers,    *)
(* trusteeships and inner messages move it, the seats bid in their order,  *)
(* the last who called or raised leads with the bottom cards, nobody plays *)
(* or passes out of turn or passes a trick he leads, and who plays his     *)
(* last card wins.                                                         *)
PlaysTheGame == Game!Spec

(* The play of a round ends, whatever the players do or fail to do: the    *)
(* seat that leads must play, and a silent seat is played for.  Left where *)
(* it is are only a table whose seats are cleared (by the session that     *)
(* still dissolves the round before) and a turn whose automatic play the   *)
(* card rules have refused; once its player has played, the play goes on   *)
(* to its end or to the next refusal.                                      *)
PlayEnds ==
    (table.state = "PLAYING")
        ~> (table.state # "PLAYING" \/ ~Intact \/ refused # {})
=============================================================================
