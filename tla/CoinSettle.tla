----------------------------- MODULE CoinSettle -----------------------------
(***************************************************************************)
(* The settlement of the rounds of one coin table: AnalyzeHuStyles writes  *)
(* what each seat wins or loses, CInnerUpdateCoinMatchResult reads the     *)
(* coins of the seated users, computes what can be paid, updates the coins *)
(* at the user server, reads them again and tells everybody the result.    *)
(* The handler waits for answers three times; meanwhile users leave, sit   *)
(* down, are dissolved and play the next round on the same seats.          *)
(*                                                                         *)
(* fee() of a coin table is set nowhere, so the fee field of every update  *)
(* is zero, which OnUpdateUserInfo skips; it is left out.                  *)
(***************************************************************************)
EXTENDS Integers, FiniteSets

CONSTANTS
    Users,      \* user ids
    None,       \* uid 0 of a seat nobody sat at since it was cleared
    Scores,     \* what a farmer may play for: single_score
    Purses,     \* the coins users may have
    MaxRounds,  \* bound: rounds played, each with a session of its own
    MaxLeaves   \* bound: logouts and dissolutions

Seats == 0 .. 2
Uids == Users \cup {None}

VARIABLES
    seats,     \* uid of user(), whether the state is not NO_PLAYER, and
               \* coins_change_value of win_info()
    playing,   \* a round is on
    coins,     \* coins() of each user at the user server
    sessions,  \* the settle session of each round
    requests,  \* reads and updates on their way to the user server
    answers,   \* and its answers
    told,      \* history: the results told to clients
    rounds, leaves
vars == <<seats, playing, coins, sessions, requests, answers, told, rounds, leaves>>
table == <<seats, playing, rounds, leaves>>
net == <<requests, answers>>

EmptySeat == [uid |-> None, taken |-> FALSE, value |-> 0]
NoResult == [uid |-> None, change |-> 0, after |-> 0]

(* at: what the handler waits for; wait: the users who have not answered;  *)
(* known: _kvdb_uid_data_map, zero by default; results: _notify_msg.       *)
NewSession ==
    [at |-> "none", wait |-> {}, known |-> [u \in Uids |-> 0],
     results |-> [i \in Seats |-> NoResult]]

Init ==
    /\ seats = [i \in Seats |-> EmptySeat]
    /\ playing = FALSE
    /\ coins \in [Users -> Purses]
    /\ sessions = [n \in 1 .. MaxRounds |-> NewSession]
    /\ requests = {} /\ answers = {} /\ told = {}
    /\ rounds = 0 /\ leaves = 0

-----------------------------------------------------------------------------
(* The table                                                               *)

SitDown(i, u) ==
    /\ ~seats[i].taken
    /\ \A j \in Seats : seats[j].taken => seats[j].uid # u
    /\ seats' = [seats EXCEPT ![i].uid = u, ![i].taken = TRUE]
    /\ UNCHANGED <<playing, coins, sessions, requests, answers, told, rounds, leaves>>

(* GameStart_1 clears the win_info of every seat.                          *)
GameStart ==
    /\ ~playing /\ rounds < MaxRounds
    /\ \A i \in Seats : seats[i].taken
    /\ seats' = [i \in Seats |-> [seats[i] EXCEPT !.value = 0]]
    /\ playing' = TRUE /\ rounds' = rounds + 1
    /\ UNCHANGED <<coins, sessions, requests, answers, told, leaves>>

(* LogoutTable leaves user() as it is, DissolveTable clears it.            *)
LogoutTable(i) ==
    /\ seats[i].taken /\ leaves < MaxLeaves
    /\ seats' = [seats EXCEPT ![i] =
                    [uid |-> @.uid, taken |-> FALSE, value |-> 0]]
    /\ leaves' = leaves + 1
    /\ UNCHANGED <<playing, coins, sessions, requests, answers, told, rounds>>

DissolveTable ==
    /\ leaves < MaxLeaves
    /\ seats' = [i \in Seats |-> IF seats[i].taken THEN EmptySeat ELSE seats[i]]
    /\ leaves' = leaves + 1
    /\ UNCHANGED <<playing, coins, sessions, requests, answers, told, rounds>>

(* AnalyzeHuStyles: coins_change_value is set in the loop over the seats   *)
(* that skips the dealer.                                                  *)
AnalyzeHuStyles(dealer, dealer_win, single_score) ==
    [i \in Seats |->
        IF i = dealer THEN seats[i]
        ELSE [seats[i] EXCEPT !.value =
                IF dealer_win THEN -single_score[i] ELSE single_score[i]]]

(* GameOver pushes SSInnerUpdateMatchResult, drained at "pushed": a coin   *)
(* table has one round, so every round is its last (is_finished).          *)
RoundEnds ==
    /\ playing /\ playing' = FALSE
    /\ sessions' = [sessions EXCEPT ![rounds].at = "pushed"]
    /\ UNCHANGED <<coins, requests, answers, told, rounds, leaves>>

GameOver(dealer, dealer_win, single_score) ==
    /\ RoundEnds
    /\ seats' = AnalyzeHuStyles(dealer, dealer_win, single_score)

(* All three in trusteeship: last_winner is -1, and only final_score is    *)
(* set.                                                                    *)
GameOverUnplayed ==
    /\ RoundEnds
    /\ UNCHANGED seats

-----------------------------------------------------------------------------
(* CInnerUpdateCoinMatchResult                                             *)

Read(n, us) == {[session |-> n, uid |-> u, pay |-> [i \in Seats |-> 0],
                 kind |-> "get"] : u \in us}

ProcessRequestMsg(n) ==
    LET us == {seats[i].uid : i \in {j \in Seats : seats[j].taken}} IN
    /\ sessions[n].at = "pushed"
    /\ sessions' = [sessions EXCEPT ![n].at = IF us = {} THEN "over" ELSE "read",
                                    ![n].wait = us]
    /\ requests' = requests \cup Read(n, us)
    /\ UNCHANGED <<table, coins, answers, told>>

(* A loser pays at most what he has.                                       *)
Payable(v, known) == IF v < 0 /\ known + v < 0 THEN -known ELSE v

(* iUnitAddCoins: what the losers pay, shared among all other seats.       *)
UnitAddCoins(value) ==
    LET Lost(i) == IF value[i] < 0 THEN -value[i] ELSE 0
    IN  (Lost(0) + Lost(1) + Lost(2)) \div
            Cardinality({i \in Seats : value[i] >= 0})

(* The changes of coins_change_value of all seats.                         *)
Changes(value) ==
    [i \in Seats |-> IF value[i] > 0 THEN UnitAddCoins(value) ELSE value[i]]

(* GetState_NoInfo::ProcessGet, once the last answer of the first read is  *)
(* in known.  The values go back into the seats as they are now; until the *)
(* coins are read again a result has the change for the coins.             *)
Settle(n, known) ==
    LET value == [i \in Seats |-> Payable(seats[i].value, known[seats[i].uid])]
        change == Changes(value)
        us == {seats[i].uid : i \in Seats}
        Pay(u) == [i \in Seats |-> IF seats[i].uid = u THEN change[i] ELSE 0]
    IN
    IF \A i \in Seats : value[i] < 0
    THEN /\ seats' = [i \in Seats |-> [seats[i] EXCEPT !.value = value[i]]]
         /\ sessions' = [sessions EXCEPT ![n].at = "over"]
         /\ UNCHANGED requests
    ELSE /\ seats' = [i \in Seats |-> [seats[i] EXCEPT !.value = change[i]]]
         /\ sessions' = [sessions EXCEPT ![n] =
               [at |-> "update", wait |-> us, known |-> known,
                results |-> [i \in Seats |->
                    [uid |-> seats[i].uid, change |-> change[i],
                     after |-> change[i]]]]]
         /\ requests' = requests \cup
               {[session |-> n, uid |-> u, pay |-> Pay(u), kind |-> "update"] : u \in us}

(* GetState_HadInfo::ProcessGet                                            *)
WithBalance(results, known) ==
    [i \in Seats |-> [results[i] EXCEPT !.after = known[results[i].uid]]]

Over(n, results) ==
    /\ sessions' = [sessions EXCEPT ![n].at = "over", ![n].results = results]
    /\ told' = told \cup {results[i] : i \in Seats}

(* OnGetResponse and OnUpdateResponse of NewProcessor, with what the       *)
(* handler does when all have answered (Process...Succ) or one has failed. *)
Answered(a, at) ==
    /\ a \in answers /\ sessions[a.session].at \in at
    /\ answers' = answers \ {a}
    /\ UNCHANGED <<playing, coins, rounds, leaves>>

Waiting == {"read", "update", "reread"}
Known(a) == [sessions[a.session].known EXCEPT ![a.uid] = a.coins]
LeftOut(a) == sessions[a.session].wait \ {a.uid}

AnswerDropped(a) ==
    /\ Answered(a, {"over"})
    /\ UNCHANGED <<seats, sessions, requests, told>>

AnswerCounted(a) ==
    /\ Answered(a, Waiting) /\ a.ok /\ LeftOut(a) # {}
    /\ sessions' = [sessions EXCEPT ![a.session].known = Known(a),
                                    ![a.session].wait = LeftOut(a)]
    /\ UNCHANGED <<seats, requests, told>>

ReadDone(a) ==
    /\ Answered(a, {"read"}) /\ a.ok /\ LeftOut(a) = {}
    /\ Settle(a.session, Known(a))
    /\ UNCHANGED told

UpdateDone(a) ==
    LET us == {sessions[a.session].results[i].uid : i \in Seats} IN
    /\ Answered(a, {"update"}) /\ a.ok /\ LeftOut(a) = {}
    /\ sessions' = [sessions EXCEPT ![a.session].at = "reread",
                        ![a.session].known = Known(a), ![a.session].wait = us]
    /\ requests' = requests \cup Read(a.session, us)
    /\ UNCHANGED <<seats, told>>

RereadDone(a) ==
    /\ Answered(a, {"reread"}) /\ a.ok /\ LeftOut(a) = {}
    /\ Over(a.session, WithBalance(sessions[a.session].results, Known(a)))
    /\ UNCHANGED <<seats, requests>>

(* ProcessUpdateFailed tells the results as they are.                      *)
UpdateFailed(a) ==
    /\ Answered(a, {"update"}) /\ ~a.ok
    /\ Over(a.session, sessions[a.session].results)
    /\ UNCHANGED <<seats, requests>>

ReadFailed(a) ==
    /\ Answered(a, {"read", "reread"}) /\ ~a.ok
    /\ sessions' = [sessions EXCEPT ![a.session].at = "over"]
    /\ UNCHANGED <<seats, requests, told>>

(* The timer of the session.                                               *)
Timeout(n) ==
    /\ sessions[n].at \in Waiting
    /\ sessions' = [sessions EXCEPT ![n].at = "over"]
    /\ UNCHANGED <<table, coins, net, told>>

-----------------------------------------------------------------------------
(* The user server                                                         *)

(* OnUpdateUserInfo for fields EN_DB_Field_Coin.  The case has no break:   *)
(* after a change that is not zero it runs into default, which returns     *)
(* false.                                                                  *)
OnUpdateUserInfo(c, pay) ==
    [ok |-> \A i \in Seats : pay[i] = 0, coins |-> c + pay[0] + pay[1] + pay[2]]

(* OnUpdateData rolls back what was refused.                               *)
OnUpdateData(c, pay) ==
    LET done == OnUpdateUserInfo(c, pay)
    IN  [ok |-> done.ok, coins |-> IF done.ok THEN done.coins ELSE c]

(* uid 0 was never registered and has no data.                             *)
UserServer(r) ==
    LET Answer(ok, c) ==
          {[session |-> r.session, uid |-> r.uid, ok |-> ok, coins |-> c]}
        done == OnUpdateData(coins[r.uid], r.pay)
    IN
    /\ r \in requests
    /\ requests' = requests \ {r}
    /\ IF r.uid = None
       THEN answers' = answers \cup Answer(FALSE, 0) /\ UNCHANGED coins
       ELSE IF r.kind = "get"
       THEN answers' = answers \cup Answer(TRUE, coins[r.uid]) /\ UNCHANGED coins
       ELSE /\ answers' = answers \cup Answer(done.ok, done.coins)
            /\ coins' = [coins EXCEPT ![r.uid] = done.coins]
    /\ UNCHANGED <<table, sessions, told>>

-----------------------------------------------------------------------------
Next ==
    \/ \E i \in Seats, u \in Users : SitDown(i, u)
    \/ GameStart
    \/ \E i \in Seats : LogoutTable(i)
    \/ DissolveTable
    \/ \E d \in Seats, w \in BOOLEAN, s \in [Seats -> Scores] : GameOver(d, w, s)
    \/ GameOverUnplayed
    \/ \E n \in 1 .. MaxRounds : ProcessRequestMsg(n) \/ Timeout(n)
    \/ \E r \in requests : UserServer(r)
    \/ \E a \in answers :
          \/ AnswerDropped(a) \/ AnswerCounted(a) \/ ReadDone(a) \/ UpdateDone(a)
          \/ RereadDone(a) \/ UpdateFailed(a) \/ ReadFailed(a)

Spec == Init /\ [][Next]_vars

-----------------------------------------------------------------------------
(* What a client is told he has after the round is what he has             *)
(* (coins_after_update, "玩家更新后的金币数").                              *)
BalanceAsTold ==
    [][\A r \in told' \ told : r.uid # None => r.after = coins'[r.uid]]_vars

(* In no result does anybody win, whoever won the round.                   *)
NobodyWins == \A r \in told : r.change <= 0

(* Nobody is told to have lost more than he has.                           *)
LossIsCovered == \A r \in told : r.uid # None => r.change >= -coins[r.uid]

(* No settlement moves a coin.                                             *)
CoinsStay == [][UNCHANGED coins]_vars

=============================================================================
