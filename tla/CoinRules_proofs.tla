--------------------------- MODULE CoinRules_proofs ---------------------------
(***************************************************************************)
(* The two sets of rules of a coin round, which share no state: which play *)
(* beats which (PokerLogic), and what the settlement does with the coins   *)
(* (CoinSettle).                                                           *)
(*                                                                         *)
(* The plays.  What AnalyseFromCards accepts climbs: the plays of a trick  *)
(* are in a strict order, whatever the cards, so that no sequence of       *)
(* answers comes back to a play that was beaten.                           *)
(*                                                                         *)
(* The settlement, for any users, scores, purses and number of rounds, and *)
(* for players who leave at any time: no coin moves, nobody is told that   *)
(* he won, and nobody that he lost more than he has.                       *)
(*                                                                         *)
(* That nobody wins rests on the signs: a round leaves all values of the   *)
(* seats on one side of zero (OneSign), as the dealer has none, and where  *)
(* nobody lost there is nothing to share.                                  *)
(***************************************************************************)
EXTENDS CoinSettle, PokerLogic, FiniteSetTheorems, TLAPS

Types == DOMAIN TypeNum \ {"UNKNOWN"}

(* A request is a play whose first value is an integer.                    *)
Asked(p) == p.real \in Int

Accepted(p) == Asked(p) /\ AnalyseFromCards(NoPlay, p)

(* One deck has one rocket.                                                *)
OneRocket(a, b) == ~(a.type = "ROCKET" /\ b.type = "ROCKET")

(* The types have numbers.                                                 *)
LEMMA TypeNumInt == \A t \in Types : TypeNum[t] \in Int
  BY DEF Types, TypeNum

(* The rocket has the highest number of them, and one that beats other     *)
(* types.                                                                  *)
LEMMA RocketHighest ==
  /\ TypeNum["ROCKET"] >= SoftBombNum
  /\ \A t \in Types : t # "ROCKET" => TypeNum["ROCKET"] > TypeNum[t]
  BY DEF Types, TypeNum, SoftBombNum

(* What passes a Check has a type the code knows.                          *)
LEMMA CheckedType ==
  ASSUME NEW p, Check(p)
  PROVE  p.type \in Types
  BY DEF Check, Types, TypeNum

(* An accepted play is of a type other than UNKNOWN and has a whole number *)
(* as its value.                                                           *)
LEMMA AcceptedType ==
  ASSUME NEW p, Accepted(p)
  PROVE  p.type \in Types /\ p.type # "UNKNOWN" /\ p.real \in Int
<1>1. Check(p)
  BY DEF Accepted, AnalyseFromCards
<1> QED
  BY <1>1, CheckedType DEF Accepted, Asked, Types

(* An accepted answer beats the play before it by PrioCompare: the special *)
(* rule for the rocket decides nothing else.                               *)
LEMMA AnswersBeat ==
  ASSUME NEW a, NEW b, Accepted(a), Accepted(b), OneRocket(a, b),
         AnalyseFromCards(a, b)
  PROVE  PrioCompare(a, b)
<1>1. CASE b.type # "ROCKET"
  BY <1>1 DEF AnalyseFromCards
<1>2. CASE b.type = "ROCKET"
  <2>1. a.type \in Types /\ a.type # "ROCKET"
    BY <1>2, AcceptedType DEF OneRocket
  <2> QED
    BY <1>2, <2>1, RocketHighest DEF PrioCompare
<1> QED BY <1>1, <1>2

(* Of two accepted plays at most one beats the other.                      *)
LEMMA BeatsOnce ==
  ASSUME NEW a, NEW b, Accepted(a), Accepted(b), PrioCompare(a, b)
  PROVE  ~PrioCompare(b, a)
<1>1. /\ a.type \in Types /\ a.type # "UNKNOWN" /\ a.real \in Int
      /\ b.type \in Types /\ b.type # "UNKNOWN" /\ b.real \in Int
  BY AcceptedType
<1>2. TypeNum[a.type] \in Int /\ TypeNum[b.type] \in Int
  BY <1>1, TypeNumInt
<1> QED BY <1>1, <1>2 DEF PrioCompare

(* To beat is transitive.                                                  *)
LEMMA BeatsThrough ==
  ASSUME NEW a, NEW b, NEW c, Accepted(a), Accepted(b), Accepted(c),
         PrioCompare(a, b), PrioCompare(b, c)
  PROVE  PrioCompare(a, c)
<1>1. /\ a.type # "UNKNOWN" /\ a.real \in Int
      /\ b.type # "UNKNOWN" /\ b.real \in Int
      /\ c.type # "UNKNOWN" /\ c.real \in Int
  BY AcceptedType
<1>2. /\ TypeNum[a.type] \in Int /\ TypeNum[b.type] \in Int
      /\ TypeNum[c.type] \in Int
  BY AcceptedType, TypeNumInt
<1>3. SoftBombNum \in Int
  BY DEF SoftBombNum
<1> QED BY <1>1, <1>2, <1>3 DEF PrioCompare

(* AnalyseFromCards orders the plays of a trick strictly: a play that was  *)
(* beaten is not accepted against the play that beat it, nor against any   *)
(* that beat that one; and nothing is accepted against a rocket.           *)
THEOREM PlaysClimb ==
  ASSUME NEW a, NEW b, NEW c, Accepted(a), Accepted(b), Accepted(c),
         OneRocket(a, b), OneRocket(b, c), OneRocket(a, c),
         AnalyseFromCards(a, b)
  PROVE  /\ a.type # "ROCKET"
         /\ ~AnalyseFromCards(b, a)
         /\ AnalyseFromCards(b, c) => AnalyseFromCards(a, c) /\ ~AnalyseFromCards(c, a)
<1>1. PrioCompare(a, b)
  BY AnswersBeat
<1>2. a.type # "ROCKET"
  <2>1. SUFFICES ASSUME a.type = "ROCKET" PROVE FALSE
    OBVIOUS
  <2>2. b.type \in Types /\ b.type # "ROCKET"
    BY <2>1, AcceptedType DEF OneRocket
  <2>3. TypeNum[b.type] \in Int /\ TypeNum[a.type] \in Int
    BY <2>2, AcceptedType, TypeNumInt
  <2>4. TypeNum[a.type] > TypeNum[b.type]
    BY <2>1, <2>2, RocketHighest
  <2> QED
    BY <1>1, <2>1, <2>2, <2>3, <2>4 DEF PrioCompare
<1>3. ~AnalyseFromCards(b, a)
  BY <1>1, <1>2, BeatsOnce DEF AnalyseFromCards
<1>4. ASSUME AnalyseFromCards(b, c)
      PROVE  AnalyseFromCards(a, c) /\ ~AnalyseFromCards(c, a)
  <2>1. PrioCompare(b, c)
    BY <1>4, AnswersBeat
  <2>2. PrioCompare(a, c)
    BY <1>1, <2>1, BeatsThrough
  <2>3. AnalyseFromCards(a, c)
    BY <1>4, <2>2 DEF AnalyseFromCards
  <2>4. ~PrioCompare(c, a)
    BY <2>2, BeatsOnce
  <2> QED
    BY <1>2, <2>3, <2>4 DEF AnalyseFromCards
<1> QED BY <1>2, <1>3, <1>4

-----------------------------------------------------------------------------

(* Coins and scores are natural numbers, uid 0 is no user.                 *)
SettleAssumption ==
    /\ Scores \subseteq Nat /\ Purses \subseteq Nat
    /\ None \notin Users /\ MaxRounds \in Nat

Rounds == 1 .. MaxRounds
Seat == [uid : Uids, taken : BOOLEAN, value : Int]
Result == [uid : Uids, change : Int, after : Int]
Session ==
    [at : {"none", "pushed", "over"} \cup Waiting, wait : SUBSET Uids,
     known : [Uids -> Nat], results : [Seats -> Result]]
Request ==
    [session : Rounds, uid : Uids, pay : [Seats -> Int], kind : {"get", "update"}]
Answer == [session : Rounds, uid : Uids, ok : BOOLEAN, coins : Int]

TypeOK ==
    /\ seats \in [Seats -> Seat]
    /\ playing \in BOOLEAN /\ rounds \in 0 .. MaxRounds
    /\ playing => rounds \in Rounds
    /\ coins \in [Users -> Nat]
    /\ sessions \in [Rounds -> Session]
    /\ requests \in SUBSET Request
    /\ answers \in SUBSET Answer
    /\ told \in SUBSET Result

OneSign(value) ==
    \/ \A i \in Seats : value[i] <= 0
    \/ \A i \in Seats : value[i] >= 0
SeatValue == [i \in Seats |-> seats[i].value]

(* What a session knows of a user's coins is right or nothing.             *)
KnownIsTrue(known) == \A u \in Users : known[u] \in {0, coins[u]}

AnswerIsTrue(a) == a.ok => a.uid \in Users /\ a.coins = coins[a.uid]

(* A result takes at most the coins and gives none.                        *)
Fair(r) == r.change <= 0 /\ (r.uid # None => r.change >= -coins[r.uid])

SessionFine(s) ==
    /\ KnownIsTrue(s.known) /\ s.known[None] = 0
    /\ s.at = "update" \/ s.at = "reread" => \A i \in Seats : Fair(s.results[i])

Inv ==
    /\ TypeOK
    /\ OneSign(SeatValue)
    /\ playing => \A i \in Seats : seats[i].value = 0
    /\ \A n \in Rounds : SessionFine(sessions[n])
    /\ \A a \in answers : AnswerIsTrue(a)
    /\ \A r \in told : Fair(r)

-----------------------------------------------------------------------------
(* The user server gives the coins back as they were.                      *)
LEMMA UpdateKeepsCoins ==
  ASSUME NEW c \in Int, NEW pay \in [Seats -> Int]
  PROVE  /\ OnUpdateData(c, pay).coins = c
         /\ OnUpdateData(c, pay).ok \in BOOLEAN
<1>1. 0 \in Seats /\ 1 \in Seats /\ 2 \in Seats
  BY DEF Seats
<1>2. CASE \A i \in Seats : pay[i] = 0
  <2>1. c + pay[0] + pay[1] + pay[2] = c
    BY <1>1, <1>2
  <2> QED
    BY <2>1, <1>2 DEF OnUpdateData, OnUpdateUserInfo
<1>3. CASE ~\A i \in Seats : pay[i] = 0
  BY <1>3 DEF OnUpdateData, OnUpdateUserInfo
<1> QED
  BY <1>2, <1>3

(* UnitAddCoins takes at most what there is and leaves gains alone.        *)
LEMMA PayableBounds ==
  ASSUME NEW v \in Int, NEW k \in Nat
  PROVE  /\ Payable(v, k) \in Int
         /\ v <= 0 => Payable(v, k) <= 0 /\ Payable(v, k) >= -k
         /\ v >= 0 => Payable(v, k) = v
  BY DEF Payable

(* Where nobody lost there is nothing to share.                            *)
LEMMA NothingToShare ==
  ASSUME NEW value \in [Seats -> Int], \A i \in Seats : value[i] >= 0
  PROVE  UnitAddCoins(value) = 0
<1>1. {i \in Seats : value[i] >= 0} = 0 .. 2
  BY DEF Seats
<1>2. Cardinality(0 .. 2) = 3
  <2>1. 0 \in Int /\ 2 \in Int
    OBVIOUS
  <2>2. Cardinality(0 .. 2) = IF 0 > 2 THEN 0 ELSE 2 - 0 + 1
    BY ONLY <2>1, FS_Interval, Zenon
  <2> QED
    BY <2>2
<1>3. ~(value[0] < 0) /\ ~(value[1] < 0) /\ ~(value[2] < 0)
  BY DEF Seats
<1>4. UnitAddCoins(value) = (0 + 0 + 0) \div 3
  BY <1>1, <1>2, <1>3 DEF UnitAddCoins
<1> QED
  BY <1>4

(* Values on one side of zero, cut to the purses, give changes that are    *)
(* losses of at most the purse, and none where nobody had a value.         *)
LEMMA ChangesFair ==
  ASSUME NEW v \in [Seats -> Int], NEW k \in [Seats -> Nat], OneSign(v),
         NEW value, value = [i \in Seats |-> Payable(v[i], k[i])]
  PROVE  /\ value \in [Seats -> Int]
         /\ Changes(value) \in [Seats -> Int]
         /\ \A i \in Seats : Changes(value)[i] <= 0 /\ Changes(value)[i] >= -k[i]
         /\ OneSign(value)
         /\ (\A i \in Seats : v[i] = 0) => \A i \in Seats : Changes(value)[i] = 0
<1>1. value \in [Seats -> Int]
  BY PayableBounds
<1>2. CASE \A i \in Seats : v[i] <= 0
  <2>1. \A i \in Seats : value[i] <= 0 /\ value[i] >= -k[i]
    BY <1>2, PayableBounds
  <2>2. \A i \in Seats : Changes(value)[i] = value[i]
    BY <2>1, <1>1 DEF Changes
  <2>3. Changes(value) \in [Seats -> Int]
    BY <2>1, <1>1 DEF Changes
  <2>4. (\A i \in Seats : v[i] = 0) => \A i \in Seats : value[i] = 0
    BY PayableBounds
  <2> QED
    BY <1>1, <2>1, <2>2, <2>3, <2>4 DEF OneSign
<1>3. CASE \A i \in Seats : v[i] >= 0
  <2>1. \A i \in Seats : value[i] >= 0
    BY <1>3, PayableBounds
  <2>2. UnitAddCoins(value) = 0
    BY <2>1, <1>1, NothingToShare
  <2>3. \A i \in Seats : Changes(value)[i] = 0
    BY <2>1, <2>2, <1>1 DEF Changes
  <2>4. Changes(value) \in [Seats -> Int]
    BY <2>2, <1>1 DEF Changes
  <2> QED
    BY <1>1, <2>1, <2>3, <2>4 DEF OneSign
<1> QED
  BY <1>2, <1>3 DEF OneSign

-----------------------------------------------------------------------------
(* The actions.  A step that keeps coins keeps what is true of them.       *)

(* No values and no sessions at first.                                     *)
LEMMA InitInv == SettleAssumption /\ Init => Inv
<1> SUFFICES ASSUME SettleAssumption, Init PROVE Inv
  OBVIOUS
<1>1. NewSession \in Session
  BY DEF NewSession, NoResult, Session, Result, Uids
<1>2. TypeOK
  <2>1. EmptySeat \in Seat
    BY DEF EmptySeat, Seat, Uids
  <2>2. coins \in [Users -> Nat]
    BY DEF Init, SettleAssumption
  <2>3. sessions \in [Rounds -> Session]
    BY <1>1 DEF Init, Rounds
  <2>4. seats \in [Seats -> Seat]
    BY <2>1 DEF Init
  <2>5. playing = FALSE /\ rounds \in 0 .. MaxRounds
    BY DEF Init, SettleAssumption
  <2>6. requests = {} /\ answers = {} /\ told = {}
    BY DEF Init
  <2> QED
    BY <2>2, <2>3, <2>4, <2>5, <2>6 DEF TypeOK
<1>3. \A n \in Rounds : sessions[n] = NewSession
  BY DEF Init, Rounds
<1>4. OneSign(SeatValue)
  BY DEF Init, OneSign, SeatValue, EmptySeat
<1>5. \A n \in Rounds : KnownIsTrue(sessions[n].known) /\ sessions[n].known[None] = 0
  BY <1>3 DEF NewSession, KnownIsTrue, Uids
<1>6. \A n \in Rounds : sessions[n].at = "none"
  BY <1>3 DEF NewSession
<1>7. \A n \in Rounds : SessionFine(sessions[n])
  BY <1>5, <1>6 DEF SessionFine
<1> QED
  BY <1>2, <1>4, <1>7 DEF Inv, Init

(* Sitting down, starting, leaving and dissolving keep Inv: the values of  *)
(* the seats stay or become zero.                                          *)
LEMMA TableStep ==
  ASSUME SettleAssumption, Inv,
         \/ \E i \in Seats, u \in Users : SitDown(i, u)
         \/ GameStart
         \/ \E i \in Seats : LogoutTable(i)
         \/ DissolveTable
  PROVE  Inv'
<1>1. UNCHANGED <<coins, sessions, requests, answers, told>>
  BY DEF SitDown, GameStart, LogoutTable, DissolveTable
<1>2. /\ seats' \in [Seats -> Seat]
      /\ playing' \in BOOLEAN /\ rounds' \in 0 .. MaxRounds
      /\ playing' => rounds' \in Rounds
      /\ \A i \in Seats : seats'[i].value \in {0, seats[i].value}
      /\ playing' => playing \/ \A i \in Seats : seats'[i].value = 0
  <2> USE DEF Inv, TypeOK
  <2>0. \A i \in Seats : seats[i] \in Seat
    OBVIOUS
  <2>1. CASE \E i \in Seats, u \in Users : SitDown(i, u)
    <3>1. PICK i \in Seats, u \in Users : SitDown(i, u)
      BY <2>1
    <3>2. [uid |-> u, taken |-> TRUE, value |-> seats[i].value] \in Seat
      BY <2>0 DEF Seat, Uids
    <3>3. seats' = [seats EXCEPT ![i] =
                      [uid |-> u, taken |-> TRUE, value |-> seats[i].value]]
      BY <3>1, <2>0 DEF SitDown, Seat
    <3> QED
      BY <3>1, <3>2, <3>3 DEF SitDown
  <2>2. CASE GameStart
    <3>1. \A i \in Seats : [seats[i] EXCEPT !.value = 0] \in Seat
                       /\ [seats[i] EXCEPT !.value = 0].value = 0
      BY <2>0 DEF Seat
    <3>2. seats' = [i \in Seats |-> [seats[i] EXCEPT !.value = 0]]
          /\ playing' = TRUE /\ rounds' = rounds + 1 /\ rounds < MaxRounds
      BY <2>2 DEF GameStart
    <3>3. seats' \in [Seats -> Seat] /\ \A i \in Seats : seats'[i].value = 0
      BY <3>1, <3>2
    <3>4. rounds' \in Rounds /\ rounds' \in 0 .. MaxRounds
      BY <3>2 DEF Rounds, SettleAssumption
    <3> QED
      BY <3>2, <3>3, <3>4
  <2>3. CASE \E i \in Seats : LogoutTable(i)
    <3>1. PICK i \in Seats : LogoutTable(i)
      BY <2>3
    <3>2. [uid |-> seats[i].uid, taken |-> FALSE, value |-> 0] \in Seat
      BY <2>0 DEF Seat
    <3>3. seats' = [seats EXCEPT ![i] =
                      [uid |-> seats[i].uid, taken |-> FALSE, value |-> 0]]
      BY <3>1 DEF LogoutTable
    <3> QED
      BY <3>1, <3>2, <3>3 DEF LogoutTable
  <2>4. CASE DissolveTable
    <3>1. EmptySeat \in Seat /\ EmptySeat.value = 0
      BY DEF EmptySeat, Seat, Uids
    <3> QED
      BY <2>4, <3>1, <2>0 DEF DissolveTable
  <2> QED
    BY <2>1, <2>2, <2>3, <2>4
<1>3. OneSign(SeatValue)'
  <2>1. \A i \in Seats : SeatValue'[i] \in {0, SeatValue[i]}
    BY <1>2 DEF SeatValue
  <2> QED
    BY <2>1 DEF OneSign, Inv
<1> QED
  BY <1>1, <1>2, <1>3 DEF Inv, TypeOK, SessionFine, KnownIsTrue, AnswerIsTrue, Fair

(* However a round ends, if it leaves the seats typed and of one sign.      *)
LEMMA RoundEndsStep ==
  ASSUME Inv, RoundEnds, seats' \in [Seats -> Seat], OneSign(SeatValue)'
  PROVE  Inv'
<1>1. UNCHANGED <<coins, requests, answers, told, rounds>> /\ playing' = FALSE
  BY DEF RoundEnds
<1>2. rounds \in Rounds
  BY DEF RoundEnds, Inv, TypeOK
<1>3. /\ sessions' \in [Rounds -> Session]
      /\ sessions'[rounds].at = "pushed"
      /\ \A n \in Rounds : sessions'[n].known = sessions[n].known
      /\ \A n \in Rounds : n # rounds => sessions'[n] = sessions[n]
  <2>1. sessions[rounds] \in Session
    BY <1>2 DEF Inv, TypeOK
  <2>2. [sessions[rounds] EXCEPT !.at = "pushed"] \in Session
    BY <2>1 DEF Session
  <2>3. sessions' = [sessions EXCEPT ![rounds] =
                        [sessions[rounds] EXCEPT !.at = "pushed"]]
    BY DEF RoundEnds
  <2>4. sessions' \in [Rounds -> Session]
    BY <1>2, <2>2, <2>3 DEF Inv, TypeOK
  <2>5. \A n \in Rounds : n # rounds => sessions'[n] = sessions[n]
    BY <2>3 DEF Inv, TypeOK
  <2>6. sessions'[rounds] = [sessions[rounds] EXCEPT !.at = "pushed"]
    BY <1>2, <2>3 DEF Inv, TypeOK
  <2>7. sessions'[rounds].at = "pushed" /\ sessions'[rounds].known = sessions[rounds].known
    BY <2>1, <2>6 DEF Session
  <2>8. \A n \in Rounds : sessions'[n].known = sessions[n].known
    BY <2>5, <2>7
  <2> QED
    BY <2>4, <2>5, <2>7, <2>8
<1>5. TypeOK'
  BY <1>1, <1>3 DEF Inv, TypeOK
<1>6. (\A n \in Rounds : SessionFine(sessions[n]))'
  <2> SUFFICES ASSUME NEW n \in Rounds PROVE SessionFine(sessions[n])'
    OBVIOUS
  <2>1. sessions'[n].known = sessions[n].known /\ coins' = coins
    BY <1>1, <1>3, Zenon
  <2>2. SessionFine(sessions[n])
    BY DEF Inv
  <2>3. CASE n = rounds
    BY <2>1, <2>2, <2>3, <1>3 DEF SessionFine, KnownIsTrue
  <2>4. CASE n # rounds
    BY <2>1, <2>2, <2>4, <1>3 DEF SessionFine, KnownIsTrue, Fair
  <2> QED
    BY <2>3, <2>4
<1>7. (\A a \in answers : AnswerIsTrue(a))' /\ (\A r \in told : Fair(r))'
  BY <1>1 DEF Inv, AnswerIsTrue, Fair
<1> QED
  BY <1>1, <1>5, <1>6, <1>7 DEF Inv

(* The end of a round keeps Inv: as the loop skips the dealer, the values  *)
(* are all of one sign.                                                    *)
LEMMA GameOverStep ==
  ASSUME SettleAssumption, Inv, NEW d \in Seats, NEW w \in BOOLEAN,
         NEW s \in [Seats -> Scores], GameOver(d, w, s)
  PROVE  Inv'
<1>1. /\ seats' \in [Seats -> Seat]
      /\ OneSign(SeatValue)'
  <2>1. \A i \in Seats : s[i] \in Nat
    BY DEF SettleAssumption
  <2>2. seats' = AnalyzeHuStyles(d, w, s)
    BY DEF GameOver
  <2>3. \A i \in Seats : seats[i] \in Seat /\ seats[i].value = 0
    BY DEF Inv, TypeOK, GameOver, RoundEnds
  <2> DEFINE Value(i) == IF i = d THEN 0 ELSE IF w THEN -s[i] ELSE s[i]
             New(i) == [uid |-> seats[i].uid, taken |-> seats[i].taken, value |-> Value(i)]
  <2>4. \A i \in Seats : seats'[i] = New(i)
    BY <2>2, <2>3 DEF AnalyzeHuStyles, Seat
  <2>5. seats' = [i \in Seats |-> seats'[i]]
    BY <2>2 DEF AnalyzeHuStyles
  <2>6. seats' \in [Seats -> Seat]
    <3> SUFFICES ASSUME NEW i \in Seats PROVE seats'[i] \in Seat
      BY <2>5, Zenon
    <3>1. Value(i) \in Int
      BY <2>1
    <3>2. seats[i].uid \in Uids /\ seats[i].taken \in BOOLEAN
      BY <2>3 DEF Seat
    <3>3. New(i) \in Seat
      BY <3>1, <3>2 DEF Seat
    <3> QED
      BY <3>3, <2>4, Zenon
  <2>7. \A i \in Seats : seats'[i].value = Value(i)
    <3>1. \A i \in Seats : New(i).value = Value(i)
      OBVIOUS
    <3> HIDE DEF New, Value
    <3> QED
      BY <2>4, <3>1
  <2>8. SeatValue' = [i \in Seats |-> seats'[i].value]
    BY DEF SeatValue
  <2> QED
    BY <2>1, <2>6, <2>7, <2>8 DEF OneSign
<1> QED
  BY <1>1, RoundEndsStep DEF GameOver

(* The end of a round nobody won keeps Inv.                                *)
LEMMA GameOverUnplayedStep ==
  ASSUME Inv, GameOverUnplayed
  PROVE  Inv'
<1>1. seats' \in [Seats -> Seat] /\ OneSign(SeatValue)'
  BY DEF GameOverUnplayed, Inv, TypeOK, SeatValue, OneSign
<1> QED
  BY <1>1, RoundEndsStep DEF GameOverUnplayed

(* A step of session n that leaves it as s.                                *)
LEMMA SessionStep ==
  ASSUME Inv, NEW n \in Rounds, NEW s \in Session, SessionFine(s),
         UNCHANGED <<playing, coins, rounds>>,
         sessions' = [sessions EXCEPT ![n] = s],
         seats' \in [Seats -> Seat], OneSign(SeatValue)',
         playing => \A i \in Seats : seats'[i].value = 0,
         requests' \in SUBSET Request, answers' \subseteq answers,
         told' \in SUBSET Result, \A r \in told' : Fair(r)
  PROVE  Inv'
<1>1. sessions' \in [Rounds -> Session]
  BY DEF Inv, TypeOK
<1>2. \A m \in Rounds : SessionFine(sessions'[m])
  BY DEF Inv, TypeOK
<1>3. (\A m \in Rounds : SessionFine(sessions[m]))'
  BY <1>2 DEF SessionFine, KnownIsTrue, Fair
<1>4. TypeOK'
  BY <1>1 DEF Inv, TypeOK
<1>5. (\A a \in answers : AnswerIsTrue(a))'
  BY DEF Inv, AnswerIsTrue
<1>6. (\A r \in told : Fair(r))'
  BY DEF Fair
<1> QED
  BY <1>3, <1>4, <1>5, <1>6 DEF Inv

(* The reads of a session are requests.                                    *)
LEMMA ReadRequests ==
  ASSUME NEW n \in Rounds, NEW us \in SUBSET Uids
  PROVE  Read(n, us) \in SUBSET Request
  BY DEF Read, Request

(* A step that only moves a session on to `at`.                            *)
LEMMA MovedOn ==
  ASSUME Inv, NEW n \in Rounds, NEW at \in {"read", "over"}, NEW wait \in SUBSET Uids,
         NEW s, s = [sessions[n] EXCEPT !.at = at, !.wait = wait]
  PROVE  s \in Session /\ SessionFine(s)
<1>1. sessions[n] \in Session /\ SessionFine(sessions[n])
  BY DEF Inv, TypeOK
<1>2. s \in Session
  BY <1>1 DEF Session, Waiting
<1>3. s.at = at /\ s.known = sessions[n].known
  BY <1>1 DEF Session
<1> QED
  BY <1>1, <1>2, <1>3 DEF SessionFine

(* The beginning of a settlement keeps Inv.                                *)
LEMMA ProcessRequestMsgStep ==
  ASSUME SettleAssumption, Inv, NEW n \in Rounds, ProcessRequestMsg(n)
  PROVE  Inv'
<1> DEFINE us == {seats[i].uid : i \in {j \in Seats : seats[j].taken}}
           at == IF us = {} THEN "over" ELSE "read"
           s == [sessions[n] EXCEPT !.at = at, !.wait = us]
<1>1. us \in SUBSET Uids
  BY DEF Inv, TypeOK, Seat
<1>2. s \in Session /\ SessionFine(s)
  <2>1. at \in {"read", "over"}
    OBVIOUS
  <2> HIDE DEF us, at
  <2> QED
    BY <1>1, <2>1, MovedOn
<1>3. sessions' = [sessions EXCEPT ![n] = s]
  BY DEF ProcessRequestMsg
<1>4. requests' \in SUBSET Request
  <2>1. requests' = requests \cup Read(n, us)
    BY DEF ProcessRequestMsg
  <2> HIDE DEF us
  <2> QED
    BY <2>1, <1>1, ReadRequests DEF Inv, TypeOK
<1>5. UNCHANGED <<playing, coins, rounds, seats, answers, told>>
  BY DEF ProcessRequestMsg, table
<1>6. OneSign(SeatValue)'
  BY <1>5 DEF Inv, SeatValue, OneSign
<1> HIDE DEF s
<1> QED
  BY <1>2, <1>3, <1>4, <1>5, <1>6, SessionStep DEF Inv, TypeOK

(* What stays so when the seats do.                                        *)
LEMMA SeatsStay ==
  ASSUME Inv, UNCHANGED <<seats, playing>>
  PROVE  /\ seats' \in [Seats -> Seat] /\ OneSign(SeatValue)'
         /\ playing => \A i \in Seats : seats'[i].value = 0
BY DEF Inv, TypeOK, SeatValue, OneSign

(* A session is given up: by its timer or by an answer that says no.       *)
LEMMA GivenUpStep ==
  ASSUME Inv, NEW n \in Rounds,
         sessions' = [sessions EXCEPT ![n].at = "over"],
         UNCHANGED <<table, coins, requests, told>>, answers' \subseteq answers
  PROVE  Inv'
<1> DEFINE s == [sessions[n] EXCEPT !.at = "over", !.wait = sessions[n].wait]
<1>1. sessions[n] \in Session /\ sessions[n].wait \in SUBSET Uids
  BY DEF Inv, TypeOK, Session
<1>2. s \in Session /\ SessionFine(s)
  BY <1>1, MovedOn
<1>3. sessions' = [sessions EXCEPT ![n] = s]
  BY <1>1 DEF Session
<1> HIDE DEF s
<1>4. /\ seats' \in [Seats -> Seat] /\ OneSign(SeatValue)'
      /\ playing => \A i \in Seats : seats'[i].value = 0
  BY SeatsStay DEF table
<1> QED
  BY <1>2, <1>3, <1>4, SessionStep DEF Inv, TypeOK, table

(* What an answer adds to a session is true as well.                       *)
LEMMA KnownStep ==
  ASSUME SettleAssumption, Inv, NEW a \in answers, a.ok
  PROVE  /\ a.session \in Rounds
         /\ Known(a) \in [Uids -> Nat]
         /\ KnownIsTrue(Known(a)) /\ Known(a)[None] = 0
         /\ LeftOut(a) \in SUBSET Uids
<1>1. a \in Answer
  BY DEF Inv, TypeOK
<1>2. a.session \in Rounds /\ a.uid \in Users /\ a.coins = coins[a.uid]
  BY <1>1 DEF Inv, AnswerIsTrue, Answer
<1>3. coins[a.uid] \in Nat
  BY <1>2 DEF Inv, TypeOK
<1>4. sessions[a.session] \in Session /\ SessionFine(sessions[a.session])
  BY <1>2 DEF Inv, TypeOK
<1>5. /\ sessions[a.session].known \in [Uids -> Nat]
      /\ sessions[a.session].wait \in SUBSET Uids
  BY <1>4 DEF Session
<1>6. /\ KnownIsTrue(sessions[a.session].known)
      /\ sessions[a.session].known[None] = 0
  BY <1>4 DEF SessionFine
<1>7. a.uid \in Uids /\ a.uid # None /\ None \in Uids /\ Users \subseteq Uids
  BY <1>2 DEF Uids, SettleAssumption
<1>8. Known(a) \in [Uids -> Nat]
  BY <1>2, <1>3, <1>5, <1>7 DEF Known
<1>9. KnownIsTrue(Known(a)) /\ Known(a)[None] = 0
  BY <1>2, <1>5, <1>6, <1>7 DEF Known, KnownIsTrue
<1> QED
  BY <1>2, <1>5, <1>8, <1>9 DEF LeftOut

(* An answer that leaves others to wait for keeps Inv: what it says is     *)
(* what the user server has.                                               *)
LEMMA AnswerCountedStep ==
  ASSUME SettleAssumption, Inv, NEW a \in answers, AnswerCounted(a)
  PROVE  Inv'
<1> DEFINE n == a.session
           s == [sessions[n] EXCEPT !.known = Known(a), !.wait = LeftOut(a)]
<1>1. /\ n \in Rounds /\ Known(a) \in [Uids -> Nat]
      /\ KnownIsTrue(Known(a)) /\ Known(a)[None] = 0 /\ LeftOut(a) \in SUBSET Uids
  BY KnownStep DEF AnswerCounted
<1>2. sessions[n] \in Session /\ SessionFine(sessions[n])
  BY <1>1 DEF Inv, TypeOK
<1>3. /\ s \in Session /\ s.at = sessions[n].at
      /\ s.known = Known(a) /\ s.results = sessions[n].results
  <2> DEFINE k == Known(a)  w == LeftOut(a)  x == sessions[n]
  <2>1. x \in Session /\ k \in [Uids -> Nat] /\ w \in SUBSET Uids
    BY <1>1, <1>2
  <2>2. s = [x EXCEPT !.known = k, !.wait = w]
    OBVIOUS
  <2> HIDE DEF k, w, x, s
  <2>3. s \in Session /\ s.at = x.at /\ s.known = k /\ s.results = x.results
    BY <2>1, <2>2 DEF Session
  <2> QED
    BY <2>3 DEF k, x
<1>4. sessions' = [sessions EXCEPT ![n] = s]
  BY DEF AnswerCounted
<1> HIDE DEF s
<1>5. SessionFine(s)
  BY <1>1, <1>2, <1>3 DEF SessionFine
<1>6. UNCHANGED <<seats, playing, coins, rounds, requests, told>> /\ answers' \subseteq answers
  BY DEF AnswerCounted, Answered
<1>7. /\ seats' \in [Seats -> Seat] /\ OneSign(SeatValue)'
      /\ playing => \A i \in Seats : seats'[i].value = 0
  BY <1>6, SeatsStay
<1> HIDE DEF n
<1> QED
  BY <1>1, <1>3, <1>4, <1>5, <1>6, <1>7, SessionStep DEF Inv, TypeOK

(* The end of a session by its timer keeps Inv.                            *)
LEMMA TimeoutStep ==
  ASSUME Inv, NEW n \in Rounds, Timeout(n)
  PROVE  Inv'
BY GivenUpStep DEF Timeout, net

(* The end of a session by a failed read keeps Inv.                        *)
LEMMA ReadFailedStep ==
  ASSUME Inv, NEW a \in answers, ReadFailed(a)
  PROVE  Inv'
<1>1. a.session \in Rounds
  BY DEF Inv, TypeOK, Answer
<1> QED
  BY <1>1, GivenUpStep DEF ReadFailed, Answered, table

(* An answer without a session keeps Inv.                                  *)
LEMMA AnswerDroppedStep ==
  ASSUME Inv, NEW a \in answers, AnswerDropped(a)
  PROVE  Inv'
<1>1. UNCHANGED <<table, coins, sessions, requests, told>> /\ answers' \subseteq answers
  BY DEF AnswerDropped, Answered, table
<1> QED
  BY <1>1 DEF Inv, TypeOK, table, SeatValue, OneSign, SessionFine, KnownIsTrue,
              AnswerIsTrue, Fair

(* The values go back into the seats.                                      *)
LEMMA SeatsRevalued ==
  ASSUME Inv, NEW c \in [Seats -> Int], OneSign(c),
         playing => \A i \in Seats : c[i] = 0,
         seats' = [i \in Seats |-> [seats[i] EXCEPT !.value = c[i]]]
  PROVE  /\ seats' \in [Seats -> Seat] /\ OneSign(SeatValue)'
         /\ playing => \A i \in Seats : seats'[i].value = 0
<1>1. \A i \in Seats : seats[i] \in Seat
  BY DEF Inv, TypeOK
<1>2. \A i \in Seats : /\ [seats[i] EXCEPT !.value = c[i]] \in Seat
                       /\ [seats[i] EXCEPT !.value = c[i]].value = c[i]
  BY <1>1 DEF Seat
<1>3. seats' \in [Seats -> Seat]
  BY <1>2
<1>4. \A i \in Seats : seats'[i].value = c[i]
  BY <1>2, Zenon
<1>5. SeatValue' = [i \in Seats |-> seats'[i].value]
  BY DEF SeatValue
<1> QED
  BY <1>3, <1>4, <1>5 DEF OneSign

(* The last answer to the reads keeps Inv: the results it computes are     *)
(* fair to everybody seated.                                               *)
LEMMA ReadDoneStep ==
  ASSUME SettleAssumption, Inv, NEW a \in answers, ReadDone(a)
  PROVE  Inv'
<1> DEFINE n == a.session
           known == Known(a)
           v == SeatValue
           k == [i \in Seats |-> known[seats[i].uid]]
           value == [i \in Seats |-> Payable(seats[i].value, known[seats[i].uid])]
           change == Changes(value)
           us == {seats[i].uid : i \in Seats}
           Pay(u) == [i \in Seats |-> IF seats[i].uid = u THEN change[i] ELSE 0]
           results == [i \in Seats |->
                         [uid |-> seats[i].uid, change |-> change[i], after |-> change[i]]]
<1>1. n \in Rounds /\ known \in [Uids -> Nat] /\ KnownIsTrue(known) /\ known[None] = 0
  BY KnownStep DEF ReadDone
<1>2. \A i \in Seats : seats[i].uid \in Uids /\ seats[i].value \in Int
  BY DEF Inv, TypeOK, Seat
<1>3. v \in [Seats -> Int] /\ k \in [Seats -> Nat] /\ OneSign(v)
  <2> HIDE DEF known
  <2> QED
    BY <1>1, <1>2 DEF SeatValue, Inv
<1>0. value = [i \in Seats |-> Payable(v[i], k[i])]
  <2> HIDE DEF known
  <2>1. \A i \in Seats : v[i] = seats[i].value /\ k[i] = known[seats[i].uid]
    BY DEF SeatValue
  <2> HIDE DEF v, k
  <2> QED
    BY <2>1
<1>4. /\ value \in [Seats -> Int] /\ change \in [Seats -> Int]
      /\ \A i \in Seats : change[i] <= 0 /\ change[i] >= -k[i]
      /\ OneSign(value)
      /\ (\A i \in Seats : v[i] = 0) => \A i \in Seats : change[i] = 0
  <2> HIDE DEF v, k, value
  <2> QED
    BY <1>0, <1>3, ChangesFair
<1>5. playing => \A i \in Seats : v[i] = 0
  BY DEF Inv, SeatValue
<1>7. UNCHANGED <<playing, coins, rounds, told>> /\ answers' \subseteq answers
  BY DEF ReadDone, Answered
<1>8. Settle(n, known)
  BY DEF ReadDone
<1>9. CASE \A i \in Seats : value[i] < 0
  <2>1. /\ seats' = [i \in Seats |-> [seats[i] EXCEPT !.value = value[i]]]
        /\ sessions' = [sessions EXCEPT ![n].at = "over"]
        /\ requests' = requests
    BY <1>8, <1>9 DEF Settle
  <2>2. ~playing
    <3>1. \A i \in Seats : v[i] = 0 => value[i] = 0
      <4> HIDE DEF v, k, value
      <4> QED
        BY <1>0, <1>3, PayableBounds
    <3>2. 0 \in Seats
      BY DEF Seats
    <3> HIDE DEF v, value
    <3> QED
      BY <3>1, <3>2, <1>5, <1>9
  <2> HIDE DEF value
  <2>3. /\ seats' \in [Seats -> Seat] /\ OneSign(SeatValue)'
        /\ playing => \A i \in Seats : seats'[i].value = 0
    BY <2>1, <2>2, <1>4, SeatsRevalued
  <2> DEFINE s == [sessions[n] EXCEPT !.at = "over", !.wait = sessions[n].wait]
  <2> HIDE DEF n
  <2>4. sessions[n] \in Session /\ sessions[n].wait \in SUBSET Uids
    BY <1>1 DEF Inv, TypeOK, Session
  <2>5. s \in Session /\ SessionFine(s)
    BY <1>1, <2>4, MovedOn
  <2>6. sessions' = [sessions EXCEPT ![n] = s]
    BY <2>1, <2>4 DEF Session
  <2> HIDE DEF s
  <2> QED
    BY <1>1, <1>7, <2>1, <2>3, <2>5, <2>6, SessionStep DEF Inv, TypeOK
<1>10. CASE ~\A i \in Seats : value[i] < 0
  <2> DEFINE s == [at |-> "update", wait |-> us, known |-> known, results |-> results]
             R == {[session |-> n, uid |-> u, pay |-> Pay(u), kind |-> "update"] : u \in us}
  <2>1. /\ seats' = [i \in Seats |-> [seats[i] EXCEPT !.value = change[i]]]
        /\ sessions' = [sessions EXCEPT ![n] = s]
        /\ requests' = requests \cup R
    BY <1>8, <1>10, Zenon DEF Settle
  <2> HIDE DEF value, n, known
  <2>2. change \in [Seats -> Int] /\ OneSign(change)
    BY <1>4 DEF OneSign
  <2>3. /\ seats' \in [Seats -> Seat] /\ OneSign(SeatValue)'
        /\ playing => \A i \in Seats : seats'[i].value = 0
    <3> HIDE DEF change
    <3> QED
      BY <2>1, <2>2, <1>4, <1>5, SeatsRevalued
  <2>4. us \in SUBSET Uids
    BY <1>2
  <2>5. results \in [Seats -> Result]
    <3> HIDE DEF change
    <3> QED
      BY <1>2, <2>2 DEF Result
  <2>6. s \in Session
    <3> HIDE DEF us, results
    <3> QED
      BY <1>1, <2>4, <2>5 DEF Session, Waiting
  <2>7. SessionFine(s)
    <3>1. ASSUME NEW i \in Seats PROVE Fair(results[i])
      <4>1. results[i] = [uid |-> seats[i].uid, change |-> change[i], after |-> change[i]]
        OBVIOUS
      <4>2. change[i] <= 0 /\ change[i] >= -known[seats[i].uid] /\ change[i] \in Int
        BY <1>4, <2>2
      <4>3. seats[i].uid # None =>
              known[seats[i].uid] \in {0, coins[seats[i].uid]} /\ coins[seats[i].uid] \in Nat
        BY <1>1, <1>2 DEF KnownIsTrue, Uids, Inv, TypeOK
      <4> HIDE DEF change, results
      <4> QED
        BY <4>1, <4>2, <4>3 DEF Fair
    <3> HIDE DEF results, us
    <3> QED
      BY <1>1, <3>1 DEF SessionFine
  <2>8. requests' \in SUBSET Request
    <3> HIDE DEF change
    <3>1. \A u : Pay(u) \in [Seats -> Int]
      BY <2>2
    <3> HIDE DEF Pay, us
    <3>2. R \in SUBSET Request
      BY <3>1, <2>4, <1>1 DEF Request
    <3> HIDE DEF R
    <3> QED
      BY <3>2, <2>1 DEF Inv, TypeOK
  <2> HIDE DEF s
  <2> QED
    BY <1>1, <1>7, <2>1, <2>3, <2>6, <2>7, <2>8, SessionStep DEF Inv, TypeOK
<1> QED
  BY <1>9, <1>10

(* The last answer to the updates keeps Inv.                               *)
LEMMA UpdateDoneStep ==
  ASSUME SettleAssumption, Inv, NEW a \in answers, UpdateDone(a)
  PROVE  Inv'
<1> DEFINE n == a.session
           us == {sessions[n].results[i].uid : i \in Seats}
           s == [sessions[n] EXCEPT !.at = "reread", !.known = Known(a), !.wait = us]
<1>1. n \in Rounds /\ Known(a) \in [Uids -> Nat] /\ KnownIsTrue(Known(a)) /\ Known(a)[None] = 0
  BY KnownStep DEF UpdateDone
<1>2. sessions[n] \in Session /\ SessionFine(sessions[n]) /\ sessions[n].at = "update"
  BY <1>1 DEF Inv, TypeOK, UpdateDone, Answered
<1>3. us \in SUBSET Uids
  BY <1>2 DEF Session, Result
<1>4. /\ sessions' = [sessions EXCEPT ![n] = s]
      /\ requests' = requests \cup Read(n, us)
      /\ UNCHANGED <<seats, playing, coins, rounds, told>> /\ answers' \subseteq answers
  BY DEF UpdateDone, Answered
<1>5. /\ s \in Session /\ s.at = "reread" /\ s.known = Known(a)
      /\ s.results = sessions[n].results
  <2> DEFINE k == Known(a)  x == sessions[n]
  <2>1. x \in Session /\ k \in [Uids -> Nat]
    BY <1>1, <1>2
  <2>2. s = [x EXCEPT !.at = "reread", !.known = k, !.wait = us]
    OBVIOUS
  <2> HIDE DEF k, x, s, us
  <2>3. s \in Session /\ s.at = "reread" /\ s.known = k /\ s.results = x.results
    BY <1>3, <2>1, <2>2 DEF Session, Waiting
  <2> QED
    BY <2>3 DEF k, x
<1> HIDE DEF s
<1>6. SessionFine(s)
  BY <1>1, <1>2, <1>5 DEF SessionFine
<1>7. requests' \in SUBSET Request
  BY <1>1, <1>3, <1>4, ReadRequests DEF Inv, TypeOK
<1>8. /\ seats' \in [Seats -> Seat] /\ OneSign(SeatValue)'
      /\ playing => \A i \in Seats : seats'[i].value = 0
  BY <1>4, SeatsStay
<1> HIDE DEF n
<1> QED
  BY <1>1, <1>4, <1>5, <1>6, <1>7, <1>8, SessionStep DEF Inv, TypeOK

(* Fair results are told.                                                  *)
LEMMA OverStep ==
  ASSUME Inv, NEW n \in Rounds, NEW results \in [Seats -> Result],
         \A i \in Seats : Fair(results[i]), Over(n, results),
         UNCHANGED <<seats, playing, coins, rounds, requests>>, answers' \subseteq answers
  PROVE  Inv'
<1> DEFINE s == [sessions[n] EXCEPT !.at = "over", !.results = results]
<1>1. sessions[n] \in Session /\ SessionFine(sessions[n])
  BY DEF Inv, TypeOK
<1>2. s \in Session /\ s.at = "over" /\ s.known = sessions[n].known
  BY <1>1 DEF Session
<1>3. sessions' = [sessions EXCEPT ![n] = s] /\ told' = told \cup {results[i] : i \in Seats}
  BY DEF Over
<1> HIDE DEF s
<1>4. SessionFine(s)
  BY <1>1, <1>2 DEF SessionFine
<1>5. told' \in SUBSET Result /\ \A r \in told' : Fair(r)
  BY <1>3 DEF Inv, TypeOK
<1>6. /\ seats' \in [Seats -> Seat] /\ OneSign(SeatValue)'
      /\ playing => \A i \in Seats : seats'[i].value = 0
  BY SeatsStay
<1> QED
  BY <1>2, <1>3, <1>4, <1>5, <1>6, SessionStep DEF Inv, TypeOK

(* The last answer to the second reads keeps Inv, and what it tells are    *)
(* the fair results.                                                       *)
LEMMA RereadDoneStep ==
  ASSUME SettleAssumption, Inv, NEW a \in answers, RereadDone(a)
  PROVE  Inv'
<1> DEFINE results == sessions[a.session].results
           known == Known(a)
           new == WithBalance(results, known)
<1>1. a.session \in Rounds /\ known \in [Uids -> Nat]
  BY KnownStep DEF RereadDone
<1>2. sessions[a.session] \in Session /\ SessionFine(sessions[a.session])
  BY <1>1 DEF Inv, TypeOK
<1>3. sessions[a.session].at = "reread"
  BY DEF RereadDone, Answered
<1>4. results \in [Seats -> Result] /\ \A i \in Seats : Fair(results[i])
  BY <1>2, <1>3 DEF Session, SessionFine
<1> HIDE DEF results, known
<1>5. \A i \in Seats : /\ results[i].uid \in Uids
                       /\ new[i] \in Result
                       /\ new[i].uid = results[i].uid /\ new[i].change = results[i].change
  BY <1>1, <1>4 DEF WithBalance, Result
<1>6. new \in [Seats -> Result]
  BY <1>5 DEF WithBalance
<1>7. \A i \in Seats : Fair(new[i])
  BY <1>4, <1>5 DEF Fair
<1>8. Over(a.session, new)
  BY DEF RereadDone, results, known
<1>9. UNCHANGED <<seats, playing, coins, rounds, requests>> /\ answers' \subseteq answers
  BY DEF RereadDone, Answered
<1> HIDE DEF new
<1> QED
  BY <1>1, <1>6, <1>7, <1>8, <1>9, OverStep

(* A refused update keeps Inv.                                             *)
LEMMA UpdateFailedStep ==
  ASSUME Inv, NEW a \in answers, UpdateFailed(a)
  PROVE  Inv'
<1>1. a.session \in Rounds
  BY DEF Inv, TypeOK, Answer
<1>2. sessions[a.session] \in Session /\ SessionFine(sessions[a.session])
  BY <1>1 DEF Inv, TypeOK
<1>3. sessions[a.session].at = "update"
  BY DEF UpdateFailed, Answered
<1>4. /\ sessions[a.session].results \in [Seats -> Result]
      /\ \A i \in Seats : Fair(sessions[a.session].results[i])
  BY <1>2, <1>3 DEF Session, SessionFine
<1>5. Over(a.session, sessions[a.session].results)
  BY DEF UpdateFailed
<1>6. UNCHANGED <<seats, playing, coins, rounds, requests>> /\ answers' \subseteq answers
  BY DEF UpdateFailed, Answered
<1> QED
  BY <1>1, <1>4, <1>5, <1>6, OverStep

(* The user server keeps Inv and the coins of every user, whether it       *)
(* accepts an update or refuses it.                                        *)
LEMMA UserServerStep ==
  ASSUME SettleAssumption, Inv, NEW r \in requests, UserServer(r)
  PROVE  Inv' /\ coins' = coins
<1>1. r \in Request
  BY DEF Inv, TypeOK
<1>2. r.session \in Rounds /\ r.uid \in Uids /\ r.pay \in [Seats -> Int]
  BY <1>1 DEF Request
<1> DEFINE done == OnUpdateData(coins[r.uid], r.pay)
           Answers(ok, c) == [session |-> r.session, uid |-> r.uid, ok |-> ok, coins |-> c]
<1>3. r.uid # None => r.uid \in Users /\ coins[r.uid] \in Nat
  BY <1>2 DEF Uids, Inv, TypeOK
<1>4. r.uid # None => done.coins = coins[r.uid] /\ done.ok \in BOOLEAN
  BY <1>2, <1>3, UpdateKeepsCoins
<1>5. PICK ok \in BOOLEAN, c \in Int :
        /\ answers' = answers \cup {Answers(ok, c)}
        /\ ok => r.uid \in Users /\ c = coins[r.uid]
        /\ coins' = coins
  <2>1. CASE r.uid = None
    <3>1. answers' = answers \cup {Answers(FALSE, 0)} /\ coins' = coins
      BY <2>1 DEF UserServer
    <3>2. FALSE \in BOOLEAN /\ 0 \in Int
      OBVIOUS
    <3> QED
      BY <3>1, <3>2, Zenon
  <2>2. CASE r.uid # None /\ r.kind = "get"
    <3>1. answers' = answers \cup {Answers(TRUE, coins[r.uid])} /\ coins' = coins
      BY <2>2 DEF UserServer
    <3>2. TRUE \in BOOLEAN /\ coins[r.uid] \in Int /\ r.uid \in Users
      BY <2>2, <1>3
    <3> QED
      BY <3>1, <3>2, Zenon
  <2>3. CASE r.uid # None /\ r.kind # "get"
    <3>1. /\ answers' = answers \cup {Answers(done.ok, done.coins)}
          /\ coins' = [coins EXCEPT ![r.uid] = done.coins]
      BY <2>3 DEF UserServer
    <3>2. done.coins \in Int /\ r.uid \in Users /\ done.coins = coins[r.uid] /\ done.ok \in BOOLEAN
      BY <2>3, <1>3, <1>4
    <3> HIDE DEF done
    <3>3. coins' = coins
      BY <3>1, <3>2 DEF Inv, TypeOK
    <3> QED
      BY <3>1, <3>2, <3>3, Zenon
  <2> QED
    BY <2>1, <2>2, <2>3
<1> DEFINE new == Answers(ok, c)
<1>6. new \in Answer /\ new.ok = ok /\ new.uid = r.uid /\ new.coins = c
  BY <1>2 DEF Answer
<1>7. answers' = answers \cup {new}
  BY <1>5
<1> HIDE DEF new
<1>8. UNCHANGED <<table, sessions, told>> /\ requests' \subseteq requests
  BY DEF UserServer
<1>9. TypeOK'
  BY <1>5, <1>6, <1>7, <1>8 DEF Inv, TypeOK, table
<1>10. (\A a \in answers : AnswerIsTrue(a))'
  <2> SUFFICES ASSUME NEW a \in answers' PROVE AnswerIsTrue(a)'
    OBVIOUS
  <2>1. CASE a \in answers
    BY <2>1, <1>5 DEF Inv, AnswerIsTrue
  <2>2. CASE a = new
    BY <2>2, <1>5, <1>6 DEF AnswerIsTrue
  <2> QED
    BY <1>7, <2>1, <2>2
<1>11. (\A n \in Rounds : SessionFine(sessions[n]))' /\ (\A t \in told : Fair(t))'
  BY <1>5, <1>8 DEF Inv, SessionFine, KnownIsTrue, Fair
<1>12. OneSign(SeatValue)' /\ (playing => \A i \in Seats : seats[i].value = 0)'
  BY <1>8 DEF Inv, SeatValue, OneSign, table
<1> QED
  BY <1>5, <1>9, <1>10, <1>11, <1>12 DEF Inv

(* Every step keeps Inv.                                                   *)
LEMMA NextInv == SettleAssumption /\ Inv /\ [Next]_vars => Inv'
<1> SUFFICES ASSUME SettleAssumption, Inv, [Next]_vars PROVE Inv'
  OBVIOUS
<1>1. CASE UNCHANGED vars
  BY <1>1 DEF vars, Inv, TypeOK, SeatValue, OneSign, SessionFine, KnownIsTrue,
              AnswerIsTrue, Fair
<1>2. CASE \/ \E i \in Seats, u \in Users : SitDown(i, u)
           \/ GameStart
           \/ \E i \in Seats : LogoutTable(i)
           \/ DissolveTable
  BY <1>2, TableStep
<1>3. CASE \E d \in Seats, w \in BOOLEAN, s \in [Seats -> Scores] : GameOver(d, w, s)
  BY <1>3, GameOverStep
<1>7. CASE GameOverUnplayed
  BY <1>7, GameOverUnplayedStep
<1>4. CASE \E n \in 1 .. MaxRounds : ProcessRequestMsg(n) \/ Timeout(n)
  BY <1>4, ProcessRequestMsgStep, TimeoutStep DEF Rounds
<1>5. CASE \E r \in requests : UserServer(r)
  BY <1>5, UserServerStep
<1>6. CASE \E a \in answers :
             \/ AnswerDropped(a) \/ AnswerCounted(a) \/ ReadDone(a) \/ UpdateDone(a)
             \/ RereadDone(a) \/ UpdateFailed(a) \/ ReadFailed(a)
  BY <1>6, AnswerDroppedStep, AnswerCountedStep, ReadDoneStep, UpdateDoneStep,
     RereadDoneStep, UpdateFailedStep, ReadFailedStep
<1> QED
  BY <1>1, <1>2, <1>3, <1>4, <1>5, <1>6, <1>7 DEF Next

(* Inv always holds.                                                       *)
LEMMA InvHolds == ASSUME SettleAssumption PROVE Spec => []Inv
<1>1. Init => Inv
  BY InitInv
<1>2. Inv /\ [Next]_vars => Inv'
  BY NextInv
<1> QED
  BY <1>1, <1>2, PTL DEF Spec

(* NobodyWins: whoever wins a round, however many leave or sit down while  *)
(* it is settled, no client is told of a coin won: the loop that writes    *)
(* coins_change_value leaves the dealer out, so a round has losers or      *)
(* winners but never both, and winners share what losers pay.              *)
THEOREM NobodyEverWins == ASSUME SettleAssumption PROVE Spec => []NobodyWins
<1>1. Inv => NobodyWins
  BY DEF Inv, Fair, NobodyWins
<1> QED
  BY <1>1, InvHolds, PTL

(* LossIsCovered: nobody is told to have lost more than he has, although   *)
(* the coins were read for the users of the seats as they were when the    *)
(* session began and the losses are those of the seats when the last       *)
(* answer came.                                                            *)
THEOREM LossesAreCovered == ASSUME SettleAssumption PROVE Spec => []LossIsCovered
<1>1. Inv => LossIsCovered
  BY DEF Inv, Fair, LossIsCovered
<1> QED
  BY <1>1, InvHolds, PTL

(* CoinsStay: the user server refuses or rolls back every update of coins  *)
(* that would change them, so no settlement moves a coin.                  *)
THEOREM CoinsNeverMove == ASSUME SettleAssumption PROVE Spec => CoinsStay
<1>1. SettleAssumption /\ Inv /\ [Next]_vars => [UNCHANGED coins]_vars
  <2> SUFFICES ASSUME SettleAssumption, Inv, Next PROVE coins' = coins
    BY DEF vars
  <2>1. CASE \E r \in requests : UserServer(r)
    BY <2>1, UserServerStep
  <2>2. CASE ~\E r \in requests : UserServer(r)
    BY <2>2 DEF Next, SitDown, GameStart, LogoutTable, DissolveTable, GameOver,
                GameOverUnplayed, RoundEnds, ProcessRequestMsg, Timeout, AnswerDropped, AnswerCounted, ReadDone,
                UpdateDone, RereadDone, UpdateFailed, ReadFailed, Answered
  <2> QED
    BY <2>1, <2>2
<1>2. Inv /\ [Next]_vars => [UNCHANGED coins]_vars
  BY <1>1
<1> QED
  BY <1>2, InvHolds, PTL DEF Spec, CoinsStay

=============================================================================
