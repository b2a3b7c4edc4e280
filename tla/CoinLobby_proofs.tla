-------------------------- MODULE CoinLobby_proofs --------------------------
(***************************************************************************)
(* Theorems about CoinLobby, for any number of players, robots, seats,     *)
(* tables, requests and timeouts.                                          *)
(*                                                                         *)
(* 1. Nobody holds two seats of one table, and _usertablemap names only    *)
(* tables where its user sits.  A user sits down when the answer to his    *)
(* update comes, unasked whether he sits there already.  What carries the  *)
(* proof (IInv) is what LockProcess and the check before the update give   *)
(* together: a user has one live enter session at most, and does not sit   *)
(* at its table.  Nothing but the end of that session seats him.           *)
(*                                                                         *)
(* 2. Who sits at two tables was put into the hall too early.  Of everyone *)
(* else the invariant (Placed) follows the position through the updates in *)
(* flight: where it differs from his table, the answer that takes him from *)
(* there is on its way, and it comes before the one that seats him anew.   *)
(*                                                                         *)
(* 3. The matcher loses no table (Shown): what a search drops from a file  *)
(* it puts into the right one.  This needs the numbers of players as       *)
(* cardinalities: they fall and rise by one, and stay below SeatNum while  *)
(* a seat is free.                                                         *)
(***************************************************************************)
EXTENDS CoinLobby, FiniteSetTheorems, TLAPS

SeatTypes ==
  /\ seats \in [Tables -> [Seats -> Users \cup {None}]]
  /\ usertable \in [Users -> Tables \cup {None}]
  /\ updates \in [Users -> Seq(Update)]

(* The i-th update of u is of a live enter session.                        *)
EntersLive(u, i) == updates[u][i].kind = "Enter" /\ updates[u][i].live

AwayFrom(u, i) == \A s \in Seats : seats[updates[u][i].tid][s] # u

OneEnters ==
  \A u \in Users : \A i \in DOMAIN updates[u] :
    EntersLive(u, i) => /\ AwayFrom(u, i)
                        /\ \A j \in DOMAIN updates[u] : EntersLive(u, j) => j = i

IInv == SeatTypes /\ OncePerTable /\ MapNamesASeat /\ OneEnters

-----------------------------------------------------------------------------
(* What a step may do to the updates of a user besides adding an enter:    *)
(* drop the first (shift is 1), end sessions, have some of them done.      *)
OnlyEnds(u, shift) ==
  \A i \in DOMAIN updates'[u] :
    EntersLive(u, i)' =>
      i + shift \in DOMAIN updates[u] /\ EntersLive(u, i + shift)
      /\ updates'[u][i].tid = updates[u][i + shift].tid

(* Ended sessions and given up seats leave OneEnters true.                 *)
LEMMA OneStillEnters ==
  ASSUME OneEnters, SeatTypes', NEW u \in Users, NEW shift \in {0, 1}, OnlyEnds(u, shift),
         \A t \in Tables : SitsAt(u, t)' => SitsAt(u, t)
  PROVE  \A i \in DOMAIN updates'[u] :
           EntersLive(u, i)' => /\ AwayFrom(u, i)'
                                /\ \A j \in DOMAIN updates'[u] : EntersLive(u, j)' => j = i
<1> SUFFICES ASSUME NEW i \in DOMAIN updates'[u], EntersLive(u, i)'
    PROVE  /\ AwayFrom(u, i)'
           /\ \A j \in DOMAIN updates'[u] : EntersLive(u, j)' => j = i
  OBVIOUS
<1>1. /\ i + shift \in DOMAIN updates[u] /\ EntersLive(u, i + shift)
      /\ updates'[u][i].tid = updates[u][i + shift].tid
  BY DEF OnlyEnds
<1>2. updates'[u] \in Seq(Update)
  BY DEF SeatTypes
<1>3. updates'[u][i].tid \in Tables
  <2>1. updates'[u][i] \in Update
    BY <1>2
  <2> QED BY <2>1 DEF Update
<1>4. AwayFrom(u, i)'
  <2>1. AwayFrom(u, i + shift)
    BY <1>1 DEF OneEnters
  <2> QED BY <1>1, <1>3, <2>1 DEF AwayFrom, SitsAt
<1>5. ASSUME NEW j \in DOMAIN updates'[u], EntersLive(u, j)' PROVE j = i
  <2>1. j + shift \in DOMAIN updates[u] /\ EntersLive(u, j + shift)
    BY <1>5 DEF OnlyEnds
  <2>2. j + shift = i + shift
    BY <1>1, <2>1 DEF OneEnters
  <2>3. i \in Nat /\ j \in Nat
    BY <1>2
  <2> QED BY <2>2, <2>3
<1> QED BY <1>3, <1>4, <1>5

(* The first update is answered and goes.                                  *)
LEMMA Answered ==
  ASSUME SeatTypes, NEW u \in Users, updates[u] # << >>,
         updates' = [updates EXCEPT ![u] = Tail(@)]
  PROVE  /\ 1 \in DOMAIN updates[u] /\ Head(updates[u]) = updates[u][1] /\ updates[u][1] \in Update
         /\ updates' \in [Users -> Seq(Update)]
         /\ \A i \in DOMAIN updates'[u] :
              i + 1 \in DOMAIN updates[u] /\ updates'[u][i] = updates[u][i + 1]
         /\ \A v \in Users \ {u} : updates'[v] = updates[v]
<1>1. updates[u] \in Seq(Update) /\ Len(updates[u]) \in Nat \ {0}
  BY DEF SeatTypes
<1>2. updates'[u] = Tail(updates[u]) /\ \A v \in Users \ {u} : updates'[v] = updates[v]
  BY DEF SeatTypes
<1>3. Tail(updates[u]) \in Seq(Update)
  BY <1>1
<1> QED BY <1>1, <1>2, <1>3 DEF SeatTypes

(* A new update goes to the end.                                           *)
LEMMA Appended ==
  ASSUME SeatTypes, NEW u \in Users, NEW up \in Update, updates'[u] = Append(updates[u], up)
  PROVE  /\ updates'[u] \in Seq(Update)
         /\ \A i \in DOMAIN updates'[u] :
              \/ i \in DOMAIN updates[u] /\ updates'[u][i] = updates[u][i]
              \/ i \notin DOMAIN updates[u] /\ i = Len(updates[u]) + 1 /\ updates'[u][i] = up
<1>1. updates[u] \in Seq(Update) /\ Len(updates[u]) \in Nat
  BY DEF SeatTypes
<1> QED BY <1>1

-----------------------------------------------------------------------------
(* The invariant holds in the initial state.                               *)
LEMMA LobbyInit == Init => IInv
BY LobbyAssumption DEF Init, IInv, SeatTypes, OncePerTable, MapNamesASeat, OneEnters, HasSeat,
     EntersLive, Users

(* Nobody moves and only updates that are no enters come.                  *)
LEMMA NobodyMoves ==
  ASSUME IInv, UNCHANGED << seats, usertable >>, updates' \in [Users -> Seq(Update)],
         \A u \in Users : OnlyEnds(u, 0)
  PROVE  IInv'
<1>1. SeatTypes' /\ OncePerTable' /\ MapNamesASeat'
  BY DEF IInv, SeatTypes, OncePerTable, MapNamesASeat, HasSeat, SitsAt
<1>2. OneEnters'
  <2>1. \A u \in Users : \A t \in Tables : SitsAt(u, t)' => SitsAt(u, t)
    BY DEF SitsAt
  <2> QED BY <1>1, <2>1, OneStillEnters DEF IInv, OneEnters
<1> QED BY <1>1, <1>2 DEF IInv

(* Steps that leave seats, map and updates alone keep the invariant.       *)
LEMMA NothingMoves == ASSUME IInv, UNCHANGED << seats, usertable, updates >> PROVE IInv'
<1>1. \A u \in Users : \A i \in DOMAIN updates[u] : i + 0 = i
  BY DEF IInv, SeatTypes
<1>2. \A u \in Users : OnlyEnds(u, 0)
  BY <1>1 DEF OnlyEnds, EntersLive
<1> QED BY <1>2, NobodyMoves DEF IInv, SeatTypes

(* A table is emptied, and nobody else's seat or entry changes.            *)
LEMMA TableEmptied ==
  ASSUME IInv, NEW t \in Tables, DissolveTable(t)
  PROVE  /\ seats' \in [Tables -> [Seats -> Users \cup {None}]]
         /\ usertable' \in [Users -> Tables \cup {None}]
         /\ OncePerTable' /\ MapNamesASeat'
         /\ \A u \in Users, v \in Tables : SitsAt(u, v)' => SitsAt(u, v)
<1>1. /\ seats' = [seats EXCEPT ![t] = [ s \in Seats |-> None ]]
      /\ usertable' = Dissolved(t)
  BY DEF DissolveTable
<1>2. seats \in [Tables -> [Seats -> Users \cup {None}]] /\ None \notin Users
  BY LobbyAssumption DEF IInv, SeatTypes
<1>3. seats' \in [Tables -> [Seats -> Users \cup {None}]]
  BY <1>1, <1>2
<1>4. \A v \in Tables : \A s \in Seats : seats'[v][s] = IF v = t THEN None ELSE seats[v][s]
  BY <1>1, <1>2
<1>5. usertable' \in [Users -> Tables \cup {None}]
  BY <1>1 DEF Dissolved, IInv, SeatTypes
<1>6. OncePerTable'
  BY <1>4 DEF IInv, OncePerTable
<1>7. \A u \in Users, v \in Tables : SitsAt(u, v)' <=> SitsAt(u, v) /\ v # t
  BY <1>2, <1>4 DEF SitsAt
<1>8. MapNamesASeat'
  <2> SUFFICES ASSUME NEW u \in Users, usertable'[u] # None
      PROVE  HasSeat(u)'
    BY DEF MapNamesASeat
  <2>1. usertable'[u] = usertable[u] /\ ~SitsAt(u, t)
    BY <1>1 DEF Dissolved
  <2>2. usertable[u] \in Tables /\ SitsAt(u, usertable[u])
    BY <2>1 DEF IInv, SeatTypes, MapNamesASeat, HasSeat
  <2>3. usertable[u] # t
    BY <2>1, <2>2
  <2>4. \E s \in Seats : seats'[usertable'[u]][s] = u
    BY <1>4, <2>1, <2>2, <2>3 DEF SitsAt
  <2> QED BY <2>4 DEF HasSeat, SitsAt
<1> QED BY <1>3, <1>5, <1>6, <1>7, <1>8

-----------------------------------------------------------------------------
(* The check before the update: who has a live enter session gets no       *)
(* other, and who sits at the table gets none.                             *)
LEMMA EnterKeeps ==
  ASSUME IInv, NEW u \in Users, NEW t \in Tables, EnterAtGame(u, t)
  PROVE  IInv'
<1>1. CASE UNCHANGED << seats, usertable, updates >>
  BY <1>1, NothingMoves
<1>2. CASE /\ SitsAt(u, t) /\ usertable' = [usertable EXCEPT ![u] = t]
           /\ UNCHANGED << seats, updates >>
  <2>1. SeatTypes' /\ OncePerTable'
    BY <1>2 DEF IInv, SeatTypes, OncePerTable
  <2>2. MapNamesASeat'
    BY <1>2, LobbyAssumption DEF IInv, SeatTypes, MapNamesASeat, HasSeat, SitsAt
  <2>3. OneEnters'
    BY <1>2 DEF IInv, OneEnters, EntersLive, AwayFrom
  <2> QED BY <2>1, <2>2, <2>3 DEF IInv
<1>3. CASE /\ ~Entering(u) /\ ~SitsAt(u, t) /\ UNCHANGED << seats, usertable >>
           /\ updates' = [updates EXCEPT ![u] = Append(@, NewUpdate("Enter", t))]
  <2> DEFINE up == NewUpdate("Enter", t)
  <2>1. up \in Update /\ up.tid = t
    BY DEF NewUpdate, Update
  <2>2. updates'[u] = Append(updates[u], up) /\ \A v \in Users \ {u} : updates'[v] = updates[v]
    BY <1>3 DEF IInv, SeatTypes
  <2> HIDE DEF up
  <2>3. /\ updates'[u] \in Seq(Update)
        /\ \A i \in DOMAIN updates'[u] :
             \/ i \in DOMAIN updates[u] /\ updates'[u][i] = updates[u][i]
             \/ i \notin DOMAIN updates[u] /\ i = Len(updates[u]) + 1 /\ updates'[u][i] = up
    BY <2>1, <2>2, Appended DEF IInv
  <2>4. updates' \in [Users -> Seq(Update)]
    BY <1>3, <2>1, <2>3 DEF IInv, SeatTypes
  <2>5. SeatTypes' /\ OncePerTable' /\ MapNamesASeat'
    BY <1>3, <2>4 DEF IInv, SeatTypes, OncePerTable, MapNamesASeat, HasSeat, SitsAt
  <2>6. \A i \in DOMAIN updates'[u] : EntersLive(u, i)' => i = Len(updates[u]) + 1 /\ updates'[u][i] = up
    BY <1>3, <2>3 DEF Entering, EntersLive
  <2>7. OneEnters'
    <3> SUFFICES ASSUME NEW v \in Users, NEW i \in DOMAIN updates'[v], EntersLive(v, i)'
        PROVE  /\ AwayFrom(v, i)'
               /\ \A j \in DOMAIN updates'[v] : EntersLive(v, j)' => j = i
      BY DEF OneEnters
    <3>1. CASE v = u
      BY <1>3, <2>1, <2>6, <3>1 DEF AwayFrom, SitsAt
    <3>2. CASE v # u
      BY <1>3, <2>2, <3>2 DEF IInv, OneEnters, EntersLive, AwayFrom
    <3> QED BY <3>1, <3>2
  <2> QED BY <2>5, <2>7 DEF IInv
<1> QED BY <1>1, <1>2, <1>3 DEF EnterAtGame, tables

(* Logouts and dissolutions ask for updates that are no enters.            *)
LEMMA OtherUpdateAdded ==
  ASSUME IInv, UNCHANGED << seats, usertable >>, NEW kind \in {"Logout", "Finish", "Gm"},
         NEW t \in Tables, updates' \in [Users -> Seq(Update)],
         \A u \in Users : \/ updates'[u] = updates[u]
                          \/ updates'[u] = Append(updates[u], NewUpdate(kind, t))
  PROVE  IInv'
<1>1. NewUpdate(kind, t) \in Update /\ NewUpdate(kind, t).kind # "Enter"
  BY DEF NewUpdate, Update
<1>2. ASSUME NEW u \in Users PROVE OnlyEnds(u, 0)
  <2>1. \A i \in DOMAIN updates[u] : i + 0 = i
    BY DEF IInv, SeatTypes
  <2>2. CASE updates'[u] = updates[u]
    BY <2>1, <2>2 DEF OnlyEnds, EntersLive
  <2>3. CASE updates'[u] = Append(updates[u], NewUpdate(kind, t))
    <3>1. \A i \in DOMAIN updates'[u] :
            \/ i \in DOMAIN updates[u] /\ updates'[u][i] = updates[u][i]
            \/ updates'[u][i] = NewUpdate(kind, t)
      BY <1>1, <2>3, Appended DEF IInv
    <3> QED BY <1>1, <2>1, <3>1 DEF OnlyEnds, EntersLive
  <2> QED BY <2>2, <2>3
<1> QED BY <1>2, NobodyMoves

(* A logout asks for an update that is no enter.                           *)
LEMMA LogoutKeeps == ASSUME IInv, NEW u \in Users, RequestLogout(u) PROVE IInv'
<1> DEFINE t == usertable[u]
<1>1. /\ t \in Tables /\ UNCHANGED << seats, usertable >>
      /\ updates' = [updates EXCEPT ![u] = Append(@, NewUpdate("Logout", t))]
  BY DEF RequestLogout, HasSeat, tables, IInv, SeatTypes
<1> HIDE DEF t
<1>2. NewUpdate("Logout", t) \in Update
  BY <1>1 DEF NewUpdate, Update
<1>3. updates' \in [Users -> Seq(Update)]
  BY <1>1, <1>2 DEF IInv, SeatTypes
<1>4. \A v \in Users : \/ updates'[v] = updates[v]
                       \/ updates'[v] = Append(updates[v], NewUpdate("Logout", t))
  BY <1>1 DEF IInv, SeatTypes
<1> QED BY <1>1, <1>3, <1>4, OtherUpdateAdded

(* A dissolution asks for updates that are no enters.                      *)
LEMMA DissolvingKeeps ==
  ASSUME IInv, NEW t \in Tables, NEW kind \in {"Finish", "Gm"}, Dissolving(kind, t),
         UNCHANGED << seats, usertable >>
  PROVE  IInv'
<1>1. updates' = [ u \in Users |-> IF SitsAt(u, t) THEN Append(updates[u], NewUpdate(kind, t))
                                   ELSE updates[u] ]
  BY DEF Dissolving
<1>2. NewUpdate(kind, t) \in Update
  BY DEF NewUpdate, Update
<1>3. updates' \in [Users -> Seq(Update)]
  BY <1>1, <1>2 DEF IInv, SeatTypes
<1>4. \A v \in Users : \/ updates'[v] = updates[v]
                       \/ updates'[v] = Append(updates[v], NewUpdate(kind, t))
  BY <1>1
<1> QED BY <1>3, <1>4, OtherUpdateAdded

(* The user server does an update: no session ends, none comes.            *)
LEMMA AtUserKeeps == ASSUME IInv, NEW u \in Users, UpdateAtUser(u) PROVE IInv'
<1>1. PICK i \in DOMAIN updates[u], done \in {"ok", "refused"} :
        updates' = [updates EXCEPT ![u][i].done = done]
  <2>1. PICK i \in DOMAIN updates[u] :
          updates' = [updates EXCEPT ![u][i].done =
             IF updates[u][i].kind = "Enter" /\ Crossing(u, updates[u][i].tid)
             THEN "refused" ELSE "ok"]
    BY DEF UpdateAtUser
  <2> QED BY <2>1
<1>2. UNCHANGED << seats, usertable >>
  BY DEF UpdateAtUser, tables
<1>3. updates[u] \in Seq(Update) /\ updates[u][i] \in Update
  BY DEF IInv, SeatTypes
<1>4. [updates[u][i] EXCEPT !.done = done] \in Update
  BY <1>3 DEF Update
<1>5. /\ updates'[u] = [updates[u] EXCEPT ![i] = [updates[u][i] EXCEPT !.done = done]]
      /\ \A v \in Users \ {u} : updates'[v] = updates[v]
  BY <1>1, <1>3 DEF IInv, SeatTypes
<1>6. /\ updates'[u] \in Seq(Update) /\ DOMAIN updates'[u] = DOMAIN updates[u]
      /\ \A j \in DOMAIN updates[u] :
           updates'[u][j] = IF j = i THEN [updates[u][i] EXCEPT !.done = done] ELSE updates[u][j]
  BY <1>3, <1>4, <1>5
<1>7. updates' \in [Users -> Seq(Update)]
  BY <1>1, <1>5, <1>6 DEF IInv, SeatTypes
<1>8. ASSUME NEW v \in Users PROVE OnlyEnds(v, 0)
  <2>1. \A j \in DOMAIN updates[v] : j + 0 = j
    BY DEF IInv, SeatTypes
  <2>2. \A j \in DOMAIN updates'[v] :
          /\ j \in DOMAIN updates[v] /\ updates'[v][j].kind = updates[v][j].kind
          /\ updates'[v][j].live = updates[v][j].live /\ updates'[v][j].tid = updates[v][j].tid
    BY <1>3, <1>5, <1>6 DEF Update
  <2> QED BY <2>1, <2>2 DEF OnlyEnds, EntersLive
<1> QED BY <1>2, <1>7, <1>8, NobodyMoves

(* The end of his one enter session seats a user, where he does not sit.   *)
LEMMA SitDownKeeps ==
  ASSUME IInv, NEW u \in Users, updates[u] # << >>, EntersLive(u, 1),
         updates' = [updates EXCEPT ![u] = Tail(@)], SitDown(u, updates[u][1].tid)
  PROVE  IInv'
<1> DEFINE t == updates[u][1].tid
<1>1. /\ 1 \in DOMAIN updates[u] /\ updates[u][1] \in Update
      /\ updates' \in [Users -> Seq(Update)]
      /\ \A i \in DOMAIN updates'[u] :
           i + 1 \in DOMAIN updates[u] /\ updates'[u][i] = updates[u][i + 1]
      /\ \A v \in Users \ {u} : updates'[v] = updates[v]
  BY Answered DEF IInv
<1>2. t \in Tables
  BY <1>1 DEF Update
<1>3. ~SitsAt(u, t)
  BY <1>1 DEF IInv, OneEnters, AwayFrom, SitsAt
<1>4. \A i \in DOMAIN updates'[u] : ~EntersLive(u, i)'
  <2> SUFFICES ASSUME NEW i \in DOMAIN updates'[u], EntersLive(u, i)' PROVE FALSE
    OBVIOUS
  <2>1. EntersLive(u, i + 1)
    BY <1>1 DEF EntersLive
  <2>2. i + 1 = 1
    BY <1>1, <2>1 DEF IInv, OneEnters
  <2>3. i \in Nat \ {0}
    BY <1>1
  <2> QED BY <2>2, <2>3
<1>5. CASE UNCHANGED tables
  <2>1. SeatTypes' /\ OncePerTable' /\ MapNamesASeat'
    BY <1>1, <1>5 DEF IInv, SeatTypes, OncePerTable, MapNamesASeat, HasSeat, SitsAt, tables
  <2>2. OneEnters'
    BY <1>1, <1>4, <1>5 DEF IInv, OneEnters, EntersLive, AwayFrom, tables
  <2> QED BY <2>1, <2>2 DEF IInv
<1>6. CASE EmptySeats(t) # {}
  <2> HIDE DEF t
  <2>1. PICK s \in EmptySeats(t) : seats' = [seats EXCEPT ![t][s] = u]
    BY <1>6 DEF SitDown, t
  <2>2. usertable' = [usertable EXCEPT ![u] = t]
    BY <1>6 DEF SitDown, t
  <2>3. s \in Seats /\ seats[t][s] = None
    BY DEF EmptySeats
  <2>4. /\ seats' \in [Tables -> [Seats -> Users \cup {None}]]
        /\ \A v \in Tables : \A r \in Seats :
             seats'[v][r] = IF v = t /\ r = s THEN u ELSE seats[v][r]
    BY <1>2, <2>1, <2>3 DEF IInv, SeatTypes
  <2>5. SeatTypes'
    BY <1>1, <1>2, <2>2, <2>4 DEF IInv, SeatTypes
  <2>6. OncePerTable'
    BY <1>2, <1>3, <2>4 DEF IInv, OncePerTable, SitsAt
  <2>7. MapNamesASeat'
    <3> SUFFICES ASSUME NEW v \in Users, usertable'[v] # None
        PROVE  \E r \in Seats : seats'[usertable'[v]][r] = v
      BY DEF MapNamesASeat, HasSeat, SitsAt
    <3>1. CASE v = u
      BY <1>2, <2>2, <2>3, <2>4, <3>1 DEF IInv, SeatTypes
    <3>2. CASE v # u
      <4>1. usertable'[v] = usertable[v] /\ usertable[v] \in Tables
        BY <2>2, <3>2 DEF IInv, SeatTypes
      <4>2. PICK r \in Seats : seats[usertable[v]][r] = v
        BY <4>1 DEF IInv, MapNamesASeat, HasSeat, SitsAt
      <4>3. ~(usertable[v] = t /\ r = s)
        BY <2>3, <4>2, LobbyAssumption
      <4> QED BY <2>4, <4>1, <4>2, <4>3
    <3> QED BY <3>1, <3>2
  <2>8. OneEnters'
    <3> SUFFICES ASSUME NEW v \in Users, NEW i \in DOMAIN updates'[v], EntersLive(v, i)'
        PROVE  /\ AwayFrom(v, i)'
               /\ \A j \in DOMAIN updates'[v] : EntersLive(v, j)' => j = i
      BY DEF OneEnters
    <3>1. v # u
      BY <1>4
    <3>2. updates'[v] = updates[v] /\ updates[v][i].tid \in Tables
      <4>1. updates'[v] = updates[v] /\ updates[v][i] \in Update
        BY <1>1, <3>1 DEF IInv, SeatTypes
      <4> QED BY <4>1 DEF Update
    <3>3. AwayFrom(v, i)
      BY <3>2 DEF IInv, OneEnters, EntersLive
    <3>4. AwayFrom(v, i)'
      BY <2>4, <3>1, <3>2, <3>3 DEF AwayFrom
    <3> QED BY <3>2, <3>4 DEF IInv, OneEnters, EntersLive
  <2> QED BY <2>5, <2>6, <2>7, <2>8 DEF IInv
<1> QED BY <1>5, <1>6 DEF SitDown

(* Seats are only given up, and updates end.                               *)
LEMMA SeatsGivenUp ==
  ASSUME IInv, SeatTypes', OncePerTable', MapNamesASeat',
         \A v \in Users, w \in Tables : SitsAt(v, w)' => SitsAt(v, w),
         \A v \in Users : \E shift \in {0, 1} : OnlyEnds(v, shift)
  PROVE  IInv'
<1>1. OneEnters'
  BY OneStillEnters DEF IInv, OneEnters
<1> QED BY <1>1 DEF IInv

(* A user leaves his table, and nobody else's seat changes.                *)
LEMMA LogoutTableKeeps ==
  ASSUME IInv, NEW u \in Users, HasSeat(u), LogoutTable(u, usertable[u])
  PROVE  /\ seats' \in [Tables -> [Seats -> Users \cup {None}]]
         /\ usertable' \in [Users -> Tables \cup {None}]
         /\ OncePerTable' /\ MapNamesASeat'
         /\ \A v \in Users, w \in Tables : SitsAt(v, w)' => SitsAt(v, w)
<1> DEFINE t == usertable[u]
           s == SeatOf(u, t)
<1>1. t \in Tables /\ SitsAt(u, t)
  BY DEF HasSeat, IInv, SeatTypes
<1>2. s \in Seats /\ seats[t][s] = u
  BY <1>1 DEF SeatOf, SitsAt
<1>3. /\ seats' = [seats EXCEPT ![t][s] = None]
      /\ usertable' = [usertable EXCEPT ![u] = None]
  BY DEF LogoutTable
<1> HIDE DEF t, s
<1>4. /\ seats' \in [Tables -> [Seats -> Users \cup {None}]]
      /\ \A w \in Tables : \A r \in Seats :
           seats'[w][r] = IF w = t /\ r = s THEN None ELSE seats[w][r]
  BY <1>1, <1>2, <1>3 DEF IInv, SeatTypes
<1>5. usertable' \in [Users -> Tables \cup {None}]
  BY <1>3 DEF IInv, SeatTypes
<1>6. OncePerTable'
  BY <1>4 DEF IInv, OncePerTable
<1>7. \A v \in Users, w \in Tables : SitsAt(v, w)' => SitsAt(v, w)
  BY <1>4, LobbyAssumption DEF SitsAt
<1>8. MapNamesASeat'
  <2> SUFFICES ASSUME NEW v \in Users, usertable'[v] # None
      PROVE  \E r \in Seats : seats'[usertable'[v]][r] = v
    BY DEF MapNamesASeat, HasSeat, SitsAt
  <2>1. v # u /\ usertable'[v] = usertable[v] /\ usertable[v] \in Tables
    BY <1>3 DEF IInv, SeatTypes
  <2>2. PICK r \in Seats : seats[usertable[v]][r] = v
    BY <2>1 DEF IInv, MapNamesASeat, HasSeat, SitsAt
  <2>3. ~(usertable[v] = t /\ r = s)
    BY <1>2, <2>1, <2>2
  <2> QED BY <1>4, <2>1, <2>2, <2>3
<1> QED BY <1>4, <1>5, <1>6, <1>7, <1>8

(* The answer to an update seats a user, takes him away, empties a table   *)
(* or does nothing.                                                        *)
LEMMA AnsweredKeeps == ASSUME IInv, NEW u \in Users, UpdateAnswered(u) PROVE IInv'
<1>1. /\ updates[u] # << >> /\ Head(updates[u]).done # "no"
      /\ updates' = [updates EXCEPT ![u] = Tail(@)]
  BY DEF UpdateAnswered
<1>2. /\ 1 \in DOMAIN updates[u] /\ Head(updates[u]) = updates[u][1] /\ updates[u][1] \in Update
      /\ updates' \in [Users -> Seq(Update)]
      /\ \A i \in DOMAIN updates'[u] :
           i + 1 \in DOMAIN updates[u] /\ updates'[u][i] = updates[u][i + 1]
      /\ \A v \in Users \ {u} : updates'[v] = updates[v]
  BY <1>1, Answered DEF IInv
<1>3. \A v \in Users : \E shift \in {0, 1} : OnlyEnds(v, shift)
  <2>1. OnlyEnds(u, 1)
    BY <1>2 DEF OnlyEnds, EntersLive
  <2>2. ASSUME NEW v \in Users \ {u} PROVE OnlyEnds(v, 0)
    <3>1. \A i \in DOMAIN updates[v] : i + 0 = i
      BY DEF IInv, SeatTypes
    <3> QED BY <1>2, <3>1 DEF OnlyEnds, EntersLive
  <2> QED BY <2>1, <2>2
<1>4. CASE EntersLive(u, 1) /\ SitDown(u, updates[u][1].tid)
  BY <1>1, <1>4, SitDownKeeps
<1>5. CASE HasSeat(u) /\ LogoutTable(u, usertable[u])
  <2>1. SeatTypes' /\ OncePerTable' /\ MapNamesASeat'
    BY <1>2, <1>5, LogoutTableKeeps DEF SeatTypes
  <2> QED BY <1>3, <1>5, <2>1, LogoutTableKeeps, SeatsGivenUp
<1>6. CASE DissolveTable(updates[u][1].tid)
  <2>1. updates[u][1].tid \in Tables
    BY <1>2 DEF Update
  <2>2. SeatTypes' /\ OncePerTable' /\ MapNamesASeat'
    BY <1>2, <1>6, <2>1, TableEmptied DEF SeatTypes
  <2> QED BY <1>3, <1>6, <2>1, <2>2, TableEmptied, SeatsGivenUp
<1>7. CASE UNCHANGED tables
  <2>1. SeatTypes' /\ OncePerTable' /\ MapNamesASeat'
    BY <1>2, <1>7 DEF IInv, SeatTypes, OncePerTable, MapNamesASeat, HasSeat, SitsAt, tables
  <2>2. \A v \in Users, w \in Tables : SitsAt(v, w)' => SitsAt(v, w)
    BY <1>7 DEF SitsAt, tables
  <2> QED BY <1>3, <2>1, <2>2, SeatsGivenUp
<1> QED BY <1>2, <1>4, <1>5, <1>6, <1>7 DEF UpdateAnswered, EntersLive

(* A timeout ends sessions, and may dissolve a table.                      *)
LEMMA TimeoutKeeps ==
  ASSUME IInv, NEW u \in Users, NEW i \in DOMAIN updates[u], SessionTimeout(u, i)
  PROVE  IInv'
<1> DEFINE up == updates[u][i]
           Dead(x) == IF x.kind = up.kind /\ x.tid = up.tid THEN [x EXCEPT !.live = FALSE] ELSE x
<1>1. updates[u] \in Seq(Update) /\ up \in Update /\ up.tid \in Tables
  <2>1. updates[u] \in Seq(Update) /\ up \in Update
    BY DEF IInv, SeatTypes
  <2> QED BY <2>1 DEF Update
<1>2. \/ updates' = [ v \in Users |-> [ j \in DOMAIN updates[v] |-> Dead(updates[v][j]) ] ]
      \/ updates' = [updates EXCEPT ![u][i].live = FALSE]
  BY DEF SessionTimeout
<1>3. \/ DissolveTable(up.tid) \/ UNCHANGED << seats, usertable >>
  BY DEF SessionTimeout, tables
<1>4. \A v \in Users : \A j \in DOMAIN updates[v] :
        /\ updates[v] \in Seq(Update) /\ updates[v][j] \in Update
        /\ [updates[v][j] EXCEPT !.live = FALSE] \in Update
  <2> SUFFICES ASSUME NEW v \in Users, NEW j \in DOMAIN updates[v]
      PROVE  /\ updates[v] \in Seq(Update) /\ updates[v][j] \in Update
             /\ [updates[v][j] EXCEPT !.live = FALSE] \in Update
    OBVIOUS
  <2>1. updates[v] \in Seq(Update) /\ updates[v][j] \in Update
    BY DEF IInv, SeatTypes
  <2> QED BY <2>1 DEF Update
<1>5. ASSUME NEW v \in Users
      PROVE  /\ updates'[v] \in Seq(Update) /\ DOMAIN updates'[v] = DOMAIN updates[v]
             /\ \A j \in DOMAIN updates[v] :
                  \/ updates'[v][j] = updates[v][j]
                  \/ updates'[v][j] = [updates[v][j] EXCEPT !.live = FALSE]
  <2>1. updates[v] \in Seq(Update) /\ updates \in [Users -> Seq(Update)]
    BY DEF IInv, SeatTypes
  <2>2. CASE updates' = [ w \in Users |-> [ j \in DOMAIN updates[w] |-> Dead(updates[w][j]) ] ]
    <3>1. updates'[v] = [ j \in DOMAIN updates[v] |-> Dead(updates[v][j]) ]
      BY <2>2
    <3>2. \A j \in DOMAIN updates[v] :
            Dead(updates[v][j]) \in {updates[v][j], [updates[v][j] EXCEPT !.live = FALSE]}
      OBVIOUS
    <3> HIDE DEF Dead
    <3>3. \A j \in DOMAIN updates[v] : Dead(updates[v][j]) \in Update
      BY <1>4, <3>2
    <3>4. updates'[v] \in Seq(Update)
      BY <2>1, <3>1, <3>3
    <3> QED BY <3>1, <3>2, <3>4
  <2>3. CASE updates' = [updates EXCEPT ![u][i].live = FALSE]
    <3>1. updates'[v] = IF v = u THEN [updates[u] EXCEPT ![i] = [updates[u][i] EXCEPT !.live = FALSE]]
                        ELSE updates[v]
      BY <2>1, <2>3
    <3> HIDE DEF up
    <3>2. [updates[u][i] EXCEPT !.live = FALSE] \in Update
      BY <1>4
    <3>3. CASE v = u
      <4>1. updates'[v] = [updates[v] EXCEPT ![i] = [updates[v][i] EXCEPT !.live = FALSE]]
        BY <3>1, <3>3
      <4>2. \A j \in DOMAIN updates[v] :
              updates'[v][j] = IF j = i THEN [updates[v][i] EXCEPT !.live = FALSE] ELSE updates[v][j]
        BY <2>1, <4>1
      <4>3. updates'[v] \in Seq(Update) /\ DOMAIN updates'[v] = DOMAIN updates[v]
        BY <2>1, <3>2, <3>3, <4>1
      <4> QED BY <4>2, <4>3
    <3>4. CASE v # u
      BY <2>1, <3>1, <3>4
    <3> QED BY <3>3, <3>4
  <2> QED BY <1>2, <2>2, <2>3
<1>6. updates' \in [Users -> Seq(Update)]
  <2>1. updates' = [ v \in Users |-> updates'[v] ]
    BY <1>2 DEF IInv, SeatTypes
  <2> QED BY <1>5, <2>1
<1>7. ASSUME NEW v \in Users PROVE OnlyEnds(v, 0)
  <2>1. \A j \in DOMAIN updates[v] : j + 0 = j
    BY DEF IInv, SeatTypes
  <2>2. \A j \in DOMAIN updates'[v] :
          /\ j \in DOMAIN updates[v] /\ updates'[v][j].kind = updates[v][j].kind
          /\ updates'[v][j].tid = updates[v][j].tid
          /\ updates'[v][j].live => updates[v][j].live
    <3> SUFFICES ASSUME NEW j \in DOMAIN updates'[v]
        PROVE  /\ j \in DOMAIN updates[v] /\ updates'[v][j].kind = updates[v][j].kind
               /\ updates'[v][j].tid = updates[v][j].tid
               /\ updates'[v][j].live => updates[v][j].live
      OBVIOUS
    <3>1. j \in DOMAIN updates[v] /\ updates[v][j] \in Update
      BY <1>4, <1>5
    <3>2. \/ updates'[v][j] = updates[v][j]
          \/ updates'[v][j] = [updates[v][j] EXCEPT !.live = FALSE]
      BY <1>5, <3>1
    <3> QED BY <3>1, <3>2 DEF Update
  <2> QED BY <2>1, <2>2 DEF OnlyEnds, EntersLive
<1>8. CASE DissolveTable(up.tid)
  <2>1. SeatTypes' /\ OncePerTable' /\ MapNamesASeat'
    BY <1>1, <1>6, <1>8, TableEmptied DEF SeatTypes
  <2>2. \A v \in Users : \E shift \in {0, 1} : OnlyEnds(v, shift)
    BY <1>7
  <2> QED BY <1>1, <1>8, <2>1, <2>2, TableEmptied, SeatsGivenUp
<1>9. CASE UNCHANGED << seats, usertable >>
  BY <1>6, <1>7, <1>9, NobodyMoves
<1> QED BY <1>3, <1>8, <1>9

-----------------------------------------------------------------------------
(* Every step keeps the invariant.                                         *)
LEMMA LobbyNext == IInv /\ [Next]_vars => IInv'
<1> SUFFICES ASSUME IInv, [Next]_vars PROVE IInv'
  OBVIOUS
<1>1. ASSUME NEW u \in Users,
             RequestMatch(u) \/ RequestEnter(u) \/ ClientGone(u) \/ RoomUpdated(u)
      PROVE  IInv'
  BY <1>1, NothingMoves DEF RequestMatch, RequestEnter, ClientGone, RoomUpdated, tables
<1>2. ASSUME NEW u \in Users, RequestLogout(u) \/ UpdateAtUser(u) \/ UpdateAnswered(u)
      PROVE  IInv'
  BY <1>2, LogoutKeeps, AtUserKeeps, AnsweredKeeps
<1>3. ASSUME NEW u \in Users, NEW x \in Tables \cup {None}, MatchAtGame(u, x) PROVE IInv'
  BY <1>3, NothingMoves DEF MatchAtGame
<1>4. ASSUME NEW u \in Users, NEW t \in Tables, EnterAtGame(u, t) PROVE IInv'
  BY <1>4, EnterKeeps
<1>5. ASSUME NEW u \in Users, NEW i \in DOMAIN updates[u], SessionTimeout(u, i) PROVE IInv'
  BY <1>5, TimeoutKeeps
<1>6. ASSUME NEW t \in Tables, Start(t) \/ Finish(t) \/ GmDissolve(t) PROVE IInv'
  <2>1. CASE Start(t)
    BY <2>1, NothingMoves DEF Start
  <2>2. CASE Finish(t)
    BY <2>2, DissolvingKeeps DEF Finish
  <2>3. CASE GmDissolve(t)
    BY <2>3, DissolvingKeeps DEF GmDissolve, tables
  <2> QED BY <1>6, <2>1, <2>2, <2>3
<1>7. CASE UNCHANGED vars
  BY <1>7, NothingMoves DEF vars, tables
<1> QED BY <1>1, <1>2, <1>3, <1>4, <1>5, <1>6, <1>7 DEF Next

(* The invariant always holds.                                             *)
LEMMA LobbySafe == Spec => []IInv
BY LobbyInit, LobbyNext, PTL DEF Spec

(* Nobody holds two seats of a table, although ProcessUpdateSucc seats a   *)
(* user without looking for him: the lock of CRequestEnterTable and the    *)
(* check before its update are enough.                                     *)
THEOREM NobodySitsTwice == Spec => []OncePerTable
<1>1. IInv => OncePerTable
  BY DEF IInv
<1> QED BY <1>1, LobbySafe, PTL

(* _usertablemap never names a table its user has left: LogoutTable and    *)
(* DissolveTable of any session leave no stale entry, in any order.        *)
THEOREM MapIsCurrent == Spec => []MapNamesASeat
<1>1. IInv => MapNamesASeat
  BY DEF IInv
<1> QED BY <1>1, LobbySafe, PTL

-----------------------------------------------------------------------------
(* The types of the other variables.                                       *)
FileType == [0 .. SeatNum -> SUBSET Tables]

(* Every operator on the files keeps their type.                           *)
LEMMA FilesTyped ==
  ASSUME NEW f \in FileType, filed \in FileType, NEW t \in Tables
  PROVE  /\ \A n : Refiled(f, t, n) \in FileType
         /\ \A n : Left(f, t, n) \in FileType
         /\ Created(f, t) \in FileType
         /\ \A i \in 0 .. SeatNum : \A u, x : Swept(f, i, u, x) \in FileType
         /\ \A K, x : K \subseteq 0 .. SeatNum => Files(K, x) \in FileType
         /\ \A i : [f EXCEPT ![i] = @ \ {t}, ![i + 1] = @ \cup {t}] \in FileType
<1>1. \A n : Refiled(f, t, n) \in FileType
  BY DEF Refiled, FileType
<1>2. \A n : Left(f, t, n) \in FileType
  BY DEF Left, FileType
<1>3. Created(f, t) \in FileType
  BY DEF Created, FileType
<1>4. ASSUME NEW i \in 0 .. SeatNum, NEW u, NEW x PROVE Swept(f, i, u, x) \in FileType
  <2> DEFINE hits  == Hits(f, i, u, x)
             ahead == { v \in f[i] : v # x /\ \A h \in hits : v < h }
             out   == { v \in ahead : v \notin InPlace(f, i) }
             to(k) == { v \in out : Waiting(v) /\ PlayerNum(v) = k }
             g     == [ k \in DOMAIN f |-> IF k = i THEN f[k] \ out ELSE f[k] \cup to(k) ]
  <2>1. DOMAIN f = 0 .. SeatNum /\ \A k \in 0 .. SeatNum : f[k] \subseteq Tables
    BY DEF FileType
  <2>2. \A k \in 0 .. SeatNum : f[k] \cup to(k) \subseteq Tables
    BY <2>1
  <2>3. \A k \in 0 .. SeatNum : f[k] \ out \subseteq Tables
    BY <2>1
  <2>4. Swept(f, i, u, x) = g
    BY DEF Swept
  <2> HIDE DEF out, to
  <2>5. g \in FileType
    BY <2>1, <2>2, <2>3 DEF FileType
  <2> QED BY <2>4, <2>5
<1>5. ASSUME NEW K, NEW x, K \subseteq 0 .. SeatNum PROVE Files(K, x) \in FileType
  <2> DEFINE out == UNION { Misfiled(i, x) : i \in K }
  <2>1. DOMAIN filed = 0 .. SeatNum /\ \A k \in 0 .. SeatNum : filed[k] \subseteq Tables
    BY DEF FileType
  <2>2. out \subseteq Tables
    BY <1>5, <2>1 DEF Misfiled
  <2> HIDE DEF out
  <2>3. \A k \in 0 .. SeatNum :
          { v \in filed[k] : ~(k \in K /\ v \in Misfiled(k, x)) }
          \cup { v \in out : Waiting(v) /\ PlayerNum(v) = k } \in SUBSET Tables
    BY <2>1, <2>2
  <2>4. Files(K, x) =
          [ k \in 0 .. SeatNum |->
              { v \in filed[k] : ~(k \in K /\ v \in Misfiled(k, x)) }
              \cup { v \in out : Waiting(v) /\ PlayerNum(v) = k } ]
    BY <2>1 DEF Files, out
  <2> QED BY <2>3, <2>4 DEF FileType
<1>6. \A i : [f EXCEPT ![i] = @ \ {t}, ![i + 1] = @ \cup {t}] \in FileType
  BY DEF FileType
<1> QED BY <1>1, <1>2, <1>3, <1>4, <1>5, <1>6

(* There are SeatNum seats.                                                *)
LEMMA SeatsFinite == IsFiniteSet(Seats) /\ Cardinality(Seats) = SeatNum
BY LobbyAssumption, FS_Interval DEF Seats

(* A number of players is a number a file has.                             *)
LEMMA PlayersCounted ==
  ASSUME NEW t \in Tables
  PROVE  /\ PlayerNum(t) \in 0 .. SeatNum
         /\ EmptySeats(t) # {} => PlayerNum(t) < SeatNum
         /\ Taken(seats[t]) # {} => PlayerNum(t) > 0
<1> DEFINE T == Taken(seats[t])
<1>1. IsFiniteSet(Seats) /\ Cardinality(Seats) = SeatNum
  BY SeatsFinite
<1>2. T \subseteq Seats /\ (EmptySeats(t) # {} => T # Seats)
  BY DEF Taken, EmptySeats
<1> HIDE DEF T
<1>3. IsFiniteSet(T) /\ Cardinality(T) <= SeatNum /\ (Cardinality(T) = SeatNum => T = Seats)
  BY <1>1, <1>2, FS_Subset
<1>4. Cardinality(T) \in Nat /\ (Cardinality(T) = 0 <=> T = {})
  BY <1>3, FS_CardinalityType, FS_EmptySet
<1> QED BY <1>2, <1>3, <1>4, LobbyAssumption DEF PlayerNum, T

(* The types hold after every step.                                        *)
LEMMA TypesKept ==
  ASSUME TypeOK, IInv', [Next]_vars
  PROVE  TypeOK'
<1> DEFINE Rest == /\ state' \in [Tables -> {"NONE", "WAIT", "PLAYING", "FINISH"}]
                   /\ filed' \in FileType /\ lastTid' \in Tables \cup {0}
                   /\ coinPos' \in [Users -> Tables \cup {Hall}]
                   /\ room' \subseteq Users \X {"match", "clearMatch", "clear"}
                   /\ told' \in [Users -> Tables \cup {None}]
                   /\ forwarded' \subseteq Users \X Tables
                   /\ requests' \in 0 .. MaxRequests /\ timeouts' \in 0 .. MaxTimeouts
                   /\ reserved' \subseteq Tables
                   /\ strayed' \subseteq Users \X {"room", "timeout", "dissolving"}
<1> SUFFICES Rest
  BY DEF TypeOK, IInv, SeatTypes, FileType
<1>t. /\ state \in [Tables -> {"NONE", "WAIT", "PLAYING", "FINISH"}]
      /\ filed \in FileType /\ lastTid \in Tables \cup {0}
      /\ coinPos \in [Users -> Tables \cup {Hall}]
      /\ room \subseteq Users \X {"match", "clearMatch", "clear"}
      /\ told \in [Users -> Tables \cup {None}]
      /\ forwarded \subseteq Users \X Tables
      /\ requests \in 0 .. MaxRequests /\ timeouts \in 0 .. MaxTimeouts
      /\ reserved \subseteq Tables
      /\ strayed \subseteq Users \X {"room", "timeout", "dissolving"}
      /\ usertable \in [Users -> Tables \cup {None}]
      /\ updates \in [Users -> Seq(Update)]
  BY DEF TypeOK, FileType
<1>r. ASSUME Request PROVE requests' \in 0 .. MaxRequests
  BY <1>r, <1>t, LobbyAssumption DEF Request
<1>1. ASSUME NEW u \in Users, RequestMatch(u) PROVE Rest
  BY <1>1, <1>t, <1>r DEF RequestMatch, tables
<1>2. ASSUME NEW u \in Users, RequestEnter(u) PROVE Rest
  <2>1. told[u] \in Tables
    BY <1>2, <1>t DEF RequestEnter
  <2> QED BY <1>2, <1>t, <1>r, <2>1 DEF RequestEnter, tables
<1>3. ASSUME NEW u \in Users, RequestLogout(u) PROVE Rest
  BY <1>3, <1>t, <1>r DEF RequestLogout, tables, ways
<1>4. ASSUME NEW u \in Users, ClientGone(u) PROVE Rest
  BY <1>4, <1>t DEF ClientGone, tables, counts
<1>5. ASSUME NEW u \in Users, RoomUpdated(u) PROVE Rest
  BY <1>5, <1>t DEF RoomUpdated, tables, counts, Hall
<1>6. ASSUME NEW u \in Users, UpdateAtUser(u) PROVE Rest
  <2>1. PICK i \in DOMAIN updates[u] :
          /\ coinPos' \in {coinPos, [coinPos EXCEPT ![u] = updates[u][i].tid],
                           [coinPos EXCEPT ![u] = Hall]}
          /\ strayed' \subseteq strayed \cup {<< u, "dissolving" >>}
          /\ UNCHANGED << tables, ways, counts, reserved >>
    BY <1>6 DEF UpdateAtUser
  <2>2. updates[u][i] \in Update
    BY <1>t
  <2>3. updates[u][i].tid \in Tables
    BY <2>2 DEF Update
  <2>4. coinPos' \in [Users -> Tables \cup {Hall}]
    BY <1>t, <2>1, <2>3
  <2>5. strayed' \subseteq Users \X {"room", "timeout", "dissolving"}
    BY <1>t, <2>1
  <2> QED BY <1>t, <2>1, <2>4, <2>5 DEF tables, ways, counts
<1>7. ASSUME NEW t \in Tables, DissolveTable(t) \/ UNCHANGED << tables, reserved >>
      PROVE  /\ filed' \in FileType /\ reserved' \subseteq Tables
             /\ UNCHANGED << state, lastTid >>
  <2>1. CASE DissolveTable(t)
    <3>1. \A k \in 0 .. SeatNum :
            (CASE k \in 1 .. PlayerNum(t) -> filed[k] \ {t}
               [] k = 0 /\ PlayerNum(t) > 0 /\ Waiting(t) -> filed[k] \cup {t}
               [] OTHER -> filed[k]) \in SUBSET Tables
      BY <1>t DEF FileType
    <3> QED BY <1>t, <2>1, <3>1 DEF DissolveTable, FileType
  <2>2. CASE UNCHANGED << tables, reserved >>
    BY <1>t, <2>2 DEF tables
  <2> QED BY <1>7, <2>1, <2>2
<1>8. StillIn(strayed) \subseteq strayed
  BY DEF StillIn
<1>9. ASSUME NEW u \in Users, UpdateAnswered(u) PROVE Rest
  <2>1. Head(updates[u]).tid \in Tables
    <3>1. updates[u] # << >> /\ updates[u] \in Seq(Update)
      BY <1>9, <1>t DEF UpdateAnswered
    <3>2. Head(updates[u]) \in Update
      BY <3>1
    <3> QED BY <3>2 DEF Update
  <2> DEFINE t == Head(updates[u]).tid
  <2>2. strayed' = StillIn(strayed) /\ UNCHANGED << ways, counts, coinPos >>
    BY <1>9 DEF UpdateAnswered
  <2>3. /\ state' \in [Tables -> {"NONE", "WAIT", "PLAYING", "FINISH"}]
        /\ filed' \in FileType /\ lastTid' = lastTid /\ reserved' \subseteq Tables
    <3>1. CASE SitDown(u, t)
      BY <1>t, <2>1, <3>1, FilesTyped DEF SitDown, tables
    <3>2. CASE HasSeat(u) /\ LogoutTable(u, usertable[u])
      BY <1>t, <3>2, FilesTyped DEF HasSeat, LogoutTable
    <3>3. CASE DissolveTable(t) \/ UNCHANGED << tables, reserved >>
      BY <1>t, <2>1, <3>3, <1>7
    <3> QED BY <1>9, <3>1, <3>2, <3>3 DEF UpdateAnswered
  <2> QED BY <1>t, <1>8, <2>2, <2>3 DEF ways, counts
<1>10. ASSUME NEW u \in Users, NEW i \in DOMAIN updates[u], SessionTimeout(u, i) PROVE Rest
  <2>1. updates[u][i] \in Update
    BY <1>t
  <2>2. updates[u][i].tid \in Tables
    BY <2>1 DEF Update
  <2>3. /\ DissolveTable(updates[u][i].tid) \/ UNCHANGED << tables, reserved >>
        /\ timeouts < MaxTimeouts /\ timeouts' = timeouts + 1
        /\ strayed' \subseteq strayed \cup {<< u, "timeout" >>}
        /\ UNCHANGED << ways, requests, coinPos >>
    BY <1>10 DEF SessionTimeout, StillIn
  <2>4. timeouts' \in 0 .. MaxTimeouts
    BY <1>t, <2>3, LobbyAssumption
  <2>5. filed' \in FileType /\ reserved' \subseteq Tables /\ UNCHANGED << state, lastTid >>
    BY <1>7, <2>2, <2>3
  <2> QED BY <1>t, <2>3, <2>4, <2>5 DEF ways
<1>11. ASSUME NEW u \in Users, NEW x \in Tables \cup {None}, MatchAtGame(u, x) PROVE Rest
  <2>1. /\ room' \subseteq room
        /\ UNCHANGED << seats, usertable, coinPos, forwarded, updates, counts, strayed >>
    BY <1>11 DEF MatchAtGame
  <2>2. Searched(u) \subseteq 0 .. SeatNum /\ \A i \in Searched(u) : Fuller(u, i) \subseteq 0 .. SeatNum
    BY LobbyAssumption DEF Searched, Seats, Fuller
  <2>3. /\ state' \in [Tables -> {"NONE", "WAIT", "PLAYING", "FINISH"}]
        /\ filed' \in FileType /\ lastTid' \in Tables \cup {0} /\ reserved' \subseteq Tables
        /\ told' \in [Users -> Tables \cup {None}]
    <3>1. ASSUME NEW i \in Searched(u), NEW t \in Tables, MatchFound(u, x, i, t)
          PROVE  <2>3!:
      <4> DEFINE f == Files(Fuller(u, i), x)
                 g == Swept(f, i, u, x)
      <4>1. f \in FileType
        BY <1>t, <2>2, FilesTyped
      <4>2. i \in 0 .. SeatNum
        BY <2>2
      <4> HIDE DEF f
      <4>3. g \in FileType
        BY <1>t, <4>1, <4>2, FilesTyped
      <4>4. filed' = [g EXCEPT ![i] = @ \ {t}, ![i + 1] = @ \cup {t}]
        BY <3>1 DEF MatchFound, f
      <4> HIDE DEF g
      <4>5. filed' \in FileType
        BY <1>t, <4>3, <4>4, FilesTyped
      <4> QED BY <1>t, <3>1, <4>5 DEF MatchFound
    <3>2. ASSUME NEW t \in Tables, MatchCreates(u, x, t) PROVE <2>3!:
      <4>1. AllSwept(u, x) \in FileType
        BY <1>t, <2>2, <3>2, FilesTyped DEF AllSwept
      <4>2. Created(AllSwept(u, x), t) \in FileType
        BY <1>t, <4>1, FilesTyped
      <4> QED BY <1>t, <3>2, <4>2 DEF MatchCreates
    <3>3. CASE MatchFails(u, x)
      <4>1. filed' \in FileType
        <5>1. CASE Tables = {}
          BY <1>t, <2>2, <3>3, <5>1 DEF MatchFails, AllSwept, Files, FileType, Misfiled
        <5>2. CASE Tables # {}
          <6>1. PICK t \in Tables : TRUE
            BY <5>2
          <6> QED BY <1>t, <2>2, <3>3, <6>1, FilesTyped DEF MatchFails, AllSwept
        <5> QED BY <5>1, <5>2
      <4> QED BY <1>t, <3>3, <4>1 DEF MatchFails
    <3> QED BY <1>11, <3>1, <3>2, <3>3 DEF MatchAtGame
  <2> QED BY <1>t, <2>1, <2>3 DEF counts
<1>12. ASSUME NEW u \in Users, NEW t \in Tables, EnterAtGame(u, t) PROVE Rest
  <2> DEFINE f == IF state[t] = "NONE" THEN Created(filed, t) ELSE filed
  <2>1. f \in FileType
    BY <1>t, FilesTyped
  <2>2. Refiled(f, t, PlayerNum(t)) \in FileType
    BY <1>t, <2>1, FilesTyped
  <2>3. /\ forwarded' \subseteq forwarded /\ UNCHANGED << room, told, counts, coinPos, strayed >>
        /\ reserved' \subseteq reserved /\ lastTid' = lastTid
        /\ state' \in {state, [state EXCEPT ![t] = "WAIT"]}
        /\ filed' \in {filed, f, Refiled(f, t, PlayerNum(t))}
    BY <1>12 DEF EnterAtGame, tables
  <2> HIDE DEF f
  <2> QED BY <1>t, <2>1, <2>2, <2>3 DEF counts
<1>13. ASSUME NEW t \in Tables, Start(t) PROVE Rest
  BY <1>13, <1>t DEF Start, ways, counts
<1>14. ASSUME NEW t \in Tables, Finish(t) PROVE Rest
  BY <1>14, <1>t DEF Finish, ways, counts
<1>15. ASSUME NEW t \in Tables, GmDissolve(t) PROVE Rest
  BY <1>15, <1>t, <1>r DEF GmDissolve, tables, ways
<1>16. CASE UNCHANGED vars
  BY <1>16, <1>t DEF vars, tables, ways, counts
<1> HIDE DEF Rest
<1> QED BY <1>1, <1>2, <1>3, <1>4, <1>5, <1>6, <1>9, <1>10, <1>11, <1>12, <1>13, <1>14, <1>15,
           <1>16 DEF Next

(* Every variable of the lobby has its type.                               *)
THEOREM LobbyTypes == Spec => []TypeOK
<1>1. Init => TypeOK
  BY LobbyAssumption DEF Init, TypeOK, Hall
<1>2. TypeOK /\ IInv' /\ [Next]_vars => TypeOK'
  BY TypesKept
<1> QED BY <1>1, <1>2, LobbySafe, PTL DEF Spec

-----------------------------------------------------------------------------
(* Two tables.  Of a user who was not put into the hall too early the      *)
(* position is right, or about to be: the update that moved it on is done, *)
(* and its answer will take the user from his seat.                        *)
Strayed(u) == \E cause \in {"room", "timeout", "dissolving"} : << u, cause >> \in strayed

(* Updates are done in the order they were sent.                           *)
DoneInOrder(u) ==
  \A i, j \in DOMAIN updates[u] :
    j < i /\ updates[u][i].done # "no" => updates[u][j].done # "no"

LogsOut(u, i) ==
  updates[u][i].kind = "Logout" /\ updates[u][i].live /\ updates[u][i].done # "no"

(* The answer on its way for the i-th update of u takes him from t.        *)
Vacates(u, i, t) ==
  \/ LogsOut(u, i)
  \/ /\ updates[u][i].kind = "Finish" /\ updates[u][i].live /\ updates[u][i].done # "no"
     /\ updates[u][i].tid = t /\ ~OthersWait(u, "Finish", t)

(* The answer on its way for the i-th update of u gives him a seat.        *)
Gets(u, i) == EntersLive(u, i) /\ updates[u][i].done = "ok"

OneSeat(u) ==
  \A t \in Tables : SitsAt(u, t) =>
    /\ usertable[u] = t
    /\ \A v \in Tables : SitsAt(u, v) => v = t
    /\ coinPos[u] # t => \E i \in DOMAIN updates[u] : Vacates(u, i, t)

OneToCome(u) ==
  \A i \in DOMAIN updates[u] : Gets(u, i) =>
    /\ coinPos[u] # updates[u][i].tid => \E j \in DOMAIN updates[u] : j > i /\ LogsOut(u, j)
    /\ \A t \in Tables : SitsAt(u, t) => \E j \in DOMAIN updates[u] : j < i /\ Vacates(u, j, t)

(* A logout that timed out is marked while its answer is to come.          *)
LateMarked(u) ==
  \A i \in DOMAIN updates[u] :
    updates[u][i].kind = "Logout" /\ ~updates[u][i].live => << u, "timeout" >> \in strayed

Placed(u) ==
  /\ DoneInOrder(u) /\ LateMarked(u)
  /\ Strayed(u) \/ (OneSeat(u) /\ OneToCome(u))

PInv == TypeOK /\ IInv /\ \A u \in Users : Placed(u)

-----------------------------------------------------------------------------
(* x is y, perhaps with its session ended.                                 *)
SameUpdate(x, y) ==
  x.kind = y.kind /\ x.tid = y.tid /\ x.done = y.done /\ (x.live => y.live)

(* The updates of u are what they were but the first shift ones, with some *)
(* sessions ended and some updates asked for.                              *)
Later(u, shift) ==
  \A i \in DOMAIN updates'[u] :
    \/ i + shift \in DOMAIN updates[u] /\ SameUpdate(updates'[u][i], updates[u][i + shift])
    \/ i + shift \notin DOMAIN updates[u] /\ updates'[u][i].done = "no"

(* A step that adds updates at the end, or answers the first, keeps the    *)
(* order.                                                                  *)
LEMMA OrderStays ==
  ASSUME NEW u \in Users, NEW shift \in {0, 1}, TypeOK, TypeOK', Later(u, shift), DoneInOrder(u)
  PROVE  DoneInOrder(u)'
<1> SUFFICES ASSUME NEW i \in DOMAIN updates'[u], NEW j \in DOMAIN updates'[u], j < i,
                    updates'[u][i].done # "no"
             PROVE  updates'[u][j].done # "no"
  BY DEF DoneInOrder
<1>1. updates[u] \in Seq(Update) /\ updates'[u] \in Seq(Update)
  BY DEF TypeOK
<1>2. i + shift \in DOMAIN updates[u] /\ updates[u][i + shift].done # "no"
  BY DEF Later, SameUpdate
<1>3. j + shift < i + shift /\ j + shift \in DOMAIN updates[u]
  BY <1>1, <1>2
<1>4. updates[u][j + shift].done # "no"
  BY <1>2, <1>3 DEF DoneInOrder
<1> QED BY <1>3, <1>4 DEF Later, SameUpdate

(* The seat a user has, if any, he had, and the answers that would take    *)
(* him from it are still to come.                                          *)
LEMMA StaysPlaced ==
  ASSUME NEW u \in Users, NEW shift \in {0, 1}, TypeOK, TypeOK', Later(u, shift),
         coinPos'[u] = coinPos[u],
         \A t \in Tables : SitsAt(u, t)' =>
            /\ SitsAt(u, t) /\ usertable'[u] = t
            /\ \A j \in DOMAIN updates[u] : Vacates(u, j, t) =>
                  j - shift \in DOMAIN updates'[u] /\ Vacates(u, j - shift, t)',
         \A j \in DOMAIN updates[u] : LogsOut(u, j) /\ j > shift =>
            j - shift \in DOMAIN updates'[u] /\ LogsOut(u, j - shift)',
         OneSeat(u), OneToCome(u)
  PROVE  OneSeat(u)' /\ OneToCome(u)'
<1>1. updates[u] \in Seq(Update) /\ updates'[u] \in Seq(Update)
  BY DEF TypeOK
<1>2. OneSeat(u)'
  <2> SUFFICES ASSUME NEW t \in Tables, SitsAt(u, t)'
      PROVE  /\ usertable'[u] = t
             /\ \A v \in Tables : SitsAt(u, v)' => v = t
             /\ coinPos'[u] # t => \E i \in DOMAIN updates'[u] : Vacates(u, i, t)'
    BY DEF OneSeat
  <2>1. coinPos[u] # t => \E i \in DOMAIN updates[u] : Vacates(u, i, t)
    BY DEF OneSeat
  <2> QED BY <2>1
<1>3. OneToCome(u)'
  <2> SUFFICES ASSUME NEW i \in DOMAIN updates'[u], Gets(u, i)'
      PROVE  /\ coinPos'[u] # updates'[u][i].tid =>
                  \E j \in DOMAIN updates'[u] : j > i /\ LogsOut(u, j)'
             /\ \A t \in Tables : SitsAt(u, t)' =>
                  \E j \in DOMAIN updates'[u] : j < i /\ Vacates(u, j, t)'
    BY DEF OneToCome
  <2>1. /\ i + shift \in DOMAIN updates[u] /\ Gets(u, i + shift)
        /\ updates[u][i + shift].tid = updates'[u][i].tid
    BY DEF Later, SameUpdate, Gets, EntersLive
  <2>2. ASSUME coinPos'[u] # updates'[u][i].tid
        PROVE  \E j \in DOMAIN updates'[u] : j > i /\ LogsOut(u, j)'
    <3>1. PICK j \in DOMAIN updates[u] : j > i + shift /\ LogsOut(u, j)
      BY <2>1, <2>2 DEF OneToCome
    <3>2. j > shift /\ j - shift > i
      BY <1>1, <3>1
    <3> QED BY <3>1, <3>2
  <2>3. ASSUME NEW t \in Tables, SitsAt(u, t)'
        PROVE  \E j \in DOMAIN updates'[u] : j < i /\ Vacates(u, j, t)'
    <3>1. PICK j \in DOMAIN updates[u] : j < i + shift /\ Vacates(u, j, t)
      BY <2>1, <2>3 DEF OneToCome
    <3>2. j - shift < i
      BY <1>1, <3>1
    <3> QED BY <2>3, <3>1, <3>2
  <2> QED BY <2>2, <2>3
<1> QED BY <1>2, <1>3

(* A step that changes nothing of it.                                      *)
LEMMA PlacesSame ==
  ASSUME PInv, TypeOK', UNCHANGED << seats, usertable, coinPos, updates, strayed >>, NEW u \in Users
  PROVE  Placed(u)'
<1>1. \A v \in Users : \A i, t :
        /\ (LogsOut(v, i)' <=> LogsOut(v, i)) /\ (Vacates(v, i, t)' <=> Vacates(v, i, t))
        /\ (Gets(v, i)' <=> Gets(v, i))
  BY DEF LogsOut, Vacates, OthersWait, Gets, EntersLive
<1>2. \A t : SitsAt(u, t)' <=> SitsAt(u, t)
  BY DEF SitsAt
<1>3. DoneInOrder(u)' /\ LateMarked(u)'
  BY DEF PInv, Placed, DoneInOrder, LateMarked
<1>4. Strayed(u)' <=> Strayed(u)
  BY DEF Strayed
<1>5. OneSeat(u) => OneSeat(u)'
  BY <1>1, <1>2 DEF OneSeat
<1>6. OneToCome(u) => OneToCome(u)'
  BY <1>1, <1>2 DEF OneToCome
<1> QED BY <1>3, <1>4, <1>5, <1>6 DEF PInv, Placed

(* The room puts a user into the hall: he is out of the game, or marked.   *)
LEMMA RoomPlaces ==
  ASSUME PInv, TypeOK', NEW w \in Users, RoomUpdated(w), NEW u \in Users
  PROVE  Placed(u)'
<1>0. UNCHANGED << seats, usertable, updates >> /\ strayed \subseteq strayed'
      /\ \A v \in Users \ {w} : coinPos'[v] = coinPos[v]
  BY DEF RoomUpdated, tables, PInv, TypeOK
<1>1. \A v \in Users : \A i, t :
        /\ (LogsOut(v, i)' <=> LogsOut(v, i)) /\ (Vacates(v, i, t)' <=> Vacates(v, i, t))
        /\ (Gets(v, i)' <=> Gets(v, i))
  BY <1>0 DEF LogsOut, Vacates, OthersWait, Gets, EntersLive
<1>2. \A t : SitsAt(u, t)' <=> SitsAt(u, t)
  BY <1>0 DEF SitsAt
<1>3. DoneInOrder(u)' /\ LateMarked(u)'
  BY <1>0 DEF PInv, Placed, DoneInOrder, LateMarked
<1>4. CASE u # w
  BY <1>0, <1>1, <1>2, <1>3, <1>4 DEF PInv, Placed, Strayed, OneSeat, OneToCome
<1>5. CASE u = w /\ InGame(u)
  BY <1>3, <1>5 DEF RoomUpdated, Placed, Strayed
<1>6. CASE ~InGame(u)
  <2>1. DOMAIN updates'[u] = {} /\ \A t \in Tables : ~SitsAt(u, t)'
    BY <1>0, <1>2, <1>6 DEF InGame
  <2> QED BY <1>3, <2>1 DEF Placed, OneSeat, OneToCome
<1> QED BY <1>4, <1>5, <1>6

(* Updates are asked for; of dissolutions after a round there is no other  *)
(* of the table.                                                           *)
LEMMA AskedPlaces ==
  ASSUME PInv, TypeOK', UNCHANGED << seats, coinPos, strayed >>,
         NEW kind \in {"Enter", "Logout", "Finish", "Gm"}, NEW t \in Tables,
         \A v \in Users : \/ updates'[v] = updates[v]
                          \/ updates'[v] = Append(updates[v], NewUpdate(kind, t)),
         kind = "Finish" => \A v \in Users : \A i \in DOMAIN updates[v] :
                              ~(updates[v][i].kind = kind /\ updates[v][i].tid = t),
         \A v \in Users : \/ usertable'[v] = usertable[v]
                          \/ usertable'[v] \in Tables /\ SitsAt(v, usertable'[v]),
         NEW u \in Users
  PROVE  Placed(u)'
<1> DEFINE new == NewUpdate(kind, t)
<1>1. new \in Update /\ new.kind = kind /\ new.tid = t /\ new.done = "no" /\ new.live
  BY DEF NewUpdate, Update
<1> HIDE DEF new
<1>2. ASSUME NEW v \in Users
      PROVE  /\ \A i \in DOMAIN updates'[v] :
                  \/ i \in DOMAIN updates[v] /\ updates'[v][i] = updates[v][i]
                  \/ i \notin DOMAIN updates[v] /\ updates'[v][i] = new
             /\ \A i \in DOMAIN updates[v] :
                  i \in DOMAIN updates'[v] /\ updates'[v][i] = updates[v][i]
             /\ \A i \in DOMAIN updates[v] \cup DOMAIN updates'[v] : i + 0 = i /\ i - 0 = i /\ i > 0
  <2>1. updates[v] \in Seq(Update) /\ updates'[v] \in Seq(Update)
    BY DEF PInv, TypeOK
  <2>2. updates'[v] = updates[v] \/ updates'[v] = Append(updates[v], new)
    BY DEF new
  <2> QED BY <1>1, <2>1, <2>2
<1>3. Later(u, 0)
  BY <1>1, <1>2 DEF Later, SameUpdate
<1>4. DoneInOrder(u)'
  BY <1>3, OrderStays DEF PInv, Placed
<1>5. LateMarked(u)'
  BY <1>1, <1>2 DEF PInv, Placed, LateMarked
<1>6. ASSUME OneSeat(u), OneToCome(u) PROVE OneSeat(u)' /\ OneToCome(u)'
  <2>1. \A j \in DOMAIN updates[u] : LogsOut(u, j) => j \in DOMAIN updates'[u] /\ LogsOut(u, j)'
    BY <1>2 DEF LogsOut
  <2>2. ASSUME NEW v \in Tables, NEW j \in DOMAIN updates[u], Vacates(u, j, v)
        PROVE  j \in DOMAIN updates'[u] /\ Vacates(u, j, v)'
    <3>1. CASE LogsOut(u, j)
      BY <2>1, <3>1 DEF Vacates
    <3>2. CASE ~LogsOut(u, j)
      <4>1. /\ updates[u][j].kind = "Finish" /\ updates[u][j].live /\ updates[u][j].done # "no"
            /\ updates[u][j].tid = v /\ ~OthersWait(u, "Finish", v)
        BY <2>2, <3>2 DEF Vacates
      <4>2. ~(kind = "Finish" /\ t = v)
        BY <4>1
      <4>3. ~OthersWait(u, "Finish", v)'
        BY <1>1, <1>2, <4>1, <4>2 DEF OthersWait
      <4> QED BY <1>2, <4>1, <4>3 DEF Vacates
    <3> QED BY <3>1, <3>2
  <2>3. ASSUME NEW v \in Tables, SitsAt(u, v)' PROVE SitsAt(u, v) /\ usertable'[u] = v
    <3>1. SitsAt(u, v)
      BY <2>3 DEF SitsAt
    <3> QED BY <1>6, <3>1 DEF OneSeat
  <2>4. coinPos'[u] = coinPos[u] /\ 0 \in {0, 1}
    OBVIOUS
  <2> QED BY <1>2, <1>3, <1>6, <2>1, <2>2, <2>3, <2>4, StaysPlaced DEF PInv
<1>7. Strayed(u) => Strayed(u)'
  BY DEF Strayed
<1> QED BY <1>4, <1>5, <1>6, <1>7 DEF PInv, Placed

(* The user server does an update of w.                                    *)
LEMMA AtUserPlaces ==
  ASSUME PInv, TypeOK', IInv', NEW w \in Users, UpdateAtUser(w), NEW u \in Users
  PROVE  Placed(u)'
<1>1. PICK i \in DOMAIN updates[w] :
        LET up == updates[w][i]
            refused == up.kind = "Enter" /\ Crossing(w, up.tid)
        IN  /\ up.done = "no" /\ \A j \in 1 .. i - 1 : updates[w][j].done # "no"
            /\ updates' = [updates EXCEPT ![w][i].done = IF refused THEN "refused" ELSE "ok"]
            /\ coinPos' = CASE up.kind = "Enter" /\ ~refused -> [coinPos EXCEPT ![w] = up.tid]
                            [] up.kind \in {"Logout", "Finish"} -> [coinPos EXCEPT ![w] = Hall]
                            [] OTHER -> coinPos
            /\ strayed' = IF up.kind = "Finish" /\ StaysIn(w, i)
                          THEN strayed \cup {<< w, "dissolving" >>} ELSE strayed
            /\ UNCHANGED << tables, ways, counts, reserved >>
  BY DEF UpdateAtUser
<1> DEFINE up == updates[w][i]
           refused == up.kind = "Enter" /\ Crossing(w, up.tid)
           done == IF refused THEN "refused" ELSE "ok"
<1>2. /\ up.done = "no" /\ \A j \in 1 .. i - 1 : updates[w][j].done # "no"
      /\ updates' = [updates EXCEPT ![w][i].done = done]
      /\ UNCHANGED << seats, usertable >> /\ strayed \subseteq strayed'
  BY <1>1 DEF tables
<1>3. /\ up.kind = "Enter" /\ ~refused => coinPos' = [coinPos EXCEPT ![w] = up.tid]
      /\ up.kind \in {"Logout", "Finish"} => coinPos' = [coinPos EXCEPT ![w] = Hall]
      /\ up.kind = "Gm" \/ refused => coinPos' = coinPos
  BY <1>1
<1>4. up.kind = "Finish" /\ StaysIn(w, i) => << w, "dissolving" >> \in strayed'
  BY <1>1
<1>5. updates[w] \in Seq(Update) /\ up \in Update /\ coinPos \in [Users -> Tables \cup {Hall}]
      /\ updates \in [Users -> Seq(Update)] /\ up.tid \in Tables
      /\ up.kind \in {"Enter", "Logout", "Finish", "Gm"}
  <2>1. updates[w] \in Seq(Update) /\ up \in Update /\ coinPos \in [Users -> Tables \cup {Hall}]
        /\ updates \in [Users -> Seq(Update)]
    BY DEF PInv, TypeOK
  <2> QED BY <2>1 DEF Update
<1> HIDE DEF done, refused
<1>6. /\ \A v \in Users \ {w} : updates'[v] = updates[v]
      /\ updates'[w] = [updates[w] EXCEPT ![i] = [up EXCEPT !.done = done]]
      /\ \A v \in Users \ {w} : coinPos'[v] = coinPos[v]
  BY <1>2, <1>3, <1>5
<1>7. /\ DOMAIN updates'[w] = DOMAIN updates[w]
      /\ \A j \in DOMAIN updates[w] : j # i => updates'[w][j] = updates[w][j]
      /\ updates'[w][i].kind = up.kind /\ updates'[w][i].tid = up.tid
      /\ updates'[w][i].live = up.live /\ updates'[w][i].done = done
  <2>1. /\ DOMAIN updates'[w] = DOMAIN updates[w] /\ updates'[w][i] = [up EXCEPT !.done = done]
        /\ \A j \in DOMAIN updates[w] : j # i => updates'[w][j] = updates[w][j]
    BY <1>5, <1>6
  <2> QED BY <1>5, <2>1 DEF Update
<1>8. \A v \in Users : DOMAIN updates'[v] = DOMAIN updates[v] /\ \A j \in DOMAIN updates[v] :
          /\ updates'[v][j].kind = updates[v][j].kind /\ updates'[v][j].tid = updates[v][j].tid
          /\ updates'[v][j].live = updates[v][j].live
          /\ v # w \/ j # i => updates'[v][j].done = updates[v][j].done
  BY <1>6, <1>7
<1>9. \A t : OthersWait(u, "Finish", t)' <=> OthersWait(u, "Finish", t)
  BY <1>8 DEF OthersWait
<1>10. \A t : SitsAt(u, t)' <=> SitsAt(u, t)
  BY <1>2 DEF SitsAt
<1>11. \A j \in DOMAIN updates[u] : u # w \/ j # i =>
          /\ LogsOut(u, j)' <=> LogsOut(u, j)
          /\ \A t : Vacates(u, j, t)' <=> Vacates(u, j, t)
          /\ Gets(u, j)' <=> Gets(u, j)
  BY <1>8, <1>9 DEF LogsOut, Vacates, Gets, EntersLive
<1>12. LateMarked(u)'
  BY <1>2, <1>8 DEF PInv, Placed, LateMarked
<1>13. CASE u # w
  <2>1. DoneInOrder(u)'
    BY <1>8, <1>13 DEF PInv, Placed, DoneInOrder
  <2>2. OneSeat(u) /\ OneToCome(u) => OneSeat(u)' /\ OneToCome(u)'
    BY <1>2, <1>6, <1>8, <1>10, <1>11, <1>13 DEF OneSeat, OneToCome
  <2>3. Strayed(u) => Strayed(u)'
    BY <1>2 DEF Strayed
  <2> QED BY <1>12, <2>1, <2>2, <2>3 DEF PInv, Placed
<1>14. CASE u = w
  <2>1. \A j \in DOMAIN updates[u] : j \in Nat \ {0}
    BY <1>5, <1>14
  <2>2. done # "no"
    BY DEF done
  <2>3. \A j \in DOMAIN updates[u] : updates[u][j].done # "no" => j < i
    BY <1>2, <1>14, <2>1 DEF PInv, Placed, DoneInOrder
  <2>4. DoneInOrder(u)'
    <3> SUFFICES ASSUME NEW j \in DOMAIN updates[u], NEW k \in DOMAIN updates[u], k < j,
                        updates'[u][j].done # "no"
                 PROVE  updates'[u][k].done # "no"
      BY <1>8 DEF DoneInOrder
    <3>1. CASE j = i
      BY <1>2, <1>7, <1>14, <2>1, <3>1
    <3>2. CASE j # i
      <4>1. updates[u][j].done # "no" /\ j < i
        BY <1>8, <2>3, <3>2
      <4>2. k \in 1 .. i - 1
        BY <1>14, <2>1, <4>1
      <4> QED BY <1>2, <1>8, <1>14, <2>1, <4>2
    <3> QED BY <3>1, <3>2
  <2>5. Strayed(u) => Strayed(u)'
    BY <1>2 DEF Strayed
  <2>6. ASSUME OneSeat(u), OneToCome(u), ~Strayed(u)' PROVE OneSeat(u)' /\ OneToCome(u)'
    <3>1. \A j \in DOMAIN updates[u], t \in Tables : Vacates(u, j, t) => j < i /\ Vacates(u, j, t)'
      BY <1>11, <2>1, <2>3 DEF Vacates, LogsOut
    <3>2. \A j \in DOMAIN updates[u] : Gets(u, j) => j < i
      BY <2>3 DEF Gets
    <3>3. \A j \in DOMAIN updates[u] : LogsOut(u, j) => LogsOut(u, j)'
      BY <1>2, <1>11, <1>14 DEF LogsOut
    <3>4. \A j \in DOMAIN updates[u] : Gets(u, j)' => j = i \/ Gets(u, j)
      BY <1>11
    <3>5. i \in DOMAIN updates[u] /\ coinPos[u] \in Tables \cup {Hall} /\ Hall \notin Tables
      BY <1>5, <1>14, LobbyAssumption DEF Hall
    <3>6. CASE up.kind = "Enter" /\ ~refused
      <4>1. coinPos'[u] = up.tid /\ coinPos[u] \in {Hall, up.tid}
        BY <1>3, <1>5, <1>14, <3>6 DEF refused, Crossing
      <4>2. OneSeat(u)'
        <5> SUFFICES ASSUME NEW t \in Tables, SitsAt(u, t)
                     PROVE  /\ usertable'[u] = t
                            /\ \A v \in Tables : SitsAt(u, v) => v = t
                            /\ coinPos'[u] # t => \E j \in DOMAIN updates'[u] : Vacates(u, j, t)'
          BY <1>10 DEF OneSeat
        <5>1. coinPos'[u] # t => coinPos[u] # t
          BY <3>5, <4>1
        <5> QED BY <1>2, <1>8, <2>6, <3>1, <5>1 DEF OneSeat
      <4>3. OneToCome(u)'
        <5> SUFFICES ASSUME NEW j \in DOMAIN updates[u], Gets(u, j)'
                     PROVE  /\ coinPos'[u] # updates[u][j].tid =>
                                 \E k \in DOMAIN updates'[u] : k > j /\ LogsOut(u, k)'
                            /\ \A t \in Tables : SitsAt(u, t) =>
                                 \E k \in DOMAIN updates'[u] : k < j /\ Vacates(u, k, t)'
          BY <1>8, <1>10 DEF OneToCome
        <5>1. CASE j = i
          <6>1. EntersLive(u, i)
            BY <1>7, <1>14, <5>1 DEF Gets, EntersLive
          <6>2. ASSUME NEW t \in Tables, SitsAt(u, t)
                PROVE  \E k \in DOMAIN updates'[u] : k < j /\ Vacates(u, k, t)'
            <7>1. t # up.tid
              BY <1>14, <3>5, <6>1, <6>2 DEF PInv, IInv, OneEnters, AwayFrom, SitsAt
            <7>2. coinPos[u] # t
              BY <3>5, <4>1, <7>1
            <7> QED BY <1>8, <2>6, <3>1, <5>1, <6>2, <7>2 DEF OneSeat
          <6> QED BY <1>14, <4>1, <5>1, <6>2
        <5>2. CASE j # i
          <6>1. Gets(u, j)
            BY <3>4, <5>2
          <6>2. updates[u][j].tid \in Tables
            <7>1. updates[u][j] \in Update
              BY <1>5, <1>14
            <7> QED BY <7>1 DEF Update
          <6>3. coinPos'[u] # updates[u][j].tid => coinPos[u] # updates[u][j].tid
            BY <3>5, <4>1, <6>2
          <6> QED BY <1>8, <2>6, <3>1, <3>3, <6>1, <6>3 DEF OneToCome
        <5> QED BY <5>1, <5>2
      <4> QED BY <4>2, <4>3
    <3>7. CASE up.kind = "Logout"
      <4>1. up.live
        BY <1>2, <1>14, <2>6, <3>5, <3>7 DEF PInv, Placed, LateMarked, Strayed
      <4>2. LogsOut(u, i)' /\ \A t : Vacates(u, i, t)'
        BY <1>7, <1>14, <2>2, <3>7, <4>1 DEF LogsOut, Vacates
      <4>3. ~Gets(u, i)'
        BY <1>7, <1>14, <3>7 DEF Gets, EntersLive
      <4>4. OneSeat(u)'
        BY <1>2, <1>8, <1>10, <2>6, <3>5, <4>2 DEF OneSeat
      <4>5. OneToCome(u)'
        <5> SUFFICES ASSUME NEW j \in DOMAIN updates[u], Gets(u, j)'
                     PROVE  /\ \E k \in DOMAIN updates'[u] : k > j /\ LogsOut(u, k)'
                            /\ \A t \in Tables : SitsAt(u, t) =>
                                 \E k \in DOMAIN updates'[u] : k < j /\ Vacates(u, k, t)'
          BY <1>8, <1>10 DEF OneToCome
        <5>1. Gets(u, j) /\ i > j
          BY <2>1, <3>2, <3>4, <3>5, <4>3
        <5> QED BY <1>8, <2>6, <3>1, <3>5, <4>2, <5>1 DEF OneToCome
      <4> QED BY <4>4, <4>5
    <3>8. CASE up.kind = "Finish"
      <4>1. ~StaysIn(u, i)
        BY <1>4, <1>14, <2>6, <3>8 DEF Strayed
      <4>2. ASSUME NEW t \in Tables, SitsAt(u, t) PROVE Vacates(u, i, t)'
        <5>1. t = up.tid /\ up.live /\ ~OthersWait(u, "Finish", t)
          BY <1>14, <4>1, <4>2 DEF StaysIn
        <5> QED BY <1>7, <1>9, <1>14, <2>2, <3>8, <5>1 DEF Vacates
      <4>3. OneSeat(u)'
        BY <1>2, <1>8, <1>10, <2>6, <3>5, <4>2 DEF OneSeat
      <4>4. ASSUME NEW j \in DOMAIN updates[u] PROVE ~Gets(u, j)'
        <5>1. CASE j = i
          BY <1>7, <1>14, <3>8, <5>1 DEF Gets, EntersLive
        <5>2. ASSUME j # i, Gets(u, j) PROVE FALSE
          <6>1. j \in 1 .. i - 1
            BY <2>1, <3>2, <3>5, <5>2
          <6> QED BY <4>1, <5>2, <6>1 DEF StaysIn, Gets, EntersLive
        <5> QED BY <3>4, <5>1, <5>2
      <4> QED BY <1>8, <4>3, <4>4 DEF OneToCome
    <3>9. CASE up.kind = "Gm" \/ refused
      <4>1. coinPos'[u] = coinPos[u] /\ ~Gets(u, i)'
        BY <1>3, <1>7, <1>14, <3>9 DEF Gets, EntersLive, done
      <4> QED
        BY <1>2, <1>8, <1>10, <2>6, <3>1, <3>3, <3>4, <4>1 DEF OneSeat, OneToCome
    <3> QED BY <1>5, <3>6, <3>7, <3>8, <3>9
  <2> QED BY <1>12, <1>14, <2>4, <2>5, <2>6 DEF PInv, Placed
<1> QED BY <1>13, <1>14

(* Marks of users who are still in the game stay.                          *)
LEMMA MarksStay ==
  ASSUME PInv, TypeOK', NEW more, strayed' = StillIn(strayed \cup more), NEW u \in Users
  PROVE  /\ Strayed(u) /\ InGame(u)' => Strayed(u)'
         /\ ~InGame(u)' => Placed(u)'
         /\ \A cause : << u, cause >> \in strayed \cup more /\ InGame(u)' => << u, cause >> \in strayed'
<1>1. \A cause : << u, cause >> \in strayed \cup more /\ InGame(u)' => << u, cause >> \in strayed'
  BY DEF StillIn
<1>2. Strayed(u) /\ InGame(u)' => Strayed(u)'
  BY <1>1 DEF Strayed
<1>3. ASSUME ~InGame(u)' PROVE Placed(u)'
  <2>1. updates'[u] = << >> /\ \A t \in Tables : ~SitsAt(u, t)'
    BY <1>3 DEF InGame
  <2> QED BY <2>1 DEF Placed, DoneInOrder, LateMarked, OneSeat, OneToCome
<1> QED BY <1>1, <1>2, <1>3

(* A table that is dissolved, and nobody's seat elsewhere changes.         *)
LEMMA DissolvedPlaces ==
  ASSUME PInv, NEW t \in Tables, DissolveTable(t), NEW u \in Users, OneSeat(u),
         NEW v \in Tables, SitsAt(u, v)'
  PROVE  SitsAt(u, v) /\ usertable'[u] = v /\ v # t
<1>1. /\ seats' = [seats EXCEPT ![t] = [ s \in Seats |-> None ]]
      /\ usertable' = Dissolved(t)
      /\ seats \in [Tables -> [Seats -> Users \cup {None}]] /\ None \notin Users
  BY LobbyAssumption DEF DissolveTable, PInv, TypeOK
<1>2. SitsAt(u, v) /\ v # t
  <2>1. PICK s \in Seats : seats'[v][s] = u
    BY DEF SitsAt
  <2>2. v # t
    BY <1>1, <2>1
  <2> QED BY <1>1, <2>1, <2>2 DEF SitsAt
<1>3. usertable[u] = v /\ ~SitsAt(u, t)
  BY <1>2 DEF OneSeat
<1> QED BY <1>1, <1>2, <1>3 DEF Dissolved

(* The answer to the first update of w.                                    *)
LEMMA AnsweredPlaces ==
  ASSUME PInv, TypeOK', IInv', NEW w \in Users, UpdateAnswered(w), NEW u \in Users
  PROVE  Placed(u)'
<1>1. /\ updates[w] # << >> /\ Head(updates[w]).done # "no"
      /\ updates' = [updates EXCEPT ![w] = Tail(@)]
      /\ strayed' = StillIn(strayed \cup {}) /\ coinPos' = coinPos
  BY DEF UpdateAnswered
<1>2. /\ 1 \in DOMAIN updates[w] /\ Head(updates[w]) = updates[w][1] /\ updates[w][1] \in Update
      /\ \A i \in DOMAIN updates'[w] :
           i + 1 \in DOMAIN updates[w] /\ updates'[w][i] = updates[w][i + 1]
      /\ \A v \in Users \ {w} : updates'[v] = updates[v]
  BY <1>1, Answered DEF PInv, IInv
<1>3. \A i \in DOMAIN updates[w] : /\ i \in Nat \ {0} /\ i - 1 + 1 = i
                                   /\ i > 1 => i - 1 \in DOMAIN updates'[w]
  <2>1. /\ updates[w] \in Seq(Update) /\ updates \in [Users -> Seq(Update)]
    BY DEF PInv, TypeOK
  <2>2. updates'[w] = Tail(updates[w])
    BY <1>1, <2>1
  <2> QED BY <1>1, <2>1, <2>2
<1> DEFINE up == updates[w][1]
           shift == IF u = w THEN 1 ELSE 0
<1>4. up.tid \in Tables
  BY <1>2 DEF Update
<1>5. \/ /\ up.live /\ up.kind = "Enter" /\ up.done = "ok" /\ SitDown(w, up.tid)
      \/ /\ up.live /\ up.kind = "Logout" /\ HasSeat(w) /\ LogoutTable(w, usertable[w])
      \/ /\ up.live /\ up.kind \in {"Finish", "Gm"} /\ ~OthersWait(w, up.kind, up.tid)
         /\ DissolveTable(up.tid)
      \/ /\ \/ ~up.live
            \/ up.kind = "Enter" /\ up.done = "refused"
            \/ up.kind = "Logout" /\ ~HasSeat(w)
            \/ up.kind \in {"Finish", "Gm"} /\ OthersWait(w, up.kind, up.tid)
         /\ UNCHANGED << tables, reserved >>
  BY <1>2 DEF UpdateAnswered
<1>6. CASE ~InGame(u)'
  BY <1>1, <1>6, MarksStay
<1>7. CASE InGame(u)'
  <2>0. \A i \in DOMAIN updates[u] : i + 0 = i /\ i - 0 = i /\ i > 0
    <3>1. updates[u] \in Seq(Update)
      BY DEF PInv, TypeOK
    <3> QED BY <3>1
  <2>1. Later(u, shift)
    BY <1>2, <2>0 DEF Later, SameUpdate
  <2>2. shift \in {0, 1}
    OBVIOUS
  <2>3. DoneInOrder(u)'
    BY <2>1, <2>2, OrderStays DEF PInv, Placed
  <2>4. LateMarked(u)'
    <3> SUFFICES ASSUME NEW i \in DOMAIN updates'[u], updates'[u][i].kind = "Logout",
                        ~updates'[u][i].live
                 PROVE  << u, "timeout" >> \in strayed'
      BY DEF LateMarked
    <3>1. << u, "timeout" >> \in strayed
      BY <1>2 DEF PInv, Placed, LateMarked
    <3> QED BY <1>1, <1>7, <3>1, MarksStay
  <2>5. Strayed(u) => Strayed(u)'
    BY <1>1, <1>7, MarksStay
  <2>6. ASSUME OneSeat(u), OneToCome(u) PROVE OneSeat(u)' /\ OneToCome(u)'
    <3>1. ASSUME NEW t, OthersWait(u, "Finish", t)' PROVE OthersWait(u, "Finish", t)
      <4>1. PICK v \in Users \ {u} : \E i \in DOMAIN updates'[v] :
              updates'[v][i].kind = "Finish" /\ updates'[v][i].tid = t /\ updates'[v][i].live
        BY <3>1 DEF OthersWait
      <4>2. \E i \in DOMAIN updates[v] :
              updates[v][i].kind = "Finish" /\ updates[v][i].tid = t /\ updates[v][i].live
        <5>1. CASE v = w
          BY <1>2, <4>1, <5>1
        <5>2. CASE v # w
          BY <1>2, <4>1, <5>2
        <5> QED BY <5>1, <5>2
      <4> QED BY <4>2 DEF OthersWait
    <3>2. \A j \in DOMAIN updates[u] : j > shift =>
            /\ j - shift \in DOMAIN updates'[u] /\ updates'[u][j - shift] = updates[u][j]
      BY <1>2, <1>3, <2>0
    <3>3. \A j \in DOMAIN updates[u] : LogsOut(u, j) /\ j > shift =>
            j - shift \in DOMAIN updates'[u] /\ LogsOut(u, j - shift)'
      BY <3>2 DEF LogsOut
    <3>4. \A t \in Tables : \A j \in DOMAIN updates[u] : Vacates(u, j, t) /\ j > shift =>
            j - shift \in DOMAIN updates'[u] /\ Vacates(u, j - shift, t)'
      BY <3>1, <3>2, <3>3 DEF Vacates
    <3>5. \A j \in DOMAIN updates[u] : j > shift \/ (u = w /\ j = 1)
      BY <1>3, <2>0
    <3> HIDE DEF shift
    <3>6. ASSUME \A t \in Tables : SitsAt(u, t)' =>
                   /\ SitsAt(u, t) /\ usertable'[u] = t
                   /\ u = w => ~Vacates(u, 1, t)
          PROVE  OneSeat(u)' /\ OneToCome(u)'
      <4>1. ASSUME NEW t \in Tables, SitsAt(u, t)'
            PROVE  /\ SitsAt(u, t) /\ usertable'[u] = t
                   /\ \A j \in DOMAIN updates[u] : Vacates(u, j, t) =>
                        j - shift \in DOMAIN updates'[u] /\ Vacates(u, j - shift, t)'
        BY <3>4, <3>5, <3>6, <4>1
      <4>2. coinPos'[u] = coinPos[u]
        BY <1>1
      <4> QED BY <2>1, <2>2, <2>6, <3>3, <4>1, <4>2, StaysPlaced DEF PInv
    <3>7. CASE UNCHANGED << seats, usertable >>
               /\ (\/ ~up.live \/ up.kind \in {"Enter", "Gm"} \/ (up.kind = "Logout" /\ ~HasSeat(w))
                   \/ (up.kind = "Finish" /\ OthersWait(w, up.kind, up.tid)))
      <4> SUFFICES ASSUME NEW t \in Tables, SitsAt(u, t)'
                   PROVE  SitsAt(u, t) /\ usertable'[u] = t /\ (u = w => ~Vacates(u, 1, t))
        BY <3>6
      <4>1. SitsAt(u, t) /\ usertable'[u] = t /\ usertable[u] = t
        BY <2>6, <3>7 DEF SitsAt, OneSeat
      <4>2. u = w => HasSeat(w)
        BY <4>1, LobbyAssumption DEF HasSeat
      <4> QED BY <3>7, <4>1, <4>2 DEF Vacates, LogsOut
    <3>8. CASE DissolveTable(up.tid) /\ up.kind \in {"Finish", "Gm"}
      <4> SUFFICES ASSUME NEW t \in Tables, SitsAt(u, t)'
                   PROVE  SitsAt(u, t) /\ usertable'[u] = t /\ (u = w => ~Vacates(u, 1, t))
        BY <3>6
      <4>1. SitsAt(u, t) /\ usertable'[u] = t /\ t # up.tid
        BY <1>4, <2>6, <3>8, DissolvedPlaces
      <4> QED BY <3>8, <4>1 DEF Vacates, LogsOut
    <3>9. CASE HasSeat(w) /\ LogoutTable(w, usertable[w])
      <4>1. \A v \in Users, t \in Tables : SitsAt(v, t)' => SitsAt(v, t)
        BY <3>9, LogoutTableKeeps DEF PInv
      <4>2. usertable' = [usertable EXCEPT ![w] = None] /\ usertable \in [Users -> Tables \cup {None}]
        BY <3>9 DEF LogoutTable, PInv, TypeOK
      <4>3. CASE u # w
        <5>1. \A t \in Tables : SitsAt(u, t)' => SitsAt(u, t) /\ usertable'[u] = t
          BY <2>6, <4>1, <4>2, <4>3 DEF OneSeat
        <5> QED BY <3>6, <4>3, <5>1
      <4>4. CASE u = w
        <5>1. \A t \in Tables : ~SitsAt(u, t)'
          <6> SUFFICES ASSUME NEW t \in Tables, SitsAt(u, t)' PROVE FALSE
            OBVIOUS
          <6>1. SitsAt(u, t) /\ usertable[u] = t
            BY <2>6, <4>1 DEF OneSeat
          <6>2. seats' = [seats EXCEPT ![t][SeatOf(u, t)] = None]
            BY <3>9, <4>4, <6>1 DEF LogoutTable
          <6>3. PICK s \in Seats : seats'[t][s] = u
            BY DEF SitsAt
          <6>4. SeatOf(u, t) \in Seats /\ seats[t][SeatOf(u, t)] = u
            BY <6>1 DEF SitsAt, SeatOf
          <6> DEFINE r == SeatOf(u, t)
          <6> HIDE DEF r
          <6>5. seats'[t] = [seats[t] EXCEPT ![r] = None]
                /\ seats[t] \in [Seats -> Users \cup {None}]
            BY <6>2 DEF PInv, TypeOK, r
          <6>6. s # r /\ seats[t][s] = u
            BY <6>3, <6>4, <6>5, LobbyAssumption DEF r
          <6> QED BY <6>4, <6>6, LobbyAssumption DEF PInv, IInv, OncePerTable, r
        <5> QED BY <3>6, <5>1
      <4> QED BY <4>3, <4>4
    <3>10. CASE up.live /\ up.kind = "Enter" /\ up.done = "ok" /\ SitDown(w, up.tid)
                /\ ~UNCHANGED << seats, usertable >>
      <4>1. EmptySeats(up.tid) # {} /\ usertable' = [usertable EXCEPT ![w] = up.tid]
            /\ \E s \in EmptySeats(up.tid) : seats' = [seats EXCEPT ![up.tid][s] = w]
        BY <3>10 DEF SitDown, tables
      <4>2. PICK s \in Seats : seats' = [seats EXCEPT ![up.tid][s] = w]
        BY <4>1 DEF EmptySeats
      <4>3. seats \in [Tables -> [Seats -> Users \cup {None}]]
            /\ usertable \in [Users -> Tables \cup {None}]
        BY DEF PInv, TypeOK
      <4>4. \A t \in Tables : \A r \in Seats :
              seats'[t][r] = IF t = up.tid /\ r = s THEN w ELSE seats[t][r]
        BY <1>4, <4>2, <4>3
      <4>5. CASE u # w
        <5>1. \A t \in Tables : SitsAt(u, t)' => SitsAt(u, t)
          BY <4>4, <4>5 DEF SitsAt
        <5>2. usertable'[u] = usertable[u]
          BY <4>1, <4>3, <4>5
        <5> QED BY <2>6, <3>6, <4>5, <5>1, <5>2 DEF OneSeat
      <4>6. CASE u = w
        <5>1. Gets(u, 1)
          BY <3>10, <4>6 DEF Gets, EntersLive
        <5>2. \A t \in Tables : ~SitsAt(u, t)
          BY <1>2, <1>3, <2>6, <4>6, <5>1 DEF OneToCome
        <5>3. \A t \in Tables : SitsAt(u, t)' => t = up.tid
          BY <4>4, <5>2 DEF SitsAt
        <5>4. usertable'[u] = up.tid
          BY <4>1, <4>3, <4>6
        <5>5. ASSUME NEW t \in Tables, t = up.tid, coinPos'[u] # t
              PROVE  \E i \in DOMAIN updates'[u] : Vacates(u, i, t)'
          <6>1. PICK j \in DOMAIN updates[u] : j > 1 /\ LogsOut(u, j)
            BY <1>1, <1>2, <2>6, <4>6, <5>1, <5>5 DEF OneToCome
          <6>2. shift = 1
            BY <4>6 DEF shift
          <6> QED BY <3>3, <6>1, <6>2 DEF Vacates
        <5>6. OneSeat(u)'
          <6> SUFFICES ASSUME NEW t \in Tables, SitsAt(u, t)'
                       PROVE  /\ usertable'[u] = t
                              /\ \A v \in Tables : SitsAt(u, v)' => v = t
                              /\ coinPos'[u] # t => \E i \in DOMAIN updates'[u] : Vacates(u, i, t)'
            BY DEF OneSeat
          <6>1. t = up.tid
            BY <5>3
          <6> QED BY <5>3, <5>4, <5>5, <6>1
        <5>7. \A i \in DOMAIN updates'[u] : ~Gets(u, i)'
          <6> SUFFICES ASSUME NEW i \in DOMAIN updates'[u], Gets(u, i)' PROVE FALSE
            OBVIOUS
          <6>1. i + 1 \in DOMAIN updates[u] /\ EntersLive(u, i + 1)
            BY <1>2, <4>6 DEF Gets, EntersLive
          <6>2. i + 1 = 1
            BY <1>2, <4>6, <5>1, <6>1 DEF Gets, PInv, IInv, OneEnters
          <6>3. i \in Nat \ {0}
            <7>1. updates'[u] \in Seq(Update)
              BY DEF TypeOK
            <7> QED BY <7>1
          <6> QED BY <6>2, <6>3
        <5>8. OneToCome(u)'
          BY <5>7 DEF OneToCome
        <5> QED BY <5>6, <5>8
      <4> QED BY <4>5, <4>6
    <3>11. CASE up.kind = "Enter" /\ UNCHANGED << seats, usertable >>
      BY <3>7, <3>11
    <3>12. UNCHANGED << tables, reserved >> => UNCHANGED << seats, usertable >>
      BY DEF tables
    <3> HIDE DEF up
    <3>13. CASE up.live /\ up.kind = "Enter" /\ up.done = "ok" /\ SitDown(w, up.tid)
      BY <3>10, <3>11, <3>13
    <3>14. CASE up.live /\ up.kind \in {"Finish", "Gm"} /\ DissolveTable(up.tid)
      BY <3>8, <3>14
    <3> QED BY <1>5, <3>7, <3>9, <3>12, <3>13, <3>14
  <2> QED BY <2>3, <2>4, <2>5, <2>6 DEF PInv, Placed
<1> QED BY <1>6, <1>7

(* A session times out: its updates are dead, and what it put into the     *)
(* hall is marked or leaves its table.                                     *)
LEMMA TimeoutPlaces ==
  ASSUME PInv, TypeOK', NEW w \in Users, NEW k \in DOMAIN updates[w], SessionTimeout(w, k),
         NEW u \in Users
  PROVE  Placed(u)'
<1> DEFINE up == updates[w][k]
           Dead(x) == IF x.kind = up.kind /\ x.tid = up.tid THEN [x EXCEPT !.live = FALSE] ELSE x
           more == IF up.kind = "Logout" THEN {<< w, "timeout" >>} ELSE {}
<1>1. /\ up.live /\ coinPos' = coinPos
      /\ IF up.kind \in {"Finish", "Gm"}
           THEN updates' = [ v \in Users |-> [ j \in DOMAIN updates[v] |-> Dead(updates[v][j]) ] ]
           ELSE updates' = [updates EXCEPT ![w][k].live = FALSE]
      /\ IF up.kind = "Finish" THEN DissolveTable(up.tid) ELSE UNCHANGED << seats, usertable >>
      /\ strayed' = StillIn(strayed \cup more)
  BY DEF SessionTimeout, tables
<1>2. /\ updates \in [Users -> Seq(Update)] /\ up \in Update /\ up.tid \in Tables
      /\ up.kind \in {"Enter", "Logout", "Finish", "Gm"}
  <2>1. updates \in [Users -> Seq(Update)] /\ up \in Update
    BY DEF PInv, TypeOK
  <2> QED BY <2>1 DEF Update
<1>3. ASSUME NEW v \in Users, NEW j \in DOMAIN updates[v]
      PROVE  /\ j \in DOMAIN updates'[v]
             /\ updates'[v][j].kind = updates[v][j].kind /\ updates'[v][j].tid = updates[v][j].tid
             /\ updates'[v][j].done = updates[v][j].done
             /\ updates'[v][j].live => updates[v][j].live
             /\ \/ updates'[v][j].live = updates[v][j].live
                \/ up.kind \in {"Enter", "Logout"} /\ v = w /\ j = k
                \/ up.kind \in {"Finish", "Gm"} /\ updates[v][j].kind = up.kind
                   /\ updates[v][j].tid = up.tid
  <2>1. updates[v][j] \in Update
    BY <1>2
  <2>2. CASE up.kind \in {"Finish", "Gm"}
    <3>1. updates'[v] = [ i \in DOMAIN updates[v] |-> Dead(updates[v][i]) ]
      BY <1>1, <2>2
    <3>2. updates'[v][j] = Dead(updates[v][j]) /\ j \in DOMAIN updates'[v]
      BY <3>1
    <3>3. CASE updates[v][j].kind = up.kind /\ updates[v][j].tid = up.tid
      <4>1. updates'[v][j] = [updates[v][j] EXCEPT !.live = FALSE]
        BY <3>2, <3>3
      <4> HIDE DEF up, Dead
      <4> QED BY <2>1, <2>2, <3>2, <3>3, <4>1 DEF Update
    <3>4. CASE ~(updates[v][j].kind = up.kind /\ updates[v][j].tid = up.tid)
      BY <3>2, <3>4
    <3> QED BY <3>3, <3>4
  <2>3. CASE up.kind \in {"Enter", "Logout"}
    <3>1. /\ updates'[w] = [updates[w] EXCEPT ![k] = [updates[w][k] EXCEPT !.live = FALSE]]
          /\ \A x \in Users \ {w} : updates'[x] = updates[x]
      BY <1>1, <1>2, <2>3
    <3>2. CASE v = w /\ j = k
      <4>1. updates'[v][j] = [updates[v][j] EXCEPT !.live = FALSE] /\ j \in DOMAIN updates'[v]
        BY <3>1, <3>2
      <4> HIDE DEF up
      <4> QED BY <2>1, <2>3, <3>2, <4>1 DEF Update
    <3>3. CASE ~(v = w /\ j = k)
      BY <3>1, <3>3
    <3> QED BY <3>2, <3>3
  <2> QED BY <1>2, <2>2, <2>3
<1>4. ASSUME NEW v \in Users PROVE DOMAIN updates'[v] = DOMAIN updates[v]
  <2>1. CASE up.kind \in {"Finish", "Gm"}
    BY <1>1, <2>1
  <2>2. CASE up.kind \in {"Enter", "Logout"}
    <3>1. updates' = [updates EXCEPT ![w] = [updates[w] EXCEPT ![k] = [updates[w][k] EXCEPT !.live = FALSE]]]
      BY <1>1, <2>2
    <3> QED BY <1>2, <3>1
  <2> QED BY <1>2, <2>1, <2>2
<1> HIDE DEF Dead
<1>5. CASE ~InGame(u)'
  BY <1>1, <1>5, MarksStay
<1>6. CASE InGame(u)'
  <2>0. \A i \in DOMAIN updates[u] : i + 0 = i /\ i - 0 = i /\ i > 0
    <3>1. updates[u] \in Seq(Update)
      BY DEF PInv, TypeOK
    <3> QED BY <3>1
  <2>1. Later(u, 0)
    BY <1>3, <1>4, <2>0 DEF Later, SameUpdate
  <2>2. DoneInOrder(u)'
    BY <2>1, OrderStays DEF PInv, Placed
  <2>3. \A cause : << u, cause >> \in strayed \cup more => << u, cause >> \in strayed'
    BY <1>1, <1>6, MarksStay
  <2>4. LateMarked(u)'
    <3> SUFFICES ASSUME NEW i \in DOMAIN updates'[u], updates'[u][i].kind = "Logout",
                        ~updates'[u][i].live
                 PROVE  << u, "timeout" >> \in strayed \cup more
      BY <2>3 DEF LateMarked
    <3>1. i \in DOMAIN updates[u] /\ updates[u][i].kind = "Logout"
      BY <1>3, <1>4
    <3>2. CASE ~updates[u][i].live
      BY <3>1, <3>2 DEF PInv, Placed, LateMarked
    <3>3. CASE updates[u][i].live
      BY <1>3, <3>1, <3>3
    <3> QED BY <3>2, <3>3
  <2>5. Strayed(u) => Strayed(u)'
    BY <2>3 DEF Strayed
  <2>6. ASSUME OneSeat(u), OneToCome(u), ~Strayed(u)' PROVE OneSeat(u)' /\ OneToCome(u)'
    <3>1. ASSUME NEW t, OthersWait(u, "Finish", t)' PROVE OthersWait(u, "Finish", t)
      BY <1>3, <1>4, <3>1 DEF OthersWait
    <3>2. ASSUME NEW j \in DOMAIN updates[u], LogsOut(u, j) PROVE LogsOut(u, j)'
      <4>1. ~(up.kind = "Logout" /\ u = w)
        BY <2>3, <2>6 DEF Strayed
      <4> QED BY <1>3, <3>2, <4>1 DEF LogsOut
    <3>3. ASSUME NEW t \in Tables, NEW j \in DOMAIN updates[u], Vacates(u, j, t),
                 ~(up.kind = "Finish" /\ t = up.tid)
          PROVE  Vacates(u, j, t)'
      <4>1. CASE LogsOut(u, j)
        BY <3>2, <4>1 DEF Vacates
      <4>2. CASE ~LogsOut(u, j)
        <5>1. /\ updates[u][j].kind = "Finish" /\ updates[u][j].live /\ updates[u][j].done # "no"
              /\ updates[u][j].tid = t /\ ~OthersWait(u, "Finish", t)
          BY <3>3, <4>2 DEF Vacates
        <5>2. updates'[u][j].live
          BY <1>3, <3>3, <5>1
        <5> QED BY <1>3, <3>1, <5>1, <5>2 DEF Vacates
      <4> QED BY <4>1, <4>2
    <3>4. ASSUME NEW t \in Tables, SitsAt(u, t)'
          PROVE  SitsAt(u, t) /\ usertable'[u] = t /\ ~(up.kind = "Finish" /\ t = up.tid)
      <4>1. CASE up.kind = "Finish"
        BY <1>1, <1>2, <2>6, <3>4, <4>1, DissolvedPlaces
      <4>2. CASE up.kind # "Finish"
        BY <1>1, <2>6, <3>4, <4>2 DEF SitsAt, OneSeat
      <4> QED BY <4>1, <4>2
    <3> HIDE DEF up
    <3>5. \A t \in Tables : SitsAt(u, t)' =>
            /\ SitsAt(u, t) /\ usertable'[u] = t
            /\ \A j \in DOMAIN updates[u] : Vacates(u, j, t) =>
                  j - 0 \in DOMAIN updates'[u] /\ Vacates(u, j - 0, t)'
      BY <1>4, <2>0, <3>3, <3>4
    <3>6. \A j \in DOMAIN updates[u] : LogsOut(u, j) /\ j > 0 =>
            j - 0 \in DOMAIN updates'[u] /\ LogsOut(u, j - 0)'
      BY <1>4, <2>0, <3>2
    <3>7. coinPos'[u] = coinPos[u] /\ 0 \in {0, 1}
      BY <1>1
    <3> QED BY <2>1, <2>6, <3>5, <3>6, <3>7, StaysPlaced DEF PInv
  <2> QED BY <2>2, <2>4, <2>5, <2>6 DEF PInv, Placed
<1> QED BY <1>5, <1>6

(* The invariant of the places holds after every step.                     *)
LEMMA PlacesNext == PInv /\ [Next]_vars => PInv'
<1> SUFFICES ASSUME PInv, [Next]_vars, TypeOK', IInv', NEW u \in Users PROVE Placed(u)'
  <2>1. ASSUME PInv, [Next]_vars PROVE IInv' /\ TypeOK'
    BY <2>1, LobbyNext, TypesKept DEF PInv
  <2> QED BY <2>1 DEF PInv
<1>1. ASSUME NEW w \in Users, RequestMatch(w) \/ RequestEnter(w) \/ ClientGone(w) PROVE Placed(u)'
  BY <1>1, PlacesSame DEF RequestMatch, RequestEnter, ClientGone, tables
<1>2. ASSUME NEW w \in Users, NEW x \in Tables \cup {None}, MatchAtGame(w, x) PROVE Placed(u)'
  BY <1>2, PlacesSame DEF MatchAtGame
<1>3. ASSUME NEW w \in Users, RoomUpdated(w) PROVE Placed(u)'
  BY <1>3, RoomPlaces
<1>4. ASSUME NEW w \in Users, UpdateAtUser(w) PROVE Placed(u)'
  BY <1>4, AtUserPlaces
<1>5. ASSUME NEW w \in Users, UpdateAnswered(w) PROVE Placed(u)'
  BY <1>5, AnsweredPlaces
<1>6. ASSUME NEW w \in Users, NEW i \in DOMAIN updates[w], SessionTimeout(w, i) PROVE Placed(u)'
  BY <1>6, TimeoutPlaces
<1>t. usertable \in [Users -> Tables \cup {None}] /\ updates \in [Users -> Seq(Update)]
  BY DEF PInv, TypeOK
<1>7. ASSUME NEW w \in Users, NEW t \in Tables, EnterAtGame(w, t) PROVE Placed(u)'
  <2>1. UNCHANGED << seats, coinPos, strayed >>
        /\ usertable' \in {usertable, [usertable EXCEPT ![w] = t]}
        /\ updates' \in {updates, [updates EXCEPT ![w] = Append(@, NewUpdate("Enter", t))]}
        /\ (usertable' # usertable => SitsAt(w, t))
    BY <1>7 DEF EnterAtGame, tables
  <2>2. \A v \in Users : \/ usertable'[v] = usertable[v]
                         \/ usertable'[v] \in Tables /\ SitsAt(v, usertable'[v])
    BY <1>t, <2>1
  <2>3. \A v \in Users : updates'[v] = updates[v] \/ updates'[v] = Append(updates[v], NewUpdate("Enter", t))
    BY <1>t, <2>1
  <2> QED BY <2>1, <2>2, <2>3, AskedPlaces
<1>8. ASSUME NEW w \in Users, RequestLogout(w) PROVE Placed(u)'
  <2>1. PICK t \in Tables : /\ UNCHANGED << seats, usertable, coinPos, strayed >>
                            /\ updates' = [updates EXCEPT ![w] = Append(@, NewUpdate("Logout", t))]
    BY <1>8, <1>t DEF RequestLogout, HasSeat, tables
  <2>2. \A v \in Users : updates'[v] = updates[v] \/ updates'[v] = Append(updates[v], NewUpdate("Logout", t))
    BY <1>t, <2>1
  <2> QED BY <2>1, <2>2, AskedPlaces
<1>9. ASSUME NEW t \in Tables, NEW kind \in {"Finish", "Gm"}, Dissolving(kind, t),
             UNCHANGED << seats, usertable, coinPos, strayed >>
      PROVE  Placed(u)'
  <2>1. \A v \in Users : updates'[v] = updates[v] \/ updates'[v] = Append(updates[v], NewUpdate(kind, t))
    BY <1>9 DEF Dissolving
  <2>2. \A v \in Users : \A i \in DOMAIN updates[v] :
          ~(updates[v][i].kind = kind /\ updates[v][i].tid = t)
    BY <1>9 DEF Dissolving
  <2> QED BY <1>9, <2>1, <2>2, AskedPlaces
<1>10. ASSUME NEW t \in Tables, Start(t) \/ Finish(t) \/ GmDissolve(t) PROVE Placed(u)'
  BY <1>9, <1>10, PlacesSame DEF Start, Finish, GmDissolve, tables
<1>11. CASE UNCHANGED vars
  BY <1>11, PlacesSame DEF vars, tables
<1> QED BY <1>1, <1>2, <1>3, <1>4, <1>5, <1>6, <1>7, <1>8, <1>10, <1>11 DEF Next

(* Coin_POS keeps a user from a second table: who sits at two was put into *)
(* the hall, since he was last out of the game, while he kept a seat or    *)
(* was about to get one, by one of the three ways the handlers of the room *)
(* and the game leave open.                                                *)
THEOREM OneTableOtherwise == Spec => []TwoTablesNeedAReset
<1>1. Init => PInv
  <2> SUFFICES ASSUME Init PROVE PInv
    OBVIOUS
  <2>1. TypeOK
    BY LobbyAssumption DEF Init, TypeOK, Hall
  <2>2. \A u \in Users : Placed(u)
    BY LobbyAssumption
    DEF Init, Placed, DoneInOrder, LateMarked, OneSeat, OneToCome, SitsAt, Users
  <2> QED BY <2>1, <2>2, LobbyInit DEF PInv
<1>2. PInv => TwoTablesNeedAReset
  BY DEF PInv, Placed, Strayed, OneSeat, AtTwoTables, TwoTablesNeedAReset
<1> QED BY <1>1, <1>2, PlacesNext, PTL DEF Spec

-----------------------------------------------------------------------------
(* The matcher.  A table can be found when it lies in a file that is       *)
(* searched, unless its last seat is promised.                             *)
Findable(f, r, t) == (\E n \in 0 .. SeatNum - 1 : t \in f[n]) \/ t \in r

Shown(t) ==
  /\ Waiting(t) /\ Taken(seats[t]) # {} /\ EmptySeats(t) # {} => Findable(filed, reserved, t)
  /\ state[t] = "NONE" => Taken(seats[t]) = {}

HInv == TypeOK /\ IInv /\ \A t \in Tables : Shown(t)

(* A table that waits and has a free seat is in no search lost.            *)
LEMMA SearchKeeps ==
  ASSUME TypeOK, NEW t \in Tables, Waiting(t), EmptySeats(t) # {},
         NEW K, K \subseteq 0 .. SeatNum - 1, NEW x, NEW r
  PROVE  Findable(filed, r, t) => Findable(Files(K, x), r, t)
<1> DEFINE k == PlayerNum(t)
<1>1. k \in 0 .. SeatNum - 1 /\ SeatNum \in Nat
  BY PlayersCounted, LobbyAssumption
<1> HIDE DEF k
<1> SUFFICES ASSUME NEW n \in 0 .. SeatNum - 1, t \in filed[n]
             PROVE  \E m \in 0 .. SeatNum - 1 : t \in Files(K, x)[m]
  BY DEF Findable
<1>2. DOMAIN filed = 0 .. SeatNum /\ 0 .. SeatNum - 1 \subseteq 0 .. SeatNum
  BY <1>1 DEF TypeOK
<1> DEFINE out == UNION { Misfiled(i, x) : i \in K }
<1>3. \A m \in 0 .. SeatNum :
        t \in Files(K, x)[m] <=> \/ t \in filed[m] /\ ~(m \in K /\ t \in Misfiled(m, x))
                                 \/ t \in out /\ m = k
  BY <1>2 DEF Files, k
<1>4. CASE n \in K /\ t \in Misfiled(n, x)
  <2>1. t \in out
    BY <1>4
  <2> QED BY <1>1, <1>2, <1>3, <2>1
<1>5. CASE ~(n \in K /\ t \in Misfiled(n, x))
  BY <1>2, <1>3, <1>5
<1> QED BY <1>4, <1>5

(* Nor does the search of the file in which a table is found lose it.      *)
LEMMA SweepKeeps ==
  ASSUME TypeOK, NEW t \in Tables, Waiting(t), EmptySeats(t) # {},
         NEW f \in FileType, NEW i \in 0 .. SeatNum - 1, NEW u, NEW x, NEW r
  PROVE  Findable(f, r, t) => Findable(Swept(f, i, u, x), r, t)
<1> DEFINE k == PlayerNum(t)
           g == Swept(f, i, u, x)
<1>1. k \in 0 .. SeatNum - 1 /\ SeatNum \in Nat
  BY PlayersCounted, LobbyAssumption
<1> SUFFICES ASSUME NEW n \in 0 .. SeatNum - 1, t \in f[n]
             PROVE  \E m \in 0 .. SeatNum - 1 : t \in g[m]
  BY DEF Findable
<1>2. DOMAIN f = 0 .. SeatNum /\ 0 .. SeatNum - 1 \subseteq 0 .. SeatNum
  BY <1>1 DEF FileType
<1> DEFINE hits  == Hits(f, i, u, x)
           ahead == { v \in f[i] : v # x /\ \A h \in hits : v < h }
           out   == { v \in ahead : v \notin InPlace(f, i) }
<1>3. /\ g[i] = f[i] \ out
      /\ \A m \in 0 .. SeatNum : m # i => g[m] = f[m] \cup { v \in out : Waiting(v) /\ PlayerNum(v) = m }
  BY <1>2 DEF Swept
<1>4. t \in out => k # i
  BY <1>1 DEF InPlace
<1> HIDE DEF out, g
<1>5. CASE t \in out
  <2>1. t \in g[k]
    BY <1>1, <1>2, <1>3, <1>4, <1>5
  <2> QED BY <1>1, <2>1
<1>6. CASE t \notin out
  BY <1>2, <1>3, <1>6
<1> QED BY <1>5, <1>6

(* The number of players when somebody sits down or leaves.                *)
LEMMA SeatTaken ==
  ASSUME TypeOK, NEW t \in Tables, NEW s \in Seats, seats[t][s] = None, NEW u \in Users,
         seats' = [seats EXCEPT ![t][s] = u]
  PROVE  PlayerNum(t)' = PlayerNum(t) + 1
<1>1. /\ seats'[t] = [seats[t] EXCEPT ![s] = u] /\ seats[t] \in [Seats -> Users \cup {None}]
      /\ u # None
  BY LobbyAssumption DEF TypeOK
<1>2. Taken(seats'[t]) = Taken(seats[t]) \cup {s} /\ s \notin Taken(seats[t])
  BY <1>1 DEF Taken
<1>3. IsFiniteSet(Taken(seats[t]))
  <2>1. Taken(seats[t]) \subseteq Seats
    BY DEF Taken
  <2> QED BY <2>1, SeatsFinite, FS_Subset
<1> QED BY <1>2, <1>3, FS_AddElement DEF PlayerNum

(* A table whose seats and state do not change.                            *)
LEMMA StaysShown ==
  ASSUME NEW t \in Tables, seats'[t] = seats[t], state'[t] = state[t], Shown(t),
         Waiting(t) /\ Taken(seats[t]) # {} /\ EmptySeats(t) # {} =>
            (Findable(filed, reserved, t) => Findable(filed', reserved', t))
  PROVE  Shown(t)'
<1>1. (Waiting(t)' <=> Waiting(t)) /\ EmptySeats(t)' = EmptySeats(t)
  BY DEF Waiting, EmptySeats
<1> QED BY <1>1 DEF Shown, Findable

(* The matcher gives a table, makes one or fails.                          *)
LEMMA MatchShows ==
  ASSUME HInv, NEW u \in Users, NEW x \in Tables \cup {None}, MatchAtGame(u, x), NEW v \in Tables
  PROVE  Shown(v)'
<1>t. filed \in FileType /\ state \in [Tables -> {"NONE", "WAIT", "PLAYING", "FINISH"}]
      /\ SeatNum \in Nat /\ seats' = seats
  BY LobbyAssumption DEF HInv, TypeOK, FileType, MatchAtGame
<1>1. Searched(u) \subseteq 0 .. SeatNum - 1 /\ \A i \in Searched(u) : Fuller(u, i) \subseteq 0 .. SeatNum - 1
  BY <1>t DEF Searched, Seats, Fuller
<1>2. 0 .. SeatNum - 1 \subseteq 0 .. SeatNum
  BY <1>t
<1> DEFINE Sought == Waiting(v) /\ Taken(seats[v]) # {} /\ EmptySeats(v) # {}
<1>3. ASSUME NEW i \in Searched(u), NEW t \in Tables, MatchFound(u, x, i, t) PROVE Shown(v)'
  <2> DEFINE f == Files(Fuller(u, i), x)
             g == Swept(f, i, u, x)
  <2>1. i \in 0 .. SeatNum - 1 /\ i \in 0 .. SeatNum /\ i + 1 \in 0 .. SeatNum
    BY <1>t, <1>1, <1>2
  <2>2. f \in FileType
    BY <1>t, <1>1, <1>2, FilesTyped
  <2>3. Sought => (Findable(filed, reserved, v) => Findable(f, reserved, v))
    BY <1>1, SearchKeeps DEF HInv
  <2> HIDE DEF f
  <2>4. Sought => (Findable(f, reserved, v) => Findable(g, reserved, v))
    BY <2>1, <2>2, SweepKeeps DEF HInv
  <2>5. g \in FileType
    BY <1>t, <2>1, <2>2, FilesTyped
  <2>6. /\ filed' = [g EXCEPT ![i] = @ \ {t}, ![i + 1] = @ \cup {t}]
        /\ reserved' = IF i + 1 = SeatNum THEN reserved \cup {t} ELSE reserved
        /\ state' = state
    BY <1>3 DEF MatchFound, f
  <2> HIDE DEF g
  <2>7. Findable(g, reserved, v) => Findable(filed', reserved', v)
    <3>1. \A n \in 0 .. SeatNum :
            filed'[n] = IF n = i + 1 THEN g[n] \cup {t} ELSE IF n = i THEN g[n] \ {t} ELSE g[n]
      BY <2>1, <2>5, <2>6 DEF FileType
    <3>2. CASE v = t /\ i + 1 = SeatNum
      BY <2>6, <3>2 DEF Findable
    <3>3. CASE v = t /\ i + 1 # SeatNum
      <4>1. i + 1 \in 0 .. SeatNum - 1
        BY <1>t, <2>1, <3>3
      <4>2. v \in filed'[i + 1]
        BY <2>1, <3>1, <3>3
      <4> QED BY <4>1, <4>2 DEF Findable
    <3>4. CASE v # t
      <4>1. \A n \in 0 .. SeatNum : v \in g[n] => v \in filed'[n]
        BY <3>1, <3>4
      <4>2. \A n \in 0 .. SeatNum - 1 : v \in g[n] => v \in filed'[n]
        BY <1>2, <4>1
      <4> QED BY <2>6, <4>2 DEF Findable
    <3> QED BY <3>2, <3>3, <3>4
  <2> QED BY <1>t, <2>3, <2>4, <2>6, <2>7, StaysShown DEF HInv
<1>4. Sought => (Findable(filed, reserved, v) => Findable(AllSwept(u, x), reserved, v))
  BY <1>1, SearchKeeps DEF HInv, AllSwept
<1>5. ASSUME NEW t \in Tables, MatchCreates(u, x, t) PROVE Shown(v)'
  <2>1. state[t] = "NONE" /\ Taken(seats[t]) = {} /\ state' = [state EXCEPT ![t] = "WAIT"]
        /\ filed' = Created(AllSwept(u, x), t) /\ reserved' = reserved
    BY <1>5 DEF MatchCreates, IsFree, HInv, Shown
  <2>2. CASE v = t
    BY <1>t, <2>1, <2>2 DEF Shown
  <2>3. CASE v # t
    <3>1. AllSwept(u, x) \in FileType
      BY <1>t, <1>1, <1>2, <1>5, FilesTyped DEF AllSwept, MatchCreates
    <3>2. \A n \in 0 .. SeatNum : AllSwept(u, x)[n] \subseteq filed'[n]
      BY <2>1, <3>1 DEF Created, FileType
    <3>3. Findable(AllSwept(u, x), reserved, v) => Findable(filed', reserved', v)
      BY <1>2, <2>1, <3>2 DEF Findable
    <3> QED BY <1>t, <1>4, <2>1, <2>3, <3>3, StaysShown DEF HInv
  <2> QED BY <2>2, <2>3
<1>6. CASE MatchFails(u, x)
  <2>1. filed' = AllSwept(u, x) /\ reserved' = reserved /\ state' = state
    BY <1>6 DEF MatchFails
  <2> QED BY <1>t, <1>4, <2>1, StaysShown DEF HInv
<1> QED BY <1>3, <1>5, <1>6 DEF MatchAtGame

(* A table is filed anew under the number of its players.                  *)
LEMMA RefiledShows ==
  ASSUME TypeOK', NEW f \in FileType, NEW t \in Tables, filed' = Refiled(f, t, PlayerNum(t)')
  PROVE  EmptySeats(t)' # {} => Findable(filed', reserved', t)
<1>1. PlayerNum(t)' \in 0 .. SeatNum /\ (EmptySeats(t)' # {} => PlayerNum(t)' < SeatNum)
  <2>1. ASSUME EmptySeats(t)' # {}, TRUE PROVE Taken(seats'[t]) # Seats
    BY <2>1 DEF EmptySeats, Taken
  <2>3. Taken(seats'[t]) \subseteq Seats
    BY DEF Taken
  <2>4. /\ IsFiniteSet(Taken(seats'[t])) /\ Cardinality(Taken(seats'[t])) <= SeatNum
        /\ Cardinality(Taken(seats'[t])) = SeatNum => Taken(seats'[t]) = Seats
    BY <2>3, SeatsFinite, FS_Subset
  <2>5. Cardinality(Taken(seats'[t])) \in Nat
    BY <2>4, FS_CardinalityType
  <2> QED BY <2>1, <2>4, <2>5, LobbyAssumption DEF PlayerNum
<1> DEFINE n == PlayerNum(t)'
<1> HIDE DEF n
<1>2. ASSUME EmptySeats(t)' # {} PROVE n \in 0 .. SeatNum - 1 /\ t \in filed'[n]
  <2>1. n \in 0 .. SeatNum - 1 /\ n \in 0 .. SeatNum
    BY <1>1, <1>2, LobbyAssumption DEF n
  <2>2. filed' = Refiled(f, t, n)
    BY DEF n
  <2> QED BY <2>1, <2>2 DEF Refiled, FileType
<1> QED BY <1>2 DEF Findable

(* Other tables stay in their files.                                       *)
LEMMA OthersFiled ==
  ASSUME NEW f \in FileType, NEW t \in Tables, NEW n, NEW r, NEW v \in Tables, v # t,
         Findable(f, r, v)
  PROVE  Findable(Refiled(f, t, n), r \ {t}, v) /\ Findable(Left(f, t, n), r \ {t}, v)
<1>1. SeatNum \in Nat /\ 0 .. SeatNum - 1 \subseteq 0 .. SeatNum
  BY LobbyAssumption
<1>2. /\ \A k \in 0 .. SeatNum : v \in Refiled(f, t, n)[k] <=> v \in f[k]
      /\ \A k \in 0 .. SeatNum : v \in Left(f, t, n)[k] <=> v \in f[k]
  BY DEF Refiled, Left, FileType
<1> QED BY <1>1, <1>2 DEF Findable

(* A request to enter makes the table, or refiles it for who sits there.   *)
LEMMA EnterShows ==
  ASSUME HInv, TypeOK', NEW u \in Users, NEW t \in Tables, EnterAtGame(u, t), NEW v \in Tables
  PROVE  Shown(v)'
<1> DEFINE f == IF state[t] = "NONE" THEN Created(filed, t) ELSE filed
<1>t. filed \in FileType /\ state \in [Tables -> {"NONE", "WAIT", "PLAYING", "FINISH"}]
      /\ SeatNum \in Nat /\ 0 .. SeatNum - 1 \subseteq 0 .. SeatNum /\ Shown(v)
  BY LobbyAssumption DEF HInv, TypeOK, FileType
<1>1. CASE UNCHANGED << seats, state, filed, reserved >>
  BY <1>t, <1>1, StaysShown
<1>2. CASE ~Entering(u)
  <2>1. /\ seats' = seats
        /\ state' = IF state[t] = "NONE" THEN [state EXCEPT ![t] = "WAIT"] ELSE state
        /\ \/ /\ SitsAt(u, t) /\ filed' = Refiled(f, t, PlayerNum(t)) /\ reserved' = reserved \ {t}
           \/ filed' = f /\ reserved' = reserved
    BY <1>2 DEF EnterAtGame
  <2>2. f \in FileType /\ \A n \in 0 .. SeatNum : filed[n] \subseteq f[n]
    BY <1>t, FilesTyped DEF Created, FileType
  <2> HIDE DEF f
  <2>3. Findable(filed, reserved, v) => Findable(f, reserved, v)
    BY <1>t, <2>2 DEF Findable
  <2>4. CASE v # t
    <3>1. state'[v] = state[v]
      BY <1>t, <2>1, <2>4
    <3>2. Findable(f, reserved, v) => Findable(filed', reserved', v)
      BY <2>1, <2>2, <2>4, OthersFiled
    <3> QED BY <1>t, <2>1, <2>3, <3>1, <3>2, StaysShown
  <2>5. CASE v = t /\ state[t] = "NONE"
    BY <1>t, <2>1, <2>5 DEF Shown
  <2>6. CASE v = t /\ state[t] # "NONE"
    <3>1. CASE filed' = f /\ reserved' = reserved
      BY <1>t, <2>1, <2>3, <2>6, <3>1, StaysShown
    <3>2. CASE filed' = Refiled(f, t, PlayerNum(t))
      <4>1. PlayerNum(t)' = PlayerNum(t)
        BY <2>1 DEF PlayerNum
      <4>2. EmptySeats(t)' # {} => Findable(filed', reserved', t)
        BY <2>2, <3>2, <4>1, RefiledShows
      <4> QED BY <2>1, <2>6, <4>2 DEF Shown, Findable
    <3> QED BY <2>1, <3>1, <3>2
  <2> QED BY <2>4, <2>5, <2>6
<1>3. Entering(u) => UNCHANGED << seats, state, filed, reserved >>
  BY DEF EnterAtGame, tables
<1> QED BY <1>1, <1>2, <1>3

(* Who sits down is counted.                                               *)
LEMMA SitDownShows ==
  ASSUME HInv, TypeOK', NEW u \in Users, NEW t \in Tables, SitDown(u, t), NEW v \in Tables
  PROVE  Shown(v)'
<1>t. filed \in FileType /\ state \in [Tables -> {"NONE", "WAIT", "PLAYING", "FINISH"}] /\ Shown(v)
      /\ seats \in [Tables -> [Seats -> Users \cup {None}]]
  BY DEF HInv, TypeOK, FileType
<1>1. CASE UNCHANGED << seats, state, filed, reserved >>
  BY <1>t, <1>1, StaysShown
<1>2. CASE EmptySeats(t) # {}
  <2>1. PICK s \in EmptySeats(t) : seats' = [seats EXCEPT ![t][s] = u]
    BY <1>2 DEF SitDown
  <2>2. /\ filed' = Refiled(filed, t, PlayerNum(t) + 1) /\ state' = [state EXCEPT ![t] = "WAIT"]
        /\ reserved' = reserved \ {t}
    BY <1>2 DEF SitDown
  <2>3. CASE v # t
    <3>1. state'[v] = state[v] /\ seats'[v] = seats[v]
      BY <1>t, <2>1, <2>2, <2>3
    <3>2. Findable(filed, reserved, v) => Findable(filed', reserved', v)
      BY <1>t, <2>2, <2>3, OthersFiled
    <3> QED BY <1>t, <3>1, <3>2, StaysShown
  <2>4. CASE v = t
    <3>1. s \in Seats /\ seats[t][s] = None
      BY DEF EmptySeats
    <3>2. PlayerNum(t)' = PlayerNum(t) + 1
      BY <2>1, <3>1, SeatTaken DEF HInv
    <3>3. EmptySeats(t)' # {} => Findable(filed', reserved', t)
      BY <1>t, <2>2, <3>2, RefiledShows
    <3> QED BY <1>t, <2>2, <2>4, <3>3 DEF Shown, Findable
  <2> QED BY <2>3, <2>4
<1>3. EmptySeats(t) = {} => UNCHANGED << seats, state, filed, reserved >>
  BY DEF SitDown, tables
<1> QED BY <1>1, <1>2, <1>3

(* Who leaves a waiting table leaves it in the file of the others.         *)
LEMMA LogoutShows ==
  ASSUME HInv, NEW u \in Users, HasSeat(u), LogoutTable(u, usertable[u]), NEW v \in Tables
  PROVE  Shown(v)'
<1>0. PICK t \in Tables : t = usertable[u]
  BY DEF HasSeat, HInv, TypeOK
<1>t. filed \in FileType /\ state \in [Tables -> {"NONE", "WAIT", "PLAYING", "FINISH"}] /\ Shown(v)
      /\ seats \in [Tables -> [Seats -> Users \cup {None}]]
  BY DEF HInv, TypeOK, FileType
<1>1. /\ seats' = [seats EXCEPT ![t][SeatOf(u, t)] = None]
      /\ filed' = Left(filed, t, PlayerNum(t)) /\ reserved' = reserved \ {t} /\ state' = state
  BY <1>0 DEF LogoutTable
<1>2. SeatOf(u, t) \in Seats /\ seats[t][SeatOf(u, t)] = u
  BY <1>0 DEF HasSeat, SitsAt, SeatOf
<1> DEFINE s == SeatOf(u, t)
<1> HIDE DEF s
<1>3. CASE v # t
  <2>1. seats'[v] = seats[v]
    BY <1>t, <1>1, <1>3
  <2>2. Findable(filed, reserved, v) => Findable(filed', reserved', v)
    BY <1>t, <1>1, <1>3, OthersFiled
  <2> QED BY <1>t, <1>1, <2>1, <2>2, StaysShown
<1>4. CASE v = t
  <2>1. s \in Seats /\ s \in Taken(seats[t])
    BY <1>2, LobbyAssumption DEF Taken, s
  <2>2. PlayerNum(t) \in 0 .. SeatNum /\ PlayerNum(t) > 0
    BY <1>t, <2>1, PlayersCounted
  <2> DEFINE n == PlayerNum(t) - 1
  <2>3. n \in 0 .. SeatNum - 1 /\ n \in 0 .. SeatNum /\ n # PlayerNum(t)
    BY <2>2, LobbyAssumption
  <2>4. filed' = Left(filed, t, n + 1)
    BY <1>1, <2>2
  <2> HIDE DEF n
  <2>5. Waiting(t) => t \in filed'[n]
    BY <1>t, <2>3, <2>4 DEF Left, FileType
  <2>6. Waiting(t)' <=> Waiting(t)
    BY <1>1 DEF Waiting
  <2>7. state[t] # "NONE"
    BY <1>4, <1>t, <2>1 DEF Shown
  <2> QED BY <1>1, <1>4, <2>3, <2>5, <2>6, <2>7 DEF Shown, Findable
<1> QED BY <1>3, <1>4

(* A dissolved table has no player.                                        *)
LEMMA DissolveShows ==
  ASSUME HInv, NEW t \in Tables, DissolveTable(t), NEW v \in Tables
  PROVE  Shown(v)'
<1>t. filed \in FileType /\ Shown(v) /\ seats \in [Tables -> [Seats -> Users \cup {None}]]
  BY DEF HInv, TypeOK, FileType
<1>1. /\ seats' = [seats EXCEPT ![t] = [ s \in Seats |-> None ]]
      /\ filed' = [ k \in DOMAIN filed |->
                      CASE k \in 1 .. PlayerNum(t) -> filed[k] \ {t}
                        [] k = 0 /\ PlayerNum(t) > 0 /\ Waiting(t) -> filed[k] \cup {t}
                        [] OTHER -> filed[k] ]
      /\ reserved' = reserved \ {t} /\ state' = state
  BY DEF DissolveTable
<1>2. CASE v = t
  <2>1. Taken(seats'[v]) = {}
    BY <1>t, <1>1, <1>2 DEF Taken
  <2> QED BY <2>1 DEF Shown
<1>3. CASE v # t
  <2>1. \A k \in 0 .. SeatNum : v \in filed'[k] <=> v \in filed[k]
    BY <1>t, <1>1, <1>3 DEF FileType
  <2>2. SeatNum \in Nat /\ 0 .. SeatNum - 1 \subseteq 0 .. SeatNum
    BY LobbyAssumption
  <2>3. Findable(filed, reserved, v) => Findable(filed', reserved', v)
    BY <1>1, <1>3, <2>1, <2>2 DEF Findable
  <2>4. seats'[v] = seats[v]
    BY <1>t, <1>1, <1>3
  <2> QED BY <1>t, <1>1, <2>3, <2>4, StaysShown
<1> QED BY <1>2, <1>3

(* GetTableForUser finds every waiting table that has a player and a free  *)
(* seat, unless it promised the last free seat since somebody last sat     *)
(* down or left.                                                           *)
THEOREM WaitingIsFound == Spec => []OnlyReservationsHide
<1>1. Init => HInv
  <2> SUFFICES ASSUME Init PROVE HInv
    OBVIOUS
  <2>1. TypeOK
    BY LobbyAssumption DEF Init, TypeOK, Hall
  <2>2. \A t \in Tables : Shown(t)
    BY DEF Init, Shown, Waiting, Taken
  <2> QED BY <2>1, <2>2, LobbyInit DEF HInv
<1>2. HInv /\ [Next]_vars => HInv'
  <2> SUFFICES ASSUME HInv, [Next]_vars, TypeOK', IInv', NEW v \in Tables PROVE Shown(v)'
    <3>1. ASSUME HInv, [Next]_vars PROVE IInv' /\ TypeOK'
      BY <3>1, LobbyNext, TypesKept DEF HInv
    <3> QED BY <3>1 DEF HInv
  <2>1. CASE UNCHANGED << seats, state, filed, reserved >>
    BY <2>1, StaysShown DEF HInv
  <2>2. ASSUME NEW u \in Users,
               RequestMatch(u) \/ RequestEnter(u) \/ RequestLogout(u) \/ ClientGone(u) \/ RoomUpdated(u)
        PROVE  Shown(v)'
    BY <2>1, <2>2 DEF RequestMatch, RequestEnter, RequestLogout, ClientGone, RoomUpdated, tables
  <2>3. ASSUME NEW u \in Users, UpdateAtUser(u) PROVE Shown(v)'
    <3>1. UNCHANGED << tables, reserved >>
      BY <2>3 DEF UpdateAtUser
    <3> QED BY <2>1, <3>1 DEF tables
  <2>4. ASSUME NEW u \in Users, UpdateAnswered(u) PROVE Shown(v)'
    <3>1. Head(updates[u]).tid \in Tables
      <4>1. updates[u] # << >> /\ updates[u] \in Seq(Update)
        BY <2>4 DEF UpdateAnswered, HInv, TypeOK
      <4>2. Head(updates[u]) \in Update
        BY <4>1
      <4> QED BY <4>2 DEF Update
    <3> QED BY <2>1, <2>4, <3>1, SitDownShows, LogoutShows, DissolveShows DEF UpdateAnswered, tables
  <2>5. ASSUME NEW u \in Users, NEW i \in DOMAIN updates[u], SessionTimeout(u, i) PROVE Shown(v)'
    <3>1. updates[u][i] \in Update
      BY DEF HInv, TypeOK
    <3>2. updates[u][i].tid \in Tables
      BY <3>1 DEF Update
    <3> QED BY <2>1, <2>5, <3>2, DissolveShows DEF SessionTimeout, tables
  <2>6. ASSUME NEW u \in Users, NEW x \in Tables \cup {None}, MatchAtGame(u, x) PROVE Shown(v)'
    BY <2>6, MatchShows
  <2>7. ASSUME NEW u \in Users, NEW t \in Tables, EnterAtGame(u, t) PROVE Shown(v)'
    BY <2>7, EnterShows
  <2>8. ASSUME NEW t \in Tables, Start(t) \/ Finish(t) PROVE Shown(v)'
    <3>1. /\ seats' = seats /\ filed' = filed /\ reserved' = reserved
          /\ state[t] \in {"WAIT", "PLAYING"} /\ \E st \in {"PLAYING", "FINISH"} : state' = [state EXCEPT ![t] = st]
      BY <2>8 DEF Start, Finish, Waiting
    <3>2. state \in [Tables -> {"NONE", "WAIT", "PLAYING", "FINISH"}] /\ Shown(v)
      BY DEF HInv, TypeOK
    <3>3. CASE v = t
      <4>1. state'[v] \in {"PLAYING", "FINISH"}
        BY <3>1, <3>2, <3>3
      <4> QED BY <4>1 DEF Shown, Waiting
    <3>4. CASE v # t
      <4>1. state'[v] = state[v]
        BY <3>1, <3>2, <3>4
      <4> QED BY <3>1, <3>2, <4>1, StaysShown
    <3> QED BY <3>3, <3>4
  <2>9. ASSUME NEW t \in Tables, GmDissolve(t) PROVE Shown(v)'
    BY <2>1, <2>9 DEF GmDissolve, tables
  <2>10. CASE UNCHANGED vars
    BY <2>1, <2>10 DEF vars, tables
  <2> QED BY <2>2, <2>3, <2>4, <2>5, <2>6, <2>7, <2>8, <2>9, <2>10 DEF Next
<1>3. HInv => OnlyReservationsHide
  BY DEF HInv, Shown, OnlyReservationsHide, Findable
<1> QED BY <1>1, <1>2, <1>3, PTL DEF Spec

=============================================================================
