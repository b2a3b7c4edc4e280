------------------------------ MODULE CoinLobby ------------------------------
(***************************************************************************)
(* The tables of one coin game server and the way to them: TableManager    *)
(* with the files it matches users from, the handlers of ddz_Coin_3 that   *)
(* seat users and take them away, the room's handlers in front of them,    *)
(* and the field Coin_POS of the user server, by which a user is kept from *)
(* sitting twice.                                                          *)
(*                                                                         *)
(* An update of Coin_POS is asked for in one step of a session and         *)
(* answered in a later one; in between the handlers of other sessions run. *)
(* The game server reaches the user server over one connection, so its     *)
(* updates of one user are applied and answered in order; the room's come  *)
(* over another.  A round on a table is DdzTable's business: here a full   *)
(* table may start and a running one may finish.                           *)
(***************************************************************************)
EXTENDS Integers, Sequences, FiniteSets

CONSTANTS
  Players,      \* accounts of people
  Robots,       \* accounts with acc_type EN_Account_Robot
  SeatNum,      \* config.seat_num (3 in CreateTableByP)
  NumTables,    \* bound: table ids of the server (1000000 in the code)
  MaxRequests,  \* bound: requests of clients in one behaviour
  GmTables,     \* bound: the tables a GM dissolves
  MaxTimeouts,  \* bound: sessions that time out in one behaviour
  None          \* nobody, no table; as a position: EN_Position_Hall

Users  == Players \cup Robots
Tables == 1 .. NumTables
Seats  == 0 .. SeatNum - 1
Hall   == None

ASSUME LobbyAssumption ==
  /\ SeatNum \in Nat \ {0} /\ NumTables \in Nat
  /\ MaxRequests \in Nat /\ MaxTimeouts \in Nat /\ GmTables \subseteq Tables
  /\ Players \cap Robots = {}
  /\ None \notin Users \cup Tables

(* A session of the game server that updates Coin_POS of one user: what it *)
(* asks for, whether the user server has done it, and whether the session  *)
(* still lives.                                                            *)
Update == [ kind : {"Enter", "Logout", "Finish", "Gm"}, tid : Tables,
            done : {"no", "ok", "refused"}, live : BOOLEAN ]

VARIABLES
  state,      \* table.state(); "NONE": not in _tablemap
  seats,      \* the uid of each seat, None when EN_SEAT_STATE_NO_PLAYER
  filed,      \* m_TablePlayerNumMap: tables by their number of players
  usertable,  \* _usertablemap
  lastTid,    \* m_StartAllocTid
  coinPos,    \* Coin_POS of the user server: Hall or a table
  room,       \* requests in work in the room: << user, what >>
  told,       \* the table the matcher last gave the client of a user
  forwarded,  \* enter requests on their way from the room to the game
  updates,    \* for each user, the updates the game server waits for
  requests, timeouts,   \* how many there were
  reserved,   \* history: tables whose last free seat the matcher gave away
              \* since somebody sat down or left
  strayed     \* history: who was put into the hall while he kept a seat or
              \* was about to get one, and by what, since he was last out of
              \* the game

tables == << state, seats, filed, usertable, lastTid >>
ways   == << room, told, forwarded >>
counts == << requests, timeouts >>
vars   == << tables, ways, counts, coinPos, updates, reserved, strayed >>

TypeOK ==
  /\ state \in [Tables -> {"NONE", "WAIT", "PLAYING", "FINISH"}]
  /\ seats \in [Tables -> [Seats -> Users \cup {None}]]
  /\ filed \in [0 .. SeatNum -> SUBSET Tables]
  /\ usertable \in [Users -> Tables \cup {None}]
  /\ lastTid \in Tables \cup {0}
  /\ coinPos \in [Users -> Tables \cup {Hall}]
  /\ room \subseteq Users \X {"match", "clearMatch", "clear"}
  /\ told \in [Users -> Tables \cup {None}]
  /\ forwarded \subseteq Users \X Tables
  /\ updates \in [Users -> Seq(Update)]
  /\ requests \in 0 .. MaxRequests /\ timeouts \in 0 .. MaxTimeouts
  /\ reserved \subseteq Tables /\ strayed \subseteq Users \X {"room", "timeout", "dissolving"}

Init ==
  /\ state = [ t \in Tables |-> "NONE" ]
  /\ seats = [ t \in Tables |-> [ s \in Seats |-> None ] ]
  /\ filed = [ n \in 0 .. SeatNum |-> {} ]
  /\ usertable = [ u \in Users |-> None ] /\ lastTid = 0
  /\ coinPos = [ u \in Users |-> Hall ]
  /\ room = {} /\ told = [ u \in Users |-> None ] /\ forwarded = {}
  /\ updates = [ u \in Users |-> << >> ]
  /\ requests = 0 /\ timeouts = 0
  /\ reserved = {} /\ strayed = {}

-----------------------------------------------------------------------------
(* The tables.                                                             *)

SeatedIn(st) == { st[s] : s \in Seats } \ {None}
Taken(st)    == { s \in Seats : st[s] # None }
PlayerNum(t) == Cardinality(Taken(seats[t]))              \* GetPlayerNum
SitsAt(u, t) == \E s \in Seats : seats[t][s] = u          \* FindUserInTable
M_HasSeatUnchecked(u) == TRUE
HasSeat(u)   == usertable[u] # None /\ SitsAt(u, usertable[u])
SeatOf(u, t) == CHOOSE s \in Seats : seats[t][s] = u      \* FindIndexByUid
EmptySeats(t) == { s \in Seats : seats[t][s] = None }
(* SINGLE_OVER and WAIT_ROBOT are never entered on a coin table. *)
Waiting(t)   == state[t] = "WAIT"

Request == requests < MaxRequests /\ requests' = requests + 1

(* OnPlayerEnterTable: the table is filed anew under the number of its     *)
(* players, which is n.                                                    *)
Refiled(f, t, n) == [ k \in DOMAIN f |-> IF k = n THEN f[k] \cup {t} ELSE f[k] \ {t} ]

(* OnPlayerLeaveTable with n players still counted: the table is filed     *)
(* under one player less if it is waiting, and no more under n.            *)
M_LeftUnfiled(f, t, n) == [f EXCEPT ![n] = @ \ {t}]
Left(f, t, n) ==
  [ k \in DOMAIN f |-> CASE k = n -> f[k] \ {t}
                         [] k = n - 1 /\ Waiting(t) -> f[k] \cup {t}
                         [] OTHER -> f[k] ]

(* CreateTableByP: a new table is filed under one player.                  *)
Created(f, t) == [f EXCEPT ![1] = @ \cup {t}]

(* GetTableForUser takes the first table of file i that suits the user and *)
(* refiles or drops what is in front of it and does not belong there.      *)
(* exclude is the table the client does not want, None if it names none.   *)
RobotMayJoin(t) ==
  LET there == SeatedIn(seats[t])
  IN  there \cap Players # {} /\ Cardinality(there \cap Robots) < 2
Suits(u, t) == u \in Robots => RobotMayJoin(t)

InPlace(f, i) == { t \in f[i] : Waiting(t) /\ PlayerNum(t) = i /\ i < SeatNum }
Hits(f, i, u, exclude) == { t \in InPlace(f, i) : t # exclude /\ Suits(u, t) }

Swept(f, i, u, exclude) ==
  LET hits  == Hits(f, i, u, exclude)
      ahead == { t \in f[i] : t # exclude /\ \A h \in hits : t < h }
      out   == { t \in ahead : t \notin InPlace(f, i) }
  IN  [ k \in DOMAIN f |->
          IF k = i THEN f[k] \ out
          ELSE f[k] \cup { t \in out : Waiting(t) /\ PlayerNum(t) = k } ]

(* The files are searched from the fullest down; robots join no empty      *)
(* table.  A file that suits nobody has lost all that does not belong to   *)
(* it when the next one comes.                                             *)
Searched(u)    == IF u \in Robots THEN 1 .. SeatNum - 1 ELSE Seats
Fuller(u, i)   == { k \in Searched(u) : k > i }
Misfiled(i, exclude) == { t \in filed[i] : t # exclude /\ t \notin InPlace(filed, i) }

(* The files when those of the set searched have been searched in vain.    *)
Files(searched, exclude) ==
  LET out == UNION { Misfiled(i, exclude) : i \in searched }
  IN  [ k \in DOMAIN filed |->
          { t \in filed[k] : ~(k \in searched /\ t \in Misfiled(k, exclude)) }
          \cup { t \in out : Waiting(t) /\ PlayerNum(t) = k } ]
HitsAt(i, u, exclude) == Hits(Files(Fuller(u, i), exclude), i, u, exclude)

(* m_StartAllocTid goes round until it meets an id that is no table.       *)
IsFree(t)  == state[t] = "NONE"
NextTid(t) ==
  \/ t > lastTid /\ \A v \in lastTid + 1 .. t - 1 : ~IsFree(v)
  \/ t <= lastTid /\ \A v \in (1 .. t - 1) \cup (lastTid + 1 .. NumTables) : ~IsFree(v)

(* CRequestCoinMatchGame of the game, from the answer to its query on: the *)
(* table found is filed under one player more, for the one who will come.  *)
MatchFound(u, exclude, i, t) ==
  /\ t \in HitsAt(i, u, exclude) /\ \A h \in HitsAt(i, u, exclude) : t <= h
  /\ \A k \in Fuller(u, i) : HitsAt(k, u, exclude) = {}
  /\ filed' = [Swept(Files(Fuller(u, i), exclude), i, u, exclude)
                 EXCEPT ![i] = @ \ {t}, ![i + 1] = @ \cup {t}]
  /\ told' = [told EXCEPT ![u] = t]
  /\ reserved' = IF i + 1 = SeatNum THEN reserved \cup {t} ELSE reserved
  /\ UNCHANGED << state, lastTid >>

NotFound(u, exclude) == \A i \in Searched(u) : HitsAt(i, u, exclude) = {}
AllSwept(u, exclude) == Files(Searched(u), exclude)

MatchCreates(u, exclude, t) ==
  /\ u \in Players /\ NotFound(u, exclude)
  /\ IsFree(t) /\ NextTid(t)
  /\ lastTid' = t
  /\ filed' = Created(AllSwept(u, exclude), t)
  /\ state' = [state EXCEPT ![t] = "WAIT"]
  /\ told' = [told EXCEPT ![u] = t]
  /\ UNCHANGED reserved

MatchFails(u, exclude) ==                  \* ALLOC_TABLE_FAILED
  /\ u \in Robots /\ NotFound(u, exclude)
  /\ filed' = AllSwept(u, exclude)
  /\ UNCHANGED << state, lastTid, told, reserved >>

MatchAtGame(u, exclude) ==
  /\ << u, "match" >> \in room
  /\ room' = room \ {<< u, "match" >>}
  /\ \/ \E i \in Searched(u) : \E t \in Tables : MatchFound(u, exclude, i, t)
     \/ \E t \in Tables : MatchCreates(u, exclude, t)
     \/ MatchFails(u, exclude)
  /\ UNCHANGED << seats, usertable, coinPos, forwarded, updates, counts, strayed >>

-----------------------------------------------------------------------------
(* The room.                                                               *)

(* CRequestCoinMatchGame: people whose Coin_POS is not the hall are        *)
(* refused, robots are put into the hall first.                            *)
RequestMatch(u) ==
  /\ Request
  /\ \/ u \in Robots /\ room' = room \cup {<< u, "clearMatch" >>}
     \/ u \in Players /\ coinPos[u] = Hall /\ room' = room \cup {<< u, "match" >>}
  /\ UNCHANGED << tables, told, forwarded, timeouts, coinPos, updates, reserved, strayed >>

(* CRequestSDREnterTable, coin branch: a user in the hall is forwarded.    *)
(* For another the id of his game server is taken from the wrong field and *)
(* so never exists, and his position is cleared.                           *)
(* A client asks here only for a table he was told of; the code forwards   *)
(* any table at any server that he names.                                  *)
RequestEnter(u) ==
  /\ Request /\ told[u] # None
  /\ IF coinPos[u] = Hall
       THEN forwarded' = forwarded \cup {<< u, told[u] >>} /\ room' = room
       ELSE forwarded' = forwarded /\ room' = room \cup {<< u, "clear" >>}
  /\ UNCHANGED << tables, told, timeouts, coinPos, updates, reserved, strayed >>

InGame(u) == (\E t \in Tables : SitsAt(u, t)) \/ updates[u] # << >>

(* The user server does the room's update, and the room goes on.           *)
RoomUpdated(u) ==
  /\ \/ << u, "clear" >> \in room /\ room' = room \ {<< u, "clear" >>}
     \/ /\ << u, "clearMatch" >> \in room
        /\ room' = (room \ {<< u, "clearMatch" >>}) \cup {<< u, "match" >>}
  /\ coinPos' = [coinPos EXCEPT ![u] = Hall]
  /\ strayed' = IF InGame(u) THEN strayed \cup {<< u, "room" >>} ELSE strayed
  /\ UNCHANGED << tables, told, forwarded, counts, updates, reserved >>

(* The client disconnects and forgets what the matcher told it. *)
ClientGone(u) ==
  /\ told[u] # None /\ told' = [told EXCEPT ![u] = None]
  /\ UNCHANGED << tables, room, forwarded, counts, coinPos, updates, reserved, strayed >>

-----------------------------------------------------------------------------
(* The sessions of the game server.                                        *)

NewUpdate(kind, t) == [kind |-> kind, tid |-> t, done |-> "no", live |-> TRUE]

(* LockProcess: one enter request of a user at a time.                     *)
M_NeverEntering(u) == FALSE
Entering(u) == \E i \in DOMAIN updates[u] : updates[u][i].kind = "Enter" /\ updates[u][i].live

(* CRequestEnterTable up to its update.  The lock is taken when the        *)
(* request comes; until its query is answered the handler does nothing     *)
(* else, so both are one step.                                             *)
EnterAtGame(u, t) ==
  /\ << u, t >> \in forwarded
  /\ forwarded' = forwarded \ {<< u, t >>}
  /\ IF Entering(u)
     THEN UNCHANGED << tables, updates, reserved >>
     ELSE LET f == IF state[t] = "NONE" THEN Created(filed, t) ELSE filed
          IN  /\ state' = IF state[t] = "NONE" THEN [state EXCEPT ![t] = "WAIT"] ELSE state
              /\ \/ /\ SitsAt(u, t)                      \* a reconnection
                    /\ filed' = Refiled(f, t, PlayerNum(t))
                    /\ usertable' = [usertable EXCEPT ![u] = t]
                    /\ reserved' = reserved \ {t}
                    /\ updates' = updates
                 \/ /\ ~SitsAt(u, t) /\ EmptySeats(t) = {}   \* NO_EMPTY_SEAT
                    /\ filed' = f
                    /\ UNCHANGED << usertable, updates, reserved >>
                 \/ /\ ~SitsAt(u, t) /\ EmptySeats(t) # {}
                    /\ filed' = f
                    /\ updates' = [updates EXCEPT ![u] = Append(@, NewUpdate("Enter", t))]
                    /\ UNCHANGED << usertable, reserved >>
              /\ UNCHANGED << seats, lastTid >>
  /\ UNCHANGED << room, told, counts, coinPos, strayed >>

(* CRequestLogoutTable: whatever the state of the table is. *)
RequestLogout(u) ==
  /\ HasSeat(u) /\ Request
  /\ updates' = [updates EXCEPT ![u] = Append(@, NewUpdate("Logout", usertable[u]))]
  /\ UNCHANGED << tables, ways, timeouts, coinPos, reserved, strayed >>

(* A full table starts to play. *)
Start(t) ==
  /\ Waiting(t) /\ EmptySeats(t) = {}
  /\ state' = [state EXCEPT ![t] = "PLAYING"]
  /\ UNCHANGED << seats, filed, usertable, lastTid, ways, counts, coinPos, updates,
                  reserved, strayed >>

(* bound: one session of a kind dissolves a table at a time *)
Dissolving(kind, t) ==
  /\ \A u \in Users : \A i \in DOMAIN updates[u] :
        ~(updates[u][i].kind = kind /\ updates[u][i].tid = t)
  /\ updates' = [ u \in Users |-> IF SitsAt(u, t) THEN Append(updates[u], NewUpdate(kind, t))
                                  ELSE updates[u] ]

(* The round is over: GameFinish, and CInnerDissolveTable up to its        *)
(* updates, which put everybody at the table into the hall.                *)
Finish(t) ==
  /\ state[t] = "PLAYING"
  /\ state' = [state EXCEPT ![t] = "FINISH"]
  /\ Dissolving("Finish", t)
  /\ UNCHANGED << seats, filed, usertable, lastTid, ways, counts, coinPos, reserved, strayed >>

(* CGmReuqestDissolveTable up to its updates, which set POS, not Coin_POS. *)
GmDissolve(t) ==
  /\ t \in GmTables /\ Request /\ Taken(seats[t]) # {}
  /\ Dissolving("Gm", t)
  /\ UNCHANGED << tables, ways, timeouts, coinPos, reserved, strayed >>

StillIn(marks) == { x \in marks : InGame(x[1])' }

(* Whether others of the session that dissolves t still wait. *)
OthersWait(u, kind, t) ==
  \E v \in Users \ {u} : \E i \in DOMAIN updates[v] :
     updates[v][i].kind = kind /\ updates[v][i].tid = t /\ updates[v][i].live

(* The answer to the i-th update of u, of a dissolution after a round,     *)
(* leaves him a seat, or he gets one before: others still wait, the        *)
(* session is over, or he left the table since and went to another one.    *)
StaysIn(u, i) ==
  LET up == updates[u][i]
  IN  \/ \E t \in Tables : SitsAt(u, t) /\ (t = up.tid /\ up.live => OthersWait(u, "Finish", t))
      \/ \E j \in 1 .. i - 1 : LET e == updates[u][j]
                               IN  e.kind = "Enter" /\ e.live /\ e.done = "ok"

(* The user server does the oldest update of the user it has not done: a   *)
(* move from a table to another one is refused.                            *)
M_CrossingAllowed(u, t) == FALSE
Crossing(u, t) == coinPos[u] # Hall /\ coinPos[u] # t

UpdateAtUser(u) ==
  \E i \in DOMAIN updates[u] :
  LET up == updates[u][i]
      refused == up.kind = "Enter" /\ Crossing(u, up.tid)
  IN  /\ up.done = "no" /\ \A j \in 1 .. i - 1 : updates[u][j].done # "no"
      /\ updates' = [updates EXCEPT ![u][i].done = IF refused THEN "refused" ELSE "ok"]
      /\ coinPos' = CASE up.kind = "Enter" /\ ~refused -> [coinPos EXCEPT ![u] = up.tid]
                      [] up.kind \in {"Logout", "Finish"} -> [coinPos EXCEPT ![u] = Hall]
                      [] OTHER -> coinPos
      /\ strayed' = IF up.kind = "Finish" /\ StaysIn(u, i)
                    THEN strayed \cup {<< u, "dissolving" >>} ELSE strayed
      /\ UNCHANGED << tables, ways, counts, reserved >>

(* CRequestEnterTable::ProcessUpdateSucc: the user sits down on the first  *)
(* empty seat, whatever has happened to the table since, and the table     *)
(* waits again.  Without a seat he is told so, and keeps the position.     *)
SitDown(u, t) ==
  /\ IF EmptySeats(t) = {} THEN UNCHANGED << tables, reserved >>
     ELSE /\ \E s \in EmptySeats(t) : /\ \A r \in EmptySeats(t) : s <= r
                                       /\ seats' = [seats EXCEPT ![t][s] = u]
          /\ filed' = Refiled(filed, t, PlayerNum(t) + 1)
          /\ usertable' = [usertable EXCEPT ![u] = t]
          /\ state' = [state EXCEPT ![t] = "WAIT"]
          /\ reserved' = reserved \ {t}
          /\ UNCHANGED lastTid

(* LogoutTable for a user who sits at the table. *)
LogoutTable(u, t) ==
  /\ seats' = [seats EXCEPT ![t][SeatOf(u, t)] = None]
  /\ filed' = Left(filed, t, PlayerNum(t))
  /\ usertable' = [usertable EXCEPT ![u] = None]
  /\ reserved' = reserved \ {t}
  /\ UNCHANGED << state, lastTid >>

(* DissolveTable: everybody leaves, one after the other; the table stays.  *)
M_DissolvedKeepsMap(t) == usertable
Dissolved(t) == [ u \in Users |-> IF SitsAt(u, t) THEN None ELSE usertable[u] ]
DissolveTable(t) ==
  LET n == PlayerNum(t)
  IN  /\ seats' = [seats EXCEPT ![t] = [ s \in Seats |-> None ]]
      /\ filed' = [ k \in DOMAIN filed |->
                      CASE k \in 1 .. n -> filed[k] \ {t}
                        [] k = 0 /\ n > 0 /\ Waiting(t) -> filed[k] \cup {t}
                        [] OTHER -> filed[k] ]
      /\ usertable' = Dissolved(t)
      /\ reserved' = reserved \ {t}
      /\ UNCHANGED << state, lastTid >>

(* ProcessUpdateSucc and ProcessUpdateFailed of the session.  A logout     *)
(* takes the user from the table he is at when the answer comes.           *)
UpdateAnswered(u) ==
  LET up == Head(updates[u])
  IN  /\ updates[u] # << >> /\ up.done # "no"
      /\ updates' = [updates EXCEPT ![u] = Tail(@)]
      /\ \/ /\ up.live /\ up.kind = "Enter" /\ up.done = "ok"
            /\ SitDown(u, up.tid)
         \/ /\ up.live /\ up.kind = "Logout" /\ HasSeat(u)
            /\ LogoutTable(u, usertable[u])
         \/ /\ up.live /\ up.kind \in {"Finish", "Gm"} /\ ~OthersWait(u, up.kind, up.tid)
            /\ DissolveTable(up.tid)
         \/ /\ \/ ~up.live
               \/ up.kind = "Enter" /\ up.done = "refused"
               \/ up.kind = "Logout" /\ ~HasSeat(u)
               \/ up.kind \in {"Finish", "Gm"} /\ OthersWait(u, up.kind, up.tid)
            /\ UNCHANGED << tables, reserved >>
      /\ strayed' = StillIn(strayed)
      /\ UNCHANGED << ways, counts, coinPos >>

(* The timer of a session: what is answered later finds no session.  The   *)
(* one of CInnerDissolveTable dissolves the table; it is one session for   *)
(* all users of the table.                                                 *)
SessionTimeout(u, i) ==
  LET up == updates[u][i]
      Dead(x) == IF x.kind = up.kind /\ x.tid = up.tid THEN [x EXCEPT !.live = FALSE] ELSE x
  IN  /\ timeouts < MaxTimeouts /\ timeouts' = timeouts + 1
      /\ up.live
      /\ IF up.kind \in {"Finish", "Gm"}
           THEN updates' = [ v \in Users |-> [ j \in DOMAIN updates[v] |-> Dead(updates[v][j]) ] ]
           ELSE updates' = [updates EXCEPT ![u][i].live = FALSE]
      /\ IF up.kind = "Finish" THEN DissolveTable(up.tid) ELSE UNCHANGED << tables, reserved >>
      /\ strayed' = StillIn(IF up.kind = "Logout" THEN strayed \cup {<< u, "timeout" >>}
                            ELSE strayed)
      /\ UNCHANGED << ways, requests, coinPos >>

Next ==
  \/ \E u \in Users :
       \/ RequestMatch(u) \/ RequestEnter(u) \/ RequestLogout(u) \/ ClientGone(u)
       \/ RoomUpdated(u) \/ UpdateAtUser(u) \/ UpdateAnswered(u)
       \/ \E x \in Tables \cup {None} : MatchAtGame(u, x)
       \/ \E t \in Tables : EnterAtGame(u, t)
       \/ \E i \in DOMAIN updates[u] : SessionTimeout(u, i)
  \/ \E t \in Tables : Start(t) \/ Finish(t) \/ GmDissolve(t)

Spec == Init /\ [][Next]_vars

-----------------------------------------------------------------------------
(* Nobody holds two seats of one table.  CRequestEnterTable looks for the  *)
(* user before its update and not after it, so this rests on LockProcess:  *)
(* the user server does not refuse the same position twice.                *)
OncePerTable ==
  \A t \in Tables : \A r, s \in Seats : seats[t][r] = seats[t][s] /\ r # s => seats[t][r] = None

(* _usertablemap, by which logouts, actions and disconnections find the    *)
(* table of a user, never names a table he has left: through interleaved   *)
(* enters, logouts and dissolutions, some of them timed out.               *)
MapNamesASeat == \A u \in Users : usertable[u] # None => HasSeat(u)

AtTwoTables(u) == \E t, v \in Tables : t # v /\ SitsAt(u, t) /\ SitsAt(u, v)

(* Coin_POS keeps a user from a second table, although the room checks it  *)
(* long before it is written for the game: whoever sits at two tables was  *)
(* put into the hall, since he was last out of the game, while he kept a   *)
(* seat or was about to get one: by the room, by a logout that timed out,  *)
(* or by a dissolution that still waits for others or that he overtook.    *)
TwoTablesNeedAReset ==
  \A u \in Users : AtTwoTables(u) => \E cause \in {"room", "timeout", "dissolving"} :
                                       << u, cause >> \in strayed

(* GetTableForUser finds every waiting table that has a player and a free  *)
(* seat, unless it has given the last free seat away since somebody last   *)
(* sat down or left: no sequence of sweeps, logouts in play, dissolutions  *)
(* and reuse of a finished table loses one.                                *)
OnlyReservationsHide ==
  \A t \in Tables :
     Waiting(t) /\ Taken(seats[t]) # {} /\ EmptySeats(t) # {} =>
        (\E n \in 0 .. SeatNum - 1 : t \in filed[n]) \/ t \in reserved

(* The comments of CRequestEnterTable say that a user who finds no seat is *)
(* to be put into the hall ("这里需要清空玩家的信息"): who has no seat and   *)
(* waits for nothing is in the hall.                                       *)
SeatlessInHall ==
  \A u \in Users : coinPos[u] # Hall => InGame(u)

=============================================================================
