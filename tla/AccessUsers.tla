---------------------------- MODULE AccessUsers ----------------------------
(***************************************************************************)
(* The connections of players: AccessUserManager of the connect servers    *)
(* (connect, and wsconnect for browsers), which knows a connection by its  *)
(* account while a login is under way and by its user id after it, and the *)
(* game server that keeps for each seat whether its player is connected,   *)
(* and through which connect server.                                       *)
(*                                                                         *)
(* A connection is a ConnectHandlerToken, deleted when it is closed or     *)
(* replaced: both maps hold bare pointers, which must never outlive it.    *)
(* The answer to a login finds its connection by the account alone, while  *)
(* dbproxy keeps a user id for each account and kind of account (acc_type, *)
(* which the client chooses): one account may have several user ids.       *)
(* Servers send over a random one of the routes: messages may overtake     *)
(* each other.                                                             *)
(***************************************************************************)
EXTENDS Naturals, FiniteSets

CONSTANTS
  Servers,     \* connect servers
  WsServers,   \* those of them that are wsconnect
  Tokens,      \* connections: the memory of one that is closed may be that of a new one
  ServerOf,    \* the connect server of a connection
  Accounts,    \* accounts
  Users,       \* user ids
  AccountOf,   \* the account of a user id, whose kind the id stands for
  MaxPending,  \* bound: logins in work at a time
  MaxRequests, \* bound: what clients do in one behaviour
  None         \* no connection, no user, no server

ASSUME AccessAssumption ==
  /\ WsServers \subseteq Servers /\ ServerOf \in [Tokens -> Servers]
  /\ AccountOf \in [Users -> Accounts]
  /\ MaxPending \in Nat /\ MaxRequests \in Nat
  /\ None \notin Accounts \cup Users \cup Tokens \cup Servers

Slots == 1 .. MaxPending

(* A ConnectHandlerToken, and what a fresh one is.                         *)
Token == [ open : BOOLEAN, bind_account : BOOLEAN, account : Accounts \cup {None},
           bind_uid : BOOLEAN, uid : Users \cup {None}, authorized : BOOLEAN,
           pos : {"hall", "game"} ]
Fresh == [ open |-> TRUE, bind_account |-> FALSE, account |-> None,
           bind_uid |-> FALSE, uid |-> None, authorized |-> FALSE, pos |-> "hall" ]
Released == [ Fresh EXCEPT !.open = FALSE ]

VARIABLES
  token,       \* the connections
  accountmap,  \* _accountmap of each connect server
  tokenmap,    \* _tokenmap of each connect server
  logins,      \* login sessions: where each is, None for a free one
  seat,        \* game server: the seat of a user
  enters,      \* enter requests on their way to the game, past the room
  posChanges,  \* SSNotifyPlayerPosChange (and the enter response) on their way
  tells,       \* messages of the game to a player on their way
  closes,      \* SSNotifyPlayerHandlerClose on their way
  requests,    \* how often clients connected, asked or left
  disowned,    \* history: accounts a failed login took out of _accountmap, until no
               \* connection has them
  overbound    \* history: entries of _tokenmap whose connection was given another user
               \* id, until an answer binds them again

index == << accountmap, tokenmap >>
game  == << seat, enters >>
net   == << posChanges, tells, closes >>
vars  == << token, index, logins, game, net, requests, disowned, overbound >>

Through == Users \X Servers
Login == [ at : Servers, user : Users, stage : {"asked", "ok", "failed"} ]

TypeOK ==
  /\ token \in [Tokens -> Token]
  /\ \A t \in Tokens : token[t].bind_uid =>
       /\ token[t].authorized /\ token[t].bind_account /\ token[t].uid \in Users
       /\ token[t].account = AccountOf[token[t].uid]
  /\ accountmap \in [Servers -> [Accounts -> Tokens \cup {None}]]
  /\ tokenmap \in [Servers -> [Users -> Tokens \cup {None}]]
  /\ logins \in [Slots -> Login \cup {None}]
  /\ seat \in [Users -> [ state : {"out", "on", "off"}, conn : Servers \cup {None} ]]
  /\ \A u \in Users : seat[u].state = "out" <=> seat[u].conn = None
  /\ enters \subseteq Through /\ posChanges \subseteq Through
  /\ tells \subseteq Through /\ closes \subseteq Through
  /\ requests \in 0 .. MaxRequests
  /\ disowned \subseteq Accounts /\ overbound \subseteq Through

Init ==
  /\ token = [ t \in Tokens |-> Released ]
  /\ accountmap = [ s \in Servers |-> [ a \in Accounts |-> None ] ]
  /\ tokenmap = [ s \in Servers |-> [ u \in Users |-> None ] ]
  /\ logins = [ i \in Slots |-> None ]
  /\ seat = [ u \in Users |-> [ state |-> "out", conn |-> None ] ]
  /\ enters = {} /\ posChanges = {} /\ tells = {} /\ closes = {}
  /\ requests = 0 /\ disowned = {} /\ overbound = {}

-----------------------------------------------------------------------------
(* Connections *)

Request == requests < MaxRequests /\ requests' = requests + 1

(* UnBindAccountHandler and UnBindUserHandlerToken erase by the key,       *)
(* whichever connection the entry is of.                                   *)
Without(map, s, keys) ==
  [ map EXCEPT ![s] = [ k \in DOMAIN @ |-> IF k \in keys THEN None ELSE @[k] ] ]
Account(t) == IF token[t].bind_account THEN {token[t].account} ELSE {}
Uid(t)     == IF token[t].bind_uid THEN {token[t].uid} ELSE {}

(* Whom the game server is told to be gone when t goes: OnHandlerClosed    *)
(* asks for a bound user, OnHandlerRepeatedLogin only for the position.    *)
GoneFrom(t, users) ==
  IF token[t].pos = "game" THEN { << u, ServerOf[t] >> : u \in users } ELSE {}

StillHad(accounts) ==
  disowned' = { a \in accounts : \E t \in Tokens : token'[t].bind_account /\ token'[t].account = a }

Connect(t) ==
  /\ Request
  /\ ~token[t].open
  /\ token' = [token EXCEPT ![t] = Fresh]
  /\ UNCHANGED << index, logins, game, net, disowned, overbound >>

(* ClientHandlerProxy::OnClose, and the heartbeat timer: OnHandlerClosed.  *)
Close(t) ==
  /\ Request
  /\ token[t].open
  /\ accountmap' = Without(accountmap, ServerOf[t], Account(t))
  /\ tokenmap' = Without(tokenmap, ServerOf[t], Uid(t))
  /\ closes' = closes \cup GoneFrom(t, Uid(t))
  /\ token' = [token EXCEPT ![t] = Released] /\ StillHad(disowned)
  /\ UNCHANGED << logins, game, posChanges, tells, overbound >>

-----------------------------------------------------------------------------
(* Login *)

(* CLoginProcesser::ProcessRequestMsg.  A connection that had another      *)
(* account, or names another user id, loses what it had; the connection    *)
(* the account had is told, closed and released (OnHandlerRepeatedLogin);  *)
(* a send that fails closes it the same way.  Then the account is bound    *)
(* and the hall asked for the user id u the account has of the kind the    *)
(* client says; "named" is that he names the id the connection is bound    *)
(* to, whether or not that is the one he will get.                         *)
M_NeverReplaced(t, a) == {}
Replaced(t, a) ==
  LET before == accountmap[ServerOf[t]][a] IN IF before \in {None, t} THEN {} ELSE {before}

M_SwitchKeepsUid(t, a, named) == {}
Unbound(t, a, named) ==
  IF token[t].bind_uid /\ (~named \/ token[t].account # a) THEN Uid(t) ELSE {}

RequestLogin(t, u, named) ==
  LET s    == ServerOf[t]
      a    == AccountOf[u]
      old  == Replaced(t, a)
      gone == (UNION { Account(r) : r \in old }) \cup
              (IF token[t].account # a THEN Account(t) ELSE {})
      lost == Unbound(t, a, named)
      uids == lost \cup UNION { Uid(r) : r \in old }
  IN
  /\ Request /\ token[t].open /\ \E i \in Slots : logins[i] = None
  /\ named => token[t].bind_uid
  /\ accountmap' = [Without(accountmap, s, gone) EXCEPT ![s][a] = t]
  /\ tokenmap' = Without(tokenmap, s, uids)
  /\ token' = [ r \in Tokens |->
       IF r = t THEN [token[t] EXCEPT !.bind_account = TRUE, !.account = a,
                                      !.bind_uid = @ /\ lost = {}]
       ELSE IF r \in old THEN Released ELSE token[r] ]
  /\ closes' = closes \cup UNION { GoneFrom(r, {token[r].uid} \ {None}) : r \in old }
  /\ StillHad(disowned)
  /\ \E i \in Slots :
       /\ logins[i] = None /\ \A j \in Slots : j < i => logins[j] # None
       /\ logins' = [logins EXCEPT ![i] = [ at |-> s, user |-> u, stage |-> "asked" ]]
  /\ UNCHANGED << game, posChanges, tells, overbound >>

(* The hall's CLoginProcesser answers or refuses, for one of many reasons  *)
(* (one login of a user at a time is one of them).  What it sends to the   *)
(* connect server the user was at before only reaches the client there:    *)
(* IsProcessInLocal does not name the command.                             *)
HallAnswers(i) ==
  /\ logins[i] # None /\ logins[i].stage = "asked"
  /\ \E stage \in {"ok", "failed"} : logins' = [logins EXCEPT ![i].stage = stage]
  /\ UNCHANGED << token, index, game, net, disowned, overbound, requests >>

(* A session times out or its answer is lost.                              *)
LoginLost(i) ==
  /\ logins[i] # None /\ logins' = [logins EXCEPT ![i] = None]
  /\ UNCHANGED << token, index, game, net, disowned, overbound, requests >>

(* CLoginProcesser::ProcessResponseMsg, for the connection the account has *)
(* now.  BindUserHandlerToken overwrites the id of a connection that has   *)
(* one (the client named his old id, or two logins of the account were in  *)
(* work) and leaves the old entry to it.  A position of a login is that of *)
(* private tables: the hall.                                               *)
Overwritten(t, u) == { v \in Uid(t) \ {u} : AccountOf[v] = AccountOf[u] }

LoginOk(i) ==
  LET l == logins[i]  t == accountmap[l.at][AccountOf[l.user]] IN
  /\ l # None /\ l.stage = "ok" /\ t # None
  /\ tokenmap' = [tokenmap EXCEPT ![l.at][l.user] = t]
  /\ token' = [token EXCEPT ![t].bind_uid = TRUE, ![t].uid = l.user,
                            ![t].authorized = TRUE, ![t].pos = "hall"]
  /\ overbound' = (overbound \ {<< l.user, l.at >>}) \cup (Overwritten(t, l.user) \X {l.at})
  /\ logins' = [logins EXCEPT ![i] = None]
  /\ UNCHANGED << accountmap, game, net, disowned, requests >>

(* A failed one takes the account out of the map and leaves it with the    *)
(* connection.                                                             *)
LoginFailed(i) ==
  LET l == logins[i]  a == AccountOf[l.user]  t == accountmap[l.at][a] IN
  /\ l # None /\ l.stage = "failed" /\ t # None
  /\ accountmap' = Without(accountmap, l.at, Account(t))
  /\ disowned' = disowned \cup {a}
  /\ logins' = [logins EXCEPT ![i] = None]
  /\ UNCHANGED << token, tokenmap, game, net, overbound, requests >>

(* Nobody has the account any more.                                        *)
LoginMissed(i) ==
  /\ logins[i] # None /\ logins[i].stage # "asked"
  /\ accountmap[logins[i].at][AccountOf[logins[i].user]] = None
  /\ logins' = [logins EXCEPT ![i] = None]
  /\ UNCHANGED << token, index, game, net, disowned, overbound, requests >>

-----------------------------------------------------------------------------
(* The game *)

(* CRequestSdrEnterTable, for a user whose connection is known here; the   *)
(* room puts the connect server into the request.                          *)
RequestEnter(t) ==
  /\ Request
  /\ token[t].open /\ token[t].authorized
  /\ tokenmap[ServerOf[t]][token[t].uid] # None
  /\ enters' = enters \cup {<< token[t].uid, ServerOf[t] >>}
  /\ UNCHANGED << token, index, logins, seat, net, disowned, overbound >>

(* CRequestEnterTable of the game: the player sits down or reconnects.     *)
GameSeats(u, s) ==
  /\ << u, s >> \in enters /\ enters' = enters \ {<< u, s >>}
  /\ seat' = [seat EXCEPT ![u] = [ state |-> "on", conn |-> s ]]
  /\ posChanges' = posChanges \cup {<< u, s >>}
  /\ UNCHANGED << token, index, logins, tells, closes, disowned, overbound, requests >>

GameRefuses(u, s) ==
  /\ << u, s >> \in enters /\ enters' = enters \ {<< u, s >>}
  /\ UNCHANGED << token, index, logins, seat, net, disowned, overbound, requests >>

GameLeaves(u) ==
  /\ seat[u].state # "out"
  /\ seat' = [seat EXCEPT ![u] = [ state |-> "out", conn |-> None ]]
  /\ UNCHANGED << token, index, logins, enters, net, disowned, overbound, requests >>

(* CNotifyPosChange and CResponseSdrEnterTable of the connect server.      *)
(* Through an entry whose connection is gone it writes into what is in its *)
(* memory now: nothing, or a new connection.                               *)
PosChange(u, s) ==
  /\ << u, s >> \in posChanges /\ posChanges' = posChanges \ {<< u, s >>}
  /\ token' = [ t \in Tokens |-> IF t = tokenmap[s][u] THEN [token[t] EXCEPT !.pos = "game"]
                                 ELSE token[t] ]
  /\ UNCHANGED << index, logins, game, tells, closes, disowned, overbound, requests >>

(* The game says something to whom it thinks connected.                    *)
GameTells(u) ==
  /\ seat[u].state = "on" /\ tells' = tells \cup {<< u, seat[u].conn >>}
  /\ UNCHANGED << token, index, logins, game, posChanges, closes, disowned, overbound, requests >>

(* ConnectHandlerProxy::DoTransfer.  A message for nobody is answered by a *)
(* close to its source, if that is a game: wsconnect asks its              *)
(* configuration (IsGameNode), connect compares with EN_Node_Game, which   *)
(* no game server in src/ is.                                              *)
M_AnswersAGame(s) == FALSE
AnswersAGame(s) == s \in WsServers

Deliver(u, s) ==
  /\ << u, s >> \in tells /\ tells' = tells \ {<< u, s >>}
  /\ closes' = closes \cup
       (IF tokenmap[s][u] = None /\ AnswersAGame(s) THEN {<< u, s >>} ELSE {})
  /\ UNCHANGED << token, index, logins, game, posChanges, disowned, overbound, requests >>

(* CNotifyPlayerHandlerClose of the game.                                  *)
HandlerClose(u, s) ==
  /\ << u, s >> \in closes /\ closes' = closes \ {<< u, s >>}
  /\ seat' = IF seat[u].state # "out" /\ seat[u].conn = s
             THEN [seat EXCEPT ![u].state = "off"] ELSE seat
  /\ UNCHANGED << token, index, logins, enters, posChanges, tells, disowned, overbound, requests >>

Next ==
  \/ \E t \in Tokens :
       \/ Connect(t) \/ Close(t) \/ RequestEnter(t)
       \/ \E u \in Users, named \in BOOLEAN : RequestLogin(t, u, named)
  \/ \E i \in Slots : HallAnswers(i) \/ LoginLost(i) \/ LoginOk(i) \/ LoginFailed(i) \/ LoginMissed(i)
  \/ \E u \in Users : GameLeaves(u) \/ GameTells(u)
  \/ \E u \in Users, s \in Servers :
       \/ GameSeats(u, s) \/ GameRefuses(u, s)
       \/ PosChange(u, s) \/ Deliver(u, s) \/ HandlerClose(u, s)

Spec == Init /\ [][Next]_vars

(* Messages between the servers arrive.                                    *)
FairSpec ==
  Spec /\ \A u \in Users, s \in Servers : WF_vars(Deliver(u, s)) /\ WF_vars(HandlerClose(u, s))

-----------------------------------------------------------------------------
(* Properties *)

(* No map holds a connection that was released, or one that has taken      *)
(* another account since: what an answer finds under an account, and a     *)
(* game or a broadcast under a user id, is a live connection of just that  *)
(* account or user (ProcessResponseMsg and DoTransfer use its handler      *)
(* unasked).  Except the entry of a user id whose connection was given     *)
(* another one by a second login of its account: nothing erases it when    *)
(* that connection closes.                                                 *)
NothingDangles ==
  \A s \in Servers :
    /\ \A a \in Accounts : accountmap[s][a] # None =>
         LET t == token[accountmap[s][a]] IN t.open /\ t.bind_account /\ t.account = a
    /\ \A u \in Users : tokenmap[s][u] # None /\ << u, s >> \notin overbound =>
         LET t == token[tokenmap[s][u]] IN t.open /\ t.bind_uid /\ t.uid = u

(* Who is bound is found: no other connection's close, login or            *)
(* replacement cuts a player off, and no server has two bound connections  *)
(* of a user, unless a login of his account failed: the flag its           *)
(* connection keeps then erases an entry that is not its own.              *)
NobodyIsCutOff ==
  \A t \in Tokens :
    token[t].bind_account /\ token[t].account \notin disowned
    => /\ accountmap[ServerOf[t]][token[t].account] = t
       /\ token[t].bind_uid => tokenmap[ServerOf[t]][token[t].uid] = t

(* A message that finds nobody has the game learn that he is gone: his     *)
(* seat is then off, or he is back (DoTransfer of wsconnect).              *)
GhostsAreNoticed ==
  \A u \in Users, s \in WsServers :
    (<< u, s >> \in tells /\ tokenmap[s][u] = None)
    ~> (tokenmap[s][u] # None \/ seat[u].state # "on" \/ seat[u].conn # s)
=============================================================================
