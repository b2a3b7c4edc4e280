# A formal model of the coin Dou Di Zhu servers

This directory holds TLA+ modules, TLC configurations and TLAPS proofs for the
servers under `src/svr`. The repository is a cluster of single-threaded C++
processes that share `src/svr/common` and the messages of `src/proto`; together
they run a Dou Di Zhu (three-player card game) played for coins.

## 1. The system

| component | state it keeps | operations | talks to |
|---|---|---|---|
| `ddz_Coin_3` table (`TableModle`, `Table`, `Processer`) | one `CPBGameTable` per table: seats, hands, offered choices, action flow, round, dealer, timers | ready, do action, trusteeship, enter, logout, GM dissolve; operation and robot timers; inner messages | itself through the inner message queue; user server (position, coins), room |
| `ddz_Coin_3` lobby (`TableManager`, match handlers) | tables by id, sets of waiting and playing tables, table of a user | match, enter, leave, dissolve, recycle | user server, room |
| `ddz_Coin_3` robots (`ActionBehavior*`) | the robot buffer of a seat | choose an action after each offer | the table's timer |
| `ddz_Coin_3` card rules (`PokerLogic`, `AnalyzeModle`) | none | card type, comparison, hints | called by the table |
| `common` sessions and processors | free ids, sessions, (cmd, uid) locks, what each session waits for | request, response, get, save, timeout, release | every other server |
| `user` | cached user data with an LRU stamp | get, update, evict | dbproxy |
| `dbproxy` | connections to Redis | query, save | Redis |
| `room` | allocated and free table ids, game servers, private tables | create, enter, dissolve, recycle | Redis, game servers, teabar |
| `teabar` | clubs, their members and desks | create, join, leave, open desks, settle | Redis, room, user |
| `hall` | replay codes; login | login, user data, records | user, room |
| `connect`, `wsconnect` | client connections, the connection of a user | packets, heartbeats, login, kick, close | clients, routing |
| `routing` | the inner servers by type and id | forward by id, hash, random, broadcast | every server |
| `log`, `gm`, `robot` | MySQL connections; HTTP requests; robot accounts | write logs; operator commands; play as clients | the others |
| `core`, `libs` | reactor, protobuf, hiredis, json, MySQL client | vendored | |

How they interact. A packet is taken by the reactor, decoded, given a *session*
(`SessionManager`) and handled by the processor registered for its command.
A handler that needs user data ends with Get or Save: the framework sends the
requests to the user server, the session waits under a five second timer, and
the handler continues when the last answer has come. Between the two the server
handles other packets. Within the game server a step of a round is scheduled by
pushing an *inner message* that is drained after the current batch of events.

### Hard behaviours

* Interleavings of client requests, the operation timer, the robot timer, the
  trusteeship and the inner messages that carry the turn from seat to seat.
* Fields of a table or seat that survive the round, or the player, they belong to.
* Players that leave or sit down in the middle of a round.
* Continuations: state read before a Get or Save and used after it; answers that
  come late, twice, to a released session, or fail for one user of several.
* A cache (user server) in front of a store that may refuse a write.
* Table ids and clubs kept in Redis and rebuilt after a restart.

`PROJECT.json` lists every hazard at its line with the properties that cover it.

### What makes the components correct

* Table: one turn at a time, passed on exactly once; the round always moves and
  ends; bidding picks the right landlord; tricks end after two passes; the winner
  is the seat that played out; nothing of a round leaks into the next.
* Sessions: an id belongs to one session; every session ends; a lock is held by a
  live session; no response is taken for another request's.
* User data: what was acknowledged is in the cache and in the store; no update is
  lost to a concurrent read.
* Lobby and room: a user sits at the table his position names, at one table only;
  a table id is free or allocated, never both.
* Settlement: a client is told what he has; nobody pays more than he has.
* Robots: a hand is split without losing a card, and the table accepts what a
  robot chooses; the card rules put the plays of a trick in an order.

## 2. Plan

| order | modules | status |
|---|---|---|
| 1 | `DdzTable`, `MCDdzTable`, `DdzTable_proofs`: the round on a table | done |
| 2 | `ProcessLock`, `SessionPool`, `MCSessionPool`, `SessionPool_proofs`: session ids, locks, timers, continuations; implements the abstract lock | done |
| 3 | `UserCache`, `MCUserCache`, `UserCache_proofs`: user server, dbproxy and Redis as seen by overlapping requests | done |
| 4 | `CoinLobby`, `MCCoinLobby`, `CoinLobby_proofs`: matching, entering, leaving, dissolving, the position of a user | done |
| 5 | `RoomTables`, `MCRoomTables`, `RoomTables_proofs`: private table ids, Redis, recycling, restart | done |
| 6 | `AccessUsers`, `MCAccessUsers`, `AccessUsers_proofs`: connections of a user, replacement, late closes | done |
| 7 | `TeaBar`, `MCTeaBar`, `TeaBar_proofs`: members, briefs and chips of the clubs | done |
| 8 | `PokerLogic`, `RobotPlay`, `MCRobotPlay`, `CoinRules_proofs`: the card rules, and what robots and trusteeships choose | done |
| 9 | `CoinSettle`, `MCCoinSettle`, `CoinRules_proofs`: the coins of a round and their updates | done |
| 10 | `DdzRules`: the abstract game that `DdzTable` implements | done |

How the modules fit together. Every server is built on the sessions of
`SessionPool`: the modules of the servers use what it shows (an answer reaches
the session that asked, a locked command runs once per user at a time, a timer
ends a session whose update may still be done) as the shape of their steps, a
request, a read, an update, an answer. `CoinLobby` takes of `DdzTable` only that
a full table may start and a running one may finish, and adds who sits where;
`RoomTables` is the same question for private tables, with the room in the
middle; `AccessUsers` is what a game knows of its players' connections.
`UserCache` opens the user server up, which the others take as one place that
does updates in order. `CoinSettle` takes from `DdzTable` that a round ends and from
`UserCache` how an update is refused. `RobotPlay` is one turn of `DdzTable` with
the cards it counts named, and plays them by the rules of `PokerLogic`.

Every safety invariant and action property that a run checks is proved for all
values of the constants, under the conditions the sections name, except two:
`SplitsHand` and `RefusalsKnown` of `RobotPlay`. The first is a sum over plays of
what folds give; the second needs the size of every play a node may choose.
Liveness is only model-checked everywhere.

The library's induction theorems take an operator as a parameter, which the
provers cannot instantiate. Where a proof needs induction over numbers
(`TeaBar_proofs`, for the fields of an update one after another and for sums over
users, bars and briefs) it takes the least counterexample instead: `Least`, `UpTo`
and `Always` are proved from the well-foundedness of the numbers and are about
sets, not operators. The next theorem worth having goes the same way:
`SplitsHand`, where a value is in at most three of the plays a choice is made of,
so that no sum over more has to be bounded.

## 3. The table: `DdzTable`

State. `table` is `CPBGameTable` with the timers of `Table` and the messages it
pushed into `GameHandlerProxy::_inner_msg_queue`; `dissolving` counts the
sessions of `CInnerDissolveTable` that wait for their save; `batch` is what the
reactor may still take before it drains the inner queue. Every operator named
after a function of `TableModle.cpp` maps the table before the call to the table
after it, so that the composition of operators is the call graph of the code:
`PlayerDoAction` calls `PlayerDoActionChupai`, which ends in `GameOver` or in an
inner message, and so on.

| action | code |
|---|---|
| `SitDown` | the end of `CRequestEnterTable::ProcessUpdateSucc` |
| `Ready` | `CRequestReadyForGame` with `GameStart_1` |
| `RequestDoAction`, `InnerAuto` | `CRequestDoAction`, `CInterEventAutoDoAction` |
| `InnerOver` | `CInterEventOnDoActionOver`: `ProcessChuPaiForNextSeat`, `GameStart_2` |
| `InnerReport`, `InnerDissolve` | settlement, record and dissolution at the end |
| `CheckUserOffTimeOut`, `RobotTimeOut` | the two timers of the table |
| `RequestTrusteeship`, `LogoutDone` | `CRequestTrusteeship`, `CRequestLogoutTable` |
| `GmRequestDissolveTable`, `DissolveDone` | the operator's dissolution and its save |

Cards are counted and not named, because only the count decides who wins, and
`total_action_flows` is kept as what the code reads of it. Whether the card rules
take a play is therefore left open, of requests and of automatic plays alike
(`RulesRefuse`); section 10 says which they take. A refused request changes
nothing. A refused automatic play stops the round: `CInterEventAutoDoAction`
returns (`CommonClienthandler.cpp:664`), the seat keeps its open turn, and a seat
in trusteeship has no timer. `refused` is history and holds the seats whose
turn, still open, was refused so. The state `UB` stands for the process after it
indexed `seats(-1)`.

The queue of the model is drained whole. `ProcessInnerMessage` stops after 100
messages (`GameHandlerProxy.h:26`), of all tables together, and a message for
which no session is free is dropped; a table pushes one or two per event, so
neither is met before the process is overloaded, and neither is modelled.

Fairness of `FairSpec`: the reactor drains the inner queue before it polls again
(`WF(Inner)`), and runs the operation timer when it is due
(`WF(CheckUserOffTimeOut)`). Nothing is assumed of clients.

| run | bounds | shows |
|---|---|---|
| `round` | hands of 2 cards and 1 bottom card, 2 rounds, 2 events between two drains, every seat trusted or not, any automatic play refused or not, nobody leaves, fairness (256 thousand states) | somebody always moves the round (`RoundMoves`) and the play ends without the players (`PlayEnds`), but for a bidding that `is_trusteeship_error` stops and a turn whose automatic play was refused; tricks end and are marked as they should be (`TrickEndsAfterTwoPasses`), and the table plays the game of `DdzRules`, in the second round too (`PlaysTheGame`) |
| `full` | hands of 1, 1 round, players leave, sit down and are dissolved in any state from the bidding on, 1 dissolution (1.5 million states) | `TypeOK`, `SingleTurn`, `PlayHasOpenFlow`, the turn is passed on exactly once (`OneBaton`), and what is played while all three are there is the game of `DdzRules` (`PlaysTheGame`) |
| `robots` | robots and players mixed, one shared robot timer (467 thousand states) | no robot waits for a timer that has fired for another |

`DdzRules` is what the players are promised, with no messages, offers, tokens,
timers or queues: from the first bidder on everybody bids once and the caller
once more if somebody raised; who called or raised last takes the bottom cards
and leads; the seats play in turn, who leads does not pass, two passes end a
trick; who plays his last card has won; and a game may be left or, when all
three seats are played for, given up. `Game` in `DdzTable` maps the table to it.
The number of bids is read off `qiang_di_zhu_times`, the caller off
`jiao_dizhu_index`, the leader and the passes off the action flow; a table with a
seat that was not dealt to is no game. Two open turns, a bid counted twice, a
field left from the last round or a late timer would each be a step that is none
of the game. `PlaysTheGame` took the place of separate invariants for landlord
and winner, which follow from it.

Why these bounds: a hand of two cards has a play that does not win, so tricks of
every length occur; two rounds are enough for a field that leaks from one to the
next; two events per batch are the least by which a request and a timer, or two
requests, meet before the inner queue is drained. The dealer is
fixed, since rotation gives nothing new; the second round's is whoever won. Who
leaves or comes while nothing runs is left to `full`'s end of the round and to
the theorems.

Proved (`DdzTable_proofs`), for every hand and choice of who sits, trusts and
leaves, from `TableAssumption`:

* Without a condition: `TypeOK`, `SingleTurn`, `PlayHasOpenFlow`, `DealerKnown`
  (while the process has not indexed `seats(-1)`, dealer and caller are seats)
  and `RobotActsOnItsBuffer`. `SingleTurn` is not inductive: that nobody else
  has choices when a seat is asked rests on the reset before each offer, and that
  `DoAction` runs to its own reset rests on `DetermineAction` finding the seat's
  play as the last entry of the flow. `IInv` keeps the three together (`Good`);
  the lemmas take it through the operators in the order of the call graph.
* `RoundOrdered`, `TricksEnd` (`TrickEndsAfterTwoPasses`), `TablePlaysTheGame`
  (`PlaysTheGame`) and, of tables without robots, `RoundsMove` (`RoundMoves`), for
  any number of rounds and of events between two drains, of every behaviour in
  which no round begins while an OVER event of the round before is still queued
  (`[]~OldEvent`). With at most two events between two drains, or in a table's
  only round, they hold without that (`Paced`).
* `BatonIsOne` (`OneBaton`) on the same condition; without it if there is one
  event between two drains or one round (`Single`).

`Orderly` is the invariant of a round. It says of a table whose three players are
there that either the bidding or the play is at a certain point, with the values
of all fields at that point, and that an open turn or one OVER event carries the
turn (`Baton`). It is proved from a list of some twenty relations of two tables,
`TableStep`, one for each thing a step may do to the table (deal anew, be asked,
call, play, pass, end, lose a seat, ...); `TableSteps` shows that every action does
one of them. The refinement then follows from the same list: `Orderly` gives
the abstract state before the step, each relation says which step of `DdzRules`
it is, or none.

The condition is what the proof found, and nothing in the code enforces it. A user who takes a seat freed in
mid-round sets the table back to waiting while a seat of the old round is still
asked. If that seat acts and the last player gets ready in the same batch, the
OVER event of the old round meets the new one (`Late`). With two events per
batch nobody has acted in the new round when it is drained, and it finds no
action and does nothing. With three, the dealer may have called before it is
drained, the old event asks a seat to play in the middle of the bidding, and
nothing of the round holds any more. A first round cannot meet this. The open
turn beside the old event is why `OneBaton` fails with two events already.
The code bounds a batch by what is ready when it polls, so the case is real, if
rare: the theorems say that this one event is all that can go wrong, and
`OldEvent` names the state in which it has. A robot whose behaviour tree finds nothing has no timer, which is
why `RoundsMove` speaks of players. Only model-checked: `PlayEnds`, as liveness
under fairness is beyond the prover.

Not modelled: ming pai (never offered), `CRequestDissolveTable` (not
registered), `CInnerOnGameStart` (never pushed), the kick-out timer (its start is
commented out), `SetNextRoundHandCards` (a test aid). Which cards are legal and
which a robot picks is in `PokerLogic` and `RobotPlay` (section 10), coins in
`CoinSettle` (section 11).

## 4. Sessions: `SessionPool` and `ProcessLock`

State. `free` is `_free_id_queue`, `session` is `_alloc_id_map`, `locks` is the
`msg_map` of `LockProcess`, `answers` are the responses on their way. `requests`
numbers the requests and bounds them; `peak` is history.

A request allocates the id that has been free for longest and runs its handler;
what the handler decides is left open (`Continue`): be done, Get or Save the
data of some users, or send a request of its own and wait. What the framework
makes of it is not: one message per user, one answer at a time, the first error
ends the session, `EndProcess` gives back lock and id, the timer does the same.
Commands in `EarlyLock` call `LockProcess` first (room: create and enter table,
`ddz_Coin_3`: enter table), those in `LateLock` on the answer to a request
(hall: login). The user of a session is known from the start; the code learns
that of a login with the answer, before it takes the lock. An answer that is
lost is one that is never delivered. `ProcessPacket` is the same in the proxies
of all the servers and is mapped to that of `ddz_Coin_3`.

Fairness: `WF(Timeout(id))`, the reactor runs timers that are due. Answers and
requests have none.

| run | bounds | shows |
|---|---|---|
| `pool` | 2 ids, 4 requests of one user, a command of each locking kind and one that does not lock, fairness | `TypeOK`, `IdsPartitioned`, `LocksMatch`, `StaleAnswersAreOld`; every behaviour is one of `ProcessLock`: one at a time (`LockSafety`), and who has the lock ends (`LockLiveness`) |

Two ids and four requests make ids be reused, with answers of earlier owners
still on their way, and let the pool run dry. A lock is per user and command, so
two commands that lock are two keys, and more users would only be more of them.

`ProcessLock` is the promise of the lock: tickets work under a key one at a time
and each of them ends. The mapping `Working` reads who works off the sessions and
not off the lock table, so the table has to keep the promise.
`StaleAnswersAreOld` states exactly what protects a session from an answer meant
for the earlier owner of its id: only the length of the queue of free ids.

Proved (`SessionPool_proofs`), from `PoolAssumption`, for any number of ids,
users, commands and requests: `TypeOK`, `IdsPartitioned`, `LocksMatch`,
`OneAtATime`, and the safety half of the refinement (`PoolImplementsLock`). The
invariant `Good(q, S, l)` (types, ids are a partition, locks match, early
commands own their lock) takes ids, sessions and locks as arguments so that it
can be stated in the middle of a step, where `GoodBut` leaves out the session in
hand. `OneAtATime` is proved and not run, as `LockSafety` is the same promise seen
from outside. `StaleAnswersAreOld` is proved from `Aged`, which
counts the place of an id in the queue of free ids from the moment its session
ends until it is handed out again: while an answer to the ended session is on
its way, as many sessions begin as there are ids before it. Only model-checked: liveness.

Not modelled: `ProcesserBasic` (the older framework of user, dbproxy, log, gm,
routing and connect), gm requests that start no timer, the read of `_processor`
in `ProcessOnTimerOut` after the session is deleted.

## 5. User data: `UserCache`

State, for one user (nothing done for a user reads another's data): `cache` and
`entry` are `_userdatamap[uid]`, `stamp` is `_userdata_lru_map[uid]`, `work` the
sessions of the user server with their `_fsm_state`, `toDb` and `fromDb` the
messages to and from the dbproxy, `store` the Redis hash. `acked` and `refused`
are history, and so are `crossed`, the keys that were asked for while another
request waited for an answer with them, and `failed`, the keys with a save that
Redis did not store. A value is the set of the updates it contains.

| action | code |
|---|---|
| `Request` | `ProcessRequestMsg` of `CRequestGetUserData` and `CReuqestUpdateUserData` |
| `UpdateData` (in both) | `OnUpdateData`: update key by key, roll back on a refusal, or save |
| `DbTake` | `CRequestQueryData`, `CRequestSaveData` of the dbproxy |
| `UserTakeQuery`, `UserTakeSave`, `UserTakeNobody` | `ProcessDBProxyMsg`; an answer whose session is gone |
| `Timeout`, `Lose` | the session timer; a message lost with its connection |
| `Age`, `Evict` | half an hour passes; `UserManager::ProcessOnTimerOut` |

Messages keep their order because all requests of a user go to one dbproxy
(`EN_Route_hash`) and `conf/route.CFG` has one routing server. `Age` waits for
the sessions that were in work when the user was stamped: they last five seconds.

| run | bounds | shows |
|---|---|---|
| `cache` | 2 keys, 3 requests that may all be in work together, Redis may fail any command (2.3 million states) | nothing acknowledged is lost (`AckedKept`) and Redis never goes back (`StoreOnlyGrows`), key by key; a refused update leaves no trace of any key (`RefusedLeavesNoTrace`) |
| `overlap` | 2 requests | a disagreement with a comment, see section 13 |

Two keys are the least for an update of which one key is refused, for a query
that asks for some of a request's keys, and for an overlap at one key that must
not touch the other. Three requests are two that race and one that suffers.

Nothing keeps two requests from waiting for the same key, nor Redis from failing,
and the model has both at any moment. What is then lost is lost in the code too,
so the properties are stated for each key and except only the keys it happened
to: `AckedKept` those in `crossed` or `failed`, `StoreOnlyGrows` those in
`crossed`, `RefusedLeavesNoTrace` none. `overlap` is what happens to a crossed
key; a failed save is answered as a success and hidden by the cache until the
entry is evicted (section 13). That an overlap or a failure at one key costs the
others nothing is part of what the run shows: a request asks for several keys at
once, a query fills several, and a refusal rolls several back.

Proved (`UserCache_proofs`), from `CacheAssumption` and no other condition, for
any keys, any number of requests in work, any overlaps and any failures of Redis:

* `CacheTypesHold` (`TypeOK`) and `RefusedHolds` (`RefusedLeavesNoTrace`). The
  number of an update must be nowhere while its request has not been made or
  waits for a query, nor after it was refused: these numbers are `Forbidden`, the
  invariant says that cache, messages and store are clean of them, and a step
  takes a number out of the set only when it sends the save.
* `StoreGrows` (`StoreOnlyGrows`), `FillsKeepUpdates`
  (`UncrossedFillKeepsUpdates`, which is what `overlap` refutes, for the keys that
  are not crossed) and `AckedStays` (`AckedKept`). The invariant (`Order`) is
  stated for each key that is not crossed: the values in the store, in the saves
  on their way and in the cache form a chain, each containing the one before
  (`GrowsOf`); no save is sent behind a query for the key whose session still
  waits, so that its answer brings what Redis still has and finds the key not
  cached (`FillsOf`); and at most one request waits for it (`Waits`). With them
  `Reached` says, of keys whose saves were all stored, that what was answered
  as saved is in Redis.

Not modelled: which updates the fields of a key refuse (left open), the account
maps (no handler fills them), logs and messages to the client.

## 6. The coin lobby: `CoinLobby`

State. `state`, `seats`, `filed`, `usertable`, `lastTid` are `TableManager` of the
coin game server: the tables, the files `m_TablePlayerNumMap` by number of
players, `_usertablemap`, `m_StartAllocTid`. `coinPos` is `Coin_POS` of the user
server. `room`, `told`, `forwarded` are a client's way through the room's two
handlers, `updates` the updates of `Coin_POS` the game server waits for, in the
order in which they reach the user server. `reserved` and `strayed` are history.

| action | code |
|---|---|
| `RequestMatch`, `RequestEnter`, `RoomUpdated` | the room's `CRequestCoinMatchGame` and `CRequestSDREnterTable`, coin branch |
| `MatchAtGame` | `CRequestCoinMatchGame` of the game with `GetTableForUser`, `CreateTableByP` |
| `EnterAtGame`, `SitDown` | `CRequestEnterTable` before and after its update |
| `RequestLogout`, `LogoutTable` | `CRequestLogoutTable` |
| `Finish`, `GmDissolve`, `DissolveTable` | `CInnerDissolveTable`, `CGmReuqestDissolveTable` |
| `UpdateAtUser`, `UpdateAnswered`, `SessionTimeout` | the user server, the answer, the timer |

| run | bounds | shows |
|---|---|---|
| `lobby` | two players and a robot, two tables of two seats, six requests, one timeout, GM dissolutions (348 thousand states) | `OncePerTable`, `MapNamesASeat`, `TwoTablesNeedAReset`, `OnlyReservationsHide` |

Two tables are what sitting at two needs; a table of two seats has an empty, a waiting
and a full file, so that every move between files occurs. The third user is the
one who meets a full table. Six requests let two users match, enter and leave
and one of them return.

Proved (`CoinLobby_proofs`), for any users, seats, tables, requests and timeouts:
`OncePerTable` and `MapNamesASeat`. A user sits down when an answer comes,
whether he sits there already or not; the strengthening `OneEnters` says that he
has one live enter session at most and does not sit at its table, which is what
the lock and the check before the update give together. Updates are a queue, so
the lemmas speak of what a step may do to it (`OnlyEnds`): drop the first, end
sessions, have one done. Then `LobbyTypes` (`TypeOK`), and the two that read
history:

* `OneTableOtherwise` (`TwoTablesNeedAReset`). `Placed` follows, for a user
  with no mark in `strayed`, his position through the updates in flight: he sits
  at one table, and where his position is another one the answer that takes him
  from there is on its way, before the one that seats him anew.
  The attempt refuted the property as it first was, which exempted a user only
  for a dissolution of a table where he sat: with eight requests, two more than
  the run had, the update of a finished round that he left meanwhile empties the
  position he has at the next table (TLC found it in 32 states once the bound was
  raised). `StaysIn` has the case now, and marks last only while the user is in the
  game (`StillIn`). The run cannot afford eight requests together with the robot,
  the timeout and the GM; without those three (`Robots` and `GmTables` as
  `Nobody`, `MaxTimeouts = 0`) TLC finds the property true with eight, in 1.2
  million states, and the theorem has no bound.
* `WaitingIsFound` (`OnlyReservationsHide`). The property carries itself (`Shown`)
  once a table that was never created is known to be empty; the work is in the
  search, which must put into a file it searches later what it drops from
  another, and in the number of players, a cardinality that a seat taken or given
  up changes by one. The files after a search are written in closed
  form (`Files`), which the proof can use; a recursion over the files it could
  not. TLC reaches the same states with either.

Observed while modelling, and not stated as properties: the room reads the game
server of a user's position from `pos_type()`, so the position of every user who
comes back is cleared (`CommonClienthandler.cpp:1194` of the room); a GM
dissolution resets `POS`, not `Coin_POS`; a user who sits down on a seat freed in
mid-round sets the table back to waiting; tables are never removed, and when all
ids are in use `GetTableForUser` does not return.

A client of the model asks only for a table he was told of. The room forwards any
table at any server that a client names (`CommonClienthandler.cpp:1174-1230`), so
the properties say nothing of a client who makes one up.

Not modelled: the kick-out and robot-request timers (their calls in `Table.cpp`
are commented out), the dissolve vote and the auto-release handler (not
registered), levels, more than one game server.

## 7. Private table ids: `RoomTables`

State. `alloced`, `free`, `stale` are `ZoneTableManager`; `owner` and `svid` its
two maps in Redis; `createTable` and `pos` the fields of the user server. `asked`,
`updates`, `clears`, `forwards` are the sessions by what they wait for. `running`
and `retired` are `GameSvrdManager`. `hosted` and `notices` are the private game
servers, which are not in the repository: they seat, refuse and dissolve as the
room's handlers expect them to. `strayed` is history.

| action | code |
|---|---|
| `RequestCreate`, `Create*` | `CRequestSDRCreateTable` and its branches, with `AllocNewTableID` and `BindTidForUser` |
| `RequestEnter`, `Enter*` | `CRequestSDREnterTable` |
| `TableDissolved` | `CNotifyTableDissolved` |
| `RecycleTimer`, `ClearAsked`, `ClearGot` | the timer of a day, `CNotifyClearTableOwnerTableInfo` |
| `ReportGame`, `RetireGame`, `CloseGame` | `GameSvrdManager` |
| `Restart`, `SessionTimeout` | `ZoneTableManager::Init`, the session timer |

| run | bounds | shows |
|---|---|---|
| `rooms` | two users, three ids of which the second left the configuration, one game server, tables of one's own and for others, two requests, two faults, writes and deletes that may fail (574 thousand states) | `IdsPartitioned`, `BoundIsTaken`, `OwnerKnowsTable` |

The id without a configuration is the second because the recycle timer goes
through them in order and stops there, after it has recycled the first and
before the third. Two requests are two tables of one user or of two, or a table
created and entered; two faults (a timeout, a restart, a closed game) are put at
any two points, and Redis may fail at any point besides. The table of
a tea bar differs from one for others in that its creator has it as his
`Create_Table`; the theorems cover it. `ReusesAtOnce = FALSE` is an
assumption: an id is not drawn again while something of its last table is under
way, which the draw from 899999 ids makes unlikely and no code prevents. Without
it `BoundIsTaken` does not hold for later owners of the id.

`OwnerKnowsTable` holds up to the five ways named in `strayed`, each a place where
the code lets the two records part: the game of a table is closed and the owner's
next enter request resets him; a notice finds no room; Redis refuses to delete the
key; a table created for others is bound without `Create_Table`; and
`CNotifyClearTableOwnerTableInfo` clears the field of an owner who has created a
newer table since (`CommonClienthandler.cpp:1652`).

Proved (`RoomTables_proofs`), for any users, ids, games, kinds of tables, requests,
faults and failures of Redis:

* `IdsStayPartitioned` (`IdsPartitioned`). It is inductive with the types of the
  two maps (`IdTypes`): an id is allocated when it is free, put back when it was
  allocated, and a restart starts from a partition whatever Redis holds.
* `RoomTypes` (`TypeOK`), with the facts that what creates or enters a table
  names an id of the range.
* `BoundStaysTaken` (`BoundIsTaken`), if ids are not reused at once. Between the
  draw of an id and the binding in Redis lies an update at the user server, and
  whatever dissolved the id meanwhile would leave a binding of a free id. `Steady`
  says why nothing does: an id that is on its way to an owner is taken, not stale,
  has no notice, is at no game server and in no position; it is on its way once;
  and no enter request that a game server has can seat anybody there
  (`NoSeatYet`), not even one that read its user before he got the table
  (`OvertakenIsFirm`).
* `OwnersKnow` (`OwnerKnowsTable`), under the same condition, from `Steady` and
  from `CreatesFromNothing`: the lock of the create command makes the
  `Create_Table` read before still true when the new one is written.

The attempt refuted both properties as they first were for a Redis whose deletes
fail, which the run then left out. After the key of id t was not deleted the room
gives t to a new owner, and while that creation is under way the old owner, whom
Redis still names, is seated under t; when his table is dissolved, t becomes free
under its new owner. TLC shows it in 16 states. So a failed delete now marks
the id, the two properties except marked ids, and the run has failing
deletes.

Observed: an id leaks until the daily timer when the payer's chips run short
after it was taken or the session times out; a retired game that reports again is
running again; the recycle timer leaves all ids behind one without node type.

Not modelled: the older `TableManager`, quick and skip match, bans, costs,
forwarded dissolve and log requests.

## 8. Connections: `AccessUsers`

State. `token` are the `ConnectHandlerToken`s, `accountmap` and `tokenmap` the two
maps of `AccessUserManager` per connect server, `logins` the login sessions,
`seat` what a game keeps of a player's connection; `enters`, `posChanges`, `tells`
and `closes` are messages between servers, in any order since routes are drawn at
random. `AccountOf` gives each user id its account: dbproxy keeps an id for each
account and `acc_type` (`UserRedisServer.cpp:92`, 144), which the client names, while
`_accountmap` knows the account alone, so an account may have several ids and the
answer to a login brings one of them. `disowned` and `overbound` are history. A
released connection's memory may be used for a new one, which the model has; what
else the freed memory may hold it has not.

| action | code |
|---|---|
| `Connect`, `Close` | `ClientHandlerProxy`, `OnHandlerClosed` |
| `RequestLogin`, `HallAnswers`, `LoginOk`, `LoginFailed`, `LoginMissed`, `LoginLost` | `CLoginProcesser`, `OnHandlerRepeatedLogin` |
| `RequestEnter`, `PosChange` | `CRequestSdrEnterTable`, `CNotifyPosChange`, `CResponseSdrEnterTable` |
| `Deliver` | `ConnectHandlerProxy::DoTransfer` |
| `GameSeats`, `GameRefuses`, `GameLeaves`, `GameTells`, `HandlerClose` | the game's side |

| run | bounds | shows |
|---|---|---|
| `access` | two accounts, one with two user ids, two connections at a wsconnect and one at a connect, five requests, two logins in work, fairness (145 thousand states) | `NothingDangles`, `NobodyIsCutOff`, `GhostsAreNoticed` |

Two connections at one server are what a replacement needs, two servers what a
late close from elsewhere needs, two ids of one account what a connection bound
twice needs. Five requests are two connections, a login over each, and one more:
a second login over a bound one, a close or an enter. Fairness: messages between servers arrive
(`Deliver`, `HandlerClose`); nothing is assumed of clients or logins.

Proved (`AccessUsers_proofs`), for any servers, connections, accounts with any
number of user ids, and orders of messages: `TypeOK` (proved only, no run repeats
it), `NothingDangles` and `NobodyIsCutOff`. The strengthening says that an entry is
of a connection of its own server (`AtHome`, so the erase at a close finds it) and
that a bound connection has an account (`Named`). What an answer finds by the
account alone is a connection of that account, if not always the one that asked.
A connection bound to one id may be given another of its account, when a client
names its old id at a second login with another `acc_type`, or when two logins of the
account are in work: `BindUserHandlerToken` adds an entry, the first one stays, and
the close erases that of the last id only. The pointer left under the first id
dangles from then on. `overbound` names these entries until the id is bound
again; `NothingDangles` excepts them and no others. `NobodyIsCutOff` has
no such exception: the connection is found under the id it has now.
`GhostsAreNoticed`, being liveness, is only model-checked.

Observed, where connect and wsconnect differ or the code parts from its comments:
connect answers an undeliverable message only for `EN_Node_Game`, which no DDZ
game is, wsconnect for every game node, so `GhostsAreNoticed` is claimed of
wsconnect alone; the hall's notice of a login at another server ("判断是否在不同大厅
重复登录") is registered in connect and not named in `IsProcessInLocal`, so it is only
passed to the client; a failed login takes the account out of the map and leaves
the flag with the connection, whose later close then erases an entry that may be
another's; a close that comes late marks a player offline who has reconnected
through the same server.

Not modelled: heartbeats, broadcasts, the choice of a hall, statistics.

## 9. Clubs: `TeaBar`

State. `cached` and `stored` are `TeaBarManager` in memory and in Redis, `max_tbid`
its counter; `briefs` and `chips` are the fields of the user server, `asked` the
sessions with what they have read, `updates` what they ask for, `drops` the drop
sessions between their update and the change of the bar; `spent` counts chips the
room took. Each request has an action `RequestX` (its checks and its read) and
`XGot` (the rest of the handler); `UpdateAtUser` is `OnUpdateData` of the user
server, all fields of a message or none. `Evict`, `Restart`, `SessionTimeout` are
what may come between. A bar is evicted a day after its last request; a new one at
the next timer, since `CreateTeaBar` does not stamp it and `TeaBarManager.cpp:60`
compares with zero, even while its create is in work.

| run | bounds | shows |
|---|---|---|
| `teabar` | two users who may each be master, one bar, six requests of which two overlap, one fault (1.4 million states) | `MembersAgree`, `MasterHoldsTheChips`, `ChipsConserved`, `SurvivesRestart` |

No request locks a bar, and some pairs of requests do spoil each other: a list
that was read before a drop puts the user back; two drops of a user with a bar
remove two of him; chips put while the bar is freed or handed over are lost or
doubled. `Conflicts` names these pairs, and `spoilt` takes a bar out of the
properties once such a pair has met at it or a fault has hit its drop. The list
was reduced until every pair in it is one without which TLC finds a violation, so
the run shows two things: these pairs are all there is between two requests, and
everything else that may overlap (free with transfer, list with free, two
agreements, agree with drop, two puts, two frees) is harmless. Two users and one
bar are enough for a master, a member, an applicant and their changing places;
the limit of bars per user is hardly met with one bar.

Proved (`TeaBar_proofs`), from `TeaBarAssumption` (no negative bounds, finitely
many users, `None` is no user, tbid or bar), for any users, bars, sessions,
requests and faults: `Types` (`TypeOK`), `Agreement` (`MembersAgree`),
`ChipsAtMaster` (`MasterHoldsTheChips`), `Survival` (`SurvivesRestart`) and
`Conservation` (`ChipsConserved`). The first four follow from `Invariance`, that
`IInv` always holds; the last needs the ledger besides. That there are finitely
many users is what gives the sum over them a meaning.

The properties speak of moments at which nothing is under way at a bar, so none
is inductive: a handler only says something about such a moment, after messages
that are still in a queue. `IInv` says it of every moment:

* A user's brief list stands to a bar in one of three ways (`Standing`): no brief
  of it, one as its master, or one as a member, without chips; it never has two.
* Each field of an update turns one standing into another (`Turned`) and is
  harmless only in some (`Allowed`): a brief is added where there is none, chips
  are changed where the user is master or has no brief at all. A queue of messages leads from what
  the list shows to what it will show (`Comes`, over `Leads`).
* At a bar of which nothing was spoilt, that is what the bar keeps of the user
  (`Due`): whom it counts once has one brief, and the brief names him if and only
  if the bar does. A drop is the one request that takes the brief first and the
  count later; until then the user is `Going`, and counts once more than is due.
* A session that waits for an answer may rely on what its handler will not look
  at again (`Relies`): that a user about to be let in has no brief of the bar if
  his list showed none, that a transfer has seen the standings that are due.
  Nothing can take that away, because every request that could is in conflict
  with it, and conflicting sessions wait together only at spoilt bars (`Apart`).

Each answer's handler is then one lemma (`AgreeStep`, `TransferStep`, ...): what it
writes is what its updates lead to. `UpdateStep` is the user server's side, where
a message is refused as a whole; it shows that of these fields only the chips of
a put or cost can be refused, and that the standing does not depend on those.

`ChipsConserved` is about moments of rest, too, and about numbers, of which the
standings say nothing. `Ledger` counts at every moment what users will have once
their queues are done (`End`, over `Final` and `Took`), what the bars will hold
(`Held`: the chips of a bar in what its master will have) and what was or will be
spent. While nothing was spoilt,

* that is what users had at first (`Balance`);
* who waits to free or to transfer a bar saw in his own brief what the bar holds,
  and a bar that a waiting put or cost is about is still there (`AllSeen`), so
  that neither gives away chips that are on their way, or loses them;
* every message is about a bar (`Named`), so that at rest there is none.

An update that the user server does changes nothing in the ledger, since it was
counted when it was sent (`UpdateBooks`); one it refuses was counted as refused,
because `Took` refuses what the user server will. So each answer's handler has to
balance what it sends: a put moves chips between a purse and a bar (`PutBooks`), a
cost between a bar and what was spent (`CostBooks`), a free puts what the bar
holds into the purse of its master (`FreeBooks`), a transfer makes the new
master's brief out of the old one's (`TransferBooks`). At rest the queues are
empty, what users will have is what they have, and the sum over the bars of what
they hold is the sum over users of the chips in their briefs (`RestTotal`,
`BriefsTotal`). `SumFunction` is reasoned about through `SumOut` (any element may
be taken first) and what follows from it.

Observed: `pay_type` is set after the save of a new bar; applications and chip
statistics are not saved; `SetMaxTbid`'s result is ignored (that a restart then gives
an id a second time is not modelled); an update of the chips
of a bar the user has no brief of is answered as a success, so a table may cost
nothing; the list of drops a master is to agree to is never filled.

Not modelled: tables, records, statistics and settlement of a bar, pay types,
descriptions, refunds.

## 10. Card rules and automatic play: `PokerLogic` and `RobotPlay`

`PokerLogic` has no state: a hand is a bag of values (suits decide nothing), a
play is a type, its lowest value, its length and its cards. `AnalyseFromCards`
gives the types the code tries for a given claim, each with its own `Check`, and
`PrioCompare` what beats what.

State of `RobotPlay`, one seat that the table plays by itself: `hand`;
`residual` and `cols`, the cards `AnalyzeModle` has not placed yet and the plays
it has made; `prev`, the play to beat; `choice`, what was chosen; `stage`, where
the turn is. The other seats are whatever play they left on the table.

| action | code |
|---|---|
| `Analyze` | one call of `TryTransformShou`: the first of `TakeRocket`, `TakeGroup`, `TakeRun`, `JoinTriples`, `JoinStraights` that applies |
| `RobotChoose` | the behaviour tree: `Lead` with its nodes, `Follow` with its nodes |
| `DoDefaultAction` | the choice for a player in trusteeship |
| `InterEventAutoDoAction` | the choice goes the way of a request, to be played or refused |

| run | bounds | shows |
|---|---|---|
| `plays` | 2,345 hands of robots, 319 of trusteeships, 30 plays to beat, turn after turn until the hand is played out (91 thousand states) | `SplitsHand`, `RefusalsKnown`, `AnalysisEnds` |

The hands are built around each kind of play: runs of one to three of a value,
triples next to each other with something to carry, bombs with jokers and twos,
and the longest runs there are; the plays to beat are one or more of every type.
Suits matter in two places, the first card of a sorted hand and the first cards
of a value, and there every outcome is allowed.

Fairness: `WF(Analyze)`; the analysis is one synchronous loop. `AnalysisEnds` is
not obvious, as joining two straights gives cards back to the analysis.
`RefusalsKnown` is the answer to a hazard: a refused choice leaves the turn to
nobody (`refused` in `DdzTable`). A trusteeship leads its first card with
`GetRealValue`, which is 1 and 15 for the jokers, and a joker is refused. It names the hands and plays for which the tree and the rules disagree,
each of which the run does reach.

Proved (`CoinRules_proofs`): `PlaysClimb`, for all cards: what was beaten is
never accepted against what beat it nor against what beat that, and nothing is
accepted against a rocket. It assumes that a deck has one rocket and that a play
has a whole number as its lowest value. Only model-checked: the three properties
of the run. What a split has placed is a sum over a sequence of plays, and
whether a choice is accepted is a matter of the sizes of bags.

Observed: the comment at the robots' triples says "3顺2的组合", but the node
takes ceil(n/2) pairs and `CheckStraight_3_2` refuses; a lead with nothing but
bombs is refused because two conditions with `!=` are joined by `||`; a triple
whose kickers are split has no type; `TripleNode` never carries a pair, nor a
single that is not the first, because of `== -1 && -1 >`; the comment in
`PokerLogic.cpp` says that what is carried must be a pair, but 3,4,4,4,5 is
accepted, and a big joker makes a pair with a two; `CheckStraight_3_2` accepts
two triples only; twos may be in a run of triples with singles.

Not modelled: wild cards (no coin table has them), what the nodes decide by the
other seats' hands (left open), bids (left open in `DdzTable`).

## 11. Settlement: `CoinSettle`

State. `seats` holds of each seat the user, whether it is taken and
`coins_change_value`; `sessions` the `CInnerUpdateCoinMatchResult` session of
each round, with the answers it has (`known` is `_kvdb_uid_data_map`) and the
results it will tell; `coins` is what the user server has; `requests` and
`answers` travel in any order. `told` is history: the results clients got.

| action | code |
|---|---|
| `SitDown`, `GameStart`, `LogoutTable`, `DissolveTable` | the functions of the same names, as far as user and value go |
| `GameOver`, `GameOverUnplayed` | `GameOver` with `AnalyzeHuStyles`, or without a winner |
| `ProcessRequestMsg`, `ReadDone`, `UpdateDone`, `RereadDone`, `UpdateFailed`, `ReadFailed` | the handler, wait by wait |
| `AnswerCounted`, `AnswerDropped`, `Timeout` | `NewProcessor`, an answer after the end, the session timer |
| `UserServer` | `OnUpdateData`, `OnUpdateUserInfo` for coins |

| run | bounds | shows |
|---|---|---|
| `settle` | three users with one coin each, scores 1 and 2, one round, nobody leaves | a disagreement with a comment, section 13 |

One round and nobody leaving are enough: the fault is in the plainest case.

Proved (`CoinRules_proofs`), from `SettleAssumption` (coins and scores are
natural numbers, uid 0 is no user), for any number of rounds, with users who
leave, sit down or are dissolved at any moment and answers and timeouts in any
order:

* `NobodyEverWins`: no result gives anybody a coin. The inductive fact is
  `OneSign`: a round leaves all values on one side of zero, because the loop
  that writes them skips the dealer, and winners share what losers pay.
* `LossesAreCovered`: nobody is told to have lost more than he has, although the
  coins are those of the users who were seated when the session began and the
  losses those of the seats when the last answer came. What a session knows of
  a user is right or nothing (`KnownIsTrue`).
* `CoinsNeverMove`: no settlement moves a coin (`UpdateKeepsCoins`).

These three say what the code does and not what its authors meant; that is why
no passing run repeats them. TLC agrees with them on the instance of `settle`
with one logout.

Observed: `fee()` of a table is set nowhere; `iWinNum` counts the seats with
value zero, so the dealer has a share, which nobody gets; the session of a round that comes
late reads and writes the values of the next; `LogoutTable` leaves `user()` in
the seat, so one who has left is still settled, and `DissolveTable` clears it, so
the update of uid 0 fails and ends the session for all; `SendCoinsChangeMsg`
tells the client of coins that are rolled back right after.

Not modelled: levels and coin states of the result, the coin flow log, records.

## 12. Mutants

A definition `M_X` before a definition `X` is `X` with a slip a programmer could
make. `PROJECT.json` names, for each property of each passing run, one that the
run finds. No definition uses them.

## 13. Where the code and its comments disagree

Shown by a run:

* `overlap`: two requests that both miss a key ask the dbproxy both, and the
  second answer overwrites what the first request has updated since;
  `AckedKept` excepts such keys.
* `settle`: `coins_after_update` is commented as the coins after the update
  (`poker_msg_cs.proto:1441`). `OnUpdateUserInfo` has no `break` after
  `EN_DB_Field_Coin` and refuses every change of coins, and the results that are
  sent then still have the change where the balance belongs: who had one coin
  and lost it is told -1, and has one.

Found earlier by runs of the same models with other constants, which the project
no longer repeats:

* `Coin_POS` is to go from a table to another through the hall only
  (`UserManager.cpp:576` of the user server), but `CInnerDissolveTable` puts the
  users of a table into the hall one by one and frees their seats when all are
  done, so one of them can sit at a second table while he still has the first
  seat. `TwoTablesNeedAReset` has this case by name.
* After a round that ended because all seats were trusted,
  `is_trusteeship_error` stays set, and a later bidding in which nobody calls is
  not dealt again (`TableModle.cpp:1178`), although the comment at line 1172 says
  so; the table hangs. `RoundMoves` excepts this state.
* From the second round on the dealer is `last_winner`, which the first deal of
  the round has set to -1 (`TableModle.cpp:898`, 906); when that deal is repeated,
  seat -1 is indexed. The theorem `DealerKnown` says this is the only way there.
* `SaveDataField` of the dbproxy does not look at the result of a write to Redis
  (`RedisManager.cpp:188`), so a failed save is answered as a success; `AckedKept`
  excepts the keys of such a save.

## 14. Not modelled

* Routing: a message goes to one server by id, hash or chance; the modules take
  from it which messages keep their order (`conf/route.CFG` has one routing server,
  hashed requests of a user go to one dbproxy) and which do not.
* Hall: a login is what `AccessUsers` needs of it; user data, records and replay
  codes are reads that are passed on.
* Log, gm, robot clients: they keep no state the others depend on.
* Core, libs and the protobuf declarations: vendored or generated. They are by far
  the larger part of the lines of the repository, so the share of all lines that
  the models stand for stays small.
