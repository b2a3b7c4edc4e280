----------------------------- MODULE RoomTables -----------------------------
(***************************************************************************)
(* The ids of private tables in the room server: ZoneTableManager, which   *)
(* keeps them in memory and binds them to their owners in Redis, the       *)
(* handlers that create and enter a table, and the timer that takes back   *)
(* an id nobody entered for a day.  The same fact, who owns which table,   *)
(* is kept a second time as Create_Table of the user server, and nothing   *)
(* but the order of the handlers' steps keeps the two in agreement: the    *)
(* room may restart between them, sessions time out, Redis may fail.       *)
(*                                                                         *)
(* The private game servers are external (src/ has a coin game only): one  *)
(* answers an enter request, or not, and dissolves a table the way         *)
(* CGmReuqestDissolveTable of ddz_Coin_3 does, users first.                *)
(* The room reaches the user server over one route, so a read waits for    *)
(* the updates of the same user before it.                                 *)
(***************************************************************************)
EXTENDS Integers, Sequences, FiniteSets

CONSTANTS
  Users,
  Tids,        \* table ids, in the order of _lz_alloced_map
  Unknown,     \* ids no entry of the configuration covers (any more)
  Games,       \* ids of game servers
  Kinds,       \* tables created: "own", "teabar", "delegate"
  RedisFails,  \* which commands may fail in Redis: "set", "del"
  ReusesAtOnce,\* TRUE: an id is given away while an old table has it
  MaxRequests, \* bound: requests of clients in one behaviour
  MaxFaults,   \* bound: timeouts, restarts of the room, closed game servers
  None,        \* nobody; as a table: none; as a game server: -1
  Gone         \* an account that owns the tables of Unknown

Hall == None

ASSUME RoomAssumption ==
  /\ Tids \subseteq Nat /\ IsFiniteSet(Tids) /\ Unknown \subseteq Tids
  /\ Kinds \subseteq {"own", "teabar", "delegate"}
  /\ RedisFails \subseteq {"set", "del"} /\ ReusesAtOnce \in BOOLEAN
  /\ MaxRequests \in Nat /\ MaxFaults \in Nat
  /\ None \notin Users \cup Games \cup Tids \cup (Tids \X Games)
  /\ Gone \notin Users \cup {None}

Places == (Tids \X Games) \cup {Hall}
Known  == Tids \ Unknown

(* What a handler reads of a user.                                         *)
Info == [ table : Tids \cup {None}, pos : Places, want : Tids \cup {None} ]
(* An update the room asks the user server for: Create_Table is set to tid *)
(* by a create, and cleared by the others unless tid is None.              *)
Update == [ cmd : {"create", "enter", "clear"}, kind : Kinds \cup {None},
            tid : Tids \cup {None}, live : BOOLEAN ]

VARIABLES
  alloced,     \* keys of _lz_alloced_map
  free,        \* how often _lz_free_maps holds an id
  stale,       \* ids whose stamp is more than a day old
  running, retired,   \* GameSvrdManager
  asked,       \* what create, enter and clear sessions have read and not used
  clears,      \* inner messages that clear the owner of a table
  forwards,    \* enter requests at a game server
  owner,       \* Redis: TID_UID_MAP, None where there is no key
  svid,        \* Redis: TID_SVID_MAP, None for -1
  createTable, pos,   \* user server: Create_Table and POS
  updates,     \* for each user, the updates on their way
  hosted,      \* external: tables at game servers
  notices,     \* SSNotifyTableDissolved on their way
  requests, faults,   \* how many there were
  strayed      \* history: whom Redis binds to a table that is not his
               \* Create_Table, and ids whose key it kept, and by what

ids      == << alloced, free, stale >>
redis    == << owner, svid >>
games    == << running, retired >>
sessions == << asked, clears, forwards >>
atUser   == << createTable, pos, updates >>
counts   == << requests, faults >>
atGame   == << hosted, notices >>
vars == << ids, redis, games, sessions, atUser, counts, atGame, strayed >>

Cmds == {"create", "enter", "clear"}

TypeOK ==
  /\ alloced \subseteq Tids /\ stale \subseteq alloced
  /\ free \in [Tids -> Nat]
  /\ running \subseteq Games /\ retired \subseteq Games
  /\ asked \in [Cmds -> [Users -> Info \cup {None}]]
  /\ clears \in [Users -> Nat]
  /\ forwards \subseteq [uid : Users, tid : Tids, game : Games, live : BOOLEAN]
  /\ owner \in [Tids -> Users \cup {None, Gone}]
  /\ svid \in [Tids -> Games \cup {None}]
  /\ createTable \in [Users -> Tids \cup {None}] /\ pos \in [Users -> Places]
  /\ updates \in [Users -> Seq(Update)]
  /\ notices \subseteq Tids /\ hosted \subseteq Tids \X Games
  /\ requests \in 0 .. MaxRequests /\ faults \in 0 .. MaxFaults
  /\ strayed \subseteq (Users \X {"dead game", "lost notice", "delegate", "cleared"})
                     \cup (Tids \X {"redis"})

(* ZoneTableManager::Init: ids with a key in Redis are taken, the others   *)
(* of the configuration are free.                                          *)
Bound(o)      == { t \in Tids : o[t] # None }
FreeAfter(o)  == [ t \in Tids |-> IF t \in Bound(o) \cup Unknown THEN 0 ELSE 1 ]

Init ==
  /\ owner = [ t \in Tids |-> IF t \in Unknown THEN Gone ELSE None ]
  /\ svid = [ t \in Tids |-> None ]
  /\ alloced = Bound(owner) /\ free = FreeAfter(owner) /\ stale = {}
  /\ running = {} /\ retired = {}
  /\ asked = [ c \in Cmds |-> [ u \in Users |-> None ] ]
  /\ clears = [ u \in Users |-> 0 ] /\ forwards = {}
  /\ createTable = [ u \in Users |-> None ] /\ pos = [ u \in Users |-> Hall ]
  /\ updates = [ u \in Users |-> << >> ]
  /\ hosted = {} /\ notices = {} /\ requests = 0 /\ faults = 0 /\ strayed = {}

Fault == faults < MaxFaults /\ faults' = faults + 1 /\ UNCHANGED requests
Request == requests < MaxRequests /\ requests' = requests + 1 /\ UNCHANGED faults

-----------------------------------------------------------------------------
(* Ids.  Redis is there or is not for the whole of a handler.              *)
RedisUp(op) == IF op \in RedisFails THEN BOOLEAN ELSE {TRUE}

IsGameExist(g) == g \in running \cup retired

(* Something of an earlier table of this id is left at a game server or in *)
(* a position.  The code draws one of up to 899999 ids and does not look.  *)
Lingers(t) ==
  \/ t \in notices \/ \E f \in forwards : f.tid = t
  \/ \E g \in Games : << t, g >> \in hosted \/ \E u \in Users : pos[u] = << t, g >>

(* AllocNewTableID takes a random free id; it is bound to nobody yet.      *)
AllocNewTableID(t) ==
  /\ free[t] > 0
  /\ ReusesAtOnce \/ ~Lingers(t)
  /\ free' = [free EXCEPT ![t] = @ - 1]
  /\ alloced' = alloced \cup {t} /\ stale' = stale \ {t}

(* DissolveTable of the ids ts, for each that is allocated: it is unbound, *)
(* put back and forgets its game server.  An id of no table type is not    *)
(* put back.                                                               *)
M_DissolveTablesUnchecked(ts, up) ==
  /\ alloced' = alloced \ ts /\ stale' = stale \ ts
  /\ free' = [ t \in Tids |-> IF t \in ts \ Unknown THEN free[t] + 1 ELSE free[t] ]
  /\ owner' = [ t \in Tids |-> IF t \in ts /\ up THEN None ELSE owner[t] ]
  /\ svid' = [ t \in Tids |-> IF t \in ts \ Unknown /\ up THEN None ELSE svid[t] ]
M_DissolveTablesStampLeft(ts, up) ==
  LET them == ts \cap alloced IN
  /\ alloced' = alloced \ them /\ UNCHANGED stale
  /\ free' = [ t \in Tids |-> IF t \in them \ Unknown THEN free[t] + 1 ELSE free[t] ]
  /\ owner' = [ t \in Tids |-> IF t \in them /\ up THEN None ELSE owner[t] ]
  /\ svid' = [ t \in Tids |-> IF t \in them \ Unknown /\ up THEN None ELSE svid[t] ]
DissolveTables(ts, up) ==
  LET them == ts \cap alloced IN
  /\ alloced' = alloced \ them /\ stale' = stale \ them
  /\ free' = [ t \in Tids |-> IF t \in them \ Unknown THEN free[t] + 1 ELSE free[t] ]
  /\ owner' = [ t \in Tids |-> IF t \in them /\ up THEN None ELSE owner[t] ]
  /\ svid' = [ t \in Tids |-> IF t \in them \ Unknown /\ up THEN None ELSE svid[t] ]

(* Owners of ts whose notice finds no room; ids of ts whose key Redis did  *)
(* not delete (UnBindTidForUser is only logged).                           *)
Owned(ts)   == { t \in ts : owner[t] \in Users }
Unheard(ts) == { << owner[t], "lost notice" >> : t \in Owned(ts) }
Undeleted(ts) == Owned(ts \cap alloced) \X {"redis"}

-----------------------------------------------------------------------------
(* Sessions.  A create or enter request holds the lock of its command and  *)
(* user until the session ends; the clear of an owner has no lock.         *)
Locked(c, u) ==
  \/ asked[c][u] # None
  \/ \E i \in DOMAIN updates[u] : updates[u][i].cmd = c /\ updates[u][i].live
  \/ c = "enter" /\ \E f \in forwards : f.uid = u /\ f.live

Drop(c, u) == asked' = [asked EXCEPT ![c][u] = None]
Save(u, m) == updates' = [updates EXCEPT ![u] = Append(@, m)]
Read(u, t) == [ table |-> createTable[u], pos |-> pos[u], want |-> t ]

(* ProcessRequestMsg of the create and enter requests, and the read that   *)
(* is answered behind the updates before it.                               *)
Ask(c, u, t) ==
  /\ Request /\ ~Locked(c, u) /\ updates[u] = << >>
  /\ asked' = [asked EXCEPT ![c][u] = Read(u, t)]
  /\ UNCHANGED << ids, redis, games, clears, forwards, atUser, atGame, strayed >>

RequestCreate(u)   == Ask("create", u, None)
RequestEnter(u, t) == Ask("enter", u, t)

(* CRequestSDRCreateTable::ProcessGetSucc.  Who is at a table or has       *)
(* created one is refused, unless he creates for others.                   *)
M_MayCreateTwo(seen, kind) == kind = "delegate" \/ seen.pos = Hall
MayCreate(seen, kind) == kind = "delegate" \/ (seen.pos = Hall /\ seen.table = None)

(* Binding a created table: the owner goes on whether or not Redis takes   *)
(* it; a tea bar's table also gets a game server, if one runs.             *)
BindTidForUser(u, m, up) ==
  /\ owner' = IF up THEN [owner EXCEPT ![m.tid] = u] ELSE owner
  /\ \/ /\ m.kind = "own" \/ running = {}
        /\ svid' = IF up THEN [svid EXCEPT ![m.tid] = None] ELSE svid
        /\ UNCHANGED stale
        /\ UNCHANGED hosted
     \/ /\ m.kind # "own"
        /\ \E g \in running :
             /\ svid' = IF up THEN [svid EXCEPT ![m.tid] = g] ELSE svid
             /\ hosted' = hosted \cup {<< m.tid, g >>}
        /\ stale' = stale \ {m.tid}
  /\ strayed' = strayed \cup (IF m.kind = "delegate" THEN {<< u, "delegate" >>} ELSE {})

CreateRefused(u) ==
  /\ asked["create"][u] # None
  /\ \/ \E kind \in Kinds : ~MayCreate(asked["create"][u], kind)
     \/ \A t \in Tids : free[t] = 0
  /\ Drop("create", u)
  /\ UNCHANGED << ids, redis, games, clears, forwards, atUser, counts, atGame, strayed >>

(* The chips are looked at when the id is taken already; it is not given   *)
(* back.                                                                   *)
CreateNoChips(u) ==
  /\ asked["create"][u] # None
  /\ \E kind \in Kinds : MayCreate(asked["create"][u], kind)
  /\ \E t \in Tids : AllocNewTableID(t)
  /\ Drop("create", u)
  /\ UNCHANGED << redis, games, clears, forwards, atUser, counts, atGame, strayed >>

CreateGot(u) ==
  /\ asked["create"][u] # None
  /\ \E kind \in Kinds, t \in Tids :
       /\ MayCreate(asked["create"][u], kind)
       /\ AllocNewTableID(t)
       /\ Save(u, [ cmd |-> "create", kind |-> kind, tid |-> t, live |-> TRUE ])
  /\ Drop("create", u)
  /\ UNCHANGED << redis, games, clears, forwards, createTable, pos, counts, atGame, strayed >>

(* Who creates for others in a tea bar whose guests pay is bound at once.  *)
CreateDelegated(u) ==
  /\ asked["create"][u] # None /\ "delegate" \in Kinds
  /\ \E t \in Tids, up \in RedisUp("set") :
       /\ AllocNewTableID(t)
       /\ BindTidForUser(u, [ cmd |-> "create", kind |-> "delegate", tid |-> t, live |-> TRUE ], up)
  /\ Drop("create", u)
  /\ UNCHANGED << games, clears, forwards, atUser, counts, notices >>

-----------------------------------------------------------------------------
(* CRequestSDREnterTable.                                                  *)

(* Cut off: the game server of his position, or its table, is gone.        *)
CutOff(p) == p # Hall /\ (~IsGameExist(p[2]) \/ p[1] \notin alloced)

(* His own table is bound to nobody, or to another.                        *)
Lapsed(u, seen) == seen.table = seen.want /\ owner[seen.want] # u

EnterReset(u) ==
  LET seen == asked["enter"][u] IN
  /\ seen # None
  /\ \/ CutOff(seen.pos)
     \/ seen.pos = Hall /\ Lapsed(u, seen)
  /\ Save(u, [ cmd |-> "enter", kind |-> None, live |-> TRUE,
               tid |-> IF seen.pos = Hall THEN seen.want
                       ELSE IF seen.table = seen.pos[1] THEN seen.table ELSE None ])
  /\ Drop("enter", u)
  /\ UNCHANGED << ids, redis, games, clears, forwards, createTable, pos, counts, atGame, strayed >>

(* The request goes to the game server of the position, of the table, or   *)
(* to any that runs.                                                       *)
Targets(seen) ==
  IF seen.pos # Hall THEN {seen.pos[2]}
  ELSE IF svid[seen.want] # None THEN {svid[seen.want]} ELSE running

EnterForwarded(u) ==
  LET seen == asked["enter"][u] IN
  /\ seen # None
  /\ ~CutOff(seen.pos) /\ ~(seen.pos = Hall /\ Lapsed(u, seen))
  /\ seen.pos = Hall => seen.want \notin Unknown
  /\ \E g \in Targets(seen) :
       forwards' = forwards \cup
         {[ uid |-> u, tid |-> IF seen.pos = Hall THEN seen.want ELSE seen.pos[1],
            game |-> g, live |-> TRUE ]}
  /\ Drop("enter", u)
  /\ UNCHANGED << ids, redis, games, clears, atUser, counts, atGame, strayed >>

EnterFails(u) ==
  LET seen == asked["enter"][u] IN
  /\ seen # None /\ seen.pos = Hall /\ ~Lapsed(u, seen)
  /\ seen.want \in Unknown \/ Targets(seen) = {}
  /\ Drop("enter", u)
  /\ UNCHANGED << ids, redis, games, clears, forwards, atUser, counts, atGame, strayed >>

(* The game server seats the user at a table it has, or makes the table of *)
(* its creator; he must come from the hall or be there already.  The       *)
(* answer refreshes the table, if its session still waits.                 *)
GameSeats(f) ==
  /\ IsGameExist(f.game) /\ updates[f.uid] = << >>
  /\ << f.tid, f.game >> \in hosted \/ createTable[f.uid] = f.tid
  /\ hosted' = hosted \cup {<< f.tid, f.game >>}
  /\ pos[f.uid] \in {Hall, << f.tid, f.game >>}
  /\ pos' = [pos EXCEPT ![f.uid] = << f.tid, f.game >>]
  /\ forwards' = forwards \ {f}
  /\ \E up \in RedisUp("set") :
       IF f.live THEN /\ stale' = stale \ {f.tid}
                      /\ svid' = IF up THEN [svid EXCEPT ![f.tid] = f.game] ELSE svid
                 ELSE UNCHANGED << stale, svid >>
  /\ UNCHANGED << alloced, free, owner, games, asked, clears, createTable, updates,
                  counts, notices, strayed >>

GameRefuses(f) ==
  /\ forwards' = forwards \ {f}
  /\ UNCHANGED << ids, redis, games, asked, clears, atUser, counts, atGame, strayed >>

(* A game server dissolves a table: whoever is there goes to the hall, its *)
(* creator has no table any more, and the room is told.                    *)
GameDissolves(t, g) ==
  LET out == { u \in Users : pos[u] = << t, g >> \/ createTable[u] = t } IN
  /\ << t, g >> \in hosted /\ t \notin notices
  /\ \A u \in out : updates[u] = << >>
  /\ pos' = [ u \in Users |-> IF pos[u] = << t, g >> THEN Hall ELSE pos[u] ]
  /\ createTable' = [ u \in Users |-> IF createTable[u] = t THEN None ELSE createTable[u] ]
  /\ hosted' = hosted \ {<< t, g >>} /\ notices' = notices \cup {t}
  /\ UNCHANGED << ids, redis, games, sessions, updates, counts, strayed >>

(* CNotifyTableDissolved.                                                  *)
TableDissolved(t) ==
  /\ t \in notices /\ notices' = notices \ {t}
  /\ \E up \in RedisUp("del") :
       /\ DissolveTables({t}, up)
       /\ strayed' = strayed \cup (IF up THEN {} ELSE Undeleted({t}))
  /\ UNCHANGED << games, sessions, atUser, counts, hosted >>

-----------------------------------------------------------------------------
(* The user server does an update and answers; a session that still lives  *)
(* goes on.                                                                *)
Hits(u, m) == createTable[u] # None /\ owner[createTable[u]] = u

UpdateAtUser(u) ==
  /\ updates[u] # << >>
  /\ LET m == Head(updates[u]) IN
       /\ updates' = [updates EXCEPT ![u] = Tail(@)]
       /\ createTable' = [createTable EXCEPT ![u] =
            IF m.cmd = "create" THEN IF m.kind = "delegate" THEN @ ELSE m.tid
            ELSE IF m.cmd = "enter" /\ m.tid = None THEN @ ELSE None]
       /\ pos' = IF m.cmd = "create" THEN pos ELSE [pos EXCEPT ![u] = Hall]
       /\ IF m.cmd = "create" /\ m.live
          THEN (\E up \in RedisUp("set") : BindTidForUser(u, m, up)) /\ UNCHANGED << alloced, free >>
          ELSE /\ strayed' = strayed \cup
                    (IF createTable'[u] = None /\ Hits(u, m)
                     THEN {<< u, IF m.cmd = "clear" THEN "cleared" ELSE "dead game" >>}
                     ELSE {})
               /\ UNCHANGED << ids, redis, hosted >>
  /\ UNCHANGED << games, sessions, counts, notices >>

-----------------------------------------------------------------------------
(* The recycle timer.                                                      *)

(* A day passes without a refresh: no session is about the table.          *)
Mentioned(t) ==
  \/ t \in notices
  \/ \E u \in Users :
       /\ asked["enter"][u] # None
       /\ asked["enter"][u].want = t \/ asked["enter"][u].pos \in {t} \X Games
  \/ \E u \in Users : \E i \in DOMAIN updates[u] :
       updates[u][i].cmd = "create" /\ updates[u][i].tid = t
  \/ \E f \in forwards : f.tid = t

Day(t) ==
  /\ t \in alloced \ stale /\ ~Mentioned(t)
  /\ stale' = stale \cup {t}
  /\ UNCHANGED << alloced, free, redis, games, sessions, atUser, counts, atGame, strayed >>

(* ProcessOnTimerOut goes through the map in the order of the ids and      *)
(* returns at one that has no node type; the owner of each is to be        *)
(* cleared.                                                                *)
Recycled == { t \in stale : \A x \in stale \cap Unknown : t < x }

RecycleTimer ==
  /\ Recycled # {}
  /\ clears' = [ u \in Users |-> clears[u] + Cardinality({ t \in Recycled : owner[t] = u }) ]
  /\ \E up \in RedisUp("del") :
       /\ DissolveTables(Recycled, up)
       /\ strayed' = strayed \cup (IF up THEN {} ELSE Undeleted(Recycled))
  /\ UNCHANGED << games, asked, forwards, atUser, counts, atGame >>

(* CNotifyClearTableOwnerTableInfo: an owner who is not at a table has no  *)
(* table any more.                                                         *)
ClearAsked(u) ==
  /\ clears[u] > 0 /\ asked["clear"][u] = None /\ updates[u] = << >>
  /\ clears' = [clears EXCEPT ![u] = @ - 1]
  /\ asked' = [asked EXCEPT !["clear"][u] = Read(u, None)]
  /\ UNCHANGED << ids, redis, games, forwards, atUser, counts, atGame, strayed >>

ClearGot(u) ==
  /\ asked["clear"][u] # None
  /\ IF asked["clear"][u].pos # Hall THEN UNCHANGED updates
     ELSE Save(u, [ cmd |-> "clear", kind |-> None, tid |-> None, live |-> TRUE ])
  /\ Drop("clear", u)
  /\ UNCHANGED << ids, redis, games, clears, forwards, createTable, pos, counts, atGame, strayed >>

-----------------------------------------------------------------------------
(* What the room is told of game servers.                                  *)
GamesOnly == UNCHANGED << ids, redis, sessions, atUser, notices, strayed >>

ReportGame(g) ==
  /\ g \notin running /\ running' = running \cup {g}
  /\ UNCHANGED << retired, counts, hosted >> /\ GamesOnly

RetireGame(g) ==
  /\ g \in running /\ running' = running \ {g} /\ retired' = retired \cup {g}
  /\ Fault /\ UNCHANGED hosted /\ GamesOnly

CloseGame(g) ==
  /\ IsGameExist(g) /\ running' = running \ {g} /\ retired' = retired \ {g}
  /\ hosted' = { h \in hosted : h[2] # g } /\ Fault /\ GamesOnly

(* A session times out; what it asked for may still happen.                *)
SessionTimeout(c, u) ==
  /\ Fault /\ Locked(c, u)
  /\ asked' = [asked EXCEPT ![c][u] = None]
  /\ updates' = [updates EXCEPT ![u] =
       [ i \in DOMAIN @ |-> IF @[i].cmd = c THEN [@[i] EXCEPT !.live = FALSE] ELSE @[i] ]]
  /\ forwards' = IF c # "enter" THEN forwards
                 ELSE { IF f.uid = u THEN [f EXCEPT !.live = FALSE] ELSE f : f \in forwards }
  /\ UNCHANGED << ids, redis, games, clears, createTable, pos, atGame, strayed >>

(* The room stops and starts: what it had in memory, its sessions and the  *)
(* notices that find nobody are lost, and the ids come from Redis.         *)
M_FreshIds == alloced' = {} /\ free' = [ t \in Tids |-> IF t \in Unknown THEN 0 ELSE 1 ]
RestartedIds == alloced' = Bound(owner) /\ free' = FreeAfter(owner)

Restart ==
  /\ Fault /\ RestartedIds /\ stale' = {}
  /\ running' = {} /\ retired' = {}
  /\ asked' = [ c \in Cmds |-> [ u \in Users |-> None ] ]
  /\ clears' = [ u \in Users |-> 0 ]
  /\ forwards' = { [f EXCEPT !.live = FALSE] : f \in forwards }
  /\ updates' = [ u \in Users |->
       [ i \in DOMAIN updates[u] |-> [updates[u][i] EXCEPT !.live = FALSE] ]]
  /\ \E lost \in SUBSET notices :
       /\ notices' = notices \ lost
       /\ strayed' = strayed \cup Unheard(lost)
  /\ UNCHANGED << redis, createTable, pos, hosted >>

Next ==
  \/ \E u \in Users :
       \/ RequestCreate(u) \/ \E t \in Tids : RequestEnter(u, t)
       \/ CreateRefused(u) \/ CreateNoChips(u) \/ CreateGot(u) \/ CreateDelegated(u)
       \/ EnterReset(u) \/ EnterForwarded(u) \/ EnterFails(u)
       \/ UpdateAtUser(u) \/ ClearAsked(u) \/ ClearGot(u)
       \/ \E c \in Cmds : SessionTimeout(c, u)
  \/ \E f \in forwards : GameSeats(f) \/ GameRefuses(f)
  \/ \E t \in Tids : TableDissolved(t) \/ Day(t) \/ \E g \in Games : GameDissolves(t, g)
  \/ \E g \in Games : ReportGame(g) \/ RetireGame(g) \/ CloseGame(g)
  \/ RecycleTimer \/ Restart

Spec == Init /\ [][Next]_vars

-----------------------------------------------------------------------------
(* Properties *)

(* An id is either taken or free once, through double notices, recycling   *)
(* and restarts; an id that left the configuration is never given away     *)
(* again (_lz_alloced_map and _lz_free_maps).                              *)
IdsPartitioned ==
  \A t \in Tids : free[t] = IF t \in alloced \cup Unknown THEN 0 ELSE 1

(* An id that Redis binds to an owner is taken: nobody is given a table    *)
(* that has an owner, also after a restart, except an id whose key Redis   *)
(* once refused to delete.                                                 *)
BoundIsTaken ==
  \A t \in Tids : owner[t] \in Users /\ << t, "redis" >> \notin strayed
                    => t \in alloced

(* The owner the room knows of is a user who has that table as his         *)
(* Create_Table, while no notice of its end is on its way.  The ways out   *)
(* are the ones in strayed.                                                *)
OwnerKnowsTable ==
  \A t \in Tids : owner[t] \in Users /\ t \notin notices
    /\ << t, "redis" >> \notin strayed
    /\ (\A why \in {"dead game", "lost notice", "delegate", "cleared"} :
          << owner[t], why >> \notin strayed)
    => createTable[owner[t]] = t
=============================================================================
