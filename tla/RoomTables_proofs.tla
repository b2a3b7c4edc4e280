-------------------------- MODULE RoomTables_proofs --------------------------
(***************************************************************************)
(* Proofs about RoomTables.                                                *)
(*                                                                         *)
(* IdsStayPartitioned: an id is taken or free once (IInv).                 *)
(* RoomTypes: every field keeps its type (TypeInv).                        *)
(* BoundStaysTaken: an id that Redis binds to a user is taken.  What makes *)
(* it inductive (Steady) is about the ids whose creation is on its way to  *)
(* the user server: they are taken, unowned, come once, and no game server *)
(* can seat anybody there, also not after a read of the user that was      *)
(* overtaken by his own creation; so nothing dissolves them meanwhile.     *)
(* OwnersKnow: an owner in Redis has the table as his Create_Table; it     *)
(* needs the former, and that who creates a table of his own has none.     *)
(***************************************************************************)
EXTENDS RoomTables, FiniteSetTheorems, TLAPS

(* The ids in memory, and the owners a restart reads back.                 *)
IdTypes ==
  /\ alloced \subseteq Tids
  /\ free \in [Tids -> Nat]

IInv == IdTypes /\ IdsPartitioned

-----------------------------------------------------------------------------
(* What memory holds after ZoneTableManager::Init, of a fresh room or of   *)
(* one that was restarted, is a partition: ids with a key are taken, the   *)
(* others of the configuration are free once.                              *)
LEMMA FromRedis ==
  /\ Bound(owner) \subseteq Tids
  /\ FreeAfter(owner) \in [Tids -> Nat]
  /\ \A t \in Tids : FreeAfter(owner)[t] = IF t \in Bound(owner) \cup Unknown THEN 0 ELSE 1
BY DEF Bound, FreeAfter

(* AllocNewTableID takes an id that is free once, so it becomes taken.     *)
LEMMA AllocKeeps ==
  ASSUME IInv, NEW t \in Tids, AllocNewTableID(t)
  PROVE  IInv'
<1>1. free[t] = 1 /\ t \notin alloced \cup Unknown
  BY DEF IInv, IdTypes, IdsPartitioned, AllocNewTableID
<1>2. IdTypes'
  BY <1>1 DEF IInv, IdTypes, AllocNewTableID
<1>3. IdsPartitioned'
  <2> SUFFICES ASSUME NEW x \in Tids
               PROVE  free'[x] = IF x \in alloced' \cup Unknown THEN 0 ELSE 1
    BY DEF IdsPartitioned
  <2>1. CASE x = t
    BY <1>1, <2>1 DEF IInv, IdTypes, AllocNewTableID
  <2>2. CASE x # t
    BY <2>2 DEF IInv, IdTypes, IdsPartitioned, AllocNewTableID
  <2> QED BY <2>1, <2>2
<1> QED BY <1>2, <1>3 DEF IInv

(* DissolveTable puts an id back only if it was allocated, so that a       *)
(* second notice, or the timer, finds nothing to put back.                 *)
LEMMA DissolveKeeps ==
  ASSUME IInv, NEW ts \in SUBSET Tids, NEW up, DissolveTables(ts, up)
  PROVE  IInv'
<1>1. /\ alloced' = alloced \ (ts \cap alloced)
      /\ free' = [ t \in Tids |-> IF t \in (ts \cap alloced) \ Unknown
                                  THEN free[t] + 1 ELSE free[t] ]
  BY DEF DissolveTables
<1>2. IdTypes'
  BY <1>1 DEF IInv, IdTypes
<1>3. IdsPartitioned'
  <2> SUFFICES ASSUME NEW x \in Tids
               PROVE  free'[x] = IF x \in alloced' \cup Unknown THEN 0 ELSE 1
    BY DEF IdsPartitioned
  <2>1. free[x] = IF x \in alloced \cup Unknown THEN 0 ELSE 1
    BY DEF IInv, IdsPartitioned
  <2> QED BY <1>1, <2>1
<1> QED BY <1>2, <1>3 DEF IInv

-----------------------------------------------------------------------------
(* The process starts with the id range of its config free and no table    *)
(* taken.                                                                  *)
LEMMA IdsInit == Init => IInv
<1> SUFFICES ASSUME Init PROVE IInv
  OBVIOUS
<1>1. alloced = Bound(owner) /\ free = FreeAfter(owner)
  BY DEF Init
<1> QED BY <1>1, FromRedis DEF IInv, IdTypes, IdsPartitioned

(* One step per action that touches an id; every other leaves both maps    *)
(* alone.                                                                  *)
LEMMA IdsNext == IInv /\ [Next]_vars => IInv'
<1> SUFFICES ASSUME IInv, [Next]_vars PROVE IInv'
  OBVIOUS
<1> DEFINE Same == UNCHANGED << alloced, free >>
<1>1. Same => IInv'
  BY DEF IInv, IdTypes, IdsPartitioned
<1>2. ASSUME NEW u \in Users, CreateNoChips(u) PROVE IInv'
  BY <1>2, AllocKeeps DEF CreateNoChips
<1>3. ASSUME NEW u \in Users, CreateGot(u) PROVE IInv'
  BY <1>3, AllocKeeps DEF CreateGot
<1>4. ASSUME NEW u \in Users, CreateDelegated(u) PROVE IInv'
  BY <1>4, AllocKeeps DEF CreateDelegated
<1>5. ASSUME NEW u \in Users, UpdateAtUser(u) PROVE Same
  <2> DEFINE m == Head(updates[u])
  <2>1. CASE m.cmd = "create" /\ m.live
    BY <1>5, <2>1 DEF UpdateAtUser
  <2>2. CASE ~(m.cmd = "create" /\ m.live)
    BY <1>5, <2>2 DEF UpdateAtUser, ids
  <2> QED BY <2>1, <2>2
<1>6. ASSUME NEW f \in forwards
      PROVE  (GameSeats(f) => Same) /\ (GameRefuses(f) => Same)
  BY DEF GameSeats, GameRefuses, ids
<1>7. ASSUME NEW t \in Tids, TableDissolved(t) PROVE IInv'
  <2>1. PICK up : DissolveTables({t}, up)
    BY <1>7 DEF TableDissolved
  <2> QED BY <2>1, DissolveKeeps
<1>8. ASSUME RecycleTimer PROVE IInv'
  <2>1. PICK up : DissolveTables(Recycled, up)
    BY <1>8 DEF RecycleTimer
  <2>2. DissolveTables(Recycled \cap Tids, up)
    BY <2>1 DEF DissolveTables, IInv, IdTypes
  <2> QED BY <2>2, DissolveKeeps
<1>9. ASSUME Restart PROVE IInv'
  <2>1. /\ alloced' = Bound(owner)
        /\ free' = FreeAfter(owner)
    BY <1>9 DEF Restart, RestartedIds
  <2> QED BY <2>1, FromRedis DEF IInv, IdTypes, IdsPartitioned
<1>10. CASE UNCHANGED vars
  BY <1>1, <1>10 DEF vars, ids
<1>11. ASSUME NEW u \in Users,
              \/ RequestCreate(u) \/ \E t \in Tids : RequestEnter(u, t)
              \/ CreateRefused(u) \/ CreateNoChips(u) \/ CreateGot(u) \/ CreateDelegated(u)
              \/ EnterReset(u) \/ EnterForwarded(u) \/ EnterFails(u)
              \/ UpdateAtUser(u) \/ ClearAsked(u) \/ ClearGot(u)
              \/ \E c \in Cmds : SessionTimeout(c, u)
       PROVE  IInv'
  <2> HIDE DEF Same
  <2>1. CASE \E t \in Tids : RequestEnter(u, t)
    BY <1>1, <2>1 DEF Same, RequestEnter, Ask, ids
  <2>2. CASE \E c \in Cmds : SessionTimeout(c, u)
    BY <1>1, <2>2 DEF Same, SessionTimeout, ids
  <2>3. CASE RequestCreate(u) \/ CreateRefused(u) \/ EnterReset(u) \/ EnterForwarded(u)
             \/ EnterFails(u) \/ ClearAsked(u) \/ ClearGot(u)
    BY <1>1, <2>3
       DEF Same, RequestCreate, Ask, CreateRefused, EnterReset, EnterForwarded, EnterFails,
           ClearAsked, ClearGot, ids
  <2> QED BY <1>1, <1>2, <1>3, <1>4, <1>5, <1>11, <2>1, <2>2, <2>3
<1>12. ASSUME \E f \in forwards : GameSeats(f) \/ GameRefuses(f) PROVE IInv'
  BY <1>1, <1>6, <1>12
<1>13. ASSUME \E t \in Tids : TableDissolved(t) \/ Day(t) \/ \E g \in Games : GameDissolves(t, g)
       PROVE  IInv'
  BY <1>1, <1>7, <1>13 DEF Day, GameDissolves, ids
<1>14. ASSUME \E g \in Games : ReportGame(g) \/ RetireGame(g) \/ CloseGame(g) PROVE IInv'
  BY <1>1, <1>14 DEF ReportGame, RetireGame, CloseGame, GamesOnly, ids
<1>15. CASE Next
  BY <1>8, <1>9, <1>11, <1>12, <1>13, <1>14, <1>15 DEF Next
<1> QED BY <1>10, <1>15

(* For any users, ids, configuration and game servers, with any failures   *)
(* of Redis and any number of requests and faults, an id is taken or free  *)
(* once, and an id of no table type is never handed out.                   *)
THEOREM IdsStayPartitioned == Spec => []IdsPartitioned
<1>1. Spec => []IInv
  BY IdsInit, IdsNext, PTL DEF Spec
<1>2. IInv => IdsPartitioned
  BY DEF IInv
<1> QED BY <1>1, <1>2, PTL

-----------------------------------------------------------------------------
(* A table is created under an id.                                         *)
CreatesAnId ==
  \A u \in Users : \A i \in DOMAIN updates[u] :
    updates[u][i].cmd = "create" => updates[u][i].tid \in Tids

(* A table is entered by its id.                                           *)
EntersAnId ==
  \A u \in Users : asked["enter"][u] # None => asked["enter"][u].want \in Tids

TypeInv == TypeOK /\ CreatesAnId /\ EntersAnId

(* A fresh room has its queues and records empty.                          *)
LEMMA TypesInit == Init => TypeInv
<1> SUFFICES ASSUME Init PROVE TypeInv
  OBVIOUS
<1>1. TypeOK
  BY RoomAssumption DEF Init, TypeOK, Bound, FreeAfter, Places, Hall
<1>2. CreatesAnId
  BY DEF Init, CreatesAnId
<1>3. EntersAnId
  BY DEF Init, EntersAnId, Cmds
<1> QED BY <1>1, <1>2, <1>3 DEF TypeInv

(* An update that joins the queue of a user.                               *)
LEMMA SaveTypes ==
  ASSUME TypeInv, NEW u \in Users, NEW m \in Update,
         m.cmd = "create" => m.tid \in Tids, Save(u, m)
  PROVE  updates' \in [Users -> Seq(Update)] /\ CreatesAnId'
<1>1. updates[u] \in Seq(Update) /\ updates \in [Users -> Seq(Update)]
  BY DEF TypeInv, TypeOK
<1>2. /\ updates' = [updates EXCEPT ![u] = Append(@, m)]
      /\ Append(updates[u], m) \in Seq(Update)
  BY <1>1 DEF Save
<1>3. updates' \in [Users -> Seq(Update)]
  BY <1>1, <1>2
<1>4. ASSUME NEW v \in Users, NEW i \in DOMAIN updates'[v], updates'[v][i].cmd = "create"
      PROVE  updates'[v][i].tid \in Tids
  <2>1. CASE v # u
    BY <1>1, <1>2, <1>4, <2>1 DEF TypeInv, CreatesAnId
  <2>2. CASE v = u /\ i = Len(updates[u]) + 1
    BY <1>1, <1>2, <1>4, <2>2
  <2>3. CASE v = u /\ i # Len(updates[u]) + 1
    <3>1. i \in DOMAIN updates[u] /\ updates'[v][i] = updates[u][i]
      BY <1>1, <1>2, <2>3
    <3> QED BY <1>4, <3>1 DEF TypeInv, CreatesAnId
  <2> QED BY <2>1, <2>2, <2>3
<1> QED BY <1>3, <1>4 DEF CreatesAnId

(* A guarded counter of requests stays within its bound.                   *)
LEMMA OneMoreRequest ==
  ASSUME TypeInv, Request
  PROVE  requests' \in 0 .. MaxRequests /\ faults' \in 0 .. MaxFaults
<1>1. requests \in 0 .. MaxRequests /\ faults \in 0 .. MaxFaults
  BY DEF TypeInv, TypeOK
<1>2. MaxRequests \in Nat /\ MaxFaults \in Nat
  BY RoomAssumption
<1> QED BY <1>1, <1>2 DEF Request

(* The same for the counter of faults.                                     *)
LEMMA OneMoreFault ==
  ASSUME TypeInv, Fault
  PROVE  requests' \in 0 .. MaxRequests /\ faults' \in 0 .. MaxFaults
<1>1. requests \in 0 .. MaxRequests /\ faults \in 0 .. MaxFaults
  BY DEF TypeInv, TypeOK
<1>2. MaxRequests \in Nat /\ MaxFaults \in Nat
  BY RoomAssumption
<1> QED BY <1>1, <1>2 DEF Fault

(* A session that holds what it read, for an enter request of t.           *)
LEMMA ReadTypes ==
  ASSUME TypeInv, NEW c \in Cmds, NEW u \in Users, NEW t \in Tids \cup {None},
         Read(u, t) \in Info, c = "enter" => t \in Tids,
         asked' = [asked EXCEPT ![c][u] = Read(u, t)]
  PROVE  asked' \in [Cmds -> [Users -> Info \cup {None}]] /\ EntersAnId'
<1>1. asked \in [Cmds -> [Users -> Info \cup {None}]]
  BY DEF TypeInv, TypeOK
<1>2. asked' = [asked EXCEPT ![c] = [asked[c] EXCEPT ![u] = Read(u, t)]]
  OBVIOUS
<1>3. ASSUME NEW v \in Users
      PROVE  \/ asked'["enter"][v] = asked["enter"][v]
             \/ c = "enter" /\ asked'["enter"][v] = Read(u, t)
  BY <1>1, <1>2 DEF Cmds
<1>4. Read(u, t).want = t
  BY DEF Read
<1>5. EntersAnId'
  BY <1>3, <1>4 DEF EntersAnId, TypeInv
<1> QED BY <1>1, <1>2, <1>5

(* A read that begins is recorded for its command and user.                *)
LEMMA AskTypes ==
  ASSUME TypeInv, NEW c \in Cmds, NEW u \in Users, NEW t \in Tids \cup {None}, Ask(c, u, t),
         c = "enter" => t \in Tids
  PROVE  TypeInv'
<1>1. Read(u, t) \in Info
  <2>1. createTable[u] \in Tids \cup {None} /\ pos[u] \in Places
    BY DEF TypeInv, TypeOK
  <2> QED BY <2>1 DEF Read, Info
<1>2. asked' \in [Cmds -> [Users -> Info \cup {None}]] /\ EntersAnId'
  BY <1>1, ReadTypes DEF Ask
<1>3. CreatesAnId'
  BY DEF TypeInv, CreatesAnId, Ask, atUser
<1>4. requests' \in 0 .. MaxRequests /\ faults' \in 0 .. MaxFaults
  BY OneMoreRequest DEF Ask
<1>5. UNCHANGED << ids, redis, games, clears, forwards, atUser, atGame, strayed >>
  BY DEF Ask
<1> QED BY <1>2, <1>3, <1>4, <1>5 DEF TypeInv, TypeOK, ids, redis, games, atUser, atGame

(* A read that ends is forgotten.                                          *)
LEMMA DropTypes ==
  ASSUME TypeInv, NEW c \in Cmds, NEW u \in Users, Drop(c, u)
  PROVE  asked' \in [Cmds -> [Users -> Info \cup {None}]] /\ EntersAnId'
<1>1. asked \in [Cmds -> [Users -> Info \cup {None}]]
  BY DEF TypeInv, TypeOK
<1>2. asked' = [asked EXCEPT ![c] = [asked[c] EXCEPT ![u] = None]]
  BY DEF Drop
<1>3. ASSUME NEW v \in Users, asked'["enter"][v] # None
      PROVE  asked'["enter"][v] = asked["enter"][v]
  BY <1>1, <1>2, <1>3 DEF Cmds
<1>4. EntersAnId'
  BY <1>3 DEF EntersAnId, TypeInv
<1> QED BY <1>1, <1>2, <1>4

(* Taking an id moves it out of the free list.                             *)
LEMMA AllocTypes ==
  ASSUME TypeInv, NEW t \in Tids, AllocNewTableID(t)
  PROVE  alloced' \subseteq Tids /\ stale' \subseteq alloced' /\ free' \in [Tids -> Nat]
<1>1. /\ alloced \subseteq Tids /\ stale \subseteq alloced
      /\ free \in [Tids -> Nat] /\ free[t] \in Nat /\ free[t] > 0
  BY DEF TypeInv, TypeOK, AllocNewTableID
<1>2. free[t] - 1 \in Nat
  BY <1>1
<1>3. free' = [free EXCEPT ![t] = free[t] - 1]
  BY DEF AllocNewTableID
<1>4. alloced' = alloced \cup {t} /\ stale' = stale \ {t}
  BY DEF AllocNewTableID
<1> QED BY <1>1, <1>2, <1>3, <1>4

(* A binding names a real owner and a real game server.                    *)
LEMMA BindTypes ==
  ASSUME TypeInv, NEW u \in Users, NEW m, m.tid \in Tids, NEW up, BindTidForUser(u, m, up)
  PROVE  /\ owner' \in [Tids -> Users \cup {None, Gone}]
         /\ svid' \in [Tids -> Games \cup {None}]
         /\ hosted' \subseteq Tids \X Games
         /\ stale' \subseteq stale
         /\ strayed' \subseteq (Users \X {"dead game", "lost notice", "delegate", "cleared"})
                               \cup (Tids \X {"redis"})
<1>1. owner' \in [Tids -> Users \cup {None, Gone}]
  BY DEF TypeInv, TypeOK, BindTidForUser
<1>2. strayed' \subseteq (Users \X {"dead game", "lost notice", "delegate", "cleared"})
                               \cup (Tids \X {"redis"})
  <2>1. strayed' \subseteq strayed \cup {<< u, "delegate" >>}
    BY DEF BindTidForUser
  <2>2. << u, "delegate" >> \in Users \X {"dead game", "lost notice", "delegate", "cleared"}
    OBVIOUS
  <2> QED BY <2>1, <2>2 DEF TypeInv, TypeOK
<1>3. CASE /\ svid' = IF up THEN [svid EXCEPT ![m.tid] = None] ELSE svid
           /\ UNCHANGED stale /\ UNCHANGED hosted
  BY <1>1, <1>2, <1>3 DEF TypeInv, TypeOK
<1>4. CASE /\ \E g \in running :
                /\ svid' = IF up THEN [svid EXCEPT ![m.tid] = g] ELSE svid
                /\ hosted' = hosted \cup {<< m.tid, g >>}
           /\ stale' = stale \ {m.tid}
  <2>1. PICK g \in running :
          /\ svid' = IF up THEN [svid EXCEPT ![m.tid] = g] ELSE svid
          /\ hosted' = hosted \cup {<< m.tid, g >>}
    BY <1>4
  <2>2. g \in Games /\ svid \in [Tids -> Games \cup {None}] /\ hosted \subseteq Tids \X Games
    BY DEF TypeInv, TypeOK
  <2>3. svid' \in [Tids -> Games \cup {None}]
    BY <2>1, <2>2
  <2>4. hosted' \subseteq Tids \X Games
    BY <2>1, <2>2
  <2> QED BY <1>1, <1>2, <1>4, <2>3, <2>4
<1> QED BY <1>3, <1>4 DEF BindTidForUser

(* A dissolution gives the ids back and leaves what it skips alone.        *)
LEMMA DissolveTypes ==
  ASSUME TypeInv, NEW ts, NEW up, DissolveTables(ts, up)
  PROVE  /\ alloced' \subseteq Tids /\ stale' \subseteq alloced' /\ free' \in [Tids -> Nat]
         /\ owner' \in [Tids -> Users \cup {None, Gone}]
         /\ svid' \in [Tids -> Games \cup {None}]
<1> DEFINE them == ts \cap alloced
<1>1. alloced' = alloced \ them /\ stale' = stale \ them
  BY DEF DissolveTables
<1>2. free' \in [Tids -> Nat]
  <2>1. free \in [Tids -> Nat]
    BY DEF TypeInv, TypeOK
  <2>2. \A t \in Tids : free[t] + 1 \in Nat
    BY <2>1
  <2> QED BY <2>1, <2>2 DEF DissolveTables
<1>3. owner' \in [Tids -> Users \cup {None, Gone}]
  BY DEF DissolveTables, TypeInv, TypeOK
<1>4. svid' \in [Tids -> Games \cup {None}]
  BY DEF DissolveTables, TypeInv, TypeOK
<1> QED BY <1>1, <1>2, <1>3, <1>4 DEF TypeInv, TypeOK

(* What a session has read is an Info.                                     *)
LEMMA SeenTypes ==
  ASSUME TypeInv, NEW c \in Cmds, NEW u \in Users, asked[c][u] # None
  PROVE  /\ asked[c][u] \in Info
         /\ asked[c][u].table \in Tids \cup {None} /\ asked[c][u].want \in Tids \cup {None}
         /\ asked[c][u].pos \in Places
<1>1. asked \in [Cmds -> [Users -> Info \cup {None}]]
  BY DEF TypeInv, TypeOK
<1>2. asked[c] \in [Users -> Info \cup {None}]
  BY <1>1
<1>3. asked[c][u] \in Info
  BY <1>2
<1> QED BY <1>3 DEF Info

(* The answers of CGetRoomTableResult and the room's other handlers, one   *)
(* lemma each: a create refused for want of chips.                         *)
LEMMA CreateNoChipsTypes ==
  ASSUME TypeInv, NEW u \in Users, CreateNoChips(u)
  PROVE  TypeInv'
<1>1. PICK t \in Tids : AllocNewTableID(t)
  BY DEF CreateNoChips
<1>2. alloced' \subseteq Tids /\ stale' \subseteq alloced' /\ free' \in [Tids -> Nat]
  BY <1>1, AllocTypes
<1>3. asked' \in [Cmds -> [Users -> Info \cup {None}]] /\ EntersAnId'
  BY DropTypes DEF CreateNoChips, Cmds
<1>4. UNCHANGED << redis, games, clears, forwards, atUser, counts, atGame, strayed >>
  BY DEF CreateNoChips
<1>5. CreatesAnId'
  BY <1>4 DEF TypeInv, CreatesAnId, atUser
<1> QED BY <1>2, <1>3, <1>4, <1>5 DEF TypeInv, TypeOK, redis, games, atUser, counts, atGame

(* A create that allocates an id and writes it.                            *)
LEMMA CreateGotTypes ==
  ASSUME TypeInv, NEW u \in Users, CreateGot(u)
  PROVE  TypeInv'
<1>1. PICK kind \in Kinds, t \in Tids :
        /\ AllocNewTableID(t)
        /\ Save(u, [ cmd |-> "create", kind |-> kind, tid |-> t, live |-> TRUE ])
  BY DEF CreateGot
<1>2. alloced' \subseteq Tids /\ stale' \subseteq alloced' /\ free' \in [Tids -> Nat]
  BY <1>1, AllocTypes
<1>3. asked' \in [Cmds -> [Users -> Info \cup {None}]] /\ EntersAnId'
  BY DropTypes DEF CreateGot, Cmds
<1>4. UNCHANGED << redis, games, clears, forwards, createTable, pos, counts, atGame, strayed >>
  BY DEF CreateGot
<1>5. [ cmd |-> "create", kind |-> kind, tid |-> t, live |-> TRUE ] \in Update
  BY DEF Update
<1>6. updates' \in [Users -> Seq(Update)] /\ CreatesAnId'
  BY <1>1, <1>5, SaveTypes
<1> QED BY <1>2, <1>3, <1>4, <1>6 DEF TypeInv, TypeOK, redis, games, counts, atGame

(* A create on behalf of others, which answers at once.                    *)
LEMMA CreateDelegatedTypes ==
  ASSUME TypeInv, NEW u \in Users, CreateDelegated(u)
  PROVE  TypeInv'
<1> DEFINE M(t) == [ cmd |-> "create", kind |-> "delegate", tid |-> t, live |-> TRUE ]
<1>1. PICK t \in Tids, up \in RedisUp("set") : AllocNewTableID(t) /\ BindTidForUser(u, M(t), up)
  BY DEF CreateDelegated
<1>2. alloced' \subseteq Tids /\ stale' \subseteq alloced' /\ free' \in [Tids -> Nat]
  BY <1>1, AllocTypes
<1>3. asked' \in [Cmds -> [Users -> Info \cup {None}]] /\ EntersAnId'
  BY DropTypes DEF CreateDelegated, Cmds
<1>4. UNCHANGED << games, clears, forwards, atUser, counts, notices >>
  BY DEF CreateDelegated
<1>5. M(t).tid \in Tids
  OBVIOUS
<1> HIDE DEF M
<1>6. /\ owner' \in [Tids -> Users \cup {None, Gone}]
      /\ svid' \in [Tids -> Games \cup {None}]
      /\ hosted' \subseteq Tids \X Games
      /\ strayed' \subseteq (Users \X {"dead game", "lost notice", "delegate", "cleared"})
                               \cup (Tids \X {"redis"})
  BY <1>1, <1>5, BindTypes
<1>7. CreatesAnId'
  BY <1>4 DEF TypeInv, CreatesAnId, atUser
<1> QED BY <1>2, <1>3, <1>4, <1>6, <1>7 DEF TypeInv, TypeOK, games, atUser, counts

(* A request that is refused only ends its session.                        *)
LEMMA RefusedTypes ==
  ASSUME TypeInv, NEW c \in Cmds, NEW u \in Users, Drop(c, u),
         UNCHANGED << ids, redis, games, clears, forwards, atUser, counts, atGame, strayed >>
  PROVE  TypeInv'
<1>1. asked' \in [Cmds -> [Users -> Info \cup {None}]] /\ EntersAnId'
  BY DropTypes
<1>2. CreatesAnId'
  BY DEF TypeInv, CreatesAnId, atUser
<1> QED BY <1>1, <1>2 DEF TypeInv, TypeOK, ids, redis, games, atUser, counts, atGame

(* A session that asks the user server for an update.                      *)
LEMMA SavedTypes ==
  ASSUME TypeInv, NEW c \in Cmds, NEW u \in Users, Drop(c, u),
         NEW m \in Update, m.cmd # "create", Save(u, m),
         UNCHANGED << ids, redis, games, clears, forwards, createTable, pos, counts, atGame,
                      strayed >>
  PROVE  TypeInv'
<1>1. asked' \in [Cmds -> [Users -> Info \cup {None}]] /\ EntersAnId'
  BY DropTypes
<1>2. updates' \in [Users -> Seq(Update)] /\ CreatesAnId'
  BY SaveTypes
<1> QED BY <1>1, <1>2 DEF TypeInv, TypeOK, ids, redis, games, counts, atGame

(* An enter request for a table that is gone.                              *)
LEMMA EnterResetTypes ==
  ASSUME TypeInv, NEW u \in Users, EnterReset(u)
  PROVE  TypeInv'
<1> DEFINE seen == asked["enter"][u]
<1>1. PICK m : m = [ cmd |-> "enter", kind |-> None, live |-> TRUE,
                     tid |-> IF seen.pos = Hall THEN seen.want
                             ELSE IF seen.table = seen.pos[1] THEN seen.table ELSE None ]
  OBVIOUS
<1>2. seen.table \in Tids \cup {None} /\ seen.want \in Tids \cup {None}
  BY SeenTypes DEF EnterReset, Cmds
<1>3. m \in Update /\ m.cmd # "create"
  BY <1>1, <1>2 DEF Update
<1>4. Save(u, m) /\ Drop("enter", u)
  BY <1>1 DEF EnterReset
<1>5. UNCHANGED << ids, redis, games, clears, forwards, createTable, pos, counts, atGame, strayed >>
  BY DEF EnterReset
<1> QED BY <1>3, <1>4, <1>5, SavedTypes DEF Cmds

(* An enter request passed on to the game that has the table.              *)
LEMMA EnterForwardedTypes ==
  ASSUME TypeInv, NEW u \in Users, EnterForwarded(u)
  PROVE  TypeInv'
<1> DEFINE seen == asked["enter"][u]
           tid == IF seen.pos = Hall THEN seen.want ELSE seen.pos[1]
<1>1. /\ seen.table \in Tids \cup {None} /\ seen.want \in Tids \cup {None}
      /\ seen.pos \in Places
  BY SeenTypes DEF EnterForwarded, Cmds
<1>2. PICK g \in Targets(seen) :
        forwards' = forwards \cup {[ uid |-> u, tid |-> tid, game |-> g, live |-> TRUE ]}
  BY DEF EnterForwarded
<1>3. asked' \in [Cmds -> [Users -> Info \cup {None}]] /\ EntersAnId'
  BY DropTypes DEF EnterForwarded, Cmds
<1>4. UNCHANGED << ids, redis, games, clears, atUser, counts, atGame, strayed >>
  BY DEF EnterForwarded
<1>5. CreatesAnId'
  BY <1>4 DEF TypeInv, CreatesAnId, atUser
<1>6. tid \in Tids /\ g \in Games
  <2>1. CASE seen.pos = Hall
    <3>1. tid \in Tids
      BY <2>1 DEF TypeInv, EntersAnId, EnterForwarded
    <3>2. svid[seen.want] \in Games \cup {None} /\ running \subseteq Games
      BY <2>1, <3>1 DEF TypeInv, TypeOK
    <3>3. Targets(seen) = IF svid[seen.want] # None THEN {svid[seen.want]} ELSE running
      BY <2>1 DEF Targets
    <3>4. g \in Games
      BY <3>2, <3>3
    <3> QED BY <3>1, <3>4
  <2>2. CASE seen.pos # Hall
    <3>1. seen.pos \in Tids \X Games
      BY <1>1, <2>2 DEF Places
    <3>2. g = seen.pos[2]
      BY <2>2 DEF Targets
    <3> QED BY <2>2, <3>1, <3>2
  <2> QED BY <2>1, <2>2
<1>7. [ uid |-> u, tid |-> tid, game |-> g, live |-> TRUE ]
        \in [uid : Users, tid : Tids, game : Games, live : BOOLEAN]
  BY <1>6
<1>8. forwards' \subseteq [uid : Users, tid : Tids, game : Games, live : BOOLEAN]
  BY <1>2, <1>7 DEF TypeInv, TypeOK
<1> QED BY <1>3, <1>4, <1>5, <1>8 DEF TypeInv, TypeOK, ids, redis, games, atUser, counts, atGame

(* Sessions stay as they are: what was read is still of the same kind.     *)
LEMMA SameReads == TypeInv /\ UNCHANGED asked => EntersAnId'
BY DEF TypeInv, EntersAnId

(* The game seats the user the room sent it.                               *)
LEMMA GameSeatsTypes ==
  ASSUME TypeInv, NEW f \in forwards, GameSeats(f)
  PROVE  TypeInv'
<1>1. f \in [uid : Users, tid : Tids, game : Games, live : BOOLEAN]
  BY DEF TypeInv, TypeOK
<1>2. f.uid \in Users /\ f.tid \in Tids /\ f.game \in Games /\ << f.tid, f.game >> \in Places
      /\ << f.tid, f.game >> \in Tids \X Games
  BY <1>1 DEF Places
<1>3. /\ hosted' = hosted \cup {<< f.tid, f.game >>}
      /\ pos' = [pos EXCEPT ![f.uid] = << f.tid, f.game >>]
      /\ forwards' = forwards \ {f}
      /\ UNCHANGED << alloced, free, owner, games, asked, clears, createTable, updates,
                      counts, notices, strayed >>
  BY DEF GameSeats
<1>4. PICK up \in RedisUp("set") :
        IF f.live THEN /\ stale' = stale \ {f.tid}
                       /\ svid' = IF up THEN [svid EXCEPT ![f.tid] = f.game] ELSE svid
                  ELSE UNCHANGED << stale, svid >>
  BY DEF GameSeats
<1>5. stale' \subseteq stale
  BY <1>4
<1>6. svid' \in [Tids -> Games \cup {None}]
  <2>1. svid \in [Tids -> Games \cup {None}]
    BY DEF TypeInv, TypeOK
  <2> QED BY <1>2, <1>4, <2>1
<1>7. pos' \in [Users -> Places]
  BY <1>2, <1>3 DEF TypeInv, TypeOK
<1>8. hosted' \subseteq Tids \X Games
  <2>1. hosted \subseteq Tids \X Games
    BY DEF TypeInv, TypeOK
  <2> QED BY <1>2, <1>3, <2>1
<1>9. CreatesAnId' /\ EntersAnId'
  BY <1>3, SameReads DEF TypeInv, CreatesAnId
<1> QED BY <1>3, <1>5, <1>6, <1>7, <1>8, <1>9 DEF TypeInv, TypeOK, games, counts

(* The game refuses him.                                                   *)
LEMMA GameRefusesTypes ==
  ASSUME TypeInv, NEW f \in forwards, GameRefuses(f)
  PROVE  TypeInv'
<1>1. CreatesAnId' /\ EntersAnId'
  BY SameReads DEF TypeInv, CreatesAnId, GameRefuses, atUser
<1> QED BY <1>1 DEF TypeInv, TypeOK, GameRefuses, ids, redis, games, atUser, counts, atGame

(* The game dissolves a table it hosts.                                    *)
LEMMA GameDissolvesTypes ==
  ASSUME TypeInv, NEW t \in Tids, NEW g \in Games, GameDissolves(t, g)
  PROVE  TypeInv'
<1>1. /\ pos' = [ u \in Users |-> IF pos[u] = << t, g >> THEN Hall ELSE pos[u] ]
      /\ createTable' = [ u \in Users |-> IF createTable[u] = t THEN None ELSE createTable[u] ]
      /\ hosted' = hosted \ {<< t, g >>} /\ notices' = notices \cup {t}
      /\ UNCHANGED << ids, redis, games, sessions, updates, counts, strayed >>
  BY DEF GameDissolves
<1>2. pos' \in [Users -> Places]
  BY <1>1 DEF TypeInv, TypeOK, Places
<1>3. createTable' \in [Users -> Tids \cup {None}]
  BY <1>1 DEF TypeInv, TypeOK
<1>4. CreatesAnId' /\ EntersAnId'
  BY <1>1, SameReads DEF TypeInv, CreatesAnId, sessions
<1> QED BY <1>1, <1>2, <1>3, <1>4 DEF TypeInv, TypeOK, ids, redis, games, sessions, counts

(* The marks a dissolution leaves when Redis fails are marks of ids.       *)
LEMMA UndeletedTypes ==
  ASSUME TypeInv, NEW ts, NEW up,
         strayed' = strayed \cup (IF up THEN {} ELSE Undeleted(ts))
  PROVE  strayed' \subseteq (Users \X {"dead game", "lost notice", "delegate", "cleared"})
                               \cup (Tids \X {"redis"})
<1>1. Undeleted(ts) \subseteq Tids \X {"redis"}
  BY DEF Undeleted, Owned, TypeInv, TypeOK
<1> QED BY <1>1 DEF TypeInv, TypeOK

(* The room hears of a dissolution.                                        *)
LEMMA TableDissolvedTypes ==
  ASSUME TypeInv, NEW t \in Tids, TableDissolved(t)
  PROVE  TypeInv'
<1>1. PICK up \in RedisUp("del") :
        /\ DissolveTables({t}, up)
        /\ strayed' = strayed \cup (IF up THEN {} ELSE Undeleted({t}))
  BY DEF TableDissolved
<1>2. notices' = notices \ {t} /\ UNCHANGED << games, sessions, atUser, counts, hosted >>
  BY DEF TableDissolved
<1>3. CreatesAnId' /\ EntersAnId'
  BY <1>2, SameReads DEF TypeInv, CreatesAnId, sessions, atUser
<1> QED BY <1>1, <1>2, <1>3, DissolveTypes, UndeletedTypes
    DEF TypeInv, TypeOK, games, sessions, atUser, counts

(* A day passes over a table nobody dissolved.                             *)
LEMMA DayTypes ==
  ASSUME TypeInv, NEW t \in Tids, Day(t)
  PROVE  TypeInv'
<1>1. CreatesAnId' /\ EntersAnId'
  BY SameReads DEF TypeInv, CreatesAnId, Day, sessions, atUser
<1> QED BY <1>1 DEF TypeInv, TypeOK, Day, redis, games, sessions, atUser, counts, atGame

(* How many recycled ids a user owned: there are finitely many ids.        *)
LEMMA OwnedCount ==
  ASSUME TypeInv, NEW u \in Users
  PROVE  Cardinality({ t \in Recycled : owner[t] = u }) \in Nat
<1>1. { t \in Recycled : owner[t] = u } \subseteq Tids
  BY DEF Recycled, TypeInv, TypeOK
<1>2. IsFiniteSet(Tids)
  BY RoomAssumption
<1> QED BY <1>1, <1>2, FS_Subset, FS_CardinalityType

(* The timer that takes back the stale tables.                             *)
LEMMA RecycleTimerTypes ==
  ASSUME TypeInv, RecycleTimer
  PROVE  TypeInv'
<1>1. PICK up \in RedisUp("del") :
        /\ DissolveTables(Recycled, up)
        /\ strayed' = strayed \cup (IF up THEN {} ELSE Undeleted(Recycled))
  BY DEF RecycleTimer
<1>2. clears' = [ u \in Users |-> clears[u] + Cardinality({ t \in Recycled : owner[t] = u }) ]
  BY DEF RecycleTimer
<1>3. \A u \in Users : clears[u] + Cardinality({ t \in Recycled : owner[t] = u }) \in Nat
  <2> TAKE u \in Users
  <2>1. clears[u] \in Nat
    BY DEF TypeInv, TypeOK
  <2> QED BY <2>1, OwnedCount
<1>4. clears' \in [Users -> Nat]
  BY <1>2, <1>3
<1>5. UNCHANGED << games, asked, forwards, atUser, counts, atGame >>
  BY DEF RecycleTimer
<1>6. CreatesAnId' /\ EntersAnId'
  BY <1>5, SameReads DEF TypeInv, CreatesAnId, atUser
<1> QED BY <1>1, <1>4, <1>5, <1>6, DissolveTypes, UndeletedTypes
    DEF TypeInv, TypeOK, games, atUser, counts, atGame

(* A user asks to be cleared of his table.                                 *)
LEMMA ClearAskedTypes ==
  ASSUME TypeInv, NEW u \in Users, ClearAsked(u)
  PROVE  TypeInv'
<1>1. clears \in [Users -> Nat] /\ clears[u] > 0 /\ clears' = [clears EXCEPT ![u] = clears[u] - 1]
  BY DEF TypeInv, TypeOK, ClearAsked
<1>2. clears[u] - 1 \in Nat
  BY <1>1
<1>3. clears' \in [Users -> Nat]
  BY <1>1, <1>2
<1>4. createTable[u] \in Tids \cup {None} /\ pos[u] \in Places
  BY DEF TypeInv, TypeOK
<1>5. Read(u, None) \in Info
  BY <1>4 DEF Read, Info
<1>6. asked' \in [Cmds -> [Users -> Info \cup {None}]] /\ EntersAnId'
  BY <1>5, ReadTypes DEF ClearAsked, Cmds
<1>7. UNCHANGED << ids, redis, games, forwards, atUser, counts, atGame, strayed >>
  BY DEF ClearAsked
<1>8. CreatesAnId'
  BY <1>7 DEF TypeInv, CreatesAnId, atUser
<1> QED BY <1>3, <1>6, <1>7, <1>8 DEF TypeInv, TypeOK, ids, redis, games, atUser, counts, atGame

(* What the room read is used for the clearing.                            *)
LEMMA ClearGotTypes ==
  ASSUME TypeInv, NEW u \in Users, ClearGot(u)
  PROVE  TypeInv'
<1> DEFINE m == [ cmd |-> "clear", kind |-> None, tid |-> None, live |-> TRUE ]
<1>1. m \in Update /\ m.cmd # "create"
  BY DEF Update
<1>2. Drop("clear", u)
  BY DEF ClearGot
<1>3. UNCHANGED << ids, redis, games, clears, forwards, createTable, pos, counts, atGame, strayed >>
  BY DEF ClearGot
<1>4. CASE asked["clear"][u].pos # Hall
  <2>1. UNCHANGED updates
    BY <1>4 DEF ClearGot
  <2> QED BY <1>2, <1>3, <2>1, RefusedTypes DEF Cmds, atUser
<1>5. CASE asked["clear"][u].pos = Hall
  <2>1. Save(u, m)
    BY <1>5 DEF ClearGot
  <2> HIDE DEF m
  <2> QED BY <1>1, <1>2, <1>3, <2>1, SavedTypes DEF Cmds
<1> QED BY <1>4, <1>5

(* A game server reports, retires or closes.                               *)
LEMMA GamesTypes ==
  ASSUME TypeInv, NEW g \in Games, ReportGame(g) \/ RetireGame(g) \/ CloseGame(g)
  PROVE  TypeInv'
<1>1. UNCHANGED << ids, redis, sessions, atUser, notices, strayed >>
  BY DEF ReportGame, RetireGame, CloseGame, GamesOnly
<1>2. running' \subseteq Games /\ retired' \subseteq Games
  BY DEF ReportGame, RetireGame, CloseGame, TypeInv, TypeOK, IsGameExist
<1>3. hosted' \subseteq Tids \X Games
  BY DEF ReportGame, RetireGame, CloseGame, TypeInv, TypeOK
<1>4. requests' \in 0 .. MaxRequests /\ faults' \in 0 .. MaxFaults
  <2>1. CASE Fault
    BY <2>1, OneMoreFault
  <2>2. CASE UNCHANGED counts
    BY <2>2 DEF counts, TypeInv, TypeOK
  <2> QED BY <2>1, <2>2 DEF ReportGame, RetireGame, CloseGame
<1>5. CreatesAnId' /\ EntersAnId'
  BY <1>1, SameReads DEF TypeInv, CreatesAnId, sessions, atUser
<1> QED BY <1>1, <1>2, <1>3, <1>4, <1>5 DEF TypeInv, TypeOK, ids, redis, sessions, atUser

(* The updates of sessions that ended: the same, but nobody waits.         *)
LEMMA ExpiredTypes ==
  ASSUME NEW s \in Seq(Update), NEW r,
         r = [ i \in DOMAIN s |-> r[i] ],
         \A i \in DOMAIN s : r[i] = s[i] \/ r[i] = [s[i] EXCEPT !.live = FALSE]
  PROVE  /\ r \in Seq(Update)
         /\ \A i \in DOMAIN s : r[i].cmd = s[i].cmd /\ r[i].kind = s[i].kind /\ r[i].tid = s[i].tid
<1>1. DOMAIN s = 1 .. Len(s) /\ Len(s) \in Nat
  OBVIOUS
<1>2. ASSUME NEW i \in DOMAIN s
      PROVE  /\ r[i] \in Update
             /\ r[i].cmd = s[i].cmd /\ r[i].kind = s[i].kind /\ r[i].tid = s[i].tid
  <2>1. s[i] \in Update
    BY <1>1, <1>2
  <2>2. [s[i] EXCEPT !.live = FALSE] \in Update
    BY <2>1 DEF Update
  <2>3. LET e == [s[i] EXCEPT !.live = FALSE]
        IN  e.cmd = s[i].cmd /\ e.kind = s[i].kind /\ e.tid = s[i].tid
    BY <2>1 DEF Update
  <2> QED BY <2>1, <2>2, <2>3
<1>3. r \in [1 .. Len(s) -> Update]
  BY <1>1, <1>2
<1>4. r \in Seq(Update)
  BY <1>1, <1>3
<1> QED BY <1>2, <1>4

(* What SessionTimeout and Restart leave of the updates on their way.      *)
LEMMA ExpiredQueues ==
  ASSUME TypeInv, updates' = [ u \in Users |-> updates'[u] ],
         \A u \in Users :
           /\ updates'[u] = [ i \in DOMAIN updates[u] |-> updates'[u][i] ]
           /\ \A i \in DOMAIN updates[u] :
                updates'[u][i] = updates[u][i]
                \/ updates'[u][i] = [updates[u][i] EXCEPT !.live = FALSE]
  PROVE  /\ updates' \in [Users -> Seq(Update)] /\ CreatesAnId'
         /\ \A u \in Users : \A i \in DOMAIN updates'[u] :
              /\ i \in DOMAIN updates[u]
              /\ updates'[u][i].cmd = updates[u][i].cmd
              /\ updates'[u][i].kind = updates[u][i].kind
              /\ updates'[u][i].tid = updates[u][i].tid
              /\ updates'[u][i].live => updates[u][i].live
<1>1. ASSUME NEW u \in Users
      PROVE  /\ updates'[u] \in Seq(Update) /\ DOMAIN updates'[u] = DOMAIN updates[u]
             /\ \A i \in DOMAIN updates[u] :
                  /\ updates'[u][i].cmd = updates[u][i].cmd
                  /\ updates'[u][i].kind = updates[u][i].kind
                  /\ updates'[u][i].tid = updates[u][i].tid
  <2>1. updates[u] \in Seq(Update)
    BY DEF TypeInv, TypeOK
  <2>2. PICK r, s : r = updates'[u] /\ s = updates[u]
    OBVIOUS
  <2>3. s \in Seq(Update) /\ r = [ i \in DOMAIN s |-> r[i] ] /\ DOMAIN r = DOMAIN s
    BY <2>1, <2>2
  <2>4. \A i \in DOMAIN s : r[i] = s[i] \/ r[i] = [s[i] EXCEPT !.live = FALSE]
    BY <2>2
  <2>5. /\ r \in Seq(Update)
        /\ \A i \in DOMAIN s :
             r[i].cmd = s[i].cmd /\ r[i].kind = s[i].kind /\ r[i].tid = s[i].tid
    BY ONLY <2>3, <2>4, ExpiredTypes
  <2> QED BY <2>2, <2>3, <2>5
<1>2. updates' \in [Users -> Seq(Update)]
  BY <1>1
<1>3. CreatesAnId'
  BY <1>1 DEF TypeInv, CreatesAnId
<1>4. ASSUME NEW u \in Users, NEW i \in DOMAIN updates[u], updates'[u][i].live
      PROVE  updates[u][i].live
  <2>1. updates[u][i] \in Update
    <3>1. updates[u] \in Seq(Update)
      BY DEF TypeInv, TypeOK
    <3> QED BY <1>4, <3>1
  <2>2. [updates[u][i] EXCEPT !.live = FALSE].live = FALSE
    BY <2>1 DEF Update
  <2> QED BY <1>4, <2>2
<1> QED BY <1>1, <1>2, <1>3, <1>4

(* An expired session stays in its user's queue, only no longer live.      *)
LEMMA SessionTimeoutQueues ==
  ASSUME TypeInv, NEW c \in Cmds, NEW u \in Users, SessionTimeout(c, u)
  PROVE  /\ updates' \in [Users -> Seq(Update)] /\ CreatesAnId'
         /\ \A x \in Users : \A i \in DOMAIN updates'[x] :
              /\ i \in DOMAIN updates[x]
              /\ updates'[x][i].cmd = updates[x][i].cmd
              /\ updates'[x][i].kind = updates[x][i].kind
              /\ updates'[x][i].tid = updates[x][i].tid
              /\ updates'[x][i].live => updates[x][i].live
<1>1. updates \in [Users -> Seq(Update)]
  BY DEF TypeInv, TypeOK
<1>2. updates' = [updates EXCEPT ![u] =
        [ i \in DOMAIN updates[u] |-> IF updates[u][i].cmd = c
             THEN [updates[u][i] EXCEPT !.live = FALSE] ELSE updates[u][i] ]]
  BY DEF SessionTimeout
<1>3. updates' = [ x \in Users |-> updates'[x] ]
  BY <1>1, <1>2
<1>4. ASSUME NEW x \in Users
      PROVE  /\ updates'[x] = [ i \in DOMAIN updates[x] |-> updates'[x][i] ]
             /\ \A i \in DOMAIN updates[x] :
                  updates'[x][i] = updates[x][i]
                  \/ updates'[x][i] = [updates[x][i] EXCEPT !.live = FALSE]
  <2>1. CASE x = u
    BY <1>1, <1>2, <2>1
  <2>2. CASE x # u
    <3>1. updates'[x] = updates[x] /\ updates[x] \in Seq(Update)
      BY <1>1, <1>2, <2>2
    <3>2. updates[x] = [ i \in DOMAIN updates[x] |-> updates[x][i] ]
      BY <3>1
    <3> QED BY <3>1, <3>2
  <2> QED BY <2>1, <2>2
<1> QED BY <1>3, <1>4, ExpiredQueues

(* The updates under way survive a restart of the room, with nobody left to*)
(* hear their answers.                                                     *)
LEMMA RestartQueues ==
  ASSUME TypeInv, Restart
  PROVE  /\ updates' \in [Users -> Seq(Update)] /\ CreatesAnId'
         /\ \A u \in Users : \A i \in DOMAIN updates'[u] :
              /\ i \in DOMAIN updates[u]
              /\ updates'[u][i].cmd = updates[u][i].cmd
              /\ updates'[u][i].kind = updates[u][i].kind
              /\ updates'[u][i].tid = updates[u][i].tid
              /\ ~updates'[u][i].live
<1>1. updates \in [Users -> Seq(Update)]
  BY DEF TypeInv, TypeOK
<1>2. updates' = [ u \in Users |->
        [ i \in DOMAIN updates[u] |-> [updates[u][i] EXCEPT !.live = FALSE] ]]
  BY DEF Restart
<1>3. updates' = [ u \in Users |-> updates'[u] ]
  BY <1>2
<1>4. \A u \in Users :
        /\ updates'[u] = [ i \in DOMAIN updates[u] |-> updates'[u][i] ]
        /\ \A i \in DOMAIN updates[u] :
             updates'[u][i] = [updates[u][i] EXCEPT !.live = FALSE]
  BY <1>2
<1>5. /\ updates' \in [Users -> Seq(Update)] /\ CreatesAnId'
      /\ \A u \in Users : \A i \in DOMAIN updates'[u] :
              /\ i \in DOMAIN updates[u]
              /\ updates'[u][i].cmd = updates[u][i].cmd
              /\ updates'[u][i].kind = updates[u][i].kind
              /\ updates'[u][i].tid = updates[u][i].tid
  BY <1>3, <1>4, ExpiredQueues
<1>6. ASSUME NEW u \in Users, NEW i \in DOMAIN updates'[u]
      PROVE  ~updates'[u][i].live
  <2>1. i \in DOMAIN updates[u]
    BY <1>5, <1>6
  <2>2. updates[u][i] \in Update
    BY <1>1, <2>1
  <2>3. [updates[u][i] EXCEPT !.live = FALSE].live = FALSE
    BY <2>2 DEF Update
  <2> QED BY <1>4, <2>1, <2>3
<1> QED BY <1>5, <1>6

(* An enter request of a session that ended is the same request.           *)
LEMMA ExpiredForward ==
  ASSUME NEW f \in [uid : Users, tid : Tids, game : Games, live : BOOLEAN]
  PROVE  LET e == [f EXCEPT !.live = FALSE]
         IN  /\ e \in [uid : Users, tid : Tids, game : Games, live : BOOLEAN]
             /\ e.uid = f.uid /\ e.tid = f.tid
OBVIOUS

(* A session that expires keeps the types.                                 *)
LEMMA SessionTimeoutTypes ==
  ASSUME TypeInv, NEW c \in Cmds, NEW u \in Users, SessionTimeout(c, u)
  PROVE  TypeInv'
<1>1. updates' \in [Users -> Seq(Update)] /\ CreatesAnId'
  BY SessionTimeoutQueues
<1>2. asked' \in [Cmds -> [Users -> Info \cup {None}]] /\ EntersAnId'
  BY DropTypes DEF SessionTimeout, Drop
<1>3. forwards \subseteq [uid : Users, tid : Tids, game : Games, live : BOOLEAN]
  BY DEF TypeInv, TypeOK
<1>4. \A f \in forwards :
        [f EXCEPT !.live = FALSE] \in [uid : Users, tid : Tids, game : Games, live : BOOLEAN]
  BY <1>3, ExpiredForward
<1>5. forwards' \subseteq [uid : Users, tid : Tids, game : Games, live : BOOLEAN]
  BY <1>3, <1>4 DEF SessionTimeout
<1>6. requests' \in 0 .. MaxRequests /\ faults' \in 0 .. MaxFaults
  BY OneMoreFault DEF SessionTimeout
<1>7. UNCHANGED << ids, redis, games, clears, createTable, pos, atGame, strayed >>
  BY DEF SessionTimeout
<1> QED BY <1>1, <1>2, <1>5, <1>6, <1>7 DEF TypeInv, TypeOK, ids, redis, games, atGame

(* A restart keeps the types.                                              *)
LEMMA RestartTypes ==
  ASSUME TypeInv, Restart
  PROVE  TypeInv'
<1>1. updates' \in [Users -> Seq(Update)] /\ CreatesAnId'
  BY RestartQueues
<1>2. asked' = [ c \in Cmds |-> [ u \in Users |-> None ] ]
  BY DEF Restart
<1>3. asked' \in [Cmds -> [Users -> Info \cup {None}]] /\ EntersAnId'
  BY <1>2 DEF EntersAnId, Cmds
<1>4. forwards \subseteq [uid : Users, tid : Tids, game : Games, live : BOOLEAN]
  BY DEF TypeInv, TypeOK
<1>5. \A f \in forwards :
        [f EXCEPT !.live = FALSE] \in [uid : Users, tid : Tids, game : Games, live : BOOLEAN]
  BY <1>4, ExpiredForward
<1>6. forwards' \subseteq [uid : Users, tid : Tids, game : Games, live : BOOLEAN]
  BY <1>4, <1>5 DEF Restart
<1>7. requests' \in 0 .. MaxRequests /\ faults' \in 0 .. MaxFaults
  BY OneMoreFault DEF Restart
<1>8. PICK lost \in SUBSET notices :
        notices' = notices \ lost /\ strayed' = strayed \cup Unheard(lost)
  BY DEF Restart
<1>9. Unheard(lost) \subseteq Users \X {"dead game", "lost notice", "delegate", "cleared"}
  <2> SUFFICES ASSUME NEW x \in Unheard(lost)
               PROVE  x \in Users \X {"dead game", "lost notice", "delegate", "cleared"}
    OBVIOUS
  <2>1. PICK t \in Owned(lost) : x = << owner[t], "lost notice" >>
    BY DEF Unheard
  <2>2. owner[t] \in Users
    BY <2>1 DEF Owned
  <2> QED BY <2>1, <2>2
<1>10. alloced' \subseteq Tids /\ stale' \subseteq alloced' /\ free' \in [Tids -> Nat]
  BY FromRedis DEF Restart, RestartedIds
<1>11. UNCHANGED << redis, createTable, pos, hosted >>
  BY DEF Restart
<1>12. running' = {} /\ retired' = {} /\ clears' = [ u \in Users |-> 0 ]
  BY DEF Restart
<1>13. strayed' \subseteq (Users \X {"dead game", "lost notice", "delegate", "cleared"})
                               \cup (Tids \X {"redis"})
  BY <1>8, <1>9 DEF TypeInv, TypeOK
<1>14. clears' \in [Users -> Nat]
  BY <1>12
<1> QED BY <1>1, <1>3, <1>6, <1>7, <1>8, <1>10, <1>11, <1>12, <1>13, <1>14 DEF TypeInv, TypeOK, redis

(* The queue of a user whose first update is done.                         *)
LEMMA HeadDone ==
  ASSUME TypeInv, NEW u \in Users, updates[u] # << >>,
         updates' = [updates EXCEPT ![u] = Tail(@)]
  PROVE  /\ updates' \in [Users -> Seq(Update)]
         /\ Head(updates[u]) = updates[u][1] /\ 1 \in DOMAIN updates[u]
         /\ updates[u][1] \in Update
         /\ \A x \in Users : x # u => updates'[x] = updates[x]
         /\ \A i \in DOMAIN updates'[u] :
              i \in Nat /\ i + 1 \in DOMAIN updates[u] /\ updates'[u][i] = updates[u][i + 1] /\ i + 1 # 1
<1>1. updates \in [Users -> Seq(Update)]
  BY DEF TypeInv, TypeOK
<1>2. PICK s \in Seq(Update) : s = updates[u]
  BY <1>1
<1>3. s # << >>
  BY <1>2
<1>4. /\ Tail(s) \in Seq(Update) /\ Head(s) = s[1] /\ 1 \in DOMAIN s /\ s[1] \in Update
      /\ \A i \in DOMAIN Tail(s) :
           i \in Nat /\ i + 1 \in DOMAIN s /\ Tail(s)[i] = s[i + 1] /\ i + 1 # 1
  BY <1>3
<1>5. updates' = [updates EXCEPT ![u] = Tail(s)]
  BY <1>2
<1>6. updates'[u] = Tail(s)
  BY <1>1, <1>5
<1>7. \A x \in Users : x # u => updates'[x] = updates[x]
  BY <1>1, <1>5
<1>8. updates' \in [Users -> Seq(Update)]
  BY <1>1, <1>4, <1>5
<1> QED BY <1>2, <1>4, <1>6, <1>7, <1>8

(* What an update does to Create_Table and POS of its user, and to the     *)
(* ids when its session goes on.                                           *)
LEMMA UpdateAtUserTypes ==
  ASSUME TypeInv, NEW u \in Users, UpdateAtUser(u)
  PROVE  TypeInv'
<1>1. PICK m : m = updates[u][1]
  OBVIOUS
<1>2. updates[u] # << >> /\ updates' = [updates EXCEPT ![u] = Tail(@)]
  BY DEF UpdateAtUser
<1>3. /\ updates' \in [Users -> Seq(Update)] /\ Head(updates[u]) = m /\ m \in Update
      /\ 1 \in DOMAIN updates[u]
  BY <1>1, <1>2, HeadDone
<1>4. /\ createTable' = [createTable EXCEPT ![u] =
            IF m.cmd = "create" THEN IF m.kind = "delegate" THEN @ ELSE m.tid
            ELSE IF m.cmd = "enter" /\ m.tid = None THEN @ ELSE None]
      /\ pos' = IF m.cmd = "create" THEN pos ELSE [pos EXCEPT ![u] = Hall]
      /\ IF m.cmd = "create" /\ m.live
         THEN (\E up \in RedisUp("set") : BindTidForUser(u, m, up)) /\ UNCHANGED << alloced, free >>
         ELSE /\ strayed' = strayed \cup
                   (IF createTable'[u] = None /\ Hits(u, m)
                    THEN {<< u, IF m.cmd = "clear" THEN "cleared" ELSE "dead game" >>}
                    ELSE {})
              /\ UNCHANGED << ids, redis, hosted >>
  BY <1>3 DEF UpdateAtUser
<1>5. UNCHANGED << games, sessions, counts, notices >>
  BY DEF UpdateAtUser
<1>6. m.tid \in Tids \cup {None} /\ (m.cmd = "create" => m.tid \in Tids)
  BY <1>1, <1>3 DEF Update, TypeInv, CreatesAnId
<1>7. createTable' \in [Users -> Tids \cup {None}]
  <2>1. createTable \in [Users -> Tids \cup {None}]
    BY DEF TypeInv, TypeOK
  <2> QED BY <1>4, <1>6, <2>1
<1>8. pos' \in [Users -> Places]
  <2>1. pos \in [Users -> Places] /\ Hall \in Places
    BY DEF TypeInv, TypeOK, Places
  <2> QED BY <1>4, <2>1
<1>9. CreatesAnId' /\ EntersAnId'
  <2>1. EntersAnId'
    BY <1>5, SameReads DEF sessions
  <2>2. ASSUME NEW x \in Users, NEW i \in DOMAIN updates'[x], updates'[x][i].cmd = "create"
        PROVE  updates'[x][i].tid \in Tids
    <3>1. CASE x # u
      BY <1>2, <2>2, <3>1, HeadDone DEF TypeInv, CreatesAnId
    <3>2. CASE x = u
      <4>1. i + 1 \in DOMAIN updates[u] /\ updates'[u][i] = updates[u][i + 1]
        BY <1>2, <2>2, <3>2, HeadDone
      <4> QED BY <2>2, <3>2, <4>1 DEF TypeInv, CreatesAnId
    <3> QED BY <3>1, <3>2
  <2>3. CreatesAnId'
    BY <2>2 DEF CreatesAnId
  <2> QED BY <2>1, <2>3
<1>10. /\ alloced' \subseteq Tids /\ stale' \subseteq alloced' /\ free' \in [Tids -> Nat]
       /\ owner' \in [Tids -> Users \cup {None, Gone}]
       /\ svid' \in [Tids -> Games \cup {None}]
       /\ hosted' \subseteq Tids \X Games
       /\ strayed' \subseteq (Users \X {"dead game", "lost notice", "delegate", "cleared"})
                               \cup (Tids \X {"redis"})
  <2>1. CASE m.cmd = "create" /\ m.live
    <3>1. PICK up \in RedisUp("set") : BindTidForUser(u, m, up)
      BY <1>4, <2>1
    <3>2. UNCHANGED << alloced, free >>
      BY <1>4, <2>1
    <3>3. /\ owner' \in [Tids -> Users \cup {None, Gone}]
          /\ svid' \in [Tids -> Games \cup {None}]
          /\ hosted' \subseteq Tids \X Games /\ stale' \subseteq stale
          /\ strayed' \subseteq (Users \X {"dead game", "lost notice", "delegate", "cleared"})
                               \cup (Tids \X {"redis"})
      BY <1>6, <2>1, <3>1, BindTypes
    <3> QED BY <3>2, <3>3 DEF TypeInv, TypeOK
  <2>2. CASE ~(m.cmd = "create" /\ m.live)
    <3>1. strayed' \subseteq strayed \cup {<< u, "cleared" >>, << u, "dead game" >>}
      BY <1>4, <2>2
    <3>2. UNCHANGED << ids, redis, hosted >>
      BY <1>4, <2>2
    <3>3. /\ << u, "cleared" >> \in Users \X {"dead game", "lost notice", "delegate", "cleared"}
          /\ << u, "dead game" >> \in Users \X {"dead game", "lost notice", "delegate", "cleared"}
      OBVIOUS
    <3> QED BY <3>1, <3>2, <3>3 DEF TypeInv, TypeOK, ids, redis
  <2> QED BY <2>1, <2>2
<1> QED BY <1>3, <1>5, <1>7, <1>8, <1>9, <1>10 DEF TypeInv, TypeOK, games, sessions, counts

(* Every step keeps the types.                                             *)
LEMMA TypesNext == TypeInv /\ [Next]_vars => TypeInv'
<1> SUFFICES ASSUME TypeInv, [Next]_vars PROVE TypeInv'
  OBVIOUS
<1>1. ASSUME NEW u \in Users,
              \/ RequestCreate(u) \/ \E t \in Tids : RequestEnter(u, t)
              \/ CreateRefused(u) \/ CreateNoChips(u) \/ CreateGot(u) \/ CreateDelegated(u)
              \/ EnterReset(u) \/ EnterForwarded(u) \/ EnterFails(u)
              \/ UpdateAtUser(u) \/ ClearAsked(u) \/ ClearGot(u)
              \/ \E c \in Cmds : SessionTimeout(c, u)
      PROVE  TypeInv'
  <2>1. CASE RequestCreate(u)
    BY <2>1, AskTypes DEF RequestCreate, Cmds
  <2>2. CASE \E t \in Tids : RequestEnter(u, t)
    BY <2>2, AskTypes DEF RequestEnter, Cmds
  <2>3. CASE CreateRefused(u)
    BY <2>3, RefusedTypes DEF CreateRefused, Cmds
  <2>4. CASE EnterFails(u)
    BY <2>4, RefusedTypes DEF EnterFails, Cmds
  <2> QED BY <1>1, <2>1, <2>2, <2>3, <2>4, CreateNoChipsTypes, CreateGotTypes,
             CreateDelegatedTypes, EnterResetTypes, EnterForwardedTypes, UpdateAtUserTypes,
             ClearAskedTypes, ClearGotTypes, SessionTimeoutTypes
<1>2. ASSUME NEW f \in forwards, GameSeats(f) \/ GameRefuses(f) PROVE TypeInv'
  BY <1>2, GameSeatsTypes, GameRefusesTypes
<1>3. ASSUME NEW t \in Tids,
             TableDissolved(t) \/ Day(t) \/ \E g \in Games : GameDissolves(t, g)
      PROVE  TypeInv'
  BY <1>3, TableDissolvedTypes, DayTypes, GameDissolvesTypes
<1>4. ASSUME UNCHANGED vars PROVE TypeInv'
  <2>1. CreatesAnId' /\ EntersAnId'
    BY <1>4, SameReads DEF TypeInv, CreatesAnId, vars, sessions, atUser
  <2> QED BY <1>4, <2>1 DEF TypeInv, TypeOK, vars, ids, redis, games, sessions, atUser, counts, atGame
<1>5. CASE Next
  BY <1>1, <1>2, <1>3, <1>5, GamesTypes, RecycleTimerTypes, RestartTypes DEF Next
<1> QED BY <1>4, <1>5

(* For any users, ids, games, requests and faults: every field of the room *)
(* keeps its type, in particular an id with an old stamp is a taken one    *)
(* and every request and update under way is about an id of the room.      *)
THEOREM RoomTypes == Spec => []TypeOK
<1>1. Spec => []TypeInv
  BY TypesInit, TypesNext, PTL DEF Spec
<1>2. TypeInv => TypeOK
  BY DEF TypeInv
<1> QED BY <1>1, <1>2, PTL

-----------------------------------------------------------------------------
(* A delete of the key of id t failed once.                                *)
Lost(t) == << t, "redis" >> \in strayed

(* The update i of user u creates table t.  It is coming while somebody    *)
(* still counts on it: its session lives, or its user has an enter request *)
(* that was read before it and is decided after it.                        *)
Creates(u, i, t) ==
  i \in DOMAIN updates[u] /\ updates[u][i].cmd = "create" /\ updates[u][i].tid = t
Coming(u, i, t) ==
  Creates(u, i, t) /\ (updates[u][i].live \/ asked["enter"][u] # None)

(* An id that is taken, and neither its end nor its recycling is under way. *)
Firm(t) == t \in alloced \ stale /\ t \notin notices

(* What is known of an id whose creation is coming: it is firm, has no     *)
(* owner yet and nobody is at it.                                          *)
ComingIsFirm(t) ==
  \A u \in Users : \A i \in DOMAIN updates[u] : Coming(u, i, t) =>
    /\ Firm(t) /\ owner[t] \notin Users
    /\ \A g \in Games : << t, g >> \notin hosted
    /\ \A x \in Users, g \in Games : pos[x] # << t, g >>

(* It is coming once.                                                      *)
ComingOnce(t) ==
  \A u, v \in Users : \A i \in DOMAIN updates[u], j \in DOMAIN updates[v] :
    Coming(u, i, t) /\ Coming(v, j, t) => u = v /\ i = j

(* No game server can seat anybody there: who asks does not have it as his *)
(* Create_Table and will not get it before the creation that is coming.    *)
NoSeatYet(t) ==
  \A u \in Users : \A i \in DOMAIN updates[u] : Coming(u, i, t) =>
    \A f \in forwards : f.tid = t =>
      /\ createTable[f.uid] # t
      /\ \A j \in DOMAIN updates[f.uid] : Creates(f.uid, j, t) => f.uid = u /\ j = i

(* An enter request that was read before its user got t as his             *)
(* Create_Table, or before he left his position at t: t is firm, and its   *)
(* creation is over.                                                       *)
Overtaken(x, t) ==
  LET seen == asked["enter"][x] IN
  /\ seen # None /\ createTable[x] = t
  /\ \/ seen.pos = Hall /\ seen.want = t /\ seen.table # t
     \/ seen.pos \in {t} \X Games /\ pos[x] # seen.pos
OvertakenIsFirm(t) ==
  \A x \in Users : Overtaken(x, t) =>
    Firm(t) /\ \A u \in Users : \A i \in DOMAIN updates[u] : ~Coming(u, i, t)

(* An enter request is decided before its update is sent.                  *)
EnterInOrder ==
  \A x \in Users : asked["enter"][x] # None =>
    \A i \in DOMAIN updates[x] : updates[x][i].cmd # "enter"

Steady(t) ==
  /\ owner[t] \in Users => t \in alloced
  /\ ComingIsFirm(t) /\ ComingOnce(t) /\ NoSeatYet(t) /\ OvertakenIsFirm(t)

BInv == TypeInv /\ EnterInOrder /\ \A t \in Tids : ~Lost(t) => Steady(t)

(* A step under which the creations of t that are still under way were so  *)
(* before: each queue moves up by k of its user.                           *)
Shifted(t, k) ==
  \A v \in Users : \A j \in DOMAIN updates'[v] : Creates(v, j, t)' =>
    /\ j \in Nat /\ Creates(v, j + k[v], t)
    /\ Coming(v, j, t)' => Coming(v, j + k[v], t)
Stays(t) ==
  \A v \in Users : \A j \in DOMAIN updates'[v] : Creates(v, j, t)' =>
    Creates(v, j, t) /\ (Coming(v, j, t)' => Coming(v, j, t))
NoShift == [ v \in Users |-> 0 ]

(* A queue that stays is one shifted by nothing.                           *)
LEMMA StaysUnshifted ==
  ASSUME TypeInv', NEW t \in Tids, Stays(t)
  PROVE  Shifted(t, NoShift) /\ NoShift \in [Users -> {0, 1}]
<1>1. ASSUME NEW v \in Users, NEW j \in DOMAIN updates'[v]
      PROVE  j \in Nat /\ j + NoShift[v] = j
  <2>1. updates'[v] \in Seq(Update)
    BY DEF TypeInv, TypeOK
  <2>2. j \in Nat
    BY <1>1, <2>1
  <2> QED BY <2>2 DEF NoShift
<1> QED BY <1>1 DEF Stays, Shifted, NoShift

(* A step that moves queues up keeps that an id is created once.           *)
LEMMA QuietOnce ==
  ASSUME TypeInv', NEW t \in Tids, NEW k \in [Users -> {0, 1}],
         ComingOnce(t), Shifted(t, k)
  PROVE  ComingOnce(t)'
<1> SUFFICES ASSUME NEW u \in Users, NEW v \in Users,
                    NEW i \in DOMAIN updates'[u], NEW j \in DOMAIN updates'[v],
                    Coming(u, i, t)', Coming(v, j, t)'
             PROVE  u = v /\ i = j
  BY DEF ComingOnce
<1>1. Creates(u, i, t)' /\ Creates(v, j, t)'
  BY DEF Coming
<1>2. /\ i \in Nat /\ j \in Nat /\ Coming(u, i + k[u], t) /\ Coming(v, j + k[v], t)
      /\ i + k[u] \in DOMAIN updates[u] /\ j + k[v] \in DOMAIN updates[v]
  BY <1>1 DEF Shifted, Creates
<1>3. u = v /\ i + k[u] = j + k[v]
  BY <1>2 DEF ComingOnce
<1>4. k[u] \in {0, 1}
  OBVIOUS
<1> QED BY <1>2, <1>3, <1>4

(* One that also takes nothing from the id keeps that a creation under way *)
(* has it to itself.                                                       *)
LEMMA QuietFirm ==
  ASSUME TypeInv', NEW t \in Tids, NEW k \in [Users -> {0, 1}],
         ComingIsFirm(t), Shifted(t, k), Firm(t) => Firm(t)',
         owner'[t] \in Users => owner[t] \in Users,
         \A g \in Games : << t, g >> \in hosted' => << t, g >> \in hosted,
         \A x \in Users, g \in Games : pos'[x] = << t, g >> => pos[x] = << t, g >>
  PROVE  ComingIsFirm(t)'
<1> SUFFICES ASSUME NEW u \in Users, NEW i \in DOMAIN updates'[u], Coming(u, i, t)'
             PROVE  /\ Firm(t)' /\ owner'[t] \notin Users
                    /\ \A g \in Games : << t, g >> \notin hosted'
                    /\ \A x \in Users, g \in Games : pos'[x] # << t, g >>
  BY DEF ComingIsFirm
<1>1. Creates(u, i, t)'
  BY DEF Coming
<1>2. Coming(u, i + k[u], t) /\ i + k[u] \in DOMAIN updates[u]
  BY <1>1 DEF Shifted, Creates
<1>3. /\ Firm(t) /\ owner[t] \notin Users
      /\ \A g \in Games : << t, g >> \notin hosted
      /\ \A x \in Users, g \in Games : pos[x] # << t, g >>
  BY <1>2 DEF ComingIsFirm
<1> QED BY <1>3

(* One that sends nobody to the id keeps that no game can seat anybody     *)
(* there.                                                                  *)
LEMMA QuietSeats ==
  ASSUME TypeInv', NEW t \in Tids, NEW k \in [Users -> {0, 1}],
         NoSeatYet(t), Shifted(t, k),
         \A f \in forwards' : f.tid = t => f.uid \in Users /\ \E e \in forwards : e.tid = t /\ e.uid = f.uid,
         \A x \in Users : createTable'[x] = t => createTable[x] = t
  PROVE  NoSeatYet(t)'
<1> SUFFICES ASSUME NEW u \in Users, NEW i \in DOMAIN updates'[u], Coming(u, i, t)',
                    NEW f \in forwards', f.tid = t
             PROVE  /\ createTable'[f.uid] # t
                    /\ \A j \in DOMAIN updates'[f.uid] :
                         Creates(f.uid, j, t)' => f.uid = u /\ j = i
  BY DEF NoSeatYet
<1>1. Creates(u, i, t)'
  BY DEF Coming
<1>2. i \in Nat /\ Coming(u, i + k[u], t) /\ i + k[u] \in DOMAIN updates[u]
  BY <1>1 DEF Shifted, Creates
<1>3. PICK e \in forwards : e.tid = t /\ e.uid = f.uid
  OBVIOUS
<1>4. PICK x \in Users : x = f.uid
  OBVIOUS
<1>5. /\ createTable[x] # t
      /\ \A j \in DOMAIN updates[x] : Creates(x, j, t) => x = u /\ j = i + k[u]
  BY <1>2, <1>3, <1>4 DEF NoSeatYet
<1>6. ASSUME NEW j \in DOMAIN updates'[x], Creates(x, j, t)'
      PROVE  x = u /\ j = i
  <2>1. j \in Nat /\ Creates(x, j + k[x], t) /\ j + k[x] \in DOMAIN updates[x]
    BY <1>6 DEF Shifted, Creates
  <2>2. x = u /\ j + k[x] = i + k[u]
    BY <1>5, <2>1
  <2>3. k[u] \in {0, 1}
    OBVIOUS
  <2> QED BY <1>2, <2>1, <2>2, <2>3
<1> QED BY <1>4, <1>5, <1>6

(* One that overtakes no enter request keeps what is known of those        *)
(* overtaken before.                                                       *)
LEMMA QuietOvertaken ==
  ASSUME TypeInv', NEW t \in Tids, NEW k \in [Users -> {0, 1}],
         OvertakenIsFirm(t), Shifted(t, k), Firm(t) => Firm(t)',
         \A x \in Users : Overtaken(x, t)' => Overtaken(x, t)
  PROVE  OvertakenIsFirm(t)'
<1> SUFFICES ASSUME NEW x \in Users, Overtaken(x, t)'
             PROVE  /\ Firm(t)'
                    /\ \A u \in Users : \A i \in DOMAIN updates'[u] : ~Coming(u, i, t)'
  BY DEF OvertakenIsFirm
<1>1. Firm(t) /\ \A u \in Users : \A i \in DOMAIN updates[u] : ~Coming(u, i, t)
  BY DEF OvertakenIsFirm
<1>2. ASSUME NEW u \in Users, NEW i \in DOMAIN updates'[u], Coming(u, i, t)'
      PROVE  FALSE
  <2>1. Creates(u, i, t)'
    BY <1>2 DEF Coming
  <2>2. Coming(u, i + k[u], t) /\ i + k[u] \in DOMAIN updates[u]
    BY <1>2, <2>1 DEF Shifted, Creates
  <2> QED BY <1>1, <2>2
<1> QED BY <1>1, <1>2

(* A step that touches nothing of t keeps what is known of it.             *)
Quiet(t) ==
  /\ Stays(t) /\ (Firm(t) => Firm(t)') /\ (t \in alloced => t \in alloced')
  /\ owner'[t] \in Users => owner[t] \in Users
  /\ \A g \in Games : << t, g >> \in hosted' => << t, g >> \in hosted
  /\ \A x \in Users, g \in Games : pos'[x] = << t, g >> => pos[x] = << t, g >>
  /\ \A f \in forwards' : f.tid = t => \E e \in forwards : e.tid = t /\ e.uid = f.uid
  /\ \A x \in Users : createTable'[x] = t => createTable[x] = t
  /\ \A x \in Users : Overtaken(x, t)' => Overtaken(x, t)

(* What the room passed on names a user, a table and a game.               *)
LEMMA ForwardTypes ==
  ASSUME TypeInv, NEW f \in forwards
  PROVE  f.uid \in Users /\ f.tid \in Tids /\ f.game \in Games
<1>1. f \in [uid : Users, tid : Tids, game : Games, live : BOOLEAN]
  BY DEF TypeInv, TypeOK
<1> QED BY <1>1

(* The four together: a step that is quiet for an id keeps it steady.      *)
LEMMA QuietSteady ==
  ASSUME TypeInv, TypeInv', NEW t \in Tids, Steady(t), Quiet(t)
  PROVE  Steady(t)'
<1>1. Shifted(t, NoShift) /\ NoShift \in [Users -> {0, 1}]
  BY StaysUnshifted DEF Quiet
<1>2. ComingOnce(t)'
  BY <1>1, QuietOnce DEF Steady
<1>3. ComingIsFirm(t)'
  BY <1>1, QuietFirm DEF Steady, Quiet
<1>4. OvertakenIsFirm(t)'
  BY <1>1, QuietOvertaken DEF Steady, Quiet
<1>5. NoSeatYet(t)'
  <2>1. \A f \in forwards' : f.tid = t =>
          f.uid \in Users /\ \E e \in forwards : e.tid = t /\ e.uid = f.uid
    <3> TAKE f \in forwards'
    <3> HAVE f.tid = t
    <3>1. PICK e \in forwards : e.tid = t /\ e.uid = f.uid
      BY DEF Quiet
    <3> QED BY <3>1, ForwardTypes
  <2> QED BY <1>1, <2>1, QuietSeats DEF Steady, Quiet
<1>6. owner'[t] \in Users => t \in alloced'
  BY DEF Steady, Quiet
<1> QED BY <1>2, <1>3, <1>4, <1>5, <1>6 DEF Steady

(* Enter requests that are still undecided were so before.                 *)
Narrows == \A x \in Users : asked'["enter"][x] \in {None, asked["enter"][x]}

(* Dropping a read narrows what is being asked.                            *)
LEMMA DropNarrows ==
  ASSUME TypeInv, NEW c \in Cmds, NEW u \in Users, Drop(c, u)
  PROVE  Narrows
<1>1. asked \in [Cmds -> [Users -> Info \cup {None}]]
  BY DEF TypeInv, TypeOK
<1>2. asked' = [asked EXCEPT ![c] = [asked[c] EXCEPT ![u] = None]]
  BY DEF Drop
<1> QED BY <1>1, <1>2 DEF Narrows, Cmds

(* So does leaving the reads alone.                                        *)
LEMMA SameNarrows == UNCHANGED asked => Narrows
BY DEF Narrows

(* Only the read of an enter request is one that is still to be decided.   *)
LEMMA OtherReadNarrows ==
  ASSUME TypeInv, NEW c \in Cmds \ {"enter"}, NEW u \in Users, NEW r,
         asked' = [asked EXCEPT ![c][u] = r]
  PROVE  Narrows
<1>1. asked \in [Cmds -> [Users -> Info \cup {None}]]
  BY DEF TypeInv, TypeOK
<1>2. asked' = [asked EXCEPT ![c] = [asked[c] EXCEPT ![u] = r]]
  OBVIOUS
<1> QED BY <1>1, <1>2 DEF Narrows, Cmds

(* Updates that do not change stay where they are.                         *)
LEMMA SameUpdatesStay ==
  ASSUME NEW t \in Tids, Narrows, UNCHANGED updates
  PROVE  Stays(t)
BY DEF Stays, Creates, Coming, Narrows

(* So do updates that only lose their session.                             *)
LEMMA ExpiredStay ==
  ASSUME NEW t \in Tids, Narrows,
         \A x \in Users : \A i \in DOMAIN updates'[x] :
              /\ i \in DOMAIN updates[x]
              /\ updates'[x][i].cmd = updates[x][i].cmd
              /\ updates'[x][i].tid = updates[x][i].tid
              /\ updates'[x][i].live => updates[x][i].live
  PROVE  Stays(t)
BY DEF Stays, Creates, Coming, Narrows

(* An update that joins a queue creates no other table than its own.       *)
LEMMA SaveStays ==
  ASSUME TypeInv, NEW t \in Tids, Narrows, NEW u \in Users, NEW m \in Update, Save(u, m),
         m.cmd # "create" \/ m.tid # t
  PROVE  Stays(t)
<1>1. updates \in [Users -> Seq(Update)]
  BY DEF TypeInv, TypeOK
<1>2. PICK s \in Seq(Update) : s = updates[u]
  BY <1>1
<1>3. updates' = [updates EXCEPT ![u] = Append(s, m)]
  BY <1>2 DEF Save
<1>4. ASSUME NEW v \in Users, NEW j \in DOMAIN updates'[v], Creates(v, j, t)'
      PROVE  j \in DOMAIN updates[v] /\ updates'[v][j] = updates[v][j]
  <2>1. CASE v # u
    BY <1>1, <1>3, <1>4, <2>1
  <2>2. CASE v = u
    <3>1. updates'[v] = Append(s, m)
      BY <1>1, <1>3, <2>2
    <3>2. j \in 1 .. Len(s) + 1
      BY <1>4, <3>1
    <3>3. j # Len(s) + 1
      BY <1>4, <3>1 DEF Creates
    <3>4. j \in DOMAIN s /\ Append(s, m)[j] = s[j]
      BY <3>2, <3>3
    <3> QED BY <1>2, <2>2, <3>1, <3>4
  <2> QED BY <2>1, <2>2
<1> QED BY <1>4 DEF Stays, Creates, Coming, Narrows

(* A step that moves no user and no created table puts nobody at an id.    *)
LEMMA SamePlacesQuiet ==
  ASSUME NEW t \in Tids, Narrows, UNCHANGED << createTable, pos >>
  PROVE  /\ \A x \in Users, g \in Games : pos'[x] = << t, g >> => pos[x] = << t, g >>
         /\ \A x \in Users : createTable'[x] = t => createTable[x] = t
         /\ \A x \in Users : Overtaken(x, t)' => Overtaken(x, t)
<1>1. ASSUME NEW x \in Users, Overtaken(x, t)' PROVE Overtaken(x, t)
  <2>1. asked'["enter"][x] # None
    BY <1>1 DEF Overtaken
  <2>2. asked'["enter"][x] = asked["enter"][x]
    BY <2>1 DEF Narrows
  <2> QED BY <1>1, <2>2 DEF Overtaken
<1> QED BY <1>1

(* A step of sessions, which changes nothing that is kept of ids, users,   *)
(* game servers and queues.                                                *)
LEMMA SessionStep ==
  ASSUME TypeInv, TypeInv', NEW t \in Tids, Steady(t), Narrows, Stays(t),
         UNCHANGED << alloced, stale, owner, hosted, notices, forwards, createTable, pos >>
  PROVE  Steady(t)'
<1>1. Quiet(t)
  BY SamePlacesQuiet DEF Quiet, Firm
<1> QED BY <1>1, QuietSteady

(* A new read sees its user as he is, so nothing has overtaken it.         *)
LEMMA AskSteady ==
  ASSUME TypeInv, TypeInv', NEW t \in Tids, Steady(t),
         NEW c \in Cmds, NEW u \in Users, NEW w \in Tids \cup {None}, Ask(c, u, w)
  PROVE  Steady(t)'
<1>1. /\ asked' = [asked EXCEPT ![c][u] = Read(u, w)] /\ updates[u] = << >>
      /\ UNCHANGED << ids, redis, games, clears, forwards, atUser, atGame, strayed >>
  BY DEF Ask
<1>2. CASE c # "enter"
  <2>1. Narrows
    BY <1>1, <1>2, OtherReadNarrows
  <2>2. Stays(t)
    BY <1>1, <2>1, SameUpdatesStay DEF atUser
  <2> QED BY <1>1, <2>1, <2>2, SessionStep DEF ids, redis, atUser, atGame
<1>3. CASE c = "enter"
  <2>1. asked \in [Cmds -> [Users -> Info \cup {None}]]
    BY DEF TypeInv, TypeOK
  <2>2. asked' = [asked EXCEPT !["enter"] = [asked["enter"] EXCEPT ![u] = Read(u, w)]]
    BY <1>1, <1>3
  <2>3. /\ asked'["enter"][u] = Read(u, w)
        /\ \A x \in Users : x # u => asked'["enter"][x] = asked["enter"][x]
    BY <2>1, <2>2 DEF Cmds
  <2>4. UNCHANGED << updates, createTable, pos >>
    BY <1>1 DEF atUser
  <2>5. Stays(t)
    BY <1>1, <2>3, <2>4 DEF Stays, Creates, Coming
  <2>6. ASSUME NEW x \in Users, Overtaken(x, t)' PROVE Overtaken(x, t)
    <3>1. x # u
      BY <2>3, <2>4, <2>6 DEF Overtaken, Read
    <3> QED BY <2>3, <2>4, <2>6, <3>1 DEF Overtaken
  <2>7. Quiet(t)
    BY <1>1, <2>4, <2>5, <2>6 DEF Quiet, Firm, ids, redis, atGame
  <2> QED BY <2>7, QuietSteady
<1> QED BY <1>2, <1>3

(* A request that is refused, or whose update creates nothing.             *)
LEMMA DropSteady ==
  ASSUME TypeInv, TypeInv', NEW t \in Tids, Steady(t), NEW c \in Cmds, NEW u \in Users, Drop(c, u),
         UNCHANGED << alloced, stale, owner, hosted, notices, forwards, createTable, pos >>,
         \/ UNCHANGED updates
         \/ \E m \in Update : Save(u, m) /\ m.cmd # "create"
  PROVE  Steady(t)'
<1>1. Narrows
  BY DropNarrows
<1>2. Stays(t)
  BY <1>1, SameUpdatesStay, SaveStays
<1> QED BY <1>1, <1>2, SessionStep

(* The update of an enter request that sends its user to the hall.         *)
LEMMA EnterResetSaves ==
  ASSUME TypeInv, NEW u \in Users, EnterReset(u)
  PROVE  \E m \in Update : Save(u, m) /\ m.cmd = "enter"
<1> DEFINE seen == asked["enter"][u]
<1>1. PICK m : m = [ cmd |-> "enter", kind |-> None, live |-> TRUE,
                     tid |-> IF seen.pos = Hall THEN seen.want
                             ELSE IF seen.table = seen.pos[1] THEN seen.table ELSE None ]
  OBVIOUS
<1>2. seen.table \in Tids \cup {None} /\ seen.want \in Tids \cup {None}
  BY SeenTypes DEF EnterReset, Cmds
<1>3. m \in Update /\ m.cmd = "enter"
  BY <1>1, <1>2 DEF Update
<1>4. Save(u, m)
  BY <1>1 DEF EnterReset
<1> QED BY <1>3, <1>4

(* A clearing writes at most one update, of its own kind.                  *)
LEMMA ClearGotSaves ==
  ASSUME NEW u \in Users, ClearGot(u)
  PROVE  UNCHANGED updates \/ \E m \in Update : Save(u, m) /\ m.cmd = "clear"
<1>1. PICK m : m = [ cmd |-> "clear", kind |-> None, tid |-> None, live |-> TRUE ]
  OBVIOUS
<1>2. m \in Update /\ m.cmd = "clear"
  BY <1>1 DEF Update
<1>3. UNCHANGED updates \/ Save(u, m)
  BY <1>1 DEF ClearGot
<1> QED BY <1>2, <1>3

(* The handlers that keep every id steady, one lemma each: an enter request*)
(* for a table that is gone.                                               *)
LEMMA EnterResetSteady ==
  ASSUME TypeInv, TypeInv', NEW t \in Tids, Steady(t), NEW u \in Users, EnterReset(u)
  PROVE  Steady(t)'
<1>1. PICK m \in Update : Save(u, m) /\ m.cmd = "enter"
  BY EnterResetSaves
<1>2. Drop("enter", u)
  BY DEF EnterReset
<1>3. UNCHANGED << alloced, stale, owner, hosted, notices, forwards, createTable, pos >>
  BY DEF EnterReset, ids, redis, atGame
<1> QED BY <1>1, <1>2, <1>3, DropSteady DEF Cmds

(* A clearing.                                                             *)
LEMMA ClearGotSteady ==
  ASSUME TypeInv, TypeInv', NEW t \in Tids, Steady(t), NEW u \in Users, ClearGot(u)
  PROVE  Steady(t)'
<1>1. UNCHANGED updates \/ \E m \in Update : Save(u, m) /\ m.cmd # "create"
  BY ClearGotSaves
<1>2. Drop("clear", u)
  BY DEF ClearGot
<1>3. UNCHANGED << alloced, stale, owner, hosted, notices, forwards, createTable, pos >>
  BY DEF ClearGot, ids, redis, atGame
<1> QED BY <1>1, <1>2, <1>3, DropSteady DEF Cmds

(* The request for one.                                                    *)
LEMMA ClearAskedSteady ==
  ASSUME TypeInv, TypeInv', NEW t \in Tids, Steady(t), NEW u \in Users, ClearAsked(u)
  PROVE  Steady(t)'
<1>1. asked' = [asked EXCEPT !["clear"][u] = Read(u, None)]
  BY DEF ClearAsked
<1>2. Narrows
  BY <1>1, OtherReadNarrows DEF Cmds
<1>3. UNCHANGED << alloced, stale, owner, hosted, notices, forwards, createTable, pos, updates >>
  BY DEF ClearAsked, ids, redis, atUser, atGame
<1>4. Stays(t)
  BY <1>2, <1>3, SameUpdatesStay
<1> QED BY <1>2, <1>3, <1>4, SessionStep

(* A session that expires.                                                 *)
LEMMA SessionTimeoutSteady ==
  ASSUME TypeInv, TypeInv', NEW t \in Tids, Steady(t), NEW c \in Cmds, NEW u \in Users,
         SessionTimeout(c, u)
  PROVE  Steady(t)'
<1>1. Narrows
  BY DropNarrows DEF SessionTimeout, Drop
<1>2. Stays(t)
  BY <1>1, SessionTimeoutQueues, ExpiredStay
<1>3. UNCHANGED << alloced, stale, owner, hosted, notices, createTable, pos >>
  BY DEF SessionTimeout, ids, redis, atGame
<1>4. ASSUME NEW f \in forwards', f.tid = t
      PROVE  \E e \in forwards : e.tid = t /\ e.uid = f.uid
  <2>1. PICK e \in forwards : f = e \/ f = [e EXCEPT !.live = FALSE]
    BY <1>4 DEF SessionTimeout
  <2>2. e \in [uid : Users, tid : Tids, game : Games, live : BOOLEAN]
    BY DEF TypeInv, TypeOK
  <2>3. [e EXCEPT !.live = FALSE].uid = e.uid /\ [e EXCEPT !.live = FALSE].tid = e.tid
    BY <2>2, ExpiredForward
  <2> QED BY <1>4, <2>1, <2>3
<1>5. Quiet(t)
  BY <1>1, <1>2, <1>3, <1>4, SamePlacesQuiet DEF Quiet, Firm
<1> QED BY <1>5, QuietSteady

(* A restart ends every session: nothing is coming, and whatever has an    *)
(* owner in Redis is taken again.                                          *)
LEMMA RestartSteady ==
  ASSUME TypeInv, TypeInv', NEW t \in Tids, Restart
  PROVE  Steady(t)'
<1>1. \A u \in Users : asked'["enter"][u] = None
  BY DEF Restart, Cmds
<1>2. \A u \in Users : \A i \in DOMAIN updates'[u] : ~Coming(u, i, t)'
  BY <1>1, RestartQueues DEF Coming
<1>3. owner'[t] \in Users => t \in alloced'
  BY RoomAssumption DEF Restart, RestartedIds, Bound, redis
<1>4. ComingIsFirm(t)' /\ ComingOnce(t)' /\ NoSeatYet(t)'
  BY <1>2 DEF ComingIsFirm, ComingOnce, NoSeatYet
<1>5. OvertakenIsFirm(t)'
  BY <1>1 DEF OvertakenIsFirm, Overtaken
<1> QED BY <1>3, <1>4, <1>5 DEF Steady

(* A taken id is not free, so AllocNewTableID gives another.               *)
LEMMA AllocatedIsNew ==
  ASSUME IInv, NEW t \in Tids, AllocNewTableID(t)
  PROVE  t \notin alloced
BY DEF IInv, IdTypes, IdsPartitioned, AllocNewTableID

(* A create refused for want of chips.                                     *)
LEMMA CreateNoChipsSteady ==
  ASSUME TypeInv, TypeInv', NEW t \in Tids, Steady(t), NEW u \in Users, CreateNoChips(u)
  PROVE  Steady(t)'
<1>1. Narrows
  BY DropNarrows DEF CreateNoChips, Cmds
<1>2. UNCHANGED << owner, hosted, notices, forwards, createTable, pos, updates >>
  BY DEF CreateNoChips, redis, atUser, atGame
<1>3. alloced \subseteq alloced' /\ stale' \subseteq stale
  BY DEF CreateNoChips, AllocNewTableID
<1>4. Stays(t)
  BY <1>1, <1>2, SameUpdatesStay
<1>5. Quiet(t)
  BY <1>1, <1>2, <1>3, <1>4, SamePlacesQuiet DEF Quiet, Firm
<1> QED BY <1>5, QuietSteady

(* An id that is given away is known to nobody: no creation of it is       *)
(* coming, no request asks for it, and Redis has no owner of it.           *)
LEMMA CreateGotSteady ==
  ASSUME TypeInv, TypeInv', IInv, ~ReusesAtOnce, NEW t \in Tids, Steady(t),
         NEW u \in Users, CreateGot(u)
  PROVE  Steady(t)'
<1>1. PICK kind \in Kinds, d \in Tids :
        /\ AllocNewTableID(d)
        /\ Save(u, [ cmd |-> "create", kind |-> kind, tid |-> d, live |-> TRUE ])
  BY DEF CreateGot
<1>2. PICK m : m = [ cmd |-> "create", kind |-> kind, tid |-> d, live |-> TRUE ]
  OBVIOUS
<1>3. m \in Update /\ m.cmd = "create" /\ m.tid = d /\ Save(u, m)
  BY <1>1, <1>2 DEF Update
<1>4. Narrows
  BY DropNarrows DEF CreateGot, Cmds
<1>5. UNCHANGED << owner, hosted, notices, forwards, createTable, pos >>
  BY DEF CreateGot, redis, atGame
<1>6. alloced' = alloced \cup {d} /\ stale' = stale \ {d}
  BY <1>1 DEF AllocNewTableID
<1>7. CASE d # t
  <2>1. Stays(t)
    BY <1>3, <1>4, <1>7, SaveStays
  <2>2. Quiet(t)
    BY <1>4, <1>5, <1>6, <2>1, SamePlacesQuiet DEF Quiet, Firm
  <2> QED BY <2>2, QuietSteady
<1>8. CASE d = t
  <2>1. t \notin alloced /\ ~Lingers(t)
    BY <1>1, <1>8, AllocatedIsNew DEF AllocNewTableID
  <2>2. owner[t] \notin Users
    BY <2>1 DEF Steady
  <2>3. /\ \A v \in Users : \A i \in DOMAIN updates[v] : ~Coming(v, i, t)
        /\ \A x \in Users : ~Overtaken(x, t)
    BY <2>1 DEF Steady, ComingIsFirm, OvertakenIsFirm, Firm
  <2>4. /\ t \notin notices /\ \A f \in forwards : f.tid # t
        /\ \A g \in Games : << t, g >> \notin hosted
        /\ \A x \in Users, g \in Games : pos[x] # << t, g >>
    BY <2>1 DEF Lingers
  <2>5. Firm(t)'
    BY <1>5, <1>6, <1>8, <2>4 DEF Firm
  <2>6. PICK s \in Seq(Update) : s = updates[u]
    BY DEF TypeInv, TypeOK
  <2>7. updates \in [Users -> Seq(Update)] /\ updates' = [updates EXCEPT ![u] = Append(s, m)]
    BY <1>3, <2>6 DEF Save, TypeInv, TypeOK
  <2>8. ASSUME NEW v \in Users, NEW j \in DOMAIN updates'[v], Coming(v, j, t)'
        PROVE  v = u /\ j = Len(s) + 1
    <3>1. CASE v # u
      <4>1. updates'[v] = updates[v]
        BY <2>7, <3>1
      <4>2. Coming(v, j, t)
        BY <1>4, <2>8, <4>1 DEF Coming, Creates, Narrows
      <4> QED BY <2>3, <2>8, <4>1, <4>2
    <3>2. CASE v = u
      <4>1. updates'[v] = Append(s, m)
        BY <2>7, <3>2
      <4>2. j \in 1 .. Len(s) + 1
        BY <2>8, <4>1
      <4>3. CASE j # Len(s) + 1
        <5>1. j \in DOMAIN updates[v] /\ updates'[v][j] = updates[v][j]
          BY <2>6, <3>2, <4>1, <4>2, <4>3
        <5>2. Coming(v, j, t)
          BY <1>4, <2>8, <5>1 DEF Coming, Creates, Narrows
        <5> QED BY <2>3, <5>1, <5>2
      <4> QED BY <3>2, <4>3
    <3> QED BY <3>1, <3>2
  <2>9. ComingIsFirm(t)' /\ ComingOnce(t)' /\ NoSeatYet(t)'
    <3>1. ComingIsFirm(t)'
      BY <1>5, <2>2, <2>4, <2>5 DEF ComingIsFirm
    <3>2. ComingOnce(t)'
      BY <2>8 DEF ComingOnce
    <3>3. NoSeatYet(t)'
      BY <1>5, <2>4 DEF NoSeatYet
    <3> QED BY <3>1, <3>2, <3>3
  <2>10. OvertakenIsFirm(t)'
    BY <1>4, <1>5, <2>3, SamePlacesQuiet DEF OvertakenIsFirm
  <2> QED BY <1>5, <2>2, <2>9, <2>10 DEF Steady
<1> QED BY <1>7, <1>8

(* What a binding changes: the owner of the id, and its place.             *)
LEMMA BindChanges ==
  ASSUME NEW u \in Users, NEW m, NEW up, BindTidForUser(u, m, up)
  PROVE  /\ \A t \in Tids : t # m.tid => owner'[t] = owner[t]
         /\ \A t \in Tids, g \in Games : t # m.tid /\ << t, g >> \in hosted' => << t, g >> \in hosted
         /\ stale' \subseteq stale
<1>1. \A t \in Tids : t # m.tid => owner'[t] = owner[t]
  BY DEF BindTidForUser
<1>2. stale' \subseteq stale
  BY DEF BindTidForUser
<1>3. UNCHANGED hosted \/ \E g \in running : hosted' = hosted \cup {<< m.tid, g >>}
  BY DEF BindTidForUser
<1> QED BY <1>1, <1>2, <1>3

(* A delegated create takes a free id, which nobody can be coming to, and  *)
(* leaves the others alone.                                                *)
LEMMA CreateDelegatedSteady ==
  ASSUME TypeInv, TypeInv', IInv, NEW t \in Tids, Steady(t),
         NEW u \in Users, CreateDelegated(u)
  PROVE  Steady(t)'
<1>1. PICK d \in Tids, up \in RedisUp("set") :
        /\ AllocNewTableID(d)
        /\ BindTidForUser(u, [ cmd |-> "create", kind |-> "delegate", tid |-> d, live |-> TRUE ], up)
  BY DEF CreateDelegated
<1>2. PICK m : m = [ cmd |-> "create", kind |-> "delegate", tid |-> d, live |-> TRUE ]
  OBVIOUS
<1>3. m.tid = d /\ BindTidForUser(u, m, up)
  BY <1>1, <1>2
<1>4. Narrows
  BY DropNarrows DEF CreateDelegated, Cmds
<1>5. UNCHANGED << notices, forwards, createTable, pos, updates >>
  BY DEF CreateDelegated, atUser
<1>6. alloced' = alloced \cup {d} /\ stale' \subseteq stale /\ d \notin alloced
  BY <1>1, AllocatedIsNew DEF AllocNewTableID
<1>7. Stays(t)
  BY <1>4, <1>5, SameUpdatesStay
<1>8. CASE d # t
  <2>1. Quiet(t)
    BY <1>3, <1>4, <1>5, <1>6, <1>7, <1>8, BindChanges, SamePlacesQuiet DEF Quiet, Firm
  <2> QED BY <2>1, QuietSteady
<1>9. CASE d = t
  <2>1. /\ \A v \in Users : \A i \in DOMAIN updates[v] : ~Coming(v, i, t)
        /\ \A x \in Users : ~Overtaken(x, t)
    BY <1>6, <1>9 DEF Steady, ComingIsFirm, OvertakenIsFirm, Firm
  <2>2. \A v \in Users : \A i \in DOMAIN updates'[v] : ~Coming(v, i, t)'
    BY <1>5, <1>7, <2>1 DEF Stays, Coming
  <2>3. \A x \in Users : ~Overtaken(x, t)'
    BY <1>4, <1>5, <2>1, SamePlacesQuiet
  <2> QED BY <1>6, <1>9, <2>2, <2>3
      DEF Steady, ComingIsFirm, ComingOnce, NoSeatYet, OvertakenIsFirm
<1> QED BY <1>8, <1>9

(* The request goes to a game server for an id whose creation is coming    *)
(* only when its user does not have it as his Create_Table: with it, he    *)
(* either lapsed, as nobody owns the id, or his read was overtaken.        *)
LEMMA EnterForwardedSteady ==
  ASSUME TypeInv, TypeInv', NEW t \in Tids, Steady(t), NEW u \in Users, EnterForwarded(u)
  PROVE  Steady(t)'
<1> DEFINE seen == asked["enter"][u]
           tid == IF seen.pos = Hall THEN seen.want ELSE seen.pos[1]
<1>1. /\ seen # None /\ ~CutOff(seen.pos) /\ ~(seen.pos = Hall /\ Lapsed(u, seen))
      /\ UNCHANGED << alloced, stale, owner, hosted, notices, updates, createTable, pos >>
  BY DEF EnterForwarded, ids, redis, atUser, atGame
<1>2. PICK g \in Targets(seen) :
        forwards' = forwards \cup {[ uid |-> u, tid |-> tid, game |-> g, live |-> TRUE ]}
  BY DEF EnterForwarded
<1>3. PICK n : n = [ uid |-> u, tid |-> tid, game |-> g, live |-> TRUE ]
  OBVIOUS
<1>4. n.uid = u /\ n.tid = tid /\ forwards' = forwards \cup {n}
  BY <1>2, <1>3
<1>5. Narrows
  BY DropNarrows DEF EnterForwarded, Cmds
<1>6. Stays(t)
  BY <1>1, <1>5, SameUpdatesStay
<1>7. CASE tid # t
  <2>1. \A f \in forwards' : f.tid = t => \E e \in forwards : e.tid = t /\ e.uid = f.uid
    BY <1>4, <1>7
  <2>2. Quiet(t)
    BY <1>1, <1>5, <1>6, <2>1, SamePlacesQuiet DEF Quiet, Firm
  <2> QED BY <2>2, QuietSteady
<1>8. CASE tid = t
  <2>1. Shifted(t, NoShift) /\ NoShift \in [Users -> {0, 1}]
    BY <1>6, StaysUnshifted
  <2>2. ComingOnce(t)'
    BY <2>1, QuietOnce DEF Steady
  <2>3. ComingIsFirm(t)'
    BY <1>1, <2>1, QuietFirm DEF Steady, Firm
  <2>4. OvertakenIsFirm(t)'
    BY <1>1, <1>5, <2>1, SamePlacesQuiet, QuietOvertaken DEF Steady, Firm
  <2>5. ASSUME NEW v \in Users, NEW i \in DOMAIN updates[v], Coming(v, i, t)
        PROVE  /\ createTable[u] # t
               /\ \A j \in DOMAIN updates[u] : Creates(u, j, t) => u = v /\ j = i
    <3>1. /\ owner[t] \notin Users /\ ~Overtaken(u, t)
          /\ \A g1 \in Games : pos[u] # << t, g1 >>
      BY <2>5 DEF Steady, ComingIsFirm, OvertakenIsFirm
    <3>2. createTable[u] # t
      <4>1. CASE seen.pos = Hall
        BY <1>1, <1>8, <3>1, <4>1 DEF Lapsed, Overtaken
      <4>2. CASE seen.pos # Hall
        <5>1. seen.pos \in Tids \X Games
          BY <1>1, <4>2, SeenTypes DEF Places, Cmds
        <5>2. seen.pos \in {t} \X Games
          BY <1>8, <4>2, <5>1
        <5>3. pos[u] # seen.pos
          BY <3>1, <5>2
        <5> QED BY <1>1, <3>1, <5>2, <5>3 DEF Overtaken
      <4> QED BY <4>1, <4>2
    <3>3. ASSUME NEW j \in DOMAIN updates[u], Creates(u, j, t)
          PROVE  u = v /\ j = i
      <4>1. Coming(u, j, t)
        BY <1>1, <3>3 DEF Coming
      <4> QED BY <2>5, <4>1 DEF Steady, ComingOnce
    <3> QED BY <3>2, <3>3
  <2>6. NoSeatYet(t)'
    <3> SUFFICES ASSUME NEW v \in Users, NEW i \in DOMAIN updates'[v], Coming(v, i, t)',
                        NEW f \in forwards', f.tid = t
                 PROVE  /\ createTable'[f.uid] # t
                        /\ \A j \in DOMAIN updates'[f.uid] :
                             Creates(f.uid, j, t)' => f.uid = v /\ j = i
      BY DEF NoSeatYet
    <3>1. i \in DOMAIN updates[v] /\ Coming(v, i, t)
      BY <1>1, <1>6 DEF Stays, Coming
    <3>2. f \in forwards \/ f.uid = u
      BY <1>4
    <3>3. /\ createTable[f.uid] # t
          /\ \A j \in DOMAIN updates[f.uid] : Creates(f.uid, j, t) => f.uid = v /\ j = i
      BY <2>5, <3>1, <3>2 DEF Steady, NoSeatYet
    <3> QED BY <1>1, <3>3 DEF Creates
  <2>7. owner'[t] \in Users => t \in alloced'
    BY <1>1 DEF Steady
  <2> QED BY <2>2, <2>3, <2>4, <2>6, <2>7 DEF Steady
<1> QED BY <1>7, <1>8

(* A game server seats nobody at an id whose creation is coming.           *)
LEMMA GameSeatsSteady ==
  ASSUME TypeInv, TypeInv', NEW t \in Tids, Steady(t), NEW f \in forwards, GameSeats(f)
  PROVE  Steady(t)'
<1>1. f.uid \in Users /\ f.tid \in Tids /\ f.game \in Games
  BY ForwardTypes
<1>2. /\ << f.tid, f.game >> \in hosted \/ createTable[f.uid] = f.tid
      /\ hosted' = hosted \cup {<< f.tid, f.game >>}
      /\ pos[f.uid] \in {Hall, << f.tid, f.game >>}
      /\ pos' = [pos EXCEPT ![f.uid] = << f.tid, f.game >>]
      /\ forwards' = forwards \ {f}
      /\ UNCHANGED << alloced, owner, asked, createTable, updates, notices >>
  BY DEF GameSeats
<1>3. stale' \subseteq stale
  BY DEF GameSeats
<1>4. pos \in [Users -> Places]
  BY DEF TypeInv, TypeOK
<1>5. Narrows /\ Stays(t)
  BY <1>2, SameNarrows, SameUpdatesStay
<1>6. \A x \in Users : pos'[x] # pos[x] =>
        x = f.uid /\ pos[x] = Hall /\ pos'[x] = << f.tid, f.game >>
  BY <1>1, <1>2, <1>4
<1>7. ASSUME NEW x \in Users, Overtaken(x, t)' PROVE Overtaken(x, t)
  <2>1. CASE pos'[x] = pos[x]
    BY <1>2, <1>7, <2>1 DEF Overtaken
  <2>2. CASE pos'[x] # pos[x]
    <3>1. pos[x] = Hall
      BY <1>6, <2>2
    <3>2. Hall \notin {t} \X Games
      BY RoomAssumption DEF Hall
    <3> QED BY <1>2, <1>7, <3>1, <3>2 DEF Overtaken
  <2> QED BY <2>1, <2>2
<1>8. CASE f.tid # t
  <2>1. /\ \A g \in Games : << t, g >> \in hosted' => << t, g >> \in hosted
        /\ \A x \in Users, g \in Games : pos'[x] = << t, g >> => pos[x] = << t, g >>
    BY <1>2, <1>6, <1>8
  <2>2. Quiet(t)
    BY <1>2, <1>3, <1>5, <1>7, <2>1 DEF Quiet, Firm
  <2> QED BY <2>2, QuietSteady
<1>9. CASE f.tid = t
  <2>1. \A v \in Users : \A i \in DOMAIN updates[v] : ~Coming(v, i, t)
    BY <1>1, <1>2, <1>9 DEF Steady, ComingIsFirm, NoSeatYet
  <2>2. \A v \in Users : \A i \in DOMAIN updates'[v] : ~Coming(v, i, t)'
    BY <1>2, <2>1 DEF Coming, Creates
  <2>3. OvertakenIsFirm(t)'
    BY <1>2, <1>3, <1>7, <2>2 DEF Steady, OvertakenIsFirm, Firm
  <2> QED BY <1>2, <2>2, <2>3 DEF Steady, ComingIsFirm, ComingOnce, NoSeatYet
<1> QED BY <1>8, <1>9

(* A refusal by the game.                                                  *)
LEMMA GameRefusesSteady ==
  ASSUME TypeInv, TypeInv', NEW t \in Tids, Steady(t), NEW f \in forwards, GameRefuses(f)
  PROVE  Steady(t)'
<1>1. /\ forwards' = forwards \ {f}
      /\ UNCHANGED << alloced, stale, owner, hosted, notices, asked, updates, createTable, pos >>
  BY DEF GameRefuses, ids, redis, atUser, atGame
<1>2. Narrows /\ Stays(t)
  BY <1>1, SameNarrows, SameUpdatesStay
<1>3. Quiet(t)
  BY <1>1, <1>2, SamePlacesQuiet DEF Quiet, Firm
<1> QED BY <1>3, QuietSteady

(* A dissolution in the game: its players leave, nobody comes.             *)
LEMMA GameDissolvesSteady ==
  ASSUME TypeInv, TypeInv', NEW t \in Tids, Steady(t),
         NEW d \in Tids, NEW g \in Games, GameDissolves(d, g)
  PROVE  Steady(t)'
<1>1. /\ << d, g >> \in hosted
      /\ pos' = [ u \in Users |-> IF pos[u] = << d, g >> THEN Hall ELSE pos[u] ]
      /\ createTable' = [ u \in Users |-> IF createTable[u] = d THEN None ELSE createTable[u] ]
      /\ hosted' = hosted \ {<< d, g >>} /\ notices' = notices \cup {d}
      /\ UNCHANGED << alloced, stale, owner, asked, forwards, updates >>
  BY DEF GameDissolves, ids, redis, sessions
<1>2. Narrows /\ Stays(t)
  BY <1>1, SameNarrows, SameUpdatesStay
<1>3. None # t /\ \A g1 \in Games : Hall # << t, g1 >>
  BY RoomAssumption DEF Hall
<1>4. CASE d # t
  <2>1. /\ \A x \in Users, g1 \in Games : pos'[x] = << t, g1 >> => pos[x] = << t, g1 >>
        /\ \A x \in Users : createTable'[x] = t => createTable[x] = t
    BY <1>1, <1>3
  <2>2. ASSUME NEW x \in Users, Overtaken(x, t)' PROVE Overtaken(x, t)
    <3>1. asked["enter"][x].pos \in {t} \X Games /\ pos'[x] # asked["enter"][x].pos
            => pos[x] # asked["enter"][x].pos
      BY <1>1, <1>4
    <3> QED BY <1>1, <2>1, <2>2, <3>1 DEF Overtaken
  <2>3. Quiet(t)
    BY <1>1, <1>2, <1>4, <2>1, <2>2 DEF Quiet, Firm
  <2> QED BY <2>3, QuietSteady
<1>5. CASE d = t
  <2>1. \A v \in Users : \A i \in DOMAIN updates[v] : ~Coming(v, i, t)
    BY <1>1, <1>5 DEF Steady, ComingIsFirm
  <2>2. \A v \in Users : \A i \in DOMAIN updates'[v] : ~Coming(v, i, t)'
    BY <1>1, <2>1 DEF Coming, Creates
  <2>3. \A x \in Users : createTable'[x] # t
    BY <1>1, <1>3, <1>5
  <2> QED BY <1>1, <2>2, <2>3
      DEF Steady, ComingIsFirm, ComingOnce, NoSeatYet, OvertakenIsFirm, Overtaken
<1> QED BY <1>4, <1>5

(* Ids that are dissolved are not firm: a notice, or an old stamp, is      *)
(* there.  Whoever owned one is unbound, or the id is lost.                *)
LEMMA DissolveSteady ==
  ASSUME TypeInv, TypeInv', NEW t \in Tids, Steady(t), ~Lost(t)',
         NEW ts, NEW up \in BOOLEAN, DissolveTables(ts, up), t \in ts => ~Firm(t),
         strayed' = strayed \cup (IF up THEN {} ELSE Undeleted(ts)), notices' \subseteq notices,
         UNCHANGED << asked, forwards, updates, createTable, pos, hosted >>
  PROVE  Steady(t)'
<1>1. Narrows /\ Stays(t)
  BY SameNarrows, SameUpdatesStay
<1>2. owner \in [Tids -> Users \cup {None, Gone}]
  BY DEF TypeInv, TypeOK
<1>3. /\ owner' = [ x \in Tids |-> IF x \in (ts \cap alloced) /\ up THEN None ELSE owner[x] ]
      /\ alloced' = alloced \ (ts \cap alloced) /\ stale' = stale \ (ts \cap alloced)
  BY DEF DissolveTables
<1>4. None \notin Users
  BY RoomAssumption
<1>5. owner'[t] \in Users => owner[t] \in Users
  BY <1>3, <1>4
<1>6. CASE t \notin ts
  <2>1. Quiet(t)
    BY <1>1, <1>3, <1>5, <1>6, SamePlacesQuiet DEF Quiet, Firm
  <2> QED BY <2>1, QuietSteady
<1>7. CASE t \in ts
  <2>1. /\ \A v \in Users : \A i \in DOMAIN updates[v] : ~Coming(v, i, t)
        /\ \A x \in Users : ~Overtaken(x, t)
    BY <1>7 DEF Steady, ComingIsFirm, OvertakenIsFirm
  <2>2. /\ \A v \in Users : \A i \in DOMAIN updates'[v] : ~Coming(v, i, t)'
        /\ \A x \in Users : ~Overtaken(x, t)'
    BY <1>1, <2>1, SamePlacesQuiet DEF Coming, Creates
  <2>3. owner'[t] \in Users => t \in alloced'
    <3>1. CASE t \notin alloced
      BY <1>5, <3>1 DEF Steady
    <3>2. CASE t \in alloced /\ up
      BY <1>3, <1>4, <1>7, <3>2
    <3>3. CASE t \in alloced /\ ~up
      <4>1. owner[t] \in Users => << t, "redis" >> \in strayed'
        BY <1>7, <3>3 DEF Undeleted, Owned
      <4> QED BY <1>5, <4>1 DEF Lost
    <3> QED BY <3>1, <3>2, <3>3
  <2> QED BY <2>2, <2>3 DEF Steady, ComingIsFirm, ComingOnce, NoSeatYet, OvertakenIsFirm
<1> QED BY <1>6, <1>7

(* The notice of it at the room. An id freed by it is no longer lost, so   *)
(* its key was deleted.                                                    *)
LEMMA TableDissolvedSteady ==
  ASSUME TypeInv, TypeInv', NEW t \in Tids, Steady(t), ~Lost(t)',
         NEW d \in Tids, TableDissolved(d)
  PROVE  Steady(t)'
<1>1. PICK up \in RedisUp("del") :
        DissolveTables({d}, up) /\ strayed' = strayed \cup (IF up THEN {} ELSE Undeleted({d}))
  BY DEF TableDissolved
<1>2. up \in BOOLEAN
  BY DEF RedisUp
<1>3. t \in {d} => ~Firm(t)
  BY DEF TableDissolved, Firm
<1>4. UNCHANGED << asked, forwards, updates, createTable, pos, hosted >> /\ notices' \subseteq notices
  BY DEF TableDissolved, sessions, atUser
<1> QED BY <1>1, <1>2, <1>3, <1>4, DissolveSteady

(* The same for the timer.                                                 *)
LEMMA RecycleTimerSteady ==
  ASSUME TypeInv, TypeInv', NEW t \in Tids, Steady(t), ~Lost(t)', RecycleTimer
  PROVE  Steady(t)'
<1>1. PICK up \in RedisUp("del") :
        DissolveTables(Recycled, up) /\ strayed' = strayed \cup (IF up THEN {} ELSE Undeleted(Recycled))
  BY DEF RecycleTimer
<1>2. up \in BOOLEAN
  BY DEF RedisUp
<1>3. t \in Recycled => ~Firm(t)
  BY DEF Recycled, Firm
<1>4. UNCHANGED << asked, forwards, updates, createTable, pos, hosted >> /\ notices' \subseteq notices
  BY DEF RecycleTimer, atUser, atGame
<1> QED BY <1>1, <1>2, <1>3, <1>4, DissolveSteady

(* A day passes.                                                           *)
LEMMA DaySteady ==
  ASSUME TypeInv, TypeInv', NEW t \in Tids, Steady(t), NEW d \in Tids, Day(d)
  PROVE  Steady(t)'
<1>1. /\ stale' = stale \cup {d} /\ ~Mentioned(d)
      /\ UNCHANGED << alloced, owner, hosted, notices, asked, forwards, updates, createTable, pos >>
  BY DEF Day, redis, sessions, atUser, atGame
<1>2. Narrows /\ Stays(t)
  BY <1>1, SameNarrows, SameUpdatesStay
<1>3. CASE d # t
  <2>1. Quiet(t)
    BY <1>1, <1>2, <1>3, SamePlacesQuiet DEF Quiet, Firm
  <2> QED BY <2>1, QuietSteady
<1>4. CASE d = t
  <2>1. \A v \in Users : \A i \in DOMAIN updates[v] : ~Creates(v, i, t)
    BY <1>1, <1>4 DEF Mentioned, Creates
  <2>2. \A v \in Users : \A i \in DOMAIN updates'[v] : ~Coming(v, i, t)'
    BY <1>1, <2>1 DEF Coming, Creates
  <2>3. \A x \in Users : ~Overtaken(x, t)'
    BY <1>1, <1>4 DEF Mentioned, Overtaken
  <2> QED BY <1>1, <2>2, <2>3
      DEF Steady, ComingIsFirm, ComingOnce, NoSeatYet, OvertakenIsFirm
<1> QED BY <1>3, <1>4

(* A game server reports, retires or closes.                               *)
LEMMA GamesSteady ==
  ASSUME TypeInv, TypeInv', NEW t \in Tids, Steady(t),
         NEW g \in Games, ReportGame(g) \/ RetireGame(g) \/ CloseGame(g)
  PROVE  Steady(t)'
<1>1. /\ hosted' \subseteq hosted
      /\ UNCHANGED << alloced, stale, owner, notices, asked, forwards, updates, createTable, pos >>
  BY DEF ReportGame, RetireGame, CloseGame, GamesOnly, ids, redis, sessions, atUser
<1>2. Narrows /\ Stays(t)
  BY <1>1, SameNarrows, SameUpdatesStay
<1>3. Quiet(t)
  BY <1>1, <1>2, SamePlacesQuiet DEF Quiet, Firm
<1> QED BY <1>3, QuietSteady

(* Nothing happens.                                                        *)
LEMMA StutterSteady ==
  ASSUME TypeInv, TypeInv', NEW t \in Tids, Steady(t), UNCHANGED vars
  PROVE  Steady(t)'
<1>1. UNCHANGED << alloced, stale, owner, hosted, notices, asked, forwards, updates, createTable, pos >>
  BY DEF vars, ids, redis, sessions, atUser, atGame
<1>2. Narrows /\ Stays(t)
  BY <1>1, SameNarrows, SameUpdatesStay
<1> QED BY <1>1, <1>2, SessionStep

(* One update at the user server.  The queue of u moves up by one.         *)
LEMMA HeadShifts ==
  ASSUME TypeInv, NEW t \in Tids, NEW u \in Users, UpdateAtUser(u)
  PROVE  LET k == [ v \in Users |-> IF v = u THEN 1 ELSE 0 ]
         IN  k \in [Users -> {0, 1}] /\ Shifted(t, k)
<1> DEFINE k == [ v \in Users |-> IF v = u THEN 1 ELSE 0 ]
<1>1. updates[u] # << >> /\ updates' = [updates EXCEPT ![u] = Tail(@)] /\ UNCHANGED asked
  BY DEF UpdateAtUser, sessions
<1>2. /\ \A x \in Users : x # u => updates'[x] = updates[x]
      /\ \A i \in DOMAIN updates'[u] :
           i \in Nat /\ i + 1 \in DOMAIN updates[u] /\ updates'[u][i] = updates[u][i + 1]
  BY <1>1, HeadDone
<1>3. ASSUME NEW v \in Users, NEW j \in DOMAIN updates'[v], Creates(v, j, t)'
      PROVE  /\ j \in Nat /\ Creates(v, j + k[v], t)
             /\ Coming(v, j, t)' => Coming(v, j + k[v], t)
  <2>1. CASE v = u
    <3>1. /\ j \in Nat /\ j + 1 \in DOMAIN updates[v] /\ updates'[v][j] = updates[v][j + 1]
          /\ k[v] = 1
      BY <1>2, <1>3, <2>1
    <3> QED BY <1>1, <1>3, <3>1 DEF Creates, Coming
  <2>2. CASE v # u
    <3>1. updates'[v] = updates[v] /\ updates[v] \in Seq(Update) /\ k[v] = 0
      BY <1>2, <2>2 DEF TypeInv, TypeOK
    <3>2. j \in Nat /\ j + 0 = j
      BY <1>3, <3>1
    <3> QED BY <1>1, <1>3, <3>1, <3>2 DEF Creates, Coming
  <2> QED BY <2>1, <2>2
<1> QED BY <1>3 DEF Shifted

(* What the update m of user u changes.                                    *)
LEMMA UpdateChanges ==
  ASSUME TypeInv, NEW u \in Users, UpdateAtUser(u)
  PROVE  LET m == updates[u][1]
         IN  /\ m \in Update /\ 1 \in DOMAIN updates[u]
             /\ m.cmd = "create" => m.tid \in Tids
             /\ \A x \in Users : x # u => createTable'[x] = createTable[x] /\ pos'[x] = pos[x]
             /\ createTable'[u] =
                  IF m.cmd = "create" THEN IF m.kind = "delegate" THEN createTable[u] ELSE m.tid
                  ELSE IF m.cmd = "enter" /\ m.tid = None THEN createTable[u] ELSE None
             /\ pos'[u] = IF m.cmd = "create" THEN pos[u] ELSE Hall
             /\ UNCHANGED << alloced, asked, forwards, notices >>
             /\ \/ /\ m.cmd = "create" /\ m.live
                   /\ \E up \in BOOLEAN : BindTidForUser(u, m, up)
                \/ /\ ~(m.cmd = "create" /\ m.live) /\ UNCHANGED << stale, owner, hosted >>
                   /\ strayed' = strayed \cup
                        (IF createTable'[u] = None /\ Hits(u, m)
                         THEN {<< u, IF m.cmd = "clear" THEN "cleared" ELSE "dead game" >>}
                         ELSE {})
<1> DEFINE m == updates[u][1]
<1>1. updates[u] # << >> /\ updates' = [updates EXCEPT ![u] = Tail(@)]
  BY DEF UpdateAtUser
<1>2. Head(updates[u]) = m /\ m \in Update /\ 1 \in DOMAIN updates[u]
  BY <1>1, HeadDone
<1>3. m.cmd = "create" => m.tid \in Tids
  BY <1>2 DEF TypeInv, CreatesAnId
<1>4. createTable \in [Users -> Tids \cup {None}] /\ pos \in [Users -> Places]
  BY DEF TypeInv, TypeOK
<1> HIDE DEF m
<1>5. /\ createTable' = [createTable EXCEPT ![u] =
            IF m.cmd = "create" THEN IF m.kind = "delegate" THEN @ ELSE m.tid
            ELSE IF m.cmd = "enter" /\ m.tid = None THEN @ ELSE None]
      /\ pos' = IF m.cmd = "create" THEN pos ELSE [pos EXCEPT ![u] = Hall]
      /\ IF m.cmd = "create" /\ m.live
         THEN (\E up \in RedisUp("set") : BindTidForUser(u, m, up)) /\ UNCHANGED << alloced, free >>
         ELSE /\ strayed' = strayed \cup
                   (IF createTable'[u] = None /\ Hits(u, m)
                    THEN {<< u, IF m.cmd = "clear" THEN "cleared" ELSE "dead game" >>}
                    ELSE {})
              /\ UNCHANGED << ids, redis, hosted >>
  BY <1>2 DEF UpdateAtUser
<1>6. UNCHANGED << games, sessions, counts, notices >>
  BY DEF UpdateAtUser
<1>7. /\ \A x \in Users : x # u => createTable'[x] = createTable[x] /\ pos'[x] = pos[x]
      /\ createTable'[u] =
           IF m.cmd = "create" THEN IF m.kind = "delegate" THEN createTable[u] ELSE m.tid
           ELSE IF m.cmd = "enter" /\ m.tid = None THEN createTable[u] ELSE None
      /\ pos'[u] = IF m.cmd = "create" THEN pos[u] ELSE Hall
  BY <1>4, <1>5
<1>8. RedisUp("set") \subseteq BOOLEAN
  BY DEF RedisUp
<1>9. \/ /\ m.cmd = "create" /\ m.live /\ UNCHANGED alloced
         /\ \E up \in BOOLEAN : BindTidForUser(u, m, up)
      \/ /\ ~(m.cmd = "create" /\ m.live) /\ UNCHANGED << alloced, stale, owner, hosted >>
         /\ strayed' = strayed \cup
              (IF createTable'[u] = None /\ Hits(u, m)
               THEN {<< u, IF m.cmd = "clear" THEN "cleared" ELSE "dead game" >>}
               ELSE {})
  <2>1. CASE m.cmd = "create" /\ m.live
    BY <1>5, <1>8, <2>1
  <2>2. CASE ~(m.cmd = "create" /\ m.live)
    BY <1>5, <2>2 DEF ids, redis
  <2> QED BY <2>1, <2>2
<1> USE DEF m
<1> QED BY <1>2, <1>3, <1>6, <1>7, <1>9 DEF sessions

(* What is bound or left alone keeps what is known of the other ids.       *)
LEMMA UpdateElsewhere ==
  ASSUME TypeInv, TypeInv', EnterInOrder, NEW t \in Tids, Steady(t),
         NEW u \in Users, UpdateAtUser(u),
         ~(updates[u][1].cmd = "create" /\ updates[u][1].tid = t)
  PROVE  Steady(t)'
<1> DEFINE k == [ v \in Users |-> IF v = u THEN 1 ELSE 0 ]
<1>1. k \in [Users -> {0, 1}] /\ Shifted(t, k)
  BY HeadShifts
<1> HIDE DEF k
<1>2. PICK m : m = updates[u][1]
  OBVIOUS
<1>3. /\ m \in Update /\ 1 \in DOMAIN updates[u]
      /\ \A x \in Users : x # u => createTable'[x] = createTable[x] /\ pos'[x] = pos[x]
      /\ createTable'[u] =
           IF m.cmd = "create" THEN IF m.kind = "delegate" THEN createTable[u] ELSE m.tid
           ELSE IF m.cmd = "enter" /\ m.tid = None THEN createTable[u] ELSE None
      /\ pos'[u] = IF m.cmd = "create" THEN pos[u] ELSE Hall
      /\ UNCHANGED << alloced, asked, forwards, notices >>
  BY <1>2, UpdateChanges
<1>4. /\ stale' \subseteq stale /\ owner'[t] = owner[t]
      /\ \A g \in Games : << t, g >> \in hosted' => << t, g >> \in hosted
  <2>1. CASE m.cmd = "create" /\ m.live
    <3>1. PICK up \in BOOLEAN : BindTidForUser(u, m, up)
      BY <1>2, <2>1, UpdateChanges
    <3>2. t # m.tid
      BY <1>2, <2>1
    <3> QED BY <3>1, <3>2, BindChanges
  <2>2. CASE ~(m.cmd = "create" /\ m.live)
    <3>1. UNCHANGED << stale, owner, hosted >>
      BY <1>2, <2>2, UpdateChanges
    <3> QED BY <3>1
  <2> QED BY <2>1, <2>2
<1>5. None # t /\ \A g \in Games : Hall # << t, g >>
  BY RoomAssumption DEF Hall
<1>6. /\ \A x \in Users : createTable'[x] = t => createTable[x] = t
      /\ \A x \in Users, g \in Games : pos'[x] = << t, g >> => pos[x] = << t, g >>
  BY <1>2, <1>3, <1>5
<1>7. ASSUME NEW x \in Users, Overtaken(x, t)' PROVE Overtaken(x, t)
  <2>1. asked'["enter"][x] = asked["enter"][x] /\ asked["enter"][x] # None
    BY <1>3, <1>7 DEF Overtaken
  <2>2. createTable'[x] = t /\ createTable[x] = t
    BY <1>6, <1>7 DEF Overtaken
  <2>3. pos'[x] = pos[x]
    <3>1. CASE x # u
      BY <1>3, <3>1
    <3>2. CASE x = u
      <4>1. m.cmd # "enter"
        BY <1>2, <1>3, <2>1, <3>2 DEF EnterInOrder
      <4>2. m.cmd = "create"
        BY <1>3, <1>5, <2>2, <3>2, <4>1
      <4> QED BY <1>3, <3>2, <4>2
    <3> QED BY <3>1, <3>2
  <2> QED BY <1>7, <2>1, <2>2, <2>3 DEF Overtaken
<1>8. Firm(t) => Firm(t)'
  BY <1>3, <1>4 DEF Firm
<1>9. ComingOnce(t)'
  BY <1>1, QuietOnce DEF Steady
<1>10. ComingIsFirm(t)'
  BY <1>1, <1>4, <1>6, <1>8, QuietFirm DEF Steady
<1>11. OvertakenIsFirm(t)'
  BY <1>1, <1>7, <1>8, QuietOvertaken DEF Steady
<1>12. NoSeatYet(t)'
  <2>1. \A f \in forwards' : f.tid = t =>
          f.uid \in Users /\ \E e \in forwards : e.tid = t /\ e.uid = f.uid
    BY <1>3, ForwardTypes
  <2> QED BY <1>1, <1>6, <2>1, QuietSeats DEF Steady
<1>13. owner'[t] \in Users => t \in alloced'
  BY <1>3, <1>4 DEF Steady
<1> QED BY <1>9, <1>10, <1>11, <1>12, <1>13 DEF Steady

(* The creation of t arrives.  If it was coming it was the only one, and t *)
(* is taken; else its session ended, and only its user learns of t.        *)
LEMMA UpdateCreates ==
  ASSUME TypeInv, TypeInv', NEW t \in Tids, Steady(t), NEW u \in Users, UpdateAtUser(u),
         updates[u][1].cmd = "create", updates[u][1].tid = t
  PROVE  Steady(t)'
<1> DEFINE k == [ v \in Users |-> IF v = u THEN 1 ELSE 0 ]
<1>1. k \in [Users -> {0, 1}] /\ Shifted(t, k)
  BY HeadShifts
<1>2. k[u] = 1 /\ \A v \in Users : v # u => k[v] = 0
  OBVIOUS
<1> HIDE DEF k
<1>3. PICK m : m = updates[u][1]
  OBVIOUS
<1>4. /\ m \in Update /\ 1 \in DOMAIN updates[u] /\ m.cmd = "create" /\ m.tid = t
      /\ \A x \in Users : x # u => createTable'[x] = createTable[x] /\ pos'[x] = pos[x]
      /\ pos'[u] = pos[u]
      /\ UNCHANGED << alloced, asked, forwards, notices >>
  BY <1>3, UpdateChanges
<1>5. Creates(u, 1, t)
  BY <1>3, <1>4 DEF Creates
<1>6. CASE Coming(u, 1, t)
  <2>1. Firm(t)
    BY <1>4, <1>6 DEF Steady, ComingIsFirm
  <2>2. stale' \subseteq stale
    <3>1. CASE m.live
      <4>1. PICK up \in BOOLEAN : BindTidForUser(u, m, up)
        BY <1>3, <1>4, <3>1, UpdateChanges
      <4> QED BY <4>1, BindChanges
    <3>2. CASE ~m.live
      <4>1. UNCHANGED stale
        BY <1>3, <3>2, UpdateChanges
      <4> QED BY <4>1
    <3> QED BY <3>1, <3>2
  <2>3. Firm(t)'
    BY <1>4, <2>1, <2>2 DEF Firm
  <2>4. ASSUME NEW v \in Users, NEW j \in DOMAIN updates'[v], Coming(v, j, t)'
        PROVE  FALSE
    <3>1. Creates(v, j, t)'
      BY <2>4 DEF Coming
    <3>2. j \in Nat /\ Coming(v, j + k[v], t) /\ j + k[v] \in DOMAIN updates[v]
      BY <1>1, <2>4, <3>1 DEF Shifted, Creates
    <3>3. v = u /\ j + k[v] = 1
      BY <1>4, <1>6, <3>2 DEF Steady, ComingOnce
    <3>4. j = 0
      BY <1>2, <3>2, <3>3
    <3>5. updates'[u] \in Seq(Update)
      BY DEF TypeInv, TypeOK
    <3> QED BY <2>4, <3>3, <3>4, <3>5
  <2>5. ComingIsFirm(t)' /\ ComingOnce(t)' /\ NoSeatYet(t)'
    BY <2>4 DEF ComingIsFirm, ComingOnce, NoSeatYet
  <2>6. OvertakenIsFirm(t)'
    BY <2>3, <2>4 DEF OvertakenIsFirm
  <2>7. owner'[t] \in Users => t \in alloced'
    BY <1>4, <2>1 DEF Firm
  <2> QED BY <2>5, <2>6, <2>7 DEF Steady
<1>7. CASE ~Coming(u, 1, t)
  <2>1. asked["enter"][u] = None /\ ~m.live
    BY <1>3, <1>5, <1>7 DEF Coming
  <2>2. UNCHANGED << stale, owner, hosted >>
    BY <1>3, <2>1, UpdateChanges
  <2>3. UNCHANGED << alloced, notices >> /\ \A x \in Users : pos'[x] = pos[x]
    BY <1>4
  <2>4. Firm(t) => Firm(t)'
    BY <2>2, <2>3 DEF Firm
  <2>5. ComingOnce(t)'
    BY <1>1, QuietOnce DEF Steady
  <2>6. ComingIsFirm(t)'
    BY <1>1, <2>2, <2>3, <2>4, QuietFirm DEF Steady
  <2>7. ASSUME NEW x \in Users, Overtaken(x, t)' PROVE Overtaken(x, t)
    <3>1. x # u
      BY <1>4, <2>1, <2>7 DEF Overtaken
    <3> QED BY <1>4, <2>7, <3>1 DEF Overtaken
  <2>8. OvertakenIsFirm(t)'
    BY <1>1, <2>4, <2>7, QuietOvertaken DEF Steady
  <2>9. NoSeatYet(t)'
    <3> SUFFICES ASSUME NEW v \in Users, NEW i \in DOMAIN updates'[v], Coming(v, i, t)',
                        NEW f \in forwards', f.tid = t
                 PROVE  /\ createTable'[f.uid] # t
                        /\ \A j \in DOMAIN updates'[f.uid] :
                             Creates(f.uid, j, t)' => f.uid = v /\ j = i
      BY DEF NoSeatYet
    <3>1. Creates(v, i, t)'
      BY DEF Coming
    <3>2. i \in Nat /\ Coming(v, i + k[v], t) /\ i + k[v] \in DOMAIN updates[v]
      BY <1>1, <3>1 DEF Shifted, Creates
    <3>3. f \in forwards
      BY <1>4
    <3>4. PICK x \in Users : x = f.uid
      BY <3>3, ForwardTypes
    <3>5. /\ createTable[x] # t
          /\ \A j \in DOMAIN updates[x] : Creates(x, j, t) => x = v /\ j = i + k[v]
      BY <3>2, <3>3, <3>4 DEF Steady, NoSeatYet
    <3>6. x # u
      <4> SUFFICES ASSUME x = u PROVE FALSE
        OBVIOUS
      <4>1. u = v /\ 1 = i + k[v]
        BY <1>4, <1>5, <3>5
      <4>2. i = 0
        BY <1>2, <3>2, <4>1
      <4>3. updates'[u] \in Seq(Update)
        BY DEF TypeInv, TypeOK
      <4> QED BY <4>1, <4>2, <4>3
    <3>7. ASSUME NEW j \in DOMAIN updates'[x], Creates(x, j, t)'
          PROVE  x = v /\ j = i
      <4>1. j \in Nat /\ Creates(x, j + k[x], t) /\ j + k[x] \in DOMAIN updates[x] /\ k[x] = 0
        BY <1>1, <1>2, <3>6, <3>7 DEF Shifted, Creates
      <4>2. x = v /\ j + k[x] = i + k[v]
        BY <3>5, <4>1
      <4> QED BY <3>2, <4>1, <4>2
    <3> QED BY <1>4, <3>4, <3>5, <3>6, <3>7
  <2>10. owner'[t] \in Users => t \in alloced'
    BY <2>2, <2>3 DEF Steady
  <2> QED BY <2>5, <2>6, <2>8, <2>9, <2>10 DEF Steady
<1> QED BY <1>6, <1>7

(* An update that joins a queue is its last.                               *)
LEMMA SaveAppends ==
  ASSUME TypeInv, NEW u \in Users, NEW m \in Update, Save(u, m)
  PROVE  \A v \in Users : \A j \in DOMAIN updates'[v] :
           \/ j \in DOMAIN updates[v] /\ updates'[v][j] = updates[v][j]
           \/ v = u /\ updates'[v][j] = m /\ j = Len(updates[u]) + 1
<1>1. updates \in [Users -> Seq(Update)]
  BY DEF TypeInv, TypeOK
<1>2. PICK s \in Seq(Update) : s = updates[u]
  BY <1>1
<1>3. updates' = [updates EXCEPT ![u] = Append(s, m)]
  BY <1>2 DEF Save
<1> TAKE v \in Users
<1> TAKE j \in DOMAIN updates'[v]
<1>4. CASE v # u
  BY <1>1, <1>3, <1>4
<1>5. CASE v = u
  <2>1. updates'[v] = Append(s, m)
    BY <1>1, <1>3, <1>5
  <2>2. j \in 1 .. Len(s) + 1
    BY <2>1
  <2>3. j # Len(s) + 1 => j \in DOMAIN s /\ Append(s, m)[j] = s[j]
    BY <2>2
  <2>4. j = Len(s) + 1 => Append(s, m)[j] = m
    OBVIOUS
  <2> QED BY <1>2, <1>5, <2>1, <2>3, <2>4
<1> QED BY <1>4, <1>5

(* A create that goes on writes one update, of a kind its read allowed.    *)
LEMMA CreateGotSaves ==
  ASSUME NEW u \in Users, CreateGot(u)
  PROVE  \E m \in Update :
           /\ Save(u, m) /\ m.cmd = "create" /\ m.kind \in Kinds
           /\ MayCreate(asked["create"][u], m.kind)
<1>1. PICK kind \in Kinds, d \in Tids :
        /\ MayCreate(asked["create"][u], kind)
        /\ Save(u, [ cmd |-> "create", kind |-> kind, tid |-> d, live |-> TRUE ])
  BY DEF CreateGot
<1>2. PICK m : m = [ cmd |-> "create", kind |-> kind, tid |-> d, live |-> TRUE ]
  OBVIOUS
<1>3. m \in Update /\ m.cmd = "create" /\ m.kind = kind
  BY <1>2 DEF Update
<1> QED BY <1>1, <1>2, <1>3

(* What a step leaves of the updates on their way: those of before, at     *)
(* their place or one further up.                                          *)
Kept(cmds) ==
  \A x \in Users : \A i \in DOMAIN updates'[x] : updates'[x][i].cmd \in cmds =>
    \E j \in DOMAIN updates[x] : updates[x][j].cmd = updates'[x][i].cmd

(* A step that keeps the enter updates and narrows the reads keeps their   *)
(* order.                                                                  *)
LEMMA InOrderKept ==
  ASSUME EnterInOrder, Narrows, Kept({"enter"})
  PROVE  EnterInOrder'
BY DEF EnterInOrder, Narrows, Kept

(* The head of a queue leaves it and nothing joins.                        *)
LEMMA HeadKept ==
  ASSUME TypeInv, NEW u \in Users, UpdateAtUser(u), NEW cmds
  PROVE  Kept(cmds)
<1>1. updates[u] # << >> /\ updates' = [updates EXCEPT ![u] = Tail(@)]
  BY DEF UpdateAtUser
<1> SUFFICES ASSUME NEW x \in Users, NEW i \in DOMAIN updates'[x]
             PROVE  \E j \in DOMAIN updates[x] : updates[x][j].cmd = updates'[x][i].cmd
  BY DEF Kept
<1>2. CASE x = u
  <2>1. i + 1 \in DOMAIN updates[x] /\ updates'[x][i] = updates[x][i + 1]
    BY <1>1, <1>2, HeadDone
  <2> QED BY <2>1
<1>3. CASE x # u
  <2>1. updates'[x] = updates[x]
    BY <1>1, <1>3, HeadDone
  <2> QED BY <2>1
<1> QED BY <1>2, <1>3

(* An update of another command that joins a queue adds none of these.     *)
LEMMA SaveKept ==
  ASSUME TypeInv, NEW u \in Users, NEW m \in Update, Save(u, m), NEW cmds, m.cmd \notin cmds
  PROVE  Kept(cmds)
BY SaveAppends DEF Kept

(* A step that touches no queue adds none either.                          *)
LEMMA SameKept == ASSUME UNCHANGED updates, NEW cmds PROVE Kept(cmds)
BY DEF Kept

(* One step per action that reads, sends or performs an update; the others *)
(* leave sessions and queues alone.                                        *)
LEMMA InOrderNext ==
  ASSUME TypeInv, TypeInv', EnterInOrder, [Next]_vars
  PROVE  EnterInOrder'
<1> DEFINE Same == UNCHANGED << asked, updates >>
<1>1. Same => EnterInOrder'
  BY DEF EnterInOrder
<1>2. ASSUME NEW u \in Users, RequestCreate(u) PROVE EnterInOrder'
  <2>1. asked' = [asked EXCEPT !["create"][u] = Read(u, None)] /\ UNCHANGED updates
    BY <1>2 DEF RequestCreate, Ask, atUser
  <2>2. Narrows
    BY <2>1, OtherReadNarrows DEF Cmds
  <2> QED BY <2>1, <2>2, SameKept, InOrderKept
<1>3. ASSUME NEW u \in Users, NEW w \in Tids, RequestEnter(u, w) PROVE EnterInOrder'
  <2>1. /\ asked' = [asked EXCEPT !["enter"][u] = Read(u, w)]
        /\ UNCHANGED updates /\ updates[u] = << >>
    BY <1>3 DEF RequestEnter, Ask, atUser
  <2>2. asked \in [Cmds -> [Users -> Info \cup {None}]]
    BY DEF TypeInv, TypeOK
  <2>3. asked' = [asked EXCEPT !["enter"] = [asked["enter"] EXCEPT ![u] = Read(u, w)]]
    BY <2>1
  <2>4. \A x \in Users : x # u => asked'["enter"][x] = asked["enter"][x]
    BY <2>2, <2>3 DEF Cmds
  <2> QED BY <2>1, <2>4 DEF EnterInOrder
<1>4. ASSUME NEW u \in Users, CreateRefused(u) \/ CreateNoChips(u) \/ CreateDelegated(u)
      PROVE  EnterInOrder'
  <2>1. Drop("create", u) /\ UNCHANGED updates
    BY <1>4 DEF CreateRefused, CreateNoChips, CreateDelegated, atUser
  <2> QED BY <2>1, DropNarrows, SameKept, InOrderKept DEF Cmds
<1>5. ASSUME NEW u \in Users, EnterForwarded(u) \/ EnterFails(u) PROVE EnterInOrder'
  <2>1. Drop("enter", u) /\ UNCHANGED updates
    BY <1>5 DEF EnterForwarded, EnterFails, atUser
  <2> QED BY <2>1, DropNarrows, SameKept, InOrderKept DEF Cmds
<1>6. ASSUME NEW u \in Users, CreateGot(u) PROVE EnterInOrder'
  <2>1. PICK m \in Update : Save(u, m) /\ m.cmd = "create"
    BY <1>6, CreateGotSaves
  <2>2. Drop("create", u)
    BY <1>6 DEF CreateGot
  <2>3. Kept({"enter"})
    BY <2>1, SaveKept
  <2> QED BY <2>2, <2>3, DropNarrows, InOrderKept DEF Cmds
<1>7. ASSUME NEW u \in Users, EnterReset(u) PROVE EnterInOrder'
  <2>1. PICK m \in Update : Save(u, m)
    BY <1>7, EnterResetSaves
  <2>2. Drop("enter", u)
    BY <1>7 DEF EnterReset
  <2>3. asked \in [Cmds -> [Users -> Info \cup {None}]]
    BY DEF TypeInv, TypeOK
  <2>4. asked' = [asked EXCEPT !["enter"] = [asked["enter"] EXCEPT ![u] = None]]
    BY <2>2 DEF Drop
  <2>5. asked'["enter"][u] = None /\ \A x \in Users : x # u => asked'["enter"][x] = asked["enter"][x]
    BY <2>3, <2>4 DEF Cmds
  <2>6. updates \in [Users -> Seq(Update)]
    BY DEF TypeInv, TypeOK
  <2>7. \A x \in Users : x # u => updates'[x] = updates[x]
    BY <2>1, <2>6 DEF Save
  <2> QED BY <2>5, <2>7 DEF EnterInOrder
<1>8. ASSUME NEW u \in Users, UpdateAtUser(u) PROVE EnterInOrder'
  <2>1. Narrows
    BY <1>8, SameNarrows DEF UpdateAtUser, sessions
  <2> QED BY <1>8, <2>1, HeadKept, InOrderKept
<1>9. ASSUME NEW u \in Users, ClearAsked(u) PROVE EnterInOrder'
  <2>1. asked' = [asked EXCEPT !["clear"][u] = Read(u, None)] /\ UNCHANGED updates
    BY <1>9 DEF ClearAsked, atUser
  <2>2. Narrows
    BY <2>1, OtherReadNarrows DEF Cmds
  <2> QED BY <2>1, <2>2, SameKept, InOrderKept
<1>10. ASSUME NEW u \in Users, ClearGot(u) PROVE EnterInOrder'
  <2>1. Kept({"enter"})
    BY <1>10, ClearGotSaves, SameKept, SaveKept
  <2>2. Drop("clear", u)
    BY <1>10 DEF ClearGot
  <2> QED BY <2>1, <2>2, DropNarrows, InOrderKept DEF Cmds
<1>11. ASSUME NEW c \in Cmds, NEW u \in Users, SessionTimeout(c, u) PROVE EnterInOrder'
  <2>1. Narrows
    BY <1>11, DropNarrows DEF SessionTimeout, Drop
  <2>2. Kept({"enter"})
    BY <1>11, SessionTimeoutQueues DEF Kept
  <2> QED BY <2>1, <2>2, InOrderKept
<1>12. ASSUME Restart PROVE EnterInOrder'
  BY <1>12 DEF Restart, EnterInOrder, Cmds
<1>13. ASSUME NEW f \in forwards, GameSeats(f) \/ GameRefuses(f) PROVE Same
  BY <1>13 DEF GameSeats, GameRefuses, atUser
<1>14. ASSUME NEW t \in Tids, TableDissolved(t) \/ Day(t) \/ \E g \in Games : GameDissolves(t, g)
       PROVE  Same
  BY <1>14 DEF TableDissolved, Day, GameDissolves, sessions, atUser
<1>15. ASSUME NEW g \in Games, ReportGame(g) \/ RetireGame(g) \/ CloseGame(g) PROVE Same
  BY <1>15 DEF ReportGame, RetireGame, CloseGame, GamesOnly, sessions, atUser
<1>16. ASSUME RecycleTimer PROVE Same
  BY <1>16 DEF RecycleTimer, atUser
<1>17. ASSUME UNCHANGED vars PROVE Same
  BY <1>17 DEF vars, sessions, atUser
<1> HIDE DEF Same
<1>18. ASSUME NEW u \in Users,
              \/ RequestCreate(u) \/ \E t \in Tids : RequestEnter(u, t)
              \/ CreateRefused(u) \/ CreateNoChips(u) \/ CreateGot(u) \/ CreateDelegated(u)
              \/ EnterReset(u) \/ EnterForwarded(u) \/ EnterFails(u)
              \/ UpdateAtUser(u) \/ ClearAsked(u) \/ ClearGot(u)
              \/ \E c \in Cmds : SessionTimeout(c, u)
       PROVE  EnterInOrder'
  BY <1>2, <1>3, <1>4, <1>5, <1>6, <1>7, <1>8, <1>9, <1>10, <1>11, <1>18
<1>19. CASE Next
  BY <1>1, <1>12, <1>13, <1>14, <1>15, <1>16, <1>18, <1>19 DEF Next
<1> QED BY <1>1, <1>17, <1>19

(* An update that reaches the user server: the table that was coming is    *)
(* there, bound and his.                                                   *)
LEMMA UpdateAtUserSteady ==
  ASSUME TypeInv, TypeInv', EnterInOrder, NEW t \in Tids, Steady(t),
         NEW u \in Users, UpdateAtUser(u)
  PROVE  Steady(t)'
BY UpdateElsewhere, UpdateCreates

(* A lost id stays lost.                                                   *)
LEMMA StrayedGrows == ASSUME [Next]_vars PROVE strayed \subseteq strayed'
<1>1. ASSUME NEW u \in Users,
              \/ RequestCreate(u) \/ \E t \in Tids : RequestEnter(u, t)
              \/ CreateRefused(u) \/ CreateNoChips(u) \/ CreateGot(u) \/ CreateDelegated(u)
              \/ EnterReset(u) \/ EnterForwarded(u) \/ EnterFails(u)
              \/ ClearAsked(u) \/ ClearGot(u)
              \/ \E c \in Cmds : SessionTimeout(c, u)
      PROVE  strayed \subseteq strayed'
  <2>1. CASE RequestCreate(u) \/ \E t \in Tids : RequestEnter(u, t)
    BY <2>1 DEF RequestCreate, RequestEnter, Ask
  <2>2. CASE CreateRefused(u) \/ CreateNoChips(u) \/ CreateGot(u) \/ EnterReset(u)
             \/ EnterForwarded(u) \/ EnterFails(u) \/ ClearAsked(u) \/ ClearGot(u)
             \/ \E c \in Cmds : SessionTimeout(c, u)
    BY <2>2 DEF CreateRefused, CreateNoChips, CreateGot, EnterReset, EnterForwarded, EnterFails,
                ClearAsked, ClearGot, SessionTimeout
  <2>3. CASE CreateDelegated(u)
    BY <2>3 DEF CreateDelegated, BindTidForUser
  <2> QED BY <1>1, <2>1, <2>2, <2>3
<1>2. ASSUME NEW u \in Users, UpdateAtUser(u) PROVE strayed \subseteq strayed'
  BY <1>2 DEF UpdateAtUser, BindTidForUser
<1>3. ASSUME NEW f \in forwards, GameSeats(f) \/ GameRefuses(f) PROVE strayed \subseteq strayed'
  BY <1>3 DEF GameSeats, GameRefuses
<1>4. ASSUME NEW t \in Tids, TableDissolved(t) \/ Day(t) \/ \E g \in Games : GameDissolves(t, g)
      PROVE  strayed \subseteq strayed'
  BY <1>4 DEF TableDissolved, Day, GameDissolves
<1>5. ASSUME NEW g \in Games, ReportGame(g) \/ RetireGame(g) \/ CloseGame(g)
      PROVE  strayed \subseteq strayed'
  BY <1>5 DEF ReportGame, RetireGame, CloseGame, GamesOnly
<1>6. ASSUME RecycleTimer \/ Restart PROVE strayed \subseteq strayed'
  BY <1>6 DEF RecycleTimer, Restart
<1>7. CASE Next
  BY <1>1, <1>2, <1>3, <1>4, <1>5, <1>6, <1>7 DEF Next
<1>8. CASE UNCHANGED vars
  BY <1>8 DEF vars
<1> QED BY <1>7, <1>8

(* Every step keeps an id steady whose key was not lost to Redis.          *)
LEMMA SteadyNext ==
  ASSUME TypeInv, TypeInv', IInv, ~ReusesAtOnce, EnterInOrder, [Next]_vars,
         NEW t \in Tids, Steady(t), ~Lost(t)'
  PROVE  Steady(t)'
<1>1. ASSUME NEW u \in Users,
              \/ RequestCreate(u) \/ \E w \in Tids : RequestEnter(u, w)
              \/ CreateRefused(u) \/ CreateNoChips(u) \/ CreateGot(u) \/ CreateDelegated(u)
              \/ EnterReset(u) \/ EnterForwarded(u) \/ EnterFails(u)
              \/ UpdateAtUser(u) \/ ClearAsked(u) \/ ClearGot(u)
              \/ \E c \in Cmds : SessionTimeout(c, u)
      PROVE  Steady(t)'
  <2>1. CASE RequestCreate(u)
    BY <2>1, AskSteady DEF RequestCreate, Cmds
  <2>2. CASE \E w \in Tids : RequestEnter(u, w)
    BY <2>2, AskSteady DEF RequestEnter, Cmds
  <2>3. CASE CreateRefused(u)
    BY <2>3, DropSteady DEF CreateRefused, Cmds, ids, redis, atUser, atGame
  <2>4. CASE EnterFails(u)
    BY <2>4, DropSteady DEF EnterFails, Cmds, ids, redis, atUser, atGame
  <2> QED BY <1>1, <2>1, <2>2, <2>3, <2>4, CreateNoChipsSteady, CreateGotSteady,
             CreateDelegatedSteady, EnterResetSteady, EnterForwardedSteady, UpdateAtUserSteady,
             ClearAskedSteady, ClearGotSteady, SessionTimeoutSteady
<1>2. ASSUME NEW f \in forwards, GameSeats(f) \/ GameRefuses(f) PROVE Steady(t)'
  BY <1>2, GameSeatsSteady, GameRefusesSteady
<1>3. ASSUME NEW d \in Tids,
             TableDissolved(d) \/ Day(d) \/ \E g \in Games : GameDissolves(d, g)
      PROVE  Steady(t)'
  BY <1>3, TableDissolvedSteady, DaySteady, GameDissolvesSteady
<1>4. CASE Next
  BY <1>1, <1>2, <1>3, <1>4, GamesSteady, RecycleTimerSteady, RestartSteady DEF Next
<1> QED BY <1>4, StutterSteady

(* A fresh room satisfies the invariant of the bound tables.               *)
LEMMA BoundInit == Init => BInv
<1> SUFFICES ASSUME Init PROVE BInv
  OBVIOUS
<1>1. \A u \in Users : updates[u] = << >> /\ asked["enter"][u] = None
  BY DEF Init, Cmds
<1>2. EnterInOrder
  BY <1>1 DEF EnterInOrder
<1>3. ASSUME NEW t \in Tids PROVE Steady(t)
  <2>1. owner[t] \in Users => t \in alloced
    BY RoomAssumption DEF Init, Bound
  <2> QED BY <1>1, <2>1
      DEF Steady, ComingIsFirm, ComingOnce, NoSeatYet, OvertakenIsFirm, Overtaken
<1> QED BY <1>2, <1>3, TypesInit DEF BInv

(* Every step keeps it, unless an id is used again at once.                *)
LEMMA BoundNext ==
  ASSUME ~ReusesAtOnce
  PROVE  BInv /\ IInv /\ [Next]_vars => BInv'
<1> SUFFICES ASSUME BInv, IInv, [Next]_vars PROVE BInv'
  OBVIOUS
<1>1. TypeInv /\ TypeInv' /\ EnterInOrder
  BY TypesNext DEF BInv
<1>2. EnterInOrder'
  BY <1>1, InOrderNext
<1>3. ASSUME NEW t \in Tids, ~Lost(t)' PROVE Steady(t)'
  <2>1. ~Lost(t)
    BY <1>3, StrayedGrows DEF Lost
  <2>2. Steady(t)
    BY <2>1 DEF BInv
  <2> QED BY <1>1, <1>3, <2>2, SteadyNext
<1> QED BY <1>1, <1>2, <1>3 DEF BInv

(* An id is given to one owner only: for any users, ids, games, failures   *)
(* of Redis, requests, timeouts and restarts, an id Redis binds to a user  *)
(* is taken, unless a delete of its key failed once.  It is assumed that   *)
(* an id is not drawn again while an old table of it is about.             *)
THEOREM BoundStaysTaken == ASSUME ~ReusesAtOnce PROVE Spec => []BoundIsTaken
<1>1. BInv => BoundIsTaken
  BY DEF BInv, Steady, BoundIsTaken, Lost
<1>2. Init => BInv /\ IInv
  BY BoundInit, IdsInit
<1>3. BInv /\ IInv /\ [Next]_vars => (BInv /\ IInv)'
  BY BoundNext, IdsNext
<1> QED BY <1>1, <1>2, <1>3, PTL DEF Spec

(* Who has a creation under way that will be his Create_Table has none.    *)
ReadsNothing(u) ==
  asked["create"][u] # None =>
    /\ \A i \in DOMAIN updates[u] : updates[u][i].cmd # "create"
    /\ asked["create"][u].table = None => createTable[u] = None
CreatesOnce(u) ==
  \A i \in DOMAIN updates[u] : updates[u][i].cmd = "create" =>
    /\ updates[u][i].kind # "delegate" => createTable[u] = None
    /\ \A j \in DOMAIN updates[u] : updates[u][j].cmd = "create" => j = i
CreatesFromNothing == \A u \in Users : ReadsNothing(u) /\ CreatesOnce(u)

(* A step that sends no creation, and gives nobody a table.                *)
LEMMA NothingStays ==
  ASSUME CreatesFromNothing, NEW u \in Users,
         asked'["create"][u] \in {None, asked["create"][u]},
         createTable'[u] \in {None, createTable[u]},
         \A i \in DOMAIN updates'[u] : updates'[u][i].cmd = "create" =>
           /\ i \in DOMAIN updates[u] /\ updates[u][i].cmd = "create"
           /\ updates'[u][i].kind = updates[u][i].kind
  PROVE  ReadsNothing(u)' /\ CreatesOnce(u)'
<1>1. ReadsNothing(u)'
  BY DEF ReadsNothing, CreatesFromNothing
<1>2. CreatesOnce(u)'
  BY DEF CreatesOnce, CreatesFromNothing
<1> QED BY <1>1, <1>2

(* A read that ends is no new create request.                              *)
LEMMA DropCreates ==
  ASSUME TypeInv, NEW c \in Cmds, NEW u \in Users, Drop(c, u)
  PROVE  /\ \A x \in Users : asked'["create"][x] \in {None, asked["create"][x]}
         /\ c = "create" => asked'["create"][u] = None
<1>1. asked \in [Cmds -> [Users -> Info \cup {None}]]
  BY DEF TypeInv, TypeOK
<1>2. asked' = [asked EXCEPT ![c] = [asked[c] EXCEPT ![u] = None]]
  BY DEF Drop
<1> QED BY <1>1, <1>2 DEF Cmds

(* A read of another command leaves the create requests alone.             *)
LEMMA OtherReadCreates ==
  ASSUME TypeInv, NEW c \in Cmds \ {"create"}, NEW u \in Users, NEW r,
         asked' = [asked EXCEPT ![c][u] = r]
  PROVE  \A x \in Users : asked'["create"][x] = asked["create"][x]
<1>1. asked \in [Cmds -> [Users -> Info \cup {None}]]
  BY DEF TypeInv, TypeOK
<1>2. asked' = [asked EXCEPT ![c] = [asked[c] EXCEPT ![u] = r]]
  OBVIOUS
<1> QED BY <1>1, <1>2 DEF Cmds

(* A step of sessions other than a create's.                               *)
LEMMA NothingSession ==
  ASSUME TypeInv, CreatesFromNothing,
         \A x \in Users : asked'["create"][x] \in {None, asked["create"][x]},
         UNCHANGED createTable,
         \/ UNCHANGED updates
         \/ \E u \in Users, m \in Update : Save(u, m) /\ m.cmd # "create"
  PROVE  CreatesFromNothing'
<1>1. ASSUME NEW x \in Users, NEW i \in DOMAIN updates'[x], updates'[x][i].cmd = "create"
      PROVE  /\ i \in DOMAIN updates[x] /\ updates[x][i].cmd = "create"
             /\ updates'[x][i].kind = updates[x][i].kind
  <2>1. CASE UNCHANGED updates
    BY <1>1, <2>1
  <2>2. CASE \E u \in Users, m \in Update : Save(u, m) /\ m.cmd # "create"
    <3>1. PICK u \in Users, m \in Update : Save(u, m) /\ m.cmd # "create"
      BY <2>2
    <3>2. i \in DOMAIN updates[x] /\ updates'[x][i] = updates[x][i]
      BY <1>1, <3>1, SaveAppends
    <3> QED BY <1>1, <3>2
  <2> QED BY <2>1, <2>2
<1>2. ASSUME NEW x \in Users PROVE ReadsNothing(x)' /\ CreatesOnce(x)'
  BY <1>1, NothingStays
<1> QED BY <1>2 DEF CreatesFromNothing

(* A create request is read when no update of its user is on the way, and  *)
(* sees the table he has.                                                  *)
LEMMA NothingRequestCreate ==
  ASSUME TypeInv, CreatesFromNothing, NEW u \in Users, RequestCreate(u)
  PROVE  CreatesFromNothing'
<1>1. /\ asked' = [asked EXCEPT !["create"][u] = Read(u, None)] /\ updates[u] = << >>
      /\ UNCHANGED << updates, createTable >>
  BY DEF RequestCreate, Ask, atUser
<1>2. asked \in [Cmds -> [Users -> Info \cup {None}]]
  BY DEF TypeInv, TypeOK
<1>3. asked' = [asked EXCEPT !["create"] = [asked["create"] EXCEPT ![u] = Read(u, None)]]
  BY <1>1
<1>4. /\ asked'["create"][u] = Read(u, None)
      /\ \A x \in Users : x # u => asked'["create"][x] = asked["create"][x]
  BY <1>2, <1>3 DEF Cmds
<1>5. ReadsNothing(u)' /\ CreatesOnce(u)'
  BY <1>1, <1>4 DEF ReadsNothing, CreatesOnce, Read
<1>6. ASSUME NEW x \in Users, x # u PROVE ReadsNothing(x)' /\ CreatesOnce(x)'
  BY <1>1, <1>4, <1>6 DEF ReadsNothing, CreatesOnce, CreatesFromNothing
<1> QED BY <1>5, <1>6 DEF CreatesFromNothing

(* The table of a user is looked at once, before his creation is sent.     *)
LEMMA NothingCreateGot ==
  ASSUME TypeInv, CreatesFromNothing, NEW u \in Users, CreateGot(u)
  PROVE  CreatesFromNothing'
<1>1. PICK m \in Update : /\ Save(u, m) /\ m.cmd = "create"
                          /\ MayCreate(asked["create"][u], m.kind)
  BY CreateGotSaves
<1>2. asked["create"][u] # None /\ Drop("create", u) /\ UNCHANGED createTable
  BY DEF CreateGot
<1>3. /\ \A x \in Users : asked'["create"][x] \in {None, asked["create"][x]}
      /\ asked'["create"][u] = None
  BY <1>2, DropCreates DEF Cmds
<1>4. /\ \A i \in DOMAIN updates[u] : updates[u][i].cmd # "create"
      /\ m.kind # "delegate" => createTable[u] = None
  BY <1>1, <1>2 DEF CreatesFromNothing, ReadsNothing, MayCreate
<1>5. ReadsNothing(u)'
  BY <1>3 DEF ReadsNothing
<1>6. CreatesOnce(u)'
  <2>1. ASSUME NEW i \in DOMAIN updates'[u], updates'[u][i].cmd = "create"
        PROVE  updates'[u][i] = m /\ i = Len(updates[u]) + 1
    BY <1>1, <1>4, <2>1, SaveAppends
  <2> QED BY <1>2, <1>4, <2>1 DEF CreatesOnce
<1>7. ASSUME NEW x \in Users, x # u PROVE ReadsNothing(x)' /\ CreatesOnce(x)'
  <2>1. \A i \in DOMAIN updates'[x] : i \in DOMAIN updates[x] /\ updates'[x][i] = updates[x][i]
    BY <1>1, <1>7, SaveAppends
  <2> QED BY <1>2, <1>3, <2>1, NothingStays
<1> QED BY <1>5, <1>6, <1>7 DEF CreatesFromNothing

(* The update of a create is the only one of its kind, and once done it is *)
(* gone.                                                                   *)
LEMMA NothingUpdate ==
  ASSUME TypeInv, CreatesFromNothing, NEW u \in Users, UpdateAtUser(u)
  PROVE  CreatesFromNothing'
<1>1. updates[u] # << >> /\ updates' = [updates EXCEPT ![u] = Tail(@)]
  BY DEF UpdateAtUser
<1>2. PICK m : m = updates[u][1]
  OBVIOUS
<1>3. /\ m \in Update /\ 1 \in DOMAIN updates[u]
      /\ \A x \in Users : x # u => createTable'[x] = createTable[x]
      /\ createTable'[u] =
           IF m.cmd = "create" THEN IF m.kind = "delegate" THEN createTable[u] ELSE m.tid
           ELSE IF m.cmd = "enter" /\ m.tid = None THEN createTable[u] ELSE None
      /\ UNCHANGED asked
  BY <1>2, UpdateChanges
<1>4. /\ \A x \in Users : x # u => updates'[x] = updates[x]
      /\ \A i \in DOMAIN updates'[u] :
           /\ i \in Nat /\ i + 1 \in DOMAIN updates[u] /\ updates'[u][i] = updates[u][i + 1]
           /\ i + 1 # 1
  BY <1>1, HeadDone
<1>5. ASSUME NEW x \in Users, x # u PROVE ReadsNothing(x)' /\ CreatesOnce(x)'
  BY <1>3, <1>4, <1>5 DEF ReadsNothing, CreatesOnce, CreatesFromNothing
<1>6. CASE m.cmd = "create"
  <2>1. asked["create"][u] = None
    BY <1>2, <1>3, <1>6 DEF CreatesFromNothing, ReadsNothing
  <2>2. \A i \in DOMAIN updates'[u] : updates'[u][i].cmd # "create"
    BY <1>2, <1>3, <1>4, <1>6 DEF CreatesFromNothing, CreatesOnce
  <2>3. ReadsNothing(u)' /\ CreatesOnce(u)'
    BY <1>3, <2>1, <2>2 DEF ReadsNothing, CreatesOnce
  <2> QED BY <1>5, <2>3 DEF CreatesFromNothing
<1>7. CASE m.cmd # "create"
  <2>1. createTable'[u] \in {None, createTable[u]}
    BY <1>3, <1>7
  <2>2. ReadsNothing(u)'
    BY <1>3, <1>4, <2>1 DEF ReadsNothing, CreatesFromNothing
  <2>3. CreatesOnce(u)'
    <3> SUFFICES ASSUME NEW i \in DOMAIN updates'[u], updates'[u][i].cmd = "create"
                 PROVE  /\ updates'[u][i].kind # "delegate" => createTable'[u] = None
                        /\ \A j \in DOMAIN updates'[u] : updates'[u][j].cmd = "create" => j = i
      BY DEF CreatesOnce
    <3>1. i \in Nat /\ i + 1 \in DOMAIN updates[u] /\ updates'[u][i] = updates[u][i + 1]
      BY <1>4
    <3>2. /\ updates[u][i + 1].kind # "delegate" => createTable[u] = None
          /\ \A j \in DOMAIN updates[u] : updates[u][j].cmd = "create" => j = i + 1
      BY <3>1 DEF CreatesFromNothing, CreatesOnce
    <3>3. ASSUME NEW j \in DOMAIN updates'[u], updates'[u][j].cmd = "create" PROVE j = i
      <4>1. j \in Nat /\ j + 1 \in DOMAIN updates[u] /\ updates'[u][j] = updates[u][j + 1]
        BY <1>4, <3>3
      <4>2. j + 1 = i + 1
        BY <3>2, <3>3, <4>1
      <4> QED BY <3>1, <4>1, <4>2
    <3> QED BY <2>1, <3>1, <3>2, <3>3
  <2> QED BY <1>5, <2>2, <2>3 DEF CreatesFromNothing
<1> QED BY <1>6, <1>7

(* So does an expired session, and a restart.                              *)
LEMMA NothingExpired ==
  ASSUME TypeInv, CreatesFromNothing,
         Restart \/ \E c \in Cmds, u \in Users : SessionTimeout(c, u)
  PROVE  CreatesFromNothing'
<1>1. UNCHANGED createTable
  BY DEF Restart, SessionTimeout
<1>2. \A x \in Users : asked'["create"][x] \in {None, asked["create"][x]}
  <2>1. CASE Restart
    BY <2>1 DEF Restart, Cmds
  <2>2. ASSUME NEW c \in Cmds, NEW u \in Users, SessionTimeout(c, u)
        PROVE  \A x \in Users : asked'["create"][x] \in {None, asked["create"][x]}
    BY <2>2, DropCreates DEF SessionTimeout, Drop
  <2> QED BY <2>1, <2>2
<1>3. \A x \in Users : \A i \in DOMAIN updates'[x] :
        /\ i \in DOMAIN updates[x]
        /\ updates'[x][i].cmd = updates[x][i].cmd
        /\ updates'[x][i].kind = updates[x][i].kind
  BY RestartQueues, SessionTimeoutQueues
<1>4. ASSUME NEW x \in Users PROVE ReadsNothing(x)' /\ CreatesOnce(x)'
  BY <1>1, <1>2, <1>3, NothingStays
<1> QED BY <1>4 DEF CreatesFromNothing

(* So does a dissolution in the game.                                      *)
LEMMA NothingDissolves ==
  ASSUME TypeInv, CreatesFromNothing, NEW t \in Tids, NEW g \in Games, GameDissolves(t, g)
  PROVE  CreatesFromNothing'
<1>1. /\ createTable' = [ u \in Users |-> IF createTable[u] = t THEN None ELSE createTable[u] ]
      /\ UNCHANGED << asked, updates >>
  BY DEF GameDissolves, sessions
<1>2. ASSUME NEW x \in Users PROVE ReadsNothing(x)' /\ CreatesOnce(x)'
  <2>1. createTable'[x] \in {None, createTable[x]}
    BY <1>1
  <2> QED BY <1>1, <2>1, NothingStays
<1> QED BY <1>2 DEF CreatesFromNothing

(* Every step keeps that a create starts from nothing.                     *)
LEMMA NothingNext ==
  ASSUME TypeInv, CreatesFromNothing, [Next]_vars
  PROVE  CreatesFromNothing'
<1> DEFINE Same == UNCHANGED << asked, updates, createTable >>
<1>1. Same => CreatesFromNothing'
  BY DEF CreatesFromNothing, ReadsNothing, CreatesOnce
<1>2. ASSUME NEW u \in Users, NEW w \in Tids, RequestEnter(u, w) PROVE CreatesFromNothing'
  <2>1. /\ asked' = [asked EXCEPT !["enter"][u] = Read(u, w)]
        /\ UNCHANGED << updates, createTable >>
    BY <1>2 DEF RequestEnter, Ask, atUser
  <2>2. \A x \in Users : asked'["create"][x] = asked["create"][x]
    BY <2>1, OtherReadCreates DEF Cmds
  <2> QED BY <2>1, <2>2, NothingSession
<1>3. ASSUME NEW u \in Users, ClearAsked(u) PROVE CreatesFromNothing'
  <2>1. /\ asked' = [asked EXCEPT !["clear"][u] = Read(u, None)]
        /\ UNCHANGED << updates, createTable >>
    BY <1>3 DEF ClearAsked, atUser
  <2>2. \A x \in Users : asked'["create"][x] = asked["create"][x]
    BY <2>1, OtherReadCreates DEF Cmds
  <2> QED BY <2>1, <2>2, NothingSession
<1>4. ASSUME NEW u \in Users, CreateRefused(u) \/ CreateNoChips(u) \/ CreateDelegated(u)
      PROVE  CreatesFromNothing'
  <2>1. Drop("create", u) /\ UNCHANGED << updates, createTable >>
    BY <1>4 DEF CreateRefused, CreateNoChips, CreateDelegated, atUser
  <2>2. \A x \in Users : asked'["create"][x] \in {None, asked["create"][x]}
    BY <2>1, DropCreates DEF Cmds
  <2> QED BY <2>1, <2>2, NothingSession
<1>5. ASSUME NEW u \in Users, EnterForwarded(u) \/ EnterFails(u) PROVE CreatesFromNothing'
  <2>1. Drop("enter", u) /\ UNCHANGED << updates, createTable >>
    BY <1>5 DEF EnterForwarded, EnterFails, atUser
  <2>2. \A x \in Users : asked'["create"][x] \in {None, asked["create"][x]}
    BY <2>1, DropCreates DEF Cmds
  <2> QED BY <2>1, <2>2, NothingSession
<1>6. ASSUME NEW u \in Users, EnterReset(u) PROVE CreatesFromNothing'
  <2>1. PICK m \in Update : Save(u, m) /\ m.cmd = "enter"
    BY <1>6, EnterResetSaves
  <2>2. Drop("enter", u) /\ UNCHANGED createTable
    BY <1>6 DEF EnterReset
  <2>3. \A x \in Users : asked'["create"][x] \in {None, asked["create"][x]}
    BY <2>2, DropCreates DEF Cmds
  <2>4. m.cmd # "create"
    BY <2>1
  <2> QED BY <2>1, <2>2, <2>3, <2>4, NothingSession
<1>7. ASSUME NEW u \in Users, ClearGot(u) PROVE CreatesFromNothing'
  <2>1. Drop("clear", u) /\ UNCHANGED createTable
    BY <1>7 DEF ClearGot
  <2>2. \A x \in Users : asked'["create"][x] \in {None, asked["create"][x]}
    BY <2>1, DropCreates DEF Cmds
  <2>3. UNCHANGED updates \/ \E m \in Update : Save(u, m) /\ m.cmd # "create"
    BY <1>7, ClearGotSaves
  <2> QED BY <2>1, <2>2, <2>3, NothingSession
<1>8. ASSUME NEW f \in forwards, GameSeats(f) \/ GameRefuses(f) PROVE Same
  BY <1>8 DEF GameSeats, GameRefuses, atUser
<1>9. ASSUME NEW t \in Tids, TableDissolved(t) \/ Day(t) PROVE Same
  BY <1>9 DEF TableDissolved, Day, sessions, atUser
<1>10. ASSUME NEW g \in Games, ReportGame(g) \/ RetireGame(g) \/ CloseGame(g) PROVE Same
  BY <1>10 DEF ReportGame, RetireGame, CloseGame, GamesOnly, sessions, atUser
<1>11. ASSUME RecycleTimer PROVE Same
  BY <1>11 DEF RecycleTimer, atUser
<1>12. ASSUME UNCHANGED vars PROVE Same
  BY <1>12 DEF vars, sessions, atUser
<1> HIDE DEF Same
<1>13. ASSUME NEW u \in Users,
              \/ RequestCreate(u) \/ \E t \in Tids : RequestEnter(u, t)
              \/ CreateRefused(u) \/ CreateNoChips(u) \/ CreateGot(u) \/ CreateDelegated(u)
              \/ EnterReset(u) \/ EnterForwarded(u) \/ EnterFails(u)
              \/ UpdateAtUser(u) \/ ClearAsked(u) \/ ClearGot(u)
              \/ \E c \in Cmds : SessionTimeout(c, u)
       PROVE  CreatesFromNothing'
  BY <1>2, <1>3, <1>4, <1>5, <1>6, <1>7, <1>13, NothingRequestCreate, NothingCreateGot,
     NothingUpdate, NothingExpired
<1>14. CASE Next
  BY <1>1, <1>8, <1>9, <1>10, <1>11, <1>13, <1>14, NothingDissolves, NothingExpired DEF Next
<1> QED BY <1>1, <1>12, <1>14

(* What OwnerKnowsTable says of the id t: a user with no way out knows it. *)
Excused(u) ==
  \E why \in {"dead game", "lost notice", "delegate", "cleared"} : << u, why >> \in strayed
Knows(t) ==
  owner[t] \in Users /\ t \notin notices /\ ~Lost(t) /\ ~Excused(owner[t])
    => createTable[owner[t]] = t

(* The invariant of the run, id by id.                                     *)
LEMMA KnowsIsProperty == (\A t \in Tids : Knows(t)) <=> OwnerKnowsTable
BY DEF Knows, Excused, Lost, OwnerKnowsTable

(* Owners, tables and notices stay as they are.                            *)
LEMMA KnowsSame ==
  ASSUME NEW t \in Tids, Knows(t), strayed \subseteq strayed',
         owner'[t] \in Users => owner'[t] = owner[t],
         t \notin notices' => t \notin notices,
         owner[t] \in Users => createTable'[owner[t]] = createTable[owner[t]]
  PROVE  Knows(t)'
BY DEF Knows, Excused, Lost

(* A delegated table belongs to a user who is marked for it.               *)
LEMMA KnowsDelegated ==
  ASSUME TypeInv, NEW t \in Tids, Knows(t), strayed \subseteq strayed',
         NEW u \in Users, CreateDelegated(u)
  PROVE  Knows(t)'
<1>1. PICK d \in Tids, up \in RedisUp("set") :
        BindTidForUser(u, [ cmd |-> "create", kind |-> "delegate", tid |-> d, live |-> TRUE ], up)
  BY DEF CreateDelegated
<1>2. << u, "delegate" >> \in strayed'
  BY <1>1 DEF BindTidForUser
<1>3. owner' = owner \/ owner' = [owner EXCEPT ![d] = u]
  BY <1>1 DEF BindTidForUser
<1>4. UNCHANGED << notices, createTable >>
  BY DEF CreateDelegated, atUser
<1>5. owner'[t] = owner[t] \/ owner'[t] = u
  BY <1>3 DEF TypeInv, TypeOK
<1>6. CASE owner'[t] = owner[t]
  BY <1>4, <1>6, KnowsSame
<1>7. CASE owner'[t] = u
  BY <1>2, <1>7 DEF Knows, Excused
<1> QED BY <1>5, <1>6, <1>7

(* A creation binds its user to the table it gives him, and takes no other *)
(* from him; a reset that takes a table he owns is counted.                *)
LEMMA KnowsUpdate ==
  ASSUME TypeInv, CreatesFromNothing, NEW t \in Tids, Knows(t), strayed \subseteq strayed',
         NEW u \in Users, UpdateAtUser(u)
  PROVE  Knows(t)'
<1>1. PICK m : m = updates[u][1]
  OBVIOUS
<1>2. /\ m \in Update /\ 1 \in DOMAIN updates[u]
      /\ \A x \in Users : x # u => createTable'[x] = createTable[x]
      /\ createTable'[u] =
           IF m.cmd = "create" THEN IF m.kind = "delegate" THEN createTable[u] ELSE m.tid
           ELSE IF m.cmd = "enter" /\ m.tid = None THEN createTable[u] ELSE None
      /\ UNCHANGED notices
      /\ \/ /\ m.cmd = "create" /\ m.live
            /\ \E up \in BOOLEAN : BindTidForUser(u, m, up)
         \/ /\ ~(m.cmd = "create" /\ m.live) /\ UNCHANGED owner
            /\ strayed' = strayed \cup
                 (IF createTable'[u] = None /\ Hits(u, m)
                  THEN {<< u, IF m.cmd = "clear" THEN "cleared" ELSE "dead game" >>}
                  ELSE {})
  BY <1>1, UpdateChanges
<1>3. None # t
  BY RoomAssumption
<1>4. m.cmd = "create" /\ m.kind # "delegate" => createTable[u] = None
  BY <1>1, <1>2 DEF CreatesFromNothing, CreatesOnce
<1>5. ASSUME owner'[t] = owner[t] PROVE Knows(t)'
  <2> SUFFICES ASSUME owner'[t] \in Users, t \notin notices', ~Lost(t)', ~Excused(owner[t])'
               PROVE  createTable'[owner[t]] = t
    BY <1>5 DEF Knows
  <2>1. createTable[owner[t]] = t
    BY <1>2, <1>5 DEF Knows, Excused, Lost
  <2>2. CASE owner[t] # u
    BY <1>2, <1>5, <2>1, <2>2
  <2>3. CASE owner[t] = u /\ m.cmd = "create"
    BY <1>2, <1>3, <1>4, <2>1, <2>3
  <2>4. CASE owner[t] = u /\ m.cmd # "create"
    <3>1. createTable'[u] = createTable[u] \/ createTable'[u] = None
      BY <1>2, <2>4
    <3>2. createTable'[u] # None
      <4> SUFFICES ASSUME createTable'[u] = None PROVE FALSE
        OBVIOUS
      <4>1. Hits(u, m)
        BY <1>3, <2>1, <2>4 DEF Hits
      <4>2. << u, IF m.cmd = "clear" THEN "cleared" ELSE "dead game" >> \in strayed'
        BY <1>2, <2>4, <4>1
      <4>3. << u, "cleared" >> \in strayed' \/ << u, "dead game" >> \in strayed'
        BY <4>2
      <4> QED BY <1>5, <2>4, <4>3 DEF Excused
    <3> QED BY <2>1, <2>4, <3>1, <3>2
  <2> QED BY <2>2, <2>3, <2>4
<1>6. ASSUME owner'[t] # owner[t] PROVE Knows(t)'
  <2>1. PICK up \in BOOLEAN : BindTidForUser(u, m, up)
    BY <1>2, <1>6
  <2>2. m.cmd = "create"
    BY <1>2, <1>6
  <2>3. t = m.tid
    BY <1>6, <2>1, BindChanges
  <2>4. owner' = owner \/ owner' = [owner EXCEPT ![m.tid] = u]
    BY <2>1 DEF BindTidForUser
  <2>5. owner \in [Tids -> Users \cup {None, Gone}]
    BY DEF TypeInv, TypeOK
  <2>6. owner'[t] = u
    BY <1>6, <2>3, <2>4, <2>5
  <2>7. CASE m.kind = "delegate"
    <3>1. << u, "delegate" >> \in strayed'
      BY <2>1, <2>7 DEF BindTidForUser
    <3> QED BY <2>6, <3>1 DEF Knows, Excused
  <2>8. CASE m.kind # "delegate"
    BY <1>2, <2>2, <2>3, <2>6, <2>8 DEF Knows
  <2> QED BY <2>7, <2>8
<1> QED BY <1>5, <1>6

(* After a dissolution in the game its notice is on the way to the room.   *)
LEMMA KnowsGameDissolves ==
  ASSUME NEW t \in Tids, Knows(t), NEW d \in Tids, NEW g \in Games, GameDissolves(d, g)
  PROVE  Knows(t)'
<1>1. /\ createTable' = [ u \in Users |-> IF createTable[u] = d THEN None ELSE createTable[u] ]
      /\ notices' = notices \cup {d} /\ UNCHANGED << owner, strayed >>
  BY DEF GameDissolves, redis
<1>2. CASE t = d
  BY <1>1, <1>2 DEF Knows
<1>3. CASE t # d
  BY <1>1, <1>3 DEF Knows, Excused, Lost
<1> QED BY <1>2, <1>3

(* Dissolving unbinds the owner, or the id is lost; an id that is not      *)
(* taken has no owner to unbind.                                           *)
LEMMA KnowsDissolves ==
  ASSUME TypeInv, BInv, NEW t \in Tids, Knows(t), strayed \subseteq strayed',
         NEW ts, NEW up \in BOOLEAN, DissolveTables(ts, up),
         strayed' = strayed \cup (IF up THEN {} ELSE Undeleted(ts)),
         t \notin ts => (t \notin notices' => t \notin notices), UNCHANGED createTable
  PROVE  Knows(t)'
<1>1. owner' = [ x \in Tids |-> IF x \in (ts \cap alloced) /\ up THEN None ELSE owner[x] ]
  BY DEF DissolveTables
<1>2. None \notin Users
  BY RoomAssumption
<1>3. owner'[t] \in Users => owner'[t] = owner[t]
  BY <1>1, <1>2
<1>4. CASE t \notin ts
  BY <1>3, <1>4, KnowsSame
<1>5. CASE t \in ts
  <2> SUFFICES ASSUME owner'[t] \in Users, ~Lost(t)' PROVE FALSE
    BY DEF Knows
  <2>1. owner[t] \in Users /\ ~Lost(t)
    BY <1>3 DEF Lost
  <2>2. t \in alloced
    BY <2>1 DEF BInv, Steady
  <2>3. ~up
    BY <1>1, <1>2, <1>5, <2>2
  <2>4. << t, "redis" >> \in Undeleted(ts)
    BY <1>5, <2>1, <2>2 DEF Undeleted, Owned
  <2> QED BY <2>3, <2>4 DEF Lost
<1> QED BY <1>4, <1>5

(* The notices a restart loses leave a mark with the owner.                *)
LEMMA KnowsRestart ==
  ASSUME NEW t \in Tids, Knows(t), strayed \subseteq strayed', Restart
  PROVE  Knows(t)'
<1>1. PICK lost \in SUBSET notices :
        notices' = notices \ lost /\ strayed' = strayed \cup Unheard(lost)
  BY DEF Restart
<1>2. UNCHANGED << owner, createTable >>
  BY DEF Restart, redis
<1>3. CASE t \in lost /\ owner[t] \in Users
  <2>1. << owner[t], "lost notice" >> \in strayed'
    BY <1>1, <1>3 DEF Unheard, Owned
  <2> QED BY <1>2, <2>1 DEF Knows, Excused
<1>4. CASE t \notin lost \/ owner[t] \notin Users
  BY <1>1, <1>2, <1>4 DEF Knows, Excused, Lost
<1> QED BY <1>3, <1>4

(* Every step keeps that the owner knows his table.                        *)
LEMMA KnowsNext ==
  ASSUME TypeInv, BInv, CreatesFromNothing, [Next]_vars, NEW t \in Tids, Knows(t)
  PROVE  Knows(t)'
<1> DEFINE Same == UNCHANGED << owner, createTable, notices >>
<1>1. strayed \subseteq strayed'
  BY StrayedGrows
<1>2. Same => Knows(t)'
  BY <1>1, KnowsSame
<1>3. ASSUME NEW u \in Users,
             \/ RequestCreate(u) \/ \E w \in Tids : RequestEnter(u, w)
             \/ CreateRefused(u) \/ CreateNoChips(u) \/ CreateGot(u)
             \/ EnterReset(u) \/ EnterForwarded(u) \/ EnterFails(u)
             \/ ClearAsked(u) \/ ClearGot(u)
             \/ \E c \in Cmds : SessionTimeout(c, u)
      PROVE  Same
  <2>1. CASE RequestCreate(u) \/ \E w \in Tids : RequestEnter(u, w)
    BY <2>1 DEF RequestCreate, RequestEnter, Ask, redis, atUser, atGame
  <2>2. CASE CreateRefused(u) \/ CreateNoChips(u) \/ CreateGot(u)
    BY <2>2 DEF CreateRefused, CreateNoChips, CreateGot, redis, atUser, atGame
  <2>3. CASE EnterReset(u) \/ EnterForwarded(u) \/ EnterFails(u)
    BY <2>3 DEF EnterReset, EnterForwarded, EnterFails, redis, atUser, atGame
  <2>4. CASE ClearAsked(u) \/ ClearGot(u) \/ \E c \in Cmds : SessionTimeout(c, u)
    BY <2>4 DEF ClearAsked, ClearGot, SessionTimeout, redis, atUser, atGame
  <2> QED BY <1>3, <2>1, <2>2, <2>3, <2>4
<1>4. ASSUME NEW f \in forwards, GameSeats(f) \/ GameRefuses(f) PROVE Same
  BY <1>4 DEF GameSeats, GameRefuses, redis, atUser, atGame
<1>5. ASSUME NEW d \in Tids, TableDissolved(d) PROVE Knows(t)'
  <2>1. PICK up \in RedisUp("del") :
          DissolveTables({d}, up) /\ strayed' = strayed \cup (IF up THEN {} ELSE Undeleted({d}))
    BY <1>5 DEF TableDissolved
  <2>2. up \in BOOLEAN
    BY DEF RedisUp
  <2>3. UNCHANGED createTable /\ (t \notin {d} => (t \notin notices' => t \notin notices))
    BY <1>5 DEF TableDissolved, atUser
  <2> QED BY <1>1, <2>1, <2>2, <2>3, KnowsDissolves
<1>6. ASSUME NEW d \in Tids, Day(d) PROVE Same
  BY <1>6 DEF Day, redis, atUser, atGame
<1>7. ASSUME NEW g \in Games, ReportGame(g) \/ RetireGame(g) \/ CloseGame(g) PROVE Same
  BY <1>7 DEF ReportGame, RetireGame, CloseGame, GamesOnly, redis, atUser
<1>8. ASSUME RecycleTimer PROVE Knows(t)'
  <2>1. PICK up \in RedisUp("del") :
          /\ DissolveTables(Recycled, up)
          /\ strayed' = strayed \cup (IF up THEN {} ELSE Undeleted(Recycled))
    BY <1>8 DEF RecycleTimer
  <2>2. up \in BOOLEAN
    BY DEF RedisUp
  <2>3. UNCHANGED << createTable, notices >>
    BY <1>8 DEF RecycleTimer, atUser, atGame
  <2> QED BY <1>1, <2>1, <2>2, <2>3, KnowsDissolves
<1>9. ASSUME UNCHANGED vars PROVE Same
  BY <1>9 DEF vars, redis, atUser, atGame
<1> HIDE DEF Same
<1>10. ASSUME NEW u \in Users,
              \/ RequestCreate(u) \/ \E w \in Tids : RequestEnter(u, w)
              \/ CreateRefused(u) \/ CreateNoChips(u) \/ CreateGot(u) \/ CreateDelegated(u)
              \/ EnterReset(u) \/ EnterForwarded(u) \/ EnterFails(u)
              \/ UpdateAtUser(u) \/ ClearAsked(u) \/ ClearGot(u)
              \/ \E c \in Cmds : SessionTimeout(c, u)
       PROVE  Knows(t)'
  BY <1>1, <1>2, <1>3, <1>10, KnowsDelegated, KnowsUpdate
<1>11. CASE Next
  BY <1>1, <1>2, <1>4, <1>5, <1>6, <1>7, <1>8, <1>10, <1>11, KnowsGameDissolves, KnowsRestart
  DEF Next
<1> QED BY <1>2, <1>9, <1>11

(* The two records of who owns which table agree: for any users, ids,      *)
(* games, requests and faults, an owner in Redis has that table as his     *)
(* Create_Table, unless its end is being announced or one of the ways out  *)
(* of strayed was taken.  It is assumed that an id is not drawn again      *)
(* while an old table of it is about.                                      *)
THEOREM OwnersKnow == ASSUME ~ReusesAtOnce PROVE Spec => []OwnerKnowsTable
<1> DEFINE Inv == BInv /\ IInv /\ CreatesFromNothing /\ \A t \in Tids : Knows(t)
<1>1. Init => Inv
  <2> SUFFICES ASSUME Init PROVE Inv
    OBVIOUS
  <2>1. CreatesFromNothing
    BY DEF Init, CreatesFromNothing, ReadsNothing, CreatesOnce, Cmds
  <2>2. \A t \in Tids : Knows(t)
    BY RoomAssumption DEF Init, Knows
  <2> QED BY <2>1, <2>2, BoundInit, IdsInit
<1>2. Inv /\ [Next]_vars => Inv'
  <2> SUFFICES ASSUME Inv, [Next]_vars PROVE Inv'
    OBVIOUS
  <2>1. BInv' /\ IInv'
    BY BoundNext, IdsNext
  <2>2. TypeInv
    BY DEF BInv
  <2>3. CreatesFromNothing'
    BY <2>2, NothingNext
  <2>4. \A t \in Tids : Knows(t)'
    BY <2>2, KnowsNext
  <2> QED BY <2>1, <2>3, <2>4
<1>3. Inv => OwnerKnowsTable
  BY KnowsIsProperty
<1> QED BY <1>1, <1>2, <1>3, PTL DEF Spec
=============================================================================
