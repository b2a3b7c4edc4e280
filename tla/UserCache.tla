------------------------------ MODULE UserCache ------------------------------
(***************************************************************************)
(* The data of one user as the user server caches it (UserManager), as     *)
(* Redis stores it behind the dbproxy, and as other servers read and       *)
(* update it: CRequestGetUserData and CReuqestUpdateUserData with the two  *)
(* answers they wait for, and the timer that evicts what has not been      *)
(* stamped for half an hour.                                               *)
(*                                                                         *)
(* Nothing the servers do for one user reads the data of another, so one   *)
(* user is enough.  A value is the set of the updates it contains: an      *)
(* update reads the cached value and writes it back with its own change.   *)
(* All requests of a user go to one dbproxy (EN_Route_hash) over one       *)
(* connection each way, so messages keep their order; they may be lost     *)
(* with a connection.  An answer finds its session by the number of the    *)
(* request: that ids are not confused is what SessionPool is about.        *)
(***************************************************************************)
EXTENDS Naturals, Sequences, FiniteSets

CONSTANTS
  Keys,          \* PBUserDataField: the parts of a user's data
  InfoKey,       \* kUserInfo, the one key that exists for every user
  Nil,           \* no value: the field is absent in Redis (REPLY_NULL)
  Failed,        \* the command failed in Redis (REPLY_ERROR)
  None,          \* no session
  Concurrent,    \* bound: requests for the user in work together
  MaxRequests    \* bound: requests for the user in one behaviour

Requests == 1 .. MaxRequests
Values   == SUBSET Requests
Parts    == UNION { [ks -> Values] : ks \in SUBSET Keys }
Answered == UNION { [ks -> Values \cup {Nil, Failed}] : ks \in SUBSET Keys }

(* A session of the user server between two packets.  wait is _fsm_state;  *)
(* after says that it began after the last stamp of _userdata_lru_map.     *)
Session == [ kind : {"Get", "Update"}, keys : SUBSET Keys,
             wait : {"Query", "Save"}, after : BOOLEAN ]

ASSUME CacheAssumption ==
  /\ InfoKey \in Keys
  /\ Concurrent \in Nat /\ MaxRequests \in Nat
  /\ Nil # Failed /\ \A v \in Values : v # Nil /\ v # Failed
  /\ None \notin Session

ToDb   == [ kind : {"Query"}, of : Requests, keys : SUBSET Keys ]
     \cup [ kind : {"Save"}, of : Requests, data : Parts ]
FromDb == [ kind : {"Query"}, of : Requests, data : Answered ]
     \cup [ kind : {"Save"}, of : Requests, keys : SUBSET Keys ]

VARIABLES
  cache,      \* _userdatamap[uid]: the keys it has, with their values
  entry,      \* _userdatamap has the user, possibly without any key
  stamp,      \* _userdata_lru_map[uid]: "none", "fresh", "old"
  work,       \* the sessions of the user server, by request
  toDb,       \* messages to the dbproxy
  fromDb,     \* messages from the dbproxy
  store,      \* the fields of the user in Redis
  requests,   \* number of requests so far
  acked,      \* updates answered EN_MESSAGE_ERROR_OK, for each key
  refused,    \* updates answered EN_MESSAGE_DB_SAVE_FAILED
  crossed,    \* history: keys that were asked for while another request waited for them
  failed      \* history: keys of which Redis did not store a save

history == << crossed, failed >>
vars == << cache, entry, stamp, work, toDb, fromDb, store, requests, acked, refused, history >>

TypeOK ==
  /\ \A k \in DOMAIN cache : cache[k] \notin {Nil, Failed}
  /\ cache \in Parts
  /\ entry \in BOOLEAN
  /\ stamp \in {"none", "fresh", "old"}
  /\ work \in [Requests -> Session \cup {None}]
  /\ toDb \in Seq(ToDb) /\ fromDb \in Seq(FromDb)
  /\ store \in [Keys -> Values \cup {Nil}]
  /\ requests \in 0 .. MaxRequests
  /\ acked \in [Keys -> Values]
  /\ refused \in Values
  /\ crossed \subseteq Keys /\ failed \subseteq Keys

NoData == [ k \in {} |-> {} ]

(* A registered user: kUserInfo is written when the account is made, the   *)
(* other keys may not exist yet.                                           *)
Init ==
  /\ cache = NoData /\ entry = FALSE /\ stamp = "none"
  /\ work = [ n \in Requests |-> None ]
  /\ toDb = << >> /\ fromDb = << >>
  /\ store \in { st \in [Keys -> {{}, Nil}] : st[InfoKey] = {} }
  /\ requests = 0
  /\ acked = [ k \in Keys |-> {} ]
  /\ refused = {} /\ crossed = {} /\ failed = {}

-----------------------------------------------------------------------------
InWork == { n \in Requests : work[n] # None }

(* CheckUserData: the keys to ask the dbproxy for. *)
Missing(keys, c) == keys \ DOMAIN c

(* A stamp is put on the user; the sessions in work began before it. *)
Stamped(sessions) ==
  [ n \in Requests |-> IF sessions[n] = None THEN None
                       ELSE [sessions[n] EXCEPT !.after = FALSE] ]

(* GetUserData stamps a user that is not in the cache and no other: in any *)
(* other step the stamp is left as it was.                                 *)
Look(present, sessions) ==
  IF present THEN stamp' = stamp /\ work' = sessions
  ELSE stamp' = "fresh" /\ work' = Stamped(sessions)

Ended(n)      == [work EXCEPT ![n] = None]
Waiting(n, s) == [work EXCEPT ![n] = s]

NewSession(kind, keys) ==
  [ kind |-> kind, keys |-> keys, wait |-> "Query", after |-> TRUE ]

(* The keys with update n in them. *)
Updated(c, keys, n) == [ k \in DOMAIN c |-> IF k \in keys THEN c[k] \cup {n} ELSE c[k] ]

Part(c, keys) == [ k \in keys |-> c[k] ]

(* Mutant of UpdateData: a refused update is not rolled back. *)
M_UpdateDataNoRollback(n, s, c) ==
  \E done \in SUBSET (s.keys \cap DOMAIN c) :
    /\ cache' = Updated(c, done, n)
    /\ IF done = s.keys
       THEN /\ work' = Waiting(n, [s EXCEPT !.wait = "Save"])
            /\ toDb' = Append(toDb, [ kind |-> "Save", of |-> n,
                                      data |-> Part(Updated(c, done, n), done) ])
            /\ UNCHANGED << stamp, acked, refused >>
       ELSE /\ refused' = refused \cup {n}
            /\ Look(FALSE, Ended(n))
            /\ UNCHANGED << toDb, acked >>

(* Mutant of UpdateData: the client is answered when the save is sent. *)
M_UpdateDataAnswersAtOnce(n, s, c) ==
  \E done \in SUBSET (s.keys \cap DOMAIN c) :
    IF done = s.keys
    THEN /\ cache' = Updated(c, done, n)
         /\ work' = Waiting(n, [s EXCEPT !.wait = "Save"])
         /\ toDb' = Append(toDb, [ kind |-> "Save", of |-> n,
                                   data |-> Part(Updated(c, done, n), done) ])
         /\ acked' = [ k \in Keys |-> IF k \in done THEN acked[k] \cup {n} ELSE acked[k] ]
         /\ UNCHANGED << stamp, refused >>
    ELSE /\ cache' = c
         /\ refused' = refused \cup {n}
         /\ Look(FALSE, Ended(n))
         /\ UNCHANGED << toDb, acked >>

(* CReuqestUpdateUserData::OnUpdateData: the keys are updated in the cache *)
(* one after another.  A key that is absent, or whose fields are refused,  *)
(* ends the request, and UpdateUserData puts the copy made before the      *)
(* first key back under a fresh stamp.  Otherwise the new values are saved.*)
UpdateData(n, s, c) ==
  \E done \in SUBSET (s.keys \cap DOMAIN c) :
    IF done = s.keys
    THEN /\ cache' = Updated(c, done, n)
         /\ work' = Waiting(n, [s EXCEPT !.wait = "Save"])
         /\ toDb' = Append(toDb, [ kind |-> "Save", of |-> n,
                                   data |-> Part(Updated(c, done, n), done) ])
         /\ UNCHANGED << stamp, acked, refused >>
    ELSE /\ cache' = c
         /\ refused' = refused \cup {n}
         /\ Look(FALSE, Ended(n))
         /\ UNCHANGED << toDb, acked >>

-----------------------------------------------------------------------------
(* Keys that a request asks for while another waits for an answer with     *)
(* them: nothing keeps it from that.                                       *)
Crossed(keys) ==
  { k \in keys : \E m \in InWork : work[m].wait = "Query" /\ k \in work[m].keys }

(* Another server asks for, or updates, some keys of the user. *)
Request(kind, keys) ==
  LET n == requests + 1
      s == NewSession(kind, keys)
  IN
  /\ requests < MaxRequests
  /\ Cardinality(InWork) < Concurrent
  /\ requests' = n
  /\ crossed' = crossed \cup Crossed(Missing(keys, cache))
  /\ IF Missing(keys, cache) # {}
     THEN /\ Look(entry, Waiting(n, s))
          /\ toDb' = Append(toDb, [ kind |-> "Query", of |-> n,
                                    keys |-> Missing(keys, cache) ])
          /\ UNCHANGED << cache, acked, refused >>
     ELSE IF kind = "Get"
     THEN UNCHANGED << cache, stamp, work, toDb, acked, refused >>
     ELSE UpdateData(n, s, cache)
  /\ UNCHANGED << entry, fromDb, store, failed >>

(* CRequestQueryData in the dbproxy.  When Redis fails, every field of the *)
(* message that is read after that fails.                                  *)
QueryData(m) ==
  /\ \E bad \in SUBSET m.keys :
       fromDb' = Append(fromDb,
         [ kind |-> "Query", of |-> m.of,
           data |-> [ k \in m.keys |-> IF k \in bad THEN Failed ELSE store[k] ] ])
  /\ UNCHANGED << store, failed >>

(* CRequestSaveData in the dbproxy: SaveDataField does not look at what    *)
(* _SaveDataField returns, so every key is answered as saved.              *)
SaveData(m) ==
  /\ \E bad \in SUBSET DOMAIN m.data :
       /\ store' = [ k \in Keys |-> IF k \in DOMAIN m.data \ bad THEN m.data[k] ELSE store[k] ]
       /\ failed' = failed \cup bad
  /\ fromDb' = Append(fromDb, [ kind |-> "Save", of |-> m.of, keys |-> DOMAIN m.data ])

(* Mutant of DbTake: requests may go to any dbproxy, and a later one be    *)
(* handled first.                                                          *)
M_DbTakeAnyOrder ==
  \E i \in DOMAIN toDb :
    /\ toDb' = [ j \in 1 .. Len(toDb) - 1 |-> IF j < i THEN toDb[j] ELSE toDb[j + 1] ]
    /\ IF toDb[i].kind = "Query" THEN QueryData(toDb[i]) ELSE SaveData(toDb[i])
    /\ UNCHANGED << cache, entry, stamp, work, requests, acked, refused, crossed >>

DbTake ==
  /\ toDb # << >>
  /\ toDb' = Tail(toDb)
  /\ IF Head(toDb).kind = "Query" THEN QueryData(Head(toDb)) ELSE SaveData(Head(toDb))
  /\ UNCHANGED << cache, entry, stamp, work, requests, acked, refused, crossed >>

(* Mutant of Parsed: what the query found is copied without a look at      *)
(* whether there was a value.                                              *)
M_ParsedUnchecked(c, data) ==
  [ k \in DOMAIN c \cup DOMAIN data |-> IF k \in DOMAIN data THEN data[k] ELSE c[k] ]

(* OnParseUserData: a field with a value replaces what is cached, a field  *)
(* that is absent creates its key (but not kUserInfo), a failed one is     *)
(* skipped.                                                                *)
Parsed(c, data) ==
  LET read    == { k \in DOMAIN data : data[k] \notin {Nil, Failed} }
      created == { k \in DOMAIN data \ {InfoKey} : data[k] = Nil }
  IN  [ k \in DOMAIN c \cup read \cup created |->
          IF k \in read THEN data[k] ELSE IF k \in DOMAIN c THEN c[k] ELSE {} ]

Answer == Head(fromDb)

(* ProcessPacket of an answer whose session is gone. *)
UserTakeNobody ==
  /\ fromDb # << >>
  /\ work[Answer.of] = None
  /\ fromDb' = Tail(fromDb)
  /\ UNCHANGED << cache, entry, stamp, work, toDb, store, requests, acked, refused, history >>

(* ProcessDBProxyMsg with the answer to a query: the data is cached, then  *)
(* the request goes on with what there is.                                 *)
UserTakeQuery ==
  LET n == Answer.of
      c == Parsed(cache, Answer.data)
  IN
  /\ fromDb # << >>
  /\ Answer.kind = "Query"
  /\ work[n] # None /\ work[n].wait = "Query"
  /\ fromDb' = Tail(fromDb)
  /\ entry' = TRUE
  /\ IF work[n].kind = "Get"
     THEN /\ cache' = c
          /\ work' = Ended(n)
          /\ UNCHANGED << stamp, toDb, acked, refused >>
     ELSE UpdateData(n, work[n], c)
  /\ UNCHANGED << store, requests, history >>

(* OnUpdateDataRsp: the request is answered OK if its keys are still in    *)
(* the cache.                                                              *)
UserTakeSave ==
  LET n == Answer.of IN
  /\ fromDb # << >>
  /\ Answer.kind = "Save"
  /\ work[n] # None /\ work[n].wait = "Save"
  /\ fromDb' = Tail(fromDb)
  /\ IF Missing(Answer.keys, cache) = {}
     THEN acked' = [ k \in Keys |-> IF k \in Answer.keys THEN acked[k] \cup {n} ELSE acked[k] ]
     ELSE acked' = acked
  /\ Look(entry, Ended(n))
  /\ UNCHANGED << cache, entry, toDb, store, requests, refused, history >>

(* The session timer: nobody is answered. *)
Timeout(n) ==
  /\ work[n] # None
  /\ work' = Ended(n)
  /\ UNCHANGED << cache, entry, stamp, toDb, fromDb, store, requests, acked, refused, history >>

(* A message is lost with its connection. *)
Lose ==
  /\ \/ toDb # << >> /\ toDb' = Tail(toDb) /\ fromDb' = fromDb
     \/ fromDb # << >> /\ fromDb' = Tail(fromDb) /\ toDb' = toDb
  /\ UNCHANGED << cache, entry, stamp, work, store, requests, acked, refused, history >>

(* Half an hour passes.  A session lasts five seconds, so none of those    *)
(* that were in work when the user was stamped is still there.             *)
Age ==
  /\ stamp = "fresh"
  /\ \A n \in InWork : work[n].after
  /\ stamp' = "old"
  /\ UNCHANGED << cache, entry, work, toDb, fromDb, store, requests, acked, refused, history >>

(* UserManager::ProcessOnTimerOut, every minute. *)
Evict ==
  /\ stamp = "old"
  /\ cache' = NoData /\ entry' = FALSE /\ stamp' = "none"
  /\ UNCHANGED << work, toDb, fromDb, store, requests, acked, refused, history >>

Next ==
  \/ \E kind \in {"Get", "Update"}, keys \in SUBSET Keys \ {{}} : Request(kind, keys)
  \/ DbTake
  \/ UserTakeNobody
  \/ UserTakeQuery
  \/ UserTakeSave
  \/ \E n \in Requests : Timeout(n)
  \/ Lose
  \/ Age
  \/ Evict

Spec == Init /\ [][Next]_vars

-----------------------------------------------------------------------------
(* An update that was acknowledged stays: it is in Redis and, as long as   *)
(* its key is cached, in the cache, whatever other updates, evictions,     *)
(* timeouts and lost messages follow.  Except of a key that two requests   *)
(* once waited for together (the second answer overwrites the first        *)
(* request's update, OnParseUserData) and of one whose save Redis did not  *)
(* store (SaveDataField answers as if it had).                             *)
AckedKept ==
  \A k \in Keys \ (crossed \cup failed) :
    /\ acked[k] # {} => store[k] # Nil /\ acked[k] \subseteq store[k]
    /\ k \in DOMAIN cache => acked[k] \subseteq cache[k]

(* An update that was answered with EN_MESSAGE_DB_SAVE_FAILED leaves no    *)
(* trace in the cache, in Redis or on its way there: the keys that were    *)
(* updated before the one that failed are rolled back (comment in          *)
(* OnUpdateData), also after the answer of a query and a new eviction.     *)
RefusedLeavesNoTrace ==
  /\ \A k \in DOMAIN cache : cache[k] \cap refused = {}
  /\ \A k \in Keys : store[k] # Nil => store[k] \cap refused = {}
  /\ \A i \in DOMAIN toDb : toDb[i].kind = "Save" =>
       \A k \in DOMAIN toDb[i].data : toDb[i].data[k] \cap refused = {}

(* The dbproxy is asked for what the cache lacks, and its answer fills     *)
(* that in (comments in CRequestGetUserData and CReuqestUpdateUserData):   *)
(* a key that is cached does not lose an update to it.                     *)
FillKeepsUpdates ==
  [][ \A k \in DOMAIN cache \cap DOMAIN cache' : cache[k] \subseteq cache'[k] ]_vars

(* It loses none if no two requests waited for the key together.           *)
UncrossedFillKeepsUpdates ==
  [][ \A k \in (DOMAIN cache \cap DOMAIN cache') \ crossed : cache[k] \subseteq cache'[k] ]_vars

(* What a key holds in Redis only grows: no save that comes later was made *)
(* from an older value, whatever Redis refuses and whichever messages are  *)
(* lost, if no two requests waited for the key together.                   *)
StoreOnlyGrows ==
  [][ \A k \in Keys \ crossed :
        store[k] # Nil => store'[k] # Nil /\ store[k] \subseteq store'[k] ]_vars
=============================================================================
