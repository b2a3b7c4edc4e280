--------------------------- MODULE UserCache_proofs ---------------------------
(***************************************************************************)
(* Proofs about UserCache, for any set of keys and any number of requests  *)
(* in work together.                                                       *)
(*                                                                         *)
(* A refused update leaves no trace because of where the number of an      *)
(* update can be: nowhere while the request has not been made or waits for *)
(* a query, and, once it was refused, never again.  The numbers that may   *)
(* be nowhere are Forbidden; a step takes a number out of that set only    *)
(* when it sends the save.                                                 *)
(*                                                                         *)
(* No update is lost because of the order of the data on its way (Order,   *)
(* in the second half): Redis, the saves under way and the cache contain   *)
(* each other, and what a query finds is still what Redis has.  That is    *)
(* shown for each key by itself, as long as no two requests have waited    *)
(* for it together (crossed), whatever has happened to the other keys: no  *)
(* save of the key is then sent behind a query of it.                      *)
(***************************************************************************)
EXTENDS UserCache, TLAPS

Forbidden(count, sessions, no) ==
  { n \in Requests : \/ count < n
                     \/ n \in no
                     \/ sessions[n] # None /\ sessions[n].wait = "Query" }

(* What may be cached, sent, answered and stored without a number of F. *)
CleanParts(F) == { c \in Parts : \A k \in DOMAIN c : c[k] \cap F = {} }
CleanToDb(F) ==
  { m \in ToDb : m.kind = "Save" => m.data \in CleanParts(F) }
CleanAnswered(F) ==
  { d \in Answered : \A k \in DOMAIN d : d[k] \notin {Nil, Failed} => d[k] \cap F = {} }
CleanFromDb(F) ==
  { m \in FromDb : m.kind = "Query" => m.data \in CleanAnswered(F) }
CleanStore(F) ==
  { st \in [Keys -> Values \cup {Nil}] : \A k \in Keys : st[k] # Nil => st[k] \cap F = {} }

(* The numbers of the sessions and of the refused updates. *)
Numbered(count, sessions, no) ==
  /\ count \in 0 .. MaxRequests
  /\ sessions \in [Requests -> Session \cup {None}]
  /\ no \in Values
  /\ \A n \in Requests : sessions[n] # None => n <= count /\ n \notin no
  /\ \A n \in no : n <= count

Clean(F) ==
  /\ cache \in CleanParts(F)
  /\ store \in CleanStore(F)
  /\ toDb \in Seq(CleanToDb(F))
  /\ fromDb \in Seq(CleanFromDb(F))

(* The inductive invariant. *)
IInv ==
  /\ entry \in BOOLEAN
  /\ stamp \in {"none", "fresh", "old"}
  /\ acked \in [Keys -> Values]
  /\ Numbered(requests, work, refused)
  /\ Clean(Forbidden(requests, work, refused))

-----------------------------------------------------------------------------
(* A partial record of values is a function on some of the keys. *)
LEMMA PartsFunction ==
  ASSUME NEW c
  PROVE  c \in Parts <=> DOMAIN c \subseteq Keys /\ c \in [DOMAIN c -> Values]
  BY DEF Parts

(* What the dbproxy answers is a function from some keys to values, Nil or *)
(* Failed.                                                                 *)
LEMMA AnsweredFunction ==
  ASSUME NEW d
  PROVE  d \in Answered
           <=> DOMAIN d \subseteq Keys /\ d \in [DOMAIN d -> Values \cup {Nil, Failed}]
  BY DEF Answered

(* A sequence over a set is one over a larger set. *)
LEMMA SeqLarger ==
  ASSUME NEW S, NEW T, S \subseteq T, NEW q \in Seq(S)
  PROVE  q \in Seq(T)
  <1>1. Len(q) \in Nat /\ q \in [1 .. Len(q) -> S] OBVIOUS
  <1>2. q \in [1 .. Len(q) -> T] BY <1>1
  <1> QED BY <1>1, <1>2

(* What is clean of some numbers is clean of fewer. *)
LEMMA FewerForbidden ==
  ASSUME NEW F, NEW G \in SUBSET F
  PROVE  /\ CleanParts(F) \subseteq CleanParts(G)
         /\ CleanToDb(F) \subseteq CleanToDb(G)
         /\ CleanAnswered(F) \subseteq CleanAnswered(G)
         /\ CleanFromDb(F) \subseteq CleanFromDb(G)
         /\ CleanStore(F) \subseteq CleanStore(G)
  <1>1. CleanParts(F) \subseteq CleanParts(G) BY DEF CleanParts
  <1>2. CleanAnswered(F) \subseteq CleanAnswered(G) BY DEF CleanAnswered
  <1>3. CleanToDb(F) \subseteq CleanToDb(G) BY <1>1 DEF CleanToDb
  <1>4. CleanFromDb(F) \subseteq CleanFromDb(G) BY <1>2 DEF CleanFromDb
  <1>5. CleanStore(F) \subseteq CleanStore(G) BY DEF CleanStore
  <1> QED BY <1>1, <1>2, <1>3, <1>4, <1>5

(* What is clean of updates is clean of fewer.                             *)
LEMMA CleanFewer ==
  ASSUME NEW F, NEW G \in SUBSET F, Clean(F)
  PROVE  Clean(G)
  <1>1. toDb \in Seq(CleanToDb(G)) BY FewerForbidden, SeqLarger DEF Clean
  <1>2. fromDb \in Seq(CleanFromDb(G)) BY FewerForbidden, SeqLarger DEF Clean
  <1> QED BY <1>1, <1>2, FewerForbidden DEF Clean

(* The same of a message that is taken, or one that is sent. *)
LEMMA Taken ==
  ASSUME NEW S, NEW q \in Seq(S), q # << >>
  PROVE  Head(q) \in S /\ Tail(q) \in Seq(S)
  OBVIOUS

(* A message sent joins its queue.                                         *)
LEMMA Sent ==
  ASSUME NEW S, NEW q \in Seq(S), NEW m \in S
  PROVE  Append(q, m) \in Seq(S)
  OBVIOUS

-----------------------------------------------------------------------------
(* Updating keys with n, and cutting out keys. *)
LEMMA UpdatedClean ==
  ASSUME NEW F, NEW c \in CleanParts(F), NEW keys, NEW n \in Requests, n \notin F
  PROVE  /\ Updated(c, keys, n) \in CleanParts(F)
         /\ DOMAIN Updated(c, keys, n) = DOMAIN c
  <1>1. c \in Parts /\ \A k \in DOMAIN c : c[k] \cap F = {} BY DEF CleanParts
  <1>2. DOMAIN c \subseteq Keys /\ \A k \in DOMAIN c : c[k] \in Values
    BY <1>1, PartsFunction
  <1> DEFINE u == Updated(c, keys, n)
  <1>3. DOMAIN u = DOMAIN c BY DEF Updated
  <1>4. u = [ k \in DOMAIN u |-> IF k \in keys THEN c[k] \cup {n} ELSE c[k] ]
    BY DEF Updated
  <1>5. \A k \in DOMAIN u : u[k] \in Values /\ u[k] \cap F = {}
    BY <1>1, <1>2, <1>3, <1>4 DEF Values
  <1> HIDE DEF u
  <1>6. u \in [DOMAIN u -> Values] BY <1>4, <1>5
  <1>7. u \in Parts BY <1>2, <1>3, <1>6, PartsFunction
  <1> QED BY <1>3, <1>5, <1>7 DEF CleanParts, u

(* Part of a clean cache is clean.                                         *)
LEMMA PartClean ==
  ASSUME NEW F, NEW c \in CleanParts(F), NEW keys \in SUBSET DOMAIN c
  PROVE  Part(c, keys) \in CleanParts(F)
  <1>1. c \in Parts /\ \A k \in DOMAIN c : c[k] \cap F = {} BY DEF CleanParts
  <1>2. DOMAIN c \subseteq Keys /\ \A k \in DOMAIN c : c[k] \in Values
    BY <1>1, PartsFunction
  <1> DEFINE u == Part(c, keys)
  <1>3. DOMAIN u = keys /\ u = [ k \in keys |-> c[k] ] BY DEF Part
  <1> HIDE DEF u
  <1>4. u \in [DOMAIN u -> Values] /\ \A k \in DOMAIN u : u[k] \cap F = {}
    BY <1>1, <1>2, <1>3
  <1>5. u \in Parts BY <1>2, <1>3, <1>4, PartsFunction
  <1> QED BY <1>4, <1>5 DEF CleanParts, u

(* Parsing the answer to a query. *)
LEMMA ParsedClean ==
  ASSUME NEW F, NEW c \in CleanParts(F), NEW d \in CleanAnswered(F)
  PROVE  Parsed(c, d) \in CleanParts(F)
  <1>1. c \in Parts /\ \A k \in DOMAIN c : c[k] \cap F = {} BY DEF CleanParts
  <1>2. DOMAIN c \subseteq Keys /\ \A k \in DOMAIN c : c[k] \in Values
    BY <1>1, PartsFunction
  <1>3. /\ d \in Answered
        /\ \A k \in DOMAIN d : d[k] \notin {Nil, Failed} => d[k] \cap F = {}
    BY DEF CleanAnswered
  <1>4. DOMAIN d \subseteq Keys /\ \A k \in DOMAIN d : d[k] \in Values \cup {Nil, Failed}
    BY <1>3, AnsweredFunction
  <1> DEFINE read == { k \in DOMAIN d : d[k] \notin {Nil, Failed} }
             created == { k \in DOMAIN d \ {InfoKey} : d[k] = Nil }
             all == DOMAIN c \cup read \cup created
             u == Parsed(c, d)
  <1>5. DOMAIN u = all
        /\ u = [ k \in all |->
                   IF k \in read THEN d[k] ELSE IF k \in DOMAIN c THEN c[k] ELSE {} ]
    BY DEF Parsed
  <1> HIDE DEF u
  <1>6. \A k \in read : d[k] \in Values /\ d[k] \cap F = {} BY <1>3, <1>4
  <1>7. {} \in Values /\ {} \cap F = {} BY DEF Values
  <1>8. \A k \in all : u[k] \in Values /\ u[k] \cap F = {}
    BY <1>1, <1>2, <1>5, <1>6, <1>7
  <1>9. all \subseteq Keys BY <1>2, <1>4
  <1>10. u \in [all -> Values] BY <1>5, <1>8
  <1>11. u \in Parts BY <1>5, <1>9, <1>10, PartsFunction
  <1> QED BY <1>5, <1>8, <1>11 DEF CleanParts, u

-----------------------------------------------------------------------------
(* A look at the user leaves the sessions as they were, but for the stamp. *)
LEMMA LookSessions ==
  ASSUME NEW present, NEW sessions \in [Requests -> Session \cup {None}],
         stamp \in {"none", "fresh", "old"}, Look(present, sessions)
  PROVE  /\ stamp' \in {"none", "fresh", "old"}
         /\ work' \in [Requests -> Session \cup {None}]
         /\ \A n \in Requests :
              /\ work'[n] = None <=> sessions[n] = None
              /\ work'[n] # None => /\ work'[n].wait = sessions[n].wait
                                    /\ work'[n].keys = sessions[n].keys
  <1>1. CASE present BY <1>1 DEF Look
  <1>2. CASE ~ present
    <2>1. stamp' = "fresh" /\ work' = Stamped(sessions) BY <1>2 DEF Look
    <2>2. ASSUME NEW n \in Requests, sessions[n] # None
          PROVE  /\ [sessions[n] EXCEPT !.after = FALSE] \in Session
                 /\ [sessions[n] EXCEPT !.after = FALSE].wait = sessions[n].wait
                 /\ [sessions[n] EXCEPT !.after = FALSE].keys = sessions[n].keys
      <3>1. sessions[n] \in Session BY <2>2
      <3> QED BY <3>1 DEF Session
    <2>3. None \notin Session BY CacheAssumption
    <2> QED BY <2>1, <2>2, <2>3 DEF Stamped
  <1> QED BY <1>1, <1>2

(* OnUpdateData keeps the invariant: n is forbidden before, and either the *)
(* save is sent and n is in use, or it stays forbidden as refused.         *)
LEMMA UpdateDataStep ==
  ASSUME NEW F, F = Forbidden(requests, work, refused),
         IInv, NEW n \in Requests, NEW s \in Session, NEW c \in CleanParts(F),
         n \in F, n <= requests', n \notin refused,
         requests' \in 0 .. MaxRequests, requests <= requests',
         entry' \in BOOLEAN, store' = store, fromDb' \in Seq(CleanFromDb(F)),
         UpdateData(n, s, c)
  PROVE  IInv'
  <1> DEFINE G == Forbidden(requests', work', refused')
  <1>1. PICK done \in SUBSET (s.keys \cap DOMAIN c) :
          IF done = s.keys
          THEN /\ cache' = Updated(c, done, n)
               /\ work' = Waiting(n, [s EXCEPT !.wait = "Save"])
               /\ toDb' = Append(toDb, [ kind |-> "Save", of |-> n,
                                         data |-> Part(Updated(c, done, n), done) ])
               /\ UNCHANGED << stamp, acked, refused >>
          ELSE /\ cache' = c
               /\ refused' = refused \cup {n}
               /\ Look(FALSE, Ended(n))
               /\ UNCHANGED << toDb, acked >>
    BY DEF UpdateData
  <1>2. /\ Numbered(requests, work, refused)
        /\ requests \in Nat /\ requests' \in Nat
        /\ work \in [Requests -> Session \cup {None}]
        /\ refused \in SUBSET Requests
        /\ \A m \in Requests : work[m] # None => m <= requests /\ m \notin refused
        /\ \A m \in refused : m <= requests
        /\ Requests \subseteq Nat
    BY CacheAssumption DEF IInv, Numbered, Values, Requests
  <1>3. Clean(F) BY DEF IInv
  <1>4. CASE done = s.keys
    <2> DEFINE t == [s EXCEPT !.wait = "Save"]
    <2>1. t \in Session /\ t.wait = "Save" BY DEF Session
    <2>2. /\ work' = [work EXCEPT ![n] = t]
          /\ refused' = refused /\ stamp' = stamp /\ acked' = acked
      BY <1>1, <1>4 DEF Waiting
    <2> HIDE DEF t
    <2>3. work' \in [Requests -> Session \cup {None}] BY <1>2, <2>1, <2>2
    <2>4. work'[n] = t /\ \A m \in Requests \ {n} : work'[m] = work[m] BY <1>2, <2>2
    <2>5. G \subseteq F \ {n}
      <3>1. n \notin G BY <1>2, <2>1, <2>2, <2>4 DEF Forbidden
      <3>2. ASSUME NEW m \in G, m # n PROVE m \in F
        BY <1>2, <2>2, <2>4, <3>2 DEF Forbidden
      <3> QED BY <3>1, <3>2
    <2>6. Numbered(requests', work', refused')
      <3>1. ASSUME NEW m \in Requests, work'[m] # None
            PROVE  m <= requests' /\ m \notin refused'
        <4>1. CASE m = n BY <4>1, <2>2
        <4>2. CASE m # n BY <4>2, <3>1, <1>2, <2>2, <2>4
        <4> QED BY <4>1, <4>2
      <3>2. \A m \in refused' : m <= requests' BY <1>2, <2>2
      <3> QED BY <1>2, <2>2, <2>3, <3>1, <3>2 DEF Numbered, Values
    <2>7. Clean(G) BY <1>3, <2>5, CleanFewer
    <2>8. c \in CleanParts(G) BY <2>5, FewerForbidden
    <2>9. /\ Updated(c, done, n) \in CleanParts(G)
          /\ DOMAIN Updated(c, done, n) = DOMAIN c
      BY <2>5, <2>8, UpdatedClean
    <2>10. Part(Updated(c, done, n), done) \in CleanParts(G) BY <2>9, PartClean
    <2> DEFINE m == [ kind |-> "Save", of |-> n,
                      data |-> Part(Updated(c, done, n), done) ]
    <2>11. m \in CleanToDb(G)
      <3>1. Part(Updated(c, done, n), done) \in Parts BY <2>10 DEF CleanParts
      <3> QED BY <2>10, <3>1 DEF CleanToDb, ToDb
    <2>12. toDb' = Append(toDb, m) BY <1>1, <1>4
    <2>13. toDb' \in Seq(CleanToDb(G)) BY <2>7, <2>11, <2>12, Sent DEF Clean
    <2>14. fromDb' \in Seq(CleanFromDb(G)) BY <2>5, FewerForbidden, SeqLarger
    <2>15. cache' \in CleanParts(G) /\ store' \in CleanStore(G)
      BY <1>1, <1>4, <2>7, <2>9 DEF Clean
    <2>16. stamp' \in {"none", "fresh", "old"} /\ acked' \in [Keys -> Values]
      BY <2>2 DEF IInv
    <2> QED BY <2>6, <2>13, <2>14, <2>15, <2>16 DEF IInv, Clean
  <1>5. CASE done # s.keys
    <2>1. /\ cache' = c /\ refused' = refused \cup {n} /\ Look(FALSE, Ended(n))
          /\ toDb' = toDb /\ acked' = acked
      BY <1>1, <1>5
    <2>2. /\ Ended(n) \in [Requests -> Session \cup {None}]
          /\ Ended(n)[n] = None
          /\ \A m \in Requests \ {n} : Ended(n)[m] = work[m]
      BY <1>2 DEF Ended
    <2>3. /\ stamp' \in {"none", "fresh", "old"}
          /\ work' \in [Requests -> Session \cup {None}]
          /\ \A m \in Requests :
               /\ work'[m] = None <=> Ended(n)[m] = None
               /\ work'[m] # None => work'[m].wait = Ended(n)[m].wait
      BY <2>1, <2>2, LookSessions DEF IInv
    <2>4. G \subseteq F
      <3>1. ASSUME NEW m \in G, m # n PROVE m \in F
        BY <1>2, <2>1, <2>2, <2>3, <3>1 DEF Forbidden
      <3> QED BY <3>1
    <2>5. Numbered(requests', work', refused')
      <3>1. ASSUME NEW m \in Requests, work'[m] # None
            PROVE  m <= requests' /\ m \notin refused'
        BY <1>2, <2>1, <2>2, <2>3, <3>1
      <3>2. \A m \in refused' : m <= requests' BY <1>2, <2>1
      <3>3. refused' \in Values BY <1>2, <2>1 DEF Values
      <3> QED BY <1>2, <2>3, <3>1, <3>2, <3>3 DEF Numbered
    <2>6. Clean(G) BY <1>3, <2>4, CleanFewer
    <2>7. cache' \in CleanParts(G) BY <2>1, <2>4, FewerForbidden
    <2>8. fromDb' \in Seq(CleanFromDb(G)) BY <2>4, FewerForbidden, SeqLarger
    <2>9. store' \in CleanStore(G) /\ toDb' \in Seq(CleanToDb(G))
      BY <2>1, <2>6 DEF Clean
    <2>10. acked' \in [Keys -> Values] BY <2>1 DEF IInv
    <2> QED BY <2>3, <2>5, <2>7, <2>8, <2>9, <2>10 DEF IInv, Clean
  <1> QED BY <1>4, <1>5

-----------------------------------------------------------------------------
(* What is left to show of a step that makes no number free to be used.    *)
LEMMA CleanStep ==
  ASSUME NEW F,
         Forbidden(requests', work', refused') \subseteq F,
         Numbered(requests', work', refused'),
         entry' \in BOOLEAN, stamp' \in {"none", "fresh", "old"},
         acked' \in [Keys -> Values],
         cache' \in CleanParts(F), store' \in CleanStore(F),
         toDb' \in Seq(CleanToDb(F)), fromDb' \in Seq(CleanFromDb(F))
  PROVE  IInv'
  <1> DEFINE G == Forbidden(requests', work', refused')
  <1>1. toDb' \in Seq(CleanToDb(G)) /\ fromDb' \in Seq(CleanFromDb(G))
    BY FewerForbidden, SeqLarger
  <1>2. cache' \in CleanParts(G) /\ store' \in CleanStore(G) BY FewerForbidden
  <1> QED BY <1>1, <1>2 DEF IInv, Clean

(* A session that ends frees its number, or leaves it refused. *)
LEMMA EndedStep ==
  ASSUME IInv, NEW n \in Requests, requests' = requests, refused' = refused,
         work' \in [Requests -> Session \cup {None}],
         \A m \in Requests : work'[m] # None =>
           m # n /\ work[m] # None /\ work'[m].wait = work[m].wait
  PROVE  /\ Forbidden(requests', work', refused')
              \subseteq Forbidden(requests, work, refused)
         /\ Numbered(requests', work', refused')
  BY DEF IInv, Forbidden, Numbered

(* Nothing is refused at first.                                            *)
LEMMA InitClean == Init => IInv
  <1> SUFFICES ASSUME Init PROVE IInv OBVIOUS
  <1> DEFINE F == Forbidden(requests, work, refused)
  <1>1. NoData \in CleanParts(F)
    <2>1. DOMAIN NoData = {} BY DEF NoData
    <2>2. NoData \in [DOMAIN NoData -> Values] BY DEF NoData
    <2>3. NoData \in Parts BY <2>1, <2>2, PartsFunction
    <2> QED BY <2>1, <2>3 DEF CleanParts
  <1>2. store \in CleanStore(F) BY DEF Init, CleanStore, Values
  <1>3. Numbered(requests, work, refused)
    BY CacheAssumption DEF Init, Numbered, Values
  <1>4. << >> \in Seq(CleanToDb(F)) /\ << >> \in Seq(CleanFromDb(F)) OBVIOUS
  <1>5. [ k \in Keys |-> {} ] \in [Keys -> Values] BY DEF Values
  <1> QED BY <1>1, <1>2, <1>3, <1>4, <1>5 DEF Init, IInv, Clean

(* A new request keeps IInv: its update has a number nobody was refused.   *)
LEMMA RequestClean ==
  ASSUME IInv, NEW kind \in {"Get", "Update"}, NEW keys \in SUBSET Keys,
         Request(kind, keys)
  PROVE  IInv'
  <1> DEFINE F == Forbidden(requests, work, refused)
             n == requests + 1
             s == NewSession(kind, keys)
  <1>1. /\ requests \in Nat /\ n \in Requests /\ requests' = n
        /\ n \in 0 .. MaxRequests /\ requests <= n /\ requests < n
    BY CacheAssumption DEF Request, IInv, Numbered, Requests
  <1>2. /\ work \in [Requests -> Session \cup {None}] /\ refused \in Values
        /\ \A m \in Requests : work[m] # None => m <= requests /\ m \notin refused
        /\ \A m \in refused : m <= requests
    BY DEF IInv, Numbered
  <1>3. n \in F /\ n \notin refused /\ work[n] = None
    BY <1>1, <1>2 DEF Forbidden
  <1>4. s \in Session /\ s.wait = "Query" BY DEF NewSession, Session
  <1>5. Clean(F) BY DEF IInv
  <1>6. /\ entry' = entry /\ fromDb' = fromDb /\ store' = store
        /\ entry \in BOOLEAN /\ acked \in [Keys -> Values]
        /\ stamp \in {"none", "fresh", "old"}
    BY DEF Request, IInv
  <1>7. Requests \subseteq Nat BY DEF Requests
  <1>8. CASE Missing(keys, cache) # {}
    <2>1. /\ Look(entry, Waiting(n, s))
          /\ toDb' = Append(toDb, [ kind |-> "Query", of |-> n,
                                    keys |-> Missing(keys, cache) ])
          /\ cache' = cache /\ acked' = acked /\ refused' = refused
      BY <1>8 DEF Request
    <2>2. /\ Waiting(n, s) \in [Requests -> Session \cup {None}]
          /\ Waiting(n, s)[n] = s
          /\ \A m \in Requests \ {n} : Waiting(n, s)[m] = work[m]
      BY <1>1, <1>2, <1>4 DEF Waiting
    <2>3. /\ stamp' \in {"none", "fresh", "old"}
          /\ work' \in [Requests -> Session \cup {None}]
          /\ \A m \in Requests :
               /\ work'[m] = None <=> Waiting(n, s)[m] = None
               /\ work'[m] # None => work'[m].wait = Waiting(n, s)[m].wait
      BY <1>6, <2>1, <2>2, LookSessions
    <2>4. Forbidden(requests', work', refused') \subseteq F
      <3>1. ASSUME NEW m \in Forbidden(requests', work', refused'), m # n
            PROVE  m \in F
        BY <1>1, <1>7, <2>1, <2>2, <2>3, <3>1 DEF Forbidden
      <3> QED BY <1>3, <3>1
    <2>5. Numbered(requests', work', refused')
      <3>1. ASSUME NEW m \in Requests, work'[m] # None
            PROVE  m <= n /\ m \notin refused
        <4>1. CASE m = n BY <4>1, <1>1, <1>3
        <4>2. CASE m # n BY <4>2, <3>1, <1>1, <1>2, <1>7, <2>2, <2>3
        <4> QED BY <4>1, <4>2
      <3>2. \A m \in refused : m <= n BY <1>1, <1>2, <1>7 DEF Values
      <3> QED BY <1>1, <1>2, <2>1, <2>3, <3>1, <3>2 DEF Numbered
    <2> DEFINE m == [ kind |-> "Query", of |-> n, keys |-> Missing(keys, cache) ]
    <2>6. m \in CleanToDb(F) BY <1>1 DEF CleanToDb, ToDb, Missing
    <2>7. toDb' \in Seq(CleanToDb(F)) BY <1>5, <2>1, <2>6, Sent DEF Clean
    <2> QED BY <1>5, <1>6, <2>1, <2>3, <2>4, <2>5, <2>7, CleanStep DEF Clean
  <1>9. CASE Missing(keys, cache) = {} /\ kind = "Get"
    <2>1. UNCHANGED << cache, stamp, work, toDb, acked, refused >>
      BY <1>9 DEF Request
    <2>2. Forbidden(requests', work', refused') \subseteq F
      <3>1. ASSUME NEW m \in Requests, requests' < m PROVE requests < m
        BY <1>1, <1>7, <3>1
      <3> QED BY <2>1, <3>1 DEF Forbidden
    <2>3. Numbered(requests', work', refused')
      BY <1>1, <1>2, <1>7, <2>1 DEF Numbered, Values
    <2> QED BY <1>5, <1>6, <2>1, <2>2, <2>3, CleanStep DEF Clean
  <1>10. CASE Missing(keys, cache) = {} /\ kind # "Get"
    <2>1. UpdateData(n, s, cache) BY <1>10 DEF Request
    <2>2. n <= requests' /\ requests' \in 0 .. MaxRequests /\ requests <= requests'
      BY <1>1
    <2>3. cache \in CleanParts(F) /\ fromDb' \in Seq(CleanFromDb(F))
      BY <1>5, <1>6 DEF Clean
    <2> HIDE DEF F, n, s
    <2> QED BY <1>1, <1>3, <1>4, <1>6, <2>1, <2>2, <2>3, UpdateDataStep DEF F
  <1> QED BY <1>8, <1>9, <1>10

(* The dbproxy writes nothing that was not sent, and answers nothing that  *)
(* was not stored.                                                         *)
LEMMA DbTakeClean == IInv /\ DbTake => IInv'
  <1> SUFFICES ASSUME IInv, DbTake PROVE IInv' OBVIOUS
  <1> DEFINE F == Forbidden(requests, work, refused)
             m == Head(toDb)
  <1>1. Clean(F) BY DEF IInv
  <1>2. m \in CleanToDb(F) /\ Tail(toDb) \in Seq(CleanToDb(F))
    BY <1>1, Taken DEF Clean, DbTake
  <1>3. toDb' = Tail(toDb) /\ UNCHANGED << cache, entry, stamp, work, requests, acked, refused >>
    BY DEF DbTake
  <1>4. /\ store \in CleanStore(F)
        /\ store \in [Keys -> Values \cup {Nil}]
        /\ \A k \in Keys : store[k] # Nil => store[k] \cap F = {}
    BY <1>1 DEF Clean, CleanStore
  <1>5. m \in ToDb /\ m.of \in Requests BY <1>2 DEF CleanToDb, ToDb
  <1> HIDE DEF m, F
  <1>6. fromDb' \in Seq(CleanFromDb(F)) /\ store' \in CleanStore(F)
    <2>1. CASE m.kind = "Query"
      <3>1. QueryData(m) BY <2>1 DEF DbTake, m
      <3>2. m.keys \subseteq Keys BY <1>5, <2>1 DEF ToDb
      <3>3. PICK bad : fromDb' = Append(fromDb,
              [ kind |-> "Query", of |-> m.of,
                data |-> [ k \in m.keys |-> IF k \in bad THEN Failed ELSE store[k] ] ])
        BY <3>1 DEF QueryData
      <3> DEFINE d == [ k \in m.keys |-> IF k \in bad THEN Failed ELSE store[k] ]
                 a == [ kind |-> "Query", of |-> m.of, data |-> d ]
      <3>4. /\ DOMAIN d = m.keys
            /\ \A k \in m.keys : d[k] = Failed \/ d[k] = store[k]
        OBVIOUS
      <3>5. d \in [m.keys -> Values \cup {Nil, Failed}] BY <1>4, <3>2
      <3> HIDE DEF d
      <3>6. d \in Answered BY <3>2, <3>4, <3>5, AnsweredFunction
      <3>7. d \in CleanAnswered(F) BY <1>4, <3>2, <3>4, <3>6 DEF CleanAnswered
      <3>8. a \in CleanFromDb(F) BY <1>5, <3>6, <3>7 DEF CleanFromDb, FromDb
      <3>9. fromDb' = Append(fromDb, a) BY <3>3 DEF d
      <3>10. store' = store BY <3>1 DEF QueryData
      <3> QED BY <1>1, <1>4, <3>8, <3>9, <3>10, Sent DEF Clean
    <2>2. CASE m.kind # "Query"
      <3>1. SaveData(m) BY <2>2 DEF DbTake, m
      <3>2. m.kind = "Save" BY <1>5, <2>2 DEF ToDb
      <3>3. m.data \in CleanParts(F) BY <1>2, <3>2 DEF CleanToDb
      <3>4. /\ m.data \in Parts
            /\ \A k \in DOMAIN m.data : m.data[k] \cap F = {}
        BY <3>3 DEF CleanParts
      <3>5. DOMAIN m.data \subseteq Keys /\ \A k \in DOMAIN m.data : m.data[k] \in Values
        BY <3>4, PartsFunction
      <3>6. PICK bad : store' =
              [ k \in Keys |-> IF k \in DOMAIN m.data \ bad THEN m.data[k] ELSE store[k] ]
        BY <3>1 DEF SaveData
      <3>7. store' \in CleanStore(F) BY <1>4, <3>4, <3>5, <3>6 DEF CleanStore
      <3> DEFINE a == [ kind |-> "Save", of |-> m.of, keys |-> DOMAIN m.data ]
      <3>8. a \in CleanFromDb(F) BY <1>5, <3>5 DEF CleanFromDb, FromDb
      <3>9. fromDb' = Append(fromDb, a) BY <3>1 DEF SaveData
      <3> QED BY <1>1, <3>7, <3>8, <3>9, Sent DEF Clean
    <2> QED BY <2>1, <2>2
  <1>7. Forbidden(requests', work', refused') = F BY <1>3 DEF F
  <1>8. Numbered(requests', work', refused') BY <1>3 DEF IInv
  <1>9. /\ cache' \in CleanParts(F) /\ toDb' \in Seq(CleanToDb(F))
        /\ entry' \in BOOLEAN /\ stamp' \in {"none", "fresh", "old"}
        /\ acked' \in [Keys -> Values]
    BY <1>1, <1>2, <1>3 DEF IInv, Clean
  <1> QED BY <1>6, <1>7, <1>8, <1>9, CleanStep

(* An answer for a session that is gone keeps IInv.                        *)
LEMMA UserTakeNobodyClean == IInv /\ UserTakeNobody => IInv'
  <1> SUFFICES ASSUME IInv, UserTakeNobody PROVE IInv' OBVIOUS
  <1> DEFINE F == Forbidden(requests, work, refused)
  <1>1. fromDb' = Tail(fromDb)
        /\ UNCHANGED << cache, entry, stamp, work, toDb, store, requests, acked, refused >>
    BY DEF UserTakeNobody
  <1>2. Clean(F) BY DEF IInv
  <1>3. fromDb' \in Seq(CleanFromDb(F)) BY <1>1, <1>2, Taken DEF Clean, UserTakeNobody
  <1>4. Forbidden(requests', work', refused') \subseteq F BY <1>1
  <1>5. Numbered(requests', work', refused') BY <1>1 DEF IInv
  <1> QED BY <1>1, <1>2, <1>3, <1>4, <1>5, CleanStep DEF IInv, Clean

(* The answer to a query keeps IInv: what it brings into the cache holds   *)
(* no refused update.                                                      *)
LEMMA UserTakeQueryClean == IInv /\ UserTakeQuery => IInv'
  <1> SUFFICES ASSUME IInv, UserTakeQuery PROVE IInv' OBVIOUS
  <1> DEFINE F == Forbidden(requests, work, refused)
             n == Answer.of
             c == Parsed(cache, Answer.data)
  <1>1. Clean(F) BY DEF IInv
  <1>2. Answer \in CleanFromDb(F) /\ Tail(fromDb) \in Seq(CleanFromDb(F))
    BY <1>1, Taken DEF Clean, UserTakeQuery, Answer
  <1>3. /\ Answer.kind = "Query" /\ work[n] # None /\ work[n].wait = "Query"
        /\ fromDb' = Tail(fromDb) /\ entry' = TRUE
        /\ UNCHANGED << store, requests >>
    BY DEF UserTakeQuery
  <1>4. n \in Requests BY <1>2 DEF CleanFromDb, FromDb
  <1>5. Answer.data \in CleanAnswered(F) BY <1>2, <1>3 DEF CleanFromDb
  <1>6. c \in CleanParts(F) BY <1>1, <1>5, ParsedClean DEF Clean
  <1>7. /\ work \in [Requests -> Session \cup {None}]
        /\ n <= requests /\ n \notin refused /\ n \in F
        /\ requests \in 0 .. MaxRequests
    BY <1>3, <1>4 DEF IInv, Numbered, Forbidden
  <1>8. work[n] \in Session BY <1>3, <1>4, <1>7
  <1>9. CASE work[n].kind = "Get"
    <2>1. /\ cache' = c /\ work' = Ended(n)
          /\ UNCHANGED << stamp, toDb, acked, refused >>
      BY <1>9 DEF UserTakeQuery
    <2>2. /\ work' \in [Requests -> Session \cup {None}]
          /\ \A m \in Requests : work'[m] # None =>
               m # n /\ work[m] # None /\ work'[m].wait = work[m].wait
      BY <1>4, <1>7, <2>1 DEF Ended
    <2>3. /\ Forbidden(requests', work', refused') \subseteq F
          /\ Numbered(requests', work', refused')
      BY <1>3, <1>4, <2>1, <2>2, EndedStep
    <2> HIDE DEF F, c, n
    <2> QED BY <1>1, <1>2, <1>3, <1>6, <2>1, <2>3, CleanStep DEF IInv, Clean
  <1>10. CASE work[n].kind # "Get"
    <2>1. UpdateData(n, work[n], c) BY <1>10 DEF UserTakeQuery
    <2>2. requests <= requests' /\ n <= requests' /\ requests' \in 0 .. MaxRequests
      BY <1>3, <1>7, CacheAssumption
    <2>3. entry' \in BOOLEAN /\ fromDb' \in Seq(CleanFromDb(F)) /\ store' = store
      BY <1>2, <1>3
    <2> HIDE DEF F, c, n
    <2> QED BY <1>4, <1>6, <1>7, <1>8, <2>1, <2>2, <2>3, UpdateDataStep DEF F
  <1> QED BY <1>9, <1>10

(* The answer to a save keeps IInv: it changes neither cache nor Redis and *)
(* refuses nobody.                                                         *)
LEMMA UserTakeSaveClean == IInv /\ UserTakeSave => IInv'
  <1> SUFFICES ASSUME IInv, UserTakeSave PROVE IInv' OBVIOUS
  <1> DEFINE F == Forbidden(requests, work, refused)
             n == Answer.of
  <1>1. Clean(F) BY DEF IInv
  <1>2. Answer \in CleanFromDb(F) /\ Tail(fromDb) \in Seq(CleanFromDb(F))
    BY <1>1, Taken DEF Clean, UserTakeSave, Answer
  <1>3. /\ fromDb' = Tail(fromDb) /\ Look(entry, Ended(n))
        /\ UNCHANGED << cache, entry, toDb, store, requests, refused >>
    BY DEF UserTakeSave
  <1>4. n \in Requests BY <1>2 DEF CleanFromDb, FromDb
  <1>5. work \in [Requests -> Session \cup {None}] BY DEF IInv, Numbered
  <1>6. /\ Ended(n) \in [Requests -> Session \cup {None}]
        /\ Ended(n)[n] = None
        /\ \A m \in Requests \ {n} : Ended(n)[m] = work[m]
    BY <1>4, <1>5 DEF Ended
  <1>7. /\ stamp' \in {"none", "fresh", "old"}
        /\ work' \in [Requests -> Session \cup {None}]
        /\ \A m \in Requests :
             /\ work'[m] = None <=> Ended(n)[m] = None
             /\ work'[m] # None => work'[m].wait = Ended(n)[m].wait
    BY <1>3, <1>6, LookSessions DEF IInv
  <1>8. \A m \in Requests : work'[m] # None =>
          m # n /\ work[m] # None /\ work'[m].wait = work[m].wait
    BY <1>6, <1>7
  <1>9. /\ Forbidden(requests', work', refused') \subseteq F
        /\ Numbered(requests', work', refused')
    BY <1>3, <1>4, <1>7, <1>8, EndedStep
  <1>10. acked' \in [Keys -> Values]
    <2>1. acked \in [Keys -> Values] BY DEF IInv
    <2>2. \A k \in Keys : acked[k] \cup {n} \in Values BY <1>4, <2>1 DEF Values
    <2>3. \/ acked' = acked
          \/ acked' = [ k \in Keys |-> IF k \in Answer.keys
                                       THEN acked[k] \cup {n} ELSE acked[k] ]
      BY DEF UserTakeSave
    <2> HIDE DEF n
    <2> QED BY <2>1, <2>2, <2>3
  <1> HIDE DEF F, n
  <1> QED BY <1>1, <1>2, <1>3, <1>7, <1>9, <1>10, CleanStep DEF IInv, Clean

(* The timeout of a session keeps IInv.                                    *)
LEMMA TimeoutClean == ASSUME IInv, NEW n \in Requests, Timeout(n) PROVE IInv'
  <1> DEFINE F == Forbidden(requests, work, refused)
  <1>1. /\ work' = Ended(n)
        /\ UNCHANGED << cache, entry, stamp, toDb, fromDb, store, requests, acked, refused >>
    BY DEF Timeout
  <1>2. work \in [Requests -> Session \cup {None}] BY DEF IInv, Numbered
  <1>3. /\ work' \in [Requests -> Session \cup {None}]
        /\ \A m \in Requests : work'[m] # None =>
             m # n /\ work[m] # None /\ work'[m].wait = work[m].wait
    BY <1>1, <1>2 DEF Ended
  <1>4. /\ Forbidden(requests', work', refused') \subseteq F
        /\ Numbered(requests', work', refused')
    BY <1>1, <1>3, EndedStep
  <1> QED BY <1>1, <1>4, CleanStep DEF IInv, Clean

(* A lost message keeps IInv.                                              *)
LEMMA LoseClean == IInv /\ Lose => IInv'
  <1> SUFFICES ASSUME IInv, Lose PROVE IInv' OBVIOUS
  <1> DEFINE F == Forbidden(requests, work, refused)
  <1>1. UNCHANGED << cache, entry, stamp, work, store, requests, acked, refused >>
    BY DEF Lose
  <1>2. Clean(F) BY DEF IInv
  <1>3. toDb' \in Seq(CleanToDb(F)) /\ fromDb' \in Seq(CleanFromDb(F))
    BY <1>2, Taken DEF Clean, Lose
  <1>4. Forbidden(requests', work', refused') \subseteq F BY <1>1
  <1>5. Numbered(requests', work', refused') BY <1>1 DEF IInv
  <1> QED BY <1>1, <1>2, <1>3, <1>4, <1>5, CleanStep DEF IInv, Clean

(* An eviction keeps IInv.                                                 *)
LEMMA EvictClean == IInv /\ Evict => IInv'
  <1> SUFFICES ASSUME IInv, Evict PROVE IInv' OBVIOUS
  <1> DEFINE F == Forbidden(requests, work, refused)
  <1>1. /\ cache' = NoData /\ entry' = FALSE /\ stamp' = "none"
        /\ UNCHANGED << work, toDb, fromDb, store, requests, acked, refused >>
    BY DEF Evict
  <1>2. NoData \in CleanParts(F)
    <2>1. DOMAIN NoData = {} /\ NoData \in [DOMAIN NoData -> Values] BY DEF NoData
    <2>2. NoData \in Parts BY <2>1, PartsFunction
    <2> QED BY <2>1, <2>2 DEF CleanParts
  <1>3. Forbidden(requests', work', refused') \subseteq F BY <1>1
  <1>4. Numbered(requests', work', refused') BY <1>1 DEF IInv
  <1> QED BY <1>1, <1>2, <1>3, <1>4, CleanStep DEF IInv, Clean

(* Every step keeps IInv.                                                  *)
LEMMA NextClean == IInv /\ [Next]_vars => IInv'
  <1> SUFFICES ASSUME IInv, [Next]_vars PROVE IInv' OBVIOUS
  <1>1. CASE \E kind \in {"Get", "Update"}, keys \in SUBSET Keys \ {{}} : Request(kind, keys)
    BY <1>1, RequestClean
  <1>2. CASE \E n \in Requests : Timeout(n) BY <1>2, TimeoutClean
  <1>3. CASE Age BY <1>3 DEF Age, IInv, Clean
  <1>4. CASE UNCHANGED vars BY <1>4 DEF vars, IInv, Clean
  <1> QED BY <1>1, <1>2, <1>3, <1>4, DbTakeClean, UserTakeNobodyClean,
             UserTakeQueryClean, UserTakeSaveClean, LoseClean, EvictClean DEF Next

-----------------------------------------------------------------------------
(* What the first invariant says of the types, for the second.             *)
Typing ==
  /\ toDb \in Seq(ToDb) /\ fromDb \in Seq(FromDb)
  /\ store \in [Keys -> Values \cup {Nil}]
  /\ cache \in Parts /\ DOMAIN cache \subseteq Keys
  /\ acked \in [Keys -> Values]
  /\ work \in [Requests -> Session \cup {None}]
  /\ stamp \in {"none", "fresh", "old"}
  /\ requests \in 0 .. MaxRequests /\ requests \in Nat
  /\ \A n \in Requests : work[n] # None => n <= requests

(* The invariant gives the types.                                          *)
LEMMA CacheTyped == IInv => Typing
  <1> SUFFICES ASSUME IInv PROVE Typing OBVIOUS
  <1> DEFINE F == Forbidden(requests, work, refused)
  <1>1. /\ cache \in CleanParts(F) /\ store \in CleanStore(F)
        /\ toDb \in Seq(CleanToDb(F)) /\ fromDb \in Seq(CleanFromDb(F))
    BY DEF IInv, Clean
  <1>2. CleanToDb(F) \subseteq ToDb /\ CleanFromDb(F) \subseteq FromDb
    BY DEF CleanToDb, CleanFromDb
  <1>3. toDb \in Seq(ToDb) /\ fromDb \in Seq(FromDb) BY <1>1, <1>2, SeqLarger
  <1>4. cache \in Parts /\ store \in [Keys -> Values \cup {Nil}]
    BY <1>1 DEF CleanParts, CleanStore
  <1>5. DOMAIN cache \subseteq Keys BY <1>4, PartsFunction
  <1>6. acked \in [Keys -> Values] /\ stamp \in {"none", "fresh", "old"} BY DEF IInv
  <1>7. /\ work \in [Requests -> Session \cup {None}]
        /\ requests \in 0 .. MaxRequests
        /\ \A n \in Requests : work[n] # None => n <= requests
    BY DEF IInv, Numbered
  <1>8. requests \in Nat BY <1>7, CacheAssumption
  <1> QED BY <1>3, <1>4, <1>5, <1>6, <1>7, <1>8 DEF Typing

(* It does so after a step too.                                            *)
LEMMA CacheTypedNext == IInv' => Typing'
  BY CacheTyped, PTL

(* Where the messages of a queue are when one is taken, and when one is    *)
(* sent.                                                                   *)
LEMMA TakenPlaces ==
  ASSUME NEW S, NEW q \in Seq(S), q # << >>
  PROVE  /\ 1 \in DOMAIN q /\ Head(q) = q[1]
         /\ \A i \in DOMAIN Tail(q) :
              i \in Nat /\ 0 < i /\ i + 1 \in DOMAIN q /\ Tail(q)[i] = q[i + 1]
  OBVIOUS

(* The messages of a queue stay before the one that is sent.               *)
LEMMA SentPlaces ==
  ASSUME NEW S, NEW q \in Seq(S), NEW m
  PROVE  \A i \in DOMAIN Append(q, m) :
           /\ i \in Nat
           /\ \/ i \in DOMAIN q /\ Append(q, m)[i] = q[i]
              \/ i = Len(q) + 1 /\ Append(q, m)[i] = m
                 /\ \A j \in DOMAIN q : j < i
  OBVIOUS

(* The places of a queue are numbers from one, with its messages.          *)
LEMMA Places ==
  ASSUME NEW S, NEW q \in Seq(S)
  PROVE  \A i \in DOMAIN q : i \in Nat /\ 0 < i /\ q[i] \in S
  OBVIOUS

-----------------------------------------------------------------------------
(* The history names keys only, and forgets none.                          *)
HistoryKeys == crossed \subseteq Keys /\ failed \subseteq Keys
Remembers   == crossed \subseteq crossed' /\ failed \subseteq failed'

(* Only a request can cross another, and only a save can fail.             *)
LEMMA NextHistory ==
  ASSUME IInv, HistoryKeys, [Next]_vars
  PROVE  HistoryKeys' /\ Remembers
  <1>1. CASE \E kind \in {"Get", "Update"}, keys \in SUBSET Keys \ {{}} : Request(kind, keys)
    <2>1. PICK kind \in {"Get", "Update"}, keys \in SUBSET Keys : Request(kind, keys)
      BY <1>1
    <2>2. crossed' = crossed \cup Crossed(Missing(keys, cache)) /\ failed' = failed
      BY <2>1 DEF Request
    <2>3. Crossed(Missing(keys, cache)) \subseteq Keys BY DEF Crossed, Missing
    <2> QED BY <2>2, <2>3 DEF HistoryKeys, Remembers
  <1>2. CASE DbTake
    <2>1. toDb # << >> /\ crossed' = crossed BY <1>2 DEF DbTake
    <2>2. Head(toDb) \in ToDb BY <2>1, CacheTyped, Taken DEF Typing
    <2>3. CASE Head(toDb).kind = "Query"
      <3>1. failed' = failed BY <1>2, <2>3 DEF DbTake, QueryData
      <3> QED BY <2>1, <3>1 DEF HistoryKeys, Remembers
    <2>4. CASE Head(toDb).kind # "Query"
      <3>1. SaveData(Head(toDb)) BY <1>2, <2>4 DEF DbTake
      <3>2. PICK bad \in SUBSET DOMAIN Head(toDb).data : failed' = failed \cup bad
        BY <3>1 DEF SaveData
      <3>3. Head(toDb).data \in Parts BY <2>2, <2>4 DEF ToDb
      <3>4. DOMAIN Head(toDb).data \subseteq Keys BY <3>3, PartsFunction
      <3> QED BY <2>1, <3>2, <3>4 DEF HistoryKeys, Remembers
    <2> QED BY <2>3, <2>4
  <1>3. CASE \/ UserTakeNobody \/ UserTakeQuery \/ UserTakeSave
             \/ (\E n \in Requests : Timeout(n)) \/ Lose \/ Age \/ Evict \/ UNCHANGED vars
    <2>1. crossed' = crossed /\ failed' = failed
      BY <1>3 DEF UserTakeNobody, UserTakeQuery, UserTakeSave, Timeout, Lose, Age, Evict,
                  vars, history
    <2> QED BY <2>1 DEF HistoryKeys, Remembers
  <1> QED BY <1>1, <1>2, <1>3 DEF Next

-----------------------------------------------------------------------------
(* The data of a user keeps its types, and no absent or failed field is    *)
(* ever cached as a value (OnParseUserData).                               *)
THEOREM CacheTypesHold == Spec => []TypeOK
  <1>1. IInv /\ HistoryKeys => TypeOK
    <2> SUFFICES ASSUME IInv, HistoryKeys PROVE TypeOK OBVIOUS
    <2>1. Typing BY CacheTyped
    <2>2. \A k \in DOMAIN cache : cache[k] \notin {Nil, Failed}
      BY <2>1, PartsFunction, CacheAssumption DEF Typing
    <2>3. entry \in BOOLEAN /\ refused \in Values BY DEF IInv, Numbered
    <2> QED BY <2>1, <2>2, <2>3 DEF Typing, TypeOK, HistoryKeys
  <1>2. Init => HistoryKeys BY DEF Init, HistoryKeys
  <1>3. IInv /\ HistoryKeys /\ [Next]_vars => HistoryKeys' BY NextHistory
  <1> QED BY <1>1, <1>2, <1>3, InitClean, NextClean, PTL DEF Spec

(* An update that is answered with EN_MESSAGE_DB_SAVE_FAILED leaves no     *)
(* trace, for any number of overlapping requests and any failure of Redis  *)
(* (OnUpdateData).                                                         *)
THEOREM RefusedHolds == Spec => []RefusedLeavesNoTrace
  <1>1. IInv => RefusedLeavesNoTrace
    <2> SUFFICES ASSUME IInv PROVE RefusedLeavesNoTrace OBVIOUS
    <2> DEFINE F == Forbidden(requests, work, refused)
    <2>1. refused \subseteq F BY DEF IInv, Numbered, Values, Forbidden
    <2>2. /\ cache \in CleanParts(F) /\ store \in CleanStore(F)
          /\ toDb \in Seq(CleanToDb(F))
      BY DEF IInv, Clean
    <2> HIDE DEF F
    <2>3. \A k \in DOMAIN cache : cache[k] \cap refused = {}
      BY <2>1, <2>2 DEF CleanParts
    <2>4. \A k \in Keys : store[k] # Nil => store[k] \cap refused = {}
      BY <2>1, <2>2 DEF CleanStore
    <2>5. ASSUME NEW i \in DOMAIN toDb, toDb[i].kind = "Save",
                 NEW k \in DOMAIN toDb[i].data
          PROVE  toDb[i].data[k] \cap refused = {}
      <3>1. toDb[i] \in CleanToDb(F) BY <2>2
      <3>2. toDb[i].data \in CleanParts(F) BY <2>5, <3>1 DEF CleanToDb
      <3> QED BY <2>1, <3>2 DEF CleanParts
    <2> QED BY <2>3, <2>4, <2>5 DEF RefusedLeavesNoTrace
  <1> QED BY <1>1, InitClean, NextClean, PTL DEF Spec

-----------------------------------------------------------------------------
(* The order of the data of one key on its way.  What Redis has of it is   *)
(* in every save of it that is under way, each save is in the next one,    *)
(* and all of them are in what is cached.                                  *)
Saves(k) == { i \in DOMAIN toDb : toDb[i].kind = "Save" /\ k \in DOMAIN toDb[i].data }

GrowsOf(k) ==
  /\ store[k] # Nil =>
       /\ \A i \in Saves(k) : store[k] \subseteq toDb[i].data[k]
       /\ k \in DOMAIN cache => store[k] \subseteq cache[k]
  /\ \A i \in Saves(k) :
       /\ \A j \in Saves(k) : i < j => toDb[i].data[k] \subseteq toDb[j].data[k]
       /\ k \in DOMAIN cache => toDb[i].data[k] \subseteq cache[k]

(* The queries of the key for sessions that still wait, and their answers. *)
Querying == { n \in Requests : work[n] # None /\ work[n].wait = "Query" }

Queries(k) ==
  { i \in DOMAIN toDb : /\ toDb[i].kind = "Query" /\ toDb[i].of \in Querying
                        /\ k \in toDb[i].keys }
Answers(k) ==
  { i \in DOMAIN fromDb : /\ fromDb[i].kind = "Query" /\ fromDb[i].of \in Querying
                          /\ k \in DOMAIN fromDb[i].data }

(* No save of the key is sent while a query of it is outstanding: what the *)
(* answer brings is what Redis still has, and the key is not cached.  All  *)
(* of them are of one session.                                             *)
Waits(k) == { toDb[i].of : i \in Queries(k) } \cup { fromDb[i].of : i \in Answers(k) }

FillsOf(k) ==
  /\ \A n, m \in Waits(k) : n = m
  /\ \A i \in Queries(k) : k \notin DOMAIN cache /\ \A j \in Saves(k) : ~ (i < j)
  /\ \A i \in Answers(k) : /\ k \notin DOMAIN cache /\ Saves(k) = {}
                           /\ fromDb[i].data[k] \in {store[k], Failed}

(* A message is of a request that was made; what is asked and answered for *)
(* a session that waits is among its keys.                                 *)
Placed ==
  /\ \A i \in DOMAIN toDb :
       /\ toDb[i].of <= requests
       /\ toDb[i].kind = "Query" /\ toDb[i].of \in Querying =>
            toDb[i].keys \subseteq work[toDb[i].of].keys
  /\ \A i \in DOMAIN fromDb :
       /\ fromDb[i].of <= requests
       /\ fromDb[i].kind = "Query" /\ fromDb[i].of \in Querying =>
            DOMAIN fromDb[i].data \subseteq work[fromDb[i].of].keys

Order == Placed /\ \A k \in Keys \ crossed : GrowsOf(k) /\ FillsOf(k)

-----------------------------------------------------------------------------
(* The saves, queries and answers of a key in the next state stood d or e  *)
(* places further on: none was added.                                      *)
SavesKept(k, d) ==
  \A i \in Saves(k)' : i \in Nat /\ i + d \in Saves(k) /\ toDb'[i] = toDb[i + d]
QueriesKept(k, d) ==
  \A i \in Queries(k)' : i \in Nat /\ i + d \in Queries(k) /\ toDb'[i] = toDb[i + d]
AnswersKept(k, e) ==
  \A i \in Answers(k)' : i \in Nat /\ i + e \in Answers(k) /\ fromDb'[i] = fromDb[i + e]

(* Nothing is stored, no save is sent and what is cached stays or goes.    *)
LEMMA GrowsKept ==
  ASSUME NEW k \in Keys, GrowsOf(k), NEW d \in {0, 1}, SavesKept(k, d), store' = store,
         k \in DOMAIN cache' => k \in DOMAIN cache /\ cache'[k] = cache[k]
  PROVE  GrowsOf(k)'
  <1>1. \A i \in Saves(k)' : i \in Nat /\ i + d \in Saves(k) /\ toDb'[i] = toDb[i + d]
    BY DEF SavesKept
  <1>2. \A i \in Saves(k)', j \in Saves(k)' : i < j => i + d < j + d BY <1>1
  <1>3. /\ store[k] # Nil => /\ \A i \in Saves(k) : store[k] \subseteq toDb[i].data[k]
                             /\ k \in DOMAIN cache => store[k] \subseteq cache[k]
        /\ \A i \in Saves(k) :
             /\ \A j \in Saves(k) : i < j => toDb[i].data[k] \subseteq toDb[j].data[k]
             /\ k \in DOMAIN cache => toDb[i].data[k] \subseteq cache[k]
    BY DEF GrowsOf
  <1>4. /\ store'[k] # Nil => /\ \A i \in Saves(k)' : store'[k] \subseteq toDb'[i].data[k]
                              /\ k \in DOMAIN cache' => store'[k] \subseteq cache'[k]
        /\ \A i \in Saves(k)' :
             /\ \A j \in Saves(k)' : i < j => toDb'[i].data[k] \subseteq toDb'[j].data[k]
             /\ k \in DOMAIN cache' => toDb'[i].data[k] \subseteq cache'[k]
    BY <1>1, <1>2, <1>3
  <1> QED BY <1>4 DEF GrowsOf

(* A cache that covers what is stored of a key and what is on its way.     *)
Covers(k, c) ==
  k \in DOMAIN c =>
    /\ store[k] # Nil => store[k] \subseteq c[k]
    /\ \A i \in Saves(k) : toDb[i].data[k] \subseteq c[k]

(* A cache that covers what Redis has and what the saves on their way will *)
(* write keeps the order.                                                  *)
LEMMA GrowsCovered ==
  ASSUME NEW k \in Keys, GrowsOf(k), NEW c, Covers(k, c),
         cache' = c, toDb' = toDb, store' = store
  PROVE  GrowsOf(k)'
  BY DEF GrowsOf, Covers, Saves

(* OnUpdateData, from a cache that covers the rest: the save that is sent  *)
(* covers all that went before.                                            *)
LEMMA UpdateDataGrows ==
  ASSUME NEW k \in Keys, GrowsOf(k), NEW n \in Requests, NEW s \in Session, NEW c,
         Covers(k, c), toDb \in Seq(ToDb), store' = store, UpdateData(n, s, c)
  PROVE  GrowsOf(k)'
  <1>1. PICK done \in SUBSET (s.keys \cap DOMAIN c) :
          IF done = s.keys
          THEN /\ cache' = Updated(c, done, n)
               /\ work' = Waiting(n, [s EXCEPT !.wait = "Save"])
               /\ toDb' = Append(toDb, [ kind |-> "Save", of |-> n,
                                         data |-> Part(Updated(c, done, n), done) ])
               /\ UNCHANGED << stamp, acked, refused >>
          ELSE /\ cache' = c
               /\ refused' = refused \cup {n}
               /\ Look(FALSE, Ended(n))
               /\ UNCHANGED << toDb, acked >>
    BY DEF UpdateData
  <1>2. CASE done # s.keys BY <1>1, <1>2, GrowsCovered
  <1>3. CASE done = s.keys
    <2> DEFINE u == Updated(c, done, n)
               m == [ kind |-> "Save", of |-> n, data |-> Part(u, done) ]
    <2>1. cache' = u /\ toDb' = Append(toDb, m) BY <1>1, <1>3
    <2>2. DOMAIN u = DOMAIN c /\ (\A q \in DOMAIN c : c[q] \subseteq u[q])
      BY DEF Updated
    <2>3. m.kind = "Save" /\ DOMAIN m.data = done /\ \A q \in done : m.data[q] = u[q]
      BY DEF Part
    <2> HIDE DEF u, m
    <2>4. \A i \in DOMAIN toDb' :
            /\ i \in Nat
            /\ \/ i \in DOMAIN toDb /\ toDb'[i] = toDb[i]
               \/ /\ i = Len(toDb) + 1 /\ toDb'[i] = m
                  /\ \A j \in DOMAIN toDb : j < i
      BY <2>1, SentPlaces
    <2>5. \A i \in Saves(k)' :
            \/ i \in Saves(k) /\ toDb'[i] = toDb[i]
            \/ /\ toDb'[i] = m /\ k \in done /\ k \in DOMAIN c
               /\ \A j \in DOMAIN toDb : j < i
               /\ i \notin DOMAIN toDb /\ i = Len(toDb) + 1
      <3>1. Len(toDb) + 1 \notin DOMAIN toDb BY DEF ToDb
      <3> QED BY <2>3, <2>4, <3>1 DEF Saves
    <2>6. /\ store[k] # Nil => /\ \A i \in Saves(k) : store[k] \subseteq toDb[i].data[k]
                               /\ k \in DOMAIN cache => store[k] \subseteq cache[k]
          /\ \A i, j \in Saves(k) : i < j => toDb[i].data[k] \subseteq toDb[j].data[k]
      BY DEF GrowsOf
    <2>7. k \in DOMAIN c =>
            /\ store[k] # Nil => store[k] \subseteq u[k]
            /\ \A i \in Saves(k) : toDb[i].data[k] \subseteq u[k]
      BY <2>2 DEF Covers
    <2>8. ASSUME NEW i \in Saves(k)'
          PROVE  /\ store[k] # Nil => store[k] \subseteq toDb'[i].data[k]
                 /\ k \in DOMAIN u => toDb'[i].data[k] \subseteq u[k]
      BY <2>2, <2>3, <2>5, <2>6, <2>7
    <2>9. ASSUME NEW i \in Saves(k)', NEW j \in Saves(k)', i < j
          PROVE  toDb'[i].data[k] \subseteq toDb'[j].data[k]
      <3>1. i \in Nat /\ j \in Nat /\ Len(toDb) \in Nat
        BY <2>4 DEF Saves
      <3>2. CASE i \in Saves(k) /\ j \in Saves(k)
                 /\ toDb'[i] = toDb[i] /\ toDb'[j] = toDb[j]
        BY <2>6, <2>9, <3>2
      <3>3. CASE toDb'[j] = m /\ k \in done
        BY <2>2, <2>3, <2>8, <3>3
      <3>4. CASE i = Len(toDb) + 1 /\ j \in Saves(k)
        <4>1. j \in DOMAIN toDb BY <3>4 DEF Saves
        <4>2. j <= Len(toDb) BY <4>1
        <4> QED BY <2>9, <3>1, <3>4, <4>2
      <3> QED BY <2>5, <3>2, <3>3, <3>4
    <2>10. k \in DOMAIN cache' /\ store'[k] # Nil => store'[k] \subseteq cache'[k]
      BY <2>1, <2>2, <2>7
    <2>11. \A i \in Saves(k)' : k \in DOMAIN cache' => toDb'[i].data[k] \subseteq cache'[k]
      BY <2>1, <2>8
    <2>12. store'[k] # Nil => \A i \in Saves(k)' : store'[k] \subseteq toDb'[i].data[k]
      BY <2>8
    <2> QED BY <2>9, <2>10, <2>11, <2>12 DEF GrowsOf
  <1> QED BY <1>2, <1>3

(* What an answer brings to a cache without the key covers the rest of it, *)
(* and no other key is touched.                                            *)
LEMMA ParsedCovers ==
  ASSUME NEW k \in Keys, GrowsOf(k), NEW d,
         k \in DOMAIN d => /\ k \notin DOMAIN cache /\ Saves(k) = {}
                           /\ d[k] \in {store[k], Failed}
  PROVE  /\ Covers(k, Parsed(cache, d))
         /\ k \notin DOMAIN d =>
              (k \in DOMAIN Parsed(cache, d) <=> k \in DOMAIN cache)
         /\ k \in DOMAIN cache =>
              k \in DOMAIN Parsed(cache, d) /\ Parsed(cache, d)[k] = cache[k]
  <1> DEFINE read == { q \in DOMAIN d : d[q] \notin {Nil, Failed} }
             created == { q \in DOMAIN d \ {InfoKey} : d[q] = Nil }
             all == DOMAIN cache \cup read \cup created
             u == Parsed(cache, d)
  <1>1. DOMAIN u = all
        /\ u = [ q \in all |->
                   IF q \in read THEN d[q] ELSE IF q \in DOMAIN cache THEN cache[q] ELSE {} ]
    BY DEF Parsed
  <1> HIDE DEF u
  <1>2. k \in DOMAIN cache => k \in DOMAIN u /\ u[k] = cache[k] BY <1>1
  <1>3. k \notin DOMAIN d => (k \in DOMAIN u <=> k \in DOMAIN cache) BY <1>1
  <1>4. CASE k \in DOMAIN d
    <2>1. k \in read => u[k] = store[k] BY <1>1, <1>4
    <2>2. k \in DOMAIN u /\ k \notin read => store[k] = Nil
      BY <1>1, <1>4, CacheAssumption
    <2>3. Covers(k, u) BY <1>1, <1>4, <2>1, <2>2 DEF Covers
    <2> QED BY <1>2, <1>3, <2>3 DEF u
  <1>5. CASE k \notin DOMAIN d
    <2>1. Covers(k, u) BY <1>2, <1>3, <1>5 DEF Covers, GrowsOf
    <2> QED BY <1>2, <1>3, <2>1 DEF u
  <1> QED BY <1>4, <1>5

(* The dbproxy saves: the first of the saves that are on their way.        *)
LEMMA SaveGrows ==
  ASSUME NEW k \in Keys, GrowsOf(k),
         toDb \in Seq(ToDb), toDb # << >>, Head(toDb).kind = "Save",
         SaveData(Head(toDb)), toDb' = Tail(toDb), cache' = cache
  PROVE  /\ GrowsOf(k)'
         /\ store[k] # Nil => store'[k] # Nil /\ store[k] \subseteq store'[k]
  <1> DEFINE m == Head(toDb)
  <1>1. PICK bad \in SUBSET DOMAIN m.data : store' =
          [ q \in Keys |-> IF q \in DOMAIN m.data \ bad THEN m.data[q] ELSE store[q] ]
    BY DEF SaveData
  <1>2. /\ 1 \in DOMAIN toDb /\ m = toDb[1]
        /\ \A i \in DOMAIN toDb' :
             i \in Nat /\ 0 < i /\ i + 1 \in DOMAIN toDb /\ toDb'[i] = toDb[i + 1]
    BY TakenPlaces
  <1>3. m \in ToDb /\ m.kind = "Save" BY <1>2, Places
  <1>4. m.data \in Parts BY <1>3 DEF ToDb
  <1>5. k \in DOMAIN m.data => m.data[k] # Nil BY <1>4, PartsFunction, CacheAssumption
  <1>6. k \in DOMAIN m.data => 1 \in Saves(k) BY <1>2, <1>3 DEF Saves
  <1> HIDE DEF m
  <1>7. \A i \in Saves(k)' :
          i \in Nat /\ i + 1 \in Saves(k) /\ toDb'[i] = toDb[i + 1] /\ 1 < i + 1
    BY <1>2 DEF Saves
  <1>8. /\ store[k] # Nil => /\ \A i \in Saves(k) : store[k] \subseteq toDb[i].data[k]
                             /\ k \in DOMAIN cache => store[k] \subseteq cache[k]
        /\ \A i \in Saves(k) :
             /\ \A j \in Saves(k) : i < j => toDb[i].data[k] \subseteq toDb[j].data[k]
             /\ k \in DOMAIN cache => toDb[i].data[k] \subseteq cache[k]
    BY DEF GrowsOf
  <1>9. \/ k \in DOMAIN m.data /\ store'[k] = m.data[k]
        \/ store'[k] = store[k]
    BY <1>1
  <1>10. store[k] # Nil => store'[k] # Nil /\ store[k] \subseteq store'[k]
    BY <1>2, <1>5, <1>6, <1>8, <1>9
  <1>11. ASSUME NEW i \in Saves(k)', store'[k] # Nil
         PROVE  store'[k] \subseteq toDb'[i].data[k]
    <2>1. i + 1 \in Saves(k) /\ toDb'[i] = toDb[i + 1] /\ 1 < i + 1 BY <1>7
    <2> QED BY <1>2, <1>6, <1>8, <1>9, <1>11, <2>1
  <1>12. store'[k] # Nil /\ k \in DOMAIN cache => store'[k] \subseteq cache[k]
    BY <1>2, <1>6, <1>8, <1>9
  <1>13. ASSUME NEW i \in Saves(k)', NEW j \in Saves(k)', i < j
         PROVE  toDb'[i].data[k] \subseteq toDb'[j].data[k]
    <2>1. /\ i + 1 \in Saves(k) /\ toDb'[i] = toDb[i + 1]
          /\ j + 1 \in Saves(k) /\ toDb'[j] = toDb[j + 1]
          /\ i + 1 < j + 1
      <3>1. i \in Nat /\ j \in Nat BY <1>7
      <3>2. i + 1 < j + 1 BY <1>13, <3>1
      <3> QED BY <1>7, <3>2
    <2> QED BY <1>8, <2>1
  <1>14. \A i \in Saves(k)' : k \in DOMAIN cache => toDb'[i].data[k] \subseteq cache[k]
    BY <1>7, <1>8
  <1> QED BY <1>10, <1>11, <1>12, <1>13, <1>14 DEF GrowsOf

-----------------------------------------------------------------------------
(* Messages of the key are only taken, and the key only leaves the cache.  *)
(* What is stored may change where no answer of the key is under way.      *)
LEMMA FillsKept ==
  ASSUME NEW k \in Keys, FillsOf(k), NEW d \in {0, 1}, NEW e \in {0, 1},
         SavesKept(k, d), QueriesKept(k, d), AnswersKept(k, e),
         Answers(k) = {} \/ store'[k] = store[k],
         k \in DOMAIN cache' => k \in DOMAIN cache
  PROVE  FillsOf(k)'
  <1>1. Waits(k)' \subseteq Waits(k) BY DEF Waits, QueriesKept, AnswersKept
  <1>2. \A n, m \in Waits(k)' : n = m BY <1>1 DEF FillsOf
  <1>3. ASSUME NEW i \in Queries(k)', NEW j \in Saves(k)' PROVE ~ (i < j)
    <2>1. i \in Nat /\ i + d \in Queries(k) /\ j \in Nat /\ j + d \in Saves(k)
      BY DEF QueriesKept, SavesKept
    <2>2. ~ (i + d < j + d) BY <2>1 DEF FillsOf
    <2> QED BY <2>1, <2>2
  <1>4. \A i \in Queries(k)' : k \notin DOMAIN cache' BY DEF QueriesKept, FillsOf
  <1>5. ASSUME NEW i \in Answers(k)'
        PROVE  /\ k \notin DOMAIN cache' /\ Saves(k)' = {}
               /\ fromDb'[i].data[k] \in {store'[k], Failed}
    <2>1. i + e \in Answers(k) /\ fromDb'[i] = fromDb[i + e] BY DEF AnswersKept
    <2>2. Saves(k) = {} /\ k \notin DOMAIN cache BY <2>1 DEF FillsOf
    <2>3. Saves(k)' = {} BY <2>2 DEF SavesKept
    <2>4. fromDb[i + e].data[k] \in {store[k], Failed} BY <2>1 DEF FillsOf
    <2> QED BY <2>1, <2>2, <2>3, <2>4
  <1> QED BY <1>2, <1>3, <1>4, <1>5 DEF FillsOf

(* No session is left that waits for the key. *)
LEMMA FillsNobody ==
  ASSUME NEW k \in Keys, Queries(k)' = {}, Answers(k)' = {}
  PROVE  FillsOf(k)'
  <1>1. Waits(k)' = {} BY DEF Waits
  <1> QED BY <1>1 DEF FillsOf

(* A later step adds no message to a queue.                                *)
KeepsToDb(d) ==
  \A i \in DOMAIN toDb' : i \in Nat /\ i + d \in DOMAIN toDb /\ toDb'[i] = toDb[i + d]

KeepsFromDb(e) ==
  \A i \in DOMAIN fromDb' : i \in Nat /\ i + e \in DOMAIN fromDb /\ fromDb'[i] = fromDb[i + e]

(* Sessions end, or wait for what they waited for.                         *)
SessionsEnd ==
  \A m \in Requests : m \in Querying' => m \in Querying /\ work'[m].keys = work[m].keys

(* Then the messages of each key are kept too.                             *)
LEMMA KeptOfKey ==
  ASSUME NEW k \in Keys, NEW d \in {0, 1}, NEW e \in {0, 1}, SessionsEnd
  PROVE  /\ KeepsToDb(d) => SavesKept(k, d) /\ QueriesKept(k, d)
         /\ KeepsFromDb(e) => AnswersKept(k, e)
  <1>1. Querying' \subseteq Querying BY DEF SessionsEnd, Querying
  <1>2. ASSUME KeepsToDb(d) PROVE SavesKept(k, d) /\ QueriesKept(k, d)
    <2>1. SavesKept(k, d) BY <1>2 DEF KeepsToDb, SavesKept, Saves
    <2>2. QueriesKept(k, d) BY <1>1, <1>2 DEF KeepsToDb, QueriesKept, Queries
    <2> QED BY <2>1, <2>2
  <1>3. ASSUME KeepsFromDb(e) PROVE AnswersKept(k, e)
    BY <1>1, <1>3 DEF KeepsFromDb, AnswersKept, Answers
  <1> QED BY <1>2, <1>3

(* Every message is where it was, or one that belongs to a request made.   *)
LEMMA PlacedKept ==
  ASSUME Placed, NEW d \in {0, 1}, KeepsToDb(d), NEW e \in {0, 1}, KeepsFromDb(e),
         SessionsEnd, requests' = requests
  PROVE  Placed'
  <1>1. Querying' \subseteq Requests BY DEF Querying
  <1>2. ASSUME NEW i \in DOMAIN toDb'
        PROVE  /\ toDb'[i].of <= requests'
               /\ toDb'[i].kind = "Query" /\ toDb'[i].of \in Querying' =>
                    toDb'[i].keys \subseteq work'[toDb'[i].of].keys
    BY <1>1 DEF Placed, KeepsToDb, SessionsEnd
  <1>3. ASSUME NEW i \in DOMAIN fromDb'
        PROVE  /\ fromDb'[i].of <= requests'
               /\ fromDb'[i].kind = "Query" /\ fromDb'[i].of \in Querying' =>
                    DOMAIN fromDb'[i].data \subseteq work'[fromDb'[i].of].keys
    BY <1>1 DEF Placed, KeepsFromDb, SessionsEnd
  <1> QED BY <1>2, <1>3 DEF Placed

(* OnUpdateData ends the wait of its session, and sends a save or nothing. *)
LEMMA UpdateDataSends ==
  ASSUME work \in [Requests -> Session \cup {None}], stamp \in {"none", "fresh", "old"},
         NEW n \in Requests, NEW s \in Session, NEW c, UpdateData(n, s, c)
  PROVE  /\ SessionsEnd /\ n \notin Querying'
         /\ DOMAIN cache' = DOMAIN c
         /\ \A k \in DOMAIN c : c[k] \subseteq cache'[k]
         /\ \/ toDb' = toDb
            \/ \E m : /\ toDb' = Append(toDb, m) /\ m.kind = "Save" /\ m.of = n
                      /\ DOMAIN m.data \subseteq DOMAIN c
  <1>1. PICK done \in SUBSET (s.keys \cap DOMAIN c) :
          IF done = s.keys
          THEN /\ cache' = Updated(c, done, n)
               /\ work' = Waiting(n, [s EXCEPT !.wait = "Save"])
               /\ toDb' = Append(toDb, [ kind |-> "Save", of |-> n,
                                         data |-> Part(Updated(c, done, n), done) ])
               /\ UNCHANGED << stamp, acked, refused >>
          ELSE /\ cache' = c
               /\ refused' = refused \cup {n}
               /\ Look(FALSE, Ended(n))
               /\ UNCHANGED << toDb, acked >>
    BY DEF UpdateData
  <1>2. CASE done = s.keys
    <2>1. work' = Waiting(n, [s EXCEPT !.wait = "Save"]) /\ cache' = Updated(c, done, n)
      BY <1>1, <1>2
    <2>2. [s EXCEPT !.wait = "Save"].wait = "Save" BY DEF Session
    <2>3. n \notin Querying' BY <2>1, <2>2 DEF Waiting, Querying
    <2>4. \A m \in Requests \ {n} : work'[m] = work[m] BY <2>1 DEF Waiting
    <2>5. SessionsEnd BY <2>3, <2>4 DEF SessionsEnd, Querying
    <2>6. DOMAIN cache' = DOMAIN c /\ \A k \in DOMAIN c : c[k] \subseteq cache'[k]
      BY <2>1 DEF Updated
    <2> DEFINE m == [ kind |-> "Save", of |-> n,
                      data |-> Part(Updated(c, done, n), done) ]
    <2>7. toDb' = Append(toDb, m) BY <1>1, <1>2
    <2>8. m.kind = "Save" /\ m.of = n /\ DOMAIN m.data = done BY DEF Part
    <2> HIDE DEF m
    <2>9. DOMAIN m.data \subseteq DOMAIN c BY <2>8
    <2> QED BY <2>3, <2>5, <2>6, <2>7, <2>8, <2>9
  <1>3. CASE done # s.keys
    <2>1. Look(FALSE, Ended(n)) /\ toDb' = toDb /\ cache' = c BY <1>1, <1>3
    <2>2. /\ Ended(n) \in [Requests -> Session \cup {None}]
          /\ Ended(n)[n] = None
          /\ \A m \in Requests \ {n} : Ended(n)[m] = work[m]
      BY DEF Ended
    <2>3. \A m \in Requests :
            /\ work'[m] = None <=> Ended(n)[m] = None
            /\ work'[m] # None => /\ work'[m].wait = Ended(n)[m].wait
                                  /\ work'[m].keys = Ended(n)[m].keys
      BY <2>1, <2>2, LookSessions
    <2>4. n \notin Querying' BY <2>2, <2>3 DEF Querying
    <2>5. SessionsEnd BY <2>2, <2>3, <2>4 DEF SessionsEnd, Querying
    <2> QED BY <2>1, <2>4, <2>5
  <1> QED BY <1>2, <1>3

(* OnUpdateData sends no save behind a query: where it does, no session    *)
(* but its own waits for the key.                                          *)
LEMMA UpdateDataFills ==
  ASSUME NEW k \in Keys, FillsOf(k),
         toDb \in Seq(ToDb), work \in [Requests -> Session \cup {None}],
         stamp \in {"none", "fresh", "old"},
         NEW n \in Requests, NEW s \in Session, NEW c, UpdateData(n, s, c),
         NEW e \in {0, 1}, KeepsFromDb(e), store' = store,
         Waits(k) \subseteq {n} \/ k \notin DOMAIN c
  PROVE  FillsOf(k)'
  <1>1. /\ SessionsEnd /\ n \notin Querying' /\ DOMAIN cache' = DOMAIN c
        /\ \/ toDb' = toDb
           \/ \E m : /\ toDb' = Append(toDb, m) /\ m.kind = "Save" /\ m.of = n
                     /\ DOMAIN m.data \subseteq DOMAIN c
    BY UpdateDataSends
  <1>2. AnswersKept(k, e) BY <1>1, KeptOfKey
  <1>3. \A i \in DOMAIN toDb : i \in Nat /\ i + 0 = i BY Places
  <1>4. /\ QueriesKept(k, 0)
        /\ k \notin DOMAIN c => SavesKept(k, 0)
    <2>1. CASE toDb' = toDb
      <3>1. KeepsToDb(0) BY <1>3, <2>1 DEF KeepsToDb
      <3> QED BY <1>1, <3>1, KeptOfKey
    <2>2. CASE \E m : /\ toDb' = Append(toDb, m) /\ m.kind = "Save" /\ m.of = n
                      /\ DOMAIN m.data \subseteq DOMAIN c
      <3>1. PICK m : /\ toDb' = Append(toDb, m) /\ m.kind = "Save" /\ m.of = n
                     /\ DOMAIN m.data \subseteq DOMAIN c
        BY <2>2
      <3>2. \A i \in DOMAIN toDb' :
              (i \in DOMAIN toDb /\ toDb'[i] = toDb[i]) \/ toDb'[i] = m
        BY <3>1, SentPlaces
      <3>3. Querying' \subseteq Querying BY <1>1 DEF SessionsEnd, Querying
      <3>4. QueriesKept(k, 0)
        BY <1>3, <3>1, <3>2, <3>3 DEF QueriesKept, Queries
      <3>5. k \notin DOMAIN c => SavesKept(k, 0)
        BY <1>3, <3>1, <3>2 DEF SavesKept, Saves
      <3> QED BY <3>4, <3>5
    <2> QED BY <1>1, <2>1, <2>2
  <1>5. CASE k \notin DOMAIN c
    <2>1. SavesKept(k, 0) /\ QueriesKept(k, 0) BY <1>4, <1>5
    <2>2. k \in DOMAIN cache' => k \in DOMAIN cache BY <1>1, <1>5
    <2> QED BY <1>2, <2>1, <2>2, FillsKept
  <1>6. CASE Waits(k) \subseteq {n}
    <2>1. \A i \in Queries(k)' : toDb'[i].of \in Waits(k) /\ toDb'[i].of \in Querying'
      BY <1>4 DEF QueriesKept, Waits, Queries
    <2>2. \A i \in Answers(k)' : fromDb'[i].of \in Waits(k) /\ fromDb'[i].of \in Querying'
      BY <1>2 DEF AnswersKept, Waits, Answers
    <2>3. Queries(k)' = {} /\ Answers(k)' = {} BY <1>1, <1>6, <2>1, <2>2
    <2> QED BY <2>3, FillsNobody
  <1> QED BY <1>5, <1>6

(* Nor does it send one of a request that was not made.                    *)
LEMMA UpdateDataPlaced ==
  ASSUME IInv, NEW n \in Requests, NEW s \in Session, NEW c, UpdateData(n, s, c),
         \A i \in DOMAIN toDb :
           /\ toDb[i].of <= requests'
           /\ toDb[i].kind = "Query" /\ toDb[i].of \in Querying =>
                toDb[i].keys \subseteq work[toDb[i].of].keys,
         \A i \in DOMAIN fromDb' :
           /\ fromDb'[i].of <= requests'
           /\ fromDb'[i].kind = "Query" /\ fromDb'[i].of \in Querying =>
                DOMAIN fromDb'[i].data \subseteq work[fromDb'[i].of].keys,
         n <= requests'
  PROVE  Placed'
  <1>1. /\ toDb \in Seq(ToDb) /\ work \in [Requests -> Session \cup {None}]
        /\ stamp \in {"none", "fresh", "old"}
    BY CacheTyped DEF Typing
  <1>2. /\ SessionsEnd
        /\ \/ toDb' = toDb
           \/ \E m : /\ toDb' = Append(toDb, m) /\ m.kind = "Save" /\ m.of = n
                     /\ DOMAIN m.data \subseteq DOMAIN c
    BY <1>1, UpdateDataSends
  <1>3. Querying' \subseteq Requests BY DEF Querying
  <1>4. ASSUME NEW i \in DOMAIN toDb'
        PROVE  /\ toDb'[i].of <= requests'
               /\ toDb'[i].kind = "Query" /\ toDb'[i].of \in Querying' =>
                    toDb'[i].keys \subseteq work'[toDb'[i].of].keys
    <2>1. CASE i \in DOMAIN toDb /\ toDb'[i] = toDb[i]
      BY <1>2, <1>3, <2>1 DEF SessionsEnd
    <2>2. CASE toDb'[i].kind = "Save" /\ toDb'[i].of = n BY <2>2
    <2>3. CASE \E m : /\ toDb' = Append(toDb, m) /\ m.kind = "Save" /\ m.of = n
                      /\ DOMAIN m.data \subseteq DOMAIN c
      <3>1. PICK m : toDb' = Append(toDb, m) /\ m.kind = "Save" /\ m.of = n BY <2>3
      <3>2. (i \in DOMAIN toDb /\ toDb'[i] = toDb[i]) \/ toDb'[i] = m
        BY <1>1, <3>1, SentPlaces
      <3> QED BY <2>1, <2>2, <3>1, <3>2
    <2> QED BY <1>2, <2>1, <2>3
  <1>5. ASSUME NEW i \in DOMAIN fromDb'
        PROVE  /\ fromDb'[i].of <= requests'
               /\ fromDb'[i].kind = "Query" /\ fromDb'[i].of \in Querying' =>
                    DOMAIN fromDb'[i].data \subseteq work'[fromDb'[i].of].keys
    BY <1>2, <1>3 DEF SessionsEnd
  <1> QED BY <1>4, <1>5 DEF Placed

-----------------------------------------------------------------------------
(* The order is kept by each step, for each key that was never crossed.    *)
LEMMA InitOrder == Init => Order
  <1> SUFFICES ASSUME Init PROVE Order OBVIOUS
  <1>1. /\ DOMAIN toDb = {} /\ DOMAIN fromDb = {} /\ DOMAIN cache = {}
    BY DEF Init, NoData
  <1>2. Placed BY <1>1 DEF Placed
  <1>3. ASSUME NEW k \in Keys PROVE GrowsOf(k) /\ FillsOf(k)
    <2>1. Saves(k) = {} /\ Queries(k) = {} /\ Answers(k) = {}
      BY <1>1 DEF Saves, Queries, Answers
    <2>2. Waits(k) = {} BY <2>1 DEF Waits
    <2> QED BY <1>1, <2>1, <2>2 DEF GrowsOf, FillsOf
  <1> QED BY <1>2, <1>3 DEF Order

(* The numbers of the messages are smaller than that of a new request.     *)
LEMMA OlderMessages ==
  ASSUME Typing, Placed
  PROVE  /\ \A i \in DOMAIN toDb :
              toDb[i].of \in Nat /\ toDb[i].of <= requests + 1 /\ toDb[i].of # requests + 1
         /\ \A i \in DOMAIN fromDb :
              fromDb[i].of \in Nat /\ fromDb[i].of <= requests + 1
              /\ fromDb[i].of # requests + 1
  <1>1. toDb \in Seq(ToDb) /\ fromDb \in Seq(FromDb) /\ requests \in Nat BY DEF Typing
  <1>2. \A i \in DOMAIN toDb : toDb[i].of \in Nat BY <1>1, Places DEF ToDb, Requests
  <1>3. \A i \in DOMAIN fromDb : fromDb[i].of \in Nat BY <1>1, Places DEF FromDb, Requests
  <1>4. \A i \in DOMAIN toDb : toDb[i].of <= requests BY DEF Placed
  <1>5. \A i \in DOMAIN fromDb : fromDb[i].of <= requests BY DEF Placed
  <1> QED BY <1>1, <1>2, <1>3, <1>4, <1>5

(* A new session waits for a query, the others wait as before.             *)
LEMMA NewQuerying ==
  ASSUME Typing, NEW n \in Requests, NEW s \in Session, s.wait = "Query",
         NEW present, Look(present, Waiting(n, s))
  PROVE  /\ n \in Querying' /\ work'[n].keys = s.keys
         /\ \A m \in Requests \ {n} :
              m \in Querying' => m \in Querying /\ work'[m].keys = work[m].keys
  <1>1. /\ work \in [Requests -> Session \cup {None}] /\ stamp \in {"none", "fresh", "old"}
        /\ None \notin Session
    BY CacheAssumption DEF Typing
  <1>2. /\ Waiting(n, s) \in [Requests -> Session \cup {None}]
        /\ Waiting(n, s)[n] = s
        /\ \A m \in Requests \ {n} : Waiting(n, s)[m] = work[m]
    BY <1>1 DEF Waiting
  <1>3. \A m \in Requests :
          /\ work'[m] = None <=> Waiting(n, s)[m] = None
          /\ work'[m] # None => /\ work'[m].wait = Waiting(n, s)[m].wait
                                /\ work'[m].keys = Waiting(n, s)[m].keys
    BY <1>1, <1>2, LookSessions
  <1> QED BY <1>1, <1>2, <1>3 DEF Querying

(* A request with a key to ask for sends the query behind every save.  Of  *)
(* a key that no other session waits for there is no other query.          *)
LEMMA AskFills ==
  ASSUME Typing, Placed, NEW k \in Keys, FillsOf(k),
         NEW n, n = requests + 1, n \in Requests,
         \A i \in DOMAIN toDb : i \in Nat /\ i < Len(toDb) + 1,
         NEW keys \in SUBSET Keys, \A q \in keys : q \notin DOMAIN cache,
         toDb' = Append(toDb, [ kind |-> "Query", of |-> n, keys |-> keys ]),
         fromDb' = fromDb, cache' = cache, store' = store,
         \A m \in Requests \ {n} : m \in Querying' => m \in Querying,
         k \in keys => \A m \in Querying : k \notin work[m].keys
  PROVE  FillsOf(k)'
  <1> DEFINE q == [ kind |-> "Query", of |-> n, keys |-> keys ]
  <1>1. q.kind = "Query" /\ q.of = n /\ q.keys = keys /\ toDb' = Append(toDb, q) OBVIOUS
  <1> HIDE DEF q
  <1>2. /\ toDb \in Seq(ToDb) /\ fromDb \in Seq(FromDb) BY DEF Typing
  <1>3. /\ \A i \in DOMAIN toDb : toDb[i].of # n
        /\ \A i \in DOMAIN fromDb : fromDb[i].of # n
    BY OlderMessages
  <1>4. \A i \in DOMAIN toDb' :
          /\ i \in Nat
          /\ (i \in DOMAIN toDb /\ toDb'[i] = toDb[i]) \/ (i = Len(toDb) + 1 /\ toDb'[i] = q)
    BY <1>1, <1>2, SentPlaces
  <1>5. Querying' \subseteq Querying \cup {n} BY DEF Querying
  <1>6. SavesKept(k, 0)
    BY <1>1, <1>4 DEF SavesKept, Saves
  <1>7. AnswersKept(k, 0)
    <2>1. \A i \in DOMAIN fromDb : i \in Nat /\ i + 0 = i BY <1>2, Places
    <2> QED BY <1>3, <1>5, <2>1 DEF AnswersKept, Answers
  <1>8. CASE k \notin keys
    <2>1. QueriesKept(k, 0)
      BY <1>1, <1>3, <1>4, <1>5, <1>8 DEF QueriesKept, Queries
    <2> QED BY <1>6, <1>7, <2>1, FillsKept
  <1>9. CASE k \in keys
    <2>1. Queries(k) = {}
      BY <1>9 DEF Placed, Queries
    <2>2. Answers(k) = {}
      BY <1>9 DEF Placed, Answers
    <2>3. Answers(k)' = {} BY <1>7, <2>2 DEF AnswersKept
    <2>4. ASSUME NEW i \in Queries(k)' PROVE i = Len(toDb) + 1 /\ toDb'[i] = q
      <3>1. i \in DOMAIN toDb' /\ toDb'[i].kind = "Query" /\ k \in toDb'[i].keys
            /\ toDb'[i].of \in Querying'
        BY DEF Queries
      <3>2. i \notin DOMAIN toDb \/ toDb'[i] # toDb[i]
        BY <1>3, <1>5, <2>1, <3>1 DEF Queries
      <3> QED BY <1>4, <3>1, <3>2
    <2>5. \A p \in Waits(k)' : p = n BY <1>1, <2>3, <2>4 DEF Waits
    <2>6. ASSUME NEW i \in Queries(k)', NEW j \in Saves(k)' PROVE ~ (i < j)
      <3>1. i = Len(toDb) + 1 /\ toDb'[i] = q BY <2>4
      <3>2. j \in DOMAIN toDb BY <1>6 DEF SavesKept, Saves
      <3>3. j \in Nat /\ j < Len(toDb) + 1 BY <3>2
      <3>4. Len(toDb) \in Nat BY <1>2
      <3> QED BY <3>1, <3>3, <3>4
    <2>7. k \notin DOMAIN cache' BY <1>9
    <2> QED BY <2>3, <2>5, <2>6, <2>7 DEF FillsOf
  <1> QED BY <1>8, <1>9

(* A request keeps Order: a key it asks for while another session waits    *)
(* for it is crossed, and what it saves covers everything saved before.    *)
LEMMA RequestOrder ==
  ASSUME IInv, IInv', Order, HistoryKeys,
         NEW kind \in {"Get", "Update"}, NEW keys \in SUBSET Keys, Request(kind, keys)
  PROVE  Order'
  <1> DEFINE n == requests + 1
             s == NewSession(kind, keys)
  <1>1. /\ Typing
        /\ toDb \in Seq(ToDb) /\ fromDb \in Seq(FromDb)
        /\ work \in [Requests -> Session \cup {None}]
        /\ requests \in Nat /\ stamp \in {"none", "fresh", "old"}
    BY CacheTyped DEF Typing
  <1>2. /\ requests' = n /\ n \in Requests
        /\ fromDb' = fromDb /\ store' = store
        /\ crossed' = crossed \cup Crossed(Missing(keys, cache))
    BY <1>1, CacheAssumption DEF Request, Requests
  <1>3. Placed BY DEF Order
  <1>4. /\ \A i \in DOMAIN toDb :
             toDb[i].of \in Nat /\ toDb[i].of <= requests' /\ toDb[i].of # n
        /\ \A i \in DOMAIN fromDb :
             fromDb[i].of \in Nat /\ fromDb[i].of <= requests' /\ fromDb[i].of # n
    BY <1>1, <1>2, <1>3, OlderMessages
  <1>5. s \in Session /\ s.wait = "Query" /\ s.keys = keys BY DEF NewSession, Session
  <1>6. ASSUME NEW k \in Keys \ crossed' PROVE k \in Keys /\ GrowsOf(k) /\ FillsOf(k)
    BY <1>2, <1>6 DEF Order
  <1>7. /\ \A i \in DOMAIN toDb : i \in Nat /\ i + 0 = i
        /\ \A i \in DOMAIN fromDb : i \in Nat /\ i + 0 = i
    BY <1>1, Places
  <1>8. KeepsFromDb(0) BY <1>2, <1>7 DEF KeepsFromDb
  <1>9. CASE Missing(keys, cache) # {}
    <2> DEFINE lack == Missing(keys, cache)
               m == [ kind |-> "Query", of |-> n, keys |-> lack ]
    <2>1. /\ Look(entry, Waiting(n, s)) /\ toDb' = Append(toDb, m) /\ cache' = cache
      BY <1>9 DEF Request
    <2>2. lack \in SUBSET Keys /\ lack \subseteq keys /\ \A q \in lack : q \notin DOMAIN cache
      BY DEF Missing
    <2>3. /\ n \in Querying' /\ work'[n].keys = s.keys
          /\ \A p \in Requests \ {n} :
               p \in Querying' => p \in Querying /\ work'[p].keys = work[p].keys
      BY <1>1, <1>2, <1>5, <2>1, NewQuerying
    <2>4. ASSUME NEW k \in lack \ crossed', NEW p \in Querying PROVE k \notin work[p].keys
      <3>1. k \notin Crossed(lack) BY <1>2, <2>4
      <3> QED BY <2>4, <3>1 DEF Crossed, InWork, Querying
    <2>5. \A i \in DOMAIN toDb : i \in Nat /\ i < Len(toDb) + 1 BY <1>1
    <2> HIDE DEF lack, n, s
    <2>6. ASSUME NEW i \in DOMAIN toDb'
          PROVE  (i \in DOMAIN toDb /\ toDb'[i] = toDb[i]) \/ (i = Len(toDb) + 1 /\ toDb'[i] = m)
      BY <1>1, <2>1, SentPlaces
    <2>7. Querying' \subseteq Requests BY DEF Querying
    <2>8. Placed'
      <3>1. m.kind = "Query" /\ m.of = n /\ m.keys = lack OBVIOUS
      <3> HIDE DEF m
      <3>2. ASSUME NEW i \in DOMAIN toDb'
            PROVE  /\ toDb'[i].of <= requests'
                   /\ toDb'[i].kind = "Query" /\ toDb'[i].of \in Querying' =>
                        toDb'[i].keys \subseteq work'[toDb'[i].of].keys
        <4>1. CASE i \in DOMAIN toDb /\ toDb'[i] = toDb[i]
          BY <1>3, <1>4, <2>3, <2>7, <4>1 DEF Placed
        <4>2. CASE toDb'[i] = m
          <5>1. n <= requests' BY <1>1, <1>2 DEF n
          <5> QED BY <1>5, <2>2, <2>3, <3>1, <4>2, <5>1
        <4> QED BY <2>6, <4>1, <4>2
      <3>3. ASSUME NEW i \in DOMAIN fromDb'
            PROVE  /\ fromDb'[i].of <= requests'
                   /\ fromDb'[i].kind = "Query" /\ fromDb'[i].of \in Querying' =>
                        DOMAIN fromDb'[i].data \subseteq work'[fromDb'[i].of].keys
        BY <1>2, <1>3, <1>4, <2>3, <2>7 DEF Placed
      <3> QED BY <3>2, <3>3 DEF Placed
    <2>9. ASSUME NEW k \in Keys \ crossed' PROVE GrowsOf(k)' /\ FillsOf(k)'
      <3>1. k \in Keys /\ GrowsOf(k) /\ FillsOf(k) BY <1>6
      <3>2. m.kind = "Query" OBVIOUS
      <3>3. SavesKept(k, 0) BY <1>7, <2>6, <3>2 DEF SavesKept, Saves
      <3>4. GrowsOf(k)' BY <1>2, <2>1, <3>1, <3>3, GrowsKept
      <3>5. k \in lack => \A p \in Querying : k \notin work[p].keys BY <2>4
      <3>6. \A p \in Requests \ {n} : p \in Querying' => p \in Querying BY <2>3
      <3>7. n = requests + 1 BY DEF n
      <3>8. toDb' = Append(toDb, [ kind |-> "Query", of |-> n, keys |-> lack ]) BY <2>1
      <3>9. \A q \in lack : q \notin DOMAIN cache BY <2>2
      <3>10. FillsOf(k)'
        BY <1>1, <1>2, <1>3, <2>1, <2>2, <2>5, <3>1, <3>5, <3>6, <3>7, <3>8, <3>9, AskFills
      <3> QED BY <3>4, <3>10
    <2> QED BY <2>8, <2>9 DEF Order
  <1>10. CASE Missing(keys, cache) = {} /\ kind = "Get"
    <2>1. UNCHANGED << cache, stamp, work, toDb, acked, refused >>
      BY <1>10 DEF Request
    <2>2. KeepsToDb(0) BY <1>7, <2>1 DEF KeepsToDb
    <2>3. SessionsEnd BY <2>1 DEF SessionsEnd, Querying
    <2>4. Querying' = Querying BY <2>1 DEF Querying
    <2>5. Placed'
      <3>1. \A i \in DOMAIN toDb :
              toDb[i].kind = "Query" /\ toDb[i].of \in Querying =>
                toDb[i].keys \subseteq work[toDb[i].of].keys
        BY <1>3 DEF Placed
      <3>2. \A i \in DOMAIN fromDb :
              fromDb[i].kind = "Query" /\ fromDb[i].of \in Querying =>
                DOMAIN fromDb[i].data \subseteq work[fromDb[i].of].keys
        BY <1>3 DEF Placed
      <3> HIDE DEF n
      <3> QED BY <1>2, <1>4, <2>1, <2>4, <3>1, <3>2 DEF Placed
    <2>6. ASSUME NEW k \in Keys \ crossed' PROVE GrowsOf(k)' /\ FillsOf(k)'
      <3>1. k \in Keys /\ GrowsOf(k) /\ FillsOf(k) BY <1>6
      <3>2. SavesKept(k, 0) /\ QueriesKept(k, 0) /\ AnswersKept(k, 0)
        BY <1>8, <2>2, <2>3, <3>1, KeptOfKey
      <3>3. GrowsOf(k)' BY <1>2, <2>1, <3>1, <3>2, GrowsKept
      <3>4. FillsOf(k)' BY <1>2, <2>1, <3>1, <3>2, FillsKept
      <3> QED BY <3>3, <3>4
    <2> QED BY <2>5, <2>6 DEF Order
  <1>11. CASE Missing(keys, cache) = {} /\ kind # "Get"
    <2>1. UpdateData(n, s, cache) BY <1>11 DEF Request
    <2>2. n <= requests' BY <1>1, <1>2
    <2>3. \A i \in DOMAIN toDb :
            /\ toDb[i].of <= requests'
            /\ toDb[i].kind = "Query" /\ toDb[i].of \in Querying =>
                 toDb[i].keys \subseteq work[toDb[i].of].keys
      BY <1>3, <1>4 DEF Placed
    <2>4. \A i \in DOMAIN fromDb' :
            /\ fromDb'[i].of <= requests'
            /\ fromDb'[i].kind = "Query" /\ fromDb'[i].of \in Querying =>
                 DOMAIN fromDb'[i].data \subseteq work[fromDb'[i].of].keys
      BY <1>2, <1>3, <1>4 DEF Placed
    <2> HIDE DEF n, s
    <2>5. Placed' BY <1>2, <1>5, <2>1, <2>2, <2>3, <2>4, UpdateDataPlaced
    <2>6. ASSUME NEW k \in Keys \ crossed' PROVE GrowsOf(k)' /\ FillsOf(k)'
      <3>1. k \in Keys /\ GrowsOf(k) /\ FillsOf(k) BY <1>6
      <3>2. Covers(k, cache) BY <3>1 DEF Covers, GrowsOf
      <3>3. GrowsOf(k)' BY <1>1, <1>2, <1>5, <2>1, <3>1, <3>2, UpdateDataGrows
      <3>4. Waits(k) \subseteq {n} \/ k \notin DOMAIN cache
        BY <3>1 DEF FillsOf, Waits
      <3>5. FillsOf(k)' BY <1>1, <1>2, <1>5, <1>8, <2>1, <3>1, <3>4, UpdateDataFills
      <3> QED BY <3>3, <3>5
    <2> QED BY <2>5, <2>6 DEF Order
  <1> QED BY <1>9, <1>10, <1>11

(* The dbproxy keeps Order, and what it writes covers what was in Redis.   *)
LEMMA DbTakeOrder ==
  ASSUME IInv, Order, DbTake
  PROVE  /\ Order'
         /\ \A k \in Keys \ crossed :
              store[k] # Nil => store'[k] # Nil /\ store[k] \subseteq store'[k]
  <1> DEFINE m == Head(toDb)
  <1>1. /\ toDb \in Seq(ToDb) /\ fromDb \in Seq(FromDb) BY CacheTyped DEF Typing
  <1>2. /\ toDb # << >> /\ toDb' = Tail(toDb) /\ crossed' = crossed
        /\ cache' = cache /\ work' = work /\ requests' = requests
    BY DEF DbTake
  <1>3. /\ 1 \in DOMAIN toDb /\ m = toDb[1]
        /\ \A i \in DOMAIN toDb' :
             i \in Nat /\ 0 < i /\ i + 1 \in DOMAIN toDb /\ toDb'[i] = toDb[i + 1]
    BY <1>1, <1>2, TakenPlaces
  <1>4. KeepsToDb(1) BY <1>3 DEF KeepsToDb
  <1>5. Querying' = Querying /\ SessionsEnd BY <1>2 DEF Querying, SessionsEnd
  <1>6. m \in ToDb BY <1>1, <1>3, Places
  <1>7. \A i \in DOMAIN fromDb : i \in Nat /\ i + 0 = i BY <1>1, Places
  <1>8. Placed BY DEF Order
  (* An answer joins those that were there.                                *)
  <1> DEFINE Joins(a) ==
        \A i \in DOMAIN fromDb' :
          (i \in DOMAIN fromDb /\ fromDb'[i] = fromDb[i]) \/ fromDb'[i] = a
  <1>9. ASSUME NEW a, Joins(a), a.of <= requests,
               a.kind = "Query" /\ a.of \in Querying =>
                 DOMAIN a.data \subseteq work[a.of].keys
        PROVE  Placed'
    <2>1. \A i \in DOMAIN toDb' :
            /\ toDb'[i].of <= requests'
            /\ toDb'[i].kind = "Query" /\ toDb'[i].of \in Querying' =>
                 toDb'[i].keys \subseteq work'[toDb'[i].of].keys
      BY <1>2, <1>3, <1>5, <1>8 DEF Placed
    <2>2. ASSUME NEW i \in DOMAIN fromDb'
          PROVE  /\ fromDb'[i].of <= requests'
                 /\ fromDb'[i].kind = "Query" /\ fromDb'[i].of \in Querying' =>
                      DOMAIN fromDb'[i].data \subseteq work'[fromDb'[i].of].keys
      <3>1. CASE i \in DOMAIN fromDb /\ fromDb'[i] = fromDb[i]
        BY <1>2, <1>5, <1>8, <3>1 DEF Placed
      <3>2. CASE fromDb'[i] = a BY <1>2, <1>5, <1>9, <3>2
      <3> QED BY <1>9, <3>1, <3>2
    <2> QED BY <2>1, <2>2 DEF Placed
  <1>10. CASE m.kind = "Query"
    <2>1. QueryData(m) BY <1>10 DEF DbTake
    <2>2. store' = store BY <2>1 DEF QueryData
    <2>3. PICK bad \in SUBSET m.keys : fromDb' = Append(fromDb,
            [ kind |-> "Query", of |-> m.of,
              data |-> [ k \in m.keys |-> IF k \in bad THEN Failed ELSE store[k] ] ])
      BY <2>1 DEF QueryData
    <2> DEFINE a == [ kind |-> "Query", of |-> m.of,
                      data |-> [ k \in m.keys |-> IF k \in bad THEN Failed ELSE store[k] ] ]
    <2>4. /\ fromDb' = Append(fromDb, a) /\ a.of = m.of /\ a.kind = "Query"
          /\ DOMAIN a.data = m.keys
          /\ \A k \in m.keys : a.data[k] \in {store[k], Failed}
      BY <2>3
    <2> HIDE DEF a, m
    <2>5. Joins(a) BY <1>1, <2>4, SentPlaces
    <2>6. a.of <= requests BY <1>3, <1>8, <2>4 DEF Placed
    <2>7. a.of \in Querying => DOMAIN a.data \subseteq work[a.of].keys
      BY <1>3, <1>8, <1>10, <2>4 DEF Placed
    <2> HIDE DEF Joins
    <2>8. Placed' BY <1>9, <2>5, <2>6, <2>7
    <2> USE DEF Joins
    <2>9. \A i \in DOMAIN fromDb' : i \in Nat BY <1>1, <2>4, SentPlaces
    <2>10. ASSUME NEW k \in Keys \ crossed PROVE GrowsOf(k)' /\ FillsOf(k)'
      <3>1. k \in Keys /\ GrowsOf(k) /\ FillsOf(k) BY DEF Order
      <3>2. SavesKept(k, 1) /\ QueriesKept(k, 1) BY <1>4, <1>5, <3>1, KeptOfKey
      <3>3. GrowsOf(k)' BY <1>2, <2>2, <3>1, <3>2, GrowsKept
      <3>4. CASE k \in m.keys /\ m.of \in Querying
        <4>1. 1 \in Queries(k) BY <1>3, <1>10, <3>4 DEF Queries
        <4>2. k \notin DOMAIN cache /\ \A j \in Saves(k) : ~ (1 < j) BY <3>1, <4>1 DEF FillsOf
        <4>3. Saves(k)' = {}
          <5>1. ASSUME NEW i \in Saves(k)' PROVE FALSE
            <6>1. i \in DOMAIN toDb' /\ i + 1 \in Saves(k) BY <3>2 DEF SavesKept, Saves
            <6>2. 1 < i + 1 BY <1>3, <6>1
            <6> QED BY <4>2, <6>1, <6>2
          <5> QED BY <5>1
        <4>4. Waits(k)' \subseteq Waits(k)
          <5>1. m.of \in Waits(k) BY <1>3, <4>1 DEF Waits
          <5>2. \A i \in Answers(k)' : fromDb'[i].of \in Waits(k)
            BY <1>5, <2>4, <2>5, <5>1 DEF Answers, Waits
          <5>3. \A i \in Queries(k)' : toDb'[i].of \in Waits(k) BY <3>2 DEF QueriesKept, Waits
          <5> QED BY <5>2, <5>3 DEF Waits
        <4>5. \A p, q \in Waits(k)' : p = q BY <3>1, <4>4 DEF FillsOf
        <4>6. ASSUME NEW i \in Answers(k)' PROVE fromDb'[i].data[k] \in {store'[k], Failed}
          <5>1. CASE i \in DOMAIN fromDb /\ fromDb'[i] = fromDb[i]
            <6>1. i \in Answers(k) BY <1>5, <5>1 DEF Answers
            <6> QED BY <2>2, <3>1, <5>1, <6>1 DEF FillsOf
          <5>2. CASE fromDb'[i] = a BY <2>2, <2>4, <3>4, <5>2
          <5> QED BY <2>5, <5>1, <5>2 DEF Answers
        <4>7. k \notin DOMAIN cache' BY <1>2, <4>2
        <4>8. FillsOf(k)' BY <4>3, <4>5, <4>6, <4>7 DEF FillsOf
        <4> QED BY <3>3, <4>8
      <3>5. CASE ~ (k \in m.keys /\ m.of \in Querying)
        <4>1. \A i \in Answers(k)' : fromDb'[i] # a BY <1>5, <2>4, <3>5 DEF Answers
        <4>2. AnswersKept(k, 0)
          BY <1>5, <1>7, <2>5, <2>9, <4>1 DEF AnswersKept, Answers
        <4>3. store'[k] = store[k] /\ (k \in DOMAIN cache' => k \in DOMAIN cache)
          BY <1>2, <2>2
        <4>4. FillsOf(k)' BY <3>1, <3>2, <4>2, <4>3, FillsKept
        <4> QED BY <3>3, <4>4
      <3> QED BY <3>3, <3>4, <3>5
    <2> QED BY <1>2, <2>2, <2>8, <2>10 DEF Order
  <1>11. CASE m.kind # "Query"
    <2>1. SaveData(m) BY <1>11 DEF DbTake
    <2>2. m.kind = "Save" BY <1>6, <1>11 DEF ToDb
    <2> DEFINE a == [ kind |-> "Save", of |-> m.of, keys |-> DOMAIN m.data ]
    <2>3. fromDb' = Append(fromDb, a) /\ a.of = m.of /\ a.kind = "Save"
      BY <2>1 DEF SaveData
    <2>4. PICK bad \in SUBSET DOMAIN m.data : store' =
            [ q \in Keys |-> IF q \in DOMAIN m.data \ bad THEN m.data[q] ELSE store[q] ]
      BY <2>1 DEF SaveData
    <2>5. ASSUME NEW k \in Keys \ crossed
          PROVE  /\ GrowsOf(k)'
                 /\ store[k] # Nil => store'[k] # Nil /\ store[k] \subseteq store'[k]
      <3>1. k \in Keys /\ GrowsOf(k) BY DEF Order
      <3> QED BY <1>1, <1>2, <2>1, <2>2, <3>1, SaveGrows
    <2> HIDE DEF a, m
    <2>6. Joins(a) BY <1>1, <2>3, SentPlaces
    <2>7. a.of <= requests BY <1>3, <1>8, <2>3 DEF Placed
    <2> HIDE DEF Joins
    <2>8. Placed' BY <1>9, <2>3, <2>6, <2>7
    <2> USE DEF Joins
    <2>9. \A i \in DOMAIN fromDb' : i \in Nat BY <1>1, <2>3, SentPlaces
    <2>10. ASSUME NEW k \in Keys \ crossed PROVE FillsOf(k)'
      <3>1. k \in Keys /\ FillsOf(k) BY DEF Order
      <3>2. SavesKept(k, 1) /\ QueriesKept(k, 1) BY <1>4, <1>5, <3>1, KeptOfKey
      <3>3. \A i \in Answers(k)' : fromDb'[i] # a BY <2>3 DEF Answers
      <3>4. AnswersKept(k, 0)
        BY <1>5, <1>7, <2>6, <2>9, <3>3 DEF AnswersKept, Answers
      <3>5. Answers(k) = {} \/ store'[k] = store[k]
        <4>1. k \in DOMAIN m.data => 1 \in Saves(k) BY <1>3, <2>2 DEF Saves
        <4>2. k \in DOMAIN m.data => Answers(k) = {} BY <3>1, <4>1 DEF FillsOf
        <4>3. k \notin DOMAIN m.data => store'[k] = store[k] BY <2>4, <3>1
        <4> QED BY <4>2, <4>3
      <3> QED BY <1>2, <3>1, <3>2, <3>4, <3>5, FillsKept
    <2> QED BY <1>2, <2>5, <2>8, <2>10 DEF Order
  <1> QED BY <1>10, <1>11

(* What was in a queue and not taken. *)
LEMMA QueueKept ==
  ASSUME toDb \in Seq(ToDb), toDb' = toDb \/ (toDb # << >> /\ toDb' = Tail(toDb))
  PROVE  \E d \in {0, 1} : KeepsToDb(d)
  <1>1. CASE toDb' = toDb
    <2>1. \A i \in DOMAIN toDb : i \in Nat /\ i + 0 = i BY Places
    <2>2. KeepsToDb(0) BY <1>1, <2>1 DEF KeepsToDb
    <2> QED BY <2>2
  <1>2. CASE toDb # << >> /\ toDb' = Tail(toDb)
    <2>1. KeepsToDb(1) BY <1>2, TakenPlaces DEF KeepsToDb
    <2> QED BY <2>1
  <1> QED BY <1>1, <1>2

(* To take an answer or none leaves the others in their places.            *)
LEMMA RestKept ==
  ASSUME fromDb \in Seq(FromDb),
         fromDb' = fromDb \/ (fromDb # << >> /\ fromDb' = Tail(fromDb))
  PROVE  \E e \in {0, 1} : KeepsFromDb(e)
  <1>1. CASE fromDb' = fromDb
    <2>1. \A i \in DOMAIN fromDb : i \in Nat /\ i + 0 = i BY Places
    <2>2. KeepsFromDb(0) BY <1>1, <2>1 DEF KeepsFromDb
    <2> QED BY <2>2
  <1>2. CASE fromDb # << >> /\ fromDb' = Tail(fromDb)
    <2>1. KeepsFromDb(1) BY <1>2, TakenPlaces DEF KeepsFromDb
    <2> QED BY <2>1
  <1> QED BY <1>1, <1>2

(* Sessions end, messages are taken or lost, keys leave the cache. *)
OnlyTakes ==
  /\ requests' = requests /\ store' = store
  /\ toDb' = toDb \/ (toDb # << >> /\ toDb' = Tail(toDb))
  /\ fromDb' = fromDb \/ (fromDb # << >> /\ fromDb' = Tail(fromDb))
  /\ \A k \in DOMAIN cache' : k \in DOMAIN cache /\ cache'[k] = cache[k]
  /\ SessionsEnd
  /\ crossed' = crossed

(* A step that only takes messages away keeps Order.                       *)
LEMMA OrderKept ==
  ASSUME IInv, Order, OnlyTakes
  PROVE  Order'
  <1>1. toDb \in Seq(ToDb) /\ fromDb \in Seq(FromDb) BY CacheTyped DEF Typing
  <1>2. PICK d \in {0, 1} : KeepsToDb(d) BY <1>1, QueueKept DEF OnlyTakes
  <1>3. PICK e \in {0, 1} : KeepsFromDb(e) BY <1>1, RestKept DEF OnlyTakes
  <1>4. SessionsEnd /\ requests' = requests /\ store' = store /\ crossed' = crossed
    BY DEF OnlyTakes
  <1>5. Placed' BY <1>2, <1>3, <1>4, PlacedKept DEF Order
  <1>6. ASSUME NEW k \in Keys \ crossed PROVE GrowsOf(k)' /\ FillsOf(k)'
    <2>1. k \in Keys /\ GrowsOf(k) /\ FillsOf(k) BY DEF Order
    <2>2. SavesKept(k, d) /\ QueriesKept(k, d) /\ AnswersKept(k, e)
      BY <1>2, <1>3, <1>4, <2>1, KeptOfKey
    <2>3. k \in DOMAIN cache' => k \in DOMAIN cache /\ cache'[k] = cache[k]
      BY DEF OnlyTakes
    <2>4. GrowsOf(k)' BY <1>4, <2>1, <2>2, <2>3, GrowsKept
    <2>5. FillsOf(k)' BY <1>4, <2>1, <2>2, <2>3, FillsKept
    <2> QED BY <2>4, <2>5
  <1> QED BY <1>4, <1>5, <1>6 DEF Order

(* A session that ends waits for nothing, the others go on waiting.        *)
LEMMA EndedSessions ==
  ASSUME IInv, NEW n \in Requests, work' = Ended(n)
  PROVE  SessionsEnd /\ n \notin Querying'
  BY CacheTyped DEF Typing, Ended, Querying, SessionsEnd

(* The answer to a query keeps Order, and no key that was cached loses an  *)
(* update by it.                                                           *)
LEMMA UserTakeQueryOrder ==
  ASSUME IInv, Order, UserTakeQuery
  PROVE  /\ Order'
         /\ \A k \in (DOMAIN cache \cap DOMAIN cache') \ crossed : cache[k] \subseteq cache'[k]
  <1> DEFINE n == Answer.of
             d == Answer.data
             c == Parsed(cache, d)
  <1>1. /\ toDb \in Seq(ToDb) /\ fromDb \in Seq(FromDb)
        /\ work \in [Requests -> Session \cup {None}]
        /\ stamp \in {"none", "fresh", "old"}
        /\ DOMAIN cache \subseteq Keys
        /\ \A m \in Requests : work[m] # None => m <= requests
    BY CacheTyped DEF Typing
  <1>2. /\ fromDb # << >> /\ fromDb' = Tail(fromDb)
        /\ Answer.kind = "Query" /\ work[n] # None /\ work[n].wait = "Query"
        /\ store' = store /\ requests' = requests /\ crossed' = crossed
    BY DEF UserTakeQuery, history
  <1>3. /\ 1 \in DOMAIN fromDb /\ Answer = fromDb[1]
        /\ \A i \in DOMAIN fromDb' :
             i \in Nat /\ 0 < i /\ i + 1 \in DOMAIN fromDb /\ fromDb'[i] = fromDb[i + 1]
    BY <1>1, <1>2, TakenPlaces DEF Answer
  <1>4. Answer \in FromDb BY <1>1, <1>3, Places
  <1>5. n \in Requests BY <1>2, <1>4 DEF FromDb
  <1>6. Placed BY DEF Order
  <1>7. n \in Querying BY <1>2, <1>5 DEF Querying
  <1>8. KeepsFromDb(1) BY <1>3 DEF KeepsFromDb
  <1>9. \A i \in DOMAIN toDb : i \in Nat /\ i + 0 = i BY <1>1, Places
  <1> HIDE DEF d
  (* The key was answered to this session, or is as it was.                *)
  <1>10. ASSUME NEW k \in Keys \ crossed
         PROVE  /\ k \in Keys /\ GrowsOf(k) /\ FillsOf(k) /\ Covers(k, c)
                /\ k \in DOMAIN cache => k \in DOMAIN c /\ c[k] = cache[k]
                /\ Waits(k) \subseteq {n} \/ k \notin DOMAIN c
    <2>1. k \in Keys /\ GrowsOf(k) /\ FillsOf(k) BY DEF Order
    <2>2. CASE k \in DOMAIN d
      <3>1. 1 \in Answers(k) BY <1>2, <1>3, <1>7, <2>2 DEF Answers, d
      <3>2. k \notin DOMAIN cache /\ Saves(k) = {} /\ fromDb[1].data[k] \in {store[k], Failed}
        BY <2>1, <3>1 DEF FillsOf
      <3>3. d[k] \in {store[k], Failed} BY <1>3, <3>2 DEF d
      <3>4. Covers(k, c) BY <2>1, <3>2, <3>3, ParsedCovers
      <3>5. fromDb[1].of \in Waits(k) BY <3>1 DEF Waits
      <3>6. Waits(k) \subseteq {n} BY <1>3, <2>1, <3>5 DEF FillsOf
      <3> QED BY <2>1, <3>2, <3>4, <3>6
    <2>3. CASE k \notin DOMAIN d
      <3>1. /\ Covers(k, c) /\ (k \in DOMAIN c <=> k \in DOMAIN cache)
            /\ k \in DOMAIN cache => k \in DOMAIN c /\ c[k] = cache[k]
        BY <2>1, <2>3, ParsedCovers
      <3>2. k \in DOMAIN cache => Waits(k) \subseteq {n} BY <2>1 DEF FillsOf, Waits
      <3> QED BY <2>1, <3>1, <3>2
    <2> QED BY <2>2, <2>3
  <1>11. work[n] \in Session /\ n <= requests' BY <1>1, <1>2, <1>5
  <1>12. CASE work[n].kind = "Get"
    <2>1. cache' = c /\ work' = Ended(n) /\ toDb' = toDb
      BY <1>12 DEF UserTakeQuery, d
    <2>2. SessionsEnd /\ n \notin Querying' BY <1>5, <2>1, EndedSessions
    <2> HIDE DEF c, n
    <2>3. KeepsToDb(0) BY <1>9, <2>1 DEF KeepsToDb
    <2>4. Placed' BY <1>2, <1>6, <1>8, <2>2, <2>3, PlacedKept
    <2>5. ASSUME NEW k \in Keys \ crossed PROVE GrowsOf(k)' /\ FillsOf(k)'
      <3>1. /\ k \in Keys /\ GrowsOf(k) /\ FillsOf(k) /\ Covers(k, c)
            /\ k \in DOMAIN cache => k \in DOMAIN c /\ c[k] = cache[k]
            /\ Waits(k) \subseteq {n} \/ k \notin DOMAIN c
        BY <1>10
      <3>2. GrowsOf(k)' BY <1>2, <2>1, <3>1, GrowsCovered
      <3>3. SavesKept(k, 0) /\ QueriesKept(k, 0) /\ AnswersKept(k, 1)
        BY <1>8, <2>2, <2>3, <3>1, KeptOfKey
      <3>4. CASE k \notin DOMAIN c
        <4>1. k \in DOMAIN cache' => k \in DOMAIN cache BY <2>1, <3>4
        <4> QED BY <1>2, <3>1, <3>2, <3>3, <4>1, FillsKept
      <3>5. CASE Waits(k) \subseteq {n}
        <4>1. \A i \in Queries(k)' : toDb'[i].of \in Waits(k) /\ toDb'[i].of \in Querying'
          BY <3>3 DEF QueriesKept, Waits, Queries
        <4>2. \A i \in Answers(k)' : fromDb'[i].of \in Waits(k) /\ fromDb'[i].of \in Querying'
          BY <3>3 DEF AnswersKept, Waits, Answers
        <4>3. Queries(k)' = {} /\ Answers(k)' = {} BY <2>2, <3>5, <4>1, <4>2
        <4>4. FillsOf(k)' BY <3>1, <4>3, FillsNobody
        <4> QED BY <3>2, <4>4
      <3> QED BY <3>1, <3>4, <3>5
    <2>6. Order' BY <1>2, <2>4, <2>5 DEF Order
    <2>7. \A k \in DOMAIN cache \ crossed : k \in DOMAIN c /\ c[k] = cache[k] BY <1>1, <1>10
    <2> QED BY <2>1, <2>6, <2>7
  <1>13. CASE work[n].kind # "Get"
    <2>1. UpdateData(n, work[n], c) BY <1>13 DEF UserTakeQuery, d
    <2> HIDE DEF c, n
    <2>2. \A i \in DOMAIN toDb :
            /\ toDb[i].of <= requests'
            /\ toDb[i].kind = "Query" /\ toDb[i].of \in Querying =>
                 toDb[i].keys \subseteq work[toDb[i].of].keys
      BY <1>2, <1>6 DEF Placed
    <2>3. \A i \in DOMAIN fromDb' :
            /\ fromDb'[i].of <= requests'
            /\ fromDb'[i].kind = "Query" /\ fromDb'[i].of \in Querying =>
                 DOMAIN fromDb'[i].data \subseteq work[fromDb'[i].of].keys
      BY <1>2, <1>3, <1>6 DEF Placed
    <2>4. Placed' BY <1>5, <1>11, <2>1, <2>2, <2>3, UpdateDataPlaced
    <2>5. ASSUME NEW k \in Keys \ crossed PROVE GrowsOf(k)' /\ FillsOf(k)'
      <3>1. /\ k \in Keys /\ GrowsOf(k) /\ FillsOf(k) /\ Covers(k, c)
            /\ Waits(k) \subseteq {n} \/ k \notin DOMAIN c
        BY <1>10
      <3>2. GrowsOf(k)' BY <1>1, <1>2, <1>5, <1>11, <2>1, <3>1, UpdateDataGrows
      <3>3. FillsOf(k)' BY <1>1, <1>2, <1>5, <1>8, <1>11, <2>1, <3>1, UpdateDataFills
      <3> QED BY <3>2, <3>3
    <2>6. Order' BY <1>2, <2>4, <2>5 DEF Order
    <2>7. \A k \in DOMAIN c : c[k] \subseteq cache'[k]
      BY <1>1, <1>5, <1>11, <2>1, UpdateDataSends
    <2>8. \A k \in DOMAIN cache \ crossed : k \in DOMAIN c /\ c[k] = cache[k] BY <1>1, <1>10
    <2> QED BY <2>6, <2>7, <2>8
  <1> QED BY <1>12, <1>13

(* The answer to a save keeps Order.                                       *)
LEMMA UserTakeSaveOrder == IInv /\ Order /\ UserTakeSave => Order'
  <1> SUFFICES ASSUME IInv, Order, UserTakeSave PROVE Order' OBVIOUS
  <1> DEFINE n == Answer.of
  <1>1. /\ fromDb # << >> /\ fromDb' = Tail(fromDb) /\ Look(entry, Ended(n))
        /\ UNCHANGED << cache, toDb, store, requests, crossed >>
    BY DEF UserTakeSave, history
  <1>2. /\ fromDb \in Seq(FromDb) /\ work \in [Requests -> Session \cup {None}]
        /\ stamp \in {"none", "fresh", "old"}
    BY CacheTyped DEF Typing
  <1>3. Answer \in FromDb BY <1>1, <1>2 DEF Answer
  <1>4. n \in Requests BY <1>3 DEF FromDb
  <1>5. /\ Ended(n) \in [Requests -> Session \cup {None}]
        /\ Ended(n)[n] = None
        /\ \A m \in Requests \ {n} : Ended(n)[m] = work[m]
    BY <1>2, <1>4 DEF Ended
  <1> HIDE DEF n
  <1>6. \A m \in Requests :
          /\ work'[m] = None <=> Ended(n)[m] = None
          /\ work'[m] # None => /\ work'[m].wait = Ended(n)[m].wait
                                /\ work'[m].keys = Ended(n)[m].keys
    BY <1>1, <1>2, <1>5, LookSessions
  <1>7. SessionsEnd BY <1>5, <1>6 DEF Querying, SessionsEnd
  <1>8. OnlyTakes BY <1>1, <1>7 DEF OnlyTakes
  <1> QED BY <1>8, OrderKept

(* The remaining steps send nothing, and keep Order.                       *)
LEMMA OtherOrder ==
  ASSUME IInv, Order,
         \/ UserTakeNobody \/ (\E n \in Requests : Timeout(n)) \/ Lose \/ Age \/ Evict
         \/ UNCHANGED vars
  PROVE  Order'
  <1>1. work' = work => SessionsEnd BY DEF SessionsEnd, Querying
  <1>2. CASE \E n \in Requests : Timeout(n)
    <2>1. PICK n \in Requests : Timeout(n) BY <1>2
    <2>2. SessionsEnd BY <2>1, EndedSessions DEF Timeout
    <2>3. OnlyTakes BY <2>1, <2>2 DEF OnlyTakes, Timeout, history
    <2> QED BY <2>3, OrderKept
  <1>3. CASE Evict
    <2>1. SessionsEnd BY <1>1, <1>3 DEF Evict
    <2>2. OnlyTakes BY <1>3, <2>1 DEF OnlyTakes, Evict, NoData, history
    <2> QED BY <2>2, OrderKept
  <1>4. CASE UserTakeNobody \/ Lose \/ Age \/ UNCHANGED vars
    <2>1. SessionsEnd BY <1>1, <1>4 DEF UserTakeNobody, Lose, Age, vars
    <2>2. OnlyTakes BY <1>4, <2>1 DEF OnlyTakes, UserTakeNobody, Lose, Age, vars, history
    <2> QED BY <2>2, OrderKept
  <1> QED BY <1>2, <1>3, <1>4

(* Every step keeps Order.                                                 *)
LEMMA NextOrder ==
  ASSUME IInv, IInv', Order, HistoryKeys, [Next]_vars
  PROVE  Order'
  <1>1. CASE \E kind \in {"Get", "Update"}, keys \in SUBSET Keys \ {{}} : Request(kind, keys)
    BY <1>1, RequestOrder
  <1> QED BY <1>1, DbTakeOrder, UserTakeQueryOrder, UserTakeSaveOrder, OtherOrder DEF Next

-----------------------------------------------------------------------------
(* What is in Redis of a key only grows, whatever fails or is lost.        *)
Larger ==
  \A k \in Keys \ crossed : store[k] # Nil => store'[k] # Nil /\ store[k] \subseteq store'[k]

(* No step takes an update from Redis.                                     *)
LEMMA NextLarger == ASSUME IInv, Order, [Next]_vars PROVE Larger
  <1>1. CASE DbTake BY <1>1, DbTakeOrder DEF Larger
  <1>2. CASE ~ DbTake
    <2>1. store' = store
      BY <1>2 DEF Next, vars, Request, UserTakeNobody, UserTakeQuery, UserTakeSave,
                  Timeout, Lose, Age, Evict
    <2> QED BY <2>1 DEF Larger
  <1> QED BY <1>1, <1>2

(* A cached key loses no update: only the answer to a query and an update  *)
(* change what is cached, and an eviction takes the key.                   *)
NothingLost ==
  \A k \in (DOMAIN cache \cap DOMAIN cache') \ crossed : cache[k] \subseteq cache'[k]

(* No step but an eviction, which drops the key, takes an update from a    *)
(* cached key.                                                             *)
LEMMA NextLosesNothing == ASSUME IInv, Order, [Next]_vars PROVE NothingLost
  <1>1. CASE UserTakeQuery BY <1>1, UserTakeQueryOrder DEF NothingLost
  <1>2. ASSUME NEW kind \in {"Get", "Update"}, NEW keys \in SUBSET Keys, Request(kind, keys)
        PROVE  NothingLost
    <2>1. CASE cache' = cache BY <2>1 DEF NothingLost
    <2>2. CASE UpdateData(requests + 1, NewSession(kind, keys), cache)
      BY <2>2 DEF UpdateData, Updated, NothingLost
    <2> QED BY <1>2, <2>1, <2>2 DEF Request
  <1>3. CASE Evict BY <1>3 DEF Evict, NoData, NothingLost
  <1>4. CASE \/ DbTake \/ UserTakeNobody \/ UserTakeSave \/ (\E n \in Requests : Timeout(n))
             \/ Lose \/ Age \/ UNCHANGED vars
    <2>1. cache' = cache
      BY <1>4 DEF DbTake, UserTakeNobody, UserTakeSave, Timeout, Lose, Age, vars
    <2> QED BY <2>1 DEF NothingLost
  <1> QED BY <1>1, <1>2, <1>3, <1>4 DEF Next

-----------------------------------------------------------------------------
(* What is answered as saved is in Redis, but for the keys spoilt: those   *)
(* that were crossed and those of which Redis did not store a save.        *)
Spoilt == crossed \cup failed

Own == { m \in ToDb : m.kind = "Save" => \A k \in DOMAIN m.data : m.of \in m.data[k] }

Done(st, but) ==
  { m \in FromDb :
      m.kind = "Save" => \A k \in m.keys \ but : st[k] # Nil /\ m.of \in st[k] }

Reached ==
  /\ \A k \in Keys \ Spoilt : acked[k] # {} => store[k] # Nil /\ acked[k] \subseteq store[k]
  /\ toDb \in Seq(Own)
  /\ fromDb \in Seq(Done(store, Spoilt))

(* An answer stays true of what is stored, which only grows. *)
LEMMA DoneLarger ==
  ASSUME Larger, Remembers, store' \in [Keys -> Values \cup {Nil}]
  PROVE  Done(store, Spoilt) \subseteq Done(store', Spoilt')
  <1> SUFFICES ASSUME NEW m \in Done(store, Spoilt) PROVE m \in Done(store', Spoilt') OBVIOUS
  <1>1. m \in FromDb /\ (m.kind = "Save" => m.keys \subseteq Keys) BY DEF Done, FromDb
  <1>2. Spoilt \subseteq Spoilt' /\ crossed \subseteq Spoilt BY DEF Remembers, Spoilt
  <1> QED BY <1>1, <1>2 DEF Done, Larger

(* So does what was answered OK, if nothing more is.                       *)
LEMMA AckedLarger ==
  ASSUME Reached, Larger, Remembers, acked' = acked
  PROVE  \A k \in Keys \ Spoilt' :
           acked'[k] # {} => store'[k] # Nil /\ acked'[k] \subseteq store'[k]
  <1>1. Spoilt \subseteq Spoilt' /\ crossed \subseteq Spoilt BY DEF Remembers, Spoilt
  <1> QED BY <1>1 DEF Reached, Larger

(* Nothing is answered OK, and nothing but what is allowed is sent. *)
LEMMA ReachedKept ==
  ASSUME Reached, Typing', Larger, Remembers, acked' = acked,
         toDb' \in Seq(Own), fromDb' \in Seq(Done(store, Spoilt))
  PROVE  Reached'
  <1>1. store' \in [Keys -> Values \cup {Nil}] BY DEF Typing
  <1>2. Done(store, Spoilt) \subseteq Done(store', Spoilt') BY <1>1, DoneLarger
  <1>3. fromDb' \in Seq(Done(store', Spoilt')) BY <1>2, SeqLarger
  <1> QED BY <1>3, AckedLarger DEF Reached

(* The save of an update has the update in it, for each of its keys. *)
LEMMA UpdateDataOwn ==
  ASSUME NEW n \in Requests, NEW s \in Session, NEW c, UpdateData(n, s, c),
         toDb \in Seq(Own), toDb' \in Seq(ToDb)
  PROVE  toDb' \in Seq(Own) /\ acked' = acked
  <1>1. PICK done \in SUBSET (s.keys \cap DOMAIN c) :
          IF done = s.keys
          THEN /\ cache' = Updated(c, done, n)
               /\ work' = Waiting(n, [s EXCEPT !.wait = "Save"])
               /\ toDb' = Append(toDb, [ kind |-> "Save", of |-> n,
                                         data |-> Part(Updated(c, done, n), done) ])
               /\ UNCHANGED << stamp, acked, refused >>
          ELSE /\ cache' = c
               /\ refused' = refused \cup {n}
               /\ Look(FALSE, Ended(n))
               /\ UNCHANGED << toDb, acked >>
    BY DEF UpdateData
  <1>2. CASE done # s.keys BY <1>1, <1>2
  <1>3. CASE done = s.keys
    <2> DEFINE m == [ kind |-> "Save", of |-> n, data |-> Part(Updated(c, done, n), done) ]
    <2>1. toDb' = Append(toDb, m) /\ acked' = acked BY <1>1, <1>3
    <2>2. m.kind = "Save" /\ m.of = n /\ DOMAIN m.data = done BY DEF Part
    <2>3. \A k \in done : n \in m.data[k] BY DEF Part, Updated
    <2> HIDE DEF m
    <2>4. toDb'[Len(toDb) + 1] = m /\ Len(toDb) + 1 \in DOMAIN toDb' BY <2>1
    <2>5. m \in ToDb BY <2>4, Places
    <2>6. m \in Own BY <2>2, <2>3, <2>5 DEF Own
    <2> QED BY <2>1, <2>6, Sent
  <1> QED BY <1>2, <1>3

(* A request keeps Reached.                                                *)
LEMMA RequestReached ==
  ASSUME IInv, IInv', Reached, Larger, Remembers,
         NEW kind \in {"Get", "Update"}, NEW keys \in SUBSET Keys, Request(kind, keys)
  PROVE  Reached'
  <1>1. Typing /\ Typing' BY CacheTyped, CacheTypedNext
  <1>2. /\ toDb \in Seq(Own) /\ fromDb \in Seq(Done(store, Spoilt)) /\ fromDb' = fromDb
        /\ toDb' \in Seq(ToDb)
    BY <1>1 DEF Reached, Request, Typing
  <1>3. CASE UpdateData(requests + 1, NewSession(kind, keys), cache)
    <2>1. requests + 1 \in Requests
      BY <1>1, CacheAssumption DEF Typing, Requests, Request
    <2>2. NewSession(kind, keys) \in Session BY DEF NewSession, Session
    <2>3. toDb' \in Seq(Own) /\ acked' = acked BY <1>2, <1>3, <2>1, <2>2, UpdateDataOwn
    <2> QED BY <1>1, <1>2, <2>3, ReachedKept
  <1>4. CASE toDb' = toDb /\ acked' = acked BY <1>1, <1>2, <1>4, ReachedKept
  <1>5. CASE /\ toDb' = Append(toDb, [ kind |-> "Query", of |-> requests + 1,
                                       keys |-> Missing(keys, cache) ])
             /\ acked' = acked
    <2>1. requests + 1 \in Requests
      BY <1>1, CacheAssumption DEF Typing, Requests, Request
    <2>2. [ kind |-> "Query", of |-> requests + 1, keys |-> Missing(keys, cache) ] \in Own
      BY <2>1 DEF Own, ToDb, Missing
    <2>3. toDb' \in Seq(Own) BY <1>2, <1>5, <2>2, Sent
    <2> QED BY <1>1, <1>2, <1>5, <2>3, ReachedKept
  <1> QED BY <1>3, <1>4, <1>5 DEF Request

(* A save that is answered was stored, but for the keys Redis failed. *)
LEMMA DbTakeReached ==
  ASSUME IInv, IInv', Reached, Larger, Remembers, DbTake
  PROVE  Reached'
  <1> DEFINE m == Head(toDb)
  <1>1. Typing /\ Typing' BY CacheTyped, CacheTypedNext
  <1>2. /\ toDb \in Seq(Own) /\ fromDb \in Seq(Done(store, Spoilt))
        /\ toDb # << >> /\ toDb' = Tail(toDb) /\ acked' = acked
    BY DEF Reached, DbTake
  <1>3. m \in Own /\ toDb' \in Seq(Own) BY <1>2, Taken
  <1>4. store' \in [Keys -> Values \cup {Nil}] /\ fromDb' \in Seq(FromDb)
    BY <1>1 DEF Typing
  <1>5. Done(store, Spoilt) \subseteq Done(store', Spoilt') BY <1>4, DoneLarger
  <1>6. \A k \in Keys \ Spoilt' :
          acked'[k] # {} => store'[k] # Nil /\ acked'[k] \subseteq store'[k]
    BY <1>2, AckedLarger
  <1>7. fromDb \in Seq(Done(store', Spoilt')) BY <1>2, <1>5, SeqLarger
  <1>8. \E a \in Done(store', Spoilt') : fromDb' = Append(fromDb, a)
    <2>1. CASE m.kind = "Query"
      <3>1. QueryData(m) BY <2>1 DEF DbTake
      <3>2. PICK bad : fromDb' = Append(fromDb,
              [ kind |-> "Query", of |-> m.of,
                data |-> [ k \in m.keys |-> IF k \in bad THEN Failed ELSE store[k] ] ])
        BY <3>1 DEF QueryData
      <3> DEFINE a == [ kind |-> "Query", of |-> m.of,
                        data |-> [ k \in m.keys |-> IF k \in bad THEN Failed ELSE store[k] ] ]
      <3>3. fromDb' = Append(fromDb, a) /\ a.kind = "Query" BY <3>2
      <3> HIDE DEF a, m
      <3>4. Len(fromDb) + 1 \in DOMAIN fromDb' /\ fromDb'[Len(fromDb) + 1] = a
        BY <1>2, <3>3
      <3>5. a \in FromDb BY <1>4, <3>4, Places
      <3>6. a \in Done(store', Spoilt') BY <3>3, <3>5 DEF Done
      <3> QED BY <3>3, <3>6
    <2>2. CASE m.kind # "Query"
      <3>1. SaveData(m) BY <2>2 DEF DbTake
      <3>2. /\ m \in ToDb /\ m.kind = "Save"
            /\ \A k \in DOMAIN m.data : m.of \in m.data[k]
        BY <1>3, <2>2 DEF Own, ToDb
      <3>3. m.data \in Parts BY <3>2 DEF ToDb
      <3>4. /\ DOMAIN m.data \subseteq Keys
            /\ \A k \in DOMAIN m.data : m.data[k] \in Values /\ m.data[k] # Nil
        BY <3>3, PartsFunction, CacheAssumption
      <3> DEFINE a == [ kind |-> "Save", of |-> m.of, keys |-> DOMAIN m.data ]
      <3>5. fromDb' = Append(fromDb, a) BY <3>1 DEF SaveData
      <3>6. PICK bad \in SUBSET DOMAIN m.data :
              /\ store' = [ k \in Keys |-> IF k \in DOMAIN m.data \ bad
                                          THEN m.data[k] ELSE store[k] ]
              /\ failed' = failed \cup bad
        BY <3>1 DEF SaveData
      <3>7. a.kind = "Save" /\ a.of = m.of /\ a.keys = DOMAIN m.data OBVIOUS
      <3> HIDE DEF a, m
      <3>8. Len(fromDb) + 1 \in DOMAIN fromDb' /\ fromDb'[Len(fromDb) + 1] = a
        BY <1>2, <3>5
      <3>9. a \in FromDb BY <1>4, <3>8, Places
      <3>10. \A k \in a.keys \ Spoilt' : store'[k] # Nil /\ a.of \in store'[k]
        BY <3>2, <3>4, <3>6, <3>7 DEF Spoilt
      <3>11. a \in Done(store', Spoilt') BY <3>9, <3>10 DEF Done
      <3> QED BY <3>5, <3>11
    <2> QED BY <2>1, <2>2
  <1>9. fromDb' \in Seq(Done(store', Spoilt')) BY <1>7, <1>8, Sent
  <1> QED BY <1>3, <1>6, <1>9 DEF Reached

(* So does the answer to a query: what it brings was in Redis.             *)
LEMMA UserTakeQueryReached ==
  ASSUME IInv, IInv', Reached, Larger, Remembers, UserTakeQuery
  PROVE  Reached'
  <1> DEFINE n == Answer.of
  <1>1. Typing /\ Typing' BY CacheTyped, CacheTypedNext
  <1>2. /\ toDb \in Seq(Own) /\ fromDb \in Seq(Done(store, Spoilt)) /\ toDb' \in Seq(ToDb)
        /\ fromDb \in Seq(FromDb) /\ fromDb # << >> /\ fromDb' = Tail(fromDb)
        /\ work[n] # None
    BY <1>1 DEF Reached, UserTakeQuery, Typing
  <1>3. fromDb' \in Seq(Done(store, Spoilt)) /\ Answer \in FromDb BY <1>2, Taken DEF Answer
  <1>4. n \in Requests BY <1>3 DEF FromDb
  <1>5. work[n] \in Session BY <1>1, <1>2, <1>4 DEF Typing
  <1>6. CASE work[n].kind = "Get"
    <2>1. toDb' = toDb /\ acked' = acked BY <1>6 DEF UserTakeQuery
    <2> QED BY <1>1, <1>2, <1>3, <2>1, ReachedKept
  <1>7. CASE work[n].kind # "Get"
    <2>1. UpdateData(n, work[n], Parsed(cache, Answer.data)) BY <1>7 DEF UserTakeQuery
    <2> HIDE DEF n
    <2>2. toDb' \in Seq(Own) /\ acked' = acked BY <1>2, <1>4, <1>5, <2>1, UpdateDataOwn
    <2> QED BY <1>1, <1>3, <2>2, ReachedKept
  <1> QED BY <1>6, <1>7

(* What is acknowledged was answered as saved. *)
LEMMA UserTakeSaveReached ==
  ASSUME IInv, Reached, UserTakeSave
  PROVE  Reached'
  <1> DEFINE n == Answer.of
  <1>1. /\ fromDb \in Seq(Done(store, Spoilt)) /\ toDb \in Seq(Own)
        /\ \A k \in Keys \ Spoilt :
             acked[k] # {} => store[k] # Nil /\ acked[k] \subseteq store[k]
    BY DEF Reached
  <1>2. /\ fromDb # << >> /\ fromDb' = Tail(fromDb) /\ Answer.kind = "Save"
        /\ toDb' = toDb /\ store' = store /\ crossed' = crossed /\ failed' = failed
    BY DEF UserTakeSave, history
  <1>3. Answer \in Done(store, Spoilt) /\ fromDb' \in Seq(Done(store, Spoilt))
    BY <1>1, <1>2, Taken DEF Answer
  <1>4. \A k \in Answer.keys \ Spoilt : store[k] # Nil /\ n \in store[k]
    BY <1>2, <1>3 DEF Done
  <1>5. \/ acked' = acked
        \/ acked' = [ k \in Keys |-> IF k \in Answer.keys THEN acked[k] \cup {n} ELSE acked[k] ]
    BY DEF UserTakeSave
  <1> HIDE DEF n
  <1>6. \A k \in Keys \ Spoilt :
          acked'[k] # {} => store[k] # Nil /\ acked'[k] \subseteq store[k]
    BY <1>1, <1>4, <1>5
  <1>7. Spoilt' = Spoilt BY <1>2 DEF Spoilt
  <1> QED BY <1>1, <1>2, <1>3, <1>6, <1>7 DEF Reached

(* Every step keeps Reached.                                               *)
LEMMA NextReached ==
  ASSUME IInv, IInv', Order, HistoryKeys, Reached, [Next]_vars
  PROVE  Reached'
  <1>1. Larger /\ Remembers BY NextLarger, NextHistory
  <1>2. CASE \E kind \in {"Get", "Update"}, keys \in SUBSET Keys \ {{}} : Request(kind, keys)
    BY <1>1, <1>2, RequestReached
  <1>3. CASE \/ UserTakeNobody \/ (\E n \in Requests : Timeout(n)) \/ Lose \/ Age \/ Evict
             \/ UNCHANGED vars
    <2>1. /\ toDb' = toDb \/ (toDb # << >> /\ toDb' = Tail(toDb))
          /\ fromDb' = fromDb \/ (fromDb # << >> /\ fromDb' = Tail(fromDb))
          /\ acked' = acked
      BY <1>3 DEF UserTakeNobody, Timeout, Lose, Age, Evict, vars
    <2>2. toDb' \in Seq(Own) /\ fromDb' \in Seq(Done(store, Spoilt)) BY <2>1, Taken DEF Reached
    <2> QED BY <1>1, <2>1, <2>2, CacheTypedNext, ReachedKept
  <1> QED BY <1>1, <1>2, <1>3, DbTakeReached, UserTakeQueryReached, UserTakeSaveReached
          DEF Next

-----------------------------------------------------------------------------
(* In what is stored of a key, no update is lost to one that was made from *)
(* an older value, however many requests are in work, whatever Redis       *)
(* refuses and however messages and sessions are lost: unless two requests *)
(* have waited for that key together (CRequestSaveData, OnUpdateData).     *)
THEOREM StoreGrows == Spec => StoreOnlyGrows
  <1>1. Init => IInv /\ HistoryKeys /\ Order
    BY InitClean, InitOrder DEF Init, HistoryKeys
  <1>2. IInv /\ HistoryKeys /\ Order /\ [Next]_vars => IInv' /\ HistoryKeys' /\ Order'
    BY NextClean, NextHistory, NextOrder
  <1>3. IInv /\ HistoryKeys /\ Order /\ [Next]_vars =>
          [\A k \in Keys \ crossed :
             store[k] # Nil => store'[k] # Nil /\ store[k] \subseteq store'[k]]_vars
    BY NextLarger DEF Larger
  <1> QED BY <1>1, <1>2, <1>3, PTL DEF Spec, StoreOnlyGrows

(* The same of the cache: the answer to a query fills in what was missing  *)
(* and takes no update from a key that is cached, unless two requests have *)
(* waited for that key together (OnParseUserData).  The run overlap shows  *)
(* that it does then.                                                      *)
THEOREM FillsKeepUpdates == Spec => UncrossedFillKeepsUpdates
  <1>1. Init => IInv /\ HistoryKeys /\ Order
    BY InitClean, InitOrder DEF Init, HistoryKeys
  <1>2. IInv /\ HistoryKeys /\ Order /\ [Next]_vars => IInv' /\ HistoryKeys' /\ Order'
    BY NextClean, NextHistory, NextOrder
  <1>3. IInv /\ HistoryKeys /\ Order /\ [Next]_vars =>
          [\A k \in (DOMAIN cache \cap DOMAIN cache') \ crossed :
             cache[k] \subseteq cache'[k]]_vars
    BY NextLosesNothing DEF NothingLost
  <1> QED BY <1>1, <1>2, <1>3, PTL DEF Spec, UncrossedFillKeepsUpdates

(* An update that was acknowledged stays in Redis and in the cache, unless *)
(* two requests have waited for its key together or Redis has not stored a *)
(* save of that key (OnUpdateDataRsp); what happens to other keys does not *)
(* matter.                                                                 *)
THEOREM AckedStays == Spec => []AckedKept
  <1>1. Init => IInv /\ HistoryKeys /\ Order /\ Reached
    <2>1. Init => Reached
      <3> SUFFICES ASSUME Init PROVE Reached OBVIOUS
      <3>1. << >> \in Seq(Own) /\ << >> \in Seq(Done(store, Spoilt)) OBVIOUS
      <3> QED BY <3>1 DEF Init, Reached
    <2> QED BY <2>1, InitClean, InitOrder DEF Init, HistoryKeys
  <1>2. IInv /\ HistoryKeys /\ Order /\ Reached /\ [Next]_vars
          => IInv' /\ HistoryKeys' /\ Order' /\ Reached'
    BY NextClean, NextHistory, NextOrder, NextReached
  <1>3. IInv /\ Order /\ Reached => AckedKept
    <2> SUFFICES ASSUME IInv, Order, Reached PROVE AckedKept OBVIOUS
    <2>1. Typing BY CacheTyped
    <2>2. \A k \in Keys \ Spoilt :
            acked[k] # {} => store[k] # Nil /\ acked[k] \subseteq store[k]
      BY DEF Reached
    <2>3. \A k \in Keys \ crossed :
            store[k] # Nil /\ k \in DOMAIN cache => store[k] \subseteq cache[k]
      BY DEF Order, GrowsOf
    <2> QED BY <2>2, <2>3 DEF AckedKept, Spoilt
  <1> QED BY <1>1, <1>2, <1>3, PTL DEF Spec

=============================================================================
