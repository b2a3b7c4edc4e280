-------------------------- MODULE SessionPool_proofs --------------------------
(***************************************************************************)
(* Proofs about SessionPool, for every number of session ids, users,       *)
(* commands and requests: the ids are a partition, the lock table and the  *)
(* sessions agree, two requests of one user for a command that locks are   *)
(* never at work together, SessionPool implements ProcessLock, and an      *)
(* answer that reaches the wrong session is old.                           *)
(*                                                                         *)
(* A step takes a session out of the pool or from an answer, changes it,   *)
(* and then ends it or lets it wait.  The invariant is stated as Good of   *)
(* a queue, a table of sessions and a lock table, so that it can be used   *)
(* in the middle of a step as well as between two steps.                   *)
(***************************************************************************)
EXTENDS SessionPool, FiniteSetTheorems, TLAPS

(* The sessions alive in the table S. *)
AliveIn(S) == { id \in Ids : S[id] # None }

(* The parameters have the types of free, session and locks. *)
Typed(q, S, l) ==
  /\ q \in Seq(Ids)
  /\ S \in [Ids -> Session \cup {None}]
  /\ l \in [Keys -> Ids \cup {None}]

(* IdsPartitioned of a queue and a table. *)
Partition(q, S) ==
  /\ \A i, j \in DOMAIN q : i # j => q[i] # q[j]
  /\ { q[i] : i \in DOMAIN q } = Ids \ AliveIn(S)

(* LocksMatch of two tables. *)
Match(S, l) ==
  /\ \A k \in Keys : l[k] # None =>
       /\ S[l[k]] # None
       /\ S[l[k]].locked
       /\ Key(S[l[k]]) = k
  /\ \A id \in AliveIn(S) : S[id].locked => l[Key(S[id])] = id

(* A session at work on a command that locks first holds the lock, and its  *)
(* number is one of the requests.                                           *)
Fit(s) == (s.cmd \in EarlyLock => s.locked) /\ s.born \in 1 .. MaxRequests

(* Every session is fit. *)
Owned(S) == \A i \in AliveIn(S) : Fit(S[i])

(* The inductive invariant, of the three tables. *)
Good(q, S, l) == Typed(q, S, l) /\ Partition(q, S) /\ Match(S, l) /\ Owned(S)

(* The same while the session id is in the hands of the step, and has not   *)
(* come to take its lock.                                                   *)
GoodBut(id, q, S, l) ==
  Typed(q, S, l) /\ Partition(q, S) /\ Match(S, l)
    /\ \A i \in AliveIn(S) \ {id} : Fit(S[i])

(* A lock is taken, or given back, or nothing happens to the lock table. *)
LockTableStep(l, m) ==
  \/ m = l
  \/ \E k \in Keys : l[k] = None /\ \E id \in Ids : m = [l EXCEPT ![k] = id]
  \/ \E k \in Keys : l[k] # None /\ m = [l EXCEPT ![k] = None]

(* The inductive invariant. *)
IInv == TypeOK /\ Good(free, session, locks)

-----------------------------------------------------------------------------
(* A key is a pair of the table. *)
LEMMA KeyType == ASSUME NEW s \in Session PROVE Key(s) \in Keys
  BY DEF Session, Key, Keys

(* No session is mistaken for a live one. *)
LEMMA NoneApart == None \notin Session /\ None \notin Ids
  BY PoolAssumption DEF Session, Waits, Ids

(* Giving an id back adds it to the queue, once. *)
LEMMA ReturnedIds ==
  ASSUME NEW q \in Seq(Ids), NEW id \in Ids,
         \A i, j \in DOMAIN q : i # j => q[i] # q[j],
         id \notin { q[i] : i \in DOMAIN q }
  PROVE  /\ Returned(q, id) \in Seq(Ids)
         /\ \A i, j \in DOMAIN Returned(q, id) :
              i # j => Returned(q, id)[i] # Returned(q, id)[j]
         /\ { Returned(q, id)[i] : i \in DOMAIN Returned(q, id) }
              = { q[i] : i \in DOMAIN q } \cup {id}
  <1> DEFINE r == Append(q, id)
  <1>1. /\ r \in Seq(Ids)
        /\ Len(q) \in Nat
        /\ DOMAIN q = 1 .. Len(q)
        /\ DOMAIN r = 1 .. Len(q) + 1
        /\ \A i \in 1 .. Len(q) : r[i] = q[i]
        /\ r[Len(q) + 1] = id
    OBVIOUS
  <1> HIDE DEF r
  <1>2. \A i, j \in DOMAIN r : i # j => r[i] # r[j]
    BY <1>1
  <1>3. { r[i] : i \in DOMAIN r } = { q[i] : i \in DOMAIN q } \cup {id}
    <2>1. ASSUME NEW i \in DOMAIN r PROVE r[i] \in { q[j] : j \in DOMAIN q } \cup {id}
      <3>1. CASE i = Len(q) + 1 BY <3>1, <1>1
      <3>2. CASE i # Len(q) + 1
        <4>1. i \in DOMAIN q BY <3>2, <1>1
        <4> QED BY <4>1, <1>1
      <3> QED BY <3>1, <3>2
    <2>2. ASSUME NEW i \in DOMAIN q PROVE q[i] \in { r[j] : j \in DOMAIN r }
      <3>1. i \in DOMAIN r /\ r[i] = q[i] BY <1>1
      <3> QED BY <3>1
    <2>3. id \in { r[j] : j \in DOMAIN r }
      <3>1. Len(q) + 1 \in DOMAIN r BY <1>1
      <3> QED BY <3>1, <1>1
    <2> QED BY <2>1, <2>2, <2>3
  <1> QED BY <1>1, <1>2, <1>3 DEF Returned, r

(* Taking the first id leaves the others. *)
LEMMA TakenId ==
  ASSUME NEW q \in Seq(Ids), q # << >>,
         \A i, j \in DOMAIN q : i # j => q[i] # q[j]
  PROVE  /\ Head(q) \in { q[i] : i \in DOMAIN q }
         /\ Head(q) \in Ids
         /\ Tail(q) \in Seq(Ids)
         /\ \A i, j \in DOMAIN Tail(q) : i # j => Tail(q)[i] # Tail(q)[j]
         /\ { Tail(q)[i] : i \in DOMAIN Tail(q) }
              = { q[i] : i \in DOMAIN q } \ {Head(q)}
  <1> DEFINE r == Tail(q)
  <1>1. /\ Head(q) = q[1]
        /\ r \in Seq(Ids)
        /\ Len(q) \in Nat \ {0}
        /\ DOMAIN q = 1 .. Len(q)
        /\ DOMAIN r = 1 .. Len(q) - 1
        /\ \A i \in 1 .. Len(q) - 1 : r[i] = q[i + 1]
    OBVIOUS
  <1> HIDE DEF r
  <1>2. q[1] \in { q[i] : i \in DOMAIN q } /\ q[1] \in Ids
    <2>1. 1 \in DOMAIN q BY <1>1
    <2> QED BY <2>1
  <1>3. ASSUME NEW i \in DOMAIN r, NEW j \in DOMAIN r, i # j PROVE r[i] # r[j]
    <2>1. /\ i + 1 \in DOMAIN q /\ r[i] = q[i + 1]
          /\ j + 1 \in DOMAIN q /\ r[j] = q[j + 1]
          /\ i + 1 # j + 1
      BY <1>1, <1>3
    <2> QED BY <2>1
  <1>4. { r[i] : i \in DOMAIN r } = { q[i] : i \in DOMAIN q } \ {q[1]}
    <2>1. ASSUME NEW i \in DOMAIN r
          PROVE  r[i] \in { q[j] : j \in DOMAIN q } \ {q[1]}
      <3>1. i + 1 \in DOMAIN q /\ i + 1 # 1 /\ r[i] = q[i + 1] /\ 1 \in DOMAIN q
        BY <1>1
      <3>2. q[i + 1] # q[1] BY <3>1
      <3> QED BY <3>1, <3>2
    <2>2. ASSUME NEW i \in DOMAIN q, q[i] # q[1]
          PROVE  q[i] \in { r[j] : j \in DOMAIN r }
      <3>1. i - 1 \in DOMAIN r /\ r[i - 1] = q[i] BY <2>2, <1>1
      <3> QED BY <3>1
    <2> QED BY <2>1, <2>2
  <1> QED BY <1>1, <1>2, <1>3, <1>4 DEF r

-----------------------------------------------------------------------------
(* A session that ends leaves the tables good: End with the tables at that  *)
(* point of the step, where the session in hand is s.                       *)
LEMMA EndGood ==
  ASSUME NEW id \in Ids, NEW s \in Session,
         NEW q, NEW l, NEW sent \in SUBSET Answer,
         session \in [Ids -> Session \cup {None}],
         GoodBut(id, q, [session EXCEPT ![id] = s], l),
         End(id, s, q, l, sent)
  PROVE  Good(free', session', locks') /\ answers' \in SUBSET Answer
  <1> DEFINE S == [session EXCEPT ![id] = s]
             T == [session EXCEPT ![id] = None]
  <1>1. /\ Typed(q, S, l) /\ Partition(q, S) /\ Match(S, l)
        /\ \A i \in AliveIn(S) \ {id} : Fit(S[i])
        /\ free' = Returned(q, id)
        /\ session' = T
        /\ locks' = Unlocked(l, id, s)
        /\ answers' = sent
    BY DEF GoodBut, End
  <1>2. /\ S[id] = s /\ T[id] = None
        /\ \A i \in Ids \ {id} : S[i] = session[i] /\ T[i] = session[i]
        /\ s # None
        /\ T \in [Ids -> Session \cup {None}]
    BY NoneApart
  <1>3. AliveIn(T) = AliveIn(S) \ {id} /\ id \in AliveIn(S)
    BY <1>2 DEF AliveIn
  <1>4. Key(s) \in Keys BY KeyType
  <1>5. l \in [Keys -> Ids \cup {None}] /\ q \in Seq(Ids)
    BY <1>1 DEF Typed
  <1> HIDE DEF S, T
  <1>6. Unlocked(l, id, s) \in [Keys -> Ids \cup {None}]
    BY <1>5 DEF Unlocked
  <1>7. /\ Returned(q, id) \in Seq(Ids)
        /\ Partition(Returned(q, id), T)
    <2>1. id \notin { q[i] : i \in DOMAIN q } BY <1>1, <1>3 DEF Partition
    <2>2. \A i, j \in DOMAIN q : i # j => q[i] # q[j] BY <1>1 DEF Partition
    <2> DEFINE r == Returned(q, id)
    <2>3. /\ r \in Seq(Ids)
          /\ \A i, j \in DOMAIN r : i # j => r[i] # r[j]
          /\ { r[i] : i \in DOMAIN r } = { q[i] : i \in DOMAIN q } \cup {id}
      BY <1>5, <2>1, <2>2, ReturnedIds
    <2> HIDE DEF r
    <2>4. { q[i] : i \in DOMAIN q } \cup {id} = Ids \ AliveIn(T)
      BY <1>1, <1>3 DEF Partition, AliveIn
    <2>5. Partition(r, T) BY <2>3, <2>4 DEF Partition
    <2> QED BY <2>3, <2>5 DEF r
  <1>8. Match(T, Unlocked(l, id, s))
    <2> DEFINE u == Unlocked(l, id, s)
    <2>1. ASSUME NEW k \in Keys, u[k] # None
          PROVE  T[u[k]] # None /\ T[u[k]].locked /\ Key(T[u[k]]) = k
      <3>1. u[k] = l[k] BY <2>1, <1>4, <1>5 DEF Unlocked
      <3>2. S[l[k]] # None /\ S[l[k]].locked /\ Key(S[l[k]]) = k
        BY <1>1, <2>1, <3>1 DEF Match
      <3>3. l[k] # id
        <4>1. SUFFICES ASSUME l[k] = id PROVE FALSE OBVIOUS
        <4>2. s.locked /\ Key(s) = k BY <4>1, <3>2, <1>2
        <4>3. u[k] = None BY <4>1, <4>2, <1>5 DEF Unlocked
        <4> QED BY <4>3, <2>1
      <3>4. l[k] \in Ids BY <2>1, <3>1, <1>5
      <3> QED BY <3>1, <3>2, <3>3, <3>4, <1>2
    <2>2. ASSUME NEW i \in AliveIn(T), T[i].locked PROVE u[Key(T[i])] = i
      <3>1. i # id /\ i \in AliveIn(S) /\ T[i] = S[i]
        BY <1>2, <1>3 DEF AliveIn
      <3>2. l[Key(S[i])] = i BY <1>1, <2>2, <3>1 DEF Match
      <3>3. Key(S[i]) \in Keys
        <4>1. S[i] \in Session BY <1>1, <3>1 DEF AliveIn, Typed
        <4> QED BY <4>1, KeyType
      <3> QED BY <3>1, <3>2, <3>3, <1>4, <1>5 DEF Unlocked
    <2> HIDE DEF u
    <2> QED BY <2>1, <2>2 DEF Match, u
  <1>9. Owned(T)
    <2>1. \A i \in AliveIn(T) : i \in AliveIn(S) \ {id} /\ T[i] = S[i]
      BY <1>2, <1>3 DEF AliveIn
    <2> QED BY <1>1, <2>1 DEF Owned
  <1> QED BY <1>1, <1>2, <1>6, <1>7, <1>8, <1>9 DEF Good, Typed

(* A session that waits leaves the tables good, if it keeps its command,    *)
(* its user, its number and its lock.                                       *)
LEMMA WaitGood ==
  ASSUME NEW id \in Ids, NEW s \in Session, NEW t \in Session,
         NEW q, NEW l,
         session \in [Ids -> Session \cup {None}],
         Good(q, [session EXCEPT ![id] = s], l),
         t.cmd = s.cmd, t.uid = s.uid, t.born = s.born, t.locked = s.locked
  PROVE  Good(q, [session EXCEPT ![id] = t], l)
  <1> DEFINE S == [session EXCEPT ![id] = s]
             T == [session EXCEPT ![id] = t]
  <1>1. /\ Typed(q, S, l) /\ Partition(q, S) /\ Match(S, l) /\ Owned(S)
    BY DEF Good
  <1>2. /\ S[id] = s /\ T[id] = t
        /\ \A i \in Ids \ {id} : S[i] = T[i]
        /\ s # None /\ t # None
        /\ T \in [Ids -> Session \cup {None}]
    BY NoneApart
  <1> HIDE DEF S, T
  <1>3. \A i \in Ids : /\ S[i] # None <=> T[i] # None
                       /\ T[i].cmd = S[i].cmd /\ T[i].uid = S[i].uid
                       /\ T[i].born = S[i].born /\ T[i].locked = S[i].locked
    BY <1>2
  <1>4. AliveIn(T) = AliveIn(S) BY <1>3 DEF AliveIn
  <1>5. \A i \in Ids : Key(T[i]) = Key(S[i]) BY <1>3 DEF Key
  <1>6. Typed(q, T, l) BY <1>1, <1>2 DEF Typed
  <1>7. Partition(q, T) BY <1>1, <1>4 DEF Partition
  <1>8. Match(T, l)
    <2>1. l \in [Keys -> Ids \cup {None}] BY <1>1 DEF Typed
    <2>2. ASSUME NEW k \in Keys, l[k] # None
          PROVE  T[l[k]] # None /\ T[l[k]].locked /\ Key(T[l[k]]) = k
      <3>1. l[k] \in Ids BY <2>1, <2>2
      <3>2. S[l[k]] # None /\ S[l[k]].locked /\ Key(S[l[k]]) = k
        BY <1>1, <2>2 DEF Match
      <3> QED BY <3>1, <3>2, <1>3, <1>5
    <2>3. ASSUME NEW i \in AliveIn(T), T[i].locked PROVE l[Key(T[i])] = i
      <3>1. i \in Ids /\ i \in AliveIn(S) /\ S[i].locked
        BY <2>3, <1>3, <1>4 DEF AliveIn
      <3>2. l[Key(S[i])] = i BY <1>1, <3>1 DEF Match
      <3> QED BY <3>1, <3>2, <1>5
    <2> QED BY <2>2, <2>3 DEF Match
  <1>9. Owned(T)
    <2>1. \A i \in AliveIn(T) : i \in Ids BY DEF AliveIn
    <2> QED BY <1>1, <1>3, <1>4, <2>1 DEF Owned, Fit
  <1> QED BY <1>6, <1>7, <1>8, <1>9 DEF Good, T

(* What a session looks like after it has sent requests. *)
LEMMA ArmedType ==
  ASSUME NEW s \in Session, NEW w \in Waits, NEW us \in SUBSET Users
  PROVE  LET t == [Armed(s) EXCEPT !.wait = w, !.pending = us] IN
         /\ t \in Session
         /\ t.cmd = s.cmd /\ t.uid = s.uid /\ t.born = s.born
         /\ t.locked = s.locked
  BY DEF Armed, Session

(* Whatever the handler decides, the tables are good after it, and the     *)
(* lock table is as the handler left it or the session has given its lock   *)
(* back.                                                                    *)
LEMMA ContinueGood ==
  ASSUME NEW id \in Ids, NEW s \in Session,
         NEW q, NEW l, NEW sent \in SUBSET Answer,
         session \in [Ids -> Session \cup {None}],
         Good(q, [session EXCEPT ![id] = s], l),
         Continue(id, s, q, l, sent)
  PROVE  /\ Good(free', session', locks')
         /\ answers' \in SUBSET Answer
         /\ locks' = l \/ locks' = Unlocked(l, id, s)
         /\ \A i \in Ids \ {id} : session'[i] = session[i]
         /\ session'[id] # None => session'[id].born = s.born
  <1>1. s.born \in Nat /\ s.uid \in Users BY DEF Session
  <1>2. CASE End(id, s, q, l, sent)
    <2>1. Good(free', session', locks') /\ answers' \in SUBSET Answer
      BY <1>2, EndGood DEF Good, GoodBut, Owned
    <2> QED BY <2>1, <1>2 DEF End
  <1>3. CASE AskPlain(id, s, q, l, sent)
    <2> DEFINE t == [Armed(s) EXCEPT !.wait = "Plain", !.pending = {}]
    <2>1. /\ t \in Session
          /\ t.cmd = s.cmd /\ t.uid = s.uid /\ t.born = s.born
          /\ t.locked = s.locked
      BY ArmedType DEF Waits
    <2> HIDE DEF t
    <2>2. Good(q, [session EXCEPT ![id] = t], l) BY <2>1, WaitGood
    <2>3. /\ free' = q /\ session' = [session EXCEPT ![id] = t] /\ locks' = l
          /\ answers' = sent \cup
               {[ to |-> id, asker |-> s.born, kind |-> "Plain", uid |-> s.uid ]}
      BY <1>3 DEF AskPlain, t
    <2>4. answers' \in SUBSET Answer BY <1>1, <2>3 DEF Answer, Waits
    <2> QED BY <2>1, <2>2, <2>3, <2>4
  <1>4. ASSUME NEW w \in {"Get", "Update"}, NEW us \in SUBSET Users \ {{}},
               AskUsers(id, s, w, us, q, l, sent)
        PROVE  /\ Good(free', session', locks')
               /\ answers' \in SUBSET Answer
               /\ locks' = l
               /\ \A i \in Ids \ {id} : session'[i] = session[i]
               /\ session'[id].born = s.born
    <2> DEFINE t == [Armed(s) EXCEPT !.wait = w, !.pending = us]
    <2>1. /\ t \in Session
          /\ t.cmd = s.cmd /\ t.uid = s.uid /\ t.born = s.born
          /\ t.locked = s.locked
      <3>1. w \in Waits /\ us \in SUBSET Users BY DEF Waits
      <3> QED BY <3>1, ArmedType
    <2> HIDE DEF t
    <2>2. Good(q, [session EXCEPT ![id] = t], l) BY <2>1, WaitGood
    <2>3. /\ free' = q /\ session' = [session EXCEPT ![id] = t] /\ locks' = l
          /\ answers' = sent \cup
               [ to : {id}, asker : {s.born}, kind : {w}, uid : us ]
      BY <1>4 DEF AskUsers, t
    <2>4. answers' \in SUBSET Answer BY <1>1, <2>3 DEF Answer, Waits
    <2> QED BY <2>1, <2>2, <2>3, <2>4
  <1> QED BY <1>2, <1>3, <1>4 DEF Continue

(* A session that is not in the lock table may take a free lock.            *)
LEMMA TakeGood ==
  ASSUME NEW id \in Ids, NEW s \in Session, NEW q, NEW l,
         session \in [Ids -> Session \cup {None}],
         GoodBut(id, q, [session EXCEPT ![id] = s], l),
         ~ s.locked, s.born \in 1 .. MaxRequests, l[Key(s)] = None
  PROVE  LET t == [s EXCEPT !.locked = TRUE] IN
         Good(q, [session EXCEPT ![id] = t], [l EXCEPT ![Key(s)] = id])
  <1> DEFINE t == [s EXCEPT !.locked = TRUE]
             S == [session EXCEPT ![id] = s]
             T == [session EXCEPT ![id] = t]
             m == [l EXCEPT ![Key(s)] = id]
  <1>1. /\ Typed(q, S, l) /\ Partition(q, S) /\ Match(S, l)
        /\ \A i \in AliveIn(S) \ {id} : Fit(S[i])
    BY DEF GoodBut
  <1>2. t \in Session /\ t.locked /\ t.born = s.born /\ Key(t) = Key(s)
    BY DEF Session, Key
  <1>3. Key(s) \in Keys BY KeyType
  <1> HIDE DEF t
  <1>4. /\ S[id] = s /\ T[id] = t
        /\ \A i \in Ids \ {id} : S[i] = T[i]
        /\ s # None /\ t # None
        /\ T \in [Ids -> Session \cup {None}]
    BY <1>2, NoneApart
  <1> HIDE DEF S, T
  <1>5. AliveIn(T) = AliveIn(S) /\ id \in AliveIn(T) BY <1>4 DEF AliveIn
  <1>6. /\ l \in [Keys -> Ids \cup {None}]
        /\ m \in [Keys -> Ids \cup {None}]
        /\ m[Key(s)] = id
        /\ \A k \in Keys \ {Key(s)} : m[k] = l[k]
    BY <1>1, <1>3 DEF Typed
  <1> HIDE DEF m
  <1>7. Match(T, m)
    <2>1. ASSUME NEW k \in Keys, m[k] # None
          PROVE  T[m[k]] # None /\ T[m[k]].locked /\ Key(T[m[k]]) = k
      <3>1. CASE k = Key(s) BY <3>1, <1>2, <1>4, <1>6
      <3>2. CASE k # Key(s)
        <4>1. m[k] = l[k] /\ l[k] \in Ids BY <3>2, <2>1, <1>6
        <4>2. S[l[k]] # None /\ S[l[k]].locked /\ Key(S[l[k]]) = k
          BY <1>1, <2>1, <4>1 DEF Match
        <4>3. l[k] # id BY <4>2, <1>4
        <4> QED BY <4>1, <4>2, <4>3, <1>4
      <3> QED BY <3>1, <3>2
    <2>2. ASSUME NEW i \in AliveIn(T), T[i].locked PROVE m[Key(T[i])] = i
      <3>1. CASE i = id BY <3>1, <1>2, <1>4, <1>6
      <3>2. CASE i # id
        <4>1. i \in Ids /\ i \in AliveIn(S) /\ S[i] = T[i]
          BY <3>2, <1>4, <1>5 DEF AliveIn
        <4>2. l[Key(S[i])] = i BY <1>1, <2>2, <4>1 DEF Match
        <4>3. Key(S[i]) \in Keys
          <5>1. S[i] \in Session BY <1>1, <4>1 DEF AliveIn, Typed
          <5> QED BY <5>1, KeyType
        <4>4. Key(S[i]) # Key(s) BY <4>1, <4>2, NoneApart
        <4> QED BY <4>1, <4>2, <4>3, <4>4, <1>6
      <3> QED BY <3>1, <3>2
    <2> QED BY <2>1, <2>2 DEF Match
  <1>8. Owned(T)
    <2>1. Fit(t) BY <1>2 DEF Fit
    <2>2. \A i \in AliveIn(T) \ {id} : Fit(T[i])
      BY <1>1, <1>4, <1>5 DEF AliveIn
    <2> QED BY <2>1, <2>2, <1>4 DEF Owned
  <1>9. Typed(q, T, m) /\ Partition(q, T) BY <1>1, <1>4, <1>5, <1>6 DEF Typed, Partition
  <1> QED BY <1>7, <1>8, <1>9 DEF Good, T, t, m

(* What a step does, whatever the handler decides.                          *)
LEMMA ContinueStep ==
  ASSUME NEW id \in Ids, NEW s \in Session,
         NEW q, NEW sent \in SUBSET Answer,
         session \in [Ids -> Session \cup {None}],
         Good(q, [session EXCEPT ![id] = s], locks),
         Continue(id, s, q, locks, sent)
  PROVE  /\ Good(free', session', locks')
         /\ answers' \in SUBSET Answer
         /\ LockTableStep(locks, locks')
         /\ \A i \in Ids \ {id} : session'[i] = session[i]
         /\ session'[id] # None => session'[id].born = s.born
  <1>1. /\ Good(free', session', locks')
        /\ answers' \in SUBSET Answer
        /\ locks' = locks \/ locks' = Unlocked(locks, id, s)
        /\ \A i \in Ids \ {id} : session'[i] = session[i]
        /\ session'[id] # None => session'[id].born = s.born
    BY ContinueGood
  <1>2. LockTableStep(locks, locks')
    BY <1>1, KeyType, NoneApart DEF LockTableStep, Unlocked
  <1> QED BY <1>1, <1>2

(* The same when the handler begins with LockProcess.                       *)
LEMMA LockStep ==
  ASSUME NEW id \in Ids, NEW s \in Session,
         NEW q, NEW sent \in SUBSET Answer,
         session \in [Ids -> Session \cup {None}],
         GoodBut(id, q, [session EXCEPT ![id] = s], locks),
         ~ s.locked, s.born \in 1 .. MaxRequests,
         LockAndContinue(id, s, q, sent)
  PROVE  /\ Good(free', session', locks')
         /\ answers' \in SUBSET Answer
         /\ LockTableStep(locks, locks')
         /\ \A i \in Ids \ {id} : session'[i] = session[i]
         /\ session'[id] # None => session'[id].born = s.born
  <1>1. Key(s) \in Keys BY KeyType
  <1>2. locks \in [Keys -> Ids \cup {None}] BY DEF GoodBut, Typed
  <1>3. CASE locks[Key(s)] # None
    <2>1. End(id, s, q, locks, sent) BY <1>3 DEF LockAndContinue
    <2>2. Good(free', session', locks') /\ answers' \in SUBSET Answer
      BY <2>1, EndGood
    <2>3. /\ session' = [session EXCEPT ![id] = None]
          /\ locks' = locks
      BY <2>1 DEF End, Unlocked
    <2> QED BY <2>2, <2>3 DEF LockTableStep
  <1>4. CASE locks[Key(s)] = None
    <2> DEFINE t == [s EXCEPT !.locked = TRUE]
               m == [locks EXCEPT ![Key(s)] = id]
    <2>1. Continue(id, t, q, m, sent) BY <1>4 DEF LockAndContinue
    <2>2. t \in Session /\ Key(t) = Key(s) /\ t.born = s.born
      BY DEF Session, Key
    <2>3. Good(q, [session EXCEPT ![id] = t], m) BY <1>4, TakeGood
    <2>4. [m EXCEPT ![Key(s)] = None] = locks BY <1>1, <1>2, <1>4
    <2>5. LockTableStep(locks, m) BY <1>1, <1>4 DEF LockTableStep
    <2> HIDE DEF t, m
    <2>6. /\ Good(free', session', locks')
          /\ answers' \in SUBSET Answer
          /\ locks' = m \/ locks' = Unlocked(m, id, t)
          /\ \A i \in Ids \ {id} : session'[i] = session[i]
          /\ session'[id] # None => session'[id].born = t.born
      BY <2>1, <2>2, <2>3, ContinueGood
    <2>7. LockTableStep(locks, locks')
      <3>1. Unlocked(m, id, t) = m \/ Unlocked(m, id, t) = locks
        BY <2>2, <2>4 DEF Unlocked
      <3>2. LockTableStep(locks, locks) BY DEF LockTableStep
      <3> QED BY <2>5, <2>6, <3>1, <3>2
    <2> QED BY <2>2, <2>6, <2>7
  <1> QED BY <1>3, <1>4

-----------------------------------------------------------------------------
(* What every step of the process does to the tables. *)
StepGood ==
  /\ Good(free', session', locks')
  /\ answers' \in SUBSET Answer
  /\ LockTableStep(locks, locks')
  /\ \A i \in Ids : session[i] # None /\ session'[i] # None =>
                      session'[i].born = session[i].born

(* The session in hand is one of the table. *)
LEMMA InHand ==
  ASSUME IInv, NEW id \in Ids, session[id] # None
  PROVE  /\ session[id] \in Session
         /\ session \in [Ids -> Session \cup {None}]
         /\ Good(free, [session EXCEPT ![id] = session[id]], locks)
         /\ GoodBut(id, free, [session EXCEPT ![id] = session[id]], locks)
         /\ session[id].born \in 1 .. MaxRequests
  <1>1. session \in [Ids -> Session \cup {None}] BY DEF IInv, TypeOK
  <1>2. [session EXCEPT ![id] = session[id]] = session BY <1>1
  <1>3. session[id].born \in 1 .. MaxRequests
    BY DEF IInv, Good, Owned, Fit, AliveIn
  <1> QED BY <1>1, <1>2, <1>3 DEF IInv, Good, GoodBut, Owned

(* A request takes the first free id. *)
LEMMA RequestGood ==
  ASSUME IInv, NEW c \in Cmds, NEW u \in Users, Request(c, u)
  PROVE  StepGood
  <1> DEFINE id == NewId
             s  == NewSession(c, u)
             S  == [session EXCEPT ![id] = s]
  <1>1. /\ requests < MaxRequests
        /\ free # << >>
        /\ IF c \in EarlyLock
           THEN LockAndContinue(id, s, IdsLeft, answers)
           ELSE Continue(id, s, IdsLeft, locks, answers)
    BY DEF Request
  <1>2. /\ requests \in 0 .. MaxRequests
        /\ session \in [Ids -> Session \cup {None}]
        /\ answers \in SUBSET Answer
        /\ free \in Seq(Ids)
        /\ locks \in [Keys -> Ids \cup {None}]
    BY DEF IInv, TypeOK
  <1>3. s.born \in 1 .. MaxRequests /\ s \in Session /\ ~ s.locked /\ s.cmd = c
    <2>1. requests + 1 \in 1 .. MaxRequests /\ requests + 1 \in Nat
      BY <1>1, <1>2, PoolAssumption
    <2> QED BY <2>1 DEF NewSession, Session, Waits
  <1>4. Partition(free, session) /\ Match(session, locks) /\ Owned(session)
    BY DEF IInv, Good
  <1>5. /\ id \in { free[i] : i \in DOMAIN free }
        /\ id \in Ids
        /\ IdsLeft \in Seq(Ids)
        /\ \A i, j \in DOMAIN IdsLeft : i # j => IdsLeft[i] # IdsLeft[j]
        /\ { IdsLeft[i] : i \in DOMAIN IdsLeft }
             = { free[i] : i \in DOMAIN free } \ {id}
    BY <1>1, <1>2, <1>4, TakenId DEF Partition, NewId, IdsLeft
  <1>6. session[id] = None
    BY <1>4, <1>5 DEF Partition, AliveIn
  <1> HIDE DEF id, s
  <1>7. /\ S[id] = s /\ \A i \in Ids \ {id} : S[i] = session[i]
        /\ s # None
        /\ S \in [Ids -> Session \cup {None}]
    BY <1>2, <1>3, <1>5, NoneApart
  <1> HIDE DEF S
  <1>8. AliveIn(S) = AliveIn(session) \cup {id}
    BY <1>5, <1>7 DEF AliveIn
  <1>9. GoodBut(id, IdsLeft, S, locks)
    <2>1. Typed(IdsLeft, S, locks) BY <1>2, <1>5, <1>7 DEF Typed
    <2>2. Partition(IdsLeft, S)
      <3>1. { IdsLeft[i] : i \in DOMAIN IdsLeft } = Ids \ AliveIn(S)
        BY <1>4, <1>5, <1>8 DEF Partition, AliveIn
      <3> QED BY <3>1, <1>5 DEF Partition
    <2>3. Match(S, locks)
      <3>1. ASSUME NEW k \in Keys, locks[k] # None
            PROVE  S[locks[k]] # None /\ S[locks[k]].locked /\ Key(S[locks[k]]) = k
        <4>1. /\ session[locks[k]] # None /\ session[locks[k]].locked
              /\ Key(session[locks[k]]) = k
          BY <1>4, <3>1 DEF Match
        <4>2. locks[k] \in Ids \ {id} BY <4>1, <1>2, <1>6, <3>1
        <4> QED BY <4>1, <4>2, <1>7
      <3>2. ASSUME NEW i \in AliveIn(S), S[i].locked PROVE locks[Key(S[i])] = i
        <4>1. i # id BY <3>2, <1>3, <1>7
        <4>2. i \in AliveIn(session) /\ S[i] = session[i]
          BY <4>1, <1>7, <1>8 DEF AliveIn
        <4> QED BY <4>2, <3>2, <1>4 DEF Match
      <3> QED BY <3>1, <3>2 DEF Match
    <2>4. \A i \in AliveIn(S) \ {id} : Fit(S[i])
      BY <1>4, <1>7, <1>8 DEF Owned, AliveIn
    <2> QED BY <2>1, <2>2, <2>3, <2>4 DEF GoodBut
  <1>10. /\ Good(free', session', locks')
         /\ answers' \in SUBSET Answer
         /\ LockTableStep(locks, locks')
         /\ \A i \in Ids \ {id} : session'[i] = session[i]
    <2>1. CASE c \in EarlyLock
      <3>1. LockAndContinue(id, s, IdsLeft, answers) BY <2>1, <1>1
      <3> QED BY <3>1, <1>2, <1>3, <1>5, <1>9, LockStep DEF S
    <2>2. CASE c \notin EarlyLock
      <3>1. Continue(id, s, IdsLeft, locks, answers) BY <2>2, <1>1
      <3>2. Fit(s) BY <2>2, <1>3 DEF Fit
      <3>3. Good(IdsLeft, S, locks)
        BY <3>2, <1>7, <1>9 DEF Good, GoodBut, Owned
      <3> QED BY <3>1, <3>3, <1>2, <1>3, <1>5, ContinueStep DEF S
    <2> QED BY <2>1, <2>2
  <1> QED BY <1>6, <1>10 DEF StepGood

(* A session that ends without its handler. *)
LEMMA EndStep ==
  ASSUME IInv, NEW id \in Ids, session[id] # None,
         NEW sent \in SUBSET Answer, End(id, session[id], free, locks, sent)
  PROVE  StepGood
  <1>1. Good(free', session', locks') /\ answers' \in SUBSET Answer
    BY InHand, EndGood
  <1>2. /\ session' = [session EXCEPT ![id] = None]
        /\ locks' = Unlocked(locks, id, session[id])
    BY DEF End
  <1>3. LockTableStep(locks, locks')
    BY <1>2, InHand, KeyType, NoneApart DEF LockTableStep, Unlocked
  <1>4. session \in [Ids -> Session \cup {None}] BY InHand
  <1> QED BY <1>1, <1>2, <1>3, <1>4 DEF StepGood

(* Every step of Next. *)
LEMMA NextGood == ASSUME IInv, Next PROVE StepGood
  <1>0. /\ session \in [Ids -> Session \cup {None}]
        /\ answers \in SUBSET Answer
        /\ Good(free, session, locks)
    BY DEF IInv, TypeOK
  <1>1. ASSUME NEW c \in Cmds, NEW u \in Users, Request(c, u) PROVE StepGood
    BY <1>1, RequestGood
  <1>2. ASSUME NEW m \in answers, Deliver(m) PROVE StepGood
    <2>1. m.to \in Ids /\ m.uid \in Users /\ answers \ {m} \in SUBSET Answer
      BY <1>0 DEF Answer
    <2> DEFINE id == m.to
               s  == session[m.to]
    <2>2. CASE AnswerNobody(m)
      BY <1>0, <2>1, <2>2 DEF AnswerNobody, StepGood, LockTableStep
    <2>3. CASE AnswerPlain(m)
      <3>1. s # None BY <2>3 DEF AnswerPlain
      <3>2. /\ s \in Session
            /\ Good(free, [session EXCEPT ![id] = s], locks)
            /\ GoodBut(id, free, [session EXCEPT ![id] = s], locks)
            /\ s.born \in 1 .. MaxRequests
        BY <2>1, <3>1, InHand
      <3>3. IF s.cmd \in LateLock /\ ~ s.locked
            THEN LockAndContinue(id, s, free, answers \ {m})
            ELSE Continue(id, s, free, locks, answers \ {m})
        BY <2>3 DEF AnswerPlain
      <3> HIDE DEF s, id
      <3>4. id \in Ids BY <2>1 DEF id
      <3>5. /\ Good(free', session', locks')
            /\ answers' \in SUBSET Answer
            /\ LockTableStep(locks, locks')
            /\ \A i \in Ids \ {id} : session'[i] = session[i]
            /\ session'[id] # None => session'[id].born = s.born
        <4>1. CASE s.cmd \in LateLock /\ ~ s.locked
          <5>1. LockAndContinue(id, s, free, answers \ {m}) BY <4>1, <3>3
          <5> QED BY <4>1, <5>1, <1>0, <2>1, <3>2, <3>4, LockStep
        <4>2. CASE ~ (s.cmd \in LateLock /\ ~ s.locked)
          <5>1. Continue(id, s, free, locks, answers \ {m}) BY <4>2, <3>3
          <5> QED BY <5>1, <1>0, <2>1, <3>2, <3>4, ContinueStep
        <4> QED BY <4>1, <4>2
      <3> QED BY <3>5 DEF StepGood, s, id
    <2>4. CASE AnswerFailed(m)
      <3>1. s # None /\ End(id, s, free, locks, answers \ {m})
        BY <2>4 DEF AnswerFailed
      <3> QED BY <3>1, <2>1, EndStep
    <2>5. CASE AnswerUser(m)
      <3> DEFINE left == s.pending \ {m.uid}
      <3>1. s # None BY <2>5 DEF AnswerUser
      <3>2. s \in Session /\ Good(free, [session EXCEPT ![id] = s], locks)
        BY <2>1, <3>1, InHand
      <3>3. CASE left = {}
        <4> DEFINE t == [s EXCEPT !.wait = "Plain", !.pending = {}]
        <4>1. /\ t \in Session
              /\ t.cmd = s.cmd /\ t.uid = s.uid /\ t.born = s.born
              /\ t.locked = s.locked
          BY <3>2 DEF Session, Waits
        <4>2. Continue(id, t, free, locks, answers \ {m})
          BY <2>5, <3>3 DEF AnswerUser
        <4> HIDE DEF t, s
        <4>3. Good(free, [session EXCEPT ![id] = t], locks)
          BY <1>0, <2>1, <3>2, <4>1, WaitGood
        <4>4. /\ Good(free', session', locks')
              /\ answers' \in SUBSET Answer
              /\ LockTableStep(locks, locks')
              /\ \A i \in Ids \ {id} : session'[i] = session[i]
              /\ session'[id] # None => session'[id].born = t.born
          BY <1>0, <2>1, <4>1, <4>2, <4>3, ContinueStep
        <4> QED BY <4>1, <4>4 DEF StepGood, s
      <3>4. CASE left # {}
        <4> DEFINE t == [s EXCEPT !.pending = left]
        <4>1. /\ t \in Session
              /\ t.cmd = s.cmd /\ t.uid = s.uid /\ t.born = s.born
              /\ t.locked = s.locked
          BY <3>2 DEF Session
        <4>2. /\ session' = [session EXCEPT ![id] = t]
              /\ answers' = answers \ {m}
              /\ UNCHANGED << free, locks >>
          BY <2>5, <3>4 DEF AnswerUser
        <4> HIDE DEF t, s
        <4>3. Good(free, [session EXCEPT ![id] = t], locks)
          BY <1>0, <2>1, <3>2, <4>1, WaitGood
        <4>4. Good(free', session', locks') BY <4>2, <4>3
        <4>5. \A i \in Ids : session[i] # None /\ session'[i] # None =>
                               session'[i].born = session[i].born
          BY <1>0, <2>1, <4>1, <4>2 DEF s
        <4> QED BY <4>2, <4>4, <4>5, <2>1 DEF StepGood, LockTableStep
      <3> QED BY <3>3, <3>4
    <2> QED BY <1>2, <2>2, <2>3, <2>4, <2>5 DEF Deliver
  <1>3. ASSUME NEW id \in Ids, Timeout(id) PROVE StepGood
    <2>1. session[id] # None /\ End(id, session[id], free, locks, answers)
      BY <1>3 DEF Timeout
    <2> QED BY <2>1, <1>0, EndStep
  <1> QED BY <1>1, <1>2, <1>3 DEF Next

-----------------------------------------------------------------------------
(* The inductive invariant holds at the start. *)
LEMMA InitIInv == ASSUME Init PROVE IInv
  <1>1. /\ free \in Seq(Ids)
        /\ DOMAIN free = Ids
        /\ \A i \in Ids : free[i] = i
    <2>1. \A i \in 1 .. NumIds : i \in Ids BY DEF Ids
    <2>2. NumIds \in Nat BY PoolAssumption
    <2>3. free = [ i \in 1 .. NumIds |-> i ] BY DEF Init, Ids
    <2>4. free \in [1 .. NumIds -> Ids] BY <2>1, <2>3
    <2>5. free \in Seq(Ids) BY <2>2, <2>4
    <2> QED BY <2>3, <2>5 DEF Ids
  <1>2. /\ session = [ id \in Ids |-> None ]
        /\ locks = [ k \in Keys |-> None ]
        /\ answers = {} /\ requests = 0 /\ peak = 0
    BY DEF Init
  <1>3. AliveIn(session) = {} BY <1>2 DEF AliveIn
  <1>4. Partition(free, session) BY <1>1, <1>3 DEF Partition
  <1>5. Match(session, locks) /\ Owned(session)
    BY <1>2, <1>3 DEF Match, Owned
  <1>6. 0 \in 0 .. MaxRequests BY PoolAssumption
  <1> QED BY <1>1, <1>2, <1>4, <1>5, <1>6 DEF IInv, TypeOK, Good, Typed

(* The bounded counters stay in their ranges. *)
LEMMA CountersStep ==
  ASSUME IInv, Next
  PROVE  requests' \in 0 .. MaxRequests /\ peak' \in Nat
  <1>1. requests \in 0 .. MaxRequests /\ peak \in Nat BY DEF IInv, TypeOK
  <1>2. ASSUME NEW c \in Cmds, NEW u \in Users, Request(c, u)
        PROVE  requests' \in 0 .. MaxRequests /\ peak' \in Nat
    <2>1. /\ requests < MaxRequests /\ requests' = requests + 1
          /\ \/ peak' = peak
             \/ peak' = Cardinality(Alive) + 1
      BY <1>2 DEF Request
    <2>2. Cardinality(Alive) \in Nat
      <3>1. IsFiniteSet(Ids) BY PoolAssumption, FS_Interval DEF Ids
      <3>2. IsFiniteSet(Alive) BY <3>1, FS_Subset DEF Alive
      <3> QED BY <3>2, FS_CardinalityType
    <2>3. requests + 1 \in 0 .. MaxRequests BY <1>1, <2>1, PoolAssumption
    <2>4. Cardinality(Alive) + 1 \in Nat BY <2>2
    <2> QED BY <1>1, <2>1, <2>3, <2>4
  <1>3. ASSUME NEW m \in answers, Deliver(m) PROVE UNCHANGED << requests, peak >>
    BY <1>3 DEF Deliver, AnswerNobody, AnswerPlain, AnswerFailed, AnswerUser
  <1>4. ASSUME NEW id \in Ids, Timeout(id) PROVE UNCHANGED << requests, peak >>
    BY <1>4 DEF Timeout
  <1> QED BY <1>1, <1>2, <1>3, <1>4 DEF Next

(* A step, or a stutter, keeps the inductive invariant. *)
LEMMA NextIInv == ASSUME IInv, [Next]_vars PROVE IInv'
  <1>1. CASE Next
    <2>1. StepGood BY <1>1, NextGood
    <2>2. requests' \in 0 .. MaxRequests /\ peak' \in Nat BY <1>1, CountersStep
    <2> QED BY <2>1, <2>2 DEF StepGood, IInv, TypeOK, Good, Typed
  <1>2. CASE UNCHANGED vars
    BY <1>2 DEF vars, IInv, TypeOK, Good, Typed, Partition, Match, Owned,
                Fit, AliveIn
  <1> QED BY <1>1, <1>2

(* The inductive invariant holds in every reachable state. *)
THEOREM Inductive == Spec => []IInv
  <1>1. Init => IInv BY InitIInv
  <1>2. IInv /\ [Next]_vars => IInv' BY NextIInv
  <1> QED BY <1>1, <1>2, PTL DEF Spec

(* Sessions, locks and answers keep their types. *)
THEOREM TypesHold == Spec => []TypeOK
  <1>1. IInv => TypeOK BY DEF IInv
  <1> QED BY <1>1, Inductive, PTL

(* AllocSession and ReleaseSession neither lose a session id nor hand one   *)
(* out twice.                                                               *)
THEOREM IdsHold == Spec => []IdsPartitioned
  <1>1. IInv => IdsPartitioned
    BY DEF IInv, Good, Partition, IdsPartitioned, Alive, AliveIn
  <1> QED BY <1>1, Inductive, PTL

(* The lock table holds exactly the locks of the live sessions.             *)
THEOREM LocksHold == Spec => []LocksMatch
  <1>1. IInv => LocksMatch
    BY DEF IInv, Good, Match, LocksMatch, Alive, AliveIn
  <1> QED BY <1>1, Inductive, PTL

(* Two requests of one user for a command that locks first are never at     *)
(* work together.                                                           *)
THEOREM OneAtATimeHolds == Spec => []OneAtATime
  <1>1. IInv => OneAtATime
    <2> SUFFICES ASSUME IInv, NEW i \in Alive, NEW j \in Alive,
                        session[i].cmd \in EarlyLock,
                        Key(session[i]) = Key(session[j])
                 PROVE  i = j
      BY DEF OneAtATime
    <2>1. session[j].cmd = session[i].cmd BY DEF Key
    <2>2. session[i].locked /\ session[j].locked
      BY <2>1 DEF IInv, Good, Owned, Fit, Alive, AliveIn
    <2>3. locks[Key(session[i])] = i /\ locks[Key(session[j])] = j
      BY <2>2 DEF IInv, Good, Match, Alive, AliveIn
    <2> QED BY <2>3
  <1> QED BY <1>1, Inductive, PTL

-----------------------------------------------------------------------------
(* Who works under each lock, of a table of sessions. *)
WorkingIn(S) == [ k \in Keys |->
  { S[id].born : id \in { i \in AliveIn(S) : S[i].locked /\ Key(S[i]) = k } } ]

(* At most one request works under a lock: the one the lock table names.    *)
LEMMA WorkingOne ==
  ASSUME NEW q, NEW S, NEW l, Good(q, S, l), NEW k \in Keys
  PROVE  WorkingIn(S)[k] = IF l[k] = None THEN {} ELSE {S[l[k]].born}
  <1>1. Typed(q, S, l) /\ Match(S, l) BY DEF Good
  <1>2. \A i \in AliveIn(S) : S[i].locked /\ Key(S[i]) = k => l[k] = i
    BY <1>1 DEF Match
  <1>3. \A i \in AliveIn(S) : i \in Ids BY DEF AliveIn
  <1>4. CASE l[k] = None
    <2>1. { i \in AliveIn(S) : S[i].locked /\ Key(S[i]) = k } = {}
      BY <1>2, <1>3, <1>4, NoneApart
    <2> QED BY <1>4, <2>1 DEF WorkingIn
  <1>5. CASE l[k] # None
    <2>1. /\ l[k] \in AliveIn(S) /\ S[l[k]].locked /\ Key(S[l[k]]) = k
      BY <1>1, <1>5 DEF Match, Typed, AliveIn
    <2>2. { i \in AliveIn(S) : S[i].locked /\ Key(S[i]) = k } = {l[k]}
      BY <1>2, <2>1
    <2> QED BY <1>5, <2>2 DEF WorkingIn
  <1> QED BY <1>4, <1>5

(* Every step of the pool takes a free lock, gives one back, or leaves the  *)
(* requests at work as they are.                                            *)
LEMMA StepRefines ==
  ASSUME IInv, StepGood
  PROVE  Lock!Next \/ Working' = Working
  <1> DEFINE W == WorkingIn(session)
             V == WorkingIn(session')
             Names(S, l, k) == IF l[k] = None THEN {} ELSE {S[l[k]].born}
  <1>1. Working = W /\ Working' = V
    BY DEF Working, WorkingIn, Alive, AliveIn
  <1>2. Good(free, session, locks) /\ Good(free', session', locks')
    BY DEF IInv, StepGood
  <1>3. /\ W = [ k \in Keys |-> Names(session, locks, k) ]
        /\ V = [ k \in Keys |-> Names(session', locks', k) ]
    <2>1. \A k \in Keys : W[k] = Names(session, locks, k) BY <1>2, WorkingOne
    <2>2. \A k \in Keys : V[k] = Names(session', locks', k) BY <1>2, WorkingOne
    <2>3. /\ W = [ k \in Keys |-> W[k] ]
          /\ V = [ k \in Keys |-> V[k] ]
      BY DEF WorkingIn
    <2> QED BY <2>1, <2>2, <2>3
  <1> HIDE DEF W, V
  <1>4. /\ locks \in [Keys -> Ids \cup {None}]
        /\ locks' \in [Keys -> Ids \cup {None}]
    BY <1>2 DEF Good, Typed
  <1>5. ASSUME NEW k \in Keys, locks'[k] = locks[k]
        PROVE  Names(session', locks', k) = Names(session, locks, k)
    <2>1. CASE locks[k] = None BY <2>1, <1>5
    <2>2. CASE locks[k] # None
      <3>1. session[locks[k]] # None /\ session'[locks[k]] # None
        BY <2>2, <1>2, <1>5 DEF Good, Match
      <3>2. locks[k] \in Ids BY <2>2, <1>4
      <3>3. session'[locks[k]].born = session[locks[k]].born
        BY <3>1, <3>2 DEF StepGood
      <3> QED BY <3>3, <1>5
    <2> QED BY <2>1, <2>2
  <1>6. CASE locks' = locks
    BY <1>1, <1>3, <1>5, <1>6
  <1>7. ASSUME NEW k \in Keys, locks[k] = None, NEW id \in Ids,
               locks' = [locks EXCEPT ![k] = id]
        PROVE  Lock!Acquire(k)
    <2>1. locks'[k] = id /\ \A j \in Keys \ {k} : locks'[j] = locks[j]
      BY <1>4, <1>7
    <2>2. id # None BY NoneApart
    <2>3. session'[id] # None
      BY <1>2, <2>1, <2>2 DEF Good, Match
    <2>4. session'[id].born \in 1 .. MaxRequests
      BY <1>2, <2>3 DEF Good, Owned, Fit, AliveIn
    <2>5. W[k] = {} BY <1>3, <1>7
    <2>6. V = [W EXCEPT ![k] = {session'[id].born}]
      <3>1. \A j \in Keys \ {k} : Names(session', locks', j) = Names(session, locks, j)
        BY <2>1, <1>5
      <3>2. Names(session', locks', k) = {session'[id].born} BY <2>1, <2>2
      <3> HIDE DEF Names
      <3> QED BY <3>1, <3>2, <1>3
    <2> QED BY <1>1, <2>4, <2>5, <2>6 DEF Lock!Acquire
  <1>8. ASSUME NEW k \in Keys, locks[k] # None,
               locks' = [locks EXCEPT ![k] = None]
        PROVE  Lock!Release(k)
    <2>1. locks'[k] = None /\ \A j \in Keys \ {k} : locks'[j] = locks[j]
      BY <1>4, <1>8
    <2>2. W[k] # {} BY <1>3, <1>8
    <2>3. V = [W EXCEPT ![k] = {}]
      <3>1. \A j \in Keys \ {k} : Names(session', locks', j) = Names(session, locks, j)
        BY <2>1, <1>5
      <3>2. Names(session', locks', k) = {} BY <2>1
      <3> HIDE DEF Names
      <3> QED BY <3>1, <3>2, <1>3
    <2> QED BY <1>1, <2>2, <2>3 DEF Lock!Release
  <1> QED BY <1>6, <1>7, <1>8 DEF StepGood, LockTableStep, Lock!Next

(* SessionPool keeps the promise of LockProcess. *)
THEOREM PoolImplementsLock == Spec => LockSafety
  <1>1. Init => Lock!Init
    BY DEF Init, Lock!Init, Working, Alive
  <1>2. IInv /\ [Next]_vars => [Lock!Next]_Working
    <2>1. ASSUME IInv, Next PROVE [Lock!Next]_Working
      BY <2>1, NextGood, StepRefines
    <2>2. ASSUME UNCHANGED vars PROVE Working' = Working
      BY <2>2 DEF vars, Working, Alive, Key
    <2> QED BY <2>1, <2>2
  <1> QED BY <1>1, <1>2, Inductive, PTL DEF Spec, LockSafety, Lock!Spec

-----------------------------------------------------------------------------
(* How old a stale answer is.  An id rests while all the ids before it in  *)
(* the queue are handed out, and the queue is as long as there are ids     *)
(* that are not in use: what is counted is the place of the id in the      *)
(* queue, from the moment its session ends until it is handed out again.   *)

(* An answer to an id that belongs to nobody, with the id at place p: when *)
(* it is handed out its session will have the number requests + p.         *)
Resting(m) ==
  session[m.to] = None =>
    \A p \in DOMAIN free : free[p] = m.to => requests + p + peak > m.asker + NumIds

Aged ==
  /\ Cardinality(Alive) <= peak
  /\ \A id \in Alive : session[id].born <= requests
  /\ \A m \in answers : m.asker <= requests /\ Resting(m)
  /\ StaleAnswersAreOld

(* A session that has the id in hand ends; q is the queue at that point.   *)
Ends(id, q) ==
  /\ free' = Append(q, id)
  /\ session' = [session EXCEPT ![id] = None]
  /\ answers' \subseteq answers

(* It waits, and what it has asked for will be answered to the session     *)
(* number b.                                                               *)
WaitsAs(id, b, q) ==
  /\ free' = q
  /\ \A i \in Ids \ {id} : session'[i] = session[i]
  /\ session'[id] # None /\ session'[id].born = b
  /\ \A m \in answers' : m \in answers \/ (m.to = id /\ m.asker = b)

(* Whatever the handler decides, its session ends or waits.                *)
LEMMA ContinueShape ==
  ASSUME NEW id \in Ids, NEW s \in Session, NEW q, NEW l, NEW sent \in SUBSET answers,
         session \in [Ids -> Session \cup {None}], Continue(id, s, q, l, sent)
  PROVE  Ends(id, q) \/ WaitsAs(id, s.born, q)
  <1>1. CASE End(id, s, q, l, sent)
    BY <1>1 DEF End, Returned, Ends
  <1>2. CASE AskPlain(id, s, q, l, sent)
    <2> DEFINE t == [Armed(s) EXCEPT !.wait = "Plain", !.pending = {}]
    <2>1. t \in Session /\ t.born = s.born BY ArmedType DEF Waits
    <2>2. free' = q /\ session' = [session EXCEPT ![id] = t] BY <1>2 DEF AskPlain
    <2>3. \A m \in answers' : m \in answers \/ (m.to = id /\ m.asker = s.born)
      BY <1>2 DEF AskPlain
    <2> HIDE DEF t
    <2> QED BY <2>1, <2>2, <2>3, NoneApart DEF WaitsAs
  <1>3. CASE \E kind \in {"Get", "Update"}, us \in SUBSET Users \ {{}} :
               AskUsers(id, s, kind, us, q, l, sent)
    <2>1. PICK kind \in {"Get", "Update"}, us \in SUBSET Users :
            AskUsers(id, s, kind, us, q, l, sent)
      BY <1>3
    <2> DEFINE t == [Armed(s) EXCEPT !.wait = kind, !.pending = us]
    <2>2. t \in Session /\ t.born = s.born
      <3>1. kind \in Waits BY DEF Waits
      <3> QED BY <3>1, ArmedType
    <2>3. free' = q /\ session' = [session EXCEPT ![id] = t] BY <2>1 DEF AskUsers
    <2>4. \A m \in answers' : m \in answers \/ (m.to = id /\ m.asker = s.born)
      BY <2>1 DEF AskUsers
    <2> HIDE DEF t
    <2> QED BY <2>2, <2>3, <2>4, NoneApart DEF WaitsAs
  <1> QED BY <1>1, <1>2, <1>3 DEF Continue

(* A session that took its lock ends or waits.                             *)
LEMMA LockShape ==
  ASSUME NEW id \in Ids, NEW s \in Session, NEW q, NEW sent \in SUBSET answers,
         session \in [Ids -> Session \cup {None}], LockAndContinue(id, s, q, sent)
  PROVE  Ends(id, q) \/ WaitsAs(id, s.born, q)
  <1>1. CASE locks[Key(s)] # None
    BY <1>1 DEF LockAndContinue, End, Returned, Ends
  <1>2. CASE locks[Key(s)] = None
    <2> DEFINE t == [s EXCEPT !.locked = TRUE]
               l == [locks EXCEPT ![Key(s)] = id]
    <2>1. t \in Session /\ t.born = s.born BY DEF Session
    <2>2. Continue(id, t, q, l, sent) BY <1>2 DEF LockAndContinue
    <2> HIDE DEF t, l
    <2> QED BY <2>1, <2>2, ContinueShape
  <1> QED BY <1>1, <1>2

(* The queue holds what is not in use, once each, so its length says how   *)
(* many sessions are alive.                                                *)
LEMMA QueueLength ==
  ASSUME IInv
  PROVE  /\ IsFiniteSet(Alive) /\ Cardinality(Alive) \in Nat
         /\ Len(free) \in Nat /\ Len(free) = NumIds - Cardinality(Alive)
  <1>1. IsFiniteSet(Ids) /\ Cardinality(Ids) = NumIds
    BY PoolAssumption, FS_Interval DEF Ids
  <1>2. Alive \in SUBSET Ids BY DEF Alive
  <1>3. IsFiniteSet(Alive) /\ Cardinality(Alive) \in Nat
    BY <1>1, <1>2, FS_Subset, FS_CardinalityType
  <1>4. /\ free \in Seq(Ids)
        /\ \A i, j \in DOMAIN free : i # j => free[i] # free[j]
        /\ { free[i] : i \in DOMAIN free } = Ids \ Alive
    BY DEF IInv, TypeOK, Good, Partition, Alive, AliveIn
  <1>5. Len(free) \in Nat /\ DOMAIN free = 1 .. Len(free) BY <1>4
  <1>6. free \in Bijection(1 .. Len(free), Ids \ Alive)
    BY <1>4, <1>5 DEF Bijection, Injection, Surjection, IsInjective
  <1>7. Cardinality(Ids \ Alive) = Cardinality(1 .. Len(free))
    <2>1. IsFiniteSet(1 .. Len(free)) BY <1>5, FS_Interval
    <2>2. ExistsBijection(1 .. Len(free), Ids \ Alive) BY <1>6 DEF ExistsBijection
    <2> QED BY <2>1, <2>2, FS_Bijection
  <1>8. Cardinality(1 .. Len(free)) = Len(free)
    <2>1. Cardinality(1 .. Len(free)) = IF 1 > Len(free) THEN 0 ELSE Len(free) - 1 + 1
      BY <1>5, FS_Interval
    <2> QED BY <1>5, <2>1
  <1>9. Cardinality(Ids \ Alive) = NumIds - Cardinality(Alive)
    <2>1. Ids \cap Alive = Alive BY <1>2
    <2> QED BY <1>1, <2>1, FS_Difference
  <1> QED BY <1>3, <1>5, <1>7, <1>8, <1>9

(* What a step does to the queue, the numbers and the answers.  A session  *)
(* goes on, one ends, the next free id is handed out, or it is handed out  *)
(* and comes back within the step.                                         *)
GoesOn == \E id \in Ids : session[id] # None /\ WaitsAs(id, session[id].born, free)
OneEnds == \E id \in Ids : session[id] # None /\ Ends(id, free)
Counters == requests' = requests /\ peak' = peak
Counted ==
  /\ free # << >> /\ requests' = requests + 1
  /\ peak' >= peak /\ peak' >= Cardinality(Alive) + 1
TakesId == Counted /\ WaitsAs(NewId, requests + 1, IdsLeft)
TakesAndEnds == Counted /\ Ends(NewId, IdsLeft)
DropsAnswer == free' = free /\ session' = session /\ answers' \subseteq answers

(* Every step is of one of a few shapes: a session goes on, one ends, an   *)
(* answer is dropped, or an id is taken.                                   *)
LEMMA StepShape ==
  ASSUME IInv, Next
  PROVE  \/ Counters /\ (GoesOn \/ OneEnds \/ DropsAnswer)
         \/ TakesId \/ TakesAndEnds
  <1>0. /\ session \in [Ids -> Session \cup {None}]
        /\ answers \in SUBSET Answer /\ free \in Seq(Ids)
        /\ requests \in 0 .. MaxRequests /\ peak \in Nat
    BY DEF IInv, TypeOK
  <1>1. ASSUME NEW c \in Cmds, NEW u \in Users, Request(c, u)
        PROVE  TakesId \/ TakesAndEnds
    <2> DEFINE s == NewSession(c, u)
    <2>1. Counted
      <3>1. Cardinality(Alive) \in Nat BY QueueLength
      <3> QED BY <1>0, <1>1, <3>1 DEF Request, Counted
    <2>2. s \in Session /\ s.born = requests + 1
      BY <1>0 DEF NewSession, Session, Waits
    <2>3. NewId \in Ids BY <1>0, <2>1 DEF Counted, NewId
    <2>4. \/ LockAndContinue(NewId, s, IdsLeft, answers)
          \/ Continue(NewId, s, IdsLeft, locks, answers)
      BY <1>1 DEF Request
    <2> HIDE DEF s
    <2>5. Ends(NewId, IdsLeft) \/ WaitsAs(NewId, s.born, IdsLeft)
      BY <1>0, <2>2, <2>3, <2>4, ContinueShape, LockShape
    <2> QED BY <2>1, <2>2, <2>5 DEF TakesId, TakesAndEnds
  <1>2. ASSUME NEW m \in answers, Deliver(m)
        PROVE  Counters /\ (GoesOn \/ OneEnds \/ DropsAnswer)
    <2> DEFINE id == m.to
               s == session[id]
    <2>1. id \in Ids /\ answers \ {m} \in SUBSET answers BY <1>0 DEF Answer
    <2>2. CASE AnswerNobody(m)
      BY <2>2 DEF AnswerNobody, Counters, DropsAnswer
    <2>3. CASE AnswerPlain(m)
      <3>1. s # None /\ Counters BY <2>3 DEF AnswerPlain, Counters
      <3>2. \/ LockAndContinue(id, s, free, answers \ {m})
            \/ Continue(id, s, free, locks, answers \ {m})
        BY <2>3 DEF AnswerPlain
      <3>3. s \in Session BY <1>0, <2>1, <3>1
      <3> HIDE DEF s, id
      <3>4. Ends(id, free) \/ WaitsAs(id, s.born, free)
        BY <1>0, <2>1, <3>2, <3>3, ContinueShape, LockShape
      <3> QED BY <2>1, <3>1, <3>4 DEF GoesOn, OneEnds, s
    <2>4. CASE AnswerFailed(m)
      BY <2>1, <2>4 DEF AnswerFailed, End, Returned, OneEnds, Ends, Counters
    <2>5. CASE AnswerUser(m)
      <3> DEFINE left == s.pending \ {m.uid}
                 t == IF left = {} THEN [s EXCEPT !.wait = "Plain", !.pending = {}]
                      ELSE [s EXCEPT !.pending = left]
      <3>1. s # None /\ Counters BY <2>5 DEF AnswerUser, Counters
      <3>2. s \in Session BY <1>0, <2>1, <3>1
      <3>3. t \in Session /\ t.born = s.born BY <3>2 DEF Session, Waits
      <3>4. CASE left = {}
        <4>1. Continue(id, t, free, locks, answers \ {m})
          BY <2>5, <3>4 DEF AnswerUser
        <4> HIDE DEF t, s, id
        <4>2. Ends(id, free) \/ WaitsAs(id, t.born, free)
          BY <1>0, <2>1, <3>3, <4>1, ContinueShape
        <4> QED BY <2>1, <3>1, <3>3, <4>2 DEF GoesOn, OneEnds, s
      <3>5. CASE left # {}
        <4>1. session' = [session EXCEPT ![id] = t]
              /\ answers' = answers \ {m} /\ free' = free
          BY <2>5, <3>5 DEF AnswerUser
        <4> HIDE DEF t
        <4>2. WaitsAs(id, s.born, free)
          BY <1>0, <2>1, <3>3, <4>1, NoneApart DEF WaitsAs
        <4> QED BY <2>1, <3>1, <4>2 DEF GoesOn
      <3> QED BY <3>4, <3>5
    <2> QED BY <1>2, <2>2, <2>3, <2>4, <2>5 DEF Deliver
  <1>3. ASSUME NEW id \in Ids, Timeout(id) PROVE Counters /\ OneEnds
    BY <1>3 DEF Timeout, End, Returned, OneEnds, Ends, Counters
  <1> QED BY <1>1, <1>2, <1>3 DEF Next

(* A session ends when q is the queue, and its id is the last of it.  The  *)
(* queue is then at least as long as there are ids above the peak.         *)
LEMMA EndedRests ==
  ASSUME IInv, Aged, NEW id \in Ids, NEW q \in Seq(Ids), Ends(id, q),
         requests' \in Nat, peak' \in Nat, requests' >= requests,
         Len(q) + peak' + 1 > NumIds, Len(q) + 1 \in Nat,
         \A i \in DOMAIN q : q[i] # id,
         \A m \in answers : \A p \in DOMAIN q :
           session[m.to] = None /\ q[p] = m.to => requests' + p + peak' > m.asker + NumIds,
         Cardinality(Alive') <= peak', peak' >= peak,
         \A i \in Ids \ {id} : session[i] # None => session[i].born <= requests
  PROVE  Aged'
  <1>0. /\ session \in [Ids -> Session \cup {None}]
        /\ answers \in SUBSET Answer /\ requests \in Nat /\ peak \in Nat /\ NumIds \in Nat
    BY PoolAssumption DEF IInv, TypeOK
  <1>1. /\ free' = Append(q, id) /\ answers' \subseteq answers
        /\ session'[id] = None /\ \A i \in Ids \ {id} : session'[i] = session[i]
    BY <1>0 DEF Ends
  <1>2. \A i \in Ids : session[i] # None => session[i].born \in Nat
    BY <1>0 DEF Session
  <1>3. \A i \in Alive' : session'[i].born <= requests'
    BY <1>0, <1>1, <1>2 DEF Alive
  <1>4. ASSUME NEW m \in answers'
        PROVE  /\ m.asker <= requests' /\ Resting(m)'
               /\ m.to \in Alive' /\ session'[m.to].born # m.asker =>
                    session'[m.to].born + peak' > m.asker + NumIds
    <2>1. m \in answers /\ m.to \in Ids /\ m.asker \in Nat /\ m.asker <= requests
      BY <1>0, <1>1 DEF Answer, Aged
    <2>2. m.asker <= requests' BY <1>0, <2>1
    <2>3. Resting(m)'
      <3> SUFFICES ASSUME session'[m.to] = None, NEW p \in DOMAIN free', free'[p] = m.to
                   PROVE  requests' + p + peak' > m.asker + NumIds
        BY DEF Resting
      <3>1. p \in 1 .. Len(q) + 1 /\ Len(q) \in Nat BY <1>1
      <3>2. CASE p = Len(q) + 1
        BY <1>0, <2>1, <2>2, <3>1, <3>2
      <3>3. CASE p # Len(q) + 1
        <4>1. p \in DOMAIN q /\ free'[p] = q[p] BY <1>1, <3>1, <3>3
        <4>2. session[m.to] = None BY <1>1, <2>1, <4>1
        <4> QED BY <2>1, <4>1, <4>2
      <3> QED BY <3>2, <3>3
    <2>4. ASSUME m.to \in Alive', session'[m.to].born # m.asker
          PROVE  session'[m.to].born + peak' > m.asker + NumIds
      <3>1. m.to \in Alive /\ session'[m.to] = session[m.to]
        BY <1>1, <2>1, <2>4 DEF Alive
      <3>2. session[m.to].born + peak > m.asker + NumIds
        BY <2>1, <2>4, <3>1 DEF Aged, StaleAnswersAreOld
      <3>3. session[m.to].born \in Nat BY <1>2, <2>1, <3>1 DEF Alive
      <3>4. m.asker + NumIds \in Nat /\ peak \in Nat BY <1>0, <2>1
      <3>5. session[m.to].born + peak' > m.asker + NumIds BY <3>2, <3>3, <3>4
      <3> QED BY <3>1, <3>5
    <2> QED BY <2>2, <2>3, <2>4
  <1> QED BY <1>3, <1>4 DEF Aged, StaleAnswersAreOld

(* A session waits with the number b; q is the queue at that point.        *)
LEMMA WaitingAges ==
  ASSUME IInv, IInv', Aged, NEW id \in Ids, NEW b \in Nat, NEW q \in Seq(Ids),
         WaitsAs(id, b, q), requests' >= requests, b <= requests',
         \A m \in answers : m.to = id /\ b # m.asker => b + peak' > m.asker + NumIds,
         \A m \in answers : \A p \in DOMAIN q :
           m.to # id /\ session[m.to] = None /\ q[p] = m.to =>
             requests' + p + peak' > m.asker + NumIds,
         Cardinality(Alive') <= peak', peak' >= peak
  PROVE  Aged'
  <1>0. /\ session \in [Ids -> Session \cup {None}] /\ requests' \in Nat /\ peak' \in Nat
        /\ answers \in SUBSET Answer /\ requests \in Nat /\ peak \in Nat /\ NumIds \in Nat
    BY PoolAssumption DEF IInv, TypeOK
  <1>1. /\ free' = q /\ \A i \in Ids \ {id} : session'[i] = session[i]
        /\ session'[id] # None /\ session'[id].born = b
        /\ \A m \in answers' : m \in answers \/ (m.to = id /\ m.asker = b)
    BY DEF WaitsAs
  <1>2. \A i \in Ids : session[i] # None => session[i].born \in Nat
    BY <1>0 DEF Session
  <1>3. \A i \in Alive' : session'[i].born <= requests'
    <2> SUFFICES ASSUME NEW i \in Alive' PROVE session'[i].born <= requests'
      OBVIOUS
    <2>1. CASE i = id BY <1>1, <2>1
    <2>2. CASE i # id
      <3>1. i \in Alive /\ session'[i] = session[i] BY <1>1, <2>2 DEF Alive
      <3>2. session[i].born <= requests BY <3>1 DEF Aged
      <3>3. session[i].born \in Nat BY <1>2, <3>1 DEF Alive
      <3>4. session[i].born <= requests' BY <1>0, <3>2, <3>3
      <3> QED BY <3>1, <3>4
    <2> QED BY <2>1, <2>2
  <1>4. ASSUME NEW m \in answers'
        PROVE  /\ m.asker <= requests' /\ Resting(m)'
               /\ m.to \in Alive' /\ session'[m.to].born # m.asker =>
                    session'[m.to].born + peak' > m.asker + NumIds
    <2>1. CASE m \notin answers
      BY <1>1, <2>1 DEF Resting
    <2>2. CASE m \in answers /\ m.to = id
      <3>1. m.asker <= requests /\ m.asker \in Nat BY <1>0, <2>2 DEF Answer, Aged
      <3>2. m.asker <= requests' BY <1>0, <3>1
      <3> QED BY <1>1, <2>2, <3>2 DEF Resting
    <2>3. CASE m \in answers /\ m.to # id
      <3>1. m.to \in Ids /\ m.asker \in Nat /\ m.asker <= requests
        BY <1>0, <2>3 DEF Answer, Aged
      <3>2. m.asker <= requests' BY <1>0, <3>1
      <3>3. session'[m.to] = session[m.to] BY <1>1, <2>3, <3>1
      <3>4. Resting(m)' BY <1>1, <2>3, <3>3 DEF Resting
      <3>5. ASSUME session[m.to] # None, session[m.to].born # m.asker
            PROVE  session[m.to].born + peak' > m.asker + NumIds
        <4>1. session[m.to].born + peak > m.asker + NumIds
          BY <2>3, <3>1, <3>5 DEF Aged, StaleAnswersAreOld, Alive
        <4>2. session[m.to].born \in Nat BY <1>2, <3>1, <3>5
        <4>3. m.asker + NumIds \in Nat BY <1>0, <3>1
        <4> QED BY <1>0, <4>1, <4>2, <4>3
      <3> QED BY <3>2, <3>3, <3>4, <3>5 DEF Alive
    <2> QED BY <2>1, <2>2, <2>3
  <1> QED BY <1>3, <1>4 DEF Aged, StaleAnswersAreOld

(* One step per shape.                                                     *)
LEMMA AgedStep ==
  ASSUME IInv, IInv', Aged, Next
  PROVE  Aged'
  <1>0. /\ session \in [Ids -> Session \cup {None}] /\ session' \in [Ids -> Session \cup {None}]
        /\ answers \in SUBSET Answer /\ free \in Seq(Ids)
        /\ requests \in Nat /\ peak \in Nat /\ NumIds \in Nat
        /\ requests' \in Nat /\ peak' \in Nat
    BY PoolAssumption DEF IInv, TypeOK
  <1>1. /\ IsFiniteSet(Alive) /\ Cardinality(Alive) \in Nat
        /\ Len(free) \in Nat /\ Len(free) = NumIds - Cardinality(Alive)
        /\ Cardinality(Alive) <= peak
    BY QueueLength DEF Aged
  <1>2. \A m \in answers : m.to \in Ids /\ m.asker \in Nat BY <1>0 DEF Answer
  <1>3. \A i \in Alive : session[i].born \in Nat /\ session[i].born <= requests
    BY <1>0 DEF Alive, Session, Aged
  <1>4. \A p \in DOMAIN free : free[p] \in Ids \ Alive
    BY DEF IInv, Good, Partition, Alive, AliveIn
  <1>5. ASSUME Counters, GoesOn PROVE Aged'
    <2>1. PICK id \in Ids : session[id] # None /\ WaitsAs(id, session[id].born, free)
      BY <1>5 DEF GoesOn
    <2>2. Alive' = Alive BY <2>1 DEF Alive, WaitsAs
    <2>3. session[id].born \in Nat /\ session[id].born <= requests BY <1>3, <2>1 DEF Alive
    <2>4. \A m \in answers : m.to = id /\ session[id].born # m.asker =>
             session[id].born + peak' > m.asker + NumIds
      BY <1>5, <2>1 DEF Aged, StaleAnswersAreOld, Alive, Counters
    <2>5. \A m \in answers : \A p \in DOMAIN free :
             m.to # id /\ session[m.to] = None /\ free[p] = m.to =>
               requests' + p + peak' > m.asker + NumIds
      BY <1>5 DEF Aged, Resting, Counters
    <2>6. requests' >= requests /\ peak' >= peak /\ session[id].born <= requests'
          /\ Cardinality(Alive') <= peak'
      BY <1>0, <1>1, <1>5, <2>2, <2>3 DEF Counters
    <2> QED BY <1>0, <2>1, <2>3, <2>4, <2>5, <2>6, WaitingAges
  <1>6. ASSUME Counters, OneEnds PROVE Aged'
    <2>1. PICK id \in Ids : session[id] # None /\ Ends(id, free)
      BY <1>6 DEF OneEnds
    <2>2. Alive' \in SUBSET Alive BY <1>0, <2>1 DEF Alive, Ends
    <2>3. Cardinality(Alive') <= peak'
      <3>1. Cardinality(Alive') <= Cardinality(Alive) /\ IsFiniteSet(Alive')
        BY <1>1, <2>2, FS_Subset
      <3>2. Cardinality(Alive') \in Nat BY <3>1, FS_CardinalityType
      <3> QED BY <1>0, <1>1, <1>6, <3>1, <3>2 DEF Counters
    <2>4. \A p \in DOMAIN free : free[p] # id BY <1>4, <2>1 DEF Alive
    <2>5. Len(free) + peak' + 1 > NumIds BY <1>0, <1>1, <1>6 DEF Counters
    <2>6. \A m \in answers : \A p \in DOMAIN free :
             session[m.to] = None /\ free[p] = m.to => requests' + p + peak' > m.asker + NumIds
      BY <1>6 DEF Aged, Resting, Counters
    <2>7. requests' >= requests /\ peak' >= peak BY <1>0, <1>6 DEF Counters
    <2>8. \A i \in Ids \ {id} : session[i] # None => session[i].born <= requests
      BY <1>3 DEF Alive
    <2>9. Len(free) + 1 \in Nat BY <1>1
    <2> QED BY <1>0, <2>1, <2>3, <2>4, <2>5, <2>6, <2>7, <2>8, <2>9, EndedRests
  <1>7. ASSUME Counters, DropsAnswer PROVE Aged'
    BY <1>7 DEF Counters, DropsAnswer, Aged, Resting, StaleAnswersAreOld, Alive
  <1> DEFINE id == NewId
             q == IdsLeft
  <1>8. ASSUME Counted
        PROVE  /\ id \in Ids /\ session[id] = None /\ q \in Seq(Ids)
               /\ Len(q) + 1 = Len(free) /\ Len(q) + 1 \in Nat
               /\ \A i \in DOMAIN q : q[i] # id
               /\ 1 \in DOMAIN free /\ free[1] = id
               /\ \A p \in DOMAIN q : p \in Nat /\ p + 1 \in DOMAIN free /\ q[p] = free[p + 1]
               /\ requests' = requests + 1 /\ peak' >= peak /\ peak' >= Cardinality(Alive) + 1
    <2>1. free # << >> BY <1>8 DEF Counted
    <2>2. /\ q \in Seq(Ids) /\ Len(q) + 1 = Len(free) /\ Len(q) + 1 \in Nat
          /\ 1 \in DOMAIN free /\ free[1] = id
          /\ \A p \in DOMAIN q : p \in Nat /\ p + 1 \in DOMAIN free /\ q[p] = free[p + 1]
      BY <1>0, <2>1 DEF NewId, IdsLeft
    <2>3. \A i, j \in DOMAIN free : i # j => free[i] # free[j]
      BY DEF IInv, Good, Partition
    <2>4. \A i \in DOMAIN q : q[i] # id
      <3> SUFFICES ASSUME NEW i \in DOMAIN q PROVE q[i] # id OBVIOUS
      <3>1. i + 1 # 1 /\ i + 1 \in DOMAIN free BY <2>2
      <3>2. free[i + 1] # free[1] BY <2>2, <2>3, <3>1
      <3> QED BY <2>2, <3>2
    <2>5. id \in Ids /\ session[id] = None BY <1>4, <2>2 DEF Alive
    <2> QED BY <1>8, <2>2, <2>4, <2>5 DEF Counted
  <1>9. ASSUME Counted
        PROVE  \A m \in answers : \A p \in DOMAIN q :
                 session[m.to] = None /\ q[p] = m.to => requests' + p + peak' > m.asker + NumIds
    <2> SUFFICES ASSUME NEW m \in answers, NEW p \in DOMAIN q, session[m.to] = None, q[p] = m.to
                 PROVE  requests' + p + peak' > m.asker + NumIds
      OBVIOUS
    <2>1. p \in Nat /\ p + 1 \in DOMAIN free /\ free[p + 1] = m.to BY <1>8, <1>9
    <2>2. requests + (p + 1) + peak > m.asker + NumIds BY <2>1 DEF Aged, Resting
    <2>3. requests' = requests + 1 /\ peak' >= peak BY <1>8, <1>9
    <2>4. m.asker + NumIds \in Nat BY <1>0, <1>2
    <2> QED BY <1>0, <2>1, <2>2, <2>3, <2>4
  <1>10. ASSUME TakesId PROVE Aged'
    <2>1. Counted /\ WaitsAs(id, requests + 1, q) BY <1>10 DEF TakesId
    <2>2. Alive' = Alive \cup {id} BY <1>8, <2>1 DEF Alive, WaitsAs
    <2>3. Cardinality(Alive') <= peak'
      <3>1. Cardinality(Alive') = Cardinality(Alive) + 1
        BY <1>1, <1>8, <2>1, <2>2, FS_AddElement, ZenonT(60) DEF Alive
      <3> QED BY <1>8, <2>1, <3>1
    <2>4. ASSUME NEW m \in answers, m.to = id PROVE requests + 1 + peak' > m.asker + NumIds
      <3>1. requests + 1 + peak > m.asker + NumIds
        BY <1>8, <2>1, <2>4 DEF Aged, Resting
      <3>2. m.asker + NumIds \in Nat /\ peak' >= peak BY <1>0, <1>2, <1>8, <2>1
      <3> QED BY <1>0, <3>1, <3>2
    <2>5. requests + 1 \in Nat /\ requests + 1 <= requests' /\ requests' >= requests /\ peak' >= peak
      BY <1>0, <1>8, <2>1
    <2> HIDE DEF id, q
    <2> QED BY <1>8, <1>9, <2>1, <2>3, <2>4, <2>5, WaitingAges
  <1>11. ASSUME TakesAndEnds PROVE Aged'
    <2>1. Counted /\ Ends(id, q) BY <1>11 DEF TakesAndEnds
    <2>2. Alive' = Alive BY <1>0, <1>8, <2>1 DEF Alive, Ends
    <2>3. Cardinality(Alive') <= peak' BY <1>0, <1>1, <1>8, <2>1, <2>2
    <2>4. Len(q) + peak' + 1 > NumIds
      <3>1. Len(q) + 1 = NumIds - Cardinality(Alive) /\ Len(q) + 1 \in Nat
        BY <1>1, <1>8, <2>1
      <3>2. peak' >= Cardinality(Alive) + 1 BY <1>8, <2>1
      <3>3. Len(q) \in Nat BY <1>8, <2>1
      <3> QED BY <1>0, <1>1, <3>1, <3>2, <3>3
    <2>5. requests' >= requests /\ peak' >= peak BY <1>0, <1>8, <2>1
    <2>6. \A i \in Ids \ {id} : session[i] # None => session[i].born <= requests
      BY <1>3 DEF Alive
    <2> HIDE DEF id, q
    <2> QED BY <1>0, <1>8, <1>9, <2>1, <2>3, <2>4, <2>5, <2>6, EndedRests
  <1> QED BY <1>5, <1>6, <1>7, <1>10, <1>11, StepShape

(* For every number of ids, users and requests: an answer that reaches a   *)
(* session which did not ask for it comes when at least as many sessions   *)
(* were opened since its own as there were spare ids.                      *)
THEOREM StaleAnswersAge == Spec => []StaleAnswersAreOld
  <1>1. Init => Aged
    <2> SUFFICES ASSUME Init PROVE Aged OBVIOUS
    <2>1. Alive = {} /\ answers = {} /\ peak = 0 BY DEF Init, Alive
    <2>2. Cardinality(Alive) = 0 BY <2>1, FS_EmptySet
    <2> QED BY <2>1, <2>2 DEF Aged, StaleAnswersAreOld
  <1>2. IInv /\ Aged /\ [Next]_vars /\ IInv' => Aged'
    <2>1. CASE Next BY <2>1, AgedStep
    <2>2. CASE UNCHANGED vars
      BY <2>2 DEF vars, Aged, Resting, StaleAnswersAreOld, Alive
    <2> QED BY <2>1, <2>2
  <1>3. Aged => StaleAnswersAreOld BY DEF Aged
  <1> QED BY <1>1, <1>2, <1>3, Inductive, PTL DEF Spec

=============================================================================
