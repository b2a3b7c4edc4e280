----------------------------- MODULE SessionPool -----------------------------
(***************************************************************************)
(* The sessions of one server process: how SessionManager hands out and    *)
(* takes back session ids and process locks, and how NewProcessor carries  *)
(* a request through the answers it has to wait for.                       *)
(*                                                                         *)
(* A server is one thread.  It takes a packet, runs the handler of the     *)
(* command until the handler returns, and takes the next packet.  What a   *)
(* handler decides is left open: it may be done, ask for the data of some  *)
(* users, save the data of some users, or send another request and wait.   *)
(* What it cannot choose is what the framework does with the decision, and *)
(* that is what is modelled.  An answer may take any time and may never    *)
(* come, may report an error, and may come when the session that asked is  *)
(* gone or when its id already belongs to another session.                 *)
(***************************************************************************)
EXTENDS Naturals, Sequences, FiniteSets

CONSTANTS
  NumIds,        \* MAX_SESSION_ID - 1, the number of session ids
  Users,         \* user ids
  Cmds,          \* commands of the requests
  EarlyLock,     \* commands whose handler takes the lock in ProcessRequestMsg
  LateLock,      \* commands whose handler takes it on the answer to a request
  None,          \* no session, no holder
  MaxRequests    \* bound: requests the process takes in one behaviour

ASSUME PoolAssumption ==
  /\ NumIds \in Nat \ {0}
  /\ MaxRequests \in Nat
  /\ EarlyLock \subseteq Cmds
  /\ LateLock \subseteq Cmds
  /\ EarlyLock \cap LateLock = {}
  /\ None \notin Nat
  /\ None \notin [ cmd : Cmds, uid : Users,
                   wait : {"Plain", "Get", "Update"}, pending : SUBSET Users,
                   locked : BOOLEAN, timer : BOOLEAN, born : Nat ]

Ids  == 1 .. NumIds
Keys == Cmds \X Users

(* What a live session waits for.  "Plain" is EN_Session_Idle, the answer   *)
(* to a request the handler sent itself; the other two are Wait_Get_Data    *)
(* and Wait_Update_Data.                                                    *)
Waits == {"Plain", "Get", "Update"}

(* A session between two packets.  pending is the key set of _get_data_map  *)
(* or of _update_data_map, locked is need_unlock, timer says that _timer    *)
(* runs, and born numbers the sessions in the order they were allocated.    *)
Session == [ cmd : Cmds, uid : Users, wait : Waits, pending : SUBSET Users,
             locked : BOOLEAN, timer : BOOLEAN, born : Nat ]

(* An answer on its way.  It carries the session id of the request (to);    *)
(* asker is the number of the session that sent the request, which the      *)
(* packet does not carry.                                                   *)
Answer == [ to : Ids, asker : Nat, kind : Waits, uid : Users ]

VARIABLES
  free,       \* _free_id_queue
  session,    \* _alloc_id_map
  locks,      \* msg_map, the session id that holds the lock of each key
  answers,    \* answers on their way
  requests,   \* number of requests taken so far
  peak        \* the largest number of sessions that were alive together

vars == << free, session, locks, answers, requests, peak >>

Alive == { id \in Ids : session[id] # None }
Key(s) == << s.cmd, s.uid >>

TypeOK ==
  /\ free \in Seq(Ids)
  /\ session \in [Ids -> Session \cup {None}]
  /\ locks \in [Keys -> Ids \cup {None}]
  /\ answers \subseteq Answer
  /\ requests \in 0 .. MaxRequests
  /\ peak \in Nat

(* Mutant of Init: the loop that fills _free_id_queue starts at 0. *)
M_InitFromZero ==
  /\ free = [ i \in Ids |-> i - 1 ]
  /\ session = [ id \in Ids |-> None ]
  /\ locks = [ k \in Keys |-> None ]
  /\ answers = {}
  /\ requests = 0
  /\ peak = 0

Init ==
  /\ free = [ i \in Ids |-> i ]
  /\ session = [ id \in Ids |-> None ]
  /\ locks = [ k \in Keys |-> None ]
  /\ answers = {}
  /\ requests = 0
  /\ peak = 0

-----------------------------------------------------------------------------
(* Mutant of Returned: the ids are a stack, so that a warm id is used first. *)
M_ReturnedFirst(queue, id) == << id >> \o queue

(* ReleaseSession: the id goes to the back of the queue. *)
Returned(queue, id) == Append(queue, id)

(* Mutant of Unlocked: neither need_unlock nor the owner of the entry is     *)
(* looked at.                                                                *)
M_UnlockedUnchecked(lks, id, s) == [lks EXCEPT ![Key(s)] = None]

(* UnlockProcess: only a session that took the lock gives it back, and only *)
(* if the entry is still its own.                                           *)
Unlocked(lks, id, s) ==
  IF s.locked /\ lks[Key(s)] = id THEN [lks EXCEPT ![Key(s)] = None] ELSE lks

(* EndProcess and ReleaseSession: queue, lks and sent are the ids, locks    *)
(* and answers at that point of the step.                                   *)
End(id, s, queue, lks, sent) ==
  /\ free' = Returned(queue, id)
  /\ session' = [session EXCEPT ![id] = None]
  /\ locks' = Unlocked(lks, id, s)
  /\ answers' = sent

(* Mutant of Armed: no timer, as in the requests the gm server sends. *)
M_NotArmed(s) == s

(* SendRequestMsg and SendRequestToUser arm the timer of the session. *)
Armed(s) == [s EXCEPT !.timer = TRUE]

(* OnGetData and OnUpdateData: one request for each user, then wait for all. *)
AskUsers(id, s, kind, us, queue, lks, sent) ==
  /\ free' = queue
  /\ session' = [session EXCEPT ![id] =
                   [Armed(s) EXCEPT !.wait = kind, !.pending = us]]
  /\ locks' = lks
  /\ answers' = sent \cup [ to : {id}, asker : {s.born}, kind : {kind}, uid : us ]

(* The handler sends a request of its own and returns EN_Handler_Succ. *)
AskPlain(id, s, queue, lks, sent) ==
  /\ free' = queue
  /\ session' = [session EXCEPT ![id] =
                   [Armed(s) EXCEPT !.wait = "Plain", !.pending = {}]]
  /\ locks' = lks
  /\ answers' = sent \cup
       {[ to |-> id, asker |-> s.born, kind |-> "Plain", uid |-> s.uid ]}

(* The loop of NewProcessor::Process over what the handler returned. *)
Continue(id, s, queue, lks, sent) ==
  \/ End(id, s, queue, lks, sent)
  \/ AskPlain(id, s, queue, lks, sent)
  \/ \E kind \in {"Get", "Update"}, us \in SUBSET Users \ {{}} :
       AskUsers(id, s, kind, us, queue, lks, sent)

(* A handler that begins with LockProcess: refused while another session    *)
(* of the same command and user holds the lock.                             *)
LockAndContinue(id, s, queue, sent) ==
  IF locks[Key(s)] # None
  THEN End(id, s, queue, locks, sent)
  ELSE Continue(id, [s EXCEPT !.locked = TRUE], queue,
                [locks EXCEPT ![Key(s)] = id], sent)

-----------------------------------------------------------------------------
(* AllocSession: the id that has been free for longest.  Without a free id  *)
(* the packet is ignored.                                                   *)
NewId    == Head(free)
IdsLeft  == Tail(free)

NewSession(c, u) ==
  [ cmd |-> c, uid |-> u, wait |-> "Plain", pending |-> {},
    locked |-> FALSE, timer |-> FALSE, born |-> requests + 1 ]

(* ProcessPacket of a request, or OnProcessInnerMessage: a session is       *)
(* allocated and the handler of the command runs.                           *)
Request(c, u) ==
  /\ requests < MaxRequests
  /\ free # << >>
  /\ requests' = requests + 1
  /\ peak' = IF Cardinality(Alive) + 1 > peak THEN Cardinality(Alive) + 1 ELSE peak
  /\ IF c \in EarlyLock
     THEN LockAndContinue(NewId, NewSession(c, u), IdsLeft, answers)
     ELSE Continue(NewId, NewSession(c, u), IdsLeft, locks, answers)

(* ProcessPacket of an answer whose session is gone. *)
AnswerNobody(m) ==
  /\ session[m.to] = None
  /\ answers' = answers \ {m}
  /\ UNCHANGED << free, session, locks, requests, peak >>

(* ProcessResponseMsg: a session that waits for the answer to a request of  *)
(* its own takes any answer for it.                                         *)
AnswerPlain(m) ==
  LET s == session[m.to] IN
  /\ s # None
  /\ s.wait = "Plain"
  /\ IF s.cmd \in LateLock /\ ~ s.locked
     THEN LockAndContinue(m.to, s, free, answers \ {m})
     ELSE Continue(m.to, s, free, locks, answers \ {m})
  /\ UNCHANGED << requests, peak >>

(* OnGetResponse and OnUpdateResponse with an answer of the wrong kind or   *)
(* one that reports an error: every ProcessGetFailed and                    *)
(* ProcessUpdateFailed returns EN_Handler_Done.                             *)
AnswerFailed(m) ==
  LET s == session[m.to] IN
  /\ s # None
  /\ s.wait # "Plain"
  /\ End(m.to, s, free, locks, answers \ {m})
  /\ UNCHANGED << requests, peak >>

(* OnGetResponse and OnUpdateResponse with the data of a user: the handler  *)
(* goes on when no user is left to wait for.                                *)
AnswerUser(m) ==
  LET s    == session[m.to]
      left == s.pending \ {m.uid}
  IN
  /\ s # None
  /\ s.wait # "Plain"
  /\ s.wait = m.kind
  /\ IF left = {}
     THEN Continue(m.to, [s EXCEPT !.wait = "Plain", !.pending = {}],
                   free, locks, answers \ {m})
     ELSE /\ session' = [session EXCEPT ![m.to].pending = left]
          /\ answers' = answers \ {m}
          /\ UNCHANGED << free, locks >>
  /\ UNCHANGED << requests, peak >>

(* Mutant of Timeout: the session is released by the timer and again by     *)
(* EndProcess.                                                              *)
M_TimeoutReleasesTwice(id) ==
  LET s == session[id] IN
  /\ s # None
  /\ s.timer
  /\ End(id, s, Append(free, id), locks, answers)
  /\ UNCHANGED << requests, peak >>

(* Mutant of Timeout: the timer frees the session without UnlockProcess. *)
M_TimeoutKeepsLock(id) ==
  LET s == session[id] IN
  /\ s # None
  /\ s.timer
  /\ free' = Returned(free, id)
  /\ session' = [session EXCEPT ![id] = None]
  /\ UNCHANGED << locks, answers, requests, peak >>

(* CSession::ProcessOnTimerOut. *)
Timeout(id) ==
  LET s == session[id] IN
  /\ s # None
  /\ s.timer
  /\ End(id, s, free, locks, answers)
  /\ UNCHANGED << requests, peak >>

Deliver(m) ==
  AnswerNobody(m) \/ AnswerPlain(m) \/ AnswerFailed(m) \/ AnswerUser(m)

Next ==
  \/ \E c \in Cmds, u \in Users : Request(c, u)
  \/ \E m \in answers : Deliver(m)
  \/ \E id \in Ids : Timeout(id)

Spec == Init /\ [][Next]_vars

(* The reactor runs every timer that is due.  Nothing is assumed of the     *)
(* requests and of the answers: they may never come.                        *)
FairSpec == Spec /\ \A id \in Ids : WF_vars(Timeout(id))

-----------------------------------------------------------------------------
(* A session id is either free, once, or the id of a live session:          *)
(* AllocSession never hands out an id in use and no id is lost, whichever   *)
(* of the answer, the failure and the timer ends the session.               *)
IdsPartitioned ==
  /\ \A i, j \in DOMAIN free : i # j => free[i] # free[j]
  /\ { free[i] : i \in DOMAIN free } = Ids \ Alive

(* Every lock belongs to a live session that will give it back, and every   *)
(* session that will give a lock back owns it: no lock outlives its session *)
(* through failures, timeouts and the reuse of ids (LockProcess,            *)
(* UnlockProcess).                                                          *)
LocksMatch ==
  /\ \A k \in Keys : locks[k] # None =>
       /\ session[locks[k]] # None
       /\ session[locks[k]].locked
       /\ Key(session[locks[k]]) = k
  /\ \A id \in Alive : session[id].locked => locks[Key(session[id])] = id

(* Between two packets at most one session works on a command that takes    *)
(* the lock first, for one user: what the callers of LockProcess rely on    *)
(* (creating and entering a table).                                         *)
OneAtATime ==
  \A i, j \in Alive :
    /\ session[i].cmd \in EarlyLock
    /\ Key(session[i]) = Key(session[j])
    => i = j

(* If an answer can still reach a session that did not ask for it, at least *)
(* as many sessions as there are spare ids came between the two: the queue  *)
(* of free ids makes an id rest as long as possible.  It is all that keeps  *)
(* a late answer from being taken for another.                              *)
StaleAnswersAreOld ==
  \A m \in answers :
    m.to \in Alive /\ session[m.to].born # m.asker =>
      session[m.to].born + peak > m.asker + NumIds

(* The promise of LockProcess, with the requests as its tickets.  Who works *)
(* under a lock is read off the sessions, not off the lock table, so that   *)
(* the table is what has to keep the promise.                               *)
Working == [ k \in Keys |->
  { session[id].born : id \in { i \in Alive : session[i].locked /\ Key(session[i]) = k } } ]

Lock == INSTANCE ProcessLock
          WITH Tickets <- 1 .. MaxRequests, working <- Working

(* A request gets past LockProcess only when no other is at work, and      *)
(* keeps the others out until it ends.                                     *)
LockSafety == Lock!Spec

(* And with the timers every request that got past it ends. *)
LockLiveness == Lock!FairSpec

=============================================================================
