----------------------------- MODULE ProcessLock -----------------------------
(***************************************************************************)
(* What SessionManager::LockProcess promises to the handlers that call it: *)
(* for one command of one user at most one request is in the middle of     *)
(* its work, a request that finds another at work does not wait for it,    *)
(* and every request ends.  Nothing is said here of sessions, ids, the     *)
(* lock table, answers or timers; SessionPool implements this module.      *)
(***************************************************************************)
CONSTANTS Keys,      \* the pairs of a command and a user
          Tickets    \* the requests

VARIABLE working     \* the requests at work under each lock

Init == working = [k \in Keys |-> {}]

(* LockProcess lets a request in where nobody is at work. *)
Acquire(k) ==
  /\ working[k] = {}
  /\ \E t \in Tickets : working' = [working EXCEPT ![k] = {t}]

(* The request ends, by its own doing or by its timer. *)
Release(k) ==
  /\ working[k] # {}
  /\ working' = [working EXCEPT ![k] = {}]

Next == \E k \in Keys : Acquire(k) \/ Release(k)

Spec == Init /\ [][Next]_working

(* The timers of the sessions end every request at last. *)
FairSpec == Spec /\ \A k \in Keys : WF_working(Release(k))

=============================================================================
