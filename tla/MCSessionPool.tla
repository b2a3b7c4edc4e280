---------------------------- MODULE MCSessionPool ----------------------------
(* Small instances of SessionPool. *)
EXTENDS SessionPool

CONSTANTS enter, login, other, u1

AllCmds    == {enter, login, other}
OneUser    == {u1}
EnterLocks == {enter}
LoginLocks == {login}

=============================================================================
