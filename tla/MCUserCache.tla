----------------------------- MODULE MCUserCache -----------------------------
(* Small instances of UserCache. *)
EXTENDS UserCache

CONSTANTS info, table

TwoKeys == {info, table}

=============================================================================
