--------------------------- MODULE MCOfflineStore ---------------------------
(***************************************************************************)
(* A small instance of OfflineStore: w queues, a login and the Janitor     *)
(* clear.                                                                  *)
(***************************************************************************)
EXTENDS OfflineStore, TLC

CONSTANTS w, login, janitor

Queuers == {w}
Cleaners == {login, janitor}
EqualCleaners == Permutations(Cleaners)
=============================================================================
