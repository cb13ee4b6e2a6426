-------------------------- MODULE MCClientRegistry --------------------------
(***************************************************************************)
(* Instances of ClientRegistry for TLC.  Client objects 1 and 3 log in with *)
(* id 1 (a client that comes back on a second connection), object 2 with   *)
(* id 2.                                                                   *)
(***************************************************************************)
EXTENDS ClientRegistry, TLC

ThreeClients == (1 :> 1) @@ (2 :> 2) @@ (3 :> 1)
TwoClients == (1 :> 1) @@ (2 :> 2)

(* Two tasks work for id 1 (a connection's task, and a cast that failed or *)
(* the Janitor), one of them also for id 2.                                *)
MixedServes == (1 :> {1, 2}) @@ (2 :> {1})
(* Every task works for its own id.                                        *)
OwnServes == (1 :> {1}) @@ (2 :> {2})

SingleTitles == {{"a"}, {"b"}}
=============================================================================
