----------------------------- MODULE MCSession -----------------------------
(***************************************************************************)
(* Small instances of Session.                                             *)
(***************************************************************************)
EXTENDS Session, TLC

CONSTANTS a,     \* a client id
          p, q   \* connections

(* Client a connects twice. *)
Two == (p :> a) @@ (q :> a)
=============================================================================
