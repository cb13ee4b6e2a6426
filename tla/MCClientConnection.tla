------------------------- MODULE MCClientConnection -------------------------
(***************************************************************************)
(* A small instance of ClientConnection.                                   *)
(***************************************************************************)
EXTENDS ClientConnection
=============================================================================
