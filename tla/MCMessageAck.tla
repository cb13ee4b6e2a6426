---------------------------- MODULE MCMessageAck ----------------------------
(***************************************************************************)
(* Instances of MessageAck for TLC: client a publishes, b and c receive;   *)
(* b publishes too.                                                        *)
(***************************************************************************)
EXTENDS MessageAck

CONSTANTS a, b, c, m, n

(* One message of any kind.                                                *)
OneMessage == {m} \X Kinds \X {a}
(* A second one, of another client, beside it: a sweep finds two expired     *)
(* entries, and b is both a target and a publisher.                         *)
TwoMessages == OneMessage \cup {<<n, "group", b>>}
=============================================================================
