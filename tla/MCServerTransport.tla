------------------------- MODULE MCServerTransport -------------------------
(***************************************************************************)
(* Small instances of ServerTransport.                                     *)
(***************************************************************************)
EXTENDS ServerTransport

CONSTANTS c1, c2   \* connections

OneHandler(protocol) ==
  [protocol |-> protocol, enabled |-> TRUE,
   max_buffer_size |-> 1024, max_concurrent_handlers |-> 1]

File(endpoints) == [server_id |-> 3, endpoints |-> endpoints]

Source(files) ==
  [explicit |-> Unset, rex_config |-> Unset, files |-> files, env |-> <<>>, cli |-> <<>>]

(* One file per protocol, found at a default path, by REX_CONFIG and by    *)
(* --config; the flags of the last two are a cluster without an address    *)
(* that parses, and seeds.                                                 *)
Good ==
  {Source("./config/rex.toml" :> File(<<OneHandler("tcp")>>)),
   [Source("w" :> File(<<OneHandler("websocket")>>)) EXCEPT
      !.rex_config = "w", !.env = [ack_timeout |-> {}, offline_ttl |-> {1}],
      !.cli = [cluster |-> TRUE]],
   [Source(("q" :> File(<<OneHandler("quic")>>)) @@ ("./rex.toml" :> [server_id |-> 1])) EXCEPT
      !.explicit = "q", !.rex_config = "w",
      !.env = [client_timeout |-> {20}, admin_addr |-> {80}],
      !.cli = [persist |-> TRUE, cluster_addr |-> {}, seeds |-> 2, server_id |-> 5]]}

(* Sources the loader refuses: a file without endpoints, a missing file,   *)
(* --persist false over the defaults, no handler at all, and a cluster     *)
(* whose address does not parse.                                           *)
Bad ==
  {Source("./rex.toml" :> [server_id |-> 3]),
   [Source(<<>>) EXCEPT !.explicit = "q"],
   [Source(<<>>) EXCEPT !.cli = [persist |-> FALSE]],
   [Source("./rex.toml" :> File(<<[OneHandler("tcp") EXCEPT !.max_concurrent_handlers = 0]>>))
      EXCEPT !.env = [check_interval |-> {15}]],
   [Source("./rex.toml" :> File(<<OneHandler("tcp")>>))
      EXCEPT !.cli = [cluster |-> TRUE, cluster_addr |-> {}]]}

(* The first connection carries frames, the other competes for the permit. *)
TwoFrames == (c1 :> 2) @@ (c2 :> 0)

AllSources == Good \cup Bad

TcpSource == {Source("./rex.toml" :> File(<<OneHandler("tcp")>>))}
=============================================================================
