---------------------------- MODULE ConfigLoader ----------------------------
(***************************************************************************)
(* The configuration a broker process starts with: the loader of           *)
(* crates/rex-config (defaults, then the TOML file, then REX__ environment *)
(* variables, then command-line flags, then validation) and the choice of  *)
(* an endpoint in start_server of crates/rex-cli.                          *)
(*                                                                         *)
(* A configuration is a flat record: `check_interval` stands for           *)
(* [server].check_interval, `offline_ttl` for [persistence.offline]        *)
(* .ttl_secs, and so on.  Strings are modelled by what the loader tells    *)
(* apart: server_id and node_id by their length (node_id also by whether   *)
(* it holds a blank), persistence_path by its length, admin_addr by its    *)
(* port.  The textual warnings are left out.                               *)
(***************************************************************************)
EXTENDS Integers, Sequences, FiniteSets, TLC

Unset == "Unset"   \* an optional path or address that is not set

MiB == 1024 * 1024
Day == 86400

Endpoint(protocol) ==
  [protocol |-> protocol, enabled |-> TRUE,
   max_buffer_size |-> 8 * MiB, max_concurrent_handlers |-> 1000]

(* What #[serde(default)] supplies for the keys a TOML file leaves out.    *)
(* [server].server_id and [[endpoints]] have no default.                   *)
SerdeDefaults ==
  [shutdown_grace |-> 10, check_interval |-> 15, client_timeout |-> 45,
   cluster_enabled |-> FALSE, cluster_addr |-> Unset,
   node_id |-> 4, node_id_blank |-> FALSE, seed_nodes |-> 0,
   persistence_enabled |-> TRUE, persistence_path |-> 11,
   offline_enabled |-> TRUE, offline_ttl |-> 7 * Day, ghost_ttl |-> Day,
   ack_enabled |-> FALSE, ack_timeout |-> 5000, ack_retries |-> 3,
   admin_addr |-> 9090]

(* RexConfig::default(): as above, but the cluster address is set. *)
DefaultConfig ==
  [SerdeDefaults EXCEPT !.cluster_addr = "0.0.0.0:19882"]
    @@ [server_id |-> 10,
        endpoints |-> <<Endpoint("tcp"), Endpoint("quic"), Endpoint("websocket")>>]

(***************************************************************************)
(* Where the values come from: `explicit` (--config) and `rex_config`      *)
(* (REX_CONFIG) are paths or Unset; `files` maps the paths that exist to   *)
(* the keys they set; `env` maps the keys set in the environment to what   *)
(* their text parses to, {v} or {} when it does not parse; `cli` maps the  *)
(* flags that were given to their values, --cluster-addr and --seeds       *)
(* parsed in the same way.  A step that can fail returns the set of its    *)
(* results, empty when it fails.                                           *)
(***************************************************************************)
DEFAULT_TOML_PATHS == <<"./rex.toml", "./config/rex.toml", "/etc/rex/rex.toml">>

FirstDefaultPath(files) ==
  LET found == {i \in DOMAIN DEFAULT_TOML_PATHS : DEFAULT_TOML_PATHS[i] \in DOMAIN files}
  IN  IF found = {} THEN Unset
      ELSE DEFAULT_TOML_PATHS[CHOOSE i \in found : \A j \in found : i <= j]

(* A path that was named must exist; Unset means that no file is read. *)
ResolvePath(src) ==
  LET named == IF src.explicit # Unset THEN src.explicit ELSE src.rex_config
  IN  IF named = Unset THEN {FirstDefaultPath(src.files)}
      ELSE {named} \cap DOMAIN src.files

(* toml::from_str with deny_unknown_fields. *)
ParseToml(file) ==
  {f @@ SerdeDefaults : f \in {g \in {file} :
      /\ {"server_id", "endpoints"} \subseteq DOMAIN g
      /\ DOMAIN g \subseteq DOMAIN DefaultConfig}}

(***************************************************************************)
(* REX__SECTION__KEY.  The name is split at each "__" and only its first   *)
(* two parts are used, so no name a shell can set reaches the keys of      *)
(* [persistence.offline]; endpoints and server-wide lists have no name     *)
(* either.  A value that does not parse is reported and skipped.           *)
(***************************************************************************)
EnvKeys ==
  DOMAIN DefaultConfig
    \ {"endpoints", "node_id_blank", "offline_enabled", "offline_ttl", "ghost_ttl"}

ApplyEnv(cfg, env) ==
  LET given == {k \in DOMAIN env \cap EnvKeys : env[k] # {}}
  IN  [k \in given |-> CHOOSE v \in env[k] : TRUE] @@ cfg

(***************************************************************************)
(* Command-line flags.  --cluster-addr counts only together with           *)
(* --cluster, and one that does not parse is skipped; --seeds replaces the *)
(* list, by nothing when none of its entries parse.                        *)
(***************************************************************************)
ApplyCli(cfg, cli) ==
  LET Flag(f, default) == IF f \in DOMAIN cli THEN cli[f] ELSE default
      on      == Flag("cluster", FALSE)
      default == IF cfg.cluster_addr = Unset THEN "0.0.0.0:19882" ELSE cfg.cluster_addr
      addr    == IF "cluster_addr" \notin DOMAIN cli THEN default
                 ELSE IF cli.cluster_addr = {} THEN cfg.cluster_addr
                 ELSE CHOOSE v \in cli.cluster_addr : TRUE
  IN  [cfg EXCEPT !.server_id           = Flag("server_id", @),
                  !.persistence_enabled = Flag("persist", @),
                  !.cluster_enabled     = on \/ @,
                  !.cluster_addr        = IF on THEN addr ELSE @,
                  !.seed_nodes          = Flag("seeds", @)]

ValidServer(cfg) ==
  /\ cfg.server_id \in 1..64
  /\ cfg.shutdown_grace <= 600
  /\ cfg.check_interval \in 1..3600
  /\ cfg.client_timeout \in 1..Day
  /\ cfg.check_interval <= cfg.client_timeout

(* Mutant of ValidEndpoints: no lower bound on the handlers. *)
BugNoLowerBound(cfg) ==
  /\ \E i \in DOMAIN cfg.endpoints : cfg.endpoints[i].enabled
  /\ \A i \in DOMAIN cfg.endpoints :
        LET ep == cfg.endpoints[i] IN
        /\ 1024 <= ep.max_buffer_size /\ ep.max_buffer_size <= 64 * MiB
        /\ 0 <= ep.max_concurrent_handlers /\ ep.max_concurrent_handlers <= 65535

(* Every endpoint is checked, an enabled one must exist. *)
ValidEndpoints(cfg) ==
  /\ \E i \in DOMAIN cfg.endpoints : cfg.endpoints[i].enabled
  /\ \A i \in DOMAIN cfg.endpoints :
        LET ep == cfg.endpoints[i] IN
        /\ 1024 <= ep.max_buffer_size /\ ep.max_buffer_size <= 64 * MiB
        /\ 1 <= ep.max_concurrent_handlers /\ ep.max_concurrent_handlers <= 65535

ValidCluster(cfg) ==
  /\ cfg.cluster_enabled => cfg.cluster_addr # Unset
  /\ cfg.seed_nodes <= 64
  /\ cfg.node_id <= 64 /\ ~cfg.node_id_blank

ValidPersistence(cfg) ==
  /\ cfg.persistence_path # 0
  /\ cfg.offline_ttl \in 60..(30 * Day)
  /\ cfg.ghost_ttl \in 60..(30 * Day)

ValidAck(cfg) == cfg.ack_timeout \in 10..60000 /\ cfg.ack_retries <= 16

ValidObservability(cfg) == cfg.admin_addr # 0

ValidCrossSection(cfg) == cfg.offline_enabled => cfg.persistence_enabled

Validate(cfg) ==
  /\ ValidServer(cfg)
  /\ ValidEndpoints(cfg)
  /\ ValidCluster(cfg)
  /\ ValidPersistence(cfg)
  /\ ValidAck(cfg)
  /\ ValidObservability(cfg)
  /\ ValidCrossSection(cfg)

(* Loader::load: the set holding the configuration, empty on an error. *)
Load(src) ==
  LET base == UNION {IF path = Unset THEN {DefaultConfig} ELSE ParseToml(src.files[path])
                       : path \in ResolvePath(src)}
  IN  {cfg \in {ApplyCli(ApplyEnv(b, src.env), src.cli) : b \in base} : Validate(cfg)}

(* start_server opens the first endpoint of the list, enabled or not. *)
ServerEndpoint(cfg) == Head(cfg.endpoints)
=============================================================================
