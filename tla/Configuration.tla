--------------------------- MODULE Configuration ---------------------------
(***************************************************************************)
(* How a migration is configured: the defaults of the dataclasses, a YAML  *)
(* document laid over them (from_dict), the flags of the command line laid *)
(* over both (build_config), the environment as the other way to fill them *)
(* (from_env), and what the clients make of the result.                    *)
(*                                                                         *)
(* The settings that are treated in a way of their own are modelled, with  *)
(* one of each kind that is simply copied: db for the numbers, url for the *)
(* optional texts, cluster for the switches.  A document, the environment  *)
(* and the flags passed are functions on the names they contain; the names *)
(* of the two sections of a document are taken together.  A label is a     *)
(* sequence of characters, because it is stripped.                         *)
(***************************************************************************)
EXTENDS Integers, Sequences, FiniteSets, SequencesExt

CONSTANTS
    None,          \* Python's None
    NotMapping,    \* a file that cannot be read, or is no YAML mapping
    MaxSetName,    \* _MAX_AEROSPIKE_SET_NAME_LEN
    UrlDb,         \* UrlDb[u]: the database that URL u names, if it is one
    Numbers        \* Numbers[t]: what int() and float() make of a text

Get(d, name, default) == IF name \in DOMAIN d THEN d[name] ELSE default

HashStrategies == {"map_bin", "field_bins"}

Node(host, port) == [host |-> host, port |-> port]

DefaultPort == 3000

\* RedisConfig(), AerospikeConfig() and MigrationConfig().
Defaults ==
    [db |-> 0, url |-> None, cluster |-> FALSE, scan_match |-> "*",
     hosts |-> <<Node("localhost", DefaultPort)>>, set_routes |-> <<>>, max_record_size |-> 8,
     hash_strategy |-> "map_bin", progress_interval |-> 10]

-----------------------------------------------------------------------------
(* Routes *)

\* str.strip().
Strip(t) ==
    LET solid == {i \in DOMAIN t : t[i] # " "}
    IN  IF solid = {} THEN <<>> ELSE SubSeq(t, Min(solid), Max(solid))

\* _validate_aerospike_set_label does not raise.
ValidLabel(t) ==
    /\ Strip(t) # <<>>
    /\ ~Contains(Strip(t), "NUL")
    /\ Len(Strip(t)) <= MaxSetName

\* One mapping of set_routes is accepted ...
ValidRoute(item) ==
    /\ {"pattern", "destination"} \subseteq DOMAIN item
    /\ ValidLabel(item.pattern) /\ ValidLabel(item.destination)
    /\ Get(item, "hash_strategy", "") \in HashStrategies \cup {""}

\* ... and becomes a route.
RouteOf(item) ==
    LET how == Get(item, "hash_strategy", "")
        bin == Strip(Get(item, "value_bin", <<>>))
    IN  [pattern |-> Strip(item.pattern), destination |-> Strip(item.destination),
         hash_strategy |-> IF how = "" THEN None ELSE how,
         value_bin |-> IF bin = <<>> THEN None ELSE bin]

\* _parse_set_routes, for a list that it accepts.
ParseSetRoutes(raw) == [i \in DOMAIN raw |-> RouteOf(raw[i])]

\* A --set-route token, split at its first three "=": pattern, set, strategy and
\* bin; the mapping that _parse_set_route_cli makes of it.
TokenItem(token) ==
    [name \in {"pattern", "destination"} \cup
              (IF "hash_strategy" \in DOMAIN token /\ token.hash_strategy # "" THEN {"hash_strategy"}
               ELSE {}) \cup (DOMAIN token \cap {"value_bin"}) |-> token[name]]

\* _parse_set_route_cli accepts it: a bin needs map_bin before it.
ValidToken(token) ==
    /\ {"pattern", "destination"} \subseteq DOMAIN token
    /\ "value_bin" \in DOMAIN token =>
           Get(token, "hash_strategy", "") = "map_bin" /\ Strip(token.value_bin) # <<>>
    /\ ValidRoute(TokenItem(token))

-----------------------------------------------------------------------------
(* A YAML document *)

\* _normalize_hosts: a list of nodes, or a host with or without a port; a port
\* alone is dropped.
NormalizeHosts(doc) ==
    IF Get(doc, "hosts", <<>>) # <<>>
    THEN [i \in DOMAIN doc.hosts |->
             Node(doc.hosts[i].host, Get(doc.hosts[i], "port", DefaultPort))]
    ELSE IF "host" \in DOMAIN doc
    THEN <<Node(doc.host, Get(doc, "port", DefaultPort))>>
    ELSE Defaults.hosts

\* key_pattern stands in for scan_match.
ScanFromDict(doc) == Get(doc, "scan_match", Get(doc, "key_pattern", Defaults.scan_match))

\* A route is no route, or a strategy is none.
DictRaises(doc) ==
    \/ Get(doc, "hash_strategy", "map_bin") \notin HashStrategies
    \/ \E i \in DOMAIN Get(doc, "set_routes", <<>>) : ~ValidRoute(doc.set_routes[i])

\* The three from_dict, for a document that they accept.  Names that are no
\* field are ignored.
FromDict(doc) ==
    [f \in DOMAIN Defaults |->
        CASE f = "hosts"      -> NormalizeHosts(doc)
          [] f = "set_routes" -> ParseSetRoutes(Get(doc, "set_routes", <<>>))
          [] f = "scan_match" -> ScanFromDict(doc)
          [] OTHER            -> Get(doc, f, Defaults[f])]

-----------------------------------------------------------------------------
(* The environment *)

TrueWords == {"1", "true", "yes", "on"}
FalseWords == {"0", "false", "no", "off"}

\* Mutant of AsBool: what is not empty is true.
AsBoolTruthy(text, default) == IF text = "" THEN default ELSE TRUE

\* _as_bool, for a text.
AsBool(text, default) ==
    IF text \in TrueWords THEN TRUE ELSE IF text \in FalseWords THEN FALSE ELSE default

Number(env, name, default) == IF name \in DOMAIN env THEN Numbers[env[name]] ELSE default

EnvRaises(env) ==
    \/ \E name \in {"db", "port", "max_record_size", "progress_interval"} \cap DOMAIN env :
           env[name] \notin DOMAIN Numbers
    \/ Get(env, "hash_strategy", "map_bin") \notin HashStrategies

\* AEROSPIKE_HOST and AEROSPIKE_PORT: always one node.
HostsFromEnv(env) ==
    <<Node(Get(env, "host", Defaults.hosts[1].host), Number(env, "port", DefaultPort))>>

\* The three from_env, for an environment that they accept: REDIS_DB is db,
\* REDIS_SCAN_MATCH is scan_match, and so on.
FromEnv(env) ==
    [db |-> Number(env, "db", Defaults.db),
     url |-> IF Get(env, "url", "") = "" THEN None ELSE env.url,
     cluster |-> AsBool(Get(env, "cluster", ""), Defaults.cluster),
     scan_match |-> Get(env, "scan_match", Defaults.scan_match),
     hosts |-> HostsFromEnv(env),
     set_routes |-> <<>>,
     max_record_size |-> Number(env, "max_record_size", Defaults.max_record_size),
     hash_strategy |-> Get(env, "hash_strategy", Defaults.hash_strategy),
     progress_interval |-> Number(env, "progress_interval", Defaults.progress_interval)]

-----------------------------------------------------------------------------
(* The command line *)

\* _ARG_MAP: the flags that set one field.
ArgMap ==
    [redis_db |-> "db", redis_url |-> "url", redis_cluster |-> "cluster",
     redis_match |-> "scan_match", hash_strategy |-> "hash_strategy",
     progress_interval |-> "progress_interval"]

\* argparse ends the process: a token or a choice is not accepted.
UsageError(args) ==
    \/ \E i \in DOMAIN Get(args, "set_route", <<>>) : ~ValidToken(args.set_route[i])
    \/ Get(args, "hash_strategy", "map_bin") \notin HashStrategies

BuildRaises(args, yaml) == yaml = NotMapping \/ (yaml # None /\ DictRaises(yaml))

\* --aerospike-host and --aerospike-port rebuild the list of nodes, of which
\* the first gives the missing half.
HostsFromFlags(args, hosts) ==
    IF DOMAIN args \cap {"aerospike_host", "aerospike_port"} = {} THEN hosts
    ELSE <<Node(Get(args, "aerospike_host", hosts[1].host),
                Get(args, "aerospike_port", hosts[1].port))>>

\* Mutant of ScanFromFlags: the alias is applied last, whatever else was passed.
ScanFromFlagsAliasLast(args, match) ==
    Get(args, "redis_key_pattern", Get(args, "redis_match", match))

\* --redis-key-pattern stands in for --redis-match.
ScanFromFlags(args, match) ==
    Get(args, "redis_match", Get(args, "redis_key_pattern", match))

\* Mutant of RoutesFromFlags: --set-route is ignored.
RoutesFromFlagsIgnored(args, routes) == routes

\* The routes of --set-route come after the ones of the file.
RoutesFromFlags(args, routes) ==
    routes \o [i \in DOMAIN Get(args, "set_route", <<>>) |-> RouteOf(TokenItem(args.set_route[i]))]

\* build_config, for a file that it accepts.
BuildConfig(args, yaml) ==
    LET base == IF yaml = None THEN Defaults ELSE FromDict(yaml)
        flagged(f) == {a \in DOMAIN ArgMap \cap DOMAIN args : ArgMap[a] = f}
    IN  [f \in DOMAIN base |->
            CASE f = "hosts"      -> HostsFromFlags(args, base.hosts)
              [] f = "set_routes" -> RoutesFromFlags(args, base.set_routes)
              [] f = "scan_match" -> ScanFromFlags(args, base.scan_match)
              [] OTHER            -> IF flagged(f) = {} THEN base[f] ELSE args[CHOOSE a \in flagged(f) : TRUE]]

-----------------------------------------------------------------------------
(* The clients *)

\* redis_client_params and RedisSource.__init__: the database that the client
\* reads.  A URL supersedes the other settings, and a cluster has one database.
ClientDb(config) ==
    IF config.url \notin {None, ""} THEN UrlDb[config.url]
    ELSE IF config.cluster THEN 0 ELSE config.db

\* from_url raises: the text is no URL of a Redis.
Malformed(config) == config.url \notin DOMAIN UrlDb \cup {None, ""}

\* RedisCluster connects when it is made, and takes no other database than 0.
ClientMayRaise(config) == Malformed(config) \/ config.cluster
ClientMustRaise(config) == Malformed(config) \/ (config.cluster /\ ClientDb(config) # 0)

\* No number: it was not told, or could not be read.
Unknown == -1

\* RedisSource.server_info: expires of database config.db, over all the nodes;
\* INFO keyspace has no line for an empty database, and a cluster none but db0.
KeyspaceExpires(config, expires) ==
    IF config.cluster /\ config.db # 0 THEN Unknown ELSE expires[config.db]

\* as_int: the first of the names that the response has; a number that cannot be
\* read is Unknown there.
AsInt(response, names) ==
    LET at == SelectInSeq(names, LAMBDA n : n \in DOMAIN response)
    IN  IF at = 0 THEN Unknown ELSE response[names[at]]

\* AerospikeServerInfo.parse of the first response that is not empty, which may
\* be the text of an error, without names.
ServerInfoOf(responses) ==
    LET at == SelectInSeq(responses, LAMBDA r : r # None)
        text == IF at = 0 THEN [n \in {} |-> 0] ELSE responses[at]
    IN  [known |-> TRUE, nsup |-> AsInt(text, <<"nsup-period">>),
         max |-> AsInt(text, <<"max-record-size", "write-block-size">>)]
=============================================================================
