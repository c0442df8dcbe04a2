---------------------------- MODULE CommandLine ----------------------------
(***************************************************************************)
(* main() of cli.py, from the arguments to the exit code, with the         *)
(* heartbeat thread of progress.py that runs beside the migration.  The    *)
(* migration itself is the abstract one of module Migration, which the     *)
(* threads of MigrationPipeline implement; how the configuration is made   *)
(* is in module Configuration.                                             *)
(*                                                                         *)
(* The texts of completion, preview and report are left out.               *)
(***************************************************************************)
EXTENDS Configuration

CONSTANTS
    Starts,          \* [args, yaml, env, expires, responses]: see the variables
    NumRecords,      \* occurrences the source would yield
    InfoMayFail,     \* whether the INFO commands of the servers may fail
    MaxBeats         \* bound of the model: lines the heartbeat logs

\* The settings that from_env reads from the environment.
EnvNames == {"db", "url", "cluster", "scan_match", "host", "port", "max_record_size",
             "hash_strategy", "progress_interval"}

\* d without one of its names.
Without(d, name) == [n \in DOMAIN d \ {name} |-> d[n]]

\* A list.
IsList(l) == Len(l) \in Nat /\ DOMAIN l = 1 .. Len(l)

\* The environment has the names that from_env reads; the answers of the nodes are
\* a list; None is no mapping.
ASSUME CommandLineAssumption ==
    /\ \A s \in Starts :
           /\ DOMAIN s.env \subseteq EnvNames
           /\ IsList(s.responses)
           /\ s.yaml \notin {None, NotMapping} =>
                  \A name \in DOMAIN s.yaml : Without(s.yaml, name) # None
    /\ NumRecords \in Nat
    /\ InfoMayFail \in BOOLEAN
    /\ MaxBeats \in Nat

VARIABLES
    \* what main finds when it starts
    args, yaml, env,       \* the flags passed, the --config file, the environment
    expires,               \* expires[d]: the keys of database d with a TTL
    responses,             \* what the Aerospike nodes answer to info, in order
    \* main
    pc, exit,              \* where main is, and its exit code
    config,                \* config, None before it is built
    sourceOpen, sinkOpen,  \* the clients were created and not closed
    pinged,                \* Redis answered the ping
    redisExpires,          \* redis_info.get("expires"), Unknown if there is none
    aeroInfo,              \* aerospike_info, see NoInfo
    \* Migrator.run
    status, result,        \* the migration, see module Migration
    \* ProgressReporter
    stopSet, hpc,          \* the event _stop; where the thread is
    shown, beats           \* the counters it read last; lines logged

setting == <<args, yaml, env, expires, responses>>
clients == <<sourceOpen, sinkOpen, pinged>>
info == <<redisExpires, aeroInfo>>
mainVars == <<pc, exit, config, clients, info>>
migration == <<status, result>>
heartbeat == <<stopSet, hpc, shown, beats>>
vars == <<setting, mainVars, migration, heartbeat>>

Run == INSTANCE Migration

\* aerospike_info is None.
NoInfo == [known |-> FALSE, nsup |-> Unknown, max |-> Unknown]

Init ==
    /\ \E s \in Starts :
           /\ args = s.args /\ yaml = s.yaml /\ env = s.env
           /\ expires = s.expires /\ responses = s.responses
    /\ pc = "parse"
    /\ exit = Unknown
    /\ config = None
    /\ sourceOpen = FALSE
    /\ sinkOpen = FALSE
    /\ pinged = FALSE
    /\ redisExpires = Unknown
    /\ aeroInfo = NoInfo
    /\ Run!Init
    /\ stopSet = FALSE
    /\ hpc = "off"
    /\ shown = [scanned |-> 0, settled |-> 0]
    /\ beats = 0

-----------------------------------------------------------------------------
(* main *)

Exit(code) ==
    /\ pc' = "exit"
    /\ exit' = code

\* parse_args reports an error and leaves.
BadUsage ==
    /\ pc = "parse"
    /\ UsageError(args)
    /\ Exit(2)
    /\ UNCHANGED <<setting, config, clients, info, migration, heartbeat>>

\* --print-completion: that is all.
PrintCompletion ==
    /\ pc = "parse"
    /\ ~UsageError(args)
    /\ "print_completion" \in DOMAIN args
    /\ Exit(0)
    /\ UNCHANGED <<setting, config, clients, info, migration, heartbeat>>

Configure ==
    /\ pc = "parse"
    /\ ~UsageError(args)
    /\ "print_completion" \notin DOMAIN args
    /\ IF BuildRaises(args, yaml)
       THEN Exit(1) /\ UNCHANGED config
       ELSE config' = BuildConfig(args, yaml) /\ pc' = "clients" /\ UNCHANGED exit
    /\ UNCHANGED <<setting, clients, info, migration, heartbeat>>

\* The source and the sink are made; a URL is read, and only the client of a
\* cluster connects here.
CreateClients ==
    /\ pc = "clients"
    /\ ~ClientMustRaise(config)
    /\ sourceOpen' = TRUE
    /\ pc' = "ping"
    /\ UNCHANGED <<setting, exit, config, sinkOpen, pinged, info, migration, heartbeat>>

\* Nothing catches its exception.
CreateClientsRaises ==
    /\ pc = "clients"
    /\ ClientMayRaise(config)
    /\ Exit(1)
    /\ UNCHANGED <<setting, config, clients, info, migration, heartbeat>>

\* source.ping() answers ...
Ping ==
    /\ pc = "ping"
    /\ pinged' = TRUE
    /\ pc' = "connect"
    /\ UNCHANGED <<setting, exit, config, sourceOpen, sinkOpen, info, migration, heartbeat>>

\* ... or raises: main returns at once.
PingFails ==
    /\ pc = "ping"
    /\ Exit(2)
    /\ UNCHANGED <<setting, config, clients, info, migration, heartbeat>>

Connect ==
    /\ pc = "connect"
    /\ sinkOpen' = TRUE
    /\ pc' = "info"
    /\ UNCHANGED <<setting, exit, config, sourceOpen, pinged, info, migration, heartbeat>>

\* Mutant of ConnectFails: the source is not closed.
ConnectFailsUnclosed ==
    /\ pc = "connect"
    /\ Exit(2)
    /\ UNCHANGED <<setting, config, clients, info, migration, heartbeat>>

\* Aerospike cannot be reached: main closes the source and returns.
ConnectFails ==
    /\ pc = "connect"
    /\ sourceOpen' = FALSE
    /\ Exit(2)
    /\ UNCHANGED <<setting, config, sinkOpen, pinged, info, migration, heartbeat>>

\* RedisSource.server_info, as far as "expires" goes.
RedisInfo ==
    {KeyspaceExpires(config, expires)} \cup IF InfoMayFail THEN {Unknown} ELSE {}

\* AerospikeSink.server_info.
AerospikeInfo ==
    {ServerInfoOf(responses)} \cup IF InfoMayFail THEN {NoInfo} ELSE {}

\* apply_server_info: the limit of the server, if it tells one.
AlignedMax(told) == IF told.max > 0 THEN told.max ELSE config.max_record_size

\* Both servers are asked, and the configuration is aligned.
ServerInfo ==
    /\ pc = "info"
    /\ redisExpires' \in RedisInfo
    /\ aeroInfo' \in AerospikeInfo
    /\ config' = [config EXCEPT !.max_record_size = AlignedMax(aeroInfo')]
    /\ pc' = "guard"
    /\ UNCHANGED <<setting, exit, clients, migration, heartbeat>>

\* The finally clause of main.
CloseBoth == sourceOpen' = FALSE /\ sinkOpen' = FALSE /\ UNCHANGED pinged

\* Mutant of Blocked: expiration counts as disabled when it is unknown only.
BlockedUnknownOnly == aeroInfo.nsup = Unknown /\ redisExpires > 0

\* ttl_migration_blocked_reason: Redis has keys with an expiry, and the
\* namespace does not expire records.
Blocked == aeroInfo.known /\ aeroInfo.nsup = 0 /\ redisExpires > 0

Refuse ==
    /\ pc = "guard"
    /\ Blocked
    /\ CloseBoth
    /\ Exit(2)
    /\ UNCHANGED <<setting, config, info, migration, heartbeat>>

DryRun == "dry_run" \in DOMAIN args

\* The preview is shown, and that was all.
DryRunEnds ==
    /\ pc = "guard"
    /\ ~Blocked
    /\ DryRun
    /\ CloseBoth
    /\ Exit(0)
    /\ UNCHANGED <<setting, config, info, migration, heartbeat>>

\* Migrator.run begins: the heartbeat thread is started, if it is enabled.
StartRun ==
    /\ pc = "guard"
    /\ ~Blocked
    /\ ~DryRun
    /\ pc' = "run"
    /\ hpc' = IF config.progress_interval > 0 THEN "waiting" ELSE "off"
    /\ UNCHANGED <<setting, exit, config, clients, info, migration, stopSet, shown, beats>>

\* The producer and the workers at work.
Migrate ==
    /\ pc = "run"
    /\ Run!Next
    /\ UNCHANGED <<setting, mainVars, heartbeat>>

\* Mutant of StopProgress: the event is not set.
StopProgressNoEvent ==
    /\ pc = "run"
    /\ result # "running"
    /\ pc' = "join"
    /\ UNCHANGED <<setting, exit, config, clients, info, migration, heartbeat>>

\* The workers are joined: progress.stop() sets the event.
StopProgress ==
    /\ pc = "run"
    /\ result # "running"
    /\ stopSet' = TRUE
    /\ pc' = "join"
    /\ UNCHANGED <<setting, exit, config, clients, info, migration, hpc, shown, beats>>

\* Mutant of ProgressJoined: stop() does not wait for the thread.
ProgressNotJoined == TRUE

\* The thread was joined, or there is none.
ProgressJoined == hpc \in {"off", "ended"}

\* run() leaves, main closes the clients, and an exception goes on to the
\* interpreter, which exits with 1 as well.
EndRun ==
    /\ pc = "join"
    /\ ProgressJoined
    /\ CloseBoth
    /\ IF result = "raised" THEN Exit(1) ELSE pc' = "report" /\ UNCHANGED exit
    /\ UNCHANGED <<setting, config, info, migration, heartbeat>>

\* Mutant of ExitCode: errors do not show.
ExitCodeZero == 0

ExitCode == IF \E r \in Run!Records : status[r] = "errors" THEN 1 ELSE 0

\* The report is logged.
Report ==
    /\ pc = "report"
    /\ Exit(ExitCode)
    /\ UNCHANGED <<setting, config, clients, info, migration, heartbeat>>

Main ==
    \/ BadUsage \/ PrintCompletion \/ Configure \/ CreateClients \/ CreateClientsRaises
    \/ Ping \/ PingFails \/ Connect \/ ConnectFails \/ ServerInfo
    \/ Refuse \/ DryRunEnds \/ StartRun \/ StopProgress \/ EndRun \/ Report

-----------------------------------------------------------------------------
(* The heartbeat thread *)

\* What the statistics show: records read, and records with an outcome.
Snapshot ==
    [scanned |-> Cardinality({r \in Run!Records : status[r] # "unread"}),
     settled |-> Cardinality({r \in Run!Records : status[r] \in Run!Outcomes})]

\* The wait timed out: progress_line reads the counters under the lock.
Wake ==
    /\ hpc = "waiting"
    /\ ~stopSet
    /\ beats < MaxBeats
    /\ hpc' = "logging"
    /\ shown' = Snapshot
    /\ UNCHANGED <<setting, mainVars, migration, stopSet, beats>>

\* The line is logged, outside the lock.
Beat ==
    /\ hpc = "logging"
    /\ beats' = beats + 1
    /\ hpc' = "waiting"
    /\ UNCHANGED <<setting, mainVars, migration, stopSet, shown>>

\* The event is set: the wait returns True and the thread ends.
EndHeartbeat ==
    /\ hpc = "waiting"
    /\ stopSet
    /\ hpc' = "ended"
    /\ UNCHANGED <<setting, mainVars, migration, stopSet, shown, beats>>

Heartbeat == Wake \/ Beat \/ EndHeartbeat

-----------------------------------------------------------------------------

\* The process is over.
Gone == pc = "exit" /\ UNCHANGED vars

Next == Main \/ Migrate \/ Heartbeat \/ Gone

Spec == Init /\ [][Next]_vars

\* The threads run when they can, calls of the clients return or raise, and a
\* migration whose transforms do not raise goes on to its end.
FairSpec == Spec /\ WF_vars(Main) /\ WF_vars(Migrate) /\ WF_vars(Heartbeat)

-----------------------------------------------------------------------------
(* Properties *)

Untouched == \A r \in Run!Records : status[r] = "unread"

\* What every node that answers tells under a name.
Told(name) == {responses[i][name] : i \in {j \in DOMAIN responses :
                  responses[j] # None /\ name \in DOMAIN responses[j]}}

\* Every node answers, and tells one and the same value under that name.
AllTell(name, value) ==
    /\ \A i \in DOMAIN responses : responses[i] # None /\ name \in DOMAIN responses[i]
    /\ Told(name) = {value}

\* Not one record is read unless the guard had reason to let the run through:
\* when both servers answered and the client reads database redis.db, no key
\* there has a TTL that a namespace with nsup-period 0 on all nodes would ignore.
\* By then both clients are open and the nodes' common size limit is in force; a
\* dry run reads nothing.
MigratesOnlyWhenCleared ==
    ~Untouched =>
        /\ ~DryRun
        /\ redisExpires # Unknown /\ aeroInfo.known /\ ClientDb(config) = config.db
               /\ AllTell("nsup-period", 0) => ~(expires[ClientDb(config)] > 0)
        /\ \A limit \in Told("max-record-size") :
               aeroInfo.known /\ AllTell("max-record-size", limit) /\ limit > 0
                   => config.max_record_size = limit
        /\ result = "running" => sourceOpen /\ sinkOpen

\* The exit code tells a script what happened: 0 that every record has an
\* outcome other than an error (or that nothing was to be migrated), 2 that
\* nothing was written, 1 that records failed or the run broke off, or that an
\* exception ended main before Redis was asked anything: a file that is no
\* configuration, a text that is no URL, a cluster that cannot be reached.  (For
\* the last docs/05 promises a 2; the client of a cluster is made outside main's
\* try, so the code gives a 1.)
ExitTruthful ==
    pc = "exit" =>
        /\ exit = 0 => \/ Untouched /\ (DryRun \/ "print_completion" \in DOMAIN args)
                       \/ /\ result = "returned"
                          /\ \A r \in Run!Records : status[r] \in {"migrated", "skipped"}
        /\ exit = 1 => \/ result = "raised"
                       \/ \E r \in Run!Records : status[r] = "errors"
                       \/ /\ Untouched /\ ~pinged
                          /\ BuildRaises(args, yaml) \/ ClientMayRaise(config)
        /\ exit = 2 => Untouched

\* Whichever way main is left, no client is open, but for the source's if Redis
\* did not answer the ping, no heartbeat thread is left running, and the clients
\* are not closed while the migration or the heartbeat is under way.
CleanExit ==
    /\ pc = "exit" => ~sinkOpen /\ (sourceOpen => ~pinged /\ exit = 2)
    /\ pc \in {"report", "exit"} => hpc \in {"off", "ended"}
    /\ pc = "run" \/ hpc \in {"waiting", "logging"} => sourceOpen /\ sinkOpen

\* From one heartbeat line to the next the counters only grow, and those of one
\* line belong together; no line is logged once run() was left, so the report is
\* the last word.
HeartbeatHonest ==
    [][/\ shown' # shown => /\ shown'.settled <= shown'.scanned
                            /\ shown'.scanned >= shown.scanned
                            /\ shown'.settled >= shown.settled
       /\ beats' # beats => pc \in {"run", "join"}]_vars

\* main ends, with the heartbeat joined.
MainEnds == <>(pc = "exit")

\* The setting that a flag or a name of a document stands for.
TargetOf(name) ==
    IF name \in {"host", "port", "aerospike_host", "aerospike_port"} THEN "hosts"
    ELSE IF name \in {"key_pattern", "redis_key_pattern"} THEN "scan_match"
    ELSE IF name = "set_route" THEN "set_routes"
    ELSE Get(ArgMap, name, name)

\* The two configurations are the same but for one setting.
SameBut(c, d, f) == \A g \in DOMAIN Defaults \ {f} : c[g] = d[g]

\* The routes of the file, and of the flags.
FileRoutes == IF yaml = None THEN <<>> ELSE ParseSetRoutes(Get(yaml, "set_routes", <<>>))
PassedRoutes ==
    [i \in DOMAIN Get(args, "set_route", <<>>) |-> RouteOf(TokenItem(args.set_route[i]))]

\* Both are in effect, and the file's go first: the first route that fits wins.
RoutesInEffect == config.set_routes = FileRoutes \o PassedRoutes

\* A flag has its value in effect, if it is one of the settings.
InEffect(flag) ==
    CASE flag = "aerospike_host"    -> \A i \in DOMAIN config.hosts : config.hosts[i].host = args[flag]
      [] flag = "aerospike_port"    -> \A i \in DOMAIN config.hosts : config.hosts[i].port = args[flag]
      [] flag = "redis_key_pattern" -> "redis_match" \in DOMAIN args \/ config.scan_match = args[flag]
      [] flag = "set_route"         -> RoutesInEffect
      [] flag \in DOMAIN ArgMap     -> config[ArgMap[flag]] = args[flag]
      [] OTHER                      -> TRUE

\* "A YAML file provides the base; any explicitly-passed CLI flag then overrides
\* the corresponding value" (build_config): every flag is in effect, and no flag
\* and no name in the file, aliases and halves of a node included, has an effect
\* on any other setting; the routes of the flags are added to the file's.
Precedence ==
    pc = "clients" =>
        /\ \A flag \in DOMAIN args :
               /\ InEffect(flag)
               /\ SameBut(config, BuildConfig(Without(args, flag), yaml), TargetOf(flag))
        /\ yaml # None =>
               \A name \in DOMAIN yaml :
                   LET less == Without(yaml, name)
                   IN  ~DictRaises(less) => SameBut(config, BuildConfig(args, less), TargetOf(name))
        /\ RoutesInEffect

\* The variables that say nothing: an empty URL, a switch that is no word for one.
Idle ==
    {n \in DOMAIN env : \/ n = "url" /\ env[n] = ""
                        \/ n = "cluster" /\ env[n] \notin TrueWords \cup FalseWords}

\* The same settings as a document: numbers and switches as YAML reads them.
AsDocument ==
    [n \in DOMAIN env \ Idle |->
        IF n = "cluster" THEN env[n] \in TrueWords
        ELSE IF n \in {"db", "port", "max_record_size", "progress_interval"} THEN Numbers[env[n]]
        ELSE env[n]]

\* "MigrationConfig.from_env provides a convenient way to populate them from
\* environment variables" (config.py): both ways of writing down one and the same
\* set of settings give the same configuration, or are both refused.  (Exceptions:
\* a port without a host, which a document cannot express; texts that are no
\* numbers, which only from_env refuses; "1" and "0" for a switch, which YAML
\* reads as numbers.)
EnvironmentAgrees ==
    /\ \A n \in DOMAIN env : n = "cluster" => env[n] \notin {"0", "1"}
    /\ \A n \in DOMAIN env \cap {"db", "port", "max_record_size", "progress_interval"} :
           env[n] \in DOMAIN Numbers
    /\ "port" \in DOMAIN env => "host" \in DOMAIN env
    => /\ EnvRaises(env) <=> DictRaises(AsDocument)
       /\ ~EnvRaises(env) => FromEnv(env) = FromDict(AsDocument)

\* docs/04: "if any keys carry a TTL while nsup-period is 0, the CLI exits with
\* an error before writing".
GuardCoversSource ==
    config # None /\ Told("nsup-period") = {0} /\ expires[ClientDb(config)] > 0 => Untouched
=============================================================================
