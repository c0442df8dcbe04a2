------------------------- MODULE CommandLineProofs -------------------------
(***************************************************************************)
(* main() lets a migration begin only behind its guards, tells the truth   *)
(* in its exit code and leaves nothing open behind, and the heartbeat      *)
(* never shows counters that do not belong together, for every setting     *)
(* main() may be started in.                                               *)
(***************************************************************************)
EXTENDS CommandLine, FiniteSetTheorems, LeastNumber

\* Where main is before the migration.
Early == {"parse", "clients", "ping", "connect", "info", "guard"}

\* The migration was let through.
Begun == pc \in {"run", "join", "report"} \/ ~Untouched

TypeOK ==
    /\ pc \in Early \cup {"run", "join", "report", "exit"}
    /\ status \in [Run!Records -> {"unread", "pending"} \cup Run!Outcomes]
    /\ result \in {"running", "returned", "raised"}
    /\ hpc \in {"off", "waiting", "logging", "ended"}
    /\ sourceOpen \in BOOLEAN /\ sinkOpen \in BOOLEAN /\ pinged \in BOOLEAN
    /\ DOMAIN env \subseteq EnvNames
    /\ IsList(responses)
    /\ yaml \notin {None, NotMapping} =>
           \A name \in DOMAIN yaml : Without(yaml, name) # None

\* config is None or has the fields of the dataclasses.
ConfigKept ==
    /\ pc = "parse" => config = None
    /\ pc = "clients" => config = BuildConfig(args, yaml) /\ ~BuildRaises(args, yaml)
    /\ pc \notin {"parse", "exit"} => config = [f \in DOMAIN Defaults |-> config[f]]

\* The migration only runs behind the guard, and main goes on only after it and
\* after the heartbeat.
RunInPlace ==
    /\ pc \in Early => Untouched /\ result = "running" /\ hpc = "off"
    /\ hpc \in {"waiting", "logging"} => pc \in {"run", "join"}
    /\ pc = "join" => result # "running"
    /\ pc = "report" => result = "returned"
    /\ pc = "exit" /\ ~Untouched => result # "running"
    /\ result = "returned" => \A r \in Run!Records : status[r] \in Run!Outcomes

\* The clients that are open and were asked, by where main is.
ClientsInPlace ==
    /\ pc \in {"parse", "clients", "report"} => ~sourceOpen
    /\ pc \in {"ping", "connect", "info", "guard", "run", "join"} => sourceOpen
    /\ pc \in {"parse", "clients", "ping"} => ~pinged
    /\ sinkOpen <=> pc \in {"info", "guard", "run", "join"}
    /\ pc \in {"parse", "clients", "ping", "connect", "info"} => redisExpires = Unknown

\* What the servers told is what the guard was given and what the configuration
\* was aligned with, from then on.
Informed ==
    pc = "guard" \/ Begun =>
        /\ redisExpires \in {KeyspaceExpires(config, expires), Unknown}
        /\ aeroInfo \in {ServerInfoOf(responses), NoInfo}
        /\ aeroInfo.max > 0 => config.max_record_size = aeroInfo.max

\* The guards were passed.
Cleared == Begun => ~Blocked /\ ~DryRun

MainInv ==
    /\ TypeOK
    /\ ConfigKept
    /\ RunInPlace
    /\ ClientsInPlace
    /\ Informed
    /\ Cleared
    /\ ExitTruthful
    /\ CleanExit

LEMMA BuiltOnDefaults ==
  ASSUME NEW a, NEW y
  PROVE  BuildConfig(a, y) = [f \in DOMAIN Defaults |-> BuildConfig(a, y)[f]]
  <1> DEFINE base == IF y = None THEN Defaults ELSE FromDict(y)
  <1>1. DOMAIN base = DOMAIN Defaults
    BY DEF FromDict
  <1> QED
    BY <1>1 DEF BuildConfig

LEMMA MainInvInit == Init => MainInv
  <1> SUFFICES ASSUME Init PROVE MainInv
    OBVIOUS
  <1>1. TypeOK
    BY CommandLineAssumption DEF Init, TypeOK, Early, Run!Init, Run!Records
  <1>2. Untouched
    BY DEF Init, Run!Init, Untouched
  <1> QED
    BY <1>1, <1>2 DEF Init, Run!Init, MainInv, ConfigKept, RunInPlace, ClientsInPlace, Informed,
       Cleared, Begun, ExitTruthful, CleanExit, Early, Unknown

\* What a step of the migration does to the outcomes.
MigrationStep ==
    /\ status' \in [Run!Records -> {"unread", "pending"} \cup Run!Outcomes]
    /\ result' \in {"running", "returned", "raised"}
    /\ result' = "returned" => \A r \in Run!Records : status'[r] \in Run!Outcomes
    /\ \A r \in Run!Records : /\ status[r] # "unread" => status'[r] # "unread"
                              /\ status[r] \in Run!Outcomes => status'[r] \in Run!Outcomes

LEMMA MigrateSteps ==
  ASSUME Run!Next, status \in [Run!Records -> {"unread", "pending"} \cup Run!Outcomes]
  PROVE  MigrationStep
  <1> USE DEF MigrationStep, Run!Outcomes
  <1>1. ASSUME NEW r \in Run!Records, Run!Read(r) PROVE MigrationStep
    BY <1>1 DEF Run!Read
  <1>2. ASSUME NEW r \in Run!Records, NEW o \in Run!Outcomes, Run!Settle(r, o)
        PROVE  MigrationStep
    BY <1>2 DEF Run!Settle
  <1>3. CASE Run!Return
    BY <1>3 DEF Run!Return, Run!NothingPending
  <1>4. CASE Run!Raise
    BY <1>4 DEF Run!Raise
  <1> QED
    BY <1>1, <1>2, <1>3, <1>4 DEF Run!Next

\* Steps of main and of the heartbeat leave the migration alone.
LEMMA MainInvStep ==
  ASSUME MainInv, [Next]_vars PROVE MainInv'
  <1> USE DEF vars, setting, mainVars, clients, info, migration, heartbeat
  <1> USE DEF TypeOK, ConfigKept, RunInPlace, ClientsInPlace, Informed, Cleared, Begun, Early,
          ExitTruthful, CleanExit, Untouched, DryRun, Blocked, Exit, CloseBoth
  <1>1. CASE BadUsage
    BY <1>1 DEF MainInv, BadUsage
  <1>2. CASE PrintCompletion
    BY <1>2 DEF MainInv, PrintCompletion
  <1>3. CASE Configure
    <2>1. TypeOK'
      BY <1>3 DEF MainInv, Configure
    <2>2. ConfigKept'
      <3>1. /\ \/ pc' = "exit"
               \/ /\ pc' = "clients" /\ config' = BuildConfig(args, yaml)
                  /\ ~BuildRaises(args, yaml)
            /\ args' = args /\ yaml' = yaml
        BY <1>3 DEF Configure
      <3> QED
        BY <3>1, BuiltOnDefaults
    <2>3. RunInPlace'
      BY <1>3 DEF MainInv, Configure
    <2>4. ClientsInPlace'
      BY <1>3 DEF MainInv, Configure
    <2>5. Informed'
      BY <1>3 DEF MainInv, Configure
    <2>6. Cleared'
      BY <1>3 DEF MainInv, Configure
    <2>7. ExitTruthful'
      BY <1>3 DEF MainInv, Configure
    <2>8. CleanExit'
      BY <1>3 DEF MainInv, Configure
    <2> QED
      BY <2>1, <2>2, <2>3, <2>4, <2>5, <2>6, <2>7, <2>8 DEF MainInv
  <1>4. CASE CreateClients
    BY <1>4 DEF MainInv, CreateClients
  <1>5. CASE CreateClientsRaises
    <2>1. TypeOK'
      BY <1>5 DEF MainInv, CreateClientsRaises
    <2>2. ConfigKept'
      BY <1>5 DEF MainInv, CreateClientsRaises
    <2>3. RunInPlace'
      BY <1>5 DEF MainInv, CreateClientsRaises
    <2>4. ClientsInPlace'
      BY <1>5 DEF MainInv, CreateClientsRaises
    <2>5. Informed'
      BY <1>5 DEF MainInv, CreateClientsRaises
    <2>6. Cleared'
      BY <1>5 DEF MainInv, CreateClientsRaises
    <2>7. ExitTruthful'
      <3>1. /\ Untouched' /\ ~pinged' /\ exit' = 1
            /\ ClientMayRaise(config)'
        BY <1>5 DEF MainInv, CreateClientsRaises
      <3> QED
        BY <3>1
    <2>8. CleanExit'
      BY <1>5 DEF MainInv, CreateClientsRaises
    <2> QED
      BY <2>1, <2>2, <2>3, <2>4, <2>5, <2>6, <2>7, <2>8 DEF MainInv
  <1>6. CASE Ping
    BY <1>6 DEF MainInv, Ping
  <1>7. CASE PingFails
    BY <1>7 DEF MainInv, PingFails
  <1>8. CASE Connect
    BY <1>8 DEF MainInv, Connect
  <1>9. CASE ConnectFails
    <2>1. TypeOK'
      BY <1>9 DEF MainInv, ConnectFails
    <2>2. ConfigKept'
      BY <1>9 DEF MainInv, ConnectFails
    <2>3. RunInPlace'
      BY <1>9 DEF MainInv, ConnectFails
    <2>4. ClientsInPlace'
      BY <1>9 DEF MainInv, ConnectFails
    <2>5. Informed'
      BY <1>9 DEF MainInv, ConnectFails
    <2>6. Cleared'
      BY <1>9 DEF MainInv, ConnectFails
    <2>7. ExitTruthful'
      BY <1>9 DEF MainInv, ConnectFails
    <2>8. CleanExit'
      BY <1>9 DEF MainInv, ConnectFails
    <2> QED
      BY <2>1, <2>2, <2>3, <2>4, <2>5, <2>6, <2>7, <2>8 DEF MainInv
  <1>10. CASE ServerInfo
    <2>1. TypeOK'
      BY <1>10 DEF MainInv, ServerInfo
    <2>2. ConfigKept'
      BY <1>10 DEF MainInv, ServerInfo
    <2>3. RunInPlace'
      BY <1>10 DEF MainInv, ServerInfo
    <2>4. ClientsInPlace'
      BY <1>10 DEF MainInv, ServerInfo
    <2>5. Informed'
      <3>1. /\ redisExpires' \in {KeyspaceExpires(config, expires), Unknown}
            /\ aeroInfo' \in {ServerInfoOf(responses), NoInfo}
            /\ config' = [config EXCEPT !.max_record_size = AlignedMax(aeroInfo')]
            /\ config = [f \in DOMAIN Defaults |-> config[f]]
            /\ UNCHANGED <<responses, expires>>
        BY <1>10 DEF MainInv, ServerInfo, RedisInfo, AerospikeInfo
      <3>2. KeyspaceExpires(config, expires)' = KeyspaceExpires(config, expires)
        BY <3>1 DEF KeyspaceExpires, Defaults
      <3>3. config'.max_record_size = AlignedMax(aeroInfo')
        BY <3>1 DEF Defaults
      <3>4. aeroInfo'.max > 0 => config'.max_record_size = aeroInfo'.max
        BY <3>3 DEF AlignedMax
      <3>5. /\ ServerInfoOf(responses)' = ServerInfoOf(responses)
            /\ Unknown' = Unknown /\ NoInfo' = NoInfo
        BY <3>1
      <3> QED
        BY <3>1, <3>2, <3>4, <3>5
    <2>6. Cleared'
      BY <1>10 DEF MainInv, ServerInfo
    <2>7. ExitTruthful'
      BY <1>10 DEF MainInv, ServerInfo
    <2>8. CleanExit'
      BY <1>10 DEF MainInv, ServerInfo
    <2> QED
      BY <2>1, <2>2, <2>3, <2>4, <2>5, <2>6, <2>7, <2>8 DEF MainInv
  <1>11. CASE Refuse
    <2>1. TypeOK'
      BY <1>11 DEF MainInv, Refuse
    <2>2. ConfigKept'
      BY <1>11 DEF MainInv, Refuse
    <2>3. RunInPlace'
      BY <1>11 DEF MainInv, Refuse
    <2>4. ClientsInPlace'
      BY <1>11 DEF MainInv, Refuse
    <2>5. Informed'
      BY <1>11 DEF MainInv, Refuse
    <2>6. Cleared'
      BY <1>11 DEF MainInv, Refuse
    <2>7. ExitTruthful'
      BY <1>11 DEF MainInv, Refuse
    <2>8. CleanExit'
      BY <1>11 DEF MainInv, Refuse
    <2> QED
      BY <2>1, <2>2, <2>3, <2>4, <2>5, <2>6, <2>7, <2>8 DEF MainInv
  <1>12. CASE DryRunEnds
    <2>1. TypeOK'
      BY <1>12 DEF MainInv, DryRunEnds
    <2>2. ConfigKept'
      BY <1>12 DEF MainInv, DryRunEnds
    <2>3. RunInPlace'
      BY <1>12 DEF MainInv, DryRunEnds
    <2>4. ClientsInPlace'
      BY <1>12 DEF MainInv, DryRunEnds
    <2>5. Informed'
      BY <1>12 DEF MainInv, DryRunEnds
    <2>6. Cleared'
      BY <1>12 DEF MainInv, DryRunEnds
    <2>7. ExitTruthful'
      BY <1>12 DEF MainInv, DryRunEnds
    <2>8. CleanExit'
      BY <1>12 DEF MainInv, DryRunEnds
    <2> QED
      BY <2>1, <2>2, <2>3, <2>4, <2>5, <2>6, <2>7, <2>8 DEF MainInv
  <1>13. CASE StartRun
    BY <1>13 DEF MainInv, StartRun
  <1>14. CASE StopProgress
    BY <1>14 DEF MainInv, StopProgress
  <1>15. CASE EndRun
    <2>1. TypeOK'
      BY <1>15 DEF MainInv, EndRun
    <2>2. ConfigKept'
      BY <1>15 DEF MainInv, EndRun
    <2>3. RunInPlace'
      BY <1>15 DEF MainInv, EndRun, ProgressJoined
    <2>4. ClientsInPlace'
      BY <1>15 DEF MainInv, EndRun
    <2>5. Informed'
      BY <1>15 DEF MainInv, EndRun
    <2>6. Cleared'
      BY <1>15 DEF MainInv, EndRun
    <2>7. ExitTruthful'
      BY <1>15 DEF MainInv, EndRun
    <2>8. CleanExit'
      BY <1>15 DEF MainInv, EndRun, ProgressJoined
    <2> QED
      BY <2>1, <2>2, <2>3, <2>4, <2>5, <2>6, <2>7, <2>8 DEF MainInv
  <1>16. CASE Report
    <2>1. TypeOK'
      BY <1>16 DEF MainInv, Report, ExitCode, Run!Outcomes
    <2>2. ConfigKept'
      BY <1>16 DEF MainInv, Report, ExitCode, Run!Outcomes
    <2>3. RunInPlace'
      BY <1>16 DEF MainInv, Report, ExitCode, Run!Outcomes
    <2>4. ClientsInPlace'
      BY <1>16 DEF MainInv, Report, ExitCode, Run!Outcomes
    <2>5. Informed'
      BY <1>16 DEF MainInv, Report, ExitCode, Run!Outcomes
    <2>6. Cleared'
      BY <1>16 DEF MainInv, Report, ExitCode, Run!Outcomes
    <2>7. ExitTruthful'
      BY <1>16 DEF MainInv, Report, ExitCode, Run!Outcomes
    <2>8. CleanExit'
      BY <1>16 DEF MainInv, Report, ExitCode, Run!Outcomes
    <2> QED
      BY <2>1, <2>2, <2>3, <2>4, <2>5, <2>6, <2>7, <2>8 DEF MainInv
  <1>17. CASE Wake
    BY <1>17 DEF MainInv, Wake
  <1>18. CASE Beat
    BY <1>18 DEF MainInv, Beat
  <1>19. CASE EndHeartbeat
    BY <1>19 DEF MainInv, EndHeartbeat
  <1>20. CASE Gone
    BY <1>20 DEF MainInv, Gone
  <1>21. CASE UNCHANGED vars
    BY <1>21 DEF MainInv
  <1>22. CASE Migrate
    <2>0. MigrationStep
      BY <1>22, MigrateSteps DEF MainInv, Migrate
    <2>1. TypeOK'
      BY <1>22, <2>0 DEF MainInv, Migrate, MigrationStep
    <2>2. ConfigKept'
      BY <1>22 DEF MainInv, Migrate
    <2>3. RunInPlace'
      BY <1>22, <2>0 DEF MainInv, Migrate, MigrationStep
    <2>4. ClientsInPlace'
      BY <1>22 DEF MainInv, Migrate
    <2>5. Informed'
      BY <1>22 DEF MainInv, Migrate
    <2>6. Cleared'
      BY <1>22 DEF MainInv, Migrate
    <2>7. ExitTruthful'
      BY <1>22 DEF MainInv, Migrate
    <2>8. CleanExit'
      BY <1>22 DEF MainInv, Migrate
    <2> QED
      BY <2>1, <2>2, <2>3, <2>4, <2>5, <2>6, <2>7, <2>8 DEF MainInv
  <1> QED
    BY <1>1, <1>2, <1>3, <1>4, <1>5, <1>6, <1>7, <1>8, <1>9, <1>10, <1>11, <1>12, <1>13, <1>14, <1>15, <1>16, <1>17, <1>18, <1>19, <1>20, <1>21, <1>22 DEF Next, Main, Heartbeat

THEOREM MainInvariant == Spec => []MainInv
  BY MainInvInit, MainInvStep, PTL DEF Spec

(* The exit code of main tells what happened, for every setting and however *)
(* the migration and the servers behave.                                    *)
THEOREM ExitCodeTruthful == Spec => []ExitTruthful
  <1>1. MainInv => ExitTruthful
    BY DEF MainInv
  <1> QED
    BY MainInvariant, <1>1, PTL

(* Every way out of main leaves the clients closed and the heartbeat over. *)
THEOREM ExitIsClean == Spec => []CleanExit
  <1>1. MainInv => CleanExit
    BY DEF MainInv
  <1> QED
    BY MainInvariant, <1>1, PTL

-----------------------------------------------------------------------------
(* The guard *)

LEMMA LeastOf ==
  ASSUME NEW S \in SUBSET Nat, S # {}
  PROVE  Min(S) \in S /\ \A x \in S : Min(S) <= x
  BY LeastElement DEF Min

\* The number that a response has under the first of the names.
LEMMA AsIntFirst ==
  ASSUME NEW response, NEW name, NEW other, name \in DOMAIN response
  PROVE  /\ AsInt(response, <<name>>) = response[name]
         /\ AsInt(response, <<name, other>>) = response[name]
  <1>1. AsInt(response, <<name>>) = response[name]
    <2> DEFINE I == {i \in 1 .. Len(<<name>>) : <<name>>[i] \in DOMAIN response}
    <2>1. I = {1}
      OBVIOUS
    <2>2. I # {} /\ Min(I) = 1
      BY <2>1, LeastOf
    <2> QED
      BY <2>2 DEF AsInt, SelectInSeq
  <1>2. AsInt(response, <<name, other>>) = response[name]
    <2> DEFINE I == {i \in 1 .. Len(<<name, other>>) : <<name, other>>[i] \in DOMAIN response}
    <2>1. I \in SUBSET (1 .. 2) /\ 1 \in I
      OBVIOUS
    <2>2. I # {} /\ Min(I) = 1
      BY <2>1, LeastOf
    <2> QED
      BY <2>2 DEF AsInt, SelectInSeq
  <1> QED
    BY <1>1, <1>2

\* What all the nodes agree on is what AerospikeServerInfo.parse is given.
LEMMA FirstResponse ==
  ASSUME TypeOK, NEW name, NEW value, AllTell(name, value)
  PROVE  \E i \in DOMAIN responses :
            /\ ServerInfoOf(responses) =
                  [known |-> TRUE, nsup |-> AsInt(responses[i], <<"nsup-period">>),
                   max |-> AsInt(responses[i], <<"max-record-size", "write-block-size">>)]
            /\ name \in DOMAIN responses[i]
            /\ responses[i][name] = value
  <1> DEFINE I == {i \in 1 .. Len(responses) : responses[i] # None}
  <1>1. I \in SUBSET Nat /\ I # {}
    BY DEF AllTell, Told, TypeOK, IsList
  <1>2. Min(I) \in I /\ Min(I) # 0
    <2> HIDE DEF I
    <2>1. Min(I) \in I
      BY <1>1, LeastOf
    <2>2. 0 \notin I
      BY DEF I
    <2> QED
      BY <2>1, <2>2
  <1>3. Min(I) \in DOMAIN responses
    BY <1>2 DEF TypeOK, IsList
  <1>4. name \in DOMAIN responses[Min(I)] /\ responses[Min(I)] # None
    BY <1>3 DEF AllTell
  <1>5. responses[Min(I)][name] \in Told(name)
    BY <1>3, <1>4 DEF Told
  <1>6. responses[Min(I)][name] = value
    BY <1>5 DEF AllTell
  <1>7. SelectInSeq(responses, LAMBDA r : r # None) = Min(I)
    BY <1>1 DEF SelectInSeq
  <1>8. ServerInfoOf(responses) =
           [known |-> TRUE, nsup |-> AsInt(responses[Min(I)], <<"nsup-period">>),
            max |-> AsInt(responses[Min(I)], <<"max-record-size", "write-block-size">>)]
    BY <1>2, <1>7 DEF ServerInfoOf
  <1> QED
    BY <1>3, <1>4, <1>6, <1>8

(* No record is read unless the guard had reason to let the run through:    *)
(* TTLs that the namespace would ignore stop it, the nodes' record limit is *)
(* in force, and both clients are open.                                     *)
THEOREM GuardHolds == Spec => []MigratesOnlyWhenCleared
  <1>1. MainInv => MigratesOnlyWhenCleared
    <2> SUFFICES ASSUME MainInv, ~Untouched PROVE MigratesOnlyWhenCleared
      BY DEF MigratesOnlyWhenCleared
    <2>1. Begun /\ TypeOK /\ ~Blocked /\ ~DryRun
      BY DEF MainInv, Begun, Cleared
    <2>2. /\ redisExpires \in {KeyspaceExpires(config, expires), Unknown}
          /\ aeroInfo \in {ServerInfoOf(responses), NoInfo}
          /\ aeroInfo.max > 0 => config.max_record_size = aeroInfo.max
      BY <2>1 DEF MainInv, Informed
    <2>3. ASSUME redisExpires # Unknown, aeroInfo.known, ClientDb(config) = config.db,
                 AllTell("nsup-period", 0)
          PROVE  ~(expires[ClientDb(config)] > 0)
      <3>1. aeroInfo = ServerInfoOf(responses)
        BY <2>2, <2>3 DEF NoInfo
      <3>2. aeroInfo.nsup = 0
        <4>1. PICK i \in DOMAIN responses :
                 /\ ServerInfoOf(responses) =
                       [known |-> TRUE, nsup |-> AsInt(responses[i], <<"nsup-period">>),
                        max |-> AsInt(responses[i], <<"max-record-size", "write-block-size">>)]
                 /\ "nsup-period" \in DOMAIN responses[i]
                 /\ responses[i]["nsup-period"] = 0
          BY <2>1, <2>3, FirstResponse
        <4>2. AsInt(responses[i], <<"nsup-period">>) = 0
          BY <4>1, AsIntFirst
        <4> QED
          BY <3>1, <4>1, <4>2
      <3>3. redisExpires = expires[config.db]
        BY <2>2, <2>3 DEF KeyspaceExpires
      <3> QED
        BY <2>1, <2>3, <3>2, <3>3 DEF Blocked
    <2>4. ASSUME NEW limit \in Told("max-record-size"), aeroInfo.known,
                 AllTell("max-record-size", limit), limit > 0
          PROVE  config.max_record_size = limit
      <3>1. aeroInfo = ServerInfoOf(responses)
        BY <2>2, <2>4 DEF NoInfo
      <3>2. aeroInfo.max = limit
        <4>1. PICK i \in DOMAIN responses :
                 /\ ServerInfoOf(responses) =
                       [known |-> TRUE, nsup |-> AsInt(responses[i], <<"nsup-period">>),
                        max |-> AsInt(responses[i], <<"max-record-size", "write-block-size">>)]
                 /\ "max-record-size" \in DOMAIN responses[i]
                 /\ responses[i]["max-record-size"] = limit
          BY <2>1, <2>4, FirstResponse
        <4>2. AsInt(responses[i], <<"max-record-size", "write-block-size">>) = limit
          BY <4>1, AsIntFirst
        <4> QED
          BY <3>1, <4>1, <4>2
      <3> QED
        BY <2>2, <2>4, <3>2
    <2>5. result = "running" => sourceOpen /\ sinkOpen
      BY DEF MainInv, TypeOK, RunInPlace, ClientsInPlace, Early
    <2> QED
      BY <2>1, <2>3, <2>4, <2>5 DEF MigratesOnlyWhenCleared
  <1> QED
    BY MainInvariant, <1>1, PTL

-----------------------------------------------------------------------------
(* The heartbeat *)

\* The records the statistics count.
Scanned == {r \in Run!Records : status[r] # "unread"}
Settled == {r \in Run!Records : status[r] \in Run!Outcomes}

\* The counters shown last are behind the ones of the statistics.
ShownBehind ==
    /\ shown = [scanned |-> shown.scanned, settled |-> shown.settled]
    /\ shown.scanned \in Nat /\ shown.scanned <= Cardinality(Scanned)
    /\ shown.settled \in Nat /\ shown.settled <= Cardinality(Settled)
    /\ shown.settled <= shown.scanned

\* Counting subsets of the records.
LEMMA CountSubset ==
  ASSUME NEW S \in SUBSET Run!Records, NEW T \in SUBSET S
  PROVE  Cardinality(S) \in Nat /\ Cardinality(T) \in Nat /\ Cardinality(T) <= Cardinality(S)
  <1>1. IsFiniteSet(Run!Records)
    BY CommandLineAssumption, FS_Interval DEF Run!Records
  <1>2. IsFiniteSet(S)
    BY <1>1, FS_Subset
  <1>3. IsFiniteSet(T)
    BY <1>2, FS_Subset
  <1>4. Cardinality(T) <= Cardinality(S)
    BY <1>2, FS_Subset
  <1> QED
    BY <1>2, <1>3, <1>4, FS_CardinalityType

LEMMA SnapshotFits ==
  ASSUME TypeOK
  PROVE  /\ Cardinality(Scanned) \in Nat /\ Cardinality(Settled) \in Nat
         /\ Cardinality(Settled) <= Cardinality(Scanned)
         /\ Snapshot = [scanned |-> Cardinality(Scanned), settled |-> Cardinality(Settled)]
  <1>1. Scanned \in SUBSET Run!Records /\ Settled \in SUBSET Scanned
    BY DEF Scanned, Settled, Run!Outcomes
  <1> QED
    BY <1>1, CountSubset DEF Snapshot, Scanned, Settled

\* The statistics only grow.
LEMMA CountersGrow ==
  ASSUME MainInv, MainInv', [Next]_vars
  PROVE  /\ Cardinality(Scanned) <= Cardinality(Scanned')
         /\ Cardinality(Settled) <= Cardinality(Settled')
         /\ Cardinality(Scanned') \in Nat /\ Cardinality(Settled') \in Nat
  <1>1. \/ status' = status
        \/ MigrationStep
    <2>1. CASE Migrate
      BY <2>1, MigrateSteps DEF Migrate, MainInv, TypeOK
    <2>2. CASE Main
      BY <2>2 DEF Main, migration, BadUsage, PrintCompletion, Configure, CreateClients,
         CreateClientsRaises, Ping, PingFails, Connect, ConnectFails, ServerInfo, Refuse,
         DryRunEnds, StartRun, StopProgress, EndRun, Report
    <2>3. CASE Heartbeat \/ Gone \/ UNCHANGED vars
      BY <2>3 DEF Heartbeat, Wake, Beat, EndHeartbeat, Gone, vars, migration
    <2> QED
      BY <2>1, <2>2, <2>3 DEF Next
  <1>2. Scanned \in SUBSET Scanned' /\ Settled \in SUBSET Settled'
    BY <1>1 DEF MigrationStep, Scanned, Settled
  <1>3. Scanned' \in SUBSET Run!Records /\ Settled' \in SUBSET Run!Records
    BY DEF Scanned, Settled
  <1> QED
    BY <1>2, <1>3, CountSubset

\* Only Wake changes the line that is shown, and to the counters of the moment.
LEMMA ShownSteps ==
  ASSUME [Next]_vars
  PROVE  shown' = shown \/ (shown' = Snapshot /\ status' = status)
  <1>1. CASE Wake
    BY <1>1 DEF Wake, migration
  <1>2. CASE Main
    BY <1>2 DEF Main, heartbeat, BadUsage, PrintCompletion, Configure, CreateClients,
       CreateClientsRaises, Ping, PingFails, Connect, ConnectFails, ServerInfo, Refuse,
       DryRunEnds, StartRun, StopProgress, EndRun, Report
  <1>3. CASE Migrate \/ Beat \/ EndHeartbeat \/ Gone \/ UNCHANGED vars
    BY <1>3 DEF Migrate, Beat, EndHeartbeat, Gone, vars, heartbeat
  <1> QED
    BY <1>1, <1>2, <1>3 DEF Next, Heartbeat

LEMMA ShownStep ==
  ASSUME MainInv, MainInv', ShownBehind, [Next]_vars
  PROVE  /\ ShownBehind'
         /\ shown'.settled <= shown'.scanned
         /\ shown'.scanned >= shown.scanned
         /\ shown'.settled >= shown.settled
  <1>1. /\ Cardinality(Scanned) \in Nat /\ Cardinality(Settled) \in Nat
        /\ Cardinality(Settled) <= Cardinality(Scanned)
        /\ Snapshot = [scanned |-> Cardinality(Scanned), settled |-> Cardinality(Settled)]
    BY SnapshotFits DEF MainInv
  <1>2. /\ Cardinality(Scanned) <= Cardinality(Scanned')
        /\ Cardinality(Settled) <= Cardinality(Settled')
        /\ Cardinality(Scanned') \in Nat /\ Cardinality(Settled') \in Nat
    BY CountersGrow
  <1>3. CASE shown' = shown
    BY <1>1, <1>2, <1>3 DEF ShownBehind
  <1>4. CASE shown' = Snapshot
    BY <1>1, <1>2, <1>4 DEF ShownBehind
  <1> QED
    BY <1>3, <1>4, ShownSteps

\* A line is only logged while run() is under way.
LEMMA BeatSteps ==
  ASSUME MainInv, [Next]_vars, beats' # beats
  PROVE  pc \in {"run", "join"}
  <1>1. CASE Beat
    BY <1>1 DEF Beat, MainInv, RunInPlace
  <1>2. CASE Main
    BY <1>2 DEF Main, heartbeat, BadUsage, PrintCompletion, Configure, CreateClients,
       CreateClientsRaises, Ping, PingFails, Connect, ConnectFails, ServerInfo, Refuse,
       DryRunEnds, StartRun, StopProgress, EndRun, Report
  <1>3. CASE Migrate \/ Wake \/ EndHeartbeat \/ Gone \/ UNCHANGED vars
    BY <1>3 DEF Migrate, Wake, EndHeartbeat, Gone, vars, heartbeat
  <1> QED
    BY <1>1, <1>2, <1>3 DEF Next, Heartbeat

(* The counters of a heartbeat line belong together, from line to line they *)
(* only grow, and no line is logged once run() was left, whatever the       *)
(* workers do meanwhile and however many lines there are.                   *)
THEOREM HeartbeatTruthful == Spec => HeartbeatHonest
  <1>1. Init => ShownBehind
    <2> SUFFICES ASSUME Init PROVE ShownBehind
      OBVIOUS
    <2>1. MainInv
      BY MainInvInit
    <2> QED
      BY <2>1, SnapshotFits DEF Init, ShownBehind, MainInv
  <1>2. Spec => []ShownBehind
    BY <1>1, ShownStep, MainInvariant, PTL DEF Spec
  <1>3. MainInv /\ MainInv' /\ ShownBehind /\ [Next]_vars
           => [/\ shown' # shown => /\ shown'.settled <= shown'.scanned
                                   /\ shown'.scanned >= shown.scanned
                                   /\ shown'.settled >= shown.settled
               /\ beats' # beats => pc \in {"run", "join"}]_vars
    BY ShownStep, BeatSteps
  <1> QED
    BY <1>2, <1>3, MainInvariant, PTL DEF Spec, HeartbeatHonest

-----------------------------------------------------------------------------
(* The configuration *)

\* A mapping without one of its names reads like the whole one elsewhere.
LEMMA GetWithout ==
  ASSUME NEW d, NEW name, NEW n, NEW default
  PROVE  Get(Without(d, name), n, default) = IF n = name THEN default ELSE Get(d, n, default)
  BY DEF Get, Without

\* What a configuration is laid over.
Base(y) == IF y = None THEN Defaults ELSE FromDict(y)

\* Configuration c is b with the flags a laid over: the settings that one flag
\* sets, and the ones with a rule of their own.
LaidOver(c, a, b) ==
    /\ c["db"] = Get(a, "redis_db", b["db"])
    /\ c["url"] = Get(a, "redis_url", b["url"])
    /\ c["cluster"] = Get(a, "redis_cluster", b["cluster"])
    /\ c["hash_strategy"] = Get(a, "hash_strategy", b["hash_strategy"])
    /\ c["progress_interval"] = Get(a, "progress_interval", b["progress_interval"])
    /\ c["max_record_size"] = b["max_record_size"]
    /\ c["scan_match"] = ScanFromFlags(a, b["scan_match"])
    /\ c["hosts"] = HostsFromFlags(a, b["hosts"])
    /\ c["set_routes"] = RoutesFromFlags(a, b["set_routes"])

LEMMA BuiltFields ==
  ASSUME NEW a, NEW y
  PROVE  LaidOver(BuildConfig(a, y), a, Base(y))
  <1> DEFINE flagged(f) == {x \in DOMAIN ArgMap \cap DOMAIN a : ArgMap[x] = f}
             b == Base(y)
             plain(f) == IF flagged(f) = {} THEN b[f] ELSE a[CHOOSE x \in flagged(f) : TRUE]
  <1>1. DOMAIN b = DOMAIN Defaults
    BY DEF Base, FromDict
  <1>2. BuildConfig(a, y) =
           [f \in DOMAIN Defaults |->
               CASE f = "hosts"      -> HostsFromFlags(a, b.hosts)
                 [] f = "set_routes" -> RoutesFromFlags(a, b.set_routes)
                 [] f = "scan_match" -> ScanFromFlags(a, b.scan_match)
                 [] OTHER            -> plain(f)]
    BY <1>1 DEF BuildConfig, Base
  <1>3. /\ flagged("db") = {"redis_db"} \cap DOMAIN a
        /\ flagged("url") = {"redis_url"} \cap DOMAIN a
        /\ flagged("cluster") = {"redis_cluster"} \cap DOMAIN a
        /\ flagged("hash_strategy") = {"hash_strategy"} \cap DOMAIN a
        /\ flagged("progress_interval") = {"progress_interval"} \cap DOMAIN a
        /\ flagged("max_record_size") = {}
    BY DEF ArgMap
  <1> HIDE DEF flagged, b
  <1>4. ASSUME NEW f, NEW flag, flagged(f) = {flag} \cap DOMAIN a
        PROVE  plain(f) = Get(a, flag, b[f])
    BY <1>4 DEF Get
  <1>5. /\ plain("db") = Get(a, "redis_db", b["db"])
        /\ plain("url") = Get(a, "redis_url", b["url"])
        /\ plain("cluster") = Get(a, "redis_cluster", b["cluster"])
        /\ plain("hash_strategy") = Get(a, "hash_strategy", b["hash_strategy"])
        /\ plain("progress_interval") = Get(a, "progress_interval", b["progress_interval"])
        /\ plain("max_record_size") = b["max_record_size"]
    BY <1>3, <1>4
  <1> HIDE DEF plain
  <1>6. {"db", "url", "cluster", "hash_strategy", "progress_interval", "max_record_size",
         "scan_match", "hosts", "set_routes"} \subseteq DOMAIN Defaults
    BY DEF Defaults
  <1>7. \A f \in {"db", "url", "cluster", "hash_strategy", "progress_interval", "max_record_size"} :
           BuildConfig(a, y)[f] = plain(f)
    BY <1>2, <1>6
  <1>8. /\ BuildConfig(a, y)["scan_match"] = ScanFromFlags(a, b["scan_match"])
        /\ BuildConfig(a, y)["hosts"] = HostsFromFlags(a, b["hosts"])
        /\ BuildConfig(a, y)["set_routes"] = RoutesFromFlags(a, b["set_routes"])
    BY <1>2, <1>6
  <1> QED
    BY <1>5, <1>7, <1>8 DEF b, LaidOver

\* The settings of a document.
LEMMA BaseFields ==
  ASSUME NEW y, y # None
  PROVE  LET b == Base(y)
         IN  /\ \A f \in {"db", "url", "cluster", "hash_strategy", "progress_interval",
                          "max_record_size"} : b[f] = Get(y, f, Defaults[f])
             /\ b["scan_match"] = ScanFromDict(y)
             /\ b["hosts"] = NormalizeHosts(y)
             /\ b["set_routes"] = ParseSetRoutes(Get(y, "set_routes", <<>>))
  <1>1. {"db", "url", "cluster", "hash_strategy", "progress_interval", "max_record_size",
         "scan_match", "hosts", "set_routes"} \subseteq DOMAIN Defaults
    BY DEF Defaults
  <1> QED
    BY <1>1 DEF Base, FromDict

\* All the settings.
LEMMA FieldNames ==
  DOMAIN Defaults = {"db", "url", "cluster", "hash_strategy", "progress_interval",
                     "max_record_size", "scan_match", "hosts", "set_routes"}
  BY DEF Defaults

\* What a flag or a name stands for.
LEMMA Targets ==
  ASSUME NEW name
  PROVE  /\ TargetOf(name) # "hosts" => name \notin {"host", "port", "hosts", "aerospike_host",
                                                     "aerospike_port"}
         /\ TargetOf(name) # "scan_match" => name \notin {"key_pattern", "redis_key_pattern",
                                                          "scan_match", "redis_match"}
         /\ TargetOf(name) # "set_routes" => name \notin {"set_route", "set_routes"}
         /\ TargetOf(name) # "db" => name \notin {"db", "redis_db"}
         /\ TargetOf(name) # "url" => name \notin {"url", "redis_url"}
         /\ TargetOf(name) # "cluster" => name \notin {"cluster", "redis_cluster"}
         /\ TargetOf(name) # "hash_strategy" => name # "hash_strategy"
         /\ TargetOf(name) # "progress_interval" => name # "progress_interval"
         /\ TargetOf(name) # "max_record_size" => name # "max_record_size"
  BY DEF TargetOf, Get, ArgMap

\* A flag has an effect on no setting but the one it stands for.
LEMMA FlagIsLocal ==
  ASSUME NEW a, NEW y, NEW flag
  PROVE  SameBut(BuildConfig(a, y), BuildConfig(Without(a, flag), y), TargetOf(flag))
  <1> DEFINE less == Without(a, flag)
             c == BuildConfig(a, y)
             d == BuildConfig(less, y)
             t == TargetOf(flag)
  <1>1. \A n, default : n # flag => Get(less, n, default) = Get(a, n, default)
    BY GetWithout
  <1>0. LaidOver(c, a, Base(y)) /\ LaidOver(d, less, Base(y))
    BY BuiltFields
  <1> HIDE DEF less, c, d
  <1>2. /\ t # "db" => c["db"] = d["db"]
        /\ t # "url" => c["url"] = d["url"]
        /\ t # "cluster" => c["cluster"] = d["cluster"]
        /\ t # "hash_strategy" => c["hash_strategy"] = d["hash_strategy"]
        /\ t # "progress_interval" => c["progress_interval"] = d["progress_interval"]
        /\ c["max_record_size"] = d["max_record_size"]
    BY <1>1, <1>0, Targets DEF LaidOver
  <1>3. t # "scan_match" => c["scan_match"] = d["scan_match"]
    BY <1>1, <1>0, Targets DEF LaidOver, ScanFromFlags
  <1>4. t # "hosts" => c["hosts"] = d["hosts"]
    <2>1. ASSUME t # "hosts" PROVE DOMAIN less \cap {"aerospike_host", "aerospike_port"}
                                      = DOMAIN a \cap {"aerospike_host", "aerospike_port"}
      BY <2>1, Targets DEF Without, less
    <2>2. ASSUME t # "hosts", NEW h PROVE HostsFromFlags(less, h) = HostsFromFlags(a, h)
      BY <1>1, <2>1, <2>2, Targets DEF HostsFromFlags
    <2> QED
      BY <1>0, <2>2 DEF LaidOver
  <1>5. t # "set_routes" => c["set_routes"] = d["set_routes"]
    <2> SUFFICES ASSUME t # "set_routes" PROVE c["set_routes"] = d["set_routes"]
      OBVIOUS
    <2>1. /\ DOMAIN Get(less, "set_route", <<>>) = DOMAIN Get(a, "set_route", <<>>)
          /\ \A i \in DOMAIN Get(a, "set_route", <<>>) : less.set_route[i] = a.set_route[i]
      BY Targets DEF Without, Get, less
    <2>2. [i \in DOMAIN Get(less, "set_route", <<>>) |-> RouteOf(TokenItem(less.set_route[i]))]
             = [i \in DOMAIN Get(a, "set_route", <<>>) |-> RouteOf(TokenItem(a.set_route[i]))]
      BY <2>1
    <2> QED
      BY <1>0, <2>2 DEF LaidOver, RoutesFromFlags
  <1> HIDE DEF t
  <1>6. SameBut(c, d, t)
    BY <1>2, <1>3, <1>4, <1>5, FieldNames DEF SameBut
  <1> QED
    BY <1>6 DEF c, d, t, less

\* Neither has a name in the document.
LEMMA NameIsLocal ==
  ASSUME NEW a, NEW y, NEW name, y # None, Without(y, name) # None
  PROVE  SameBut(BuildConfig(a, y), BuildConfig(a, Without(y, name)), TargetOf(name))
  <1> DEFINE less == Without(y, name)
             b == Base(y)
             e == Base(less)
             c == BuildConfig(a, y)
             d == BuildConfig(a, less)
             t == TargetOf(name)
  <1>1. \A n, default : n # name => Get(less, n, default) = Get(y, n, default)
    BY GetWithout
  <1>2. /\ t # "db" => b["db"] = e["db"]
        /\ t # "url" => b["url"] = e["url"]
        /\ t # "cluster" => b["cluster"] = e["cluster"]
        /\ t # "hash_strategy" => b["hash_strategy"] = e["hash_strategy"]
        /\ t # "progress_interval" => b["progress_interval"] = e["progress_interval"]
        /\ t # "max_record_size" => b["max_record_size"] = e["max_record_size"]
        /\ t # "set_routes" => b["set_routes"] = e["set_routes"]
    <2> HIDE DEF less
    <2> QED
      BY <1>1, BaseFields, Targets DEF less
  <1>3. t # "scan_match" => b["scan_match"] = e["scan_match"]
    <2> HIDE DEF less
    <2> QED
      BY <1>1, BaseFields, Targets DEF ScanFromDict, less
  <1>4. t # "hosts" => b["hosts"] = e["hosts"]
    <2> SUFFICES ASSUME t # "hosts" PROVE NormalizeHosts(y) = NormalizeHosts(less)
      BY BaseFields
    <2>1. name \notin {"host", "port", "hosts"}
      BY Targets
    <2>2. /\ "host" \in DOMAIN y <=> "host" \in DOMAIN less
          /\ "hosts" \in DOMAIN y => less.hosts = y.hosts
          /\ "host" \in DOMAIN y => less.host = y.host
          /\ Get(less, "hosts", <<>>) # <<>> => "hosts" \in DOMAIN y
      BY <2>1 DEF Without, Get
    <2>3. /\ Get(less, "hosts", <<>>) = Get(y, "hosts", <<>>)
          /\ Get(less, "port", DefaultPort) = Get(y, "port", DefaultPort)
      BY <1>1, <2>1
    <2> HIDE DEF less
    <2> QED
      BY <2>2, <2>3 DEF NormalizeHosts
  <1>0. LaidOver(c, a, b) /\ LaidOver(d, a, e)
    BY BuiltFields
  <1> HIDE DEF b, e, c, d, less
  <1>5. /\ t # "db" => c["db"] = d["db"]
        /\ t # "url" => c["url"] = d["url"]
        /\ t # "cluster" => c["cluster"] = d["cluster"]
        /\ t # "hash_strategy" => c["hash_strategy"] = d["hash_strategy"]
        /\ t # "progress_interval" => c["progress_interval"] = d["progress_interval"]
        /\ t # "max_record_size" => c["max_record_size"] = d["max_record_size"]
        /\ t # "scan_match" => c["scan_match"] = d["scan_match"]
        /\ t # "hosts" => c["hosts"] = d["hosts"]
        /\ t # "set_routes" => c["set_routes"] = d["set_routes"]
    BY <1>0, <1>2, <1>3, <1>4 DEF LaidOver
  <1> HIDE DEF t
  <1>6. SameBut(c, d, t)
    BY <1>5, FieldNames DEF SameBut
  <1> QED
    BY <1>6 DEF c, d, t, less

\* The routes of the file are followed by those of the flags.
LEMMA BuiltRoutes ==
  ASSUME config = BuildConfig(args, yaml)
  PROVE  RoutesInEffect
  <1>1. config["set_routes"] = RoutesFromFlags(args, Base(yaml)["set_routes"])
    BY BuiltFields DEF LaidOver
  <1>2. Base(yaml)["set_routes"] = FileRoutes
    <2>1. CASE yaml = None
      BY <2>1 DEF Base, Defaults, FileRoutes
    <2>2. CASE yaml # None
      BY <2>2, BaseFields DEF FileRoutes
    <2> QED
      BY <2>1, <2>2
  <1> QED
    BY <1>1, <1>2 DEF RoutesInEffect, RoutesFromFlags, PassedRoutes

\* Every flag has its value in effect.
LEMMA FlagsInEffect ==
  ASSUME config = BuildConfig(args, yaml), NEW flag \in DOMAIN args
  PROVE  InEffect(flag)
  <1>1. LaidOver(config, args, Base(yaml))
    BY BuiltFields
  <1>0. /\ DOMAIN ArgMap = {"redis_db", "redis_url", "redis_cluster", "redis_match", "hash_strategy",
                            "progress_interval"}
        /\ ArgMap["redis_db"] = "db" /\ ArgMap["redis_url"] = "url"
        /\ ArgMap["redis_cluster"] = "cluster" /\ ArgMap["redis_match"] = "scan_match"
        /\ ArgMap["hash_strategy"] = "hash_strategy"
        /\ ArgMap["progress_interval"] = "progress_interval"
    BY DEF ArgMap
  <1>2. CASE flag \in {"aerospike_host", "aerospike_port"}
    <2> DEFINE host == Get(args, "aerospike_host", Base(yaml)["hosts"][1].host)
               port == Get(args, "aerospike_port", Base(yaml)["hosts"][1].port)
    <2>1. config.hosts = <<[host |-> host, port |-> port]>>
      BY <1>1, <1>2 DEF LaidOver, HostsFromFlags, Node
    <2>2. /\ flag = "aerospike_host" => host = args[flag]
          /\ flag = "aerospike_port" => port = args[flag]
      BY DEF Get
    <2> HIDE DEF host, port
    <2>3. \A i \in DOMAIN config.hosts : config.hosts[i].host = host /\ config.hosts[i].port = port
      BY <2>1
    <2>4. CASE flag = "aerospike_host"
      BY <1>0, <2>2, <2>3, <2>4 DEF InEffect
    <2>5. CASE flag = "aerospike_port"
      BY <1>0, <2>2, <2>3, <2>5 DEF InEffect
    <2> QED
      BY <1>2, <2>4, <2>5
  <1>3. CASE flag = "redis_key_pattern"
    <2>1. "redis_match" \notin DOMAIN args => config.scan_match = args[flag]
      BY <1>1, <1>3 DEF LaidOver, ScanFromFlags, Get
    <2>2. InEffect(flag) <=> "redis_match" \in DOMAIN args \/ config.scan_match = args[flag]
      BY <1>0, <1>3 DEF InEffect
    <2> QED
      BY <2>1, <2>2
  <1>4. CASE flag \in DOMAIN ArgMap
    <2>1. config[ArgMap[flag]] = args[flag]
      BY <1>1, <1>4, <1>0 DEF LaidOver, ScanFromFlags, Get
    <2> QED
      BY <1>0, <1>4, <2>1 DEF InEffect
  <1>5. CASE flag = "set_route"
    BY <1>0, <1>5, BuiltRoutes DEF InEffect
  <1>6. CASE flag \notin DOMAIN ArgMap \cup {"aerospike_host", "aerospike_port", "redis_key_pattern",
                                           "set_route"}
    BY <1>6 DEF InEffect
  <1> QED
    BY <1>2, <1>3, <1>4, <1>5, <1>6

(* The file is the base and the flags override it: every flag is in effect, *)
(* nothing that is passed or written has an effect elsewhere, and the       *)
(* routes are those of the file and then those of --set-route.              *)
THEOREM FlagsOverrideFile == Spec => []Precedence
  <1>1. MainInv => Precedence
    <2> SUFFICES ASSUME MainInv, pc = "clients" PROVE Precedence
      BY DEF Precedence
    <2>1. config = BuildConfig(args, yaml) /\ yaml # NotMapping /\ TypeOK
      BY DEF MainInv, ConfigKept, BuildRaises
    <2>2. \A flag \in DOMAIN args :
             /\ InEffect(flag)
             /\ SameBut(config, BuildConfig(Without(args, flag), yaml), TargetOf(flag))
      BY <2>1, FlagsInEffect, FlagIsLocal
    <2>3. ASSUME yaml # None, NEW name \in DOMAIN yaml
          PROVE  SameBut(config, BuildConfig(args, Without(yaml, name)), TargetOf(name))
      BY <2>1, <2>3, NameIsLocal DEF TypeOK
    <2>4. RoutesInEffect
      BY <2>1, BuiltRoutes
    <2> QED
      BY <2>2, <2>3, <2>4 DEF Precedence
  <1> QED
    BY MainInvariant, <1>1, PTL

\* What the document made of an environment has under each name.
LEMMA DocumentOf ==
  ASSUME DOMAIN env \subseteq EnvNames
  PROVE  /\ \A default : \A n \in {"db", "port", "max_record_size", "progress_interval"} :
                Get(AsDocument, n, default) = Number(env, n, default)
         /\ \A default : \A n \in {"scan_match", "host", "hash_strategy"} :
                Get(AsDocument, n, default) = Get(env, n, default)
         /\ Get(AsDocument, "url", None) = IF Get(env, "url", "") = "" THEN None ELSE env.url
         /\ \A default : Get(AsDocument, "cluster", default) = AsBool(Get(env, "cluster", ""), default)
         /\ \A default : /\ Get(AsDocument, "set_routes", default) = default
                         /\ Get(AsDocument, "hosts", default) = default
                         /\ Get(AsDocument, "key_pattern", default) = default
         /\ "host" \in DOMAIN AsDocument <=> "host" \in DOMAIN env
  <1> DEFINE doc == AsDocument
  <1>1. DOMAIN doc = DOMAIN env \ Idle
    BY DEF AsDocument
  <1>2. /\ "url" \in Idle => env["url"] = ""
        /\ "url" \in DOMAIN doc => env["url"] # ""
        /\ "cluster" \in Idle => env["cluster"] \notin TrueWords \cup FalseWords
        /\ "cluster" \in DOMAIN doc => env["cluster"] \in TrueWords \cup FalseWords
        /\ \A n \in DOMAIN env : n \notin {"url", "cluster"} => n \in DOMAIN doc
    BY <1>1 DEF Idle
  <1>3. /\ \A n \in DOMAIN doc \cap {"db", "port", "max_record_size", "progress_interval"} :
               doc[n] = Numbers[env[n]]
        /\ \A n \in DOMAIN doc \cap {"scan_match", "host", "hash_strategy", "url"} : doc[n] = env[n]
        /\ "cluster" \in DOMAIN doc => doc["cluster"] = (env["cluster"] \in TrueWords)
    BY <1>1 DEF AsDocument
  <1>4. DOMAIN doc \subseteq DOMAIN env
    BY <1>1
  <1>5. "set_routes" \notin DOMAIN env /\ "hosts" \notin DOMAIN env /\ "key_pattern" \notin DOMAIN env
    BY DEF EnvNames
  <1> HIDE DEF doc
  <1>6. \A default : \A n \in {"db", "port", "max_record_size", "progress_interval"} :
           Get(doc, n, default) = Number(env, n, default)
    BY <1>2, <1>3, <1>4 DEF Get, Number
  <1>7. \A default : \A n \in {"scan_match", "host", "hash_strategy"} :
           Get(doc, n, default) = Get(env, n, default)
    BY <1>2, <1>3, <1>4 DEF Get
  <1>8. Get(doc, "url", None) = IF Get(env, "url", "") = "" THEN None ELSE env.url
    BY <1>1, <1>2, <1>3, <1>4 DEF Get, doc
  <1>9. ASSUME NEW default
        PROVE  Get(doc, "cluster", default) = AsBool(Get(env, "cluster", ""), default)
    <2>1. "" \notin TrueWords /\ "" \notin FalseWords
      BY DEF TrueWords, FalseWords
    <2>2. CASE "cluster" \in DOMAIN doc
      <3>1. "cluster" \in DOMAIN env /\ env["cluster"] \in TrueWords \cup FalseWords
        BY <1>2, <1>4, <2>2
      <3>2. TrueWords \cap FalseWords = {}
        BY DEF TrueWords, FalseWords
      <3>3. CASE env["cluster"] \in TrueWords
        <4>1. doc["cluster"] = TRUE
          BY <1>3, <2>2, <3>3
        <4> QED
          BY <2>2, <3>1, <3>3, <4>1 DEF Get, AsBool
      <3>4. CASE env["cluster"] \notin TrueWords
        <4>0. (env["cluster"] \in TrueWords) = FALSE
          BY <3>4
        <4>1. doc["cluster"] = FALSE
          BY <1>3, <2>2, <4>0
        <4> QED
          BY <2>2, <3>1, <3>4, <4>1 DEF Get, AsBool
      <3> QED
        BY <3>3, <3>4
    <2>3. CASE "cluster" \in DOMAIN env /\ "cluster" \notin DOMAIN doc
      <3>1. "cluster" \in Idle
        BY <1>1, <2>3 DEF doc
      <3> QED
        BY <1>2, <2>3, <3>1 DEF Get, AsBool
    <2>4. CASE "cluster" \notin DOMAIN env
      BY <1>4, <2>1, <2>4 DEF Get, AsBool
    <2> QED
      BY <2>2, <2>3, <2>4
  <1>10. ASSUME NEW default
         PROVE  /\ Get(doc, "set_routes", default) = default
                /\ Get(doc, "hosts", default) = default
                /\ Get(doc, "key_pattern", default) = default
    BY <1>4, <1>5 DEF Get
  <1>11. "host" \in DOMAIN doc <=> "host" \in DOMAIN env
    BY <1>2, <1>4
  <1> QED
    BY <1>6, <1>7, <1>8, <1>9, <1>10, <1>11 DEF doc

(* The environment and a document that says the same give the same          *)
(* configuration, or are both refused.                                      *)
THEOREM EnvironmentAsDocument == Spec => []EnvironmentAgrees
  <1>1. MainInv => EnvironmentAgrees
    <2> SUFFICES ASSUME MainInv,
                        "port" \in DOMAIN env => "host" \in DOMAIN env,
                        \A n \in DOMAIN env \cap {"db", "port", "max_record_size", "progress_interval"} :
                            env[n] \in DOMAIN Numbers
                 PROVE  /\ EnvRaises(env) <=> DictRaises(AsDocument)
                        /\ FromEnv(env) = FromDict(AsDocument)
      BY DEF EnvironmentAgrees
    <2> DEFINE doc == AsDocument
    <2>1. /\ \A default : \A n \in {"db", "port", "max_record_size", "progress_interval"} :
                Get(doc, n, default) = Number(env, n, default)
          /\ \A default : \A n \in {"scan_match", "host", "hash_strategy"} :
                Get(doc, n, default) = Get(env, n, default)
          /\ Get(doc, "url", None) = IF Get(env, "url", "") = "" THEN None ELSE env.url
          /\ \A default : Get(doc, "cluster", default) = AsBool(Get(env, "cluster", ""), default)
          /\ \A default : /\ Get(doc, "set_routes", default) = default
                          /\ Get(doc, "hosts", default) = default
                          /\ Get(doc, "key_pattern", default) = default
          /\ "host" \in DOMAIN doc <=> "host" \in DOMAIN env
      BY DocumentOf DEF MainInv, TypeOK
    <2> HIDE DEF doc
    <2>0. Get(doc, "set_routes", <<>>) = <<>> /\ Get(doc, "hosts", <<>>) = <<>>
      BY <2>1
    <2>2. EnvRaises(env) <=> DictRaises(doc)
      <3>1. Get(doc, "hash_strategy", "map_bin") = Get(env, "hash_strategy", "map_bin")
        BY <2>1
      <3>2. DictRaises(doc) <=> Get(doc, "hash_strategy", "map_bin") \notin HashStrategies
        BY <2>0 DEF DictRaises
      <3>3. EnvRaises(env) <=> Get(env, "hash_strategy", "map_bin") \notin HashStrategies
        BY DEF EnvRaises
      <3> QED
        BY <3>1, <3>2, <3>3
    <2>3. NormalizeHosts(doc) = HostsFromEnv(env)
      <3>1. Defaults.hosts = <<Node("localhost", DefaultPort)>>
        BY DEF Defaults
      <3>2. CASE "host" \in DOMAIN env
        <4>1. doc.host = env.host
          BY <2>1, <3>2 DEF Get
        <4> QED
          BY <2>0, <2>1, <3>2, <4>1 DEF NormalizeHosts, HostsFromEnv, Get
      <3>3. CASE "host" \notin DOMAIN env
        <4>1. NormalizeHosts(doc) = <<Node("localhost", DefaultPort)>>
          BY <2>0, <2>1, <3>1, <3>3 DEF NormalizeHosts
        <4>2. Defaults.hosts[1].host = "localhost"
          BY <3>1 DEF Node
        <4>3. HostsFromEnv(env) = <<Node("localhost", DefaultPort)>>
          BY <3>3, <4>2 DEF HostsFromEnv, Get, Number
        <4> QED
          BY <4>1, <4>3
      <3> QED
        BY <3>2, <3>3
    <2>4. ParseSetRoutes(Get(doc, "set_routes", <<>>)) = <<>>
      BY <2>0 DEF ParseSetRoutes
    <2>5. ScanFromDict(doc) = Get(env, "scan_match", Defaults.scan_match)
      BY <2>1 DEF ScanFromDict
    <2>6. Defaults.url = None
      BY DEF Defaults
    <2>7. \A f \in DOMAIN Defaults : FromDict(doc)[f] = FromEnv(env)[f]
      <3>1. /\ \A f \in {"db", "url", "cluster", "hash_strategy", "progress_interval", "max_record_size"} :
                   FromDict(doc)[f] = Get(doc, f, Defaults[f])
            /\ FromDict(doc)["scan_match"] = ScanFromDict(doc)
            /\ FromDict(doc)["hosts"] = NormalizeHosts(doc)
            /\ FromDict(doc)["set_routes"] = ParseSetRoutes(Get(doc, "set_routes", <<>>))
        BY FieldNames DEF FromDict
      <3> QED
        <4>1. /\ FromDict(doc)["db"] = FromEnv(env)["db"]
              /\ FromDict(doc)["max_record_size"] = FromEnv(env)["max_record_size"]
              /\ FromDict(doc)["progress_interval"] = FromEnv(env)["progress_interval"]
          BY <2>1, <3>1 DEF FromEnv
        <4>2. FromDict(doc)["hash_strategy"] = FromEnv(env)["hash_strategy"]
          BY <2>1, <3>1 DEF FromEnv
        <4>3. FromDict(doc)["cluster"] = FromEnv(env)["cluster"]
          BY <2>1, <3>1 DEF FromEnv
        <4>4. FromDict(doc)["url"] = FromEnv(env)["url"]
          BY <2>1, <2>6, <3>1 DEF FromEnv
        <4>5. /\ FromDict(doc)["hosts"] = FromEnv(env)["hosts"]
              /\ FromDict(doc)["set_routes"] = FromEnv(env)["set_routes"]
              /\ FromDict(doc)["scan_match"] = FromEnv(env)["scan_match"]
          BY <2>3, <2>4, <2>5, <3>1 DEF FromEnv
        <4> QED
          BY <4>1, <4>2, <4>3, <4>4, <4>5, FieldNames
    <2>8. FromEnv(env) = [f \in DOMAIN Defaults |-> FromEnv(env)[f]]
      BY FieldNames DEF FromEnv
    <2>9. FromDict(doc) = [f \in DOMAIN Defaults |-> FromDict(doc)[f]]
      BY DEF FromDict
    <2> QED
      BY <2>2, <2>7, <2>8, <2>9 DEF doc
  <1> QED
    BY MainInvariant, <1>1, PTL
=============================================================================
