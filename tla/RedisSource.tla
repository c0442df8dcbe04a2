---------------------------- MODULE RedisSource ----------------------------
(***************************************************************************)
(* RedisSource.iter_records, reading a Redis that other clients go on      *)
(* using.                                                                  *)
(*                                                                         *)
(* A batch of keys comes from SCAN (or, in a cluster, from the stream that *)
(* scan_iter makes of the SCANs of all primaries); one pipeline reads type *)
(* and PTTL of each key, a second one the values, with the command that    *)
(* fits the type read before.  The pipelines are not transactions: other   *)
(* clients write, delete and expire keys between any two commands.         *)
(*                                                                         *)
(* Each write gets a number of its own, its version, which stands for the  *)
(* value and for the remaining time of the key; so do the values that are  *)
(* there at the start.  Keys are the ones that match scan_match.           *)
(*   Decoding a key (str if it is UTF-8, otherwise bytes) maps  *)
(* different keys to different keys, so it does not show here.             *)
(***************************************************************************)
EXTENDS Integers, Sequences, FiniteSets, SequencesExt

CONSTANTS
    Keys,         \* the keys that match scan_match
    Types,        \* the types that writes may give a key
    Modes,        \* the values of config.cluster to consider
    BatchSize,    \* scan_batch
    MaxPage,      \* bound of the model: keys in an answer of SCAN
    MaxPages,     \* bound of the model: answers of SCAN
    MaxStream,    \* bound of the model: keys that scan_iter yields
    MaxWrites     \* bound of the model: writes and removals by other clients

\* The types of which an empty value means that the key is gone.
Collections == {"hash", "list", "set", "zset"}

ASSUME SourceAssumption ==
    /\ Types \subseteq Collections \cup {"string", "stream"}
    /\ IsFiniteSet(Keys)
    /\ Modes \subseteq BOOLEAN
    /\ BatchSize \in Nat \ {0}
    /\ MaxPage \in Nat /\ MaxPages \in Nat /\ MaxStream \in Nat /\ MaxWrites \in Nat

VARIABLES
    cluster,     \* config.cluster
    db,          \* db[k]: what key k holds
    writes,      \* how many writes other clients made
    steady,      \* the keys nobody has touched since the iteration began
    past,        \* past[k]: every value k has held since the iteration began
    due,         \* the keys SCAN still has to return
    scans,       \* how many answers SCAN, or keys scan_iter, has given
    pc,          \* "scan", "types", "values", "done" or "raised"
    last,        \* the cursor is 0 again, or scan_iter is exhausted
    chunk,       \* cluster: the keys collected for the next batch
    batch,       \* the keys being read
    commands,    \* the commands of the pipeline being executed, by number
    replies,     \* replies[i]: the answer to commands[i], once it was run
    known,       \* the types and TTLs read for the batch, by position
    yielded      \* the records yielded so far

clients == <<db, writes, steady, past>>
scanning == <<cluster, scans, last, chunk>>
reading == <<batch, commands, replies, known>>
vars == <<clients, due, scanning, pc, reading, yielded>>

\* What a key that does not exist reads as.
Missing == [type |-> "none", version |-> 0, expires |-> FALSE]

Held(v) == [type : Types, version : {v}, expires : BOOLEAN]

Present == {k \in Keys : db[k] # Missing}

NoReplies == [i \in {} |-> 0]

Init ==
    /\ cluster \in Modes
    /\ \E held \in [Keys -> Held(1) \cup {Missing}],
          number \in Bijection(Keys, 1 .. Cardinality(Keys)) :
           db = [k \in Keys |-> IF held[k] = Missing THEN Missing
                               ELSE [held[k] EXCEPT !.version = number[k]]]
    /\ writes = 0
    /\ steady = Keys
    /\ past = [k \in Keys |-> {db[k]} \ {Missing}]
    /\ due = Present
    /\ scans = 0
    /\ pc = "scan"
    /\ last = FALSE
    /\ chunk = <<>>
    /\ batch = <<>>
    /\ commands = <<>>
    /\ replies = NoReplies
    /\ known = <<>>
    /\ yielded = {}

-----------------------------------------------------------------------------
(* Redis and its other clients *)

Touch(k, held) ==
    /\ pc \in {"scan", "types", "values"}
    /\ writes < MaxWrites
    /\ writes' = writes + 1
    /\ db' = [db EXCEPT ![k] = held]
    /\ steady' = steady \ {k}
    /\ past' = [past EXCEPT ![k] = @ \cup ({held} \ {Missing})]
    /\ UNCHANGED <<scanning, pc, reading, yielded>>

\* Another client writes k, over whatever it holds.
ClientWrites(k) ==
    /\ \E held \in Held(Cardinality(Keys) + writes + 1) : Touch(k, held)
    /\ UNCHANGED due

\* k is deleted or expires; SCAN need not return it any more.
ClientRemoves(k) ==
    /\ k \in Present
    /\ Touch(k, Missing)
    /\ due' = due \ {k}

\* What Redis answers to a command.  PTTL says -2 for a key that is not there
\* and -1 for one without expiry; the version stands for the time it has left.
Reply(cmd) ==
    LET held == db[cmd.key]
    IN  CASE cmd.op = "TYPE"   -> held.type
          [] cmd.op = "PTTL"   -> IF held = Missing THEN -2
                                  ELSE IF held.expires THEN held.version ELSE -1
          [] cmd.op = "EXISTS" -> [type |-> "count", version |-> IF held = Missing THEN 0 ELSE 1]
          [] OTHER             -> IF held = Missing \/ held.type = cmd.op
                                  THEN [type |-> held.type, version |-> held.version]
                                  ELSE [type |-> "WRONGTYPE", version |-> 0]

\* Which command may run next: they run in the order sent, except that in a
\* cluster each node runs the ones of its keys.
Runs(i) == \A j \in DOMAIN commands :
               j < i /\ (~cluster \/ commands[j].key = commands[i].key) => j \in DOMAIN replies

Execute ==
    /\ pc \in {"types", "values"}
    /\ \E i \in DOMAIN commands \ DOMAIN replies :
           /\ Runs(i)
           /\ replies' = [j \in DOMAIN replies \cup {i} |->
                             IF j = i THEN Reply(commands[i]) ELSE replies[j]]
    /\ UNCHANGED <<clients, due, scanning, pc, batch, commands, known, yielded>>

Executed == DOMAIN replies = DOMAIN commands

-----------------------------------------------------------------------------
(* The iterator *)

\* _fetch_types_and_ttls: TYPE and PTTL of each key.
TypeCommands(keys) ==
    [i \in 1 .. 2 * Len(keys) |->
        [op |-> IF i % 2 = 1 THEN "TYPE" ELSE "PTTL", key |-> keys[(i + 1) \div 2]]]

\* A batch of keys arrives: its types are asked for, unless it is empty.
StartBatch(keys, ended) ==
    /\ last' = ended
    /\ batch' = keys
    /\ commands' = TypeCommands(keys)
    /\ replies' = NoReplies
    /\ known' = <<>>
    /\ pc' = IF keys # <<>> THEN "types" ELSE IF ended THEN "done" ELSE "scan"

\* SCAN answers with keys that exist, perhaps none and perhaps some again, and
\* ends (cursor 0) only after all the keys that were there throughout.
ScanPage ==
    /\ pc = "scan"
    /\ ~cluster
    /\ scans < MaxPages
    /\ scans' = scans + 1
    /\ \E keys \in BoundedSeq(Present, MaxPage), ended \in BOOLEAN :
           /\ due' = due \ ToSet(keys)
           /\ ended => due' = {}
           /\ StartBatch(keys, ended)
    /\ UNCHANGED <<cluster, clients, chunk, yielded>>

\* The chunk makes a batch.
Full(keys) == Len(keys) >= BatchSize

\* Cluster: scan_iter yields one more key, which may complete a batch.
ScanIterYields ==
    /\ pc = "scan"
    /\ cluster
    /\ scans < MaxStream
    /\ scans' = scans + 1
    /\ \E k \in Present :
           /\ due' = due \ {k}
           /\ IF Full(Append(chunk, k))
              THEN StartBatch(Append(chunk, k), FALSE) /\ chunk' = <<>>
              ELSE chunk' = Append(chunk, k) /\ UNCHANGED <<last, pc, reading>>
    /\ UNCHANGED <<cluster, clients, yielded>>

\* Mutant of Rest: the last, incomplete chunk is dropped.
RestDropped == <<>>

\* What is left in the chunk when the stream ends is the last batch.
Rest == chunk

\* Cluster: scan_iter is exhausted.
ScanIterEnds ==
    /\ pc = "scan"
    /\ cluster
    /\ due = {}
    /\ StartBatch(Rest, TRUE)
    /\ chunk' = <<>>
    /\ UNCHANGED <<cluster, clients, due, scans, yielded>>

\* What the first pipeline read for the i-th key of the batch; a negative PTTL
\* is no TTL (0), whether the key has no expiry or is gone.
KnownAt(i) ==
    [type |-> replies[2 * i - 1],
     ttl  |-> IF replies[2 * i] >= 0 THEN replies[2 * i] ELSE 0]

\* The position at which a dictionary built in the order of keys got its entry
\* for k: the last one.
LastAt(keys, k) == CHOOSE i \in DOMAIN keys :
                       keys[i] = k /\ \A j \in DOMAIN keys : j > i => keys[j] # k

\* The entry for k of the dictionaries types and ttls.
About(entries, k) == entries[LastAt(batch, k)]

\* ordered_keys: the keys that a command of the second pipeline is sent for,
\* the ones of an unsupported type included, each at its position in the batch.
OrderedKeys(entries, keys) ==
    [i \in {j \in DOMAIN keys : About(entries, keys[j]).type # "none"} |-> keys[i]]

\* The command that reads a value of that type; a placeholder if it is unknown.
ReadOf(type) == IF type = "stream" THEN "EXISTS" ELSE type

\* The first pipeline is done: _fetch_values sends the second one.
FetchValues ==
    /\ pc = "types"
    /\ Executed
    /\ known' = [i \in DOMAIN batch |-> KnownAt(i)]
    /\ LET keys == OrderedKeys(known', batch)
       IN  commands' = [i \in DOMAIN keys |->
               [key |-> keys[i], op |-> ReadOf(About(known', keys[i]).type)]]
    /\ replies' = NoReplies
    /\ pc' = "values"
    /\ UNCHANGED <<clients, due, scanning, batch, yielded>>

\* Mutant of ValueOf: the answers are zipped one place off.
ValueOfNext(k) ==
    LET i == LastAt([j \in DOMAIN commands |-> commands[j].key], k)
    IN  replies[IF i + 1 \in DOMAIN replies THEN i + 1 ELSE i]

\* The dictionary zipped from ordered_keys and the answers, which come in the
\* order of the commands: its entry for k is the answer at k's last position.
ValueOf(k) == replies[LastAt([i \in DOMAIN commands |-> commands[i].key], k)]

\* _is_vanished: the value read is None, or an empty collection.
Vanished(type, value) == type \in Collections \cup {"string"} /\ value.version = 0

\* The batch is over, and with it what was read for it.
DropBatch == batch' = <<>> /\ commands' = <<>> /\ replies' = NoReplies /\ known' = <<>>

\* The second pipeline is done: the batch's records are yielded, or execute
\* raises because one of its commands did not fit the type of its key.
YieldBatch ==
    LET found == {k \in ToSet(batch) : About(known, k).type # "none"}
    IN  /\ pc = "values"
        /\ Executed
        /\ IF \E i \in DOMAIN replies : replies[i].type = "WRONGTYPE"
           THEN /\ pc' = "raised"
                /\ UNCHANGED yielded
           ELSE /\ yielded' = yielded \cup
                       {[key |-> k, type |-> About(known, k).type,
                         value |-> ValueOf(k), ttl |-> About(known, k).ttl] :
                           k \in {f \in found : ~Vanished(About(known, f).type, ValueOf(f))}}
                /\ pc' = IF last THEN "done" ELSE "scan"
        /\ DropBatch
        /\ UNCHANGED <<clients, due, scanning>>

\* A call of the client raises: so does the iterator.
ConnectionFails ==
    /\ pc \in {"scan", "types", "values"}
    /\ pc' = "raised"
    /\ DropBatch
    /\ UNCHANGED <<clients, due, scanning, yielded>>

\* The iteration is over, or the bound on its pages is reached.
Over ==
    /\ pc \in {"done", "raised"} \/ (pc = "scan" /\ ~cluster /\ scans = MaxPages)
       \/ (pc = "scan" /\ cluster /\ scans = MaxStream)
    /\ UNCHANGED vars

Next ==
    \/ \E k \in Keys : ClientWrites(k) \/ ClientRemoves(k)
    \/ Execute
    \/ ScanPage \/ ScanIterYields \/ ScanIterEnds
    \/ FetchValues \/ YieldBatch
    \/ ConnectionFails
    \/ Over

Spec == Init /\ [][Next]_vars

-----------------------------------------------------------------------------
(* Properties *)

\* Every record yielded is made of what its own key held: its value is one
\* that this key has had, of the record's type (no None, no empty collection,
\* no answer to a neighbour's command), and its TTL is that of a value that
\* this key has had; iter_records matches answers with keys by position, over
\* two pipelines, repeated keys and keys that are gone by then.
ValuesFit ==
    \A r \in yielded :
        /\ IF r.type = "stream" THEN r.value.type = "count"
           ELSE \E v \in past[r.key] :
                    r.type = v.type /\ r.value = [type |-> v.type, version |-> v.version]
        /\ r.ttl # 0 => \E v \in past[r.key] : v.expires /\ r.ttl = v.version

\* A key that nobody touches while the iteration runs is yielded, and exactly
\* as it is in Redis, whatever happens to the other keys of its batches.
SteadyKeysExact ==
    \A k \in steady :
        /\ \A r \in yielded : r.key = k =>
               /\ db[k] # Missing
               /\ r.type = db[k].type
               /\ r.type # "stream" => r.value.version = db[k].version
               /\ r.ttl = IF db[k].expires THEN db[k].version ELSE 0
        /\ pc = "done" /\ db[k] # Missing => \E r \in yielded : r.key = k

\* RedisRecord: "None means the key has no TTL": a record without TTL is of a
\* key that had no expiry at some moment.
NoTtlIsTrue == \A r \in yielded : r.ttl = 0 => \E v \in past[r.key] : ~v.expires
=============================================================================
