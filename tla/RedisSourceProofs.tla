------------------------- MODULE RedisSourceProofs -------------------------
(***************************************************************************)
(* Every record that iter_records yields has a value and a TTL that its    *)
(* own key has had, and a key that nobody touches is yielded, exactly as it is, for   *)
(* any keys, batch sizes and writes by other clients.                      *)
(***************************************************************************)
EXTENDS RedisSource, LeastNumber, FiniteSetTheorems

\* What a key may hold.
Values == [type : Types, version : Nat \ {0}, expires : BOOLEAN]

TypeOK ==
    /\ cluster \in BOOLEAN /\ last \in BOOLEAN
    /\ db \in [Keys -> Values \cup {Missing}]
    /\ past \in [Keys -> SUBSET Values]
    /\ writes \in Nat
    /\ steady \subseteq Keys /\ due \subseteq Keys
    /\ pc \in {"scan", "types", "values", "done", "raised"}
    /\ chunk \in Seq(Keys) /\ batch \in Seq(Keys)
    /\ \A r \in yielded : r.key \in Keys

\* The past of a key includes what it holds.
PastIsKept == \A k \in Keys : db[k] # Missing => db[k] \in past[k]

\* A TTL that was read of k is that of a value that k has had.
TtlOfPast(k, ttl) == ttl # 0 => \E v \in past[k] : v.expires /\ ttl = v.version

\* The remaining time that belongs to a value, as it is recorded.
TtlOf(held) == IF held.expires THEN held.version ELSE 0

\* The first pipeline and its answers.
AskingTypes ==
    pc = "types" =>
        /\ commands = TypeCommands(batch)
        /\ DOMAIN replies \subseteq DOMAIN commands
        /\ \A i \in DOMAIN replies :
               /\ commands[i].op = "TYPE" => replies[i] \in Types \cup {"none"}
               /\ commands[i].op = "PTTL" =>
                      replies[i] \in Int /\ (replies[i] >= 0 => TtlOfPast(commands[i].key, replies[i]))

\* The answer to a command that reads a value of k: one that k has had and that
\* is of the type the command is for, unless nothing is there.
Fits(k, op, reply) ==
    IF op = "EXISTS" THEN reply.type = "count"
    ELSE \/ reply.version = 0
         \/ \E v \in past[k] : v.type = op /\ reply = [type |-> v.type, version |-> v.version]

\* The second pipeline and its answers.
ReadingValues ==
    pc = "values" =>
        /\ known \in [DOMAIN batch -> [type : Types \cup {"none"}, ttl : Nat]]
        /\ \A i \in DOMAIN batch : TtlOfPast(batch[i], known[i].ttl)
        /\ commands = [i \in {j \in DOMAIN batch : About(known, batch[j]).type # "none"} |->
                          [key |-> batch[i], op |-> ReadOf(About(known, batch[i]).type)]]
        /\ DOMAIN replies \subseteq DOMAIN commands
        /\ \A i \in DOMAIN replies : Fits(commands[i].key, commands[i].op, replies[i])

\* What was read of a key that nobody has touched is what it holds.
ReadsCurrent ==
    /\ pc \in {"types", "values"} =>
           \A i \in DOMAIN replies : commands[i].key \in steady => replies[i] = Reply(commands[i])
    /\ pc = "values" =>
           \A i \in DOMAIN batch : batch[i] \in steady =>
               known[i] = [type |-> db[batch[i]].type, ttl |-> TtlOf(db[batch[i]])]

\* Where the iteration is with a key.
OnTheWay(k) ==
    \/ k \in due
    \/ \E i \in DOMAIN chunk : chunk[i] = k
    \/ \E i \in DOMAIN batch : batch[i] = k
    \/ \E r \in yielded : r.key = k

NoneForgotten == pc # "raised" => \A k \in steady : db[k] # Missing => OnTheWay(k)

\* The last batch comes after all the keys.
EndsInOrder ==
    /\ pc \in {"scan", "done"} => batch = <<>>
    /\ pc = "scan" => ~last
    /\ pc = "done" => last
    /\ last => due = {} /\ chunk = <<>>
    /\ ~cluster => chunk = <<>>

\* A yielded record of a key that nobody has touched is what it holds.
YieldedCurrent ==
    \A r \in yielded : r.key \in steady =>
        /\ db[r.key] # Missing
        /\ r.type = db[r.key].type
        /\ r.type # "stream" => r.value.version = db[r.key].version
        /\ r.ttl = TtlOf(db[r.key])

SourceInv ==
    /\ TypeOK
    /\ PastIsKept
    /\ AskingTypes
    /\ ReadingValues
    /\ ReadsCurrent
    /\ NoneForgotten
    /\ EndsInOrder
    /\ YieldedCurrent
    /\ ValuesFit

-----------------------------------------------------------------------------
(* Operators *)

\* The types are none of the words of the protocol.
LEMMA TypeNames ==
  ASSUME NEW t \in Types
  PROVE  t \notin {"none", "EXISTS", "TYPE", "PTTL", "count", "WRONGTYPE"}
  BY SourceAssumption DEF Collections

\* Of a key that is there, a dictionary has the last entry.
LEMMA LastAtFound ==
  ASSUME NEW n \in Nat, NEW f, DOMAIN f \subseteq 1 .. n, NEW i \in DOMAIN f, NEW k, f[i] = k
  PROVE  LastAt(f, k) \in DOMAIN f /\ f[LastAt(f, k)] = k
  <1> DEFINE S == {j \in DOMAIN f : f[j] = k}
  <1>1. S \in SUBSET (0 .. n) /\ S # {}
    OBVIOUS
  <1>2. PICK m \in S : \A j \in S : j <= m
    <2> HIDE DEF S
    <2> QED
      BY <1>1, GreatestElement
  <1>3. m \in DOMAIN f /\ f[m] = k /\ \A j \in DOMAIN f : j > m => f[j] # k
    BY <1>2
  <1> QED
    BY <1>3 DEF LastAt

\* Each key of a batch has an entry among the types and the TTLs.
LEMMA AboutFound ==
  ASSUME TypeOK, NEW k, \E i \in DOMAIN batch : batch[i] = k
  PROVE  LastAt(batch, k) \in DOMAIN batch /\ batch[LastAt(batch, k)] = k
  <1>1. Len(batch) \in Nat /\ DOMAIN batch = 1 .. Len(batch)
    BY DEF TypeOK
  <1> QED
    BY <1>1, LastAtFound

\* What Redis answers.
LEMMA ReplyFits ==
  ASSUME TypeOK, PastIsKept, NEW cmd, cmd.key \in Keys
  PROVE  /\ cmd.op = "TYPE" => Reply(cmd) = db[cmd.key].type /\ Reply(cmd) \in Types \cup {"none"}
         /\ cmd.op = "PTTL" =>
                /\ Reply(cmd) \in Int
                /\ (IF Reply(cmd) >= 0 THEN Reply(cmd) ELSE 0) = TtlOf(db[cmd.key])
                /\ Reply(cmd) >= 0 => TtlOfPast(cmd.key, Reply(cmd))
         /\ cmd.op \in Types \cup {"EXISTS"} => Fits(cmd.key, cmd.op, Reply(cmd))
         /\ cmd.op \in Types /\ db[cmd.key].type = cmd.op =>
                Reply(cmd) = [type |-> db[cmd.key].type, version |-> db[cmd.key].version]
  <1> DEFINE held == db[cmd.key]
  <1>1. held \in Values \/ held = Missing
    BY DEF TypeOK
  <1>2. /\ held # Missing => /\ held.type \in Types /\ held.version \in Nat \ {0}
                             /\ held.expires \in BOOLEAN /\ held \in past[cmd.key]
        /\ Missing.type = "none" /\ Missing.version = 0 /\ Missing.expires = FALSE
    BY <1>1 DEF Values, Missing, PastIsKept
  <1>3. CASE cmd.op = "TYPE"
    BY <1>2, <1>3, TypeNames DEF Reply
  <1>4. CASE cmd.op = "PTTL"
    BY <1>2, <1>4, TypeNames DEF Reply, TtlOf, TtlOfPast
  <1>5. CASE cmd.op = "EXISTS"
    BY <1>2, <1>5, TypeNames DEF Reply, Fits
  <1>6. CASE cmd.op \in Types
    <2>1. Reply(cmd) = IF held = Missing \/ held.type = cmd.op
                       THEN [type |-> held.type, version |-> held.version]
                       ELSE [type |-> "WRONGTYPE", version |-> 0]
      BY <1>6, TypeNames DEF Reply
    <2> QED
      BY <1>2, <1>6, <2>1, TypeNames DEF Fits
  <1> QED
    BY <1>3, <1>4, <1>5, <1>6

\* The commands of the first pipeline for the i-th key of a batch.
LEMMA TypeCommandsAt ==
  ASSUME NEW keys \in Seq(Keys)
  PROVE  /\ DOMAIN TypeCommands(keys) = 1 .. 2 * Len(keys)
         /\ \A n \in DOMAIN TypeCommands(keys) :
                /\ TypeCommands(keys)[n].key \in Keys
                /\ TypeCommands(keys)[n].op \in {"TYPE", "PTTL"}
         /\ \A i \in DOMAIN keys :
                /\ 2 * i - 1 \in 1 .. 2 * Len(keys) /\ 2 * i \in 1 .. 2 * Len(keys)
                /\ TypeCommands(keys)[2 * i - 1] = [op |-> "TYPE", key |-> keys[i]]
                /\ TypeCommands(keys)[2 * i] = [op |-> "PTTL", key |-> keys[i]]
  <1>1. Len(keys) \in Nat /\ DOMAIN keys = 1 .. Len(keys) /\ \A i \in DOMAIN keys : keys[i] \in Keys
    OBVIOUS
  <1>2. ASSUME NEW n \in 1 .. 2 * Len(keys) PROVE (n + 1) \div 2 \in 1 .. Len(keys)
    BY <1>1
  <1>3. ASSUME NEW i \in DOMAIN keys
        PROVE  /\ 2 * i - 1 \in 1 .. 2 * Len(keys) /\ 2 * i \in 1 .. 2 * Len(keys)
               /\ (2 * i - 1) % 2 = 1 /\ (2 * i - 1 + 1) \div 2 = i
               /\ (2 * i) % 2 = 0 /\ (2 * i + 1) \div 2 = i
    <2>1. i \in Nat /\ i >= 1 /\ i <= Len(keys)
      BY <1>1
    <2>2. 2 * i - 1 \in 1 .. 2 * Len(keys) /\ 2 * i \in 1 .. 2 * Len(keys)
      BY <1>1, <2>1
    <2>3. (2 * i - 1) % 2 = 1 /\ (2 * i) % 2 = 0
      BY <2>1, SMTT(30)
    <2>4. 2 * i - 1 + 1 = 2 * i /\ (2 * i) \div 2 = i /\ (2 * i + 1) \div 2 = i
      BY <2>1, SMTT(30)
    <2> QED
      BY <2>2, <2>3, <2>4
  <1>4. DOMAIN TypeCommands(keys) = 1 .. 2 * Len(keys)
    BY DEF TypeCommands
  <1>5. ASSUME NEW n \in 1 .. 2 * Len(keys)
        PROVE  /\ TypeCommands(keys)[n].key \in Keys
               /\ TypeCommands(keys)[n].op \in {"TYPE", "PTTL"}
    BY <1>1, <1>2 DEF TypeCommands
  <1>6. ASSUME NEW i \in DOMAIN keys
        PROVE  /\ TypeCommands(keys)[2 * i - 1] = [op |-> "TYPE", key |-> keys[i]]
               /\ TypeCommands(keys)[2 * i] = [op |-> "PTTL", key |-> keys[i]]
    BY <1>3 DEF TypeCommands
  <1> QED
    BY <1>3, <1>4, <1>5, <1>6

-----------------------------------------------------------------------------
(* The invariant *)

LEMMA SourceInvInit == Init => SourceInv
  <1> SUFFICES ASSUME Init PROVE SourceInv
    OBVIOUS
  <1>1. PICK held \in [Keys -> Held(1) \cup {Missing}],
             number \in Bijection(Keys, 1 .. Cardinality(Keys)) :
           db = [k \in Keys |-> IF held[k] = Missing THEN Missing
                               ELSE [held[k] EXCEPT !.version = number[k]]]
    BY DEF Init
  <1>0. ASSUME NEW k \in Keys PROVE db[k] \in Values \cup {Missing}
    <2>1. Cardinality(Keys) \in Nat
      BY SourceAssumption, FS_CardinalityType
    <2>2. number[k] \in Nat \ {0}
      BY <2>1 DEF Bijection, Injection
    <2> QED
      BY <1>1, <2>2 DEF Held, Values
  <1>2. TypeOK
    <2>1. db \in [Keys -> Values \cup {Missing}]
      BY <1>0, <1>1
    <2>7. past \in [Keys -> SUBSET Values]
      BY <1>0 DEF Init
    <2>2. cluster \in BOOLEAN
      BY SourceAssumption DEF Init
    <2>3. due \subseteq Keys
      BY DEF Init, Present
    <2>4. /\ writes = 0 /\ steady = Keys /\ pc = "scan" /\ last = FALSE
          /\ chunk = <<>> /\ batch = <<>> /\ yielded = {}
      BY DEF Init
    <2>5. chunk \in Seq(Keys) /\ batch \in Seq(Keys)
      BY <2>4
    <2>6. last \in BOOLEAN
      BY <2>4, Zenon
    <2> QED
      BY <2>1, <2>2, <2>3, <2>4, <2>5, <2>6, <2>7 DEF TypeOK
  <1>3. NoneForgotten
    BY <1>2 DEF Init, NoneForgotten, OnTheWay, Present, TypeOK
  <1> QED
    BY <1>2, <1>3 DEF Init, SourceInv, PastIsKept, AskingTypes, ReadingValues, ReadsCurrent, EndsInOrder,
       YieldedCurrent, ValuesFit

\* A change by another client.
LEMMA TouchStep ==
  ASSUME SourceInv, NEW k \in Keys, NEW held \in Values \cup {Missing}, Touch(k, held),
         due' \subseteq due, due \ {k} \subseteq due'
  PROVE  SourceInv'
  <1>1. /\ UNCHANGED <<cluster, scans, last, chunk, pc, batch, commands, replies, known, yielded>>
        /\ steady' = steady \ {k}
        /\ db' = [db EXCEPT ![k] = held]
        /\ writes' = writes + 1
        /\ past' = [past EXCEPT ![k] = @ \cup ({held} \ {Missing})]
    BY DEF Touch, scanning, reading
  <1>2. \A q \in steady' : q \in steady /\ q # k /\ q \in Keys /\ db'[q] = db[q]
    BY <1>1 DEF SourceInv, TypeOK
  <1>3. TypeOK' /\ PastIsKept'
    BY <1>1 DEF SourceInv, TypeOK, PastIsKept
  <1>11. ASSUME NEW q \in Keys PROVE past[q] \subseteq past'[q]
    BY <1>1 DEF SourceInv, TypeOK
  <1>12. \A q \in Keys : \A ttl : TtlOfPast(q, ttl) => TtlOfPast(q, ttl)'
    BY <1>11 DEF TtlOfPast
  <1>13. \A q \in Keys : \A op, reply : Fits(q, op, reply) => Fits(q, op, reply)'
    BY <1>11 DEF Fits
  <1>4. AskingTypes'
    <2>1. pc = "types" => \A i \in DOMAIN commands : commands[i].key \in Keys
      BY TypeCommandsAt DEF SourceInv, AskingTypes, TypeOK
    <2> QED
      BY <1>1, <1>12, <2>1 DEF SourceInv, AskingTypes
  <1>5. ReadingValues'
    <2> SUFFICES ASSUME pc = "values" PROVE ReadingValues'
      BY <1>1 DEF ReadingValues
    <2>1. /\ \A i \in DOMAIN commands : commands[i].key \in Keys
          /\ \A i \in DOMAIN batch : batch[i] \in Keys
      BY DEF SourceInv, ReadingValues, TypeOK
    <2>2. \A i \in DOMAIN batch : TtlOfPast(batch[i], known[i].ttl)'
      BY <1>1, <1>12, <2>1 DEF SourceInv, ReadingValues, TtlOfPast
    <2>3. \A i \in DOMAIN replies : Fits(commands[i].key, commands[i].op, replies[i])'
      BY <1>1, <1>13, <2>1 DEF SourceInv, ReadingValues, Fits
    <2> QED
      BY <1>1, <2>2, <2>3 DEF SourceInv, ReadingValues, About, TtlOfPast, Fits
  <1>6. ReadsCurrent'
    <2>1. ASSUME NEW i \in DOMAIN replies, commands[i].key \in steady'
          PROVE  Reply(commands[i])' = Reply(commands[i])
      BY <1>1, <1>2, <2>1 DEF Reply
    <2> QED
      BY <1>1, <1>2, <2>1 DEF SourceInv, ReadsCurrent
  <1>7. NoneForgotten'
    BY <1>1, <1>2 DEF SourceInv, NoneForgotten, OnTheWay
  <1>8. EndsInOrder'
    BY <1>1 DEF SourceInv, EndsInOrder
  <1>9. YieldedCurrent'
    BY <1>1, <1>2 DEF SourceInv, YieldedCurrent
  <1>10. ValuesFit'
    <2>1. \A r \in yielded : past[r.key] \subseteq past'[r.key]
      BY <1>1 DEF SourceInv, TypeOK
    <2> QED
      BY <1>1, <2>1 DEF SourceInv, ValuesFit
  <1> QED
    BY <1>3, <1>4, <1>5, <1>6, <1>7, <1>8, <1>9, <1>10 DEF SourceInv

LEMMA ClientsStep ==
  ASSUME SourceInv, NEW k \in Keys, ClientWrites(k) \/ ClientRemoves(k)
  PROVE  SourceInv'
  <1>1. CASE ClientWrites(k)
    <2>1. PICK held \in Held(Cardinality(Keys) + writes + 1) : Touch(k, held)
      BY <1>1 DEF ClientWrites
    <2>2. held \in Values
      <3>1. Cardinality(Keys) \in Nat
        BY SourceAssumption, FS_CardinalityType
      <3> QED
        BY <3>1 DEF Held, Values, SourceInv, TypeOK
    <2> QED
      BY <1>1, <2>1, <2>2, TouchStep DEF ClientWrites
  <1>2. CASE ClientRemoves(k)
    BY <1>2, TouchStep DEF ClientRemoves
  <1> QED
    BY <1>1, <1>2

\* Redis runs a command.
LEMMA ExecuteStep ==
  ASSUME SourceInv, Execute
  PROVE  SourceInv'
  <1>1. PICK i \in DOMAIN commands \ DOMAIN replies :
           replies' = [j \in DOMAIN replies \cup {i} |->
                          IF j = i THEN Reply(commands[i]) ELSE replies[j]]
    BY DEF Execute
  <1>2. UNCHANGED <<db, writes, steady, past, due, cluster, scans, last, chunk, pc, batch, commands, known,
                    yielded>>
    BY DEF Execute, clients, scanning
  <1>3. /\ DOMAIN replies' = DOMAIN replies \cup {i}
        /\ replies'[i] = Reply(commands[i])
        /\ \A j \in DOMAIN replies : replies'[j] = replies[j]
    BY <1>1
  <1>4. TypeOK /\ TypeOK' /\ PastIsKept /\ PastIsKept'
    BY <1>2 DEF SourceInv, TypeOK, PastIsKept
  <1>9. /\ \A q, ttl : TtlOfPast(q, ttl)' = TtlOfPast(q, ttl)
        /\ \A q, op, reply : Fits(q, op, reply)' = Fits(q, op, reply)
    BY <1>2 DEF TtlOfPast, Fits
  <1>5. AskingTypes'
    <2> SUFFICES ASSUME pc = "types" PROVE AskingTypes'
      BY <1>2 DEF AskingTypes
    <2>1. commands[i].key \in Keys
      BY <1>4, TypeCommandsAt DEF SourceInv, AskingTypes, TypeOK
    <2>2. /\ commands[i].op = "TYPE" => Reply(commands[i]) \in Types \cup {"none"}
          /\ commands[i].op = "PTTL" =>
                 /\ Reply(commands[i]) \in Int
                 /\ Reply(commands[i]) >= 0 => TtlOfPast(commands[i].key, Reply(commands[i]))
      BY <1>4, <2>1, ReplyFits
    <2> QED
      BY <1>2, <1>3, <1>9, <2>2 DEF SourceInv, AskingTypes
  <1>6. ReadingValues'
    <2> SUFFICES ASSUME pc = "values" PROVE ReadingValues'
      BY <1>2 DEF ReadingValues
    <2>1. i \in DOMAIN batch /\ commands[i].key = batch[i] /\ batch[i] \in Keys
          /\ About(known, batch[i]).type # "none"
          /\ commands[i].op = ReadOf(About(known, batch[i]).type)
      BY <1>4 DEF SourceInv, ReadingValues, TypeOK
    <2>2. About(known, batch[i]).type \in Types
      BY <1>4, <2>1, AboutFound DEF SourceInv, ReadingValues, About
    <2>3. commands[i].op \in Types \cup {"EXISTS"}
      BY <2>1, <2>2 DEF ReadOf
    <2>4. Fits(commands[i].key, commands[i].op, Reply(commands[i]))
      BY <1>4, <2>1, <2>3, ReplyFits
    <2>5. \A j \in DOMAIN replies' : Fits(commands[j].key, commands[j].op, replies'[j])
      BY <1>3, <2>4 DEF SourceInv, ReadingValues
    <2> QED
      BY <1>2, <1>3, <1>9, <2>5 DEF SourceInv, ReadingValues, About
  <1>7. ReadsCurrent'
    <2>1. \A c : Reply(c)' = Reply(c)
      BY <1>2 DEF Reply
    <2> QED
      BY <1>2, <1>3, <2>1 DEF SourceInv, ReadsCurrent, Reply
  <1>8. NoneForgotten' /\ EndsInOrder' /\ YieldedCurrent' /\ ValuesFit'
    BY <1>2 DEF SourceInv, NoneForgotten, OnTheWay, EndsInOrder, YieldedCurrent, ValuesFit
  <1> QED
    BY <1>4, <1>5, <1>6, <1>7, <1>8 DEF SourceInv

\* A batch of keys arrives.
LEMMA StartBatchStep ==
  ASSUME SourceInv, pc = "scan", NEW keys \in Seq(Keys), NEW ended \in BOOLEAN,
         StartBatch(keys, ended), UNCHANGED <<cluster, db, writes, steady, past, yielded>>,
         due' \subseteq due, chunk' \in Seq(Keys), ~cluster => chunk' = <<>>,
         ended => due' = {} /\ chunk' = <<>>,
         \A k \in due : k \in due' \/ \E i \in DOMAIN keys : keys[i] = k,
         \A i \in DOMAIN chunk : \/ \E j \in DOMAIN chunk' : chunk'[j] = chunk[i]
                                 \/ \E j \in DOMAIN keys : keys[j] = chunk[i]
  PROVE  SourceInv'
  <1>1. /\ last' = ended /\ batch' = keys /\ commands' = TypeCommands(keys)
        /\ replies' = NoReplies
        /\ pc' = IF keys # <<>> THEN "types" ELSE IF ended THEN "done" ELSE "scan"
    BY DEF StartBatch
  <1>2. DOMAIN replies' = {}
    BY <1>1 DEF NoReplies
  <1>3. TypeOK' /\ PastIsKept'
    BY <1>1 DEF SourceInv, TypeOK, PastIsKept
  <1>4. AskingTypes'
    BY <1>1, <1>2 DEF AskingTypes
  <1>5. ReadingValues' /\ ReadsCurrent'
    BY <1>1, <1>2 DEF ReadingValues, ReadsCurrent
  <1>6. NoneForgotten'
    <2>1. batch = <<>> /\ pc # "raised"
      BY DEF SourceInv, EndsInOrder
    <2>2. \A k \in steady : db[k] # Missing =>
             \/ k \in due
             \/ \E i \in DOMAIN chunk : chunk[i] = k
             \/ \E r \in yielded : r.key = k
      BY <2>1 DEF SourceInv, NoneForgotten, OnTheWay
    <2> QED
      BY <1>1, <2>2 DEF NoneForgotten, OnTheWay
  <1>7. EndsInOrder'
    BY <1>1 DEF SourceInv, EndsInOrder
  <1>8. YieldedCurrent' /\ ValuesFit'
    BY DEF SourceInv, YieldedCurrent, ValuesFit
  <1> QED
    BY <1>3, <1>4, <1>5, <1>6, <1>7, <1>8 DEF SourceInv

LEMMA ScanPageStep ==
  ASSUME SourceInv, ScanPage
  PROVE  SourceInv'
  <1>1. PICK keys \in BoundedSeq(Present, MaxPage), ended \in BOOLEAN :
           /\ due' = due \ ToSet(keys)
           /\ ended => due' = {}
           /\ StartBatch(keys, ended)
    BY DEF ScanPage
  <1>2. pc = "scan" /\ ~cluster /\ UNCHANGED <<cluster, db, writes, steady, past, chunk, yielded>>
    BY DEF ScanPage, clients
  <1>3. keys \in Seq(Keys)
    BY DEF BoundedSeq, SeqOf, Present
  <1>4. chunk = <<>> /\ chunk' = <<>>
    BY <1>2 DEF SourceInv, EndsInOrder
  <1>5. \A k \in due : k \in due' \/ \E i \in DOMAIN keys : keys[i] = k
    BY <1>1 DEF ToSet
  <1>6. due' \subseteq due /\ chunk' \in Seq(Keys)
    BY <1>1, <1>4
  <1>7. \A i \in DOMAIN chunk : \/ \E j \in DOMAIN chunk' : chunk'[j] = chunk[i]
                                \/ \E j \in DOMAIN keys : keys[j] = chunk[i]
    BY <1>4
  <1> QED
    BY <1>1, <1>2, <1>3, <1>4, <1>5, <1>6, <1>7, StartBatchStep

LEMMA ScanIterYieldsStep ==
  ASSUME SourceInv, ScanIterYields
  PROVE  SourceInv'
  <1>1. PICK k \in Present :
           /\ due' = due \ {k}
           /\ IF Full(Append(chunk, k))
              THEN StartBatch(Append(chunk, k), FALSE) /\ chunk' = <<>>
              ELSE chunk' = Append(chunk, k) /\ UNCHANGED <<last, pc, reading>>
    BY DEF ScanIterYields
  <1>2. pc = "scan" /\ cluster /\ UNCHANGED <<cluster, db, writes, steady, past, yielded>>
    BY DEF ScanIterYields, clients
  <1> DEFINE keys == Append(chunk, k)
  <1>3. /\ keys \in Seq(Keys) /\ chunk \in Seq(Keys) /\ k \in Keys
        /\ Len(keys) = Len(chunk) + 1 /\ keys[Len(keys)] = k
        /\ \A i \in DOMAIN chunk : i \in DOMAIN keys /\ keys[i] = chunk[i]
        /\ Len(keys) \in DOMAIN keys
    BY DEF SourceInv, TypeOK, Present
  <1> HIDE DEF keys
  <1>4. CASE Full(keys)
    <2>1. StartBatch(keys, FALSE) /\ chunk' = <<>>
      BY <1>1, <1>4 DEF keys, Full
    <2>2. \A q \in due : q \in due' \/ \E i \in DOMAIN keys : keys[i] = q
      BY <1>1, <1>3
    <2>3. \A i \in DOMAIN chunk : \E j \in DOMAIN keys : keys[j] = chunk[i]
      BY <1>3
    <2>4. chunk' \in Seq(Keys) /\ due' \subseteq due /\ FALSE \in BOOLEAN
      BY <1>1, <2>1
    <2> QED
      BY <1>2, <1>3, <2>1, <2>2, <2>3, <2>4, StartBatchStep
  <1>5. CASE ~Full(keys)
    <2>1. chunk' = keys /\ UNCHANGED <<last, pc, batch, commands, replies, known>>
      BY <1>1, <1>5 DEF keys, Full, reading
    <2>2. TypeOK' /\ PastIsKept' /\ AskingTypes' /\ ReadingValues' /\ ReadsCurrent'
      BY <1>1, <1>2, <1>3, <2>1 DEF SourceInv, TypeOK, PastIsKept, AskingTypes, ReadingValues,
         ReadsCurrent
    <2>3. NoneForgotten'
      BY <1>1, <1>2, <1>3, <2>1 DEF SourceInv, NoneForgotten, OnTheWay
    <2>4. EndsInOrder' /\ YieldedCurrent' /\ ValuesFit'
      BY <1>1, <1>2, <2>1 DEF SourceInv, EndsInOrder, YieldedCurrent, ValuesFit
    <2> QED
      BY <2>2, <2>3, <2>4 DEF SourceInv
  <1> QED
    BY <1>4, <1>5

LEMMA ScanIterEndsStep ==
  ASSUME SourceInv, ScanIterEnds
  PROVE  SourceInv'
  <1>1. /\ pc = "scan" /\ cluster /\ due = {} /\ StartBatch(chunk, TRUE) /\ chunk' = <<>>
        /\ UNCHANGED <<cluster, db, writes, steady, past, due, yielded>>
    BY DEF ScanIterEnds, Rest, clients
  <1>2. chunk \in Seq(Keys) /\ chunk' \in Seq(Keys) /\ due' \subseteq due /\ due' = {}
    BY <1>1 DEF SourceInv, TypeOK
  <1>3. \A i \in DOMAIN chunk : \E j \in DOMAIN chunk : chunk[j] = chunk[i]
    OBVIOUS
  <1>4. \A k \in due : k \in due'
    BY <1>1
  <1>5. TRUE \in BOOLEAN
    OBVIOUS
  <1> QED
    BY <1>1, <1>2, <1>3, <1>4, <1>5, StartBatchStep

\* The iterator raises, and leaves its batch.
LEMMA ConnectionFailsStep ==
  ASSUME SourceInv, ConnectionFails
  PROVE  SourceInv'
  <1>1. /\ pc' = "raised" /\ batch' = <<>>
        /\ UNCHANGED <<db, writes, steady, past, due, cluster, scans, last, chunk, yielded>>
    BY DEF ConnectionFails, DropBatch, clients, scanning
  <1>2. TypeOK' /\ PastIsKept'
    BY <1>1 DEF SourceInv, TypeOK, PastIsKept
  <1> QED
    BY <1>1, <1>2 DEF SourceInv, AskingTypes, ReadingValues, ReadsCurrent, NoneForgotten, EndsInOrder,
       YieldedCurrent, ValuesFit

\* The types and TTLs are there: the values are asked for.
LEMMA FetchValuesStep ==
  ASSUME SourceInv, FetchValues
  PROVE  SourceInv'
  <1>1. /\ pc = "types" /\ pc' = "values" /\ replies' = NoReplies
        /\ DOMAIN replies = DOMAIN commands
        /\ known' = [i \in DOMAIN batch |-> KnownAt(i)]
        /\ UNCHANGED <<db, writes, steady, past, due, cluster, scans, last, chunk, batch, yielded>>
    BY DEF FetchValues, Executed, clients, scanning
  <1>2. DOMAIN replies' = {}
    BY <1>1 DEF NoReplies
  <1>3. TypeOK /\ TypeOK' /\ PastIsKept /\ PastIsKept'
    BY <1>1 DEF SourceInv, TypeOK, PastIsKept
  <1>4. ASSUME NEW i \in DOMAIN batch
        PROVE  /\ replies[2 * i - 1] \in Types \cup {"none"}
               /\ replies[2 * i] \in Int
               /\ replies[2 * i] >= 0 => TtlOfPast(batch[i], replies[2 * i])
               /\ batch[i] \in steady =>
                     /\ replies[2 * i - 1] = db[batch[i]].type
                     /\ (IF replies[2 * i] >= 0 THEN replies[2 * i] ELSE 0) = TtlOf(db[batch[i]])
    <2> DEFINE t == [op |-> "TYPE", key |-> batch[i]]
               p == [op |-> "PTTL", key |-> batch[i]]
    <2>1. batch \in Seq(Keys) /\ commands = TypeCommands(batch)
      BY <1>1, <1>3 DEF SourceInv, AskingTypes, TypeOK
    <2>2. /\ 2 * i - 1 \in DOMAIN replies /\ 2 * i \in DOMAIN replies
          /\ commands[2 * i - 1] = t /\ commands[2 * i] = p
      BY <1>1, <2>1, TypeCommandsAt
    <2>3. /\ replies[2 * i - 1] \in Types \cup {"none"}
          /\ replies[2 * i] \in Int
          /\ replies[2 * i] >= 0 => TtlOfPast(batch[i], replies[2 * i])
      BY <1>1, <2>2 DEF SourceInv, AskingTypes
    <2>4. ASSUME batch[i] \in steady
          PROVE  replies[2 * i - 1] = Reply(t) /\ replies[2 * i] = Reply(p)
      BY <1>1, <2>2, <2>4 DEF SourceInv, ReadsCurrent
    <2>5. batch[i] \in Keys
      BY <2>1
    <2>6. /\ Reply(t) = db[batch[i]].type
          /\ (IF Reply(p) >= 0 THEN Reply(p) ELSE 0) = TtlOf(db[batch[i]])
      BY <1>3, <2>5, ReplyFits
    <2> QED
      BY <2>3, <2>4, <2>6
  <1>5. known' \in [DOMAIN batch -> [type : Types \cup {"none"}, ttl : Nat]]
    BY <1>1, <1>4 DEF KnownAt
  <1>6. commands' = [i \in {j \in DOMAIN batch : About(known', batch[j]).type # "none"} |->
                        [key |-> batch[i], op |-> ReadOf(About(known', batch[i]).type)]]
    BY DEF FetchValues, OrderedKeys
  <1>10. \A i \in DOMAIN batch : TtlOfPast(batch[i], known'[i].ttl)
    BY <1>1, <1>4 DEF KnownAt, TtlOfPast
  <1>7. ReadingValues'
    BY <1>1, <1>2, <1>5, <1>6, <1>10 DEF ReadingValues, About, TtlOfPast
  <1>8. ReadsCurrent'
    BY <1>1, <1>2, <1>4 DEF ReadsCurrent, KnownAt
  <1>9. AskingTypes' /\ NoneForgotten' /\ EndsInOrder' /\ YieldedCurrent' /\ ValuesFit'
    BY <1>1 DEF SourceInv, AskingTypes, NoneForgotten, OnTheWay, EndsInOrder, YieldedCurrent, ValuesFit
  <1> QED
    BY <1>3, <1>7, <1>8, <1>9 DEF SourceInv

\* The value of a key of the batch is the answer to a command for that key,
\* chosen by the type read before.
LEMMA ValueFound ==
  ASSUME SourceInv, pc = "values", Executed, NEW k,
         \E i \in DOMAIN batch : batch[i] = k, About(known, k).type # "none"
  PROVE  /\ About(known, k) \in [type : Types, ttl : Nat]
         /\ TtlOfPast(k, About(known, k).ttl)
         /\ k \in steady => About(known, k) = [type |-> db[k].type, ttl |-> TtlOf(db[k])]
         /\ \E i \in DOMAIN replies :
               /\ ValueOf(k) = replies[i]
               /\ commands[i] = [key |-> k, op |-> ReadOf(About(known, k).type)]
               /\ Fits(k, ReadOf(About(known, k).type), ValueOf(k))
               /\ k \in steady => ValueOf(k) = Reply(commands[i])
  <1> DEFINE a == LastAt(batch, k)
             f == [i \in DOMAIN commands |-> commands[i].key]
             m == LastAt(f, k)
             sent == {j \in DOMAIN batch : About(known, batch[j]).type # "none"}
  <1>1. a \in DOMAIN batch /\ batch[a] = k
    BY AboutFound DEF SourceInv
  <1>2. About(known, k) = known[a]
    BY DEF About
  <1>3. About(known, k) \in [type : Types, ttl : Nat] /\ TtlOfPast(k, About(known, k).ttl)
    BY <1>1, <1>2 DEF SourceInv, ReadingValues
  <1>4. k \in steady => About(known, k) = [type |-> db[k].type, ttl |-> TtlOf(db[k])]
    BY <1>1, <1>2 DEF SourceInv, ReadsCurrent
  <1>5. /\ commands = [i \in sent |-> [key |-> batch[i], op |-> ReadOf(About(known, batch[i]).type)]]
        /\ a \in sent /\ sent \subseteq 1 .. Len(batch) /\ Len(batch) \in Nat
    BY <1>1 DEF SourceInv, ReadingValues, TypeOK
  <1> HIDE DEF a, sent
  <1>6. DOMAIN f \subseteq 1 .. Len(batch) /\ a \in DOMAIN f /\ f[a] = k
    BY <1>1, <1>5
  <1> HIDE DEF f
  <1>7. m \in DOMAIN f /\ f[m] = k
    BY <1>5, <1>6, LastAtFound
  <1>8. m \in DOMAIN commands /\ commands[m].key = k
    BY <1>7 DEF f
  <1>9. m \in DOMAIN replies /\ ValueOf(k) = replies[m]
    BY <1>8 DEF Executed, ValueOf, f
  <1> HIDE DEF m
  <1>10. commands[m] = [key |-> k, op |-> ReadOf(About(known, k).type)]
    BY <1>5, <1>8
  <1>11. Fits(k, ReadOf(About(known, k).type), ValueOf(k))
    BY <1>9, <1>10 DEF SourceInv, ReadingValues
  <1>12. k \in steady => ValueOf(k) = Reply(commands[m])
    BY <1>9, <1>10 DEF SourceInv, ReadsCurrent
  <1> QED
    BY <1>3, <1>4, <1>9, <1>10, <1>11, <1>12

\* The record that YieldBatch makes of a key.
Made(k) == [key |-> k, type |-> About(known, k).type, value |-> ValueOf(k), ttl |-> About(known, k).ttl]

\* The keys of the batch that a record is made of.
Kept == {k \in ToSet(batch) : /\ About(known, k).type # "none"
                              /\ ~Vanished(About(known, k).type, ValueOf(k))}

\* A record that is made has a value and a TTL that its key has had; of a key
\* that nobody touched it has what the key holds.
LEMMA MadeFits ==
  ASSUME SourceInv, pc = "values", Executed, NEW k \in Kept
  PROVE  LET r == Made(k)
         IN  /\ IF r.type = "stream" THEN r.value.type = "count"
                ELSE \E v \in past[k] :
                         r.type = v.type /\ r.value = [type |-> v.type, version |-> v.version]
             /\ TtlOfPast(k, r.ttl)
             /\ k \in steady =>
                   /\ db[k] # Missing
                   /\ r.type = db[k].type
                   /\ r.type # "stream" => r.value.version = db[k].version
                   /\ r.ttl = TtlOf(db[k])
  <1> DEFINE type == About(known, k).type
             value == ValueOf(k)
  <1>1. /\ \E i \in DOMAIN batch : batch[i] = k
        /\ type # "none" /\ ~Vanished(type, value)
    BY DEF Kept, ToSet
  <1>2. PICK i \in DOMAIN replies :
           /\ value = replies[i]
           /\ commands[i] = [key |-> k, op |-> ReadOf(type)]
           /\ Fits(k, ReadOf(type), value)
           /\ k \in steady => value = Reply(commands[i])
    BY <1>1, ValueFound
  <1>3. /\ About(known, k) \in [type : Types, ttl : Nat]
        /\ TtlOfPast(k, About(known, k).ttl)
        /\ k \in steady => About(known, k) = [type |-> db[k].type, ttl |-> TtlOf(db[k])]
    BY <1>1, ValueFound
  <1>4. type \in Types /\ type \in Collections \cup {"string", "stream"} /\ type # "EXISTS"
    BY <1>3, TypeNames, SourceAssumption
  <1> HIDE DEF type, value
  <1>5. IF type = "stream" THEN value.type = "count"
        ELSE \E v \in past[k] : type = v.type /\ value = [type |-> v.type, version |-> v.version]
    BY <1>1, <1>2, <1>4 DEF ReadOf, Fits, Vanished
  <1>6. ASSUME k \in steady
        PROVE  /\ db[k] # Missing
               /\ type = db[k].type
               /\ type # "stream" => value.version = db[k].version
               /\ About(known, k).ttl = TtlOf(db[k])
    <2>1. type = db[k].type /\ About(known, k).ttl = TtlOf(db[k])
      BY <1>3, <1>6 DEF type
    <2>2. db[k] # Missing
      BY <1>1, <2>1 DEF Missing
    <2>3. ASSUME type # "stream" PROVE value.version = db[k].version
      <3>1. commands[i].key = k /\ commands[i].op = type /\ k \in Keys
           /\ TypeOK /\ PastIsKept
        BY <1>2, <1>6, <2>3 DEF ReadOf, SourceInv, TypeOK
      <3>2. Reply(commands[i]) = [type |-> db[k].type, version |-> db[k].version]
        BY <1>4, <2>1, <3>1, ReplyFits
      <3> QED
        BY <1>2, <1>6, <3>2
    <2> QED
      BY <2>1, <2>2, <2>3
  <1> QED
    BY <1>3, <1>5, <1>6 DEF Made, type, value

\* A key of the batch that is there and that nobody touched is not left out.
LEMMA SteadyKept ==
  ASSUME SourceInv, pc = "values", Executed, NEW k \in steady, db[k] # Missing,
         \E i \in DOMAIN batch : batch[i] = k
  PROVE  k \in Kept
  <1> DEFINE a == LastAt(batch, k)
             type == About(known, k).type
             value == ValueOf(k)
  <1>1. db[k] \in Values /\ k \in Keys /\ TypeOK /\ PastIsKept
    BY DEF SourceInv, TypeOK
  <1>2. db[k].type \in Types /\ db[k].version \in Nat \ {0}
    BY <1>1 DEF Values
  <1>3. a \in DOMAIN batch /\ batch[a] = k
    BY AboutFound DEF SourceInv
  <1>4. type = db[k].type
    <2>1. About(known, k) = known[a]
      BY DEF About
    <2>2. known[a] = [type |-> db[k].type, ttl |-> TtlOf(db[k])]
      BY <1>3 DEF SourceInv, ReadsCurrent
    <2> QED
      BY <2>1, <2>2
  <1>5. type \in Types /\ type # "none"
    BY <1>2, <1>4, TypeNames
  <1>6. PICK i \in DOMAIN replies :
           commands[i] = [key |-> k, op |-> ReadOf(type)] /\ value = Reply(commands[i])
    BY <1>5, ValueFound
  <1> HIDE DEF type, value
  <1>7. ~Vanished(type, value)
    <2>1. CASE type = "stream"
      BY <2>1 DEF Vanished, Collections
    <2>2. CASE type # "stream"
      <3>1. commands[i].key = k /\ commands[i].op = type
        BY <1>6, <2>2 DEF ReadOf
      <3>2. Reply(commands[i]) = [type |-> db[k].type, version |-> db[k].version]
        BY <1>1, <1>4, <1>5, <3>1, ReplyFits
      <3> QED
        BY <1>2, <1>6, <3>2 DEF Vanished
    <2> QED
      BY <2>1, <2>2
  <1> QED
    BY <1>5, <1>7 DEF Kept, ToSet, type, value

LEMMA YieldBatchStep ==
  ASSUME SourceInv, YieldBatch
  PROVE  SourceInv'
  <1>1. /\ pc = "values" /\ Executed /\ batch' = <<>>
        /\ UNCHANGED <<db, writes, steady, past, due, cluster, scans, last, chunk>>
    BY DEF YieldBatch, DropBatch, clients, scanning
  <1>2. \/ pc' = "raised" /\ yielded' = yielded
        \/ /\ pc' = IF last THEN "done" ELSE "scan"
           /\ yielded' = yielded \cup {Made(k) : k \in Kept}
    BY Zenon DEF YieldBatch, Made, Kept
  <1>3. pc' \in {"raised", "done", "scan"}
    BY <1>2
  <1>4. TypeOK' /\ PastIsKept'
    <2>1. \A r \in yielded' : r.key \in Keys
      BY <1>2 DEF SourceInv, TypeOK, Made, Kept, ToSet
    <2> QED
      BY <1>1, <1>3, <2>1 DEF SourceInv, TypeOK, PastIsKept
  <1>5. AskingTypes' /\ ReadingValues' /\ ReadsCurrent'
    BY <1>3 DEF AskingTypes, ReadingValues, ReadsCurrent
  <1>6. EndsInOrder'
    BY <1>1, <1>2 DEF SourceInv, EndsInOrder, TypeOK
  <1>7. \A r \in yielded' : r \in yielded \/ \E k \in Kept : r = Made(k)
    BY <1>2
  <1>8. \A k \in Kept : Made(k).key = k
    BY DEF Made
  <1>9. YieldedCurrent' /\ ValuesFit'
    BY <1>1, <1>7, <1>8, MadeFits DEF SourceInv, YieldedCurrent, ValuesFit, TtlOfPast
  <1>10. NoneForgotten'
    <2> SUFFICES ASSUME pc' # "raised", NEW k \in steady, db[k] # Missing PROVE OnTheWay(k)'
      BY <1>1 DEF NoneForgotten
    <2>1. OnTheWay(k)
      BY <1>1 DEF SourceInv, NoneForgotten
    <2>2. yielded' = yielded \cup {Made(q) : q \in Kept}
      BY <1>2
    <2>3. ASSUME \E i \in DOMAIN batch : batch[i] = k PROVE \E r \in yielded' : r.key = k
      <3>1. k \in Kept
        BY <1>1, <2>3, SteadyKept
      <3> QED
        BY <1>8, <2>2, <3>1
    <2> QED
      BY <1>1, <2>1, <2>2, <2>3 DEF OnTheWay
  <1> QED
    BY <1>4, <1>5, <1>6, <1>9, <1>10 DEF SourceInv

LEMMA SourceInvStep ==
  ASSUME SourceInv, [Next]_vars
  PROVE  SourceInv'
  <1>1. CASE UNCHANGED vars
    <2>1. UNCHANGED <<cluster, db, writes, steady, past, due, scans, last, chunk, pc, batch, commands,
                      replies, known, yielded>>
      BY <1>1 DEF vars, clients, scanning, reading
    <2>2. TypeOK' /\ PastIsKept' /\ AskingTypes' /\ EndsInOrder' /\ NoneForgotten'
      BY <2>1 DEF SourceInv, TypeOK, PastIsKept, AskingTypes, TtlOfPast, EndsInOrder, NoneForgotten,
         OnTheWay
    <2>3. ReadingValues'
      BY <2>1 DEF SourceInv, ReadingValues, About, TtlOfPast, Fits
    <2>4. ReadsCurrent'
      BY <2>1 DEF SourceInv, ReadsCurrent, Reply
    <2>5. YieldedCurrent' /\ ValuesFit'
      BY <2>1 DEF SourceInv, YieldedCurrent, ValuesFit
    <2> QED
      BY <2>2, <2>3, <2>4, <2>5 DEF SourceInv
  <1>2. CASE Over
    BY <1>1, <1>2 DEF Over
  <1> QED
    BY <1>1, <1>2, ClientsStep, ExecuteStep, ScanPageStep, ScanIterYieldsStep, ScanIterEndsStep,
       FetchValuesStep, YieldBatchStep, ConnectionFailsStep DEF Next

THEOREM SourceInvariant == Spec => []SourceInv
  BY SourceInvInit, SourceInvStep, PTL DEF Spec

(* Whatever other clients write between the two pipelines, a record that is *)
(* yielded has a value that its own key has had, read with the command of   *)
(* its type, and a TTL that this key has had.                               *)
THEOREM ValuesAreTheirOwn == Spec => []ValuesFit
  <1>1. SourceInv => ValuesFit
    BY DEF SourceInv
  <1> QED
    BY SourceInvariant, <1>1, PTL

(* A key that nobody touches is yielded, exactly as it is, in every         *)
(* iteration that ends.                                                     *)
THEOREM SteadyKeysYielded == Spec => []SteadyKeysExact
  <1>1. SourceInv => SteadyKeysExact
    <2> SUFFICES ASSUME SourceInv, NEW k \in steady
                 PROVE  /\ \A r \in yielded : r.key = k =>
                               /\ db[k] # Missing
                               /\ r.type = db[k].type
                               /\ r.type # "stream" => r.value.version = db[k].version
                               /\ r.ttl = IF db[k].expires THEN db[k].version ELSE 0
                        /\ pc = "done" /\ db[k] # Missing => \E r \in yielded : r.key = k
      BY DEF SteadyKeysExact
    <2>1. \A r \in yielded : r.key = k =>
             /\ db[k] # Missing
             /\ r.type = db[k].type
             /\ r.type # "stream" => r.value.version = db[k].version
             /\ r.ttl = IF db[k].expires THEN db[k].version ELSE 0
      BY DEF SourceInv, YieldedCurrent, TtlOf
    <2>2. ASSUME pc = "done", db[k] # Missing PROVE \E r \in yielded : r.key = k
      BY <2>2 DEF SourceInv, NoneForgotten, OnTheWay, EndsInOrder
    <2> QED
      BY <2>1, <2>2
  <1> QED
    BY SourceInvariant, <1>1, PTL
=============================================================================
