------------------------ MODULE AerospikeSinkProofs ------------------------
(***************************************************************************)
(* Proofs about AerospikeSink for any number of threads, keys, bins and    *)
(* records, and batches of any size.                                       *)
(***************************************************************************)
EXTENDS AerospikeSink, LeastNumber

-----------------------------------------------------------------------------
(* Which records of a call are sent *)

\* The slots of a call and the records in them.
LEMMA SlotTypes ==
  ASSUME NEW recs \in Seq(Inputs)
  PROVE  /\ Len(recs) \in Nat
         /\ Slots(recs) \subseteq Nat
         /\ SentSlots(recs) \subseteq Slots(recs)
         /\ \A i \in Slots(recs) :
                /\ recs[i] \in Inputs
                /\ recs[i].key \in Keys
                /\ recs[i].bins \subseteq Bins
                /\ recs[i].version \in Nat
                /\ recs[i].large \in BOOLEAN
  BY SinkAssumption DEF Slots, SentSlots

\* Of two records with one key at most one is sent.
LEMMA SentOnce ==
  ASSUME NEW recs \in Seq(Inputs), NEW i \in SentSlots(recs), NEW j \in SentSlots(recs),
         recs[i].key = recs[j].key
  PROVE  i = j
  BY SlotTypes DEF SentSlots, Slots

\* For every record that is not too large, one with its key is sent: the last.
LEMMA OneIsSent ==
  ASSUME NEW recs \in Seq(Inputs), NEW i \in Slots(recs), ~TooLarge(recs[i])
  PROVE  /\ SlotOfReply(recs, i) \in SentSlots(recs)
         /\ recs[SlotOfReply(recs, i)].key = recs[i].key
  <1> DEFINE S == {j \in Slots(recs) : ~TooLarge(recs[j]) /\ recs[j].key = recs[i].key}
  <1>1. S \in SUBSET (0 .. Len(recs)) /\ S # {} /\ Len(recs) \in Nat
    BY SlotTypes DEF Slots
  <1>2. PICK m \in S : \A j \in S : j <= m
    <2> HIDE DEF S
    <2> QED
      BY <1>1, GreatestElement
  <1>3. m \in SentSlots(recs)
    BY <1>2 DEF SentSlots, Slots
  <1> QED
    BY <1>2, <1>3 DEF SlotOfReply

-----------------------------------------------------------------------------
(* The inductive invariant *)

Holding == [bins : [Bins -> Nat], ttl : Nat]
Codes == {"unsent", "ok", "in_doubt", "exists", "failed"}
Answers == {"none", "RecordTooLarge", "RecordExists", "failed"}

TypeOK ==
    /\ policy \in AllPolicies
    /\ store \in [Keys -> Holding]
    /\ pc \in [Threads -> {"idle", "running", "answered"}]
    /\ records \in [Threads -> Seq(Inputs)]
    /\ todo \in [Threads -> SUBSET Nat]
    /\ reply = [t \in Threads |-> reply[t]]
    /\ answer = [t \in Threads |-> answer[t]]
    /\ \A t \in Threads :
           /\ reply[t] \in [Slots(records[t]) -> Codes]
           /\ pc[t] = "answered" => answer[t] \in [Slots(records[t]) -> Answers]
    /\ before \in [Threads -> [Keys -> Holding]]
    /\ alone \in [Threads -> BOOLEAN]

\* Replies are there for what was sent and run, and for nothing else.
RepliesMatch ==
    \A t \in Threads :
        /\ todo[t] \subseteq SentSlots(records[t])
        /\ \A i \in Slots(records[t]) :
               /\ i \notin SentSlots(records[t]) => reply[t][i] = "unsent"
               /\ pc[t] = "running" /\ i \in SentSlots(records[t]) \ todo[t] => reply[t][i] # "unsent"
               /\ reply[t][i] = "exists" => policy = "create_only"

\* The key k is as t's call found it, and no command for it succeeded; or the
\* call's one command for k was applied to what it had found.
KeyAccounted(t, k) ==
    \/ /\ store[k] = before[t][k]
       /\ \A i \in SentSlots(records[t]) : records[t][i].key = k => reply[t][i] # "ok"
    \/ \E i \in SentSlots(records[t]) \ todo[t] :
           /\ records[t][i].key = k
           /\ store[k] = ServerWrites(before[t][k], records[t][i])

\* Under create_only a record that was there stays; a command that succeeded made
\* the record that is there now; and one that found a record did not find what
\* its own call had written.
CreatedIn(t) ==
    /\ \A k \in Keys : Exists(before[t][k]) => Exists(store[k])
    /\ \A i \in Slots(records[t]) :
           /\ reply[t][i] = "ok" =>
                  /\ ~Exists(before[t][records[t][i].key])
                  /\ store[records[t][i].key] = ServerWrites(Absent, records[t][i])
           /\ reply[t][i] = "exists" =>
                  /\ Exists(store[records[t][i].key])
                  /\ Exists(before[t][records[t][i].key]) \/ ~alone[t]

CreatedStays == policy = "create_only" => \A t \in Threads : CreatedIn(t)

\* A call that is alone accounts for every change of the store since it began.
AloneAccounts ==
    \A t \in Threads : alone[t] =>
        /\ \A u \in Threads \ {t} : pc[u] # "running"
        /\ pc[t] # "idle" => \A k \in Keys : KeyAccounted(t, k)

SinkInv == TypeOK /\ RepliesMatch /\ AnswersTruthful /\ AloneAccounts /\ CreatedStays

\* AnswersTruthful of one call that returned.
TruthfulCall(recs, codeAt, told) ==
    \A i \in Slots(recs) :
        LET codes == {codeAt[j] : j \in {k \in Slots(recs) : recs[k].key = recs[i].key}}
        IN  /\ told[i] = "RecordTooLarge" => recs[i].large
            /\ told[i] = "none" => "ok" \in codes /\ ~recs[i].large
            /\ told[i] = "RecordExists" => "exists" \in codes /\ codes \subseteq {"exists", "unsent"}
            /\ told[i] = "failed" => \/ codes \cap {"failed", "in_doubt"} # {}
                                     \/ \A j \in Slots(recs) : told[j] = "failed"

\* AnswersTruthful is about each call on its own.
LEMMA TruthfulCalls ==
  AnswersTruthful <=>
      \A t \in Threads : pc[t] = "answered" => TruthfulCall(records[t], reply[t], answer[t])
  BY DEF AnswersTruthful, TruthfulCall

\* So what does not touch a call that returned keeps it.
LEMMA TruthfulKept ==
  ASSUME AnswersTruthful, NEW t \in Threads,
         \A s \in Threads \ {t} : /\ pc'[s] = pc[s] /\ records'[s] = records[s]
                                  /\ reply'[s] = reply[s] /\ answer'[s] = answer[s],
         pc'[t] = "answered" => TruthfulCall(records'[t], reply'[t], answer'[t])
  PROVE  AnswersTruthful'
  <1>1. \A s \in Threads : pc'[s] = "answered" => TruthfulCall(records'[s], reply'[s], answer'[s])
    BY TruthfulCalls
  <1> QED
    BY <1>1 DEF AnswersTruthful, TruthfulCall

\* A write leaves a record.
LEMMA ServerWritesType ==
  ASSUME policy \in AllPolicies, NEW held \in Holding, NEW r \in Inputs
  PROVE  ServerWrites(held, r) \in Holding
  BY SinkAssumption DEF ServerWrites, Holding

\* A record that a create_only command finds is not written over.
LEMMA CreateOnlyKeeps ==
  ASSUME policy = "create_only", NEW held \in Holding, NEW r \in Inputs
  PROVE  /\ Exists(held) => ServerWrites(held, r) = held
         /\ ~Exists(held) => ServerWrites(held, r) = ServerWrites(Absent, r)
         /\ Exists(ServerWrites(held, r))
  BY SinkAssumption DEF ServerWrites, Exists, Absent, Holding

\* Before the first call there is nothing to account for.
LEMMA InitSink == Init => SinkInv
  <1> SUFFICES ASSUME Init PROVE SinkInv
    OBVIOUS
  <1>1. Absent \in Holding /\ Old \in Holding
    BY DEF Absent, Old, Holding
  <1>2. \A t \in Threads : Slots(records[t]) = {} /\ <<>> \in Seq(Inputs)
    BY DEF Init, Slots
  <1>3. TypeOK
    BY <1>1, <1>2, SinkAssumption DEF Init, TypeOK
  <1>4. RepliesMatch
    BY <1>2 DEF Init, RepliesMatch
  <1>5. AnswersTruthful /\ AloneAccounts /\ CreatedStays
    BY <1>2 DEF Init, AnswersTruthful, AloneAccounts, CreatedStays, CreatedIn
  <1> QED
    BY <1>3, <1>4, <1>5 DEF SinkInv

\* A new call has answers to nothing yet and has changed nothing; from then on
\* no other thread's call was alone.
LEMMA BeginSink ==
  ASSUME SinkInv, NEW t \in Threads, NEW recs \in Seq(Inputs), Begin(t, recs)
  PROVE  SinkInv'
  <1> USE DEF SinkInv
  <1>1. /\ policy' = policy /\ store' = store
        /\ records'[t] = recs /\ todo'[t] = SentSlots(recs) /\ pc'[t] = "running"
        /\ reply'[t] = [i \in Slots(recs) |-> "unsent"] /\ before'[t] = store
    BY DEF Begin, TypeOK
  <1>2. \A s \in Threads \ {t} :
           /\ records'[s] = records[s] /\ todo'[s] = todo[s] /\ pc'[s] = pc[s]
           /\ reply'[s] = reply[s] /\ answer'[s] = answer[s]
    BY DEF Begin, TypeOK
  <1>3. SentSlots(recs) \subseteq Slots(recs) /\ Slots(recs) \subseteq Nat
    BY SlotTypes
  <1>4. alone' \in [Threads -> BOOLEAN] /\ \A s \in Threads \ {t} : ~alone'[s]
    BY DEF Begin
  <1>5. alone'[t] => \A u \in Threads \ {t} : pc[u] # "running"
    BY DEF Begin
  <1>6. TypeOK'
    <2>1. /\ policy' \in AllPolicies /\ store' \in [Keys -> Holding]
          /\ pc' \in [Threads -> {"idle", "running", "answered"}]
          /\ before' \in [Threads -> [Keys -> Holding]]
      BY DEF Begin, TypeOK
    <2>2. records' \in [Threads -> Seq(Inputs)] /\ todo' \in [Threads -> SUBSET Nat]
      BY <1>3 DEF Begin, TypeOK
    <2>3. reply' = [s \in Threads |-> reply'[s]] /\ answer' = [s \in Threads |-> answer'[s]]
      BY DEF Begin, TypeOK
    <2>4. ASSUME NEW s \in Threads
          PROVE  /\ reply'[s] \in [Slots(records'[s]) -> Codes]
                 /\ pc'[s] = "answered" => answer'[s] \in [Slots(records'[s]) -> Answers]
      <3>1. CASE s = t
        BY <1>1, <3>1 DEF Codes
      <3>2. CASE s # t
        BY <1>2, <3>2 DEF TypeOK
      <3> QED
        BY <3>1, <3>2
    <2> QED
      BY <1>4, <2>1, <2>2, <2>3, <2>4 DEF TypeOK
  <1>7. RepliesMatch'
    <2>1. ASSUME NEW s \in Threads
          PROVE  /\ todo'[s] \subseteq SentSlots(records'[s])
                 /\ \A i \in Slots(records'[s]) :
                      /\ i \notin SentSlots(records'[s]) => reply'[s][i] = "unsent"
                      /\ pc'[s] = "running" /\ i \in SentSlots(records'[s]) \ todo'[s]
                            => reply'[s][i] # "unsent"
                      /\ reply'[s][i] = "exists" => policy' = "create_only"
      <3>1. CASE s = t
        BY <1>1, <3>1
      <3>2. CASE s # t
        BY <1>1, <1>2, <3>2 DEF RepliesMatch
      <3> QED
        BY <3>1, <3>2
    <2> QED
      BY <2>1 DEF RepliesMatch
  <1>8. AnswersTruthful'
    BY <1>1, <1>2, TruthfulKept
  <1>9. AloneAccounts'
    <2>1. \A k \in Keys : KeyAccounted(t, k)'
      BY <1>1, <1>3 DEF KeyAccounted
    <2> QED
      BY <1>2, <1>4, <1>5, <2>1 DEF AloneAccounts
  <1>10. CreatedStays'
    <2> SUFFICES ASSUME policy = "create_only", NEW s \in Threads PROVE CreatedIn(s)'
      BY <1>1 DEF CreatedStays, CreatedIn
    <2>1. CASE s = t
      BY <1>1, <2>1 DEF CreatedIn
    <2>2. CASE s # t
      <3>1. before'[s] = before[s] /\ CreatedIn(s) /\ ~alone'[s]
        BY <1>4, <2>2 DEF Begin, TypeOK, CreatedStays, CreatedIn
      <3>2. \A r : ServerWrites(Absent, r)' = ServerWrites(Absent, r)
        BY <1>1 DEF ServerWrites, Absent
      <3> QED
        BY <1>1, <1>2, <2>2, <3>1, <3>2 DEF CreatedIn
    <2> QED
      BY <2>1, <2>2
  <1> QED
    BY <1>6, <1>7, <1>8, <1>9, <1>10

\* The server runs a command: the answer is for the slot it was sent for, and
\* only the key of that slot may change.
LEMMA ExecuteSink ==
  ASSUME SinkInv, NEW t \in Threads, NEW i \in 1 .. MaxBatch, Execute(t, i)
  PROVE  SinkInv'
  <1> USE DEF SinkInv
  <1> DEFINE recs == records[t]
             cmd == records[t][i]
  <1>1. /\ policy' = policy /\ pc' = pc /\ records' = records /\ answer' = answer
        /\ before' = before /\ alone' = alone
        /\ pc[t] = "running" /\ i \in todo[t]
        /\ todo' = [todo EXCEPT ![t] = @ \ {i}]
    BY DEF Execute
  <1>2. /\ recs \in Seq(Inputs) /\ i \in SentSlots(recs) /\ i \in Slots(recs)
        /\ cmd \in Inputs /\ cmd.key \in Keys
    BY <1>1, SlotTypes DEF TypeOK, RepliesMatch
  <1>3. PICK code \in Codes \ {"unsent"} :
           /\ reply' = [reply EXCEPT ![t][i] = code]
           /\ code = "exists" => policy = "create_only"
           /\ \/ /\ store' = [store EXCEPT ![cmd.key] = ServerWrites(@, cmd)]
                 /\ code = "exists" <=> policy = "create_only" /\ Exists(store[cmd.key])
                 /\ code # "failed"
              \/ store' = store /\ code = "failed"
    BY DEF Execute, Command, Codes
  <1>4. /\ reply'[t] = [reply[t] EXCEPT ![i] = code]
        /\ todo'[t] = todo[t] \ {i}
        /\ \A s \in Threads \ {t} : reply'[s] = reply[s] /\ todo'[s] = todo[s]
    BY <1>1, <1>3 DEF TypeOK
  <1>5. store' \in [Keys -> Holding]
    <2>1. ServerWrites(store[cmd.key], cmd) \in Holding
      BY <1>2, ServerWritesType DEF TypeOK
    <2> QED
      BY <1>2, <1>3, <2>1 DEF TypeOK
  <1>6. TypeOK'
    <2>1. reply' = [s \in Threads |-> reply'[s]]
      BY <1>3 DEF TypeOK
    <2>2. todo' \in [Threads -> SUBSET Nat]
      BY <1>1 DEF TypeOK
    <2>3. \A s \in Threads : reply'[s] \in [Slots(records[s]) -> Codes]
      BY <1>3, <1>4 DEF TypeOK
    <2> QED
      BY <1>1, <1>5, <2>1, <2>2, <2>3 DEF TypeOK
  <1>7. RepliesMatch'
    <2>1. ASSUME NEW s \in Threads
          PROVE  /\ todo'[s] \subseteq SentSlots(records[s])
                 /\ \A j \in Slots(records[s]) :
                      /\ j \notin SentSlots(records[s]) => reply'[s][j] = "unsent"
                      /\ pc[s] = "running" /\ j \in SentSlots(records[s]) \ todo'[s]
                            => reply'[s][j] # "unsent"
                      /\ reply'[s][j] = "exists" => policy = "create_only"
      <3>1. CASE s = t
        <4>1. \A j \in Slots(recs) : reply'[t][j] = IF j = i THEN code ELSE reply[t][j]
          BY <1>2, <1>4 DEF TypeOK
        <4> QED
          BY <1>2, <1>3, <1>4, <3>1, <4>1 DEF RepliesMatch
      <3>2. CASE s # t
        BY <1>4, <3>2 DEF RepliesMatch
      <3> QED
        BY <3>1, <3>2
    <2> QED
      BY <1>1, <2>1 DEF RepliesMatch
  <1>8. AnswersTruthful'
    BY <1>1, <1>4, TruthfulKept
  <1>9. AloneAccounts'
    <2> SUFFICES ASSUME NEW s \in Threads, alone[s], pc[s] # "idle", NEW k \in Keys
                 PROVE  KeyAccounted(s, k)'
      BY <1>1 DEF AloneAccounts
    <2>1. s = t
      BY <1>1 DEF AloneAccounts
    <2>2. KeyAccounted(t, k)
      BY <2>1 DEF AloneAccounts
    <2>3. CASE k # cmd.key
      <3>1. store'[k] = store[k]
        BY <1>2, <1>3, <2>3 DEF TypeOK
      <3>2. \A j \in SentSlots(recs) : recs[j].key = k => j # i /\ reply'[t][j] = reply[t][j]
        BY <1>2, <1>4, <2>3, SlotTypes DEF TypeOK
      <3>3. \A j : ServerWrites(before[t][k], recs[j])' = ServerWrites(before[t][k], recs[j])
        BY <1>1 DEF ServerWrites
      <3>4. CASE /\ store[k] = before[t][k]
                 /\ \A j \in SentSlots(recs) : recs[j].key = k => reply[t][j] # "ok"
        BY <1>1, <2>1, <3>1, <3>2, <3>4 DEF KeyAccounted
      <3>5. ASSUME NEW j \in SentSlots(recs) \ todo[t], recs[j].key = k,
                   store[k] = ServerWrites(before[t][k], recs[j])
            PROVE  KeyAccounted(t, k)'
        BY <1>1, <1>4, <3>1, <3>3, <3>5 DEF KeyAccounted
      <3> QED
        BY <2>1, <2>2, <3>4, <3>5 DEF KeyAccounted
    <2>4. CASE k = cmd.key
      <3>1. store[k] = before[t][k]
        BY <1>1, <1>2, <2>2, <2>4, SentOnce DEF KeyAccounted
      <3>2. CASE store' = [store EXCEPT ![cmd.key] = ServerWrites(@, cmd)]
        <4>1. store'[k] = ServerWrites(before[t][k], recs[i])
          BY <2>4, <3>1, <3>2 DEF TypeOK
        <4>2. ServerWrites(before[t][k], recs[i])' = ServerWrites(before[t][k], recs[i])
          BY <1>1 DEF ServerWrites
        <4>3. i \in SentSlots(records'[t]) \ todo'[t] /\ records'[t][i].key = k
          BY <1>1, <1>2, <1>4, <2>4
        <4> QED
          BY <1>1, <2>1, <4>1, <4>2, <4>3 DEF KeyAccounted
      <3>3. CASE store' = store /\ code = "failed"
        <4>1. \A j \in SentSlots(recs) : recs[j].key = k => j = i
          BY <1>2, <2>4, SentOnce
        <4>2. reply'[t][i] = "failed"
          BY <1>2, <1>4, <3>3 DEF TypeOK
        <4> QED
          BY <1>1, <2>1, <3>1, <3>3, <4>1, <4>2 DEF KeyAccounted
      <3> QED
        BY <1>3, <3>2, <3>3
    <2> QED
      BY <2>3, <2>4
  <1>10. CreatedStays'
    <2> SUFFICES ASSUME policy = "create_only", NEW s \in Threads PROVE CreatedIn(s)'
      BY <1>1 DEF CreatedStays
    <2>1. CreatedIn(s)
      BY DEF CreatedStays
    <2>2. \A q \in Keys : Exists(store[q]) => store'[q] = store[q]
      BY <1>2, <1>3, CreateOnlyKeeps DEF TypeOK
    <2>3. \A r : ServerWrites(Absent, r)' = ServerWrites(Absent, r)
      BY <1>1 DEF ServerWrites, Absent
    <2>4. \A r \in Inputs : Exists(ServerWrites(Absent, r))
      BY SinkAssumption DEF Exists, ServerWrites
    <2>5. \A q \in Keys : Exists(before[s][q]) => Exists(store'[q])
      BY <2>1, <2>2 DEF CreatedIn
    <2>6. ASSUME NEW j \in Slots(records[s]), reply'[s][j] = reply[s][j]
          PROVE  /\ reply'[s][j] = "ok" =>
                       /\ ~Exists(before[s][records[s][j].key])
                       /\ store'[records[s][j].key] = ServerWrites(Absent, records[s][j])
                 /\ reply'[s][j] = "exists" =>
                       /\ Exists(store'[records[s][j].key])
                       /\ Exists(before[s][records[s][j].key]) \/ ~alone[s]
      <3>1. records[s][j] \in Inputs /\ records[s][j].key \in Keys
        BY SlotTypes DEF TypeOK
      <3> QED
        BY <2>1, <2>2, <2>4, <2>6, <3>1 DEF CreatedIn
    <2>7. CASE s = t
      <3>1. \A j \in Slots(recs) : reply'[t][j] = IF j = i THEN code ELSE reply[t][j]
        BY <1>2, <1>4 DEF TypeOK
      <3>2. code = "ok" => ~Exists(before[t][cmd.key]) /\ store'[cmd.key] = ServerWrites(Absent, cmd)
        <4> SUFFICES ASSUME code = "ok"
                     PROVE  /\ ~Exists(before[t][cmd.key])
                            /\ store'[cmd.key] = ServerWrites(Absent, cmd)
          OBVIOUS
        <4>1. /\ ~Exists(store[cmd.key])
              /\ store' = [store EXCEPT ![cmd.key] = ServerWrites(@, cmd)]
          BY <1>3
        <4>2. store'[cmd.key] = ServerWrites(store[cmd.key], cmd) /\ store[cmd.key] \in Holding
          BY <1>2, <4>1 DEF TypeOK
        <4> QED
          BY <1>2, <2>1, <2>7, <4>1, <4>2, CreateOnlyKeeps DEF CreatedIn
      <3>3. code = "exists" => /\ Exists(store'[cmd.key])
                               /\ Exists(before[t][cmd.key]) \/ ~alone[t]
        <4> SUFFICES ASSUME code = "exists"
                     PROVE  /\ Exists(store'[cmd.key])
                            /\ alone[t] => Exists(before[t][cmd.key])
          OBVIOUS
        <4>1. Exists(store[cmd.key])
          BY <1>3
        <4>2. alone[t] => store[cmd.key] = before[t][cmd.key]
          <5> SUFFICES ASSUME alone[t] PROVE store[cmd.key] = before[t][cmd.key]
            OBVIOUS
          <5>1. KeyAccounted(t, cmd.key)
            BY <1>1, <1>2 DEF AloneAccounts
          <5>2. \A j \in SentSlots(recs) : recs[j].key = cmd.key => j = i
            BY <1>2, SentOnce
          <5> QED
            BY <1>1, <5>1, <5>2 DEF KeyAccounted
        <4> QED
          BY <1>2, <2>2, <4>1, <4>2
      <3> QED
        BY <1>1, <2>3, <2>5, <2>6, <2>7, <3>1, <3>2, <3>3 DEF CreatedIn
    <2>8. CASE s # t
      BY <1>1, <1>4, <2>3, <2>5, <2>6, <2>8 DEF CreatedIn
    <2> QED
      BY <2>7, <2>8
  <1> QED
    BY <1>6, <1>7, <1>8, <1>9, <1>10

\* What the call is told about a record is the reply to the one command that
\* was sent for its key.
LEMMA ReturnTruthful ==
  ASSUME SinkInv, NEW t \in Threads, pc[t] = "running", todo[t] = {},
         NEW told, told = [i \in Slots(records[t]) |->
                              IF TooLarge(records[t][i]) THEN "RecordTooLarge"
                              ELSE Reason(reply[t][SlotOfReply(records[t], i)])]
  PROVE  /\ told \in [Slots(records[t]) -> Answers]
         /\ TruthfulCall(records[t], reply[t], told)
  <1> DEFINE recs == records[t]
  <1>1. recs \in Seq(Inputs) /\ reply[t] \in [Slots(recs) -> Codes]
    BY DEF SinkInv, TypeOK
  <1>2. \A i \in Slots(recs) :
           /\ i \in SentSlots(recs) => reply[t][i] # "unsent"
           /\ i \notin SentSlots(recs) => reply[t][i] = "unsent"
           /\ reply[t][i] = "exists" => policy = "create_only"
    BY DEF SinkInv, RepliesMatch
  <1>3. told \in [Slots(recs) -> Answers]
    BY DEF Answers, Reason
  <1>4. ASSUME NEW i \in Slots(recs), NEW codes,
               codes = {reply[t][j] : j \in {k \in Slots(recs) : recs[k].key = recs[i].key}}
        PROVE  /\ told[i] = "RecordTooLarge" => recs[i].large
               /\ told[i] = "none" => "ok" \in codes /\ ~recs[i].large
               /\ told[i] = "RecordExists" => "exists" \in codes /\ codes \subseteq {"exists", "unsent"}
               /\ told[i] = "failed" => codes \cap {"failed", "in_doubt"} # {}
    <2>1. CASE TooLarge(recs[i])
      BY <2>1 DEF TooLarge
    <2>2. CASE ~TooLarge(recs[i])
      <3> DEFINE sent == SlotOfReply(recs, i)
      <3>1. sent \in SentSlots(recs) /\ recs[sent].key = recs[i].key /\ sent \in Slots(recs)
        BY <1>1, <2>2, OneIsSent, SlotTypes
      <3>2. \A j \in Slots(recs) : recs[j].key = recs[i].key => j = sent \/ reply[t][j] = "unsent"
        BY <1>1, <1>2, <3>1, SentOnce
      <3>3. told[i] = Reason(reply[t][sent]) /\ ~recs[i].large
        BY <2>2 DEF TooLarge
      <3>4. reply[t][sent] \in codes /\ codes \subseteq {reply[t][sent], "unsent"}
        BY <1>4, <3>1, <3>2
      <3>5. reply[t][sent] \in Codes \ {"unsent"} /\ (reply[t][sent] = "exists" => policy = "create_only")
        BY <1>1, <1>2, <3>1
      <3> HIDE DEF sent
      <3> QED
        BY <3>3, <3>4, <3>5 DEF Reason, IsRecordExistsError, Codes
    <2> QED
      BY <2>1, <2>2
  <1>5. TruthfulCall(recs, reply[t], told)
    BY <1>4 DEF TruthfulCall
  <1> QED
    BY <1>3, <1>5

\* A call that is over, by returning or raising, has nothing under way, and the
\* store is not touched.
LEMMA EndSink ==
  ASSUME SinkInv, NEW t \in Threads, NEW told, told \in [Slots(records[t]) -> Answers],
         TruthfulCall(records[t], reply[t], told), pc[t] = "running",
         answer' = [answer EXCEPT ![t] = told],
         pc' = [pc EXCEPT ![t] = "answered"],
         todo' = [todo EXCEPT ![t] = {}],
         UNCHANGED <<policy, store, records, reply, before, alone>>
  PROVE  SinkInv'
  <1> USE DEF SinkInv
  <1>1. answer'[t] = told /\ pc'[t] = "answered" /\ todo'[t] = {}
    BY DEF TypeOK
  <1>2. \A s \in Threads \ {t} : answer'[s] = answer[s] /\ pc'[s] = pc[s] /\ todo'[s] = todo[s]
    BY DEF TypeOK
  <1>3. TypeOK'
    <2>1. /\ pc' \in [Threads -> {"idle", "running", "answered"}]
          /\ todo' \in [Threads -> SUBSET Nat]
          /\ answer' = [s \in Threads |-> answer'[s]]
      BY DEF TypeOK
    <2>2. \A s \in Threads : pc'[s] = "answered" => answer'[s] \in [Slots(records[s]) -> Answers]
      BY <1>1, <1>2 DEF TypeOK
    <2> QED
      BY <2>1, <2>2 DEF TypeOK
  <1>4. RepliesMatch'
    BY <1>1, <1>2 DEF RepliesMatch
  <1>5. AnswersTruthful'
    BY <1>1, <1>2, TruthfulKept
  <1>6. AloneAccounts'
    <2>1. ASSUME NEW s \in Threads, NEW k \in Keys, KeyAccounted(s, k)
          PROVE  KeyAccounted(s, k)'
      <3>1. \A r : ServerWrites(before[s][k], r)' = ServerWrites(before[s][k], r)
        BY DEF ServerWrites
      <3>2. SentSlots(records[s]) \ todo[s] \subseteq SentSlots(records[s]) \ todo'[s]
        BY <1>1, <1>2
      <3> QED
        BY <2>1, <3>1, <3>2 DEF KeyAccounted
    <2>2. ASSUME NEW s \in Threads, alone[s]
          PROVE  /\ \A u \in Threads \ {s} : pc'[u] # "running"
                 /\ pc'[s] # "idle" => \A k \in Keys : KeyAccounted(s, k)
      <3>1. \A u \in Threads \ {s} : pc[u] # "running"
        BY <2>2 DEF AloneAccounts
      <3>2. s = t
        BY <3>1
      <3> QED
        BY <1>2, <2>2, <3>1, <3>2 DEF AloneAccounts
    <2> QED
      BY <2>1, <2>2 DEF AloneAccounts
  <1>7. CreatedStays'
    <2>1. \A r : ServerWrites(Absent, r)' = ServerWrites(Absent, r)
      BY DEF ServerWrites, Absent
    <2> QED
      BY <2>1 DEF CreatedStays, CreatedIn
  <1> QED
    BY <1>3, <1>4, <1>5, <1>6, <1>7

\* Every step of the threads and of the server keeps the invariant.
LEMMA NextSink == SinkInv /\ [Next]_vars => SinkInv'
  <1> SUFFICES ASSUME SinkInv, [Next]_vars PROVE SinkInv'
    OBVIOUS
  <1>1. ASSUME NEW t \in Threads, Write(t) PROVE SinkInv'
    <2>1. PICK r \in Inputs : Begin(t, <<r>>)
      BY <1>1 DEF Write
    <2>2. <<r>> \in Seq(Inputs)
      OBVIOUS
    <2> QED
      BY <2>1, <2>2, BeginSink
  <1>2. ASSUME NEW t \in Threads, WriteMany(t) PROVE SinkInv'
    <2>1. PICK recs \in BoundedSeq(Inputs, MaxBatch) : Begin(t, recs)
      BY <1>2 DEF WriteMany
    <2>2. PICK n \in 0 .. MaxBatch : recs \in [1 .. n -> Inputs]
      BY DEF BoundedSeq, SeqOf
    <2>3. recs \in Seq(Inputs)
      BY <2>2, SinkAssumption
    <2> QED
      BY <2>1, <2>3, BeginSink
  <1>3. ASSUME NEW t \in Threads, Return(t) PROVE SinkInv'
    <2> DEFINE told == [i \in Slots(records[t]) |->
                           IF TooLarge(records[t][i]) THEN "RecordTooLarge"
                           ELSE Reason(reply[t][SlotOfReply(records[t], i)])]
    <2>1. /\ pc[t] = "running" /\ todo[t] = {}
          /\ answer' = [answer EXCEPT ![t] = told]
          /\ pc' = [pc EXCEPT ![t] = "answered"]
          /\ UNCHANGED <<policy, store, records, todo, reply, before, alone>>
      BY <1>3 DEF Return
    <2>2. told \in [Slots(records[t]) -> Answers] /\ TruthfulCall(records[t], reply[t], told)
      BY <2>1, ReturnTruthful
    <2>3. todo' = [todo EXCEPT ![t] = {}]
      BY <2>1 DEF SinkInv, TypeOK
    <2> HIDE DEF told
    <2> QED
      BY <2>1, <2>2, <2>3, EndSink
  <1>4. ASSUME NEW t \in Threads, Raises(t) PROVE SinkInv'
    <2> DEFINE told == [i \in Slots(records[t]) |-> "failed"]
    <2>1. /\ pc[t] = "running"
          /\ answer' = [answer EXCEPT ![t] = told]
          /\ pc' = [pc EXCEPT ![t] = "answered"]
          /\ todo' = [todo EXCEPT ![t] = {}]
          /\ UNCHANGED <<policy, store, records, reply, before, alone>>
      BY <1>4 DEF Raises
    <2>2. told \in [Slots(records[t]) -> Answers] /\ \A i \in Slots(records[t]) : told[i] = "failed"
      BY DEF Answers
    <2> HIDE DEF told
    <2>3. TruthfulCall(records[t], reply[t], told)
      BY <2>2 DEF TruthfulCall
    <2> QED
      BY <2>1, <2>2, <2>3, EndSink
  <1>5. CASE UNCHANGED vars
    <2>1. \A t \in Threads, k \in Keys : KeyAccounted(t, k)' = KeyAccounted(t, k)
      BY <1>5 DEF KeyAccounted, ServerWrites, vars, callVars
    <2>2. AloneAccounts'
      BY <1>5, <2>1 DEF SinkInv, AloneAccounts, vars, callVars
    <2>3. TypeOK' /\ RepliesMatch'
      BY <1>5 DEF SinkInv, TypeOK, RepliesMatch, vars, callVars
    <2>4. AnswersTruthful'
      <3>1. pc' = pc /\ records' = records /\ reply' = reply /\ answer' = answer
        BY <1>5 DEF vars, callVars
      <3>2. \A t \in Threads : pc'[t] = "answered" => TruthfulCall(records'[t], reply'[t], answer'[t])
        BY <3>1, TruthfulCalls DEF SinkInv
      <3> QED
        BY <3>2 DEF AnswersTruthful, TruthfulCall
    <2>5. CreatedStays'
      BY <1>5 DEF SinkInv, CreatedStays, CreatedIn, ServerWrites, Absent, vars, callVars
    <2> QED
      BY <2>2, <2>3, <2>4, <2>5 DEF SinkInv
  <1> QED
    BY <1>1, <1>2, <1>3, <1>4, <1>5, ExecuteSink DEF Next, Over

\* The invariant holds for every number of threads, keys and records.
LEMMA SinkInvariant == Spec => []SinkInv
  BY InitSink, NextSink, PTL DEF Spec

(* However large the batch and however often a key is in it, the server     *)
(* never has two commands of one call for one key.                          *)
THEOREM NoHotKey == Spec => []OneCommandPerKey
  <1>1. SinkInv => OneCommandPerKey
    BY SentOnce DEF SinkInv, TypeOK, RepliesMatch, OneCommandPerKey
  <1> QED
    BY SinkInvariant, <1>1, PTL

(* What write and write_many report of a record is what became of its key.  *)
THEOREM OutcomesTruthful == Spec => []AnswersTruthful
  <1>1. SinkInv => AnswersTruthful
    BY DEF SinkInv
  <1> QED
    BY SinkInvariant, <1>1, PTL

\* Of the records of a call with one key, the one that is sent is the last.
LEMMA SentIsLastOfKey ==
  ASSUME NEW recs \in Seq(Inputs), NEW s \in SentSlots(recs)
  PROVE  LastOfKey(recs, recs[s].key) = s
  <1> DEFINE k == recs[s].key
             LastFit(i) == /\ recs[i].key = k /\ ~recs[i].large
                        /\ \A j \in Slots(recs) : j > i => recs[j].key # k \/ recs[j].large
  <1>1. s \in Slots(recs) /\ LastFit(s)
    BY SlotTypes DEF SentSlots, TooLarge
  <1>2. \A i \in Slots(recs) : LastFit(i) => i = s
    BY <1>1, SlotTypes DEF Slots
  <1>3. LastOfKey(recs, k) = CHOOSE i \in Slots(recs) : LastFit(i)
    BY DEF LastOfKey
  <1> HIDE DEF LastFit
  <1> QED
    BY <1>1, <1>2, <1>3

(* Under create_only a key reported as migrated was missing and has the     *)
(* record that the call sent for it, and one reported as existing was not   *)
(* put there by the call itself.                                            *)
THEOREM CreatedIsTold == Spec => []CreateOnlyTruthful
  <1>1. SinkInv => CreateOnlyTruthful
    <2> SUFFICES ASSUME SinkInv, policy = "create_only", NEW t \in Threads, pc[t] = "answered",
                        NEW i \in Slots(records[t])
                 PROVE  LET k == records[t][i].key
                        IN  /\ answer[t][i] = "none" =>
                                  /\ ~Exists(before[t][k])
                                  /\ store[k] = ServerWrites(Absent,
                                                             records[t][LastOfKey(records[t], k)])
                            /\ answer[t][i] = "RecordExists" =>
                                  /\ Exists(store[k])
                                  /\ Exists(before[t][k]) \/ ~alone[t]
      BY DEF CreateOnlyTruthful
    <2> DEFINE recs == records[t]
               k == records[t][i].key
    <2>1. recs \in Seq(Inputs) /\ CreatedIn(t)
      BY DEF SinkInv, TypeOK, CreatedStays
    <2>2. /\ answer[t][i] = "none" => \E j \in Slots(recs) : recs[j].key = k /\ reply[t][j] = "ok"
          /\ answer[t][i] = "RecordExists" =>
                 \E j \in Slots(recs) : recs[j].key = k /\ reply[t][j] = "exists"
      BY DEF SinkInv, AnswersTruthful
    <2>3. ASSUME NEW j \in Slots(recs), recs[j].key = k, reply[t][j] = "ok"
          PROVE  /\ ~Exists(before[t][k])
                 /\ store[k] = ServerWrites(Absent, recs[LastOfKey(recs, k)])
      <3>1. j \in SentSlots(recs)
        BY <2>3 DEF SinkInv, RepliesMatch
      <3>2. LastOfKey(recs, k) = j
        BY <2>1, <2>3, <3>1, SentIsLastOfKey
      <3> QED
        BY <2>1, <2>3, <3>2 DEF CreatedIn
    <2>4. ASSUME NEW j \in Slots(recs), recs[j].key = k, reply[t][j] = "exists"
          PROVE  Exists(store[k]) /\ (Exists(before[t][k]) \/ ~alone[t])
      BY <2>1, <2>4 DEF CreatedIn
    <2> QED
      BY <2>2, <2>3, <2>4
  <1> QED
    BY SinkInvariant, <1>1, PTL

-----------------------------------------------------------------------------
(* The reference: single writes, one after the other *)

\* What the n-th record of recs makes of the store.
Step(recs, h, n) ==
    IF TooLarge(recs[n]) THEN h ELSE [h EXCEPT ![recs[n].key] = ServerWrites(@, recs[n])]

\* run[n] is the store after the first n single writes, n up to m.
IsRun(run, m, held, recs) ==
    /\ run \in [0 .. m -> [Keys -> Holding]]
    /\ run[0] = held
    /\ \A n \in 1 .. m : run[n] = Step(recs, run[n - 1], n)

\* A single write leaves a store.
LEMMA StepType ==
  ASSUME policy \in AllPolicies, NEW recs \in Seq(Inputs), NEW n \in Slots(recs),
         NEW h \in [Keys -> Holding]
  PROVE  Step(recs, h, n) \in [Keys -> Holding]
  <1>1. recs[n] \in Inputs /\ recs[n].key \in Keys
    BY SlotTypes
  <1>2. ServerWrites(h[recs[n].key], recs[n]) \in Holding
    BY <1>1, ServerWritesType
  <1> QED
    BY <1>1, <1>2 DEF Step

\* The single writes can be made one after the other ...
LEMMA RunExists ==
  ASSUME policy \in AllPolicies, NEW recs \in Seq(Inputs), NEW held \in [Keys -> Holding]
  PROVE  \E run : IsRun(run, Len(recs), held, recs)
  <1> DEFINE S == {m \in Nat : \E run : IsRun(run, m, held, recs)}
  <1>1. 0 \in S
    <2>1. IsRun([n \in 0 .. 0 |-> held], 0, held, recs)
      BY DEF IsRun
    <2> QED
      BY <2>1
  <1>2. ASSUME NEW m \in 0 .. (Len(recs) - 1), m \in S PROVE m + 1 \in S
    <2>1. PICK run : IsRun(run, m, held, recs)
      BY <1>2
    <2> DEFINE last == Step(recs, run[m], m + 1)
               longer == [n \in 0 .. (m + 1) |-> IF n = m + 1 THEN last ELSE run[n]]
    <2>2. m \in Nat /\ m + 1 \in Slots(recs) /\ run[m] \in [Keys -> Holding]
      BY <2>1, SlotTypes DEF IsRun, Slots
    <2>3. last \in [Keys -> Holding]
      BY <2>2, StepType
    <2> HIDE DEF last
    <2>4. longer \in [0 .. (m + 1) -> [Keys -> Holding]]
      BY <2>1, <2>2, <2>3 DEF IsRun
    <2>5. longer[0] = held
      BY <2>1, <2>2 DEF IsRun
    <2>6. ASSUME NEW n \in 1 .. (m + 1) PROVE longer[n] = Step(recs, longer[n - 1], n)
      <3>1. CASE n = m + 1
        <4>1. longer[n - 1] = run[m] /\ longer[n] = last
          BY <2>2, <3>1
        <4> QED
          BY <3>1, <4>1 DEF last
      <3>2. CASE n # m + 1
        <4>1. n \in 1 .. m /\ longer[n - 1] = run[n - 1] /\ longer[n] = run[n]
          BY <2>2, <3>2
        <4> QED
          BY <2>1, <4>1 DEF IsRun
      <3> QED
        BY <3>1, <3>2
    <2>7. IsRun(longer, m + 1, held, recs)
      BY <2>4, <2>5, <2>6 DEF IsRun
    <2> QED
      BY <2>2, <2>7
  <1>3. Len(recs) \in Nat
    BY SlotTypes
  <1> HIDE DEF S
  <1>4. \A m \in 0 .. Len(recs) : m \in S
    BY <1>1, <1>2, <1>3, StepInduction
  <1>5. Len(recs) \in S
    BY <1>3, <1>4
  <1> QED
    BY <1>5 DEF S

\* ... and OneByOne is where they end.
LEMMA OneByOneRuns ==
  ASSUME policy \in AllPolicies, NEW recs \in Seq(Inputs), NEW held \in [Keys -> Holding]
  PROVE  \E run : IsRun(run, Len(recs), held, recs) /\ OneByOne(held, recs) = run[Len(recs)]
  <1> DEFINE L == Len(recs)
             Body(f) == [n \in 0 .. L |-> IF n = 0 THEN held ELSE Step(recs, f[n - 1], n)]
             after == CHOOSE f : f = Body(f)
  <1>1. L \in Nat
    BY SlotTypes
  <1>2. PICK run : IsRun(run, L, held, recs)
    BY RunExists
  <1>3. run = Body(run)
    <2>1. run = [n \in 0 .. L |-> run[n]]
      BY <1>2 DEF IsRun
    <2>2. \A n \in 0 .. L : run[n] = Body(run)[n]
      BY <1>1, <1>2 DEF IsRun
    <2> QED
      BY <2>1, <2>2
  <1>4. after = Body(after)
    BY <1>3
  <1>5. OneByOne(held, recs) = after[L]
    BY DEF OneByOne, Step
  <1> DEFINE S == {n \in 0 .. L : after[n] = run[n]}
  <1>6. after[0] = held /\ \A n \in 1 .. L : after[n] = Step(recs, after[n - 1], n)
    <2> HIDE DEF after
    <2>1. \A n \in 0 .. L : after[n] = IF n = 0 THEN held ELSE Step(recs, after[n - 1], n)
      BY <1>4
    <2> QED
      BY <1>1, <2>1
  <1> HIDE DEF after
  <1>7. 0 \in S
    BY <1>1, <1>2, <1>6 DEF IsRun
  <1>8. ASSUME NEW n \in 0 .. (L - 1), n \in S PROVE n + 1 \in S
    <2>1. n + 1 \in 1 .. L /\ after[n] = run[n] /\ (n + 1) - 1 = n
      BY <1>1, <1>8
    <2>2. after[n + 1] = Step(recs, after[n], n + 1)
      BY <1>1, <1>6, <2>1
    <2>3. run[n + 1] = Step(recs, run[n], n + 1)
      BY <1>2, <2>1 DEF IsRun
    <2> QED
      BY <2>1, <2>2, <2>3
  <1> HIDE DEF S
  <1>9. \A n \in 0 .. L : n \in S
    BY <1>1, <1>7, <1>8, StepInduction
  <1>10. after[L] = run[L]
    BY <1>1, <1>9 DEF S
  <1> QED
    BY <1>2, <1>5, <1>10

-----------------------------------------------------------------------------
(* What single writes make of one key *)

\* The n-th record writes k.
Writes(recs, n, k) == ~TooLarge(recs[n]) /\ recs[n].key = k

\* A single write touches its own key only.
LEMMA RunAt ==
  ASSUME policy \in AllPolicies, NEW recs \in Seq(Inputs), NEW held \in [Keys -> Holding],
         NEW run, IsRun(run, Len(recs), held, recs), NEW k \in Keys,
         NEW n \in 0 .. (Len(recs) - 1)
  PROVE  /\ n + 1 \in Slots(recs) /\ run[n][k] \in Holding /\ run[n + 1][k] \in Holding
         /\ run[n + 1][k] = IF Writes(recs, n + 1, k) THEN ServerWrites(run[n][k], recs[n + 1])
                            ELSE run[n][k]
  <1>1. Len(recs) \in Nat /\ n \in 0 .. Len(recs) /\ n + 1 \in 1 .. Len(recs) /\ (n + 1) - 1 = n
    BY SlotTypes
  <1>2. n + 1 \in 0 .. Len(recs)
    BY <1>1
  <1>3. run[n] \in [Keys -> Holding] /\ run[n + 1] \in [Keys -> Holding]
        /\ run[n + 1] = Step(recs, run[n], n + 1)
    BY <1>1, <1>2 DEF IsRun
  <1>4. n + 1 \in Slots(recs) /\ recs[n + 1].key \in Keys
    BY <1>1, SlotTypes DEF Slots
  <1> QED
    BY <1>3, <1>4 DEF Step, Writes

\* The slot sent for a key is the last that writes it.
LEMMA SentIsLast ==
  ASSUME NEW recs \in Seq(Inputs), NEW s \in SentSlots(recs), NEW n \in Slots(recs),
         Writes(recs, n, recs[s].key)
  PROVE  n <= s
  BY SlotTypes DEF SentSlots, Slots, Writes

\* A key whose values differ before the writes at most in what the command sent
\* for it writes has the same value after them.
LEMMA RunsMeet ==
  ASSUME policy \in AllPolicies, policy # "create_only", NEW recs \in Seq(Inputs),
         NEW one \in [Keys -> Holding], NEW two \in [Keys -> Holding],
         NEW runOne, IsRun(runOne, Len(recs), one, recs),
         NEW runTwo, IsRun(runTwo, Len(recs), two, recs),
         NEW s \in SentSlots(recs),
         one[recs[s].key] = ServerWrites(two[recs[s].key], recs[s])
  PROVE  runOne[Len(recs)][recs[s].key] = runTwo[Len(recs)][recs[s].key]
  <1> DEFINE L == Len(recs)
             k == recs[s].key
             Rest(n) == \A b \in Bins \ recs[s].bins :
                           policy = "update" => runOne[n][k].bins[b] = runTwo[n][k].bins[b]
             S == {n \in 0 .. L : Rest(n) /\ (n >= s => runOne[n][k] = runTwo[n][k])}
  <1>1. L \in Nat /\ s \in 1 .. L /\ s \in Slots(recs) /\ k \in Keys
        /\ one[k] = ServerWrites(two[k], recs[s]) /\ recs[s].key = k
    BY SlotTypes DEF SentSlots, Slots
  <1> HIDE DEF k
  <1>2. 0 \in S
    <2>1. Rest(0)
      BY <1>1 DEF IsRun, ServerWrites
    <2> QED
      BY <1>1, <2>1
  <1>3. ASSUME NEW n \in 0 .. (L - 1), n \in S PROVE n + 1 \in S
    <2> DEFINE a == runOne[n][k]
               c == runTwo[n][k]
               r == recs[n + 1]
    <2>1. /\ n + 1 \in Slots(recs) /\ n + 1 \in 0 .. L
          /\ a \in Holding /\ runOne[n + 1][k] = IF Writes(recs, n + 1, k) THEN ServerWrites(a, r) ELSE a
          /\ c \in Holding /\ runTwo[n + 1][k] = IF Writes(recs, n + 1, k) THEN ServerWrites(c, r) ELSE c
      <3>1. n + 1 \in 0 .. L
        BY <1>1
      <3>2. /\ n + 1 \in Slots(recs) /\ a \in Holding
            /\ runOne[n + 1][k] = IF Writes(recs, n + 1, k) THEN ServerWrites(a, r) ELSE a
        BY <1>1, RunAt
      <3>3. c \in Holding /\ runTwo[n + 1][k] = IF Writes(recs, n + 1, k) THEN ServerWrites(c, r) ELSE c
        BY <1>1, RunAt
      <3> QED
        BY <3>1, <3>2, <3>3
    <2>2. Rest(n) /\ (n >= s => a = c)
      BY <1>3
    <2>3. CASE ~Writes(recs, n + 1, k)
      <3>1. n + 1 # s
        BY <1>1, <2>3 DEF SentSlots, Writes
      <3> QED
        BY <1>1, <2>1, <2>2, <2>3, <3>1
    <2>4. CASE Writes(recs, n + 1, k)
      <3>1. runOne[n + 1][k] = ServerWrites(a, r) /\ runTwo[n + 1][k] = ServerWrites(c, r)
        BY <2>1, <2>4
      <3>2. n + 1 <= s
        BY <1>1, <2>1, <2>4, SentIsLast
      <3>3. Rest(n + 1)
        BY <2>2, <3>1 DEF ServerWrites
      <3>4. n + 1 = s => ServerWrites(a, r) = ServerWrites(c, r)
        BY <2>2 DEF ServerWrites, AllPolicies
      <3> QED
        BY <1>1, <2>1, <3>1, <3>2, <3>3, <3>4
    <2> QED
      BY <2>3, <2>4
  <1> HIDE DEF S
  <1>4. \A n \in 0 .. L : n \in S
    BY <1>1, <1>2, <1>3, StepInduction
  <1> QED
    BY <1>1, <1>4 DEF S, k

\* A key that holds the same before the writes holds the same after them.
LEMMA RunsAgree ==
  ASSUME policy \in AllPolicies, NEW recs \in Seq(Inputs),
         NEW one \in [Keys -> Holding], NEW two \in [Keys -> Holding],
         NEW runOne, IsRun(runOne, Len(recs), one, recs),
         NEW runTwo, IsRun(runTwo, Len(recs), two, recs),
         NEW k \in Keys, one[k] = two[k]
  PROVE  runOne[Len(recs)][k] = runTwo[Len(recs)][k]
  <1> DEFINE L == Len(recs)
             S == {n \in 0 .. L : runOne[n][k] = runTwo[n][k]}
  <1>1. L \in Nat
    BY SlotTypes
  <1>2. 0 \in S
    BY <1>1 DEF IsRun
  <1>3. ASSUME NEW n \in 0 .. (L - 1), n \in S PROVE n + 1 \in S
    BY <1>1, <1>3, RunAt
  <1> HIDE DEF S
  <1>4. \A n \in 0 .. L : n \in S
    BY <1>1, <1>2, <1>3, StepInduction
  <1> QED
    BY <1>1, <1>4 DEF S

(* Whatever part of a call was applied before it failed, writing its        *)
(* records again gives what writing them once would have given.             *)
THEOREM RerunsConverge == Spec => []RerunConverges
  <1>1. SinkInv => RerunConverges
    <2> SUFFICES ASSUME SinkInv, policy # "create_only", NEW t \in Threads,
                        pc[t] = "answered", alone[t]
                 PROVE  OneByOne(store, records[t]) = OneByOne(before[t], records[t])
      BY DEF RerunConverges
    <2> DEFINE recs == records[t]
    <2>1. /\ policy \in AllPolicies /\ recs \in Seq(Inputs) /\ Len(recs) \in Nat
          /\ store \in [Keys -> Holding] /\ before[t] \in [Keys -> Holding]
      BY SlotTypes DEF SinkInv, TypeOK
    <2>2. PICK runOne : /\ IsRun(runOne, Len(recs), store, recs)
                        /\ OneByOne(store, recs) = runOne[Len(recs)]
      BY <2>1, OneByOneRuns
    <2>3. PICK runTwo : /\ IsRun(runTwo, Len(recs), before[t], recs)
                        /\ OneByOne(before[t], recs) = runTwo[Len(recs)]
      BY <2>1, OneByOneRuns
    <2>4. ASSUME NEW k \in Keys PROVE runOne[Len(recs)][k] = runTwo[Len(recs)][k]
      <3>1. KeyAccounted(t, k)
        BY DEF SinkInv, AloneAccounts
      <3>2. CASE store[k] = before[t][k]
        <4> HIDE DEF recs
        <4> QED
          BY <2>1, <2>2, <2>3, <3>2, RunsAgree
      <3>3. ASSUME NEW s \in SentSlots(recs), recs[s].key = k,
                   store[k] = ServerWrites(before[t][k], recs[s])
            PROVE  runOne[Len(recs)][k] = runTwo[Len(recs)][k]
        <4> HIDE DEF recs
        <4>1. IsRun(runOne, Len(recs), store, recs)
          BY <2>2
        <4>2. IsRun(runTwo, Len(recs), before[t], recs)
          BY <2>3
        <4>3. runOne[Len(recs)][recs[s].key] = runTwo[Len(recs)][recs[s].key]
          BY <2>1, <3>3, <4>1, <4>2, RunsMeet, SMTT(60)
        <4> QED
          BY <3>3, <4>3
      <3> QED
        BY <3>1, <3>2, <3>3 DEF KeyAccounted
    <2>5. runOne[Len(recs)] \in [Keys -> Holding] /\ runTwo[Len(recs)] \in [Keys -> Holding]
      BY <2>1, <2>2, <2>3 DEF IsRun
    <2> QED
      BY <2>2, <2>3, <2>4, <2>5
  <1> QED
    BY SinkInvariant, <1>1, PTL

-----------------------------------------------------------------------------
(* Collapsing duplicates *)

\* A bin that another record than the sent one writes is a superseded one.
LEMMA SupersededBins ==
  ASSUME NEW recs \in Seq(Inputs), NEW s \in SentSlots(recs), NEW n \in Slots(recs), n # s,
         Writes(recs, n, recs[s].key), NEW b \in recs[n].bins, b \notin recs[s].bins
  PROVE  b \in Superseded(recs, recs[s].key)
  <1> DEFINE k == recs[s].key
             occ == {i \in Slots(recs) : recs[i].key = k /\ ~recs[i].large}
             early == UNION {recs[i].bins : i \in {j \in occ : \E l \in occ : l > j}}
             last == UNION {recs[i].bins : i \in {j \in occ : \A l \in occ : l <= j}}
  <1>1. s \in occ /\ n \in occ
    BY SlotTypes DEF SentSlots, Writes, TooLarge
  <1>2. \A l \in occ : l <= s
    BY SentIsLast DEF Writes, TooLarge
  <1>3. s \in Nat /\ n \in Nat /\ n <= s
    BY <1>1, <1>2, SlotTypes
  <1>4. n \in {j \in occ : \E l \in occ : l > j}
    BY <1>1, <1>3
  <1>5. ASSUME NEW j \in occ, \A l \in occ : l <= j PROVE j = s
    BY <1>1, <1>2, <1>5, SlotTypes
  <1>6. b \in early
    BY <1>4
  <1>7. b \notin last
    BY <1>5
  <1>8. Superseded(recs, k) = early \ last
    BY DEF Superseded
  <1> HIDE DEF early, last
  <1>9. b \in Superseded(recs, k)
    BY <1>6, <1>7, <1>8
  <1> QED
    BY <1>9

\* Single writes leave the key with the bins and the TTL of the sent record;
\* under update its other bins are the old ones or superseded.
LEMMA RunsEndWithSent ==
  ASSUME policy \in AllPolicies, policy # "create_only", NEW recs \in Seq(Inputs),
         NEW held \in [Keys -> Holding], NEW run, IsRun(run, Len(recs), held, recs),
         NEW s \in SentSlots(recs)
  PROVE  LET k == recs[s].key
             single == run[Len(recs)][k]
             sent == ServerWrites(held[k], recs[s])
         IN  /\ single.ttl = sent.ttl
             /\ \A b \in Bins : \/ single.bins[b] = sent.bins[b]
                                \/ policy = "update" /\ b \in Superseded(recs, k)
  <1> DEFINE L == Len(recs)
             k == recs[s].key
             v == recs[s].version
             Kept(n) == \A b \in Bins \ recs[s].bins :
                          \/ run[n][k].bins[b] = held[k].bins[b]
                          \/ b \in Superseded(recs, k)
             Sent(n) == /\ run[n][k].ttl = v
                        /\ \A b \in recs[s].bins : run[n][k].bins[b] = v
                        /\ policy = "replace" =>
                               \A b \in Bins \ recs[s].bins : run[n][k].bins[b] = 0
             S == {n \in 0 .. L : (policy = "update" => Kept(n)) /\ (n >= s => Sent(n))}
  <1>1. /\ L \in Nat /\ s \in 1 .. L /\ s \in Slots(recs) /\ k \in Keys
        /\ recs[s].bins \subseteq Bins /\ Writes(recs, s, k)
        /\ recs[s].key = k /\ recs[s].version = v
    BY SlotTypes DEF SentSlots, Slots, Writes
  <1>2. \A n \in Slots(recs) : Writes(recs, n, k) => n <= s
    BY SentIsLast
  <1>3. \A n \in Slots(recs) : n # s /\ Writes(recs, n, k) =>
           \A b \in recs[n].bins : b \in recs[s].bins \/ b \in Superseded(recs, k)
    BY SupersededBins
  <1>4a. \A q \in Keys : \A n \in 0 .. (L - 1) :
           /\ n + 1 \in Slots(recs) /\ run[n][q] \in Holding
           /\ run[n + 1][q] = IF Writes(recs, n + 1, q) THEN ServerWrites(run[n][q], recs[n + 1])
                              ELSE run[n][q]
    BY RunAt
  <1> HIDE DEF k
  <1>4. 0 \in S
    <2>1. Kept(0)
      BY DEF IsRun
    <2> QED
      BY <1>1, <2>1
  <1>5. ASSUME NEW n \in 0 .. (L - 1), n \in S PROVE n + 1 \in S
    <2> DEFINE a == run[n][k]
               r == recs[n + 1]
    <2>1. /\ n + 1 \in Slots(recs) /\ a \in Holding
          /\ run[n + 1][k] = IF Writes(recs, n + 1, k) THEN ServerWrites(a, r) ELSE a
      BY <1>1, <1>4a
    <2>2. n + 1 \in 0 .. L
      BY <1>1
    <2>3. (policy = "update" => Kept(n)) /\ (n >= s => Sent(n))
      BY <1>5
    <2>4. CASE ~Writes(recs, n + 1, k)
      <3>1. n + 1 # s
        BY <1>1, <2>4
      <3>2. run[n + 1][k] = a
        BY <2>1, <2>4
      <3>3. (policy = "update" => Kept(n + 1)) /\ (n + 1 >= s => Sent(n + 1))
        BY <1>1, <2>3, <3>1, <3>2
      <3> QED
        BY <2>2, <3>3
    <2>5. CASE Writes(recs, n + 1, k)
      <3>1. run[n + 1][k] = [bins |-> [b \in Bins |-> IF b \in r.bins THEN r.version
                                                      ELSE IF policy = "update" THEN a.bins[b] ELSE 0],
                             ttl |-> r.version]
        BY <2>1, <2>5 DEF ServerWrites
      <3>2. n + 1 <= s
        BY <1>2, <2>1, <2>5
      <3>3. \A b \in Bins : run[n + 1][k].bins[b] = IF b \in r.bins THEN r.version
                                                    ELSE IF policy = "update" THEN a.bins[b] ELSE 0
        BY <3>1
      <3>4. policy = "update" => Kept(n + 1)
        <4>1. CASE n + 1 = s
          BY <2>3, <3>3, <4>1
        <4>2. CASE n + 1 # s
          BY <1>3, <2>1, <2>3, <2>5, <3>3, <4>2
        <4> QED
          BY <4>1, <4>2
      <3>5. n + 1 = s => Sent(n + 1)
        BY <1>1, <3>1, <3>3
      <3>6. n + 1 >= s => Sent(n + 1)
        BY <1>1, <3>2, <3>5
      <3> QED
        BY <2>2, <3>4, <3>6
    <2> QED
      BY <2>4, <2>5
  <1> HIDE DEF S
  <1>6. \A n \in 0 .. L : n \in S
    BY <1>1, <1>4, <1>5, StepInduction
  <1>7. (policy = "update" => Kept(L)) /\ Sent(L)
    BY <1>1, <1>6 DEF S
  <1>8. ServerWrites(held[k], recs[s]) =
           [bins |-> [b \in Bins |-> IF b \in recs[s].bins THEN v
                                     ELSE IF policy = "update" THEN held[k].bins[b] ELSE 0],
            ttl |-> v]
    BY DEF ServerWrites
  <1>9. /\ run[L][k].ttl = ServerWrites(held[k], recs[s]).ttl
        /\ \A b \in Bins : \/ run[L][k].bins[b] = ServerWrites(held[k], recs[s]).bins[b]
                           \/ policy = "update" /\ b \in Superseded(recs, k)
    BY <1>1, <1>7, <1>8 DEF AllPolicies
  <1> QED
    BY <1>9 DEF k

\* A key that no record of the call writes stays as it is.
LEMMA RunsKeepOthers ==
  ASSUME policy \in AllPolicies, NEW recs \in Seq(Inputs), NEW held \in [Keys -> Holding],
         NEW run, IsRun(run, Len(recs), held, recs), NEW k \in Keys,
         \A n \in Slots(recs) : ~Writes(recs, n, k)
  PROVE  run[Len(recs)][k] = held[k]
  <1> DEFINE L == Len(recs)
             S == {n \in 0 .. L : run[n][k] = held[k]}
  <1>1. L \in Nat
    BY SlotTypes
  <1>2. 0 \in S
    BY <1>1 DEF IsRun
  <1>3. ASSUME NEW n \in 0 .. (L - 1), n \in S PROVE n + 1 \in S
    BY <1>1, <1>3, RunAt
  <1> HIDE DEF S
  <1>4. \A n \in 0 .. L : n \in S
    BY <1>1, <1>2, <1>3, StepInduction
  <1> QED
    BY <1>1, <1>4 DEF S

\* After a clean call the one command sent for a key was applied.
LEMMA CleanApplied ==
  ASSUME SinkInv, policy # "create_only", NEW t \in Threads, Clean(t),
         NEW s \in SentSlots(records[t])
  PROVE  store[records[t][s].key] =
            ServerWrites(before[t][records[t][s].key], records[t][s])
  <1> DEFINE recs == records[t]
             k == recs[s].key
  <1>1. /\ recs \in Seq(Inputs) /\ s \in Slots(recs) /\ ~recs[s].large /\ k \in Keys
        /\ reply[t] \in [Slots(recs) -> Codes]
    BY SlotTypes DEF SinkInv, TypeOK, SentSlots, TooLarge
  <1>2. answer[t][s] \in {"none", "RecordExists", "RecordTooLarge"}
    BY <1>1 DEF SinkInv, TypeOK, Clean, Answers
  <1>3. \A j \in Slots(recs) : recs[j].key = k => j = s \/ reply[t][j] = "unsent"
    BY <1>1, SentOnce DEF SinkInv, RepliesMatch
  <1>4. reply[t][s] = "ok"
    <2> DEFINE codes == {reply[t][j] : j \in {i \in Slots(recs) : recs[i].key = k}}
    <2>1. /\ answer[t][s] = "RecordTooLarge" => recs[s].large
          /\ answer[t][s] = "none" => "ok" \in codes
          /\ answer[t][s] = "RecordExists" => "exists" \in codes
      BY <1>1, TruthfulCalls DEF SinkInv, Clean, TruthfulCall
    <2>2. codes \subseteq {reply[t][s], "unsent"}
      BY <1>3
    <2>3. reply[t][s] # "exists"
      BY <1>1 DEF SinkInv, RepliesMatch
    <2> QED
      BY <1>1, <1>2, <2>1, <2>2, <2>3
  <1>5. KeyAccounted(t, k)
    BY <1>1 DEF SinkInv, AloneAccounts, Clean
  <1>6. PICK i \in SentSlots(recs) : /\ recs[i].key = k
                                     /\ store[k] = ServerWrites(before[t][k], recs[i])
    BY <1>4, <1>5 DEF KeyAccounted
  <1>7. i = s
    BY <1>1, <1>6, SentOnce
  <1> QED
    BY <1>6, <1>7

(* Sending only the last record of a key leaves what single writes of all   *)
(* of them would leave, but for the bins that update would have merged.     *)
THEOREM CollapseIsSequential == Spec => []CollapseMatchesSequential
  <1>1. SinkInv => CollapseMatchesSequential
    <2> SUFFICES ASSUME SinkInv, policy # "create_only", NEW t \in Threads, Clean(t),
                        NEW k \in Keys
                 PROVE  LET single == OneByOne(before[t], records[t])
                        IN  /\ store[k].ttl = single[k].ttl
                            /\ \A b \in Bins :
                                   \/ store[k].bins[b] = single[k].bins[b]
                                   \/ policy = "update" /\ b \in Superseded(records[t], k)
      BY DEF CollapseMatchesSequential
    <2> DEFINE recs == records[t]
               held == before[t]
    <2>1. policy \in AllPolicies /\ recs \in Seq(Inputs) /\ held \in [Keys -> Holding]
      BY DEF SinkInv, TypeOK
    <2>2. PICK run : IsRun(run, Len(recs), held, recs) /\ OneByOne(held, recs) = run[Len(recs)]
      BY <2>1, OneByOneRuns
    <2>3. CASE \E n \in Slots(recs) : Writes(recs, n, k)
      <3>1. PICK s \in SentSlots(recs) : recs[s].key = k
        BY <2>1, <2>3, OneIsSent DEF Writes
      <3>2. store[k] = ServerWrites(held[k], recs[s])
        BY <3>1, CleanApplied
      <3> HIDE DEF recs, held
      <3>3. /\ run[Len(recs)][k].ttl = ServerWrites(held[k], recs[s]).ttl
            /\ \A b \in Bins : \/ run[Len(recs)][k].bins[b] = ServerWrites(held[k], recs[s]).bins[b]
                               \/ policy = "update" /\ b \in Superseded(recs, k)
        BY <2>1, <2>2, <3>1, RunsEndWithSent
      <3> QED
        BY <2>2, <3>2, <3>3 DEF recs, held
    <2>4. CASE \A n \in Slots(recs) : ~Writes(recs, n, k)
      <3>1. run[Len(recs)][k] = held[k]
        BY <2>1, <2>2, <2>4, RunsKeepOthers
      <3>2. \A i \in SentSlots(recs) : recs[i].key # k
        BY <2>1, <2>4, SlotTypes DEF SentSlots, Writes
      <3>3. store[k] = held[k]
        BY <3>2 DEF SinkInv, AloneAccounts, Clean, KeyAccounted
      <3> QED
        BY <2>2, <3>1, <3>3
    <2> QED
      BY <2>3, <2>4
  <1> QED
    BY SinkInvariant, <1>1, PTL
=============================================================================
