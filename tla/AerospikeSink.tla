--------------------------- MODULE AerospikeSink ---------------------------
(***************************************************************************)
(* AerospikeSink.write and write_many as the worker threads call them, and *)
(* the server they talk to.                                                *)
(*                                                                         *)
(* A record is its destination key, the names of its bins, a version that  *)
(* stands for its values and its TTL, and whether its estimated size is    *)
(* above max_record_size.  The server (external) runs the sub-commands of  *)
(* a call one record at a time, in any order and interleaved with those of *)
(* other threads; a sub-command may fail, and may have been applied        *)
(* although its answer is an error (in_doubt).                             *)
(***************************************************************************)
EXTENDS Naturals, Sequences, FiniteSets, SequencesExt

CONSTANTS
    Threads,     \* the workers that share the sink
    Keys,        \* destination keys: (namespace, set, key)
    Bins,        \* bin names
    Inputs,      \* the records that may be written
    Policies,    \* the record-exists policies to consider
    MaxBatch,    \* records per call, at most
    MaxCalls     \* bound of the model: calls in all

AllPolicies == {"update", "replace", "create_only"}

ASSUME SinkAssumption ==
    /\ Inputs \subseteq [key : Keys, bins : (SUBSET Bins) \ {{}}, version : Nat \ {0, 1},
                         large : BOOLEAN]
    /\ Policies \subseteq AllPolicies
    /\ MaxBatch \in Nat \ {0}
    /\ MaxCalls \in Nat

VARIABLES
    policy,    \* config.record_exists_policy
    store,     \* what the server holds for each key
    pc,        \* pc[t]: "idle", "running" or "answered"
    records,   \* records[t]: the argument of t's call
    todo,      \* todo[t]: slots whose sub-command is sent and not yet run
    reply,     \* reply[t]: by slot, what the server answered
    answer,    \* answer[t]: what the call returned, by slot
    calls,     \* calls started
    before,    \* before[t]: the store when t's call began, for the properties
    alone      \* alone[t]: no other call ran since then, for the properties

callVars == <<pc, records, todo, reply, answer, calls, before, alone>>
vars == <<policy, store, callVars>>

\* What a key holds: the version in each bin (0: no such bin) and the version
\* whose TTL applies (0: no record).
Absent == [bins |-> [b \in Bins |-> 0], ttl |-> 0]

\* A record that was there before the migration.
Old == [bins |-> [b \in Bins |-> 1], ttl |-> 1]

Exists(held) == held.ttl # 0

Init ==
    /\ policy \in Policies
    /\ store \in [Keys -> {Absent, Old}]
    /\ pc = [t \in Threads |-> "idle"]
    /\ records = [t \in Threads |-> <<>>]
    /\ todo = [t \in Threads |-> {}]
    /\ reply = [t \in Threads |-> <<>>]
    /\ answer = [t \in Threads |-> <<>>]
    /\ calls = 0
    /\ before = [t \in Threads |-> store]
    /\ alone = [t \in Threads |-> TRUE]

-----------------------------------------------------------------------------
(* The server *)

\* The effect of one sub-command under the exists policy that _write_policy
\* maps the configured one to: update merges bins, replace does not, and
\* create_only changes nothing that is there.  Writing a set resets its list
\* first, so it is a write of the bin like the others.
ServerWrites(held, r) ==
    IF policy = "create_only" /\ Exists(held)
    THEN held
    ELSE [bins |-> [b \in Bins |-> IF b \in r.bins THEN r.version
                                   ELSE IF policy = "update" THEN held.bins[b] ELSE 0],
          ttl |-> r.version]

-----------------------------------------------------------------------------
(* The sink *)

Slots(recs) == 1 .. Len(recs)

\* _too_large_reason gives a reason.
TooLarge(r) == r.large

\* Mutant of SentSlots: duplicate keys are not collapsed.
SentSlotsAll(recs) == {i \in Slots(recs) : ~TooLarge(recs[i])}

\* Mutant of SentSlots: the first record of each key is sent.
SentSlotsFirst(recs) ==
    {i \in SentSlotsAll(recs) : \A j \in SentSlotsAll(recs) : j < i => recs[j].key # recs[i].key}

\* last_slot_for_key: of the records that are not too large, the last one of
\* each key is sent.
SentSlots(recs) ==
    {i \in Slots(recs) :
        /\ ~TooLarge(recs[i])
        /\ \A j \in Slots(recs) : j > i /\ ~TooLarge(recs[j]) => recs[j].key # recs[i].key}

\* The sub-command of a slot.
\* Mutant: every command is built from the first record of the call.
CommandOfFirst(recs, i) == [recs[1] EXCEPT !.key = recs[i].key]

Command(recs, i) == recs[i]

Begin(t, recs) ==
    /\ pc[t] # "running"
    /\ calls < MaxCalls
    /\ calls' = calls + 1
    /\ pc' = [pc EXCEPT ![t] = "running"]
    /\ records' = [records EXCEPT ![t] = recs]
    /\ todo' = [todo EXCEPT ![t] = SentSlots(recs)]
    /\ reply' = [reply EXCEPT ![t] = [i \in Slots(recs) |-> "unsent"]]
    /\ answer' = [answer EXCEPT ![t] = <<>>]
    /\ before' = [before EXCEPT ![t] = store]
    /\ alone' = [s \in Threads |-> \A u \in Threads \ {s} :
                                      pc[u] # "running" /\ (s = t \/ u # t)]
    /\ UNCHANGED <<policy, store>>

\* write(record): one put or operate.
Write(t) == \E r \in Inputs : Begin(t, <<r>>)

\* write_many(records): one batch_write.
WriteMany(t) == \E recs \in BoundedSeq(Inputs, MaxBatch) : recs # <<>> /\ Begin(t, recs)

\* The server runs the sub-command of slot i.
Execute(t, i) ==
    LET cmd == Command(records[t], i)
        blocked == policy = "create_only" /\ Exists(store[cmd.key])
    IN  /\ pc[t] = "running"
        /\ i \in todo[t]
        /\ todo' = [todo EXCEPT ![t] = @ \ {i}]
        /\ \/ /\ store' = [store EXCEPT ![cmd.key] = ServerWrites(@, cmd)]
              /\ \E code \in IF blocked THEN {"exists"} ELSE {"ok", "in_doubt"} :
                     reply' = [reply EXCEPT ![t][i] = code]
           \/ /\ reply' = [reply EXCEPT ![t][i] = "failed"]
              /\ UNCHANGED store
        /\ UNCHANGED <<policy, pc, records, answer, calls, before, alone>>

\* The slot whose reply is reported for slot i: the one sent for its key.
\* Mutant: replies are matched by position.
SlotOfReplyByPosition(recs, i) == i

SlotOfReply(recs, i) ==
    CHOOSE j \in SentSlots(recs) : recs[j].key = recs[i].key

\* _is_record_exists_error: the code is one of those for a record that is there.
IsRecordExistsError(code) == code = "exists"

\* Mutant of Reason: only an exception of the call counts, not its results.
ReasonOfCall(code) == "none"

\* _batch_reason, and the exceptions of a single write.
Reason(code) ==
    IF code = "ok" THEN "none"
    ELSE IF policy = "create_only" /\ IsRecordExistsError(code) THEN "RecordExists"
    ELSE "failed"

\* The call returns one outcome per record.
Return(t) ==
    LET recs == records[t]
    IN  /\ pc[t] = "running"
        /\ todo[t] = {}
        /\ answer' = [answer EXCEPT ![t] =
               [i \in Slots(recs) |->
                   IF TooLarge(recs[i]) THEN "RecordTooLarge"
                   ELSE Reason(reply[t][SlotOfReply(recs, i)])]]
        /\ pc' = [pc EXCEPT ![t] = "answered"]
        /\ UNCHANGED <<policy, store, records, todo, reply, calls, before, alone>>

\* The client raises (a timeout, a lost connection) after the server ran some or
\* all of the sub-commands: the call raises as a whole.  A sub-command that was
\* not run by then is taken to be lost.
Raises(t) ==
    /\ pc[t] = "running"
    /\ SentSlots(records[t]) # {}
    /\ todo' = [todo EXCEPT ![t] = {}]
    /\ answer' = [answer EXCEPT ![t] = [i \in Slots(records[t]) |-> "failed"]]
    /\ pc' = [pc EXCEPT ![t] = "answered"]
    /\ UNCHANGED <<policy, store, records, reply, calls, before, alone>>

\* The bound is reached and every call has returned.
Over ==
    /\ calls = MaxCalls
    /\ \A t \in Threads : pc[t] # "running"
    /\ UNCHANGED vars

Next ==
    \/ \E t \in Threads : Write(t) \/ WriteMany(t) \/ Return(t) \/ Raises(t)
    \/ \E t \in Threads, i \in 1 .. MaxBatch : Execute(t, i)
    \/ Over

Spec == Init /\ [][Next]_vars

-----------------------------------------------------------------------------
(* Properties *)

\* "Sending the same key twice in one batch_write ... can trigger a key busy
\* (hot-key) situation, which we want to avoid" (write_many): the commands of
\* one call that are under way have different keys.
OneCommandPerKey ==
    \A t \in Threads : \A i, j \in todo[t] :
        records[t][i].key = records[t][j].key => i = j

\* What the pipeline will count as migrated, skipped or failed is what became
\* of that record's key: a success was reported by the server for the key of
\* that very slot, "exists" means that this call left the key alone, only an
\* oversized record is reported as such, and a failure is one of the server's for
\* that key unless the whole call raised, whatever became of its batch mates.
AnswersTruthful ==
    \A t \in Threads : pc[t] = "answered" =>
        \A i \in Slots(records[t]) :
            LET r == records[t][i]
                codes == {reply[t][j] : j \in {k \in Slots(records[t]) : records[t][k].key = r.key}}
            IN  /\ answer[t][i] = "RecordTooLarge" => r.large
                /\ answer[t][i] = "none" => "ok" \in codes /\ ~r.large
                /\ answer[t][i] = "RecordExists" =>
                       "exists" \in codes /\ codes \subseteq {"exists", "unsent"}
                /\ answer[t][i] = "failed" =>
                       \/ codes \cap {"failed", "in_doubt"} # {}
                       \/ \A j \in Slots(records[t]) : answer[t][j] = "failed"

\* The last record of the call with that key that is not too large.
LastOfKey(recs, k) ==
    CHOOSE i \in Slots(recs) :
        /\ recs[i].key = k /\ ~recs[i].large
        /\ \A j \in Slots(recs) : j > i => recs[j].key # k \/ recs[j].large

\* create_only is for loads "where Aerospike is already authoritative for some
\* keys" (docs/04).  A key reported as migrated was missing when the call
\* began, and what the server holds for it from then on is the last record of
\* the call for it, whichever threads race for the key.  A record reported as
\* existing was not put there by its own call, by a duplicate of it: it was
\* there before, or another call was under way.
CreateOnlyTruthful ==
    policy = "create_only" =>
        \A t \in Threads : pc[t] = "answered" =>
            \A i \in Slots(records[t]) :
                LET k == records[t][i].key
                IN  /\ answer[t][i] = "none" =>
                           /\ ~Exists(before[t][k])
                           /\ store[k] = ServerWrites(Absent, records[t][LastOfKey(records[t], k)])
                    /\ answer[t][i] = "RecordExists" =>
                           /\ Exists(store[k])
                           /\ Exists(before[t][k]) \/ ~alone[t]

\* The reference: the records written one after the other by single writes.
OneByOne(held, recs) ==
    LET after[n \in 0 .. Len(recs)] ==
            IF n = 0 THEN held
            ELSE IF TooLarge(recs[n]) THEN after[n - 1]
            ELSE [after[n - 1] EXCEPT ![recs[n].key] = ServerWrites(@, recs[n])]
    IN  after[Len(recs)]

\* The server ran every command of t's call, and no other call was under way.
Clean(t) ==
    /\ pc[t] = "answered" /\ alone[t]
    /\ \A i \in Slots(records[t]) : answer[t][i] \notin {"failed"}

\* The bins of key k that only an occurrence before the last one has.
Superseded(recs, k) ==
    LET occ == {i \in Slots(recs) : recs[i].key = k /\ ~recs[i].large}
    IN  (UNION {recs[i].bins : i \in {j \in occ : \E l \in occ : l > j}})
            \ (UNION {recs[i].bins : i \in {j \in occ : \A l \in occ : l <= j}})

\* "Duplicate keys are therefore collapsed to a single write -- the last
\* occurrence wins, which matches the overwrite semantics of sequential single
\* writes" (write_many): a call leaves what single writes would, oversized
\* records among them.  The exception: under update, which merges bins, the bins
\* that only an earlier occurrence has are not written.  (create_only is another
\* matter: single writes keep the first record of a key; see CreateOnlyTruthful.)
CollapseMatchesSequential ==
    policy # "create_only" =>
        \A t \in Threads : Clean(t) =>
            LET single == OneByOne(before[t], records[t])
            IN  \A k \in Keys :
                   /\ store[k].ttl = single[k].ttl
                   /\ \A b \in Bins :
                          \/ store[k].bins[b] = single[k].bins[b]
                          \/ policy = "update" /\ b \in Superseded(records[t], k)

\* "An interrupted migration can be re-run from the start" (docs/04): whatever
\* part of a call was applied before it failed, writing its records again
\* gives what writing them once would have given.
RerunConverges ==
    policy # "create_only" =>
        \A t \in Threads : pc[t] = "answered" /\ alone[t] =>
            OneByOne(store, records[t]) = OneByOne(before[t], records[t])
=============================================================================
