------------------------------ MODULE EndToEnd ------------------------------
(***************************************************************************)
(* A whole migration: the threads of MigrationPipeline between a Redis     *)
(* that other clients go on writing to and the Aerospike namespace, with   *)
(* the sub-commands of AerospikeSink run by the server one at a time, and  *)
(* a process that may be killed at any moment and started again.           *)
(*                                                                         *)
(* A value is its version: Redis starts at FirstVersion and each change by *)
(* a client adds one.  SCAN returns every key at least once and may return *)
(* one again.  Nothing of a run is persisted: what a restart finds is what *)
(* the server has applied so far.  A sub-command whose client is gone      *)
(* before the server ran it is taken to be lost.                           *)
(***************************************************************************)
EXTENDS MigrationPipeline

CONSTANTS
    Keys,              \* the keys of Redis that match the pattern
    MaxChanges,        \* bound of the model: changes by other clients
    MaxRestarts        \* bound of the model: further runs

ASSUME EndToEndAssumption ==
    /\ IsFiniteSet(Keys)
    /\ Cardinality(Keys) <= NumRecords
    /\ ~CreateOnly
    /\ MaxChanges \in Nat /\ MaxRestarts \in Nat

VARIABLES
    redis,      \* redis[k]: the version of k in Redis
    start,      \* start[k]: that version when this run began
    read,       \* read[r]: the key and version of the r-th occurrence yielded
    store,      \* store[k]: what Aerospike holds for k
    codes,      \* codes[w]: by slot, the results of w's call so far
    by,         \* by[r]: the worker that took r, for the properties
    changes,    \* changes by other clients so far
    restarts    \* restarts so far

worldVars == <<redis, start, read, store, codes, by, changes, restarts>>
allVars == <<vars, worldVars>>

\* Version 1 stands for a record that was in Aerospike before.
FirstVersion == 2

\* Record r as the sink sees it: one bin, within the size limit.
SinkRecord(r) ==
    [key |-> read[r].key, bins |-> {"value"}, version |-> read[r].version, large |-> FALSE]

\* The argument of the call of write or write_many that w makes.
Argument(w) == [i \in 1 .. Len(buffer[w]) |-> SinkRecord(buffer[w][i])]

\* The operators of the sink and its server, for a policy that overwrites.
Sink == INSTANCE AerospikeSink WITH
    Threads <- Workers, Bins <- {"value"}, Inputs <- {}, Policies <- {"update"},
    MaxBatch <- BatchLimit, MaxCalls <- 0, policy <- "update", pc <- wpc,
    records <- buffer, todo <- <<>>, reply <- codes, answer <- replies,
    calls <- 0, before <- store, alone <- <<>>

NotRead == [key |-> "none", version |-> 0]

WorldInit ==
    /\ redis = [k \in Keys |-> FirstVersion]
    /\ start = redis
    /\ read = [r \in Records |-> NotRead]
    /\ store = [k \in Keys |-> Sink!Old]
    /\ codes = [w \in Workers |-> <<>>]
    /\ by = [r \in Records |-> NoRecord]
    /\ changes = 0
    /\ restarts = 0

EndToEndInit == Init /\ WorldInit

-----------------------------------------------------------------------------
(* Redis *)

\* Another client changes a key, whether or not it was read.
Change(k) ==
    /\ changes < MaxChanges
    /\ ~Ended
    /\ changes' = changes + 1
    /\ redis' = [redis EXCEPT ![k] = @ + 1]
    /\ UNCHANGED <<vars, start, read, store, codes, by, restarts>>

ReadKeys == {read[r].key : r \in 1 .. yielded}

\* SCAN still has room for the keys it has not returned.
MayReturn(k) == Cardinality(Keys \ (ReadKeys \cup {k})) <= NumRecords - yielded - 1

\* The source fetched the value together with the others of its chunk, some
\* time before it yields it and after what it yielded before.
ReadVersions(k) ==
    {v \in start[k] .. redis[k] :
        \A r \in 1 .. yielded : read[r].key = k => read[r].version <= v}

ScanKey ==
    /\ Scan
    /\ \E k \in Keys : \E v \in ReadVersions(k) :
           /\ MayReturn(k)
           /\ read' = [read EXCEPT ![yielded + 1] = [key |-> k, version |-> v]]
    /\ UNCHANGED <<redis, start, store, codes, by, changes, restarts>>

-----------------------------------------------------------------------------
(* The sink and the server *)

TakeRecord(w) ==
    /\ GetRecord(w)
    /\ by' = [by EXCEPT ![Head(queue)] = w]
    /\ UNCHANGED <<redis, start, read, store, codes, changes, restarts>>

\* The server runs the sub-command of slot i of w's call: it is applied and
\* reported so, or it is reported as failed, applied (in_doubt) or not.
Execute(w, i) ==
    LET cmd == Sink!Command(Argument(w), i)
    IN  /\ wpc[w] = "write"
        /\ i \in Sink!SentSlots(Argument(w)) \ DOMAIN codes[w]
        /\ \E code \in {"ok", "failed"}, applied \in BOOLEAN :
               /\ code = "ok" => applied
               /\ codes' = [codes EXCEPT ![w] = [j \in DOMAIN @ \cup {i} |-> IF j = i THEN code ELSE @[j]]]
               /\ store' = IF applied THEN [store EXCEPT ![cmd.key] = Sink!ServerWrites(@, cmd)]
                           ELSE store
        /\ UNCHANGED <<vars, redis, start, read, by, changes, restarts>>

\* _write_one and _flush: no reason means that the record was written.
ReplyOf(reason) == IF reason = "none" THEN "ok" ELSE "failure"

\* The call returns: each record gets the result of its key's sub-command.
WriteReturns(w) ==
    /\ DOMAIN codes[w] = Sink!SentSlots(Argument(w))
    /\ Write(w)
    /\ \A i \in DOMAIN replies'[w] :
           replies'[w][i] = ReplyOf(Sink!Reason(codes[w][Sink!SlotOfReply(Argument(w), i)]))
    /\ codes' = [codes EXCEPT ![w] = <<>>]
    /\ UNCHANGED <<redis, start, read, store, by, changes, restarts>>

\* The client gives up, with any part of the call run.
CallRaises(w) ==
    /\ WriteRaises(w)
    /\ codes' = [codes EXCEPT ![w] = <<>>]
    /\ UNCHANGED <<redis, start, read, store, by, changes, restarts>>

-----------------------------------------------------------------------------

\* The process is killed, or has ended, and is started again from the start:
\* its threads, queue and statistics are new, the two databases are as they
\* are.
Restart ==
    /\ restarts < MaxRestarts
    /\ restarts' = restarts + 1
    /\ ppc' = "scan"
    /\ yielded' = 0
    /\ failed' = FALSE
    /\ stops' = 0
    /\ queue' = <<>>
    /\ wpc' = [w \in Workers |-> "get"]
    /\ hand' = [w \in Workers |-> NoRecord]
    /\ buffer' = [w \in Workers |-> <<>>]
    /\ replies' = [w \in Workers |-> <<>>]
    /\ leaving' = [w \in Workers |-> FALSE]
    /\ stats' = NoStats
    /\ place' = [r \in Records |-> "source"]
    /\ read' = [r \in Records |-> NotRead]
    /\ codes' = [w \in Workers |-> <<>>]
    /\ by' = [r \in Records |-> NoRecord]
    /\ start' = redis
    /\ UNCHANGED <<redis, store, changes>>

Producer ==
    \/ ScanKey
    \/ (Put \/ ScanEnds \/ ScanRaises \/ PutStop \/ Finish) /\ UNCHANGED worldVars

Worker(w) ==
    \/ TakeRecord(w)
    \/ \E i \in 1 .. BatchLimit : Execute(w, i)
    \/ WriteReturns(w)
    \/ CallRaises(w)
    \/ /\ \/ GetStop(w) \/ PrepareUnsupported(w) \/ PrepareBad(w) \/ PrepareRaises(w)
          \/ Prepare(w) \/ Tally(w)
       /\ UNCHANGED worldVars

EndToEndNext ==
    \/ Producer
    \/ \E w \in Workers : Worker(w)
    \/ \E k \in Keys : Change(k)
    \/ Restart
    \/ Ended /\ UNCHANGED allVars

EndToEndSpec == EndToEndInit /\ [][EndToEndNext]_allVars

-----------------------------------------------------------------------------
(* Properties *)

\* Occurrences of k that this run has read.
Occurrences(k) == {r \in 1 .. yielded : read[r].key = k}

Stored(k) == store[k].ttl

\* A key that this run has counted as migrated, at least once, holds what Redis
\* held since the run began: whatever duplicates, stale reads, calls in doubt
\* or rests of a killed run were written to it, in whichever order.
NeverStale ==
    \A k \in Keys :
        (\E r \in Occurrences(k) : place[r] = "migrated") => Stored(k) \in start[k] .. redis[k]

\* What the statistics tell the user: a run that returned with every scanned
\* record migrated, on whatever an earlier run left, has copied every key of
\* Redis, the ones that nobody changed meanwhile exactly.
CleanRunCopiesAll ==
    ppc = "returned" /\ stats.migrated = stats.scanned =>
        \A k \in Keys : Stored(k) \in start[k] .. redis[k]

\* SCAN may return a key twice, and the later read may be newer.  When one
\* worker took all the occurrences of a key and all of them are counted as
\* migrated, the key holds the last of them: the queue and the buffer keep the
\* order, and write_many sends the last.  (Two workers may write them in either
\* order.)
LastReadWins ==
    \A k \in Keys :
        LET occ == Occurrences(k)
        IN  /\ occ # {}
            /\ \A r \in occ : place[r] = "migrated" /\ \A q \in occ : by[r] = by[q]
            => \E r \in occ : (\A q \in occ : q <= r) /\ Stored(k) = read[r].version
=============================================================================
