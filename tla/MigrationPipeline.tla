------------------------- MODULE MigrationPipeline -------------------------
(***************************************************************************)
(* The threads of Migrator.run(): the calling thread reads the source and  *)
(* puts records on a bounded queue.Queue, each worker thread takes records *)
(* from it, prepares them (route, convert, transform) and writes them to   *)
(* the sink, one at a time or in batches of its own.  When the source ends *)
(* or raises, the caller puts one _STOP per worker and joins the workers.  *)
(*                                                                         *)
(* A step is a piece of one thread between two accesses to shared state:   *)
(* a queue operation, a locked update of MigrationStats, a call of the     *)
(* sink.  A record is its position in what the source yields, so two       *)
(* occurrences of one key are two records.  The limiters only delay a      *)
(* thread and are the subject of module TokenBucket; names, values and log *)
(* texts are left out.                                                     *)
(***************************************************************************)
EXTENDS Naturals, Integers, Sequences, FiniteSets

CONSTANTS
    NumRecords,       \* how many occurrences the source would yield
    Workers,          \* the worker threads, max(1, config.workers) of them
    QueueSize,        \* config.queue_size; 0 means an unbounded queue
    WriteBatchSize,   \* config.write_batch_size
    CreateOnly,       \* record_exists_policy is CREATE_ONLY
    PrepOutcomes,     \* how _prepare may end, see PrepareEnds
    STOP,             \* the sentinel _STOP
    NoRecord          \* a worker that holds no item

\* "prepared": a record to write; "unsupported": UnsupportedTypeError;
\* "bad": any other exception of the conversion; "raises": an exception of
\* a transform, which _prepare does not catch.
PrepareEnds == {"prepared", "unsupported", "bad", "raises"}

Records == 1 .. NumRecords

Outcomes == {"migrated", "skipped", "errors"}

Places == {"source", "producer", "queue", "lost"} \cup Outcomes

ASSUME ConstantsAssumption ==
    /\ NumRecords \in Nat
    /\ Workers # {} /\ IsFiniteSet(Workers)
    /\ Workers \cap Places = {}
    /\ QueueSize \in Nat
    /\ WriteBatchSize \in Int
    /\ CreateOnly \in BOOLEAN
    /\ PrepOutcomes \subseteq PrepareEnds
    /\ STOP \notin Int
    /\ NoRecord \notin Int

\* Migrator._batch_size.
BatchLimit == IF WriteBatchSize < 1 THEN 1 ELSE WriteBatchSize

VARIABLES
    ppc,        \* the calling thread: where it is in run()
    yielded,    \* how many records the source has yielded
    failed,     \* the source raised
    stops,      \* how many _STOP the caller has put
    queue,      \* the items of Migrator._queue
    wpc,        \* wpc[w]: where worker w is in _worker_loop
    hand,       \* hand[w]: the item w took and has not dealt with
    buffer,     \* buffer[w]: w's prepared records, not yet counted
    replies,    \* replies[w]: what the sink answered for buffer[w]
    leaving,    \* leaving[w]: w is in the outer finally of _worker_loop
    stats,      \* the counters of MigrationStats
    place       \* place[r]: where record r is, for the properties

producerVars == <<ppc, yielded, failed, stops>>
workerVars == <<wpc, hand, buffer, replies, leaving>>
vars == <<producerVars, queue, workerVars, stats, place>>

-----------------------------------------------------------------------------
(* MigrationStats *)

NoStats == [scanned |-> 0, migrated |-> 0, skipped |-> 0, errors |-> 0]

\* Mutant of Count: record_scanned is forgotten.
CountOutcomesOnly(counter) ==
    stats' = IF counter = "scanned" THEN stats ELSE [stats EXCEPT ![counter] = @ + 1]

\* record_scanned, record_migrated, record_skipped, record_error: each adds
\* one to its counter under the lock of the statistics.
Count(counter) == stats' = [stats EXCEPT ![counter] = @ + 1]

Accounted == stats.migrated + stats.skipped + stats.errors

-----------------------------------------------------------------------------

Init ==
    /\ ppc = "scan"
    /\ yielded = 0
    /\ failed = FALSE
    /\ stops = 0
    /\ queue = <<>>
    /\ wpc = [w \in Workers |-> "get"]
    /\ hand = [w \in Workers |-> NoRecord]
    /\ buffer = [w \in Workers |-> <<>>]
    /\ replies = [w \in Workers |-> <<>>]
    /\ leaving = [w \in Workers |-> FALSE]
    /\ stats = NoStats
    /\ place = [r \in Records |-> "source"]

-----------------------------------------------------------------------------
(* The calling thread *)

QueueFull == QueueSize > 0 /\ Len(queue) >= QueueSize

\* The source yields a record, which _produce counts before it puts it.
Scan ==
    /\ ppc = "scan"
    /\ yielded < NumRecords
    /\ yielded' = yielded + 1
    /\ Count("scanned")
    /\ place' = [place EXCEPT ![yielded + 1] = "producer"]
    /\ ppc' = "put"
    /\ UNCHANGED <<failed, stops, queue, workerVars>>

\* queue.put blocks while the queue is full.
Put ==
    /\ ppc = "put"
    /\ ~QueueFull
    /\ queue' = Append(queue, yielded)
    /\ place' = [place EXCEPT ![yielded] = "queue"]
    /\ ppc' = "scan"
    /\ UNCHANGED <<yielded, failed, stops, workerVars, stats>>

\* The iterator is exhausted: _produce returns.
ScanEnds ==
    /\ ppc = "scan"
    /\ yielded = NumRecords
    /\ ppc' = "stop"
    /\ UNCHANGED <<yielded, failed, stops, queue, workerVars, stats, place>>

\* The iterator raises (a Redis command failed): the finally clause runs.
ScanRaises ==
    /\ ppc = "scan"
    /\ failed' = TRUE
    /\ ppc' = "stop"
    /\ UNCHANGED <<yielded, stops, queue, workerVars, stats, place>>

\* Mutant of StopsWanted: one sentinel too few.
StopsWantedOneShort == Cardinality(Workers) - 1

\* One _STOP per worker ...
StopsWanted == Cardinality(Workers)

\* ... each waiting for room in the queue.
PutStop ==
    /\ ppc = "stop"
    /\ ~QueueFull
    /\ queue' = Append(queue, STOP)
    /\ stops' = stops + 1
    /\ ppc' = IF stops' >= StopsWanted THEN "join" ELSE "stop"
    /\ UNCHANGED <<yielded, failed, workerVars, stats, place>>

\* Mutant of Joined: the caller waits for the first worker to end only.
JoinedOne == \E w \in Workers : wpc[w] = "done"

\* Every worker.join() returned.
Joined == \A w \in Workers : wpc[w] = "done"

\* Finish the statistics and leave run(), with the source's exception if
\* there was one.
Finish ==
    /\ ppc = "join"
    /\ Joined
    /\ ppc' = IF failed THEN "raised" ELSE "returned"
    /\ UNCHANGED <<yielded, failed, stops, queue, workerVars, stats, place>>

-----------------------------------------------------------------------------
(* A worker thread *)

\* Mutant of Leave: the trailing partial batch is dropped.
LeaveUnflushed(w) ==
    /\ leaving' = [leaving EXCEPT ![w] = TRUE]
    /\ wpc' = [wpc EXCEPT ![w] = "done"]

\* The outer finally of _worker_loop: what is still buffered is flushed.
Leave(w) ==
    /\ leaving' = [leaving EXCEPT ![w] = TRUE]
    /\ wpc' = [wpc EXCEPT ![w] = IF buffer[w] = <<>> THEN "done" ELSE "write"]

GetRecord(w) ==
    /\ wpc[w] = "get"
    /\ queue # <<>>
    /\ Head(queue) # STOP
    /\ hand' = [hand EXCEPT ![w] = Head(queue)]
    /\ place' = [place EXCEPT ![Head(queue)] = w]
    /\ queue' = Tail(queue)
    /\ wpc' = [wpc EXCEPT ![w] = "prepare"]
    /\ UNCHANGED <<producerVars, buffer, replies, leaving, stats>>

GetStop(w) ==
    /\ wpc[w] = "get"
    /\ queue # <<>>
    /\ Head(queue) = STOP
    /\ queue' = Tail(queue)
    /\ Leave(w)
    /\ UNCHANGED <<producerVars, hand, buffer, replies, stats, place>>

\* _prepare counted the record itself and returned None.
PrepareFails(w, end, outcome) ==
    /\ wpc[w] = "prepare"
    /\ end \in PrepOutcomes
    /\ Count(outcome)
    /\ place' = [place EXCEPT ![hand[w]] = outcome]
    /\ hand' = [hand EXCEPT ![w] = NoRecord]
    /\ wpc' = [wpc EXCEPT ![w] = "get"]
    /\ UNCHANGED <<producerVars, queue, buffer, replies, leaving>>

PrepareUnsupported(w) == PrepareFails(w, "unsupported", "skipped")

PrepareBad(w) == PrepareFails(w, "bad", "errors")

\* A transform raised: nothing counts the record, and the exception ends the
\* worker thread through both finally clauses.
PrepareRaises(w) ==
    /\ wpc[w] = "prepare"
    /\ "raises" \in PrepOutcomes
    /\ place' = [place EXCEPT ![hand[w]] = "lost"]
    /\ hand' = [hand EXCEPT ![w] = NoRecord]
    /\ Leave(w)
    /\ UNCHANGED <<producerVars, queue, buffer, replies, stats>>

\* Mutant of BufferFull: the test is off by one.
BufferOverfull(b) == Len(b) > BatchLimit

BufferFull(b) == Len(b) >= BatchLimit

\* The record joins the buffer, which is written when it is full.  With a
\* limit of one this is the single-write mode, where nothing is buffered.
Prepare(w) ==
    /\ wpc[w] = "prepare"
    /\ "prepared" \in PrepOutcomes
    /\ buffer' = [buffer EXCEPT ![w] = Append(@, hand[w])]
    /\ hand' = [hand EXCEPT ![w] = NoRecord]
    /\ wpc' = [wpc EXCEPT ![w] = IF BufferFull(buffer'[w]) THEN "write" ELSE "get"]
    /\ UNCHANGED <<producerVars, queue, replies, leaving, stats, place>>

\* What the sink may answer for one record; it says "exists" only under the
\* create-only policy.
SinkReplies == {"ok", "failure"} \cup (IF CreateOnly THEN {"exists"} ELSE {})

\* sink.write or sink.write_many returns: one answer per record, aligned.
Write(w) ==
    /\ wpc[w] = "write"
    /\ \E answer \in [1 .. Len(buffer[w]) -> SinkReplies] :
           replies' = [replies EXCEPT ![w] = answer]
    /\ wpc' = [wpc EXCEPT ![w] = "tally"]
    /\ UNCHANGED <<producerVars, queue, hand, buffer, leaving, stats, place>>

\* The call of the sink raises: every record of the call is an error.
WriteRaises(w) ==
    /\ wpc[w] = "write"
    /\ replies' = [replies EXCEPT ![w] = [i \in 1 .. Len(buffer[w]) |-> "raised"]]
    /\ wpc' = [wpc EXCEPT ![w] = "tally"]
    /\ UNCHANGED <<producerVars, queue, hand, buffer, leaving, stats, place>>

\* How the answer for a record is counted.
Outcome(reply) ==
    IF reply = "ok" THEN "migrated"
    ELSE IF CreateOnly /\ reply = "exists" THEN "skipped"
    ELSE "errors"

\* Mutant of Uncounted: the buffer is not reset after its last record.
UncountedKept(b) == IF Len(b) = 1 THEN b ELSE Tail(b)

\* What is left of a written buffer once its first record is counted; after
\* the last one the buffer is empty.
Uncounted(b) == Tail(b)

\* Count the next record of the call; after the last one go on, or end.
Tally(w) ==
    LET outcome == Outcome(Head(replies[w]))
    IN  /\ wpc[w] = "tally"
        /\ Count(outcome)
        /\ place' = [place EXCEPT ![Head(buffer[w])] = outcome]
        /\ buffer' = [buffer EXCEPT ![w] = Uncounted(@)]
        /\ replies' = [replies EXCEPT ![w] = Tail(@)]
        /\ wpc' = [wpc EXCEPT ![w] = IF Len(replies[w]) > 1 THEN "tally"
                                     ELSE IF leaving[w] THEN "done" ELSE "get"]
        /\ UNCHANGED <<producerVars, queue, hand, leaving>>

-----------------------------------------------------------------------------

Produce == Scan \/ Put \/ ScanEnds \/ ScanRaises \/ PutStop \/ Finish

Work(w) ==
    \/ GetRecord(w)
    \/ GetStop(w)
    \/ PrepareUnsupported(w)
    \/ PrepareBad(w)
    \/ PrepareRaises(w)
    \/ Prepare(w)
    \/ Write(w)
    \/ WriteRaises(w)
    \/ Tally(w)

Ended == ppc \in {"returned", "raised"}

\* run() is over and its threads are gone: nothing is left to do.
Terminated == Ended /\ UNCHANGED vars

Next == Produce \/ (\E w \in Workers : Work(w)) \/ Terminated

Spec == Init /\ [][Next]_vars

\* Every thread that can take a step takes one eventually: the interpreter
\* schedules runnable threads, and the sink's client has timeouts.
FairSpec == Spec /\ WF_vars(Produce) /\ \A w \in Workers : WF_vars(Work(w))

-----------------------------------------------------------------------------
(* Properties *)

ItemsOf(s) == {s[i] : i \in DOMAIN s}

\* No record is at two positions of s (a _STOP may be).
NoRepeats(s) == \A i, j \in DOMAIN s : s[i] = s[j] /\ s[i] \in Records => i = j

\* Which of its variables a worker uses where: it holds an item only while it
\* prepares it, a full batch (or, leaving, the rest) while it writes, an answer
\* per uncounted record while it counts, and nothing once it is gone.
WorkerOK(w) ==
    /\ hand[w] # NoRecord <=> wpc[w] = "prepare"
    /\ wpc[w] \in {"get", "prepare"} => ~leaving[w] /\ Len(buffer[w]) < BatchLimit
    /\ wpc[w] \in {"write", "tally"} => Len(buffer[w]) \in 1 .. BatchLimit
    /\ wpc[w] = "write" /\ ~leaving[w] => Len(buffer[w]) = BatchLimit
    /\ wpc[w] = "done" => leaving[w] /\ Len(buffer[w]) = 0
    /\ Len(replies[w]) = IF wpc[w] = "tally" THEN Len(buffer[w]) ELSE 0

\* Type invariant of the threads, the queue and the statistics.
TypeOK ==
    /\ ppc \in {"scan", "put", "stop", "join", "returned", "raised"}
    /\ yielded \in 0 .. NumRecords
    /\ failed \in BOOLEAN
    /\ stops \in 0 .. Cardinality(Workers)
    /\ queue \in Seq(Records \cup {STOP})
    /\ wpc \in [Workers -> {"get", "prepare", "write", "tally", "done"}]
    /\ hand \in [Workers -> Records \cup {NoRecord}]
    /\ buffer \in [Workers -> Seq(Records)]
    /\ replies \in [Workers -> Seq({"ok", "failure", "exists", "raised"})]
    /\ leaving \in [Workers -> BOOLEAN]
    /\ stats \in [{"scanned", "migrated", "skipped", "errors"} -> Nat]
    /\ place \in [Records -> Places \cup Workers]
    /\ ppc = "put" => yielded # 0
    /\ ppc \in {"scan", "put"} => stops = 0
    /\ ppc = "stop" => stops < Cardinality(Workers)
    /\ \A w \in Workers : WorkerOK(w)

\* The records placed with a worker are the item it took and its buffer's.
HeldOnce(w) ==
    /\ \A r \in Records : place[r] = w <=> hand[w] = r \/ r \in ItemsOf(buffer[w])
    /\ NoRepeats(buffer[w])
    /\ hand[w] \notin ItemsOf(buffer[w])

\* No record is lost between two threads, and none is held twice: a record is
\* in the hands of the producer, at one position of the queue, or with one
\* worker (as the item it took or at one position of its buffer) exactly when
\* it was read and not yet counted.
PlacedOnce ==
    /\ \A r \in Records : place[r] = "source" <=> r > yielded
    /\ \A r \in Records : place[r] = "producer" <=> ppc = "put" /\ r = yielded
    /\ \A r \in Records : place[r] = "queue" <=> r \in ItemsOf(queue)
    /\ NoRepeats(queue)
    /\ \A w \in Workers : HeldOnce(w)

At(p) == {r \in Records : place[r] = p}

\* The counters say what happened: each is the number of records that ended
\* that way, so no outcome is counted twice or under another record's reply.
StatsExact ==
    /\ stats.scanned = yielded
    /\ \A o \in Outcomes : stats[o] = Cardinality(At(o))

\* No transform raises: the case of the command line, which runs none.
NothingRaises == "raises" \notin PrepOutcomes

\* What the progress heartbeat reads under the lock never shows more outcomes
\* than scanned records, and memory is bounded as the module docstring of
\* migrator.py says ("up to workers * write_batch_size records may be in flight
\* in addition to the queue"): sentinels included, the queue keeps its size, and
\* a worker holds no more than a batch, the item it is preparing included.
InFlightBounded ==
    /\ Accounted <= stats.scanned
    /\ QueueSize > 0 => Len(queue) <= QueueSize
    /\ \A w \in Workers : Cardinality(At(w)) <= BatchLimit

Leavers == {w \in Workers : leaving[w]}

\* How many _STOP are still to be taken, if workers leave on one only.
StopsLeft == stops - Cardinality(Leavers)

\* The shutdown protocol: each worker that leaves took one _STOP; the ones not
\* yet taken are the last items of the queue, so a worker that leaves leaves no
\* record behind; and the caller goes on only after all the workers ended.
ShutdownInOrder ==
    /\ ppc \notin {"scan", "put"} /\ ~failed => yielded = NumRecords
    /\ ppc = "returned" => ~failed
    /\ Ended => \A w \in Workers : wpc[w] = "done"
    /\ NothingRaises =>
           /\ StopsLeft \in 0 .. Len(queue)
           /\ \A i \in DOMAIN queue : queue[i] = STOP <=> i > Len(queue) - StopsLeft
           /\ Leavers # {} => StopsLeft = Len(queue)

\* When run() ends, every record it read has an outcome, partial batches
\* included, and no item is left in the queue; when it returns, it read all.
AccountedAtEnd ==
    Ended => /\ Accounted = stats.scanned
             /\ queue = <<>>
             /\ ppc = "returned" => stats.scanned = NumRecords

\* A worker sends less than a full batch only once the scan is over.
PartialBatchesOnlyAtEnd ==
    [][\A w \in Workers :
          wpc[w] = "write" /\ wpc'[w] = "tally" /\ Len(buffer[w]) < BatchLimit
              => ppc \notin {"scan", "put"}]_vars

\* run() ends, whether or not the source and the sink raise.
Termination == <>Ended

\* How the state of the threads shows to the caller of run().
Status ==
    [r \in Records |-> IF place[r] = "source" THEN "unread"
                       ELSE IF place[r] \in Outcomes THEN place[r]
                       ELSE "pending"]

Result == IF Ended THEN ppc ELSE "running"

Promise == INSTANCE Migration WITH status <- Status, result <- Result

\* Refinement: whatever the interleaving of the threads, run() gives every
\* record it reads one outcome, never revises one, and ends with none pending.
KeepsPromise == Promise!Spec
=============================================================================
