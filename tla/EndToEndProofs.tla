--------------------------- MODULE EndToEndProofs ---------------------------
(***************************************************************************)
(* Proofs about MigrationPipeline and about EndToEnd, which composes it    *)
(* with the store and the source.                                          *)
(*                                                                         *)
(* Of the threads, for any number of records and workers and any sizes of  *)
(* the queue and of the batches: the types hold, every record is in one    *)
(* place, and from that the statistics are exact, the shutdown is orderly, *)
(* and run() keeps the promise of module Migration.                        *)
(*                                                                         *)
(* Of the whole, for any number of keys, changes and restarts: what the    *)
(* statistics of a run say about Aerospike.                                *)
(***************************************************************************)
EXTENDS EndToEnd, FiniteSetTheorems, LeastNumber

USE DEF Records

-----------------------------------------------------------------------------
(* Type correctness *)

\* A batch holds at least one record (max(1, write_batch_size)).
LEMMA BatchLimitType == BatchLimit \in Nat /\ BatchLimit >= 1
  BY ConstantsAssumption DEF BatchLimit

\* There is at least one worker, and finitely many.
LEMMA WorkersCardinality == Cardinality(Workers) \in Nat /\ Cardinality(Workers) >= 1
  BY ConstantsAssumption, FS_CardinalityType, FS_EmptySet

\* The state in which run() starts the workers has the types.
LEMMA InitTypeOK == Init => TypeOK
  <1> SUFFICES ASSUME Init PROVE TypeOK
    OBVIOUS
  <1> USE ConstantsAssumption, BatchLimitType, WorkersCardinality
  <1>1. stats \in [{"scanned", "migrated", "skipped", "errors"} -> Nat]
    BY DEF Init, NoStats
  <1>2. place \in [Records -> Places \cup Workers]
    BY DEF Init, Places
  <1>3. ASSUME NEW w \in Workers PROVE WorkerOK(w)
    BY DEF Init, WorkerOK
  <1>4. /\ queue \in Seq(Records \cup {STOP})
        /\ buffer \in [Workers -> Seq(Records)]
        /\ replies \in [Workers -> Seq({"ok", "failure", "exists", "raised"})]
    BY DEF Init
  <1>5. /\ wpc \in [Workers -> {"get", "prepare", "write", "tally", "done"}]
        /\ hand \in [Workers -> Records \cup {NoRecord}]
        /\ leaving \in [Workers -> BOOLEAN]
    BY DEF Init
  <1>6. failed \in BOOLEAN
    BY DEF Init
  <1> QED
    BY <1>1, <1>2, <1>3, <1>4, <1>5, <1>6 DEF Init, TypeOK

(* The part of TypeOK that is about the variables of the workers. *)
WorkersOK ==
    /\ wpc \in [Workers -> {"get", "prepare", "write", "tally", "done"}]
    /\ hand \in [Workers -> Records \cup {NoRecord}]
    /\ buffer \in [Workers -> Seq(Records)]
    /\ replies \in [Workers -> Seq({"ok", "failure", "exists", "raised"})]
    /\ leaving \in [Workers -> BOOLEAN]
    /\ \A w \in Workers : WorkerOK(w)

SharedOK ==
    /\ ppc \in {"scan", "put", "stop", "join", "returned", "raised"}
    /\ yielded \in 0 .. NumRecords
    /\ failed \in BOOLEAN
    /\ stops \in 0 .. Cardinality(Workers)
    /\ queue \in Seq(Records \cup {STOP})
    /\ stats \in [{"scanned", "migrated", "skipped", "errors"} -> Nat]
    /\ place \in [Records -> Places \cup Workers]
    /\ ppc = "put" => yielded # 0
    /\ ppc \in {"scan", "put"} => stops = 0
    /\ ppc = "stop" => stops < Cardinality(Workers)

\* The type invariant is split into what threads share and what a worker owns.
LEMMA TypeOKParts == TypeOK <=> SharedOK /\ WorkersOK
  BY DEF TypeOK, SharedOK, WorkersOK

\* Every step of the caller and of a worker keeps the types.
LEMMA NextTypeOK == TypeOK /\ [Next]_vars => TypeOK'
  <1> SUFFICES ASSUME SharedOK, WorkersOK, [Next]_vars PROVE SharedOK' /\ WorkersOK'
    BY TypeOKParts DEF TypeOK, SharedOK, WorkersOK, WorkerOK
  <1> USE ConstantsAssumption, BatchLimitType, WorkersCardinality
  <1>1. CASE Scan
    <2>1. SharedOK'
      BY <1>1 DEF SharedOK, Scan, Count, Places
    <2>2. WorkersOK'
      BY <1>1 DEF WorkersOK, WorkerOK, Scan, workerVars
    <2> QED
      BY <2>1, <2>2
  <1>2. CASE Put
    <2>1. SharedOK'
      BY <1>2 DEF SharedOK, Put, Places
    <2>2. WorkersOK'
      BY <1>2 DEF WorkersOK, WorkerOK, Put, workerVars
    <2> QED
      BY <2>1, <2>2
  <1>3. CASE ScanEnds
    <2>1. SharedOK'
      BY <1>3 DEF SharedOK, ScanEnds
    <2>2. WorkersOK'
      BY <1>3 DEF WorkersOK, WorkerOK, ScanEnds, workerVars
    <2> QED
      BY <2>1, <2>2
  <1>4. CASE ScanRaises
    <2>1. SharedOK'
      BY <1>4 DEF SharedOK, ScanRaises
    <2>2. WorkersOK'
      BY <1>4 DEF WorkersOK, WorkerOK, ScanRaises, workerVars
    <2> QED
      BY <2>1, <2>2
  <1>5. CASE PutStop
    <2>1. SharedOK'
      BY <1>5 DEF SharedOK, PutStop, StopsWanted
    <2>2. WorkersOK'
      BY <1>5 DEF WorkersOK, WorkerOK, PutStop, workerVars
    <2> QED
      BY <2>1, <2>2
  <1>6. CASE Finish
    <2>1. SharedOK'
      BY <1>6 DEF SharedOK, Finish
    <2>2. WorkersOK'
      BY <1>6 DEF WorkersOK, WorkerOK, Finish, workerVars
    <2> QED
      BY <2>1, <2>2
  <1>7. ASSUME NEW w \in Workers, GetRecord(w)
        PROVE  SharedOK' /\ WorkersOK'
    <2>1. SharedOK'
      BY <1>7 DEF SharedOK, WorkersOK, WorkerOK, GetRecord, Places, producerVars
    <2>2. /\ wpc' \in [Workers -> {"get", "prepare", "write", "tally", "done"}]
          /\ hand' \in [Workers -> Records \cup {NoRecord}]
          /\ buffer' \in [Workers -> Seq(Records)]
          /\ replies' \in [Workers -> Seq({"ok", "failure", "exists", "raised"})]
          /\ leaving' \in [Workers -> BOOLEAN]
      <3>1. Head(queue) \in Records
        BY <1>7 DEF SharedOK, GetRecord
      <3>2. hand' \in [Workers -> Records \cup {NoRecord}]
        BY <1>7, <3>1 DEF WorkersOK, GetRecord
      <3>3. wpc' \in [Workers -> {"get", "prepare", "write", "tally", "done"}]
        BY <1>7 DEF WorkersOK, GetRecord
      <3>4. UNCHANGED <<buffer, replies, leaving>>
        BY <1>7 DEF GetRecord
      <3> QED
        BY <3>2, <3>3, <3>4 DEF WorkersOK
    <2>3. WorkerOK(w)'
      <3>1. /\ hand'[w] # NoRecord /\ wpc'[w] = "prepare" /\ wpc[w] = "get"
            /\ buffer' = buffer /\ replies' = replies /\ leaving' = leaving
        BY <1>7 DEF SharedOK, WorkersOK, GetRecord
      <3>2. ~leaving[w] /\ Len(buffer[w]) < BatchLimit /\ Len(replies[w]) = 0
        BY <3>1 DEF WorkersOK, WorkerOK
      <3> QED
        BY <3>1, <3>2 DEF WorkerOK
    <2>4. ASSUME NEW v \in Workers, v # w PROVE WorkerOK(v)'
      BY <1>7, <2>4 DEF WorkersOK, WorkerOK, GetRecord
    <2> QED
      BY <2>1, <2>2, <2>3, <2>4 DEF WorkersOK
  <1>8. ASSUME NEW w \in Workers, GetStop(w)
        PROVE  SharedOK' /\ WorkersOK'
    <2>1. SharedOK'
      BY <1>8 DEF SharedOK, WorkersOK, WorkerOK, GetStop, producerVars
    <2>2. /\ wpc' \in [Workers -> {"get", "prepare", "write", "tally", "done"}]
          /\ hand' \in [Workers -> Records \cup {NoRecord}]
          /\ buffer' \in [Workers -> Seq(Records)]
          /\ replies' \in [Workers -> Seq({"ok", "failure", "exists", "raised"})]
          /\ leaving' \in [Workers -> BOOLEAN]
      BY <1>8 DEF SharedOK, WorkersOK, WorkerOK, GetStop, Leave
    <2>3. WorkerOK(w)'
      <3>1. /\ wpc'[w] = IF buffer[w] = <<>> THEN "done" ELSE "write"
            /\ hand'[w] = NoRecord /\ buffer'[w] = buffer[w] /\ replies'[w] = replies[w]
            /\ leaving'[w] /\ wpc[w] = "get"
        BY <1>8 DEF WorkersOK, WorkerOK, GetStop, Leave
      <3>2. buffer[w] = <<>> <=> Len(buffer[w]) = 0
        BY DEF WorkersOK
      <3> QED
        BY <3>1, <3>2 DEF WorkersOK, WorkerOK
    <2>4. ASSUME NEW v \in Workers, v # w PROVE WorkerOK(v)'
      BY <1>8, <2>4 DEF WorkersOK, WorkerOK, GetStop, Leave
    <2> QED
      BY <2>1, <2>2, <2>3, <2>4 DEF WorkersOK
  <1>9. ASSUME NEW w \in Workers, NEW end, NEW outcome \in Outcomes, PrepareFails(w, end, outcome)
        PROVE  SharedOK' /\ WorkersOK'
    <2>1. SharedOK'
      <3>1. stats' \in [{"scanned", "migrated", "skipped", "errors"} -> Nat]
        BY <1>9 DEF SharedOK, PrepareFails, Count, Outcomes
      <3>2. place' \in [Records -> Places \cup Workers]
        BY <1>9 DEF SharedOK, PrepareFails, Places
      <3>3. UNCHANGED <<ppc, yielded, failed, stops, queue>>
        BY <1>9 DEF PrepareFails, producerVars
      <3> QED
        BY <3>1, <3>2, <3>3 DEF SharedOK
    <2>2. /\ wpc' \in [Workers -> {"get", "prepare", "write", "tally", "done"}]
          /\ hand' \in [Workers -> Records \cup {NoRecord}]
          /\ buffer' \in [Workers -> Seq(Records)]
          /\ replies' \in [Workers -> Seq({"ok", "failure", "exists", "raised"})]
          /\ leaving' \in [Workers -> BOOLEAN]
      BY <1>9 DEF SharedOK, WorkersOK, WorkerOK, PrepareFails
    <2>3. WorkerOK(w)'
      BY <1>9 DEF SharedOK, WorkersOK, WorkerOK, PrepareFails
    <2>4. ASSUME NEW v \in Workers, v # w PROVE WorkerOK(v)'
      BY <1>9, <2>4 DEF WorkersOK, WorkerOK, PrepareFails
    <2> QED
      BY <2>1, <2>2, <2>3, <2>4 DEF WorkersOK
  <1>10. ASSUME NEW w \in Workers, PrepareRaises(w)
        PROVE  SharedOK' /\ WorkersOK'
    <2>1. SharedOK'
      BY <1>10 DEF SharedOK, WorkersOK, WorkerOK, PrepareRaises, Places, producerVars
    <2>2. /\ wpc' \in [Workers -> {"get", "prepare", "write", "tally", "done"}]
          /\ hand' \in [Workers -> Records \cup {NoRecord}]
          /\ buffer' \in [Workers -> Seq(Records)]
          /\ replies' \in [Workers -> Seq({"ok", "failure", "exists", "raised"})]
          /\ leaving' \in [Workers -> BOOLEAN]
      BY <1>10 DEF SharedOK, WorkersOK, WorkerOK, PrepareRaises, Leave
    <2>3. WorkerOK(w)'
      <3>1. /\ wpc'[w] = IF buffer[w] = <<>> THEN "done" ELSE "write"
            /\ hand'[w] = NoRecord /\ buffer'[w] = buffer[w] /\ replies'[w] = replies[w]
            /\ leaving'[w] /\ wpc[w] = "prepare"
        BY <1>10 DEF WorkersOK, WorkerOK, PrepareRaises, Leave
      <3>2. buffer[w] = <<>> <=> Len(buffer[w]) = 0
        BY DEF WorkersOK
      <3> QED
        BY <3>1, <3>2 DEF WorkersOK, WorkerOK
    <2>4. ASSUME NEW v \in Workers, v # w PROVE WorkerOK(v)'
      BY <1>10, <2>4 DEF WorkersOK, WorkerOK, PrepareRaises, Leave
    <2> QED
      BY <2>1, <2>2, <2>3, <2>4 DEF WorkersOK
  <1>11. ASSUME NEW w \in Workers, Prepare(w)
        PROVE  SharedOK' /\ WorkersOK'
    <2>1. SharedOK'
      BY <1>11 DEF SharedOK, WorkersOK, WorkerOK, Prepare, producerVars
    <2>2. /\ wpc' \in [Workers -> {"get", "prepare", "write", "tally", "done"}]
          /\ hand' \in [Workers -> Records \cup {NoRecord}]
          /\ buffer' \in [Workers -> Seq(Records)]
          /\ replies' \in [Workers -> Seq({"ok", "failure", "exists", "raised"})]
          /\ leaving' \in [Workers -> BOOLEAN]
      <3>1. hand[w] \in Records
        BY <1>11 DEF WorkersOK, WorkerOK, Prepare
      <3>2. buffer' \in [Workers -> Seq(Records)]
        BY <1>11, <3>1 DEF WorkersOK, Prepare
      <3>3. wpc' \in [Workers -> {"get", "prepare", "write", "tally", "done"}]
        BY <1>11 DEF WorkersOK, Prepare
      <3>4. hand' \in [Workers -> Records \cup {NoRecord}]
        BY <1>11 DEF WorkersOK, Prepare
      <3>5. UNCHANGED <<replies, leaving>>
        BY <1>11 DEF Prepare
      <3> QED
        BY <3>2, <3>3, <3>4, <3>5 DEF WorkersOK
    <2>3. WorkerOK(w)'
      <3>1. /\ wpc'[w] = IF Len(buffer'[w]) >= BatchLimit THEN "write" ELSE "get"
            /\ hand'[w] = NoRecord /\ replies'[w] = replies[w]
            /\ leaving'[w] = leaving[w] /\ wpc[w] = "prepare"
        BY <1>11 DEF WorkersOK, Prepare, BufferFull
      <3>2. Len(buffer'[w]) = Len(buffer[w]) + 1
        BY <1>11 DEF WorkersOK, WorkerOK, Prepare
      <3> QED
        BY <3>1, <3>2 DEF WorkersOK, WorkerOK
    <2>4. ASSUME NEW v \in Workers, v # w PROVE WorkerOK(v)'
      BY <1>11, <2>4 DEF WorkersOK, WorkerOK, Prepare, BufferFull
    <2> QED
      BY <2>1, <2>2, <2>3, <2>4 DEF WorkersOK
  <1>12. ASSUME NEW w \in Workers, Write(w)
        PROVE  SharedOK' /\ WorkersOK'
    <2>1. SharedOK'
      BY <1>12 DEF SharedOK, WorkersOK, WorkerOK, Write, producerVars
    <2>2. /\ wpc' \in [Workers -> {"get", "prepare", "write", "tally", "done"}]
          /\ hand' \in [Workers -> Records \cup {NoRecord}]
          /\ buffer' \in [Workers -> Seq(Records)]
          /\ replies' \in [Workers -> Seq({"ok", "failure", "exists", "raised"})]
          /\ leaving' \in [Workers -> BOOLEAN]
      <3>1. PICK answer \in [1 .. Len(buffer[w]) -> SinkReplies] :
               replies' = [replies EXCEPT ![w] = answer]
        BY <1>12 DEF Write
      <3>2. answer \in Seq({"ok", "failure", "exists", "raised"})
        BY DEF WorkersOK, SinkReplies
      <3>3. replies' \in [Workers -> Seq({"ok", "failure", "exists", "raised"})]
        BY <3>1, <3>2 DEF WorkersOK
      <3> QED
        BY <1>12, <3>3 DEF WorkersOK, Write
    <2>3. WorkerOK(w)'
      <3>1. PICK answer \in [1 .. Len(buffer[w]) -> SinkReplies] :
               replies' = [replies EXCEPT ![w] = answer]
        BY <1>12 DEF Write
      <3>2. replies'[w] = answer /\ buffer'[w] = buffer[w] /\ wpc'[w] = "tally"
        BY <1>12, <3>1 DEF WorkersOK, Write
      <3>3. hand' = hand /\ leaving' = leaving /\ buffer' = buffer /\ wpc[w] = "write"
        BY <1>12 DEF Write
      <3>4. WorkerOK(w) /\ buffer[w] \in Seq(Records)
        BY DEF WorkersOK
      <3>5. Len(answer) = Len(buffer[w]) /\ SinkReplies \subseteq {"ok", "failure", "exists", "raised"}
        BY <3>4 DEF SinkReplies
      <3> QED
        BY <3>2, <3>3, <3>4, <3>5 DEF WorkerOK
    <2>4. ASSUME NEW v \in Workers, v # w PROVE WorkerOK(v)'
      BY <1>12, <2>4 DEF WorkersOK, WorkerOK, Write, SinkReplies
    <2> QED
      BY <2>1, <2>2, <2>3, <2>4 DEF WorkersOK
  <1>13. ASSUME NEW w \in Workers, WriteRaises(w)
        PROVE  SharedOK' /\ WorkersOK'
    <2>1. SharedOK'
      BY <1>13 DEF SharedOK, WorkersOK, WorkerOK, WriteRaises, producerVars
    <2>2. /\ wpc' \in [Workers -> {"get", "prepare", "write", "tally", "done"}]
          /\ hand' \in [Workers -> Records \cup {NoRecord}]
          /\ buffer' \in [Workers -> Seq(Records)]
          /\ replies' \in [Workers -> Seq({"ok", "failure", "exists", "raised"})]
          /\ leaving' \in [Workers -> BOOLEAN]
      <3>1. [i \in 1 .. Len(buffer[w]) |-> "raised"] \in Seq({"ok", "failure", "exists", "raised"})
        BY DEF WorkersOK
      <3>2. replies' \in [Workers -> Seq({"ok", "failure", "exists", "raised"})]
        BY <1>13, <3>1 DEF WorkersOK, WriteRaises
      <3>3. wpc' \in [Workers -> {"get", "prepare", "write", "tally", "done"}]
        BY <1>13 DEF WorkersOK, WriteRaises
      <3>4. UNCHANGED <<hand, buffer, leaving>>
        BY <1>13 DEF WriteRaises
      <3> QED
        BY <3>2, <3>3, <3>4 DEF WorkersOK
    <2>3. WorkerOK(w)'
      BY <1>13 DEF SharedOK, WorkersOK, WorkerOK, WriteRaises
    <2>4. ASSUME NEW v \in Workers, v # w PROVE WorkerOK(v)'
      BY <1>13, <2>4 DEF WorkersOK, WorkerOK, WriteRaises
    <2> QED
      BY <2>1, <2>2, <2>3, <2>4 DEF WorkersOK
  <1>14. ASSUME NEW w \in Workers, Tally(w)
        PROVE  SharedOK' /\ WorkersOK'
    <2>1. SharedOK'
      <3>1. Outcome(Head(replies[w])) \in Outcomes
        BY DEF Outcome, Outcomes
      <3>2. stats' \in [{"scanned", "migrated", "skipped", "errors"} -> Nat]
        BY <1>14, <3>1 DEF SharedOK, Tally, Count, Outcomes
      <3>3. place' \in [Records -> Places \cup Workers]
        BY <1>14, <3>1 DEF SharedOK, Tally, Places
      <3> QED
        BY <1>14, <3>2, <3>3 DEF SharedOK, Tally, producerVars
    <2>2. /\ wpc' \in [Workers -> {"get", "prepare", "write", "tally", "done"}]
          /\ hand' \in [Workers -> Records \cup {NoRecord}]
          /\ buffer' \in [Workers -> Seq(Records)]
          /\ replies' \in [Workers -> Seq({"ok", "failure", "exists", "raised"})]
          /\ leaving' \in [Workers -> BOOLEAN]
      <3>1. buffer[w] # <<>> /\ replies[w] # <<>>
        BY <1>14 DEF WorkersOK, WorkerOK, Tally
      <3>2. /\ Tail(buffer[w]) \in Seq(Records)
            /\ Tail(replies[w]) \in Seq({"ok", "failure", "exists", "raised"})
        BY <3>1 DEF WorkersOK
      <3> QED
        BY <1>14, <3>2 DEF WorkersOK, Tally, Uncounted
    <2>3. WorkerOK(w)'
      <3>1. /\ wpc'[w] = IF Len(replies[w]) > 1 THEN "tally"
                          ELSE IF leaving[w] THEN "done" ELSE "get"
            /\ hand'[w] = hand[w] /\ leaving'[w] = leaving[w] /\ wpc[w] = "tally"
        BY <1>14 DEF WorkersOK, Tally
      <3>2. /\ Len(buffer'[w]) = Len(buffer[w]) - 1
            /\ Len(replies'[w]) = Len(replies[w]) - 1
        BY <1>14 DEF WorkersOK, WorkerOK, Tally, Uncounted
      <3>3. /\ Len(buffer[w]) \in 1 .. BatchLimit /\ Len(replies[w]) = Len(buffer[w])
            /\ hand[w] = NoRecord
        BY <3>1 DEF WorkersOK, WorkerOK
      <3>4. CASE Len(replies[w]) > 1
        BY <3>1, <3>2, <3>3, <3>4 DEF WorkerOK
      <3>5. CASE Len(replies[w]) = 1
        <4>1. CASE leaving[w]
          BY <3>1, <3>2, <3>3, <3>5, <4>1 DEF WorkerOK
        <4>2. CASE ~leaving[w]
          BY <3>1, <3>2, <3>3, <3>5, <4>2 DEF WorkerOK
        <4> QED
          BY <4>1, <4>2
      <3>6. Len(replies[w]) > 1 \/ Len(replies[w]) = 1
        BY <3>3 DEF WorkersOK
      <3> QED
        BY <3>4, <3>5, <3>6
    <2>4. ASSUME NEW v \in Workers, v # w PROVE WorkerOK(v)'
      BY <1>14, <2>4 DEF WorkersOK, WorkerOK, Tally, Uncounted
    <2> QED
      BY <2>1, <2>2, <2>3, <2>4 DEF WorkersOK
  <1>15. CASE UNCHANGED vars
    BY <1>15 DEF SharedOK, WorkersOK, WorkerOK, vars, producerVars, workerVars
  <1> QED
    BY <1>1, <1>2, <1>3, <1>4, <1>5, <1>6, <1>7, <1>8, <1>9, <1>10, <1>11, <1>12, <1>13, <1>14, <1>15
       DEF Next, Produce, Work, Terminated, PrepareUnsupported, PrepareBad, Outcomes

(* Every variable keeps its type, and each worker's variables fit the place *)
(* it is at in _worker_loop: it never buffers more than a batch.            *)
THEOREM TypeCorrect == Spec => []TypeOK
  BY InitTypeOK, NextTypeOK, PTL DEF Spec

-----------------------------------------------------------------------------
(* Facts about the sequences that hold records *)

(* Appending e adds e to the elements. *)
LEMMA AppendRange ==
  ASSUME NEW S, NEW s \in Seq(S), NEW e \in S
  PROVE  ItemsOf(Append(s, e)) = ItemsOf(s) \cup {e}
  <1>1. Len(Append(s, e)) = Len(s) + 1 /\ Append(s, e)[Len(s) + 1] = e
    OBVIOUS
  <1>2. \A i \in 1 .. Len(s) : Append(s, e)[i] = s[i]
    OBVIOUS
  <1>3. DOMAIN s = 1 .. Len(s) /\ DOMAIN Append(s, e) = 1 .. Len(s) + 1
    OBVIOUS
  <1> QED
    BY <1>1, <1>2, <1>3 DEF ItemsOf

\* A record that is not in a sequence may be appended to it.
LEMMA AppendNoRepeats ==
  ASSUME NEW S, NEW s \in Seq(S), NEW e \in S, NoRepeats(s),
         e \in Records => e \notin ItemsOf(s)
  PROVE  NoRepeats(Append(s, e))
  <1>1. Len(Append(s, e)) = Len(s) + 1 /\ Append(s, e)[Len(s) + 1] = e
    OBVIOUS
  <1>2. \A i \in 1 .. Len(s) : Append(s, e)[i] = s[i]
    OBVIOUS
  <1>3. DOMAIN s = 1 .. Len(s) /\ DOMAIN Append(s, e) = 1 .. Len(s) + 1
    OBVIOUS
  <1> QED
    BY <1>1, <1>2, <1>3 DEF ItemsOf, NoRepeats

(* Removing the first element of a sequence without repetitions removes it *)
(* from the elements and nothing else.                                     *)
LEMMA TailRange ==
  ASSUME NEW S, NEW s \in Seq(S), s # <<>>, NoRepeats(s)
  PROVE  /\ Head(s) \in ItemsOf(s) /\ Head(s) \in S
         /\ NoRepeats(Tail(s))
         /\ ItemsOf(s) = ItemsOf(Tail(s)) \cup {Head(s)}
         /\ Head(s) \in Records => Head(s) \notin ItemsOf(Tail(s))
  <1>1. Len(Tail(s)) = Len(s) - 1 /\ Len(s) >= 1 /\ Head(s) = s[1]
    OBVIOUS
  <1>2. \A i \in 1 .. Len(s) - 1 : Tail(s)[i] = s[i + 1]
    OBVIOUS
  <1>3. DOMAIN s = 1 .. Len(s) /\ DOMAIN Tail(s) = 1 .. Len(s) - 1 /\ Len(s) \in Nat
    OBVIOUS
  <1>4. Head(s) \in ItemsOf(s) /\ Head(s) \in S
    BY <1>1, <1>3 DEF ItemsOf
  <1>5. NoRepeats(Tail(s))
    BY <1>1, <1>2, <1>3 DEF NoRepeats
  <1>6. ItemsOf(Tail(s)) \subseteq ItemsOf(s)
    BY <1>1, <1>2, <1>3 DEF ItemsOf
  <1>7. ASSUME NEW x \in ItemsOf(s), x # Head(s) PROVE x \in ItemsOf(Tail(s))
    <2>1. PICK i \in 1 .. Len(s) : x = s[i]
      BY <1>3 DEF ItemsOf
    <2>2. i - 1 \in 1 .. Len(s) - 1 /\ Tail(s)[i - 1] = x
      BY <2>1, <1>1, <1>2, <1>3, <1>7
    <2> QED
      BY <2>2, <1>3 DEF ItemsOf
  <1>8. Head(s) \in Records => Head(s) \notin ItemsOf(Tail(s))
    BY <1>1, <1>2, <1>3 DEF ItemsOf, NoRepeats
  <1> QED
    BY <1>4, <1>5, <1>6, <1>7, <1>8

-----------------------------------------------------------------------------
(* Every record is in one place *)

\* At the start every record is still in the source.
LEMMA InitPlacedOnce == Init => PlacedOnce
  BY ConstantsAssumption DEF Init, PlacedOnce, HeldOnce, NoRepeats, ItemsOf, Places, Outcomes

\* Every step of the caller and of a worker moves a record from one place to
\* one other.
LEMMA NextPlacedOnce == TypeOK /\ PlacedOnce /\ [Next]_vars => PlacedOnce'
  <1> SUFFICES ASSUME TypeOK, PlacedOnce, [Next]_vars PROVE PlacedOnce'
    OBVIOUS
  <1> USE ConstantsAssumption
  <1>a. ASSUME NEW w \in Workers
        PROVE  /\ w \notin {"source", "producer", "queue", "lost"}
               /\ w \notin Outcomes
    BY DEF Places
  <1>b. ASSUME NEW w \in Workers PROVE NoRecord \notin ItemsOf(buffer[w])
    BY DEF TypeOK, ItemsOf
  <1>1. CASE Scan
    <2>1. yielded + 1 \in Records /\ place[yielded + 1] = "source"
      BY <1>1 DEF TypeOK, PlacedOnce, Scan
    <2>2. \A w \in Workers : HeldOnce(w)'
      BY <1>1, <1>a, <2>1 DEF TypeOK, PlacedOnce, HeldOnce, Scan, workerVars
    <2> QED
      BY <1>1, <2>1, <2>2 DEF TypeOK, PlacedOnce, Scan
  <1>2. CASE Put
    <2>1. yielded \in Records /\ place[yielded] = "producer"
      BY <1>2 DEF TypeOK, PlacedOnce, Put
    <2>2. ItemsOf(queue') = ItemsOf(queue) \cup {yielded} /\ NoRepeats(queue')
      <3>1. yielded \notin ItemsOf(queue)
        BY <2>1 DEF PlacedOnce
      <3>2. /\ queue \in Seq(Records \cup {STOP}) /\ yielded \in Records \cup {STOP}
            /\ NoRepeats(queue) /\ queue' = Append(queue, yielded)
        BY <1>2, <2>1 DEF TypeOK, PlacedOnce, Put
      <3> HIDE DEF Records
      <3>3. ItemsOf(queue') = ItemsOf(queue) \cup {yielded}
        BY <3>2, AppendRange
      <3>4. NoRepeats(queue')
        BY <3>1, <3>2, AppendNoRepeats
      <3> QED
        BY <3>3, <3>4
    <2>3. \A w \in Workers : HeldOnce(w)'
      BY <1>2, <1>a, <2>1 DEF TypeOK, PlacedOnce, HeldOnce, Put, workerVars
    <2> QED
      BY <1>2, <2>1, <2>2, <2>3 DEF TypeOK, PlacedOnce, Put, NoRepeats
  <1>3. CASE ScanEnds
    BY <1>3 DEF PlacedOnce, HeldOnce, NoRepeats, ScanEnds, workerVars
  <1>4. CASE ScanRaises
    BY <1>4 DEF PlacedOnce, HeldOnce, NoRepeats, ScanRaises, workerVars
  <1>5. CASE PutStop
    <2>1. ItemsOf(queue') = ItemsOf(queue) \cup {STOP} /\ NoRepeats(queue')
      BY <1>5, AppendRange, AppendNoRepeats DEF TypeOK, PlacedOnce, PutStop
    <2> QED
      BY <1>5, <2>1 DEF PlacedOnce, HeldOnce, NoRepeats, PutStop, workerVars
  <1>6. CASE Finish
    BY <1>6 DEF PlacedOnce, HeldOnce, NoRepeats, Finish, workerVars
  <1>7. ASSUME NEW w \in Workers, GetRecord(w) PROVE PlacedOnce'
    <2> DEFINE h == Head(queue)
    <2>1. /\ h \in Records /\ place[h] = "queue"
          /\ ItemsOf(queue) = ItemsOf(queue') \cup {h} /\ h \notin ItemsOf(queue')
          /\ NoRepeats(queue')
      <3>1. queue \in Seq(Records \cup {STOP}) /\ queue # <<>> /\ NoRepeats(queue) /\ h # STOP
        BY <1>7 DEF TypeOK, SharedOK, PlacedOnce, GetRecord
      <3>2. h \in Records /\ h \in ItemsOf(queue)
        BY <3>1, TailRange
      <3>3. queue' = Tail(queue)
        BY <1>7 DEF GetRecord
      <3>4. /\ ItemsOf(queue) = ItemsOf(queue') \cup {h} /\ h \notin ItemsOf(queue')
            /\ NoRepeats(queue')
        BY <3>1, <3>2, <3>3, TailRange
      <3>5. place[h] = "queue"
        BY <3>2 DEF PlacedOnce
      <3> QED
        BY <3>2, <3>4, <3>5
    <2>2. hand[w] = NoRecord /\ hand'[w] = h /\ buffer' = buffer
      BY <1>7 DEF TypeOK, WorkerOK, GetRecord
    <2>5. place' = [place EXCEPT ![h] = w] /\ place \in [Records -> Places \cup Workers]
      BY <1>7 DEF TypeOK, GetRecord
    <2>6. UNCHANGED <<ppc, yielded>>
      BY <1>7 DEF GetRecord, producerVars
    <2>7. \A v \in Workers : v # w => hand'[v] = hand[v]
      BY <1>7 DEF TypeOK, GetRecord
    <2> HIDE DEF h
    <2>3. HeldOnce(w)'
      <3>1. HeldOnce(w)
        BY DEF PlacedOnce
      <3>2. h \notin ItemsOf(buffer[w])
        BY <1>a, <2>1, <3>1 DEF HeldOnce
      <3>3. \A r \in Records : place'[r] = w <=> hand'[w] = r \/ r \in ItemsOf(buffer'[w])
        BY <2>1, <2>2, <2>5, <3>1 DEF HeldOnce
      <3> QED
        BY <2>2, <3>1, <3>2, <3>3 DEF HeldOnce, NoRepeats
    <2>4. ASSUME NEW v \in Workers, v # w PROVE HeldOnce(v)'
      <3>1. HeldOnce(v) /\ hand'[v] = hand[v]
        BY <2>4, <2>7 DEF PlacedOnce
      <3>2. \A r \in Records : place'[r] = v <=> place[r] = v
        BY <1>a, <2>1, <2>4, <2>5
      <3> QED
        BY <2>2, <3>1, <3>2 DEF HeldOnce, NoRepeats
    <2>8. \A r \in Records : place'[r] = "queue" <=> r \in ItemsOf(queue')
      BY <1>a, <2>1, <2>5 DEF PlacedOnce
    <2>9. \A r \in Records, q \in {"source", "producer"} : place'[r] = q <=> place[r] = q
      BY <1>a, <2>1, <2>5
    <2>10. \A v \in Workers : HeldOnce(v)'
      BY <2>3, <2>4
    <2> QED
      BY <2>1, <2>6, <2>8, <2>9, <2>10 DEF PlacedOnce, NoRepeats
  <1>8. ASSUME NEW w \in Workers, GetStop(w) PROVE PlacedOnce'
    <2>1. ItemsOf(queue) = ItemsOf(queue') \cup {STOP} /\ NoRepeats(queue')
      BY <1>8, TailRange DEF TypeOK, PlacedOnce, GetStop
    <2> QED
      BY <1>8, <2>1 DEF PlacedOnce, HeldOnce, NoRepeats, GetStop, producerVars
  <1>9. ASSUME NEW w \in Workers, NEW end, NEW outcome \in Outcomes,
               PrepareFails(w, end, outcome)
        PROVE  PlacedOnce'
    <2>1. /\ hand[w] \in Records /\ place[hand[w]] = w /\ hand[w] \notin ItemsOf(buffer[w])
          /\ hand'[w] = NoRecord /\ NoRecord \notin Records
      BY <1>9 DEF TypeOK, WorkerOK, PlacedOnce, HeldOnce, PrepareFails
    <2>2. /\ place' = [place EXCEPT ![hand[w]] = outcome]
          /\ outcome \notin {"source", "producer", "queue", "lost"} \cup Workers
      BY <1>9, <1>a DEF PrepareFails, Outcomes
    <2>3. HeldOnce(w)'
      <3>1. buffer' = buffer /\ hand'[w] \notin ItemsOf(buffer'[w])
        BY <1>9, <1>b, <2>1 DEF PrepareFails
      <3>2. \A r \in Records : place'[r] = w <=> hand'[w] = r \/ r \in ItemsOf(buffer'[w])
        BY <2>1, <2>2, <3>1 DEF TypeOK, PlacedOnce, HeldOnce
      <3> QED
        BY <3>1, <3>2 DEF PlacedOnce, HeldOnce, NoRepeats
    <2>4. ASSUME NEW v \in Workers, v # w PROVE HeldOnce(v)'
      <3>1. HeldOnce(v) /\ hand'[v] = hand[v] /\ buffer' = buffer
        BY <1>9, <2>4 DEF TypeOK, PlacedOnce, PrepareFails
      <3>2. \A r \in Records : place'[r] = v <=> place[r] = v
        BY <2>1, <2>2, <2>4 DEF TypeOK
      <3> QED
        BY <3>1, <3>2 DEF HeldOnce, NoRepeats
    <2>5. UNCHANGED <<ppc, yielded, queue>>
      BY <1>9 DEF PrepareFails, producerVars
    <2>6. \A r \in Records, q \in {"source", "producer", "queue"} : place'[r] = q <=> place[r] = q
      BY <1>a, <2>1, <2>2 DEF TypeOK
    <2>7. \A v \in Workers : HeldOnce(v)'
      BY <2>3, <2>4
    <2> QED
      BY <2>5, <2>6, <2>7 DEF PlacedOnce, NoRepeats
  <1>10. ASSUME NEW w \in Workers, PrepareRaises(w) PROVE PlacedOnce'
    <2>1. /\ hand[w] \in Records /\ place[hand[w]] = w /\ hand[w] \notin ItemsOf(buffer[w])
          /\ hand'[w] = NoRecord /\ NoRecord \notin Records
      BY <1>10 DEF TypeOK, WorkerOK, PlacedOnce, HeldOnce, PrepareRaises
    <2>2. /\ place' = [place EXCEPT ![hand[w]] = "lost"]
          /\ "lost" \notin Workers
      BY <1>10, <1>a DEF PrepareRaises
    <2>3. HeldOnce(w)'
      <3>1. buffer' = buffer /\ hand'[w] \notin ItemsOf(buffer'[w])
        BY <1>10, <1>b, <2>1 DEF PrepareRaises
      <3>2. \A r \in Records : place'[r] = w <=> hand'[w] = r \/ r \in ItemsOf(buffer'[w])
        BY <2>1, <2>2, <3>1 DEF TypeOK, PlacedOnce, HeldOnce
      <3> QED
        BY <3>1, <3>2 DEF PlacedOnce, HeldOnce, NoRepeats
    <2>4. ASSUME NEW v \in Workers, v # w PROVE HeldOnce(v)'
      <3>1. HeldOnce(v) /\ hand'[v] = hand[v] /\ buffer' = buffer
        BY <1>10, <2>4 DEF TypeOK, PlacedOnce, PrepareRaises
      <3>2. \A r \in Records : place'[r] = v <=> place[r] = v
        BY <2>1, <2>2, <2>4 DEF TypeOK
      <3> QED
        BY <3>1, <3>2 DEF HeldOnce, NoRepeats
    <2>5. UNCHANGED <<ppc, yielded, queue>>
      BY <1>10 DEF PrepareRaises, producerVars
    <2>6. \A r \in Records, q \in {"source", "producer", "queue"} : place'[r] = q <=> place[r] = q
      BY <1>a, <2>1, <2>2 DEF TypeOK
    <2>7. \A v \in Workers : HeldOnce(v)'
      BY <2>3, <2>4
    <2> QED
      BY <2>5, <2>6, <2>7 DEF PlacedOnce, NoRepeats
  <1>11. ASSUME NEW w \in Workers, Prepare(w) PROVE PlacedOnce'
    <2>1. /\ hand[w] \in Records /\ hand[w] \notin ItemsOf(buffer[w])
          /\ hand'[w] = NoRecord /\ NoRecord \notin Records
      BY <1>11 DEF TypeOK, WorkerOK, PlacedOnce, HeldOnce, Prepare
    <2>2. buffer'[w] = Append(buffer[w], hand[w])
      BY <1>11 DEF TypeOK, Prepare
    <2>3. ItemsOf(buffer'[w]) = ItemsOf(buffer[w]) \cup {hand[w]} /\ NoRepeats(buffer'[w])
      BY <2>1, <2>2, AppendRange, AppendNoRepeats DEF TypeOK, PlacedOnce, HeldOnce
    <2>4. hand'[w] \notin ItemsOf(buffer'[w])
      BY <1>b, <2>1, <2>3
    <2>5. HeldOnce(w)'
      <3>1. place' = place
        BY <1>11 DEF Prepare
      <3>2. \A r \in Records : place'[r] = w <=> hand'[w] = r \/ r \in ItemsOf(buffer'[w])
        BY <2>1, <2>3, <3>1 DEF PlacedOnce, HeldOnce
      <3> QED
        BY <2>3, <2>4, <3>2 DEF HeldOnce, NoRepeats
    <2>6. ASSUME NEW v \in Workers, v # w PROVE HeldOnce(v)'
      BY <1>11, <2>6 DEF TypeOK, PlacedOnce, HeldOnce, NoRepeats, Prepare
    <2> QED
      BY <1>11, <2>5, <2>6 DEF PlacedOnce, NoRepeats, Prepare, producerVars
  <1>12. ASSUME NEW w \in Workers, Write(w) PROVE PlacedOnce'
    BY <1>12 DEF PlacedOnce, HeldOnce, NoRepeats, Write, producerVars
  <1>13. ASSUME NEW w \in Workers, WriteRaises(w) PROVE PlacedOnce'
    BY <1>13 DEF PlacedOnce, HeldOnce, NoRepeats, WriteRaises, producerVars
  <1>14. ASSUME NEW w \in Workers, Tally(w) PROVE PlacedOnce'
    <2> DEFINE h == Head(buffer[w])
               o == Outcome(Head(replies[w]))
    <2>1. /\ buffer[w] \in Seq(Records) /\ buffer[w] # <<>> /\ NoRepeats(buffer[w])
          /\ hand[w] = NoRecord /\ hand' = hand /\ NoRecord \notin Records
      BY <1>14 DEF TypeOK, WorkerOK, PlacedOnce, HeldOnce, Tally
    <2>2. buffer'[w] = Tail(buffer[w])
      BY <1>14 DEF TypeOK, Tally, Uncounted
    <2>3. /\ h \in Records /\ place[h] = w /\ h \in ItemsOf(buffer[w])
          /\ ItemsOf(buffer[w]) = ItemsOf(buffer'[w]) \cup {h}
          /\ h \notin ItemsOf(buffer'[w]) /\ NoRepeats(buffer'[w])
      BY <2>1, <2>2, TailRange DEF PlacedOnce, HeldOnce
    <2>4. o \in Outcomes /\ o \notin {"source", "producer", "queue", "lost"} \cup Workers
      <3>1. o \in Outcomes
        BY DEF Outcome, Outcomes
      <3> QED
        BY <3>1, <1>a DEF Outcomes
    <2>5. place' = [place EXCEPT ![h] = o]
      BY <1>14 DEF Tally
    <2> HIDE DEF h, o
    <2>6. HeldOnce(w)'
      <3>1. hand'[w] = NoRecord /\ NoRecord \notin ItemsOf(buffer'[w])
        BY <1>b, <2>1, <2>3
      <3>2. \A r \in Records : place'[r] = w <=> hand'[w] = r \/ r \in ItemsOf(buffer'[w])
        <4>1. \A r \in Records : place[r] = w <=> hand[w] = r \/ r \in ItemsOf(buffer[w])
          BY DEF PlacedOnce, HeldOnce
        <4>2. \A r \in Records : place'[r] = IF r = h THEN o ELSE place[r]
          BY <2>5 DEF TypeOK
        <4> QED
          BY <2>1, <2>3, <2>4, <3>1, <4>1, <4>2
      <3> QED
        BY <2>3, <3>1, <3>2 DEF HeldOnce, NoRepeats
    <2>7. ASSUME NEW v \in Workers, v # w PROVE HeldOnce(v)'
      <3>1. buffer'[v] = buffer[v] /\ hand'[v] = hand[v]
        BY <1>14, <2>7 DEF TypeOK, Tally
      <3>2. \A r \in Records : place'[r] = v <=> place[r] = v
        BY <2>3, <2>4, <2>5, <2>7 DEF TypeOK
      <3> QED
        BY <3>1, <3>2 DEF PlacedOnce, HeldOnce, NoRepeats
    <2>8. UNCHANGED <<ppc, yielded, queue>>
      BY <1>14 DEF Tally, producerVars
    <2> QED
      BY <1>a, <2>3, <2>4, <2>5, <2>6, <2>7, <2>8 DEF TypeOK, PlacedOnce, NoRepeats
  <1>15. CASE UNCHANGED vars
    BY <1>15 DEF PlacedOnce, HeldOnce, NoRepeats, vars, producerVars, workerVars
  <1> QED
    BY <1>1, <1>2, <1>3, <1>4, <1>5, <1>6, <1>7, <1>8, <1>9, <1>10, <1>11, <1>12,
       <1>13, <1>14, <1>15
       DEF Next, Produce, Work, Terminated, PrepareUnsupported, PrepareBad, Outcomes

(* No interleaving of the threads loses a record or hands it on twice, for *)
(* raising transforms too: what was read is counted, lost to a transform,  *)
(* or held at exactly one position.                                        *)
THEOREM RecordsPlacedOnce == Spec => []PlacedOnce
  <1>1. Init => TypeOK /\ PlacedOnce
    BY InitTypeOK, InitPlacedOnce
  <1>2. TypeOK /\ PlacedOnce /\ [Next]_vars => (TypeOK /\ PlacedOnce)'
    BY NextTypeOK, NextPlacedOnce
  <1> QED
    BY <1>1, <1>2, PTL DEF Spec

-----------------------------------------------------------------------------
(* The statistics *)

\* The records at a place are finitely many.
LEMMA AtFinite == ASSUME NEW p PROVE IsFiniteSet(At(p)) /\ Cardinality(At(p)) \in Nat
  <1>1. IsFiniteSet(Records)
    BY ConstantsAssumption, FS_Interval
  <1>2. At(p) \in SUBSET Records
    BY DEF At
  <1>3. IsFiniteSet(At(p))
    BY <1>1, <1>2, FS_Subset
  <1> QED
    BY <1>3, FS_CardinalityType

(* A step that moves a record between places that are no outcomes. *)
LEMMA Moved ==
  ASSUME TypeOK, StatsExact, NEW r \in Records, NEW p, p \notin Outcomes,
         place[r] \notin Outcomes, place' = [place EXCEPT ![r] = p],
         \A o \in Outcomes : stats'[o] = stats[o], stats'.scanned = yielded'
  PROVE  StatsExact'
  <1>1. ASSUME NEW o \in Outcomes PROVE At(o)' = At(o)
    BY DEF At, TypeOK
  <1> QED
    BY <1>1 DEF StatsExact

(* A step that counts the outcome of one record. *)
LEMMA CountedOnce ==
  ASSUME TypeOK, StatsExact, NEW r \in Records, NEW o \in Outcomes,
         place[r] \notin Outcomes, place' = [place EXCEPT ![r] = o],
         Count(o), yielded' = yielded
  PROVE  StatsExact'
  <1>1. At(o)' = At(o) \cup {r} /\ r \notin At(o)
    BY DEF At, TypeOK
  <1>2. Cardinality(At(o)') = Cardinality(At(o)) + 1
    BY <1>1, AtFinite, FS_AddElement
  <1>3. ASSUME NEW q \in Outcomes, q # o PROVE At(q)' = At(q)
    BY <1>3 DEF At, TypeOK
  <1>4. /\ stats'[o] = stats[o] + 1
        /\ stats'.scanned = stats.scanned
        /\ \A q \in Outcomes \ {o} : stats'[q] = stats[q]
    BY DEF Count, TypeOK, Outcomes
  <1>5. ASSUME NEW q \in Outcomes PROVE stats'[q] = Cardinality(At(q)')
    <2>1. CASE q = o
      BY <1>2, <1>4, <2>1 DEF StatsExact
    <2>2. CASE q # o
      BY <1>3, <1>4, <2>2 DEF StatsExact
    <2> QED
      BY <2>1, <2>2
  <1> QED
    BY <1>4, <1>5 DEF StatsExact

\* At the start all counters are zero, and no record has an outcome.
LEMMA InitStatsExact == Init => StatsExact
  <1> SUFFICES ASSUME Init PROVE StatsExact
    OBVIOUS
  <1>1. ASSUME NEW o \in Outcomes PROVE At(o) = {} /\ stats[o] = 0
    BY DEF Init, At, Outcomes, NoStats
  <1> QED
    BY <1>1, FS_EmptySet DEF Init, StatsExact, NoStats

\* Every step that gives a record its outcome adds one to that counter, and no
\* other step changes either.
LEMMA NextStatsExact == TypeOK /\ PlacedOnce /\ StatsExact /\ [Next]_vars => StatsExact'
  <1> SUFFICES ASSUME TypeOK, PlacedOnce, StatsExact, [Next]_vars PROVE StatsExact'
    OBVIOUS
  <1> USE ConstantsAssumption
  <1>a. ASSUME NEW w \in Workers PROVE w \notin Outcomes
    BY DEF Places
  <1>1. CASE Scan
    <2>1. yielded + 1 \in Records /\ place[yielded + 1] = "source"
      BY <1>1 DEF TypeOK, PlacedOnce, Scan
    <2>2. stats'.scanned = yielded' /\ \A o \in Outcomes : stats'[o] = stats[o]
      BY <1>1 DEF TypeOK, StatsExact, Scan, Count, Outcomes
    <2> QED
      BY <1>1, <2>1, <2>2, Moved DEF Scan, Outcomes
  <1>2. CASE Put
    <2>1. yielded \in Records /\ place[yielded] = "producer"
      BY <1>2 DEF TypeOK, PlacedOnce, Put
    <2> QED
      BY <1>2, <2>1, Moved DEF Put, Outcomes, StatsExact
  <1>3. CASE ScanEnds \/ ScanRaises \/ PutStop \/ Finish
    BY <1>3 DEF StatsExact, At, ScanEnds, ScanRaises, PutStop, Finish
  <1>4. ASSUME NEW w \in Workers, GetRecord(w) PROVE StatsExact'
    <2>1. Head(queue) \in Records /\ place[Head(queue)] = "queue"
      BY <1>4, TailRange DEF TypeOK, PlacedOnce, GetRecord
    <2> QED
      BY <1>4, <1>a, <2>1, Moved DEF GetRecord, Outcomes, StatsExact, producerVars
  <1>5. ASSUME NEW w \in Workers, NEW end, NEW outcome \in Outcomes,
               PrepareFails(w, end, outcome)
        PROVE  StatsExact'
    <2>1. hand[w] \in Records /\ place[hand[w]] = w
      BY <1>5 DEF TypeOK, WorkerOK, PlacedOnce, HeldOnce, PrepareFails
    <2> QED
      BY <1>5, <1>a, <2>1, CountedOnce DEF PrepareFails, producerVars
  <1>6. ASSUME NEW w \in Workers, PrepareRaises(w) PROVE StatsExact'
    <2>1. hand[w] \in Records /\ place[hand[w]] = w
      BY <1>6 DEF TypeOK, WorkerOK, PlacedOnce, HeldOnce, PrepareRaises
    <2> QED
      BY <1>6, <1>a, <2>1, Moved DEF PrepareRaises, Outcomes, StatsExact, producerVars
  <1>7. ASSUME NEW w \in Workers, Tally(w) PROVE StatsExact'
    <2> DEFINE h == Head(buffer[w])
               o == Outcome(Head(replies[w]))
    <2>1. h \in Records /\ place[h] = w
      <3>1. buffer[w] \in Seq(Records) /\ buffer[w] # <<>> /\ NoRepeats(buffer[w])
        BY <1>7 DEF TypeOK, WorkerOK, PlacedOnce, HeldOnce, Tally
      <3> QED
        BY <3>1, TailRange DEF PlacedOnce, HeldOnce
    <2>2. o \in Outcomes
      BY DEF Outcome, Outcomes
    <2>3. place' = [place EXCEPT ![h] = o] /\ Count(o) /\ yielded' = yielded
      BY <1>7 DEF Tally, producerVars
    <2> HIDE DEF h, o
    <2> QED
      BY <1>a, <2>1, <2>2, <2>3, CountedOnce
  <1>8. CASE UNCHANGED <<yielded, stats, place>>
    BY <1>8 DEF StatsExact, At
  <1> QED
    BY <1>1, <1>2, <1>3, <1>4, <1>5, <1>6, <1>7, <1>8
       DEF Next, Produce, Work, Terminated, PrepareUnsupported, PrepareBad, Outcomes,
           GetStop, Prepare, Write, WriteRaises, vars, producerVars

(* The counters that run() returns and the heartbeat shows are exactly the *)
(* numbers of records that ended each way.                                 *)
THEOREM StatisticsExact == Spec => []StatsExact
  <1>1. Init => TypeOK /\ PlacedOnce /\ StatsExact
    BY InitTypeOK, InitPlacedOnce, InitStatsExact
  <1>2. TypeOK /\ PlacedOnce /\ StatsExact /\ [Next]_vars
            => (TypeOK /\ PlacedOnce /\ StatsExact)'
    BY NextTypeOK, NextPlacedOnce, NextStatsExact
  <1> QED
    BY <1>1, <1>2, PTL DEF Spec

-----------------------------------------------------------------------------
(* The shutdown *)

\* The workers that are leaving are counted as a finite set.
LEMMA LeaversFinite ==
  ASSUME TypeOK
  PROVE  /\ IsFiniteSet(Leavers) /\ Cardinality(Leavers) \in Nat
         /\ Cardinality(Leavers) <= Cardinality(Workers)
         /\ Leavers # {} => Cardinality(Leavers) >= 1
  <1>1. Leavers \in SUBSET Workers
    BY DEF Leavers
  <1>2. IsFiniteSet(Leavers) /\ Cardinality(Leavers) <= Cardinality(Workers)
    BY <1>1, ConstantsAssumption, FS_Subset
  <1>3. Cardinality(Leavers) \in Nat
    BY <1>2, FS_CardinalityType
  <1>4. Leavers # {} => Cardinality(Leavers) # 0
    BY <1>2, FS_EmptySet
  <1> QED
    BY <1>2, <1>3, <1>4

\* A worker that leaves is one more leaver.
LEMMA OneMoreLeaver ==
  ASSUME TypeOK, NEW w \in Workers, ~leaving[w],
         leaving' = [leaving EXCEPT ![w] = TRUE]
  PROVE  /\ Cardinality(Leavers') = Cardinality(Leavers) + 1
         /\ Leavers' # {}
  <1>1. Leavers' = Leavers \cup {w} /\ w \notin Leavers
    BY DEF Leavers, TypeOK
  <1> QED
    BY <1>1, LeaversFinite, FS_AddElement

\* At the start no _STOP was put and no worker is leaving.
LEMMA InitShutdown == Init => ShutdownInOrder
  <1> SUFFICES ASSUME Init PROVE ShutdownInOrder
    OBVIOUS
  <1>1. Leavers = {} /\ StopsLeft = 0
    <2>1. Leavers = {}
      BY DEF Init, Leavers
    <2> QED
      BY <2>1, FS_EmptySet DEF Init, StopsLeft
  <1> QED
    BY <1>1 DEF Init, ShutdownInOrder, Ended

\* If the first item is no _STOP, there is one _STOP less than items.
LEMMA NotAllStops ==
  ASSUME NEW l \in Nat, NEW k \in 0 .. l, ~(1 > l - k)
  PROVE  k \in 0 .. l - 1 /\ k # l /\ k \in Int /\ l \in Int
  OBVIOUS

\* Taking the first item moves every position down by one.
LEMMA ShiftedIndex ==
  ASSUME NEW l \in Int, NEW k \in Int, NEW i \in Int
  PROVE  i + 1 > l - k <=> i > (l - 1) - k
  OBVIOUS

\* Every step keeps the _STOPs at the end of the queue, one for each worker
\* still to leave.
LEMMA NextShutdown == TypeOK /\ ShutdownInOrder /\ [Next]_vars => ShutdownInOrder'
  <1> SUFFICES ASSUME TypeOK, ShutdownInOrder, [Next]_vars PROVE ShutdownInOrder'
    OBVIOUS
  <1> USE ConstantsAssumption, WorkersCardinality
  <1>a. Cardinality(Leavers) \in Nat /\ (Leavers # {} => Cardinality(Leavers) >= 1)
    BY LeaversFinite
  <1>b. queue \in Seq(Records \cup {STOP}) /\ Len(queue) \in Nat
        /\ DOMAIN queue = 1 .. Len(queue)
    BY DEF TypeOK
  <1>c. ASSUME NEW w \in Workers, wpc[w] # "done" PROVE ~Joined /\ ~Ended
    BY <1>c DEF Joined, ShutdownInOrder
  <1>1. CASE Scan
    BY <1>1 DEF ShutdownInOrder, Scan, workerVars, Ended, StopsLeft, Leavers
  <1>2. CASE Put
    <2>1. stops = 0 /\ ~Ended' /\ ppc' = "scan"
      BY <1>2 DEF TypeOK, Put, Ended
    <2>2. Leavers' = Leavers /\ StopsLeft' = StopsLeft
      BY <1>2 DEF Put, workerVars, Leavers, StopsLeft
    <2>3. /\ Len(queue') = Len(queue) + 1 /\ DOMAIN queue' = 1 .. Len(queue) + 1
          /\ \A i \in 1 .. Len(queue) : queue'[i] = queue[i]
          /\ queue'[Len(queue) + 1] = yielded /\ yielded # STOP
      BY <1>2, <1>b DEF TypeOK, Put
    <2>4. NothingRaises => StopsLeft = 0 /\ Leavers = {}
      BY <1>a, <2>1 DEF ShutdownInOrder, StopsLeft
    <2> QED
      BY <1>b, <2>1, <2>2, <2>3, <2>4 DEF ShutdownInOrder
  <1>3. CASE ScanEnds
    BY <1>3 DEF ShutdownInOrder, ScanEnds, workerVars, Ended, StopsLeft, Leavers
  <1>4. CASE ScanRaises
    BY <1>4 DEF ShutdownInOrder, ScanRaises, workerVars, Ended, StopsLeft, Leavers
  <1>5. CASE PutStop
    <2>1. /\ ppc = "stop" /\ ppc' \in {"stop", "join"} /\ ~Ended'
          /\ failed' = failed /\ yielded' = yielded
      BY <1>5 DEF PutStop, Ended
    <2>2. Leavers' = Leavers /\ StopsLeft' = StopsLeft + 1
      BY <1>5, <1>a DEF TypeOK, PutStop, workerVars, Leavers, StopsLeft
    <2>3. /\ Len(queue') = Len(queue) + 1 /\ DOMAIN queue' = 1 .. Len(queue) + 1
          /\ \A i \in 1 .. Len(queue) : queue'[i] = queue[i]
          /\ queue'[Len(queue) + 1] = STOP
      BY <1>5, <1>b DEF PutStop
    <2> QED
      BY <1>b, <2>1, <2>2, <2>3 DEF ShutdownInOrder
  <1>6. CASE Finish
    BY <1>6 DEF TypeOK, ShutdownInOrder, Finish, workerVars, Ended, Joined, StopsLeft, Leavers
  <1>7. ASSUME NEW w \in Workers, GetRecord(w) PROVE ShutdownInOrder'
    <2>1. UNCHANGED producerVars /\ ~Ended /\ ~Ended'
      BY <1>7, <1>c DEF GetRecord, producerVars, Ended
    <2>2. Leavers' = Leavers /\ StopsLeft' = StopsLeft
      BY <1>7 DEF GetRecord, producerVars, Leavers, StopsLeft
    <2>3. /\ Len(queue) >= 1 /\ queue[1] # STOP
          /\ Len(queue') = Len(queue) - 1 /\ DOMAIN queue' = 1 .. Len(queue) - 1
          /\ \A i \in 1 .. Len(queue) - 1 : queue'[i] = queue[i + 1]
      BY <1>7, <1>b DEF GetRecord
    <2>4. ASSUME NothingRaises
          PROVE  /\ StopsLeft' \in 0 .. Len(queue')
                 /\ \A i \in DOMAIN queue' :
                        queue'[i] = STOP <=> i > Len(queue') - StopsLeft'
                 /\ Leavers' # {} => StopsLeft' = Len(queue')
      <3>1. /\ StopsLeft \in 0 .. Len(queue)
            /\ \A i \in 1 .. Len(queue) : queue[i] = STOP <=> i > Len(queue) - StopsLeft
            /\ Leavers # {} => StopsLeft = Len(queue)
        BY <1>b, <2>4 DEF ShutdownInOrder
      <3>2. 1 \in 1 .. Len(queue)
        BY <1>b, <2>3
      <3>3. ~(1 > Len(queue) - StopsLeft)
        BY <2>3, <3>1, <3>2
      <3>4. StopsLeft \in 0 .. Len(queue) - 1 /\ StopsLeft # Len(queue)
        BY <1>b, <3>1, <3>3, NotAllStops
      <3>5. StopsLeft' \in 0 .. Len(queue') /\ Leavers' = {}
        BY <1>b, <2>2, <2>3, <3>1, <3>4
      <3>6. ASSUME NEW i \in DOMAIN queue'
            PROVE  queue'[i] = STOP <=> i > Len(queue') - StopsLeft'
        <4>1. i \in Int /\ i + 1 \in 1 .. Len(queue) /\ queue'[i] = queue[i + 1]
          BY <1>b, <2>3
        <4>2. StopsLeft \in Int /\ Len(queue) \in Int
          BY <1>b, <3>1, <3>3, NotAllStops
        <4>3. i + 1 > Len(queue) - StopsLeft <=> i > Len(queue') - StopsLeft'
          BY <2>2, <2>3, <4>1, <4>2, ShiftedIndex
        <4> QED
          BY <3>1, <4>1, <4>3
      <3> QED
        BY <3>5, <3>6
    <2> QED
      BY <2>1, <2>4 DEF ShutdownInOrder, producerVars
  <1>8. ASSUME NEW w \in Workers, GetStop(w) PROVE ShutdownInOrder'
    <2>1. UNCHANGED producerVars /\ ~Ended /\ ~Ended'
      BY <1>8, <1>c DEF GetStop, producerVars, Ended
    <2>2. StopsLeft' = StopsLeft - 1
      <3>1. ~leaving[w]
        BY <1>8 DEF TypeOK, WorkerOK, GetStop
      <3>2. Cardinality(Leavers') = Cardinality(Leavers) + 1
        BY <1>8, <3>1, OneMoreLeaver DEF GetStop, Leave
      <3> QED
        BY <1>8, <1>a, <3>2 DEF TypeOK, GetStop, producerVars, StopsLeft
    <2>3. /\ Len(queue) >= 1 /\ queue[1] = STOP
          /\ Len(queue') = Len(queue) - 1 /\ DOMAIN queue' = 1 .. Len(queue) - 1
          /\ \A i \in 1 .. Len(queue) - 1 : queue'[i] = queue[i + 1]
      BY <1>8, <1>b DEF GetStop
    <2>4. ASSUME NothingRaises
          PROVE  /\ StopsLeft' \in 0 .. Len(queue')
                 /\ \A i \in DOMAIN queue' :
                        queue'[i] = STOP <=> i > Len(queue') - StopsLeft'
                 /\ StopsLeft' = Len(queue')
      <3>1. /\ StopsLeft = Len(queue)
            /\ \A i \in 1 .. Len(queue) : queue[i] = STOP <=> i > Len(queue) - StopsLeft
        BY <1>b, <2>3, <2>4 DEF ShutdownInOrder
      <3> QED
        BY <1>b, <2>2, <2>3, <3>1
    <2> QED
      BY <2>1, <2>4 DEF ShutdownInOrder, producerVars
  <1>9. ASSUME NEW w \in Workers, PrepareRaises(w) PROVE ShutdownInOrder'
    BY <1>9, <1>c DEF PrepareRaises, ShutdownInOrder, NothingRaises, producerVars, Ended
  <1>10. ASSUME NEW w \in Workers, wpc[w] # "done",
                UNCHANGED <<producerVars, queue, leaving>>
         PROVE  ShutdownInOrder'
    BY <1>10, <1>c DEF ShutdownInOrder, producerVars, Ended, StopsLeft, Leavers
  <1>11. CASE UNCHANGED vars
    BY <1>11 DEF ShutdownInOrder, vars, producerVars, workerVars, Ended, Joined, StopsLeft, Leavers
  <1> QED
    BY <1>1, <1>2, <1>3, <1>4, <1>5, <1>6, <1>7, <1>8, <1>9, <1>10, <1>11
       DEF Next, Produce, Work, Terminated, PrepareUnsupported, PrepareBad, PrepareFails,
           Prepare, Write, WriteRaises, Tally

(* A _STOP is behind every record, each worker that leaves took one, and   *)
(* run() goes on only after the last worker: for any number of workers.    *)
THEOREM ShutdownOrderly == Spec => []ShutdownInOrder
  <1>1. Init => TypeOK /\ ShutdownInOrder
    BY InitTypeOK, InitShutdown
  <1>2. TypeOK /\ ShutdownInOrder /\ [Next]_vars => (TypeOK /\ ShutdownInOrder)'
    BY NextTypeOK, NextShutdown
  <1> QED
    BY <1>1, <1>2, PTL DEF Spec

-----------------------------------------------------------------------------
(* When run() ends *)

(* Only a raising transform loses a record. *)
NoneLost == NothingRaises => \A r \in Records : place[r] # "lost"

\* At the start no record is lost.
LEMMA InitNoneLost == Init => NoneLost
  BY DEF Init, NoneLost

\* Without transforms that raise, no step loses a record.
LEMMA NextNoneLost == TypeOK /\ NoneLost /\ [Next]_vars => NoneLost'
  <1> SUFFICES ASSUME TypeOK, NoneLost, [Next]_vars, NothingRaises,
                      NEW r \in Records, place'[r] = "lost"
               PROVE  FALSE
    BY DEF NoneLost
  <1>1. place[r] # "lost"
    BY DEF NoneLost
  <1>2. \A w \in Workers : w # "lost"
    BY ConstantsAssumption DEF Places
  <1>3. \A reply : Outcome(reply) # "lost"
    BY DEF Outcome
  <1>4. \/ place' = place
        \/ \E q, p : p # "lost" /\ place' = [place EXCEPT ![q] = p]
    <2>1. CASE Produce
      BY <2>1 DEF Produce, Scan, Put, ScanEnds, ScanRaises, PutStop, Finish
    <2>2. ASSUME NEW w \in Workers, Work(w)
          PROVE  \/ place' = place
                 \/ \E q, p : p # "lost" /\ place' = [place EXCEPT ![q] = p]
      <3>1. CASE Tally(w)
        BY <1>3, <3>1 DEF Tally
      <3>2. CASE PrepareUnsupported(w) \/ PrepareBad(w)
        BY <3>2 DEF PrepareUnsupported, PrepareBad, PrepareFails
      <3>3. CASE GetRecord(w)
        BY <1>2, <3>3 DEF GetRecord
      <3> QED
        BY <2>2, <3>1, <3>2, <3>3
           DEF Work, GetStop, PrepareRaises, NothingRaises, Prepare, Write, WriteRaises
    <2>3. CASE UNCHANGED vars
      BY <2>3 DEF vars
    <2> QED
      BY <2>1, <2>2, <2>3 DEF Next, Terminated
  <1> QED
    BY <1>1, <1>4 DEF TypeOK

IndInv == TypeOK /\ PlacedOnce /\ StatsExact /\ ShutdownInOrder /\ NoneLost

\* The inductive invariant of the threads holds in every state.
LEMMA Inductive == Spec => []IndInv
  <1>1. Init => IndInv
    BY InitTypeOK, InitPlacedOnce, InitStatsExact, InitShutdown, InitNoneLost DEF IndInv
  <1>2. IndInv /\ [Next]_vars => IndInv'
    BY NextTypeOK, NextPlacedOnce, NextStatsExact, NextShutdown, NextNoneLost DEF IndInv
  <1> QED
    BY <1>1, <1>2, PTL DEF Spec

\* The sizes of disjoint finite sets add up.
LEMMA DisjointUnion ==
  ASSUME NEW A, NEW B, IsFiniteSet(A), IsFiniteSet(B), A \cap B = {}
  PROVE  IsFiniteSet(A \cup B) /\ Cardinality(A \cup B) = Cardinality(A) + Cardinality(B)
  <1>1. /\ IsFiniteSet(A \cup B)
        /\ Cardinality(A \cup B) = Cardinality(A) + Cardinality(B) - Cardinality(A \cap B)
    BY FS_Union
  <1>2. Cardinality(A \cap B) = 0
    BY FS_EmptySet
  <1>3. Cardinality(A) \in Nat /\ Cardinality(B) \in Nat
    BY FS_CardinalityType
  <1> QED
    BY <1>1, <1>2, <1>3

(* The three outcomes are disjoint, so the counters add up to a set's size. *)
LEMMA AccountedIsCardinality ==
  ASSUME TypeOK, StatsExact
  PROVE  /\ Accounted = Cardinality({r \in Records : place[r] \in Outcomes})
         /\ Accounted \in Nat
  <1> DEFINE M == At("migrated")  S == At("skipped")  E == At("errors")
  <1>1. /\ IsFiniteSet(M) /\ IsFiniteSet(S) /\ IsFiniteSet(E)
        /\ Cardinality(M) \in Nat /\ Cardinality(S) \in Nat /\ Cardinality(E) \in Nat
    BY AtFinite
  <1>2. /\ stats.migrated = Cardinality(M) /\ stats.skipped = Cardinality(S)
        /\ stats.errors = Cardinality(E)
    BY DEF StatsExact, Outcomes
  <1>3. M \cap S = {} /\ (M \cup S) \cap E = {}
        /\ {r \in Records : place[r] \in Outcomes} = (M \cup S) \cup E
    BY DEF At, Outcomes
  <1> HIDE DEF M, S, E
  <1>4. IsFiniteSet(M \cup S) /\ Cardinality(M \cup S) = Cardinality(M) + Cardinality(S)
    BY <1>1, <1>3, DisjointUnion
  <1>5. Cardinality((M \cup S) \cup E) = Cardinality(M) + Cardinality(S) + Cardinality(E)
    BY <1>1, <1>3, <1>4, DisjointUnion
  <1> QED
    BY <1>1, <1>2, <1>3, <1>5 DEF Accounted

(* Once the workers ended, nothing is left in the queue or with a worker. *)
LEMMA AllCounted ==
  ASSUME IndInv, NothingRaises, Joined, ppc # "put"
  PROVE  queue = <<>> /\ \A r \in Records : r <= yielded => place[r] \in Outcomes
  <1>1. \A w \in Workers : wpc[w] = "done" /\ leaving[w] /\ hand[w] = NoRecord
                           /\ buffer[w] \in Seq(Records) /\ Len(buffer[w]) = 0
    BY DEF IndInv, TypeOK, WorkerOK, Joined
  <1>2. Leavers = Workers /\ Leavers # {}
    BY <1>1, ConstantsAssumption DEF Leavers
  <1>3. StopsLeft \in Nat /\ StopsLeft <= 0 /\ StopsLeft = Len(queue)
    BY <1>2, WorkersCardinality DEF IndInv, TypeOK, ShutdownInOrder, StopsLeft
  <1>4. queue = <<>> /\ ItemsOf(queue) = {}
    BY <1>3 DEF IndInv, TypeOK, ItemsOf
  <1>5. \A w \in Workers : ItemsOf(buffer[w]) = {}
    BY <1>1 DEF ItemsOf
  <1>6. ASSUME NEW r \in Records, r <= yielded PROVE place[r] \in Outcomes
    <2>1. place[r] \notin {"source", "producer", "queue"}
      BY <1>4, <1>6 DEF IndInv, TypeOK, PlacedOnce
    <2>2. place[r] # "lost"
      BY DEF IndInv, NoneLost
    <2>3. ASSUME NEW w \in Workers PROVE place[r] # w
      BY <1>1, <1>5, <2>3, ConstantsAssumption DEF IndInv, PlacedOnce, HeldOnce
    <2> QED
      BY <2>1, <2>2, <2>3 DEF IndInv, TypeOK, Places
  <1> QED
    BY <1>4, <1>6

\* The inductive invariant gives what run() promises at its end.
LEMMA EndAccounted == IndInv /\ NothingRaises => AccountedAtEnd
  <1> SUFFICES ASSUME IndInv, NothingRaises, Ended
               PROVE  /\ Accounted = stats.scanned
                      /\ queue = <<>>
                      /\ ppc = "returned" => stats.scanned = NumRecords
    BY DEF AccountedAtEnd
  <1>a. queue = <<>> /\ \A r \in Records : r <= yielded => place[r] \in Outcomes
    BY AllCounted DEF IndInv, ShutdownInOrder, Ended, Joined
  <1>1. {r \in Records : place[r] \in Outcomes} = 1 .. yielded
    <2>1. ASSUME NEW r \in Records, r > yielded PROVE place[r] \notin Outcomes
      BY <2>1 DEF IndInv, PlacedOnce, Outcomes
    <2> QED
      BY <1>a, <2>1, ConstantsAssumption DEF IndInv, TypeOK
  <1>2. Cardinality(1 .. yielded) = yielded
    BY FS_Interval, ConstantsAssumption DEF IndInv, TypeOK
  <1>3. Accounted = stats.scanned
    BY <1>1, <1>2, AccountedIsCardinality DEF IndInv, StatsExact
  <1>4. ppc = "returned" => stats.scanned = NumRecords
    BY DEF IndInv, StatsExact, ShutdownInOrder
  <1> QED
    BY <1>a, <1>3, <1>4

(* With no raising transform, run() ends with every record it read counted *)
(* once and an empty queue, and returns only when it read all the source.  *)
THEOREM EveryRecordAccounted ==
  ASSUME NothingRaises
  PROVE  Spec => []AccountedAtEnd
  BY Inductive, EndAccounted, PTL

\* No reading of the counters shows more outcomes than scanned records.
LEMMA NoMoreOutcomes == IndInv => Accounted <= stats.scanned
  <1> SUFFICES ASSUME IndInv PROVE Accounted <= stats.scanned
    OBVIOUS
  <1>1. {r \in Records : place[r] \in Outcomes} \in SUBSET (1 .. yielded)
    BY DEF IndInv, TypeOK, PlacedOnce, Outcomes
  <1>2. IsFiniteSet(1 .. yielded) /\ Cardinality(1 .. yielded) = yielded
    BY FS_Interval DEF IndInv, TypeOK
  <1>3. Cardinality({r \in Records : place[r] \in Outcomes}) <= yielded
    BY <1>1, <1>2, FS_Subset
  <1> QED
    BY <1>3, AccountedIsCardinality DEF IndInv, StatsExact

\* The items of a sequence over S are in S.
LEMMA ItemsBelong ==
  ASSUME NEW S, NEW s \in Seq(S), NEW x \in ItemsOf(s)
  PROVE  x \in S
  <1>1. PICK i \in DOMAIN s : x = s[i]
    BY Zenon DEF ItemsOf
  <1>2. i \in 1 .. Len(s)
    BY <1>1
  <1> QED
    BY <1>1, <1>2

\* A sequence has no more different items than positions.
LEMMA ItemsCardinality ==
  ASSUME NEW S, NEW s \in Seq(S)
  PROVE  IsFiniteSet(ItemsOf(s)) /\ Cardinality(ItemsOf(s)) <= Len(s)
  <1>1. IsFiniteSet(1 .. Len(s)) /\ Cardinality(1 .. Len(s)) = Len(s)
    <2> DEFINE n == Len(s)
    <2>1. n \in Nat
      OBVIOUS
    <2> HIDE DEF n
    <2>2. IsFiniteSet(1 .. n) /\ Cardinality(1 .. n) = n
      BY <2>1, FS_Interval
    <2> QED
      BY <2>2 DEF n
  <1>2. s \in Surjection(1 .. Len(s), ItemsOf(s))
    <2>1. DOMAIN s = 1 .. Len(s)
      OBVIOUS
    <2>2. s = [i \in 1 .. Len(s) |-> s[i]]
      OBVIOUS
    <2>3. s \in [1 .. Len(s) -> ItemsOf(s)]
      BY <2>1, <2>2, Zenon DEF ItemsOf
    <2>4. \A x \in ItemsOf(s) : \E i \in 1 .. Len(s) : s[i] = x
      BY <2>1, Zenon DEF ItemsOf
    <2> QED
      BY <2>3, <2>4, Zenon DEF Surjection
  <1> QED
    BY <1>1, <1>2, FS_Surjection

\* A worker holds no more than a batch, the item it is preparing included.
LEMMA HandsFull ==
  ASSUME IndInv, NEW w \in Workers
  PROVE  Cardinality(At(w)) <= BatchLimit
  <1>1. /\ buffer[w] \in Seq(Records) /\ Len(buffer[w]) \in Nat
        /\ hand[w] \in Records \cup {NoRecord} /\ WorkerOK(w) /\ HeldOnce(w)
        /\ wpc[w] \in {"get", "prepare", "write", "tally", "done"}
    BY DEF IndInv, TypeOK, PlacedOnce
  <1>2. /\ IsFiniteSet(ItemsOf(buffer[w])) /\ Cardinality(ItemsOf(buffer[w])) \in Nat
        /\ Cardinality(ItemsOf(buffer[w])) <= Len(buffer[w])
    BY <1>1, ItemsCardinality, FS_CardinalityType
  <1>3. CASE hand[w] = NoRecord
    <2>1. ASSUME NEW x \in ItemsOf(buffer[w]) PROVE x \in Records
      BY <1>1, ItemsBelong
    <2>2. At(w) = ItemsOf(buffer[w])
      BY <1>1, <1>3, <2>1, ConstantsAssumption DEF At, HeldOnce
    <2>3. Len(buffer[w]) <= BatchLimit
      BY <1>1, BatchLimitType DEF WorkerOK
    <2> QED
      BY <1>1, <1>2, <2>2, <2>3, BatchLimitType
  <1>4. CASE hand[w] # NoRecord
    <2>1. At(w) \subseteq ItemsOf(buffer[w]) \cup {hand[w]}
      BY <1>1 DEF At, HeldOnce
    <2>2. /\ IsFiniteSet(ItemsOf(buffer[w]) \cup {hand[w]})
          /\ Cardinality(ItemsOf(buffer[w]) \cup {hand[w]}) <= Cardinality(ItemsOf(buffer[w])) + 1
          /\ Cardinality(ItemsOf(buffer[w]) \cup {hand[w]}) \in Nat
      <3> DEFINE I == ItemsOf(buffer[w])
      <3>1. IsFiniteSet(I) /\ Cardinality(I) \in Nat
        BY <1>2
      <3> HIDE DEF I
      <3>2. /\ IsFiniteSet(I \cup {hand[w]})
            /\ Cardinality(I \cup {hand[w]}) = IF hand[w] \in I THEN Cardinality(I)
                                               ELSE Cardinality(I) + 1
        BY <3>1, FS_AddElement
      <3> QED
        BY <3>1, <3>2 DEF I
    <2>3. /\ Cardinality(At(w)) <= Cardinality(ItemsOf(buffer[w]) \cup {hand[w]})
          /\ Cardinality(At(w)) \in Nat
      BY <2>1, <2>2, FS_Subset, AtFinite
    <2>4. Len(buffer[w]) < BatchLimit
      BY <1>1, <1>4 DEF WorkerOK
    <2> QED
      BY <1>1, <1>2, <2>2, <2>3, <2>4, BatchLimitType
  <1> QED
    BY <1>3, <1>4

\* queue.put waits while the queue is full.
QueueBounded == QueueSize > 0 => Len(queue) <= QueueSize

\* Only the caller adds to the queue, records and sentinels alike, and it waits.
LEMMA NextQueueBounded == TypeOK /\ QueueBounded /\ [Next]_vars => QueueBounded'
  <1> SUFFICES ASSUME TypeOK, QueueBounded, [Next]_vars, QueueSize > 0
               PROVE  Len(queue') <= QueueSize
    BY DEF QueueBounded
  <1> USE ConstantsAssumption
  <1>1. queue \in Seq(Records \cup {STOP}) /\ Len(queue) \in Nat /\ Len(queue) <= QueueSize
    BY DEF TypeOK, QueueBounded
  <1>2. ASSUME NEW e, queue' = Append(queue, e), ~QueueFull
        PROVE  Len(queue') <= QueueSize
    <2>1. Len(queue') = Len(queue) + 1
      BY <1>1, <1>2
    <2> QED
      BY <1>1, <1>2, <2>1 DEF QueueFull
  <1>3. ASSUME queue # <<>>, queue' = Tail(queue) PROVE Len(queue') <= QueueSize
    <2>1. Len(queue') = Len(queue) - 1
      BY <1>1, <1>3
    <2> QED
      BY <1>1, <2>1
  <1>4. CASE Put \/ PutStop
    BY <1>2, <1>4 DEF Put, PutStop
  <1>5. CASE Scan \/ ScanEnds \/ ScanRaises \/ Finish
    BY <1>1, <1>5 DEF Scan, ScanEnds, ScanRaises, Finish
  <1>6. ASSUME NEW w \in Workers, GetRecord(w) \/ GetStop(w) PROVE Len(queue') <= QueueSize
    BY <1>3, <1>6 DEF GetRecord, GetStop
  <1>7. ASSUME NEW w \in Workers,
               PrepareUnsupported(w) \/ PrepareBad(w) \/ PrepareRaises(w) \/ Prepare(w)
                   \/ Write(w) \/ WriteRaises(w) \/ Tally(w)
        PROVE  Len(queue') <= QueueSize
    <2>1. queue' = queue
      BY <1>7 DEF PrepareUnsupported, PrepareBad, PrepareFails, PrepareRaises, Prepare,
                  Write, WriteRaises, Tally
    <2> QED
      BY <1>1, <2>1
  <1>8. CASE Terminated \/ UNCHANGED vars
    BY <1>1, <1>8 DEF Terminated, vars
  <1> QED
    BY <1>4, <1>5, <1>6, <1>7, <1>8 DEF Next, Produce, Work

(* Memory is bounded whatever the source and the sink do: the queue keeps   *)
(* its size, a worker holds at most a batch, and no reading of the counters *)
(* shows more outcomes than scanned records.                                *)
THEOREM MemoryBounded == Spec => []InFlightBounded
  <1>1. Init => QueueBounded
    BY ConstantsAssumption DEF Init, QueueBounded
  <1>2. IndInv => TypeOK
    BY DEF IndInv
  <1>3. IndInv /\ QueueBounded => InFlightBounded
    BY NoMoreOutcomes, HandsFull DEF InFlightBounded, QueueBounded
  <1> QED
    BY <1>1, <1>2, <1>3, NextQueueBounded, Inductive, PTL DEF Spec

(* With no raising transform, a worker sends an incomplete batch only when  *)
(* the scan is over: buffering never trickles records out one by one.      *)
THEOREM PartialBatchesAtEnd ==
  ASSUME NothingRaises
  PROVE  Spec => PartialBatchesOnlyAtEnd
  <1>1. ASSUME IndInv, NEW w \in Workers, wpc[w] = "write", Len(buffer[w]) < BatchLimit
        PROVE  ppc \notin {"scan", "put"}
    <2>1. leaving[w]
      BY <1>1, BatchLimitType DEF IndInv, TypeOK, WorkerOK
    <2>2. Leavers # {}
      BY <2>1 DEF Leavers
    <2>3. Cardinality(Leavers) \in Nat /\ Cardinality(Leavers) >= 1
      BY <1>1, <2>2, LeaversFinite DEF IndInv
    <2>4. stops - Cardinality(Leavers) \in Nat
      BY <1>1 DEF IndInv, TypeOK, ShutdownInOrder, StopsLeft
    <2> QED
      BY <1>1, <2>3, <2>4 DEF IndInv, TypeOK
  <1>2. IndInv /\ [Next]_vars =>
            [\A w \in Workers :
                wpc[w] = "write" /\ wpc'[w] = "tally" /\ Len(buffer[w]) < BatchLimit
                    => ppc \notin {"scan", "put"}]_vars
    BY <1>1
  <1> QED
    BY <1>2, Inductive, PTL DEF Spec, PartialBatchesOnlyAtEnd

-----------------------------------------------------------------------------
(* Refinement of module Migration *)

(* How a step that gives one record another place shows to the caller. *)
LEMMA StatusOfMove ==
  ASSUME TypeOK, NEW r \in Records, NEW p, place' = [place EXCEPT ![r] = p]
  PROVE  Status' = [Status EXCEPT ![r] = IF p = "source" THEN "unread"
                                         ELSE IF p \in Outcomes THEN p
                                         ELSE "pending"]
  BY DEF TypeOK, Status

\* A move of a record between producer, queue and workers does not show to the
\* caller.
LEMMA HiddenMove ==
  ASSUME TypeOK, NEW r \in Records, NEW p, place' = [place EXCEPT ![r] = p],
         p \notin Outcomes \cup {"source"}, place[r] \notin Outcomes \cup {"source"}
  PROVE  Status' = Status
  BY DEF TypeOK, Status

\* Counting the outcome of a record that a worker holds is a Settle of the
\* abstract migration.
LEMMA CountIsSettle ==
  ASSUME TypeOK, NEW w \in Workers, NEW r \in Records, NEW o \in Outcomes,
         place[r] = w, place' = [place EXCEPT ![r] = o],
         ppc' = ppc, ~Ended
  PROVE  Promise!Settle(r, o)
  <1>1. w \notin Outcomes /\ w # "source" /\ o # "source"
    BY ConstantsAssumption DEF Places, Outcomes
  <1>2. Status' = [Status EXCEPT ![r] = o]
    BY <1>1, StatusOfMove
  <1>3. Status[r] = "pending"
    BY <1>1 DEF Status
  <1>4. Result = "running" /\ Result' = Result
    BY DEF Result, Ended
  <1> QED
    BY <1>2, <1>3, <1>4 DEF Promise!Settle

\* run() starts as the abstract migration does.
LEMMA InitPromise == Init => Promise!Init
  BY DEF Init, Promise!Init, Promise!Records, Status, Result, Ended

\* Every step of a thread is a step of the abstract migration or does not show.
LEMMA NextPromise ==
  ASSUME IndInv, NothingRaises, [Next]_vars
  PROVE  [Promise!Next]_(Promise!vars)
  <1> USE ConstantsAssumption
  <1> USE DEF Promise!Records, Promise!Outcomes
  <1>a. ASSUME NEW w \in Workers
        PROVE  w \notin {"source", "producer", "queue", "lost"} /\ w \notin Outcomes
    BY DEF Places
  <1>b. TypeOK /\ PlacedOnce /\ ShutdownInOrder
    BY DEF IndInv
  <1>c. ASSUME NEW w \in Workers, wpc[w] # "done" PROVE ~Ended
    BY <1>b, <1>c DEF ShutdownInOrder, Joined
  <1>d. ASSUME Status' = Status, ppc' = ppc PROVE UNCHANGED Promise!vars
    BY <1>d DEF Promise!vars, Result, Ended
  <1>1. CASE Scan
    <2>1. yielded + 1 \in Records /\ place[yielded + 1] = "source" /\ yielded \in Nat
      BY <1>1, <1>b DEF TypeOK, PlacedOnce, Scan
    <2>2. Result = "running" /\ Result' = Result
      BY <1>1 DEF Scan, Result, Ended
    <2>3. Status' = [Status EXCEPT ![yielded + 1] = "pending"]
      BY <1>1, <1>b, <2>1, StatusOfMove DEF Scan, Outcomes
    <2>4. /\ Status[yielded + 1] = "unread"
          /\ \A q \in Records : q < yielded + 1 => Status[q] # "unread"
      BY <1>b, <2>1 DEF PlacedOnce, Status, Outcomes
    <2>5. Promise!Read(yielded + 1)
      BY <2>2, <2>3, <2>4 DEF Promise!Read
    <2> QED
      BY <2>1, <2>5 DEF Promise!Next
  <1>2. CASE Put
    <2>1. yielded \in Records /\ place[yielded] = "producer"
      BY <1>2, <1>b DEF TypeOK, PlacedOnce, Put
    <2>2. Status' = Status
      BY <1>2, <1>b, <2>1, HiddenMove DEF Put, Outcomes
    <2>3. Result' = Result
      BY <1>2 DEF Put, Result, Ended
    <2> QED
      BY <2>2, <2>3 DEF Promise!vars
  <1>3. CASE ScanEnds \/ ScanRaises \/ PutStop
    <2>1. Status' = Status
      BY <1>3 DEF ScanEnds, ScanRaises, PutStop, Status
    <2>2. Result' = Result
      BY <1>3 DEF ScanEnds, ScanRaises, PutStop, Result, Ended
    <2> QED
      BY <2>1, <2>2 DEF Promise!vars
  <1>4. CASE Finish
    <2>2. Result = "running" /\ Status' = Status
      BY <1>4 DEF Finish, Result, Ended, Status
    <2>3. Ended' /\ Result' = ppc' /\ ppc' \in {"returned", "raised"}
      BY <1>4 DEF Finish, Result, Ended
    <2>4. \A r \in Records : r <= yielded => place[r] \in Outcomes
      BY <1>4, AllCounted DEF Finish
    <2>5. Promise!NothingPending
      BY <1>b, <2>4 DEF Promise!NothingPending, Status, PlacedOnce, TypeOK, Outcomes
    <2>6. CASE failed
      <3>1. Promise!Raise
        BY <1>4, <2>2, <2>3, <2>5, <2>6 DEF Finish, Promise!Raise
      <3> QED
        BY <3>1 DEF Promise!Next
    <2>7. CASE ~failed
      <3>1. \A r \in Records : Status[r] # "unread"
        BY <1>4, <1>b, <2>4, <2>7 DEF Finish, ShutdownInOrder, Status, Outcomes
      <3>2. Promise!Return
        BY <1>4, <2>2, <2>3, <2>5, <2>7, <3>1 DEF Finish, Promise!Return
      <3> QED
        BY <3>2 DEF Promise!Next
    <2> QED
      BY <2>6, <2>7
  <1>5. ASSUME NEW w \in Workers, GetRecord(w) PROVE Status' = Status /\ ppc' = ppc
    <2>1. Head(queue) \in Records /\ place[Head(queue)] = "queue"
      BY <1>5, <1>b, TailRange DEF TypeOK, PlacedOnce, GetRecord
    <2>2. Status' = Status
      BY <1>5, <1>a, <1>b, <2>1, HiddenMove DEF GetRecord, Outcomes
    <2> QED
      BY <1>5, <2>2 DEF GetRecord, producerVars
  <1>6. ASSUME NEW w \in Workers, NEW end, NEW outcome \in Outcomes,
               PrepareFails(w, end, outcome)
        PROVE  Promise!Next
    <2>1. hand[w] \in Records /\ place[hand[w]] = w
      BY <1>6, <1>b DEF TypeOK, WorkerOK, PlacedOnce, HeldOnce, PrepareFails
    <2>2. /\ place' = [place EXCEPT ![hand[w]] = outcome] /\ ppc' = ppc
          /\ wpc[w] # "done"
      BY <1>6 DEF PrepareFails, producerVars
    <2>3. Promise!Settle(hand[w], outcome)
      BY <1>b, <1>c, <2>1, <2>2, CountIsSettle
    <2> QED
      BY <2>1, <2>3 DEF Promise!Next, Outcomes
  <1>7. ASSUME NEW w \in Workers, Tally(w) PROVE Promise!Next
    <2> DEFINE h == Head(buffer[w])
               o == Outcome(Head(replies[w]))
    <2>1. h \in Records /\ place[h] = w
      <3>1. buffer[w] \in Seq(Records) /\ buffer[w] # <<>> /\ NoRepeats(buffer[w])
        BY <1>7, <1>b DEF TypeOK, WorkerOK, PlacedOnce, HeldOnce, Tally
      <3> QED
        BY <1>b, <3>1, TailRange DEF PlacedOnce, HeldOnce
    <2>2. o \in Outcomes
      BY DEF Outcome, Outcomes
    <2>3. place' = [place EXCEPT ![h] = o] /\ ppc' = ppc /\ wpc[w] # "done"
      BY <1>7 DEF Tally, producerVars
    <2> HIDE DEF h, o
    <2>4. Promise!Settle(h, o)
      BY <1>b, <1>c, <2>1, <2>2, <2>3, CountIsSettle
    <2> QED
      BY <2>1, <2>2, <2>4 DEF Promise!Next, Outcomes
  <1>8. ASSUME UNCHANGED <<ppc, place>> PROVE Status' = Status /\ ppc' = ppc
    BY <1>8 DEF Status
  <1> QED
    BY <1>1, <1>2, <1>3, <1>4, <1>5, <1>6, <1>7, <1>8, <1>d
       DEF Next, Produce, Work, Terminated, PrepareUnsupported, PrepareBad, Outcomes,
           GetStop, PrepareRaises, NothingRaises, Prepare, Write, WriteRaises, vars,
           producerVars

(* With no raising transform, the threads implement what Migration says of *)
(* run(): one outcome for every record read, final, and none pending when  *)
(* it ends.                                                                *)
THEOREM PipelineKeepsPromise ==
  ASSUME NothingRaises
  PROVE  Spec => KeepsPromise
  <1>1. Init => Promise!Init
    BY InitPromise
  <1>2. IndInv /\ [Next]_vars => [Promise!Next]_(Promise!vars)
    BY NextPromise
  <1> QED
    BY <1>1, <1>2, Inductive, PTL DEF Spec, KeepsPromise, Promise!Spec

HIDE DEF Records

-----------------------------------------------------------------------------
(* The inductive invariant *)

Key(r) == read[r].key

\* k holds what Redis held since the run began.
Fresh(k) == Stored(k) \in start[k] .. redis[k]

\* Versions only grow, what the run read is of the time of the run, and the
\* scan has room for the keys that it has still to return.
WorldOK ==
    /\ redis \in [Keys -> Nat] /\ start \in [Keys -> Nat]
    /\ \A k \in Keys : start[k] <= redis[k]
    /\ DOMAIN read = Records
    /\ \A r \in 1 .. yielded :
           Key(r) \in Keys /\ read[r].version \in start[Key(r)] .. redis[Key(r)]
    /\ store = [k \in Keys |-> store[k]]
    /\ Cardinality(Keys \ ReadKeys) <= NumRecords - yielded

\* The slots of w's call that are sent: the last of each key.
LastSlots(w) ==
    {i \in 1 .. Len(buffer[w]) :
        \A j \in 1 .. Len(buffer[w]) : j > i => Key(buffer[w][j]) # Key(buffer[w][i])}

\* Results are there only during a call, and only for what is sent.
CodesOK ==
    /\ codes = [w \in Workers |-> codes[w]]
    /\ \A w \in Workers :
           /\ DOMAIN codes[w] \subseteq LastSlots(w)
           /\ wpc[w] # "write" => DOMAIN codes[w] = {}
           /\ \A i \in DOMAIN codes[w] : codes[w][i] \in {"ok", "failed"}

Taken(r) == place[r] \notin {"source", "producer", "queue"}

\* A record stays with the worker that took it.
TakersKnown ==
    /\ DOMAIN by = Records
    /\ \A r \in Records : Taken(r) => by[r] \in Workers
    /\ \A r \in Records : place[r] \in Workers => by[r] = place[r]

\* The queue keeps the order in which the records were read.
QueueInOrder ==
    /\ \A i, j \in DOMAIN queue :
           i < j /\ queue[i] \in Records /\ queue[j] \in Records => queue[i] < queue[j]
    /\ \A r \in Records, i \in DOMAIN queue : Taken(r) /\ queue[i] \in Records => r < queue[i]

\* So does a worker: what it prepares is the last it took, its buffer is in
\* order, and what it migrated came before.
WorkerInOrder(w) ==
    /\ wpc[w] = "prepare" =>
           \A r \in Records : Taken(r) /\ by[r] = w /\ r # hand[w] => r < hand[w]
    /\ \A i, j \in DOMAIN buffer[w] : i < j => buffer[w][i] < buffer[w][j]
    /\ \A r \in Records, i \in DOMAIN buffer[w] :
           place[r] = "migrated" /\ by[r] = w => r < buffer[w][i]

InOrder == QueueInOrder /\ \A w \in Workers : WorkerInOrder(w)

\* A key is fresh from the moment that a command for it is reported as run,
\* through the answer of the call, and after the record is counted.
ReportsFresh ==
    /\ \A r \in 1 .. yielded : place[r] = "migrated" => Fresh(Key(r))
    /\ \A w \in Workers :
           /\ \A i \in DOMAIN replies[w] : replies[w][i] = "ok" => Fresh(Key(buffer[w][i]))
           /\ \A i \in DOMAIN codes[w] : codes[w][i] = "ok" => Fresh(Key(buffer[w][i]))

\* Nobody but w took an occurrence of k.
OnlyTaker(w, k) == \A r \in Occurrences(k) : Taken(r) => by[r] = w

\* The occurrences of k whose outcome is known, by a counter or by the answer
\* of w's call, and those of them that were written.
Settled(w, k) ==
    {r \in Occurrences(k) :
        place[r] \in Outcomes \/ (wpc[w] = "tally" /\ r \in ItemsOf(buffer[w]))}

Successes(w, k) ==
    {r \in Occurrences(k) :
        \/ place[r] = "migrated"
        \/ \E i \in DOMAIN replies[w] : buffer[w][i] = r /\ replies[w][i] = "ok"}

\* No command for k was run in the call that w is in.
Unsent(w, k) == \A i \in DOMAIN codes[w] : Key(buffer[w][i]) # k

\* When only w takes k and all of its known outcomes are successes, k holds the
\* last of them, until a command of w's next call is run: then it holds that.
LastHolds(w, k) ==
    OnlyTaker(w, k) =>
        /\ Unsent(w, k) /\ Settled(w, k) \subseteq Successes(w, k) =>
               \A r \in Settled(w, k) :
                   (\A q \in Settled(w, k) : q <= r) => Stored(k) = read[r].version
        /\ \A i \in DOMAIN codes[w] :
               codes[w][i] = "ok" /\ Key(buffer[w][i]) = k => Stored(k) = read[buffer[w][i]].version

LastHold == \A w \in Workers, k \in Keys : LastHolds(w, k)

WorldInv == WorldOK /\ CodesOK /\ TakersKnown /\ InOrder /\ ReportsFresh /\ LastHold

-----------------------------------------------------------------------------
(* What the operators of the sink do here *)

\* The last record of each key is sent, and its command has its version.
LEMMA SentHere ==
  ASSUME NEW w \in Workers, buffer[w] \in Seq(Records)
  PROVE  /\ Sink!SentSlots(Argument(w)) = LastSlots(w)
         /\ \A i \in 1 .. Len(buffer[w]) :
                Sink!Command(Argument(w), i) = SinkRecord(buffer[w][i])
  <1>1. Len(buffer[w]) \in Nat
    OBVIOUS
  <1>2. Len(Argument(w)) = Len(buffer[w])
    BY <1>1 DEF Argument
  <1>3. \A i \in 1 .. Len(buffer[w]) :
           /\ Argument(w)[i] = SinkRecord(buffer[w][i])
           /\ Argument(w)[i].key = Key(buffer[w][i])
           /\ ~Argument(w)[i].large
    BY DEF Argument, SinkRecord, Key
  <1>4. Sink!SentSlots(Argument(w)) = LastSlots(w)
    BY <1>2, <1>3 DEF Sink!SentSlots, Sink!Slots, Sink!TooLarge, LastSlots
  <1> QED
    BY <1>3, <1>4 DEF Sink!Command

\* The server then holds that version.
LEMMA WrittenHere ==
  ASSUME NEW held, NEW r
  PROVE  Sink!ServerWrites(held, SinkRecord(r)).ttl = read[r].version
  BY DEF Sink!ServerWrites, SinkRecord

\* Only a success is reported as one.
LEMMA ReasonHere == ReplyOf(Sink!Reason("ok")) = "ok" /\ ReplyOf(Sink!Reason("failed")) = "failure"
  BY DEF ReplyOf, Sink!Reason

\* A record of a call gets the result of the last record of its key.
LEMMA ReplySlot ==
  ASSUME NEW w \in Workers, buffer[w] \in Seq(Records), NEW i \in 1 .. Len(buffer[w])
  PROVE  /\ Sink!SlotOfReply(Argument(w), i) \in LastSlots(w)
         /\ Key(buffer[w][Sink!SlotOfReply(Argument(w), i)]) = Key(buffer[w][i])
         /\ i \in LastSlots(w) => Sink!SlotOfReply(Argument(w), i) = i
  <1> DEFINE S == {j \in 1 .. Len(buffer[w]) : Key(buffer[w][j]) = Key(buffer[w][i])}
             n == Len(buffer[w])
  <1>1. n \in Nat /\ S \in SUBSET (0 .. n) /\ S # {}
    OBVIOUS
  <1>2. PICK m \in S : \A j \in S : j <= m
    <2> HIDE DEF S, n
    <2> QED
      BY <1>1, GreatestElement
  <1>3. m \in LastSlots(w)
    BY <1>1, <1>2 DEF LastSlots
  <1>4. Sink!SentSlots(Argument(w)) = LastSlots(w)
    BY SentHere
  <1>5. \A j \in LastSlots(w) \cup {i} : Argument(w)[j].key = Key(buffer[w][j])
    BY DEF Argument, SinkRecord, LastSlots, Key
  <1>6. \E j \in LastSlots(w) : Argument(w)[j].key = Argument(w)[i].key
    BY <1>2, <1>3, <1>5
  <1> DEFINE c == Sink!SlotOfReply(Argument(w), i)
  <1>7. c \in LastSlots(w) /\ Argument(w)[c].key = Argument(w)[i].key
    BY <1>4, <1>6 DEF Sink!SlotOfReply
  <1>8. Key(buffer[w][c]) = Key(buffer[w][i])
    BY <1>5, <1>7
  <1> HIDE DEF c
  <1>9. i \in LastSlots(w) => c = i
    BY <1>7, <1>8 DEF LastSlots
  <1> QED
    BY <1>7, <1>8, <1>9 DEF c

-----------------------------------------------------------------------------
(* What the invariant of the threads says about the records of a worker *)

\* The records of a buffer are with their worker, and were read.
LEMMA Buffered ==
  ASSUME IndInv, NEW w \in Workers
  PROVE  /\ buffer[w] \in Seq(Records) /\ Len(buffer[w]) \in Nat
         /\ DOMAIN buffer[w] = 1 .. Len(buffer[w])
         /\ yielded \in Nat /\ yielded <= NumRecords
         /\ \A i \in DOMAIN buffer[w] :
                /\ buffer[w][i] \in Records /\ buffer[w][i] \in 1 .. yielded
                /\ place[buffer[w][i]] = w
         /\ \A i, j \in DOMAIN buffer[w] : buffer[w][i] = buffer[w][j] => i = j
  <1>1. buffer[w] \in Seq(Records) /\ yielded \in 0 .. NumRecords /\ HeldOnce(w)
    BY DEF IndInv, TypeOK, PlacedOnce
  <1>2. \A i \in DOMAIN buffer[w] : buffer[w][i] \in Records /\ buffer[w][i] \in ItemsOf(buffer[w])
    BY <1>1 DEF ItemsOf
  <1>3. \A i \in DOMAIN buffer[w] : place[buffer[w][i]] = w
    BY <1>1, <1>2 DEF HeldOnce
  <1>4. w # "source"
    BY ConstantsAssumption DEF Places
  <1>5. \A r \in Records : place[r] = w => r <= yielded
    BY <1>1, <1>4 DEF IndInv, PlacedOnce, Records
  <1>6. \A i \in DOMAIN buffer[w] : buffer[w][i] \in 1 .. yielded
    BY <1>1, <1>2, <1>3, <1>5 DEF Records
  <1>7. \A i, j \in DOMAIN buffer[w] : buffer[w][i] = buffer[w][j] => i = j
    BY <1>1, <1>2 DEF HeldOnce, NoRepeats
  <1> QED
    BY <1>1, <1>2, <1>3, <1>6, <1>7, ConstantsAssumption

\* There is an answer per record while they are counted, and none before.
LEMMA Answered ==
  ASSUME IndInv, NEW w \in Workers
  PROVE  /\ wpc[w] = "tally" => DOMAIN replies[w] = DOMAIN buffer[w] /\ buffer[w] # <<>>
         /\ wpc[w] # "tally" => DOMAIN replies[w] = {}
  <1>1. /\ WorkerOK(w) /\ buffer[w] \in Seq(Records)
        /\ replies[w] \in Seq({"ok", "failure", "exists", "raised"})
    BY DEF IndInv, TypeOK
  <1>2. DOMAIN replies[w] = 1 .. Len(replies[w]) /\ DOMAIN buffer[w] = 1 .. Len(buffer[w])
    BY <1>1
  <1>3. CASE wpc[w] = "tally"
    BY <1>1, <1>2, <1>3, BatchLimitType DEF WorkerOK
  <1>4. CASE wpc[w] # "tally"
    BY <1>1, <1>2, <1>4 DEF WorkerOK
  <1> QED
    BY <1>3, <1>4

\* The item that a worker prepares is with it, and was read.
LEMMA InHand ==
  ASSUME IndInv, NEW w \in Workers, wpc[w] = "prepare"
  PROVE  /\ hand[w] \in Records /\ place[hand[w]] = w /\ hand[w] \in 1 .. yielded
         /\ \A i \in DOMAIN buffer[w] : buffer[w][i] # hand[w]
  <1>1. /\ hand[w] \in Records \cup {NoRecord} /\ WorkerOK(w) /\ HeldOnce(w)
        /\ yielded \in 0 .. NumRecords
    BY DEF IndInv, TypeOK, PlacedOnce
  <1>2. hand[w] \in Records
    BY <1>1 DEF WorkerOK
  <1>3. place[hand[w]] = w
    BY <1>1, <1>2 DEF HeldOnce
  <1>4. w # "source"
    BY ConstantsAssumption DEF Places
  <1>5. ~(hand[w] > yielded)
    BY <1>2, <1>3, <1>4 DEF IndInv, PlacedOnce
  <1>6. hand[w] \in 1 .. yielded
    BY <1>1, <1>2, <1>5, ConstantsAssumption DEF Records
  <1> QED
    BY <1>1, <1>2, <1>3, <1>6 DEF HeldOnce, ItemsOf

\* A worker is no place and no outcome.
LEMMA WorkerIsNoPlace == \A w \in Workers : w \notin Places
  BY ConstantsAssumption

-----------------------------------------------------------------------------
(* The steps *)

\* A step of a thread that touches nothing but the state of the threads.
QuietStep(w) ==
    \/ GetStop(w) \/ PrepareUnsupported(w) \/ PrepareBad(w) \/ PrepareRaises(w)
    \/ Prepare(w) \/ Tally(w)

QuietProducer == Put \/ ScanEnds \/ ScanRaises \/ PutStop \/ Finish

\* A step that does not start the process again.
RunStep ==
    \/ ScanKey
    \/ QuietProducer /\ UNCHANGED worldVars
    \/ \E w \in Workers : TakeRecord(w)
    \/ \E w \in Workers : \E i \in 1 .. BatchLimit : Execute(w, i)
    \/ \E w \in Workers : WriteReturns(w)
    \/ \E w \in Workers : CallRaises(w)
    \/ \E w \in Workers : QuietStep(w) /\ UNCHANGED worldVars
    \/ \E k \in Keys : Change(k)
    \/ UNCHANGED allVars

\* Every step is one of these, or a restart.
LEMMA StepKinds == [EndToEndNext]_allVars => RunStep \/ Restart
  BY DEF EndToEndNext, Producer, Worker, RunStep, QuietStep, QuietProducer

\* To the threads alone a step is one of the pipeline's, or none; a restart
\* puts them into their initial state.
LEMMA ThreadSteps == (RunStep => [Next]_vars) /\ (Restart => Init')
  <1>1. ASSUME ScanKey PROVE Next
    BY <1>1 DEF ScanKey, Next, Produce
  <1>2. ASSUME QuietProducer PROVE Next
    BY <1>2 DEF QuietProducer, Next, Produce
  <1>3. ASSUME NEW w \in Workers,
               TakeRecord(w) \/ WriteReturns(w) \/ CallRaises(w) \/ QuietStep(w)
        PROVE  Next
    BY <1>3 DEF TakeRecord, WriteReturns, CallRaises, QuietStep, Next, Work
  <1>4. ASSUME NEW w \in Workers, NEW i \in 1 .. BatchLimit, Execute(w, i) PROVE vars' = vars
    BY <1>4 DEF Execute
  <1>5. ASSUME NEW k \in Keys, Change(k) PROVE vars' = vars
    BY <1>5 DEF Change
  <1>6. ASSUME UNCHANGED allVars PROVE vars' = vars
    BY <1>6 DEF allVars
  <1>7. Restart => Init'
    BY DEF Restart, Init
  <1> QED
    BY <1>1, <1>2, <1>3, <1>4, <1>5, <1>6, <1>7 DEF RunStep

\* What the quiet steps leave alone.
LEMMA QuietLeaves ==
  ASSUME UNCHANGED worldVars
  PROVE  UNCHANGED <<redis, start, read, store, codes, by, changes, restarts>>
  BY DEF worldVars

(* The start of a run, the first or another: nothing is read, and the two  *)
(* databases are as they are.                                              *)
RunBegins ==
    /\ Init
    /\ redis \in [Keys -> Nat] /\ start = redis
    /\ read = [r \in Records |-> NotRead]
    /\ store = [k \in Keys |-> store[k]]
    /\ codes = [w \in Workers |-> <<>>]
    /\ by = [r \in Records |-> NoRecord]

\* The first run, and every further one, starts like that.
LEMMA RunsBegin == (EndToEndInit => RunBegins) /\ (WorldOK /\ Restart => RunBegins')
  <1>1. EndToEndInit => RunBegins
    BY DEF EndToEndInit, WorldInit, RunBegins, FirstVersion
  <1>2. ASSUME WorldOK, Restart PROVE RunBegins'
    <2>1. Init'
      BY <1>2, ThreadSteps
    <2> QED
      BY <1>2, <2>1 DEF Restart, RunBegins, WorldOK
  <1> QED
    BY <1>1, <1>2

\* The world is sound at the start of a run.
LEMMA InitWorldOK == RunBegins => WorldOK
  <1> SUFFICES ASSUME RunBegins PROVE WorldOK
    OBVIOUS
  <1>1. yielded = 0
    BY DEF RunBegins, Init
  <1>2. ReadKeys = {}
    BY <1>1 DEF ReadKeys
  <1>3. Keys \ ReadKeys = Keys /\ Cardinality(Keys) \in Nat
    BY <1>2, EndToEndAssumption, FS_CardinalityType
  <1>4. Cardinality(Keys \ ReadKeys) <= NumRecords - yielded
    BY <1>1, <1>3, EndToEndAssumption, ConstantsAssumption
  <1>5. /\ redis \in [Keys -> Nat] /\ start = redis
        /\ DOMAIN read = Records /\ store = [k \in Keys |-> store[k]]
    BY DEF RunBegins
  <1> QED
    BY <1>1, <1>4, <1>5 DEF WorldOK

\* Another client's write only adds versions.
LEMMA ChangeWorldOK ==
  ASSUME WorldOK, NEW c \in Keys, Change(c)
  PROVE  WorldOK' /\ \A k \in Keys : redis[k] <= redis'[k]
  <1>1. /\ redis' = [redis EXCEPT ![c] = redis[c] + 1]
        /\ UNCHANGED <<start, read, store>> /\ yielded' = yielded
    BY DEF Change, vars, producerVars
  <1>2. \A k \in Keys : redis[k] \in Nat /\ redis'[k] \in Nat /\ redis[k] <= redis'[k]
    BY <1>1 DEF WorldOK
  <1>3. redis' \in [Keys -> Nat]
    BY <1>1 DEF WorldOK
  <1>4. \A k \in Keys : start[k] \in Nat /\ start'[k] <= redis'[k]
    BY <1>1, <1>2 DEF WorldOK
  <1>5. \A r \in 1 .. yielded :
           Key(r) \in Keys /\ read[r].version \in start[Key(r)] .. redis'[Key(r)]
    BY <1>2 DEF WorldOK
  <1>6. Cardinality(Keys \ ReadKeys)' <= NumRecords - yielded'
    BY <1>1 DEF WorldOK, ReadKeys
  <1> QED
    BY <1>1, <1>2, <1>3, <1>4, <1>5, <1>6 DEF WorldOK, Key

\* What a scan that returns a key does to what was read.
LEMMA ScanReads ==
  ASSUME IndInv, WorldOK, ScanKey
  PROVE  /\ yielded' = yielded + 1 /\ yielded + 1 \in Records /\ yielded \in Nat
         /\ UNCHANGED <<redis, start, store, codes, by>>
         /\ DOMAIN read' = Records
         /\ \A r \in 1 .. yielded : read'[r] = read[r]
         /\ read'[yielded + 1].key \in Keys
         /\ read'[yielded + 1].version \in
                start[read'[yielded + 1].key] .. redis[read'[yielded + 1].key]
         /\ Cardinality(Keys \ (ReadKeys \cup {read'[yielded + 1].key})) <= NumRecords - yielded - 1
  <1>0. PICK k \in Keys : \E v \in ReadVersions(k) :
           /\ MayReturn(k)
           /\ read' = [read EXCEPT ![yielded + 1] = [key |-> k, version |-> v]]
    BY DEF ScanKey
  <1>1. PICK v \in ReadVersions(k) :
           /\ MayReturn(k)
           /\ read' = [read EXCEPT ![yielded + 1] = [key |-> k, version |-> v]]
    BY <1>0
  <1>2. /\ yielded' = yielded + 1 /\ yielded < NumRecords /\ yielded \in 0 .. NumRecords
    BY DEF ScanKey, Scan, IndInv, TypeOK
  <1>3. yielded + 1 \in Records /\ yielded \in Nat
    BY <1>2, ConstantsAssumption DEF Records
  <1>4. read'[yielded + 1] = [key |-> k, version |-> v]
    BY <1>1, <1>3 DEF WorldOK
  <1>5. read'[yielded + 1].key = k /\ read'[yielded + 1].version = v
    BY <1>2, <1>3, <1>4 DEF Key
  <1>6. \A r \in 1 .. yielded : read'[r] = read[r]
    BY <1>1, <1>3 DEF WorldOK
  <1>7. v \in start[k] .. redis[k]
    BY <1>1 DEF ReadVersions
  <1>8. DOMAIN read' = Records
    BY <1>1 DEF WorldOK
  <1> QED
    BY <1>1, <1>2, <1>3, <1>5, <1>6, <1>7, <1>8 DEF ScanKey, MayReturn

\* So the world stays sound.
LEMMA ScanWorldOK ==
  ASSUME IndInv, WorldOK, ScanKey
  PROVE  WorldOK'
  <1> DEFINE k == read'[yielded + 1].key
  <1>1. 1 .. yielded' = 1 .. yielded \cup {yielded + 1}
    BY ScanReads
  <1>2. ReadKeys' = ReadKeys \cup {k}
    BY <1>1, ScanReads DEF ReadKeys
  <1>3. Cardinality(Keys \ ReadKeys)' <= NumRecords - yielded'
    BY <1>2, ScanReads, ConstantsAssumption
  <1>4. ASSUME NEW r \in 1 .. yielded'
        PROVE  Key(r)' \in Keys /\ read'[r].version \in start'[Key(r)'] .. redis'[Key(r)']
    <2>1. CASE r = yielded + 1
      BY <2>1, ScanReads DEF Key
    <2>2. CASE r \in 1 .. yielded
      BY <2>2, ScanReads DEF WorldOK, Key
    <2> QED
      BY <1>1, <2>1, <2>2
  <1> QED
    BY <1>3, <1>4, ScanReads DEF WorldOK

\* What a sub-command does: one more result; a success is applied, a failure
\* may have been; and no other key is touched.
LEMMA ExecuteDoes ==
  ASSUME IndInv, WorldOK, CodesOK, NEW w \in Workers, NEW i \in 1 .. BatchLimit, Execute(w, i)
  PROVE  /\ UNCHANGED vars /\ UNCHANGED <<redis, start, read, by>>
         /\ wpc[w] = "write" /\ i \in LastSlots(w) \ DOMAIN codes[w]
         /\ codes' = [v \in Workers |-> codes'[v]] /\ store' = [k \in Keys |-> store'[k]]
         /\ DOMAIN codes'[w] = DOMAIN codes[w] \cup {i}
         /\ codes'[w][i] \in {"ok", "failed"}
         /\ \A j \in DOMAIN codes[w] : codes'[w][j] = codes[w][j]
         /\ \A v \in Workers \ {w} : codes'[v] = codes[v]
         /\ \A k \in Keys : k # Key(buffer[w][i]) => Stored(k)' = Stored(k)
         /\ \/ Stored(Key(buffer[w][i]))' = read[buffer[w][i]].version
            \/ codes'[w][i] = "failed" /\ Stored(Key(buffer[w][i]))' = Stored(Key(buffer[w][i]))
  <1> DEFINE cmd == Sink!Command(Argument(w), i)
             r == buffer[w][i]
  <1>1. PICK code \in {"ok", "failed"}, applied \in BOOLEAN :
           /\ code = "ok" => applied
           /\ codes' = [codes EXCEPT ![w] = [j \in DOMAIN @ \cup {i} |-> IF j = i THEN code ELSE @[j]]]
           /\ store' = IF applied THEN [store EXCEPT ![cmd.key] = Sink!ServerWrites(@, cmd)]
                       ELSE store
    BY DEF Execute
  <1>2. /\ UNCHANGED vars /\ UNCHANGED <<redis, start, read, by>>
        /\ wpc[w] = "write" /\ i \in Sink!SentSlots(Argument(w)) \ DOMAIN codes[w]
    BY DEF Execute
  <1>3. i \in LastSlots(w) \ DOMAIN codes[w]
    BY <1>2, SentHere, Buffered
  <1>4. i \in 1 .. Len(buffer[w]) /\ i \in DOMAIN buffer[w]
    BY <1>3, Buffered DEF LastSlots
  <1>5. cmd = SinkRecord(r) /\ cmd.key = Key(r)
    BY <1>4, SentHere, Buffered DEF SinkRecord, Key
  <1>6. r \in 1 .. yielded /\ Key(r) \in Keys
    BY <1>4, Buffered DEF WorldOK
  <1> DEFINE f == [j \in DOMAIN codes[w] \cup {i} |-> IF j = i THEN code ELSE codes[w][j]]
  <1>7. /\ DOMAIN f = DOMAIN codes[w] \cup {i} /\ f[i] = code
        /\ \A j \in DOMAIN codes[w] : f[j] = codes[w][j]
    BY <1>3
  <1> HIDE DEF f, cmd, r
  <1>8. codes' = [codes EXCEPT ![w] = f]
    BY <1>1 DEF f
  <1>9. /\ codes' = [v \in Workers |-> codes'[v]] /\ codes'[w] = f
        /\ \A v \in Workers \ {w} : codes'[v] = codes[v]
    BY <1>8 DEF CodesOK
  <1>10. CASE applied
    <2>1. store' = [store EXCEPT ![Key(r)] = Sink!ServerWrites(store[Key(r)], SinkRecord(r))]
      BY <1>1, <1>5, <1>10
    <2>2. /\ store' = [k \in Keys |-> store'[k]]
          /\ \A k \in Keys : k # Key(r) => store'[k] = store[k]
          /\ store'[Key(r)] = Sink!ServerWrites(store[Key(r)], SinkRecord(r))
      BY <2>1, <1>6 DEF WorldOK
    <2>3. store'[Key(r)].ttl = read[r].version
      BY <2>2, WrittenHere
    <2>4. UNCHANGED buffer
      BY <1>2 DEF vars, workerVars
    <2>5. Stored(Key(r))' = store'[Key(r)].ttl
      BY <1>2, <2>4 DEF Stored, Key, r
    <2> QED
      BY <1>2, <1>3, <1>7, <1>9, <2>2, <2>3, <2>5 DEF Stored, r
  <1>11. CASE ~applied
    <2>1. code = "failed" /\ store' = store
      BY <1>1, <1>11
    <2>2. UNCHANGED buffer
      BY <1>2 DEF vars, workerVars
    <2>3. /\ Stored(Key(buffer[w][i]))' = Stored(Key(buffer[w][i]))
          /\ \A k \in Keys : Stored(k)' = Stored(k)
      BY <1>2, <2>1, <2>2 DEF Stored, Key
    <2>4. store' = [k \in Keys |-> store'[k]]
      BY <2>1 DEF WorldOK
    <2> QED
      BY <1>2, <1>3, <1>7, <1>9, <2>1, <2>3, <2>4
  <1> QED
    BY <1>10, <1>11

\* No other step changes what the databases hold or what was read.
OtherStep(w) ==
    TakeRecord(w) \/ WriteReturns(w) \/ CallRaises(w) \/ (QuietStep(w) /\ UNCHANGED worldVars)

OtherProducer == (QuietProducer /\ UNCHANGED worldVars) \/ UNCHANGED allVars

\* They leave both databases and the reads alone.
LEMMA OthersLeave ==
  ASSUME OtherProducer \/ \E w \in Workers : OtherStep(w)
  PROVE  UNCHANGED <<redis, start, read, store, yielded>>
  <1>1. ASSUME OtherProducer PROVE UNCHANGED <<redis, start, read, store, yielded>>
    BY <1>1 DEF OtherProducer, QuietProducer, Put, ScanEnds, ScanRaises, PutStop, Finish,
                worldVars, allVars, vars, producerVars
  <1>2. ASSUME NEW w \in Workers, OtherStep(w)
        PROVE  UNCHANGED <<redis, start, read, store, yielded>>
    <2>1. CASE TakeRecord(w)
      BY <2>1 DEF TakeRecord, GetRecord, producerVars
    <2>2. CASE WriteReturns(w)
      BY <2>2 DEF WriteReturns, Write, producerVars
    <2>3. CASE CallRaises(w)
      BY <2>3 DEF CallRaises, WriteRaises, producerVars
    <2>4. CASE QuietStep(w) /\ UNCHANGED worldVars
      BY <2>4 DEF QuietStep, GetStop, PrepareUnsupported, PrepareBad, PrepareFails, PrepareRaises,
                  Prepare, Tally, producerVars, worldVars
    <2> QED
      BY <1>2, <2>1, <2>2, <2>3, <2>4 DEF OtherStep
  <1> QED
    BY <1>1, <1>2

\* The kinds of steps of a run again, by what they change.
LEMMA RunSteps ==
  RunStep => \/ ScanKey \/ OtherProducer
             \/ \E w \in Workers : OtherStep(w)
             \/ \E w \in Workers : \E i \in 1 .. BatchLimit : Execute(w, i)
             \/ \E k \in Keys : Change(k)
  BY DEF RunStep, OtherStep, OtherProducer

\* Every step of a run keeps the world sound.
LEMMA NextWorldOK ==
  ASSUME IndInv, WorldOK, CodesOK, RunStep
  PROVE  WorldOK'
  <1>1. CASE OtherProducer \/ \E w \in Workers : OtherStep(w)
    BY <1>1, OthersLeave DEF WorldOK, Key, ReadKeys
  <1>2. ASSUME NEW w \in Workers, NEW i \in 1 .. BatchLimit, Execute(w, i) PROVE WorldOK'
    <2>1. UNCHANGED <<redis, start, read, yielded>> /\ store' = [k \in Keys |-> store'[k]]
      BY <1>2, ExecuteDoes DEF vars, producerVars
    <2> QED
      BY <2>1 DEF WorldOK, Key, ReadKeys
  <1> QED
    BY <1>1, <1>2, RunSteps, ScanWorldOK, ChangeWorldOK

-----------------------------------------------------------------------------
(* The calls of the sink *)

\* A worker's step leaves the other workers' variables alone ...
LEMMA OthersStand ==
  ASSUME IndInv, CodesOK, NEW w \in Workers, OtherStep(w), NEW v \in Workers, v # w
  PROVE  /\ wpc'[v] = wpc[v] /\ hand'[v] = hand[v] /\ buffer'[v] = buffer[v]
         /\ replies'[v] = replies[v] /\ codes'[v] = codes[v]
  <1>1. /\ wpc = [u \in Workers |-> wpc[u]] /\ hand = [u \in Workers |-> hand[u]]
        /\ buffer = [u \in Workers |-> buffer[u]] /\ replies = [u \in Workers |-> replies[u]]
        /\ codes = [u \in Workers |-> codes[u]]
    BY DEF IndInv, TypeOK, CodesOK
  <1>2. CASE TakeRecord(w)
    BY <1>1, <1>2 DEF TakeRecord, GetRecord
  <1>3. CASE WriteReturns(w)
    BY <1>1, <1>3 DEF WriteReturns, Write
  <1>4. CASE CallRaises(w)
    BY <1>1, <1>4 DEF CallRaises, WriteRaises
  <1>5. CASE (GetStop(w) \/ PrepareRaises(w)) /\ UNCHANGED worldVars
    BY <1>1, <1>5 DEF GetStop, PrepareRaises, Leave, worldVars
  <1>6. CASE (PrepareUnsupported(w) \/ PrepareBad(w) \/ Prepare(w)) /\ UNCHANGED worldVars
    BY <1>1, <1>6 DEF PrepareUnsupported, PrepareBad, PrepareFails, Prepare, worldVars
  <1>7. CASE Tally(w) /\ UNCHANGED worldVars
    BY <1>1, <1>7 DEF Tally, worldVars
  <1> QED
    BY <1>2, <1>3, <1>4, <1>5, <1>6, <1>7 DEF OtherStep, QuietStep

\* ... and a step of the caller those of all workers.
LEMMA WorkersStand ==
  ASSUME OtherProducer \/ ScanKey
  PROVE  UNCHANGED <<wpc, hand, buffer, replies, leaving, codes, by>>
  BY DEF OtherProducer, QuietProducer, Put, ScanEnds, ScanRaises, PutStop, Finish, ScanKey, Scan,
         worldVars, allVars, vars, workerVars

\* A worker has results only while it is in a call of the sink.
LEMMA NoCodesLeft ==
  ASSUME IndInv, CodesOK, NEW w \in Workers, OtherStep(w)
  PROVE  DOMAIN codes'[w] = {} /\ codes' = [v \in Workers |-> codes'[v]]
  <1>1. CASE WriteReturns(w) \/ CallRaises(w)
    <2>1. codes' = [codes EXCEPT ![w] = <<>>]
      BY <1>1 DEF WriteReturns, CallRaises
    <2>2. codes'[w] = <<>> /\ codes' = [v \in Workers |-> codes'[v]]
      BY <2>1 DEF CodesOK
    <2> QED
      BY <2>2
  <1>2. CASE TakeRecord(w)
    <2>1. wpc[w] # "write" /\ codes' = codes
      BY <1>2 DEF TakeRecord, GetRecord
    <2> QED
      BY <2>1 DEF CodesOK
  <1>3. CASE QuietStep(w) /\ UNCHANGED worldVars
    <2>1. wpc[w] # "write" /\ codes' = codes
      BY <1>3 DEF QuietStep, GetStop, PrepareUnsupported, PrepareBad, PrepareFails, PrepareRaises,
                  Prepare, Tally, worldVars
    <2> QED
      BY <2>1 DEF CodesOK
  <1> QED
    BY <1>1, <1>2, <1>3 DEF OtherStep

\* The keys of a buffered record are not read again.
LEMMA KeysStand ==
  ASSUME IndInv, WorldOK, CodesOK, RunStep
  PROVE  \A r \in 1 .. yielded : read'[r] = read[r]
  <1>1. CASE OtherProducer \/ \E w \in Workers : OtherStep(w)
    BY <1>1, OthersLeave
  <1>2. ASSUME NEW w \in Workers, NEW i \in 1 .. BatchLimit, Execute(w, i) PROVE read' = read
    BY <1>2 DEF Execute
  <1>3. ASSUME NEW k \in Keys, Change(k) PROVE read' = read
    BY <1>3 DEF Change
  <1>4. CASE ScanKey
    BY <1>4, ScanReads
  <1> QED
    BY <1>1, <1>2, <1>3, <1>4, RunSteps

\* A buffer that is not touched has the same slots to send.
LEMMA SlotsStand ==
  ASSUME IndInv, WorldOK, CodesOK, RunStep, NEW v \in Workers, buffer'[v] = buffer[v]
  PROVE  /\ LastSlots(v)' = LastSlots(v)
         /\ \A i \in DOMAIN buffer[v] :
                Key(buffer[v][i])' = Key(buffer[v][i]) /\ read'[buffer[v][i]] = read[buffer[v][i]]
  <1>1. \A i \in DOMAIN buffer[v] :
           /\ read'[buffer[v][i]] = read[buffer[v][i]]
           /\ Key(buffer[v][i])' = read'[buffer[v][i]].key
    BY KeysStand, Buffered DEF Key
  <1>2. \A i \in DOMAIN buffer[v] : Key(buffer[v][i])' = Key(buffer[v][i])
    BY <1>1 DEF Key
  <1> DEFINE b == buffer[v]
  <1>3. /\ DOMAIN b = 1 .. Len(b)
        /\ LastSlots(v)' = {i \in 1 .. Len(b) :
                               \A j \in 1 .. Len(b) : j > i => read'[b[j]].key # read'[b[i]].key}
    BY Buffered DEF LastSlots, Key
  <1>4. LastSlots(v)' = LastSlots(v)
    BY <1>1, <1>3 DEF LastSlots, Key
  <1> QED
    BY <1>1, <1>2, <1>4

\* At the start of a run there are no results.
LEMMA InitCodesOK == RunBegins => CodesOK
  BY DEF RunBegins, Init, CodesOK

\* Results stay with the call and the slots that they belong to.
LEMMA NextCodesOK ==
  ASSUME IndInv, WorldOK, CodesOK, RunStep
  PROVE  CodesOK'
  <1>1. ASSUME OtherProducer \/ ScanKey PROVE CodesOK'
    <2>1. UNCHANGED <<wpc, buffer, codes>>
      BY <1>1, WorkersStand
    <2>2. \A v \in Workers : LastSlots(v)' = LastSlots(v)
      BY <2>1, SlotsStand
    <2> QED
      BY <2>1, <2>2 DEF CodesOK
  <1>2. ASSUME NEW w \in Workers, OtherStep(w) PROVE CodesOK'
    <2>1. DOMAIN codes'[w] = {} /\ codes' = [v \in Workers |-> codes'[v]]
      BY <1>2, NoCodesLeft
    <2>2. \A v \in Workers \ {w} :
             /\ wpc'[v] = wpc[v] /\ codes'[v] = codes[v]
             /\ LastSlots(v)' = LastSlots(v)
      BY <1>2, OthersStand, SlotsStand
    <2> QED
      BY <2>1, <2>2 DEF CodesOK
  <1>3. ASSUME NEW w \in Workers, NEW i \in 1 .. BatchLimit, Execute(w, i) PROVE CodesOK'
    <2>1. UNCHANGED <<wpc, buffer>>
      BY <1>3, ExecuteDoes DEF vars, workerVars
    <2>2. \A v \in Workers : LastSlots(v)' = LastSlots(v)
      BY <2>1, SlotsStand
    <2>3. \A v \in Workers :
             /\ DOMAIN codes'[v] \subseteq LastSlots(v)
             /\ wpc[v] # "write" => DOMAIN codes'[v] = {}
             /\ \A j \in DOMAIN codes'[v] : codes'[v][j] \in {"ok", "failed"}
      BY <1>3, ExecuteDoes DEF CodesOK
    <2>4. codes' = [v \in Workers |-> codes'[v]]
      BY <1>3, ExecuteDoes
    <2> QED
      BY <2>1, <2>2, <2>3, <2>4 DEF CodesOK
  <1>4. ASSUME NEW k \in Keys, Change(k) PROVE CodesOK'
    <2>1. UNCHANGED <<wpc, buffer, codes>>
      BY <1>4 DEF Change, vars, workerVars
    <2>2. \A v \in Workers : LastSlots(v)' = LastSlots(v)
      BY <2>1, SlotsStand
    <2> QED
      BY <2>1, <2>2 DEF CodesOK
  <1> QED
    BY <1>1, <1>2, <1>3, <1>4, RunSteps

-----------------------------------------------------------------------------
(* Who takes a record, and in which order *)

\* What taking a record does.
LEMMA TakeDoes ==
  ASSUME IndInv, TakersKnown, NEW w \in Workers, TakeRecord(w)
  PROVE  /\ queue \in Seq(Records \cup {STOP}) /\ queue # <<>> /\ queue' = Tail(queue)
         /\ Head(queue) \in Records /\ place[Head(queue)] = "queue"
         /\ place' = [place EXCEPT ![Head(queue)] = w]
         /\ by' = [by EXCEPT ![Head(queue)] = w]
         /\ hand'[w] = Head(queue) /\ wpc[w] = "get" /\ wpc'[w] = "prepare"
         /\ UNCHANGED <<buffer, replies, codes, read, store, redis, start, yielded>>
  <1>1. /\ queue \in Seq(Records \cup {STOP}) /\ queue # <<>> /\ NoRepeats(queue)
        /\ Head(queue) # STOP
    BY DEF TakeRecord, GetRecord, IndInv, TypeOK, PlacedOnce
  <1>2. Head(queue) \in ItemsOf(queue) /\ Head(queue) \in Records \cup {STOP}
    BY <1>1, TailRange
  <1>3. Head(queue) \in Records /\ place[Head(queue)] = "queue"
    BY <1>1, <1>2 DEF IndInv, PlacedOnce
  <1>4. wpc \in [Workers -> {"get", "prepare", "write", "tally", "done"}]
        /\ hand \in [Workers -> Records \cup {NoRecord}]
    BY DEF IndInv, TypeOK
  <1> QED
    BY <1>1, <1>3, <1>4 DEF TakeRecord, GetRecord, producerVars

\* The record that a step of w moves, other than one it takes, was with w, and
\* it ends as an outcome or lost.
LEMMA QuietMoves ==
  ASSUME IndInv, NEW w \in Workers, OtherStep(w), ~TakeRecord(w)
  PROVE  /\ by' = by /\ queue' \in {queue, Tail(queue)} /\ (queue' # queue => queue # <<>>)
         /\ \A r \in Records : place'[r] # place[r] =>
                place[r] = w /\ place'[r] \in Outcomes \cup {"lost"}
  <1>0. place = [r \in Records |-> place[r]]
    BY DEF IndInv, TypeOK
  <1>1. CASE WriteReturns(w) \/ CallRaises(w)
    BY <1>1 DEF WriteReturns, CallRaises, Write, WriteRaises
  <1>2. CASE (GetStop(w) \/ Prepare(w)) /\ UNCHANGED worldVars
    BY <1>2 DEF GetStop, Prepare, worldVars
  <1>3. CASE (PrepareUnsupported(w) \/ PrepareBad(w) \/ PrepareRaises(w)) /\ UNCHANGED worldVars
    <2>1. wpc[w] = "prepare" /\ queue' = queue /\ by' = by
      BY <1>3 DEF PrepareUnsupported, PrepareBad, PrepareFails, PrepareRaises, worldVars
    <2>2. place[hand[w]] = w
      BY <2>1, InHand
    <2>3. PICK o \in Outcomes \cup {"lost"} : place' = [place EXCEPT ![hand[w]] = o]
      BY <1>3 DEF PrepareUnsupported, PrepareBad, PrepareFails, PrepareRaises, Outcomes
    <2> QED
      BY <1>0, <2>1, <2>2, <2>3
  <1>4. CASE Tally(w) /\ UNCHANGED worldVars
    <2>1. wpc[w] = "tally" /\ queue' = queue /\ by' = by
      BY <1>4 DEF Tally, worldVars
    <2>2. buffer[w] # <<>> /\ 1 \in DOMAIN buffer[w] /\ Head(buffer[w]) = buffer[w][1]
      BY <2>1, Answered, Buffered
    <2>3. place[Head(buffer[w])] = w
      BY <2>2, Buffered
    <2>4. PICK o \in Outcomes : place' = [place EXCEPT ![Head(buffer[w])] = o]
      BY <1>4 DEF Tally, Outcome, Outcomes
    <2> QED
      BY <1>0, <2>1, <2>3, <2>4
  <1> QED
    BY <1>1, <1>2, <1>3, <1>4 DEF OtherStep, QuietStep

\* The caller moves a record that nobody took.
LEMMA CallerMoves ==
  ASSUME IndInv, OtherProducer \/ ScanKey
  PROVE  \A r \in Records : place'[r] # place[r] =>
            place[r] \in {"source", "producer"} /\ place'[r] \in {"producer", "queue"}
  <1>0. place = [r \in Records |-> place[r]]
    BY DEF IndInv, TypeOK
  <1>1. CASE ScanKey
    <2>1. place' = [place EXCEPT ![yielded + 1] = "producer"] /\ yielded \in Nat
      BY <1>1 DEF ScanKey, Scan, IndInv, TypeOK
    <2>2. yielded + 1 \in Records => place[yielded + 1] = "source"
      BY <2>1 DEF IndInv, PlacedOnce
    <2> QED
      BY <1>0, <2>1, <2>2
  <1>2. CASE Put
    <2>1. place' = [place EXCEPT ![yielded] = "queue"]
      BY <1>2 DEF Put
    <2>2. yielded \in Records => place[yielded] = "producer"
      BY <1>2 DEF IndInv, PlacedOnce, Put
    <2> QED
      BY <1>0, <2>1, <2>2
  <1>3. CASE ScanEnds \/ ScanRaises \/ PutStop \/ Finish \/ UNCHANGED allVars
    BY <1>3 DEF ScanEnds, ScanRaises, PutStop, Finish, allVars, vars
  <1> QED
    BY <1>1, <1>2, <1>3 DEF OtherProducer, QuietProducer

\* At the start of a run nothing is taken.
LEMMA InitTakersKnown == RunBegins => TakersKnown
  <1> SUFFICES ASSUME RunBegins PROVE TakersKnown
    OBVIOUS
  <1>1. DOMAIN by = Records /\ \A r \in Records : place[r] = "source"
    BY DEF Init, RunBegins
  <1>2. "source" \notin Workers
    BY WorkerIsNoPlace DEF Places
  <1> QED
    BY <1>1, <1>2 DEF TakersKnown, Taken

\* It stays known who took a record.
LEMMA NextTakersKnown ==
  ASSUME IndInv, WorldOK, CodesOK, TakersKnown, RunStep
  PROVE  TakersKnown'
  <1>0. \A o \in Outcomes \cup {"lost", "producer", "queue", "source"} : o \notin Workers
    BY WorkerIsNoPlace DEF Places, Outcomes
  <1>1. CASE OtherProducer \/ ScanKey
    <2>1. by' = by
      BY <1>1, WorkersStand
    <2> QED
      BY <1>0, <1>1, <2>1, CallerMoves DEF TakersKnown, Taken
  <1>2. ASSUME NEW w \in Workers, TakeRecord(w) PROVE TakersKnown'
    <2> DEFINE h == Head(queue)
    <2>1. /\ h \in Records /\ place' = [place EXCEPT ![h] = w] /\ by' = [by EXCEPT ![h] = w]
          /\ place = [r \in Records |-> place[r]]
      BY <1>2, TakeDoes DEF IndInv, TypeOK
    <2> HIDE DEF h
    <2>2. /\ place'[h] = w /\ by'[h] = w /\ DOMAIN by' = Records
          /\ \A r \in Records \ {h} : place'[r] = place[r] /\ by'[r] = by[r]
      BY <2>1 DEF TakersKnown
    <2> QED
      BY <2>2 DEF TakersKnown, Taken
  <1>3. ASSUME NEW w \in Workers, OtherStep(w), ~TakeRecord(w) PROVE TakersKnown'
    <2>1. \A r \in Records : by[r] = by'[r] /\ (Taken(r)' => Taken(r))
      BY <1>0, <1>3, QuietMoves DEF Taken
    <2>2. \A r \in Records : place'[r] \in Workers => place'[r] = place[r]
      BY <1>0, <1>3, QuietMoves
    <2>3. DOMAIN by' = Records
      BY <1>3, QuietMoves DEF TakersKnown
    <2> QED
      BY <2>1, <2>2, <2>3 DEF TakersKnown
  <1>4. ASSUME UNCHANGED <<place, by>> PROVE TakersKnown'
    BY <1>4 DEF TakersKnown, Taken
  <1>5. ASSUME NEW w \in Workers, NEW i \in 1 .. BatchLimit, Execute(w, i) PROVE TakersKnown'
    BY <1>4, <1>5 DEF Execute, vars
  <1>6. ASSUME NEW k \in Keys, Change(k) PROVE TakersKnown'
    BY <1>4, <1>6 DEF Change, vars
  <1> QED
    BY <1>1, <1>2, <1>3, <1>5, <1>6, RunSteps

\* The positions of a sequence with one more element ...
LEMMA AppendAt ==
  ASSUME NEW S, NEW s \in Seq(S), NEW e \in S
  PROVE  /\ DOMAIN s = 1 .. Len(s) /\ Len(s) \in Nat
         /\ DOMAIN Append(s, e) = 1 .. Len(s) + 1
         /\ Append(s, e)[Len(s) + 1] = e
         /\ \A i \in DOMAIN s : Append(s, e)[i] = s[i]
  OBVIOUS

\* ... and with one less.
LEMMA TailAt ==
  ASSUME NEW S, NEW s \in Seq(S), s # <<>>
  PROVE  /\ DOMAIN s = 1 .. Len(s) /\ Len(s) \in Nat /\ 1 \in DOMAIN s /\ Head(s) = s[1]
         /\ DOMAIN Tail(s) = 1 .. Len(s) - 1
         /\ \A i \in DOMAIN Tail(s) : i + 1 \in DOMAIN s /\ Tail(s)[i] = s[i + 1]
  OBVIOUS

\* Increasing at the positions that are records.
Increasing(s) ==
    \A i, j \in DOMAIN s : i < j /\ s[i] \in Records /\ s[j] \in Records => s[i] < s[j]

\* A greater record may follow at the end.
LEMMA AppendIncreasing ==
  ASSUME NEW S, NEW s \in Seq(S), NEW e \in S, Increasing(s),
         \A i \in DOMAIN s : s[i] \in Records /\ e \in Records => s[i] < e
  PROVE  Increasing(Append(s, e))
  <1> SUFFICES ASSUME NEW i \in DOMAIN Append(s, e), NEW j \in DOMAIN Append(s, e), i < j,
                      Append(s, e)[i] \in Records, Append(s, e)[j] \in Records
               PROVE  Append(s, e)[i] < Append(s, e)[j]
    BY DEF Increasing
  <1>1. i \in DOMAIN s
    BY AppendAt
  <1>2. CASE j = Len(s) + 1
    BY <1>1, <1>2, AppendAt
  <1>3. CASE j \in DOMAIN s
    BY <1>1, <1>3, AppendAt DEF Increasing
  <1> QED
    BY <1>2, <1>3, AppendAt

\* The first record is below the rest, which stays in order.
LEMMA TailIncreasing ==
  ASSUME NEW S, NEW s \in Seq(S), s # <<>>, Increasing(s)
  PROVE  /\ Increasing(Tail(s))
         /\ \A i \in DOMAIN Tail(s) : Head(s) \in Records /\ Tail(s)[i] \in Records => Head(s) < Tail(s)[i]
  <1>1. \A i \in DOMAIN Tail(s) : i \in Nat /\ i >= 1 /\ i + 1 \in DOMAIN s /\ Tail(s)[i] = s[i + 1]
    BY TailAt
  <1>2. Head(s) = s[1] /\ 1 \in DOMAIN s
    BY TailAt
  <1> QED
    BY <1>1, <1>2 DEF Increasing

\* At the start of a run there is nothing to keep in order.
LEMMA InitInOrder == RunBegins => InOrder
  BY DEF RunBegins, Init, InOrder, QueueInOrder, WorkerInOrder, Taken

\* The queue is first in, first out.
LEMMA NextQueueInOrder ==
  ASSUME IndInv, WorldOK, CodesOK, TakersKnown, QueueInOrder, RunStep
  PROVE  QueueInOrder'
  <1> USE DEF QueueInOrder
  <1>0. queue \in Seq(Records \cup {STOP}) /\ Increasing(queue) /\ yielded \in 0 .. NumRecords
    BY DEF IndInv, TypeOK, Increasing
  <1>1. CASE Put
    <2>1. /\ queue' = Append(queue, yielded) /\ yielded # 0 /\ yielded \in Records
          /\ ppc = "put"
      BY <1>0, <1>1, ConstantsAssumption DEF Put, IndInv, TypeOK, Records
    <2>2. \A r \in Records : place[r] \notin {"source", "producer"} => r < yielded
      BY <1>0, <2>1 DEF IndInv, PlacedOnce, Records
    <2>3. \A i \in DOMAIN queue : queue[i] \in Records => queue[i] < yielded
      BY <2>2 DEF IndInv, PlacedOnce, ItemsOf
    <2>4. Increasing(queue')
      BY <1>0, <2>1, <2>3, AppendIncreasing
    <2>5. \A r \in Records : Taken(r)' => Taken(r)
      BY <1>1 DEF Put, Taken, IndInv, TypeOK
    <2>6. \A i \in DOMAIN queue' : \/ i \in DOMAIN queue /\ queue'[i] = queue[i]
                                  \/ queue'[i] = yielded
      BY <1>0, <2>1, AppendAt
    <2>7. \A r \in Records, i \in DOMAIN queue' : Taken(r)' /\ queue'[i] \in Records => r < queue'[i]
      BY <2>2, <2>5, <2>6 DEF Taken
    <2> QED
      BY <2>4, <2>7 DEF Increasing
  <1>2. CASE PutStop
    <2>1. queue' = Append(queue, STOP) /\ STOP \notin Records /\ place' = place
      BY <1>2, ConstantsAssumption DEF PutStop, Records
    <2>2. Increasing(queue')
      BY <1>0, <2>1, AppendIncreasing
    <2>3. \A i \in DOMAIN queue' : \/ i \in DOMAIN queue /\ queue'[i] = queue[i]
                                  \/ queue'[i] = STOP
      BY <1>0, <2>1, AppendAt
    <2>4. \A r \in Records, i \in DOMAIN queue' : Taken(r)' /\ queue'[i] \in Records => r < queue'[i]
      BY <2>1, <2>3 DEF Taken
    <2> QED
      BY <2>2, <2>4 DEF Increasing
  <1>3. CASE ScanKey \/ ScanEnds \/ ScanRaises \/ Finish \/ UNCHANGED allVars
    <2>1. queue' = queue
      BY <1>3 DEF ScanKey, Scan, ScanEnds, ScanRaises, Finish, allVars, vars
    <2>2. \A r \in Records : Taken(r)' => Taken(r)
      <3>1. CASE ScanKey
        BY <3>1, CallerMoves DEF Taken
      <3>2. CASE ScanEnds \/ ScanRaises \/ Finish \/ UNCHANGED allVars
        BY <3>2 DEF ScanEnds, ScanRaises, Finish, allVars, vars, Taken
      <3> QED
        BY <1>3, <3>1, <3>2
    <2> QED
      BY <2>1, <2>2
  <1>4. ASSUME NEW w \in Workers, OtherStep(w) PROVE QueueInOrder'
    <2>1. CASE TakeRecord(w)
      <3>1. /\ queue # <<>> /\ queue' = Tail(queue) /\ Head(queue) \in Records
            /\ place' = [place EXCEPT ![Head(queue)] = w]
        BY <2>1, TakeDoes
      <3>2. \A r \in Records : Taken(r)' => Taken(r) \/ r = Head(queue)
        BY <3>1 DEF Taken, IndInv, TypeOK
      <3>3. /\ Increasing(queue')
            /\ \A i \in DOMAIN queue' : queue'[i] \in Records => Head(queue) < queue'[i]
        BY <1>0, <3>1, TailIncreasing
      <3>4. \A i \in DOMAIN queue' : \E j \in DOMAIN queue : queue'[i] = queue[j]
        BY <1>0, <3>1, TailAt
      <3> QED
        BY <3>2, <3>3, <3>4 DEF Increasing
    <2>2. CASE ~TakeRecord(w)
      <3>1. \A r \in Records : Taken(r)' => Taken(r)
        BY <1>4, <2>2, QuietMoves, WorkerIsNoPlace DEF Taken, Places
      <3>2. CASE queue' = queue
        BY <3>1, <3>2
      <3>3. CASE queue' # queue
        <4>1. queue # <<>> /\ queue' = Tail(queue)
          BY <1>4, <2>2, <3>3, QuietMoves
        <4>2. Increasing(queue')
          BY <1>0, <4>1, TailIncreasing
        <4>3. \A i \in DOMAIN queue' : \E j \in DOMAIN queue : queue'[i] = queue[j]
          BY <1>0, <4>1, TailAt
        <4> QED
          BY <3>1, <4>2, <4>3 DEF Increasing
      <3> QED
        BY <3>2, <3>3
    <2> QED
      BY <2>1, <2>2
  <1>5. ASSUME UNCHANGED <<place, queue>> PROVE QueueInOrder'
    BY <1>5 DEF Taken
  <1>6. ASSUME NEW w \in Workers, NEW i \in 1 .. BatchLimit, Execute(w, i) PROVE QueueInOrder'
    BY <1>5, <1>6 DEF Execute, vars
  <1>7. ASSUME NEW k \in Keys, Change(k) PROVE QueueInOrder'
    BY <1>5, <1>7 DEF Change, vars
  <1> QED
    BY <1>1, <1>2, <1>3, <1>4, <1>6, <1>7, RunSteps DEF OtherProducer, QuietProducer

\* A worker that does not act stays in order.
LEMMA BystanderInOrder ==
  ASSUME NEW v \in Workers, WorkerInOrder(v),
         wpc'[v] = wpc[v], hand'[v] = hand[v], buffer'[v] = buffer[v],
         \A r \in Records : Taken(r)' /\ by'[r] = v => Taken(r) /\ by[r] = v,
         \A r \in Records : place'[r] = "migrated" /\ by'[r] = v => place[r] = "migrated" /\ by[r] = v
  PROVE  WorkerInOrder(v)'
  BY DEF WorkerInOrder

\* What the worker that acts does to its own order.
LEMMA ActorInOrder ==
  ASSUME IndInv, WorldOK, CodesOK, TakersKnown, QueueInOrder,
         NEW w \in Workers, WorkerInOrder(w), OtherStep(w)
  PROVE  WorkerInOrder(w)'
  <1>0. /\ wpc \in [Workers -> {"get", "prepare", "write", "tally", "done"}]
        /\ buffer = [u \in Workers |-> buffer[u]] /\ buffer[w] \in Seq(Records)
        /\ \A i \in DOMAIN buffer[w] : buffer[w][i] \in Records
        /\ place = [r \in Records |-> place[r]]
    BY Buffered DEF IndInv, TypeOK
  <1>w. w \notin {"source", "producer", "queue", "migrated"}
    BY WorkerIsNoPlace DEF Places, Outcomes
  <1>1. CASE TakeRecord(w)
    <2> DEFINE h == Head(queue)
    <2>1. /\ h \in Records /\ place' = [place EXCEPT ![h] = w] /\ by' = [by EXCEPT ![h] = w]
          /\ hand'[w] = h /\ buffer' = buffer /\ 1 \in DOMAIN queue /\ queue[1] = h
      BY <1>1, TakeDoes, TailAt
    <2> HIDE DEF h
    <2>2. \A r \in Records : r # h => place'[r] = place[r] /\ by'[r] = by[r]
      BY <1>0, <2>1 DEF TakersKnown
    <2>3. \A r \in Records : Taken(r)' /\ r # h => r < h
      BY <2>1, <2>2 DEF QueueInOrder, Taken
    <2>4. \A r \in Records : place'[r] = "migrated" => place[r] = "migrated" /\ by'[r] = by[r]
      BY <1>0, <1>w, <2>1, <2>2
    <2> QED
      BY <2>1, <2>3, <2>4 DEF WorkerInOrder
  <1>2. CASE /\ GetStop(w) \/ PrepareUnsupported(w) \/ PrepareBad(w) \/ PrepareRaises(w)
             /\ UNCHANGED worldVars
    <2>1. buffer' = buffer /\ by' = by
      BY <1>2 DEF GetStop, PrepareUnsupported, PrepareBad, PrepareFails, PrepareRaises, worldVars
    <2>2. wpc'[w] # "prepare"
      BY <1>0, <1>2 DEF GetStop, PrepareUnsupported, PrepareBad, PrepareFails, PrepareRaises, Leave
    <2>3. \A r \in Records : place'[r] = "migrated" => place[r] = "migrated"
      BY <1>0, <1>2 DEF GetStop, PrepareUnsupported, PrepareBad, PrepareFails, PrepareRaises
    <2> QED
      BY <2>1, <2>2, <2>3 DEF WorkerInOrder
  <1>3. CASE Prepare(w) /\ UNCHANGED worldVars
    <2>1. /\ wpc[w] = "prepare" /\ place' = place /\ by' = by
          /\ buffer'[w] = Append(buffer[w], hand[w]) /\ wpc'[w] # "prepare"
      BY <1>0, <1>3 DEF Prepare, worldVars
    <2>2. hand[w] \in Records /\ \A i \in DOMAIN buffer[w] : buffer[w][i] # hand[w] /\ place[buffer[w][i]] = w
      BY <2>1, InHand, Buffered
    <2>3. \A i \in DOMAIN buffer[w] : buffer[w][i] < hand[w]
      BY <1>0, <1>w, <2>1, <2>2 DEF WorkerInOrder, Taken, TakersKnown
    <2>4. \A r \in Records : place[r] = "migrated" /\ by[r] = w => r < hand[w]
      <3> SUFFICES ASSUME NEW r \in Records, place[r] = "migrated", by[r] = w PROVE r < hand[w]
        OBVIOUS
      <3>1. r # hand[w]
        BY <1>w, <2>1, InHand
      <3> QED
        BY <2>1, <3>1 DEF WorkerInOrder, Taken
    <2>5. Increasing(buffer[w])
      BY DEF WorkerInOrder, Increasing
    <2>6. Increasing(buffer'[w])
      BY <1>0, <2>1, <2>2, <2>3, <2>5, AppendIncreasing
    <2>7. \A i \in DOMAIN buffer'[w] :
             /\ buffer'[w][i] \in Records
             /\ (i \in DOMAIN buffer[w] /\ buffer'[w][i] = buffer[w][i]) \/ buffer'[w][i] = hand[w]
      BY <1>0, <2>1, <2>2, AppendAt
    <2> QED
      BY <2>1, <2>4, <2>6, <2>7 DEF WorkerInOrder, Increasing
  <1>4. CASE WriteReturns(w) \/ CallRaises(w)
    <2>1. buffer' = buffer /\ by' = by /\ place' = place /\ wpc'[w] # "prepare"
      BY <1>0, <1>4 DEF WriteReturns, CallRaises, Write, WriteRaises
    <2> QED
      BY <2>1 DEF WorkerInOrder
  <1>5. CASE Tally(w) /\ UNCHANGED worldVars
    <2>1. /\ wpc[w] = "tally" /\ by' = by
          /\ buffer'[w] = Tail(buffer[w]) /\ wpc'[w] # "prepare"
      BY <1>0, <1>5 DEF Tally, Uncounted, worldVars
    <2>2. buffer[w] # <<>>
      BY <2>1, Answered
    <2>3. Increasing(buffer[w])
      BY DEF WorkerInOrder, Increasing
    <2>4. /\ Increasing(Tail(buffer[w]))
          /\ \A i \in DOMAIN Tail(buffer[w]) :
                 Head(buffer[w]) \in Records /\ Tail(buffer[w])[i] \in Records => Head(buffer[w]) < Tail(buffer[w])[i]
      BY <1>0, <2>2, <2>3, TailIncreasing
    <2>5. /\ Head(buffer[w]) \in Records
          /\ \A i \in DOMAIN Tail(buffer[w]) :
                Tail(buffer[w])[i] \in Records /\ \E j \in DOMAIN buffer[w] : Tail(buffer[w])[i] = buffer[w][j]
      BY <1>0, <2>2, TailAt
    <2>6. \A r \in Records : place'[r] = "migrated" => place[r] = "migrated" \/ r = Head(buffer[w])
      BY <1>0, <1>5 DEF Tally
    <2>7. \A r \in Records, i \in DOMAIN buffer'[w] :
             place'[r] = "migrated" /\ by'[r] = w => r < buffer'[w][i]
      BY <2>1, <2>4, <2>5, <2>6 DEF WorkerInOrder
    <2> QED
      BY <2>1, <2>4, <2>5, <2>7 DEF WorkerInOrder, Increasing
  <1> QED
    BY <1>1, <1>2, <1>3, <1>4, <1>5 DEF OtherStep, QuietStep

\* The order is kept from the scan to the counters.
LEMMA NextInOrder ==
  ASSUME IndInv, WorldOK, CodesOK, TakersKnown, InOrder, RunStep
  PROVE  InOrder'
  <1> SUFFICES ASSUME NEW v \in Workers PROVE WorkerInOrder(v)'
    BY NextQueueInOrder DEF InOrder
  <1>0. WorkerInOrder(v) /\ QueueInOrder
    BY DEF InOrder
  <1>1. CASE OtherProducer \/ ScanKey
    <2>1. UNCHANGED <<wpc, hand, buffer, by>>
      BY <1>1, WorkersStand
    <2>2. \A r \in Records : (Taken(r)' => Taken(r)) /\ (place'[r] = "migrated" => place[r] = "migrated")
      BY <1>1, CallerMoves DEF Taken
    <2> QED
      BY <1>0, <2>1, <2>2, BystanderInOrder
  <1>2. ASSUME NEW w \in Workers, OtherStep(w) PROVE WorkerInOrder(v)'
    <2>1. CASE v = w
      BY <1>0, <1>2, <2>1, ActorInOrder
    <2>2. CASE v # w
      <3>1. wpc'[v] = wpc[v] /\ hand'[v] = hand[v] /\ buffer'[v] = buffer[v]
        BY <1>2, <2>2, OthersStand
      <3>2. CASE TakeRecord(w)
        <4> DEFINE h == Head(queue)
        <4>1. /\ h \in Records /\ place' = [place EXCEPT ![h] = w] /\ by' = [by EXCEPT ![h] = w]
              /\ place = [r \in Records |-> place[r]]
          BY <3>2, TakeDoes DEF IndInv, TypeOK
        <4> HIDE DEF h
        <4>2. /\ by'[h] = w
              /\ \A r \in Records \ {h} : place'[r] = place[r] /\ by'[r] = by[r]
          BY <4>1 DEF TakersKnown
        <4> QED
          BY <1>0, <2>2, <3>1, <4>2, BystanderInOrder DEF Taken
      <3>3. CASE ~TakeRecord(w)
        <4>1. by' = by /\ \A r \in Records : place'[r] # place[r] => place[r] = w /\ by[r] = w
          BY <1>2, <3>3, QuietMoves DEF TakersKnown
        <4> QED
          BY <1>0, <2>2, <3>1, <4>1, BystanderInOrder DEF Taken
      <3> QED
        BY <3>2, <3>3
    <2> QED
      BY <2>1, <2>2
  <1>3. ASSUME UNCHANGED <<wpc, hand, buffer, by, place>> PROVE WorkerInOrder(v)'
    BY <1>0, <1>3, BystanderInOrder DEF Taken
  <1>4. ASSUME NEW w \in Workers, NEW i \in 1 .. BatchLimit, Execute(w, i) PROVE WorkerInOrder(v)'
    BY <1>3, <1>4 DEF Execute, vars, workerVars
  <1>5. ASSUME NEW k \in Keys, Change(k) PROVE WorkerInOrder(v)'
    BY <1>3, <1>5 DEF Change, vars, workerVars
  <1> QED
    BY <1>1, <1>2, <1>4, <1>5, RunSteps

-----------------------------------------------------------------------------
(* What is reported as written is fresh *)

\* What the return of a call does: a record is reported as written if and only
\* if the command of its key was.
LEMMA ReturnDoes ==
  ASSUME IndInv, WorldOK, CodesOK, NEW w \in Workers, WriteReturns(w)
  PROVE  /\ wpc[w] = "write" /\ wpc'[w] = "tally"
         /\ UNCHANGED <<buffer, place, by, read, store, redis, start, yielded>>
         /\ DOMAIN codes[w] = LastSlots(w)
         /\ DOMAIN replies'[w] = DOMAIN buffer[w]
         /\ \A i \in DOMAIN buffer[w] : \E c \in LastSlots(w) :
                /\ Key(buffer[w][c]) = Key(buffer[w][i])
                /\ replies'[w][i] = "ok" <=> codes[w][c] = "ok"
                /\ i \in LastSlots(w) => c = i
  <1>0. /\ wpc \in [Workers -> {"get", "prepare", "write", "tally", "done"}]
        /\ replies = [u \in Workers |-> replies[u]]
    BY DEF IndInv, TypeOK
  <1>1. DOMAIN codes[w] = LastSlots(w)
    BY SentHere, Buffered DEF WriteReturns
  <1>2. PICK answer \in [1 .. Len(buffer[w]) -> SinkReplies] : replies' = [replies EXCEPT ![w] = answer]
    BY DEF WriteReturns, Write
  <1>3. DOMAIN replies'[w] = DOMAIN buffer[w]
    BY <1>0, <1>2, Buffered
  <1>4. \A i \in DOMAIN buffer[w] :
           replies'[w][i] = ReplyOf(Sink!Reason(codes[w][Sink!SlotOfReply(Argument(w), i)]))
    BY <1>3 DEF WriteReturns
  <1>5. ASSUME NEW i \in DOMAIN buffer[w]
        PROVE  \E c \in LastSlots(w) :
                  /\ Key(buffer[w][c]) = Key(buffer[w][i])
                  /\ replies'[w][i] = "ok" <=> codes[w][c] = "ok"
                  /\ i \in LastSlots(w) => c = i
    <2> DEFINE c == Sink!SlotOfReply(Argument(w), i)
    <2>1. /\ c \in LastSlots(w) /\ Key(buffer[w][c]) = Key(buffer[w][i])
          /\ i \in LastSlots(w) => c = i
      BY ReplySlot, Buffered
    <2>2. replies'[w][i] = ReplyOf(Sink!Reason(codes[w][c]))
      BY <1>4
    <2> HIDE DEF c
    <2>3. codes[w][c] \in {"ok", "failed"}
      BY <1>1, <2>1 DEF CodesOK
    <2>4. replies'[w][i] = "ok" <=> codes[w][c] = "ok"
      BY <2>2, <2>3, ReasonHere
    <2> QED
      BY <2>1, <2>4
  <1>6. /\ wpc[w] = "write" /\ wpc'[w] = "tally"
        /\ UNCHANGED <<buffer, place, by, read, store, redis, start, yielded>>
    BY <1>0 DEF WriteReturns, Write, producerVars
  <1> QED
    BY <1>1, <1>3, <1>5, <1>6

\* What a call that raises does: no record is reported as written.
LEMMA RaiseDoes ==
  ASSUME IndInv, NEW w \in Workers, CallRaises(w)
  PROVE  /\ wpc[w] = "write" /\ wpc'[w] = "tally"
         /\ UNCHANGED <<buffer, place, by, read, store, redis, start, yielded>>
         /\ DOMAIN replies'[w] = DOMAIN buffer[w]
         /\ \A i \in DOMAIN buffer[w] : replies'[w][i] # "ok"
  <1>0. /\ wpc \in [Workers -> {"get", "prepare", "write", "tally", "done"}]
        /\ replies = [u \in Workers |-> replies[u]]
    BY DEF IndInv, TypeOK
  <1>1. replies'[w] = [i \in 1 .. Len(buffer[w]) |-> "raised"]
    BY <1>0 DEF CallRaises, WriteRaises
  <1>2. DOMAIN buffer[w] = 1 .. Len(buffer[w])
    BY Buffered
  <1>3. DOMAIN replies'[w] = DOMAIN buffer[w] /\ \A i \in DOMAIN buffer[w] : replies'[w][i] # "ok"
    BY <1>1, <1>2
  <1> QED
    BY <1>0, <1>3 DEF CallRaises, WriteRaises, producerVars

\* What counting a record does: it is migrated if and only if it was reported
\* as written, and the others of the call keep their answers.
LEMMA TallyDoes ==
  ASSUME IndInv, NEW w \in Workers, Tally(w)
  PROVE  /\ wpc[w] = "tally" /\ (buffer'[w] # <<>> => wpc'[w] = "tally")
         /\ buffer[w] # <<>> /\ 1 \in DOMAIN buffer[w] /\ buffer'[w] = Tail(buffer[w])
         /\ DOMAIN replies[w] = DOMAIN buffer[w]
         /\ DOMAIN buffer'[w] = 1 .. Len(buffer[w]) - 1 /\ DOMAIN replies'[w] = DOMAIN buffer'[w]
         /\ \A i \in DOMAIN buffer'[w] :
                /\ i + 1 \in DOMAIN buffer[w]
                /\ buffer'[w][i] = buffer[w][i + 1] /\ replies'[w][i] = replies[w][i + 1]
         /\ \E o \in Outcomes :
                /\ place' = [place EXCEPT ![buffer[w][1]] = o]
                /\ o = "migrated" <=> replies[w][1] = "ok"
  <1>0. /\ wpc \in [Workers -> {"get", "prepare", "write", "tally", "done"}]
        /\ replies = [u \in Workers |-> replies[u]] /\ buffer = [u \in Workers |-> buffer[u]]
        /\ buffer[w] \in Seq(Records) /\ replies[w] \in Seq({"ok", "failure", "exists", "raised"})
    BY DEF IndInv, TypeOK
  <1>1. /\ wpc[w] = "tally" /\ buffer'[w] = Tail(buffer[w]) /\ replies'[w] = Tail(replies[w])
    BY <1>0 DEF Tally, Uncounted
  <1>2. buffer[w] # <<>> /\ DOMAIN replies[w] = DOMAIN buffer[w]
    BY <1>1, Answered
  <1>3. Len(replies[w]) = Len(buffer[w]) /\ replies[w] # <<>>
    BY <1>0, <1>2
  <1>4. /\ 1 \in DOMAIN buffer[w] /\ Head(buffer[w]) = buffer[w][1]
        /\ DOMAIN buffer'[w] = 1 .. Len(buffer[w]) - 1
        /\ \A i \in DOMAIN buffer'[w] :
               i + 1 \in DOMAIN buffer[w] /\ buffer'[w][i] = buffer[w][i + 1]
    BY <1>0, <1>1, <1>2, TailAt
  <1>5. /\ Head(replies[w]) = replies[w][1]
        /\ DOMAIN replies'[w] = 1 .. Len(replies[w]) - 1
        /\ \A i \in DOMAIN replies'[w] : replies'[w][i] = replies[w][i + 1]
    BY <1>0, <1>1, <1>3, TailAt
  <1>6. place' = [place EXCEPT ![buffer[w][1]] = Outcome(replies[w][1])]
    BY <1>4, <1>5 DEF Tally
  <1>7. /\ Outcome(replies[w][1]) \in Outcomes
        /\ Outcome(replies[w][1]) = "migrated" <=> replies[w][1] = "ok"
    BY DEF Outcome, Outcomes
  <1>8. ASSUME buffer'[w] # <<>> PROVE wpc'[w] = "tally"
    <2>1. Len(replies[w]) > 1
      BY <1>0, <1>1, <1>2, <1>3, <1>8
    <2> QED
      BY <1>0, <2>1 DEF Tally
  <1> QED
    BY <1>1, <1>2, <1>3, <1>4, <1>5, <1>6, <1>7, <1>8

\* A key that is fresh stays so: nothing but what this run read is written.
LEMMA FreshStays ==
  ASSUME IndInv, WorldOK, CodesOK, RunStep
  PROVE  \A k \in Keys : Fresh(k) => Fresh(k)'
  <1>1. CASE ScanKey \/ OtherProducer \/ \E w \in Workers : OtherStep(w)
    <2>1. UNCHANGED <<redis, start, store>>
      BY <1>1, OthersLeave, ScanReads
    <2> QED
      BY <2>1 DEF Fresh, Stored
  <1>2. ASSUME NEW w \in Workers, NEW i \in 1 .. BatchLimit, Execute(w, i), NEW k \in Keys, Fresh(k)
        PROVE  Fresh(k)'
    <2> DEFINE r == buffer[w][i]
    <2>1. UNCHANGED <<redis, start, read, buffer>>
      BY <1>2, ExecuteDoes DEF vars, workerVars
    <2>2. r \in 1 .. yielded
      BY <1>2, ExecuteDoes, Buffered DEF LastSlots
    <2>3. read[r].version \in start[Key(r)] .. redis[Key(r)]
      BY <2>2 DEF WorldOK
    <2>4. Stored(k)' = Stored(k) \/ (k = Key(r) /\ Stored(k)' = read[r].version)
      <3>1. k # Key(r) => Stored(k)' = Stored(k)
        BY <1>2, ExecuteDoes
      <3>2. Stored(Key(r))' = read[r].version \/ Stored(Key(r))' = Stored(Key(r))
        BY <1>2, ExecuteDoes
      <3>3. Key(r)' = Key(r)
        BY <2>1 DEF Key
      <3> QED
        BY <3>1, <3>2, <3>3 DEF Stored
    <2> QED
      BY <1>2, <2>1, <2>3, <2>4 DEF Fresh
  <1>3. ASSUME NEW c \in Keys, Change(c), NEW k \in Keys, Fresh(k) PROVE Fresh(k)'
    <2>1. start' = start /\ store' = store /\ redis[k] <= redis'[k]
      BY <1>3, ChangeWorldOK DEF Change
    <2>2. start[k] \in Nat /\ redis[k] \in Nat /\ redis'[k] \in Nat
      BY <1>3, ChangeWorldOK, <2>1 DEF WorldOK
    <2> QED
      BY <1>3, <2>1, <2>2 DEF Fresh, Stored
  <1> QED
    BY <1>1, <1>2, <1>3, RunSteps

\* Before the first report there is nothing to show.
LEMMA InitReportsFresh == RunBegins => ReportsFresh
  <1> SUFFICES ASSUME RunBegins PROVE ReportsFresh
    OBVIOUS
  <1>1. yielded = 0 /\ \A w \in Workers : replies[w] = <<>> /\ codes[w] = <<>>
    BY DEF Init, RunBegins
  <1> QED
    BY <1>1 DEF ReportsFresh

\* So does the key of a record.
LEMMA KeyStaysFresh ==
  ASSUME IndInv, WorldOK, CodesOK, RunStep, NEW r \in 1 .. yielded
  PROVE  Key(r)' = Key(r) /\ Key(r) \in Keys /\ (Fresh(Key(r)) => Fresh(Key(r))')
  <1>1. Key(r)' = Key(r) /\ Key(r) \in Keys
    BY KeysStand DEF Key, WorldOK
  <1>2. ASSUME NEW k \in Keys, k = Key(r), Fresh(k) PROVE Fresh(Key(r))'
    BY <1>1, <1>2, FreshStays DEF Fresh, Stored
  <1> QED
    BY <1>1, <1>2

\* A record becomes migrated only when its success is counted.
LEMMA NewlyMigrated ==
  ASSUME IndInv, TakersKnown, RunStep, NEW r \in Records, place'[r] = "migrated", place[r] # "migrated"
  PROVE  \E w \in Workers : Tally(w) /\ r = buffer[w][1] /\ replies[w][1] = "ok"
  <1>0. place = [q \in Records |-> place[q]]
    BY DEF IndInv, TypeOK
  <1>1. ASSUME OtherProducer \/ ScanKey PROVE FALSE
    BY <1>1, CallerMoves
  <1>2. ASSUME NEW w \in Workers, TakeRecord(w) PROVE FALSE
    <2>1. place' = [place EXCEPT ![Head(queue)] = w] /\ w # "migrated"
      BY <1>2, TakeDoes, WorkerIsNoPlace DEF Places, Outcomes
    <2> QED
      BY <1>0, <2>1
  <1>3. ASSUME NEW w \in Workers, OtherStep(w), ~TakeRecord(w), ~Tally(w) PROVE FALSE
    BY <1>0, <1>3 DEF OtherStep, QuietStep, WriteReturns, CallRaises, Write, WriteRaises, GetStop,
                      PrepareUnsupported, PrepareBad, PrepareFails, PrepareRaises, Prepare
  <1>4. ASSUME NEW w \in Workers, Tally(w)
        PROVE  r = buffer[w][1] /\ replies[w][1] = "ok"
    BY <1>0, <1>4, TallyDoes
  <1>5. ASSUME NEW w \in Workers, NEW i \in 1 .. BatchLimit, Execute(w, i) PROVE FALSE
    BY <1>5 DEF Execute, vars
  <1>6. ASSUME NEW k \in Keys, Change(k) PROVE FALSE
    BY <1>6 DEF Change, vars
  <1> QED
    BY <1>1, <1>2, <1>3, <1>4, <1>5, <1>6, RunSteps

\* Every report of a success is about a fresh key.
LEMMA NextReportsFresh ==
  ASSUME IndInv, WorldOK, CodesOK, TakersKnown, ReportsFresh, RunStep
  PROVE  ReportsFresh'
  <1>0. \A v \in Workers : \A i \in DOMAIN buffer[v] :
           /\ buffer[v][i] \in 1 .. yielded
           /\ Fresh(Key(buffer[v][i])) => \A r : r = buffer[v][i] => Fresh(Key(r))'
    <2> SUFFICES ASSUME NEW v \in Workers, NEW i \in DOMAIN buffer[v],
                        NEW r, r = buffer[v][i], Fresh(Key(r))
                 PROVE  Fresh(Key(r))'
      BY Buffered
    <2>1. r \in 1 .. yielded
      BY Buffered
    <2> QED
      BY <2>1, KeyStaysFresh
  <1>1. ASSUME NEW r \in 1 .. yielded', place'[r] = "migrated" PROVE Fresh(Key(r))'
    <2>1. r \in Records
      <3>1. yielded' \in 0 .. NumRecords
        BY ThreadSteps, NextTypeOK DEF IndInv, TypeOK
      <3> QED
        BY <3>1, ConstantsAssumption DEF Records
    <2>2. CASE place[r] = "migrated"
      <3>1. r \in 1 .. yielded
        BY <2>1, <2>2, ConstantsAssumption DEF IndInv, TypeOK, PlacedOnce, Records
      <3>2. Fresh(Key(r))
        BY <2>2, <3>1 DEF ReportsFresh
      <3> QED
        BY <3>1, <3>2, KeyStaysFresh
    <2>3. CASE place[r] # "migrated"
      <3>1. PICK w \in Workers : Tally(w) /\ r = buffer[w][1] /\ replies[w][1] = "ok"
        BY <1>1, <2>1, <2>3, NewlyMigrated
      <3>2. 1 \in DOMAIN buffer[w] /\ 1 \in DOMAIN replies[w]
        BY <3>1, TallyDoes
      <3>3. Fresh(Key(buffer[w][1]))
        BY <3>1, <3>2 DEF ReportsFresh
      <3> QED
        BY <1>0, <3>1, <3>2, <3>3
    <2> QED
      BY <2>2, <2>3
  <1>2. ASSUME NEW v \in Workers, NEW i \in DOMAIN buffer[v], buffer'[v] = buffer[v],
               \/ i \in DOMAIN replies[v] /\ replies[v][i] = "ok"
               \/ i \in DOMAIN codes[v] /\ codes[v][i] = "ok"
        PROVE  Fresh(Key(buffer[v][i]))'
    <2>1. Fresh(Key(buffer[v][i]))
      BY <1>2 DEF ReportsFresh
    <2>2. PICK r : r = buffer[v][i]
      OBVIOUS
    <2>3. Fresh(Key(r))' /\ r = buffer'[v][i]
      BY <1>0, <1>2, <2>1, <2>2
    <2> QED
      BY <2>3 DEF Fresh, Stored, Key
  <1>3. \A v \in Workers :
           /\ DOMAIN codes[v] \subseteq DOMAIN buffer[v]
           /\ DOMAIN replies[v] \subseteq DOMAIN buffer[v]
    BY Answered, Buffered DEF CodesOK, LastSlots
  <1>4. ASSUME NEW v \in Workers, buffer'[v] = buffer[v], replies'[v] = replies[v], codes'[v] = codes[v]
        PROVE  /\ \A i \in DOMAIN replies'[v] : replies'[v][i] = "ok" => Fresh(Key(buffer[v][i]))'
               /\ \A i \in DOMAIN codes'[v] : codes'[v][i] = "ok" => Fresh(Key(buffer[v][i]))'
    BY <1>2, <1>3, <1>4
  <1> DEFINE Good(v) == /\ \A i \in DOMAIN replies[v] : replies[v][i] = "ok" => Fresh(Key(buffer[v][i]))
                        /\ \A i \in DOMAIN codes[v] : codes[v][i] = "ok" => Fresh(Key(buffer[v][i]))
  <1>5. ASSUME NEW v \in Workers PROVE Good(v)'
    <2>1. CASE OtherProducer \/ ScanKey
      <3>1. UNCHANGED <<buffer, replies, codes>>
        BY <2>1, WorkersStand
      <3> QED
        BY <1>4, <3>1
    <2>2. ASSUME NEW w \in Workers, OtherStep(w), w # v PROVE Good(v)'
      <3>1. buffer'[v] = buffer[v] /\ replies'[v] = replies[v] /\ codes'[v] = codes[v]
        BY <2>2, OthersStand
      <3> QED
        BY <1>4, <3>1
    <2>3. ASSUME OtherStep(v) PROVE Good(v)'
      <3>0. DOMAIN codes'[v] = {}
        BY <2>3, NoCodesLeft
      <3>1. CASE WriteReturns(v)
        <4>1. ASSUME NEW i \in DOMAIN replies'[v], replies'[v][i] = "ok"
              PROVE  Fresh(Key(buffer[v][i]))'
          <5>1. i \in DOMAIN buffer[v] /\ DOMAIN codes[v] = LastSlots(v) /\ buffer' = buffer
            BY <3>1, <4>1, ReturnDoes
          <5>2. PICK c \in LastSlots(v) :
                   Key(buffer[v][c]) = Key(buffer[v][i]) /\ codes[v][c] = "ok"
            BY <3>1, <4>1, <5>1, ReturnDoes
          <5>3. Fresh(Key(buffer[v][i]))
            <6>1. Fresh(Key(buffer[v][c]))
              BY <5>1, <5>2 DEF ReportsFresh
            <6> QED
              BY <5>2, <6>1
          <5>4. UNCHANGED <<read, store, redis, start>>
            BY <3>1, ReturnDoes
          <5> QED
            BY <5>1, <5>3, <5>4 DEF Fresh, Stored, Key
        <4> QED
          BY <3>0, <4>1
      <3>2. CASE CallRaises(v)
        BY <3>0, <3>2, RaiseDoes
      <3>3. CASE Tally(v) /\ UNCHANGED worldVars
        <4>1. ASSUME NEW i \in DOMAIN replies'[v], replies'[v][i] = "ok"
              PROVE  Fresh(Key(buffer[v][i]))'
          <5>1. /\ i + 1 \in DOMAIN buffer[v] /\ i + 1 \in DOMAIN replies[v]
                /\ buffer'[v][i] = buffer[v][i + 1] /\ replies[v][i + 1] = "ok"
            BY <3>3, <4>1, TallyDoes
          <5>2. Fresh(Key(buffer[v][i + 1]))
            BY <5>1 DEF ReportsFresh
          <5>3. UNCHANGED <<read, store, redis, start>>
            BY <3>3 DEF worldVars
          <5> QED
            BY <5>1, <5>2, <5>3 DEF Fresh, Stored, Key
        <4> QED
          BY <3>0, <4>1
      <3>4. CASE \/ TakeRecord(v) \/ GetStop(v) \/ PrepareUnsupported(v) \/ PrepareBad(v)
                 \/ PrepareRaises(v) \/ Prepare(v)
        <4>1. replies' = replies /\ wpc[v] # "tally"
          BY <3>4 DEF TakeRecord, GetRecord, GetStop, PrepareUnsupported, PrepareBad, PrepareFails,
                      PrepareRaises, Prepare
        <4>2. DOMAIN replies'[v] = {}
          BY <4>1, Answered
        <4> QED
          BY <3>0, <4>2
      <3> QED
        BY <2>3, <3>1, <3>2, <3>3, <3>4 DEF OtherStep, QuietStep
    <2>4. ASSUME NEW w \in Workers, NEW i \in 1 .. BatchLimit, Execute(w, i) PROVE Good(v)'
      <3>1. buffer' = buffer /\ replies' = replies
        BY <2>4, ExecuteDoes DEF vars, workerVars
      <3>2. CASE v # w
        <4>1. codes'[v] = codes[v]
          BY <2>4, <3>2, ExecuteDoes
        <4> QED
          BY <1>4, <3>1, <4>1
      <3>3. CASE v = w
        <4>1. \A j \in DOMAIN replies'[v] : replies'[v][j] = "ok" => Fresh(Key(buffer[v][j]))'
          BY <1>2, <1>3, <3>1
        <4>2. \A j \in DOMAIN codes[v] : codes'[v][j] = "ok" => Fresh(Key(buffer[v][j]))'
          BY <1>2, <1>3, <2>4, <3>1, <3>3, ExecuteDoes
        <4>3. codes'[v][i] = "ok" => Fresh(Key(buffer[v][i]))'
          <5> SUFFICES ASSUME codes'[v][i] = "ok" PROVE Fresh(Key(buffer[v][i]))'
            OBVIOUS
          <5> DEFINE r == buffer[v][i]
          <5>1. Stored(Key(r))' = read[r].version /\ UNCHANGED <<read, redis, start>>
            BY <2>4, <3>3, ExecuteDoes
          <5>2. r \in 1 .. yielded
            BY <2>4, <3>3, ExecuteDoes, Buffered DEF LastSlots
          <5>3. read[r].version \in start[Key(r)] .. redis[Key(r)]
            BY <5>2 DEF WorldOK
          <5>4. Key(r)' = Key(r)
            BY <3>1, <5>1 DEF Key
          <5> QED
            BY <5>1, <5>3, <5>4 DEF Fresh
        <4>4. DOMAIN codes'[v] = DOMAIN codes[v] \cup {i}
          BY <2>4, <3>3, ExecuteDoes
        <4> QED
          BY <4>1, <4>2, <4>3, <4>4
      <3> QED
        BY <3>2, <3>3
    <2>5. ASSUME NEW k \in Keys, Change(k) PROVE Good(v)'
      <3>1. UNCHANGED <<buffer, replies, codes>>
        BY <2>5 DEF Change, vars, workerVars
      <3> QED
        BY <1>4, <3>1
    <2> QED
      BY <2>1, <2>2, <2>3, <2>4, <2>5, RunSteps
  <1> QED
    BY <1>1, <1>5 DEF ReportsFresh

-----------------------------------------------------------------------------
(* The last occurrence that one worker took is what a key holds *)

\* At the start of a run no key has an occurrence.
LEMMA InitLastHold == RunBegins => LastHold
  <1> SUFFICES ASSUME RunBegins, NEW w \in Workers, NEW k \in Keys PROVE LastHolds(w, k)
    BY DEF LastHold
  <1>1. yielded = 0 /\ codes[w] = <<>>
    BY DEF Init, RunBegins
  <1>2. Settled(w, k) = {}
    BY <1>1 DEF Settled, Occurrences
  <1> QED
    BY <1>1, <1>2 DEF LastHolds

\* What a step may leave alone, or add failures to, without harm.
LEMMA LastHoldsStand ==
  ASSUME NEW w \in Workers, NEW k \in Keys, LastHolds(w, k),
         OnlyTaker(w, k)' => OnlyTaker(w, k),
         OnlyTaker(w, k)' /\ Settled(w, k)' \subseteq Successes(w, k)' =>
             Settled(w, k)' = Settled(w, k) /\ Settled(w, k) \subseteq Successes(w, k),
         Stored(k)' = Stored(k),
         \A r \in Settled(w, k) : read'[r] = read[r],
         Unsent(w, k)' => Unsent(w, k),
         \A i \in DOMAIN codes'[w] :
             /\ i \in DOMAIN codes[w] /\ codes'[w][i] = codes[w][i]
             /\ buffer'[w][i] = buffer[w][i] /\ read'[buffer[w][i]] = read[buffer[w][i]]
  PROVE  LastHolds(w, k)'
  <1> SUFFICES ASSUME OnlyTaker(w, k)'
               PROVE  /\ Unsent(w, k)' /\ Settled(w, k)' \subseteq Successes(w, k)' =>
                             \A r \in Settled(w, k)' :
                                 (\A q \in Settled(w, k)' : q <= r) => Stored(k)' = read'[r].version
                      /\ \A i \in DOMAIN codes'[w] :
                             codes'[w][i] = "ok" /\ Key(buffer[w][i])' = k =>
                                 Stored(k)' = read'[buffer'[w][i]].version
    BY DEF LastHolds
  <1>1. OnlyTaker(w, k)
    OBVIOUS
  <1>2. ASSUME Unsent(w, k)', Settled(w, k)' \subseteq Successes(w, k)', NEW r \in Settled(w, k)',
               \A q \in Settled(w, k)' : q <= r
        PROVE  Stored(k)' = read'[r].version
    <2>1. Settled(w, k)' = Settled(w, k) /\ Settled(w, k) \subseteq Successes(w, k) /\ Unsent(w, k)
      BY <1>2
    <2>2. Stored(k) = read[r].version
      BY <1>1, <1>2, <2>1 DEF LastHolds
    <2> QED
      BY <1>2, <2>1, <2>2
  <1>3. ASSUME NEW i \in DOMAIN codes'[w], codes'[w][i] = "ok", Key(buffer[w][i])' = k
        PROVE  Stored(k)' = read'[buffer'[w][i]].version
    <2>1. Key(buffer[w][i]) = k
      BY <1>3 DEF Key
    <2>2. Stored(k) = read[buffer[w][i]].version
      BY <1>1, <1>3, <2>1 DEF LastHolds
    <2> QED
      BY <1>3, <2>2
  <1> QED
    BY <1>2, <1>3

\* The occurrences of a key grow by a scan only, by a record that nobody took.
LEMMA OccurrencesStand ==
  ASSUME IndInv, WorldOK, CodesOK, RunStep, NEW k \in Keys
  PROVE  /\ \A r \in Occurrences(k) : r \in Occurrences(k)' /\ r \in Records /\ read'[r] = read[r]
         /\ \A r \in Occurrences(k)' \ Occurrences(k) : place'[r] = "producer" /\ r > yielded
         /\ ~ScanKey => Occurrences(k)' = Occurrences(k)
         /\ yielded \in Nat /\ \A r \in Occurrences(k)' : r \in Records
  <1>0. yielded \in 0 .. NumRecords /\ yielded \in Nat /\ yielded' \in 0 .. NumRecords
    BY ThreadSteps, NextTypeOK, ConstantsAssumption DEF IndInv, TypeOK
  <1>1. yielded' >= yielded /\ (~ScanKey => yielded' = yielded /\ read' = read)
    <2>1. CASE ScanKey
      BY <1>0, <2>1, ScanReads
    <2>2. CASE OtherProducer \/ \E w \in Workers : OtherStep(w)
      BY <1>0, <2>2, OthersLeave
    <2>3. ASSUME NEW w \in Workers, NEW i \in 1 .. BatchLimit, Execute(w, i)
          PROVE  yielded' = yielded /\ read' = read
      BY <2>3 DEF Execute, vars, producerVars
    <2>4. ASSUME NEW c \in Keys, Change(c) PROVE yielded' = yielded /\ read' = read
      BY <2>4 DEF Change, vars, producerVars
    <2> QED
      BY <1>0, <2>1, <2>2, <2>3, <2>4, RunSteps
  <1>2. \A r \in 1 .. yielded : read'[r] = read[r] /\ r \in 1 .. yielded' /\ r \in Records
    BY <1>0, <1>1, KeysStand, ConstantsAssumption DEF Records
  <1>3. \A r \in Occurrences(k) : r \in Occurrences(k)' /\ r \in Records /\ read'[r] = read[r]
    BY <1>2 DEF Occurrences
  <1>4. ~ScanKey => Occurrences(k)' = Occurrences(k)
    BY <1>1 DEF Occurrences
  <1>5. ASSUME NEW r \in Occurrences(k)' \ Occurrences(k) PROVE place'[r] = "producer" /\ r > yielded
    <2>1. ScanKey
      BY <1>4, <1>5
    <2>2. r = yielded + 1 /\ yielded + 1 \in Records
      <3>1. r \in 1 .. yielded' /\ yielded' = yielded + 1 /\ yielded + 1 \in Records
        BY <1>5, <2>1, ScanReads DEF Occurrences
      <3>2. r \notin 1 .. yielded
        BY <1>2, <1>5 DEF Occurrences
      <3> QED
        BY <1>0, <3>1, <3>2
    <2>3. place' = [place EXCEPT ![yielded + 1] = "producer"]
      BY <2>1 DEF ScanKey, Scan
    <2> QED
      BY <1>0, <2>2, <2>3 DEF IndInv, TypeOK
  <1>6. \A r \in Occurrences(k)' : r \in Records
    BY <1>0, ConstantsAssumption DEF Occurrences, Records
  <1> QED
    BY <1>0, <1>3, <1>4, <1>5, <1>6

\* A step that changes neither w nor where the occurrences of k are.
LEMMA ApartLastHolds ==
  ASSUME IndInv, WorldOK, CodesOK, TakersKnown, RunStep,
         NEW w \in Workers, NEW k \in Keys, LastHolds(w, k), Stored(k)' = Stored(k),
         buffer'[w] = buffer[w], replies'[w] = replies[w], codes'[w] = codes[w],
         wpc'[w] = "tally" <=> wpc[w] = "tally",
         \A r \in Records : Taken(r) => by'[r] = by[r] /\ Taken(r)',
         OnlyTaker(w, k)' =>
             \A r \in Occurrences(k) : place'[r] # place[r] =>
                 place[r] \notin Outcomes /\ place'[r] \notin Outcomes
  PROVE  LastHolds(w, k)'
  <1>1. OnlyTaker(w, k)' => OnlyTaker(w, k)
    BY OccurrencesStand DEF OnlyTaker
  <1>2. ASSUME OnlyTaker(w, k)'
        PROVE  Settled(w, k)' = Settled(w, k) /\ Successes(w, k)' = Successes(w, k)
    <2>1. \A r \in Occurrences(k) : place'[r] \in Outcomes <=> place[r] \in Outcomes
      BY <1>2
    <2>2. \A r \in Occurrences(k) : place'[r] = "migrated" <=> place[r] = "migrated"
      BY <1>2 DEF Outcomes
    <2>3. \A r \in Occurrences(k)' \ Occurrences(k) :
             /\ place'[r] \notin Outcomes /\ place'[r] # "migrated"
             /\ \A i \in DOMAIN buffer[w] : buffer[w][i] # r
      <3> SUFFICES ASSUME NEW r \in Occurrences(k)' \ Occurrences(k)
                   PROVE  /\ place'[r] \notin Outcomes /\ place'[r] # "migrated"
                          /\ \A i \in DOMAIN buffer[w] : buffer[w][i] # r
        OBVIOUS
      <3>1. place'[r] = "producer" /\ r > yielded /\ yielded \in Nat
        BY OccurrencesStand
      <3>2. \A i \in DOMAIN buffer[w] : buffer[w][i] \in 1 .. yielded
        BY Buffered
      <3> QED
        BY <3>1, <3>2 DEF Outcomes
    <2>4. DOMAIN replies[w] \subseteq DOMAIN buffer[w]
      BY Answered
    <2>5. \A r \in Occurrences(k) : r \in Occurrences(k)'
      BY OccurrencesStand
    <2>6. Settled(w, k)' = Settled(w, k)
      BY <2>1, <2>3, <2>5 DEF Settled, ItemsOf
    <2>7. Successes(w, k)' = Successes(w, k)
      BY <2>2, <2>3, <2>4, <2>5 DEF Successes
    <2> QED
      BY <2>6, <2>7
  <1>3. \A r \in Settled(w, k) : read'[r] = read[r]
    BY OccurrencesStand DEF Settled
  <1>4. \A i \in DOMAIN codes[w] :
           i \in DOMAIN buffer[w] /\ read'[buffer[w][i]] = read[buffer[w][i]]
    BY Buffered, SlotsStand DEF CodesOK, LastSlots
  <1>5. Unsent(w, k)' => Unsent(w, k)
    BY <1>4 DEF Unsent, Key
  <1> QED
    BY <1>1, <1>2, <1>3, <1>4, <1>5, LastHoldsStand

\* A worker that fails to prepare a record, prepares one or leaves: a failure
\* of an occurrence of k is known, or nothing is.
LEMMA PrepareLastHolds ==
  ASSUME IndInv, WorldOK, CodesOK, TakersKnown, RunStep,
         NEW w \in Workers, NEW k \in Keys, LastHolds(w, k), UNCHANGED worldVars,
         \/ GetStop(w) \/ PrepareUnsupported(w) \/ PrepareBad(w) \/ PrepareRaises(w) \/ Prepare(w)
  PROVE  LastHolds(w, k)'
  <1>0. /\ wpc \in [Workers -> {"get", "prepare", "write", "tally", "done"}]
        /\ place = [r \in Records |-> place[r]]
    BY DEF IndInv, TypeOK
  <1>1. wpc[w] \in {"get", "prepare"} /\ wpc'[w] # "tally" /\ replies' = replies
    BY <1>0 DEF GetStop, PrepareUnsupported, PrepareBad, PrepareFails, PrepareRaises, Prepare, Leave
  <1>2. UNCHANGED <<codes, by, read, store>> /\ DOMAIN codes[w] = {}
    BY <1>1 DEF worldVars, CodesOK
  <1>3. DOMAIN replies[w] = {} /\ DOMAIN replies'[w] = {}
    BY <1>1, Answered
  <1>4. ~ScanKey
    <2>1. yielded' = yielded
      BY DEF GetStop, PrepareUnsupported, PrepareBad, PrepareFails, PrepareRaises, Prepare, producerVars
    <2> QED
      BY <2>1, ScanReads
  <1>5. Occurrences(k)' = Occurrences(k) /\ \A r \in Occurrences(k) : r \in Records
    BY <1>4, OccurrencesStand
  <1>6. \A r \in Records : place'[r] # place[r] =>
           place[r] = w /\ place'[r] \in {"skipped", "errors", "lost"}
    <2>1. CASE GetStop(w) \/ Prepare(w)
      BY <2>1 DEF GetStop, Prepare
    <2>2. CASE PrepareUnsupported(w) \/ PrepareBad(w) \/ PrepareRaises(w)
      <3>1. wpc[w] = "prepare"
        BY <2>2 DEF PrepareUnsupported, PrepareBad, PrepareFails, PrepareRaises
      <3>2. PICK o \in {"skipped", "errors", "lost"} : place' = [place EXCEPT ![hand[w]] = o]
        BY <2>2 DEF PrepareUnsupported, PrepareBad, PrepareFails, PrepareRaises
      <3> QED
        BY <1>0, <3>1, <3>2, InHand
    <2> QED
      BY <2>1, <2>2
  <1>7. w \notin Outcomes /\ w \notin {"source", "producer", "queue", "migrated"}
    BY WorkerIsNoPlace DEF Places, Outcomes
  <1>8. OnlyTaker(w, k)' => OnlyTaker(w, k)
    <2>1. \A r \in Records : Taken(r) => Taken(r)'
      BY <1>6 DEF Taken
    <2> QED
      BY <1>2, <1>5, <2>1 DEF OnlyTaker
  <1>9. Successes(w, k)' = {r \in Occurrences(k) : place'[r] = "migrated"}
    BY <1>3, <1>5 DEF Successes
  <1>10. Successes(w, k) = {r \in Occurrences(k) : place[r] = "migrated"}
    BY <1>3 DEF Successes
  <1>11. /\ Settled(w, k)' = {r \in Occurrences(k) : place'[r] \in Outcomes}
         /\ Settled(w, k) = {r \in Occurrences(k) : place[r] \in Outcomes}
    BY <1>1, <1>5 DEF Settled
  <1>12. Successes(w, k)' = Successes(w, k)
    BY <1>5, <1>6, <1>7, <1>9, <1>10
  <1>13. ASSUME Settled(w, k)' \subseteq Successes(w, k)'
         PROVE  Settled(w, k)' = Settled(w, k) /\ Settled(w, k) \subseteq Successes(w, k)
    <2>1. Settled(w, k) \subseteq Settled(w, k)'
      BY <1>5, <1>6, <1>7, <1>11
    <2>2. Successes(w, k) \subseteq Settled(w, k)
      BY <1>10, <1>11 DEF Outcomes
    <2> QED
      BY <1>12, <1>13, <2>1, <2>2
  <1>14. Stored(k)' = Stored(k) /\ Unsent(w, k)
    BY <1>2 DEF Stored, Unsent
  <1> QED
    BY <1>2, <1>8, <1>13, <1>14, LastHoldsStand

\* Counting a record makes its outcome known to the statistics; it was known.
LEMMA TallyLastHolds ==
  ASSUME IndInv, WorldOK, CodesOK, TakersKnown, RunStep,
         NEW w \in Workers, NEW k \in Keys, LastHolds(w, k), UNCHANGED worldVars, Tally(w)
  PROVE  LastHolds(w, k)'
  <1> DEFINE h == buffer[w][1]
  <1>0. PICK o \in Outcomes :
           /\ place' = [place EXCEPT ![h] = o]
           /\ o = "migrated" <=> replies[w][1] = "ok"
    BY TallyDoes
  <1>1. /\ 1 \in DOMAIN buffer[w] /\ h \in Records /\ place[h] = w
        /\ place = [r \in Records |-> place[r]]
        /\ DOMAIN replies[w] = DOMAIN buffer[w] /\ DOMAIN replies'[w] = DOMAIN buffer'[w]
        /\ wpc[w] = "tally"
    BY TallyDoes, Buffered DEF IndInv, TypeOK
  <1>2. DOMAIN buffer[w] = 1 .. Len(buffer[w]) /\ Len(buffer[w]) \in Nat
    BY Buffered
  <1>3. /\ DOMAIN buffer'[w] = 1 .. Len(buffer[w]) - 1
        /\ \A i \in DOMAIN buffer'[w] :
               /\ i + 1 \in DOMAIN buffer[w]
               /\ buffer'[w][i] = buffer[w][i + 1] /\ replies'[w][i] = replies[w][i + 1]
        /\ buffer'[w] # <<>> => wpc'[w] = "tally"
    BY TallyDoes
  <1> HIDE DEF h
  <1>4. place'[h] = o /\ \A r \in Records : r # h => place'[r] = place[r]
    BY <1>0, <1>1
  <1>5. \A i \in DOMAIN buffer[w] : i # 1 =>
           /\ i - 1 \in DOMAIN buffer'[w]
           /\ buffer'[w][i - 1] = buffer[w][i] /\ replies'[w][i - 1] = replies[w][i]
    BY <1>2, <1>3
  <1>6. UNCHANGED <<codes, by, read, store>> /\ DOMAIN codes[w] = {}
    BY <1>1 DEF worldVars, CodesOK
  <1>7. ~ScanKey
    <2>1. yielded' = yielded
      BY DEF Tally, producerVars
    <2> QED
      BY <2>1, ScanReads
  <1>8. Occurrences(k)' = Occurrences(k) /\ \A r \in Occurrences(k) : r \in Records
    BY <1>7, OccurrencesStand
  <1>9. w \notin Outcomes /\ w \notin {"source", "producer", "queue", "migrated"}
    BY WorkerIsNoPlace DEF Places, Outcomes
  <1>10. OnlyTaker(w, k)' => OnlyTaker(w, k)
    <2>1. \A r \in Records : Taken(r) => Taken(r)'
      BY <1>4 DEF Taken, Outcomes
    <2> QED
      BY <1>6, <1>8, <2>1 DEF OnlyTaker
  <1>11. \A r \in Records : r \in ItemsOf(buffer'[w]) \/ r = h <=> r \in ItemsOf(buffer[w])
    BY <1>1, <1>3, <1>5 DEF ItemsOf, h
  <1>12. \A r \in ItemsOf(buffer'[w]) : wpc'[w] = "tally"
    <2>1. buffer'[w] = <<>> => ItemsOf(buffer'[w]) = {}
      BY DEF ItemsOf
    <2> QED
      BY <1>3, <2>1
  <1>13. Settled(w, k)' = Settled(w, k)
    <2>1. Settled(w, k)' = {r \in Occurrences(k) :
                             place'[r] \in Outcomes \/ (wpc'[w] = "tally" /\ r \in ItemsOf(buffer'[w]))}
      BY <1>8 DEF Settled, ItemsOf
    <2>2. ASSUME NEW r \in Occurrences(k)
          PROVE  (place'[r] \in Outcomes \/ (wpc'[w] = "tally" /\ r \in ItemsOf(buffer'[w])))
                 <=> (place[r] \in Outcomes \/ (wpc[w] = "tally" /\ r \in ItemsOf(buffer[w])))
      <3>1. r \in Records
        BY <1>8
      <3>2. CASE r = h
        BY <1>0, <1>1, <1>4, <1>11, <3>1, <3>2
      <3>3. CASE r # h
        BY <1>1, <1>4, <1>11, <1>12, <3>1, <3>3
      <3> QED
        BY <3>2, <3>3
    <2> QED
      BY <2>1, <2>2 DEF Settled
  <1>14. Successes(w, k)' \subseteq Successes(w, k)
    <2> SUFFICES ASSUME NEW r \in Occurrences(k),
                        \/ place'[r] = "migrated"
                        \/ \E i \in DOMAIN replies'[w] : buffer'[w][i] = r /\ replies'[w][i] = "ok"
                 PROVE  \/ place[r] = "migrated"
                        \/ \E i \in DOMAIN replies[w] : buffer[w][i] = r /\ replies[w][i] = "ok"
      BY <1>8 DEF Successes
    <2>1. CASE place'[r] = "migrated"
      <3>1. CASE r = h
        BY <1>0, <1>1, <1>4, <2>1, <3>1 DEF h
      <3>2. CASE r # h
        BY <1>4, <1>8, <2>1, <3>2
      <3> QED
        BY <3>1, <3>2
    <2>2. ASSUME NEW i \in DOMAIN replies'[w], buffer'[w][i] = r, replies'[w][i] = "ok"
          PROVE  \E j \in DOMAIN replies[w] : buffer[w][j] = r /\ replies[w][j] = "ok"
      BY <1>1, <1>3, <2>2
    <2> QED
      BY <2>1, <2>2
  <1>15. Stored(k)' = Stored(k) /\ Unsent(w, k)
    BY <1>6 DEF Stored, Unsent
  <1> QED
    BY <1>6, <1>10, <1>13, <1>14, <1>15, LastHoldsStand

\* When a call ends, the answers become known: if k was in it, and nothing has
\* failed, the last occurrence in the call is the last of all, and was written.
LEMMA CallEndLastHolds ==
  ASSUME IndInv, WorldOK, CodesOK, TakersKnown, InOrder,
         NEW w \in Workers, NEW k \in Keys, LastHolds(w, k), WriteReturns(w) \/ CallRaises(w)
  PROVE  LastHolds(w, k)'
  <1>1. /\ wpc[w] = "write" /\ wpc'[w] = "tally"
        /\ UNCHANGED <<buffer, place, by, read, store, redis, start, yielded>>
        /\ DOMAIN replies'[w] = DOMAIN buffer[w]
    BY ReturnDoes, RaiseDoes
  <1>2. DOMAIN codes'[w] = {}
    BY NoCodesLeft DEF OtherStep
  <1>3. DOMAIN replies[w] = {}
    BY <1>1, Answered
  <1>4. Occurrences(k)' = Occurrences(k) /\ (OnlyTaker(w, k)' <=> OnlyTaker(w, k)) /\ Stored(k)' = Stored(k)
    BY <1>1 DEF Occurrences, OnlyTaker, Taken, Stored
  <1>5. /\ \A j \in DOMAIN buffer[w] :
               /\ buffer[w][j] \in Records /\ buffer[w][j] \in 1 .. yielded /\ place[buffer[w][j]] = w
               /\ buffer[w][j] \in ItemsOf(buffer[w])
        /\ \A i, j \in DOMAIN buffer[w] : buffer[w][i] = buffer[w][j] => i = j
        /\ DOMAIN buffer[w] = 1 .. Len(buffer[w]) /\ Len(buffer[w]) \in Nat
        /\ DOMAIN codes[w] \subseteq DOMAIN buffer[w]
    BY Buffered DEF ItemsOf, CodesOK, LastSlots
  <1>6. w \notin Outcomes /\ w # "migrated" /\ \A r \in Records : place[r] = "migrated" => Taken(r)
    BY WorkerIsNoPlace DEF Places, Outcomes, Taken
  <1>7. SUFFICES ASSUME OnlyTaker(w, k), Settled(w, k)' \subseteq Successes(w, k)',
                        NEW r \in Settled(w, k)', \A q \in Settled(w, k)' : q <= r
                 PROVE  Stored(k) = read[r].version
    BY <1>1, <1>2, <1>4 DEF LastHolds
  <1>8. Settled(w, k)' = {q \in Occurrences(k) : place[q] \in Outcomes \/ q \in ItemsOf(buffer[w])}
    BY <1>1, <1>4 DEF Settled, ItemsOf
  <1>9. Successes(w, k)' =
           {q \in Occurrences(k) :
               \/ place[q] = "migrated"
               \/ \E i \in DOMAIN buffer[w] : buffer[w][i] = q /\ replies'[w][i] = "ok"}
    BY <1>1, <1>4 DEF Successes
  <1>10. \A q \in Occurrences(k) : q \in Records /\ q \in Nat
    BY ConstantsAssumption DEF Occurrences, Records, IndInv, TypeOK
  <1>11. CASE \A j \in DOMAIN buffer[w] : Key(buffer[w][j]) # k
    <2>1. \A q \in Occurrences(k) : q \notin ItemsOf(buffer[w])
      BY <1>11 DEF Occurrences, ItemsOf, Key
    <2>2. Settled(w, k)' = Settled(w, k)
      BY <1>1, <1>8, <2>1 DEF Settled
    <2>3. Settled(w, k) \subseteq Successes(w, k)
      BY <1>5, <1>7, <1>9, <2>1, <2>2 DEF Successes
    <2>4. Unsent(w, k)
      BY <1>5, <1>11 DEF Unsent
    <2> QED
      BY <1>7, <2>2, <2>3, <2>4 DEF LastHolds
  <1>12. CASE \E j \in DOMAIN buffer[w] : Key(buffer[w][j]) = k
    <2>1. PICK m \in LastSlots(w) : Key(buffer[w][m]) = k
      BY <1>5, <1>12, ReplySlot, Buffered
    <2>2. m \in DOMAIN buffer[w] /\ \A j \in DOMAIN buffer[w] : j > m => Key(buffer[w][j]) # k
      BY <1>5, <2>1 DEF LastSlots
    <2>3. buffer[w][m] \in Occurrences(k)
      BY <1>5, <2>1, <2>2 DEF Occurrences, Key
    <2>4. buffer[w][m] \in Settled(w, k)' /\ buffer[w][m] \in Successes(w, k)'
      BY <1>5, <1>7, <1>8, <2>2, <2>3
    <2>5. replies'[w][m] = "ok"
      BY <1>5, <1>6, <1>9, <2>2, <2>4
    <2>6. WriteReturns(w)
      BY <2>2, <2>5, RaiseDoes
    <2>7. m \in DOMAIN codes[w] /\ codes[w][m] = "ok"
      BY <2>1, <2>2, <2>5, <2>6, ReturnDoes
    <2>8. Stored(k) = read[buffer[w][m]].version
      BY <1>7, <2>1, <2>7 DEF LastHolds
    <2>9. r = buffer[w][m]
      <3>1. buffer[w][m] <= r /\ r \in Successes(w, k)' /\ r \in Occurrences(k)
        BY <1>7, <1>8, <2>4
      <3>2. r \in Nat /\ r \in Records /\ buffer[w][m] \in Nat
        BY <1>10, <2>3, <3>1
      <3>3. WorkerInOrder(w)
        BY DEF InOrder
      <3>4. CASE place[r] = "migrated"
        <4>1. by[r] = w
          BY <1>6, <1>7, <3>1, <3>2, <3>4 DEF OnlyTaker
        <4>2. r < buffer[w][m]
          BY <2>2, <3>2, <3>3, <3>4, <4>1 DEF WorkerInOrder
        <4> QED
          BY <3>1, <3>2, <4>2
      <3>5. ASSUME NEW j \in DOMAIN buffer[w], buffer[w][j] = r PROVE r = buffer[w][m]
        <4>1. Key(buffer[w][j]) = k
          BY <3>1, <3>5 DEF Occurrences, Key
        <4>2. j <= m
          BY <1>5, <2>2, <4>1
        <4>3. CASE j = m
          BY <3>5, <4>3
        <4>4. CASE j < m
          <5>1. r < buffer[w][m]
            BY <2>2, <3>3, <3>5, <4>4 DEF WorkerInOrder
          <5> QED
            BY <3>1, <3>2, <5>1
        <4> QED
          BY <1>5, <2>2, <4>2, <4>3, <4>4
      <3> QED
        BY <1>9, <3>1, <3>4, <3>5
    <2> QED
      BY <2>8, <2>9
  <1> QED
    BY <1>11, <1>12

\* A command of w's call: the key that it is for now holds its version, if it
\* is reported as run; no other command of the call is for that key.
LEMMA ExecuteLastHolds ==
  ASSUME IndInv, WorldOK, CodesOK, TakersKnown,
         NEW w \in Workers, NEW k \in Keys, LastHolds(w, k), NEW i \in 1 .. BatchLimit, Execute(w, i)
  PROVE  LastHolds(w, k)'
  <1>1. UNCHANGED <<buffer, place, replies, wpc, yielded, by, read>>
    BY ExecuteDoes DEF vars, workerVars, producerVars
  <1>2. /\ Occurrences(k)' = Occurrences(k) /\ (OnlyTaker(w, k)' <=> OnlyTaker(w, k))
        /\ Settled(w, k)' = Settled(w, k) /\ Successes(w, k)' = Successes(w, k)
        /\ Key(buffer[w][i])' = Key(buffer[w][i])
    BY <1>1 DEF Occurrences, OnlyTaker, Taken, Settled, Successes, ItemsOf, Key
  <1>3. /\ i \in LastSlots(w) \ DOMAIN codes[w] /\ DOMAIN codes'[w] = DOMAIN codes[w] \cup {i}
        /\ \A j \in DOMAIN codes[w] : codes'[w][j] = codes[w][j]
    BY ExecuteDoes
  <1>4. DOMAIN codes[w] \subseteq LastSlots(w)
    BY DEF CodesOK
  <1> SUFFICES ASSUME OnlyTaker(w, k)
               PROVE  /\ Unsent(w, k)' /\ Settled(w, k) \subseteq Successes(w, k) =>
                             \A r \in Settled(w, k) :
                                 (\A q \in Settled(w, k) : q <= r) => Stored(k)' = read[r].version
                      /\ \A j \in DOMAIN codes'[w] :
                             codes'[w][j] = "ok" /\ Key(buffer[w][j]) = k =>
                                 Stored(k)' = read[buffer[w][j]].version
    BY <1>1, <1>2 DEF LastHolds, Key
  <1>5. CASE Key(buffer[w][i]) # k
    <2>1. Stored(k)' = Stored(k)
      BY <1>5, ExecuteDoes
    <2>2. Unsent(w, k)' => Unsent(w, k)
      BY <1>1, <1>3 DEF Unsent, Key
    <2> QED
      BY <1>3, <1>5, <2>1, <2>2 DEF LastHolds
  <1>6. CASE Key(buffer[w][i]) = k
    <2>1. ~Unsent(w, k)'
      BY <1>1, <1>3, <1>6 DEF Unsent, Key
    <2>2. \A j \in DOMAIN codes[w] : Key(buffer[w][j]) # k
      <3>1. \A j \in LastSlots(w) : Key(buffer[w][j]) = k => j = i
        BY <1>3, <1>6, Buffered DEF LastSlots
      <3> QED
        BY <1>3, <1>4, <3>1
    <2>3. codes'[w][i] = "ok" => Stored(k)' = read[buffer[w][i]].version
      <3>1. codes'[w][i] = "ok" => Stored(Key(buffer[w][i]))' = read[buffer[w][i]].version
        BY ExecuteDoes
      <3> QED
        BY <1>2, <1>6, <3>1 DEF Stored
    <2> QED
      BY <1>3, <2>1, <2>2, <2>3
  <1> QED
    BY <1>5, <1>6

\* Every step of a run keeps what each key holds for each worker.
LEMMA NextLastHold ==
  ASSUME IndInv, WorldOK, CodesOK, TakersKnown, InOrder, LastHold, RunStep
  PROVE  LastHold'
  <1> SUFFICES ASSUME NEW w \in Workers, NEW k \in Keys PROVE LastHolds(w, k)'
    BY DEF LastHold
  <1>0. /\ LastHolds(w, k) /\ place = [r \in Records |-> place[r]]
        /\ \A u \in Workers : u \notin Outcomes \cup {"source", "producer", "queue"}
    BY WorkerIsNoPlace DEF LastHold, Places, IndInv, TypeOK
  <1>1. CASE OtherProducer \/ ScanKey
    <2>1. UNCHANGED <<wpc, buffer, replies, codes, by, store>>
      BY <1>1, WorkersStand, OthersLeave, ScanReads
    <2>2. /\ \A r \in Records : place'[r] # place[r] =>
                 place[r] \notin Outcomes /\ place'[r] \notin Outcomes
          /\ \A r \in Records : Taken(r) => Taken(r)'
      BY <1>1, CallerMoves DEF Taken, Outcomes
    <2>3. \A r \in Occurrences(k) : r \in Records
      BY OccurrencesStand
    <2> QED
      BY <1>0, <2>1, <2>2, <2>3, ApartLastHolds DEF Stored
  <1>2. ASSUME NEW v \in Workers, TakeRecord(v) PROVE LastHolds(w, k)'
    <2> DEFINE h == Head(queue)
    <2>1. /\ h \in Records /\ place' = [place EXCEPT ![h] = v] /\ by' = [by EXCEPT ![h] = v]
          /\ place[h] = "queue" /\ UNCHANGED <<buffer, replies, codes, store>>
      BY <1>2, TakeDoes
    <2> HIDE DEF h
    <2>2. \A r \in Records : r # h => place'[r] = place[r] /\ by'[r] = by[r]
      BY <1>0, <2>1 DEF TakersKnown
    <2>3. ~Taken(h) /\ place[h] \notin Outcomes /\ place'[h] \notin Outcomes
      BY <1>0, <2>1 DEF Taken, Outcomes
    <2>4. wpc'[w] = "tally" <=> wpc[w] = "tally"
      <3>1. CASE v = w
        BY <1>2, <3>1, TakeDoes
      <3>2. CASE v # w
        BY <1>2, <3>2, OthersStand DEF OtherStep
      <3> QED
        BY <3>1, <3>2
    <2>5. \A r \in Occurrences(k) : r \in Records
      BY OccurrencesStand
    <2>6. \A r \in Records : Taken(r) => by'[r] = by[r] /\ Taken(r)'
      BY <2>2, <2>3 DEF Taken
    <2>7. \A r \in Occurrences(k) : place'[r] # place[r] =>
             place[r] \notin Outcomes /\ place'[r] \notin Outcomes
      BY <2>2, <2>3, <2>5
    <2> QED
      BY <1>0, <2>1, <2>4, <2>6, <2>7, ApartLastHolds DEF Stored
  <1>3. ASSUME NEW v \in Workers, OtherStep(v), ~TakeRecord(v), v # w PROVE LastHolds(w, k)'
    <2>1. wpc'[w] = wpc[w] /\ buffer'[w] = buffer[w] /\ replies'[w] = replies[w] /\ codes'[w] = codes[w]
      BY <1>3, OthersStand
    <2>2. store' = store /\ by' = by
      BY <1>3, OthersLeave, QuietMoves
    <2>3. \A r \in Records : place'[r] # place[r] =>
             place[r] = v /\ place'[r] \in Outcomes \cup {"lost"} /\ by[r] = v
      BY <1>3, QuietMoves DEF TakersKnown
    <2>4. \A r \in Records : (place'[r] # place[r] => Taken(r)') /\ (Taken(r) => Taken(r)')
      BY <2>3 DEF Taken, Outcomes
    <2>5. ASSUME OnlyTaker(w, k)', NEW r \in Occurrences(k) PROVE place'[r] = place[r]
      <3>1. r \in Records /\ r \in Occurrences(k)'
        BY OccurrencesStand
      <3> QED
        BY <1>3, <2>2, <2>3, <2>4, <2>5, <3>1 DEF OnlyTaker
    <2> QED
      BY <1>0, <2>1, <2>2, <2>4, <2>5, ApartLastHolds DEF Stored
  <1>4. CASE OtherStep(w)
    BY <1>0, <1>2, <1>4, PrepareLastHolds, TallyLastHolds, CallEndLastHolds DEF OtherStep, QuietStep
  <1>5. ASSUME NEW v \in Workers, NEW i \in 1 .. BatchLimit, Execute(v, i) PROVE LastHolds(w, k)'
    <2>1. CASE v = w
      BY <1>0, <1>5, <2>1, ExecuteLastHolds
    <2>2. CASE v # w /\ Key(buffer[v][i]) # k
      <3>1. UNCHANGED <<buffer, replies, wpc, place, by>> /\ codes'[w] = codes[w] /\ Stored(k)' = Stored(k)
        BY <1>5, <2>2, ExecuteDoes DEF vars, workerVars
      <3> QED
        BY <1>0, <3>1, ApartLastHolds DEF Taken
    <2>3. CASE v # w /\ Key(buffer[v][i]) = k
      <3>1. UNCHANGED <<buffer, place, by, read, yielded>> /\ i \in DOMAIN buffer[v]
        BY <1>5, ExecuteDoes, Buffered DEF vars, workerVars, producerVars, LastSlots
      <3>2. /\ buffer[v][i] \in Occurrences(k) /\ buffer[v][i] \in Records
            /\ place[buffer[v][i]] = v
        BY <2>3, <3>1, Buffered DEF Occurrences, Key
      <3>3. Taken(buffer[v][i]) /\ by[buffer[v][i]] = v
        BY <1>0, <3>2 DEF Taken, TakersKnown
      <3>4. ~OnlyTaker(w, k)
        BY <2>3, <3>2, <3>3 DEF OnlyTaker
      <3>5. ~OnlyTaker(w, k)'
        BY <3>1, <3>4 DEF OnlyTaker, Occurrences, Taken
      <3> QED
        BY <3>5 DEF LastHolds
    <2> QED
      BY <2>1, <2>2, <2>3
  <1>6. ASSUME NEW c \in Keys, Change(c) PROVE LastHolds(w, k)'
    <2>1. UNCHANGED <<buffer, replies, wpc, place, by, codes, store>>
      BY <1>6 DEF Change, vars, workerVars
    <2> QED
      BY <1>0, <2>1, ApartLastHolds DEF Taken, Stored
  <1> QED
    BY <1>1, <1>2, <1>3, <1>4, <1>5, <1>6, RunSteps

-----------------------------------------------------------------------------
(* What a run tells about Aerospike *)

\* The inductive invariant of the threads and of the world holds in every
\* state, across any number of restarts.
LEMMA WorldInvariant == EndToEndSpec => [](IndInv /\ WorldInv)
  <1>1. RunBegins => IndInv /\ WorldInv
    <2>1. RunBegins => IndInv
      BY InitTypeOK, InitPlacedOnce, InitStatsExact, InitShutdown, InitNoneLost DEF IndInv, RunBegins
    <2> QED
      BY <2>1, InitWorldOK, InitCodesOK, InitTakersKnown, InitInOrder, InitReportsFresh, InitLastHold
         DEF WorldInv
  <1>2. IndInv /\ WorldInv /\ RunStep => (IndInv /\ WorldInv)'
    <2> SUFFICES ASSUME IndInv, WorldInv, RunStep PROVE (IndInv /\ WorldInv)'
      OBVIOUS
    <2>1. IndInv'
      BY ThreadSteps, NextTypeOK, NextPlacedOnce, NextStatsExact, NextShutdown, NextNoneLost DEF IndInv
    <2>2. WorldOK' /\ CodesOK' /\ TakersKnown' /\ InOrder' /\ ReportsFresh' /\ LastHold'
      BY NextWorldOK, NextCodesOK, NextTakersKnown, NextInOrder, NextReportsFresh, NextLastHold
         DEF WorldInv
    <2> QED
      BY <2>1, <2>2 DEF WorldInv
  <1>3. WorldInv /\ Restart => RunBegins'
    BY RunsBegin DEF WorldInv
  <1>4. EndToEndInit => RunBegins
    BY RunsBegin
  <1> QED
    BY <1>1, <1>2, <1>3, <1>4, StepKinds, PTL DEF EndToEndSpec

(* A key of which this run has counted an occurrence as migrated holds a   *)
(* version that Redis held since the run began, whatever duplicates, late  *)
(* reads, calls in doubt and killed runs wrote before it or after it.      *)
THEOREM MigratedIsFresh == EndToEndSpec => []NeverStale
  <1>1. WorldInv => NeverStale
    BY DEF WorldInv, ReportsFresh, NeverStale, Fresh, Occurrences, Key
  <1> QED
    BY <1>1, WorldInvariant, PTL

(* A run that returns with as many migrated as scanned records has copied  *)
(* every key of Redis.                                                     *)
THEOREM CleanRunIsComplete == EndToEndSpec => []CleanRunCopiesAll
  <1>1. IndInv /\ WorldInv => CleanRunCopiesAll
    <2> SUFFICES ASSUME IndInv, WorldInv, ppc = "returned", stats.migrated = stats.scanned, NEW k \in Keys
                 PROVE  Fresh(k)
      BY DEF CleanRunCopiesAll, Fresh
    <2>1. yielded = NumRecords /\ stats.scanned = yielded
      BY DEF IndInv, ShutdownInOrder, StatsExact
    <2>2. Cardinality(At("migrated")) = NumRecords
      BY <2>1 DEF IndInv, StatsExact, Outcomes
    <2>3. At("migrated") = Records
      <3>1. IsFiniteSet(Records) /\ Cardinality(Records) = NumRecords
        BY ConstantsAssumption, FS_Interval DEF Records
      <3>2. At("migrated") \in SUBSET Records
        BY DEF At
      <3> QED
        BY <2>2, <3>1, <3>2, FS_Subset
    <2>4. k \in ReadKeys
      <3>1. Cardinality(Keys \ ReadKeys) <= 0
        BY <2>1, ConstantsAssumption DEF WorldInv, WorldOK
      <3>2. IsFiniteSet(Keys \ ReadKeys)
        BY EndToEndAssumption, FS_Difference
      <3>3. Keys \ ReadKeys = {}
        BY <3>1, <3>2, FS_CardinalityType, FS_EmptySet
      <3> QED
        BY <3>3
    <2>5. PICK r \in 1 .. yielded : Key(r) = k
      BY <2>4 DEF ReadKeys, Key
    <2>6. place[r] = "migrated"
      BY <2>1, <2>3, <2>5 DEF At, Records
    <2> QED
      BY <2>5, <2>6 DEF WorldInv, ReportsFresh
  <1> QED
    BY <1>1, WorldInvariant, PTL

(* When one worker took all the occurrences of a key and all of them are   *)
(* migrated, the key holds what the last of them read.                     *)
THEOREM LastOccurrenceHolds == EndToEndSpec => []LastReadWins
  <1>1. IndInv /\ WorldInv => LastReadWins
    <2> SUFFICES ASSUME IndInv, WorldInv, NEW k \in Keys, Occurrences(k) # {},
                        \A r \in Occurrences(k) : place[r] = "migrated" /\
                            \A q \in Occurrences(k) : by[r] = by[q]
                 PROVE  \E r \in Occurrences(k) :
                            (\A q \in Occurrences(k) : q <= r) /\ Stored(k) = read[r].version
      BY DEF LastReadWins
    <2>1. yielded \in Nat /\ Occurrences(k) \in SUBSET (0 .. yielded)
          /\ \A r \in Occurrences(k) : r \in Records
      BY ConstantsAssumption DEF IndInv, TypeOK, Occurrences, Records
    <2>2. PICK r \in Occurrences(k) : \A q \in Occurrences(k) : q <= r
      BY <2>1, GreatestElement
    <2>3. PICK w \in Workers : by[r] = w
      BY <2>1, <2>2 DEF WorldInv, TakersKnown, Taken
    <2>4. OnlyTaker(w, k)
      BY <2>2, <2>3 DEF OnlyTaker
    <2>5. Settled(w, k) = Occurrences(k) /\ Settled(w, k) \subseteq Successes(w, k)
      BY DEF Settled, Successes, Outcomes
    <2>6. Unsent(w, k)
      <3> SUFFICES ASSUME NEW i \in DOMAIN codes[w], Key(buffer[w][i]) = k PROVE FALSE
        BY DEF Unsent
      <3>1. i \in DOMAIN buffer[w]
        BY Buffered DEF WorldInv, CodesOK, LastSlots
      <3>2. buffer[w][i] \in Occurrences(k) /\ place[buffer[w][i]] = w
        BY <3>1, Buffered DEF Occurrences, Key
      <3>3. w # "migrated"
        BY WorkerIsNoPlace DEF Places, Outcomes
      <3> QED
        BY <3>2, <3>3
    <2>7. LastHolds(w, k)
      BY DEF WorldInv, LastHold
    <2> QED
      BY <2>2, <2>4, <2>5, <2>6, <2>7 DEF LastHolds
  <1> QED
    BY <1>1, WorldInvariant, PTL
=============================================================================
