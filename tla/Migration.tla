----------------------------- MODULE Migration -----------------------------
(***************************************************************************)
(* What Migrator.run() promises its caller, whatever threads, queue and    *)
(* buffers it uses: each occurrence of a key that the source yields        *)
(* becomes pending once, gets exactly one outcome in MigrationStats        *)
(* (migrated, skipped or error) that is never revised, and the call ends   *)
(* only when nothing is pending.  It returns normally only when the whole  *)
(* source was read; an exception of the source is re-raised, after the     *)
(* occurrences read before it got their outcome.                           *)
(***************************************************************************)
EXTENDS Naturals

CONSTANT NumRecords      \* occurrences the source would yield, numbered in order

VARIABLES
    status,              \* status[r]: "unread", "pending" or an outcome
    result               \* "running", then how run() ended

vars == <<status, result>>

Records == 1 .. NumRecords

\* The three counters of MigrationStats a scanned record may end in.
Outcomes == {"migrated", "skipped", "errors"}

Init ==
    /\ status = [r \in Records |-> "unread"]
    /\ result = "running"

\* The producer reads the next occurrence; the source yields them in order.
Read(r) ==
    /\ result = "running"
    /\ status[r] = "unread"
    /\ \A q \in Records : q < r => status[q] # "unread"
    /\ status' = [status EXCEPT ![r] = "pending"]
    /\ UNCHANGED result

\* A worker counts the outcome of a pending occurrence.
Settle(r, outcome) ==
    /\ result = "running"
    /\ status[r] = "pending"
    /\ status' = [status EXCEPT ![r] = outcome]
    /\ UNCHANGED result

NothingPending == \A r \in Records : status[r] # "pending"

\* run() returns its statistics.
Return ==
    /\ result = "running"
    /\ NothingPending
    /\ \A r \in Records : status[r] # "unread"
    /\ result' = "returned"
    /\ UNCHANGED status

\* run() re-raises the exception that ended the scan.
Raise ==
    /\ result = "running"
    /\ NothingPending
    /\ result' = "raised"
    /\ UNCHANGED status

Next ==
    \/ \E r \in Records : Read(r)
    \/ \E r \in Records, o \in Outcomes : Settle(r, o)
    \/ Return
    \/ Raise

Spec == Init /\ [][Next]_vars
=============================================================================
