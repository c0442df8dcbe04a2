----------------------------- MODULE TtlPolicy -----------------------------
(***************************************************************************)
(* How the expiry of a Redis key reaches Aerospike (converters/base.py).   *)
(*                                                                         *)
(* The source reads the remaining time of a key (PTTL, milliseconds), the  *)
(* record waits in the queue, a worker thread turns the time into seconds  *)
(* with the one TtlPolicy that all converters share, the record waits for  *)
(* its batch, and the server counts the seconds from when it is written.   *)
(* Each thread carries one record at a time.                               *)
(***************************************************************************)
EXTENDS Integers, FiniteSets

CONSTANTS
    Threads,      \* the workers
    Modes,        \* the TTL overflow policies to consider
    MaxTtls,      \* the values of max_ttl to consider, 0 for no boundary
    MaxRealTtl,   \* _MAX_REAL_TTL_S; the three numbers above it are reserved
    PTTLs,        \* the answers of PTTL that are not negative
    NoTtl,        \* ttl_ms is None
    Delays,       \* by how much time may pass at once
    MaxTime       \* bound of the model: time passes up to here

ASSUME TtlAssumption ==
    /\ Modes \subseteq {"reject", "clamp", "never_expire"}
    /\ MaxTtls \subseteq Nat
    /\ MaxRealTtl \in Nat \ {0}
    /\ PTTLs \subseteq Nat
    /\ NoTtl \notin Int
    /\ Delays \subseteq Nat
    /\ MaxTime \in Nat

\* The largest unsigned number of 32 bits, in the program.
NeverExpire == MaxRealTtl + 3

VARIABLES
    mode, maxTtl,   \* the policy's configuration
    warned,         \* TtlPolicy._warned
    logged,         \* how many times the warning was logged
    now,            \* the time, in milliseconds
    pc,             \* pc[t]: where t is with its record
    ttl,            \* ttl[t]: ttl_ms of the record
    readAt,         \* readAt[t]: when the source read it
    ttlS,           \* ttlS[t]: what to_ttl returned, the record's ttl_s
    handled         \* some call of _handle_overflow has ended

config == <<mode, maxTtl>>
vars == <<config, warned, logged, now, pc, ttl, readAt, ttlS, handled>>

Init ==
    /\ mode \in Modes
    /\ maxTtl \in MaxTtls
    /\ warned = FALSE
    /\ logged = 0
    /\ now = 0
    /\ pc = [t \in Threads |-> "idle"]
    /\ ttl = [t \in Threads |-> NoTtl]
    /\ readAt = [t \in Threads |-> 0]
    /\ ttlS = [t \in Threads |-> 0]
    /\ handled = FALSE

-----------------------------------------------------------------------------
(* The policy *)

\* Mutants of Seconds: milliseconds are rounded down; zero stays zero.
SecondsFloor(ms) == IF ms < 1000 THEN 1 ELSE ms \div 1000
SecondsOrZero(ms) == (ms + 999) \div 1000

\* Seconds of a time in milliseconds, rounded up, at least one.
Seconds(ms) == IF ms = 0 THEN 1 ELSE (ms + 999) \div 1000

\* Mutant of Overflows: the boundary itself is refused.
OverflowsAtBoundary(ms) == maxTtl # 0 /\ Seconds(ms) >= maxTtl

\* The time is beyond max_ttl; a max_ttl of zero is no boundary.
Overflows(ms) == maxTtl # 0 /\ Seconds(ms) > maxTtl

\* Mutant of Unbounded: the result is not kept below the reserved numbers.
UnboundedRaw(ms) == Seconds(ms)

\* What to_ttl returns for a time within the boundary.
Unbounded(ms) == IF Seconds(ms) > MaxRealTtl THEN MaxRealTtl ELSE Seconds(ms)

\* What _handle_overflow returns, if it does.
OverflowTtl == IF mode = "never_expire" THEN NeverExpire ELSE maxTtl

-----------------------------------------------------------------------------
(* The threads *)

\* The source reads a key; its TTL belongs to the record from here on.
Read(t) ==
    /\ pc[t] = "idle"
    /\ now < MaxTime
    /\ \E ms \in PTTLs \cup {NoTtl} : ttl' = [ttl EXCEPT ![t] = ms]
    /\ readAt' = [readAt EXCEPT ![t] = now]
    /\ pc' = [pc EXCEPT ![t] = "queued"]
    /\ UNCHANGED <<config, warned, logged, now, ttlS, handled>>

\* The record has an expiry, and it is beyond max_ttl.
TooLong(t) == ttl[t] # NoTtl /\ Overflows(ttl[t])

\* to_ttl, when it gets by without _handle_overflow.
ToTtl(t) ==
    /\ pc[t] = "queued"
    /\ ~TooLong(t)
    /\ ttlS' = [ttlS EXCEPT ![t] = IF ttl[t] = NoTtl THEN NeverExpire ELSE Unbounded(ttl[t])]
    /\ pc' = [pc EXCEPT ![t] = "ready"]
    /\ UNCHANGED <<config, warned, logged, now, ttl, readAt, handled>>

\* Mutants of WarnOnce: the flag is tested the wrong way round; it is tested and
\* never set.
WarnInverted(t) ==
    /\ pc' = [pc EXCEPT ![t] = IF warned THEN "log" ELSE "overflow"]
    /\ warned' = TRUE

WarnAlways(t) ==
    /\ pc' = [pc EXCEPT ![t] = IF warned THEN "overflow" ELSE "log"]
    /\ UNCHANGED warned

\* _warn_once, up to the end of its locked block.
WarnOnce(t) ==
    /\ pc' = [pc EXCEPT ![t] = IF warned THEN "overflow" ELSE "log"]
    /\ warned' = TRUE

\* to_ttl calls _handle_overflow, which warns first in every mode.
HandleOverflow(t) ==
    /\ pc[t] = "queued"
    /\ TooLong(t)
    /\ WarnOnce(t)
    /\ UNCHANGED <<config, logged, now, ttl, readAt, ttlS, handled>>

\* The warning is logged outside the lock.
Log(t) ==
    /\ pc[t] = "log"
    /\ logged' = logged + 1
    /\ pc' = [pc EXCEPT ![t] = "overflow"]
    /\ UNCHANGED <<config, warned, now, ttl, readAt, ttlS, handled>>

\* TtlTooLongError: the record is a conversion error and is not written.
Reject(t) ==
    /\ pc[t] = "overflow"
    /\ mode = "reject"
    /\ handled' = TRUE
    /\ ttl' = [ttl EXCEPT ![t] = NoTtl]
    /\ readAt' = [readAt EXCEPT ![t] = 0]
    /\ pc' = [pc EXCEPT ![t] = "idle"]
    /\ UNCHANGED <<config, warned, logged, now, ttlS>>

\* _handle_overflow returns.
Overflow(t) ==
    /\ pc[t] = "overflow"
    /\ mode # "reject"
    /\ handled' = TRUE
    /\ ttlS' = [ttlS EXCEPT ![t] = OverflowTtl]
    /\ pc' = [pc EXCEPT ![t] = "ready"]
    /\ UNCHANGED <<config, warned, logged, now, ttl, readAt>>

\* The sink writes the record with its ttl_s, and the server starts counting.
Write(t) ==
    /\ pc[t] = "ready"
    /\ ttl' = [ttl EXCEPT ![t] = NoTtl]
    /\ readAt' = [readAt EXCEPT ![t] = 0]
    /\ ttlS' = [ttlS EXCEPT ![t] = 0]
    /\ pc' = [pc EXCEPT ![t] = "idle"]
    /\ UNCHANGED <<config, warned, logged, now, handled>>

\* Time passes while records are queued, buffered or held up by a limiter.
Pass ==
    /\ \E d \in Delays : now' = now + d /\ now' <= MaxTime
    /\ UNCHANGED <<config, warned, logged, pc, ttl, readAt, ttlS, handled>>

\* The bound is reached and no record is under way.
Over ==
    /\ now >= MaxTime
    /\ \A t \in Threads : pc[t] = "idle"
    /\ UNCHANGED vars

Step(t) ==
    \/ Read(t) \/ ToTtl(t) \/ HandleOverflow(t) \/ Log(t)
    \/ Reject(t) \/ Overflow(t) \/ Write(t)

Next == (\E t \in Threads : Step(t)) \/ Pass \/ Over

Spec == Init /\ [][Next]_vars

\* A thread that can go on goes on: nothing in it waits for another thread.
FairSpec == Spec /\ \A t \in Threads : WF_vars(Step(t))

-----------------------------------------------------------------------------
(* Properties *)

Loggers == {t \in Threads : pc[t] = "log"}

\* Type invariant.
TypeOK ==
    /\ mode \in Modes /\ maxTtl \in MaxTtls
    /\ warned \in BOOLEAN /\ logged \in Nat /\ handled \in BOOLEAN
    /\ now \in Nat
    /\ pc \in [Threads -> {"idle", "queued", "log", "overflow", "ready"}]
    /\ ttl \in [Threads -> PTTLs \cup {NoTtl}]
    /\ readAt \in [Threads -> Nat]
    /\ ttlS \in [Threads -> Nat]
    /\ \A t \in Threads : readAt[t] <= now
    /\ \A t \in Threads : pc[t] = "ready" <=> ttlS[t] # 0

\* "For the non-rejecting modes a single warning is emitted per run
\* (thread-safe)" (TtlPolicy); _handle_overflow warns when it rejects as well, so
\* this is for every mode: once one thread has found an overflow, the warning was
\* logged once or one thread is about to log it, and no call gets by
\* _handle_overflow before that.
WarnedOnce ==
    /\ IF warned THEN \/ logged = 1 /\ Loggers = {}
                      \/ logged = 0 /\ \E t \in Threads : Loggers = {t}
       ELSE logged = 0 /\ Loggers = {}
    /\ handled \/ (\E t \in Threads : pc[t] = "overflow") => warned

\* "Clamp real expiries below them so an enormous Redis TTL can never collide
\* with a sentinel" (base.py): a record to be written carries a number of
\* seconds the server takes as one, unless the policy is to drop the expiry of
\* such a record; only a key without expiry is otherwise never-expire.
ExpiryKept ==
    \A t \in Threads : pc[t] = "ready" =>
        IF ttl[t] = NoTtl THEN ttlS[t] = NeverExpire
        ELSE \/ ttlS[t] \in 1 .. MaxRealTtl
             \/ mode = "never_expire" /\ Overflows(ttl[t]) /\ ttlS[t] = NeverExpire

\* No record is sent with an expiry the namespace would refuse, and the
\* boundary itself is still allowed.
BoundaryKept ==
    \A t \in Threads : maxTtl # 0 /\ ttl[t] # NoTtl /\ pc[t] # "idle" =>
        /\ pc[t] = "ready" => ttlS[t] <= maxTtl \/ mode = "never_expire"
        /\ pc[t] \in {"log", "overflow"} => ttl[t] > 1000 * maxTtl

\* However long the record was under way, it does not expire in Aerospike
\* before its time in Redis, and not later than the time it was under way plus
\* one second; only the limits may cut it short.
ExpiryFollows ==
    \A t \in Threads :
        /\ pc[t] = "ready" /\ ttl[t] # NoTtl
        /\ ~Overflows(ttl[t]) /\ ttl[t] <= 1000 * MaxRealTtl
        => LET inRedis == readAt[t] + ttl[t]
               inAerospike == now + 1000 * ttlS[t]
           IN  /\ inAerospike >= inRedis
               /\ inAerospike - inRedis <= (now - readAt[t]) + 1000

\* An overflow is reported in the end, whatever thread was to log it.
OverflowReported == handled ~> logged = 1
============================================================================
