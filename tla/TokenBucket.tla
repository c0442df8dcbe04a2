---------------------------- MODULE TokenBucket ----------------------------
(***************************************************************************)
(* The rate limiter shared by the worker threads (ratelimit.py), and the   *)
(* burst Migrator gives it.                                                *)
(*                                                                         *)
(* Time is counted in units of 1/Rate second, so that the bucket refills   *)
(* by one token per unit and one second is Rate units; the rounding of     *)
(* floating-point numbers is left out.  What acquire does under its lock   *)
(* is one step; the sleep is not under the lock, and may last longer than  *)
(* asked for.  A bucket with a rate of zero or less is disabled: its       *)
(* acquire returns at once, and there is nothing to model.                 *)
(***************************************************************************)
EXTENDS Integers, FiniteSets

CONSTANTS
    Threads,         \* the callers
    Rate,            \* config.write_rate_limit, tokens per second
    WriteBatchSize,  \* Migrator._batch_size
    Requests,        \* numbers of tokens a caller may ask for
    MaxTime          \* bound of the model: no call starts at or after it

ASSUME TokenBucketAssumption ==
    /\ IsFiniteSet(Threads)
    /\ Rate \in Nat \ {0}
    /\ WriteBatchSize \in Nat \ {0}
    /\ Requests \subseteq Nat \ {0}
    /\ MaxTime \in Nat

VARIABLES
    now,         \* time.monotonic()
    balance,     \* TokenBucket._tokens
    last,        \* TokenBucket._last
    pc,          \* pc[t]: "idle" or "sleeping"
    asked,       \* asked[t]: the tokens t is sleeping for
    deadline,    \* deadline[t]: when its sleep ends at the earliest
    reserved,    \* all the tokens reserved so far
    upto,        \* upto[t]: reserved, just after the reservation of t
    released,    \* all the tokens of the calls that returned
    start, base  \* an observer's stopwatch: when it was started, and reserved then

bucketVars == <<balance, last>>
observerVars == <<start, base>>
vars == <<now, bucketVars, pc, asked, deadline, reserved, upto, released, observerVars>>

Larger(a, b) == IF a >= b THEN a ELSE b

Smaller(a, b) == IF a <= b THEN a ELSE b

\* Migrator widens the burst of the write limiter to fit a whole batch.
Capacity == Larger(Rate, WriteBatchSize)

Init ==
    /\ now = 0
    /\ balance = Capacity
    /\ last = 0
    /\ pc = [t \in Threads |-> "idle"]
    /\ asked = [t \in Threads |-> 0]
    /\ deadline = [t \in Threads |-> 0]
    /\ reserved = 0
    /\ upto = [t \in Threads |-> 0]
    /\ released = 0
    /\ start = 0
    /\ base = 0

\* Mutants of Refilled: idle time builds up a burst without limit; elapsed
\* time is forgotten.
RefilledUncapped == balance + (now - last)
RefilledNever == Smaller(Capacity, balance)

\* The balance after the lazy refill.
Refilled == Smaller(Capacity, balance + (now - last))

\* Mutant of Remaining: the balance never goes negative.
RemainingClipped(n) == Larger(0, Refilled - n)

\* The balance once n tokens are reserved; what is missing is a debt that the
\* next callers wait for as well.
Remaining(n) == Refilled - n

\* How long a caller of n tokens has to sleep.
Wait(n) == IF Refilled >= n THEN 0 ELSE n - Refilled

\* acquire(n), up to the end of the locked block; a wait of zero is a sleep
\* that may end at once.
Reserve(t, n) ==
    /\ pc[t] = "idle"
    /\ now < MaxTime
    /\ balance' = Remaining(n)
    /\ last' = now
    /\ reserved' = reserved + n
    /\ upto' = [upto EXCEPT ![t] = reserved']
    /\ asked' = [asked EXCEPT ![t] = n]
    /\ deadline' = [deadline EXCEPT ![t] = now + Wait(n)]
    /\ pc' = [pc EXCEPT ![t] = "sleeping"]
    /\ UNCHANGED <<now, released, observerVars>>

\* acquire returns.
Return(t) ==
    /\ pc[t] = "sleeping"
    /\ now >= deadline[t]
    /\ released' = released + asked[t]
    /\ pc' = [pc EXCEPT ![t] = "idle"]
    /\ asked' = [asked EXCEPT ![t] = 0]
    /\ deadline' = [deadline EXCEPT ![t] = 0]
    /\ upto' = [upto EXCEPT ![t] = 0]
    /\ UNCHANGED <<now, bucketVars, reserved, observerVars>>

AllIdle == \A t \in Threads : pc[t] = "idle"

Tick ==
    /\ now < MaxTime \/ \E t \in Threads : deadline[t] > now
    /\ now' = now + 1
    /\ UNCHANGED <<bucketVars, pc, asked, deadline, reserved, upto, released, observerVars>>

\* For the properties only: an observer starts a stopwatch between two calls.
Observe ==
    /\ AllIdle
    /\ start' = now
    /\ base' = reserved
    /\ UNCHANGED <<now, bucketVars, pc, asked, deadline, reserved, upto, released>>

Over == now >= MaxTime /\ AllIdle /\ UNCHANGED vars

Next ==
    \/ \E t \in Threads, n \in Requests : Reserve(t, n)
    \/ \E t \in Threads : Return(t)
    \/ Tick
    \/ Observe
    \/ Over

Spec == Init /\ [][Next]_vars

-----------------------------------------------------------------------------
(* Properties *)

Sleepers == {t \in Threads : pc[t] = "sleeping"}

\* Type invariant; the balance never exceeds the burst.
TypeOK ==
    /\ now \in Nat /\ last \in 0 .. now /\ start \in 0 .. now
    /\ balance \in Int /\ balance <= Capacity
    /\ pc \in [Threads -> {"idle", "sleeping"}]
    /\ asked \in [Threads -> Nat]
    /\ deadline \in [Threads -> Nat]
    /\ reserved \in Nat /\ released \in Nat /\ base \in Nat
    /\ upto \in [Threads -> Nat]

\* The aggregate rate holds over every span of time, for all callers together
\* and although they sleep outside the lock: from a moment at which nobody
\* waits on, no more than the burst plus one token per unit is let through.
RateRespected == released - base <= Capacity + (now - start)

\* The same of one caller: acquire returns only once the tokens reserved up to
\* and including its own fit the burst plus the time since the stopwatch.
NoEarlyReturn ==
    \A t \in Sleepers : upto[t] - base <= Capacity + (deadline[t] - start)

\* The tokens that somebody still waits for, numbered as they were reserved.
Outstanding ==
    {i \in 1 .. reserved : \E t \in Sleepers : upto[t] - asked[t] < i /\ i <= upto[t]}

\* Nobody is made to wait longer than the tokens ahead of it, its own
\* included, take to refill: the limiter does not run below its rate.
WaitBounded ==
    \A t \in Sleepers : deadline[t] - now <= Cardinality({i \in Outstanding : i <= upto[t]})
=============================================================================
