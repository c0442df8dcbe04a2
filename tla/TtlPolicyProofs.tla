-------------------------- MODULE TtlPolicyProofs --------------------------
(***************************************************************************)
(* Proofs about TtlPolicy, for any number of threads and any TTLs.         *)
(***************************************************************************)
EXTENDS TtlPolicy, TLAPS

-----------------------------------------------------------------------------
(* The arithmetic of the conversion *)

\* Seconds rounds up by less than a second, except that zero becomes one.
LEMMA SecondsRoundUp ==
    ASSUME NEW ms \in Nat
    PROVE  /\ Seconds(ms) \in Nat \ {0}
           /\ 1000 * Seconds(ms) >= ms
           /\ 1000 * Seconds(ms) <= ms + 1000
BY DEF Seconds

\* A time overflows when its milliseconds exceed the boundary.
LEMMA OverflowIsBeyond ==
    ASSUME NEW ms \in Nat, maxTtl \in Nat, Overflows(ms)
    PROVE  maxTtl # 0 /\ ms > 1000 * maxTtl
BY DEF Overflows, Seconds

\* What to_ttl returns within the limits.
LEMMA UnboundedInRange ==
    ASSUME NEW ms \in Nat
    PROVE  /\ Unbounded(ms) \in 1 .. MaxRealTtl
           /\ Unbounded(ms) <= Seconds(ms)
           /\ ms <= 1000 * MaxRealTtl => Unbounded(ms) = Seconds(ms)
BY SecondsRoundUp, TtlAssumption DEF Unbounded, Seconds

-----------------------------------------------------------------------------
(* The inductive invariant *)

\* What a thread knows of its record: in _handle_overflow it is too long, and
\* once it is ready its seconds are what the policy makes of its milliseconds.
Carried(t) ==
    /\ pc[t] \in {"log", "overflow"} => TooLong(t)
    /\ pc[t] = "ready" =>
           ttlS[t] = IF ttl[t] = NoTtl THEN NeverExpire
                     ELSE IF Overflows(ttl[t]) THEN OverflowTtl
                     ELSE Unbounded(ttl[t])

Carriage == TypeOK /\ \A t \in Threads : Carried(t)

\* A thread's record keeps its expiry through the queue and the policy.
LEMMA CarriageInvariant == Spec => []Carriage
<1>1. Init => Carriage
  <2> SUFFICES ASSUME Init PROVE Carriage
    OBVIOUS
  <2>1. TypeOK
    <3>1. /\ warned \in BOOLEAN /\ handled \in BOOLEAN
          /\ mode \in Modes /\ maxTtl \in MaxTtls
      BY DEF Init
    <3>2. logged \in Nat /\ now \in Nat
      BY DEF Init
    <3>3. /\ pc \in [Threads -> {"idle", "queued", "log", "overflow", "ready"}]
          /\ ttl \in [Threads -> PTTLs \cup {NoTtl}]
          /\ readAt \in [Threads -> Nat]
          /\ ttlS \in [Threads -> Nat]
      BY DEF Init
    <3>4. ASSUME NEW t \in Threads PROVE readAt[t] <= now /\ (pc[t] = "ready" <=> ttlS[t] # 0)
      BY DEF Init
    <3>. QED BY <3>1, <3>2, <3>3, <3>4 DEF TypeOK
  <2>2. ASSUME NEW t \in Threads PROVE Carried(t)
    BY DEF Init, Carried
  <2>. QED BY <2>1, <2>2 DEF Carriage
<1>2. Carriage /\ [Next]_vars => Carriage'
  <2> SUFFICES ASSUME Carriage, [Next]_vars
               PROVE  Carriage'
    OBVIOUS
  <2> USE TtlAssumption DEF Carriage, TypeOK, Carried, TooLong, Overflows, config
  <2>1. ASSUME NEW t \in Threads, Read(t) PROVE Carriage'
    BY <2>1 DEF Read, OverflowTtl, Unbounded, Seconds
  <2>2. ASSUME NEW t \in Threads, ToTtl(t) PROVE Carriage'
    <3>1. ttl[t] # NoTtl => ttl[t] \in Nat
      OBVIOUS
    <3>2. ttl[t] # NoTtl => Unbounded(ttl[t]) \in Nat \ {0}
      BY <3>1, UnboundedInRange
    <3>3. NeverExpire \in Nat \ {0}
      BY DEF NeverExpire
    <3>4. TypeOK'
      BY <2>2, <3>2, <3>3 DEF ToTtl
    <3>5. ASSUME NEW u \in Threads PROVE Carried(u)'
      BY <2>2, <3>2, <3>3 DEF ToTtl, OverflowTtl, NeverExpire, Unbounded, Seconds
    <3>. QED BY <3>4, <3>5
  <2>3. ASSUME NEW t \in Threads, HandleOverflow(t) PROVE Carriage'
    BY <2>3 DEF HandleOverflow, WarnOnce, OverflowTtl, Unbounded, Seconds
  <2>4. ASSUME NEW t \in Threads, Log(t) PROVE Carriage'
    BY <2>4 DEF Log, OverflowTtl, Unbounded, Seconds
  <2>5. ASSUME NEW t \in Threads, Reject(t) PROVE Carriage'
    BY <2>5 DEF Reject, OverflowTtl, Unbounded, Seconds
  <2>6. ASSUME NEW t \in Threads, Overflow(t) PROVE Carriage'
    BY <2>6 DEF Overflow, OverflowTtl, NeverExpire, Unbounded, Seconds
  <2>7. ASSUME NEW t \in Threads, Write(t) PROVE Carriage'
    BY <2>7 DEF Write, OverflowTtl, Unbounded, Seconds
  <2>8. CASE Pass
    BY <2>8 DEF Pass, OverflowTtl, Unbounded, Seconds
  <2>9. CASE Over \/ UNCHANGED vars
    BY <2>9 DEF Over, vars, OverflowTtl, Unbounded, Seconds
  <2>. QED BY <2>1, <2>2, <2>3, <2>4, <2>5, <2>6, <2>7, <2>8, <2>9 DEF Next, Step
<1>. QED BY <1>1, <1>2, PTL DEF Spec

-----------------------------------------------------------------------------
(* What follows from it *)

\* Type correctness of the shared policy and of the threads' records.
THEOREM TypeCorrect == Spec => []TypeOK
<1>1. Carriage => TypeOK
  BY DEF Carriage
<1>. QED BY <1>1, CarriageInvariant, PTL

\* If max_ttl is itself a real TTL, to_ttl never turns an expiry into one of
\* the reserved numbers, and never gives an expiry to a key that has none.
THEOREM NoSentinelCollision ==
    ASSUME \A m \in MaxTtls : m <= MaxRealTtl
    PROVE  Spec => []ExpiryKept
<1>1. ASSUME Carriage PROVE ExpiryKept
  <2> SUFFICES ASSUME NEW t \in Threads, pc[t] = "ready", ttl[t] # NoTtl
               PROVE  \/ ttlS[t] \in 1 .. MaxRealTtl
                      \/ mode = "never_expire" /\ Overflows(ttl[t]) /\ ttlS[t] = NeverExpire
    BY <1>1 DEF ExpiryKept, Carriage, Carried
  <2>1. ttl[t] \in Nat /\ maxTtl \in Nat /\ maxTtl <= MaxRealTtl
    BY <1>1, TtlAssumption DEF Carriage, TypeOK
  <2>2. CASE ~Overflows(ttl[t])
    BY <1>1, <2>1, <2>2, UnboundedInRange DEF Carriage, Carried
  <2>3. CASE Overflows(ttl[t]) /\ mode = "never_expire"
    BY <1>1, <2>3 DEF Carriage, Carried, OverflowTtl
  <2>4. CASE Overflows(ttl[t]) /\ mode # "never_expire"
    <3>1. ttlS[t] = maxTtl
      BY <1>1, <2>4 DEF Carriage, Carried, OverflowTtl
    <3>2. maxTtl # 0
      BY <2>1, <2>4, OverflowIsBeyond
    <3>. QED BY <2>1, <3>1, <3>2, TtlAssumption
  <2>. QED BY <2>2, <2>3, <2>4
<1>. QED BY <1>1, CarriageInvariant, PTL

\* No record is sent with an expiry beyond max_ttl, and none within it is
\* refused.
THEOREM BoundaryRespected == Spec => []BoundaryKept
<1>1. ASSUME Carriage PROVE BoundaryKept
  <2> SUFFICES ASSUME NEW t \in Threads, maxTtl # 0, ttl[t] # NoTtl
               PROVE  /\ pc[t] = "ready" => ttlS[t] <= maxTtl \/ mode = "never_expire"
                      /\ pc[t] \in {"log", "overflow"} => ttl[t] > 1000 * maxTtl
    BY DEF BoundaryKept
  <2>1. ttl[t] \in Nat /\ maxTtl \in Nat
    BY <1>1, TtlAssumption DEF Carriage, TypeOK
  <2>2. ASSUME pc[t] \in {"log", "overflow"} PROVE ttl[t] > 1000 * maxTtl
    BY <1>1, <2>1, <2>2, OverflowIsBeyond DEF Carriage, Carried, TooLong
  <2>3. ASSUME pc[t] = "ready", ~Overflows(ttl[t]) PROVE ttlS[t] <= maxTtl
    <3>1. ttlS[t] = Unbounded(ttl[t])
      BY <1>1, <2>3 DEF Carriage, Carried
    <3>2. Seconds(ttl[t]) <= maxTtl
      BY <2>1, <2>3, SecondsRoundUp DEF Overflows
    <3>. QED BY <2>1, <3>1, <3>2, UnboundedInRange, SecondsRoundUp
  <2>4. ASSUME pc[t] = "ready", Overflows(ttl[t]), mode # "never_expire"
        PROVE  ttlS[t] <= maxTtl
    BY <1>1, <2>1, <2>4 DEF Carriage, Carried, OverflowTtl
  <2>. QED BY <2>2, <2>3, <2>4
<1>. QED BY <1>1, CarriageInvariant, PTL

\* Whatever the delay between reading a key and writing its record, the record
\* expires no earlier than the key, and at most that delay plus one second
\* later.
THEOREM ExpiryNeverEarly == Spec => []ExpiryFollows
<1>1. ASSUME Carriage PROVE ExpiryFollows
  <2> SUFFICES ASSUME NEW t \in Threads, pc[t] = "ready", ttl[t] # NoTtl,
                      ~Overflows(ttl[t]), ttl[t] <= 1000 * MaxRealTtl
               PROVE  /\ now + 1000 * ttlS[t] >= readAt[t] + ttl[t]
                      /\ (now + 1000 * ttlS[t]) - (readAt[t] + ttl[t])
                            <= (now - readAt[t]) + 1000
    BY DEF ExpiryFollows
  <2>1. /\ ttl[t] \in Nat /\ now \in Nat /\ readAt[t] \in Nat /\ readAt[t] <= now
        /\ ttlS[t] \in Nat
    BY <1>1, TtlAssumption DEF Carriage, TypeOK
  <2>2. ttlS[t] = Seconds(ttl[t])
    BY <1>1, <2>1, UnboundedInRange DEF Carriage, Carried
  <2>3. 1000 * ttlS[t] >= ttl[t] /\ 1000 * ttlS[t] <= ttl[t] + 1000
    BY <2>1, <2>2, SecondsRoundUp
  <2>. QED BY <2>1, <2>3
<1>. QED BY <1>1, CarriageInvariant, PTL

\* The warning about overflows is logged once, however many threads meet one
\* at the same time.
THEOREM WarningOnce == Spec => []WarnedOnce
<1>1. Init => WarnedOnce
  BY DEF Init, WarnedOnce, Loggers
<1>2. TypeOK /\ TypeOK' /\ WarnedOnce /\ [Next]_vars => WarnedOnce'
  <2> SUFFICES ASSUME TypeOK, TypeOK', WarnedOnce, [Next]_vars
               PROVE  WarnedOnce'
    OBVIOUS
  <2> USE DEF WarnedOnce, Loggers
  <2>1. ASSUME NEW t \in Threads, Read(t) PROVE WarnedOnce'
    BY <2>1 DEF Read, TypeOK
  <2>2. ASSUME NEW t \in Threads, ToTtl(t) PROVE WarnedOnce'
    BY <2>2 DEF ToTtl, TypeOK
  <2>3. ASSUME NEW t \in Threads, HandleOverflow(t) PROVE WarnedOnce'
    BY <2>3 DEF HandleOverflow, WarnOnce, TypeOK
  <2>4. ASSUME NEW t \in Threads, Log(t) PROVE WarnedOnce'
    BY <2>4 DEF Log, TypeOK
  <2>5. ASSUME NEW t \in Threads, Reject(t) PROVE WarnedOnce'
    BY <2>5 DEF Reject, TypeOK
  <2>6. ASSUME NEW t \in Threads, Overflow(t) PROVE WarnedOnce'
    BY <2>6 DEF Overflow, TypeOK
  <2>7. ASSUME NEW t \in Threads, Write(t) PROVE WarnedOnce'
    BY <2>7 DEF Write, TypeOK
  <2>8. CASE Pass \/ Over \/ UNCHANGED vars
    BY <2>8 DEF Pass, Over, vars
  <2>. QED BY <2>1, <2>2, <2>3, <2>4, <2>5, <2>6, <2>7, <2>8 DEF Next, Step
<1>. QED BY <1>1, <1>2, TypeCorrect, PTL DEF Spec
=============================================================================
