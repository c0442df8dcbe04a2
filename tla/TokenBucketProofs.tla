------------------------- MODULE TokenBucketProofs -------------------------
(***************************************************************************)
(* Proofs about TokenBucket for any number of callers, any rate and batch  *)
(* size.                                                                   *)
(***************************************************************************)
EXTENDS TokenBucket, FiniteSetTheorems, TLAPS

\* The burst is at least one token.
LEMMA CapacityType == Capacity \in Nat /\ Capacity >= 1
  BY TokenBucketAssumption DEF Capacity, Larger

\* A new bucket has the types.
LEMMA InitTypeOK == Init => TypeOK
  BY CapacityType DEF Init, TypeOK

(* The refill, the debt and the wait, as integers. *)
LEMMA ReserveArithmetic ==
  ASSUME TypeOK, NEW n \in Nat
  PROVE  /\ Refilled \in Int /\ Refilled <= Capacity /\ Refilled <= balance + (now - last)
         /\ Remaining(n) = Refilled - n
         /\ Wait(n) \in Nat /\ Wait(n) >= n - Refilled
  BY CapacityType DEF TypeOK, Refilled, Remaining, Wait, Smaller

\* Every call, return and tick keeps the types.
LEMMA NextTypeOK == TypeOK /\ [Next]_vars => TypeOK'
  <1> SUFFICES ASSUME TypeOK, [Next]_vars PROVE TypeOK'
    OBVIOUS
  <1> USE TokenBucketAssumption, CapacityType
  <1>1. ASSUME NEW t \in Threads, NEW n \in Requests, Reserve(t, n) PROVE TypeOK'
    <2>1. n \in Nat
      OBVIOUS
    <2>2. Remaining(n) \in Int /\ Remaining(n) <= Capacity /\ Wait(n) \in Nat
      BY <2>1, ReserveArithmetic
    <2> QED
      BY <1>1, <2>1, <2>2 DEF TypeOK, Reserve, observerVars
  <1>2. ASSUME NEW t \in Threads, Return(t) PROVE TypeOK'
    BY <1>2 DEF TypeOK, Return, bucketVars, observerVars
  <1>3. CASE Tick
    BY <1>3 DEF TypeOK, Tick, bucketVars, observerVars
  <1>4. CASE Observe
    BY <1>4 DEF TypeOK, Observe, bucketVars
  <1>5. CASE UNCHANGED vars
    BY <1>5 DEF TypeOK, vars, bucketVars, observerVars
  <1> QED
    BY <1>1, <1>2, <1>3, <1>4, <1>5 DEF Next, Over

(* The balance stays an integer no larger than the burst. *)
THEOREM TypeCorrect == Spec => []TypeOK
  BY InitTypeOK, NextTypeOK, PTL DEF Spec

(* What the refilled bucket still holds, and what was reserved since the    *)
(* stopwatch, never exceed the burst and the time that passed.              *)
Credit == Refilled + (reserved - base) <= Capacity + (now - start)

RateInv == TypeOK /\ Credit /\ NoEarlyReturn

\* A new bucket holds the burst, and nothing is reserved.
LEMMA InitRate == Init => RateInv
  BY InitTypeOK, CapacityType
     DEF Init, RateInv, Credit, Refilled, Smaller, NoEarlyReturn, Sleepers

\* A bucket that gains at most one token in a unit of time keeps within the
\* bound.
LEMMA OneUnitLater ==
  ASSUME NEW r \in Int, NEW q \in Int, NEW c \in Int, NEW x \in Int, NEW m \in Int,
         NEW s \in Int, q <= r + 1, r + x <= c + (m - s)
  PROVE  q + x <= c + ((m + 1) - s)
  OBVIOUS

\* Every call, return and tick keeps the balance and the reservations within
\* the burst plus the elapsed time.
LEMMA NextRate == RateInv /\ [Next]_vars => RateInv'
  <1> SUFFICES ASSUME TypeOK, Credit, NoEarlyReturn, [Next]_vars
               PROVE  Credit' /\ NoEarlyReturn'
    BY NextTypeOK DEF RateInv
  <1> USE TokenBucketAssumption, CapacityType
  <1>1. ASSUME NEW t \in Threads, NEW n \in Requests, Reserve(t, n)
        PROVE  Credit' /\ NoEarlyReturn'
    <2>1. /\ n \in Nat /\ Refilled \in Int /\ Refilled <= Capacity
          /\ balance' = Refilled - n
          /\ Wait(n) \in Nat /\ Wait(n) >= n - Refilled
      BY <1>1, ReserveArithmetic DEF Reserve
    <2>2. /\ now' = now /\ last' = now /\ reserved' = reserved + n
          /\ start' = start /\ base' = base
      BY <1>1 DEF Reserve, observerVars
    <2>3. Refilled' = Refilled - n
      BY <2>1, <2>2 DEF TypeOK, Refilled, Smaller
    <2>4. Credit'
      BY <2>1, <2>2, <2>3 DEF TypeOK, Credit
    <2>5. upto'[t] - base <= Capacity + (deadline'[t] - start)
      <3>1. upto'[t] = reserved + n /\ deadline'[t] = now + Wait(n)
        BY <1>1 DEF TypeOK, Reserve
      <3> QED
        BY <2>1, <3>1 DEF TypeOK, Credit
    <2>6. \A s \in Threads \ {t} : upto'[s] = upto[s] /\ deadline'[s] = deadline[s]
                                   /\ pc'[s] = pc[s]
      BY <1>1 DEF TypeOK, Reserve
    <2>7. NoEarlyReturn'
      BY <2>2, <2>5, <2>6 DEF NoEarlyReturn, Sleepers
    <2> QED
      BY <2>4, <2>7
  <1>2. ASSUME NEW t \in Threads, Return(t) PROVE Credit' /\ NoEarlyReturn'
    <2>1. Credit'
      BY <1>2 DEF Return, Credit, Refilled, bucketVars, observerVars
    <2>2. NoEarlyReturn'
      BY <1>2 DEF TypeOK, Return, NoEarlyReturn, Sleepers, observerVars
    <2> QED
      BY <2>1, <2>2
  <1>3. CASE Tick
    <2>1. Refilled' <= Refilled + 1 /\ Refilled \in Int /\ Refilled' \in Int
      BY <1>3 DEF TypeOK, Tick, Refilled, Smaller, bucketVars
    <2>2. Credit'
      <3>1. now' = now + 1 /\ reserved' = reserved /\ base' = base /\ start' = start
        BY <1>3 DEF Tick, observerVars
      <3>2. Refilled + (reserved - base) <= Capacity + (now - start)
        BY DEF Credit
      <3>3. now \in Int /\ reserved - base \in Int /\ start \in Int /\ Capacity \in Int
        BY DEF TypeOK
      <3>4. Refilled' + (reserved - base) <= Capacity + ((now + 1) - start)
        BY <2>1, <3>2, <3>3, OneUnitLater
      <3> QED
        BY <3>1, <3>4 DEF Credit
    <2>3. NoEarlyReturn'
      BY <1>3 DEF Tick, NoEarlyReturn, Sleepers, observerVars
    <2> QED
      BY <2>2, <2>3
  <1>4. CASE Observe
    <2>1. Sleepers' = {}
      BY <1>4 DEF Observe, AllIdle, Sleepers
    <2>2. Refilled \in Int /\ Refilled <= Capacity /\ Refilled' = Refilled
      BY <1>4 DEF TypeOK, Observe, Refilled, Smaller, bucketVars
    <2>3. Credit'
      BY <1>4, <2>2 DEF TypeOK, Observe, Credit
    <2> QED
      BY <2>1, <2>3 DEF NoEarlyReturn
  <1>5. CASE UNCHANGED vars
    BY <1>5 DEF Credit, NoEarlyReturn, Sleepers, Refilled, vars, bucketVars, observerVars
  <1> QED
    BY <1>1, <1>2, <1>3, <1>4, <1>5 DEF Next, Over

(* Whatever the callers do, none of them gets through before the tokens    *)
(* reserved so far fit the burst and the time since any quiet moment.      *)
THEOREM NobodyEarly == Spec => []NoEarlyReturn
  <1>1. RateInv => NoEarlyReturn
    BY DEF RateInv
  <1> QED
    BY InitRate, NextRate, <1>1, PTL DEF Spec

-----------------------------------------------------------------------------
(* The aggregate rate.  What is still reserved and not yet released is the  *)
(* set of the tokens the sleepers wait for, so sums over the callers become *)
(* cardinalities.                                                           *)

\* The tokens of one caller.
Own(t) == (upto[t] - asked[t] + 1) .. upto[t]

\* The callers wait for tokens of their own: at least one each, all reserved,
\* and none for two of them.
Disjoint ==
    /\ \A t \in Sleepers : asked[t] >= 1 /\ asked[t] <= upto[t] /\ upto[t] <= reserved
    /\ \A t, s \in Sleepers : t # s => upto[t] <= upto[s] - asked[s] \/ upto[s] <= upto[t] - asked[t]

\* Every token reserved is released or waited for.
Counted == Cardinality(Outstanding) = reserved - released

\* The debt of the bucket is covered: each token that the refill has not reached
\* yet has a caller who sleeps until it will have.
DebtCovered ==
    /\ reserved + Refilled >= 0
    /\ \A i \in 1 .. reserved : i > reserved + Refilled =>
           \E t \in Sleepers : i \in Own(t) /\ deadline[t] - now >= i - (reserved + Refilled)

\* Nobody sleeps longer than until the refill reaches its last token.
WaitFits ==
    \A t \in Sleepers : deadline[t] > now => deadline[t] - now <= upto[t] - (reserved + Refilled)

DebtInv == TypeOK /\ Disjoint /\ Counted /\ DebtCovered /\ WaitFits

\* Outstanding tokens have an owner among the sleepers.
LEMMA OutstandingOwned ==
  ASSUME TypeOK
  PROVE  /\ Outstanding = {i \in 1 .. reserved : \E t \in Sleepers : i \in Own(t)}
         /\ IsFiniteSet(Outstanding)
         /\ Cardinality(Outstanding) \in Nat
  <1>1. \A t \in Sleepers : upto[t] \in Nat /\ asked[t] \in Nat
    BY DEF TypeOK, Sleepers
  <1>2. Outstanding = {i \in 1 .. reserved : \E t \in Sleepers : i \in Own(t)}
    BY <1>1 DEF TypeOK, Outstanding, Own
  <1>3. IsFiniteSet(1 .. reserved) /\ Outstanding \in SUBSET (1 .. reserved)
    BY FS_Interval DEF TypeOK, Outstanding
  <1>4. IsFiniteSet(Outstanding)
    BY <1>3, FS_Subset
  <1> QED
    BY <1>2, <1>4, FS_CardinalityType

\* The numbers after a up to b are b - a many.
LEMMA IntervalSize ==
  ASSUME NEW a \in Int, NEW b \in Int, a <= b
  PROVE  IsFiniteSet((a + 1) .. b) /\ Cardinality((a + 1) .. b) = b - a
  <1>1. a + 1 \in Int
    OBVIOUS
  <1>2. IsFiniteSet((a + 1) .. b) /\ Cardinality((a + 1) .. b) = IF a + 1 > b THEN 0 ELSE b - (a + 1) + 1
    BY <1>1, FS_Interval
  <1>3. (IF a + 1 > b THEN 0 ELSE b - (a + 1) + 1) = b - a
    OBVIOUS
  <1> QED
    BY <1>2, <1>3

\* A refill by a unit, of a bucket in debt and of any other.
LEMMA RefillByOne ==
  ASSUME NEW i \in Int, NEW v \in Nat, NEW r \in Int, NEW q \in Int,
         q >= r, r < 0 => q = r + 1
  PROVE  /\ v + r >= 0 => v + q >= 0
         /\ i <= v /\ i > v + q => i > v + r /\ q = r + 1
  OBVIOUS

\* A new bucket owes nothing.
LEMMA InitDebt == Init => DebtInv
  <1> SUFFICES ASSUME Init PROVE DebtInv
    OBVIOUS
  <1>1. TypeOK /\ Sleepers = {}
    BY InitTypeOK DEF Init, Sleepers
  <1>2. Outstanding = {}
    BY <1>1 DEF Outstanding
  <1>3. Cardinality(Outstanding) = 0 /\ reserved = 0 /\ released = 0
    BY <1>2, FS_EmptySet DEF Init
  <1>4. Refilled >= 0
    BY CapacityType DEF Init, Refilled, Smaller
  <1>5. Disjoint /\ WaitFits
    BY <1>1 DEF Disjoint, WaitFits
  <1>6. Counted
    BY <1>3 DEF Counted
  <1>7. DebtCovered
    <2>1. Refilled \in Int
      BY CapacityType DEF Init, Refilled, Smaller
    <2> QED
      BY <1>3, <1>4, <2>1 DEF DebtCovered
  <1> QED
    BY <1>1, <1>5, <1>6, <1>7 DEF DebtInv

\* A reservation of n tokens adds the next n to the outstanding ones, and
\* postpones the refill of nothing that was reserved before.
LEMMA ReserveDebt ==
  ASSUME DebtInv, NEW t \in Threads, NEW n \in Requests, Reserve(t, n), TypeOK'
  PROVE  DebtInv'
  <1> USE TokenBucketAssumption, CapacityType
  <1>1. /\ n \in Nat /\ n >= 1 /\ Refilled \in Int /\ Refilled <= Capacity
        /\ balance' = Refilled - n
        /\ Wait(n) \in Nat /\ Wait(n) = IF Refilled >= n THEN 0 ELSE n - Refilled
    BY ReserveArithmetic DEF Reserve, Wait, DebtInv
  <1>2. /\ now' = now /\ last' = now /\ reserved' = reserved + n /\ released' = released
        /\ upto'[t] = reserved + n /\ asked'[t] = n /\ deadline'[t] = now + Wait(n)
        /\ pc[t] = "idle" /\ pc'[t] = "sleeping"
        /\ reserved \in Nat /\ released \in Nat /\ now \in Nat
    BY DEF DebtInv, TypeOK, Reserve
  <1>3. Refilled' = Refilled - n
    BY <1>1, <1>2 DEF DebtInv, TypeOK, Refilled, Smaller
  <1>4. /\ Sleepers' = Sleepers \cup {t} /\ t \notin Sleepers
        /\ \A s \in Sleepers : /\ upto'[s] = upto[s] /\ asked'[s] = asked[s]
                               /\ deadline'[s] = deadline[s]
                               /\ upto[s] \in Nat /\ asked[s] \in Nat /\ deadline[s] \in Nat
    BY <1>2 DEF DebtInv, TypeOK, Reserve, Sleepers
  <1>5. Own(t)' = (reserved + 1) .. (reserved + n) /\ \A s \in Sleepers : Own(s)' = Own(s)
    BY <1>1, <1>2, <1>4 DEF Own
  <1>6. Disjoint'
    <2>1. \A s \in Sleepers : asked[s] >= 1 /\ asked[s] <= upto[s] /\ upto[s] <= reserved
      BY DEF DebtInv, Disjoint
    <2>2. \A u, s \in Sleepers : u # s => upto[u] <= upto[s] - asked[s] \/ upto[s] <= upto[u] - asked[u]
      BY DEF DebtInv, Disjoint
    <2>3. \A s \in Sleepers : upto[s] <= upto'[t] - asked'[t]
      BY <1>1, <1>2, <1>4, <2>1
    <2> QED
      BY <1>1, <1>2, <1>4, <2>1, <2>2, <2>3 DEF Disjoint
  <1>7. Counted'
    <2>1. Outstanding' = Outstanding \cup ((reserved + 1) .. (reserved + n))
      <3>1. Outstanding = {i \in 1 .. reserved : \E s \in Sleepers : i \in Own(s)}
        BY OutstandingOwned DEF DebtInv
      <3>2. TypeOK'
        OBVIOUS
      <3>3. Outstanding' = {i \in 1 .. reserved' : \E s \in Sleepers' : i \in Own(s)'}
        BY <1>4, <3>2 DEF TypeOK, Outstanding, Own, Sleepers
      <3>4. \A s \in Sleepers : \A i \in Own(s) : i <= reserved
        BY <1>2, <1>4 DEF DebtInv, Disjoint, Own
      <3>5. \A i \in 1 .. (reserved + n) :
               (\E s \in Sleepers' : i \in Own(s)')
                  <=> (\E s \in Sleepers : i \in Own(s)) \/ i \in (reserved + 1) .. (reserved + n)
        BY <1>4, <1>5
      <3> QED
        BY <1>1, <1>2, <3>1, <3>3, <3>4, <3>5
    <2>2. Outstanding \cap ((reserved + 1) .. (reserved + n)) = {}
      BY <1>2 DEF Outstanding
    <2>3. /\ IsFiniteSet((reserved + 1) .. (reserved + n))
          /\ Cardinality((reserved + 1) .. (reserved + n)) = n
      BY <1>1, <1>2, FS_Interval
    <2>4. Cardinality(Outstanding') = Cardinality(Outstanding) + n
      <3>1. IsFiniteSet(Outstanding) /\ Cardinality(Outstanding) \in Nat
        BY OutstandingOwned DEF DebtInv
      <3>2. Cardinality(Outstanding') = Cardinality(Outstanding) + n - Cardinality({})
        BY <2>1, <2>2, <2>3, <3>1, FS_Union
      <3> QED
        BY <1>1, <3>1, <3>2, FS_EmptySet
    <2>5. Cardinality(Outstanding) = reserved - released
      BY DEF DebtInv, Counted
    <2> QED
      BY <1>1, <1>2, <2>4, <2>5 DEF Counted
  <1>8. DebtCovered'
    <2>1. reserved' + Refilled' = reserved + Refilled
      BY <1>1, <1>2, <1>3
    <2>2. ASSUME NEW i \in 1 .. (reserved + n), i > reserved + Refilled
          PROVE  \E s \in Sleepers' : /\ i \in Own(s)'
                                      /\ deadline'[s] - now >= i - (reserved + Refilled)
      <3>1. CASE i > reserved
        <4>1. i \in Own(t)'
          BY <1>5, <2>2, <3>1, <1>2, <1>1
        <4>2. Wait(n) >= i - (reserved + Refilled)
          BY <1>1, <1>2, <2>2
        <4>3. (now + Wait(n)) - now >= i - (reserved + Refilled)
          BY <1>1, <1>2, <2>2, <4>2
        <4> QED
          BY <1>2, <1>4, <4>1, <4>3
      <3>2. CASE i <= reserved
        <4>1. i \in 1 .. reserved
          BY <1>1, <1>2, <3>2
        <4>2. PICK s \in Sleepers : i \in Own(s) /\ deadline[s] - now >= i - (reserved + Refilled)
          BY <2>2, <4>1 DEF DebtInv, DebtCovered
        <4> QED
          BY <1>4, <1>5, <4>2
      <3> QED
        BY <1>2, <1>1, <3>1, <3>2
    <2>3. reserved + Refilled >= 0
      BY DEF DebtInv, DebtCovered
    <2> QED
      BY <1>2, <2>1, <2>2, <2>3 DEF DebtCovered
  <1>9. WaitFits'
    <2>1. reserved' + Refilled' = reserved + Refilled
      BY <1>1, <1>2, <1>3
    <2>2. now + Wait(n) > now => (now + Wait(n)) - now <= (reserved + n) - (reserved + Refilled)
      BY <1>1, <1>2
    <2>3. \A s \in Sleepers : deadline[s] > now => deadline[s] - now <= upto[s] - (reserved + Refilled)
      BY DEF DebtInv, WaitFits
    <2> QED
      BY <1>2, <1>4, <2>1, <2>2, <2>3 DEF WaitFits
  <1> QED
    BY <1>6, <1>7, <1>8, <1>9 DEF DebtInv

\* A caller that returns takes its own tokens with it, and the refill has
\* reached them.
LEMMA ReturnDebt ==
  ASSUME DebtInv, NEW t \in Threads, Return(t), TypeOK'
  PROVE  DebtInv'
  <1> USE TokenBucketAssumption, CapacityType
  <1>1. /\ now' = now /\ reserved' = reserved /\ released' = released + asked[t]
        /\ pc[t] = "sleeping" /\ now >= deadline[t]
        /\ reserved \in Nat /\ released \in Nat /\ now \in Nat
        /\ Refilled' = Refilled /\ Refilled \in Int
    BY DEF DebtInv, TypeOK, Return, bucketVars, Refilled, Smaller
  <1>2. /\ Sleepers' = Sleepers \ {t} /\ t \in Sleepers
        /\ upto[t] \in Nat /\ asked[t] \in Nat /\ deadline[t] \in Nat
        /\ \A s \in Sleepers \ {t} :
               /\ upto'[s] = upto[s] /\ asked'[s] = asked[s] /\ deadline'[s] = deadline[s]
               /\ upto[s] \in Nat /\ asked[s] \in Nat /\ deadline[s] \in Nat
    BY <1>1 DEF DebtInv, TypeOK, Return, Sleepers
  <1>3. \A s \in Sleepers \ {t} : Own(s)' = Own(s)
    BY <1>2 DEF Own
  <1>4. Disjoint'
    BY <1>1, <1>2 DEF DebtInv, Disjoint
  <1>5. Counted'
    <2>1. Outstanding = {i \in 1 .. reserved : \E s \in Sleepers : i \in Own(s)}
      BY OutstandingOwned DEF DebtInv
    <2>2. Outstanding' = {i \in 1 .. reserved' : \E s \in Sleepers' : i \in Own(s)'}
      BY <1>2 DEF TypeOK, Outstanding, Own, Sleepers
    <2>3. asked[t] >= 1 /\ asked[t] <= upto[t] /\ upto[t] <= reserved
      BY <1>2 DEF DebtInv, Disjoint
    <2>4. Own(t) \subseteq Outstanding
      BY <1>1, <1>2, <2>1, <2>3 DEF Own
    <2>5. \A s \in Sleepers \ {t} : Own(s) \cap Own(t) = {}
      BY <1>1, <1>2 DEF DebtInv, Disjoint, Own
    <2>6. Outstanding' = Outstanding \ Own(t)
      BY <1>1, <1>2, <1>3, <2>1, <2>2, <2>5
    <2>7. IsFiniteSet(Own(t)) /\ Cardinality(Own(t)) = asked[t]
      <3> DEFINE a == upto[t] - asked[t]
      <3>1. a \in Int /\ a <= upto[t] /\ upto[t] \in Int /\ upto[t] - a = asked[t]
        BY <1>2
      <3>2. Own(t) = (a + 1) .. upto[t]
        BY DEF Own
      <3> HIDE DEF a
      <3>3. IsFiniteSet((a + 1) .. upto[t]) /\ Cardinality((a + 1) .. upto[t]) = upto[t] - a
        BY <3>1, IntervalSize
      <3> QED
        BY <3>1, <3>2, <3>3
    <2>8. Outstanding \cap Own(t) = Own(t)
      BY <2>4
    <2>9. Cardinality(Outstanding') = Cardinality(Outstanding) - asked[t]
      <3>1. IsFiniteSet(Outstanding)
        BY OutstandingOwned DEF DebtInv
      <3>2. Cardinality(Outstanding \ Own(t)) = Cardinality(Outstanding) - Cardinality(Outstanding \cap Own(t))
        BY <3>1, FS_Difference
      <3> QED
        BY <2>6, <2>7, <2>8, <3>2
    <2>10. Cardinality(Outstanding) = reserved - released
      BY DEF DebtInv, Counted
    <2> QED
      BY <1>1, <1>2, <2>9, <2>10 DEF Counted
  <1>6. DebtCovered'
    <2>1. ASSUME NEW i \in 1 .. reserved, i > reserved + Refilled
          PROVE  \E s \in Sleepers \ {t} : i \in Own(s) /\ deadline[s] - now >= i - (reserved + Refilled)
      <3>1. PICK s \in Sleepers : i \in Own(s) /\ deadline[s] - now >= i - (reserved + Refilled)
        BY <2>1 DEF DebtInv, DebtCovered
      <3>2. s # t
        BY <1>1, <1>2, <2>1, <3>1
      <3> QED
        BY <3>1, <3>2
    <2>2. reserved + Refilled >= 0
      BY DEF DebtInv, DebtCovered
    <2> QED
      BY <1>1, <1>2, <1>3, <2>1, <2>2 DEF DebtCovered
  <1>7. WaitFits'
    BY <1>1, <1>2 DEF DebtInv, WaitFits
  <1> QED
    BY <1>4, <1>5, <1>6, <1>7 DEF DebtInv

\* As long as the bucket is in debt, a unit of time refills exactly one token.
LEMMA TickDebt ==
  ASSUME DebtInv, Tick, TypeOK'
  PROVE  DebtInv'
  <1> USE TokenBucketAssumption, CapacityType
  <1>1. /\ now' = now + 1 /\ reserved' = reserved /\ released' = released
        /\ reserved \in Nat /\ now \in Nat
        /\ Sleepers' = Sleepers /\ Outstanding' = Outstanding
    BY DEF DebtInv, TypeOK, Tick, Sleepers, Outstanding
  <1>2. /\ Refilled \in Int /\ Refilled' \in Int /\ Refilled' >= Refilled
        /\ Refilled < 0 => Refilled' = Refilled + 1
    BY DEF DebtInv, TypeOK, Tick, Refilled, Smaller, bucketVars
  <1>3. \A s \in Sleepers : /\ upto'[s] = upto[s] /\ asked'[s] = asked[s] /\ deadline'[s] = deadline[s]
                            /\ Own(s)' = Own(s) /\ upto[s] \in Nat /\ deadline[s] \in Nat
                            /\ upto[s] <= reserved
    BY DEF DebtInv, TypeOK, Disjoint, Tick, Sleepers, Own
  <1>4. Disjoint'
    BY <1>1, <1>3 DEF DebtInv, Disjoint
  <1>5. Counted'
    BY <1>1 DEF DebtInv, Counted
  <1>6. DebtCovered'
    <2>1. ASSUME NEW i \in 1 .. reserved, i > reserved + Refilled'
          PROVE  \E s \in Sleepers : i \in Own(s) /\ deadline[s] - (now + 1) >= i - (reserved + Refilled')
      <3>1. i > reserved + Refilled /\ Refilled' = Refilled + 1
        <4>1. i \in Int /\ i <= reserved
          BY <1>1
        <4>2. i > reserved + Refilled'
          BY <2>1
        <4> QED
          BY <1>1, <1>2, <4>1, <4>2, RefillByOne
      <3>2. PICK s \in Sleepers : i \in Own(s) /\ deadline[s] - now >= i - (reserved + Refilled)
        BY <3>1 DEF DebtInv, DebtCovered
      <3>3. deadline[s] - (now + 1) >= i - (reserved + Refilled')
        BY <1>1, <1>2, <1>3, <3>1, <3>2
      <3> QED
        BY <3>2, <3>3
    <2>2. reserved + Refilled' >= 0
      BY <1>1, <1>2, RefillByOne DEF DebtInv, DebtCovered
    <2> QED
      BY <1>1, <1>3, <2>1, <2>2 DEF DebtCovered
  <1>7. WaitFits'
    <2>1. ASSUME NEW s \in Sleepers, deadline[s] > now + 1
          PROVE  deadline[s] - (now + 1) <= upto[s] - (reserved + Refilled')
      <3>1. deadline[s] - now <= upto[s] - (reserved + Refilled) /\ deadline[s] > now
        BY <1>1, <1>3, <2>1 DEF DebtInv, WaitFits
      <3>2. Refilled' = Refilled + 1
        BY <1>1, <1>2, <1>3, <3>1
      <3> QED
        BY <1>1, <1>2, <1>3, <3>1, <3>2
    <2> QED
      BY <1>1, <1>3, <2>1 DEF WaitFits
  <1> QED
    BY <1>4, <1>5, <1>6, <1>7 DEF DebtInv

\* The stopwatch and stuttering do not touch the bucket.
LEMMA SameDebt ==
  ASSUME DebtInv, TypeOK',
         UNCHANGED <<now, bucketVars, pc, asked, deadline, reserved, upto, released>>
  PROVE  DebtInv'
  BY DEF DebtInv, Disjoint, Counted, DebtCovered, WaitFits, Own, Outstanding, Sleepers,
         Refilled, bucketVars

\* Every call, return and tick keeps the debt covered.
LEMMA NextDebt == DebtInv /\ [Next]_vars => DebtInv'
  <1> SUFFICES ASSUME DebtInv, [Next]_vars PROVE DebtInv'
    OBVIOUS
  <1>1. TypeOK'
    BY NextTypeOK DEF DebtInv
  <1>2. CASE Tick
    BY <1>1, <1>2, TickDebt
  <1>3. CASE Observe
    BY <1>1, <1>3, SameDebt DEF Observe
  <1>4. CASE UNCHANGED vars
    BY <1>1, <1>4, SameDebt DEF vars
  <1> QED
    BY <1>1, <1>2, <1>3, <1>4, ReserveDebt, ReturnDebt DEF Next, Over

(* However many callers share the bucket and whatever they ask for, from    *)
(* any quiet moment on no more than the burst plus one token per unit of    *)
(* time gets through: what is in debt is still waited for, and the rest is  *)
(* within the credit of NobodyEarly.                                        *)
THEOREM AggregateRate == Spec => []RateRespected
  <1>1. RateInv /\ DebtInv => RateRespected
    <2> SUFFICES ASSUME RateInv, DebtInv PROVE RateRespected
      OBVIOUS
    <2>1. /\ reserved \in Nat /\ released \in Nat /\ now \in Nat /\ start \in Nat /\ base \in Nat
          /\ Capacity \in Nat /\ Refilled \in Int
      BY CapacityType DEF DebtInv, TypeOK, Refilled, Smaller
    <2>2. Refilled + (reserved - base) <= Capacity + (now - start)
      BY DEF RateInv, Credit
    <2>3. /\ IsFiniteSet(Outstanding) /\ Cardinality(Outstanding) \in Nat
          /\ Cardinality(Outstanding) = reserved - released
      BY OutstandingOwned DEF DebtInv, Counted
    <2>4. CASE Refilled >= 0
      BY <2>1, <2>2, <2>3, <2>4 DEF RateRespected
    <2>5. CASE Refilled < 0
      <3> DEFINE debt == (reserved + Refilled + 1) .. reserved
      <3>1. debt \in SUBSET Outstanding
        BY <2>1, OutstandingOwned DEF DebtInv, DebtCovered
      <3>2. Cardinality(debt) = -Refilled
        BY <2>1, <2>5, FS_Interval
      <3>3. Cardinality(debt) <= Cardinality(Outstanding)
        BY <2>3, <3>1, FS_Subset
      <3> QED
        BY <2>1, <2>2, <2>3, <3>2, <3>3 DEF RateRespected
    <2> QED
      BY <2>1, <2>4, <2>5
  <1> QED
    BY InitRate, NextRate, InitDebt, NextDebt, <1>1, PTL DEF Spec

(* The limiter does not run below its rate: nobody sleeps longer than the  *)
(* tokens that are waited for up to its own take to refill.                *)
THEOREM WaitsOnlyForTokensAhead == Spec => []WaitBounded
  <1>1. DebtInv => WaitBounded
    <2> SUFFICES ASSUME DebtInv, NEW t \in Sleepers
                 PROVE  deadline[t] - now <= Cardinality({i \in Outstanding : i <= upto[t]})
      BY DEF WaitBounded
    <2> DEFINE ahead == {i \in Outstanding : i <= upto[t]}
    <2>1. /\ reserved \in Nat /\ now \in Nat /\ Refilled \in Int
          /\ upto[t] \in Nat /\ deadline[t] \in Nat /\ upto[t] <= reserved
      BY CapacityType DEF DebtInv, TypeOK, Refilled, Smaller, Sleepers, Disjoint
    <2>2. IsFiniteSet(ahead) /\ Cardinality(ahead) \in Nat
      BY OutstandingOwned, FS_Subset, FS_CardinalityType DEF DebtInv
    <2>3. CASE deadline[t] <= now
      BY <2>1, <2>2, <2>3
    <2>4. CASE deadline[t] > now
      <3> DEFINE debt == (reserved + Refilled + 1) .. upto[t]
      <3>1. deadline[t] - now <= upto[t] - (reserved + Refilled)
        BY <2>4 DEF DebtInv, WaitFits
      <3>2. debt \in SUBSET ahead
        BY <2>1, OutstandingOwned DEF DebtInv, DebtCovered
      <3>3. Cardinality(debt) = upto[t] - (reserved + Refilled)
        <4> DEFINE a == reserved + Refilled
        <4>1. a \in Int /\ a <= upto[t] /\ upto[t] \in Int
          BY <2>1, <2>4, <3>1
        <4> HIDE DEF a
        <4>2. Cardinality((a + 1) .. upto[t]) = upto[t] - a
          BY <4>1, IntervalSize
        <4> QED
          BY <4>2 DEF a
      <3>4. Cardinality(debt) <= Cardinality(ahead)
        BY <2>2, <3>2, FS_Subset
      <3>5. Cardinality(debt) \in Int
        BY <3>3, <2>1
      <3> HIDE DEF ahead, debt
      <3> QED
        BY <2>1, <2>2, <3>1, <3>3, <3>4, <3>5 DEF ahead
    <2> QED
      BY <2>1, <2>3, <2>4
  <1> QED
    BY InitDebt, NextDebt, <1>1, PTL DEF Spec
=============================================================================
