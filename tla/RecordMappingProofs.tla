------------------------ MODULE RecordMappingProofs ------------------------
(***************************************************************************)
(* Proofs about RecordMapping and Scalars for any keys, routes and values, *)
(* and any width of the integers.                                          *)
(***************************************************************************)
EXTENDS RecordMapping, FiniteSetTheorems, LeastNumber

-----------------------------------------------------------------------------
(* Routes *)

\* A pattern that is rewritten has one star, and its other characters are
\* literals.
LEMMA OneStar ==
  ASSUME NEW pattern \in Texts, Rewrites(pattern)
  PROVE  /\ Star(pattern) \in 1 .. Len(pattern)
         /\ pattern[Star(pattern)] = "*"
         /\ \A i \in 1 .. Len(pattern) : i # Star(pattern) => pattern[i] \notin {"*", "?"}
  <1> DEFINE stars == {i \in DOMAIN pattern : pattern[i] = "*"}
             marks == {i \in DOMAIN pattern : pattern[i] = "?"}
  <1>1. DOMAIN pattern = 1 .. Len(pattern) /\ Len(pattern) \in Nat
    BY DEF Texts
  <1>2. IsFiniteSet(stars) /\ IsFiniteSet(marks)
    <2>1. IsFiniteSet(1 .. Len(pattern))
      BY <1>1, FS_Interval
    <2> QED
      BY <1>1, <2>1, FS_Subset
  <1>3. Cardinality(stars) = 1 /\ Cardinality(marks) = 0
    BY DEF Rewrites, Count
  <1>4. PICK st : stars = {st}
    <2> HIDE DEF stars
    <2> QED
      BY <1>2, <1>3, FS_Singleton
  <1>5. marks = {}
    <2> HIDE DEF marks
    <2> QED
      BY <1>2, <1>3, FS_EmptySet
  <1>6. Star(pattern) = st
    BY <1>4 DEF Star
  <1> QED
    BY <1>1, <1>4, <1>5, <1>6

\* A text that fits such a pattern begins with the literals before the star
\* and ends with those behind it, and they do not overlap.
LEMMA FitsAround ==
  ASSUME NEW text \in Texts, NEW pattern \in Texts, Rewrites(pattern), Fits(text, pattern)
  PROVE  /\ Len(text) >= Len(pattern) - 1
         /\ \A i \in 1 .. (Star(pattern) - 1) : text[i] = pattern[i]
         /\ \A j \in 0 .. (Len(pattern) - Star(pattern) - 1) :
                text[Len(text) - j] = pattern[Len(pattern) - j]
  <1> DEFINE n == Len(text)
             l == Len(pattern)
             st == Star(pattern)
  <1>1. n \in Nat /\ l \in Nat /\ st \in 1 .. l /\ DOMAIN pattern = 1 .. l
    BY OneStar DEF Texts
  <1>2. pattern[st] = "*" /\ \A i \in 1 .. l : i # st => pattern[i] \notin {"*", "?"}
    BY OneStar
  <1>3. PICK upto \in [0 .. l -> 0 .. n] :
            /\ upto[0] = 0
            /\ upto[l] = n
            /\ \A i \in 1 .. l :
                   IF pattern[i] = "*" THEN upto[i - 1] <= upto[i]
                   ELSE upto[i] = upto[i - 1] + 1 /\ pattern[i] \in {"?", text[upto[i]]}
    BY <1>1 DEF Fits
  <1> HIDE DEF n, l, st
  <1>4. ASSUME NEW i \in 1 .. l, i # st
        PROVE  upto[i] = upto[i - 1] + 1 /\ text[upto[i]] = pattern[i]
    BY <1>2, <1>3, <1>4
  <1>5. \A i \in 0 .. (st - 1) : upto[i] = i
    <2> DEFINE S == {i \in 0 .. (st - 1) : upto[i] = i}
    <2>1. 0 \in S /\ st - 1 \in Nat
      BY <1>1, <1>3
    <2>2. ASSUME NEW i \in 0 .. (st - 1 - 1), i \in S PROVE i + 1 \in S
      <3>1. i + 1 \in 1 .. l /\ i + 1 # st /\ (i + 1) - 1 = i /\ i + 1 \in 0 .. (st - 1)
        BY <1>1
      <3>2. upto[i + 1] = upto[i] + 1
        BY <1>4, <3>1
      <3> QED
        BY <2>2, <3>1, <3>2
    <2> HIDE DEF S
    <2>3. \A i \in 0 .. (st - 1) : i \in S
      BY <2>1, <2>2, StepInduction
    <2> QED
      BY <2>3 DEF S
  <1>6. \A j \in 0 .. (l - st) : upto[l - j] = n - j
    <2> DEFINE S == {j \in 0 .. (l - st) : upto[l - j] = n - j}
    <2>1. 0 \in S /\ l - st \in Nat
      BY <1>1, <1>3
    <2>2. ASSUME NEW j \in 0 .. (l - st - 1), j \in S PROVE j + 1 \in S
      <3>1. l - j \in 1 .. l /\ l - j # st /\ (l - j) - 1 = l - (j + 1) /\ j + 1 \in 0 .. (l - st)
        BY <1>1
      <3>2. upto[l - j] = upto[l - (j + 1)] + 1
        BY <1>4, <3>1
      <3>3. upto[l - (j + 1)] \in Int /\ upto[l - j] = n - j
        BY <1>1, <1>3, <2>2, <3>1
      <3>4. upto[l - (j + 1)] = n - (j + 1)
        BY <1>1, <3>2, <3>3
      <3> QED
        BY <3>1, <3>4
    <2> HIDE DEF S
    <2>3. \A j \in 0 .. (l - st) : j \in S
      BY <2>1, <2>2, StepInduction
    <2> QED
      BY <2>3 DEF S
  <1>7. n >= l - 1
    <2>1. upto[st - 1] <= upto[st]
      BY <1>1, <1>2, <1>3
    <2>3. upto[st - 1] = st - 1
      BY <1>1, <1>5
    <2>2. upto[st] = n - (l - st)
      <3>1. l - st \in 0 .. (l - st) /\ l - (l - st) = st
        BY <1>1
      <3>2. upto[l - (l - st)] = n - (l - st)
        BY <1>6, <3>1
      <3> QED
        BY <3>1, <3>2
    <2> QED
      BY <1>1, <2>1, <2>2, <2>3
  <1>8. ASSUME NEW i \in 1 .. (st - 1) PROVE text[i] = pattern[i]
    <2>1. i \in 1 .. l /\ i # st /\ i \in 0 .. (st - 1)
      BY <1>1
    <2> QED
      BY <1>4, <1>5, <2>1
  <1>9. ASSUME NEW j \in 0 .. (l - st - 1) PROVE text[n - j] = pattern[l - j]
    <2>1. l - j \in 1 .. l /\ l - j # st /\ j \in 0 .. (l - st)
      BY <1>1
    <2> QED
      BY <1>4, <1>6, <2>1
  <1> QED
    BY <1>7, <1>8, <1>9 DEF n, l, st

\* What is left of the text, by its positions.
LEMMA BodyParts ==
  ASSUME NEW text \in Texts, NEW pattern \in Texts, Rewrites(pattern), Fits(text, pattern)
  PROVE  /\ Body(text, pattern) \in Texts
         /\ Len(Body(text, pattern)) = Len(text) - (Len(pattern) - 1)
         /\ \A i \in 1 .. (Len(text) - (Len(pattern) - 1)) :
                Body(text, pattern)[i] = text[Star(pattern) - 1 + i]
  <1> DEFINE n == Len(text)
             l == Len(pattern)
             st == Star(pattern)
  <1>1. n \in Nat /\ l \in Nat /\ st \in 1 .. l /\ n >= l - 1
    BY OneStar, FitsAround DEF Texts
  <1>2. Body(text, pattern) = SubSeq(text, st, n - (l - st))
    BY DEF Body
  <1> HIDE DEF n, l, st
  <1>3. \A i \in st .. (n - (l - st)) : i \in 1 .. n
    BY <1>1
  <1>4. text \in Seq(STRING) /\ Len(text) = n
    BY DEF Texts, n
  <1>5. SubSeq(text, st, n - (l - st)) \in Seq(STRING)
    BY <1>1, <1>3, <1>4
  <1>6. Len(SubSeq(text, st, n - (l - st))) = n - (l - 1)
    BY <1>1, <1>3, <1>4
  <1>7. \A i \in 1 .. (n - (l - 1)) : SubSeq(text, st, n - (l - st))[i] = text[st - 1 + i]
    BY <1>1, <1>3, <1>4
  <1> QED
    BY <1>2, <1>5, <1>6, <1>7 DEF n, l, st, Texts

\* No two texts that fit the pattern have the same body.
LEMMA BodyInjective ==
  ASSUME NEW text \in Texts, NEW other \in Texts, NEW pattern \in Texts, Rewrites(pattern),
         Fits(text, pattern), Fits(other, pattern),
         Body(text, pattern) = Body(other, pattern)
  PROVE  text = other
  <1> DEFINE n == Len(text)
             l == Len(pattern)
             st == Star(pattern)
  <1>1. n \in Nat /\ Len(other) \in Nat /\ l \in Nat /\ st \in 1 .. l
    BY OneStar DEF Texts
  <1>2. Len(other) = n
    <2>1. Len(text) - (Len(pattern) - 1) = Len(other) - (Len(pattern) - 1)
      BY BodyParts
    <2> QED
      BY <1>1, <2>1
  <1>3. \A i \in 1 .. (st - 1) : text[i] = other[i]
    BY FitsAround
  <1>4. \A j \in 0 .. (l - st - 1) : text[n - j] = other[n - j]
    BY <1>2, FitsAround
  <1>5. \A i \in 1 .. (n - (l - 1)) : text[st - 1 + i] = other[st - 1 + i]
    BY <1>2, BodyParts
  <1> HIDE DEF n, l, st
  <1>6. ASSUME NEW i \in 1 .. n PROVE text[i] = other[i]
    <2>1. CASE i \in 1 .. (st - 1)
      BY <1>3, <2>1
    <2>2. CASE i > n - (l - st)
      <3>1. n - i \in 0 .. (l - st - 1) /\ n - (n - i) = i
        BY <1>1, <2>2
      <3>2. text[n - (n - i)] = other[n - (n - i)]
        BY <1>4, <3>1
      <3> QED
        BY <3>1, <3>2
    <2>3. CASE i \in st .. (n - (l - st))
      <3>1. i - (st - 1) \in 1 .. (n - (l - 1)) /\ st - 1 + (i - (st - 1)) = i
        BY <1>1, <2>3
      <3>2. text[st - 1 + (i - (st - 1))] = other[st - 1 + (i - (st - 1))]
        BY <1>5, <3>1
      <3> QED
        BY <3>1, <3>2
    <2> QED
      BY <1>1, <2>1, <2>2, <2>3
  <1>7. Len(text) = n
    BY DEF n
  <1> QED
    BY <1>2, <1>6, <1>7 DEF Texts

\* The types of the configuration and of the keys with their values.
ConfigOK ==
    /\ routes \in Seq(Routes)
    /\ DOMAIN redis \subseteq Keys
    /\ \A k \in DOMAIN redis : IsValue(redis[k])

\* The route a key takes is one that it fits.
LEMMA RouteTaken ==
  ASSUME ConfigOK, NEW k \in Keys, RouteOf(k) # 0
  PROVE  /\ RouteOf(k) \in DOMAIN routes
         /\ routes[RouteOf(k)].pattern \in Texts
         /\ Fits(k, routes[RouteOf(k)].pattern)
  <1> DEFINE M == MatchedBy(k)
  <1>1. M # {} /\ M \subseteq DOMAIN routes
    BY DEF RouteOf, MatchedBy
  <1>2. DOMAIN routes \subseteq Nat
    BY DEF ConfigOK
  <1>3. RouteOf(k) = CHOOSE i \in M : \A j \in M : i <= j
    BY <1>1 DEF RouteOf
  <1>4. \E i \in M : \A j \in M : i <= j
    <2> HIDE DEF M
    <2> QED
      BY <1>1, <1>2, LeastElement
  <1>5. RouteOf(k) \in M
    <2> HIDE DEF M
    <2> QED
      BY <1>3, <1>4
  <1>6. RouteOf(k) \in DOMAIN routes /\ FitTable[k][routes[RouteOf(k)].pattern]
    BY <1>5 DEF MatchedBy
  <1>7. routes[RouteOf(k)] \in Routes
    BY <1>6 DEF ConfigOK
  <1>8. routes[RouteOf(k)].pattern \in {r.pattern : r \in Routes}
    BY <1>7
  <1>9. FitTable[k][routes[RouteOf(k)].pattern] = Fits(k, routes[RouteOf(k)].pattern)
    BY <1>8 DEF FitTable
  <1> QED
    BY <1>6, <1>7, <1>9, MappingAssumption

\* Where a key goes tells it from all others that take its route, but for the
\* key that is nothing but literals.
LEMMA SamePlace ==
  ASSUME ConfigOK, NEW k \in Keys, NEW other \in Keys,
         RouteOf(k) = RouteOf(other), Place(k) = Place(other),
         OnlyLiterals(k) = OnlyLiterals(other)
  PROVE  k = other
  <1> DEFINE i == RouteOf(k)
  <1>1. k \in Texts /\ other \in Texts /\ Place(k).key = Place(other).key
    BY MappingAssumption
  <1>2. CASE i = 0
    BY <1>1, <1>2 DEF Place
  <1>3. CASE i # 0
    <2> DEFINE pattern == routes[i].pattern
    <2>1. pattern \in Texts /\ Fits(k, pattern) /\ Fits(other, pattern)
      BY <1>3, RouteTaken
    <2>2. KeyFromRoute(k, pattern) = KeyFromRoute(other, pattern)
      BY <1>1, <1>3 DEF Place
    <2>3. CASE ~Rewrites(pattern)
      BY <2>2, <2>3 DEF KeyFromRoute
    <2>4. CASE Rewrites(pattern)
      <3>1. OnlyLiterals(k) <=> Len(k) = Len(pattern) - 1
        BY <1>3, <2>4 DEF OnlyLiterals
      <3>2. OnlyLiterals(other) <=> Len(other) = Len(pattern) - 1
        BY <1>3, <2>4 DEF OnlyLiterals
      <3> HIDE DEF pattern
      <3>3. ASSUME NEW t \in Texts, Fits(t, pattern)
            PROVE  Body(t, pattern) = <<>> <=> Len(t) = Len(pattern) - 1
        <4>1. Len(Body(t, pattern)) = Len(t) - (Len(pattern) - 1) /\ Body(t, pattern) \in Texts
          BY <2>1, <2>4, <3>3, BodyParts
        <4>2. Body(t, pattern) = <<>> <=> Len(Body(t, pattern)) = 0
          BY <4>1 DEF Texts
        <4>3. Len(t) \in Nat /\ Len(pattern) \in Nat
          BY <2>1 DEF Texts
        <4> QED
          BY <4>1, <4>2, <4>3
      <3>4. Body(k, pattern) = <<>> <=> Body(other, pattern) = <<>>
        BY <1>1, <2>1, <3>1, <3>2, <3>3
      <3>5. CASE Body(k, pattern) = <<>>
        BY <2>2, <3>4, <3>5 DEF KeyFromRoute
      <3>6. CASE Body(k, pattern) # <<>>
        <4>1. Body(k, pattern) = Body(other, pattern)
          BY <2>2, <2>4, <3>4, <3>6 DEF KeyFromRoute
        <4> QED
          BY <1>1, <2>1, <2>4, <4>1, BodyInjective
      <3> QED
        BY <3>5, <3>6
    <2> QED
      BY <2>3, <2>4
  <1> QED
    BY <1>2, <1>3

-----------------------------------------------------------------------------
(* The inductive invariant *)

\* The record at p is what became of the key that it names.
RecordOK(p) ==
    /\ store[p].from \in Migrated
    /\ p = Place(store[p].from)
    /\ redis[store[p].from].type \in Supported
    /\ ~BadField(store[p].from)
    /\ store[p].bins = BinsOf(store[p].from)
    /\ store[p].content = Converted(redis[store[p].from])

\* Every record is that of a migrated key, and the place of every migrated key
\* has one.
MappingInv ==
    /\ ConfigOK
    /\ outcome \in [DOMAIN redis -> {"todo", "migrated", "errors", "skipped"}]
    /\ \A p \in DOMAIN store : RecordOK(p)
    /\ \A k \in Migrated : Place(k) \in DOMAIN store

\* What a key becomes does not depend on what was migrated before it.
LEMMA MappingUnchanged ==
  ASSUME UNCHANGED <<config, redis>>, NEW k
  PROVE  /\ Place(k)' = Place(k)
         /\ BinsOf(k)' = BinsOf(k)
         /\ BadField(k)' = BadField(k)
  <1>1. routes' = routes /\ strategy' = strategy /\ redis' = redis
    BY DEF config
  <1>2. RouteOf(k)' = RouteOf(k)
    BY <1>1 DEF RouteOf, MatchedBy
  <1>3. HashStrategy(k)' = HashStrategy(k) /\ HashBin(k)' = HashBin(k)
    BY <1>1, <1>2 DEF HashStrategy, HashBin
  <1>4. InFields(k)' = InFields(k)
    BY <1>1, <1>3 DEF InFields
  <1> QED
    BY <1>1, <1>2, <1>3, <1>4 DEF Place, BinsOf, BadField

\* At the start nothing is migrated.
LEMMA InitMapping == Init => MappingInv
  <1> SUFFICES ASSUME Init PROVE MappingInv
    OBVIOUS
  <1>1. PICK s \in Starts : routes = s.routes /\ redis = s.redis
    BY DEF Init
  <1>2. ConfigOK
    BY <1>1, MappingAssumption DEF ConfigOK
  <1>3. outcome = [k \in DOMAIN redis |-> "todo"] /\ DOMAIN store = {}
    BY DEF Init
  <1>4. Migrated = {}
    BY <1>3 DEF Migrated
  <1> QED
    BY <1>2, <1>3, <1>4 DEF MappingInv

\* A record is written over only by that of the key that is migrated.
LEMMA NextMapping == MappingInv /\ [Next]_vars => MappingInv'
  <1> SUFFICES ASSUME MappingInv, [Next]_vars PROVE MappingInv'
    OBVIOUS
  <1> DEFINE Ends == {"todo", "migrated", "errors", "skipped"}
  <1>1. UNCHANGED <<config, redis>>
    BY DEF Next, Migrate, Fail, Skip, Over, vars
  <1>2. redis' = redis /\ ConfigOK'
    BY <1>1 DEF MappingInv, ConfigOK, config
  <1>3. ASSUME NEW p, store'[p] = store[p], RecordOK(p), Migrated \subseteq Migrated'
        PROVE  RecordOK(p)'
    <2>0. PICK k : k = store[p].from
      OBVIOUS
    <2>1. Place(k)' = Place(k) /\ BinsOf(k)' = BinsOf(k) /\ BadField(k)' = BadField(k)
      BY <1>1, MappingUnchanged
    <2> QED
      BY <1>2, <1>3, <2>0, <2>1 DEF RecordOK
  <1>4. ASSUME NEW k \in DOMAIN redis, Migrate(k) PROVE MappingInv'
    <2>1. outcome' \in [DOMAIN redis -> Ends]
      BY <1>4 DEF MappingInv, Migrate
    <2>2. Migrated' = Migrated \cup {k}
      BY <1>2, <1>4 DEF Migrated, MappingInv, Migrate
    <2>3. /\ DOMAIN store' = DOMAIN store \cup {Place(k)}
          /\ store'[Place(k)] = [from |-> k, bins |-> BinsOf(k), content |-> Converted(redis[k])]
          /\ \A p \in DOMAIN store : p # Place(k) => store'[p] = store[p]
      BY <1>4 DEF Migrate
    <2>4. Place(k)' = Place(k) /\ BinsOf(k)' = BinsOf(k) /\ BadField(k)' = BadField(k)
      BY <1>1, MappingUnchanged
    <2>5. RecordOK(Place(k))'
      <3> DEFINE p == Place(k)
      <3>1. store'[p].from = k /\ store'[p].bins = BinsOf(k) /\ store'[p].content = Converted(redis[k])
        BY <2>3
      <3>2. redis[k].type \in Supported /\ ~BadField(k)
        BY <1>4 DEF Migrate
      <3> QED
        BY <1>2, <2>2, <2>4, <3>1, <3>2 DEF RecordOK
    <2>6. ASSUME NEW p \in DOMAIN store' PROVE RecordOK(p)'
      <3>1. CASE p = Place(k)
        BY <2>4, <2>5, <3>1
      <3>2. CASE p # Place(k)
        BY <1>3, <2>2, <2>3, <3>2 DEF MappingInv
      <3> QED
        BY <3>1, <3>2
    <2>7. ASSUME NEW o \in Migrated' PROVE Place(o)' \in DOMAIN store'
      <3>1. Place(o)' = Place(o)
        BY <1>1, MappingUnchanged
      <3> QED
        BY <2>2, <2>3, <3>1 DEF MappingInv
    <2> QED
      BY <1>2, <2>1, <2>6, <2>7 DEF MappingInv
  <1>5. ASSUME Migrated' = Migrated, store' = store, outcome' \in [DOMAIN redis -> Ends]
        PROVE  MappingInv'
    <2>1. ASSUME NEW p \in DOMAIN store' PROVE RecordOK(p)'
      BY <1>3, <1>5 DEF MappingInv
    <2>2. ASSUME NEW o \in Migrated' PROVE Place(o)' \in DOMAIN store'
      <3>1. Place(o)' = Place(o)
        BY <1>1, MappingUnchanged
      <3> QED
        BY <1>5, <3>1 DEF MappingInv
    <2> QED
      BY <1>2, <1>5, <2>1, <2>2 DEF MappingInv
  <1>6. ASSUME NEW k \in DOMAIN redis, Fail(k) PROVE MappingInv'
    <2>1. Migrated' = Migrated
      BY <1>2, <1>6 DEF Migrated, MappingInv, Fail
    <2>2. store' = store /\ outcome' \in [DOMAIN redis -> Ends]
      BY <1>6 DEF MappingInv, Fail
    <2> QED
      BY <1>5, <2>1, <2>2
  <1>7. ASSUME NEW k \in DOMAIN redis, Skip(k) PROVE MappingInv'
    <2>1. Migrated' = Migrated
      BY <1>2, <1>7 DEF Migrated, MappingInv, Skip
    <2>2. store' = store /\ outcome' \in [DOMAIN redis -> Ends]
      BY <1>7 DEF MappingInv, Skip
    <2> QED
      BY <1>5, <2>1, <2>2
  <1>8. CASE UNCHANGED vars
    <2>1. Migrated' = Migrated /\ store' = store /\ outcome' = outcome
      BY <1>8 DEF vars, Migrated
    <2> QED
      BY <1>5, <2>1 DEF MappingInv
  <1> QED
    BY <1>4, <1>6, <1>7, <1>8 DEF Next, Over

\* Every reachable state satisfies the invariant.
THEOREM MappingInvariant == Spec => []MappingInv
  BY InitMapping, NextMapping, PTL DEF Spec

\* What SetRouter.resolve does to keys never lets two keys of one route end up
\* in one record, the key made of literals excepted.
THEOREM RoutesKeepKeysApart == Spec => []SameRouteKeptApart
  <1>1. MappingInv => SameRouteKeptApart
    <2> SUFFICES ASSUME MappingInv, NEW k \in Migrated
                 PROVE  /\ Place(k) \in DOMAIN store
                        /\ LET last == store[Place(k)].from
                           IN  \/ last = k
                               \/ RouteOf(last) # RouteOf(k)
                               \/ OnlyLiterals(last) # OnlyLiterals(k)
      BY DEF SameRouteKeptApart
    <2> DEFINE last == store[Place(k)].from
    <2>1. Place(k) \in DOMAIN store
      BY DEF MappingInv
    <2>2. last \in Migrated /\ Place(last) = Place(k)
      BY <2>1 DEF MappingInv, RecordOK
    <2>3. ConfigOK /\ k \in Keys /\ last \in Keys
      BY <2>2 DEF MappingInv, ConfigOK, Migrated
    <2> HIDE DEF last
    <2>4. last = k \/ RouteOf(last) # RouteOf(k) \/ OnlyLiterals(last) # OnlyLiterals(k)
      BY <2>2, <2>3, SamePlace
    <2> QED
      BY <2>1, <2>4 DEF last
  <1> QED
    BY <1>1, MappingInvariant, PTL

-----------------------------------------------------------------------------
(* Names *)

\* Names keep the texts they come from apart; only the bytes of a field that are
\* not UTF-8 may become the same.
LEMMA NamesApart ==
  ASSUME NEW type, NEW name \in Texts, NEW other \in Texts,
         NameOf(type, name) = NameOf(type, other),
         type = "hash" => ~IsBinary(name) /\ ~IsBinary(other)
  PROVE  name = other
  <1>1. CASE type \in {"set", "zset"}
    <2>1. DecodeMember(name).text = name /\ DecodeMember(other).text = other
      BY DEF DecodeMember, Str, Bytes
    <2>2. DecodeMember(name) = DecodeMember(other)
      BY <1>1 DEF NameOf
    <2> QED
      BY <2>1, <2>2
  <1>2. CASE type = "hash"
    <2>1. ASSUME NEW f \in Texts, ~IsBinary(f) PROVE DecodeField(f).text = f
      <3>1. \A i \in DOMAIN f : f[i] # "FF"
        BY <2>1 DEF IsBinary, Contains, Texts
      <3>2. f = [i \in DOMAIN f |-> f[i]]
        BY DEF Texts
      <3>3. [i \in DOMAIN f |-> IF f[i] = "FF" THEN "FFFD" ELSE f[i]] = [i \in DOMAIN f |-> f[i]]
        BY <3>1
      <3> QED
        BY <3>2, <3>3 DEF DecodeField, Str
    <2>2. DecodeField(name) = DecodeField(other)
      BY <1>2 DEF NameOf
    <2>3. DecodeField(name).text = name /\ DecodeField(other).text = other
      BY <1>2, <2>1
    <2> QED
      BY <2>2, <2>3
  <1>3. CASE type \notin {"set", "zset", "hash"}
    <2>1. Str(name) = Str(other)
      BY <1>3 DEF NameOf
    <2>2. Str(name).text = name /\ Str(other).text = other
      BY DEF Str
    <2> QED
      BY <2>1, <2>2
  <1> QED
    BY <1>1, <1>2, <1>3

\* Members are never numbers, and neither are fields: a name is a string or bytes.
LEMMA NameKinds ==
  ASSUME NEW type, NEW name
  PROVE  NameOf(type, name).kind \in {"str", "bytes"}
  BY DEF NameOf, DecodeMember, DecodeField, Str, Bytes

\* An element of what is converted comes from an item of the value.
LEMMA ConvertedFrom ==
  ASSUME NEW v, NEW n \in DOMAIN Converted(v)
  PROVE  \E item \in v.items : /\ NameOf(v.type, item[1]) = n
                               /\ Converted(v)[n] = ScalarOf(v.type, item[2])
  <1> DEFINE item == CHOOSE it \in v.items : NameOf(v.type, it[1]) = n
  <1>1. \E it \in v.items : NameOf(v.type, it[1]) = n
    BY DEF Converted
  <1>2. item \in v.items /\ NameOf(v.type, item[1]) = n
    BY <1>1
  <1>3. Converted(v)[n] = ScalarOf(v.type, item[2])
    BY DEF Converted
  <1> QED
    BY <1>2, <1>3

\* The converters of sets and sorted sets, lists and strings lose no element, and
\* that of hashes none if its fields are UTF-8.
THEOREM ElementsKept == Spec => []NoElementLost
  <1>1. MappingInv => NoElementLost
    <2> SUFFICES ASSUME MappingInv, NEW p \in DOMAIN store, NEW v, v = redis[store[p].from],
                        v.type = "hash" => \A item \in v.items : ~IsBinary(item[1])
                 PROVE  Cardinality(DOMAIN store[p].content) = Cardinality(v.items)
      BY DEF NoElementLost
    <2> DEFINE N == {NameOf(v.type, item[1]) : item \in v.items}
               f == [item \in v.items |-> NameOf(v.type, item[1])]
    <2>1. IsValue(v) /\ store[p].content = Converted(v)
      BY DEF MappingInv, RecordOK, ConfigOK, Migrated
    <2>2. DOMAIN store[p].content = N
      BY <2>1 DEF Converted
    <2>3. f \in Bijection(v.items, N)
      <3>1. f \in Surjection(v.items, N)
        BY DEF Surjection
      <3>2. ASSUME NEW item \in v.items, NEW other \in v.items, f[item] = f[other]
            PROVE  item = other
        <4>1. item[1] \in Texts /\ other[1] \in Texts
          BY <2>1 DEF IsValue
        <4>2. NameOf(v.type, item[1]) = NameOf(v.type, other[1])
          BY <3>2
        <4>3. item[1] = other[1]
          BY <4>1, <4>2, NamesApart
        <4> QED
          BY <2>1, <4>3 DEF IsValue
      <3> QED
        BY <3>1, <3>2 DEF Bijection, Injection, IsInjective, Surjection
    <2>4. IsFiniteSet(v.items)
      BY <2>1 DEF IsValue
    <2> HIDE DEF N, f
    <2>5. Cardinality(v.items) = Cardinality(N)
      BY <2>3, <2>4, FS_Bijection DEF ExistsBijection
    <2> QED
      BY <2>2, <2>5
  <1> QED
    BY <1>1, MappingInvariant, PTL

-----------------------------------------------------------------------------
(* Digits *)

\* The characters of both scripts, one by one.
LEMMA DigitTables ==
  /\ \A d \in 0 .. 9 : d \in {0, 1, 2, 3, 4, 5, 6, 7, 8, 9}
  /\ DOMAIN AsciiDigits = 1 .. 10 /\ DOMAIN OtherDigits = 1 .. 10
  /\ AsciiDigits[1] = "0" /\ AsciiDigits[2] = "1" /\ AsciiDigits[3] = "2" /\ AsciiDigits[4] = "3"
  /\ AsciiDigits[5] = "4" /\ AsciiDigits[6] = "5" /\ AsciiDigits[7] = "6" /\ AsciiDigits[8] = "7"
  /\ AsciiDigits[9] = "8" /\ AsciiDigits[10] = "9"
  /\ OtherDigits[1] = "u0" /\ OtherDigits[2] = "u1" /\ OtherDigits[3] = "u2" /\ OtherDigits[4] = "u3"
  /\ OtherDigits[5] = "u4" /\ OtherDigits[6] = "u5" /\ OtherDigits[7] = "u6" /\ OtherDigits[8] = "u7"
  /\ OtherDigits[9] = "u8" /\ OtherDigits[10] = "u9"
  BY DEF AsciiDigits, OtherDigits

\* No digit stands for two numbers.
LEMMA DigitsDistinct ==
  ASSUME NEW d \in 0 .. 9, NEW e \in 0 .. 9,
         {AsciiDigits[d + 1], OtherDigits[d + 1]} \cap {AsciiDigits[e + 1], OtherDigits[e + 1]} # {}
  PROVE  d = e
  <1>1. d \in {0, 1, 2, 3, 4, 5, 6, 7, 8, 9} /\ e \in {0, 1, 2, 3, 4, 5, 6, 7, 8, 9}
    BY DigitTables
  <1> QED
    BY <1>1, DigitTables

\* int() knows the digits of both scripts.
LEMMA DigitRead ==
  ASSUME NEW d \in 0 .. 9, NEW c \in {AsciiDigits[d + 1], OtherDigits[d + 1]}
  PROVE  IsDigit(c) /\ DigitOf(c) = d
  <1>1. d + 1 \in 1 .. 10
    OBVIOUS
  <1>2. IsDigit(c)
    BY <1>1, DigitTables DEF IsDigit, ToSet
  <1>3. \A e \in 0 .. 9 : c \in {AsciiDigits[e + 1], OtherDigits[e + 1]} => e = d
    BY DigitsDistinct
  <1> QED
    BY <1>2, <1>3 DEF DigitOf

\* A digit is that of the number it stands for, in one of the scripts.
LEMMA DigitKnown ==
  ASSUME NEW c, IsDigit(c)
  PROVE  DigitOf(c) \in 0 .. 9 /\ c \in {AsciiDigits[DigitOf(c) + 1], OtherDigits[DigitOf(c) + 1]}
  <1>1. PICK j \in 1 .. 10 : c \in {AsciiDigits[j], OtherDigits[j]}
    BY DigitTables DEF IsDigit, ToSet
  <1>2. j - 1 \in 0 .. 9 /\ (j - 1) + 1 = j
    OBVIOUS
  <1>3. DigitOf(c) = j - 1
    BY <1>1, <1>2, DigitRead
  <1> QED
    BY <1>1, <1>2, <1>3

\* The characters that the regular expressions use are no digits.
LEMMA OtherCharacters ==
  ASSUME NEW c, IsDigit(c)
  PROVE  c \notin {"-", "+", ".", "e", "E", "NL", "FF"}
  <1>1. DigitOf(c) \in {0, 1, 2, 3, 4, 5, 6, 7, 8, 9}
    BY DigitKnown, DigitTables
  <1>2. c \in {AsciiDigits[DigitOf(c) + 1], OtherDigits[DigitOf(c) + 1]}
    BY DigitKnown
  <1> HIDE DEF DigitOf
  <1> QED
    BY <1>1, <1>2, DigitTables

\* The characters that \d accepts.
Digits == ToSet(AsciiDigits) \cup ToSet(OtherDigits)

\* ValueOf reads a text of digits from the left.
IsValueUpto(v, t, m) ==
    /\ v \in [0 .. m -> Nat]
    /\ v[0] = 0
    /\ \A i \in 1 .. m : v[i] = 10 * v[i - 1] + DigitOf(t[i])

IsValueOf(v, t) == IsValueUpto(v, t, Len(t))

\* There is a value for every text of digits ...
LEMMA ValueExists ==
  ASSUME NEW t \in Seq(Digits)
  PROVE  \E v : IsValueOf(v, t)
  <1> DEFINE n == Len(t)
             S == {m \in 0 .. n : \E v : IsValueUpto(v, t, m)}
  <1>1. n \in Nat /\ \A i \in 1 .. n : DigitOf(t[i]) \in Nat
    <2>1. n \in Nat /\ \A i \in 1 .. n : IsDigit(t[i])
      BY DEF IsDigit, Digits
    <2> QED
      BY <2>1, DigitKnown
  <1> HIDE DEF n
  <1>2. 0 \in S
    <2>1. IsValueUpto([i \in 0 .. 0 |-> 0], t, 0)
      BY DEF IsValueUpto
    <2> QED
      BY <1>1, <2>1
  <1>3. ASSUME NEW m \in 0 .. (n - 1), m \in S PROVE m + 1 \in S
    <2>1. PICK v : IsValueUpto(v, t, m)
      BY <1>3
    <2> DEFINE next == 10 * v[m] + DigitOf(t[m + 1])
               w == [i \in 0 .. (m + 1) |-> IF i = m + 1 THEN next ELSE v[i]]
    <2>2. m \in Nat /\ m + 1 \in 1 .. n /\ v[m] \in Nat
      BY <1>1, <2>1 DEF IsValueUpto
    <2>3. next \in Nat
      <3>1. DigitOf(t[m + 1]) \in Nat
        BY <1>1, <2>2
      <3> QED
        BY <2>2, <3>1
    <2> HIDE DEF next
    <2>4. w \in [0 .. (m + 1) -> Nat] /\ w[0] = 0 /\ w[m + 1] = next /\ w[m] = v[m]
      BY <2>1, <2>2, <2>3 DEF IsValueUpto
    <2>5. \A i \in 1 .. m : w[i] = v[i] /\ w[i - 1] = v[i - 1]
      BY <2>2
    <2> HIDE DEF w
    <2>6. ASSUME NEW i \in 1 .. (m + 1) PROVE w[i] = 10 * w[i - 1] + DigitOf(t[i])
      <3>1. CASE i = m + 1
        BY <2>2, <2>4, <3>1 DEF next
      <3>2. CASE i \in 1 .. m
        BY <2>1, <2>5, <3>2 DEF IsValueUpto
      <3> QED
        BY <2>2, <3>1, <3>2
    <2>7. IsValueUpto(w, t, m + 1)
      BY <2>4, <2>6 DEF IsValueUpto
    <2> QED
      BY <1>1, <2>2, <2>7
  <1> HIDE DEF S
  <1>4. \A m \in 0 .. n : m \in S
    BY <1>1, <1>2, <1>3, StepInduction
  <1> QED
    BY <1>1, <1>4 DEF S, n, IsValueOf

\* ... and ValueOf finds it.
LEMMA ValueRead ==
  ASSUME NEW t \in Seq(Digits)
  PROVE  \E v : IsValueOf(v, t) /\ ValueOf(t) = v[Len(t)]
  <1> DEFINE n == Len(t)
             Reading(f) == [i \in 0 .. n |-> IF i = 0 THEN 0 ELSE 10 * f[i - 1] + DigitOf(t[i])]
             upto == CHOOSE f : f = Reading(f)
  <1>1. n \in Nat
    OBVIOUS
  <1>2. PICK v : IsValueOf(v, t)
    BY ValueExists
  <1>3. v = Reading(v)
    <2>1. v = [i \in 0 .. n |-> v[i]]
      BY <1>2 DEF IsValueOf, IsValueUpto
    <2>2. \A i \in 0 .. n : v[i] = Reading(v)[i]
      BY <1>1, <1>2 DEF IsValueOf, IsValueUpto
    <2> QED
      BY <2>1, <2>2
  <1>4. upto = Reading(upto)
    BY <1>3
  <1>5. ValueOf(t) = upto[n]
    BY DEF ValueOf
  <1>6. upto[0] = 0 /\ \A i \in 1 .. n : upto[i] = 10 * upto[i - 1] + DigitOf(t[i])
    <2> HIDE DEF upto
    <2>1. \A i \in 0 .. n : upto[i] = IF i = 0 THEN 0 ELSE 10 * upto[i - 1] + DigitOf(t[i])
      BY <1>4
    <2> QED
      BY <1>1, <2>1
  <1> DEFINE S == {i \in 0 .. n : upto[i] = v[i]}
  <1> HIDE DEF upto, n
  <1>7. 0 \in S
    BY <1>1, <1>2, <1>6 DEF IsValueOf, IsValueUpto
  <1>8. ASSUME NEW i \in 0 .. (n - 1), i \in S PROVE i + 1 \in S
    <2>1. i + 1 \in 1 .. n /\ (i + 1) - 1 = i
      BY <1>1
    <2>2. upto[i + 1] = 10 * upto[i] + DigitOf(t[i + 1])
      BY <1>6, <2>1
    <2>3. v[i + 1] = 10 * v[i] + DigitOf(t[i + 1])
      BY <1>2, <2>1 DEF IsValueOf, IsValueUpto, n
    <2> QED
      BY <1>1, <1>8, <2>1, <2>2, <2>3
  <1> HIDE DEF S
  <1>9. \A i \in 0 .. n : i \in S
    BY <1>1, <1>7, <1>8, StepInduction
  <1> QED
    BY <1>1, <1>2, <1>5, <1>9 DEF S, n

-----------------------------------------------------------------------------
(* What is stored is legal *)

\* Parts of a text are texts.
LEMMA TextParts ==
  ASSUME NEW t \in Texts
  PROVE  Unended(t) \in Texts /\ Core(t) \in Texts
  <1>1. ASSUME t # <<>> PROVE Front(t) \in Texts
    <2>1. Len(t) \in Nat /\ \A i \in 1 .. (Len(t) - 1) : i \in 1 .. Len(t)
      BY DEF Texts
    <2> QED
      BY <2>1 DEF Texts, Front
  <1>2. Unended(t) \in Texts
    BY <1>1 DEF Unended
  <1>3. ASSUME NEW u \in Texts PROVE Unsigned(u) \in Texts
    <2>1. CASE u = <<>>
      BY <2>1 DEF Unsigned, Negative
    <2>2. CASE u # <<>>
      <3>1. Tail(u) \in Texts
        BY <2>2 DEF Texts
      <3> QED
        BY <3>1 DEF Unsigned
    <2> QED
      BY <2>1, <2>2
  <1> QED
    BY <1>2, <1>3 DEF Core

\* What _INT_RE accepts has digits only, behind the sign.
LEMMA IntDigits ==
  ASSUME NEW t \in Texts, MatchesInt(t)
  PROVE  Core(t) # <<>> /\ Core(t) \in Seq(Digits)
  <1>1. CASE Core(t) = <<"0">>
    <2>1. IsDigit("0")
      BY DigitRead, DigitTables
    <2> QED
      BY <1>1, <2>1 DEF IsDigit, Digits
  <1>2. CASE AllDigits(Core(t))
    <2>1. Core(t) \in Texts
      BY TextParts
    <2>2. Len(Core(t)) \in Nat /\ DOMAIN Core(t) = 1 .. Len(Core(t))
          /\ Core(t) = [i \in 1 .. Len(Core(t)) |-> Core(t)[i]]
      BY <2>1 DEF Texts
    <2>3. \A i \in 1 .. Len(Core(t)) : Core(t)[i] \in Digits
      BY <1>2, <2>2 DEF AllDigits, IsDigit, Digits
    <2>4. Core(t) \in Seq(Digits)
      BY <2>2, <2>3
    <2> QED
      BY <1>2, <2>4 DEF AllDigits
  <1> QED
    BY <1>1, <1>2 DEF MatchesInt

\* int() makes an integer of it.
LEMMA IntType ==
  ASSUME NEW t \in Texts, MatchesInt(t)
  PROVE  ValueOf(Core(t)) \in Nat /\ IntOf(t) \in Int
  <1>1. Core(t) \in Seq(Digits)
    BY IntDigits
  <1>2. PICK v : IsValueOf(v, Core(t)) /\ ValueOf(Core(t)) = v[Len(Core(t))]
    BY <1>1, ValueRead
  <1>3. ValueOf(Core(t)) \in Nat
    <2>1. Len(Core(t)) \in 0 .. Len(Core(t))
      BY <1>1
    <2> QED
      BY <1>2, <2>1 DEF IsValueOf, IsValueUpto
  <1> QED
    BY <1>3 DEF IntOf

\* float() makes a double.
LEMMA FloatKind ==
  ASSUME NEW t
  PROVE  FloatOf(t).kind = "float"
  BY DEF FloatOf

\* coerce_scalar, by the way it leaves.
LEMMA CoerceCases ==
  ASSUME NEW t \in Texts
  PROVE  \/ IsBinary(t) /\ Coerce(t) = Bytes(t)
         \/ ~IsBinary(t) /\ ~MatchesInt(t) /\ Coerce(t) = Str(t)
         \/ ~IsBinary(t) /\ MatchesInt(t) /\ ~InRange(IntOf(t)) /\ Coerce(t) = Str(t)
         \/ /\ ~IsBinary(t) /\ MatchesInt(t) /\ InRange(IntOf(t))
            /\ Coerce(t).kind = "int" /\ Coerce(t).number = IntOf(t)
         \/ /\ ~IsBinary(t) /\ ~MatchesInt(t) /\ MatchesFloat(t)
            /\ Coerce(t).kind = "float" /\ Coerce(t).finite
  BY FloatKind DEF Coerce

\* What is no number keeps its text.
LEMMA TextKinds ==
  ASSUME NEW t
  PROVE  Str(t).kind = "str" /\ Str(t).text = t /\ Bytes(t).kind = "bytes" /\ Bytes(t).text = t
  BY DEF Str, Bytes

\* Numbers are legal in Aerospike.
LEMMA ScalarLegal ==
  ASSUME NEW type, NEW t \in Texts
  PROVE  /\ ScalarOf(type, t).kind = "int" => ScalarOf(type, t).number \in IntMin .. IntMax
         /\ ScalarOf(type, t).kind = "float" => ScalarOf(type, t).finite
  <1>1. CASE type = "zset"
    BY <1>1 DEF ScalarOf, EncodeScore, Str
  <1>2. CASE type # "zset"
    <2>1. ScalarOf(type, t) = Coerce(t)
      BY <1>2 DEF ScalarOf
    <2>2. MatchesInt(t) /\ InRange(IntOf(t)) => IntOf(t) \in IntMin .. IntMax
      BY IntType, ScalarsAssumption DEF InRange
    <2> QED
      BY <2>1, <2>2, CoerceCases, TextKinds
  <1> QED
    BY <1>1, <1>2

\* The length of a bin's name is a number.
LEMMA EncodedLengthType ==
  ASSUME NEW Chars, NEW t \in Seq(Chars)
  PROVE  EncodedLength(t) \in Nat
  <1>1. DOMAIN t = 1 .. Len(t) /\ Len(t) \in Nat
    OBVIOUS
  <1>2. IsFiniteSet(1 .. Len(t))
    BY <1>1, FS_Interval
  <1>3. ASSUME NEW A \in SUBSET (1 .. Len(t)) PROVE Cardinality(A) \in Nat
    BY <1>2, FS_Subset, FS_CardinalityType
  <1>4. /\ Cardinality({i \in DOMAIN t : t[i] \in ToSet(OtherDigits)}) \in Nat
        /\ Cardinality({i \in DOMAIN t : t[i] = "FFFD"}) \in Nat
    BY <1>1, <1>3
  <1> QED
    BY <1>1, <1>4 DEF EncodedLength

\* The names of a hash's fields are texts.
LEMMA FieldTexts ==
  ASSUME NEW v, IsValue(v), v.type = "hash", NEW n \in DOMAIN Converted(v)
  PROVE  n.text \in Seq(STRING \cup {"FFFD"})
  <1>1. PICK item \in v.items : NameOf(v.type, item[1]) = n
    BY ConvertedFrom
  <1>2. item[1] \in Texts
    BY DEF IsValue
  <1> DEFINE f == item[1]
             g == [i \in DOMAIN f |-> IF f[i] = "FF" THEN "FFFD" ELSE f[i]]
  <1>3. n = Str(g)
    BY <1>1 DEF NameOf, DecodeField
  <1> HIDE DEF f
  <1>4. f \in Texts
    BY <1>2 DEF f
  <1>5. g \in Seq(STRING \cup {"FFFD"})
    <2>1. DOMAIN f = 1 .. Len(f) /\ Len(f) \in Nat /\ \A i \in 1 .. Len(f) : f[i] \in STRING
      BY <1>4 DEF Texts
    <2> QED
      BY <2>1
  <1> QED
    BY <1>3, <1>5 DEF Str

\* No route makes a key empty.
LEMMA KeyNotEmptied ==
  ASSUME NEW k, Place(k).key = <<>>
  PROVE  k = <<>>
  BY DEF Place, KeyFromRoute

\* Whatever Redis holds, what the converters and the routes make of it is legal
\* in Aerospike.
THEOREM RecordsLegal == Spec => []NothingIllegalStored
  <1>1. MappingInv => NothingIllegalStored
    <2> SUFFICES ASSUME MappingInv, NEW p \in DOMAIN store
                 PROVE  /\ p.key = <<>> => store[p].from = <<>>
                        /\ IF InFields(store[p].from)
                           THEN \A b \in store[p].bins : EncodedLength(b) <= MaxBinName
                           ELSE Cardinality(store[p].bins) = 1
                        /\ \A n \in DOMAIN store[p].content :
                             LET s == store[p].content[n]
                             IN  /\ n.kind \in {"str", "bytes"}
                                 /\ s.kind = "int" => s.number \in IntMin .. IntMax
                                 /\ s.kind = "float" => s.finite
      BY DEF NothingIllegalStored
    <2> DEFINE k == store[p].from
               v == redis[k]
    <2>1. /\ p = Place(k) /\ ~BadField(k) /\ IsValue(v)
          /\ store[p].bins = BinsOf(k) /\ store[p].content = Converted(v)
      BY DEF MappingInv, RecordOK, ConfigOK, Migrated
    <2>2. v = redis[k]
      OBVIOUS
    <2> HIDE DEF k, v
    <2>3. p.key = <<>> => k = <<>>
      BY <2>1, KeyNotEmptied
    <2>4. ASSUME InFields(k) PROVE \A b \in BinsOf(k) : EncodedLength(b) <= MaxBinName
      <3>1. v.type = "hash" /\ BinsOf(k) = {n.text : n \in DOMAIN Converted(v)}
        BY <2>2, <2>4 DEF InFields, BinsOf
      <3>2. ASSUME NEW n \in DOMAIN Converted(v) PROVE EncodedLength(n.text) <= MaxBinName
        <4>1. ~(EncodedLength(n.text) > MaxBinName)
          BY <2>1, <2>2, <2>4 DEF BadField
        <4>2. EncodedLength(n.text) \in Nat
          BY <2>1, <3>1, FieldTexts, EncodedLengthType
        <4> QED
          BY <4>1, <4>2, ScalarsAssumption
      <3> QED
        BY <3>1, <3>2
    <2>5. ASSUME ~InFields(k) PROVE Cardinality(BinsOf(k)) = 1
      <3>1. PICK b : BinsOf(k) = {b}
        BY <2>5 DEF BinsOf
      <3> QED
        BY <3>1, FS_Singleton
    <2>6. ASSUME NEW n \in DOMAIN Converted(v)
          PROVE  LET s == Converted(v)[n]
                 IN  /\ n.kind \in {"str", "bytes"}
                     /\ s.kind = "int" => s.number \in IntMin .. IntMax
                     /\ s.kind = "float" => s.finite
      <3>1. PICK item \in v.items : /\ NameOf(v.type, item[1]) = n
                                    /\ Converted(v)[n] = ScalarOf(v.type, item[2])
        BY ConvertedFrom
      <3>2. item[2] \in Texts
        BY <2>1 DEF IsValue
      <3> QED
        BY <3>1, <3>2, NameKinds, ScalarLegal
    <2> QED
      BY <2>1, <2>3, <2>4, <2>5, <2>6 DEF k
  <1> QED
    BY <1>1, MappingInvariant, PTL

-----------------------------------------------------------------------------
(* Integers and their texts *)

\* The last digit of a number and those before it.
LEMMA Division ==
  ASSUME NEW n \in Nat
  PROVE  /\ n \div 10 \in Nat /\ n % 10 \in 0 .. 9
         /\ n = 10 * (n \div 10) + (n % 10)
         /\ n >= 10 => n \div 10 >= 1 /\ n \div 10 < n
  <1> DEFINE q == n \div 10
             r == n % 10
  <1>1. q \in Nat /\ r \in 0 .. 9
    OBVIOUS
  <1>2. n % 10 = n - 10 * (n \div 10)
    <2>1. n \div 10 \in Nat /\ n % 10 \in Nat
      OBVIOUS
    <2> QED
      BY <2>1
  <1>3. n >= 10 => n \div 10 >= 1 /\ n \div 10 < n
    OBVIOUS
  <1> HIDE DEF q, r
  <1>4. r = n - 10 * q
    BY <1>2 DEF q, r
  <1>5. n = 10 * q + r
    BY <1>1, <1>4
  <1> QED
    BY <1>1, <1>3, <1>5 DEF q, r

\* A digit put behind a number can be taken off again.
LEMMA Composition ==
  ASSUME NEW m \in Nat, NEW d \in 0 .. 9
  PROVE  10 * m + d \in Nat /\ (10 * m + d) \div 10 = m /\ (10 * m + d) % 10 = d
  OBVIOUS

\* One step of the recursion of Decimal.
DecimalStep(f, n) ==
    IF n < 10 THEN <<AsciiDigits[n + 1]>> ELSE Append(f[n \div 10], AsciiDigits[(n % 10) + 1])

\* g follows it up to m.
IsDecimalUpto(g, m) ==
    /\ g = [n \in 0 .. m |-> g[n]]
    /\ \A n \in 0 .. m : g[n] = DecimalStep(g, n)

\* The recursion of Decimal can be followed up to any number ...
LEMMA DecimalExists ==
  ASSUME NEW m \in Nat
  PROVE  \E g : IsDecimalUpto(g, m)
  <1> DEFINE S == {i \in 0 .. m : \E g : IsDecimalUpto(g, i)}
  <1>1. 0 \in S
    <2> DEFINE g == [n \in 0 .. 0 |-> <<AsciiDigits[n + 1]>>]
    <2>1. IsDecimalUpto(g, 0)
      BY DEF IsDecimalUpto, DecimalStep
    <2> QED
      BY <2>1
  <1>2. ASSUME NEW i \in 0 .. (m - 1), i \in S PROVE i + 1 \in S
    <2>1. PICK g : IsDecimalUpto(g, i)
      BY <1>2
    <2> DEFINE last == DecimalStep(g, i + 1)
               h == [n \in 0 .. (i + 1) |-> IF n = i + 1 THEN last ELSE g[n]]
    <2>2. i + 1 \in 0 .. m /\ i + 1 \in Nat /\ i \in Nat
      OBVIOUS
    <2> HIDE DEF last
    <2>3. h = [n \in 0 .. (i + 1) |-> h[n]] /\ h[i + 1] = last /\ \A n \in 0 .. i : h[n] = g[n]
      BY <2>2
    <2> HIDE DEF h
    <2>4. ASSUME NEW n \in 0 .. (i + 1) PROVE DecimalStep(h, n) = DecimalStep(g, n)
      <3>1. CASE n < 10
        BY <3>1 DEF DecimalStep
      <3>2. CASE n >= 10
        <4>1. n \in Nat /\ n \div 10 \in Nat /\ n \div 10 < n
          BY <2>2, <3>2, Division
        <4>2. n \div 10 \in 0 .. i
          BY <2>2, <4>1
        <4>3. h[n \div 10] = g[n \div 10]
          BY <2>3, <4>2
        <4> QED
          BY <4>3 DEF DecimalStep
      <3> QED
        BY <2>2, <3>1, <3>2
    <2>5. ASSUME NEW n \in 0 .. (i + 1) PROVE h[n] = DecimalStep(h, n)
      <3>1. CASE n = i + 1
        BY <2>3, <2>4, <3>1 DEF last
      <3>2. CASE n \in 0 .. i
        BY <2>1, <2>3, <2>4, <3>2 DEF IsDecimalUpto
      <3> QED
        BY <2>2, <3>1, <3>2
    <2>6. IsDecimalUpto(h, i + 1)
      BY <2>3, <2>5 DEF IsDecimalUpto
    <2> QED
      BY <2>2, <2>6
  <1> HIDE DEF S
  <1>3. \A i \in 0 .. m : i \in S
    BY <1>1, <1>2, StepInduction
  <1> QED
    BY <1>3 DEF S

\* ... in one way only.
LEMMA DecimalUnique ==
  ASSUME NEW m \in Nat, NEW l \in Nat, NEW g, NEW h, IsDecimalUpto(g, m), IsDecimalUpto(h, l)
  PROVE  \A n \in Nat : n <= m /\ n <= l => g[n] = h[n]
  <1> DEFINE D == {n \in Nat : n <= m /\ n <= l /\ g[n] # h[n]}
  <1> SUFFICES ASSUME D # {} PROVE FALSE
    OBVIOUS
  <1>1. D \in SUBSET Nat
    OBVIOUS
  <1>2. PICK x \in D : \A y \in D : x <= y
    <2> HIDE DEF D
    <2> QED
      BY <1>1, LeastElement
  <1>3. x \in Nat /\ x \in 0 .. m /\ x \in 0 .. l /\ g[x] # h[x]
    OBVIOUS
  <1>4. g[x] = DecimalStep(g, x) /\ h[x] = DecimalStep(h, x)
    BY <1>3 DEF IsDecimalUpto
  <1>5. CASE x < 10
    BY <1>3, <1>4, <1>5 DEF DecimalStep
  <1>6. CASE x >= 10
    <2>1. x \div 10 \in Nat /\ x \div 10 < x
      BY <1>3, <1>6, Division
    <2> DEFINE y == x \div 10
    <2>2. y \in Nat /\ y < x
      BY <2>1
    <2> HIDE DEF y
    <2>3. g[y] = h[y]
      BY <1>2, <1>3, <2>2
    <2> QED
      BY <1>3, <1>4, <2>3 DEF DecimalStep, y
  <1> QED
    BY <1>3, <1>5, <1>6

\* Decimal is what its definition says: the recursion ends.
LEMMA DecimalDefined == \A n \in Nat : Decimal[n] = DecimalStep(Decimal, n)
  <1> DEFINE G(n) == CHOOSE g : IsDecimalUpto(g, n)
             F == [n \in Nat |-> G(n)[n]]
             Body10(f) == [n \in Nat |-> DecimalStep(f, n)]
  <1>1. ASSUME NEW n \in Nat PROVE IsDecimalUpto(G(n), n)
    BY DecimalExists
  <1>2. \A n \in Nat : F[n] = G(n)[n]
    OBVIOUS
  <1> HIDE DEF G
  <1>3. ASSUME NEW n \in Nat PROVE F[n] = DecimalStep(F, n)
    <2>1. F[n] = DecimalStep(G(n), n)
      <3>1. n \in 0 .. n
        OBVIOUS
      <3> QED
        BY <1>1, <1>2, <3>1 DEF IsDecimalUpto
    <2>2. CASE n < 10
      BY <2>1, <2>2 DEF DecimalStep
    <2>3. CASE n >= 10
      <3> DEFINE q == n \div 10
      <3>1. q \in Nat /\ q < n
        BY <2>3, Division
      <3> HIDE DEF q
      <3>2. F[q] = G(q)[q] /\ IsDecimalUpto(G(q), q) /\ IsDecimalUpto(G(n), n)
        BY <1>1, <1>2, <3>1
      <3>3. G(q)[q] = G(n)[q]
        BY <3>1, <3>2, DecimalUnique
      <3> HIDE DEF F
      <3> QED
        BY <2>1, <3>2, <3>3 DEF DecimalStep, q
    <2> QED
      BY <2>2, <2>3
  <1>4. F = Body10(F)
    <2>1. F = [n \in Nat |-> F[n]]
      OBVIOUS
    <2> HIDE DEF F
    <2> QED
      BY <1>3, <2>1
  <1> HIDE DEF F
  <1>5. Decimal = CHOOSE f : f = Body10(f)
    BY DEF Decimal, DecimalStep
  <1>6. Decimal = Body10(Decimal)
    BY <1>4, <1>5
  <1> QED
    BY <1>6

\* One more digit at the end.
LEMMA ValueAppend ==
  ASSUME NEW t \in Seq(Digits), NEW c \in Digits
  PROVE  ValueOf(t) \in Nat /\ ValueOf(Append(t, c)) = 10 * ValueOf(t) + DigitOf(c)
  <1> DEFINE n == Len(t)
             u == Append(t, c)
  <1>1. /\ n \in Nat /\ u \in Seq(Digits) /\ Len(u) = n + 1
        /\ u[n + 1] = c /\ \A i \in 1 .. n : u[i] = t[i]
    OBVIOUS
  <1>2. PICK v : IsValueOf(v, t) /\ ValueOf(t) = v[n]
    BY ValueRead
  <1>3. PICK w : IsValueOf(w, u) /\ ValueOf(u) = w[n + 1]
    BY <1>1, ValueRead
  <1> DEFINE S == {i \in 0 .. n : w[i] = v[i]}
  <1>4. v[0] = 0 /\ w[0] = 0 /\ v[n] \in Nat
        /\ \A i \in 1 .. n : v[i] = 10 * v[i - 1] + DigitOf(t[i])
    BY <1>1, <1>2, <1>3 DEF IsValueOf, IsValueUpto
  <1>5. \A i \in 1 .. (n + 1) : w[i] = 10 * w[i - 1] + DigitOf(u[i])
    BY <1>1, <1>3 DEF IsValueOf, IsValueUpto
  <1> HIDE DEF n, u
  <1>6. 0 \in S
    BY <1>1, <1>4
  <1>7. ASSUME NEW i \in 0 .. (n - 1), i \in S PROVE i + 1 \in S
    <2>1. i + 1 \in 1 .. n /\ i + 1 \in 1 .. (n + 1) /\ (i + 1) - 1 = i /\ i + 1 \in 0 .. n
      BY <1>1
    <2>2. v[i + 1] = 10 * v[i] + DigitOf(t[i + 1])
      BY <1>4, <2>1
    <2>3. w[i + 1] = 10 * w[i] + DigitOf(u[i + 1])
      BY <1>5, <2>1
    <2>4. u[i + 1] = t[i + 1] /\ w[i] = v[i]
      BY <1>1, <1>7, <2>1
    <2> QED
      BY <2>1, <2>2, <2>3, <2>4
  <1> HIDE DEF S
  <1>8. \A i \in 0 .. n : i \in S
    BY <1>1, <1>6, <1>7, StepInduction
  <1>9. w[n] = v[n]
    BY <1>1, <1>8 DEF S
  <1>10. w[n + 1] = 10 * w[n] + DigitOf(u[n + 1])
    <2>1. n + 1 \in 1 .. (n + 1) /\ (n + 1) - 1 = n
      BY <1>1
    <2> QED
      BY <1>5, <2>1
  <1> QED
    BY <1>1, <1>2, <1>3, <1>4, <1>9, <1>10 DEF u

\* One digit.
LEMMA ValueOne ==
  ASSUME NEW c \in Digits
  PROVE  ValueOf(<<c>>) = DigitOf(c) /\ DigitOf(c) \in 0 .. 9
  <1>1. <<c>> \in Seq(Digits) /\ Len(<<c>>) = 1 /\ <<c>>[1] = c
    OBVIOUS
  <1>2. PICK v : IsValueOf(v, <<c>>) /\ ValueOf(<<c>>) = v[1]
    BY <1>1, ValueRead
  <1>3. v[0] = 0 /\ v[1] = 10 * v[0] + DigitOf(c)
    <2>1. 1 \in 1 .. 1 /\ 1 - 1 = 0
      OBVIOUS
    <2> QED
      BY <1>1, <1>2, <2>1 DEF IsValueOf, IsValueUpto
  <1>4. DigitOf(c) \in 0 .. 9
    BY DigitKnown DEF Digits, IsDigit
  <1> QED
    BY <1>2, <1>3, <1>4

\* The digits that Redis prints.
LEMMA AsciiDigit ==
  ASSUME NEW d \in 0 .. 9
  PROVE  /\ AsciiDigits[d + 1] \in ToSet(AsciiDigits) /\ AsciiDigits[d + 1] \in Digits
         /\ DigitOf(AsciiDigits[d + 1]) = d
         /\ AsciiDigits[d + 1] = "0" <=> d = 0
  <1>1. AsciiDigits[d + 1] \in ToSet(AsciiDigits)
    BY DigitTables DEF ToSet
  <1>2. AsciiDigits[d + 1] \in Digits /\ DigitOf(AsciiDigits[d + 1]) = d
    BY <1>1, DigitRead DEF Digits
  <1>3. AsciiDigits[d + 1] = "0" <=> d = 0
    <2>1. d \in {0, 1, 2, 3, 4, 5, 6, 7, 8, 9}
      BY DigitTables
    <2> QED
      BY <2>1, DigitTables
  <1> QED
    BY <1>1, <1>2, <1>3

\* The text of a number: digits, without a zero in front, that read as it.
WellPrinted(n) ==
    /\ Decimal[n] \in Seq(ToSet(AsciiDigits))
    /\ Len(Decimal[n]) >= 1
    /\ ValueOf(Decimal[n]) = n
    /\ IF n = 0 THEN Decimal[n] = <<"0">> ELSE Decimal[n][1] # "0"

\* Decimal prints every number in that way.
LEMMA DecimalText == \A n \in Nat : WellPrinted(n)
  <1> DEFINE D == {n \in Nat : ~WellPrinted(n)}
  <1> SUFFICES ASSUME D # {} PROVE FALSE
    OBVIOUS
  <1>1. D \in SUBSET Nat
    OBVIOUS
  <1>2. PICK x \in D : \A y \in D : x <= y
    <2> HIDE DEF D
    <2> QED
      BY <1>1, LeastElement
  <1>3. x \in Nat /\ ~WellPrinted(x) /\ \A y \in Nat : y < x => WellPrinted(y)
    BY <1>2
  <1>4. Decimal[x] = DecimalStep(Decimal, x)
    BY <1>3, DecimalDefined
  <1>5. CASE x < 10
    <2>1. x \in 0 .. 9 /\ Decimal[x] = <<AsciiDigits[x + 1]>>
      BY <1>3, <1>4, <1>5 DEF DecimalStep
    <2> DEFINE c == AsciiDigits[x + 1]
    <2>2. c \in ToSet(AsciiDigits) /\ c \in Digits /\ DigitOf(c) = x /\ (c = "0" <=> x = 0)
      BY <2>1, AsciiDigit
    <2>3. Decimal[x] = <<c>>
      BY <2>1
    <2> HIDE DEF c
    <2>4. ValueOf(<<c>>) = x
      BY <2>2, ValueOne
    <2> QED
      BY <1>3, <2>2, <2>3, <2>4 DEF WellPrinted
  <1>6. CASE x >= 10
    <2> DEFINE q == x \div 10
               c == AsciiDigits[(x % 10) + 1]
    <2>1. q \in Nat /\ x % 10 \in 0 .. 9 /\ q >= 1 /\ q < x /\ x = 10 * q + (x % 10)
      BY <1>3, <1>6, Division
    <2>2. c \in ToSet(AsciiDigits) /\ c \in Digits /\ DigitOf(c) = x % 10
      BY <2>1, AsciiDigit
    <2>3. Decimal[x] = Append(Decimal[q], c)
      BY <1>3, <1>4, <1>6 DEF DecimalStep
    <2> HIDE DEF q, c
    <2>4. /\ Decimal[q] \in Seq(ToSet(AsciiDigits)) /\ Len(Decimal[q]) >= 1
          /\ ValueOf(Decimal[q]) = q /\ Decimal[q][1] # "0"
      BY <1>3, <2>1 DEF WellPrinted
    <2>5. Decimal[q] \in Seq(Digits)
      <3>1. ToSet(AsciiDigits) \subseteq Digits
        BY DEF Digits
      <3> HIDE DEF Digits
      <3> QED
        BY <2>4, <3>1
    <2>6. ValueOf(Decimal[x]) = x
      BY <2>1, <2>2, <2>3, <2>4, <2>5, ValueAppend
    <2>7. /\ Decimal[x] \in Seq(ToSet(AsciiDigits)) /\ Len(Decimal[x]) >= 1
          /\ Decimal[x][1] # "0"
      BY <2>2, <2>3, <2>4
    <2> QED
      BY <1>3, <1>6, <2>6, <2>7 DEF WellPrinted
  <1> QED
    BY <1>3, <1>5, <1>6

\* The digits of a text in the script that Redis prints.
InAscii(t) == [i \in 1 .. Len(t) |-> AsciiDigits[DigitOf(t[i]) + 1]]

\* A text of digits without a zero in front is what Redis prints for its value.
LEMMA DecimalOfValue ==
  ASSUME NEW t \in Seq(Digits), t # <<>>,
         t = <<"0">> \/ t[1] \in ToSet(AsciiDigits) \ {"0"}
  PROVE  Decimal[ValueOf(t)] = InAscii(t)
  <1> DEFINE n == Len(t)
  <1>1. n \in Nat /\ n >= 1 /\ \A i \in 1 .. n : t[i] \in Digits
    OBVIOUS
  <1>2. PICK v : IsValueOf(v, t) /\ ValueOf(t) = v[n]
    BY ValueRead
  <1>3. v[0] = 0 /\ \A i \in 1 .. n : v[i] \in Nat /\ v[i] = 10 * v[i - 1] + DigitOf(t[i])
    BY <1>1, <1>2 DEF IsValueOf, IsValueUpto
  <1>4. \A i \in 1 .. n : DigitOf(t[i]) \in 0 .. 9
    BY <1>1, DigitKnown DEF IsDigit, Digits
  <1> DEFINE Upto(m) == [i \in 1 .. m |-> AsciiDigits[DigitOf(t[i]) + 1]]
             S == {m \in 0 .. (n - 1) :
                      /\ Decimal[v[m + 1]] = Upto(m + 1)
                      /\ t # <<"0">> => v[m + 1] >= 1}
  <1> HIDE DEF n
  <1>5. 0 \in S
    <2>1. v[1] = DigitOf(t[1]) /\ DigitOf(t[1]) \in 0 .. 9
      <3>1. 1 \in 1 .. n /\ 1 - 1 = 0
        BY <1>1
      <3> QED
        BY <1>3, <1>4, <3>1
    <2>2. Decimal[v[1]] = <<AsciiDigits[DigitOf(t[1]) + 1]>>
      <3>1. v[1] \in Nat /\ v[1] < 10
        BY <2>1
      <3>2. Decimal[v[1]] = DecimalStep(Decimal, v[1])
        BY <3>1, DecimalDefined
      <3> QED
        BY <2>1, <3>1, <3>2 DEF DecimalStep
    <2>3. Upto(1) = <<AsciiDigits[DigitOf(t[1]) + 1]>>
      OBVIOUS
    <2>4. t # <<"0">> => DigitOf(t[1]) # 0
      <3>1. SUFFICES ASSUME t[1] \in ToSet(AsciiDigits) \ {"0"}, DigitOf(t[1]) = 0 PROVE FALSE
        OBVIOUS
      <3>2. t[1] \in {AsciiDigits[1], OtherDigits[1]}
        BY <1>1, <3>1, DigitKnown DEF IsDigit, Digits
      <3>3. t[1] = "u0"
        BY <3>1, <3>2, DigitTables
      <3>4. PICK j \in 1 .. 10 : AsciiDigits[j] = "u0"
        BY <3>1, <3>3, DigitTables DEF ToSet
      <3>5. j - 1 \in 0 .. 9 /\ (j - 1) + 1 = j
        OBVIOUS
      <3>6. j - 1 \in {0, 1, 2, 3, 4, 5, 6, 7, 8, 9}
        BY <3>5, DigitTables
      <3> QED
        BY <3>4, <3>5, <3>6, DigitTables
    <2> QED
      BY <1>1, <2>1, <2>2, <2>3, <2>4
  <1>6. ASSUME NEW m \in 0 .. (n - 1 - 1), m \in S PROVE m + 1 \in S
    <2> DEFINE d == DigitOf(t[(m + 1) + 1])
               w == v[m + 1]
    <2>1. /\ m \in Nat /\ m + 1 \in 0 .. (n - 1) /\ m + 1 \in 1 .. n
          /\ (m + 1) + 1 \in 1 .. n /\ ((m + 1) + 1) - 1 = m + 1
      BY <1>1
    <2>2. v[(m + 1) + 1] = 10 * w + d /\ d \in 0 .. 9 /\ w \in Nat
      BY <1>3, <1>4, <2>1
    <2>3. t # <<"0">>
      <3>1. Len(t) # 1
        BY <1>1, <2>1 DEF n
      <3>2. Len(<<"0">>) = 1
        OBVIOUS
      <3> QED
        BY <3>1, <3>2
    <2>4. Decimal[w] = Upto(m + 1) /\ w >= 1
      BY <1>6, <2>3
    <2>5. Upto((m + 1) + 1) = Append(Upto(m + 1), AsciiDigits[d + 1])
      BY <2>1
    <2> HIDE DEF d, w, Upto
    <2>6. /\ 10 * w + d \in Nat /\ 10 * w + d >= 10
          /\ (10 * w + d) \div 10 = w /\ (10 * w + d) % 10 = d
      BY <2>2, <2>4, Composition
    <2>7. Decimal[10 * w + d] = Append(Decimal[w], AsciiDigits[d + 1])
      <3>1. Decimal[10 * w + d] = DecimalStep(Decimal, 10 * w + d)
        BY <2>6, DecimalDefined
      <3> DEFINE x == 10 * w + d
      <3>2. x \div 10 = w /\ x % 10 = d /\ ~(x < 10)
        BY <2>6
      <3>3. Decimal[x] = DecimalStep(Decimal, x)
        BY <3>1
      <3> HIDE DEF x
      <3>4. Decimal[x] = Append(Decimal[w], AsciiDigits[d + 1])
        BY <3>2, <3>3 DEF DecimalStep
      <3> QED
        BY <3>4 DEF x
    <2>8. Decimal[v[(m + 1) + 1]] = Upto((m + 1) + 1) /\ v[(m + 1) + 1] >= 1
      BY <2>2, <2>4, <2>5, <2>6, <2>7
    <2> QED
      BY <2>1, <2>8
  <1> HIDE DEF S
  <1>7. n - 1 \in Nat
    BY <1>1
  <1>8. \A m \in 0 .. (n - 1) : m \in S
    BY <1>5, <1>6, <1>7, StepInduction
  <1>9. n - 1 \in S /\ (n - 1) + 1 = n
    BY <1>1, <1>7, <1>8
  <1>10. Decimal[v[n]] = Upto(n)
    BY <1>9 DEF S
  <1> QED
    BY <1>2, <1>10 DEF InAscii, n

-----------------------------------------------------------------------------
(* Scalars are exact *)

\* What is in front of the newline at the end.
LEMMA UnendedParts ==
  ASSUME NEW t \in Texts, Unended(t) # <<>>
  PROVE  /\ Len(Unended(t)) \in Nat /\ Len(Unended(t)) >= 1
         /\ DOMAIN Unended(t) = 1 .. Len(Unended(t))
         /\ \A i \in 1 .. Len(Unended(t)) : Unended(t)[i] = t[i]
         /\ Negative(t) <=> Negative(Unended(t))
  <1> DEFINE u == Unended(t)
  <1>1. u \in Texts
    BY TextParts
  <1>2. \A i \in 1 .. Len(u) : u[i] = t[i]
    <2>1. CASE u = t
      BY <2>1
    <2>2. CASE t # <<>> /\ u = Front(t)
      BY <2>2 DEF Front, Texts
    <2> QED
      BY <2>1, <2>2 DEF Unended
  <1>3. t # <<>>
    BY DEF Unended
  <1> HIDE DEF u
  <1>4. u # <<>>
    BY DEF u
  <1>5. Len(u) \in Nat /\ Len(u) >= 1 /\ DOMAIN u = 1 .. Len(u)
    BY <1>1, <1>4 DEF Texts
  <1>6. Negative(t) <=> Negative(u)
    <2>1. u[1] = t[1]
      BY <1>2, <1>5
    <2> QED
      BY <1>1, <1>3, <1>4, <2>1 DEF Negative, Texts
  <1> QED
    BY <1>2, <1>5, <1>6 DEF u

\* The sign and what is behind it.
LEMMA CoreParts ==
  ASSUME NEW t \in Texts, Core(t) # <<>>
  PROVE  /\ Unended(t) # <<>>
         /\ ~Negative(t) => Core(t) = Unended(t)
         /\ Negative(t) => /\ Len(Unended(t)) = Len(Core(t)) + 1
                           /\ Unended(t)[1] = "-"
                           /\ \A i \in 1 .. Len(Core(t)) : Unended(t)[i + 1] = Core(t)[i]
  <1> DEFINE u == Unended(t)
             c == Core(t)
  <1>1. u \in Texts
    BY TextParts
  <1>2. c = IF Negative(u) THEN Tail(u) ELSE u
    BY DEF Core, Unsigned
  <1>3. u # <<>>
    <2>1. ~Negative(<<>>)
      BY DEF Negative
    <2> QED
      BY <1>2, <2>1
  <1>4. Negative(t) <=> Negative(u)
    BY <1>3, UnendedParts
  <1> HIDE DEF u, c
  <1>5. ASSUME Negative(t)
        PROVE  Len(u) = Len(c) + 1 /\ u[1] = "-" /\ \A i \in 1 .. Len(c) : u[i + 1] = c[i]
    <2>1. c = Tail(u) /\ Head(u) = "-"
      BY <1>2, <1>4, <1>5 DEF Negative
    <2> QED
      BY <1>1, <1>3, <2>1 DEF Texts
  <1> QED
    BY <1>2, <1>3, <1>4, <1>5 DEF u, c

\* What Redis prints for an integer is read as that integer.
LEMMA PrintedRead ==
  ASSUME NEW t \in Texts, NEW n \in Int, t = Printed(n)
  PROVE  ~IsBinary(t) /\ MatchesInt(t) /\ IntOf(t) = n
  <1> DEFINE m == IF n < 0 THEN -n ELSE n
             d == Decimal[m]
  <1>1. m \in Nat
    OBVIOUS
  <1>2. WellPrinted(m)
    BY <1>1, DecimalText
  <1>3. t = IF n < 0 THEN <<"-">> \o d ELSE d
    BY DEF Printed
  <1>4. /\ d \in Seq(ToSet(AsciiDigits)) /\ Len(d) \in Nat /\ Len(d) >= 1 /\ ValueOf(d) = m
        /\ IF m = 0 THEN d = <<"0">> ELSE d[1] # "0"
    BY <1>2 DEF WellPrinted
  <1> HIDE DEF d
  <1>5. \A i \in 1 .. Len(d) : d[i] \in ToSet(AsciiDigits) /\ IsDigit(d[i])
    BY <1>4 DEF IsDigit
  <1>6. \A i \in 1 .. Len(d) : d[i] \notin {"-", "NL", "FF"}
    BY <1>5, OtherCharacters
  <1>7. Core(t) = d /\ ~IsBinary(t) /\ (Negative(t) <=> n < 0)
    <2>1. CASE n >= 0
      <3>1. t = d /\ t # <<>> /\ Last(t) = d[Len(d)] /\ Head(t) = d[1]
        BY <1>3, <1>4, <2>1 DEF Last
      <3>2. d[1] # "-" /\ d[Len(d)] # "NL"
        BY <1>4, <1>6
      <3>3. Unended(t) = t /\ ~Negative(t)
        BY <3>1, <3>2 DEF Unended, Negative
      <3>4. ~IsBinary(t)
        BY <1>4, <1>6, <3>1 DEF IsBinary, Contains
      <3> QED
        BY <2>1, <3>1, <3>3, <3>4 DEF Core, Unsigned
    <2>2. CASE n < 0
      <3>1. t = <<"-">> \o d
        BY <1>3, <2>2
      <3>2. /\ t # <<>> /\ Len(t) = Len(d) + 1 /\ t[1] = "-"
            /\ \A i \in 1 .. Len(d) : t[i + 1] = d[i]
        BY <1>4, <3>1
      <3>3. Tail(t) = d
        <4>1. t \in Seq(STRING)
          BY DEF Texts
        <4>2. Len(Tail(t)) = Len(d) /\ \A i \in 1 .. Len(d) : Tail(t)[i] = d[i]
          BY <1>4, <3>2, <4>1
        <4>3. Tail(t) \in Seq(STRING)
          BY <3>2, <4>1
        <4> QED
          BY <1>4, <4>2, <4>3
      <3>4. t[Len(t)] # "NL" /\ t[Len(t)] = Last(t) /\ Head(t) = "-"
        BY <1>4, <1>6, <3>2 DEF Last
      <3>5. Unended(t) = t /\ Negative(t)
        BY <3>2, <3>4 DEF Unended, Negative
      <3>6. ASSUME NEW i \in 1 .. Len(t) PROVE t[i] # "FF"
        <4>1. CASE i = 1
          BY <3>2, <4>1
        <4>2. CASE i # 1
          <5>1. i - 1 \in 1 .. Len(d) /\ (i - 1) + 1 = i
            BY <1>4, <3>2, <4>2
          <5>2. t[(i - 1) + 1] = d[i - 1]
            BY <3>2, <5>1
          <5> QED
            BY <1>6, <5>1, <5>2
        <4> QED
          BY <4>1, <4>2
      <3>7. ~IsBinary(t)
        BY <3>6 DEF IsBinary, Contains
      <3> QED
        BY <2>2, <3>3, <3>5, <3>7 DEF Core, Unsigned
    <2> QED
      BY <2>1, <2>2
  <1>8. MatchesInt(t)
    <2>1. AllDigits(d) /\ Head(d) = d[1] /\ d[1] \in ToSet(AsciiDigits)
      BY <1>4, <1>5 DEF AllDigits
    <2> QED
      BY <1>4, <1>7, <2>1 DEF MatchesInt
  <1>9. IntOf(t) = IF n < 0 THEN -m ELSE m
    BY <1>4, <1>7 DEF IntOf
  <1> QED
    BY <1>7, <1>8, <1>9

\* An integer prints as the text it was read from.
LEMMA ReadPrinted ==
  ASSUME NEW t \in Texts, MatchesInt(t)
  PROVE  Printed(IntOf(t)) = Plain(t)
  <1> DEFINE u == Unended(t)
             c == Core(t)
             N == ValueOf(c)
             a == InAscii(c)
             plain == [i \in DOMAIN u |->
                          IF IsDigit(t[i]) THEN AsciiDigits[DigitOf(t[i]) + 1] ELSE t[i]]
  <1>1. c \in Seq(Digits) /\ c # <<>> /\ N \in Nat
    BY IntDigits, IntType
  <1>2. c = <<"0">> \/ c[1] \in ToSet(AsciiDigits) \ {"0"}
    <2>1. Head(c) = c[1]
      BY <1>1
    <2> QED
      BY <2>1 DEF MatchesInt
  <1>3. Decimal[N] = a
    BY <1>1, <1>2, DecimalOfValue
  <1>4. WellPrinted(N)
    BY <1>1, DecimalText
  <1>5. u # <<>> /\ DOMAIN u = 1 .. Len(u) /\ \A i \in 1 .. Len(u) : u[i] = t[i]
    BY <1>1, CoreParts, UnendedParts
  <1>6. ~Negative(t) => u = c
    BY <1>1, CoreParts
  <1>7. Negative(t) => /\ Len(u) = Len(c) + 1 /\ u[1] = "-"
                        /\ \A i \in 1 .. Len(c) : u[i + 1] = c[i]
    BY <1>1, CoreParts
  <1>8. Plain(t) = IF plain = <<"-", "0">> THEN <<"0">> ELSE plain
    BY DEF Plain
  <1>9. IntOf(t) = IF Negative(t) THEN -N ELSE N
    BY DEF IntOf
  <1>10. Len(c) \in Nat /\ Len(c) >= 1 /\ \A i \in 1 .. Len(c) : IsDigit(c[i])
    BY <1>1 DEF Digits, IsDigit
  <1>11. /\ a \in Seq(ToSet(AsciiDigits)) /\ Len(a) = Len(c)
         /\ \A i \in 1 .. Len(c) : a[i] = AsciiDigits[DigitOf(c[i]) + 1]
    <2>1. a = [i \in 1 .. Len(c) |-> AsciiDigits[DigitOf(c[i]) + 1]]
      BY DEF InAscii
    <2> HIDE DEF a, c, N
    <2>2. Len(a) = Len(c) /\ \A i \in 1 .. Len(c) : a[i] = AsciiDigits[DigitOf(c[i]) + 1]
      BY <1>10, <2>1
    <2> QED
      BY <1>3, <1>4, <2>2 DEF WellPrinted
  <1> HIDE DEF u, c, N, a
  <1>a. N = 0 => a = <<"0">>
    BY <1>3, <1>4 DEF WellPrinted
  <1>b. N # 0 => a[1] # "0"
    BY <1>3, <1>4 DEF WellPrinted
  <1>12. plain = [i \in 1 .. Len(u) |->
                     IF IsDigit(u[i]) THEN AsciiDigits[DigitOf(u[i]) + 1] ELSE u[i]]
    BY <1>5
  <1> HIDE DEF plain
  <1>13. CASE ~Negative(t)
    <2>1. u = c
      BY <1>6, <1>13
    <2>2. plain = a
      <3>1. plain = [i \in 1 .. Len(c) |-> AsciiDigits[DigitOf(c[i]) + 1]]
        BY <1>10, <1>12, <2>1
      <3> QED
        BY <3>1 DEF a, InAscii, c
    <2>3. a[1] # "-"
      <3>1. a[1] \in ToSet(AsciiDigits)
        BY <1>10, <1>11
      <3>2. IsDigit(a[1])
        BY <3>1 DEF IsDigit
      <3> QED
        BY <3>2, OtherCharacters
    <2>4. Plain(t) = a
      BY <1>8, <2>2, <2>3
    <2>5. Printed(IntOf(t)) = Decimal[N]
      BY <1>1, <1>9, <1>13 DEF Printed
    <2> QED
      BY <1>3, <2>4, <2>5
  <1>14. CASE Negative(t)
    <2>1. ~IsDigit("-")
      BY OtherCharacters
    <2>2. plain = <<"-">> \o a
      <3>1. Len(u) = Len(c) + 1 /\ u[1] = "-" /\ \A i \in 1 .. Len(c) : u[i + 1] = c[i]
        BY <1>7, <1>14
      <3>2. ASSUME NEW i \in 1 .. (Len(c) + 1)
            PROVE  (IF IsDigit(u[i]) THEN AsciiDigits[DigitOf(u[i]) + 1] ELSE u[i])
                     = IF i = 1 THEN "-" ELSE a[i - 1]
        <4>1. CASE i = 1
          BY <2>1, <3>1, <4>1
        <4>2. CASE i # 1
          <5>1. i - 1 \in 1 .. Len(c) /\ (i - 1) + 1 = i
            BY <1>10, <4>2
          <5>2. u[(i - 1) + 1] = c[i - 1]
            BY <3>1, <5>1
          <5>3. u[i] = c[i - 1]
            BY <5>1, <5>2
          <5>4. IsDigit(u[i]) /\ a[i - 1] = AsciiDigits[DigitOf(u[i]) + 1]
            BY <1>10, <1>11, <5>1, <5>3
          <5> QED
            BY <4>2, <5>4
        <4> QED
          BY <4>1, <4>2
      <3>3. plain = [i \in 1 .. (Len(c) + 1) |-> IF i = 1 THEN "-" ELSE a[i - 1]]
        BY <1>12, <3>1, <3>2
      <3>4. <<"-">> \o a = [i \in 1 .. (Len(c) + 1) |-> IF i = 1 THEN "-" ELSE a[i - 1]]
        BY <1>10, <1>11
      <3> QED
        BY <3>3, <3>4
    <2>3. CASE N = 0
      <3>1. a = <<"0">> /\ plain = <<"-", "0">>
        <4>1. a = <<"0">>
          BY <1>a, <2>3
        <4>2. <<"-">> \o <<"0">> = <<"-", "0">>
          <5>1. <<"-">> \in Seq({"-", "0"}) /\ <<"0">> \in Seq({"-", "0"})
            OBVIOUS
          <5> DEFINE w == <<"-">> \o <<"0">>
          <5>2. w \in Seq({"-", "0"}) /\ Len(w) = 2 /\ w[1] = "-" /\ w[2] = "0"
            BY <5>1
          <5> HIDE DEF w
          <5>3. w = <<"-", "0">>
            BY <5>2
          <5> QED
            BY <5>3 DEF w
        <4> QED
          BY <2>2, <4>1, <4>2
      <3>2. Plain(t) = <<"0">>
        BY <1>8, <3>1
      <3>3. IntOf(t) = 0
        <4>1. IntOf(t) = -N
          BY <1>9, <1>14
        <4>2. N \in Nat /\ N <= 0
          BY <1>1, <2>3
        <4>3. -N = 0
          BY <4>2
        <4> QED
          BY <4>1, <4>3
      <3>4. Printed(IntOf(t)) = Decimal[0]
        BY <3>3 DEF Printed
      <3> QED
        BY <1>3, <2>3, <3>1, <3>2, <3>4
    <2>4. CASE N # 0
      <3>1. plain[2] = a[1]
        BY <1>10, <1>11, <2>2
      <3>2. plain # <<"-", "0">>
        <4>1. a[1] # "0"
          BY <1>b, <2>4
        <4> QED
          BY <3>1, <4>1
      <3>3. Plain(t) = plain
        BY <1>8, <3>2
      <3>4. IntOf(t) = -N /\ -N < 0 /\ -(-N) = N
        BY <1>1, <1>9, <1>14, <2>4
      <3>5. Printed(IntOf(t)) = <<"-">> \o Decimal[N]
        BY <3>4 DEF Printed
      <3> QED
        BY <1>3, <2>2, <3>3, <3>5
    <2> QED
      BY <2>3, <2>4
  <1> QED
    BY <1>13, <1>14

\* _FLOAT_RE and the test for ".eE" refuse digits alone.
LEMMA DigitsNoFloat ==
  ASSUME NEW t \in Texts, AllDigits(Core(t))
  PROVE  ~MatchesFloat(t)
  <1> DEFINE b == Core(t)
             m == Mantissa(b)
  <1>1. b \in Texts /\ \A i \in DOMAIN b : b[i] \notin {".", "e", "E"}
    BY TextParts, OtherCharacters DEF AllDigits
  <1> SUFFICES ASSUME m # b \/ Contains(m, ".") PROVE FALSE
    BY DEF MatchesFloat
  <1> HIDE DEF b
  <1>2. ExponentAt(b) = Len(b) + 1
    <2>1. {i \in DOMAIN b : b[i] \in {"e", "E"}} = {}
      BY <1>1
    <2> QED
      BY <2>1 DEF ExponentAt
  <1>3. m = SubSeq(b, 1, Len(b))
    <2>1. Len(b) \in Nat
      BY <1>1 DEF Texts
    <2>2. Len(b) + 1 - 1 = Len(b)
      BY <2>1
    <2> QED
      BY <1>2, <2>2 DEF Mantissa
  <1>4. m = b
    BY <1>1, <1>3 DEF Texts
  <1>5. ~Contains(b, ".")
    BY <1>1 DEF Contains, Texts
  <1> QED
    BY <1>4, <1>5

\* coerce_scalar on any text.
LEMMA CoerceExact ==
  ASSUME NEW t \in Texts, NEW s, s = Coerce(t)
  PROVE  /\ t \in IntTexts => s.kind = "int"
         /\ s.kind = "int" => Printed(s.number) = Plain(t)
         /\ s.kind = "float" => ~AllDigits(Core(t))
         /\ s.kind \in {"str", "bytes"} => s.text = t
         /\ s.kind = "bytes" <=> IsBinary(t)
  <1>1. ASSUME t \in IntTexts PROVE s.kind = "int"
    <2>1. PICK n \in IntMin .. IntMax : t = Printed(n)
      BY <1>1 DEF IntTexts
    <2>2. n \in Int /\ InRange(n)
      BY ScalarsAssumption DEF InRange
    <2>3. ~IsBinary(t) /\ MatchesInt(t) /\ IntOf(t) = n
      BY <2>1, <2>2, PrintedRead
    <2> QED
      BY <2>2, <2>3, CoerceCases
  <1>2. ASSUME s.kind = "int" PROVE Printed(s.number) = Plain(t)
    <2>1. MatchesInt(t) /\ s.number = IntOf(t)
      BY <1>2, CoerceCases, TextKinds
    <2> QED
      BY <2>1, ReadPrinted
  <1>3. ASSUME s.kind = "float" PROVE ~AllDigits(Core(t))
    <2>1. MatchesFloat(t)
      BY <1>3, CoerceCases, TextKinds
    <2> QED
      BY <2>1, DigitsNoFloat
  <1>4. s.kind \in {"str", "bytes"} => s.text = t
    BY CoerceCases, TextKinds
  <1>5. s.kind = "bytes" <=> IsBinary(t)
    BY CoerceCases, TextKinds
  <1> QED
    BY <1>1, <1>2, <1>3, <1>4, <1>5

\* What coerce_scalar makes of the items of strings and lists: integers of 64 bits
\* are recognised, whatever they are, and no number says anything else than the
\* text it came from.
THEOREM ScalarsAreExact == Spec => []ScalarsExact
  <1>1. MappingInv => ScalarsExact
    <2> SUFFICES ASSUME MappingInv, NEW p \in DOMAIN store,
                        redis[store[p].from].type \in {"string", "list"},
                        NEW item \in redis[store[p].from].items
                 PROVE  LET t == item[2]
                            s == ContentOf(p, item[1])
                        IN  /\ t \in IntTexts => s.kind = "int"
                            /\ s.kind = "int" => Printed(s.number) = Plain(t)
                            /\ s.kind = "float" => ~AllDigits(Core(t))
                            /\ s.kind \in {"str", "bytes"} => s.text = t
                            /\ s.kind = "bytes" <=> IsBinary(t)
      BY DEF ScalarsExact
    <2> DEFINE v == redis[store[p].from]
               n == NameOf(v.type, item[1])
    <2>1. IsValue(v) /\ store[p].content = Converted(v)
      BY DEF MappingInv, RecordOK, ConfigOK, Migrated
    <2>2. ContentOf(p, item[1]) = Converted(v)[n]
      BY <2>1 DEF ContentOf
    <2>3. item \in v.items /\ v.type \in {"string", "list"}
      OBVIOUS
    <2> HIDE DEF v
    <2>4. n \in DOMAIN Converted(v)
      BY <2>3 DEF Converted
    <2>5. PICK other \in v.items : /\ NameOf(v.type, other[1]) = n
                                   /\ Converted(v)[n] = ScalarOf(v.type, other[2])
      BY <2>4, ConvertedFrom
    <2>6. item[1] \in Texts /\ item[2] \in Texts /\ other[1] \in Texts
      BY <2>1, <2>3 DEF IsValue
    <2>7. other[1] = item[1]
      BY <2>3, <2>5, <2>6, NamesApart
    <2>8. other = item
      BY <2>1, <2>3, <2>7 DEF IsValue
    <2>9. ContentOf(p, item[1]) = Coerce(item[2])
      BY <2>2, <2>3, <2>5, <2>8 DEF ScalarOf
    <2> QED
      BY <2>6, <2>9, CoerceExact
  <1> QED
    BY <1>1, MappingInvariant, PTL
=============================================================================
