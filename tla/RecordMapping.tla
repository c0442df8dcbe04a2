--------------------------- MODULE RecordMapping ---------------------------
(***************************************************************************)
(* What _prepare makes of a Redis key: SetRouter chooses the Aerospike set *)
(* and the key in it, the registry's converter of the type makes the bins. *)
(* A migration of a few keys, in any order, shows which of them end up in  *)
(* one record, and what is left of their values.                           *)
(*                                                                         *)
(* Keys and scalars are the texts of module Scalars: routes cut literals   *)
(* off a key, and which scalars read as numbers is decided by characters.  *)
(* A value is its type and its items, pairs of a name and a scalar: the    *)
(* position and the element of a list, the member (and score) of a set or  *)
(* sorted set, the field and value of a hash.                              *)
(***************************************************************************)
EXTENDS Scalars

CONSTANTS
    Keys,          \* texts: the keys of Redis
    Routes,        \* [pattern, set, strategy, bin]: the routes
    Starts,        \* [routes, strategy, redis]: configurations, and keys with values
    DefaultSet,    \* config.aerospike.set_name
    ValueBin,      \* config.aerospike.value_bin
    Unset          \* an option of a route that is None

Strategies == {"map_bin", "field_bins"}

\* A value as Redis has it: its items have different names.
IsValue(v) ==
    /\ IsFiniteSet(v.items)
    /\ v.items \subseteq Texts \X Texts
    /\ \A item, other \in v.items : item[1] = other[1] => item = other

ASSUME MappingAssumption ==
    /\ Keys \subseteq Texts
    /\ \A r \in Routes : r.pattern \in Texts /\ r.strategy \in Strategies \cup {Unset}
    /\ \A s \in Starts :
           /\ s.routes \in Seq(Routes)
           /\ s.strategy \in Strategies
           /\ DOMAIN s.redis \subseteq Keys
           /\ \A k \in DOMAIN s.redis : IsValue(s.redis[k])

VARIABLES
    routes,     \* config.aerospike.set_routes
    strategy,   \* config.hash_strategy
    redis,      \* redis[k]: the value of k
    outcome,    \* outcome[k]: "todo", or how k was counted
    store       \* store[p]: the record at place p, and the key it came from

config == <<routes, strategy>>
vars == <<config, redis, outcome, store>>

Init ==
    /\ \E s \in Starts : routes = s.routes /\ strategy = s.strategy /\ redis = s.redis
    /\ outcome = [k \in DOMAIN redis |-> "todo"]
    /\ store = [p \in {} |-> 0]

-----------------------------------------------------------------------------
(* SetRouter *)

Count(char, pattern) == Cardinality({i \in DOMAIN pattern : pattern[i] = char})

\* fnmatch: the pattern's characters can be laid along the text, "*" taking
\* any number of its characters and all others one.
Fits(text, pattern) ==
    \E upto \in [0 .. Len(pattern) -> 0 .. Len(text)] :
        /\ upto[0] = 0
        /\ upto[Len(pattern)] = Len(text)
        /\ \A i \in DOMAIN pattern :
               IF pattern[i] = "*" THEN upto[i - 1] <= upto[i]
               ELSE /\ upto[i] = upto[i - 1] + 1
                    /\ pattern[i] \in {"?", text[upto[i]]}

FitTable == [t \in Keys |-> [p \in {r.pattern : r \in Routes} |-> Fits(t, p)]]

\* The positions of the routes that the key matches; none for a binary key.
MatchedBy(k) ==
    {i \in DOMAIN routes : ~IsBinary(k) /\ FitTable[k][routes[i].pattern]}

\* The position of the first route that matches, or 0.
RouteOf(k) ==
    IF MatchedBy(k) = {} THEN 0
    ELSE CHOOSE i \in MatchedBy(k) : \A j \in MatchedBy(k) : i <= j

\* The pattern is rewritten: one "*", and no other special character.
Rewrites(pattern) == Count("*", pattern) = 1 /\ Count("?", pattern) = 0

Star(pattern) == CHOOSE i \in DOMAIN pattern : pattern[i] = "*"

\* Mutant of Body: one character too many is cut off at the end.
BodyShort(text, pattern) ==
    SubSeq(text, Star(pattern), Len(text) - (Len(pattern) - Star(pattern)) - 1)

\* The part of the text that aligns with the star.
Body(text, pattern) ==
    SubSeq(text, Star(pattern), Len(text) - (Len(pattern) - Star(pattern)))

\* Mutant of KeyFromRoute: the body is taken although it is empty.
KeyFromRouteBare(text, pattern) ==
    IF Rewrites(pattern) THEN Body(text, pattern) ELSE text

\* _aerospike_key_from_route, for a text that matches.
KeyFromRoute(text, pattern) ==
    IF Rewrites(pattern) /\ Body(text, pattern) # <<>> THEN Body(text, pattern) ELSE text

\* resolve: where the record of k goes.
Place(k) ==
    LET i == RouteOf(k)
    IN  IF i = 0 THEN [set |-> DefaultSet, key |-> k]
        ELSE [set |-> routes[i].set, key |-> KeyFromRoute(k, routes[i].pattern)]

\* effective_hash and effective_value_bin of _prepare.
HashStrategy(k) ==
    LET i == RouteOf(k)
    IN  IF i # 0 /\ routes[i].strategy # Unset THEN routes[i].strategy ELSE strategy

HashBin(k) ==
    LET i == RouteOf(k)
    IN  IF i # 0 /\ routes[i].bin # Unset THEN routes[i].bin ELSE ValueBin

-----------------------------------------------------------------------------
(* The converters *)

Supported == {"string", "list", "set", "zset", "hash"}

NameOf(type, name) ==
    CASE type \in {"set", "zset"} -> DecodeMember(name)
      [] type = "hash"            -> DecodeField(name)
      [] OTHER                    -> Str(name)

ScalarOf(type, s) == IF type = "zset" THEN EncodeScore(s) ELSE Coerce(s)

\* The converted items: a dictionary, in which a later item of the same name
\* replaces an earlier one.
Converted(v) ==
    [n \in {NameOf(v.type, item[1]) : item \in v.items} |->
        LET item == CHOOSE it \in v.items : NameOf(v.type, it[1]) = n
        IN  ScalarOf(v.type, item[2])]

\* Each field of the hash is a bin of its own.
InFields(k) == redis[k].type = "hash" /\ HashStrategy(k) = "field_bins"

\* The names of the bins: the hash's fields, or one bin for the whole value.
BinsOf(k) ==
    IF InFields(k) THEN {n.text : n \in DOMAIN Converted(redis[k])}
    ELSE IF redis[k].type = "hash" THEN {HashBin(k)} ELSE {ValueBin}

\* _to_field_bins raises: a field is no bin name.
BadField(k) ==
    InFields(k) /\ \E n \in DOMAIN Converted(redis[k]) : EncodedLength(n.text) > MaxBinName

-----------------------------------------------------------------------------
(* The migration of a key *)

\* convert and the write.  What an earlier record of the place held is replaced as
\* a whole; the policies of the sink are those of AerospikeSink, and no property
\* here rests on the bins of an earlier record.
Migrate(k) ==
    /\ outcome[k] = "todo"
    /\ redis[k].type \in Supported
    /\ ~BadField(k)
    /\ outcome' = [outcome EXCEPT ![k] = "migrated"]
    /\ store' = [p \in DOMAIN store \cup {Place(k)} |->
                    IF p = Place(k)
                    THEN [from |-> k, bins |-> BinsOf(k), content |-> Converted(redis[k])]
                    ELSE store[p]]
    /\ UNCHANGED <<config, redis>>

Fail(k) ==
    /\ outcome[k] = "todo"
    /\ BadField(k)
    /\ outcome' = [outcome EXCEPT ![k] = "errors"]
    /\ UNCHANGED <<config, redis, store>>

\* UnsupportedTypeError.
Skip(k) ==
    /\ outcome[k] = "todo"
    /\ redis[k].type \notin Supported
    /\ outcome' = [outcome EXCEPT ![k] = "skipped"]
    /\ UNCHANGED <<config, redis, store>>

Over ==
    /\ \A k \in DOMAIN redis : outcome[k] # "todo"
    /\ UNCHANGED vars

Next ==
    \/ \E k \in DOMAIN redis : Migrate(k) \/ Fail(k) \/ Skip(k)
    \/ Over

Spec == Init /\ [][Next]_vars

-----------------------------------------------------------------------------
(* Properties *)

\* What a record holds, by the text of the item it came from.
ContentOf(p, name) == store[p].content[NameOf(redis[store[p].from].type, name)]

\* Every record is one that Aerospike accepts and whose layout is the route's:
\* no route makes its key empty; the fields that became bins have legal names; integers
\* are within 64 bits and doubles finite ("values that look numeric but would be
\* illegal in Aerospike are kept as strings", coerce_scalar); members, which
\* are map keys, are never numbers.
NothingIllegalStored ==
    \A p \in DOMAIN store :
        LET content == store[p].content
        IN  /\ p.key = <<>> => store[p].from = <<>>
            /\ IF InFields(store[p].from)
               THEN \A b \in store[p].bins : EncodedLength(b) <= MaxBinName
               ELSE Cardinality(store[p].bins) = 1
            /\ \A n \in DOMAIN content :
                   /\ n.kind \in {"str", "bytes"}
                   /\ content[n].kind = "int" => content[n].number \in IntMin .. IntMax
                   /\ content[n].kind = "float" => content[n].finite

\* The integers as Redis prints them.
Decimal[n \in Nat] ==
    IF n < 10 THEN <<AsciiDigits[n + 1]>>
    ELSE Append(Decimal[n \div 10], AsciiDigits[(n % 10) + 1])

Printed(n) == IF n < 0 THEN <<"-">> \o Decimal[-n] ELSE Decimal[n]

IntTexts == {Printed(n) : n \in IntMin .. IntMax}

\* A text with the digits of other scripts and a newline at its end taken back,
\* and "-0" as "0".
Plain(t) ==
    LET ascii == [i \in DOMAIN Unended(t) |->
                     IF IsDigit(t[i]) THEN AsciiDigits[DigitOf(t[i]) + 1] ELSE t[i]]
    IN  IF ascii = <<"-", "0">> THEN <<"0">> ELSE ascii

\* Numbers are recognised, and nothing is changed by that: what Redis prints
\* for an integer of 64 bits becomes that integer; an integer prints as the text
\* it came from, so that "007" is none (the three exceptions are in Plain);
\* digits alone never become a double; all the rest stays as it is, blobs
\* included.
ScalarsExact ==
    \A p \in DOMAIN store : redis[store[p].from].type \in {"string", "list"} =>
        \A item \in redis[store[p].from].items :
            LET t == item[2]
                s == ContentOf(p, item[1])
            IN  /\ t \in IntTexts => s.kind = "int"
                /\ s.kind = "int" => Printed(s.number) = Plain(t)
                /\ s.kind = "float" => ~AllDigits(Core(t))
                /\ s.kind \in {"str", "bytes"} => s.text = t
                /\ s.kind = "bytes" <=> IsBinary(t)

Migrated == {k \in DOMAIN redis : outcome[k] = "migrated"}

\* The key is nothing but the literals of the pattern it matched.
OnlyLiterals(k) ==
    LET i == RouteOf(k)
    IN  /\ i # 0
        /\ Rewrites(routes[i].pattern)
        /\ Len(k) = Len(routes[i].pattern) - 1

\* Two keys that take the same route (or none) never end up in one record: the
\* one at the place of a migrated key is its own, or that of a key which took
\* another route into the same set.  The exception is the key that is nothing but
\* the literals of its pattern, which keeps its full name
\* (_aerospike_key_from_route) and may meet one other.
SameRouteKeptApart ==
    \A k \in Migrated :
        /\ Place(k) \in DOMAIN store
        /\ LET last == store[Place(k)].from
           IN  \/ last = k
               \/ RouteOf(last) # RouteOf(k)
               \/ OnlyLiterals(last) # OnlyLiterals(k)

\* "otherwise distinct Redis members like "1" and "1.0" would collapse into a
\* single element, silently losing data" (set_converter.py): a record has as
\* many elements as the value it came from.  The fields of a hash are the
\* exception: one that is not UTF-8 may become the name of another.
NoElementLost ==
    \A p \in DOMAIN store :
        LET v == redis[store[p].from]
        IN  \/ Cardinality(DOMAIN store[p].content) = Cardinality(v.items)
            \/ v.type = "hash" /\ \E item \in v.items : IsBinary(item[1])
=============================================================================
