----------------------------- MODULE MCMapping -----------------------------
(* Model values for RecordMapping: keys of up to three characters. *)
EXTENDS RecordMapping

MCKeys == BoundedSeq({"a", "b"}, 3) \cup {<<"a", "FF">>}

Route(pattern, set, how, bin) ==
    [pattern |-> pattern, set |-> set, strategy |-> how, bin |-> bin]

\* A prefix, a suffix, both, two stars, a question mark, and everything.
MCRoutes ==
    {Route(<<"a", "*">>, "s1", Unset, Unset),
     Route(<<"*", "b">>, "s1", "field_bins", <<"own">>),
     Route(<<"a", "*", "b">>, "s2", "map_bin", <<"own">>),
     Route(<<"*", "a", "*">>, "s2", "field_bins", Unset),
     Route(<<"a", "?", "*">>, "redis", Unset, Unset),
     Route(<<"*">>, "s1", "map_bin", Unset)}

MCIntMin == -16
MCMinMagnitude == -2
MCValueBin == <<"value">>

One == <<"1">>
OnePointZero == <<"1", ".", "0">>

\* Among the hashes: fields that are replaced, one by the name of another, and
\* one that has too many bytes only once it is decoded.
MCValues ==
    {[type |-> "string", items |-> {<<<<"value">>, <<"FF", "1">>>>}],
     [type |-> "set", items |-> {<<m, <<>>>> : m \in {One, OnePointZero, <<"FF">>, <<"FFFD">>}}],
     [type |-> "zset", items |-> {<<One, <<"inf">>>>, <<OnePointZero, <<"2">>>>}],
     [type |-> "hash", items |-> {<<<<"FF">>, One>>, <<<<"FFFD">>, OnePointZero>>, <<<<"f">>, <<>>>>}],
     [type |-> "hash", items |-> {<<<<"f">>, One>>, <<<<"FF", "FF">>, One>>}],
     [type |-> "stream", items |-> {<<<<"id">>, <<"entry">>>>}]}

\* The characters that the regular expressions tell apart, and the digits of the
\* ends of five bits.
Characters == {"0", "1", "5", "6", "u5", "-", "+", ".", "e", "NL", "FF"}

\* Every text of up to four characters is an element of one of these lists.
Lists ==
    {[type |-> "list", items |-> {<<t, t>> : t \in {start \o end : end \in BoundedSeq(Characters, 1)}}] :
        start \in BoundedSeq(Characters, 3)}

TwoKeys == UNION {[found -> {v}] : found \in kSubset(2, MCKeys), v \in MCValues}

\* Three keys, so that two of one route may meet a third of another.
ThreeKeys ==
    [routes : BoundedSeq(MCRoutes, 2), strategy : {"map_bin"},
     redis : UNION {[found -> {[type |-> "string", items |-> {<<<<"value">>, One>>}]}] :
                        found \in kSubset(3, BoundedSeq({"a", "b"}, 2))}]

\* Two keys under every two routes, three short ones, and the lists.
MCStarts ==
    [routes : BoundedSeq(MCRoutes, 2), strategy : Strategies, redis : TwoKeys]
    \cup ThreeKeys
    \cup [routes : {<<>>}, strategy : {"map_bin"}, redis : [{<<"a">>} -> Lists]]
=============================================================================
