--------------------------- MODULE MCCommandLine ---------------------------
(* Starts of main() for TLC; see the cfg files. *)
EXTENDS CommandLine

MCUrlDb == [url0 |-> 0, url1 |-> 1]
MCNumbers == ("0" :> 0) @@ ("1" :> 1) @@ ("4000" :> 4000)

Empty == [n \in {} |-> 0]

\* All the ways to pick a value for up to k of the names of the menu.
Picks(menu, k) ==
    LET singles == UNION {{[n \in {m} |-> v] : v \in menu[m]} : m \in DOMAIN menu}
        upTo[i \in 0 .. k] ==
            IF i = 0 THEN {Empty} ELSE upTo[i - 1] \cup {p @@ s : p \in upTo[i - 1], s \in singles}
    IN  upTo[k]

Label(c) == <<c>>
Item(pattern, destination) == [pattern |-> pattern, destination |-> destination]

GoodItem == Item(Label("a"), <<" ", "s", " ">>) @@ [hash_strategy |-> "", value_bin |-> <<" ">>]
PlainItem == Item(Label("c"), <<"s", " ">>) @@ [hash_strategy |-> ""]
BinItem == Item(Label("b"), Label("t")) @@ [hash_strategy |-> "map_bin", value_bin |-> <<"v", " ">>]
BadItems ==
    {Item(Label("a"), <<" ">>), Item(Label("a"), <<"NUL">>), Item(Label("a"), <<"s", "s", "s">>),
     [pattern |-> Label("a")], Item(Label("a"), Label("s")) @@ [hash_strategy |-> "bogus"]}

DocMenu ==
    [db |-> {1}, url |-> {"url1", "no-url"}, cluster |-> {TRUE}, scan_match |-> {"a*"}, key_pattern |-> {"b*"},
     host |-> {"h1"}, port |-> {4000}, hosts |-> {<<[host |-> "h2"], [host |-> "h3", port |-> 4000]>>},
     set_routes |-> {<<GoodItem, BinItem>>} \cup {<<GoodItem, bad>> : bad \in BadItems},
     hash_strategy |-> {"field_bins", "bogus"}, max_record_size |-> {1}, unknown |-> {1}]

FlagMenu ==
    [redis_db |-> {1}, redis_url |-> {"url0", "no-url", ""}, redis_cluster |-> {TRUE}, redis_match |-> {"c*"},
     redis_key_pattern |-> {"d*"}, aerospike_host |-> {"h9"}, aerospike_port |-> {5000},
     set_route |-> {<<BinItem, PlainItem>>, <<BinItem, GoodItem>>} \cup {<<bad>> : bad \in BadItems},
     hash_strategy |-> {"map_bin", "bogus"}, progress_interval |-> {0}, print_completion |-> {"zsh"}]

EnvMenu ==
    [db |-> {"1", "x"}, url |-> {"", "url1"}, cluster |-> {"yes", "off", "maybe"}, scan_match |-> {"a*"},
     host |-> {"h1"}, port |-> {"4000"}, hash_strategy |-> {"field_bins", "bogus"},
     progress_interval |-> {"0"}]

\* Info responses: nothing, an error text, old and new servers, a garbled number.
Response(nsup, name, max) == ("nsup-period" :> nsup) @@ (name :> max)
Answers ==
    {Response(0, "max-record-size", 1), Response(120, "max-record-size", 0),
     Response(0, "write-block-size", 1), Response(Unknown, "max-record-size", Unknown)}
First == Response(0, "max-record-size", 1)
MCResponses ==
    {<<r>> : r \in Answers} \cup {<<q, r>> : q \in {None, Empty, First}, r \in Answers}

Keyspaces == [0 .. 1 -> {Unknown, 0, 1}]

Dry(flags) == flags @@ [dry_run |-> TRUE]

\* Every configuration of up to two names and two flags, tried out.
ConfigStarts ==
    [args : {Dry(f) : f \in Picks(FlagMenu, 2)}, yaml : Picks(DocMenu, 2) \cup {None, NotMapping},
     env : {Empty}, expires : {[d \in 0 .. 1 |-> 0]}, responses : {<<Response(120, "max-record-size", 1)>>}]

\* Every environment of up to three variables.
EnvStarts ==
    [args : {[print_completion |-> "bash"]}, yaml : {None}, env : Picks(EnvMenu, 3),
     expires : {[d \in 0 .. 1 |-> 0]}, responses : {<<>>}]

\* The configurations that decide which database is read, with a namespace that
\* does not expire records and with one that does.
DatabaseStarts ==
    [args : {Empty, [redis_db |-> 1], [redis_cluster |-> TRUE], [progress_interval |-> 0], [dry_run |-> TRUE]},
     yaml : {None, [db |-> 1], [url |-> "url0"]}, env : {Empty}, expires : Keyspaces,
     responses : {<<First>>, <<Response(120, "max-record-size", 0)>>}]

\* All the answers of one node and of two.
ServerStarts ==
    [args : {Empty}, yaml : {None}, env : {Empty},
     expires : {e \in Keyspaces : e[1] = 0}, responses : MCResponses]

\* The URL names another database than redis.db.
GuardStarts ==
    [args : {[redis_url |-> "url1"]}, yaml : {None}, env : {Empty}, expires : Keyspaces,
     responses : {<<Response(0, "max-record-size", 1)>>}]

MCStarts == ConfigStarts \cup EnvStarts \cup DatabaseStarts \cup ServerStarts
=============================================================================
