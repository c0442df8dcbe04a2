# Verification of redis-to-aerospike

TLA+ modules that model the migration tool `redis_to_aerospike`, TLC
configurations that check them on small instances, and TLAPS proofs of the
results that matter most for every instance. File names without a directory are
in `redis_to_aerospike/`.

Check a model with `tlc -workers 2 -config X.cfg M`, and proofs with `tlapm M.tla`.

## The system

`main` (`cli.py`) builds its configuration from a YAML file and flags, connects to
both servers, asks them for their settings,
refuses runs that cannot work, and calls `Migrator.run` (`migrator.py`). There
the calling thread iterates over `RedisSource.iter_records` and puts records on
a bounded queue; worker threads take them, convert them and write them through
one shared `AerospikeSink`, singly or in batches. A heartbeat thread logs the
counters meanwhile.

| Component | State | Operations | Talks to |
| --- | --- | --- | --- |
| `Migrator` (`migrator.py`) | queue, a buffer per worker, stop sentinels | `run`, `_produce`, `_worker_loop`, `_prepare`, `_write_one`, `_flush` | everything below, from several threads |
| `MigrationStats` (`stats.py`) | counters under a lock | `record_*`, `progress_line`, `summary` | all threads |
| `TokenBucket` (`ratelimit.py`) | balance and time of the last refill, under a lock | `acquire` | producer; all workers |
| `RedisSource` (`redis_source.py`) | client; cursor and batch of the iteration | `iter_records`, `server_info`, `ping`, `close` | Redis, which others go on using |
| `AerospikeSink` (`aerospike_sink.py`) | client, configuration | `connect`, `write`, `write_many`, `server_info`, `close` | Aerospike |
| `TtlPolicy` (`converters/base.py`) | a warned flag under a lock | `to_ttl` | shared by all converters, so by all workers |
| `SetRouter`, converters, registry | none | `resolve`, `convert` | called in `_prepare` |
| transforms (`transforms.py`) | none | `apply_all` | called in `_prepare` |
| `ProgressReporter` (`progress.py`) | thread, stop event | `start`, `stop` | statistics |
| configuration (`config.py`, `build_config`) | dataclasses | `from_dict`, `from_env`, flags over both | `main` |
| `main` (`cli.py`) | open clients, configuration, exit code | the sequence of a run | all |

What is hard about it:

* records cross threads, wait in a queue and in buffers, and every one must be
  counted once, also when the source, a conversion, a write or a whole batch
  fails, and when the last batch is not full;
* shutdown goes through the same bounded queue as the records;
* Redis is read without transactions: type, TTL and value of a key are three
  commands, with other clients in between;
* a batch has duplicates, oversized records, and answers that must be matched
  with positions; an answer may be an error although the write was applied;
* the limiter reserves under a lock and sleeps outside it; the TTL warning is
  decided under a lock and logged outside it;
* TTLs are rounded, bounded, and age while records are under way;
* routes shorten keys, so that different keys may meet; texts become numbers;
* nothing of a run is persisted: a run that was killed is repeated on what it left;
* flags, aliases, halves of a node address and a file are laid over each other.

What makes each component correct is stated as the properties below;
`PROJECT.json` lists the hazards, each with its line and properties.

## The modules

**`Migration`** is the abstract specification: what `run()` promises, without
threads. A record is unread, pending, or has one outcome for good; `run()` ends
only when nothing is pending, and returns normally only when all was read.

**`MigrationPipeline`** has the threads of `run()`. A step is what one thread does
between two accesses to shared state. The caller scans and counts (`Scan`), puts
(`Put`, blocked while the queue is full), puts a sentinel per worker (`PutStop`),
joins and leaves (`Finish`). A worker takes an item (`GetRecord`, `GetStop`),
prepares it (`Prepare` and its three failures), calls the sink (`Write`,
`WriteRaises`) and counts one record after the other (`Tally`). Single-write mode is
a batch limit of one: the code then writes and counts without buffering, which
is what filling, writing and emptying a buffer of one does. `place` is a history
variable for the properties. `KeepsPromise` is the refinement of `Migration`.

**`TokenBucket`** models `acquire` with its locked part as one step. Time is
counted in units in which one token is refilled, so numbers are integers.
`start` and `base` are an observer's stopwatch, started at any moment at which
nobody waits, so that a bound from the stopwatch on is one over every such span.

**`AerospikeSink`** models `write` and `write_many` with the server's commands as
separate steps that interleave with other threads'. The size estimate is a
Boolean; values and TTL of a record are one version number, tracked per bin. How the
server treats `create_only` is the server's; what `write_many` makes of it, with
duplicates in the batch and other threads at the same key, is `CreateOnlyTruthful`.

**`RedisSource`** models `iter_records` with each Redis command as a step, writes and
removals by other clients between any two, SCAN pages with repeated or no keys,
and the chunking of a cluster scan, where nodes answer in any order. A version
number stands for the value and the remaining time that a write gave a key; no two
writes, and no two keys before the iteration, have the same, so that a value tells
whose it is. `past` is a history variable, what each key has held, and `ValuesFit` says
that the value and the TTL of a record are among what its own key has held. The types
with a command of their own behave alike here, so one of them and one that the
tool does not support are enough.

**`TtlPolicy`** follows the expiry of a record from the PTTL to the write, in
milliseconds, with the shared policy object and its warning.

**`EndToEnd`** composes the pipeline with both servers: the actions of
`MigrationPipeline`, with `Scan` reading a version of a key that other clients
change (`Change`), `Write` returning only what the server answered to the
sub-commands that `AerospikeSink`'s operators send (`Execute`, `Sink!SentSlots`,
`Sink!Command`, `Sink!Reason`), and `Restart`, which throws the whole process away at
any step and begins again with the two databases as they are. docs/04 describes
just that: "An interrupted migration can be re-run from the start".

**`Scalars`** has `coerce_scalar`, `decode_member`, `_decode_field` and
`_encode_score` on texts as sequences of characters, because the regular
expressions, the leading zeros, the newline that `$` lets through and the digits of
other scripts are what decides. Integers and exponents are scaled down
(`IntMin`, `IntMax`, `MaxMagnitude`, `MinMagnitude`).

**`RecordMapping`** extends it with `SetRouter.resolve`, the choice of the hash layout
in `_prepare`, and the converters.

**`Configuration`** (no variables) has the dataclasses' defaults, `from_dict`,
`from_env`, `build_config`, the validation of routes and `--set-route` tokens, the database
a client ends up reading, and the reading of the nodes' info answers. A document, the
environment and the flags passed are functions on the names they contain; of the
settings that are merely copied, one of each kind stands for the others.

**`CommandLine`** extends it with `main`, from `parse_args` to the exit code, and the
heartbeat thread around an abstract migration: it uses the actions of `Migration`, which
the threads implement. `from_url` refuses a text that is no URL (`Malformed`), and a cluster
is connected to when its client is made; nothing in `main` catches either exception
(`CreateClientsRaises`). `pinged` is a history variable: whether Redis has answered.

`MC*` modules only define values for constants and symmetry sets.
`PROJECT.json` maps definitions to lines.

## What TLC checks

| Run | Shows | Bounds |
| --- | --- | --- |
| `pipeline_batch` | placement, counters, bounds, orderly shutdown, refinement, termination, with a source and a sink that may raise, under `create_only` | 2 workers, 4 records, queue 2, batch 2 |
| `pipeline_single` | termination with single writes, an unbounded queue and transforms that raise | 2 workers, 4 records |
| `token_bucket` | aggregate rate, no early return, bounded waiting | 3 callers of 1 or 3 tokens, rate 2, 5 units |
| `sink` | truthful answers, one command per key, what create-only reports, collapse, re-runs, oversized records among them | 2 threads, 2 calls of up to 2 records, 2 keys, 2 bins, 3 policies |
| `source` | records have values and TTLs of their own key, untouched keys are exact and complete | 2 keys, 2 types, pages and chunks of 2, 2 foreign writes, both modes |
| `ttl` | expiry kept within a second plus the time under way, limits, one warning | 2 threads, all modes, TTLs around each limit, 2 delays |
| `mapping` | records are legal, numbers exact, keys of one route stay apart, no element is lost | 2 keys of up to 3 characters or 3 of up to 2, lists of up to 2 routes, values of each type, every text of up to 4 of the characters that matter |
| `command_line` | precedence of flags, file and defaults; environment and file agree; exit code, guards, closing, heartbeat, termination | files of up to 2 names with up to 2 flags, environments of up to 3 variables, 2 records, 2 heartbeats, every failure of the servers, 2 nodes |
| `end_to_end` | what is counted as migrated is what Aerospike holds, across duplicates, stale reads, calls in doubt and restarts | 2 workers, batch 2, 2 keys in 3 occurrences, 1 foreign change, 1 restart |

Why the bounds are enough to be interesting: with four records, two workers and
batches of two there are full and partial batches at both workers, a full queue
in front of records and of sentinels, and a source that fails at every point of
it. Three callers make debts of debts in the bucket. Two foreign writes are what
it takes to remove and re-create a key between two commands, or to change two
keys of one batch. TTL values sit at zero, at, just below and above a boundary
and above the largest real TTL (which is scaled down to 4). Collisions of routes
are between two keys; the third makes one of them be written over. Three occurrences of two keys make duplicates in one batch, in
two batches of a worker and at two workers; one change makes the two reads of a
key differ, and one restart at any step leaves every possible rest of a run. Two names
and two flags are what a clash of aliases takes. `sink`, `source` and `end_to_end` use
symmetry of threads, workers or keys, which no definition tells apart; they check
invariants only. In `command_line` the starts that only vary the configuration are dry
runs; the migrations have two records, which may end differently, and two heartbeat lines, so
that one can be compared with the other. Each property is violated when one definition is changed
the way a plausible bug would change it (the mutants in `PROJECT.json`).

### Where the code disagrees with its documentation

Three runs expect a violation; each is a finding in `PROJECT.json`.

* `pipeline_raising_transform`: an exception of a transform is not caught
  (`migrator.py:180`), kills the worker, and when all are gone `run()` blocks for
  ever on the full queue. docs/04 promises that a failing record is counted and
  the migration goes on. The command line has no transforms; users of the package may.
* `source_no_ttl`: PTTL answers -2 for a key that is gone, which is taken like -1. If
  the key is back, with an expiry, when its value is read, it is migrated as
  never-expiring.
* `command_line_guard`: the guard on TTLs looks at database `redis.db`, while with
  a URL the client uses the database of the URL.

More observations, which have no run:

* Collapsing duplicates to the last one is said to match sequential writes
  (`aerospike_sink.py:400`). Under the default policy `update`, which merges bins, it
  does not when an earlier occurrence has bins that the last one lacks (a hash that
  changed, as field bins): the exception in `CollapseMatchesSequential`.
* Under `create_only` a batch keeps the last of two duplicates, and single writes would
  keep the first (the exception in `CollapseMatchesSequential`; `CreateOnlyTruthful` says
  which one is kept).
* `TtlPolicy` clamps to `max_ttl` unchecked: a `max_ttl` in the reserved range above
  0xFFFFFFFC becomes a record's TTL, which is why `NoSentinelCollision` assumes it is not
  there.
* Hash fields that are not UTF-8 are decoded with replacement, so `map_bin` is not quite
  the 1:1 mapping that docs/04 calls it (the exception in `NoElementLost`).
* `coerce_scalar` makes 0 of "-0" and 7 of "7" with a newline or in the digits of another
  script (the exceptions in `Plain`), and 0.0 of a float too small for a double.
* Two workers may leave the older of two reads of one key (the exception in
  `LastReadWins`); it is never older than the run.
* The burst of the write limiter is the larger of rate and batch size, so more than
  one second's worth when the batch is larger.
* `main` never calls `from_env`, although docs/05 and docs/07 speak of environment
  variables as defaults; `EnvironmentAgrees` is about the function itself.
* A `port` without `host` in the file is ignored, and `--aerospike-port` alone drops all
  nodes of the file but the first. A URL in the file overrides `--redis-db`. Routes of
  the file win over those of the flags. A quoted "false" for a switch in the file is
  true.
* A Redis cluster that cannot be reached raises while its client is made, outside any `try`
  (`cli.py:664`), so the exit code is 1, which docs/05 keeps for a migration that ran, and
  not the 2 of docs/05 and docs/06. A text that is no URL and a file that is no configuration
  end with 1 too. `ExitTruthful` says what does hold of exit code 1.
* If Redis does not answer the ping, `main` returns without closing the source
  (the exception in `CleanExit`).
* With `cluster` and a `db` other than 0 the guard on TTLs reads a line that is not there.
* The docstring of `TtlPolicy` speaks of one warning "for the non-rejecting modes"; it warns
  once when it rejects as well, and `WarnedOnce` is about all modes.
* Only the first node's answer is used; if it is the text of an error, the guard and the
  record limit are off although other nodes answered (`AllTell` in
  `MigratesOnlyWhenCleared`).

### Fairness

Liveness is checked under weak fairness of each thread as a whole: a thread
that can go on goes on. The interpreter schedules runnable threads, and the
clients' calls end in an answer or an exception. Nothing is assumed of the choice
between success and failure, and in `CommandLine` weak fairness of `Migrate`
stands for `Termination`, which `pipeline_batch` shows of the threads when no
transform raises. A queue that stays full disables `Put`, so fairness does not hide
a blocked caller.

## What is proved

With TLAPS, for every value of the constants that satisfies the named
assumptions of the module (finitely many workers but at least one, natural
numbers for sizes, sentinels that are no records):

* `TokenBucketProofs`: `TypeCorrect`, `NobodyEarly`, `AggregateRate` and
  `WaitsOnlyForTokensAhead`. `NoEarlyReturn` alone is not inductive; `Credit` adds that the
  refilled balance plus all reservations since the stopwatch stay within burst plus
  elapsed time. The other two rest on `DebtInv`, which numbers the tokens as they are
  reserved: callers wait for disjoint intervals of them, the debt of the bucket is covered by
  the tokens that are still waited for, and every deadline fits its token's number.
* `TtlPolicyProofs`: `TypeCorrect`, `BoundaryRespected`, `ExpiryNeverEarly`, `WarningOnce`,
  and, if every `max_ttl` is at most the largest real TTL, `NoSentinelCollision`. The
  invariant `Carriage` says what each thread's record carries at each point.
* `AerospikeSinkProofs`: `NoHotKey`, `OutcomesTruthful`, `CreatedIsTold`,
  `RerunsConverge` and `CollapseIsSequential`, for any threads, keys, bins, records and size
  of a batch. The inductive invariant is `SinkInv`: a reply is only ever given for a slot that
  was sent and says what was done (`RepliesMatch`), and a call that ran alone leaves each key
  as it found it or with its one command applied (`AloneAccounts`). Under `create_only` a
reply of success means that the key was missing when the call began and holds the record of
that command, which no later command changes (`CreatedIn`, `CreatedStays`). The last two theorems
  compare that with the records written one by one, a recursive function: `OneByOneRuns`
  shows that the function exists, and inductions over the records show what it ends with.
* `RedisSourceProofs`: `ValuesAreTheirOwn` and `SteadyKeysYielded`. `SourceInv` says, by
  where the iterator is, which commands are under way and what their answers may be
  (`AskingTypes`, `ReadingValues`), that what was read of an untouched key is what it holds
  (`ReadsCurrent`), and that such a key is still due, collected, in the batch or yielded
  (`NoneForgotten`).
* `CommandLineProofs`: `GuardHolds`, `ExitCodeTruthful`, `ExitIsClean`, `HeartbeatTruthful`,
  `FlagsOverrideFile` and `EnvironmentAsDocument`, for every set of starts whose node answers
  are lists, whose environment has only the names that `from_env` reads, and
  in which None is no mapping. `MainInv` ties clients, configuration, migration and heartbeat
  to the place where main is, and the guard's reasons to the servers' answers. The two
  theorems on the configuration rest on lemmas that state `build_config` and `from_env` setting
  by setting (`BuiltFields`, `BuiltRoutes`, `BaseFields`, `DocumentOf`).
* `EndToEndProofs`, first about the threads alone (`MigrationPipeline`): `TypeCorrect` and
  `RecordsPlacedOnce`. `TypeOK` is inductive because it includes which of its variables a
  worker uses where (`WorkerOK`); `PlacedOnce` is inductive relative to it. From there
  `StatisticsExact`, `ShutdownOrderly`, `MemoryBounded`, and, if no transform raises,
  `EveryRecordAccounted`, `PartialBatchesAtEnd` and the refinement `PipelineKeepsPromise`. The
  inductive invariant is `IndInv`, the conjunction of `TypeOK`, `PlacedOnce`, `StatsExact`,
  `ShutdownInOrder` and `NoneLost`. That nothing is pending at the end follows from all of
  them: every worker is gone, so every sentinel was taken, so the queue is empty,
  because what is left of it are sentinels; so no place is left but an outcome.
  `MemoryBounded` adds the bound on the queue, which only `Put` and `PutStop` can reach.
* `EndToEndProofs`, then about the threads between both servers: `MigratedIsFresh`,
  `CleanRunIsComplete` and `LastOccurrenceHolds`, for any keys, number of occurrences (at least one per key, as SCAN guarantees), workers, batch
  size, changes and restarts, under a policy that overwrites. To the threads alone every step
  is a step of the pipeline, none, or a restart into its initial state, so `IndInv` carries
  over. `WorldInv` adds what was read and who took it, that the queue and the workers keep
  the order of the scan (`InOrder`), that a key is fresh from the moment a command for it is
  reported as run, through the answer of the call, to the counter (`ReportsFresh`), and which
  version a key holds for the one worker that took its occurrences (`LastHold`). Neither of
  the last two can be said of counted records alone: the store is written before the call
  returns, and the call returns before its records are counted.
* `RecordMappingProofs`: `MappingInvariant`, `RoutesKeepKeysApart`, `ElementsKept`,
  `RecordsLegal` and `ScalarsAreExact`, for any keys and routes that are texts, any width of the
  integers, and values whose items have different names, as those of Redis do. `MappingInv`
  says that a record is what routes and converters make of the migrated key it names. The
  rest is about the operators: a text that fits a pattern with one star begins and ends with
  its literals, by induction along the pattern in both directions, so what is cut out of it
  tells it from all others (`BodyInjective`); names tell the texts they come from apart
  (`NamesApart`), so the converted items are as many as the value's; the recursions of
  `ValueOf` and `Decimal` end (`ValueRead`, `DecimalDefined`), `Decimal` prints a number by
  digits that read as it (`DecimalText`), and a text of digits without a zero in front is what
  is printed for its value (`DecimalOfValue`). So reading and printing an integer undo each other
  (`PrintedRead`, `ReadPrinted`). The digits and the exponent of a double (`FloatOf`) are not
  needed: of a double, the theorems say that it is finite and never made of digits alone.
* `LeastNumber`: induction over numbers with the property given as a set, which the provers
  can instantiate, unlike the library's induction theorems; the other modules use it for
  induction over sequences, for `CHOOSE` of a least or a last position, and for the recursion
  mentioned.

The proofs changed what is checked:

* `MigratesOnlyWhenCleared` used to ask only that all nodes tell `nsup-period` when it spoke
  of the record limit; a first node that tells no limit then refutes it. It now asks it of the
  name in question, and `command_line` starts with two nodes that differ.
* `SameRouteKeptApart` used to say that two migrated keys of one route both have their
  records at the end. With a third key, which takes another route into the same set and
  writes over one of them, that is false; two keys hid it. It now says whose record may be at the
  place of a migrated key, and `mapping` has starts with three keys.
* `RecordMapping` used to assume that no key is empty, which Redis does not promise. The
  assumption is gone: an empty key keeps its name, and no other key becomes empty.

Only model-checked: liveness (the prover has no fairness), which is `Termination` of the
pipeline, `MainEnds` and `OverflowReported`. All invariants that the runs check, and the other
temporal properties, are proved. `PartialBatchesOnlyAtEnd` is proved and has no run. The
arithmetic of doubles in `FloatOf` is evaluated by TLC, and only its finiteness is stated.

## What is left out

* Names, values and log texts; statistics per type and reason.
* A call of the sink that raises loses the commands that were not run by then;
  a command that the server runs still later is not modelled. Retries inside the
  clients are part of a call.
* The limit of Python's `int` of 4300 digits, beyond which `coerce_scalar` raises and
  the record counts as an error.
* In `RecordMapping`: the bins of an earlier record at the same place, which `update` would
  merge; no property there depends on them.
* Rounding of floating-point numbers in the limiter, in `ceil(ttl / 1000)` and in the
  digits of doubles.
* `KeyboardInterrupt`, and exceptions in the threads other than those the code
  handles or the transforms raise.
* The layout of bytes in the size estimate; credentials, TLS, timeouts and the other
  settings that are passed on to the clients unchanged; the declaration of flags whose
  only effect is an entry of `_ARG_MAP`; splitting texts at ";" and "="; the text of YAML
  (PyYAML), preview and completion; the sample scripts, which fill a Redis for
  demonstrations.
* In `EndToEnd`: routes and conversions (a value is its version), TTLs, `create_only`
  (a re-run then counts what is there as skipped), single writes, and the chunks of
  the source, whose effect is that a version is read before it is yielded.
* Patterns with `[`, which are treated like those with `?`.

## Plan

Done: `Migration`, `MigrationPipeline`, `TokenBucket`, `AerospikeSink`, `RedisSource`,
`TtlPolicy`, `Scalars`, `RecordMapping`, `Configuration`, `CommandLine`, `EndToEnd`, with the
proofs above.

Left: the digits of doubles in `FloatOf`, which no property states yet, and `create_only` in
`EndToEnd`.
