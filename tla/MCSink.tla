------------------------------- MODULE MCSink -------------------------------
(***************************************************************************)
(* Instances of AerospikeSink for TLC; see the cfg files.                  *)
(***************************************************************************)
EXTENDS AerospikeSink, TLC

CONSTANTS t1, t2, k1, k2, a, b

Record(k, names, v, big) == [key |-> k, bins |-> names, version |-> v, large |-> big]

\* Occurrences of k1 with changing bins (a hash stored as field bins), one of
\* another key, and an oversized one.
MCInputs == {Record(k1, {a}, 2, FALSE), Record(k1, {b}, 3, FALSE),
             Record(k2, {a}, 4, FALSE), Record(k1, {a}, 5, TRUE)}

\* The threads are interchangeable.
Symmetry == Permutations({t1, t2})
=============================================================================
