--------------------------- MODULE MCTokenBucket ---------------------------
(***************************************************************************)
(* Instances of TokenBucket for TLC; see the cfg files.                    *)
(***************************************************************************)
EXTENDS TokenBucket, TLC

CONSTANTS t1, t2, t3

\* The callers are interchangeable.
Symmetry == Permutations(Threads)
=============================================================================
