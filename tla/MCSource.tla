------------------------------ MODULE MCSource ------------------------------
(***************************************************************************)
(* Instances of RedisSource for TLC; see the cfg files.                    *)
(***************************************************************************)
EXTENDS RedisSource, TLC

CONSTANTS k1, k2

\* The keys are interchangeable.
Symmetry == Permutations({k1, k2})
=============================================================================
