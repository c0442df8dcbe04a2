----------------------------- MODULE MCEndToEnd -----------------------------
(***************************************************************************)
(* The instance of EndToEnd for TLC; see EndToEnd.cfg.                     *)
(***************************************************************************)
EXTENDS EndToEnd, TLC

CONSTANTS w1, w2, k1, k2

\* Threads and keys are interchangeable; only safety is checked.
Interchangeable == Permutations({w1, w2}) \cup Permutations({k1, k2})
=============================================================================
