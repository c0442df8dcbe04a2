------------------------------- MODULE MCTtl -------------------------------
(***************************************************************************)
(* Instances of TtlPolicy for TLC; see the cfg files.                      *)
(***************************************************************************)
EXTENDS TtlPolicy

CONSTANTS t1, t2
=============================================================================
