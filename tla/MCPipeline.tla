----------------------------- MODULE MCPipeline -----------------------------
(***************************************************************************)
(* Instances of MigrationPipeline for TLC; see the cfg files.              *)
(***************************************************************************)
EXTENDS MigrationPipeline

CONSTANTS w1, w2

\* The conversions and transforms the command line can run.
NoTransformRaises == {"prepared", "unsupported", "bad"}

\* A library user's transform may raise as well.
TransformMayRaise == PrepareEnds
=============================================================================
