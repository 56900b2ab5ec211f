-------------------------- MODULE MCEngineLifecycle --------------------------
(* EngineLifecycle's constants for TLC: two pairs, of which the ranker keeps *)
(* one.                                                                     *)
EXTENDS EngineLifecycle
CONSTANTS Kept, Dropped
=============================================================================
