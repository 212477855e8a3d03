-------------------------- MODULE MCWorkflowStats --------------------------
(***************************************************************************)
(* Three fused requests, so that a window of two ends, and a plain one.    *)
(***************************************************************************)
EXTENDS WorkflowStats, TLC

(* Neither the shards nor the fused requests differ from each other.       *)
Alike == Permutations(Cores) \cup Permutations(Fused)
=============================================================================
