---------------------------- MODULE MCHashTable ----------------------------
(***************************************************************************)
(* Two keys that share a bucket.                                           *)
(***************************************************************************)
EXTENDS HashTable, TLC

CONSTANTS k1, k2, b1

Shared == k1 :> b1 @@ k2 :> b1

(* Shards, nodes and versions may be exchanged.                            *)
Alike == Permutations(Threads) \cup Permutations(Nodes) \cup Permutations(Versions)
=============================================================================
