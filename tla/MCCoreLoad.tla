---------------------------- MODULE MCCoreLoad ----------------------------
(***************************************************************************)
(* A small machine for TLC: shard 0 serves a hardware queue, 2 and 3 are   *)
(* big.                                                                    *)
(***************************************************************************)
EXTENDS CoreLoad, TLC

CONSTANTS k1, k2, k3   \* calls

(* Never run, too quick to measure, longer than LONG_FUNC.                 *)
Estimates == {-1, 0, 5}

(* Calls with the same kind of root may be exchanged.                      *)
Alike == Permutations(Calls \ Fused)
=============================================================================
