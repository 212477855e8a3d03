---------------------------- MODULE MCTimelines -----------------------------
(***************************************************************************)
(* Two posts by ann that mention bob, while bob asks to follow her.        *)
(***************************************************************************)
EXTENDS Timelines

CONSTANTS p1, p2, f1, ann, bob, v1, v2, v3, v4

Times12 == p1 :> 1 @@ p2 :> 2
ByAnn == [p \in Posts |-> ann]
ToBob == [p \in Posts |-> <<bob>>]
BobFollows == [f \in Follows |-> bob]
AnnFollowed == [f \in Follows |-> ann]
=============================================================================
