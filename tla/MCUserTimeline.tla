--------------------------- MODULE MCUserTimeline ---------------------------
EXTENDS UserTimeline

CONSTANTS p1, p2, p3, p4, p5, p6

(* Two posts of the same millisecond among six.                            *)
SixTimes == p1 :> 1 @@ p2 :> 2 @@ p3 :> 3 @@ p4 :> 3 @@ p5 :> 4 @@ p6 :> 5
=============================================================================
