---------------------------- MODULE MCScheduler ----------------------------
(***************************************************************************)
(* A workload for TLC: two requests with sub-calls.                        *)
(***************************************************************************)
EXTENDS SchedulerInv

CONSTANTS r1, r2, a, d, x, y   \* calls
CONSTANTS h1, h2, b1           \* shards: hardware queues, big cores

(* Two requests: r1 issues a, and a issues d; r2 issues x and y.          *)
TwoParent == r1 :> NoCall @@ a :> r1 @@ d :> a @@ r2 :> NoCall @@ x :> r2 @@ y :> r2
TwoReq == r1 :> r1 @@ a :> r1 @@ d :> r1 @@ r2 :> r2 @@ x :> r2 @@ y :> r2

(* Each comes in on a hardware queue of its own.                           *)
TwoHomes == r1 :> h1 @@ r2 :> h2
=============================================================================
