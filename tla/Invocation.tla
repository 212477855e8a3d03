----------------------------- MODULE Invocation -----------------------------
(***************************************************************************)
(* What the server promises of a workload, with no shard, queue or message *)
(* in sight: every call is started at most once and only after its caller  *)
(* issued it, its function replies once, after everything it waits for has *)
(* come back, and its result reaches whoever asked exactly once.           *)
(***************************************************************************)
EXTENDS CallTree

VARIABLE phase  \* phase[k]: how far call k has come

Phases == {"uncalled", "placed", "running", "replied", "returned"}

TypeOK == phase \in [Calls -> Phases]

Init == phase = [k \in Calls |-> "uncalled"]

Move(k, from, to) == /\ phase[k] = from
                     /\ phase' = [phase EXCEPT ![k] = to]

(* A request arrives, or the function of k's caller issues k.              *)
Call(k) == /\ Parent[k] # NoCall => phase[Parent[k]] = "running"
           /\ Move(k, "uncalled", "placed")

Start(k) == Move(k, "placed", "running")

MayReply(k) == /\ \A j \in Children(k) : phase[j] # "uncalled"
               /\ \A j \in Awaited(k) : phase[j] = "returned"

(* The function of k replies (or throws: the caller then gets "error\n").  *)
Reply(k) == MayReply(k) /\ Move(k, "running", "replied")

(* The result reaches the caller's continuation, or the connection.        *)
Return(k) == Move(k, "replied", "returned")

(* A request that runs on its home shard: replying answers the connection. *)
Answer(k) == /\ k \in Roots
             /\ MayReply(k)
             /\ Move(k, "running", "returned")

Next == \E k \in Calls :
            Call(k) \/ Start(k) \/ Reply(k) \/ Return(k) \/ Answer(k)

Spec == Init /\ [][Next]_phase
=============================================================================
