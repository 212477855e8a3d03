------------------------------ MODULE CallTree ------------------------------
(***************************************************************************)
(* The workload of the server and the machine it runs on.                  *)
(*                                                                         *)
(* A request is a root call; a JS function that runs for a call may issue  *)
(* further calls with the `Call' binding (req_server.cc, call_function).   *)
(* Every call has a fresh id (a UUID), so a finite workload is a finite    *)
(* forest of calls.  Which calls a service function issues is decided by   *)
(* services/*.js; the forest is a parameter here, and everything the       *)
(* scheduler does with it is in module Scheduler.                          *)
(***************************************************************************)

CONSTANTS
    Calls,      \* every call of the workload, the requests (roots) included
    NoCall,     \* no call
    Cores,      \* the shards, one reactor thread each
    NoCore,     \* no shard
    HwCores,    \* the shards that own a hardware queue and accept requests
    Parent,     \* Parent[k]: the call whose function issues k; NoCall for a root
    Req,        \* Req[k]: the root of k's tree (the req_id all of its calls carry)
    Home,       \* Home[r]: the shard whose connection received request r
    FusedReqs,  \* the requests to complex.js, post.js and fanout.js
    Detached,   \* calls whose caller may reply without waiting for them
    Failing     \* calls whose function throws before it calls or replies

ASSUME NoneAssumption == NoCall \notin Calls /\ NoCore \notin Cores

ASSUME HwCoresAssumption == HwCores \subseteq Cores

ASSUME ParentAssumption ==
    /\ Parent \in [Calls -> Calls \cup {NoCall}]
    /\ \A k \in Calls : Parent[k] # k

(* A callee carries the req_id of its caller: call_function passes it on.  *)
ASSUME ReqAssumption ==
    /\ Req \in [Calls -> Calls]
    /\ \A k \in Calls : IF Parent[k] = NoCall THEN Req[k] = k
                                              ELSE Req[k] = Req[Parent[k]]
    /\ \A k \in Calls : Parent[Req[k]] = NoCall

(* Ids are fresh, so no call is its own ancestor.  Only progress needs it. *)
ASSUME AcyclicAssumption ==
    \A S \in SUBSET Calls : S # {} => \E k \in S : Parent[k] \notin S

Roots == {k \in Calls : Parent[k] = NoCall}

ASSUME HomeAssumption == Home \in [Roots -> HwCores]

(* A fused request is awaited as a whole: a call of it that outlives the   *)
(* reply of its root would put the request back into curr_wf for good (see *)
(* README.md, "Fused workflows").                                          *)
ASSUME FusedAssumption ==
    /\ FusedReqs \subseteq Roots
    /\ Detached \subseteq {k \in Calls \ Roots : Req[k] \notin FusedReqs}

(* "error\n" is no JSON: a root that throws is outside this model.         *)
ASSUME FailingAssumption ==
    /\ Failing \subseteq Calls \ Roots
    /\ \A k \in Calls : Parent[k] \notin Failing

Children(k) == {j \in Calls : Parent[j] = k}
Fused(k) == Req[k] \in FusedReqs

(* Calls that k's function waits for before it replies.                    *)
Awaited(k) == Children(k) \ Detached
=============================================================================
