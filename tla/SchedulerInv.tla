---------------------------- MODULE SchedulerInv ----------------------------
(***************************************************************************)
(* The inductive invariant of Scheduler.  It says exactly what each of the *)
(* scheduler's tables holds, as a function of how far every call has come: *)
(* its run_func message is out (InFlight), it is on its shard and not      *)
(* answered (OnShard), its reply message is out (Replying), its promise is *)
(* resolved (micro) or its caller has its result (returned).               *)
(***************************************************************************)
EXTENDS Scheduler, Integers

(* The shard that the result of k goes to.                                 *)
Caller(k) == IF k \in Roots THEN Home[k] ELSE at[Parent[k]]

Replying(k) == \E m \in net : m.type = "reply" /\ m.call = k

(* The caller's shard still waits for k.                                   *)
Pending(k) == k \in issued /\ (js[k] # "replied" \/ Replying(k))

(* A message leads between the two shards of its call, and there is none   *)
(* for a call that is at another stage.                                    *)
MsgInv ==
    \A m \in net :
        LET k == m.call IN
        /\ m.type = "run_func" =>
              /\ k \in issued /\ js[k] = "idle"
              /\ m.to = at[k] /\ m.from = Caller(k) /\ m.to # m.from
              /\ k \in ToSet(q[m.to])
              /\ Fused(k) => k \in Roots
        /\ m.type = "reply" =>
              /\ js[k] = "replied" /\ k \notin returned
              /\ \A c \in Cores : k \notin ToSet(micro[c])
              /\ m.to = Caller(k) /\ m.from = at[k] /\ m.to # m.from

(* Calls are issued by functions that run, and a function stays until all  *)
(* it awaits has come back.                                                *)
TreeInv ==
    \A k \in Calls :
        /\ k \in issued => at[k] \in Cores
        /\ js[k] # "idle" => k \in issued
        /\ k \in returned => js[k] = "replied"
        /\ k \in issued \ Roots => js[Parent[k]] # "idle"
        /\ k \in issued \ Roots /\ k \notin Detached /\ k \notin returned
              => js[Parent[k]] = "running"

(* A task is parked or ready on its own shard, once, before it runs; what  *)
(* is on the stack runs there.                                             *)
TaskInv ==
    \A c \in Cores : \A k \in Calls :
        /\ k \in task_map[c] \cup ready[c] =>
              k \in issued /\ at[k] = c /\ js[k] = "idle" /\ ~InFlight(k)
        /\ k \in task_map[c] => ~Fused(k) /\ k \notin ready[c]
        /\ cur[c] = k => at[k] = c /\ js[k] = "running"

(* A resolved promise is consumed once, on the caller's shard.             *)
MicroInv ==
    \A c \in Cores :
        /\ IsInjective(micro[c])
        /\ \A k \in ToSet(micro[c]) :
              k \notin Roots /\ Caller(k) = c /\ js[k] = "replied" /\ k \notin returned
        /\ owed[c] \in Calls => owed[c] \in issued

(* req_map and callbacks, entry by entry.                                  *)
ExpectedState(c, k) ==
    IF Pending(k) /\ c = Caller(k) THEN IF k \in Roots THEN Local ELSE c
    ELSE IF OnShard(k) /\ c = at[k] THEN Caller(k)
    ELSE NoState

StateInv ==
    \A c \in Cores :
        /\ \A k \in Calls : req_map[c][k] = ExpectedState(c, k)
        /\ callbacks[c] = {k \in Calls \ Roots : Pending(k) /\ Caller(k) = c}

QueueInv ==
    \A c \in Cores :
        /\ IsInjective(q[c])
        /\ task_map[c] \subseteq ToSet(q[c])
        /\ \A k \in ToSet(q[c]) :
              /\ k \in issued /\ at[k] = c /\ js[k] # "replied"
              /\ k \in task_map[c] \/ InFlight(k) \/ k \in FusedReqs
              /\ Fused(k) => k \in Roots

(* curr_wf holds the fused roots on the shard, and the calls of a fused    *)
(* request are where their root is and do not outlive it.                  *)
FusedInv ==
    /\ \A c \in Cores : curr_wf[c] = {r \in FusedReqs : OnShard(r) /\ at[r] = c}
    /\ \A k \in Calls : Fused(k) /\ OnShard(k) => OnShard(Req[k]) /\ at[k] = at[Req[k]]

IInv ==
    /\ TypeOK
    /\ MsgInv
    /\ TreeInv
    /\ TaskInv
    /\ MicroInv
    /\ StateInv
    /\ QueueInv
    /\ CurrReqExact
    /\ FusedInv

-----------------------------------------------------------------------------
(* Why the server does not come to rest with work left.  A call that was   *)
(* issued and has not returned is somewhere: its message is out, its task  *)
(* ready or parked; its function is on the stack or waits for a call that  *)
(* has not returned; its reply is out or its continuation due.  (A function*)
(* that throws is not called by run_callback, so that handlers of reply do *)
(* not nest.)                                                              *)
Waits(k) ==
    /\ js[k] = "idle" => InFlight(k) \/ k \in ready[at[k]] \cup task_map[at[k]]
    /\ js[k] = "running" => cur[at[k]] = k \/ Awaited(k) \cap (issued \ returned) # {}
    /\ js[k] = "replied" => k \in returned \/ Replying(k) \/ k \in ToSet(micro[Caller(k)])

WaitInv ==
    /\ \A k \in issued : Waits(k)
    /\ \A c \in Cores : cur[c] \in Failing => owed[c] = NoCall

(* dispatch() could hand out a call on shard c.                            *)
Backlog(c) == q[c] # << >> /\ Head(q[c]) \in task_map[c] /\ curr_wf[c] = {}

(* It is going to be called on shard c because of a reply.                 *)
Coming(c) ==
    \/ owed[c] # NoCall
    \/ \E d \in Cores : owed[d] # NoCall /\ at[owed[d]] = c
    \/ \E m \in net : (m.type = "ack" /\ m.to = c) \/ (m.type = "reply" /\ m.from = c)

(* It will be because shard c has taken up k, which has not replied.       *)
TakenUp(k, c) == OnShard(k) /\ at[k] = c /\ k \notin task_map[c]

(* The times at which calls were issued and at which dispatch() was last   *)
(* called on each shard, and a call that it handed out then: calls are     *)
(* issued after their callers, those of a call that was handed out after   *)
(* it, and a task that is parked came before the last dispatch(), which    *)
(* has handed out a call if it has left one that it could hand out.        *)
Ordered(now, stamp, born, last) ==
    /\ \A c \in Cores : stamp[c] <= now
    /\ \A k \in issued : born[k] <= now
    /\ \A k \in issued \ Roots : born[Parent[k]] < born[k]
    /\ \A c \in Cores : \A k \in issued \ Roots : Parent[k] = last[c] => stamp[c] < born[k]
    /\ \A c \in Cores : \A k \in task_map[c] : born[k] < stamp[c]
    /\ \A c \in Cores : Backlog(c) => Coming(c) \/ (last[c] # NoCall /\ TakenUp(last[c], c))
    /\ \A M \in SUBSET Cores : M # {} => \E c \in M : \A d \in M : stamp[d] <= stamp[c]
    /\ \A T \in SUBSET issued : T # {} => \E k \in T : \A j \in T : born[j] <= born[k]

OrderInv ==
    \E now \in Nat, stamp \in [Cores -> Nat], born \in [Calls -> Nat],
       last \in [Cores -> Calls \cup {NoCall}] : Ordered(now, stamp, born, last)
=============================================================================
