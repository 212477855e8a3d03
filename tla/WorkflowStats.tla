--------------------------- MODULE WorkflowStats ---------------------------
(***************************************************************************)
(* The execution-time statistics of workflows (wf_states of scheduler.cc): *)
(* the shard that starts a request's root notes the time in its wf_starts; *)
(* a shard that forwards a reply to another shard takes the time since its *)
(* own note, 0 when it has none, for the time of the workflow, whatever    *)
(* call the reply is to.  Only the estimates of fused workflows are read.  *)
(* The estimate is an int, the total an unsigned 64-bit number that the    *)
(* times of a window of fused requests fit in.                             *)
(***************************************************************************)
EXTENDS Integers

CONSTANTS
    Cores,      \* shards
    Requests,   \* requests
    Fused,      \* those whose workflow is fused
    Limit,      \* replies in a window: 1000
    IntMax,     \* 2^31 - 1
    MaxNow,     \* bound on the clock
    None        \* no shard, no note

ASSUME RequestsAssumption == Fused \subseteq Requests
ASSUME LimitAssumption == Limit \in Nat \ {0} /\ IntMax \in Nat /\ MaxNow \in Nat
ASSUME NoneAssumption == None \notin Cores \cup Nat

Flows == {"fused", "plain"}
Flow(r) == IF r \in Fused THEN "fused" ELSE "plain"

VARIABLES
    now,        \* rdtsc()
    home, at,   \* the shards that accepted and that runs the root, or None
    running,    \* requests whose root has started and not replied
    wf_starts,  \* wf_starts[c][r]: what shard c noted for r, or None
    count, total_exec_time, exec_time,   \* wf_states of each workflow
    began,      \* history: began[r], when the root of r started
    took        \* history: number and time of the fused roots forwarded since
                \*   the last Limit of them were

stats == <<count, total_exec_time, exec_time, took>>
vars == <<now, home, at, running, wf_starts, began, stats>>

Init ==
    /\ now = 1
    /\ home = [r \in Requests |-> None]
    /\ at = [r \in Requests |-> None]
    /\ running = {}
    /\ wf_starts = [c \in Cores |-> [r \in Requests |-> None]]
    /\ count = [w \in Flows |-> 0]
    /\ total_exec_time = [w \in Flows |-> 0]
    /\ exec_time = [w \in Flows |-> -1]
    /\ began = [r \in Requests |-> 0]
    /\ took = [n |-> 0, t |-> 0]

Tick ==
    /\ now < MaxNow
    /\ now' = now + 1
    /\ UNCHANGED <<home, at, running, wf_starts, began, stats>>

(* run_func of the root of r on shard d; it was accepted on shard c.       *)
Start(c, d, r) ==
    /\ at[r] = None
    /\ home' = [home EXCEPT ![r] = c]
    /\ at' = [at EXCEPT ![r] = d]
    /\ running' = running \cup {r}
    /\ wf_starts' = [wf_starts EXCEPT ![d][r] = now]
    /\ began' = [began EXCEPT ![r] = now]
    /\ UNCHANGED <<now, stats>>

Noted(c, r) == IF wf_starts[c][r] = None THEN 0 ELSE wf_starts[c][r]

Restarted(w) ==
    IF count[w] = Limit THEN [n |-> 0, t |-> 0]
    ELSE [n |-> count[w], t |-> total_exec_time[w]]

(* The int that an unsigned 64-bit average becomes.                        *)
ToInt(x) == IF x % (2 * (IntMax + 1)) <= IntMax
            THEN x % (2 * (IntMax + 1))
            ELSE (x % (2 * (IntMax + 1))) - 2 * (IntMax + 1)

(* Under req_wf_mu: shard c forwards a reply of request r.                 *)
Record(c, r) ==
    LET w == Flow(r)
        old == Restarted(w)
        t == old.t + (now - Noted(c, r))
    IN  /\ count' = [count EXCEPT ![w] = old.n + 1]
        /\ total_exec_time' = [total_exec_time EXCEPT ![w] = t]
        /\ exec_time' = [exec_time EXCEPT ![w] = ToInt(t \div (old.n + 1))]

(* Variant: sub-calls of a fused request are placed like any other.        *)
SubForwardersAll(r) == Cores

(* The shards that may forward the reply of a sub-call: those of a fused   *)
(* request all run where the root does and are answered there.             *)
SubForwarders(r) == IF r \in Fused THEN {} ELSE Cores

ForwardSub(c, r) ==
    /\ r \in running /\ c \in SubForwarders(r)
    /\ Record(c, r)
    /\ wf_starts' = [wf_starts EXCEPT ![c][r] = None]
    /\ UNCHANGED <<now, home, at, running, began, took>>

(* The root of r replies where it was accepted: nothing is recorded, and   *)
(* the note stays for good.                                                *)
ReplyHome(r) ==
    /\ r \in running /\ at[r] = home[r]
    /\ running' = running \ {r}
    /\ UNCHANGED <<now, home, at, wf_starts, began, stats>>

(* Variant: the note is not erased.                                        *)
KeepNote(c, r) == wf_starts

EraseNote(c, r) == [wf_starts EXCEPT ![c][r] = None]

(* The root of r replies on another shard than it was accepted on.         *)
ForwardRoot(r) ==
    /\ r \in running /\ at[r] # home[r]
    /\ running' = running \ {r}
    /\ Record(at[r], r)
    /\ took' = IF r \notin Fused THEN took
               ELSE IF took.n = Limit THEN [n |-> 1, t |-> now - began[r]]
               ELSE [n |-> took.n + 1, t |-> took.t + (now - began[r])]
    /\ wf_starts' = EraseNote(at[r], r)
    /\ UNCHANGED <<now, home, at, began>>

Next ==
    \/ Tick
    \/ \E r \in Requests :
        \/ ReplyHome(r) \/ ForwardRoot(r)
        \/ \E c \in Cores : ForwardSub(c, r)
        \/ \E c, d \in Cores : Start(c, d, r)

Spec == Init /\ [][Next]_vars

-----------------------------------------------------------------------------

(* The estimate of a fused workflow, the only one get_core is given, is    *)
(* the average over the fused requests that were forwarded in this window, *)
(* or what is left of it in an int when it is above 2^31 - 1 cycles: no    *)
(* request is counted from the beginning of time and none is counted more  *)
(* than once, although reply records whatever call it forwards.            *)
FusedIsAverage ==
    /\ count["fused"] = took.n
    /\ total_exec_time["fused"] = took.t
    /\ took.n # 0 =>
        LET average == took.t \div took.n
        IN  /\ exec_time["fused"] = ToInt(average)
            /\ average \in 0 .. IntMax => exec_time["fused"] = average

(* What is left in wf_starts: a shard keeps notes only of requests whose   *)
(* root it runs, and, for good, of those that it also accepted.            *)
NotesKept ==
    \A c \in Cores, r \in Requests :
        wf_starts[c][r] # None => at[r] = c /\ (r \in running \/ home[r] = c)
=============================================================================
