----------------------------- MODULE FuncStats -----------------------------
(***************************************************************************)
(* The execution-time statistics of one function: the last lines of        *)
(* run_func in req_server.cc.  Every shard that has run the function loads *)
(* and stores the three shared atomics; the lock around it is commented    *)
(* out, so each access is a step of its own and the updates of several     *)
(* shards interleave.  What get_core makes of exec_time is CoreLoad.       *)
(***************************************************************************)
EXTENDS Integers

CONSTANTS
    Cores,      \* shards that run the function
    Durations,  \* cycles a run may take
    Shortest, Longest,  \* bounds on these
    Limit,      \* runs in a window: 100
    IntMax,     \* 2^31 - 1
    MaxRuns     \* bound on the runs of each shard

ASSUME LimitAssumption == Limit \in Nat \ {0}
ASSUME DurationsAssumption ==
    /\ Shortest \in Nat /\ Longest \in Nat /\ IntMax \in Nat
    /\ Durations \subseteq Shortest .. Longest
    /\ MaxRuns \in Nat

VARIABLES
    count, total_exec_time, exec_time,  \* func_states
    pc,         \* pc[c]: the access shard c makes next
    delta,      \* delta[c]: now - start_time of its run
    cnt, total, \* cnt[c], total[c]: its local count and total
    runs,       \* runs[c]: how often it has run the function
    mixed       \* history: updates have overlapped in this window

vars == <<count, total_exec_time, exec_time, pc, delta, cnt, total, runs, mixed>>

(* The int that an unsigned 64-bit average becomes.                        *)
ToInt(x) == IF x % (2 * (IntMax + 1)) <= IntMax
            THEN x % (2 * (IntMax + 1))
            ELSE (x % (2 * (IntMax + 1))) - 2 * (IntMax + 1)

Init ==
    /\ count = 0 /\ total_exec_time = 0 /\ exec_time = -1
    /\ pc = [c \in Cores |-> "idle"]
    /\ delta = [c \in Cores |-> 0]
    /\ cnt = [c \in Cores |-> 0]
    /\ total = [c \in Cores |-> 0]
    /\ runs = [c \in Cores |-> 0]
    /\ mixed = FALSE

Alone(c) == \A d \in Cores \ {c} : pc[d] = "idle"

Goto(c, p) == pc' = [pc EXCEPT ![c] = p]

(* A run has ended; its update begins by loading count.                    *)
LoadCount(c) ==
    /\ pc[c] = "idle" /\ runs[c] < MaxRuns
    /\ runs' = [runs EXCEPT ![c] = @ + 1]
    /\ \E t \in Durations : delta' = [delta EXCEPT ![c] = t]
    /\ cnt' = [cnt EXCEPT ![c] = count + 1]
    /\ Goto(c, "store_count")
    /\ mixed' = (mixed \/ ~Alone(c))
    /\ UNCHANGED <<count, total_exec_time, exec_time, total>>

StoreCount(c) ==
    /\ pc[c] = "store_count"
    /\ count' = cnt[c]
    /\ Goto(c, "load_total")
    /\ UNCHANGED <<total_exec_time, exec_time, delta, cnt, total, runs, mixed>>

LoadTotal(c) ==
    /\ pc[c] = "load_total"
    /\ total' = [total EXCEPT ![c] = total_exec_time + delta[c]]
    /\ Goto(c, "store_total")
    /\ UNCHANGED <<count, total_exec_time, exec_time, delta, cnt, runs, mixed>>

StoreTotal(c) ==
    /\ pc[c] = "store_total"
    /\ total_exec_time' = total[c]
    /\ Goto(c, "store_average")
    /\ UNCHANGED <<count, exec_time, delta, cnt, total, runs, mixed>>

(* Variant: the average is over the count before this run.                 *)
StoreAverageLate(c) ==
    /\ pc[c] = "store_average"
    /\ exec_time' = ToInt(total[c] \div (IF cnt[c] = 1 THEN 1 ELSE cnt[c] - 1))
    /\ Goto(c, IF cnt[c] >= Limit THEN "reset_count" ELSE "idle")
    /\ UNCHANGED <<count, total_exec_time, delta, cnt, total, runs, mixed>>

StoreAverage(c) ==
    /\ pc[c] = "store_average"
    /\ exec_time' = ToInt(total[c] \div cnt[c])
    /\ Goto(c, IF cnt[c] >= Limit THEN "reset_count" ELSE "idle")
    /\ UNCHANGED <<count, total_exec_time, delta, cnt, total, runs, mixed>>

(* The end of a window.  With nobody else in the middle of an update the   *)
(* next one starts from a clean slate, unless somebody comes in below.     *)
ResetCount(c) ==
    /\ pc[c] = "reset_count"
    /\ count' = 0
    /\ Goto(c, "reset_total")
    /\ mixed' = (mixed /\ ~Alone(c))
    /\ UNCHANGED <<total_exec_time, exec_time, delta, cnt, total, runs>>

(* Variant: a new window keeps the total of the last.                      *)
ResetNothing(c) ==
    /\ pc[c] = "reset_total"
    /\ Goto(c, "idle")
    /\ UNCHANGED <<count, total_exec_time, exec_time, delta, cnt, total, runs, mixed>>

ResetTotal(c) ==
    /\ pc[c] = "reset_total"
    /\ total_exec_time' = 0
    /\ Goto(c, "idle")
    /\ UNCHANGED <<count, exec_time, delta, cnt, total, runs, mixed>>

Next == \E c \in Cores :
    \/ LoadCount(c) \/ StoreCount(c) \/ LoadTotal(c) \/ StoreTotal(c)
    \/ StoreAverage(c) \/ ResetCount(c) \/ ResetTotal(c)

Spec == Init /\ [][Next]_vars

-----------------------------------------------------------------------------
Quiet == \A c \in Cores : pc[c] = "idle"

(* Between updates, count and total_exec_time belong together as long as   *)
(* no two updates of this window overlapped; an overlap that the window    *)
(* before it suffered does not last, for the end of a window that nobody   *)
(* else is in the middle of clears both (run_func of req_server.cc).       *)
WindowExact ==
    Quiet /\ ~mixed =>
        /\ count < Limit
        /\ Shortest * count <= total_exec_time
        /\ total_exec_time <= Longest * count

(* The average that such an update stores is one a run could have taken,   *)
(* up to 2^31 - 1 cycles; of a longer one it is what an int keeps, which   *)
(* get_core then takes for a time.                                         *)
AverageInRange ==
    [][exec_time' # exec_time /\ ~mixed =>
        \E average \in Shortest .. Longest :
            /\ exec_time' = ToInt(average)
            /\ average <= IntMax => exec_time' = average]_vars

Steps == {"idle", "store_count", "load_total", "store_total", "store_average",
          "reset_count", "reset_total"}

(* Whatever overlaps: counts and totals are natural numbers, the estimate  *)
(* is an int, and an update in progress never divides by zero.             *)
TypeOK ==
    /\ count \in Nat /\ total_exec_time \in Nat
    /\ exec_time \in -(IntMax + 1) .. IntMax
    /\ pc \in [Cores -> Steps]
    /\ delta \in [Cores -> Nat]
    /\ cnt \in [Cores -> Nat]
    /\ total \in [Cores -> Nat]
    /\ runs \in [Cores -> 0 .. MaxRuns]
    /\ mixed \in BOOLEAN
    /\ \A c \in Cores : pc[c] # "idle" => cnt[c] # 0
=============================================================================
