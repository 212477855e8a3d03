------------------------------ MODULE CoreLoad ------------------------------
(***************************************************************************)
(* How get_core of scheduler.cc chooses a shard for a call, and how long   *)
(* it takes each shard to be busy: busy_till is moved on by the expected   *)
(* time of every call that is placed and set back to the clock when reply  *)
(* finds curr_req empty.  reply runs on the shard that has run the call    *)
(* and, when another shard has asked for it, there a second time.          *)
(*                                                                         *)
(* get_core reads the clock before it waits for the lock, so other shards  *)
(* may place calls, and time may pass, between the two: Ask and Place.     *)
(* exec_time is an int (-1 before a first run) that get_core adds to a     *)
(* 64-bit unsigned: words here are 0 .. W-1.                               *)
(***************************************************************************)
EXTENDS Integers

CONSTANTS
    HwCores,    \* shards below HW_Q_COUNT
    BigCores,   \* the others; none when smp::count <= HW_Q_COUNT
    Calls,      \* calls that get_core places
    Fused,      \* those of them that are roots of fused workflows
    ExecTimes,  \* estimates the statistics can give
    LongFunc,   \* LONG_FUNC
    W,          \* 2^64
    Start,      \* the clock when the first call comes in
    MaxNow,     \* bound on the clock
    None        \* no call, no estimate

Cores == HwCores \cup BigCores

ASSUME CoresAssumption ==
    HwCores \subseteq Nat /\ BigCores \subseteq Nat /\ HwCores \cap BigCores = {}
ASSUME CallsAssumption == Fused \subseteq Calls /\ None \notin Calls \cup Int
ASSUME TimeAssumption ==
    /\ W \in Nat /\ LongFunc \in Nat /\ Start \in Nat /\ MaxNow \in Nat
    /\ ExecTimes \subseteq Int
    /\ LongFunc < W
    /\ \A e \in ExecTimes : 0 <= Start + e

VARIABLES
    now,        \* rdtsc()
    asking,     \* asking[c]: the call shard c is in get_core for
    current,    \* current[c]: the clock that get_core read
    exec_time,  \* exec_time[k]: the estimate get_core was given for k, or None
    busy_till,  \* busy_till[c]: cores[c].busy_till
    prev_cpuid, \* prev_cpuid[k]: the shard that asked for k, until it has the reply
    returning,  \* calls whose reply is on its way to the shard that asked
    placed,     \* placed[c]: calls placed on c and not answered
    curr_req,   \* curr_req[c]: the non-fused calls c has run_func'd
    curr_wf,    \* curr_wf[c]: the fused requests that hold c
    (* history: what busy_till is about *)
    least,      \* least[c]: busy_till[c] when c began on its first call in
                \*   curr_req plus the estimates placed since, None without one
    gain        \* gain[c]: the estimates that are not negative of the calls
                \*   placed on c since nothing was placed there

history == <<least, gain>>
loadVars == <<busy_till, placed, curr_req, curr_wf, history>>
vars == <<now, asking, current, exec_time, prev_cpuid, returning, loadVars>>

(* uint64_t exec_time, from an int.                                        *)
Word(i) == i % W

(* `exec_time < LONG_FUNC && exec_time != -1', on words: a negative        *)
(* estimate is a huge one.                                                 *)
Short(e) == Word(e) < LongFunc /\ Word(e) # W - 1

Init ==
    /\ now = Start
    /\ asking = [c \in Cores |-> None]
    /\ current = [c \in Cores |-> Start]
    /\ exec_time = [k \in Calls |-> None]
    /\ prev_cpuid = [k \in Calls |-> None]
    /\ returning = {}
    /\ busy_till = [c \in Cores |-> 0]
    /\ placed = [c \in Cores |-> {}]
    /\ curr_req = [c \in Cores |-> {}]
    /\ curr_wf = [c \in Cores |-> {}]
    /\ least = [c \in Cores |-> None]
    /\ gain = [c \in Cores |-> 0]

Later(s, t) == IF s < t THEN t ELSE s

-----------------------------------------------------------------------------
(* The scan over a set of shards keeps the first one with the least        *)
(* busy_till.                                                              *)
IsEarliest(d, S) ==
    /\ d \in S
    /\ \A c \in S : busy_till[d] < busy_till[c] \/ (busy_till[d] = busy_till[c] /\ d <= c)

(* Variant: the least busy_till of the big cores is not raised to the      *)
(* clock before the other shards are compared with it.                     *)
ChosenPast(d, e) ==
    \E b \in BigCores : IsEarliest(b, BigCores) /\
        IF Short(e) /\ (\E h \in HwCores : busy_till[h] < busy_till[b])
        THEN IsEarliest(d, HwCores)
        ELSE d = b

(* The earliest big core; for a short function a hardware queue that is    *)
(* free before it and before now, or else before it, is preferred.         *)
Chosen(d, e) ==
    \E b \in BigCores : IsEarliest(b, BigCores) /\
        IF Short(e) /\ (\E h \in HwCores : busy_till[h] < Later(busy_till[b], now))
        THEN IsEarliest(d, HwCores)
        ELSE d = b

(* max(busy_till, current) + exec_time, on words, with 0 taken for 1.      *)
Moved(till, cur, e) == (Later(till, cur) + (IF e = 0 THEN 1 ELSE Word(e))) % W

(* What a call adds: its estimate, with 0 taken for 1.                     *)
Cost(e) == IF e = 0 THEN 1 ELSE e

(* schedule notes who asks; get_core, first part: the estimate and the     *)
(* clock are read.                                                         *)
Ask(c, k) ==
    /\ asking[c] = None
    /\ exec_time[k] = None
    /\ asking' = [asking EXCEPT ![c] = k]
    /\ current' = [current EXCEPT ![c] = now]
    /\ \E e \in ExecTimes : exec_time' = [exec_time EXCEPT ![k] = e]
    /\ prev_cpuid' = [prev_cpuid EXCEPT ![k] = c]
    /\ UNCHANGED <<now, returning, loadVars>>

(* get_core, the rest, under the lock (there is none when the call can     *)
(* only stay where it is).                                                 *)
Place(c) ==
    /\ asking[c] # None
    /\ \E d \in Cores :
        /\ IF BigCores = {} THEN d = c ELSE Chosen(d, exec_time[asking[c]])
        /\ placed' = [placed EXCEPT ![d] = @ \cup {asking[c]}]
        /\ busy_till' = [busy_till EXCEPT
                            ![d] = Moved(@, current[c], exec_time[asking[c]])]
        /\ least' = [least EXCEPT ![d] =
                        IF @ = None THEN None ELSE @ + Cost(exec_time[asking[c]])]
        /\ gain' = [gain EXCEPT ![d] = @ + Later(0, Cost(exec_time[asking[c]]))]
    /\ asking' = [asking EXCEPT ![c] = None]
    /\ UNCHANGED <<now, current, exec_time, prev_cpuid, returning, curr_req, curr_wf>>

(* run_func of call k on shard d: a fused one enters curr_wf only.         *)
Arrive(d, k) ==
    /\ asking[d] = None
    /\ k \in placed[d] \ (curr_req[d] \cup curr_wf[d])
    /\ IF k \in Fused
       THEN curr_wf' = [curr_wf EXCEPT ![d] = @ \cup {k}] /\ UNCHANGED <<curr_req, least>>
       ELSE /\ curr_req' = [curr_req EXCEPT ![d] = @ \cup {k}]
            /\ least' = [least EXCEPT ![d] = IF curr_req[d] = {} THEN busy_till[d] ELSE @]
            /\ curr_wf' = curr_wf
    /\ UNCHANGED <<now, asking, current, exec_time, prev_cpuid, returning,
                   busy_till, placed, gain>>

(* Variant: the shard is looked at before the call is erased.              *)
LeaveTooSoon(c, left) ==
    busy_till' = IF curr_req[c] = {} THEN [busy_till EXCEPT ![c] = now] ELSE busy_till

(* Variant: the shard is set free at every reply.                          *)
LeaveAlways(c, left) == busy_till' = [busy_till EXCEPT ![c] = now]

(* reply on shard c, under the lock: free when no call is left in curr_req,*)
(* whatever is placed on it.                                               *)
Leave(c, left) ==
    busy_till' = IF left = {} THEN [busy_till EXCEPT ![c] = now] ELSE busy_till

(* reply to call k on shard d, which has run it.  The reply is complete    *)
(* when d asked for k itself; otherwise it goes to the shard that did.     *)
Answer(d, k) ==
    /\ asking[d] = None
    /\ k \in curr_req[d] \cup curr_wf[d]
    /\ curr_req' = [curr_req EXCEPT ![d] = @ \ {k}]
    /\ Leave(d, curr_req'[d])
    /\ curr_wf' = [curr_wf EXCEPT ![d] = @ \ {k}]
    /\ placed' = [placed EXCEPT ![d] = @ \ {k}]
    /\ IF prev_cpuid[k] = d
       THEN prev_cpuid' = [prev_cpuid EXCEPT ![k] = None] /\ returning' = returning
       ELSE prev_cpuid' = prev_cpuid /\ returning' = returning \cup {k}
    /\ least' = [least EXCEPT ![d] = IF curr_req'[d] = {} THEN None ELSE @]
    /\ gain' = [gain EXCEPT ![d] = IF placed'[d] = {} THEN 0 ELSE @]
    /\ UNCHANGED <<now, asking, current, exec_time>>

(* reply to call k a second time, on shard c, which asked for it: k is not *)
(* in c's queue nor in its curr_req.  If that is empty c is set free, with *)
(* whatever has been placed on it in the meantime.                         *)
AnswerAgain(c, k) ==
    /\ asking[c] = None
    /\ k \in returning /\ prev_cpuid[k] = c
    /\ Leave(c, curr_req[c])
    /\ returning' = returning \ {k}
    /\ prev_cpuid' = [prev_cpuid EXCEPT ![k] = None]
    /\ UNCHANGED <<now, asking, current, exec_time, placed, curr_req, curr_wf, history>>

(* reply to a sub-call of the fused request that holds d, which has asked  *)
(* for it and runs it: it was not placed and is not in curr_req, and yet   *)
(* the shard is set free.                                                  *)
AnswerInside(d) ==
    /\ asking[d] = None /\ curr_wf[d] # {}
    /\ Leave(d, curr_req[d])
    /\ UNCHANGED <<now, asking, current, exec_time, prev_cpuid, returning,
                   placed, curr_req, curr_wf, history>>

Tick ==
    /\ now < MaxNow
    /\ now' = now + 1
    /\ UNCHANGED <<asking, current, exec_time, prev_cpuid, returning, loadVars>>

Next ==
    \/ Tick
    \/ \E c \in Cores :
        \/ Place(c)
        \/ AnswerInside(c)
        \/ \E k \in Calls : Ask(c, k) \/ Arrive(c, k) \/ Answer(c, k) \/ AnswerAgain(c, k)

Spec == Init /\ [][Next]_vars

-----------------------------------------------------------------------------

(* A shard that has answered everything placed on it does not look busy:   *)
(* its busy_till is not in the future, whatever was promised for the calls *)
(* it ran (reply of scheduler.cc sets it back when curr_req is empty).     *)
(* Otherwise get_core would go on avoiding a shard that has nothing to do. *)
IdleLooksFree == \A c \in Cores : placed[c] = {} => busy_till[c] <= now

(* With more shards than hardware queues, a function that is long or that  *)
(* has never run is not placed on a shard that serves a hardware queue.    *)
LongOnBig ==
    BigCores # {} => \A h \in HwCores : \A k \in placed[h] : Short(exec_time[k])

(* get_core takes a shard that will be free as early as any it may take;   *)
(* a short function goes to a big core only when every hardware queue is   *)
(* busy now.  (The scan compares with `min', raised to the clock half way.)*)
PlacedWell ==
    [][BigCores # {} =>
        \A c, d \in Cores :
            placed'[d] # placed[d] /\ asking[c] \in placed'[d] \ placed[d] =>
                LET short == Short(exec_time[asking[c]])
                IN  /\ \A e \in IF short THEN Cores ELSE BigCores :
                          Later(busy_till[d], now) <= Later(busy_till[e], now)
                    /\ short /\ d \in BigCores =>
                          \A h \in HwCores : now <= busy_till[h]]_vars

(* busy_till of a shard stays in step with the estimates of its calls.  It *)
(* is never later than now plus those placed since nothing was placed      *)
(* there; and from when the shard begins on a call in curr_req until it    *)
(* has none left, none is lost: neither to a clock read before the lock    *)
(* nor to the replies that other shards send back in the meantime.  (The   *)
(* -1 of a function that has not run takes one away.  What is promised     *)
(* while curr_req is empty, reply forgets.)  A word wraps around only when *)
(* the time promised to one shard does not fit in 64 bits.                 *)
LoadAccounted ==
    \A c \in Cores : now + gain[c] < W =>
        /\ least[c] # None => least[c] <= busy_till[c]
        /\ busy_till[c] <= now + gain[c]
=============================================================================
