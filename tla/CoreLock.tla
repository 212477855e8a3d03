------------------------------ MODULE CoreLock ------------------------------
(***************************************************************************)
(* The lock protocol of scheduler.cc: cores[0].mu guards cores[].q and     *)
(* cores[].task_map, which get_core, run_func, dispatch and reply touch.   *)
(* With at most HW_Q_COUNT shards get_core does not lock it, and unlocks   *)
(* it all the same.  What that does is up to the C library, so boost's     *)
(* mutex is taken apart here: a word that is 0 (free), 1 (held) or 2 (held,*)
(* perhaps with waiters), and the futex that waiters sleep on.             *)
(***************************************************************************)
EXTENDS Naturals, FiniteSets

CONSTANTS
    Threads,    \* shards, one thread each
    MaxOps      \* bound on the functions each shard goes through

ASSUME BoundAssumption == MaxOps \in Nat

Ops == {"get_core", "run_func", "dispatch", "reply"}

VARIABLES
    single,     \* smp::count <= HW_Q_COUNT, which does not change
    word,       \* the mutex
    pc,         \* pc[c]: where shard c is
    op,         \* op[c]: the function it is in
    target,     \* target[c]: the shard whose q or task_map it touches
    ops         \* ops[c]: functions it has gone through

lockVars == <<single, word, pc, op, target, ops>>

LockInit ==
    /\ single \in BOOLEAN
    /\ word = 0
    /\ pc = [c \in Threads |-> "idle"]
    /\ op = [c \in Threads |-> "dispatch"]
    /\ target = [c \in Threads |-> c]
    /\ ops = [c \in Threads |-> 0]

Goto(c, p) == pc' = [pc EXCEPT ![c] = p]

(* Variant: get_core without big cores chooses among all shards.           *)
TargetsAny(c, o) == IF o = "get_core" THEN Threads ELSE {c}

(* Only get_core touches another shard's queue, and not without big cores. *)
Targets(c, o) == IF o = "get_core" /\ ~single THEN Threads ELSE {c}

Locks(o) == ~(o = "get_core" /\ single)

(* A function begins; dispatch looks at the size of its queue first.       *)
Begin(c) ==
    /\ pc[c] = "idle" /\ ops[c] < MaxOps
    /\ \E o \in Ops :
        /\ op' = [op EXCEPT ![c] = o]
        /\ \E d \in Targets(c, o) : target' = [target EXCEPT ![c] = d]
        /\ Goto(c, IF o = "dispatch" THEN "peek" ELSE IF Locks(o) THEN "lock" ELSE "in")
    /\ ops' = [ops EXCEPT ![c] = @ + 1]
    /\ UNCHANGED <<single, word>>

(* q.size(), without the lock: zero or not.                                *)
Peek(c) ==
    /\ pc[c] = "peek"
    /\ Goto(c, "lock") \/ Goto(c, "idle")
    /\ UNCHANGED <<single, word, op, target, ops>>

(* lock(): a free mutex is taken at once.                                  *)
Lock(c) ==
    /\ pc[c] = "lock"
    /\ IF word = 0
       THEN word' = 1 /\ Goto(c, "in")
       ELSE word' = word /\ Goto(c, "contend")
    /\ UNCHANGED <<single, op, target, ops>>

(* The word becomes 2; whoever finds it 0 has the mutex.                   *)
Contend(c) ==
    /\ pc[c] = "contend"
    /\ word' = 2
    /\ Goto(c, IF word = 0 THEN "in" ELSE "wait")
    /\ UNCHANGED <<single, op, target, ops>>

(* futex_wait: sleep if the word is still 2.                               *)
Wait(c) ==
    /\ pc[c] = "wait"
    /\ Goto(c, IF word = 2 THEN "asleep" ELSE "contend")
    /\ UNCHANGED <<single, word, op, target, ops>>

(* unlock(): the word becomes 0, whoever set it; with a 2 somebody may have*)
(* to be woken.                                                            *)
Unlock(c) ==
    /\ pc[c] = "in"
    /\ word' = 0
    /\ Goto(c, IF word = 2 THEN "wake" ELSE "idle")
    /\ UNCHANGED <<single, op, target, ops>>

(* Variant: nobody is woken.                                               *)
WakeNobody(c) == Goto(c, "idle")

WakeOne(c) ==
    IF \E d \in Threads : pc[d] = "asleep"
    THEN \E d \in Threads : pc[d] = "asleep" /\ pc' = [pc EXCEPT ![c] = "idle", ![d] = "contend"]
    ELSE Goto(c, "idle")

Wake(c) ==
    /\ pc[c] = "wake"
    /\ WakeOne(c)
    /\ UNCHANGED <<single, word, op, target, ops>>

Step(c) ==
    Begin(c) \/ Peek(c) \/ Lock(c) \/ Contend(c) \/ Wait(c) \/ Unlock(c) \/ Wake(c)

LockNext == \E c \in Threads : Step(c)

LockSpec == LockInit /\ [][LockNext]_lockVars

(* A thread that is not asleep runs.                                       *)
FairSpec == LockSpec /\ \A c \in Threads : WF_lockVars(Step(c))

-----------------------------------------------------------------------------
(* No two shards touch the queue and the tasks of one shard at a time (the *)
(* size that dispatch reads before it locks aside): with big cores because *)
(* of the mutex, without them although two shards may hold it at once.     *)
NoRace ==
    \A c, d \in Threads : c # d /\ pc[c] = "in" /\ pc[d] = "in" => target[c] # target[d]

(* With big cores the mutex is held by one shard at most.                  *)
OneHolder ==
    ~single => \A c, d \in Threads : pc[c] = "in" /\ pc[d] = "in" => c = d

Done == \A c \in Threads : pc[c] = "idle" /\ ops[c] = MaxOps

(* An unlock by a shard that does not hold the mutex takes nobody's wake-up*)
(* away: every shard gets through the functions it calls.                  *)
AllGetThrough == <>Done
=============================================================================
