-------------------------- MODULE HashTableProofs --------------------------
(***************************************************************************)
(* For any number of shards, keys and nodes: the upgradeable lock of a     *)
(* database keeps every write of ht_set apart from every other access, and *)
(* is free again when nobody is inside; under it the chains stay sound, and*)
(* the table implements a store whose gets and sets are atomic.            *)
(***************************************************************************)
EXTENDS HashTable, TLAPS

Getting(t) == op[t].type = "get"
Setting(t) == op[t].type = "set"

(* Who holds the lock, and how, follows from where each shard is.          *)
HeldBy ==
    /\ \A t \in Threads : t \in readers <=> pc[t] \in {"walk", "unlock"} /\ Getting(t)
    /\ \A t \in Threads : upgrader = t <=> pc[t] = "walk" /\ Setting(t)
    /\ \A t \in Threads : writer = t <=> pc[t] \in {"write", "unlock"} /\ Setting(t)
    /\ \A t \in Threads : pc[t] # "idle" => Getting(t) \/ Setting(t)
    /\ \A t \in Threads : pc[t] = "write" => Setting(t)

(* The promise of the lock: a writer excludes everybody else.              *)
Exclusive == writer # None => readers = {} /\ upgrader = None

Types ==
    /\ pc \in [Threads -> {"idle", "lock", "walk", "write", "unlock"}]
    /\ op = [t \in Threads |-> op[t]]
    /\ readers \subseteq Threads
    /\ upgrader \in Threads \cup {None}
    /\ writer \in Threads \cup {None}

IInv == Types /\ HeldBy /\ Exclusive

(* Nobody is inside.                                                       *)
LEMMA InitIInv == Init => IInv
BY ThreadsAssumption DEF Init, IInv, Types, HeldBy, Exclusive

(* The lock changes hands only as the shards move.                         *)
LEMMA NextIInv == IInv /\ [Next]_vars => IInv'
<1> SUFFICES ASSUME IInv, [Next]_vars PROVE IInv'
  OBVIOUS
<1> USE ThreadsAssumption DEF IInv, Types, HeldBy, Exclusive, Getting, Setting, Goto, lockVars
<1>1. CASE UNCHANGED vars
  BY <1>1 DEF vars
<1>2. ASSUME NEW t \in Threads, NEW k \in Keys, CallGet(t, k) PROVE IInv'
  BY <1>2 DEF CallGet
<1>3. ASSUME NEW t \in Threads, NEW k \in Keys, NEW n \in Versions,
             NEW o \in Versions \cup {Absent}, CallSet(t, k, n, o)
      PROVE  IInv'
  BY <1>3 DEF CallSet
<1>4. ASSUME NEW t \in Threads, LockShared(t) PROVE IInv'
  BY <1>4 DEF LockShared
<1>5. ASSUME NEW t \in Threads, LockUpgrade(t) PROVE IInv'
  BY <1>5 DEF LockUpgrade, UpgradeFree
<1>6. ASSUME NEW t \in Threads, Walk(t) PROVE IInv'
  BY <1>6 DEF Walk
<1>7. ASSUME NEW t \in Threads, Copy(t) PROVE IInv'
  BY <1>7 DEF Copy
<1>8. ASSUME NEW t \in Threads, Upgrade(t) PROVE IInv'
  BY <1>8 DEF Upgrade, NoReaders
<1>9. ASSUME NEW t \in Threads, Replace(t) PROVE IInv'
  BY <1>9 DEF Replace
<1>10. ASSUME NEW t \in Threads, Insert(t) PROVE IInv'
  BY <1>10 DEF Insert
<1>11. ASSUME NEW t \in Threads, Return(t) PROVE IInv'
  BY <1>11 DEF Return, Unlock
<1> QED
  BY <1>1, <1>2, <1>3, <1>4, <1>5, <1>6, <1>7, <1>8, <1>9, <1>10, <1>11 DEF Next, Step

(* The inductive invariant holds in every reachable state.                 *)
THEOREM Invariance == Spec => []IInv
BY InitIInv, NextIInv, PTL DEF Spec

(* No access of a shard to a chain races with a write of ht_set.           *)
THEOREM WritesAreExclusive == Spec => []NoRace
<1>1. IInv => NoRace
  BY ThreadsAssumption DEF IInv, Types, HeldBy, Exclusive, Getting, Setting, NoRace
<1> QED
  BY <1>1, Invariance, PTL

(* Whatever way ht_get and ht_set return, they leave the lock free.        *)
THEOREM LocksAreReleased == Spec => []LocksReleased
<1>1. IInv => LocksReleased
  BY ThreadsAssumption DEF IInv, Types, HeldBy, Getting, Setting, LocksReleased
<1> QED
  BY <1>1, Invariance, PTL

-----------------------------------------------------------------------------
(* What is reached by following pointers.                                  *)
Pointers == [Nodes -> Nodes \cup {NULL}]

(* Everything reached is in a set that holds the start and is not left.    *)
LEMMA ReachLeast ==
  ASSUME NEW f, NEW x, NEW S \in SUBSET Nodes, x # NULL => x \in S,
         \A m \in S : f[m] # NULL => f[m] \in S
  PROVE  Reachable(f, x) \subseteq S
BY DEF Reachable

(* What is reached is itself such a set.                                   *)
LEMMA ReachClosed ==
  ASSUME NEW f \in Pointers, NEW x \in Nodes \cup {NULL}
  PROVE  /\ Reachable(f, x) \subseteq Nodes
         /\ x # NULL => x \in Reachable(f, x)
         /\ \A m \in Reachable(f, x) : f[m] # NULL => f[m] \in Reachable(f, x)
BY DEF Reachable, Pointers

(* From no node none is reached.                                           *)
LEMMA ReachNone == ASSUME NEW f PROVE Reachable(f, NULL) = {}
<1>1. {} \in SUBSET Nodes
  OBVIOUS
<1> QED
  BY <1>1 DEF Reachable

(* The walk of ht_get and ht_set: a node, and what is reached from the next*)
LEMMA ReachStep ==
  ASSUME NEW f \in Pointers, NEW x \in Nodes
  PROVE  Reachable(f, x) = {x} \cup Reachable(f, f[x])
<1> DEFINE S == {x} \cup Reachable(f, f[x])
<1>1. f[x] \in Nodes \cup {NULL}
  BY DEF Pointers
<1>2. S \in SUBSET Nodes /\ \A m \in S : f[m] # NULL => f[m] \in S
  BY <1>1, ReachClosed
<1>3. Reachable(f, x) \subseteq S
  <2>1. x \in S
    OBVIOUS
  <2> HIDE DEF S
  <2> QED
    BY <1>2, <2>1, ReachLeast
<1>4. x \in Reachable(f, x) /\ Reachable(f, x) \in SUBSET Nodes
  BY ReachClosed, NodesAssumption
<1>5. \A m \in Reachable(f, x) : f[m] # NULL => f[m] \in Reachable(f, x)
  BY ReachClosed, NodesAssumption
<1>6. Reachable(f, f[x]) \subseteq Reachable(f, x)
  BY <1>4, <1>5, ReachLeast
<1> QED
  BY <1>3, <1>4, <1>6

(* Pointers of nodes that are not reached do not matter.                   *)
LEMMA ReachFrame ==
  ASSUME NEW f \in Pointers, NEW g \in Pointers, NEW x \in Nodes \cup {NULL},
         \A m \in Reachable(f, x) : g[m] = f[m]
  PROVE  Reachable(g, x) = Reachable(f, x)
<1>1. Reachable(g, x) \subseteq Reachable(f, x)
  BY ReachClosed, ReachLeast
<1>2. Reachable(f, x) \subseteq Reachable(g, x)
  <2>1. \A m \in Reachable(g, x) : f[m] # NULL => f[m] \in Reachable(g, x)
    BY <1>1, ReachClosed
  <2>2. Reachable(g, x) \in SUBSET Nodes /\ (x # NULL => x \in Reachable(g, x))
    BY ReachClosed
  <2> QED
    BY <2>1, <2>2, ReachLeast
<1> QED
  BY <1>1, <1>2

(* Link: a node is put behind the last one that is reached.                *)
LEMMA ReachLinked ==
  ASSUME NEW f \in Pointers, NEW x \in Nodes \cup {NULL}, NEW v \in Nodes,
         NEW last \in Reachable(f, x), f[last] = NULL, f[v] = NULL
  PROVE  Reachable([f EXCEPT ![last] = v], x) = Reachable(f, x) \cup {v}
<1> DEFINE g == [f EXCEPT ![last] = v]
           S == Reachable(f, x) \cup {v}
<1>1. last \in Nodes /\ g \in Pointers
  BY ReachClosed DEF Pointers
<1>2. Reachable(g, x) \subseteq S
  <2>1. S \in SUBSET Nodes /\ (x # NULL => x \in S)
    BY ReachClosed
  <2>2. \A m \in S : g[m] # NULL => g[m] \in S
    BY <1>1, ReachClosed DEF Pointers
  <2> HIDE DEF g, S
  <2> QED
    BY <2>1, <2>2, ReachLeast
<1>3. Reachable(g, x) \in SUBSET Nodes /\ (x # NULL => x \in Reachable(g, x))
      /\ \A m \in Reachable(g, x) : g[m] # NULL => g[m] \in Reachable(g, x)
  <2> HIDE DEF g
  <2> QED
    BY <1>1, ReachClosed
<1>4. Reachable(f, x) \subseteq Reachable(g, x)
  <2>1. \A m \in Reachable(g, x) : f[m] # NULL => f[m] \in Reachable(g, x)
    BY <1>1, <1>3 DEF Pointers
  <2> HIDE DEF g
  <2> QED
    BY <2>1, <1>3, ReachLeast
<1>5. v \in Reachable(g, x)
  <2>1. g[last] = v
    BY <1>1 DEF Pointers
  <2> QED
    BY <2>1, <1>3, <1>4, NodesAssumption
<1> QED
  BY <1>2, <1>4, <1>5

-----------------------------------------------------------------------------
(* What the memory of the table holds.                                     *)
Inside(t) == pc[t] \in {"walk", "write"}
Brings(t) == (Inside(t) \/ pc[t] = "lock") /\ Setting(t)
Its(t) == Bucket[op[t].key]

MemTypes ==
    /\ op \in [Threads -> Calls \cup {None}]
    /\ res \in [Threads -> Results \cup {None}]
    /\ table \in [Buckets -> Nodes \cup {NULL}]
    /\ next \in Pointers
    /\ key \in [Nodes -> Keys \cup {None}]
    /\ data \in [Nodes -> Versions \cup {None}]
    /\ heap \subseteq Nodes
    /\ val \in [Threads -> Nodes \cup {NULL}]
    /\ cur \in [Threads -> Nodes \cup {NULL}]
    /\ before \in [Threads -> Nodes \cup {NULL}]

(* A call has its result once it is about to return.                       *)
Pending ==
    \A t \in Threads : /\ pc[t] = "idle" <=> op[t] = None
                       /\ pc[t] = "unlock" <=> res[t] # None

(* An entry is allocated and has a key of its bucket that no other has.    *)
Entries ==
    \A b \in Buckets :
        /\ Chain(b) # {} => \E n \in Chain(b) : next[n] = NULL
        /\ \A n \in Chain(b) :
              n \in heap /\ key[n] \in Keys /\ Bucket[key[n]] = b /\ data[n] \in Versions
        /\ \A m, n \in Chain(b) : key[m] = key[n] => m = n

(* The node that a set brings is its own until it is linked.               *)
Brought ==
    /\ \A t \in Threads : Brings(t) =>
          /\ val[t] \in heap
          /\ \A b \in Buckets : val[t] \notin Chain(b)
          /\ key[val[t]] = op[t].key /\ data[val[t]] = op[t].new
          /\ Inside(t) => next[val[t]] = NULL
    /\ \A t, u \in Threads : Brings(t) /\ Brings(u) /\ val[t] = val[u] => t = u

(* A walk is on its chain, has not passed the entry it looks for, and knows*)
(* the node before.                                                        *)
Walking ==
    \A t \in Threads : Inside(t) =>
        /\ cur[t] # NULL => cur[t] \in Chain(Its(t))
        /\ \A n \in Chain(Its(t)) : key[n] = op[t].key => n \in Reachable(next, cur[t])
        /\ Setting(t) =>
              IF before[t] = NULL THEN cur[t] = table[Its(t)]
              ELSE before[t] \in Chain(Its(t)) /\ next[before[t]] = cur[t]
        /\ pc[t] = "write" /\ cur[t] # NULL => key[cur[t]] = op[t].key

MInv == MemTypes /\ Pending /\ Entries /\ Brought /\ Walking

(* An empty table, and nobody has called.                                  *)
LEMMA InitMInv == Init => MInv
<1> SUFFICES ASSUME Init PROVE MInv
  OBVIOUS
<1> USE DEF Init
<1>1. MemTypes
  BY DEF MemTypes, Pointers
<1>2. \A b \in Buckets : Chain(b) = {}
  BY ReachNone DEF Chain
<1> QED
  BY <1>1, <1>2 DEF MInv, Pending, Entries, Brought, Walking, Brings, Inside

(* What a step in which no memory is written has to show.                  *)
LEMMA ReadStep ==
  ASSUME MInv, UNCHANGED memVars
  PROVE  /\ \A b \in Buckets : Chain(b)' = Chain(b)
         /\ Entries'
BY DEF MInv, Entries, Chain, memVars

(* Calls and their keys.                                                   *)
LEMMA CallFacts ==
  ASSUME MemTypes, Pending, HeldBy, Types, NEW t \in Threads, pc[t] # "idle"
  PROVE  /\ op[t] \in Calls /\ op[t].key \in Keys /\ Its(t) \in Buckets
         /\ Getting(t) \/ Setting(t)
         /\ Setting(t) => op[t].new \in Versions
BY BucketAssumption DEF MemTypes, Pending, HeldBy, Types, Calls, Its, Getting, Setting

LEMMA CallGetStep ==
  ASSUME IInv, MInv, NEW t \in Threads, NEW k \in Keys, CallGet(t, k)
  PROVE  MInv'
<1>1. Entries' /\ \A b \in Buckets : Chain(b)' = Chain(b)
  BY ReadStep DEF CallGet
<1>2. MemTypes'
  BY DEF MInv, MemTypes, CallGet, Calls, memVars
<1>3. Pending'
  BY NoneAssumption DEF IInv, Types, MInv, MemTypes, Pending, CallGet, Goto, Calls
<1>4. Brought'
  BY <1>1 DEF IInv, Types, MInv, MemTypes, Brought, Brings, Inside, Setting, CallGet, Goto, memVars
<1>5. Walking'
  <2> SUFFICES ASSUME NEW u \in Threads, Inside(u)'
               PROVE  u # t /\ Inside(u) /\ op'[u] = op[u] /\ pc'[u] = pc[u]
    BY <1>1, CallFacts DEF IInv, MInv, Walking, Its, Setting, Inside, CallGet, memVars, Chain
  <2> QED
    BY DEF IInv, Types, MInv, MemTypes, CallGet, Goto, Inside
<1> QED
  BY <1>1, <1>2, <1>3, <1>4, <1>5 DEF MInv

(* The node that db_set makes is in no chain.                              *)
LEMMA CallSetStep ==
  ASSUME IInv, MInv, NEW t \in Threads, NEW k \in Keys, NEW new \in Versions,
         NEW old \in Versions \cup {Absent}, CallSet(t, k, new, old)
  PROVE  MInv'
<1>1. PICK n \in Nodes \ heap :
           /\ heap' = heap \cup {n}
           /\ key' = [key EXCEPT ![n] = k]
           /\ data' = [data EXCEPT ![n] = new]
           /\ val' = [val EXCEPT ![t] = n]
  BY DEF CallSet
<1>2. \A b \in Buckets : Chain(b)' = Chain(b) /\ n \notin Chain(b)
  BY DEF CallSet, Chain, MInv, Entries
<1>3. op' = [op EXCEPT ![t] = [type |-> "set", key |-> k, new |-> new, old |-> old]]
      /\ pc[t] = "idle" /\ pc' = [pc EXCEPT ![t] = "lock"]
      /\ UNCHANGED <<table, next, res, cur, before>>
  BY DEF CallSet, Goto
<1>4. MemTypes'
  BY <1>1, <1>3 DEF MInv, MemTypes, Calls
<1>5. Pending'
  BY <1>3, NoneAssumption DEF IInv, Types, MInv, MemTypes, Pending, Calls
<1>6. \A m \in heap : m \in heap' /\ key'[m] = key[m] /\ data'[m] = data[m]
  BY <1>1 DEF MInv, MemTypes
<1>7. Entries'
  <2> SUFFICES ASSUME NEW b \in Buckets
               PROVE  /\ Chain(b) # {} => \E m \in Chain(b) : next[m] = NULL
                      /\ \A m \in Chain(b) :
                            m \in heap' /\ key'[m] \in Keys /\ Bucket[key'[m]] = b
                            /\ data'[m] \in Versions
                      /\ \A m, l \in Chain(b) : key'[m] = key'[l] => m = l
    BY <1>2, <1>3 DEF Entries
  <2> QED
    BY <1>6 DEF MInv, Entries
<1>8. Brought'
  <2>1. ASSUME NEW u \in Threads, Brings(u)', u # t
        PROVE  Brings(u) /\ val'[u] = val[u] /\ op'[u] = op[u] /\ Inside(u)' = Inside(u)
               /\ val[u] \in heap /\ val[u] # n
    BY <2>1, <1>1, <1>3 DEF IInv, Types, MInv, MemTypes, Brings, Inside, Setting, Brought
  <2>2. /\ val'[t] = n /\ n \in heap' /\ key'[n] = k /\ data'[n] = new
        /\ op'[t].key = k /\ op'[t].new = new /\ ~Inside(t)'
    BY <1>1, <1>3 DEF IInv, Types, MInv, MemTypes, Inside
  <2> QED
    BY <2>1, <2>2, <1>2, <1>3, <1>6 DEF MInv, Brought
<1>9. Walking'
  <2> SUFFICES ASSUME NEW u \in Threads, Inside(u)'
               PROVE  /\ Inside(u) /\ op'[u] = op[u] /\ pc'[u] = pc[u]
                      /\ cur[u] # NULL => cur[u] \in heap
                      /\ \A m \in Chain(Its(u)) : m \in heap
                      /\ Its(u) \in Buckets
    BY <1>2, <1>3, <1>6 DEF MInv, Walking, Its, Setting
  <2>1. Inside(u) /\ op'[u] = op[u] /\ pc'[u] = pc[u]
    BY <1>3 DEF IInv, Types, MInv, MemTypes, Inside
  <2>2. Its(u) \in Buckets
    BY <2>1, CallFacts DEF IInv, MInv, Inside
  <2> QED
    BY <2>1, <2>2 DEF MInv, Walking, Entries
<1> QED
  BY <1>4, <1>5, <1>7, <1>8, <1>9 DEF MInv

(* A walk begins at the head of its chain, with everything before it.      *)
LEMMA LockSharedStep ==
  ASSUME IInv, MInv, NEW t \in Threads, LockShared(t)
  PROVE  MInv'
<1>1. Entries' /\ \A b \in Buckets : Chain(b)' = Chain(b)
  BY ReadStep DEF LockShared
<1>2. /\ pc[t] = "lock" /\ pc' = [pc EXCEPT ![t] = "walk"] /\ Getting(t)
      /\ cur' = [cur EXCEPT ![t] = table[Its(t)]]
      /\ UNCHANGED <<table, key, next, data, heap, op, res, val, before>>
  BY DEF LockShared, Goto, Its, memVars, Getting
<1>3. Its(t) \in Buckets /\ table[Its(t)] \in Nodes \cup {NULL}
  BY <1>2, CallFacts DEF IInv, MInv, MemTypes
<1>4. MemTypes'
  BY <1>2, <1>3 DEF MInv, MemTypes
<1>5. Pending'
  BY <1>2 DEF IInv, Types, MInv, Pending
<1>6. Brought'
  BY <1>1, <1>2 DEF IInv, Types, MInv, Brought, Brings, Inside, Setting, Getting
<1>7. Walking'
  <2>1. ASSUME NEW u \in Threads, u # t, Inside(u)'
        PROVE  Inside(u) /\ pc'[u] = pc[u] /\ cur'[u] = cur[u] /\ Its(u) \in Buckets
    <3>1. Inside(u) /\ pc'[u] = pc[u] /\ cur'[u] = cur[u]
      BY <2>1, <1>2 DEF IInv, Types, MInv, MemTypes, Inside
    <3> QED
      BY <3>1, CallFacts DEF IInv, MInv, Inside
  <2>2. /\ cur'[t] = table[Its(t)] /\ pc'[t] = "walk" /\ ~Setting(t)
        /\ Reachable(next, table[Its(t)]) = Chain(Its(t))
    BY <1>2 DEF IInv, Types, MInv, MemTypes, Setting, Getting, Chain
  <2>3. table[Its(t)] # NULL => table[Its(t)] \in Chain(Its(t))
    BY <1>3, ReachClosed DEF MInv, MemTypes, Chain
  <2> QED
    BY <2>1, <2>2, <2>3, <1>1, <1>2, <1>3 DEF MInv, Walking, Its, Setting
<1> QED
  BY <1>1, <1>4, <1>5, <1>6, <1>7 DEF MInv

(* What is reached from a node of a chain is in the chain.                 *)
LEMMA Suffix ==
  ASSUME MemTypes, NEW b \in Buckets, NEW x \in Chain(b) \cup {NULL}
  PROVE  /\ Reachable(next, x) \subseteq Chain(b) /\ x \in Nodes \cup {NULL}
         /\ x \in Nodes => next[x] \in Chain(b) \cup {NULL}
<1>1. /\ Chain(b) \in SUBSET Nodes /\ next \in Pointers
      /\ \A m \in Chain(b) : next[m] # NULL => next[m] \in Chain(b)
  BY ReachClosed DEF MemTypes, Chain
<1>2. CASE x = NULL
  BY <1>1, <1>2, ReachNone, NodesAssumption
<1>3. CASE x \in Chain(b)
  BY <1>1, <1>3, ReachLeast
<1> QED
  BY <1>2, <1>3

(* A pointer of a node that is not in a chain does not matter to it.       *)
LEMMA ElsewhereWritten ==
  ASSUME MemTypes, NEW b \in Buckets, NEW v \in Nodes \ Chain(b), NEW x \in Nodes \cup {NULL},
         next' = [next EXCEPT ![v] = x], table'[b] = table[b]
  PROVE  /\ Chain(b)' = Chain(b)
         /\ \A c \in Chain(b) \cup {NULL} : Reachable(next', c) = Reachable(next, c)
         /\ \A c \in Chain(b) : next'[c] = next[c]
<1>1. next \in Pointers /\ next' \in Pointers /\ table[b] \in Nodes \cup {NULL}
  BY DEF MemTypes, Pointers
<1>2. \A c \in Chain(b) : next'[c] = next[c]
  BY <1>1, ReachClosed DEF Chain, MemTypes, Pointers
<1>3. ASSUME NEW c \in Nodes \cup {NULL}, Reachable(next, c) \subseteq Chain(b)
      PROVE  Reachable(next', c) = Reachable(next, c)
  <2>1. \A m \in Reachable(next, c) : next'[m] = next[m]
    BY <1>2, <1>3
  <2> QED
    BY ONLY <2>1, <1>1, ReachFrame, c \in Nodes \cup {NULL}
<1>4. Chain(b)' = Chain(b)
  BY <1>1, <1>3 DEF Chain
<1>5. ASSUME NEW c \in Chain(b) \cup {NULL} PROVE Reachable(next', c) = Reachable(next, c)
  BY <1>3, Suffix
<1> QED
  BY <1>2, <1>4, <1>5

(* ht_set ends the node it brings, which is in no chain yet.               *)
LEMMA LockUpgradeStep ==
  ASSUME IInv, MInv, NEW t \in Threads, LockUpgrade(t)
  PROVE  MInv'
<1>1. /\ pc[t] = "lock" /\ pc' = [pc EXCEPT ![t] = "walk"] /\ Setting(t)
      /\ next' = [next EXCEPT ![val[t]] = NULL]
      /\ cur' = [cur EXCEPT ![t] = table[Its(t)]]
      /\ before' = [before EXCEPT ![t] = NULL]
      /\ UNCHANGED <<table, key, data, heap, op, res, val>>
  BY DEF LockUpgrade, Goto, Its, Setting
<1>2. Its(t) \in Buckets /\ table[Its(t)] \in Nodes \cup {NULL}
  BY <1>1, CallFacts DEF IInv, MInv, MemTypes
<1>3. val[t] \in Nodes /\ \A b \in Buckets : val[t] \notin Chain(b)
  BY <1>1 DEF MInv, MemTypes, Brought, Brings
<1>4. \A b \in Buckets :
         /\ Chain(b)' = Chain(b)
         /\ \A c \in Chain(b) \cup {NULL} : Reachable(next', c) = Reachable(next, c)
         /\ \A c \in Chain(b) : next'[c] = next[c]
  BY <1>1, <1>3, ElsewhereWritten DEF MInv
<1>5. MemTypes'
  BY <1>1, <1>2 DEF MInv, MemTypes, Pointers
<1>6. Pending'
  BY <1>1 DEF IInv, Types, MInv, Pending
<1>7. Entries'
  <2>1. Entries
    BY DEF MInv
  <2> QED
    BY <2>1, <1>1, <1>4 DEF Entries
<1>8. Brought'
  <2>1. ASSUME NEW u \in Threads, Brings(u)'
        PROVE  Brings(u) /\ (Inside(u)' /\ u # t => Inside(u))
    BY <2>1, <1>1 DEF IInv, Types, Brings, Inside, Setting
  <2>2. next'[val[t]] = NULL /\ Brings(t)
    BY <1>1, <1>3 DEF MInv, MemTypes, Pointers, Brings
  <2>3. \A u \in Threads : Brings(u) /\ u # t => val[u] \in Nodes /\ next'[val[u]] = next[val[u]]
    BY <1>1, <2>2 DEF MInv, MemTypes, Pointers, Brought
  <2> QED
    BY <1>1, <1>4, <2>1, <2>2, <2>3 DEF MInv, Brought
<1>9. Walking'
  <2>1. ASSUME NEW u \in Threads, u # t, Inside(u)'
        PROVE  /\ Inside(u) /\ pc'[u] = pc[u] /\ cur'[u] = cur[u] /\ before'[u] = before[u]
               /\ Its(u) \in Buckets
    <3>1. Inside(u) /\ pc'[u] = pc[u] /\ cur'[u] = cur[u] /\ before'[u] = before[u]
      BY <2>1, <1>1 DEF IInv, Types, MInv, MemTypes, Inside
    <3> QED
      BY <3>1, CallFacts DEF IInv, MInv, Inside
  <2>2. /\ cur'[t] = table[Its(t)] /\ pc'[t] = "walk" /\ before'[t] = NULL
        /\ Reachable(next, table[Its(t)]) = Chain(Its(t))
    BY <1>1 DEF IInv, Types, MInv, MemTypes, Chain
  <2>3. table[Its(t)] \in Chain(Its(t)) \cup {NULL}
    BY <1>2, ReachClosed DEF MInv, MemTypes, Chain
  <2>4. ASSUME NEW u \in Threads, u # t, Inside(u)'
        PROVE  /\ cur[u] \in Chain(Its(u)) \cup {NULL}
               /\ Reachable(next', cur[u]) = Reachable(next, cur[u])
    <3>1. cur[u] \in Chain(Its(u)) \cup {NULL} /\ Its(u) \in Buckets
      BY <2>1, <2>4 DEF MInv, Walking
    <3> QED
      BY <3>1, <1>4
  <2>5. Reachable(next', cur'[t]) = Chain(Its(t))
    BY <2>2, <2>3, <1>1, <1>2, <1>4
  <2>6. ASSUME NEW u \in Threads, u # t, Inside(u)', Setting(u)
        PROVE  IF before[u] = NULL THEN cur[u] = table[Its(u)]
               ELSE before[u] \in Chain(Its(u)) /\ next'[before[u]] = cur[u]
    BY <2>1, <2>6, <1>4 DEF MInv, Walking
  <2>7. ASSUME NEW u \in Threads, Inside(u)'
        PROVE  /\ cur'[u] # NULL => cur'[u] \in Chain(Its(u))
               /\ \A n \in Chain(Its(u)) :
                     key[n] = op[u].key => n \in Reachable(next', cur'[u])
               /\ Setting(u) =>
                     IF before'[u] = NULL THEN cur'[u] = table[Its(u)]
                     ELSE before'[u] \in Chain(Its(u)) /\ next'[before'[u]] = cur'[u]
               /\ pc'[u] = "write" /\ cur'[u] # NULL => key[cur'[u]] = op[u].key
    <3>1. CASE u = t
      BY <2>2, <2>3, <2>5, <3>1
    <3>2. CASE u # t
      BY <2>1, <2>4, <2>6, <2>7, <3>2 DEF MInv, Walking
    <3> QED
      BY <3>1, <3>2
  <2>8. \A u \in Threads : /\ Setting(u)' <=> Setting(u)
                           /\ Its(u)' = Its(u)
                           /\ Inside(u)' => Chain(Its(u))' = Chain(Its(u))
    <3>1. \A u \in Threads : (Setting(u)' <=> Setting(u)) /\ Its(u)' = Its(u)
      BY <1>1 DEF Setting, Its
    <3>2. \A u \in Threads : Inside(u)' => Its(u) \in Buckets
      BY <2>1, <1>2
    <3> QED
      BY <1>4, <3>1, <3>2 DEF Chain
  <2>9. key' = key /\ op' = op /\ table' = table
    BY <1>1
  <2> QED
    BY ONLY <2>7, <2>8, <2>9 DEF Walking
<1> QED
  BY <1>5, <1>6, <1>7, <1>8, <1>9 DEF MInv

(* A turn of the loop: the entry passed does not have the key looked for.  *)
LEMMA WalkStep ==
  ASSUME IInv, MInv, NEW t \in Threads, Walk(t)
  PROVE  MInv'
<1>1. Entries' /\ \A b \in Buckets : Chain(b)' = Chain(b)
  BY ReadStep DEF Walk
<1>2. /\ pc[t] = "walk" /\ cur[t] # NULL /\ key[cur[t]] # op[t].key
      /\ before' = [before EXCEPT ![t] = cur[t]]
      /\ cur' = [cur EXCEPT ![t] = next[cur[t]]]
      /\ UNCHANGED <<table, key, next, data, heap, pc, op, res, val>>
  BY DEF Walk, Found, memVars
<1>3. Its(t) \in Buckets /\ cur[t] \in Chain(Its(t)) /\ cur[t] \in Nodes
  BY <1>2, CallFacts DEF IInv, MInv, MemTypes, Walking, Inside
<1>4. next[cur[t]] \in Chain(Its(t)) \cup {NULL} /\ next[cur[t]] \in Nodes \cup {NULL}
  BY <1>3, Suffix DEF MInv, MemTypes, Pointers
<1>5. Reachable(next, cur[t]) = {cur[t]} \cup Reachable(next, next[cur[t]])
  BY <1>3, ReachStep DEF MInv, MemTypes
<1>6. MemTypes'
  BY <1>2, <1>3, <1>4 DEF MInv, MemTypes
<1>7. Pending' /\ Brought'
  BY <1>1, <1>2 DEF MInv, Pending, Brought, Brings, Inside, Setting
<1>8. Walking'
  <2>1. /\ cur'[t] = next[cur[t]] /\ before'[t] = cur[t]
        /\ \A u \in Threads : u # t => cur'[u] = cur[u] /\ before'[u] = before[u]
    BY <1>2 DEF MInv, MemTypes
  <2>2. \A n \in Chain(Its(t)) : key[n] = op[t].key => n \in Reachable(next, next[cur[t]])
    BY <1>2, <1>5 DEF MInv, Walking, Inside
  <2>3. SUFFICES ASSUME NEW u \in Threads, Inside(u)
                 PROVE  /\ cur'[u] # NULL => cur'[u] \in Chain(Its(u))
                        /\ \A n \in Chain(Its(u)) :
                              key[n] = op[u].key => n \in Reachable(next, cur'[u])
                        /\ Setting(u) =>
                              IF before'[u] = NULL THEN cur'[u] = table[Its(u)]
                              ELSE before'[u] \in Chain(Its(u)) /\ next[before'[u]] = cur'[u]
                        /\ pc[u] = "write" /\ cur'[u] # NULL => key[cur'[u]] = op[u].key
    <3>1. \A u \in Threads : Inside(u) => Its(u) \in Buckets
      BY CallFacts DEF IInv, MInv, Inside
    <3> QED
      BY <3>1, <1>1, <1>2 DEF Walking, Setting, Its, Inside
  <2>4. CASE u = t
    BY <2>1, <2>2, <2>4, <1>2, <1>3, <1>4
  <2>5. CASE u # t
    BY <2>1, <2>3, <2>5 DEF MInv, Walking
  <2> QED
    BY <2>4, <2>5
<1> QED
  BY <1>1, <1>6, <1>7, <1>8 DEF MInv

(* What ht_get returns: a version that was stored, or none.                *)
LEMMA CopyStep ==
  ASSUME IInv, MInv, NEW t \in Threads, Copy(t)
  PROVE  MInv'
<1>1. Entries' /\ \A b \in Buckets : Chain(b)' = Chain(b)
  BY ReadStep DEF Copy
<1>2. /\ pc[t] = "walk" /\ Getting(t) /\ pc' = [pc EXCEPT ![t] = "unlock"]
      /\ res' = [res EXCEPT ![t] = <<"entry", IF Found(t) THEN data[cur[t]] ELSE Absent>>]
      /\ UNCHANGED <<table, key, next, data, heap, op, val, cur, before>>
  BY DEF Copy, Goto, Getting, memVars
<1>3. Its(t) \in Buckets /\ (cur[t] # NULL => cur[t] \in Chain(Its(t)))
  BY <1>2, CallFacts DEF IInv, MInv, Walking, Inside
<1>4. res'[t] \in Results /\ \A u \in Threads : u # t => res'[u] = res[u]
  BY <1>2, <1>3 DEF MInv, MemTypes, Entries, Found, Results
<1>5. MemTypes'
  BY <1>2, <1>4 DEF MInv, MemTypes
<1>6. Pending'
  BY <1>2, <1>4, NoneAssumption DEF IInv, Types, MInv, Pending
<1>7. \A u \in Threads : Inside(u)' => Inside(u) /\ pc'[u] = pc[u]
  BY <1>2 DEF IInv, Types, Inside
<1>8. Brought'
  BY <1>1, <1>2, <1>7 DEF IInv, Types, MInv, Brought, Brings, Inside, Setting, Getting
<1>9. Walking'
  <2>1. \A u \in Threads : Inside(u) => Its(u) \in Buckets
    BY CallFacts DEF IInv, MInv, Inside
  <2> QED
    BY <2>1, <1>1, <1>2, <1>7 DEF MInv, Walking, Its, Setting
<1> QED
  BY <1>1, <1>5, <1>6, <1>8, <1>9 DEF MInv

(* A walk that has ended at an entry has found its key.                    *)
LEMMA UpgradeStep ==
  ASSUME IInv, MInv, NEW t \in Threads, Upgrade(t)
  PROVE  MInv'
<1>1. Entries' /\ \A b \in Buckets : Chain(b)' = Chain(b)
  BY ReadStep DEF Upgrade
<1>2. /\ pc[t] = "walk" /\ pc' = [pc EXCEPT ![t] = "write"]
      /\ cur[t] # NULL => key[cur[t]] = op[t].key
      /\ UNCHANGED <<table, key, next, data, heap, op, res, val, cur, before>>
  BY DEF Upgrade, Goto, Found, memVars
<1>3. MemTypes' /\ Pending'
  BY <1>2 DEF IInv, Types, MInv, MemTypes, Pending
<1>4. \A u \in Threads : /\ Inside(u)' <=> Inside(u)
                         /\ u # t => pc'[u] = pc[u]
                         /\ Brings(u)' <=> Brings(u)
  BY <1>2 DEF IInv, Types, Inside, Brings, Setting
<1>5. Brought'
  BY <1>1, <1>2, <1>4 DEF MInv, Brought
<1>6. Walking'
  <2>1. \A u \in Threads : Inside(u) => Its(u) \in Buckets
    BY CallFacts DEF IInv, MInv, Inside
  <2> QED
    BY <2>1, <1>1, <1>2, <1>4 DEF MInv, Walking, Its, Setting
<1> QED
  BY <1>1, <1>3, <1>5, <1>6 DEF MInv

(* A shard that returns leaves the memory as it is.                        *)
LEMMA ReturnStep ==
  ASSUME IInv, MInv, NEW t \in Threads, Return(t)
  PROVE  MInv'
<1>1. Entries' /\ \A b \in Buckets : Chain(b)' = Chain(b)
  BY ReadStep DEF Return
<1>2. /\ pc[t] = "unlock" /\ pc' = [pc EXCEPT ![t] = "idle"]
      /\ op' = [op EXCEPT ![t] = None] /\ res' = [res EXCEPT ![t] = None]
      /\ val' = [val EXCEPT ![t] = NULL] /\ cur' = [cur EXCEPT ![t] = NULL]
      /\ before' = [before EXCEPT ![t] = NULL]
      /\ UNCHANGED <<table, key, next, data, heap>>
  BY DEF Return, Goto, memVars
<1>3. MemTypes'
  BY <1>2 DEF MInv, MemTypes
<1>4. Pending'
  BY <1>2 DEF IInv, Types, MInv, MemTypes, Pending
<1>5. \A u \in Threads : Inside(u)' \/ Brings(u)' =>
         /\ u # t /\ pc'[u] = pc[u] /\ op'[u] = op[u] /\ val'[u] = val[u]
         /\ cur'[u] = cur[u] /\ before'[u] = before[u]
  BY <1>2 DEF IInv, Types, MInv, MemTypes, Inside, Brings
<1>6. Brought'
  BY <1>1, <1>2, <1>5 DEF MInv, Brought, Brings, Inside, Setting
<1>7. Walking'
  <2>1. \A u \in Threads : Inside(u) => Its(u) \in Buckets
    BY CallFacts DEF IInv, MInv, Inside
  <2> QED
    BY <2>1, <1>1, <1>2, <1>5 DEF MInv, Walking, Its, Setting, Inside
<1> QED
  BY <1>1, <1>3, <1>4, <1>6, <1>7 DEF MInv

(* Nobody else is inside while a shard writes.                             *)
LEMMA WriterIsAlone ==
  ASSUME IInv, MInv, NEW t \in Threads, pc[t] = "write", NEW u \in Threads, u # t
  PROVE  /\ ~Inside(u) /\ (Brings(u) => pc[u] = "lock" /\ val[u] # val[t])
         /\ Setting(t) /\ Brings(t) /\ Inside(t)
BY ThreadsAssumption
   DEF IInv, Types, HeldBy, Exclusive, MInv, Brought, Brings, Inside, Setting, Getting

(* The data of the entry is replaced, and only the node brought is freed.  *)
LEMMA ReplaceStep ==
  ASSUME IInv, MInv, NEW t \in Threads, Replace(t)
  PROVE  MInv'
<1>1. /\ pc[t] = "write" /\ cur[t] # NULL /\ pc' = [pc EXCEPT ![t] = "unlock"]
      /\ UNCHANGED <<table, next, op, val, cur, before>>
  BY DEF Replace, Goto
<1>2. /\ Setting(t) /\ Brings(t) /\ Inside(t)
      /\ \A u \in Threads : u # t => ~Inside(u) /\ (Brings(u) => val[u] # val[t])
  BY <1>1, WriterIsAlone DEF IInv, HeldBy, Brings, Inside, Setting
<1>3. Its(t) \in Buckets /\ cur[t] \in Chain(Its(t)) /\ cur[t] \in Nodes
  BY <1>1, <1>2, CallFacts DEF IInv, MInv, MemTypes, Walking
<1>4. /\ val[t] \in Nodes /\ \A b \in Buckets : val[t] \notin Chain(b)
      /\ data[val[t]] \in Versions
  <2>1. op[t].new \in Versions
    BY <1>1, <1>2, CallFacts DEF IInv, MInv
  <2> QED
    BY <2>1, <1>2 DEF MInv, MemTypes, Brought
<1>5. \A b \in Buckets : Chain(b)' = Chain(b) /\ Chain(b) \subseteq Nodes
  BY <1>1, ReachClosed DEF Chain, MInv, MemTypes
<1>6. /\ \A m \in Nodes : m # val[t] => (m \in heap => m \in heap') /\ key'[m] = key[m]
      /\ \A m \in Nodes : m # val[t] /\ m # cur[t] => data'[m] = data[m]
      /\ data'[cur[t]] \in {data[cur[t]], data[val[t]]}
      /\ MemTypes'
  <2>1. CASE SameVersion(t)
    <3>1. /\ data' = [data EXCEPT ![cur[t]] = data[val[t]], ![val[t]] = None]
          /\ key' = [key EXCEPT ![val[t]] = None]
          /\ heap' = heap \ {val[t]} /\ res' = [res EXCEPT ![t] = <<"ok">>]
      BY <2>1 DEF Replace, Freed
    <3>2. cur[t] # val[t]
      BY <1>3, <1>4
    <3> QED
      BY <3>1, <3>2, <1>1, <1>3, <1>4 DEF MInv, MemTypes, Results
  <2>2. CASE ~SameVersion(t)
    <3>1. UNCHANGED <<key, data, heap>> /\ res' = [res EXCEPT ![t] = <<"abort">>]
      BY <2>2 DEF Replace
    <3> QED
      BY <3>1, <1>1, <1>3 DEF MInv, MemTypes, Results
  <2> QED
    BY <2>1, <2>2
<1>7. Pending'
  <2>1. res'[t] \in Results /\ \A u \in Threads : u # t => res'[u] = res[u]
    BY DEF Replace, MInv, MemTypes, Results
  <2> QED
    BY <2>1, <1>1, NoneAssumption DEF IInv, Types, MInv, Pending
<1>8. Entries'
  <2>1. SUFFICES ASSUME NEW b \in Buckets
                 PROVE  /\ Chain(b) # {} => \E m \in Chain(b) : next[m] = NULL
                        /\ \A m \in Chain(b) :
                              m \in heap' /\ key'[m] \in Keys /\ Bucket[key'[m]] = b
                              /\ data'[m] \in Versions
                        /\ \A m, l \in Chain(b) : key'[m] = key'[l] => m = l
    BY <1>1, <1>5 DEF Entries
  <2>2. \A m \in Chain(b) : m \in Nodes /\ m # val[t]
    BY <1>4, <1>5
  <2>3. \A m \in Chain(b) : m \in heap' /\ key'[m] = key[m] /\ data'[m] \in Versions
    BY <2>2, <1>4, <1>6 DEF MInv, Entries
  <2> QED
    BY <2>3 DEF MInv, Entries
<1>9. \A u \in Threads : /\ ~Inside(u)'
                         /\ Brings(u)' => u # t /\ Brings(u)
  BY <1>1, <1>2 DEF IInv, Types, Inside, Brings, Setting
<1>10. Brought'
  <2>1. \A u \in Threads : u # t /\ Brings(u) =>
           /\ val[u] \in heap' /\ key'[val[u]] = key[val[u]] /\ data'[val[u]] = data[val[u]]
    <3>1. \A u \in Threads : u # t /\ Brings(u) =>
             val[u] \in Nodes /\ val[u] \in heap /\ val[u] # val[t] /\ val[u] # cur[t]
      BY <1>2, <1>3 DEF MInv, MemTypes, Brought
    <3> QED
      BY <3>1, <1>6
  <2> QED
    BY <2>1, <1>1, <1>5, <1>9 DEF MInv, Brought
<1>11. Walking'
  BY <1>9 DEF Walking
<1> QED
  BY <1>6, <1>7, <1>8, <1>10, <1>11 DEF MInv

(* What Link does to the chains: the node that is brought comes last in    *)
(* its own, and the others stay as they are.                               *)
LEMMA LinkedChains ==
  ASSUME IInv, MInv, NEW t \in Threads, Insert(t)
  PROVE  /\ Its(t) \in Buckets /\ val[t] \in Nodes /\ next[val[t]] = NULL
         /\ Chain(Its(t))' = Chain(Its(t)) \cup {val[t]}
         /\ \A b \in Buckets : b # Its(t) => Chain(b)' = Chain(b)
         /\ \A n \in Chain(Its(t)) : key[n] # op[t].key
         /\ next'[val[t]] = NULL
         /\ \A b \in Buckets : b # Its(t) => \A n \in Chain(b) : next'[n] = next[n]
         /\ next' \in Pointers /\ table' \in [Buckets -> Nodes \cup {NULL}]
<1>1. pc[t] = "write" /\ cur[t] = NULL /\ Link(t) /\ UNCHANGED <<op, key, val>>
  BY DEF Insert
<1>2. Setting(t) /\ Brings(t) /\ Inside(t) /\ Its(t) \in Buckets /\ Its(t)' = Its(t)
  BY <1>1, CallFacts DEF IInv, HeldBy, MInv, Brings, Inside, Setting, Its
<1>3. /\ val[t] \in Nodes /\ next[val[t]] = NULL
      /\ \A b \in Buckets : val[t] \notin Chain(b)
  BY <1>2 DEF MInv, MemTypes, Brought
<1>4. \A n \in Chain(Its(t)) : key[n] # op[t].key
  BY <1>1, <1>2, ReachNone DEF MInv, Walking
<1>5. \A b \in Buckets : Chain(b) \subseteq Nodes /\ table[b] \in Nodes \cup {NULL}
  BY ReachClosed DEF Chain, MInv, MemTypes
<1>6. CASE before[t] # NULL
  <2>1. next' = [next EXCEPT ![before[t]] = val[t]] /\ table' = table
    BY <1>1, <1>6 DEF Link
  <2>2. before[t] \in Chain(Its(t)) /\ next[before[t]] = NULL
    BY <1>1, <1>2, <1>6 DEF MInv, Walking
  <2>3. \A b \in Buckets : b # Its(t) => before[t] \notin Chain(b)
    BY <2>2, <1>2 DEF MInv, Entries
  <2>4. Reachable(next', table[Its(t)]) = Reachable(next, table[Its(t)]) \cup {val[t]}
    <3> DEFINE x == table[Its(t)]
               l == before[t]
    <3>1. /\ next \in Pointers /\ x \in Nodes \cup {NULL} /\ val[t] \in Nodes
          /\ l \in Reachable(next, x) /\ next[l] = NULL /\ next[val[t]] = NULL
      BY <2>2, <1>2, <1>3, <1>5 DEF Chain, MInv, MemTypes
    <3>2. next' = [next EXCEPT ![l] = val[t]]
      BY <2>1
    <3> HIDE DEF x, l
    <3>3. Reachable([next EXCEPT ![l] = val[t]], x) = Reachable(next, x) \cup {val[t]}
      BY <3>1, ReachLinked
    <3> QED
      BY <3>2, <3>3 DEF x
  <2>5. Chain(Its(t))' = Chain(Its(t)) \cup {val[t]}
    BY <2>1, <2>4, <1>2 DEF Chain
  <2>6. ASSUME NEW b \in Buckets, b # Its(t)
        PROVE  Chain(b)' = Chain(b) /\ \A n \in Chain(b) : next'[n] = next[n]
    BY <2>1, <2>2, <2>3, <2>6, <1>2, <1>3, <1>5, ElsewhereWritten DEF MInv
  <2>7. next'[val[t]] = NULL /\ next' \in Pointers /\ table' \in [Buckets -> Nodes \cup {NULL}]
    BY <2>1, <2>2, <1>2, <1>3, <1>5 DEF MInv, MemTypes, Pointers
  <2> QED
    BY <2>5, <2>6, <2>7, <1>2, <1>3, <1>4
<1>7. CASE before[t] = NULL
  <2>1. table' = [table EXCEPT ![Its(t)] = val[t]] /\ next' = next
    BY <1>1, <1>7 DEF Link, Its
  <2>2. table[Its(t)] = NULL /\ Chain(Its(t)) = {}
    BY <1>1, <1>2, <1>7, ReachNone DEF MInv, Walking, Chain
  <2>3. Reachable(next, val[t]) = {val[t]}
    BY <1>3, ReachStep, ReachNone DEF MInv, MemTypes
  <2>4. /\ table'[Its(t)] = val[t] /\ table' \in [Buckets -> Nodes \cup {NULL}]
        /\ \A b \in Buckets : b # Its(t) => table'[b] = table[b]
    BY <2>1, <1>2, <1>3 DEF MInv, MemTypes
  <2>5. Chain(Its(t))' = Chain(Its(t)) \cup {val[t]}
    BY <2>1, <2>2, <2>3, <2>4, <1>2 DEF Chain
  <2>6. \A b \in Buckets : b # Its(t) => Chain(b)' = Chain(b)
    BY <2>1, <2>4 DEF Chain
  <2> QED
    BY <2>1, <2>4, <2>5, <2>6, <1>2, <1>3, <1>4 DEF MInv, MemTypes
<1> QED
  BY <1>6, <1>7

(* A key that no entry has gets one, at the end of its chain.              *)
LEMMA InsertStep ==
  ASSUME IInv, MInv, NEW t \in Threads, Insert(t)
  PROVE  MInv'
<1>1. /\ pc[t] = "write" /\ pc' = [pc EXCEPT ![t] = "unlock"]
      /\ res' = [res EXCEPT ![t] = <<"ok">>]
      /\ UNCHANGED <<key, data, heap, op, val, cur, before>>
  BY DEF Insert, Goto
<1>2. /\ Setting(t) /\ Brings(t) /\ Inside(t)
      /\ \A u \in Threads : u # t => ~Inside(u) /\ (Brings(u) => val[u] # val[t])
  BY <1>1, WriterIsAlone DEF IInv, HeldBy, Brings, Inside, Setting
<1>3. /\ val[t] \in heap /\ key[val[t]] = op[t].key /\ op[t].key \in Keys
      /\ Bucket[key[val[t]]] = Its(t) /\ data[val[t]] \in Versions
  BY <1>1, <1>2, CallFacts DEF IInv, MInv, Brought, Its
<1>4. MemTypes'
  BY <1>1, LinkedChains DEF MInv, MemTypes, Results
<1>5. Pending'
  <2>1. <<"ok">> # None
    BY NoneAssumption DEF Results
  <2> QED
    BY <2>1, <1>1 DEF IInv, Types, MInv, MemTypes, Pending
<1>6. Entries'
  <2> SUFFICES ASSUME NEW b \in Buckets
               PROVE  /\ Chain(b)' # {} => \E m \in Chain(b)' : next'[m] = NULL
                      /\ \A m \in Chain(b)' :
                            m \in heap /\ key[m] \in Keys /\ Bucket[key[m]] = b
                            /\ data[m] \in Versions
                      /\ \A m, l \in Chain(b)' : key[m] = key[l] => m = l
    BY <1>1 DEF Entries
  <2>1. CASE b # Its(t)
    BY <2>1, LinkedChains DEF MInv, Entries
  <2>2. CASE b = Its(t)
    <3>1. Chain(b)' = Chain(b) \cup {val[t]}
      BY <2>2, LinkedChains, <1>1 DEF Its
    <3> QED
      BY <3>1, <2>2, <1>3, LinkedChains DEF MInv, Entries
  <2> QED
    BY <2>1, <2>2
<1>7. \A u \in Threads : /\ ~Inside(u)'
                         /\ Brings(u)' => u # t /\ Brings(u)
  BY <1>1, <1>2 DEF IInv, Types, Inside, Brings, Setting
<1>8. Brought'
  <2>1. \A b \in Buckets : Chain(b)' \subseteq Chain(b) \cup {val[t]}
    <3>1. Its(t)' = Its(t)
      BY <1>1 DEF Its
    <3> QED
      BY <3>1, LinkedChains
  <2>2. \A u \in Threads : u # t /\ Brings(u) => \A b \in Buckets : val[u] \notin Chain(b)'
    BY <2>1, <1>2 DEF MInv, Brought
  <2> QED
    BY <2>2, <1>1, <1>7 DEF MInv, Brought
<1>9. Walking'
  BY <1>7 DEF Walking
<1> QED
  BY <1>4, <1>5, <1>6, <1>8, <1>9 DEF MInv

(* Every step keeps the memory in order.                                   *)
LEMMA NextMInv == IInv /\ MInv /\ [Next]_vars => MInv'
<1> SUFFICES ASSUME IInv, MInv, [Next]_vars PROVE MInv'
  OBVIOUS
<1>1. CASE UNCHANGED vars
  <2>1. Entries' /\ \A b \in Buckets : Chain(b)' = Chain(b)
    BY <1>1, ReadStep DEF vars
  <2> QED
    BY <2>1, <1>1 DEF vars, memVars, MInv, MemTypes, Pending, Brought, Walking, Inside, Brings,
                      Setting, Its, Chain
<1>2. ASSUME NEW t \in Threads, NEW k \in Keys, CallGet(t, k) PROVE MInv'
  BY <1>2, CallGetStep
<1>3. ASSUME NEW t \in Threads, NEW k \in Keys, NEW n \in Versions,
             NEW o \in Versions \cup {Absent}, CallSet(t, k, n, o)
      PROVE  MInv'
  BY <1>3, CallSetStep
<1> QED
  BY <1>1, <1>2, <1>3, LockSharedStep, LockUpgradeStep, WalkStep, CopyStep, UpgradeStep,
     ReplaceStep, InsertStep, ReturnStep DEF Next, Step

(* The lock and the memory it protects, in every reachable state.          *)
THEOREM MemoryInvariance == Spec => [](IInv /\ MInv)
BY InitIInv, NextIInv, InitMInv, NextMInv, PTL DEF Spec

(* Every chain ends and has each key of its bucket once; no entry that a   *)
(* walk or a write of ht_get or ht_set is at has been freed or unlinked.   *)
THEOREM ChainsAreSound == Spec => []ChainsSound
<1>1. IInv /\ MInv => ChainsSound
  BY DEF MInv, Entries, Walking, ChainsSound, Inside, Its
<1> QED
  BY <1>1, MemoryInvariance, PTL

-----------------------------------------------------------------------------
(* The version that is stored is the one of the entry with the key.        *)
StoredIn(chain, ky, dat, k) ==
  IF \E n \in chain : ky[n] = k THEN dat[CHOOSE n \in chain : ky[n] = k] ELSE Absent

LEMMA StoredFacts ==
  ASSUME NEW chain, NEW ky, NEW dat, NEW k, \A m, n \in chain : ky[m] = ky[n] => m = n
  PROVE  /\ \A n \in chain : ky[n] = k => StoredIn(chain, ky, dat, k) = dat[n]
         /\ (\A n \in chain : ky[n] # k) => StoredIn(chain, ky, dat, k) = Absent
<1>1. ASSUME NEW n \in chain, ky[n] = k PROVE StoredIn(chain, ky, dat, k) = dat[n]
  <2> DEFINE c == CHOOSE m \in chain : ky[m] = k
  <2>1. c \in chain /\ ky[c] = k
    BY <1>1
  <2>2. c = n
    BY <1>1, <2>1
  <2> QED
    BY <1>1, <2>2 DEF StoredIn
<1> QED
  BY <1>1 DEF StoredIn

(* An entry is as before if it is where it was, with its key and its data. *)
LEMMA SameEntry ==
  ASSUME MInv, MInv', NEW k \in Keys,
         \A n : /\ n \in Chain(Bucket[k])' /\ key'[n] = k <=> n \in Chain(Bucket[k]) /\ key[n] = k
                /\ n \in Chain(Bucket[k]) /\ key[n] = k => data'[n] = data[n]
  PROVE  Stored(k)' = Stored(k)
<1> DEFINE C == Chain(Bucket[k])
           D == Chain(Bucket[k])'
<1>1. /\ Stored(k) = StoredIn(C, key, data, k)
      /\ Stored(k)' = StoredIn(D, key', data', k)
  BY DEF Stored, StoredIn
<1>2. /\ \A m, n \in C : key[m] = key[n] => m = n
      /\ \A m, n \in D : key'[m] = key'[n] => m = n
  BY BucketAssumption DEF MInv, Entries
<1> HIDE DEF C, D
<1>3. CASE \E n \in C : key[n] = k
  <2>1. PICK n \in C : key[n] = k
    BY <1>3
  <2>2. n \in D /\ key'[n] = k /\ data'[n] = data[n]
    BY <2>1 DEF C, D
  <2> QED
    BY <2>1, <2>2, <1>1, <1>2, StoredFacts
<1>4. CASE \A n \in C : key[n] # k
  <2>1. \A n \in D : key'[n] # k
    BY <1>4 DEF C, D
  <2> QED
    BY <2>1, <1>4, <1>1, <1>2, StoredFacts
<1> QED
  BY <1>3, <1>4

(* The entry that a walk has found is the stored one.                      *)
LEMMA WalkEnds ==
  ASSUME IInv, MInv, NEW t \in Threads, Inside(t)
  PROVE  /\ cur[t] # NULL /\ key[cur[t]] = op[t].key =>
               Stored(op[t].key) = data[cur[t]] /\ data[cur[t]] \in Versions
         /\ cur[t] = NULL => Stored(op[t].key) = Absent
         /\ op[t].key \in Keys /\ op[t] # None /\ res[t] = None
<1>1. op[t].key \in Keys /\ Its(t) \in Buckets
  BY CallFacts DEF IInv, MInv, Inside
<1>2. /\ \A n \in Chain(Its(t)) : key[n] = op[t].key => Stored(op[t].key) = data[n]
      /\ (\A n \in Chain(Its(t)) : key[n] # op[t].key) => Stored(op[t].key) = Absent
  <2>1. Stored(op[t].key) = StoredIn(Chain(Its(t)), key, data, op[t].key)
    BY DEF Stored, StoredIn, Its
  <2>2. \A m, n \in Chain(Its(t)) : key[m] = key[n] => m = n
    BY <1>1 DEF MInv, Entries
  <2> QED
    BY <2>1, <2>2, StoredFacts
<1>3. cur[t] = NULL => \A n \in Chain(Its(t)) : key[n] # op[t].key
  BY ReachNone DEF MInv, Walking
<1> QED
  BY <1>1, <1>2, <1>3 DEF MInv, Pending, Entries, Walking, Inside, Its

(* Where neither entries nor calls change, nothing happens to the store.   *)
LEMMA StoreStutters ==
  ASSUME MInv, MInv', UNCHANGED <<key, data, op, res>>, \A b \in Buckets : Chain(b)' = Chain(b)
  PROVE  UNCHANGED Store!vars
<1>1. ASSUME NEW k \in Keys PROVE Stored(k)' = Stored(k)
  <2>1. Bucket[k] \in Buckets
    BY BucketAssumption
  <2> QED
    BY <2>1, SameEntry
<1> QED
  BY <1>1 DEF Store!vars

(* A call of db_get or db_set only announces what is wanted.               *)
LEMMA CallImplements ==
  ASSUME IInv, MInv, MInv', NEW t \in Threads, NEW o \in Calls,
         op' = [op EXCEPT ![t] = o], res' = res, pc[t] = "idle",
         \A b \in Buckets : Chain(b)' = Chain(b),
         \A b \in Buckets : \A n \in Chain(b) : key'[n] = key[n] /\ data'[n] = data[n]
  PROVE  Store!Next
<1>1. ASSUME NEW k \in Keys PROVE Stored(k)' = Stored(k)
  <2>1. Bucket[k] \in Buckets
    BY BucketAssumption
  <2> QED
    BY <2>1, SameEntry
<1>2. op[t] = None
  BY DEF MInv, Pending
<1>3. Store!Call(t, o)
  BY <1>1, <1>2 DEF Store!Call
<1> QED
  BY <1>3 DEF Store!Next, Store!Calls, Calls

(* ht_get reads the entry at one instant.                                  *)
LEMMA CopyImplements ==
  ASSUME IInv, MInv, MInv', NEW t \in Threads, Copy(t)
  PROVE  Store!Next
<1>1. /\ op[t].type = "get" /\ Inside(t) /\ (cur[t] = NULL \/ Found(t))
      /\ res' = [res EXCEPT ![t] = <<"entry", IF Found(t) THEN data[cur[t]] ELSE Absent>>]
      /\ op' = op /\ UNCHANGED memVars
  BY DEF Copy, Inside
<1>2. ASSUME NEW k \in Keys PROVE Stored(k)' = Stored(k)
  <2>1. Bucket[k] \in Buckets
    BY BucketAssumption
  <2> QED
    BY <2>1, <1>1, SameEntry, ReadStep DEF memVars
<1>3. /\ (IF Found(t) THEN data[cur[t]] ELSE Absent) = Stored(op[t].key)
      /\ op[t].key \in Keys /\ op[t] # None /\ res[t] = None
  BY <1>1, WalkEnds DEF Found
<1>4. Store!DoGet(t)
  BY <1>1, <1>2, <1>3 DEF Store!DoGet, Store!Pending
<1> QED
  BY <1>4 DEF Store!Next

(* ht_set replaces an entry whose version the caller knows, and no other.  *)
LEMMA ReplaceImplements ==
  ASSUME IInv, MInv, MInv', NEW t \in Threads, Replace(t)
  PROVE  Store!Next
<1>1. /\ pc[t] = "write" /\ cur[t] # NULL
      /\ UNCHANGED <<table, next, op, val, cur>>
  BY DEF Replace
<1>2. Setting(t) /\ Brings(t) /\ Inside(t)
  BY <1>1 DEF IInv, HeldBy, Brings, Inside, Setting
<1>0. PICK K \in Keys : K = op[t].key
  BY <1>1, <1>2, WalkEnds
<1>3. /\ K \in Keys /\ op[t] # None /\ res[t] = None
      /\ key[cur[t]] = K /\ Stored(K) = data[cur[t]] /\ data[cur[t]] \in Versions
  <2>1. key[cur[t]] = K
    BY <1>0, <1>1, <1>2 DEF MInv, Walking
  <2> QED
    BY <2>1, <1>0, <1>1, <1>2, WalkEnds
<1>4. /\ cur[t] \in Chain(Bucket[K]) /\ cur[t] \in Nodes /\ val[t] \in Nodes
      /\ data[val[t]] = op[t].new /\ \A b \in Buckets : val[t] \notin Chain(b)
  BY <1>0, <1>1, <1>2 DEF MInv, MemTypes, Walking, Brought, Its
<1>5. \A b \in Buckets : Chain(b)' = Chain(b) /\ Chain(b) \subseteq Nodes
  BY <1>1, ReachClosed DEF Chain, MInv, MemTypes
<1>6. CASE SameVersion(t)
  <2>1. /\ data' = [data EXCEPT ![cur[t]] = data[val[t]], ![val[t]] = None]
        /\ key' = [key EXCEPT ![val[t]] = None]
        /\ res' = [res EXCEPT ![t] = <<"ok">>]
    BY <1>6 DEF Replace, Freed
  <2>2. \A n \in Nodes : n # val[t] => key'[n] = key[n] /\ (n # cur[t] => data'[n] = data[n])
    BY <2>1 DEF MInv, MemTypes
  <2>3. data'[cur[t]] = op[t].new /\ key'[cur[t]] = K
    <3>1. cur[t] # val[t]
      BY <1>3, <1>4, BucketAssumption
    <3> QED
      BY <3>1, <2>1, <1>3, <1>4 DEF MInv, MemTypes
  <2>4. ASSUME NEW k \in Keys, k # K PROVE Stored(k)' = Stored(k)
    <3>1. Bucket[k] \in Buckets
      BY BucketAssumption
    <3>2. \A n \in Chain(Bucket[k]) : n \in Nodes /\ n # val[t]
      BY <3>1, <1>4, <1>5
    <3> QED
      BY <3>1, <3>2, <2>2, <2>4, <1>3, <1>5, SameEntry
  <2>5. Stored(K)' = op[t].new
    <3> DEFINE C == Chain(Bucket[K])
    <3>1. Stored(K)' = StoredIn(C, key', data', K)
      <4>1. Chain(Bucket[K])' = C
        BY <1>3, <1>5, BucketAssumption
      <4> HIDE DEF C
      <4> QED
        BY <4>1 DEF Stored, StoredIn
    <3>2. \A m, n \in C : key'[m] = key'[n] => m = n
      BY <1>3, <1>5, BucketAssumption DEF MInv, Entries
    <3> QED
      BY <3>1, <3>2, <2>3, <1>4, StoredFacts
  <2>6. Stored(K) = op[t].old
    BY <1>3, <1>6 DEF SameVersion
  <2>7. [k \in Keys |-> Stored(k)]' = [[k \in Keys |-> Stored(k)] EXCEPT ![K] = op[t].new]
    BY <2>4, <2>5
  <2>8. Store!DoSet(t)
    BY <2>1, <2>6, <2>7, <1>1, <1>2, <1>3, <1>0 DEF Store!DoSet, Store!Pending, Setting
  <2> QED
    BY <2>8 DEF Store!Next
<1>7. CASE ~SameVersion(t)
  <2>1. UNCHANGED <<key, data>> /\ res' = [res EXCEPT ![t] = <<"abort">>]
    BY <1>7 DEF Replace
  <2>2. ASSUME NEW k \in Keys PROVE Stored(k)' = Stored(k)
    <3>1. Bucket[k] \in Buckets
      BY BucketAssumption
    <3> QED
      BY <3>1, <2>1, <1>5, SameEntry
  <2>3. Stored(K) \notin {Absent, op[t].old}
    BY <1>3, <1>7, AbsentAssumption DEF SameVersion
  <2>4. Store!DoSet(t)
    BY <2>1, <2>2, <2>3, <1>1, <1>2, <1>3, <1>0 DEF Store!DoSet, Store!Pending, Setting
  <2> QED
    BY <2>4 DEF Store!Next
<1> QED
  BY <1>6, <1>7

(* ht_set adds the entry that was absent, and no other.                    *)
LEMMA InsertImplements ==
  ASSUME IInv, MInv, MInv', NEW t \in Threads, Insert(t)
  PROVE  Store!Next
<1>1. /\ pc[t] = "write" /\ cur[t] = NULL /\ res' = [res EXCEPT ![t] = <<"ok">>]
      /\ UNCHANGED <<key, data, op, val>>
  BY DEF Insert
<1>2. Setting(t) /\ Brings(t) /\ Inside(t)
  BY <1>1 DEF IInv, HeldBy, Brings, Inside, Setting
<1>0. PICK K \in Keys : K = op[t].key
  BY <1>1, <1>2, WalkEnds
<1>3. K \in Keys /\ op[t] # None /\ res[t] = None /\ Stored(K) = Absent
  BY <1>0, <1>1, <1>2, WalkEnds
<1>4. /\ key[val[t]] = K /\ data[val[t]] = op[t].new
  BY <1>0, <1>2 DEF MInv, Brought
<1>5. /\ Chain(Bucket[K])' = Chain(Bucket[K]) \cup {val[t]}
      /\ \A b \in Buckets : b # Bucket[K] => Chain(b)' = Chain(b)
      /\ \A n \in Chain(Bucket[K]) : key[n] # K
  <2>1. Its(t) = Bucket[K] /\ Its(t)' = Bucket[K]
    BY <1>0, <1>1 DEF Its
  <2> QED
    BY <2>1, <1>0, LinkedChains
<1>6. ASSUME NEW k \in Keys, k # K PROVE Stored(k)' = Stored(k)
  <2>1. Bucket[k] \in Buckets
    BY BucketAssumption
  <2>2. CASE Bucket[k] = Bucket[K]
    <3>1. Chain(Bucket[k])' = Chain(Bucket[k]) \cup {val[t]}
      BY <2>2, <1>1, <1>5
    <3> QED
      BY <3>1, <1>1, <1>4, <1>6, SameEntry
  <2>3. CASE Bucket[k] # Bucket[K]
    BY <2>1, <2>3, <1>1, <1>5, SameEntry
  <2> QED
    BY <2>2, <2>3
<1>7. Stored(K)' = op[t].new
  <2> DEFINE C == Chain(Bucket[K]) \cup {val[t]}
  <2>1. Stored(K)' = StoredIn(C, key, data, K)
    BY <1>1, <1>5 DEF Stored, StoredIn
  <2>2. \A m, n \in C : key[m] = key[n] => m = n
    BY <1>3, <1>4, <1>5, BucketAssumption DEF MInv, Entries
  <2>3. val[t] \in C
    OBVIOUS
  <2> HIDE DEF C
  <2> QED
    BY <2>1, <2>2, <2>3, <1>4, StoredFacts
<1>8. [k \in Keys |-> Stored(k)]' = [[k \in Keys |-> Stored(k)] EXCEPT ![K] = op[t].new]
  BY <1>6, <1>7
<1>9. Store!DoSet(t)
  BY <1>1, <1>2, <1>3, <1>8, <1>0 DEF Store!DoSet, Store!Pending, Setting
<1> QED
  BY <1>9 DEF Store!Next

(* A return hands over the result of the instant at which the call worked. *)
LEMMA ReturnImplements ==
  ASSUME IInv, MInv, MInv', NEW t \in Threads, Return(t)
  PROVE  Store!Next
<1>1. ASSUME NEW k \in Keys PROVE Stored(k)' = Stored(k)
  <2>1. Bucket[k] \in Buckets /\ UNCHANGED <<key, data>>
    BY BucketAssumption DEF Return, memVars
  <2> QED
    BY <2>1, ReadStep, SameEntry DEF Return
<1>2. res[t] # None
  BY DEF Return, MInv, Pending
<1>3. Store!Return(t)
  BY <1>1, <1>2 DEF Return, Store!Return
<1> QED
  BY <1>3 DEF Store!Next

(* The table is empty, as the store is.                                    *)
LEMMA InitImplements == Init => Store!Init
<1> SUFFICES ASSUME Init PROVE Store!Init
  OBVIOUS
<1>1. \A k \in Keys : Stored(k) = Absent
  BY BucketAssumption, ReachNone DEF Init, Stored, Chain
<1> QED
  BY <1>1 DEF Init, Store!Init

(* Every step is one of the store, or is not seen there.                   *)
LEMMA NextImplements ==
  IInv /\ MInv /\ MInv' /\ [Next]_vars => [Store!Next]_(Store!vars)
<1> SUFFICES ASSUME IInv, MInv, MInv', [Next]_vars PROVE Store!Next \/ UNCHANGED Store!vars
  OBVIOUS
<1>1. CASE UNCHANGED vars
  BY <1>1, ReadStep, StoreStutters DEF vars, memVars
<1>2. ASSUME NEW t \in Threads, NEW k \in Keys, CallGet(t, k) PROVE Store!Next
  <2> DEFINE o == [type |-> "get", key |-> k]
  <2>1. /\ o \in Calls /\ op' = [op EXCEPT ![t] = o] /\ res' = res /\ pc[t] = "idle"
        /\ UNCHANGED memVars
    BY <1>2 DEF CallGet, Calls
  <2> HIDE DEF o
  <2> QED
    BY <2>1, ReadStep, CallImplements DEF memVars
<1>3. ASSUME NEW t \in Threads, NEW k \in Keys, NEW n \in Versions,
             NEW v \in Versions \cup {Absent}, CallSet(t, k, n, v)
      PROVE  Store!Next
  <2> DEFINE o == [type |-> "set", key |-> k, new |-> n, old |-> v]
  <2>1. /\ o \in Calls /\ op' = [op EXCEPT ![t] = o] /\ res' = res /\ pc[t] = "idle"
        /\ UNCHANGED <<table, next>>
        /\ \A m \in heap : key'[m] = key[m] /\ data'[m] = data[m]
    BY <1>3 DEF CallSet, Calls, MInv, MemTypes
  <2>2. \A b \in Buckets : Chain(b)' = Chain(b) /\ Chain(b) \subseteq heap
    BY <2>1 DEF Chain, MInv, Entries
  <2> HIDE DEF o
  <2> QED
    BY <2>1, <2>2, CallImplements
<1>4. ASSUME NEW t \in Threads, LockShared(t) \/ Walk(t) \/ Upgrade(t) PROVE UNCHANGED Store!vars
  <2>1. UNCHANGED memVars /\ UNCHANGED <<op, res>>
    BY <1>4 DEF LockShared, Walk, Upgrade
  <2> QED
    BY <2>1, ReadStep, StoreStutters DEF memVars
<1>5. ASSUME NEW t \in Threads, LockUpgrade(t) PROVE UNCHANGED Store!vars
  <2>1. /\ Brings(t) /\ next' = [next EXCEPT ![val[t]] = NULL]
        /\ UNCHANGED <<table, key, data, op, res>>
    BY <1>5 DEF LockUpgrade, Brings, Setting
  <2>2. val[t] \in Nodes /\ \A b \in Buckets : val[t] \notin Chain(b)
    BY <2>1 DEF MInv, MemTypes, Brought
  <2>3. \A b \in Buckets : Chain(b)' = Chain(b)
    BY <2>1, <2>2, ElsewhereWritten DEF MInv
  <2> QED
    BY <2>1, <2>3, StoreStutters
<1> QED
  BY <1>1, <1>2, <1>3, <1>4, <1>5, CopyImplements, ReplaceImplements, InsertImplements,
     ReturnImplements DEF Next, Step

(* Gets and sets of a database are atomic: each takes effect at one instant*)
(* between its call and its return, and a set of an entry that is there    *)
(* succeeds only with the version it has.                                  *)
THEOREM TableImplementsStore == Spec => ImplementsStore
<1>1. IInv /\ MInv /\ (IInv /\ MInv)' /\ [Next]_vars => [Store!Next]_(Store!vars)
  BY NextImplements
<1> QED
  BY <1>1, InitImplements, MemoryInvariance, PTL DEF Spec, ImplementsStore, Store!Spec
=============================================================================
