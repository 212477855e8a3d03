----------------------------- MODULE HashTable -----------------------------
(***************************************************************************)
(* One database of db.cc: buckets of linked entries, which the shards read *)
(* and write under a boost::shared_mutex.  ht_set walks its chain with the *)
(* upgrade lock, beside readers but not beside another ht_set, and makes   *)
(* the lock exclusive only to write.  Reads and writes of memory are steps *)
(* of their own; an entry is its version here, and the rest of its data is *)
(* copied and replaced with it.                                            *)
(***************************************************************************)
EXTENDS Naturals, FiniteSets

CONSTANTS
    Threads,    \* shards, one thread each
    Keys, Versions, Absent, None,
    Buckets,
    Bucket,     \* Bucket[k]: get_hash(k, 0) % ht.size
    Nodes,      \* db_val_t's that malloc can give out
    NULL

ASSUME BucketAssumption == Bucket \in [Keys -> Buckets]
ASSUME ThreadsAssumption == None \notin Threads
ASSUME NodesAssumption == NULL \notin Nodes
(* A version that db_set makes is not the 0 of an entry that is not there. *)
ASSUME AbsentAssumption == Absent \notin Versions

VARIABLES
    table,      \* table[b]: ht.table
    key, next, data,    \* the fields of each db_val_t
    heap,       \* nodes that are allocated
    readers, upgrader, writer,  \* ht._access: who holds it, and how
    pc, op, res,
    val,        \* val[t]: the node that t's set brings
    cur,        \* cur[t]: where its walk is (next or p)
    before      \* before[t]: the node before cur

memVars == <<table, key, next, data, heap>>
lockVars == <<readers, upgrader, writer>>
vars == <<memVars, lockVars, pc, op, res, val, cur, before>>

Calls ==
    [type : {"get"}, key : Keys] \cup
    [type : {"set"}, key : Keys, new : Versions, old : Versions \cup {Absent}]

Results == {<<"ok">>, <<"abort">>} \cup ({"entry"} \X (Versions \cup {Absent}))

ASSUME NoneAssumption == None \notin Calls \cup Results

Init ==
    /\ table = [b \in Buckets |-> NULL]
    /\ key = [n \in Nodes |-> None]
    /\ next = [n \in Nodes |-> NULL]
    /\ data = [n \in Nodes |-> None]
    /\ heap = {}
    /\ readers = {} /\ upgrader = None /\ writer = None
    /\ pc = [t \in Threads |-> "idle"]
    /\ op = [t \in Threads |-> None]
    /\ res = [t \in Threads |-> None]
    /\ val = [t \in Threads |-> NULL]
    /\ cur = [t \in Threads |-> NULL]
    /\ before = [t \in Threads |-> NULL]

Goto(t, p) == pc' = [pc EXCEPT ![t] = p]

(* db_get calls ht_get.                                                    *)
CallGet(t, k) ==
    /\ pc[t] = "idle"
    /\ op' = [op EXCEPT ![t] = [type |-> "get", key |-> k]]
    /\ Goto(t, "lock")
    /\ UNCHANGED <<memVars, lockVars, res, val, cur, before>>

(* db_set makes a node and calls ht_set.                                   *)
CallSet(t, k, new, old) ==
    /\ pc[t] = "idle"
    /\ \E n \in Nodes \ heap :
        /\ heap' = heap \cup {n}
        /\ key' = [key EXCEPT ![n] = k]
        /\ data' = [data EXCEPT ![n] = new]
        /\ val' = [val EXCEPT ![t] = n]
    /\ op' = [op EXCEPT ![t] = [type |-> "set", key |-> k, new |-> new, old |-> old]]
    /\ Goto(t, "lock")
    /\ UNCHANGED <<table, next, lockVars, res, cur, before>>

(* shared_lock: beside other readers and an upgrade lock.                  *)
LockShared(t) ==
    /\ pc[t] = "lock" /\ op[t].type = "get"
    /\ writer = None
    /\ readers' = readers \cup {t}
    /\ cur' = [cur EXCEPT ![t] = table[Bucket[op[t].key]]]
    /\ Goto(t, "walk")
    /\ UNCHANGED <<memVars, upgrader, writer, op, res, val, before>>

(* upgrade_lock: beside readers, one at a time.                            *)
UpgradeFree(t) == writer = None /\ upgrader = None

LockUpgrade(t) ==
    /\ pc[t] = "lock" /\ op[t].type = "set"
    /\ UpgradeFree(t)
    /\ upgrader' = t
    /\ next' = [next EXCEPT ![val[t]] = NULL]
    /\ cur' = [cur EXCEPT ![t] = table[Bucket[op[t].key]]]
    /\ before' = [before EXCEPT ![t] = NULL]
    /\ Goto(t, "walk")
    /\ UNCHANGED <<table, key, data, heap, readers, writer, op, res, val>>

Found(t) == cur[t] # NULL /\ key[cur[t]] = op[t].key

(* One turn of the while loop of either function.                          *)
Walk(t) ==
    /\ pc[t] = "walk" /\ cur[t] # NULL /\ ~Found(t)
    /\ before' = [before EXCEPT ![t] = cur[t]]
    /\ cur' = [cur EXCEPT ![t] = next[cur[t]]]
    /\ UNCHANGED <<memVars, lockVars, pc, op, res, val>>

(* ht_get copies the entry, or has none, and returns.                      *)
Copy(t) ==
    /\ pc[t] = "walk" /\ op[t].type = "get" /\ (cur[t] = NULL \/ Found(t))
    /\ res' = [res EXCEPT ![t] = <<"entry", IF Found(t) THEN data[cur[t]] ELSE Absent>>]
    /\ Goto(t, "unlock")
    /\ UNCHANGED <<memVars, lockVars, op, val, cur, before>>

(* Variant: the lock is not made exclusive.                                *)
NoReadersNeeded(t) == TRUE

NoReaders(t) == readers = {}

(* upgrade_to_unique_lock: waits for the readers to leave.                 *)
Upgrade(t) ==
    /\ pc[t] = "walk" /\ op[t].type = "set" /\ (cur[t] = NULL \/ Found(t))
    /\ NoReaders(t)
    /\ upgrader' = None /\ writer' = t
    /\ Goto(t, "write")
    /\ UNCHANGED <<memVars, readers, op, res, val, cur, before>>

SameVersion(t) == data[cur[t]] = op[t].old

(* Variant: the node with the old data is freed, not the one brought.      *)
FreedOld(t) == cur[t]

Freed(t) == val[t]

(* The entry is there: with the version the caller read its data is        *)
(* replaced and the node that was brought is freed, else the set aborts    *)
(* (and that node is lost).                                                *)
Replace(t) ==
    /\ pc[t] = "write" /\ cur[t] # NULL
    /\ IF SameVersion(t)
       THEN /\ data' = [data EXCEPT ![cur[t]] = data[val[t]], ![Freed(t)] = None]
            /\ key' = [key EXCEPT ![Freed(t)] = None]
            /\ heap' = heap \ {Freed(t)}
            /\ res' = [res EXCEPT ![t] = <<"ok">>]
       ELSE /\ res' = [res EXCEPT ![t] = <<"abort">>]
            /\ UNCHANGED <<key, data, heap>>
    /\ Goto(t, "unlock")
    /\ UNCHANGED <<table, next, lockVars, op, val, cur, before>>

(* Variant: the new node becomes the head of its chain.                    *)
LinkFirst(t) ==
    /\ table' = [table EXCEPT ![Bucket[op[t].key]] = val[t]]
    /\ next' = next

(* It is not: the node is put behind the last one of its chain.            *)
Link(t) ==
    IF before[t] # NULL
    THEN next' = [next EXCEPT ![before[t]] = val[t]] /\ table' = table
    ELSE table' = [table EXCEPT ![Bucket[op[t].key]] = val[t]] /\ next' = next

Insert(t) ==
    /\ pc[t] = "write" /\ cur[t] = NULL
    /\ Link(t)
    /\ res' = [res EXCEPT ![t] = <<"ok">>]
    /\ Goto(t, "unlock")
    /\ UNCHANGED <<key, data, heap, lockVars, op, val, cur, before>>

(* Variant: the function that aborts keeps the lock.                       *)
UnlockUnlessAborted(t) ==
    IF res[t] = <<"abort">> THEN UNCHANGED lockVars
    ELSE /\ readers' = readers \ {t}
         /\ writer' = IF writer = t THEN None ELSE writer
         /\ upgrader' = upgrader

(* The locks are released by their destructors, on every return.           *)
Unlock(t) ==
    /\ readers' = readers \ {t}
    /\ writer' = IF writer = t THEN None ELSE writer
    /\ upgrader' = upgrader

Return(t) ==
    /\ pc[t] = "unlock"
    /\ Unlock(t)
    /\ op' = [op EXCEPT ![t] = None]
    /\ res' = [res EXCEPT ![t] = None]
    /\ val' = [val EXCEPT ![t] = NULL]
    /\ cur' = [cur EXCEPT ![t] = NULL]
    /\ before' = [before EXCEPT ![t] = NULL]
    /\ Goto(t, "idle")
    /\ UNCHANGED memVars

Step(t) ==
    \/ LockShared(t) \/ LockUpgrade(t) \/ Walk(t) \/ Copy(t)
    \/ Upgrade(t) \/ Replace(t) \/ Insert(t) \/ Return(t)

Next == \E t \in Threads :
    \/ Step(t)
    \/ \E k \in Keys :
        CallGet(t, k) \/ \E n \in Versions, o \in Versions \cup {Absent} : CallSet(t, k, n, o)

Spec == Init /\ [][Next]_vars

-----------------------------------------------------------------------------
(* The nodes that are reached from x by f: those that are in every set with*)
(* x in it that f does not lead out of.                                    *)
Reachable(f, x) ==
    {n \in Nodes : \A S \in SUBSET Nodes :
        (x # NULL => x \in S) /\ (\A m \in S : f[m] # NULL => f[m] \in S) => n \in S}

Chain(b) == Reachable(next, table[b])

Stored(k) ==
    IF \E n \in Chain(Bucket[k]) : key[n] = k
    THEN data[CHOOSE n \in Chain(Bucket[k]) : key[n] = k]
    ELSE Absent

(* While one shard writes a chain in ht_set no other reads or writes any,  *)
(* although ht_set finds its place before it excludes the readers.         *)
NoRace ==
    \A t, u \in Threads : pc[t] = "write" /\ t # u => pc[u] \notin {"walk", "write"}

(* Every chain ends, has each key once and only keys of its bucket, and    *)
(* none of its entries has been freed; nor has the one a walk is at.       *)
ChainsSound ==
    /\ \A b \in Buckets :
        /\ Chain(b) # {} => \E n \in Chain(b) : next[n] = NULL
        /\ \A n \in Chain(b) : n \in heap /\ Bucket[key[n]] = b
        /\ \A m, n \in Chain(b) : key[m] = key[n] => m = n
    /\ \A t \in Threads :
        pc[t] \in {"walk", "write"} /\ cur[t] # NULL => cur[t] \in Chain(Bucket[op[t].key])

(* A shard that has left ht_get or ht_set holds no lock, aborted or not:   *)
(* the next one is not shut out.                                           *)
LocksReleased ==
    (\A t \in Threads : pc[t] \in {"idle", "lock"}) =>
        readers = {} /\ upgrader = None /\ writer = None

(* Lookups and versioned updates are atomic: the database is the store     *)
(* that db_get and db_set rely on.                                         *)
Store == INSTANCE VersionedStore WITH store <- [k \in Keys |-> Stored(k)]
ImplementsStore == Store!Spec
=============================================================================
