--------------------------- MODULE VersionedStore ---------------------------
(***************************************************************************)
(* What a database of db.hh promises to the shards that use it at the same *)
(* time: ht_get and ht_set each take effect at one instant between call    *)
(* and return.  A set of an entry that is there succeeds only if it names  *)
(* the version that is there; an entry that is not there is created.       *)
(***************************************************************************)
CONSTANTS Threads, Keys, Versions, Absent, None

VARIABLES
    store,  \* store[k]: the version of k's entry, or Absent
    op,     \* op[t]: the call thread t has made, or None
    res     \* res[t]: its result, or None

vars == <<store, op, res>>

Calls ==
    [type : {"get"}, key : Keys] \cup
    [type : {"set"}, key : Keys, new : Versions, old : Versions \cup {Absent}]

Init ==
    /\ store = [k \in Keys |-> Absent]
    /\ op = [t \in Threads |-> None]
    /\ res = [t \in Threads |-> None]

Call(t, o) ==
    /\ op[t] = None
    /\ op' = [op EXCEPT ![t] = o]
    /\ UNCHANGED <<store, res>>

Pending(t, type) == op[t] # None /\ op[t].type = type /\ res[t] = None

DoGet(t) ==
    /\ Pending(t, "get")
    /\ res' = [res EXCEPT ![t] = <<"entry", store[op[t].key]>>]
    /\ UNCHANGED <<store, op>>

DoSet(t) ==
    /\ Pending(t, "set")
    /\ IF store[op[t].key] \in {Absent, op[t].old}
       THEN /\ store' = [store EXCEPT ![op[t].key] = op[t].new]
            /\ res' = [res EXCEPT ![t] = <<"ok">>]
       ELSE /\ res' = [res EXCEPT ![t] = <<"abort">>]
            /\ store' = store
    /\ op' = op

Return(t) ==
    /\ res[t] # None
    /\ op' = [op EXCEPT ![t] = None]
    /\ res' = [res EXCEPT ![t] = None]
    /\ store' = store

Next == \E t \in Threads :
    DoGet(t) \/ DoSet(t) \/ Return(t) \/ \E o \in Calls : Call(t, o)

Spec == Init /\ [][Next]_vars
=============================================================================
