--------------------------- MODULE SchedulerProofs ---------------------------
(***************************************************************************)
(* For every workload and machine: the tables and queues of the scheduler  *)
(* agree with what its calls are doing, a fused request has its shard to   *)
(* itself, the sharded scheduler implements Invocation (each of its steps  *)
(* moves one call one phase on, as Invocation allows, or none), and a      *)
(* server that comes to rest has nothing left of any call.                 *)
(***************************************************************************)
EXTENDS SchedulerInv, SequenceTheorems, TLAPS

-----------------------------------------------------------------------------
(* What the sequence operators that the queues are built from do to the    *)
(* set of elements of a sequence without repetitions.                      *)

(* Appending a new element keeps a sequence free of repetitions.           *)
LEMMA AppendFacts ==
    ASSUME NEW S, NEW s \in Seq(S), NEW e \in S
    PROVE  /\ Append(s, e) \in Seq(S)
           /\ ToSet(Append(s, e)) = ToSet(s) \cup {e}
           /\ IsInjective(s) /\ e \notin ToSet(s) => IsInjective(Append(s, e))
<1> DEFINE t == Append(s, e)
<1>1. /\ t \in Seq(S) /\ Len(t) = Len(s) + 1 /\ Len(s) \in Nat
      /\ \A i \in 1 .. Len(s) : t[i] = s[i]
      /\ t[Len(s) + 1] = e
    OBVIOUS
<1> HIDE DEF t
<1>2. ToSet(t) = ToSet(s) \cup {e}
    <2>1. ASSUME NEW x \in ToSet(t) PROVE x \in ToSet(s) \cup {e}
        BY <1>1, <2>1 DEF ToSet
    <2>2. ASSUME NEW x \in ToSet(s) PROVE x \in ToSet(t)
        <3>1. PICK i \in 1 .. Len(s) : x = s[i]
            BY DEF ToSet
        <3>2. i \in 1 .. Len(t) /\ t[i] = x
            BY <1>1, <3>1
        <3> QED BY <1>1, <3>2 DEF ToSet
    <2>3. e \in ToSet(t)
        <3>1. Len(s) + 1 \in 1 .. Len(t)
            BY <1>1
        <3> QED BY <1>1, <3>1 DEF ToSet
    <2> QED BY <2>1, <2>2, <2>3
<1>3. ASSUME IsInjective(s), e \notin ToSet(s) PROVE IsInjective(t)
    BY <1>1, <1>3 DEF IsInjective, ToSet
<1> QED BY <1>1, <1>2, <1>3 DEF t

(* The head of a sequence without repetitions occurs nowhere else.         *)
LEMMA TailFacts ==
    ASSUME NEW S, NEW s \in Seq(S), s # << >>
    PROVE  /\ Tail(s) \in Seq(S)
           /\ Head(s) \in ToSet(s) /\ Head(s) \in S
           /\ IsInjective(s) => /\ IsInjective(Tail(s))
                                /\ ToSet(Tail(s)) = ToSet(s) \ {Head(s)}
<1> DEFINE t == Tail(s)
           h == Head(s)
<1>1. /\ t \in Seq(S) /\ h = s[1] /\ Len(s) \in Nat \ {0}
      /\ Len(t) = Len(s) - 1
      /\ \A i \in 1 .. Len(s) - 1 : t[i] = s[i + 1]
    OBVIOUS
<1> HIDE DEF t, h
<1>2. h \in ToSet(s) /\ h \in S
    BY <1>1 DEF ToSet
<1>3. ASSUME IsInjective(s) PROVE IsInjective(t)
    BY <1>1, <1>3 DEF IsInjective
<1>4. ASSUME IsInjective(s) PROVE ToSet(t) = ToSet(s) \ {h}
    <2>1. ASSUME NEW x \in ToSet(t) PROVE x \in ToSet(s) \ {h}
        BY <1>1, <1>4, <2>1 DEF ToSet, IsInjective
    <2>2. ASSUME NEW x \in ToSet(s) \ {h} PROVE x \in ToSet(t)
        <3>1. PICK i \in 1 .. Len(s) : x = s[i] /\ i # 1
            BY <1>1 DEF ToSet
        <3>2. i - 1 \in 1 .. Len(t) /\ t[i - 1] = x
            BY <1>1, <3>1
        <3> QED BY <1>1, <3>2 DEF ToSet
    <2> QED BY <2>1, <2>2
<1> QED BY <1>1, <1>2, <1>3, <1>4 DEF t, h

(* RemoveFirst takes the element out, and nothing else.                    *)
LEMMA RemoveFirstFacts ==
    ASSUME NEW S, NEW s \in Seq(S), IsInjective(s), NEW e
    PROVE  /\ RemoveFirst(s, e) \in Seq(S)
           /\ IsInjective(RemoveFirst(s, e))
           /\ ToSet(RemoveFirst(s, e)) = ToSet(s) \ {e}
<1>1. CASE ~\E i \in 1 .. Len(s) : s[i] = e
    <2>1. RemoveFirst(s, e) = s
        BY <1>1 DEF RemoveFirst
    <2> QED BY <1>1, <2>1 DEF ToSet
<1>2. CASE \E i \in 1 .. Len(s) : s[i] = e
    <2>1. PICK p \in 1 .. Len(s) : s[p] = e
        BY <1>2
    <2>2. {i \in 1 .. Len(s) : s[i] = e} = {p}
        BY <2>1 DEF IsInjective
    <2>3. Min({p}) = p
        BY DEF Min
    <2>4. SelectInSeq(s, LAMBDA v : v = e) = p
        BY <2>2, <2>3 DEF SelectInSeq
    <2> DEFINE t == RemoveAt(s, p)
    <2>5. RemoveFirst(s, e) = t
        BY <1>2, <2>4 DEF RemoveFirst
    <2>6. /\ t \in Seq(S) /\ Len(t) = Len(s) - 1
          /\ \A i \in 1 .. Len(t) : t[i] = IF i < p THEN s[i] ELSE s[i + 1]
        <3> DEFINE l == SubSeq(s, 1, p - 1)
                   r == SubSeq(s, p + 1, Len(s))
        <3>1. l \in Seq(S) /\ Len(l) = p - 1 /\ \A i \in 1 .. p - 1 : l[i] = s[i]
            BY SubSeqProperties
        <3>2. r \in Seq(S) /\ Len(r) = Len(s) - p
              /\ \A i \in 1 .. Len(s) - p : r[i] = s[p + i]
            BY SubSeqProperties
        <3>3. t = l \o r
            BY DEF RemoveAt
        <3> HIDE DEF l, r
        <3>4. l \o r \in Seq(S) /\ Len(l \o r) = Len(s) - 1
              /\ \A i \in 1 .. Len(s) - 1 :
                    (l \o r)[i] = IF i < p THEN l[i] ELSE r[i - (p - 1)]
            <4>1. l \o r \in Seq(S) /\ Len(l \o r) = Len(l) + Len(r)
                  /\ \A i \in 1 .. Len(l) + Len(r) :
                        (l \o r)[i] = IF i <= Len(l) THEN l[i] ELSE r[i - Len(l)]
                BY <3>1, <3>2, ConcatProperties
            <4> QED BY <3>1, <3>2, <4>1
        <3> HIDE DEF t
        <3> QED BY <3>1, <3>2, <3>3, <3>4
    <2> HIDE DEF t
    <2>7. IsInjective(t)
        <3> DEFINE from(i) == IF i < p THEN i ELSE i + 1
        <3>1. \A i \in 1 .. Len(t) : from(i) \in 1 .. Len(s) /\ t[i] = s[from(i)]
            BY <2>1, <2>6
        <3>2. \A i, j \in 1 .. Len(t) : from(i) = from(j) => i = j
            OBVIOUS
        <3> HIDE DEF from
        <3>3. DOMAIN t = 1 .. Len(t) /\ DOMAIN s = 1 .. Len(s)
            BY <2>6
        <3> QED BY <3>1, <3>2, <3>3 DEF IsInjective
    <2>8. ASSUME NEW x \in ToSet(t) PROVE x \in ToSet(s) \ {e}
        BY <2>1, <2>6, <2>8 DEF ToSet, IsInjective
    <2>9. ASSUME NEW x \in ToSet(s) \ {e} PROVE x \in ToSet(t)
        <3>1. PICK i \in 1 .. Len(s) : x = s[i] /\ i # p
            BY <2>1 DEF ToSet
        <3>2. PICK j \in 1 .. Len(t) : t[j] = x
            <4>1. CASE i < p
                BY <2>6, <3>1, <4>1, i \in 1 .. Len(t)
            <4>2. CASE i > p
                <5>1. i - 1 \in 1 .. Len(t) /\ t[i - 1] = x
                    BY <2>6, <3>1, <4>2
                <5> QED BY <5>1
            <4> QED BY <3>1, <4>1, <4>2
        <3> QED BY <2>6, <3>2 DEF ToSet
    <2> QED BY <2>5, <2>6, <2>7, <2>8, <2>9
<1> QED BY <1>1, <1>2

-----------------------------------------------------------------------------

(* The inductive invariant holds of the idle server: no call issued yet. *)
THEOREM InitInv == Init => IInv
<1> SUFFICES ASSUME Init PROVE IInv
    OBVIOUS
<1>1. TypeOK
    BY DEF Init, TypeOK, ReplyStates
<1>2. MsgInv /\ TreeInv /\ TaskInv
    BY NoneAssumption DEF Init, MsgInv, TreeInv, TaskInv
<1>3. MicroInv
    BY NoneAssumption DEF Init, MicroInv, IsInjective, ToSet
<1>4. StateInv
    BY DEF Init, StateInv, ExpectedState, Pending, OnShard
<1>5. QueueInv
    BY DEF Init, QueueInv, IsInjective, ToSet
<1>6. CurrReqExact /\ FusedInv
    BY DEF Init, CurrReqExact, FusedInv, OnShard
<1> QED BY <1>1, <1>2, <1>3, <1>4, <1>5, <1>6 DEF IInv

(* What the invariants quantify over are calls and shards.                 *)
LEMMA Domains ==
    ASSUME TypeOK
    PROVE  /\ \A c \in Cores : ToSet(q[c]) \subseteq Calls /\ ToSet(micro[c]) \subseteq Calls
           /\ FusedReqs \subseteq Calls /\ Roots \subseteq Calls
           /\ \A k \in Calls : Req[k] \in Roots
           /\ \A k \in Calls \ Roots : Parent[k] \in Calls /\ Req[k] = Req[Parent[k]]
           /\ \A k \in Roots : Req[k] = k /\ Home[k] \in Cores
           /\ NoCall \notin Calls /\ NoCore \notin Cores
<1>1. ASSUME NEW s \in Seq(Calls) PROVE ToSet(s) \subseteq Calls
    BY <1>1 DEF ToSet
<1>2. \A c \in Cores : ToSet(q[c]) \subseteq Calls /\ ToSet(micro[c]) \subseteq Calls
    BY <1>1 DEF TypeOK
<1> QED BY <1>2, NoneAssumption, HwCoresAssumption, ParentAssumption, ReqAssumption,
           HomeAssumption, FusedAssumption DEF Roots

(* dispatch() hands over at most one parked task, whose call leaves the    *)
(* queue with it, and none while a fused request holds the shard.          *)
LEMMA DispatchFacts ==
    ASSUME NEW queue \in Seq(Calls), IsInjective(queue),
           NEW tasks \in SUBSET ToSet(queue), NEW wf
    PROVE  /\ Handed(queue, tasks, wf) \subseteq tasks
           /\ Handed(queue, tasks, wf) # {} => wf = {}
           /\ StillQueued(queue, tasks, wf) \in Seq(Calls)
           /\ IsInjective(StillQueued(queue, tasks, wf))
           /\ ToSet(StillQueued(queue, tasks, wf)) = ToSet(queue) \ Handed(queue, tasks, wf)
<1>1. CASE Handed(queue, tasks, wf) = {}
    BY <1>1 DEF StillQueued
<1>2. CASE Handed(queue, tasks, wf) # {}
    BY <1>2, TailFacts DEF Handed, StillQueued
<1> QED BY <1>1, <1>2

(* IInv across RunTask: a shard runs a call that it made ready. *)
LEMMA RunTaskInv ==
    ASSUME IInv, NEW c \in Cores, NEW k \in Calls, RunTask(c, k)
    PROVE  IInv'
<1> USE DEF IInv
<1>1. k \in ready[c] /\ k \in issued /\ at[k] = c /\ js[k] = "idle" /\ ~InFlight(k) /\ k \notin task_map[c]
    BY DEF TaskInv, RunTask
<1>2. TypeOK'
    BY DEF TypeOK, RunTask, serverVars
<1>3. \A j \in Calls : /\ InFlight(j)' <=> InFlight(j)
                       /\ Replying(j)' <=> Replying(j)
                       /\ Caller(j)' = Caller(j)
                       /\ OnShard(j)' <=> OnShard(j)
                       /\ Pending(j)' <=> Pending(j)
    BY <1>1 DEF InFlight, Replying, Caller, OnShard, Pending, RunTask, TypeOK, serverVars
<1>4. MsgInv'
    BY <1>1, <1>3 DEF MsgInv, RunTask, TypeOK, serverVars, InFlight, Messages
<1>5. TreeInv'
    BY <1>1 DEF TreeInv, RunTask, TypeOK
<1>6. TaskInv'
    BY <1>1, <1>3 DEF TaskInv, RunTask, TypeOK, serverVars
<1>7. MicroInv'
    BY <1>1, <1>3, Domains DEF MicroInv, RunTask, TypeOK, serverVars
<1>8. StateInv'
    BY <1>1, <1>3 DEF StateInv, ExpectedState, RunTask, TypeOK, serverVars
<1>9. QueueInv'
    BY <1>1, <1>3 DEF QueueInv, RunTask, TypeOK, serverVars
<1>10. CurrReqExact'
    BY <1>1, <1>3 DEF CurrReqExact, RunTask, TypeOK, serverVars
<1>11. FusedInv'
    BY <1>1, <1>3, Domains DEF FusedInv, RunTask, TypeOK, serverVars
<1> QED BY <1>2, <1>4, <1>5, <1>6, <1>7, <1>8, <1>9, <1>10, <1>11

(* IInv across JsYield: a function returns with its calls still pending. *)
LEMMA JsYieldInv ==
    ASSUME IInv, NEW c \in Cores, JsYield(c)
    PROVE  IInv'
<1> USE DEF IInv
<1>1. TypeOK'
    BY DEF TypeOK, JsYield, serverVars
<1>2. \A j \in Calls : /\ InFlight(j)' <=> InFlight(j)
                       /\ Replying(j)' <=> Replying(j)
                       /\ Caller(j)' = Caller(j)
                       /\ OnShard(j)' <=> OnShard(j)
                       /\ Pending(j)' <=> Pending(j)
    BY DEF InFlight, Replying, Caller, OnShard, Pending, JsYield, serverVars
<1>3. MsgInv' /\ TreeInv'
    BY <1>2 DEF MsgInv, TreeInv, JsYield, TypeOK, serverVars, Messages
<1>4. TaskInv'
    BY <1>2, Domains DEF TaskInv, JsYield, TypeOK, serverVars
<1>5. MicroInv'
    BY <1>2, Domains DEF MicroInv, JsYield, TypeOK, serverVars
<1>6. StateInv' /\ QueueInv'
    BY <1>2, Domains DEF StateInv, ExpectedState, QueueInv, JsYield, TypeOK, serverVars
<1>7. CurrReqExact' /\ FusedInv'
    BY <1>2, Domains DEF CurrReqExact, FusedInv, JsYield, TypeOK, serverVars
<1> QED BY <1>1, <1>3, <1>4, <1>5, <1>6, <1>7

(* IInv across RecvAck: the future of an invoke_on resolves; dispatch(). *)
LEMMA RecvAckInv ==
    ASSUME IInv, NEW c \in Cores, NEW m \in net, RecvAck(c, m)
    PROVE  IInv'
<1> USE DEF IInv
<1> DEFINE go == Handed(q[c], task_map[c], curr_wf[c])
           rest == StillQueued(q[c], task_map[c], curr_wf[c])
<1>1. /\ go \subseteq task_map[c] /\ rest \in Seq(Calls) /\ IsInjective(rest)
      /\ ToSet(rest) = ToSet(q[c]) \ go
    <2>1. q[c] \in Seq(Calls) /\ IsInjective(q[c]) /\ task_map[c] \in SUBSET ToSet(q[c])
        BY DEF TypeOK, QueueInv
    <2> HIDE DEF IInv
    <2> QED BY <2>1, DispatchFacts
<1>2. /\ ready' = [ready EXCEPT ![c] = @ \cup go]
      /\ task_map' = [task_map EXCEPT ![c] = @ \ go]
      /\ q' = [q EXCEPT ![c] = rest]
      /\ net' = net \ {m} /\ m.type = "ack"
      /\ UNCHANGED <<req_map, callbacks, curr_req, curr_wf, js, cur, micro, owed,
                     issued, at, returned>>
    BY DEF RecvAck, Dispatch
<1> HIDE DEF go, rest
<1>3. TypeOK'
    BY <1>1, <1>2 DEF TypeOK
<1>4. \A j \in Calls : /\ InFlight(j)' <=> InFlight(j)
                       /\ Replying(j)' <=> Replying(j)
                       /\ Caller(j)' = Caller(j)
                       /\ OnShard(j)' <=> OnShard(j)
                       /\ Pending(j)' <=> Pending(j)
    BY <1>2 DEF InFlight, Replying, Caller, OnShard, Pending
<1>5. \A j \in go : j \in Calls /\ ~InFlight(j)
    BY <1>1 DEF TaskInv, TypeOK
<1>6. \A e \in Cores : ToSet(q[e])' = IF e = c THEN ToSet(q[c]) \ go ELSE ToSet(q[e])
    BY <1>1, <1>2 DEF TypeOK
<1>7. MsgInv'
    BY <1>2, <1>4, <1>5, <1>6 DEF MsgInv, TypeOK, Messages, InFlight
<1>8. TreeInv'
    BY <1>2 DEF TreeInv
<1>9. TaskInv'
    BY <1>1, <1>2, <1>4 DEF TaskInv, TypeOK
<1>10. MicroInv'
    BY <1>2, <1>4, Domains DEF MicroInv, TypeOK
<1>11. StateInv'
    BY <1>2, <1>4 DEF StateInv, ExpectedState, TypeOK
<1>12. QueueInv'
    <2>1. \A e \in Cores : IsInjective(q[e])'
        BY <1>1, <1>2 DEF QueueInv, TypeOK
    <2> QED BY <1>1, <1>2, <1>4, <1>6, <2>1, Domains DEF QueueInv, TypeOK
<1>13. CurrReqExact' /\ FusedInv'
    BY <1>2, <1>4, Domains DEF CurrReqExact, FusedInv, TypeOK
<1> QED BY <1>3, <1>7, <1>8, <1>9, <1>10, <1>11, <1>12, <1>13

(* IInv across Finish: run_callback is back, and the shard dispatches. *)
LEMMA FinishInv ==
    ASSUME IInv, NEW c \in Cores, Finish(c)
    PROVE  IInv'
<1> USE DEF IInv
<1> DEFINE go == Handed(q[c], task_map[c], curr_wf[c])
           rest == StillQueued(q[c], task_map[c], curr_wf[c])
<1>1. /\ go \subseteq task_map[c] /\ rest \in Seq(Calls) /\ IsInjective(rest)
      /\ ToSet(rest) = ToSet(q[c]) \ go
    <2>1. q[c] \in Seq(Calls) /\ IsInjective(q[c]) /\ task_map[c] \in SUBSET ToSet(q[c])
        BY DEF TypeOK, QueueInv
    <2> HIDE DEF IInv
    <2> QED BY <2>1, DispatchFacts
<1>2. /\ ready' = [ready EXCEPT ![c] = @ \cup go]
      /\ task_map' = [task_map EXCEPT ![c] = @ \ go]
      /\ q' = [q EXCEPT ![c] = rest]
      /\ owed' = [owed EXCEPT ![c] = NoCall] /\ owed[c] # NoCall
      /\ net' \in {net, net \cup {Msg("ack", owed[c], c, at[owed[c]])}}
      /\ UNCHANGED <<req_map, callbacks, curr_req, curr_wf, js, cur, micro, issued,
                     at, returned>>
    BY DEF Finish, Dispatch
<1> HIDE DEF go, rest
<1>3. TypeOK'
    <2>1. at[owed[c]] \in Cores /\ owed[c] \in Calls
        BY <1>2 DEF TypeOK, MicroInv, TreeInv
    <2> QED BY <1>1, <1>2, <2>1 DEF TypeOK, Msg, Messages
<1>4. \A j \in Calls : /\ InFlight(j)' <=> InFlight(j)
                       /\ Replying(j)' <=> Replying(j)
                       /\ Caller(j)' = Caller(j)
                       /\ OnShard(j)' <=> OnShard(j)
                       /\ Pending(j)' <=> Pending(j)
    BY <1>2 DEF InFlight, Replying, Caller, OnShard, Pending, Msg
<1>5. \A j \in go : j \in Calls /\ ~InFlight(j)
    BY <1>1 DEF TaskInv, TypeOK
<1>6. \A e \in Cores : ToSet(q[e])' = IF e = c THEN ToSet(q[c]) \ go ELSE ToSet(q[e])
    BY <1>1, <1>2 DEF TypeOK
<1>7. MsgInv'
    BY <1>2, <1>4, <1>5, <1>6 DEF MsgInv, TypeOK, Messages, InFlight, Msg
<1>8. TreeInv'
    BY <1>2 DEF TreeInv
<1>9. TaskInv'
    BY <1>1, <1>2, <1>4 DEF TaskInv, TypeOK
<1>10. MicroInv'
    BY <1>2, <1>4, Domains DEF MicroInv, TypeOK
<1>11. StateInv'
    BY <1>2, <1>4 DEF StateInv, ExpectedState, TypeOK
<1>12. QueueInv'
    <2>1. \A e \in Cores : IsInjective(q[e])'
        BY <1>1, <1>2 DEF QueueInv, TypeOK
    <2> QED BY <1>1, <1>2, <1>4, <1>6, <2>1, Domains DEF QueueInv, TypeOK
<1>13. CurrReqExact' /\ FusedInv'
    BY <1>2, <1>4, Domains DEF CurrReqExact, FusedInv, TypeOK
<1> QED BY <1>3, <1>7, <1>8, <1>9, <1>10, <1>11, <1>12, <1>13

(* IInv across NextMicro: the next promise resolves, its awaiter goes on. *)
LEMMA NextMicroInv ==
    ASSUME IInv, NEW c \in Cores, NextMicro(c)
    PROVE  IInv'
<1> USE DEF IInv
<1> DEFINE k == Head(micro[c])
           mc == Tail(micro[c])
<1>1. /\ k \in ToSet(micro[c]) /\ k \in Calls /\ mc \in Seq(Calls) /\ IsInjective(mc)
      /\ ToSet(mc) = ToSet(micro[c]) \ {k}
    BY TailFacts DEF TypeOK, MicroInv, NextMicro
<1>2. /\ cur[c] = NoCall
      /\ returned' = returned \cup {k}
      /\ cur' = [cur EXCEPT ![c] = IF k \in Detached THEN NoCall ELSE Parent[k]]
      /\ micro' = [micro EXCEPT ![c] = mc]
      /\ UNCHANGED <<req_map, callbacks, q, task_map, curr_req, curr_wf, ready, net, js,
                     owed, issued, at>>
    BY DEF NextMicro, serverVars
<1> HIDE DEF k, mc
<1>3. k \notin Roots /\ Caller(k) = c /\ js[k] = "replied" /\ k \notin returned /\ k \in issued
    BY <1>1 DEF MicroInv, TreeInv
<1>4. k \notin Detached => /\ Parent[k] \in Calls /\ js[Parent[k]] = "running"
                           /\ at[Parent[k]] = c
    BY <1>1, <1>3, Domains DEF TreeInv, Caller
<1>5. TypeOK'
    BY <1>1, <1>2, <1>4 DEF TypeOK
<1>6. \A j \in Calls : /\ InFlight(j)' <=> InFlight(j)
                       /\ Replying(j)' <=> Replying(j)
                       /\ Caller(j)' = Caller(j)
                       /\ OnShard(j)' <=> OnShard(j)
                       /\ Pending(j)' <=> Pending(j)
    BY <1>2 DEF InFlight, Replying, Caller, OnShard, Pending
<1>7. \A e \in Cores : ToSet(micro[e])' = IF e = c THEN ToSet(mc) ELSE ToSet(micro[e])
    BY <1>2 DEF TypeOK
<1>8. MsgInv'
    BY <1>1, <1>2, <1>6, <1>7 DEF MsgInv, TypeOK, Messages
<1>9. TreeInv'
    BY <1>1, <1>2, <1>3 DEF TreeInv
<1>10. TaskInv'
    BY <1>2, <1>4, <1>6, Domains DEF TaskInv, TypeOK
<1>11. MicroInv'
    <2>1. \A e \in Cores : IsInjective(micro[e])'
        BY <1>1, <1>2 DEF MicroInv, TypeOK
    <2>2. \A e \in Cores : \A j \in ToSet(micro[e])' : j \in ToSet(micro[e]) /\ j # k
        BY <1>1, <1>2, <1>3, <1>7 DEF MicroInv
    <2>3. ASSUME NEW e \in Cores, NEW j \in ToSet(micro[e])'
          PROVE  (j \notin Roots /\ Caller(j) = e /\ js[j] = "replied" /\ j \notin returned)'
        <3>1. j \in Calls /\ j \in ToSet(micro[e]) /\ j # k
            BY <2>2, Domains
        <3>2. j \notin Roots /\ Caller(j) = e /\ js[j] = "replied" /\ j \notin returned
            BY <3>1 DEF MicroInv
        <3> QED BY <1>2, <1>6, <3>1, <3>2
    <2>4. \A e \in Cores : (owed[e] \in Calls => owed[e] \in issued)'
        BY <1>2 DEF MicroInv
    <2> QED BY <2>1, <2>3, <2>4 DEF MicroInv
<1>12. StateInv' /\ QueueInv'
    BY <1>2, <1>6, Domains DEF StateInv, ExpectedState, QueueInv, TypeOK
<1>13. CurrReqExact' /\ FusedInv'
    BY <1>2, <1>6, Domains DEF CurrReqExact, FusedInv, TypeOK
<1> QED BY <1>5, <1>8, <1>9, <1>10, <1>11, <1>12, <1>13

(* A fused request is complete when its root replies: no other call of it  *)
(* is on a shard.  The calls that are issued and not returned would have   *)
(* one whose caller is not among them, and that caller can only be the     *)
(* root, which waits for it.                                               *)
LEMMA FusedTreeDone ==
    ASSUME IInv, NEW r \in FusedReqs, Awaited(r) \cap issued \subseteq returned
    PROVE  \A j \in Calls : Req[j] = r /\ j # r => ~OnShard(j)
<1> USE DEF IInv
<1> DEFINE S == {j \in Calls : Req[j] = r /\ j # r /\ j \in issued /\ j \notin returned}
<1>1. ASSUME NEW j \in S PROVE Parent[j] \in S
    <2>1. j \notin Roots /\ Req[Parent[j]] = r /\ Parent[j] \in Calls
        BY Domains
    <2>2. j \notin Detached
        BY FusedAssumption
    <2>3. js[Parent[j]] = "running"
        BY <2>1, <2>2 DEF TreeInv
    <2>4. Parent[j] \in issued /\ Parent[j] \notin returned
        BY <2>1, <2>3 DEF TreeInv
    <2>5. Parent[j] # r
        BY <2>2 DEF Awaited, Children
    <2> QED BY <2>1, <2>4, <2>5
<1>2. S = {}
    BY <1>1, AcyclicAssumption
<1> QED BY <1>2 DEF OnShard, TreeInv

(* What the five ways to hand a result to its caller have in common: the   *)
(* Reply binding and run_func's error path with the caller on the same     *)
(* shard, and a reply message, each for a promise or for a client.         *)
Delivery(c, k) ==
    /\ k \in issued /\ k \notin returned /\ ~InFlight(k) /\ Caller(k) = c
    /\ k \notin task_map[c] /\ k \notin ready[c]
    /\ \A e \in Cores : k \notin ToSet(micro[e])
    /\ js[k] = "replied" \/ Awaited(k) \cap issued \subseteq returned
    /\ js[k] = "replied" \/ at[k] = c
    /\ js' = [js EXCEPT ![k] = "replied"]
    /\ cur' \in [Cores -> Calls \cup {NoCall}]
    /\ \A e \in Cores : cur'[e] = NoCall \/ (cur'[e] = cur[e] /\ cur[e] # k)
    /\ net' \subseteq Messages
    /\ \A m \in net' : m \in net \/ m.type = "ack"
    /\ \A m \in net : m.type = "run_func" \/ (m.type = "reply" /\ m.call # k) => m \in net'
    /\ \A m \in net' : m.type = "reply" => m.call # k
    /\ LeaveCore(c, k)
    /\ callbacks' = [callbacks EXCEPT ![c] = @ \ {k}]
    /\ curr_wf' = [curr_wf EXCEPT ![c] = @ \ {k}]
    /\ \/ k \in Roots /\ returned' = returned \cup {k} /\ micro' = micro
       \/ k \notin Roots /\ returned' = returned /\ micro' = [micro EXCEPT ![c] = Append(@, k)]
    /\ owed' \in [Cores -> Calls \cup {NoCall}]
    /\ \A e \in Cores : owed'[e] \in {owed[e], k}
    /\ UNCHANGED <<issued, at>>
    /\ q' \in [Cores -> Seq(Calls)]
    /\ \A e \in Cores : IsInjective(q'[e])
    /\ \E go \in SUBSET task_map[c] :
          /\ go # {} => curr_wf'[c] = {}
          /\ ready' = [ready EXCEPT ![c] = @ \cup go]
          /\ task_map' = [task_map EXCEPT ![c] = @ \ go]
          /\ \A e \in Cores :
                ToSet(q'[e]) = IF e = c THEN ToSet(q[c]) \ ({k} \cup go) ELSE ToSet(q[e])

(* IInv across a delivery, whichever of the five ways it takes. *)
LEMMA DeliveryInv ==
    ASSUME IInv, NEW c \in Cores, NEW k \in Calls, Delivery(c, k)
    PROVE  IInv'
<1> USE DEF IInv
<1>1. PICK go \in SUBSET task_map[c] :
          /\ ready' = [ready EXCEPT ![c] = @ \cup go]
          /\ task_map' = [task_map EXCEPT ![c] = @ \ go]
          /\ \A e \in Cores :
                ToSet(q'[e]) = IF e = c THEN ToSet(q[c]) \ ({k} \cup go) ELSE ToSet(q[e])
    BY DEF Delivery
<1>2. /\ req_map' = [req_map EXCEPT ![c][k] = NoState]
      /\ curr_req' = [curr_req EXCEPT ![c] = @ \ {k}]
      /\ js' = [js EXCEPT ![k] = "replied"]
      /\ UNCHANGED <<issued, at>>
    BY DEF Delivery, LeaveCore
<1>3. TypeOK'
    <2>1. micro[c] \in Seq(Calls) /\ Append(micro[c], k) \in Seq(Calls)
        BY DEF TypeOK
    <2>2. \/ returned' = returned \cup {k} /\ micro' = micro
          \/ returned' = returned /\ micro' = [micro EXCEPT ![c] = Append(@, k)]
        BY DEF Delivery
    <2>3. micro' \in [Cores -> Seq(Calls)] /\ returned' \subseteq Calls
        BY <2>1, <2>2 DEF TypeOK
    <2>4. /\ callbacks' = [callbacks EXCEPT ![c] = @ \ {k}]
          /\ curr_wf' = [curr_wf EXCEPT ![c] = @ \ {k}]
          /\ cur' \in [Cores -> Calls \cup {NoCall}] /\ owed' \in [Cores -> Calls \cup {NoCall}]
          /\ q' \in [Cores -> Seq(Calls)] /\ net' \subseteq Messages
        BY DEF Delivery
    <2>5. req_map' \in [Cores -> [Calls -> ReplyStates]]
        BY <1>2 DEF TypeOK, ReplyStates
    <2>6. /\ callbacks' \in [Cores -> SUBSET Calls] /\ curr_wf' \in [Cores -> SUBSET Calls]
          /\ curr_req' \in [Cores -> SUBSET Calls]
        BY <1>2, <2>4 DEF TypeOK
    <2>7. ready' \in [Cores -> SUBSET Calls] /\ task_map' \in [Cores -> SUBSET Calls]
        BY <1>1 DEF TypeOK
    <2>8. js' \in [Calls -> {"idle", "running", "replied"}]
        BY <1>2 DEF TypeOK
    <2> QED BY <1>2, <2>3, <2>4, <2>5, <2>6, <2>7, <2>8 DEF TypeOK
<1>4. \A j \in Calls : /\ InFlight(j)' <=> InFlight(j)
                       /\ Caller(j)' = Caller(j)
    BY <1>2 DEF InFlight, Caller, Delivery
<1>5. \A j \in Calls : Replying(j)' <=> Replying(j) /\ j # k
    BY DEF Replying, Delivery
<1>6. \A j \in Calls : OnShard(j)' <=> OnShard(j) /\ j # k
    BY <1>2, <1>4 DEF OnShard, TypeOK
<1>7. \A j \in Calls : Pending(j)' <=> Pending(j) /\ j # k
    BY <1>2, <1>5 DEF Pending, TypeOK
<1>8. \A j \in go : j \in Calls /\ j # k /\ ~InFlight(j)
    BY DEF Delivery, TaskInv, TypeOK
<1>9. \A e \in Cores : ToSet(micro'[e]) = IF e = c /\ k \notin Roots
                                           THEN ToSet(micro[e]) \cup {k} ELSE ToSet(micro[e])
    <2>1. micro' = IF k \in Roots THEN micro ELSE [micro EXCEPT ![c] = Append(@, k)]
        BY DEF Delivery
    <2>2. ToSet(Append(micro[c], k)) = ToSet(micro[c]) \cup {k}
        BY AppendFacts DEF TypeOK
    <2> QED BY <2>1, <2>2 DEF TypeOK
<1>10. /\ OnShard(k) => at[k] = c
       /\ Caller(k) = c /\ k \notin returned /\ k \in issued
       /\ returned' = IF k \in Roots THEN returned \cup {k} ELSE returned
    BY DEF Delivery, OnShard
<1>11. MsgInv'
    <2> SUFFICES ASSUME NEW m \in net', m.type # "ack"
                 PROVE  MsgInv!(m)'
        BY DEF MsgInv
    <2>1. m \in net /\ m.call \in Calls /\ m.to \in Cores
        BY DEF Delivery, TypeOK, Messages
    <2>2. CASE m.type = "run_func"
        <3>1. m.call # k /\ m.call \notin go
            BY <1>8, <2>1, <2>2 DEF InFlight, Delivery
        <3> QED BY <1>1, <1>2, <1>4, <2>1, <2>2, <3>1 DEF MsgInv, TypeOK
    <2>3. CASE m.type = "reply"
        <3>1. m.call # k
            BY <2>3 DEF Delivery
        <3> QED BY <1>2, <1>4, <1>9, <1>10, <2>1, <2>3, <3>1 DEF MsgInv, TypeOK
    <2> QED BY <2>1, <2>2, <2>3 DEF TypeOK, Messages
<1>12. TreeInv'
    BY <1>2 DEF TreeInv, Delivery, TypeOK, Awaited, Children
<1>13. TaskInv'
    BY <1>1, <1>2, <1>4, Domains DEF TaskInv, Delivery, TypeOK
<1>14. MicroInv'
    <2>1. \A e \in Cores : IsInjective(micro'[e])
        <3>1. micro' = IF k \in Roots THEN micro ELSE [micro EXCEPT ![c] = Append(@, k)]
            BY DEF Delivery
        <3>2. IsInjective(micro[c]) /\ k \notin ToSet(micro[c]) /\ micro[c] \in Seq(Calls)
            BY DEF MicroInv, Delivery, TypeOK
        <3>3. IsInjective(Append(micro[c], k))
            BY <3>2, AppendFacts
        <3> QED BY <3>1, <3>3 DEF MicroInv, TypeOK
    <2>2. \A e \in Cores : owed'[e] \in Calls => owed'[e] \in issued'
        <3>1. \A e \in Cores : owed'[e] = owed[e] \/ owed'[e] = k
            BY DEF Delivery
        <3>2. \A e \in Cores : owed[e] \in Calls => owed[e] \in issued
            BY DEF MicroInv
        <3> QED BY <1>2, <1>10, <3>1, <3>2
    <2>3. ASSUME NEW e \in Cores, NEW j \in ToSet(micro'[e])
          PROVE  j \in Calls /\ j \notin Roots /\ Caller(j) = e /\ (js[j] = "replied" \/ j = k)
                 /\ j \notin returned'
        <3>1. j \in ToSet(micro[e]) \/ (j = k /\ e = c /\ k \notin Roots)
            BY <1>9
        <3>2. j \in ToSet(micro[e]) => j # k
            BY DEF Delivery
        <3>3. j \in ToSet(micro[e]) => /\ j \in Calls /\ j \notin Roots /\ Caller(j) = e
                                      /\ js[j] = "replied" /\ j \notin returned
            BY Domains DEF MicroInv
        <3> QED BY <1>10, <3>1, <3>2, <3>3
    <2> QED BY <1>2, <1>4, <2>1, <2>2, <2>3 DEF MicroInv, TypeOK
<1>15. StateInv'
    <2>1. ASSUME NEW e \in Cores, NEW j \in Calls
          PROVE  req_map'[e][j] = ExpectedState(e, j)'
        <3>1. ExpectedState(e, j)' =
                 IF j = k THEN NoState ELSE ExpectedState(e, j)
            BY <1>2, <1>4, <1>6, <1>7 DEF ExpectedState
        <3>2. e # c => ExpectedState(e, k) = NoState
            BY <1>10 DEF ExpectedState
        <3> QED BY <1>2, <3>1, <3>2 DEF StateInv, TypeOK
    <2>2. ASSUME NEW e \in Cores
          PROVE  callbacks'[e] = {j \in Calls \ Roots : Pending(j)' /\ Caller(j)' = e}
        BY <1>4, <1>7, <1>10 DEF StateInv, Delivery, TypeOK
    <2> QED BY <2>1, <2>2 DEF StateInv
<1>16. QueueInv'
    BY <1>1, <1>2, <1>4, <1>8, Domains DEF QueueInv, Delivery, TypeOK
<1>17. CurrReqExact'
    <2> SUFFICES ASSUME NEW e \in Cores
                 PROVE  curr_req'[e] = {j \in Calls : OnShard(j)' /\ at'[j] = e /\ ~Fused(j)}
        BY DEF CurrReqExact
    <2>1. curr_req[e] = {j \in Calls : OnShard(j) /\ at[j] = e /\ ~Fused(j)}
        BY DEF CurrReqExact
    <2>2. curr_req'[e] = curr_req[e] \ {k}
        BY <1>2, <1>10, <2>1 DEF TypeOK
    <2> QED BY <1>2, <1>6, <2>1, <2>2
<1>18. FusedInv'
    <2>1. ASSUME NEW e \in Cores
          PROVE  curr_wf'[e] = {r \in FusedReqs : OnShard(r)' /\ at'[r] = e}
        <3>1. curr_wf[e] = {r \in FusedReqs : OnShard(r) /\ at[r] = e}
            BY DEF FusedInv
        <3>2. curr_wf'[e] = curr_wf[e] \ {k}
            BY <1>10, <3>1 DEF Delivery, TypeOK
        <3> QED BY <1>2, <1>6, <3>1, <3>2, Domains
    <2>2. ASSUME NEW j \in Calls, Fused(j), OnShard(j)'
          PROVE  OnShard(Req[j])' /\ at'[j] = at'[Req[j]]
        <3>1. OnShard(j) /\ j # k /\ OnShard(Req[j]) /\ at[j] = at[Req[j]]
            BY <1>6, <2>2 DEF FusedInv
        <3>2. Req[j] # k
            <4> SUFFICES ASSUME Req[j] = k PROVE FALSE
                OBVIOUS
            <4>1. k \in FusedReqs /\ OnShard(k)
                BY <2>2, <3>1 DEF Fused
            <4>2. Awaited(k) \cap issued \subseteq returned
                BY <4>1 DEF Delivery, OnShard
            <4> QED BY <3>1, <4>1, <4>2, FusedTreeDone
        <3> QED BY <1>2, <1>6, <3>1, <3>2, Domains
    <2> QED BY <2>1, <2>2 DEF FusedInv
<1> QED BY <1>3, <1>11, <1>12, <1>13, <1>14, <1>15, <1>16, <1>17, <1>18

(* A call on the stack of a shard has its reply state there.               *)
LEMMA OnStack ==
    ASSUME IInv, NEW c \in Cores, cur[c] # NoCall
    PROVE  LET k == cur[c] IN
           /\ k \in Calls /\ k \in issued /\ at[k] = c /\ js[k] = "running" /\ OnShard(k)
           /\ k \notin returned /\ ~InFlight(k) /\ ~Replying(k) /\ Pending(k)
           /\ \A e \in Cores : k \notin ToSet(micro[e]) \cup task_map[e] \cup ready[e]
           /\ req_map[c][k] = IF k \in Roots /\ Caller(k) = c THEN Local ELSE Caller(k)
           /\ Caller(k) \in Cores
<1> USE DEF IInv
<1> DEFINE k == cur[c]
<1>1. k \in Calls /\ k \in issued /\ at[k] = c /\ js[k] = "running" /\ k \notin returned
    BY DEF TypeOK, TaskInv, TreeInv
<1>2. ~InFlight(k) /\ ~Replying(k)
    BY <1>1 DEF MsgInv, InFlight, Replying
<1>3. OnShard(k) /\ Pending(k)
    BY <1>1, <1>2 DEF OnShard, Pending
<1>4. \A e \in Cores : k \notin ToSet(micro[e]) \cup task_map[e] \cup ready[e]
    BY <1>1 DEF TaskInv, MicroInv
<1>5. Caller(k) \in Cores
    BY <1>1, Domains DEF Caller, TreeInv
<1>6. req_map[c][k] = ExpectedState(c, k)
    BY <1>1 DEF StateInv
<1> QED BY <1>1, <1>2, <1>3, <1>4, <1>5, <1>6 DEF ExpectedState

(* The function on the stack replies to a caller on another shard.         *)
LEMMA ForwardInv ==
    ASSUME IInv, NEW c \in Cores, NEW k, k = cur[c], k # NoCall,
           Awaited(k) \cap issued \subseteq returned,
           js' = [js EXCEPT ![k] = "replied"],
           cur' = [cur EXCEPT ![c] = NoCall],
           Forward(c, k),
           UNCHANGED <<owed, issued, at>>
    PROVE  IInv'
<1> USE DEF IInv
<1>1. /\ k \in Calls /\ k \in issued /\ at[k] = c /\ js[k] = "running" /\ OnShard(k)
      /\ k \notin returned /\ ~InFlight(k) /\ ~Replying(k) /\ Pending(k)
      /\ \A e \in Cores : k \notin ToSet(micro[e]) \cup task_map[e] \cup ready[e]
      /\ req_map[c][k] = Caller(k) /\ Caller(k) \in Cores \ {c}
    BY OnStack, ReplyStateAssumption DEF Forward
<1> DEFINE h == Caller(k)
           msg == Msg("reply", k, c, h)
           qc == RemoveFirst(q[c], k)
<1>2. /\ req_map' = [req_map EXCEPT ![c][k] = NoState]
      /\ curr_req' = [curr_req EXCEPT ![c] = @ \ {k}]
      /\ curr_wf' = [curr_wf EXCEPT ![c] = IF Fused(k) THEN @ \ {Req[k]} ELSE @]
      /\ q' = [q EXCEPT ![c] = qc]
      /\ net' = net \cup {msg}
      /\ UNCHANGED <<callbacks, task_map, ready, micro, returned>>
    BY <1>1 DEF Forward, LeaveCore
<1>3. qc \in Seq(Calls) /\ IsInjective(qc) /\ ToSet(qc) = ToSet(q[c]) \ {k}
    BY RemoveFirstFacts DEF TypeOK, QueueInv
<1>4. /\ msg \in Messages /\ msg.type = "reply" /\ msg.call = k
      /\ msg.from = c /\ msg.to = h
    BY <1>1 DEF Msg, Messages
<1> HIDE DEF msg, qc
<1>5. \A e \in Cores : ToSet(q[e])' = IF e = c THEN ToSet(q[c]) \ {k} ELSE ToSet(q[e])
    BY <1>2, <1>3 DEF TypeOK
<1>6. TypeOK'
    BY <1>1, <1>2, <1>3, <1>4 DEF TypeOK, ReplyStates
<1>7. \A j \in Calls : /\ InFlight(j)' <=> InFlight(j)
                       /\ Caller(j)' = Caller(j)
    BY <1>2, <1>4 DEF InFlight, Caller
<1>8. \A j \in Calls : Replying(j)' <=> Replying(j) \/ j = k
    BY <1>2, <1>4 DEF Replying
<1>9. \A j \in Calls : OnShard(j)' <=> OnShard(j) /\ j # k
    BY <1>1, <1>7 DEF OnShard, TypeOK
<1>10. \A j \in Calls : Pending(j)' <=> Pending(j)
    BY <1>1, <1>8 DEF Pending, TypeOK
<1>11. MsgInv'
    <2> SUFFICES ASSUME NEW m \in net'
                 PROVE  MsgInv!(m)'
        BY DEF MsgInv
    <2>1. CASE m = msg
        BY <1>1, <1>2, <1>4, <1>7, <2>1 DEF TypeOK
    <2>2. CASE m \in net
        <3>1. m.call \in Calls /\ m.to \in Cores
            BY <2>2 DEF TypeOK, Messages
        <3>2. m.type \in {"run_func", "reply"} => m.call # k
            BY <1>1, <2>2 DEF InFlight, Replying
        <3> QED BY <1>2, <1>5, <1>7, <2>2, <3>1, <3>2 DEF MsgInv, TypeOK
    <2> QED BY <1>2, <2>1, <2>2
<1>12. TreeInv'
    BY <1>1, <1>2 DEF TreeInv, TypeOK, Awaited, Children
<1>13. TaskInv'
    BY <1>1, <1>2, <1>7, Domains DEF TaskInv, TypeOK
<1>14. MicroInv'
    BY <1>1, <1>2, <1>7, Domains DEF MicroInv, TypeOK
<1>15. StateInv'
    <2>1. ASSUME NEW e \in Cores, NEW j \in Calls
          PROVE  req_map'[e][j] = ExpectedState(e, j)'
        <3>1. ExpectedState(e, j)' =
                 IF e = c /\ j = k THEN NoState ELSE ExpectedState(e, j)
            BY <1>1, <1>7, <1>9, <1>10 DEF ExpectedState
        <3> QED BY <1>2, <3>1 DEF StateInv, TypeOK
    <2>2. ASSUME NEW e \in Cores
          PROVE  callbacks'[e] = {j \in Calls \ Roots : Pending(j)' /\ Caller(j)' = e}
        BY <1>2, <1>7, <1>10 DEF StateInv
    <2> QED BY <2>1, <2>2 DEF StateInv
<1>16. QueueInv'
    <2>1. \A e \in Cores : IsInjective(q[e])'
        BY <1>2, <1>3 DEF QueueInv, TypeOK
    <2> QED BY <1>1, <1>2, <1>5, <1>7, <2>1, Domains DEF QueueInv, TypeOK
<1>17. CurrReqExact'
    <2> SUFFICES ASSUME NEW e \in Cores
                 PROVE  curr_req'[e] = {j \in Calls : OnShard(j)' /\ at'[j] = e /\ ~Fused(j)}
        BY DEF CurrReqExact
    <2>1. curr_req[e] = {j \in Calls : OnShard(j) /\ at[j] = e /\ ~Fused(j)}
        BY DEF CurrReqExact
    <2>2. curr_req'[e] = curr_req[e] \ {k}
        BY <1>1, <1>2, <2>1 DEF TypeOK
    <2> QED BY <1>9, <2>1, <2>2
<1>18. FusedInv'
    <2>1. Fused(k) => k \in Roots /\ Req[k] = k
        <3> SUFFICES ASSUME Fused(k), k \notin Roots PROVE FALSE
            BY <1>1, Domains
        <3>1. k \notin Detached /\ Parent[k] \in Calls /\ Req[Parent[k]] = Req[k]
            BY <1>1, Domains, FusedAssumption DEF Fused
        <3>2. js[Parent[k]] = "running"
            BY <1>1, <3>1 DEF TreeInv
        <3>3. OnShard(Parent[k])
            BY <3>1, <3>2 DEF OnShard, InFlight, TreeInv, MsgInv
        <3>4. at[Parent[k]] = at[k]
            BY <1>1, <3>1, <3>3 DEF FusedInv, Fused
        <3> QED BY <1>1, <3>4 DEF Caller
    <2>2. ASSUME NEW e \in Cores
          PROVE  curr_wf'[e] = {r \in FusedReqs : OnShard(r)' /\ at'[r] = e}
        <3>1. curr_wf[e] = {r \in FusedReqs : OnShard(r) /\ at[r] = e}
            BY DEF FusedInv
        <3>2. curr_wf'[e] = curr_wf[e] \ {k}
            <4>1. ~Fused(k) => k \notin FusedReqs
                BY FusedAssumption, Domains DEF Fused
            <4>2. curr_wf' = [curr_wf EXCEPT ![c] = IF Fused(k) THEN @ \ {k} ELSE @]
                BY <1>2, <2>1
            <4>3. e # c \/ ~Fused(k) => k \notin curr_wf[e]
                BY <1>1, <3>1, <4>1
            <4>4. curr_wf \in [Cores -> SUBSET Calls]
                BY DEF TypeOK
            <4> QED BY <4>2, <4>3, <4>4
        <3> QED BY <1>9, <3>1, <3>2, Domains
    <2>3. ASSUME NEW j \in Calls, Fused(j), OnShard(j)'
          PROVE  OnShard(Req[j])' /\ at'[j] = at'[Req[j]]
        <3>1. OnShard(j) /\ j # k /\ OnShard(Req[j]) /\ at[j] = at[Req[j]]
            BY <1>9, <2>3 DEF FusedInv
        <3>2. Req[j] # k
            BY <3>1, <2>3, FusedTreeDone DEF Fused
        <3> QED BY <1>9, <3>1, <3>2, Domains
    <2> QED BY <2>2, <2>3 DEF FusedInv
<1> QED BY <1>6, <1>11, <1>12, <1>13, <1>14, <1>15, <1>16, <1>17, <1>18


(* The `Reply' binding.                                                    *)
LEMMA JsReplyInv ==
    ASSUME IInv, NEW c \in Cores, JsReply(c)
    PROVE  IInv'
<1> DEFINE k == cur[c]
<1>1. /\ k # NoCall /\ Awaited(k) \cap issued \subseteq returned
      /\ js' = [js EXCEPT ![k] = "replied"]
      /\ cur' = [cur EXCEPT ![c] = NoCall]
      /\ UNCHANGED <<owed, issued, at>>
    BY DEF JsReply, MayReply
<1>2. /\ k \in Calls /\ k \in issued /\ at[k] = c /\ js[k] = "running" /\ OnShard(k)
      /\ k \notin returned /\ ~InFlight(k) /\ ~Replying(k) /\ Pending(k)
      /\ \A e \in Cores : k \notin ToSet(micro[e]) \cup task_map[e] \cup ready[e]
      /\ req_map[c][k] = IF k \in Roots /\ Caller(k) = c THEN Local ELSE Caller(k)
      /\ Caller(k) \in Cores
    BY <1>1, OnStack
<1>3. CASE Forward(c, k)
    BY <1>1, <1>3, ForwardInv
<1> DEFINE rq == RemoveFirst(q[c], k)
           go == Handed(rq, task_map[c], curr_wf'[c])
           rest == StillQueued(rq, task_map[c], curr_wf'[c])
<1>4. /\ rq \in Seq(Calls) /\ IsInjective(rq) /\ ToSet(rq) = ToSet(q[c]) \ {k}
      /\ task_map[c] \in SUBSET ToSet(rq)
    <2>1. q[c] \in Seq(Calls) /\ IsInjective(q[c]) /\ task_map[c] \subseteq ToSet(q[c])
        BY DEF IInv, TypeOK, QueueInv
    <2>2. rq \in Seq(Calls) /\ IsInjective(rq) /\ ToSet(rq) = ToSet(q[c]) \ {k}
        BY <2>1, RemoveFirstFacts
    <2> QED BY <1>2, <2>1, <2>2
<1>5. /\ go \subseteq task_map[c] /\ (go # {} => curr_wf'[c] = {})
      /\ rest \in Seq(Calls) /\ IsInjective(rest) /\ ToSet(rest) = ToSet(rq) \ go
    <2> HIDE DEF rq
    <2> QED BY <1>4, DispatchFacts
<1>6. ASSUME \/ AnswerClient(c, k) /\ net' = net
             \/ /\ Callback(c, k) /\ net' = net
                /\ Dispatch(c, RemoveFirst(q[c], k), task_map[c], curr_wf[c], ready[c])
      PROVE  IInv'
    <2>1. /\ ready' = [ready EXCEPT ![c] = @ \cup go]
          /\ task_map' = [task_map EXCEPT ![c] = @ \ go]
          /\ q' = [q EXCEPT ![c] = rest]
        BY <1>6 DEF AnswerClient, Callback, Dispatch
    <2> HIDE DEF rq, go, rest, k
    <2>2. /\ q' \in [Cores -> Seq(Calls)]
          /\ \A e \in Cores : IsInjective(q'[e])
          /\ \A e \in Cores :
                ToSet(q'[e]) = IF e = c THEN ToSet(q[c]) \ ({k} \cup go) ELSE ToSet(q[e])
        <3>1. q \in [Cores -> Seq(Calls)] /\ \A e \in Cores : IsInjective(q[e])
            BY DEF IInv, TypeOK, QueueInv
        <3>2. \A e \in Cores : q'[e] = IF e = c THEN rest ELSE q[e]
            BY <2>1, <3>1
        <3>3. ToSet(rest) = ToSet(q[c]) \ ({k} \cup go)
            BY <1>4, <1>5
        <3>4. q' \in [Cores -> Seq(Calls)]
            BY <1>5, <2>1, <3>1
        <3> QED BY <1>5, <3>1, <3>2, <3>3, <3>4
    <2>3. /\ callbacks' = [callbacks EXCEPT ![c] = @ \ {k}]
          /\ curr_wf' = [curr_wf EXCEPT ![c] = @ \ {k}]
          /\ \/ k \in Roots /\ returned' = returned \cup {k} /\ micro' = micro
             \/ /\ k \notin Roots /\ returned' = returned
                /\ micro' = [micro EXCEPT ![c] = Append(@, k)]
          /\ LeaveCore(c, k) /\ net' = net /\ Caller(k) = c
        <3>1. callbacks[c] = {j \in Calls \ Roots : Pending(j) /\ Caller(j) = c}
              /\ \A e \in Cores : curr_wf[e] \subseteq Roots
            BY FusedAssumption DEF IInv, StateInv, FusedInv
        <3>2. CASE AnswerClient(c, k) /\ net' = net
            <4>1. k \in Roots /\ Caller(k) = c /\ Req[k] = k
                BY <1>2, <3>2, Domains, ReplyStateAssumption DEF AnswerClient, IInv
            <4> QED BY <3>1, <3>2, <4>1 DEF AnswerClient, IInv, TypeOK
        <3>3. CASE Callback(c, k) /\ net' = net
            <4>1. k \notin Roots /\ Caller(k) = c
                BY <1>2, <3>3, ReplyStateAssumption DEF Callback
            <4> QED BY <3>1, <3>3, <4>1 DEF Callback, IInv, TypeOK
        <3> QED BY <1>6, <3>2, <3>3
    <2>4. \A e \in Cores : cur'[e] = NoCall \/ (cur'[e] = cur[e] /\ cur[e] # k)
        BY <1>1, <1>2 DEF IInv, TypeOK, TaskInv
    <2>5. Delivery(c, k)
        BY <1>1, <1>2, <1>5, <2>1, <2>2, <2>3, <2>4
           DEF Delivery, IInv, TypeOK, Replying
    <2> QED BY <1>2, <2>5, DeliveryInv
<1> QED BY <1>3, <1>6 DEF JsReply


(* A function throws: run_func replies "error\n" for it.                   *)
LEMMA ThrowInv ==
    ASSUME IInv, NEW c \in Cores, Throw(c)
    PROVE  IInv'
<1> DEFINE k == cur[c]
<1>1. /\ k # NoCall /\ k \in Failing
      /\ js' = [js EXCEPT ![k] = "replied"]
      /\ cur' = [cur EXCEPT ![c] = NoCall]
      /\ UNCHANGED <<issued, at>>
    BY DEF Throw
<1>2. /\ k \in Calls /\ k \in issued /\ at[k] = c /\ js[k] = "running" /\ OnShard(k)
      /\ k \notin returned /\ ~InFlight(k) /\ ~Replying(k) /\ Pending(k)
      /\ \A e \in Cores : k \notin ToSet(micro[e]) \cup task_map[e] \cup ready[e]
      /\ req_map[c][k] = IF k \in Roots /\ Caller(k) = c THEN Local ELSE Caller(k)
      /\ Caller(k) \in Cores
    BY <1>1, OnStack
<1>3. Awaited(k) = {} /\ k \notin Roots
    BY <1>1, FailingAssumption DEF Awaited, Children
<1>4. CASE Forward(c, k) /\ owed' = owed
    BY <1>1, <1>3, <1>4, ForwardInv
<1>5. ASSUME Callback(c, k), net' = net, owed' = [owed EXCEPT ![c] = k],
             q' = [q EXCEPT ![c] = RemoveFirst(@, k)], UNCHANGED <<task_map, ready>>
      PROVE  IInv'
    <2> DEFINE rq == RemoveFirst(q[c], k)
    <2>1. q[c] \in Seq(Calls) /\ IsInjective(q[c]) /\ q \in [Cores -> Seq(Calls)]
          /\ \A e \in Cores : IsInjective(q[e])
        BY DEF IInv, TypeOK, QueueInv
    <2>2. rq \in Seq(Calls) /\ IsInjective(rq) /\ ToSet(rq) = ToSet(q[c]) \ {k}
        BY <2>1, RemoveFirstFacts
    <2>3. q' = [q EXCEPT ![c] = rq]
        BY <1>5
    <2> HIDE DEF rq, k
    <2>4. /\ q' \in [Cores -> Seq(Calls)]
          /\ \A e \in Cores : IsInjective(q'[e])
          /\ \A e \in Cores :
                ToSet(q'[e]) = IF e = c THEN ToSet(q[c]) \ {k} ELSE ToSet(q[e])
        BY <2>1, <2>2, <2>3
    <2>5. /\ callbacks' = [callbacks EXCEPT ![c] = @ \ {k}]
          /\ curr_wf' = [curr_wf EXCEPT ![c] = @ \ {k}]
          /\ returned' = returned /\ micro' = [micro EXCEPT ![c] = Append(@, k)]
          /\ LeaveCore(c, k) /\ Caller(k) = c
        <3>1. \A e \in Cores : curr_wf[e] \subseteq Roots
            BY FusedAssumption DEF IInv, FusedInv
        <3> QED BY <1>2, <1>3, <1>5, <3>1 DEF Callback, IInv, TypeOK
    <2>6. \A e \in Cores : cur'[e] = NoCall \/ (cur'[e] = cur[e] /\ cur[e] # k)
        BY <1>1, <1>2 DEF IInv, TypeOK, TaskInv
    <2>7. \E go \in SUBSET task_map[c] :
              /\ go # {} => curr_wf'[c] = {}
              /\ ready' = [ready EXCEPT ![c] = @ \cup go]
              /\ task_map' = [task_map EXCEPT ![c] = @ \ go]
              /\ \A e \in Cores :
                    ToSet(q'[e]) = IF e = c THEN ToSet(q[c]) \ ({k} \cup go) ELSE ToSet(q[e])
        <3>1. /\ ready' = [ready EXCEPT ![c] = @ \cup {}]
              /\ task_map' = [task_map EXCEPT ![c] = @ \ {}]
            BY <1>5 DEF IInv, TypeOK
        <3>2. \A e \in Cores :
                 ToSet(q'[e]) = IF e = c THEN ToSet(q[c]) \ ({k} \cup {}) ELSE ToSet(q[e])
            BY <2>4
        <3> WITNESS {} \in SUBSET task_map[c]
        <3> QED BY <3>1, <3>2
    <2>8. Delivery(c, k)
        BY <1>1, <1>2, <1>3, <1>5, <2>4, <2>5, <2>6, <2>7
           DEF Delivery, IInv, TypeOK, Replying
    <2> QED BY <1>2, <2>8, DeliveryInv
<1> QED BY <1>4, <1>5 DEF Throw

(* A reply message is delivered.                                           *)
LEMMA RecvReplyInv ==
    ASSUME IInv, NEW c \in Cores, NEW m \in net, RecvReply(c, m)
    PROVE  IInv'
<1> DEFINE k == m.call
<1>1. /\ m.type = "reply" /\ m.to = c /\ k \in Calls /\ m.from \in Cores /\ m \in Messages
      /\ UNCHANGED <<js, cur, issued, at>>
    BY DEF RecvReply, IInv, TypeOK, Messages
<1>2. /\ js[k] = "replied" /\ k \notin returned /\ k \in issued
      /\ c = Caller(k) /\ m.from = at[k] /\ m.from # c
      /\ \A e \in Cores : k \notin ToSet(micro[e]) \cup task_map[e] \cup ready[e]
    BY <1>1 DEF IInv, MsgInv, TreeInv, TaskInv
<1>3. ~InFlight(k) /\ Replying(k) /\ ~OnShard(k) /\ Pending(k)
    BY <1>1, <1>2 DEF IInv, MsgInv, InFlight, Replying, OnShard, Pending
<1>4. req_map[c][k] = IF k \in Roots THEN Local ELSE c
    BY <1>1, <1>2, <1>3 DEF IInv, StateInv, ExpectedState
<1>5. \A n \in net : n.type = "reply" /\ n.call = k => n = m
    <2>1. \A n \in Messages : n = [type |-> n.type, call |-> n.call, to |-> n.to, from |-> n.from]
        BY DEF Messages
    <2>2. \A n \in net : n.type = "reply" /\ n.call = k => n.to = m.to /\ n.from = m.from
        BY <1>1, <1>2 DEF IInv, MsgInv
    <2> QED BY <1>1, <2>1, <2>2 DEF IInv, TypeOK
<1> DEFINE rq == RemoveFirst(q[c], k)
<1>6. q[c] \in Seq(Calls) /\ IsInjective(q[c]) /\ q \in [Cores -> Seq(Calls)]
      /\ (\A e \in Cores : IsInjective(q[e])) /\ task_map[c] \subseteq ToSet(q[c])
    BY DEF IInv, TypeOK, QueueInv
<1>7. rq \in Seq(Calls) /\ IsInjective(rq) /\ ToSet(rq) = ToSet(q[c]) \ {k}
    BY <1>6, RemoveFirstFacts
<1>8. \A e \in Cores : cur'[e] = NoCall \/ (cur'[e] = cur[e] /\ cur[e] # k)
    BY <1>1, <1>2 DEF IInv, TypeOK, TaskInv
<1>9. js' = [js EXCEPT ![k] = "replied"]
    BY <1>1, <1>2 DEF IInv, TypeOK
<1>10. CASE AnswerClient(c, k) /\ net' = (net \ {m}) \cup {Msg("ack", k, c, m.from)} /\ owed' = owed
    <2> DEFINE go == Handed(rq, task_map[c], curr_wf'[c])
               rest == StillQueued(rq, task_map[c], curr_wf'[c])
    <2>1. /\ go \subseteq task_map[c] /\ (go # {} => curr_wf'[c] = {})
          /\ rest \in Seq(Calls) /\ IsInjective(rest) /\ ToSet(rest) = ToSet(rq) \ go
        <3>1. task_map[c] \in SUBSET ToSet(rq)
            BY <1>2, <1>6, <1>7
        <3> HIDE DEF rq
        <3> QED BY <1>7, <3>1, DispatchFacts
    <2>2. /\ ready' = [ready EXCEPT ![c] = @ \cup go]
          /\ task_map' = [task_map EXCEPT ![c] = @ \ go]
          /\ q' = [q EXCEPT ![c] = rest]
        BY <1>10 DEF AnswerClient, Dispatch
    <2> HIDE DEF rq, go, rest
    <2>3. /\ q' \in [Cores -> Seq(Calls)]
          /\ \A e \in Cores : IsInjective(q'[e])
          /\ \A e \in Cores :
                ToSet(q'[e]) = IF e = c THEN ToSet(q[c]) \ ({k} \cup go) ELSE ToSet(q[e])
        <3>1. \A e \in Cores : q'[e] = IF e = c THEN rest ELSE q[e]
            BY <1>6, <2>2
        <3>2. ToSet(rest) = ToSet(q[c]) \ ({k} \cup go)
            BY <1>7, <2>1
        <3>3. q' \in [Cores -> Seq(Calls)]
            BY <1>6, <2>1, <2>2
        <3> QED BY <1>6, <2>1, <3>1, <3>2, <3>3
    <2>4. k \in Roots /\ Req[k] = k
        BY <1>1, <1>4, <1>10, Domains, ReplyStateAssumption DEF AnswerClient, IInv
    <2>5. /\ callbacks' = [callbacks EXCEPT ![c] = @ \ {k}]
          /\ curr_wf' = [curr_wf EXCEPT ![c] = @ \ {k}]
          /\ returned' = returned \cup {k} /\ micro' = micro
          /\ LeaveCore(c, k)
        <3>1. callbacks[c] = {j \in Calls \ Roots : Pending(j) /\ Caller(j) = c}
            BY DEF IInv, StateInv
        <3> QED BY <1>10, <2>4, <3>1 DEF AnswerClient, IInv, TypeOK
    <2>6. /\ net' \subseteq Messages
          /\ \A n \in net' : n \in net \/ n.type = "ack"
          /\ \A n \in net : n.type = "run_func" \/ (n.type = "reply" /\ n.call # k) => n \in net'
          /\ \A n \in net' : n.type = "reply" => n.call # k
        BY <1>1, <1>5, <1>10 DEF Msg, Messages, IInv, TypeOK
    <2>7. /\ cur' \in [Cores -> Calls \cup {NoCall}]
          /\ owed' \in [Cores -> Calls \cup {NoCall}]
          /\ \A e \in Cores : owed'[e] \in {owed[e], k}
        BY <1>1, <1>10 DEF IInv, TypeOK
    <2>8. \E handed \in SUBSET task_map[c] :
              /\ handed # {} => curr_wf'[c] = {}
              /\ ready' = [ready EXCEPT ![c] = @ \cup handed]
              /\ task_map' = [task_map EXCEPT ![c] = @ \ handed]
              /\ \A e \in Cores :
                    ToSet(q'[e]) = IF e = c THEN ToSet(q[c]) \ ({k} \cup handed) ELSE ToSet(q[e])
        BY <2>1, <2>2, <2>3
    <2>9. Delivery(c, k)
        BY <1>1, <1>2, <1>3, <1>8, <1>9, <2>3, <2>4, <2>5, <2>6, <2>7, <2>8 DEF Delivery
    <2> QED BY <1>1, <2>9, DeliveryInv
<1>11. ASSUME Callback(c, k), net' = net \ {m}, owed' = [owed EXCEPT ![c] = k],
              q' = [q EXCEPT ![c] = RemoveFirst(@, k)], UNCHANGED <<task_map, ready>>
       PROVE  IInv'
    <2>1. q' = [q EXCEPT ![c] = rq]
        BY <1>11
    <2> HIDE DEF rq
    <2>2. /\ q' \in [Cores -> Seq(Calls)]
          /\ \A e \in Cores : IsInjective(q'[e])
          /\ \A e \in Cores :
                ToSet(q'[e]) = IF e = c THEN ToSet(q[c]) \ {k} ELSE ToSet(q[e])
        BY <1>6, <1>7, <2>1
    <2>3. k \notin Roots
        BY <1>4, <1>11, ReplyStateAssumption DEF Callback
    <2>4. /\ callbacks' = [callbacks EXCEPT ![c] = @ \ {k}]
          /\ curr_wf' = [curr_wf EXCEPT ![c] = @ \ {k}]
          /\ returned' = returned /\ micro' = [micro EXCEPT ![c] = Append(@, k)]
          /\ LeaveCore(c, k)
        <3>1. \A e \in Cores : curr_wf[e] \subseteq Roots
            BY FusedAssumption DEF IInv, FusedInv
        <3> QED BY <1>11, <2>3, <3>1 DEF Callback, IInv, TypeOK
    <2>5. \E go \in SUBSET task_map[c] :
              /\ go # {} => curr_wf'[c] = {}
              /\ ready' = [ready EXCEPT ![c] = @ \cup go]
              /\ task_map' = [task_map EXCEPT ![c] = @ \ go]
              /\ \A e \in Cores :
                    ToSet(q'[e]) = IF e = c THEN ToSet(q[c]) \ ({k} \cup go) ELSE ToSet(q[e])
        <3>1. /\ ready' = [ready EXCEPT ![c] = @ \cup {}]
              /\ task_map' = [task_map EXCEPT ![c] = @ \ {}]
            BY <1>11 DEF IInv, TypeOK
        <3>2. \A e \in Cores :
                 ToSet(q'[e]) = IF e = c THEN ToSet(q[c]) \ ({k} \cup {}) ELSE ToSet(q[e])
            BY <2>2
        <3> WITNESS {} \in SUBSET task_map[c]
        <3> QED BY <3>1, <3>2
    <2>6. /\ net' \subseteq Messages
          /\ \A n \in net' : n \in net \/ n.type = "ack"
          /\ \A n \in net : n.type = "run_func" \/ (n.type = "reply" /\ n.call # k) => n \in net'
          /\ \A n \in net' : n.type = "reply" => n.call # k
        BY <1>1, <1>5, <1>11 DEF IInv, TypeOK
    <2>7. Delivery(c, k)
        <3>1. /\ owed' \in [Cores -> Calls \cup {NoCall}]
              /\ \A e \in Cores : owed'[e] \in {owed[e], k}
              /\ cur' \in [Cores -> Calls \cup {NoCall}]
            BY <1>1, <1>11 DEF IInv, TypeOK
        <3> HIDE DEF k
        <3> QED BY <1>1, <1>2, <1>3, <1>8, <1>9, <2>2, <2>3, <2>4, <2>5, <2>6, <3>1
                DEF Delivery
    <2> QED BY <1>1, <2>7, DeliveryInv
<1> QED BY <1>10, <1>11 DEF RecvReply


(* run_func() and its dispatch() for call k: what they do to the tables.   *)
RunFuncEffect(c, k) ==
    /\ curr_wf' = [curr_wf EXCEPT ![c] = IF Fused(k) THEN @ \cup {Req[k]} ELSE @]
    /\ curr_req' = [curr_req EXCEPT ![c] = IF Fused(k) THEN @ ELSE @ \cup {k}]
    /\ q' \in [Cores -> Seq(Calls)]
    /\ \A e \in Cores : IsInjective(q'[e])
    /\ \E go \in SUBSET (task_map[c] \cup IF Fused(k) THEN {} ELSE {k}) :
          /\ go # {} => curr_wf'[c] = {}
          /\ ready' = [ready EXCEPT ![c] = @ \cup (IF Fused(k) THEN {k} ELSE {}) \cup go]
          /\ task_map' = [task_map EXCEPT ![c] = (@ \cup IF Fused(k) THEN {} ELSE {k}) \ go]
          /\ \A e \in Cores :
                ToSet(q'[e]) = IF e = c
                               THEN (ToSet(q[c]) \cup
                                        IF Fused(k) /\ k \notin Roots THEN {} ELSE {k}) \ go
                               ELSE ToSet(q[e])

(* What the two ways for a call to reach its shard have in common: a       *)
(* run_func message, and schedule() choosing the shard it runs on.         *)
Arrival(c, k) ==
    /\ js[k] = "idle" /\ ~OnShard(k) /\ k \notin returned
    /\ \A e \in Cores : k \notin task_map[e] \cup ready[e]
    /\ \/ /\ k \in issued /\ at[k] = c /\ at' = at /\ callbacks' = callbacks
          /\ k \in ToSet(q[c]) /\ (Fused(k) => k \in Roots)
       \/ /\ k \notin issued /\ at' = [at EXCEPT ![k] = c] /\ Caller(k) = c
          /\ callbacks' = [callbacks EXCEPT ![c] = IF k \in Roots THEN @ ELSE @ \cup {k}]
          /\ k \notin Roots => js[Parent[k]] = "running"
    /\ Caller(k) \in Cores
    /\ Fused(k) /\ k \notin Roots => OnShard(Req[k]) /\ at[Req[k]] = c
    /\ issued' = issued \cup {k}
    /\ net' \subseteq net
    /\ \A m \in net : m \in net' \/ (m.type = "run_func" /\ m.call = k)
    /\ ~InFlight(k)'
    /\ req_map' = [req_map EXCEPT ![c][k] =
                      IF k \in Roots /\ Caller(k) = c THEN Local ELSE Caller(k)]
    /\ UNCHANGED <<js, cur, micro, owed, returned>>
    /\ RunFuncEffect(c, k)

(* IInv across an arrival, whichever of the two ways it takes. *)
LEMMA ArrivalInv ==
    ASSUME IInv, NEW c \in Cores, NEW k \in Calls, Arrival(c, k)
    PROVE  IInv'
<1> USE DEF IInv
<1>1. PICK go \in SUBSET (task_map[c] \cup IF Fused(k) THEN {} ELSE {k}) :
          /\ ready' = [ready EXCEPT ![c] = @ \cup (IF Fused(k) THEN {k} ELSE {}) \cup go]
          /\ task_map' = [task_map EXCEPT ![c] = (@ \cup IF Fused(k) THEN {} ELSE {k}) \ go]
          /\ \A e \in Cores :
                ToSet(q'[e]) = IF e = c
                               THEN (ToSet(q[c]) \cup
                                        IF Fused(k) /\ k \notin Roots THEN {} ELSE {k}) \ go
                               ELSE ToSet(q[e])
    BY DEF Arrival, RunFuncEffect
<1>2. /\ js[k] = "idle" /\ ~OnShard(k) /\ k \notin returned /\ ~InFlight(k)'
      /\ \A e \in Cores : k \notin task_map[e] \cup ready[e]
      /\ Caller(k) \in Cores
      /\ Fused(k) /\ k \notin Roots => OnShard(Req[k]) /\ at[Req[k]] = c
      /\ issued' = issued \cup {k}
      /\ at' = [at EXCEPT ![k] = c]
      /\ net' \subseteq net
      /\ \A m \in net : m \in net' \/ (m.type = "run_func" /\ m.call = k)
      /\ req_map' = [req_map EXCEPT ![c][k] =
                        IF k \in Roots /\ Caller(k) = c THEN Local ELSE Caller(k)]
      /\ curr_wf' = [curr_wf EXCEPT ![c] = IF Fused(k) THEN @ \cup {Req[k]} ELSE @]
      /\ curr_req' = [curr_req EXCEPT ![c] = IF Fused(k) THEN @ ELSE @ \cup {k}]
      /\ UNCHANGED <<js, cur, micro, owed, returned>>
      /\ q' \in [Cores -> Seq(Calls)] /\ \A e \in Cores : IsInjective(q'[e])
    <2>1. at' = [at EXCEPT ![k] = c]
        BY DEF Arrival, TypeOK
    <2> QED BY <2>1 DEF Arrival, RunFuncEffect
<1>3. /\ k \in issued => at[k] = c /\ callbacks' = callbacks
      /\ k \notin issued => /\ Caller(k) = c
                            /\ callbacks' = [callbacks EXCEPT ![c] = IF k \in Roots THEN @ ELSE @ \cup {k}]
                            /\ k \notin Roots => js[Parent[k]] = "running"
    BY DEF Arrival
<1>4. TypeOK'
    <2>1. callbacks' \in [Cores -> SUBSET Calls]
        <3>1. CASE k \in issued
            BY <1>3, <3>1 DEF TypeOK
        <3>2. CASE k \notin issued
            <4>1. callbacks' = [callbacks EXCEPT ![c] = IF k \in Roots THEN @ ELSE @ \cup {k}]
                BY <1>3, <3>2
            <4>2. callbacks \in [Cores -> SUBSET Calls]
                BY DEF TypeOK
            <4> QED BY <4>1, <4>2
        <3> QED BY <3>1, <3>2
    <2>2. task_map' \in [Cores -> SUBSET Calls] /\ ready' \in [Cores -> SUBSET Calls]
        <3>1. go \subseteq Calls
            BY DEF TypeOK
        <3>2. task_map \in [Cores -> SUBSET Calls] /\ ready \in [Cores -> SUBSET Calls]
            BY DEF TypeOK
        <3> QED BY <1>1, <3>1, <3>2
    <2>3. req_map' \in [Cores -> [Calls -> ReplyStates]]
        BY <1>2 DEF TypeOK, ReplyStates
    <2>4. curr_wf' \in [Cores -> SUBSET Calls] /\ curr_req' \in [Cores -> SUBSET Calls]
        BY <1>2, Domains DEF TypeOK
    <2> QED BY <1>2, <2>1, <2>2, <2>3, <2>4 DEF TypeOK
<1>5. \A j \in Calls : /\ InFlight(j)' <=> InFlight(j) /\ j # k
                       /\ Replying(j)' <=> Replying(j)
    BY <1>2 DEF InFlight, Replying
<1>6. \A j \in issued : j \in Calls /\ (j \notin Roots => Parent[j] # k)
    BY <1>2, Domains DEF TreeInv, TypeOK
<1>7. \A j \in issued' : Caller(j)' = Caller(j)
    BY <1>2, <1>6, Domains, ParentAssumption DEF Caller, TypeOK
<1>8. \A j \in Calls : OnShard(j)' <=> OnShard(j) \/ j = k
    BY <1>2, <1>5 DEF OnShard
<1>9. \A j \in Calls : Pending(j)' <=> Pending(j) \/ j = k
    BY <1>2, <1>5 DEF Pending
<1>10. \A j \in issued : at'[j] = at[j]
    BY <1>2, <1>3, <1>6 DEF TypeOK
<1>11. \A j \in go : j \in Calls /\ (~InFlight(j) \/ j = k)
    BY DEF TaskInv, TypeOK
<1>12. MsgInv'
    <2> SUFFICES ASSUME NEW m \in net'
                 PROVE  MsgInv!(m)'
        BY DEF MsgInv
    <2>1. m \in net /\ m.call \in Calls /\ m.to \in Cores
        BY <1>2 DEF TypeOK, Messages
    <2>2. CASE m.type = "run_func"
        <3>1. m.call # k /\ m.call \notin go
            BY <1>2, <1>11, <2>1, <2>2 DEF InFlight
        <3>2. m.call \in issued /\ m.to = at[m.call] /\ m.call \in ToSet(q[m.to])
            BY <2>1, <2>2 DEF MsgInv
        <3> QED BY <1>1, <1>2, <1>7, <1>10, <2>1, <2>2, <3>1, <3>2 DEF MsgInv
    <2>3. CASE m.type = "reply"
        <3>1. m.call \in issued
            BY <2>1, <2>3 DEF MsgInv, TreeInv
        <3> QED BY <1>2, <1>7, <1>10, <2>1, <2>3, <3>1 DEF MsgInv
    <2> QED BY <2>1, <2>2, <2>3 DEF TypeOK, Messages
<1>13. TreeInv'
    BY <1>2, <1>3, <1>10 DEF TreeInv, TypeOK
<1>14. TaskInv'
    BY <1>1, <1>2, <1>5, <1>10, Domains DEF TaskInv, TreeInv, TypeOK
<1>15. MicroInv'
    <2>1. \A e \in Cores : \A j \in ToSet(micro[e]) : j \in issued
        BY Domains DEF MicroInv, TreeInv
    <2> QED BY <1>2, <1>7, <2>1 DEF MicroInv
<1>16. StateInv'
    <2>1. ASSUME NEW e \in Cores, NEW j \in Calls
          PROVE  req_map'[e][j] = ExpectedState(e, j)'
        <3>1. CASE j = k /\ e = c
            BY <1>2, <1>7, <1>8, <1>9, <3>1 DEF ExpectedState, TypeOK
        <3>2. CASE j = k /\ e # c
            <4>1. ExpectedState(e, k)' = ExpectedState(e, k)
                BY <1>2, <1>3, <1>7, <1>8, <1>9, <3>2 DEF ExpectedState, Pending, TypeOK
            <4> QED BY <1>2, <3>2, <4>1 DEF StateInv, TypeOK
        <3>3. CASE j # k /\ j \in issued
            BY <1>2, <1>7, <1>8, <1>9, <1>10, <3>3 DEF ExpectedState, StateInv, TypeOK
        <3>4. CASE j # k /\ j \notin issued
            BY <1>2, <3>4 DEF ExpectedState, StateInv, Pending, OnShard, TypeOK
        <3> QED BY <3>1, <3>2, <3>3, <3>4
    <2>2. ASSUME NEW e \in Cores
          PROVE  callbacks'[e] = {j \in Calls \ Roots : Pending(j)' /\ Caller(j)' = e}
        <3>1. callbacks[e] = {j \in Calls \ Roots : Pending(j) /\ Caller(j) = e}
            BY DEF StateInv
        <3>2. \A j \in Calls : Pending(j) => j \in issued
            BY DEF Pending
        <3>3. k \in issued => Pending(k)
            BY <1>2 DEF Pending
        <3>4. callbacks'[e] = IF k \notin issued /\ k \notin Roots /\ e = c
                              THEN callbacks[e] \cup {k} ELSE callbacks[e]
            BY <1>3 DEF TypeOK
        <3> QED BY <1>2, <1>3, <1>7, <1>9, <3>1, <3>2, <3>3, <3>4
    <2> QED BY <2>1, <2>2 DEF StateInv
<1>17. QueueInv'
    <2>1. ASSUME NEW e \in Cores PROVE task_map'[e] \subseteq ToSet(q'[e])
        BY <1>1, <1>2, <1>3 DEF QueueInv, TypeOK
    <2>2. ASSUME NEW e \in Cores, NEW j \in ToSet(q'[e]), j # k
          PROVE  /\ j \in issued' /\ at'[j] = e /\ js'[j] # "replied"
                 /\ j \in task_map'[e] \/ InFlight(j)' \/ j \in FusedReqs
                 /\ Fused(j) => j \in Roots
        <3>1. j \in ToSet(q[e]) /\ (e = c => j \notin go)
            BY <1>1, <2>2
        <3> QED BY <1>1, <1>2, <1>5, <1>10, <2>2, <3>1, Domains DEF QueueInv, TypeOK
    <2>3. ASSUME NEW e \in Cores, k \in ToSet(q'[e])
          PROVE  /\ k \in issued' /\ at'[k] = e /\ js'[k] # "replied"
                 /\ k \in task_map'[e] \/ InFlight(k)' \/ k \in FusedReqs
                 /\ Fused(k) => k \in Roots
        <3>1. Fused(k) /\ k \in Roots => k \in FusedReqs
            BY Domains DEF Fused
        <3>2. k \in ToSet(q[e]) => at[k] = e /\ k \in issued /\ (Fused(k) => k \in Roots)
            BY DEF QueueInv
        <3>3. e = c
            BY <1>1, <1>3, <2>3, <3>2
        <3>4. k \notin go
            BY <1>1, <2>3, <3>3
        <3> QED BY <1>1, <1>2, <2>3, <3>1, <3>2, <3>3, <3>4 DEF TypeOK
    <2> QED BY <1>2, <2>1, <2>2, <2>3 DEF QueueInv
<1>18. CurrReqExact'
    <2> SUFFICES ASSUME NEW e \in Cores
                 PROVE  curr_req'[e] = {j \in Calls : OnShard(j)' /\ at'[j] = e /\ ~Fused(j)}
        BY DEF CurrReqExact
    <2>1. curr_req[e] = {j \in Calls : OnShard(j) /\ at[j] = e /\ ~Fused(j)}
        BY DEF CurrReqExact
    <2>2. \A j \in Calls : OnShard(j) => at'[j] = at[j]
        BY <1>10 DEF OnShard
    <2>3. curr_req'[e] = IF e = c /\ ~Fused(k) THEN curr_req[e] \cup {k} ELSE curr_req[e]
        BY <1>2 DEF TypeOK
    <2>4. at'[k] = c
        BY <1>2 DEF TypeOK
    <2> QED BY <1>2, <1>8, <2>1, <2>2, <2>3, <2>4
<1>19. FusedInv'
    <2>1. \A j \in Calls : OnShard(j) => at'[j] = at[j]
        BY <1>10 DEF OnShard
    <2>2. at'[k] = c
        BY <1>2 DEF TypeOK
    <2>3. ASSUME NEW e \in Cores
          PROVE  curr_wf'[e] = {r \in FusedReqs : OnShard(r)' /\ at'[r] = e}
        <3>1. curr_wf[e] = {r \in FusedReqs : OnShard(r) /\ at[r] = e}
            BY DEF FusedInv
        <3>2. curr_wf'[e] = IF e = c /\ Fused(k) THEN curr_wf[e] \cup {Req[k]} ELSE curr_wf[e]
            BY <1>2 DEF TypeOK
        <3>3. CASE ~Fused(k)
            <4>1. k \notin FusedReqs
                BY <3>3, Domains, FusedAssumption DEF Fused
            <4> QED BY <1>8, <2>1, <3>1, <3>2, <3>3, <4>1, Domains
        <3>4. CASE Fused(k) /\ k \in Roots
            <4>1. k \in FusedReqs /\ Req[k] = k
                BY <3>4, Domains DEF Fused
            <4> QED BY <1>8, <2>1, <2>2, <3>1, <3>2, <3>4, <4>1, Domains
        <3>5. CASE Fused(k) /\ k \notin Roots
            <4>1. k \notin FusedReqs /\ Req[k] \in FusedReqs /\ OnShard(Req[k]) /\ at[Req[k]] = c
                BY <1>2, <3>5, FusedAssumption DEF Fused
            <4> QED BY <1>8, <2>1, <3>1, <3>2, <3>5, <4>1, Domains
        <3> QED BY <3>3, <3>4, <3>5
    <2>4. ASSUME NEW j \in Calls, Fused(j), OnShard(j)'
          PROVE  OnShard(Req[j])' /\ at'[j] = at'[Req[j]]
        <3>1. CASE j # k
            BY <1>8, <2>1, <2>4, <3>1, Domains DEF FusedInv
        <3>2. CASE j = k /\ k \in Roots
            BY <1>8, <2>4, <3>2, Domains
        <3>3. CASE j = k /\ k \notin Roots
            BY <1>2, <1>8, <2>1, <2>2, <2>4, <3>3, Domains
        <3> QED BY <3>1, <3>2, <3>3
    <2> QED BY <2>3, <2>4 DEF FusedInv
<1> QED BY <1>4, <1>12, <1>13, <1>14, <1>15, <1>16, <1>17, <1>18, <1>19


(* schedule() puts a new call on the queue of another shard.               *)
Departure(c, k, d) ==
    /\ k \notin issued /\ Caller(k) = c /\ d # c
    /\ k \notin Roots => js[Parent[k]] = "running"
    /\ Fused(k) => k \in Roots
    /\ at' = [at EXCEPT ![k] = d]
    /\ issued' = issued \cup {k}
    /\ req_map' = [req_map EXCEPT ![c][k] = IF k \in Roots THEN Local ELSE c]
    /\ callbacks' = [callbacks EXCEPT ![c] = IF k \in Roots THEN @ ELSE @ \cup {k}]
    /\ net' = net \cup {Msg("run_func", k, c, d)}
    /\ q' = [q EXCEPT ![d] = Append(@, k)]
    /\ UNCHANGED <<task_map, ready, curr_req, curr_wf, js, cur, micro, owed, returned>>

(* IInv across a departure: schedule() chose another shard. *)
LEMMA DepartureInv ==
    ASSUME IInv, NEW c \in Cores, NEW k \in Calls, NEW d \in Cores, Departure(c, k, d)
    PROVE  IInv'
<1> USE DEF IInv
<1> DEFINE msg == Msg("run_func", k, c, d)
           qd == Append(q[d], k)
<1>1. /\ k \notin issued /\ Caller(k) = c /\ d # c
      /\ k \notin Roots => js[Parent[k]] = "running"
      /\ Fused(k) => k \in Roots
      /\ at' = [at EXCEPT ![k] = d]
      /\ issued' = issued \cup {k}
      /\ req_map' = [req_map EXCEPT ![c][k] = IF k \in Roots THEN Local ELSE c]
      /\ callbacks' = [callbacks EXCEPT ![c] = IF k \in Roots THEN @ ELSE @ \cup {k}]
      /\ net' = net \cup {msg}
      /\ q' = [q EXCEPT ![d] = qd]
      /\ UNCHANGED <<task_map, ready, curr_req, curr_wf, js, cur, micro, owed, returned>>
    BY DEF Departure
<1>2. msg \in Messages /\ msg.type = "run_func" /\ msg.call = k /\ msg.from = c /\ msg.to = d
    BY DEF Msg, Messages
<1>3. /\ js[k] = "idle" /\ ~OnShard(k) /\ k \notin returned /\ ~InFlight(k) /\ ~Replying(k) /\ ~Pending(k)
      /\ \A e \in Cores : k \notin task_map[e] \cup ready[e] \cup ToSet(q[e])
    BY <1>1 DEF TreeInv, OnShard, MsgInv, InFlight, Replying, Pending, TaskInv, QueueInv, TypeOK
<1>4. qd \in Seq(Calls) /\ IsInjective(qd) /\ ToSet(qd) = ToSet(q[d]) \cup {k}
    <2>1. q[d] \in Seq(Calls) /\ IsInjective(q[d]) /\ k \notin ToSet(q[d])
        BY <1>3 DEF TypeOK, QueueInv
    <2> QED BY <2>1, AppendFacts
<1> HIDE DEF msg, qd
<1>5. TypeOK'
    <2>1. callbacks' \in [Cores -> SUBSET Calls]
        BY <1>1 DEF TypeOK
    <2>2. req_map' \in [Cores -> [Calls -> ReplyStates]]
        BY <1>1 DEF TypeOK, ReplyStates
    <2> QED BY <1>1, <1>2, <1>4, <2>1, <2>2 DEF TypeOK
<1>6. \A e \in Cores : ToSet(q'[e]) = IF e = d THEN ToSet(q[d]) \cup {k} ELSE ToSet(q[e])
    BY <1>1, <1>4 DEF TypeOK
<1>7. \A j \in Calls : /\ InFlight(j)' <=> InFlight(j) \/ j = k
                       /\ Replying(j)' <=> Replying(j)
    BY <1>1, <1>2 DEF InFlight, Replying
<1>8. \A j \in issued : j \in Calls /\ j # k /\ at'[j] = at[j] /\ (j \notin Roots => Parent[j] # k)
    BY <1>1, <1>3, Domains DEF TreeInv, TypeOK
<1>9. \A j \in issued' : Caller(j)' = Caller(j)
    BY <1>1, <1>8, Domains, ParentAssumption DEF Caller, TypeOK
<1>10. \A j \in Calls : OnShard(j)' <=> OnShard(j)
    BY <1>1, <1>3, <1>7 DEF OnShard
<1>11. \A j \in Calls : Pending(j)' <=> Pending(j) \/ j = k
    BY <1>1, <1>3, <1>7 DEF Pending
<1>12. MsgInv'
    <2> SUFFICES ASSUME NEW m \in net'
                 PROVE  MsgInv!(m)'
        BY DEF MsgInv
    <2>1. CASE m = msg
        BY <1>1, <1>2, <1>3, <1>6, <1>9, <2>1 DEF TypeOK
    <2>2. CASE m \in net
        <3>1. m.type \in {"run_func", "reply"} => m.call \in issued
            BY <2>2 DEF MsgInv, TreeInv, TypeOK, Messages
        <3> QED BY <1>1, <1>6, <1>8, <1>9, <2>2, <3>1 DEF MsgInv, TypeOK, Messages
    <2> QED BY <1>1, <2>1, <2>2
<1>13. TreeInv'
    BY <1>1, <1>3, <1>8 DEF TreeInv, TypeOK
<1>14. TaskInv'
    BY <1>1, <1>3, <1>7, <1>8, Domains DEF TaskInv, TreeInv, TypeOK
<1>15. MicroInv'
    <2>1. \A e \in Cores : \A j \in ToSet(micro[e]) : j \in issued
        BY Domains DEF MicroInv, TreeInv
    <2> QED BY <1>1, <1>9, <2>1 DEF MicroInv
<1>16. StateInv'
    <2>1. ASSUME NEW e \in Cores, NEW j \in Calls
          PROVE  req_map'[e][j] = ExpectedState(e, j)'
        <3>1. CASE j = k
            <4>1. Caller(k)' = c /\ Pending(k)' /\ ~OnShard(k)'
                BY <1>1, <1>3, <1>9, <1>10, <1>11
            <4>2. req_map[e][k] = NoState
                BY <1>3 DEF StateInv, ExpectedState
            <4> QED BY <1>1, <3>1, <4>1, <4>2 DEF ExpectedState, TypeOK
        <3>2. CASE j # k /\ j \in issued
            BY <1>1, <1>8, <1>9, <1>10, <1>11, <3>2 DEF ExpectedState, StateInv, TypeOK
        <3>3. CASE j # k /\ j \notin issued
            BY <1>1, <3>3 DEF ExpectedState, StateInv, Pending, OnShard, TypeOK
        <3> QED BY <3>1, <3>2, <3>3
    <2>2. ASSUME NEW e \in Cores
          PROVE  callbacks'[e] = {j \in Calls \ Roots : Pending(j)' /\ Caller(j)' = e}
        <3>1. callbacks[e] = {j \in Calls \ Roots : Pending(j) /\ Caller(j) = e}
            BY DEF StateInv
        <3>2. \A j \in Calls : Pending(j) => j \in issued
            BY DEF Pending
        <3>3. callbacks'[e] = IF k \notin Roots /\ e = c THEN callbacks[e] \cup {k} ELSE callbacks[e]
            BY <1>1 DEF TypeOK
        <3> QED BY <1>1, <1>9, <1>11, <3>1, <3>2, <3>3
    <2> QED BY <2>1, <2>2 DEF StateInv
<1>17. QueueInv'
    <2>1. \A e \in Cores : IsInjective(q'[e])
        BY <1>1, <1>4 DEF QueueInv, TypeOK
    <2>2. ASSUME NEW e \in Cores, NEW j \in ToSet(q'[e])
          PROVE  /\ j \in issued' /\ at'[j] = e /\ js'[j] # "replied"
                 /\ j \in task_map'[e] \/ InFlight(j)' \/ j \in FusedReqs
                 /\ Fused(j) => j \in Roots
        <3>1. CASE j = k
            <4>1. e = d
                BY <1>3, <1>6, <2>2, <3>1
            <4> QED BY <1>1, <1>3, <1>7, <3>1, <4>1 DEF TypeOK
        <3>2. CASE j # k
            <4>1. j \in ToSet(q[e])
                BY <1>6, <2>2, <3>2
            <4> QED BY <1>1, <1>7, <1>8, <4>1, Domains DEF QueueInv
        <3> QED BY <3>1, <3>2
    <2>3. \A e \in Cores : task_map'[e] \subseteq ToSet(q'[e])
        BY <1>1, <1>6 DEF QueueInv
    <2> QED BY <2>1, <2>2, <2>3 DEF QueueInv
<1>18. CurrReqExact' /\ FusedInv'
    <2>1. \A j \in Calls : OnShard(j) => at'[j] = at[j]
        BY <1>8 DEF OnShard
    <2>2. CurrReqExact'
        BY <1>1, <1>10, <2>1 DEF CurrReqExact
    <2>3. FusedInv'
        BY <1>1, <1>10, <2>1, Domains DEF FusedInv
    <2> QED BY <2>2, <2>3
<1> QED BY <1>5, <1>12, <1>13, <1>14, <1>15, <1>16, <1>17, <1>18


(* run_func(), with its dispatch(), for a call that is in the queue.       *)
LEMMA RunFuncFacts ==
    ASSUME IInv, NEW c \in Cores, NEW k \in Calls,
           \E queue \in Seq(Calls) :
               /\ RunFunc(c, k, queue) /\ IsInjective(queue)
               /\ ToSet(queue) = ToSet(q[c]) \cup IF Fused(k) /\ k \notin Roots THEN {} ELSE {k}
    PROVE  RunFuncEffect(c, k)
<1> PICK queue \in Seq(Calls) :
               /\ RunFunc(c, k, queue) /\ IsInjective(queue)
               /\ ToSet(queue) = ToSet(q[c]) \cup IF Fused(k) /\ k \notin Roots THEN {} ELSE {k}
    OBVIOUS
<1> DEFINE tasks == task_map[c] \cup IF Fused(k) THEN {} ELSE {k}
           run == ready[c] \cup IF Fused(k) THEN {k} ELSE {}
           go == Handed(queue, tasks, curr_wf'[c])
           rest == StillQueued(queue, tasks, curr_wf'[c])
<1>1. /\ curr_wf \in [Cores -> SUBSET Calls] /\ curr_req \in [Cores -> SUBSET Calls]
      /\ task_map \in [Cores -> SUBSET Calls] /\ ready \in [Cores -> SUBSET Calls]
      /\ q \in [Cores -> Seq(Calls)] /\ \A e \in Cores : IsInjective(q[e])
      /\ task_map[c] \subseteq ToSet(q[c])
    BY DEF IInv, TypeOK, QueueInv
<1>2. /\ curr_wf' = [curr_wf EXCEPT ![c] = IF Fused(k) THEN @ \cup {Req[k]} ELSE @]
      /\ curr_req' = [curr_req EXCEPT ![c] = IF Fused(k) THEN @ ELSE @ \cup {k}]
    BY <1>1 DEF RunFunc
<1>3. Dispatch(c, queue, tasks, curr_wf'[c], run)
    <2>1. CASE Fused(k)
        <3>1. tasks = task_map[c] /\ run = ready[c] \cup {k}
            BY <2>1
        <3> HIDE DEF tasks, run
        <3> QED BY <2>1, <3>1 DEF RunFunc
    <2>2. CASE ~Fused(k)
        <3>1. tasks = task_map[c] \cup {k} /\ run = ready[c] /\ curr_wf'[c] = curr_wf[c]
            BY <2>2 DEF RunFunc
        <3> HIDE DEF tasks, run
        <3> QED BY <2>2, <3>1 DEF RunFunc
    <2> QED BY <2>1, <2>2
<1>4. tasks \in SUBSET ToSet(queue)
    BY <1>1
<1>5. /\ go \subseteq tasks /\ (go # {} => curr_wf'[c] = {})
      /\ rest \in Seq(Calls) /\ IsInjective(rest) /\ ToSet(rest) = ToSet(queue) \ go
    <2> HIDE DEF tasks
    <2> QED BY <1>4, DispatchFacts
<1>6. /\ ready' = [ready EXCEPT ![c] = run \cup go]
      /\ task_map' = [task_map EXCEPT ![c] = tasks \ go]
      /\ q' = [q EXCEPT ![c] = rest]
    BY <1>3 DEF Dispatch
<1> HIDE DEF go, rest
<1>7. /\ q' \in [Cores -> Seq(Calls)]
      /\ \A e \in Cores : q'[e] = IF e = c THEN rest ELSE q[e]
    BY <1>1, <1>5, <1>6
<1>8. \A e \in Cores : IsInjective(q'[e])
    BY <1>1, <1>5, <1>7
<1>9. /\ ready' = [ready EXCEPT ![c] = @ \cup (IF Fused(k) THEN {k} ELSE {}) \cup go]
      /\ task_map' = [task_map EXCEPT ![c] = (@ \cup IF Fused(k) THEN {} ELSE {k}) \ go]
      /\ \A e \in Cores :
            ToSet(q'[e]) = IF e = c
                           THEN (ToSet(q[c]) \cup
                                    IF Fused(k) /\ k \notin Roots THEN {} ELSE {k}) \ go
                           ELSE ToSet(q[e])
    BY <1>5, <1>6, <1>7
<1> QED BY <1>2, <1>5, <1>7, <1>8, <1>9 DEF RunFuncEffect

(* schedule(), for a request and for the Call binding.                     *)
LEMMA ScheduleInv ==
    ASSUME IInv, NEW c \in Cores, NEW k \in Calls, k \notin issued, Caller(k) = c,
           NEW states,
           states = IF k \in Roots THEN [req_map[c] EXCEPT ![k] = Local] ELSE req_map[c],
           k \notin Roots => js[Parent[k]] = "running",
           callbacks' = [callbacks EXCEPT ![c] = IF k \in Roots THEN @ ELSE @ \cup {k}],
           Schedule(c, k, states),
           UNCHANGED <<js, cur, micro, owed, returned>>
    PROVE  IInv'
<1>1. /\ js[k] = "idle" /\ ~OnShard(k) /\ k \notin returned /\ ~InFlight(k)
      /\ \A e \in Cores : k \notin task_map[e] \cup ready[e] \cup ToSet(q[e])
      /\ req_map[c][k] = NoState /\ ~Pending(k)
    <2>1. js[k] = "idle" /\ ~OnShard(k) /\ ~Pending(k) /\ ~InFlight(k) /\ k \notin returned
        BY DEF IInv, TreeInv, MsgInv, OnShard, Pending, InFlight
    <2>2. \A e \in Cores : k \notin task_map[e] \cup ready[e] \cup ToSet(q[e])
        BY DEF IInv, TaskInv, QueueInv
    <2>3. req_map[c][k] = NoState
        BY <2>1 DEF IInv, StateInv, ExpectedState
    <2> QED BY <2>1, <2>2, <2>3
<1> DEFINE here == Fused(k) /\ k \notin Roots
<1>2. PICK d \in IF here THEN {c} ELSE Candidates(c) :
        LET placed == IF here THEN q[d] ELSE Append(q[d], k)
        IN  /\ at' = [at EXCEPT ![k] = d]
            /\ issued' = issued \cup {k}
            /\ req_map' = [req_map EXCEPT ![c] = Register(states, k, c)]
            /\ IF d = c
               THEN RunFunc(c, k, placed) /\ net' = net
               ELSE /\ net' = net \cup {Msg("run_func", k, c, d)}
                    /\ q' = [q EXCEPT ![d] = placed]
                    /\ UNCHANGED <<task_map, ready, curr_req, curr_wf>>
    BY DEF Schedule
<1>3. d \in Cores
    BY <1>2 DEF Candidates
<1>4. req_map' = [req_map EXCEPT ![c][k] = IF k \in Roots THEN Local ELSE c]
    <2>1. Register(states, k, c) = [req_map[c] EXCEPT ![k] = IF k \in Roots THEN Local ELSE c]
        BY <1>1 DEF Register, IInv, TypeOK, NoState, Local
    <2> QED BY <1>2, <2>1
<1>5. CASE d # c
    <2>1. Departure(c, k, d)
        <3>1. ~here
            BY <1>2, <1>5
        <3> QED BY <1>2, <1>4, <1>5, <3>1 DEF Departure
    <2> QED BY <1>3, <2>1, DepartureInv
<1>6. CASE d = c
    <2> DEFINE placed == IF here THEN q[c] ELSE Append(q[c], k)
    <2>1. placed \in Seq(Calls) /\ IsInjective(placed)
          /\ ToSet(placed) = ToSet(q[c]) \cup IF here THEN {} ELSE {k}
        <3>1. q[c] \in Seq(Calls) /\ IsInjective(q[c]) /\ k \notin ToSet(q[c])
            BY <1>1 DEF IInv, TypeOK, QueueInv
        <3> QED BY <3>1, AppendFacts
    <2>2. RunFunc(c, k, placed) /\ net' = net /\ at' = [at EXCEPT ![k] = c]
          /\ issued' = issued \cup {k}
        BY <1>2, <1>6
    <2> HIDE DEF placed
    <2>3. \E queue \in Seq(Calls) :
               /\ RunFunc(c, k, queue) /\ IsInjective(queue)
               /\ ToSet(queue) = ToSet(q[c]) \cup IF Fused(k) /\ k \notin Roots THEN {} ELSE {k}
        BY <2>1, <2>2
    <2>4. here => OnShard(Req[k]) /\ at[Req[k]] = c
        <3> SUFFICES ASSUME here PROVE OnShard(Req[k]) /\ at[Req[k]] = c
            OBVIOUS
        <3>1. Parent[k] \in Calls /\ Req[Parent[k]] = Req[k] /\ js[Parent[k]] = "running"
            BY Domains DEF IInv
        <3>2. OnShard(Parent[k])
            BY <3>1 DEF IInv, OnShard, InFlight, TreeInv, MsgInv
        <3>3. at[Parent[k]] = c
            BY <3>1 DEF Caller
        <3> QED BY <3>1, <3>2, <3>3 DEF IInv, FusedInv, Fused
    <2>5. Arrival(c, k)
        <3>1. ~InFlight(k)'
            BY <1>1, <2>2 DEF InFlight
        <3>2. req_map' = [req_map EXCEPT ![c][k] =
                      IF k \in Roots /\ Caller(k) = c THEN Local ELSE Caller(k)]
            BY <1>4
        <3>3. /\ js[k] = "idle" /\ ~OnShard(k) /\ k \notin returned
              /\ \A e \in Cores : k \notin task_map[e] \cup ready[e]
            BY <1>1
        <3>4. RunFuncEffect(c, k)
            BY <2>3, RunFuncFacts
        <3> QED BY <2>2, <2>4, <3>1, <3>2, <3>3, <3>4 DEF Arrival
    <2> QED BY <2>5, ArrivalInv
<1> QED BY <1>5, <1>6


(* A connection hands over a request.                                      *)
LEMMA AcceptInv ==
    ASSUME IInv, NEW c \in Cores, NEW r \in Roots, Accept(c, r)
    PROVE  IInv'
<1>1. /\ r \in Calls /\ r \notin issued /\ Caller(r) = c
      /\ Schedule(c, r, [req_map[c] EXCEPT ![r] = Local])
      /\ callbacks' = callbacks /\ UNCHANGED <<js, cur, micro, owed, returned>>
    BY Domains DEF Accept, Caller, IInv
<1>2. callbacks' = [callbacks EXCEPT ![c] = IF r \in Roots THEN @ ELSE @ \cup {r}]
    BY <1>1 DEF IInv, TypeOK
<1> QED BY <1>1, <1>2, ScheduleInv

(* The `Call' binding.                                                     *)
LEMMA IssueCallInv ==
    ASSUME IInv, NEW c \in Cores, NEW k \in Calls, IssueCall(c, k)
    PROVE  IInv'
<1>1. /\ cur[c] # NoCall /\ Parent[k] = cur[c] /\ k \notin issued
      /\ callbacks' = [callbacks EXCEPT ![c] = @ \cup {k}]
      /\ Schedule(c, k, req_map[c])
      /\ UNCHANGED <<js, cur, micro, owed, returned>>
    BY DEF IssueCall, Children
<1>2. k \notin Roots /\ js[Parent[k]] = "running" /\ at[Parent[k]] = c
    BY <1>1, OnStack, NoneAssumption DEF Roots
<1>3. Caller(k) = c
    BY <1>2 DEF Caller
<1>4. callbacks' = [callbacks EXCEPT ![c] = IF k \in Roots THEN @ ELSE @ \cup {k}]
    BY <1>1, <1>2
<1> QED BY <1>1, <1>2, <1>3, <1>4, ScheduleInv

(* A run_func message is handled.                                          *)
LEMMA RecvRunInv ==
    ASSUME IInv, NEW c \in Cores, NEW m \in net, RecvRun(c, m)
    PROVE  IInv'
<1> DEFINE k == m.call
<1>1. /\ m.type = "run_func" /\ m.to = c /\ k \in Calls /\ m.from \in Cores /\ m \in Messages
      /\ req_map' = [req_map EXCEPT ![c] = Register(@, k, m.from)]
      /\ RunFunc(c, k, q[c])
      /\ net' = net \ {m}
      /\ UNCHANGED <<callbacks, js, cur, micro, owed, issued, at, returned>>
    BY DEF RecvRun, IInv, TypeOK, Messages
<1>2. /\ k \in issued /\ js[k] = "idle" /\ at[k] = c /\ m.from = Caller(k) /\ Caller(k) # c
      /\ k \in ToSet(q[c]) /\ (Fused(k) => k \in Roots)
    BY <1>1 DEF IInv, MsgInv
<1>3. InFlight(k) /\ ~OnShard(k) /\ k \notin returned
      /\ \A e \in Cores : k \notin task_map[e] \cup ready[e]
    BY <1>1, <1>2 DEF IInv, InFlight, OnShard, TaskInv, TreeInv
<1>4. \A n \in net : n.type = "run_func" /\ n.call = k => n = m
    <2>1. \A n \in Messages : n = [type |-> n.type, call |-> n.call, to |-> n.to, from |-> n.from]
        BY DEF Messages
    <2>2. \A n \in net : n.type = "run_func" /\ n.call = k => n.to = m.to /\ n.from = m.from
        BY <1>1, <1>2 DEF IInv, MsgInv
    <2> QED BY <1>1, <2>1, <2>2 DEF IInv, TypeOK
<1>5. ~InFlight(k)'
    BY <1>1, <1>4 DEF InFlight
<1>6. req_map' = [req_map EXCEPT ![c][k] =
                     IF k \in Roots /\ Caller(k) = c THEN Local ELSE Caller(k)]
    <2>1. req_map[c][k] = ExpectedState(c, k)
        BY <1>1 DEF IInv, StateInv
    <2>2. ExpectedState(c, k) = NoState
        <3> HIDE DEF k
        <3> QED BY <1>2, <1>3 DEF ExpectedState
    <2>3. req_map[c][k] = NoState
        BY <2>1, <2>2
    <2> QED BY <1>1, <1>2, <2>3 DEF Register, IInv, TypeOK
<1>7. RunFuncEffect(c, k)
    <2>1. q[c] \in Seq(Calls) /\ IsInjective(q[c])
          /\ ToSet(q[c]) = ToSet(q[c]) \cup IF Fused(k) /\ k \notin Roots THEN {} ELSE {k}
        BY <1>2 DEF IInv, TypeOK, QueueInv
    <2>2. \E queue \in Seq(Calls) :
               /\ RunFunc(c, k, queue) /\ IsInjective(queue)
               /\ ToSet(queue) = ToSet(q[c]) \cup IF Fused(k) /\ k \notin Roots THEN {} ELSE {k}
        BY <1>1, <2>1
    <2> QED BY <1>1, <2>2, RunFuncFacts
<1>8. /\ net' \subseteq net
      /\ \A n \in net : n \in net' \/ (n.type = "run_func" /\ n.call = k)
      /\ issued' = issued \cup {k} /\ at' = at /\ callbacks' = callbacks
    BY <1>1, <1>2
<1>9. Arrival(c, k)
    BY <1>1, <1>2, <1>3, <1>5, <1>6, <1>7, <1>8 DEF Arrival
<1> QED BY <1>1, <1>9, ArrivalInv

(* IInv is inductive.                                                      *)
THEOREM NextInv == IInv /\ [Next]_vars => IInv'
<1> SUFFICES ASSUME IInv, [Next]_vars PROVE IInv'
    OBVIOUS
<1>1. ASSUME NEW c \in Cores, NEW r \in Roots, Accept(c, r) PROVE IInv'
    BY <1>1, AcceptInv
<1>2. ASSUME NEW c \in Cores, ShardStep(c) PROVE IInv'
    <2>1. CASE \E k \in Calls : RunTask(c, k)
        BY <2>1, RunTaskInv
    <2>2. CASE \E k \in Calls : IssueCall(c, k)
        BY <2>2, IssueCallInv
    <2>3. CASE JsReply(c)
        BY <2>3, JsReplyInv
    <2>4. CASE JsYield(c)
        BY <2>4, JsYieldInv
    <2>5. CASE Throw(c)
        BY <2>5, ThrowInv
    <2>6. CASE NextMicro(c)
        BY <2>6, NextMicroInv
    <2>7. CASE Finish(c)
        BY <2>7, FinishInv
    <2>8. CASE \E m \in net : RecvRun(c, m) \/ RecvReply(c, m) \/ RecvAck(c, m)
        BY <2>8, RecvRunInv, RecvReplyInv, RecvAckInv
    <2> QED BY <1>2, <2>1, <2>2, <2>3, <2>4, <2>5, <2>6, <2>7, <2>8 DEF ShardStep
<1>3. CASE UNCHANGED vars
    BY <1>3 DEF vars, serverVars, IInv, TypeOK, MsgInv, TreeInv, TaskInv, MicroInv, StateInv,
                ExpectedState, QueueInv, CurrReqExact, FusedInv, Caller, Replying, Pending,
                InFlight, OnShard
<1> QED BY <1>1, <1>2, <1>3 DEF Next

(* The invariant holds in every reachable state, for every workload and    *)
(* any number of shards.                                                   *)
THEOREM Invariance == Spec => []IInv
BY InitInv, NextInv, PTL DEF Spec

(* Queues, tables, messages and stacks stay well typed.                    *)
THEOREM TypeCorrect == Spec => []TypeOK
<1>1. IInv => TypeOK
    BY DEF IInv
<1> QED BY <1>1, Invariance, PTL

(* reply() and run_callback never dereference a state that is not there.   *)
THEOREM RepliesFindState == Spec => []ReplyHasState
<1>1. IInv => ReplyHasState
    <2> SUFFICES ASSUME IInv PROVE ReplyHasState
        OBVIOUS
    <2>1. ASSUME NEW k \in Calls, OnShard(k) PROVE CanReply(at[k], k)
        <3>1. at[k] \in Cores /\ k \in issued /\ Pending(k)
            BY <2>1 DEF OnShard, Pending, IInv, TreeInv
        <3>2. Caller(k) \in Cores /\ (k \in Roots => Local # at[k])
            BY <3>1, Domains, ReplyStateAssumption DEF IInv, Caller, TreeInv
        <3>3. req_map[at[k]][k] = ExpectedState(at[k], k)
            BY <3>1 DEF IInv, StateInv
        <3>4. callbacks[at[k]] = {j \in Calls \ Roots : Pending(j) /\ Caller(j) = at[k]}
            BY <3>1 DEF IInv, StateInv
        <3>5. ExpectedState(at[k], k) # NoState
            <4>1. NoState # Local
                BY DEF NoState, Local
            <4> QED BY <2>1, <3>1, <3>2, <4>1, ReplyStateAssumption DEF ExpectedState
        <3>6. ASSUME req_map[at[k]][k] = at[k] PROVE k \in callbacks[at[k]]
            <4>1. k \notin Roots /\ Caller(k) = at[k]
                <5>1. CASE at[k] = Caller(k)
                    BY <3>1, <3>2, <3>3, <3>6, <5>1 DEF ExpectedState
                <5>2. CASE at[k] # Caller(k)
                    BY <2>1, <3>1, <3>3, <3>6, <5>2 DEF ExpectedState
                <5> QED BY <5>1, <5>2
            <4> QED BY <3>1, <3>4, <4>1
        <3> QED BY <3>3, <3>5, <3>6 DEF CanReply
    <2>2. ASSUME NEW m \in net, m.type = "reply"
          PROVE  CanReply(m.to, m.call) /\ req_map[m.to][m.call] \in {Local, m.to}
        <3>1. m.call \in Calls /\ m.to \in Cores
            BY DEF IInv, TypeOK, Messages
        <3>2. m.to = Caller(m.call) /\ m.call \in issued /\ Pending(m.call)
            BY <2>2, <3>1 DEF IInv, MsgInv, TreeInv, Pending, Replying
        <3>3. req_map[m.to][m.call] = ExpectedState(m.to, m.call)
            BY <3>1 DEF IInv, StateInv
        <3>4. callbacks[m.to] = {j \in Calls \ Roots : Pending(j) /\ Caller(j) = m.to}
            BY <3>1 DEF IInv, StateInv
        <3>5. ExpectedState(m.to, m.call) = IF m.call \in Roots THEN Local ELSE m.to
            BY <3>2 DEF ExpectedState
        <3>6. NoState # Local /\ NoState # m.to /\ Local # m.to
            BY <3>1, ReplyStateAssumption DEF NoState, Local
        <3>7. req_map[m.to][m.call] = m.to => m.call \in callbacks[m.to]
            BY <3>1, <3>2, <3>3, <3>4, <3>5, <3>6
        <3> QED BY <3>3, <3>5, <3>6, <3>7 DEF CanReply
    <2> QED BY <2>1, <2>2 DEF ReplyHasState
<1> QED BY <1>1, Invariance, PTL

(* The queue of a shard and its parked tasks agree.                        *)
THEOREM QueuesAgree == Spec => []QueueAgreement
<1>1. IInv => QueueAgreement
    BY DEF IInv, QueueInv, QueueAgreement
<1> QED BY <1>1, Invariance, PTL

(* curr_req is what reply() takes it for.                                  *)
THEOREM CurrReqIsExact == Spec => []CurrReqExact
<1>1. IInv => CurrReqExact
    BY DEF IInv
<1> QED BY <1>1, Invariance, PTL

(* A fused request holds the shard on which all of its calls run.          *)
THEOREM FusedHolds == Spec => []FusedHoldsCore
<1>1. IInv => FusedHoldsCore
    <2> SUFFICES ASSUME IInv, NEW k \in Calls, Fused(k), OnShard(k)
                 PROVE  at[k] = at[Req[k]] /\ Req[k] \in curr_wf[at[k]]
        BY DEF FusedHoldsCore
    <2>1. OnShard(Req[k]) /\ at[k] = at[Req[k]] /\ at[k] \in Cores
        BY DEF IInv, FusedInv, OnShard, TreeInv
    <2> QED BY <2>1 DEF IInv, FusedInv, Fused
<1> QED BY <1>1, Invariance, PTL

(* A call that dispatch() hands over finds no fused request on the shard.   *)
LEMMA HandedAlone ==
    ASSUME NEW c \in Cores, NEW queue, NEW tasks, NEW wf, NEW run,
           Dispatch(c, queue, tasks, wf, run), IInv
    PROVE  /\ ready'[c] \ run # {} => wf = {}
           /\ \A e \in Cores \ {c} : ready'[e] = ready[e]
BY DEF Dispatch, Handed, IInv, TypeOK

(* Newly ready calls of a step: fused, or no fused request holds the shard. *)
Alone == \A c \in Cores : \A k \in ready'[c] \ ready[c] : Fused(k) \/ curr_wf'[c] = {}

(* run_func readies only fused calls on a core that a fused request holds. *)
LEMMA RunFuncAlone ==
    ASSUME IInv, NEW c \in Cores, NEW k \in Calls, NEW queue, RunFunc(c, k, queue)
    PROVE  Alone
<1>1. CASE Fused(k)
    <2>1. Dispatch(c, queue, task_map[c], curr_wf'[c], ready[c] \cup {k})
        BY <1>1 DEF RunFunc
    <2> QED BY <1>1, <2>1, HandedAlone DEF Alone
<1>2. CASE ~Fused(k)
    <2>1. /\ Dispatch(c, queue, task_map[c] \cup {k}, curr_wf[c], ready[c])
          /\ curr_wf' = curr_wf
        BY <1>2 DEF RunFunc
    <2> QED BY <2>1, HandedAlone DEF Alone
<1> QED BY <1>1, <1>2

(* schedule readies only fused calls on a core that a fused request holds. *)
LEMMA ScheduleAlone ==
    ASSUME IInv, NEW c \in Cores, NEW k \in Calls, NEW states, Schedule(c, k, states)
    PROVE  Alone
<1> DEFINE Placed(e) == IF Fused(k) /\ k \notin Roots THEN q[e] ELSE Append(q[e], k)
<1>1. ready' = ready \/ \E e \in Cores : e = c /\ RunFunc(c, k, Placed(e))
    BY DEF Schedule, Candidates
<1>2. CASE ready' = ready
    BY <1>2 DEF Alone
<1>3. CASE \E e \in Cores : RunFunc(c, k, Placed(e))
    BY <1>3, RunFuncAlone
<1> QED BY <1>1, <1>2, <1>3

(* The other callers of dispatch(): no task is added but what it hands over.*)
LEMMA DispatchAlone ==
    ASSUME IInv, NEW c \in Cores, NEW queue, NEW tasks,
           Dispatch(c, queue, tasks, curr_wf'[c], ready[c])
    PROVE  Alone
BY HandedAlone DEF Alone

(* So does every step of the server. *)
LEMMA StepAlone == IInv /\ [Next]_vars => Alone
<1> SUFFICES ASSUME IInv, [Next]_vars PROVE Alone
    OBVIOUS
<1>1. ASSUME NEW c \in Cores, NEW r \in Roots, Accept(c, r) PROVE Alone
    <2>1. r \in Calls
        BY DEF Roots
    <2>2. Schedule(c, r, [req_map[c] EXCEPT ![r] = Local])
        BY <1>1 DEF Accept
    <2> QED BY <2>1, <2>2, ScheduleAlone
<1>2. ASSUME NEW c \in Cores, NEW k \in Calls, IssueCall(c, k) PROVE Alone
    BY <1>2, ScheduleAlone DEF IssueCall
<1>3. ASSUME NEW c \in Cores, NEW m \in net, RecvRun(c, m) PROVE Alone
    <2>1. m.call \in Calls
        BY DEF IInv, TypeOK, Messages
    <2> QED BY <1>3, <2>1, RunFuncAlone DEF RecvRun
<1>4. ASSUME NEW c \in Cores, NEW k \in Calls, AnswerClient(c, k) PROVE Alone
    BY <1>4, DispatchAlone DEF AnswerClient
<1>5. ASSUME NEW c \in Cores, JsReply(c) PROVE Alone
    <2>1. cur[c] \in Calls
        BY <1>5 DEF JsReply, IInv, TypeOK
    <2>2. CASE AnswerClient(c, cur[c])
        BY <2>1, <2>2, <1>4
    <2>3. CASE /\ Callback(c, cur[c])
               /\ Dispatch(c, RemoveFirst(q[c], cur[c]), task_map[c], curr_wf[c], ready[c])
        <3>1. curr_wf' = curr_wf
            BY <2>3 DEF Callback
        <3> QED BY <2>3, <3>1, DispatchAlone
    <2>4. CASE Forward(c, cur[c])
        BY <2>4 DEF Forward, Alone
    <2> QED BY <1>5, <2>2, <2>3, <2>4 DEF JsReply
<1>6. ASSUME NEW c \in Cores, NEW m \in net, RecvReply(c, m) PROVE Alone
    <2>1. m.call \in Calls
        BY DEF IInv, TypeOK, Messages
    <2> QED BY <1>4, <1>6, <2>1 DEF RecvReply, Alone
<1>7. ASSUME NEW c \in Cores,
             Dispatch(c, q[c], task_map[c], curr_wf[c], ready[c]), curr_wf' = curr_wf
      PROVE  Alone
    BY <1>7, DispatchAlone
<1>8. ASSUME NEW c \in Cores, NEW m \in net, Finish(c) \/ RecvAck(c, m) PROVE Alone
    BY <1>7, <1>8 DEF Finish, RecvAck
<1>9. ASSUME NEW c \in Cores, Finish(c) PROVE Alone
    BY <1>7, <1>9 DEF Finish
<1>10. ASSUME NEW c \in Cores, Throw(c) PROVE Alone
    BY <1>10 DEF Throw, Forward, Alone
<1>11. ASSUME NEW c \in Cores, NEW k \in Calls, RunTask(c, k) PROVE Alone
    BY <1>11 DEF RunTask, Alone, IInv, TypeOK
<1>12. ASSUME NEW c \in Cores, JsYield(c) \/ NextMicro(c) PROVE Alone
    BY <1>12 DEF JsYield, NextMicro, Alone
<1>13. CASE UNCHANGED vars
    BY <1>13 DEF vars, Alone
<1> QED BY <1>1, <1>2, <1>3, <1>5, <1>6, <1>8, <1>9, <1>10, <1>11, <1>12, <1>13
        DEF Next, ShardStep

(* dispatch() hands over nothing while a fused request is on the shard.    *)
THEOREM FusedAlone == Spec => FusedRunsAlone
<1>1. ASSUME IInv, IInv', [Next]_vars
      PROVE  [\A c \in Cores : \A k \in ready'[c] \ ready[c] :
                  ~Fused(k) => ~\E r \in FusedReqs : at'[r] = c /\ OnShard(r)']_vars
    <2>1. \A c \in Cores : curr_wf'[c] = {r \in FusedReqs : OnShard(r)' /\ at'[r] = c}
        BY <1>1 DEF IInv, FusedInv
    <2> QED BY <1>1, <2>1, StepAlone DEF Alone
<1> QED BY <1>1, Invariance, PTL DEF Spec, FusedRunsAlone

-----------------------------------------------------------------------------
(* The refinement of Invocation.  SchedulerInv says which calls messages,  *)
(* continuations and stacks can be about; that is all a step needs.        *)

(* Which phase a call is in when.                                          *)
LEMMA PhaseCases ==
    ASSUME TypeOK, TreeInv, NEW k \in Calls
    PROVE  /\ phase[k] = "uncalled" <=> k \notin issued
           /\ phase[k] = "placed" <=> k \in issued /\ js[k] = "idle"
           /\ phase[k] = "running" <=> js[k] = "running"
           /\ phase[k] = "replied" <=> js[k] = "replied" /\ k \notin returned
           /\ phase[k] = "returned" <=> k \in returned
<1>1. js[k] \in {"idle", "running", "replied"}
    BY DEF TypeOK
<1> QED BY <1>1 DEF phase, TreeInv

(* The same of the state after a step.                                     *)
LEMMA PhaseCasesNext ==
    ASSUME TypeOK', TreeInv', NEW k \in Calls
    PROVE  /\ phase'[k] = "uncalled" <=> k \notin issued'
           /\ phase'[k] = "placed" <=> k \in issued' /\ js'[k] = "idle"
           /\ phase'[k] = "running" <=> js'[k] = "running"
           /\ phase'[k] = "replied" <=> js'[k] = "replied" /\ k \notin returned'
           /\ phase'[k] = "returned" <=> k \in returned'
<1>1. js'[k] \in {"idle", "running", "replied"}
    BY DEF TypeOK
<1> QED BY <1>1 DEF phase, TreeInv

(* A call is in one of five phases.                                        *)
LEMMA PhaseType ==
    ASSUME IInv, IInv'
    PROVE  /\ phase \in [Calls -> Promise!Phases]
           /\ phase' \in [Calls -> Promise!Phases]
<1>1. \A k \in Calls : phase[k] \in Promise!Phases
    BY PhaseCases DEF IInv, TypeOK, Promise!Phases
<1>2. \A k \in Calls : phase'[k] \in Promise!Phases
    BY PhaseCasesNext DEF IInv, TypeOK, Promise!Phases
<1>3. phase = [k \in Calls |-> phase[k]] /\ phase' = [k \in Calls |-> phase'[k]]
    BY DEF phase
<1> QED BY <1>1, <1>2, <1>3

(* A step that changes what is recorded of one call changes no other phase.*)
LEMMA OneMoves ==
    ASSUME IInv, IInv', NEW k \in Calls,
           \A j \in Calls \ {k} : /\ j \in issued' <=> j \in issued
                                  /\ j \in returned' <=> j \in returned
                                  /\ js'[j] = js[j]
    PROVE  phase' = [phase EXCEPT ![k] = phase'[k]]
<1>1. ASSUME NEW j \in Calls \ {k} PROVE phase'[j] = phase[j]
    BY PhaseType, PhaseCases, PhaseCasesNext DEF IInv, Promise!Phases
<1> QED BY <1>1, PhaseType

(* ... and one that records nothing of any call changes none.              *)
LEMMA NoneMoves ==
    ASSUME UNCHANGED <<issued, js, returned>>
    PROVE  phase' = phase
BY DEF phase

(* The idle server has seen no call.                                       *)
LEMMA InitImplements == Init => Promise!Init
BY DEF Init, phase, Promise!Init

(* schedule() takes in a call that was not there, whoever issues it.       *)
LEMMA CallStep ==
    ASSUME IInv, IInv', NEW k \in Calls \ issued, issued' = issued \cup {k},
           UNCHANGED <<js, returned>>,
           Parent[k] # NoCall => Parent[k] \in Calls /\ js[Parent[k]] = "running"
    PROVE  Promise!Call(k)
<1>1. js[k] = "idle"
    BY DEF IInv, TypeOK, TreeInv
<1>2. phase[k] = "uncalled" /\ phase'[k] = "placed"
    BY <1>1, PhaseCases, PhaseCasesNext DEF IInv
<1>3. phase' = [phase EXCEPT ![k] = "placed"]
    BY <1>2, OneMoves
<1>4. Parent[k] # NoCall => phase[Parent[k]] = "running"
    BY PhaseCases DEF IInv
<1> QED BY <1>2, <1>3, <1>4 DEF Promise!Call, Promise!Move

(* The function on the stack has everything it waits for when it replies,  *)
(* and issues nothing when it throws.                                      *)
LEMMA ReplyStep ==
    ASSUME IInv, IInv', NEW k \in Calls, js[k] = "running",
           MayReply(k) \/ k \in Failing,
           js' = [js EXCEPT ![k] = "replied"], issued' = issued,
           returned' = returned \/ (k \in Roots /\ returned' = returned \cup {k})
    PROVE  Promise!Reply(k) \/ Promise!Answer(k)
<1>1. MayReply(k)
    BY FailingAssumption DEF MayReply, Children, Awaited
<1>2. Promise!MayReply(k)
    <2>1. \A j \in Children(k) : phase[j] # "uncalled"
        BY <1>1, PhaseCases DEF MayReply, Children, IInv
    <2>2. \A j \in Awaited(k) : phase[j] = "returned"
        BY <1>1, PhaseCases DEF MayReply, Awaited, Children, IInv
    <2> QED BY <2>1, <2>2 DEF Promise!MayReply, Promise!Children, Promise!Awaited, Children, Awaited
<1>3. phase[k] = "running" /\ js'[k] = "replied" /\ k \notin returned
    BY PhaseCases DEF IInv, TypeOK, TreeInv
<1>4. \A j \in Calls \ {k} : /\ j \in issued' <=> j \in issued
                             /\ j \in returned' <=> j \in returned
                             /\ js'[j] = js[j]
    BY DEF IInv, TypeOK
<1>5. CASE returned' = returned
    <2>1. phase'[k] = "replied"
        BY <1>3, <1>5, PhaseCasesNext DEF IInv
    <2>2. phase' = [phase EXCEPT ![k] = "replied"]
        BY <2>1, <1>4, OneMoves
    <2> QED BY <1>2, <1>3, <2>2 DEF Promise!Reply, Promise!Move
<1>6. CASE k \in Roots /\ returned' = returned \cup {k}
    <2>1. phase'[k] = "returned"
        BY <1>6, PhaseCasesNext DEF IInv
    <2>2. phase' = [phase EXCEPT ![k] = "returned"]
        BY <2>1, <1>4, OneMoves
    <2> QED BY <1>2, <1>3, <1>6, <2>2 DEF Promise!Answer, Promise!Move, Promise!Roots, Roots
<1> QED BY <1>5, <1>6

(* A reply message that reaches the connection, or a continuation, is the  *)
(* first to bring the result of its call.                                  *)
LEMMA ReturnStep ==
    ASSUME IInv, IInv', NEW k \in Calls, js[k] = "replied", k \notin returned,
           returned' = returned \cup {k}, UNCHANGED <<issued, js>>
    PROVE  Promise!Return(k)
<1>1. phase[k] = "replied" /\ phase'[k] = "returned"
    BY PhaseCases, PhaseCasesNext DEF IInv
<1>2. phase' = [phase EXCEPT ![k] = "returned"]
    BY <1>1, OneMoves
<1> QED BY <1>1, <1>2 DEF Promise!Return, Promise!Move

(* Every step of the server is a step of Invocation or leaves all phases.  *)
LEMMA StepImplements ==
    ASSUME IInv, IInv', [Next]_vars
    PROVE  [Promise!Next]_phase
<1>1. ASSUME NEW c \in Cores, NEW r \in Roots, Accept(c, r) PROVE Promise!Call(r)
    <2>1. r \in Calls \ issued /\ Parent[r] = NoCall
        BY <1>1 DEF Accept, Roots
    <2>2. issued' = issued \cup {r} /\ UNCHANGED <<js, returned>>
        BY <1>1 DEF Accept, Schedule
    <2> QED BY <2>1, <2>2, CallStep
<1>2. ASSUME NEW c \in Cores, NEW k \in Calls, IssueCall(c, k) PROVE Promise!Call(k)
    <2>1. k \notin issued /\ Parent[k] = cur[c] /\ cur[c] # NoCall
        BY <1>2 DEF IssueCall, Children
    <2>2. issued' = issued \cup {k} /\ UNCHANGED <<js, returned>>
        BY <1>2 DEF IssueCall, Schedule
    <2>3. cur[c] \in Calls /\ js[cur[c]] = "running"
        BY <2>1, OnStack
    <2> QED BY <2>1, <2>2, <2>3, CallStep
<1>3. ASSUME NEW c \in Cores, NEW k \in Calls, RunTask(c, k) PROVE Promise!Start(k)
    <2>1. /\ k \in issued /\ js[k] = "idle" /\ js' = [js EXCEPT ![k] = "running"]
          /\ UNCHANGED <<issued, returned>>
        BY <1>3 DEF RunTask, IInv, TaskInv
    <2>2. phase[k] = "placed" /\ phase'[k] = "running"
        BY <2>1, PhaseCases, PhaseCasesNext DEF IInv, TypeOK
    <2>3. phase' = [phase EXCEPT ![k] = "running"]
        BY <2>1, <2>2, OneMoves DEF IInv, TypeOK
    <2> QED BY <2>2, <2>3 DEF Promise!Start, Promise!Move
<1>4. ASSUME NEW c \in Cores, JsReply(c) \/ Throw(c)
      PROVE  \E k \in Calls : Promise!Reply(k) \/ Promise!Answer(k)
    <2>1. cur[c] # NoCall
        BY <1>4 DEF JsReply, Throw
    <2>2. /\ cur[c] \in Calls /\ js[cur[c]] = "running"
          /\ cur[c] \notin Roots => req_map[c][cur[c]] # Local
        BY <2>1, OnStack, ReplyStateAssumption
    <2>3. /\ MayReply(cur[c]) \/ cur[c] \in Failing
          /\ js' = [js EXCEPT ![cur[c]] = "replied"] /\ issued' = issued
        BY <1>4 DEF JsReply, Throw
    <2>4. \/ returned' = returned
          \/ cur[c] \in Roots /\ returned' = returned \cup {cur[c]}
        BY <1>4, <2>2 DEF JsReply, Throw, AnswerClient, Callback, Forward
    <2> QED BY <2>2, <2>3, <2>4, ReplyStep
<1>5. ASSUME NEW c \in Cores, NEW m \in net, RecvReply(c, m)
      PROVE  (\E k \in Calls : Promise!Return(k)) \/ phase' = phase
    <2>1. m.call \in Calls /\ js[m.call] = "replied" /\ m.call \notin returned
        BY <1>5 DEF RecvReply, IInv, TypeOK, MsgInv, Messages
    <2>2. /\ UNCHANGED <<issued, js>>
          /\ returned' = returned \/ returned' = returned \cup {m.call}
        BY <1>5 DEF RecvReply, AnswerClient, Callback
    <2> QED BY <2>1, <2>2, ReturnStep, NoneMoves
<1>6. ASSUME NEW c \in Cores, NextMicro(c) PROVE \E k \in Calls : Promise!Return(k)
    <2>1. Head(micro[c]) \in ToSet(micro[c]) /\ Head(micro[c]) \in Calls
        BY <1>6 DEF NextMicro, IInv, TypeOK, ToSet
    <2>2. js[Head(micro[c])] = "replied" /\ Head(micro[c]) \notin returned
        BY <2>1 DEF IInv, MicroInv
    <2>3. returned' = returned \cup {Head(micro[c])} /\ UNCHANGED <<issued, js>>
        BY <1>6 DEF NextMicro
    <2> QED BY <2>1, <2>2, <2>3, ReturnStep
<1>7. ASSUME NEW c \in Cores, NEW m \in net,
             RecvRun(c, m) \/ RecvAck(c, m) PROVE phase' = phase
    BY <1>7, NoneMoves DEF RecvRun, RecvAck
<1>8. ASSUME NEW c \in Cores, JsYield(c) \/ Finish(c) PROVE phase' = phase
    BY <1>8, NoneMoves DEF JsYield, Finish
<1>9. CASE UNCHANGED vars
    BY <1>9, NoneMoves DEF vars
<1>10. Roots \subseteq Calls
    BY DEF Roots
<1> QED BY <1>1, <1>2, <1>3, <1>4, <1>5, <1>6, <1>7, <1>8, <1>9, <1>10
        DEF Next, ShardStep, Promise!Next

(* What a workload sees of the server is Invocation: a call is started     *)
(* once and after it was issued, its function replies once and after what  *)
(* it awaits, and the result is delivered once (schedule, dispatch, reply  *)
(* of scheduler.cc, run_func and run_callback of req_server.cc).           *)
THEOREM ServerImplements == Spec => ImplementsInvocation
<1>1. Init => Promise!Init
    BY InitImplements
<1>2. IInv /\ IInv' /\ [Next]_vars => [Promise!Next]_phase
    BY StepImplements
<1> QED BY <1>1, <1>2, Invariance, PTL DEF Spec, ImplementsInvocation, Promise!Spec

-----------------------------------------------------------------------------
(* What is known of shard d across a step: that nothing has changed for    *)
(* dispatch(), or that a dispatch() is now to come; or that one was called.*)
Undisturbed(d) ==
    /\ task_map'[d] = task_map[d]
    /\ Backlog(d)' => Backlog(d) \/ Coming(d)'
    /\ Coming(d) => Coming(d)'
    /\ \A k \in Calls : TakenUp(k, d) => TakenUp(k, d)' \/ Coming(d)'

Served(d) == Backlog(d)' => ready'[d] # {}

Settled == \A d \in Cores : Undisturbed(d) \/ Served(d)

(* dispatch() leaves a call that it could hand out only if it has handed   *)
(* out another; it moves tasks, and loses none.                            *)
LEMMA DispatchServes ==
    ASSUME IInv, NEW c \in Cores, NEW queue, NEW tasks, NEW run,
           Dispatch(c, queue, tasks, curr_wf'[c], run)
    PROVE  /\ Served(c)
           /\ ready'[c] \cup task_map'[c] = run \cup tasks
           /\ \A d \in Cores \ {c} : q'[d] = q[d] /\ task_map'[d] = task_map[d] /\ ready'[d] = ready[d]
<1> DEFINE go == Handed(queue, tasks, curr_wf'[c])
           rest == StillQueued(queue, tasks, curr_wf'[c])
<1>1. /\ ready'[c] = run \cup go /\ task_map'[c] = tasks \ go /\ q'[c] = rest
      /\ \A d \in Cores \ {c} : q'[d] = q[d] /\ task_map'[d] = task_map[d] /\ ready'[d] = ready[d]
    BY DEF Dispatch, IInv, TypeOK
<1>2. go \subseteq tasks
    BY DEF Handed
<1>3. ASSUME Backlog(c)', ready'[c] = {} PROVE FALSE
    <2>1. go = {} /\ rest = queue
        BY <1>1, <1>3 DEF StillQueued
    <2>2. queue # << >> /\ Head(queue) \in tasks /\ curr_wf'[c] = {}
        BY <1>1, <1>3, <2>1 DEF Backlog
    <2>3. Head(queue) \in go
        BY <2>2 DEF Handed
    <2> QED BY <2>1, <2>3
<1> QED BY <1>1, <1>2, <1>3 DEF Served

(* A shard whose tables are not touched is not disturbed unless a dispatch *)
(* or a call of it is.                                                     *)
LEMMA Untouched ==
    ASSUME NEW d \in Cores,
           q'[d] = q[d], task_map'[d] = task_map[d], curr_wf'[d] = curr_wf[d],
           Coming(d) => Coming(d)',
           \A k \in Calls : TakenUp(k, d) => OnShard(k)' /\ at'[k] = d
    PROVE  Undisturbed(d)
BY DEF Undisturbed, Backlog, TakenUp

(* schedule(): the chosen shard has the new call in its queue, and dispatch*)
(* is called there if it is this one.                                      *)
LEMMA ScheduleSettles ==
    ASSUME IInv, NEW c \in Cores, NEW k \in Calls \ issued, NEW states,
           Schedule(c, k, states), UNCHANGED <<js, owed>>
    PROVE  Settled
<1>1. PICK d \in Cores :
        LET placed == IF Fused(k) /\ k \notin Roots THEN q[d] ELSE Append(q[d], k)
        IN  /\ at' = [at EXCEPT ![k] = d]
            /\ issued' = issued \cup {k}
            /\ IF d = c
               THEN RunFunc(c, k, placed) /\ net' = net
               ELSE /\ net' = net \cup {Msg("run_func", k, c, d)}
                    /\ q' = [q EXCEPT ![d] = placed]
                    /\ UNCHANGED <<task_map, ready, curr_req, curr_wf>>
    BY HwCoresAssumption DEF Schedule, Candidates
<1>2. \A j \in Calls \ {k} : InFlight(j)' => InFlight(j)
    BY <1>1 DEF InFlight, Msg
<1>3. \A e \in Cores : /\ \A j \in Calls : TakenUp(j, e) => OnShard(j)' /\ at'[j] = e
                       /\ Coming(e) => Coming(e)'
    <2>1. \A m \in net : m \in net'
        BY <1>1
    <2>2. \A e \in Cores : at'[owed[e]] = at[owed[e]] \/ owed[e] = NoCall
        BY <1>1 DEF IInv, TypeOK, MicroInv
    <2>3. \A e \in Cores : Coming(e) => Coming(e)'
        BY <2>1, <2>2 DEF Coming
    <2>4. \A e \in Cores, j \in Calls : TakenUp(j, e) => OnShard(j)' /\ at'[j] = e
        BY <1>1, <1>2 DEF TakenUp, OnShard, IInv, TypeOK
    <2> QED BY <2>3, <2>4
<1>4. CASE d = c
    <2>1. /\ \E queue, tasks, run : Dispatch(c, queue, tasks, curr_wf'[c], run)
          /\ \A e \in Cores \ {c} : curr_wf'[e] = curr_wf[e]
        BY <1>1, <1>4 DEF RunFunc, IInv, TypeOK
    <2>2. Served(c) /\ \A e \in Cores \ {c} : q'[e] = q[e] /\ task_map'[e] = task_map[e]
        BY <2>1, DispatchServes
    <2> QED BY <1>3, <2>1, <2>2, Untouched DEF Settled
<1>5. CASE d # c
    <2>1. UNCHANGED <<task_map, curr_wf>> /\ \A e \in Cores \ {d} : q'[e] = q[e]
        BY <1>1, <1>5 DEF IInv, TypeOK
    <2>2. q'[d] = q[d] \/ q'[d] = Append(q[d], k)
        BY <1>1, <1>5 DEF IInv, TypeOK
    <2>3. Backlog(d)' => Backlog(d)
        <3>1. k \notin task_map[d] /\ q[d] \in Seq(Calls)
            BY DEF IInv, TypeOK, TaskInv
        <3>2. Head(Append(q[d], k)) = IF q[d] = << >> THEN k ELSE Head(q[d])
            BY <3>1
        <3> QED BY <2>1, <2>2, <3>1, <3>2 DEF Backlog
    <2>4. Undisturbed(d)
        BY <1>3, <2>1, <2>3 DEF Undisturbed, TakenUp
    <2> QED BY <1>3, <2>1, <2>4, Untouched DEF Settled
<1> QED BY <1>4, <1>5

(* reply() on a function that ran on shard c: dispatch() is called on the  *)
(* shard, or the reply is on its way and will be acknowledged.             *)
LEMMA ReplySettles ==
    ASSUME IInv, WaitInv, NEW c \in Cores, JsReply(c) \/ Throw(c)
    PROVE  Settled
<1> DEFINE k == cur[c]
<1>1. /\ k \in Calls /\ at[k] = c
      /\ js' = [js EXCEPT ![k] = "replied"] /\ UNCHANGED <<issued, at>>
    BY OnStack DEF JsReply, Throw
<1>2. \/ /\ UNCHANGED <<net, owed>>
         /\ \E queue, tasks, run : Dispatch(c, queue, tasks, curr_wf'[c], run)
      \/ /\ UNCHANGED <<task_map, ready>>
         /\ \/ net' = net /\ k \in Failing /\ owed' = [owed EXCEPT ![c] = k]
            \/ net' = net \cup {Msg("reply", k, c, req_map[c][k])} /\ owed' = owed
    BY DEF JsReply, Throw, AnswerClient, Callback, Forward
<1>3. \A e \in Cores \ {c} : q'[e] = q[e] /\ task_map'[e] = task_map[e] /\ curr_wf'[e] = curr_wf[e]
    BY DEF JsReply, Throw, AnswerClient, Callback, Forward, Dispatch, IInv, TypeOK
<1>4. \A j \in Calls : InFlight(j)' => InFlight(j)
    BY <1>2 DEF InFlight, Msg
<1>5. \A e \in Cores \ {c} : \A j \in Calls : TakenUp(j, e) => OnShard(j)' /\ at'[j] = e
    BY <1>1, <1>4 DEF TakenUp, OnShard, IInv, TypeOK
<1>6. \A e \in Cores : Coming(e) => Coming(e)'
    <2>1. \A m \in net : m \in net'
        BY <1>2
    <2>2. \A e \in Cores : owed[e] # NoCall => owed'[e] = owed[e]
        BY <1>2, Domains DEF WaitInv, IInv, TypeOK
    <2> QED BY <1>1, <2>1, <2>2 DEF Coming
<1>7. \A e \in Cores \ {c} : Undisturbed(e)
    BY <1>3, <1>5, <1>6, Untouched
<1>8. CASE \E queue, tasks, run : Dispatch(c, queue, tasks, curr_wf'[c], run)
    BY <1>7, <1>8, DispatchServes DEF Settled
<1>9. CASE /\ UNCHANGED <<task_map, ready>>
           /\ \/ net' = net /\ k \in Failing /\ owed' = [owed EXCEPT ![c] = k]
              \/ net' = net \cup {Msg("reply", k, c, req_map[c][k])} /\ owed' = owed
    <2>1. Coming(c)'
        <3>1. CASE owed' = [owed EXCEPT ![c] = k]
            <4>1. owed'[c] = k /\ k # NoCall
                BY <1>1, <3>1, Domains DEF IInv, TypeOK
            <4> QED BY <4>1 DEF Coming
        <3>2. CASE net' = net \cup {Msg("reply", k, c, req_map[c][k])}
            <4> DEFINE n == Msg("reply", k, c, req_map[c][k])
            <4>1. n.type = "reply" /\ n.from = c
                BY DEF Msg
            <4>2. n \in net'
                BY <3>2
            <4> HIDE DEF n
            <4> QED BY <4>1, <4>2 DEF Coming
        <3> QED BY <1>9, <3>1, <3>2
    <2>2. Undisturbed(c)
        BY <1>9, <2>1 DEF Undisturbed
    <2> QED BY <1>7, <2>2 DEF Settled
<1> QED BY <1>2, <1>8, <1>9

(* A reply message: the shard it came from is to get an acknowledgement.   *)
LEMMA RecvReplySettles ==
    ASSUME IInv, NEW c \in Cores, NEW m \in net, RecvReply(c, m)
    PROVE  Settled
<1> DEFINE k == m.call
           f == m.from
<1>1. /\ k \in Calls /\ f \in Cores /\ at[k] = f /\ f # c /\ m.type = "reply" /\ k \in issued
      /\ owed[c] = NoCall /\ UNCHANGED <<js, issued, at>>
    BY DEF RecvReply, Idle, IInv, TypeOK, MsgInv, TreeInv, Messages
<1>2. \/ /\ owed' = owed /\ net' = (net \ {m}) \cup {Msg("ack", k, c, f)}
         /\ \E queue, tasks, run : Dispatch(c, queue, tasks, curr_wf'[c], run)
      \/ /\ owed' = [owed EXCEPT ![c] = k] /\ net' = net \ {m}
         /\ UNCHANGED <<task_map, ready>>
    BY DEF RecvReply, AnswerClient, Callback
<1>3. \A e \in Cores \ {c} : q'[e] = q[e] /\ task_map'[e] = task_map[e] /\ curr_wf'[e] = curr_wf[e]
    BY DEF RecvReply, AnswerClient, Callback, Dispatch, IInv, TypeOK
<1>4. \A j \in Calls : InFlight(j)' => InFlight(j)
    BY <1>2 DEF InFlight, Msg
<1>5. \A e \in Cores : \A j \in Calls : TakenUp(j, e) => OnShard(j)' /\ at'[j] = e
    BY <1>1, <1>4 DEF TakenUp, OnShard
<1>6. Coming(f)'
    <2>1. CASE net' = (net \ {m}) \cup {Msg("ack", k, c, f)}
        <3> DEFINE n == Msg("ack", k, c, f)
        <3>1. n.type = "ack" /\ n.to = f
            BY DEF Msg
        <3>2. n \in net'
            BY <2>1
        <3> HIDE DEF n
        <3> QED BY <3>1, <3>2 DEF Coming
    <2>2. CASE owed' = [owed EXCEPT ![c] = k]
        <3>1. owed'[c] = k /\ k # NoCall /\ at'[k] = f
            BY <1>1, <2>2, Domains DEF IInv, TypeOK
        <3> QED BY <3>1 DEF Coming
    <2> QED BY <1>2, <2>1, <2>2
<1>7. \A e \in Cores \ {f} : Coming(e) => Coming(e)'
    <2>1. \A n \in net : n \in net' \/ n = m
        BY <1>2
    <2>2. \A e \in Cores : owed[e] # NoCall => owed'[e] = owed[e]
        BY <1>1, <1>2 DEF IInv, TypeOK
    <2> QED BY <1>1, <2>1, <2>2 DEF Coming
<1>8. \A e \in Cores \ {c} : Undisturbed(e)
    BY <1>3, <1>5, <1>6, <1>7, Untouched
<1>9. CASE \E queue, tasks, run : Dispatch(c, queue, tasks, curr_wf'[c], run)
    BY <1>8, <1>9, DispatchServes DEF Settled
<1>10. CASE owed' = [owed EXCEPT ![c] = k] /\ UNCHANGED <<task_map, ready>>
    <2>1. Coming(c)'
        BY <1>1, <1>10, Domains DEF Coming, IInv, TypeOK
    <2>2. Undisturbed(c)
        BY <1>10, <2>1 DEF Undisturbed
    <2> QED BY <1>8, <2>2 DEF Settled
<1> QED BY <1>2, <1>9, <1>10

(* run_func in a message, and the two dispatches after a forwarded reply.  *)
LEMMA MessageSettles ==
    ASSUME IInv, NEW c \in Cores,
           \/ \E m \in net : RecvRun(c, m) \/ RecvAck(c, m)
           \/ Finish(c)
    PROVE  Settled
<1>1. /\ UNCHANGED <<js, issued, at>>
      /\ \E queue, tasks, run : Dispatch(c, queue, tasks, curr_wf'[c], run)
      /\ \A e \in Cores \ {c} : curr_wf'[e] = curr_wf[e]
    BY DEF RecvRun, RecvAck, Finish, RunFunc, IInv, TypeOK
<1>2. \A j \in Calls : InFlight(j)' => InFlight(j)
    BY DEF RecvRun, RecvAck, Finish, InFlight, Msg
<1>3. \A e \in Cores \ {c} : Coming(e) => Coming(e)'
    <2>1. ASSUME NEW m \in net, RecvRun(c, m) \/ RecvAck(c, m), NEW e \in Cores \ {c}, Coming(e)
          PROVE  Coming(e)'
        <3>1. owed' = owed /\ at' = at /\ net' = net \ {m}
              /\ (m.type = "run_func" \/ (m.type = "ack" /\ m.to = c))
            BY <2>1 DEF RecvRun, RecvAck
        <3> QED BY <2>1, <3>1 DEF Coming
    <2>2. ASSUME Finish(c), NEW e \in Cores \ {c}, Coming(e) PROVE Coming(e)'
        <3>1. /\ owed' = [owed EXCEPT ![c] = NoCall] /\ at' = at /\ \A m \in net : m \in net'
              /\ at[owed[c]] = e => Msg("ack", owed[c], c, e) \in net'
            BY <2>2 DEF Finish
        <3>2. CASE at[owed[c]] = e
            BY <3>1, <3>2 DEF Coming, Msg
        <3>3. CASE at[owed[c]] # e
            BY <2>2, <3>1, <3>3 DEF Coming, IInv, TypeOK
        <3> QED BY <3>2, <3>3
    <2> QED BY <2>1, <2>2
<1>4. \A e \in Cores : \A j \in Calls : TakenUp(j, e) => OnShard(j)' /\ at'[j] = e
    BY <1>1, <1>2 DEF TakenUp, OnShard
<1>5. Served(c) /\ \A e \in Cores \ {c} : q'[e] = q[e] /\ task_map'[e] = task_map[e]
    BY <1>1, DispatchServes
<1> QED BY <1>1, <1>3, <1>4, <1>5, Untouched DEF Settled

(* Every step of the server.                                               *)
LEMMA StepSettles ==
    ASSUME IInv, WaitInv, [Next]_vars
    PROVE  Settled
<1>1. ASSUME NEW c \in Cores, NEW r \in Roots, Accept(c, r) PROVE Settled
    <2>1. r \in Calls \ issued /\ Schedule(c, r, [req_map[c] EXCEPT ![r] = Local])
          /\ UNCHANGED <<js, owed>>
        BY <1>1 DEF Accept, Roots
    <2> QED BY <2>1, ScheduleSettles
<1>2. ASSUME NEW c \in Cores, NEW k \in Calls, IssueCall(c, k) PROVE Settled
    <2>1. k \in Calls \ issued /\ Schedule(c, k, req_map[c]) /\ UNCHANGED <<js, owed>>
        BY <1>2 DEF IssueCall
    <2> QED BY <2>1, ScheduleSettles
<1>3. ASSUME UNCHANGED <<serverVars, net, owed, issued, at>>,
             \A k \in Calls : js[k] # "replied" => js'[k] # "replied"
      PROVE  Settled
    BY <1>3, Untouched DEF Settled, serverVars, Coming, TakenUp, OnShard, InFlight
<1>4. ASSUME NEW c \in Cores, NEW k \in Calls, RunTask(c, k) PROVE Settled
    <2>1. js' = [js EXCEPT ![k] = "running"] /\ UNCHANGED <<serverVars, net, owed, issued, at>>
        BY <1>4 DEF RunTask
    <2> QED BY <2>1, <1>3 DEF IInv, TypeOK
<1>5. ASSUME NEW c \in Cores, JsYield(c) \/ NextMicro(c) PROVE Settled
    BY <1>3, <1>5 DEF JsYield, NextMicro
<1>6. CASE UNCHANGED vars
    BY <1>3, <1>6 DEF vars
<1> QED BY <1>1, <1>2, <1>4, <1>5, <1>6, ReplySettles, RecvReplySettles, MessageSettles
        DEF Next, ShardStep

(* A step issues one call at most, and calls stay issued.                  *)
LEMMA OneIssued ==
    ASSUME [Next]_vars
    PROVE  issued \subseteq issued' /\ \A j, k \in issued' \ issued : j = k
<1>1. ASSUME NEW k, issued' = issued \cup {k}
      PROVE  issued \subseteq issued' /\ \A i, j \in issued' \ issued : i = j
    BY <1>1
<1>2. ASSUME NEW c \in Cores, NEW k, Accept(c, k) \/ IssueCall(c, k)
      PROVE  issued' = issued \cup {k}
    BY <1>2 DEF Accept, IssueCall, Schedule
<1>3. CASE issued' = issued
    BY <1>3
<1>4. ASSUME NEW c \in Cores,
             \/ \E k \in Calls : RunTask(c, k)
             \/ JsReply(c) \/ JsYield(c) \/ Throw(c) \/ NextMicro(c) \/ Finish(c)
             \/ \E m \in net : RecvRun(c, m) \/ RecvReply(c, m) \/ RecvAck(c, m)
      PROVE  issued' = issued
    BY <1>4 DEF RunTask, JsReply, JsYield, Throw, NextMicro, Finish, RecvRun, RecvReply, RecvAck
<1>5. CASE UNCHANGED vars
    BY <1>5 DEF vars
<1>6. CASE Next
    <2>1. PICK c \in Cores : ShardStep(c) \/ \E r \in Roots : Accept(c, r)
        BY <1>6 DEF Next
    <2>2. \/ issued' = issued
          \/ \E r \in Roots : Accept(c, r)
          \/ \E k \in Calls : IssueCall(c, k)
        BY <2>1, <1>4 DEF ShardStep
    <2> QED BY <2>2, <1>1, <1>2, <1>3
<1> QED BY <1>3, <1>5, <1>6

(* The order goes on: a call that is issued now is the last one, and so are*)
(* the dispatches of this step, which come after it.                       *)
LEMMA OrderStep ==
    ASSUME IInv, IInv', WaitInv, OrderInv, [Next]_vars
    PROVE  OrderInv'
<1>1. PICK now \in Nat, stamp \in [Cores -> Nat], born \in [Calls -> Nat],
           last \in [Cores -> Calls \cup {NoCall}] : Ordered(now, stamp, born, last)
    BY DEF OrderInv
<1>2. PICK D \in SUBSET Cores : \A c \in Cores : c \notin D <=> Undisturbed(c)
    <2> WITNESS {c \in Cores : ~Undisturbed(c)} \in SUBSET Cores
    <2> QED OBVIOUS
<1>3. PICK s \in [Cores -> Nat] :
           \A c \in Cores : s[c] = IF c \in D THEN now + 2 ELSE stamp[c]
    <2> WITNESS [c \in Cores |-> IF c \in D THEN now + 2 ELSE stamp[c]] \in [Cores -> Nat]
    <2> QED OBVIOUS
<1>4. PICK b \in [Calls -> Nat] :
           \A k \in Calls : b[k] = IF k \in issued THEN born[k] ELSE now + 1
    <2> WITNESS [k \in Calls |-> IF k \in issued THEN born[k] ELSE now + 1] \in [Calls -> Nat]
    <2> QED OBVIOUS
<1>5. PICK l \in [Cores -> Calls \cup {NoCall}] :
           \A c \in Cores : IF c \notin D THEN l[c] = last[c]
                             ELSE IF ready'[c] = {} THEN l[c] = NoCall ELSE l[c] \in ready'[c]
    <2> DEFINE f == [c \in Cores |-> IF c \notin D THEN last[c] ELSE IF ready'[c] = {} THEN NoCall
                                      ELSE CHOOSE k \in ready'[c] : TRUE]
    <2>1. \A c \in Cores : ready'[c] \subseteq Calls
        BY DEF IInv, TypeOK
    <2>2. f \in [Cores -> Calls \cup {NoCall}]
        BY <2>1
    <2>3. \A c \in Cores : IF c \notin D THEN f[c] = last[c]
                            ELSE IF ready'[c] = {} THEN f[c] = NoCall ELSE f[c] \in ready'[c]
        OBVIOUS
    <2> HIDE DEF f
    <2> QED BY <2>2, <2>3
<1>6. /\ issued \subseteq issued' /\ \A j, k \in issued' \ issued : j = k
      /\ issued' \subseteq Calls
      /\ \A k \in issued' \ Roots : js'[Parent[k]] # "idle" /\ Parent[k] \in Calls
      /\ \A k \in issued \ Roots : Parent[k] \in issued
      /\ \A k \in issued' \ Roots : Parent[k] \in issued' /\ Parent[k] # k
    BY OneIssued, Domains, ParentAssumption DEF IInv, TypeOK, TreeInv
<1>7. \A c \in D : l[c] # NoCall =>
            /\ l[c] \in Calls /\ l[c] \in ready'[c] /\ js'[l[c]] = "idle" /\ TakenUp(l[c], c)'
    <2> SUFFICES ASSUME NEW c \in D, l[c] # NoCall
                 PROVE  /\ l[c] \in Calls /\ l[c] \in ready'[c]
                        /\ js'[l[c]] = "idle" /\ TakenUp(l[c], c)'
        OBVIOUS
    <2>1. l[c] \in Calls /\ l[c] \in ready'[c]
        BY <1>5
    <2>2. /\ l[c] \in issued' /\ at'[l[c]] = c /\ js'[l[c]] = "idle" /\ ~InFlight(l[c])'
          /\ l[c] \notin task_map'[c]
        BY <2>1 DEF IInv, TaskInv
    <2> QED BY <2>1, <2>2 DEF TakenUp, OnShard
<1>8. /\ \A c \in Cores : stamp[c] <= now
      /\ \A k \in issued : born[k] <= now
    BY <1>1 DEF Ordered
<1>9. \A c \in Cores : s[c] <= now + 2
    BY <1>3, <1>8
<1>10. \A k \in issued' : b[k] <= now + 1
    BY <1>4, <1>6, <1>8
<1>11. \A k \in issued' \ Roots : b[Parent[k]] < b[k]
    <2> SUFFICES ASSUME NEW k \in issued' \ Roots PROVE b[Parent[k]] < b[k]
        OBVIOUS
    <2>1. Parent[k] \in issued
        BY <1>6
    <2>2. CASE k \in issued
        BY <1>1, <1>4, <1>6, <2>1, <2>2 DEF Ordered
    <2>3. CASE k \notin issued
        BY <1>4, <1>6, <1>8, <2>1, <2>3
    <2> QED BY <2>2, <2>3
<1>12. ASSUME NEW c \in Cores, NEW k \in issued' \ Roots, Parent[k] = l[c] PROVE s[c] < b[k]
    <2>1. c \notin D
        <3>1. l[c] \in Calls /\ js'[l[c]] # "idle"
            BY <1>6, <1>12
        <3> QED BY <3>1, <1>7, NoneAssumption
    <2>2. s[c] = stamp[c] /\ l[c] = last[c]
        BY <1>3, <1>5, <2>1
    <2>3. CASE k \in issued
        BY <1>1, <1>4, <1>6, <1>12, <2>2, <2>3 DEF Ordered
    <2>4. CASE k \notin issued
        BY <1>4, <1>6, <1>8, <2>2, <2>4
    <2> QED BY <2>3, <2>4
<1>13. ASSUME NEW c \in Cores, NEW k \in task_map'[c] PROVE b[k] < s[c]
    <2>1. k \in issued'
        BY DEF IInv, TypeOK, TaskInv
    <2>2. CASE c \in D
        BY <1>3, <1>6, <1>10, <2>1, <2>2
    <2>3. CASE c \notin D
        <3>1. k \in task_map[c] /\ k \in issued
            BY <1>2, <2>3 DEF Undisturbed, IInv, TypeOK, TaskInv
        <3> QED BY <1>1, <1>3, <1>4, <1>6, <2>3, <3>1 DEF Ordered
    <2> QED BY <2>2, <2>3
<1>14. ASSUME NEW c \in Cores, Backlog(c)'
       PROVE  Coming(c)' \/ (l[c] # NoCall /\ TakenUp(l[c], c)')
    <2>1. CASE c \in D
        <3>1. Served(c)
            BY <1>2, <2>1, StepSettles DEF Settled
        <3>2. ready'[c] # {} /\ ready'[c] \subseteq Calls
            BY <1>14, <3>1 DEF Served, IInv, TypeOK
        <3>3. l[c] \in ready'[c]
            BY <1>5, <2>1, <3>2
        <3>4. l[c] # NoCall
            BY <3>2, <3>3, Domains DEF IInv
        <3> QED BY <1>7, <2>1, <3>4
    <2>2. CASE c \notin D
        <3>1. Undisturbed(c) /\ l[c] = last[c]
            BY <1>2, <1>5, <2>2
        <3>2. Backlog(c) => Coming(c) \/ (last[c] # NoCall /\ TakenUp(last[c], c))
            BY <1>1 DEF Ordered
        <3> QED BY <1>14, <3>1, <3>2 DEF Undisturbed
    <2> QED BY <2>1, <2>2
<1>15. ASSUME NEW M \in SUBSET Cores, M # {} PROVE \E c \in M : \A d \in M : s[d] <= s[c]
    <2>1. CASE M \cap D # {}
        BY <1>3, <1>9, <2>1
    <2>2. CASE M \cap D = {}
        <3>1. \A c \in M : s[c] = stamp[c]
            BY <1>3, <2>2
        <3> QED BY <1>1, <1>15, <3>1 DEF Ordered
    <2> QED BY <2>1, <2>2
<1>16. ASSUME NEW T \in SUBSET (issued'), T # {} PROVE \E k \in T : \A j \in T : b[j] <= b[k]
    <2>1. CASE T \subseteq issued
        <3>1. \A k \in T : b[k] = born[k]
            BY <1>4, <1>6, <2>1
        <3> QED BY <1>1, <1>16, <2>1, <3>1 DEF Ordered
    <2>2. CASE ~(T \subseteq issued)
        <3>1. PICK k \in T : k \notin issued
            BY <2>2
        <3>2. b[k] = now + 1
            BY <1>4, <1>6, <3>1
        <3> QED BY <1>10, <3>2
    <2> QED BY <2>1, <2>2
<1>17. Ordered(now + 2, s, b, l)'
    <2>1. \A k \in issued' : b[k] <= now + 2
        BY <1>6, <1>10
    <2> QED BY <1>9, <2>1, <1>11, <1>12, <1>13, <1>14, <1>15, <1>16 DEF Ordered
<1>18. now + 2 \in Nat
    OBVIOUS
<1> QED BY <1>17, <1>18 DEF OrderInv

-----------------------------------------------------------------------------
(* WaitInv across schedule(): the new call is on its way, ready or parked. *)
LEMMA ScheduleWaits ==
    ASSUME IInv, WaitInv, NEW c \in Cores, NEW k \in Calls \ issued, NEW states,
           Schedule(c, k, states), UNCHANGED <<js, cur, micro, owed, returned>>
    PROVE  WaitInv'
<1>1. PICK d \in Cores :
        LET placed == IF Fused(k) /\ k \notin Roots THEN q[d] ELSE Append(q[d], k)
        IN  /\ at' = [at EXCEPT ![k] = d]
            /\ issued' = issued \cup {k}
            /\ IF d = c
               THEN RunFunc(c, k, placed) /\ net' = net
               ELSE /\ net' = net \cup {Msg("run_func", k, c, d)}
                    /\ q' = [q EXCEPT ![d] = placed]
                    /\ UNCHANGED <<task_map, ready, curr_req, curr_wf>>
    BY HwCoresAssumption DEF Schedule, Candidates
<1>2. /\ \A e \in Cores : ready[e] \cup task_map[e] \subseteq ready'[e] \cup task_map'[e]
      /\ InFlight(k)' \/ k \in ready'[d] \cup task_map'[d]
    <2>1. CASE d = c
        <3>1. PICK queue, tasks, run :
                  /\ Dispatch(c, queue, tasks, curr_wf'[c], run)
                  /\ ready[c] \cup task_map[c] \cup {k} \subseteq run \cup tasks
            BY <1>1, <2>1 DEF RunFunc, IInv, TypeOK
        <3>2. Dispatch(c, queue, tasks, curr_wf'[c], run)
            BY <3>1
        <3>3. /\ Served(c)
              /\ ready'[c] \cup task_map'[c] = run \cup tasks
              /\ \A e \in Cores \ {c} :
                    q'[e] = q[e] /\ task_map'[e] = task_map[e] /\ ready'[e] = ready[e]
            BY <3>2, DispatchServes, Zenon
        <3>4. \A e \in Cores \ {c} : task_map'[e] = task_map[e] /\ ready'[e] = ready[e]
            BY <3>3
        <3> QED BY <2>1, <3>1, <3>3, <3>4
    <2>2. CASE d # c
        <3> DEFINE n == Msg("run_func", k, c, d)
        <3>1. n.type = "run_func" /\ n.call = k
            BY DEF Msg
        <3>2. n \in net'
            BY <1>1, <2>2
        <3> HIDE DEF n
        <3>3. InFlight(k)'
            BY <3>1, <3>2 DEF InFlight
        <3> QED BY <1>1, <2>2, <3>3
    <2> QED BY <2>1, <2>2
<1>3. Waits(k)'
    <2>1. js'[k] = "idle" /\ at'[k] = d
        BY <1>1 DEF IInv, TypeOK, TreeInv
    <2> QED BY <1>2, <2>1 DEF Waits
<1>4. ASSUME NEW j \in issued PROVE Waits(j)'
    <2>1. /\ j # k /\ j \in Calls /\ at'[j] = at[j] /\ at[j] \in Cores
          /\ Caller(j)' = Caller(j)
        <3>1. j # k /\ j \in Calls /\ at'[j] = at[j] /\ at[j] \in Cores
            BY <1>1 DEF IInv, TypeOK, TreeInv
        <3>2. j \notin Roots => Parent[j] \in issued
            BY <3>1, Domains DEF IInv, TreeInv
        <3>3. Caller(j)' = Caller(j)
            BY <1>1, <3>1, <3>2, Domains DEF Caller, IInv, TypeOK
        <3> QED BY <3>1, <3>3
    <2>2. (InFlight(j) => InFlight(j)') /\ (Replying(j) => Replying(j)')
        BY <1>1 DEF InFlight, Replying
    <2>3. issued \subseteq issued'
        BY <1>1
    <2> QED BY <1>2, <2>1, <2>2, <2>3 DEF Waits, WaitInv
<1> QED BY <1>1, <1>3, <1>4 DEF WaitInv

(* ... across a handler that starts or ends with dispatch(), which loses no*)
(* task; a call in a message is ready or parked after run_func.            *)
LEMMA MessageWaits ==
    ASSUME IInv, WaitInv, NEW c \in Cores,
           \/ \E m \in net : RecvRun(c, m) \/ RecvAck(c, m)
           \/ Finish(c)
    PROVE  WaitInv'
<1>1. /\ UNCHANGED <<js, issued, at, cur, micro, returned>>
      /\ \A e \in Cores : owed'[e] \in {owed[e], NoCall}
    BY DEF RecvRun, RecvAck, Finish, IInv, TypeOK
<1>2. \A k \in Calls : Caller(k)' = Caller(k) /\ (Replying(k) => Replying(k)')
    BY <1>1 DEF Caller, Replying, RecvRun, RecvAck, Finish
<1>3. \A e \in Cores : ready[e] \cup task_map[e] \subseteq ready'[e] \cup task_map'[e]
    <2>1. PICK queue, tasks, run :
              /\ Dispatch(c, queue, tasks, curr_wf'[c], run)
              /\ ready[c] \cup task_map[c] \subseteq run \cup tasks
        <3>1. CASE Finish(c) \/ \E m \in net : RecvAck(c, m)
            <4>1. Dispatch(c, q[c], task_map[c], curr_wf'[c], ready[c])
                BY <3>1 DEF RecvAck, Finish
            <4> QED BY <4>1
        <3>2. ASSUME NEW k, RunFunc(c, k, q[c])
              PROVE  \E queue, tasks, run :
                        /\ Dispatch(c, queue, tasks, curr_wf'[c], run)
                        /\ ready[c] \cup task_map[c] \subseteq run \cup tasks
            BY <3>2 DEF RunFunc
        <3> QED BY <3>1, <3>2 DEF RecvRun
    <2>2. Dispatch(c, queue, tasks, curr_wf'[c], run)
        BY <2>1
    <2>3. /\ Served(c)
          /\ ready'[c] \cup task_map'[c] = run \cup tasks
          /\ \A e \in Cores \ {c} :
                q'[e] = q[e] /\ task_map'[e] = task_map[e] /\ ready'[e] = ready[e]
        BY <2>2, DispatchServes, Zenon
    <2>4. \A e \in Cores \ {c} : task_map'[e] = task_map[e] /\ ready'[e] = ready[e]
        BY <2>3
    <2> QED BY <2>1, <2>3, <2>4
<1>4. ASSUME NEW k \in issued, InFlight(k)
      PROVE  InFlight(k)' \/ k \in ready'[at[k]] \cup task_map'[at[k]]
    <2>1. ASSUME NEW m \in net, RecvRun(c, m), m.call = k
          PROVE  k \in ready'[at[k]] \cup task_map'[at[k]]
        <3>1. at[k] = c
            BY <2>1 DEF RecvRun, IInv, MsgInv
        <3>2. PICK queue, tasks, run :
                  Dispatch(c, queue, tasks, curr_wf'[c], run) /\ k \in run \cup tasks
            BY <2>1 DEF RecvRun, RunFunc, IInv, TypeOK
        <3> QED BY <3>1, <3>2, DispatchServes
    <2>2. ASSUME \A m \in net : m.type = "run_func" /\ m.call = k => m \in net'
          PROVE  InFlight(k)'
        BY <1>4, <2>2 DEF InFlight
    <2> QED BY <2>1, <2>2 DEF RecvRun, RecvAck, Finish
<1>5. \A k \in issued : k \in Calls /\ at[k] \in Cores
    BY DEF IInv, TypeOK, TreeInv
<1> QED BY <1>1, <1>2, <1>3, <1>4, <1>5 DEF WaitInv, Waits

(* ... when a task runs, a function returns to wait, or a continuation runs*)
(* with the result its caller was waiting for.                             *)
LEMMA FunctionWaits ==
    ASSUME IInv, WaitInv, NEW c \in Cores,
           (\E k \in Calls : RunTask(c, k)) \/ JsYield(c) \/ NextMicro(c)
    PROVE  WaitInv'
<1>1. /\ UNCHANGED <<net, task_map, issued, at, owed>>
      /\ \A e \in Cores \ {c} : /\ ready'[e] = ready[e]
                               /\ cur'[e] = cur[e] /\ micro'[e] = micro[e]
    BY DEF RunTask, JsYield, NextMicro, serverVars, IInv, TypeOK
<1>2. \A k \in Calls : Caller(k)' = Caller(k) /\ Replying(k)' = Replying(k) /\ InFlight(k)' = InFlight(k)
    BY <1>1 DEF Caller, Replying, InFlight
<1>3. \A j \in issued : j \in Calls /\ at[j] \in Cores
    BY DEF IInv, TypeOK, TreeInv
<1>4. ASSUME NEW k \in Calls, RunTask(c, k) PROVE WaitInv'
    <2>1. /\ js' = [js EXCEPT ![k] = "running"] /\ ready' = [ready EXCEPT ![c] = @ \ {k}]
          /\ cur' = [cur EXCEPT ![c] = k] /\ UNCHANGED <<micro, returned>>
          /\ at[k] = c /\ cur[c] = NoCall /\ owed[c] = NoCall
        BY <1>4 DEF RunTask, Idle, IInv, TaskInv
    <2>2. ASSUME NEW j \in issued PROVE Waits(j)'
        <3>1. CASE j = k
            BY <1>1, <2>1, <3>1 DEF Waits, IInv, TypeOK
        <3>2. CASE j # k
            <4>1. js'[j] = js[j] /\ (j \in ready[at[j]] => j \in ready'[at[j]])
                BY <1>3, <2>1, <3>2 DEF IInv, TypeOK
            <4>2. cur[at[j]] = j => cur'[at[j]] = j
                BY <1>3, <2>1, NoneAssumption DEF IInv, TypeOK
            <4> QED BY <1>1, <1>2, <1>3, <2>1, <4>1, <4>2 DEF Waits, WaitInv, Awaited, Children
        <3> QED BY <3>1, <3>2
    <2>3. \A e \in Cores : cur'[e] \in Failing => owed'[e] = NoCall
        BY <1>1, <2>1 DEF WaitInv
    <2> QED BY <1>1, <2>2, <2>3 DEF WaitInv
<1>5. CASE JsYield(c)
    <2>1. /\ cur[c] # NoCall /\ Awaited(cur[c]) \cap (issued \ returned) # {}
          /\ cur' = [cur EXCEPT ![c] = NoCall] /\ UNCHANGED <<js, ready, micro, returned>>
        BY <1>5 DEF JsYield
    <2>2. ASSUME NEW j \in issued PROVE Waits(j)'
        <3>1. cur[at[j]] = j => cur'[at[j]] = j \/ Awaited(j) \cap (issued \ returned) # {}
            BY <1>3, <2>1 DEF IInv, TypeOK
        <3> QED BY <1>1, <1>2, <1>3, <2>1, <3>1 DEF Waits, WaitInv, Awaited, Children
    <2>3. \A e \in Cores : cur'[e] \in Failing => owed'[e] = NoCall
        BY <1>1, <2>1, NoneAssumption, FailingAssumption DEF WaitInv, IInv, TypeOK
    <2> QED BY <1>1, <2>2, <2>3 DEF WaitInv
<1>6. CASE NextMicro(c)
    <2> DEFINE k == Head(micro[c])
    <2>1. /\ cur[c] = NoCall /\ micro[c] # << >> /\ returned' = returned \cup {k}
          /\ cur' = [cur EXCEPT ![c] = IF k \in Detached THEN NoCall ELSE Parent[k]]
          /\ micro' = [micro EXCEPT ![c] = Tail(@)] /\ UNCHANGED <<js, ready>>
        BY <1>6 DEF NextMicro
    <2>2. /\ micro[c] \in Seq(Calls) /\ IsInjective(micro[c]) /\ k \in ToSet(micro[c])
          /\ ToSet(Tail(micro[c])) = ToSet(micro[c]) \ {k}
        <3>1. micro[c] \in Seq(Calls) /\ IsInjective(micro[c])
            BY DEF IInv, TypeOK, MicroInv
        <3>2. k \in ToSet(micro[c])
            BY <3>1, <2>1 DEF ToSet
        <3> QED BY <3>1, <3>2, <2>1, TailFacts
    <2>3. k \in Calls \ Roots /\ at[Parent[k]] = c /\ Parent[k] \in Calls
        BY <2>2, Domains DEF IInv, MicroInv, Caller
    <2>4. ASSUME NEW j \in issued PROVE Waits(j)'
        <3>1. cur[at[j]] = j => cur'[at[j]] = j
            BY <1>3, <2>1, NoneAssumption DEF IInv, TypeOK
        <3>2. Awaited(j) \cap (issued \ returned) # {} =>
                  cur'[at[j]] = j \/ Awaited(j) \cap (issued \ returned') # {}
            <4>1. CASE k \in Awaited(j)
                BY <4>1, <2>1, <2>3 DEF Awaited, Children, IInv, TypeOK
            <4>2. CASE k \notin Awaited(j)
                BY <4>2, <2>1
            <4> QED BY <4>1, <4>2
        <3>3. \A e \in Cores : j \in ToSet(micro[e]) => j \in returned' \/ j \in ToSet(micro'[e])
            BY <1>1, <2>1, <2>2 DEF IInv, TypeOK
        <3>4. js[j] = "replied" /\ ~Replying(j) => j \in returned' \/ j \in ToSet(micro'[Caller(j)])
            <4>1. Caller(j) \in Cores
                BY <1>3, Domains DEF Caller, IInv, TreeInv
            <4> QED BY <4>1, <3>3, <2>1 DEF WaitInv, Waits
        <3> QED BY <1>1, <1>2, <1>3, <2>1, <3>1, <3>2, <3>4 DEF Waits, WaitInv, Awaited, Children
    <2>5. \A e \in Cores : cur'[e] \in Failing => owed'[e] = NoCall
        BY <1>1, <2>1, <2>3, NoneAssumption, FailingAssumption DEF WaitInv, IInv, TypeOK
    <2> QED BY <1>1, <2>4, <2>5 DEF WaitInv
<1> QED BY <1>4, <1>5, <1>6

(* ... and when a function replies, or its reply arrives: the result is at *)
(* the client, in a message, or in a continuation on the caller's shard.   *)
LEMMA ReplyWaits ==
    ASSUME IInv, WaitInv, NEW c \in Cores, NEW k \in Calls,
           \/ k = cur[c] /\ (JsReply(c) \/ Throw(c))
           \/ \E m \in net : RecvReply(c, m) /\ m.call = k
    PROVE  WaitInv'
<1>1. /\ js' = [js EXCEPT ![k] = "replied"] /\ UNCHANGED <<issued, at>>
      /\ cur' = [cur EXCEPT ![c] = NoCall]
      /\ k \in issued
    <2>1. CASE k = cur[c] /\ (JsReply(c) \/ Throw(c))
        BY <2>1, OnStack, NoneAssumption DEF JsReply, Throw
    <2>2. ASSUME NEW m \in net, RecvReply(c, m), m.call = k
          PROVE  /\ js' = [js EXCEPT ![k] = "replied"] /\ UNCHANGED <<issued, at>>
                 /\ cur' = [cur EXCEPT ![c] = NoCall]
                 /\ k \in issued
        <3>1. js[k] = "replied" /\ cur[c] = NoCall /\ UNCHANGED <<js, cur, issued, at>>
            BY <2>2 DEF RecvReply, Idle, IInv, MsgInv
        <3> QED BY <3>1 DEF IInv, TypeOK, TreeInv
    <2> QED BY <2>1, <2>2
<1>2. /\ \A j \in Calls : InFlight(j) => InFlight(j)'
      /\ \A j \in Calls \ {k} : Replying(j) => Replying(j)'
    BY DEF InFlight, Replying, JsReply, Throw, RecvReply, AnswerClient, Callback, Forward
<1>3. \/ /\ req_map[c][k] = Local /\ returned' = returned \cup {k} /\ micro' = micro
      \/ /\ req_map[c][k] = c /\ returned' = returned
         /\ micro' = [micro EXCEPT ![c] = Append(@, k)]
      \/ /\ returned' = returned /\ micro' = micro
         /\ Msg("reply", k, c, req_map[c][k]) \in net'
    BY DEF JsReply, Throw, RecvReply, AnswerClient, Callback, Forward
<1>4. /\ req_map[c][k] = Local => k \in Roots
      /\ req_map[c][k] = c => Caller(k) = c
    <2>1. req_map[c][k] = ExpectedState(c, k)
        BY DEF IInv, StateInv
    <2>2. Caller(k) \in Cores
        BY <1>1, Domains DEF Caller, IInv, TypeOK, TreeInv
    <2>3. NoState # Local
        BY DEF NoState, Local
    <2> QED BY <2>1, <2>2, <2>3, ReplyStateAssumption DEF ExpectedState
<1>5. \A e \in Cores : ready[e] \cup task_map[e] \subseteq ready'[e] \cup task_map'[e]
    <2>1. CASE UNCHANGED <<ready, task_map>>
        BY <2>1
    <2>2. ASSUME NEW queue, Dispatch(c, queue, task_map[c], curr_wf'[c], ready[c])
          PROVE  \A e \in Cores : ready[e] \cup task_map[e] \subseteq ready'[e] \cup task_map'[e]
        <3>1. /\ ready'[c] \cup task_map'[c] = ready[c] \cup task_map[c]
              /\ \A d \in Cores \ {c} :
                    q'[d] = q[d] /\ task_map'[d] = task_map[d] /\ ready'[d] = ready[d]
            BY <2>2, DispatchServes, Zenon
        <3> QED BY <3>1
    <2>3. \/ UNCHANGED <<ready, task_map>>
          \/ \E queue : Dispatch(c, queue, task_map[c], curr_wf'[c], ready[c])
        BY DEF JsReply, Throw, RecvReply, AnswerClient, Callback, Forward
    <2> QED BY <2>1, <2>2, <2>3
<1>6. \A j \in Calls : Caller(j)' = Caller(j)
    BY <1>1 DEF Caller
<1>7. \A j \in issued : j \in Calls /\ at[j] \in Cores /\ Caller(j) \in Cores
    BY Domains DEF Caller, IInv, TypeOK, TreeInv
<1>8. \A e \in Cores : /\ ToSet(micro[e]) \subseteq ToSet(micro'[e])
                       /\ micro' = [micro EXCEPT ![c] = Append(@, k)] => k \in ToSet(micro'[c])
    <2>1. \A e \in Cores : micro[e] \in Seq(Calls)
        BY DEF IInv, TypeOK
    <2>2. ToSet(Append(micro[c], k)) = ToSet(micro[c]) \cup {k}
        BY <2>1, AppendFacts
    <2> QED BY <1>3, <2>2 DEF IInv, TypeOK
<1>9. Waits(k)'
    <2>1. js'[k] = "replied"
        BY <1>1 DEF IInv, TypeOK
    <2>2. CASE Msg("reply", k, c, req_map[c][k]) \in net'
        <3> DEFINE n == Msg("reply", k, c, req_map[c][k])
        <3>1. n.type = "reply" /\ n.call = k /\ n \in net'
            BY <2>2 DEF Msg
        <3> HIDE DEF n
        <3> QED BY <2>1, <3>1 DEF Waits, Replying
    <2>3. CASE req_map[c][k] = c /\ micro' = [micro EXCEPT ![c] = Append(@, k)]
        BY <2>1, <2>3, <1>4, <1>6, <1>8 DEF Waits
    <2>4. CASE returned' = returned \cup {k}
        BY <2>1, <2>4 DEF Waits
    <2> QED BY <1>3, <2>2, <2>3, <2>4
<1>10. ASSUME NEW j \in issued, j # k PROVE Waits(j)'
    <2>1. js'[j] = js[j] /\ j \in Calls
        BY <1>1, <1>7, <1>10 DEF IInv, TypeOK
    <2>2. js[j] = "running" /\ cur[at[j]] = j => cur'[at[j]] = j
        <3>1. \/ cur[c] = k
              \/ cur[c] = NoCall
            BY DEF RecvReply, Idle
        <3> QED BY <3>1, <1>1, <1>7, <1>10, NoneAssumption DEF IInv, TypeOK
    <2>3. Awaited(j) \cap (issued \ returned) # {} => Awaited(j) \cap (issued \ returned') # {}
        <3>1. CASE returned' = returned
            BY <3>1
        <3>2. CASE k \in Roots /\ returned' = returned \cup {k}
            <4>1. k \notin Awaited(j)
                BY <3>2, <2>1, NoneAssumption DEF Roots, Awaited, Children
            <4> QED BY <3>2, <4>1
        <3> QED BY <1>3, <1>4, <3>1, <3>2
    <2>4. returned \subseteq returned'
        BY <1>3
    <2>5. /\ js[j] = "idle" => InFlight(j)' \/ j \in ready'[at[j]] \cup task_map'[at[j]]
        BY <1>2, <1>5, <1>7, <2>1 DEF WaitInv, Waits
    <2>6. js[j] = "replied" => j \in returned' \/ Replying(j)' \/ j \in ToSet(micro'[Caller(j)])
        BY <1>2, <1>7, <1>8, <1>10, <2>1, <2>4 DEF WaitInv, Waits
    <2>7. js[j] = "running" => cur[at[j]] = j \/ Awaited(j) \cap (issued \ returned) # {}
        BY DEF WaitInv, Waits
    <2> QED BY <1>1, <1>6, <2>1, <2>2, <2>3, <2>5, <2>6, <2>7 DEF Waits, Awaited, Children
<1>11. \A e \in Cores : cur'[e] \in Failing => owed'[e] = NoCall
    <2>1. \A e \in Cores \ {c} : owed'[e] = owed[e]
        BY DEF JsReply, Throw, RecvReply, IInv, TypeOK
    <2> QED BY <1>1, <2>1, NoneAssumption, FailingAssumption DEF WaitInv, IInv, TypeOK
<1> QED BY <1>1, <1>9, <1>10, <1>11 DEF WaitInv

(* Every step of the server keeps every call somewhere.                    *)
LEMMA WaitStep ==
    ASSUME IInv, WaitInv, [Next]_vars
    PROVE  WaitInv'
<1>1. ASSUME NEW c \in Cores, NEW r \in Roots, Accept(c, r) PROVE WaitInv'
    <2>1. r \in Calls \ issued /\ Schedule(c, r, [req_map[c] EXCEPT ![r] = Local])
          /\ UNCHANGED <<js, cur, micro, owed, returned>>
        BY <1>1 DEF Accept, Roots
    <2> QED BY <2>1, ScheduleWaits
<1>2. ASSUME NEW c \in Cores, NEW k \in Calls, IssueCall(c, k) PROVE WaitInv'
    <2>1. k \in Calls \ issued /\ Schedule(c, k, req_map[c])
          /\ UNCHANGED <<js, cur, micro, owed, returned>>
        BY <1>2 DEF IssueCall
    <2> QED BY <2>1, ScheduleWaits
<1>3. ASSUME NEW c \in Cores, JsReply(c) \/ Throw(c) PROVE WaitInv'
    <2>1. cur[c] \in Calls
        BY <1>3 DEF JsReply, Throw, IInv, TypeOK
    <2> QED BY <1>3, <2>1, ReplyWaits
<1>4. ASSUME NEW c \in Cores, NEW m \in net, RecvReply(c, m) PROVE WaitInv'
    <2>1. m.call \in Calls
        BY DEF IInv, TypeOK, Messages
    <2> QED BY <1>4, <2>1, ReplyWaits
<1>5. CASE UNCHANGED vars
    BY <1>5 DEF vars, serverVars, WaitInv, Waits, InFlight, Replying, Caller, Awaited, Children
<1> QED BY <1>1, <1>2, <1>3, <1>4, <1>5, MessageWaits, FunctionWaits DEF Next, ShardStep

(* A server at rest has nothing left of any call.  If calls were left, the *)
(* last one issued would be parked (it waits for no other); so some shards *)
(* have parked tasks.  Of these the one with the last dispatch has taken up*)
(* a call, which waits, so that calls were issued after that dispatch and  *)
(* have not returned; the last of them is parked on a shard that has called*)
(* dispatch later still.                                                   *)
LEMMA QuietIsClean ==
    ASSUME IInv, WaitInv, OrderInv, Quiet
    PROVE  issued \subseteq returned
<1> DEFINE S == issued \ returned
<1>1. SUFFICES ASSUME S # {} PROVE FALSE
    OBVIOUS
<1>2. PICK now \in Nat, stamp \in [Cores -> Nat], born \in [Calls -> Nat],
           last \in [Cores -> Calls \cup {NoCall}] : Ordered(now, stamp, born, last)
    BY DEF OrderInv
<1>3. /\ net = {} /\ \A c \in Cores : /\ cur[c] = NoCall /\ micro[c] = << >>
                                     /\ owed[c] = NoCall /\ ready[c] = {}
    BY DEF Quiet, Idle
<1>4. S \subseteq Calls /\ \A k \in S : at[k] \in Cores /\ Caller(k) \in Cores
    BY Domains DEF IInv, TypeOK, TreeInv, Caller
<1>5. ASSUME NEW k \in S
      PROVE  \/ js[k] = "idle" /\ k \in task_map[at[k]]
             \/ js[k] = "running" /\ Awaited(k) \cap S # {}
    <2>1. js[k] \in {"idle", "running", "replied"} /\ k # NoCall /\ at[k] \in Cores
        BY <1>4, Domains DEF IInv, TypeOK
    <2>2. ~InFlight(k) /\ ~Replying(k) /\ k \notin ToSet(micro[Caller(k)])
        BY <1>3, <1>4 DEF InFlight, Replying, ToSet
    <2> QED BY <1>3, <2>1, <2>2 DEF WaitInv, Waits
<1>6. ASSUME NEW T \in SUBSET S, T # {}, \A k \in T : Awaited(k) \cap S \subseteq T
      PROVE  \E k \in T : k \in task_map[at[k]]
    <2>1. T \in SUBSET issued
        OBVIOUS
    <2>2. PICK k \in T : \A j \in T : born[j] <= born[k]
        BY <1>2, <1>6, <2>1 DEF Ordered
    <2>3. ASSUME NEW j \in Awaited(k) \cap S PROVE FALSE
        <3>1. j \in T /\ j \in issued \ Roots /\ Parent[j] = k
            BY <1>4, <1>6, <2>3, NoneAssumption DEF Awaited, Children, Roots
        <3>2. born[k] < born[j]
            BY <1>2, <3>1 DEF Ordered
        <3> QED BY <1>4, <2>2, <3>1, <3>2
    <2> QED BY <1>5, <2>3
<1>7. \A r \in FusedReqs, c \in Cores : ~(OnShard(r) /\ at[r] = c)
    <2> SUFFICES ASSUME NEW r \in FusedReqs, OnShard(r) PROVE FALSE
        OBVIOUS
    <2> DEFINE T == {k \in S : Fused(k)}
    <2>1. r \in T
        <3>1. r \in Calls /\ Req[r] = r
            BY FusedAssumption, Domains DEF IInv
        <3>2. r \in S
            BY <3>1 DEF OnShard, IInv, TreeInv
        <3> QED BY <3>1, <3>2 DEF Fused
    <2>2. \A k \in T : Awaited(k) \cap S \subseteq T
        BY <1>4, ReqAssumption, NoneAssumption DEF Awaited, Children, Fused
    <2>3. PICK k \in T : k \in task_map[at[k]]
        BY <1>6, <2>1, <2>2
    <2> QED BY <1>4, <2>3 DEF IInv, TaskInv
<1>8. \A c \in Cores : curr_wf[c] = {}
    BY <1>7 DEF IInv, FusedInv
<1> DEFINE M == {c \in Cores : task_map[c] # {}}
<1>9. PICK c \in M : \A d \in M : stamp[d] <= stamp[c]
    <2>1. M # {}
        BY <1>1, <1>4, <1>6
    <2>2. M \in SUBSET Cores
        OBVIOUS
    <2> QED BY <1>2, <2>1, <2>2 DEF Ordered
<1>10. Backlog(c)
    <2>1. q[c] \in Seq(Calls) /\ q[c] # << >>
        BY <1>9 DEF IInv, TypeOK, QueueInv, ToSet
    <2>2. Head(q[c]) \in ToSet(q[c])
        BY <2>1 DEF ToSet
    <2>3. /\ Head(q[c]) \in issued /\ at[Head(q[c])] = c /\ js[Head(q[c])] # "replied"
          /\ Head(q[c]) \in task_map[c] \/ InFlight(Head(q[c])) \/ Head(q[c]) \in FusedReqs
        BY <1>9, <2>2 DEF IInv, QueueInv
    <2>4. ~InFlight(Head(q[c]))
        BY <1>3 DEF InFlight
    <2>5. Head(q[c]) \in task_map[c]
        BY <1>7, <1>9, <2>3, <2>4 DEF OnShard
    <2> QED BY <1>8, <1>9, <2>1, <2>5 DEF Backlog
<1>11. last[c] # NoCall /\ TakenUp(last[c], c)
    <2>1. ~Coming(c)
        BY <1>3 DEF Coming
    <2> QED BY <1>2, <1>9, <1>10, <2>1 DEF Ordered
<1>12. last[c] \in S /\ Awaited(last[c]) \cap S # {}
    <2>1. last[c] \in S /\ last[c] \notin task_map[at[last[c]]]
        BY <1>11 DEF TakenUp, OnShard, IInv, TreeInv, TypeOK
    <2> QED BY <1>5, <2>1
<1> DEFINE T == {k \in S : stamp[c] < born[k]}
<1>13. T # {}
    <2>1. PICK j \in Awaited(last[c]) \cap S : TRUE
        BY <1>12
    <2>2. j \in issued \ Roots /\ Parent[j] = last[c]
        BY <1>4, <1>11, <2>1 DEF Awaited, Children, Roots
    <2>3. stamp[c] < born[j]
        BY <1>2, <1>9, <2>2 DEF Ordered
    <2> QED BY <2>1, <2>3
<1>14. ASSUME NEW k \in T PROVE Awaited(k) \cap S \subseteq T
    <2> SUFFICES ASSUME NEW j \in Awaited(k) \cap S PROVE stamp[c] < born[j]
        OBVIOUS
    <2>1. j \in issued \ Roots /\ Parent[j] = k
        BY <1>4, NoneAssumption DEF Awaited, Children, Roots
    <2>2. born[k] < born[j]
        BY <1>2, <2>1 DEF Ordered
    <2>3. born[k] \in Nat /\ born[j] \in Nat /\ stamp[c] \in Nat /\ stamp[c] < born[k]
        BY <1>4, <1>9
    <2> QED BY <2>2, <2>3
<1>15. PICK k \in T : k \in task_map[at[k]]
    <2>1. T \in SUBSET S
        OBVIOUS
    <2> QED BY <1>6, <1>13, <1>14, <2>1
<1>16. at[k] \in M /\ born[k] < stamp[at[k]]
    BY <1>2, <1>4, <1>15 DEF Ordered
<1>17. /\ stamp[at[k]] <= stamp[c] /\ stamp[c] < born[k]
       /\ stamp[at[k]] \in Nat /\ stamp[c] \in Nat /\ born[k] \in Nat
    BY <1>4, <1>9, <1>15, <1>16
<1> QED BY <1>16, <1>17

(* ... and all of its tables are empty.                                    *)
LEMMA CleanTables ==
    ASSUME IInv, Quiet, issued \subseteq returned, NEW c \in Cores
    PROVE  /\ q[c] = << >> /\ task_map[c] = {}
           /\ curr_req[c] = {} /\ curr_wf[c] = {} /\ callbacks[c] = {}
           /\ \A k \in Calls : req_map[c][k] = NoState
<1>1. \A k \in Calls : ~OnShard(k) /\ ~Pending(k)
    <2>1. \A k \in Calls : ~Replying(k)
        BY DEF Quiet, Replying
    <2>2. \A k \in issued : js[k] = "replied"
        BY DEF IInv, TreeInv, TypeOK
    <2> QED BY <2>1, <2>2 DEF OnShard, Pending
<1>2. q[c] = << >>
    <2>1. q[c] \in Seq(Calls) /\ \A k \in ToSet(q[c]) : k \in issued /\ js[k] # "replied"
        BY DEF IInv, TypeOK, QueueInv
    <2>2. ToSet(q[c]) = {}
        BY <2>1 DEF IInv, TreeInv, TypeOK
    <2>3. ASSUME q[c] # << >> PROVE Head(q[c]) \in ToSet(q[c])
        BY <2>1, <2>3 DEF ToSet
    <2> QED BY <2>2, <2>3
<1>3. task_map[c] = {}
    BY <1>1 DEF IInv, TaskInv, OnShard, TypeOK
<1>4. curr_req[c] = {} /\ curr_wf[c] = {} /\ callbacks[c] = {}
    BY <1>1, Domains DEF IInv, CurrReqExact, FusedInv, StateInv
<1>5. \A k \in Calls : req_map[c][k] = NoState
    BY <1>1 DEF IInv, StateInv, ExpectedState
<1> QED BY <1>2, <1>3, <1>4, <1>5

(* When the server is started nothing has been issued or dispatched.       *)
LEMMA InitProgress == Init => WaitInv /\ OrderInv
<1> SUFFICES ASSUME Init PROVE WaitInv /\ OrderInv
    OBVIOUS
<1>1. WaitInv
    BY NoneAssumption DEF Init, WaitInv
<1>2. OrderInv
    <2> DEFINE s == [c \in Cores |-> 0]
               b == [k \in Calls |-> 0]
               l == [c \in Cores |-> NoCall]
    <2>1. /\ s \in [Cores -> Nat] /\ \A c \in Cores : s[c] = 0
          /\ b \in [Calls -> Nat] /\ l \in [Cores -> Calls \cup {NoCall}]
        OBVIOUS
    <2> HIDE DEF s, b, l
    <2>2. issued = {} /\ \A c \in Cores : task_map[c] = {}
        BY DEF Init
    <2>3. Ordered(0, s, b, l)
        BY <2>1, <2>2 DEF Ordered, Backlog
    <2> QED BY <2>1, <2>3 DEF OrderInv
<1> QED BY <1>1, <1>2

(* No placement of calls, order of messages and tasks, or moment of a fused*)
(* request strands a call: when no reactor has anything to do, every       *)
(* request was answered, and nothing is left in any table (schedule,       *)
(* dispatch, reply).                                                       *)
THEOREM NothingStranded == Spec => []QuiescentClean
<1>1. Init => WaitInv /\ OrderInv
    BY InitProgress
<1>2. IInv /\ IInv' /\ WaitInv /\ OrderInv /\ [Next]_vars => WaitInv' /\ OrderInv'
    BY WaitStep, OrderStep
<1>3. IInv /\ WaitInv /\ OrderInv => QuiescentClean
    BY QuietIsClean, CleanTables DEF QuiescentClean
<1> QED BY <1>1, <1>2, <1>3, Invariance, PTL DEF Spec
=============================================================================
