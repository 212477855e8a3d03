------------------------ MODULE WorkflowStatsProofs ------------------------
(***************************************************************************)
(* For any number of requests, shards and forwarded replies: the estimate  *)
(* of a fused workflow is the average over the requests of its window, and *)
(* what is left in wf_starts is as little as reply can leave.              *)
(***************************************************************************)
EXTENDS WorkflowStats, TLAPS

Types ==
    /\ now \in Nat
    /\ home \in [Requests -> Cores \cup {None}]
    /\ at \in [Requests -> Cores \cup {None}]
    /\ running \subseteq Requests
    /\ wf_starts \in [Cores -> [Requests -> Nat \cup {None}]]
    /\ count \in [Flows -> Nat]
    /\ total_exec_time \in [Flows -> Int]
    /\ exec_time \in [Flows -> Int]
    /\ began \in [Requests -> Nat]
    /\ took \in [n : Nat, t : Int]

(* The shard that runs the root of a fused request knows when it began:    *)
(* nobody forwards another reply of the request before.                    *)
Noting ==
    \A r \in running :
        /\ at[r] \in Cores /\ home[r] \in Cores
        /\ r \in Fused => wf_starts[at[r]][r] = began[r]

(* The int of a number is a number, and the same one if it is in range.    *)
LEMMA ToIntFacts ==
    ASSUME NEW x \in Int
    PROVE  /\ ToInt(x) \in Int
           /\ x \in 0 .. IntMax => ToInt(x) = x
<1> DEFINE w == 2 * (IntMax + 1)
           y == x % w
<1>1. w \in Nat \ {0} /\ IntMax < w /\ IntMax \in Nat
  BY LimitAssumption
<1>2. ToInt(x) = IF y <= IntMax THEN y ELSE y - w
  BY DEF ToInt
<1> HIDE DEF w
<1>3. y \in Int
  BY <1>1
<1>4. x \in 0 .. IntMax => y = x
  BY <1>1
<1> QED
  BY <1>1, <1>2, <1>3, <1>4

IInv == Types /\ Noting /\ NotesKept /\ FusedIsAverage

(* Nothing has been counted or noted.                                      *)
LEMMA InitIInv == Init => IInv
BY NoneAssumption DEF Init, IInv, Types, Noting, NotesKept, FusedIsAverage, Flows

(* The root of a request begins where no shard has a note of it.           *)
LEMMA StartStep ==
    ASSUME IInv, NEW c \in Cores, NEW d \in Cores, NEW r \in Requests, Start(c, d, r)
    PROVE  IInv'
<1> USE NoneAssumption
<1>1. /\ at[r] = None
      /\ home' = [home EXCEPT ![r] = c] /\ at' = [at EXCEPT ![r] = d]
      /\ running' = running \cup {r}
      /\ wf_starts' = [wf_starts EXCEPT ![d][r] = now]
      /\ began' = [began EXCEPT ![r] = now]
      /\ UNCHANGED <<now, count, total_exec_time, exec_time, took>>
  BY DEF Start, stats
<1>2. r \notin running /\ \A h \in Cores : wf_starts[h][r] = None
  BY <1>1 DEF IInv, Types, Noting, NotesKept
<1>3. Types'
  BY <1>1 DEF IInv, Types
<1>4. Noting'
  BY <1>1, <1>2 DEF IInv, Types, Noting
<1>5. NotesKept'
  BY <1>1, <1>2 DEF IInv, Types, NotesKept
<1>6. FusedIsAverage'
  BY <1>1 DEF IInv, FusedIsAverage
<1> QED
  BY <1>3, <1>4, <1>5, <1>6 DEF IInv

(* What is recorded is a number, and nothing of another workflow.          *)
LEMMA RecordFacts ==
    ASSUME IInv, NEW c \in Cores, NEW r \in Requests, Record(c, r)
    PROVE  /\ count' \in [Flows -> Nat] /\ total_exec_time' \in [Flows -> Int]
           /\ exec_time' \in [Flows -> Int]
           /\ r \notin Fused => /\ count'["fused"] = count["fused"]
                              /\ total_exec_time'["fused"] = total_exec_time["fused"]
                              /\ exec_time'["fused"] = exec_time["fused"]
<1> DEFINE w == Flow(r)
           old == Restarted(w)
           t == old.t + (now - Noted(c, r))
<1>1. w \in Flows /\ old.n \in Nat /\ old.t \in Int /\ "fused" \in Flows
      /\ (r \notin Fused => w # "fused")
  BY DEF Flow, Flows, Restarted, IInv, Types
<1>2. Noted(c, r) \in Int
  BY DEF Noted, IInv, Types
<1>3. t \in Int /\ t \div (old.n + 1) \in Int
  BY <1>1, <1>2 DEF IInv, Types
<1> DEFINE e == ToInt(t \div (old.n + 1))
<1>5. e \in Int
  BY <1>3, ToIntFacts
<1>4. /\ count' = [count EXCEPT ![w] = old.n + 1]
      /\ total_exec_time' = [total_exec_time EXCEPT ![w] = t]
      /\ exec_time' = [exec_time EXCEPT ![w] = e]
  BY DEF Record
<1> HIDE DEF w, old, t, e
<1> QED
  BY <1>1, <1>3, <1>4, <1>5 DEF IInv, Types

(* A sub-call of a request that is not fused leaves the fused statistics   *)
(* alone; there are none of a fused one.                                   *)
LEMMA ForwardSubStep ==
    ASSUME IInv, NEW c \in Cores, NEW r \in Requests, ForwardSub(c, r)
    PROVE  IInv'
<1>1. /\ r \notin Fused /\ Record(c, r)
      /\ wf_starts' = [wf_starts EXCEPT ![c][r] = None]
      /\ UNCHANGED <<now, home, at, running, began, took>>
  BY DEF ForwardSub, SubForwarders
<1>2. Types'
  BY <1>1, RecordFacts DEF IInv, Types
<1>3. Noting'
  BY <1>1 DEF IInv, Types, Noting
<1>4. NotesKept'
  BY <1>1 DEF IInv, Types, NotesKept
<1>5. FusedIsAverage'
  BY <1>1, RecordFacts DEF IInv, FusedIsAverage
<1> QED
  BY <1>2, <1>3, <1>4, <1>5 DEF IInv

(* A root that replies where it was accepted keeps its note.               *)
LEMMA ReplyHomeStep ==
    ASSUME IInv, NEW r \in Requests, ReplyHome(r)
    PROVE  IInv'
<1> USE DEF ReplyHome, stats
<1>1. Types'
  BY DEF IInv, Types
<1>2. Noting'
  BY DEF IInv, Noting
<1>3. NotesKept'
  BY DEF IInv, NotesKept
<1>4. FusedIsAverage'
  BY DEF IInv, FusedIsAverage
<1> QED
  BY <1>1, <1>2, <1>3, <1>4 DEF IInv

(* The time of a fused root is taken from its own note.                    *)
LEMMA ForwardRootStep ==
    ASSUME IInv, NEW r \in Requests, ForwardRoot(r)
    PROVE  IInv'
<1>1. /\ r \in running /\ at[r] # home[r] /\ running' = running \ {r}
      /\ Record(at[r], r)
      /\ wf_starts' = [wf_starts EXCEPT ![at[r]][r] = None]
      /\ UNCHANGED <<now, home, at, began>>
  BY DEF ForwardRoot, EraseNote
<1>2. at[r] \in Cores /\ (r \in Fused => wf_starts[at[r]][r] = began[r])
  BY <1>1 DEF IInv, Noting
<1>3. took' = IF r \notin Fused THEN took
              ELSE IF took.n = Limit THEN [n |-> 1, t |-> now - began[r]]
              ELSE [n |-> took.n + 1, t |-> took.t + (now - began[r])]
  BY DEF ForwardRoot
<1>4. took' \in [n : Nat, t : Int]
  BY <1>3 DEF IInv, Types
<1>5. Types'
  BY <1>1, <1>2, <1>4, RecordFacts DEF IInv, Types
<1>6. Noting'
  BY <1>1 DEF IInv, Types, Noting
<1>7. NotesKept'
  BY <1>1, <1>2 DEF IInv, Types, NotesKept
<1>8. FusedIsAverage'
  <2>1. CASE r \notin Fused
    BY <2>1, <1>1, <1>2, <1>3, RecordFacts DEF IInv, FusedIsAverage
  <2>2. CASE r \in Fused
    <3>1. Flow(r) = "fused" /\ "fused" \in Flows
      BY <2>2 DEF Flow, Flows
    <3>2. Noted(at[r], r) = began[r]
      BY <1>2, <2>2, NoneAssumption DEF Noted, IInv, Types
    <3>3. Restarted("fused") = IF took.n = Limit THEN [n |-> 0, t |-> 0] ELSE took
      BY DEF Restarted, IInv, Types, FusedIsAverage
    <3> DEFINE old == Restarted("fused")
               t == old.t + (now - began[r])
    <3>4. took' = [n |-> old.n + 1, t |-> t] /\ old.n \in Nat
      BY <1>3, <2>2, <3>3 DEF IInv, Types
    <3> DEFINE a == t \div (old.n + 1)
    <3>5. /\ count' = [count EXCEPT !["fused"] = old.n + 1]
          /\ total_exec_time' = [total_exec_time EXCEPT !["fused"] = t]
          /\ exec_time' = [exec_time EXCEPT !["fused"] = ToInt(a)]
      BY <1>1, <3>1, <3>2 DEF Record
    <3>6. /\ count'["fused"] = old.n + 1 /\ total_exec_time'["fused"] = t
          /\ exec_time'["fused"] = ToInt(a)
      BY <3>1, <3>5 DEF IInv, Types
    <3>7. t \in Int /\ a \in Int
      BY <3>4, <1>4
    <3>8. a \in 0 .. IntMax => ToInt(a) = a
      BY <3>7, ToIntFacts
    <3>9. took'.n = old.n + 1 /\ took'.t = t /\ a = took'.t \div took'.n
      BY <3>4
    <3> HIDE DEF old, t, a
    <3> QED
      BY <3>6, <3>8, <3>9 DEF FusedIsAverage, ToInt
  <2> QED
    BY <2>1, <2>2
<1> QED
  BY <1>5, <1>6, <1>7, <1>8 DEF IInv

(* Every step of the specification preserves the invariant.                *)
LEMMA NextIInv == IInv /\ [Next]_vars => IInv'
<1> SUFFICES ASSUME IInv, [Next]_vars PROVE IInv'
  OBVIOUS
<1>1. CASE UNCHANGED vars
  BY <1>1 DEF vars, stats, IInv, Types, Noting, NotesKept, FusedIsAverage
<1>2. CASE Tick
  BY <1>2 DEF Tick, stats, IInv, Types, Noting, NotesKept, FusedIsAverage
<1> QED
  BY <1>1, <1>2, StartStep, ForwardSubStep, ReplyHomeStep, ForwardRootStep DEF Next

(* The inductive invariant holds in every reachable state.                 *)
THEOREM Invariance == Spec => []IInv
BY InitIInv, NextIInv, PTL DEF Spec

(* get_core is given, for a fused workflow, the average time of the fused  *)
(* requests that were forwarded in this window: each is counted once, from *)
(* its own beginning, although reply records whatever call it forwards.    *)
THEOREM FusedAverages == Spec => []FusedIsAverage
<1>1. IInv => FusedIsAverage
  BY DEF IInv
<1> QED
  BY <1>1, Invariance, PTL

(* A shard keeps notes only of requests whose root it runs and, for good,  *)
(* of those it accepted itself.                                            *)
THEOREM NotesAreKept == Spec => []NotesKept
<1>1. IInv => NotesKept
  BY DEF IInv
<1> QED
  BY <1>1, Invariance, PTL
=============================================================================
