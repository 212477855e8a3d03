-------------------------- MODULE FuncStatsProofs --------------------------
(***************************************************************************)
(* For any number of shards and runs, any durations and any window: while  *)
(* the updates of a window do not overlap, the statistics of a function    *)
(* are exact enough for its average to be a time that a run could take.    *)
(***************************************************************************)
EXTENDS FuncStats, TLAPS

(* t is a total that n runs can have.                                      *)
TotalOf(n, t) == Shortest * n <= t /\ t <= Longest * n

(* An update of a window without overlap is alone, and what the shared     *)
(* variables say depends on how far it has come.                           *)
Progress(c) ==
    CASE pc[c] = "store_count" ->
            cnt[c] = count + 1 /\ count < Limit /\ TotalOf(count, total_exec_time)
      [] pc[c] = "load_total" ->
            cnt[c] = count /\ count - 1 < Limit /\ TotalOf(count - 1, total_exec_time)
      [] pc[c] = "store_total" -> cnt[c] = count /\ TotalOf(count, total[c])
      [] pc[c] = "store_average" ->
            cnt[c] = count /\ TotalOf(count, total[c]) /\ total_exec_time = total[c]
      [] pc[c] = "reset_count" -> TRUE
      [] pc[c] = "reset_total" -> count = 0
      [] OTHER -> TRUE

OneAtATime ==
    ~mixed =>
        /\ \A c, d \in Cores : pc[c] # "idle" /\ pc[d] # "idle" => c = d
        /\ \A c \in Cores : Progress(c)

DeltaInRange ==
    \A c \in Cores : pc[c] # "idle" => delta[c] \in Shortest .. Longest

IInv == TypeOK /\ DeltaInRange /\ OneAtATime /\ WindowExact

-----------------------------------------------------------------------------
(* One more run of a duration in range.                                    *)
LEMMA OneMore ==
    ASSUME NEW n \in Nat, NEW t \in Nat, NEW d \in Shortest .. Longest, TotalOf(n, t)
    PROVE  TotalOf(n + 1, t + d)
<1> USE DurationsAssumption
<1>1. Shortest * (n + 1) = Shortest * n + Shortest
  OBVIOUS
<1>2. Longest * (n + 1) = Longest * n + Longest
  OBVIOUS
<1>3. Shortest * n \in Nat /\ Longest * n \in Nat
  OBVIOUS
<1> QED
  BY <1>1, <1>2, <1>3 DEF TotalOf

(* Nothing has run yet.                                                    *)
LEMMA NoneYet == TotalOf(0, 0)
BY DurationsAssumption DEF TotalOf

(* The average lies between the bounds.                                    *)
LEMMA AverageBounds ==
    ASSUME NEW n \in Nat \ {0}, NEW t \in Nat, TotalOf(n, t)
    PROVE  t \div n \in Shortest .. Longest
<1> USE DurationsAssumption
<1> DEFINE a == t \div n
           r == t % n
<1>1. a \in Nat /\ r \in 0 .. n - 1 /\ t = n * a + r
  OBVIOUS
<1> HIDE DEF a, r
<1>2. Shortest <= a
  <2>1. SUFFICES ASSUME a + 1 <= Shortest PROVE FALSE
    BY <1>1
  <2>2. n * (a + 1) <= n * Shortest
    BY <2>1, <1>1
  <2>3. n * (a + 1) = n * a + n
    BY <1>1
  <2>4. n * Shortest = Shortest * n
    OBVIOUS
  <2> QED
    BY <1>1, <2>2, <2>3, <2>4 DEF TotalOf
<1>3. a <= Longest
  <2>1. SUFFICES ASSUME Longest + 1 <= a PROVE FALSE
    BY <1>1
  <2>2. n * (Longest + 1) <= n * a
    BY <2>1, <1>1
  <2>3. n * (Longest + 1) = Longest * n + n
    OBVIOUS
  <2> QED
    BY <1>1, <2>2, <2>3 DEF TotalOf
<1> QED
  BY <1>1, <1>2, <1>3 DEF a

(* A time up to the largest int is stored as it is.                        *)
LEMMA IntFits ==
    ASSUME NEW x \in 0 .. IntMax
    PROVE  ToInt(x) = x
<1>1. x \in Nat /\ x <= IntMax /\ IntMax \in Nat
  BY DurationsAssumption
<1>2. x % (2 * (IntMax + 1)) = x
  BY <1>1
<1> QED
  BY <1>1, <1>2 DEF ToInt

(* What is stored is an int.                                               *)
LEMMA IntType ==
    ASSUME NEW x \in Nat
    PROVE  ToInt(x) \in -(IntMax + 1) .. IntMax
<1> DEFINE y == x % (2 * (IntMax + 1))
<1>1. y \in 0 .. (2 * (IntMax + 1)) - 1
  BY DurationsAssumption
<1> HIDE DEF y
<1>2. ToInt(x) = IF y <= IntMax THEN y ELSE y - 2 * (IntMax + 1)
  BY DEF ToInt, y
<1> QED
  BY <1>1, <1>2, DurationsAssumption

-----------------------------------------------------------------------------
(* The initial state: nothing has run.                                     *)
LEMMA InitIInv == Init => IInv
<1> SUFFICES ASSUME Init PROVE IInv
  OBVIOUS
<1> USE LimitAssumption, DurationsAssumption DEF Init
<1>1. TypeOK
  <2>1. 0 \in 0 .. MaxRuns /\ 0 \in Nat /\ -1 \in -(IntMax + 1) .. IntMax
    OBVIOUS
  <2>2. /\ pc \in [Cores -> Steps] /\ delta \in [Cores -> Nat] /\ cnt \in [Cores -> Nat]
        /\ total \in [Cores -> Nat] /\ runs \in [Cores -> 0 .. MaxRuns]
    BY <2>1 DEF Steps
  <2>3. \A c \in Cores : pc[c] = "idle"
    OBVIOUS
  <2> QED
    BY <2>1, <2>2, <2>3 DEF TypeOK
<1>2. DeltaInRange
  BY DEF DeltaInRange
<1>3. OneAtATime
  BY DEF OneAtATime, Progress
<1>4. WindowExact
  BY NoneYet DEF WindowExact, TotalOf
<1> QED
  BY <1>1, <1>2, <1>3, <1>4 DEF IInv

(* Every access keeps the types.                                           *)
LEMMA TypeStep == TypeOK /\ [Next]_vars => TypeOK'
<1> SUFFICES ASSUME TypeOK, [Next]_vars PROVE TypeOK'
  OBVIOUS
<1> USE DurationsAssumption DEF TypeOK, Steps, Goto
<1>1. CASE UNCHANGED vars
  BY <1>1 DEF vars
<1>2. ASSUME NEW c \in Cores, LoadCount(c) PROVE TypeOK'
  <2>1. PICK t \in Durations : delta' = [delta EXCEPT ![c] = t]
    BY <1>2 DEF LoadCount
  <2>2. t \in Nat
    OBVIOUS
  <2> QED
    BY <1>2, <2>1, <2>2 DEF LoadCount, Alone
<1>3. ASSUME NEW c \in Cores, StoreCount(c) PROVE TypeOK'
  BY <1>3 DEF StoreCount
<1>4. ASSUME NEW c \in Cores, LoadTotal(c) PROVE TypeOK'
  BY <1>4 DEF LoadTotal
<1>5. ASSUME NEW c \in Cores, StoreTotal(c) PROVE TypeOK'
  BY <1>5 DEF StoreTotal
<1>6. ASSUME NEW c \in Cores, StoreAverage(c) PROVE TypeOK'
  <2>1. total[c] \div cnt[c] \in Nat
    BY <1>6 DEF StoreAverage
  <2>2. exec_time' \in -(IntMax + 1) .. IntMax
    BY <1>6, <2>1, IntType DEF StoreAverage
  <2> QED
    BY <1>6, <2>2 DEF StoreAverage
<1>7. ASSUME NEW c \in Cores, ResetCount(c) PROVE TypeOK'
  BY <1>7 DEF ResetCount, Alone
<1>8. ASSUME NEW c \in Cores, ResetTotal(c) PROVE TypeOK'
  BY <1>8 DEF ResetTotal
<1> QED
  BY <1>1, <1>2, <1>3, <1>4, <1>5, <1>6, <1>7, <1>8 DEF Next

(* Every access keeps the bookkeeping of a window without overlap.         *)
LEMMA NextIInv == IInv /\ [Next]_vars => IInv'
<1> SUFFICES ASSUME IInv, [Next]_vars PROVE IInv'
  OBVIOUS
<1> USE DurationsAssumption, LimitAssumption DEF IInv
<1>0. TypeOK'
  BY TypeStep
<1>1. CASE UNCHANGED vars
  BY <1>0, <1>1 DEF vars, DeltaInRange, OneAtATime, Progress, WindowExact, Quiet
<1>2. ASSUME NEW c \in Cores, LoadCount(c) PROVE IInv'
  <2>1. pc[c] = "idle" /\ pc' = [pc EXCEPT ![c] = "store_count"]
    BY <1>2 DEF LoadCount, Goto
  <2>2. DeltaInRange'
    BY <1>2, <2>1 DEF LoadCount, DeltaInRange, TypeOK
  <2>3. ~mixed' => ~mixed /\ Alone(c)
    BY <1>2 DEF LoadCount
  <2>4. ~mixed' => Quiet
    BY <2>1, <2>3 DEF Alone, Quiet
  <2>5. OneAtATime'
    BY <1>2, <2>1, <2>3, <2>4
    DEF LoadCount, OneAtATime, Progress, Alone, Quiet, WindowExact, TotalOf, TypeOK
  <2>6. ~Quiet'
    BY <2>1 DEF Quiet, TypeOK
  <2> QED
    BY <1>0, <2>2, <2>5, <2>6 DEF WindowExact
<1>3. ASSUME NEW c \in Cores, StoreCount(c) PROVE IInv'
  <2>1. pc[c] = "store_count" /\ pc' = [pc EXCEPT ![c] = "load_total"]
    BY <1>3 DEF StoreCount, Goto
  <2>2. DeltaInRange'
    BY <1>3, <2>1 DEF StoreCount, DeltaInRange, TypeOK
  <2>3. OneAtATime'
    BY <1>3, <2>1 DEF StoreCount, OneAtATime, Progress, TypeOK, TotalOf
  <2> QED
    BY <1>0, <2>1, <2>2, <2>3 DEF WindowExact, Quiet, TypeOK
<1>4. ASSUME NEW c \in Cores, LoadTotal(c) PROVE IInv'
  <2>1. pc[c] = "load_total" /\ pc' = [pc EXCEPT ![c] = "store_total"]
    BY <1>4 DEF LoadTotal, Goto
  <2>2. DeltaInRange'
    BY <1>4, <2>1 DEF LoadTotal, DeltaInRange, TypeOK
  <2>3. ~mixed => cnt[c] = count /\ TotalOf(count, total_exec_time + delta[c])
    <3> SUFFICES ASSUME ~mixed
                 PROVE  cnt[c] = count /\ TotalOf(count, total_exec_time + delta[c])
      OBVIOUS
    <3>1. cnt[c] = count /\ TotalOf(count - 1, total_exec_time)
      BY <2>1 DEF OneAtATime, Progress
    <3>2. count - 1 \in Nat /\ delta[c] \in Shortest .. Longest /\ total_exec_time \in Nat
      BY <2>1, <3>1 DEF TypeOK, DeltaInRange
    <3>3. TotalOf((count - 1) + 1, total_exec_time + delta[c])
      BY <3>1, <3>2, OneMore
    <3>4. (count - 1) + 1 = count
      BY DEF TypeOK
    <3> QED
      BY <3>1, <3>3, <3>4
  <2>4. OneAtATime'
    BY <1>4, <2>1, <2>3 DEF LoadTotal, OneAtATime, Progress, TypeOK, TotalOf
  <2> QED
    BY <1>0, <2>1, <2>2, <2>4 DEF WindowExact, Quiet, TypeOK
<1>5. ASSUME NEW c \in Cores, StoreTotal(c) PROVE IInv'
  <2>1. pc[c] = "store_total" /\ pc' = [pc EXCEPT ![c] = "store_average"]
    BY <1>5 DEF StoreTotal, Goto
  <2>2. DeltaInRange'
    BY <1>5, <2>1 DEF StoreTotal, DeltaInRange, TypeOK
  <2>3. OneAtATime'
    BY <1>5, <2>1 DEF StoreTotal, OneAtATime, Progress, TypeOK, TotalOf
  <2> QED
    BY <1>0, <2>1, <2>2, <2>3 DEF WindowExact, Quiet, TypeOK
<1>6. ASSUME NEW c \in Cores, StoreAverage(c) PROVE IInv'
  <2>1. /\ pc[c] = "store_average"
        /\ pc' = [pc EXCEPT ![c] = IF cnt[c] >= Limit THEN "reset_count" ELSE "idle"]
    BY <1>6 DEF StoreAverage, Goto
  <2>2. DeltaInRange'
    BY <1>6, <2>1 DEF StoreAverage, DeltaInRange, TypeOK
  <2>3. OneAtATime'
    BY <1>6, <2>1 DEF StoreAverage, OneAtATime, Progress, TypeOK, TotalOf
  <2>4. WindowExact'
    <3> SUFFICES ASSUME Quiet', ~mixed
                 PROVE  count < Limit /\ TotalOf(count, total_exec_time)
      BY <1>6 DEF StoreAverage, WindowExact, TotalOf
    <3>1. cnt[c] = count /\ TotalOf(count, total_exec_time)
      BY <2>1 DEF OneAtATime, Progress
    <3>2. ~(cnt[c] >= Limit)
      BY <2>1 DEF Quiet, TypeOK
    <3> QED
      BY <3>1, <3>2 DEF TypeOK
  <2> QED
    BY <1>0, <2>2, <2>3, <2>4
<1>7. ASSUME NEW c \in Cores, ResetCount(c) PROVE IInv'
  <2>1. pc[c] = "reset_count" /\ pc' = [pc EXCEPT ![c] = "reset_total"]
    BY <1>7 DEF ResetCount, Goto
  <2>2. DeltaInRange'
    BY <1>7, <2>1 DEF ResetCount, DeltaInRange, TypeOK
  <2>3. ~mixed' => Alone(c)
    BY <1>7, <2>1 DEF ResetCount, OneAtATime, Alone
  <2>4. OneAtATime'
    BY <1>7, <2>1, <2>3 DEF ResetCount, OneAtATime, Progress, Alone, TypeOK
  <2> QED
    BY <1>0, <2>1, <2>2, <2>4 DEF WindowExact, Quiet, TypeOK
<1>8. ASSUME NEW c \in Cores, ResetTotal(c) PROVE IInv'
  <2>1. pc[c] = "reset_total" /\ pc' = [pc EXCEPT ![c] = "idle"]
    BY <1>8 DEF ResetTotal, Goto
  <2>2. DeltaInRange'
    BY <1>8, <2>1 DEF ResetTotal, DeltaInRange, TypeOK
  <2>3. OneAtATime'
    BY <1>8, <2>1 DEF ResetTotal, OneAtATime, Progress, TypeOK
  <2>4. ~mixed => count = 0
    BY <2>1 DEF OneAtATime, Progress
  <2>5. WindowExact'
    BY <1>8, <2>4, NoneYet DEF ResetTotal, WindowExact, TotalOf
  <2> QED
    BY <1>0, <2>2, <2>3, <2>5
<1> QED
  BY <1>1, <1>2, <1>3, <1>4, <1>5, <1>6, <1>7, <1>8 DEF Next

(* The inductive invariant holds in every reachable state.                 *)
THEOREM Invariance == Spec => []IInv
BY InitIInv, NextIInv, PTL DEF Spec

(* Counts, totals and the estimate keep their types, and no update divides *)
(* by zero, however the updates of the shards overlap.                     *)
THEOREM TypeCorrect == Spec => []TypeOK
<1>1. IInv => TypeOK
  BY DEF IInv
<1> QED
  BY <1>1, Invariance, PTL

(* Between updates of a window without overlap the total is one that as    *)
(* many runs as were counted can have.                                     *)
THEOREM WindowsAreExact == Spec => []WindowExact
<1>1. IInv => WindowExact
  BY DEF IInv
<1> QED
  BY <1>1, Invariance, PTL

(* An estimate that is stored in such a window is a time a run could take: *)
(* get_core does not take a short function for a long one, as long as no   *)
(* run is too long for an int.                                             *)
THEOREM AveragesAreInRange == Spec => AverageInRange
<1> DEFINE P == exec_time' # exec_time /\ ~mixed =>
                    \E average \in Shortest .. Longest :
                        /\ exec_time' = ToInt(average)
                        /\ average <= IntMax => exec_time' = average
<1>1. IInv /\ [Next]_vars => [P]_vars
  <2> SUFFICES ASSUME IInv, Next, exec_time' # exec_time, ~mixed
               PROVE  \E average \in Shortest .. Longest :
                        /\ exec_time' = ToInt(average)
                        /\ average <= IntMax => exec_time' = average
    OBVIOUS
  <2>1. PICK c \in Cores : StoreAverage(c)
    BY DEF Next, LoadCount, StoreCount, LoadTotal, StoreTotal, ResetCount, ResetTotal
  <2>2. cnt[c] = count /\ TotalOf(count, total[c])
    BY <2>1 DEF IInv, OneAtATime, Progress, StoreAverage
  <2>3. count \in Nat \ {0} /\ total[c] \in Nat
    BY <2>1, <2>2 DEF IInv, TypeOK, StoreAverage
  <2> DEFINE average == total[c] \div cnt[c]
  <2>4. average \in Shortest .. Longest
    BY <2>2, <2>3, AverageBounds
  <2>5. exec_time' = ToInt(average)
    BY <2>1 DEF StoreAverage
  <2> HIDE DEF average
  <2>6. average \in Nat
    BY <2>4, DurationsAssumption
  <2>7. average <= IntMax => ToInt(average) = average
    BY <2>6, IntFits, DurationsAssumption
  <2> QED
    BY <2>4, <2>5, <2>7
<1>2. Spec => [][P]_vars
  BY <1>1, Invariance, PTL DEF Spec
<1> QED
  BY <1>2 DEF AverageInRange
=============================================================================
