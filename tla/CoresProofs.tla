---------------------------- MODULE CoresProofs -----------------------------
(***************************************************************************)
(* For any number of shards, calls and estimates: an idle shard looks      *)
(* free, a hardware queue is given short functions only, get_core takes a  *)
(* shard that is free as early as any, and busy_till is what was promised. *)
(* Under get_core: the queues and task maps of the same shards are touched *)
(* by one shard at a time, with and without big cores.                     *)
(***************************************************************************)
EXTENDS CoreLoad, CoreLock, TLAPS

(* What the proofs need of the variables' types.                           *)
Types ==
    /\ now \in Nat
    /\ asking \in [Cores -> Calls \cup {None}]
    /\ exec_time \in [Calls -> ExecTimes \cup {None}]
    /\ busy_till \in [Cores -> Int]
    /\ current \in [Cores -> Nat]
    /\ placed \in [Cores -> SUBSET Calls]
    /\ curr_req \in [Cores -> SUBSET Calls]

(* A call that is being placed, or has been, has its estimate; a shard runs*)
(* only calls that were placed on it.                                      *)
Known ==
    /\ \A c \in Cores : asking[c] # None => exec_time[asking[c]] # None
    /\ \A c \in Cores : \A k \in placed[c] : exec_time[k] # None
    /\ \A c \in Cores : curr_req[c] \subseteq placed[c]

IInv == Types /\ Known /\ IdleLooksFree /\ LongOnBig

(* The initial state has nothing placed anywhere.                          *)
LEMMA InitIInv == Init => IInv
<1> SUFFICES ASSUME Init PROVE IInv
  OBVIOUS
<1> USE TimeAssumption
<1>1. Types
  BY DEF Init, Types
<1>2. Known
  BY DEF Init, Known
<1>3. IdleLooksFree
  BY DEF Init, IdleLooksFree
<1>4. LongOnBig
  BY DEF Init, LongOnBig, Cores
<1> QED
  BY <1>1, <1>2, <1>3, <1>4 DEF IInv

(* The word that busy_till is moved to is a number.                        *)
LEMMA MovedType ==
    ASSUME NEW till \in Int, NEW cur \in Nat, NEW e \in ExecTimes
    PROVE  Moved(till, cur, e) \in Int
<1>1. W \in Nat \ {0} /\ e \in Int
  BY TimeAssumption
<1>2. Word(e) \in Int
  BY <1>1 DEF Word
<1>3. Later(till, cur) \in Int
  BY DEF Later
<1> QED
  BY <1>1, <1>2, <1>3 DEF Moved

(* get_core, the clock.                                                    *)
LEMMA AskStep ==
    ASSUME IInv, NEW c \in Cores, NEW k \in Calls, Ask(c, k)
    PROVE  IInv'
<1> USE CallsAssumption, TimeAssumption DEF IInv
<1>1. PICK e \in ExecTimes : exec_time' = [exec_time EXCEPT ![k] = e]
  BY DEF Ask
<1>2. e # None
  BY <1>1
<1>3. Types'
  BY <1>1 DEF Types, Ask, loadVars
<1>4. Known'
  BY <1>1, <1>2 DEF Types, Known, Ask, loadVars
<1>5. IdleLooksFree'
  BY DEF IdleLooksFree, Ask, loadVars
<1>6. \A h \in Cores : k \notin placed[h]
  BY DEF Known, Ask
<1>7. LongOnBig'
  BY <1>1, <1>6 DEF LongOnBig, Types, Ask, loadVars, Short, Word, Cores
<1> QED
  BY <1>3, <1>4, <1>5, <1>7

(* get_core, the choice: a function that is not short goes to a big core.  *)
LEMMA PlaceStep ==
    ASSUME IInv, NEW c \in Cores, Place(c)
    PROVE  IInv'
<1> USE CallsAssumption, TimeAssumption DEF IInv
<1> DEFINE k == asking[c]
<1>1. k \in Calls /\ exec_time[k] \in ExecTimes
  BY DEF Place, Types, Known
<1>2. PICK d \in Cores :
        /\ IF BigCores = {} THEN d = c ELSE Chosen(d, exec_time[k])
        /\ placed' = [placed EXCEPT ![d] = @ \cup {k}]
        /\ busy_till' = [busy_till EXCEPT ![d] = Moved(@, current[c], exec_time[k])]
  BY DEF Place
<1>3. Moved(busy_till[d], current[c], exec_time[k]) \in Int
  BY <1>1, MovedType DEF Types
<1>4. Types'
  BY <1>1, <1>2, <1>3 DEF Types, Place
<1>5. Known'
  BY <1>1, <1>2 DEF Types, Known, Place
<1>6. IdleLooksFree'
  BY <1>2 DEF IdleLooksFree, Types, Place
<1>7. BigCores # {} /\ d \in HwCores /\ d \notin BigCores => Short(exec_time[k])
  BY <1>2 DEF Chosen, IsEarliest
<1>8. LongOnBig'
  <2> SUFFICES ASSUME BigCores # {}, NEW h \in HwCores, NEW j \in placed'[h]
               PROVE  Short(exec_time[j])
    BY DEF LongOnBig, Place, Short, Word
  <2>1. CASE h = d /\ j = k
    BY <2>1, <1>7, CoresAssumption
  <2>2. CASE j \in placed[h]
    BY <2>2 DEF LongOnBig
  <2> QED
    BY <2>1, <2>2, <1>2 DEF Types, Cores
<1> QED
  BY <1>4, <1>5, <1>6, <1>8

(* reply: when the last call leaves the shard the clock is taken over.     *)
LEMMA AnswerStep ==
    ASSUME IInv, NEW d \in Cores, NEW k \in Calls, Answer(d, k)
    PROVE  IInv'
<1> USE DEF IInv
<1>1. curr_req'[d] \subseteq placed'[d] /\ now' = now
  BY DEF Types, Known, Answer
<1>2. curr_req'[d] = {} => busy_till'[d] = now
  BY DEF Types, Answer, Leave
<1>3. \A c \in Cores \ {d} : placed'[c] = placed[c] /\ busy_till'[c] = busy_till[c]
  BY DEF Types, Answer, Leave
<1>4. busy_till' \in [Cores -> Int]
  BY DEF Types, Answer, Leave
<1>5. Types'
  BY <1>4 DEF Types, Answer
<1>6. Known'
  BY DEF Types, Known, Answer
<1>7. IdleLooksFree'
  BY <1>1, <1>2, <1>3 DEF IdleLooksFree, Types
<1>8. LongOnBig'
  BY DEF LongOnBig, Types, Answer, Short, Word, Cores
<1> QED
  BY <1>5, <1>6, <1>7, <1>8

(* reply to a call that is not in curr_req: a sub-call of a fused request, *)
(* or one that another shard has run.  The shard is set free or it is not. *)
LEMMA FreeStep ==
    ASSUME IInv, NEW c \in Cores, Leave(c, curr_req[c]),
           UNCHANGED <<now, asking, current, exec_time, placed, curr_req>>
    PROVE  IInv'
<1> USE DEF IInv
<1>1. \/ busy_till' = [busy_till EXCEPT ![c] = now]
      \/ busy_till' = busy_till
  BY DEF Leave
<1>2. Types' /\ Known' /\ LongOnBig'
  BY <1>1 DEF Types, Known, LongOnBig, Short, Word
<1>3. IdleLooksFree'
  BY <1>1 DEF IdleLooksFree, Types
<1> QED
  BY <1>2, <1>3

(* Every step of the specification preserves the invariant.                *)
LEMMA NextIInv == IInv /\ [Next]_vars => IInv'
<1> SUFFICES ASSUME IInv, [Next]_vars PROVE IInv'
  OBVIOUS
<1> USE DEF IInv
<1>1. CASE UNCHANGED vars
  BY <1>1 DEF vars, loadVars, Types, Known, IdleLooksFree, LongOnBig, Short, Word
<1>2. CASE Tick
  BY <1>2 DEF Tick, loadVars, Types, Known, IdleLooksFree, LongOnBig, Short, Word
<1>3. ASSUME NEW c \in Cores, Place(c) PROVE IInv'
  BY <1>3, PlaceStep
<1>4. ASSUME NEW c \in Cores, AnswerInside(c) PROVE IInv'
  BY <1>4, FreeStep DEF AnswerInside
<1>5. ASSUME NEW c \in Cores, NEW k \in Calls, Ask(c, k) PROVE IInv'
  BY <1>5, AskStep
<1>6. ASSUME NEW c \in Cores, NEW k \in Calls, Arrive(c, k) PROVE IInv'
  <2>1. /\ now' = now /\ placed' = placed /\ exec_time' = exec_time
        /\ asking' = asking /\ current' = current /\ busy_till' = busy_till
    BY <1>6 DEF Arrive
  <2>2. Types' /\ Known'
    BY <1>6, <2>1 DEF Types, Known, Arrive
  <2>3. IdleLooksFree' /\ LongOnBig'
    BY <2>1 DEF IdleLooksFree, LongOnBig, Short, Word
  <2> QED
    BY <2>2, <2>3
<1>7. ASSUME NEW c \in Cores, NEW k \in Calls, Answer(c, k) PROVE IInv'
  BY <1>7, AnswerStep
<1>8. ASSUME NEW c \in Cores, NEW k \in Calls, AnswerAgain(c, k) PROVE IInv'
  BY <1>8, FreeStep DEF AnswerAgain
<1> QED
  BY <1>1, <1>2, <1>3, <1>4, <1>5, <1>6, <1>7, <1>8 DEF Next

(* The inductive invariant holds in every reachable state.                 *)
THEOREM Invariance == Spec => []IInv
BY InitIInv, NextIInv, PTL DEF Spec

(* A shard that has answered all its calls does not look busy to get_core, *)
(* whatever the estimates were and whatever replies it has passed on or is *)
(* still to be sent.                                                       *)
THEOREM IdleShardsLookFree == Spec => []IdleLooksFree
<1>1. IInv => IdleLooksFree
  BY DEF IInv
<1> QED
  BY <1>1, Invariance, PTL

(* get_core keeps long and unknown functions off the hardware queues.      *)
THEOREM LongCallsOnBigCores == Spec => []LongOnBig
<1>1. IInv => LongOnBig
  BY DEF IInv
<1> QED
  BY <1>1, Invariance, PTL

(* The scan, which compares with a minimum that is raised to the clock     *)
(* between its two halves, finds a shard that is free as early as any      *)
(* eligible one, and leaves the hardware queues only when all are busy.    *)
THEOREM PlacementIsEarliest == Spec => PlacedWell
<1> DEFINE P == BigCores # {} =>
        \A c, d \in Cores :
            placed'[d] # placed[d] /\ asking[c] \in placed'[d] \ placed[d] =>
                LET short == Short(exec_time[asking[c]])
                IN  /\ \A e \in IF short THEN Cores ELSE BigCores :
                          Later(busy_till[d], now) <= Later(busy_till[e], now)
                    /\ short /\ d \in BigCores =>
                          \A h \in HwCores : now <= busy_till[h]
<1>1. IInv /\ [Next]_vars => [P]_vars
  <2> SUFFICES ASSUME IInv, Next, BigCores # {},
                      NEW c \in Cores, NEW d \in Cores,
                      asking[c] \in placed'[d], asking[c] \notin placed[d]
               PROVE  LET short == Short(exec_time[asking[c]])
                      IN  /\ \A e \in IF short THEN Cores ELSE BigCores :
                                Later(busy_till[d], now) <= Later(busy_till[e], now)
                          /\ short /\ d \in BigCores =>
                                \A h \in HwCores : now <= busy_till[h]
    OBVIOUS
  <2> DEFINE est == exec_time[asking[c]]
  <2>1. PICK s \in Cores : Place(s)
    BY DEF Next, Tick, AnswerInside, AnswerAgain, Ask, Arrive, Answer, loadVars, IInv, Types
  <2>2. Chosen(d, est)
    BY <2>1 DEF Place, IInv, Types
  <2>3. PICK b \in BigCores :
          /\ IsEarliest(b, BigCores)
          /\ IF Short(est) /\ (\E h \in HwCores : busy_till[h] < Later(busy_till[b], now))
             THEN IsEarliest(d, HwCores)
             ELSE d = b
    BY <2>2 DEF Chosen
  <2>4. now \in Nat /\ \A e \in Cores : busy_till[e] \in Int
    BY DEF IInv, Types
  <2>5. \A e \in BigCores : busy_till[b] <= busy_till[e]
    BY <2>3, <2>4 DEF IsEarliest, Cores
  <2>6. CASE Short(est) /\ (\E h \in HwCores : busy_till[h] < Later(busy_till[b], now))
    <3>1. d \in HwCores /\ \A h \in HwCores : busy_till[d] <= busy_till[h]
      BY <2>3, <2>4, <2>6 DEF IsEarliest, Cores
    <3>2. PICK h \in HwCores : busy_till[h] < Later(busy_till[b], now)
      BY <2>6
    <3>3. busy_till[d] < Later(busy_till[b], now)
      BY <3>1, <3>2, <2>4 DEF Later, Cores
    <3>4. \A e \in Cores : Later(busy_till[d], now) <= Later(busy_till[e], now)
      BY <3>1, <3>3, <2>4, <2>5 DEF Later, Cores
    <3>5. d \notin BigCores
      BY <3>1, CoresAssumption
    <3> QED
      BY <3>4, <3>5, <2>6
  <2>7. CASE ~(Short(est) /\ (\E h \in HwCores : busy_till[h] < Later(busy_till[b], now)))
    <3>1. d = b
      BY <2>3, <2>7
    <3>2. Short(est) => \A h \in HwCores : Later(busy_till[b], now) <= busy_till[h]
      BY <2>4, <2>7 DEF Later, Cores
    <3>3. \A e \in BigCores : Later(busy_till[d], now) <= Later(busy_till[e], now)
      BY <3>1, <2>4, <2>5 DEF Later, Cores
    <3>4. Short(est) => \A h \in HwCores : Later(busy_till[d], now) <= Later(busy_till[h], now)
                                             /\ now <= busy_till[h]
      BY <3>1, <3>2, <2>4 DEF Later, Cores
    <3> QED
      BY <3>3, <3>4 DEF Cores
  <2> QED
    BY <2>6, <2>7
<1>2. Spec => [][P]_vars
  BY <1>1, Invariance, PTL DEF Spec
<1> QED
  BY <1>2 DEF PlacedWell

-----------------------------------------------------------------------------
(* Words that are less than one turn away.                                 *)
LEMMA ModFacts ==
    ASSUME NEW w \in Nat \ {0}, NEW x \in Int
    PROVE  /\ x \in 0 .. w - 1 => x % w = x
           /\ x \in w .. w + w - 1 => x % w = x - w
           /\ x \in -w .. -1 => x % w = x + w
OBVIOUS

(* As long as the time promised to a shard fits in a word, moving busy_till*)
(* on adds the call's estimate, a negative one too.                        *)
LEMMA MovedExactly ==
    ASSUME NEW till \in Int, NEW cur \in Nat, NEW e \in ExecTimes, Start <= cur,
           Later(till, cur) + Later(0, Cost(e)) < W
    PROVE  Moved(till, cur, e) = Later(till, cur) + Cost(e)
<1> DEFINE L == Later(till, cur)
<1>1. /\ L \in Int /\ cur <= L /\ e \in Int /\ 0 <= Start + e /\ Start \in Nat
      /\ W \in Nat \ {0}
  BY TimeAssumption DEF Later
<1>2. L + Later(0, Cost(e)) < W
  OBVIOUS
<1> HIDE DEF L
<1>3. CASE e = 0
  <2>1. Cost(e) = 1 /\ Later(0, Cost(e)) = 1
    BY <1>3 DEF Cost, Later
  <2>2. L + 1 \in Int /\ L + 1 \in 0 .. W - 1
    BY <2>1, <1>1, <1>2
  <2>3. (L + 1) % W = L + 1
    BY ONLY <2>2, <1>1, ModFacts
  <2> QED
    BY <2>1, <2>3, <1>3 DEF Moved, L
<1>4. CASE e > 0
  <2>1. Cost(e) = e /\ Later(0, Cost(e)) = e
    BY <1>1, <1>4 DEF Cost, Later
  <2>2. Word(e) = e
    BY <2>1, <1>1, <1>2, <1>4, ModFacts DEF Word
  <2>3. (L + e) % W = L + e
    <3>1. L + e \in Int /\ L + e \in 0 .. W - 1
      BY <2>1, <1>1, <1>2, <1>4
    <3> QED
      BY ONLY <3>1, <1>1, ModFacts
  <2> QED
    BY <2>1, <2>2, <2>3, <1>4 DEF Moved, L
<1>5. CASE e < 0
  <2>1. Cost(e) = e /\ Later(0, Cost(e)) = 0
    BY <1>1, <1>5 DEF Cost, Later
  <2>2. Word(e) = e + W
    BY <2>1, <1>1, <1>2, <1>5, ModFacts DEF Word
  <2>3. (L + (e + W)) % W = L + e
    <3> DEFINE x == L + (e + W)
    <3>1. x \in Int /\ x \in W .. W + W - 1 /\ x - W = L + e
      BY <2>1, <1>1, <1>2, <1>5
    <3> HIDE DEF x
    <3>2. x % W = x - W
      BY ONLY <3>1, <1>1, ModFacts
    <3> QED
      BY <3>1, <3>2 DEF x
  <2>4. e # 0
    BY <1>1, <1>5
  <2> QED
    BY <2>1, <2>2, <2>3, <2>4 DEF Moved, L
<1> QED
  BY <1>1, <1>3, <1>4, <1>5

(* The sums that busy_till is compared with.  A shard with nothing placed  *)
(* is promised nothing, and one without a call in curr_req nothing that    *)
(* must be kept.                                                           *)
Sums ==
    /\ least \in [Cores -> Int \cup {None}]
    /\ gain \in [Cores -> Nat]
    /\ \A c \in Cores : Start <= current[c] /\ current[c] <= now
    /\ \A c \in Cores : least[c] # None => curr_req[c] # {}

LInv == Sums /\ LoadAccounted

(* Nothing has been promised yet.                                          *)
LEMMA InitLInv == Init => LInv
<1> SUFFICES ASSUME Init PROVE LInv
  OBVIOUS
<1>1. Sums
  BY TimeAssumption DEF Init, Sums
<1>2. LoadAccounted
  BY TimeAssumption, CallsAssumption DEF Init, LoadAccounted
<1> QED
  BY <1>1, <1>2 DEF LInv

(* A placed call adds its estimate on both sides, even if the clock was    *)
(* read long before.                                                       *)
LEMMA PlaceLoad ==
    ASSUME IInv, LInv, NEW c \in Cores, Place(c)
    PROVE  LInv'
<1> DEFINE e == exec_time[asking[c]]
<1>1. e \in ExecTimes /\ e \in Int
  BY CallsAssumption, TimeAssumption DEF IInv, Place, Types, Known
<1>2. PICK d \in Cores :
        /\ busy_till' = [busy_till EXCEPT ![d] = Moved(@, current[c], e)]
        /\ least' = [least EXCEPT ![d] = IF @ = None THEN None ELSE @ + Cost(e)]
        /\ gain' = [gain EXCEPT ![d] = @ + Later(0, Cost(e))]
  BY DEF Place
<1>3. now' = now /\ current' = current /\ curr_req' = curr_req
  BY DEF Place
<1> HIDE DEF e
<1>4. Cost(e) \in Int /\ Later(0, Cost(e)) \in Nat /\ Cost(e) <= Later(0, Cost(e))
  BY <1>1 DEF Cost, Later
<1>5. /\ now \in Nat /\ current[c] \in Nat /\ Start <= current[c] /\ current[c] <= now
      /\ busy_till[d] \in Int /\ least[d] \in Int \cup {None} /\ gain[d] \in Nat
      /\ None \notin Int /\ W \in Nat
  BY CallsAssumption, TimeAssumption DEF IInv, Types, LInv, Sums
<1> DEFINE L == Later(busy_till[d], current[c])
<1>6. L \in Int /\ current[c] <= L /\ busy_till[d] <= L
      /\ (L = current[c] \/ L = busy_till[d])
  BY <1>5 DEF Later
<1>7. /\ busy_till'[d] = Moved(busy_till[d], current[c], e)
      /\ least'[d] = IF least[d] = None THEN None ELSE least[d] + Cost(e)
      /\ gain'[d] = gain[d] + Later(0, Cost(e))
      /\ \A h \in Cores \ {d} :
            busy_till'[h] = busy_till[h] /\ least'[h] = least[h] /\ gain'[h] = gain[h]
  BY <1>2 DEF IInv, Types, LInv, Sums
<1>8. Sums'
  BY <1>2, <1>3, <1>4, <1>5, <1>7 DEF LInv, Sums
<1>9. ASSUME now + gain'[d] < W
      PROVE  /\ least'[d] # None => least'[d] <= busy_till'[d]
             /\ busy_till'[d] <= now + gain'[d]
  <2>1. now + gain[d] < W
    BY <1>4, <1>5, <1>7, <1>9
  <2>2. busy_till[d] <= now + gain[d] /\ (least[d] # None => least[d] <= busy_till[d])
    BY <2>1 DEF LInv, LoadAccounted
  <2>3. L <= now + gain[d] /\ (least[d] # None => least[d] <= L)
    BY <2>2, <1>5, <1>6
  <2>4. L + Later(0, Cost(e)) < W
    BY <2>3, <1>4, <1>5, <1>6, <1>7, <1>9
  <2>5. busy_till'[d] = L + Cost(e)
    BY <2>4, <1>1, <1>5, <1>7, MovedExactly
  <2> HIDE DEF L
  <2>6. busy_till'[d] <= now + gain'[d]
    BY <2>3, <2>5, <1>4, <1>5, <1>6, <1>7
  <2>7. CASE least[d] = None
    BY <2>6, <2>7, <1>7
  <2>8. CASE least[d] # None
    <3>1. least'[d] = least[d] + Cost(e) /\ least[d] \in Int
      BY <2>8, <1>5, <1>7
    <3>2. least'[d] <= busy_till'[d]
      BY <2>3, <2>5, <2>8, <3>1, <1>4, <1>6
    <3> QED
      BY <2>6, <3>2
  <2> QED
    BY <2>7, <2>8
<1> HIDE DEF L
<1>10. LoadAccounted'
  BY <1>3, <1>7, <1>9 DEF LInv, LoadAccounted
<1> QED
  BY <1>8, <1>10 DEF LInv

(* A reply sets a shard back to the clock only when nothing is counted that*)
(* has to be kept.                                                         *)
LEMMA LeaveLoad ==
    ASSUME IInv, LInv, NEW d \in Cores, Leave(d, curr_req'[d]), now' = now,
           \A c \in Cores : curr_req'[c] # curr_req[c] => c = d,
           gain' \in [Cores -> Nat],
           least' = [least EXCEPT ![d] = IF curr_req'[d] = {} THEN None ELSE @],
           \A c \in Cores : \/ gain'[c] = gain[c]
                            \/ c = d /\ curr_req'[d] = {} /\ gain'[d] = 0,
           current' = current
    PROVE  LInv'
<1>1. /\ now \in Nat /\ W \in Nat /\ None \notin Int
      /\ least \in [Cores -> Int \cup {None}] /\ gain \in [Cores -> Nat]
      /\ busy_till \in [Cores -> Int]
  BY CallsAssumption, TimeAssumption DEF IInv, Types, LInv, Sums
<1>2. Sums'
  BY <1>1 DEF LInv, Sums
<1>3. ASSUME NEW c \in Cores, now + gain'[c] < W
      PROVE  /\ least'[c] # None => least'[c] <= busy_till'[c]
             /\ busy_till'[c] <= now + gain'[c]
  <2>1. CASE c = d /\ curr_req'[d] = {}
    <3>1. least'[c] = None /\ busy_till'[c] = now /\ gain'[c] \in Nat
      BY <2>1, <1>1 DEF Leave
    <3> QED
      BY <3>1, <1>1
  <2>2. CASE ~(c = d /\ curr_req'[d] = {})
    <3>1. least'[c] = least[c] /\ busy_till'[c] = busy_till[c] /\ gain'[c] = gain[c]
      BY <2>2, <1>1 DEF Leave
    <3> QED
      BY <3>1, <1>3 DEF LInv, LoadAccounted
  <2> QED
    BY <2>1, <2>2
<1>4. LoadAccounted'
  BY <1>3 DEF LoadAccounted
<1> QED
  BY <1>2, <1>4 DEF LInv

(* The same for a reply that takes no call from the shard.                 *)
LEMMA FreeLoad ==
    ASSUME IInv, LInv, NEW d \in Cores, Leave(d, curr_req[d]),
           UNCHANGED <<now, current, curr_req, history>>
    PROVE  LInv'
<1>1. least' = [least EXCEPT ![d] = IF curr_req'[d] = {} THEN None ELSE @]
  BY DEF LInv, Sums, history
<1>2. gain' = gain /\ gain' \in [Cores -> Nat]
  BY DEF LInv, Sums, history
<1>3. /\ Leave(d, curr_req'[d]) /\ now' = now /\ current' = current
      /\ \A c \in Cores : curr_req'[c] # curr_req[c] => c = d
  BY DEF Leave
<1>4. \A c \in Cores : \/ gain'[c] = gain[c]
                       \/ c = d /\ curr_req'[d] = {} /\ gain'[d] = 0
  BY <1>2
<1> QED
  BY <1>1, <1>2, <1>3, <1>4, LeaveLoad

(* run_func: what is promised at the first call is to be kept from here on.*)
LEMMA ArriveLoad ==
    ASSUME IInv, LInv, NEW d \in Cores, NEW k \in Calls, Arrive(d, k)
    PROVE  LInv'
<1>1. now' = now /\ UNCHANGED <<current, busy_till, gain>>
  BY DEF Arrive
<1>2. CASE k \in Fused
  BY <1>1, <1>2 DEF Arrive, LInv, Sums, LoadAccounted
<1>3. CASE k \notin Fused
  <2>1. /\ curr_req' = [curr_req EXCEPT ![d] = @ \cup {k}]
        /\ least' = [least EXCEPT ![d] = IF curr_req[d] = {} THEN busy_till[d] ELSE @]
    BY <1>3 DEF Arrive
  <2>2. busy_till \in [Cores -> Int]
    BY DEF IInv, Types
  <2>3. Sums'
    BY <1>1, <2>1, <2>2 DEF IInv, Types, LInv, Sums
  <2>4. \A c \in Cores : \/ least'[c] = least[c]
                         \/ least'[c] = busy_till[c]
    BY <2>1 DEF LInv, Sums
  <2>5. \A c \in Cores : busy_till[c] <= busy_till[c]
    BY <2>2
  <2>6. LoadAccounted'
    BY <1>1, <2>4, <2>5 DEF LInv, LoadAccounted
  <2> QED
    BY <2>3, <2>6 DEF LInv
<1> QED
  BY <1>2, <1>3

(* Every step keeps busy_till between the two sums.                        *)
LEMMA NextLInv == IInv /\ LInv /\ [Next]_vars => LInv'
<1> SUFFICES ASSUME IInv, LInv, [Next]_vars PROVE LInv'
  OBVIOUS
<1>1. CASE UNCHANGED vars
  BY <1>1 DEF vars, loadVars, history, LInv, Sums, LoadAccounted
<1>2. CASE Tick
  <2>1. now' = now + 1 /\ UNCHANGED <<current, busy_till, curr_req, least, gain>>
    BY <1>2 DEF Tick, loadVars, history
  <2>2. \A c \in Cores : /\ current[c] \in Nat /\ busy_till[c] \in Int /\ gain[c] \in Nat
    BY DEF IInv, Types, LInv, Sums
  <2>3. now \in Nat /\ Start \in Nat /\ W \in Nat
    BY TimeAssumption DEF IInv, Types
  <2>4. Sums'
    BY <2>1, <2>2, <2>3 DEF LInv, Sums
  <2>5. LoadAccounted'
    BY <2>1, <2>2, <2>3 DEF LInv, LoadAccounted
  <2> QED
    BY <2>4, <2>5 DEF LInv
<1>3. ASSUME NEW c \in Cores, Place(c) PROVE LInv'
  BY <1>3, PlaceLoad
<1>4. ASSUME NEW c \in Cores, AnswerInside(c) PROVE LInv'
  BY <1>4, FreeLoad DEF AnswerInside
<1>5. ASSUME NEW c \in Cores, NEW k \in Calls, Ask(c, k) PROVE LInv'
  <2>1. /\ current' = [current EXCEPT ![c] = now] /\ now' = now
        /\ UNCHANGED <<busy_till, curr_req, least, gain>>
    BY <1>5 DEF Ask, loadVars, history
  <2>2. now \in Nat /\ Start <= current[c] /\ current[c] <= now
        /\ current[c] \in Nat /\ Start \in Nat
    BY TimeAssumption DEF IInv, Types, LInv, Sums
  <2>3. Sums'
    BY <2>1, <2>2 DEF IInv, Types, LInv, Sums
  <2> QED
    BY <2>1, <2>3 DEF LInv, LoadAccounted
<1>6. ASSUME NEW c \in Cores, NEW k \in Calls, Arrive(c, k) PROVE LInv'
  BY <1>6, ArriveLoad
<1>7. ASSUME NEW c \in Cores, NEW k \in Calls, Answer(c, k) PROVE LInv'
  <2>1. /\ now' = now /\ current' = current /\ Leave(c, curr_req'[c])
        /\ curr_req' = [curr_req EXCEPT ![c] = @ \ {k}]
        /\ placed' = [placed EXCEPT ![c] = @ \ {k}]
        /\ least' = [least EXCEPT ![c] = IF curr_req'[c] = {} THEN None ELSE @]
        /\ gain' = [gain EXCEPT ![c] = IF placed'[c] = {} THEN 0 ELSE @]
    BY <1>7 DEF Answer
  <2>2. placed'[c] = {} => curr_req'[c] = {}
    BY <2>1 DEF IInv, Types, Known
  <2>3. gain' \in [Cores -> Nat]
    BY <2>1 DEF LInv, Sums
  <2>4. \A h \in Cores : \/ gain'[h] = gain[h]
                         \/ h = c /\ curr_req'[c] = {} /\ gain'[c] = 0
    <3>1. \A h \in Cores : gain'[h] = IF h = c /\ placed'[c] = {} THEN 0 ELSE gain[h]
      BY <2>1 DEF LInv, Sums
    <3> SUFFICES ASSUME NEW h \in Cores, gain'[h] # gain[h]
                 PROVE  h = c /\ curr_req'[c] = {} /\ gain'[c] = 0
      OBVIOUS
    <3>2. h = c /\ placed'[c] = {} /\ gain'[h] = 0
      BY ONLY <3>1, gain'[h] # gain[h]
    <3> QED
      BY <2>2, <3>2
  <2>5. \A h \in Cores : curr_req'[h] # curr_req[h] => h = c
    BY <2>1 DEF IInv, Types
  <2> QED
    BY <2>1, <2>3, <2>4, <2>5, LeaveLoad
<1>8. ASSUME NEW c \in Cores, NEW k \in Calls, AnswerAgain(c, k) PROVE LInv'
  BY <1>8, FreeLoad DEF AnswerAgain
<1> QED
  BY <1>1, <1>2, <1>3, <1>4, <1>5, <1>6, <1>7, <1>8 DEF Next

(* busy_till of a shard is never later than now and what was promised for  *)
(* it since nothing was placed there, and none of that is lost while the   *)
(* shard has a call in curr_req, whatever the estimates, however late the  *)
(* lock was taken and whatever replies come back, until the sum does not   *)
(* fit in a word.                                                          *)
THEOREM LoadIsAccounted == Spec => []LoadAccounted
<1>1. Init => IInv /\ LInv
  BY InitIInv, InitLInv
<1>2. IInv /\ LInv /\ [Next]_vars => (IInv /\ LInv)'
  BY NextIInv, NextLInv
<1>3. IInv /\ LInv => LoadAccounted
  BY DEF LInv
<1> QED
  BY <1>1, <1>2, <1>3, PTL DEF Spec

-----------------------------------------------------------------------------
(* The lock of these queues.  What its variables hold:                     *)
LockTypes ==
    /\ single \in BOOLEAN
    /\ word \in 0 .. 2
    /\ pc \in [Threads -> {"idle", "peek", "lock", "contend", "wait", "asleep", "in", "wake"}]
    /\ op \in [Threads -> Ops]
    /\ target \in [Threads -> Threads]

(* With big cores: whoever is inside has set the word and is alone.        *)
Held ==
    ~single => \A c \in Threads : pc[c] = "in" => word # 0 /\ \A d \in Threads : pc[d] = "in" => c = d

(* Without: everybody touches its own shard.                               *)
OwnTarget == single => \A c \in Threads : target[c] = c

LockInv == LockTypes /\ Held /\ OwnTarget

(* Nobody is inside.                                                       *)
LEMMA InitLockInv == LockInit => LockInv
BY DEF LockInit, LockInv, LockTypes, Held, OwnTarget, Ops

(* The mutex changes hands only when its word is 0.                        *)
LEMMA NextLockInv == LockInv /\ [LockNext]_lockVars => LockInv'
<1> SUFFICES ASSUME LockInv, [LockNext]_lockVars PROVE LockInv'
  OBVIOUS
<1> USE DEF LockInv, LockTypes, Held, OwnTarget, Goto
<1>1. CASE UNCHANGED lockVars
  BY <1>1 DEF lockVars
<1>2. ASSUME NEW c \in Threads, Begin(c) PROVE LockInv'
  <2>1. PICK o \in Ops :
          /\ op' = [op EXCEPT ![c] = o]
          /\ \E d \in Targets(c, o) : target' = [target EXCEPT ![c] = d]
          /\ pc' = [pc EXCEPT ![c] = IF o = "dispatch" THEN "peek"
                                     ELSE IF Locks(o) THEN "lock" ELSE "in"]
    BY <1>2 DEF Begin
  <2>2. PICK d \in Targets(c, o) : target' = [target EXCEPT ![c] = d]
    BY <2>1
  <2>3. d \in Threads /\ (single => d = c)
    BY <2>2 DEF Targets
  <2>4. ~single => pc'[c] # "in"
    BY <2>1 DEF Locks
  <2> QED
    BY <1>2, <2>1, <2>2, <2>3, <2>4 DEF Begin
<1>3. ASSUME NEW c \in Threads, Peek(c) PROVE LockInv'
  BY <1>3 DEF Peek
<1>4. ASSUME NEW c \in Threads, Lock(c) PROVE LockInv'
  BY <1>4 DEF Lock
<1>5. ASSUME NEW c \in Threads, Contend(c) PROVE LockInv'
  BY <1>5 DEF Contend
<1>6. ASSUME NEW c \in Threads, Wait(c) PROVE LockInv'
  BY <1>6 DEF Wait
<1>7. ASSUME NEW c \in Threads, Unlock(c) PROVE LockInv'
  BY <1>7 DEF Unlock
<1>8. ASSUME NEW c \in Threads, Wake(c) PROVE LockInv'
  BY <1>8 DEF Wake, WakeOne
<1> QED
  BY <1>1, <1>2, <1>3, <1>4, <1>5, <1>6, <1>7, <1>8 DEF LockNext, Step

(* The inductive invariant holds in every reachable state.                 *)
THEOREM LockInvariance == LockSpec => []LockInv
BY InitLockInv, NextLockInv, PTL DEF LockSpec

(* With big cores cores[0].mu has one holder at most.                      *)
THEOREM MutexHasOneHolder == LockSpec => []OneHolder
<1>1. LockInv => OneHolder
  BY DEF LockInv, Held, OneHolder
<1> QED
  BY <1>1, LockInvariance, PTL

(* No shard's queue is touched by two shards at a time, although on a small*)
(* machine get_core unlocks a mutex it has not locked.                     *)
THEOREM QueuesAreNotShared == LockSpec => []NoRace
<1>1. LockInv => NoRace
  BY DEF LockInv, LockTypes, Held, OwnTarget, NoRace
<1> QED
  BY <1>1, LockInvariance, PTL
=============================================================================
