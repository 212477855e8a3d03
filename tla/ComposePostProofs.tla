------------------------- MODULE ComposePostProofs -------------------------
(***************************************************************************)
(* For any number of readers, with and without mentions and URLs: in       *)
(* whatever order the reactor runs the tasks of a request, a post is made  *)
(* of all its parts and a text comes to the end that Outcome says; in a    *)
(* first-in first-out run queue nothing is left to do when compose replies.*)
(***************************************************************************)
EXTENDS ComposePost, SequenceTheorems, TLAPS

Calls == {compose, get_followers} \cup {Serve(x) : x \in Parts} \cup {Upload(x) : x \in Parts}
         \cup Three \cup ToSet(Writes)

Own == {"unique_id", "creator", "media"}

Queued(k) == k \in ToSet(tasks)
Due(k) == micro = <<Ok(k)>>
Failed(k) == micro = <<Error(k)>>

(* 1 for what is the case.                                                 *)
n(holds) == IF holds THEN 1 ELSE 0

Types ==
    /\ shuffled \in BOOLEAN /\ text \subseteq {"mentions", "urls"}
    /\ tasks \in Seq(Calls) /\ IsInjective(tasks)
    /\ \/ micro = << >>
       \/ \E k \in Calls \ {compose} : Due(k)
       \/ "mentions" \notin text /\ Failed(Serve("mentions"))
       \/ "urls" \notin text /\ Failed(Serve("urls"))
    /\ parts \subseteq Parts
    /\ tally \in 0 .. 5

(* Before anything else there is compose.                                  *)
Starting == Queued(compose) => ToSet(tasks) = {compose} /\ micro = << >>

(* Each part is in one place on its way to compose_post_service.js, or has *)
(* been uploaded, unless the function that makes it has thrown.            *)
MakingOwn ==
    \A x \in Own : n(Queued(compose)) + n(Queued(Serve(x))) + n(Queued(Upload(x)))
                  + n(x \in parts) = 1

MakingFromText ==
    \A x \in {"mentions", "urls"} :
        /\ LET places == n(Queued(compose)) + n(Queued(Serve("text"))) + n(Queued(Serve(x)))
                         + n(Queued(Upload(x))) + n(x \in parts)
           IN  places <= 1 /\ (x \in text => places = 1)
        /\ Queued(Upload(x)) \/ x \in parts => x \in text

(* The text itself waits for the short URLs.                               *)
MakingText ==
    IF "urls" \in text
    THEN n(Queued(compose)) + n(Queued(Serve("text"))) + n(Queued(Serve("urls")))
         + n(Due(Serve("urls"))) + n(Queued(Upload("text"))) + n("text" \in parts) = 1
    ELSE ~Queued(Upload("text")) /\ "text" \notin parts /\ ~Due(Serve("urls"))

Making == Starting /\ MakingOwn /\ MakingFromText /\ MakingText

(* The tally counts the parts until upload_post has run, with all of them. *)
Counting ==
    \/ posts = << >> /\ tally = n("unique_id" \in parts) + n("creator" \in parts)
                                + n("media" \in parts) + n("text" \in parts)
                                + n("mentions" \in parts) + n("urls" \in parts)
    \/ parts = Parts /\ \E x \in Parts : posts = <<[by |-> x, read |-> Parts]>>

Composed == posts # << >>
Sixth(x) == Composed /\ posts[1].by = x

(* What the three calls of upload_post have come to, ...                   *)
SendingPost ==
    /\ \A k \in {store_post, write_user_timeline} :
          /\ n(Queued(k)) + n(k \in done) = n(Composed)
          /\ n(Due(k)) + n(k \in back) = n(k \in done)
    /\ n(Queued(write_home_timeline)) + n(Queued(get_followers)) + n(get_followers \in done)
          = n(Composed)
    /\ Due(get_followers) => get_followers \in done
    /\ n(Due(write_home_timeline)) + n(write_home_timeline \in back) = n(ToSet(Writes) \subseteq back)

(* ... and the writes to the timelines of readers.                         *)
SendingHome ==
    \A i \in 1 .. Readers :
        /\ n(Queued(Write(i))) + n(Write(i) \in done)
              = n(get_followers \in done /\ ~Due(get_followers))
        /\ n(Due(Write(i))) + n(Write(i) \in back) = n(Write(i) \in done)

Sending == SendingPost /\ SendingHome

(* An upload has its reply, the sixth when upload_post is done.            *)
Replying ==
    /\ \A x \in Own \cup {"text"} :
          n(Due(Upload(x))) + n(Due(Serve(x))) + n(Serve(x) \in back)
             = n(x \in parts /\ (Sixth(x) => Three \subseteq back))
    /\ answered <=> Four \subseteq back

Flow == Types /\ Making /\ Counting /\ Sending /\ Replying

-----------------------------------------------------------------------------
(* The order in which a first-in first-out run queue runs the calls.       *)
Rank(k) ==
    CASE k[1] = "post" -> 0
      [] k = Serve("unique_id") -> 1
      [] k = Serve("creator") -> 2
      [] k = Serve("media") -> 3
      [] k = Serve("text") -> 4
      [] k = Upload("unique_id") -> 5
      [] k = Upload("creator") -> 6
      [] k = Upload("media") -> 7
      [] k = Serve("mentions") -> 8
      [] k = Serve("urls") -> 9
      [] k = Upload("mentions") -> 10
      [] k = Upload("urls") -> 11
      [] k = Upload("text") -> 12
      [] k = store_post -> 13
      [] k = write_user_timeline -> 14
      [] k = write_home_timeline -> 15
      [] k = get_followers -> 16
      [] k[1] = "write" -> 16 + k[2]

(* The rank of the first call that a call with rank r adds, or of those    *)
(* that come when it has run.                                              *)
Adds(r) == IF r = 0 THEN 1
           ELSE IF r \in 1 .. 4 THEN r + 4
           ELSE IF r \in {8, 9} THEN r + 2
           ELSE IF r \in 5 .. 12 THEN 13
           ELSE IF r \in 13 .. 15 THEN 16
           ELSE IF r = 16 THEN 17
           ELSE 17 + Readers

InOrder(s) == \A i, j \in DOMAIN s : i < j => Rank(s[i]) < Rank(s[j])

Fifo ==
    /\ InOrder(tasks)
    /\ \A k, l \in ToSet(tasks) : Rank(l) < Adds(Rank(k))
    /\ \A x \in parts, k \in ToSet(tasks) : Rank(Upload(x)) < Rank(k)
    /\ Due(Serve("urls")) => \A k \in ToSet(tasks) : 9 < Rank(k)
    /\ Due(get_followers) => \A k \in ToSet(tasks) : 16 < Rank(k)
    /\ Composed => Sixth("text")
    /\ "text" \in parts =>
          ~Due(Upload("mentions")) /\ ~Due(Upload("urls")) /\ ~Due(Serve("mentions"))
          /\ ~Failed(Serve("mentions"))

IInv == Flow /\ (~shuffled => Fifo)

-----------------------------------------------------------------------------
(* Names of calls are told apart by their ranks.                           *)
LEMMA RankFacts ==
    /\ Rank(compose) = 0
    /\ Rank(Serve("unique_id")) = 1 /\ Rank(Serve("creator")) = 2 /\ Rank(Serve("media")) = 3
    /\ Rank(Serve("text")) = 4 /\ Rank(Serve("mentions")) = 8 /\ Rank(Serve("urls")) = 9
    /\ Rank(Upload("unique_id")) = 5 /\ Rank(Upload("creator")) = 6 /\ Rank(Upload("media")) = 7
    /\ Rank(Upload("mentions")) = 10 /\ Rank(Upload("urls")) = 11 /\ Rank(Upload("text")) = 12
    /\ Rank(store_post) = 13 /\ Rank(write_user_timeline) = 14
    /\ Rank(write_home_timeline) = 15 /\ Rank(get_followers) = 16
    /\ \A i \in 1 .. Readers : Rank(Write(i)) = 16 + i
BY DEF Rank, compose, Serve, Upload, store_post, write_user_timeline, write_home_timeline,
       get_followers, Write

(* Putting calls at the end of the run queue.                              *)
LEMMA Appended ==
    ASSUME NEW S, NEW s \in Seq(S), NEW t \in Seq(S)
    PROVE  /\ s \o t \in Seq(S)
           /\ ToSet(s \o t) = ToSet(s) \cup ToSet(t)
           /\ IsInjective(s) /\ IsInjective(t) /\ ToSet(s) \cap ToSet(t) = {}
                => IsInjective(s \o t)
           /\ InOrder(s) /\ InOrder(t) /\ (\A k \in ToSet(s), l \in ToSet(t) : Rank(k) < Rank(l))
                => InOrder(s \o t)
<1> DEFINE u == s \o t
<1>1. u \in Seq(S) /\ Len(u) = Len(s) + Len(t)
  OBVIOUS
<1>2. \A i \in DOMAIN s : i \in DOMAIN u /\ u[i] = s[i]
  OBVIOUS
<1>3. \A i \in DOMAIN t : i + Len(s) \in DOMAIN u /\ u[i + Len(s)] = t[i]
  OBVIOUS
<1>4. \A i \in DOMAIN u :
        \/ i \in DOMAIN s /\ u[i] = s[i]
        \/ i > Len(s) /\ i - Len(s) \in DOMAIN t /\ u[i] = t[i - Len(s)]
  OBVIOUS
<1> HIDE DEF u
<1>5. ToSet(u) = ToSet(s) \cup ToSet(t)
  <2>1. \A i \in DOMAIN u : u[i] \in ToSet(s) \cup ToSet(t)
    BY <1>4 DEF ToSet
  <2>2. \A i \in DOMAIN s : s[i] \in ToSet(u)
    BY <1>2 DEF ToSet
  <2>3. \A i \in DOMAIN t : t[i] \in ToSet(u)
    BY <1>3 DEF ToSet
  <2> QED
    BY <2>1, <2>2, <2>3 DEF ToSet
<1>6. ASSUME IsInjective(s), IsInjective(t), ToSet(s) \cap ToSet(t) = {}
      PROVE  IsInjective(u)
  <2>1. \A i \in DOMAIN s, j \in DOMAIN t : s[i] # t[j]
    BY <1>6 DEF ToSet
  <2> SUFFICES ASSUME NEW i \in DOMAIN u, NEW j \in DOMAIN u, u[i] = u[j] PROVE i = j
    BY DEF IsInjective
  <2>2. CASE i \in DOMAIN s /\ j \in DOMAIN s
    BY <2>2, <1>2, <1>6 DEF IsInjective
  <2>3. CASE i > Len(s) /\ j > Len(s)
    <3>1. t[i - Len(s)] = t[j - Len(s)] /\ i - Len(s) \in DOMAIN t /\ j - Len(s) \in DOMAIN t
      BY <2>3, <1>4
    <3>2. i - Len(s) = j - Len(s)
      BY <3>1, <1>6 DEF IsInjective
    <3> QED
      BY <3>2, <1>1
  <2> QED
    BY <2>1, <2>2, <2>3, <1>4
<1>7. ASSUME InOrder(s), InOrder(t), \A k \in ToSet(s), l \in ToSet(t) : Rank(k) < Rank(l)
      PROVE  InOrder(u)
  <2>1. \A i \in DOMAIN s, j \in DOMAIN t : Rank(s[i]) < Rank(t[j])
    BY <1>7 DEF ToSet
  <2> SUFFICES ASSUME NEW i \in DOMAIN u, NEW j \in DOMAIN u, i < j PROVE Rank(u[i]) < Rank(u[j])
    BY DEF InOrder
  <2> QED
    BY <2>1, <1>1, <1>4, <1>7 DEF InOrder
<1> QED
  BY <1>1, <1>5, <1>6, <1>7 DEF u

(* Taking the task at i out of it.                                         *)
LEMMA Removed ==
    ASSUME NEW S, NEW s \in Seq(S), IsInjective(s), NEW i \in DOMAIN s
    PROVE  /\ RemoveAt(s, i) \in Seq(S)
           /\ ToSet(RemoveAt(s, i)) = ToSet(s) \ {s[i]}
           /\ IsInjective(RemoveAt(s, i))
           /\ InOrder(s) => InOrder(RemoveAt(s, i))
<1> DEFINE r == RemoveAt(s, i)
<1> DEFINE a == SubSeq(s, 1, i - 1)
<1> DEFINE b == SubSeq(s, i + 1, Len(s))
<1>0. /\ a \in Seq(S) /\ Len(a) = i - 1 /\ \A j \in 1 .. i - 1 : a[j] = s[j]
      /\ b \in Seq(S) /\ Len(b) = Len(s) - i /\ \A j \in 1 .. Len(s) - i : b[j] = s[i + j]
  OBVIOUS
<1>1. r = a \o b
  BY DEF RemoveAt
<1> HIDE DEF a, b, r
<1>2. r \in Seq(S) /\ Len(r) = Len(s) - 1
  BY <1>0, <1>1
<1>3. \A j \in DOMAIN r : r[j] = s[IF j < i THEN j ELSE j + 1]
  <2> SUFFICES ASSUME NEW j \in DOMAIN r PROVE r[j] = s[IF j < i THEN j ELSE j + 1]
    OBVIOUS
  <2>1. CASE j < i
    BY <2>1, <1>0, <1>1, <1>2
  <2>2. CASE j >= i
    <3>1. r[j] = b[j - (i - 1)] /\ j - (i - 1) \in 1 .. Len(s) - i
      BY <2>2, <1>0, <1>1, <1>2
    <3>2. i + (j - (i - 1)) = j + 1
      BY <1>2
    <3> QED
      BY <2>2, <3>1, <3>2, <1>0, <1>2
  <2> QED
    BY <2>1, <2>2, <1>2
<1>4. ToSet(r) = ToSet(s) \ {s[i]}
  <2>1. ASSUME NEW j \in DOMAIN r PROVE r[j] \in ToSet(s) \ {s[i]}
    BY <1>2, <1>3 DEF ToSet, IsInjective
  <2>2. ASSUME NEW j \in DOMAIN s, s[j] # s[i] PROVE s[j] \in ToSet(r)
    <3>1. CASE j < i
      BY <3>1, <1>2, <1>3 DEF ToSet
    <3>2. CASE j > i
      <4>1. j - 1 \in DOMAIN r /\ r[j - 1] = s[j]
        BY <3>2, <1>2, <1>3
      <4> QED
        BY <4>1 DEF ToSet
    <3> QED
      BY <2>2, <3>1, <3>2
  <2> QED
    BY <2>1, <2>2 DEF ToSet
<1>5. IsInjective(r)
  BY <1>2, <1>3 DEF IsInjective
<1>6. InOrder(s) => InOrder(r)
  BY <1>2, <1>3 DEF InOrder
<1> QED
  BY <1>2, <1>4, <1>5, <1>6 DEF r

(* All calls of the request.                                               *)
LEMMA Names ==
    /\ \A x \in Parts : Serve(x) \in Calls /\ Upload(x) \in Calls
    /\ store_post \in Calls /\ write_user_timeline \in Calls /\ write_home_timeline \in Calls
    /\ get_followers \in Calls /\ compose \in Calls
    /\ Writes \in Seq(Calls) /\ ToSet(Writes) = {Write(i) : i \in 1 .. Readers}
<1>1. ToSet(Writes) = {Write(i) : i \in 1 .. Readers} /\ ToSet(Writes) \subseteq Calls
  BY DEF ToSet, Writes, Calls
<1>2. \A i \in 1 .. Readers : Write(i) \in Calls
  BY <1>1 DEF Calls
<1>3. Writes \in Seq(Calls)
  BY <1>2, ReadersAssumption DEF Writes
<1> QED
  BY <1>1, <1>3 DEF Calls, Three

LEMMA Distinct ==
    /\ \A x, y \in Parts :
          /\ Upload(x) # Serve(y)
          /\ Upload(x) = Upload(y) => x = y
          /\ Serve(x) = Serve(y) => x = y
    /\ \A x \in Parts, k \in {compose, get_followers} \cup Three \cup ToSet(Writes) :
          Upload(x) # k /\ Serve(x) # k
    /\ \A i \in 1 .. Readers :
          /\ Write(i) \notin {compose, get_followers} \cup Three
          /\ \A j \in 1 .. Readers : Write(i) = Write(j) => i = j
<1>1. \A x, y \in Parts :
        /\ Upload(x) # Serve(y)
        /\ Upload(x) = Upload(y) => x = y
        /\ Serve(x) = Serve(y) => x = y
  BY RankFacts DEF Parts
<1>2. \A x \in Parts : Rank(Serve(x)) \in 1 .. 12 /\ Rank(Upload(x)) \in 1 .. 12
  BY RankFacts DEF Parts
<1>3. \A k \in {compose, get_followers} \cup Three : Rank(k) \in {0, 13, 14, 15, 16}
  BY RankFacts DEF Three
<1>4. \A k \in ToSet(Writes) : Rank(k) > 16
  BY RankFacts, Names
<1>5. \A x \in Parts, k \in {compose, get_followers} \cup Three \cup ToSet(Writes) :
        Upload(x) # k /\ Serve(x) # k
  BY <1>2, <1>3, <1>4
<1>6. \A i \in 1 .. Readers :
        /\ Write(i) \notin {compose, get_followers} \cup Three
        /\ \A j \in 1 .. Readers : Write(i) = Write(j) => i = j
  BY <1>3, RankFacts
<1> QED
  BY <1>1, <1>5, <1>6

(* One call, or none.                                                      *)
LEMMA Short ==
    /\ << >> \in Seq(Calls) /\ ToSet(<< >>) = {} /\ IsInjective(<< >>) /\ InOrder(<< >>)
    /\ \A k \in Calls : <<k>> \in Seq(Calls) /\ ToSet(<<k>>) = {k} /\ IsInjective(<<k>>)
                        /\ InOrder(<<k>>)
BY DEF ToSet, IsInjective, InOrder

(* Results are told apart.                                                 *)
LEMMA Results ==
    \A k, l :
        /\ <<Ok(k)>> # << >> /\ <<Error(k)>> # << >> /\ <<Ok(k)>> # <<Error(l)>>
        /\ <<Ok(k)>> = <<Ok(l)>> <=> k = l
        /\ <<Error(k)>> = <<Error(l)>> <=> k = l
<1> TAKE k, l
<1>1. (Ok(k) = Ok(l) <=> k = l) /\ (Error(k) = Error(l) <=> k = l)
  BY Ok(k).call = k, Ok(l).call = l, Error(k).call = k, Error(l).call = l DEF Ok, Error
<1>2. Ok(k) # Error(l)
  BY Ok(k).ok, ~Error(l).ok DEF Ok, Error
<1>3. \A a, b : <<a>> # << >> /\ (<<a>> = <<b>> <=> a = b)
  OBVIOUS
<1> QED
  BY <1>1, <1>2, <1>3

(* What the reactor does with the run queue ...                            *)
LEMMA RunStep ==
    ASSUME Types, NEW k, NEW calls \in Seq(Calls), NEW results, Run(k, calls, results),
           IsInjective(calls), ToSet(calls) \cap ToSet(tasks) = {}
    PROVE  /\ micro = << >> /\ micro' = results /\ k \in ToSet(tasks)
           /\ tasks' \in Seq(Calls) /\ IsInjective(tasks')
           /\ ToSet(tasks') = (ToSet(tasks) \ {k}) \cup ToSet(calls)
<1>1. PICK i \in DOMAIN tasks : tasks[i] = k /\ tasks' = RemoveAt(tasks, i) \o calls
  BY DEF Run
<1> DEFINE rest == RemoveAt(tasks, i)
<1>2. rest \in Seq(Calls) /\ ToSet(rest) = ToSet(tasks) \ {k} /\ IsInjective(rest)
  BY <1>1, Removed DEF Types
<1>3. k \in ToSet(tasks)
  BY <1>1 DEF ToSet
<1> HIDE DEF rest
<1>4. ToSet(rest) \cap ToSet(calls) = {}
  BY <1>2
<1>5. rest \o calls \in Seq(Calls) /\ IsInjective(rest \o calls)
      /\ ToSet(rest \o calls) = ToSet(rest) \cup ToSet(calls)
  BY <1>2, <1>4, Appended
<1>6. tasks' = rest \o calls
  BY <1>1 DEF rest
<1> QED
  BY <1>2, <1>3, <1>5, <1>6 DEF Run

(* ... and V8 with what it adds to it.                                     *)
LEMMA ThenStep ==
    ASSUME Types, NEW result, NEW calls \in Seq(Calls), NEW results, Then(result, calls, results),
           results = << >> \/ \E r : results = <<r>>,
           IsInjective(calls), ToSet(calls) \cap ToSet(tasks) = {}
    PROVE  /\ micro = <<result>> /\ micro' = results
           /\ tasks' \in Seq(Calls) /\ IsInjective(tasks')
           /\ ToSet(tasks') = ToSet(tasks) \cup ToSet(calls)
<1>1. micro = <<result>>
  BY DEF Then, Types, Due, Failed
<1>2. micro' = results
  BY <1>1 DEF Then
<1>3. tasks' = tasks \o calls
  BY DEF Then
<1> QED
  BY <1>1, <1>2, <1>3, Appended DEF Types

(* In a first-in first-out run queue the head is the call of least rank,   *)
(* and what it adds comes after all others.                                *)
LEMMA RunInOrder ==
    ASSUME Types, Fifo, ~shuffled, NEW k, NEW calls \in Seq(Calls), NEW results,
           Run(k, calls, results), InOrder(calls),
           \A l \in ToSet(tasks) \ {k}, m \in ToSet(calls) : Rank(l) < Rank(m)
    PROVE  /\ InOrder(tasks') /\ k \in ToSet(tasks) /\ micro = << >> /\ micro' = results
           /\ ToSet(tasks') = (ToSet(tasks) \ {k}) \cup ToSet(calls)
           /\ \A l \in ToSet(tasks) \ {k} : Rank(k) < Rank(l)
<1>1. 1 \in DOMAIN tasks /\ tasks[1] = k /\ tasks' = RemoveAt(tasks, 1) \o calls
  BY DEF Run
<1> DEFINE rest == RemoveAt(tasks, 1)
<1>2. rest \in Seq(Calls) /\ ToSet(rest) = ToSet(tasks) \ {k} /\ InOrder(rest)
  BY <1>1, Removed DEF Types, Fifo
<1> HIDE DEF rest
<1>3. InOrder(rest \o calls) /\ ToSet(rest \o calls) = ToSet(rest) \cup ToSet(calls)
  BY <1>2, Appended
<1>4. \A l \in ToSet(tasks) \ {k} : Rank(k) < Rank(l)
  <2> SUFFICES ASSUME NEW j \in DOMAIN tasks, tasks[j] # k PROVE Rank(k) < Rank(tasks[j])
    BY DEF ToSet
  <2>1. 1 < j
    BY <1>1 DEF Types
  <2> QED
    BY <1>1, <2>1 DEF Fifo, InOrder
<1>5. k \in ToSet(tasks)
  BY <1>1 DEF ToSet
<1> QED
  BY <1>1, <1>2, <1>3, <1>4, <1>5 DEF rest, Run

-----------------------------------------------------------------------------
(* The two halves of a request disturb each other only where they meet.    *)
LEMMA MakingKept ==
    ASSUME Making, UNCHANGED <<text, parts>>, micro' = << >> \/ ~Queued(compose),
           ToSet(tasks) = {compose} => ToSet(tasks') = {compose},
           \A k \in {compose} \cup {Serve(x) : x \in Parts} \cup {Upload(x) : x \in Parts} :
               k \in ToSet(tasks') <=> k \in ToSet(tasks),
           micro' = <<Ok(Serve("urls"))>> <=> micro = <<Ok(Serve("urls"))>>
    PROVE  Making'
<1>1. Starting'
  BY DEF Making, Starting, Queued
<1>2. MakingOwn'
  BY DEF Making, MakingOwn, Queued, n, Parts, Own
<1>3. MakingFromText'
  BY DEF Making, MakingFromText, Queued, n, Parts
<1>4. MakingText'
  BY DEF Making, MakingText, Queued, Due, n, Parts
<1> QED
  BY <1>1, <1>2, <1>3, <1>4 DEF Making

LEMMA SendingKept ==
    ASSUME Sending, UNCHANGED <<posts, done>>,
           \A k \in {get_followers} \cup Three \cup ToSet(Writes) :
               /\ k \in ToSet(tasks') <=> k \in ToSet(tasks)
               /\ micro' = <<Ok(k)>> <=> micro = <<Ok(k)>>
               /\ k \in back' <=> k \in back
    PROVE  Sending'
<1>1. ToSet(Writes) \subseteq back' <=> ToSet(Writes) \subseteq back
  OBVIOUS
<1>2. SendingPost'
  BY <1>1 DEF Sending, SendingPost, Queued, Due, n, Composed, Three
<1>3. SendingHome'
  BY Names DEF Sending, SendingHome, Queued, Due, n
<1> QED
  BY <1>2, <1>3 DEF Sending

LEMMA PassOnFlow ==
    ASSUME Flow, NEW x, PassOn(x)
    PROVE  Flow'
<1> USE RankFacts, Results DEF Queued, Due, Failed, n, Own
<1> DEFINE calls == <<Upload(x)>>
<1>1. x \in Own /\ calls \in Seq(Calls) /\ IsInjective(calls) /\ ToSet(calls) = {Upload(x)}
  BY DEF PassOn, Calls, IsInjective, ToSet, Parts
<1>2. Run(Serve(x), calls, << >>) /\ UNCHANGED data
  BY DEF PassOn
<1>3. Serve(x) \in ToSet(tasks)
  BY <1>2 DEF Run, ToSet
<1>4. ToSet(calls) \cap ToSet(tasks) = {}
  BY <1>1, <1>3 DEF Flow, Making, MakingOwn
<1>5. /\ micro = << >> /\ micro' = << >>
      /\ tasks' \in Seq(Calls) /\ IsInjective(tasks')
      /\ ToSet(tasks') = (ToSet(tasks) \ {Serve(x)}) \cup {Upload(x)}
  <2> HIDE DEF calls, n, Queued, Due, Failed, Own
  <2>1. Types
    BY DEF Flow
  <2> HIDE RankFacts, Results
  <2> QED
    BY <1>1, <1>2, <1>4, <2>1, RunStep
<1>6. Types'
  BY <1>2, <1>5 DEF Flow, Types, data
<1>7. Starting' /\ MakingOwn' /\ MakingFromText' /\ MakingText'
  <2>1. Starting'
    BY <1>1, <1>3, <1>5 DEF Flow, Making, Starting
  <2>2. MakingOwn'
    BY <1>1, <1>2, <1>3, <1>5 DEF Flow, Making, MakingOwn, data
  <2>3. MakingFromText'
    BY <1>1, <1>2, <1>5 DEF Flow, Making, MakingFromText, data
  <2>4. MakingText'
    BY <1>1, <1>2, <1>5 DEF Flow, Making, MakingText, data
  <2> QED
    BY <2>1, <2>2, <2>3, <2>4
<1>8. Counting'
  BY <1>2 DEF Flow, Counting, data
<1>9. Sending'
  <2>1. \A k \in {get_followers} \cup Three \cup ToSet(Writes) :
          k \notin {Serve(x), Upload(x)}
    BY Distinct, Names, <1>1 DEF Parts
  <2> QED
    BY <2>1, <1>2, <1>5, SendingKept DEF Flow, data
<1>10. Replying'
  BY <1>1, <1>2, <1>5 DEF Flow, Replying, Composed, Sixth, data
<1> QED
  BY <1>6, <1>7, <1>8, <1>9, <1>10 DEF Flow, Making

LEMMA ComposeFlow ==
    ASSUME Flow, Compose
    PROVE  Flow'
<1> USE RankFacts, Results DEF Queued, Due, Failed, n, Own
<1> DEFINE calls == <<Serve("unique_id"), Serve("creator"), Serve("media"), Serve("text")>>
<1> DEFINE results == << >>
<1>1. /\ calls \in Seq(Calls) /\ IsInjective(calls)
      /\ ToSet(calls) = {Serve("unique_id"), Serve("creator"), Serve("media"), Serve("text")}
  BY DEF Compose, Calls, IsInjective, ToSet, Parts
<1>2. Run(compose, calls, results) /\ UNCHANGED data
  BY DEF Compose
<1>3. compose \in ToSet(tasks)
  BY <1>2 DEF Run, ToSet
<1>4. ToSet(calls) \cap ToSet(tasks) = {}
  BY <1>1, <1>3 DEF Flow, Making, Starting
<1>5. /\ micro = << >> /\ micro' = results
      /\ tasks' \in Seq(Calls) /\ IsInjective(tasks')
      /\ ToSet(tasks') = (ToSet(tasks) \ {compose})
            \cup {Serve("unique_id"), Serve("creator"), Serve("media"), Serve("text")}
  <2> HIDE DEF calls, results, n, Queued, Due, Failed, Own
  <2>1. Types
    BY DEF Flow
  <2> HIDE RankFacts, Results
  <2> QED
    BY <1>1, <1>2, <1>4, <2>1, RunStep
<1>6. Types'
  BY <1>2, <1>5 DEF Flow, Types, data
<1>7. Starting' /\ MakingOwn' /\ MakingFromText' /\ MakingText'
  <2>1. Starting'
    BY <1>1, <1>3, <1>5 DEF Flow, Making, Starting
  <2>2. MakingOwn'
    BY <1>1, <1>2, <1>3, <1>5 DEF Flow, Making, Starting, MakingOwn, data
  <2>3. MakingFromText'
    BY <1>1, <1>2, <1>3, <1>5 DEF Flow, Making, Starting, MakingFromText, data
  <2>4. MakingText'
    BY <1>1, <1>2, <1>3, <1>5 DEF Flow, Making, Starting, MakingText, data
  <2> QED
    BY <2>1, <2>2, <2>3, <2>4
<1>8. Counting'
  BY <1>2 DEF Flow, Counting, data
<1>9. Sending'
  <2>1. \A k \in {get_followers} \cup Three \cup ToSet(Writes) :
          k \notin {compose, Serve("unique_id"), Serve("creator"), Serve("media"), Serve("text")}
    BY Distinct, Names DEF Parts, Three
  <2> QED
    BY <2>1, <1>2, <1>5, SendingKept DEF Flow, data
<1>10. Replying'
  BY <1>1, <1>2, <1>3, <1>5 DEF Flow, Replying, Composed, Sixth, data
<1> QED
  BY <1>6, <1>7, <1>8, <1>9, <1>10 DEF Flow, Making

LEMMA upload_textFlow ==
    ASSUME Flow, upload_text
    PROVE  Flow'
<1> USE RankFacts, Results DEF Queued, Due, Failed, n, Own
<1> DEFINE calls == <<Serve("mentions"), Serve("urls")>>
<1> DEFINE results == << >>
<1>1. /\ calls \in Seq(Calls) /\ IsInjective(calls)
      /\ ToSet(calls) = {Serve("mentions"), Serve("urls")}
  BY DEF upload_text, Calls, IsInjective, ToSet, Parts
<1>2. Run(Serve("text"), calls, results) /\ UNCHANGED data
  BY DEF upload_text
<1>3. Serve("text") \in ToSet(tasks)
  BY <1>2 DEF Run, ToSet
<1>4. ToSet(calls) \cap ToSet(tasks) = {}
  BY <1>1, <1>3 DEF Flow, Making, MakingFromText
<1>5. /\ micro = << >> /\ micro' = results
      /\ tasks' \in Seq(Calls) /\ IsInjective(tasks')
      /\ ToSet(tasks') = (ToSet(tasks) \ {Serve("text")}) \cup {Serve("mentions"), Serve("urls")}
  <2> HIDE DEF calls, results, n, Queued, Due, Failed, Own
  <2>1. Types
    BY DEF Flow
  <2> HIDE RankFacts, Results
  <2> QED
    BY <1>1, <1>2, <1>4, <2>1, RunStep
<1>6. Types'
  BY <1>2, <1>5 DEF Flow, Types, data
<1>7. Starting' /\ MakingOwn' /\ MakingFromText' /\ MakingText'
  <2>1. Starting'
    BY <1>1, <1>3, <1>5 DEF Flow, Making, Starting
  <2>2. MakingOwn'
    BY <1>1, <1>2, <1>3, <1>5 DEF Flow, Making, Starting, MakingOwn, data
  <2>3. MakingFromText'
    BY <1>1, <1>2, <1>3, <1>5 DEF Flow, Making, Starting, MakingFromText, data
  <2>4. MakingText'
    BY <1>1, <1>2, <1>3, <1>5 DEF Flow, Making, Starting, MakingText, data
  <2> QED
    BY <2>1, <2>2, <2>3, <2>4
<1>8. Counting'
  BY <1>2 DEF Flow, Counting, data
<1>9. Sending'
  <2>1. \A k \in {get_followers} \cup Three \cup ToSet(Writes) :
          k \notin {Serve("text"), Serve("mentions"), Serve("urls")}
    BY Distinct, Names DEF Parts
  <2> QED
    BY <2>1, <1>2, <1>5, SendingKept DEF Flow, data
<1>10. Replying'
  BY <1>1, <1>2, <1>3, <1>5 DEF Flow, Replying, Composed, Sixth, data
<1> QED
  BY <1>6, <1>7, <1>8, <1>9, <1>10 DEF Flow, Making

LEMMA upload_user_mentionsFlow ==
    ASSUME Flow, upload_user_mentions
    PROVE  Flow'
<1> USE RankFacts, Results DEF Queued, Due, Failed, n, Own
<1> DEFINE calls == IF "mentions" \in text THEN <<Upload("mentions")>> ELSE << >>
<1> DEFINE results == IF "mentions" \in text THEN << >> ELSE <<Error(Serve("mentions"))>>
<1>1. /\ calls \in Seq(Calls) /\ IsInjective(calls)
      /\ ToSet(calls) = (IF "mentions" \in text THEN {Upload("mentions")} ELSE {})
  BY Short, Names DEF upload_user_mentions, Parts
<1>2. Run(Serve("mentions"), calls, results) /\ UNCHANGED data
  BY DEF upload_user_mentions
<1>3. Serve("mentions") \in ToSet(tasks)
  BY <1>2 DEF Run, ToSet
<1>4. ToSet(calls) \cap ToSet(tasks) = {}
  BY <1>1, <1>3 DEF Flow, Making, MakingFromText
<1>5. /\ micro = << >> /\ micro' = results
      /\ tasks' \in Seq(Calls) /\ IsInjective(tasks')
      /\ ToSet(tasks') = (ToSet(tasks) \ {Serve("mentions")})
            \cup (IF "mentions" \in text THEN {Upload("mentions")} ELSE {})
  <2> HIDE DEF calls, results, n, Queued, Due, Failed, Own
  <2>1. Types
    BY DEF Flow
  <2> HIDE RankFacts, Results
  <2> QED
    BY <1>1, <1>2, <1>4, <2>1, RunStep
<1>6. Types'
  BY <1>2, <1>5 DEF Flow, Types, data, Calls, Parts
<1>7. Starting' /\ MakingOwn' /\ MakingFromText' /\ MakingText'
  <2>1. Starting'
    BY <1>1, <1>3, <1>5 DEF Flow, Making, Starting
  <2>2. MakingOwn'
    BY <1>1, <1>2, <1>3, <1>5 DEF Flow, Making, Starting, MakingOwn, data
  <2>3. MakingFromText'
    BY <1>1, <1>2, <1>3, <1>5 DEF Flow, Making, Starting, MakingFromText, data
  <2>4. MakingText'
    BY <1>1, <1>2, <1>3, <1>5 DEF Flow, Making, Starting, MakingText, data
  <2> QED
    BY <2>1, <2>2, <2>3, <2>4
<1>8. Counting'
  BY <1>2 DEF Flow, Counting, data
<1>9. Sending'
  <2>1. \A k \in {get_followers} \cup Three \cup ToSet(Writes) :
          k \notin {Serve("mentions"), Upload("mentions")}
    BY Distinct, Names DEF Parts
  <2> QED
    BY <2>1, <1>2, <1>5, SendingKept DEF Flow, data
<1>10. Replying'
  BY <1>1, <1>2, <1>3, <1>5 DEF Flow, Replying, Composed, Sixth, data
<1> QED
  BY <1>6, <1>7, <1>8, <1>9, <1>10 DEF Flow, Making

LEMMA upload_urlsFlow ==
    ASSUME Flow, upload_urls
    PROVE  Flow'
<1> USE RankFacts, Results DEF Queued, Due, Failed, n, Own
<1> DEFINE calls == IF "urls" \in text THEN <<Upload("urls")>> ELSE << >>
<1> DEFINE results == IF "urls" \in text THEN <<Ok(Serve("urls"))>> ELSE <<Error(Serve("urls"))>>
<1>1. /\ calls \in Seq(Calls) /\ IsInjective(calls)
      /\ ToSet(calls) = (IF "urls" \in text THEN {Upload("urls")} ELSE {})
  BY Short, Names DEF upload_urls, Parts
<1>2. Run(Serve("urls"), calls, results) /\ UNCHANGED data
  BY DEF upload_urls
<1>3. Serve("urls") \in ToSet(tasks)
  BY <1>2 DEF Run, ToSet
<1>4. ToSet(calls) \cap ToSet(tasks) = {}
  BY <1>1, <1>3 DEF Flow, Making, MakingFromText
<1>5. /\ micro = << >> /\ micro' = results
      /\ tasks' \in Seq(Calls) /\ IsInjective(tasks')
      /\ ToSet(tasks') = (ToSet(tasks) \ {Serve("urls")})
            \cup (IF "urls" \in text THEN {Upload("urls")} ELSE {})
  <2> HIDE DEF calls, results, n, Queued, Due, Failed, Own
  <2>1. Types
    BY DEF Flow
  <2> HIDE RankFacts, Results
  <2> QED
    BY <1>1, <1>2, <1>4, <2>1, RunStep
<1>6. Types'
  BY <1>2, <1>5 DEF Flow, Types, data, Calls, Parts
<1>7. Starting' /\ MakingOwn' /\ MakingFromText' /\ MakingText'
  <2>1. Starting'
    BY <1>1, <1>3, <1>5 DEF Flow, Making, Starting
  <2>2. MakingOwn'
    BY <1>1, <1>2, <1>3, <1>5 DEF Flow, Making, Starting, MakingOwn, data
  <2>3. MakingFromText'
    BY <1>1, <1>2, <1>3, <1>5 DEF Flow, Making, Starting, MakingFromText, data
  <2>4. MakingText'
    BY <1>1, <1>2, <1>3, <1>5 DEF Flow, Making, Starting, MakingText, data
  <2> QED
    BY <2>1, <2>2, <2>3, <2>4
<1>8. Counting'
  BY <1>2 DEF Flow, Counting, data
<1>9. Sending'
  <2>1. \A k \in {get_followers} \cup Three \cup ToSet(Writes) :
          k \notin {Serve("urls"), Upload("urls")}
    BY Distinct, Names DEF Parts
  <2> QED
    BY <2>1, <1>2, <1>5, SendingKept DEF Flow, data
<1>10. Replying'
  BY <1>1, <1>2, <1>3, <1>5 DEF Flow, Replying, Composed, Sixth, data
<1> QED
  BY <1>6, <1>7, <1>8, <1>9, <1>10 DEF Flow, Making

LEMMA AskFollowersFlow ==
    ASSUME Flow, AskFollowers
    PROVE  Flow'
<1> USE RankFacts, Results DEF Queued, Due, Failed, n, Own
<1> DEFINE calls == <<get_followers>>
<1> DEFINE results == << >>
<1>1. /\ calls \in Seq(Calls) /\ IsInjective(calls)
      /\ ToSet(calls) = {get_followers}
  BY Short, Names DEF AskFollowers, Three, Parts
<1>2. Run(write_home_timeline, calls, results) /\ UNCHANGED data
  BY DEF AskFollowers, Three
<1>3. write_home_timeline \in ToSet(tasks)
  BY <1>2 DEF Run, ToSet
<1>4. ToSet(calls) \cap ToSet(tasks) = {}
  BY <1>1, <1>3 DEF Flow, Making, Sending, SendingPost
<1>5. /\ micro = << >> /\ micro' = results
      /\ tasks' \in Seq(Calls) /\ IsInjective(tasks')
      /\ ToSet(tasks') = (ToSet(tasks) \ {write_home_timeline}) \cup {get_followers}
  <2> HIDE DEF calls, results, n, Queued, Due, Failed, Own
  <2>1. Types
    BY DEF Flow
  <2> HIDE RankFacts, Results
  <2> QED
    BY <1>1, <1>2, <1>4, <2>1, RunStep
<1>6. Types'
  BY <1>2, <1>5 DEF Flow, Types, data
<1>7. Starting' /\ MakingOwn' /\ MakingFromText' /\ MakingText'
  <2>1. Starting'
    BY <1>1, <1>3, <1>5 DEF Flow, Making, Starting
  <2>2. MakingOwn'
    BY <1>1, <1>2, <1>3, <1>5 DEF Flow, Making, Starting, MakingOwn, data
  <2>3. MakingFromText'
    BY <1>1, <1>2, <1>3, <1>5 DEF Flow, Making, Starting, MakingFromText, data
  <2>4. MakingText'
    BY <1>1, <1>2, <1>3, <1>5 DEF Flow, Making, Starting, MakingText, data
  <2> QED
    BY <2>1, <2>2, <2>3, <2>4
<1>8. Counting'
  BY <1>2 DEF Flow, Counting, data
<1>9. SendingPost' /\ SendingHome'
  <2>1. /\ write_home_timeline \notin {store_post, write_user_timeline, get_followers}
        /\ get_followers \notin {store_post, write_user_timeline}
        /\ \A k : micro # <<Ok(k)>> /\ micro' # <<Ok(k)>>
    BY <1>5
  <2>2. SendingPost'
    BY <2>1, <1>2, <1>3, <1>5 DEF Flow, Sending, SendingPost, Composed, data
  <2>3. \A i \in 1 .. Readers : Write(i) \notin {write_home_timeline, get_followers}
    BY Distinct DEF Three
  <2>4. SendingHome'
    BY <2>1, <2>3, <1>2, <1>5 DEF Flow, Sending, SendingHome, data
  <2> QED
    BY <2>2, <2>4
<1>10. Replying'
  BY <1>1, <1>2, <1>3, <1>5 DEF Flow, Replying, Composed, Sixth, data
<1> QED
  BY <1>6, <1>7, <1>8, <1>9, <1>10 DEF Flow, Making, Sending

(* An upload that is queued has not been counted, so upload_post has not run.*)
LEMMA UploadQueued ==
    ASSUME Flow, NEW x \in Parts, Queued(Upload(x))
    PROVE  /\ x \notin parts /\ ~Queued(compose)
           /\ posts = << >>
           /\ tally = n("unique_id" \in parts) + n("creator" \in parts) + n("media" \in parts)
                      + n("text" \in parts) + n("mentions" \in parts) + n("urls" \in parts)
<1>1. x \notin parts /\ ~Queued(compose)
  BY RankFacts
  DEF Flow, Making, Starting, MakingOwn, MakingFromText, MakingText, Parts, Own, n, Queued
<1> QED
  BY <1>1 DEF Flow, Counting

(* An upload that is not the sixth ...                                     *)
LEMMA KeptFlow ==
    ASSUME Flow, NEW x \in Parts, check_upload_post(x), tally + 1 # 6
    PROVE  Flow'
<1> USE RankFacts, Results DEF Queued, Due, Failed, n, Own
<1> DEFINE calls == << >>
<1> DEFINE results == <<Ok(Upload(x))>>
<1> DEFINE called == {}
<1>1. /\ calls \in Seq(Calls) /\ IsInjective(calls)
      /\ ToSet(calls) = called
  BY Short
<1>2. Run(Upload(x), calls, results)
  BY DEF check_upload_post
<1>3. Queued(Upload(x)) /\ Upload(x) \in Calls \ {compose}
  <2>1. Upload(x) \in Calls /\ Rank(Upload(x)) # 0
    BY Names DEF Parts
  <2> QED
    BY <1>2, <2>1 DEF Run, ToSet
<1>4. /\ x \notin parts /\ parts' = parts \cup {x} /\ ~Queued(compose)
      /\ posts = << >> /\ posts' = posts
      /\ tally = n("unique_id" \in parts) + n("creator" \in parts) + n("media" \in parts)
                 + n("text" \in parts) + n("mentions" \in parts) + n("urls" \in parts)
      /\ tally' = tally + 1
      /\ UNCHANGED <<shuffled, text, back, done, answered>>
  <2> HIDE DEF n
  <2> QED
    BY <1>3, UploadQueued DEF check_upload_post
<1>5. /\ micro = << >> /\ micro' = results
      /\ tasks' \in Seq(Calls) /\ IsInjective(tasks')
      /\ ToSet(tasks') = (ToSet(tasks) \ {Upload(x)}) \cup called
  <2>1. called \cap ToSet(tasks) = {}
    BY <1>4 DEF Flow, Sending, SendingPost, Composed
  <2> HIDE DEF calls, results, called, n
  <2> QED
    BY <1>1, <1>2, <2>1, RunStep DEF Flow
<1> HIDE DEF calls
<1>11. \A l : micro' = <<Ok(l)>> <=> l = Upload(x)
  BY <1>5
<1>12. Upload(x) \notin {Serve(y) : y \in Parts} \cup {compose, get_followers} \cup Three
                          \cup ToSet(Writes)
  BY Distinct
<1>6. Types'
  BY <1>3, <1>4, <1>5 DEF Flow, Types, data, Parts
<1>7. Starting' /\ MakingOwn' /\ MakingFromText' /\ MakingText'
  <2>1. Starting'
    BY <1>3, <1>4, <1>5 DEF Flow, Making, Starting, Parts
  <2>2. MakingOwn'
    BY <1>3, <1>4, <1>5 DEF Flow, Making, Starting, MakingOwn, data, Parts
  <2>3. MakingFromText'
    BY <1>3, <1>4, <1>5 DEF Flow, Making, Starting, MakingFromText, data, Parts
  <2>4. MakingText'
    BY <1>3, <1>4, <1>5, <1>11, <1>12 DEF Flow, Making, Starting, MakingText, data, Parts
  <2> QED
    BY <2>1, <2>2, <2>3, <2>4
<1>8. Counting'
  BY <1>4 DEF Counting, Parts
<1>9. SendingPost' /\ SendingHome'
  <2>1. \A l \in {get_followers} \cup Three \cup ToSet(Writes) :
          /\ l \in ToSet(tasks') <=> l \in ToSet(tasks)
          /\ micro # <<Ok(l)>> /\ micro' # <<Ok(l)>>
    BY <1>5, <1>11, <1>12
  <2> QED
    BY <2>1, <1>4, SendingKept DEF Flow, Sending
<1>10. Replying'
  <2>1. ASSUME NEW y \in Own \cup {"text"}
        PROVE  n(Due(Upload(y)))' + n(Due(Serve(y)))' + n(Serve(y) \in back')
                  = n(y \in parts' /\ (Sixth(y)' => Three \subseteq back'))
    <3>1. y \in Parts
      BY DEF Parts
    <3>2. CASE y = x
      BY <3>1, <3>2, <1>4, <1>5, <1>11, <1>12, Distinct
      DEF Flow, Replying, Sending, SendingPost, Composed, Sixth, Three
    <3>3. CASE y # x
      BY <3>1, <3>3, <1>4, <1>5, <1>11, <1>12, Distinct DEF Flow, Replying, Composed, Sixth
    <3> QED
      BY <3>2, <3>3
  <2> QED
    BY <2>1, <1>4 DEF Flow, Replying
<1> QED
  BY <1>6, <1>7, <1>8, <1>9, <1>10 DEF Flow, Making, Sending

(* ... and the one that is.                                                *)
LEMMA SixthFlow ==
    ASSUME Flow, NEW x \in Parts, check_upload_post(x), tally + 1 = 6
    PROVE  Flow'
<1> USE RankFacts, Results DEF Queued, Due, Failed, n, Own
<1> DEFINE calls == <<store_post, write_user_timeline, write_home_timeline>>
<1> DEFINE results == << >>
<1> DEFINE called == {store_post, write_user_timeline, write_home_timeline}
<1>1. /\ calls \in Seq(Calls) /\ IsInjective(calls)
      /\ ToSet(calls) = called
  BY DEF Calls, Three, ToSet, IsInjective
<1>2. Run(Upload(x), calls, results)
  BY DEF check_upload_post
<1>3. Queued(Upload(x)) /\ Upload(x) \in Calls \ {compose}
  <2>1. Upload(x) \in Calls /\ Rank(Upload(x)) # 0
    BY Names DEF Parts
  <2> QED
    BY <1>2, <2>1 DEF Run, ToSet
<1>4. /\ x \notin parts /\ parts' = parts \cup {x} /\ ~Queued(compose)
      /\ posts = << >> /\ posts' = <<[by |-> x, read |-> parts']>>
      /\ tally = n("unique_id" \in parts) + n("creator" \in parts) + n("media" \in parts)
                 + n("text" \in parts) + n("mentions" \in parts) + n("urls" \in parts)
      /\ tally' = tally
      /\ UNCHANGED <<shuffled, text, back, done, answered>>
  <2> HIDE DEF n
  <2> QED
    BY <1>3, UploadQueued DEF check_upload_post
<1>5. /\ micro = << >> /\ micro' = results
      /\ tasks' \in Seq(Calls) /\ IsInjective(tasks')
      /\ ToSet(tasks') = (ToSet(tasks) \ {Upload(x)}) \cup called
  <2>1. called \cap ToSet(tasks) = {}
    BY <1>4 DEF Flow, Sending, SendingPost, Composed
  <2> HIDE DEF calls, results, called, n
  <2> QED
    BY <1>1, <1>2, <2>1, RunStep DEF Flow
<1> HIDE DEF calls
<1>6. Types'
  BY <1>3, <1>4, <1>5 DEF Flow, Types, data, Parts
<1>7. Starting' /\ MakingOwn' /\ MakingFromText' /\ MakingText'
  <2>1. Starting'
    BY <1>3, <1>4, <1>5 DEF Flow, Making, Starting, Parts
  <2>2. MakingOwn'
    BY <1>3, <1>4, <1>5 DEF Flow, Making, Starting, MakingOwn, data, Parts
  <2>3. MakingFromText'
    BY <1>3, <1>4, <1>5 DEF Flow, Making, Starting, MakingFromText, data, Parts
  <2>4. MakingText'
    BY <1>3, <1>4, <1>5 DEF Flow, Making, Starting, MakingText, data, Parts
  <2> QED
    BY <2>1, <2>2, <2>3, <2>4
<1>8. Counting'
  <2>1. \A y \in Parts \ {x} : y \in parts
    BY <1>4 DEF Parts
  <2>2. parts' = Parts
    BY <1>4, <2>1 DEF Flow, Types
  <2> QED
    BY <1>4, <2>2 DEF Counting
<1>9. SendingPost' /\ SendingHome'
  BY <1>3, <1>4, <1>5 DEF Flow, Sending, SendingPost, SendingHome, Composed, data
<1>10. Replying'
  <2>1. ASSUME NEW y \in Own \cup {"text"}
        PROVE  n(Due(Upload(y)))' + n(Due(Serve(y)))' + n(Serve(y) \in back')
                  = n(y \in parts' /\ (Sixth(y)' => Three \subseteq back'))
    <3>1. y \in Parts
      BY DEF Parts
    <3>2. CASE y = x
      BY <3>1, <3>2, <1>4, <1>5, Distinct
      DEF Flow, Replying, Sending, SendingPost, Composed, Sixth, Three
    <3>3. CASE y # x
      BY <3>1, <3>3, <1>4, <1>5, Distinct DEF Flow, Replying, Composed, Sixth
    <3> QED
      BY <3>2, <3>3
  <2> QED
    BY <2>1, <1>4 DEF Flow, Replying
<1> QED
  BY <1>6, <1>7, <1>8, <1>9, <1>10 DEF Flow, Making, Sending

LEMMA PlainFlow ==
    ASSUME Flow, NEW k, Plain(k)
    PROVE  Flow'
<1> USE Results DEF Queued, Due, Failed, n, Own
<1>1. /\ k \in {store_post, write_user_timeline, get_followers} \cup {Write(i) : i \in 1 .. Readers}
      /\ k \in Calls \ {compose}
  <2>1. k \in {store_post, write_user_timeline, get_followers} \cup ToSet(Writes)
    BY DEF Plain
  <2>2. k \in Calls
    BY <2>1, Names DEF Calls
  <2>3. k # compose
    BY <2>1, Names, Distinct, RankFacts
  <2> QED
    BY <2>1, <2>2, <2>3, Names
<1>2. /\ Run(k, << >>, <<Ok(k)>>) /\ done' = done \cup {k}
      /\ UNCHANGED <<shuffled, text, tally, parts, posts, back, answered>>
  BY DEF Plain
<1>3. k \in ToSet(tasks)
  BY <1>2 DEF Run, ToSet
<1>4. /\ micro = << >> /\ micro' = <<Ok(k)>>
      /\ tasks' \in Seq(Calls) /\ IsInjective(tasks')
      /\ ToSet(tasks') = ToSet(tasks) \ {k}
  <2> DEFINE calls == << >>
  <2> DEFINE results == <<Ok(k)>>
  <2>1. calls \in Seq(Calls) /\ IsInjective(calls) /\ ToSet(calls) = {}
    BY Short
  <2>3. Run(k, calls, results)
    BY <1>2
  <2> HIDE DEF calls, results, n, Queued, Due, Failed, Own
  <2>2. /\ micro = << >> /\ micro' = results
        /\ tasks' \in Seq(Calls) /\ IsInjective(tasks')
        /\ ToSet(tasks') = (ToSet(tasks) \ {k}) \cup {}
    <3>1. Types
      BY DEF Flow
    <3> HIDE Results
    <3> QED
      BY <2>1, <2>3, <3>1, RunStep
  <2> QED
    BY <2>2 DEF results
<1>5. \A l : micro # <<Ok(l)>> /\ (micro' = <<Ok(l)>> <=> l = k)
  BY <1>4
<1>6. Types'
  BY <1>1, <1>2, <1>4 DEF Flow, Types
<1>7. Starting' /\ MakingOwn' /\ MakingFromText' /\ MakingText'
  <2>1. \A x \in Parts : Serve(x) # k /\ Upload(x) # k
    BY <1>1, Distinct, Names DEF Three
  <2>2. Starting'
    BY <1>1, <1>3, <1>4 DEF Flow, Making, Starting
  <2>3. MakingOwn'
    BY <2>1, <1>1, <1>2, <1>4 DEF Flow, Making, MakingOwn, Parts
  <2>4. MakingFromText'
    BY <2>1, <1>1, <1>2, <1>4 DEF Flow, Making, MakingFromText, Parts
  <2>5. MakingText'
    BY <2>1, <1>1, <1>2, <1>4, <1>5 DEF Flow, Making, MakingText, Parts
  <2> QED
    BY <2>2, <2>3, <2>4, <2>5
<1>8. Counting'
  BY <1>2 DEF Flow, Counting
<1>9. SendingPost' /\ SendingHome'
  <2>1. SendingPost'
    <3>1. /\ store_post # write_user_timeline /\ write_home_timeline # get_followers
          /\ store_post \notin {write_home_timeline, get_followers}
          /\ write_user_timeline \notin {write_home_timeline, get_followers}
          /\ \A i \in 1 .. Readers : Write(i) \notin {get_followers} \cup Three
      BY RankFacts, Distinct
    <3>2. k # write_home_timeline
      <4>1. \A i \in 1 .. Readers : Write(i) # write_home_timeline
        BY <3>1 DEF Three
      <4> QED
        BY <3>1, <4>1, <1>1
    <3> QED
      BY <3>1, <3>2, <1>1, <1>2, <1>3, <1>4, <1>5 DEF Flow, Sending, SendingPost, Composed, Three
  <2>2. ASSUME NEW i \in 1 .. Readers
        PROVE  /\ n(Queued(Write(i)))' + n(Write(i) \in done')
                     = n(get_followers \in done' /\ ~Due(get_followers)')
               /\ n(Due(Write(i)))' + n(Write(i) \in back') = n(Write(i) \in done')
    <3>1. CASE k = get_followers
      <4>1. Write(i) # k
        BY <3>1, Distinct
      <4>2. get_followers \notin done /\ Write(i) \notin done /\ Write(i) \notin back
        BY <3>1, <1>3 DEF Flow, Sending, SendingPost, SendingHome, Composed
      <4> QED
        BY <3>1, <4>1, <4>2, <1>2, <1>4, <1>5 DEF Flow, Sending, SendingHome
    <3>2. CASE k = Write(i)
      <4>1. k # get_followers
        BY <3>2, Distinct
      <4> QED
        BY <3>2, <4>1, <1>2, <1>3, <1>4, <1>5 DEF Flow, Sending, SendingHome
    <3>3. CASE k \notin {get_followers, Write(i)}
      BY <3>3, <1>2, <1>4, <1>5 DEF Flow, Sending, SendingHome
    <3> QED
      BY <3>1, <3>2, <3>3
  <2> QED
    BY <2>1, <2>2 DEF SendingHome
<1>10. Replying'
  <2>1. \A x \in Parts : Serve(x) # k /\ Upload(x) # k
    BY <1>1, Distinct, Names DEF Three
  <2> QED
    BY <2>1, <1>2, <1>5 DEF Flow, Replying, Composed, Sixth, Parts
<1> QED
  BY <1>6, <1>7, <1>8, <1>9, <1>10 DEF Flow, Making, Sending

-----------------------------------------------------------------------------
(* A continuation that calls nobody.                                       *)
LEMMA ThenOnly ==
    ASSUME Types, NEW result, NEW results, Then(result, << >>, results),
           results = << >> \/ \E r : results = <<r>>
    PROVE  micro = <<result>> /\ micro' = results /\ tasks' = tasks
<1>1. tasks' = tasks \o << >> /\ tasks \in Seq(Calls)
  BY DEF Then, Types
<1>2. tasks' = tasks
  BY <1>1
<1>3. micro = <<result>>
  BY DEF Then, Types, Due, Failed
<1>4. micro' = results
  BY <1>3 DEF Then
<1> QED
  BY <1>2, <1>3, <1>4

LEMMA CountFourFlow ==
    ASSUME Flow, NEW k, CountFour(k)
    PROVE  Flow'
<1>1. /\ Then(Ok(k), << >>, << >>) /\ back' = back \cup {k} /\ answered' = (Four \subseteq back')
      /\ UNCHANGED <<shuffled, text, tally, parts, posts, done>>
  BY DEF CountFour
<1>2. micro = <<Ok(k)>> /\ micro' = << >> /\ tasks' = tasks
  BY <1>1, ThenOnly DEF Flow
<1>3. PICK x \in Own \cup {"text"} : k = Serve(x)
  BY DEF CountFour, Four, Own
<1>4. x \in Parts
  BY DEF Own, Parts
<1>5. \A l : micro' # <<Ok(l)>> /\ (micro = <<Ok(l)>> <=> l = k)
  BY <1>2, Results
<1>6. \A l \in {get_followers} \cup Three \cup ToSet(Writes) : l # k
  BY <1>3, <1>4, Distinct
<1>7. Types'
  BY <1>1, <1>2 DEF Flow, Types
<1>8. Making'
  <2>1. k # Serve("urls")
    BY <1>3, <1>4, Distinct DEF Parts, Own
  <2> QED
    BY <2>1, <1>1, <1>2, <1>5, MakingKept DEF Flow
<1>9. Counting'
  BY <1>1 DEF Flow, Counting
<1>10. Sending'
  BY <1>1, <1>2, <1>5, <1>6, SendingKept DEF Flow
<1>11. Replying'
  <2>1. ASSUME NEW y \in Own \cup {"text"}
        PROVE  n(Due(Upload(y)))' + n(Due(Serve(y)))' + n(Serve(y) \in back')
                  = n(y \in parts' /\ (Sixth(y)' => Three \subseteq back'))
    <3>1. y \in Parts /\ Upload(y) # k /\ (Serve(y) = k => y = x)
      BY <1>3, <1>4, Distinct DEF Own, Parts
    <3>2. Three \subseteq back' <=> Three \subseteq back
      BY <1>1, <1>6
    <3> QED
      BY <1>1, <1>3, <1>5, <3>1, <3>2 DEF Flow, Replying, Due, n, Sixth, Composed
  <2> QED
    BY <2>1, <1>1 DEF Replying
<1> QED
  BY <1>7, <1>8, <1>9, <1>10, <1>11 DEF Flow

LEMMA UploadedFlow ==
    ASSUME Flow, NEW x \in Parts, Uploaded(x)
    PROVE  Flow'
<1>1. x # "urls" /\ Then(Ok(Upload(x)), << >>, <<Ok(Serve(x))>>) /\ UNCHANGED data
  BY DEF Uploaded
<1>2. micro = <<Ok(Upload(x))>> /\ micro' = <<Ok(Serve(x))>> /\ tasks' = tasks
  BY <1>1, ThenOnly DEF Flow
<1>3. \A l : (micro = <<Ok(l)>> <=> l = Upload(x)) /\ (micro' = <<Ok(l)>> <=> l = Serve(x))
  BY <1>2, Results
<1>4. \A l \in {compose, get_followers} \cup Three \cup ToSet(Writes) : l # Upload(x) /\ l # Serve(x)
  BY Distinct
<1>5. Types'
  BY <1>1, <1>2, <1>4, Names DEF Flow, Types, data, Due
<1>6. Making'
  <2>1. ~Queued(compose)
    BY <1>2 DEF Flow, Making, Starting
  <2>2. Serve("urls") # Upload(x) /\ Serve("urls") # Serve(x)
    BY <1>1, Distinct DEF Parts
  <2> QED
    BY <2>1, <2>2, <1>1, <1>2, <1>3, MakingKept DEF Flow, data
<1>7. Counting'
  BY <1>1 DEF Flow, Counting, data
<1>8. Sending'
  BY <1>1, <1>2, <1>3, <1>4, SendingKept DEF Flow, data
<1>9. Replying'
  <2>1. ASSUME NEW y \in Own \cup {"text"}
        PROVE  n(Due(Upload(y)))' + n(Due(Serve(y)))' + n(Serve(y) \in back')
                  = n(y \in parts' /\ (Sixth(y)' => Three \subseteq back'))
    <3>1. /\ y \in Parts /\ Upload(y) # Serve(x) /\ Serve(y) # Upload(x)
          /\ Serve(y) = Serve(x) => y = x
          /\ Upload(y) = Upload(x) => y = x
      BY Distinct DEF Own, Parts
    <3> QED
      BY <1>1, <1>3, <3>1 DEF Flow, Replying, Due, n, Sixth, Composed, data
  <2> QED
    BY <2>1, <1>1 DEF Flow, Replying, data
<1> QED
  BY <1>5, <1>6, <1>7, <1>8, <1>9 DEF Flow

(* A result nobody counts.                                                 *)
LEMMA ReplyingKept ==
    ASSUME Replying, UNCHANGED data,
           \A x \in Own \cup {"text"} : \A k \in {Serve(x), Upload(x)} :
               micro # <<Ok(k)>> /\ micro' # <<Ok(k)>>
    PROVE  Replying'
BY DEF Replying, data, Due, n, Sixth, Composed

LEMMA IgnoredFlow ==
    ASSUME Flow, NEW result, Ignored(result)
    PROVE  Flow'
<1>1. /\ result.call \in {Serve("mentions"), Upload("urls")}
      /\ Then(result, << >>, << >>) /\ UNCHANGED data
  BY DEF Ignored
<1>2. micro = <<result>> /\ micro' = << >> /\ tasks' = tasks
  BY <1>1, ThenOnly DEF Flow
<1>3. \A l : (micro = <<Ok(l)>> => l \in {Serve("mentions"), Upload("urls")}) /\ micro' # <<Ok(l)>>
  BY <1>1, <1>2, Results DEF Ok
<1>4. \A l \in {get_followers} \cup Three \cup ToSet(Writes) : l \notin {Serve("mentions"), Upload("urls")}
  BY Distinct DEF Parts
<1>5. /\ Serve("urls") \notin {Serve("mentions"), Upload("urls")}
      /\ \A x \in Own \cup {"text"} : \A k \in {Serve(x), Upload(x)} :
            k \notin {Serve("mentions"), Upload("urls")}
  BY Distinct DEF Parts, Own
<1>6. Types'
  BY <1>1, <1>2 DEF Flow, Types, data
<1>7. Making'
  BY <1>1, <1>2, <1>3, <1>5, MakingKept DEF Flow, data
<1>8. Counting'
  BY <1>1 DEF Flow, Counting, data
<1>9. Sending'
  BY <1>1, <1>2, <1>3, <1>4, SendingKept DEF Flow, data
<1>10. Replying'
  BY <1>1, <1>3, <1>5, ReplyingKept DEF Flow
<1> QED
  BY <1>6, <1>7, <1>8, <1>9, <1>10 DEF Flow

LEMMA ShortenedFlow ==
    ASSUME Flow, NEW result, Shortened(result)
    PROVE  Flow'
<1> DEFINE calls == IF result.ok THEN <<Upload("text")>> ELSE << >>
<1> DEFINE called == IF result.ok THEN {Upload("text")} ELSE {}
<1>1. result.call = Serve("urls") /\ Then(result, calls, << >>) /\ UNCHANGED data
  BY DEF Shortened
<1>2. calls \in Seq(Calls) /\ IsInjective(calls) /\ ToSet(calls) = called
  BY Short, Names DEF Parts
<1>3. micro = <<result>>
  BY <1>1 DEF Then, Flow, Types, Due, Failed
<1>4. IF result.ok THEN Due(Serve("urls")) ELSE Failed(Serve("urls")) /\ "urls" \notin text
  <2>1. CASE \E k \in Calls : Due(k)
    <3>1. PICK k : <<result>> = <<Ok(k)>>
      BY <2>1, <1>3 DEF Due
    <3>2. result = Ok(k)
      BY <3>1
    <3>3. k = Serve("urls") /\ result.ok
      BY <3>2, <1>1 DEF Ok
    <3> QED
      BY <3>1, <3>3, <1>3 DEF Due
  <2>2. CASE ~\E k \in Calls : Due(k)
    <3>1. \/ "mentions" \notin text /\ Failed(Serve("mentions"))
          \/ "urls" \notin text /\ Failed(Serve("urls"))
      BY <1>3, <2>2 DEF Flow, Types
    <3>2. Serve("mentions") # Serve("urls")
      BY Distinct DEF Parts
    <3> QED
      BY <3>1, <3>2, <1>1, <1>3 DEF Failed, Error
  <2> QED
    BY <2>1, <2>2
<1>5. called \cap ToSet(tasks) = {}
  BY <1>4 DEF Flow, Making, MakingText, n, Queued
<1>6. /\ micro' = << >> /\ tasks' \in Seq(Calls) /\ IsInjective(tasks')
      /\ ToSet(tasks') = ToSet(tasks) \cup called
  <2> HIDE DEF calls, called
  <2> QED
    BY <1>1, <1>2, <1>5, ThenStep DEF Flow
<1> HIDE DEF calls
<1>7. \A l : (micro = <<Ok(l)>> <=> result.ok /\ l = Serve("urls")) /\ micro' # <<Ok(l)>>
  BY <1>4, <1>6, Results DEF Due, Failed
<1>8. \A l \in {compose, get_followers} \cup Three \cup ToSet(Writes) : l # Serve("urls") /\ l # Upload("text")
  BY Distinct DEF Parts
<1>9. Types'
  BY <1>1, <1>6 DEF Flow, Types, data
<1>10. Starting' /\ MakingOwn' /\ MakingFromText' /\ MakingText'
  <2>1. \A x \in Parts : Serve(x) # Upload("text") /\ (Upload(x) = Upload("text") => x = "text")
    BY Distinct DEF Parts
  <2>2. ~Queued(compose) /\ ~Queued(compose)'
    BY <1>3, <1>6, <1>8 DEF Flow, Making, Starting, Queued
  <2>3. MakingOwn'
    BY <2>1, <2>2, <1>1, <1>6 DEF Flow, Making, MakingOwn, Queued, n, Own, Parts, data
  <2>4. MakingFromText'
    BY <2>1, <2>2, <1>1, <1>6 DEF Flow, Making, MakingFromText, Queued, n, Parts, data
  <2>5. MakingText'
    BY <2>1, <2>2, <1>1, <1>4, <1>6, <1>7 DEF Flow, Making, MakingText, Queued, Due, n, Parts, data
  <2> QED
    BY <2>2, <2>3, <2>4, <2>5 DEF Starting
<1>11. Counting'
  BY <1>1 DEF Flow, Counting, data
<1>12. Sending'
  BY <1>1, <1>6, <1>7, <1>8, SendingKept DEF Flow, data
<1>13. Replying'
  <2>1. \A x \in Own \cup {"text"} : \A k \in {Serve(x), Upload(x)} : k # Serve("urls")
    BY Distinct DEF Parts, Own
  <2> QED
    BY <2>1, <1>1, <1>7, ReplyingKept DEF Flow
<1> QED
  BY <1>9, <1>10, <1>11, <1>12, <1>13 DEF Flow, Making

(* Who counts to three has been called by upload_post.                     *)
LEMMA CountedComposed ==
    ASSUME Flow, NEW k, CountThree(k)
    PROVE  Due(k) /\ k \notin back /\ Composed
<1>1. k \in Three /\ micro = <<Ok(k)>>
  BY DEF CountThree, Then, Flow, Types, Due, Failed
<1>2. CASE k \in {store_post, write_user_timeline}
  BY <1>1, <1>2 DEF Flow, Sending, SendingPost, n, Due
<1>3. CASE k = write_home_timeline
  <2>1. write_home_timeline \notin back /\ ToSet(Writes) \subseteq back
    BY <1>1, <1>3 DEF Flow, Sending, SendingPost, n, Due
  <2>2. 1 \in 1 .. Readers /\ Write(1) \in back
    BY <2>1, ReadersAssumption, Names
  <2>3. get_followers \in done
    BY <2>2 DEF Flow, Sending, SendingHome, n
  <2> QED
    BY <2>1, <2>3, <1>1, <1>3 DEF Flow, Sending, SendingPost, n, Due
<1> QED
  BY <1>1, <1>2, <1>3 DEF Three

LEMMA CountThreeFlow ==
    ASSUME Flow, NEW k, CountThree(k)
    PROVE  Flow'
<1> DEFINE all == Three \subseteq back'
<1> DEFINE results == IF all THEN <<Ok(Upload(Last(posts).by))>> ELSE << >>
<1>1. /\ k \in Three /\ back' = back \cup {k} /\ Then(Ok(k), << >>, results)
      /\ UNCHANGED <<shuffled, text, tally, parts, posts, done, answered>>
  BY DEF CountThree
<1>2. micro = <<Ok(k)>> /\ micro' = results /\ tasks' = tasks
  <2>1. results = << >> \/ \E r : results = <<r>>
    OBVIOUS
  <2> HIDE DEF results
  <2> QED
    BY <1>1, <2>1, ThenOnly DEF Flow
<1>3. \A l : micro = <<Ok(l)>> <=> l = k
  BY <1>2, Results
<1>4. k \notin back /\ Composed
  BY CountedComposed
<1>5. PICK by \in Parts : posts = <<[by |-> by, read |-> Parts]>> /\ parts = Parts
  BY <1>4 DEF Flow, Counting, Composed
<1>6. results = IF all THEN <<Ok(Upload(by))>> ELSE << >>
  BY <1>5 DEF Last
<1> HIDE DEF results
<1>7. \A l : micro' = <<Ok(l)>> <=> all /\ l = Upload(by)
  BY <1>2, <1>6, Results
<1>8. \A l \in {compose, get_followers} \cup Three \cup ToSet(Writes) :
        l # Upload(by) /\ \A x \in Parts : l # Serve(x) /\ l # Upload(x)
  BY <1>5, Distinct
<1>9. Types'
  BY <1>1, <1>2, <1>5, <1>6, <1>8, Names DEF Flow, Types, Due
<1>10. Making'
  <2>1. ~Queued(compose)
    BY <1>2 DEF Flow, Making, Starting
  <2>2. Serve("urls") # k /\ Serve("urls") # Upload(by)
    BY <1>1, Distinct DEF Parts
  <2> QED
    BY <2>1, <2>2, <1>1, <1>2, <1>3, <1>7, MakingKept DEF Flow
<1>11. Counting'
  BY <1>1 DEF Flow, Counting
<1>12. SendingPost'
  <2>1. /\ store_post # write_user_timeline /\ store_post # write_home_timeline
        /\ write_user_timeline # write_home_timeline /\ get_followers \notin Three
    BY RankFacts DEF Three
  <2>2. k \notin ToSet(Writes)
    BY <1>1, Distinct, Names
  <2>3. ToSet(Writes) \subseteq back' <=> ToSet(Writes) \subseteq back
    BY <2>2, <1>1
  <2> QED
    BY <2>1, <2>3, <1>1, <1>2, <1>3, <1>7, <1>8
    DEF Flow, Sending, SendingPost, Composed, Queued, Due, n, Three
<1>13. SendingHome'
  <2>1. \A i \in 1 .. Readers : Write(i) # k
    BY <1>1, Distinct
  <2>2. get_followers # k
    BY <1>1, RankFacts DEF Three
  <2> QED
    BY <2>1, <2>2, <1>1, <1>2, <1>3, <1>7, <1>8, Names
    DEF Flow, Sending, SendingHome, Queued, Due, n
<1>14. Replying'
  <2>1. ASSUME NEW y \in Own \cup {"text"}
        PROVE  n(Due(Upload(y)))' + n(Due(Serve(y)))' + n(Serve(y) \in back')
                  = n(y \in parts' /\ (Sixth(y)' => Three \subseteq back'))
    <3>1. /\ y \in Parts /\ Upload(y) # k /\ Serve(y) # k /\ Serve(y) # Upload(by)
          /\ Upload(y) = Upload(by) => y = by
      BY <1>1, <1>5, Distinct DEF Own, Parts
    <3>2. ~(Three \subseteq back)
      BY <1>1, <1>4
    <3>3. Sixth(y) <=> y = by
      BY <1>4, <1>5 DEF Sixth
    <3>4. Sixth(y)' <=> Sixth(y)
      BY <1>1 DEF Sixth, Composed
    <3> QED
      BY <1>1, <1>3, <1>5, <1>7, <3>1, <3>2, <3>3, <3>4 DEF Flow, Replying, Due, n
  <2>2. Four \subseteq back' <=> Four \subseteq back
    <3>1. k \notin Four
      BY <1>1, Distinct DEF Four, Parts
    <3> QED
      BY <3>1, <1>1
  <2> QED
    BY <2>1, <2>2, <1>1 DEF Flow, Replying
<1> QED
  BY <1>9, <1>10, <1>11, <1>12, <1>13, <1>14 DEF Flow, Sending

LEMMA FanOutFlow ==
    ASSUME Flow, FanOut
    PROVE  Flow'
<1>1. Then(Ok(get_followers), Writes, << >>) /\ UNCHANGED data
  BY DEF FanOut
<1>2. micro = <<Ok(get_followers)>>
  BY <1>1 DEF Then, Flow, Types, Due, Failed
<1>3. get_followers \in done /\ \A i \in 1 .. Readers : Write(i) \notin ToSet(tasks) /\ Write(i) \notin done
  BY <1>2 DEF Flow, Sending, SendingPost, SendingHome, Queued, Due, n
<1>4. Writes \in Seq(Calls) /\ IsInjective(Writes) /\ ToSet(Writes) \cap ToSet(tasks) = {}
  BY <1>3, Names, Distinct DEF IsInjective, Writes
<1>5. micro' = << >> /\ tasks' \in Seq(Calls) /\ IsInjective(tasks')
      /\ ToSet(tasks') = ToSet(tasks) \cup ToSet(Writes)
  BY <1>1, <1>4, ThenStep DEF Flow
<1>6. \A l : (micro = <<Ok(l)>> <=> l = get_followers) /\ micro' # <<Ok(l)>>
  BY <1>2, <1>5, Results
<1>7. \A x \in Parts, k \in {get_followers} \cup ToSet(Writes) : Serve(x) # k /\ Upload(x) # k
  BY Distinct
<1>8. compose \notin ToSet(Writes) /\ compose # get_followers
  BY Distinct, Names, RankFacts
<1>9. Types'
  BY <1>1, <1>5 DEF Flow, Types, data
<1>10. Making'
  <2>1. ~Queued(compose)
    BY <1>2 DEF Flow, Making, Starting
  <2>2. Serve("urls") # get_followers
    BY <1>7 DEF Parts
  <2>3. ToSet(tasks) # {compose}
    BY <2>1 DEF Queued
  <2> QED
    BY <2>1, <2>2, <2>3, <1>1, <1>5, <1>6, <1>7, <1>8, MakingKept DEF Flow, data
<1>11. Counting'
  BY <1>1 DEF Flow, Counting, data
<1>12. SendingPost'
  <2>1. \A k \in {get_followers} \cup Three : k \notin ToSet(Writes)
    BY Distinct, Names
  <2>2. \A k \in Three : k # get_followers
    BY RankFacts DEF Three
  <2> QED
    BY <2>1, <2>2, <1>1, <1>5, <1>6
    DEF Flow, Sending, SendingPost, Composed, Queued, Due, n, Three, data
<1>13. SendingHome'
  <2>1. \A i \in 1 .. Readers : Write(i) # get_followers
    BY Distinct
  <2> QED
    BY <2>1, <1>1, <1>3, <1>5, <1>6, Names DEF Flow, Sending, SendingHome, Queued, Due, n, data
<1>14. Replying'
  <2>1. \A x \in Own \cup {"text"} : \A k \in {Serve(x), Upload(x)} : k # get_followers
    BY <1>7 DEF Parts, Own
  <2> QED
    BY <2>1, <1>1, <1>6, ReplyingKept DEF Flow
<1> QED
  BY <1>9, <1>10, <1>11, <1>12, <1>13, <1>14 DEF Flow, Sending

LEMMA CountWritesFlow ==
    ASSUME Flow, NEW k, CountWrites(k)
    PROVE  Flow'
<1> DEFINE all == ToSet(Writes) \subseteq back'
<1> DEFINE results == IF all THEN <<Ok(write_home_timeline)>> ELSE << >>
<1>1. /\ k \in ToSet(Writes) /\ back' = back \cup {k} /\ Then(Ok(k), << >>, results)
      /\ UNCHANGED <<shuffled, text, tally, parts, posts, done, answered>>
  BY DEF CountWrites
<1>2. micro = <<Ok(k)>> /\ micro' = results /\ tasks' = tasks
  <2>1. results = << >> \/ \E r : results = <<r>>
    OBVIOUS
  <2> HIDE DEF results
  <2> QED
    BY <1>1, <2>1, ThenOnly DEF Flow
<1>3. \A l : (micro = <<Ok(l)>> <=> l = k) /\ (micro' = <<Ok(l)>> <=> all /\ l = write_home_timeline)
  BY <1>2, Results
<1>4. PICK i \in 1 .. Readers : k = Write(i)
  BY <1>1, Names
<1>5. k \notin back
  BY <1>3, <1>4 DEF Flow, Sending, SendingHome, Due, n
<1>6. /\ k \notin {compose, get_followers} \cup Three
      /\ \A x \in Parts : /\ k # Serve(x) /\ k # Upload(x)
                         /\ write_home_timeline # Serve(x) /\ write_home_timeline # Upload(x)
  BY <1>1, <1>4, Distinct DEF Three
<1>7. write_home_timeline \in Calls \ {compose}
  BY Names, RankFacts
<1>8. Types'
  BY <1>1, <1>2, <1>7 DEF Flow, Types, Due
<1>9. Making'
  <2>1. ~Queued(compose)
    BY <1>2 DEF Flow, Making, Starting
  <2>2. Serve("urls") # k /\ Serve("urls") # write_home_timeline
    BY <1>6 DEF Parts
  <2> QED
    BY <2>1, <2>2, <1>1, <1>2, <1>3, MakingKept DEF Flow
<1>10. Counting'
  BY <1>1 DEF Flow, Counting
<1>11. SendingPost'
  <2>1. /\ store_post # write_home_timeline /\ write_user_timeline # write_home_timeline
        /\ get_followers # write_home_timeline
    BY RankFacts
  <2>2. ~(ToSet(Writes) \subseteq back)
    BY <1>1, <1>5
  <2> QED
    BY <2>1, <2>2, <1>1, <1>2, <1>3, <1>6
    DEF Flow, Sending, SendingPost, Composed, Queued, Due, n, Three
<1>12. SendingHome'
  <2>1. \A j \in 1 .. Readers : Write(j) # write_home_timeline /\ Write(j) # get_followers
    BY Distinct DEF Three
  <2>2. get_followers # k /\ get_followers # write_home_timeline
    BY <1>6, RankFacts
  <2> QED
    BY <2>1, <2>2, <1>1, <1>2, <1>3 DEF Flow, Sending, SendingHome, Queued, Due, n
<1>13. Replying'
  <2>1. \A x \in Own \cup {"text"} : /\ Serve(x) # k /\ Upload(x) # k
                                   /\ Serve(x) # write_home_timeline /\ Upload(x) # write_home_timeline
    BY <1>6 DEF Parts, Own
  <2>2. Three \subseteq back' <=> Three \subseteq back
    BY <1>1, <1>6
  <2>3. Four \subseteq back' <=> Four \subseteq back
    BY <2>1, <1>1 DEF Four, Own
  <2> QED
    BY <2>1, <2>2, <2>3, <1>1, <1>3 DEF Flow, Replying, Due, n, Sixth, Composed
<1> QED
  BY <1>8, <1>9, <1>10, <1>11, <1>12, <1>13 DEF Flow, Sending

-----------------------------------------------------------------------------
LEMMA Ranks ==
    /\ \A k \in Calls : Rank(k) \in 0 .. 16 + Readers
    /\ \A r \in 0 .. 16 + Readers : Adds(r) \in Nat /\ r < Adds(r)
<1>1. \A x \in Parts : Rank(Serve(x)) \in 0 .. 16 /\ Rank(Upload(x)) \in 0 .. 16
  BY RankFacts DEF Parts
<1>2. \A k \in {compose, get_followers} \cup Three : Rank(k) \in 0 .. 16
  BY RankFacts DEF Three
<1>3. \A k \in ToSet(Writes) : Rank(k) \in 0 .. 16 + Readers
  <2> SUFFICES ASSUME NEW i \in 1 .. Readers PROVE Rank(Write(i)) \in 0 .. 16 + Readers
    BY Names
  <2>1. Rank(Write(i)) = 16 + i
    BY RankFacts
  <2> QED
    BY <2>1, ReadersAssumption
<1>4. \A k \in Calls : Rank(k) \in 0 .. 16 + Readers
  BY <1>1, <1>2, <1>3, ReadersAssumption DEF Calls
<1>5. \A r \in 0 .. 16 + Readers : Adds(r) \in Nat /\ r < Adds(r)
  BY ReadersAssumption DEF Adds
<1> QED
  BY <1>4, <1>5

(* Only what upload_post sets off comes after the upload of the text.      *)
LEMMA LateCalls ==
    ASSUME NEW k \in Calls
    PROVE  /\ Rank(k) > 12 => k \in {get_followers} \cup Three \cup ToSet(Writes)
           /\ Rank(k) > 16 => k \in ToSet(Writes)
<1>1. CASE \E x \in Parts : k \in {Serve(x), Upload(x)}
  BY <1>1, RankFacts DEF Parts
<1>2. CASE k = compose
  BY <1>2, RankFacts
<1>3. CASE k \in {get_followers} \cup Three
  BY <1>3, RankFacts DEF Three
<1>4. CASE k \in ToSet(Writes)
  BY <1>4
<1> QED
  BY <1>1, <1>2, <1>3, <1>4 DEF Calls

LEMMA NoTask ==
    ASSUME NEW s \in Seq(Calls), ToSet(s) = {}
    PROVE  s = << >>
<1>1. 1 \notin DOMAIN s
  BY DEF ToSet
<1>2. Len(s) = 0
  BY <1>1
<1> QED
  BY <1>2

(* The first three conditions, when a task k has run: what it adds comes   *)
(* after the others, and before whatever they will add.                    *)
LEMMA FifoRun ==
    ASSUME Flow, Fifo, ~shuffled, NEW k \in Calls, NEW calls \in Seq(Calls), NEW results,
           Run(k, calls, results), InOrder(calls),
           \A m \in ToSet(calls) :
               /\ Adds(Rank(k)) <= Rank(m)
               /\ \A r \in 0 .. 16 + Readers : Rank(k) < r /\ r < Adds(Rank(k)) => Rank(m) < Adds(r)
               /\ \A l \in ToSet(calls) : Rank(m) < Adds(Rank(l))
    PROVE  /\ micro = << >> /\ micro' = results /\ k \in ToSet(tasks)
           /\ InOrder(tasks')
           /\ \A l, m \in ToSet(tasks') : Rank(m) < Adds(Rank(l))
           /\ \A x \in parts : Rank(Upload(x)) < Rank(k)
           /\ \A l \in ToSet(tasks') : Rank(k) < Rank(l)
           /\ \A l \in ToSet(tasks) \ {k} : Rank(k) < Rank(l)
<1> DEFINE rest == ToSet(tasks) \ {k}
<1>1. \A l \in Calls : Rank(l) \in 0 .. 16 + Readers /\ Adds(Rank(l)) \in Nat /\ Rank(l) < Adds(Rank(l))
  BY Ranks
<1>2. rest \subseteq Calls /\ ToSet(calls) \subseteq Calls /\ ToSet(tasks) \subseteq Calls
  BY DEF Flow, Types, ToSet
<1>3. k \in ToSet(tasks)
  BY DEF Run, ToSet
<1>4. \A l \in rest : Rank(l) < Adds(Rank(k))
  BY <1>3 DEF Fifo
<1>5. \A l \in rest, m \in ToSet(calls) : Rank(l) < Rank(m)
  BY <1>1, <1>2, <1>4, ReadersAssumption
<1>6. /\ InOrder(tasks') /\ micro = << >> /\ micro' = results
      /\ ToSet(tasks') = rest \cup ToSet(calls)
      /\ \A l \in rest : Rank(k) < Rank(l)
  BY <1>5, RunInOrder DEF Flow
<1> HIDE DEF rest
<1>7. \A l, m \in ToSet(tasks') : Rank(m) < Adds(Rank(l))
  <2>1. \A l, m \in rest : Rank(m) < Adds(Rank(l))
    BY DEF Fifo, rest
  <2>2. \A l \in rest, m \in ToSet(calls) : Rank(m) < Adds(Rank(l))
    BY <1>1, <1>2, <1>4, <1>6, ReadersAssumption
  <2>3. \A l \in ToSet(calls), m \in rest : Rank(m) < Adds(Rank(l))
    BY <1>1, <1>2, <1>5, ReadersAssumption
  <2> QED
    BY <2>1, <2>2, <2>3, <1>6
<1>8. \A x \in parts : Rank(Upload(x)) < Rank(k)
  BY <1>3 DEF Fifo
<1>9. \A l \in ToSet(calls) : Rank(k) < Rank(l)
  BY <1>1, <1>2, ReadersAssumption
<1> QED
  BY <1>3, <1>6, <1>7, <1>8, <1>9 DEF rest

LEMMA FifoQuiet ==
    ASSUME Flow, Fifo, ~shuffled, NEW k \in Calls, NEW calls \in Seq(Calls), NEW results,
           Run(k, calls, results), InOrder(calls),
           \A m \in ToSet(calls) :
               /\ Adds(Rank(k)) <= Rank(m)
               /\ \A r \in 0 .. 16 + Readers : Rank(k) < r /\ r < Adds(Rank(k)) => Rank(m) < Adds(r)
               /\ \A l \in ToSet(calls) : Rank(m) < Adds(Rank(l)),
           UNCHANGED <<parts, posts>>,
           results = <<Ok(Serve("urls"))>> => k = Serve("urls"),
           results = <<Ok(get_followers)>> => k = get_followers,
           results \in {<<Ok(Upload("mentions"))>>, <<Ok(Upload("urls"))>>, <<Ok(Serve("mentions"))>>,
                       <<Error(Serve("mentions"))>>} => Rank(k) < 12
    PROVE  Fifo'
<1>1. /\ micro' = results
      /\ InOrder(tasks')
      /\ \A l, m \in ToSet(tasks') : Rank(m) < Adds(Rank(l))
      /\ \A x \in parts : Rank(Upload(x)) < Rank(k)
      /\ \A l \in ToSet(tasks') : Rank(k) < Rank(l)
  BY FifoRun
<1>2. \A x \in parts : \A l \in ToSet(tasks') : Rank(Upload(x)) < Rank(l)
  <2>1. tasks' \in Seq(Calls)
    <3>1. PICK i \in DOMAIN tasks : tasks' = RemoveAt(tasks, i) \o calls
      BY DEF Run
    <3>2. RemoveAt(tasks, i) \in Seq(Calls)
      BY Removed DEF Flow, Types
    <3> QED
      BY <3>1, <3>2
  <2>2. \A l \in ToSet(tasks') : Rank(l) \in Nat
    BY <2>1, Ranks DEF ToSet
  <2>3. \A x \in parts : Rank(Upload(x)) \in Nat
    BY Names, Ranks DEF Flow, Types
  <2>4. Rank(k) \in Nat
    BY Ranks
  <2> QED
    BY <1>1, <2>2, <2>3, <2>4
<1>3. Due(Serve("urls"))' => \A l \in ToSet(tasks') : 9 < Rank(l)
  BY <1>1, RankFacts DEF Due
<1>4. Due(get_followers)' => \A l \in ToSet(tasks') : 16 < Rank(l)
  BY <1>1, RankFacts DEF Due
<1>5. Composed' => Sixth("text")'
  BY DEF Fifo, Composed, Sixth
<1>6. "text" \in parts' =>
        ~Due(Upload("mentions"))' /\ ~Due(Upload("urls"))' /\ ~Due(Serve("mentions"))'
        /\ ~Failed(Serve("mentions"))'
  BY <1>1, Ranks, RankFacts DEF Due, Failed
<1> QED
  BY <1>1, <1>2, <1>3, <1>4, <1>5, <1>6 DEF Fifo

LEMMA TaskFifo ==
    ASSUME Flow, Fifo, ~shuffled, NEW k,
           \/ Compose \/ upload_text \/ upload_user_mentions \/ upload_urls \/ AskFollowers
           \/ \E x \in Parts : PassOn(x)
           \/ Plain(k)
    PROVE  Fifo'
<1>1. CASE Compose
  <2> DEFINE calls == <<Serve("unique_id"), Serve("creator"), Serve("media"), Serve("text")>>
  <2>1. calls \in Seq(Calls) /\ InOrder(calls)
        /\ ToSet(calls) = {Serve("unique_id"), Serve("creator"), Serve("media"), Serve("text")}
    <3>1. calls \in Seq(Calls)
      BY Names DEF Parts
    <3>2. InOrder(calls)
      BY RankFacts DEF InOrder
    <3>3. ToSet(calls) = {Serve("unique_id"), Serve("creator"), Serve("media"), Serve("text")}
      BY DEF ToSet
    <3> QED
      BY <3>1, <3>2, <3>3
  <2>2. Run(compose, calls, << >>) /\ UNCHANGED <<parts, posts>>
    BY <1>1 DEF Compose, data
  <2> HIDE DEF calls
  <2>3. \A m \in ToSet(calls) :
          /\ Adds(Rank(compose)) <= Rank(m)
          /\ \A r \in 0 .. 16 + Readers :
                Rank(compose) < r /\ r < Adds(Rank(compose)) => Rank(m) < Adds(r)
          /\ \A l \in ToSet(calls) : Rank(m) < Adds(Rank(l))
    BY <2>1, RankFacts DEF Adds
  <2> QED
    BY <2>1, <2>2, <2>3, Names, Results, FifoQuiet
<1>2. CASE upload_text
  <2> DEFINE calls == <<Serve("mentions"), Serve("urls")>>
  <2>1. calls \in Seq(Calls) /\ InOrder(calls) /\ ToSet(calls) = {Serve("mentions"), Serve("urls")}
    BY Names, RankFacts DEF Parts, InOrder, ToSet
  <2>2. Run(Serve("text"), calls, << >>) /\ UNCHANGED <<parts, posts>> /\ Serve("text") \in Calls
    BY <1>2, Names DEF upload_text, data, Parts
  <2> HIDE DEF calls
  <2>3. \A m \in ToSet(calls) :
          /\ Adds(Rank(Serve("text"))) <= Rank(m)
          /\ \A r \in 0 .. 16 + Readers :
                Rank(Serve("text")) < r /\ r < Adds(Rank(Serve("text"))) => Rank(m) < Adds(r)
          /\ \A l \in ToSet(calls) : Rank(m) < Adds(Rank(l))
    BY <2>1, RankFacts DEF Adds
  <2> QED
    BY <2>1, <2>2, <2>3, Results, FifoQuiet
<1>3. CASE upload_user_mentions
  <2> DEFINE calls == IF "mentions" \in text THEN <<Upload("mentions")>> ELSE << >>
  <2> DEFINE results == IF "mentions" \in text THEN << >> ELSE <<Error(Serve("mentions"))>>
  <2>1. calls \in Seq(Calls) /\ InOrder(calls) /\ ToSet(calls) \subseteq {Upload("mentions")}
    BY Names, Short DEF Parts
  <2>2. /\ Run(Serve("mentions"), calls, results) /\ UNCHANGED <<parts, posts>>
        /\ Serve("mentions") \in Calls
    BY <1>3, Names DEF upload_user_mentions, data, Parts
  <2>3. results \notin {<<Ok(Serve("urls"))>>, <<Ok(get_followers)>>}
    BY Results
  <2> HIDE DEF calls, results
  <2>4. \A m \in ToSet(calls) :
          /\ Adds(Rank(Serve("mentions"))) <= Rank(m)
          /\ \A r \in 0 .. 16 + Readers :
                Rank(Serve("mentions")) < r /\ r < Adds(Rank(Serve("mentions"))) => Rank(m) < Adds(r)
          /\ \A l \in ToSet(calls) : Rank(m) < Adds(Rank(l))
    BY <2>1, RankFacts DEF Adds
  <2> QED
    BY <2>1, <2>2, <2>3, <2>4, RankFacts, FifoQuiet
<1>4. CASE upload_urls
  <2> DEFINE calls == IF "urls" \in text THEN <<Upload("urls")>> ELSE << >>
  <2> DEFINE results == IF "urls" \in text THEN <<Ok(Serve("urls"))>> ELSE <<Error(Serve("urls"))>>
  <2>1. calls \in Seq(Calls) /\ InOrder(calls) /\ ToSet(calls) \subseteq {Upload("urls")}
    BY Names, Short DEF Parts
  <2>2. /\ Run(Serve("urls"), calls, results) /\ UNCHANGED <<parts, posts>>
        /\ Serve("urls") \in Calls
    BY <1>4, Names DEF upload_urls, data, Parts
  <2>3. results # <<Ok(get_followers)>>
    BY Results, RankFacts
  <2> HIDE DEF calls, results
  <2>4. \A m \in ToSet(calls) :
          /\ Adds(Rank(Serve("urls"))) <= Rank(m)
          /\ \A r \in 0 .. 16 + Readers :
                Rank(Serve("urls")) < r /\ r < Adds(Rank(Serve("urls"))) => Rank(m) < Adds(r)
          /\ \A l \in ToSet(calls) : Rank(m) < Adds(Rank(l))
    BY <2>1, RankFacts DEF Adds
  <2> QED
    BY <2>1, <2>2, <2>3, <2>4, RankFacts, FifoQuiet
<1>5. CASE AskFollowers
  <2> DEFINE calls == <<get_followers>>
  <2>1. calls \in Seq(Calls) /\ InOrder(calls) /\ ToSet(calls) = {get_followers}
    BY Names, Short
  <2>2. Run(write_home_timeline, calls, << >>) /\ UNCHANGED <<parts, posts>>
    BY <1>5 DEF AskFollowers, data
  <2> HIDE DEF calls
  <2>3. \A m \in ToSet(calls) :
          /\ Adds(Rank(write_home_timeline)) <= Rank(m)
          /\ \A r \in 0 .. 16 + Readers :
                Rank(write_home_timeline) < r /\ r < Adds(Rank(write_home_timeline))
                    => Rank(m) < Adds(r)
          /\ \A l \in ToSet(calls) : Rank(m) < Adds(Rank(l))
    BY <2>1, RankFacts DEF Adds
  <2> QED
    BY <2>1, <2>2, <2>3, Names, Results, FifoQuiet
<1>6. ASSUME NEW x \in Parts, PassOn(x) PROVE Fifo'
  <2> DEFINE calls == <<Upload(x)>>
  <2>1. calls \in Seq(Calls) /\ InOrder(calls) /\ ToSet(calls) = {Upload(x)}
    BY Names, Short
  <2>2. Run(Serve(x), calls, << >>) /\ UNCHANGED <<parts, posts>> /\ Serve(x) \in Calls
    BY <1>6, Names DEF PassOn, data
  <2> HIDE DEF calls
  <2>3. \A m \in ToSet(calls) :
          /\ Adds(Rank(Serve(x))) <= Rank(m)
          /\ \A r \in 0 .. 16 + Readers :
                Rank(Serve(x)) < r /\ r < Adds(Rank(Serve(x))) => Rank(m) < Adds(r)
          /\ \A l \in ToSet(calls) : Rank(m) < Adds(Rank(l))
    BY <2>1, <1>6, RankFacts DEF Adds, PassOn
  <2> QED
    BY <2>1, <2>2, <2>3, Results, FifoQuiet
<1>7. CASE Plain(k)
  <2> DEFINE calls == << >>
  <2> DEFINE results == <<Ok(k)>>
  <2>1. calls \in Seq(Calls) /\ InOrder(calls) /\ ToSet(calls) = {}
    BY Short
  <2>2. /\ k \in {store_post, write_user_timeline, get_followers} \cup ToSet(Writes)
        /\ Run(k, calls, results) /\ UNCHANGED <<parts, posts>>
    BY <1>7 DEF Plain
  <2>3. k \in Calls /\ \A x \in Parts : k # Serve(x) /\ k # Upload(x)
    BY <2>2, Distinct DEF Calls, Three
  <2>4. /\ results = <<Ok(get_followers)>> => k = get_followers
        /\ results \notin {<<Ok(Serve("urls"))>>, <<Ok(Upload("mentions"))>>, <<Ok(Upload("urls"))>>,
                           <<Ok(Serve("mentions"))>>, <<Error(Serve("mentions"))>>}
    BY <2>3, Results DEF Parts
  <2> HIDE DEF calls, results
  <2> QED
    BY <2>1, <2>2, <2>3, <2>4, FifoQuiet
<1> QED
  BY <1>1, <1>2, <1>3, <1>4, <1>5, <1>6, <1>7

(* The sixth upload is that of the text: any other would find it queued    *)
(* before itself, or uploaded and itself run too late.                     *)
LEMMA UploadFifo ==
    ASSUME Flow, Fifo, ~shuffled, NEW x \in Parts, check_upload_post(x)
    PROVE  Fifo'
<1> DEFINE sixth == tally + 1 = 6
<1> DEFINE calls == IF sixth THEN <<store_post, write_user_timeline, write_home_timeline>> ELSE << >>
<1> DEFINE results == IF sixth THEN << >> ELSE <<Ok(Upload(x))>>
<1>1. /\ calls \in Seq(Calls) /\ InOrder(calls)
      /\ ToSet(calls) \subseteq Three /\ (~sixth => ToSet(calls) = {})
  <2>1. CASE sixth
    <3>1. <<store_post, write_user_timeline, write_home_timeline>> \in Seq(Calls)
      BY Names
    <3>2. InOrder(<<store_post, write_user_timeline, write_home_timeline>>)
      BY RankFacts DEF InOrder
    <3>3. ToSet(<<store_post, write_user_timeline, write_home_timeline>>) = Three
      BY DEF ToSet, Three
    <3> QED
      BY <2>1, <3>1, <3>2, <3>3
  <2>2. CASE ~sixth
    BY <2>2, Short
  <2> QED
    BY <2>1, <2>2
<1>2. Run(Upload(x), calls, results) /\ parts' = parts \cup {x} /\ Upload(x) \in Calls
  BY Names DEF check_upload_post
<1>3. Queued(Upload(x))
  BY <1>2 DEF Run, ToSet, Queued
<1>4. /\ x \notin parts /\ posts = << >>
      /\ posts' = IF sixth THEN <<[by |-> x, read |-> parts']>> ELSE << >>
  BY <1>3, UploadQueued DEF check_upload_post
<1>5. sixth => x = "text"
  <2> SUFFICES ASSUME sixth, x # "text" PROVE FALSE
    OBVIOUS
  <2>1. "text" \in parts
    BY <1>3, UploadQueued DEF n, Parts
  <2>2. Rank(Upload("text")) < Rank(Upload(x))
    BY <2>1, <1>3 DEF Fifo, Queued
  <2> QED
    BY <2>2, RankFacts DEF Parts
<1> HIDE DEF calls, results
<1>6. \A m \in ToSet(calls) :
        /\ Adds(Rank(Upload(x))) <= Rank(m)
        /\ \A r \in 0 .. 16 + Readers :
              Rank(Upload(x)) < r /\ r < Adds(Rank(Upload(x))) => Rank(m) < Adds(r)
        /\ \A l \in ToSet(calls) : Rank(m) < Adds(Rank(l))
  <2>1. CASE sixth
    BY <2>1, <1>1, <1>5, RankFacts DEF Adds, Three
  <2>2. CASE ~sixth
    BY <2>2, <1>1
  <2> QED
    BY <2>1, <2>2
<1>7. /\ micro' = results
      /\ InOrder(tasks')
      /\ \A l, m \in ToSet(tasks') : Rank(m) < Adds(Rank(l))
      /\ \A y \in parts : Rank(Upload(y)) < Rank(Upload(x))
      /\ \A l \in ToSet(tasks') : Rank(Upload(x)) < Rank(l)
  BY <1>1, <1>2, <1>6, FifoRun
<1>8. \A y \in parts' : \A l \in ToSet(tasks') : Rank(Upload(y)) < Rank(l)
  <2>1. Types'
    BY SixthFlow, KeptFlow DEF Flow
  <2>2. \A l \in ToSet(tasks') : Rank(l) \in Nat
    BY <2>1, Ranks DEF ToSet, Types
  <2>3. \A y \in parts' : Rank(Upload(y)) \in Nat
    BY <2>1, Names, Ranks DEF Types
  <2>4. Rank(Upload(x)) \in Nat
    BY <2>3, <1>2
  <2>5. \A y \in parts : \A l \in ToSet(tasks') : Rank(Upload(y)) < Rank(l)
    BY <1>2, <1>7, <2>2, <2>3, <2>4
  <2> QED
    BY <2>5, <1>2, <1>7
<1>9. \A l : Due(l)' => l = Upload(x) /\ ~sixth
  BY <1>7, Results DEF Due, results
<1>10. \A l : ~Failed(l)'
  BY <1>7, Results DEF Failed, results
<1>11. ~Due(Serve("urls"))' /\ ~Due(get_followers)' /\ ~Due(Serve("mentions"))'
  BY <1>9, Distinct DEF Parts
<1>12. "text" \in parts' => ~Due(Upload("mentions"))' /\ ~Due(Upload("urls"))'
  <2>1. "text" \in parts => Rank(Upload("text")) < Rank(Upload(x))
    BY <1>7
  <2>2. "text" \in parts => Upload(x) \notin {Upload("mentions"), Upload("urls")}
    BY <2>1, RankFacts
  <2>3. x = "text" => Upload(x) \notin {Upload("mentions"), Upload("urls")}
    BY RankFacts
  <2> QED
    BY <2>2, <2>3, <1>2, <1>9
<1>13. Composed' => Sixth("text")'
  BY <1>4, <1>5 DEF Composed, Sixth
<1> QED
  BY <1>7, <1>8, <1>10, <1>11, <1>12, <1>13 DEF Fifo

(* A continuation that calls nobody.                                       *)
LEMMA ThenFifo ==
    ASSUME Fifo, UNCHANGED <<tasks, parts, posts>>,
           \A k : Due(k)' => k \notin {Serve("urls"), get_followers, Upload("mentions"), Upload("urls")},
           \A k : ~Failed(k)',
           "text" \in parts => ~Due(Serve("mentions"))'
    PROVE  Fifo'
BY DEF Fifo, Composed, Sixth

LEMMA CountsFifo ==
    ASSUME Flow, Fifo, NEW k, CountFour(k) \/ CountThree(k) \/ CountWrites(k)
    PROVE  Fifo'
<1>1. CASE CountFour(k)
  <2>1. micro' = << >> /\ tasks' = tasks
    BY <1>1, ThenOnly DEF CountFour, Flow
  <2>2. UNCHANGED <<parts, posts>> /\ \A l : ~Due(l)' /\ ~Failed(l)'
    BY <1>1, <2>1, Results DEF CountFour, Due, Failed
  <2> QED
    BY <2>1, <2>2, ThenFifo
<1>2. CASE CountThree(k)
  <2> DEFINE results == IF Three \subseteq back' THEN <<Ok(Upload(Last(posts).by))>> ELSE << >>
  <2>1. Then(Ok(k), << >>, results) /\ UNCHANGED <<parts, posts>> /\ k \in Three
    BY <1>2 DEF CountThree
  <2>2. results = << >> \/ \E r : results = <<r>>
    OBVIOUS
  <2>3. \A l : results = <<Ok(l)>> => l = Upload(Last(posts).by)
    BY Results
  <2>4. \A l : results # <<Error(l)>>
    BY Results
  <2> HIDE DEF results
  <2>5. micro = <<Ok(k)>> /\ micro' = results /\ tasks' = tasks
    BY <2>1, <2>2, ThenOnly DEF Flow
  <2>6. Composed
    BY <1>2, CountedComposed DEF Flow
  <2>7. Last(posts).by = "text"
    BY <2>6 DEF Fifo, Flow, Counting, Sixth, Composed, Last
  <2>8. \A l : (Due(l)' => l = Upload("text")) /\ ~Failed(l)'
    BY <2>3, <2>4, <2>5, <2>7 DEF Due, Failed
  <2>9. Upload("text") \notin {Serve("urls"), get_followers, Upload("mentions"), Upload("urls"), Serve("mentions")}
    BY RankFacts
  <2> QED
    BY <2>1, <2>5, <2>8, <2>9, ThenFifo
<1>3. CASE CountWrites(k)
  <2> DEFINE results == IF ToSet(Writes) \subseteq back' THEN <<Ok(write_home_timeline)>> ELSE << >>
  <2>1. Then(Ok(k), << >>, results) /\ UNCHANGED <<parts, posts>>
    BY <1>3 DEF CountWrites
  <2>2. results = << >> \/ \E r : results = <<r>>
    OBVIOUS
  <2>3. \A l : (results = <<Ok(l)>> => l = write_home_timeline) /\ results # <<Error(l)>>
    BY Results
  <2> HIDE DEF results
  <2>4. micro' = results /\ tasks' = tasks
    BY <2>1, <2>2, ThenOnly DEF Flow
  <2>5. \A l : (Due(l)' => l = write_home_timeline) /\ ~Failed(l)'
    BY <2>3, <2>4 DEF Due, Failed
  <2>6. write_home_timeline \notin {Serve("urls"), get_followers, Upload("mentions"), Upload("urls"),
                                   Serve("mentions")}
    BY RankFacts
  <2> QED
    BY <2>1, <2>4, <2>5, <2>6, ThenFifo
<1> QED
  BY <1>1, <1>2, <1>3

LEMMA RepliesFifo ==
    ASSUME Flow, Fifo, (\E x \in Parts : Uploaded(x)) \/ \E result : Ignored(result)
    PROVE  Fifo'
<1>1. ASSUME NEW x \in Parts, Uploaded(x) PROVE Fifo'
  <2>1. x # "urls" /\ Then(Ok(Upload(x)), << >>, <<Ok(Serve(x))>>) /\ UNCHANGED data
    BY <1>1 DEF Uploaded
  <2>2. micro = <<Ok(Upload(x))>> /\ micro' = <<Ok(Serve(x))>> /\ tasks' = tasks
    BY <2>1, ThenOnly DEF Flow
  <2>3. \A l : (Due(l)' <=> l = Serve(x)) /\ (Due(l) <=> l = Upload(x)) /\ ~Failed(l)'
    BY <2>2, Results DEF Due, Failed
  <2>4. Serve(x) \notin {Serve("urls"), get_followers, Upload("mentions"), Upload("urls")}
    BY <2>1, Distinct DEF Parts
  <2>5. "text" \in parts => Serve(x) # Serve("mentions")
    BY <2>3, Distinct DEF Fifo, Parts
  <2> QED
    BY <2>1, <2>2, <2>3, <2>4, <2>5, ThenFifo DEF data
<1>2. ASSUME NEW result, Ignored(result) PROVE Fifo'
  <2>1. micro' = << >> /\ tasks' = tasks /\ UNCHANGED data
    BY <1>2, ThenOnly DEF Ignored, Flow
  <2>2. \A l : ~Due(l)' /\ ~Failed(l)'
    BY <2>1, Results DEF Due, Failed
  <2> QED
    BY <2>1, <2>2, ThenFifo DEF data
<1> QED
  BY <1>1, <1>2

(* The short URLs are there when nothing before Upload("text") is to come. *)
LEMMA ShortenedFifo ==
    ASSUME Flow, Fifo, ~shuffled, NEW result, Shortened(result)
    PROVE  Fifo'
<1> DEFINE calls == IF result.ok THEN <<Upload("text")>> ELSE << >>
<1> DEFINE called == IF result.ok THEN {Upload("text")} ELSE {}
<1>1. result.call = Serve("urls") /\ Then(result, calls, << >>) /\ UNCHANGED data
  BY DEF Shortened
<1>2. calls \in Seq(Calls) /\ InOrder(calls) /\ ToSet(calls) = called
  BY Short, Names DEF Parts
<1>3. micro = <<result>> /\ tasks' = tasks \o calls /\ micro' = << >>
  <2>1. micro = <<result>>
    BY <1>1 DEF Then, Flow, Types, Due, Failed
  <2> QED
    BY <1>1, <2>1 DEF Then
<1>4. result.ok => Due(Serve("urls"))
  <2>1. CASE \E k \in Calls : Due(k)
    <3>1. PICK k : <<result>> = <<Ok(k)>>
      BY <2>1, <1>3 DEF Due
    <3>2. result = Ok(k)
      BY <3>1
    <3> QED
      BY <3>1, <3>2, <1>1, <1>3 DEF Due, Ok
  <2>2. CASE ~\E k \in Calls : Due(k)
    <3>1. \E k : <<result>> = <<Error(k)>>
      BY <1>3, <2>2 DEF Flow, Types, Failed
    <3>2. PICK k : result = Error(k)
      BY <3>1
    <3> QED
      BY <3>2 DEF Error
  <2> QED
    BY <2>1, <2>2
<1>5. result.ok => \A k \in ToSet(tasks) : Rank(k) \in {10, 11}
  <2> SUFFICES ASSUME result.ok, NEW k \in ToSet(tasks) PROVE Rank(k) \in {10, 11}
    OBVIOUS
  <2>1. Rank(k) > 9
    BY <1>4, RankFacts DEF Fifo
  <2>2. "text" \notin parts /\ ~Queued(Upload("text"))
    BY <1>4 DEF Flow, Making, MakingText, n
  <2>3. ~Composed
    BY <2>2 DEF Flow, Counting, Composed, Parts
  <2>4. k \notin {get_followers} \cup Three \cup ToSet(Writes)
    BY <2>3, Names DEF Flow, Sending, SendingPost, SendingHome, Composed, Queued, n, Three
  <2>5. k \in Calls
    BY DEF Flow, Types, ToSet
  <2>6. PICK x \in Parts : k \in {Serve(x), Upload(x)}
    BY <2>1, <2>4, <2>5, RankFacts DEF Calls
  <2> QED
    BY <2>1, <2>2, <2>6, RankFacts DEF Parts, Queued
<1> HIDE DEF calls
<1>6. /\ InOrder(tasks')
      /\ ToSet(tasks') = ToSet(tasks) \cup called
  <2>1. \A k \in ToSet(tasks), l \in ToSet(calls) : Rank(k) < Rank(l)
    BY <1>2, <1>5, RankFacts
  <2> QED
    BY <2>1, <1>2, <1>3, Appended DEF Flow, Types, Fifo
<1>7. \A k, l \in ToSet(tasks') : Rank(l) < Adds(Rank(k))
  BY <1>5, <1>6, RankFacts DEF Fifo, Adds
<1>8. \A x \in parts' : \A k \in ToSet(tasks') : Rank(Upload(x)) < Rank(k)
  <2>1. \A x \in parts, k \in ToSet(tasks) : Rank(Upload(x)) < Rank(k)
    BY DEF Fifo
  <2>2. result.ok => \A x \in parts : Rank(Upload(x)) < Rank(Upload("text"))
    BY <1>4, RankFacts DEF Flow, Types, Making, MakingText, Parts, n
  <2> QED
    BY <2>1, <2>2, <1>1, <1>6 DEF data
<1>9. \A l : ~Due(l)' /\ ~Failed(l)'
  BY <1>3, Results DEF Due, Failed
<1>10. Composed' => Sixth("text")'
  BY <1>1 DEF data, Fifo, Composed, Sixth
<1> QED
  BY <1>6, <1>7, <1>8, <1>9, <1>10 DEF Fifo

LEMMA FanOutFifo ==
    ASSUME Flow, Fifo, ~shuffled, FanOut
    PROVE  Fifo'
<1>1. Then(Ok(get_followers), Writes, << >>) /\ UNCHANGED data
  BY DEF FanOut
<1>2. micro = <<Ok(get_followers)>> /\ tasks' = tasks \o Writes /\ micro' = << >>
  <2>1. micro = <<Ok(get_followers)>>
    BY <1>1 DEF Then, Flow, Types, Due, Failed
  <2> QED
    BY <1>1, <2>1 DEF Then
<1>3. ToSet(tasks) = {}
  <2> SUFFICES ASSUME NEW k \in ToSet(tasks) PROVE FALSE
    OBVIOUS
  <2>1. Rank(k) > 16
    BY <1>2, RankFacts DEF Fifo, Due
  <2>2. k \in Calls
    BY DEF Flow, Types, ToSet
  <2>3. k \in ToSet(Writes)
    BY <2>1, <2>2, LateCalls
  <2>4. PICK i \in 1 .. Readers : k = Write(i)
    BY <2>3, Names
  <2> QED
    BY <2>4, <1>2 DEF Flow, Sending, SendingHome, Queued, Due, n
<1>4. tasks' = Writes
  <2>1. tasks = << >>
    BY <1>3, NoTask DEF Flow, Types
  <2> QED
    BY <2>1, <1>2, Names
<1>5. InOrder(tasks')
  BY <1>4, RankFacts, ReadersAssumption DEF InOrder, Writes
<1>6. \A k \in ToSet(tasks') : Rank(k) \in 17 .. 16 + Readers
  <2> SUFFICES ASSUME NEW i \in 1 .. Readers PROVE Rank(Write(i)) \in 17 .. 16 + Readers
    BY <1>4, Names
  <2>1. Rank(Write(i)) = 16 + i
    BY RankFacts
  <2> QED
    BY <2>1, ReadersAssumption
<1>7. \A k, l \in ToSet(tasks') : Rank(l) < Adds(Rank(k))
  BY <1>6, ReadersAssumption DEF Adds
<1>8. \A x \in parts' : \A k \in ToSet(tasks') : Rank(Upload(x)) < Rank(k)
  <2>1. \A x \in Parts : Rank(Upload(x)) \in 0 .. 16
    BY RankFacts DEF Parts
  <2> QED
    BY <2>1, <1>1, <1>6, ReadersAssumption DEF data, Flow, Types
<1>9. \A l : ~Due(l)' /\ ~Failed(l)'
  BY <1>2, Results DEF Due, Failed
<1>10. Composed' => Sixth("text")'
  BY <1>1 DEF data, Fifo, Composed, Sixth
<1> QED
  BY <1>5, <1>7, <1>8, <1>9, <1>10 DEF Fifo

-----------------------------------------------------------------------------
(* Only compose is there at first.                                         *)
LEMMA InitIInv == Init => IInv
<1> SUFFICES ASSUME Init PROVE IInv
  OBVIOUS
<1>1. tasks = <<compose>> /\ tasks \in Seq(Calls) /\ IsInjective(tasks) /\ ToSet(tasks) = {compose}
      /\ InOrder(tasks)
  BY Short, Names DEF Init
<1>2. \A l : ~Due(l) /\ ~Failed(l)
  BY Results DEF Init, Due, Failed
<1>3. \A x \in Parts : Serve(x) # compose /\ Upload(x) # compose
  BY Distinct
<1>4. \A k \in {get_followers} \cup Three \cup ToSet(Writes) : k # compose
  BY Distinct, Names, RankFacts DEF Three
<1>5. Types
  BY <1>1 DEF Init, Types
<1>6. Making
  BY <1>1, <1>2, <1>3
  DEF Init, Making, Starting, MakingOwn, MakingFromText, MakingText, Queued, n, Own, Parts
<1>7. Counting
  BY DEF Init, Counting, n
<1>8. Sending
  <2>1. ~(ToSet(Writes) \subseteq back)
    BY Names, ReadersAssumption DEF Init
  <2>2. SendingPost
    BY <2>1, <1>1, <1>2, <1>4 DEF Init, SendingPost, Composed, Queued, n, Three
  <2>3. SendingHome
    BY <1>1, <1>2, <1>4, Names DEF Init, SendingHome, Queued, n
  <2> QED
    BY <2>2, <2>3 DEF Sending
<1>9. Replying
  BY <1>2 DEF Init, Replying, n, Four
<1>10. Fifo
  BY <1>1, <1>2, RankFacts DEF Init, Fifo, Composed, Adds
<1> QED
  BY <1>5, <1>6, <1>7, <1>8, <1>9, <1>10 DEF IInv, Flow

LEMMA NextFlow == Flow /\ Next => Flow'
<1> SUFFICES ASSUME Flow, Next PROVE Flow'
  OBVIOUS
<1>1. CASE Task
  <2>1. ASSUME NEW x \in Parts, check_upload_post(x) PROVE Flow'
    BY <2>1, KeptFlow, SixthFlow
  <2> QED
    BY <1>1, <2>1, ComposeFlow, upload_textFlow, upload_user_mentionsFlow, upload_urlsFlow,
       AskFollowersFlow, PassOnFlow, PlainFlow DEF Task
<1>2. CASE Continuation
  BY <1>2, UploadedFlow, IgnoredFlow, ShortenedFlow, CountFourFlow, CountThreeFlow, CountWritesFlow,
     FanOutFlow DEF Continuation
<1> QED
  BY <1>1, <1>2 DEF Next

LEMMA NextFifo == Flow /\ Fifo /\ ~shuffled /\ Next => Fifo'
<1> SUFFICES ASSUME Flow, Fifo, ~shuffled, Next PROVE Fifo'
  OBVIOUS
<1>1. CASE Task
  BY <1>1, TaskFifo, UploadFifo DEF Task
<1>2. CASE Continuation
  BY <1>2, RepliesFifo, ShortenedFifo, CountsFifo, FanOutFifo DEF Continuation
<1> QED
  BY <1>1, <1>2 DEF Next

LEMMA NextIInv == IInv /\ [Next]_vars => IInv'
<1> SUFFICES ASSUME IInv, [Next]_vars PROVE IInv'
  OBVIOUS
<1>1. CASE Next
  <2>1. shuffled' = shuffled
    BY <1>1 DEF Next, Task, Continuation, Compose, upload_text, upload_user_mentions, upload_urls,
                AskFollowers, PassOn, check_upload_post, Plain, Uploaded, Ignored, Shortened,
                CountFour, CountThree, CountWrites, FanOut, data
  <2> QED
    BY <1>1, <2>1, NextFlow, NextFifo DEF IInv
<1>2. CASE UNCHANGED vars
  <2>1. Types' /\ Starting'
    BY <1>2 DEF vars, IInv, Flow, Types, Making, Starting, Queued, Due, Failed
  <2>2. MakingOwn' /\ MakingFromText' /\ MakingText'
    BY <1>2 DEF vars, IInv, Flow, Making, MakingOwn, MakingFromText, MakingText, Queued, Due
  <2>3. Counting' /\ Replying'
    BY <1>2 DEF vars, IInv, Flow, Counting, Replying, Due, Composed, Sixth
  <2>4. SendingPost' /\ SendingHome'
    BY <1>2 DEF vars, IInv, Flow, Sending, SendingPost, SendingHome, Queued, Due, Composed
  <2>5. ~shuffled => Fifo'
    BY <1>2 DEF vars, IInv, Fifo, Due, Failed, Composed, Sixth
  <2> QED
    BY <2>1, <2>2, <2>3, <2>4, <2>5, <1>2 DEF IInv, Flow, Making, Sending, vars
<1> QED
  BY <1>1, <1>2

(* The inductive invariant holds in every reachable state.                 *)
THEOREM Invariance == Spec => []IInv
BY InitIInv, NextIInv, PTL DEF Spec

-----------------------------------------------------------------------------
(* The sixth upload, whichever it is, finds the keys of all six parts.     *)
THEOREM NoPostHasGaps == Spec => []PostHasAllParts
<1>1. IInv => PostHasAllParts
  BY DEF IInv, Flow, Counting, PostHasAllParts
<1> QED
  BY <1>1, Invariance, PTL

(* What is known when nothing of the request is left to run.               *)
LEMMA AtTheEnd ==
    ASSUME Flow, AtRest
    PROVE  Outcome
<1>1. \A k : ~Queued(k) /\ ~Due(k) /\ ~Failed(k)
  BY Results DEF AtRest, Queued, Due, Failed, ToSet
<1>2. /\ Own \subseteq parts
      /\ "text" \in parts <=> "urls" \in text
      /\ \A x \in {"mentions", "urls"} : x \in parts <=> x \in text
  BY <1>1 DEF Flow, Making, MakingOwn, MakingFromText, MakingText, n
<1>3. Composed <=> text = {"mentions", "urls"}
  <2>1. CASE text = {"mentions", "urls"}
    <3>1. \A x \in Parts : x \in parts
      BY <1>2, <2>1 DEF Parts, Own
    <3>2. posts = << >> => tally = 6
      BY <3>1 DEF Flow, Counting, Parts, n
    <3>3. tally # 6
      BY DEF Flow, Types
    <3> QED
      BY <2>1, <3>2, <3>3 DEF Composed
  <2>2. CASE text # {"mentions", "urls"}
    <3>1. parts # Parts
      BY <1>2, <2>2 DEF Flow, Types, Parts
    <3> QED
      BY <2>2, <3>1 DEF Flow, Counting, Composed
  <2> QED
    BY <2>1, <2>2
<1>4. Composed <=> store_post \in done
  BY <1>1 DEF Flow, Sending, SendingPost, n
<1>5. Composed => /\ {store_post, write_user_timeline} \subseteq done
                  /\ \A i \in 1 .. Readers : Write(i) \in done /\ Write(i) \in back
                  /\ Three \subseteq back
  <2> SUFFICES ASSUME Composed
               PROVE  /\ {store_post, write_user_timeline} \subseteq done
                      /\ \A i \in 1 .. Readers : Write(i) \in done /\ Write(i) \in back
                      /\ Three \subseteq back
    OBVIOUS
  <2>1. /\ {store_post, write_user_timeline} \subseteq done \cap back /\ get_followers \in done
    BY <1>1 DEF Flow, Sending, SendingPost, n
  <2>2. \A i \in 1 .. Readers : Write(i) \in done /\ Write(i) \in back
    BY <1>1, <2>1 DEF Flow, Sending, SendingHome, n
  <2>3. ToSet(Writes) \subseteq back
    BY <2>2, Names
  <2>4. write_home_timeline \in back
    BY <1>1, <2>3 DEF Flow, Sending, SendingPost, n
  <2> QED
    BY <2>1, <2>2, <2>4 DEF Three
<1>6. Delivered <=> Composed
  BY <1>4, <1>5, Names DEF Delivered
<1>7. \A x \in Own \cup {"text"} : Serve(x) \in back <=> x \in parts
  BY <1>1, <1>5 DEF Flow, Replying, Sixth, n
<1>8. Four \subseteq back <=> "text" \in parts
  BY <1>2, <1>7 DEF Four, Own
<1> QED
  BY <1>2, <1>3, <1>6, <1>8 DEF Flow, Replying, Outcome

(* A text without a URL is never answered, and one without a URL or a      *)
(* mention never becomes a post, in whatever order tasks run.              *)
THEOREM TextDecidesOutcome == Spec => []Outcome
<1>1. IInv => Outcome
  BY AtTheEnd DEF IInv, Outcome
<1> QED
  BY <1>1, Invariance, PTL

(* In a first-in first-out run queue all else is over when compose replies.*)
LEMMA AnsweredAtRest ==
    ASSUME Flow, Fifo, answered
    PROVE  AtRest
<1>1. \A x \in Own \cup {"text"} :
        /\ Serve(x) \in back /\ ~Due(Upload(x)) /\ ~Due(Serve(x))
        /\ x \in parts /\ (Sixth(x) => Three \subseteq back)
  <2>1. \A x \in Own \cup {"text"} : Serve(x) \in back
    BY DEF Flow, Replying, Four, Own
  <2> QED
    BY <2>1 DEF Flow, Replying, n
<1>2. Composed => Three \subseteq back
  BY <1>1 DEF Fifo
<1>3. Composed => /\ {store_post, write_user_timeline, get_followers} \subseteq done
                  /\ \A i \in 1 .. Readers : Write(i) \in done /\ Write(i) \in back
  <2> SUFFICES ASSUME Composed
               PROVE  /\ {store_post, write_user_timeline, get_followers} \subseteq done
                      /\ \A i \in 1 .. Readers : Write(i) \in done /\ Write(i) \in back
    OBVIOUS
  <2>1. {store_post, write_user_timeline} \subseteq done /\ ToSet(Writes) \subseteq back
    BY <1>2 DEF Flow, Sending, SendingPost, Three, n
  <2>2. \A i \in 1 .. Readers : Write(i) \in back
    BY <2>1, Names
  <2>3. \A i \in 1 .. Readers : Write(i) \in done
    BY <2>2 DEF Flow, Sending, SendingHome, n
  <2>4. get_followers \in done
    BY <2>3, ReadersAssumption DEF Flow, Sending, SendingHome, n
  <2> QED
    BY <2>1, <2>2, <2>3, <2>4
<1>4. \A k \in {get_followers} \cup Three \cup ToSet(Writes) : ~Queued(k)
  <2>1. \A k \in {get_followers} \cup Three : ~Queued(k)
    BY <1>3 DEF Flow, Sending, SendingPost, Three, n
  <2>2. \A i \in 1 .. Readers : ~Queued(Write(i))
    <3>1. CASE Composed
      BY <3>1, <1>3 DEF Flow, Sending, SendingHome, n
    <3>2. CASE ~Composed
      BY <3>2 DEF Flow, Sending, SendingPost, SendingHome, n
    <3> QED
      BY <3>1, <3>2
  <2> QED
    BY <2>1, <2>2, Names
<1>5. ToSet(tasks) = {}
  <2> SUFFICES ASSUME NEW k \in ToSet(tasks) PROVE FALSE
    OBVIOUS
  <2>1. Rank(k) > 12
    BY <1>1, RankFacts DEF Fifo
  <2>2. k \in Calls
    BY DEF Flow, Types, ToSet
  <2>4. k \in {get_followers} \cup Three \cup ToSet(Writes)
    BY <2>1, <2>2, LateCalls
  <2> QED
    BY <2>4, <1>4 DEF Queued
<1>6. \A k \in Calls \ {compose} : ~Due(k)
  <2>1. ~Due(Serve("urls"))
    BY <1>1 DEF Flow, Making, MakingText, n
  <2>2. \A x \in Parts : ~Due(Serve(x)) /\ ~Due(Upload(x))
    BY <1>1, <2>1 DEF Fifo, Parts, Own
  <2>3. \A k \in {get_followers} \cup Three : ~Due(k)
    <3>1. CASE Composed
      <4>1. ~Due(get_followers)
        BY <3>1, <1>3, ReadersAssumption DEF Flow, Sending, SendingHome, n
      <4> QED
        BY <3>1, <4>1, <1>2 DEF Flow, Sending, SendingPost, Three, n
    <3>2. CASE ~Composed
      <4>1. get_followers \notin done /\ \A i \in 1 .. Readers : Write(i) \notin back
        BY <3>2 DEF Flow, Sending, SendingPost, SendingHome, n
      <4>2. ~(ToSet(Writes) \subseteq back)
        BY <4>1, Names, ReadersAssumption
      <4> QED
        BY <3>2, <4>1, <4>2 DEF Flow, Sending, SendingPost, Three, n
    <3> QED
      BY <3>1, <3>2
  <2>4. \A i \in 1 .. Readers : ~Due(Write(i))
    <3>1. CASE Composed
      BY <3>1, <1>3 DEF Flow, Sending, SendingHome, n
    <3>2. CASE ~Composed
      BY <3>2 DEF Flow, Sending, SendingPost, SendingHome, n
    <3> QED
      BY <3>1, <3>2
  <2> QED
    BY <2>2, <2>3, <2>4, Names DEF Calls
<1>7. ~Failed(Serve("mentions")) /\ "urls" \in text
  <2>1. "text" \in parts
    BY <1>1
  <2> QED
    BY <2>1 DEF Fifo, Flow, Making, MakingText, n
<1>8. micro = << >>
  BY <1>6, <1>7 DEF Flow, Types
<1>9. tasks = << >>
  BY <1>5, NoTask DEF Flow, Types
<1> QED
  BY <1>8, <1>9 DEF AtRest

(* No call of a request is left to run when compose replies.               *)
THEOREM NothingRunsAfterAnswer == Spec => []NothingAfterAnswer
<1>1. IInv => NothingAfterAnswer
  BY AnsweredAtRest DEF IInv, NothingAfterAnswer
<1> QED
  BY <1>1, Invariance, PTL

(* "ok" is said when the post is stored and in every reader's timeline.    *)
THEOREM OkMeansDelivered == Spec => []AnsweredIsDelivered
<1>1. IInv => AnsweredIsDelivered
  <2> SUFFICES ASSUME IInv, answered, ~shuffled, "mentions" \in text PROVE Delivered
    BY DEF AnsweredIsDelivered
  <2>1. AtRest /\ Outcome
    BY AnsweredAtRest, AtTheEnd DEF IInv
  <2>2. text = {"mentions", "urls"}
    BY <2>1 DEF Outcome, IInv, Flow, Types
  <2> QED
    BY <2>1, <2>2 DEF Outcome
<1> QED
  BY <1>1, Invariance, PTL
=============================================================================
