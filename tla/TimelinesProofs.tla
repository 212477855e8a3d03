--------------------------- MODULE TimelinesProofs ---------------------------
(***************************************************************************)
(* No update of a list is lost, what the lists promise to one another      *)
(* holds, and a request that was answered has done what it says exactly as *)
(* often as asked, for any number of users, requests and versions, as long *)
(* as a version that rand() returns is not being compared with by anybody. *)
(***************************************************************************)
EXTENDS Timelines, UserTimeline, SequenceTheorems, FiniteSetTheorems, WellFoundedInduction, TLAPS

-----------------------------------------------------------------------------
(* What the operators that the lists are changed with do to their elements.*)

(* InsertAt(s, i, e), element by element.                                  *)
LEMMA InsertIndexed ==
    ASSUME NEW S, NEW s \in Seq(S), NEW e \in S, NEW i \in 1 .. Len(s) + 1
    PROVE  LET t == InsertAt(s, i, e) IN
           /\ t \in Seq(S) /\ Len(t) = Len(s) + 1 /\ Len(s) \in Nat
           /\ \A j \in 1 .. Len(s) + 1 :
                 t[j] = IF j < i THEN s[j] ELSE IF j = i THEN e ELSE s[j - 1]
<1> DEFINE t == InsertAt(s, i, e)
           l == SubSeq(s, 1, i - 1)
           m == l \o <<e>>
           r == SubSeq(s, i, Len(s))
<1>1. l \in Seq(S) /\ Len(l) = i - 1 /\ \A j \in 1 .. i - 1 : l[j] = s[j]
    BY SubSeqProperties
<1>2. r \in Seq(S) /\ Len(r) = Len(s) - i + 1
      /\ \A j \in 1 .. Len(s) - i + 1 : r[j] = s[i + j - 1]
    BY SubSeqProperties
<1>3. t = m \o r
    BY DEF InsertAt
<1> HIDE DEF l, r
<1>4. m \in Seq(S) /\ Len(m) = i
      /\ \A j \in 1 .. i : m[j] = IF j < i THEN l[j] ELSE e
    BY <1>1
<1> HIDE DEF m
<1>5. m \o r \in Seq(S) /\ Len(m \o r) = Len(m) + Len(r)
      /\ \A j \in 1 .. Len(m) + Len(r) :
            (m \o r)[j] = IF j <= Len(m) THEN m[j] ELSE r[j - Len(m)]
    BY <1>2, <1>4, ConcatProperties
<1> HIDE DEF t
<1>6. Len(m) + Len(r) = Len(s) + 1 /\ Len(s) \in Nat
    BY <1>2, <1>4
<1>7. ASSUME NEW j \in 1 .. Len(s) + 1
      PROVE  t[j] = IF j < i THEN s[j] ELSE IF j = i THEN e ELSE s[j - 1]
    <2>1. t[j] = IF j <= i THEN m[j] ELSE r[j - i]
        BY <1>3, <1>4, <1>5, <1>6
    <2>2. CASE j <= i
        BY <1>1, <1>4, <2>1, <2>2
    <2>3. CASE j > i
        BY <1>2, <2>1, <2>3
    <2> QED BY <2>2, <2>3
<1>8. t \in Seq(S) /\ Len(t) = Len(s) + 1
    BY <1>3, <1>5, <1>6
<1> QED BY <1>6, <1>7, <1>8 DEF t

(* Inserting an element adds it and nothing else.                          *)
LEMMA InsertFacts ==
    ASSUME NEW S, NEW s \in Seq(S), NEW e \in S, NEW i \in 1 .. Len(s) + 1
    PROVE  /\ InsertAt(s, i, e) \in Seq(S)
           /\ ToSet(InsertAt(s, i, e)) = ToSet(s) \cup {e}
<1> DEFINE t == InsertAt(s, i, e)
<1>1. /\ t \in Seq(S) /\ Len(t) = Len(s) + 1 /\ Len(s) \in Nat
      /\ \A j \in 1 .. Len(s) + 1 :
            t[j] = IF j < i THEN s[j] ELSE IF j = i THEN e ELSE s[j - 1]
    BY InsertIndexed
<1> HIDE DEF t
<1>2. ASSUME NEW x \in ToSet(t) PROVE x \in ToSet(s) \cup {e}
    <2>1. PICK j \in 1 .. Len(t) : x = t[j]
        BY DEF ToSet
    <2>2. CASE j < i
        <3>1. j \in 1 .. Len(s) /\ x = s[j]
            BY <1>1, <2>1, <2>2
        <3> QED BY <3>1 DEF ToSet
    <2>3. CASE j > i
        <3>1. j - 1 \in 1 .. Len(s) /\ x = s[j - 1]
            BY <1>1, <2>1, <2>3
        <3> QED BY <3>1 DEF ToSet
    <2>4. CASE j = i
        BY <1>1, <2>1, <2>4
    <2> QED BY <2>2, <2>3, <2>4, <1>1
<1>3. ASSUME NEW x \in ToSet(s) PROVE x \in ToSet(t)
    <2>1. PICK j \in 1 .. Len(s) : x = s[j]
        BY DEF ToSet
    <2>2. PICK k \in 1 .. Len(t) : x = t[k]
        <3>1. CASE j < i
            BY <1>1, <2>1, <3>1
        <3>2. CASE j >= i
            <4>1. j + 1 \in 1 .. Len(t) /\ t[j + 1] = s[j]
                BY <1>1, <2>1, <3>2
            <4> QED BY <2>1, <4>1
        <3> QED BY <1>1, <3>1, <3>2
    <2> QED BY <2>2 DEF ToSet
<1>4. e \in ToSet(t)
    <2>1. i \in 1 .. Len(t) /\ t[i] = e
        BY <1>1
    <2> QED BY <2>1 DEF ToSet
<1> QED BY <1>1, <1>2, <1>3, <1>4 DEF t

(* Appending an element adds it and nothing else.                          *)
LEMMA AppendFacts ==
    ASSUME NEW S, NEW s \in Seq(S), NEW e \in S
    PROVE  /\ Append(s, e) \in Seq(S)
           /\ ToSet(Append(s, e)) = ToSet(s) \cup {e}
<1> DEFINE t == Append(s, e)
<1>1. /\ t \in Seq(S) /\ Len(t) = Len(s) + 1 /\ Len(s) \in Nat
      /\ \A i \in 1 .. Len(s) : t[i] = s[i]
      /\ t[Len(s) + 1] = e
    OBVIOUS
<1> HIDE DEF t
<1>2. \A x \in ToSet(s) : x \in ToSet(t)
    <2>1. ASSUME NEW i \in 1 .. Len(s) PROVE i \in 1 .. Len(t) /\ t[i] = s[i]
        BY <1>1
    <2> QED BY <2>1 DEF ToSet
<1>3. e \in ToSet(t)
    <2>1. Len(s) + 1 \in 1 .. Len(t)
        BY <1>1
    <2> QED BY <1>1, <2>1 DEF ToSet
<1>4. \A x \in ToSet(t) : x \in ToSet(s) \cup {e}
    BY <1>1 DEF ToSet
<1> QED BY <1>1, <1>2, <1>3, <1>4 DEF t

-----------------------------------------------------------------------------

(* A non-empty set of natural numbers has a least element.                 *)
LEMMA MinFacts ==
    ASSUME NEW S \in SUBSET Nat, S # {}
    PROVE  Min(S) \in S /\ \A y \in S : Min(S) <= y
<1>1. PICK R : /\ IsWellFoundedOn(R, Nat)
               /\ \A x, y \in Nat : y < x => <<y, x>> \in R
    <2>1. \A x, y \in Nat : y < x => <<y, x>> \in OpToRel(<, Nat)
        BY DEF OpToRel
    <2> QED BY <2>1, NatLessThanWellFounded, Zenon
<1>2. PICK x \in S : \A y \in S : ~(<<y, x>> \in R)
    BY <1>1, WFMin
<1>3. ASSUME NEW y \in S PROVE x =< y
    <2>1. x \in Nat /\ y \in Nat
        OBVIOUS
    <2>2. ~(y < x)
        BY <1>1, <1>2, <2>1, Zenon
    <2> QED BY <2>1, <2>2
<1> QED BY <1>3 DEF Min

(* The search of push_sorted ends in the list or right behind it.          *)
LEMMA PositionFacts ==
    ASSUME NEW list \in Seq(Posts), NEW p \in Posts
    PROVE  /\ Position(list, p) \in 0 .. Len(list)
           /\ Position(list, p) + 1 \in 1 .. Len(list) + 1
<1>1. CASE Stops(list, p) = {}
    BY <1>1 DEF Position
<1>2. CASE Stops(list, p) # {}
    <2>1. Stops(list, p) \subseteq 0 .. Len(list) - 1
        BY DEF Stops
    <2>2. Stops(list, p) \in SUBSET Nat
        BY <2>1
    <2>3. Min(Stops(list, p)) \in Stops(list, p)
        BY <1>2, <2>2, MinFacts
    <2> QED BY <1>2, <2>1, <2>3 DEF Position
<1> QED BY <1>1, <1>2

(* push_sorted adds the post, wherever its search ends.                    *)
LEMMA PushFacts ==
    ASSUME NEW list \in Seq(Posts), NEW p \in Posts
    PROVE  /\ push_sorted(list, p) \in Seq(Posts)
           /\ ToSet(push_sorted(list, p)) = ToSet(list) \cup {p}
BY PositionFacts, InsertFacts DEF push_sorted

-----------------------------------------------------------------------------
(* Where a request can be, and what it has done by then.                   *)
Places ==
    /\ \A p \in Posts : /\ pc[p] \in {"new", "store", "own", "home", "fan", "done"}
                        /\ pc[p] \notin {"new", "store"} => p \in stored
                        /\ pc[p] = "fan" => left[p] \in 1 .. Len(audience[p])
    /\ \A f \in Follows : /\ pc[f] \in {"new", "followees", "followers", "done"}
                          /\ pc[f] \in {"followers", "done"} =>
                                Followee[f] \in ToSet(Followees(Follower[f]))

(* A shard that would succeed with what it has read has read what is there.*)
SnapInv ==
    \A r \in got : /\ Looping(r)
                   /\ Accepts(Key(r), snap[r].version) => snap[r] = table[Key(r)]

IInv == TypeOK /\ Places /\ SnapInv /\ StoredFirst /\ FollowersFollow

(* Empty timelines, no request begun: the inductive invariant holds. *)
LEMMA InitInv == Init => IInv
<1> SUFFICES ASSUME Init PROVE IInv
    OBVIOUS
<1>1. TypeOK
    BY RequestsAssumption DEF Init, TypeOK, Absent, Entries, Keys, Pcs, Requests
<1>2. Places
    BY RequestsAssumption DEF Init, Places, Requests
<1>3. SnapInv
    BY DEF Init, SnapInv
<1>4. \A k \in Keys : ToSet(table[k].list) = {}
    BY DEF Init, Absent, ToSet
<1>5. StoredFirst /\ FollowersFollow
    BY <1>4 DEF StoredFirst, FollowersFollow, Timeline, Followers, Followees, Keys
<1> QED BY <1>1, <1>2, <1>3, <1>5 DEF IInv

(* What a loop adds to the list it updates.                                *)
Added(r) == IF pc[r] \in {"own", "fan"} THEN r
            ELSE IF pc[r] = "followees" THEN Followee[r] ELSE Follower[r]

(* The key of a loop, and the list that the loop makes of the list there.  *)
LEMMA LoopFacts ==
    ASSUME IInv, NEW r \in Requests, Looping(r)
    PROVE  /\ Key(r) \in Keys
           /\ Updated(r, table[Key(r)].list) \in IF r \in Posts THEN Seq(Posts) ELSE Seq(Users)
           /\ ToSet(Updated(r, table[Key(r)].list)) = ToSet(table[Key(r)].list) \cup {Added(r)}
           /\ Key(r)[1] = "timeline" <=> r \in Posts
<1>1. CASE r \in Posts
    <2>1. pc[r] \in {"own", "fan"}
        BY <1>1 DEF Looping, IInv, Places
    <2>2. Reader(r) \in Users
        <3>1. CASE pc[r] = "own"
            BY <1>1, <3>1, RequestsAssumption DEF Reader
        <3>2. CASE pc[r] = "fan"
            <4>1. audience[r] \in Seq(Users) /\ left[r] \in 1 .. Len(audience[r])
                BY <1>1, <3>2 DEF IInv, TypeOK, Places
            <4>2. Len(audience[r]) - left[r] + 1 \in 1 .. Len(audience[r])
                BY <4>1
            <4> QED BY <3>2, <4>1, <4>2 DEF Reader
        <3> QED BY <2>1, <3>1, <3>2
    <2>3. Key(r) = <<"timeline", Reader(r)>>
        BY <2>1 DEF Key
    <2>4. Updated(r, table[Key(r)].list) = push_sorted(table[Key(r)].list, r)
        BY <2>1 DEF Updated
    <2>5. table[Key(r)].list \in Seq(Posts)
        BY <2>2, <2>3 DEF IInv, TypeOK
    <2> DEFINE old == table[Key(r)].list
               new == push_sorted(old, r)
    <2>6. new \in Seq(Posts) /\ ToSet(new) = ToSet(old) \cup {r}
        BY <1>1, <2>5, PushFacts
    <2>7. Key(r) \in Keys /\ Key(r)[1] = "timeline"
        BY <2>2, <2>3 DEF Keys
    <2> QED BY <1>1, <2>1, <2>4, <2>6, <2>7 DEF Added
<1>2. CASE r \in Follows
    <2>1. pc[r] \in {"followees", "followers"} /\ r \notin Posts
        BY <1>2, RequestsAssumption DEF Looping, IInv, Places
    <2>2. Follower[r] \in Users /\ Followee[r] \in Users
        BY <1>2, RequestsAssumption
    <2>3. CASE pc[r] = "followees"
        <3>1. Key(r) = <<"followees", Follower[r]>>
            BY <2>3 DEF Key
        <3>2. Updated(r, table[Key(r)].list) = Append(table[Key(r)].list, Followee[r])
            BY <2>3 DEF Updated
        <3>3. table[Key(r)].list \in Seq(Users)
            BY <2>2, <3>1 DEF IInv, TypeOK
        <3> DEFINE old == table[Key(r)].list
                   new == Append(old, Followee[r])
        <3>4. new \in Seq(Users) /\ ToSet(new) = ToSet(old) \cup {Followee[r]}
            BY <2>2, <3>3, AppendFacts
        <3>5. Key(r) \in Keys /\ Key(r)[1] = "followees"
            BY <2>2, <3>1 DEF Keys
        <3>6. Added(r) = Followee[r]
            BY <2>3 DEF Added
        <3> QED BY <2>1, <3>2, <3>4, <3>5, <3>6
    <2>4. CASE pc[r] = "followers"
        <3>1. Key(r) = <<"followers", Followee[r]>>
            BY <2>4 DEF Key
        <3>2. Updated(r, table[Key(r)].list) = Append(table[Key(r)].list, Follower[r])
            BY <2>4 DEF Updated
        <3>3. table[Key(r)].list \in Seq(Users)
            BY <2>2, <3>1 DEF IInv, TypeOK
        <3> DEFINE old == table[Key(r)].list
                   new == Append(old, Follower[r])
        <3>4. new \in Seq(Users) /\ ToSet(new) = ToSet(old) \cup {Follower[r]}
            BY <2>2, <3>3, AppendFacts
        <3>5. Key(r) \in Keys /\ Key(r)[1] = "followers"
            BY <2>2, <3>1 DEF Keys
        <3>6. Added(r) = Follower[r]
            BY <2>4 DEF Added
        <3> QED BY <2>1, <3>2, <3>4, <3>5, <3>6
    <2> QED BY <2>1, <2>3, <2>4
<1> QED BY <1>1, <1>2 DEF Requests

-----------------------------------------------------------------------------
(* The step is not about q: its place in its program and the timelines it  *)
(* still has to update stay as they are.                                   *)
SameFor(q) == /\ pc'[q] = pc[q]
              /\ q \in Posts => audience'[q] = audience[q] /\ left'[q] = left[q]

(* A request a step is not about still retries on the same timeline. *)
LEMMA SameKey ==
    ASSUME NEW q \in Requests, SameFor(q), Places, Looping(q)
    PROVE  Looping(q)' /\ Key(q)' = Key(q)
<1>1. pc'[q] = pc[q]
    BY DEF SameFor
<1>2. CASE q \in Posts
    <2>1. audience'[q] = audience[q] /\ left'[q] = left[q]
        BY <1>2 DEF SameFor
    <2> QED BY <1>1, <2>1 DEF Looping, Key, Reader
<1>3. CASE q \in Follows
    <2>1. pc[q] \in {"followees", "followers"}
        BY <1>3 DEF Looping, Places
    <2> QED BY <1>1, <2>1 DEF Looping, Key
<1> QED BY <1>2, <1>3 DEF Requests

(* What a successful DBSet does to the table.                              *)
LEMMA SetFacts ==
    ASSUME IInv, NEW r \in Requests, Set(r)
    PROVE  /\ Looping(r) /\ Key(r) \in Keys
           /\ \A k \in Keys : k # Key(r) => table'[k] = table[k]
           /\ table'[Key(r)] \in [version : Versions, list : Seq(Posts) \cup Seq(Users)]
           /\ table'[Key(r)].list = Updated(r, table[Key(r)].list)
           /\ \A q \in got : table'[Key(r)].version # snap[q].version
<1>1. r \in got /\ Looping(r) /\ snap[r] = table[Key(r)]
    BY DEF Set, IInv, SnapInv
<1>2. /\ Key(r) \in Keys
      /\ Updated(r, table[Key(r)].list) \in Seq(Posts) \cup Seq(Users)
    BY <1>1, LoopFacts
<1>3. PICK v \in Fresh(Key(r)) :
        table' = [table EXCEPT ![Key(r)] =
                     [version |-> v, list |-> Updated(r, snap[r].list)]]
    BY DEF Set
<1>4. table \in [Keys -> Entries]
    BY DEF IInv, TypeOK
<1>5. v \in Versions /\ \A q \in got : v # snap[q].version
    BY <1>3 DEF Fresh
<1>6. table'[Key(r)] = [version |-> v, list |-> Updated(r, table[Key(r)].list)]
    BY <1>1, <1>2, <1>3, <1>4
<1>7. \A k \in Keys : k # Key(r) => table'[k] = table[k]
    BY <1>3, <1>4
<1> QED BY <1>1, <1>2, <1>5, <1>6, <1>7

(* No list loses an element, and the one that r updates gains one.         *)
LEMMA SetGrows ==
    ASSUME IInv, NEW r \in Requests, Set(r)
    PROVE  \A k \in Keys : ToSet(table[k].list) \subseteq ToSet(table'[k].list)
<1>1. /\ Looping(r)
      /\ \A k \in Keys : k # Key(r) => table'[k] = table[k]
      /\ table'[Key(r)].list = Updated(r, table[Key(r)].list)
    BY SetFacts
<1>2. ToSet(Updated(r, table[Key(r)].list)) = ToSet(table[Key(r)].list) \cup {Added(r)}
    BY <1>1, LoopFacts
<1> QED BY <1>1, <1>2

(* A successful conditional set leaves every entry of the table well typed. *)
LEMMA SetType ==
    ASSUME IInv, NEW r \in Requests, Set(r)
    PROVE  TypeOK'
<1>1. /\ Looping(r) /\ Key(r) \in Keys
      /\ \A k \in Keys : k # Key(r) => table'[k] = table[k]
      /\ table'[Key(r)] \in [version : Versions, list : Seq(Posts) \cup Seq(Users)]
      /\ table'[Key(r)].list = Updated(r, table[Key(r)].list)
    BY SetFacts
<1>2. /\ Key(r)[1] = "timeline" <=> r \in Posts
      /\ Updated(r, table[Key(r)].list) \in IF r \in Posts THEN Seq(Posts) ELSE Seq(Users)
    BY <1>1, LoopFacts
<1>3. TypeOK
    BY DEF IInv
<1>4. table' \in [Keys -> Entries]
    <2>1. table' = [k \in Keys |-> table'[k]]
        BY <1>3 DEF Set, TypeOK
    <2>2. \A k \in Keys : table'[k] \in Entries
        BY <1>1, <1>3 DEF TypeOK, Entries
    <2> QED BY <2>1, <2>2
<1>5. \A u \in Users : table'[<<"timeline", u>>].list \in Seq(Posts)
    <2> SUFFICES ASSUME NEW u \in Users PROVE table'[<<"timeline", u>>].list \in Seq(Posts)
        OBVIOUS
    <2>1. <<"timeline", u>> \in Keys
        BY DEF Keys
    <2>2. CASE Key(r) = <<"timeline", u>>
        BY <1>1, <1>2, <2>2
    <2>3. CASE Key(r) # <<"timeline", u>>
        BY <1>1, <1>3, <2>1, <2>3 DEF TypeOK
    <2> QED BY <2>2, <2>3
<1>6. ASSUME NEW u \in Users, NEW d \in {"followees", "followers"}
      PROVE  table'[<<d, u>>].list \in Seq(Users)
    <2>1. <<d, u>> \in Keys
        BY DEF Keys
    <2>2. CASE Key(r) = <<d, u>>
        BY <1>1, <1>2, <2>2
    <2>3. CASE Key(r) # <<d, u>>
        BY <1>1, <1>3, <2>1, <2>3 DEF TypeOK
    <2> QED BY <2>2, <2>3
<1>7. pc' \in [Requests -> Pcs]
    <2>1. NextPc(r) \in Pcs
        BY <1>1 DEF NextPc, Looping, Pcs
    <2> QED BY <1>3, <2>1 DEF Set, TypeOK
<1>8. left' \in [Posts -> Nat]
    <2>1. CASE pc[r] = "fan"
        <3>1. r \in Posts /\ left[r] \in Nat \ {0}
            BY <2>1 DEF IInv, Places, TypeOK, Requests
        <3> QED BY <1>3, <2>1, <3>1 DEF Set, TypeOK
    <2>2. CASE pc[r] # "fan"
        BY <1>3, <2>2 DEF Set, TypeOK
    <2> QED BY <2>1, <2>2
<1>9. /\ stored' \subseteq Posts /\ got' \subseteq Requests
      /\ snap' \in [Requests -> Entries] /\ audience' \in [Posts -> Seq(Users)]
    <2>1. Absent \in Entries
        BY DEF Absent, Entries
    <2> QED BY <1>3, <2>1 DEF Set, TypeOK
<1> QED BY <1>4, <1>5, <1>6, <1>7, <1>8, <1>9 DEF TypeOK

(* The followers of a user keep him among their followees.                 *)
LEMMA SetKeepsLists ==
    ASSUME IInv, NEW r \in Requests, Set(r)
    PROVE  StoredFirst' /\ FollowersFollow'
<1>1. /\ Looping(r) /\ Key(r) \in Keys
      /\ \A k \in Keys : k # Key(r) => table'[k] = table[k]
      /\ table'[Key(r)].list = Updated(r, table[Key(r)].list)
    BY SetFacts
<1>2. ToSet(table'[Key(r)].list) = ToSet(table[Key(r)].list) \cup {Added(r)}
    BY <1>1, LoopFacts
<1>3. \A k \in Keys : ToSet(table[k].list) \subseteq ToSet(table'[k].list)
    BY SetGrows
<1>4. ASSUME NEW u \in Users, NEW x \in ToSet(Timeline(u))' PROVE x \in stored'
    <2>1. <<"timeline", u>> \in Keys
        BY DEF Keys
    <2>2. stored' = stored
        BY DEF Set
    <2>3. CASE Key(r) = <<"timeline", u>>
        <3>1. pc[r] \in {"own", "fan"}
            BY <1>1, <2>3 DEF Key, Looping
        <3>2. r \in stored
            BY <3>1 DEF IInv, Places, Requests
        <3>3. x \in ToSet(table[<<"timeline", u>>].list) \cup {r}
            BY <1>2, <1>4, <2>3, <3>1 DEF Timeline, Added
        <3> QED BY <2>2, <3>2, <3>3 DEF IInv, StoredFirst, Timeline
    <2>4. CASE Key(r) # <<"timeline", u>>
        BY <1>1, <1>4, <2>1, <2>2, <2>4 DEF IInv, StoredFirst, Timeline
    <2> QED BY <2>3, <2>4
<1>5. ASSUME NEW u \in Users, NEW w \in Users, w \in ToSet(Followers(u))'
      PROVE  u \in ToSet(Followees(w))'
    <2>1. <<"followers", u>> \in Keys /\ <<"followees", w>> \in Keys
        BY DEF Keys
    <2>2. ToSet(Followees(w)) \subseteq ToSet(Followees(w))'
        BY <1>3, <2>1 DEF Followees
    <2>3. CASE w \in ToSet(Followers(u))
        BY <2>2, <2>3 DEF IInv, FollowersFollow
    <2>4. CASE w \notin ToSet(Followers(u))
        <3>1. Key(r) = <<"followers", u>> /\ w = Added(r)
            BY <1>1, <1>2, <1>5, <2>1, <2>4 DEF Followers
        <3>2. pc[r] = "followers" /\ u = Followee[r]
            BY <1>1, <3>1 DEF Key, Looping
        <3>3. w = Follower[r] /\ r \in Follows
            BY <3>1, <3>2 DEF Added, IInv, Places, Requests
        <3>4. u \in ToSet(Followees(w))
            BY <3>2, <3>3 DEF IInv, Places
        <3> QED BY <2>2, <3>4
    <2> QED BY <2>3, <2>4
<1>6. StoredFirst'
    BY <1>4 DEF StoredFirst
<1>7. FollowersFollow'
    BY <1>5 DEF FollowersFollow
<1> QED BY <1>6, <1>7

(* A successful conditional set takes its request to a place of its program. *)
LEMMA SetPlaces ==
    ASSUME IInv, NEW r \in Requests, Set(r)
    PROVE  Places'
<1>1. /\ Looping(r) /\ Key(r) \in Keys
      /\ table'[Key(r)].list = Updated(r, table[Key(r)].list)
    BY SetFacts
<1>2. \A k \in Keys : ToSet(table[k].list) \subseteq ToSet(table'[k].list)
    BY SetGrows
<1>3. /\ stored' = stored /\ audience' = audience
      /\ pc' = [pc EXCEPT ![r] = NextPc(r)] /\ pc \in [Requests -> Pcs]
    BY DEF Set, IInv, TypeOK
<1>4. ASSUME NEW p \in Posts
      PROVE  /\ pc'[p] \in {"new", "store", "own", "home", "fan", "done"}
             /\ pc'[p] \notin {"new", "store"} => p \in stored'
             /\ pc'[p] = "fan" => left'[p] \in 1 .. Len(audience'[p])
    <2>1. /\ pc[p] \in {"new", "store", "own", "home", "fan", "done"}
          /\ pc[p] \notin {"new", "store"} => p \in stored
          /\ pc[p] = "fan" => left[p] \in 1 .. Len(audience[p])
        BY DEF IInv, Places
    <2>2. p \in Requests /\ Len(audience[p]) \in Nat /\ left \in [Posts -> Nat]
        BY DEF Requests, IInv, TypeOK
    <2>3. CASE p # r
        <3>1. pc'[p] = pc[p] /\ left'[p] = left[p]
            BY <1>3, <2>2, <2>3 DEF Set
        <3> QED BY <1>3, <2>1, <3>1
    <2>4. CASE p = r /\ pc[p] = "own"
        <3>1. pc'[p] = "home"
            BY <1>3, <2>2, <2>4 DEF NextPc
        <3> QED BY <1>3, <2>1, <2>4, <3>1
    <2>5. CASE p = r /\ pc[p] = "fan"
        <3>1. left'[p] = left[p] - 1 /\ left[p] \in 1 .. Len(audience[p])
            BY <2>1, <2>2, <2>5 DEF Set
        <3>2. pc'[p] = IF left[p] = 1 THEN "done" ELSE "fan"
            BY <1>3, <2>2, <2>5 DEF NextPc
        <3> QED BY <1>3, <2>1, <2>2, <2>5, <3>1, <3>2
    <2> QED BY <1>1, <2>1, <2>3, <2>4, <2>5 DEF Looping
<1>5. ASSUME NEW f \in Follows
      PROVE  /\ pc'[f] \in {"new", "followees", "followers", "done"}
             /\ pc'[f] \in {"followers", "done"} =>
                    Followee[f] \in ToSet(Followees(Follower[f]))'
    <2>1. /\ pc[f] \in {"new", "followees", "followers", "done"}
          /\ pc[f] \in {"followers", "done"} =>
                Followee[f] \in ToSet(Followees(Follower[f]))
        BY DEF IInv, Places
    <2>2. f \in Requests /\ Follower[f] \in Users /\ <<"followees", Follower[f]>> \in Keys
        BY RequestsAssumption DEF Requests, Keys
    <2>3. ToSet(Followees(Follower[f])) \subseteq ToSet(Followees(Follower[f]))'
        BY <1>2, <2>2 DEF Followees
    <2>4. CASE f # r
        <3>1. pc'[f] = pc[f]
            BY <1>3, <2>2, <2>4
        <3> QED BY <2>1, <2>3, <3>1
    <2>5. CASE f = r /\ pc[f] = "followers"
        <3>1. pc'[f] = "done"
            BY <1>3, <2>2, <2>5 DEF NextPc
        <3> QED BY <2>1, <2>3, <2>5, <3>1
    <2>6. CASE f = r /\ pc[f] = "followees"
        <3>1. pc'[f] = "followers"
            BY <1>3, <2>2, <2>6 DEF NextPc
        <3>2. Key(r) = <<"followees", Follower[f]>>
            BY <2>6 DEF Key
        <3>3. Added(r) = Followee[f]
            BY <2>6 DEF Added
        <3>4. Followee[f] \in ToSet(table'[Key(r)].list)
            BY <1>1, <3>3, LoopFacts
        <3> QED BY <3>1, <3>2, <3>4 DEF Followees
    <2> QED BY <1>1, <2>1, <2>4, <2>5, <2>6 DEF Looping
<1> QED BY <1>4, <1>5 DEF Places

(* Nobody that still compares with an older version can succeed.           *)
LEMMA SetSnaps ==
    ASSUME IInv, NEW r \in Requests, Set(r)
    PROVE  SnapInv'
<1> SUFFICES ASSUME NEW q \in got'
             PROVE  /\ Looping(q)'
                    /\ Accepts(Key(q), snap[q].version)' => snap'[q] = table'[Key(q)']
    BY DEF SnapInv
<1>1. /\ Looping(r) /\ Key(r) \in Keys
      /\ \A k \in Keys : k # Key(r) => table'[k] = table[k]
      /\ table'[Key(r)] \in [version : Versions, list : Seq(Posts) \cup Seq(Users)]
      /\ \A s \in got : table'[Key(r)].version # snap[s].version
    BY SetFacts
<1>2. q \in got /\ q # r /\ q \in Requests
    BY DEF Set, IInv, TypeOK
<1>3. snap'[q] = snap[q] /\ SameFor(q)
    BY <1>2 DEF Set, SameFor, IInv, TypeOK
<1>4. /\ Looping(q) /\ Places
      /\ Accepts(Key(q), snap[q].version) => snap[q] = table[Key(q)]
    BY <1>2 DEF IInv, SnapInv
<1>5. Looping(q)' /\ Key(q)' = Key(q) /\ Key(q) \in Keys
    BY <1>2, <1>3, <1>4, SameKey, LoopFacts
<1>6. CASE Key(q) = Key(r)
    <2>1. table'[Key(r)] # Absent
        BY <1>1, VersionsAssumption DEF Absent
    <2>2. table'[Key(r)].version # snap[q].version
        BY <1>1, <1>2
    <2> QED BY <1>3, <1>5, <1>6, <2>1, <2>2 DEF Accepts
<1>7. CASE Key(q) # Key(r)
    BY <1>1, <1>3, <1>4, <1>5, <1>7 DEF Accepts
<1> QED BY <1>6, <1>7

(* IInv across Set, the conditional set that ends a read-modify-write. *)
LEMMA SetInv ==
    ASSUME IInv, NEW r \in Requests, Set(r)
    PROVE  IInv'
BY SetType, SetPlaces, SetSnaps, SetKeepsLists DEF IInv

-----------------------------------------------------------------------------
(* The lists and what is stored are only extended; requests other than r   *)
(* stay where they are.                                                    *)
LEMMA QuietSnaps ==
    ASSUME IInv, NEW r \in Requests, r \notin got, UNCHANGED <<table, got, snap>>,
           \A q \in Requests \ {r} : SameFor(q)
    PROVE  SnapInv'
<1> SUFFICES ASSUME NEW q \in got
             PROVE  /\ Looping(q)'
                    /\ Accepts(Key(q), snap[q].version)' => snap'[q] = table'[Key(q)']
    BY DEF SnapInv
<1>1. q \in Requests /\ SameFor(q) /\ Places /\ Looping(q)
    BY DEF IInv, TypeOK, SnapInv
<1>2. Looping(q)' /\ Key(q)' = Key(q)
    BY <1>1, SameKey
<1>3. Accepts(Key(q), snap[q].version) => snap[q] = table[Key(q)]
    BY DEF IInv, SnapInv
<1> QED BY <1>2, <1>3 DEF Accepts

(* A step that leaves the table alone keeps what is known of the lists. *)
LEMMA QuietLists ==
    ASSUME IInv, UNCHANGED table, stored \subseteq stored'
    PROVE  StoredFirst' /\ FollowersFollow'
BY DEF IInv, StoredFirst, FollowersFollow, Timeline, Followers, Followees

(* IInv across Begin: compose-post or follow starts. *)
LEMMA BeginInv ==
    ASSUME IInv, NEW r \in Requests, Begin(r)
    PROVE  IInv'
<1>1. r \notin got
    BY DEF Begin, IInv, SnapInv, Looping
<1>2. /\ UNCHANGED <<table, stored, got, snap, audience, left>>
      /\ pc[r] = "new" /\ pc \in [Requests -> Pcs]
      /\ pc' = [pc EXCEPT ![r] = IF r \in Posts THEN "store" ELSE "followees"]
    BY DEF Begin, IInv, TypeOK
<1>3. TypeOK'
    BY <1>2 DEF IInv, TypeOK, Pcs
<1>4. Places'
    <2>1. \A q \in Requests : pc'[q] = IF q # r THEN pc[q] ELSE
                                      IF r \in Posts THEN "store" ELSE "followees"
        BY <1>2
    <2>2. \A f \in Follows : f \notin Posts
        BY RequestsAssumption
    <2> QED BY <1>2, <2>1, <2>2 DEF IInv, Places, Requests, Followees
<1>5. SnapInv'
    BY <1>1, <1>2, QuietSnaps DEF SameFor
<1> QED BY <1>2, <1>3, <1>4, <1>5, QuietLists DEF IInv

(* IInv across StorePost: the post is stored before any timeline names it. *)
LEMMA StorePostInv ==
    ASSUME IInv, NEW p \in Posts, store_post(p)
    PROVE  IInv'
<1>1. p \in Requests /\ p \notin got /\ p \notin Follows
    BY RequestsAssumption DEF store_post, IInv, SnapInv, Looping, Requests
<1>2. /\ UNCHANGED <<table, got, snap, audience, left>>
      /\ stored' = stored \cup {p}
      /\ pc \in [Requests -> Pcs] /\ pc' = [pc EXCEPT ![p] = "own"]
    BY DEF store_post, IInv, TypeOK
<1>3. TypeOK'
    BY <1>2 DEF IInv, TypeOK, Pcs
<1>4. Places'
    <2>1. \A q \in Requests : pc'[q] = IF q # p THEN pc[q] ELSE "own"
        BY <1>2
    <2> QED BY <1>1, <1>2, <2>1 DEF IInv, Places, Requests, Followees
<1>5. SnapInv'
    BY <1>1, <1>2, QuietSnaps DEF SameFor
<1> QED BY <1>2, <1>3, <1>4, <1>5, QuietLists DEF IInv

(* IInv across WriteHomeTimeline: the followers read become the audience. *)
LEMMA WriteHomeTimelineInv ==
    ASSUME IInv, NEW p \in Posts, write_home_timeline(p)
    PROVE  IInv'
<1> DEFINE all == table[<<"followers", Author[p]>>].list \o Mentions[p]
<1>1. p \in Requests /\ p \notin got /\ p \notin Follows
    BY RequestsAssumption DEF write_home_timeline, IInv, SnapInv, Looping, Requests
<1>2. /\ UNCHANGED <<table, stored, got, snap>>
      /\ audience' = [audience EXCEPT ![p] = all]
      /\ left' = [left EXCEPT ![p] = Len(all)]
      /\ pc[p] = "home" /\ pc \in [Requests -> Pcs] /\ pc' = [pc EXCEPT ![p] = "fan"]
    BY DEF write_home_timeline, IInv, TypeOK
<1>3. all \in Seq(Users) /\ Len(all) \in Nat \ {0}
    <2>1. table[<<"followers", Author[p]>>].list \in Seq(Users)
        BY RequestsAssumption DEF IInv, TypeOK
    <2>2. Mentions[p] \in Seq(Users) /\ Mentions[p] # << >>
        BY RequestsAssumption
    <2>3. Len(Mentions[p]) \in Nat \ {0}
        BY <2>2, EmptySeq, LenProperties
    <2> DEFINE a == table[<<"followers", Author[p]>>].list
               m == Mentions[p]
    <2>4. a \in Seq(Users) /\ Len(a) \in Nat
        BY <2>1, LenProperties
    <2> HIDE DEF a, m
    <2>5. m \in Seq(Users) /\ Len(m) \in Nat \ {0}
        BY <2>2, <2>3 DEF m
    <2>6. a \o m \in Seq(Users) /\ Len(a \o m) = Len(a) + Len(m)
        BY <2>4, <2>5, ConcatProperties
    <2>7. Len(a \o m) \in Nat \ {0}
        BY <2>4, <2>5, <2>6
    <2> QED BY <2>6, <2>7 DEF a, m
<1> HIDE DEF all
<1>4. TypeOK'
    BY <1>2, <1>3 DEF IInv, TypeOK, Pcs
<1>5. Places'
    <2>1. \A q \in Requests : pc'[q] = IF q # p THEN pc[q] ELSE "fan"
        BY <1>2
    <2>2. \A q \in Posts : q # p => audience'[q] = audience[q] /\ left'[q] = left[q]
        BY <1>2 DEF IInv, TypeOK
    <2>3. audience'[p] = all /\ left'[p] = Len(all) /\ left'[p] \in 1 .. Len(audience'[p])
        BY <1>2, <1>3 DEF IInv, TypeOK
    <2>4. p \in stored
        BY <1>2 DEF IInv, Places
    <2> QED BY <1>1, <1>2, <2>1, <2>2, <2>3, <2>4 DEF IInv, Places, Requests, Followees
<1>6. SnapInv'
    <2>1. \A q \in Requests \ {p} : SameFor(q)
        BY <1>2 DEF SameFor, IInv, TypeOK
    <2> QED BY <1>1, <1>2, <2>1, QuietSnaps
<1> QED BY <1>2, <1>4, <1>5, <1>6, QuietLists DEF IInv

(* IInv across Get: the entry and its version are read for an update. *)
LEMMA GetInv ==
    ASSUME IInv, NEW r \in Requests, Get(r)
    PROVE  IInv'
<1>1. Looping(r) /\ Key(r) \in Keys
    BY LoopFacts DEF Get
<1>2. /\ UNCHANGED <<table, stored, pc, audience, left>> /\ got' = got \cup {r}
      /\ snap' = [snap EXCEPT ![r] = table[Key(r)]] /\ snap \in [Requests -> Entries]
    BY DEF Get, IInv, TypeOK
<1>3. TypeOK'
    BY <1>1, <1>2 DEF IInv, TypeOK
<1>4. Places'
    BY <1>2 DEF IInv, Places, Followees
<1>5. SnapInv'
    <2>1. \A q \in got : q \in Requests /\ (q # r => snap'[q] = snap[q])
        BY <1>2 DEF IInv, TypeOK
    <2>2. snap'[r] = table[Key(r)]
        BY <1>2
    <2>3. \A q \in Requests : Looping(q)' = Looping(q) /\ Key(q)' = Key(q)
        BY <1>2 DEF Looping, Key, Reader
    <2> QED BY <1>1, <1>2, <2>1, <2>2, <2>3 DEF IInv, SnapInv, Accepts
<1> QED BY <1>2, <1>3, <1>4, <1>5, QuietLists DEF IInv

(* IInv across Abort: the version moved on, and the request reads again. *)
LEMMA AbortInv ==
    ASSUME IInv, NEW r \in Requests, Abort(r)
    PROVE  IInv'
<1>1. /\ UNCHANGED <<table, stored, pc, audience, left>> /\ got' = got \ {r}
      /\ snap' = [snap EXCEPT ![r] = Absent] /\ snap \in [Requests -> Entries]
    BY DEF Abort, IInv, TypeOK
<1>2. TypeOK'
    BY <1>1 DEF IInv, TypeOK, Absent, Entries
<1>3. Places'
    BY <1>1 DEF IInv, Places, Followees
<1>4. SnapInv'
    <2>1. \A q \in got' : q \in got /\ q \in Requests /\ snap'[q] = snap[q]
        BY <1>1 DEF IInv, TypeOK
    <2>2. \A q \in Requests : Looping(q)' = Looping(q) /\ Key(q)' = Key(q)
        BY <1>1 DEF Looping, Key, Reader
    <2> QED BY <1>1, <2>1, <2>2 DEF IInv, SnapInv, Accepts
<1> QED BY <1>1, <1>2, <1>3, <1>4, QuietLists DEF IInv

(* The invariant is inductive: every step of the timelines keeps it. *)
LEMMA NextInv == IInv /\ [Next]_vars => IInv'
<1> SUFFICES ASSUME IInv, [Next]_vars PROVE IInv'
    OBVIOUS
<1>1. CASE Next
    <2>1. PICK r \in Requests : Step(r)
        BY <1>1 DEF Next
    <2> QED BY <2>1, BeginInv, GetInv, AbortInv, SetInv, StorePostInv, WriteHomeTimelineInv
            DEF Step
<1>2. CASE UNCHANGED vars
    BY <1>2 DEF vars, IInv, TypeOK, Places, SnapInv, StoredFirst, FollowersFollow,
                Looping, Key, Reader, Accepts, Timeline, Followers, Followees
<1> QED BY <1>1, <1>2

-----------------------------------------------------------------------------
(* The inductive invariant holds for any number of users, requests and     *)
(* versions.                                                               *)
THEOREM Invariance == Spec => []IInv
<1> QED BY InitInv, NextInv, PTL DEF Spec

(* The type invariant.                                                     *)
THEOREM TypeCorrect == Spec => []TypeOK
<1>1. IInv => TypeOK
    BY DEF IInv
<1> QED BY <1>1, Invariance, PTL

(* A post in a timeline can be read from the post storage.                 *)
THEOREM PostsAreStored == Spec => []StoredFirst
<1>1. IInv => StoredFirst
    BY DEF IInv
<1> QED BY <1>1, Invariance, PTL

(* Whoever is listed as a follower follows.                                *)
THEOREM FollowersDoFollow == Spec => []FollowersFollow
<1>1. IInv => FollowersFollow
    BY DEF IInv
<1> QED BY <1>1, Invariance, PTL

(* The optimistic loops lose no update of any list.                        *)
THEOREM UpdatesStay == Spec => NothingLost
<1>1. IInv /\ [Next]_vars =>
        [\A k \in Keys : ToSet(table[k].list) \subseteq ToSet(table'[k].list)]_vars
    <2> SUFFICES ASSUME IInv, Next
                 PROVE  \A k \in Keys : ToSet(table[k].list) \subseteq ToSet(table'[k].list)
        OBVIOUS
    <2>1. PICK r \in Requests : Step(r)
        BY DEF Next
    <2>2. CASE Set(r)
        BY <2>2, SetGrows
    <2>3. CASE ~Set(r)
        <3>1. UNCHANGED table
            BY <2>1, <2>3 DEF Step, Begin, Get, Abort, store_post, write_home_timeline
        <3> QED BY <3>1
    <2> QED BY <2>2, <2>3
<1> QED BY <1>1, Invariance, PTL DEF Spec, NothingLost
-----------------------------------------------------------------------------
(* A sequence has finitely many places, so occurrences can be counted.     *)
LEMMA TimesType ==
    ASSUME NEW S, NEW s \in Seq(S), NEW x
    PROVE  /\ IsFiniteSet({i \in DOMAIN s : s[i] = x})
           /\ Times(x, s) \in Nat
<1>1. Len(s) \in Nat /\ DOMAIN s = 1 .. Len(s)
    BY LenProperties
<1>2. IsFiniteSet(1 .. Len(s))
    BY <1>1, FS_Interval
<1> DEFINE at == {i \in 1 .. Len(s) : s[i] = x}
<1>3. at \in SUBSET (1 .. Len(s))
    OBVIOUS
<1>4. IsFiniteSet(at)
    BY <1>2, <1>3, FS_Subset
<1> QED BY <1>1, <1>4, FS_CardinalityType DEF Times

(* Appending an element adds one occurrence, of that element.              *)
LEMMA TimesAppend ==
    ASSUME NEW S, NEW s \in Seq(S), NEW e \in S, NEW x
    PROVE  Times(x, Append(s, e)) = Times(x, s) + IF x = e THEN 1 ELSE 0
<1> DEFINE t == Append(s, e)
           was == {i \in DOMAIN s : s[i] = x}
           is == {i \in DOMAIN t : t[i] = x}
<1>1. /\ Len(s) \in Nat /\ DOMAIN s = 1 .. Len(s) /\ DOMAIN t = 1 .. Len(s) + 1
      /\ \A i \in 1 .. Len(s) : t[i] = s[i]
      /\ t[Len(s) + 1] = e
    OBVIOUS
<1>2. IsFiniteSet(was) /\ Cardinality(was) \in Nat
    BY TimesType DEF Times
<1> HIDE DEF t
<1>3. CASE x = e
    <2>1. is = was \cup {Len(s) + 1} /\ Len(s) + 1 \notin was
        BY <1>1, <1>3
    <2> HIDE DEF was, is
    <2>2. Cardinality(is) = Cardinality(was) + 1
        BY <1>2, <2>1, FS_AddElement
    <2> QED BY <1>3, <2>2 DEF Times, was, is, t
<1>4. CASE x # e
    <2>1. is = was
        BY <1>1, <1>4
    <2> HIDE DEF was, is
    <2>2. Cardinality(is) = Cardinality(was) + 0
        BY <1>2, <2>1
    <2> QED BY <1>4, <2>2 DEF Times, was, is, t
<1> QED BY <1>3, <1>4

(* Inserting an element adds one occurrence, wherever it is inserted: the  *)
(* places behind it move by one.                                           *)
LEMMA TimesInsert ==
    ASSUME NEW S, NEW s \in Seq(S), NEW e \in S, NEW n \in 1 .. Len(s) + 1, NEW x
    PROVE  Times(x, InsertAt(s, n, e)) = Times(x, s) + IF x = e THEN 1 ELSE 0
<1> DEFINE t == InsertAt(s, n, e)
           was == {i \in DOMAIN s : s[i] = x}
           is == {i \in DOMAIN t : t[i] = x}
           moved == is \ {n}
           to == [i \in was |-> IF i < n THEN i ELSE i + 1]
<1>1. /\ Len(s) \in Nat /\ DOMAIN s = 1 .. Len(s) /\ DOMAIN t = 1 .. Len(s) + 1
      /\ \A i \in 1 .. Len(s) + 1 :
            t[i] = IF i < n THEN s[i] ELSE IF i = n THEN e ELSE s[i - 1]
    BY InsertIndexed
<1>2. IsFiniteSet(was) /\ Cardinality(was) \in Nat
    BY TimesType DEF Times
<1> HIDE DEF t
<1>3. was \subseteq Int /\ n \in Int
    BY <1>1
<1>4. Cardinality(moved) = Cardinality(was) /\ IsFiniteSet(moved)
    <2>1. to \in [was -> moved]
        <3> SUFFICES ASSUME NEW i \in was PROVE (IF i < n THEN i ELSE i + 1) \in moved
            OBVIOUS
        <3>1. CASE i < n
            BY <1>1, <3>1
        <3>2. CASE ~(i < n)
            BY <1>1, <3>2
        <3> QED BY <3>1, <3>2
    <2>2. \A i, j \in was : to[i] = to[j] => i = j
        BY <1>3
    <2>3. ASSUME NEW j \in moved PROVE \E i \in was : to[i] = j
        <3>1. CASE j < n
            <4>1. j \in was
                BY <1>1, <3>1
            <4> QED BY <3>1, <4>1
        <3>2. CASE ~(j < n)
            <4>1. j - 1 \in was /\ ~(j - 1 < n) /\ j - 1 + 1 = j
                BY <1>1, <3>2
            <4> QED BY <4>1
        <3> QED BY <3>1, <3>2
    <2> HIDE DEF to, was, moved
    <2>4. to \in Bijection(was, moved)
        BY <2>1, <2>2, <2>3 DEF Bijection, Injection, Surjection, IsInjective
    <2> QED BY <1>2, <2>4, FS_Bijection DEF ExistsBijection
<1>5. CASE x = e
    <2>1. is = moved \cup {n} /\ n \notin moved
        BY <1>1, <1>5
    <2> HIDE DEF was, is, moved
    <2>2. Cardinality(is) = Cardinality(was) + 1
        BY <1>4, <2>1, FS_AddElement
    <2> QED BY <1>5, <2>2 DEF Times, was, is, t
<1>6. CASE x # e
    <2>1. is = moved
        BY <1>1, <1>6
    <2> HIDE DEF was, is, moved
    <2>2. Cardinality(is) = Cardinality(was) + 0
        BY <1>2, <1>4, <2>1
    <2> QED BY <1>6, <2>2 DEF Times, was, is, t
<1> QED BY <1>5, <1>6

-----------------------------------------------------------------------------
(* The timelines that p has been written to since it was begun.            *)
OwnWritten(p, u) == IF u = Author[p] /\ pc[p] \in {"home", "fan", "done"} THEN 1 ELSE 0
FanWritten(p, u) == {i \in 1 .. Len(audience[p]) - left[p] : audience[p][i] = u}

(* The requests that have made w a follower of u.                          *)
Followed(u, w) == {f \in Follows : pc[f] = "done" /\ Follower[f] = w /\ Followee[f] = u}

(* Every occurrence in a list is of a write that has been done.            *)
CountInv ==
    /\ \A p \in Posts :
          /\ pc[p] \notin {"fan", "done"} => audience[p] = << >> /\ left[p] = 0
          /\ pc[p] = "done" => left[p] = 0
          /\ \A u \in Users : Times(p, Timeline(u)) =
                                Cardinality(FanWritten(p, u)) + OwnWritten(p, u)
    /\ \A u, w \in Users : /\ IsFiniteSet(Followed(u, w))
                            /\ Times(w, Followers(u)) = Cardinality(Followed(u, w))

(* Nothing is written before anything is asked.                            *)
LEMMA InitCount == Init => CountInv
<1> SUFFICES ASSUME Init PROVE CountInv
    OBVIOUS
<1>1. IsFiniteSet({}) /\ Cardinality({}) = 0
    BY FS_EmptySet
<1>2. \A x : Times(x, << >>) = 0
    <2>1. \A x : {i \in DOMAIN << >> : << >>[i] = x} = {}
        OBVIOUS
    <2> QED BY <1>1, <2>1 DEF Times
<1>3. \A u \in Users : Timeline(u) = << >> /\ Followers(u) = << >>
    BY DEF Init, Timeline, Followers, Keys, Absent
<1>4. \A p \in Posts : pc[p] = "new" /\ audience[p] = << >> /\ left[p] = 0
    BY DEF Init, Requests
<1>5. \A p \in Posts, u \in Users : FanWritten(p, u) = {} /\ OwnWritten(p, u) = 0
    BY <1>4 DEF FanWritten, OwnWritten
<1>6. \A u, w \in Users : Followed(u, w) = {}
    BY DEF Init, Followed, Requests
<1>7. \A p \in Posts, u \in Users :
         Times(p, Timeline(u)) = Cardinality(FanWritten(p, u)) + OwnWritten(p, u)
    BY <1>1, <1>2, <1>3, <1>5
<1>8. \A u, w \in Users : /\ IsFiniteSet(Followed(u, w))
                          /\ Times(w, Followers(u)) = Cardinality(Followed(u, w))
    BY <1>1, <1>2, <1>3, <1>6
<1> QED BY <1>4, <1>7, <1>8 DEF CountInv

(* A step that leaves the lists alone and lets nobody into or out of       *)
(* write_home_timeline and the last loop of follow.                        *)
LEMMA QuietCount ==
    ASSUME IInv, CountInv, UNCHANGED <<table, audience, left>>,
           \A r \in Requests :
              \/ pc'[r] = pc[r]
              \/ pc[r] \notin {"home", "fan", "done"} /\ pc'[r] \notin {"home", "fan", "done"}
    PROVE  CountInv'
<1>1. \A p \in Posts, u \in Users : /\ FanWritten(p, u)' = FanWritten(p, u)
                                    /\ OwnWritten(p, u)' = OwnWritten(p, u)
                                    /\ Timeline(u)' = Timeline(u)
    BY DEF FanWritten, OwnWritten, Timeline, Requests
<1>2. \A u, w \in Users : /\ Followed(u, w)' = Followed(u, w)
                          /\ Followers(u)' = Followers(u)
    BY DEF Followed, Followers, Requests
<1>3. \A p \in Posts : /\ pc'[p] \notin {"fan", "done"} => pc[p] \notin {"fan", "done"}
                       /\ pc'[p] = "done" => pc[p] = "done"
    BY DEF Requests
<1> QED BY <1>1, <1>2, <1>3 DEF CountInv

(* write_home_timeline has an audience, none of whom it has written to.    *)
LEMMA WriteHomeTimelineCount ==
    ASSUME IInv, CountInv, NEW p \in Posts, write_home_timeline(p)
    PROVE  CountInv'
<1> DEFINE all == table[<<"followers", Author[p]>>].list \o Mentions[p]
<1>1. /\ table' = table /\ pc[p] = "home"
      /\ pc' = [pc EXCEPT ![p] = "fan"]
      /\ audience' = [audience EXCEPT ![p] = all]
      /\ left' = [left EXCEPT ![p] = Len(all)]
    BY DEF write_home_timeline
<1> HIDE DEF all
<1>2. /\ pc \in [Requests -> Pcs] /\ audience \in [Posts -> Seq(Users)]
      /\ left \in [Posts -> Nat] /\ p \in Requests /\ p \notin Follows
    BY RequestsAssumption DEF IInv, TypeOK, Requests
<1>3. audience'[p] = all /\ left'[p] = Len(all) /\ Len(all) \in Nat
    <2>1. left' \in [Posts -> Nat]
        BY WriteHomeTimelineInv DEF IInv, TypeOK
    <2> QED BY <1>1, <1>2, <2>1
<1>4. \A o \in Posts \ {p} : /\ pc'[o] = pc[o] /\ audience'[o] = audience[o]
                             /\ left'[o] = left[o]
    BY <1>1, <1>2 DEF Requests
<1>5. \A u \in Users : /\ FanWritten(p, u)' = {} /\ FanWritten(p, u) = {}
                       /\ OwnWritten(p, u)' = OwnWritten(p, u)
    <2>1. Len(all) - Len(all) = 0 /\ pc'[p] = "fan"
        BY <1>1, <1>2, <1>3
    <2>2. audience[p] = << >> /\ left[p] = 0
        BY <1>1 DEF CountInv
    <2> QED BY <1>1, <1>3, <2>1, <2>2 DEF FanWritten, OwnWritten
<1>6. \A o \in Posts \ {p}, u \in Users : /\ FanWritten(o, u)' = FanWritten(o, u)
                                         /\ OwnWritten(o, u)' = OwnWritten(o, u)
    BY <1>4 DEF FanWritten, OwnWritten
<1>7. \A u, w \in Users : Followed(u, w)' = Followed(u, w)
    BY <1>1, <1>2 DEF Followed, Requests
<1>8. \A u \in Users : Timeline(u)' = Timeline(u) /\ Followers(u)' = Followers(u)
    BY <1>1 DEF Timeline, Followers
<1>9. \A o \in Posts : /\ pc'[o] \notin {"fan", "done"} => audience'[o] = << >> /\ left'[o] = 0
                       /\ pc'[o] = "done" => left'[o] = 0
    BY <1>1, <1>2, <1>4 DEF CountInv
<1>10. \A o \in Posts, u \in Users : /\ FanWritten(o, u)' = FanWritten(o, u)
                                     /\ OwnWritten(o, u)' = OwnWritten(o, u)
    <2>1. \A u \in Users : FanWritten(p, u)' = FanWritten(p, u)
        BY <1>5
    <2> QED BY <1>5, <1>6, <2>1
<1>11. \A o \in Posts, u \in Users :
          Times(o, Timeline(u)') = Cardinality(FanWritten(o, u)') + OwnWritten(o, u)'
    BY <1>8, <1>10 DEF CountInv
<1>12. \A u, w \in Users : /\ IsFiniteSet(Followed(u, w)')
                           /\ Times(w, Followers(u)') = Cardinality(Followed(u, w)')
    BY <1>7, <1>8 DEF CountInv
<1> QED BY <1>9, <1>11, <1>12 DEF CountInv

(* A timeline gains the post that is written to it, and nothing else.      *)
LEMMA SetPostCount ==
    ASSUME IInv, CountInv, NEW r \in Posts, Set(r)
    PROVE  CountInv'
<1>1. /\ pc[r] \in {"own", "fan"} /\ r \in Requests /\ r \notin Follows
      /\ \A k \in Keys : k # Key(r) => table'[k] = table[k]
      /\ table'[Key(r)].list = Updated(r, table[Key(r)].list)
    BY SetFacts, RequestsAssumption DEF Looping, IInv, Places, Requests
<1>2. Key(r) = <<"timeline", Reader(r)>> /\ Key(r) \in Keys
    BY <1>1, LoopFacts DEF Key, Looping
<1>3. Reader(r) \in Users /\ table'[Key(r)].list = push_sorted(Timeline(Reader(r)), r)
    BY <1>1, <1>2 DEF Keys, Updated, Timeline
<1>4. \A u \in Users, p \in Posts :
         Times(p, Timeline(u)') =
            Times(p, Timeline(u)) + IF u = Reader(r) /\ p = r THEN 1 ELSE 0
    <2> SUFFICES ASSUME NEW u \in Users, NEW p \in Posts
                 PROVE  Times(p, Timeline(u)') =
                          Times(p, Timeline(u)) + IF u = Reader(r) /\ p = r THEN 1 ELSE 0
        OBVIOUS
    <2>1. Timeline(u) \in Seq(Posts) /\ Times(p, Timeline(u)) \in Nat
        BY TimesType DEF IInv, TypeOK, Timeline
    <2>2. CASE u = Reader(r)
        <3>1. Timeline(u)' = InsertAt(Timeline(u), Position(Timeline(u), r) + 1, r)
            BY <1>2, <1>3, <2>2 DEF Timeline, push_sorted
        <3>2. Position(Timeline(u), r) + 1 \in 1 .. Len(Timeline(u)) + 1
            BY <2>1, PositionFacts
        <3> QED BY <2>1, <2>2, <3>1, <3>2, TimesInsert
    <2>3. CASE u # Reader(r)
        <3>1. <<"timeline", u>> \in Keys /\ <<"timeline", u>> # Key(r)
            BY <1>2, <2>3 DEF Keys
        <3>2. Timeline(u)' = Timeline(u)
            BY <1>1, <3>1 DEF Timeline
        <3> QED BY <2>1, <2>3, <3>2
    <2> QED BY <2>2, <2>3
<1>5. \A u \in Users : Followers(u)' = Followers(u)
    <2>1. \A u \in Users : <<"followers", u>> \in Keys /\ <<"followers", u>> # Key(r)
        BY <1>2 DEF Keys
    <2> QED BY <1>1, <2>1 DEF Followers
<1>6. /\ pc' = [pc EXCEPT ![r] = NextPc(r)] /\ audience' = audience
      /\ left' = IF pc[r] = "fan" THEN [left EXCEPT ![r] = @ - 1] ELSE left
      /\ pc \in [Requests -> Pcs] /\ left \in [Posts -> Nat] /\ audience \in [Posts -> Seq(Users)]
    BY DEF Set, IInv, TypeOK
<1>7. \A u, w \in Users : Followed(u, w)' = Followed(u, w)
    BY <1>1, <1>6 DEF Followed, Requests
<1>8. \A p \in Posts \ {r} : pc'[p] = pc[p] /\ audience'[p] = audience[p] /\ left'[p] = left[p]
    BY <1>6 DEF Requests
<1>9. \A p \in Posts \ {r}, u \in Users : /\ FanWritten(p, u)' = FanWritten(p, u)
                                         /\ OwnWritten(p, u)' = OwnWritten(p, u)
    BY <1>8 DEF FanWritten, OwnWritten
<1>10. \A p \in Posts, u \in Users :
          Cardinality(FanWritten(p, u)) \in Nat /\ IsFiniteSet(FanWritten(p, u))
    <2> SUFFICES ASSUME NEW p \in Posts, NEW u \in Users
                 PROVE  Cardinality(FanWritten(p, u)) \in Nat /\ IsFiniteSet(FanWritten(p, u))
        OBVIOUS
    <2>1. Len(audience[p]) - left[p] \in Int
        BY <1>6
    <2>2. IsFiniteSet(1 .. Len(audience[p]) - left[p])
        BY <2>1, FS_Interval
    <2>3. FanWritten(p, u) \in SUBSET (1 .. Len(audience[p]) - left[p])
        BY DEF FanWritten
    <2> QED BY <2>2, <2>3, FS_Subset, FS_CardinalityType
<1>11. \A u \in Users :
          Cardinality(FanWritten(r, u)') + OwnWritten(r, u)' =
             Cardinality(FanWritten(r, u)) + OwnWritten(r, u) + IF u = Reader(r) THEN 1 ELSE 0
    <2> SUFFICES ASSUME NEW u \in Users
                 PROVE  Cardinality(FanWritten(r, u)') + OwnWritten(r, u)' =
                           Cardinality(FanWritten(r, u)) + OwnWritten(r, u)
                              + IF u = Reader(r) THEN 1 ELSE 0
        OBVIOUS
    <2>1. CASE pc[r] = "own"
        <3>1. pc'[r] = "home" /\ left' = left /\ Reader(r) = Author[r]
            BY <1>1, <1>6, <2>1 DEF NextPc, Reader
        <3>2. FanWritten(r, u)' = FanWritten(r, u)
            BY <1>6, <3>1 DEF FanWritten
        <3>3. OwnWritten(r, u) = 0 /\ OwnWritten(r, u)' = IF u = Reader(r) THEN 1 ELSE 0
            BY <2>1, <3>1 DEF OwnWritten
        <3> QED BY <1>10, <3>2, <3>3
    <2>2. CASE pc[r] = "fan"
        <3> DEFINE n == Len(audience[r]) - left[r]
        <3>1. left[r] \in 1 .. Len(audience[r]) /\ Len(audience[r]) \in Nat
            BY <1>6, <2>2 DEF IInv, Places
        <3>2. left'[r] = left[r] - 1 /\ pc'[r] \in {"fan", "done"}
            BY <1>1, <1>6, <2>2 DEF NextPc
        <3>3. n \in Nat /\ Len(audience'[r]) - left'[r] = n + 1 /\ Reader(r) = audience[r][n + 1]
            BY <1>6, <2>2, <3>1, <3>2 DEF Reader
        <3> HIDE DEF n
        <3>4. OwnWritten(r, u)' = OwnWritten(r, u) /\ OwnWritten(r, u) \in Nat
            BY <2>2, <3>2 DEF OwnWritten
        <3>5. /\ FanWritten(r, u)' = {i \in 1 .. n + 1 : audience[r][i] = u}
              /\ FanWritten(r, u) = {i \in 1 .. n : audience[r][i] = u}
            BY <1>6, <3>3 DEF FanWritten, n
        <3>6. CASE u = Reader(r)
            <4>1. FanWritten(r, u)' = FanWritten(r, u) \cup {n + 1} /\ n + 1 \notin FanWritten(r, u)
                BY <3>3, <3>5, <3>6
            <4>2. Cardinality(FanWritten(r, u)') = Cardinality(FanWritten(r, u)) + 1
                BY <1>10, <4>1, FS_AddElement
            <4> QED BY <1>10, <3>4, <3>6, <4>2
        <3>7. CASE u # Reader(r)
            <4>1. FanWritten(r, u)' = FanWritten(r, u)
                BY <3>3, <3>5, <3>7
            <4> QED BY <1>10, <3>4, <3>7, <4>1
        <3> QED BY <3>6, <3>7
    <2> QED BY <1>1, <2>1, <2>2
<1>12. \A p \in Posts : /\ pc'[p] \notin {"fan", "done"} => audience'[p] = << >> /\ left'[p] = 0
                        /\ pc'[p] = "done" => left'[p] = 0
    <2>1. CASE pc[r] = "own"
        <3>1. pc'[r] = "home" /\ left' = left
            BY <1>1, <1>6, <2>1 DEF NextPc
        <3> QED BY <1>6, <1>8, <2>1, <3>1 DEF CountInv
    <2>2. CASE pc[r] = "fan"
        <3>1. /\ pc'[r] = IF left[r] = 1 THEN "done" ELSE "fan"
              /\ left'[r] = left[r] - 1
            BY <1>1, <1>6, <2>2 DEF NextPc
        <3> QED BY <1>6, <1>8, <3>1 DEF CountInv
    <2> QED BY <1>1, <2>1, <2>2
<1>13. ASSUME NEW p \in Posts, NEW u \in Users
       PROVE  Times(p, Timeline(u)') = Cardinality(FanWritten(p, u)') + OwnWritten(p, u)'
    <2>1. Times(p, Timeline(u)) = Cardinality(FanWritten(p, u)) + OwnWritten(p, u)
        BY DEF CountInv
    <2>2. CASE p = r
        BY <1>4, <1>10, <1>11, <2>1, <2>2 DEF OwnWritten
    <2>3. CASE p # r
        BY <1>4, <1>9, <1>10, <2>1, <2>3 DEF OwnWritten
    <2> QED BY <2>2, <2>3
<1> QED BY <1>5, <1>7, <1>12, <1>13 DEF CountInv

(* The followers of a user gain who asked to follow him, and nobody else.  *)
LEMMA SetFollowCount ==
    ASSUME IInv, CountInv, NEW r \in Follows, Set(r)
    PROVE  CountInv'
<1>1. /\ pc[r] \in {"followees", "followers"} /\ r \in Requests /\ r \notin Posts
      /\ \A k \in Keys : k # Key(r) => table'[k] = table[k]
      /\ table'[Key(r)].list = Updated(r, table[Key(r)].list)
    BY SetFacts, RequestsAssumption DEF Looping, IInv, Places, Requests
<1>2. /\ pc' = [pc EXCEPT ![r] = NextPc(r)] /\ audience' = audience /\ left' = left
      /\ pc \in [Requests -> Pcs]
    BY <1>1 DEF Set, IInv, TypeOK
<1>3. Follower[r] \in Users /\ Followee[r] \in Users
    BY RequestsAssumption
<1>4. \A u \in Users : Timeline(u)' = Timeline(u)
    <2>1. \A u \in Users : <<"timeline", u>> \in Keys /\ <<"timeline", u>> # Key(r)
        BY <1>1 DEF Keys, Key
    <2> QED BY <1>1, <2>1 DEF Timeline
<1>5. \A p \in Posts, u \in Users : pc'[p] = pc[p] /\ FanWritten(p, u)' = FanWritten(p, u)
                                    /\ OwnWritten(p, u)' = OwnWritten(p, u)
    BY <1>1, <1>2 DEF FanWritten, OwnWritten, Requests
<1>6. \A p \in Posts : pc'[p] = pc[p]
    BY <1>1, <1>2 DEF Requests
<1>7. CASE pc[r] = "followees"
    <2>1. \A u \in Users : Followers(u)' = Followers(u)
        <3>1. \A u \in Users : <<"followers", u>> \in Keys /\ <<"followers", u>> # Key(r)
            BY <1>7 DEF Keys, Key
        <3> QED BY <1>1, <3>1 DEF Followers
    <2>2. pc'[r] = "followers"
        BY <1>1, <1>2, <1>7 DEF NextPc
    <2>3. \A u, w \in Users : Followed(u, w)' = Followed(u, w)
        BY <1>2, <1>7, <2>2 DEF Followed, Requests
    <2> QED BY <1>2, <1>4, <1>5, <1>6, <2>1, <2>3 DEF CountInv
<1>8. CASE pc[r] = "followers"
    <2>1. Key(r) = <<"followers", Followee[r]>> /\ pc'[r] = "done" /\ Key(r) \in Keys
        BY <1>1, <1>2, <1>3, <1>8 DEF NextPc, Key, Keys
    <2>2. Followers(Followee[r])' = Append(Followers(Followee[r]), Follower[r])
        BY <1>1, <1>8, <2>1 DEF Followers, Updated
    <2>3. \A u \in Users \ {Followee[r]} : Followers(u)' = Followers(u)
        <3>1. \A u \in Users \ {Followee[r]} :
                 <<"followers", u>> \in Keys /\ <<"followers", u>> # Key(r)
            BY <2>1 DEF Keys
        <3> QED BY <1>1, <3>1 DEF Followers
    <2>4. ASSUME NEW u \in Users, NEW w \in Users
          PROVE  /\ IsFiniteSet(Followed(u, w)')
                 /\ Times(w, Followers(u)') = Cardinality(Followed(u, w)')
        <3>1. IsFiniteSet(Followed(u, w)) /\ Times(w, Followers(u)) = Cardinality(Followed(u, w))
            BY DEF CountInv
        <3>2. Followers(u) \in Seq(Users) /\ Times(w, Followers(u)) \in Nat
            BY TimesType DEF IInv, TypeOK, Followers
        <3>3. \A f \in Follows \ {r} : pc'[f] = pc[f]
            BY <1>2 DEF Requests
        <3>4. CASE u = Followee[r] /\ w = Follower[r]
            <4>1. Followed(u, w)' = Followed(u, w) \cup {r} /\ r \notin Followed(u, w)
                BY <1>8, <2>1, <3>3, <3>4 DEF Followed
            <4>2. /\ IsFiniteSet(Followed(u, w)')
                  /\ Cardinality(Followed(u, w)') = Cardinality(Followed(u, w)) + 1
                BY <3>1, <4>1, FS_AddElement
            <4>3. Times(w, Followers(u)') = Times(w, Followers(u)) + 1
                <5>1. Followers(u)' = Append(Followers(u), w)
                    BY <2>2, <3>4
                <5>2. Times(w, Append(Followers(u), w)) = Times(w, Followers(u)) + 1
                    BY <3>2, TimesAppend
                <5> QED BY <5>1, <5>2
            <4> QED BY <3>1, <4>2, <4>3
        <3>5. CASE ~(u = Followee[r] /\ w = Follower[r])
            <4>1. Followed(u, w)' = Followed(u, w)
                BY <3>3, <3>5, <1>8 DEF Followed
            <4>2. Times(w, Followers(u)') = Times(w, Followers(u))
                <5>1. CASE u = Followee[r]
                    <6>1. Times(w, Append(Followers(u), Follower[r])) = Times(w, Followers(u)) + 0
                        BY <1>3, <3>2, <3>5, <5>1, TimesAppend
                    <6>2. Followers(u)' = Append(Followers(u), Follower[r])
                        BY <2>2, <5>1 DEF Followers
                    <6> QED BY <3>2, <6>1, <6>2
                <5>2. CASE u # Followee[r]
                    BY <2>3, <5>2
                <5> QED BY <5>1, <5>2
            <4> QED BY <3>1, <4>1, <4>2
        <3> QED BY <3>4, <3>5
    <2> QED BY <1>2, <1>4, <1>5, <1>6, <2>4 DEF CountInv
<1> QED BY <1>1, <1>7, <1>8

(* Every step adds to a list exactly what it has then done.                *)
LEMMA NextCount == IInv /\ CountInv /\ [Next]_vars => CountInv'
<1> SUFFICES ASSUME IInv, CountInv, [Next]_vars PROVE CountInv'
    OBVIOUS
<1>1. ASSUME NEW r \in Requests, Begin(r) \/ Get(r) \/ Abort(r) PROVE CountInv'
    <2>1. /\ UNCHANGED <<table, audience, left>>
          /\ \A q \in Requests :
                \/ pc'[q] = pc[q]
                \/ /\ pc[q] \notin {"home", "fan", "done"}
                   /\ pc'[q] \notin {"home", "fan", "done"}
        BY <1>1 DEF Begin, Get, Abort, IInv, TypeOK
    <2> QED BY <2>1, QuietCount
<1>2. ASSUME NEW p \in Posts, store_post(p) PROVE CountInv'
    <2>1. /\ UNCHANGED <<table, audience, left>>
          /\ \A q \in Requests :
                \/ pc'[q] = pc[q]
                \/ /\ pc[q] \notin {"home", "fan", "done"}
                   /\ pc'[q] \notin {"home", "fan", "done"}
        BY <1>2 DEF store_post, IInv, TypeOK
    <2> QED BY <2>1, QuietCount
<1>3. CASE Next
    <2>1. PICK r \in Requests : Step(r)
        BY <1>3 DEF Next
    <2>2. CASE Set(r)
        BY <2>2, SetPostCount, SetFollowCount DEF Requests
    <2> QED BY <1>1, <1>2, <2>1, <2>2, WriteHomeTimelineCount DEF Step
<1>4. CASE UNCHANGED vars
    BY <1>4, QuietCount DEF vars
<1> QED BY <1>3, <1>4

(* A request that was answered has done what it says exactly as often as   *)
(* asked (write_home_timeline's tally, the loops of follow and             *)
(* write_user_timeline), for any number of concurrent requests.            *)
THEOREM DeliveredAsAsked == Spec => []DeliveredExactly
<1>1. CountInv /\ IInv => DeliveredExactly
    <2> SUFFICES ASSUME CountInv, IInv PROVE DeliveredExactly
        OBVIOUS
    <2>1. ASSUME NEW p \in Posts, pc[p] = "done", NEW u \in Users
          PROVE  Times(p, Timeline(u)) =
                    Times(u, audience[p]) + (IF u = Author[p] THEN 1 ELSE 0)
        <3>1. left[p] = 0 /\ Len(audience[p]) \in Nat /\ DOMAIN audience[p] = 1 .. Len(audience[p])
            BY <2>1 DEF CountInv, IInv, TypeOK
        <3>2. FanWritten(p, u) = {i \in DOMAIN audience[p] : audience[p][i] = u}
            BY <3>1 DEF FanWritten
        <3>3. OwnWritten(p, u) = IF u = Author[p] THEN 1 ELSE 0
            BY <2>1 DEF OwnWritten
        <3> QED BY <3>2, <3>3 DEF CountInv, Times
    <2>2. ASSUME \A f \in Follows : pc[f] = "done", NEW u \in Users, NEW w \in Users
          PROVE  Times(w, Followers(u)) =
                    Cardinality({f \in Follows : Follower[f] = w /\ Followee[f] = u})
        <3>1. Followed(u, w) = {f \in Follows : Follower[f] = w /\ Followee[f] = u}
            BY <2>2 DEF Followed
        <3> QED BY <3>1 DEF CountInv
    <2> QED BY <2>1, <2>2 DEF DeliveredExactly
<1>2. Init => CountInv
    BY InitCount
<1>3. IInv /\ CountInv /\ [Next]_vars => CountInv'
    BY NextCount
<1> QED BY <1>1, <1>2, <1>3, Invariance, PTL DEF Spec

-----------------------------------------------------------------------------
(* The search of push_sorted, on lists of any length.                      *)

(* The equation that defines Halvings has a solution: what no set that is  *)
(* closed under halving can leave out.                                     *)
LEMMA HalvingsStep ==
    \A n \in Nat : Halvings[n] = IF n = 0 THEN {} ELSE {n} \cup Halvings[n \div 2]
<1> DEFINE Closed(n, S) == n \in S /\ \A s \in S : s \div 2 \in S
           least == [n \in Nat |->
                        {r \in 1 .. n : \A S \in SUBSET Nat : Closed(n, S) => r \in S}]
<1>1. ASSUME NEW n \in Nat
      PROVE  least[n] = IF n = 0 THEN {} ELSE {n} \cup least[n \div 2]
    <2>1. CASE n = 0
        BY <2>1
    <2>2. CASE n # 0
        <3> DEFINE h == n \div 2
        <3>1. h \in Nat /\ h < n
            BY <2>2
        <3>2. n \in least[n]
            BY <2>2
        <3>3. ASSUME NEW r \in least[h] PROVE r \in least[n]
            <4>1. r \in 1 .. n /\ \A S \in SUBSET Nat : Closed(h, S) => r \in S
                BY <3>1
            <4>2. ASSUME NEW S \in SUBSET Nat, Closed(n, S) PROVE r \in S
                BY <4>1, <4>2
            <4> QED BY <4>1, <4>2
        <3>4. ASSUME NEW r \in least[n], r # n PROVE r \in least[h]
            <4>1. r \in 1 .. n /\ \A S \in SUBSET Nat : Closed(n, S) => r \in S
                OBVIOUS
            <4>2. r \in 1 .. h
                <5> DEFINE S == (0 .. h) \cup {n}
                <5>1. S \in SUBSET Nat
                    BY <3>1
                <5>2. Closed(n, S)
                    <6>1. ASSUME NEW s \in S PROVE s \div 2 \in S
                        BY <3>1
                    <6> QED BY <6>1
                <5>3. r \in S
                    BY <4>1, <5>1, <5>2
                <5> QED BY <4>1, <5>3, <3>4
            <4>3. ASSUME NEW S \in SUBSET Nat, Closed(h, S) PROVE r \in S
                <5>1. S \cup {n} \in SUBSET Nat /\ Closed(n, S \cup {n})
                    BY <4>3
                <5> QED BY <4>1, <5>1, <3>4
            <4> QED BY <3>1, <4>2, <4>3
        <3> HIDE DEF least
        <3> QED BY <2>2, <3>2, <3>3, <3>4
    <2> QED BY <2>1, <2>2
<1> HIDE DEF least
<1>2. least = [n \in Nat |-> IF n = 0 THEN {} ELSE {n} \cup least[n \div 2]]
    <2>1. least = [n \in Nat |-> least[n]]
        BY DEF least
    <2> QED BY <1>1, <2>1
<1>3. Halvings = [n \in Nat |-> IF n = 0 THEN {} ELSE {n} \cup Halvings[n \div 2]]
    BY <1>2, Zenon DEF Halvings
<1> QED BY <1>3

(* Whatever the length, the search can get to the last two elements.       *)
LEMMA HalvingsFacts ==
    ASSUME NEW n \in Nat
    PROVE  /\ Halvings[n] \subseteq 1 .. n
           /\ n > 0 => 1 \in Halvings[n]
           /\ n > 1 => 2 \in Halvings[n] \/ 3 \in Halvings[n]
<1> DEFINE Holds(m) == /\ Halvings[m] \subseteq 1 .. m
                       /\ m > 0 => 1 \in Halvings[m]
                       /\ m > 1 => 2 \in Halvings[m] \/ 3 \in Halvings[m]
           wrong == {m \in Nat : ~Holds(m)}
<1>1. ASSUME wrong # {} PROVE FALSE
    <2> DEFINE m == Min(wrong)
    <2>1. m \in wrong /\ \A x \in wrong : m <= x
        BY <1>1, MinFacts
    <2> HIDE DEF m
    <2>2. m \in Nat /\ ~Holds(m)
        BY <2>1
    <2>3. Halvings[m] = IF m = 0 THEN {} ELSE {m} \cup Halvings[m \div 2]
        BY <2>2, HalvingsStep, Zenon
    <2>4. CASE m = 0
        BY <2>2, <2>3, <2>4
    <2>5. CASE m > 0
        <3> DEFINE h == m \div 2
        <3>1. h \in Nat /\ h < m
            BY <2>2, <2>5
        <3>2. Holds(h)
            BY <2>1, <2>2, <3>1
        <3>3. Halvings[m] = {m} \cup Halvings[h]
            BY <2>2, <2>3, <2>5
        <3>4. (m > 1 => h > 0) /\ (m > 3 => h > 1)
            BY <2>2
        <3> HIDE DEF h
        <3>5. Halvings[m] \subseteq 1 .. m
            BY <2>2, <2>5, <3>1, <3>2, <3>3
        <3>6. 1 \in Halvings[m]
            BY <2>2, <2>5, <3>2, <3>3, <3>4
        <3>7. m > 1 => 2 \in Halvings[m] \/ 3 \in Halvings[m]
            BY <2>2, <2>5, <3>2, <3>3, <3>4
        <3> QED BY <2>2, <3>5, <3>6, <3>7
    <2> QED BY <2>2, <2>4, <2>5
<1> HIDE DEF Holds
<1>2. Holds(n)
    BY <1>1
<1> QED BY <1>2 DEF Holds

(* Position is what the loop of push_sorted returns.  The table of its     *)
(* results from every m satisfies the equation of Search and nothing else  *)
(* does: from what is left, n - m, the loop looks at its halvings, and each*)
(* lies behind the one before.                                             *)
LEMMA PositionIsLoop ==
    ASSUME NEW list \in Seq(Posts), NEW e \in Posts
    PROVE  Position(list, e) = Search(list, e)
<1> DEFINE n == Len(list)
           At(r) == n - 1 - (r \div 2)
           from(r) == {k \in 0 .. n - 1 : /\ k \in {At(h) : h \in Halvings[r]}
                                          /\ ~comp(e, list[k + 1])}
           k(m) == (n - 1 + m) \div 2
           ends == [m \in 0 .. n |-> IF from(n - m) = {} THEN n ELSE Min(from(n - m))]
           Loops(f) == f = [m \in 0 .. n |->
                              IF m > n - 1 THEN m
                              ELSE IF comp(e, list[k(m) + 1]) THEN f[k(m) + 1] ELSE k(m)]
<1>1. n \in Nat
    OBVIOUS
<1> HIDE DEF n
<1>2. ASSUME NEW m \in 0 .. n - 1
      PROVE  /\ k(m) \in m .. n - 1
             /\ k(m) = At(n - m)
             /\ n - (k(m) + 1) = (n - m) \div 2
    BY <1>1
<1>3. ASSUME NEW m \in 0 .. n - 1
      PROVE  from(n - m) = from((n - m) \div 2)
                             \cup (IF comp(e, list[k(m) + 1]) THEN {} ELSE {k(m)})
    <2>1. n - m \in Nat /\ n - m # 0
        BY <1>1
    <2>2. Halvings[n - m] = {n - m} \cup Halvings[(n - m) \div 2]
        BY <2>1, HalvingsStep
    <2>3. {At(h) : h \in Halvings[n - m]} =
             {k(m)} \cup {At(h) : h \in Halvings[(n - m) \div 2]}
        BY <1>2, <2>2
    <2>4. k(m) \in 0 .. n - 1
        BY <1>1, <1>2
    <2> HIDE DEF At, k
    <2> QED BY <2>3, <2>4
<1>4. Loops(ends)
    <2>1. ASSUME NEW m \in 0 .. n
          PROVE  ends[m] = IF m > n - 1 THEN m
                           ELSE IF comp(e, list[k(m) + 1]) THEN ends[k(m) + 1] ELSE k(m)
        <3>1. CASE m = n
            <4>1. n - m = 0 /\ m > n - 1
                BY <1>1, <3>1
            <4>2. Halvings[0] = {}
                BY HalvingsStep
            <4>3. from(n - m) = {}
                BY <4>1, <4>2
            <4> HIDE DEF from, k
            <4> QED BY <3>1, <4>1, <4>3
        <3>2. CASE m < n /\ comp(e, list[k(m) + 1])
            <4>1. from(n - m) = from((n - m) \div 2)
                <5>1. m \in 0 .. n - 1
                    BY <1>1, <3>2
                <5> HIDE DEF from
                <5> QED BY <1>3, <3>2, <5>1
            <4>2. k(m) + 1 \in 0 .. n /\ n - (k(m) + 1) = (n - m) \div 2
                BY <1>1, <1>2, <3>2
            <4>3. from(n - m) = from(n - (k(m) + 1))
                BY <4>1, <4>2
            <4> HIDE DEF from, k
            <4> QED BY <1>1, <3>2, <4>2, <4>3
        <3>3. CASE m < n /\ ~comp(e, list[k(m) + 1])
            <4>1. k(m) \in from(n - m)
                BY <1>1, <1>3, <3>3
            <4>2. ASSUME NEW x \in from(n - m) PROVE k(m) <= x
                <5>1. PICK h \in Halvings[n - m] : x = At(h)
                    OBVIOUS
                <5>2. h \in 1 .. n - m
                    BY <1>1, HalvingsFacts
                <5>3. h \div 2 <= (n - m) \div 2
                    BY <1>1, <5>2
                <5>4. h \div 2 \in Int /\ (n - m) \div 2 \in Int
                    BY <1>1, <5>2
                <5>5. k(m) = n - 1 - ((n - m) \div 2)
                    BY <1>1, <1>2, <3>3
                <5> HIDE DEF k
                <5> QED BY <1>1, <5>1, <5>3, <5>4, <5>5
            <4>3. from(n - m) \in SUBSET Nat /\ k(m) \in Nat
                BY <1>1, <1>2, <3>3
            <4> HIDE DEF from, k
            <4>4. Min(from(n - m)) = k(m)
                BY <4>1, <4>2, <4>3, MinFacts
            <4> QED BY <1>1, <3>3, <4>1, <4>4
        <3>4. m = n \/ m < n
            BY <1>1
        <3> HIDE DEF ends, from, k
        <3> QED BY <3>1, <3>2, <3>3, <3>4
    <2> HIDE DEF from, k
    <2> QED BY <2>1
<1>5. ASSUME NEW f, Loops(f) PROVE f[0] = ends[0]
    <2> DEFINE wrong == {r \in 0 .. n : f[n - r] # ends[n - r]}
    <2> HIDE DEF ends
    <2>1. ASSUME wrong # {} PROVE FALSE
        <3> DEFINE r == Min(wrong)
        <3>1. wrong \in SUBSET Nat
            BY <1>1
        <3>2. r \in wrong /\ \A x \in wrong : r <= x
            BY <2>1, <3>1, MinFacts
        <3> HIDE DEF r
        <3> DEFINE m == n - r
        <3>3. m \in 0 .. n /\ r = n - m /\ f[m] # ends[m]
            BY <1>1, <3>2
        <3> HIDE DEF m
        <3>4. m \in 0 .. n - 1
            BY <1>1, <1>4, <1>5, <3>3
        <3>5. k(m) \in m .. n - 1
            BY <1>2, <3>4
        <3>6. f[k(m) + 1] = ends[k(m) + 1]
            <4> HIDE DEF k
            <4>1. n - (k(m) + 1) \in 0 .. n /\ n - (k(m) + 1) < r
                BY <1>1, <3>3, <3>5
            <4>2. n - (n - (k(m) + 1)) = k(m) + 1
                BY <1>1, <3>3, <3>5
            <4> QED BY <3>2, <4>1, <4>2
        <3> HIDE DEF k
        <3> QED BY <1>1, <1>4, <1>5, <3>3, <3>4, <3>6
    <2>2. n \in 0 .. n /\ n - n = 0
        BY <1>1
    <2> QED BY <2>1, <2>2
<1>6. Search(list, e) = ends[0]
    <2>1. Search(list, e) = (CHOOSE f : Loops(f))[0]
        BY DEF Search, n
    <2>2. Loops(CHOOSE f : Loops(f))
        BY <1>4
    <2> QED BY <2>1, <2>2, <1>5
<1>7. ends[0] = Position(list, e)
    <2>1. from(n - 0) = Stops(list, e)
        BY <1>1 DEF Stops, Probes, n
    <2> HIDE DEF from
    <2> QED BY <1>1, <2>1 DEF Position, n
<1> QED BY <1>6, <1>7

(* What the search has seen where it ends: the post there is not older,    *)
(* and of the last two those before it are.                                *)
LEMMA PositionSplits ==
    ASSUME NEW list \in Seq(Posts), NEW p \in Posts
    PROVE  LET k == Position(list, p) 
               n == Len(list)
           IN  /\ k < n => ~comp(p, list[k + 1])
               /\ k = n /\ n > 0 => comp(p, list[n])
               /\ k = n - 1 /\ n > 1 => comp(p, list[n - 1])
<1> DEFINE k == Position(list, p)
           n == Len(list)
           stops == Stops(list, p)
<1>1. n \in Nat /\ n = Len(list)
    OBVIOUS
<1> HIDE DEF n
<1>2. stops = {x \in 0 .. n - 1 : x \in Probes(n) /\ ~comp(p, list[x + 1])}
    BY <1>1 DEF Stops
<1>3. IF stops = {} THEN k = n ELSE k \in stops /\ \A x \in stops : k <= x
    <2>1. stops \in SUBSET Nat
        BY <1>1, <1>2
    <2> HIDE DEF stops
    <2>2. k = IF stops = {} THEN n ELSE Min(stops)
        BY <1>1 DEF Position, stops
    <2> HIDE DEF k
    <2> QED BY <2>1, <2>2, MinFacts
<1>4. n > 0 => n - 1 \in Probes(n)
    BY <1>1, HalvingsFacts DEF Probes
<1>5. n > 1 => n - 2 \in Probes(n)
    BY <1>1, HalvingsFacts DEF Probes
<1> HIDE DEF k, stops
<1>6. k < n => ~comp(p, list[k + 1])
    BY <1>1, <1>2, <1>3
<1>7. k = n /\ n > 0 => comp(p, list[n])
    <2> SUFFICES ASSUME k = n, n > 0, ~comp(p, list[n]) PROVE FALSE
        OBVIOUS
    <2>1. n - 1 \in 0 .. n - 1 /\ (n - 1) + 1 = n
        BY <1>1
    <2>2. n - 1 \in stops
        BY <1>2, <1>4, <2>1
    <2> QED BY <1>1, <1>3, <2>2
<1>8. k = n - 1 /\ n > 1 => comp(p, list[n - 1])
    <2> SUFFICES ASSUME k = n - 1, n > 1, ~comp(p, list[n - 1]) PROVE FALSE
        OBVIOUS
    <2>1. n - 2 \in 0 .. n - 1 /\ (n - 2) + 1 = n - 1
        BY <1>1
    <2>2. n - 2 \in stops
        BY <1>2, <1>5, <2>1
    <2> QED BY <1>1, <1>3, <2>2
<1> QED BY <1>6, <1>7, <1>8 DEF k, n

(* A sorted list stays sorted for a post that at most two are newer than.  *)
LEMMA PushKeepsSorted ==
    ASSUME NEW list \in Seq(Posts), NEW p \in Posts, Sorted(list),
           Cardinality({i \in DOMAIN list : comp(list[i], p)}) <= 2
    PROVE  Sorted(push_sorted(list, p))
<1> DEFINE k == Position(list, p)
           n == Len(list)
           newer == {i \in DOMAIN list : comp(list[i], p)}
           t == push_sorted(list, p)
           T(i) == Timestamp[list[i]]
<1>1. n \in Nat /\ k \in 0 .. n /\ DOMAIN list = 1 .. n
    BY PositionFacts
<1>2. /\ k < n => ~comp(p, list[k + 1])
      /\ k = n /\ n > 0 => comp(p, list[n])
      /\ k = n - 1 /\ n > 1 => comp(p, list[n - 1])
    BY PositionSplits
<1>3. /\ Len(t) = n + 1 /\ DOMAIN t = 1 .. n + 1
      /\ \A j \in 1 .. n + 1 :
            t[j] = IF j < k + 1 THEN list[j] ELSE IF j = k + 1 THEN p ELSE list[j - 1]
    <2> DEFINE c == k + 1
               u == InsertAt(list, c, p)
    <2>1. c \in 1 .. Len(list) + 1
        BY PositionFacts
    <2>2. t = u
        BY DEF push_sorted
    <2> HIDE DEF c
    <2>3. /\ u \in Seq(Posts) /\ Len(u) = Len(list) + 1
          /\ \A j \in 1 .. Len(list) + 1 :
                u[j] = IF j < c THEN list[j] ELSE IF j = c THEN p ELSE list[j - 1]
        BY <2>1, InsertIndexed
    <2> HIDE DEF u, t, k
    <2> QED BY <2>2, <2>3 DEF c, n
<1> HIDE DEF k, n, t
<1>4. Timestamp[p] \in Nat /\ \A i \in 1 .. n : T(i) \in Nat
    <2>1. \A i \in 1 .. n : list[i] \in Posts
        BY <1>1
    <2> QED BY <2>1, TimestampAssumption
<1>5. \A i, j \in 1 .. n : i <= j => T(i) <= T(j)
    BY <1>1, <1>4 DEF Sorted
<1>6. \A i \in 1 .. n : i > k => Timestamp[p] <= T(i)
    <2> SUFFICES ASSUME NEW i \in 1 .. n, i > k PROVE Timestamp[p] <= T(i)
        OBVIOUS
    <2>1. k + 1 \in 1 .. n /\ k + 1 <= i
        BY <1>1
    <2>2. Timestamp[p] <= T(k + 1)
        BY <1>1, <1>2, <1>4, <2>1 DEF comp
    <2>3. T(k + 1) <= T(i)
        BY <1>5, <2>1
    <2> HIDE DEF T
    <2> QED BY <1>4, <2>1, <2>2, <2>3
<1>7. \A i \in 1 .. n : i <= k => T(i) <= Timestamp[p]
    <2> SUFFICES ASSUME NEW i \in 1 .. n, i <= k, T(i) > Timestamp[p] PROVE FALSE
        BY <1>4
    <2>1. CASE k = n
        <3>1. T(n) < Timestamp[p] /\ T(i) <= T(n)
            BY <1>1, <1>2, <1>5, <2>1 DEF comp
        <3> HIDE DEF T
        <3> QED BY <1>1, <1>4, <2>1, <3>1
    <2>2. CASE k = n - 1
        <3>1. T(n - 1) < Timestamp[p] /\ T(i) <= T(n - 1)
            BY <1>1, <1>2, <1>5, <2>2 DEF comp
        <3> HIDE DEF T
        <3> QED BY <1>1, <1>4, <2>2, <3>1
    <2>3. CASE k < n - 1
        <3>1. n - 1 \in 1 .. n /\ n \in 1 .. n /\ i < n - 1
            BY <1>1, <2>3
        <3>2. T(i) <= T(n - 1) /\ T(i) <= T(n)
            BY <1>5, <3>1
        <3>3. {i, n - 1, n} \subseteq newer
            <4>1. T(n - 1) > Timestamp[p] /\ T(n) > Timestamp[p]
                <5> HIDE DEF T
                <5> QED BY <1>4, <3>1, <3>2
            <4> QED BY <1>1, <3>1, <4>1 DEF comp
        <3>4. IsFiniteSet(newer)
            <4>1. newer \subseteq 1 .. n
                BY <1>1
            <4>2. IsFiniteSet(1 .. n)
                BY <1>1, FS_Interval
            <4> QED BY <4>1, <4>2, FS_Subset
        <3>5. Cardinality({i, n - 1, n}) = 3
            <4> DEFINE one == {n}
                       two == one \cup {n - 1}
            <4>1. IsFiniteSet(one) /\ Cardinality(one) = 1
                BY FS_Singleton
            <4>2. n - 1 \notin one /\ i \notin two
                BY <1>1, <3>1
            <4>3. {i, n - 1, n} = two \cup {i}
                OBVIOUS
            <4> HIDE DEF one
            <4>4. IsFiniteSet(two) /\ Cardinality(two) = Cardinality(one) + 1
                BY <4>1, <4>2, FS_AddElement
            <4> HIDE DEF two
            <4>5. Cardinality(two \cup {i}) = Cardinality(two) + 1
                BY <4>2, <4>4, FS_AddElement
            <4>6. Cardinality(two \cup {i}) = 3
                BY <4>1, <4>4, <4>5
            <4> QED BY <4>3, <4>6, Zenon
        <3>6. Cardinality({i, n - 1, n}) <= Cardinality(newer)
            BY <3>3, <3>4, FS_Subset
        <3>7. Cardinality(newer) \in Nat
            BY <3>4, FS_CardinalityType
        <3> HIDE DEF newer
        <3>8. Cardinality(newer) <= 2
            BY DEF newer
        <3> QED BY <3>5, <3>6, <3>7, <3>8
    <2> QED BY <1>1, <2>1, <2>2, <2>3
<1>8. ASSUME NEW i \in 1 .. n + 1, NEW j \in 1 .. n + 1, i < j
      PROVE  Timestamp[t[i]] <= Timestamp[t[j]]
    <2>1. Timestamp[t[i]] = IF i < k + 1 THEN T(i)
                            ELSE IF i = k + 1 THEN Timestamp[p] ELSE T(i - 1)
        BY <1>3
    <2>2. Timestamp[t[j]] = IF j < k + 1 THEN T(j)
                            ELSE IF j = k + 1 THEN Timestamp[p] ELSE T(j - 1)
        BY <1>3
    <2> HIDE DEF T
    <2>3. CASE j < k + 1
        <3>1. i \in 1 .. n /\ j \in 1 .. n /\ i < k + 1 /\ i <= j
            BY <1>1, <1>8, <2>3
        <3>2. T(i) <= T(j)
            BY <1>5, <3>1
        <3> QED BY <2>1, <2>2, <2>3, <3>1, <3>2
    <2>4. CASE j = k + 1
        <3>1. i \in 1 .. n /\ i <= k /\ i < k + 1 /\ ~(j < k + 1)
            BY <1>1, <1>8, <2>4
        <3>2. T(i) <= Timestamp[p]
            BY <1>7, <3>1
        <3> QED BY <2>1, <2>2, <2>4, <3>1, <3>2
    <2>5. CASE j > k + 1 /\ i < k + 1
        <3>1. i \in 1 .. n /\ j - 1 \in 1 .. n /\ i <= j - 1 /\ ~(j < k + 1) /\ j # k + 1
            BY <1>1, <2>5
        <3>2. T(i) <= T(j - 1)
            BY <1>5, <3>1
        <3> QED BY <2>1, <2>2, <2>5, <3>1, <3>2
    <2>6. CASE j > k + 1 /\ i = k + 1
        <3>1. j - 1 \in 1 .. n /\ j - 1 > k /\ ~(j < k + 1) /\ j # k + 1 /\ ~(i < k + 1)
            BY <1>1, <2>6
        <3>2. Timestamp[p] <= T(j - 1)
            BY <1>6, <3>1
        <3> QED BY <2>1, <2>2, <2>6, <3>1, <3>2
    <2>7. CASE j > k + 1 /\ i > k + 1
        <3>1. /\ i - 1 \in 1 .. n /\ j - 1 \in 1 .. n /\ i - 1 <= j - 1
              /\ ~(j < k + 1) /\ j # k + 1 /\ ~(i < k + 1) /\ i # k + 1
            BY <1>1, <1>8, <2>7
        <3>2. T(i - 1) <= T(j - 1)
            BY <1>5, <3>1
        <3> QED BY <2>1, <2>2, <3>1, <3>2
    <2>8. i \in Int /\ j \in Int /\ k \in Int
        BY <1>1
    <2> QED BY <2>3, <2>4, <2>5, <2>6, <2>7, <2>8
<1> QED BY <1>3, <1>8 DEF Sorted, t

(* How long a page is and, from the start, what it holds.                  *)
LEMMA PageFacts ==
    ASSUME NEW list \in Seq(Posts), NEW start \in Nat, NEW end \in Nat
    PROVE  LET wanted == {i \in DOMAIN list : start <= i - 1 /\ i - 1 <= end}
           IN  /\ Len(Page(list, start, end)) = Cardinality(wanted)
               /\ start = 0 => Page(list, start, end) = [i \in wanted |-> list[i]]
<1> DEFINE n == Len(list)
           lo == Smaller(start, n) + 1
           hi == Smaller(end + 1, n)
           slice == Slice(list, start, end)
           page_ == Page(list, start, end)
           wanted == {i \in DOMAIN list : start <= i - 1 /\ i - 1 <= end}
<1>1. n \in Nat /\ DOMAIN list = 1 .. n
    OBVIOUS
<1>2. lo \in 1 .. n + 1 /\ hi \in 0 .. n
    BY <1>1 DEF Smaller
<1>3. wanted = lo .. hi
    BY <1>1 DEF Smaller
<1>4. Len(slice) = IF lo > hi THEN 0 ELSE hi - lo + 1
    <2>1. slice = SubSeq(list, lo, hi)
        BY DEF Slice
    <2> HIDE DEF slice, lo, hi
    <2>2. CASE lo > hi
        BY <1>1, <1>2, <2>1, <2>2, SubSeqProperties
    <2>3. CASE lo <= hi
        BY <1>1, <1>2, <2>1, <2>3, SubSeqProperties
    <2> QED BY <1>2, <2>2, <2>3
<1> HIDE DEF lo, hi, n
<1>5. Len(slice) = Cardinality(wanted)
    <2>1. Cardinality(lo .. hi) = IF lo > hi THEN 0 ELSE hi - lo + 1
        BY <1>1, <1>2, FS_Interval
    <2> HIDE DEF wanted, slice
    <2> QED BY <1>3, <1>4, <2>1
<1>6. Len(slice) \in 0 .. n
    <2> HIDE DEF slice
    <2> QED BY <1>1, <1>2, <1>4
<1>7. /\ Len(page_) = Len(slice)
      /\ DOMAIN page_ = 1 .. Len(slice)
      /\ page_ = [i \in 1 .. Len(slice) |-> list[i]]
    <2> DEFINE l == Len(slice)
    <2>1. page_ = SubSeq(list, 1, l)
        BY DEF Page
    <2> HIDE DEF page_, l
    <2>2. l \in 0 .. Len(list)
        BY <1>6 DEF l, n
    <2>3. /\ SubSeq(list, 1, l) \in Seq(Posts)
          /\ Len(SubSeq(list, 1, l)) = l
          /\ \A i \in 1 .. l : SubSeq(list, 1, l)[i] = list[i]
        BY <2>2, SubSeqProperties
    <2>4. page_ \in Seq(Posts) /\ Len(page_) = l /\ \A i \in 1 .. l : page_[i] = list[i]
        BY <2>1, <2>3
    <2> QED BY <2>4 DEF l
<1>8. ASSUME start = 0 PROVE page_ = [i \in wanted |-> list[i]]
    <2>1. lo = 1
        BY <1>1, <1>8 DEF lo, Smaller
    <2>2. wanted = 1 .. Len(slice)
        <3> HIDE DEF wanted, slice
        <3> QED BY <1>2, <1>3, <1>4, <2>1
    <2> HIDE DEF wanted, slice, page_
    <2> QED BY <1>7, <2>2
<1> HIDE DEF wanted, slice, page_
<1>9. Len(page_) = Cardinality(wanted)
    BY <1>5, <1>7
<1> QED BY <1>8, <1>9 DEF wanted, page_

-----------------------------------------------------------------------------
(* One timeline by itself.                                                 *)
TimelineOK == posts \in Seq(Posts)

(* A timeline holds posts. *)
LEMMA TimelineType == TimelineSpec => []TimelineOK
<1>1. TimelineInit => TimelineOK
    BY DEF TimelineInit, TimelineOK
<1>2. TimelineOK /\ [TimelineNext]_timelineVars => TimelineOK'
    <2> SUFFICES ASSUME TimelineOK, [TimelineNext]_timelineVars PROVE TimelineOK'
        OBVIOUS
    <2>1. ASSUME NEW p \in Posts, write_user_timeline(p) PROVE TimelineOK'
        <3>1. posts' = push_sorted(posts, p)
            BY <2>1 DEF write_user_timeline
        <3> QED BY <3>1, PushFacts DEF TimelineOK
    <2>2. ASSUME NEW start, NEW end, read_user_timeline(start, end) PROVE TimelineOK'
        BY <2>2 DEF read_user_timeline, TimelineOK
    <2>3. CASE UNCHANGED timelineVars
        BY <2>3 DEF timelineVars, TimelineOK
    <2> QED BY <2>1, <2>2, <2>3 DEF TimelineNext
<1> QED BY <1>1, <1>2, PTL DEF TimelineSpec

(* Position is the index at which the loop of push_sorted ends, on every   *)
(* timeline of any length and for every post.                              *)
THEOREM PositionIsLoops == TimelineSpec => []PositionIsSearch
<1>1. TimelineOK => PositionIsSearch
    BY PositionIsLoop DEF TimelineOK, PositionIsSearch
<1> QED BY <1>1, TimelineType, PTL

(* write_user_timeline keeps a sorted timeline sorted for a post that at   *)
(* most two newer ones overtook, however long the timeline is.             *)
THEOREM LateByTwoStaysSorted == TimelineSpec => SortedUnlessLate
<1>1. ASSUME TimelineOK, NEW p \in Posts, write_user_timeline(p), Sorted(posts),
             Cardinality(Newer(p)) <= 2
      PROVE  Sorted(posts)'
    <2>1. posts' = push_sorted(posts, p)
        BY <1>1 DEF write_user_timeline
    <2>2. Sorted(posts)
        BY <1>1
    <2>3. Cardinality({i \in DOMAIN posts : comp(posts[i], p)}) <= 2
        BY <1>1 DEF Newer, comp
    <2>4. Sorted(push_sorted(posts, p))
        BY <1>1, <2>2, <2>3, PushKeepsSorted DEF TimelineOK
    <2> QED BY <2>1, <2>4
<1>2. TimelineOK => [\A p \in Posts : write_user_timeline(p) /\ Sorted(posts)
                     /\ Cardinality(Newer(p)) <= 2 => Sorted(posts')]_timelineVars
    BY <1>1
<1> QED BY <1>2, TimelineType, PTL DEF SortedUnlessLate

(* A page that read_user_timeline returns has the length of the range that *)
(* was asked for, and from the start it is that range.                     *)
THEOREM PagesAreRanges == TimelineSpec => []PageFromStart
<1>1. TimelineOK => PageFromStart
    <2> SUFFICES ASSUME TimelineOK,
                        NEW start \in 0 .. Cardinality(Posts),
                        NEW end \in 0 .. Cardinality(Posts)
                 PROVE  LET wanted == {i \in DOMAIN posts : start <= i - 1 /\ i - 1 <= end}
                        IN  /\ Len(Page(posts, start, end)) = Cardinality(wanted)
                            /\ start = 0 => Page(posts, start, end) = [i \in wanted |-> posts[i]]
        BY DEF PageFromStart
    <2>1. start \in Nat /\ end \in Nat
        OBVIOUS
    <2> QED BY <2>1, PageFacts, Zenon DEF TimelineOK
<1> QED BY <1>1, TimelineType, PTL
=============================================================================
