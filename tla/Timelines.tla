----------------------------- MODULE Timelines ------------------------------
(***************************************************************************)
(* The shared database (db.cc) under the services that update it with      *)
(* optimistic loops: follow (social_graph_service.js), store_post          *)
(* (post_storage.js), write_user_timeline, and write_home_timeline, which  *)
(* fans a post out to the author's followers and to whom it mentions.      *)
(*                                                                         *)
(* Shards are threads and the database is one for all of them: ht_get and  *)
(* ht_set are atomic (they hold _access), everything between them is not.  *)
(* A request is a process here.  The calls that upload_post makes run on   *)
(* one shard in the order they are made, as the tasks of one fused request *)
(* in a first-in first-out run queue.                                      *)
(*                                                                         *)
(* upload_post is reached only when upload_user_mentions has not thrown,   *)
(* that is when the text mentions somebody.                                *)
(***************************************************************************)
EXTENDS PushSorted

CONSTANTS
    Users,          \* the strings that stand for users in keys
    Author,         \* Author[p]: who composes post p
    Mentions,       \* Mentions[p]: the users that p mentions, a sequence
    Follows,        \* requests to follow somebody
    Follower,       \* Follower[f]: who asks in request f
    Followee,       \* Followee[f]: whom f is to follow
    Versions,       \* what rand() may return
    NoVersion       \* 0, the version that goes with "not there yet"

ASSUME RequestsAssumption ==
    /\ Author \in [Posts -> Users]
    /\ Mentions \in [Posts -> Seq(Users) \ {<< >>}]
    /\ Follower \in [Follows -> Users]
    /\ Followee \in [Follows -> Users]
    /\ Posts \cap Follows = {}

ASSUME VersionsAssumption == NoVersion \notin Versions

VARIABLES
    table,      \* table[k]: the entry of key k in the hash table
    stored,     \* the posts in post_storage.js's database
    pc,         \* pc[r]: where request r is
    got,        \* requests between the DBGet and the DBSet of a loop
    snap,       \* snap[r]: the entry that DBGet gave r
    audience,   \* audience[p]: whose timelines p is to be written to
    left        \* left[p]: how many of them are still to do

vars == <<table, stored, pc, got, snap, audience, left>>

Requests == Posts \cup Follows

(* A database per service and a key per user; "followers" is appended to   *)
(* the name.                                                               *)
Keys == {"timeline", "followees", "followers"} \X Users

(* An entry: its version (the first four bytes of db_val.data) and a list. *)
(* DBGet answers an empty buffer for a key that is not there, and the      *)
(* services take that for version 0 and an empty list.                     *)
Absent == [version |-> NoVersion, list |-> << >>]

Init ==
    /\ table = [k \in Keys |-> Absent]
    /\ stored = {}
    /\ pc = [r \in Requests |-> "new"]
    /\ got = {}
    /\ snap = [r \in Requests |-> Absent]
    /\ audience = [p \in Posts |-> << >>]
    /\ left = [p \in Posts |-> 0]

-----------------------------------------------------------------------------
(* Variant: any two first writers of a key are accepted.                   *)
AcceptsFirst(k, version) == version = NoVersion \/ table[k].version = version

(* ht_set(val, version) for key k: an entry that is there is replaced only *)
(* if it has the expected version.                                         *)
Accepts(k, version) == table[k] = Absent \/ table[k].version = version

(* rand() does not return a version that anybody could still compare with. *)
(* (It may, once in 2^31: then an update can be lost.)                     *)
Fresh(k) == Versions \ ({table[k].version} \cup {snap[r].version : r \in got})

(* The user whose timeline p's request is writing to.                      *)
Reader(p) == IF pc[p] = "own" THEN Author[p]
             ELSE audience[p][Len(audience[p]) - left[p] + 1]

(* The key that request r is updating, and the list it makes of another.   *)
Key(r) ==
    IF pc[r] \in {"own", "fan"} THEN <<"timeline", Reader(r)>>
    ELSE <<pc[r], IF pc[r] = "followees" THEN Follower[r] ELSE Followee[r]>>

Updated(r, list) ==
    IF pc[r] \in {"own", "fan"} THEN push_sorted(list, r)
    ELSE Append(list, IF pc[r] = "followees" THEN Followee[r] ELSE Follower[r])

Looping(r) == pc[r] \in {"own", "fan", "followees", "followers"}

-----------------------------------------------------------------------------
(* Variant: follow() updates the followers first.                          *)
BeginBackwards(r) ==
    /\ pc[r] = "new"
    /\ pc' = [pc EXCEPT ![r] = IF r \in Posts THEN "store" ELSE "followers"]
    /\ UNCHANGED <<table, stored, got, snap, audience, left>>

(* A request comes in: follow(), or upload_post() of a composed post.      *)
Begin(r) ==
    /\ pc[r] = "new"
    /\ pc' = [pc EXCEPT ![r] = IF r \in Posts THEN "store" ELSE "followees"]
    /\ UNCHANGED <<table, stored, got, snap, audience, left>>

(* Variant: the id was there already and DBSet said "abort".               *)
store_post_aborted(p) ==
    /\ pc[p] = "store"
    /\ pc' = [pc EXCEPT ![p] = "own"]
    /\ UNCHANGED <<table, stored, got, snap, audience, left>>

(* store_post: DBSet with version 0, under a fresh id.                     *)
store_post(p) ==
    /\ pc[p] = "store"
    /\ stored' = stored \cup {p}
    /\ pc' = [pc EXCEPT ![p] = "own"]
    /\ UNCHANGED <<table, got, snap, audience, left>>

(* The body of the loop up to DBGet.                                       *)
Get(r) ==
    /\ Looping(r) /\ r \notin got
    /\ got' = got \cup {r}
    /\ snap' = [snap EXCEPT ![r] = table[Key(r)]]
    /\ UNCHANGED <<table, stored, pc, audience, left>>

(* Variant: DBSet is tried again without reading again.                    *)
AbortStale(r) ==
    /\ r \in got /\ ~Accepts(Key(r), snap[r].version)
    /\ UNCHANGED vars

(* DBSet says "abort": once more.                                          *)
Abort(r) ==
    /\ r \in got
    /\ ~Accepts(Key(r), snap[r].version)
    /\ got' = got \ {r}
    /\ snap' = [snap EXCEPT ![r] = Absent]
    /\ UNCHANGED <<table, stored, pc, audience, left>>

(* Variant: the reply does not wait for the last timeline.                 *)
NextPcEarly(r) ==
    IF pc[r] = "fan" THEN IF left[r] <= 2 THEN "done" ELSE "fan"
    ELSE [own |-> "home", followees |-> "followers", followers |-> "done"][pc[r]]

(* Where r goes when a loop is done.  write_home_timeline answers when the *)
(* last of the timelines is written.                                       *)
NextPc(r) ==
    IF pc[r] = "fan" THEN IF left[r] = 1 THEN "done" ELSE "fan"
    ELSE [own |-> "home", followees |-> "followers", followers |-> "done"][pc[r]]

(* DBSet says "ok".                                                        *)
Set(r) ==
    /\ r \in got
    /\ Accepts(Key(r), snap[r].version)
    /\ \E v \in Fresh(Key(r)) :
          table' = [table EXCEPT ![Key(r)] =
                       [version |-> v, list |-> Updated(r, snap[r].list)]]
    /\ got' = got \ {r}
    /\ snap' = [snap EXCEPT ![r] = Absent]
    /\ pc' = [pc EXCEPT ![r] = NextPc(r)]
    /\ left' = IF pc[r] = "fan" THEN [left EXCEPT ![r] = @ - 1] ELSE left
    /\ UNCHANGED <<stored, audience>>

(* write_home_timeline: get_followers, then a write for each of them and   *)
(* for each mentioned user.                                                *)
write_home_timeline(p) ==
    /\ pc[p] = "home"
    /\ LET all == table[<<"followers", Author[p]>>].list \o Mentions[p]
       IN  /\ audience' = [audience EXCEPT ![p] = all]
           /\ left' = [left EXCEPT ![p] = Len(all)]
           /\ pc' = [pc EXCEPT ![p] = "fan"]
    /\ UNCHANGED <<table, stored, got, snap>>

Step(r) ==
    \/ Begin(r) \/ Get(r) \/ Abort(r) \/ Set(r)
    \/ r \in Posts /\ (store_post(r) \/ write_home_timeline(r))

Next == \E r \in Requests : Step(r)

Spec == Init /\ [][Next]_vars

(* A request that is there is worked on.                                   *)
FairSpec == Spec /\ \A r \in Requests : WF_vars(Step(r))

-----------------------------------------------------------------------------
Pcs == {"new", "store", "own", "home", "fan", "followees", "followers", "done"}

Entries == [version : Versions \cup {NoVersion}, list : Seq(Posts) \cup Seq(Users)]

(* The type invariant.                                                     *)
TypeOK ==
    /\ table \in [Keys -> Entries]
    /\ \A u \in Users : table[<<"timeline", u>>].list \in Seq(Posts)
    /\ \A u \in Users : \A d \in {"followees", "followers"} :
          table[<<d, u>>].list \in Seq(Users)
    /\ stored \subseteq Posts
    /\ pc \in [Requests -> Pcs]
    /\ got \subseteq Requests
    /\ snap \in [Requests -> Entries]
    /\ audience \in [Posts -> Seq(Users)]
    /\ left \in [Posts -> Nat]

Timeline(u) == table[<<"timeline", u>>].list
Followees(u) == table[<<"followees", u>>].list
Followers(u) == table[<<"followers", u>>].list

(* No update of any list is ever lost to a concurrent one: what is in a    *)
(* timeline, or among the followees or followers of a user, stays.         *)
NothingLost == [][\A k \in Keys : ToSet(table[k].list) \subseteq ToSet(table'[k].list)]_vars

(* A post that somebody can find in a timeline can be read from the post   *)
(* storage: read_posts parses whatever the storage answers.                *)
StoredFirst == \A u \in Users : ToSet(Timeline(u)) \subseteq stored

(* Who is listed as a follower has that user among his followees, whatever *)
(* else happens between the two loops of follow().                         *)
FollowersFollow ==
    \A u, w \in Users : w \in ToSet(Followers(u)) => u \in ToSet(Followees(w))

Times(x, list) == Cardinality({i \in DOMAIN list : list[i] = x})

(* A request that was answered has done what it says, exactly as often as  *)
(* asked however many times its loops were aborted: a post is in a timeline*)
(* once for its author, once for every time the user occurs in its audience*)
(* (a mentioned follower sees it twice); a follower is listed once for     *)
(* every request.                                                          *)
DeliveredExactly ==
    /\ \A p \in Posts : pc[p] = "done" =>
          \A u \in Users : Times(p, Timeline(u)) =
              Times(u, audience[p]) + (IF u = Author[p] THEN 1 ELSE 0)
    /\ (\A f \in Follows : pc[f] = "done") =>
          \A u, w \in Users : Times(w, Followers(u)) =
              Cardinality({f \in Follows : Follower[f] = w /\ Followee[f] = u})

(* Every request is done: the loops do not abort one another for ever.     *)
RequestsEnd == \A r \in Requests : <>(pc[r] = "done")
=============================================================================
