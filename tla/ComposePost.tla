---------------------------- MODULE ComposePost -----------------------------
(***************************************************************************)
(* post.js, compose: a post is put together from six parts that five       *)
(* services upload to compose_post_service.js, which counts them and sends *)
(* the post out with the sixth.                                            *)
(*                                                                         *)
(* The request is fused, so all of its calls are tasks of one reactor:     *)
(* `Call' puts the callee at the end of the run queue, a `Reply' resolves  *)
(* the caller's promise, and V8 runs the continuations of resolved         *)
(* promises before the next task.  Nobody else uses the keys of a request, *)
(* so the loop of check_upload_post is never aborted.  (What fused requests*)
(* do to a shard is in Scheduler, what the writes do in Timelines.)        *)
(***************************************************************************)
EXTENDS Integers, SequencesExt

CONSTANTS
    Readers     \* all.length: followers and mentioned users, however often each

(* Without a mention there is no post to write anywhere.                   *)
ASSUME ReadersAssumption == Readers \in Nat \ {0}

VARIABLES
    shuffled,   \* whether Seastar runs tasks in any order (its debug build)
    text,       \* which of mentions and urls the text of the post has
    tasks,      \* the calls of the request in the run queue
    micro,      \* results whose continuation is due
    tally,      \* the number under the request's key "count"
    parts,      \* the parts under the request's other keys
    posts,      \* for each run of upload_post: its upload and the parts it read
    back,       \* calls whose result was counted by whoever waits for several
    done,       \* writes to the post storage and to timelines
    answered    \* whether compose has replied

vars == <<shuffled, text, tasks, micro, tally, parts, posts, back, done, answered>>
data == <<shuffled, text, tally, parts, posts, back, done, answered>>

Parts == {"unique_id", "creator", "media", "text", "mentions", "urls"}

(* The calls: the function of the service that makes a part, its upload to *)
(* compose_post_service.js, and what upload_post sets off.                 *)
compose == <<"post", "compose">>
Serve(x) == <<"serve", x>>
Upload(x) == <<"upload", x>>
store_post == <<"send", "store_post">>
write_user_timeline == <<"send", "write_user_timeline">>
write_home_timeline == <<"send", "write_home_timeline">>
get_followers == <<"graph", "get_followers">>
Write(i) == <<"write", i>>

Four == {Serve(x) : x \in {"unique_id", "creator", "media", "text"}}
Three == {store_post, write_user_timeline, write_home_timeline}
Writes == [i \in 1 .. Readers |-> Write(i)]

Init ==
    /\ shuffled \in BOOLEAN
    /\ text \in SUBSET {"mentions", "urls"}
    /\ tasks = <<compose>>
    /\ micro = << >>
    /\ tally = 0
    /\ parts = {}
    /\ posts = << >>
    /\ back = {}
    /\ done = {}
    /\ answered = FALSE

-----------------------------------------------------------------------------
Ok(k) == [call |-> k, ok |-> TRUE]
Error(k) == [call |-> k, ok |-> FALSE]

(* The reactor runs the task of k, which makes `calls' and resolves.       *)
Run(k, calls, results) ==
    /\ micro = << >>
    /\ \E i \in IF shuffled THEN DOMAIN tasks ELSE {1} \cap DOMAIN tasks :
          tasks[i] = k /\ tasks' = RemoveAt(tasks, i) \o calls
    /\ micro' = results

(* V8 runs the continuation of k's promise, if k came to this result.      *)
Then(result, calls, results) ==
    /\ micro # << >> /\ Head(micro) = result
    /\ tasks' = tasks \o calls
    /\ micro' = Tail(micro) \o results

-----------------------------------------------------------------------------
(* post.js: four calls at once.                                            *)
Compose ==
    /\ Run(compose, <<Serve("unique_id"), Serve("creator"), Serve("media"), Serve("text")>>,
           << >>)
    /\ UNCHANGED data

(* upload_unique_id, upload_creator_with_userid, upload_media: pass it on. *)
PassOn(x) ==
    /\ x \in {"unique_id", "creator", "media"}
    /\ Run(Serve(x), <<Upload(x)>>, << >>)
    /\ UNCHANGED data

(* Variant: the other call first.                                          *)
upload_text_urls_first ==
    /\ Run(Serve("text"), <<Serve("urls"), Serve("mentions")>>, << >>)
    /\ UNCHANGED data

(* text_service.js: upload_text waits for the second of its two calls.     *)
upload_text ==
    /\ Run(Serve("text"), <<Serve("mentions"), Serve("urls")>>, << >>)
    /\ UNCHANGED data

(* JSON.parse("null").length throws if the text mentions nobody.           *)
upload_user_mentions ==
    /\ IF "mentions" \in text
       THEN Run(Serve("mentions"), <<Upload("mentions")>>, << >>)
       ELSE Run(Serve("mentions"), << >>, <<Error(Serve("mentions"))>>)
    /\ UNCHANGED data

(* The same without a URL; otherwise it replies without waiting.           *)
upload_urls ==
    /\ IF "urls" \in text
       THEN Run(Serve("urls"), <<Upload("urls")>>, <<Ok(Serve("urls"))>>)
       ELSE Run(Serve("urls"), << >>, <<Error(Serve("urls"))>>)
    /\ UNCHANGED data

(* Variant: the fifth upload is taken for the last.                        *)
check_upload_post_fifth(x) ==
    /\ parts' = parts \cup {x}
    /\ \/ /\ tally + 1 = 5
          /\ Run(Upload(x), <<store_post, write_user_timeline, write_home_timeline>>, << >>)
          /\ posts' = Append(posts, [by |-> x, read |-> parts'])
          /\ tally' = tally
       \/ /\ tally + 1 # 5
          /\ Run(Upload(x), << >>, <<Ok(Upload(x))>>)
          /\ tally' = tally + 1
          /\ posts' = posts
    /\ UNCHANGED <<shuffled, text, back, done, answered>>

(* compose_post_service.js: keep the part, count it, and upload_post with  *)
(* the sixth; its reply waits for what upload_post set off.                *)
check_upload_post(x) ==
    /\ parts' = parts \cup {x}
    /\ \/ /\ tally + 1 = 6
          /\ Run(Upload(x), <<store_post, write_user_timeline, write_home_timeline>>, << >>)
          /\ posts' = Append(posts, [by |-> x, read |-> parts'])
          /\ tally' = tally
       \/ /\ tally + 1 # 6
          /\ Run(Upload(x), << >>, <<Ok(Upload(x))>>)
          /\ tally' = tally + 1
          /\ posts' = posts
    /\ UNCHANGED <<shuffled, text, back, done, answered>>

(* write_home_timeline begins by asking for the followers.                 *)
AskFollowers ==
    /\ Run(write_home_timeline, <<get_followers>>, << >>)
    /\ UNCHANGED data

(* store_post, write_user_timeline, get_followers: reply at the end.       *)
Plain(k) ==
    /\ k \in {store_post, write_user_timeline, get_followers} \cup ToSet(Writes)
    /\ Run(k, << >>, <<Ok(k)>>)
    /\ done' = done \cup {k}
    /\ UNCHANGED <<shuffled, text, tally, parts, posts, back, answered>>

-----------------------------------------------------------------------------
(* Variant: compose answers with the third result.                         *)
CountFourEarly(k) ==
    /\ k \in Four
    /\ Then(Ok(k), << >>, << >>)
    /\ back' = back \cup {k}
    /\ answered' = (Cardinality(Four \cap back') >= 3)
    /\ UNCHANGED <<shuffled, text, tally, parts, posts, done>>

(* post.js: count == 4, and compose replies.                               *)
CountFour(k) ==
    /\ k \in Four
    /\ Then(Ok(k), << >>, << >>)
    /\ back' = back \cup {k}
    /\ answered' = (Four \subseteq back')
    /\ UNCHANGED <<shuffled, text, tally, parts, posts, done>>

(* The upload is done, and the service that made the part replies.         *)
Uploaded(x) ==
    /\ x \in Parts \ {"urls"}
    /\ Then(Ok(Upload(x)), << >>, <<Ok(Serve(x))>>)
    /\ UNCHANGED data

(* Nobody waits for these.                                                 *)
Ignored(result) ==
    /\ result.call \in {Serve("mentions"), Upload("urls")}
    /\ Then(result, << >>, << >>)
    /\ UNCHANGED data

(* Variant: what came back is not looked at.                               *)
ShortenedAnyhow(result) ==
    /\ result.call = Serve("urls")
    /\ Then(result, <<Upload("text")>>, << >>)
    /\ UNCHANGED data

(* upload_text goes on with the short URLs.  "error\n" is no JSON: the     *)
(* continuation throws, and upload_text never replies.                     *)
Shortened(result) ==
    /\ result.call = Serve("urls")
    /\ Then(result, IF result.ok THEN <<Upload("text")>> ELSE << >>, << >>)
    /\ UNCHANGED data

(* compose_post_service.js: count == 3, and the sixth upload replies.      *)
CountThree(k) ==
    /\ k \in Three
    /\ back' = back \cup {k}
    /\ Then(Ok(k), << >>,
            IF Three \subseteq back' THEN <<Ok(Upload(Last(posts).by))>> ELSE << >>)
    /\ UNCHANGED <<shuffled, text, tally, parts, posts, done, answered>>

(* write_home_timeline: a write for everybody.                             *)
FanOut ==
    /\ Then(Ok(get_followers), Writes, << >>)
    /\ UNCHANGED data

(* ... and count == all.length.                                            *)
CountWrites(k) ==
    /\ k \in ToSet(Writes)
    /\ back' = back \cup {k}
    /\ Then(Ok(k), << >>,
            IF ToSet(Writes) \subseteq back' THEN <<Ok(write_home_timeline)>> ELSE << >>)
    /\ UNCHANGED <<shuffled, text, tally, parts, posts, done, answered>>

Task ==
    \/ Compose \/ upload_text \/ upload_user_mentions \/ upload_urls \/ AskFollowers
    \/ \E x \in Parts : PassOn(x) \/ check_upload_post(x)
    \/ \E k \in ToSet(tasks) : Plain(k)

Continuation ==
    \/ \E x \in Parts : Uploaded(x)
    \/ \E r \in ToSet(micro) : Ignored(r) \/ Shortened(r)
    \/ \E k \in {r.call : r \in ToSet(micro)} :
          CountFour(k) \/ CountThree(k) \/ CountWrites(k)
    \/ FanOut

Next == Task \/ Continuation

Spec == Init /\ [][Next]_vars

-----------------------------------------------------------------------------
Delivered == {store_post, write_user_timeline} \cup ToSet(Writes) \subseteq done

AtRest == tasks = << >> /\ micro = << >>

(* upload_post reads every key of the request: whichever upload is the     *)
(* sixth, all parts are there, or it would store a post with gaps.         *)
PostHasAllParts == \A i \in DOMAIN posts : posts[i].read = Parts

(* The client is told "ok" when the post is stored and in every timeline,  *)
(* although nobody waits for the uploads of mentions and URLs: in a first- *)
(* in first-out run queue the upload of the text is always the sixth.      *)
(* (Without a mention there is no sixth and no post, and "ok" all the same.)*)
AnsweredIsDelivered ==
    answered /\ ~shuffled /\ "mentions" \in text => Delivered

(* For the same reason no call of the request is left to run when compose  *)
(* replies.  Scheduler depends on it: a later call of a fused request puts *)
(* the request into curr_wf for good.                                      *)
NothingAfterAnswer == answered /\ ~shuffled => AtRest

(* What becomes of a text: without a URL the client is never answered,     *)
(* without a URL or a mention there is no post, in whatever order tasks run*)
Outcome ==
    AtRest => /\ answered <=> "urls" \in text
              /\ Delivered <=> text = {"mentions", "urls"}
=============================================================================
