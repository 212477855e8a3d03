# nanoservices: a verification project

`nanoservices` (Shredder) runs web services written in JavaScript inside one
server process. Seastar gives it one reactor thread per core (a *shard*), V8 one
isolate per shard, and all shards share a key-value store. A function of a
service may call functions of other services; where such a call runs is decided
per call by the server's own scheduler. This directory holds TLA+ models of the
parts whose correctness depends on the order in which shards do things, the TLC
configurations that check them, and TLAPS proofs of what matters most.

* [Inventory](#inventory): parts, state, operations, what is hard about them
* [Modules](#modules): which models what
* [Scheduler](#scheduler), [CoreLoad](#coreload), [CoreLock](#corelock), [FuncStats and WorkflowStats](#funcstats-and-workflowstats)
* [HashTable](#hashtable), [Timelines](#timelines), [PushSorted and UserTimeline](#pushsorted-and-usertimeline), [ComposePost](#composepost)
* [Startup, UrlParse and HttpServer](#startup-urlparse-and-httpserver), [RespParser](#respparser)
* [Runs](#runs), [Finding](#finding), [Proofs](#proofs), [Not modelled](#not-modelled), [What is left](#what-is-left)

## Inventory

| part | state | operations | correct means |
|---|---|---|---|
| HTTP front end: `net_server.cc`, `connection_handler.cc`, `reply_builder.cc` | connections, a request each | accept, parse, `new_req`, write the reply | one reply per request, to its connection |
| Scheduler: `scheduler.cc` | per shard `req_map`, `curr_req`, `curr_wf`, `wf_starts`, `big_core`; shared `cores[]` (queue `q`, parked tasks `task_map`, `busy`, `busy_till`) under `cores[0].mu`; shared `req_wf_map` under `req_wf_mu`; shared `func_map`, `wf_map` | `new_req`, `schedule`, `get_core`, `run_func`, `dispatch`, `reply` | no call is lost, run twice or answered twice; a fused request has its shard to itself; a reply finds its state; nothing is left behind |
| Request server: `req_server.cc` | V8 contexts, promises and stack of a shard; `callback_states` in `req_map` | `run_func`, `run_callback`, the bindings `Call`, `Reply`, `DBGet`, `DBSet`, ... | a function replies once; a callback is run once, on the caller's shard |
| Statistics (`func_states`, `wf_states`) | counts and total cycles per function and per kind of request | updated by every run, read by `get_core` | the average is one of what was measured |
| Key-value store: `db.cc`, `db.hh` | `db_map`, a hash table per database, a version per entry | `ht_get`, `ht_set`, `create_db` | a set with an old version changes nothing |
| Timelines: `user_timeline_service.js`, `write_home_timeline_service.js`, `post_storage.js` | a list of posts per user, posts by id | write, read a page, fan out | every post once in each timeline it belongs to, sorted; a post found can be read |
| Social graph: `social_graph_service.js` | followees and followers per user | `follow`, `get_followers` | the two lists agree |
| Composing: `post.js`, `compose_post_service.js`, `text_service.js`, `url_shorten_service.js`, `user_mention_service.js`, `media_service.js`, `unique_id_service.js`, `user_service.js` | six uploads and a tally per request | uploads, `upload_post` | a post is made once, of all six parts, under a new id |
| Startup and shutdown: `main.cc` | which sharded service is up | start, register services, stop | nothing is used before it is up or after it is down |
| Redis protocol: `redis_protocol_parser.hh` | the state of one parse | parse a buffer | the command and the arguments that were sent (no other file uses it) |
| Benchmark functions: `complex.js`, `fanout.js`, `microbenchmark*.js`, ... | none | call one another in trees | answer when the last sub-call has |

How they interact. A connection handler calls `new_req` on its shard, which
makes a request id and goes through `schedule`, as every call that a function
makes with `Call` does. `schedule` chooses a shard (`get_core`), puts the call in
that shard's queue, and sends a message with the rest; there `run_func` parks a
task, and `dispatch`, at the end of every event, hands the task of the *oldest*
queued call to the reactor. The function runs, makes calls of its own, and
replies; `reply` runs on the shard of the function, and either ends at the
connection, runs the caller's callback, or sends itself to the shard of the
caller. A *fused* request (`complex.js`, `post.js`, `fanout.js`) runs all of its calls on
the shard of its root, which takes no other call meanwhile.

What is hard: two shards fill the two halves of a queue entry in either order;
`dispatch` hands out one task per event and is only called at some events; V8 runs
promise continuations at moments of its own, in the middle of `reply`; services
update shared lists with optimistic loops; much is shared without a lock.
`PROJECT.json` lists the hazards, each at its line.

## Modules

| module | what it is |
|---|---|
| `CallTree` | parameters: the calls a workload makes, the shards, which requests are fused |
| `Invocation` | abstract: what the server promises about the calls of a workload |
| `Scheduler`, `MCScheduler` | the scheduler and the V8 side that drives it; its workload |
| `SchedulerInv`, `SchedulerProofs` | its inductive invariants; the proofs of them, that `Scheduler` implements `Invocation`, and that nothing is stranded |
| `CoreLoad`, `MCCoreLoad` | `get_core`'s choice and `busy_till` |
| `CoreLock` | the mutex around `cores[]`, which `get_core` unlocks also when it has not locked it |
| `CoresProofs` | proofs about both |
| `FuncStats`, `FuncStatsProofs` | the shared averages of the run times of a function |
| `WorkflowStats`, `MCWorkflowStats`, `WorkflowStatsProofs` | the averages of workflows, from notes that each shard keeps |
| `VersionedStore` | abstract: what a database promises to concurrent shards |
| `HashTable`, `MCHashTable`, `HashTableProofs` | `db.cc`, access by access under its lock |
| `PushSorted` | `push_sorted` and the pages of a timeline, as operators |
| `UserTimeline`, `MCUserTimeline` | one timeline, written and read by one |
| `Timelines`, `MCTimelines`, `TimelinesProofs` | many writers on the shared table: fan-out and `follow`; the proofs are also about `UserTimeline` |
| `ComposePost`, `ComposePostProofs` | a request to compose a post, call by call |
| `Startup` | `main.cc`: what comes up and goes away when, and the registration of services |
| `UrlParse` | how a URL becomes a service, a function and parameters |
| `HttpServer`, `MCHttpServer`, `HttpServerProofs` | one connection on such a server, from accept to close |
| `RespParser`, `MCRespParser` | the parser of the Redis protocol |

How they fit. `Scheduler` is the middle: `CoreLoad` decides what it leaves open (the shard of
a call), from estimates that `FuncStats` and `WorkflowStats` keep; `CoreLock` is why its handlers
may be atomic. `Timelines` and `ComposePost` are functions that run on it; `Timelines` uses atomic gets
and sets, which `HashTable` provides: it implements `VersionedStore`, whose steps are those of
`Timelines`' loops. `HttpServer` extends `Startup` and `UrlParse` and hands requests to a
scheduler that is reduced there to where its calls are.

An operator whose comment begins with *Variant* is a plausible bug in the
definition after it. No specification uses it; a run in which it stands in for
that definition must find the property violated that `PROJECT.json` names with
it. So every property of every run is known to notice something.

## Scheduler

State. `req_map`, `q`, `task_map`, `curr_req`, `curr_wf` are the variables of the source, per
shard; the callbacks that the source keeps in `req_map` under another key are
`callbacks`. A call id stands for its task and its strings. `ready` is Seastar's
run queue, `net` the messages of `invoke_on`. V8 is `js`, `cur` (whose function is on the
shard's stack) and `micro` (continuations due). `owed` remembers that a handler of
`reply` is inside `run_callback` and has its `dispatch` still to do.

Actions. `Accept` is `new_req`; `IssueCall` the `Call` binding and `schedule`; `RecvRun` the
message with `run_func`; `RunTask` a task, which enters V8; `JsYield` a function that
returns to wait; `JsReply` the `Reply` binding and `reply`; `Throw` a function that throws;
`RecvReply` the message with `reply`; `NextMicro` a continuation; `Finish` and `RecvAck` the two
dispatches at the end of a forwarded reply, on the two shards.

*Granularity.* An action is what a reactor does between two points where the same
reactor may do something else. Other shards run in between, but all that they can do
to this shard's state is append a call to its `q`, and such a call is not in
`task_map` until this shard has handled the message that comes with it. So a `dispatch`
decides the same before and after, and the pieces can be merged.

*Larger than the code.* `ready` is a set and `net` has no order: the release build of
Seastar is first-in first-out, its debug build shuffles tasks. `get_core` may choose
any shard the machine allows: its estimates are racy and depend on time (which it
chooses, and why, is [CoreLoad](#coreload)). Both only add behaviours, so the safety
properties hold of the code's too.

*V8.* A continuation runs only when the stack of JavaScript is empty: a promise
resolved by a function that replies on its caller's shard is consumed after that
function has returned (`JsReply` dispatches before the continuation), one resolved
by a message is consumed inside `run_callback` (`RecvReply` owes the dispatch).

*Fused workflows.* `run_func` of a sub-call puts the request into `curr_wf` again, so a
call that starts after its root replied would hold the shard for ever. `FusedAssumption`
excludes it: in a fused request everybody waits for all of their calls. `complex.js` and
`fanout.js` do. `post.js` has two calls nobody waits for, `text_service.js:18` and
`url_shorten_service.js:36`; that they, too, begin before the root replies is `NothingAfterAnswer`
of `ComposePost`, and depends on the run queue being first-in first-out. `Failing` has no roots: a root that throws replies `error\n`, which
`read_json` refuses, and the client is never answered.

*Properties.* `ReplyHasState`: whoever can still reply has an entry that says where to.
`QueueAgreement`: the queue and the parked tasks agree although two shards fill them.
`IInv`: every table holds exactly what the progress of the calls says; in particular `curr_req` is
empty, and the shard called free, exactly when none of its calls can still reply. `FusedHoldsCore`
and `FusedRunsAlone`: a fused request stays where its root is, holds that shard, and no other
call is handed to the shard meanwhile. `QuiescentClean`: when no reactor has anything to
do, every call has returned and every table is empty; a task that no `dispatch`
comes back for would show as a quiet state with work in it. `ImplementsInvocation`: seen from
the workload, calls are started once, reply once and return once, after what they
wait for. `EveryRequestAnswered`: every accepted request is answered.

*Fairness.* `FairSpec` has weak fairness per shard: a reactor with something to do does something.
Seastar polls its queues in turn, so each message and each ready task is reached;
functions are assumed to come to their next call, reply or return.

*Deadlock* is off in the runs: a finite workload comes to its end, and the server
then waits. That it does not stop earlier is what `QuiescentClean` and
`EveryRequestAnswered` say.

## CoreLoad

`Ask` is the part of `get_core` before the lock: the estimate of the function and the clock
are read. `Place` is the part under the lock: the scan, `busy_till`, the queue. Between them other
shards place calls and time passes. `Arrive` and `Answer` are the parts of `run_func` and `reply` that decide when a
shard is set free again. `reply` decides it by `curr_req`, and it also runs where the call is not in it: `AnswerAgain` is the second run
of `reply`, on the shard that asked for a call (`prev_cpuid`), when another shard has run it and forwards the reply (`scheduler.cc:425`); `AnswerInside`
is `reply` to a sub-call of a fused request, whose root is not in `curr_req`. Either sets the shard free, `busy_till` to the
clock, when its `curr_req` is empty, although calls may have been placed on it or a fused request may hold it. The flag `busy`, which is set and cleared at
the same places, is read only when compiled with `BOOL_SCHED` and is left out. `busy_till` and the estimates are words
modulo `W`, since the code adds an `int` (-1 before a first run) to a `uint64_t`.

*Properties.* `PlacedWell`: the two-part scan, in which `min` is raised to the clock half
way, takes a shard that is free as early as any eligible one, and leaves the hardware queues only when all of
them are busy. `IdleLooksFree`: a shard with nothing placed on it does not look busy, whatever was estimated.
`LoadAccounted`: `busy_till` is at most the present plus the positive estimates placed since the shard had nothing placed on it (the history
variable `gain`); and from when the shard begins on a call in `curr_req` until it has none left, nothing promised is lost, neither what it was
promised before nor what is placed meanwhile, whatever replies come back (`least`). No word wraps unless the time promised to one shard does not fit in it.
What the property does not say: time promised while `curr_req` is empty is forgotten at the next such reply, so a shard with calls on
their way to it, or held by a fused request, may look free. That is what the code does; it costs placement, and `Scheduler` shows that no
call is lost wherever `get_core` puts it.
`LongOnBig` (a theorem only): long and unknown functions do not go to a hardware queue.

## CoreLock

All shards are threads of one process and share `cores[0].mu`. With at most `HW_Q_COUNT` shards (`single`)
`get_core` skips `lock()` and still calls `unlock()`. The standard calls that undefined; what it does is decided by the C library, so
the mutex is modelled as glibc's normal mutex is built: a word (0 free, 1 held, 2 held with waiters)
and a futex. `dispatch` reads the size of its queue before it locks (`Peek`).

*Properties.* `NoRace`: two shards never touch one shard's queue and tasks at a time. On a single-tier machine this is
not because of the mutex, which two may then hold, but because each shard only touches its own.
`AllGetThrough`: the unlock that nobody is entitled to takes no sleeper's wake-up away. `FairSpec`
has weak fairness per shard: an operating system runs every thread that is not asleep, and a shard
asleep on the futex has no step until it is woken.

## FuncStats and WorkflowStats

The lock around the statistics at the end of `run_func` is commented out. What is left are seven accesses to three shared
atomics, each a step of its own. `mixed` is a history variable: two updates have overlapped in this window.
`WindowExact`: in a window without overlap the total is one that as many runs as were counted can have, also after windows
with overlap (a reset heals). `AverageInRange`: an estimate stored in such a window is one a run could have taken, up to
2^31 - 1 cycles (`IntMax`), about a second; `exec_time` is an `int`, and of a longer average it holds what is left in 32 bits (`ToInt`), possibly something short or negative.
With overlap neither holds of the code; the estimates are then wrong, which moves calls but loses none, as
`Scheduler` lets `get_core` choose anything.

A workflow's time is measured by the shard that runs its root (`wf_starts`), and recorded by `reply` whenever it
forwards any reply of the request to another shard. A sub-call that runs on a shard without a note counts the time since 0.
`FusedIsAverage`: the estimates of *fused* workflows, the only ones that are read, are nevertheless averages of real
times, because a fused request forwards once, from the shard of its root (`took` remembers these since the last reset); this `exec_time` is an `int` too, and an average
above `IntMax` is what `ToInt` makes of it. `NotesKept`: notes remain only of roots
that run or that ran where they were accepted (those remain for good).

## HashTable

One database: buckets of linked nodes under a `boost::shared_mutex`. `ht_get` walks under the shared lock.
`ht_set` walks under the upgradeable one, beside readers, upgrades, and writes. Walking, copying, replacing and
inserting are steps of their own; nodes are freed and allocated again. An entry's data is its version.
`Chain(b)`, the nodes that are reached from the head of a bucket, is the least set that holds the head and is closed under `next`.

*Properties.* `NoRace`: no other shard walks or writes while one writes. `ChainsSound`: chains end, hold every key
once, and no walk stands on a freed node, although the place to write was found before the upgrade.
`LocksReleased`: also an aborted set leaves the lock free. `ImplementsStore`: with `store` mapped to what is found along the
chains, every behaviour is one of `VersionedStore`, where get and set take effect at one instant. Deadlock is checked in
this run. Whether boost lets readers starve a writer is not modelled: no fairness is assumed.

## Timelines

`ht_get` and `ht_set` are atomic: they hold `_access`. Everything between them can be
interleaved, so every request is a process with a program counter. `table[k]` is the
entry of a key, its version and its list; an entry that is not there is `Absent`, which
services take for version 0 and the empty list. `Get`, `Set` and `Abort` are the three
parts of the loops that `follow` (twice) and `write_user_timeline` share; `Key` and `Updated` tell which list
a request is at and what it makes of it. `write_home_timeline` reads the followers (`get_followers`,
which changes nothing, is part of it) and then writes one timeline after another.

* The three calls of `upload_post` (store, own timeline, home timelines) run in that
  order: the request is fused, its tasks are on one shard and first-in first-out, and
  none of the functions waits before its list is written.
* `Fresh`: `rand()` is assumed not to return a version that somebody could still
  compare with, nor 0. When it does (once in 2^31) an update can be lost; the proof
  of `UpdatesStay` shows that nothing else is needed.
* A user is the string in his keys. `follow` uses names and `write_home_timeline` ids; where the two differ
  nobody is found among the followers. Keys do not collide (32-bit hashes do, rarely).
* `Mentions[p]` is not empty: without a mention `upload_user_mentions` throws and `upload_post` is never reached.

*Properties.* `NothingLost`: no element of any list ever disappears. `StoredFirst`: a post in
a timeline can be read. `FollowersFollow`: the two lists of `follow` never disagree in the
direction that matters, in between either. `DeliveredExactly`: after the answer the post is in
each timeline exactly as often as the audience says, whatever was aborted and tried again.
`RequestsEnd`: the loops do not keep one another from ending (`FairSpec`: weak fairness per
request, justified as above; an abort means that another loop got through).

## PushSorted and UserTimeline

`comp` returns a Boolean, so `cmp < 0` never holds and `push_sorted` stops at the first post it looks at
that is not older. `Search` is the loop; `Position` says where it ends without a
loop (the indices looked at while going right are fixed by the length, which is halved: `Halvings`), and is what
`Timelines` and its proofs use. `PositionIsSearch` says that they agree on every array that
arises and every new post. `SortedUnlessLate`: the timeline stays sorted for posts that
are overtaken by at most two newer ones; three are too many.
`PageFromStart`: a page has the length of the range that was asked for; from
index 0 it is that range. From elsewhere it is not: the loop counts through `range`
and reads `arr` (`user_timeline_service.js:87`).

## ComposePost

One request to `post/compose`, from its task to its answer. It is fused, so everything
happens on one reactor: `tasks` is the part of the run queue that belongs to the request, `micro` the
promises whose continuations are due, and V8 runs those before the next task. (Other requests may have
tasks in between; in a first-in first-out queue this does not change the order of ours.) Each function is an
action and so is each continuation. `tally` and `parts` are the request's keys in `compose_post_service.js`;
`posts` remembers each run of `upload_post` and what it found there. `text` says whether the text
has mentions and URLs; without them the functions throw (`null.length`).

*Properties.* `PostHasAllParts`: however the uploads are ordered, a post is made of all six parts. `AnsweredIsDelivered`: "ok" means
that the post is stored and in all timelines, for texts with a mention. `NothingAfterAnswer`: no call is left
to run after the answer. Both need the order of the queue: it makes the upload of the text, which
is waited for, the sixth. `Init` chooses whether the queue is in order (the release build) or `shuffled`
(the debug build); these two are about the first, `PostHasAllParts` about both. `Outcome`: a text without a URL is never answered, and its fused
request keeps its shard; one without a mention is answered and never posted. This is what the code does, stated as it is.

## Startup, UrlParse and HttpServer

`main` is a chain of stages; each sends orders to all shards (`orders`, carried out in order, `CarryOut`) and the next begins
when they are done (`Proceed`). Two things nobody waits for: the listeners, opened in the second stage, and the registrations, in the last.
`Leave` is the end: what was given to `at_exit` runs backwards. Meanwhile calls are accepted, run (`Run`, in the context
that `ctx_map` gives) and answered; an unregistered name is given context 0, as the `[]` of a map does. `crash` records
that a local object was used that is not there.

`UrlParse` translates `url_decode`, `set_query_param` and the splitting of the path, with `npos` and its wrap-around. `Means`, at its end, says
what a client means by a URL without decoding anything: which codes may stand for which character, and where a name or a value begins and ends.
`HttpServer` is one connection: the client sends what it has planned, at once or not, and may hang up at any point; the loop reads
a head and perhaps a body, asks the scheduler, waits, writes and reads on.

*Properties.* `AnsweredInOrder`: pipelined requests that run on any shards are answered in order. `StreamsAlive`:
the output stream that `new_req` keeps a reference to is not freed before it writes. `RequestAsSent`: whatever legal encoding
the client uses, the scheduler gets the service, function and parameters it means. `ClosedIsFreed`: after a hang-up the connection is
freed unless its function never replies. `RegisteredRunsOwn`: early requests, which were given context 0, do not spoil the number that the service gets
when it is registered. `KeptOnceRegistered`: every shard creates the service's database anew and so discards what the last one held;
once all have, nothing disappears.

`FairSpec`: weak fairness on what reactors do by themselves (`Loop`, `RunCall`) while the process has not crashed; the client
and `main` owe nothing.

## RespParser

`redis_protocol_parser.hh` is what Ragel made of a grammar of Redis requests. `Step` is its state machine by what its states mean (a number, the
name of a command, an argument of an announced length), `Handle` the reading of a connection as the HTTP parser is used. The stream may end a buffer anywhere.

`DeliveredAsSent` says what comes out. Without cuts: every request, whole, also with empty arguments, line ends in them, or
several requests in one buffer, and with the right command except for four: `incr`, `decr`, `hincrby` and `zunion` are taken
for the longer names that begin with them (`Misread`; the alternatives whose names agree so far all set the command, and the last wins). When a buffer ends inside a request, a
beginning of it is delivered as if it were all (`_state` is ok after the first character), never half an argument and never one of another request.

## Runs

| run | instance and bounds | distinct states |
|---|---|---|
| `Workload` | an ordinary request (r1 calls a, for which it does not wait; a calls d, which throws) and a fused one (two calls), received on different hardware shards; a third, big, shard; fairness | 105415 |
| `CoreLoad` | three calls, one fused, asked for by and placed on one hardware and two big shards; estimates missing, 0 and long; words modulo 64; the clock from 3 to 5 | 4814219 |
| `CoreLock` | three shards, two functions each, with and without big cores; fairness | 776242 |
| `FuncStats` | two shards, three runs each of 1 or 7 cycles, windows of two, 5 the largest int | 1237295 |
| `WorkflowStats` | three fused requests and an ordinary one on two shards, windows of two, two ticks, 1 the largest int | 820524 |
| `HashTable` | three shards, two keys in one bucket, two versions, four nodes; deadlock checked | 99292 |
| `UserTimeline` | six posts in all orders, two of the same time, all pages | 1671 |
| `Timelines` | two posts by one author mentioning one user, who follows the author meanwhile; four versions; fairness | 49716 |
| `Compose` | a post for three readers, with and without mentions and URLs, tasks in order and in any order | 16555 |
| `Server` | two shards, one listening; two services and an unknown one; two plans of two requests; start and stop; fairness | 48874 |
| `Shutdown` | the same; the violation described under [Finding](#finding) | |
| `Resp` | every command without arguments, `set` and `zunion` with empty, long and multi-line ones, six pairs of requests; buffers end anywhere | 70814 |

Why these are enough. `Workload`: every kind of reply (to the client, on the same shard, to another) happens;
the fused and the ordinary request share shards, so each arrives while the other is queued, parked, running and
forwarding; nesting of two makes a caller that is itself called; one call is not waited for and one throws. `CoreLoad`: three calls give a shard two and
leave one to compete; `W` is large enough that only the -1 wraps, as with 64 bits, and `Start` is not 0, as `rdtsc` is not. `CoreLock`: three are needed for
a holder, a sleeper and one more that contends; two functions let a shard come back while the effects of its first are there. `FuncStats` and `WorkflowStats`: three runs
cross the end of a window and go on, in every interleaving; windows of 100 and 1000 are abbreviated to two, which changes only when a reset happens; some averages fit in the int of the
instance and some do not; totals stay below 2^64. `HashTable`:
one bucket, so that every key shares a chain; three shards are a reader, a writer and a second writer that waits for the
upgradeable lock; four nodes are one for each key and two that sets bring, so that three shards set at a time until the table is full. Shards, nodes and versions
(`HashTable`), calls that are not fused (`CoreLoad`), and shards and fused requests (`WorkflowStats`) are interchangeable, hence the symmetry sets; there is none in the runs with liveness. Versions in `Timelines`: a live value
per loop in progress besides those in the entries compared with, so that `Fresh` is never empty. Six posts make arrays of every
length up to five to insert into, with up to three steps of the search. `Server`: two requests are enough for the second to
overtake or to outlive the first; the URLs are all encodings of one or two parameters over an alphabet that holds each character that is special.
Every bound is a CONSTANT named in its module (`MaxOps`, `MaxRuns`, `MaxNow`, `Limit`, ...) or the size of a set.

Deadlock is off where the workload is finite and the system then waits; that it does not stop earlier is what
`QuiescentClean`, `EveryRequestAnswered`, `RequestsEnd`, `AllGetThrough` and `ClosedIsFreed` say.

## Finding

`Shutdown` checks `LocalIsInitialized`, the assertion of Seastar's `sharded<T>::local()` that
`eval/with-db-shredder-vs-user.txt:33` records failing (after an `accept4` error on line 32), and finds it violated. `main.cc` opens the listeners (line 39)
before `sched_server.start()` has made the scheduler objects, and `at_exit` (line 35) runs in reverse: the schedulers go before the
listeners do. A request accepted in either interval, or a call that is on its way in the second, finds no local object.
On shard 0 both are plain calls (`submit_to` the own shard), so that in a release build its own scheduler object is there before its reactor
comes to accept anything: the interval at the start is that of the other listening shards.

## Proofs

All of the following hold for every value of the constants that satisfies the ASSUMEs of the module; what these say of the code stands beside
them (an `Absent` version is none that `db_set` makes, `main` registers a service once, a shard's hardware queues are numbers, ...).
Nothing else is assumed; no set has to be finite.

**`SchedulerProofs`**: for every forest of calls, every set of shards and every assignment of requests to shards,

* `Invariance`: `Spec => []IInv`, and from it `TypeCorrect`, `RepliesFindState`, `QueuesAgree`, `CurrReqIsExact`, `FusedHolds`;
* `FusedAlone`: the action property `FusedRunsAlone`;
* `ServerImplements`: `Spec` implies the specification of `Invocation`, with `phase` mapped to how far a call is;
* `NothingStranded`: `Spec => []QuiescentClean`.

`IInv` says exactly what every table holds as a function of how far each call is.
`StateInv` is the heart: `req_map[c][k]` is the local state while the client's shard waits
for `k`, the caller's shard while `k` can still reply on `c`, nothing else. None of the safety properties
is inductive without it: that a reply finds its state depends on messages
being out for the right calls only (`MsgInv`), on functions staying while they wait
(`TreeInv`), and on tasks and continuations existing once (`TaskInv`, `MicroInv`). That a fused
root does not reply before its sub-calls needs the tree to be well-founded
(`AcyclicAssumption`).

For `ServerImplements`: in each action at most one call changes its phase (`OneMoves`), and `IInv` gives the guard of the
abstract action: a function on the stack has everything it waits for (`ReplyStep`), a reply that arrives is the first (`ReturnStep`).

`NothingStranded` needs two more invariants, on top of `IInv`.
`WaitInv` says that a call that has not returned is somewhere: in a message, in the run queue or parked, on the stack, waiting for a
call, or due as a continuation. So a quiet server with work in it has parked tasks and calls that wait for others, and nothing else.
`OrderInv` says why that cannot be. `dispatch` hands out one task and leaves the rest to the events to come; if shard `c` has
tasks left that it could hand out, then a call of `dispatch` on `c` is due (`Coming`), or the call it handed out last has not
replied (`TakenUp`). Such a call waits for calls that were issued *after* that dispatch; following them down, each
waiting for a later one, ends at one that is parked, on a shard where `dispatch` was called *later still*. The shard among those with
parked tasks where `dispatch` was called last has no such successor: a contradiction (`QuietIsClean`; a fused request that holds a shard
against the others is excluded in the same way, within the request). The times in this argument are no part of the
server. `OrderInv` states that there *are* times and last calls that agree with the state in the way described
(`Ordered`), and each step of the proof names those of the next state, so that `Scheduler` needs no history variable.
Shards and calls need not be finite: at any time there is a last dispatch and a last issue.
As it quantifies over numbers, `OrderInv` is in no cfg.

**`TimelinesProofs`**: for any users, requests and versions, `TypeCorrect`, `PostsAreStored`,
`FollowersDoFollow`, the action property `UpdatesStay`, and `DeliveredAsAsked`. The invariant behind the first four is `SnapInv`: a request whose set would be accepted
has read what is still there. A set that is accepted writes a version nobody compares with, so it
makes every other request's version at that key stale. `DeliveredAsAsked` needs `CountInv`: in every
list an element occurs as often as the requests that deliver it have steps of their plan behind them; a set adds one occurrence and moves
one request on by one, an abort does neither (`TimesAppend`, `TimesInsert` count them).
The last part is about one timeline of any length. `PositionIsLoops`: the table of where the loop ends from every `m` solves the equation of
`Search`, and nothing else does; a wrong entry would have a last one (`PositionIsLoop`). `LateByTwoStaysSorted`: the halvings of any length come down to 2 or 3 and
to 1, so the search gets to the last two posts unless it stopped before, and if it did, three posts would be newer (`HalvingsFacts`, `PositionSplits`). `PagesAreRanges`.

**`HashTableProofs`**: `WritesAreExclusive` and `LocksAreReleased`, from who holds the lock where (`HeldBy`);
`ChainsAreSound` and the refinement `TableImplementsStore`, from `MemoryInvariance`. Its invariant `MInv` says
of the entries that each is allocated and in its bucket, under a key that no other has; of the node that a set brings, that it is linked
nowhere and nobody else's (`Brought`); and of a walk, that it is on its chain, has *not yet passed* the entry it looks for, and knows the node before
(`Walking`). The last is what makes the optimistic upgrade right: between the walk and the write others read, but none has written.
What an insertion or a replacement does to a chain is proved of the least closed set (`ReachStep`, `ReachLinked`, `LinkedChains`), so no induction is needed.
A get takes effect when it copies, a set when it replaces, inserts or finds another version (`CopyImplements`, `ReplaceImplements`, `InsertImplements`); all other steps stutter.

**`CoresProofs`**, of the loads: `IdleShardsLookFree` and `LongCallsOnBigCores` from an invariant that says which calls are known where; `PlacementIsEarliest`,
an action property, from the types alone: the argument is about the scan; `LoadIsAccounted`, where a placement
moves both bounds as it moves `busy_till` (`MovedExactly`: as long as the sum fits, adding modulo `W` is adding), and a reply, the first or
the second, sets a shard back only when nothing has to be kept (`LeaveLoad`, `FreeLoad`).
Of the mutex: `MutexHasOneHolder` (two tiers) and `QueuesAreNotShared` (any machine), from: whoever is inside holds a word that is not 0, and
without big cores everybody's target is himself.

**`FuncStatsProofs`**: `WindowsAreExact` and
`AveragesAreInRange`, from an invariant that says, for the one update in progress, how far its local values are ahead of
the shared ones, without a bound on how long a run takes. **`WorkflowStatsProofs`**: `FusedAverages` and `NotesAreKept`, from `Noting`: the shard that runs the root of a fused request has
the note of when it began, whatever sub-calls were forwarded from elsewhere.

**`HttpServerProofs`**: for any number of shards, listeners and services and any client, `RegisteredOwn`, the action property `WrittenIsKept`,
`AnswersInOrder` and `NoUseAfterFree`. The first two need to know which registrations are still out (`Registering`: of a service at most one per shard, and
none once it is carried out there) and that a registered name has the number of its own context (`Numbered`), although early requests
have put 0 under it. The other two need that at most one request of a connection is with the scheduler, the last one read, and
only while its loop waits (`Outstanding`).

`RequestsAreHeard` says that the scheduler is asked for what the client means, for URLs of any length below `npos`, any texts and any number of parameters. It rests on
`MeantIsAsked`, that `Asked` inverts `Means`. The loop of `url_decode` is a recursive function; `DecodeTable` gives it its equation, by continuing a table of
what is left from `i` on down to 0 (a least position at which it could not be continued is a contradiction), and `DecodeFacts` goes through that table from the end: where the code of a
character begins, what is left decodes to that character and the rest. `ParamFacts` and `QueryFacts` find each parameter between its "&"s, `PathFacts` the two names.
The assumption on `Urls`, that legal URLs mean what is said with them, leaves out the character 0 and names with a `.`; TLC evaluates it on every URL of the run.

**`ComposePostProofs`**: `NoPostHasGaps`, `TextDecidesOutcome`, `NothingRunsAfterAnswer` and `OkMeansDelivered`, for any number of readers. `Flow` says that each
part of the post is in one place on its way (a task, a promise, the text's wait, the tally), that the tally counts the parts that have arrived, and what has become of the calls
and writes of `upload_post`. `Fifo` is about the release build: the calls have ranks in the order in which a first-in first-out queue runs them, the queue is sorted by them, and each
function adds only calls that rank after all that are there; so when the text is uploaded, the other five have been, and it is the text's upload, for which somebody waits, that posts.
`AtTheEnd` and `AnsweredAtRest` say what is left when the answer is due and once it is given.

Before they were proved, `WaitInv` was checked with TLC on the instance of `Workload`, and `Ordered` with its times as history variables.

Only model-checked:

* everything under fairness: `EveryRequestAnswered`, `RequestsEnd`, `AllGetThrough`, `ClosedIsFreed`;
* `DeliveredAsSent`, since the names of commands are spelled with TLC's strings, which no prover takes apart, and requests are folded over character by character.

## Not modelled

* `busy`, used with `BOOL_SCHED` only; `ping`, `pong` and `test_reply`, which measure messages; `new_service`, which is empty.
* Data races inside `func_map`, `wf_map` and `db_map`, which are unordered maps that every shard inserts into: the outcomes are the library's, unbounded (`Startup` inserts into `db_map` in one step); `req_wf_map`, which only grows.
* Sub-calls that are still running when the function that made them throws (`FailingAssumption`), and calls of a fused request that nobody waits for, inside `Scheduler` (`FusedAssumption`).
* A root function that throws, inside `Scheduler` (`Failing` has no roots); `HttpServer` has it as a call that never gets a reply.
* `get_counter` and the clock of `unique_id_service.js`; ids are opaque.
* Users' names and ids are one string in `Timelines`; `write_home_timeline` asks by id while `follow` files by name.
* `rand()` returning a version in use, and keys whose 32-bit hashes collide.
* Memory: what `db_set` does not free after an abort, and the buffer freed twice; `get_table_direct`, a raw pointer.
* Response headers and `should_close`, which is computed and not used; parameter names that hold a `.`, which would be a path in a JSON tree.
* `mongo_get`, `sha1`, `base64_decode` and `print`; `reply_builder.hh`'s Redis replies, `redis_protocol_parser.c` and `seastarkv.hh`, which no file uses.
* `eval/`, `artifact/`, build scripts and vendored node modules.

## What is left

Users with a name and an id in `Timelines`, and `UniqueId` with a clock that may step back.
