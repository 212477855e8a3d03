------------------------------ MODULE Scheduler ------------------------------
(***************************************************************************)
(* The scheduler of scheduler.cc together with the parts of req_server.cc  *)
(* that drive it (the Call and Reply bindings, run_func, run_callback).    *)
(*                                                                         *)
(* One reactor thread runs per shard.  An action below is a maximal piece  *)
(* of code that a reactor runs between two points where another piece of   *)
(* the same reactor may come in: a task, a message handler, a promise      *)
(* continuation, or the part of a JS function up to its next Call, Reply   *)
(* or return.  Such a piece takes cores[0].mu several times, and other     *)
(* shards may run in between; what they can change of this shard's state   *)
(* is only to append to its q (get_core), and a call appended there is not *)
(* in task_map before this shard has run run_func for it, so a dispatch()  *)
(* decides the same with and without it.  Every other variable indexed by  *)
(* a shard is touched by that shard alone.                                 *)
(*                                                                         *)
(* Not in this module: the choice among shards by busy_till (any shard may *)
(* be chosen here), execution-time statistics, HTTP and the data of calls. *)
(***************************************************************************)
EXTENDS CallTree, SequencesExt

VARIABLES
    (* what the source keeps *)
    req_map,    \* req_map[c][k]: the reply state of call k on shard c
    callbacks,  \* callbacks[c]: calls whose callback_states shard c holds
    q,          \* q[c]: cores[c].q, the calls placed on shard c, oldest first
    task_map,   \* task_map[c]: calls with a task parked in cores[c].task_map
    curr_req,   \* curr_req[c]: the non-fused calls shard c has and not answered
    curr_wf,    \* curr_wf[c]: the fused requests that hold shard c
    (* what Seastar keeps *)
    ready,      \* ready[c]: tasks handed to the reactor's run queue
    net,        \* cross-shard messages not handled yet
    (* what V8 keeps *)
    js,         \* js[k]: idle, running or replied
    cur,        \* cur[c]: the call whose function is on shard c's stack
    micro,      \* micro[c]: calls whose promise is resolved, continuation due
    owed,       \* owed[c]: the call whose reply handler is not done on c
    (* where calls are *)
    issued,     \* calls issued so far
    at,         \* at[k]: the shard get_core chose for k
    returned    \* calls whose result has reached the caller (or the client)

serverVars == <<req_map, callbacks, q, task_map, curr_req, curr_wf>>
vars == <<serverVars, ready, net, js, cur, micro, owed, issued, at, returned>>

-----------------------------------------------------------------------------
(* reply_states: absent, local = true (with the connection's promise), or  *)
(* the shard to answer to.                                                 *)
NoState == "none"
Local == "local"
ReplyStates == {NoState, Local} \cup Cores

ASSUME ReplyStateAssumption == NoState \notin Cores /\ Local \notin Cores

Messages == [type : {"run_func", "reply", "ack"}, call : Calls, to : Cores, from : Cores]

Msg(type, k, from, to) == [type |-> type, call |-> k, to |-> to, from |-> from]

Init ==
    /\ req_map = [c \in Cores |-> [k \in Calls |-> NoState]]
    /\ callbacks = [c \in Cores |-> {}]
    /\ q = [c \in Cores |-> << >>]
    /\ task_map = [c \in Cores |-> {}]
    /\ curr_req = [c \in Cores |-> {}]
    /\ curr_wf = [c \in Cores |-> {}]
    /\ ready = [c \in Cores |-> {}]
    /\ net = {}
    /\ js = [k \in Calls |-> "idle"]
    /\ cur = [c \in Cores |-> NoCall]
    /\ micro = [c \in Cores |-> << >>]
    /\ owed = [c \in Cores |-> NoCall]
    /\ issued = {}
    /\ at = [k \in Calls |-> NoCore]
    /\ returned = {}

-----------------------------------------------------------------------------
(* The helpers below say what one function of the source does to the       *)
(* variables it may change, given the value `tasks', `queue', ... that the *)
(* caller has already produced.                                            *)

(* Variant: dispatch() that does not look at curr_wf.                      *)
HandedAnyway(queue, tasks, wf) ==
    {k \in tasks : queue # << >> /\ k = Head(queue)}

(* dispatch(): hand the oldest placed call to the reactor if its task has  *)
(* arrived and no fused request holds the shard.  One call at most.        *)
Handed(queue, tasks, wf) ==
    {k \in tasks : queue # << >> /\ wf = {} /\ k = Head(queue)}

StillQueued(queue, tasks, wf) ==
    IF Handed(queue, tasks, wf) = {} THEN queue ELSE Tail(queue)

Dispatch(c, queue, tasks, wf, run) ==
    /\ ready' = [ready EXCEPT ![c] = run \cup Handed(queue, tasks, wf)]
    /\ task_map' = [task_map EXCEPT ![c] = tasks \ Handed(queue, tasks, wf)]
    /\ q' = [q EXCEPT ![c] = StillQueued(queue, tasks, wf)]

(* Variant: the entry is written whether or not there is one.              *)
RegisterOverwrites(states, k, prev) == [states EXCEPT ![k] = prev]

(* `if (req_map.find(key) == req_map.end())': an entry that is there stays *)
Register(states, k, prev) ==
    IF states[k] = NoState THEN [states EXCEPT ![k] = prev] ELSE states

(* run_func(): the task of a fused request goes straight to the reactor,   *)
(* any other waits in task_map for its turn; then dispatch().              *)
RunFunc(c, k, queue) ==
    IF Fused(k)
    THEN /\ curr_wf' = [curr_wf EXCEPT ![c] = @ \cup {Req[k]}]
         /\ curr_req' = curr_req
         /\ Dispatch(c, queue, task_map[c], curr_wf'[c], ready[c] \cup {k})
    ELSE /\ curr_req' = [curr_req EXCEPT ![c] = @ \cup {k}]
         /\ curr_wf' = curr_wf
         /\ Dispatch(c, queue, task_map[c] \cup {k}, curr_wf[c], ready[c])

(* The shards get_core may return on shard c: without shards beyond the    *)
(* hardware queues (smp::count <= HW_Q_COUNT) a call stays where it is.    *)
Candidates(c) == IF Cores = HwCores THEN {c} ELSE Cores

(* schedule() on shard c: a sub-call of a fused request runs here, every   *)
(* other call joins the queue of the shard get_core picks.  `states' is    *)
(* c's req_map, already holding the local state of a new request.          *)
Schedule(c, k, states) ==
    \E d \in IF Fused(k) /\ k \notin Roots THEN {c} ELSE Candidates(c) :
        LET placed == IF Fused(k) /\ k \notin Roots THEN q[d] ELSE Append(q[d], k)
        IN  /\ at' = [at EXCEPT ![k] = d]
            /\ issued' = issued \cup {k}
            /\ req_map' = [req_map EXCEPT ![c] = Register(states, k, c)]
            /\ IF d = c
               THEN RunFunc(c, k, placed) /\ net' = net
               ELSE /\ net' = net \cup {Msg("run_func", k, c, d)}
                    /\ q' = [q EXCEPT ![d] = placed]
                    /\ UNCHANGED <<task_map, ready, curr_req, curr_wf>>

-----------------------------------------------------------------------------
(* Shard c is between two tasks.                                           *)
Idle(c) == cur[c] = NoCall /\ micro[c] = << >> /\ owed[c] = NoCall

(* new_req(): a connection of shard c has parsed request r.                *)
Accept(c, r) ==
    /\ Idle(c) /\ r \in Roots \ issued /\ Home[r] = c
    /\ Schedule(c, r, [req_map[c] EXCEPT ![r] = Local])
    /\ UNCHANGED <<callbacks, js, cur, micro, owed, returned>>

(* A run_func message arrives at the shard that get_core chose.            *)
RecvRun(c, m) ==
    /\ Idle(c) /\ m.type = "run_func" /\ m.to = c
    /\ req_map' = [req_map EXCEPT ![c] = Register(@, m.call, m.from)]
    /\ RunFunc(c, m.call, q[c])
    /\ net' = net \ {m}
    /\ UNCHANGED <<callbacks, js, cur, micro, owed, issued, at, returned>>

(* The reactor runs a task: req_service::run_func calls the JS function.   *)
RunTask(c, k) ==
    /\ Idle(c) /\ k \in ready[c]
    /\ ready' = [ready EXCEPT ![c] = @ \ {k}]
    /\ cur' = [cur EXCEPT ![c] = k]
    /\ js' = [js EXCEPT ![k] = "running"]
    /\ UNCHANGED <<serverVars, net, micro, owed, issued, at, returned>>

(* The `Call' binding: remember the callback, then schedule().             *)
IssueCall(c, k) ==
    /\ cur[c] # NoCall /\ k \in Children(cur[c]) \ issued
    /\ callbacks' = [callbacks EXCEPT ![c] = @ \cup {k}]
    /\ Schedule(c, k, req_map[c])
    /\ UNCHANGED <<js, cur, micro, owed, returned>>

(* The function on the stack returns while something it awaits is out.     *)
JsYield(c) ==
    /\ cur[c] # NoCall /\ Awaited(cur[c]) \cap (issued \ returned) # {}
    /\ cur' = [cur EXCEPT ![c] = NoCall]
    /\ UNCHANGED <<serverVars, ready, net, js, micro, owed, issued, at, returned>>

-----------------------------------------------------------------------------
(* reply() on shard c for call k.  All its branches erase the reply state, *)
(* drop k from the queue and from curr_req.                                *)
LeaveCore(c, k) ==
    /\ req_map' = [req_map EXCEPT ![c][k] = NoState]
    /\ curr_req' = [curr_req EXCEPT ![c] = @ \ {k}]

(* states->local: the connection's promise gets the reply; dispatch().     *)
AnswerClient(c, k) ==
    /\ req_map[c][k] = Local
    /\ LeaveCore(c, k)
    /\ returned' = returned \cup {k}
    /\ curr_wf' = [curr_wf EXCEPT ![c] = @ \ {Req[k]}]
    /\ Dispatch(c, RemoveFirst(q[c], k), task_map[c], curr_wf'[c], ready[c])
    /\ UNCHANGED <<callbacks, micro>>

(* Variant: any call of a fused request that is answered lets go of the    *)
(* shard, as the branch for another shard does.                            *)
CallbackReleases(c, k) ==
    /\ req_map[c][k] = c
    /\ LeaveCore(c, k)
    /\ callbacks' = [callbacks EXCEPT ![c] = @ \ {k}]
    /\ micro' = [micro EXCEPT ![c] = Append(@, k)]
    /\ curr_wf' = [curr_wf EXCEPT ![c] = @ \ {Req[k]}]
    /\ returned' = returned

(* prev_cpuid is this shard: run_callback resolves the caller's promise    *)
(* and forgets the callback.  The dispatch() after it is up to the caller. *)
Callback(c, k) ==
    /\ req_map[c][k] = c
    /\ LeaveCore(c, k)
    /\ callbacks' = [callbacks EXCEPT ![c] = @ \ {k}]
    /\ micro' = [micro EXCEPT ![c] = Append(@, k)]
    /\ UNCHANGED <<curr_wf, returned>>

(* Variants: `local' is not tested; the call stays in the queue; the shard *)
(* is not given back.                                                      *)
ForwardAnyState(c, k) ==
    /\ req_map[c][k] # c
    /\ LeaveCore(c, k)
    /\ curr_wf' = [curr_wf EXCEPT ![c] = IF Fused(k) THEN @ \ {Req[k]} ELSE @]
    /\ q' = [q EXCEPT ![c] = RemoveFirst(@, k)]
    /\ net' = net \cup {Msg("reply", k, c, req_map[c][k])}
    /\ UNCHANGED <<callbacks, task_map, ready, micro, returned>>

ForwardKeepsQueue(c, k) ==
    /\ req_map[c][k] \in Cores \ {c}
    /\ LeaveCore(c, k)
    /\ curr_wf' = [curr_wf EXCEPT ![c] = IF Fused(k) THEN @ \ {Req[k]} ELSE @]
    /\ net' = net \cup {Msg("reply", k, c, req_map[c][k])}
    /\ UNCHANGED <<callbacks, q, task_map, ready, micro, returned>>

ForwardKeepsShard(c, k) ==
    /\ req_map[c][k] \in Cores \ {c}
    /\ LeaveCore(c, k)
    /\ q' = [q EXCEPT ![c] = RemoveFirst(@, k)]
    /\ net' = net \cup {Msg("reply", k, c, req_map[c][k])}
    /\ UNCHANGED <<callbacks, curr_wf, task_map, ready, micro, returned>>

(* prev_cpuid is another shard: send the reply there, no dispatch() yet.   *)
Forward(c, k) ==
    /\ req_map[c][k] \in Cores \ {c}
    /\ LeaveCore(c, k)
    /\ curr_wf' = [curr_wf EXCEPT ![c] = IF Fused(k) THEN @ \ {Req[k]} ELSE @]
    /\ q' = [q EXCEPT ![c] = RemoveFirst(@, k)]
    /\ net' = net \cup {Msg("reply", k, c, req_map[c][k])}
    /\ UNCHANGED <<callbacks, task_map, ready, micro, returned>>

(* Variant: the function does not await its calls.                         *)
MayReplyEarly(k) == Children(k) \subseteq issued

MayReply(k) == Children(k) \subseteq issued /\ Awaited(k) \subseteq returned

(* The `Reply' binding, called by the function on the stack.  V8 runs the  *)
(* continuation of a promise resolved here only when that function is off  *)
(* the stack, so dispatch() comes first.                                   *)
JsReply(c) ==
    LET k == cur[c] IN
    /\ k # NoCall /\ k \notin Failing /\ MayReply(k)
    /\ js' = [js EXCEPT ![k] = "replied"]
    /\ cur' = [cur EXCEPT ![c] = NoCall]
    /\ \/ AnswerClient(c, k) /\ net' = net
       \/ /\ Callback(c, k) /\ net' = net
          /\ Dispatch(c, RemoveFirst(q[c], k), task_map[c], curr_wf[c], ready[c])
       \/ Forward(c, k)
    /\ UNCHANGED <<owed, issued, at>>

(* The function throws: run_func replies "error\n" for it.  Nothing is on  *)
(* the stack then, so the continuation runs inside run_callback and the    *)
(* dispatch() is owed until it is done.                                    *)
Throw(c) ==
    LET k == cur[c] IN
    /\ k # NoCall /\ k \in Failing
    /\ js' = [js EXCEPT ![k] = "replied"]
    /\ cur' = [cur EXCEPT ![c] = NoCall]
    /\ \/ /\ Callback(c, k) /\ net' = net
          /\ owed' = [owed EXCEPT ![c] = k]
          /\ q' = [q EXCEPT ![c] = RemoveFirst(@, k)]
          /\ UNCHANGED <<task_map, ready>>
       \/ Forward(c, k) /\ owed' = owed
    /\ UNCHANGED <<issued, at>>

(* A reply message arrives at the shard of the caller.                     *)
RecvReply(c, m) ==
    /\ Idle(c) /\ m.type = "reply" /\ m.to = c
    /\ \/ /\ AnswerClient(c, m.call)
          /\ net' = (net \ {m}) \cup {Msg("ack", m.call, c, m.from)}
          /\ owed' = owed
       \/ /\ Callback(c, m.call)
          /\ owed' = [owed EXCEPT ![c] = m.call]
          /\ q' = [q EXCEPT ![c] = RemoveFirst(@, m.call)]
          /\ net' = net \ {m}
          /\ UNCHANGED <<task_map, ready>>
    /\ UNCHANGED <<js, cur, issued, at>>

(* The continuation of a resolved promise runs: back in the caller, unless *)
(* nobody waits for the call.                                              *)
NextMicro(c) ==
    /\ cur[c] = NoCall /\ micro[c] # << >>
    /\ LET k == Head(micro[c]) IN
        /\ returned' = returned \cup {k}
        /\ cur' = [cur EXCEPT ![c] = IF k \in Detached THEN NoCall ELSE Parent[k]]
    /\ micro' = [micro EXCEPT ![c] = Tail(@)]
    /\ UNCHANGED <<serverVars, ready, net, js, owed, issued, at>>

(* run_callback is back: dispatch(), and if the reply came by a message    *)
(* the future of its sender's invoke_on resolves.                          *)
Finish(c) ==
    LET k == owed[c] IN
    /\ cur[c] = NoCall /\ micro[c] = << >> /\ k # NoCall
    /\ Dispatch(c, q[c], task_map[c], curr_wf[c], ready[c])
    /\ owed' = [owed EXCEPT ![c] = NoCall]
    /\ net' = IF at[k] = c THEN net ELSE net \cup {Msg("ack", k, c, at[k])}
    /\ UNCHANGED <<req_map, callbacks, curr_req, curr_wf, js, cur, micro, issued, at, returned>>

(* Variant: nobody waits for the future of invoke_on.                      *)
RecvAckOnly(c, m) ==
    /\ Idle(c) /\ m.type = "ack" /\ m.to = c
    /\ net' = net \ {m}
    /\ UNCHANGED <<serverVars, ready, js, cur, micro, owed, issued, at, returned>>

(* invoke_on(...).then([&] { dispatch(); })                                *)
RecvAck(c, m) ==
    /\ Idle(c) /\ m.type = "ack" /\ m.to = c
    /\ Dispatch(c, q[c], task_map[c], curr_wf[c], ready[c])
    /\ net' = net \ {m}
    /\ UNCHANGED <<req_map, callbacks, curr_req, curr_wf, js, cur, micro, owed, issued, at, returned>>

-----------------------------------------------------------------------------
(* What shard c does once a request is in the system.                      *)
ShardStep(c) ==
    \/ \E k \in Calls : RunTask(c, k)
    \/ \E k \in Calls : IssueCall(c, k)
    \/ JsReply(c) \/ JsYield(c) \/ Throw(c) \/ NextMicro(c) \/ Finish(c)
    \/ \E m \in net : RecvRun(c, m) \/ RecvReply(c, m) \/ RecvAck(c, m)

Next == \E c \in Cores : ShardStep(c) \/ \E r \in Roots : Accept(c, r)

(* A reactor that has something to do goes on doing it: the reactor polls  *)
(* its run queue and its message queues forever, and a service function    *)
(* does not loop.  Requests need not arrive.                               *)
Fairness == \A c \in Cores : WF_vars(ShardStep(c))

Spec == Init /\ [][Next]_vars
FairSpec == Spec /\ Fairness

-----------------------------------------------------------------------------
(* The type invariant: queues and sets hold calls, reply states are absent,*)
(* local or a shard, messages go between shards.                           *)
TypeOK ==
    /\ req_map \in [Cores -> [Calls -> ReplyStates]]
    /\ callbacks \in [Cores -> SUBSET Calls]
    /\ q \in [Cores -> Seq(Calls)]
    /\ task_map \in [Cores -> SUBSET Calls]
    /\ curr_req \in [Cores -> SUBSET Calls]
    /\ curr_wf \in [Cores -> SUBSET Calls]
    /\ ready \in [Cores -> SUBSET Calls]
    /\ net \subseteq Messages
    /\ js \in [Calls -> {"idle", "running", "replied"}]
    /\ cur \in [Cores -> Calls \cup {NoCall}]
    /\ micro \in [Cores -> Seq(Calls)]
    /\ owed \in [Cores -> Calls \cup {NoCall}]
    /\ issued \subseteq Calls
    /\ at \in [Calls -> Cores \cup {NoCore}]
    /\ returned \subseteq Calls

(* k has been placed and its run_func message, if any, not yet handled.    *)
InFlight(k) == \E m \in net : m.type = "run_func" /\ m.call = k

(* k is on its shard: run_func has been called for it, reply has not.      *)
OnShard(k) == k \in issued /\ ~InFlight(k) /\ js[k] # "replied"

(* reply() dereferences states, and run_callback the callback state.       *)
CanReply(c, k) == /\ req_map[c][k] # NoState
                  /\ req_map[c][k] = c => k \in callbacks[c]

(* A reply always finds its states (scheduler.cc reply, req_server.cc      *)
(* run_callback): the function that runs for a call, and every reply       *)
(* message, finds the call in req_map, and in the callbacks if it is to be *)
(* delivered there.  A missing entry is a null pointer.                    *)
ReplyHasState ==
    /\ \A k \in Calls : OnShard(k) => CanReply(at[k], k)
    /\ \A m \in net : m.type = "reply" =>
          CanReply(m.to, m.call) /\ req_map[m.to][m.call] \in {Local, m.to}

(* cores[c].q and cores[c].task_map agree although one is filled by the    *)
(* shard that places a call and the other by the shard that receives it:   *)
(* no call is queued twice, every parked task is queued (or dispatch()     *)
(* would never reach it), and every queued call is on its way, parked, or a*)
(* fused root still at work (or the head would block the shard for good).  *)
QueueAgreement ==
    \A c \in Cores :
        /\ IsInjective(q[c])
        /\ task_map[c] \subseteq ToSet(q[c])
        /\ \A k \in ToSet(q[c]) :
              /\ at[k] = c /\ js[k] # "replied"
              /\ k \in task_map[c] \/ InFlight(k) \/ k \in FusedReqs

(* curr_req, whose emptiness makes reply() declare the shard free (busy,   *)
(* busy_till), is exactly the non-fused calls the shard has not answered.  *)
CurrReqExact ==
    \A c \in Cores :
        curr_req[c] = {k \in Calls : OnShard(k) /\ at[k] = c /\ ~Fused(k)}

(* A fused request stays on the shard of its root, and holds that shard    *)
(* (curr_wf) as long as any call of it is there to be run.                 *)
FusedHoldsCore ==
    \A k \in Calls : Fused(k) /\ OnShard(k) =>
        at[k] = at[Req[k]] /\ Req[k] \in curr_wf[at[k]]

(* No piece of work is anywhere in the system.                             *)
Quiet == /\ net = {}
         /\ \A c \in Cores : Idle(c) /\ ready[c] = {}

(* When the reactors have nothing left to do, nothing is left behind: every*)
(* request was answered, no task is parked, no shard is still held or      *)
(* counted as busy, and the reply states and callbacks are gone.  A call   *)
(* that is never dispatched, a curr_wf entry that is never erased or a     *)
(* leaked reply state all show here.                                       *)
QuiescentClean ==
    Quiet => /\ issued \subseteq returned
             /\ \A c \in Cores :
                   /\ q[c] = << >> /\ task_map[c] = {}
                   /\ curr_req[c] = {} /\ curr_wf[c] = {} /\ callbacks[c] = {}
                   /\ \A k \in Calls : req_map[c][k] = NoState

(* While a fused request is on a shard, dispatch() hands no other call to  *)
(* that shard's reactor, whichever event calls it.                         *)
FusedRunsAlone ==
    [][\A c \in Cores : \A k \in ready'[c] \ ready[c] :
          ~Fused(k) => ~\E r \in FusedReqs : at'[r] = c /\ OnShard(r)']_vars

(* Every request that the server has taken is answered: no placement,      *)
(* arrival order or moment of a fused request strands a call.              *)
EveryRequestAnswered ==
    \A r \in Roots : r \in issued ~> r \in returned

(* What the workload sees of a call.                                       *)
phase == [k \in Calls |->
    IF k \notin issued THEN "uncalled"
    ELSE IF k \in returned THEN "returned"
    ELSE IF js[k] = "idle" THEN "placed" ELSE js[k]]

Promise == INSTANCE Invocation WITH phase <- phase

(* The sharded scheduler keeps what Invocation promises: calls run once,   *)
(* callers reply after what they await, results are delivered once.        *)
ImplementsInvocation == Promise!Spec
=============================================================================
