------------------------------ MODULE Startup -------------------------------
(***************************************************************************)
(* main.cc: the three distributed objects (net_server, sched_server,       *)
(* req_server) come up on every shard, the services are registered, and at *)
(* exit the objects go away again, while connections are accepted all the  *)
(* time and their requests are run.                                        *)
(*                                                                         *)
(* Shard 0 sends orders to the others and to itself; a shard carries them  *)
(* out in the order it gets them.  A request is a call of the root         *)
(* function; what the scheduler does with it otherwise is in Scheduler.    *)
(***************************************************************************)
EXTENDS Integers, SequencesExt

CONSTANTS
    Shards, Shard0,     \* Shard0 runs main
    Listeners,          \* the first HW_Q_COUNT shards
    Services,           \* the services in the order they are registered
    Unknown             \* a name that is never registered

ASSUME ShardsAssumption == Shard0 \in Shards /\ Listeners \subseteq Shards
(* main registers each service once.                                       *)
ASSUME ServicesAssumption == Services \in Seq(ToSet(Services)) /\ IsInjective(Services)

None == "none"
NoEntry == -1

VARIABLES
    stage,      \* how far the chain of futures in main is
    leaving,    \* how far the functions given to at_exit are
    orders,     \* orders[c]: orders on their way to shard c
    net,        \* net[c]: none, made, listening or gone, on shard c
    sched,      \* sched[c]: none, made or gone
    req,        \* req[c]: none, made, started or gone
    cores,      \* whether the vector `cores' has its elements
    contexts,   \* contexts[c][i + 1]: the service whose context is number i
    ctx_map,    \* ctx_map[c][s]: the number of s, or NoEntry
    db_map,     \* db_map[s]: what has been written to the database of s
    calls,      \* calls on their way to a shard or back
    crash       \* the assertion that failed, or the illegal access

lifecycle == <<stage, leaving, orders, net, sched, req, cores>>
serving == <<contexts, ctx_map, db_map>>
serverVars == <<lifecycle, serving, calls, crash>>

Names == ToSet(Services) \cup {Unknown}

Cold ==
    /\ stage = 0 /\ leaving = 0
    /\ orders = [c \in Shards |-> << >>]
    /\ net = [c \in Shards |-> None]
    /\ sched = [c \in Shards |-> None]
    /\ req = [c \in Shards |-> None]
    /\ cores = FALSE
    /\ contexts = [c \in Shards |-> << >>]
    /\ ctx_map = [c \in Shards |-> [s \in Names |-> NoEntry]]
    /\ db_map = [s \in Names |-> {}]
    /\ calls = {}
    /\ crash = None

-----------------------------------------------------------------------------
(* The orders of each stage of main.  Nobody waits for "listen" and for    *)
(* the registrations.                                                      *)
Order(what) == [what |-> what, service |-> Unknown]
Registrations == [i \in DOMAIN Services |-> [what |-> "register", service |-> Services[i]]]

Stages == <<"net", "sched", "cores", "req", "isolate", "services">>

Sent(i, c) ==
    CASE Stages[i] = "sched" ->
            (IF c \in Listeners THEN <<Order("listen")>> ELSE << >>) \o <<Order("sched")>>
      [] Stages[i] = "services" -> Registrations
      [] OTHER -> <<Order(Stages[i])>>

CarriedOut(what) == \A c \in Shards : Order(what) \notin ToSet(orders[c])

(* .then: the next stage begins when the one before is done everywhere.    *)
Proceed ==
    /\ stage < Len(Stages)
    /\ stage > 0 => CarriedOut(Stages[stage])
    /\ stage' = stage + 1
    /\ orders' = [c \in Shards |-> orders[c] \o Sent(stage + 1, c)]
    /\ UNCHANGED <<leaving, net, sched, req, cores>>

(* accept() fails and or_terminate makes the reactor of shard 0 stop: what *)
(* at_exit was given runs backwards, one object after the other.  (The     *)
(* model has this only after main's chain has ended.)                      *)
Departures == <<"sched gone", "req gone", "net gone">>

Leave ==
    /\ stage = Len(Stages) /\ leaving < Len(Departures)
    /\ leaving = 0 => \E c \in Listeners : net[c] = "listening"
    /\ leaving > 0 => CarriedOut(Departures[leaving])
    /\ leaving' = leaving + 1
    /\ orders' = [c \in Shards |-> Append(orders[c], Order(Departures[leaving + 1]))]
    /\ UNCHANGED <<stage, net, sched, req, cores>>

(* Variant: a name that is there keeps its number.                         *)
RegisterKeepsNumber(c, s) ==
    /\ contexts' = [contexts EXCEPT ![c] = Append(@, s)]
    /\ ctx_map' = IF ctx_map[c][s] # NoEntry THEN ctx_map
                  ELSE [ctx_map EXCEPT ![c][s] = Len(contexts[c])]
    /\ db_map' = [db_map EXCEPT ![s] = {}]

(* register_service: the next free context, and a new database, which      *)
(* replaces the one another shard has created.                             *)
Register(c, s) ==
    /\ contexts' = [contexts EXCEPT ![c] = Append(@, s)]
    /\ ctx_map' = [ctx_map EXCEPT ![c][s] = Len(contexts[c])]
    /\ db_map' = [db_map EXCEPT ![s] = {}]

(* Shard c carries out its next order.                                     *)
CarryOut(c) ==
    /\ orders[c] # << >>
    /\ orders' = [orders EXCEPT ![c] = Tail(@)]
    /\ LET o == Head(orders[c])
       IN  /\ net' = [net EXCEPT ![c] =
                  CASE o.what = "net" -> "made"
                    [] o.what = "listen" -> "listening"
                    [] o.what = "net gone" -> "gone"
                    [] OTHER -> @]
           /\ sched' = [sched EXCEPT ![c] =
                  CASE o.what = "sched" -> "made"
                    [] o.what = "sched gone" -> "gone"
                    [] OTHER -> @]
           /\ req' = [req EXCEPT ![c] =
                  CASE o.what = "req" -> "made"
                    [] o.what = "isolate" -> "started"
                    [] o.what = "req gone" -> "gone"
                    [] OTHER -> @]
           /\ cores' = (cores \/ (o.what = "cores" /\ c = Shard0))
           /\ IF o.what = "register" THEN Register(c, o.service) ELSE UNCHANGED serving
    /\ UNCHANGED <<stage, leaving>>

-----------------------------------------------------------------------------
(* get_local_sched() and new_req on shard c: the call is placed on any     *)
(* shard.  get_core looks at `cores', whatever its size.                   *)
Accept(c, r, s) ==
    IF sched[c] # "made" THEN crash' = "local_is_initialized" /\ calls' = calls
    ELSE IF ~cores THEN crash' = "cores[]" /\ calls' = calls
    ELSE /\ crash' = crash
         /\ \E d \in Shards :
               calls' = calls \cup {[what |-> "run", request |-> r, service |-> s,
                                    home |-> c, at |-> d]}

Context(c, s) == IF ctx_map[c][s] = NoEntry THEN 0 ELSE ctx_map[c][s]

(* Variant: a name that is new to the shard is given an empty database.    *)
WrittenAfresh(s, k) ==
    [db_map EXCEPT ![s] =
        IF ctx_map[k.at][k.service] = NoEntry THEN {k.request} ELSE @ \cup {k.request}]

(* db_set of a function that runs in the context of s, for the call k.     *)
Written(s, k) == [db_map EXCEPT ![s] = @ \cup {k.request}]

(* run_func on shard k.at: ctx_map[service] gives a name without a number  *)
(* number 0, and the function is looked up in that context.  It writes to  *)
(* the database of the context and replies, or throws: then nobody is told.*)
Run(k) ==
    /\ k \in calls /\ k.what = "run"
    /\ IF sched[k.at] # "made" \/ req[k.at] \in {None, "gone"}
       THEN crash' = "local_is_initialized" /\ UNCHANGED <<serving, calls>>
       ELSE IF req[k.at] = "made"
       THEN crash' = "isolate" /\ UNCHANGED <<serving, calls>>
       ELSE /\ ctx_map' = [ctx_map EXCEPT ![k.at][k.service] = Context(k.at, k.service)]
            /\ contexts' = contexts
            /\ IF Context(k.at, k.service) >= Len(contexts[k.at])
               THEN crash' = "contexts[]" /\ UNCHANGED <<db_map, calls>>
               ELSE /\ crash' = crash
                    /\ \/ /\ db_map' = Written(contexts[k.at][Context(k.at, k.service) + 1], k)
                          /\ calls' = (calls \ {k}) \cup {[k EXCEPT !.what = "reply"]}
                       \/ db_map' = db_map /\ calls' = calls \ {k}
    /\ UNCHANGED lifecycle

(* reply() on the shard of the client.                                     *)
Return(k) ==
    /\ k \in calls /\ k.what = "reply"
    /\ IF sched[k.home] # "made"
       THEN crash' = "local_is_initialized" /\ calls' = calls
       ELSE crash' = crash /\ calls' = calls \ {k}
    /\ UNCHANGED <<lifecycle, serving>>

-----------------------------------------------------------------------------
Registered(c, s) == s \in ToSet(contexts[c])

(* Once a shard has registered a service it runs its functions in the      *)
(* context of the service, also if requests for it came before and were    *)
(* given context 0.                                                        *)
RegisteredRunsOwn ==
    \A c \in Shards : \A s \in ToSet(Services) :
        Registered(c, s) => contexts[c][ctx_map[c][s] + 1] = s

(* Every shard makes a new database for a service; after the last one has, *)
(* nothing that was written is lost.  (Before, it may be: a service answers*)
(* as soon as one shard knows it.)                                         *)
KeptOnceRegistered ==
    [][\A s \in ToSet(Services) :
          (\A c \in Shards : Registered(c, s)) => db_map[s] \subseteq db_map'[s]]_db_map

(* The assertion of seastar's sharded<T>::local() that the evaluation notes*)
(* quote holds for the local objects the code uses.                        *)
LocalIsInitialized == crash # "local_is_initialized"
=============================================================================
