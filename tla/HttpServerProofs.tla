-------------------------- MODULE HttpServerProofs --------------------------
(***************************************************************************)
(* For any number of shards and services, and whatever clients send: the   *)
(* services of a server that is coming up are run in their own contexts    *)
(* and keep what they have written, the replies on a connection come in    *)
(* the order of its requests, and no stream is used after it was freed;    *)
(* and however a client encodes what it means, the scheduler is asked for  *)
(* it.                                                                     *)
(***************************************************************************)
EXTENDS HttpServer, SequenceTheorems, WellFoundedInduction, TLAPS

Whats == {"net", "listen", "sched", "cores", "req", "isolate", "services", "register",
          "sched gone", "req gone", "net gone"}
OrderType == [what : Whats, service : Names]
CallType == [what : {"run", "reply"}, request : Nat, service : Names, home : Shards, at : Shards]

Types ==
    /\ stage \in 0 .. 6 /\ leaving \in 0 .. 3
    /\ orders \in [Shards -> Seq(OrderType)]
    /\ contexts \in [Shards -> Seq(Names)]
    /\ ctx_map \in [Shards -> [Names -> Int]]
    /\ db_map \in [Names -> SUBSET Nat]
    /\ calls \subseteq CallType
    /\ home \in Shards
    /\ reads \in Nat
    /\ resolved \subseteq Nat
    /\ replies \in Seq(Nat)

(* A registration that is on its way to a shard is the only one of its     *)
(* service, and has not been carried out there; none is before main has    *)
(* come so far.                                                            *)
IsRegister(o) == o.what = "register"

Registering ==
    \A c \in Shards :
        /\ stage < 6 => /\ contexts[c] = << >>
                        /\ \A i \in 1 .. Len(orders[c]) : ~IsRegister(orders[c][i])
        /\ \A i \in 1 .. Len(orders[c]) : IsRegister(orders[c][i]) =>
              orders[c][i].service \notin ToSet(contexts[c])
        /\ \A i, j \in 1 .. Len(orders[c]) :
              /\ IsRegister(orders[c][i]) /\ IsRegister(orders[c][j])
              /\ orders[c][i].service = orders[c][j].service
              => i = j

(* The number that a shard has for a service is the one of its context.    *)
Numbered ==
    \A c \in Shards : \A s \in ToSet(contexts[c]) :
        /\ s \in Names
        /\ ctx_map[c][s] \in 0 .. Len(contexts[c]) - 1
        /\ contexts[c][ctx_map[c][s] + 1] = s

(* One request of the connection is with the scheduler, or answered and    *)
(* not yet written, at most, and none unless the loop waits for it.        *)
Outstanding ==
    IF pc = "waiting"
    THEN /\ \A k, l \in calls : k = l
         /\ \A k \in calls : k.request = reads
         /\ resolved \subseteq {reads}
         /\ calls # {} => resolved = {}
    ELSE calls = {} /\ resolved = {}

(* What was asked before has been answered.                                *)
Answered ==
    /\ AnsweredInOrder
    /\ pc = "waiting" => Len(replies) + 1 = reads
    /\ pc \in {"none", "reading", "body"} => Len(replies) = reads

SInv == Registering /\ Numbered
CInv == Outstanding /\ Answered /\ StreamsAlive
IInv == Types /\ SInv /\ CInv

-----------------------------------------------------------------------------
(* Orders that are sent come behind those that are there.                  *)
LEMMA ConcatFacts ==
    ASSUME NEW S, NEW l \in Seq(S), NEW r \in Seq(S)
    PROVE  /\ l \o r \in Seq(S) /\ Len(l \o r) = Len(l) + Len(r)
           /\ Len(l) \in Nat /\ Len(r) \in Nat
           /\ \A i \in 1 .. Len(l) : (l \o r)[i] = l[i]
           /\ \A i \in Len(l) + 1 .. Len(l) + Len(r) : (l \o r)[i] = r[i - Len(l)]
<1>1. /\ l \o r \in Seq(S) /\ Len(l \o r) = Len(l) + Len(r)
      /\ \A i \in 1 .. Len(l) + Len(r) :
            (l \o r)[i] = IF i <= Len(l) THEN l[i] ELSE r[i - Len(l)]
  BY ConcatProperties
<1> DEFINE t == l \o r
<1> HIDE DEF t
<1> QED
  BY <1>1 DEF t

(* Stages of main, and what they order.                                    *)
LEMMA SentFacts ==
    ASSUME NEW i \in 1 .. 6, NEW c \in Shards
    PROVE  /\ Sent(i, c) \in Seq(OrderType)
           /\ i < 6 => \A j \in 1 .. Len(Sent(i, c)) : ~IsRegister(Sent(i, c)[j])
           /\ i = 6 => Sent(i, c) = Registrations
<1>1. \A w \in Whats : Order(w) \in OrderType /\ Order(w).what = w
  BY DEF Order, OrderType, Names
<1>2. Registrations \in Seq(OrderType)
  <2>1. /\ Services \in Seq(ToSet(Services)) /\ Len(Services) \in Nat
        /\ DOMAIN Services = 1 .. Len(Services)
    BY ServicesAssumption
  <2>2. \A j \in 1 .. Len(Services) : Services[j] \in Names
    BY <2>1 DEF Names, ToSet
  <2>3. \A j \in 1 .. Len(Services) : [what |-> "register", service |-> Services[j]] \in OrderType
    BY <2>2 DEF OrderType, Whats
  <2> QED
    BY <2>1, <2>3 DEF Registrations
<1>3. Stages[1] = "net" /\ Stages[2] = "sched" /\ Stages[3] = "cores" /\ Stages[4] = "req"
      /\ Stages[5] = "isolate" /\ Stages[6] = "services"
  BY DEF Stages
<1>4. CASE i = 6
  BY <1>2, <1>3, <1>4 DEF Sent
<1>5. CASE i = 2
  <2>1. /\ Order("listen") \in OrderType /\ Order("sched") \in OrderType
        /\ ~IsRegister(Order("listen")) /\ ~IsRegister(Order("sched"))
    BY <1>1 DEF Whats, IsRegister
  <2>2. Sent(i, c) = (IF c \in Listeners THEN <<Order("listen")>> ELSE << >>) \o <<Order("sched")>>
    BY <1>3, <1>5 DEF Sent
  <2> DEFINE l == IF c \in Listeners THEN <<Order("listen")>> ELSE << >>
             r == <<Order("sched")>>
  <2>3. /\ l \in Seq(OrderType) /\ r \in Seq(OrderType)
        /\ \A j \in 1 .. Len(l) : ~IsRegister(l[j])
        /\ \A j \in 1 .. Len(r) : ~IsRegister(r[j])
    BY <2>1
  <2> HIDE DEF l, r
  <2>4. \A j \in 1 .. Len(l \o r) : ~IsRegister((l \o r)[j])
    <3>1. /\ Len(l \o r) = Len(l) + Len(r) /\ Len(l) \in Nat /\ Len(r) \in Nat
          /\ \A j \in 1 .. Len(l) : (l \o r)[j] = l[j]
          /\ \A j \in Len(l) + 1 .. Len(l) + Len(r) :
                (l \o r)[j] = r[j - Len(l)] /\ j - Len(l) \in 1 .. Len(r)
      BY <2>3, ConcatFacts
    <3> DEFINE t == l \o r
    <3> HIDE DEF t
    <3> SUFFICES ASSUME NEW j \in 1 .. Len(t) PROVE ~IsRegister(t[j])
      BY DEF t
    <3>2. CASE j \in 1 .. Len(l)
      BY <3>1, <3>2, <2>3 DEF t
    <3>3. CASE j \in Len(l) + 1 .. Len(l) + Len(r)
      BY <3>1, <3>3, <2>3 DEF t
    <3> QED
      BY <3>1, <3>2, <3>3 DEF t
  <2> QED
    BY <2>2, <2>3, <2>4, <1>5, ConcatFacts DEF l, r
<1>6. CASE i \in {1, 3, 4, 5}
  <2>1. Sent(i, c) = <<Order(Stages[i])>>
    BY <1>3, <1>6 DEF Sent
  <2>2. Stages[i] \in Whats /\ Stages[i] # "register"
    BY <1>3, <1>6 DEF Whats
  <2>3. Order(Stages[i]) \in OrderType /\ ~IsRegister(Order(Stages[i]))
    BY <1>1, <2>2 DEF IsRegister
  <2> QED
    BY <2>1, <2>3, <1>6
<1> QED
  BY <1>4, <1>5, <1>6

(* Nothing is there when the program begins.                               *)
LEMMA InitIInv == Init => IInv
<1> SUFFICES ASSUME Init PROVE IInv
  OBVIOUS
<1>1. Types
  BY ShardsAssumption DEF Init, Cold, Types, NoEntry
<1>2. SInv
  BY DEF Init, Cold, SInv, Registering, Numbered, ToSet
<1>3. CInv
  BY DEF Init, Cold, CInv, Outstanding, Answered, AnsweredInOrder, StreamsAlive
<1> QED
  BY <1>1, <1>2, <1>3 DEF IInv

-----------------------------------------------------------------------------
(* main goes on: the registrations are sent once, when no service is known.*)
LEMMA ProceedStep ==
    ASSUME IInv, Proceed, serving' = serving
    PROVE  SInv' /\ stage' \in 0 .. 6 /\ orders' \in [Shards -> Seq(OrderType)]
<1>1. /\ stage \in 0 .. 5 /\ stage' = stage + 1
      /\ orders' = [c \in Shards |-> orders[c] \o Sent(stage + 1, c)]
      /\ UNCHANGED <<contexts, ctx_map>>
  BY DEF Proceed, Stages, IInv, Types, serving
<1>2. stage + 1 \in 1 .. 6
  BY <1>1
<1>3. ASSUME NEW c \in Shards
      PROVE  /\ orders'[c] \in Seq(OrderType)
             /\ stage' < 6 => \A i \in 1 .. Len(orders'[c]) : ~IsRegister(orders'[c][i])
             /\ stage' = 6 => \A i \in 1 .. Len(orders'[c]) : IsRegister(orders'[c][i]) =>
                   /\ i - Len(orders[c]) \in 1 .. Len(Services)
                   /\ orders'[c][i].service = Services[i - Len(orders[c])]
  <2> DEFINE l == orders[c]
             r == Sent(stage + 1, c)
             t == l \o r
  <2>1. /\ l \in Seq(OrderType) /\ r \in Seq(OrderType)
        /\ \A i \in 1 .. Len(l) : ~IsRegister(l[i])
        /\ stage' < 6 => \A i \in 1 .. Len(r) : ~IsRegister(r[i])
        /\ stage' = 6 => r = Registrations
    <3>1. orders[c] \in Seq(OrderType) /\ \A i \in 1 .. Len(orders[c]) : ~IsRegister(orders[c][i])
      BY <1>1 DEF IInv, Types, SInv, Registering
    <3>2. \A i \in 1 .. 6 :
             /\ Sent(i, c) \in Seq(OrderType)
             /\ i < 6 => \A j \in 1 .. Len(Sent(i, c)) : ~IsRegister(Sent(i, c)[j])
             /\ i = 6 => Sent(i, c) = Registrations
      BY SentFacts
    <3> QED
      BY <3>1, <3>2, <1>1, <1>2
  <2>2. orders'[c] = t
    BY <1>1
  <2> HIDE DEF l, r
  <2>3. /\ t \in Seq(OrderType) /\ Len(t) = Len(l) + Len(r)
        /\ Len(l) \in Nat /\ Len(r) \in Nat
        /\ \A i \in 1 .. Len(l) : t[i] = l[i]
        /\ \A i \in Len(l) + 1 .. Len(l) + Len(r) : t[i] = r[i - Len(l)]
    BY <2>1, ConcatFacts
  <2> HIDE DEF t
  <2>4. ASSUME NEW i \in 1 .. Len(t)
        PROVE  \/ i \in 1 .. Len(l) /\ ~IsRegister(t[i])
               \/ i - Len(l) \in 1 .. Len(r) /\ t[i] = r[i - Len(l)]
    <3>1. CASE i <= Len(l)
      BY <2>1, <2>3, <3>1
    <3>2. CASE i > Len(l)
      BY <2>3, <3>2
    <3> QED
      BY <2>3, <3>1, <3>2
  <2>5. stage' < 6 => \A i \in 1 .. Len(t) : ~IsRegister(t[i])
    BY <2>1, <2>4
  <2>6. ASSUME stage' = 6, NEW i \in 1 .. Len(t), IsRegister(t[i])
        PROVE  i - Len(l) \in 1 .. Len(Services) /\ t[i].service = Services[i - Len(l)]
    <3>1. i - Len(l) \in 1 .. Len(r) /\ t[i] = r[i - Len(l)]
      BY <2>4, <2>6
    <3>2. r = [j \in DOMAIN Services |-> [what |-> "register", service |-> Services[j]]]
      BY <2>1, <2>6 DEF Registrations
    <3>3. DOMAIN Services = 1 .. Len(Services) /\ Len(Services) \in Nat
      BY ServicesAssumption
    <3>4. Len(r) = Len(Services)
      BY <3>2, <3>3
    <3> QED
      BY <3>1, <3>2, <3>3, <3>4
  <2> QED
    BY <2>2, <2>3, <2>5, <2>6 DEF l
<1>4. Numbered'
  BY <1>1 DEF IInv, SInv, Numbered
<1>5. Registering'
  <2> SUFFICES ASSUME NEW c \in Shards
               PROVE  /\ stage' < 6 => /\ contexts[c] = << >>
                                       /\ \A i \in 1 .. Len(orders'[c]) : ~IsRegister(orders'[c][i])
                      /\ \A i \in 1 .. Len(orders'[c]) : IsRegister(orders'[c][i]) =>
                            orders'[c][i].service \notin ToSet(contexts[c])
                      /\ \A i, j \in 1 .. Len(orders'[c]) :
                            /\ IsRegister(orders'[c][i]) /\ IsRegister(orders'[c][j])
                            /\ orders'[c][i].service = orders'[c][j].service
                            => i = j
    BY <1>1 DEF Registering, IsRegister
  <2>1. contexts[c] = << >> /\ ToSet(contexts[c]) = {}
    BY <1>1 DEF IInv, SInv, Registering, ToSet
  <2>2. stage' < 6 \/ stage' = 6
    BY <1>1
  <2>3. ASSUME NEW i \in 1 .. Len(orders'[c]), NEW j \in 1 .. Len(orders'[c]),
               IsRegister(orders'[c][i]), IsRegister(orders'[c][j]),
               orders'[c][i].service = orders'[c][j].service
        PROVE  i = j
    <3>1. Len(orders[c]) \in Nat
      BY DEF IInv, Types
    <3>2. /\ i - Len(orders[c]) \in 1 .. Len(Services)
          /\ j - Len(orders[c]) \in 1 .. Len(Services)
          /\ Services[i - Len(orders[c])] = Services[j - Len(orders[c])]
      BY <1>3, <2>2, <2>3
    <3>3. i - Len(orders[c]) = j - Len(orders[c])
      BY <3>2, ServicesAssumption DEF IsInjective
    <3> QED
      BY <3>1, <3>3
  <2> QED
    BY <1>3, <2>1, <2>3
<1>6. orders' \in [Shards -> Seq(OrderType)]
  BY <1>1, <1>3
<1> QED
  BY <1>1, <1>4, <1>5, <1>6 DEF SInv

(* The orders at exit register nothing.                                    *)
LEMMA LeaveStep ==
    ASSUME IInv, Leave, serving' = serving
    PROVE  SInv' /\ leaving' \in 0 .. 3 /\ orders' \in [Shards -> Seq(OrderType)]
<1> DEFINE o == Order(Departures[leaving + 1])
<1>1. /\ leaving' = leaving + 1 /\ leaving \in 0 .. 2 /\ stage' = stage /\ stage = 6
      /\ orders' = [c \in Shards |-> Append(orders[c], o)]
      /\ UNCHANGED <<contexts, ctx_map>>
  <2>1. Len(Departures) = 3 /\ Len(Stages) = 6
    BY DEF Departures, Stages
  <2> QED
    BY <2>1 DEF Leave, IInv, Types, serving
<1>2. o \in OrderType /\ ~IsRegister(o)
  <2>1. /\ Departures[1] = "sched gone" /\ Departures[2] = "req gone"
        /\ Departures[3] = "net gone"
    BY DEF Departures
  <2>2. Departures[leaving + 1] \in Whats /\ Departures[leaving + 1] # "register"
    <3>1. leaving + 1 \in {1, 2, 3}
      BY <1>1
    <3> QED
      BY <2>1, <3>1 DEF Whats
  <2> QED
    BY <2>2 DEF Order, OrderType, Names, IsRegister
<1> HIDE DEF o
<1>3. ASSUME NEW c \in Shards
      PROVE  /\ orders'[c] \in Seq(OrderType)
             /\ \A i \in 1 .. Len(orders'[c]) : IsRegister(orders'[c][i]) =>
                   i \in 1 .. Len(orders[c]) /\ orders'[c][i] = orders[c][i]
  <2>1. orders[c] \in Seq(OrderType)
    BY DEF IInv, Types
  <2> DEFINE t == Append(orders[c], o)
  <2>2. /\ t \in Seq(OrderType) /\ Len(t) = Len(orders[c]) + 1 /\ Len(orders[c]) \in Nat
        /\ \A i \in 1 .. Len(orders[c]) : t[i] = orders[c][i]
        /\ t[Len(orders[c]) + 1] = o
    BY <1>2, <2>1
  <2>3. orders'[c] = t
    BY <1>1
  <2> HIDE DEF t
  <2> QED
    BY <1>2, <2>2, <2>3
<1>4. Registering'
  BY <1>1, <1>3 DEF IInv, SInv, Registering, IsRegister
<1>5. Numbered'
  BY <1>1 DEF IInv, SInv, Numbered
<1>6. orders' \in [Shards -> Seq(OrderType)]
  BY <1>1, <1>3
<1> QED
  BY <1>1, <1>4, <1>5, <1>6 DEF SInv

(* A new context is the last one.                                          *)
LEMMA AppendFacts ==
    ASSUME NEW S, NEW l \in Seq(S), NEW e \in S
    PROVE  LET t == Append(l, e) IN
           /\ t \in Seq(S) /\ Len(t) = Len(l) + 1 /\ Len(l) \in Nat
           /\ \A i \in 1 .. Len(l) : t[i] = l[i]
           /\ t[Len(l) + 1] = e
           /\ \A x \in ToSet(t) : x \in ToSet(l) \cup {e}
<1> DEFINE t == Append(l, e)
<1>1. /\ t \in Seq(S) /\ Len(t) = Len(l) + 1 /\ Len(l) \in Nat
      /\ \A i \in 1 .. Len(l) : t[i] = l[i]
      /\ t[Len(l) + 1] = e
  OBVIOUS
<1> HIDE DEF t
<1>2. \A x \in ToSet(t) : x \in ToSet(l) \cup {e}
  BY <1>1 DEF ToSet
<1> QED
  BY <1>1, <1>2 DEF t

(* A shard carries out an order; a registration gives the service the last *)
(* number, which is that of its context.                                   *)
LEMMA CarryOutStep ==
    ASSUME IInv, NEW c \in Shards, CarryOut(c)
    PROVE  /\ SInv'
           /\ orders' \in [Shards -> Seq(OrderType)]
           /\ contexts' \in [Shards -> Seq(Names)]
           /\ ctx_map' \in [Shards -> [Names -> Int]]
           /\ db_map' \in [Names -> SUBSET Nat]
           /\ \A s \in Names : ~(db_map[s] \subseteq db_map'[s]) => s \notin ToSet(contexts[c])
<1> DEFINE o == Head(orders[c])
           rest == Tail(orders[c])
<1>1. /\ orders[c] # << >> /\ orders[c] \in Seq(OrderType)
      /\ orders' = [orders EXCEPT ![c] = rest] /\ stage' = stage
      /\ IF IsRegister(o) THEN Register(c, o.service)
         ELSE UNCHANGED <<contexts, ctx_map, db_map>>
  BY DEF CarryOut, IInv, Types, serving, IsRegister
<1>2. /\ o \in OrderType /\ o = orders[c][1] /\ rest \in Seq(OrderType)
      /\ Len(rest) = Len(orders[c]) - 1 /\ Len(orders[c]) \in Nat \ {0}
      /\ \A i \in 1 .. Len(rest) : rest[i] = orders[c][i + 1]
  BY <1>1
<1> HIDE DEF o, rest
<1>3. orders' \in [Shards -> Seq(OrderType)] /\ orders'[c] = rest
      /\ \A d \in Shards \ {c} : orders'[d] = orders[d]
  BY <1>1, <1>2 DEF IInv, Types
<1>4. /\ IsRegister(o) => stage = 6 /\ o.service \notin ToSet(contexts[c])
      /\ \A i \in 1 .. Len(rest) : IsRegister(rest[i]) =>
            /\ stage = 6 /\ rest[i].service \notin ToSet(contexts[c])
            /\ IsRegister(o) => rest[i].service # o.service
      /\ \A i, j \in 1 .. Len(rest) :
            IsRegister(rest[i]) /\ IsRegister(rest[j]) /\ rest[i].service = rest[j].service
            => i = j
  <2>1. /\ \A i \in 1 .. Len(orders[c]) : IsRegister(orders[c][i]) =>
              stage = 6 /\ orders[c][i].service \notin ToSet(contexts[c])
        /\ \A i, j \in 1 .. Len(orders[c]) :
              /\ IsRegister(orders[c][i]) /\ IsRegister(orders[c][j])
              /\ orders[c][i].service = orders[c][j].service
              => i = j
    BY DEF IInv, Types, SInv, Registering
  <2>2. 1 \in 1 .. Len(orders[c])
    BY <1>2
  <2>3. \A i \in 1 .. Len(rest) :
           i + 1 \in 1 .. Len(orders[c]) /\ rest[i] = orders[c][i + 1] /\ i + 1 # 1
    BY <1>2
  <2>4. IsRegister(o) => stage = 6 /\ o.service \notin ToSet(contexts[c])
    BY <2>1, <2>2, <1>2
  <2>5. ASSUME NEW i \in 1 .. Len(rest), IsRegister(rest[i])
        PROVE  /\ stage = 6 /\ rest[i].service \notin ToSet(contexts[c])
               /\ IsRegister(o) => rest[i].service # o.service
    BY <2>1, <2>2, <2>3, <2>5, <1>2
  <2>6. ASSUME NEW i \in 1 .. Len(rest), NEW j \in 1 .. Len(rest),
               IsRegister(rest[i]), IsRegister(rest[j]), rest[i].service = rest[j].service
        PROVE  i = j
    <3>1. /\ i + 1 \in 1 .. Len(orders[c]) /\ rest[i] = orders[c][i + 1]
          /\ j + 1 \in 1 .. Len(orders[c]) /\ rest[j] = orders[c][j + 1]
      BY <2>3
    <3>2. IsRegister(orders[c][i + 1]) /\ IsRegister(orders[c][j + 1])
      BY <2>6, <3>1
    <3>3. i + 1 = j + 1
      BY <2>1, <2>6, <3>1, <3>2
    <3> QED
      BY <3>3
  <2> QED
    BY <2>4, <2>5, <2>6
<1>5. CASE ~IsRegister(o)
  <2>1. UNCHANGED <<contexts, ctx_map, db_map>>
    BY <1>1, <1>5
  <2>3. Registering'
    <3> SUFFICES ASSUME NEW d \in Shards
                 PROVE  /\ stage < 6 => /\ contexts[d] = << >>
                                        /\ \A i \in 1 .. Len(orders'[d]) : ~IsRegister(orders'[d][i])
                        /\ \A i \in 1 .. Len(orders'[d]) : IsRegister(orders'[d][i]) =>
                              orders'[d][i].service \notin ToSet(contexts[d])
                        /\ \A i, j \in 1 .. Len(orders'[d]) :
                              /\ IsRegister(orders'[d][i]) /\ IsRegister(orders'[d][j])
                              /\ orders'[d][i].service = orders'[d][j].service
                              => i = j
      BY <1>1, <2>1 DEF Registering, IsRegister
    <3>1. CASE d = c
      <4>1. stage < 6 => contexts[c] = << >>
        BY DEF IInv, SInv, Registering
      <4> QED
        BY <3>1, <4>1, <1>3, <1>4
    <3>2. CASE d # c
      BY <3>2, <1>3 DEF IInv, SInv, Registering
    <3> QED
      BY <3>1, <3>2
  <2>4. Numbered'
    BY <2>1 DEF IInv, SInv, Numbered
  <2> QED
    BY <2>1, <2>3, <2>4, <1>3 DEF IInv, Types, SInv
<1>6. CASE IsRegister(o)
  <2> DEFINE s == o.service
             t == Append(contexts[c], s)
  <2>1. /\ s \in Names /\ s \notin ToSet(contexts[c]) /\ stage = 6
        /\ contexts[c] \in Seq(Names)
    BY <1>2, <1>4, <1>6 DEF IInv, Types, OrderType
  <2>2. /\ contexts' = [contexts EXCEPT ![c] = t]
        /\ ctx_map' = [ctx_map EXCEPT ![c][s] = Len(contexts[c])]
        /\ db_map' = [db_map EXCEPT ![s] = {}]
    BY <1>1, <1>6 DEF Register
  <2> HIDE DEF s
  <2>3. /\ t \in Seq(Names) /\ Len(t) = Len(contexts[c]) + 1 /\ Len(contexts[c]) \in Nat
        /\ \A i \in 1 .. Len(contexts[c]) : t[i] = contexts[c][i]
        /\ t[Len(contexts[c]) + 1] = s
        /\ \A x \in ToSet(t) : x \in ToSet(contexts[c]) \cup {s}
    BY <2>1, AppendFacts
  <2> HIDE DEF t
  <2>4. /\ contexts' \in [Shards -> Seq(Names)] /\ contexts'[c] = t
        /\ \A d \in Shards \ {c} : contexts'[d] = contexts[d]
    BY <2>2, <2>3 DEF IInv, Types
  <2>5. /\ ctx_map' \in [Shards -> [Names -> Int]] /\ ctx_map'[c][s] = Len(contexts[c])
        /\ \A x \in Names \ {s} : ctx_map'[c][x] = ctx_map[c][x]
        /\ \A d \in Shards \ {c} : ctx_map'[d] = ctx_map[d]
    BY <2>1, <2>2, <2>3 DEF IInv, Types
  <2>6. Numbered'
    <3> SUFFICES ASSUME NEW d \in Shards, NEW x \in ToSet(contexts'[d])
                 PROVE  /\ x \in Names
                        /\ ctx_map'[d][x] \in 0 .. Len(contexts'[d]) - 1
                        /\ contexts'[d][ctx_map'[d][x] + 1] = x
      BY DEF Numbered
    <3>1. CASE d # c
      <4>1. contexts'[d] = contexts[d] /\ ctx_map'[d] = ctx_map[d]
        BY <3>1, <2>4, <2>5
      <4> QED
        BY <4>1 DEF IInv, SInv, Numbered
    <3>2. CASE d = c /\ x = s
      BY <3>2, <2>1, <2>3, <2>4, <2>5
    <3>3. CASE d = c /\ x # s
      <4>1. x \in ToSet(contexts[c])
        BY <3>3, <2>3, <2>4
      <4>2. /\ x \in Names /\ ctx_map[c][x] \in 0 .. Len(contexts[c]) - 1
            /\ contexts[c][ctx_map[c][x] + 1] = x
        BY <4>1 DEF IInv, SInv, Numbered
      <4>3. ctx_map'[c][x] = ctx_map[c][x]
        BY <4>2, <3>3, <2>5
      <4>4. /\ ctx_map[c][x] + 1 \in 1 .. Len(contexts[c])
            /\ ctx_map[c][x] \in 0 .. Len(t) - 1
        BY <4>2, <2>3
      <4>5. t[ctx_map[c][x] + 1] = x
        BY <4>2, <4>4, <2>3
      <4> QED
        BY <4>2, <4>3, <4>4, <4>5, <3>3, <2>4
    <3> QED
      BY <3>1, <3>2, <3>3
  <2>7. Registering'
    <3> SUFFICES ASSUME NEW d \in Shards
                 PROVE  /\ \A i \in 1 .. Len(orders'[d]) : IsRegister(orders'[d][i]) =>
                              orders'[d][i].service \notin ToSet(contexts'[d])
                        /\ \A i, j \in 1 .. Len(orders'[d]) :
                              /\ IsRegister(orders'[d][i]) /\ IsRegister(orders'[d][j])
                              /\ orders'[d][i].service = orders'[d][j].service
                              => i = j
      BY <1>1, <2>1 DEF Registering, IsRegister
    <3>1. CASE d # c
      BY <3>1, <1>3, <2>4 DEF IInv, SInv, Registering
    <3>2. CASE d = c
      BY <3>2, <1>3, <1>4, <1>6, <2>3, <2>4 DEF s
    <3> QED
      BY <3>1, <3>2
  <2>8. db_map' \in [Names -> SUBSET Nat] /\ \A x \in Names \ {s} : db_map'[x] = db_map[x]
    BY <2>2 DEF IInv, Types
  <2> QED
    BY <2>1, <2>4, <2>5, <2>6, <2>7, <2>8, <1>3 DEF SInv
<1> QED
  BY <1>5, <1>6

(* What runs writes to a database that stays, and takes no number away.    *)
LEMMA RunStep ==
    ASSUME IInv, NEW k \in calls, Run(k)
    PROVE  /\ SInv'
           /\ ctx_map' \in [Shards -> [Names -> Int]]
           /\ db_map' \in [Names -> SUBSET Nat]
           /\ \A s \in Names : db_map[s] \subseteq db_map'[s]
           /\ UNCHANGED <<stage, leaving, orders, contexts>>
           /\ \/ calls' = calls
              \/ calls' = calls \ {k}
              \/ calls' = (calls \ {k}) \cup {[k EXCEPT !.what = "reply"]}
<1>1. /\ UNCHANGED <<stage, leaving, orders, contexts>>
      /\ \/ UNCHANGED <<ctx_map, db_map>>
         \/ ctx_map' = [ctx_map EXCEPT ![k.at][k.service] = Context(k.at, k.service)]
      /\ \/ db_map' = db_map
         \/ \E s : db_map' = [db_map EXCEPT ![s] = @ \cup {k.request}]
      /\ \/ calls' = calls
         \/ calls' = calls \ {k}
         \/ calls' = (calls \ {k}) \cup {[k EXCEPT !.what = "reply"]}
  BY DEF Run, Written, lifecycle, serving
<1>2. k.at \in Shards /\ k.service \in Names /\ k.request \in Nat
  BY DEF IInv, Types, CallType
<1>3. /\ ctx_map' \in [Shards -> [Names -> Int]]
      /\ \A c \in Shards, s \in Names : ctx_map[c][s] # NoEntry => ctx_map'[c][s] = ctx_map[c][s]
  <2>1. ctx_map \in [Shards -> [Names -> Int]]
    BY DEF IInv, Types
  <2> DEFINE v == Context(k.at, k.service)
  <2>2. v \in Int /\ (ctx_map[k.at][k.service] # NoEntry => v = ctx_map[k.at][k.service])
    BY <1>2, <2>1 DEF Context
  <2>3. UNCHANGED ctx_map \/ ctx_map' = [ctx_map EXCEPT ![k.at][k.service] = v]
    BY <1>1
  <2> HIDE DEF v
  <2>4. CASE UNCHANGED ctx_map
    BY <2>1, <2>4
  <2>5. CASE ctx_map' = [ctx_map EXCEPT ![k.at][k.service] = v]
    BY <1>2, <2>1, <2>2, <2>5
  <2> QED
    BY <2>3, <2>4, <2>5
<1>4. db_map' \in [Names -> SUBSET Nat] /\ \A s \in Names : db_map[s] \subseteq db_map'[s]
  <2>1. db_map \in [Names -> SUBSET Nat]
    BY DEF IInv, Types
  <2>2. CASE db_map' = db_map
    BY <2>1, <2>2
  <2>3. ASSUME NEW s, db_map' = [db_map EXCEPT ![s] = @ \cup {k.request}]
        PROVE  db_map' \in [Names -> SUBSET Nat] /\ \A x \in Names : db_map[x] \subseteq db_map'[x]
    BY <2>1, <2>3, <1>2
  <2> QED
    BY <2>2, <2>3, <1>1
<1>5. Numbered'
  <2> SUFFICES ASSUME NEW c \in Shards, NEW s \in ToSet(contexts[c])
               PROVE  s \in Names /\ ctx_map'[c][s] = ctx_map[c][s]
    BY <1>1 DEF IInv, SInv, Numbered
  <2>1. s \in Names /\ ctx_map[c][s] \in 0 .. Len(contexts[c]) - 1 /\ Len(contexts[c]) \in Nat
    BY DEF IInv, Types, SInv, Numbered
  <2> QED
    BY <2>1, <1>3 DEF NoEntry
<1>6. Registering'
  BY <1>1 DEF IInv, SInv, Registering, IsRegister
<1> QED
  BY <1>1, <1>3, <1>4, <1>5, <1>6 DEF SInv

-----------------------------------------------------------------------------
(* The variables of Types that the server's lifecycle is about.            *)
ServerTypes ==
    /\ stage \in 0 .. 6 /\ leaving \in 0 .. 3
    /\ orders \in [Shards -> Seq(OrderType)]
    /\ contexts \in [Shards -> Seq(Names)]
    /\ ctx_map \in [Shards -> [Names -> Int]]
    /\ db_map \in [Names -> SUBSET Nat]

(* What does not touch the server keeps what is known of it.               *)
LEMMA ServerKept ==
    ASSUME IInv, UNCHANGED <<lifecycle, serving>>
    PROVE  ServerTypes' /\ SInv'
BY DEF IInv, Types, ServerTypes, SInv, Registering, Numbered, IsRegister, lifecycle, serving

(* handle(): at most one call is made, and it is for the request read last.*)
LEMMA AskStep ==
    ASSUME IInv, pc \in {"reading", "body"}, Ask, UNCHANGED <<home, streams>>
    PROVE  /\ calls' \subseteq CallType /\ reads' \in Nat
           /\ CInv'
<1>1. /\ calls = {} /\ resolved = {} /\ Len(replies) = reads /\ reads \in Nat
      /\ reads' = reads + 1 /\ AnsweredInOrder /\ touched = FALSE
      /\ UNCHANGED <<home, resolved, replies, touched>>
  BY DEF IInv, Types, CInv, Outstanding, Answered, Ask, streams, StreamsAlive
<1>2. PICK h \in Hearings :
        \/ /\ h.service = {}
           /\ pc' = "closing"
           /\ UNCHANGED <<calls, crash>>
        \/ /\ pc' = AfterAsking
           /\ \E s \in h.service : Accept(home, reads', s)
  BY DEF Ask
<1>3. CASE h.service = {} /\ pc' = "closing" /\ UNCHANGED <<calls, crash>>
  BY <1>1, <1>3 DEF CInv, Outstanding, Answered, AnsweredInOrder, StreamsAlive
<1>4. CASE pc' = AfterAsking /\ \E s \in h.service : Accept(home, reads', s)
  <2>1. PICK s \in h.service : Accept(home, reads', s)
    BY <1>4
  <2>2. s \in Names
    BY DEF Hearings, Service, Names
  <2>3. \/ calls' = calls
        \/ \E d \in Shards : calls' = calls \cup {[what |-> "run", request |-> reads', service |-> s,
                                               home |-> home, at |-> d]}
    BY <2>1 DEF Accept
  <2>4. calls' \subseteq CallType
    BY <2>2, <2>3, <1>1 DEF IInv, Types, CallType
  <2>5. (\A k, l \in calls' : k = l) /\ \A k \in calls' : k.request = reads'
    BY <2>3, <1>1
  <2>6. pc' = "waiting"
    BY <1>4 DEF AfterAsking
  <2> QED
    BY <2>4, <2>5, <2>6, <1>1 DEF CInv, Outstanding, Answered, AnsweredInOrder, StreamsAlive
<1> QED
  BY <1>2, <1>3, <1>4

(* The reply that comes back is to the request that was asked last.        *)
LEMMA WriteStep ==
    ASSUME IInv, NEW r \in resolved, Write(r)
    PROVE  CInv' /\ resolved' \subseteq Nat /\ replies' \in Seq(Nat)
<1>1. /\ pc = "waiting" /\ r = reads /\ resolved = {reads} /\ calls = {} /\ reads \in Nat
      /\ Len(replies) + 1 = reads /\ AnsweredInOrder /\ touched = FALSE /\ replies \in Seq(Nat)
  <2>1. pc = "waiting" /\ resolved \subseteq {reads} /\ calls = {}
    BY DEF IInv, CInv, Outstanding
  <2>2. r = reads /\ resolved = {reads}
    BY <2>1
  <2>3. Len(replies) + 1 = reads /\ AnsweredInOrder /\ touched = FALSE
    BY <2>1 DEF IInv, CInv, Answered, StreamsAlive
  <2>4. reads \in Nat /\ replies \in Seq(Nat)
    BY DEF IInv, Types
  <2> QED
    BY <2>1, <2>2, <2>3, <2>4
<1>2. resolved' = {} /\ UNCHANGED <<calls, reads>>
  BY <1>1 DEF Write, serverVars
<1>3. CASE replies' = Append(replies, r) /\ touched' = touched /\ pc' \in {"closing", "reading"}
  <2> DEFINE t == Append(replies, r)
  <2>1. /\ t \in Seq(Nat) /\ Len(t) = reads /\ DOMAIN t = 1 .. reads
        /\ \A i \in 1 .. Len(replies) : t[i] = replies[i]
        /\ t[reads] = r
    BY <1>1
  <2>2. replies' = t
    BY <1>3
  <2> HIDE DEF t
  <2>3. \A i \in DOMAIN t : t[i] = i
    <3>1. \A i \in 1 .. Len(replies) : replies[i] = i
      BY <1>1 DEF AnsweredInOrder
    <3>2. ASSUME NEW i \in 1 .. reads PROVE i \in 1 .. Len(replies) \/ i = reads
      BY <1>1
    <3> QED
      BY <3>1, <3>2, <2>1, <1>1
  <2> QED
    BY <2>1, <2>2, <2>3, <1>1, <1>2, <1>3
    DEF CInv, Outstanding, Answered, AnsweredInOrder, StreamsAlive
<1>4. CASE pc' = "closing" /\ UNCHANGED <<replies, touched>>
  BY <1>1, <1>2, <1>4 DEF CInv, Outstanding, Answered, AnsweredInOrder, StreamsAlive
<1> QED
  BY <1>1, <1>3, <1>4 DEF Write

(* A step of the reactor for the connection.                               *)
LEMMA LoopStep ==
    ASSUME IInv, Loop
    PROVE  IInv'
<1> USE DEF IInv, Types
<1>1. ServerTypes' /\ SInv'
  <2>1. UNCHANGED <<lifecycle, serving>>
    BY DEF Loop, TakeHead, ExpectBody, TakeBody, ReadEnd, CloseOut, Resolve, Return, Write,
           serverVars
  <2> QED
    BY <2>1, ServerKept
<1>2. CASE TakeHead \/ TakeBody
  <2>1. pc \in {"reading", "body"} /\ Ask /\ UNCHANGED <<home, streams>>
    BY <1>2 DEF TakeHead, TakeBody
  <2>2. calls' \subseteq CallType /\ reads' \in Nat /\ CInv'
    BY <2>1, AskStep
  <2> QED
    BY <2>1, <2>2, <1>1 DEF ServerTypes, streams
<1>3. CASE ExpectBody \/ ReadEnd \/ CloseOut
  <2>1. /\ \/ pc = "reading" /\ pc' \in {"body", "closing"}
           \/ pc = "closing" /\ pc' = "freed"
        /\ UNCHANGED <<calls, home, reads, resolved, replies, touched>>
    BY <1>3 DEF ExpectBody, ReadEnd, EndIsSeen, CloseOut, serverVars, streams
  <2>2. CInv'
    BY <2>1 DEF CInv, Outstanding, Answered, AnsweredInOrder, StreamsAlive
  <2> QED
    BY <2>1, <2>2, <1>1 DEF ServerTypes
<1>4. ASSUME NEW k \in calls, Resolve(k) PROVE IInv'
  <2>1. /\ UNCHANGED <<pc, home, reads, replies, touched>>
        /\ \/ calls' = calls /\ resolved' = resolved
           \/ calls' = calls \ {k} /\ resolved' \in {resolved, resolved \cup {k.request}}
    <3>1. k \in calls /\ UNCHANGED <<pc, home, reads, replies, touched>>
      BY <1>4 DEF Resolve, conn
    <3>2. resolved' = IF crash' = None THEN resolved \cup {k.request} ELSE resolved
      BY <1>4 DEF Resolve
    <3>3. \/ crash' = "local_is_initialized" /\ calls' = calls
          \/ calls' = calls \ {k}
      BY <1>4 DEF Resolve, Return
    <3>4. "local_is_initialized" # None
      BY DEF None
    <3> QED
      BY <3>1, <3>2, <3>3, <3>4
  <2>2. k.request \in Nat
    BY DEF CallType
  <2>3. CInv'
    BY <2>1 DEF CInv, Outstanding, Answered, AnsweredInOrder, StreamsAlive
  <2> QED
    BY <2>1, <2>2, <2>3, <1>1 DEF ServerTypes
<1>5. ASSUME NEW r \in resolved, Write(r) PROVE IInv'
  <2>1. UNCHANGED <<calls, home, reads>>
    BY <1>5 DEF Write, serverVars
  <2> QED
    BY <2>1, <1>1, <1>5, WriteStep DEF ServerTypes
<1> QED
  BY <1>2, <1>3, <1>4, <1>5 DEF Loop

(* Every step of the specification preserves the invariant.                *)
LEMMA NextIInv == IInv /\ [Next]_vars => IInv'
<1> SUFFICES ASSUME IInv, [Next]_vars PROVE IInv'
  OBVIOUS
<1>1. ASSUME UNCHANGED <<lifecycle, serving, calls, home, reads, resolved, replies, touched>>,
             pc' = pc \/ (pc = "none" /\ pc' = "reading")
      PROVE  IInv'
  BY <1>1, ServerKept
  DEF IInv, Types, ServerTypes, CInv, Outstanding, Answered, AnsweredInOrder, StreamsAlive
<1>2. CASE UNCHANGED vars
  BY <1>1, <1>2 DEF vars, serverVars, conn, streams
<1>3. CASE Send \/ HangUp
  BY <1>1, <1>3 DEF Send, HangUp, serverVars, conn, streams
<1>4. ASSUME NEW c \in Listeners, Connect(c) PROVE IInv'
  <2>1. /\ pc = "none" /\ pc' = "reading" /\ home' = c /\ c \in Shards
        /\ UNCHANGED <<lifecycle, serving, calls, reads, resolved, replies, touched>>
    BY <1>4, ShardsAssumption DEF Connect, serverVars, streams
  <2> QED
    BY <2>1, ServerKept
    DEF IInv, Types, ServerTypes, CInv, Outstanding, Answered, AnsweredInOrder, StreamsAlive
<1>5. CASE Lifecycle
  <2>1. UNCHANGED <<calls, pc, home, reads, resolved, replies, touched>>
    BY <1>5 DEF Lifecycle, conn, streams
  <2>2. CInv'
    BY <2>1 DEF IInv, CInv, Outstanding, Answered, AnsweredInOrder, StreamsAlive
  <2>3. SInv' /\ ServerTypes'
    <3>1. CASE Proceed /\ UNCHANGED serving
      <4>1. leaving' = leaving /\ UNCHANGED <<contexts, ctx_map, db_map>>
        BY <3>1 DEF Proceed, serving
      <4> QED
        BY <3>1, <4>1, ProceedStep DEF IInv, Types, ServerTypes
    <3>2. CASE Leave /\ UNCHANGED serving
      <4>1. stage' = stage /\ UNCHANGED <<contexts, ctx_map, db_map>>
        BY <3>2 DEF Leave, serving
      <4> QED
        BY <3>2, <4>1, LeaveStep DEF IInv, Types, ServerTypes
    <3>3. ASSUME NEW c \in Shards, CarryOut(c) PROVE SInv' /\ ServerTypes'
      <4>1. UNCHANGED <<stage, leaving>>
        BY <3>3 DEF CarryOut
      <4> QED
        BY <3>3, <4>1, CarryOutStep DEF IInv, Types, ServerTypes
    <3> QED
      BY <1>5, <3>1, <3>2, <3>3 DEF Lifecycle
  <2> QED
    BY <2>1, <2>2, <2>3 DEF IInv, Types, ServerTypes
<1>6. CASE RunCall
  <2>1. PICK k \in calls : Run(k)
    BY <1>6 DEF RunCall
  <2>2. UNCHANGED <<pc, home, reads, resolved, replies, touched>>
    BY <1>6 DEF RunCall, conn, streams
  <2>3. k \in CallType /\ [k EXCEPT !.what = "reply"] \in CallType
        /\ [k EXCEPT !.what = "reply"].request = k.request
    BY DEF IInv, Types, CallType
  <2>4. /\ calls' \subseteq CallType /\ \A l \in calls' : \E m \in calls : l.request = m.request
        /\ (\A l, m \in calls : l = m) => \A l, m \in calls' : l = m
    BY <2>1, <2>3, RunStep DEF IInv, Types
  <2>5. CInv'
    BY <2>2, <2>4 DEF IInv, CInv, Outstanding, Answered, AnsweredInOrder, StreamsAlive
  <2> QED
    BY <2>1, <2>2, <2>4, <2>5, RunStep DEF IInv, Types, ServerTypes
<1> QED
  BY <1>2, <1>3, <1>4, <1>5, <1>6, LoopStep DEF Next

-----------------------------------------------------------------------------
(* main.cc, net_server.cc, connection_handler.cc: the invariant holds in   *)
(* every state the server comes to.                                        *)
THEOREM Invariance == Spec => []IInv
<1>1. Init => IInv
  BY InitIInv
<1>2. IInv /\ [Next]_vars => IInv'
  BY NextIInv
<1> QED
  BY <1>1, <1>2, PTL DEF Spec

(* register_service and run_func: a shard that has registered a service    *)
(* runs its functions in the context of that service.                      *)
THEOREM RegisteredOwn == Spec => []RegisteredRunsOwn
<1>1. IInv => RegisteredRunsOwn
  BY DEF IInv, SInv, Numbered, RegisteredRunsOwn, Registered
<1> QED
  BY <1>1, Invariance, PTL

(* register_service and db_set: when every shard has registered a service, *)
(* no step takes back what has been written to its database.               *)
THEOREM WrittenIsKept == Spec => KeptOnceRegistered
<1> DEFINE Kept == [\A s \in ToSet(Services) :
                      (\A c \in Shards : Registered(c, s)) => db_map[s] \subseteq db_map'[s]]_db_map
<1>1. IInv /\ [Next]_vars => Kept
  <2> SUFFICES ASSUME IInv, [Next]_vars, db_map' # db_map,
                      NEW s \in ToSet(Services), \A c \in Shards : Registered(c, s)
               PROVE  db_map[s] \subseteq db_map'[s]
    OBVIOUS
  <2>1. s \in Names
    BY DEF Names
  <2>2. ASSUME NEW k \in calls, Run(k) PROVE db_map[s] \subseteq db_map'[s]
    BY <2>1, <2>2, RunStep
  <2>3. ASSUME NEW c \in Shards, CarryOut(c) PROVE db_map[s] \subseteq db_map'[s]
    <3>1. s \in ToSet(contexts[c])
      BY DEF Registered
    <3>2. ~(db_map[s] \subseteq db_map'[s]) => s \notin ToSet(contexts[c])
      BY <2>1, <2>3, CarryOutStep
    <3> QED
      BY <3>1, <3>2
  <2>4. CASE UNCHANGED serving
    BY <2>4 DEF serving
  <2>5. CASE Lifecycle
    BY <2>3, <2>4, <2>5 DEF Lifecycle
  <2>6. CASE RunCall
    BY <2>2, <2>6 DEF RunCall
  <2>7. CASE \/ Loop \/ Send \/ HangUp \/ UNCHANGED vars
             \/ \E c \in Listeners : Connect(c)
    <3>1. UNCHANGED serving
      BY <2>7 DEF Loop, TakeHead, ExpectBody, TakeBody, ReadEnd, CloseOut, Resolve, Return, Write,
                  Send, HangUp, Connect, vars, serverVars
    <3> QED
      BY <3>1, <2>4
  <2> QED
    BY <2>5, <2>6, <2>7 DEF Next
<1> QED
  BY <1>1, Invariance, PTL DEF Spec, KeptOnceRegistered

(* The loop of net_server.cc: requests sent without waiting are answered   *)
(* one by one in their order.                                              *)
THEOREM AnswersInOrder == Spec => []AnsweredInOrder
<1>1. IInv => AnsweredInOrder
  BY DEF IInv, CInv, Answered
<1> QED
  BY <1>1, Invariance, PTL

(* new_req and the finally of the loop: the connection outlives the        *)
(* requests it has handed to the scheduler.                                *)
THEOREM NoUseAfterFree == Spec => []StreamsAlive
<1>1. IInv => StreamsAlive
  BY DEF IInv, CInv
<1> QED
  BY <1>1, Invariance, PTL

-----------------------------------------------------------------------------
(* A set of naturals has a least element.                                  *)
LEMMA MinFacts ==
    ASSUME NEW S \in SUBSET Nat, S # {}
    PROVE  Min(S) \in S /\ \A y \in S : Min(S) <= y
<1>1. PICK R : /\ IsWellFoundedOn(R, Nat)
               /\ \A x, y \in Nat : y < x => <<y, x>> \in R
  <2>1. \A x, y \in Nat : y < x => <<y, x>> \in OpToRel(<, Nat)
    BY DEF OpToRel
  <2> QED BY <2>1, NatLessThanWellFounded, Zenon
<1>2. PICK x \in S : \A y \in S : ~(<<y, x>> \in R)
  BY <1>1, WFMin
<1>3. ASSUME NEW y \in S PROVE x =< y
  <2>1. x \in Nat /\ y \in Nat
    OBVIOUS
  <2>2. ~(y < x)
    BY <1>1, <1>2, <2>1, Zenon
  <2> QED BY <2>1, <2>2
<1> QED BY <1>3 DEF Min

(* The equation of url_decode, for what is left from i on.                 *)
Decoded(code, rest, i) ==
    IF i = Len(code) THEN {<< >>}
    ELSE IF code[i + 1] = Percent
    THEN IF i + 3 <= Len(code)
         THEN {<<hexstr_to_char(code, i + 1)>> \o out : out \in rest[i + 3]}
         ELSE {}
    ELSE {<<IF code[i + 1] = Plus THEN Space ELSE code[i + 1]>> \o out : out \in rest[i + 1]}

(* It has a solution: one from m + 1 on is continued to m.                 *)
LEMMA DecodeTable ==
    ASSUME NEW code, Len(code) \in Nat
    PROVE  \E rest : /\ url_decode(code) = rest[0]
                     /\ \A i \in 0 .. Len(code) : rest[i] = Decoded(code, rest, i)
<1> DEFINE n == Len(code)
           Solves(f, m) == f = [i \in m .. n |-> Decoded(code, f, i)]
           wrong == {r \in 0 .. n : ~ \E f : Solves(f, n - r)}
<1>1. ASSUME wrong # {} PROVE FALSE
  <2> DEFINE r == Min(wrong)
             m == n - r
  <2>1. wrong \in SUBSET Nat
    OBVIOUS
  <2> HIDE DEF wrong
  <2>2. r \in wrong /\ \A x \in wrong : r <= x
    BY <1>1, <2>1, MinFacts
  <2> HIDE DEF r
  <2>3. r \in 0 .. n /\ m \in 0 .. n /\ ~ \E f : Solves(f, m)
    BY <2>2 DEF wrong
  <2>4. CASE r = 0
    <3> DEFINE f == [i \in m .. n |-> {<< >>}]
    <3>1. \A i \in m .. n : Decoded(code, f, i) = {<< >>}
      BY <2>3, <2>4 DEF Decoded
    <3>2. Solves(f, m)
      <4> HIDE DEF m, n
      <4> QED BY <3>1
    <3> QED BY <2>3, <3>2
  <2>5. CASE r # 0
    <3>1. PICK f : Solves(f, m + 1)
      <4>1. r - 1 \in 0 .. n /\ ~(r <= r - 1)
        BY <2>3, <2>5
      <4>2. r - 1 \notin wrong
        BY <2>2, <4>1
      <4>3. n - (r - 1) = m + 1
        BY <2>3
      <4> QED BY <4>1, <4>2, <4>3 DEF wrong
    <3> DEFINE g == [i \in m .. n |-> IF i = m THEN Decoded(code, f, m) ELSE f[i]]
    <3>2. \A i \in m + 1 .. n : g[i] = f[i]
      BY <2>3
    <3>3. ASSUME NEW i \in m .. n PROVE Decoded(code, g, i) = Decoded(code, f, i)
      <4>1. i # n => g[i + 1] = f[i + 1]
        BY <2>3, <3>2
      <4>2. i + 3 <= n => g[i + 3] = f[i + 3]
        BY <2>3, <3>2
      <4> HIDE DEF g
      <4> QED BY <4>1, <4>2, Zenon DEF Decoded, n
    <3>4. ASSUME NEW i \in m .. n PROVE g[i] = Decoded(code, g, i)
      <4>1. CASE i = m
        BY <3>3, <4>1
      <4>2. CASE i # m
        <5>1. i \in m + 1 .. n
          BY <2>3, <4>2
        <5>2. f[i] = Decoded(code, f, i)
          BY <3>1, <5>1
        <5> HIDE DEF g
        <5> QED BY <3>2, <3>3, <5>1, <5>2
      <4> QED BY <4>1, <4>2
    <3>5. Solves(g, m)
      <4>1. g = [i \in m .. n |-> g[i]]
        OBVIOUS
      <4> HIDE DEF g, m, n
      <4> QED BY <3>4, <4>1
    <3> QED BY <2>3, <3>5
  <2> QED BY <2>4, <2>5
<1>2. PICK f : Solves(f, 0)
  <2>1. n \in 0 .. n /\ n - n = 0
    OBVIOUS
  <2> QED BY <1>1, <2>1
<1> DEFINE rest == CHOOSE h : Solves(h, 0)
<1>3. Solves(rest, 0)
  BY <1>2
<1>4. url_decode(code) = rest[0]
  BY DEF url_decode, Decoded
<1> HIDE DEF rest
<1>5. \A i \in 0 .. n : rest[i] = Decoded(code, rest, i)
  BY <1>3
<1> QED BY <1>4, <1>5

(* A digit is read as its value, and two as a character.                   *)
LEMMA DigitFacts ==
    ASSUME NEW d, NEW m \in 0 .. 15, Digit(d, m)
    PROVE  hex_to_byte(d) = m
BY DEF Digit, hex_to_byte

(* What a client encodes, url_decode gives back: from where the code of a  *)
(* character begins, what is left decodes to that character and the rest.  *)
LEMMA DecodeFacts ==
    ASSUME NEW code, Len(code) \in Nat, NEW t \in Text, Encodes(code, t)
    PROVE  url_decode(code) = {t}
<1> DEFINE L == Len(t)
           n == Len(code)
<1>1. PICK rest : /\ url_decode(code) = rest[0]
                  /\ \A i \in 0 .. n : rest[i] = Decoded(code, rest, i)
  BY DecodeTable
<1>2. PICK at \in [1 .. L + 1 -> 0 .. n] :
          /\ at[1] = 0 /\ at[L + 1] = n
          /\ \A i \in 1 .. L :
                \/ /\ at[i + 1] = at[i] + 1
                   /\ \/ code[at[i] + 1] = t[i] /\ t[i] \notin {Percent, Plus}
                      \/ code[at[i] + 1] = Plus /\ t[i] = Space
                \/ /\ at[i + 1] = at[i] + 3 /\ code[at[i] + 1] = Percent
                   /\ \E m, k \in 0 .. 15 : /\ Digit(code[at[i] + 2], m)
                                            /\ Digit(code[at[i] + 3], k)
                                            /\ t[i] = m * 16 + k
  BY Zenon DEF Encodes
<1>3. L \in Nat /\ n \in Nat /\ t \in Seq(1 .. 255)
  BY DEF Text
<1> HIDE DEF L, n
<1> DEFINE left(i) == SubSeq(t, i, L)
           Right(i) == rest[at[i]] = {left(i)}
           wrong == {r \in 0 .. L : ~Right(L + 1 - r)}
<1>4. Right(L + 1)
  <2>1. rest[n] = {<< >>}
    <3>1. n \in 0 .. n
      BY <1>3
    <3>2. rest[n] = Decoded(code, rest, n)
      BY <1>1, <3>1
    <3> QED BY <3>2 DEF Decoded, n
  <2>2. left(L + 1) = << >>
    BY <1>3, SubSeqEmpty
  <2> QED BY <1>2, <2>1, <2>2
<1>5. ASSUME NEW i \in 1 .. L, Right(i + 1) PROVE Right(i)
  <2> DEFINE a == at[i]
  <2>1. a \in 0 .. n /\ at[i + 1] \in 0 .. n
    <3>1. i \in 1 .. L + 1 /\ i + 1 \in 1 .. L + 1
      BY <1>3
    <3>2. at \in [1 .. L + 1 -> 0 .. n]
      BY <1>2
    <3> QED BY <3>1, <3>2
  <2>2. left(i) = <<t[i]>> \o left(i + 1)
    BY <1>3, SubSeqRecursiveFirst DEF L
  <2>3. rest[a] = Decoded(code, rest, a)
    BY <1>1, <2>1
  <2> HIDE DEF a, left
  <2>4. CASE at[i + 1] = a + 1 /\ code[a + 1] = t[i] /\ t[i] \notin {Percent, Plus}
    <3>1. a # n
      BY <1>3, <2>1, <2>4
    <3>2. rest[a] = {<<t[i]>> \o out : out \in rest[at[i + 1]]}
      BY <2>3, <2>4, <3>1 DEF Decoded, n
    <3> QED BY <1>5, <2>2, <3>2 DEF a
  <2>5. CASE at[i + 1] = a + 1 /\ code[a + 1] = Plus /\ t[i] = Space
    <3>1. a # n /\ Plus # Percent
      BY <1>3, <2>1, <2>5 DEF Plus, Percent
    <3>2. rest[a] = {<<t[i]>> \o out : out \in rest[at[i + 1]]}
      BY <2>3, <2>5, <3>1 DEF Decoded, n
    <3> QED BY <1>5, <2>2, <3>2 DEF a
  <2>6. ASSUME at[i + 1] = a + 3, code[a + 1] = Percent,
               NEW m \in 0 .. 15, NEW k \in 0 .. 15,
               Digit(code[a + 2], m), Digit(code[a + 3], k), t[i] = m * 16 + k
        PROVE  Right(i)
    <3>1. a # n /\ a + 3 <= n
      BY <1>3, <2>1, <2>6
    <3>2. hexstr_to_char(code, a + 1) = t[i]
      <4>1. hex_to_byte(code[a + 2]) = m /\ hex_to_byte(code[a + 3]) = k
        BY <2>6, DigitFacts
      <4>2. (a + 1) + 1 = a + 2 /\ (a + 1) + 2 = a + 3
        BY <2>1
      <4>3. (m * 16 + k) % 256 = m * 16 + k
        OBVIOUS
      <4> QED BY <2>6, <4>1, <4>2, <4>3 DEF hexstr_to_char
    <3>3. rest[a] = {<<t[i]>> \o out : out \in rest[at[i + 1]]}
      BY <2>3, <2>6, <3>1, <3>2 DEF Decoded, n
    <3> QED BY <1>5, <2>2, <3>3 DEF a
  <2> QED BY <1>2, <2>4, <2>5, <2>6 DEF a
<1> HIDE DEF Right
<1>6. ASSUME wrong # {} PROVE FALSE
  <2> DEFINE r == Min(wrong)
  <2>1. wrong \in SUBSET Nat
    BY <1>3
  <2>2. r \in wrong /\ \A x \in wrong : r <= x
    BY <1>6, <2>1, MinFacts
  <2> HIDE DEF r
  <2>3. r \in 1 .. L /\ r - 1 \in 0 .. L
    BY <1>3, <1>4, <2>2
  <2>4. r - 1 \notin wrong
    <3> HIDE DEF wrong
    <3> QED BY <2>2, <2>3
  <2>5. Right(L + 1 - (r - 1))
    BY <2>3, <2>4
  <2>6. L + 1 - r \in 1 .. L /\ L + 1 - (r - 1) = (L + 1 - r) + 1
    BY <1>3, <2>3
  <2> QED BY <1>5, <2>2, <2>5, <2>6
<1>7. Right(1)
  BY <1>3, <1>6
<1>8. left(1) = t
  BY <1>3, SubSeqFull DEF L
<1> QED BY <1>1, <1>2, <1>7, <1>8 DEF Right

LEMMA WFacts == W \in Nat /\ W > 2 /\ npos \in Nat /\ npos = W - 1
BY DEF W, npos

(* The first c from a position on, or npos.                                *)
LEMMA FindFacts ==
    ASSUME NEW s, Len(s) \in Nat, NEW c, NEW start \in Nat
    PROVE  /\ (\A i \in start + 1 .. Len(s) : s[i] # c) => find(s, c, start) = npos
           /\ \A k \in start .. Len(s) - 1 :
                 s[k + 1] = c /\ (\A i \in start + 1 .. k : s[i] # c) => find(s, c, start) = k
<1> DEFINE at == {i \in start .. Len(s) - 1 : s[i + 1] = c}
<1>1. find(s, c, start) = IF at = {} THEN npos ELSE Min(at)
  BY DEF find
<1>2. ASSUME \A i \in start + 1 .. Len(s) : s[i] # c PROVE at = {}
  <2>1. \A i \in start .. Len(s) - 1 : i + 1 \in start + 1 .. Len(s)
    OBVIOUS
  <2> QED BY <1>2, <2>1
<1>3. ASSUME NEW k \in start .. Len(s) - 1, s[k + 1] = c, \A i \in start + 1 .. k : s[i] # c
      PROVE  at # {} /\ Min(at) = k
  <2>1. k \in at
    BY <1>3
  <2>2. at \in SUBSET Nat
    OBVIOUS
  <2>3. ASSUME NEW x \in at PROVE k <= x
    <3>1. x \in start .. Len(s) - 1 /\ s[x + 1] = c
      OBVIOUS
    <3>2. ~(x + 1 \in start + 1 .. k)
      BY <1>3, <3>1
    <3> QED BY <3>1, <3>2
  <2>4. Min(at) \in at /\ Min(at) <= k
    BY <2>1, <2>2, MinFacts
  <2>5. k <= Min(at) /\ Min(at) \in Nat
    BY <2>2, <2>3, <2>4
  <2> HIDE DEF at
  <2> QED BY <2>1, <2>4, <2>5
<1> HIDE DEF at
<1> QED BY <1>1, <1>2, <1>3

LEMMA SubstrFacts ==
    ASSUME NEW s, Len(s) \in Nat, NEW pos \in Nat, NEW n \in Nat
    PROVE  substr(s, pos, n) = SubSeq(s, pos + 1, IF pos + n <= Len(s) THEN pos + n ELSE Len(s))
<1> DEFINE ends == {pos + n, Len(s)}
<1>1. ends \in SUBSET Nat /\ ends # {}
  OBVIOUS
<1>2. Min(ends) \in ends /\ \A y \in ends : Min(ends) <= y
  BY <1>1, MinFacts
<1>3. Min(ends) = IF pos + n <= Len(s) THEN pos + n ELSE Len(s)
  <2> DEFINE m == Min(ends)
  <2>1. m \in {pos + n, Len(s)} /\ m <= pos + n /\ m <= Len(s)
    BY <1>2
  <2> HIDE DEF m
  <2>2. m = IF pos + n <= Len(s) THEN pos + n ELSE Len(s)
    BY <2>1
  <2> QED BY <2>2 DEF m
<1> QED BY <1>3 DEF substr

(* A piece of a text.                                                      *)
LEMMA PieceFacts ==
    ASSUME NEW s \in Text, NEW m \in 1 .. Len(s) + 1, NEW n \in m - 1 .. Len(s)
    PROVE  /\ Len(s) \in Nat /\ DOMAIN s = 1 .. Len(s)
           /\ SubSeq(s, m, n) \in Text
           /\ Len(SubSeq(s, m, n)) = n - m + 1
           /\ DOMAIN SubSeq(s, m, n) = 1 .. n - m + 1
           /\ \A i \in 1 .. n - m + 1 : SubSeq(s, m, n)[i] = s[m + i - 1]
<1>1. Len(s) \in Nat /\ DOMAIN s = 1 .. Len(s) /\ \A i \in 1 .. Len(s) : s[i] \in 1 .. 255
  <2>1. s \in Seq(1 .. 255)
    BY DEF Text
  <2> QED BY <2>1, LenProperties, ElementOfSeq
<1>2. m \in Int /\ n \in Int /\ \A i \in m .. n : s[i] \in 1 .. 255
  BY <1>1
<1> DEFINE p == SubSeq(s, m, n)
<1>3. /\ p \in Seq(1 .. 255) /\ Len(p) = IF m <= n THEN n - m + 1 ELSE 0
      /\ \A i \in 1 .. n - m + 1 : p[i] = s[m + i - 1]
  BY <1>2, SubSeqProperties
<1> HIDE DEF p
<1>4. Len(p) = n - m + 1
  BY <1>1, <1>3
<1>5. DOMAIN p = 1 .. Len(p)
  BY <1>3
<1>6. p \in Text /\ Len(p) = n - m + 1 /\ DOMAIN p = 1 .. n - m + 1
  BY <1>3, <1>4, <1>5 DEF Text
<1> QED BY <1>1, <1>3, <1>6 DEF p

(* The code of a text has no "=" in it.                                    *)
LEMMA PlainCode ==
    ASSUME NEW code, NEW t, Encodes(code, t)
    PROVE  \A i \in DOMAIN code : code[i] # Equals
<1>1. \A i \in DOMAIN code : code[i] \notin {Amp, Equals}
  BY Zenon DEF Encodes
<1> QED BY <1>1

(* add_param assigns the value to the key that the client has encoded.     *)
LEMMA AddParamFacts ==
    ASSUME NEW param \in Text, Len(param) < npos, NEW key \in Text, NEW value \in Text,
           EncodesPair(param, key, value)
    PROVE  add_param(param) = {[key |-> key, value |-> value]}
<1> DEFINE n == Len(param)
           split == find(param, Equals, 0)
           code == IF split >= (n - 1) % W THEN << >> ELSE substr(param, split + 1, npos)
<1>1. n \in Nat /\ n < npos /\ DOMAIN param = 1 .. n
  <2>1. n \in Nat /\ DOMAIN param = 1 .. n
    BY LenProperties DEF Text
  <2> QED BY <2>1
<1>2. url_decode(substr(param, 0, split)) = {key} /\ url_decode(code) = {value}
      => add_param(param) = {[key |-> key, value |-> value]}
  BY DEF add_param
<1>3. ASSUME NEW e \in 1 .. n, param[e] = Equals,
             Encodes(SubSeq(param, 1, e - 1), key), Encodes(SubSeq(param, e + 1, n), value)
      PROVE  url_decode(substr(param, 0, split)) = {key} /\ url_decode(code) = {value}
  <2> DEFINE k == SubSeq(param, 1, e - 1)
             v == SubSeq(param, e + 1, n)
  <2>1. /\ Len(k) = e - 1 /\ DOMAIN k = 1 .. e - 1
        /\ \A i \in 1 .. e - 1 : k[i] = param[i]
    <3>1. 1 \in 1 .. n + 1 /\ e - 1 \in 1 - 1 .. n
      BY <1>1
    <3>2. (e - 1) - 1 + 1 = e - 1
      OBVIOUS
    <3>3. /\ Len(k) = (e - 1) - 1 + 1 /\ DOMAIN k = 1 .. (e - 1) - 1 + 1
          /\ \A i \in 1 .. (e - 1) - 1 + 1 : k[i] = param[1 + i - 1]
      BY <3>1, PieceFacts
    <3> QED BY <3>2, <3>3
  <2>2. Len(v) = n - e /\ Len(v) \in Nat
    <3>1. e + 1 \in 1 .. n + 1 /\ n \in (e + 1) - 1 .. n
      BY <1>1
    <3>2. Len(v) = n - (e + 1) + 1
      BY <3>1, PieceFacts
    <3> HIDE DEF v
    <3> QED BY <1>1, <3>2
  <2>3. \A i \in 1 .. e - 1 : param[i] # Equals
    <3>1. \A i \in DOMAIN k : k[i] # Equals
      BY <1>3, PlainCode, Zenon
    <3> QED BY <2>1, <3>1
  <2>4. split = e - 1
    <3>1. e - 1 \in 0 .. n - 1 /\ (e - 1) + 1 = e
      BY <1>1
    <3>2. \A i \in 0 + 1 .. e - 1 : param[i] # Equals
      BY <2>3
    <3> QED BY <1>1, <1>3, <3>1, <3>2, FindFacts
  <2>5. substr(param, 0, split) = k
    <3>1. e - 1 \in Nat /\ 0 + (e - 1) = e - 1 /\ e - 1 <= n /\ 0 + 1 = 1
      BY <1>1
    <3>2. substr(param, 0, e - 1) = SubSeq(param, 0 + 1,
                                           IF 0 + (e - 1) <= n THEN 0 + (e - 1) ELSE n)
      BY <1>1, <3>1, SubstrFacts
    <3> QED BY <2>4, <3>1, <3>2
  <2>6. (n - 1) % W = n - 1
    BY <1>1, WFacts
  <2>7. code = v
    <3>1. CASE e = n
      <4>1. v = << >>
        BY <1>1, <3>1, SubSeqEmpty
      <4>2. split >= (n - 1) % W
        BY <1>1, <2>4, <2>6, <3>1
      <4> QED BY <4>1, <4>2
    <3>2. CASE e < n
      <4>1. ~(split >= (n - 1) % W) /\ split + 1 = e
        BY <1>1, <2>4, <2>6, <3>2
      <4>2. e \in Nat /\ npos \in Nat /\ ~(e + npos <= n)
        BY <1>1, WFacts
      <4>3. substr(param, e, npos) = v
        BY <1>1, <4>2, SubstrFacts
      <4> QED BY <4>1, <4>3
    <3>3. e \in Int /\ n \in Int /\ e <= n
      BY <1>1
    <3> HIDE DEF code, v
    <3> QED BY <3>1, <3>2, <3>3
  <2> HIDE DEF k, v, code, split
  <2>8. url_decode(k) = {key}
    <3>1. Len(k) \in Nat
      BY <1>1, <2>1
    <3> QED BY <1>3, <3>1, DecodeFacts DEF k
  <2>9. url_decode(v) = {value}
    BY <1>3, <2>2, DecodeFacts DEF v
  <2> QED BY <2>5, <2>7, <2>8, <2>9
<1>4. ASSUME Encodes(param, key), value = << >>
      PROVE  url_decode(substr(param, 0, split)) = {key} /\ url_decode(code) = {value}
  <2>1. split = npos
    <3>1. \A i \in 0 + 1 .. n : param[i] # Equals
      <4>1. \A i \in DOMAIN param : param[i] # Equals
        BY <1>4, PlainCode, Zenon
      <4> QED BY <1>1, <4>1
    <3> QED BY <1>1, <3>1, FindFacts
  <2>2. code = << >>
    <3>1. (n - 1) % W <= W - 1 /\ (n - 1) % W \in Int
      BY <1>1, WFacts
    <3>2. npos >= (n - 1) % W
      BY <3>1, WFacts
    <3> QED BY <2>1, <3>2
  <2>3. substr(param, 0, split) = param
    <3>1. substr(param, 0, npos) = SubSeq(param, 1, n)
      <4>1. ~(0 + npos <= n) /\ npos \in Nat /\ 0 + 1 = 1
        BY <1>1, WFacts
      <4>2. substr(param, 0, npos) = SubSeq(param, 0 + 1,
                                            IF 0 + npos <= n THEN 0 + npos ELSE n)
        BY <1>1, <4>1, SubstrFacts
      <4> QED BY <4>1, <4>2
    <3> QED BY <2>1, <3>1, SubSeqFull DEF Text
  <2>4. url_decode(<< >>) = {<< >>}
    <3> DEFINE none == << >>
    <3>1. Len(none) = 0
      OBVIOUS
    <3> HIDE DEF none
    <3>2. PICK rest : /\ url_decode(none) = rest[0]
                      /\ \A i \in 0 .. Len(none) : rest[i] = Decoded(none, rest, i)
      BY <3>1, DecodeTable
    <3>3. rest[0] = Decoded(none, rest, 0)
      BY <3>1, <3>2
    <3>4. rest[0] = {<< >>}
      BY <3>1, <3>3 DEF Decoded
    <3> QED BY <3>2, <3>4 DEF none
  <2> HIDE DEF split, code
  <2>5. url_decode(param) = {key}
    BY <1>1, <1>4, DecodeFacts
  <2> QED BY <1>4, <2>2, <2>3, <2>4, <2>5
<1> HIDE DEF split, code
<1> QED BY <1>1, <1>2, <1>3, <1>4 DEF EncodesPair, n

(* What is read of path?query.                                             *)
LEMMA ParamFacts ==
    ASSUME NEW url \in Text, Len(url) < npos, NEW pos \in 0 .. Len(url) - 1,
           NEW b \in 0 .. Len(url) - pos - 1
    PROVE  LET query == SubSeq(url, pos + 2, Len(url))
           IN  \E e \in Ends(query, b) : /\ Param(url, pos + 1 + b) = SubSeq(query, b + 1, e)
                                            /\ Param(url, pos + 1 + b) \in Text
                                            /\ Len(Param(url, pos + 1 + b)) < npos
<1> DEFINE n == Len(url)
           query == SubSeq(url, pos + 2, n)
           q == n - pos - 1
           at == pos + 1 + b
<1>1. n \in Nat /\ n < npos /\ npos \in Nat
  BY WFacts DEF Text
<1>2. /\ query \in Text /\ Len(query) = q /\ q \in Nat
      /\ \A j \in 1 .. q : query[j] = url[pos + 1 + j]
  <2>1. pos + 2 \in 1 .. n + 1 /\ n \in (pos + 2) - 1 .. n /\ n - (pos + 2) + 1 = q
    BY <1>1
  <2>2. /\ query \in Text /\ Len(query) = n - (pos + 2) + 1
        /\ \A j \in 1 .. n - (pos + 2) + 1 : query[j] = url[(pos + 2) + j - 1]
    BY <2>1, PieceFacts
  <2>3. \A j \in 1 .. q : (pos + 2) + j - 1 = pos + 1 + j
    BY <1>1
  <2> HIDE DEF query
  <2> QED BY <1>1, <2>1, <2>2, <2>3
<1> HIDE DEF query
<1> DEFINE ends == {x \in b .. q : x < q => query[x + 1] = Amp}
           e == Min(ends)
<1>3. e \in b .. q /\ (e < q => query[e + 1] = Amp) /\ \A j \in b + 1 .. e : query[j] # Amp
  <2>1. q \in ends /\ ends \in SUBSET Nat
    BY <1>1, <1>2
  <2>2. e \in ends /\ \A x \in ends : e <= x
    BY <2>1, MinFacts
  <2> HIDE DEF e
  <2>3. e \in b .. q /\ (e < q => query[e + 1] = Amp)
    BY <2>2
  <2>4. ASSUME NEW j \in b + 1 .. e, query[j] = Amp PROVE FALSE
    <3>1. j - 1 \in b .. q /\ (j - 1) + 1 = j /\ ~(e <= j - 1)
      BY <1>1, <1>2, <2>3
    <3>2. j - 1 \in ends
      BY <2>4, <3>1
    <3> QED BY <2>2, <3>1, <3>2
  <2> QED BY <2>3, <2>4
<1> HIDE DEF e
<1>4. e \in Ends(query, b)
  BY <1>2, <1>3 DEF Ends
<1>5. Param(url, at) = SubSeq(url, at + 1, pos + 1 + e)
  <2>1. at \in Nat /\ at <= n
    BY <1>1
  <2>2. \A i \in at + 1 .. pos + 1 + e : url[i] # Amp
    <3> SUFFICES ASSUME NEW i \in at + 1 .. pos + 1 + e PROVE url[i] # Amp
      OBVIOUS
    <3>1. i - pos - 1 \in b + 1 .. e /\ i - pos - 1 \in 1 .. q /\ pos + 1 + (i - pos - 1) = i
      BY <1>1, <1>2, <1>3
    <3> QED BY <1>2, <1>3, <3>1
  <2>3. CASE e < q
    <3>1. url[(pos + 1 + e) + 1] = Amp
      <4>1. e + 1 \in 1 .. q /\ pos + 1 + (e + 1) = (pos + 1 + e) + 1
        BY <1>1, <1>2, <1>3, <2>3
      <4> QED BY <1>2, <1>3, <2>3, <4>1
    <3>2. pos + 1 + e \in at .. n - 1
      BY <1>1, <1>3, <2>3
    <3>3. find(url, Amp, at) = pos + 1 + e
      <4> HIDE DEF at
      <4> QED BY <1>1, <2>1, <2>2, <3>1, <3>2, FindFacts
    <3>4. /\ e - b \in Nat /\ (pos + 1 + e) - at = e - b
          /\ at + (e - b) = pos + 1 + e /\ pos + 1 + e <= n
      BY <1>1, <1>3, <2>3
    <3>5. substr(url, at, e - b) = SubSeq(url, at + 1, IF at + (e - b) <= n THEN at + (e - b) ELSE n)
      <4> HIDE DEF at
      <4> QED BY <1>1, <2>1, <3>4, SubstrFacts
    <3> HIDE DEF at
    <3> QED BY <3>3, <3>4, <3>5 DEF Param
  <2>4. CASE e = q
    <3>1. pos + 1 + e = n
      BY <1>1, <2>4
    <3>2. find(url, Amp, at) = npos
      <4> HIDE DEF at
      <4> QED BY <1>1, <2>1, <2>2, <3>1, FindFacts
    <3>3. npos - at \in Nat /\ ~(at + (npos - at) <= n)
      BY <1>1, <2>1
    <3>4. substr(url, at, npos - at)
             = SubSeq(url, at + 1, IF at + (npos - at) <= n THEN at + (npos - at) ELSE n)
      <4> HIDE DEF at
      <4> QED BY <1>1, <2>1, <3>3, SubstrFacts
    <3> HIDE DEF at
    <3> QED BY <3>1, <3>2, <3>3, <3>4 DEF Param
  <2>5. e \in b .. q /\ q \in Nat
    BY <1>2, <1>3
  <2>6. e < q \/ e = q
    BY <2>5
  <2> QED BY <2>3, <2>4, <2>6
<1>6. /\ SubSeq(url, at + 1, pos + 1 + e) \in Text
      /\ Len(SubSeq(url, at + 1, pos + 1 + e)) = e - b
      /\ \A i \in 1 .. e - b : SubSeq(url, at + 1, pos + 1 + e)[i] = url[at + i]
  <2> DEFINE p == SubSeq(url, at + 1, pos + 1 + e)
  <2>1. /\ at + 1 \in 1 .. n + 1 /\ pos + 1 + e \in (at + 1) - 1 .. n
        /\ (pos + 1 + e) - (at + 1) + 1 = e - b
    <3>1. e \in Int /\ b <= e /\ e <= q
      BY <1>2, <1>3
    <3> QED BY <1>1, <3>1
  <2>2. /\ p \in Text /\ Len(p) = (pos + 1 + e) - (at + 1) + 1
        /\ \A i \in 1 .. (pos + 1 + e) - (at + 1) + 1 : p[i] = url[(at + 1) + i - 1]
    BY <2>1, PieceFacts
  <2>3. \A i \in 1 .. e - b : (at + 1) + i - 1 = at + i
    BY <1>1, <1>3
  <2> HIDE DEF p, at
  <2> QED BY <2>1, <2>2, <2>3 DEF p
<1>7. /\ SubSeq(query, b + 1, e) \in Text
      /\ Len(SubSeq(query, b + 1, e)) = e - b
      /\ \A i \in 1 .. e - b : SubSeq(query, b + 1, e)[i] = url[at + i]
  <2> DEFINE p == SubSeq(query, b + 1, e)
  <2>1. /\ b + 1 \in 1 .. q + 1 /\ e \in (b + 1) - 1 .. q /\ e - (b + 1) + 1 = e - b
    BY <1>1, <1>2, <1>3
  <2>2. /\ p \in Text /\ Len(p) = e - (b + 1) + 1
        /\ \A i \in 1 .. e - (b + 1) + 1 : p[i] = query[(b + 1) + i - 1]
    <3> HIDE DEF q
    <3> QED BY <1>2, <2>1, PieceFacts
  <2> HIDE DEF p
  <2>3. ASSUME NEW i \in 1 .. e - b PROVE p[i] = url[at + i]
    <3>1. /\ (b + 1) + i - 1 = b + i /\ b + i \in 1 .. q /\ pos + 1 + (b + i) = at + i
      BY <1>1, <1>2, <1>3
    <3>2. p[i] = query[b + i]
      BY <2>1, <2>2, <3>1
    <3> QED BY <1>2, <3>1, <3>2
  <2> QED BY <2>1, <2>2, <2>3 DEF p
<1>8. SubSeq(url, at + 1, pos + 1 + e) = SubSeq(query, b + 1, e)
  <2> DEFINE x == SubSeq(url, at + 1, pos + 1 + e)
             y == SubSeq(query, b + 1, e)
  <2> HIDE DEF x, y, at
  <2>1. x \in Seq(1 .. 255) /\ y \in Seq(1 .. 255) /\ Len(x) = Len(y)
        /\ \A i \in 1 .. Len(x) : x[i] = y[i]
    BY <1>6, <1>7 DEF x, y, Text
  <2>2. x = y
    BY <2>1, SeqEqual
  <2> QED BY <2>2 DEF x, y
<1>9. Len(Param(url, at)) < npos
  <2>1. e \in b .. q /\ q \in Nat
    BY <1>2, <1>3
  <2>2. e - b < npos
    BY <1>1, <2>1
  <2> HIDE DEF at
  <2> QED BY <1>5, <1>6, <2>2
<1> HIDE DEF at
<1>10. Param(url, at) = SubSeq(query, b + 1, e) /\ Param(url, at) \in Text
  BY <1>5, <1>6, <1>8
<1> QED BY <1>4, <1>9, <1>10 DEF query, at

(* Each parameter gets the value that the client has encoded.              *)
LEMMA QueryFacts ==
    ASSUME NEW url \in Text, Len(url) < npos, NEW pos \in 0 .. Len(url) - 1,
           NEW parameters, parameters \in [DOMAIN parameters -> Text],
           DOMAIN parameters \subseteq Text,
           EncodesAll(SubSeq(url, pos + 2, Len(url)), parameters)
    PROVE  query_parameters(url, pos) = parameters
<1> DEFINE n == Len(url)
           query == SubSeq(url, pos + 2, n)
           q == n - pos - 1
           begins == {0} \cup {j \in DOMAIN query : query[j] = Amp}
           assigned(curr) == add_param(Param(url, curr))
           starts == Begins(url, pos)
           assigning(k) == {curr \in starts : \E p \in assigned(curr) : p.key = k}
<1>1. n \in Nat /\ n < npos
  BY DEF Text
<1>2. /\ DOMAIN query = 1 .. q /\ q \in Nat
      /\ \A j \in 1 .. q : query[j] = url[pos + 1 + j]
  <2>1. pos + 2 \in 1 .. n + 1 /\ n \in (pos + 2) - 1 .. n /\ n - (pos + 2) + 1 = q
    BY <1>1
  <2>2. /\ DOMAIN query = 1 .. n - (pos + 2) + 1
        /\ \A j \in 1 .. n - (pos + 2) + 1 : query[j] = url[(pos + 2) + j - 1]
    BY <2>1, PieceFacts
  <2> HIDE DEF query
  <2>3. ASSUME NEW j \in 1 .. q PROVE query[j] = url[pos + 1 + j]
    <3>1. (pos + 2) + j - 1 = pos + 1 + j
      BY <1>1
    <3>2. query[j] = url[(pos + 2) + j - 1]
      BY <2>1, <2>2
    <3> QED BY <3>1, <3>2
  <2>4. DOMAIN query = 1 .. q /\ q \in Nat
    BY <1>1, <2>1, <2>2
  <2> QED BY <2>3, <2>4
<1>3. PICK key \in [begins -> DOMAIN parameters] :
          /\ \A b \in begins : \A e \in Ends(query, b) :
                EncodesPair(SubSeq(query, b + 1, e), key[b], parameters[key[b]])
          /\ \A b, c \in begins : key[b] = key[c] => b = c
          /\ \A k \in DOMAIN parameters : \E b \in begins : key[b] = k
  BY Zenon DEF EncodesAll
<1>4. starts = {pos + 1 + b : b \in begins}
  <2> HIDE DEF query
  <2>1. ASSUME NEW x \in starts PROVE \E b \in begins : x = pos + 1 + b
    <3>1. CASE x = pos + 1
      <4>1. x = pos + 1 + 0 /\ 0 \in begins
        BY <3>1
      <4> QED BY <4>1
    <3>2. ASSUME NEW j \in pos + 1 .. n - 1, url[j + 1] = Amp, x = j + 1
          PROVE  \E b \in begins : x = pos + 1 + b
      <4>1. j - pos \in 1 .. q /\ pos + 1 + (j - pos) = j + 1
        BY <1>1, <1>2
      <4>2. j - pos \in begins
        BY <1>2, <3>2, <4>1
      <4> QED BY <3>2, <4>1, <4>2
    <3> QED BY <3>1, <3>2 DEF Begins
  <2>2. ASSUME NEW b \in begins PROVE pos + 1 + b \in starts
    <3>1. CASE b = 0
      BY <3>1 DEF Begins
    <3>2. CASE b \in 1 .. q /\ query[b] = Amp
      <4>1. pos + b \in pos + 1 .. n - 1 /\ (pos + b) + 1 = pos + 1 + b
        BY <1>1, <3>2
      <4>2. url[(pos + b) + 1] = Amp
        BY <1>2, <3>2, <4>1
      <4> QED BY <4>1, <4>2 DEF Begins
    <3> QED BY <1>2, <3>1, <3>2
  <2> HIDE DEF starts, begins
  <2> QED BY <2>1, <2>2
<1>5. ASSUME NEW b \in begins
      PROVE  assigned(pos + 1 + b) = {[key |-> key[b], value |-> parameters[key[b]]]}
  <2>1. b \in 0 .. n - pos - 1
    BY <1>1, <1>2
  <2>2. PICK e \in Ends(query, b) : /\ Param(url, pos + 1 + b) = SubSeq(query, b + 1, e)
                                      /\ Param(url, pos + 1 + b) \in Text
                                      /\ Len(Param(url, pos + 1 + b)) < npos
    BY <2>1, ParamFacts
  <2> HIDE DEF query, begins
  <2>3. EncodesPair(Param(url, pos + 1 + b), key[b], parameters[key[b]])
    <3>1. \A x \in Ends(query, b) :
             EncodesPair(SubSeq(query, b + 1, x), key[b], parameters[key[b]])
      BY <1>3, Zenon
    <3>2. EncodesPair(SubSeq(query, b + 1, e), key[b], parameters[key[b]])
      BY <3>1, Zenon
    <3> QED BY <2>2, <3>2, Zenon
  <2>4. key[b] \in Text /\ parameters[key[b]] \in Text
    BY <1>3
  <2> QED BY <2>2, <2>3, <2>4, AddParamFacts
<1> HIDE DEF query, begins, starts, assigned
<1>6. begins \subseteq Int
  BY <1>2 DEF begins
<1>7. {p.key : p \in UNION {assigned(curr) : curr \in starts}} = DOMAIN parameters
  <2>1. ASSUME NEW curr \in starts, NEW p \in assigned(curr) PROVE p.key \in DOMAIN parameters
    <3>1. PICK b \in begins : curr = pos + 1 + b
      BY <1>4
    <3> QED BY <1>3, <1>5, <2>1, <3>1
  <2>2. ASSUME NEW k \in DOMAIN parameters
        PROVE  \E curr \in starts : \E p \in assigned(curr) : p.key = k
    <3>1. PICK b \in begins : key[b] = k
      BY <1>3
    <3> DEFINE p == [key |-> key[b], value |-> parameters[key[b]]]
    <3>2. pos + 1 + b \in starts
      BY <1>4
    <3>3. p \in assigned(pos + 1 + b)
      BY <1>5
    <3>4. p.key = k
      BY <3>1
    <3> HIDE DEF p
    <3> QED BY <3>2, <3>3, <3>4, Zenon
  <2> QED BY <2>1, <2>2
<1>8. ASSUME NEW k \in DOMAIN parameters
      PROVE  (CHOOSE p \in assigned(Max(assigning(k))) : TRUE).value = parameters[k]
  <2>1. PICK b \in begins : key[b] = k
    BY <1>3
  <2> DEFINE at == pos + 1 + b
  <2>2. assigning(k) = {at}
    <3>1. at \in assigning(k)
      <4>1. at \in starts
        BY <1>4
      <4> DEFINE p == [key |-> key[b], value |-> parameters[key[b]]]
      <4>2. p \in assigned(at)
        BY <1>5
      <4>3. p.key = k
        BY <2>1
      <4> HIDE DEF p, at
      <4> QED BY <4>1, <4>2, <4>3, Zenon
    <3>2. ASSUME NEW x \in assigning(k) PROVE x = at
      <4>1. PICK c \in begins : x = pos + 1 + c
        BY <1>4
      <4>2. PICK p \in assigned(x) : p.key = k
        OBVIOUS
      <4>3. p = [key |-> key[c], value |-> parameters[key[c]]]
        BY <1>5, <4>1, <4>2
      <4>4. key[c] = k
        BY <4>2, <4>3
      <4>5. c = b
        BY <1>3, <2>1, <4>4
      <4> QED BY <4>1, <4>5
    <3> HIDE DEF at, assigning
    <3> QED BY <3>1, <3>2
  <2>3. Max(assigning(k)) = at
    <3>1. at \in Int
      BY <1>6
    <3> HIDE DEF at, assigning
    <3> QED BY <2>2, <3>1 DEF Max
  <2>4. assigned(at) = {[key |-> k, value |-> parameters[k]]}
    BY <1>5, <2>1
  <2> HIDE DEF at, assigning
  <2> DEFINE one == [key |-> k, value |-> parameters[k]]
             there == assigned(Max(assigning(k)))
             chosen == CHOOSE p \in there : TRUE
  <2>5. there = {one}
    BY <2>3, <2>4
  <2>6. one.value = parameters[k]
    OBVIOUS
  <2> HIDE DEF one, there
  <2>7. chosen = one
    BY <2>5
  <2> HIDE DEF chosen
  <2>8. chosen.value = parameters[k]
    BY <2>6, <2>7
  <2> QED BY <2>8 DEF chosen, there
<1>9. query_parameters(url, pos) =
         [k \in {p.key : p \in UNION {assigned(curr) : curr \in starts}} |->
             (CHOOSE p \in assigned(Max(assigning(k))) : TRUE).value]
  BY DEF query_parameters, assigned, starts
<1> HIDE DEF assigning
<1> QED BY <1>7, <1>8, <1>9

(* A text behind another.                                                  *)
LEMMA JoinFacts ==
    ASSUME NEW l \in Seq(1 .. 255), NEW r \in Seq(1 .. 255)
    PROVE  /\ Len(l \o r) = Len(l) + Len(r) /\ l \o r \in Seq(1 .. 255)
           /\ \A j \in 1 .. Len(l) + Len(r) :
                 (l \o r)[j] = IF j <= Len(l) THEN l[j] ELSE r[j - Len(l)]
BY ConcatProperties

(* Service and function are cut out of the path.                           *)
LEMMA PathFacts ==
    ASSUME NEW s \in Text, NEW f \in Text, \A j \in DOMAIN s : s[j] # Slash,
           Len(<<Slash>> \o s \o <<Slash>> \o f) < npos
    PROVE  LET path == <<Slash>> \o s \o <<Slash>> \o f
               split == find(substr(path, 1, npos), Slash, 0)
           IN  /\ path \in Text /\ Len(path) = Len(s) + Len(f) + 2
               /\ Len(s) \in Nat /\ Len(f) \in Nat
               /\ path # << >>
               /\ \A j \in 1 .. Len(path) :
                     path[j] = IF j = 1 \/ j = Len(s) + 2 THEN Slash
                               ELSE IF j < Len(s) + 2 THEN s[j - 1] ELSE f[j - (Len(s) + 2)]
               /\ substr(path, 1, split) = s
               /\ substr(path, (split + 2) % W, npos) = f
<1> DEFINE path == <<Slash>> \o s \o <<Slash>> \o f
           m == Len(s)
           l == Len(f)
           n == Len(path)
           word == substr(path, 1, npos)
           split == find(word, Slash, 0)
<1>1. /\ s \in Seq(1 .. 255) /\ f \in Seq(1 .. 255) /\ <<Slash>> \in Seq(1 .. 255)
      /\ m \in Nat /\ l \in Nat /\ Len(<<Slash>>) = 1 /\ <<Slash>>[1] = Slash
      /\ DOMAIN s = 1 .. m
  BY DEF Text, Slash
<1>2. /\ path \in Text /\ n = m + l + 2
      /\ \A j \in 1 .. n : path[j] = IF j = 1 \/ j = m + 2 THEN Slash
                                     ELSE IF j < m + 2 THEN s[j - 1] ELSE f[j - (m + 2)]
  <2> DEFINE one == <<Slash>>
             x == one \o s
             y == x \o one
             z == y \o f
  <2>1. z = path
    OBVIOUS
  <2> HIDE DEF one, path
  <2>2. /\ one \in Seq(1 .. 255) /\ Len(one) = 1 /\ one[1] = Slash
    BY <1>1 DEF one
  <2> HIDE DEF m, l
  <2>3. /\ x \in Seq(1 .. 255) /\ Len(x) = 1 + m
        /\ \A j \in 1 .. 1 + m : x[j] = IF j <= 1 THEN one[j] ELSE s[j - 1]
    <3>1. one \in Seq(1 .. 255) /\ s \in Seq(1 .. 255)
      BY <1>1, <2>2
    <3>2. /\ Len(x) = Len(one) + Len(s) /\ x \in Seq(1 .. 255)
          /\ \A j \in 1 .. Len(one) + Len(s) :
                x[j] = IF j <= Len(one) THEN one[j] ELSE s[j - Len(one)]
      BY <3>1, JoinFacts, Zenon
    <3>3. Len(one) = 1 /\ Len(s) = m
      BY <2>2 DEF m
    <3> HIDE DEF x
    <3> QED BY <3>2, <3>3
  <2> HIDE DEF x
  <2>4. /\ y \in Seq(1 .. 255) /\ Len(y) = m + 2
        /\ \A j \in 1 .. m + 2 : y[j] = IF j <= 1 + m THEN x[j] ELSE one[j - (1 + m)]
    <3>1. x \in Seq(1 .. 255) /\ one \in Seq(1 .. 255)
      BY <2>2, <2>3
    <3>2. /\ Len(y) = Len(x) + Len(one) /\ y \in Seq(1 .. 255)
          /\ \A j \in 1 .. Len(x) + Len(one) :
                y[j] = IF j <= Len(x) THEN x[j] ELSE one[j - Len(x)]
      BY <3>1, JoinFacts, Zenon
    <3>3. Len(x) = 1 + m /\ Len(x) + Len(one) = m + 2
      BY <1>1, <2>2, <2>3
    <3> HIDE DEF y
    <3> QED BY <3>2, <3>3
  <2> HIDE DEF y
  <2>5. /\ z \in Seq(1 .. 255) /\ Len(z) = m + l + 2
        /\ \A j \in 1 .. m + l + 2 : z[j] = IF j <= m + 2 THEN y[j] ELSE f[j - (m + 2)]
    <3>1. y \in Seq(1 .. 255) /\ f \in Seq(1 .. 255)
      BY <1>1, <2>4
    <3>2. /\ Len(z) = Len(y) + Len(f) /\ z \in Seq(1 .. 255)
          /\ \A j \in 1 .. Len(y) + Len(f) :
                z[j] = IF j <= Len(y) THEN y[j] ELSE f[j - Len(y)]
      BY <3>1, JoinFacts, Zenon
    <3>3. Len(y) = m + 2 /\ Len(y) + Len(f) = m + l + 2
      BY <1>1, <2>4 DEF l
    <3> HIDE DEF z
    <3> QED BY <3>2, <3>3
  <2> HIDE DEF z
  <2>6. ASSUME NEW j \in 1 .. m + l + 2
        PROVE  z[j] = IF j = 1 \/ j = m + 2 THEN Slash
                      ELSE IF j < m + 2 THEN s[j - 1] ELSE f[j - (m + 2)]
    <3>1. CASE j = 1
      <4>1. 1 \in 1 .. m + 2 /\ 1 \in 1 .. 1 + m /\ 1 <= 1 + m /\ 1 <= m + 2
        BY <1>1
      <4>2. x[1] = one[1] /\ y[1] = x[1]
        BY <2>3, <2>4, <4>1
      <4>3. z[1] = y[1]
        BY <1>1, <2>5, <3>1, <4>1
      <4> QED BY <2>2, <3>1, <4>2, <4>3
    <3>2. CASE j = m + 2
      <4>1. m + 2 \in 1 .. m + 2 /\ ~(m + 2 <= 1 + m) /\ (m + 2) - (1 + m) = 1 /\ m + 2 <= m + 2
        BY <1>1
      <4> QED BY <2>2, <2>4, <2>5, <3>2, <4>1
    <3>3. CASE j # 1 /\ j < m + 2
      <4>1. j \in 1 .. 1 + m /\ j \in 1 .. m + 2 /\ ~(j <= 1) /\ j <= 1 + m /\ j # m + 2
        BY <1>1, <3>3
      <4> QED BY <2>3, <2>4, <2>5, <3>3, <4>1
    <3>4. CASE j > m + 2
      <4>1. ~(j <= m + 2) /\ j # 1 /\ j # m + 2 /\ ~(j < m + 2)
        BY <1>1, <3>4
      <4> QED BY <2>5, <4>1
    <3>5. m \in Nat /\ j \in Nat
      BY <1>1
    <3> QED BY <3>1, <3>2, <3>3, <3>4, <3>5
  <2>7. Len(path) = m + l + 2 /\ path \in Text
    BY <2>1, <2>5 DEF Text
  <2> QED BY <2>1, <2>6, <2>7
<1>3. n < npos /\ npos \in Nat /\ n \in Nat /\ W = npos + 1
  BY <1>1, <1>2, WFacts
<1> HIDE DEF path
<1>4. word = SubSeq(path, 2, n)
  <2>1. ~(1 + npos <= n) /\ 1 + 1 = 2
    BY <1>3
  <2>2. word = SubSeq(path, 1 + 1, IF 1 + npos <= n THEN 1 + npos ELSE n)
    BY <1>3, SubstrFacts
  <2> QED BY <2>1, <2>2
<1>5. Len(word) = n - 1 /\ \A i \in 1 .. n - 1 : word[i] = path[i + 1]
  <2>1. 2 \in 1 .. n + 1 /\ n \in 2 - 1 .. n /\ n - 2 + 1 = n - 1
    BY <1>1, <1>2
  <2> DEFINE p == SubSeq(path, 2, n)
  <2>2. Len(p) = n - 2 + 1 /\ \A i \in 1 .. n - 2 + 1 : p[i] = path[2 + i - 1]
    BY <1>2, <2>1, PieceFacts
  <2>3. \A i \in 1 .. n - 1 : 2 + i - 1 = i + 1
    BY <1>3
  <2> HIDE DEF p, word
  <2> QED BY <1>4, <2>1, <2>2, <2>3 DEF p
<1> HIDE DEF word, n, m, l
<1>6. split = m
  <2>1. m \in 0 .. Len(word) - 1 /\ Len(word) \in Nat
    BY <1>1, <1>2, <1>5
  <2>2. word[m + 1] = Slash
    <3>1. m + 1 \in 1 .. n - 1 /\ (m + 1) + 1 = m + 2 /\ m + 2 \in 1 .. n
      BY <1>1, <1>2
    <3> QED BY <1>2, <1>5, <3>1
  <2>3. ASSUME NEW i \in 0 + 1 .. m PROVE word[i] # Slash
    <3>1. /\ i \in 1 .. n - 1 /\ i + 1 \in 1 .. n /\ i + 1 # 1 /\ i + 1 # m + 2
          /\ i + 1 < m + 2 /\ (i + 1) - 1 = i /\ i \in DOMAIN s
      BY <1>1, <1>2
    <3>2. word[i] = s[i]
      BY <1>2, <1>5, <3>1
    <3> QED BY <3>1, <3>2
  <2> QED BY <2>1, <2>2, <2>3, FindFacts
<1> HIDE DEF split
<1>7. substr(path, 1, split) = s
  <2>1. 1 + m <= n /\ 1 + 1 = 2
    BY <1>1, <1>2
  <2> DEFINE p == SubSeq(path, 2, 1 + m)
  <2>2. substr(path, 1, m) = SubSeq(path, 1 + 1, IF 1 + m <= n THEN 1 + m ELSE n)
    BY <1>1, <1>3, SubstrFacts DEF n
  <2>3. substr(path, 1, m) = p
    BY <2>1, <2>2
  <2>4. 2 \in 1 .. n + 1 /\ 1 + m \in 2 - 1 .. n /\ (1 + m) - 2 + 1 = m
    BY <1>1, <1>2
  <2>5. /\ p \in Text /\ Len(p) = (1 + m) - 2 + 1
        /\ \A i \in 1 .. (1 + m) - 2 + 1 : p[i] = path[2 + i - 1]
    BY <1>2, <2>4, PieceFacts DEF n
  <2> HIDE DEF p
  <2>6. ASSUME NEW i \in 1 .. m PROVE p[i] = s[i]
    <3>1. /\ 2 + i - 1 = i + 1 /\ i + 1 \in 1 .. n /\ i + 1 # 1 /\ i + 1 # m + 2
          /\ i + 1 < m + 2 /\ (i + 1) - 1 = i
      BY <1>1, <1>2
    <3>2. p[i] = path[i + 1]
      BY <2>4, <2>5, <3>1
    <3> QED BY <1>2, <3>1, <3>2
  <2>7. p = s
    <3>1. p \in Seq(1 .. 255) /\ Len(p) = Len(s) /\ \A i \in 1 .. Len(p) : p[i] = s[i]
      BY <2>4, <2>5, <2>6 DEF Text, m
    <3> QED BY <1>1, <3>1, SeqEqual
  <2> QED BY <1>6, <2>3, <2>7
<1>8. substr(path, (split + 2) % W, npos) = f
  <2>1. (m + 2) % W = m + 2
    <3>1. m + 2 \in Nat /\ m + 2 < W /\ W \in Nat
      BY <1>1, <1>2, <1>3
    <3> QED BY <3>1
  <2>2. m + 2 \in Nat /\ ~((m + 2) + npos <= n) /\ (m + 2) + 1 = m + 3
    <3>1. m \in Nat /\ n \in Nat /\ npos \in Nat /\ n < npos
      BY <1>1, <1>3
    <3> QED BY <3>1
  <2> DEFINE p == SubSeq(path, m + 3, n)
  <2>3. substr(path, m + 2, npos) = SubSeq(path, (m + 2) + 1, IF (m + 2) + npos <= n THEN (m + 2) + npos ELSE n)
    BY <1>3, <2>2, SubstrFacts DEF n
  <2>4. substr(path, m + 2, npos) = p
    BY <2>2, <2>3
  <2>5. m + 3 \in 1 .. n + 1 /\ n \in (m + 3) - 1 .. n /\ n - (m + 3) + 1 = l
    BY <1>1, <1>2
  <2>6. /\ p \in Text /\ Len(p) = n - (m + 3) + 1
        /\ \A i \in 1 .. n - (m + 3) + 1 : p[i] = path[(m + 3) + i - 1]
    BY <1>2, <2>5, PieceFacts DEF n
  <2> HIDE DEF p
  <2>7. ASSUME NEW i \in 1 .. l PROVE p[i] = f[i]
    <3>1. /\ (m + 3) + i - 1 = m + 2 + i /\ m + 2 + i \in 1 .. n /\ m + 2 + i # 1
          /\ m + 2 + i # m + 2 /\ ~(m + 2 + i < m + 2) /\ (m + 2 + i) - (m + 2) = i
      BY <1>1, <1>2
    <3>2. p[i] = path[m + 2 + i]
      BY <2>5, <2>6, <3>1
    <3> QED BY <1>2, <3>1, <3>2
  <2>8. p = f
    <3>1. p \in Seq(1 .. 255) /\ Len(p) = Len(f) /\ \A i \in 1 .. Len(p) : p[i] = f[i]
      BY <2>5, <2>6, <2>7 DEF Text, l
    <3> QED BY <1>1, <3>1, SeqEqual
  <2> QED BY <1>6, <2>1, <2>4, <2>8
<1>9. path # << >>
  <2>1. Len(path) # 0
    BY <1>1, <1>2 DEF n
  <2> QED BY <2>1
<1> QED BY <1>1, <1>2, <1>7, <1>8, <1>9 DEF path, split, word, n, m, l

(* url_decode, add_param, set_query_param and handle() give back whatever a*)
(* client has encoded in a URL: service, function and every parameter.     *)
THEOREM MeantIsAsked ==
    ASSUME NEW url, NEW what, Means(url, what)
    PROVE  Asked(url) = {what}
<1> DEFINE s == what.service
           f == what.function
           path == <<Slash>> \o s \o <<Slash>> \o f
           m == Len(path)
           params == what.parameters
           split == find(substr(path, 1, npos), Slash, 0)
           parsed == set_query_param(url)
<1>1. /\ url \in Text /\ Len(url) \in Nat /\ Len(url) < npos
      /\ s \in Text /\ f \in Text /\ params \in [DOMAIN params -> Text]
      /\ what = [service |-> s, function |-> f, parameters |-> params]
  BY DEF Means, Text
<1>2. /\ \A j \in DOMAIN s : s[j] \notin {Slash, Query}
      /\ \A j \in DOMAIN f : f[j] # Query
      /\ \A k \in DOMAIN params : k \in Text /\ k # << >>
  BY Zenon DEF Means
<1>3. \/ url = path /\ params = << >>
      \/ /\ Len(url) > m /\ SubSeq(url, 1, m + 1) = path \o <<Query>>
         /\ EncodesAll(SubSeq(url, m + 2, Len(url)), params)
  BY Zenon DEF Means
<1> HIDE DEF s, f, params, parsed
<1>4. m \in Nat /\ m <= Len(url) /\ path \in Seq(1 .. 255)
  <2>1. path \in Seq(1 .. 255)
    BY <1>1 DEF Text, Slash
  <2>2. m \in Nat
    BY <2>1
  <2> HIDE DEF path
  <2> QED BY <1>1, <1>3, <2>1, <2>2
<1>5. /\ path \in Text /\ m = Len(s) + Len(f) + 2
      /\ Len(s) \in Nat /\ Len(f) \in Nat
      /\ path # << >>
      /\ \A j \in 1 .. m :
            path[j] = IF j = 1 \/ j = Len(s) + 2 THEN Slash
                      ELSE IF j < Len(s) + 2 THEN s[j - 1] ELSE f[j - (Len(s) + 2)]
      /\ substr(path, 1, split) = s
      /\ substr(path, (split + 2) % W, npos) = f
  <2>1. m < npos
    <3>1. npos \in Nat
      BY WFacts
    <3> HIDE DEF path
    <3> QED BY <1>1, <1>4, <3>1
  <2>2. \A j \in DOMAIN s : s[j] # Slash
    BY <1>2
  <2> QED BY <1>1, <2>1, <2>2, PathFacts
<1> HIDE DEF path, split
<1>6. \A j \in 1 .. m : path[j] # Query
  <2> SUFFICES ASSUME NEW j \in 1 .. m PROVE path[j] # Query
    OBVIOUS
  <2>1. DOMAIN s = 1 .. Len(s) /\ DOMAIN f = 1 .. Len(f)
    BY <1>1 DEF Text
  <2>2. CASE j = 1 \/ j = Len(s) + 2
    <3>1. path[j] = Slash
      BY <1>5, <2>2
    <3> QED BY <3>1 DEF Slash, Query
  <2>3. CASE ~(j = 1 \/ j = Len(s) + 2) /\ j < Len(s) + 2
    <3>1. j - 1 \in DOMAIN s
      BY <1>5, <2>1, <2>3
    <3>2. path[j] = s[j - 1]
      BY <1>5, <2>3
    <3> QED BY <1>2, <3>1, <3>2
  <2>4. CASE ~(j = 1 \/ j = Len(s) + 2) /\ ~(j < Len(s) + 2)
    <3>1. j - (Len(s) + 2) \in DOMAIN f
      BY <1>5, <2>1, <2>4
    <3>2. path[j] = f[j - (Len(s) + 2)]
      BY <1>5, <2>4
    <3> QED BY <1>2, <3>1, <3>2
  <2> QED BY <2>2, <2>3, <2>4
<1>7. Writable(params)
  BY <1>2 DEF Writable
<1>8. parsed.path = path /\ parsed.params = params
  <2> DEFINE pos == find(url, Query, 0)
  <2>1. parsed = [path   |-> IF pos = npos THEN url ELSE substr(url, 0, pos),
                  params |-> IF pos = npos THEN << >> ELSE query_parameters(url, pos)]
    BY DEF set_query_param, parsed
  <2> HIDE DEF pos
  <2>2. CASE url = path /\ params = << >>
    <3>1. \A j \in 0 + 1 .. Len(url) : url[j] # Query
      BY <1>6, <2>2 DEF m
    <3>2. pos = npos
      BY <1>1, <3>1, FindFacts DEF pos
    <3> QED BY <2>1, <2>2, <3>2
  <2>3. CASE /\ Len(url) > m /\ SubSeq(url, 1, m + 1) = path \o <<Query>>
             /\ EncodesAll(SubSeq(url, m + 2, Len(url)), params)
    <3> HIDE DEF m
    <3>1. \A j \in 1 .. m + 1 : url[j] = IF j <= m THEN path[j] ELSE Query
      <4> DEFINE one == <<Query>>
                 x == path \o one
                 y == SubSeq(url, 1, m + 1)
      <4>1. one \in Seq(1 .. 255) /\ Len(one) = 1 /\ one[1] = Query
        BY DEF Query
      <4>2. y = x
        BY <2>3
      <4> HIDE DEF one
      <4>3. \A j \in 1 .. Len(path) + Len(one) :
                x[j] = IF j <= Len(path) THEN path[j] ELSE one[j - Len(path)]
        BY <1>4, <4>1, JoinFacts
      <4>4. 1 \in 1 .. Len(url) + 1 /\ m + 1 \in 1 - 1 .. Len(url) /\ (m + 1) - 1 + 1 = m + 1
        BY <1>1, <1>4, <2>3
      <4>5. \A j \in 1 .. (m + 1) - 1 + 1 : y[j] = url[1 + j - 1]
        BY <1>1, <4>4, PieceFacts
      <4> HIDE DEF x, y
      <4> SUFFICES ASSUME NEW j \in 1 .. m + 1
                   PROVE  url[j] = IF j <= m THEN path[j] ELSE Query
        OBVIOUS
      <4>6. url[j] = y[j]
        <5>1. 1 + j - 1 = j
          OBVIOUS
        <5> QED BY <4>4, <4>5, <5>1
      <4>7. x[j] = IF j <= m THEN path[j] ELSE one[j - m]
        BY <4>1, <4>3 DEF m
      <4>8. ~(j <= m) => j - m = 1
        BY <1>4
      <4> QED BY <4>1, <4>2, <4>6, <4>7, <4>8
    <3>2. m \in 0 .. Len(url) - 1
      BY <1>1, <1>4, <2>3
    <3>3. pos = m
      <4>1. url[m + 1] = Query /\ m + 1 \in 1 .. m + 1 /\ ~(m + 1 <= m)
        <5>1. m + 1 \in 1 .. m + 1 /\ ~(m + 1 <= m)
          BY <1>4
        <5> QED BY <3>1, <5>1
      <4>2. \A j \in 0 + 1 .. m : url[j] # Query
        <5>1. \A j \in 0 + 1 .. m : j \in 1 .. m + 1 /\ j <= m /\ j \in 1 .. m
          BY <1>4
        <5> QED BY <1>6, <3>1, <5>1
      <4> QED BY <1>1, <3>2, <4>1, <4>2, FindFacts DEF pos
    <3>4. m # npos
      <4>1. npos \in Nat
        BY WFacts
      <4> QED BY <1>1, <3>2, <4>1
    <3>5. substr(url, 0, m) = path
      <4> DEFINE p == SubSeq(url, 1, m)
      <4>1. substr(url, 0, m) = p
        <5>1. 0 + m = m /\ m <= Len(url) /\ 0 + 1 = 1
          BY <1>4
        <5>2. substr(url, 0, m) = SubSeq(url, 0 + 1, IF 0 + m <= Len(url) THEN 0 + m ELSE Len(url))
          BY <1>1, <1>4, SubstrFacts
        <5> QED BY <5>1, <5>2
      <4>2. 1 \in 1 .. Len(url) + 1 /\ m \in 1 - 1 .. Len(url) /\ m - 1 + 1 = m
        BY <1>1, <1>4
      <4>3. p \in Text /\ Len(p) = m - 1 + 1 /\ \A i \in 1 .. m - 1 + 1 : p[i] = url[1 + i - 1]
        BY <1>1, <4>2, PieceFacts
      <4> HIDE DEF p
      <4>4. ASSUME NEW i \in 1 .. m PROVE p[i] = path[i]
        <5>1. 1 + i - 1 = i /\ i \in 1 .. m + 1 /\ i <= m
          BY <1>4
        <5>2. p[i] = url[i]
          BY <4>2, <4>3, <5>1
        <5> QED BY <3>1, <5>1, <5>2
      <4>5. p \in Seq(1 .. 255) /\ Len(p) = Len(path) /\ \A i \in 1 .. Len(p) : p[i] = path[i]
        BY <4>2, <4>3, <4>4 DEF Text, m
      <4>6. p = path
        BY <1>4, <4>5, SeqEqual
      <4> QED BY <4>1, <4>6
    <3>6. query_parameters(url, m) = params
      <4>1. DOMAIN params \subseteq Text
        BY <1>2
      <4> QED BY <1>1, <2>3, <3>2, <4>1, QueryFacts
    <3> QED BY <2>1, <3>3, <3>4, <3>5, <3>6
  <2> QED BY <1>3, <2>2, <2>3
<1>9. Asked(url) = {[service |-> s, function |-> f, parameters |-> params]}
  <2>1. Asked(url) = IF parsed.path = << >> \/ ~Writable(parsed.params) THEN {}
                     ELSE LET at == find(substr(parsed.path, 1, npos), Slash, 0)
                          IN  {[service |-> substr(parsed.path, 1, at),
                                function |-> substr(parsed.path, (at + 2) % W, npos),
                                parameters |-> parsed.params]}
    BY DEF Asked, parsed
  <2> QED BY <1>5, <1>7, <1>8, <2>1 DEF split
<1> QED BY <1>1, <1>9

(* handle(): however a client has encoded its request, the scheduler is    *)
(* asked for what the client means.                                        *)
THEOREM RequestsAreHeard == Spec => []RequestAsSent
<1>1. Init => RequestAsSent
  BY DEF Init, RequestAsSent
<1>2. ASSUME NEW h \in Hearings PROVE ~h.wrong
  <2>1. PICK u \in Urls :
           h = [service |-> {Service(a.service) : a \in Asked(u.url)},
                wrong   |-> u.legal /\ Asked(u.url) # {u.means}]
    BY DEF Hearings
  <2>2. h.wrong = (u.legal /\ Asked(u.url) # {u.means})
    BY <2>1, Zenon
  <2>3. u.legal => Asked(u.url) = {u.means}
    BY UrlsAssumption, MeantIsAsked
  <2> QED
    BY <2>2, <2>3, Zenon
<1>3. RequestAsSent /\ [Next]_vars => RequestAsSent'
  <2> SUFFICES ASSUME RequestAsSent, [Next]_vars PROVE RequestAsSent'
    OBVIOUS
  <2>1. CASE Ask
    BY <1>2, <2>1 DEF Ask, RequestAsSent
  <2>2. CASE UNCHANGED misheard
    BY <2>2 DEF RequestAsSent
  <2>3. Ask \/ UNCHANGED misheard
    BY DEF Next, Lifecycle, Send, HangUp, Connect, RunCall, Loop, TakeHead, ExpectBody,
           TakeBody, ReadEnd, CloseOut, Resolve, Write, conn, vars
  <2> QED
    BY <2>1, <2>2, <2>3
<1> QED
  BY <1>1, <1>2, <1>3, PTL DEF Spec
=============================================================================
