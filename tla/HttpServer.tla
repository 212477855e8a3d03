----------------------------- MODULE HttpServer -----------------------------
(***************************************************************************)
(* net_server.cc and connection_handler.cc: one connection, from accept to *)
(* close, on a server that starts, serves and stops as Startup says.  The  *)
(* loop of a connection reads a request, has the scheduler run it, writes  *)
(* the reply that comes back, and only then reads on.                      *)
(***************************************************************************)
EXTENDS Startup, UrlParse

CONSTANTS
    Plans,          \* what the client sends: "get", or "post" and two "half"s
    Urls            \* [url, means, legal]: what a client may ask for

ASSUME UrlsAssumption == \A u \in Urls : u.legal => Means(u.url, u.means)

VARIABLES
    plan,           \* what the client sends, unless it hangs up first
    sent,           \* how much of its plan it has sent
    closed,         \* whether the client has hung up
    wire,           \* what is sent and not yet read
    pc,             \* where the loop of the connection is
    home,           \* the shard that has accepted the connection
    eof,            \* conn->_in.eof()
    reads,          \* requests read so far
    misheard,       \* whether the scheduler was asked for something else
    resolved,       \* requests whose reply is there to be written
    replies,        \* the requests the client has got a reply to, in order
    touched         \* whether a stream was used after the connection was freed

client == <<plan, sent, closed>>
conn == <<pc, home, eof, reads, misheard>>
streams == <<resolved, replies, touched>>
vars == <<serverVars, client, wire, conn, streams>>

Init ==
    /\ Cold
    /\ plan \in Plans
    /\ sent = 0 /\ closed = FALSE /\ wire = << >>
    /\ pc = "none" /\ home = Shard0 /\ eof = FALSE
    /\ reads = 0 /\ misheard = FALSE
    /\ resolved = {} /\ replies = << >> /\ touched = FALSE

-----------------------------------------------------------------------------
(* The client, whom nothing keeps from hanging up in the middle.           *)
Send ==
    /\ pc # "none" /\ ~closed /\ sent < Len(plan)
    /\ sent' = sent + 1
    /\ wire' = Append(wire, plan[sent'])
    /\ UNCHANGED <<serverVars, plan, closed, conn, streams>>

HangUp ==
    /\ pc # "none" /\ ~closed
    /\ closed' = TRUE
    /\ UNCHANGED <<serverVars, plan, sent, wire, conn, streams>>

-----------------------------------------------------------------------------
(* network_server::start: accept() on a listening shard.                   *)
Connect(c) ==
    /\ pc = "none" /\ net[c] = "listening"
    /\ pc' = "reading" /\ home' = c
    /\ UNCHANGED <<serverVars, client, wire, eof, reads, misheard, streams>>

(* What handle() makes of the URLs: the service, in a set, which is empty  *)
(* if something throws; and whether the client had meant something else.   *)
Service(s) == IF s \in ToSet(Services) THEN s ELSE Unknown
Hearings ==
    {[service |-> {Service(a.service) : a \in Asked(u.url)},
      wrong   |-> u.legal /\ Asked(u.url) # {u.means}] : u \in Urls}

(* Variant: the loop does not wait for the future of new_req.              *)
AfterAsking_reading == "reading"

AfterAsking == "waiting"

(* handle(), from the URL on.  An exception ends the loop.                 *)
Ask ==
    /\ reads' = reads + 1
    /\ \E h \in Hearings :
          /\ misheard' = (misheard \/ h.wrong)
          /\ \/ /\ h.service = {}
                /\ pc' = "closing"
                /\ UNCHANGED <<calls, crash>>
             \/ /\ pc' = AfterAsking
                /\ \E s \in h.service : Accept(home, reads', s)

(* in.consume(_parser), and no body to come.                               *)
TakeHead ==
    /\ pc = "reading" /\ wire # << >> /\ Head(wire) = "get"
    /\ wire' = Tail(wire)
    /\ Ask
    /\ UNCHANGED <<lifecycle, serving, client, home, eof, streams>>

(* The same with a Content-Length.                                         *)
ExpectBody ==
    /\ pc = "reading" /\ wire # << >> /\ Head(wire) = "post"
    /\ wire' = Tail(wire)
    /\ pc' = "body"
    /\ UNCHANGED <<serverVars, client, home, eof, reads, misheard, streams>>

(* read_exactly: all of the body, or what there is when the client has hung*)
(* up, which nobody compares with the length.                              *)
TakeBody ==
    /\ pc = "body"
    /\ \/ /\ Len(wire) >= 2
          /\ wire' = SubSeq(wire, 3, Len(wire))
          /\ eof' = eof
       \/ /\ Len(wire) < 2 /\ closed
          /\ wire' = << >>
          /\ eof' = TRUE
    /\ Ask
    /\ UNCHANGED <<lifecycle, serving, client, home, streams>>

(* Variant: a client that hangs up ends the loop wherever it is.           *)
EndIsSeen_waiting == {"reading", "waiting"}

(* Where the end of the input is seen: the parser finds nothing to read.   *)
EndIsSeen == {"reading"}

ReadEnd ==
    /\ pc \in EndIsSeen /\ wire = << >> /\ closed
    /\ eof' = TRUE
    /\ pc' = "closing"
    /\ UNCHANGED <<serverVars, client, wire, home, reads, misheard, streams>>

(* reply() fulfils the promise of the request.                             *)
Resolve(k) ==
    /\ Return(k)
    /\ resolved' = IF crash' = None THEN resolved \cup {k.request} ELSE resolved
    /\ UNCHANGED <<client, wire, conn, replies, touched>>

(* The continuation in new_req writes the reply; the loop goes on, unless  *)
(* its input has ended.  A client that has hung up may make it fail.       *)
Write(r) ==
    /\ r \in resolved
    /\ resolved' = resolved \ {r}
    /\ \/ /\ pc = "freed"
          /\ touched' = TRUE
          /\ UNCHANGED <<replies, pc>>
       \/ /\ pc # "freed"
          /\ replies' = Append(replies, r)
          /\ pc' = IF pc # "waiting" THEN pc ELSE IF eof THEN "closing" ELSE "reading"
          /\ touched' = touched
       \/ /\ pc # "freed" /\ closed
          /\ pc' = "closing"
          /\ UNCHANGED <<replies, touched>>
    /\ UNCHANGED <<serverVars, client, wire, home, eof, reads, misheard>>

(* Variant: the connection is kept for a reply that is still due.          *)
CloseOutFlushed ==
    /\ pc = "closing" /\ Len(replies) = reads
    /\ pc' = "freed"
    /\ UNCHANGED <<serverVars, client, wire, home, eof, reads, misheard, streams>>

(* finally: the output is closed, and the last reference to conn goes.     *)
CloseOut ==
    /\ pc = "closing"
    /\ pc' = "freed"
    /\ UNCHANGED <<serverVars, client, wire, home, eof, reads, misheard, streams>>

-----------------------------------------------------------------------------
Lifecycle ==
    /\ \/ (Proceed \/ Leave) /\ UNCHANGED serving
       \/ \E c \in Shards : CarryOut(c)
    /\ UNCHANGED <<calls, crash, client, wire, conn, streams>>

RunCall == \E k \in calls : Run(k) /\ UNCHANGED <<client, wire, conn, streams>>

(* What a reactor does by itself once the connection is there.             *)
Loop ==
    \/ TakeHead \/ ExpectBody \/ TakeBody \/ ReadEnd \/ CloseOut
    \/ \E k \in calls : Resolve(k)
    \/ \E r \in resolved : Write(r)

(* A process that has crashed does nothing any more.                       *)
Next ==
    /\ crash = None
    /\ \/ Lifecycle
       \/ Send \/ HangUp
       \/ \E c \in Listeners : Connect(c)
       \/ RunCall
       \/ Loop

Spec == Init /\ [][Next]_vars

(* A reactor runs every task that is ready, and messages between shards    *)
(* arrive; nobody makes a client send or main go on.                       *)
FairSpec == Spec /\ WF_vars(crash = None /\ (Loop \/ RunCall))

-----------------------------------------------------------------------------
(* A client that sends its requests without waiting gets the replies in the*)
(* order of the requests, though they are run on any shards.               *)
AnsweredInOrder == \A i \in DOMAIN replies : replies[i] = i

(* However a client encodes the parameters of its request (small or capital*)
(* digits, "+" or "%20", reserved characters escaped, "=" left out), the   *)
(* scheduler is asked for the service, function and parameters it means.   *)
RequestAsSent == ~misheard

(* new_req keeps a reference to the output stream while the function runs; *)
(* the connection is not freed under it, whenever the client hangs up.     *)
StreamsAlive == ~touched

(* A connection whose client has hung up is freed, and its descriptor with *)
(* it, unless its request is one of those that never get a reply.          *)
NeverReplied == pc = "waiting" /\ calls = {} /\ resolved = {}
ClosedIsFreed == closed ~> (pc = "freed" \/ NeverReplied \/ crash # None)
=============================================================================
