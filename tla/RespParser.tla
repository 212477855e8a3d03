----------------------------- MODULE RespParser -----------------------------
(***************************************************************************)
(* redis_protocol_parser.hh: the state machine that Ragel made for requests*)
(* of the Redis protocol, and the reading of a connection with it.  No file*)
(* of this repository uses it any more; how it is used, init() and then    *)
(* consume(), is taken from connection_handler.cc and its HTTP parser.     *)
(*                                                                         *)
(* A character is a string of length 1, or "CR" or "LF"; a letter stands   *)
(* for both of its cases, which the machine treats alike.                  *)
(***************************************************************************)
EXTENDS Integers, SequencesExt

CONSTANT Inputs         \* sequences of requests, [word, args]

VARIABLES
    sent,               \* the requests of the client
    wire,               \* the characters that have not arrived
    buffer,             \* the characters that have, and are not parsed
    delivered,          \* what the parser has made of them: [command, args]
    cut                 \* whether a buffer has ended inside a request

vars == <<sent, wire, buffer, delivered, cut>>

U32 == 2^16             \* stands for 2^32; more than any size sent here

-----------------------------------------------------------------------------
(* The alternatives of the grammar for the name of a command, by their     *)
(* first letter and in the order in which their actions are run: each      *)
(* alternative that agrees with the name so far sets _command.             *)
NamesA == <<"append">>
NamesB == <<"bitcount", "bitpos", "bitop", "bitfield">>
NamesC == <<"command">>
NamesD == <<"del", "decr", "decrby">>
NamesE == <<"echo", "exists", "expire">>
NamesG == <<"getbit", "get", "geoadd", "geodist", "geohash", "geopos", "georadiusbymember",
            "georadius">>
NamesH == <<"hset", "hgetall", "hget", "hdel", "hlen", "hexists", "hstrlen", "hincrby",
            "hincrbyfloat", "hkeys", "hvals", "hmget", "hmset">>
NamesI == <<"info", "incr", "incrby">>
NamesJ == <<"js">>
NamesL == <<"lpushx", "lpush", "lpop", "llen", "lindex", "linsert", "lrange", "lset", "lrem",
            "ltrim">>
NamesM == <<"mget", "mset">>
NamesP == <<"ping", "pexpire", "persist", "pttl", "pfadd", "pfcount", "pfmerge">>
NamesQ == <<"quit">>
NamesR == <<"rpushx", "rpush", "rpop">>
NamesS == <<"setbit", "set", "strlen", "sadd", "scard", "sismember", "smembers", "srem",
            "sdiffstore", "sdiff", "sinterstore", "sinter", "sunionstore", "sunion", "smove",
            "srandmember", "spop", "select">>
NamesT == <<"type", "ttl">>
NamesZ == <<"zadd", "zcard", "zcount", "zincrby", "zrangebyscore", "zrank", "zremrangebyrank",
            "zremrangebyscore", "zremrangebylex", "zrem", "zrevrangebyscore", "zrevrange",
            "zrevrank", "zscore", "zunionstore", "zinterstore", "zdiffstore", "zunion", "zinter",
            "zdiff", "zscan", "zrangebylex", "zlexcount", "zrange">>

Alternatives ==
    NamesA \o NamesB \o NamesC \o NamesD \o NamesE \o NamesG \o NamesH \o NamesI \o NamesJ
    \o NamesL \o NamesM \o NamesP \o NamesQ \o NamesR \o NamesS \o NamesT \o NamesZ

(* The alternative for zdiff is spelled like the one for zunion.           *)
Spelling(command) == IF command = "zdiff" THEN "zunion" ELSE command
Words == {Spelling(command) : command \in ToSet(Alternatives)}

Alive(word) ==
    SelectSeq(Alternatives, LAMBDA command :
        Len(word) <= Len(Spelling(command))
        /\ SubSeq(Spelling(command), 1, Len(word)) = word)

(* Variant: the first alternative sets _command, and the others leave it.  *)
Understood_first(word) == Head(Alive(word))

Understood(word) == Last(Alive(word))

-----------------------------------------------------------------------------
Value == [k \in {"0", "1", "2", "3", "4", "5", "6", "7", "8", "9"} |->
             CHOOSE v \in 0 .. 9 : ToString(v) = k]

(* init(); `fresh' means that a number has no digit yet, `after' is where  *)
(* the number ends.                                                        *)
Fresh ==
    [cs |-> "start", ok |-> FALSE, fresh |-> TRUE, after |-> "name", u32 |-> 0, arg_size |-> 0,
     word |-> "", command |-> "", size_left |-> 0, blob |-> << >>, args_list |-> << >>, read |-> 0]

Goto(f, cs) == [f EXCEPT !.cs = cs]
Error(f) == Goto(f, "error")

(* "*", a number that is not used, then "$", a number, and the name.       *)
Header(f, x) ==
    CASE f.cs = "start" /\ x = "*" -> [f EXCEPT !.cs = "number", !.fresh = TRUE, !.after = "size"]
      [] f.cs = "size" /\ x = "$" -> [f EXCEPT !.cs = "number", !.fresh = TRUE, !.after = "data"]
      [] f.cs = "number" /\ x \in DOMAIN Value ->
            [f EXCEPT !.fresh = FALSE,
                      !.u32 = ((IF f.fresh THEN 0 ELSE @ * 10) + Value[x]) % U32]
      [] f.cs = "number" /\ x = "CR" /\ ~f.fresh -> Goto(f, "number LF")
      [] f.cs = "number LF" /\ x = "LF" /\ f.after = "size" -> Goto(f, "size")
      [] f.cs = "number LF" /\ x = "LF" /\ f.after = "data" ->
            [f EXCEPT !.arg_size = f.u32, !.cs = IF f.word = "" THEN "name" ELSE "blob"]
      [] OTHER -> Error(f)

(* A letter must agree with an alternative; the length given before the    *)
(* name is not looked at.                                                  *)
Name(f, x) ==
    IF x = "CR" THEN (IF f.word \in Words THEN Goto(f, "name LF") ELSE Error(f))
    ELSE IF x \in {"LF", "*", "$"} \cup DOMAIN Value \/ Alive(f.word \o x) = << >> THEN Error(f)
    ELSE [f EXCEPT !.word = @ \o x, !.command = Understood(f.word \o x)]

AfterName(f, x) ==
    CASE f.cs = "name LF" /\ x = "LF" -> Goto(f, "size")
      [] f.cs = "blob CR" /\ x = "CR" -> Goto(f, "blob LF")
      [] f.cs = "blob LF" /\ x = "LF" -> Goto(f, "size")
      [] OTHER -> Error(f)

(* The machine for an argument: as many characters as were announced.  An  *)
(* empty one gives its character back to the caller.                       *)
Blob(f, x) ==
    LET left == IF f.cs = "blob" THEN f.arg_size ELSE f.size_left
    IN  IF left = 0
        THEN AfterName([f EXCEPT !.cs = "blob CR", !.args_list = Append(@, << >>)], x)
        ELSE IF left = 1
        THEN [f EXCEPT !.cs = "blob CR", !.args_list = Append(@, Append(f.blob, x)),
                       !.blob = << >>]
        ELSE [f EXCEPT !.cs = "more", !.size_left = left - 1, !.blob = Append(@, x)]

Step(f, x) ==
    LET next == CASE f.cs = "name" -> Name(f, x)
                  [] f.cs \in {"blob", "more"} -> Blob(f, x)
                  [] f.cs \in {"name LF", "blob CR", "blob LF"} -> AfterName(f, x)
                  [] OTHER -> Header(f, x)
    IN  IF next.cs = "error" THEN [f EXCEPT !.cs = "error"]
        ELSE [next EXCEPT !.ok = TRUE, !.read = @ + 1]

(* parse() on a buffer, after init(): it stops at the first character that *)
(* does not fit.  _state is ok from the first character that does.         *)
Parse(chars) ==
    FoldLeft(LAMBDA f, x : IF f.cs = "error" THEN f ELSE Step(f, x), Fresh, chars)

-----------------------------------------------------------------------------
CRLF == <<"CR", "LF">>
Number(n) == LET text == ToString(n) IN [k \in 1 .. Len(text) |-> SubSeq(text, k, k)] \o CRLF
Spelled(word) == [k \in 1 .. Len(word) |-> SubSeq(word, k, k)]
Bulk(chars) == <<"$">> \o Number(Len(chars)) \o chars \o CRLF
Encoded(request) ==
    <<"*">> \o Number(1 + Len(request.args)) \o Bulk(Spelled(request.word))
            \o FlattenSeq([k \in DOMAIN request.args |-> Bulk(request.args[k])])

Init ==
    /\ sent \in Inputs
    /\ wire = FlattenSeq([k \in DOMAIN sent |-> Encoded(sent[k])])
    /\ buffer = << >> /\ delivered = << >> /\ cut = FALSE

(* The stream gets its next buffer, which may end anywhere.                *)
Arrive(n) ==
    /\ buffer = << >> /\ n <= Len(wire)
    /\ buffer' = SubSeq(wire, 1, n)
    /\ wire' = SubSeq(wire, n + 1, Len(wire))
    /\ cut' = (cut \/ (wire' # << >> /\ wire'[1] # "*"))
    /\ UNCHANGED <<sent, delivered>>

(* A parse with an error and no character that fits skips the buffer; any  *)
(* other, finished or not, ends the reading of this request, and what is   *)
(* left of the buffer is for the next.                                     *)
Handle ==
    /\ buffer # << >>
    /\ LET f == Parse(buffer)
       IN  IF f.ok
           THEN /\ delivered' = Append(delivered, [command |-> f.command, args |-> f.args_list])
                /\ buffer' = SubSeq(buffer, f.read + 1, Len(buffer))
           ELSE delivered' = delivered /\ buffer' = << >>
    /\ UNCHANGED <<sent, wire, cut>>

Next == Handle \/ \E n \in 1 .. Len(wire) : Arrive(n)

Spec == Init /\ [][Next]_vars

-----------------------------------------------------------------------------
(* What the machine takes each name for, four of them for another command. *)
Misread == [incr |-> "incrby", decr |-> "decrby", hincrby |-> "hincrbyfloat", zunion |-> "zdiff"]
Meaning(word) == IF word \in DOMAIN Misread THEN Misread[word] ELSE word

(* Requests that are not cut by the end of a buffer are delivered one after*)
(* the other, whole and with the command they name (except the four), also *)
(* if many are in one buffer or an argument is empty or holds line ends.   *)
(* Of requests that are cut only a beginning is delivered: arguments that  *)
(* were sent whole, never half of one or one of another request.           *)
DeliveredAsSent ==
    /\ ~cut => /\ Len(delivered) <= Len(sent)
               /\ \A k \in DOMAIN delivered :
                     delivered[k] = [command |-> Meaning(sent[k].word), args |-> sent[k].args]
    /\ ~cut /\ wire = << >> /\ buffer = << >> => Len(delivered) = Len(sent)
    /\ \A k \in DOMAIN delivered : \E n \in DOMAIN sent :
          /\ IsPrefix(delivered[k].args, sent[n].args)
          /\ delivered[k].args # << >> => delivered[k].command = Meaning(sent[n].word)
=============================================================================
