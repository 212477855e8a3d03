------------------------------ MODULE UrlParse ------------------------------
(***************************************************************************)
(* connection_handler.cc: how the URL of a request becomes the name of a   *)
(* service, of a function, and parameters.  A string is a sequence of      *)
(* character codes; positions count from 0 and are words of W values, as   *)
(* `npos' and a length of 0 take part in the arithmetic.                   *)
(***************************************************************************)
EXTENDS Integers, SequencesExt

W == 2^16           \* stands for 2^64; longer than any string
npos == W - 1

Percent == 37       \* %
Amp == 38           \* &
Plus == 43          \* +
Dot == 46           \* .
Slash == 47         \* /
Equals == 61        \* =
Query == 63         \* ?
Space == 32

find(s, c, from) ==
    LET at == {i \in from .. Len(s) - 1 : s[i + 1] = c}
    IN  IF at = {} THEN npos ELSE Min(at)

(* substr throws if pos is past the end; nobody here asks for that.        *)
substr(s, pos, n) == SubSeq(s, pos + 1, Min({pos + n, Len(s)}))

-----------------------------------------------------------------------------
(* Variant: small letters are not digits.                                  *)
hex_to_byte_upper(c) == IF c \in 65 .. 90 THEN c - 65 + 10 ELSE c - 48

hex_to_byte(c) ==
    IF c \in 97 .. 122 THEN c - 97 + 10
    ELSE IF c \in 65 .. 90 THEN c - 65 + 10
    ELSE c - 48

(* A char has eight bits, whatever the two characters are.                 *)
hexstr_to_char(in, from) ==
    (hex_to_byte(in[from + 1]) * 16 + hex_to_byte(in[from + 2])) % 256

(* The decoded string, in a set; the empty set if an escape is cut off.    *)
url_decode(in) ==
    LET rest[i \in 0 .. Len(in)] ==
            IF i = Len(in) THEN {<< >>}
            ELSE IF in[i + 1] = Percent
            THEN IF i + 3 <= Len(in)
                 THEN {<<hexstr_to_char(in, i + 1)>> \o out : out \in rest[i + 3]}
                 ELSE {}
            ELSE {<<IF in[i + 1] = Plus THEN Space ELSE in[i + 1]>> \o out : out \in rest[i + 1]}
    IN  rest[0]

(* query_parameters[key] = value, in a set; nothing if one of the two can  *)
(* not be decoded.  The first "=" separates; at the end, or missing, it    *)
(* leaves no value.                                                        *)
add_param(param) ==
    LET split == find(param, Equals, 0)
        value == IF split >= (Len(param) - 1) % W THEN << >> ELSE substr(param, split + 1, npos)
    IN  {[key |-> k, value |-> v] : k \in url_decode(substr(param, 0, split)),
                                    v \in url_decode(value)}

(* Where the loop of set_query_param finds a parameter to begin, behind a  *)
(* "?" at pos: there, and behind each "&"; and what it cuts out.           *)
Begins(url, pos) ==
    {pos + 1} \cup {i + 1 : i \in {j \in pos + 1 .. Len(url) - 1 : url[j + 1] = Amp}}
Param(url, curr) == substr(url, curr, find(url, Amp, curr) - curr)

(* req.query_parameters: a later parameter replaces an earlier one.        *)
query_parameters(url, pos) ==
    LET assigned(curr) == add_param(Param(url, curr))
        assigning(k) == {curr \in Begins(url, pos) : \E p \in assigned(curr) : p.key = k}
    IN  [k \in {p.key : p \in UNION {assigned(curr) : curr \in Begins(url, pos)}} |->
            (CHOOSE p \in assigned(Max(assigning(k))) : TRUE).value]

set_query_param(url) ==
    LET pos == find(url, Query, 0)
    IN  [path   |-> IF pos = npos THEN url ELSE substr(url, 0, pos),
         params |-> IF pos = npos THEN << >> ELSE query_parameters(url, pos)]

(* A property tree with a value of its own and children is no JSON.        *)
Writable(params) ==
    << >> \in DOMAIN params /\ params[<< >>] # << >> => DOMAIN params = {<< >>}

(* handle(): what the scheduler is asked for, in a set; empty if something *)
(* throws.  Without a second "/" the word after npos is 1, and the function*)
(* is called like the service.                                             *)
Asked(url) ==
    LET parsed == set_query_param(url)
        path == parsed.path
        split == find(substr(path, 1, npos), Slash, 0)
    IN  IF path = << >> \/ ~Writable(parsed.params) THEN {}
        ELSE {[service |-> substr(path, 1, split),
               function |-> substr(path, (split + 2) % W, npos),
               parameters |-> parsed.params]}

-----------------------------------------------------------------------------
(* What a client means by a URL.  Characters have codes other than 0.      *)
Text == Seq(1 .. 255)
Digit(d, n) ==
    \/ d \in 48 .. 57 /\ n = d - 48
    \/ d \in 65 .. 70 /\ n = d - 55
    \/ d \in 97 .. 102 /\ n = d - 87

(* code stands for t: character i, between at[i] and at[i + 1], as it is,  *)
(* as an escape with small or capital digits, or a space as a plus.        *)
Encodes(code, t) ==
    /\ \A j \in DOMAIN code : code[j] \notin {Amp, Equals}
    /\ \E at \in [1 .. Len(t) + 1 -> 0 .. Len(code)] :
          /\ at[1] = 0 /\ at[Len(t) + 1] = Len(code)
          /\ \A i \in 1 .. Len(t) :
                \/ /\ at[i + 1] = at[i] + 1
                   /\ \/ code[at[i] + 1] = t[i] /\ t[i] \notin {Percent, Plus}
                      \/ code[at[i] + 1] = Plus /\ t[i] = Space
                \/ /\ at[i + 1] = at[i] + 3 /\ code[at[i] + 1] = Percent
                   /\ \E m, n \in 0 .. 15 : /\ Digit(code[at[i] + 2], m)
                                            /\ Digit(code[at[i] + 3], n)
                                            /\ t[i] = m * 16 + n

(* A parameter: key=value, key= or key.                                    *)
EncodesPair(param, key, value) ==
    \/ \E e \in DOMAIN param : /\ param[e] = Equals
                               /\ Encodes(SubSeq(param, 1, e - 1), key)
                               /\ Encodes(SubSeq(param, e + 1, Len(param)), value)
    \/ Encodes(param, key) /\ value = << >>

(* Between two "&" there is one parameter, each has a name of its own, and *)
(* none is missing.                                                        *)
Ends(query, b) ==
    {e \in b .. Len(query) : /\ \A j \in b + 1 .. e : query[j] # Amp
                             /\ e < Len(query) => query[e + 1] = Amp}
EncodesAll(query, parameters) ==
    LET begins == {0} \cup {j \in DOMAIN query : query[j] = Amp}
    IN  \E key \in [begins -> DOMAIN parameters] :
            /\ \A b \in begins : \A e \in Ends(query, b) :
                  EncodesPair(SubSeq(query, b + 1, e), key[b], parameters[key[b]])
            /\ \A b, c \in begins : key[b] = key[c] => b = c
            /\ \A k \in DOMAIN parameters : \E b \in begins : key[b] = k

(* /service/function?parameters; names without a ".", which would be paths *)
(* in a property tree.                                                     *)
Means(url, what) ==
    LET path == <<Slash>> \o what.service \o <<Slash>> \o what.function
    IN  /\ url \in Text /\ Len(url) < npos
        /\ what \in [service : Text, function : Text, parameters : [DOMAIN what.parameters -> Text]]
        /\ \A j \in DOMAIN what.service : what.service[j] \notin {Slash, Query}
        /\ \A j \in DOMAIN what.function : what.function[j] # Query
        /\ \A k \in DOMAIN what.parameters :
              k \in Text /\ k # << >> /\ \A j \in DOMAIN k : k[j] # Dot
        /\ \/ url = path /\ what.parameters = << >>
           \/ /\ Len(url) > Len(path) /\ SubSeq(url, 1, Len(path) + 1) = path \o <<Query>>
              /\ EncodesAll(SubSeq(url, Len(path) + 2, Len(url)), what.parameters)
=============================================================================
