---------------------------- MODULE MCHttpServer ----------------------------
(* The URLs of requests for two services, one of them unknown or not, and  *)
(* every way to encode one or two parameters; and some that are no path.   *)
EXTENDS HttpServer

a == 97
MCServices == <<<<a>>, <<a + 1>>>>
MCUnknown == <<a + 25>>
MCPlans == {<<"get", "get">>, <<"post", "half", "half", "get">>}

(* A client escapes a character with capital or small digits, or not if it *)
(* is no reserved one; a space can be a plus.                              *)
DigitOf(n, letter) == IF n < 10 THEN 48 + n ELSE letter + n - 10
Escaped(c) == {<<Percent, DigitOf(c \div 16, l), DigitOf(c % 16, l)>> : l \in {65, 97}}
Codes(c) == Escaped(c) \cup (IF c = Space THEN {<<Plus>>} ELSE {})
                         \cup (IF c = a THEN {<<a>>} ELSE {})
Alphabet == {a, Space, Amp, Plus, Equals, Percent, 239}
Texts == {<< >>} \cup {<<c>> : c \in Alphabet} \cup {<<a, c>> : c \in Alphabet}
EncodedText(t) ==
    IF t = << >> THEN {<< >>}
    ELSE {FlattenSeq(e) : e \in {f \in [DOMAIN t -> UNION {Codes(t[i]) : i \in DOMAIN t}] :
                                    \A i \in DOMAIN t : f[i] \in Codes(t[i])}}

Pairs(keys, values) ==
    UNION {{[key |-> k, value |-> v, text |-> ek \o <<Equals>> \o ev] :
               ek \in EncodedText(k), ev \in EncodedText(v)} : k \in keys, v \in values}
    \cup {[key |-> k, value |-> << >>, text |-> k] : k \in keys \cap {<<a>>}}

Meaning(service, params) ==
    [service |-> service, function |-> <<a, a>>, parameters |-> params]
Path(service) == <<Slash>> \o service \o <<Slash, a, a>>
One(s, p) == [url |-> Path(s) \o <<Query>> \o p.text, legal |-> TRUE,
              means |-> Meaning(s, [k \in {p.key} |-> p.value])]
Two(s, p, q) == [url |-> Path(s) \o <<Query>> \o p.text \o <<Amp>> \o q.text, legal |-> TRUE,
                 means |-> Meaning(s, [k \in {p.key, q.key} |-> IF k = p.key THEN p.value ELSE q.value])]

MCUrls ==
    {[url |-> Path(s), legal |-> TRUE, means |-> Meaning(s, << >>)] : s \in {<<a>>, <<a + 1>>, MCUnknown}}
    \cup {One(<<a>>, p) : p \in Pairs({<<c>> : c \in Alphabet}, Texts)}
    \cup {Two(<<a>>, p, q) : p \in Pairs({<<a>>, <<Amp>>}, {<< >>, <<Equals>>}),
                             q \in Pairs({<<Equals>>}, {<<Percent>>, <<a, Plus>>})}
    \cup {[url |-> u, legal |-> FALSE, means |-> Meaning(<<a>>, << >>)] :
             u \in {<< >>, <<Slash>>, <<Slash, a>>, <<a>>, <<Slash, a, Slash, a, Query, Percent>>}}
=============================================================================
