---------------------------- MODULE MCRespParser ----------------------------
(* Every command without arguments; some with every kind of argument; pairs*)
(* of requests, of which the first may be one with arguments.              *)
EXTENDS RespParser

Request(word, args) == [word |-> word, args |-> args]
Texts == {<< >>, <<"x">>, <<"CR", "LF">>, [k \in 1 .. 10 |-> "x"]}
WithArguments ==
    {Request(w, <<u>>) : w \in {"set", "zunion"}, u \in Texts}
    \cup {Request("set", <<u, v>>) : u, v \in Texts}

MCInputs ==
    {<<Request(w, << >>)>> : w \in Words}
    \cup {<<first>> : first \in WithArguments}
    \cup {<<first, second>> : first \in {Request("quit", << >>), Request("get", <<<<"x">>>>),
                                         Request("set", <<<<"x">>, << >>>>)},
                              second \in {Request("ttl", << >>), Request("hincrby", <<<<"CR">>>>)}}
=============================================================================
