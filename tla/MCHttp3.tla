------------------------------ MODULE MCHttp3 ------------------------------
(* HTTP/3 for TLC: the way to a connection (H3Pool) and one connection      *)
(* (H3Stream), side by side: a behaviour moves the one or the other.        *)
EXTENDS H3Pool, H3Stream

CONSTANTS r1, r2, r3, h1, h2

TwoAlternatives == <<h1, h2>>

S(n, xs) == [cl |-> n, items |-> xs]
NoLength == 0 - 1

\* One response, of every shape.
Responses == {
    S(2, <<"1xx", "1xx", "headers", "d2", "b", "b", "fin">>),
    S(2, <<"headers", "d1", "b", "other", "d2", "b", "b", "fin">>),
    S(1, <<"headers", "d1", "b", "d1", "b", "fin">>),
    S(0, <<"headers", "d0", "d1", "b", "fin">>),
    S(2, <<"headers", "d2", "b", "fin">>), S(1, <<"headers", "d2", "fin">>),
    S(NoLength, <<"headers", "d2", "b", "b", "headers", "d1", "b", "fin">>),
    S(NoLength, <<"headers", "d1", "b", "headers", "headers", "fin">>),
    S(NoLength, <<"headers", "d1", "settings", "fin">>),
    S(NoLength, <<"1xx", "1xx", "1xx", "fin">>),
    S(NoLength, <<"reserved", "fin">>), S(NoLength, <<"d1", "b", "fin">>),
    S(NoLength, <<"headers", "d1", "reset">>), S(NoLength, <<"other", "reset">>) }
Short == S(NoLength, <<"headers", "fin">>)

OneStream == {[on |-> <<x, NoScript>>, uni |-> {"control"}, dgrams |-> 0] : x \in Responses}
TwoStreams == {[on |-> <<Short, Short>>, uni |-> {"control+datagram"}, dgrams |-> 2]}
ManyUni == {[on |-> <<NoScript, Short>>, uni |-> u, dgrams |-> 1] :
               u \in {{"control+datagram", "control"}, {"control", "qpack", "unknown"},
                      {"push", "control"}, {"control-bad"}}}
Servers == OneStream \union TwoStreams \union ManyUni

Init == (PoolInit /\ StreamRest) \/ (StreamInit /\ PoolRest)
Next == (PoolNext /\ UNCHANGED streamVars) \/ (StreamNext /\ UNCHANGED poolVars)
Spec == Init /\ [][Next]_<<poolVars, streamVars>> /\ PoolFairness
============================================================================
