----------------------------- MODULE MCConnPool -----------------------------
(* ConnPool on small instances.                                            *)
EXTENDS ConnPool, TLC

CONSTANTS w1, w2, w3, c1, c2, k1

OneHost == [w \in Want |-> k1]

\* Calls and connections are interchangeable when all calls go to one host.
CallsAndConns == Permutations(Want) \cup Permutations(Conn)
=============================================================================
