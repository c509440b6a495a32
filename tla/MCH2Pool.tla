------------------------------ MODULE MCH2Pool ------------------------------
(* H2Pool on small instances.                                              *)
EXTENDS H2Pool, TLC
CONSTANTS r1, r2, r3
Bodies == [r \in Req |-> IF r = r1 THEN "once" ELSE IF r = r2 THEN "replay" ELSE "none"]

\* The default, requests that wait for a slot of a full connection, connections
\* used once, and one request with Connection: close.
Settings ==
    {[strict |-> FALSE, noKeepAlive |-> FALSE, close |-> {}],
     [strict |-> TRUE, noKeepAlive |-> FALSE, close |-> {}],
     [strict |-> FALSE, noKeepAlive |-> TRUE, close |-> {}],
     [strict |-> FALSE, noKeepAlive |-> FALSE, close |-> {r2}]}
=============================================================================
