------------------------------ MODULE MCH2Conn ------------------------------
(* H2Conn on small instances.                                              *)
EXTENDS H2Conn, TLC
CONSTANTS s1, s2

Base == [streams |-> {s1}, req |-> [s \in Stream |-> 0], resp |-> [s \in Stream |-> 0],
         known |-> {}, expect |-> {}, declared |-> {-1}, served |-> {}, ctx |-> {},
         faults |-> {}]
Both(n) == [s \in Stream |-> n]

\* Two uploads compete for the connection's window while the server changes windows.
Uploads == [Base EXCEPT !.streams = {s1, s2}, !.req = [s \in Stream |-> IF s = s1 THEN 1 ELSE 2],
                        !.known = {s1}, !.expect = {s2}, !.faults = {"window", "connection"}]
\* A response with a body, and all a server and a caller may do about it.
Download == [Base EXCEPT !.resp = Both(3), !.declared = {-1, 1}, !.served = {s1},
                         !.faults = {"order", "extra", "reset", "connection"}]
\* Two responses share the connection's receive window.
Downloads == [Base EXCEPT !.streams = {s1, s2}, !.resp = Both(1), !.served = {s1, s2}]
\* Request and response bodies at the same time, and a context that ends.
Duplex == [Base EXCEPT !.req = Both(1), !.resp = Both(1), !.served = {s1}, !.ctx = {s1},
                       !.faults = {"extra", "reset"}]
\* The response comes before the request body is out, which waits for window.
Early == [Base EXCEPT !.req = Both(2), !.served = {s1}, !.ctx = {s1}]
\* A window that grows past its maximum.
Overflow == [Base EXCEPT !.req = Both(2), !.served = {s1}, !.faults = {"overflow"}]

Exchanges == {Uploads, Download, Downloads, Duplex, Early, Overflow}
=============================================================================
