--------------------------- MODULE MCPersistConn ---------------------------
(* Instances of PersistConn for TLC.                                       *)
EXTENDS PersistConn

CONSTANTS a, b

TwoRequests == {a, b}
OnlyA       == {a}
OnlyB       == {b}
Nobody      == {}
AllKinds    == Final
Plain       == {"plain"}
WithBody    == {"body"}
============================================================================
