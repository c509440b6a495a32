------------------------------ MODULE ConnLease ------------------------------
(***************************************************************************)
(* What the connection pool promises its callers, without saying how: at   *)
(* most Limit slots of a host are taken, each by a dial or by the          *)
(* connection it made, and a connection that cannot be shared is leased to *)
(* one call at a time.                                                     *)
(***************************************************************************)
EXTENDS Integers, FiniteSets

CONSTANTS
    Call, Conn, Host,
    HostOf,              \* [Call -> Host]
    Limit,               \* slots of a host; 0: no limit
    NoConn

VARIABLES
    slots,               \* [Host -> SUBSET (Call \cup Conn)]
    made, shared,        \* the connections made so far, the shareable ones
    lease                \* [Call -> Conn or NoConn]

leaseVars == <<slots, made, shared, lease>>

LeaseInit ==
    /\ slots = [h \in Host |-> {}]
    /\ made = {} /\ shared = {}
    /\ lease = [r \in Call |-> NoConn]

-----------------------------------------------------------------------------
(* Slots.                                                                  *)

\* A call's dial takes a free slot of its host.
TakeSlot(r) ==
    LET h == HostOf[r]
    IN  /\ r \notin slots[h]
        /\ Limit # 0 => Cardinality(slots[h]) < Limit
        /\ slots' = [slots EXCEPT ![h] = @ \cup {r}]
        /\ UNCHANGED <<made, shared>>

\* A dial or a connection gives its slot back ...
FreeSlot(h, t) ==
    /\ t \in slots[h]
    /\ slots' = [slots EXCEPT ![h] = @ \ {t}]
    /\ UNCHANGED <<made, shared>>

\* ... or passes it to the dial of a call that has none.
PassSlot(r, t) ==
    LET h == HostOf[r]
    IN  /\ t \in slots[h] /\ r \notin slots[h]
        /\ slots' = [slots EXCEPT ![h] = (@ \ {t}) \cup {r}]
        /\ UNCHANGED <<made, shared>>

\* A dial becomes a new connection, in the same slot.
Establish(r, c) ==
    LET h == HostOf[r]
    IN  /\ r \in slots[h] /\ c \notin made
        /\ slots' = [slots EXCEPT ![h] = (@ \ {r}) \cup {c}]
        /\ made' = made \cup {c}
        /\ shared' \in {shared, shared \cup {c}}

SlotStep ==
    \/ \E r \in Call : TakeSlot(r)
    \/ \E h \in Host, t \in Call \cup Conn : FreeSlot(h, t)
    \/ \E r \in Call, t \in Call \cup Conn : PassSlot(r, t)
    \/ \E r \in Call, c \in Conn : Establish(r, c)

(* Leases.                                                                 *)

\* A call gets a connection that was made before, and that no other call has
\* unless it is shared.
Lease(r, c) ==
    /\ lease[r] = NoConn
    /\ c \in made
    /\ c \in shared \/ \A q \in Call : lease[q] # c
    /\ lease' = [lease EXCEPT ![r] = c]

EndLease(r) ==
    /\ lease[r] # NoConn
    /\ lease' = [lease EXCEPT ![r] = NoConn]

LeaseStep ==
    \E r \in Call : EndLease(r) \/ \E c \in Conn : Lease(r, c)

\* A call that ends its lease may free or pass the connection's slot in the
\* same step.
LeaseNext ==
    /\ SlotStep \/ UNCHANGED <<slots, made, shared>>
    /\ LeaseStep \/ UNCHANGED lease

LeaseSpec == LeaseInit /\ [][LeaseNext]_leaseVars
=============================================================================
