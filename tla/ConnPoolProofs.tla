--------------------------- MODULE ConnPoolProofs ---------------------------
(***************************************************************************)
(* ConnPool, for every set of calls, connections and hosts and every       *)
(* limit: the accounting of connsPerHost is exact and the limit holds.     *)
(*                                                                         *)
(* The count alone is not inductive.  A slot that decConnsPerHost passes   *)
(* on must go to a call that has no dial yet, or a dial would be counted   *)
(* twice: so a queued call has no dial, is queued once, for its own host,  *)
(* and has left the part of getConn that could queue it again.             *)
(***************************************************************************)
EXTENDS ConnPool, FiniteSetTheorems, WellFoundedInduction, TLAPS

SlotDial == {"start", "dialing", "cancelled", "dec"}
Entering == {"new", "dialq"}

DialSlotsOf(d, k) == {w \in Want : KeyOf[w] = k /\ d[w] \in SlotDial}
ConnSlotsOf(o, ck, k) == {c \in o : ck[c] = k}

\* A call that has not passed queueForDial has no dial.
EnteringHasNoDial == \A w \in Want : pc[w] \in Entering => dial[w] = "none"

\* connsPerHostWait holds calls of its host, with no dial, each once.
QueueWellFormed ==
    \A k \in Key :
        /\ \A i \in DOMAIN connsPerHostWait[k] :
            LET w == connsPerHostWait[k][i]
            IN  KeyOf[w] = k /\ dial[w] = "none" /\ pc[w] \notin Entering
        /\ \A i, j \in DOMAIN connsPerHostWait[k] :
            connsPerHostWait[k][i] = connsPerHostWait[k][j] => i = j

\* Who returns a connection has one.
ReturnsConn ==
    \A w \in Want : /\ pc[w] = "put" => held[w] \in Conn
                    /\ dial[w] = "put" => dconn[w] \in Conn

SlotsBounded == MaxConnsPerHost # 0 => \A k \in Key : connsPerHost[k] <= MaxConnsPerHost

SlotInv == EnteringHasNoDial /\ QueueWellFormed /\ SlotsExact /\ SlotsBounded

\* The inductive invariant.
PoolInv == TypeOK /\ ReturnsConn /\ SlotInv

-----------------------------------------------------------------------------
(* Sequences and their positions.                                          *)

\* A nonempty set of naturals has a least element, and Min is it.
LEMMA MinOf ==
    ASSUME NEW S \in SUBSET Nat, S # {}
    PROVE  Min(S) \in S /\ \A y \in S : Min(S) <= y
<1>1. \E x \in S : \A y \in S : <<y, x>> \notin OpToRel(<, Nat)
  BY NatLessThanWellFounded, WFMin
<1>2. \A x, y \in Nat : y < x => <<y, x>> \in OpToRel(<, Nat)
  BY Zenon DEF OpToRel
<1>3. \E x \in S : \A y \in S : ~(y < x)
  BY <1>1, <1>2, Zenon
<1>4. \E x \in S : \A y \in S : x <= y
  BY <1>3
<1> QED BY <1>4 DEF Min

\* A nonempty set of positions has a greatest element, and Max is it.
LEMMA MaxOf ==
    ASSUME NEW n \in Nat, NEW S \in SUBSET (1..n), S # {}
    PROVE  Max(S) \in S /\ \A y \in S : y <= Max(S)
<1> DEFINE T == {i \in 0..n : n - i \in S}
<1>1. T \in SUBSET Nat /\ T # {}
  <2>1. PICK x \in S : TRUE OBVIOUS
  <2>2. n - x \in 0..n /\ n - (n - x) = x OBVIOUS
  <2>3. n - x \in T BY <2>1, <2>2
  <2>4. T \subseteq Nat OBVIOUS
  <2> QED BY <2>3, <2>4
<1>2. Min(T) \in T /\ \A y \in T : Min(T) <= y
  <2> HIDE DEF T
  <2> QED BY <1>1, MinOf
<1>3. \E x \in S : \A y \in S : y <= x
  <2>1. Min(T) \in 0..n /\ n - Min(T) \in S BY <1>2
  <2>2. ASSUME NEW y \in S PROVE y <= n - Min(T)
    <3>1. n - y \in T OBVIOUS
    <3>2. Min(T) <= n - y BY <1>2, <3>1
    <3> HIDE DEF T
    <3> QED BY <2>1, <3>2
  <2> HIDE DEF T
  <2> QED BY <2>1, <2>2
<1> QED BY <1>3 DEF Max

\* Removing an element leaves a sequence over the same set.
LEMMA RemoveFirstType ==
    ASSUME NEW S, NEW s \in Seq(S), NEW e
    PROVE  RemoveFirst(s, e) \in Seq(S)
<1> DEFINE I == {i \in 1..Len(s) : s[i] = e}
<1>1. CASE I = {}
  BY <1>1 DEF RemoveFirst
<1>2. CASE I # {}
  <2>1. Min(I) \in 1..Len(s)
    <3>1. I \in SUBSET Nat /\ I \subseteq 1..Len(s) OBVIOUS
    <3> HIDE DEF I
    <3> QED BY <1>2, <3>1, MinOf
  <2>2. RemoveFirst(s, e) = RemoveAt(s, Min(I))
    BY <1>2 DEF RemoveFirst, SelectInSeq
  <2> HIDE DEF I
  <2>3. SubSeq(s, 1, Min(I) - 1) \in Seq(S) /\ SubSeq(s, Min(I) + 1, Len(s)) \in Seq(S)
    BY <2>1
  <2> QED BY <2>2, <2>3 DEF RemoveAt
<1> QED BY <1>1, <1>2

\* The first position of q in S is a position of q in S.
LEMMA FirstPosition ==
    ASSUME NEW T, NEW q \in Seq(T), NEW S, Positions(q, S) # {}
    PROVE  Min(Positions(q, S)) \in DOMAIN q /\ q[Min(Positions(q, S))] \in S
<1>1. Positions(q, S) \in SUBSET Nat BY DEF Positions
<1>2. Min(Positions(q, S)) \in Positions(q, S) BY <1>1, MinOf
<1> QED BY <1>2 DEF Positions

\* What cleaning the front of a queue keeps: a suffix of the queue.
LEMMA DropUntilSuffix ==
    ASSUME NEW T, NEW q \in Seq(T), NEW S
    PROVE  \E m \in Nat : DropUntil(q, S) = SubSeq(q, m + 1, Len(q)) /\ m <= Len(q)
<1>1. CASE Positions(q, S) = {}
  <2>1. DropUntil(q, S) = SubSeq(q, Len(q) + 1, Len(q)) BY <1>1 DEF DropUntil
  <2> QED BY <2>1
<1>2. CASE Positions(q, S) # {}
  <2> DEFINE m == Min(Positions(q, S))
  <2>1. m \in 1..Len(q) BY <1>2, FirstPosition
  <2>2. DropUntil(q, S) = SubSeq(q, (m - 1) + 1, Len(q)) BY <1>2, <2>1 DEF DropUntil
  <2>3. m - 1 \in Nat /\ m - 1 <= Len(q) BY <2>1
  <2> HIDE DEF m
  <2> QED BY <2>2, <2>3
<1> QED BY <1>1, <1>2

\* A suffix of a sequence, element by element.
LEMMA Suffix ==
    ASSUME NEW T, NEW q \in Seq(T), NEW m \in Nat, m <= Len(q)
    PROVE  /\ SubSeq(q, m + 1, Len(q)) \in Seq(T)
           /\ DOMAIN SubSeq(q, m + 1, Len(q)) = 1..(Len(q) - m)
           /\ \A i \in 1..(Len(q) - m) : /\ SubSeq(q, m + 1, Len(q))[i] = q[i + m]
                                         /\ i + m \in DOMAIN q
OBVIOUS

\* Cleaning the front of a queue leaves a queue of the same wantConns.
LEMMA DropUntilType ==
    ASSUME NEW T, NEW q \in Seq(T), NEW S
    PROVE  DropUntil(q, S) \in Seq(T)
<1>1. PICK m \in Nat : DropUntil(q, S) = SubSeq(q, m + 1, Len(q)) /\ m <= Len(q)
  BY DropUntilSuffix
<1> QED BY <1>1, Suffix

-----------------------------------------------------------------------------
(* Steps that change the slots.                                            *)

\* What a goroutine may do to dial before it gives a slot back or closes a
\* connection: no dial begins, and none of them takes or leaves a slot.
DialKept(d) ==
    /\ d \in [Want -> DialPC]
    /\ \A w \in Want : /\ d[w] = "none" <=> dial[w] = "none"
                       /\ d[w] \in SlotDial <=> dial[w] \in SlotDial

\* The types of what decConnsPerHost changes.
SlotTypes ==
    /\ dial \in [Want -> DialPC]
    /\ connsPerHost \in [Key -> Nat]
    /\ connsPerHostWait \in [Key -> Seq(Want)]
    /\ dialsInProgress \in Seq(Want)

\* No call goes back to the beginning of getConn.
NoneReenters == \A w \in Want : pc'[w] \in Entering => pc[w] \in Entering

\* The holders of slots of a host are finite sets, so they can be counted.
LEMMA SlotsFinite ==
    ASSUME NEW d, NEW o \in SUBSET Conn, NEW ck, NEW k
    PROVE  /\ IsFiniteSet(DialSlotsOf(d, k)) /\ Cardinality(DialSlotsOf(d, k)) \in Nat
           /\ IsFiniteSet(ConnSlotsOf(o, ck, k)) /\ Cardinality(ConnSlotsOf(o, ck, k)) \in Nat
<1>1. DialSlotsOf(d, k) \subseteq Want /\ ConnSlotsOf(o, ck, k) \subseteq Conn
  BY DEF DialSlotsOf, ConnSlotsOf
<1> QED BY <1>1, PoolConstants, FS_Subset, FS_CardinalityType

\* A step that keeps every dial's slot, the open connections and the counts.
LEMMA SlotFrame ==
    ASSUME PoolInv, NoneReenters, DialKept(dial'),
           UNCHANGED <<connsPerHost, connsPerHostWait, open, ckey>>
    PROVE  SlotInv'
<1> USE DEF PoolInv, SlotInv
<1>1. \A k \in Key : DialSlots(k)' = DialSlots(k) /\ ConnSlots(k)' = ConnSlots(k)
  BY DEF DialSlots, ConnSlots, DialKept, SlotDial
<1>2. SlotsExact' /\ SlotsBounded' BY <1>1 DEF SlotsExact, SlotsBounded
<1>3. EnteringHasNoDial'
  BY DEF EnteringHasNoDial, NoneReenters, DialKept
<1>4. QueueWellFormed'
  BY DEF QueueWellFormed, NoneReenters, DialKept, TypeOK
<1> QED BY <1>2, <1>3, <1>4

\* decConnsPerHost(k), when the caller has just ended one holder of a slot of k:
\* the slot is passed to a queued call or the count goes down.
LEMMA DecStep ==
    ASSUME PoolInv, NoneReenters, NEW k \in Key, NEW d \in [Want -> DialPC], NEW done,
           open' \in SUBSET Conn,
           \A w \in Want : d[w] = "none" <=> dial[w] = "none",
           MaxConnsPerHost # 0 => \A j \in Key :
               connsPerHost[j] = Cardinality(DialSlotsOf(d, j))
                                 + Cardinality(ConnSlotsOf(open', ckey', j))
                                 + (IF j = k THEN 1 ELSE 0),
           DecConnsPerHost(k, d, done)
    PROVE  /\ SlotInv'
           /\ SlotTypes'
           /\ \A w \in Want : dial'[w] = "put" => d[w] = "put"
<1> DEFINE q    == connsPerHostWait[k]
           live == Positions(q, Waiting(done))
           w    == q[Min(live)]
<1> USE PoolConstants DEF PoolInv, SlotInv, SlotTypes
<1>q. q \in Seq(Want) BY DEF TypeOK
<1>w. \A j \in Key : \A i \in DOMAIN connsPerHostWait[j] : connsPerHostWait[j][i] \in Want
  BY DEF TypeOK
<1>n. \A j \in Key : /\ Cardinality(DialSlotsOf(d, j)) \in Nat
                     /\ Cardinality(ConnSlotsOf(open', ckey', j)) \in Nat
  BY SlotsFinite
<1>1. CASE MaxConnsPerHost = 0
  <2>1. dial' = d /\ UNCHANGED countVars BY <1>1 DEF DecConnsPerHost
  <2>2. SlotsExact' /\ SlotsBounded' BY <1>1 DEF SlotsExact, SlotsBounded
  <2>3. EnteringHasNoDial' BY <2>1 DEF EnteringHasNoDial, NoneReenters
  <2>4. QueueWellFormed'
    BY <1>w, <2>1 DEF QueueWellFormed, NoneReenters, countVars
  <2> QED BY <2>1, <2>2, <2>3, <2>4 DEF TypeOK, countVars
<1>2. CASE MaxConnsPerHost # 0 /\ live # {}
  <2>1. /\ dial' = [d EXCEPT ![w] = "start"]
        /\ dialsInProgress' = TrackDial(w)
        /\ connsPerHostWait' = [connsPerHostWait EXCEPT ![k] = SubSeq(q, Min(live) + 1, Len(q))]
        /\ UNCHANGED connsPerHost
    BY <1>2 DEF DecConnsPerHost
  <2>2. Min(live) \in DOMAIN q /\ w \in Want BY <1>2, <1>q, FirstPosition
  <2> DEFINE m == Min(live)
             r == SubSeq(q, m + 1, Len(q))
  <2>3. m \in Nat /\ m <= Len(q) BY <1>q, <2>2
  <2> HIDE DEF m
  <2>4. /\ r \in Seq(Want) /\ DOMAIN r = 1..(Len(q) - m)
        /\ \A i \in 1..(Len(q) - m) : r[i] = q[i + m] /\ i + m \in DOMAIN q
    BY <1>q, <2>3, Suffix
  <2>5. KeyOf[w] = k /\ d[w] = "none" /\ pc[w] \notin Entering
    BY <2>2 DEF QueueWellFormed
  <2> HIDE DEF q, live
  <2>6. connsPerHostWait' = [connsPerHostWait EXCEPT ![k] = r] BY <2>1 DEF m, w
  <2>7. w = q[m] /\ m \in DOMAIN q BY <2>2 DEF m
  <2> HIDE DEF w, r
  <2>8. dial' \in [Want -> DialPC] BY <2>1 DEF DialPC
  <2>9. \A j \in Key : j # k => DialSlots(j)' = DialSlotsOf(d, j)
    BY <2>1, <2>5, <2>2 DEF DialSlots, DialSlotsOf, SlotDial
  <2>10. DialSlots(k)' = DialSlotsOf(d, k) \cup {w} /\ w \notin DialSlotsOf(d, k)
    BY <2>1, <2>5, <2>2 DEF DialSlots, DialSlotsOf, SlotDial
  <2>11. Cardinality(DialSlots(k)') = Cardinality(DialSlotsOf(d, k)) + 1
    BY <2>10, SlotsFinite, FS_AddElement
  <2>12. \A j \in Key : ConnSlots(j)' = ConnSlotsOf(open', ckey', j)
    BY DEF ConnSlots, ConnSlotsOf
  <2>13. SlotsExact'
    <3> SUFFICES ASSUME NEW j \in Key
                 PROVE  connsPerHost'[j] = Cardinality(DialSlots(j)') + Cardinality(ConnSlots(j)')
      BY DEF SlotsExact
    <3>1. CASE j = k BY <3>1, <1>2, <1>n, <2>1, <2>11, <2>12
    <3>2. CASE j # k BY <3>2, <1>2, <1>n, <2>1, <2>9, <2>12
    <3> QED BY <3>1, <3>2
  <2>14. SlotsBounded' BY <2>1 DEF SlotsBounded
  <2>15. EnteringHasNoDial'
    BY <2>1, <2>2, <2>5 DEF EnteringHasNoDial, NoneReenters
  <2>16. QueueWellFormed'
    <3> SUFFICES ASSUME NEW j \in Key
                 PROVE  /\ \A i \in DOMAIN connsPerHostWait'[j] :
                            LET x == connsPerHostWait'[j][i]
                            IN  KeyOf[x] = j /\ dial'[x] = "none" /\ pc'[x] \notin Entering
                        /\ \A i, l \in DOMAIN connsPerHostWait'[j] :
                            connsPerHostWait'[j][i] = connsPerHostWait'[j][l] => i = l
      BY DEF QueueWellFormed
    <3>1. CASE j # k
      <4>1. connsPerHostWait'[j] = connsPerHostWait[j] BY <3>1, <2>6 DEF TypeOK
      <4>3. \A i \in DOMAIN connsPerHostWait[j] : connsPerHostWait[j][i] # w
        BY <2>5, <3>1 DEF QueueWellFormed
      <4>4. \A i \in DOMAIN connsPerHostWait[j] : dial'[connsPerHostWait[j][i]] = "none"
        BY <1>w, <4>3, <2>1 DEF QueueWellFormed
      <4> QED BY <1>w, <4>1, <4>4 DEF QueueWellFormed, NoneReenters
    <3>2. CASE j = k
      <4>1. connsPerHostWait'[j] = r BY <3>2, <2>6 DEF TypeOK
      <4>2. \A i \in DOMAIN r : r[i] \in Want /\ i + m \in DOMAIN q /\ r[i] = q[i + m]
        BY <1>q, <2>3, <2>4
      <4>3. \A i \in DOMAIN q : KeyOf[q[i]] = k /\ dial[q[i]] = "none" /\ pc[q[i]] \notin Entering
        BY DEF QueueWellFormed, q
      <4>4. \A i, l \in DOMAIN q : q[i] = q[l] => i = l
        BY DEF QueueWellFormed, q
      <4>5. \A i \in DOMAIN r : r[i] # w
        BY <4>2, <4>4, <2>3, <2>4, <2>7
      <4>6. \A i, l \in DOMAIN r : r[i] = r[l] => i = l
        BY <4>2, <4>4, <2>3, <2>4
      <4>7. \A i \in DOMAIN r : KeyOf[r[i]] = j /\ dial'[r[i]] = "none" /\ pc'[r[i]] \notin Entering
        BY <4>2, <4>3, <4>5, <2>1, <3>2 DEF NoneReenters
      <4> QED BY <4>1, <4>6, <4>7
    <3> QED BY <3>1, <3>2
  <2>17. dialsInProgress' \in Seq(Want)
    <3>1. DropUntil(dialsInProgress, {x \in Want : dial[x] # "done"}) \in Seq(Want)
      BY DropUntilType DEF TypeOK
    <3> QED BY <2>1, <2>2, <3>1 DEF TrackDial
  <2>18. connsPerHost' \in [Key -> Nat] /\ connsPerHostWait' \in [Key -> Seq(Want)]
    <3>1. connsPerHost' \in [Key -> Nat] BY <2>1, Zenon DEF TypeOK
    <3>2. r \in Seq(Want) BY <2>4
    <3>3. connsPerHostWait' \in [Key -> Seq(Want)] BY <2>6, <3>2 DEF TypeOK
    <3> QED BY <3>1, <3>3
  <2>19. \A x \in Want : dial'[x] = "put" => d[x] = "put" BY <2>1
  <2> QED BY <2>8, <2>13, <2>14, <2>15, <2>16, <2>17, <2>18, <2>19
<1>3. CASE MaxConnsPerHost # 0 /\ live = {}
  <2>1. /\ dial' = d
        /\ connsPerHostWait' = [connsPerHostWait EXCEPT ![k] = <<>>]
        /\ connsPerHost' = [connsPerHost EXCEPT ![k] = @ - 1]
        /\ UNCHANGED dialsInProgress
    BY <1>3 DEF DecConnsPerHost
  <2> HIDE DEF q, live, w
  <2>2. \A j \in Key : /\ DialSlots(j)' = DialSlotsOf(d, j)
                       /\ ConnSlots(j)' = ConnSlotsOf(open', ckey', j)
    BY <2>1 DEF DialSlots, DialSlotsOf, ConnSlots, ConnSlotsOf, SlotDial
  <2>3. SlotsExact' /\ connsPerHost' \in [Key -> Nat]
    <3>1. ASSUME NEW j \in Key
          PROVE  /\ connsPerHost'[j] = Cardinality(DialSlots(j)') + Cardinality(ConnSlots(j)')
                 /\ connsPerHost'[j] \in Nat
      <4>1. CASE j = k BY <4>1, <1>3, <1>n, <2>1, <2>2, SMTT(30) DEF TypeOK
      <4>2. CASE j # k BY <4>2, <1>3, <1>n, <2>1, <2>2, SMTT(30) DEF TypeOK
      <4> QED BY <4>1, <4>2
    <3> QED BY <2>1, <3>1 DEF SlotsExact, TypeOK
  <2>4. SlotsBounded' BY <2>1, <2>3 DEF SlotsBounded, TypeOK
  <2>5. EnteringHasNoDial' BY <2>1 DEF EnteringHasNoDial, NoneReenters
  <2>6. QueueWellFormed'
    <3> SUFFICES ASSUME NEW j \in Key
                 PROVE  /\ \A i \in DOMAIN connsPerHostWait'[j] :
                            LET x == connsPerHostWait'[j][i]
                            IN  KeyOf[x] = j /\ dial'[x] = "none" /\ pc'[x] \notin Entering
                        /\ \A i, l \in DOMAIN connsPerHostWait'[j] :
                            connsPerHostWait'[j][i] = connsPerHostWait'[j][l] => i = l
      BY DEF QueueWellFormed
    <3>1. CASE j = k BY <3>1, <2>1 DEF TypeOK
    <3>2. CASE j # k
      <4>1. connsPerHostWait'[j] = connsPerHostWait[j] BY <3>2, <2>1 DEF TypeOK
      <4> QED BY <4>1, <1>w, <2>1 DEF QueueWellFormed, NoneReenters
    <3> QED BY <3>1, <3>2
  <2> QED BY <2>1, <2>3, <2>4, <2>5, <2>6 DEF TypeOK
<1> QED BY <1>1, <1>2, <1>3

\* persistConn.close by a goroutine that moves dial to d: the connection's slot
\* is given back if it was open, and nothing happens if it was not.
LEMMA CloseStep ==
    ASSUME PoolInv, NoneReenters, NEW c, NEW d, DialKept(d), NEW done,
           Close(c, d, done), ckey' = ckey
    PROVE  /\ SlotInv' /\ SlotTypes' /\ open' \subseteq open
           /\ \A w \in Want : dial'[w] = "put" => d[w] = "put"
<1> USE DEF PoolInv, SlotInv
<1>1. CASE c \in open
  <2>1. open' = open \ {c} /\ DecConnsPerHost(ckey[c], d, done)
    BY <1>1 DEF Close
  <2>2. ckey[c] \in Key /\ open \in SUBSET Conn /\ open' \in SUBSET Conn
    BY <1>1, <2>1 DEF TypeOK
  <2>3. ASSUME MaxConnsPerHost # 0, NEW j \in Key
        PROVE  connsPerHost[j] = Cardinality(DialSlotsOf(d, j))
                                 + Cardinality(ConnSlotsOf(open', ckey', j))
                                 + (IF j = ckey[c] THEN 1 ELSE 0)
    <3>1. DialSlotsOf(d, j) = DialSlots(j)
      BY DEF DialSlotsOf, DialSlots, DialKept, SlotDial
    <3>2. ConnSlotsOf(open', ckey', j) = ConnSlots(j) \ {c}
      BY <2>1 DEF ConnSlotsOf, ConnSlots
    <3>3. ConnSlots(j) = ConnSlotsOf(open, ckey, j) BY DEF ConnSlots, ConnSlotsOf
    <3>4. c \in ConnSlots(j) <=> j = ckey[c] BY <1>1 DEF ConnSlots
    <3>5. /\ IsFiniteSet(ConnSlots(j)) /\ Cardinality(ConnSlots(j)) \in Nat
          /\ Cardinality(DialSlots(j)) \in Nat
      BY <2>2, <3>1, <3>3, SlotsFinite
    <3>6. Cardinality(ConnSlots(j) \ {c})
            = IF c \in ConnSlots(j) THEN Cardinality(ConnSlots(j)) - 1 ELSE Cardinality(ConnSlots(j))
      BY <3>5, FS_RemoveElement
    <3>7. connsPerHost[j] = Cardinality(DialSlots(j)) + Cardinality(ConnSlots(j))
      BY <2>3 DEF SlotsExact
    <3> QED BY <3>1, <3>2, <3>4, <3>5, <3>6, <3>7
  <2>4. d \in [Want -> DialPC] /\ \A w \in Want : d[w] = "none" <=> dial[w] = "none"
    BY DEF DialKept
  <2>5. /\ SlotInv' /\ SlotTypes'
        /\ \A w \in Want : dial'[w] = "put" => d[w] = "put"
    BY <2>1, <2>2, <2>3, <2>4, DecStep
  <2> QED BY <2>1, <2>5
<1>2. CASE c \notin open
  <2>1. dial' = d /\ UNCHANGED <<open, countVars>> BY <1>2 DEF Close
  <2>2. SlotInv' BY <2>1, SlotFrame DEF countVars
  <2>3. SlotTypes' BY <2>1 DEF SlotTypes, DialKept, TypeOK, countVars
  <2> QED BY <2>1, <2>2, <2>3
<1> QED BY <1>1, <1>2

\* The types of what tryPutIdleConn changes beside the slots.
IdleTypes ==
    /\ wdone \in [Want -> BOOLEAN]
    /\ result \in [Want -> Conn \cup {None, Err}]
    /\ idleConn \in [Key -> Seq(Conn)]
    /\ idleLRU \in Seq(Conn)
    /\ idleConnWait \in [Key -> Seq(Want)]
    /\ aged \in SUBSET Conn /\ timers \in SUBSET Conn

\* The end of tryPutIdleConn: the connection joins the idle lists, and the eldest
\* of the LRU may be closed for it.
LEMMA AddIdleStep ==
    ASSUME PoolInv, NoneReenters, NEW c \in Conn, NEW d, DialKept(d),
           AddIdle(c, d), ckey' = ckey
    PROVE  /\ SlotInv' /\ SlotTypes' /\ open' \subseteq open
           /\ \A w \in Want : dial'[w] = "put" => d[w] = "put"
           /\ idleConn' \in [Key -> Seq(Conn)]
           /\ idleLRU' \in Seq(Conn)
           /\ aged' \in SUBSET Conn /\ timers' \in SUBSET Conn
<1> DEFINE lru    == <<c>> \o idleLRU
           full   == MaxIdleConns # 0 /\ Len(lru) > MaxIdleConns
           oldest == Last(lru)
           list   == [idleConn EXCEPT ![ckey[c]] = Append(@, c)]
<1> USE DEF PoolInv
<1>1. lru \in Seq(Conn) /\ Len(lru) \in Nat \ {0} BY DEF TypeOK
<1>2. oldest \in Conn /\ Front(lru) \in Seq(Conn)
  <2> HIDE DEF lru
  <2> QED BY <1>1 DEF Last, Front
<1>3. list \in [Key -> Seq(Conn)] /\ ckey[oldest] \in Key BY <1>2 DEF TypeOK
<1>4. aged' \in SUBSET Conn /\ timers' \in SUBSET Conn
  <2> DEFINE armed == IF IdleConnTimeout /\ c \notin alt THEN {c} ELSE {}
  <2>1. /\ aged' = aged \ (IF full THEN {c, oldest} ELSE {c})
        /\ timers' = (timers \ {oldest}) \cup armed \/ timers' = timers \cup armed
    BY Zenon DEF AddIdle
  <2> HIDE DEF full, oldest
  <2> QED BY <2>1 DEF TypeOK
<1>5. CASE full
  <2>1. /\ idleLRU' = Front(lru)
        /\ idleConn' = [list EXCEPT ![ckey[oldest]] = RemoveFirst(@, oldest)]
        /\ Close(oldest, d, DoneAfter(c))
    BY <1>5, Zenon DEF AddIdle
  <2> HIDE DEF lru, oldest, list, full
  <2>2. RemoveFirst(list[ckey[oldest]], oldest) \in Seq(Conn)
    BY <1>3, RemoveFirstType
  <2>3. idleConn' \in [Key -> Seq(Conn)] BY <1>3, <2>1, <2>2
  <2>4. /\ SlotInv' /\ SlotTypes' /\ open' \subseteq open
        /\ \A w \in Want : dial'[w] = "put" => d[w] = "put"
    BY <2>1, CloseStep
  <2> QED BY <1>2, <1>4, <2>1, <2>3, <2>4
<1>6. CASE ~full
  <2>1. /\ idleLRU' = lru /\ idleConn' = list
        /\ dial' = d /\ UNCHANGED <<open, countVars>>
    BY <1>6, Zenon DEF AddIdle
  <2> HIDE DEF lru, oldest, list, full
  <2>2. SlotInv' BY <2>1, SlotFrame DEF countVars
  <2>3. SlotTypes' BY <2>1 DEF SlotTypes, DialKept, TypeOK, countVars
  <2> QED BY <1>1, <1>3, <1>4, <2>1, <2>2, <2>3
<1> QED BY <1>5, <1>6

\* putOrCloseIdleConn by a goroutine that moves dial to d.
LEMMA PutStep ==
    ASSUME PoolInv, NoneReenters, NEW c \in Conn, NEW d, DialKept(d),
           PutOrCloseIdleConn(c, d)
    PROVE  /\ SlotInv' /\ SlotTypes' /\ IdleTypes' /\ open' \subseteq open
           /\ \A w \in Want : dial'[w] = "put" => d[w] = "put"
           /\ UNCHANGED <<closeIdle, born, ckey, alt, closers, sweepVars>>
<1> USE DEF PoolInv
<1>1. UNCHANGED <<closeIdle, born, ckey, alt, closers, sweepVars>>
  BY DEF PutOrCloseIdleConn
<1>2. CASE AlreadyIdle(c)
  <2>1. /\ dial' = d
        /\ UNCHANGED <<wdone, result, idleConn, idleLRU, idleConnWait, open, countVars, aged, timers>>
    BY <1>2 DEF PutOrCloseIdleConn
  <2>2. SlotInv' BY <1>1, <2>1, SlotFrame DEF countVars
  <2>3. SlotTypes' BY <2>1 DEF SlotTypes, DialKept, TypeOK, countVars
  <2>4. IdleTypes' BY <2>1 DEF IdleTypes, TypeOK
  <2> QED BY <1>1, <2>1, <2>2, <2>3, <2>4
<1>3. CASE ~AlreadyIdle(c)
  <2>1. /\ wdone' = DoneAfter(c)
        /\ result' = [w \in Want |-> IF w \in Takers(c) THEN c ELSE result[w]]
        /\ idleConnWait' = Offered(c)
    BY <1>3 DEF PutOrCloseIdleConn
  <2>2. wdone' \in [Want -> BOOLEAN] BY <2>1 DEF DoneAfter
  <2>3. result' \in [Want -> Conn \cup {None, Err}] BY <2>1 DEF TypeOK
  <2>4. idleConnWait' \in [Key -> Seq(Want)]
    <3> DEFINE q    == idleConnWait[ckey[c]]
               live == Positions(q, Waiting(wdone))
               left == IF c \in alt \/ live = {} THEN <<>> ELSE SubSeq(q, Min(live) + 1, Len(q))
    <3>1. q \in Seq(Want) /\ ckey[c] \in Key BY DEF TypeOK
    <3>2. left \in Seq(Want)
      <4>1. CASE live = {} BY <4>1
      <4>2. CASE live # {}
        <5>1. Min(live) \in DOMAIN q BY <3>1, <4>2, FirstPosition
        <5> HIDE DEF live, q
        <5>2. Min(live) \in Nat /\ Min(live) <= Len(q) BY <3>1, <5>1
        <5>3. SubSeq(q, Min(live) + 1, Len(q)) \in Seq(Want) BY <3>1, <5>2, Suffix
        <5> QED BY <5>3
      <4> QED BY <4>1, <4>2
    <3>3. idleConnWait' = [idleConnWait EXCEPT ![ckey[c]] = left] BY <2>1 DEF Offered
    <3> HIDE DEF left
    <3> QED BY <3>1, <3>2, <3>3 DEF TypeOK
  <2>5. CASE c \notin alt /\ Takers(c) # {}
    <3>1. dial' = d /\ UNCHANGED <<idleConn, idleLRU, open, countVars, aged, timers>>
      BY <1>3, <2>5 DEF PutOrCloseIdleConn
    <3>2. SlotInv' BY <1>1, <3>1, SlotFrame DEF countVars
    <3>3. SlotTypes' BY <3>1 DEF SlotTypes, DialKept, TypeOK, countVars
    <3>4. IdleTypes' BY <2>2, <2>3, <2>4, <3>1 DEF IdleTypes, TypeOK
    <3> QED BY <1>1, <3>1, <3>2, <3>3, <3>4
  <2>6. CASE (c \in alt \/ Takers(c) = {}) /\ Refused(c)
    <3>1. Close(c, d, DoneAfter(c)) /\ UNCHANGED <<idleConn, idleLRU, aged, timers>>
      <4>1. \/ AddIdle(c, d) /\ ~Refused(c)
            \/ Close(c, d, DoneAfter(c)) /\ UNCHANGED <<idleConn, idleLRU, aged, timers>>
        BY <1>3, <2>6 DEF PutOrCloseIdleConn
      <4> QED BY <2>6, <4>1
    <3>2. /\ SlotInv' /\ SlotTypes' /\ open' \subseteq open
          /\ \A w \in Want : dial'[w] = "put" => d[w] = "put"
      BY <1>1, <3>1, CloseStep
    <3>3. IdleTypes' BY <2>2, <2>3, <2>4, <3>1 DEF IdleTypes, TypeOK
    <3> QED BY <1>1, <3>2, <3>3
  <2>7. CASE (c \in alt \/ Takers(c) = {}) /\ ~Refused(c)
    <3>1. AddIdle(c, d)
      BY <1>3, <2>7 DEF PutOrCloseIdleConn
    <3>2. /\ SlotInv' /\ SlotTypes' /\ open' \subseteq open
          /\ \A w \in Want : dial'[w] = "put" => d[w] = "put"
          /\ idleConn' \in [Key -> Seq(Conn)] /\ idleLRU' \in Seq(Conn)
          /\ aged' \in SUBSET Conn /\ timers' \in SUBSET Conn
      BY <1>1, <3>1, AddIdleStep
    <3>3. IdleTypes' BY <2>2, <2>3, <2>4, <3>2 DEF IdleTypes
    <3> QED BY <1>1, <3>2, <3>3
  <2> QED BY <2>5, <2>6, <2>7
<1> QED BY <1>2, <1>3

\* removeIdleConn keeps the types of the lists.
LEMMA RemoveIdleTypes ==
    ASSUME TypeOK, NEW c \in Conn, RemoveIdleConn(c)
    PROVE  /\ idleConn' \in [Key -> Seq(Conn)] /\ idleLRU' \in Seq(Conn)
           /\ timers' \in SUBSET Conn /\ aged' \in SUBSET Conn
<1>1. ckey[c] \in Key /\ idleConn[ckey[c]] \in Seq(Conn) /\ idleLRU \in Seq(Conn) BY DEF TypeOK
<1>2. RemoveFirst(idleConn[ckey[c]], c) \in Seq(Conn) /\ RemoveFirst(idleLRU, c) \in Seq(Conn)
  BY <1>1, RemoveFirstType
<1>3. idleConn' \in [Key -> Seq(Conn)]
  BY <1>2 DEF RemoveIdleConn, TypeOK
<1> QED BY <1>2, <1>3 DEF RemoveIdleConn, TypeOK

-----------------------------------------------------------------------------
(* The steps of getConn and of the request.                                *)

\* queueForDial: a call without a dial takes a free slot, or joins the queue.
LEMMA QueueForDialStep ==
    ASSUME PoolInv, NEW w \in Want, QueueForDial(w)
    PROVE  SlotInv' /\ SlotTypes'
<1> DEFINE k == KeyOf[w]
           q == connsPerHostWait[k]
<1> USE PoolConstants DEF PoolInv, SlotInv
<1>1. /\ pc[w] = "dialq" /\ pc' = [pc EXCEPT ![w] = "wait"] /\ k \in Key
      /\ UNCHANGED <<open, ckey>>
  BY DEF QueueForDial, connVars
<1>2. dial[w] = "none" BY <1>1 DEF EnteringHasNoDial, Entering
<1>3. \A j \in Key : \A i \in DOMAIN connsPerHostWait[j] :
        connsPerHostWait[j][i] \in Want /\ connsPerHostWait[j][i] # w
  BY <1>1 DEF QueueWellFormed, TypeOK, Entering
<1>4. \A x \in Want : pc'[x] \in Entering => pc[x] \in Entering /\ x # w
  BY <1>1 DEF Entering, TypeOK
<1>5. CASE MaxConnsPerHost = 0 \/ connsPerHost[k] < MaxConnsPerHost
  <2>1. /\ connsPerHost' = IF MaxConnsPerHost = 0 THEN connsPerHost
                           ELSE [connsPerHost EXCEPT ![k] = @ + 1]
        /\ dial' = [dial EXCEPT ![w] = "start"]
        /\ dialsInProgress' = TrackDial(w)
        /\ UNCHANGED connsPerHostWait
    BY <1>1, <1>5, SMTT(30) DEF QueueForDial, TypeOK
  <2>2. DropUntil(dialsInProgress, {x \in Want : dial[x] # "done"}) \in Seq(Want)
    BY DropUntilType DEF TypeOK
  <2>3. SlotTypes'
    <3>1. dialsInProgress' \in Seq(Want) BY <2>1, <2>2 DEF TrackDial
    <3>2. dial' \in [Want -> DialPC] BY <2>1 DEF TypeOK, DialPC
    <3>3. connsPerHost' \in [Key -> Nat] BY <2>1 DEF TypeOK
    <3> QED BY <2>1, <3>1, <3>2, <3>3 DEF SlotTypes, TypeOK
  <2>4. EnteringHasNoDial' BY <1>4, <2>1 DEF EnteringHasNoDial, TypeOK
  <2>5. QueueWellFormed'
    <3>1. ASSUME NEW j \in Key, NEW i \in DOMAIN connsPerHostWait[j]
          PROVE  /\ dial'[connsPerHostWait[j][i]] = "none"
                 /\ pc'[connsPerHostWait[j][i]] \notin Entering
      <4>1. PICK x \in Want : x = connsPerHostWait[j][i] /\ x # w BY <1>3, <3>1
      <4>2. dial[x] = "none" /\ pc[x] \notin Entering BY <3>1, <4>1 DEF QueueWellFormed
      <4>3. dial'[x] = dial[x] BY <2>1, <4>1 DEF TypeOK
      <4> QED BY <1>4, <4>1, <4>2, <4>3
    <3> QED BY <2>1, <3>1 DEF QueueWellFormed
  <2>6. SlotsBounded' BY <1>5, <2>1 DEF SlotsBounded, TypeOK
  <2>7. SlotsExact'
    <3> SUFFICES ASSUME MaxConnsPerHost # 0, NEW j \in Key
                 PROVE  connsPerHost'[j] = Cardinality(DialSlots(j)') + Cardinality(ConnSlots(j)')
      BY DEF SlotsExact
    <3>1. DialSlots(j) = DialSlotsOf(dial, j) /\ ConnSlots(j) = ConnSlotsOf(open, ckey, j)
      BY DEF DialSlots, DialSlotsOf, ConnSlots, ConnSlotsOf, SlotDial
    <3>2. /\ IsFiniteSet(DialSlots(j)) /\ Cardinality(DialSlots(j)) \in Nat
          /\ Cardinality(ConnSlots(j)) \in Nat
      BY <3>1, SlotsFinite DEF TypeOK
    <3>3. ConnSlots(j)' = ConnSlots(j) BY <1>1 DEF ConnSlots
    <3>4. connsPerHost[j] = Cardinality(DialSlots(j)) + Cardinality(ConnSlots(j)) BY DEF SlotsExact
    <3>5. CASE j = k
      <4>1. DialSlots(j)' = DialSlots(j) \cup {w} /\ w \notin DialSlots(j)
        BY <1>2, <2>1, <3>5 DEF DialSlots, TypeOK
      <4>2. Cardinality(DialSlots(j)') = Cardinality(DialSlots(j)) + 1
        BY <3>2, <4>1, FS_AddElement
      <4> QED BY <2>1, <3>2, <3>3, <3>4, <3>5, <4>2 DEF TypeOK
    <3>6. CASE j # k
      <4>1. DialSlots(j)' = DialSlots(j) BY <2>1, <3>6 DEF DialSlots, TypeOK
      <4> QED BY <1>1, <2>1, <3>3, <3>4, <3>6, <4>1 DEF TypeOK
    <3> QED BY <3>5, <3>6
  <2> QED BY <2>3, <2>4, <2>5, <2>6, <2>7
<1>6. CASE MaxConnsPerHost # 0 /\ connsPerHost[k] >= MaxConnsPerHost
  <2>1. /\ connsPerHostWait' = [connsPerHostWait EXCEPT ![k] = Enqueue(@, w)]
        /\ UNCHANGED <<connsPerHost, dial, dialsInProgress>>
    <3>1. connsPerHost[k] \in Nat BY <1>1 DEF TypeOK
    <3>2. ~(MaxConnsPerHost = 0 \/ connsPerHost[k] < MaxConnsPerHost) BY <1>6, <3>1
    <3> QED BY <3>2, Zenon DEF QueueForDial
  <2> DEFINE p == DropUntil(q, Waiting(wdone))
  <2>2. q \in Seq(Want) BY <1>1 DEF TypeOK
  <2>3. PICK m \in Nat : p = SubSeq(q, m + 1, Len(q)) /\ m <= Len(q)
    BY <2>2, DropUntilSuffix
  <2>4. /\ p \in Seq(Want) /\ DOMAIN p = 1..(Len(q) - m)
        /\ \A i \in 1..(Len(q) - m) : p[i] = q[i + m] /\ i + m \in DOMAIN q
    <3> DEFINE s == SubSeq(q, m + 1, Len(q))
    <3>1. p = s /\ m <= Len(q) BY <2>3
    <3>2. /\ s \in Seq(Want) /\ DOMAIN s = 1..(Len(q) - m)
          /\ \A i \in 1..(Len(q) - m) : s[i] = q[i + m] /\ i + m \in DOMAIN q
      <4> HIDE DEF q, p
      <4> QED BY <2>2, <3>1, Suffix
    <3> HIDE DEF s, p
    <3> QED BY <3>1, <3>2
  <2> HIDE DEF p
  <2>5. connsPerHostWait' = [connsPerHostWait EXCEPT ![k] = Append(p, w)]
    BY <2>1 DEF Enqueue, p
  <2>6. SlotTypes'
    <3>1. Append(p, w) \in Seq(Want) BY <2>4
    <3>2. connsPerHostWait' \in [Key -> Seq(Want)] BY <2>5, <3>1 DEF TypeOK
    <3> QED BY <2>1, <3>2 DEF SlotTypes, TypeOK
  <2>7. EnteringHasNoDial' BY <1>4, <2>1 DEF EnteringHasNoDial
  <2>8. SlotsExact' /\ SlotsBounded'
    <3>1. \A j \in Key : DialSlots(j)' = DialSlots(j) /\ ConnSlots(j)' = ConnSlots(j)
      BY <1>1, <2>1 DEF DialSlots, ConnSlots
    <3> QED BY <2>1, <3>1 DEF SlotsExact, SlotsBounded
  <2>9. QueueWellFormed'
    <3> SUFFICES ASSUME NEW j \in Key
                 PROVE  /\ \A i \in DOMAIN connsPerHostWait'[j] :
                            LET x == connsPerHostWait'[j][i]
                            IN  KeyOf[x] = j /\ dial'[x] = "none" /\ pc'[x] \notin Entering
                        /\ \A i, l \in DOMAIN connsPerHostWait'[j] :
                            connsPerHostWait'[j][i] = connsPerHostWait'[j][l] => i = l
      BY DEF QueueWellFormed
    <3>1. CASE j # k
      <4>1. connsPerHostWait'[j] = connsPerHostWait[j] BY <3>1, <2>5 DEF TypeOK
      <4> QED BY <1>3, <1>4, <2>1, <4>1 DEF QueueWellFormed
    <3>2. CASE j = k
      <4>1. connsPerHostWait'[j] = Append(p, w) BY <1>1, <3>2, <2>5 DEF TypeOK
      <4>2. \A i \in DOMAIN q : /\ q[i] \in Want /\ q[i] # w
                                /\ KeyOf[q[i]] = k /\ dial[q[i]] = "none" /\ pc[q[i]] \notin Entering
        BY <1>1, <1>3 DEF QueueWellFormed
      <4>3. \A i, l \in DOMAIN q : q[i] = q[l] => i = l
        BY <1>1 DEF QueueWellFormed
      <4> HIDE DEF q
      <4>4. \A i \in DOMAIN p : /\ p[i] \in Want /\ p[i] # w
                                /\ KeyOf[p[i]] = k /\ dial[p[i]] = "none" /\ pc[p[i]] \notin Entering
        BY <2>4, <4>2
      <4>5. \A i, l \in DOMAIN p : p[i] = p[l] => i = l
        BY <2>2, <2>3, <2>4, <4>3
      <4>6. /\ DOMAIN Append(p, w) = 1..(Len(p) + 1) /\ DOMAIN p = 1..Len(p) /\ Len(p) \in Nat
            /\ \A i \in 1..Len(p) : Append(p, w)[i] = p[i]
            /\ Append(p, w)[Len(p) + 1] = w
        BY <2>4
      <4>7. \A i \in 1..(Len(p) + 1) : i \in 1..Len(p) \/ i = Len(p) + 1 BY <4>6
      <4>8. pc'[w] \notin Entering BY <1>4
      <4>9. \A i \in 1..(Len(p) + 1) :
              LET x == Append(p, w)[i]
              IN  KeyOf[x] = j /\ dial'[x] = "none" /\ pc'[x] \notin Entering
        BY <1>2, <1>4, <2>1, <3>2, <4>4, <4>6, <4>7, <4>8
      <4>10. \A i, l \in 1..(Len(p) + 1) : Append(p, w)[i] = Append(p, w)[l] => i = l
        BY <4>4, <4>5, <4>6, <4>7
      <4> QED BY <4>1, <4>6, <4>9, <4>10
    <3> QED BY <3>1, <3>2
  <2> QED BY <2>6, <2>7, <2>8, <2>9
<1> QED BY <1>1, <1>5, <1>6 DEF QueueForDial

\* Every step of getConn, and of the request that uses its connection.
LEMMA WantStepInv ==
    ASSUME PoolInv, NEW w \in Want, WantStep(w)
    PROVE  PoolInv'
<1> USE PoolConstants DEF PoolInv
<1>e. pc \in [Want -> PC] /\ dial \in [Want -> DialPC] BY DEF TypeOK
<1>k. KeyOf[w] \in Key OBVIOUS
<1>d. DialKept(dial) BY DEF DialKept, TypeOK
<1>1. CASE GetIdle(w)
  <2> DEFINE k == KeyOf[w]
             i == Max(Usable(k))
             c == idleConn[k][i]
  <2>1. Usable(k) # {} /\ Usable(k) \in SUBSET (1..Len(idleConn[k])) /\ idleConn[k] \in Seq(Conn)
    <3>1. Usable(k) # {} BY <1>1 DEF GetIdle
    <3>2. idleConn[k] \in Seq(Conn) BY <1>k DEF TypeOK
    <3>3. DOMAIN idleConn[k] = 1..Len(idleConn[k]) BY <3>2
    <3>4. Usable(k) \subseteq DOMAIN idleConn[k] BY DEF Usable, Positions
    <3> QED BY <3>1, <3>2, <3>3, <3>4
  <2>2. i \in 1..Len(idleConn[k])
    <3>1. Len(idleConn[k]) \in Nat BY <2>1
    <3> QED BY <2>1, <3>1, MaxOf
  <2>3. c \in Conn BY <2>1, <2>2
  <2>4. /\ SubSeq(idleConn[k], 1, i) \in Seq(Conn) /\ SubSeq(idleConn[k], 1, i - 1) \in Seq(Conn)
    BY <2>1, <2>2
  <2>5. RemoveFirst(idleLRU, c) \in Seq(Conn) BY RemoveFirstType DEF TypeOK
  <2>6. ToSet(idleConn[k]) \subseteq Conn BY <2>1 DEF ToSet
  <2>7. /\ pc' = [pc EXCEPT ![w] = "wait"]
        /\ wdone' = [wdone EXCEPT ![w] = TRUE]
        /\ result' = [result EXCEPT ![w] = c]
        /\ closeIdle' = FALSE
        /\ idleConn' = [idleConn EXCEPT ![k] = SubSeq(@, 1, IF c \in alt THEN i ELSE i - 1)]
        /\ idleLRU' = IF c \in alt THEN idleLRU ELSE RemoveFirst(idleLRU, c)
        /\ aged' \subseteq aged /\ closers' \subseteq closers \cup aged
        /\ UNCHANGED <<held, idleConnWait, timers, countVars, connVars, sweepVars, dial, dconn, exited>>
    BY <1>1 DEF GetIdle
  <2> HIDE DEF i, c
  <2>8. NoneReenters BY <1>e, <2>7 DEF NoneReenters, Entering
  <2>9. SlotInv' BY <1>d, <2>7, <2>8, SlotFrame DEF countVars, connVars
  <2>10. idleConn' \in [Key -> Seq(Conn)] BY <1>k, <2>4, <2>7 DEF TypeOK
  <2>11. TypeOK'
    BY <2>3, <2>5, <2>7, <2>10 DEF TypeOK, countVars, connVars, sweepVars, PC
  <2>12. ReturnsConn' BY <1>e, <2>7 DEF ReturnsConn
  <2> QED BY <2>9, <2>11, <2>12
<1>2. CASE QueueForIdle(w)
  <2> DEFINE k == KeyOf[w]
  <2>1. /\ pc[w] = "new" /\ pc' = [pc EXCEPT ![w] = "dialq"]
        /\ UNCHANGED <<held, wdone, result, timers, countVars, connVars, sweepVars, dial, dconn, exited>>
    BY <1>2 DEF QueueForIdle
  <2>2. NoneReenters BY <1>e, <2>1 DEF NoneReenters, Entering
  <2>3. SlotInv' BY <1>d, <2>1, <2>2, SlotFrame DEF countVars, connVars
  <2>4. ReturnsConn' BY <1>e, <2>1 DEF ReturnsConn
  <2>5. DropUntil(idleConnWait[k], Waiting(wdone)) \in Seq(Want)
    BY <1>k, DropUntilType DEF TypeOK
  <2>6. Enqueue(idleConnWait[k], w) \in Seq(Want) BY <2>5 DEF Enqueue
  <2>7. \/ UNCHANGED <<idleVars, aged, closers>>
        \/ /\ closeIdle' = FALSE
           /\ aged' \subseteq aged /\ closers' \subseteq closers \cup aged
           /\ idleConn' = [idleConn EXCEPT ![k] = <<>>]
           /\ idleConnWait' = [idleConnWait EXCEPT ![k] = Enqueue(@, w)]
           /\ UNCHANGED idleLRU
    BY <1>2 DEF QueueForIdle
  <2>8. /\ idleConn' \in [Key -> Seq(Conn)] /\ idleLRU' \in Seq(Conn) /\ closeIdle' \in BOOLEAN
        /\ idleConnWait' \in [Key -> Seq(Want)] /\ aged' \in SUBSET Conn /\ closers' \in SUBSET Conn
    <3>1. CASE UNCHANGED <<idleVars, aged, closers>> BY <3>1 DEF TypeOK, idleVars
    <3>2. CASE /\ closeIdle' = FALSE
               /\ aged' \subseteq aged /\ closers' \subseteq closers \cup aged
               /\ idleConn' = [idleConn EXCEPT ![k] = <<>>]
               /\ idleConnWait' = [idleConnWait EXCEPT ![k] = Enqueue(@, w)]
               /\ UNCHANGED idleLRU
      <4>1. idleConn' \in [Key -> Seq(Conn)] BY <3>2 DEF TypeOK
      <4>2. idleConnWait' \in [Key -> Seq(Want)] BY <2>6, <3>2 DEF TypeOK
      <4> QED BY <3>2, <4>1, <4>2 DEF TypeOK
    <3> QED BY <2>7, <3>1, <3>2
  <2>9. TypeOK' BY <2>1, <2>8 DEF TypeOK, countVars, connVars, sweepVars, PC
  <2> QED BY <2>3, <2>4, <2>9
<1>4. CASE Receive(w)
  <2>1. /\ pc' \in {[pc EXCEPT ![w] = "failed"], [pc EXCEPT ![w] = "using"]}
        /\ held' \in {held, [held EXCEPT ![w] = result[w]]}
        /\ result' = [result EXCEPT ![w] = None]
        /\ held'[w] \in Conn \cup {None}
        /\ UNCHANGED <<wdone, idleVars, countVars, connVars, timeVars, sweepVars, dial, dconn, exited>>
    BY <1>4 DEF Receive, TypeOK
  <2>2. NoneReenters BY <1>e, <2>1 DEF NoneReenters, Entering
  <2>3. SlotInv' BY <1>d, <2>1, <2>2, SlotFrame DEF countVars, connVars
  <2>4. TypeOK'
    BY <2>1 DEF TypeOK, idleVars, countVars, connVars, timeVars, sweepVars, PC
  <2>5. ReturnsConn' BY <1>e, <2>1, SMTT(30) DEF ReturnsConn, TypeOK
  <2> QED BY <2>3, <2>4, <2>5
<1>5. CASE Cancel(w)
  <2>1. /\ pc' \in {[pc EXCEPT ![w] = "failed"], [pc EXCEPT ![w] = "check"]}
        /\ held' \in {held, [held EXCEPT ![w] = result[w]]}
        /\ result' = [result EXCEPT ![w] = None]
        /\ wdone' = [wdone EXCEPT ![w] = TRUE]
        /\ held'[w] \in Conn \cup {None}
        /\ UNCHANGED <<idleVars, countVars, connVars, timeVars, sweepVars, dial, dconn, exited>>
    BY <1>5 DEF Cancel, TypeOK
  <2>2. NoneReenters BY <1>e, <2>1 DEF NoneReenters, Entering
  <2>3. SlotInv' BY <1>d, <2>1, <2>2, SlotFrame DEF countVars, connVars
  <2>4. TypeOK'
    BY <2>1 DEF TypeOK, idleVars, countVars, connVars, timeVars, sweepVars, PC
  <2>5. ReturnsConn' BY <1>e, <2>1, SMTT(30) DEF ReturnsConn, TypeOK
  <2> QED BY <2>3, <2>4, <2>5
<1>3. CASE QueueForDial(w)
  <2>1. /\ pc[w] = "dialq" /\ pc' = [pc EXCEPT ![w] = "wait"]
        /\ dial' \in {dial, [dial EXCEPT ![w] = "start"]}
        /\ UNCHANGED <<held, wdone, result, idleVars, connVars, timeVars, sweepVars, dconn, exited>>
    BY <1>3 DEF QueueForDial
  <2>2. SlotInv' /\ SlotTypes' BY <1>3, QueueForDialStep
  <2>3. TypeOK'
    BY <2>1, <2>2 DEF TypeOK, SlotTypes, idleVars, connVars, timeVars, sweepVars, PC
  <2>4. ReturnsConn' BY <1>e, <2>1 DEF ReturnsConn
  <2> QED BY <2>2, <2>3, <2>4
<1>6. CASE CancelCheck(w)
  <2>1. /\ UNCHANGED <<wdone, result, idleVars, born, ckey, alt, timeVars, sweepVars, dconn, exited>>
    BY <1>6 DEF CancelCheck
  <2>2. CASE MayPut(held[w]) /\ pc' = [pc EXCEPT ![w] = "put"] /\ UNCHANGED <<held, dial, open, countVars>>
    <3>1. NoneReenters BY <1>e, <2>2 DEF NoneReenters, Entering
    <3>2. SlotInv' BY <1>d, <2>1, <2>2, <3>1, SlotFrame DEF countVars
    <3>3. TypeOK'
      BY <2>1, <2>2 DEF TypeOK, idleVars, countVars, timeVars, sweepVars, PC
    <3>4. held[w] \in Conn BY <2>2 DEF MayPut, TypeOK
    <3>5. ReturnsConn' BY <1>e, <2>1, <2>2, <3>4 DEF ReturnsConn
    <3> QED BY <3>2, <3>3, <3>5
  <2>3. CASE /\ pc' = [pc EXCEPT ![w] = "failed"]
             /\ held' = [held EXCEPT ![w] = None]
             /\ Close(held[w], dial, wdone)
    <3>1. NoneReenters BY <1>e, <2>3 DEF NoneReenters, Entering
    <3>2. /\ SlotInv' /\ SlotTypes' /\ open' \subseteq open
          /\ \A x \in Want : dial'[x] = "put" => dial[x] = "put"
      BY <1>d, <2>1, <2>3, <3>1, CloseStep
    <3>3. TypeOK'
      BY <2>1, <2>3, <3>2 DEF TypeOK, SlotTypes, idleVars, timeVars, sweepVars, PC
    <3>4. ReturnsConn' BY <1>e, <2>1, <2>3, <3>2 DEF ReturnsConn, TypeOK
    <3> QED BY <3>2, <3>3, <3>4
  <2> QED BY <1>6, <2>2, <2>3 DEF CancelCheck
<1>7. ASSUME \/ CancelPut(w)
             \/ UseEnds(w)
      PROVE  PoolInv'
  <2>1. /\ pc' \in {[pc EXCEPT ![w] = "failed"], [pc EXCEPT ![w] = "over"]}
        /\ held' = [held EXCEPT ![w] = None]
        /\ PutOrCloseIdleConn(held[w], dial)
        /\ UNCHANGED <<dconn, exited>>
        /\ held[w] \in Conn
    <3>1. CASE CancelPut(w) BY <3>1 DEF CancelPut, ReturnsConn
    <3>2. CASE UseEnds(w) BY <3>2 DEF UseEnds, MayPut, TypeOK
    <3> QED BY <1>7, <3>1, <3>2
  <2>2. NoneReenters BY <1>e, <2>1 DEF NoneReenters, Entering
  <2>3. /\ SlotInv' /\ SlotTypes' /\ IdleTypes' /\ open' \subseteq open
        /\ \A x \in Want : dial'[x] = "put" => dial[x] = "put"
        /\ UNCHANGED <<closeIdle, born, ckey, alt, closers, sweepVars>>
    BY <1>d, <2>1, <2>2, PutStep
  <2>4. TypeOK'
    BY <2>1, <2>3 DEF TypeOK, SlotTypes, IdleTypes, sweepVars, PC
  <2>5. ReturnsConn' BY <1>e, <2>1, <2>3 DEF ReturnsConn, TypeOK
  <2> QED BY <2>3, <2>4, <2>5
<1>8. CASE UseFails(w)
  <2>1. /\ pc' = [pc EXCEPT ![w] = "over"] /\ held' = [held EXCEPT ![w] = None]
        /\ Close(held[w], dial, wdone)
        /\ UNCHANGED <<wdone, result, idleVars, born, ckey, alt, timeVars, sweepVars, dconn, exited>>
    BY <1>8 DEF UseFails
  <2>2. NoneReenters BY <1>e, <2>1 DEF NoneReenters, Entering
  <2>3. /\ SlotInv' /\ SlotTypes' /\ open' \subseteq open
        /\ \A x \in Want : dial'[x] = "put" => dial[x] = "put"
    BY <1>d, <2>1, <2>2, CloseStep
  <2>4. TypeOK'
    BY <2>1, <2>3 DEF TypeOK, SlotTypes, idleVars, timeVars, sweepVars, PC
  <2>5. ReturnsConn' BY <1>e, <2>1, <2>3 DEF ReturnsConn, TypeOK
  <2> QED BY <2>3, <2>4, <2>5
<1>9. CASE UseEndsAlt(w)
  <2>1. /\ pc' = [pc EXCEPT ![w] = "over"] /\ held' = [held EXCEPT ![w] = None]
        /\ UNCHANGED <<wdone, result, idleVars, countVars, connVars, timeVars, sweepVars, dial, dconn, exited>>
    BY <1>9 DEF UseEndsAlt
  <2>2. NoneReenters BY <1>e, <2>1 DEF NoneReenters, Entering
  <2>3. SlotInv' BY <1>d, <2>1, <2>2, SlotFrame DEF countVars, connVars
  <2>4. TypeOK'
    BY <2>1 DEF TypeOK, idleVars, countVars, connVars, timeVars, sweepVars, PC
  <2>5. ReturnsConn' BY <1>e, <2>1 DEF ReturnsConn, TypeOK
  <2> QED BY <2>3, <2>4, <2>5
<1> QED BY <1>1, <1>2, <1>3, <1>4, <1>5, <1>6, <1>7, <1>8, <1>9 DEF WantStep

-----------------------------------------------------------------------------
(* The steps of a dial goroutine.                                          *)

\* A dial that fails, or that nobody wants any more, gives its slot up.
LEMMA DialGivesUp ==
    ASSUME PoolInv, NEW w \in Want, dial[w] \in SlotDial, NEW done,
           DecConnsPerHost(KeyOf[w], [dial EXCEPT ![w] = "done"], done),
           UNCHANGED <<pc, open, ckey>>
    PROVE  /\ SlotInv' /\ SlotTypes'
           /\ \A x \in Want : dial'[x] = "put" => dial[x] = "put"
<1> DEFINE d == [dial EXCEPT ![w] = "done"]
<1> USE PoolConstants DEF PoolInv, SlotInv
<1>1. d \in [Want -> DialPC] BY DEF TypeOK, DialPC
<1>2. \A x \in Want : d[x] = "none" <=> dial[x] = "none" BY DEF SlotDial, TypeOK
<1>3. NoneReenters BY DEF NoneReenters
<1>4. open' \in SUBSET Conn /\ KeyOf[w] \in Key BY DEF TypeOK
<1>5. ASSUME MaxConnsPerHost # 0, NEW j \in Key
      PROVE  connsPerHost[j] = Cardinality(DialSlotsOf(d, j))
                               + Cardinality(ConnSlotsOf(open', ckey', j))
                               + (IF j = KeyOf[w] THEN 1 ELSE 0)
  <2>1. DialSlotsOf(d, j) = DialSlots(j) \ {w}
    BY DEF DialSlotsOf, DialSlots, SlotDial, TypeOK
  <2>2. ConnSlotsOf(open', ckey', j) = ConnSlots(j) BY DEF ConnSlotsOf, ConnSlots
  <2>3. DialSlots(j) = DialSlotsOf(dial, j) BY DEF DialSlots, DialSlotsOf, SlotDial
  <2>4. w \in DialSlots(j) <=> j = KeyOf[w] BY DEF DialSlots, SlotDial
  <2>5. /\ IsFiniteSet(DialSlots(j)) /\ Cardinality(DialSlots(j)) \in Nat
        /\ Cardinality(ConnSlots(j)) \in Nat
    BY <1>4, <2>2, <2>3, SlotsFinite
  <2>6. Cardinality(DialSlots(j) \ {w})
          = IF w \in DialSlots(j) THEN Cardinality(DialSlots(j)) - 1 ELSE Cardinality(DialSlots(j))
    BY <2>5, FS_RemoveElement
  <2>7. connsPerHost[j] = Cardinality(DialSlots(j)) + Cardinality(ConnSlots(j))
    BY <1>5 DEF SlotsExact
  <2> HIDE DEF d
  <2> QED BY <2>1, <2>2, <2>4, <2>5, <2>6, <2>7
<1>6. \A x \in Want : d[x] = "put" => dial[x] = "put" BY DEF TypeOK
<1> HIDE DEF d
<1>7. DecConnsPerHost(KeyOf[w], d, done) BY DEF d
<1>8. /\ SlotInv' /\ SlotTypes'
      /\ \A x \in Want : dial'[x] = "put" => d[x] = "put"
  BY <1>1, <1>2, <1>3, <1>4, <1>5, <1>7, DecStep
<1> QED BY <1>6, <1>8

\* A new connection takes over the slot of the dial that made it.
LEMMA DialSucceedStep ==
    ASSUME PoolInv, NEW w \in Want, NEW c \in Conn, NEW a \in BOOLEAN, DialSucceed(w, c, a)
    PROVE  SlotInv'
<1> USE PoolConstants DEF PoolInv, SlotInv
<1>1. /\ dial[w] \in {"dialing", "cancelled"} /\ c \notin born
      /\ open' = open \cup {c} /\ ckey' = [ckey EXCEPT ![c] = KeyOf[w]]
      /\ dial' \in {[dial EXCEPT ![w] = "check"], [dial EXCEPT ![w] = "done"]}
      /\ UNCHANGED <<pc, connsPerHost, connsPerHostWait>>
  BY DEF DialSucceed, countVars
<1>2. c \notin open /\ KeyOf[w] \in Key BY <1>1 DEF TypeOK
<1>3. \A x \in Want : x # w => dial'[x] = dial[x] BY <1>1 DEF TypeOK
<1>4. dial'[w] \in {"check", "done"} BY <1>1 DEF TypeOK
<1>5. EnteringHasNoDial' BY <1>1, <1>3, <1>4 DEF EnteringHasNoDial, TypeOK
<1>6. QueueWellFormed'
  <2>1. \A j \in Key : \A i \in DOMAIN connsPerHostWait[j] :
          connsPerHostWait[j][i] \in Want /\ connsPerHostWait[j][i] # w
    <3>1. \A j \in Key : \A i \in DOMAIN connsPerHostWait[j] : connsPerHostWait[j][i] \in Want
      BY SMTT(30) DEF TypeOK
    <3>2. \A j \in Key : \A i \in DOMAIN connsPerHostWait[j] : connsPerHostWait[j][i] # w
      BY <1>1 DEF QueueWellFormed
    <3> QED BY <3>1, <3>2
  <2>2. \A j \in Key : \A i \in DOMAIN connsPerHostWait[j] :
          dial'[connsPerHostWait[j][i]] = dial[connsPerHostWait[j][i]]
    BY <1>3, <2>1
  <2> QED BY <1>1, <2>2 DEF QueueWellFormed
<1>7. SlotsBounded' BY <1>1 DEF SlotsBounded
<1>8. SlotsExact'
  <2> SUFFICES ASSUME MaxConnsPerHost # 0, NEW j \in Key
               PROVE  connsPerHost'[j] = Cardinality(DialSlots(j)') + Cardinality(ConnSlots(j)')
    BY DEF SlotsExact
  <2>1. DialSlots(j) = DialSlotsOf(dial, j) /\ ConnSlots(j) = ConnSlotsOf(open, ckey, j)
    BY DEF DialSlots, DialSlotsOf, ConnSlots, ConnSlotsOf, SlotDial
  <2>2. /\ IsFiniteSet(DialSlots(j)) /\ Cardinality(DialSlots(j)) \in Nat
        /\ IsFiniteSet(ConnSlots(j)) /\ Cardinality(ConnSlots(j)) \in Nat
    BY <2>1, SlotsFinite, SMTT(30) DEF TypeOK
  <2>3. connsPerHost[j] = Cardinality(DialSlots(j)) + Cardinality(ConnSlots(j)) BY DEF SlotsExact
  <2>4. CASE j = KeyOf[w]
    <3>1. DialSlots(j)' = DialSlots(j) \ {w} /\ w \in DialSlots(j)
      BY <1>1, <1>3, <1>4, <2>4 DEF DialSlots
    <3>2. ConnSlots(j)' = ConnSlots(j) \cup {c} /\ c \notin ConnSlots(j)
      BY <1>1, <1>2, <2>4 DEF ConnSlots, TypeOK
    <3>3. Cardinality(DialSlots(j)') = Cardinality(DialSlots(j)) - 1
      BY <2>2, <3>1, FS_RemoveElement
    <3>4. Cardinality(ConnSlots(j)') = Cardinality(ConnSlots(j)) + 1
      BY <2>2, <3>2, FS_AddElement
    <3> QED BY <1>1, <2>2, <2>3, <3>3, <3>4
  <2>5. CASE j # KeyOf[w]
    <3>1. DialSlots(j)' = DialSlots(j) BY <1>1, <1>3, <2>5 DEF DialSlots
    <3>2. ConnSlots(j)' = ConnSlots(j) BY <1>1, <1>2, <2>5, SMTT(30) DEF ConnSlots, TypeOK
    <3> QED BY <1>1, <2>3, <3>1, <3>2
  <2> QED BY <2>4, <2>5
<1> QED BY <1>5, <1>6, <1>7, <1>8

\* Every step of a dial goroutine.
LEMMA DialStepInv ==
    ASSUME PoolInv, NEW w \in Want, DialStep(w)
    PROVE  PoolInv'
<1> USE PoolConstants DEF PoolInv
<1>e. pc \in [Want -> PC] /\ dial \in [Want -> DialPC] BY DEF TypeOK
<1>1. CASE DialStart(w)
  <2>1. dial[w] = "start" /\ UNCHANGED <<wantVars, idleVars, connVars, timeVars, sweepVars, dconn, exited>>
    BY <1>1 DEF DialStart
  <2>2. CASE dial' = [dial EXCEPT ![w] = "dialing"] /\ UNCHANGED countVars
    <3>1. NoneReenters BY <2>1 DEF NoneReenters, wantVars
    <3>2. DialKept(dial') BY <1>e, <2>1, <2>2 DEF DialKept, SlotDial, DialPC
    <3>3. SlotInv' BY <2>1, <2>2, <3>1, <3>2, SlotFrame DEF countVars, connVars
    <3>4. TypeOK'
      BY <2>1, <2>2, <3>2 DEF TypeOK, DialKept, wantVars, idleVars, countVars, connVars, timeVars, sweepVars
    <3>5. ReturnsConn' BY <1>e, <2>1, <2>2 DEF ReturnsConn, wantVars
    <3> QED BY <3>3, <3>4, <3>5
  <2>3. CASE DecConnsPerHost(KeyOf[w], [dial EXCEPT ![w] = "done"], wdone)
    <3>1. /\ SlotInv' /\ SlotTypes'
          /\ \A x \in Want : dial'[x] = "put" => dial[x] = "put"
      BY <2>1, <2>3, DialGivesUp DEF SlotDial, wantVars, connVars
    <3>2. TypeOK'
      BY <2>1, <3>1 DEF TypeOK, SlotTypes, wantVars, idleVars, connVars, timeVars, sweepVars
    <3>3. ReturnsConn' BY <2>1, <3>1 DEF ReturnsConn, wantVars
    <3> QED BY <3>1, <3>2, <3>3
  <2> QED BY <1>1, <2>2, <2>3 DEF DialStart
<1>2. CASE DialFail(w)
  <2>1. /\ dial[w] \in {"dialing", "cancelled"} /\ dial' = [dial EXCEPT ![w] = "dec"]
        /\ wdone' = [wdone EXCEPT ![w] = TRUE]
        /\ result' = [result EXCEPT ![w] = IF wdone[w] THEN @ ELSE Err]
        /\ UNCHANGED <<pc, held, idleVars, countVars, connVars, timeVars, sweepVars, dconn, exited>>
    BY <1>2 DEF DialFail
  <2>2. NoneReenters BY <2>1 DEF NoneReenters
  <2>3. DialKept(dial') BY <1>e, <2>1 DEF DialKept, SlotDial, DialPC
  <2>4. SlotInv' BY <2>1, <2>2, <2>3, SlotFrame DEF countVars, connVars
  <2>5. TypeOK'
    BY <2>1, <2>3 DEF TypeOK, DialKept, idleVars, countVars, connVars, timeVars, sweepVars
  <2>6. ReturnsConn' BY <1>e, <2>1 DEF ReturnsConn
  <2> QED BY <2>4, <2>5, <2>6
<1>3. CASE DialDec(w)
  <2>1. /\ dial[w] = "dec" /\ UNCHANGED <<wantVars, idleVars, connVars, timeVars, sweepVars, dconn, exited>>
        /\ DecConnsPerHost(KeyOf[w], [dial EXCEPT ![w] = "done"], wdone)
    BY <1>3 DEF DialDec
  <2>2. /\ SlotInv' /\ SlotTypes'
        /\ \A x \in Want : dial'[x] = "put" => dial[x] = "put"
    BY <2>1, DialGivesUp DEF SlotDial, wantVars, connVars
  <2>3. TypeOK'
    BY <2>1, <2>2 DEF TypeOK, SlotTypes, wantVars, idleVars, connVars, timeVars, sweepVars
  <2>4. ReturnsConn' BY <2>1, <2>2 DEF ReturnsConn, wantVars
  <2> QED BY <2>2, <2>3, <2>4
<1>4. ASSUME NEW c \in Conn, NEW a \in BOOLEAN, DialSucceed(w, c, a)
      PROVE  PoolInv'
  <2>1. /\ born' = born \cup {c} /\ open' = open \cup {c}
        /\ alt' \in {alt, alt \cup {c}}
        /\ ckey' = [ckey EXCEPT ![c] = KeyOf[w]]
        /\ wdone' = [wdone EXCEPT ![w] = TRUE]
        /\ dial' \in {[dial EXCEPT ![w] = "check"], [dial EXCEPT ![w] = "done"]}
        /\ dconn' \in {dconn, [dconn EXCEPT ![w] = c]}
        /\ UNCHANGED <<pc, held, idleVars, countVars, timeVars, sweepVars, exited>>
    BY <1>4 DEF DialSucceed
  <2>2. SlotInv' BY <1>4, DialSucceedStep
  <2>3. dial' \in [Want -> DialPC] BY <1>e, <2>1 DEF DialPC
  <2>r. result' \in [Want -> Conn \cup {None, Err}]
    <3>1. result' = [result EXCEPT ![w] = IF wdone[w] THEN @ ELSE c] BY <1>4 DEF DialSucceed
    <3> QED BY <3>1 DEF TypeOK
  <2>4. TypeOK'
    <3>1. /\ born' \in SUBSET Conn /\ open' \subseteq born' /\ alt' \subseteq born'
          /\ exited' \subseteq born' /\ ckey' \in [Conn -> Key]
      BY <2>1 DEF TypeOK
    <3>2. wdone' \in [Want -> BOOLEAN] BY <2>1 DEF TypeOK
    <3>3. dconn' \in [Want -> Conn \cup {None}]
      <4>1. dconn \in [Want -> Conn \cup {None}] BY DEF TypeOK
      <4>2. [dconn EXCEPT ![w] = c] \in [Want -> Conn \cup {None}] BY <4>1
      <4> QED BY <2>1, <4>1, <4>2, Zenon
    <3> QED BY <2>1, <2>3, <2>r, <3>1, <3>2, <3>3 DEF TypeOK, idleVars, countVars, timeVars, sweepVars
  <2>5. ReturnsConn'
    <3>1. \A x \in Want : dial'[x] = "put" => dial[x] = "put" /\ x # w BY <1>e, <2>1
    <3>2. \A x \in Want : x # w => dconn'[x] = dconn[x]
      <4>1. dconn \in [Want -> Conn \cup {None}] BY DEF TypeOK
      <4> QED BY <2>1, <4>1
    <3> QED BY <2>1, <3>1, <3>2 DEF ReturnsConn
  <2> QED BY <2>2, <2>4, <2>5
<1>5. CASE DialCheck(w)
  <2>1. dial[w] = "check" /\ UNCHANGED <<wantVars, idleVars, born, ckey, alt, timeVars, sweepVars, exited>>
    BY <1>5 DEF DialCheck
  <2>2. NoneReenters BY <2>1 DEF NoneReenters, wantVars
  <2>3. CASE MayPut(dconn[w]) /\ dial' = [dial EXCEPT ![w] = "put"] /\ UNCHANGED <<dconn, open, countVars>>
    <3>1. DialKept(dial') BY <1>e, <2>1, <2>3 DEF DialKept, SlotDial, DialPC
    <3>2. SlotInv' BY <2>1, <2>2, <2>3, <3>1, SlotFrame DEF countVars
    <3>3. TypeOK'
      BY <2>1, <2>3, <3>1 DEF TypeOK, DialKept, wantVars, idleVars, countVars, timeVars, sweepVars
    <3>4. dconn[w] \in Conn BY <2>3 DEF MayPut, TypeOK
    <3>5. ReturnsConn' BY <1>e, <2>1, <2>3, <3>4 DEF ReturnsConn, wantVars
    <3> QED BY <3>2, <3>3, <3>5
  <2>4. CASE /\ dconn' = [dconn EXCEPT ![w] = None]
             /\ Close(dconn[w], [dial EXCEPT ![w] = "done"], wdone)
    <3> DEFINE d == [dial EXCEPT ![w] = "done"]
    <3>1. DialKept(d) BY <1>e, <2>1 DEF DialKept, SlotDial, DialPC
    <3>2. d[w] # "put" /\ \A x \in Want : x # w => d[x] = dial[x] BY <1>e
    <3> HIDE DEF d
    <3>3. Close(dconn[w], d, wdone) BY <2>4 DEF d
    <3>4. /\ SlotInv' /\ SlotTypes' /\ open' \subseteq open
          /\ \A x \in Want : dial'[x] = "put" => d[x] = "put"
      BY <2>1, <2>2, <3>1, <3>3, CloseStep
    <3>5. TypeOK'
      BY <2>1, <2>4, <3>4 DEF TypeOK, SlotTypes, wantVars, idleVars, timeVars, sweepVars
    <3>6. ReturnsConn' BY <2>1, <2>4, <3>2, <3>4 DEF ReturnsConn, TypeOK, wantVars
    <3> QED BY <3>4, <3>5, <3>6
  <2> QED BY <1>5, <2>3, <2>4 DEF DialCheck
<1>6. CASE DialPut(w)
  <2> DEFINE d == [dial EXCEPT ![w] = "done"]
  <2>1. /\ dial[w] = "put" /\ dconn' = [dconn EXCEPT ![w] = None]
        /\ PutOrCloseIdleConn(dconn[w], d)
        /\ UNCHANGED <<pc, held, exited>>
    BY <1>6 DEF DialPut
  <2>2. dconn[w] \in Conn BY <2>1 DEF ReturnsConn
  <2>3. NoneReenters BY <2>1 DEF NoneReenters
  <2>4. DialKept(d) BY <1>e, <2>1 DEF DialKept, SlotDial, DialPC
  <2>5. d[w] # "put" /\ \A x \in Want : x # w => d[x] = dial[x] BY <1>e
  <2> HIDE DEF d
  <2>6. /\ SlotInv' /\ SlotTypes' /\ IdleTypes' /\ open' \subseteq open
        /\ \A x \in Want : dial'[x] = "put" => d[x] = "put"
        /\ UNCHANGED <<closeIdle, born, ckey, alt, closers, sweepVars>>
    BY <2>1, <2>2, <2>3, <2>4, PutStep
  <2>7. TypeOK' BY <2>1, <2>6 DEF TypeOK, SlotTypes, IdleTypes, sweepVars
  <2>8. ReturnsConn' BY <2>1, <2>5, <2>6 DEF ReturnsConn, TypeOK
  <2> QED BY <2>6, <2>7, <2>8
<1> QED BY <1>1, <1>2, <1>3, <1>4, <1>5, <1>6 DEF DialStep

-----------------------------------------------------------------------------
(* The steps of the server, the clock and CloseIdleConnections.            *)

\* Every step that happens to a connection: the server, the clock, its timer,
\* CloseIdleConnections closing it.
LEMMA ConnStepInv ==
    ASSUME PoolInv, NEW c \in Conn, ConnStep(c)
    PROVE  PoolInv'
<1> USE PoolConstants DEF PoolInv
<1>d. DialKept(dial) BY DEF DialKept, TypeOK
<1>1. ASSUME ServerClose(c) \/ SweepClose(c)
      PROVE  PoolInv'
  <2>1. /\ Close(c, dial, wdone)
        /\ sweep' \in SUBSET sweep
        /\ UNCHANGED <<wantVars, idleVars, born, ckey, alt, timeVars, sweeping, dconn, exited>>
    BY <1>1 DEF ServerClose, SweepClose, sweepVars
  <2>2. NoneReenters BY <2>1 DEF NoneReenters, wantVars
  <2>3. /\ SlotInv' /\ SlotTypes' /\ open' \subseteq open
        /\ \A x \in Want : dial'[x] = "put" => dial[x] = "put"
    BY <1>d, <2>1, <2>2, CloseStep
  <2>4. TypeOK' BY <2>1, <2>3 DEF TypeOK, SlotTypes, wantVars, idleVars, timeVars
  <2>5. ReturnsConn' BY <2>1, <2>3 DEF ReturnsConn, wantVars
  <2> QED BY <2>3, <2>4, <2>5
<1>2. CASE ReadLoopExit(c)
  <2>1. /\ c \in born /\ exited' = exited \cup {c} /\ RemoveIdleConn(c)
        /\ UNCHANGED <<wantVars, closeIdle, idleConnWait, countVars, connVars, closers, sweepVars, dial, dconn>>
    BY <1>2 DEF ReadLoopExit
  <2>2. NoneReenters BY <2>1 DEF NoneReenters, wantVars
  <2>3. SlotInv' BY <1>d, <2>1, <2>2, SlotFrame DEF countVars, connVars
  <2>4. /\ idleConn' \in [Key -> Seq(Conn)] /\ idleLRU' \in Seq(Conn)
        /\ timers' \in SUBSET Conn /\ aged' \in SUBSET Conn
    BY <2>1, RemoveIdleTypes
  <2>5. TypeOK' BY <2>1, <2>4 DEF TypeOK, wantVars, countVars, connVars, sweepVars
  <2>6. ReturnsConn' BY <2>1 DEF ReturnsConn, wantVars
  <2> QED BY <2>3, <2>5, <2>6
<1>3. ASSUME Age(c) \/ TimerFires(c)
      PROVE  PoolInv'
  <2>1. /\ aged' \in SUBSET Conn /\ timers' \in SUBSET Conn /\ closers' \in SUBSET Conn
        /\ UNCHANGED <<wantVars, idleVars, countVars, connVars, sweepVars, dial, dconn, exited>>
    BY <1>3 DEF Age, TimerFires, TypeOK
  <2>2. NoneReenters BY <2>1 DEF NoneReenters, wantVars
  <2>3. SlotInv' BY <1>d, <2>1, <2>2, SlotFrame DEF countVars, connVars
  <2>4. TypeOK' BY <2>1 DEF TypeOK, wantVars, idleVars, countVars, connVars, sweepVars
  <2>5. ReturnsConn' BY <2>1 DEF ReturnsConn, wantVars
  <2> QED BY <2>3, <2>4, <2>5
<1>4. CASE CloseConnIfStillIdle(c)
  <2>1. /\ closers' = closers \ {c}
        /\ UNCHANGED <<wantVars, closeIdle, idleConnWait, born, ckey, alt, sweepVars, dconn, exited>>
    BY <1>4 DEF CloseConnIfStillIdle
  <2>2. NoneReenters BY <2>1 DEF NoneReenters, wantVars
  <2>3. CASE dial' = dial /\ UNCHANGED <<idleConn, idleLRU, timers, aged, open, countVars>>
    <3>1. SlotInv' BY <1>d, <2>1, <2>2, <2>3, SlotFrame DEF countVars
    <3>2. TypeOK' BY <2>1, <2>3 DEF TypeOK, wantVars, countVars, sweepVars
    <3>3. ReturnsConn' BY <2>1, <2>3 DEF ReturnsConn, wantVars
    <3> QED BY <3>1, <3>2, <3>3
  <2>4. CASE RemoveIdleConn(c) /\ Close(c, dial, wdone)
    <3>1. /\ SlotInv' /\ SlotTypes' /\ open' \subseteq open
          /\ \A x \in Want : dial'[x] = "put" => dial[x] = "put"
      BY <1>d, <2>1, <2>2, <2>4, CloseStep
    <3>2. /\ idleConn' \in [Key -> Seq(Conn)] /\ idleLRU' \in Seq(Conn)
          /\ timers' \in SUBSET Conn /\ aged' \in SUBSET Conn
      BY <2>4, RemoveIdleTypes
    <3>3. TypeOK' BY <2>1, <3>1, <3>2 DEF TypeOK, SlotTypes, wantVars, sweepVars
    <3>4. ReturnsConn' BY <2>1, <3>1 DEF ReturnsConn, wantVars
    <3> QED BY <3>1, <3>3, <3>4
  <2> QED BY <1>4, <2>3, <2>4 DEF CloseConnIfStillIdle
<1> QED BY <1>1, <1>2, <1>3, <1>4 DEF ConnStep

\* CloseIdleConnections taking the idle lists, and cancelling dials at its end.
LEMMA SweepInv ==
    ASSUME PoolInv, TakeIdle \/ CancelDials
    PROVE  PoolInv'
<1> USE PoolConstants DEF PoolInv
<1>1. CASE TakeIdle
  <2>1. /\ sweeping' = TRUE /\ sweep' = UNION {ToSet(idleConn[k]) : k \in Key}
        /\ idleConn' = [k \in Key |-> <<>>] /\ idleLRU' = <<>> /\ closeIdle' = TRUE /\ aged' = {}
        /\ UNCHANGED <<wantVars, idleConnWait, countVars, connVars, timers, closers, dial, dconn, exited>>
    BY <1>1 DEF TakeIdle
  <2>2. sweep' \in SUBSET Conn
    <3>1. \A k \in Key : ToSet(idleConn[k]) \subseteq Conn BY DEF ToSet, TypeOK
    <3> QED BY <2>1, <3>1
  <2>3. NoneReenters BY <2>1 DEF NoneReenters, wantVars
  <2>4. DialKept(dial') BY <2>1 DEF DialKept, TypeOK
  <2>5. SlotInv' BY <2>1, <2>3, <2>4, SlotFrame DEF countVars, connVars
  <2>6. idleConn' \in [Key -> Seq(Conn)] /\ idleLRU' \in Seq(Conn) BY <2>1
  <2>7. TypeOK' BY <2>1, <2>2, <2>6 DEF TypeOK, wantVars, countVars, connVars
  <2>8. ReturnsConn' BY <2>1 DEF ReturnsConn, wantVars
  <2> QED BY <2>5, <2>7, <2>8
<1>2. CASE CancelDials
  <2>1. /\ sweeping' = FALSE
        /\ \A w \in Want : dial'[w] = dial[w] \/ (dial[w] = "dialing" /\ dial'[w] = "cancelled")
        /\ dial' \in [Want -> DialPC]
        /\ UNCHANGED <<wantVars, idleVars, countVars, connVars, timeVars, sweep, dconn, exited>>
    BY <1>2 DEF CancelDials, TypeOK, DialPC
  <2>2. NoneReenters BY <2>1 DEF NoneReenters, wantVars
  <2>3. DialKept(dial') BY <2>1 DEF DialKept, SlotDial
  <2>4. SlotInv' BY <2>1, <2>2, <2>3, SlotFrame DEF countVars, connVars
  <2>5. TypeOK' BY <2>1 DEF TypeOK, wantVars, idleVars, countVars, connVars, timeVars
  <2>6. ReturnsConn' BY <2>1 DEF ReturnsConn, wantVars
  <2> QED BY <2>4, <2>5, <2>6
<1> QED BY <1>1, <1>2

-----------------------------------------------------------------------------
(* The theorems.                                                           *)

\* The empty pool satisfies the inductive invariant.
LEMMA PoolInvInit == Init => PoolInv
<1> SUFFICES ASSUME Init PROVE PoolInv OBVIOUS
<1> USE PoolConstants DEF Init
<1>1. TypeOK
  <2>1. ckey \in [Conn -> Key] OBVIOUS
  <2>2. pc \in [Want -> PC] /\ dial \in [Want -> DialPC] BY DEF PC, DialPC
  <2>3. /\ held \in [Want -> Conn \cup {None}] /\ result \in [Want -> Conn \cup {None, Err}]
        /\ dconn \in [Want -> Conn \cup {None}] /\ wdone \in [Want -> BOOLEAN]
    OBVIOUS
  <2>4. /\ idleConn \in [Key -> Seq(Conn)] /\ idleConnWait \in [Key -> Seq(Want)]
        /\ connsPerHostWait \in [Key -> Seq(Want)] /\ connsPerHost \in [Key -> Nat]
        /\ idleLRU \in Seq(Conn) /\ dialsInProgress \in Seq(Want)
    OBVIOUS
  <2> QED BY <2>1, <2>2, <2>3, <2>4 DEF TypeOK
<1>2. EnteringHasNoDial /\ QueueWellFormed /\ ReturnsConn /\ SlotsBounded
  BY DEF EnteringHasNoDial, QueueWellFormed, ReturnsConn, SlotsBounded
<1>3. \A k \in Key : DialSlots(k) = {} /\ ConnSlots(k) = {} BY DEF DialSlots, ConnSlots
<1>4. SlotsExact
  <2>1. Cardinality({}) = 0 BY FS_EmptySet
  <2>2. \A k \in Key : connsPerHost[k] = 0 OBVIOUS
  <2>3. \A k \in Key : Cardinality(DialSlots(k)) = 0 /\ Cardinality(ConnSlots(k)) = 0
    BY <1>3, <2>1
  <2> QED BY <2>2, <2>3 DEF SlotsExact
<1> QED BY <1>1, <1>2, <1>4 DEF PoolInv, SlotInv

\* Every step of the pool preserves the inductive invariant.
LEMMA PoolInvNext == PoolInv /\ [Next]_vars => PoolInv'
<1> SUFFICES ASSUME PoolInv, [Next]_vars PROVE PoolInv' OBVIOUS
<1>1. CASE \E w \in Want : WantStep(w) BY <1>1, WantStepInv
<1>2. CASE \E w \in Want : DialStep(w) BY <1>2, DialStepInv
<1>3. CASE \E c \in Conn : ConnStep(c) BY <1>3, ConnStepInv
<1>4. CASE TakeIdle \/ CancelDials BY <1>4, SweepInv
<1>5. CASE UNCHANGED vars
  <2> USE <1>5 DEF PoolInv, vars, wantVars, countVars, connVars
  <2>1. TypeOK' BY DEF TypeOK, idleVars, timeVars, sweepVars
  <2>2. ReturnsConn' BY DEF ReturnsConn
  <2>3. NoneReenters BY DEF NoneReenters
  <2>4. DialKept(dial') BY DEF DialKept, TypeOK
  <2>5. SlotInv' BY <2>3, <2>4, SlotFrame
  <2> QED BY <2>1, <2>2, <2>5
<1> QED BY <1>1, <1>2, <1>3, <1>4, <1>5 DEF Next

\* The inductive invariant holds in every reachable state of the pool.
THEOREM PoolInvariance == Spec => []PoolInv
BY PoolInvInit, PoolInvNext, PTL DEF Spec

\* Every variable of the pool keeps its type; in particular connsPerHost never
\* goes below zero, which decConnsPerHost would panic on.
THEOREM TypeCorrect == Spec => []TypeOK
<1>1. PoolInv => TypeOK BY DEF PoolInv
<1> QED BY <1>1, PoolInvariance, PTL

\* connsPerHost counts exactly the dials under way and the open connections:
\* decConnsPerHost runs once for each, whatever the order of the goroutines.
THEOREM CountIsExact == Spec => []SlotsExact
<1>1. PoolInv => SlotsExact BY DEF PoolInv, SlotInv
<1> QED BY <1>1, PoolInvariance, PTL

\* MaxConnsPerHost is never exceeded by the dials and open connections of a host.
THEOREM LimitHolds == Spec => []ConnLimit
<1>1. PoolInv => ConnLimit
  BY DEF PoolInv, SlotInv, SlotsExact, SlotsBounded, ConnLimit
<1> QED BY <1>1, PoolInvariance, PTL
=============================================================================
