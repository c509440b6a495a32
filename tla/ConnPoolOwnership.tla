-------------------------- MODULE ConnPoolOwnership --------------------------
(***************************************************************************)
(* ConnPool, for every set of calls, connections and hosts and every       *)
(* limit: a connection that cannot be shared has one holder at a time, the *)
(* idle lists and the LRU agree, the pool closes no connection that a      *)
(* request uses, the pool implements ConnLease, and nobody queues in vain. *)
(*                                                                         *)
(* That an open connection has one holder is not inductive: who takes one  *)
(* from an idle list must know that the LRU holds it, and once only.  So   *)
(* the lists are part of the invariant, and it speaks of closed            *)
(* connections too, which may still be on their way into the lists.        *)
(***************************************************************************)
EXTENDS ConnPoolProofs

\* The connections the LRU holds.
Idle == ToSet(idleLRU)

\* Only connections that were made have a holder.
HoldersBorn ==
    /\ \A w \in Want : /\ held[w] \in born \cup {None}
                       /\ result[w] \in born \cup {None, Err}
                       /\ dconn[w] \in born \cup {None}
    /\ Idle \subseteq born /\ sweep \subseteq born

\* A caller holds a connection exactly while it uses or returns it, and so
\* does the goroutine of a dial.
HoldsWhile ==
    \A w \in Want : /\ pc[w] \in {"using", "check", "put"} <=> held[w] # None
                    /\ dial[w] \in {"check", "put"} <=> dconn[w] # None

\* Two parties never hold connection c: two callers, two results, two dials, a
\* caller and the LRU, and so on.
OnePartyHas(c) ==
    /\ \A w, x \in Want :
        /\ held[w] = c /\ held[x] = c => w = x
        /\ result[w] = c /\ result[x] = c => w = x
        /\ dconn[w] = c /\ dconn[x] = c => w = x
        /\ held[w] = c => result[x] # c /\ dconn[x] # c
        /\ result[w] = c => dconn[x] # c
    /\ c \in Idle \/ c \in sweep
        => \A w \in Want : held[w] # c /\ result[w] # c /\ dconn[w] # c
    /\ ~(c \in Idle /\ c \in sweep)

\* An HTTP/1 connection, open or closed, has one holder.
OneHolder == \A c \in born \ alt : OnePartyHas(c)

\* CloseIdleConnections holds connections only while it runs.
SweepOver == ~sweeping => sweep = {}

OwnInv == HoldersBorn /\ HoldsWhile /\ OneHolder /\ SweepOver /\ IdleListsWellFormed

-----------------------------------------------------------------------------
(* Sequences without repetition.                                           *)

\* The beginning of a sequence, element by element.
LEMMA Beginning ==
    ASSUME NEW S, NEW s \in Seq(S), NEW n \in 0..Len(s)
    PROVE  /\ SubSeq(s, 1, n) \in Seq(S) /\ Len(SubSeq(s, 1, n)) = n
           /\ DOMAIN SubSeq(s, 1, n) = 1..n /\ 1..n \subseteq DOMAIN s
           /\ \A i \in 1..n : SubSeq(s, 1, n)[i] = s[i]
OBVIOUS

\* It has no repetition if the sequence has none.
LEMMA BeginningInjective ==
    ASSUME NEW S, NEW s \in Seq(S), IsInjective(s), NEW n \in 0..Len(s)
    PROVE  /\ IsInjective(SubSeq(s, 1, n)) /\ ToSet(SubSeq(s, 1, n)) \subseteq ToSet(s)
           /\ \A i \in DOMAIN s : i > n => s[i] \notin ToSet(SubSeq(s, 1, n))
<1> DEFINE r == SubSeq(s, 1, n)
<1>1. /\ DOMAIN r = 1..n /\ 1..n \subseteq DOMAIN s /\ \A i \in 1..n : r[i] = s[i]
  BY Beginning
<1>2. n \in Nat /\ DOMAIN s \subseteq Nat OBVIOUS
<1> HIDE DEF r
<1>3. IsInjective(r) /\ ToSet(r) \subseteq ToSet(s) BY <1>1 DEF IsInjective, ToSet
<1>4. \A i \in DOMAIN s : i > n => s[i] \notin ToSet(r) BY <1>1, <1>2 DEF IsInjective, ToSet
<1> QED BY <1>3, <1>4 DEF r

\* Two sequences in a row, element by element.
LEMMA Concatenation ==
    ASSUME NEW S, NEW a \in Seq(S), NEW b \in Seq(S)
    PROVE  /\ DOMAIN (a \o b) = 1..(Len(a) + Len(b)) /\ Len(a \o b) = Len(a) + Len(b)
           /\ \A i \in 1..Len(a) : (a \o b)[i] = a[i]
           /\ \A i \in (Len(a) + 1)..(Len(a) + Len(b)) : (a \o b)[i] = b[i - Len(a)]
OBVIOUS

\* Removing an element from a sequence without repetition removes it for good.
LEMMA RemoveFirstInjective ==
    ASSUME NEW S, NEW s \in Seq(S), IsInjective(s), NEW e
    PROVE  /\ IsInjective(RemoveFirst(s, e))
           /\ ToSet(RemoveFirst(s, e)) = ToSet(s) \ {e}
           /\ Len(RemoveFirst(s, e)) <= Len(s)
<1> DEFINE I == {i \in 1..Len(s) : s[i] = e}
<1>1. CASE I = {}
  <2>1. RemoveFirst(s, e) = s BY <1>1 DEF RemoveFirst
  <2>2. e \notin ToSet(s) BY <1>1 DEF ToSet
  <2> QED BY <2>1, <2>2
<1>2. CASE I # {}
  <2> DEFINE m == Min(I)
             a == SubSeq(s, 1, m - 1)
             b == SubSeq(s, m + 1, Len(s))
             r == RemoveFirst(s, e)
  <2>1. m \in 1..Len(s) /\ s[m] = e
    <3>1. I \in SUBSET Nat OBVIOUS
    <3>2. I = I /\ m \in I
      <4> HIDE DEF I
      <4> QED BY <1>2, <3>1, MinOf
    <3> HIDE DEF m
    <3> QED BY <3>2
  <2>2. r = a \o b
    BY <1>2 DEF RemoveFirst, SelectInSeq, RemoveAt
  <2> HIDE DEF m, I, r
  <2>3. /\ a \in Seq(S) /\ Len(a) = m - 1 /\ \A i \in 1..(m - 1) : a[i] = s[i]
    BY <2>1
  <2>4. /\ b \in Seq(S) /\ Len(b) = Len(s) - m /\ \A i \in 1..(Len(s) - m) : b[i] = s[i + m]
    BY <2>1
  <2> HIDE DEF a, b
  <2>5. /\ DOMAIN r = 1..(Len(s) - 1) /\ Len(r) = Len(s) - 1
        /\ \A i \in 1..(Len(s) - 1) : r[i] = IF i < m THEN s[i] ELSE s[i + 1]
    <3>1. /\ Len(s) \in Nat /\ DOMAIN r = 1..(Len(a) + Len(b)) /\ Len(r) = Len(a) + Len(b)
          /\ \A i \in 1..Len(a) : r[i] = a[i]
          /\ \A i \in (Len(a) + 1)..(Len(a) + Len(b)) : r[i] = b[i - Len(a)]
      <4>1. a \in Seq(S) /\ b \in Seq(S) BY <2>3, <2>4
      <4>2. Len(s) \in Nat OBVIOUS
      <4> QED BY <2>2, <4>1, <4>2, Concatenation, Zenon
    <3>2. Len(a) + Len(b) = Len(s) - 1 BY <2>1, <2>3, <2>4, <3>1
    <3>3. ASSUME NEW i \in 1..(Len(s) - 1), i < m PROVE r[i] = s[i]
      BY <2>1, <2>3, <3>1, <3>3
    <3>4. ASSUME NEW i \in 1..(Len(s) - 1), ~(i < m) PROVE r[i] = s[i + 1]
      <4>1. i \in (Len(a) + 1)..(Len(a) + Len(b)) /\ i - Len(a) \in 1..(Len(s) - m)
            /\ (i - Len(a)) + m = i + 1
        BY <2>1, <2>3, <2>4, <3>1, <3>4
      <4> QED BY <2>4, <3>1, <4>1
    <3> QED BY <3>1, <3>2, <3>3, <3>4
  <2>6. DOMAIN s = 1..Len(s) /\ Len(s) \in Nat /\ \A i, j \in 1..Len(s) : s[i] = s[j] => i = j
    BY DEF IsInjective
  <2>7. IsInjective(r) BY <2>1, <2>5, <2>6 DEF IsInjective
  <2>8. ToSet(r) \subseteq ToSet(s) \ {e}
    <3> SUFFICES ASSUME NEW i \in 1..(Len(s) - 1) PROVE r[i] \in ToSet(s) /\ r[i] # e
      BY <2>5 DEF ToSet
    <3>1. PICK j \in 1..Len(s) : r[i] = s[j] /\ j # m BY <2>1, <2>5, <2>6
    <3> QED BY <2>1, <2>6, <3>1 DEF ToSet
  <2>9. ToSet(s) \ {e} \subseteq ToSet(r)
    <3> SUFFICES ASSUME NEW j \in 1..Len(s), s[j] # e PROVE s[j] \in ToSet(r)
      BY <2>6 DEF ToSet
    <3>1. CASE j < m
      <4>1. j \in 1..(Len(s) - 1) /\ r[j] = s[j] BY <2>1, <2>5, <2>6, <3>1
      <4> QED BY <2>5, <4>1 DEF ToSet
    <3>2. CASE j > m
      <4>1. j - 1 \in 1..(Len(s) - 1) /\ r[j - 1] = s[j] BY <2>1, <2>5, <2>6, <3>2
      <4> QED BY <2>5, <4>1 DEF ToSet
    <3> QED BY <2>1, <3>1, <3>2
  <2> QED BY <2>5, <2>6, <2>7, <2>8, <2>9 DEF r
<1> QED BY <1>1, <1>2

\* A new element at the end.
LEMMA JoinInjective ==
    ASSUME NEW S, NEW s \in Seq(S), IsInjective(s), NEW e \in S, e \notin ToSet(s)
    PROVE  /\ IsInjective(Append(s, e)) /\ ToSet(Append(s, e)) = ToSet(s) \cup {e}
           /\ Len(Append(s, e)) = Len(s) + 1
<1> DEFINE r == Append(s, e)
<1>1. /\ DOMAIN r = 1..(Len(s) + 1) /\ Len(r) = Len(s) + 1
      /\ DOMAIN s = 1..Len(s) /\ Len(s) \in Nat
      /\ \A i \in 1..Len(s) : r[i] = s[i]
      /\ r[Len(s) + 1] = e
  OBVIOUS
<1>2. \A i \in 1..(Len(s) + 1) : i \in 1..Len(s) \/ i = Len(s) + 1 BY <1>1
<1>3. Len(s) + 1 \in 1..(Len(s) + 1) /\ 1..Len(s) \subseteq 1..(Len(s) + 1) BY <1>1
<1> HIDE DEF r
<1>4. IsInjective(r) BY <1>1, <1>2 DEF IsInjective, ToSet
<1>5. ToSet(r) = ToSet(s) \cup {e} BY <1>1, <1>2, <1>3 DEF ToSet
<1>6. Len(r) = Len(s) + 1 BY <1>1, Zenon
<1> QED BY <1>4, <1>5, <1>6 DEF r

\* A new element at the front; the last one dropped.
LEMMA PushInjective ==
    ASSUME NEW S, NEW s \in Seq(S), IsInjective(s), NEW e \in S, e \notin ToSet(s)
    PROVE  /\ <<e>> \o s \in Seq(S)
           /\ IsInjective(<<e>> \o s) /\ ToSet(<<e>> \o s) = ToSet(s) \cup {e}
           /\ Len(<<e>> \o s) = Len(s) + 1
<1> DEFINE r == <<e>> \o s
<1>1. /\ r \in Seq(S) /\ DOMAIN r = 1..(Len(s) + 1) /\ Len(r) = Len(s) + 1
      /\ DOMAIN s = 1..Len(s) /\ Len(s) \in Nat
      /\ \A i \in 1..Len(s) : r[i + 1] = s[i]
      /\ r[1] = e
  OBVIOUS
<1>2. \A i \in 1..(Len(s) + 1) : i = 1 \/ (i - 1 \in 1..Len(s) /\ r[i] = s[i - 1] /\ i \in Int)
  <2> HIDE DEF r
  <2> SUFFICES ASSUME NEW i \in 1..(Len(s) + 1), i # 1
               PROVE  i - 1 \in 1..Len(s) /\ r[i] = s[i - 1] /\ i \in Int
    OBVIOUS
  <2>1. i - 1 \in 1..Len(s) /\ (i - 1) + 1 = i BY <1>1
  <2> QED BY <1>1, <2>1
<1>3. 1 \in 1..(Len(s) + 1) /\ \A i \in 1..Len(s) : i + 1 \in 1..(Len(s) + 1) BY <1>1
<1> HIDE DEF r
<1>4. IsInjective(r)
  <2>1. \A i \in 1..Len(s) : s[i] # e BY <1>1 DEF ToSet
  <2>2. \A i, j \in 1..Len(s) : s[i] = s[j] => i = j BY <1>1 DEF IsInjective
  <2> SUFFICES ASSUME NEW i \in 1..(Len(s) + 1), NEW j \in 1..(Len(s) + 1), r[i] = r[j] PROVE i = j
    BY <1>1 DEF IsInjective
  <2> QED BY <1>1, <1>2, <2>1, <2>2
<1>5. ToSet(r) = ToSet(s) \cup {e}
  <2>1. \A i \in 1..(Len(s) + 1) : r[i] \in ToSet(s) \cup {e} BY <1>1, <1>2 DEF ToSet
  <2>2. \A i \in 1..Len(s) : s[i] \in ToSet(r) BY <1>1, <1>3 DEF ToSet
  <2>3. e \in ToSet(r) BY <1>1, <1>3 DEF ToSet
  <2> QED BY <1>1, <2>1, <2>2, <2>3 DEF ToSet
<1> QED BY <1>1, <1>4, <1>5, Zenon DEF r

\* The last element dropped.
LEMMA FrontInjective ==
    ASSUME NEW S, NEW s \in Seq(S), IsInjective(s), Len(s) > 0
    PROVE  /\ Front(s) \in Seq(S) /\ Len(Front(s)) = Len(s) - 1 /\ Last(s) \in ToSet(s)
           /\ IsInjective(Front(s)) /\ ToSet(Front(s)) = ToSet(s) \ {Last(s)}
<1> DEFINE n == Len(s) - 1
           r == SubSeq(s, 1, n)
<1>1. n \in 0..Len(s) /\ n \in Nat /\ Len(s) = n + 1 /\ DOMAIN s = 1..(n + 1) OBVIOUS
<1>2. /\ r \in Seq(S) /\ Len(r) = n /\ DOMAIN r = 1..n
      /\ \A i \in 1..n : r[i] = s[i]
  <2> HIDE DEF n
  <2> QED BY <1>1, Beginning
<1>3. /\ IsInjective(r) /\ ToSet(r) \subseteq ToSet(s) /\ s[n + 1] \notin ToSet(r)
  <2>1. n + 1 \in DOMAIN s /\ n + 1 > n BY <1>1
  <2> HIDE DEF n
  <2> QED BY <1>1, <2>1, BeginningInjective
<1>4. Front(s) = r /\ Last(s) = s[n + 1] BY <1>1 DEF Front, Last
<1> HIDE DEF r, n
<1>5. s[n + 1] \in ToSet(s) BY <1>1 DEF ToSet
<1>6. ToSet(s) \ {s[n + 1]} \subseteq ToSet(r)
  <2> SUFFICES ASSUME NEW i \in 1..(n + 1), s[i] # s[n + 1] PROVE s[i] \in ToSet(r)
    BY <1>1 DEF ToSet
  <2>1. i \in 1..n /\ r[i] = s[i] BY <1>1, <1>2
  <2> QED BY <1>2, <2>1 DEF ToSet
<1>7. Len(Front(s)) = Len(s) - 1 BY <1>1, <1>2, <1>4
<1> QED BY <1>2, <1>3, <1>4, <1>5, <1>6, <1>7

-----------------------------------------------------------------------------
(* The idle lists and the LRU.                                             *)

\* The part of IdleListsWellFormed about one host.
ListOK(k) ==
    /\ IsInjective(idleConn[k])
    /\ Len(idleConn[k]) <= MaxIdleConnsPerHost
    /\ \A c \in ToSet(idleConn[k]) : c \in Idle /\ ckey[c] = k

\* IdleListsWellFormed, list by list.
LEMMA ListByList ==
    IdleListsWellFormed <=> /\ IsInjective(idleLRU)
                            /\ MaxIdleConns # 0 => Len(idleLRU) <= MaxIdleConns
                            /\ \A k \in Key : ListOK(k)
<1>1. \A k \in Key : (\A c \in ToSet(idleConn[k]) : c \in Idle /\ ckey[c] = k)
                     <=> \A i \in DOMAIN idleConn[k] :
                            idleConn[k][i] \in Idle /\ ckey[idleConn[k][i]] = k
  BY DEF ToSet
<1> QED BY <1>1 DEF IdleListsWellFormed, ListOK, Idle

\* The same after a step.
LEMMA ListByListNext ==
    IdleListsWellFormed' <=> /\ IsInjective(idleLRU')
                             /\ MaxIdleConns # 0 => Len(idleLRU') <= MaxIdleConns
                             /\ \A k \in Key : ListOK(k)'
<1>1. \A k \in Key : (\A c \in ToSet(idleConn'[k]) : c \in Idle' /\ ckey'[c] = k)
                     <=> \A i \in DOMAIN idleConn'[k] :
                            idleConn'[k][i] \in Idle' /\ ckey'[idleConn'[k][i]] = k
  BY DEF ToSet
<1> QED BY <1>1 DEF IdleListsWellFormed, ListOK, Idle

\* A list whose members are kept, or lose connections that the LRU loses.
LEMMA ListShrinks ==
    ASSUME TypeOK, ckey' = ckey, NEW k \in Key, ListOK(k), NEW l \in Seq(Conn), idleConn'[k] = l,
           IsInjective(l), Len(l) <= Len(idleConn[k]),
           ToSet(l) \subseteq ToSet(idleConn[k]), ToSet(l) \subseteq Idle'
    PROVE  ListOK(k)'
<1>1. Len(l) \in Nat /\ Len(idleConn[k]) \in Nat /\ MaxIdleConnsPerHost \in Nat
  BY PoolConstants DEF TypeOK
<1>2. Len(idleConn[k]) <= MaxIdleConnsPerHost BY DEF ListOK
<1>3. Len(l) <= MaxIdleConnsPerHost BY <1>1, <1>2
<1>4. \A c \in ToSet(l) : c \in Idle' /\ ckey'[c] = k BY DEF ListOK
<1> QED BY <1>3, <1>4 DEF ListOK

\* removeIdleConn takes the connection out of the LRU and of its list.
LEMMA RemoveIdleLists ==
    ASSUME TypeOK, IdleListsWellFormed, NEW c \in Conn, RemoveIdleConn(c), ckey' = ckey
    PROVE  IdleListsWellFormed' /\ Idle' = Idle \ {c}
<1>0. /\ IsInjective(idleLRU) /\ \A k \in Key : ListOK(k)
      /\ MaxIdleConns # 0 => Len(idleLRU) <= MaxIdleConns
  BY ListByList
<1>1. /\ idleLRU \in Seq(Conn) /\ ckey[c] \in Key /\ idleLRU' = RemoveFirst(idleLRU, c)
      /\ \A k \in Key : idleConn[k] \in Seq(Conn)
      /\ idleConn' = [idleConn EXCEPT ![ckey[c]] = RemoveFirst(@, c)]
      /\ idleLRU' \in Seq(Conn) /\ idleConn' \in [Key -> Seq(Conn)]
  BY RemoveIdleTypes DEF RemoveIdleConn, TypeOK
<1>2. /\ IsInjective(idleLRU') /\ ToSet(idleLRU') = ToSet(idleLRU) \ {c}
      /\ Len(idleLRU') <= Len(idleLRU)
  BY <1>0, <1>1, RemoveFirstInjective
<1>3. Idle' = Idle \ {c} BY <1>2 DEF Idle
<1>4. ASSUME NEW k \in Key PROVE ListOK(k)'
  <2>1. CASE k = ckey[c]
    <3>1. idleConn'[k] = RemoveFirst(idleConn[k], c) BY <1>1, <2>1 DEF TypeOK
    <3>2. /\ IsInjective(idleConn'[k]) /\ ToSet(idleConn'[k]) = ToSet(idleConn[k]) \ {c}
          /\ Len(idleConn'[k]) <= Len(idleConn[k])
      BY <1>0, <1>1, <3>1, RemoveFirstInjective DEF ListOK
    <3>3. ToSet(idleConn'[k]) \subseteq Idle' BY <1>0, <1>3, <3>2 DEF ListOK
    <3>4. idleConn'[k] \in Seq(Conn) BY <1>1
    <3> QED BY <1>0, <3>2, <3>3, <3>4, ListShrinks
  <2>2. CASE k # ckey[c]
    <3>1. idleConn'[k] = idleConn[k] BY <1>1, <2>2 DEF TypeOK
    <3> QED BY <1>0, <1>3, <2>2, <3>1 DEF ListOK
  <2> QED BY <2>1, <2>2
<1>5. MaxIdleConns # 0 => Len(idleLRU') <= MaxIdleConns
  <2>1. Len(idleLRU) \in Nat /\ Len(idleLRU') \in Nat /\ MaxIdleConns \in Nat
    BY <1>1, PoolConstants
  <2> QED BY <1>0, <1>2, <2>1
<1> QED BY <1>2, <1>3, <1>4, <1>5, ListByListNext

\* The end of tryPutIdleConn: the connection joins the lists, and only the eldest
\* of the LRU may have to leave them and be closed.
LEMMA AddIdleLists ==
    ASSUME PoolInv, IdleListsWellFormed, NEW c \in Conn, c \notin Idle, ~Refused(c),
           NEW d, AddIdle(c, d), ckey' = ckey
    PROVE  /\ IdleListsWellFormed'
           /\ Idle' \subseteq Idle \cup {c}
           /\ \/ dial' = d /\ UNCHANGED <<open, countVars>>
              \/ \E o \in Idle : Close(o, d, DoneAfter(c))
<1> DEFINE lru    == <<c>> \o idleLRU
           full   == MaxIdleConns # 0 /\ Len(lru) > MaxIdleConns
           oldest == Last(lru)
           list   == [idleConn EXCEPT ![ckey[c]] = Append(@, c)]
           k      == ckey[c]
           l      == idleConn[k]
<1>0. /\ IsInjective(idleLRU) /\ \A j \in Key : ListOK(j)
      /\ MaxIdleConns # 0 => Len(idleLRU) <= MaxIdleConns
  BY ListByList
<1>1. /\ idleLRU \in Seq(Conn) /\ k \in Key /\ l \in Seq(Conn) /\ \A x \in Conn : ckey[x] \in Key
      /\ \A j \in Key : idleConn[j] \in Seq(Conn)
      /\ Len(idleLRU) \in Nat /\ Len(l) \in Nat /\ MaxIdleConns \in Nat /\ MaxIdleConnsPerHost \in Nat
      /\ idleConn \in [Key -> Seq(Conn)] /\ DOMAIN idleConn = Key
  BY PoolConstants DEF PoolInv, TypeOK
<1>2. /\ lru \in Seq(Conn) /\ IsInjective(lru) /\ ToSet(lru) = Idle \cup {c}
      /\ Len(lru) = Len(idleLRU) + 1
  BY <1>0, <1>1, PushInjective DEF Idle
<1>3. c \notin ToSet(l) BY <1>0, <1>1 DEF ListOK
<1>4. /\ IsInjective(Append(l, c)) /\ ToSet(Append(l, c)) = ToSet(l) \cup {c}
      /\ Len(Append(l, c)) = Len(l) + 1 /\ Append(l, c) \in Seq(Conn)
  <2>1. IsInjective(l) BY <1>0, <1>1 DEF ListOK
  <2> HIDE DEF l
  <2>2. Append(l, c) \in Seq(Conn) BY <1>1
  <2> QED BY <1>1, <1>3, <2>1, <2>2, JoinInjective
<1>5. Len(Append(l, c)) <= MaxIdleConnsPerHost
  <2>1. Len(l) < MaxIdleConnsPerHost BY <1>1 DEF Refused
  <2> HIDE DEF l
  <2> QED BY <1>1, <1>4, <2>1
<1>6. /\ list \in [Key -> Seq(Conn)] /\ list[k] = Append(l, c)
      /\ \A j \in Key : j # k => list[j] = idleConn[j]
  BY <1>1, <1>4
<1>7. ASSUME NEW j \in Key
      PROVE  /\ list[j] \in Seq(Conn) /\ IsInjective(list[j])
             /\ Len(list[j]) <= MaxIdleConnsPerHost
             /\ \A x \in ToSet(list[j]) : x \in Idle \cup {c} /\ ckey[x] = j
  <2> HIDE DEF list
  <2>1. CASE j = k
    <3>1. \A x \in ToSet(l) : x \in Idle /\ ckey[x] = k BY <1>0, <1>1 DEF ListOK
    <3> HIDE DEF l
    <3> QED BY <1>4, <1>5, <1>6, <2>1, <3>1
  <2>2. CASE j # k
    BY <1>0, <1>1, <1>6, <2>2 DEF ListOK
  <2> QED BY <2>1, <2>2
<1>8. CASE ~full
  <2>1. /\ idleLRU' = lru /\ idleConn' = list /\ dial' = d /\ UNCHANGED <<open, countVars>>
    BY <1>8, Zenon DEF AddIdle
  <2>2. MaxIdleConns # 0 => Len(lru) <= MaxIdleConns
    <3>1. MaxIdleConns # 0 => ~(Len(lru) > MaxIdleConns) BY <1>8
    <3> HIDE DEF lru
    <3> QED BY <1>1, <1>2, <3>1
  <2> HIDE DEF lru, list, full
  <2>3. Idle' = Idle \cup {c} BY <1>2, <2>1 DEF Idle
  <2>4. \A j \in Key : ListOK(j)' BY <1>7, <2>1, <2>3 DEF ListOK
  <2> QED BY <1>2, <2>1, <2>2, <2>3, <2>4, ListByListNext
<1>9. CASE full
  <2>1. /\ idleLRU' = Front(lru)
        /\ idleConn' = [list EXCEPT ![ckey[oldest]] = RemoveFirst(@, oldest)]
        /\ Close(oldest, d, DoneAfter(c))
    BY <1>9, Zenon DEF AddIdle
  <2>n. MaxIdleConns # 0 /\ Len(lru) > MaxIdleConns BY <1>9
  <2> HIDE DEF lru, list, full
  <2>2. /\ Front(lru) \in Seq(Conn) /\ Len(Front(lru)) = Len(lru) - 1 /\ oldest \in ToSet(lru)
        /\ IsInjective(Front(lru)) /\ ToSet(Front(lru)) = ToSet(lru) \ {oldest}
    <3>1. Len(lru) > 0 BY <1>1, <1>2
    <3> QED BY <1>2, <3>1, FrontInjective
  <2>3. oldest # c
    <3>1. Len(lru) > 1 /\ Len(lru) \in Nat /\ 1 \in DOMAIN lru /\ Len(lru) \in DOMAIN lru
      BY <1>1, <1>2, <2>n
    <3>2. lru[1] = c BY <1>1 DEF lru
    <3>3. lru[Len(lru)] # lru[1] BY <1>2, <3>1 DEF IsInjective
    <3>4. oldest = lru[Len(lru)] BY DEF Last
    <3> QED BY <3>2, <3>3, <3>4
  <2> HIDE DEF oldest
  <2>4. Idle' = (Idle \cup {c}) \ {oldest} /\ oldest \in Idle BY <1>2, <2>1, <2>2, <2>3 DEF Idle
  <2>5. oldest \in Conn /\ ckey[oldest] \in Key BY <1>1, <2>4 DEF Idle, ToSet
  <2>6. Len(idleLRU') <= MaxIdleConns
    <3>1. Len(Front(lru)) = Len(idleLRU)
      <4>1. Len(Front(lru)) = Len(idleLRU) + 1 - 1 BY <1>2, <2>2
      <4> QED BY <1>1, <4>1
    <3> QED BY <1>0, <2>1, <2>n, <3>1
  <2>7. ASSUME NEW j \in Key PROVE ListOK(j)'
    <3>1. CASE j = ckey[oldest]
      <4>1. idleConn'[j] = RemoveFirst(list[j], oldest) BY <1>6, <2>1, <3>1
      <4>2. /\ IsInjective(idleConn'[j]) /\ ToSet(idleConn'[j]) = ToSet(list[j]) \ {oldest}
            /\ Len(idleConn'[j]) <= Len(list[j])
        BY <1>7, <4>1, RemoveFirstInjective
      <4>3. Len(idleConn'[j]) \in Nat /\ Len(list[j]) \in Nat
        BY <1>7, <4>1, RemoveFirstType
      <4>4. Len(idleConn'[j]) <= MaxIdleConnsPerHost BY <1>1, <1>7, <4>2, <4>3
      <4> QED BY <1>7, <2>4, <4>2, <4>4 DEF ListOK
    <3>2. CASE j # ckey[oldest]
      <4>1. idleConn'[j] = list[j] BY <1>6, <2>1, <3>2
      <4>2. oldest \notin ToSet(list[j]) BY <1>7, <3>2
      <4> QED BY <1>7, <2>4, <4>1, <4>2 DEF ListOK
    <3> QED BY <3>1, <3>2
  <2> QED BY <2>1, <2>2, <2>4, <2>6, <2>7, ListByListNext
<1> QED BY <1>8, <1>9

-----------------------------------------------------------------------------
(* Closing and returning a connection.                                     *)

\* A slot may go to a call without a dial, which starts one; no other dial is
\* touched by decConnsPerHost.
StartsOnly(d) ==
    \A w \in Want : dial'[w] = d[w] \/ (d[w] = "none" /\ dial'[w] = "start")

\* decConnsPerHost starts at most a dial that was queued.
LEMMA DecStarts ==
    ASSUME PoolInv, NEW k \in Key, NEW d, DialKept(d), NEW done, DecConnsPerHost(k, d, done)
    PROVE  StartsOnly(d)
<1> DEFINE q    == connsPerHostWait[k]
           live == Positions(q, Waiting(done))
           w    == q[Min(live)]
<1>1. CASE dial' = d BY <1>1 DEF StartsOnly
<1>2. CASE live # {} /\ dial' = [d EXCEPT ![w] = "start"]
  <2>1. q \in Seq(Want) BY DEF PoolInv, TypeOK
  <2>2. Min(live) \in DOMAIN q BY <1>2, <2>1, FirstPosition
  <2>3. dial[w] = "none" BY <2>2 DEF PoolInv, SlotInv, QueueWellFormed
  <2>4. w \in Want BY <2>1, <2>2
  <2>5. d[w] = "none" /\ d \in [Want -> DialPC] BY <2>3, <2>4 DEF DialKept
  <2> HIDE DEF w, live
  <2> QED BY <1>2, <2>5 DEF StartsOnly
<1> QED BY <1>1, <1>2 DEF DecConnsPerHost

\* close closes the connection, and starts at most a dial that was queued.
LEMMA CloseStarts ==
    ASSUME PoolInv, NEW c, NEW d, DialKept(d), NEW done, Close(c, d, done)
    PROVE  open' = open \ {c} /\ StartsOnly(d)
<1>1. CASE c \in open
  <2>1. open' = open \ {c} /\ DecConnsPerHost(ckey[c], d, done) BY <1>1 DEF Close
  <2>2. ckey[c] \in Key BY <1>1 DEF PoolInv, TypeOK
  <2> QED BY <2>1, <2>2, DecStarts
<1>2. CASE c \notin open
  <2>1. dial' = d /\ open' = open BY <1>2 DEF Close
  <2> QED BY <1>2, <2>1 DEF StartsOnly
<1> QED BY <1>1, <1>2

\* One wantConn takes an HTTP/1 connection.
LEMMA OneTaker ==
    ASSUME NEW c, c \notin alt, NEW w \in Takers(c), NEW x \in Takers(c)
    PROVE  w = x
BY DEF Takers

\* putOrCloseIdleConn: the connection goes to one waiting call, or into the lists,
\* or is closed; beside it only an idle connection can be closed.
LEMMA PutMoves ==
    ASSUME PoolInv, IdleListsWellFormed, NEW c \in Conn, NEW d, DialKept(d),
           PutOrCloseIdleConn(c, d), c \notin alt => c \notin Idle
    PROVE  /\ IdleListsWellFormed'
           /\ Idle' \subseteq Idle \cup {c} /\ StartsOnly(d)
           /\ open' \subseteq open /\ open \ open' \subseteq Idle \cup {c}
           /\ \A w \in Want : result'[w] \in {result[w], c}
           /\ c \notin alt /\ (\A w \in Want : result[w] # c)
                => /\ \A w, x \in Want : result'[w] = c /\ result'[x] = c => w = x
                   /\ c \in Idle' => \A w \in Want : result'[w] # c
           /\ UNCHANGED <<born, ckey, alt, sweepVars>>
<1>u. UNCHANGED <<born, ckey, alt, sweepVars>> BY DEF PutOrCloseIdleConn
<1>f. UNCHANGED <<idleConn, idleLRU>> => IdleListsWellFormed' /\ Idle' = Idle
  BY <1>u DEF IdleListsWellFormed, Idle
<1>1. CASE AlreadyIdle(c)
  <2>1. dial' = d /\ UNCHANGED <<result, idleConn, idleLRU, open>>
    BY <1>1 DEF PutOrCloseIdleConn
  <2>2. c \in alt BY <1>1 DEF AlreadyIdle
  <2> QED BY <1>u, <1>f, <2>1, <2>2 DEF StartsOnly
<1>2. CASE ~AlreadyIdle(c)
  <2>1. result' = [w \in Want |-> IF w \in Takers(c) THEN c ELSE result[w]]
    BY <1>2 DEF PutOrCloseIdleConn
  <2>2. c \notin Idle BY <1>2 DEF AlreadyIdle, Idle
  <2>3. \A w \in Want : result'[w] \in {result[w], c} BY <2>1
  <2>4. ASSUME c \notin alt, \A w \in Want : result[w] # c
        PROVE  /\ \A w \in Want : result'[w] = c => w \in Takers(c)
               /\ \A w, x \in Want : result'[w] = c /\ result'[x] = c => w = x
    BY <2>1, <2>4, OneTaker
  <2>5. CASE c \notin alt /\ Takers(c) # {}
    <3>1. dial' = d /\ UNCHANGED <<idleConn, idleLRU, open>>
      BY <1>2, <2>5 DEF PutOrCloseIdleConn
    <3> QED BY <1>u, <1>f, <2>2, <2>3, <2>4, <3>1 DEF StartsOnly
  <2>6. CASE /\ c \in alt \/ Takers(c) = {}
             /\ Close(c, d, DoneAfter(c)) /\ UNCHANGED <<idleConn, idleLRU>>
    <3>1. open' = open \ {c} /\ StartsOnly(d) BY <2>6, CloseStarts
    <3> QED BY <1>u, <1>f, <2>2, <2>3, <2>4, <2>6, <3>1
  <2>7. CASE (c \in alt \/ Takers(c) = {}) /\ ~Refused(c) /\ AddIdle(c, d)
    <3>1. /\ IdleListsWellFormed' /\ Idle' \subseteq Idle \cup {c}
          /\ \/ dial' = d /\ open' = open
             \/ \E o \in Idle : Close(o, d, DoneAfter(c))
      BY <1>u, <2>2, <2>7, AddIdleLists
    <3>2. StartsOnly(d) /\ open' \subseteq open /\ open \ open' \subseteq Idle
      <4>1. CASE dial' = d /\ open' = open BY <4>1 DEF StartsOnly
      <4>2. CASE \E o \in Idle : Close(o, d, DoneAfter(c)) BY <4>2, CloseStarts
      <4> QED BY <3>1, <4>1, <4>2
    <3>3. c \notin alt /\ (\A w \in Want : result[w] # c) => \A w \in Want : result'[w] # c
      BY <2>4, <2>7
    <3> QED BY <1>u, <2>3, <2>4, <3>1, <3>2, <3>3
  <2> QED BY <1>2, <2>5, <2>6, <2>7 DEF PutOrCloseIdleConn
<1> QED BY <1>1, <1>2

-----------------------------------------------------------------------------
(* The holders of a connection from one state to the next.                 *)

\* Nobody gets connection c in this step.
NobodyGets(c) ==
    /\ \A w \in Want : /\ held'[w] = c => held[w] = c
                       /\ result'[w] = c => result[w] = c
                       /\ dconn'[w] = c => dconn[w] = c
    /\ c \in Idle' => c \in Idle
    /\ c \in sweep' => c \in sweep

\* Then it still has one holder.
LEMMA NobodyGetsOne ==
    ASSUME NEW c, OnePartyHas(c), NobodyGets(c)
    PROVE  OnePartyHas(c)'
BY DEF OnePartyHas, NobodyGets

\* The body of InUseNotClosedByPool.
Spared ==
    \A w \in Want :
        /\ pc[w] = "using" /\ pc'[w] = "using"
        /\ held[w] \in open \ alt
        => held[w] \in open'

\* The holders are typed, so a connection is neither None nor Err.
LEMMA ConnIsNone ==
    ASSUME PoolInv, OwnInv
    PROVE  /\ \A c \in born : c # None /\ c # Err
           /\ \A w \in Want : /\ held[w] # None => held[w] \in born
                              /\ result[w] \notin {None, Err} => result[w] \in born
                              /\ dconn[w] # None => dconn[w] \in born
           /\ born \subseteq Conn /\ alt \subseteq born /\ open \subseteq born
           /\ DOMAIN held = Want /\ DOMAIN result = Want /\ DOMAIN dconn = Want
           /\ DOMAIN pc = Want /\ DOMAIN dial = Want
           /\ None # Err
BY PoolConstants DEF PoolInv, TypeOK, OwnInv, HoldersBorn

\* A step that moves no connection and closes none that is in use.
LEMMA OwnFrame ==
    ASSUME PoolInv, OwnInv,
           UNCHANGED <<held, result, dconn, born, alt, ckey, idleConn, idleLRU, sweep>>,
           \A w \in Want : /\ pc'[w] \in {"using", "check", "put"} <=> pc[w] \in {"using", "check", "put"}
                           /\ dial'[w] \in {"check", "put"} <=> dial[w] \in {"check", "put"},
           sweeping' \/ sweep = {}
    PROVE  OwnInv'
<1>1. HoldersBorn' /\ HoldsWhile' /\ SweepOver' BY DEF OwnInv, HoldersBorn, HoldsWhile, SweepOver, Idle
<1>2. OneHolder' BY DEF OwnInv, OneHolder, OnePartyHas, Idle
<1>3. IdleListsWellFormed' BY DEF OwnInv, IdleListsWellFormed
<1> QED BY <1>1, <1>2, <1>3 DEF OwnInv

\* putOrCloseIdleConn on behalf of a caller w that held the connection and no
\* longer does.
LEMMA CallerPuts ==
    ASSUME PoolInv, OwnInv, NEW w \in Want, NEW c, held[w] = c, c # None,
           PutOrCloseIdleConn(c, dial),
           pc[w] \in {"using", "put"}, NEW e \in {"over", "failed"}, pc' = [pc EXCEPT ![w] = e],
           held' = [held EXCEPT ![w] = None], UNCHANGED dconn,
           c \notin alt \/ pc[w] # "using"
    PROVE  OwnInv' /\ Spared
<1> USE ConnIsNone
<1>1. c \in born /\ c \in Conn OBVIOUS
<1>2. c \notin alt => /\ c \notin Idle /\ c \notin sweep
                      /\ \A x \in Want : /\ held[x] = c => x = w
                                         /\ result[x] # c /\ dconn[x] # c
  BY <1>1 DEF OwnInv, OneHolder, OnePartyHas
<1>3. DialKept(dial) BY DEF DialKept, PoolInv, TypeOK
<1>4. /\ IdleListsWellFormed'
      /\ Idle' \subseteq Idle \cup {c} /\ StartsOnly(dial)
      /\ open' \subseteq open /\ open \ open' \subseteq Idle \cup {c}
      /\ \A x \in Want : result'[x] \in {result[x], c}
      /\ c \notin alt => /\ \A x, y \in Want : result'[x] = c /\ result'[y] = c => x = y
                         /\ c \in Idle' => \A x \in Want : result'[x] # c
      /\ UNCHANGED <<born, ckey, alt, sweepVars>>
  BY <1>1, <1>2, <1>3, PutMoves DEF OwnInv
<1>5. /\ \A x \in Want : x # w => held'[x] = held[x] /\ pc'[x] = pc[x]
      /\ held'[w] = None /\ pc'[w] = e
  OBVIOUS
<1>6. HoldersBorn'
  BY <1>1, <1>4, <1>5 DEF OwnInv, HoldersBorn, sweepVars
<1>7. HoldsWhile'
  <2>1. \A x \in Want : dial'[x] \in {"check", "put"} <=> dial[x] \in {"check", "put"}
    BY <1>4 DEF StartsOnly
  <2> QED BY <1>5, <2>1 DEF OwnInv, HoldsWhile
<1>8. OneHolder'
  <2> SUFFICES ASSUME NEW b \in born \ alt PROVE OnePartyHas(b)'
    BY <1>4 DEF OneHolder
  <2>1. CASE b = c
    BY <1>1, <1>2, <1>4, <1>5, <2>1 DEF OnePartyHas, sweepVars
  <2>2. CASE b # c
    <3>1. NobodyGets(b) BY <1>4, <1>5, <2>2 DEF NobodyGets, sweepVars
    <3> QED BY <3>1, NobodyGetsOne DEF OwnInv, OneHolder
  <2> QED BY <2>1, <2>2
<1>9. SweepOver' BY <1>4 DEF OwnInv, SweepOver, sweepVars
<1>10. Spared
  <2> SUFFICES ASSUME NEW x \in Want, pc[x] = "using", pc'[x] = "using", held[x] \in open \ alt
               PROVE  held[x] \in open'
    BY DEF Spared
  <2>1. x # w BY <1>5
  <2>2. held[x] # c
    <3>1. CASE c \notin alt BY <1>2, <2>1, <3>1
    <3>2. CASE c \in alt BY <3>2
    <3> QED BY <3>1, <3>2
  <2>3. held[x] \notin Idle BY DEF OwnInv, OneHolder, OnePartyHas
  <2> QED BY <1>4, <2>2, <2>3
<1> QED BY <1>4, <1>6, <1>7, <1>8, <1>9, <1>10 DEF OwnInv

\* A caller w that lets go of its connection, which may be closed with it.
LEMMA CallerDrops ==
    ASSUME PoolInv, OwnInv, NEW w \in Want, pc[w] \in {"using", "check", "put"},
           NEW e \in {"over", "failed"}, pc' = [pc EXCEPT ![w] = e],
           held' = [held EXCEPT ![w] = None],
           UNCHANGED <<result, dconn, born, alt, ckey, idleConn, idleLRU, sweep, sweeping>>,
           StartsOnly(dial), open \ open' \subseteq {held[w]}
    PROVE  OwnInv' /\ Spared
<1> USE ConnIsNone
<1>1. /\ \A x \in Want : x # w => held'[x] = held[x] /\ pc'[x] = pc[x]
      /\ held'[w] = None /\ pc'[w] = e
  OBVIOUS
<1>2. HoldersBorn' BY <1>1 DEF OwnInv, HoldersBorn, Idle
<1>3. HoldsWhile'
  <2>1. \A x \in Want : dial'[x] \in {"check", "put"} <=> dial[x] \in {"check", "put"}
    BY DEF StartsOnly
  <2> QED BY <1>1, <2>1 DEF OwnInv, HoldsWhile
<1>4. OneHolder'
  <2> SUFFICES ASSUME NEW b \in born \ alt PROVE OnePartyHas(b)'
    BY DEF OneHolder
  <2>1. NobodyGets(b) BY <1>1 DEF NobodyGets, Idle
  <2> QED BY <2>1, NobodyGetsOne DEF OwnInv, OneHolder
<1>5. SweepOver' /\ IdleListsWellFormed' BY DEF OwnInv, SweepOver, IdleListsWellFormed
<1>6. Spared
  <2> SUFFICES ASSUME NEW x \in Want, pc[x] = "using", pc'[x] = "using", held[x] \in open \ alt
               PROVE  held[x] \in open'
    BY DEF Spared
  <2>1. x # w BY <1>1
  <2>2. held[x] # held[w] BY <2>1 DEF OwnInv, OneHolder, OnePartyHas
  <2> QED BY <2>2
<1> QED BY <1>2, <1>3, <1>4, <1>5, <1>6 DEF OwnInv

\* A caller w that takes its connection out of its result channel.
LEMMA CallerTakes ==
    ASSUME PoolInv, OwnInv, NEW w \in Want, pc[w] = "wait", result[w] \notin {None, Err},
           NEW e \in {"using", "check"}, pc' = [pc EXCEPT ![w] = e],
           held' = [held EXCEPT ![w] = result[w]], result' = [result EXCEPT ![w] = None],
           UNCHANGED <<dial, dconn, open, born, alt, ckey, idleConn, idleLRU, sweep, sweeping>>
    PROVE  OwnInv' /\ Spared
<1> USE ConnIsNone
<1> DEFINE c == result[w]
<1>1. /\ \A x \in Want : x # w => held'[x] = held[x] /\ pc'[x] = pc[x] /\ result'[x] = result[x]
      /\ held'[w] = c /\ pc'[w] = e /\ result'[w] = None /\ c \in born
  OBVIOUS
<1>2. HoldersBorn' BY <1>1 DEF OwnInv, HoldersBorn, Idle
<1>3. HoldsWhile' BY <1>1 DEF OwnInv, HoldsWhile
<1>4. OneHolder'
  <2> SUFFICES ASSUME NEW b \in born \ alt PROVE OnePartyHas(b)'
    BY DEF OneHolder
  <2>0. OnePartyHas(b) BY DEF OwnInv, OneHolder
  <2>1. CASE b = c BY <1>1, <2>0, <2>1 DEF OnePartyHas, Idle
  <2>2. CASE b # c
    <3>1. NobodyGets(b) BY <1>1, <2>2 DEF NobodyGets, Idle
    <3> QED BY <2>0, <3>1, NobodyGetsOne
  <2> QED BY <2>1, <2>2
<1>5. SweepOver' /\ IdleListsWellFormed' BY DEF OwnInv, SweepOver, IdleListsWellFormed
<1>6. Spared BY DEF Spared
<1> QED BY <1>2, <1>3, <1>4, <1>5, <1>6 DEF OwnInv

\* A caller w whose result is dropped: an error, or nothing.
LEMMA CallerFails ==
    ASSUME PoolInv, OwnInv, NEW w \in Want, pc[w] = "wait", pc' = [pc EXCEPT ![w] = "failed"],
           result' = [result EXCEPT ![w] = None],
           UNCHANGED <<held, dial, dconn, open, born, alt, ckey, idleConn, idleLRU, sweep, sweeping>>
    PROVE  OwnInv' /\ Spared
<1> USE ConnIsNone
<1>1. /\ \A x \in Want : x # w => pc'[x] = pc[x] /\ result'[x] = result[x]
      /\ pc'[w] = "failed" /\ result'[w] = None
  OBVIOUS
<1>2. HoldersBorn' BY <1>1 DEF OwnInv, HoldersBorn, Idle
<1>3. HoldsWhile' BY <1>1 DEF OwnInv, HoldsWhile
<1>4. OneHolder'
  <2> SUFFICES ASSUME NEW b \in born \ alt PROVE OnePartyHas(b)'
    BY DEF OneHolder
  <2>1. NobodyGets(b) BY <1>1 DEF NobodyGets, Idle
  <2> QED BY <2>1, NobodyGetsOne DEF OwnInv, OneHolder
<1>5. SweepOver' /\ IdleListsWellFormed' BY DEF OwnInv, SweepOver, IdleListsWellFormed
<1>6. Spared BY DEF Spared
<1> QED BY <1>2, <1>3, <1>4, <1>5, <1>6 DEF OwnInv

\* queueForIdleConn finds a connection: it leaves the lists for the result channel
\* of w, unless it is shared.
LEMMA GetIdleOwn ==
    ASSUME PoolInv, OwnInv, NEW w \in Want, GetIdle(w)
    PROVE  OwnInv' /\ Spared
<1> DEFINE k == KeyOf[w]
           l == idleConn[k]
           i == Max(Usable(k))
           c == l[i]
           n == IF c \in alt THEN i ELSE i - 1
<1> USE ConnIsNone
<1>1. k \in Key /\ l \in Seq(Conn) /\ idleLRU \in Seq(Conn) /\ Len(l) \in Nat
  BY PoolConstants DEF PoolInv, TypeOK
<1>2. i \in DOMAIN l /\ i \in 1..Len(l)
  <2>1. Usable(k) # {} /\ Usable(k) \subseteq 1..Len(l) BY <1>1 DEF GetIdle, Usable, Positions
  <2> HIDE DEF l
  <2>2. i \in Usable(k) BY <1>1, <2>1, MaxOf
  <2> HIDE DEF i
  <2> QED BY <1>1, <2>1, <2>2
<1>3. /\ pc[w] = "new" /\ pc' = [pc EXCEPT ![w] = "wait"]
      /\ result' = [result EXCEPT ![w] = c]
      /\ idleConn' = [idleConn EXCEPT ![k] = SubSeq(@, 1, n)]
      /\ idleLRU' = IF c \in alt THEN idleLRU ELSE RemoveFirst(idleLRU, c)
      /\ UNCHANGED <<held, dial, dconn, open, born, alt, ckey, sweep, sweeping>>
  BY DEF GetIdle, connVars, sweepVars
<1>4. n \in 0..Len(l) /\ i >= n /\ (c \notin alt => i > n)
  <2> HIDE DEF l, i, c
  <2> QED BY <1>1, <1>2
<1>5. /\ IsInjective(idleLRU) /\ \A j \in Key : ListOK(j)
      /\ MaxIdleConns # 0 => Len(idleLRU) <= MaxIdleConns
  BY ListByList DEF OwnInv
<1>6. c \in ToSet(l) /\ c \in Idle /\ ckey[c] = k /\ c \in born
  <2>1. c \in ToSet(l) BY <1>2 DEF ToSet
  <2>2. \A b \in ToSet(l) : b \in Idle /\ ckey[b] = k BY <1>1, <1>5 DEF ListOK
  <2> QED BY <2>1, <2>2 DEF OwnInv, HoldersBorn
<1>7. IsInjective(l) /\ ToSet(l) \subseteq Idle BY <1>1, <1>5 DEF ListOK
<1>8. idleConn'[k] = SubSeq(l, 1, n) /\ \A j \in Key : j # k => idleConn'[j] = idleConn[j]
  BY <1>1, <1>3 DEF PoolInv, TypeOK
<1> HIDE DEF i, n, c, l
<1>9. /\ IsInjective(SubSeq(l, 1, n)) /\ ToSet(SubSeq(l, 1, n)) \subseteq ToSet(l)
      /\ Len(SubSeq(l, 1, n)) <= Len(l) /\ SubSeq(l, 1, n) \in Seq(Conn)
      /\ c \notin alt => c \notin ToSet(SubSeq(l, 1, n))
  <2>1. /\ SubSeq(l, 1, n) \in Seq(Conn) /\ Len(SubSeq(l, 1, n)) = n
    BY <1>1, <1>4, Beginning
  <2>2. /\ IsInjective(SubSeq(l, 1, n)) /\ ToSet(SubSeq(l, 1, n)) \subseteq ToSet(l)
        /\ \A j \in DOMAIN l : j > n => l[j] \notin ToSet(SubSeq(l, 1, n))
    BY <1>1, <1>4, <1>7, BeginningInjective
  <2>3. n <= Len(l) BY <1>1, <1>4
  <2> QED BY <1>2, <1>4, <2>1, <2>2, <2>3 DEF c
<1>10. /\ IsInjective(idleLRU') /\ Idle' = (IF c \in alt THEN Idle ELSE Idle \ {c})
       /\ Len(idleLRU') <= Len(idleLRU) /\ Len(idleLRU') \in Nat /\ Len(idleLRU) \in Nat
  <2>1. CASE c \in alt
    <3>1. Len(idleLRU) \in Nat BY <1>1
    <3> QED BY <1>3, <1>5, <2>1, <3>1 DEF Idle
  <2>2. CASE c \notin alt
    <3>1. /\ IsInjective(idleLRU') /\ ToSet(idleLRU') = ToSet(idleLRU) \ {c}
          /\ Len(idleLRU') <= Len(idleLRU) /\ idleLRU' \in Seq(Conn)
      BY <1>1, <1>3, <1>5, <2>2, RemoveFirstInjective, RemoveFirstType
    <3>2. Len(idleLRU) \in Nat /\ Len(idleLRU') \in Nat BY <1>1, <3>1
    <3> QED BY <2>2, <3>1, <3>2 DEF Idle
  <2> QED BY <2>1, <2>2
<1>11. IdleListsWellFormed'
  <2>1. ASSUME NEW j \in Key PROVE ListOK(j)'
    <3>1. CASE j = k
      <4>1. ToSet(SubSeq(l, 1, n)) \subseteq Idle' BY <1>7, <1>9, <1>10
      <4>2. l = idleConn[k] BY DEF l
      <4> HIDE DEF k
      <4> QED BY <1>3, <1>5, <1>8, <1>9, <3>1, <4>1, <4>2, ListShrinks DEF PoolInv
    <3>2. CASE j # k
      <4>1. ListOK(j) /\ idleConn'[j] = idleConn[j] BY <1>5, <1>8, <3>2
      <4>2. c \notin ToSet(idleConn[j]) BY <1>6, <3>2, <4>1 DEF ListOK
      <4> QED BY <1>3, <1>10, <4>1, <4>2 DEF ListOK
    <3> QED BY <3>1, <3>2
  <2>2. MaxIdleConns # 0 => Len(idleLRU') <= MaxIdleConns
    <3>1. MaxIdleConns \in Nat BY PoolConstants
    <3> QED BY <1>5, <1>10, <3>1
  <2> QED BY <1>10, <2>1, <2>2, ListByListNext
<1>12. /\ \A x \in Want : x # w => pc'[x] = pc[x] /\ result'[x] = result[x]
       /\ pc'[w] = "wait" /\ result'[w] = c
  BY <1>3
<1>13. HoldersBorn' BY <1>3, <1>6, <1>10, <1>12 DEF OwnInv, HoldersBorn
<1>14. HoldsWhile' BY <1>3, <1>12 DEF OwnInv, HoldsWhile
<1>15. OneHolder'
  <2> SUFFICES ASSUME NEW b \in born \ alt PROVE OnePartyHas(b)'
    BY <1>3 DEF OneHolder
  <2>0. OnePartyHas(b) BY DEF OwnInv, OneHolder
  <2>1. CASE b = c BY <1>3, <1>6, <1>10, <1>12, <2>0, <2>1 DEF OnePartyHas
  <2>2. CASE b # c
    <3>1. NobodyGets(b) BY <1>3, <1>10, <1>12, <2>2 DEF NobodyGets
    <3> QED BY <2>0, <3>1, NobodyGetsOne
  <2> QED BY <2>1, <2>2
<1>16. SweepOver' BY <1>3 DEF OwnInv, SweepOver
<1>17. Spared BY <1>3 DEF Spared
<1> QED BY <1>11, <1>13, <1>14, <1>15, <1>16, <1>17 DEF OwnInv

\* queueForIdleConn finds nothing usable: at most a list is dropped.
LEMMA QueueForIdleOwn ==
    ASSUME PoolInv, OwnInv, NEW w \in Want, QueueForIdle(w)
    PROVE  OwnInv' /\ Spared
<1> DEFINE k == KeyOf[w]
<1> USE ConnIsNone
<1>1. /\ pc[w] = "new" /\ pc' = [pc EXCEPT ![w] = "dialq"] /\ idleLRU' = idleLRU
      /\ idleConn' \in {idleConn, [idleConn EXCEPT ![k] = <<>>]}
      /\ UNCHANGED <<held, result, dial, dconn, open, born, alt, ckey, sweep, sweeping>>
  BY DEF QueueForIdle, connVars, sweepVars, idleVars
<1>2. pc'[w] = "dialq" /\ \A x \in Want : x # w => pc'[x] = pc[x] BY <1>1
<1>3. HoldersBorn' /\ HoldsWhile' /\ SweepOver'
  BY <1>1, <1>2 DEF OwnInv, HoldersBorn, HoldsWhile, SweepOver, Idle
<1>4. OneHolder' BY <1>1 DEF OwnInv, OneHolder, OnePartyHas, Idle
<1>5. IdleListsWellFormed'
  <2>1. /\ IsInjective(idleLRU) /\ \A j \in Key : ListOK(j)
        /\ MaxIdleConns # 0 => Len(idleLRU) <= MaxIdleConns
    BY ListByList DEF OwnInv
  <2>2. ASSUME NEW j \in Key PROVE ListOK(j)'
    <3>1. CASE idleConn'[j] = idleConn[j] BY <1>1, <2>1, <3>1 DEF ListOK, Idle
    <3>2. CASE idleConn'[j] = <<>>
      <4>1. IsInjective(<<>>) /\ ToSet(<<>>) = {} /\ Len(<<>>) = 0 BY DEF IsInjective, ToSet
      <4>2. 0 <= MaxIdleConnsPerHost BY PoolConstants
      <4> QED BY <3>2, <4>1, <4>2 DEF ListOK
    <3>3. idleConn'[j] \in {idleConn[j], <<>>} BY <1>1 DEF PoolInv, TypeOK
    <3> QED BY <3>1, <3>2, <3>3
  <2> QED BY <1>1, <2>1, <2>2, ListByListNext
<1>6. Spared BY <1>1 DEF Spared
<1> QED BY <1>3, <1>4, <1>5, <1>6 DEF OwnInv

-----------------------------------------------------------------------------
(* Every step keeps the holders apart.                                     *)

\* The steps of getConn and of the request.
LEMMA WantStepOwn ==
    ASSUME PoolInv, OwnInv, NEW w \in Want, WantStep(w)
    PROVE  OwnInv' /\ Spared
<1> USE ConnIsNone
<1>d. DialKept(dial) BY DEF DialKept, PoolInv, TypeOK
<1>1. CASE GetIdle(w) BY <1>1, GetIdleOwn
<1>2. CASE QueueForIdle(w) BY <1>2, QueueForIdleOwn
<1>3. CASE QueueForDial(w)
  <2>1. /\ pc[w] = "dialq" /\ pc' = [pc EXCEPT ![w] = "wait"]
        /\ dial' \in {dial, [dial EXCEPT ![w] = "start"]}
        /\ UNCHANGED <<held, result, dconn, open, born, alt, ckey, idleConn, idleLRU, sweep, sweeping>>
    BY <1>3 DEF QueueForDial, connVars, sweepVars, idleVars
  <2>2. dial[w] = "none" BY <2>1 DEF PoolInv, SlotInv, EnteringHasNoDial, Entering
  <2>3. sweeping' \/ sweep = {} BY <2>1 DEF OwnInv, SweepOver
  <2>4. \A x \in Want : /\ pc'[x] \in {"using", "check", "put"} <=> pc[x] \in {"using", "check", "put"}
                        /\ dial'[x] \in {"check", "put"} <=> dial[x] \in {"check", "put"}
    BY <2>1, <2>2
  <2>5. OwnInv' BY <2>1, <2>3, <2>4, OwnFrame
  <2>6. Spared BY <2>1 DEF Spared
  <2> QED BY <2>5, <2>6
<1>4. CASE Receive(w)
  <2>1. /\ pc[w] = "wait" /\ result[w] # None /\ result' = [result EXCEPT ![w] = None]
        /\ UNCHANGED <<dial, dconn, open, born, alt, ckey, idleConn, idleLRU, sweep, sweeping>>
    BY <1>4 DEF Receive, connVars, sweepVars, idleVars
  <2>2. CASE result[w] = Err
    <3>1. pc' = [pc EXCEPT ![w] = "failed"] /\ UNCHANGED held BY <1>4, <2>2 DEF Receive
    <3> QED BY <2>1, <3>1, CallerFails
  <2>3. CASE result[w] # Err
    <3>1. pc' = [pc EXCEPT ![w] = "using"] /\ held' = [held EXCEPT ![w] = result[w]]
      BY <1>4, <2>3 DEF Receive
    <3> QED BY <2>1, <2>3, <3>1, CallerTakes
  <2> QED BY <2>2, <2>3
<1>5. CASE Cancel(w)
  <2>1. /\ pc[w] = "wait" /\ result' = [result EXCEPT ![w] = None]
        /\ UNCHANGED <<dial, dconn, open, born, alt, ckey, idleConn, idleLRU, sweep, sweeping>>
    BY <1>5 DEF Cancel, connVars, sweepVars, idleVars
  <2>2. CASE result[w] \in {None, Err}
    <3>1. pc' = [pc EXCEPT ![w] = "failed"] /\ UNCHANGED held BY <1>5, <2>2 DEF Cancel
    <3> QED BY <2>1, <3>1, CallerFails
  <2>3. CASE result[w] \notin {None, Err}
    <3>1. pc' = [pc EXCEPT ![w] = "check"] /\ held' = [held EXCEPT ![w] = result[w]]
      BY <1>5, <2>3 DEF Cancel
    <3> QED BY <2>1, <2>3, <3>1, CallerTakes
  <2> QED BY <2>2, <2>3
<1>6. CASE CancelCheck(w)
  <2>1. /\ pc[w] = "check"
        /\ UNCHANGED <<result, dconn, born, alt, ckey, idleConn, idleLRU, sweep, sweeping>>
    BY <1>6 DEF CancelCheck, sweepVars, idleVars
  <2>2. CASE pc' = [pc EXCEPT ![w] = "put"] /\ UNCHANGED <<held, dial, open, countVars>>
    <3>1. sweeping' \/ sweep = {} BY <2>1 DEF OwnInv, SweepOver
    <3>2. \A x \in Want : /\ pc'[x] \in {"using", "check", "put"} <=> pc[x] \in {"using", "check", "put"}
                          /\ dial'[x] \in {"check", "put"} <=> dial[x] \in {"check", "put"}
      BY <2>1, <2>2
    <3>3. OwnInv' BY <2>1, <2>2, <3>1, <3>2, OwnFrame
    <3>4. Spared BY <2>2 DEF Spared
    <3> QED BY <3>3, <3>4
  <2>3. CASE /\ pc' = [pc EXCEPT ![w] = "failed"] /\ held' = [held EXCEPT ![w] = None]
             /\ Close(held[w], dial, wdone)
    <3>1. open' = open \ {held[w]} /\ StartsOnly(dial) BY <1>d, <2>3, CloseStarts
    <3>2. open \ open' \subseteq {held[w]} BY <3>1
    <3> QED BY <2>1, <2>3, <3>1, <3>2, CallerDrops
  <2> QED BY <1>6, <2>2, <2>3 DEF CancelCheck
<1>7. CASE CancelPut(w)
  <2>1. /\ pc[w] = "put" /\ pc' = [pc EXCEPT ![w] = "failed"] /\ held' = [held EXCEPT ![w] = None]
        /\ PutOrCloseIdleConn(held[w], dial) /\ UNCHANGED dconn
    BY <1>7 DEF CancelPut
  <2>2. held[w] # None BY <2>1 DEF OwnInv, HoldsWhile
  <2> QED BY <2>1, <2>2, CallerPuts
<1>8. CASE UseEnds(w)
  <2>1. /\ pc[w] = "using" /\ pc' = [pc EXCEPT ![w] = "over"] /\ held' = [held EXCEPT ![w] = None]
        /\ PutOrCloseIdleConn(held[w], dial) /\ UNCHANGED dconn /\ held[w] \notin alt
    BY <1>8 DEF UseEnds
  <2>2. held[w] # None BY <2>1 DEF OwnInv, HoldsWhile
  <2> QED BY <2>1, <2>2, CallerPuts
<1>9. CASE UseFails(w)
  <2>1. /\ pc[w] = "using" /\ pc' = [pc EXCEPT ![w] = "over"] /\ held' = [held EXCEPT ![w] = None]
        /\ Close(held[w], dial, wdone)
        /\ UNCHANGED <<result, dconn, born, alt, ckey, idleConn, idleLRU, sweep, sweeping>>
    BY <1>9 DEF UseFails, sweepVars, idleVars
  <2>2. open' = open \ {held[w]} /\ StartsOnly(dial) BY <1>d, <2>1, CloseStarts
  <2>3. open \ open' \subseteq {held[w]} BY <2>2
  <2> QED BY <2>1, <2>2, <2>3, CallerDrops
<1>10. CASE UseEndsAlt(w)
  <2>1. /\ pc[w] = "using" /\ pc' = [pc EXCEPT ![w] = "over"] /\ held' = [held EXCEPT ![w] = None]
        /\ UNCHANGED <<result, dial, dconn, open, born, alt, ckey, idleConn, idleLRU, sweep, sweeping>>
    BY <1>10 DEF UseEndsAlt, connVars, sweepVars, idleVars
  <2>2. StartsOnly(dial) /\ open \ open' \subseteq {held[w]} BY <2>1 DEF StartsOnly
  <2> QED BY <2>1, <2>2, CallerDrops
<1> QED BY <1>1, <1>2, <1>3, <1>4, <1>5, <1>6, <1>7, <1>8, <1>9, <1>10 DEF WantStep

\* A dial's goroutine returns its connection to the pool.
LEMMA DialPutOwn ==
    ASSUME PoolInv, OwnInv, NEW w \in Want, DialPut(w)
    PROVE  OwnInv' /\ Spared
<1> DEFINE c == dconn[w]
           d == [dial EXCEPT ![w] = "done"]
<1> USE ConnIsNone
<1>0. dial[w] = "put" /\ dconn' = [dconn EXCEPT ![w] = None] /\ UNCHANGED <<pc, held>>
      /\ PutOrCloseIdleConn(c, d)
  BY DEF DialPut
<1>1. c \in born /\ c \in Conn /\ c # None BY <1>0 DEF OwnInv, HoldsWhile
<1>2. c \notin alt => /\ c \notin Idle /\ c \notin sweep
                      /\ \A x \in Want : /\ dconn[x] = c => x = w
                                         /\ result[x] # c /\ held[x] # c
  BY <1>1 DEF OwnInv, OneHolder, OnePartyHas
<1>3. DialKept(d) BY <1>0 DEF DialKept, PoolInv, TypeOK, DialPC, SlotDial
<1>t. d[w] = "done" /\ \A x \in Want : x # w => d[x] = dial[x] OBVIOUS
<1> HIDE DEF d
<1>4. /\ IdleListsWellFormed'
      /\ Idle' \subseteq Idle \cup {c} /\ StartsOnly(d)
      /\ open' \subseteq open /\ open \ open' \subseteq Idle \cup {c}
      /\ \A x \in Want : result'[x] \in {result[x], c}
      /\ c \notin alt => /\ \A x, y \in Want : result'[x] = c /\ result'[y] = c => x = y
                         /\ c \in Idle' => \A x \in Want : result'[x] # c
      /\ UNCHANGED <<born, ckey, alt, sweepVars>>
  BY <1>0, <1>1, <1>2, <1>3, PutMoves DEF OwnInv
<1>5. dconn'[w] = None /\ \A x \in Want : x # w => dconn'[x] = dconn[x]
  BY <1>0
<1>6. HoldersBorn'
  BY <1>0, <1>1, <1>4, <1>5 DEF OwnInv, HoldersBorn, sweepVars
<1>7. HoldsWhile'
  <2>1. \A x \in Want : dial'[x] \in {"check", "put"} <=> x # w /\ dial[x] \in {"check", "put"}
    BY <1>4, <1>t DEF StartsOnly
  <2> QED BY <1>0, <1>5, <2>1 DEF OwnInv, HoldsWhile
<1>8. OneHolder'
  <2> SUFFICES ASSUME NEW b \in born \ alt PROVE OnePartyHas(b)'
    BY <1>4 DEF OneHolder
  <2>1. CASE b = c
    BY <1>0, <1>1, <1>2, <1>4, <1>5, <2>1 DEF OnePartyHas, sweepVars
  <2>2. CASE b # c
    <3>1. NobodyGets(b) BY <1>0, <1>4, <1>5, <2>2 DEF NobodyGets, sweepVars
    <3> QED BY <3>1, NobodyGetsOne DEF OwnInv, OneHolder
  <2> QED BY <2>1, <2>2
<1>9. SweepOver' BY <1>4 DEF OwnInv, SweepOver, sweepVars
<1>10. Spared
  <2> SUFFICES ASSUME NEW x \in Want, held[x] \in open \ alt PROVE held[x] \in open'
    BY DEF Spared
  <2>2. held[x] # c BY <1>2
  <2>3. held[x] \notin Idle BY DEF OwnInv, OneHolder, OnePartyHas
  <2> QED BY <1>4, <2>2, <2>3
<1> QED BY <1>4, <1>6, <1>7, <1>8, <1>9, <1>10 DEF OwnInv

\* A dial's goroutine ends with connection c: it delivers it, or keeps it to put it
\* into the pool.
LEMMA DialSucceedOwn ==
    ASSUME PoolInv, OwnInv, NEW w \in Want, NEW c \in Conn, NEW a \in BOOLEAN, DialSucceed(w, c, a)
    PROVE  OwnInv' /\ Spared
<1> USE ConnIsNone
<1>1. /\ dial[w] \in {"dialing", "cancelled"} /\ c \notin born
      /\ born' = born \cup {c} /\ open' = open \cup {c}
      /\ alt' = (IF a THEN alt \cup {c} ELSE alt)
      /\ ckey' = [ckey EXCEPT ![c] = KeyOf[w]]
      /\ result' = [result EXCEPT ![w] = IF wdone[w] THEN @ ELSE c]
      /\ UNCHANGED <<pc, held, idleConn, idleLRU, sweep, sweeping>>
      /\ \/ /\ wdone[w] \/ a
            /\ dial' = [dial EXCEPT ![w] = "check"] /\ dconn' = [dconn EXCEPT ![w] = c]
         \/ /\ ~wdone[w] /\ ~a
            /\ dial' = [dial EXCEPT ![w] = "done"] /\ UNCHANGED dconn
  BY DEF DialSucceed, sweepVars, idleVars
<1>2. /\ Idle' = Idle /\ c \notin Idle /\ c \notin sweep
      /\ \A x \in Want : held[x] # c /\ result[x] # c /\ dconn[x] # c
  <2>1. c # None /\ c # Err BY PoolConstants
  <2> QED BY <1>1, <2>1 DEF OwnInv, HoldersBorn, Idle
<1>3. /\ \A x \in Want : x # w => result'[x] = result[x] /\ dconn'[x] = dconn[x] /\ dial'[x] = dial[x]
      /\ result'[w] = (IF wdone[w] THEN result[w] ELSE c)
      /\ dconn'[w] = (IF wdone[w] \/ a THEN c ELSE dconn[w])
      /\ dial'[w] = (IF wdone[w] \/ a THEN "check" ELSE "done")
  BY <1>1
<1>4. HoldersBorn' BY <1>1, <1>2, <1>3 DEF OwnInv, HoldersBorn
<1>5. HoldsWhile'
  <2>1. c # None BY PoolConstants
  <2> QED BY <1>1, <1>3, <2>1 DEF OwnInv, HoldsWhile
<1>6. OneHolder'
  <2> SUFFICES ASSUME NEW b \in born' \ alt' PROVE OnePartyHas(b)'
    BY DEF OneHolder
  <2>1. CASE b = c
    <3>1. ~a BY <1>1, <2>1
    <3> QED BY <1>1, <1>2, <1>3, <2>1, <3>1 DEF OnePartyHas
  <2>2. CASE b # c
    <3>1. b \in born \ alt BY <1>1, <2>2
    <3>2. NobodyGets(b) BY <1>1, <1>2, <1>3, <2>2 DEF NobodyGets
    <3> QED BY <3>1, <3>2, NobodyGetsOne DEF OwnInv, OneHolder
  <2> QED BY <2>1, <2>2
<1>7. IdleListsWellFormed'
  <2>1. /\ IsInjective(idleLRU) /\ \A j \in Key : ListOK(j)
        /\ MaxIdleConns # 0 => Len(idleLRU) <= MaxIdleConns
    BY ListByList DEF OwnInv
  <2>2. \A b \in Idle : ckey'[b] = ckey[b] BY <1>1, <1>2 DEF PoolInv, TypeOK, Idle, ToSet
  <2>3. \A j \in Key : ListOK(j)' BY <1>1, <1>2, <2>1, <2>2 DEF ListOK
  <2> QED BY <1>1, <2>1, <2>3, ListByListNext
<1>8. SweepOver' BY <1>1 DEF OwnInv, SweepOver
<1>9. Spared BY <1>1 DEF Spared
<1> QED BY <1>4, <1>5, <1>6, <1>7, <1>8, <1>9 DEF OwnInv

\* The steps of a dial's goroutine.
LEMMA DialStepOwn ==
    ASSUME PoolInv, OwnInv, NEW w \in Want, DialStep(w)
    PROVE  OwnInv' /\ Spared
<1> USE ConnIsNone
<1>0. KeyOf[w] \in Key BY PoolConstants
<1>s. sweeping \/ sweep = {} BY DEF OwnInv, SweepOver
<1>1. ASSUME dial[w] \in {"start", "dec"}, UNCHANGED <<wantVars, idleVars, connVars, sweepVars, dconn>>,
             \/ dial' = [dial EXCEPT ![w] = "dialing"]
             \/ DecConnsPerHost(KeyOf[w], [dial EXCEPT ![w] = "done"], wdone)
      PROVE  OwnInv' /\ Spared
  <2>1. \A x \in Want : dial'[x] \in {"check", "put"} <=> dial[x] \in {"check", "put"}
    <3>1. CASE dial' = [dial EXCEPT ![w] = "dialing"] BY <1>1, <3>1
    <3>2. CASE DecConnsPerHost(KeyOf[w], [dial EXCEPT ![w] = "done"], wdone)
      <4> DEFINE k    == KeyOf[w]
                 q    == connsPerHostWait[k]
                 live == Positions(q, Waiting(wdone))
      <4>d. PICK d : d = [dial EXCEPT ![w] = "done"] BY Zenon
      <4>e. d \in [Want -> DialPC] /\ \A x \in Want : d[x] \in {"check", "put"} <=> dial[x] \in {"check", "put"}
        BY <1>1, <4>d DEF PoolInv, TypeOK, DialPC
      <4>f. DecConnsPerHost(k, d, wdone) BY <3>2, <4>d, Zenon
      <4>1. CASE dial' = d BY <4>1, <4>e
      <4>2. CASE live # {} /\ dial' = [d EXCEPT ![q[Min(live)]] = "start"]
        <5>1. q \in Seq(Want) BY <1>0 DEF PoolInv, TypeOK
        <5>2. Min(live) \in DOMAIN q BY <4>2, <5>1, FirstPosition
        <5>3. dial[q[Min(live)]] = "none" BY <1>0, <5>2 DEF PoolInv, SlotInv, QueueWellFormed
        <5>4. q[Min(live)] \in Want BY <5>1, <5>2
        <5> HIDE DEF live, q
        <5> QED BY <4>2, <4>e, <5>3, <5>4
      <4> QED BY <4>1, <4>2, <4>f DEF DecConnsPerHost
    <3> QED BY <1>1, <3>1, <3>2
  <2>2. OwnInv' BY <1>1, <1>s, <2>1, OwnFrame DEF wantVars, idleVars, connVars, sweepVars
  <2>3. Spared BY <1>1 DEF Spared, connVars, wantVars
  <2> QED BY <2>2, <2>3
<1>2. CASE DialStart(w) BY <1>1, <1>2 DEF DialStart
<1>3. CASE DialDec(w) BY <1>1, <1>3 DEF DialDec
<1>4. CASE DialFail(w)
  <2>1. /\ dial[w] \in {"dialing", "cancelled"} /\ dial' = [dial EXCEPT ![w] = "dec"]
        /\ result' = [result EXCEPT ![w] = IF wdone[w] THEN @ ELSE Err]
        /\ UNCHANGED <<pc, held, dconn, open, born, alt, ckey, idleConn, idleLRU, sweep, sweeping>>
    BY <1>4 DEF DialFail, connVars, sweepVars, idleVars
  <2>2. /\ \A x \in Want : x # w => result'[x] = result[x] /\ dial'[x] = dial[x]
        /\ result'[w] \in {result[w], Err} /\ dial'[w] = "dec"
    BY <2>1
  <2>3. HoldersBorn' BY <2>1, <2>2 DEF OwnInv, HoldersBorn, Idle
  <2>4. HoldsWhile' BY <2>1, <2>2 DEF OwnInv, HoldsWhile
  <2>5. OneHolder'
    <3> SUFFICES ASSUME NEW b \in born \ alt PROVE OnePartyHas(b)'
      BY <2>1 DEF OneHolder
    <3>1. NobodyGets(b) BY <2>1, <2>2 DEF NobodyGets, Idle
    <3> QED BY <3>1, NobodyGetsOne DEF OwnInv, OneHolder
  <2>6. SweepOver' /\ IdleListsWellFormed' BY <2>1 DEF OwnInv, SweepOver, IdleListsWellFormed
  <2>7. Spared BY <2>1 DEF Spared
  <2> QED BY <2>3, <2>4, <2>5, <2>6, <2>7 DEF OwnInv
<1>5. CASE \E c \in Conn, a \in BOOLEAN : DialSucceed(w, c, a) BY <1>5, DialSucceedOwn
<1>6. CASE DialCheck(w)
  <2>1. /\ dial[w] = "check"
        /\ UNCHANGED <<pc, held, result, born, alt, ckey, idleConn, idleLRU, sweep, sweeping>>
    BY <1>6 DEF DialCheck, wantVars, sweepVars, idleVars
  <2>2. CASE dial' = [dial EXCEPT ![w] = "put"] /\ UNCHANGED <<dconn, open>>
    <3>1. \A x \in Want : dial'[x] \in {"check", "put"} <=> dial[x] \in {"check", "put"}
      BY <2>1, <2>2
    <3>2. OwnInv' BY <1>s, <2>1, <2>2, <3>1, OwnFrame
    <3>3. Spared BY <2>2 DEF Spared
    <3> QED BY <3>2, <3>3
  <2>3. CASE /\ dconn' = [dconn EXCEPT ![w] = None]
             /\ Close(dconn[w], [dial EXCEPT ![w] = "done"], wdone)
    <3> DEFINE d == [dial EXCEPT ![w] = "done"]
    <3>1. DialKept(d) BY <2>1 DEF DialKept, PoolInv, TypeOK, DialPC, SlotDial
    <3>2. d[w] = "done" /\ \A x \in Want : x # w => d[x] = dial[x] OBVIOUS
    <3>3. Close(dconn[w], d, wdone) BY <2>3
    <3> HIDE DEF d
    <3>4. open' = open \ {dconn[w]} /\ StartsOnly(d) BY <3>1, <3>3, CloseStarts
    <3>5. dconn'[w] = None /\ \A x \in Want : x # w => dconn'[x] = dconn[x] BY <2>3
    <3>6. HoldersBorn' BY <2>1, <3>5 DEF OwnInv, HoldersBorn, Idle
    <3>7. HoldsWhile'
      <4>1. \A x \in Want : dial'[x] \in {"check", "put"} <=> x # w /\ dial[x] \in {"check", "put"}
        BY <3>2, <3>4 DEF StartsOnly
      <4> QED BY <2>1, <3>5, <4>1 DEF OwnInv, HoldsWhile
    <3>8. OneHolder'
      <4> SUFFICES ASSUME NEW b \in born \ alt PROVE OnePartyHas(b)'
        BY <2>1 DEF OneHolder
      <4>1. NobodyGets(b) BY <2>1, <3>5 DEF NobodyGets, Idle
      <4> QED BY <4>1, NobodyGetsOne DEF OwnInv, OneHolder
    <3>9. SweepOver' /\ IdleListsWellFormed' BY <2>1 DEF OwnInv, SweepOver, IdleListsWellFormed
    <3>10. Spared
      <4> SUFFICES ASSUME NEW x \in Want, held[x] \in open \ alt PROVE held[x] \in open'
        BY DEF Spared
      <4>1. held[x] # dconn[w] BY DEF OwnInv, OneHolder, OnePartyHas
      <4> QED BY <3>4, <4>1
    <3> QED BY <3>6, <3>7, <3>8, <3>9, <3>10 DEF OwnInv
  <2> QED BY <1>6, <2>2, <2>3 DEF DialCheck
<1>7. CASE DialPut(w) BY <1>7, DialPutOwn
<1> QED BY <1>2, <1>3, <1>4, <1>5, <1>6, <1>7 DEF DialStep

\* The steps of the server, the clock and the timers, and CloseIdleConnections
\* closing what it took.
LEMMA ConnStepOwn ==
    ASSUME PoolInv, OwnInv, NEW c \in Conn, ConnStep(c)
    PROVE  OwnInv' /\ Spared
<1> USE ConnIsNone
<1>d. DialKept(dial) BY DEF DialKept, PoolInv, TypeOK
<1>s. sweeping \/ sweep = {} BY DEF OwnInv, SweepOver
<1>1. CASE ServerClose(c)
  <2>1. /\ \A w \in Want : pc[w] = "using" => held[w] # c
        /\ UNCHANGED <<pc, held, result, dconn, born, alt, ckey, idleConn, idleLRU, sweep, sweeping>>
        /\ Close(c, dial, wdone)
    BY <1>1 DEF ServerClose, wantVars, sweepVars, idleVars
  <2>2. open' = open \ {c} /\ StartsOnly(dial) BY <1>d, <2>1, CloseStarts
  <2>3. \A w \in Want : dial'[w] \in {"check", "put"} <=> dial[w] \in {"check", "put"}
    BY <2>2 DEF StartsOnly
  <2>4. OwnInv' BY <1>s, <2>1, <2>3, OwnFrame
  <2>5. Spared BY <2>1, <2>2 DEF Spared
  <2> QED BY <2>4, <2>5
<1>2. CASE ReadLoopExit(c)
  <2>1. /\ RemoveIdleConn(c)
        /\ UNCHANGED <<pc, held, result, dial, dconn, open, born, alt, ckey, sweep, sweeping>>
    BY <1>2 DEF ReadLoopExit, wantVars, sweepVars, connVars
  <2>2. IdleListsWellFormed' /\ Idle' = Idle \ {c}
    BY <2>1, RemoveIdleLists DEF OwnInv, PoolInv
  <2>3. HoldersBorn' /\ HoldsWhile' /\ SweepOver'
    BY <2>1, <2>2 DEF OwnInv, HoldersBorn, HoldsWhile, SweepOver
  <2>4. OneHolder'
    <3> SUFFICES ASSUME NEW b \in born \ alt PROVE OnePartyHas(b)'
      BY <2>1 DEF OneHolder
    <3>1. NobodyGets(b) BY <2>1, <2>2 DEF NobodyGets
    <3> QED BY <3>1, NobodyGetsOne DEF OwnInv, OneHolder
  <2>5. Spared BY <2>1 DEF Spared
  <2> QED BY <2>2, <2>3, <2>4, <2>5 DEF OwnInv
<1>3. CASE Age(c) \/ TimerFires(c)
  <2>1. UNCHANGED <<pc, held, result, dial, dconn, open, born, alt, ckey, idleConn, idleLRU, sweep, sweeping>>
    BY <1>3 DEF Age, TimerFires, wantVars, idleVars, connVars, sweepVars
  <2>2. OwnInv' BY <1>s, <2>1, OwnFrame
  <2>3. Spared BY <2>1 DEF Spared
  <2> QED BY <2>2, <2>3
<1>4. CASE CloseConnIfStillIdle(c)
  <2>1. UNCHANGED <<pc, held, result, dconn, born, alt, ckey, sweep, sweeping>>
    BY <1>4 DEF CloseConnIfStillIdle, wantVars, sweepVars
  <2>2. CASE dial' = dial /\ UNCHANGED <<idleConn, idleLRU, open>>
    <3>1. OwnInv' BY <1>s, <2>1, <2>2, OwnFrame
    <3>2. Spared BY <2>2 DEF Spared
    <3> QED BY <3>1, <3>2
  <2>3. CASE c \in Idle /\ RemoveIdleConn(c) /\ Close(c, dial, wdone)
    <3>1. IdleListsWellFormed' /\ Idle' = Idle \ {c}
      BY <2>1, <2>3, RemoveIdleLists DEF OwnInv, PoolInv
    <3>2. open' = open \ {c} /\ StartsOnly(dial) BY <1>d, <2>3, CloseStarts
    <3>3. \A w \in Want : dial'[w] \in {"check", "put"} <=> dial[w] \in {"check", "put"}
      BY <3>2 DEF StartsOnly
    <3>4. HoldersBorn' /\ HoldsWhile' /\ SweepOver'
      BY <2>1, <3>1, <3>3 DEF OwnInv, HoldersBorn, HoldsWhile, SweepOver
    <3>5. OneHolder'
      <4> SUFFICES ASSUME NEW b \in born \ alt PROVE OnePartyHas(b)'
        BY <2>1 DEF OneHolder
      <4>1. NobodyGets(b) BY <2>1, <3>1 DEF NobodyGets
      <4> QED BY <4>1, NobodyGetsOne DEF OwnInv, OneHolder
    <3>6. Spared
      <4> SUFFICES ASSUME NEW x \in Want, held[x] \in open \ alt PROVE held[x] \in open'
        BY DEF Spared
      <4>1. held[x] # c BY <2>3 DEF OwnInv, OneHolder, OnePartyHas
      <4> QED BY <3>2, <4>1
    <3> QED BY <3>1, <3>4, <3>5, <3>6 DEF OwnInv
  <2> QED BY <1>4, <2>2, <2>3 DEF CloseConnIfStillIdle, Idle
<1>5. CASE SweepClose(c)
  <2>1. /\ sweeping /\ c \in sweep /\ sweep' = sweep \ {c} /\ Close(c, dial, wdone)
        /\ UNCHANGED <<pc, held, result, dconn, born, alt, ckey, idleConn, idleLRU, sweeping>>
    BY <1>5 DEF SweepClose, wantVars, idleVars
  <2>2. open' = open \ {c} /\ StartsOnly(dial) BY <1>d, <2>1, CloseStarts
  <2>3. \A w \in Want : dial'[w] \in {"check", "put"} <=> dial[w] \in {"check", "put"}
    BY <2>2 DEF StartsOnly
  <2>4. HoldersBorn' /\ HoldsWhile' /\ SweepOver'
    BY <2>1, <2>3 DEF OwnInv, HoldersBorn, HoldsWhile, SweepOver, Idle
  <2>5. OneHolder'
    <3> SUFFICES ASSUME NEW b \in born \ alt PROVE OnePartyHas(b)'
      BY <2>1 DEF OneHolder
    <3>1. NobodyGets(b) BY <2>1 DEF NobodyGets, Idle
    <3> QED BY <3>1, NobodyGetsOne DEF OwnInv, OneHolder
  <2>6. Spared
    <3> SUFFICES ASSUME NEW x \in Want, held[x] \in open \ alt PROVE held[x] \in open'
      BY DEF Spared
    <3>1. held[x] # c BY <2>1 DEF OwnInv, OneHolder, OnePartyHas
    <3> QED BY <2>2, <3>1
  <2>7. IdleListsWellFormed' BY <2>1 DEF OwnInv, IdleListsWellFormed
  <2> QED BY <2>4, <2>5, <2>6, <2>7 DEF OwnInv
<1> QED BY <1>1, <1>2, <1>3, <1>4, <1>5 DEF ConnStep

\* CloseIdleConnections takes the lists, and at its end cancels dials.
LEMMA SweepOwn ==
    ASSUME PoolInv, OwnInv, TakeIdle \/ CancelDials
    PROVE  OwnInv' /\ Spared
<1> USE ConnIsNone
<1>1. CASE TakeIdle
  <2>1. /\ ~sweeping /\ sweeping' = TRUE /\ sweep' = UNION {ToSet(idleConn[k]) : k \in Key}
        /\ idleConn' = [k \in Key |-> <<>>] /\ idleLRU' = <<>>
        /\ UNCHANGED <<pc, held, result, dial, dconn, open, born, alt, ckey>>
    BY <1>1 DEF TakeIdle, wantVars, connVars
  <2>2. sweep = {} BY <2>1 DEF OwnInv, SweepOver
  <2>3. IsInjective(<<>>) /\ ToSet(<<>>) = {} /\ Len(<<>>) = 0 BY DEF IsInjective, ToSet
  <2>4. sweep' \subseteq Idle
    <3>1. \A k \in Key : ToSet(idleConn[k]) \subseteq Idle BY ListByList DEF OwnInv, ListOK
    <3> QED BY <2>1, <3>1
  <2>5. Idle' = {} BY <2>1, <2>3 DEF Idle
  <2>6. IdleListsWellFormed'
    <3>1. 0 <= MaxIdleConns /\ 0 <= MaxIdleConnsPerHost BY PoolConstants
    <3>2. \A k \in Key : ListOK(k)' BY <2>1, <2>3, <3>1 DEF ListOK
    <3> QED BY <2>1, <2>3, <3>1, <3>2, ListByListNext
  <2>7. HoldersBorn' /\ HoldsWhile' /\ SweepOver'
    BY <2>1, <2>4, <2>5 DEF OwnInv, HoldersBorn, HoldsWhile, SweepOver
  <2>8. OneHolder'
    BY <2>1, <2>4, <2>5 DEF OwnInv, OneHolder, OnePartyHas
  <2>9. Spared BY <2>1 DEF Spared
  <2> QED BY <2>6, <2>7, <2>8, <2>9 DEF OwnInv
<1>2. CASE CancelDials
  <2>1. /\ sweep = {} /\ \A w \in Want : dial'[w] \in {"check", "put"} <=> dial[w] \in {"check", "put"}
        /\ UNCHANGED <<pc, held, result, dconn, open, born, alt, ckey, idleConn, idleLRU, sweep>>
    BY <1>2 DEF CancelDials, wantVars, idleVars, connVars
  <2>2. OwnInv' BY <2>1, OwnFrame
  <2>3. Spared BY <2>1 DEF Spared
  <2> QED BY <2>2, <2>3
<1> QED BY <1>1, <1>2

-----------------------------------------------------------------------------
(* The theorems.                                                           *)

\* In the empty pool nobody holds anything.
LEMMA OwnInvInit == Init => OwnInv
<1> SUFFICES ASSUME Init PROVE OwnInv OBVIOUS
<1>1. IsInjective(<<>>) /\ ToSet(<<>>) = {} /\ Len(<<>>) = 0 BY DEF IsInjective, ToSet
<1>2. 0 <= MaxIdleConns /\ 0 <= MaxIdleConnsPerHost BY PoolConstants
<1>3. \A k \in Key : ListOK(k) BY <1>1, <1>2 DEF ListOK, Init
<1>4. IdleListsWellFormed BY <1>1, <1>2, <1>3, ListByList DEF Init
<1>5. HoldersBorn /\ HoldsWhile /\ SweepOver BY <1>1 DEF HoldersBorn, HoldsWhile, SweepOver, Idle, Init
<1>6. OneHolder BY DEF OneHolder, Init
<1> QED BY <1>4, <1>5, <1>6 DEF OwnInv

\* Every step keeps the holders apart and spares the connections in use.
LEMMA OwnInvNext == PoolInv /\ OwnInv /\ [Next]_vars => OwnInv' /\ Spared
<1> SUFFICES ASSUME PoolInv, OwnInv, [Next]_vars PROVE OwnInv' /\ Spared OBVIOUS
<1>1. CASE \E w \in Want : WantStep(w) BY <1>1, WantStepOwn
<1>2. CASE \E w \in Want : DialStep(w) BY <1>2, DialStepOwn
<1>3. CASE \E c \in Conn : ConnStep(c) BY <1>3, ConnStepOwn
<1>4. CASE TakeIdle \/ CancelDials BY <1>4, SweepOwn
<1>5. CASE UNCHANGED vars
  <2>1. UNCHANGED <<pc, held, result, dial, dconn, open, born, alt, ckey, idleConn, idleLRU, sweep, sweeping>>
    BY <1>5 DEF vars, wantVars, idleVars, connVars, sweepVars
  <2>2. sweeping' \/ sweep = {} BY <2>1 DEF OwnInv, SweepOver
  <2>3. OwnInv' BY <2>1, <2>2, OwnFrame
  <2>4. Spared BY <2>1 DEF Spared
  <2> QED BY <2>3, <2>4
<1> QED BY <1>1, <1>2, <1>3, <1>4, <1>5 DEF Next

\* The ownership invariant holds in every reachable state of the pool.
THEOREM OwnInvariance == Spec => []OwnInv
BY PoolInvariance, OwnInvInit, OwnInvNext, PTL DEF Spec

\* At most one party can hand out, use or close an HTTP/1 connection: getConn never
\* gives one to two requests, whatever the order in which the dials, the returning
\* goroutines, the timers and CloseIdleConnections run.
THEOREM NeverShared == Spec => []ExclusiveHTTP1
<1>1. ASSUME PoolInv, OwnInv PROVE ExclusiveHTTP1
  <2> SUFFICES ASSUME NEW c \in open \ alt PROVE Cardinality(Holders(c)) <= 1
    BY DEF ExclusiveHTTP1
  <2>1. OnePartyHas(c) BY <1>1, ConnIsNone DEF OwnInv, OneHolder
  <2>2. ASSUME NEW a \in Holders(c), NEW b \in Holders(c) PROVE a = b
    <3>1. ASSUME NEW h \in Holders(c)
          PROVE  \/ \E w \in Want : h = <<"caller", w>> /\ held[w] = c
                 \/ \E w \in Want : h = <<"result", w>> /\ result[w] = c
                 \/ \E w \in Want : h = <<"dial", w>> /\ dconn[w] = c
                 \/ h = <<"idle", c>> /\ c \in Idle
                 \/ h = <<"sweep", c>> /\ c \in sweep
      BY DEF Holders, Idle
    <3> QED BY <2>1, <3>1 DEF OnePartyHas
  <2>3. CASE Holders(c) = {}
    <3>1. Cardinality(Holders(c)) = 0 BY <2>3, FS_EmptySet
    <3> QED BY <3>1
  <2>4. CASE Holders(c) # {}
    <3>1. PICK a : Holders(c) = {a} BY <2>2, <2>4
    <3>2. Cardinality(Holders(c)) = 1 BY <3>1, FS_Singleton
    <3> QED BY <3>2
  <2> QED BY <2>3, <2>4
<1> QED BY <1>1, PoolInvariance, OwnInvariance, PTL

\* The idle lists and the LRU hold each connection once and agree, within their
\* limits: the panics of tryPutIdleConn and of connLRU.add are out of reach.
THEOREM ListsWellFormed == Spec => []IdleListsWellFormed
<1>1. OwnInv => IdleListsWellFormed BY DEF OwnInv
<1> QED BY <1>1, OwnInvariance, PTL

\* Neither CloseIdleConnections nor an idle timer, an eviction or the return of
\* another connection closes an HTTP/1 connection that a request uses.
THEOREM PoolSparesInUse == Spec => InUseNotClosedByPool
<1>1. PoolInv /\ OwnInv /\ [Next]_vars
        => [\A w \in Want :
              /\ pc[w] = "using" /\ pc'[w] = "using"
              /\ held[w] \in open \ alt
              => held[w] \in open']_vars
  BY OwnInvNext DEF Spared
<1> QED BY <1>1, PoolInvariance, OwnInvariance, PTL DEF Spec, InUseNotClosedByPool

-----------------------------------------------------------------------------
(* ConnPool implements ConnLease.  A step of the pool is a slot step of    *)
(* ConnLease (decConnsPerHost frees a slot or passes it on, queueForDial   *)
(* takes one, a dial that succeeds turns its slot into the connection's)   *)
(* together with a lease step (getConn returns a connection, the exchange  *)
(* over it ends), or leaves either part alone.  That a slot passed on goes *)
(* to a call without one is PoolInv, and that a leased connection has no   *)
(* other lessee is OwnInv.                                                 *)

\* The refinement mapping of ConnPool!Leases.
SlotsNow == [k \in Key |-> DialSlots(k) \cup ConnSlots(k)]
LeaseNow == [w \in Want |-> IF pc[w] = "using" THEN held[w] ELSE None]

\* The two halves of ConnLease's next-state relation, read in the pool.
SlotMove  == Leases!SlotStep \/ UNCHANGED <<SlotsNow, born, alt>>
LeaseMove == Leases!LeaseStep \/ UNCHANGED LeaseNow

-----------------------------------------------------------------------------
(* Slots.                                                                  *)

\* The slots of a host, one by one.
LEMMA SlotsOf ==
    /\ DOMAIN SlotsNow = Key
    /\ \A k \in Key : SlotsNow[k] = DialSlots(k) \cup ConnSlots(k)
    /\ \A k \in Key : SlotsNow'[k] = DialSlots(k)' \cup ConnSlots(k)'
    /\ DOMAIN SlotsNow' = Key
BY DEF SlotsNow

\* A step that changes the slots of no host.
LEMMA SlotsSame ==
    ASSUME DialKept(dial'), UNCHANGED <<open, ckey, born, alt>>
    PROVE  SlotMove
<1>1. \A k \in Key : DialSlots(k)' = DialSlots(k) /\ ConnSlots(k)' = ConnSlots(k)
  BY DEF DialSlots, ConnSlots, DialKept, SlotDial
<1>2. SlotsNow' = SlotsNow BY <1>1 DEF SlotsNow
<1> QED BY <1>2 DEF SlotMove

\* A slot of host k given up by its holder t, and nothing else.
LEMMA SlotFreed ==
    ASSUME NEW k \in Key, NEW t \in Want \cup Conn, t \in SlotsNow[k],
           SlotsNow'[k] = SlotsNow[k] \ {t},
           \A j \in Key : j # k => SlotsNow'[j] = SlotsNow[j], UNCHANGED <<born, alt>>
    PROVE  SlotMove
<1>1. SlotsNow' = [SlotsNow EXCEPT ![k] = @ \ {t}] BY SlotsOf DEF SlotsNow
<1>2. Leases!FreeSlot(k, t) BY <1>1 DEF Leases!FreeSlot, SlotsNow
<1> QED BY <1>2 DEF SlotMove, Leases!SlotStep

\* A slot of its host passed by its holder t to the dial of w, which had none.
LEMMA SlotPassed ==
    ASSUME NEW w \in Want, NEW k \in Key, KeyOf[w] = k,
           NEW t \in Want \cup Conn, t \in SlotsNow[k], w \notin SlotsNow[k],
           SlotsNow'[k] = (SlotsNow[k] \ {t}) \cup {w},
           \A j \in Key : j # k => SlotsNow'[j] = SlotsNow[j], UNCHANGED <<born, alt>>
    PROVE  SlotMove
<1>1. SlotsNow' = [SlotsNow EXCEPT ![k] = (@ \ {t}) \cup {w}] BY SlotsOf DEF SlotsNow
<1>2. Leases!PassSlot(w, t) BY <1>1 DEF Leases!PassSlot, SlotsNow
<1> QED BY <1>2 DEF SlotMove, Leases!SlotStep

\* decConnsPerHost(k), when the caller has just ended the holder t of a slot of k.
LEMMA DecMoves ==
    ASSUME PoolInv, NEW k \in Key, NEW t \in Want \cup Conn, t \in SlotsNow[k],
           NEW d \in [Want -> DialPC], NEW done, DecConnsPerHost(k, d, done),
           \A w \in Want : d[w] = "none" <=> dial[w] = "none",
           \A j \in Key : DialSlotsOf(d, j) \cup ConnSlotsOf(open', ckey', j)
                            = IF j = k THEN SlotsNow[k] \ {t} ELSE SlotsNow[j],
           UNCHANGED <<born, alt>>
    PROVE  SlotMove
<1> DEFINE q    == connsPerHostWait[k]
           live == Positions(q, Waiting(done))
           w    == q[Min(live)]
<1>1. CASE dial' = d
  <2>1. \A j \in Key : SlotsNow'[j] = DialSlotsOf(d, j) \cup ConnSlotsOf(open', ckey', j)
    BY <1>1, SlotsOf DEF DialSlots, DialSlotsOf, ConnSlots, ConnSlotsOf, SlotDial
  <2> QED BY <2>1, SlotFreed
<1>2. CASE live # {} /\ dial' = [d EXCEPT ![w] = "start"]
  <2>1. q \in Seq(Want) BY DEF PoolInv, TypeOK
  <2>2. Min(live) \in DOMAIN q BY <1>2, <2>1, FirstPosition
  <2>3. w \in Want BY <2>1, <2>2
  <2>4. KeyOf[w] = k /\ dial[w] = "none" BY <2>2 DEF PoolInv, SlotInv, QueueWellFormed
  <2> HIDE DEF w, live, q
  <2>5. d[w] = "none" BY <2>3, <2>4
  <2>6. w \notin SlotsNow[k]
    <3>1. w \notin DialSlots(k) BY <2>4 DEF DialSlots
    <3>2. w \notin ConnSlots(k) BY <2>3, PoolConstants DEF ConnSlots, PoolInv, TypeOK
    <3> QED BY <3>1, <3>2, SlotsOf
  <2>7. /\ DialSlots(k)' = DialSlotsOf(d, k) \cup {w}
        /\ \A j \in Key : j # k => DialSlots(j)' = DialSlotsOf(d, j)
    BY <1>2, <2>3, <2>4, <2>5 DEF DialSlots, DialSlotsOf, SlotDial
  <2>8. \A j \in Key : ConnSlots(j)' = ConnSlotsOf(open', ckey', j)
    BY DEF ConnSlots, ConnSlotsOf
  <2>9. SlotsNow'[k] = (SlotsNow[k] \ {t}) \cup {w} BY <2>7, <2>8, SlotsOf
  <2>10. \A j \in Key : j # k => SlotsNow'[j] = SlotsNow[j] BY <2>7, <2>8, SlotsOf
  <2> QED BY <2>3, <2>4, <2>6, <2>9, <2>10, SlotPassed
<1> QED BY <1>1, <1>2 DEF DecConnsPerHost

\* close: the first call gives the connection's slot up.
LEMMA CloseMoves ==
    ASSUME PoolInv, NEW c, NEW d, DialKept(d), NEW done, Close(c, d, done),
           UNCHANGED <<born, alt, ckey>>
    PROVE  SlotMove
<1>1. CASE c \in open
  <2> DEFINE k == ckey[c]
  <2>1. open' = open \ {c} /\ DecConnsPerHost(k, d, done) BY <1>1 DEF Close
  <2>2. k \in Key /\ c \in Conn /\ open \subseteq Conn BY <1>1 DEF PoolInv, TypeOK
  <2>3. c \in SlotsNow[k] BY <1>1, <2>2, SlotsOf DEF ConnSlots
  <2>4. d \in [Want -> DialPC] /\ \A w \in Want : d[w] = "none" <=> dial[w] = "none" BY DEF DialKept
  <2>5. ASSUME NEW j \in Key
        PROVE  DialSlotsOf(d, j) \cup ConnSlotsOf(open', ckey', j)
                 = IF j = k THEN SlotsNow[k] \ {c} ELSE SlotsNow[j]
    <3>1. DialSlotsOf(d, j) = DialSlots(j) BY DEF DialSlotsOf, DialSlots, DialKept, SlotDial
    <3>2. ConnSlotsOf(open', ckey', j) = ConnSlots(j) \ {c} BY <2>1 DEF ConnSlotsOf, ConnSlots
    <3>3. c \notin DialSlots(j) BY <2>2, PoolConstants DEF DialSlots
    <3>4. j # k => c \notin ConnSlots(j) BY DEF ConnSlots
    <3>5. SlotsNow[j] = DialSlots(j) \cup ConnSlots(j) BY SlotsOf
    <3> HIDE DEF k
    <3> QED BY <3>1, <3>2, <3>3, <3>4, <3>5
  <2>6. c \in Want \cup Conn BY <2>2
  <2> HIDE DEF k
  <2>7. \A j \in Key : DialSlotsOf(d, j) \cup ConnSlotsOf(open', ckey', j)
                       = IF j = k THEN SlotsNow[k] \ {c} ELSE SlotsNow[j]
    BY <2>5
  <2> QED BY <2>1, <2>2, <2>3, <2>4, <2>6, <2>7, DecMoves
<1>2. CASE c \notin open
  <2>1. dial' = d /\ UNCHANGED open BY <1>2 DEF Close
  <2> QED BY <2>1, SlotsSame
<1> QED BY <1>1, <1>2

\* putOrCloseIdleConn closes one connection at most.
LEMMA PutSlotMoves ==
    ASSUME PoolInv, NEW c \in Conn, NEW d, DialKept(d), PutOrCloseIdleConn(c, d)
    PROVE  SlotMove
<1>u. UNCHANGED <<born, alt, ckey>> BY DEF PutOrCloseIdleConn
<1>1. CASE dial' = d /\ UNCHANGED open BY <1>1, <1>u, SlotsSame
<1>2. CASE \E o : Close(o, d, DoneAfter(c)) BY <1>2, <1>u, CloseMoves
<1>3. AddIdle(c, d) => (dial' = d /\ UNCHANGED open) \/ \E o : Close(o, d, DoneAfter(c))
  BY Zenon DEF AddIdle
<1> QED BY <1>1, <1>2, <1>3 DEF PutOrCloseIdleConn

\* queueForDial: a free slot is taken, or none.
LEMMA QueueForDialMoves ==
    ASSUME PoolInv, NEW w \in Want, QueueForDial(w)
    PROVE  SlotMove
<1> DEFINE k == KeyOf[w]
<1>1. /\ k \in Key /\ pc[w] = "dialq" /\ UNCHANGED <<open, ckey, born, alt>>
      /\ dial \in [Want -> DialPC] /\ connsPerHost[k] \in Nat /\ MaxConnsPerHost \in Nat
      /\ open \in SUBSET Conn
  BY PoolConstants DEF QueueForDial, connVars, PoolInv, TypeOK
<1>2. dial[w] = "none" BY <1>1 DEF PoolInv, SlotInv, EnteringHasNoDial, Entering
<1>3. CASE UNCHANGED dial
  <2>1. DialKept(dial') BY <1>1, <1>3 DEF DialKept
  <2> QED BY <1>1, <2>1, SlotsSame
<1>4. CASE /\ MaxConnsPerHost = 0 \/ connsPerHost[k] < MaxConnsPerHost
           /\ dial' = [dial EXCEPT ![w] = "start"]
  <2>1. w \notin SlotsNow[k]
    <3>1. w \notin DialSlots(k) BY <1>2 DEF DialSlots
    <3>2. w \notin ConnSlots(k) BY <1>1, PoolConstants DEF ConnSlots
    <3> QED BY <1>1, <3>1, <3>2, SlotsOf
  <2>2. \A j \in Key : DialSlots(j)' = (IF j = k THEN DialSlots(j) \cup {w} ELSE DialSlots(j))
                       /\ ConnSlots(j)' = ConnSlots(j)
    BY <1>1, <1>2, <1>4 DEF DialSlots, ConnSlots
  <2>3. SlotsNow' = [SlotsNow EXCEPT ![k] = @ \cup {w}] BY <1>1, <2>2 DEF SlotsNow
  <2>4. MaxConnsPerHost # 0 => Cardinality(SlotsNow[k]) < MaxConnsPerHost
    <3> SUFFICES ASSUME MaxConnsPerHost # 0 PROVE Cardinality(SlotsNow[k]) < MaxConnsPerHost
      OBVIOUS
    <3> DEFINE A == DialSlots(k)
               B == ConnSlots(k)
    <3>1. A = DialSlotsOf(dial, k) /\ B = ConnSlotsOf(open, ckey, k)
      BY DEF DialSlots, ConnSlots, DialSlotsOf, ConnSlotsOf, SlotDial
    <3>2. IsFiniteSet(A) /\ IsFiniteSet(B) /\ Cardinality(A) \in Nat /\ Cardinality(B) \in Nat
      BY <1>1, <3>1, SlotsFinite
    <3>3. connsPerHost[k] = Cardinality(A) + Cardinality(B)
      BY <1>1 DEF PoolInv, SlotInv, SlotsExact
    <3>4. SlotsNow[k] = A \cup B BY <1>1, SlotsOf
    <3> HIDE DEF A, B
    <3>5. /\ Cardinality(A \cup B) = Cardinality(A) + Cardinality(B) - Cardinality(A \cap B)
          /\ Cardinality(A \cap B) \in Nat
      <4>1. IsFiniteSet(A \cap B) BY <3>2, FS_Intersection
      <4> QED BY <3>2, <4>1, FS_Union, FS_CardinalityType
    <3>6. connsPerHost[k] < MaxConnsPerHost BY <1>4
    <3> QED BY <1>1, <3>2, <3>3, <3>4, <3>5, <3>6
  <2>5. Leases!TakeSlot(w)
    <3>1. UNCHANGED <<born, alt>> BY <1>1
    <3>2. \A S : Leases!Cardinality(S) = Cardinality(S) BY Zenon DEF Leases!Cardinality, Cardinality
    <3> QED BY <2>1, <2>3, <2>4, <3>1, <3>2, Zenon DEF Leases!TakeSlot, SlotsNow
  <2> QED BY <2>5 DEF SlotMove, Leases!SlotStep
<1> QED BY <1>3, <1>4 DEF QueueForDial

\* A dial that succeeds: its slot becomes the connection's.
LEMMA DialSucceedMoves ==
    ASSUME PoolInv, OwnInv, NEW w \in Want, NEW c \in Conn, NEW a \in BOOLEAN, DialSucceed(w, c, a)
    PROVE  SlotMove
<1> DEFINE k == KeyOf[w]
<1>1. /\ dial[w] \in {"dialing", "cancelled"} /\ c \notin born
      /\ born' = born \cup {c} /\ open' = open \cup {c} /\ alt' \in {alt, alt \cup {c}}
      /\ ckey' = [ckey EXCEPT ![c] = k]
      /\ \E e \in {"check", "done"} : dial' = [dial EXCEPT ![w] = e]
  BY DEF DialSucceed
<1>2. k \in Key /\ open \subseteq born /\ c \notin open /\ open \subseteq Conn
      /\ DOMAIN ckey = Conn /\ DOMAIN dial = Want
  BY <1>1, PoolConstants DEF PoolInv, TypeOK
<1>3. \A j \in Key : /\ DialSlots(j)' = DialSlots(j) \ {w}
                     /\ j # k => w \notin DialSlots(j)
  BY <1>1, <1>2 DEF DialSlots
<1>4. \A j \in Key : ConnSlots(j)' = (IF j = k THEN ConnSlots(j) \cup {c} ELSE ConnSlots(j))
  BY <1>1, <1>2 DEF ConnSlots
<1>5. w \in SlotsNow[k] /\ \A j \in Key : w \notin ConnSlots(j)
  <2>1. w \in DialSlots(k) BY <1>1 DEF DialSlots
  <2>2. \A j \in Key : w \notin ConnSlots(j) BY <1>2, PoolConstants DEF ConnSlots
  <2> QED BY <1>2, <2>1, <2>2, SlotsOf
<1>6. \A j \in Key : SlotsNow'[j] = (IF j = k THEN (SlotsNow[j] \ {w}) \cup {c} ELSE SlotsNow[j])
  <2> SUFFICES ASSUME NEW j \in Key
               PROVE  SlotsNow'[j] = (IF j = k THEN (SlotsNow[j] \ {w}) \cup {c} ELSE SlotsNow[j])
    OBVIOUS
  <2>1. /\ SlotsNow[j] = DialSlots(j) \cup ConnSlots(j)
        /\ SlotsNow'[j] = DialSlots(j)' \cup ConnSlots(j)'
    BY SlotsOf
  <2> HIDE DEF k
  <2> QED BY <1>3, <1>4, <1>5, <2>1
<1>7. SlotsNow' = [SlotsNow EXCEPT ![k] = (@ \ {w}) \cup {c}] BY <1>2, <1>6, SlotsOf DEF SlotsNow
<1>8. Leases!Establish(w, c) BY <1>1, <1>5, <1>7 DEF Leases!Establish, SlotsNow
<1> QED BY <1>8 DEF SlotMove, Leases!SlotStep

\* Every step of the pool is a slot step of ConnLease or leaves the slots alone.
LEMMA SlotsRefined ==
    ASSUME PoolInv, OwnInv, Next
    PROVE  SlotMove
<1> USE ConnIsNone
<1>d. DialKept(dial) BY DEF DialKept, PoolInv, TypeOK
<1>1. ASSUME NEW w \in Want, WantStep(w) PROVE SlotMove
  <2>1. CASE GetIdle(w) \/ QueueForIdle(w) \/ Receive(w) \/ Cancel(w) \/ UseEndsAlt(w)
    <3>1. UNCHANGED <<dial, open, ckey, born, alt>>
      BY <2>1 DEF GetIdle, QueueForIdle, Receive, Cancel, UseEndsAlt, connVars
    <3> QED BY <1>d, <3>1, SlotsSame
  <2>2. CASE QueueForDial(w) BY <2>2, QueueForDialMoves
  <2>3. CASE CancelCheck(w) \/ UseFails(w)
    <3>1. UNCHANGED <<born, alt, ckey>> BY <2>3 DEF CancelCheck, UseFails
    <3>2. CASE UNCHANGED <<dial, open>> BY <1>d, <3>1, <3>2, SlotsSame
    <3>3. CASE Close(held[w], dial, wdone) BY <1>d, <3>1, <3>3, CloseMoves
    <3> QED BY <2>3, <3>2, <3>3 DEF CancelCheck, UseFails
  <2>4. CASE CancelPut(w) \/ UseEnds(w)
    <3>1. PutOrCloseIdleConn(held[w], dial) /\ pc[w] \in {"using", "put"}
      BY <2>4 DEF CancelPut, UseEnds
    <3>2. held[w] \in Conn BY <3>1 DEF OwnInv, HoldsWhile
    <3> QED BY <1>d, <3>1, <3>2, PutSlotMoves
  <2> QED BY <1>1, <2>1, <2>2, <2>3, <2>4 DEF WantStep
<1>2. ASSUME NEW w \in Want, DialStep(w) PROVE SlotMove
  <2> DEFINE d == [dial EXCEPT ![w] = "done"]
             k == KeyOf[w]
  <2>d. d \in [Want -> DialPC] /\ k \in Key BY PoolConstants DEF PoolInv, TypeOK, DialPC
  <2>1. ASSUME dial[w] \in {"start", "dec"}, DecConnsPerHost(k, d, wdone),
               UNCHANGED <<born, alt, ckey, open>>
        PROVE  SlotMove
    <3>1. w \in DialSlots(k) BY <2>1 DEF DialSlots
    <3>2. w \in SlotsNow[k] BY <2>d, <3>1, SlotsOf
    <3>3. \A x \in Want : d[x] = "none" <=> dial[x] = "none" BY <2>1
    <3>4. ASSUME NEW j \in Key
          PROVE  DialSlotsOf(d, j) \cup ConnSlotsOf(open', ckey', j)
                   = IF j = k THEN SlotsNow[k] \ {w} ELSE SlotsNow[j]
      <4>1. DialSlotsOf(d, j) = DialSlots(j) \ {w} BY DEF DialSlotsOf, DialSlots, SlotDial
      <4>2. ConnSlotsOf(open', ckey', j) = ConnSlots(j) BY <2>1 DEF ConnSlotsOf, ConnSlots
      <4>3. w \notin ConnSlots(j) BY PoolConstants DEF ConnSlots
      <4>4. j # k => w \notin DialSlots(j) BY DEF DialSlots
      <4>5. SlotsNow[j] = DialSlots(j) \cup ConnSlots(j) BY SlotsOf
      <4> HIDE DEF k, d
      <4> QED BY <4>1, <4>2, <4>3, <4>4, <4>5
    <3>5. w \in Want \cup Conn /\ UNCHANGED <<born, alt>> BY <2>1
    <3> HIDE DEF k, d
    <3>6. \A j \in Key : DialSlotsOf(d, j) \cup ConnSlotsOf(open', ckey', j)
                           = IF j = k THEN SlotsNow[k] \ {w} ELSE SlotsNow[j]
      BY <3>4
    <3> QED BY <2>1, <2>d, <3>2, <3>3, <3>5, <3>6, DecMoves
  <2>2. CASE DialStart(w)
    <3>1. dial[w] = "start" /\ UNCHANGED <<open, born, alt, ckey>> BY <2>2 DEF DialStart, connVars
    <3>2. CASE dial' = [dial EXCEPT ![w] = "dialing"]
      <4>1. DialKept(dial') BY <3>1, <3>2 DEF DialKept, PoolInv, TypeOK, DialPC, SlotDial
      <4> QED BY <3>1, <4>1, SlotsSame
    <3> QED BY <2>1, <2>2, <3>1, <3>2 DEF DialStart
  <2>3. CASE DialDec(w) BY <2>1, <2>3 DEF DialDec, connVars
  <2>4. CASE DialFail(w)
    <3>1. /\ dial[w] \in {"dialing", "cancelled"} /\ dial' = [dial EXCEPT ![w] = "dec"]
          /\ UNCHANGED <<open, born, alt, ckey>>
      BY <2>4 DEF DialFail, connVars
    <3>2. DialKept(dial') BY <3>1 DEF DialKept, PoolInv, TypeOK, DialPC, SlotDial
    <3> QED BY <3>1, <3>2, SlotsSame
  <2>5. CASE \E c \in Conn, a \in BOOLEAN : DialSucceed(w, c, a) BY <2>5, DialSucceedMoves
  <2>6. CASE DialCheck(w)
    <3>1. dial[w] = "check" /\ UNCHANGED <<born, alt, ckey>> BY <2>6 DEF DialCheck
    <3>2. CASE dial' = [dial EXCEPT ![w] = "put"] /\ UNCHANGED open
      <4>1. DialKept(dial') BY <3>1, <3>2 DEF DialKept, PoolInv, TypeOK, DialPC, SlotDial
      <4> QED BY <3>1, <3>2, <4>1, SlotsSame
    <3>3. CASE Close(dconn[w], d, wdone)
      <4>1. DialKept(d) BY <3>1 DEF DialKept, PoolInv, TypeOK, DialPC, SlotDial
      <4> HIDE DEF d
      <4> QED BY <3>1, <3>3, <4>1, CloseMoves
    <3> QED BY <2>6, <3>2, <3>3 DEF DialCheck
  <2>7. CASE DialPut(w)
    <3>1. dial[w] = "put" /\ PutOrCloseIdleConn(dconn[w], d) BY <2>7 DEF DialPut
    <3>2. dconn[w] \in Conn BY <3>1 DEF OwnInv, HoldsWhile
    <3>3. DialKept(d) BY <3>1 DEF DialKept, PoolInv, TypeOK, DialPC, SlotDial
    <3> HIDE DEF d
    <3> QED BY <3>1, <3>2, <3>3, PutSlotMoves
  <2> QED BY <1>2, <2>2, <2>3, <2>4, <2>5, <2>6, <2>7 DEF DialStep
<1>3. ASSUME NEW c \in Conn, ConnStep(c) PROVE SlotMove
  <2>1. UNCHANGED <<born, alt, ckey>>
    BY <1>3 DEF ConnStep, ServerClose, ReadLoopExit, Age, TimerFires, CloseConnIfStillIdle, SweepClose,
                connVars
  <2>2. CASE UNCHANGED <<dial, open>> BY <1>d, <2>1, <2>2, SlotsSame
  <2>3. CASE Close(c, dial, wdone) BY <1>d, <2>1, <2>3, CloseMoves
  <2> QED BY <1>3, <2>2, <2>3
          DEF ConnStep, ServerClose, ReadLoopExit, Age, TimerFires, CloseConnIfStillIdle, SweepClose,
              connVars
<1>4. CASE TakeIdle BY <1>4, <1>d, SlotsSame DEF TakeIdle, connVars
<1>5. CASE CancelDials
  <2>1. DialKept(dial') BY <1>5 DEF CancelDials, DialKept, PoolInv, TypeOK, DialPC, SlotDial
  <2> QED BY <1>5, <2>1, SlotsSame DEF CancelDials, connVars
<1> QED BY <1>1, <1>2, <1>3, <1>4, <1>5 DEF Next

-----------------------------------------------------------------------------
(* Leases.                                                                 *)

\* A step after which the same calls use the same connections.
LEMMA LeasesSame ==
    ASSUME \A w \in Want : /\ pc'[w] = "using" <=> pc[w] = "using"
                           /\ pc[w] = "using" => held'[w] = held[w]
    PROVE  LeaseMove
<1>1. LeaseNow' = LeaseNow BY DEF LeaseNow
<1> QED BY <1>1 DEF LeaseMove

\* getConn returns a connection that no other call has a lease of, unless it is
\* shared.
LEMMA ReceiveLeases ==
    ASSUME PoolInv, OwnInv, NEW w \in Want, Receive(w), result[w] # Err
    PROVE  LeaseMove
<1> USE ConnIsNone
<1>0. result[w] \in Conn BY DEF Receive
<1>1. PICK c \in Conn : c = result[w] BY <1>0
<1>2. /\ pc[w] = "wait" /\ pc' = [pc EXCEPT ![w] = "using"]
      /\ held' = [held EXCEPT ![w] = c] /\ c \in born
  BY <1>1 DEF Receive
<1>3. LeaseNow[w] = None BY <1>2 DEF LeaseNow
<1>4. c \in alt \/ \A x \in Want : LeaseNow[x] # c
  <2> SUFFICES ASSUME c \notin alt, NEW x \in Want PROVE LeaseNow[x] # c OBVIOUS
  <2>1. held[x] # c BY <1>1, <1>2 DEF OwnInv, OneHolder, OnePartyHas
  <2> QED BY <1>2, <2>1 DEF LeaseNow
<1>5. LeaseNow' = [LeaseNow EXCEPT ![w] = c] BY <1>2 DEF LeaseNow
<1>6. Leases!Lease(w, c) BY <1>2, <1>3, <1>4, <1>5, Zenon DEF Leases!Lease, LeaseNow
<1>7. Leases!LeaseStep BY <1>6 DEF Leases!LeaseStep
<1> QED BY <1>7 DEF LeaseMove

\* The exchange ends, and the lease with it.
LEMMA UseEndsLease ==
    ASSUME PoolInv, OwnInv, NEW w \in Want, pc[w] = "using", pc' = [pc EXCEPT ![w] = "over"],
           held' = [held EXCEPT ![w] = None]
    PROVE  LeaseMove
<1> USE ConnIsNone
<1>1. LeaseNow[w] # None BY DEF LeaseNow, OwnInv, HoldsWhile
<1>2. LeaseNow' = [LeaseNow EXCEPT ![w] = None] BY DEF LeaseNow
<1>3. Leases!EndLease(w) BY <1>1, <1>2, Zenon DEF Leases!EndLease, LeaseNow
<1> QED BY <1>3 DEF LeaseMove, Leases!LeaseStep

\* Every step of the pool is a lease step of ConnLease or leaves the leases alone.
LEMMA LeasesRefined ==
    ASSUME PoolInv, OwnInv, Next
    PROVE  LeaseMove
<1> USE ConnIsNone
<1>1. ASSUME NEW w \in Want, WantStep(w) PROVE LeaseMove
  <2>1. CASE GetIdle(w) \/ QueueForIdle(w) \/ QueueForDial(w)
    <3>1. /\ pc[w] \in {"new", "dialq"} /\ UNCHANGED held
          /\ \E e \in {"wait", "dialq"} : pc' = [pc EXCEPT ![w] = e]
      BY <2>1 DEF GetIdle, QueueForIdle, QueueForDial
    <3> QED BY <3>1, LeasesSame
  <2>2. CASE Receive(w) /\ result[w] # Err BY <2>2, ReceiveLeases
  <2>3. CASE Receive(w) /\ result[w] = Err
    <3>1. pc[w] = "wait" /\ UNCHANGED held /\ pc' = [pc EXCEPT ![w] = "failed"] BY <2>3 DEF Receive
    <3> QED BY <3>1, LeasesSame
  <2>4. CASE Cancel(w) \/ CancelCheck(w) \/ CancelPut(w)
    <3>1. /\ pc[w] \in {"wait", "check", "put"}
          /\ \E e \in {"failed", "check", "put"} : pc' = [pc EXCEPT ![w] = e]
          /\ \/ UNCHANGED held \/ \E h : held' = [held EXCEPT ![w] = h]
      BY <2>4 DEF Cancel, CancelCheck, CancelPut
    <3> QED BY <3>1, LeasesSame
  <2>5. CASE UseEnds(w) \/ UseFails(w) \/ UseEndsAlt(w)
    BY <2>5, UseEndsLease DEF UseEnds, UseFails, UseEndsAlt
  <2> QED BY <1>1, <2>1, <2>2, <2>3, <2>4, <2>5 DEF WantStep
<1>2. ASSUME UNCHANGED <<pc, held>> PROVE LeaseMove BY <1>2, LeasesSame
<1>3. ASSUME NEW w \in Want, DialStep(w) PROVE LeaseMove
  <2>1. UNCHANGED <<pc, held>>
    BY <1>3 DEF DialStep, DialStart, DialFail, DialDec, DialSucceed, DialCheck, DialPut, wantVars
  <2> QED BY <1>2, <2>1
<1>4. ASSUME NEW c \in Conn, ConnStep(c) PROVE LeaseMove
  <2>1. UNCHANGED <<pc, held>>
    BY <1>4 DEF ConnStep, ServerClose, ReadLoopExit, Age, TimerFires, CloseConnIfStillIdle, SweepClose,
                wantVars
  <2> QED BY <1>2, <2>1
<1>5. CASE TakeIdle \/ CancelDials BY <1>2, <1>5 DEF TakeIdle, CancelDials, wantVars
<1> QED BY <1>1, <1>3, <1>4, <1>5 DEF Next

-----------------------------------------------------------------------------
(* The refinement.                                                         *)

\* The empty pool is an initial state of ConnLease.
LEMMA LeaseInitRefined == Init => Leases!LeaseInit
<1> SUFFICES ASSUME Init PROVE Leases!LeaseInit OBVIOUS
<1>1. \A k \in Key : DialSlots(k) = {} /\ ConnSlots(k) = {} BY DEF Init, DialSlots, ConnSlots
<1>2. SlotsNow = [k \in Key |-> {}] BY <1>1 DEF SlotsNow
<1>3. LeaseNow = [w \in Want |-> None] BY DEF Init, LeaseNow
<1>4. born = {} /\ alt = {} BY DEF Init
<1> QED BY <1>2, <1>3, <1>4, Zenon DEF Leases!LeaseInit, SlotsNow, LeaseNow

\* Every step of the pool is a step of ConnLease, or one that its callers do not
\* see.
LEMMA LeaseNextRefined ==
    PoolInv /\ OwnInv /\ [Next]_vars => [Leases!LeaseNext]_(Leases!leaseVars)
<1> SUFFICES ASSUME PoolInv, OwnInv, [Next]_vars PROVE [Leases!LeaseNext]_(Leases!leaseVars)
  OBVIOUS
<1>1. CASE Next
  <2>1. SlotMove /\ LeaseMove BY <1>1, SlotsRefined, LeasesRefined
  <2> QED BY <2>1, Zenon DEF Leases!LeaseNext, SlotMove, LeaseMove, SlotsNow, LeaseNow
<1>2. CASE UNCHANGED vars
  <2>1. UNCHANGED <<pc, held, dial, open, ckey, born, alt>>
    BY <1>2 DEF vars, wantVars, connVars
  <2>2. SlotsNow' = SlotsNow BY <2>1 DEF SlotsNow, DialSlots, ConnSlots
  <2>3. LeaseNow' = LeaseNow BY <2>1 DEF LeaseNow
  <2>4. born' = born /\ alt' = alt BY <2>1
  <2> QED BY <2>2, <2>3, <2>4, Zenon DEF Leases!leaseVars, SlotsNow, LeaseNow
<1> QED BY <1>1, <1>2

\* Whatever the order of its goroutines, the pool keeps the promise of ConnLease:
\* at most MaxConnsPerHost slots of a host are taken, each passed on, freed or
\* turned into a connection once, and an HTTP/1 connection is leased to one call.
THEOREM PoolKeepsLeases == Spec => ImplementsConnLease
BY LeaseInitRefined, LeaseNextRefined, PoolInvariance, OwnInvariance, PTL
   DEF Spec, ImplementsConnLease, Leases!LeaseSpec

-----------------------------------------------------------------------------
(* Nobody queues in vain: no slot is free while a call queues for one, no  *)
(* connection is idle while a call waits for one, and every dial under way *)
(* is in dialsInProgress, so CloseIdleConnections finds it.                *)
(*                                                                         *)
(* Both queues are cleaned lazily: they hold calls that no longer wait,    *)
(* anywhere in them.  The invariants are kept because a call that was      *)
(* delivered to or cancelled never waits again (DoneStays), and because    *)
(* what the queue is cleaned of is always a prefix.                        *)

\* Without a limit nobody queues for a slot.
NoQueueUnlimited == MaxConnsPerHost = 0 => \A k \in Key : connsPerHostWait[k] = <<>>

\* Every dial goroutine under way is in dialsInProgress.
DialsTracked == \A w \in Want : dial[w] \notin {"none", "done"} => w \in ToSet(dialsInProgress)

SlotQueues == NoQueueUnlimited /\ NoFreeSlotWhileQueued

QueueInv == SlotQueues /\ NoIdleConnWhileAwaited /\ DialsTracked

\* A wantConn that is done stays done.
DoneStays == \A w \in Want : wdone[w] => wdone'[w]

\* No dial under way appears that was not under way.
NoDialAppears(d) == \A w \in Want : d[w] \notin {"none", "done"} => dial[w] \notin {"none", "done"}

-----------------------------------------------------------------------------
(* Steps that leave a queue alone.                                         *)

\* A step that leaves the slots of the hosts and their queues alone.
LEMMA SlotQueuesFrame ==
    ASSUME PoolInv, SlotQueues, DoneStays, UNCHANGED <<connsPerHost, connsPerHostWait>>
    PROVE  SlotQueues'
<1>1. \A k \in Key : \A i \in DOMAIN connsPerHostWait[k] : connsPerHostWait[k][i] \in Want
  BY DEF PoolInv, TypeOK
<1>2. NoFreeSlotWhileQueued'
  BY <1>1 DEF SlotQueues, NoFreeSlotWhileQueued, DoneStays
<1> QED BY <1>2 DEF SlotQueues, NoQueueUnlimited

\* A step that leaves idleConnWait alone and fills no empty list.
LEMMA IdleWaitFrame ==
    ASSUME PoolInv, NoIdleConnWhileAwaited, DoneStays, UNCHANGED idleConnWait,
           \A k \in Key : idleConn[k] = <<>> => idleConn'[k] = <<>>
    PROVE  NoIdleConnWhileAwaited'
<1>1. \A k \in Key : \A i \in DOMAIN idleConnWait[k] : idleConnWait[k][i] \in Want
  BY DEF PoolInv, TypeOK
<1> QED BY <1>1 DEF NoIdleConnWhileAwaited, DoneStays

\* A step that starts no dial.
LEMMA TrackedFrame ==
    ASSUME DialsTracked, NoDialAppears(dial'), UNCHANGED dialsInProgress
    PROVE  DialsTracked'
BY DEF DialsTracked, NoDialAppears

\* A step that changes none of this.
LEMMA QueueFrame ==
    ASSUME PoolInv, QueueInv, DoneStays, NoDialAppears(dial'),
           UNCHANGED <<connsPerHost, connsPerHostWait, dialsInProgress, idleConnWait>>,
           \A k \in Key : idleConn[k] = <<>> => idleConn'[k] = <<>>
    PROVE  QueueInv'
BY SlotQueuesFrame, IdleWaitFrame, TrackedFrame DEF QueueInv

-----------------------------------------------------------------------------
(* dialsInProgress.                                                        *)

\* Cleaning the front of a queue loses no element of S.
LEMMA DropUntilKeeps ==
    ASSUME NEW T, NEW q \in Seq(T), NEW S, NEW e \in ToSet(q), e \in S
    PROVE  e \in ToSet(DropUntil(q, S))
<1> DEFINE at == Positions(q, S)
           m  == Min(at)
<1>1. PICK i \in DOMAIN q : q[i] = e BY DEF ToSet
<1>2. i \in at BY <1>1 DEF Positions
<1>3. m \in at /\ m <= i /\ m \in DOMAIN q
  <2>1. at \in SUBSET Nat /\ at \subseteq DOMAIN q BY DEF Positions
  <2> HIDE DEF at
  <2> QED BY <1>2, <2>1, MinOf
<1>4. DropUntil(q, S) = SubSeq(q, m, Len(q)) BY <1>2 DEF DropUntil
<1>5. m \in Nat \ {0} /\ m <= Len(q) /\ i \in 1..Len(q) /\ Len(q) \in Nat BY <1>1, <1>3
<1> HIDE DEF m, at
<1>6. /\ DOMAIN SubSeq(q, (m - 1) + 1, Len(q)) = 1..(Len(q) - (m - 1))
      /\ \A j \in 1..(Len(q) - (m - 1)) : SubSeq(q, (m - 1) + 1, Len(q))[j] = q[j + (m - 1)]
  <2>1. m - 1 \in Nat /\ m - 1 <= Len(q) BY <1>5
  <2> QED BY <2>1, Suffix
<1>7. (m - 1) + 1 = m /\ i - (m - 1) \in 1..(Len(q) - (m - 1)) /\ (i - (m - 1)) + (m - 1) = i
  BY <1>3, <1>5
<1>8. SubSeq(q, m, Len(q))[i - (m - 1)] = e /\ i - (m - 1) \in DOMAIN SubSeq(q, m, Len(q))
  BY <1>1, <1>6, <1>7
<1> QED BY <1>4, <1>8 DEF ToSet

\* startDialConnForLocked: the new dial is tracked, and every dial under way still
\* is.
LEMMA TrackDialKeeps ==
    ASSUME PoolInv, DialsTracked, NEW w \in Want
    PROVE  /\ w \in ToSet(TrackDial(w))
           /\ \A x \in Want : dial[x] \notin {"none", "done"} => x \in ToSet(TrackDial(w))
<1> DEFINE S == {x \in Want : dial[x] # "done"}
           r == DropUntil(dialsInProgress, S)
<1>1. dialsInProgress \in Seq(Want) BY DEF PoolInv, TypeOK
<1>2. r \in Seq(Want) BY <1>1, DropUntilType
<1>3. \A x \in Want : dial[x] \notin {"none", "done"} => x \in ToSet(r)
  <2> SUFFICES ASSUME NEW x \in Want, dial[x] \notin {"none", "done"} PROVE x \in ToSet(r)
    OBVIOUS
  <2>1. x \in ToSet(dialsInProgress) /\ x \in S BY DEF DialsTracked
  <2> HIDE DEF S
  <2> QED BY <1>1, <2>1, DropUntilKeeps
<1>4. TrackDial(w) = Append(r, w) BY DEF TrackDial
<1> HIDE DEF r, S
<1>5. /\ DOMAIN Append(r, w) = 1..(Len(r) + 1) /\ DOMAIN r = 1..Len(r) /\ Len(r) \in Nat
      /\ \A i \in 1..Len(r) : Append(r, w)[i] = r[i]
      /\ Append(r, w)[Len(r) + 1] = w
  BY <1>2
<1>6. Len(r) + 1 \in 1..(Len(r) + 1) /\ 1..Len(r) \subseteq 1..(Len(r) + 1) BY <1>5
<1>7. ToSet(r) \subseteq ToSet(Append(r, w)) /\ w \in ToSet(Append(r, w)) BY <1>5, <1>6 DEF ToSet
<1> QED BY <1>3, <1>4, <1>7

-----------------------------------------------------------------------------
(* decConnsPerHost, close and putOrCloseIdleConn.                          *)

\* decConnsPerHost(k): the slot goes to the first call that waits, or nobody does.
LEMMA DecQueues ==
    ASSUME PoolInv, SlotQueues, DialsTracked, DoneStays, NEW k \in Key,
           NEW d \in [Want -> DialPC], NoDialAppears(d),
           NEW done, \A w \in Want : done[w] => wdone'[w],
           DecConnsPerHost(k, d, done)
    PROVE  SlotQueues' /\ DialsTracked'
<1> DEFINE q    == connsPerHostWait[k]
           live == Positions(q, Waiting(done))
           w    == q[Min(live)]
<1>q. q \in Seq(Want) BY DEF PoolInv, TypeOK
<1>w. \A j \in Key : \A i \in DOMAIN connsPerHostWait[j] : connsPerHostWait[j][i] \in Want
  BY DEF PoolInv, TypeOK
<1>1. CASE MaxConnsPerHost = 0
  <2>1. dial' = d /\ UNCHANGED countVars BY <1>1 DEF DecConnsPerHost
  <2> QED BY <2>1, SlotQueuesFrame, TrackedFrame DEF countVars
<1>2. CASE MaxConnsPerHost # 0 /\ live # {}
  <2>1. /\ dial' = [d EXCEPT ![w] = "start"] /\ dialsInProgress' = TrackDial(w)
        /\ connsPerHostWait' = [connsPerHostWait EXCEPT ![k] = SubSeq(q, Min(live) + 1, Len(q))]
        /\ UNCHANGED connsPerHost
    BY <1>2 DEF DecConnsPerHost
  <2>2. Min(live) \in DOMAIN q /\ w \in Want BY <1>2, <1>q, FirstPosition
  <2> DEFINE m == Min(live)
             r == SubSeq(q, m + 1, Len(q))
  <2>3. m \in Nat /\ m <= Len(q) BY <1>q, <2>2
  <2> HIDE DEF m, live
  <2>4. DOMAIN r = 1..(Len(q) - m) /\ \A i \in 1..(Len(q) - m) : r[i] = q[i + m] /\ i + m \in DOMAIN q
    BY <1>q, <2>3, Suffix
  <2>5. connsPerHostWait'[k] = r /\ \A j \in Key : j # k => connsPerHostWait'[j] = connsPerHostWait[j]
    BY <2>1 DEF m, PoolInv, TypeOK
  <2>6. \A j \in Key : \A i \in DOMAIN connsPerHostWait'[j] :
          \E l \in DOMAIN connsPerHostWait[j] : connsPerHostWait'[j][i] = connsPerHostWait[j][l]
    BY <2>4, <2>5
  <2> HIDE DEF r, w, q
  <2>7. NoFreeSlotWhileQueued'
    <3> SUFFICES ASSUME NEW j \in Key, NEW i \in DOMAIN connsPerHostWait'[j],
                        ~wdone'[connsPerHostWait'[j][i]]
                 PROVE  connsPerHost'[j] = MaxConnsPerHost
      BY DEF NoFreeSlotWhileQueued
    <3>1. PICK l \in DOMAIN connsPerHostWait[j] : connsPerHostWait'[j][i] = connsPerHostWait[j][l]
      BY <2>6
    <3>2. ~wdone[connsPerHostWait[j][l]] BY <1>w, <3>1 DEF DoneStays
    <3> QED BY <2>1, <3>2 DEF SlotQueues, NoFreeSlotWhileQueued
  <2>8. DialsTracked'
    <3>1. /\ w \in ToSet(TrackDial(w))
          /\ \A x \in Want : dial[x] \notin {"none", "done"} => x \in ToSet(TrackDial(w))
      BY <2>2, TrackDialKeeps
    <3>2. \A x \in Want : x # w => dial'[x] = d[x] BY <1>q, <2>1
    <3> QED BY <2>1, <3>1, <3>2 DEF DialsTracked, NoDialAppears
  <2> QED BY <1>2, <2>7, <2>8 DEF SlotQueues, NoQueueUnlimited
<1>3. CASE MaxConnsPerHost # 0 /\ live = {}
  <2>1. /\ dial' = d /\ UNCHANGED dialsInProgress
        /\ connsPerHostWait' = [connsPerHostWait EXCEPT ![k] = <<>>]
        /\ connsPerHost' = [connsPerHost EXCEPT ![k] = @ - 1]
    BY <1>3 DEF DecConnsPerHost
  <2>2. DialsTracked' BY <2>1, TrackedFrame
  <2>3. NoFreeSlotWhileQueued'
    <3> SUFFICES ASSUME NEW j \in Key, NEW i \in DOMAIN connsPerHostWait'[j],
                        ~wdone'[connsPerHostWait'[j][i]]
                 PROVE  connsPerHost'[j] = MaxConnsPerHost
      BY DEF NoFreeSlotWhileQueued
    <3>1. CASE j = k
      <4>1. connsPerHostWait'[j] = <<>> BY <2>1, <3>1 DEF PoolInv, TypeOK
      <4> QED BY <4>1
    <3>2. CASE j # k
      <4>1. connsPerHostWait'[j] = connsPerHostWait[j] /\ connsPerHost'[j] = connsPerHost[j]
        BY <2>1, <3>2 DEF PoolInv, TypeOK
      <4> QED BY <1>w, <4>1 DEF SlotQueues, NoFreeSlotWhileQueued, DoneStays
    <3> QED BY <3>1, <3>2
  <2> QED BY <1>3, <2>2, <2>3 DEF SlotQueues, NoQueueUnlimited
<1> QED BY <1>1, <1>2, <1>3 DEF DecConnsPerHost

\* close gives a slot back at most once.
LEMMA CloseQueues ==
    ASSUME PoolInv, SlotQueues, DialsTracked, DoneStays, NEW c,
           NEW d, DialKept(d), NoDialAppears(d),
           NEW done, \A w \in Want : done[w] => wdone'[w],
           Close(c, d, done)
    PROVE  SlotQueues' /\ DialsTracked'
<1>1. CASE c \in open
  <2>1. ckey[c] \in Key BY <1>1 DEF PoolInv, TypeOK
  <2>2. DecConnsPerHost(ckey[c], d, done) /\ d \in [Want -> DialPC] BY <1>1 DEF Close, DialKept
  <2> QED BY <2>1, <2>2, DecQueues
<1>2. CASE c \notin open
  <2>1. dial' = d /\ UNCHANGED countVars BY <1>2 DEF Close
  <2> QED BY <2>1, SlotQueuesFrame, TrackedFrame DEF countVars
<1> QED BY <1>1, <1>2

\* Nothing is removed from an empty list.
LEMMA RemoveFromEmpty == ASSUME NEW e PROVE RemoveFirst(<<>>, e) = <<>>
BY DEF RemoveFirst

\* tryPutIdleConn offers the connection to idleConnWait first: nobody waits there
\* once it is put into the list.
LEMMA PutIdleWait ==
    ASSUME PoolInv, NoIdleConnWhileAwaited, NEW c \in Conn, NEW d, PutOrCloseIdleConn(c, d),
           DoneStays
    PROVE  NoIdleConnWhileAwaited'
<1> DEFINE k    == ckey[c]
           q    == idleConnWait[k]
           live == Positions(q, Waiting(wdone))
<1>t. k \in Key /\ q \in Seq(Want) /\ DOMAIN idleConn = Key /\ DOMAIN idleConnWait = Key
  BY DEF PoolInv, TypeOK
<1>w. \A j \in Key : \A i \in DOMAIN idleConnWait[j] : idleConnWait[j][i] \in Want
  BY DEF PoolInv, TypeOK
<1>1. CASE AlreadyIdle(c)
  <2>1. UNCHANGED <<idleConn, idleConnWait>> BY <1>1 DEF PutOrCloseIdleConn
  <2> QED BY <2>1, IdleWaitFrame
<1>2. CASE ~AlreadyIdle(c)
  <2>1. idleConnWait' = Offered(c) BY <1>2 DEF PutOrCloseIdleConn
  <2>2. \A j \in Key : j # k => idleConnWait'[j] = idleConnWait[j] BY <1>t, <2>1 DEF Offered
  <2>3. CASE c \in alt \/ live = {}
    <3>1. idleConnWait'[k] = <<>> BY <1>t, <2>1, <2>3 DEF Offered
    <3>2. ASSUME NEW j \in Key, j # k, idleConn[j] = <<>> PROVE idleConn'[j] = <<>>
      <4>1. CASE UNCHANGED idleConn BY <3>2, <4>1
      <4>2. CASE AddIdle(c, d)
        <5>1. PICK list, o : /\ list = [idleConn EXCEPT ![k] = Append(@, c)]
                             /\ \/ idleConn' = list
                                \/ idleConn' = [list EXCEPT ![ckey[o]] = RemoveFirst(@, o)]
          BY <4>2, Zenon DEF AddIdle
        <5>2. RemoveFirst(<<>>, o) = <<>> BY RemoveFromEmpty
        <5>3. list = [idleConn EXCEPT ![k] = Append(@, c)] BY <5>1, Zenon
        <5>4. DOMAIN list = Key /\ list[j] = <<>> BY <1>t, <3>2, <5>3
        <5>5. \/ idleConn' = list
              \/ idleConn' = [list EXCEPT ![ckey[o]] = RemoveFirst(@, o)]
          BY <5>1, Zenon
        <5> QED BY <3>2, <5>2, <5>4, <5>5
      <4> QED BY <1>2, <4>1, <4>2 DEF PutOrCloseIdleConn
    <3> SUFFICES ASSUME NEW j \in Key, NEW i \in DOMAIN idleConnWait'[j], ~wdone'[idleConnWait'[j][i]]
                 PROVE  idleConn'[j] = <<>>
      BY DEF NoIdleConnWhileAwaited
    <3>3. j # k BY <3>1
    <3> QED BY <1>w, <2>2, <3>2, <3>3 DEF NoIdleConnWhileAwaited, DoneStays
  <2>4. CASE c \notin alt /\ live # {}
    <3>1. Takers(c) # {} BY <2>4 DEF Takers
    <3>2. UNCHANGED idleConn BY <1>2, <2>4, <3>1 DEF PutOrCloseIdleConn
    <3> DEFINE m == Min(live)
               r == SubSeq(q, m + 1, Len(q))
    <3>3. m \in DOMAIN q BY <1>t, <2>4, FirstPosition
    <3>4. idleConnWait'[k] = r BY <1>t, <2>1, <2>4 DEF Offered
    <3> HIDE DEF m, live
    <3>5. m \in Nat /\ m <= Len(q) BY <1>t, <3>3
    <3>6. DOMAIN r = 1..(Len(q) - m) /\ \A i \in 1..(Len(q) - m) : r[i] = q[i + m] /\ i + m \in DOMAIN q
      BY <1>t, <3>5, Suffix
    <3>7. \A j \in Key : \A i \in DOMAIN idleConnWait'[j] :
            \E l \in DOMAIN idleConnWait[j] : idleConnWait'[j][i] = idleConnWait[j][l]
      BY <2>2, <3>4, <3>6
    <3> HIDE DEF r, q
    <3> QED BY <1>w, <3>2, <3>7 DEF NoIdleConnWhileAwaited, DoneStays
  <2> QED BY <2>3, <2>4
<1> QED BY <1>1, <1>2

\* putOrCloseIdleConn.
LEMMA PutQueues ==
    ASSUME PoolInv, QueueInv, NEW c \in Conn, NEW d, DialKept(d), NoDialAppears(d),
           PutOrCloseIdleConn(c, d)
    PROVE  QueueInv'
<1> USE DEF QueueInv
<1>0. DoneStays
  <2>1. CASE UNCHANGED wdone BY <2>1 DEF DoneStays
  <2>2. CASE wdone' = DoneAfter(c) BY <2>2 DEF DoneAfter, DoneStays
  <2> QED BY <2>1, <2>2 DEF PutOrCloseIdleConn
<1>1. NoIdleConnWhileAwaited' BY <1>0, PutIdleWait
<1>2. CASE dial' = d /\ UNCHANGED countVars
  BY <1>0, <1>1, <1>2, SlotQueuesFrame, TrackedFrame DEF countVars
<1>3. ASSUME NEW o, wdone' = DoneAfter(c), Close(o, d, DoneAfter(c)) PROVE QueueInv'
  <2>1. \A w \in Want : DoneAfter(c)[w] => wdone'[w] BY <1>3
  <2>2. SlotQueues' /\ DialsTracked' BY <1>0, <1>3, <2>1, CloseQueues
  <2> QED BY <1>1, <2>2
<1>4. ASSUME AddIdle(c, d), wdone' = DoneAfter(c) PROVE QueueInv'
  <2>1. (dial' = d /\ UNCHANGED countVars) \/ \E o : Close(o, d, DoneAfter(c))
    BY <1>4, Zenon DEF AddIdle
  <2> QED BY <1>2, <1>3, <1>4, <2>1
<1> QED BY <1>2, <1>3, <1>4 DEF PutOrCloseIdleConn

-----------------------------------------------------------------------------
(* Every step.                                                             *)

\* queueForDial takes a slot only while nobody waits for it, and queues only when
\* none is free.
LEMMA QueueForDialQueues ==
    ASSUME PoolInv, QueueInv, NEW w \in Want, QueueForDial(w)
    PROVE  QueueInv'
<1> DEFINE k == KeyOf[w]
<1> USE DEF QueueInv
<1>1. /\ k \in Key /\ UNCHANGED <<wdone, idleConn, idleConnWait>>
      /\ DOMAIN connsPerHost = Key /\ DOMAIN connsPerHostWait = Key
      /\ connsPerHost[k] \in Nat /\ MaxConnsPerHost \in Nat
      /\ dial \in [Want -> DialPC]
  BY PoolConstants DEF QueueForDial, PoolInv, TypeOK, idleVars
<1>2. DoneStays BY <1>1 DEF DoneStays
<1>3. NoIdleConnWhileAwaited' BY <1>1, <1>2, IdleWaitFrame
<1>w. \A j \in Key : \A i \in DOMAIN connsPerHostWait[j] : connsPerHostWait[j][i] \in Want
  BY DEF PoolInv, TypeOK
<1>4. CASE /\ MaxConnsPerHost = 0 \/ connsPerHost[k] < MaxConnsPerHost
           /\ connsPerHost' = IF MaxConnsPerHost = 0 THEN connsPerHost
                              ELSE [connsPerHost EXCEPT ![k] = @ + 1]
           /\ dial' = [dial EXCEPT ![w] = "start"] /\ dialsInProgress' = TrackDial(w)
           /\ UNCHANGED connsPerHostWait
  <2>1. DialsTracked'
    <3>1. /\ w \in ToSet(TrackDial(w))
          /\ \A x \in Want : dial[x] \notin {"none", "done"} => x \in ToSet(TrackDial(w))
      BY TrackDialKeeps
    <3>2. \A x \in Want : x # w => dial'[x] = dial[x] BY <1>1, <1>4
    <3> QED BY <1>4, <3>1, <3>2 DEF DialsTracked
  <2>2. NoFreeSlotWhileQueued'
    <3> SUFFICES ASSUME NEW j \in Key, NEW i \in DOMAIN connsPerHostWait[j],
                        ~wdone[connsPerHostWait[j][i]]
                 PROVE  connsPerHost'[j] = MaxConnsPerHost
      BY <1>1, <1>4 DEF NoFreeSlotWhileQueued
    <3>1. MaxConnsPerHost # 0 BY DEF SlotQueues, NoQueueUnlimited
    <3>2. connsPerHost[j] = MaxConnsPerHost BY DEF SlotQueues, NoFreeSlotWhileQueued
    <3>3. j # k BY <1>1, <1>4, <3>1, <3>2
    <3> QED BY <1>1, <1>4, <3>2, <3>3
  <2> QED BY <1>3, <1>4, <2>1, <2>2 DEF SlotQueues, NoQueueUnlimited
<1>5. CASE /\ MaxConnsPerHost # 0 /\ connsPerHost[k] >= MaxConnsPerHost
           /\ connsPerHostWait' = [connsPerHostWait EXCEPT ![k] = Enqueue(@, w)]
           /\ UNCHANGED <<connsPerHost, dial, dialsInProgress>>
  <2>1. DialsTracked' BY <1>5 DEF DialsTracked
  <2>2. connsPerHost[k] = MaxConnsPerHost
    <3>1. connsPerHost[k] <= MaxConnsPerHost BY <1>1, <1>5 DEF PoolInv, SlotInv, SlotsBounded
    <3> QED BY <1>1, <1>5, <3>1
  <2>3. \A j \in Key : j # k => connsPerHostWait'[j] = connsPerHostWait[j] BY <1>1, <1>5
  <2>4. NoFreeSlotWhileQueued'
    BY <1>1, <1>5, <2>2, <2>3 DEF NoFreeSlotWhileQueued, SlotQueues
  <2> QED BY <1>3, <1>5, <2>1, <2>4 DEF SlotQueues, NoQueueUnlimited
<1> QED BY <1>4, <1>5 DEF QueueForDial

\* The steps of getConn and of the request.
LEMMA WantStepQueues ==
    ASSUME PoolInv, OwnInv, QueueInv, NEW w \in Want, WantStep(w)
    PROVE  QueueInv'
<1> USE ConnIsNone
<1>k. KeyOf[w] \in Key /\ DOMAIN idleConn = Key /\ DOMAIN idleConnWait = Key /\ DOMAIN wdone = Want
  BY PoolConstants DEF PoolInv, TypeOK
<1>d. DialKept(dial) /\ NoDialAppears(dial) BY DEF DialKept, PoolInv, TypeOK, NoDialAppears
<1>1. CASE GetIdle(w)
  <2> DEFINE k == KeyOf[w]
  <2>1. /\ Usable(k) # {} /\ wdone' = [wdone EXCEPT ![w] = TRUE]
        /\ \E n : idleConn' = [idleConn EXCEPT ![k] = SubSeq(@, 1, n)]
        /\ UNCHANGED <<connsPerHost, connsPerHostWait, dialsInProgress, idleConnWait, dial>>
    BY <1>1 DEF GetIdle, countVars
  <2>2. idleConn[k] # <<>> BY <2>1 DEF Usable, Positions
  <2>3. \A j \in Key : idleConn[j] = <<>> => idleConn'[j] = <<>> BY <1>k, <2>1, <2>2
  <2>4. DoneStays BY <1>k, <2>1 DEF DoneStays
  <2> QED BY <1>d, <2>1, <2>3, <2>4, QueueFrame
<1>2. CASE QueueForIdle(w)
  <2> DEFINE k == KeyOf[w]
  <2>1. UNCHANGED <<wdone, connsPerHost, connsPerHostWait, dialsInProgress, dial>>
    BY <1>2 DEF QueueForIdle, countVars
  <2>2. DoneStays BY <2>1 DEF DoneStays
  <2>3. CASE UNCHANGED <<idleConn, idleConnWait>>
    BY <1>d, <2>1, <2>2, <2>3, QueueFrame
  <2>4. CASE /\ idleConn' = [idleConn EXCEPT ![k] = <<>>]
             /\ idleConnWait' = [idleConnWait EXCEPT ![k] = Enqueue(@, w)]
    <3>1. SlotQueues' /\ DialsTracked'
      BY <1>d, <2>1, <2>2, SlotQueuesFrame, TrackedFrame DEF QueueInv
    <3>2. /\ idleConn'[k] = <<>>
          /\ \A j \in Key : j # k => idleConn'[j] = idleConn[j] /\ idleConnWait'[j] = idleConnWait[j]
      BY <1>k, <2>4
    <3>3. NoIdleConnWhileAwaited' BY <2>1, <3>2 DEF QueueInv, NoIdleConnWhileAwaited
    <3> QED BY <3>1, <3>3 DEF QueueInv
  <2> QED BY <1>2, <2>3, <2>4 DEF QueueForIdle, idleVars
<1>3. CASE QueueForDial(w) BY <1>3, QueueForDialQueues
<1>4. CASE Receive(w) \/ Cancel(w) \/ UseEndsAlt(w)
  <2>1. /\ wdone' \in {wdone, [wdone EXCEPT ![w] = TRUE]}
        /\ UNCHANGED <<connsPerHost, connsPerHostWait, dialsInProgress, idleConn, idleConnWait, dial>>
    BY <1>4 DEF Receive, Cancel, UseEndsAlt, countVars, idleVars
  <2>2. DoneStays BY <1>k, <2>1 DEF DoneStays
  <2> QED BY <1>d, <2>1, <2>2, QueueFrame
<1>5. CASE CancelCheck(w) \/ UseFails(w)
  <2>1. UNCHANGED <<wdone, idleConn, idleConnWait>> BY <1>5 DEF CancelCheck, UseFails, idleVars
  <2>2. DoneStays BY <2>1 DEF DoneStays
  <2>3. CASE UNCHANGED <<dial, countVars>>
    BY <1>d, <2>1, <2>2, <2>3, QueueFrame DEF countVars
  <2>4. CASE Close(held[w], dial, wdone)
    <3>1. \A x \in Want : wdone[x] => wdone'[x] BY <2>1
    <3>2. SlotQueues' /\ DialsTracked' BY <1>d, <2>2, <2>4, <3>1, CloseQueues DEF QueueInv
    <3>3. NoIdleConnWhileAwaited' BY <2>1, <2>2, IdleWaitFrame DEF QueueInv
    <3> QED BY <3>2, <3>3 DEF QueueInv
  <2> QED BY <1>5, <2>3, <2>4 DEF CancelCheck, UseFails
<1>6. CASE CancelPut(w) \/ UseEnds(w)
  <2>1. PutOrCloseIdleConn(held[w], dial) /\ pc[w] \in {"using", "put"}
    BY <1>6 DEF CancelPut, UseEnds
  <2>2. held[w] \in Conn BY <2>1 DEF OwnInv, HoldsWhile
  <2> QED BY <1>d, <2>1, <2>2, PutQueues
<1> QED BY <1>1, <1>2, <1>3, <1>4, <1>5, <1>6 DEF WantStep

\* The steps of a dial's goroutine.
LEMMA DialStepQueues ==
    ASSUME PoolInv, OwnInv, QueueInv, NEW w \in Want, DialStep(w)
    PROVE  QueueInv'
<1> USE ConnIsNone
<1>k. KeyOf[w] \in Key /\ DOMAIN wdone = Want BY PoolConstants DEF PoolInv, TypeOK
<1> DEFINE d == [dial EXCEPT ![w] = "done"]
<1>n. NoDialAppears(d) BY DEF NoDialAppears
<1>1. ASSUME dial[w] \in {"start", "dec"}, DecConnsPerHost(KeyOf[w], d, wdone),
             UNCHANGED <<wdone, idleConn, idleConnWait>>
      PROVE  QueueInv'
  <2>1. DoneStays BY <1>1 DEF DoneStays
  <2>2. NoIdleConnWhileAwaited' BY <1>1, <2>1, IdleWaitFrame DEF QueueInv
  <2>3. SlotQueues' /\ DialsTracked'
    <3>1. \A x \in Want : wdone[x] => wdone'[x] BY <1>1
    <3>2. d \in [Want -> DialPC] BY DEF PoolInv, TypeOK, DialPC
    <3> HIDE DEF d
    <3> QED BY <1>1, <1>k, <1>n, <2>1, <3>1, <3>2, DecQueues DEF QueueInv
  <2> QED BY <2>2, <2>3 DEF QueueInv
<1>2. CASE DialStart(w)
  <2>1. dial[w] = "start" /\ UNCHANGED <<wdone, idleConn, idleConnWait>>
    BY <1>2 DEF DialStart, wantVars, idleVars
  <2>2. CASE dial' = [dial EXCEPT ![w] = "dialing"] /\ UNCHANGED countVars
    <3>1. DoneStays /\ NoDialAppears(dial') BY <2>1, <2>2 DEF DoneStays, NoDialAppears
    <3> QED BY <2>1, <2>2, <3>1, QueueFrame DEF countVars
  <2> QED BY <1>1, <1>2, <2>1, <2>2 DEF DialStart
<1>3. CASE DialDec(w) BY <1>1, <1>3 DEF DialDec, wantVars, idleVars
<1>4. CASE DialFail(w) \/ \E c \in Conn, a \in BOOLEAN : DialSucceed(w, c, a)
  <2>1. /\ dial[w] \in {"dialing", "cancelled"} /\ wdone' = [wdone EXCEPT ![w] = TRUE]
        /\ \E e : dial' = [dial EXCEPT ![w] = e]
        /\ UNCHANGED <<connsPerHost, connsPerHostWait, dialsInProgress, idleConn, idleConnWait>>
    BY <1>4 DEF DialFail, DialSucceed, idleVars, countVars
  <2>2. DoneStays BY <1>k, <2>1 DEF DoneStays
  <2>3. NoDialAppears(dial') BY <2>1 DEF NoDialAppears
  <2> QED BY <2>1, <2>2, <2>3, QueueFrame
<1>5. CASE DialCheck(w)
  <2>1. dial[w] = "check" /\ UNCHANGED <<wdone, idleConn, idleConnWait>>
    BY <1>5 DEF DialCheck, wantVars, idleVars
  <2>2. DoneStays BY <2>1 DEF DoneStays
  <2>3. CASE dial' = [dial EXCEPT ![w] = "put"] /\ UNCHANGED countVars
    <3>1. NoDialAppears(dial') BY <2>1, <2>3 DEF NoDialAppears
    <3> QED BY <2>1, <2>2, <2>3, <3>1, QueueFrame DEF countVars
  <2>4. CASE Close(dconn[w], d, wdone)
    <3>1. DialKept(d) BY <2>1 DEF DialKept, PoolInv, TypeOK, DialPC, SlotDial
    <3>2. \A x \in Want : wdone[x] => wdone'[x] BY <2>1
    <3> HIDE DEF d
    <3>3. SlotQueues' /\ DialsTracked' BY <1>n, <2>2, <2>4, <3>1, <3>2, CloseQueues DEF QueueInv
    <3>4. NoIdleConnWhileAwaited' BY <2>1, <2>2, IdleWaitFrame DEF QueueInv
    <3> QED BY <3>3, <3>4 DEF QueueInv
  <2> QED BY <1>5, <2>3, <2>4 DEF DialCheck
<1>6. CASE DialPut(w)
  <2>1. dial[w] = "put" /\ PutOrCloseIdleConn(dconn[w], d) BY <1>6 DEF DialPut
  <2>2. dconn[w] \in Conn BY <2>1 DEF OwnInv, HoldsWhile
  <2>3. DialKept(d) BY <2>1 DEF DialKept, PoolInv, TypeOK, DialPC, SlotDial
  <2> HIDE DEF d
  <2> QED BY <1>n, <2>1, <2>2, <2>3, PutQueues
<1> QED BY <1>2, <1>3, <1>4, <1>5, <1>6 DEF DialStep

\* The steps of the server, the clock, the timers and CloseIdleConnections.
LEMMA OtherStepQueues ==
    ASSUME PoolInv, OwnInv, QueueInv, (\E c \in Conn : ConnStep(c)) \/ TakeIdle \/ CancelDials
    PROVE  QueueInv'
<1>d. DialKept(dial) /\ NoDialAppears(dial) BY DEF DialKept, PoolInv, TypeOK, NoDialAppears
<1>0. UNCHANGED <<wdone, idleConnWait>>
  BY DEF ConnStep, ServerClose, ReadLoopExit, Age, TimerFires, CloseConnIfStillIdle, SweepClose,
         TakeIdle, CancelDials, wantVars, idleVars
<1>1. DoneStays BY <1>0 DEF DoneStays
<1>2. ASSUME NEW c \in Conn, RemoveIdleConn(c)
      PROVE  \A k \in Key : idleConn[k] = <<>> => idleConn'[k] = <<>>
  <2>1. RemoveFirst(<<>>, c) = <<>> BY RemoveFromEmpty
  <2>2. idleConn' = [idleConn EXCEPT ![ckey[c]] = RemoveFirst(@, c)] /\ DOMAIN idleConn = Key
    BY <1>2 DEF RemoveIdleConn, PoolInv, TypeOK
  <2> QED BY <2>1, <2>2
<1>3. ASSUME NEW c \in Conn, Close(c, dial, wdone),
             \A k \in Key : idleConn[k] = <<>> => idleConn'[k] = <<>>
      PROVE  QueueInv'
  <2>1. \A x \in Want : wdone[x] => wdone'[x] BY <1>0
  <2>2. SlotQueues' /\ DialsTracked' BY <1>1, <1>3, <1>d, <2>1, CloseQueues DEF QueueInv
  <2>3. NoIdleConnWhileAwaited' BY <1>0, <1>1, <1>3, IdleWaitFrame DEF QueueInv
  <2> QED BY <2>2, <2>3 DEF QueueInv
<1>4. ASSUME NEW c \in Conn, ConnStep(c) PROVE QueueInv'
  <2>1. CASE ServerClose(c) \/ SweepClose(c)
    BY <1>3, <2>1 DEF ServerClose, SweepClose, idleVars
  <2>2. CASE ReadLoopExit(c)
    BY <1>0, <1>1, <1>2, <1>d, <2>2, QueueFrame DEF ReadLoopExit, countVars
  <2>3. CASE Age(c) \/ TimerFires(c)
    BY <1>0, <1>1, <1>d, <2>3, QueueFrame DEF Age, TimerFires, countVars, idleVars
  <2>4. CASE CloseConnIfStillIdle(c)
    <3>1. CASE dial' = dial /\ UNCHANGED <<idleConn, countVars>>
      BY <1>0, <1>1, <1>d, <3>1, QueueFrame DEF countVars
    <3>2. CASE RemoveIdleConn(c) /\ Close(c, dial, wdone) BY <1>2, <1>3, <3>2
    <3> QED BY <2>4, <3>1, <3>2 DEF CloseConnIfStillIdle
  <2> QED BY <1>4, <2>1, <2>2, <2>3, <2>4 DEF ConnStep
<1>5. CASE TakeIdle
  BY <1>0, <1>1, <1>5, <1>d, QueueFrame DEF TakeIdle, countVars
<1>6. CASE CancelDials
  <2>1. NoDialAppears(dial') /\ UNCHANGED <<idleConn, countVars>>
    BY <1>6 DEF CancelDials, NoDialAppears, idleVars
  <2> QED BY <1>0, <1>1, <2>1, QueueFrame DEF countVars
<1> QED BY <1>4, <1>5, <1>6

-----------------------------------------------------------------------------
(* The theorems.                                                           *)

\* In the empty pool nobody queues.
LEMMA QueueInvInit == Init => QueueInv
BY DEF Init, QueueInv, SlotQueues, NoQueueUnlimited, NoFreeSlotWhileQueued, NoIdleConnWhileAwaited,
       DialsTracked

\* Every step preserves the invariant.
LEMMA QueueInvNext == PoolInv /\ OwnInv /\ QueueInv /\ [Next]_vars => QueueInv'
<1> SUFFICES ASSUME PoolInv, OwnInv, QueueInv, [Next]_vars PROVE QueueInv' OBVIOUS
<1>1. CASE \E w \in Want : WantStep(w) BY <1>1, WantStepQueues
<1>2. CASE \E w \in Want : DialStep(w) BY <1>2, DialStepQueues
<1>3. CASE (\E c \in Conn : ConnStep(c)) \/ TakeIdle \/ CancelDials BY <1>3, OtherStepQueues
<1>4. CASE UNCHANGED vars
  <2>1. UNCHANGED <<wdone, dial, connsPerHost, connsPerHostWait, dialsInProgress, idleConn, idleConnWait>>
    BY <1>4 DEF vars, wantVars, countVars, idleVars
  <2>2. DoneStays /\ NoDialAppears(dial') BY <2>1 DEF DoneStays, NoDialAppears
  <2> QED BY <2>1, <2>2, QueueFrame
<1> QED BY <1>1, <1>2, <1>3, <1>4 DEF Next

\* The invariant of the queues holds in every reachable state of the pool.
THEOREM QueueInvariance == Spec => []QueueInv
BY PoolInvariance, OwnInvariance, QueueInvInit, QueueInvNext, PTL DEF Spec

\* decConnsPerHost strands nobody: while a request queues for a slot of its host,
\* the host's limit is used up.
THEOREM SlotsGoToTheQueue == Spec => []NoFreeSlotWhileQueued
<1>1. QueueInv => NoFreeSlotWhileQueued BY DEF QueueInv, SlotQueues
<1> QED BY <1>1, QueueInvariance, PTL

\* tryPutIdleConn parks no connection past a request that waits for one.
THEOREM IdleConnsGoToTheQueue == Spec => []NoIdleConnWhileAwaited
<1>1. QueueInv => NoIdleConnWhileAwaited BY DEF QueueInv
<1> QED BY <1>1, QueueInvariance, PTL

\* CloseIdleConnections misses no dial whose connection nobody waits for, however
\* often dialsInProgress has been cleaned since the dial began.
THEOREM AbandonedDialsFound == Spec => AbandonedDialsCancelled
<1>1. QueueInv /\ [Next]_vars
        => [CancelDials => \A w \in Want : dial[w] = "dialing" /\ wdone[w] => dial'[w] = "cancelled"]_vars
  BY DEF QueueInv, DialsTracked, CancelDials
<1> QED BY <1>1, QueueInvariance, PTL DEF Spec, AbandonedDialsCancelled
=============================================================================
