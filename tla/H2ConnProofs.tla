----------------------------- MODULE H2ConnProofs -----------------------------
(***************************************************************************)
(* The safety properties of an HTTP/2 connection, for any number of        *)
(* streams, any windows and whatever the peers do.                         *)
(*                                                                         *)
(* Fine says what is known of one stream, of the server's side of it and   *)
(* of the connection: it is about one stream at a time, since a step that  *)
(* changes one leaves the others as they are but for waking and aborting   *)
(* them.  ConnFine compares the windows of the connection with what all    *)
(* streams together have taken from them, for which the sum over the       *)
(* streams (Total) has to be reasoned about.                               *)
(***************************************************************************)
EXTENDS H2Conn, FiniteSetTheorems, WellFoundedInduction, TLAPS

Places  == {"new", "hdrs", "w100", "read", "flow", "cond", "data", "last", "wait", "close",
            "clean", "forget", "done"}
Callers == {"wait", "body", "back", "close", "drain", "gone"}
Errors  == {"none", "err", "ctx", "peer"}
Bodies  == {"none", "body", "missing", "nobody"}
Ends    == {"none", "eof", "err"}
Lengths == Nat \cup {-1}

StreamRec == [pc : Places, rt : Callers, ctx : BOOLEAN, abort : Errors, err : Errors,
              left : Nat, buf : Nat, eof : BOOLEAN, tok : Nat, bodyClosed : BOOLEAN,
              sentHdr : BOOLEAN, sentEnd : BOOLEAN, flow : Int,
              past : BOOLEAN, n1xx : Nat, peer : BOOLEAN, readAborted : BOOLEAN,
              res : Bodies, big : BOOLEAN, remain : Lengths,
              avail : Nat, unsent : Nat,
              pipe : BOOLEAN, pbuf : Nat, perr : Ends, broken : BOOLEAN, unread : Nat,
              hand : Nat, out : Ends, got : Nat]
ServerRec == [seen : BOOLEAN, hdr : BOOLEAN, ended : BOOLEAN, reset : BOOLEAN, rst : BOOLEAN,
              sent : Nat, win : Int, credit : Int]
ConnRec   == [flow : Nat, init : Nat, avail : Nat, unsent : Nat, closed : BOOLEAN,
              reading : BOOLEAN, stuck : BOOLEAN, flowErr : BOOLEAN, win : Int, credit : Int]

\* The type invariant.
Types ==
    /\ sc \in Scenarios /\ cc \in ConnRec
    /\ cs \in [Stream -> StreamRec] /\ sv \in [Stream -> ServerRec]

\* The places where the body of a request may still be sent.
SendingAt == {"hdrs", "w100", "read", "flow", "cond", "data"}
\* The caller has not closed the body.
Open == {"wait", "body", "back"}

\* What is known of stream k, which the server sees as v.  Before it is opened there is
\* nothing of it.
Placed(k, v) ==
    /\ k.pc = "new" => /\ ~v.seen /\ k.res = "none" /\ v.credit = Announced
                       /\ k.avail = 0 /\ k.unsent = 0 /\ k.pbuf = 0 /\ k.hand = 0
    /\ v.seen => k.sentHdr
    /\ v.sent # 0 => v.hdr
    /\ k.res # "none" => v.hdr
    /\ k.rt \in {"body", "back", "close"} => k.res = "body"
    /\ k.rt \in Open => ~k.broken /\ k.unread = 0
    /\ (k.tok # 0 => k.pc = "data") /\ k.tok <= k.buf
    /\ k.hand # 0 => k.rt = "back"

\* Who ended it.
Over(k, v) ==
    /\ k.peer => v.ended
    /\ k.abort = "peer" \/ k.err = "peer" => v.reset
    /\ k.pc \in {"close", "clean"} /\ k.err = "none" => k.peer
    /\ k.pc \in {"forget", "done"} /\ v.seen => v.rst \/ v.reset \/ (k.sentEnd /\ v.ended)

\* While nothing of the body was refused or lost on the way, all that was sent is in
\* the pipe or was read.
Delivered(k, v, c) ==
    /\ k.perr = "eof" => v.ended
    /\ k.out = "eof" => /\ k.rt = "body" /\ k.pbuf = 0 /\ k.perr = "eof" /\ k.remain <= 0
    /\ /\ k.rt \in Open /\ k.out # "err"
       /\ k.perr = "eof" \/ (k.perr = "none" /\ ~k.readAborted /\ k.pc # "done" /\ c.reading)
       => k.got + k.pbuf = v.sent

\* The stream's windows: the one the server has for it and the one it gives.
WindowFine(k, v, c) ==
    /\ k.pc # "new" => v.credit <= k.avail
    /\ k.avail + k.unsent + k.pbuf + k.hand <= StreamFlow
    /\ c.reading /\ k.pc \in SendingAt => v.win = k.flow + k.tok /\ k.flow <= MaxGrant + c.init

Fine(k, v, c) == Placed(k, v) /\ Over(k, v) /\ Delivered(k, v, c) /\ WindowFine(k, v, c)

\* The windows of connection c when the streams have taken toks from the one and
\* hold pipes of the other.
ConnFine(c, toks, pipes) ==
    /\ c.reading => c.init \in Windows \cup {InitialWindow} /\ c.win = c.flow + toks
    /\ ~c.flowErr /\ c.credit <= c.avail
    /\ c.avail + c.unsent + pipes <= ConnFlow

Toks  == [s \in Stream |-> cs[s].tok]
Pipes == [s \in Stream |-> InPipe(cs[s])]

\* The inductive invariant.
H2ConnInv ==
    /\ Types
    /\ \A s \in Stream : Fine(cs[s], sv[s], cc)
    /\ ConnFine(cc, Total(Toks), Total(Pipes))

-----------------------------------------------------------------------------
(* Sums over the streams.                                                  *)

\* A nonempty set of naturals has a least element.
LEMMA Least ==
  ASSUME NEW S \in SUBSET Nat, S # {}
  PROVE  \E x \in S : \A y \in S : x <= y
  <1>1. \E x \in S : \A y \in S : <<y, x>> \notin OpToRel(<, Nat)
    BY NatLessThanWellFounded, WFMin
  <1>2. \A x, y \in Nat : y < x => <<y, x>> \in OpToRel(<, Nat) BY Zenon DEF OpToRel
  <1>3. \E x \in S : \A y \in S : ~(y < x) BY <1>1, <1>2, Zenon
  <1>. QED BY <1>3

\* The element that the fold takes first, and what is left.
One(T)  == CHOOSE x \in T : TRUE
Rest(T) == T \ {One(T)}

\* g is the fold of f on the sets in D.
Adds(f, g, D) == g = [T \in D |-> IF T = {} THEN 0 ELSE f[One(T)] + g[Rest(T)]]

\* The fold in Total.
Fold(f) == CHOOSE g : Adds(f, g, SUBSET Stream)

\* Total is the fold over all streams.
LEMMA TotalIsFold == ASSUME NEW f PROVE Total(f) = Fold(f)[Stream]
  BY DEF Total, Fold, Adds, One, Rest, MapThenSumSet, MapThenFoldSet

\* The sets of at most n streams.
UpTo(n) == {T \in SUBSET Stream : Cardinality(T) <= n}

\* Their size, and what is left of one is smaller.
LEMMA Sizes ==
  ASSUME NEW T \in SUBSET Stream
  PROVE  /\ Cardinality(T) \in Nat
         /\ T # {} => /\ One(T) \in T /\ Rest(T) \in SUBSET Stream
                      /\ Cardinality(Rest(T)) \in Nat
                      /\ Cardinality(Rest(T)) < Cardinality(T)
         /\ Cardinality(T) <= Cardinality(Stream)
  <1>1. IsFiniteSet(T) /\ Cardinality(T) <= Cardinality(Stream) BY H2ConnConstants, FS_Subset
  <1>2. Cardinality(T) \in Nat BY <1>1, FS_CardinalityType
  <1>3. ASSUME T # {} PROVE /\ One(T) \in T /\ Rest(T) \in SUBSET Stream
                            /\ Cardinality(Rest(T)) \in Nat
                            /\ Cardinality(Rest(T)) < Cardinality(T)
    <2>1. One(T) \in T BY <1>3 DEF One
    <2>2. IsFiniteSet(Rest(T)) /\ Cardinality(Rest(T)) = Cardinality(T) - 1
      BY <1>1, <2>1, FS_RemoveElement DEF Rest
    <2>3. Cardinality(Rest(T)) \in Nat BY <2>2, FS_CardinalityType
    <2>. QED BY <1>2, <2>1, <2>2, <2>3 DEF Rest
  <1>. QED BY <1>1, <1>2, <1>3

\* There is a fold over the sets of at most n streams.
LEMMA FoldUpTo ==
  ASSUME NEW f, NEW n \in Nat PROVE \E g : Adds(f, g, UpTo(n))
  <1>. DEFINE B == {m \in Nat : ~\E g : Adds(f, g, UpTo(m))}
  <1>1. SUFFICES ASSUME B # {} PROVE FALSE OBVIOUS
  <1>2. PICK m \in B : \A y \in B : m <= y
    <2>1. B \in SUBSET Nat OBVIOUS
    <2>. HIDE DEF B
    <2>. QED BY <1>1, <2>1, Least
  <1>3. m \in Nat /\ ~\E g : Adds(f, g, UpTo(m)) OBVIOUS
  <1>4. CASE m = 0
    <2>1. PICK g : g = [T \in UpTo(0) |-> 0] OBVIOUS
    <2>2. ASSUME NEW T \in UpTo(0) PROVE T = {}
      <3>1. T \in SUBSET Stream /\ Cardinality(T) <= 0 BY DEF UpTo
      <3>. QED BY <3>1, Sizes
    <2>3. g = [T \in UpTo(0) |-> IF T = {} THEN 0 ELSE f[One(T)] + g[Rest(T)]]
      BY <2>1, <2>2
    <2>. QED BY <1>3, <1>4, <2>3 DEF Adds
  <1>5. CASE m # 0
    <2>1. m - 1 \in Nat /\ m - 1 \notin B
      <3>1. m - 1 \in Nat /\ ~(m <= m - 1) BY <1>3, <1>5
      <3>. HIDE DEF B
      <3>. QED BY <1>2, <3>1
    <2>2. PICK g : Adds(f, g, UpTo(m - 1)) BY <2>1
    <2>3. PICK h : h = [T \in UpTo(m) |-> IF T = {} THEN 0 ELSE f[One(T)] + g[Rest(T)]]
      OBVIOUS
    <2>4. ASSUME NEW T \in UpTo(m - 1) PROVE T \in UpTo(m) /\ h[T] = g[T]
      <3>1. T \in SUBSET Stream /\ Cardinality(T) <= m - 1 BY DEF UpTo
      <3>2. T \in UpTo(m) BY <1>3, <3>1, Sizes DEF UpTo
      <3>3. g[T] = IF T = {} THEN 0 ELSE f[One(T)] + g[Rest(T)] BY <2>2 DEF Adds
      <3>. QED BY <2>3, <3>2, <3>3
    <2>5. ASSUME NEW T \in UpTo(m), T # {} PROVE h[Rest(T)] = g[Rest(T)]
      <3>1. T \in SUBSET Stream /\ Cardinality(T) <= m BY DEF UpTo
      <3>2. Rest(T) \in SUBSET Stream /\ Cardinality(Rest(T)) <= m - 1
        BY <1>3, <2>5, <3>1, Sizes
      <3>. QED BY <2>4, <3>2 DEF UpTo
    <2>6. h = [T \in UpTo(m) |-> IF T = {} THEN 0 ELSE f[One(T)] + h[Rest(T)]]
      BY <2>3, <2>5
    <2>. QED BY <1>3, <2>6 DEF Adds
  <1>. QED BY <1>4, <1>5

\* So the fold of Total adds up one stream after the other.
LEMMA FoldAdds ==
  ASSUME NEW f, NEW T \in SUBSET Stream
  PROVE  Fold(f)[T] = IF T = {} THEN 0 ELSE f[One(T)] + Fold(f)[Rest(T)]
  <1>1. UpTo(Cardinality(Stream)) = SUBSET Stream BY Sizes DEF UpTo
  <1>2. Cardinality(Stream) \in Nat BY H2ConnConstants, FS_CardinalityType
  <1>3. \E g : Adds(f, g, SUBSET Stream)
    <2>1. \E g : Adds(f, g, UpTo(Cardinality(Stream))) BY <1>2, FoldUpTo
    <2>. QED BY <1>1, <2>1
  <1>4. Adds(f, Fold(f), SUBSET Stream) BY <1>3 DEF Fold
  <1>. QED BY <1>4 DEF Adds

\* The sum of naturals is a natural.
LEMMA FoldNat ==
  ASSUME NEW f \in [Stream -> Nat], NEW T \in SUBSET Stream PROVE Fold(f)[T] \in Nat
  <1>. DEFINE B == {m \in Nat : \E R \in SUBSET Stream : Cardinality(R) = m /\ Fold(f)[R] \notin Nat}
  <1>1. SUFFICES ASSUME B # {} PROVE FALSE BY Sizes
  <1>2. PICK m \in B : \A y \in B : m <= y
    <2>1. B \in SUBSET Nat OBVIOUS
    <2>. HIDE DEF B
    <2>. QED BY <1>1, <2>1, Least
  <1>3. PICK R \in SUBSET Stream : Cardinality(R) = m /\ Fold(f)[R] \notin Nat OBVIOUS
  <1>4. R # {} BY <1>3, FoldAdds
  <1>5. /\ One(R) \in Stream /\ Rest(R) \in SUBSET Stream
        /\ Cardinality(Rest(R)) \in Nat /\ ~(m <= Cardinality(Rest(R)))
    BY <1>3, <1>4, Sizes
  <1>6. Fold(f)[Rest(R)] \in Nat BY <1>2, <1>5
  <1>7. Fold(f)[R] = f[One(R)] + Fold(f)[Rest(R)] BY <1>4, FoldAdds
  <1>. QED BY <1>3, <1>5, <1>6, <1>7

\* Changing one summand changes the sum by as much.
LEMMA FoldChange ==
  ASSUME NEW f \in [Stream -> Nat], NEW s \in Stream, NEW v \in Nat, NEW T \in SUBSET Stream
  PROVE  Fold([f EXCEPT ![s] = v])[T] = Fold(f)[T] + (IF s \in T THEN v - f[s] ELSE 0)
  <1>0. PICK e : e = [f EXCEPT ![s] = v] OBVIOUS
  <1>a. e \in [Stream -> Nat] /\ e[s] = v /\ \A t \in Stream : t # s => e[t] = f[t] BY <1>0
  <1>. DEFINE Good(R) == Fold(e)[R] = Fold(f)[R] + (IF s \in R THEN v - f[s] ELSE 0)
  <1>. DEFINE B == {m \in Nat : \E R \in SUBSET Stream : Cardinality(R) = m /\ ~Good(R)}
  <1>1. SUFFICES ASSUME B # {} PROVE FALSE BY <1>0, Sizes
  <1>2. PICK m \in B : \A y \in B : m <= y
    <2>1. B \in SUBSET Nat OBVIOUS
    <2>. HIDE DEF B
    <2>. QED BY <1>1, <2>1, Least
  <1>3. PICK R \in SUBSET Stream : Cardinality(R) = m /\ ~Good(R) OBVIOUS
  <1>4. R # {}
    <2>1. Fold(e)[{}] = 0 /\ Fold(f)[{}] = 0 BY FoldAdds
    <2>. QED BY <1>3, <2>1
  <1>5. /\ One(R) \in R /\ Rest(R) \in SUBSET Stream
        /\ Cardinality(Rest(R)) \in Nat /\ ~(m <= Cardinality(Rest(R)))
    BY <1>3, <1>4, Sizes
  <1>6. Good(Rest(R)) BY <1>2, <1>5
  <1>7. /\ Fold(f)[R] = f[One(R)] + Fold(f)[Rest(R)]
        /\ Fold(e)[R] = e[One(R)] + Fold(e)[Rest(R)]
    BY <1>4, FoldAdds
  <1>8. /\ Fold(f)[Rest(R)] \in Nat /\ Fold(e)[Rest(R)] \in Nat
        /\ f[One(R)] \in Nat /\ e[One(R)] \in Nat /\ f[s] \in Nat
    BY <1>5, <1>a, FoldNat
  <1>9. CASE One(R) = s
    <2>1. s \in R /\ s \notin Rest(R) BY <1>5, <1>9 DEF Rest
    <2>2. Fold(e)[Rest(R)] = Fold(f)[Rest(R)] BY <1>6, <1>8, <2>1
    <2>. QED BY <1>3, <1>7, <1>8, <1>9, <1>a, <2>1, <2>2
  <1>10. CASE One(R) # s
    <2>1. s \in R <=> s \in Rest(R) BY <1>10 DEF Rest
    <2>2. e[One(R)] = f[One(R)] BY <1>5, <1>10, <1>a
    <2>. QED BY <1>3, <1>6, <1>7, <1>8, <2>1, <2>2
  <1>. QED BY <1>9, <1>10

\* The same of Total.
LEMMA TotalChange ==
  ASSUME NEW f \in [Stream -> Nat], NEW s \in Stream, NEW v \in Nat
  PROVE  /\ Total(f) \in Nat
         /\ Total([f EXCEPT ![s] = v]) \in Nat
         /\ Total([f EXCEPT ![s] = v]) = Total(f) + v - f[s]
  <1>1. [f EXCEPT ![s] = v] \in [Stream -> Nat] OBVIOUS
  <1>2. /\ Total(f) = Fold(f)[Stream]
        /\ Total([f EXCEPT ![s] = v]) = Fold([f EXCEPT ![s] = v])[Stream]
    BY TotalIsFold
  <1>3. Total(f) \in Nat /\ Total([f EXCEPT ![s] = v]) \in Nat BY <1>1, <1>2, FoldNat
  <1>4. Total([f EXCEPT ![s] = v]) = Total(f) + (v - f[s])
    <2>1. Stream \in SUBSET Stream OBVIOUS
    <2>2. Fold([f EXCEPT ![s] = v])[Stream] = Fold(f)[Stream] + (IF s \in Stream THEN v - f[s] ELSE 0)
      BY <2>1, FoldChange
    <2>. QED BY <1>2, <2>2
  <1>. QED BY <1>3, <1>4

\* A sum of zeros is zero.
LEMMA TotalZero ==
  ASSUME NEW f \in [Stream -> Nat], \A s \in Stream : f[s] = 0 PROVE Total(f) = 0
  <1>. DEFINE B == {m \in Nat : \E R \in SUBSET Stream : Cardinality(R) = m /\ Fold(f)[R] # 0}
  <1>1. SUFFICES ASSUME B # {} PROVE FALSE BY Sizes, TotalIsFold
  <1>2. PICK m \in B : \A y \in B : m <= y
    <2>1. B \in SUBSET Nat OBVIOUS
    <2>. HIDE DEF B
    <2>. QED BY <1>1, <2>1, Least
  <1>3. PICK R \in SUBSET Stream : Cardinality(R) = m /\ Fold(f)[R] # 0 OBVIOUS
  <1>4. R # {} BY <1>3, FoldAdds
  <1>5. /\ One(R) \in Stream /\ Rest(R) \in SUBSET Stream
        /\ Cardinality(Rest(R)) \in Nat /\ ~(m <= Cardinality(Rest(R)))
    BY <1>3, <1>4, Sizes
  <1>6. Fold(f)[Rest(R)] = 0 BY <1>2, <1>5
  <1>7. Fold(f)[R] = f[One(R)] + Fold(f)[Rest(R)] BY <1>4, FoldAdds
  <1>. QED BY <1>3, <1>5, <1>6, <1>7

-----------------------------------------------------------------------------
(* Steps of one stream.                                                    *)

\* j is k but for having been woken or aborted, and the server knows when it was by a
\* reset of its own.
Alike(j, k, v) ==
    /\ j.pc = k.pc \/ (k.pc = "cond" /\ j.pc = "flow")
    /\ j.abort = k.abort \/ j.abort # "peer" \/ v.reset
    /\ j.rt = k.rt /\ j.err = k.err /\ j.buf = k.buf /\ j.tok = k.tok /\ j.flow = k.flow
    /\ j.sentHdr = k.sentHdr /\ j.sentEnd = k.sentEnd /\ j.peer = k.peer
    /\ j.readAborted = k.readAborted /\ j.res = k.res /\ j.remain = k.remain
    /\ j.avail = k.avail /\ j.unsent = k.unsent /\ j.pbuf = k.pbuf /\ j.perr = k.perr
    /\ j.broken = k.broken /\ j.unread = k.unread /\ j.hand = k.hand /\ j.out = k.out
    /\ j.got = k.got

\* Connection d tells streams no more than c does.
Calm(c, d) == d.reading => c.reading /\ d.init = c.init

\* What is fine stays so.
LEMMA AlikeFine ==
  ASSUME NEW k \in StreamRec, NEW j \in StreamRec, NEW v \in ServerRec, NEW c,
         Alike(j, k, v), Fine(k, v, c)
  PROVE  Fine(j, v, c) /\ InPipe(j) = InPipe(k) /\ j.tok = k.tok
  <1>1. Placed(j, v) BY DEF Alike, Fine, Placed
  <1>2. Over(j, v) BY DEF Alike, Fine, Over
  <1>3. Delivered(j, v, c) BY DEF Alike, Fine, Delivered
  <1>4. WindowFine(j, v, c) BY DEF Alike, Fine, WindowFine, SendingAt
  <1>5. InPipe(j) = InPipe(k) /\ j.tok = k.tok BY DEF Alike, InPipe
  <1>. QED BY <1>1, <1>2, <1>3, <1>4, <1>5 DEF Fine

LEMMA CalmFine ==
  ASSUME NEW k \in StreamRec, NEW v \in ServerRec, NEW c, NEW d, Calm(c, d), Fine(k, v, c)
  PROVE  Fine(k, v, d)
  BY DEF Calm, Fine, Delivered, WindowFine

\* Being woken and being aborted.
LEMMA WokenAlike ==
  ASSUME NEW k \in StreamRec, NEW v
  PROVE  Woken(k) \in StreamRec /\ Alike(Woken(k), k, v)
  BY DEF Woken, Alike, StreamRec, Places

LEMMA AbortedAlike ==
  ASSUME NEW k \in StreamRec, NEW v, NEW t, NEW e \in {"err", "ctx", "peer"}, e = "peer" => v.reset
  PROVE  Woken(Aborted(t, k, e)) \in StreamRec /\ Alike(Woken(Aborted(t, k, e)), k, v)
  <1>1. PICK j : j = Aborted(t, k, e) OBVIOUS
  <1>2. PICK a, b : a = OrElse(k.abort, e) /\ b = (k.bodyClosed \/ HasBody(t)) OBVIOUS
  <1>3. a \in Errors /\ (a = k.abort \/ a # "peer" \/ v.reset)
    BY <1>2 DEF OrElse, Errors, StreamRec
  <1>4. b \in BOOLEAN BY <1>2
  <1>5. j = [k EXCEPT !.abort = a, !.bodyClosed = b] BY <1>1, <1>2 DEF Aborted
  <1>6. j \in StreamRec BY <1>3, <1>4, <1>5 DEF StreamRec
  <1>7. Alike(j, k, v) BY <1>3, <1>5 DEF Alike, StreamRec
  <1>8. Woken(j) \in StreamRec /\ Alike(Woken(j), j, v) BY <1>6, WokenAlike
  <1>9. Alike(Woken(j), k, v) BY <1>7, <1>8 DEF Alike
  <1>. QED BY <1>1, <1>8, <1>9

\* Stream s changes to k, or to k when others hear of it.
Goes(s, k, v) ==
    /\ sv' = ServerBecomes(s, v)
    /\ \/ cs' = Becomes(s, k)
       \/ cs' = Broadcast(Becomes(s, k))
       \/ \E S \in SUBSET Stream, e \in {"err", "ctx", "peer"} :
             cs' = Abort(Becomes(s, k), S, e) /\ (e = "peer" => S = {s} /\ v.reset)

\* What the streams are after such a step.
LEMMA GoesAlike ==
  ASSUME Types, NEW s \in Stream, NEW k \in StreamRec, NEW v \in ServerRec, Goes(s, k, v)
  PROVE  /\ cs' \in [Stream -> StreamRec] /\ sv' \in [Stream -> ServerRec]
         /\ sv'[s] = v /\ \A t \in Stream \ {s} : sv'[t] = sv[t]
         /\ Alike(cs'[s], k, v)
         /\ \A t \in Stream \ {s} : Alike(cs'[t], cs[t], sv[t])
  <1>1. cs \in [Stream -> StreamRec] /\ sv \in [Stream -> ServerRec] BY DEF Types
  <1>2. /\ sv' \in [Stream -> ServerRec]
        /\ sv'[s] = v /\ \A t \in Stream \ {s} : sv'[t] = sv[t]
    BY <1>1 DEF Goes, ServerBecomes
  <1>3. PICK q : q = Becomes(s, k) OBVIOUS
  <1>4. q \in [Stream -> StreamRec] /\ q[s] = k /\ \A t \in Stream \ {s} : q[t] = cs[t]
    BY <1>1, <1>3 DEF Becomes
  <1>5. SUFFICES /\ cs' \in [Stream -> StreamRec]
                 /\ \A t \in Stream : Alike(cs'[t], q[t], sv'[t])
    BY <1>2, <1>4
  <1>6. CASE cs' = q BY <1>4, <1>6 DEF Alike
  <1>7. CASE cs' = Broadcast(q)
    <2>1. cs' = [t \in Stream |-> Woken(q[t])] BY <1>7 DEF Broadcast
    <2>2. \A t \in Stream : Woken(q[t]) \in StreamRec /\ Alike(Woken(q[t]), q[t], sv'[t])
      BY <1>4, WokenAlike
    <2>. QED BY <2>1, <2>2
  <1>8. ASSUME NEW S \in SUBSET Stream, NEW e \in {"err", "ctx", "peer"},
               cs' = Abort(q, S, e), e = "peer" => S = {s} /\ v.reset
        PROVE  /\ cs' \in [Stream -> StreamRec]
               /\ \A t \in Stream : Alike(cs'[t], q[t], sv'[t])
    <2>1. PICK a : a = [t \in Stream |-> IF t \in S THEN Aborted(t, q[t], e) ELSE q[t]] OBVIOUS
    <2>2. cs' = [t \in Stream |-> Woken(a[t])] BY <1>8, <2>1 DEF Abort, Broadcast
    <2>3. ASSUME NEW t \in Stream PROVE Woken(a[t]) \in StreamRec /\ Alike(Woken(a[t]), q[t], sv'[t])
      <3>1. CASE t \in S
        <4>1. e = "peer" => sv'[t].reset BY <1>2, <1>8, <3>1
        <4>2. a[t] = Aborted(t, q[t], e) BY <2>1, <3>1
        <4>. QED BY <1>4, <4>1, <4>2, AbortedAlike
      <3>2. CASE t \notin S
        <4>1. a[t] = q[t] BY <2>1, <3>2
        <4>. QED BY <1>4, <4>1, WokenAlike
      <3>. QED BY <3>1, <3>2
    <2>. QED BY <2>2, <2>3
  <1>. QED BY <1>3, <1>6, <1>7, <1>8 DEF Goes

\* When the new state of s is fine with the connection, and that says nothing new to
\* the others, all streams are; the sums change by what s does.
LEMMA GoesFine ==
  ASSUME H2ConnInv, NEW s \in Stream, NEW k \in StreamRec, NEW v \in ServerRec, Goes(s, k, v),
         cc' \in ConnRec, sc' = sc, Calm(cc, cc'), Fine(k, v, cc')
  PROVE  /\ Types'
         /\ \A t \in Stream : Fine(cs'[t], sv'[t], cc')
         /\ Total(Toks) \in Nat /\ Total(Pipes) \in Nat
         /\ Total(Toks)' \in Nat /\ Total(Pipes)' \in Nat
         /\ Total(Toks)' = Total(Toks) + k.tok - cs[s].tok
         /\ Total(Pipes)' = Total(Pipes) + InPipe(k) - InPipe(cs[s])
  <1>1. /\ cs \in [Stream -> StreamRec] /\ sv \in [Stream -> ServerRec]
        /\ Types /\ \A t \in Stream : Fine(cs[t], sv[t], cc)
    BY DEF H2ConnInv, Types
  <1>2. /\ cs' \in [Stream -> StreamRec] /\ sv' \in [Stream -> ServerRec]
        /\ sv'[s] = v /\ \A t \in Stream \ {s} : sv'[t] = sv[t]
        /\ Alike(cs'[s], k, v)
        /\ \A t \in Stream \ {s} : Alike(cs'[t], cs[t], sv[t])
    BY <1>1, GoesAlike
  <1>3. Types' BY <1>1, <1>2 DEF Types
  <1>4. Fine(cs'[s], sv'[s], cc') /\ InPipe(cs'[s]) = InPipe(k) /\ cs'[s].tok = k.tok
    BY <1>2, AlikeFine
  <1>5. ASSUME NEW t \in Stream \ {s}
        PROVE  /\ Fine(cs'[t], sv'[t], cc')
               /\ InPipe(cs'[t]) = InPipe(cs[t]) /\ cs'[t].tok = cs[t].tok
    <2>1. Fine(cs[t], sv[t], cc') BY <1>1, CalmFine
    <2>. QED BY <1>1, <1>2, <2>1, AlikeFine
  <1>6. \A j \in StreamRec : InPipe(j) \in Nat /\ j.tok \in Nat BY DEF StreamRec, InPipe
  <1>7. Toks \in [Stream -> Nat] /\ Pipes \in [Stream -> Nat] BY <1>1, <1>6 DEF Toks, Pipes
  <1>8. Toks' = [Toks EXCEPT ![s] = k.tok]
    BY <1>4, <1>5 DEF Toks
  <1>9. Pipes' = [Pipes EXCEPT ![s] = InPipe(k)]
    BY <1>4, <1>5 DEF Pipes
  <1>10. Toks[s] = cs[s].tok /\ Pipes[s] = InPipe(cs[s]) BY DEF Toks, Pipes
  <1>11. Total(Toks)' = Total(Toks') /\ Total(Pipes)' = Total(Pipes') OBVIOUS
  <1>12. /\ Total(Toks) \in Nat /\ Total([Toks EXCEPT ![s] = k.tok]) \in Nat
         /\ Total([Toks EXCEPT ![s] = k.tok]) = Total(Toks) + k.tok - Toks[s]
    BY <1>6, <1>7, TotalChange
  <1>13. /\ Total(Pipes) \in Nat /\ Total([Pipes EXCEPT ![s] = InPipe(k)]) \in Nat
         /\ Total([Pipes EXCEPT ![s] = InPipe(k)]) = Total(Pipes) + InPipe(k) - Pipes[s]
    BY <1>6, <1>7, TotalChange
  <1>. QED BY <1>3, <1>4, <1>5, <1>8, <1>9, <1>10, <1>11, <1>12, <1>13

\* A step that leaves the connection alone: the stream takes nothing from its window
\* and gives up nothing of what it holds of the other.
LEMMA Quiet ==
  ASSUME H2ConnInv, NEW s \in Stream, NEW k \in StreamRec, NEW v \in ServerRec, Goes(s, k, v),
         UNCHANGED <<sc, cc>>, Fine(k, v, cc),
         cc.reading => k.tok = cs[s].tok, InPipe(k) <= InPipe(cs[s])
  PROVE  H2ConnInv'
  <1>1. /\ Types'
        /\ \A t \in Stream : Fine(cs'[t], sv'[t], cc')
        /\ Total(Toks) \in Nat /\ Total(Pipes) \in Nat
        /\ Total(Toks)' \in Nat /\ Total(Pipes)' \in Nat
        /\ Total(Toks)' = Total(Toks) + k.tok - cs[s].tok
        /\ Total(Pipes)' = Total(Pipes) + InPipe(k) - InPipe(cs[s])
    BY GoesFine DEF Calm, H2ConnInv, Types
  <1>2. ConnFine(cc, Total(Toks)', Total(Pipes)')
    <2>1. cs[s] \in StreamRec /\ cc \in ConnRec BY DEF H2ConnInv, Types
    <2>2. InPipe(k) \in Nat /\ InPipe(cs[s]) \in Nat /\ k.tok \in Nat /\ cs[s].tok \in Nat
      BY <2>1 DEF InPipe, StreamRec
    <2>3. cc.flow \in Nat /\ cc.avail \in Nat /\ cc.unsent \in Nat BY <2>1 DEF ConnRec
    <2>. QED BY <1>1, <2>2, <2>3, H2ConnConstants DEF H2ConnInv, ConnFine
  <1>. QED BY <1>1, <1>2 DEF H2ConnInv

-----------------------------------------------------------------------------
(* doRequest.                                                              *)

\* What is known of stream s.
LEMMA Here ==
  ASSUME H2ConnInv, NEW s \in Stream
  PROVE  /\ cs[s] \in StreamRec /\ sv[s] \in ServerRec /\ cc \in ConnRec
         /\ Fine(cs[s], sv[s], cc)
         /\ sc \in Scenarios /\ sc.req[s] \in Nat /\ sc.resp[s] \in Nat
         /\ sv = ServerBecomes(s, sv[s]) /\ cs = Becomes(s, cs[s])
  <1>1. Types /\ Fine(cs[s], sv[s], cc) BY DEF H2ConnInv
  <1>2. sv = ServerBecomes(s, sv[s]) /\ cs = Becomes(s, cs[s])
    BY <1>1 DEF Types, Becomes, ServerBecomes
  <1>3. sc.req \in [Stream -> Nat] /\ sc.resp \in [Stream -> Nat]
    BY <1>1, H2ConnConstants DEF Types
  <1>. QED BY <1>1, <1>2, <1>3 DEF Types

LEMMA AddStreamInv ==
  ASSUME H2ConnInv, NEW s \in Stream, AddStream(s), UNCHANGED sc PROVE H2ConnInv'
  <1>1. /\ cs[s] \in StreamRec /\ sv[s] \in ServerRec /\ cc \in ConnRec
        /\ Fine(cs[s], sv[s], cc)
    BY Here
  <1>2. PICK k : k = [cs[s] EXCEPT !.pc = "hdrs", !.flow = cc.init, !.avail = StreamFlow] OBVIOUS
  <1>3. PICK v : v = [sv[s] EXCEPT !.win = cc.init] OBVIOUS
  <1>4. cc.init \in Nat /\ cs[s].pc = "new" BY <1>1 DEF ConnRec, AddStream
  <1>0. cc.init \in Int /\ StreamFlow \in Nat /\ "hdrs" \in Places
    BY <1>4, H2ConnConstants DEF Places
  <1>a. k \in StreamRec BY <1>0, <1>1, <1>2 DEF StreamRec
  <1>b. v \in ServerRec BY <1>1, <1>3, <1>4 DEF ServerRec
  <1>5. k \in StreamRec /\ v \in ServerRec BY <1>a, <1>b
  <1>6. Placed(k, v) BY <1>1, <1>2, <1>3, <1>4 DEF Fine, Placed, StreamRec, ServerRec
  <1>7. Over(k, v) BY <1>1, <1>2, <1>3, <1>4 DEF Fine, Over, StreamRec, ServerRec
  <1>8. Delivered(k, v, cc) BY <1>1, <1>2, <1>3, <1>4 DEF Fine, Delivered, StreamRec, ServerRec
  <1>9. WindowFine(k, v, cc)
    BY <1>1, <1>2, <1>3, <1>4, H2ConnConstants, AnnouncedFits
    DEF Fine, Placed, WindowFine, StreamRec, ServerRec
  <1>10. Goes(s, k, v) /\ UNCHANGED <<sc, cc>> BY <1>2, <1>3 DEF AddStream, Goes
  <1>11. k.tok = cs[s].tok /\ InPipe(k) <= InPipe(cs[s])
    BY <1>1, <1>2 DEF InPipe, StreamRec
  <1>. QED BY <1>5, <1>6, <1>7, <1>8, <1>9, <1>10, <1>11, Quiet DEF Fine

\* A step of doRequest to pc p that changes what is left to be sent at most.
LEMMA MoveInv ==
  ASSUME H2ConnInv, NEW s \in Stream, UNCHANGED <<sc, cc, sv>>,
         cs[s].pc \in SendingAt, NEW p \in {"w100", "read", "flow", "cond", "last"},
         NEW l \in Nat, NEW b \in Nat, NEW f \in BOOLEAN, cs[s].tok = 0,
         cs' = Becomes(s, [cs[s] EXCEPT !.pc = p, !.left = l, !.buf = b, !.eof = f])
  PROVE  H2ConnInv'
  <1>1. /\ cs[s] \in StreamRec /\ sv[s] \in ServerRec /\ cc \in ConnRec
        /\ Fine(cs[s], sv[s], cc) /\ sv = ServerBecomes(s, sv[s])
    BY Here
  <1>2. PICK k : k = [cs[s] EXCEPT !.pc = p, !.left = l, !.buf = b, !.eof = f] OBVIOUS
  <1>3. k \in StreamRec BY <1>1, <1>2 DEF StreamRec, Places
  <1>4. Placed(k, sv[s]) BY <1>1, <1>2 DEF Fine, Placed, StreamRec, SendingAt
  <1>5. Over(k, sv[s]) BY <1>1, <1>2 DEF Fine, Over, StreamRec, SendingAt
  <1>6. Delivered(k, sv[s], cc) BY <1>1, <1>2 DEF Fine, Delivered, StreamRec, SendingAt
  <1>7. WindowFine(k, sv[s], cc) BY <1>1, <1>2 DEF Fine, WindowFine, StreamRec, SendingAt
  <1>8. Goes(s, k, sv[s]) BY <1>1, <1>2 DEF Goes
  <1>9. k.tok = cs[s].tok /\ InPipe(k) <= InPipe(cs[s])
    BY <1>1, <1>2 DEF InPipe, StreamRec
  <1>. QED BY <1>1, <1>3, <1>4, <1>5, <1>6, <1>7, <1>8, <1>9, Quiet DEF Fine

\* What a stream is when its body is no longer written; b: it was written to its end.
Halted(s, to, e, b) == [cs[s] EXCEPT !.pc = to, !.err = e, !.left = 0, !.buf = 0, !.eof = FALSE,
                                     !.tok = 0, !.flow = 0, !.sentEnd = b]

LEMMA HaltedType ==
  ASSUME NEW s, cs[s] \in StreamRec, NEW to \in Places, NEW e \in Errors, NEW b \in BOOLEAN
  PROVE  Halted(s, to, e, b) \in StreamRec
  <1>1. 0 \in Nat /\ 0 \in Int /\ FALSE \in BOOLEAN OBVIOUS
  <1>2. PICK k : k = [cs[s] EXCEPT !.pc = to, !.err = e, !.left = 0, !.buf = 0, !.eof = FALSE,
                                   !.tok = 0, !.flow = 0, !.sentEnd = b]
    OBVIOUS
  <1>3. k \in StreamRec BY <1>1, <1>2 DEF StreamRec
  <1>. QED BY <1>2, <1>3 DEF Halted

LEMMA HaltedFine ==
  ASSUME H2ConnInv, NEW s \in Stream, NEW to \in {"wait", "close"}, NEW e \in Errors,
         cs[s].pc \in SendingAt \cup {"last", "wait"},
         to = "close" /\ e = "none" => cs[s].peer, e = "peer" => sv[s].reset,
         NEW b \in BOOLEAN, b = TRUE \/ b = cs[s].sentEnd,
         NEW k, k = Halted(s, to, e, b)
  PROVE  /\ k \in StreamRec /\ k.tok = 0 /\ InPipe(k) = InPipe(cs[s])
         /\ Placed(k, sv[s]) /\ Over(k, sv[s]) /\ Delivered(k, sv[s], cc)
         /\ WindowFine(k, sv[s], cc)
  <1>1. /\ cs[s] \in StreamRec /\ sv[s] \in ServerRec /\ cc \in ConnRec
        /\ Fine(cs[s], sv[s], cc)
    BY Here
  <1>2. k = [cs[s] EXCEPT !.pc = to, !.err = e, !.left = 0, !.buf = 0, !.eof = FALSE,
                          !.tok = 0, !.flow = 0, !.sentEnd = b]
    BY DEF Halted
  <1>3. to \in Places BY DEF Places
  <1>4. k \in StreamRec BY <1>1, <1>3, HaltedType
  <1>5. Placed(k, sv[s]) BY <1>1, <1>2 DEF Fine, Placed, StreamRec, SendingAt
  <1>6. Over(k, sv[s]) BY <1>1, <1>2 DEF Fine, Over, StreamRec, SendingAt
  <1>7. Delivered(k, sv[s], cc) BY <1>1, <1>2 DEF Fine, Delivered, StreamRec, SendingAt
  <1>8. WindowFine(k, sv[s], cc) BY <1>1, <1>2 DEF Fine, WindowFine, StreamRec, SendingAt
  <1>9. k.tok = 0 /\ InPipe(k) = InPipe(cs[s]) BY <1>1, <1>2 DEF InPipe, StreamRec
  <1>. QED BY <1>4, <1>5, <1>6, <1>7, <1>8, <1>9

LEMMA HaltInv ==
  ASSUME H2ConnInv, NEW s \in Stream, NEW to \in {"wait", "close"}, NEW e \in Errors,
         cs[s].pc \in SendingAt \cup {"last", "wait"},
         to = "close" /\ e = "none" => cs[s].peer, e = "peer" => sv[s].reset,
         NEW b \in BOOLEAN, b = TRUE \/ b = cs[s].sentEnd,
         cc.reading => cs[s].tok = 0,
         cs' = Becomes(s, Halted(s, to, e, b)), UNCHANGED <<sc, cc, sv>>
  PROVE  H2ConnInv'
  <1>1. cs[s] \in StreamRec /\ sv[s] \in ServerRec /\ sv = ServerBecomes(s, sv[s]) BY Here
  <1>2. PICK k : k = Halted(s, to, e, b) OBVIOUS
  <1>3. /\ k \in StreamRec /\ k.tok = 0 /\ InPipe(k) = InPipe(cs[s])
        /\ Placed(k, sv[s]) /\ Over(k, sv[s]) /\ Delivered(k, sv[s], cc)
        /\ WindowFine(k, sv[s], cc)
    BY <1>2, HaltedFine
  <1>4. Goes(s, k, sv[s]) BY <1>1, <1>2 DEF Goes
  <1>5. InPipe(k) <= InPipe(cs[s]) BY <1>1, <1>3 DEF InPipe, StreamRec
  <1>. QED BY <1>1, <1>3, <1>4, <1>5, Quiet DEF Fine

LEMMA StopInv ==
  ASSUME H2ConnInv, NEW s \in Stream, NEW to \in {"wait", "close"}, NEW e \in Errors,
         cs[s].pc \in SendingAt \cup {"last", "wait"},
         to = "close" /\ e = "none" => cs[s].peer, e = "peer" => sv[s].reset,
         cc.reading => cs[s].tok = 0,
         cs' = Stop(s, to, e), UNCHANGED <<sc, cc, sv>>
  PROVE  H2ConnInv'
  <1>1. cs[s] \in StreamRec BY Here
  <1>2. cs[s].sentEnd \in BOOLEAN BY <1>1 DEF StreamRec
  <1>3. Stopped(s, to, e) = Halted(s, to, e, cs[s].sentEnd)
    BY <1>1 DEF Stopped, Halted, StreamRec
  <1>4. cs' = Becomes(s, Halted(s, to, e, cs[s].sentEnd)) BY <1>3 DEF Stop
  <1>. QED BY <1>2, <1>4, HaltInv

\* What a select over abort and the context returns.
LEMMA EndErrorsKnown ==
  ASSUME H2ConnInv, NEW s \in Stream, NEW e \in EndErrors(s)
  PROVE  e \in Errors \ {"none"} /\ (e = "peer" => sv[s].reset)
  <1>1. cs[s] \in StreamRec /\ Fine(cs[s], sv[s], cc) BY Here
  <1>. QED BY <1>1 DEF EndErrors, Fine, Over, StreamRec, Errors

\* Fail with an error that a select returned.
LEMMA FailInv ==
  ASSUME H2ConnInv, NEW s \in Stream, cs[s].pc \in SendingAt \cup {"last", "wait"},
         cs[s].pc # "data", NEW e \in EndErrors(s), cs' = Fail(s, e), UNCHANGED <<sc, cc, sv>>
  PROVE  H2ConnInv'
  <1>1. e \in Errors /\ e # "none" /\ (e = "peer" => sv[s].reset) BY EndErrorsKnown
  <1>2. cs[s].tok = 0 BY Here DEF Fine, Placed
  <1>. QED BY <1>1, <1>2, StopInv DEF Fail

LEMMA WriteHeadersInv ==
  ASSUME H2ConnInv, NEW s \in Stream, WriteHeaders(s), UNCHANGED sc PROVE H2ConnInv'
  <1>1. /\ cs[s] \in StreamRec /\ sv[s] \in ServerRec /\ cc \in ConnRec
        /\ Fine(cs[s], sv[s], cc)
    BY Here
  <1>2. cs[s].pc = "hdrs" /\ UNCHANGED <<sc, cc>> BY DEF WriteHeaders
  <1>3. CASE UNCHANGED sv /\ \E e \in EndErrors(s) : cs' = Fail(s, e)
    BY <1>2, <1>3, FailInv DEF SendingAt
  <1>4. ASSUME cs' = Becomes(s, [cs[s] EXCEPT !.sentHdr = TRUE, !.sentEnd = ~HasBody(s),
                                              !.pc = IF ~HasBody(s) THEN "wait"
                                                     ELSE IF s \in sc.expect THEN "w100" ELSE "read"]),
               sv' = ServerBecomes(s, [sv[s] EXCEPT !.seen = TRUE])
        PROVE  H2ConnInv'
    <2>1. PICK p : p = IF ~HasBody(s) THEN "wait"
                       ELSE IF s \in sc.expect THEN "w100" ELSE "read" OBVIOUS
    <2>2. PICK b : b = ~HasBody(s) OBVIOUS
    <2>3. PICK k : k = [cs[s] EXCEPT !.sentHdr = TRUE, !.sentEnd = b, !.pc = p] OBVIOUS
    <2>4. PICK v : v = [sv[s] EXCEPT !.seen = TRUE] OBVIOUS
    <2>5. p \in {"wait", "w100", "read"} /\ b \in BOOLEAN BY <2>1, <2>2
    <2>6. k \in StreamRec BY <1>1, <2>3, <2>5 DEF StreamRec, Places
    <2>7. v \in ServerRec BY <1>1, <2>4 DEF ServerRec
    <2>8. Placed(k, v) BY <1>1, <1>2, <2>3, <2>4, <2>5 DEF Fine, Placed, StreamRec, ServerRec
    <2>9. Over(k, v) BY <1>1, <1>2, <2>3, <2>4, <2>5 DEF Fine, Over, StreamRec, ServerRec
    <2>10. Delivered(k, v, cc)
      BY <1>1, <1>2, <2>3, <2>4, <2>5 DEF Fine, Delivered, StreamRec, ServerRec
    <2>11. WindowFine(k, v, cc)
      BY <1>1, <1>2, <2>3, <2>4, <2>5 DEF Fine, WindowFine, StreamRec, ServerRec, SendingAt
    <2>12. Goes(s, k, v) BY <1>4, <2>1, <2>2, <2>3, <2>4 DEF Goes
    <2>13. k.tok = cs[s].tok /\ InPipe(k) <= InPipe(cs[s])
      BY <1>1, <2>3 DEF InPipe, StreamRec
    <2>. QED BY <1>2, <2>6, <2>7, <2>8, <2>9, <2>10, <2>11, <2>12, <2>13, Quiet DEF Fine
  <1>. QED BY <1>3, <1>4 DEF WriteHeaders

LEMMA Wait100Inv ==
  ASSUME H2ConnInv, NEW s \in Stream, Wait100(s), UNCHANGED sc PROVE H2ConnInv'
  <1>1. cs[s] \in StreamRec /\ Fine(cs[s], sv[s], cc) BY Here
  <1>2. cs[s].pc = "w100" /\ UNCHANGED <<sc, cc, sv>> BY DEF Wait100
  <1>3. CASE cs' = Step(s, "read")
    <2>1. [cs[s] EXCEPT !.pc = "read"]
             = [cs[s] EXCEPT !.pc = "read", !.left = cs[s].left, !.buf = cs[s].buf, !.eof = cs[s].eof]
      BY <1>1 DEF StreamRec
    <2>2. cs[s].left \in Nat /\ cs[s].buf \in Nat /\ cs[s].eof \in BOOLEAN BY <1>1 DEF StreamRec
    <2>3. cs[s].tok = 0 /\ cs[s].pc \in SendingAt BY <1>1, <1>2 DEF Fine, Placed, SendingAt
    <2>4. cs' = Becomes(s, [cs[s] EXCEPT !.pc = "read", !.left = cs[s].left, !.buf = cs[s].buf,
                                         !.eof = cs[s].eof])
      BY <1>3, <2>1 DEF Step
    <2>. QED BY <1>2, <2>2, <2>3, <2>4, MoveInv
  <1>4. CASE \E e \in EndErrors(s) : cs' = Fail(s, e)
    BY <1>2, <1>4, FailInv DEF SendingAt
  <1>. QED BY <1>3, <1>4 DEF Wait100

LEMMA ReadBodyInv ==
  ASSUME H2ConnInv, NEW s \in Stream, NEW n, NEW eof \in BOOLEAN, ReadBody(s, n, eof), UNCHANGED sc
  PROVE  H2ConnInv'
  <1>1. cs[s] \in StreamRec /\ Fine(cs[s], sv[s], cc) BY Here
  <1>2. cs[s].pc = "read" /\ UNCHANGED <<sc, cc, sv>> /\ n \in 0..cs[s].left BY DEF ReadBody
  <1>3. cs[s].left \in Nat BY <1>1 DEF StreamRec
  <1>4. n \in Nat /\ cs[s].left - n \in Nat BY <1>2, <1>3
  <1>5. cs[s].tok = 0 /\ cs[s].pc \in SendingAt BY <1>1, <1>2 DEF Fine, Placed, SendingAt
  <1>6. CASE cs' = Stop(s, "wait", "none")
    BY <1>2, <1>5, <1>6, StopInv DEF Errors
  <1>7. ASSUME cs' = Becomes(s, [cs[s] EXCEPT !.left = @ - n, !.buf = n, !.eof = eof,
                                              !.pc = IF n > 0 THEN "flow" ELSE "last"])
        PROVE  H2ConnInv'
    <2>1. PICK p : p = IF n > 0 THEN "flow" ELSE "last" OBVIOUS
    <2>2. p \in {"flow", "last"} BY <2>1
    <2>3. cs' = Becomes(s, [cs[s] EXCEPT !.pc = p, !.left = cs[s].left - n, !.buf = n, !.eof = eof])
      BY <1>1, <1>7, <2>1 DEF StreamRec
    <2>. QED BY <1>2, <1>4, <1>5, <2>2, <2>3, MoveInv
  <1>. QED BY <1>6, <1>7 DEF ReadBody

LEMMA ReadBodyFailsInv ==
  ASSUME H2ConnInv, NEW s \in Stream, ReadBodyFails(s), UNCHANGED sc PROVE H2ConnInv'
  <1>1. cs[s] \in StreamRec /\ Fine(cs[s], sv[s], cc) BY Here
  <1>2. cs[s].pc = "read" /\ UNCHANGED <<sc, cc, sv>> BY DEF ReadBodyFails
  <1>3. cs[s].tok = 0 /\ cs[s].pc \in SendingAt BY <1>1, <1>2 DEF Fine, Placed, SendingAt
  <1>4. cs' = Stop(s, "wait", "none") \/ cs' = Stop(s, "close", "err")
    BY DEF ReadBodyFails, Fail
  <1>. QED BY <1>2, <1>3, <1>4, StopInv DEF Errors

LEMMA WriteLastInv ==
  ASSUME H2ConnInv, NEW s \in Stream, WriteLast(s), UNCHANGED sc PROVE H2ConnInv'
  <1>1. cs[s] \in StreamRec /\ Fine(cs[s], sv[s], cc) BY Here
  <1>2. cs[s].pc = "last" /\ UNCHANGED <<sc, cc, sv>> BY DEF WriteLast
  <1>3. cs[s].tok = 0 BY <1>1, <1>2 DEF Fine, Placed
  <1>4. CASE cs[s].abort # "none" /\ cs' = Fail(s, cs[s].abort)
    BY <1>2, <1>4, FailInv DEF EndErrors
  <1>5. CASE cs' = Becomes(s, [Stopped(s, "wait", "none") EXCEPT !.sentEnd = TRUE])
    <2>1. [Stopped(s, "wait", "none") EXCEPT !.sentEnd = TRUE] = Halted(s, "wait", "none", TRUE)
      BY <1>1 DEF Stopped, Halted, StreamRec
    <2>. QED BY <1>2, <1>3, <1>5, <2>1, HaltInv DEF Errors
  <1>. QED BY <1>4, <1>5 DEF WriteLast

LEMMA WriteFailsInv ==
  ASSUME H2ConnInv, NEW s \in Stream, WriteFails(s), UNCHANGED sc PROVE H2ConnInv'
  <1>1. cs[s].pc \in SendingAt \cup {"last"} /\ ~cc.reading /\ UNCHANGED <<sc, cc, sv>>
        /\ cs' = Stop(s, "close", "err")
    BY DEF WriteFails, Fail, SendingAt
  <1>. QED BY <1>1, StopInv DEF Errors

LEMMA WaitPeerInv ==
  ASSUME H2ConnInv, NEW s \in Stream, WaitPeer(s), UNCHANGED sc PROVE H2ConnInv'
  <1>1. cs[s] \in StreamRec /\ Fine(cs[s], sv[s], cc) BY Here
  <1>2. cs[s].pc = "wait" /\ UNCHANGED <<sc, cc, sv>> BY DEF WaitPeer
  <1>3. cs[s].tok = 0 BY <1>1, <1>2 DEF Fine, Placed
  <1>4. CASE cs[s].peer /\ cs' = Fail(s, "none")
    BY <1>2, <1>3, <1>4, StopInv DEF Errors, Fail
  <1>5. CASE \E e \in EndErrors(s) : cs' = Fail(s, e) BY <1>2, <1>5, FailInv
  <1>6. CASE cs' = Fail(s, "err")
    BY <1>2, <1>3, <1>6, StopInv DEF Errors, Fail
  <1>. QED BY <1>4, <1>5, <1>6 DEF WaitPeer

LEMMA CleanBodyInv ==
  ASSUME H2ConnInv, NEW s \in Stream, CleanBody(s), UNCHANGED sc PROVE H2ConnInv'
  <1>1. /\ cs[s] \in StreamRec /\ sv[s] \in ServerRec /\ cc \in ConnRec
        /\ Fine(cs[s], sv[s], cc) /\ sv = ServerBecomes(s, sv[s])
    BY Here
  <1>2. cs[s].pc = "close" /\ UNCHANGED <<sc, cc, sv>> BY DEF CleanBody
  <1>3. PICK b : b = HasBody(s) OBVIOUS
  <1>4. PICK k : k = [cs[s] EXCEPT !.bodyClosed = b, !.pc = "clean"] OBVIOUS
  <1>5. b \in BOOLEAN BY <1>3 DEF HasBody
  <1>6. k \in StreamRec BY <1>1, <1>4, <1>5 DEF StreamRec, Places
  <1>7. Placed(k, sv[s]) BY <1>1, <1>2, <1>4 DEF Fine, Placed, StreamRec
  <1>8. Over(k, sv[s]) BY <1>1, <1>2, <1>4 DEF Fine, Over, StreamRec
  <1>9. Delivered(k, sv[s], cc) BY <1>1, <1>2, <1>4 DEF Fine, Delivered, StreamRec
  <1>10. WindowFine(k, sv[s], cc) BY <1>1, <1>2, <1>4 DEF Fine, WindowFine, StreamRec, SendingAt
  <1>11. Goes(s, k, sv[s]) BY <1>1, <1>2, <1>3, <1>4 DEF Goes, CleanBody
  <1>12. k.tok = cs[s].tok /\ InPipe(k) <= InPipe(cs[s]) BY <1>1, <1>4 DEF InPipe, StreamRec
  <1>. QED BY <1>1, <1>2, <1>6, <1>7, <1>8, <1>9, <1>10, <1>11, <1>12, Quiet DEF Fine

\* The tokens a writer takes leave both windows.
LEMMA AwaitFlowControlInv ==
  ASSUME H2ConnInv, NEW s \in Stream, AwaitFlowControl(s), UNCHANGED sc PROVE H2ConnInv'
  <1>1. /\ cs[s] \in StreamRec /\ sv[s] \in ServerRec /\ cc \in ConnRec
        /\ Fine(cs[s], sv[s], cc) /\ sv = ServerBecomes(s, sv[s])
    BY Here
  <1>2. cs[s].pc = "flow" /\ UNCHANGED <<sc, sv>> BY DEF AwaitFlowControl
  <1>3. cs[s].tok = 0 /\ cs[s].pc \in SendingAt BY <1>1, <1>2 DEF Fine, Placed, SendingAt
  <1>4. PICK n : n = Min2(Min2(Available(s), cs[s].buf), MaxFrame) OBVIOUS
  <1>5. CASE UNCHANGED cc /\ cs' = Fail(s, "err")
    BY <1>2, <1>3, <1>5, StopInv DEF Errors, Fail
  <1>6. CASE UNCHANGED cc /\ cs' = Stop(s, "wait", "none")
    BY <1>2, <1>3, <1>6, StopInv DEF Errors
  <1>7. CASE UNCHANGED cc /\ \E e \in EndErrors(s) : cs' = Fail(s, e)
    BY <1>2, <1>3, <1>7, FailInv
  <1>8. CASE UNCHANGED cc /\ cs' = Step(s, "cond")
    <2>1. [cs[s] EXCEPT !.pc = "cond"]
             = [cs[s] EXCEPT !.pc = "cond", !.left = cs[s].left, !.buf = cs[s].buf, !.eof = cs[s].eof]
      BY <1>1 DEF StreamRec
    <2>2. cs[s].left \in Nat /\ cs[s].buf \in Nat /\ cs[s].eof \in BOOLEAN BY <1>1 DEF StreamRec
    <2>3. cs' = Becomes(s, [cs[s] EXCEPT !.pc = "cond", !.left = cs[s].left, !.buf = cs[s].buf,
                                         !.eof = cs[s].eof])
      BY <1>8, <2>1 DEF Step
    <2>. QED BY <1>2, <1>3, <1>8, <2>2, <2>3, MoveInv
  <1>9. ASSUME Available(s) > 0, cc' = [cc EXCEPT !.flow = TakeFromConn(s, n)],
               cs' = Becomes(s, [cs[s] EXCEPT !.flow = @ - n, !.tok = n, !.pc = "data"])
        PROVE  H2ConnInv'
    <2>1. cs[s].flow \in Int /\ cs[s].buf \in Nat /\ cc.flow \in Nat /\ MaxFrame \in Nat
      BY <1>1, H2ConnConstants DEF StreamRec, ConnRec
    <2>2. n \in Nat /\ n <= cc.flow /\ n <= cs[s].buf
      BY <1>4, <1>9, <2>1 DEF Min2, Available
    <2>3. PICK m : m = cs[s].flow - n OBVIOUS
    <2>4. m \in Int /\ m + n = cs[s].flow /\ m <= cs[s].flow BY <2>1, <2>2, <2>3
    <2>5. PICK k : k = [cs[s] EXCEPT !.flow = m, !.tok = n, !.pc = "data"] OBVIOUS
    <2>6. k \in StreamRec BY <1>1, <2>2, <2>4, <2>5 DEF StreamRec, Places
    <2>7. cc' = [cc EXCEPT !.flow = cc.flow - n] BY <1>9 DEF TakeFromConn
    <2>8. cc.flow - n \in Nat BY <2>1, <2>2
    <2>9. /\ cc' \in ConnRec /\ cc'.flow = cc.flow - n /\ cc'.reading = cc.reading
          /\ cc'.init = cc.init /\ cc'.win = cc.win /\ cc'.flowErr = cc.flowErr
          /\ cc'.credit = cc.credit /\ cc'.avail = cc.avail /\ cc'.unsent = cc.unsent
      BY <1>1, <2>7, <2>8 DEF ConnRec
    <2>10. Placed(k, sv[s]) BY <1>1, <1>2, <2>2, <2>5 DEF Fine, Placed, StreamRec
    <2>11. Over(k, sv[s]) BY <1>1, <1>2, <2>5 DEF Fine, Over, StreamRec
    <2>12. Delivered(k, sv[s], cc') BY <1>1, <1>2, <2>5, <2>9 DEF Fine, Delivered, StreamRec
    <2>13. WindowFine(k, sv[s], cc')
      <3>1. /\ k.pc = "data" /\ k.flow = m /\ k.tok = n /\ k.avail = cs[s].avail
            /\ k.unsent = cs[s].unsent /\ k.pbuf = cs[s].pbuf /\ k.hand = cs[s].hand
        BY <1>1, <2>5 DEF StreamRec
      <3>2. cc.init \in Nat BY <1>1 DEF ConnRec
      <3>. QED BY <1>1, <1>2, <1>3, <2>1, <2>2, <2>4, <2>9, <3>1, <3>2, H2ConnConstants
           DEF Fine, WindowFine, SendingAt
    <2>14. Fine(k, sv[s], cc') BY <2>10, <2>11, <2>12, <2>13 DEF Fine
    <2>15. Goes(s, k, sv[s]) BY <1>1, <1>2, <1>9, <2>3, <2>5 DEF Goes
    <2>16. /\ Types'
           /\ \A t \in Stream : Fine(cs'[t], sv'[t], cc')
           /\ Total(Toks) \in Nat /\ Total(Pipes) \in Nat
           /\ Total(Toks)' \in Nat /\ Total(Pipes)' \in Nat
           /\ Total(Toks)' = Total(Toks) + k.tok - cs[s].tok
           /\ Total(Pipes)' = Total(Pipes) + InPipe(k) - InPipe(cs[s])
      BY <1>1, <2>6, <2>9, <2>14, <2>15, GoesFine DEF Calm
    <2>17. k.tok = n /\ InPipe(k) = InPipe(cs[s]) /\ InPipe(cs[s]) \in Nat
      BY <1>1, <2>5 DEF InPipe, StreamRec
    <2>18. ConnFine(cc', Total(Toks)', Total(Pipes)')
      BY <1>3, <2>1, <2>2, <2>9, <2>16, <2>17 DEF H2ConnInv, ConnFine
    <2>. QED BY <2>16, <2>18 DEF H2ConnInv
  <1>. QED BY <1>4, <1>5, <1>6, <1>7, <1>8, <1>9 DEF AwaitFlowControl

\* The server sees what was taken when it is written.
LEMMA WriteDataInv ==
  ASSUME H2ConnInv, NEW s \in Stream, WriteData(s), UNCHANGED sc PROVE H2ConnInv'
  <1>1. /\ cs[s] \in StreamRec /\ sv[s] \in ServerRec /\ cc \in ConnRec
        /\ Fine(cs[s], sv[s], cc)
    BY Here
  <1>2. cs[s].pc = "data" /\ cs[s].pc \in SendingAt BY DEF WriteData, SendingAt
  <1>3. PICK n, r : n = cs[s].tok /\ r = cs[s].buf - cs[s].tok OBVIOUS
  <1>4. n \in Nat /\ r \in Nat BY <1>1, <1>3 DEF Fine, Placed, StreamRec
  <1>5. sv[s].win \in Int /\ cc.win \in Int BY <1>1 DEF ServerRec, ConnRec
  <1>6. PICK v : v = [sv[s] EXCEPT !.win = sv[s].win - n] OBVIOUS
  <1>7. /\ v \in ServerRec /\ v.win = sv[s].win - n /\ v.seen = sv[s].seen /\ v.hdr = sv[s].hdr
        /\ v.ended = sv[s].ended /\ v.reset = sv[s].reset /\ v.rst = sv[s].rst
        /\ v.sent = sv[s].sent /\ v.credit = sv[s].credit
    BY <1>1, <1>4, <1>5, <1>6 DEF ServerRec
  <1>8. cc' = [cc EXCEPT !.win = cc.win - n] BY <1>3 DEF WriteData
  <1>9. /\ cc' \in ConnRec /\ cc'.flow = cc.flow /\ cc'.reading = cc.reading
        /\ cc'.init = cc.init /\ cc'.win = cc.win - n /\ cc'.flowErr = cc.flowErr
        /\ cc'.credit = cc.credit /\ cc'.avail = cc.avail /\ cc'.unsent = cc.unsent
    BY <1>1, <1>4, <1>5, <1>8 DEF ConnRec
  <1>10. sv' = ServerBecomes(s, v) BY <1>3, <1>6 DEF WriteData
  <1>11. SUFFICES ASSUME NEW k \in StreamRec, cs' = Becomes(s, k), k.tok = 0,
                         InPipe(k) = InPipe(cs[s]),
                         Placed(k, v), Over(k, v), Delivered(k, v, cc'), WindowFine(k, v, cc')
                  PROVE  H2ConnInv'
    <2>1. CASE cs' = Becomes(s, [Stopped(s, "wait", "none") EXCEPT !.sentEnd = TRUE])
      <3>1. PICK k : k = Halted(s, "wait", "none", TRUE) OBVIOUS
      <3>2. [Stopped(s, "wait", "none") EXCEPT !.sentEnd = TRUE] = k
        BY <1>1, <3>1 DEF Stopped, Halted, StreamRec
      <3>3. /\ k \in StreamRec /\ k.tok = 0 /\ InPipe(k) = InPipe(cs[s])
            /\ Placed(k, sv[s]) /\ Over(k, sv[s]) /\ Delivered(k, sv[s], cc)
            /\ WindowFine(k, sv[s], cc)
        BY <1>2, <3>1, HaltedFine DEF Errors
      <3>4. k.pc = "wait" BY <1>1, <3>1 DEF Halted, StreamRec
      <3>5. Placed(k, v) /\ Over(k, v) BY <1>7, <3>3 DEF Placed, Over
      <3>6. Delivered(k, v, cc') /\ WindowFine(k, v, cc')
        BY <1>7, <1>9, <3>3, <3>4 DEF Delivered, WindowFine, SendingAt
      <3>. QED BY <1>11, <2>1, <3>2, <3>3, <3>5, <3>6
    <2>2. ASSUME cs' = Becomes(s, [cs[s] EXCEPT !.buf = r, !.tok = 0,
                                                !.pc = IF r > 0 THEN "flow" ELSE "read"])
          PROVE  H2ConnInv'
      <3>1. PICK p : p = IF r > 0 THEN "flow" ELSE "read" OBVIOUS
      <3>2. p \in {"flow", "read"} BY <3>1
      <3>3. PICK k : k = [cs[s] EXCEPT !.buf = r, !.tok = 0, !.pc = p] OBVIOUS
      <3>4. k \in StreamRec BY <1>1, <1>4, <3>2, <3>3 DEF StreamRec, Places
      <3>5. Placed(k, v) BY <1>1, <1>2, <1>4, <1>7, <3>2, <3>3 DEF Fine, Placed, StreamRec
      <3>6. Over(k, v) BY <1>1, <1>2, <1>7, <3>2, <3>3 DEF Fine, Over, StreamRec
      <3>7. Delivered(k, v, cc') BY <1>1, <1>2, <1>7, <1>9, <3>2, <3>3 DEF Fine, Delivered, StreamRec
      <3>8. WindowFine(k, v, cc')
        <4>1. /\ k.flow = cs[s].flow /\ k.tok = 0 /\ k.avail = cs[s].avail /\ k.flow \in Int
              /\ k.unsent = cs[s].unsent /\ k.pbuf = cs[s].pbuf /\ k.hand = cs[s].hand
          BY <1>1, <3>3 DEF StreamRec
        <4>. QED BY <1>1, <1>2, <1>3, <1>4, <1>5, <1>7, <1>9, <4>1 DEF Fine, WindowFine
      <3>9. k.tok = 0 /\ InPipe(k) = InPipe(cs[s]) BY <1>1, <3>3 DEF InPipe, StreamRec
      <3>10. cs' = Becomes(s, k) BY <2>2, <3>1, <3>3
      <3>. QED BY <1>11, <3>4, <3>5, <3>6, <3>7, <3>8, <3>9, <3>10
    <2>. QED BY <1>3, <2>1, <2>2 DEF WriteData
  <1>12. Goes(s, k, v) /\ Fine(k, v, cc') BY <1>10, <1>11 DEF Goes, Fine
  <1>13. /\ Types'
         /\ \A t \in Stream : Fine(cs'[t], sv'[t], cc')
         /\ Total(Toks) \in Nat /\ Total(Pipes) \in Nat
         /\ Total(Toks)' \in Nat /\ Total(Pipes)' \in Nat
         /\ Total(Toks)' = Total(Toks) + k.tok - cs[s].tok
         /\ Total(Pipes)' = Total(Pipes) + InPipe(k) - InPipe(cs[s])
    BY <1>7, <1>9, <1>11, <1>12, GoesFine DEF Calm
  <1>14. InPipe(cs[s]) \in Nat /\ cc.flow \in Nat BY <1>1 DEF InPipe, StreamRec, ConnRec
  <1>15. ConnFine(cc', Total(Toks)', Total(Pipes)')
    BY <1>3, <1>4, <1>5, <1>9, <1>11, <1>13, <1>14 DEF H2ConnInv, ConnFine
  <1>. QED BY <1>13, <1>15 DEF H2ConnInv

\* Whoever ended the stream, the server knows it when it is forgotten.
LEMMA CleanUpInv ==
  ASSUME H2ConnInv, NEW s \in Stream, CleanUp(s), UNCHANGED sc PROVE H2ConnInv'
  <1>1. /\ cs[s] \in StreamRec /\ sv[s] \in ServerRec /\ cc \in ConnRec
        /\ Fine(cs[s], sv[s], cc)
    BY Here
  <1>2. cs[s].pc = "clean" /\ UNCHANGED <<sc, cc>> BY DEF CleanUp
  <1>3. PICK e : e = CleanError(s) OBVIOUS
  <1>4. e \in Errors /\ (e = "peer" => sv[s].reset)
    BY <1>1, <1>3 DEF CleanError, Fine, Over, StreamRec, Errors
  <1>5. PICK p : p = OrElse(cs[s].perr, "err") OBVIOUS
  <1>6. p \in Ends /\ (p = "eof" <=> cs[s].perr = "eof") /\ p # "none"
    BY <1>1, <1>5 DEF OrElse, StreamRec, Ends
  <1>7. PICK k : k = [cs[s] EXCEPT !.pc = "forget", !.perr = p] OBVIOUS
  <1>8. PICK b : b = (sv[s].rst \/ NeedsReset(s, e)) OBVIOUS
  <1>9. PICK v : v = [sv[s] EXCEPT !.rst = b] OBVIOUS
  <1>10. b \in BOOLEAN BY <1>8
  <1>11. v \in ServerRec BY <1>1, <1>9, <1>10 DEF ServerRec
  <1>12. k \in StreamRec BY <1>1, <1>6, <1>7 DEF StreamRec, Places
  <1>13. Placed(k, v) BY <1>1, <1>2, <1>7, <1>9 DEF Fine, Placed, StreamRec, ServerRec
  <1>14. Over(k, v)
    <2>1. sv[s].seen => sv[s].reset \/ b \/ (cs[s].sentEnd /\ sv[s].ended)
      BY <1>1, <1>2, <1>3, <1>8 DEF CleanError, NeedsReset, Fine, Over, Placed, StreamRec, Errors
    <2>2. /\ k.pc = "forget" /\ k.peer = cs[s].peer /\ k.abort = cs[s].abort /\ k.err = cs[s].err
          /\ k.sentEnd = cs[s].sentEnd
      BY <1>1, <1>7 DEF StreamRec
    <2>3. v.ended = sv[s].ended /\ v.reset = sv[s].reset /\ v.rst = b /\ v.seen = sv[s].seen
      BY <1>1, <1>9 DEF ServerRec
    <2>. QED BY <1>1, <2>1, <2>2, <2>3 DEF Fine, Over
  <1>15. Delivered(k, v, cc) BY <1>1, <1>2, <1>6, <1>7, <1>9 DEF Fine, Delivered, StreamRec, ServerRec
  <1>16. WindowFine(k, v, cc)
    BY <1>1, <1>2, <1>7, <1>9 DEF Fine, WindowFine, StreamRec, ServerRec, SendingAt
  <1>17. Goes(s, k, v)
    <2>1. sv' = ServerBecomes(s, v) BY <1>3, <1>8, <1>9 DEF CleanUp
    <2>2. cs' = IF e = "none" THEN Becomes(s, k) ELSE Abort(Becomes(s, k), {s}, e)
      BY <1>3, <1>5, <1>7 DEF CleanUp
    <2>3. {s} \in SUBSET Stream OBVIOUS
    <2>4. e # "none" => e \in {"err", "ctx", "peer"} BY <1>4 DEF Errors
    <2>5. v.reset = sv[s].reset BY <1>1, <1>9 DEF ServerRec
    <2>. QED BY <1>4, <2>1, <2>2, <2>3, <2>4, <2>5 DEF Goes
  <1>18. k.tok = cs[s].tok /\ InPipe(k) <= InPipe(cs[s]) BY <1>1, <1>7 DEF InPipe, StreamRec
  <1>. QED BY <1>2, <1>11, <1>12, <1>13, <1>14, <1>15, <1>16, <1>17, <1>18, Quiet DEF Fine

LEMMA ForgetStreamIDInv ==
  ASSUME H2ConnInv, NEW s \in Stream, ForgetStreamID(s), UNCHANGED sc PROVE H2ConnInv'
  <1>1. /\ cs[s] \in StreamRec /\ sv[s] \in ServerRec /\ cc \in ConnRec
        /\ Fine(cs[s], sv[s], cc) /\ sv = ServerBecomes(s, sv[s])
    BY Here
  <1>2. cs[s].pc = "forget" /\ UNCHANGED <<sc, cc, sv>> BY DEF ForgetStreamID
  <1>3. PICK k : k = [cs[s] EXCEPT !.pc = "done", !.err = "none", !.n1xx = 0] OBVIOUS
  <1>4. k \in StreamRec BY <1>1, <1>3 DEF StreamRec, Places, Errors
  <1>5. Placed(k, sv[s]) BY <1>1, <1>2, <1>3 DEF Fine, Placed, StreamRec
  <1>6. Over(k, sv[s]) BY <1>1, <1>2, <1>3 DEF Fine, Over, StreamRec
  <1>7. Delivered(k, sv[s], cc) BY <1>1, <1>2, <1>3 DEF Fine, Delivered, StreamRec
  <1>8. WindowFine(k, sv[s], cc) BY <1>1, <1>2, <1>3 DEF Fine, WindowFine, StreamRec, SendingAt
  <1>9. Goes(s, k, sv[s])
    <2>1. \/ cs' = Broadcast(Becomes(s, k))
          \/ cs' = Abort(Becomes(s, k), {t \in Stream \ {s} : Known(t)}, "err")
      BY <1>3 DEF ForgetStreamID
    <2>2. {t \in Stream \ {s} : Known(t)} \in SUBSET Stream OBVIOUS
    <2>. QED BY <1>1, <1>2, <2>1, <2>2 DEF Goes
  <1>10. k.tok = cs[s].tok /\ InPipe(k) <= InPipe(cs[s]) BY <1>1, <1>3 DEF InPipe, StreamRec
  <1>. QED BY <1>1, <1>2, <1>4, <1>5, <1>6, <1>7, <1>8, <1>9, <1>10, Quiet DEF Fine

-----------------------------------------------------------------------------
(* roundTrip and the caller.                                               *)

LEMMA CtxDoneInv ==
  ASSUME H2ConnInv, NEW s \in Stream, CtxDone(s), UNCHANGED sc PROVE H2ConnInv'
  <1>1. /\ cs[s] \in StreamRec /\ sv[s] \in ServerRec /\ cc \in ConnRec
        /\ Fine(cs[s], sv[s], cc) /\ sv = ServerBecomes(s, sv[s])
    BY Here
  <1>2. UNCHANGED <<sc, cc, sv>> BY DEF CtxDone
  <1>3. PICK k : k = [cs[s] EXCEPT !.ctx = TRUE] OBVIOUS
  <1>4. k \in StreamRec BY <1>1, <1>3 DEF StreamRec
  <1>5. Placed(k, sv[s]) BY <1>1, <1>3 DEF Fine, Placed, StreamRec
  <1>6. Over(k, sv[s]) BY <1>1, <1>3 DEF Fine, Over, StreamRec
  <1>7. Delivered(k, sv[s], cc) BY <1>1, <1>3 DEF Fine, Delivered, StreamRec
  <1>8. WindowFine(k, sv[s], cc) BY <1>1, <1>3 DEF Fine, WindowFine, StreamRec
  <1>9. Goes(s, k, sv[s]) BY <1>1, <1>2, <1>3 DEF Goes, CtxDone
  <1>10. k.tok = cs[s].tok /\ InPipe(k) <= InPipe(cs[s]) BY <1>1, <1>3 DEF InPipe, StreamRec
  <1>. QED BY <1>1, <1>2, <1>4, <1>5, <1>6, <1>7, <1>8, <1>9, <1>10, Quiet DEF Fine

LEMMA GotResponseInv ==
  ASSUME H2ConnInv, NEW s \in Stream, GotResponse(s), UNCHANGED sc PROVE H2ConnInv'
  <1>1. /\ cs[s] \in StreamRec /\ sv[s] \in ServerRec /\ cc \in ConnRec
        /\ Fine(cs[s], sv[s], cc) /\ sv = ServerBecomes(s, sv[s])
    BY Here
  <1>2. cs[s].rt = "wait" /\ UNCHANGED <<sc, cc, sv>> BY DEF GotResponse
  <1>3. PICK r : r = IF cs[s].res = "body" THEN "body"
                     ELSE IF HasBody(s) \/ cs[s].res = "missing" THEN "gone" ELSE "drain"
    OBVIOUS
  <1>4. r \in {"body", "gone", "drain"} /\ (r = "body" => cs[s].res = "body") BY <1>3
  <1>5. PICK b : b = (cs[s].bodyClosed \/ (cs[s].big /\ HasBody(s) /\ ~cs[s].bodyClosed)) OBVIOUS
  <1>6. b \in BOOLEAN BY <1>5
  <1>7. PICK k : k = [cs[s] EXCEPT !.big = FALSE, !.bodyClosed = b, !.rt = r] OBVIOUS
  <1>8. k \in StreamRec BY <1>1, <1>4, <1>6, <1>7 DEF StreamRec, Callers
  <1>9. Placed(k, sv[s]) BY <1>1, <1>2, <1>4, <1>7 DEF Fine, Placed, StreamRec, Open
  <1>10. Over(k, sv[s]) BY <1>1, <1>7 DEF Fine, Over, StreamRec
  <1>11. Delivered(k, sv[s], cc) BY <1>1, <1>2, <1>4, <1>7 DEF Fine, Delivered, StreamRec, Open
  <1>12. WindowFine(k, sv[s], cc) BY <1>1, <1>7 DEF Fine, WindowFine, StreamRec
  <1>13. cs' = Becomes(s, k) \/ cs' = Broadcast(Becomes(s, k))
    BY <1>3, <1>5, <1>7 DEF GotResponse
  <1>14. Goes(s, k, sv[s]) BY <1>1, <1>2, <1>13 DEF Goes
  <1>15. k.tok = cs[s].tok /\ InPipe(k) <= InPipe(cs[s])
    BY <1>1, <1>2, <1>4, <1>7 DEF InPipe, StreamRec
  <1>. QED BY <1>1, <1>2, <1>8, <1>9, <1>10, <1>11, <1>12, <1>14, <1>15, Quiet DEF Fine

\* The caller gives up: it drains, or is gone, with u of the body unread.
LEMMA LeaveInv ==
  ASSUME H2ConnInv, NEW s \in Stream, UNCHANGED <<sc, cc, sv>>, cs[s].rt \in {"wait", "drain"},
         NEW r \in {"drain", "gone"}, NEW g \in BOOLEAN, NEW u \in Nat, u = 0 \/ u = cs[s].unread,
         NEW k, k = [cs[s] EXCEPT !.rt = r, !.big = g, !.unread = u],
         cs' = Becomes(s, k) \/ cs' = Abort(Becomes(s, k), {s}, "ctx")
  PROVE  H2ConnInv'
  <1>1. /\ cs[s] \in StreamRec /\ sv[s] \in ServerRec /\ cc \in ConnRec
        /\ Fine(cs[s], sv[s], cc) /\ sv = ServerBecomes(s, sv[s])
    BY Here
  <1>2. k \in StreamRec BY <1>1 DEF StreamRec, Callers
  <1>3. Placed(k, sv[s]) BY <1>1 DEF Fine, Placed, StreamRec, Open
  <1>4. Over(k, sv[s]) BY <1>1 DEF Fine, Over, StreamRec
  <1>5. Delivered(k, sv[s], cc) BY <1>1 DEF Fine, Delivered, StreamRec, Open
  <1>6. WindowFine(k, sv[s], cc) BY <1>1 DEF Fine, WindowFine, StreamRec
  <1>7. {s} \in SUBSET Stream OBVIOUS
  <1>8. Goes(s, k, sv[s]) BY <1>1, <1>7 DEF Goes
  <1>9. k.tok = cs[s].tok /\ InPipe(k) <= InPipe(cs[s]) BY <1>1 DEF InPipe, StreamRec
  <1>. QED BY <1>1, <1>2, <1>3, <1>4, <1>5, <1>6, <1>8, <1>9, Quiet DEF Fine

LEMMA GotAbortInv ==
  ASSUME H2ConnInv, NEW s \in Stream, GotAbort(s), UNCHANGED sc PROVE H2ConnInv'
  <1>1. cs[s] \in StreamRec BY Here
  <1>2. PICK k : k = [cs[s] EXCEPT !.rt = "drain", !.big = cs[s].big, !.unread = cs[s].unread]
    OBVIOUS
  <1>3. cs[s].big \in BOOLEAN /\ cs[s].unread \in Nat BY <1>1 DEF StreamRec
  <1>4. k = [cs[s] EXCEPT !.rt = "drain"] BY <1>1, <1>2 DEF StreamRec
  <1>5. cs' = Becomes(s, k) /\ cs[s].rt = "wait" /\ UNCHANGED <<sc, cc, sv>> BY <1>4 DEF GotAbort
  <1>. QED BY <1>2, <1>3, <1>5, LeaveInv

LEMMA GotCtxInv ==
  ASSUME H2ConnInv, NEW s \in Stream, GotCtx(s), UNCHANGED sc PROVE H2ConnInv'
  <1>1. cs[s] \in StreamRec BY Here
  <1>2. PICK k : k = [cs[s] EXCEPT !.rt = "gone", !.big = FALSE, !.unread = cs[s].unread]
    OBVIOUS
  <1>3. FALSE \in BOOLEAN /\ cs[s].unread \in Nat BY <1>1 DEF StreamRec
  <1>4. k = [cs[s] EXCEPT !.rt = "gone", !.big = FALSE] BY <1>1, <1>2 DEF StreamRec
  <1>5. cs' = Abort(Becomes(s, k), {s}, "ctx") /\ cs[s].rt = "wait" /\ UNCHANGED <<sc, cc, sv>>
    BY <1>4 DEF GotCtx
  <1>. QED BY <1>2, <1>3, <1>5, LeaveInv

LEMMA DrainedInv ==
  ASSUME H2ConnInv, NEW s \in Stream, Drained(s), UNCHANGED sc PROVE H2ConnInv'
  <1>1. cs[s] \in StreamRec BY Here
  <1>2. PICK k : k = [cs[s] EXCEPT !.rt = "gone", !.big = cs[s].big, !.unread = 0] OBVIOUS
  <1>3. cs[s].big \in BOOLEAN BY <1>1 DEF StreamRec
  <1>4. k = [cs[s] EXCEPT !.rt = "gone", !.unread = 0] BY <1>1, <1>2 DEF StreamRec
  <1>5. cs' = Becomes(s, k) /\ cs[s].rt = "drain" /\ UNCHANGED <<sc, cc, sv>> BY <1>4 DEF Drained
  <1>. QED BY <1>2, <1>3, <1>5, LeaveInv

\* What is read leaves the pipe and is in hand.
LEMMA PipeReadInv ==
  ASSUME H2ConnInv, NEW s \in Stream, NEW n, PipeRead(s, n), UNCHANGED sc PROVE H2ConnInv'
  <1>1. /\ cs[s] \in StreamRec /\ sv[s] \in ServerRec /\ cc \in ConnRec
        /\ Fine(cs[s], sv[s], cc) /\ sv = ServerBecomes(s, sv[s])
    BY Here
  <1>2. /\ cs[s].rt = "body" /\ cs[s].out = "none" /\ n \in 1..cs[s].pbuf
        /\ UNCHANGED <<sc, cc, sv>>
    BY DEF PipeRead
  <1>3. /\ cs[s].pbuf \in Nat /\ cs[s].got \in Nat /\ cs[s].hand = 0 /\ cs[s].avail \in Nat
        /\ cs[s].unsent \in Nat /\ cs[s].remain \in Nat \cup {-1} /\ cs[s].unread \in Nat
    BY <1>1, <1>2 DEF StreamRec, Fine, Placed, Lengths
  <1>4. PICK m : m = cs[s].pbuf - n OBVIOUS
  <1>5. n \in Nat /\ m \in Nat /\ m + n = cs[s].pbuf BY <1>2, <1>3, <1>4
  <1>6. ASSUME cs[s].remain # -1, n > cs[s].remain,
               cs' = Abort(Becomes(s, [cs[s] EXCEPT !.pbuf = @ - n, !.out = "err",
                                                    !.got = @ + cs[s].remain]), {s}, "err")
        PROVE  H2ConnInv'
    <2>1. PICK g : g = cs[s].got + cs[s].remain OBVIOUS
    <2>2. g \in Nat BY <1>3, <1>6, <2>1
    <2>3. PICK k : k = [cs[s] EXCEPT !.pbuf = m, !.out = "err", !.got = g] OBVIOUS
    <2>4. k \in StreamRec BY <1>1, <1>5, <2>2, <2>3 DEF StreamRec, Ends
    <2>5. Placed(k, sv[s]) BY <1>1, <1>2, <2>3 DEF Fine, Placed, StreamRec
    <2>6. Over(k, sv[s]) BY <1>1, <2>3 DEF Fine, Over, StreamRec
    <2>7. Delivered(k, sv[s], cc) BY <1>1, <2>3 DEF Fine, Delivered, StreamRec
    <2>8. /\ k.avail = cs[s].avail /\ k.unsent = cs[s].unsent /\ k.pbuf = m /\ k.hand = cs[s].hand
          /\ k.pc = cs[s].pc /\ k.flow = cs[s].flow /\ k.tok = cs[s].tok /\ k.rt = "body"
      BY <1>1, <1>2, <2>3 DEF StreamRec
    <2>9. WindowFine(k, sv[s], cc)
      BY <1>1, <1>3, <1>5, <2>8, H2ConnConstants DEF Fine, WindowFine
    <2>10. {s} \in SUBSET Stream OBVIOUS
    <2>11. Goes(s, k, sv[s]) BY <1>1, <1>2, <1>4, <1>6, <2>1, <2>3, <2>10 DEF Goes
    <2>12. InPipe(k) <= InPipe(cs[s]) BY <1>2, <1>3, <1>5, <2>8 DEF InPipe
    <2>. QED BY <1>1, <1>2, <2>4, <2>5, <2>6, <2>7, <2>8, <2>9, <2>11, <2>12, Quiet DEF Fine
  <1>7. ASSUME ~(cs[s].remain # -1 /\ n > cs[s].remain),
               cs' = Becomes(s, [cs[s] EXCEPT !.pbuf = @ - n, !.hand = n, !.got = @ + n, !.rt = "back",
                                              !.remain = IF @ = -1 THEN -1 ELSE @ - n])
        PROVE  H2ConnInv'
    <2>1. PICK g, r : g = cs[s].got + n /\ r = IF cs[s].remain = -1 THEN -1 ELSE cs[s].remain - n
      OBVIOUS
    <2>2. g \in Nat /\ r \in Lengths BY <1>3, <1>5, <1>7, <2>1 DEF Lengths
    <2>3. PICK k : k = [cs[s] EXCEPT !.pbuf = m, !.hand = n, !.got = g, !.rt = "back", !.remain = r]
      OBVIOUS
    <2>4. k \in StreamRec BY <1>1, <1>5, <2>2, <2>3 DEF StreamRec, Callers
    <2>5. /\ k.avail = cs[s].avail /\ k.unsent = cs[s].unsent /\ k.pbuf = m /\ k.hand = n
          /\ k.pc = cs[s].pc /\ k.flow = cs[s].flow /\ k.tok = cs[s].tok /\ k.rt = "back"
          /\ k.got = g /\ k.out = "none"
      BY <1>1, <1>2, <2>3 DEF StreamRec
    <2>6. Placed(k, sv[s])
      <3>1. cs[s].pc # "new" BY <1>1, <1>2 DEF Fine, Placed
      <3>. QED BY <1>1, <1>2, <2>3, <3>1 DEF Fine, Placed, StreamRec, Open
    <2>7. Over(k, sv[s]) BY <1>1, <2>3 DEF Fine, Over, StreamRec
    <2>8. Delivered(k, sv[s], cc)
      <3>1. k.got + k.pbuf = cs[s].got + cs[s].pbuf BY <1>3, <1>5, <2>1, <2>5
      <3>2. k.perr = cs[s].perr /\ k.readAborted = cs[s].readAborted BY <1>1, <2>3 DEF StreamRec
      <3>. QED BY <1>1, <1>2, <2>5, <3>1, <3>2 DEF Fine, Delivered, Open
    <2>9. WindowFine(k, sv[s], cc)
      BY <1>1, <1>3, <1>5, <2>5, H2ConnConstants DEF Fine, WindowFine
    <2>10. cs' = Becomes(s, k) BY <1>4, <1>7, <2>1, <2>3
    <2>11. Goes(s, k, sv[s]) BY <1>1, <1>2, <2>10 DEF Goes
    <2>12. InPipe(k) <= InPipe(cs[s]) BY <1>2, <1>3, <1>5, <2>5 DEF InPipe
    <2>. QED BY <1>1, <1>2, <2>4, <2>5, <2>6, <2>7, <2>8, <2>9, <2>11, <2>12, Quiet DEF Fine
  <1>. QED BY <1>6, <1>7 DEF PipeRead

\* The end of the body is reported when all of it was read.
LEMMA PipeEndInv ==
  ASSUME H2ConnInv, NEW s \in Stream, PipeEnd(s), UNCHANGED sc PROVE H2ConnInv'
  <1>1. /\ cs[s] \in StreamRec /\ sv[s] \in ServerRec /\ cc \in ConnRec
        /\ Fine(cs[s], sv[s], cc) /\ sv = ServerBecomes(s, sv[s])
    BY Here
  <1>2. cs[s].rt = "body" /\ cs[s].pbuf = 0 /\ cs[s].out = "none" /\ UNCHANGED <<sc, cc, sv>>
    BY DEF PipeEnd
  <1>3. PICK o : o = IF cs[s].perr = "eof" /\ cs[s].remain <= 0 THEN "eof" ELSE "err" OBVIOUS
  <1>4. o \in {"eof", "err"} /\ (o = "eof" => cs[s].perr = "eof" /\ cs[s].remain <= 0) BY <1>3
  <1>5. PICK k : k = [cs[s] EXCEPT !.out = o, !.pipe = FALSE] OBVIOUS
  <1>6. k \in StreamRec BY <1>1, <1>4, <1>5 DEF StreamRec, Ends
  <1>7. Placed(k, sv[s]) BY <1>1, <1>5 DEF Fine, Placed, StreamRec
  <1>8. Over(k, sv[s]) BY <1>1, <1>5 DEF Fine, Over, StreamRec
  <1>9. Delivered(k, sv[s], cc) BY <1>1, <1>2, <1>4, <1>5 DEF Fine, Delivered, StreamRec
  <1>10. WindowFine(k, sv[s], cc) BY <1>1, <1>5 DEF Fine, WindowFine, StreamRec
  <1>11. cs' = Becomes(s, k) BY <1>3, <1>5 DEF PipeEnd
  <1>12. Goes(s, k, sv[s]) BY <1>1, <1>2, <1>11 DEF Goes
  <1>13. k.tok = cs[s].tok /\ InPipe(k) <= InPipe(cs[s]) BY <1>1, <1>5 DEF InPipe, StreamRec
  <1>. QED BY <1>1, <1>2, <1>6, <1>7, <1>8, <1>9, <1>10, <1>12, <1>13, Quiet DEF Fine

\* A body that is closed keeps what was not read for CloseReturns to give back.
LEMMA CloseBreaksInv ==
  ASSUME H2ConnInv, NEW s \in Stream, CloseBreaks(s), UNCHANGED sc PROVE H2ConnInv'
  <1>1. /\ cs[s] \in StreamRec /\ sv[s] \in ServerRec /\ cc \in ConnRec
        /\ Fine(cs[s], sv[s], cc) /\ sv = ServerBecomes(s, sv[s])
    BY Here
  <1>2. cs[s].rt = "body" /\ UNCHANGED <<sc, cc, sv>> BY DEF CloseBreaks
  <1>3. /\ ~cs[s].broken /\ cs[s].unread = 0 /\ cs[s].pbuf \in Nat /\ cs[s].pc # "new"
        /\ cs[s].hand = 0 /\ cs[s].avail \in Nat /\ cs[s].unsent \in Nat
    BY <1>1, <1>2 DEF Fine, Placed, Open, StreamRec
  <1>4. PICK u : u = cs[s].unread + cs[s].pbuf OBVIOUS
  <1>5. u \in Nat /\ u = cs[s].pbuf /\ -1 \in Lengths BY <1>3, <1>4 DEF Lengths
  <1>6. PICK k : k = [cs[s] EXCEPT !.broken = TRUE, !.unread = u, !.pbuf = 0, !.pipe = FALSE,
                                   !.rt = "close", !.out = "none", !.got = 0, !.remain = -1]
    OBVIOUS
  <1>7. "close" \in Callers /\ "none" \in Ends /\ 0 \in Nat /\ FALSE \in BOOLEAN /\ TRUE \in BOOLEAN
    BY DEF Callers, Ends
  <1>8. k \in StreamRec BY <1>1, <1>5, <1>6, <1>7 DEF StreamRec
  <1>9. Placed(k, sv[s]) BY <1>1, <1>2, <1>3, <1>6 DEF Fine, Placed, StreamRec, Open
  <1>10. Over(k, sv[s]) BY <1>1, <1>6 DEF Fine, Over, StreamRec
  <1>11. Delivered(k, sv[s], cc) BY <1>1, <1>6 DEF Fine, Delivered, StreamRec, Open
  <1>12. /\ k.avail = cs[s].avail /\ k.unsent = cs[s].unsent /\ k.pbuf = 0 /\ k.hand = 0
         /\ k.pc = cs[s].pc /\ k.flow = cs[s].flow /\ k.tok = cs[s].tok /\ k.rt = "close"
         /\ k.unread = u
    BY <1>1, <1>3, <1>6 DEF StreamRec
  <1>13. WindowFine(k, sv[s], cc)
    BY <1>1, <1>3, <1>12, H2ConnConstants DEF Fine, WindowFine
  <1>14. [Break(cs[s]) EXCEPT !.rt = "close", !.out = "none", !.got = 0, !.remain = -1] = k
    BY <1>1, <1>3, <1>4, <1>6 DEF Break, StreamRec
  <1>15. Goes(s, k, sv[s]) BY <1>1, <1>2, <1>14 DEF Goes, CloseBreaks
  <1>16. InPipe(k) <= InPipe(cs[s]) BY <1>2, <1>3, <1>5, <1>12 DEF InPipe
  <1>. QED BY <1>1, <1>2, <1>8, <1>9, <1>10, <1>11, <1>12, <1>13, <1>15, <1>16, Quiet DEF Fine

-----------------------------------------------------------------------------
(* Receive windows.                                                        *)

\* inflow.add loses nothing of a stream's window ...
LEMMA InflowAddStream ==
  ASSUME NEW k \in StreamRec, NEW n \in Nat
  PROVE  \E a \in Nat, b \in Nat :
            /\ InflowAdd(k, n) = [k EXCEPT !.unsent = a, !.avail = b]
            /\ a + b = k.unsent + k.avail + n /\ b >= k.avail
  <1>1. k.unsent \in Nat /\ k.avail \in Nat BY DEF StreamRec
  <1>2. PICK u : u = k.unsent + n OBVIOUS
  <1>3. u \in Nat BY <1>1, <1>2
  <1>4. CASE u < MinRefresh /\ u < k.avail
    <2>1. PICK b : b = k.avail OBVIOUS
    <2>2. InflowAdd(k, n) = [k EXCEPT !.unsent = u] BY <1>2, <1>4 DEF InflowAdd
    <2>3. [k EXCEPT !.unsent = u] = [k EXCEPT !.unsent = u, !.avail = b] BY <2>1 DEF StreamRec
    <2>4. InflowAdd(k, n) = [k EXCEPT !.unsent = u, !.avail = b] BY <2>2, <2>3
    <2>5. b \in Nat /\ u + b = k.unsent + k.avail + n /\ b >= k.avail BY <1>1, <1>2, <2>1
    <2>. QED BY <1>3, <2>4, <2>5
  <1>5. CASE ~(u < MinRefresh /\ u < k.avail)
    <2>1. PICK b : b = k.avail + u OBVIOUS
    <2>2. InflowAdd(k, n) = [k EXCEPT !.unsent = 0, !.avail = b] BY <1>2, <1>5, <2>1 DEF InflowAdd
    <2>3. b \in Nat /\ 0 \in Nat /\ 0 + b = k.unsent + k.avail + n /\ b >= k.avail
      BY <1>1, <1>2, <1>3, <2>1
    <2>. QED BY <2>2, <2>3
  <1>. QED BY <1>4, <1>5

\* ... nor of the connection's, and what the server hears of it is what was added.
Returned(c, n, d) ==
    /\ d \in ConnRec /\ d.flow = c.flow /\ d.reading = c.reading /\ d.init = c.init
    /\ d.win = c.win /\ d.flowErr = c.flowErr
    /\ d.avail + d.unsent = c.avail + c.unsent + n
    /\ c.credit <= c.avail => d.credit <= d.avail

LEMMA ReturnConnIs ==
  ASSUME NEW c \in ConnRec, NEW n \in Nat PROVE Returned(c, n, ReturnConn(c, n))
  <1>0. PICK d : d = ReturnConn(c, n) OBVIOUS
  <1>1. c.unsent \in Nat /\ c.avail \in Nat /\ c.credit \in Int BY DEF ConnRec
  <1>2. PICK u : u = c.unsent + n OBVIOUS
  <1>3. u \in Nat BY <1>1, <1>2
  <1>4. \E a \in Nat, b \in Nat :
            /\ InflowAdd(c, n) = [c EXCEPT !.unsent = a, !.avail = b]
            /\ a + b = c.unsent + c.avail + n /\ b >= c.avail
    <2>1. CASE u < MinRefresh /\ u < c.avail
      <3>1. PICK b : b = c.avail OBVIOUS
      <3>2. InflowAdd(c, n) = [c EXCEPT !.unsent = u] BY <1>2, <2>1 DEF InflowAdd
      <3>3. [c EXCEPT !.unsent = u] = [c EXCEPT !.unsent = u, !.avail = b] BY <3>1 DEF ConnRec
      <3>4. InflowAdd(c, n) = [c EXCEPT !.unsent = u, !.avail = b] BY <3>2, <3>3
      <3>5. b \in Nat /\ u + b = c.unsent + c.avail + n /\ b >= c.avail BY <1>1, <1>2, <3>1
      <3>. QED BY <1>3, <3>4, <3>5
    <2>2. CASE ~(u < MinRefresh /\ u < c.avail)
      <3>1. PICK b : b = c.avail + u OBVIOUS
      <3>2. InflowAdd(c, n) = [c EXCEPT !.unsent = 0, !.avail = b] BY <1>2, <2>2, <3>1 DEF InflowAdd
      <3>3. b \in Nat /\ 0 \in Nat /\ 0 + b = c.unsent + c.avail + n /\ b >= c.avail
        BY <1>1, <1>2, <1>3, <3>1
      <3>. QED BY <3>2, <3>3
    <2>. QED BY <2>1, <2>2
  <1>5. PICK a \in Nat, b \in Nat : /\ InflowAdd(c, n) = [c EXCEPT !.unsent = a, !.avail = b]
                                    /\ a + b = c.unsent + c.avail + n /\ b >= c.avail
    BY <1>4
  <1>6. PICK i : i = InflowAdd(c, n) OBVIOUS
  <1>7. i = [c EXCEPT !.unsent = a, !.avail = b] BY <1>5, <1>6
  <1>8. /\ i \in ConnRec /\ i.flow = c.flow /\ i.reading = c.reading /\ i.init = c.init
        /\ i.win = c.win /\ i.flowErr = c.flowErr /\ i.avail = b /\ i.unsent = a
        /\ i.credit = c.credit
    BY <1>7 DEF ConnRec
  <1>9. PICK x : x = c.credit + (b - c.avail) OBVIOUS
  <1>10. x \in Int /\ (c.credit <= c.avail => x <= b) BY <1>1, <1>9
  <1>11. d = [i EXCEPT !.credit = x] BY <1>0, <1>6, <1>8, <1>9 DEF ReturnConn, Sent
  <1>12. /\ d \in ConnRec /\ d.flow = i.flow /\ d.reading = i.reading /\ d.init = i.init
         /\ d.win = i.win /\ d.flowErr = i.flowErr /\ d.avail = i.avail /\ d.unsent = i.unsent
         /\ d.credit = x
    BY <1>8, <1>10, <1>11 DEF ConnRec
  <1>13. Returned(c, n, d) BY <1>1, <1>5, <1>8, <1>10, <1>12 DEF Returned
  <1>. QED BY <1>0, <1>13

\* Steps that change the connection's receive window, by what stream s holds.
LEMMA ReturnInv ==
  ASSUME H2ConnInv, NEW s \in Stream, NEW k \in StreamRec, NEW v \in ServerRec, Goes(s, k, v),
         sc' = sc, cc' \in ConnRec, cc'.flow = cc.flow, cc'.reading = cc.reading,
         cc'.init = cc.init, cc'.win = cc.win, cc'.flowErr = cc.flowErr,
         cc'.credit <= cc'.avail, k.tok = cs[s].tok,
         cc'.avail + cc'.unsent + InPipe(k) = cc.avail + cc.unsent + InPipe(cs[s]),
         Placed(k, v), Over(k, v), Delivered(k, v, cc), WindowFine(k, v, cc)
  PROVE  H2ConnInv'
  <1>1. cs[s] \in StreamRec /\ cc \in ConnRec BY Here
  <1>2. Fine(k, v, cc') BY DEF Fine, Delivered, WindowFine
  <1>3. /\ Types'
        /\ \A t \in Stream : Fine(cs'[t], sv'[t], cc')
        /\ Total(Toks) \in Nat /\ Total(Pipes) \in Nat
        /\ Total(Toks)' \in Nat /\ Total(Pipes)' \in Nat
        /\ Total(Toks)' = Total(Toks) + k.tok - cs[s].tok
        /\ Total(Pipes)' = Total(Pipes) + InPipe(k) - InPipe(cs[s])
    BY <1>2, GoesFine DEF Calm
  <1>4. /\ InPipe(k) \in Nat /\ InPipe(cs[s]) \in Nat /\ cs[s].tok \in Nat
        /\ cc.flow \in Nat /\ cc.avail \in Nat /\ cc.unsent \in Nat
        /\ cc'.avail \in Nat /\ cc'.unsent \in Nat
    BY <1>1 DEF InPipe, StreamRec, ConnRec
  <1>5. ConnFine(cc', Total(Toks)', Total(Pipes)')
    BY <1>3, <1>4, H2ConnConstants DEF H2ConnInv, ConnFine
  <1>. QED BY <1>3, <1>5 DEF H2ConnInv

\* What was read goes back to both windows.
LEMMA AddBackInv ==
  ASSUME H2ConnInv, NEW s \in Stream, AddBack(s), UNCHANGED sc PROVE H2ConnInv'
  <1>1. /\ cs[s] \in StreamRec /\ sv[s] \in ServerRec /\ cc \in ConnRec
        /\ Fine(cs[s], sv[s], cc)
    BY Here
  <1>2. cs[s].rt = "back" BY DEF AddBack
  <1>3. PICK n : n = cs[s].hand OBVIOUS
  <1>4. /\ n \in Nat /\ cs[s].unsent \in Nat /\ cs[s].avail \in Nat /\ cs[s].pbuf \in Nat
        /\ cs[s].pc # "new" /\ sv[s].credit \in Int /\ cs[s].unread \in Nat
    BY <1>1, <1>2, <1>3 DEF StreamRec, ServerRec, Fine, Placed
  <1>5. PICK a \in Nat, b \in Nat :
            /\ InflowAdd(cs[s], n) = [cs[s] EXCEPT !.unsent = a, !.avail = b]
            /\ a + b = cs[s].unsent + cs[s].avail + n /\ b >= cs[s].avail
    BY <1>1, <1>4, InflowAddStream
  <1>6. PICK k : k = [cs[s] EXCEPT !.unsent = a, !.avail = b, !.hand = 0, !.rt = "body"] OBVIOUS
  <1>7. [InflowAdd(cs[s], n) EXCEPT !.hand = 0, !.rt = "body"] = k BY <1>1, <1>5, <1>6 DEF StreamRec
  <1>8. PICK x : x = sv[s].credit + (b - cs[s].avail) OBVIOUS
  <1>9. x \in Int BY <1>4, <1>8
  <1>10. PICK v : v = [sv[s] EXCEPT !.credit = x] OBVIOUS
  <1>11. Sent(cs[s], n) = b - cs[s].avail BY <1>1, <1>5 DEF Sent, StreamRec
  <1>12. k \in StreamRec BY <1>1, <1>6 DEF StreamRec, Callers
  <1>13. v \in ServerRec BY <1>1, <1>9, <1>10 DEF ServerRec
  <1>14. /\ k.avail = b /\ k.unsent = a /\ k.pbuf = cs[s].pbuf /\ k.hand = 0
         /\ k.pc = cs[s].pc /\ k.flow = cs[s].flow /\ k.tok = cs[s].tok /\ k.rt = "body"
         /\ v.credit = x /\ v.win = sv[s].win
    BY <1>1, <1>6, <1>10 DEF StreamRec, ServerRec
  <1>15. Placed(k, v) BY <1>1, <1>2, <1>4, <1>6, <1>10 DEF Fine, Placed, StreamRec, ServerRec, Open
  <1>16. Over(k, v) BY <1>1, <1>6, <1>10 DEF Fine, Over, StreamRec, ServerRec
  <1>17. Delivered(k, v, cc)
    BY <1>1, <1>2, <1>6, <1>10 DEF Fine, Delivered, StreamRec, ServerRec, Open
  <1>18. WindowFine(k, v, cc)
    BY <1>1, <1>3, <1>4, <1>5, <1>8, <1>14, H2ConnConstants DEF Fine, WindowFine
  <1>19. Goes(s, k, v) BY <1>3, <1>7, <1>8, <1>10, <1>11 DEF Goes, AddBack
  <1>20. cc' = ReturnConn(cc, n) BY <1>3 DEF AddBack
  <1>21. /\ cc' \in ConnRec /\ cc'.flow = cc.flow /\ cc'.reading = cc.reading /\ cc'.init = cc.init
         /\ cc'.win = cc.win /\ cc'.flowErr = cc.flowErr
         /\ cc'.avail + cc'.unsent = cc.avail + cc.unsent + n
         /\ cc.credit <= cc.avail => cc'.credit <= cc'.avail
    <2>1. Returned(cc, n, cc') BY <1>1, <1>4, <1>20, ReturnConnIs
    <2>. QED BY <2>1 DEF Returned
  <1>22. InPipe(k) + n = InPipe(cs[s]) /\ InPipe(k) \in Nat
    BY <1>2, <1>3, <1>4, <1>14 DEF InPipe
  <1>23. cc'.avail + cc'.unsent + InPipe(k) = cc.avail + cc.unsent + InPipe(cs[s])
    <2>1. cc'.avail \in Nat /\ cc'.unsent \in Nat /\ cc.avail \in Nat /\ cc.unsent \in Nat
      BY <1>1, <1>21 DEF ConnRec
    <2>. QED BY <1>4, <1>21, <1>22, <2>1
  <1>24. cc'.credit <= cc'.avail BY <1>21 DEF H2ConnInv, ConnFine
  <1>. QED BY <1>12, <1>13, <1>14, <1>15, <1>16, <1>17, <1>18, <1>19, <1>21, <1>23, <1>24, ReturnInv

\* What was not read goes back to the connection's.
LEMMA CloseReturnsInv ==
  ASSUME H2ConnInv, NEW s \in Stream, CloseReturns(s), UNCHANGED sc PROVE H2ConnInv'
  <1>1. /\ cs[s] \in StreamRec /\ sv[s] \in ServerRec /\ cc \in ConnRec
        /\ Fine(cs[s], sv[s], cc) /\ sv = ServerBecomes(s, sv[s])
    BY Here
  <1>2. cs[s].rt = "close" /\ UNCHANGED <<sc, sv>> BY DEF CloseReturns
  <1>3. PICK n : n = cs[s].unread OBVIOUS
  <1>4. n \in Nat /\ cs[s].pbuf \in Nat /\ cs[s].hand \in Nat BY <1>1, <1>3 DEF StreamRec
  <1>5. PICK k : k = [cs[s] EXCEPT !.rt = "drain"] OBVIOUS
  <1>6. k \in StreamRec BY <1>1, <1>5 DEF StreamRec, Callers
  <1>7. Placed(k, sv[s]) BY <1>1, <1>2, <1>5 DEF Fine, Placed, StreamRec, Open
  <1>8. Over(k, sv[s]) BY <1>1, <1>5 DEF Fine, Over, StreamRec
  <1>9. Delivered(k, sv[s], cc) BY <1>1, <1>2, <1>5 DEF Fine, Delivered, StreamRec, Open
  <1>10. WindowFine(k, sv[s], cc) BY <1>1, <1>5 DEF Fine, WindowFine, StreamRec
  <1>11. {s} \in SUBSET Stream OBVIOUS
  <1>12. Goes(s, k, sv[s]) BY <1>1, <1>2, <1>5, <1>11 DEF Goes, CloseReturns
  <1>13. /\ cc' \in ConnRec /\ cc'.flow = cc.flow /\ cc'.reading = cc.reading /\ cc'.init = cc.init
         /\ cc'.win = cc.win /\ cc'.flowErr = cc.flowErr
         /\ cc'.avail + cc'.unsent = cc.avail + cc.unsent + n
         /\ cc.credit <= cc.avail => cc'.credit <= cc'.avail
    <2>1. CASE n > 0
      <3>1. cc' = ReturnConn(cc, n) BY <1>3, <2>1 DEF CloseReturns
      <3>2. Returned(cc, n, cc') BY <1>1, <1>4, <3>1, ReturnConnIs
      <3>. QED BY <3>2 DEF Returned
    <2>2. CASE n = 0
      <3>1. cc' = cc /\ cc.avail \in Nat /\ cc.unsent \in Nat
        BY <1>1, <1>3, <2>2 DEF CloseReturns, ConnRec
      <3>. QED BY <1>1, <2>2, <3>1
    <2>. QED BY <1>4, <2>1, <2>2
  <1>14. InPipe(k) + n = InPipe(cs[s]) /\ InPipe(k) \in Nat /\ k.tok = cs[s].tok
    BY <1>1, <1>2, <1>3, <1>4, <1>5 DEF InPipe, StreamRec
  <1>15. cc'.avail + cc'.unsent + InPipe(k) = cc.avail + cc.unsent + InPipe(cs[s])
    <2>1. cc'.avail \in Nat /\ cc'.unsent \in Nat /\ cc.avail \in Nat /\ cc.unsent \in Nat
      BY <1>1, <1>13 DEF ConnRec
    <2>. QED BY <1>4, <1>13, <1>14, <2>1
  <1>16. cc'.credit <= cc'.avail BY <1>13 DEF H2ConnInv, ConnFine
  <1>. QED BY <1>1, <1>2, <1>6, <1>7, <1>8, <1>9, <1>10, <1>12, <1>13, <1>14, <1>15, <1>16, ReturnInv

-----------------------------------------------------------------------------
(* The server.                                                             *)

LEMMA ServerInformsInv ==
  ASSUME H2ConnInv, NEW s \in Stream, ServerInforms(s), UNCHANGED sc PROVE H2ConnInv'
  <1>1. /\ cs[s] \in StreamRec /\ sv[s] \in ServerRec /\ cc \in ConnRec
        /\ Fine(cs[s], sv[s], cc) /\ sv = ServerBecomes(s, sv[s])
    BY Here
  <1>2. ~sv[s].ended /\ UNCHANGED <<sc, cc, sv>> BY DEF ServerInforms, Serves
  <1>3. PICK n : n = cs[s].n1xx + 1 OBVIOUS
  <1>4. n \in Nat BY <1>1, <1>3 DEF StreamRec
  <1>5. ASSUME NEW k, k = [cs[s] EXCEPT !.readAborted = TRUE] \/ k = [cs[s] EXCEPT !.n1xx = n]
        PROVE  /\ k \in StreamRec
               /\ Placed(k, sv[s]) /\ Over(k, sv[s]) /\ Delivered(k, sv[s], cc)
               /\ WindowFine(k, sv[s], cc)
               /\ k.tok = cs[s].tok /\ InPipe(k) <= InPipe(cs[s])
    <2>1. k \in StreamRec
      <3>1. CASE k = [cs[s] EXCEPT !.readAborted = TRUE] BY <1>1, <3>1 DEF StreamRec
      <3>2. CASE k = [cs[s] EXCEPT !.n1xx = n] BY <1>1, <1>4, <3>2 DEF StreamRec
      <3>. QED BY <1>5, <3>1, <3>2
    <2>2. Placed(k, sv[s]) BY <1>1, <1>5 DEF Fine, Placed, StreamRec
    <2>3. Over(k, sv[s]) BY <1>1, <1>5 DEF Fine, Over, StreamRec
    <2>4. Delivered(k, sv[s], cc) BY <1>1, <1>2, <1>5 DEF Fine, Delivered, StreamRec
    <2>5. WindowFine(k, sv[s], cc) BY <1>1, <1>5 DEF Fine, WindowFine, StreamRec
    <2>6. k.tok = cs[s].tok /\ InPipe(k) <= InPipe(cs[s]) BY <1>1, <1>5 DEF InPipe, StreamRec
    <2>. QED BY <2>1, <2>2, <2>3, <2>4, <2>5, <2>6
  <1>6. {s} \in SUBSET Stream OBVIOUS
  <1>7. CASE cs' = EndStreamError(s, cs[s])
    <2>1. PICK k : k = [cs[s] EXCEPT !.readAborted = TRUE] OBVIOUS
    <2>2. Goes(s, k, sv[s]) BY <1>1, <1>2, <1>6, <1>7, <2>1 DEF Goes, EndStreamError
    <2>. QED BY <1>1, <1>2, <1>5, <2>1, <2>2, Quiet DEF Fine
  <1>8. CASE cs' = Becomes(s, [cs[s] EXCEPT !.n1xx = @ + 1])
    <2>1. PICK k : k = [cs[s] EXCEPT !.n1xx = n] OBVIOUS
    <2>2. Goes(s, k, sv[s]) BY <1>1, <1>2, <1>3, <1>8, <2>1 DEF Goes
    <2>. QED BY <1>1, <1>2, <1>5, <2>1, <2>2, Quiet DEF Fine
  <1>. QED BY <1>7, <1>8 DEF ServerInforms

\* A stream of which the server knows is open on this side.
LEMMA ServedIsOpen ==
  ASSUME H2ConnInv, NEW s \in Stream, sv[s].seen PROVE cs[s].pc # "new"
  BY Here DEF Fine, Placed

LEMMA ServerRespondsInv ==
  ASSUME H2ConnInv, NEW s \in Stream, NEW cl \in sc.declared, NEW big \in BOOLEAN,
         NEW end \in BOOLEAN, ServerResponds(s, cl, big, end), UNCHANGED sc
  PROVE  H2ConnInv'
  <1>1. /\ cs[s] \in StreamRec /\ sv[s] \in ServerRec /\ cc \in ConnRec
        /\ Fine(cs[s], sv[s], cc) /\ cs = Becomes(s, cs[s]) /\ sc \in Scenarios
    BY Here
  <1>2. /\ ~sv[s].ended /\ ~sv[s].hdr /\ sv[s].seen /\ cc.reading /\ UNCHANGED <<sc, cc>>
    BY DEF ServerResponds, Serves, Reads
  <1>3. cs[s].pc # "new" BY <1>2, ServedIsOpen
  <1>4. cl \in Lengths BY <1>1, H2ConnConstants DEF Lengths
  <1>5. PICK v : v = [sv[s] EXCEPT !.hdr = TRUE, !.ended = end] OBVIOUS
  <1>6. /\ v \in ServerRec /\ v.hdr = TRUE /\ v.ended = end /\ v.seen = sv[s].seen
        /\ v.reset = sv[s].reset /\ v.rst = sv[s].rst /\ v.sent = sv[s].sent
        /\ v.win = sv[s].win /\ v.credit = sv[s].credit
    BY <1>1, <1>5 DEF ServerRec
  <1>7. sv' = ServerBecomes(s, v) BY <1>5 DEF ServerResponds
  <1>8. cs[s].res = "none" /\ cs[s].rt \notin {"body", "back", "close"} /\ cs[s].perr # "eof"
        /\ ~cs[s].peer /\ cs[s].out # "eof"
    BY <1>1, <1>2 DEF Fine, Placed, Over, Delivered
  <1>9. CASE ~StreamByID(s)
    <2>1. Placed(cs[s], v) BY <1>1, <1>2, <1>3, <1>6 DEF Fine, Placed
    <2>2. Over(cs[s], v) BY <1>1, <1>2, <1>6 DEF Fine, Over
    <2>3. Delivered(cs[s], v, cc) BY <1>1, <1>6, <1>8 DEF Fine, Delivered
    <2>4. WindowFine(cs[s], v, cc) BY <1>1, <1>6 DEF Fine, WindowFine
    <2>5. cs' = Becomes(s, cs[s]) BY <1>1, <1>9 DEF ServerResponds
    <2>6. Goes(s, cs[s], v) BY <1>7, <2>5 DEF Goes
    <2>7. InPipe(cs[s]) <= InPipe(cs[s]) BY <1>1 DEF InPipe, StreamRec
    <2>. QED BY <1>1, <1>2, <1>6, <2>1, <2>2, <2>3, <2>4, <2>6, <2>7, Quiet DEF Fine
  <1>10. CASE StreamByID(s)
    <2>1. cs[s].pc # "done" /\ ~cs[s].readAborted BY <1>10 DEF StreamByID, Known
    <2>2. PICK r, b, p : /\ r = (IF ~end THEN "body" ELSE IF cl > 0 THEN "missing" ELSE "nobody")
                         /\ b = (big /\ HasBody(s))
                         /\ p = (~end /\ cs[s].perr = "none" /\ ~cs[s].broken)
      OBVIOUS
    <2>3. r \in Bodies /\ r # "none" /\ b \in BOOLEAN /\ p \in BOOLEAN BY <2>2 DEF Bodies
    <2>4. PICK j : j = [cs[s] EXCEPT !.past = TRUE, !.n1xx = 0, !.res = r, !.big = b,
                                     !.remain = cl, !.pipe = p]
      OBVIOUS
    <2>5. TRUE \in BOOLEAN /\ 0 \in Nat OBVIOUS
    <2>6. j \in StreamRec BY <1>1, <1>4, <2>3, <2>4, <2>5 DEF StreamRec
    <2>7. /\ j.pc = cs[s].pc /\ j.res = r /\ j.rt = cs[s].rt /\ j.abort = cs[s].abort
          /\ j.err = cs[s].err /\ j.buf = cs[s].buf /\ j.tok = cs[s].tok /\ j.flow = cs[s].flow
          /\ j.sentHdr = cs[s].sentHdr /\ j.sentEnd = cs[s].sentEnd /\ j.peer = cs[s].peer
          /\ j.readAborted = cs[s].readAborted /\ j.avail = cs[s].avail
          /\ j.unsent = cs[s].unsent /\ j.pbuf = cs[s].pbuf /\ j.perr = cs[s].perr
          /\ j.broken = cs[s].broken /\ j.unread = cs[s].unread /\ j.hand = cs[s].hand
          /\ j.out = cs[s].out /\ j.got = cs[s].got
      BY <1>1, <2>4 DEF StreamRec
    <2>8. PICK k : k = IF end THEN [j EXCEPT !.peer = TRUE, !.perr = OrElse(@, "eof")] ELSE j OBVIOUS
    <2>9. PICK e : e = OrElse(j.perr, "eof") OBVIOUS
    <2>10. e \in Ends /\ (e = "eof" => cs[s].perr = "none") /\ e # "none"
      BY <1>8, <2>6, <2>7, <2>9 DEF OrElse, Ends, StreamRec
    <2>11. k = IF end THEN [j EXCEPT !.peer = TRUE, !.perr = e] ELSE j BY <2>8, <2>9
    <2>12. k \in StreamRec BY <2>5, <2>6, <2>10, <2>11 DEF StreamRec
    <2>13. /\ k.pc = cs[s].pc /\ k.res = r /\ k.rt = cs[s].rt /\ k.abort = cs[s].abort
           /\ k.err = cs[s].err /\ k.buf = cs[s].buf /\ k.tok = cs[s].tok /\ k.flow = cs[s].flow
           /\ k.sentHdr = cs[s].sentHdr /\ k.sentEnd = cs[s].sentEnd
           /\ k.peer => end
           /\ k.readAborted = cs[s].readAborted /\ k.avail = cs[s].avail
           /\ k.unsent = cs[s].unsent /\ k.pbuf = cs[s].pbuf
           /\ k.perr = "eof" => end /\ cs[s].perr = "none"
           /\ k.perr = "none" => cs[s].perr = "none"
           /\ k.broken = cs[s].broken /\ k.unread = cs[s].unread /\ k.hand = cs[s].hand
           /\ k.out = cs[s].out /\ k.got = cs[s].got
           /\ k.peer \/ k.peer = cs[s].peer
      BY <1>8, <2>6, <2>7, <2>10, <2>11 DEF StreamRec
    <2>14. Placed(k, v) BY <1>1, <1>3, <1>6, <1>8, <2>13 DEF Fine, Placed
    <2>15. Over(k, v) BY <1>1, <1>2, <1>6, <1>8, <2>13 DEF Fine, Over
    <2>16. Delivered(k, v, cc) BY <1>1, <1>2, <1>6, <1>8, <2>1, <2>13 DEF Fine, Delivered
    <2>17. WindowFine(k, v, cc) BY <1>1, <1>6, <2>13 DEF Fine, WindowFine
    <2>18. cs' = Becomes(s, k)
      BY <1>10, <2>2, <2>4, <2>8 DEF ServerResponds, EndStream
    <2>19. Goes(s, k, v) BY <1>7, <2>18 DEF Goes
    <2>20. InPipe(k) <= InPipe(cs[s]) BY <1>1, <2>13 DEF InPipe, StreamRec
    <2>. QED BY <1>2, <1>6, <2>12, <2>13, <2>14, <2>15, <2>16, <2>17, <2>19, <2>20, Quiet DEF Fine
  <1>. QED BY <1>9, <1>10

LEMMA ServerTrailersInv ==
  ASSUME H2ConnInv, NEW s \in Stream, ServerTrailers(s), UNCHANGED sc PROVE H2ConnInv'
  <1>1. /\ cs[s] \in StreamRec /\ sv[s] \in ServerRec /\ cc \in ConnRec
        /\ Fine(cs[s], sv[s], cc) /\ cs = Becomes(s, cs[s])
    BY Here
  <1>2. ~sv[s].ended /\ sv[s].hdr /\ sv[s].seen /\ cc.reading /\ UNCHANGED <<sc, cc>>
    BY DEF ServerTrailers, Serves, Reads
  <1>3. cs[s].pc # "new" BY <1>2, ServedIsOpen
  <1>4. PICK v : v = [sv[s] EXCEPT !.ended = TRUE] OBVIOUS
  <1>5. v \in ServerRec BY <1>1, <1>4 DEF ServerRec
  <1>6. sv' = ServerBecomes(s, v) BY <1>4 DEF ServerTrailers
  <1>7. CASE ~StreamByID(s)
    <2>1. Placed(cs[s], v) BY <1>1, <1>3, <1>4 DEF Fine, Placed, ServerRec
    <2>2. Over(cs[s], v) BY <1>1, <1>2, <1>4 DEF Fine, Over, ServerRec
    <2>3. Delivered(cs[s], v, cc) BY <1>1, <1>4 DEF Fine, Delivered, ServerRec
    <2>4. WindowFine(cs[s], v, cc) BY <1>1, <1>4 DEF Fine, WindowFine, ServerRec
    <2>5. cs' = Becomes(s, cs[s]) BY <1>1, <1>7 DEF ServerTrailers
    <2>6. Goes(s, cs[s], v) BY <1>6, <2>5 DEF Goes
    <2>7. InPipe(cs[s]) <= InPipe(cs[s]) BY <1>1 DEF InPipe, StreamRec
    <2>. QED BY <1>1, <1>2, <1>5, <2>1, <2>2, <2>3, <2>4, <2>6, <2>7, Quiet DEF Fine
  <1>8. CASE StreamByID(s)
    <2>1. cs[s].pc # "done" /\ ~cs[s].readAborted BY <1>8 DEF StreamByID, Known
    <2>2. PICK e : e = OrElse(cs[s].perr, "eof") OBVIOUS
    <2>3. e \in Ends /\ (e = "eof" => cs[s].perr = "none") /\ e # "none"
      BY <1>1, <1>2, <2>2 DEF OrElse, Ends, StreamRec, Fine, Delivered
    <2>4. PICK k : k = [cs[s] EXCEPT !.peer = TRUE, !.perr = e] OBVIOUS
    <2>5. k \in StreamRec BY <1>1, <2>3, <2>4 DEF StreamRec
    <2>6. Placed(k, v) BY <1>1, <1>3, <1>4, <2>4 DEF Fine, Placed, StreamRec, ServerRec
    <2>7. Over(k, v) BY <1>1, <1>2, <1>4, <2>4 DEF Fine, Over, StreamRec, ServerRec
    <2>8. Delivered(k, v, cc)
      BY <1>1, <1>2, <1>4, <2>1, <2>3, <2>4 DEF Fine, Delivered, StreamRec, ServerRec
    <2>9. WindowFine(k, v, cc) BY <1>1, <1>4, <2>4 DEF Fine, WindowFine, StreamRec, ServerRec
    <2>10. cs' = Becomes(s, k) BY <1>8, <2>2, <2>4 DEF ServerTrailers, EndStream
    <2>11. Goes(s, k, v) BY <1>6, <2>10 DEF Goes
    <2>12. k.tok = cs[s].tok /\ InPipe(k) <= InPipe(cs[s]) BY <1>1, <2>4 DEF InPipe, StreamRec
    <2>. QED BY <1>2, <1>5, <2>5, <2>6, <2>7, <2>8, <2>9, <2>11, <2>12, Quiet DEF Fine
  <1>. QED BY <1>7, <1>8

LEMMA ServerOutOfOrderInv ==
  ASSUME H2ConnInv, NEW s \in Stream, ServerOutOfOrder(s), UNCHANGED sc PROVE H2ConnInv'
  <1>1. /\ cs[s] \in StreamRec /\ sv[s] \in ServerRec /\ cc \in ConnRec
        /\ Fine(cs[s], sv[s], cc)
    BY Here
  <1>2. sv[s].seen /\ UNCHANGED <<sc, cc>> BY DEF ServerOutOfOrder
  <1>3. cs[s].pc # "new" BY <1>2, ServedIsOpen
  <1>4. PICK v : v = [sv[s] EXCEPT !.ended = TRUE] OBVIOUS
  <1>5. v \in ServerRec BY <1>1, <1>4 DEF ServerRec
  <1>6. PICK k : k = [cs[s] EXCEPT !.readAborted = TRUE] OBVIOUS
  <1>7. k \in StreamRec BY <1>1, <1>6 DEF StreamRec
  <1>8. Placed(k, v) BY <1>1, <1>3, <1>4, <1>6 DEF Fine, Placed, StreamRec, ServerRec
  <1>9. Over(k, v) BY <1>1, <1>2, <1>4, <1>6 DEF Fine, Over, StreamRec, ServerRec
  <1>10. Delivered(k, v, cc) BY <1>1, <1>4, <1>6 DEF Fine, Delivered, StreamRec, ServerRec
  <1>11. WindowFine(k, v, cc) BY <1>1, <1>4, <1>6 DEF Fine, WindowFine, StreamRec, ServerRec
  <1>12. {s} \in SUBSET Stream OBVIOUS
  <1>13. Goes(s, k, v) BY <1>4, <1>6, <1>12 DEF Goes, ServerOutOfOrder, EndStreamError
  <1>14. k.tok = cs[s].tok /\ InPipe(k) <= InPipe(cs[s]) BY <1>1, <1>6 DEF InPipe, StreamRec
  <1>. QED BY <1>2, <1>5, <1>7, <1>8, <1>9, <1>10, <1>11, <1>13, <1>14, Quiet DEF Fine

LEMMA ServerResetsInv ==
  ASSUME H2ConnInv, NEW s \in Stream, ServerResets(s), UNCHANGED sc PROVE H2ConnInv'
  <1>1. /\ cs[s] \in StreamRec /\ sv[s] \in ServerRec /\ cc \in ConnRec
        /\ Fine(cs[s], sv[s], cc) /\ cs = Becomes(s, cs[s])
    BY Here
  <1>2. sv[s].seen /\ UNCHANGED <<sc, cc>> BY DEF ServerResets, Serves
  <1>3. cs[s].pc # "new" BY <1>2, ServedIsOpen
  <1>4. PICK v : v = [sv[s] EXCEPT !.reset = TRUE] OBVIOUS
  <1>5. v \in ServerRec /\ v.reset BY <1>1, <1>4 DEF ServerRec
  <1>6. PICK e : e = OrElse(cs[s].perr, "err") OBVIOUS
  <1>7. e \in Ends /\ (e = "eof" <=> cs[s].perr = "eof") /\ e # "none"
    BY <1>1, <1>6 DEF OrElse, Ends, StreamRec
  <1>8. ASSUME NEW k, k = cs[s] \/ k = [cs[s] EXCEPT !.perr = e]
        PROVE  /\ k \in StreamRec
               /\ Placed(k, v) /\ Over(k, v) /\ Delivered(k, v, cc) /\ WindowFine(k, v, cc)
               /\ k.tok = cs[s].tok /\ InPipe(k) <= InPipe(cs[s])
    <2>1. k \in StreamRec BY <1>1, <1>7, <1>8 DEF StreamRec
    <2>2. Placed(k, v) BY <1>1, <1>3, <1>4, <1>8 DEF Fine, Placed, StreamRec, ServerRec
    <2>3. Over(k, v) BY <1>1, <1>4, <1>8 DEF Fine, Over, StreamRec, ServerRec
    <2>4. Delivered(k, v, cc) BY <1>1, <1>4, <1>7, <1>8 DEF Fine, Delivered, StreamRec, ServerRec
    <2>5. WindowFine(k, v, cc) BY <1>1, <1>4, <1>8 DEF Fine, WindowFine, StreamRec, ServerRec
    <2>6. k.tok = cs[s].tok /\ InPipe(k) <= InPipe(cs[s]) BY <1>1, <1>8 DEF InPipe, StreamRec
    <2>. QED BY <2>1, <2>2, <2>3, <2>4, <2>5, <2>6
  <1>9. {s} \in SUBSET Stream OBVIOUS
  <1>10. \E k : (k = cs[s] \/ k = [cs[s] EXCEPT !.perr = e]) /\ Goes(s, k, v)
    <2>1. sv' = ServerBecomes(s, v) BY <1>4 DEF ServerResets
    <2>2. CASE cs' = cs
      <3>1. Goes(s, cs[s], v) BY <1>1, <2>1, <2>2 DEF Goes
      <3>. QED BY <3>1
    <2>3. CASE cs' = Abort(Becomes(s, [cs[s] EXCEPT !.perr = OrElse(@, "err")]), {s}, "peer")
      <3>1. PICK k : k = [cs[s] EXCEPT !.perr = e] OBVIOUS
      <3>2. cs' = Abort(Becomes(s, k), {s}, "peer") BY <1>6, <2>3, <3>1
      <3>3. Goes(s, k, v) BY <1>5, <1>9, <2>1, <3>2 DEF Goes
      <3>. QED BY <3>1, <3>3
    <2>. QED BY <2>2, <2>3 DEF ServerResets
  <1>11. PICK k : (k = cs[s] \/ k = [cs[s] EXCEPT !.perr = e]) /\ Goes(s, k, v) BY <1>10
  <1>12. /\ k \in StreamRec
         /\ Placed(k, v) /\ Over(k, v) /\ Delivered(k, v, cc) /\ WindowFine(k, v, cc)
         /\ k.tok = cs[s].tok /\ InPipe(k) <= InPipe(cs[s])
    BY <1>8, <1>11
  <1>. QED BY <1>2, <1>5, <1>11, <1>12, Quiet DEF Fine

\* DATA within the windows the server was told never overruns those of the client, and
\* what it takes from them is in the pipe or goes back.
LEMMA ServerDataInv ==
  ASSUME H2ConnInv, NEW s \in Stream, NEW n \in Nat, NEW pad \in Nat, NEW end \in BOOLEAN,
         ServerData(s, n, pad, end), UNCHANGED sc
  PROVE  H2ConnInv'
  <1>1. /\ cs[s] \in StreamRec /\ sv[s] \in ServerRec /\ cc \in ConnRec
        /\ Fine(cs[s], sv[s], cc) /\ cs = Becomes(s, cs[s])
    BY Here
  <1>2. PICK len : len = n + pad OBVIOUS
  <1>3. /\ ~sv[s].ended /\ sv[s].hdr /\ sv[s].seen /\ cc.reading
        /\ len <= sv[s].credit /\ len <= cc.credit
    BY <1>2 DEF ServerData, Serves, Reads
  <1>4. cs[s].pc # "new" BY <1>3, ServedIsOpen
  <1>5. ~cs[s].peer /\ cs[s].perr # "eof" /\ cs[s].out # "eof"
    BY <1>1, <1>3 DEF Fine, Over, Delivered
  <1>6. /\ len \in Nat /\ sv[s].credit \in Int /\ sv[s].sent \in Nat
        /\ cs[s].avail \in Nat /\ cs[s].unsent \in Nat /\ cs[s].pbuf \in Nat /\ cs[s].hand \in Nat
        /\ cs[s].got \in Nat /\ cs[s].unread \in Nat
        /\ cc.avail \in Nat /\ cc.unsent \in Nat /\ cc.credit \in Int
    BY <1>1, <1>2 DEF StreamRec, ServerRec, ConnRec
  <1>7. sv[s].credit <= cs[s].avail /\ cc.credit <= cc.avail
    BY <1>1, <1>4 DEF Fine, WindowFine, H2ConnInv, ConnFine
  <1>8. ~(len > cc.avail) /\ ~(len > cs[s].avail) BY <1>3, <1>6, <1>7
  \* the connection after it took len and returned m of it
  <1>9. ASSUME NEW m \in Nat,
               cc' = ReturnConn([[cc EXCEPT !.credit = @ - len] EXCEPT !.avail = @ - len], m)
        PROVE  /\ cc' \in ConnRec /\ cc'.flow = cc.flow /\ cc'.reading = cc.reading
               /\ cc'.init = cc.init /\ cc'.win = cc.win /\ cc'.flowErr = cc.flowErr
               /\ cc'.avail + cc'.unsent = cc.avail + cc.unsent + m - len
               /\ cc'.credit <= cc'.avail
    <2>1. PICK a, x : a = cc.avail - len /\ x = cc.credit - len OBVIOUS
    <2>2. a \in Nat /\ x \in Int /\ x <= a BY <1>6, <1>7, <1>8, <2>1
    <2>3. PICK c : c = [cc EXCEPT !.credit = x, !.avail = a] OBVIOUS
    <2>4. [[cc EXCEPT !.credit = @ - len] EXCEPT !.avail = @ - len] = c
      BY <1>1, <2>1, <2>3 DEF ConnRec
    <2>5. /\ c \in ConnRec /\ c.flow = cc.flow /\ c.reading = cc.reading /\ c.init = cc.init
          /\ c.win = cc.win /\ c.flowErr = cc.flowErr /\ c.credit = x /\ c.avail = a
          /\ c.unsent = cc.unsent
      BY <1>1, <2>2, <2>3 DEF ConnRec
    <2>6. cc' = ReturnConn(c, m) BY <1>9, <2>4
    <2>7. Returned(c, m, cc') BY <2>5, <2>6, ReturnConnIs
    <2>. QED BY <1>6, <2>1, <2>2, <2>5, <2>7 DEF Returned
  \* the server after it sent n and heard that y more may be sent
  <1>10. ASSUME NEW y \in Nat
         PROVE  \E v \in ServerRec :
                   /\ v = [sv[s] EXCEPT !.sent = @ + n, !.ended = end, !.credit = @ - len + y]
                   /\ v.hdr /\ v.seen = sv[s].seen /\ v.ended = end /\ v.reset = sv[s].reset
                   /\ v.rst = sv[s].rst /\ v.sent = sv[s].sent + n /\ v.win = sv[s].win
                   /\ v.credit = sv[s].credit - len + y
    <2>1. PICK a, x : a = sv[s].sent + n /\ x = sv[s].credit - len + y OBVIOUS
    <2>2. a \in Nat /\ x \in Int BY <1>6, <2>1
    <2>3. PICK v : v = [sv[s] EXCEPT !.sent = a, !.ended = end, !.credit = x] OBVIOUS
    <2>4. v \in ServerRec BY <1>1, <2>2, <2>3 DEF ServerRec
    <2>5. /\ v.hdr = sv[s].hdr /\ v.seen = sv[s].seen /\ v.ended = end /\ v.reset = sv[s].reset
          /\ v.rst = sv[s].rst /\ v.sent = a /\ v.win = sv[s].win /\ v.credit = x
      BY <1>1, <2>3 DEF ServerRec
    <2>6. v = [sv[s] EXCEPT !.sent = @ + n, !.ended = end, !.credit = @ - len + y]
      BY <2>1, <2>3
    <2>. QED BY <1>3, <2>1, <2>4, <2>5, <2>6
  <1>11. CASE ~StreamByID(s)
    <2>1. PICK v \in ServerRec :
             /\ v = [sv[s] EXCEPT !.sent = @ + n, !.ended = end, !.credit = @ - len + 0]
             /\ v.hdr /\ v.seen = sv[s].seen /\ v.ended = end /\ v.reset = sv[s].reset
             /\ v.rst = sv[s].rst /\ v.sent = sv[s].sent + n /\ v.win = sv[s].win
             /\ v.credit = sv[s].credit - len + 0
      <3>1. 0 \in Nat OBVIOUS
      <3>. QED BY <1>10, <3>1
    <2>2. sv' = ServerBecomes(s, v) /\ cs' = Becomes(s, cs[s])
      BY <1>1, <1>2, <1>11, <2>1 DEF ServerData
    <2>3. cc' = ReturnConn([[cc EXCEPT !.credit = @ - len] EXCEPT !.avail = @ - len], len)
      BY <1>2, <1>8, <1>11 DEF ServerData
    <2>4. /\ cc' \in ConnRec /\ cc'.flow = cc.flow /\ cc'.reading = cc.reading
          /\ cc'.init = cc.init /\ cc'.win = cc.win /\ cc'.flowErr = cc.flowErr
          /\ cc'.avail + cc'.unsent = cc.avail + cc.unsent + len - len
          /\ cc'.credit <= cc'.avail
      BY <1>6, <1>9, <2>3
    <2>5. cs[s].pc = "done" \/ cs[s].readAborted BY <1>4, <1>11 DEF StreamByID, Known
    <2>6. Placed(cs[s], v) BY <1>1, <1>4, <2>1 DEF Fine, Placed
    <2>7. Over(cs[s], v) BY <1>1, <1>3, <1>5, <2>1 DEF Fine, Over
    <2>8. Delivered(cs[s], v, cc) BY <1>1, <1>5, <2>1, <2>5 DEF Fine, Delivered
    <2>9. WindowFine(cs[s], v, cc)
      <3>1. v.credit <= cs[s].avail BY <1>6, <1>7, <2>1
      <3>. QED BY <1>1, <2>1, <3>1 DEF Fine, WindowFine
    <2>10. Goes(s, cs[s], v) BY <2>2 DEF Goes
    <2>11. cc'.avail + cc'.unsent + InPipe(cs[s]) = cc.avail + cc.unsent + InPipe(cs[s])
      <3>1. cc'.avail \in Nat /\ cc'.unsent \in Nat BY <2>4 DEF ConnRec
      <3>. QED BY <1>6, <2>4, <3>1 DEF InPipe
    <2>. QED BY <1>1, <2>4, <2>6, <2>7, <2>8, <2>9, <2>10, <2>11, ReturnInv
  <1>12. CASE StreamByID(s)
    <2>0. cs[s].pc # "done" /\ ~cs[s].readAborted BY <1>12 DEF StreamByID, Known
    <2>1. PICK took : took = [cs[s] EXCEPT !.avail = @ - len] OBVIOUS
    <2>2. PICK x : x = cs[s].avail - len OBVIOUS
    <2>3. x \in Nat BY <1>6, <1>8, <2>2
    <2>4. took = [cs[s] EXCEPT !.avail = x] BY <2>1, <2>2
    <2>5. took \in StreamRec BY <1>1, <2>3, <2>4 DEF StreamRec
    <2>6. PICK refused : refused = (n > 0 /\ (cs[s].perr # "none" \/ cs[s].broken \/ ~cs[s].pipe))
      OBVIOUS
    <2>7. CASE refused
      <3>1. PICK v \in ServerRec :
               /\ v = [sv[s] EXCEPT !.sent = @ + n, !.ended = end, !.credit = @ - len + 0]
               /\ v.hdr /\ v.seen = sv[s].seen /\ v.ended = end /\ v.reset = sv[s].reset
               /\ v.rst = sv[s].rst /\ v.sent = sv[s].sent + n /\ v.win = sv[s].win
               /\ v.credit = sv[s].credit - len + 0
        <4>1. 0 \in Nat OBVIOUS
        <4>. QED BY <1>10, <4>1
      <3>2. took.avail - took.avail = 0 BY <2>5 DEF StreamRec
      <3>3. sv' = ServerBecomes(s, v)
        BY <1>2, <1>12, <2>1, <2>6, <2>7, <3>1, <3>2 DEF ServerData
      <3>4. PICK k : k = [took EXCEPT !.readAborted = TRUE] OBVIOUS
      <3>5. [took EXCEPT !.pbuf = @ + 0] = took BY <2>5 DEF StreamRec
      <3>6. cs' = EndStreamError(s, took)
        BY <1>2, <1>8, <1>12, <2>1, <2>6, <2>7, <3>5 DEF ServerData
      <3>7. cc' = ReturnConn([[cc EXCEPT !.credit = @ - len] EXCEPT !.avail = @ - len], pad + n)
        BY <1>2, <1>8, <1>12, <2>6, <2>7 DEF ServerData
      <3>8. /\ cc' \in ConnRec /\ cc'.flow = cc.flow /\ cc'.reading = cc.reading
            /\ cc'.init = cc.init /\ cc'.win = cc.win /\ cc'.flowErr = cc.flowErr
            /\ cc'.avail + cc'.unsent = cc.avail + cc.unsent + (pad + n) - len
            /\ cc'.credit <= cc'.avail
        <4>1. pad + n \in Nat OBVIOUS
        <4>. QED BY <1>9, <3>7, <4>1
      <3>9. k \in StreamRec BY <2>5, <3>4 DEF StreamRec
      <3>10. k = [cs[s] EXCEPT !.avail = x, !.readAborted = TRUE] BY <1>1, <2>4, <3>4 DEF StreamRec
      <3>11. Placed(k, v) BY <1>1, <1>4, <3>1, <3>10 DEF Fine, Placed, StreamRec
      <3>12. Over(k, v) BY <1>1, <1>3, <1>5, <3>1, <3>10 DEF Fine, Over, StreamRec
      <3>13. Delivered(k, v, cc) BY <1>1, <1>5, <3>1, <3>10 DEF Fine, Delivered, StreamRec
      <3>14. /\ k.avail = x /\ k.unsent = cs[s].unsent /\ k.pbuf = cs[s].pbuf /\ k.hand = cs[s].hand
             /\ k.pc = cs[s].pc /\ k.flow = cs[s].flow /\ k.tok = cs[s].tok /\ k.rt = cs[s].rt
             /\ k.unread = cs[s].unread
        BY <1>1, <3>10 DEF StreamRec
      <3>15. WindowFine(k, v, cc)
        <4>1. v.credit <= k.avail BY <1>6, <1>7, <2>2, <3>1, <3>14
        <4>2. k.avail <= cs[s].avail BY <1>6, <2>2, <3>14
        <4>3. k.avail + k.unsent + k.pbuf + k.hand <= StreamFlow
          BY <1>1, <1>6, <2>3, <3>14, <4>2, H2ConnConstants DEF Fine, WindowFine
        <4>. QED BY <1>1, <3>1, <3>14, <4>1, <4>3 DEF Fine, WindowFine
      <3>16. {s} \in SUBSET Stream OBVIOUS
      <3>17. Goes(s, k, v) BY <3>3, <3>4, <3>6, <3>16 DEF Goes, EndStreamError
      <3>18. InPipe(k) = InPipe(cs[s]) /\ InPipe(cs[s]) \in Nat BY <1>6, <3>14 DEF InPipe
      <3>19. cc'.avail + cc'.unsent + InPipe(k) = cc.avail + cc.unsent + InPipe(cs[s])
        <4>1. cc'.avail \in Nat /\ cc'.unsent \in Nat BY <3>8 DEF ConnRec
        <4>. QED BY <1>2, <1>6, <3>8, <3>18, <4>1
      <3>. QED BY <3>8, <3>9, <3>11, <3>12, <3>13, <3>14, <3>15, <3>17, <3>19, ReturnInv
    <2>8. CASE ~refused
      <3>1. took.avail = x /\ took.unsent = cs[s].unsent BY <1>1, <2>4 DEF StreamRec
      <3>2. PICK a \in Nat, b \in Nat :
               /\ InflowAdd(took, pad) = [took EXCEPT !.unsent = a, !.avail = b]
               /\ a + b = took.unsent + took.avail + pad /\ b >= took.avail
        BY <2>5, InflowAddStream
      <3>3. PICK add : add = InflowAdd(took, pad) OBVIOUS
      <3>4. add = [cs[s] EXCEPT !.unsent = a, !.avail = b]
        BY <1>1, <2>4, <3>2, <3>3 DEF StreamRec
      <3>5. PICK y : y = add.avail - took.avail OBVIOUS
      <3>6. y \in Nat /\ y = b - x BY <1>1, <2>3, <3>1, <3>2, <3>4, <3>5 DEF StreamRec
      <3>7. PICK v \in ServerRec :
               /\ v = [sv[s] EXCEPT !.sent = @ + n, !.ended = end, !.credit = @ - len + y]
               /\ v.hdr /\ v.seen = sv[s].seen /\ v.ended = end /\ v.reset = sv[s].reset
               /\ v.rst = sv[s].rst /\ v.sent = sv[s].sent + n /\ v.win = sv[s].win
               /\ v.credit = sv[s].credit - len + y
        BY <1>10, <3>6
      <3>8. sv' = ServerBecomes(s, v)
        BY <1>2, <1>12, <2>1, <2>6, <2>8, <3>3, <3>5, <3>7 DEF ServerData
      <3>9. PICK m : m = cs[s].pbuf + n OBVIOUS
      <3>10. PICK j : j = [cs[s] EXCEPT !.unsent = a, !.avail = b, !.pbuf = m] OBVIOUS
      <3>11. [add EXCEPT !.pbuf = @ + n] = j BY <1>1, <3>4, <3>9, <3>10 DEF StreamRec
      <3>12. cs' = IF end THEN EndStream(s, j) ELSE Becomes(s, j)
        BY <1>2, <1>8, <1>12, <2>1, <2>6, <2>8, <3>3, <3>11 DEF ServerData
      <3>13. cc' = ReturnConn([[cc EXCEPT !.credit = @ - len] EXCEPT !.avail = @ - len], pad + 0)
        BY <1>2, <1>8, <1>12, <2>6, <2>8 DEF ServerData
      <3>14. /\ cc' \in ConnRec /\ cc'.flow = cc.flow /\ cc'.reading = cc.reading
             /\ cc'.init = cc.init /\ cc'.win = cc.win /\ cc'.flowErr = cc.flowErr
             /\ cc'.avail + cc'.unsent = cc.avail + cc.unsent + (pad + 0) - len
             /\ cc'.credit <= cc'.avail
        <4>1. pad + 0 \in Nat OBVIOUS
        <4>. QED BY <1>9, <3>13, <4>1
      <3>15. m \in Nat BY <1>6, <3>9
      <3>16. j \in StreamRec BY <1>1, <3>10, <3>15 DEF StreamRec
      <3>17. PICK e : e = OrElse(j.perr, "eof") OBVIOUS
      <3>18. /\ j.pc = cs[s].pc /\ j.res = cs[s].res /\ j.rt = cs[s].rt /\ j.abort = cs[s].abort
             /\ j.err = cs[s].err /\ j.buf = cs[s].buf /\ j.tok = cs[s].tok /\ j.flow = cs[s].flow
             /\ j.sentHdr = cs[s].sentHdr /\ j.sentEnd = cs[s].sentEnd /\ j.peer = cs[s].peer
             /\ j.readAborted = cs[s].readAborted /\ j.avail = b
             /\ j.unsent = a /\ j.pbuf = m /\ j.perr = cs[s].perr
             /\ j.broken = cs[s].broken /\ j.unread = cs[s].unread /\ j.hand = cs[s].hand
             /\ j.out = cs[s].out /\ j.got = cs[s].got
        BY <1>1, <3>10 DEF StreamRec
      <3>19. e \in Ends /\ (e = "eof" => cs[s].perr = "none") /\ e # "none"
        BY <1>5, <3>16, <3>17, <3>18 DEF OrElse, Ends, StreamRec
      <3>20. PICK k : k = IF end THEN [j EXCEPT !.peer = TRUE, !.perr = e] ELSE j OBVIOUS
      <3>21. cs' = Becomes(s, k) BY <3>12, <3>17, <3>20 DEF EndStream
      <3>22. k \in StreamRec BY <3>16, <3>19, <3>20 DEF StreamRec
      <3>23. /\ k.pc = cs[s].pc /\ k.res = cs[s].res /\ k.rt = cs[s].rt /\ k.abort = cs[s].abort
             /\ k.err = cs[s].err /\ k.buf = cs[s].buf /\ k.tok = cs[s].tok /\ k.flow = cs[s].flow
             /\ k.sentHdr = cs[s].sentHdr /\ k.sentEnd = cs[s].sentEnd
             /\ k.peer => end
             /\ k.readAborted = cs[s].readAborted /\ k.avail = b
             /\ k.unsent = a /\ k.pbuf = m
             /\ k.perr = "eof" => end /\ cs[s].perr = "none"
             /\ k.perr = "none" => cs[s].perr = "none"
             /\ k.broken = cs[s].broken /\ k.unread = cs[s].unread /\ k.hand = cs[s].hand
             /\ k.out = cs[s].out /\ k.got = cs[s].got
             /\ k.peer \/ k.peer = cs[s].peer
        BY <1>5, <3>16, <3>18, <3>19, <3>20 DEF StreamRec
      <3>24. Placed(k, v) BY <1>1, <1>4, <3>7, <3>23 DEF Fine, Placed
      <3>25. Over(k, v) BY <1>1, <1>3, <1>5, <3>7, <3>23 DEF Fine, Over
      <3>26. Delivered(k, v, cc)
        <4>1. k.perr = "eof" => v.ended BY <3>7, <3>23
        <4>2. k.out # "eof" BY <1>5, <3>23
        <4>3. ASSUME k.rt \in Open, k.out # "err", k.perr = "eof" \/ k.perr = "none"
              PROVE  k.got + k.pbuf = v.sent
          <5>1. cs[s].got + cs[s].pbuf = sv[s].sent
            BY <1>1, <1>3, <2>0, <3>23, <4>3 DEF Fine, Delivered
          <5>. QED BY <1>6, <3>7, <3>9, <3>23, <5>1
        <4>. QED BY <4>1, <4>2, <4>3 DEF Delivered
      <3>27. WindowFine(k, v, cc)
        <4>1. v.credit <= k.avail BY <1>6, <1>7, <2>2, <2>3, <3>6, <3>7, <3>23
        <4>2. k.avail + k.unsent + k.pbuf + k.hand
                 = cs[s].avail + cs[s].unsent + cs[s].pbuf + cs[s].hand
          BY <1>2, <1>6, <2>2, <3>1, <3>2, <3>9, <3>23
        <4>. QED BY <1>1, <3>7, <3>23, <4>1, <4>2 DEF Fine, WindowFine
      <3>28. Goes(s, k, v) BY <3>8, <3>21 DEF Goes
      <3>29. InPipe(k) = InPipe(cs[s]) + n /\ InPipe(cs[s]) \in Nat
        BY <1>6, <3>9, <3>23 DEF InPipe
      <3>30. cc'.avail + cc'.unsent + InPipe(k) = cc.avail + cc.unsent + InPipe(cs[s])
        <4>1. cc'.avail \in Nat /\ cc'.unsent \in Nat BY <3>14 DEF ConnRec
        <4>. QED BY <1>2, <1>6, <3>14, <3>29, <4>1
      <3>. QED BY <3>14, <3>22, <3>23, <3>24, <3>25, <3>26, <3>27, <3>28, <3>30, ReturnInv
    <2>. QED BY <2>7, <2>8
  <1>. QED BY <1>11, <1>12

\* The windows a server gives stay below the maximum.
LEMMA GrantsFit ==
  ASSUME NEW f \in Int, NEW d \in Int, NEW w \in Windows \cup {InitialWindow},
         f + d <= MaxGrant + w
  PROVE  OutflowAdd(f, d) = f + d
  <1>1. MaxGrant + w <= MaxWindow BY WindowsFit
  <1>2. w \in Int /\ MaxGrant \in Int /\ MaxWindow \in Int
    <2>1. InitialWindow \in Nat /\ Windows \subseteq Nat /\ MaxGrant \in Nat /\ MaxWindow \in Nat
      BY H2ConnConstants
    <2>. QED BY <2>1
  <1>3. ~(f + d > MaxWindow) BY <1>1, <1>2
  <1>. QED BY <1>3 DEF OutflowAdd

LEMMA ServerStreamWindowInv ==
  ASSUME H2ConnInv, NEW s \in Stream, NEW n \in 1..MaxGrant, ServerStreamWindow(s, n), UNCHANGED sc
  PROVE  H2ConnInv'
  <1>1. /\ cs[s] \in StreamRec /\ sv[s] \in ServerRec /\ cc \in ConnRec
        /\ Fine(cs[s], sv[s], cc)
    BY Here
  <1>2. cs[s].pc \in SendingAt /\ cs[s].flow + n <= MaxGrant /\ cc.reading /\ UNCHANGED <<sc, cc>>
    BY DEF ServerStreamWindow, Sending, SendingAt, Reads
  <1>3. /\ n \in Int /\ MaxGrant \in Int /\ cs[s].flow \in Int /\ cs[s].tok \in Nat
        /\ sv[s].win \in Int /\ cc.init \in Nat /\ InitialWindow \in Nat
    BY <1>1, H2ConnConstants DEF StreamRec, ServerRec, ConnRec
  <1>4. PICK f, w : f = cs[s].flow + n /\ w = sv[s].win + n OBVIOUS
  <1>5. f \in Int /\ w \in Int /\ f <= MaxGrant BY <1>2, <1>3, <1>4
  <1>6. OutflowAdd(cs[s].flow, n) = f
    <2>1. cs[s].flow + n <= MaxGrant + InitialWindow BY <1>2, <1>3
    <2>2. InitialWindow \in Windows \cup {InitialWindow} OBVIOUS
    <2>3. OutflowAdd(cs[s].flow, n) = cs[s].flow + n BY <1>3, <2>1, <2>2, GrantsFit
    <2>. QED BY <1>4, <2>3
  <1>7. PICK k : k = [cs[s] EXCEPT !.flow = f] OBVIOUS
  <1>8. PICK v : v = [sv[s] EXCEPT !.win = w] OBVIOUS
  <1>9. k \in StreamRec /\ v \in ServerRec BY <1>1, <1>5, <1>7, <1>8 DEF StreamRec, ServerRec
  <1>10. Placed(k, v) BY <1>1, <1>7, <1>8 DEF Fine, Placed, StreamRec, ServerRec
  <1>11. Over(k, v) BY <1>1, <1>7, <1>8 DEF Fine, Over, StreamRec, ServerRec
  <1>12. Delivered(k, v, cc) BY <1>1, <1>7, <1>8 DEF Fine, Delivered, StreamRec, ServerRec
  <1>13. WindowFine(k, v, cc)
    <2>1. /\ k.avail = cs[s].avail /\ k.unsent = cs[s].unsent /\ k.pbuf = cs[s].pbuf
          /\ k.hand = cs[s].hand /\ k.pc = cs[s].pc /\ k.flow = f /\ k.tok = cs[s].tok
          /\ v.win = w /\ v.credit = sv[s].credit
      BY <1>1, <1>7, <1>8 DEF StreamRec, ServerRec
    <2>. QED BY <1>1, <1>2, <1>3, <1>4, <1>5, <2>1 DEF Fine, WindowFine
  <1>14. Goes(s, k, v) BY <1>4, <1>6, <1>7, <1>8 DEF Goes, ServerStreamWindow
  <1>15. k.tok = cs[s].tok /\ InPipe(k) <= InPipe(cs[s]) BY <1>1, <1>7 DEF InPipe, StreamRec
  <1>. QED BY <1>2, <1>9, <1>10, <1>11, <1>12, <1>13, <1>14, <1>15, Quiet DEF Fine

LEMMA ServerOverflowsInv ==
  ASSUME H2ConnInv, NEW s \in Stream, ServerOverflows(s), UNCHANGED sc PROVE H2ConnInv'
  <1>1. /\ cs[s] \in StreamRec /\ sv[s] \in ServerRec /\ cc \in ConnRec
        /\ Fine(cs[s], sv[s], cc) /\ cs = Becomes(s, cs[s]) /\ sv = ServerBecomes(s, sv[s])
    BY Here
  <1>2. cc' = [cc EXCEPT !.stuck = TRUE] /\ UNCHANGED <<cs, sv>> BY DEF ServerOverflows
  <1>3. /\ cc' \in ConnRec /\ cc'.flow = cc.flow /\ cc'.reading = cc.reading /\ cc'.init = cc.init
        /\ cc'.win = cc.win /\ cc'.flowErr = cc.flowErr /\ cc'.credit = cc.credit
        /\ cc'.avail = cc.avail /\ cc'.unsent = cc.unsent
    BY <1>1, <1>2 DEF ConnRec
  <1>4. Goes(s, cs[s], sv[s]) BY <1>1, <1>2 DEF Goes
  <1>5. cc'.credit <= cc'.avail BY <1>3 DEF H2ConnInv, ConnFine
  <1>. QED BY <1>1, <1>3, <1>4, <1>5, ReturnInv DEF Fine

-----------------------------------------------------------------------------
(* Steps of the connection.                                                *)

\* All streams change, to q, or to q when they have heard of it; none takes or holds
\* more or less of the connection's windows.
LEMMA AllFine ==
  ASSUME H2ConnInv, NEW q \in [Stream -> StreamRec],
         cs' \in [Stream -> StreamRec], sv' \in [Stream -> ServerRec], cc' \in ConnRec, sc' = sc,
         \A t \in Stream : /\ Alike(cs'[t], q[t], sv'[t]) /\ Fine(q[t], sv'[t], cc')
                           /\ q[t].tok = cs[t].tok /\ InPipe(q[t]) = InPipe(cs[t]),
         ConnFine(cc', Total(Toks), Total(Pipes))
  PROVE  H2ConnInv'
  <1>1. Types' BY DEF Types, H2ConnInv
  <1>2. \A t \in Stream : /\ Fine(cs'[t], sv'[t], cc') /\ cs'[t].tok = cs[t].tok
                          /\ InPipe(cs'[t]) = InPipe(cs[t])
    BY AlikeFine
  <1>3. Toks' = Toks /\ Pipes' = Pipes BY <1>2 DEF Toks, Pipes
  <1>4. Total(Toks)' = Total(Toks') /\ Total(Pipes)' = Total(Pipes') OBVIOUS
  <1>5. ConnFine(cc', Total(Toks)', Total(Pipes)') BY <1>3, <1>4
  <1>. QED BY <1>1, <1>2, <1>5 DEF H2ConnInv

\* Everyone is woken, some are aborted.
LEMMA HeardOf ==
  ASSUME NEW q \in [Stream -> StreamRec], NEW w, NEW S, NEW r,
         r = Broadcast(q) \/ r = Abort(q, S, "err")
  PROVE  r \in [Stream -> StreamRec] /\ \A t \in Stream : Alike(r[t], q[t], w[t])
  <1>1. CASE r = Broadcast(q)
    <2>1. r = [t \in Stream |-> Woken(q[t])] BY <1>1 DEF Broadcast
    <2>2. \A t \in Stream : Woken(q[t]) \in StreamRec /\ Alike(Woken(q[t]), q[t], w[t])
      BY WokenAlike
    <2>. QED BY <2>1, <2>2
  <1>2. CASE r = Abort(q, S, "err")
    <2>1. PICK a : a = [t \in Stream |-> IF t \in S THEN Aborted(t, q[t], "err") ELSE q[t]] OBVIOUS
    <2>2. r = [t \in Stream |-> Woken(a[t])] BY <1>2, <2>1 DEF Abort, Broadcast
    <2>3. ASSUME NEW t \in Stream PROVE Woken(a[t]) \in StreamRec /\ Alike(Woken(a[t]), q[t], w[t])
      <3>1. CASE t \in S
        <4>1. a[t] = Aborted(t, q[t], "err") BY <2>1, <3>1
        <4>. QED BY <4>1, AbortedAlike
      <3>2. CASE t \notin S
        <4>1. a[t] = q[t] BY <2>1, <3>2
        <4>. QED BY <4>1, WokenAlike
      <3>. QED BY <3>1, <3>2
    <2>. QED BY <2>2, <2>3
  <1>. QED BY <1>1, <1>2

\* A change of INITIAL_WINDOW_SIZE changes the windows of all open streams by as much,
\* on both sides.
LEMMA ServerSettingsInv ==
  ASSUME H2ConnInv, NEW w \in Windows, ServerSettings(w), UNCHANGED sc PROVE H2ConnInv'
  <1>1. cs \in [Stream -> StreamRec] /\ sv \in [Stream -> ServerRec] /\ cc \in ConnRec
    BY DEF H2ConnInv, Types
  <1>2. PICK i : i = cc.init OBVIOUS
  <1>3. i \in Nat /\ w \in Nat /\ MaxGrant \in Nat BY <1>1, <1>2, H2ConnConstants DEF ConnRec
  <1>4. cc.reading /\ cc' = [cc EXCEPT !.init = w] BY DEF ServerSettings, Reads
  <1>5. /\ cc' \in ConnRec /\ cc'.flow = cc.flow /\ cc'.reading = cc.reading /\ cc'.init = w
        /\ cc'.win = cc.win /\ cc'.flowErr = cc.flowErr /\ cc'.credit = cc.credit
        /\ cc'.avail = cc.avail /\ cc'.unsent = cc.unsent
    BY <1>1, <1>3, <1>4 DEF ConnRec
  <1>6. ConnFine(cc', Total(Toks), Total(Pipes)) BY <1>4, <1>5 DEF H2ConnInv, ConnFine
  <1>7. PICK q : q = AdjustStreams(w) OBVIOUS
  <1>8. cs' = Broadcast(q) BY <1>7 DEF ServerSettings
  <1>9. sv' = [s \in Stream |-> IF Sending(s) THEN [sv[s] EXCEPT !.win = @ + w - i] ELSE sv[s]]
    BY <1>2 DEF ServerSettings
  <1>10. q = [s \in Stream |-> IF Sending(s) THEN [cs[s] EXCEPT !.flow = OutflowAdd(@, w - i)]
                               ELSE cs[s]]
    BY <1>2, <1>7 DEF AdjustStreams
  <1>11. ASSUME NEW t \in Stream
         PROVE  /\ q[t] \in StreamRec /\ sv'[t] \in ServerRec /\ Fine(q[t], sv'[t], cc')
                /\ q[t].tok = cs[t].tok /\ InPipe(q[t]) = InPipe(cs[t])
    <2>1. cs[t] \in StreamRec /\ sv[t] \in ServerRec /\ Fine(cs[t], sv[t], cc) BY Here
    <2>2. CASE Sending(t)
      <3>1. cs[t].pc \in SendingAt BY <2>2 DEF Sending, SendingAt
      <3>2. /\ cs[t].flow \in Int /\ sv[t].win \in Int /\ cs[t].tok \in Nat
            /\ sv[t].win = cs[t].flow + cs[t].tok /\ cs[t].flow <= MaxGrant + i
        BY <1>2, <1>4, <2>1, <3>1 DEF Fine, WindowFine, StreamRec, ServerRec
      <3>3. PICK f, x : f = cs[t].flow + (w - i) /\ x = sv[t].win + w - i OBVIOUS
      <3>4. f \in Int /\ x \in Int /\ f <= MaxGrant + w /\ x = f + cs[t].tok /\ w - i \in Int
        BY <1>3, <3>2, <3>3
      <3>5. OutflowAdd(cs[t].flow, w - i) = f BY <3>2, <3>3, <3>4, GrantsFit
      <3>6. PICK k : k = [cs[t] EXCEPT !.flow = f] OBVIOUS
      <3>7. PICK v : v = [sv[t] EXCEPT !.win = x] OBVIOUS
      <3>8. q[t] = k /\ sv'[t] = v BY <1>9, <1>10, <2>2, <3>3, <3>5, <3>6, <3>7
      <3>9. k \in StreamRec /\ v \in ServerRec BY <2>1, <3>4, <3>6, <3>7 DEF StreamRec, ServerRec
      <3>10. Placed(k, v) BY <2>1, <3>6, <3>7 DEF Fine, Placed, StreamRec, ServerRec
      <3>11. Over(k, v) BY <2>1, <3>6, <3>7 DEF Fine, Over, StreamRec, ServerRec
      <3>12. Delivered(k, v, cc')
        BY <1>5, <2>1, <3>6, <3>7 DEF Fine, Delivered, StreamRec, ServerRec
      <3>13. WindowFine(k, v, cc')
        <4>1. /\ k.avail = cs[t].avail /\ k.unsent = cs[t].unsent /\ k.pbuf = cs[t].pbuf
              /\ k.hand = cs[t].hand /\ k.pc = cs[t].pc /\ k.flow = f /\ k.tok = cs[t].tok
              /\ v.win = x /\ v.credit = sv[t].credit
          BY <2>1, <3>6, <3>7 DEF StreamRec, ServerRec
        <4>. QED BY <1>5, <2>1, <3>4, <4>1 DEF Fine, WindowFine
      <3>14. k.tok = cs[t].tok /\ InPipe(k) = InPipe(cs[t]) BY <2>1, <3>6 DEF InPipe, StreamRec
      <3>. QED BY <3>8, <3>9, <3>10, <3>11, <3>12, <3>13, <3>14 DEF Fine
    <2>3. CASE ~Sending(t)
      <3>1. cs[t].pc \notin SendingAt BY <2>3 DEF Sending, SendingAt
      <3>2. q[t] = cs[t] /\ sv'[t] = sv[t] BY <1>9, <1>10, <2>3
      <3>3. Delivered(cs[t], sv[t], cc') BY <1>5, <2>1 DEF Fine, Delivered
      <3>4. WindowFine(cs[t], sv[t], cc') BY <2>1, <3>1 DEF Fine, WindowFine
      <3>. QED BY <2>1, <3>2, <3>3, <3>4 DEF Fine
    <2>. QED BY <2>2, <2>3
  <1>12. q \in [Stream -> StreamRec] BY <1>10, <1>11
  <1>13. sv' \in [Stream -> ServerRec] BY <1>9, <1>11
  <1>14. cs' \in [Stream -> StreamRec] /\ \A t \in Stream : Alike(cs'[t], q[t], sv'[t])
    BY <1>8, <1>12, HeardOf
  <1>. QED BY <1>5, <1>6, <1>11, <1>12, <1>13, <1>14, AllFine

\* The streams hear of a change of the connection.
LEMMA HearInv ==
  ASSUME H2ConnInv, UNCHANGED <<sc, sv>>, NEW S, cs' = Broadcast(cs) \/ cs' = Abort(cs, S, "err"),
         cc' \in ConnRec, Calm(cc, cc'), ConnFine(cc', Total(Toks), Total(Pipes))
  PROVE  H2ConnInv'
  <1>1. /\ cs \in [Stream -> StreamRec] /\ sv \in [Stream -> ServerRec]
        /\ \A t \in Stream : Fine(cs[t], sv[t], cc)
    BY DEF H2ConnInv, Types
  <1>2. cs' \in [Stream -> StreamRec] /\ \A t \in Stream : Alike(cs'[t], cs[t], sv'[t])
    BY <1>1, HeardOf
  <1>3. \A t \in Stream : Fine(cs[t], sv[t], cc') BY <1>1, CalmFine
  <1>. QED BY <1>1, <1>2, <1>3, AllFine

LEMMA ServerWindowInv ==
  ASSUME H2ConnInv, NEW n \in 1..MaxGrant, ServerWindow(n), UNCHANGED sc PROVE H2ConnInv'
  <1>1. cc \in ConnRec BY DEF H2ConnInv, Types
  <1>2. cc.flow + n <= MaxGrant /\ cc.reading /\ UNCHANGED sv /\ cs' = Broadcast(cs)
    BY DEF ServerWindow, Reads
  <1>3. n \in Nat /\ MaxGrant \in Int /\ cc.flow \in Nat /\ cc.win \in Int /\ InitialWindow \in Nat
    BY <1>1, H2ConnConstants DEF ConnRec
  <1>4. PICK f, w : f = cc.flow + n /\ w = cc.win + n OBVIOUS
  <1>5. f \in Nat /\ w \in Int BY <1>3, <1>4
  <1>6. OutflowAdd(cc.flow, n) = f
    <2>1. cc.flow + n <= MaxGrant + InitialWindow /\ cc.flow \in Int /\ n \in Int BY <1>2, <1>3
    <2>2. InitialWindow \in Windows \cup {InitialWindow} OBVIOUS
    <2>3. OutflowAdd(cc.flow, n) = cc.flow + n BY <2>1, <2>2, GrantsFit
    <2>. QED BY <1>4, <2>3
  <1>7. cc' = [cc EXCEPT !.flow = f, !.win = w] BY <1>4, <1>6 DEF ServerWindow
  <1>8. /\ cc' \in ConnRec /\ cc'.flow = f /\ cc'.reading = cc.reading /\ cc'.init = cc.init
        /\ cc'.win = w /\ cc'.flowErr = cc.flowErr /\ cc'.credit = cc.credit
        /\ cc'.avail = cc.avail /\ cc'.unsent = cc.unsent
    BY <1>1, <1>5, <1>7 DEF ConnRec
  <1>9. Total(Toks) \in Nat
    <2>1. Toks \in [Stream -> Nat] BY DEF H2ConnInv, Types, Toks, StreamRec
    <2>2. Stream \in SUBSET Stream OBVIOUS
    <2>. QED BY <2>1, <2>2, FoldNat, TotalIsFold
  <1>10. ConnFine(cc', Total(Toks), Total(Pipes))
    BY <1>2, <1>3, <1>4, <1>8, <1>9 DEF H2ConnInv, ConnFine
  <1>. QED BY <1>2, <1>8, <1>10, HearInv DEF Calm

\* The connection is closed.
LEMMA DeadConnInv ==
  ASSUME H2ConnInv, cc' = DeadConn, UNCHANGED <<sc, sv>>, NEW S, cs' = Abort(cs, S, "err")
  PROVE  H2ConnInv'
  <1>1. cc \in ConnRec BY DEF H2ConnInv, Types
  <1>2. cc' = [cc EXCEPT !.closed = TRUE, !.reading = FALSE, !.flow = 0, !.win = 0,
                         !.credit = 0, !.init = 0]
    BY DEF DeadConn
  <1>a. 0 \in Nat /\ 0 \in Int /\ TRUE \in BOOLEAN /\ FALSE \in BOOLEAN OBVIOUS
  <1>b. cc' \in ConnRec BY <1>1, <1>2, <1>a DEF ConnRec
  <1>c. /\ cc'.reading = FALSE /\ cc'.credit = 0 /\ cc'.flowErr = cc.flowErr
        /\ cc'.avail = cc.avail /\ cc'.unsent = cc.unsent /\ cc.avail \in Nat
    BY <1>1, <1>2 DEF ConnRec
  <1>3. /\ cc' \in ConnRec /\ ~cc'.reading /\ cc'.credit = 0 /\ cc'.flowErr = cc.flowErr
        /\ cc'.avail = cc.avail /\ cc'.unsent = cc.unsent /\ cc.avail \in Nat
    BY <1>b, <1>c
  <1>4. ConnFine(cc', Total(Toks), Total(Pipes)) BY <1>3 DEF H2ConnInv, ConnFine
  <1>. QED BY <1>3, <1>4, HearInv DEF Calm

LEMMA ConnInv ==
  ASSUME H2ConnInv, Conn \/ ReadLoopEnds, UNCHANGED sc PROVE H2ConnInv'
  <1>1. CASE \E w \in Windows : ServerSettings(w) BY <1>1, ServerSettingsInv
  <1>2. CASE \E n \in 1..MaxGrant : ServerWindow(n) BY <1>2, ServerWindowInv
  <1>3. CASE ConnFails \/ ReadLoopEnds
    BY <1>3, DeadConnInv DEF ConnFails, ReadLoopEnds, ReadLoopCleanup
  <1>4. CASE CloseForError BY <1>4, DeadConnInv DEF CloseForError
  <1>. QED BY <1>1, <1>2, <1>3, <1>4 DEF Conn

-----------------------------------------------------------------------------
(* The specification.                                                      *)

LEMMA InitInv == ASSUME Init PROVE H2ConnInv
  <1>1. /\ sc \in Scenarios /\ sc.req \in [Stream -> Nat] /\ InitialWindow \in Nat
        /\ ConnFlow \in Nat /\ Announced \in Nat /\ StreamFlow \in Nat
    BY H2ConnConstants DEF Init
  <1>2. cc = [flow |-> InitialWindow, init |-> InitialWindow, avail |-> ConnFlow,
              unsent |-> 0, closed |-> FALSE, reading |-> TRUE, stuck |-> FALSE,
              flowErr |-> FALSE, win |-> InitialWindow, credit |-> ConnFlow]
    BY DEF Init
  <1>3. cc \in ConnRec BY <1>1, <1>2 DEF ConnRec
  <1>4. PICK v : v = NewServer OBVIOUS
  <1>5. v \in ServerRec BY <1>1, <1>4 DEF NewServer, ServerRec
  <1>6. ASSUME NEW l \in Nat, NEW k, k = [NewStream EXCEPT !.left = l]
        PROVE  k \in StreamRec /\ Fine(k, v, cc) /\ k.tok = 0 /\ InPipe(k) = 0
    <2>1. -1 \in Lengths /\ 0 \in Nat /\ 0 \in Int BY DEF Lengths
    <2>2. NewStream \in StreamRec
      BY <2>1 DEF NewStream, StreamRec, Places, Callers, Errors, Bodies, Ends
    <2>3. k \in StreamRec BY <1>6, <2>2 DEF StreamRec
    <2>4. Placed(k, v) BY <1>4, <1>6 DEF Placed, NewStream, NewServer, Open
    <2>5. Over(k, v) BY <1>4, <1>6 DEF Over, NewStream, NewServer
    <2>6. Delivered(k, v, cc) BY <1>4, <1>6 DEF Delivered, NewStream, NewServer
    <2>7. WindowFine(k, v, cc)
      BY <1>1, <1>4, <1>6 DEF WindowFine, NewStream, NewServer, SendingAt
    <2>8. k.tok = 0 /\ InPipe(k) = 0 BY <1>6 DEF NewStream, InPipe
    <2>. QED BY <2>3, <2>4, <2>5, <2>6, <2>7, <2>8 DEF Fine
  <1>7. cs = [s \in Stream |-> [NewStream EXCEPT !.left = sc.req[s]]] /\ sv = [s \in Stream |-> v]
    BY <1>4 DEF Init
  <1>8. \A s \in Stream : sc.req[s] \in Nat /\ cs[s] = [NewStream EXCEPT !.left = sc.req[s]]
                          /\ sv[s] = v
    BY <1>1, <1>7
  <1>9. \A s \in Stream : cs[s] \in StreamRec /\ Fine(cs[s], v, cc) /\ cs[s].tok = 0
                          /\ InPipe(cs[s]) = 0
    BY <1>6, <1>8
  <1>10. Types BY <1>1, <1>3, <1>5, <1>7, <1>9 DEF Types
  <1>11. Toks \in [Stream -> Nat] /\ Pipes \in [Stream -> Nat]
         /\ \A s \in Stream : Toks[s] = 0 /\ Pipes[s] = 0
    BY <1>9 DEF Toks, Pipes
  <1>12. Total(Toks) = 0 /\ Total(Pipes) = 0 BY <1>11, TotalZero
  <1>13. ConnFine(cc, Total(Toks), Total(Pipes)) BY <1>1, <1>2, <1>12 DEF ConnFine
  <1>. QED BY <1>8, <1>9, <1>10, <1>13 DEF H2ConnInv

LEMMA DoRequestInv ==
  ASSUME H2ConnInv, NEW s \in Stream, DoRequest(s), UNCHANGED sc PROVE H2ConnInv'
  <1>1. CASE \E n \in 0..sc.req[s], e \in BOOLEAN : ReadBody(s, n, e) BY <1>1, ReadBodyInv
  <1>. QED BY <1>1, AddStreamInv, WriteHeadersInv, Wait100Inv, AwaitFlowControlInv, WriteDataInv,
              WriteLastInv, WriteFailsInv, WaitPeerInv, CleanBodyInv, CleanUpInv, ForgetStreamIDInv
       DEF DoRequest

LEMMA CallerInv ==
  ASSUME H2ConnInv, NEW s \in Stream, Caller(s), UNCHANGED sc PROVE H2ConnInv'
  BY GotResponseInv, GotAbortInv, GotCtxInv, DrainedInv, PipeReadInv, PipeEndInv, AddBackInv,
     CloseReturnsInv
  DEF Caller

LEMMA ServerInv ==
  ASSUME H2ConnInv, NEW s \in Stream, Server(s), UNCHANGED sc PROVE H2ConnInv'
  <1>1. CASE \E cl \in sc.declared, big \in BOOLEAN, end \in BOOLEAN : ServerResponds(s, cl, big, end)
    BY <1>1, ServerRespondsInv
  <1>2. CASE \E n \in 0..sc.resp[s], pad \in 0..1, end \in BOOLEAN : ServerData(s, n, pad, end)
    <2>1. PICK n \in 0..sc.resp[s], pad \in 0..1, end \in BOOLEAN : ServerData(s, n, pad, end)
      BY <1>2
    <2>2. sc.resp[s] \in Nat BY Here
    <2>3. n \in Nat /\ pad \in Nat BY <2>2
    <2>. QED BY <2>1, <2>3, ServerDataInv
  <1>3. CASE \E n \in 1..MaxGrant : ServerStreamWindow(s, n) BY <1>3, ServerStreamWindowInv
  <1>. QED BY <1>1, <1>2, <1>3, ServerInformsInv, ServerTrailersInv, ServerOutOfOrderInv,
              ServerResetsInv, ServerOverflowsInv
       DEF Server

LEMMA NextInv == ASSUME H2ConnInv, [Next]_vars PROVE H2ConnInv'
  <1>1. ASSUME UNCHANGED vars PROVE H2ConnInv'
    <2>1. Toks' = Toks /\ Pipes' = Pipes BY <1>1 DEF vars, Toks, Pipes
    <2>2. Total(Toks)' = Total(Toks') /\ Total(Pipes)' = Total(Pipes') OBVIOUS
    <2>3. ConnFine(cc', Total(Toks)', Total(Pipes)')
      BY <1>1, <2>1, <2>2 DEF vars, H2ConnInv
    <2>4. Types' /\ \A s \in Stream : Fine(cs'[s], sv'[s], cc')
      BY <1>1 DEF vars, H2ConnInv, Types
    <2>. QED BY <2>3, <2>4 DEF H2ConnInv
  <1>2. ASSUME UNCHANGED sc, NEW s \in Stream,
               DoRequest(s) \/ Caller(s) \/ Server(s) \/ CtxDone(s) \/ ReadBodyFails(s) \/ CloseBreaks(s)
        PROVE  H2ConnInv'
    BY <1>2, DoRequestInv, CallerInv, ServerInv, CtxDoneInv, ReadBodyFailsInv, CloseBreaksInv
  <1>3. CASE UNCHANGED sc /\ (Conn \/ ReadLoopEnds) BY <1>3, ConnInv
  <1>4. CASE AllDone BY <1>1, <1>4 DEF AllDone
  <1>. QED BY <1>1, <1>2, <1>3, <1>4 DEF Next

\* The inductive invariant holds in every state of a connection.
THEOREM H2ConnInvariance == Spec => []H2ConnInv
  BY InitInv, NextInv, PTL DEF Spec

\* The client's idea of every send window is the server's, and the connection's window
\* is never overrun, whatever SETTINGS, WINDOW_UPDATE and other writers do between
\* awaitFlowControl and the write: for any number of streams and any windows.
THEOREM SendWindowsAgree == Spec => []WindowsAgree
  <1>1. ASSUME H2ConnInv PROVE WindowsAgree
    <2>1. cc \in ConnRec /\ cs \in [Stream -> StreamRec] BY <1>1 DEF H2ConnInv, Types
    <2>2. Total(Toks) \in Nat
      <3>1. Toks \in [Stream -> Nat] BY <2>1 DEF Toks, StreamRec
      <3>2. Stream \in SUBSET Stream OBVIOUS
      <3>. QED BY <3>1, <3>2, FoldNat, TotalIsFold
    <2>3. ASSUME cc.reading PROVE cc.win = cc.flow + Total(Toks) BY <1>1, <2>3 DEF H2ConnInv, ConnFine
    <2>4. cc.flow \in Nat BY <2>1 DEF ConnRec
    <2>5. \A s \in Stream : cc.reading /\ Sending(s) => sv[s].win = cs[s].flow + cs[s].tok
      BY <1>1 DEF H2ConnInv, Fine, WindowFine, Sending, SendingAt
    <2>6. cc.reading => cc.win >= 0 BY <2>2, <2>3, <2>4
    <2>. QED BY <2>3, <2>5, <2>6 DEF WindowsAgree, Toks
  <1>. QED BY <1>1, H2ConnInvariance, PTL

\* The receive windows are kept by both sides: a server that keeps to what it was told
\* is never accused of FLOW_CONTROL_ERROR, and no window is given out twice.
THEOREM ReceiveWindowsKept == Spec => []ReceiveWindowKept
  <1>1. ASSUME H2ConnInv PROVE ReceiveWindowKept
    <2>1. ~cc.flowErr /\ cc.avail + cc.unsent + Total(Pipes) <= ConnFlow
      BY <1>1 DEF H2ConnInv, ConnFine
    <2>2. \A s \in Stream : cs[s].avail + cs[s].unsent + cs[s].pbuf + cs[s].hand <= StreamFlow
      BY <1>1 DEF H2ConnInv, Fine, WindowFine
    <2>. QED BY <2>1, <2>2 DEF ReceiveWindowKept, Pipes
  <1>. QED BY <1>1, H2ConnInvariance, PTL

\* A reader that sees the end of its body has read all the server sent, on a stream the
\* server ended, and as much as was declared.
THEOREM EOFComplete == Spec => []EOFMeansComplete
  <1>1. ASSUME H2ConnInv, NEW s \in Stream, cs[s].out = "eof"
        PROVE  sv[s].ended /\ cs[s].got = sv[s].sent /\ cs[s].remain <= 0
    <2>1. cs[s] \in StreamRec /\ Fine(cs[s], sv[s], cc) BY <1>1, Here
    <2>2. cs[s].got + cs[s].pbuf = sv[s].sent /\ cs[s].pbuf = 0 /\ sv[s].ended /\ cs[s].remain <= 0
      BY <1>1, <2>1 DEF Fine, Delivered, Open
    <2>3. cs[s].got \in Nat BY <2>1 DEF StreamRec
    <2>. QED BY <2>2, <2>3
  <1>2. H2ConnInv => EOFMeansComplete BY <1>1 DEF EOFMeansComplete
  <1>. QED BY <1>2, H2ConnInvariance, PTL

\* When doRequest is over the server does not keep the stream open: it was reset by
\* either side or ended by both.
THEOREM NoneLeftOpen == Spec => []NoStreamLeftOpen
  <1>1. H2ConnInv => NoStreamLeftOpen BY DEF H2ConnInv, Fine, Over, NoStreamLeftOpen
  <1>. QED BY <1>1, H2ConnInvariance, PTL
=============================================================================
