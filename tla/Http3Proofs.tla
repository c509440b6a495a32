----------------------------- MODULE Http3Proofs -----------------------------
(***************************************************************************)
(* HTTP/3, for every set of requests, streams and alternatives and for     *)
(* every script of the server.                                             *)
(*                                                                         *)
(* One connection (H3Stream): the connection knows exactly the streams     *)
(* with an open side, and no reader gets more than Content-Length bytes.   *)
(*                                                                         *)
(* The way to a connection (H3Pool): the jar recommends only alternatives  *)
(* that answered, and an idle connection is closed only if nobody uses it. *)
(***************************************************************************)
EXTENDS H3Pool, H3Stream, FiniteSetTheorems, SequenceTheorems, WellFoundedInduction, TLAPS

-----------------------------------------------------------------------------
(* The types of H3Stream.                                                  *)

Pcs == {"start", "send", "read", "body", "await", "done"}
Ends3 == {"none", "eof", "error"}

StrRec ==
    [cl : Int, in : Seq(Item), pc : Pcs, ctx : BOOLEAN,
     sendErr : BOOLEAN, recvErr : BOOLEAN,
     sender : {"on", "off"}, watcher : {"on", "off"}, reqDone : Nat,
     n1xx : Nat, inFrame : Nat, trailer : BOOLEAN,
     left : Int, violated : BOOLEAN, doneClosed : BOOLEAN,
     got : Nat, announced : Nat, end : Ends3, queue : Nat]

Conn3Rec ==
    [up : BOOLEAN, settings : UniType \union {"none"}, seen : SUBSET UniType,
     uni : SUBSET UniType, receiver : {"on", "off"}, map : SUBSET Stream3]

\* What StreamRead and BodyRead return.
ReadRec == [x : StrRec, n : Nat, err : Ends3, up : BOOLEAN]

-----------------------------------------------------------------------------
(* The inductive invariant of H3Stream.                                    *)

\* What the reader got and what is left of the frame is what the frames announced;
\* what is left of the content length is what the reader has not got.
LengthFine(x) ==
    x.cl >= 0 =>
        /\ x.got <= x.cl
        /\ x.announced = x.got + x.inFrame
        /\ x.pc = "body" => x.left = x.cl - x.got
        /\ x.end = "eof" /\ x.got = x.cl => x.inFrame = 0

\* Nothing was read before the response's header.
Early(x) == x.pc \in {"start", "send", "read"} => x.got = 0

\* A request whose stream was not opened, and one whose stream was.
Unopened(x) ==
    /\ ~x.sendErr /\ ~x.recvErr /\ x.watcher = "off" /\ x.sender = "off"
    /\ x.pc \in {"start", "done"}
Opened(x, known) == x.pc # "start" /\ (known <=> ~(x.sendErr /\ x.recvErr))

Tracked(x, known) == (Unopened(x) /\ ~known) \/ Opened(x, known)

StreamFine(x) == LengthFine(x) /\ Early(x)

StreamInv ==
    /\ conn3 \in Conn3Rec /\ dgrams \in Nat /\ str \in [Stream3 -> StrRec]
    /\ \A s \in Stream3 : StreamFine(str[s]) /\ Tracked(str[s], s \in conn3.map)

\* A side that is closed stays closed.
Kept(x, y) == (x.sendErr => y.sendErr) /\ (x.recvErr => y.recvErr)

\* y is x but for what of the input was taken, for closed sides and for counters that
\* no property speaks of.
Alike3(x, y) ==
    /\ y \in StrRec /\ Kept(x, y)
    /\ y.cl = x.cl /\ y.got = x.got /\ y.announced = x.announced /\ y.inFrame = x.inFrame
    /\ y.left = x.left /\ y.pc = x.pc /\ y.end = x.end
    /\ y.sender = x.sender /\ y.watcher = x.watcher

-----------------------------------------------------------------------------
(* Frames.                                                                 *)

\* A nonempty set of naturals has a least element.
LEMMA Least3 ==
  ASSUME NEW S \in SUBSET Nat, S # {}
  PROVE  \E x \in S : \A y \in S : x <= y
  <1>1. \E x \in S : \A y \in S : <<y, x>> \notin OpToRel(<, Nat)
    BY NatLessThanWellFounded, WFMin
  <1>2. \A x, y \in Nat : y < x => <<y, x>> \in OpToRel(<, Nat) BY Zenon DEF OpToRel
  <1>3. \E x \in S : \A y \in S : ~(y < x) BY <1>1, <1>2, Zenon
  <1>. QED BY <1>3

\* There is a first item that ParseNext does not skip, or it skips them all.
LEMMA SkipLenIn ==
  ASSUME NEW xs \in Seq(Item)
  PROVE  SkipLen(xs) \in 0..Len(xs)
  <1>. DEFINE B == {n \in 0..Len(xs) : n = Len(xs) \/ xs[n + 1] # "other"}
  <1>1. Len(xs) \in B /\ B \in SUBSET Nat BY LenProperties
  <1>2. PICK n \in B : \A m \in B : n <= m
    <2>. HIDE DEF B
    <2>. QED BY <1>1, Least3
  <1>3. n \in 0..Len(xs) /\ (n = Len(xs) \/ xs[n + 1] # "other") OBVIOUS
  <1>4. ASSUME NEW i \in 1..n PROVE xs[i] = "other"
    <2>1. i - 1 \in 0..Len(xs) /\ ~(n <= i - 1) /\ (i - 1) + 1 = i BY <1>3, LenProperties
    <2>2. i - 1 \notin B
      <3>. HIDE DEF B
      <3>. QED BY <1>2, <2>1
    <2>3. xs[(i - 1) + 1] = "other" BY <2>1, <2>2
    <2>. QED BY <2>1, <2>3
  <1>. QED BY <1>3, <1>4 DEF SkipLen

\* What is left behind the items skipped, or read, is a sequence of items.
LEMMA SuffixIn ==
  ASSUME NEW xs \in Seq(Item), NEW k \in Nat
  PROVE  SubSeq(xs, k + 1, Len(xs)) \in Seq(Item)
  <1>1. Len(xs) \in Nat /\ \A i \in 1..Len(xs) : xs[i] \in Item BY LenProperties, ElementOfSeq
  <1>2. \A i \in (k + 1)..Len(xs) : xs[i] \in Item BY <1>1
  <1>3. k + 1 \in Int /\ Len(xs) \in Int BY <1>1
  <1>. QED BY <1>2, <1>3, SubSeqProperties

LEMMA ParseNextIn ==
  ASSUME NEW xs \in Seq(Item)
  PROVE  ParseNext(xs) \in Seq(Item)
  <1>1. SkipLen(xs) \in Nat BY SkipLenIn, LenProperties
  <1>. QED BY <1>1, SuffixIn DEF ParseNext

LEMMA TailIn ==
  ASSUME NEW xs \in Seq(Item), xs # <<>>
  PROVE  Tail(xs) \in Seq(Item) /\ Head(xs) \in Item
  BY HeadTailProperties

LEMMA DataLenIn == \A f \in DOMAIN DataLen : DataLen[f] \in Nat
  BY DEF DataLen

-----------------------------------------------------------------------------
(* Reads.                                                                  *)

\* Closing sides changes the two flags, upwards.
LEMMA CloseSidesFine ==
  ASSUME NEW x \in StrRec, NEW sides
  PROVE  LET y == CloseSides(x, sides) IN
         /\ Alike3(x, y) /\ y.reqDone = x.reqDone
         /\ "send" \in sides => y.sendErr
         /\ "recv" \in sides => y.recvErr
  <1>1. PICK a, b : a = (x.sendErr \/ "send" \in sides) /\ b = (x.recvErr \/ "recv" \in sides)
    OBVIOUS
  <1>2. a \in BOOLEAN /\ b \in BOOLEAN BY <1>1
  <1>3. PICK y : y = [x EXCEPT !.sendErr = a, !.recvErr = b] OBVIOUS
  <1>4. y = CloseSides(x, sides) BY <1>1, <1>3 DEF CloseSides, StrRec
  <1>5. y \in StrRec BY <1>2, <1>3 DEF StrRec
  <1>6. y.sendErr = a /\ y.recvErr = b BY <1>3 DEF StrRec
  <1>7. /\ y.cl = x.cl /\ y.got = x.got /\ y.announced = x.announced /\ y.inFrame = x.inFrame
        /\ y.left = x.left /\ y.pc = x.pc /\ y.end = x.end
        /\ y.sender = x.sender /\ y.watcher = x.watcher /\ y.reqDone = x.reqDone
    BY <1>3 DEF StrRec
  <1>8. Kept(x, y) BY <1>1, <1>6 DEF Kept
  <1>. QED BY <1>1, <1>4, <1>5, <1>6, <1>7, <1>8 DEF Alike3

LEMMA AlikeSame == ASSUME NEW x \in StrRec PROVE Alike3(x, x)
  BY DEF Alike3, Kept

LEMMA AlikeTransitive ==
  ASSUME NEW x, NEW y, NEW z, Alike3(x, y), Alike3(y, z) PROVE Alike3(x, z)
  BY DEF Alike3, Kept

\* The frame parser moves on.
LEMMA InputTaken ==
  ASSUME NEW x \in StrRec, NEW xs \in Seq(Item)
  PROVE  Alike3(x, [x EXCEPT !.in = xs]) /\ [x EXCEPT !.in = xs].n1xx = x.n1xx
  <1>1. PICK y : y = [x EXCEPT !.in = xs] OBVIOUS
  <1>2. y \in StrRec BY <1>1 DEF StrRec
  <1>3. Kept(x, y) BY <1>1 DEF StrRec, Kept
  <1>4. /\ y.cl = x.cl /\ y.got = x.got /\ y.announced = x.announced /\ y.inFrame = x.inFrame
        /\ y.left = x.left /\ y.pc = x.pc /\ y.end = x.end
        /\ y.sender = x.sender /\ y.watcher = x.watcher /\ y.n1xx = x.n1xx
    BY <1>1 DEF StrRec
  <1>. QED BY <1>1, <1>2, <1>3, <1>4 DEF Alike3

\* What a read of at most n bytes of x does: it takes at most n, each from the frame.
Reads3(x, n, r) ==
    /\ r \in ReadRec /\ Kept(x, r.x) /\ r.n <= n
    /\ r.x.announced + x.inFrame = x.announced + r.x.inFrame + r.n
    /\ r.x.cl = x.cl /\ r.x.got = x.got /\ r.x.left = x.left
    /\ r.x.pc = x.pc /\ r.x.end = x.end /\ r.x.sender = x.sender /\ r.x.watcher = x.watcher

\* A read that stops at once, with the state y and the error e.
LEMMA StopReads ==
  ASSUME NEW x \in StrRec, NEW y, NEW n \in Nat, NEW e \in Ends3, NEW up \in BOOLEAN,
         Alike3(x, y)
  PROVE  Reads3(x, n, Stop3(y, e, up))
  <1>1. PICK r : r = [x |-> y, n |-> 0, err |-> e, up |-> up] OBVIOUS
  <1>2. r.x = y /\ r.n = 0 /\ r \in ReadRec BY <1>1 DEF ReadRec, Alike3
  <1>3. x.announced \in Nat /\ x.inFrame \in Nat BY DEF StrRec
  <1>4. Reads3(x, n, r) BY <1>2, <1>3 DEF Reads3, Alike3
  <1>. QED BY <1>1, <1>4 DEF Stop3

LEMMA ReadBytesFine ==
  ASSUME NEW x \in StrRec, NEW n \in Nat
  PROVE  Reads3(x, n, ReadBytes(x, n))
  <1>1. PICK want : want = IF x.inFrame < n THEN x.inFrame ELSE n OBVIOUS
  <1>2. want \in Nat /\ want <= n /\ want <= x.inFrame /\ x.inFrame \in Nat BY <1>1 DEF StrRec
  <1>3. CASE want = 0
    <2>1. ReadBytes(x, n) = Stop3(x, NoErr, TRUE) BY <1>1, <1>3 DEF ReadBytes
    <2>. QED BY <2>1, StopReads, AlikeSame DEF NoErr, Ends3
  <1>4. CASE want # 0 /\ Head(x.in) = "b"
    <2>1. PICK k : k = IF want = 2 /\ Len(x.in) > 1 /\ x.in[2] = "b" THEN 2 ELSE 1 OBVIOUS
    <2>2. k \in Nat /\ k <= want /\ x.inFrame - k \in Nat /\ k <= n BY <1>2, <1>4, <2>1
    <2>3. PICK rest, f : rest = SubSeq(x.in, k + 1, Len(x.in)) /\ f = x.inFrame - k OBVIOUS
    <2>4. x.in \in Seq(Item) BY DEF StrRec
    <2>5. rest \in Seq(Item) BY <2>2, <2>3, <2>4, SuffixIn
    <2>6. PICK y : y = [x EXCEPT !.in = rest, !.inFrame = f] OBVIOUS
    <2>7. f \in Nat BY <2>2, <2>3
    <2>8. y \in StrRec /\ y.inFrame = f BY <2>5, <2>6, <2>7 DEF StrRec
    <2>9. /\ y.announced = x.announced /\ y.cl = x.cl /\ y.got = x.got /\ y.left = x.left
          /\ y.pc = x.pc /\ y.end = x.end /\ y.sender = x.sender /\ y.watcher = x.watcher
          /\ y.sendErr = x.sendErr /\ y.recvErr = x.recvErr
      BY <2>6 DEF StrRec
    <2>10. PICK r : r = [x |-> y, n |-> k, err |-> NoErr, up |-> TRUE] OBVIOUS
    <2>11. r = ReadBytes(x, n)
      BY <1>1, <1>4, <2>1, <2>3, <2>6, <2>10, Zenon DEF ReadBytes
    <2>12. r.x = y /\ r.n = k /\ r \in ReadRec BY <2>2, <2>8, <2>10 DEF ReadRec, Ends3, NoErr
    <2>13. y.announced + x.inFrame = x.announced + f + k
      BY <1>2, <2>2, <2>3, <2>9 DEF StrRec
    <2>. QED BY <2>2, <2>8, <2>9, <2>11, <2>12, <2>13 DEF Reads3, Kept
  <1>5. CASE want # 0 /\ Head(x.in) # "b"
    <2>1. PICK e : e = IF Head(x.in) = "fin" THEN "eof" ELSE "error" OBVIOUS
    <2>2. ReadBytes(x, n) = Stop3(CloseSides(x, {"recv"}), e, TRUE)
      BY <1>1, <1>5, <2>1 DEF ReadBytes
    <2>3. e \in Ends3 BY <2>1 DEF Ends3
    <2>. QED BY <2>2, <2>3, CloseSidesFine, StopReads
  <1>. QED BY <1>3, <1>4, <1>5

LEMMA DataFrames == DOMAIN DataLen = {"d0", "d1", "d2"} /\ \A f \in DOMAIN DataLen : DataLen[f] \in Nat
  BY DEF DataLen

\* The next frame is f: the stream is x with it and y without it.
LEMMA ReadFrameFine ==
  ASSUME NEW o \in StrRec, NEW x, NEW y, NEW n \in Nat, NEW f,
         o.inFrame = 0, Alike3(o, x), Alike3(o, y)
  PROVE  Reads3(o, n, ReadFrame(f, x, y, n))
  <1>. DEFINE dead == CloseSides(x, {"recv"})
  <1>1. x \in StrRec /\ y \in StrRec BY DEF Alike3
  <1>2. Alike3(o, dead) BY <1>1, CloseSidesFine, AlikeTransitive
  <1>. HIDE DEF dead
  <1>3. ASSUME NEW e \in Ends3, NEW up \in BOOLEAN
        PROVE  Reads3(o, n, Stop3(y, e, up)) /\ Reads3(o, n, Stop3(dead, e, up))
    BY <1>2, StopReads
  <1>4. "eof" \in Ends3 /\ "error" \in Ends3 /\ NoErr \in Ends3 BY DEF Ends3, NoErr
  <1>5. CASE f \in {"fin", "reset"}
    <2>1. \/ ReadFrame(f, x, y, n) = Stop3(dead, "eof", TRUE)
          \/ ReadFrame(f, x, y, n) = Stop3(dead, "error", TRUE)
      BY <1>5, DataFrames DEF ReadFrame, dead
    <2>. QED BY <1>3, <1>4, <2>1
  <1>6. CASE f \in DOMAIN DataLen /\ ~y.trailer
    <2>1. PICK d : d = DataLen[f] OBVIOUS
    <2>2. PICK a : a = y.announced + d OBVIOUS
    <2>3. d \in Nat /\ a \in Nat
      <3>1. d \in Nat BY <1>6, <2>1, DataFrames
      <3>2. y.announced \in Nat BY <1>1 DEF StrRec
      <3>. QED BY <2>2, <3>1, <3>2
    <2>4. PICK z : z = [y EXCEPT !.inFrame = d, !.announced = a] OBVIOUS
    <2>5. ReadFrame(f, x, y, n) = ReadBytes(z, n)
      BY <1>6, <2>1, <2>2, <2>4, DataFrames DEF ReadFrame
    <2>6. z \in StrRec /\ z.inFrame = d /\ z.announced = a BY <1>1, <2>3, <2>4 DEF StrRec
    <2>7. /\ z.cl = y.cl /\ z.got = y.got /\ z.left = y.left /\ z.pc = y.pc /\ z.end = y.end
          /\ z.sender = y.sender /\ z.watcher = y.watcher
          /\ z.sendErr = y.sendErr /\ z.recvErr = y.recvErr
      BY <1>1, <2>4 DEF StrRec
    <2>8. PICK r : r = ReadBytes(z, n) OBVIOUS
    <2>9. Reads3(z, n, r) BY <2>6, <2>8, ReadBytesFine
    <2>10. r.x.announced + o.inFrame = o.announced + r.x.inFrame + r.n
      <3>1. r.x.announced + d = o.announced + d + r.x.inFrame + r.n
        BY <2>2, <2>3, <2>6, <2>9 DEF Reads3, Alike3
      <3>2. /\ r.x.announced \in Nat /\ r.x.inFrame \in Nat /\ r.n \in Nat
            /\ o.announced \in Nat
        BY <2>9 DEF Reads3, ReadRec, StrRec
      <3>. QED BY <2>3, <3>1, <3>2
    <2>11. Reads3(o, n, r) BY <2>7, <2>9, <2>10 DEF Reads3, Alike3, Kept
    <2>. QED BY <2>5, <2>8, <2>11
  <1>7. CASE f \in {"1xx", "headers"} /\ ~y.trailer
    <2>1. PICK z : z = [y EXCEPT !.trailer = TRUE] OBVIOUS
    <2>2. ReadFrame(f, x, y, n) = Stop3(z, NoErr, TRUE)
      BY <1>7, <2>1, DataFrames DEF ReadFrame
    <2>3. z \in StrRec BY <1>1, <2>1 DEF StrRec
    <2>4. /\ z.cl = y.cl /\ z.got = y.got /\ z.announced = y.announced /\ z.inFrame = y.inFrame
          /\ z.left = y.left /\ z.pc = y.pc /\ z.end = y.end
          /\ z.sender = y.sender /\ z.watcher = y.watcher
          /\ z.sendErr = y.sendErr /\ z.recvErr = y.recvErr
      BY <1>1, <2>1 DEF StrRec
    <2>5. Alike3(o, z) BY <2>3, <2>4 DEF Alike3, Kept
    <2>. QED BY <1>4, <2>2, <2>5, StopReads
  <1>8. CASE \/ f \in DOMAIN DataLen \union {"1xx", "headers"} /\ y.trailer
             \/ f \notin DOMAIN DataLen \union {"1xx", "headers", "fin", "reset"}
    <2>1. \/ ReadFrame(f, x, y, n) = Stop3(y, "error", TRUE)
          \/ ReadFrame(f, x, y, n) = Stop3(y, "error", FALSE)
      BY <1>8, DataFrames DEF ReadFrame
    <2>. QED BY <1>3, <1>4, <2>1
  <1>. QED BY <1>5, <1>6, <1>7, <1>8

\* stream.Read.
LEMMA StreamReadFine ==
  ASSUME NEW x \in StrRec, NEW n \in Nat, ParseNext(x.in) # <<>>
  PROVE  Reads3(x, n, StreamRead(x, n))
  <1>1. CASE x.inFrame > 0 BY <1>1, ReadBytesFine DEF StreamRead
  <1>2. CASE ~(x.inFrame > 0)
    <2>1. x.inFrame = 0 /\ x.in \in Seq(Item) BY <1>2 DEF StrRec
    <2>2. PICK rest : rest = ParseNext(x.in) OBVIOUS
    <2>3. rest \in Seq(Item) /\ Tail(rest) \in Seq(Item) BY <2>1, <2>2, ParseNextIn, TailIn
    <2>4. Alike3(x, [x EXCEPT !.in = rest]) /\ Alike3(x, [x EXCEPT !.in = Tail(rest)])
      BY <2>3, InputTaken
    <2>5. StreamRead(x, n)
          = ReadFrame(Head(rest), [x EXCEPT !.in = rest], [x EXCEPT !.in = Tail(rest)], n)
      BY <1>2, <2>2 DEF StreamRead
    <2>. QED BY <2>1, <2>4, <2>5, ReadFrameFine
  <1>. QED BY <1>1, <1>2

\* checkContentLengthViolation's part that cancels both sides.
LEMMA CheckViolationFine ==
  ASSUME NEW x \in StrRec
  PROVE  Alike3(x, CheckViolation(x))
  <1>1. CASE x.violated BY <1>1, AlikeSame DEF CheckViolation
  <1>2. CASE ~x.violated
    <2>1. PICK y : y = CloseSides(x, {"send", "recv"}) OBVIOUS
    <2>2. Alike3(x, y) /\ y \in StrRec BY <2>1, CloseSidesFine DEF Alike3
    <2>3. PICK z : z = [y EXCEPT !.violated = TRUE] OBVIOUS
    <2>4. z \in StrRec BY <2>2, <2>3 DEF StrRec
    <2>5. /\ z.cl = y.cl /\ z.got = y.got /\ z.announced = y.announced /\ z.inFrame = y.inFrame
          /\ z.left = y.left /\ z.pc = y.pc /\ z.end = y.end
          /\ z.sender = y.sender /\ z.watcher = y.watcher
          /\ z.sendErr = y.sendErr /\ z.recvErr = y.recvErr
      BY <2>2, <2>3 DEF StrRec
    <2>6. Alike3(y, z) BY <2>4, <2>5 DEF Alike3, Kept
    <2>7. z = CheckViolation(x) BY <1>2, <2>1, <2>3 DEF CheckViolation
    <2>. QED BY <2>2, <2>6, <2>7, AlikeTransitive
  <1>. QED BY <1>1, <1>2

\* What body.Read does to the stream x, with the result r: the bytes it returns are within
\* the content length, and it reports no clean end when the frame holds more.
BodyReads(x, r) ==
    /\ r \in ReadRec /\ Kept(x, r.x)
    /\ r.x.cl = x.cl /\ r.x.got = x.got /\ r.x.pc = x.pc
    /\ x.cl >= 0 =>
          /\ x.got + r.n <= x.cl
          /\ r.x.left = x.cl - (x.got + r.n)
          /\ r.x.announced = x.got + r.n + r.x.inFrame
          /\ r.err = "eof" /\ x.got + r.n = x.cl => r.x.inFrame = 0

\* A read that stops at once with an error.
LEMMA StopBodyReads ==
  ASSUME NEW x \in StrRec, LengthFine(x), x.pc = "body", NEW y, Alike3(x, y)
  PROVE  BodyReads(x, Stop3(y, "error", TRUE))
  <1>1. PICK r : r = [x |-> y, n |-> 0, err |-> "error", up |-> TRUE] OBVIOUS
  <1>2. r.x = y /\ r.n = 0 /\ r \in ReadRec /\ r.err = "error"
    BY <1>1 DEF ReadRec, Alike3, Ends3
  <1>3. x.cl \in Int /\ x.got \in Nat /\ x.inFrame \in Nat BY DEF StrRec
  <1>4. BodyReads(x, r) BY <1>2, <1>3 DEF BodyReads, Alike3, LengthFine
  <1>. QED BY <1>1, <1>4 DEF Stop3

LEMMA BodyReadFine ==
  ASSUME NEW x \in StrRec, LengthFine(x), x.pc = "body", NEW n \in Nat,
         Violation(x) \/ ParseNext(x.in) # <<>>
  PROVE  BodyReads(x, BodyRead(x, n))
  <1>. USE DEF NoErr
  <1>1. CASE Violation(x)
    <2>1. BodyRead(x, n) = Stop3(CheckViolation(x), "error", TRUE) BY <1>1 DEF BodyRead
    <2>. QED BY <2>1, CheckViolationFine, StopBodyReads
  <1>2. CASE ~Violation(x)
    <2>1. PICK m : m = IF x.cl >= 0 /\ x.left < n THEN x.left ELSE n OBVIOUS
    <2>2. /\ x.cl \in Int /\ x.got \in Nat /\ x.inFrame \in Nat /\ x.left \in Int
          /\ x.announced \in Nat
      BY DEF StrRec
    <2>3. m \in Nat /\ (x.cl >= 0 => m <= x.left) BY <2>1, <2>2 DEF LengthFine
    <2>4. PICK r : r = StreamRead(x, m) OBVIOUS
    <2>5. Reads3(x, m, r) BY <1>2, <2>3, <2>4, StreamReadFine
    <2>6. /\ r \in ReadRec /\ r.x \in StrRec /\ r.n \in Nat /\ r.err \in Ends3
          /\ r.up \in BOOLEAN
      BY <2>5 DEF Reads3, ReadRec
    <2>7. PICK l : l = r.x.left - r.n OBVIOUS
    <2>8. PICK y : y = [r.x EXCEPT !.left = l] OBVIOUS
    <2>9. l \in Int
      <3>1. r.x.left \in Int BY <2>6 DEF StrRec
      <3>2. r.n \in Int BY <2>6
      <3>. QED BY <2>7, <3>1, <3>2
    <2>10. y \in StrRec /\ y.left = l BY <2>6, <2>8, <2>9 DEF StrRec
    <2>11. /\ y.cl = r.x.cl /\ y.got = r.x.got /\ y.announced = r.x.announced
           /\ y.inFrame = r.x.inFrame /\ y.pc = r.x.pc
           /\ y.sendErr = r.x.sendErr /\ y.recvErr = r.x.recvErr
      BY <2>6, <2>8 DEF StrRec
    <2>12. y.inFrame \in Nat /\ y.announced \in Nat BY <2>10 DEF StrRec
    <2>13. ASSUME x.cl >= 0
           PROVE  /\ x.got + r.n <= x.cl /\ y.left = x.cl - (x.got + r.n)
                  /\ y.announced = x.got + r.n + y.inFrame
      <3>1. x.left = x.cl - x.got /\ x.announced = x.got + x.inFrame
        BY <2>13 DEF LengthFine
      <3>2. r.n <= x.left BY <2>2, <2>3, <2>5, <2>6, <2>13 DEF Reads3
      <3>3. y.left = x.left - r.n BY <2>5, <2>7, <2>10 DEF Reads3
      <3>4. y.announced + x.inFrame = x.announced + y.inFrame + r.n
        BY <2>5, <2>11 DEF Reads3
      <3>5. r.n \in Nat BY <2>6
      <3>6. x.got + r.n <= x.cl /\ y.left = x.cl - (x.got + r.n)
        BY <2>2, <3>1, <3>2, <3>3, <3>5
      <3>7. y.announced = x.got + r.n + y.inFrame
        <4>1. PICK a \in Nat, d \in Nat : a = y.announced /\ d = y.inFrame BY <2>12
        <4>2. PICK b \in Nat, c \in Nat, f \in Nat : b = x.inFrame /\ c = x.announced /\ f = x.got
          BY <2>2
        <4>3. a + b = c + d + r.n BY <3>4, <4>1, <4>2
        <4>4. c = f + b BY <3>1, <4>2
        <4>5. a = f + r.n + d BY <3>5, <4>3, <4>4
        <4>. QED BY <4>1, <4>2, <4>5
      <3>. QED BY <3>6, <3>7
    <2>14. Kept(x, y) /\ y.cl = x.cl /\ y.got = x.got /\ y.pc = x.pc
      BY <2>5, <2>11 DEF Reads3, Kept
    <2>15. CASE Violation(y)
      <3>1. PICK z : z = CheckViolation(y) OBVIOUS
      <3>2. Alike3(y, z) BY <2>10, <3>1, CheckViolationFine
      <3>3. PICK q : q = [x |-> z, n |-> r.n, err |-> "error", up |-> r.up] OBVIOUS
      <3>4. q = BodyRead(x, n)
        BY <1>2, <2>1, <2>4, <2>7, <2>8, <2>15, <3>1, <3>3, Zenon DEF BodyRead
      <3>5. q \in ReadRec /\ q.x = z /\ q.n = r.n /\ q.err = "error"
        BY <2>6, <3>2, <3>3 DEF ReadRec, Alike3, Ends3
      <3>6. BodyReads(x, q) BY <2>13, <2>14, <3>2, <3>5 DEF BodyReads, Alike3, Kept
      <3>. QED BY <3>4, <3>6
    <2>16. CASE ~Violation(y)
      <3>1. PICK q : q = [r EXCEPT !.x = y] OBVIOUS
      <3>2. q = BodyRead(x, n)
        BY <1>2, <2>1, <2>4, <2>7, <2>8, <2>16, <3>1, Zenon DEF BodyRead
      <3>3. q \in ReadRec /\ q.x = y /\ q.n = r.n /\ q.err = r.err
        BY <2>6, <2>10, <3>1 DEF ReadRec
      <3>4. x.cl >= 0 /\ x.got + r.n = x.cl => y.inFrame = 0
        BY <2>2, <2>6, <2>12, <2>13, <2>14, <2>16 DEF Violation
      <3>5. BodyReads(x, q) BY <2>13, <2>14, <3>3, <3>4 DEF BodyReads
      <3>. QED BY <3>2, <3>5
    <2>. QED BY <2>15, <2>16
  <1>. QED BY <1>1, <1>2

-----------------------------------------------------------------------------
(* Steps.                                                                  *)

LEMMA StreamTyped ==
  ASSUME StreamInv, NEW s \in Stream3
  PROVE  str[s] \in StrRec /\ StreamFine(str[s]) /\ Tracked(str[s], s \in conn3.map)
  BY DEF StreamInv

\* A step in which stream s, which was opened, becomes x.
LEMMA BecomesInv ==
  ASSUME StreamInv, NEW s \in Stream3, NEW x \in StrRec, NEW up \in BOOLEAN,
         Opened(str[s], s \in conn3.map), Kept(str[s], x), x.pc # "start", StreamFine(x),
         Becomes(s, x, up)
  PROVE  StreamInv'
  <1>1. PICK m : m = Cleared(s, x) OBVIOUS
  <1>2. PICK u : u = (conn3.up /\ up) OBVIOUS
  <1>3. conn3 \in Conn3Rec /\ str \in [Stream3 -> StrRec] /\ dgrams \in Nat BY DEF StreamInv
  <1>4. m \in SUBSET Stream3 BY <1>1, <1>3 DEF Cleared, Conn3Rec
  <1>5. u \in BOOLEAN BY <1>2
  <1>6. /\ str' = [str EXCEPT ![s] = x] /\ conn3' = [conn3 EXCEPT !.up = u, !.map = m]
        /\ dgrams' = dgrams
    BY <1>1, <1>2, <1>3 DEF Becomes, Conn3Rec
  <1>7. conn3' \in Conn3Rec /\ conn3'.map = m BY <1>3, <1>4, <1>5, <1>6 DEF Conn3Rec
  <1>8. str' \in [Stream3 -> StrRec] /\ str'[s] = x BY <1>3, <1>6
  <1>9. Opened(x, s \in m)
    BY <1>1 DEF Opened, Kept, Cleared
  <1>10. ASSUME NEW t \in Stream3
         PROVE  StreamFine(str'[t]) /\ Tracked(str'[t], t \in m)
    <2>1. CASE t = s BY <1>8, <1>9, <2>1 DEF Tracked
    <2>2. CASE t # s
      <3>1. str'[t] = str[t] BY <1>3, <1>6, <2>2
      <3>2. t \in m <=> t \in conn3.map BY <1>1, <2>2 DEF Cleared
      <3>. QED BY <3>1, <3>2, StreamTyped
    <2>. QED BY <2>1, <2>2
  <1>11. dgrams' \in Nat BY <1>3, <1>6
  <1>12. \A t \in Stream3 : StreamFine(str'[t]) /\ Tracked(str'[t], t \in conn3'.map)
    BY <1>7, <1>10
  <1>13. \A t \in Stream3 : StreamFine(str[t])' /\ Tracked(str[t], t \in conn3.map)'
    BY <1>12 DEF StreamFine, LengthFine, Early, Tracked, Opened, Unopened
  <1>. QED BY <1>7, <1>8, <1>11, <1>13 DEF StreamInv

\* A step that changes stream s and leaves the connection alone.
LEMMA StreamAlone ==
  ASSUME StreamInv, NEW s \in Stream3, NEW x \in StrRec,
         str' = [str EXCEPT ![s] = x], conn3' = conn3, dgrams' \in Nat,
         StreamFine(x), Tracked(x, s \in conn3.map)
  PROVE  StreamInv'
  <1>1. conn3 \in Conn3Rec /\ str \in [Stream3 -> StrRec] BY DEF StreamInv
  <1>2. str' \in [Stream3 -> StrRec] BY <1>1
  <1>3. ASSUME NEW t \in Stream3
        PROVE  StreamFine(str'[t]) /\ Tracked(str'[t], t \in conn3'.map)
    <2>1. CASE t = s BY <1>1, <2>1
    <2>2. CASE t # s
      <3>1. str'[t] = str[t] BY <1>1, <2>2
      <3>. QED BY <3>1, StreamTyped
    <2>. QED BY <2>1, <2>2
  <1>4. \A t \in Stream3 : StreamFine(str[t])' /\ Tracked(str[t], t \in conn3.map)'
    BY <1>3 DEF StreamFine, LengthFine, Early, Tracked, Opened, Unopened
  <1>. QED BY <1>1, <1>2, <1>4 DEF StreamInv

\* A step that changes the connection and not which streams it knows.
LEMMA ConnAlone ==
  ASSUME StreamInv, str' = str, conn3' \in Conn3Rec, conn3'.map = conn3.map, dgrams' \in Nat
  PROVE  StreamInv'
  <1>1. str' \in [Stream3 -> StrRec] BY DEF StreamInv
  <1>2. ASSUME NEW t \in Stream3
        PROVE  StreamFine(str'[t]) /\ Tracked(str'[t], t \in conn3'.map)
    BY StreamTyped
  <1>3. \A t \in Stream3 : StreamFine(str[t])' /\ Tracked(str[t], t \in conn3.map)'
    BY <1>2 DEF StreamFine, LengthFine, Early, Tracked, Opened, Unopened
  <1>. QED BY <1>1, <1>3 DEF StreamInv

\* A stream at work was opened.
LEMMA AtWork ==
  ASSUME StreamInv, NEW s \in Stream3,
         \/ str[s].pc \notin {"start", "done"} \/ str[s].watcher = "on" \/ str[s].sender = "on"
         \/ s \in conn3.map
  PROVE  Opened(str[s], s \in conn3.map) /\ str[s].pc # "start"
  BY StreamTyped DEF Tracked, Opened, Unopened

\* The lengths are fine in a state that is alike but for its place and how it ended.
LEMMA FineWhenAlike ==
  ASSUME NEW x \in StrRec, StreamFine(x), NEW y, Alike3(x, y)
  PROVE  StreamFine(y)
  BY DEF StreamFine, LengthFine, Early, Alike3

-----------------------------------------------------------------------------
(* The caller.                                                             *)

LEMMA OpenRequestStreamInv ==
  ASSUME StreamInv, NEW s \in Stream3, OpenRequestStream(s)
  PROVE  StreamInv'
  <1>1. PICK x : x = [str[s] EXCEPT !.pc = "send", !.watcher = "on"] OBVIOUS
  <1>2. conn3 \in Conn3Rec /\ str \in [Stream3 -> StrRec] /\ dgrams \in Nat BY DEF StreamInv
  <1>3. str[s] \in StrRec /\ StreamFine(str[s]) /\ Tracked(str[s], s \in conn3.map)
    BY StreamTyped
  <1>4. x \in StrRec /\ x.pc = "send" BY <1>1, <1>3 DEF StrRec, Pcs
  <1>5. /\ x.cl = str[s].cl /\ x.got = str[s].got /\ x.announced = str[s].announced
        /\ x.inFrame = str[s].inFrame /\ x.end = str[s].end
        /\ x.sendErr = str[s].sendErr /\ x.recvErr = str[s].recvErr
    BY <1>1, <1>3 DEF StrRec
  <1>6. str[s].pc = "start" BY DEF OpenRequestStream
  <1>7. StreamFine(x) BY <1>3, <1>4, <1>5, <1>6 DEF StreamFine, LengthFine, Early
  <1>8. str' = [str EXCEPT ![s] = x] BY <1>1, <1>2 DEF OpenRequestStream, StrRec
  <1>9. PICK m : m = conn3.map \union {s} OBVIOUS
  <1>10. m \in SUBSET Stream3 BY <1>2, <1>9 DEF Conn3Rec
  <1>11. conn3' = [conn3 EXCEPT !.map = m] /\ dgrams' = dgrams
    BY <1>2, <1>9 DEF OpenRequestStream, Conn3Rec
  <1>12. conn3' \in Conn3Rec /\ conn3'.map = m BY <1>2, <1>10, <1>11 DEF Conn3Rec
  <1>13. str' \in [Stream3 -> StrRec] /\ str'[s] = x BY <1>2, <1>4, <1>8
  <1>14. Opened(x, s \in m)
    BY <1>3, <1>4, <1>5, <1>6, <1>9 DEF Tracked, Opened, Unopened
  <1>15. ASSUME NEW t \in Stream3
         PROVE  StreamFine(str'[t]) /\ Tracked(str'[t], t \in m)
    <2>1. CASE t = s BY <1>7, <1>13, <1>14, <2>1 DEF Tracked
    <2>2. CASE t # s
      <3>1. str'[t] = str[t] BY <1>2, <1>8, <2>2
      <3>2. t \in m <=> t \in conn3.map BY <1>9, <2>2
      <3>. QED BY <3>1, <3>2, StreamTyped
    <2>. QED BY <2>1, <2>2
  <1>16. \A t \in Stream3 : StreamFine(str[t])' /\ Tracked(str[t], t \in conn3.map)'
    BY <1>12, <1>15 DEF StreamFine, LengthFine, Early, Tracked, Opened, Unopened
  <1>17. dgrams' \in Nat BY <1>2, <1>11
  <1>. QED BY <1>12, <1>13, <1>16, <1>17 DEF StreamInv

LEMMA OpenFailsInv ==
  ASSUME StreamInv, NEW s \in Stream3, OpenFails(s)
  PROVE  StreamInv'
  <1>1. PICK x : x = [str[s] EXCEPT !.pc = "done", !.end = "error"] OBVIOUS
  <1>2. str \in [Stream3 -> StrRec] /\ dgrams \in Nat BY DEF StreamInv
  <1>3. str[s] \in StrRec /\ StreamFine(str[s]) /\ Tracked(str[s], s \in conn3.map)
    BY StreamTyped
  <1>4. x \in StrRec /\ x.pc = "done" /\ x.end = "error" BY <1>1, <1>3 DEF StrRec, Pcs, Ends3
  <1>5. /\ x.cl = str[s].cl /\ x.got = str[s].got /\ x.announced = str[s].announced
        /\ x.inFrame = str[s].inFrame /\ x.sender = str[s].sender
        /\ x.watcher = str[s].watcher
        /\ x.sendErr = str[s].sendErr /\ x.recvErr = str[s].recvErr
    BY <1>1, <1>3 DEF StrRec
  <1>6. str[s].pc = "start" /\ conn3' = conn3 /\ dgrams' \in Nat BY <1>2 DEF OpenFails
  <1>7. StreamFine(x) BY <1>3, <1>4, <1>5 DEF StreamFine, LengthFine, Early
  <1>8. str' = [str EXCEPT ![s] = x] BY <1>1, <1>2 DEF OpenFails, StrRec
  <1>9. Tracked(x, s \in conn3.map)
    BY <1>3, <1>4, <1>5, <1>6 DEF Tracked, Opened, Unopened
  <1>. QED BY <1>4, <1>6, <1>7, <1>8, <1>9, StreamAlone

\* doRequest fails.
LEMMA Fail3Inv ==
  ASSUME StreamInv, NEW s \in Stream3, NEW x, NEW up \in BOOLEAN,
         Opened(str[s], s \in conn3.map), Alike3(str[s], x), Fail3(s, x, up)
  PROVE  StreamInv'
  <1>1. PICK d : d = x.reqDone + 1 OBVIOUS
  <1>2. PICK z : z = [x EXCEPT !.pc = "await", !.reqDone = d, !.end = "error"] OBVIOUS
  <1>3. x \in StrRec BY DEF Alike3
  <1>4. d \in Nat BY <1>1, <1>3 DEF StrRec
  <1>5. z \in StrRec /\ z.pc = "await" /\ z.end = "error" BY <1>2, <1>3, <1>4 DEF StrRec, Pcs, Ends3
  <1>6. /\ z.cl = x.cl /\ z.got = x.got /\ z.announced = x.announced /\ z.inFrame = x.inFrame
        /\ z.sendErr = x.sendErr /\ z.recvErr = x.recvErr
    BY <1>2, <1>3 DEF StrRec
  <1>7. StreamFine(str[s]) BY StreamTyped
  <1>8. StreamFine(z) BY <1>5, <1>6, <1>7 DEF StreamFine, LengthFine, Early, Alike3
  <1>9. Kept(str[s], z) BY <1>6 DEF Kept, Alike3
  <1>10. Becomes(s, z, up) BY <1>1, <1>2 DEF Fail3
  <1>. QED BY <1>5, <1>8, <1>9, <1>10, BecomesInv

LEMMA SendRequestHeaderInv ==
  ASSUME StreamInv, NEW s \in Stream3, SendRequestHeader(s)
  PROVE  StreamInv'
  <1>1. str[s].pc = "send" BY DEF SendRequestHeader
  <1>2. Opened(str[s], s \in conn3.map) BY <1>1, AtWork
  <1>3. str[s] \in StrRec /\ StreamFine(str[s]) BY StreamTyped
  <1>4. PICK x : x = CloseSides(str[s], {"send"}) OBVIOUS
  <1>5. Alike3(str[s], x) BY <1>3, <1>4, CloseSidesFine
  <1>6. CASE ~conn3.up \/ str[s].sendErr
    <2>1. Fail3(s, x, TRUE) BY <1>4, <1>6 DEF SendRequestHeader
    <2>. QED BY <1>2, <1>5, <2>1, Fail3Inv
  <1>7. CASE ~(~conn3.up \/ str[s].sendErr) /\ s \in WithBody3
    <2>1. PICK z : z = [str[s] EXCEPT !.pc = "read", !.sender = "on"] OBVIOUS
    <2>2. z \in StrRec /\ z.pc = "read" BY <1>3, <2>1 DEF StrRec, Pcs
    <2>3. /\ z.cl = str[s].cl /\ z.got = str[s].got /\ z.announced = str[s].announced
          /\ z.inFrame = str[s].inFrame /\ z.end = str[s].end
          /\ z.sendErr = str[s].sendErr /\ z.recvErr = str[s].recvErr
      BY <1>3, <2>1 DEF StrRec
    <2>4. StreamFine(z) BY <1>1, <1>3, <2>2, <2>3 DEF StreamFine, LengthFine, Early
    <2>5. Kept(str[s], z) BY <2>3 DEF Kept
    <2>6. Becomes(s, z, TRUE) BY <1>7, <2>1 DEF SendRequestHeader
    <2>. QED BY <1>2, <2>2, <2>4, <2>5, <2>6, BecomesInv
  <1>8. CASE ~(~conn3.up \/ str[s].sendErr) /\ s \notin WithBody3
    <2>1. PICK z : z = [x EXCEPT !.pc = "read"] OBVIOUS
    <2>. x \in StrRec BY <1>5 DEF Alike3
    <2>2. z \in StrRec /\ z.pc = "read" BY <2>1 DEF StrRec, Pcs
    <2>3. /\ z.cl = x.cl /\ z.got = x.got /\ z.announced = x.announced
          /\ z.inFrame = x.inFrame /\ z.end = x.end
          /\ z.sendErr = x.sendErr /\ z.recvErr = x.recvErr
      BY <2>1 DEF StrRec
    <2>4. StreamFine(z)
      BY <1>1, <1>3, <1>5, <2>2, <2>3 DEF StreamFine, LengthFine, Early, Alike3
    <2>5. Kept(str[s], z) BY <1>5, <2>3 DEF Kept, Alike3
    <2>6. Becomes(s, z, TRUE) BY <1>4, <1>8, <2>1 DEF SendRequestHeader
    <2>. QED BY <1>2, <2>2, <2>4, <2>5, <2>6, BecomesInv
  <1>. QED BY <1>6, <1>7, <1>8

LEMMA ReadResponseInv ==
  ASSUME StreamInv, NEW s \in Stream3, ReadResponse(s)
  PROVE  StreamInv'
  <1>1. PICK rest : rest = ParseNext(str[s].in) OBVIOUS
  <1>2. PICK f : f = Head(rest) OBVIOUS
  <1>3. PICK x : x = [str[s] EXCEPT !.in = Tail(rest)] OBVIOUS
  <1>4. PICK both : both = CloseSides(x, {"send", "recv"}) OBVIOUS
  <1>5. /\ str[s].pc = "read" /\ rest # <<>>
        /\ \/ f = "headers" /\ Becomes(s, [x EXCEPT !.pc = "body", !.left = x.cl], TRUE)
           \/ f = "1xx" /\ Becomes(s, [x EXCEPT !.n1xx = @ + 1], TRUE)
           \/ Fail3(s, x, TRUE)
           \/ Fail3(s, both, TRUE)
           \/ Fail3(s, both, FALSE)
           \/ Fail3(s, x, FALSE)
    <2>1. /\ str[s].pc = "read" /\ Readable(s) /\ rest # <<>>
          /\ \/ /\ f = "headers"
                /\ Becomes(s, [x EXCEPT !.pc = "body", !.left = x.cl], TRUE)
             \/ /\ f = "1xx" /\ x.n1xx < Max1xx
                /\ Becomes(s, [x EXCEPT !.n1xx = @ + 1], TRUE)
             \/ f = "1xx" /\ x.n1xx = Max1xx /\ Fail3(s, x, TRUE)
             \/ f \in {"fin", "reset"} /\ Fail3(s, both, TRUE)
             \/ f = "reserved" /\ Fail3(s, both, FALSE)
             \/ f \in DOMAIN DataLen \union {"settings"} /\ Fail3(s, x, FALSE)
      BY <1>1, <1>2, <1>3, <1>4, Zenon DEF ReadResponse
    <2>. QED BY <2>1, Zenon
  <1>6. str[s] \in StrRec /\ StreamFine(str[s]) BY StreamTyped
  <1>7. Opened(str[s], s \in conn3.map) BY <1>5, AtWork
  <1>8. str[s].in \in Seq(Item) BY <1>6 DEF StrRec
  <1>9. Tail(rest) \in Seq(Item) BY <1>1, <1>5, <1>8, ParseNextIn, TailIn
  <1>10. Alike3(str[s], x) /\ x \in StrRec BY <1>3, <1>6, <1>9, InputTaken DEF Alike3
  <1>11. Alike3(str[s], both) BY <1>4, <1>10, CloseSidesFine, AlikeTransitive
  <1>12. CASE Becomes(s, [x EXCEPT !.pc = "body", !.left = x.cl], TRUE)
    <2>1. PICK l : l = x.cl OBVIOUS
    <2>2. PICK z : z = [x EXCEPT !.pc = "body", !.left = l] OBVIOUS
    <2>3. l \in Int BY <1>10, <2>1 DEF StrRec
    <2>4. z \in StrRec /\ z.pc = "body" /\ z.left = l BY <1>10, <2>2, <2>3 DEF StrRec, Pcs
    <2>5. /\ z.cl = x.cl /\ z.got = x.got /\ z.announced = x.announced
          /\ z.inFrame = x.inFrame /\ z.end = x.end
          /\ z.sendErr = x.sendErr /\ z.recvErr = x.recvErr
      BY <1>10, <2>2 DEF StrRec
    <2>6. x.got = 0 BY <1>5, <1>6, <1>10 DEF StreamFine, Early, Alike3
    <2>7. StreamFine(z)
      BY <1>6, <1>10, <2>1, <2>3, <2>4, <2>5, <2>6 DEF StreamFine, LengthFine, Early, Alike3
    <2>8. Kept(str[s], z) BY <1>10, <2>5 DEF Kept, Alike3
    <2>9. Becomes(s, z, TRUE) BY <1>12, <2>1, <2>2
    <2>. QED BY <1>7, <2>4, <2>7, <2>8, <2>9, BecomesInv
  <1>13. CASE Becomes(s, [x EXCEPT !.n1xx = @ + 1], TRUE)
    <2>1. PICK l : l = x.n1xx + 1 OBVIOUS
    <2>2. PICK z : z = [x EXCEPT !.n1xx = l] OBVIOUS
    <2>3. l \in Nat BY <1>10, <2>1 DEF StrRec
    <2>4. z \in StrRec BY <1>10, <2>2, <2>3 DEF StrRec
    <2>5. /\ z.cl = x.cl /\ z.got = x.got /\ z.announced = x.announced
          /\ z.inFrame = x.inFrame /\ z.end = x.end /\ z.pc = x.pc /\ z.left = x.left
          /\ z.sendErr = x.sendErr /\ z.recvErr = x.recvErr
      BY <1>10, <2>2 DEF StrRec
    <2>6. StreamFine(z) BY <1>6, <1>10, <2>5 DEF StreamFine, LengthFine, Early, Alike3
    <2>7. Kept(str[s], z) /\ z.pc # "start" BY <1>5, <1>10, <2>5 DEF Kept, Alike3
    <2>8. Becomes(s, z, TRUE) BY <1>13, <2>1, <2>2
    <2>. QED BY <1>7, <2>4, <2>6, <2>7, <2>8, BecomesInv
  <1>14. CASE \E up \in BOOLEAN : Fail3(s, x, up) \/ Fail3(s, both, up)
    BY <1>7, <1>10, <1>11, <1>14, Fail3Inv
  <1>. QED BY <1>5, <1>12, <1>13, <1>14

LEMMA ReadFails3Inv ==
  ASSUME StreamInv, NEW s \in Stream3, ReadFails3(s)
  PROVE  StreamInv'
  <1>1. str[s].pc = "read" /\ Fail3(s, CloseSides(str[s], {"send", "recv"}), TRUE)
    BY DEF ReadFails3
  <1>2. Opened(str[s], s \in conn3.map) BY <1>1, AtWork
  <1>3. Alike3(str[s], CloseSides(str[s], {"send", "recv"})) BY StreamTyped, CloseSidesFine
  <1>. QED BY <1>1, <1>2, <1>3, Fail3Inv

LEMMA Returned3Inv ==
  ASSUME StreamInv, NEW s \in Stream3, Returned(s)
  PROVE  StreamInv'
  <1>1. PICK x : x = [str[s] EXCEPT !.pc = "done"] OBVIOUS
  <1>2. str \in [Stream3 -> StrRec] /\ dgrams \in Nat BY DEF StreamInv
  <1>3. str[s] \in StrRec /\ StreamFine(str[s]) BY StreamTyped
  <1>4. x \in StrRec /\ x.pc = "done" BY <1>1, <1>3 DEF StrRec, Pcs
  <1>5. /\ x.cl = str[s].cl /\ x.got = str[s].got /\ x.announced = str[s].announced
        /\ x.inFrame = str[s].inFrame /\ x.end = str[s].end
        /\ x.sendErr = str[s].sendErr /\ x.recvErr = str[s].recvErr
    BY <1>1, <1>3 DEF StrRec
  <1>6. /\ str[s].pc = "await" /\ conn3' = conn3 /\ dgrams' \in Nat
        /\ str' = [str EXCEPT ![s] = x]
    BY <1>1, <1>2 DEF Returned, StrRec
  <1>7. StreamFine(x) BY <1>3, <1>4, <1>5 DEF StreamFine, LengthFine, Early
  <1>8. Opened(str[s], s \in conn3.map) BY <1>6, AtWork
  <1>9. Tracked(x, s \in conn3.map) BY <1>4, <1>5, <1>8 DEF Tracked, Opened
  <1>. QED BY <1>4, <1>6, <1>7, <1>9, StreamAlone

-----------------------------------------------------------------------------
(* The reader of the body, the sender, the watcher.                        *)

LEMMA RequestDoneFine ==
  ASSUME NEW x \in StrRec
  PROVE  Alike3(x, RequestDone(x))
  <1>1. CASE x.doneClosed BY <1>1, AlikeSame DEF RequestDone
  <1>2. CASE ~x.doneClosed
    <2>1. PICK d : d = x.reqDone + 1 OBVIOUS
    <2>2. PICK y : y = [x EXCEPT !.doneClosed = TRUE, !.reqDone = d] OBVIOUS
    <2>3. d \in Nat BY <2>1 DEF StrRec
    <2>4. y \in StrRec BY <2>2, <2>3 DEF StrRec
    <2>5. /\ y.cl = x.cl /\ y.got = x.got /\ y.announced = x.announced /\ y.inFrame = x.inFrame
          /\ y.left = x.left /\ y.pc = x.pc /\ y.end = x.end
          /\ y.sender = x.sender /\ y.watcher = x.watcher
          /\ y.sendErr = x.sendErr /\ y.recvErr = x.recvErr
      BY <2>2 DEF StrRec
    <2>6. y = RequestDone(x) BY <1>2, <2>1, <2>2 DEF RequestDone
    <2>. QED BY <2>4, <2>5, <2>6 DEF Alike3, Kept
  <1>. QED BY <1>1, <1>2

LEMMA UserReadsInv ==
  ASSUME StreamInv, NEW s \in Stream3, UserReads(s)
  PROVE  StreamInv'
  <1>1. str[s].pc = "body" BY DEF UserReads
  <1>2. str[s] \in StrRec /\ StreamFine(str[s]) BY StreamTyped
  <1>3. Opened(str[s], s \in conn3.map) BY <1>1, AtWork
  <1>4. PICK n \in 1..2 :
          LET r == IF Readable(s) \/ Violation(str[s]) THEN BodyRead(str[s], n)
                   ELSE Stop3(CloseSides(str[s], {"recv"}), "error", TRUE)
              y == [r.x EXCEPT !.got = @ + r.n, !.end = r.err]
          IN  /\ Readable(s) => ParseNext(str[s].in) # <<>>
              /\ Becomes(s, IF r.err = NoErr THEN y ELSE RequestDone(y), r.up)
    BY DEF UserReads
  <1>5. PICK r : r = IF Readable(s) \/ Violation(str[s]) THEN BodyRead(str[s], n)
                     ELSE Stop3(CloseSides(str[s], {"recv"}), "error", TRUE)
    OBVIOUS
  <1>6. PICK g : g = r.x.got + r.n OBVIOUS
  <1>7. PICK y : y = [r.x EXCEPT !.got = g, !.end = r.err] OBVIOUS
  <1>8. PICK z : z = IF r.err = NoErr THEN y ELSE RequestDone(y) OBVIOUS
  <1>9. Readable(s) => ParseNext(str[s].in) # <<>> BY <1>4
  <1>10. Becomes(s, z, r.up) BY <1>4, <1>5, <1>6, <1>7, <1>8, Zenon
  <1>11. BodyReads(str[s], r)
    <2>1. LengthFine(str[s]) BY <1>2 DEF StreamFine
    <2>2. CASE Readable(s) \/ Violation(str[s])
      <3>1. n \in Nat /\ (Violation(str[s]) \/ ParseNext(str[s].in) # <<>>) BY <1>9, <2>2
      <3>. QED BY <1>1, <1>2, <1>5, <2>1, <2>2, <3>1, BodyReadFine
    <2>3. CASE ~(Readable(s) \/ Violation(str[s]))
      BY <1>1, <1>2, <1>5, <2>1, <2>3, CloseSidesFine, StopBodyReads
    <2>. QED BY <2>2, <2>3
  <1>12. /\ r \in ReadRec /\ r.x \in StrRec /\ r.n \in Nat /\ r.err \in Ends3
         /\ r.up \in BOOLEAN
    BY <1>11 DEF BodyReads, ReadRec
  <1>13. r.x.got = str[s].got /\ r.x.got \in Nat BY <1>11, <1>12 DEF BodyReads, StrRec
  <1>14. g \in Nat
    <2>1. r.n \in Nat BY <1>12
    <2>. QED BY <1>6, <1>13, <2>1
  <1>15. y \in StrRec /\ y.got = g /\ y.end = r.err BY <1>7, <1>12, <1>14 DEF StrRec
  <1>16. /\ y.cl = r.x.cl /\ y.announced = r.x.announced /\ y.inFrame = r.x.inFrame
         /\ y.left = r.x.left /\ y.pc = r.x.pc
         /\ y.sendErr = r.x.sendErr /\ y.recvErr = r.x.recvErr
    BY <1>7, <1>12 DEF StrRec
  <1>17. g = str[s].got + r.n BY <1>6, <1>13
  <1>18. StreamFine(y)
    <2>1. LengthFine(y) BY <1>11, <1>15, <1>16, <1>17 DEF BodyReads, LengthFine
    <2>2. y.pc = "body" BY <1>1, <1>11, <1>16 DEF BodyReads
    <2>. QED BY <2>1, <2>2 DEF StreamFine, Early
  <1>19. Kept(str[s], y) BY <1>11, <1>16 DEF BodyReads, Kept
  <1>20. Alike3(y, z) BY <1>8, <1>15, AlikeSame, RequestDoneFine
  <1>21. StreamFine(z) BY <1>15, <1>18, <1>20, FineWhenAlike
  <1>22. z \in StrRec /\ Kept(str[s], z) /\ z.pc # "start"
    BY <1>1, <1>11, <1>16, <1>19, <1>20 DEF Alike3, Kept, BodyReads
  <1>. QED BY <1>3, <1>10, <1>12, <1>21, <1>22, BecomesInv

LEMMA UserClosesInv ==
  ASSUME StreamInv, NEW s \in Stream3, UserCloses(s)
  PROVE  StreamInv'
  <1>1. str[s].pc = "body" BY DEF UserCloses
  <1>2. str[s] \in StrRec /\ StreamFine(str[s]) BY StreamTyped
  <1>3. Opened(str[s], s \in conn3.map) BY <1>1, AtWork
  <1>4. PICK y : y = RequestDone(str[s]) OBVIOUS
  <1>5. PICK x : x = CloseSides(y, {"recv"}) OBVIOUS
  <1>6. Alike3(str[s], y) BY <1>2, <1>4, RequestDoneFine
  <1>7. Alike3(y, x) BY <1>5, <1>6, CloseSidesFine DEF Alike3
  <1>8. Alike3(str[s], x) /\ x \in StrRec BY <1>6, <1>7, AlikeTransitive DEF Alike3
  <1>9. PICK z : z = [x EXCEPT !.pc = "done"] OBVIOUS
  <1>10. z \in StrRec /\ z.pc = "done" BY <1>8, <1>9 DEF StrRec, Pcs
  <1>11. /\ z.cl = x.cl /\ z.got = x.got /\ z.announced = x.announced
         /\ z.inFrame = x.inFrame /\ z.end = x.end
         /\ z.sendErr = x.sendErr /\ z.recvErr = x.recvErr
    BY <1>8, <1>9 DEF StrRec
  <1>12. StreamFine(x) BY <1>2, <1>8, FineWhenAlike
  <1>13. StreamFine(z) BY <1>10, <1>11, <1>12 DEF StreamFine, LengthFine, Early
  <1>14. Kept(str[s], z) BY <1>8, <1>11 DEF Kept, Alike3
  <1>15. Becomes(s, z, TRUE) BY <1>4, <1>5, <1>9 DEF UserCloses
  <1>. QED BY <1>3, <1>10, <1>13, <1>14, <1>15, BecomesInv

LEMMA SendBodyInv ==
  ASSUME StreamInv, NEW s \in Stream3, SendBody(s)
  PROVE  StreamInv'
  <1>1. str[s].sender = "on" BY DEF SendBody
  <1>2. str[s] \in StrRec /\ StreamFine(str[s]) BY StreamTyped
  <1>3. Opened(str[s], s \in conn3.map) /\ str[s].pc # "start" BY <1>1, AtWork
  <1>4. PICK x : x = CloseSides(str[s], {"send"}) OBVIOUS
  <1>5. Alike3(str[s], x) /\ x \in StrRec BY <1>2, <1>4, CloseSidesFine DEF Alike3
  <1>6. PICK z : z = [x EXCEPT !.sender = "off"] OBVIOUS
  <1>7. z \in StrRec BY <1>5, <1>6 DEF StrRec
  <1>8. /\ z.cl = x.cl /\ z.got = x.got /\ z.announced = x.announced /\ z.left = x.left
        /\ z.inFrame = x.inFrame /\ z.end = x.end /\ z.pc = x.pc
        /\ z.sendErr = x.sendErr /\ z.recvErr = x.recvErr
    BY <1>5, <1>6 DEF StrRec
  <1>9. StreamFine(z) BY <1>2, <1>5, <1>8 DEF StreamFine, LengthFine, Early, Alike3
  <1>10. Kept(str[s], z) /\ z.pc # "start" BY <1>3, <1>5, <1>8 DEF Kept, Alike3
  <1>11. Becomes(s, z, TRUE) BY <1>4, <1>6 DEF SendBody
  <1>. QED BY <1>3, <1>7, <1>9, <1>10, <1>11, BecomesInv

LEMMA WatchInv ==
  ASSUME StreamInv, NEW s \in Stream3, Watch(s)
  PROVE  StreamInv'
  <1>1. str[s].watcher = "on" BY DEF Watch
  <1>2. str[s] \in StrRec /\ StreamFine(str[s]) BY StreamTyped
  <1>3. Opened(str[s], s \in conn3.map) /\ str[s].pc # "start" BY <1>1, AtWork
  <1>4. ASSUME NEW x, Alike3(str[s], x), Becomes(s, [x EXCEPT !.watcher = "off"], TRUE)
        PROVE  StreamInv'
    <2>. x \in StrRec BY <1>4 DEF Alike3
    <2>1. PICK z : z = [x EXCEPT !.watcher = "off"] OBVIOUS
    <2>2. z \in StrRec BY <2>1 DEF StrRec
    <2>3. /\ z.cl = x.cl /\ z.got = x.got /\ z.announced = x.announced /\ z.left = x.left
          /\ z.inFrame = x.inFrame /\ z.end = x.end /\ z.pc = x.pc
          /\ z.sendErr = x.sendErr /\ z.recvErr = x.recvErr
      BY <2>1 DEF StrRec
    <2>4. StreamFine(z) BY <1>2, <1>4, <2>3 DEF StreamFine, LengthFine, Early, Alike3
    <2>5. Kept(str[s], z) /\ z.pc # "start" BY <1>3, <1>4, <2>3 DEF Kept, Alike3
    <2>6. Becomes(s, z, TRUE) BY <1>4, <2>1
    <2>. QED BY <1>3, <2>2, <2>4, <2>5, <2>6, BecomesInv
  <1>5. PICK x : x = CloseSides(str[s], {"send", "recv"}) OBVIOUS
  <1>6. Alike3(str[s], x) /\ Alike3(str[s], str[s]) BY <1>2, <1>5, CloseSidesFine, AlikeSame
  <1>7. \/ Becomes(s, [x EXCEPT !.watcher = "off"], TRUE)
        \/ Becomes(s, [str[s] EXCEPT !.watcher = "off"], TRUE)
    BY <1>5 DEF Watch
  <1>. QED BY <1>4, <1>6, <1>7

LEMMA CtxEnds3sInv ==
  ASSUME StreamInv, NEW s \in Stream3, CtxEnds3s(s)
  PROVE  StreamInv'
  <1>1. PICK x : x = [str[s] EXCEPT !.ctx = TRUE] OBVIOUS
  <1>2. str \in [Stream3 -> StrRec] /\ dgrams \in Nat BY DEF StreamInv
  <1>3. str[s] \in StrRec /\ StreamFine(str[s]) /\ Tracked(str[s], s \in conn3.map)
    BY StreamTyped
  <1>4. x \in StrRec BY <1>1, <1>3 DEF StrRec
  <1>5. /\ x.cl = str[s].cl /\ x.got = str[s].got /\ x.announced = str[s].announced
        /\ x.inFrame = str[s].inFrame /\ x.end = str[s].end /\ x.left = str[s].left
        /\ x.sender = str[s].sender /\ x.watcher = str[s].watcher /\ x.pc = str[s].pc
        /\ x.sendErr = str[s].sendErr /\ x.recvErr = str[s].recvErr
    BY <1>1, <1>3 DEF StrRec
  <1>6. conn3' = conn3 /\ dgrams' \in Nat /\ str' = [str EXCEPT ![s] = x]
    BY <1>1, <1>2 DEF CtxEnds3s, StrRec
  <1>7. StreamFine(x) BY <1>3, <1>5 DEF StreamFine, LengthFine, Early
  <1>8. Tracked(x, s \in conn3.map) BY <1>3, <1>5 DEF Tracked, Opened, Unopened
  <1>. QED BY <1>4, <1>6, <1>7, <1>8, StreamAlone

LEMMA SendSideEndsInv ==
  ASSUME StreamInv, NEW s \in Stream3, SendSideEnds(s)
  PROVE  StreamInv'
  <1>1. s \in conn3.map /\ Becomes(s, CloseSides(str[s], {"send"}), TRUE) BY DEF SendSideEnds
  <1>2. str[s] \in StrRec /\ StreamFine(str[s]) BY StreamTyped
  <1>3. Opened(str[s], s \in conn3.map) /\ str[s].pc # "start" BY <1>1, AtWork
  <1>4. PICK x : x = CloseSides(str[s], {"send"}) OBVIOUS
  <1>5. Alike3(str[s], x) BY <1>2, <1>4, CloseSidesFine
  <1>6. StreamFine(x) BY <1>2, <1>5, FineWhenAlike
  <1>7. x \in StrRec /\ Kept(str[s], x) /\ x.pc # "start" BY <1>3, <1>5 DEF Alike3
  <1>. QED BY <1>1, <1>3, <1>4, <1>6, <1>7, BecomesInv

-----------------------------------------------------------------------------
(* Control streams and datagrams.                                          *)

LEMMA QueueInv3 ==
  ASSUME StreamInv, NEW s \in Stream3, NEW q \in Nat,
         str' = [str EXCEPT ![s] = [str[s] EXCEPT !.queue = q]],
         conn3' = conn3, dgrams' \in Nat
  PROVE  StreamInv'
  <1>1. PICK x : x = [str[s] EXCEPT !.queue = q] OBVIOUS
  <1>2. str[s] \in StrRec /\ StreamFine(str[s]) /\ Tracked(str[s], s \in conn3.map)
    BY StreamTyped
  <1>3. x \in StrRec BY <1>1, <1>2 DEF StrRec
  <1>4. /\ x.cl = str[s].cl /\ x.got = str[s].got /\ x.announced = str[s].announced
        /\ x.inFrame = str[s].inFrame /\ x.end = str[s].end /\ x.left = str[s].left
        /\ x.sender = str[s].sender /\ x.watcher = str[s].watcher /\ x.pc = str[s].pc
        /\ x.sendErr = str[s].sendErr /\ x.recvErr = str[s].recvErr
    BY <1>1, <1>2 DEF StrRec
  <1>5. StreamFine(x) BY <1>2, <1>4 DEF StreamFine, LengthFine, Early
  <1>6. Tracked(x, s \in conn3.map) BY <1>2, <1>4 DEF Tracked, Opened, Unopened
  <1>. QED BY <1>1, <1>3, <1>5, <1>6, StreamAlone

LEMMA ReceiveDatagramInv ==
  ASSUME StreamInv, NEW s \in Stream3, ReceiveDatagram(s)
  PROVE  StreamInv'
  <1>1. conn3 \in Conn3Rec /\ str \in [Stream3 -> StrRec] /\ dgrams \in Nat BY DEF StreamInv
  <1>2. dgrams' \in Nat BY <1>1 DEF ReceiveDatagram
  <1>3. CASE s \in conn3.map
    <2>1. PICK q : q = IF ~str[s].recvErr /\ str[s].queue < QueueLen THEN str[s].queue + 1
                       ELSE str[s].queue
      OBVIOUS
    <2>2. q \in Nat BY <1>1, <2>1 DEF StrRec
    <2>3. conn3' = conn3 /\ str' = [str EXCEPT ![s] = [str[s] EXCEPT !.queue = q]]
      BY <1>1, <1>3, <2>1 DEF ReceiveDatagram, StrRec
    <2>. QED BY <1>2, <2>2, <2>3, QueueInv3
  <1>4. CASE s \notin conn3.map
    <2>1. conn3' = [conn3 EXCEPT !.receiver = "off"] /\ str' = str
      BY <1>4 DEF ReceiveDatagram
    <2>2. conn3' \in Conn3Rec /\ conn3'.map = conn3.map BY <1>1, <2>1 DEF Conn3Rec
    <2>. QED BY <1>2, <2>1, <2>2, ConnAlone
  <1>. QED BY <1>3, <1>4

LEMMA TakeDatagramInv ==
  ASSUME StreamInv, NEW s \in Stream3, TakeDatagram(s)
  PROVE  StreamInv'
  <1>1. str \in [Stream3 -> StrRec] /\ dgrams \in Nat BY DEF StreamInv
  <1>2. PICK q : q = str[s].queue - 1 OBVIOUS
  <1>3. q \in Nat BY <1>1, <1>2 DEF TakeDatagram, StrRec
  <1>4. /\ str' = [str EXCEPT ![s] = [str[s] EXCEPT !.queue = q]]
        /\ conn3' = conn3 /\ dgrams' \in Nat
    BY <1>1, <1>2 DEF TakeDatagram, StrRec
  <1>. QED BY <1>3, <1>4, QueueInv3

LEMMA AcceptUniStreamInv ==
  ASSUME StreamInv, NEW u \in UniType, AcceptUniStream(u)
  PROVE  StreamInv'
  <1>1. conn3 \in Conn3Rec /\ dgrams \in Nat BY DEF StreamInv
  <1>2. PICK t : t = IF u \in {"control", "control+datagram", "control-bad"} THEN "control" ELSE u
    OBVIOUS
  <1>3. PICK un, se : un = conn3.uni \ {u} /\ se = conn3.seen \union {t} OBVIOUS
  <1>4. PICK rc, up : /\ rc = IF u = "control+datagram" THEN "on" ELSE conn3.receiver
                      /\ up = ~(u = "control+datagram" /\ DatagramsMissing)
    OBVIOUS
  <1>5. PICK c : c = [conn3 EXCEPT !.uni = un, !.seen = se] OBVIOUS
  <1>6. t \in UniType BY <1>2 DEF UniType
  <1>7. un \in SUBSET UniType /\ se \in SUBSET UniType BY <1>1, <1>3, <1>6 DEF Conn3Rec
  <1>8. c \in Conn3Rec /\ c.map = conn3.map /\ c.receiver = conn3.receiver
    BY <1>1, <1>5, <1>7 DEF Conn3Rec
  <1>9. rc \in {"on", "off"} /\ up \in BOOLEAN BY <1>1, <1>4 DEF Conn3Rec
  <1>10. \/ conn3' = [c EXCEPT !.up = FALSE]
         \/ conn3' = [c EXCEPT !.settings = u, !.receiver = rc, !.up = up]
         \/ conn3' = c
    BY <1>2, <1>3, <1>4, <1>5, <1>8 DEF AcceptUniStream
  <1>11. conn3' \in Conn3Rec /\ conn3'.map = conn3.map BY <1>8, <1>9, <1>10 DEF Conn3Rec
  <1>12. str' = str /\ dgrams' \in Nat BY <1>1 DEF AcceptUniStream
  <1>. QED BY <1>11, <1>12, ConnAlone

LEMMA ConnCloses3Inv ==
  ASSUME StreamInv, ConnCloses3
  PROVE  StreamInv'
  <1>1. conn3 \in Conn3Rec /\ dgrams \in Nat BY DEF StreamInv
  <1>2. conn3' = [conn3 EXCEPT !.up = FALSE] /\ str' = str /\ dgrams' = dgrams BY DEF ConnCloses3
  <1>3. conn3' \in Conn3Rec /\ conn3'.map = conn3.map BY <1>1, <1>2 DEF Conn3Rec
  <1>. QED BY <1>1, <1>2, <1>3, ConnAlone

-----------------------------------------------------------------------------
(* Results about one connection.                                           *)

LEMMA NewStrFine ==
  ASSUME NEW sc, sc.cl \in Int, sc.items \in Seq(Item)
  PROVE  NewStr(sc) \in StrRec /\ StreamFine(NewStr(sc)) /\ Tracked(NewStr(sc), FALSE)
  <1>1. PICK c, i : c = sc.cl /\ i = sc.items OBVIOUS
  <1>2. PICK p : p = IF i = <<>> THEN "done" ELSE "start" OBVIOUS
  <1>3. p \in Pcs /\ p \in {"start", "done"} BY <1>2 DEF Pcs
  <1>4. PICK x : x = NewStr(sc) OBVIOUS
  <1>5. c \in Int /\ i \in Seq(Item) BY <1>1
  <1>6. 0 \in Nat /\ -1 \in Int /\ "none" \in Ends3 /\ FALSE \in BOOLEAN BY DEF Ends3
  <1>7. x \in StrRec BY <1>1, <1>2, <1>3, <1>4, <1>5, <1>6 DEF NewStr, StrRec
  <1>8. /\ x.cl = c /\ x.got = 0 /\ x.announced = 0 /\ x.inFrame = 0 /\ x.end = "none" /\ x.pc = p
        /\ ~x.sendErr /\ ~x.recvErr /\ x.watcher = "off" /\ x.sender = "off"
    BY <1>1, <1>2, <1>4 DEF NewStr
  <1>9. StreamFine(x) BY <1>3, <1>5, <1>8 DEF StreamFine, LengthFine, Early
  <1>10. Tracked(x, FALSE) BY <1>3, <1>8 DEF Tracked, Unopened
  <1>. QED BY <1>4, <1>7, <1>9, <1>10

LEMMA StreamInvInit == StreamInit \/ StreamRest => StreamInv
  <1>1. ASSUME StreamInit PROVE StreamInv
    <2>1. PICK sc \in Scripts :
            /\ conn3 = [NewConn3 EXCEPT !.uni = sc.uni] /\ dgrams = sc.dgrams
            /\ str = [s \in Stream3 |-> NewStr(sc.on[s])]
      BY <1>1 DEF StreamInit
    <2>2. /\ sc.dgrams \in Nat /\ sc.uni \in SUBSET UniType
          /\ \A s \in Stream3 : sc.on[s].cl \in Int /\ sc.on[s].items \in Seq(Item)
      BY H3StreamConstants
    <2>3. conn3 \in Conn3Rec /\ conn3.map = {} BY <2>1, <2>2 DEF NewConn3, Conn3Rec
    <2>4. \A s \in Stream3 : /\ NewStr(sc.on[s]) \in StrRec
                             /\ StreamFine(NewStr(sc.on[s])) /\ Tracked(NewStr(sc.on[s]), FALSE)
      BY <2>2, NewStrFine
    <2>5. \A s \in Stream3 : (s \in conn3.map) = FALSE BY <2>3
    <2>. QED BY <2>1, <2>2, <2>3, <2>4, <2>5 DEF StreamInv
  <1>2. ASSUME StreamRest PROVE StreamInv
    <2>1. /\ conn3 = [NewConn3 EXCEPT !.up = FALSE] /\ dgrams = 0
          /\ str = [s \in Stream3 |-> NewStr(NoScript)]
      BY <1>2 DEF StreamRest
    <2>2. NoScript.cl \in Int /\ NoScript.items \in Seq(Item) BY DEF NoScript
    <2>3. conn3 \in Conn3Rec /\ conn3.map = {} BY <2>1 DEF NewConn3, Conn3Rec
    <2>4. /\ NewStr(NoScript) \in StrRec
          /\ StreamFine(NewStr(NoScript)) /\ Tracked(NewStr(NoScript), FALSE)
      BY <2>2, NewStrFine
    <2>5. \A s \in Stream3 : (s \in conn3.map) = FALSE BY <2>3
    <2>. QED BY <2>1, <2>3, <2>4, <2>5 DEF StreamInv
  <1>. QED BY <1>1, <1>2

LEMMA StreamInvNext == StreamInv /\ [StreamNext]_streamVars => StreamInv'
  <1>. SUFFICES ASSUME StreamInv, [StreamNext]_streamVars PROVE StreamInv' OBVIOUS
  <1>1. ASSUME NEW s \in Stream3,
               \/ OpenRequestStream(s) \/ OpenFails(s) \/ SendRequestHeader(s) \/ SendBody(s)
               \/ Watch(s) \/ ReadResponse(s) \/ ReadFails3(s) \/ Returned(s)
               \/ UserReads(s) \/ UserCloses(s) \/ CtxEnds3s(s) \/ SendSideEnds(s)
               \/ ReceiveDatagram(s) \/ TakeDatagram(s)
        PROVE  StreamInv'
    BY <1>1, OpenRequestStreamInv, OpenFailsInv, SendRequestHeaderInv, SendBodyInv,
       WatchInv, ReadResponseInv, ReadFails3Inv, Returned3Inv,
       UserReadsInv, UserClosesInv, CtxEnds3sInv, SendSideEndsInv,
       ReceiveDatagramInv, TakeDatagramInv
  <1>2. ASSUME NEW u \in UniType, AcceptUniStream(u) PROVE StreamInv'
    BY <1>2, AcceptUniStreamInv
  <1>3. CASE ConnCloses3 BY <1>3, ConnCloses3Inv
  <1>4. CASE UNCHANGED streamVars
    <2>1. conn3' = conn3 /\ str' = str /\ dgrams' = dgrams BY <1>4 DEF streamVars
    <2>2. conn3 \in Conn3Rec /\ dgrams \in Nat BY DEF StreamInv
    <2>. QED BY <2>1, <2>2, ConnAlone
  <1>. QED BY <1>1, <1>2, <1>3, <1>4 DEF StreamNext

\* The inductive invariant of one connection, whatever the server sends and whoever of the
\* caller, the sender, the watcher and the reader moves.
THEOREM StreamInvariance == StreamSpec => []StreamInv
  BY StreamInvInit, StreamInvNext, PTL DEF StreamSpec

\* stateTrackingStream: the connection knows exactly the streams with an open side.
THEOREM StreamsAreTracked == StreamSpec => []StreamsTracked
  <1>1. StreamInv => StreamsTracked
    BY StreamTyped DEF StreamsTracked, Tracked, Opened, Unopened
  <1>. QED BY <1>1, StreamInvariance, PTL

\* body.Read: nobody gets more than Content-Length bytes, and who got them all and a
\* clean end was announced no more.
THEOREM LengthIsKept == StreamSpec => []LengthKept
  <1>1. ASSUME StreamInv, NEW s \in Stream3, str[s].cl >= 0
        PROVE  /\ str[s].got <= str[s].cl
               /\ str[s].end = "eof" /\ str[s].got = str[s].cl
                  => str[s].announced = str[s].cl
    <2>1. str[s] \in StrRec /\ LengthFine(str[s]) BY <1>1, StreamTyped DEF StreamFine
    <2>2. str[s].got \in Nat /\ str[s].cl \in Int BY <2>1 DEF StrRec
    <2>. QED BY <1>1, <2>1, <2>2 DEF LengthFine
  <1>2. StreamInv => LengthKept BY <1>1 DEF LengthKept
  <1>. QED BY <1>2, StreamInvariance, PTL

-----------------------------------------------------------------------------
(* The inductive invariant of H3Pool.                                      *)

PasRec ==
    [made : BOOLEAN, index : Nat, transport : BOOLEAN, mu : Req3 \union {"free"},
     handler : {"off", "try", "set"}, at : Nat, on : Client \union {Nil}]
ClientRec ==
    [dial : {"unborn", "dialing", "up", "failed"}, ctx : Req3 \union {"none", "background"},
     hs : BOOLEAN, life : {"up", "closed", "timeout"}, use : Int]
RqRec ==
    [pc : {"start", "lock", "get", "wait", "rt", "h1", "svc", "svc2", "done"},
     ctx : {"live", "canceled", "deadline"}, way : {"none", "cached", "jar", "pending"},
     entry : Nat, pas : Pas \union {Nil}, client : Client \union {Nil}, reused : BOOLEAN,
     tries : Nat, result : {"none", "h3", "h1", "error", "canceled", "deadline"}]
JarRec == [entry : Nat, old : BOOLEAN, proved : SUBSET Nat]

PoolTypes ==
    /\ jar \in JarRec /\ pending \in Pas \union {Nil} /\ pas \in [Pas -> PasRec]
    /\ table \in [Host3 -> Client \union {Nil}] /\ client \in [Client -> ClientRec]
    /\ closer \in Client \union {Nil} /\ rq3 \in [Req3 -> RqRec]

\* Who goes the way of a pending alternative holds its mutex while the round trip lasts,
\* and the alternative is one of the announced ones.
OnPending(x) == x.way = "pending" /\ x.pc \in {"get", "wait", "rt"}
RqFine(r, x, q) ==
    /\ x.pc = "lock" \/ OnPending(x) => x.pas \in Pas
    /\ OnPending(x) => q[x.pas].mu = r /\ x.entry \in 1..N3

\* A pending alternative is ready, or its handler is at work, or neither; it is locked only
\* if ready.
PasFine(x) ==
    /\ x.at >= 1 /\ x.index >= 1
    /\ x.transport => x.handler = "off" /\ x.index <= N3
    /\ x.mu # "free" => x.transport
    /\ ~x.made => x.handler = "off" /\ ~x.transport
    /\ x.handler = "set" => x.on \in Client /\ x.at <= N3
    /\ x.handler # "set" => x.on = Nil

JarFine(j) == j.proved \subseteq 1..N3 /\ (j.entry # 0 => j.entry \in j.proved)

\* useCount covers the round trips and the AddConns on the connection.
Counted(c) == client[c].use >= Cardinality(Users(c)) + Cardinality(Adders(c))

PoolInv3 ==
    /\ PoolTypes /\ JarFine(jar)
    /\ \A p \in Pas : PasFine(pas[p])
    /\ \A r \in Req3 : RqFine(r, rq3[r], pas)
    /\ \A c \in Client : Counted(c)

-----------------------------------------------------------------------------
(* Counting users.                                                         *)

LEMMA N3Nat == N3 \in Nat /\ DOMAIN Alternatives = 1..N3
  BY H3PoolConstants, FS_CardinalityType DEF N3

\* A set that gained at most x, or that lost x.
LEMMA Sizes3 ==
  ASSUME NEW S, NEW T, NEW x, IsFiniteSet(T)
  PROVE  /\ Cardinality(T) \in Nat
         /\ S \subseteq T => Cardinality(S) \in Nat /\ Cardinality(S) <= Cardinality(T)
         /\ S \subseteq T \union {x}
            => Cardinality(S) \in Nat /\ Cardinality(S) <= Cardinality(T) + 1
         /\ x \in T /\ S \subseteq T \ {x}
            => Cardinality(S) \in Nat /\ Cardinality(S) <= Cardinality(T) - 1
  <1>1. Cardinality(T) \in Nat BY FS_CardinalityType
  <1>2. ASSUME NEW U, IsFiniteSet(U), S \subseteq U
        PROVE  Cardinality(S) \in Nat /\ Cardinality(S) <= Cardinality(U)
    BY <1>2, FS_Subset, FS_CardinalityType
  <1>3. /\ IsFiniteSet(T \union {x})
        /\ Cardinality(T \union {x}) \in Nat /\ Cardinality(T \union {x}) <= Cardinality(T) + 1
    <2>1. /\ IsFiniteSet(T \union {x})
          /\ Cardinality(T \union {x}) = IF x \in T THEN Cardinality(T) ELSE Cardinality(T) + 1
      BY FS_AddElement
    <2>. QED BY <1>1, <2>1
  <1>4. ASSUME x \in T
        PROVE  /\ IsFiniteSet(T \ {x})
               /\ Cardinality(T \ {x}) = Cardinality(T) - 1
    BY <1>4, FS_RemoveElement
  <1>5. ASSUME S \subseteq T PROVE Cardinality(S) \in Nat /\ Cardinality(S) <= Cardinality(T)
    BY <1>2, <1>5
  <1>6. ASSUME S \subseteq T \union {x}
        PROVE  Cardinality(S) \in Nat /\ Cardinality(S) <= Cardinality(T) + 1
    <2>1. Cardinality(S) \in Nat /\ Cardinality(S) <= Cardinality(T \union {x})
      BY <1>2, <1>3, <1>6
    <2>. QED BY <1>1, <1>3, <2>1
  <1>7. ASSUME x \in T, S \subseteq T \ {x}
        PROVE  Cardinality(S) \in Nat /\ Cardinality(S) <= Cardinality(T) - 1
    <2>1. Cardinality(S) \in Nat /\ Cardinality(S) <= Cardinality(T \ {x})
      BY <1>2, <1>4, <1>7
    <2>. QED BY <1>1, <1>4, <1>7, <2>1
  <1>. QED BY <1>1, <1>5, <1>6, <1>7

LEMMA FiniteUsers ==
  ASSUME NEW c
  PROVE  IsFiniteSet(Users(c)) /\ IsFiniteSet(Adders(c))
  <1>1. IsFiniteSet(Req3) /\ IsFiniteSet(Pas)
    BY H3PoolConstants, FS_Interval DEF Pas
  <1>2. Users(c) \subseteq Req3 /\ Adders(c) \subseteq Pas BY DEF Users, Adders
  <1>. QED BY <1>1, <1>2, FS_Subset

\* How the use count u of a connection may become v while its users go from U to V and
\* its adders from A to B: x is the one that comes or goes.
Moves(u, v, U, V, A, B, x) ==
    \/ v >= u /\ V \subseteq U /\ B \subseteq A
    \/ v >= u + 1 /\ V \subseteq U \union {x} /\ B \subseteq A
    \/ v >= u + 1 /\ V \subseteq U /\ B \subseteq A \union {x}
    \/ v >= u - 1 /\ x \in U /\ V \subseteq U \ {x} /\ B \subseteq A
    \/ v >= u - 1 /\ V \subseteq U /\ x \in A /\ B \subseteq A \ {x}
    \/ v >= 1 /\ V \subseteq {x} /\ B = {}
    \/ v >= 1 /\ V = {} /\ B \subseteq {x}

LEMMA MovesCounted ==
  ASSUME NEW u \in Int, NEW v \in Int, NEW U, NEW V, NEW A, NEW B, NEW x,
         IsFiniteSet(U), IsFiniteSet(A),
         u >= Cardinality(U) + Cardinality(A), Moves(u, v, U, V, A, B, x)
  PROVE  v >= Cardinality(V) + Cardinality(B)
  <1>1. Cardinality(U) \in Nat /\ Cardinality(A) \in Nat BY FS_CardinalityType
  <1>2. V \subseteq U => Cardinality(V) \in Nat /\ Cardinality(V) <= Cardinality(U) BY Sizes3
  <1>3. B \subseteq A => Cardinality(B) \in Nat /\ Cardinality(B) <= Cardinality(A) BY Sizes3
  <1>4. CASE v >= u /\ V \subseteq U /\ B \subseteq A BY <1>1, <1>2, <1>3, <1>4
  <1>5. CASE v >= u + 1 /\ V \subseteq U \union {x} /\ B \subseteq A
    <2>1. Cardinality(V) \in Nat /\ Cardinality(V) <= Cardinality(U) + 1 BY <1>5, Sizes3
    <2>. QED BY <1>1, <1>3, <1>5, <2>1
  <1>6. CASE v >= u + 1 /\ V \subseteq U /\ B \subseteq A \union {x}
    <2>1. Cardinality(B) \in Nat /\ Cardinality(B) <= Cardinality(A) + 1 BY <1>6, Sizes3
    <2>. QED BY <1>1, <1>2, <1>6, <2>1
  <1>7. CASE v >= u - 1 /\ x \in U /\ V \subseteq U \ {x} /\ B \subseteq A
    <2>1. Cardinality(V) \in Nat /\ Cardinality(V) <= Cardinality(U) - 1 BY <1>7, Sizes3
    <2>. QED BY <1>1, <1>3, <1>7, <2>1
  <1>8. CASE v >= u - 1 /\ V \subseteq U /\ x \in A /\ B \subseteq A \ {x}
    <2>1. Cardinality(B) \in Nat /\ Cardinality(B) <= Cardinality(A) - 1 BY <1>8, Sizes3
    <2>. QED BY <1>1, <1>2, <1>8, <2>1
  <1>9. IsFiniteSet({}) /\ Cardinality({}) = 0 BY FS_EmptySet
  <1>10. \A S : S \subseteq {x} => Cardinality(S) \in Nat /\ Cardinality(S) <= 1
    <2>1. ASSUME NEW S, S \subseteq {x}
          PROVE  Cardinality(S) \in Nat /\ Cardinality(S) <= Cardinality({}) + 1
      <3>1. S \subseteq {} \union {x} BY <2>1
      <3>. QED BY <1>9, <3>1, Sizes3
    <2>. QED BY <1>9, <2>1
  <1>11. CASE v >= 1 /\ V \subseteq {x} /\ B = {} BY <1>9, <1>10, <1>11
  <1>12. CASE v >= 1 /\ V = {} /\ B \subseteq {x} BY <1>9, <1>10, <1>12
  <1>. QED BY <1>4, <1>5, <1>6, <1>7, <1>8, <1>11, <1>12 DEF Moves

-----------------------------------------------------------------------------
(* Shapes of steps.                                                        *)

\* All that a step must keep.
LEMMA PoolKept ==
  ASSUME PoolInv3, PoolTypes', JarFine(jar'),
         \A p \in Pas : PasFine(pas'[p]),
         \A r \in Req3 : RqFine(r, rq3'[r], pas'),
         \A c \in Client : \E x : Moves(client[c].use, client'[c].use, Users(c), Users(c)',
                                        Adders(c), Adders(c)', x)
  PROVE  PoolInv3'
  <1>1. \A c \in Client : client[c].use \in Int /\ client'[c].use \in Int
    BY DEF PoolInv3, PoolTypes, ClientRec
  <1>2. ASSUME NEW c \in Client
        PROVE  client'[c].use >= Cardinality(Users(c)') + Cardinality(Adders(c)')
    <2>1. PICK x : Moves(client[c].use, client'[c].use, Users(c), Users(c)',
                         Adders(c), Adders(c)', x)
      OBVIOUS
    <2>2. client[c].use >= Cardinality(Users(c)) + Cardinality(Adders(c))
      BY DEF PoolInv3, Counted
    <2>3. IsFiniteSet(Users(c)) /\ IsFiniteSet(Adders(c)) BY FiniteUsers
    <2>4. client[c].use \in Int /\ client'[c].use \in Int BY <1>1
    <2>. QED BY <2>1, <2>2, <2>3, <2>4, MovesCounted
  <1>3. \A c \in Client : Counted(c)' BY <1>2 DEF Counted
  <1>4. \A p \in Pas : PasFine(pas[p])' BY DEF PasFine
  <1>5. \A r \in Req3 : RqFine(r, rq3[r], pas)' BY DEF RqFine, OnPending
  <1>6. JarFine(jar)' BY DEF JarFine
  <1>. QED BY <1>3, <1>4, <1>5, <1>6 DEF PoolInv3

\* Request r becomes x: who uses a connection.
LEMMA RequestUsers ==
  ASSUME PoolInv3, NEW r \in Req3, NEW x \in RqRec, rq3' = [rq3 EXCEPT ![r] = x]
  PROVE  /\ rq3' \in [Req3 -> RqRec] /\ rq3'[r] = x
         /\ \A s \in Req3 : s # r => rq3'[s] = rq3[s]
         /\ \A c : Users(c)' \subseteq Users(c) \union {r}
         /\ \A c : ~(x.client = c /\ x.pc \in {"wait", "rt"})
                   => Users(c)' \subseteq Users(c) \ {r}
  <1>1. rq3 \in [Req3 -> RqRec] BY DEF PoolInv3, PoolTypes
  <1>2. rq3' \in [Req3 -> RqRec] /\ rq3'[r] = x BY <1>1
  <1>3. \A s \in Req3 : s # r => rq3'[s] = rq3[s] BY <1>1
  <1>. QED BY <1>2, <1>3 DEF Users

\* The same of a pending alternative.
LEMMA PasAdders ==
  ASSUME PoolInv3, NEW p \in Pas, NEW x \in PasRec, pas' = [pas EXCEPT ![p] = x]
  PROVE  /\ pas' \in [Pas -> PasRec] /\ pas'[p] = x
         /\ \A q \in Pas : q # p => pas'[q] = pas[q]
         /\ \A c : Adders(c)' \subseteq Adders(c) \union {p}
         /\ \A c : x.on # c => Adders(c)' \subseteq Adders(c) \ {p}
  <1>1. pas \in [Pas -> PasRec] BY DEF PoolInv3, PoolTypes
  <1>2. pas' \in [Pas -> PasRec] /\ pas'[p] = x BY <1>1
  <1>3. \A q \in Pas : q # p => pas'[q] = pas[q] BY <1>1
  <1>. QED BY <1>2, <1>3 DEF Adders

\* Nothing happens to the requests and the pending alternatives.
LEMMA Quiet ==
  ASSUME PoolInv3, rq3' = rq3, pas' = pas, pending' = pending,
         table' \in [Host3 -> Client \union {Nil}], client' \in [Client -> ClientRec],
         closer' \in Client \union {Nil}, jar' \in JarRec, JarFine(jar'),
         \A c \in Client : client'[c].use >= client[c].use
  PROVE  PoolInv3'
  <1>1. PoolTypes' BY DEF PoolInv3, PoolTypes
  <1>2. \A c : Users(c)' = Users(c) /\ Adders(c)' = Adders(c) BY DEF Users, Adders
  <1>3. \A c \in Client : Moves(client[c].use, client'[c].use, Users(c), Users(c)',
                                Adders(c), Adders(c)', 0)
    BY <1>2 DEF Moves
  <1>4. /\ \A p \in Pas : PasFine(pas'[p])
        /\ \A r \in Req3 : RqFine(r, rq3'[r], pas')
    BY DEF PoolInv3
  <1>. QED BY <1>1, <1>3, <1>4, PoolKept

\* A request moves that neither gets a connection nor gives one up; the pending
\* alternatives and the table stay.
LEMMA RequestAlone ==
  ASSUME PoolInv3, NEW r \in Req3, NEW x \in RqRec, rq3' = [rq3 EXCEPT ![r] = x],
         RqFine(r, x, pas), UNCHANGED <<pending, pas, table, client, closer>>,
         jar' \in JarRec, JarFine(jar'),
         x.pc \notin {"wait", "rt"} \/ (x.client = rq3[r].client /\ rq3[r].pc \in {"wait", "rt"})
  PROVE  PoolInv3'
  <1>1. /\ rq3' \in [Req3 -> RqRec] /\ rq3'[r] = x
        /\ \A s \in Req3 : s # r => rq3'[s] = rq3[s]
        /\ \A c : Users(c)' \subseteq Users(c) \union {r}
        /\ \A c : ~(x.client = c /\ x.pc \in {"wait", "rt"})
                  => Users(c)' \subseteq Users(c) \ {r}
    BY RequestUsers
  <1>2. PoolTypes' BY <1>1 DEF PoolInv3, PoolTypes
  <1>3. \A s \in Req3 : RqFine(s, rq3'[s], pas') BY <1>1 DEF PoolInv3
  <1>4. \A p \in Pas : PasFine(pas'[p]) BY DEF PoolInv3
  <1>5. \A c : Users(c)' \subseteq Users(c) BY <1>1 DEF Users
  <1>6. \A c : Adders(c)' = Adders(c) BY DEF Adders
  <1>7. \A c \in Client : client'[c].use >= client[c].use
    BY DEF PoolInv3, PoolTypes, ClientRec
  <1>8. \A c \in Client : Moves(client[c].use, client'[c].use, Users(c), Users(c)',
                                Adders(c), Adders(c)', 0)
    BY <1>5, <1>6, <1>7 DEF Moves
  <1>. QED BY <1>2, <1>3, <1>4, <1>8, PoolKept

-----------------------------------------------------------------------------
(* Connections come and go.                                                *)

LEMMA PoolTyped ==
  ASSUME PoolInv3
  PROVE  /\ jar \in JarRec /\ JarFine(jar) /\ pending \in Pas \union {Nil}
         /\ pas \in [Pas -> PasRec] /\ table \in [Host3 -> Client \union {Nil}]
         /\ client \in [Client -> ClientRec] /\ closer \in Client \union {Nil}
         /\ rq3 \in [Req3 -> RqRec]
         /\ \A p \in Pas : PasFine(pas[p])
         /\ \A r \in Req3 : RqFine(r, rq3[r], pas)
  BY DEF PoolInv3, PoolTypes

\* One connection becomes x and its use count does not fall.
LEMMA ClientMoves ==
  ASSUME PoolInv3, NEW c, NEW x \in ClientRec, client' = [client EXCEPT ![c] = x],
         c \in Client => x.use >= client[c].use
  PROVE  client' \in [Client -> ClientRec] /\ \A d \in Client : client'[d].use >= client[d].use
  <1>1. client \in [Client -> ClientRec] BY PoolTyped
  <1>2. client' \in [Client -> ClientRec] BY <1>1
  <1>3. ASSUME NEW d \in Client PROVE client'[d].use >= client[d].use
    <2>1. client[d].use \in Int BY <1>1 DEF ClientRec
    <2>2. CASE d = c BY <1>1, <2>2
    <2>3. CASE d # c
      <3>1. client'[d] = client[d] BY <1>1, <2>3
      <3>. QED BY <2>1, <3>1
    <2>. QED BY <2>2, <2>3
  <1>. QED BY <1>2, <1>3

LEMMA ConnStepInv ==
  ASSUME PoolInv3, NEW c \in Client,
         \/ DialEnds3(c) \/ DialCanceled(c) \/ HandshakeComplete(c)
         \/ \E how \in {"closed", "timeout"} : ConnEnds3(c, how)
  PROVE  PoolInv3'
  <1>1. client[c] \in ClientRec /\ client \in [Client -> ClientRec] BY PoolTyped
  <1>2. UNCHANGED <<jar, pending, pas, table, closer, rq3>>
    BY DEF DialEnds3, DialCanceled, HandshakeComplete, ConnEnds3
  <1>3. PICK x : /\ client' = [client EXCEPT ![c] = x]
                 /\ \/ \E to \in {"up", "failed"} :
                          x = [client[c] EXCEPT !.dial = to, !.ctx = "none"]
                    \/ x = [client[c] EXCEPT !.hs = TRUE]
                    \/ \E how \in {"closed", "timeout"} : x = [client[c] EXCEPT !.life = how]
    <2>1. CASE DialEnds3(c)
      <3>1. PICK to \in {"up", "failed"} :
              client' = [client EXCEPT ![c].dial = to, ![c].ctx = "none"]
        BY <2>1 DEF DialEnds3
      <3>2. client' = [client EXCEPT ![c] = [client[c] EXCEPT !.dial = to, !.ctx = "none"]]
        BY <1>1, <3>1 DEF ClientRec
      <3>. QED BY <3>2
    <2>2. CASE DialCanceled(c)
      <3>1. client' = [client EXCEPT ![c].dial = "failed", ![c].ctx = "none"]
        BY <2>2 DEF DialCanceled
      <3>2. client' = [client EXCEPT ![c] = [client[c] EXCEPT !.dial = "failed", !.ctx = "none"]]
        BY <1>1, <3>1 DEF ClientRec
      <3>. QED BY <3>2
    <2>3. CASE HandshakeComplete(c) BY <2>3 DEF HandshakeComplete
    <2>4. ASSUME NEW how \in {"closed", "timeout"}, ConnEnds3(c, how)
          PROVE  client' = [client EXCEPT ![c] = [client[c] EXCEPT !.life = how]]
      BY <2>4 DEF ConnEnds3
    <2>. QED BY <2>1, <2>2, <2>3, <2>4
  <1>4. x \in ClientRec /\ x.use >= client[c].use
    <2>1. client[c].use \in Int BY <1>1 DEF ClientRec
    <2>2. CASE \E to \in {"up", "failed"} : x = [client[c] EXCEPT !.dial = to, !.ctx = "none"]
      <3>1. PICK to \in {"up", "failed"} : x = [client[c] EXCEPT !.dial = to, !.ctx = "none"]
        BY <2>2
      <3>2. x \in ClientRec /\ x.use = client[c].use BY <1>1, <3>1 DEF ClientRec
      <3>. QED BY <2>1, <3>2
    <2>3. CASE x = [client[c] EXCEPT !.hs = TRUE]
      <3>1. x \in ClientRec /\ x.use = client[c].use BY <1>1, <2>3 DEF ClientRec
      <3>. QED BY <2>1, <3>1
    <2>4. CASE \E how \in {"closed", "timeout"} : x = [client[c] EXCEPT !.life = how]
      <3>1. PICK how \in {"closed", "timeout"} : x = [client[c] EXCEPT !.life = how] BY <2>4
      <3>2. x \in ClientRec /\ x.use = client[c].use BY <1>1, <3>1 DEF ClientRec
      <3>. QED BY <2>1, <3>2
    <2>. QED BY <1>3, <2>2, <2>3, <2>4
  <1>5. client' \in [Client -> ClientRec] /\ \A d \in Client : client'[d].use >= client[d].use
    BY <1>3, <1>4, ClientMoves
  <1>. QED BY <1>2, <1>5, PoolTyped, Quiet

LEMMA CloseIdleInv ==
  ASSUME PoolInv3, (\E h \in Host3 : CloseIdle(h)) \/ CloseIdleDone \/ EntryExpires
  PROVE  PoolInv3'
  <1>1. /\ jar \in JarRec /\ JarFine(jar) /\ table \in [Host3 -> Client \union {Nil}]
        /\ client \in [Client -> ClientRec] /\ closer \in Client \union {Nil}
    BY PoolTyped
  <1>2. \A c \in Client : client[c].use >= client[c].use BY <1>1 DEF ClientRec
  <1>3. ASSUME NEW h \in Host3, CloseIdle(h) PROVE PoolInv3'
    <2>1. /\ closer' = table[h] /\ table' = [table EXCEPT ![h] = Nil]
          /\ UNCHANGED <<jar, pending, pas, client, rq3>>
      BY <1>3 DEF CloseIdle
    <2>2. closer' \in Client \union {Nil} /\ table' \in [Host3 -> Client \union {Nil}]
      BY <1>1, <2>1
    <2>. QED BY <1>1, <1>2, <2>1, <2>2, Quiet
  <1>4. CASE CloseIdleDone
    <2>1. /\ client' = [client EXCEPT ![closer].life = "closed"] /\ closer' = Nil
          /\ closer # Nil /\ UNCHANGED <<jar, pending, pas, table, rq3>>
      BY <1>4 DEF CloseIdleDone
    <2>2. closer \in Client BY <1>1, <2>1
    <2>3. PICK x : x = [client[closer] EXCEPT !.life = "closed"] OBVIOUS
    <2>4. x \in ClientRec /\ x.use >= client[closer].use BY <1>1, <2>2, <2>3 DEF ClientRec
    <2>5. client' = [client EXCEPT ![closer] = x] BY <2>1, <2>3
    <2>6. client' \in [Client -> ClientRec] /\ \A d \in Client : client'[d].use >= client[d].use
      BY <2>4, <2>5, ClientMoves
    <2>. QED BY <1>1, <2>1, <2>6, Quiet
  <1>5. CASE EntryExpires
    <2>1. /\ jar' = [jar EXCEPT !.old = TRUE]
          /\ UNCHANGED <<pending, pas, table, client, closer, rq3>>
      BY <1>5 DEF EntryExpires
    <2>2. jar' \in JarRec /\ JarFine(jar') BY <1>1, <2>1 DEF JarRec, JarFine
    <2>. QED BY <1>1, <1>2, <2>1, <2>2, Quiet
  <1>. QED BY <1>3, <1>4, <1>5

-----------------------------------------------------------------------------
(* Requests before they get a connection.                                  *)

LEMMA LookedFine == ASSUME PoolInv3 PROVE Looked \in JarRec /\ JarFine(Looked)
  <1>1. jar \in JarRec /\ JarFine(jar) BY PoolTyped
  <1>2. CASE Looked = jar BY <1>1, <1>2
  <1>3. CASE Looked = [jar EXCEPT !.entry = 0]
    <2>1. Looked \in JarRec /\ Looked.entry = 0 /\ Looked.proved = jar.proved
      BY <1>1, <1>3 DEF JarRec
    <2>. QED BY <1>1, <2>1 DEF JarFine
  <1>. QED BY <1>2, <1>3 DEF Looked

LEMMA LookUpJarInv ==
  ASSUME PoolInv3, NEW r \in Req3, LookUpJar(r)
  PROVE  PoolInv3'
  <1>1. rq3 \in [Req3 -> RqRec] /\ rq3[r] \in RqRec BY PoolTyped
  <1>2. PICK pc : pc = IF Fresh THEN "done" ELSE "svc2" OBVIOUS
  <1>3. PICK x : x = [rq3[r] EXCEPT !.pc = pc] OBVIOUS
  <1>4. pc \in {"done", "svc2"} BY <1>2
  <1>5. x \in RqRec /\ x.pc = pc BY <1>1, <1>3, <1>4 DEF RqRec
  <1>6. /\ rq3' = [rq3 EXCEPT ![r] = x] /\ jar' = Looked
        /\ UNCHANGED <<pending, pas, table, client, closer>>
    BY <1>2, <1>3 DEF LookUpJar
  <1>7. RqFine(r, x, pas) BY <1>4, <1>5 DEF RqFine, OnPending
  <1>8. x.pc \notin {"wait", "rt"} BY <1>4, <1>5
  <1>. QED BY <1>5, <1>6, <1>7, <1>8, LookedFine, RequestAlone

LEMMA OtherProtocolInv ==
  ASSUME PoolInv3, NEW r \in Req3, OtherProtocol(r)
  PROVE  PoolInv3'
  <1>1. rq3 \in [Req3 -> RqRec] /\ rq3[r] \in RqRec BY PoolTyped
  <1>2. PICK to \in {"svc", "done"} : rq3' = [rq3 EXCEPT ![r].pc = to, ![r].result = "h1"]
    BY DEF OtherProtocol
  <1>3. PICK x : x = [rq3[r] EXCEPT !.pc = to, !.result = "h1"] OBVIOUS
  <1>4. x \in RqRec /\ x.pc = to BY <1>1, <1>3 DEF RqRec
  <1>5. rq3' = [rq3 EXCEPT ![r] = x] BY <1>1, <1>2, <1>3 DEF RqRec
  <1>6. UNCHANGED <<jar, pending, pas, table, client, closer>> BY DEF OtherProtocol
  <1>7. RqFine(r, x, pas) BY <1>4 DEF RqFine, OnPending
  <1>8. x.pc \notin {"wait", "rt"} BY <1>4
  <1>. QED BY <1>4, <1>5, <1>6, <1>7, <1>8, PoolTyped, RequestAlone

\* The context of a request ends.
LEMMA CtxEnds3Inv ==
  ASSUME PoolInv3, NEW r \in Req3, CtxEnds3(r)
  PROVE  PoolInv3'
  <1>1. rq3 \in [Req3 -> RqRec] /\ rq3[r] \in RqRec /\ RqFine(r, rq3[r], pas) BY PoolTyped
  <1>2. PICK how \in {"canceled", "deadline"} : rq3' = [rq3 EXCEPT ![r].ctx = how]
    BY DEF CtxEnds3
  <1>3. PICK x : x = [rq3[r] EXCEPT !.ctx = how] OBVIOUS
  <1>4. x \in RqRec BY <1>1, <1>3 DEF RqRec
  <1>5. /\ x.pc = rq3[r].pc /\ x.way = rq3[r].way /\ x.entry = rq3[r].entry
        /\ x.pas = rq3[r].pas /\ x.client = rq3[r].client
    BY <1>1, <1>3 DEF RqRec
  <1>6. rq3' = [rq3 EXCEPT ![r] = x] BY <1>2, <1>3
  <1>7. UNCHANGED <<jar, pending, pas, table, client, closer>> BY DEF CtxEnds3
  <1>8. RqFine(r, x, pas) BY <1>1, <1>5 DEF RqFine, OnPending
  <1>. QED BY <1>4, <1>5, <1>6, <1>7, <1>8, PoolTyped, RequestAlone

LEMMA DialledInv ==
  ASSUME PoolInv3, NEW r \in Req3, Dialled(r)
  PROVE  PoolInv3'
  <1>1. rq3 \in [Req3 -> RqRec] /\ rq3[r] \in RqRec /\ RqFine(r, rq3[r], pas) BY PoolTyped
  <1>2. PICK x : x = [rq3[r] EXCEPT !.pc = "rt"] OBVIOUS
  <1>3. x \in RqRec /\ x.pc = "rt" BY <1>1, <1>2 DEF RqRec
  <1>4. /\ x.way = rq3[r].way /\ x.entry = rq3[r].entry
        /\ x.pas = rq3[r].pas /\ x.client = rq3[r].client
    BY <1>1, <1>2 DEF RqRec
  <1>5. /\ rq3' = [rq3 EXCEPT ![r] = x] /\ rq3[r].pc = "wait"
        /\ UNCHANGED <<jar, pending, pas, table, client, closer>>
    BY <1>2 DEF Dialled
  <1>6. RqFine(r, x, pas) BY <1>1, <1>3, <1>4, <1>5 DEF RqFine, OnPending
  <1>. QED BY <1>3, <1>4, <1>5, <1>6, PoolTyped, RequestAlone

LEMMA CheckAltSvcInv ==
  ASSUME PoolInv3, NEW r \in Req3, CheckAltSvc(r)
  PROVE  PoolInv3'
  <1>1. rq3 \in [Req3 -> RqRec] /\ rq3[r] \in RqRec /\ jar \in JarRec BY PoolTyped
  <1>2. UNCHANGED <<pending, pas, table, client, closer>> BY DEF CheckAltSvc
  <1>3. CASE pending # Nil /\ pas[pending].transport
    <2>1. PICK x : x = [rq3[r] EXCEPT !.pc = "lock", !.pas = pending] OBVIOUS
    <2>2. rq3' = [rq3 EXCEPT ![r] = x] /\ jar' = jar
      BY <1>1, <1>3, <2>1 DEF CheckAltSvc, RqRec
    <2>3. pending \in Pas BY <1>3, PoolTyped
    <2>4. x \in RqRec /\ x.pc = "lock" /\ x.pas = pending BY <1>1, <2>1, <2>3 DEF RqRec
    <2>5. RqFine(r, x, pas) BY <2>3, <2>4 DEF RqFine, OnPending
    <2>6. jar' \in JarRec /\ JarFine(jar') BY <2>2, PoolTyped
    <2>. QED BY <1>2, <2>2, <2>4, <2>5, <2>6, RequestAlone
  <1>4. CASE ~(pending # Nil /\ pas[pending].transport)
    <2>1. PICK e, w : e = (IF Fresh THEN jar.entry ELSE 0) /\ w = (IF Fresh THEN "jar" ELSE "cached")
      OBVIOUS
    <2>2. PICK x : x = [rq3[r] EXCEPT !.pc = "get", !.entry = e, !.way = w] OBVIOUS
    <2>3. e \in Nat /\ w \in {"jar", "cached"} BY <1>1, <2>1 DEF JarRec
    <2>4. x \in RqRec /\ x.pc = "get" /\ x.way = w BY <1>1, <2>2, <2>3 DEF RqRec
    <2>5. rq3' = [rq3 EXCEPT ![r] = x] /\ jar' = Looked
      BY <1>1, <1>4, <2>1, <2>2 DEF CheckAltSvc, RqRec
    <2>6. RqFine(r, x, pas) BY <2>3, <2>4 DEF RqFine, OnPending
    <2>. QED BY <1>2, <2>4, <2>5, <2>6, LookedFine, RequestAlone
  <1>. QED BY <1>3, <1>4

\* A request moves, and so do the pending alternatives, but no adder comes or goes.
LEMMA RequestAndPas ==
  ASSUME PoolInv3, NEW r \in Req3, NEW x \in RqRec, rq3' = [rq3 EXCEPT ![r] = x],
         pas' \in [Pas -> PasRec], \A p \in Pas : PasFine(pas'[p]) /\ pas'[p].on = pas[p].on,
         RqFine(r, x, pas'), \A s \in Req3 : s # r => RqFine(s, rq3[s], pas'),
         pending' \in Pas \union {Nil}, table' \in [Host3 -> Client \union {Nil}],
         client' \in [Client -> ClientRec], closer' = closer,
         jar' \in JarRec, JarFine(jar'), x.pc \notin {"wait", "rt"},
         \A c \in Client : \/ client'[c].use >= client[c].use
                           \/ client'[c].use >= client[c].use - 1 /\ r \in Users(c)
  PROVE  PoolInv3'
  <1>1. /\ rq3' \in [Req3 -> RqRec] /\ rq3'[r] = x
        /\ \A s \in Req3 : s # r => rq3'[s] = rq3[s]
        /\ \A c : Users(c)' \subseteq Users(c) \ {r}
    BY RequestUsers
  <1>2. PoolTypes' BY <1>1, PoolTyped DEF PoolTypes
  <1>3. \A s \in Req3 : RqFine(s, rq3'[s], pas') BY <1>1
  <1>4. \A c : Adders(c)' = Adders(c) BY DEF Adders
  <1>5. \A c \in Client : Moves(client[c].use, client'[c].use, Users(c), Users(c)',
                                Adders(c), Adders(c)', r)
    BY <1>1, <1>4 DEF Moves
  <1>. QED BY <1>2, <1>3, <1>5, PoolKept

LEMMA AddPendingInv ==
  ASSUME PoolInv3, NEW r \in Req3, AddPending(r)
  PROVE  PoolInv3'
  <1>1. /\ rq3 \in [Req3 -> RqRec] /\ rq3[r] \in RqRec /\ jar \in JarRec /\ JarFine(jar)
        /\ pas \in [Pas -> PasRec]
    BY PoolTyped
  <1>2. PICK x : x = [rq3[r] EXCEPT !.pc = "done"] OBVIOUS
  <1>3. x \in RqRec /\ x.pc = "done" BY <1>1, <1>2 DEF RqRec
  <1>4. /\ rq3' = [rq3 EXCEPT ![r] = x] /\ UNCHANGED <<jar, table, client, closer>>
    BY <1>2 DEF AddPending
  <1>5. \A q : RqFine(r, x, q) BY <1>3 DEF RqFine, OnPending
  <1>6. CASE UNCHANGED <<pending, pas>>
    BY <1>1, <1>3, <1>4, <1>5, <1>6, RequestAlone
  <1>7. ASSUME NEW p \in Pas, ~pas[p].made, pending' = p,
               pas' = [pas EXCEPT ![p].made = TRUE, ![p].handler = "try"]
        PROVE  PoolInv3'
    <2>1. PICK y : y = [pas[p] EXCEPT !.made = TRUE, !.handler = "try"] OBVIOUS
    <2>2. pas[p] \in PasRec /\ PasFine(pas[p]) BY <1>1, PoolTyped
    <2>3. y \in PasRec /\ y.made /\ y.handler = "try" BY <2>1, <2>2 DEF PasRec
    <2>4. /\ y.at = pas[p].at /\ y.index = pas[p].index /\ y.transport = pas[p].transport
          /\ y.mu = pas[p].mu /\ y.on = pas[p].on
      BY <2>1, <2>2 DEF PasRec
    <2>5. PasFine(y) BY <1>7, <2>2, <2>3, <2>4 DEF PasFine
    <2>6. pas' = [pas EXCEPT ![p] = y] BY <1>1, <1>7, <2>1 DEF PasRec
    <2>7. /\ pas' \in [Pas -> PasRec] /\ pas'[p] = y
          /\ \A q \in Pas : q # p => pas'[q] = pas[q]
      BY <1>1, <2>3, <2>6
    <2>8. \A q \in Pas : PasFine(pas'[q]) /\ pas'[q].on = pas[q].on /\ pas'[q].mu = pas[q].mu
      BY <2>4, <2>5, <2>7, PoolTyped
    <2>9. \A s \in Req3 : RqFine(s, rq3[s], pas') BY <2>8, PoolTyped DEF RqFine
    <2>10. \A c \in Client : client'[c].use >= client[c].use BY <1>4, PoolTyped DEF ClientRec
    <2>11. /\ table' \in [Host3 -> Client \union {Nil}] /\ client' \in [Client -> ClientRec]
           /\ closer' = closer /\ jar' \in JarRec /\ JarFine(jar')
      BY <1>4, PoolTyped
    <2>. QED BY <1>3, <1>4, <1>5, <1>7, <2>7, <2>8, <2>9, <2>10, <2>11, RequestAndPas
  <1>. QED BY <1>6, <1>7 DEF AddPending

LEMMA LockPasInv ==
  ASSUME PoolInv3, NEW r \in Req3, LockPas(r)
  PROVE  PoolInv3'
  <1>1. /\ rq3 \in [Req3 -> RqRec] /\ rq3[r] \in RqRec /\ jar \in JarRec /\ JarFine(jar)
        /\ pas \in [Pas -> PasRec]
    BY PoolTyped
  <1>2. PICK p : p = rq3[r].pas OBVIOUS
  <1>3. /\ rq3[r].pc = "lock" /\ pas[p].mu = "free"
        /\ UNCHANGED <<jar, pending, table, client, closer>>
    BY <1>2 DEF LockPas
  <1>4. p \in Pas BY <1>2, <1>3, PoolTyped DEF RqFine
  <1>5. pas[p] \in PasRec /\ PasFine(pas[p]) BY <1>1, <1>4, PoolTyped
  <1>6. CASE /\ pas[p].transport /\ pas' = [pas EXCEPT ![p].mu = r]
             /\ rq3' = [rq3 EXCEPT ![r].pc = "get", ![r].way = "pending",
                                   ![r].entry = pas[p].index]
    <2>1. PICK e : e = pas[p].index OBVIOUS
    <2>2. e \in Nat /\ e \in 1..N3 BY <1>5, <1>6, <2>1, N3Nat DEF PasFine, PasRec
    <2>3. PICK x : x = [rq3[r] EXCEPT !.pc = "get", !.way = "pending", !.entry = e] OBVIOUS
    <2>4. x \in RqRec /\ x.pc = "get" /\ x.way = "pending" /\ x.entry = e /\ x.pas = p
      BY <1>1, <1>2, <2>2, <2>3 DEF RqRec
    <2>5. rq3' = [rq3 EXCEPT ![r] = x] BY <1>1, <1>6, <2>1, <2>3 DEF RqRec
    <2>6. PICK y : y = [pas[p] EXCEPT !.mu = r] OBVIOUS
    <2>7. y \in PasRec /\ y.mu = r BY <1>5, <2>6 DEF PasRec
    <2>8. /\ y.at = pas[p].at /\ y.index = pas[p].index /\ y.transport = pas[p].transport
          /\ y.made = pas[p].made /\ y.handler = pas[p].handler /\ y.on = pas[p].on
      BY <1>5, <2>6 DEF PasRec
    <2>9. PasFine(y) BY <1>5, <1>6, <2>8 DEF PasFine
    <2>10. pas' = [pas EXCEPT ![p] = y] BY <1>6, <2>6
    <2>11. /\ pas' \in [Pas -> PasRec] /\ pas'[p] = y
           /\ \A q \in Pas : q # p => pas'[q] = pas[q]
      BY <1>1, <1>4, <2>7, <2>10
    <2>12. \A q \in Pas : PasFine(pas'[q]) /\ pas'[q].on = pas[q].on
      BY <2>8, <2>9, <2>11, PoolTyped
    <2>13. RqFine(r, x, pas') BY <1>4, <2>2, <2>4, <2>7, <2>11 DEF RqFine
    <2>14. ASSUME NEW s \in Req3, s # r PROVE RqFine(s, rq3[s], pas')
      <3>1. RqFine(s, rq3[s], pas) BY PoolTyped
      <3>2. OnPending(rq3[s]) => rq3[s].pas # p
        BY <1>3, <3>1, H3PoolConstants DEF RqFine
      <3>. QED BY <2>11, <3>1, <3>2 DEF RqFine
    <2>15. \A c \in Client : client'[c].use >= client[c].use BY <1>3, PoolTyped DEF ClientRec
    <2>16. /\ table' \in [Host3 -> Client \union {Nil}] /\ client' \in [Client -> ClientRec]
           /\ pending' \in Pas \union {Nil}
           /\ closer' = closer /\ jar' \in JarRec /\ JarFine(jar')
      BY <1>3, PoolTyped
    <2>17. x.pc \notin {"wait", "rt"} BY <2>4
    <2>. QED BY <2>4, <2>5, <2>11, <2>12, <2>13, <2>14, <2>15, <2>16, <2>17, RequestAndPas
  <1>7. CASE pas' = pas /\ rq3' = [rq3 EXCEPT ![r].pc = "get", ![r].way = "cached"]
    <2>1. PICK x : x = [rq3[r] EXCEPT !.pc = "get", !.way = "cached"] OBVIOUS
    <2>2. x \in RqRec /\ x.pc = "get" /\ x.way = "cached" BY <1>1, <2>1 DEF RqRec
    <2>3. rq3' = [rq3 EXCEPT ![r] = x] BY <1>1, <1>7, <2>1 DEF RqRec
    <2>4. RqFine(r, x, pas) BY <2>2 DEF RqFine, OnPending
    <2>5. UNCHANGED <<pending, pas, table, client, closer>> BY <1>3, <1>7
    <2>6. jar' \in JarRec /\ JarFine(jar') BY <1>1, <1>3
    <2>. QED BY <2>2, <2>3, <2>4, <2>5, <2>6, RequestAlone
  <1>. QED BY <1>2, <1>6, <1>7 DEF LockPas

-----------------------------------------------------------------------------
(* getClient, and the use count.                                           *)

LEMMA DialsFine ==
  ASSUME PoolInv3, NEW h, NEW who \in Req3 \union {"background"}, NEW c \in Client,
         Dials(h, who, c)
  PROVE  /\ table' \in [Host3 -> Client \union {Nil}] /\ client' \in [Client -> ClientRec]
         /\ Users(c) = {} /\ Adders(c) = {} /\ client'[c].use = 1
         /\ \A d \in Client : d # c => client'[d] = client[d]
  <1>1. table \in [Host3 -> Client \union {Nil}] /\ client \in [Client -> ClientRec]
    BY PoolTyped
  <1>2. PICK x : x = [NewClient EXCEPT !.dial = "dialing", !.ctx = who, !.use = 1] OBVIOUS
  <1>3. x \in ClientRec /\ x.use = 1
    <2>1. x = [dial |-> "dialing", ctx |-> who, hs |-> FALSE, life |-> "up", use |-> 1]
      BY <1>2 DEF NewClient
    <2>2. who \in Req3 \union {"none", "background"} /\ 1 \in Int /\ FALSE \in BOOLEAN OBVIOUS
    <2>. QED BY <2>1, <2>2 DEF ClientRec
  <1>4. client' = [client EXCEPT ![c] = x] /\ table' = [table EXCEPT ![h] = c] /\ ~Held(c)
    BY <1>2 DEF Dials
  <1>5. Users(c) = {} /\ Adders(c) = {} BY <1>4 DEF Held
  <1>6. table' \in [Host3 -> Client \union {Nil}] BY <1>1, <1>4
  <1>7. client' \in [Client -> ClientRec] /\ client'[c] = x BY <1>1, <1>3, <1>4
  <1>8. \A d \in Client : d # c => client'[d] = client[d] BY <1>1, <1>4
  <1>. QED BY <1>3, <1>5, <1>6, <1>7, <1>8

\* A step that makes the use count of c u.
LEMMA UseFine ==
  ASSUME PoolInv3, NEW c \in Client, NEW u \in Int, client' = [client EXCEPT ![c].use = u]
  PROVE  /\ client' \in [Client -> ClientRec] /\ client'[c].use = u
         /\ \A d \in Client : d # c => client'[d] = client[d]
  <1>1. client \in [Client -> ClientRec] /\ client[c] \in ClientRec BY PoolTyped
  <1>2. PICK x : x = [client[c] EXCEPT !.use = u] OBVIOUS
  <1>3. x \in ClientRec /\ x.use = u BY <1>1, <1>2 DEF ClientRec
  <1>4. client' = [client EXCEPT ![c] = x] BY <1>2
  <1>5. client' \in [Client -> ClientRec] /\ client'[c] = x BY <1>1, <1>3, <1>4
  <1>6. \A d \in Client : d # c => client'[d] = client[d] BY <1>1, <1>4
  <1>. QED BY <1>3, <1>5, <1>6

LEMMA UseInt == ASSUME PoolInv3 PROVE \A d \in Client : client[d].use \in Int
  BY PoolTyped DEF ClientRec

LEMMA SharesFine ==
  ASSUME PoolInv3, NEW h, NEW c \in Client, Shares(h, c)
  PROVE  /\ table' = table /\ client' \in [Client -> ClientRec]
         /\ client'[c].use = client[c].use + 1
         /\ \A d \in Client : d # c => client'[d] = client[d]
  <1>1. PICK u : u = client[c].use + 1 OBVIOUS
  <1>2. u \in Int BY <1>1, UseInt
  <1>3. client' = [client EXCEPT ![c].use = u] /\ table' = table BY <1>1 DEF Shares
  <1>. QED BY <1>1, <1>2, <1>3, UseFine

LEMMA ReleaseFine ==
  ASSUME PoolInv3, NEW c, Release(c)
  PROVE  /\ client' \in [Client -> ClientRec]
         /\ c \in Client => client'[c].use = client[c].use - 1
         /\ \A d \in Client : d # c => client'[d] = client[d]
  <1>1. client \in [Client -> ClientRec] BY PoolTyped
  <1>2. CASE c \in Client
    <2>1. PICK u : u = client[c].use - 1 OBVIOUS
    <2>2. u \in Int BY <1>2, <2>1, UseInt
    <2>3. client' = [client EXCEPT ![c].use = u] BY <2>1 DEF Release
    <2>. QED BY <1>2, <2>1, <2>2, <2>3, UseFine
  <1>3. CASE c \notin Client
    <2>1. client' = client BY <1>1, <1>3 DEF Release
    <2>. QED BY <1>1, <1>3, <2>1
  <1>. QED BY <1>2, <1>3

-----------------------------------------------------------------------------
(* handlePendingAltSvc.                                                    *)

LEMMA HandlerMoves ==
  ASSUME PoolInv3, NEW p \in Pas, NEW x \in PasRec, pas' = [pas EXCEPT ![p] = x],
         PasFine(x), x.mu = pas[p].mu, UNCHANGED <<jar, pending, closer, rq3>>,
         table' \in [Host3 -> Client \union {Nil}], client' \in [Client -> ClientRec],
         \A c \in Client :
            \/ client'[c].use >= client[c].use /\ x.on # c
            \/ client'[c].use >= client[c].use + 1
            \/ client'[c].use >= client[c].use - 1 /\ p \in Adders(c) /\ x.on # c
            \/ client'[c].use >= 1 /\ Users(c) = {} /\ Adders(c) = {}
  PROVE  PoolInv3'
  <1>1. /\ pas' \in [Pas -> PasRec] /\ pas'[p] = x
        /\ \A q \in Pas : q # p => pas'[q] = pas[q]
        /\ \A c : Adders(c)' \subseteq Adders(c) \union {p}
        /\ \A c : x.on # c => Adders(c)' \subseteq Adders(c) \ {p}
    BY PasAdders
  <1>2. PoolTypes' BY <1>1, PoolTyped DEF PoolTypes
  <1>3. \A q \in Pas : PasFine(pas'[q]) /\ pas'[q].mu = pas[q].mu BY <1>1, PoolTyped
  <1>4. \A r \in Req3 : RqFine(r, rq3'[r], pas') BY <1>3, PoolTyped DEF RqFine
  <1>5. \A c : Users(c)' = Users(c) BY DEF Users
  <1>6. ASSUME NEW c \in Client
        PROVE  Moves(client[c].use, client'[c].use, Users(c), Users(c)',
                     Adders(c), Adders(c)', p)
    <2>1. CASE client'[c].use >= client[c].use /\ x.on # c
      BY <1>1, <1>5, <2>1 DEF Moves
    <2>2. CASE client'[c].use >= client[c].use + 1
      BY <1>1, <1>5, <2>2 DEF Moves
    <2>3. CASE client'[c].use >= client[c].use - 1 /\ p \in Adders(c) /\ x.on # c
      BY <1>1, <1>5, <2>3 DEF Moves
    <2>4. CASE client'[c].use >= 1 /\ Users(c) = {} /\ Adders(c) = {}
      <3>1. Users(c)' = {} /\ Adders(c)' \subseteq {p} BY <1>1, <1>5, <2>4
      <3>. QED BY <2>4, <3>1 DEF Moves
    <2>. QED BY <2>1, <2>2, <2>3, <2>4
  <1>7. jar' \in JarRec /\ JarFine(jar') BY PoolTyped
  <1>. QED BY <1>2, <1>3, <1>4, <1>6, <1>7, PoolKept

LEMMA PendingGetClientInv ==
  ASSUME PoolInv3, NEW p \in Pas, PendingGetClient(p)
  PROVE  PoolInv3'
  <1>1. pas \in [Pas -> PasRec] /\ pas[p] \in PasRec /\ PasFine(pas[p]) BY PoolTyped
  <1>2. /\ pas[p].handler = "try" /\ pas[p].at <= N3 /\ UNCHANGED <<jar, pending, closer, rq3>>
    BY DEF PendingGetClient
  <1>3. PICK h : h = Alternatives[pas[p].at] OBVIOUS
  <1>4. ASSUME NEW c \in Client, Dials(h, "background", c) \/ Shares(h, c),
               pas' = [pas EXCEPT ![p].handler = "set", ![p].on = c]
        PROVE  PoolInv3'
    <2>1. PICK x : x = [pas[p] EXCEPT !.handler = "set", !.on = c] OBVIOUS
    <2>2. x \in PasRec /\ x.handler = "set" /\ x.on = c BY <1>1, <2>1 DEF PasRec
    <2>3. /\ x.at = pas[p].at /\ x.index = pas[p].index /\ x.transport = pas[p].transport
          /\ x.mu = pas[p].mu /\ x.made = pas[p].made
      BY <1>1, <2>1 DEF PasRec
    <2>4. PasFine(x) BY <1>1, <1>2, <2>2, <2>3 DEF PasFine
    <2>5. pas' = [pas EXCEPT ![p] = x] BY <1>1, <1>4, <2>1 DEF PasRec
    <2>6. CASE Dials(h, "background", c)
      <3>1. /\ table' \in [Host3 -> Client \union {Nil}] /\ client' \in [Client -> ClientRec]
            /\ Users(c) = {} /\ Adders(c) = {} /\ client'[c].use = 1
            /\ \A d \in Client : d # c => client'[d] = client[d]
        BY <2>6, DialsFine
      <3>2. \A d \in Client : \/ client'[d].use >= client[d].use /\ x.on # d
                              \/ client'[d].use >= 1 /\ Users(d) = {} /\ Adders(d) = {}
        BY <2>2, <3>1, UseInt
      <3>. QED BY <1>2, <2>2, <2>3, <2>4, <2>5, <3>1, <3>2, HandlerMoves
    <2>7. CASE Shares(h, c)
      <3>1. /\ table' = table /\ client' \in [Client -> ClientRec]
            /\ client'[c].use = client[c].use + 1
            /\ \A d \in Client : d # c => client'[d] = client[d]
        BY <2>7, SharesFine
      <3>2. \A d \in Client : \/ client'[d].use >= client[d].use /\ x.on # d
                              \/ client'[d].use >= client[d].use + 1
        BY <2>2, <3>1, UseInt
      <3>3. table' \in [Host3 -> Client \union {Nil}] BY <3>1, PoolTyped
      <3>. QED BY <1>2, <2>2, <2>3, <2>4, <2>5, <3>1, <3>2, <3>3, HandlerMoves
    <2>. QED BY <1>4, <2>6, <2>7
  <1>5. ASSUME FindsFailed(h), pas' = [pas EXCEPT ![p].at = @ + 1] PROVE PoolInv3'
    <2>1. PICK a : a = pas[p].at + 1 OBVIOUS
    <2>2. PICK x : x = [pas[p] EXCEPT !.at = a] OBVIOUS
    <2>3. a \in Nat /\ a >= 1 BY <1>1, <2>1 DEF PasRec
    <2>4. x \in PasRec /\ x.at = a BY <1>1, <2>2, <2>3 DEF PasRec
    <2>5. /\ x.handler = pas[p].handler /\ x.index = pas[p].index /\ x.on = pas[p].on
          /\ x.transport = pas[p].transport /\ x.mu = pas[p].mu /\ x.made = pas[p].made
      BY <1>1, <2>2 DEF PasRec
    <2>6. PasFine(x) BY <1>1, <1>2, <2>3, <2>4, <2>5 DEF PasFine
    <2>7. pas' = [pas EXCEPT ![p] = x] BY <1>5, <2>1, <2>2
    <2>8. table' = [table EXCEPT ![h] = Nil] /\ client' = client BY <1>5 DEF FindsFailed
    <2>9. table' \in [Host3 -> Client \union {Nil}] /\ client' \in [Client -> ClientRec]
      BY <2>8, PoolTyped
    <2>10. x.on = Nil BY <1>1, <1>2, <2>5 DEF PasFine
    <2>11. \A d \in Client : client'[d].use >= client[d].use /\ x.on # d
      BY <2>8, <2>10, UseInt DEF Client, Nil
    <2>. QED BY <1>2, <2>4, <2>5, <2>6, <2>7, <2>9, <2>11, HandlerMoves
  <1>. QED BY <1>3, <1>4, <1>5 DEF PendingGetClient

LEMMA PendingReadyInv ==
  ASSUME PoolInv3, NEW p \in Pas, PendingReady(p)
  PROVE  PoolInv3'
  <1>1. pas \in [Pas -> PasRec] /\ pas[p] \in PasRec /\ PasFine(pas[p]) BY PoolTyped
  <1>2. /\ pas[p].handler = "set" /\ Release(pas[p].on)
        /\ UNCHANGED <<jar, pending, table, closer, rq3>>
    BY DEF PendingReady
  <1>3. PICK c, i : c = pas[p].on /\ i = pas[p].at OBVIOUS
  <1>4. c \in Client /\ p \in Adders(c) BY <1>1, <1>2, <1>3 DEF PasFine, Adders
  <1>5. PICK x : x = [pas[p] EXCEPT !.handler = "off", !.on = Nil, !.index = i,
                                    !.transport = TRUE]
    OBVIOUS
  <1>6. i \in Nat /\ i >= 1 /\ i <= N3 BY <1>1, <1>2, <1>3 DEF PasRec, PasFine
  <1>7. /\ x \in PasRec /\ x.handler = "off" /\ x.on = Nil /\ x.index = i
        /\ x.at = pas[p].at /\ x.mu = pas[p].mu /\ x.made = pas[p].made
    BY <1>1, <1>5, <1>6 DEF PasRec
  <1>8. PasFine(x) BY <1>1, <1>2, <1>5, <1>6, <1>7 DEF PasFine, PasRec
  <1>9. pas' = [pas EXCEPT ![p] = x] BY <1>1, <1>3, <1>5 DEF PendingReady, PasRec
  <1>10. /\ client' \in [Client -> ClientRec] /\ client'[c].use = client[c].use - 1
         /\ \A d \in Client : d # c => client'[d] = client[d]
    BY <1>2, <1>3, <1>4, ReleaseFine
  <1>11. ASSUME NEW d \in Client
         PROVE  \/ client'[d].use >= client[d].use /\ x.on # d
                \/ client'[d].use >= client[d].use - 1 /\ p \in Adders(d) /\ x.on # d
    <2>1. x.on # d BY <1>7 DEF Client, Nil
    <2>. QED BY <1>4, <1>10, <2>1, UseInt
  <1>12. table' \in [Host3 -> Client \union {Nil}] BY <1>2, PoolTyped
  <1>. QED BY <1>2, <1>7, <1>8, <1>9, <1>10, <1>11, <1>12, HandlerMoves

LEMMA PendingGivesUpInv ==
  ASSUME PoolInv3, NEW p \in Pas, PendingGivesUp(p)
  PROVE  PoolInv3'
  <1>1. pas \in [Pas -> PasRec] /\ pas[p] \in PasRec /\ PasFine(pas[p]) BY PoolTyped
  <1>2. pas[p].handler = "try" /\ UNCHANGED <<jar, pending, table, client, closer, rq3>>
    BY DEF PendingGivesUp
  <1>3. PICK x : x = [pas[p] EXCEPT !.handler = "off"] OBVIOUS
  <1>4. /\ x \in PasRec /\ x.handler = "off" /\ x.on = pas[p].on /\ x.index = pas[p].index
        /\ x.at = pas[p].at /\ x.mu = pas[p].mu /\ x.made = pas[p].made
        /\ x.transport = pas[p].transport
    BY <1>1, <1>3 DEF PasRec
  <1>5. PasFine(x) /\ x.on = Nil BY <1>1, <1>2, <1>4 DEF PasFine
  <1>6. pas' = [pas EXCEPT ![p] = x] BY <1>3 DEF PendingGivesUp
  <1>7. \A d \in Client : client'[d].use >= client[d].use /\ x.on # d
    BY <1>2, <1>5, UseInt DEF Client, Nil
  <1>8. table' \in [Host3 -> Client \union {Nil}] /\ client' \in [Client -> ClientRec]
    BY <1>2, PoolTyped
  <1>. QED BY <1>2, <1>4, <1>5, <1>6, <1>7, <1>8, HandlerMoves

-----------------------------------------------------------------------------
(* RoundTripOpt.                                                           *)

\* The holder of a pending alternative gives its mutex back, and may demote it.
LEMMA GivesBack ==
  ASSUME PoolInv3, NEW r \in Req3, OnPending(rq3[r]), NEW p, p = rq3[r].pas,
         NEW q, q = Resolved(p) \/ q = Demoted(p)
  PROVE  /\ q \in [Pas -> PasRec] /\ \A i \in Pas : PasFine(q[i]) /\ q[i].on = pas[i].on
         /\ \A s \in Req3 : s # r => RqFine(s, rq3[s], q)
  <1>1. pas \in [Pas -> PasRec] /\ RqFine(r, rq3[r], pas) BY PoolTyped
  <1>2. p \in Pas /\ pas[p].mu = r BY <1>1 DEF RqFine
  <1>3. pas[p] \in PasRec /\ PasFine(pas[p]) BY <1>1, <1>2, PoolTyped
  <1>4. pas[p].transport /\ pas[p].handler = "off" /\ pas[p].on = Nil /\ pas[p].made
    BY <1>2, <1>3, H3PoolConstants DEF PasFine, PasRec
  <1>5. \E x \in PasRec : q = [pas EXCEPT ![p] = x] /\ PasFine(x) /\ x.on = Nil
    <2>1. CASE q = Resolved(p)
      <3>1. PICK x : x = [pas[p] EXCEPT !.mu = "free"] OBVIOUS
      <3>2. /\ x \in PasRec /\ x.mu = "free" /\ x.handler = pas[p].handler
            /\ x.on = pas[p].on /\ x.index = pas[p].index /\ x.at = pas[p].at
            /\ x.made = pas[p].made /\ x.transport = pas[p].transport
        BY <1>3, <3>1 DEF PasRec
      <3>3. PasFine(x) BY <1>3, <3>2 DEF PasFine
      <3>4. q = [pas EXCEPT ![p] = x] BY <2>1, <3>1 DEF Resolved
      <3>. QED BY <1>4, <3>2, <3>3, <3>4
    <2>2. CASE q = Demoted(p) /\ pas[p].index + 1 <= N3
      <3>1. PICK i : i = pas[p].index + 1 OBVIOUS
      <3>2. PICK x : x = [pas[p] EXCEPT !.mu = "free", !.transport = FALSE, !.index = i,
                                        !.at = i, !.handler = "try"]
        OBVIOUS
      <3>3. i \in Nat /\ i >= 1 BY <1>3, <3>1 DEF PasRec
      <3>4. /\ x \in PasRec /\ x.mu = "free" /\ x.handler = "try" /\ ~x.transport
            /\ x.on = pas[p].on /\ x.index = i /\ x.at = i /\ x.made = pas[p].made
        BY <1>3, <3>2, <3>3 DEF PasRec
      <3>5. PasFine(x) BY <1>4, <3>3, <3>4 DEF PasFine
      <3>6. q = [pas EXCEPT ![p] = x] BY <1>1, <1>2, <2>2, <3>1, <3>2 DEF Demoted, PasRec
      <3>. QED BY <1>4, <3>4, <3>5, <3>6
    <2>3. CASE q = Demoted(p) /\ ~(pas[p].index + 1 <= N3)
      <3>1. PICK x : x = [pas[p] EXCEPT !.mu = "free", !.transport = FALSE] OBVIOUS
      <3>2. /\ x \in PasRec /\ x.mu = "free" /\ x.handler = pas[p].handler /\ ~x.transport
            /\ x.on = pas[p].on /\ x.index = pas[p].index /\ x.at = pas[p].at
            /\ x.made = pas[p].made
        BY <1>3, <3>1 DEF PasRec
      <3>3. PasFine(x) BY <1>3, <1>4, <3>2 DEF PasFine
      <3>4. q = [pas EXCEPT ![p] = x] BY <1>1, <1>2, <2>3, <3>1 DEF Demoted, PasRec
      <3>. QED BY <1>4, <3>2, <3>3, <3>4
    <2>. QED BY <2>1, <2>2, <2>3
  <1>6. PICK x \in PasRec : q = [pas EXCEPT ![p] = x] /\ PasFine(x) /\ x.on = Nil BY <1>5
  <1>7. /\ q \in [Pas -> PasRec] /\ q[p] = x /\ \A i \in Pas : i # p => q[i] = pas[i]
    BY <1>1, <1>2, <1>6
  <1>8. \A i \in Pas : PasFine(q[i]) /\ q[i].on = pas[i].on BY <1>4, <1>6, <1>7, PoolTyped
  <1>9. ASSUME NEW s \in Req3, s # r PROVE RqFine(s, rq3[s], q)
    <2>1. RqFine(s, rq3[s], pas) BY PoolTyped
    <2>2. OnPending(rq3[s]) => rq3[s].pas # p BY <1>2, <1>9, <2>1 DEF RqFine
    <2>. QED BY <1>7, <2>1, <2>2 DEF RqFine
  <1>. QED BY <1>7, <1>8, <1>9

\* A request that has, or looks for, a connection fails.
LEMMA FailsInv ==
  ASSUME PoolInv3, NEW r \in Req3, NEW e \in {"error", "canceled", "deadline"}, Fails(r, e),
         rq3[r].pc \in {"get", "wait", "rt"},
         table' \in [Host3 -> Client \union {Nil}], client' \in [Client -> ClientRec],
         closer' = closer,
         \A c \in Client : \/ client'[c].use >= client[c].use
                           \/ client'[c].use >= client[c].use - 1 /\ r \in Users(c)
  PROVE  PoolInv3'
  <1>1. rq3 \in [Req3 -> RqRec] /\ rq3[r] \in RqRec BY PoolTyped
  <1>2. PICK x : x = [rq3[r] EXCEPT !.pc = "done", !.result = e, !.client = Nil] OBVIOUS
  <1>3. x \in RqRec /\ x.pc = "done" BY <1>1, <1>2 DEF RqRec
  <1>4. /\ rq3' = [rq3 EXCEPT ![r] = x] /\ UNCHANGED <<jar, pending>>
        /\ pas' = IF rq3[r].way = "pending" THEN Demoted(rq3[r].pas) ELSE pas
    BY <1>1, <1>2 DEF Fails, RqRec
  <1>5. \A q : RqFine(r, x, q) BY <1>3 DEF RqFine, OnPending
  <1>6. /\ pas' \in [Pas -> PasRec] /\ \A i \in Pas : PasFine(pas'[i]) /\ pas'[i].on = pas[i].on
        /\ \A s \in Req3 : s # r => RqFine(s, rq3[s], pas')
    <2>1. CASE rq3[r].way = "pending"
      <3>1. OnPending(rq3[r]) /\ pas' = Demoted(rq3[r].pas) BY <1>4, <2>1 DEF OnPending
      <3>. QED BY <3>1, GivesBack
    <2>2. CASE rq3[r].way # "pending"
      <3>1. pas' = pas BY <1>4, <2>2
      <3>. QED BY <3>1, PoolTyped
    <2>. QED BY <2>1, <2>2
  <1>7. jar' \in JarRec /\ JarFine(jar') /\ pending' \in Pas \union {Nil} BY <1>4, PoolTyped
  <1>8. x.pc \notin {"wait", "rt"} BY <1>3
  <1>. QED BY <1>3, <1>4, <1>5, <1>6, <1>7, <1>8, RequestAndPas

\* Request r gets connection c.
LEMMA GotClient ==
  ASSUME PoolInv3, NEW r \in Req3, NEW c \in Client, rq3[r].pc = "get",
         NEW reused \in BOOLEAN,
         rq3' = [rq3 EXCEPT ![r].pc = "wait", ![r].client = c, ![r].tries = @ + 1,
                            ![r].reused = reused],
         UNCHANGED <<jar, pending, pas, closer>>,
         table' \in [Host3 -> Client \union {Nil}], client' \in [Client -> ClientRec],
         \A d \in Client : d # c => client'[d] = client[d],
         \/ client'[c].use = client[c].use + 1
         \/ client'[c].use = 1 /\ Users(c) = {} /\ Adders(c) = {}
  PROVE  PoolInv3'
  <1>1. rq3 \in [Req3 -> RqRec] /\ rq3[r] \in RqRec /\ RqFine(r, rq3[r], pas) BY PoolTyped
  <1>2. PICK n : n = rq3[r].tries + 1 OBVIOUS
  <1>3. n \in Nat BY <1>1, <1>2 DEF RqRec
  <1>4. PICK x : x = [rq3[r] EXCEPT !.pc = "wait", !.client = c, !.tries = n, !.reused = reused]
    OBVIOUS
  <1>5. /\ x \in RqRec /\ x.pc = "wait" /\ x.client = c /\ x.way = rq3[r].way
        /\ x.entry = rq3[r].entry /\ x.pas = rq3[r].pas
    BY <1>1, <1>3, <1>4 DEF RqRec
  <1>6. rq3' = [rq3 EXCEPT ![r] = x] BY <1>1, <1>2, <1>4 DEF RqRec
  <1>7. RqFine(r, x, pas) BY <1>1, <1>5 DEF RqFine, OnPending
  <1>8. /\ rq3' \in [Req3 -> RqRec] /\ rq3'[r] = x
        /\ \A s \in Req3 : s # r => rq3'[s] = rq3[s]
        /\ \A d : Users(d)' \subseteq Users(d) \union {r}
        /\ \A d : ~(x.client = d /\ x.pc \in {"wait", "rt"})
                  => Users(d)' \subseteq Users(d) \ {r}
    BY <1>5, <1>6, RequestUsers
  <1>9. PoolTypes' BY <1>8, PoolTyped DEF PoolTypes
  <1>10. \A s \in Req3 : RqFine(s, rq3'[s], pas') BY <1>7, <1>8, PoolTyped
  <1>11. \A d : Adders(d)' = Adders(d) BY DEF Adders
  <1>12. ASSUME NEW d \in Client
         PROVE  Moves(client[d].use, client'[d].use, Users(d), Users(d)',
                      Adders(d), Adders(d)', r)
    <2>1. CASE d # c
      <3>1. Users(d)' \subseteq Users(d) BY <1>5, <1>8, <2>1
      <3>2. client'[d].use >= client[d].use BY <2>1, UseInt
      <3>. QED BY <1>11, <3>1, <3>2 DEF Moves
    <2>2. CASE d = c /\ client'[c].use = client[c].use + 1
      <3>1. client'[d].use >= client[d].use + 1 BY <2>2, UseInt
      <3>. QED BY <1>8, <1>11, <3>1 DEF Moves
    <2>3. CASE d = c /\ client'[c].use = 1 /\ Users(c) = {} /\ Adders(c) = {}
      <3>1. Users(d)' \subseteq {r} /\ Adders(d)' = {} BY <1>8, <1>11, <2>3
      <3>2. client'[d].use >= 1 BY <2>3
      <3>. QED BY <3>1, <3>2 DEF Moves
    <2>. QED BY <2>1, <2>2, <2>3
  <1>13. /\ jar' \in JarRec /\ JarFine(jar') /\ \A i \in Pas : PasFine(pas'[i]) BY PoolTyped
  <1>. QED BY <1>9, <1>10, <1>12, <1>13, PoolKept

LEMMA GetClient3Inv ==
  ASSUME PoolInv3, NEW r \in Req3, GetClient3(r)
  PROVE  PoolInv3'
  <1>1. rq3[r].pc = "get" /\ closer' = closer BY DEF GetClient3
  <1>2. rq3 \in [Req3 -> RqRec] /\ rq3[r] \in RqRec BY PoolTyped
  <1>3. CASE /\ rq3[r].way = "cached" /\ rq3' = [rq3 EXCEPT ![r].pc = "h1"]
             /\ UNCHANGED <<jar, pending, pas, table, client>>
    <2>1. PICK x : x = [rq3[r] EXCEPT !.pc = "h1"] OBVIOUS
    <2>2. x \in RqRec /\ x.pc = "h1" BY <1>2, <2>1 DEF RqRec
    <2>3. rq3' = [rq3 EXCEPT ![r] = x] BY <1>3, <2>1
    <2>4. RqFine(r, x, pas) BY <2>2 DEF RqFine, OnPending
    <2>5. jar' \in JarRec /\ JarFine(jar') /\ UNCHANGED <<pending, pas, table, client, closer>>
      BY <1>1, <1>3, PoolTyped
    <2>6. x.pc \notin {"wait", "rt"} BY <2>2
    <2>. QED BY <2>2, <2>3, <2>4, <2>5, <2>6, RequestAlone
  <1>4. ASSUME NEW c \in Client, Dials(HostOf(r), r, c) \/ Shares(HostOf(r), c),
               rq3' = [rq3 EXCEPT ![r].pc = "wait", ![r].client = c, ![r].tries = @ + 1,
                         ![r].reused = client[c].dial = "up" /\ client[c].hs],
               UNCHANGED <<jar, pending, pas>>
        PROVE  PoolInv3'
    <2>1. PICK b : b = (client[c].dial = "up" /\ client[c].hs) OBVIOUS
    <2>2. b \in BOOLEAN BY <2>1
    <2>3. rq3' = [rq3 EXCEPT ![r].pc = "wait", ![r].client = c, ![r].tries = @ + 1,
                             ![r].reused = b]
      BY <1>4, <2>1
    <2>4. CASE Dials(HostOf(r), r, c)
      <3>1. /\ table' \in [Host3 -> Client \union {Nil}] /\ client' \in [Client -> ClientRec]
            /\ Users(c) = {} /\ Adders(c) = {} /\ client'[c].use = 1
            /\ \A d \in Client : d # c => client'[d] = client[d]
        BY <2>4, DialsFine
      <3>. QED BY <1>1, <1>4, <2>2, <2>3, <3>1, GotClient
    <2>5. CASE Shares(HostOf(r), c)
      <3>1. /\ table' = table /\ client' \in [Client -> ClientRec]
            /\ client'[c].use = client[c].use + 1
            /\ \A d \in Client : d # c => client'[d] = client[d]
        BY <2>5, SharesFine
      <3>2. table' \in [Host3 -> Client \union {Nil}] BY <3>1, PoolTyped
      <3>. QED BY <1>1, <1>4, <2>2, <2>3, <3>1, <3>2, GotClient
    <2>. QED BY <1>4, <2>4, <2>5
  <1>5. CASE FindsFailed(HostOf(r)) /\ Fails(r, "error")
    <2>1. table' = [table EXCEPT ![HostOf(r)] = Nil] /\ client' = client
      BY <1>5 DEF FindsFailed
    <2>2. table' \in [Host3 -> Client \union {Nil}] /\ client' \in [Client -> ClientRec]
      BY <2>1, PoolTyped
    <2>3. \A c \in Client : client'[c].use >= client[c].use BY <2>1, UseInt
    <2>. QED BY <1>1, <1>5, <2>2, <2>3, FailsInv
  <1>. QED BY <1>3, <1>4, <1>5 DEF GetClient3

LEMMA DialFailedInv ==
  ASSUME PoolInv3, NEW r \in Req3, DialFailed(r) \/ WaitCanceled(r)
  PROVE  PoolInv3'
  <1>1. rq3[r] \in RqRec BY PoolTyped
  <1>2. /\ rq3[r].pc = "wait" /\ client' = client /\ closer' = closer
        /\ \E e \in {"error", "canceled", "deadline"} : Fails(r, e)
    BY <1>1 DEF DialFailed, WaitCanceled, RqRec
  <1>3. table' = table \/ table' = [table EXCEPT ![HostOf(r)] = Nil]
    BY DEF DialFailed, WaitCanceled, RemoveClient
  <1>4. table' \in [Host3 -> Client \union {Nil}] /\ client' \in [Client -> ClientRec]
    BY <1>2, <1>3, PoolTyped
  <1>5. \A c \in Client : client'[c].use >= client[c].use BY <1>2, UseInt
  <1>. QED BY <1>2, <1>4, <1>5, FailsInv

\* The round trip of r is over, and its connection counted down.
LEMMA OwnRelease ==
  ASSUME PoolInv3, NEW r \in Req3, rq3[r].pc = "rt", Release(rq3[r].client)
  PROVE  /\ client' \in [Client -> ClientRec]
         /\ \A c \in Client : \/ client'[c].use >= client[c].use
                              \/ client'[c].use >= client[c].use - 1 /\ r \in Users(c)
  <1>1. /\ client' \in [Client -> ClientRec]
        /\ rq3[r].client \in Client
           => client'[rq3[r].client].use = client[rq3[r].client].use - 1
        /\ \A d \in Client : d # rq3[r].client => client'[d] = client[d]
    BY ReleaseFine
  <1>2. ASSUME NEW c \in Client
        PROVE  \/ client'[c].use >= client[c].use
               \/ client'[c].use >= client[c].use - 1 /\ r \in Users(c)
    <2>1. CASE c = rq3[r].client
      <3>1. r \in Users(c) BY <2>1 DEF Users
      <3>2. client'[c].use >= client[c].use - 1 BY <1>1, <2>1, UseInt
      <3>. QED BY <3>1, <3>2
    <2>2. CASE c # rq3[r].client BY <1>1, <2>2, UseInt
    <2>. QED BY <2>1, <2>2
  <1>. QED BY <1>1, <1>2

LEMMA RoundTripsInv ==
  ASSUME PoolInv3, NEW r \in Req3, RoundTrips(r)
  PROVE  PoolInv3'
  <1>1. /\ rq3[r].pc = "rt" /\ Succeeds(r) /\ Release(rq3[r].client)
        /\ UNCHANGED <<table, closer>>
    BY DEF RoundTrips
  <1>2. rq3 \in [Req3 -> RqRec] /\ rq3[r] \in RqRec /\ jar \in JarRec /\ JarFine(jar)
    BY PoolTyped
  <1>3. PICK x : x = [rq3[r] EXCEPT !.pc = "done", !.result = "h3", !.client = Nil] OBVIOUS
  <1>4. x \in RqRec /\ x.pc = "done" BY <1>2, <1>3 DEF RqRec
  <1>5. rq3' = [rq3 EXCEPT ![r] = x] BY <1>1, <1>2, <1>3 DEF Succeeds, RqRec
  <1>6. \A q : RqFine(r, x, q) BY <1>4 DEF RqFine, OnPending
  <1>7. /\ pas' \in [Pas -> PasRec] /\ \A i \in Pas : PasFine(pas'[i]) /\ pas'[i].on = pas[i].on
        /\ \A s \in Req3 : s # r => RqFine(s, rq3[s], pas')
        /\ jar' \in JarRec /\ JarFine(jar') /\ pending' \in Pas \union {Nil}
    <2>1. CASE rq3[r].way = "pending"
      <3>1. OnPending(rq3[r]) /\ pas' = Resolved(rq3[r].pas) /\ pending' = Nil
        BY <1>1, <2>1 DEF OnPending, Succeeds
      <3>2. PICK e, pr : e = rq3[r].entry /\ pr = jar.proved \union {rq3[r].entry} OBVIOUS
      <3>3. jar' = [jar EXCEPT !.entry = e, !.old = FALSE, !.proved = pr]
        BY <1>1, <1>2, <2>1, <3>2 DEF Succeeds, JarRec
      <3>4. RqFine(r, rq3[r], pas) BY PoolTyped
      <3>5. e \in 1..N3 /\ e \in Nat BY <1>2, <3>1, <3>2, <3>4 DEF RqFine, RqRec
      <3>6. pr \in SUBSET Nat /\ pr \subseteq 1..N3 /\ e \in pr
        BY <1>2, <3>2, <3>5 DEF JarRec, JarFine
      <3>7. jar' \in JarRec /\ jar'.entry = e /\ jar'.proved = pr
        BY <1>2, <3>3, <3>5, <3>6 DEF JarRec
      <3>8. JarFine(jar') BY <3>6, <3>7 DEF JarFine
      <3>. QED BY <3>1, <3>7, <3>8, GivesBack
    <2>2. CASE rq3[r].way # "pending"
      <3>1. pas' = pas /\ jar' = jar /\ pending' = pending BY <1>1, <2>2 DEF Succeeds
      <3>. QED BY <3>1, PoolTyped
    <2>. QED BY <2>1, <2>2
  <1>8. /\ client' \in [Client -> ClientRec]
        /\ \A c \in Client : \/ client'[c].use >= client[c].use
                             \/ client'[c].use >= client[c].use - 1 /\ r \in Users(c)
    BY <1>1, OwnRelease
  <1>9. table' \in [Host3 -> Client \union {Nil}] /\ closer' = closer BY <1>1, PoolTyped
  <1>10. x.pc \notin {"wait", "rt"} BY <1>4
  <1>. QED BY <1>4, <1>5, <1>6, <1>7, <1>8, <1>9, <1>10, RequestAndPas

LEMMA RoundTripFailsInv ==
  ASSUME PoolInv3, NEW r \in Req3, RoundTripFails(r)
  PROVE  PoolInv3'
  <1>1. /\ rq3[r].pc = "rt" /\ Release(rq3[r].client) /\ closer' = closer
        /\ table' = table \/ table' = [table EXCEPT ![HostOf(r)] = Nil]
        /\ \/ /\ rq3' = [rq3 EXCEPT ![r].pc = "get", ![r].client = Nil]
              /\ UNCHANGED <<jar, pending, pas>>
           \/ Fails(r, ErrOf(r))
    BY DEF RoundTripFails, RemoveClient
  <1>2. rq3 \in [Req3 -> RqRec] /\ rq3[r] \in RqRec /\ RqFine(r, rq3[r], pas) BY PoolTyped
  <1>3. /\ client' \in [Client -> ClientRec]
        /\ \A c \in Client : \/ client'[c].use >= client[c].use
                             \/ client'[c].use >= client[c].use - 1 /\ r \in Users(c)
    BY <1>1, OwnRelease
  <1>4. table' \in [Host3 -> Client \union {Nil}] BY <1>1, PoolTyped
  <1>5. CASE Fails(r, ErrOf(r))
    <2>1. ErrOf(r) \in {"error", "canceled", "deadline"} BY <1>2 DEF ErrOf, RqRec
    <2>. QED BY <1>1, <1>3, <1>4, <1>5, <2>1, FailsInv
  <1>6. CASE /\ rq3' = [rq3 EXCEPT ![r].pc = "get", ![r].client = Nil]
             /\ UNCHANGED <<jar, pending, pas>>
    <2>1. PICK x : x = [rq3[r] EXCEPT !.pc = "get", !.client = Nil] OBVIOUS
    <2>2. /\ x \in RqRec /\ x.pc = "get" /\ x.way = rq3[r].way
          /\ x.entry = rq3[r].entry /\ x.pas = rq3[r].pas
      BY <1>2, <2>1 DEF RqRec
    <2>3. rq3' = [rq3 EXCEPT ![r] = x] BY <1>2, <1>6, <2>1 DEF RqRec
    <2>4. RqFine(r, x, pas') BY <1>1, <1>2, <1>6, <2>2 DEF RqFine, OnPending
    <2>5. /\ pas' \in [Pas -> PasRec]
          /\ \A i \in Pas : PasFine(pas'[i]) /\ pas'[i].on = pas[i].on
          /\ \A s \in Req3 : RqFine(s, rq3[s], pas')
          /\ jar' \in JarRec /\ JarFine(jar') /\ pending' \in Pas \union {Nil}
      BY <1>6, PoolTyped
    <2>6. x.pc \notin {"wait", "rt"} BY <2>2
    <2>. QED BY <1>1, <1>3, <1>4, <2>2, <2>3, <2>4, <2>5, <2>6, RequestAndPas
  <1>. QED BY <1>1, <1>5, <1>6

-----------------------------------------------------------------------------
(* Results about the way to a connection.                                  *)

LEMMA PoolInv3Init == PoolInit \/ PoolRest => PoolInv3
  <1>. SUFFICES ASSUME PoolInit \/ PoolRest PROVE PoolInv3 OBVIOUS
  <1>1. /\ jar = [entry |-> 0, old |-> FALSE, proved |-> {}] /\ pending = Nil
        /\ pas = [p \in Pas |-> NewPas] /\ table = [h \in Host3 |-> Nil]
        /\ client = [c \in Client |-> NewClient] /\ closer = Nil
    BY DEF PoolInit, PoolRest
  <1>2. ASSUME NEW r \in Req3
        PROVE  rq3[r] \in RqRec /\ rq3[r].pc \in {"start", "svc", "done"}
    <2>1. PICK pc \in {"start", "svc", "done"} : rq3[r] = [NewRq3 EXCEPT !.pc = pc]
      BY DEF PoolInit, PoolRest, NewRq3
    <2>2. rq3[r] = [pc |-> pc, ctx |-> "live", way |-> "none", entry |-> 0, pas |-> Nil,
                    client |-> Nil, reused |-> FALSE, tries |-> 0, result |-> "none"]
      BY <2>1 DEF NewRq3
    <2>3. 0 \in Nat /\ FALSE \in BOOLEAN OBVIOUS
    <2>. QED BY <2>2, <2>3 DEF RqRec
  <1>3. rq3 = [r \in Req3 |-> rq3[r]] BY DEF PoolInit, PoolRest
  <1>4. rq3 \in [Req3 -> RqRec] BY <1>2, <1>3
  <1>5. NewPas \in PasRec /\ PasFine(NewPas) /\ NewPas.on = Nil
    BY DEF NewPas, PasRec, PasFine
  <1>6. NewClient \in ClientRec /\ NewClient.use = 0 BY DEF NewClient, ClientRec
  <1>7. jar \in JarRec /\ JarFine(jar) BY <1>1 DEF JarRec, JarFine
  <1>8. PoolTypes BY <1>1, <1>4, <1>5, <1>6, <1>7 DEF PoolTypes
  <1>9. \A p \in Pas : PasFine(pas[p]) BY <1>1, <1>5
  <1>10. \A r \in Req3 : RqFine(r, rq3[r], pas) BY <1>2 DEF RqFine, OnPending
  <1>11. ASSUME NEW c \in Client PROVE Counted(c)
    <2>1. Users(c) = {} BY <1>2 DEF Users
    <2>2. Adders(c) = {}
      <3>1. \A p \in Pas : pas[p].on = Nil BY <1>1, <1>5
      <3>. QED BY <3>1 DEF Adders, Client, Nil
    <2>3. Cardinality({}) = 0 BY FS_EmptySet
    <2>4. client[c].use = 0 BY <1>1, <1>6
    <2>. QED BY <2>1, <2>2, <2>3, <2>4 DEF Counted
  <1>. QED BY <1>7, <1>8, <1>9, <1>10, <1>11 DEF PoolInv3

LEMMA PoolInv3Next == PoolInv3 /\ [PoolNext]_poolVars => PoolInv3'
  <1>. SUFFICES ASSUME PoolInv3, [PoolNext]_poolVars PROVE PoolInv3' OBVIOUS
  <1>1. ASSUME NEW r \in Req3, RequestStep3(r) \/ CtxEnds3(r) PROVE PoolInv3'
    BY <1>1, CheckAltSvcInv, LockPasInv, GetClient3Inv, DialFailedInv, DialledInv,
       RoundTripsInv, RoundTripFailsInv, OtherProtocolInv, LookUpJarInv, AddPendingInv,
       CtxEnds3Inv DEF RequestStep3
  <1>2. ASSUME NEW p \in Pas, PendingStep(p) PROVE PoolInv3'
    BY <1>2, PendingGetClientInv, PendingReadyInv, PendingGivesUpInv DEF PendingStep
  <1>3. CASE UNCHANGED poolVars
    <2>1. UNCHANGED <<jar, pending, pas, table, client, closer, rq3>> BY <1>3 DEF poolVars
    <2>2. \A c \in Client : client'[c].use >= client[c].use BY <2>1, UseInt
    <2>. QED BY <2>1, <2>2, PoolTyped, Quiet
  <1>. QED BY <1>1, <1>2, <1>3, ConnStepInv, CloseIdleInv DEF PoolNext

\* The inductive invariant of the way to a connection: types, who holds the mutex of a
\* pending alternative, which alternatives are ready, and who is counted as a user.
THEOREM PoolInvariance3 == PoolSpec => []PoolInv3
  BY PoolInv3Init, PoolInv3Next, PTL DEF PoolSpec

\* checkAltSvc: the jar recommends only alternatives that answered a request.
THEOREM AltSvcIsProven == PoolSpec => []AltSvcProven
  <1>1. PoolInv3 => AltSvcProven
    BY PoolTyped DEF AltSvcProven, JarFine, RqFine, OnPending
  <1>. QED BY <1>1, PoolInvariance3, PTL

\* CloseIdleConnections: who closes a connection found its use count 0, and the count
\* covers every round trip and every AddConn on it.
THEOREM InUseStaysOpen3 == PoolSpec => InUseNotClosed3
  <1>1. ASSUME PoolInv3, [PoolNext]_poolVars, closer' # closer, closer' # Nil
        PROVE  Users(closer') = {} /\ Adders(closer') = {}
    <2>1. PICK h \in Host3 : CloseIdle(h)
      BY <1>1 DEF PoolNext, poolVars, RequestStep3, PendingStep, CtxEnds3, CheckAltSvc, LockPas,
         GetClient3, DialFailed, WaitCanceled, Dialled, RoundTrips, RoundTripFails,
         OtherProtocol, LookUpJar, AddPending, PendingGetClient, PendingReady, PendingGivesUp,
         DialEnds3, DialCanceled, HandshakeComplete, ConnEnds3, CloseIdleDone, EntryExpires
    <2>2. PICK c : c = closer' OBVIOUS
    <2>3. c = table[h] /\ c # Nil /\ client[c].use = 0 BY <1>1, <2>1, <2>2 DEF CloseIdle
    <2>4. c \in Client BY <1>1, <2>3, PoolTyped
    <2>5. 0 >= Cardinality(Users(c)) + Cardinality(Adders(c))
      BY <1>1, <2>3, <2>4 DEF PoolInv3, Counted
    <2>6. IsFiniteSet(Users(c)) /\ IsFiniteSet(Adders(c)) BY FiniteUsers
    <2>7. Cardinality(Users(c)) \in Nat /\ Cardinality(Adders(c)) \in Nat
      BY <2>6, FS_CardinalityType
    <2>8. Cardinality(Users(c)) = 0 /\ Cardinality(Adders(c)) = 0 BY <2>5, <2>7
    <2>9. Users(c) = {} /\ Adders(c) = {} BY <2>6, <2>8, FS_EmptySet
    <2>. QED BY <2>2, <2>9
  <1>2. PoolInv3 /\ [PoolNext]_poolVars
        => [closer' # closer /\ closer' # Nil
            => Users(closer') = {} /\ Adders(closer') = {}]_poolVars
    BY <1>1
  <1>. QED BY <1>2, PoolInvariance3, PTL DEF PoolSpec, InUseNotClosed3
=============================================================================
