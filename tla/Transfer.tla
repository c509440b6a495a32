------------------------------- MODULE Transfer -------------------------------
(* The body of an HTTP/1 message on the wire (transfer.go, internal/chunked.go) *)
(* transferWriter decides how a body is delimited and writes it;               *)
(* readTransfer decides where a body ends, and body and chunkedReader read it  *)
(* out of the connection's buffer, piece by piece, while the bytes arrive.     *)
(* A byte is a one-character string.                                           *)
EXTENDS Integers, Sequences, SequencesExt, FiniteSets

CONSTANTS
    Messages,    \* what may stand on the wire, see MC
    ReadSizes,   \* the sizes of the buffers a caller reads into
    MaxLine,     \* maxLineLength of a chunk header
    MaxHex       \* digits of a chunk length, 16 in the code

CR == "\r"
LF == "\n"
Hex == <<"0", "1", "2", "3", "4", "5", "6", "7", "8", "9", "a", "b", "c", "d", "e", "f">>
Digit(n) == Hex[n + 1]
HexVal(c) == SelectInSeq(Hex, LAMBDA h : h = c) - 1

------------------------------------------------------------------------------
(* Writing.  A request has a method, a body (the pieces its reader yields, or *)
(* nil), a length (0 when not set) and perhaps a trailer.                     *)

Content(rq) == FlattenSeq(rq.body)
outgoingLength(rq) == IF rq.nil THEN 0 ELSE IF rq.clen # 0 THEN rq.clen ELSE 0 - 1
usuallyLacksBody(method) == method \in {"GET", "HEAD", "DELETE", "OPTIONS", "PROPFIND", "SEARCH"}

\* probeRequestBody waits a while for the first byte: only a reader that ends
\* within that time is known to be empty.
ProbedEmpty(rq) == rq.timely /\ Content(rq) = <<>>

shouldSendChunkedRequestBody(rq) ==
    /\ outgoingLength(rq) < 0 /\ rq.method # "CONNECT"
    /\ usuallyLacksBody(rq.method) => ~ProbedEmpty(rq)

newTransferWriter(rq) ==
    LET probed == outgoingLength(rq) < 0 /\ rq.method # "CONNECT" /\ usuallyLacksBody(rq.method) /\ ProbedEmpty(rq)
        nil == rq.nil \/ probed
        chunked == ~nil /\ shouldSendChunkedRequestBody(rq)
    IN  [err |-> rq.nil /\ rq.clen # 0, nil |-> nil, chunked |-> chunked,
         clen |-> IF chunked THEN 0 - 1 ELSE IF nil THEN 0 ELSE outgoingLength(rq),
         trailer |-> chunked /\ rq.trailer]

shouldSendContentLength(t, method) ==
    ~t.chunked /\ (t.clen > 0 \/ (t.clen = 0 /\ method \in {"POST", "PUT", "PATCH"}))

\* The framing headers transferWriter.writeHeader adds.
writeHeader(t, method) ==
    [te |-> IF ~shouldSendContentLength(t, method) /\ t.chunked THEN <<"chunked">> ELSE <<>>,
     cl |-> IF shouldSendContentLength(t, method) THEN <<t.clen>> ELSE <<>>]

\* Faulty variant: an empty piece is written as a chunk of no bytes.
ChunkEvenEmpty(p) == <<Digit(Len(p)), CR, LF>> \o p \o <<CR, LF>>

\* chunkedWriter.Write and Close.
Chunk(p) == IF p = <<>> THEN <<>> ELSE <<Digit(Len(p)), CR, LF>> \o p \o <<CR, LF>>
LastChunk == <<"0", CR, LF>>

writeBody(t, rq) ==
    LET all == Content(rq)
        bytes == CASE t.nil -> <<>>
                   [] ~t.nil /\ t.chunked ->
                          FlattenSeq([i \in DOMAIN rq.body |-> Chunk(rq.body[i])]) \o LastChunk
                          \o (IF t.trailer THEN <<"T", CR, LF>> ELSE <<>>) \o <<CR, LF>>
                   [] ~t.nil /\ ~t.chunked /\ t.clen = 0 - 1 -> all
                   [] OTHER -> SubSeq(all, 1, IF t.clen < Len(all) THEN t.clen ELSE Len(all))
    IN  [bytes |-> bytes, err |-> ~t.chunked /\ t.clen # 0 - 1 /\ t.clen # (IF t.nil THEN 0 ELSE Len(all))]

------------------------------------------------------------------------------
(* Reading: where the body of a response ends.                                *)

bodyAllowedForStatus(status) == ~(status \in 100..199 \/ status \in {204, 304})

\* The first Content-Length: -1 for none, -2 for one that is no number.
parseContentLength(h) == IF h.cl = <<>> THEN 0 - 1 ELSE IF h.cl[1] = h.badLength THEN 0 - 2 ELSE h.cl[1]

\* An HTTP/1.0 message has no transfer encodings.
parseTransferEncoding(h) ==
    CASE h.te = <<>> \/ h.minor = 0 -> [chunked |-> FALSE, err |-> FALSE]
      [] OTHER -> [chunked |-> h.te = <<"chunked">>, err |-> h.te # <<"chunked">>]

fixLength(h, chunked) ==
    IF \/ \E i, j \in DOMAIN h.cl : h.cl[i] # h.cl[j]
       \/ parseContentLength(h) = 0 - 2
    THEN [err |-> TRUE, n |-> 0]
    ELSE [err |-> FALSE,
          n |-> IF h.method = "HEAD" \/ ~bodyAllowedForStatus(h.status) THEN 0
                ELSE IF chunked THEN 0 - 1
                ELSE parseContentLength(h)]

shouldClose(h) == IF h.minor = 0 THEN "close" \in h.conn \/ "keep-alive" \notin h.conn ELSE "close" \in h.conn

readTransfer(h) ==
    LET te == parseTransferEncoding(h)
        len == fixLength(h, te.chunked)
        close == shouldClose(h) \/ (len.n = 0 - 1 /\ ~te.chunked /\ bodyAllowedForStatus(h.status))
        none == h.method = "HEAD" \/ ~bodyAllowedForStatus(h.status)
    IN  [err |-> te.err \/ len.err, close |-> close,
         kind |-> CASE te.chunked -> IF none THEN "none" ELSE "chunked"
                    [] ~te.chunked /\ len.n = 0 -> "none"
                    [] ~te.chunked /\ len.n > 0 -> "limited"
                    [] OTHER -> IF close THEN "raw" ELSE "none",
         n |-> len.n]

------------------------------------------------------------------------------
(* Reading the body.                                                          *)

VARIABLES
    msg,    \* what stands on the wire: [head, wire, body, len]
    src,    \* readTransfer's verdict, with the bytes left of a LimitedReader
    pos,    \* bytes read out of the connection's buffer
    avail,  \* bytes that have arrived
    cr,     \* chunkedReader: n, err, checkEnd
    call,   \* the Read under way: on, drain (Close), room, n
    bd,     \* body: sawEOF, closed, hdr
    got,    \* the bytes the caller has read
    res     \* how its last call ended, and whether any failed

bodyVars == <<msg, src, pos, avail, cr, call, bd, got, res>>

NoCall == [on |-> FALSE, drain |-> FALSE, room |-> 0, n |-> 0]

BodyInit ==
    /\ msg \in Messages
    /\ src = readTransfer(msg.head)
    /\ pos = 0 /\ avail = 0
    /\ cr = [n |-> 0, err |-> "nil", checkEnd |-> FALSE]
    /\ call = NoCall
    /\ bd = [sawEOF |-> src.kind = "none", closed |-> src.err, hdr |-> src.kind = "chunked"]
    /\ got = <<>>
    /\ res = [last |-> "nil", failed |-> src.err]

Wire == msg.wire
Ahead(n) == SubSeq(Wire, pos + 1, IF pos + n < Len(Wire) THEN pos + n ELSE Len(Wire))
Min2(a, b) == IF a < b THEN a ELSE b
Max2(a, b) == IF a > b THEN a ELSE b
Consume(n) == pos' = pos + n /\ avail' = Max2(avail, pos + n)

\* The server's bytes, in the portions the network makes of them.
Arrive == /\ ~bd.closed
          /\ \E a \in {avail + 1, Len(Wire)} : a > avail /\ a <= Len(Wire) /\ avail' = a
          /\ UNCHANGED <<msg, src, pos, cr, call, bd, got, res>>

\* body.Read
ReadCall == /\ ~call.on /\ ~bd.closed /\ res.last = "nil"
            /\ IF bd.sawEOF THEN res' = [res EXCEPT !.last = "EOF"] /\ UNCHANGED call
               ELSE \E k \in ReadSizes : call' = [NoCall EXCEPT !.on = TRUE, !.room = k] /\ UNCHANGED res
            /\ UNCHANGED <<msg, src, pos, avail, cr, bd, got>>

\* body.Close: reads on to the end, unless the connection is closed anyway.
CloseCall ==
    /\ ~call.on /\ ~bd.closed
    /\ IF bd.sawEOF \/ (~bd.hdr /\ src.close)
       THEN bd' = [bd EXCEPT !.closed = TRUE] /\ UNCHANGED call
       ELSE call' = [NoCall EXCEPT !.on = TRUE, !.drain = TRUE, !.room = 4] /\ UNCHANGED bd
    /\ UNCHANGED <<msg, src, pos, avail, cr, got, res>>

\* readLocked's end: n bytes and the error of the source become the caller's.
\* A drain goes on until there is an error.
Ends(n, err, b) ==
    /\ bd' = IF call.drain /\ err # "nil" THEN [b EXCEPT !.closed = TRUE] ELSE b
    /\ call' = IF call.drain /\ err = "nil" THEN [call EXCEPT !.n = 0, !.room = 4] ELSE NoCall
    /\ res' = IF call.drain THEN [res EXCEPT !.failed = @ \/ err \notin {"nil", "EOF"}]
              ELSE [last |-> err, failed |-> res.failed \/ err \notin {"nil", "EOF"}]

Keep(n) == got' = IF call.drain THEN got ELSE got \o Ahead(n)

\* chunkedReader.beginChunk: the line up to its line feed, without extension.
ChunkLine(l) == LET s == SubSeq(l, 1, Len(l) - (IF Len(l) > 0 /\ l[Len(l)] = CR THEN 1 ELSE 0))
                    semi == SelectInSeq(s, LAMBDA c : c = ";")
                IN  IF semi = 0 THEN s ELSE SubSeq(s, 1, semi - 1)

\* parseHexUint of a line; -1 is an error, and no digits are 0.
parseHexUint(v) ==
    IF Len(v) > MaxHex \/ \E i \in DOMAIN v : HexVal(v[i]) < 0 THEN 0 - 1
    ELSE FoldLeft(LAMBDA n, c : n * 16 + HexVal(c), 0, v)

BeginChunk ==
    LET lf == SelectInSeq(Ahead(Len(Wire)), LAMBDA c : c = LF)
        n == parseHexUint(ChunkLine(Ahead(lf - 1)))
    IN  CASE lf = 0 -> cr' = [cr EXCEPT !.err = "unexpected EOF"] /\ Consume(Len(Wire) - pos)
          [] lf # 0 /\ lf >= MaxLine -> cr' = [cr EXCEPT !.err = "line too long"] /\ Consume(lf)
          [] lf # 0 /\ lf < MaxLine /\ n < 0 -> cr' = [cr EXCEPT !.err = "bad length"] /\ Consume(lf)
          [] OTHER -> cr' = [cr EXCEPT !.n = n, !.err = IF n = 0 THEN "EOF" ELSE "nil"] /\ Consume(lf)

HeaderBuffered == \E i \in (pos + 1)..avail : Wire[i] = LF

\* One turn of the loop of chunkedReader.Read; Break returns what there is.
Break == \/ cr.err # "nil"
         \/ cr.checkEnd /\ call.n > 0 /\ avail - pos < 2
         \/ ~cr.checkEnd /\ cr.n = 0 /\ call.n > 0 /\ ~HeaderBuffered
         \/ ~cr.checkEnd /\ cr.n > 0 /\ call.room = 0

ChunkEnd == /\ call.on /\ src.kind = "chunked" /\ ~Break /\ cr.checkEnd
            /\ cr' = IF pos + 2 > Len(Wire) THEN [cr EXCEPT !.err = "unexpected EOF"]
                     ELSE IF Ahead(2) = <<CR, LF>> THEN [cr EXCEPT !.checkEnd = FALSE]
                     ELSE [cr EXCEPT !.err = "malformed"]
            /\ Consume(Len(Ahead(2)))
            /\ UNCHANGED <<msg, src, call, bd, got, res>>

ChunkStart == /\ call.on /\ src.kind = "chunked" /\ ~Break /\ ~cr.checkEnd /\ cr.n = 0
              /\ BeginChunk
              /\ UNCHANGED <<msg, src, call, bd, got, res>>

ChunkData == /\ call.on /\ src.kind = "chunked" /\ ~Break /\ ~cr.checkEnd /\ cr.n > 0
             /\ LET n == Min2(Min2(call.room, cr.n), Max2(1, avail - pos))
                IN  IF pos = Len(Wire)
                    THEN cr' = [cr EXCEPT !.err = "unexpected EOF"] /\ UNCHANGED <<pos, avail, call, got>>
                    ELSE /\ cr' = [cr EXCEPT !.n = @ - n, !.checkEnd = cr.n = n]
                         /\ Keep(n) /\ Consume(n)
                         /\ call' = [call EXCEPT !.room = @ - n, !.n = @ + n]
             /\ UNCHANGED <<msg, src, bd, res>>

\* body.readTrailer behind the last chunk: nothing, or lines up to an empty one.
TrailerEnd ==
    LET two == {i \in (pos + 4)..Len(Wire) : SubSeq(Wire, i - 3, i) = <<CR, LF, CR, LF>>}
    IN  CASE Ahead(2) = <<CR, LF>> -> [n |-> 2, err |-> "EOF"]
          [] Len(Ahead(2)) < 2 -> [n |-> 0, err |-> "trailer EOF"]
          [] Len(Ahead(2)) = 2 /\ Ahead(2) # <<CR, LF>> /\ two = {} -> [n |-> 0, err |-> "long trailer"]
          [] OTHER -> [n |-> (CHOOSE i \in two : \A j \in two : i <= j) - pos, err |-> "EOF"]

ChunkReturn ==
    /\ call.on /\ src.kind = "chunked" /\ Break
    /\ IF cr.err # "EOF" THEN Ends(call.n, cr.err, bd) /\ UNCHANGED <<pos, avail>>
       ELSE LET t == IF bd.hdr THEN TrailerEnd ELSE [n |-> 0, err |-> "EOF"]
            IN  /\ Consume(t.n)
                /\ Ends(call.n, t.err, [bd EXCEPT !.hdr = FALSE, !.sawEOF = t.err = "EOF", !.closed = t.err # "EOF"])
    /\ UNCHANGED <<msg, src, cr, got>>

\* A LimitedReader, and a body that ends with the connection.
PlainRead ==
    /\ call.on /\ src.kind \in {"limited", "raw"}
    /\ LET room == IF src.kind = "limited" THEN Min2(call.room, src.n) ELSE call.room
           n == Min2(Min2(room, Max2(1, avail - pos)), Len(Wire) - pos)
           left == src.n - n
       IN  CASE pos = Len(Wire) \/ room = 0 ->
                    /\ Ends(0, IF src.kind = "limited" /\ src.n > 0 THEN "unexpected EOF" ELSE "EOF",
                            [bd EXCEPT !.sawEOF = TRUE])
                    /\ UNCHANGED <<src, pos, avail, got>>
             [] OTHER ->
                    /\ Keep(n) /\ Consume(n)
                    /\ src' = IF src.kind = "limited" THEN [src EXCEPT !.n = left] ELSE src
                    /\ IF src.kind = "limited" /\ left = 0 THEN Ends(n, "EOF", [bd EXCEPT !.sawEOF = TRUE])
                       ELSE Ends(n, "nil", bd)
    /\ UNCHANGED <<msg, cr>>

BodyNext == \/ Arrive \/ ReadCall \/ CloseCall \/ ChunkEnd \/ ChunkStart \/ ChunkData \/ ChunkReturn \/ PlainRead

------------------------------------------------------------------------------
\* A caller that reads to the end without an error has exactly the bytes that
\* were sent as the body, and the connection stands where the next message
\* begins; also after an early Close, unless the connection is to be closed.
\* A body that was cut short is never taken for a whole one
\* (body.readLocked, chunkedReader.Read, readTransfer, transferWriter.writeBody).
BodyDelivered ==
    /\ res.last = "EOF" /\ ~res.failed => got = msg.body /\ pos = msg.len
    /\ bd.closed /\ ~res.failed /\ ~src.close => pos = msg.len
    /\ ~res.failed => IsPrefix(got, msg.body)
==============================================================================
