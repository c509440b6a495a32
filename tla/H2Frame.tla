------------------------------- MODULE H2Frame -------------------------------
(* The HTTP/2 framer of internal/http2/frame.go: what the Write methods put  *)
(* on the wire, what ReadFrame makes of the bytes it finds there, the order  *)
(* in which it accepts frames and the header list it builds from a block.    *)
(* A byte is 0..255 and a uint32 its four bytes.  HPACK is a library: a      *)
(* fragment of a header block is the list of the fields it completes.        *)
EXTENDS Integers, Sequences, SequencesExt, FiniteSets

CONSTANTS
    MaxReadSize,  \* Framer.maxReadSize
    HeaderLimit,  \* Framer.MaxHeaderListSize
    Word          \* 2^32, the modulus of a uint32; a small power of 2 to check

Drop(p, n) == SubSeq(p, n + 1, Len(p))
Bit(cond, b) == IF cond THEN b ELSE 0
Has(flags, b) == (flags \div b) % 2 = 1

Zero4 == <<0, 0, 0, 0>>
Top(b) == b[1] >= 128                           \* the high bit of a uint32
Mask(b) == <<b[1] % 128, b[2], b[3], b[4]>>     \* v & (1<<31 - 1)
SetTop(b) == <<(b[1] % 128) + 128, b[2], b[3], b[4]>>

\* What a method refuses, it does not write.
Refused == <<>>
ConnError(code) == [err |-> "conn", code |-> code]
StreamErr(code) == [err |-> "stream", code |-> code]
ShortRead == [err |-> "eof", code |-> "none"]
Failed(r) == "err" \in DOMAIN r

------------------------------------------------------------------------------
(* Writing.                                                                  *)

validStreamIDOrZero(id) == ~Top(id)
validStreamID(id) == id # Zero4 /\ ~Top(id)

endWrite(type, flags, id, p) ==
    IF Len(p) >= 2^24 THEN Refused
    ELSE <<Len(p) \div 65536, (Len(p) \div 256) % 256, Len(p) % 256, type, flags>> \o id \o p

Zeros(n) == [i \in 1..n |-> 0]

WriteDataPadded(f) ==
    IF \/ ~validStreamID(f.id)
       \/ f.padded /\ (Len(f.pad) > 255 \/ \E i \in DOMAIN f.pad : f.pad[i] # 0)
    THEN Refused
    ELSE endWrite(0, Bit(f.end, 1) + Bit(f.padded, 8), f.id,
             (IF f.padded THEN <<Len(f.pad)>> ELSE <<>>) \o f.data \o f.pad)

WriteSettings(f) == endWrite(4, 0, Zero4, FoldLeft(LAMBDA p, s : p \o s.id \o s.val, <<>>, f.list))
WriteSettingsAck(f) == endWrite(4, 1, Zero4, <<>>)
WritePing(f) == endWrite(6, Bit(f.ack, 1), Zero4, f.data)
WriteGoAway(f) == endWrite(7, 0, Zero4, Mask(f.last) \o f.code \o f.debug)
WriteWindowUpdate(f) ==
    IF f.inc = Zero4 \/ Top(f.inc) THEN Refused ELSE endWrite(8, 0, f.id, f.inc)

\* A PriorityParam; the zero one is not written.
NoPriority == [dep |-> Zero4, excl |-> FALSE, weight |-> 0]
PriorityBytes(q) == (IF q.excl THEN SetTop(q.dep) ELSE q.dep) \o <<q.weight>>

\* A fault to check the checks with: the padding is left out.
WriteHeadersNoPad(f) == endWrite(1, Bit(f.end, 1) + Bit(f.endHeaders, 4), f.id, f.block)

WriteHeaders(f) ==
    LET prio == f.prio # NoPriority
    IN  IF ~validStreamID(f.id) \/ (prio /\ ~validStreamIDOrZero(f.prio.dep)) THEN Refused
        ELSE endWrite(1, Bit(f.end, 1) + Bit(f.endHeaders, 4) + Bit(f.pad # 0, 8) + Bit(prio, 32), f.id,
                 (IF f.pad # 0 THEN <<f.pad>> ELSE <<>>)
                 \o (IF prio THEN PriorityBytes(f.prio) ELSE <<>>) \o f.block \o Zeros(f.pad))

WritePriority(f) ==
    IF ~validStreamID(f.id) \/ ~validStreamIDOrZero(f.prio.dep) THEN Refused
    ELSE endWrite(2, 0, f.id, PriorityBytes(f.prio))

WriteRSTStream(f) == IF ~validStreamID(f.id) THEN Refused ELSE endWrite(3, 0, f.id, f.code)

WriteContinuation(f) ==
    IF ~validStreamID(f.id) THEN Refused ELSE endWrite(9, Bit(f.endHeaders, 4), f.id, f.block)

WritePushPromise(f) ==
    IF ~validStreamID(f.id) \/ ~validStreamID(f.promise) THEN Refused
    ELSE endWrite(5, Bit(f.endHeaders, 4) + Bit(f.pad # 0, 8), f.id,
             (IF f.pad # 0 THEN <<f.pad>> ELSE <<>>) \o f.promise \o f.block \o Zeros(f.pad))

WriteRawFrame(f) == endWrite(f.type, f.flags, f.id, f.data)

Write(f) ==
    CASE f.kind = "DATA"          -> WriteDataPadded(f)
      [] f.kind = "SETTINGS"      -> IF f.ack THEN WriteSettingsAck(f) ELSE WriteSettings(f)
      [] f.kind = "PING"          -> WritePing(f)
      [] f.kind = "GOAWAY"        -> WriteGoAway(f)
      [] f.kind = "WINDOW_UPDATE" -> WriteWindowUpdate(f)
      [] f.kind = "HEADERS"       -> WriteHeaders(f)
      [] f.kind = "PRIORITY"      -> WritePriority(f)
      [] f.kind = "RST_STREAM"    -> WriteRSTStream(f)
      [] f.kind = "CONTINUATION"  -> WriteContinuation(f)
      [] f.kind = "PUSH_PROMISE"  -> WritePushPromise(f)
      [] OTHER                    -> WriteRawFrame(f)

------------------------------------------------------------------------------
(* Reading.  h is the FrameHeader, p the payload.                            *)

readFrameHeader(b) ==
    [len |-> b[1] * 65536 + b[2] * 256 + b[3], type |-> b[4], flags |-> b[5],
     id |-> Mask(SubSeq(b, 6, 9))]

\* The payload behind the pad length byte, and the padding; "short" when the
\* byte is missing.
Unpad(h, p) == IF ~Has(h.flags, 8) THEN [pad |-> 0, rest |-> p, short |-> FALSE]
               ELSE IF p = <<>> THEN [pad |-> 0, rest |-> p, short |-> TRUE]
               ELSE [pad |-> p[1], rest |-> Tail(p), short |-> FALSE]
Cut(p, pad) == SubSeq(p, 1, Len(p) - pad)

parseDataFrame(h, p) ==
    LET u == Unpad(h, p)
    IN  CASE h.id = Zero4 -> ConnError("PROTOCOL")
          [] h.id # Zero4 /\ u.short -> ShortRead
          [] h.id # Zero4 /\ ~u.short /\ u.pad > Len(u.rest) -> ConnError("PROTOCOL")
          [] OTHER -> [kind |-> "DATA", id |-> h.id, end |-> Has(h.flags, 1), data |-> Cut(u.rest, u.pad)]

Setting(p, i) == [id |-> SubSeq(p, i * 6 + 1, i * 6 + 2), val |-> SubSeq(p, i * 6 + 3, i * 6 + 6)]
InitialWindowSize == <<0, 4>>

\* SettingsFrame.Value finds the first one only.
Value(p, id) ==
    LET hits == {i \in 0..(Len(p) \div 6 - 1) : Setting(p, i).id = id}
    IN  IF hits = {} THEN Zero4 ELSE Setting(p, CHOOSE i \in hits : \A j \in hits : i <= j).val

HasDuplicates(list) == \E i, j \in DOMAIN list : i # j /\ list[i].id = list[j].id

parseSettingsFrame(h, p) ==
    CASE Has(h.flags, 1) /\ h.len > 0 -> ConnError("FRAME_SIZE")
      [] ~(Has(h.flags, 1) /\ h.len > 0) /\ h.id # Zero4 -> ConnError("PROTOCOL")
      [] ~(Has(h.flags, 1) /\ h.len > 0) /\ h.id = Zero4 /\ Len(p) % 6 # 0 -> ConnError("FRAME_SIZE")
      [] h.id = Zero4 /\ Len(p) % 6 = 0 /\ ~Has(h.flags, 1) /\ Top(Value(p, InitialWindowSize)) ->
             ConnError("FLOW_CONTROL")
      [] OTHER -> [kind |-> "SETTINGS", ack |-> Has(h.flags, 1),
                   list |-> [i \in 1..(Len(p) \div 6) |-> Setting(p, i - 1)]]

parsePingFrame(h, p) ==
    IF Len(p) # 8 THEN ConnError("FRAME_SIZE")
    ELSE IF h.id # Zero4 THEN ConnError("PROTOCOL")
    ELSE [kind |-> "PING", ack |-> Has(h.flags, 1), data |-> p]

parseGoAwayFrame(h, p) ==
    IF h.id # Zero4 THEN ConnError("PROTOCOL")
    ELSE IF Len(p) < 8 THEN ConnError("FRAME_SIZE")
    ELSE [kind |-> "GOAWAY", last |-> Mask(SubSeq(p, 1, 4)), code |-> SubSeq(p, 5, 8), debug |-> Drop(p, 8)]

parseWindowUpdateFrame(h, p) ==
    IF Len(p) # 4 THEN ConnError("FRAME_SIZE")
    ELSE IF Mask(p) = Zero4
         THEN IF h.id = Zero4 THEN ConnError("PROTOCOL") ELSE StreamErr("PROTOCOL")
    ELSE [kind |-> "WINDOW_UPDATE", id |-> h.id, inc |-> Mask(p)]

Priority(p) == [dep |-> Mask(SubSeq(p, 1, 4)), excl |-> Top(p), weight |-> p[5]]

\* Padding that is too long ends the stream only: the block is not decoded.
parseHeadersFrame(h, p) ==
    LET u == Unpad(h, p)
        prio == Has(h.flags, 32)
        body == IF prio THEN Drop(u.rest, 5) ELSE u.rest
    IN  CASE h.id = Zero4 -> ConnError("PROTOCOL")
          [] h.id # Zero4 /\ (u.short \/ (prio /\ Len(u.rest) < 5)) -> ShortRead
          [] h.id # Zero4 /\ ~u.short /\ ~(prio /\ Len(u.rest) < 5) /\ Len(body) < u.pad -> StreamErr("PROTOCOL")
          [] OTHER -> [kind |-> "HEADERS", id |-> h.id, end |-> Has(h.flags, 1),
                       endHeaders |-> Has(h.flags, 4), block |-> Cut(body, u.pad),
                       prio |-> IF prio THEN Priority(u.rest) ELSE NoPriority]

parsePriorityFrame(h, p) ==
    IF h.id = Zero4 THEN ConnError("PROTOCOL")
    ELSE IF Len(p) # 5 THEN ConnError("FRAME_SIZE")
    ELSE [kind |-> "PRIORITY", id |-> h.id, prio |-> Priority(p)]

parseRSTStreamFrame(h, p) ==
    IF Len(p) # 4 THEN ConnError("FRAME_SIZE")
    ELSE IF h.id = Zero4 THEN ConnError("PROTOCOL")
    ELSE [kind |-> "RST_STREAM", id |-> h.id, code |-> p]

parseContinuationFrame(h, p) ==
    IF h.id = Zero4 THEN ConnError("PROTOCOL")
    ELSE [kind |-> "CONTINUATION", id |-> h.id, endHeaders |-> Has(h.flags, 4), block |-> p]

parsePushPromise(h, p) ==
    LET u == Unpad(h, p)
    IN  CASE h.id = Zero4 -> ConnError("PROTOCOL")
          [] h.id # Zero4 /\ (u.short \/ Len(u.rest) < 4) -> ShortRead
          [] h.id # Zero4 /\ ~u.short /\ Len(u.rest) >= 4 /\ u.pad > Len(u.rest) - 4 -> ConnError("PROTOCOL")
          [] OTHER -> [kind |-> "PUSH_PROMISE", id |-> h.id, endHeaders |-> Has(h.flags, 4),
                       promise |-> Mask(SubSeq(u.rest, 1, 4)), block |-> Cut(Drop(u.rest, 4), u.pad)]

parseUnknownFrame(h, p) == [kind |-> "UNKNOWN", type |-> h.type, flags |-> h.flags, id |-> h.id, data |-> p]

typeFrameParser(h, p) ==
    CASE h.type = 0 -> parseDataFrame(h, p)
      [] h.type = 1 -> parseHeadersFrame(h, p)
      [] h.type = 2 -> parsePriorityFrame(h, p)
      [] h.type = 3 -> parseRSTStreamFrame(h, p)
      [] h.type = 4 -> parseSettingsFrame(h, p)
      [] h.type = 5 -> parsePushPromise(h, p)
      [] h.type = 6 -> parsePingFrame(h, p)
      [] h.type = 7 -> parseGoAwayFrame(h, p)
      [] h.type = 8 -> parseWindowUpdateFrame(h, p)
      [] h.type = 9 -> parseContinuationFrame(h, p)
      [] OTHER -> parseUnknownFrame(h, p)

\* lastHeaderStream after frame f, or the error; PUSH_PROMISE opens no block.
checkFrameOrder(last, f, h) ==
    IF (last # Zero4 /\ (h.type # 9 \/ h.id # last)) \/ (last = Zero4 /\ h.type = 9)
    THEN ConnError("PROTOCOL")
    ELSE [last |-> IF h.type \notin {1, 9} THEN last ELSE IF Has(h.flags, 4) THEN Zero4 ELSE h.id]

\* One frame of the bytes b, with lastHeaderStream before and after.
ReadFrame(last, b) ==
    IF Len(b) < 9 THEN ShortRead
    ELSE LET h == readFrameHeader(b)
             f == typeFrameParser(h, SubSeq(b, 10, 9 + h.len))
             o == checkFrameOrder(last, f, h)
         IN  IF h.len > MaxReadSize THEN [err |-> "too large", code |-> "none"]
             ELSE IF Len(b) < 9 + h.len THEN ShortRead
             ELSE IF Failed(f) THEN f
             ELSE IF Failed(o) THEN o
             ELSE [frame |-> f, last |-> o.last, rest |-> Drop(b, 9 + h.len)]

\* All frames of the bytes, as the read loop gets them: a stream error lets it
\* go on, anything else ends it.
ReadFrames(b) ==
    LET Step(s, i) ==
            IF s.stop \/ s.rest = <<>> THEN s
            ELSE LET r == ReadFrame(s.last, s.rest)
                 IN  CASE ~Failed(r) -> [frames |-> Append(s.frames, r.frame), last |-> r.last,
                                         rest |-> r.rest, stop |-> FALSE]
                       [] Failed(r) /\ r.err = "stream" ->
                              [s EXCEPT !.frames = Append(@, r), !.rest = Drop(@, 9 + readFrameHeader(@).len)]
                       [] OTHER -> [s EXCEPT !.frames = Append(@, r), !.stop = TRUE]
    IN  FoldLeft(Step, [frames |-> <<>>, last |-> Zero4, rest |-> b, stop |-> FALSE],
                 [i \in 1..(Len(b) \div 9 + 1) |-> i]).frames

------------------------------------------------------------------------------
(* The header list (readMetaFrame).  A field has a name, whether name and    *)
(* value are valid, and its size; a fragment the fields the decoder completes *)
(* with it, its length, and whether it ends within a field.                  *)

RequestPseudo == {":method", ":path", ":scheme", ":authority"}
IsPseudo(f) == f.name \in RequestPseudo \union {":status", ":other"}

PseudoFields(fs) == SelectInSeq(fs, LAMBDA f : ~IsPseudo(f))
Pseudos(fs) == IF PseudoFields(fs) = 0 THEN fs ELSE SubSeq(fs, 1, PseudoFields(fs) - 1)

checkPseudos(fs) ==
    LET pf == Pseudos(fs)
        names == {pf[i].name : i \in DOMAIN pf}
    IN  /\ names \subseteq RequestPseudo \union {":status"}
        /\ Cardinality(names) = Len(pf)
        /\ ~(names \intersect RequestPseudo # {} /\ ":status" \in names)

\* rawEmitFunc: nothing is emitted once a field is invalid or does not fit.
rawEmit(s, f) ==
    LET saw == s.saw \/ ~IsPseudo(f)
        bad == ~f.okValue \/ (IsPseudo(f) /\ s.saw) \/ (~IsPseudo(f) /\ ~f.okName)
    IN  IF ~s.emit THEN s
        ELSE IF bad THEN [s EXCEPT !.saw = saw, !.invalid = TRUE, !.emit = FALSE]
        ELSE IF f.size > s.remain THEN [s EXCEPT !.saw = saw, !.truncated = TRUE, !.remain = 0, !.emit = FALSE]
        ELSE [s EXCEPT !.saw = saw, !.remain = @ - f.size, !.fields = Append(@, f)]

readMetaFrame(frags) ==
    LET Fragment(s, g) ==
            IF s.err # "none" THEN s
            ELSE IF g.len > (2 * s.remain) % Word \/ s.invalid THEN [s EXCEPT !.err = "conn"]
            ELSE IF g.corrupt THEN [s EXCEPT !.err = "compression"]
            ELSE FoldLeft(rawEmit, [s EXCEPT !.cut = g.cut], g.fields)
        s == FoldLeft(Fragment, [fields |-> <<>>, remain |-> HeaderLimit, saw |-> FALSE, invalid |-> FALSE,
                                 truncated |-> FALSE, emit |-> TRUE, cut |-> FALSE, err |-> "none"], frags)
    IN  [fields |-> s.fields, truncated |-> s.truncated,
         err |-> IF s.err # "none" THEN s.err
                 ELSE IF s.cut THEN "compression"
                 ELSE IF s.invalid \/ ~checkPseudos(s.fields) THEN "stream"
                 ELSE "none"]

------------------------------------------------------------------------------
(* What the framer promises.                                                 *)

\* The frame a reader should see when f is written.
AsRead(f) == [k \in DOMAIN f \ {"pad", "padded"} |-> f[k]]

\* Every frame the client writes is the one frame its reader finds in the
\* bytes, whatever padding, priority or length it was written with, and what is
\* refused leaves no byte behind (Framer.Write*, Framer.ReadFrame).
FrameReadsBack(f) ==
    Write(f) # Refused =>
        LET r == ReadFrame(IF f.kind = "CONTINUATION" THEN f.id ELSE Zero4, Write(f))
        IN  ~Failed(r) /\ r.rest = <<>> /\ r.frame = AsRead(f)

\* The frames of a header block are read without any other frame in between,
\* and on one stream (checkFrameOrder).
Unbroken(fs) ==
    LET Open(i) == ~Failed(fs[i]) /\ fs[i].kind \in {"HEADERS", "CONTINUATION"} /\ ~fs[i].endHeaders
    IN  \A i \in 1..(Len(fs) - 1) :
            Open(i) => Failed(fs[i + 1]) \/ (fs[i + 1].kind = "CONTINUATION" /\ fs[i + 1].id = fs[i].id)
BlocksWhole(b) == Unbroken(ReadFrames(b))

\* A header list is accepted whole exactly when it is well formed: pseudo
\* headers first, each of them known and given once, of one kind of message,
\* and every name and value valid (readMetaFrame).
WellFormed(fs) ==
    /\ \A i, j \in DOMAIN fs : i < j /\ IsPseudo(fs[j]) => IsPseudo(fs[i])
    /\ \A i \in DOMAIN fs : fs[i].okValue /\ (fs[i].okName \/ IsPseudo(fs[i])) /\ fs[i].name # ":other"
    /\ \A i, j \in DOMAIN fs : i # j /\ IsPseudo(fs[i]) => fs[i].name # fs[j].name
    /\ \A i, j \in DOMAIN fs : fs[i].name = ":status" => fs[j].name \notin RequestPseudo

HeaderListJudged(frags) ==
    LET r == readMetaFrame(frags)
        all == FoldLeft(LAMBDA fs, g : fs \o g.fields, <<>>, frags)
    IN  r.err = "none" => IF r.truncated THEN IsPrefix(r.fields, all) /\ WellFormed(r.fields)
                                         ELSE r.fields = all /\ WellFormed(all)
==============================================================================
