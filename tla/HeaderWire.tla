------------------------------ MODULE HeaderWire ------------------------------
(* Headers on the wire: QUIC's variable length integers and the HTTP/3 frames *)
(* built from them (internal/quic-go/quicvarint, internal/http3/frames.go),   *)
(* the header fields of a request as HTTP/2 and HTTP/3 encode them and as     *)
(* HTTP/3 reads them (request_writer.go, headers.go), the order a caller asks *)
(* for (internal/header/sort.go), the header lines of HTTP/1                  *)
(* (textproto_reader.go) and the Alt-Svc header (internal/altsvcutil).        *)
EXTENDS Integers, Sequences, SequencesExt, FiniteSets

CONSTANTS
    BufSize     \* the size of the bufio.Reader of an HTTP/1 connection

From(p, i) == SubSeq(p, i, Len(p))
Bad == [err |-> TRUE]
IsBad(r) == "err" \in DOMAIN r

------------------------------------------------------------------------------
(* Variable length integers.  A uint64 is its eight bytes.                   *)

NoBytes(v, n) == \A i \in 1..n : v[i] = 0

VarLen(v) == IF NoBytes(v, 7) /\ v[8] < 64 THEN 1
             ELSE IF NoBytes(v, 6) /\ v[7] < 64 THEN 2
             ELSE IF NoBytes(v, 4) /\ v[5] < 64 THEN 4
             ELSE 8

Tag(l) == CASE l = 1 -> 0 [] l = 2 -> 64 [] l = 4 -> 128 [] l = 8 -> 192

VarAppend(v) ==
    LET b == SubSeq(v, 9 - VarLen(v), 8)
    IN  [b EXCEPT ![1] = @ + Tag(VarLen(v))]

VarRead(b) ==
    IF b = <<>> THEN Bad
    ELSE LET l == 2 ^ (b[1] \div 64)
         IN  IF Len(b) < l THEN Bad
             ELSE [val |-> [i \in 1..(8 - l) |-> 0] \o <<b[1] % 64>> \o SubSeq(b, 2, l),
                   rest |-> From(b, l + 1)]

\* AppendWithLen pads to the length the caller wants.
VarAppendWithLen(v, length) ==
    LET l == VarLen(v)
    IN  IF l = length THEN VarAppend(v)
        ELSE <<Tag(length)>> \o [i \in 1..(length - l - 1) |-> 0] \o SubSeq(v, 9 - l, 8)

------------------------------------------------------------------------------
(* The SETTINGS frame of HTTP/3; other is a function on the unknown settings. *)

U(n) == <<0, 0, 0, 0, 0, 0, 0, n>>
settingExtendedConnect == U(8)
settingDatagram == U(51)

SettingsAppend(f) ==
    LET ids == SetToSeq(DOMAIN f.other)
        payload == (IF f.datagram THEN VarAppend(settingDatagram) \o VarAppend(U(1)) ELSE <<>>)
                   \o (IF f.connect THEN VarAppend(settingExtendedConnect) \o VarAppend(U(1)) ELSE <<>>)
                   \o FlattenSeq([i \in DOMAIN ids |-> VarAppend(ids[i]) \o VarAppend(f.other[ids[i]])])
        len == FoldLeft(LAMBDA n, i : n + VarLen(i) + VarLen(f.other[i]), 0, ids)
               + (IF f.datagram THEN 2 ELSE 0) + (IF f.connect THEN 2 ELSE 0)
    IN  VarAppend(U(4)) \o VarAppend(U(len)) \o payload

\* The payload, pair by pair; a setting may be given once, a flag is 0 or 1.
parseSettings(b) ==
    LET Pair(s, i) ==
            IF IsBad(s) \/ s.rest = <<>> THEN s
            ELSE LET id == VarRead(s.rest)
                     val == VarRead(id.rest)
                 IN  IF IsBad(id) \/ (~IsBad(id) /\ IsBad(val)) THEN Bad
                     ELSE IF id.val \in s.seen THEN Bad
                     ELSE IF id.val \in {settingExtendedConnect, settingDatagram} /\ val.val \notin {U(0), U(1)}
                          THEN Bad
                     ELSE [rest |-> val.rest, seen |-> s.seen \union {id.val},
                           connect |-> IF id.val = settingExtendedConnect THEN val.val = U(1) ELSE s.connect,
                           datagram |-> IF id.val = settingDatagram THEN val.val = U(1) ELSE s.datagram,
                           other |-> IF id.val \in {settingExtendedConnect, settingDatagram} THEN s.other
                                     ELSE [k \in DOMAIN s.other \union {id.val} |->
                                              IF k = id.val THEN val.val ELSE s.other[k]]]
    IN  FoldLeft(Pair, [rest |-> b, seen |-> {}, connect |-> FALSE, datagram |-> FALSE,
                        other |-> [k \in {} |-> 0]], b)

\* The frame as the control stream reads it: type, length, payload.
ReadSettings(b) ==
    LET type == VarRead(b)
        len == VarRead(type.rest)
        n == len.val[8] + 256 * len.val[7]
    IN  IF n > Len(len.rest) THEN Bad ELSE parseSettings(SubSeq(len.rest, 1, n))

\* What is sent as settings is what a peer with the same code makes of it, and
\* every integer is read back with nothing left over (settingsFrame.Append,
\* parseSettingsFrame, quicvarint.Append and Read).
SettingsReadBack(f) ==
    LET r == ReadSettings(SettingsAppend(f))
    IN  ~IsBad(r) /\ r.connect = f.connect /\ r.datagram = f.datagram /\ r.other = f.other

VarReadsBack(v) ==
    \A b \in {VarAppend(v)} \union {VarAppendWithLen(v, l) : l \in {k \in {1, 2, 4, 8} : k >= VarLen(v)}} :
        VarRead(b).val = v /\ VarRead(b).rest = <<>>

------------------------------------------------------------------------------
(* A request's header fields.  rq.header is the map in the order a range     *)
(* statement yields it: <<[key, vals]>>; order and pseudo are the orders the *)
(* caller asked for (HeaderOderKey, PseudoHeaderOderKey).                    *)

Excluded == {"host", "content-length", "connection", "proxy-connection",
             "transfer-encoding", "upgrade", "keep-alive"}

\* sort.Sort is an insertion sort for at most 12 elements; a key that is not
\* in the order is ranked by where it happens to stand.
Rank(kvs, order, i) ==
    LET hits == {k \in DOMAIN order : order[k] = kvs[i].key}
    IN  IF hits = {} THEN i ELSE CHOOSE k \in hits : \A m \in hits : k >= m

Less(kvs, order, i, j) == Rank(kvs, order, i) < Rank(kvs, order, j)

Swap(s, i) == [s EXCEPT ![i] = s[i - 1], ![i - 1] = s[i]]

SortKeyValues(kvs, order) ==
    LET Sink(s, j) == IF s.stop \/ ~Less(s.kvs, order, j, j - 1) THEN [s EXCEPT !.stop = TRUE]
                      ELSE [s EXCEPT !.kvs = Swap(@, j)]
        Insert(s, i) == FoldLeft(Sink, [kvs |-> s, stop |-> FALSE], [j \in 1..(i - 1) |-> i + 1 - j]).kvs
    IN  FoldLeft(Insert, kvs, [i \in 1..(Len(kvs) - 1) |-> i + 1])

\* The keys of the order come in that order, whatever else is among them.
ListedInOrder(kvs, order) ==
    LET s == SortKeyValues(kvs, order)
        At(k) == CHOOSE i \in DOMAIN order : order[i] = k
        Listed(i) == \E k \in DOMAIN order : order[k] = s[i].key
    IN  /\ \A i, j \in DOMAIN s : i < j /\ Listed(i) /\ Listed(j) => At(s[i].key) <= At(s[j].key)
        /\ \A kv \in ToSet(kvs) : Contains(s, kv)

Pairs(kvs) == FlattenSeq([i \in DOMAIN kvs |-> [v \in DOMAIN kvs[i].vals |->
                                                  [key |-> kvs[i].key, val |-> kvs[i].vals[v]]]])
Ordered(kvs, order) == Pairs(IF order = <<>> THEN kvs ELSE SortKeyValues(kvs, order))
KV(k, v) == [key |-> k, vals |-> <<v>>]
When(cond, kvs) == IF cond THEN kvs ELSE <<>>

shouldSendReqContentLength(method, n) == n > 0 \/ (n = 0 /\ method \in {"POST", "PUT", "PATCH"})
actualContentLength(rq) == IF ~rq.body THEN 0 ELSE IF rq.clen # 0 THEN rq.clen ELSE 0 - 1
isExtendedConnect(rq) == rq.method = "CONNECT" /\ rq.proto \notin {"", "HTTP/1.1"}

\* What goes out of the map: a User-Agent at most once, and none for an empty
\* one; HTTP/2 splits a cookie at its semicolons (a value is a list of crumbs).
FieldsOf(rq, splitCookies) ==
    FlattenSeq([i \in DOMAIN rq.header |->
        LET kv == rq.header[i]
        IN  CASE kv.key \in Excluded -> <<>>
              [] kv.key = "user-agent" ->
                     When(kv.vals # <<>> /\ kv.vals[1] # "", <<[kv EXCEPT !.vals = <<kv.vals[1]>>]>>)
              [] kv.key = "cookie" /\ splitCookies -> <<[kv EXCEPT !.vals = FlattenSeq(@)]>>
              [] OTHER -> <<kv>>])
DidUA(rq) == \E i \in DOMAIN rq.header : rq.header[i].key = "user-agent"

Regular(rq, fields, n) ==
    fields \o When(shouldSendReqContentLength(rq.method, n), <<KV("content-length", n)>>)
           \o When(rq.gzip, <<KV("accept-encoding", "gzip")>>)
           \o When(~DidUA(rq), <<KV("user-agent", "default")>>)

Invalid(rq) ==
    \/ ~rq.okHost
    \/ rq.method # "CONNECT" /\ ~rq.okPath
    \/ ~rq.okHeaders

\* ClientConn.encodeHeaders; limit is the peer's MAX_HEADER_LIST_SIZE and one
\* field counts as one.
encodeHeaders2(rq, limit) ==
    LET pseudo == <<KV(":authority", rq.host), KV(":method", rq.method)>>
                  \o When(rq.method # "CONNECT", <<KV(":path", rq.path), KV(":scheme", "https")>>)
        out == Ordered(pseudo, rq.pseudo)
               \o Ordered(When(rq.trailer, <<KV("trailer", "t")>>)
                              \o Regular(rq, FieldsOf(rq, TRUE), actualContentLength(rq)), rq.order)
    IN  IF Invalid(rq) \/ Len(out) > limit THEN Bad ELSE [fields |-> out]

\* requestWriter.encodeHeaders of HTTP/3.  No limit; each value its own pair.
encodeHeaders3(rq) ==
    LET ext == isExtendedConnect(rq)
        pseudo == <<KV(":authority", rq.host), KV(":method", rq.method)>>
                  \o When(rq.method # "CONNECT" \/ ext, <<KV(":path", rq.path), KV(":scheme", "https")>>)
                  \o When(ext, <<KV(":protocol", rq.proto)>>)
        fields == FieldsOf(rq, FALSE)
        single == FlattenSeq([i \in DOMAIN fields |->
                      [v \in DOMAIN fields[i].vals |-> KV(fields[i].key, fields[i].vals[v])]])
    IN  IF ~rq.okHost \/ ((rq.method # "CONNECT" \/ ext) /\ ~rq.okPath) \/ ~rq.okHeaders THEN Bad
        ELSE [fields |-> Ordered(pseudo, rq.pseudo) \o Ordered(Regular(rq, single, actualContentLength(rq)), rq.order)]

------------------------------------------------------------------------------
(* The fields as HTTP/3 reads them.                                          *)

RequestFields == {":path", ":method", ":authority", ":protocol", ":scheme"}
Pseudo3 == RequestFields \union {":status", ":unknown"}
Connection3 == {"connection", "keep-alive", "proxy-connection", "transfer-encoding", "upgrade"}

parseHeaders(fs, isRequest) ==
    LET At(k) == {i \in DOMAIN fs : fs[i].key = k}
        cls == {fs[i].val : i \in At("content-length")}
        Given(k) == IF At(k) = {} THEN "" ELSE fs[CHOOSE i \in At(k) : \A j \in At(k) : i >= j].val
    IN  IF \/ \E i \in DOMAIN fs : fs[i].key \in Connection3 \union {":unknown", "bad-value"}
           \/ \E i, j \in DOMAIN fs : i < j /\ fs[i].key \notin Pseudo3 /\ fs[j].key \in Pseudo3
           \/ \E i \in DOMAIN fs : fs[i].key \in Pseudo3 /\ (isRequest # (fs[i].key \in RequestFields))
           \/ \E i \in At("te") : fs[i].val # "trailers"
           \/ Cardinality(cls) > 1
        THEN Bad
        ELSE [method |-> Given(":method"), path |-> Given(":path"), authority |-> Given(":authority"),
              protocol |-> Given(":protocol"), scheme |-> Given(":scheme"), status |-> Given(":status"),
              clen |-> IF cls = {} THEN 0 - 1 ELSE CHOOSE c \in cls : TRUE,
              header |-> SelectSeq(fs, LAMBDA f : f.key \notin Pseudo3 \union {"content-length"})]

requestFromHeaders(fs) ==
    LET h == parseHeaders(fs, TRUE)
        connect == h.method = "CONNECT"
        ext == connect /\ h.protocol # ""
    IN  IF \/ IsBad(h)
           \/ ext /\ (h.scheme = "" \/ h.path = "" \/ h.authority = "")
           \/ connect /\ ~ext /\ (h.path # "" \/ h.authority = "")
           \/ ~connect /\ (h.path = "" \/ h.authority = "" \/ h.method = "")
           \/ ~ext /\ h.protocol # ""
        THEN Bad ELSE h

updateResponseFromHeaders(fs) ==
    LET h == parseHeaders(fs, FALSE)
    IN  IF IsBad(h) \/ (~IsBad(h) /\ h.status = "") THEN Bad ELSE h

parseTrailers(fs) == IF \E i \in DOMAIN fs : fs[i].key \in Pseudo3 THEN Bad ELSE [header |-> fs]

\* A request that is sent over HTTP/3 is, to a peer with the same code, the
\* request that was meant: same method and target, every header of the caller
\* but the ones of the connection, the length of its body; whatever order the
\* caller asked for (encodeHeaders, requestFromHeaders, SortKeyValues).
RequestReadBack(rq) ==
    LET e == encodeHeaders3(rq)
        h == requestFromHeaders(e.fields)
        Sent(k) == FlattenSeq([i \in DOMAIN rq.header |->
                                  IF rq.header[i].key = k THEN rq.header[i].vals ELSE <<>>])
        Got(k) == LET fs == SelectSeq(h.header, LAMBDA f : f.key = k) IN [i \in DOMAIN fs |-> fs[i].val]
    IN  IsBad(e) \/
        /\ ~IsBad(h)
        /\ h.method = rq.method /\ h.authority = rq.host
        /\ h.clen = IF shouldSendReqContentLength(rq.method, actualContentLength(rq))
                    THEN actualContentLength(rq) ELSE 0 - 1
        /\ \A i \in DOMAIN rq.header :
               LET k == rq.header[i].key
               IN  IF k \in Excluded THEN Got(k) = <<>>
                   ELSE IF k = "user-agent" THEN Len(Got(k)) <= 1
                   ELSE ToSet(Got(k)) = ToSet(Sent(k)) /\ Len(Got(k)) = Len(Sent(k))

\* HTTP/2 puts the pseudo headers first, each once, and the rest as listed.
EncodedInOrder(rq, limit) ==
    LET e == encodeHeaders2(rq, limit)
        n == IF rq.method = "CONNECT" THEN 2 ELSE 4
        Has(i) == e.fields[i].key \in {":authority", ":method", ":path", ":scheme"}
    IN  IsBad(e) \/
        /\ \A i \in DOMAIN e.fields : Has(i) <=> i <= n
        /\ Cardinality({e.fields[i].key : i \in 1..n}) = n
        /\ Len(SelectSeq(e.fields, LAMBDA f : f.key = "user-agent")) <= 1

------------------------------------------------------------------------------
(* HTTP/1 header lines: a line is a sequence of one-character strings without *)
(* its line feed; text is the lines of one header.                            *)

IsSpace(c) == c \in {" ", "\t"}

\* textprotoReader.readLine: with a dump, ReadSlice's ErrBufferFull is dropped
\* and a line that does not fit the buffer comes in pieces.
Pieces(line) ==
    IF Len(line) < BufSize THEN <<line>>
    ELSE [i \in 1..(Len(line) \div BufSize) |-> SubSeq(line, (i - 1) * BufSize + 1, i * BufSize)]
         \o <<From(line, (Len(line) \div BufSize) * BufSize + 1)>>
ReadLines(text, dumping) == IF dumping THEN FlattenSeq([i \in DOMAIN text |-> Pieces(text[i])]) ELSE text

Trim(s) ==
    LET keep == {i \in DOMAIN s : ~IsSpace(s[i])}
    IN  IF keep = {} THEN <<>>
        ELSE SubSeq(s, CHOOSE i \in keep : \A j \in keep : i <= j, CHOOSE i \in keep : \A j \in keep : i >= j)

ColonAt(s) == SelectInSeq(s, LAMBDA c : c = ":")

\* canonicalMIMEHeaderKey: a key with a space in it is kept as it is.
Upper(c) == IF c = "k" THEN "K" ELSE c
Lower(c) == IF c = "K" THEN "k" ELSE c
CanonicalKey(k) ==
    IF Contains(k, " ") THEN k
    ELSE [i \in DOMAIN k |-> IF i = 1 \/ (i > 1 /\ k[i - 1] = "-") THEN Upper(k[i]) ELSE Lower(k[i])]
ValidKey(k) == k # <<>> /\ \A i \in DOMAIN k : k[i] \in {"k", "K", "v", "-", " "}

AddField(s, kv) ==
    LET c == ColonAt(kv)
        k == SubSeq(kv, 1, c - 1)
    IN  IF ~ValidKey(k) \/ Contains(kv, "nul") THEN [s EXCEPT !.err = "malformed"]
        ELSE [s EXCEPT !.m = Append(@, [key |-> CanonicalKey(k), val |-> Trim(From(kv, c + 1))])]

\* readMIMEHeader over readContinuedLineSlice: cur is the line that the next
\* ones may continue.
ReadMIMEHeader(text, dumping) ==
    LET lines == ReadLines(text, dumping)
        Flush(s) == IF s.cur = <<>> THEN s ELSE [AddField(s, s.cur) EXCEPT !.cur = <<>>]
        Line(s, l) ==
            IF s.err # "none" \/ s.done THEN s
            ELSE IF l = <<>> THEN [Flush(s) EXCEPT !.done = TRUE]
            ELSE IF IsSpace(l[1])
                 THEN IF s.cur = <<>> THEN [s EXCEPT !.err = "malformed"]
                      ELSE [s EXCEPT !.cur = @ \o <<" ">> \o Trim(l)]
            ELSE LET t == Flush(s)
                 IN  IF t.err # "none" THEN t
                     ELSE IF ColonAt(l) = 0 THEN [t EXCEPT !.err = "malformed"]
                     ELSE [t EXCEPT !.cur = Trim(l)]
        s == FoldLeft(Line, [m |-> <<>>, cur |-> <<>>, err |-> "none", done |-> FALSE], lines)
    IN  IF s.err = "none" /\ ~s.done THEN [Flush(s) EXCEPT !.err = "eof"] ELSE s

\* headerWriteSubset with the exclusions of HTTP/1: line feeds of a value
\* become spaces, and it is trimmed; a key that is no token is left out.
headerWriteSubset(fields) ==
    LET ok == SelectSeq(fields, LAMBDA f : ~Contains(f.key, " ") /\ ValidKey(f.key))
        Clean(v) == Trim([i \in DOMAIN v |-> IF v[i] = "\n" THEN " " ELSE v[i]])
    IN  [i \in DOMAIN ok |-> ok[i].key \o <<":", " ">> \o Clean(ok[i].val)] \o <<<<>>>>

\* What is written as the header of a message is read back as such, also while
\* a dump is taken, as long as every line fits the buffer of the reader.
LinesReadBack(fields) ==
    LET text == headerWriteSubset(fields)
        r == ReadMIMEHeader(text, FALSE)
    IN  /\ r.err = "none"
        /\ Len(r.m) = Len(text) - 1
        /\ \A i \in DOMAIN r.m : ~Contains(r.m[i].val, "\n")
        /\ (\A i \in DOMAIN text : Len(text[i]) < BufSize) => ReadMIMEHeader(text, TRUE) = r

------------------------------------------------------------------------------
(* The Alt-Svc header, as a sequence of tokens.                               *)

Index(s, Test(_)) == SelectInSeq(s, Test)
NoSpaces(s) == SelectSeq(s, LAMBDA c : c # " ")

\* altAvcParser.parseKv: what is left of the header after a key and a value.
Kv(key, v, next, rest, err) == [key |-> key, val |-> v, next |-> next, rest |-> rest, err |-> err]
quotedValue(key, bs, q) ==
    IF q = 0 THEN Kv(key, <<>>, FALSE, bs, "quote")
    ELSE IF Len(bs) = q THEN Kv(key, SubSeq(bs, 2, q - 1), FALSE, <<>>, "eof")
    ELSE Kv(key, SubSeq(bs, 2, q - 1), bs[q + 1] = ";", From(bs, q + 2), "none")
bareValue(key, bs, delim) ==
    IF delim <= 1 THEN Kv(key, NoSpaces(bs), FALSE, bs, "eof")
    ELSE Kv(key, SubSeq(bs, 1, delim - 1), bs[delim] = ";", From(bs, delim + 1), "none")
valueOf(key, bs) ==
    IF bs = <<>> THEN Kv(key, <<>>, FALSE, <<>>, "eof")
    ELSE IF bs[1] = "quote" THEN quotedValue(key, bs, SelectInSubSeq(bs, 2, Len(bs), LAMBDA c : c = "quote"))
    ELSE bareValue(key, bs, Index(bs, LAMBDA c : c \in {",", ";"}))
KeyUpTo(s, eq) ==
    IF eq = 0 THEN valueOf(NoSpaces(SubSeq(s, 1, Len(s) - 1)), <<>>) ELSE valueOf(NoSpaces(SubSeq(s, 1, eq - 1)), From(s, eq + 1))
parseKv(s) == IF s = <<>> THEN Kv(<<>>, <<>>, FALSE, <<>>, "eof") ELSE KeyUpTo(s, Index(s, LAMBDA c : c = "="))

RECURSIVE SkipField(_)
SkipField(kv) == IF kv.next THEN SkipField(parseKv(kv.rest)) ELSE kv

\* parseOne: an alternative, its "ma" if there is one, and how it ended.
One(alt, kv, err) == [alt |-> alt, rest |-> kv.rest, err |-> err]
LastField(alt, kv) == One(<<alt>>, kv, kv.err)
parseMa(alt, b) ==
    IF b.key = <<>> \/ b.val = <<>> THEN One(<<alt>>, b, b.err)
    ELSE IF b.key # <<"ma">> THEN One(<<alt>>, b, "ma")
    ELSE IF ~b.next THEN One(<<[alt EXCEPT !.ma = b.val]>>, b, "none")
    ELSE LastField([alt EXCEPT !.ma = b.val], SkipField(parseKv(b.rest)))
parseAlt(a) ==
    IF a.key = <<>> \/ a.val = <<>> THEN One(<<>>, a, a.err)
    ELSE LET alt == [proto |-> a.key, addr |-> a.val, ma |-> <<>>]
         IN  IF a.next THEN parseMa(alt, parseKv(a.rest)) ELSE One(<<alt>>, a, a.err)
parseOne(s) == parseAlt(parseKv(s))

\* altAvcParser.Parse: until one ends with an error, of which EOF is none.
RECURSIVE ParseFrom(_, _)
ParseFrom(one, as) ==
    IF one.err # "none" THEN [as |-> as \o one.alt, err |-> one.err] ELSE ParseFrom(parseOne(one.rest), as \o one.alt)
Parse(s) == ParseFrom(parseOne(s), <<>>)

\* An entry of the header as a server writes it.
AltText(a) == <<a.proto, "=", "quote", a.addr, "quote">>
              \o When(a.ma # "", <<";", " ", "ma", "=", a.ma>>)
              \o When(a.more, <<";", " ", "persist", "=", "1">>)
AltSvcText(as) == FlattenSeq([i \in DOMAIN as |-> (IF i > 1 THEN <<",", " ">> ELSE <<>>) \o AltText(as[i])])

\* Every alternative a server announces is found, with its lifetime, whatever
\* parameters follow it (altAvcParser.Parse).
AltSvcReadBack(as) ==
    LET r == Parse(AltSvcText(as))
    IN  /\ r.err = "eof"
        /\ r.as = [i \in DOMAIN as |-> [proto |-> <<as[i].proto>>, addr |-> <<as[i].addr>>,
                                        ma |-> IF as[i].ma = "" THEN <<>> ELSE <<as[i].ma>>]]
==============================================================================
