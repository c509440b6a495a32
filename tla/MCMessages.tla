----------------------------- MODULE MCMessages -----------------------------
(* The sequential parts of the client for TLC, side by side, one of them     *)
(* at work in each behaviour: every case of Cases is written and read back   *)
(* in one step; the bodies of Transfer are read byte by byte; a call of Do   *)
(* (Exchange), a parallel download and the setters of clients run their      *)
(* course.                                                                   *)
EXTENDS H2Frame, HeaderWire, Transfer, Exchange, Download, Settings, Socks, Digest

VARIABLE io   \* the part at work, or the case under test

------------------------------------------------------------------------------
\* Frames.
B4(n) == <<0, 0, 0, n>>
Ids == {Zero4, B4(1), <<128, 0, 0, 3>>}
Data == {<<>>, <<7>>, <<7, 0>>}
Prios == {NoPriority, [dep |-> B4(3), excl |-> TRUE, weight |-> 9], [dep |-> <<127, 255, 255, 255>>, excl |-> FALSE, weight |-> 0],
          [dep |-> <<128, 0, 0, 0>>, excl |-> FALSE, weight |-> 1]}
Lists == {<<>>, <<[id |-> <<0, 4>>, val |-> <<127, 255, 255, 255>>], [id |-> <<0, 1>>, val |-> B4(0)]>>}
Frames ==
    [kind : {"DATA"}, id : Ids, end : BOOLEAN, data : Data, padded : {FALSE}, pad : {<<>>}]
    \union [kind : {"DATA"}, id : Ids, end : BOOLEAN, data : Data, padded : {TRUE}, pad : {<<>>, <<0>>, <<0, 1>>, Zeros(255), Zeros(256)}]
    \union [kind : {"SETTINGS"}, ack : {FALSE}, list : Lists] \union [kind : {"SETTINGS"}, ack : {TRUE}, list : {<<>>}]
    \union [kind : {"PING"}, ack : BOOLEAN, data : {<<1, 2, 3, 4, 5, 6, 7, 8>>}]
    \union [kind : {"GOAWAY"}, last : {B4(5)}, code : {<<255, 0, 0, 1>>}, debug : Data]
    \union [kind : {"WINDOW_UPDATE"}, id : {Zero4, B4(1)}, inc : {Zero4, B4(1), <<127, 255, 255, 255>>, <<128, 0, 0, 1>>}]
    \union [kind : {"HEADERS"}, id : Ids, end : BOOLEAN, endHeaders : BOOLEAN, pad : {0, 1, 3}, prio : Prios, block : Data]
    \union [kind : {"PRIORITY"}, id : Ids, prio : Prios]
    \union [kind : {"RST_STREAM"}, id : Ids, code : {B4(8)}]
    \union [kind : {"CONTINUATION"}, id : Ids, endHeaders : BOOLEAN, block : Data]
    \union [kind : {"PUSH_PROMISE"}, id : Ids, promise : Ids, endHeaders : BOOLEAN, pad : {0, 2}, block : Data]
    \union [kind : {"UNKNOWN"}, type : {11}, flags : {255}, id : {Zero4, B4(9)}, data : Data]

\* Any three frames in a row, with and without END_HEADERS.
Heads == {Write([kind |-> "HEADERS", id |-> B4(i), end |-> FALSE, endHeaders |-> e, pad |-> 0, prio |-> NoPriority, block |-> <<7>>]) :
             i \in {1, 3}, e \in BOOLEAN}
         \union {endWrite(1, 8, B4(1), <<9, 7>>)}
Conts == {Write([kind |-> "CONTINUATION", id |-> B4(i), endHeaders |-> e, block |-> <<7>>]) : i \in {1, 3}, e \in BOOLEAN}
Other == {Write([kind |-> "PING", ack |-> FALSE, data |-> <<1, 2, 3, 4, 5, 6, 7, 8>>]), endWrite(5, 0, B4(1), B4(2)), endWrite(0, 0, B4(1), <<>>)}
Rows == {a \o b \o c : a \in Heads, b, c \in Heads \union Conts \union Other}

\* Header lists in one or two fragments.
F(n, okN, okV, s) == [name |-> n, okName |-> okN, okValue |-> okV, size |-> s]
HFields == {F(":status", TRUE, TRUE, 2), F(":path", TRUE, TRUE, 1), F(":other", TRUE, TRUE, 1), F("a", TRUE, TRUE, 3),
           F("b", FALSE, TRUE, 1), F("c", TRUE, FALSE, 1)}
Frag(fs, n, c, x) == [fields |-> fs, len |-> n, cut |-> c, corrupt |-> x]
OneFragment == {<<Frag(fs, Len(fs), FALSE, FALSE)>> : fs \in BoundedSeq(HFields, 3)}
TwoFragments == {<<Frag(<<a>>, 1, c, FALSE), Frag(<<b, d>>, n, c, x)>> : a, b, d \in HFields, c, x \in BOOLEAN, n \in {1, 9}}

------------------------------------------------------------------------------
\* Integers and settings.
V(a, b, c, d) == <<0, 0, a, 0, b, 0, c, d>>
Values == {V(0, 0, 0, 0), V(0, 0, 0, 63), V(0, 0, 0, 64), V(0, 0, 63, 255), V(0, 0, 64, 0), V(0, 63, 255, 255),
           V(0, 64, 0, 0), V(9, 0, 0, 1), <<63, 255, 255, 255, 255, 255, 255, 255>>}
SettingsCases == [datagram : BOOLEAN, connect : BOOLEAN,
                  other : {[k \in {} |-> 0], [k \in {V(0, 0, 0, 6)} |-> V(0, 64, 0, 0)],
                           [k \in {V(0, 0, 0, 1), V(9, 0, 0, 1)} |-> k]}]

\* Requests: header maps in every order a range statement may yield.
Hdr(k, vs) == [key |-> k, vals |-> vs]
HeaderSets == {{}, {Hdr("a", <<"1", "2">>), Hdr("user-agent", <<"me", "you">>), Hdr("connection", <<"x">>)},
               {Hdr("user-agent", <<"">>), Hdr("b", <<"1">>), Hdr("content-length", <<"9">>)},
               {Hdr("cookie", <<<<"x", "y">>, <<"z">>>>), Hdr("a", <<"3">>)}}
Requests == [method : {"GET", "POST", "CONNECT"}, proto : {"", "websocket"}, host : {"h"}, path : {"/"},
             body : BOOLEAN, clen : {0, 3}, gzip : BOOLEAN, trailer : {FALSE},
             header : UNION {SetToSeqs(S) : S \in HeaderSets},
             order : {<<>>, <<"user-agent", "a">>}, pseudo : {<<>>, <<":path", ":method">>},
             okHost : {TRUE}, okPath : {TRUE}, okHeaders : {TRUE}]
            \union [method : {"GET", "CONNECT"}, proto : {""}, host : {"h"}, path : {"/"}, body : {FALSE}, clen : {0}, gzip : {FALSE},
                    trailer : {TRUE}, header : {<<>>}, order : {<<>>}, pseudo : {<<>>},
                    okHost : BOOLEAN, okPath : BOOLEAN, okHeaders : BOOLEAN]

\* Six keys in any order, of which some are listed.
Keys6 == {"a", "b", "c", "d", "e", "f"}
Sorts == [kvs : {[i \in 1..6 |-> KV(s[i], "1")] : s \in SetToSeqs(Keys6)},
          order : {<<"a">>, <<"b", "a">>, <<"a", "z", "c", "b">>, <<"z", "y", "x", "d", "a">>, <<"f", "e", "d", "c", "b", "a">>}]

\* Header lines, some as long as the reader's buffer.
TextKeys == {<<"k">>, <<"K", "-", "k">>, <<"k", " ", "k">>, <<"v", "v", "v">>}
TextVals == {<<>>, <<"v">>, <<" ", "v", "\n", "v">>, <<"v", ":", "k", " ">>, <<"v", "v", "v", "v", "v">>}
Texts == BoundedSeq([key : TextKeys, val : TextVals], 2)

Alts == [proto : {"h3", "h2"}, addr : {":443", "alt:8443"}, ma : {"", "60"}, more : {FALSE}]
        \union [proto : {"h3"}, addr : {":443"}, ma : {"60"}, more : {TRUE}]

\* Targets and proxies: the longest name and one longer, the ports at their limits.
SAddr(k, h, p) == [kind |-> k, host |-> h, port |-> p]
Addrs == {SAddr("ip4", <<10, 0, 0, 1>>, 443), SAddr("ip6", Zeros(16), 65535), SAddr("name", <<104>>, 256)}
Targets == [addr : Addrs \union {SAddr("name", Zeros(255), 1), SAddr("name", Zeros(256), 80), SAddr("name", <<104>>, 0), SAddr("name", <<104>>, 65536)},
            methods : {<<>>, <<0, 2>>}, authenticate : BOOLEAN, user : {<<>>, <<117>>}, password : {<<112>>}]
Proxies == [method : {0, 2, 255}, verdict : {0, 1}, reply : {0, 5}, bound : Addrs \union {SAddr("name", <<>>, 0)}, more : {<<>>, <<5, 0>>}]

\* Challenges in every order of their fields.
Chal(rlm, nnc, more) == ("realm" :> rlm) @@ ("nonce" :> nnc) @@ more
Challenges ==
    {Chal(<<"r">>, <<"n">>, IF q = "" THEN "algorithm" :> <<a>> ELSE ("algorithm" :> <<a>>) @@ ("qop" :> <<q>>)) :
        a \in DOMAIN hashFuncs \union {"SHA-1"}, q \in {"", "auth", "auth-int"}}
    \union {Chal(<<"r">>, <<"n">>, ("opaque" :> <<"o">>) @@ ("userhash" :> <<u>>) @@ ("charset" :> <<c>>)) : u \in {"true", "false"}, c \in {"UTF-8", "latin"}}
    \union {Chal(<<"r">>, <<"n">>, "qop" :> <<"auth", ",", "auth-int">>), Chal(<<"r", ",", "s">>, <<"n">>, "domain" :> <<"d">>)}
DigestCases == UNION {[ch : {c}, keys : SetToSeqs(DOMAIN c)] : c \in Challenges}
Cred == [user |-> "u", password |-> "p", method |-> "GET", uri |-> "/", cnonce |-> "cn"]

Cases == [kind : {"frame"}, in : Frames] \union [kind : {"row"}, in : Rows]
         \union [kind : {"list"}, in : OneFragment \union TwoFragments]
         \union [kind : {"varint"}, in : Values] \union [kind : {"settings"}, in : SettingsCases]
         \union [kind : {"request"}, in : Requests] \union [kind : {"sort"}, in : Sorts]
         \union [kind : {"text"}, in : Texts] \union [kind : {"altsvc"}, in : BoundedSeq(Alts, 3) \ {<<>>}]
         \union [kind : {"socks"}, in : Targets, proxy : Proxies] \union [kind : {"digest"}, in : DigestCases]

\* What the writers of a message put on the wire, its reader reads back as what
\* was meant, whatever the padding, order, length or options it was written with
\* (frame.go, frames.go, varint.go, headers.go, sort.go, textproto_reader.go,
\* altsvcutil.go, socks/client.go, digest.go).
ReadsBack ==
    CASE io.kind = "frame"    -> FrameReadsBack(io.in)
      [] io.kind = "row"      -> BlocksWhole(io.in)
      [] io.kind = "list"     -> HeaderListJudged(io.in)
      [] io.kind = "varint"   -> VarReadsBack(io.in)
      [] io.kind = "settings" -> SettingsReadBack(io.in)
      [] io.kind = "request"  -> RequestReadBack(io.in) /\ EncodedInOrder(io.in, 6)
      [] io.kind = "sort"     -> ListedInOrder(io.in.kvs, io.in.order)
      [] io.kind = "text"     -> LinesReadBack(io.in)
      [] io.kind = "altsvc"   -> AltSvcReadBack(io.in)
      [] io.kind = "socks"    -> SocksReadBack(io.in, io.proxy)
      [] io.kind = "digest"   -> DigestAccepted(io.in.ch, io.in.keys, Cred)
      [] OTHER                -> TRUE

------------------------------------------------------------------------------
\* Bodies: what a writer writes, whole or cut short, with the next message
\* behind it.
Body(m, b, nil, n, tr, t) == [method |-> m, body |-> b, nil |-> nil, clen |-> n, trailer |-> tr, timely |-> t]
Bodies == {Body("POST", <<<<"x">>, <<"1", CR>>>>, FALSE, 0, FALSE, TRUE), Body("POST", <<<<"x">>, <<"1">>>>, FALSE, 2, FALSE, TRUE),
           Body("POST", <<<<"0", CR, LF>>>>, FALSE, 0, TRUE, TRUE), Body("GET", <<<<>>>>, FALSE, 0, FALSE, TRUE),
           Body("GET", <<<<>>, <<"x">>>>, FALSE, 0, FALSE, FALSE), Body("PUT", <<>>, TRUE, 0, FALSE, TRUE),
           Body("CONNECT", <<<<"x">>, <<"y">>>>, FALSE, 0, FALSE, TRUE), Body("POST", <<<<"x", "y">>>>, FALSE, 1, FALSE, TRUE)}
Hd(h, m, st, minor, conn) == [te |-> h.te, cl |-> h.cl, method |-> m, status |-> st, minor |-> minor, conn |-> conn, badLength |-> 99]
FirstN(s, n) == SubSeq(s, 1, n)

\* The message as written, whole and followed by another, or cut after n bytes.
Sent(rq) ==
    LET t == newTransferWriter(rq)
        w == writeBody(t, rq)
        h == Hd(writeHeader(t, rq.method), "GET", 200, 1, {})
        unframed == h.te = <<>> /\ h.cl = <<>>
        M(wire) == [head |-> h, wire |-> wire, body |-> IF t.nil THEN <<>> ELSE FirstN(Content(rq), Len(Content(rq))), len |-> Len(w.bytes)]
    IN  IF w.err THEN {} ELSE {M(IF unframed THEN w.bytes ELSE w.bytes \o <<"H", "H">>)}
                              \union (IF unframed THEN {} ELSE {M(FirstN(w.bytes, n)) : n \in 0..(Len(w.bytes) - 1)})

\* Responses without a body, with two framings, with an extension, malformed.
HW(te, cl) == [te |-> te, cl |-> cl]
Next2 == <<"H", "H", "H", "H">>
Chunked1 == <<"1", ";", "e", CR, LF, "x", CR, LF, "0", CR, LF, CR, LF>>
Responses ==
    {[head |-> Hd(HW(te, cl), m, st, 1, {}), wire |-> Next2, body |-> <<>>, len |-> 0] :
        te \in {<<>>, <<"chunked">>}, cl \in {<<>>, <<2>>}, m \in {"HEAD"}, st \in {200}}
    \union {[head |-> Hd(HW(<<>>, cl), "GET", st, 1, {}), wire |-> Next2, body |-> <<>>, len |-> 0] : cl \in {<<>>, <<2>>}, st \in {204, 304}}
    \union {[head |-> Hd(HW(<<"chunked">>, <<1>>), "GET", 200, 1, {}), wire |-> Chunked1 \o Next2, body |-> <<"x">>, len |-> Len(Chunked1)],
            [head |-> Hd(HW(<<"chunked">>, <<2>>), "GET", 200, 0, {"keep-alive"}), wire |-> Next2, body |-> FirstN(Next2, 2), len |-> 2],
            [head |-> Hd(HW(<<>>, <<2, 2>>), "GET", 200, 1, {"close"}), wire |-> Next2, body |-> FirstN(Next2, 2), len |-> 2],
            [head |-> Hd(HW(<<"chunked">>, <<>>), "GET", 200, 1, {}), wire |-> <<"1", CR, LF, "x", "y", LF>>, body |-> <<"x">>, len |-> 0 - 1],
            [head |-> Hd(HW(<<"chunked">>, <<>>), "GET", 200, 1, {}), wire |-> <<"g", CR, LF, "x">>, body |-> <<>>, len |-> 0 - 1],
            [head |-> Hd(HW(<<"gzip", "chunked">>, <<>>), "GET", 200, 1, {}), wire |-> Next2, body |-> <<>>, len |-> 0 - 1],
            [head |-> Hd(HW(<<>>, <<1, 2>>), "GET", 200, 1, {}), wire |-> Next2, body |-> <<>>, len |-> 0 - 1]}

AllMessages == Responses \union UNION {Sent(rq) : rq \in Bodies}
------------------------------------------------------------------------------
\* Calls of Do, in groups that differ in a few settings each.
Ordinary == [method |-> "POST", getPayload |-> TRUE, body |-> "bytes", file |-> "none", cform |-> FALSE, cookies |-> 0,
          retry |-> FALSE, max |-> 0, cond |-> FALSE, digest |-> "no", hook |-> "none", before |-> FALSE,
          save |-> "no", autoRead |-> TRUE, result |-> FALSE, url |-> "abs", host |-> <<"a", "x">>, base |-> <<"b", "x">>,
          cquery |-> "k" :> "c", rquery |-> "k" :> "r", rauth |-> "none", cauth |-> "none", answers |-> {"200", "500", "net", "canceled", "307"},
          policies |-> <<[kind |-> "max", n |-> 2, set |-> {}]>>]
P(k) == [kind |-> k, n |-> 3, set |-> {<<"a", "x">>}]
Retrying == {[Ordinary EXCEPT !.body = b, !.retry = TRUE, !.max = m, !.cond = TRUE, !.hook = IF b = "func" THEN "ok" ELSE "none"] :
               b \in {"bytes", "func", "reader", "marshal", "form", "ordered", "odd", "unset"}, m \in {1, 0 - 1}}
Uploads == {[Ordinary EXCEPT !.body = b, !.file = f, !.retry = TRUE, !.max = 1, !.digest = d, !.answers = {"200", "307", "401", "net"}] :
               b \in {"multipart", "chunked"}, f \in {"none", "bytes", "path", "reader", "closer", "seeker"}, d \in {"no", "request"}}
Once == {[Ordinary EXCEPT !.body = b, !.method = m, !.getPayload = FALSE] : b \in {"reader", "closer", "bytes", "chunked"}, m \in {"GET", "POST"}}
Digests == {[Ordinary EXCEPT !.digest = d, !.retry = TRUE, !.max = 1, !.cform = c, !.body = b, !.hook = k, !.answers = {"200", "401", "deadline", "canceled"}] :
               d \in {"client", "request"}, c \in BOOLEAN, b \in {"form", "bytes"}, k \in {"none", "fails"}}
Saves == {[Ordinary EXCEPT !.save = s, !.retry = TRUE, !.max = 1, !.hook = h, !.digest = d, !.result = TRUE, !.answers = {"200", "302", "401", "net"}] :
               s \in {"no", "file", "writer", "closer"}, h \in {"none", "ok"}, d \in {"no", "client"}}
Policies == {[Ordinary EXCEPT !.policies = <<P("max"), P(k)>>, !.cauth = "client", !.autoRead = FALSE, !.host = <<"w", "a", "x">>, !.answers = {"200", "302", "307"}] :
               k \in {"no", "domain", "host", "hosts", "domains", "copy"}}
Urls == {[Ordinary EXCEPT !.url = u, !.rauth = "request", !.cauth = "client", !.before = TRUE, !.cookies = 1, !.retry = TRUE, !.max = 1] : u \in {"relative", "bad"}}
AllCalls == Retrying \union Uploads \union Once \union Digests \union Saves \union Policies \union Urls
AllHosts == {<<"a", "x">>, <<"w", "a", "x">>, <<"b", "x">>}

------------------------------------------------------------------------------
\* Downloads: three segments, the last one short, two full ones, a single one.
AllJobs == [len : {5}, seg : {2}, ranged : BOOLEAN] \union [len : {1, 4}, seg : {2}, ranged : {TRUE}]

AllGroups == (PlainFields \ {"AllowHTTP"}) \union {"FormData", "tls", "QueryParams", "PathParams", "Cookies", "dump", "udBeforeRequest",
              "Headers", "httpRoundTripWrappers", "afterResponse", "jar", "retryOption", "roundTripWrappers"}

------------------------------------------------------------------------------
Part(k) == io = [kind |-> k]
Parts == {[kind |-> k] : k \in {"ask", "body", "exchange", "download", "setters"}}

Init ==
    /\ io \in Parts
    /\ BodyInit /\ (Part("body") \/ msg = CHOOSE m \in Messages : TRUE)
    /\ ExchangeInit /\ (Part("exchange") \/ setup = CHOOSE c \in Calls : TRUE)
    /\ IF Part("download") THEN DownloadInit ELSE DownloadRest
    /\ SettingsInit /\ (Part("setters") \/ group = CHOOSE g \in Groups : TRUE)

Check == Part("ask") /\ io' \in Cases /\ UNCHANGED <<bodyVars, exVars, dlVars, setVars>>

Next ==
    \/ Check
    \/ Part("body") /\ BodyNext /\ UNCHANGED <<io, exVars, dlVars, setVars>>
    \/ Part("exchange") /\ ExchangeNext /\ UNCHANGED <<io, bodyVars, dlVars, setVars>>
    \/ Part("download") /\ DownloadNext /\ UNCHANGED <<io, bodyVars, exVars, setVars>>
    \/ Part("setters") /\ SettingsNext /\ UNCHANGED <<io, bodyVars, exVars, dlVars>>

Spec == Init /\ [][Next]_<<io, bodyVars, exVars, dlVars, setVars>>
==============================================================================
