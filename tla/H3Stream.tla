------------------------------ MODULE H3Stream ------------------------------
(***************************************************************************)
(* One HTTP/3 connection (internal/http3): its control streams, the        *)
(* request streams with their four goroutines (the caller, the sender of   *)
(* the body, the watcher of the context, the reader of the response body), *)
(* the frames of a response and the datagrams.                             *)
(*                                                                         *)
(* What a server sends on a stream is one of Scripts, chosen at the start: *)
(* a sequence of frame headers, body bytes ("b") and an end.  Header       *)
(* blocks are taken as decoded (HeaderWire is about them).                 *)
(***************************************************************************)
EXTENDS Integers, Sequences, FiniteSets

CONSTANTS
    Stream3,           \* request streams
    Scripts,           \* what a server may do, one of these: on each stream (the length
                       \* it declares, and Items; none if there is no request), the
                       \* streams it opens, by their type, the datagrams it sends
    WithBody3,         \* the requests with a body
    ExtendedConnect,   \* the ones that must wait for the server's SETTINGS
    Cancel3s,          \* bound: the ones whose context may end
    Max1xx,            \* max1xxResponses, 5 in the code
    QueueLen,          \* streamDatagramQueueLen, 32 in the code
    DatagramsMissing   \* whether datagrams are enabled here and QUIC does not support them

Frames == {"1xx", "headers", "d0", "d1", "d2", "settings", "reserved", "other"}
Item == Frames \union {"b", "fin", "reset"}
\* Control streams by their first frame: SETTINGS, SETTINGS with datagrams, neither.
UniType == {"control", "control+datagram", "control-bad", "qpack", "push", "unknown"}
DataLen == [f \in {"d0", "d1", "d2"} |-> CASE f = "d0" -> 0 [] f = "d1" -> 1 [] f = "d2" -> 2]

ASSUME H3StreamConstants ==
    /\ IsFiniteSet(Stream3) /\ WithBody3 \subseteq Stream3 /\ ExtendedConnect \subseteq Stream3
    /\ \A sc \in Scripts :
          /\ sc.dgrams \in Nat /\ sc.uni \subseteq UniType
          /\ \A s \in Stream3 : sc.on[s].cl \in Int /\ sc.on[s].items \in Seq(Item)
    /\ Max1xx \in Nat /\ QueueLen \in Nat \ {0}

VARIABLES
    conn3,             \* the connection: its life, SETTINGS, streams seen, receiver
    str,               \* the request streams
    dgrams             \* datagrams that may still arrive

streamVars == <<conn3, str, dgrams>>

NewConn3 == [up |-> TRUE, settings |-> "none", seen |-> {}, uni |-> {},
             receiver |-> "off", map |-> {}]

NewStr(sc) ==
    [cl |-> sc.cl, in |-> sc.items, pc |-> IF sc.items = <<>> THEN "done" ELSE "start",
     ctx |-> FALSE,
     sendErr |-> FALSE, recvErr |-> FALSE,        \* stateTrackingStream
     sender |-> "off", watcher |-> "off", reqDone |-> 0,
     n1xx |-> 0, inFrame |-> 0, trailer |-> FALSE, \* stream
     left |-> -1, violated |-> FALSE, doneClosed |-> FALSE, \* body
     got |-> 0, announced |-> 0, end |-> "none", queue |-> 0]

StreamInit ==
    \E sc \in Scripts :
        /\ conn3 = [NewConn3 EXCEPT !.uni = sc.uni]
        /\ dgrams = sc.dgrams
        /\ str = [s \in Stream3 |-> NewStr(sc.on[s])]

NoScript == [cl |-> 0, items |-> <<>>]

\* No request is made on the connection, and it is closed.
StreamRest ==
    /\ conn3 = [NewConn3 EXCEPT !.up = FALSE] /\ dgrams = 0
    /\ str = [s \in Stream3 |-> NewStr(NoScript)]

-----------------------------------------------------------------------------
(* stateTrackingStream: the connection forgets a stream when both of its   *)
(* sides are closed.                                                       *)

\* closeSend, closeReceive, for the sides in sides.
CloseSides(x, sides) ==
    [x EXCEPT !.sendErr = @ \/ "send" \in sides, !.recvErr = @ \/ "recv" \in sides]

\* Faulty variant: only the end of the sending side clears the stream.
ClearedBySender(s, x) ==
    IF x.sendErr /\ x.recvErr /\ ~str[s].sendErr THEN conn3.map \ {s} ELSE conn3.map

\* clearStream, the first time both sides are finished.
Cleared(s, x) == IF x.sendErr /\ x.recvErr THEN conn3.map \ {s} ELSE conn3.map

\* The stream becomes x, and the connection is up or not.
Becomes(s, x, up) ==
    /\ str' = [str EXCEPT ![s] = x]
    /\ conn3' = [conn3 EXCEPT !.up = @ /\ up, !.map = Cleared(s, x)]
    /\ UNCHANGED dgrams

-----------------------------------------------------------------------------
(* frameParser.ParseNext, stream.Read, body.Read, hijackableBody.Read.     *)

\* The frame ParseNext returns from the items xs, or the error, and what is left.
\* It skips CANCEL_PUSH, GOAWAY and the like, and closes on a reserved type.
SkipLen(xs) ==
    CHOOSE n \in 0..Len(xs) :
        /\ \A i \in 1..n : xs[i] = "other"
        /\ n = Len(xs) \/ xs[n + 1] # "other"
ParseNext(xs) == SubSeq(xs, SkipLen(xs) + 1, Len(xs))

NoErr == "none"
Stop3(x, e, up) == [x |-> x, n |-> 0, err |-> e, up |-> up]

\* What a read of n bytes of the stream x does: the stream, the error, and whether
\* the connection survives.  The bytes of a DATA frame follow its header.
ReadBytes(x, n) ==
    LET want == IF x.inFrame < n THEN x.inFrame ELSE n IN
    IF want = 0 THEN Stop3(x, NoErr, TRUE)
    ELSE IF Head(x.in) = "b"
         THEN LET k == IF want = 2 /\ Len(x.in) > 1 /\ x.in[2] = "b" THEN 2 ELSE 1
              IN  [x |-> [x EXCEPT !.in = SubSeq(@, k + 1, Len(@)), !.inFrame = @ - k],
                   n |-> k, err |-> NoErr, up |-> TRUE]
         ELSE Stop3(CloseSides(x, {"recv"}), IF Head(x.in) = "fin" THEN "eof" ELSE "error", TRUE)

\* What a read does when the next frame is f: the stream is x with f and y without it.
ReadFrame(f, x, y, n) ==
    CASE f = "fin"      -> Stop3(CloseSides(x, {"recv"}), "eof", TRUE)
      [] f = "reset"    -> Stop3(CloseSides(x, {"recv"}), "error", TRUE)
      [] f \in DOMAIN DataLen /\ y.trailer -> Stop3(y, "error", TRUE)
      [] f \in DOMAIN DataLen /\ ~y.trailer ->
             ReadBytes([y EXCEPT !.inFrame = DataLen[f], !.announced = @ + DataLen[f]], n)
      [] f \in {"1xx", "headers"} ->
             IF y.trailer THEN Stop3(y, "error", TRUE)
             ELSE Stop3([y EXCEPT !.trailer = TRUE], NoErr, TRUE)
      [] OTHER -> Stop3(y, "error", FALSE)

StreamRead(x, n) ==
    IF x.inFrame > 0 THEN ReadBytes(x, n)
    ELSE LET rest == ParseNext(x.in)
         IN  ReadFrame(Head(rest), [x EXCEPT !.in = rest], [x EXCEPT !.in = Tail(rest)], n)

\* checkContentLengthViolation.
Violation(x) == x.cl >= 0 /\ (x.left < 0 \/ (x.left = 0 /\ x.inFrame > 0))

CheckViolation(x) ==
    IF x.violated THEN x ELSE [CloseSides(x, {"send", "recv"}) EXCEPT !.violated = TRUE]

\* Faulty variant: the buffer is not cut down to what the content length leaves.
BodyReadUncut(x, n) ==
    LET r == StreamRead(x, n)
        y == [r.x EXCEPT !.left = @ - r.n]
    IN  IF Violation(y)
        THEN [x |-> CheckViolation(y), n |-> r.n, err |-> "error", up |-> r.up]
        ELSE [r EXCEPT !.x = y]

\* body.Read into a buffer of n bytes.
BodyRead(x, n) ==
    IF Violation(x)
    THEN Stop3(CheckViolation(x), "error", TRUE)
    ELSE LET m == IF x.cl >= 0 /\ x.left < n THEN x.left ELSE n
             r == StreamRead(x, m)
             y == [r.x EXCEPT !.left = @ - r.n]
         IN  IF Violation(y)
             THEN [x |-> CheckViolation(y), n |-> r.n, err |-> "error", up |-> r.up]
             ELSE [r EXCEPT !.x = y]

\* requestDone of hijackableBody.
RequestDone(x) ==
    IF x.doneClosed THEN x ELSE [x EXCEPT !.doneClosed = TRUE, !.reqDone = @ + 1]

-----------------------------------------------------------------------------
(* SingleDestinationRoundTripper.roundTrip and doRequest.                  *)

\* roundTrip up to the stream: SETTINGS first for an extended CONNECT.
OpenRequestStream(s) ==
    /\ str[s].pc = "start" /\ conn3.up /\ ~str[s].ctx
    /\ s \in ExtendedConnect => conn3.settings # "none"
    /\ str' = [str EXCEPT ![s].pc = "send", ![s].watcher = "on"]
    /\ conn3' = [conn3 EXCEPT !.map = @ \union {s}]
    /\ UNCHANGED dgrams

OpenFails(s) ==
    /\ str[s].pc = "start"
    /\ ~conn3.up \/ (s \notin ExtendedConnect /\ str[s].ctx)
    /\ str' = [str EXCEPT ![s].pc = "done", ![s].end = "error"]
    /\ UNCHANGED <<conn3, dgrams>>

\* doRequest fails: reqDone is closed, the watcher awaited.
Fail3(s, x, up) == Becomes(s, [x EXCEPT !.pc = "await", !.reqDone = @ + 1, !.end = "error"], up)

\* SendRequestHeader; then the stream is closed, or left to the sender of the body.
SendRequestHeader(s) ==
    /\ str[s].pc = "send"
    /\ IF ~conn3.up \/ str[s].sendErr
       THEN Fail3(s, CloseSides(str[s], {"send"}), TRUE)
       ELSE Becomes(s, IF s \in WithBody3
                       THEN [str[s] EXCEPT !.pc = "read", !.sender = "on"]
                       ELSE [CloseSides(str[s], {"send"}) EXCEPT !.pc = "read"], TRUE)

\* sendRequestBody and the Close after it: the body, or its reader, may fail.
SendBody(s) ==
    /\ str[s].sender = "on"
    /\ Becomes(s, [CloseSides(str[s], {"send"}) EXCEPT !.sender = "off"], TRUE)

\* The goroutine that watches the context.
Watch(s) ==
    /\ str[s].watcher = "on"
    /\ \/ /\ str[s].ctx
          /\ Becomes(s, [CloseSides(str[s], {"send", "recv"}) EXCEPT !.watcher = "off"], TRUE)
       \/ /\ str[s].reqDone > 0
          /\ Becomes(s, [str[s] EXCEPT !.watcher = "off"], TRUE)

Readable(s) == conn3.up /\ ~str[s].recvErr /\ str[s].in # <<>>

\* ReadResponse, in doRequest's loop over informational responses.
ReadResponse(s) ==
    LET rest == ParseNext(str[s].in)
        f == Head(rest)
        x == [str[s] EXCEPT !.in = Tail(rest)]
        both == CloseSides(x, {"send", "recv"}) IN
    /\ str[s].pc = "read" /\ Readable(s) /\ rest # <<>>
    /\ \/ /\ f = "headers"
          /\ Becomes(s, [x EXCEPT !.pc = "body", !.left = x.cl], TRUE)
       \/ /\ f = "1xx" /\ x.n1xx < Max1xx
          /\ Becomes(s, [x EXCEPT !.n1xx = @ + 1], TRUE)
       \/ f = "1xx" /\ x.n1xx = Max1xx /\ Fail3(s, x, TRUE)
       \/ f \in {"fin", "reset"} /\ Fail3(s, both, TRUE)
       \/ f = "reserved" /\ Fail3(s, both, FALSE)
       \/ f \in DOMAIN DataLen \union {"settings"} /\ Fail3(s, x, FALSE)

ReadFails3(s) ==
    /\ str[s].pc = "read" /\ (~conn3.up \/ str[s].recvErr)
    /\ Fail3(s, CloseSides(str[s], {"send", "recv"}), TRUE)

Returned(s) ==
    /\ str[s].pc = "await" /\ str[s].watcher = "off"
    /\ str' = [str EXCEPT ![s].pc = "done"]
    /\ UNCHANGED <<conn3, dgrams>>

\* The caller reads the response body, or closes it.
UserReads(s) ==
    /\ str[s].pc = "body" /\ str[s].end = "none"
    /\ \E n \in 1..2 :
       LET r == IF Readable(s) \/ Violation(str[s]) THEN BodyRead(str[s], n)
                ELSE Stop3(CloseSides(str[s], {"recv"}), "error", TRUE)
           y == [r.x EXCEPT !.got = @ + r.n, !.end = r.err]
       IN  /\ Readable(s) => ParseNext(str[s].in) # <<>>
           /\ Becomes(s, IF r.err = NoErr THEN y ELSE RequestDone(y), r.up)

UserCloses(s) ==
    /\ str[s].pc = "body"
    /\ Becomes(s, [CloseSides(RequestDone(str[s]), {"recv"}) EXCEPT !.pc = "done"], TRUE)

CtxEnds3s(s) ==
    /\ s \in Cancel3s /\ ~str[s].ctx /\ str[s].pc # "done"
    /\ str' = [str EXCEPT ![s].ctx = TRUE]
    /\ UNCHANGED <<conn3, dgrams>>

\* The stream's own context ends: AfterFunc in newStateTrackingStream.
SendSideEnds(s) ==
    /\ s \in conn3.map /\ ~str[s].sendErr /\ ~conn3.up
    /\ Becomes(s, CloseSides(str[s], {"send"}), TRUE)

-----------------------------------------------------------------------------
(* HandleUnidirectionalStreams and datagrams.                              *)

\* A stream of the server's, by its type and, for a control stream, its first frame.
AcceptUniStream(u) ==
    /\ conn3.up /\ u \in conn3.uni
    /\ LET t == IF u \in {"control", "control+datagram", "control-bad"} THEN "control" ELSE u
           dup == t \in conn3.seen /\ t # "unknown"
           c == [conn3 EXCEPT !.uni = @ \ {u}, !.seen = @ \union {t}]
       IN  conn3' = IF dup \/ u \in {"push", "control-bad"} THEN [c EXCEPT !.up = FALSE]
                    ELSE IF t = "control"
                    THEN [c EXCEPT !.settings = u,
                                   !.receiver = IF u = "control+datagram" THEN "on" ELSE @,
                                   !.up = ~(u = "control+datagram" /\ DatagramsMissing)]
                    ELSE c
    /\ UNCHANGED <<str, dgrams>>

\* receiveDatagrams and enqueue: a datagram for stream s.  A stream the connection
\* does not know ends the receiver.
ReceiveDatagram(s) ==
    /\ conn3.up /\ conn3.receiver = "on" /\ dgrams > 0
    /\ dgrams' = dgrams - 1
    /\ IF s \in conn3.map
       THEN /\ str' = [str EXCEPT ![s].queue = IF ~str[s].recvErr /\ @ < QueueLen THEN @ + 1 ELSE @]
            /\ UNCHANGED conn3
       ELSE conn3' = [conn3 EXCEPT !.receiver = "off"] /\ UNCHANGED str

\* datagrammer.Receive.
TakeDatagram(s) ==
    /\ str[s].queue > 0
    /\ str' = [str EXCEPT ![s].queue = @ - 1]
    /\ UNCHANGED <<conn3, dgrams>>

\* The peer, or setupConn when it cannot send SETTINGS, closes the connection.
ConnCloses3 ==
    /\ conn3.up /\ conn3' = [conn3 EXCEPT !.up = FALSE]
    /\ UNCHANGED <<str, dgrams>>

StreamNext ==
    \/ \E s \in Stream3 :
          \/ OpenRequestStream(s) \/ OpenFails(s) \/ SendRequestHeader(s) \/ SendBody(s)
          \/ Watch(s) \/ ReadResponse(s) \/ ReadFails3(s) \/ Returned(s)
          \/ UserReads(s) \/ UserCloses(s) \/ CtxEnds3s(s) \/ SendSideEnds(s)
          \/ ReceiveDatagram(s) \/ TakeDatagram(s)
    \/ \E u \in UniType : AcceptUniStream(u)
    \/ ConnCloses3

StreamSpec == (StreamInit \/ StreamRest) /\ [][StreamNext]_streamVars

-----------------------------------------------------------------------------
(* Properties.                                                             *)

\* The connection knows exactly the streams that still have an open side, whichever of
\* the caller, the sender, the watcher and the reader closed which side first
\* (stateTrackingStream): a stream is neither kept for ever nor dropped too soon.
StreamsTracked ==
    \A s \in Stream3 :
        str[s].watcher = "on" \/ str[s].pc \in {"read", "body", "await"} \/ s \in conn3.map
        => (s \in conn3.map <=> ~(str[s].sendErr /\ str[s].recvErr))

\* A reader never gets more than Content-Length bytes, and one that got them all and a
\* clean end was announced no more by the DATA frames, however the bytes are cut into
\* frames and reads.  (A server that ends the stream inside a frame ends the body: the
\* reader has got less.)
LengthKept ==
    \A s \in Stream3 :
        str[s].cl >= 0 =>
            /\ str[s].got <= str[s].cl
            /\ str[s].end = "eof" /\ str[s].got = str[s].cl => str[s].announced = str[s].cl
=============================================================================
