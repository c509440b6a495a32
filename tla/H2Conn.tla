------------------------------- MODULE H2Conn -------------------------------
(***************************************************************************)
(* One HTTP/2 connection with its streams (internal/http2/transport.go):   *)
(* for each request roundTrip, doRequest, which writes it, and the reader  *)
(* of its response body; the readLoop of the connection with the handlers  *)
(* of all frames; flow control in both directions (flow.go, pipe.go).      *)
(*                                                                         *)
(* A step is one critical section of cc.mu, wmu or a pipe's mu, except     *)
(* that returned window and the WINDOW_UPDATE that tells the peer are one. *)
(* Bytes are counted in units.  How a request gets on a connection, and    *)
(* GOAWAY, is H2Pool's matter: here the streams have their numbers.        *)
(***************************************************************************)
EXTENDS Integers, FiniteSets, FiniteSetsExt

CONSTANTS
    Stream,            \* the streams of the connection
    Scenarios,         \* what happens on it, each a record with
                       \*   streams   the ones that are opened
                       \*   req       [Stream -> Nat]: request body, 0 for none
                       \*   resp      [Stream -> Nat]: response bytes the server sends
                       \*   known     the streams whose request declares its length
                       \*   expect    the ones that wait for 100 Continue
                       \*   declared  what Content-Length may say; -1: no such header
                       \*   served    the streams the server answers or resets
                       \*   ctx       the streams whose context may end
                       \*   faults    what else may happen: SETTINGS and WINDOW_UPDATE,
                       \*             one above the maximum, informational responses,
                       \*             trailers and padding, resets, frames out of order,
                       \*             the end of the connection
    InitialWindow,     \* the peer's initial window before its SETTINGS
    Windows,           \* the INITIAL_WINDOW_SIZEs a server may announce
    MaxFrame,          \* cc.maxFrameSize
    MaxWindow,         \* 2^31 - 1
    MaxGrant,          \* bound: window a server gives at a time
    Announced,         \* the INITIAL_WINDOW_SIZE of this client's SETTINGS
    StreamFlow,        \* transportDefaultStreamFlow
    ConnFlow,          \* the connection's receive window
    MinRefresh,        \* inflowMinRefresh
    Max1xx             \* max1xxResponses

Kinds == {"overflow", "order", "connection", "window", "reset", "extra"}
ASSUME H2ConnConstants ==
    /\ IsFiniteSet(Stream)
    /\ \A c \in Scenarios :
          /\ c.streams \subseteq Stream /\ c.served \subseteq Stream /\ c.ctx \subseteq Stream
          /\ c.req \in [Stream -> Nat] /\ c.resp \in [Stream -> Nat]
          /\ c.known \subseteq Stream /\ c.expect \subseteq {s \in Stream : c.req[s] > 0}
          /\ c.declared \subseteq Nat \cup {-1} /\ c.faults \subseteq Kinds
    /\ InitialWindow \in Nat /\ Windows \subseteq Nat
    /\ MaxFrame \in Nat \ {0} /\ MaxWindow \in Nat /\ MaxGrant \in Nat
    /\ Announced \in Nat /\ StreamFlow \in Nat /\ ConnFlow \in Nat
    /\ MinRefresh \in Nat /\ Max1xx \in Nat

\* A server's windows stay within the maximum, but for ServerOverflows: the code does
\* not look at what outflow.add returns when INITIAL_WINDOW_SIZE changes.
ASSUME WindowsFit == \A w \in Windows \cup {InitialWindow} : MaxGrant + w <= MaxWindow

\* addStreamLocked opens the receive window with transportDefaultStreamFlow, whatever
\* the client's SETTINGS announced: they must not announce more.
ASSUME AnnouncedFits == Announced <= StreamFlow

VARIABLES
    sc,                \* the scenario
    cc,                \* the ClientConn
    cs,                \* the clientStreams
    sv                 \* the server: for each stream what it has seen and sent, the
                       \* window it has left for it, and the one it thinks it has

vars == <<sc, cc, cs, sv>>

NewStream == [
    pc |-> "new",          \* doRequest
    rt |-> "wait",         \* roundTrip, then the reader of the body
    ctx |-> FALSE, abort |-> "none", err |-> "none",
    left |-> 0, buf |-> 0, eof |-> FALSE, tok |-> 0, bodyClosed |-> FALSE,
    sentHdr |-> FALSE, sentEnd |-> FALSE, flow |-> 0,
    past |-> FALSE, n1xx |-> 0, peer |-> FALSE, readAborted |-> FALSE,
    res |-> "none", big |-> FALSE, remain |-> -1,
    avail |-> 0, unsent |-> 0,
    pipe |-> FALSE, pbuf |-> 0, perr |-> "none", broken |-> FALSE, unread |-> 0,
    hand |-> 0, out |-> "none", got |-> 0]

NewServer == [seen |-> FALSE, hdr |-> FALSE, ended |-> FALSE, reset |-> FALSE, rst |-> FALSE,
              sent |-> 0, win |-> 0, credit |-> Announced]

Init ==
    /\ sc \in Scenarios
    /\ cc = [flow |-> InitialWindow, init |-> InitialWindow, avail |-> ConnFlow,
             unsent |-> 0, closed |-> FALSE, reading |-> TRUE, stuck |-> FALSE,
             flowErr |-> FALSE, win |-> InitialWindow, credit |-> ConnFlow]
    /\ cs = [s \in Stream |-> [NewStream EXCEPT !.left = sc.req[s]]]
    /\ sv = [s \in Stream |-> NewServer]

-----------------------------------------------------------------------------
(* flow.go                                                                 *)

Min2(a, b) == IF a < b THEN a ELSE b
OrElse(a, b) == IF a = "none" THEN b ELSE a

\* Only stream s changes, to state k; only the server's side of it does.
Becomes(s, k) == [cs EXCEPT ![s] = k]
ServerBecomes(s, v) == [sv EXCEPT ![s] = v]

\* inflow.add on the window f: small amounts are kept back.
InflowAdd(f, n) ==
    LET u == f.unsent + n
    IN  IF u < MinRefresh /\ u < f.avail
        THEN [f EXCEPT !.unsent = u]
        ELSE [f EXCEPT !.unsent = 0, !.avail = @ + u]
Sent(f, n) == InflowAdd(f, n).avail - f.avail

\* outflow.available, take and add.
Available(s) == Min2(cs[s].flow, cc.flow)
OutflowAdd(n, d) == IF n + d > MaxWindow THEN n ELSE n + d

\* n units of the connection's window go back to the peer.
ReturnConn(c, n) == [InflowAdd(c, n) EXCEPT !.credit = @ + Sent(c, n)]

-----------------------------------------------------------------------------
(* Locks, the condition variable, aborts.                                  *)

Mu == ~cc.stuck                        \* cc.mu can be had
HasBody(s) == sc.req[s] > 0
Known(s) == cs[s].pc \notin {"new", "done"}
StreamByID(s) == Known(s) /\ ~cs[s].readAborted

Woken(k) == IF k.pc = "cond" THEN [k EXCEPT !.pc = "flow"] ELSE k
Broadcast(q) == [t \in Stream |-> Woken(q[t])]

Aborted(t, k, e) == [k EXCEPT !.abort = OrElse(@, e), !.bodyClosed = @ \/ HasBody(t)]

\* Faulty variant: nobody is woken.
AbortSilently(q, S, e) == [t \in Stream |-> IF t \in S THEN Aborted(t, q[t], e) ELSE q[t]]

\* abortStreamLocked for the streams S.
Abort(q, S, e) ==
    Broadcast([t \in Stream |-> IF t \in S THEN Aborted(t, q[t], e) ELSE q[t]])

Step(s, to) == Becomes(s, [cs[s] EXCEPT !.pc = to])
\* The body is no longer written: windows and what is left do not matter any more.
Stopped(s, to, e) == [cs[s] EXCEPT !.pc = to, !.err = e, !.left = 0, !.buf = 0,
                                   !.eof = FALSE, !.tok = 0, !.flow = 0]
Stop(s, to, e) == Becomes(s, Stopped(s, to, e))
Fail(s, e) == Stop(s, "close", e)
Sending(s) == cs[s].pc \in {"hdrs", "w100", "read", "flow", "cond", "data"}
\* What a select over abort and the context may return.
EndErrors(s) == ({cs[s].abort} \ {"none"}) \cup (IF cs[s].ctx THEN {"ctx"} ELSE {})

-----------------------------------------------------------------------------
(* doRequest: writeRequest.                                                *)

\* addStreamLocked.  From now on the server's SETTINGS concern this stream.
AddStream(s) ==
    /\ Mu /\ s \in sc.streams /\ cs[s].pc = "new"
    /\ cs' = Becomes(s, [cs[s] EXCEPT !.pc = "hdrs", !.flow = cc.init, !.avail = StreamFlow])
    /\ sv' = ServerBecomes(s, [sv[s] EXCEPT !.win = cc.init])
    /\ UNCHANGED cc

\* encodeAndWriteHeaders and the step to the body.
WriteHeaders(s) ==
    /\ cs[s].pc = "hdrs"
    /\ \/ (\E e \in EndErrors(s) : cs' = Fail(s, e)) /\ UNCHANGED sv
       \/ /\ EndErrors(s) = {}
          /\ cs' = Becomes(s, [cs[s] EXCEPT !.sentHdr = TRUE, !.sentEnd = ~HasBody(s),
                                            !.pc = IF ~HasBody(s) THEN "wait"
                                                   ELSE IF s \in sc.expect THEN "w100" ELSE "read"])
          /\ sv' = ServerBecomes(s, [sv[s] EXCEPT !.seen = TRUE])
    /\ UNCHANGED cc

\* The wait for 100 Continue: the timer, the 100, or an end.
Wait100(s) ==
    /\ cs[s].pc = "w100"
    /\ \/ cs' = Step(s, "read")
       \/ \E e \in EndErrors(s) : cs' = Fail(s, e)
    /\ UNCHANGED <<cc, sv>>

\* body.Read in writeRequestBody: n units, with or without the end of the body.
\* A body of declared length is asked once more after its last unit.
ReadBody(s, n, eof) ==
    LET k == cs[s] IN
    /\ Mu /\ k.pc = "read" /\ n \in 0..k.left
    /\ n = 0 => eof
    /\ eof => n = k.left
    /\ s \in sc.known /\ n = k.left => eof
    /\ cs' = IF k.bodyClosed /\ eof THEN Stop(s, "wait", "none")
             ELSE Becomes(s, [k EXCEPT !.left = @ - n, !.buf = n, !.eof = eof,
                                       !.pc = IF n > 0 THEN "flow" ELSE "last"])
    /\ UNCHANGED <<cc, sv>>

\* It fails: an error of the source, a closed body, more than was declared.
ReadBodyFails(s) ==
    /\ Mu /\ cs[s].pc = "read"
    /\ cs' = IF cs[s].bodyClosed THEN Stop(s, "wait", "none") ELSE Fail(s, "err")
    /\ UNCHANGED <<cc, sv>>

\* Faulty variant: tokens are taken from the stream's window only.
TakeFromStream(s, n) == cc.flow

\* outflow.take on the connection's share.
TakeFromConn(s, n) == cc.flow - n

\* awaitFlowControl.
AwaitFlowControl(s) ==
    LET n == Min2(Min2(Available(s), cs[s].buf), MaxFrame) IN
    /\ Mu /\ cs[s].pc = "flow"
    /\ \/ cc.closed /\ cs' = Fail(s, "err") /\ UNCHANGED cc
       \/ ~cc.closed /\ cs[s].bodyClosed /\ cs' = Stop(s, "wait", "none") /\ UNCHANGED cc
       \/ /\ ~cc.closed /\ ~cs[s].bodyClosed
          /\ (\E e \in EndErrors(s) : cs' = Fail(s, e)) /\ UNCHANGED cc
       \/ /\ ~cc.closed /\ ~cs[s].bodyClosed /\ EndErrors(s) = {}
          /\ IF Available(s) > 0
             THEN /\ cs' = Becomes(s, [cs[s] EXCEPT !.flow = @ - n, !.tok = n, !.pc = "data"])
                  /\ cc' = [cc EXCEPT !.flow = TakeFromConn(s, n)]
             ELSE cs' = Step(s, "cond") /\ UNCHANGED cc
    /\ UNCHANGED sv

\* The DATA frame goes out under wmu.
WriteData(s) ==
    LET rest == cs[s].buf - cs[s].tok
        end  == cs[s].eof /\ rest = 0
    IN  /\ cs[s].pc = "data"
        /\ cs' = IF end THEN Becomes(s, [Stopped(s, "wait", "none") EXCEPT !.sentEnd = TRUE])
                 ELSE Becomes(s, [cs[s] EXCEPT !.buf = rest, !.tok = 0,
                                               !.pc = IF rest > 0 THEN "flow" ELSE "read"])
        /\ sv' = ServerBecomes(s, [sv[s] EXCEPT !.win = @ - cs[s].tok])
        /\ cc' = [cc EXCEPT !.win = @ - cs[s].tok]

\* The end of a body that ended without data: trailers or an empty DATA frame.
WriteLast(s) ==
    /\ Mu /\ cs[s].pc = "last"
    /\ cs' = IF cs[s].abort # "none" THEN Fail(s, cs[s].abort)
             ELSE Becomes(s, [Stopped(s, "wait", "none") EXCEPT !.sentEnd = TRUE])
    /\ UNCHANGED <<cc, sv>>

\* A write fails for good (werr): the frame is lost.
WriteFails(s) ==
    /\ ~cc.reading /\ cs[s].pc \in {"hdrs", "data", "last"}
    /\ cs' = Fail(s, "err")
    /\ UNCHANGED <<cc, sv>>

\* The wait at the end of writeRequest.
WaitPeer(s) ==
    /\ cs[s].pc = "wait"
    /\ \/ cs[s].peer /\ cs' = Fail(s, "none")
       \/ \E e \in EndErrors(s) : cs' = Fail(s, e)
       \/ cs[s].res = "none" /\ cs' = Fail(s, "err")       \* ResponseHeaderTimeout
    /\ UNCHANGED <<cc, sv>>

-----------------------------------------------------------------------------
(* doRequest: cleanupWriteRequest.                                         *)

CleanBody(s) ==
    /\ Mu /\ cs[s].pc = "close"
    /\ cs' = Becomes(s, [cs[s] EXCEPT !.bodyClosed = HasBody(s), !.pc = "clean"])
    /\ UNCHANGED <<cc, sv>>

\* Faulty variant: no RST_STREAM after a response to a request half sent.
NeedsResetOnError(s, e) == cs[s].sentHdr /\ e \in {"ctx", "err"}

\* Whether cleanupWriteRequest sends RST_STREAM; e is the error that is left.
NeedsReset(s, e) == cs[s].sentHdr /\ (e \in {"ctx", "err"} \/ (e = "none" /\ ~cs[s].sentEnd))

CleanError(s) == IF cs[s].sentEnd /\ cs[s].peer THEN "none" ELSE cs[s].err

\* abortStream, RST_STREAM and the end of bufPipe.
CleanUp(s) ==
    LET e == CleanError(s)
        q == Becomes(s, [cs[s] EXCEPT !.pc = "forget", !.perr = OrElse(@, "err")])
    IN  /\ Mu /\ cs[s].pc = "clean"
        /\ cs' = IF e = "none" THEN q ELSE Abort(q, {s}, e)
        /\ sv' = ServerBecomes(s, [sv[s] EXCEPT !.rst = @ \/ NeedsReset(s, e)])
        /\ UNCHANGED cc

\* forgetStreamID and close(donec); when a write has failed (werr) the connection
\* is closed with all its streams.
ForgetStreamID(s) ==
    LET q == Becomes(s, [cs[s] EXCEPT !.pc = "done", !.err = "none", !.n1xx = 0]) IN
    /\ Mu /\ cs[s].pc = "forget"
    /\ \/ cs' = Broadcast(q)
       \/ ~cc.reading /\ cc.closed
          /\ cs' = Abort(q, {t \in Stream \ {s} : Known(t)}, "err")
    /\ UNCHANGED <<cc, sv>>

-----------------------------------------------------------------------------
(* roundTrip and the caller.                                               *)

CtxDone(s) ==
    /\ s \in sc.ctx /\ ~cs[s].ctx /\ cs[s].rt # "gone"
    /\ cs' = Becomes(s, [cs[s] EXCEPT !.ctx = TRUE])
    /\ UNCHANGED <<cc, sv>>

\* handleResponseHeaders: a response above 299 stops the request body.
GotResponse(s) ==
    LET stop == cs[s].big /\ HasBody(s) /\ ~cs[s].bodyClosed
        q == Becomes(s, [cs[s] EXCEPT !.big = FALSE, !.bodyClosed = @ \/ stop,
                                      !.rt = IF cs[s].res = "body" THEN "body"
                                             ELSE IF HasBody(s) \/ cs[s].res = "missing" THEN "gone"
                                             ELSE "drain"])
    IN  /\ Mu /\ cs[s].rt = "wait" /\ cs[s].res # "none"
        /\ cs' = IF stop THEN Broadcast(q) ELSE q
        /\ UNCHANGED <<cc, sv>>

GotAbort(s) ==
    /\ cs[s].rt = "wait" /\ cs[s].abort # "none" /\ cs[s].res = "none"
    /\ cs' = Becomes(s, [cs[s] EXCEPT !.rt = "drain"])
    /\ UNCHANGED <<cc, sv>>

GotCtx(s) ==
    /\ Mu /\ cs[s].rt = "wait" /\ cs[s].ctx
    /\ cs' = Abort(Becomes(s, [cs[s] EXCEPT !.rt = "gone", !.big = FALSE]), {s}, "ctx")
    /\ UNCHANGED <<cc, sv>>

\* waitDone.
Drained(s) ==
    /\ cs[s].rt = "drain" /\ (cs[s].pc = "done" \/ cs[s].ctx)
    /\ cs' = Becomes(s, [cs[s] EXCEPT !.rt = "gone", !.unread = 0])
    /\ UNCHANGED <<cc, sv>>

\* transportResponseBody.Read gets n units from the pipe.
PipeRead(s, n) ==
    LET k == cs[s] IN
    /\ k.rt = "body" /\ k.out = "none" /\ ~k.broken /\ n \in 1..k.pbuf
    /\ IF k.remain # -1 /\ n > k.remain
       THEN /\ Mu
            /\ cs' = Abort(Becomes(s, [k EXCEPT !.pbuf = @ - n, !.out = "err",
                                                !.got = @ + k.remain]), {s}, "err")
       ELSE cs' = Becomes(s, [k EXCEPT !.pbuf = @ - n, !.hand = n, !.got = @ + n, !.rt = "back",
                                       !.remain = IF @ = -1 THEN -1 ELSE @ - n])
    /\ UNCHANGED <<cc, sv>>

\* Faulty variant: what was declared is not compared with what came.
PipeEndUnchecked(s) ==
    LET k == cs[s] IN
    /\ k.rt = "body" /\ k.out = "none" /\ ~k.broken /\ k.pbuf = 0 /\ k.perr # "none"
    /\ cs' = Becomes(s, [k EXCEPT !.out = k.perr, !.pipe = FALSE])
    /\ UNCHANGED <<cc, sv>>

\* The pipe is empty and closed: the end of the body, or an error.
PipeEnd(s) ==
    LET k == cs[s] IN
    /\ k.rt = "body" /\ k.out = "none" /\ ~k.broken /\ k.pbuf = 0 /\ k.perr # "none"
    /\ cs' = Becomes(s, [k EXCEPT !.out = IF k.perr = "eof" /\ k.remain <= 0 THEN "eof" ELSE "err",
                                  !.pipe = FALSE])
    /\ UNCHANGED <<cc, sv>>

\* Read returns the window of what it read, to the connection and the stream.
AddBack(s) ==
    LET n == cs[s].hand IN
    /\ Mu /\ cs[s].rt = "back"
    /\ cs' = Becomes(s, [InflowAdd(cs[s], n) EXCEPT !.hand = 0, !.rt = "body"])
    /\ sv' = ServerBecomes(s, [sv[s] EXCEPT !.credit = @ + Sent(cs[s], n)])
    /\ cc' = ReturnConn(cc, n)

\* Faulty variant: what is left in the pipe can still be read.
BreakKeepsBuffer(k) == [k EXCEPT !.broken = TRUE, !.unread = @ + k.pbuf]

\* bufPipe.BreakWithError.
Break(k) ==
    IF k.broken THEN k
    ELSE [k EXCEPT !.broken = TRUE, !.unread = @ + k.pbuf, !.pbuf = 0, !.pipe = FALSE]

\* transportResponseBody.Close, first part: nothing more goes into the pipe.
CloseBreaks(s) ==
    /\ cs[s].rt = "body"
    /\ cs' = Becomes(s, [Break(cs[s]) EXCEPT !.rt = "close", !.out = "none",
                                             !.got = 0, !.remain = -1])
    /\ UNCHANGED <<cc, sv>>

\* ... the rest: the stream is aborted and what nobody will read is returned.
CloseReturns(s) ==
    /\ Mu /\ cs[s].rt = "close"
    /\ cs' = Abort(Becomes(s, [cs[s] EXCEPT !.rt = "drain"]), {s}, "err")
    /\ cc' = IF cs[s].unread > 0 THEN ReturnConn(cc, cs[s].unread) ELSE cc
    /\ UNCHANGED sv

-----------------------------------------------------------------------------
(* The server, and the handlers readLoop runs for its frames.  A server    *)
(* may go on with a stream whose RST_STREAM it has not seen yet.           *)

Reads == cc.reading /\ Mu
Serves(s) == s \in sc.served /\ Reads /\ sv[s].seen /\ ~sv[s].ended /\ ~sv[s].reset

\* endStreamError.
EndStreamError(s, k) == Abort(Becomes(s, [k EXCEPT !.readAborted = TRUE]), {s}, "err")

\* endStream, with the pipe closed and peerClosed set in one section.
EndStream(s, k) == Becomes(s, [k EXCEPT !.peer = TRUE, !.perr = OrElse(@, "eof")])

\* processHeaders and handleResponse for an informational response.
ServerInforms(s) ==
    /\ "extra" \in sc.faults /\ Serves(s) /\ ~sv[s].hdr /\ StreamByID(s)
    /\ cs' = IF cs[s].n1xx = Max1xx THEN EndStreamError(s, cs[s])
             ELSE Becomes(s, [cs[s] EXCEPT !.n1xx = @ + 1])
    /\ UNCHANGED <<cc, sv>>

\* processHeaders for the response: its length as declared, with or without a body.
ServerResponds(s, cl, big, end) ==
    LET k == cs[s]
        res == IF ~end THEN "body" ELSE IF cl > 0 THEN "missing" ELSE "nobody"
        j == [k EXCEPT !.past = TRUE, !.n1xx = 0, !.res = res, !.big = big /\ HasBody(s),
                       !.remain = cl, !.pipe = ~end /\ k.perr = "none" /\ ~k.broken]
    IN  /\ Serves(s) /\ ~sv[s].hdr
        /\ cs' = IF ~StreamByID(s) THEN cs ELSE IF end THEN EndStream(s, j) ELSE Becomes(s, j)
        /\ sv' = ServerBecomes(s, [sv[s] EXCEPT !.hdr = TRUE, !.ended = end])
        /\ UNCHANGED cc

\* Trailers: processTrailers.
ServerTrailers(s) ==
    /\ "extra" \in sc.faults /\ Serves(s) /\ sv[s].hdr
    /\ cs' = IF StreamByID(s) THEN EndStream(s, cs[s]) ELSE cs
    /\ sv' = ServerBecomes(s, [sv[s] EXCEPT !.ended = TRUE])
    /\ UNCHANGED cc

\* processData for n units of data and pad of padding within the windows the
\* server knows of.
ServerData(s, n, pad, end) ==
    LET k == cs[s]
        len == n + pad
        took == [k EXCEPT !.avail = @ - len]
        refused == n > 0 /\ (k.perr # "none" \/ k.broken \/ ~k.pipe)
        refund == pad + (IF refused THEN n ELSE 0)
        add == IF refused THEN took ELSE InflowAdd(took, pad)
        j == [add EXCEPT !.pbuf = @ + (IF refused THEN 0 ELSE n)]
        lost == [cc EXCEPT !.reading = FALSE, !.flowErr = TRUE]
        c0 == [cc EXCEPT !.credit = @ - len]
    IN  /\ Serves(s) /\ sv[s].hdr /\ sv[s].sent + n <= sc.resp[s]
        /\ len <= sv[s].credit /\ len <= cc.credit
        /\ len = 0 => end
        /\ pad > 0 => "extra" \in sc.faults /\ sc.resp[s] > 0
        /\ sv' = ServerBecomes(s, [sv[s] EXCEPT !.sent = @ + n, !.ended = end,
                                     !.credit = @ - len
                                        + (IF StreamByID(s) THEN add.avail - took.avail ELSE 0)])
        /\ \/ /\ ~StreamByID(s)
              /\ cc' = IF len > cc.avail THEN lost
                       ELSE ReturnConn([c0 EXCEPT !.avail = @ - len], len)
              /\ UNCHANGED cs
           \/ /\ StreamByID(s) /\ (len > cc.avail \/ len > k.avail)
              /\ cc' = lost /\ UNCHANGED cs
           \/ /\ StreamByID(s) /\ len <= cc.avail /\ len <= k.avail
              /\ cc' = ReturnConn([c0 EXCEPT !.avail = @ - len], refund)
              /\ cs' = IF refused THEN EndStreamError(s, j)
                       ELSE IF end THEN EndStream(s, j) ELSE Becomes(s, j)

\* DATA before HEADERS, DATA or HEADERS after END_STREAM: a stream error.
ServerOutOfOrder(s) ==
    /\ "order" \in sc.faults /\ Reads /\ sv[s].seen /\ ~sv[s].reset
    /\ StreamByID(s) /\ (cs[s].peer \/ ~cs[s].past)
    /\ cs' = EndStreamError(s, cs[s])
    /\ sv' = ServerBecomes(s, [sv[s] EXCEPT !.ended = TRUE])
    /\ UNCHANGED cc

\* processResetStream.
ServerResets(s) ==
    /\ "reset" \in sc.faults /\ Serves(s)
    /\ cs' = IF ~StreamByID(s) THEN cs
             ELSE Abort(Becomes(s, [cs[s] EXCEPT !.perr = OrElse(@, "err")]), {s}, "peer")
    /\ sv' = ServerBecomes(s, [sv[s] EXCEPT !.reset = TRUE])
    /\ UNCHANGED cc

\* The change of INITIAL_WINDOW_SIZE reaches the windows of the open streams.
AdjustStreams(w) ==
    [s \in Stream |-> IF Sending(s) THEN [cs[s] EXCEPT !.flow = OutflowAdd(@, w - cc.init)]
                      ELSE cs[s]]

\* processSettings: INITIAL_WINDOW_SIZE.
ServerSettings(w) ==
    /\ "window" \in sc.faults /\ Reads /\ w # cc.init
    /\ cs' = Broadcast(AdjustStreams(w))
    /\ sv' = [s \in Stream |-> IF Sending(s) THEN [sv[s] EXCEPT !.win = @ + w - cc.init]
                               ELSE sv[s]]
    /\ cc' = [cc EXCEPT !.init = w]

\* processWindowUpdate on the connection.
ServerWindow(n) ==
    /\ "window" \in sc.faults /\ Reads /\ cc.flow + n <= MaxGrant
    /\ cc' = [cc EXCEPT !.flow = OutflowAdd(@, n), !.win = @ + n]
    /\ cs' = Broadcast(cs)
    /\ UNCHANGED sv

\* ... and on a stream.
ServerStreamWindow(s, n) ==
    /\ "window" \in sc.faults /\ Reads /\ HasBody(s) /\ Sending(s) /\ StreamByID(s)
    /\ cs[s].flow + n <= MaxGrant
    /\ cs' = Broadcast(Becomes(s, [cs[s] EXCEPT !.flow = OutflowAdd(@, n)]))
    /\ sv' = ServerBecomes(s, [sv[s] EXCEPT !.win = @ + n])
    /\ UNCHANGED cc

\* A WINDOW_UPDATE above the maximum: endStreamError wants the lock
\* processWindowUpdate holds.
ServerOverflows(s) ==
    /\ "overflow" \in sc.faults /\ Serves(s) /\ StreamByID(s)
    /\ cc' = [cc EXCEPT !.stuck = TRUE]
    /\ UNCHANGED <<cs, sv>>

\* The connection is closed; what it knew of windows no longer matters.
DeadConn == [cc EXCEPT !.closed = TRUE, !.reading = FALSE, !.flow = 0, !.win = 0,
                       !.credit = 0, !.init = 0]

\* readLoop's cleanup: every stream the server has not ended is aborted.
ReadLoopCleanup ==
    /\ cc' = DeadConn
    /\ cs' = Abort(cs, {s \in Stream : Known(s) /\ ~cs[s].peer}, "err")
    /\ UNCHANGED sv

\* The server hangs up, or breaks the protocol of the connection (PUSH_PROMISE,
\* trailers without END_STREAM, DATA nobody asked for, no SETTINGS first).
ConnFails == "connection" \in sc.faults /\ Reads /\ ReadLoopCleanup
\* readLoop ends with the error processData returned.
ReadLoopEnds == Mu /\ cc.flowErr /\ ~cc.closed /\ ReadLoopCleanup

\* closeForError: the ping of healthCheck was lost, or Close.  readLoop's cleanup,
\* which follows, finds nothing left to abort.
CloseForError ==
    /\ "connection" \in sc.faults /\ Mu /\ ~cc.closed
    /\ cc' = DeadConn
    /\ cs' = Abort(cs, {s \in Stream : Known(s)}, "err")
    /\ UNCHANGED sv

-----------------------------------------------------------------------------
DoRequest(s) ==
    \/ AddStream(s) \/ WriteHeaders(s) \/ Wait100(s) \/ (\E n \in 0..sc.req[s], e \in BOOLEAN : ReadBody(s, n, e))
    \/ AwaitFlowControl(s) \/ WriteData(s) \/ WriteLast(s) \/ WriteFails(s)
    \/ WaitPeer(s) \/ CleanBody(s) \/ CleanUp(s) \/ ForgetStreamID(s)

Caller(s) ==
    \/ GotResponse(s) \/ GotAbort(s) \/ GotCtx(s) \/ Drained(s)
    \/ (\E n \in 1..sc.resp[s] : PipeRead(s, n)) \/ PipeEnd(s) \/ AddBack(s)
    \/ CloseReturns(s)

Server(s) ==
    \/ ServerInforms(s) \/ ServerTrailers(s) \/ ServerOutOfOrder(s) \/ ServerResets(s)
    \/ \E cl \in sc.declared, big \in BOOLEAN, end \in BOOLEAN : ServerResponds(s, cl, big, end)
    \/ \E n \in 0..sc.resp[s], pad \in 0..1, end \in BOOLEAN : ServerData(s, n, pad, end)
    \/ \E n \in 1..MaxGrant : ServerStreamWindow(s, n)
    \/ ServerOverflows(s)

Conn ==
    \/ \E w \in Windows : ServerSettings(w)
    \/ \E n \in 1..MaxGrant : ServerWindow(n)
    \/ ConnFails \/ CloseForError

AllDone ==
    /\ \A s \in sc.streams : cs[s].pc = "done" /\ cs[s].rt = "gone"
    /\ UNCHANGED vars

Next ==
    \/ UNCHANGED sc
       /\ \/ \E s \in Stream : \/ DoRequest(s) \/ Caller(s) \/ Server(s) \/ CtxDone(s)
                                \/ ReadBodyFails(s) \/ CloseBreaks(s)
          \/ Conn \/ ReadLoopEnds
    \/ AllDone

Spec == Init /\ [][Next]_vars

\* Goroutines run; a caller closes the body it got.  Servers owe nothing.
FairSpec ==
    /\ Spec
    /\ \A s \in Stream : /\ WF_vars(DoRequest(s) /\ UNCHANGED sc)
                         /\ WF_vars(Caller(s) /\ UNCHANGED sc)
                         /\ WF_vars(CloseBreaks(s) /\ UNCHANGED sc)
    /\ WF_vars(ReadLoopEnds /\ UNCHANGED sc)

-----------------------------------------------------------------------------
(* Properties.                                                             *)

\* The sum of f over the streams.
Total(f) == MapThenSumSet(LAMBDA s : f[s], Stream)

\* The client's idea of every send window is the server's, and the connection's
\* window is never overrun: nothing taken is lost or taken twice, whatever SETTINGS,
\* WINDOW_UPDATE and other writers do between awaitFlowControl and the write.
WindowsAgree ==
    cc.reading =>
    /\ cc.win >= 0
    /\ cc.win = cc.flow + Total([s \in Stream |-> cs[s].tok])
    /\ \A s \in Stream : Sending(s) => sv[s].win = cs[s].flow + cs[s].tok

\* What of stream k came in and has not been returned to the connection's window.
InPipe(k) == k.pbuf + k.hand + (IF k.rt = "close" THEN k.unread ELSE 0)

\* The receive windows are kept by both sides: a server that keeps to the windows it
\* was told is never accused of FLOW_CONTROL_ERROR, and a window is never given out
\* twice: what may still come, what is held back and what is buffered stay within it
\* (takeInflows against addStreamLocked, newClientConn and every WINDOW_UPDATE; pipe
\* and inflow together).
ReceiveWindowKept ==
    /\ ~cc.flowErr
    /\ cc.avail + cc.unsent + Total([s \in Stream |-> InPipe(cs[s])]) <= ConnFlow
    /\ \A s \in Stream : cs[s].avail + cs[s].unsent + cs[s].pbuf + cs[s].hand <= StreamFlow

\* A reader that sees the end of its body has read all the server sent, on a stream
\* the server ended, and as much as was declared (endStream, cleanup, reset, Read).
EOFMeansComplete ==
    \A s \in Stream : cs[s].out = "eof"
        => sv[s].ended /\ cs[s].got = sv[s].sent /\ cs[s].remain <= 0

\* When doRequest is over the server does not keep the stream open: it was reset by
\* either side or ended by both (cleanupWriteRequest).
NoStreamLeftOpen ==
    \A s \in Stream : cs[s].pc = "done" /\ sv[s].seen /\ cc.reading
        => sv[s].rst \/ sv[s].reset \/ (cs[s].sentEnd /\ sv[s].ended)

\* An aborted stream is cleaned up and its caller returns, wherever its writer waits,
\* unless a WINDOW_UPDATE above the maximum has stuck the connection's lock
\* (ServerOverflows).
AbortedStreamsEnd ==
    \A s \in Stream : (cs[s].abort # "none") ~> (cc.stuck \/ (cs[s].pc = "done" /\ cs[s].rt = "gone"))
=============================================================================
