----------------------------- MODULE PersistConn -----------------------------
(***************************************************************************)
(* One HTTP/1 connection (persistConn, transport.go) and the requests the  *)
(* pool sends over it: readLoop, writeLoop, the callers of roundTrip, the  *)
(* readers of the response bodies, and a server that answers each request  *)
(* it gets, or gives the connection up.                                    *)
(*                                                                         *)
(* A step is what one goroutine does between two points where another can  *)
(* overtake it: a channel operation, a select, a section of pc.mu, a read  *)
(* or a write of the network connection.                                   *)
(***************************************************************************)
EXTENDS Integers, Sequences

CONSTANTS
    Req,                     \* the requests that may use the connection
    Replayable,              \* isReplayable: idempotent, and the body can be had again
    Rewindable,              \* no body, or GetBody
    Expecting,               \* sent with Expect: 100-continue
    Answers,                 \* the kinds of response the server gives
    ResponseHeaderTimeout,   \* whether one is configured
    None

\* The kinds of response: without and with a body, the same with Connection:
\* close, and 101 Switching Protocols, after which the caller owns the network
\* connection.
HasBody == {"body", "lastBody"}
Closing == {"last", "lastBody"}
Final   == {"plain", "switch"} \cup HasBody \cup Closing

ASSUME RequestKinds ==
    /\ Replayable \subseteq Rewindable /\ Rewindable \subseteq Req /\ Expecting \subseteq Req
    /\ Answers \subseteq Final
    /\ ResponseHeaderTimeout \in BOOLEAN
    /\ None \notin Req

VARIABLES
    call,    \* [Req -> record]: a roundTrip, its transportRequest and its channels
    pc,      \* the fields of persistConn, and where the pool has it
    ch,      \* the channels of persistConn: writech, reqch, writeErrCh
    w,       \* writeLoop: where it is, the request, the result of the write
    rl,      \* readLoop: where it is, the requestAndChan, the response, its variables
    sent,    \* what has gone out: begun, whole: sets of requests
    srv      \* the server: wire (bytes under way to us), eof, answered, continued

vars == <<call, pc, ch, w, rl, sent, srv>>

Errors == {"serverClosedIdle", "peekFailed", "read", "response", "write", "nothingWritten",
           "timeout", "canceled", "readLoopExiting", "refused", "closedByPool", "callerOwnsConn",
           "broken", "badBody"}

ASSUME NoneApart == None \notin Errors \cup {"ok", "failed"}

\* What roundTrip returned, and whose response or whose cancellation it is.
Outcomes == ({"none", "resent", "response"} \cup Errors) \X (Req \cup {None})

\* Every variable has a value of its type, and no channel holds more than the
\* capacity the code gives it (roundTrip, readLoop, dialConn).
TypeOK ==
    /\ call \in [Req -> [at    : {"new", "got", "write", "queue", "select", "map", "done"},
                         out   : Outcomes,
                         live  : BOOLEAN,                       \* ctx is not done
                         wch   : {None, "ok", "failed"},        \* its writeErrCh
                         timer : BOOLEAN,                       \* respHeaderTimer
                         start : Nat,                           \* startBytesWritten
                         err   : Errors \cup {None},            \* what it has mapRoundTripError map
                         bad   : BOOLEAN,                       \* transportRequest.err is set
                         cont  : {"empty", "full", "closed"},   \* continueCh
                         body  : {"none", "open", "failed", "eof", "closing", "over"},
                         bodyRead : Seq(BOOLEAN)]]              \* waitForBodyRead
    /\ pc \in [closed : Errors \cup {None}, canceledErr : Req \cup {None}, nwrite : Nat,
               expected : Nat, reused : BOOLEAN, pool : {"idle", "taken", "gone"}]
    /\ ch \in [write : Seq(Req), req : Seq(Req), err : Seq({"ok", "failed"})]
    /\ Len(ch.write) <= 1 /\ Len(ch.req) <= 1 /\ Len(ch.err) <= 1
    /\ \A r \in Req : Len(call[r].bodyRead) <= 2
    /\ w \in [at : {"idle", "begin", "part", "await", "report", "tell", "done"},
              req : Req \cup {None}, res : {None, "ok", "failed"}]
    /\ rl \in [at : {"peek", "take", "read", "fail", "wrote", "put", "send", "sendBody", "wait", "eofc",
                     "exit", "close", "remove", "done"},
               req : Req \cup {None}, peekOK : BOOLEAN, resp : [req : Req \cup {None}, kind : Final] \cup {None},
               alive : BOOLEAN, closeErr : Errors, saw100 : BOOLEAN]
    /\ sent \in [begun : SUBSET Req, whole : SUBSET Req]
    /\ srv \in [wire : Seq([req : Req \cup {None}, kind : Final \cup {"continue", "bytes"}]),
                eof : BOOLEAN, answered : SUBSET Req, continued : SUBSET Req]

\* A connection just dialed, its two loops started.  If no one was waiting for it
\* it has been through tryPutIdleConn, which marks it reused.
Init ==
    /\ call = [r \in Req |->
                 [at |-> "new", out |-> <<"none", None>>, live |-> TRUE, wch |-> None, timer |-> FALSE, start |-> 0,
                  err |-> None, bad |-> FALSE, cont |-> "empty", body |-> "none", bodyRead |-> <<>>]]
    /\ \E reused \in BOOLEAN :
         pc = [closed |-> None, canceledErr |-> None, nwrite |-> 0, expected |-> 0, reused |-> reused,
               pool |-> "idle"]
    /\ ch = [write |-> <<>>, req |-> <<>>, err |-> <<>>]
    /\ w = [at |-> "idle", req |-> None, res |-> None]
    /\ rl = [at |-> "peek", req |-> None, peekOK |-> TRUE, resp |-> None, alive |-> TRUE,
             closeErr |-> "readLoopExiting", saw100 |-> FALSE]
    /\ sent = [begun |-> {}, whole |-> {}]
    /\ srv = [wire |-> <<>>, eof |-> FALSE, answered |-> {}, continued |-> {}]

\* closeLocked: only the first error stays.
Close(p, err) == [p EXCEPT !.closed = IF @ = None THEN err ELSE @]

\* cancelRequest, with the cause of r's context.
CancelRequest(p, r) == [Close(p, "canceled") EXCEPT !.canceledErr = r]

\* call[r] goes to at.
To(r, at) == [call EXCEPT ![r].at = at]

\* call[r] becomes c.
Becomes(r, c) == [call EXCEPT ![r] = c]

-----------------------------------------------------------------------------
(* roundTrip.                                                              *)

\* getConn hands the idle connection out unless it is known to be broken.
Acquire(r) ==
    /\ call[r].at = "new" /\ pc.pool = "idle" /\ pc.closed = None
    /\ call' = To(r, "got")
    /\ pc' = [pc EXCEPT !.pool = "taken"]
    /\ UNCHANGED <<ch, w, rl, sent, srv>>

ExpectResponse(r) ==
    /\ call[r].at = "got"
    /\ call' = To(r, "write")
    /\ pc' = [pc EXCEPT !.expected = @ + 1]
    /\ UNCHANGED <<ch, w, rl, sent, srv>>

SendToWriteLoop(r) ==
    /\ call[r].at = "write" /\ ch.write = <<>>
    /\ call' = Becomes(r, [call[r] EXCEPT !.at = "queue", !.start = pc.nwrite])
    /\ ch' = [ch EXCEPT !.write = <<r>>]
    /\ UNCHANGED <<pc, w, rl, sent, srv>>

SendToReadLoop(r) ==
    /\ call[r].at = "queue" /\ ch.req = <<>>
    /\ call' = To(r, "select")
    /\ ch' = [ch EXCEPT !.req = <<r>>]
    /\ UNCHANGED <<pc, w, rl, sent, srv>>

\* Faulty variant: no timer is started once the request is written.
WriteReportedNoTimer(r) ==
    /\ call[r].at = "select" /\ call[r].wch # None
    /\ \/ /\ call[r].wch = "failed"
          /\ pc' = Close(pc, "write")
          /\ call' = Becomes(r, [call[r] EXCEPT !.at = "map", !.wch = None, !.err = "write"])
       \/ /\ call[r].wch = "ok"
          /\ call' = [call EXCEPT ![r].wch = None]
          /\ UNCHANGED pc
    /\ UNCHANGED <<ch, w, rl, sent, srv>>

\* The select: the write is over.
WriteReported(r) ==
    /\ call[r].at = "select" /\ call[r].wch # None
    /\ \/ /\ call[r].wch = "failed"
          /\ pc' = Close(pc, "write")
          /\ call' = Becomes(r, [call[r] EXCEPT !.at = "map", !.wch = None, !.err = "write"])
       \/ /\ call[r].wch = "ok"
          /\ call' = Becomes(r, [call[r] EXCEPT !.wch = None, !.timer = ResponseHeaderTimeout])
          /\ UNCHANGED pc
    /\ UNCHANGED <<ch, w, rl, sent, srv>>

\* The connection is closed, and readLoop is not blocked offering a response.
ConnClosed(r) ==
    /\ call[r].at = "select" /\ pc.closed # None
    /\ call' = Becomes(r, [call[r] EXCEPT !.at = "map", !.err = pc.closed])
    /\ UNCHANGED <<pc, ch, w, rl, sent, srv>>

\* errTimeout is returned as it is; Transport.roundTrip cancels the context.
HeaderTimeout(r) ==
    /\ call[r].at = "select" /\ call[r].timer
    /\ pc' = Close(pc, "timeout")
    /\ call' = Becomes(r, [call[r] EXCEPT !.at = "done", !.out = <<"timeout", None>>, !.live = FALSE])
    /\ UNCHANGED <<ch, w, rl, sent, srv>>

\* The context is done, and readLoop is not blocked offering a response:
\* cancelRequest, and round again, to find the connection closed.
CtxDone(r) ==
    /\ call[r].at = "select" /\ ~call[r].live
    /\ pc.canceledErr # r
    /\ pc' = CancelRequest(pc, r)
    /\ UNCHANGED <<call, ch, w, rl, sent, srv>>

\* The user cancels a request, or gives up a response it is reading.
UserCancels(r) ==
    /\ call[r].live /\ call[r].at # "new" /\ (call[r].at = "done" => call[r].body = "open")
    /\ call' = [call EXCEPT ![r].live = FALSE]
    /\ UNCHANGED <<pc, ch, w, rl, sent, srv>>

\* What mapRoundTripError makes of call[r].err: a cancellation comes first, then
\* the error of the request body, then what the connection died of, unless none
\* of the request went out.
Mapped(r) ==
    CASE pc.canceledErr # None -> "canceled"
      [] pc.canceledErr = None /\ call[r].bad -> "badBody"
      [] OTHER -> IF call[r].err = "serverClosedIdle" THEN call[r].err
                  ELSE IF pc.nwrite = call[r].start THEN "nothingWritten"
                  ELSE IF call[r].err = "read" THEN call[r].err
                  ELSE "broken"

\* shouldRetryRequest; what it lets through rewindBody can rewind.
ShouldRetry(r, err) ==
    /\ pc.reused
    /\ \/ err = "nothingWritten" /\ r \in Rewindable
       \/ err \in {"read", "serverClosedIdle"} /\ r \in Replayable

\* Transport.roundTrip goes on: another connection, or an error.
Failed(r, err) ==
    IF ShouldRetry(r, err)
    THEN Becomes(r, [call[r] EXCEPT !.at = "done", !.out = <<"resent", None>>])
    ELSE Becomes(r, [call[r] EXCEPT !.at = "done", !.out = <<err, pc.canceledErr>>, !.live = FALSE])

\* Faulty variant: the error is mapped while writeLoop may still be writing.
MapErrorNoWait(r) ==
    /\ call[r].at = "map"
    /\ call' = Failed(r, Mapped(r))
    /\ UNCHANGED <<pc, ch, w, rl, sent, srv>>

\* mapRoundTripError waits for writeLoop to be over.
MapError(r) ==
    /\ call[r].at = "map" /\ w.at = "done"
    /\ call' = Failed(r, Mapped(r))
    /\ UNCHANGED <<pc, ch, w, rl, sent, srv>>

RoundTrip(r) ==
    \/ ExpectResponse(r) \/ SendToWriteLoop(r) \/ SendToReadLoop(r)
    \/ WriteReported(r) \/ ConnClosed(r) \/ HeaderTimeout(r) \/ CtxDone(r) \/ MapError(r)

-----------------------------------------------------------------------------
(* writeLoop.                                                              *)

TakeWrite ==
    /\ w.at = "idle" /\ ch.write # <<>>
    /\ w' = [w EXCEPT !.at = "begin", !.req = Head(ch.write)]
    /\ ch' = [ch EXCEPT !.write = <<>>]
    /\ UNCHANGED <<call, pc, rl, sent, srv>>

WriteLoopClosed ==
    /\ w.at = "idle" /\ pc.closed # None
    /\ w' = [w EXCEPT !.at = "done"]
    /\ UNCHANGED <<call, pc, ch, rl, sent, srv>>

\* closeLocked closes the network connection, except one the caller owns.
Open == pc.closed \in {None, "callerOwnsConn"}

\* The first bytes go out; those of an Expect: 100-continue request are its
\* headers, and the body is held back.
WritePart ==
    /\ w.at = "begin" /\ Open
    /\ w' = [w EXCEPT !.at = IF w.req \in Expecting THEN "await" ELSE "part"]
    /\ pc' = [pc EXCEPT !.nwrite = @ + 1]
    /\ sent' = [sent EXCEPT !.begun = @ \cup {w.req}]
    /\ UNCHANGED <<call, ch, rl, srv>>

\* waitForContinue: a token or the timer sends the body, a closed channel or a
\* closed connection skips it.
WaitForContinue ==
    /\ w.at = "await"
    /\ \/ /\ call[w.req].cont # "closed"
          /\ w' = [w EXCEPT !.at = "part"]
          /\ call' = [call EXCEPT ![w.req].cont = "empty"]
       \/ /\ call[w.req].cont = "closed" \/ pc.closed # None
          /\ w' = [w EXCEPT !.at = "report", !.res = "ok"]
          /\ UNCHANGED call
    /\ UNCHANGED <<pc, ch, rl, sent, srv>>

\* The rest goes out.
WriteRest ==
    /\ w.at = "part" /\ Open
    /\ w' = [w EXCEPT !.at = "report", !.res = "ok"]
    /\ sent' = [sent EXCEPT !.whole = @ \cup {w.req}]
    /\ UNCHANGED <<call, pc, ch, rl, srv>>

\* The request is refused, the network fails, or the user's body does (setError).
WriteFails ==
    /\ w.at \in {"begin", "part"}
    /\ w' = [w EXCEPT !.at = "report", !.res = "failed"]
    /\ \E bad \in BOOLEAN : call' = [call EXCEPT ![w.req].bad = bad]
    /\ UNCHANGED <<pc, ch, rl, sent, srv>>

\* pc.writeErrCh <- err, for wroteRequest ...
ReportWrite ==
    /\ w.at = "report" /\ ch.err = <<>>
    /\ w' = [w EXCEPT !.at = "tell"]
    /\ ch' = [ch EXCEPT !.err = <<w.res>>]
    /\ UNCHANGED <<call, pc, rl, sent, srv>>

\* ... and wr.ch <- err, for roundTrip; an error ends the loop.
TellCaller ==
    /\ w.at = "tell"
    /\ call' = [call EXCEPT ![w.req].wch = w.res]
    /\ IF w.res = "ok"
       THEN w' = [at |-> "idle", req |-> None, res |-> None] /\ UNCHANGED pc
       ELSE w' = [at |-> "done", req |-> None, res |-> None] /\ pc' = Close(pc, "write")
    /\ UNCHANGED <<ch, rl, sent, srv>>

WriteLoop ==
    \/ TakeWrite \/ WriteLoopClosed \/ WritePart \/ WaitForContinue \/ WriteRest \/ WriteFails
    \/ ReportWrite \/ TellCaller

-----------------------------------------------------------------------------
(* The server: it answers what it was sent, once and in order, perhaps     *)
(* before it has all of it; it may give an idle connection up with a 408,  *)
(* and hang up at any time.                                                *)

Bytes(r, kind) == [req |-> r, kind |-> kind]

ServerContinues(r) ==
    /\ r \in (Expecting \cap sent.begun) \ (srv.answered \cup srv.continued) /\ ~srv.eof /\ Open
    /\ srv' = [srv EXCEPT !.wire = Append(@, Bytes(r, "continue")), !.continued = @ \cup {r}]
    /\ UNCHANGED <<call, pc, ch, w, rl, sent>>

ServerAnswers(r, kind) ==
    /\ r \in sent.begun \ srv.answered /\ ~srv.eof /\ Open
    /\ srv' = [srv EXCEPT !.wire = IF kind \in HasBody THEN @ \o <<Bytes(r, kind), Bytes(r, "bytes")>>
                                   ELSE Append(@, Bytes(r, kind)),
                          !.answered = @ \cup {r}]
    /\ UNCHANGED <<call, pc, ch, w, rl, sent>>

\* Only a part of the body arrives.
ServerCutsOff(r, kind) ==
    /\ kind \in HasBody
    /\ r \in sent.begun \ srv.answered /\ ~srv.eof /\ Open
    /\ srv' = [srv EXCEPT !.wire = Append(@, Bytes(r, kind)), !.answered = @ \cup {r}, !.eof = TRUE]
    /\ UNCHANGED <<call, pc, ch, w, rl, sent>>

ServerTimesOut ==
    /\ ~srv.eof /\ Open /\ sent.begun = srv.answered
    /\ srv' = [srv EXCEPT !.wire = Append(@, Bytes(None, "last")), !.eof = TRUE]
    /\ UNCHANGED <<call, pc, ch, w, rl, sent>>

ServerHangsUp ==
    /\ ~srv.eof
    /\ srv' = [srv EXCEPT !.eof = TRUE]
    /\ UNCHANGED <<call, pc, ch, w, rl, sent>>

\* The idle timer, CloseIdleConnections or an eviction closes the idle
\* connection.
PoolCloses ==
    /\ pc.pool = "idle" /\ pc.closed = None
    /\ pc' = [Close(pc, "closedByPool") EXCEPT !.pool = "gone"]
    /\ UNCHANGED <<call, ch, w, rl, sent, srv>>

-----------------------------------------------------------------------------
(* readLoop.                                                               *)

\* What readLoopPeekFailLocked closes with: unsolicited bytes are a 408 or not, a
\* failed read is the end of the file or not.
PeekFail(ok) ==
    CASE ~ok -> {"serverClosedIdle", "peekFailed"}
      [] ok /\ Head(srv.wire) = Bytes(None, "last") -> {"serverClosedIdle"}
      [] OTHER -> {"peekFailed"}

\* Peek returns: with a byte, or because either side has closed.  Then the loop
\* asks whether anyone expects a response; if not, readLoopPeekFailLocked closes
\* the connection.
Peek(ok) ==
    /\ rl.at = "peek"
    /\ IF ok THEN srv.wire # <<>> ELSE (srv.wire = <<>> /\ srv.eof) \/ pc.closed # None
    /\ \/ /\ pc.expected = 0
          /\ rl' = [rl EXCEPT !.at = "exit"]
          /\ \E err \in PeekFail(ok) : pc' = Close(pc, err)
       \/ /\ pc.expected > 0
          /\ rl' = [rl EXCEPT !.at = "take", !.peekOK = ok]
          /\ UNCHANGED pc
    /\ UNCHANGED <<call, ch, w, sent, srv>>

\* rc := <-pc.reqch
TakeRequest ==
    /\ rl.at = "take" /\ ch.req # <<>>
    /\ ch' = [ch EXCEPT !.req = <<>>]
    /\ rl' = [rl EXCEPT !.req = Head(ch.req), !.saw100 = FALSE,
                        !.at = IF rl.peekOK THEN "read" ELSE "fail",
                        !.closeErr = IF rl.peekOK THEN @ ELSE "read"]
    /\ UNCHANGED <<call, pc, w, sent, srv>>

\* Faulty variant: an informational response is taken for the final one.
ReadContinueAsFinal ==
    /\ rl.at = "read" /\ srv.wire # <<>> /\ Head(srv.wire).kind = "continue"
    /\ srv' = [srv EXCEPT !.wire = Tail(@)]
    /\ rl' = [rl EXCEPT !.at = "wrote", !.resp = Bytes(Head(srv.wire).req, "plain")]
    /\ pc' = [pc EXCEPT !.expected = @ - 1]
    /\ call' = [call EXCEPT ![rl.req].cont = "full"]
    /\ UNCHANGED <<ch, w, sent>>

\* readResponse, a 100 Continue: the first lets writeLoop go on.
ReadContinue ==
    /\ rl.at = "read" /\ srv.wire # <<>> /\ Head(srv.wire).kind = "continue"
    /\ srv' = [srv EXCEPT !.wire = Tail(@)]
    /\ rl' = [rl EXCEPT !.saw100 = TRUE]
    /\ call' = IF rl.req \in Expecting /\ ~rl.saw100 THEN [call EXCEPT ![rl.req].cont = "full"] ELSE call
    /\ UNCHANGED <<pc, ch, w, sent>>

\* readResponse, the final response.  With no 100 before it, writeLoop is told to
\* skip the request body if the connection is to be closed, to send it if not.
ReadFinal ==
    /\ rl.at = "read" /\ srv.wire # <<>> /\ Head(srv.wire).kind \in Final
    /\ LET resp == Head(srv.wire) IN
       /\ srv' = [srv EXCEPT !.wire = Tail(@)]
       /\ rl' = [rl EXCEPT !.resp = resp,
                           !.alive = resp.kind \in {"plain", "body"},
                           !.closeErr = IF resp.kind = "switch" THEN "callerOwnsConn" ELSE @,
                           !.at = IF resp.kind \in HasBody THEN "sendBody"
                                  ELSE IF resp.kind = "plain" THEN "wrote" ELSE "send"]
       /\ call' = IF rl.req \in Expecting /\ ~rl.saw100
                  THEN [call EXCEPT ![rl.req].cont = IF resp.kind \in Closing THEN "closed" ELSE "full"]
                  ELSE call
       /\ pc' = [pc EXCEPT !.expected = @ - 1]
    /\ UNCHANGED <<ch, w, sent>>

\* readResponse fails: the connection breaks, the header is malformed or too long,
\* there are too many 1xx.  closeErr stays errReadLoopExiting.
ReadFails ==
    /\ rl.at = "read"
    /\ srv.wire # <<>> \/ srv.eof \/ pc.closed # None
    /\ rl' = [rl EXCEPT !.at = "fail", !.resp = None]
    /\ UNCHANGED <<call, pc, ch, w, sent, srv>>

\* rc.ch <- responseAndError{err: err}
DeliverError ==
    /\ rl.at = "fail" /\ call[rl.req].at = "select"
    /\ call' = Becomes(rl.req, [call[rl.req] EXCEPT !.at = "map", !.err = IF rl.peekOK THEN "response" ELSE "read"])
    /\ rl' = [rl EXCEPT !.at = "exit"]
    /\ UNCHANGED <<pc, ch, w, sent, srv>>

\* Faulty variant: a response is offered without regard to callerGone.
CallerGoneOnError ==
    /\ rl.at = "fail" /\ call[rl.req].at = "done"
    /\ rl' = [rl EXCEPT !.at = "exit"]
    /\ UNCHANGED <<call, pc, ch, w, sent, srv>>

\* <-rc.callerGone
CallerGone ==
    /\ rl.at \in {"fail", "send", "sendBody"} /\ call[rl.req].at = "done"
    /\ rl' = [rl EXCEPT !.at = "exit"]
    /\ UNCHANGED <<call, pc, ch, w, sent, srv>>

\* Where readLoop goes once it has decided whether the connection lives on: to
\* deliver a response without a body; to release the reader of a body at its end.
Decided == IF rl.resp.kind \in HasBody THEN "eofc" ELSE "send"

\* Faulty variant: the connection is recycled whether or not its write is over.
WroteRequestUnchecked ==
    /\ rl.at = "wrote"
    /\ rl' = [rl EXCEPT !.at = "put"]
    /\ ch' = [ch EXCEPT !.err = <<>>]
    /\ UNCHANGED <<call, pc, w, sent, srv>>

\* !pc.sawEOF && pc.wroteRequest(): the result of the write, or none in 50ms.
WroteRequest ==
    /\ rl.at = "wrote"
    /\ \/ /\ srv.eof
          /\ rl' = [rl EXCEPT !.at = Decided, !.alive = FALSE]
          /\ UNCHANGED ch
       \/ /\ ch.err # <<>>
          /\ ch' = [ch EXCEPT !.err = <<>>]
          /\ rl' = IF Head(ch.err) = "ok" THEN [rl EXCEPT !.at = "put"]
                   ELSE [rl EXCEPT !.at = Decided, !.alive = FALSE]
       \/ /\ ch.err = <<>>
          /\ rl' = [rl EXCEPT !.at = Decided, !.alive = FALSE]
          /\ UNCHANGED ch
    /\ UNCHANGED <<call, pc, w, sent, srv>>

\* tryPutIdleConn.  The pool refuses a broken connection, and one too many.
TryPutIdleConn ==
    /\ rl.at = "put"
    /\ \/ /\ pc.closed = None
          /\ pc' = [pc EXCEPT !.pool = "idle", !.reused = TRUE]
          /\ rl' = [rl EXCEPT !.at = Decided]
       \/ /\ pc' = IF pc.closed = None THEN [pc EXCEPT !.reused = TRUE] ELSE pc
          /\ rl' = [rl EXCEPT !.at = Decided, !.alive = FALSE, !.closeErr = "refused"]
    /\ UNCHANGED <<call, ch, w, sent, srv>>

\* The response in hand reaches the caller.
Received == [call[rl.req] EXCEPT !.at = "done", !.out = <<"response", rl.resp.req>>]

\* The top of the loop, or its end.
Again(r) == [r EXCEPT !.at = IF r.alive THEN "peek" ELSE "exit", !.req = None, !.resp = None]

\* rc.ch <- responseAndError{res: resp}; rc.treq.cancel(errRequestDone)
Deliver ==
    /\ rl.at = "send" /\ call[rl.req].at = "select"
    /\ call' = Becomes(rl.req, [Received EXCEPT !.live = FALSE])
    /\ rl' = Again(rl)
    /\ UNCHANGED <<pc, ch, w, sent, srv>>

\* The same with a body, which the caller may now read.
DeliverBody ==
    /\ rl.at = "sendBody" /\ call[rl.req].at = "select"
    /\ call' = Becomes(rl.req, [Received EXCEPT !.body = "open"])
    /\ rl' = [rl EXCEPT !.at = "wait"]
    /\ UNCHANGED <<pc, ch, w, sent, srv>>

\* Faulty variant: readLoop goes on after a body closed early.
BodyReadIgnoresEOF ==
    /\ rl.at = "wait" /\ call[rl.req].bodyRead # <<>>
    /\ LET bodyEOF == Head(call[rl.req].bodyRead) IN
       /\ rl' = IF ~bodyEOF THEN Again(rl)
                ELSE IF ~rl.alive THEN [rl EXCEPT !.at = "eofc"]
                ELSE [rl EXCEPT !.at = "wrote"]
       /\ call' = Becomes(rl.req, [call[rl.req] EXCEPT !.bodyRead = Tail(@), !.live = @ /\ bodyEOF])
    /\ UNCHANGED <<pc, ch, w, sent, srv>>

\* The select of a response with a body: bodyEOF := <-waitForBodyRead ...
BodyRead ==
    /\ rl.at = "wait" /\ call[rl.req].bodyRead # <<>>
    /\ LET bodyEOF == Head(call[rl.req].bodyRead) IN
       /\ rl' = IF ~bodyEOF THEN [rl EXCEPT !.at = "exit", !.alive = FALSE]
                ELSE IF ~rl.alive THEN [rl EXCEPT !.at = "eofc"]
                ELSE [rl EXCEPT !.at = "wrote"]
       /\ call' = Becomes(rl.req, [call[rl.req] EXCEPT !.bodyRead = Tail(@), !.live = @ /\ bodyEOF])
    /\ UNCHANGED <<pc, ch, w, sent, srv>>

\* ... or the context is done ...
BodyCanceled ==
    /\ rl.at = "wait" /\ ~call[rl.req].live
    /\ pc' = CancelRequest(pc, rl.req)
    /\ rl' = [rl EXCEPT !.at = "exit", !.alive = FALSE]
    /\ UNCHANGED <<call, ch, w, sent, srv>>

\* ... or the connection is closed.
BodyConnClosed ==
    /\ rl.at = "wait" /\ pc.closed # None
    /\ rl' = [rl EXCEPT !.at = "exit", !.alive = FALSE]
    /\ call' = [call EXCEPT ![rl.req].live = FALSE]
    /\ UNCHANGED <<pc, ch, w, sent, srv>>

\* eofc <- struct{}{}; rc.treq.cancel(errRequestDone)
ReleaseBodyReader ==
    /\ rl.at = "eofc" /\ call[rl.req].body = "eof"
    /\ call' = Becomes(rl.req, [call[rl.req] EXCEPT !.body = "over", !.live = FALSE])
    /\ rl' = Again(rl)
    /\ UNCHANGED <<pc, ch, w, sent, srv>>

\* The deferred calls: close(eofc) ...
CloseEofc ==
    /\ rl.at = "exit"
    /\ rl' = [rl EXCEPT !.at = "close"]
    /\ UNCHANGED <<call, pc, ch, w, sent, srv>>

\* ... pc.close(closeErr) ...
ExitClose ==
    /\ rl.at = "close"
    /\ pc' = Close(pc, rl.closeErr)
    /\ rl' = [rl EXCEPT !.at = "remove"]
    /\ UNCHANGED <<call, ch, w, sent, srv>>

\* ... and removeIdleConn.
ExitRemove ==
    /\ rl.at = "remove"
    /\ pc' = [pc EXCEPT !.pool = IF @ = "idle" THEN "gone" ELSE @]
    /\ rl' = [rl EXCEPT !.at = "done"]
    /\ UNCHANGED <<call, ch, w, sent, srv>>

ReadLoop ==
    \/ \E ok \in BOOLEAN : Peek(ok)
    \/ TakeRequest \/ ReadContinue \/ ReadFinal \/ ReadFails \/ DeliverError \/ CallerGone
    \/ WroteRequest \/ TryPutIdleConn \/ Deliver \/ DeliverBody
    \/ BodyRead \/ BodyCanceled \/ BodyConnClosed \/ ReleaseBodyReader
    \/ CloseEofc \/ ExitClose \/ ExitRemove

-----------------------------------------------------------------------------
(* The reader of a response body: bodyEOFSignal and its two functions.     *)

Signal(r, isEOF, body) == Becomes(r, [call[r] EXCEPT !.bodyRead = Append(@, isEOF), !.body = body])

\* Faulty variant: the reader does not wait for readLoop at the end of the body.
ReadToEndNoWait(r) ==
    /\ call[r].body = "open" /\ srv.wire # <<>> /\ Head(srv.wire).kind = "bytes"
    /\ srv' = [srv EXCEPT !.wire = Tail(@)]
    /\ call' = Signal(r, TRUE, "over")
    /\ UNCHANGED <<pc, ch, w, rl, sent>>

\* Read returns the rest of the body and io.EOF: fn, which then waits for eofc.
ReadToEnd(r) ==
    /\ call[r].body = "open" /\ srv.wire # <<>> /\ Head(srv.wire).kind = "bytes"
    /\ srv' = [srv EXCEPT !.wire = Tail(@)]
    /\ call' = Signal(r, TRUE, "eof")
    /\ UNCHANGED <<pc, ch, w, rl, sent>>

\* Read fails: fn.
ReadBodyFails(r) ==
    /\ call[r].body = "open" /\ ((srv.wire = <<>> /\ srv.eof) \/ pc.closed # None)
    /\ call' = Signal(r, FALSE, "failed")
    /\ UNCHANGED <<pc, ch, w, rl, sent, srv>>

\* Faulty variant: earlyCloseFn does not tell readLoop.
CloseBodySilently(r) ==
    /\ call[r].body \in {"open", "failed"}
    /\ call' = [call EXCEPT ![r].body = "closing"]
    /\ UNCHANGED <<pc, ch, w, rl, sent, srv>>

\* Close before io.EOF: earlyCloseFn, which then waits for eofc.
CloseBody(r) ==
    /\ call[r].body \in {"open", "failed"}
    /\ call' = Signal(r, FALSE, "closing")
    /\ UNCHANGED <<pc, ch, w, rl, sent, srv>>

\* eofc is closed.
BodyReleased(r) ==
    /\ call[r].body \in {"eof", "closing"} /\ rl.at \in {"close", "remove", "done"}
    /\ call' = [call EXCEPT ![r].body = "over"]
    /\ UNCHANGED <<pc, ch, w, rl, sent, srv>>

-----------------------------------------------------------------------------

\* Every request has been served and every goroutine of the connection is over.
Terminated ==
    /\ w.at = "done" /\ rl.at = "done"
    /\ \A r \in Req : call[r].at \in {"new", "done"} /\ call[r].body \in {"none", "open", "failed", "over"}
    /\ UNCHANGED vars

Next ==
    \/ \E r \in Req : Acquire(r)
    \/ \E r \in Req : ExpectResponse(r)
    \/ \E r \in Req : SendToWriteLoop(r)
    \/ \E r \in Req : SendToReadLoop(r)
    \/ \E r \in Req : WriteReported(r)
    \/ \E r \in Req : ConnClosed(r)
    \/ \E r \in Req : HeaderTimeout(r)
    \/ \E r \in Req : CtxDone(r)
    \/ \E r \in Req : UserCancels(r)
    \/ \E r \in Req : MapError(r)
    \/ TakeWrite \/ WriteLoopClosed \/ WritePart \/ WaitForContinue \/ WriteRest \/ WriteFails
    \/ ReportWrite \/ TellCaller
    \/ \E r \in Req : ServerContinues(r)
    \/ \E r \in Req, kind \in Answers : ServerAnswers(r, kind)
    \/ \E r \in Req, kind \in Answers : ServerCutsOff(r, kind)
    \/ ServerTimesOut \/ ServerHangsUp \/ PoolCloses
    \/ \E ok \in BOOLEAN : Peek(ok)
    \/ TakeRequest \/ ReadContinue \/ ReadFinal \/ ReadFails \/ DeliverError \/ CallerGone
    \/ WroteRequest \/ TryPutIdleConn \/ Deliver \/ DeliverBody
    \/ BodyRead \/ BodyCanceled \/ BodyConnClosed \/ ReleaseBodyReader
    \/ CloseEofc \/ ExitClose \/ ExitRemove
    \/ \E r \in Req : ReadToEnd(r)
    \/ \E r \in Req : ReadBodyFails(r)
    \/ \E r \in Req : CloseBody(r)
    \/ \E r \in Req : BodyReleased(r)
    \/ Terminated

Spec == Init /\ [][Next]_vars

\* The scheduler runs every goroutine that can go on, and timers fire.  Nothing
\* is asked of the server, of the pool or of the user.
Fairness ==
    /\ WF_vars(WriteLoop) /\ WF_vars(ReadLoop)
    /\ \A r \in Req : WF_vars(RoundTrip(r)) /\ WF_vars(BodyReleased(r))

FairSpec == Spec /\ Fairness

-----------------------------------------------------------------------------
(* Properties.                                                             *)

\* A connection in the pool that is not closed is clean: the last request went
\* out whole and its write was reported, no response is expected, no channel of
\* the connection holds anything, and there is nothing to read except a 408.
\* It is what alive, wroteRequest and bodyEOF are for in readLoop.
IdleIsClean ==
    pc.pool = "idle" /\ pc.closed = None =>
        /\ sent.begun = sent.whole
        /\ w.at = "idle" \/ (w.at = "tell" /\ w.res = "ok")
        /\ ch = [write |-> <<>>, req |-> <<>>, err |-> <<>>]
        /\ pc.expected = 0
        /\ \A i \in DOMAIN srv.wire : srv.wire[i].req = None

\* A caller gets the response to its own request, or the 408 with which the
\* server gave up a connection it saw idle: readLoop never falls a response
\* behind the requests (numExpectedResponses, the loop over 1xx in readResponse).
ResponseMatchesRequest ==
    \A r, q \in Req : call[r].out = <<"response", q>> => q = r

\* A request that is not idempotent is sent over another connection only if not
\* a byte of it went out over this one (nothingWrittenError in shouldRetryRequest
\* and mapRoundTripError): never again, whatever writeLoop does later.
RetrySafe ==
    \A r \in Req : call[r].out[1] = "resent" /\ r \notin Replayable => r \notin sent.begun

\* readLoop never reads from the connection while the user may still read or
\* close the body of an earlier response.
ReadersExclusive ==
    rl.at \in {"peek", "take", "read"} => \A r \in Req : call[r].body \in {"none", "eof", "over"}

\* When the reader of a body learns that it is at its end, readLoop has already
\* settled whether the connection is back in the pool (the comment on eofc).
EOFAfterRecycling ==
    \A r \in Req : rl.req = r /\ rl.at \in {"wait", "wrote", "put"} => call[r].body # "over"

\* A caller is told that a request was canceled only if it is its own
\* ("If the request was canceled, that's better than network failures",
\* mapRoundTripError).
NoForeignCancel ==
    \A r, q \in Req : call[r].out = <<"canceled", q>> => q = r

\* With a ResponseHeaderTimeout every roundTrip returns, whatever the server
\* does: roundTrip is not left waiting for writeLoop or for readLoop.
RoundTripReturns ==
    \A r \in Req : call[r].at = "got" ~> call[r].at = "done"

\* A closed connection leaves no goroutine behind.
LoopsEnd ==
    pc.closed # None ~> w.at = "done" /\ rl.at = "done"

\* Read at the end of the body, and an early Close, return.
BodyReturns ==
    \A r \in Req : call[r].body \in {"eof", "closing"} ~> call[r].body = "over"
=============================================================================
