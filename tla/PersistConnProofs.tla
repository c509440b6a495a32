-------------------------- MODULE PersistConnProofs --------------------------
(***************************************************************************)
(* PersistConn, for every set of requests and whatever the server, the     *)
(* user and the scheduler do: the goroutines of a connection work in       *)
(* order, so that one of them at a time reads from it, the reader of a     *)
(* body learns of its end after the connection is recycled, and a request  *)
(* that is not idempotent is never sent twice.                             *)
(*                                                                         *)
(* None of the three is inductive.  What readLoop may do depends on what   *)
(* roundTrip and the user of the body have done before, and the states     *)
(* that the order of their steps rules out are the invariant: ReadOrder    *)
(* and BodyOrder for readLoop, WriteOrder, StartOrder and RetryOrder for   *)
(* writeLoop.                                                              *)
(***************************************************************************)
EXTENDS PersistConn, TLAPS

-----------------------------------------------------------------------------
(* Types, and what the actions do to them.                                 *)

\* The values the fields of the records may have.
CallAt     == {"new", "got", "write", "queue", "select", "map", "done"}
WriteError == {None, "ok", "failed"}
SomeError  == Errors \cup {None}
SomeReq    == Req \cup {None}
ContState  == {"empty", "full", "closed"}
BodyState  == {"none", "open", "failed", "eof", "closing", "over"}
Signals    == Seq(BOOLEAN)
PoolPlace  == {"idle", "taken", "gone"}
OneReq     == {<<>>} \cup {<<r>> : r \in Req}
OneResult  == {<<>>, <<"ok">>, <<"failed">>}
WriteAt    == {"idle", "begin", "part", "await", "report", "tell", "done"}
ReadAt     == {"peek", "take", "read", "fail", "wrote", "put", "send", "sendBody", "wait", "eofc",
               "exit", "close", "remove", "done"}
Response   == [req : SomeReq, kind : Final]
SomeResp   == Response \cup {None}
OnWire     == [req : SomeReq, kind : Final \cup {"continue", "bytes"}]
Wire       == Seq(OnWire)
ReqSet     == SUBSET Req

\* The records, a step of roundTrip being a record of its own: the variables
\* call, pc, ch, w, rl, sent and srv. That numExpectedResponses stays natural
\* is proved last.
CallRec == [at : CallAt, out : Outcomes, live : BOOLEAN, wch : WriteError, timer : BOOLEAN,
            start : Nat, err : SomeError, bad : BOOLEAN, cont : ContState, body : BodyState,
            bodyRead : Signals]
PcRec   == [closed : SomeError, canceledErr : SomeReq, nwrite : Nat, expected : Int,
            reused : BOOLEAN, pool : PoolPlace]
ChRec   == [write : OneReq, req : OneReq, err : OneResult]
WRec    == [at : WriteAt, req : SomeReq, res : WriteError]
RlRec   == [at : ReadAt, req : SomeReq, peekOK : BOOLEAN, resp : SomeResp, alive : BOOLEAN,
            closeErr : Errors, saw100 : BOOLEAN]
SentRec == [begun : ReqSet, whole : ReqSet]
SrvRec  == [wire : Wire, eof : BOOLEAN, answered : ReqSet, continued : ReqSet]

\* Where readLoop holds a response, and where it serves a request.
WithResponse == {"sendBody", "wait", "wrote", "put", "send", "eofc"}
Serving      == WithResponse \cup {"read", "fail"}

\* Every variable is a record of its type.
Types ==
    /\ call \in [Req -> CallRec]
    /\ pc \in PcRec
    /\ ch \in ChRec
    /\ w \in WRec
    /\ rl \in RlRec
    /\ sent \in SentRec
    /\ srv \in SrvRec

\* Whom the loops serve, and that readLoop has a response once it has read one.
Serve ==
    /\ w.at = "idle" => w.req = None
    /\ w.at \in {"begin", "part", "await", "report", "tell"} => w.req \in Req
    /\ w.at \in {"report", "tell"} => w.res # None
    /\ rl.at \in Serving => rl.req \in Req
    /\ rl.at \in WithResponse => rl.resp \in Response

\* A call of CallRec stays one when a field is set: where roundTrip is,
LEMMA SetAt ==
  ASSUME NEW c \in [Req -> CallRec], NEW r \in Req, NEW v \in CallAt
  PROVE  [c EXCEPT ![r].at = v] \in [Req -> CallRec]
  BY DEF CallRec

\* whether cancellation can still reach it,
LEMMA SetLive ==
  ASSUME NEW c \in [Req -> CallRec], NEW r \in Req, NEW v \in BOOLEAN
  PROVE  [c EXCEPT ![r].live = v] \in [Req -> CallRec]
  BY DEF CallRec

\* what writeLoop reported,
LEMMA SetWch ==
  ASSUME NEW c \in [Req -> CallRec], NEW r \in Req, NEW v \in WriteError
  PROVE  [c EXCEPT ![r].wch = v] \in [Req -> CallRec]
  BY DEF CallRec

\* whether the body failed,
LEMMA SetBad ==
  ASSUME NEW c \in [Req -> CallRec], NEW r \in Req, NEW v \in BOOLEAN
  PROVE  [c EXCEPT ![r].bad = v] \in [Req -> CallRec]
  BY DEF CallRec

\* the channel on which writeLoop waits for 100 Continue,
LEMMA SetCont ==
  ASSUME NEW c \in [Req -> CallRec], NEW r \in Req, NEW v \in ContState
  PROVE  [c EXCEPT ![r].cont = v] \in [Req -> CallRec]
  BY DEF CallRec

\* and the state of the body.
LEMMA SetBody ==
  ASSUME NEW c \in [Req -> CallRec], NEW r \in Req, NEW v \in BodyState
  PROVE  [c EXCEPT ![r].body = v] \in [Req -> CallRec]
  BY DEF CallRec

\* A call replaced by a record of the type leaves calls of the type.
LEMMA BecomesRec ==
  ASSUME call \in [Req -> CallRec], NEW r \in Req, NEW c \in CallRec
  PROVE  Becomes(r, c) \in [Req -> CallRec]
  BY DEF Becomes

\* The values that the actions give to the fields of a call have their types.
LEMMA CallValues ==
    /\ \A e \in Errors : e \in SomeError
    /\ \A o \in {"none", "resent", "response"} \cup Errors : \A q \in SomeReq : <<o, q>> \in Outcomes
    /\ None \in SomeReq /\ None \in SomeError /\ None \in WriteError
    /\ "timeout" \in Errors /\ "canceled" \in Errors /\ "badBody" \in Errors
    /\ "nothingWritten" \in Errors
    /\ "broken" \in Errors /\ "write" \in Errors /\ "read" \in Errors /\ "response" \in Errors
    /\ "serverClosedIdle" \in Errors
    /\ "empty" \in ContState /\ "full" \in ContState /\ "closed" \in ContState
    /\ "open" \in BodyState /\ "failed" \in BodyState /\ "eof" \in BodyState
    /\ "closing" \in BodyState /\ "over" \in BodyState
    /\ \A s \in Signals : \A x \in BOOLEAN : Append(s, x) \in Signals
  BY DEF Errors, SomeError, SomeReq, WriteError, ContState, BodyState, Signals, Outcomes

\* The values that the actions read have their types.
LEMMA StateValues ==
  ASSUME Types, Serve
  PROVE  /\ pc.nwrite \in Nat /\ pc.closed \in SomeError /\ pc.canceledErr \in SomeReq
         /\ \A r \in Req : /\ call[r].live \in BOOLEAN /\ call[r].wch \in WriteError
                           /\ call[r].err \in SomeError
                           /\ call[r].bodyRead \in Signals /\ call[r] \in CallRec
         /\ w.res \in WriteError
         /\ w.at \in {"begin", "part", "await", "report", "tell"} => w.req \in Req
         /\ rl.at \in Serving => rl.req \in Req
         /\ rl.at \in WithResponse => rl.resp.req \in SomeReq
  BY DEF Types, Serve, CallRec, PcRec, WRec, RlRec, Response

\* The head of a sequence and the rest of it.
LEMMA HeadTail ==
  ASSUME NEW S, NEW s \in Seq(S), s # <<>>
  PROVE  Head(s) \in S /\ Tail(s) \in Seq(S)
  OBVIOUS

\* mapRoundTripError returns an error.
LEMMA MappedError ==
  ASSUME NEW r \in Req PROVE Mapped(r) \in Errors \ {"response"}
  BY DEF Mapped, Errors

\* roundTrip returns: an outcome, with the body open when the response has one.
LEMMA Returns ==
  ASSUME NEW c \in CallRec, NEW o \in {"resent", "response"} \cup Errors, NEW q \in SomeReq
  PROVE  /\ [c EXCEPT !.at = "done", !.out = <<o, q>>] \in CallRec
         /\ [c EXCEPT !.at = "done", !.out = <<o, q>>, !.live = FALSE] \in CallRec
         /\ [c EXCEPT !.at = "done", !.out = <<o, q>>, !.body = "open"] \in CallRec
  <1>. <<o, q>> \in Outcomes /\ "open" \in BodyState BY CallValues
  <1>. "done" \in CallAt BY DEF CallAt
  <1>. QED BY DEF CallRec

\* roundTrip goes on to mapRoundTripError with the error it met.
LEMMA GoesToMap ==
  ASSUME NEW c \in CallRec, NEW e \in SomeError
  PROVE  /\ [c EXCEPT !.at = "map", !.err = e] \in CallRec
         /\ [c EXCEPT !.at = "map", !.wch = None, !.err = e] \in CallRec
  <1>. None \in WriteError BY CallValues
  <1>. "map" \in CallAt BY DEF CallAt
  <1>. QED BY DEF CallRec

\* The user of a body tells readLoop (waitForBodyRead).
LEMMA Signalled ==
  ASSUME NEW c \in CallRec, NEW x \in BOOLEAN, NEW b \in BodyState
  PROVE  [c EXCEPT !.bodyRead = Append(@, x), !.body = b] \in CallRec
  <1>. Append(c.bodyRead, x) \in Signals BY CallValues DEF CallRec
  <1>. QED BY DEF CallRec

\* Every step leaves the calls of their type.
LEMMA CallStep ==
  ASSUME Types, Serve, Next PROVE call' \in [Req -> CallRec]
  <1>. USE RequestKinds, CallValues, StateValues
  <1>. USE DEF Types, CallAt

  <1>1. ASSUME NEW r \in Req, Acquire(r) PROVE call' \in [Req -> CallRec]
    BY <1>1, SetAt DEF Acquire, To
  <1>2. ASSUME NEW r \in Req, ExpectResponse(r) PROVE call' \in [Req -> CallRec]
    BY <1>2, SetAt DEF ExpectResponse, To
  <1>3. ASSUME NEW r \in Req, SendToWriteLoop(r) PROVE call' \in [Req -> CallRec]
    <2>. HIDE CallValues, StateValues
    <2>1. pc.nwrite \in Nat /\ call[r] \in CallRec BY StateValues
    <2>2. [call[r] EXCEPT !.at = "queue", !.start = pc.nwrite] \in CallRec BY <2>1 DEF CallRec
    <2>. QED BY <1>3, <2>2, BecomesRec DEF SendToWriteLoop
  <1>4. ASSUME NEW r \in Req, SendToReadLoop(r) PROVE call' \in [Req -> CallRec]
    BY <1>4, SetAt DEF SendToReadLoop, To
  <1>5. ASSUME NEW r \in Req, WriteReported(r) PROVE call' \in [Req -> CallRec]
    <2>. HIDE CallValues, StateValues
    <2>1. "write" \in SomeError /\ None \in WriteError /\ call[r] \in CallRec
      BY CallValues, StateValues
    <2>2. [call[r] EXCEPT !.wch = None, !.timer = ResponseHeaderTimeout] \in CallRec
      BY <2>1, RequestKinds DEF CallRec
    <2>3. [call[r] EXCEPT !.at = "map", !.wch = None, !.err = "write"] \in CallRec
      BY <2>1, GoesToMap
    <2>4. CASE call' = Becomes(r, [call[r] EXCEPT !.at = "map", !.wch = None, !.err = "write"])
      BY <2>3, <2>4, BecomesRec
    <2>5. CASE call' = Becomes(r, [call[r] EXCEPT !.wch = None, !.timer = ResponseHeaderTimeout])
      BY <2>2, <2>5, BecomesRec
    <2>. QED BY <1>5, <2>4, <2>5, Zenon DEF WriteReported
  <1>6. ASSUME NEW r \in Req, ConnClosed(r) PROVE call' \in [Req -> CallRec]
    <2>. HIDE CallValues, StateValues
    <2>1. pc.closed \in SomeError /\ call[r] \in CallRec BY StateValues
    <2>. QED BY <1>6, <2>1, GoesToMap, BecomesRec DEF ConnClosed
  <1>7. ASSUME NEW r \in Req, HeaderTimeout(r) PROVE call' \in [Req -> CallRec]
    <2>. HIDE CallValues, StateValues
    <2>1. "timeout" \in Errors /\ None \in SomeReq /\ call[r] \in CallRec
      BY CallValues, StateValues
    <2>. QED BY <1>7, <2>1, Returns, BecomesRec DEF HeaderTimeout
  <1>8. ASSUME NEW r \in Req, CtxDone(r) PROVE call' \in [Req -> CallRec]
    BY <1>8 DEF CtxDone, CancelRequest, Close
  <1>9. ASSUME NEW r \in Req, UserCancels(r) PROVE call' \in [Req -> CallRec]
    BY <1>9, SetLive DEF UserCancels
  <1>10. ASSUME NEW r \in Req, MapError(r) PROVE call' \in [Req -> CallRec]
    <2>. HIDE CallValues, StateValues
    <2>1. Mapped(r) \in Errors BY MappedError
    <2>2. None \in SomeReq /\ pc.canceledErr \in SomeReq /\ call[r] \in CallRec
      BY CallValues, StateValues
    <2>. QED BY <1>10, <2>1, <2>2, Returns, BecomesRec DEF MapError, Failed
  <1>11. CASE TakeWrite
    BY <1>11 DEF TakeWrite
  <1>12. CASE WriteLoopClosed
    BY <1>12 DEF WriteLoopClosed
  <1>13. CASE WritePart
    BY <1>13 DEF WritePart, Open
  <1>14. CASE WaitForContinue
    <2>. HIDE CallValues, StateValues
    <2>1. "empty" \in ContState /\ w.req \in Req BY <1>14, CallValues DEF WaitForContinue, Serve
    <2>. QED BY <1>14, <2>1, SetCont DEF WaitForContinue
  <1>15. CASE WriteRest
    BY <1>15 DEF WriteRest, Open
  <1>16. CASE WriteFails
    BY <1>16, SetBad DEF WriteFails
  <1>17. CASE ReportWrite
    BY <1>17 DEF ReportWrite
  <1>18. CASE TellCaller
    BY <1>18, SetWch DEF TellCaller, Close
  <1>19. ASSUME NEW r \in Req, ServerContinues(r) PROVE call' \in [Req -> CallRec]
    BY <1>19 DEF ServerContinues, Bytes, Open
  <1>20. ASSUME NEW r \in Req, NEW kind \in Answers, ServerAnswers(r, kind)
         PROVE  call' \in [Req -> CallRec]
    BY <1>20 DEF ServerAnswers, Bytes, Open
  <1>21. ASSUME NEW r \in Req, NEW kind \in Answers, ServerCutsOff(r, kind)
         PROVE  call' \in [Req -> CallRec]
    BY <1>21 DEF ServerCutsOff, Bytes, Open
  <1>22. CASE ServerTimesOut
    BY <1>22 DEF ServerTimesOut, Bytes, Open
  <1>23. CASE ServerHangsUp
    BY <1>23 DEF ServerHangsUp
  <1>24. CASE PoolCloses
    BY <1>24 DEF PoolCloses, Close
  <1>25. ASSUME NEW ok \in BOOLEAN, Peek(ok) PROVE call' \in [Req -> CallRec]
    BY <1>25 DEF Peek, Close, PeekFail
  <1>26. CASE TakeRequest
    BY <1>26 DEF TakeRequest
  <1>27. CASE ReadContinue
    BY <1>27, SetCont DEF ReadContinue, Serving, WithResponse
  <1>28. CASE ReadFinal
    BY <1>28, SetCont DEF ReadFinal, Serving, WithResponse
  <1>29. CASE ReadFails
    BY <1>29 DEF ReadFails
  <1>30. CASE DeliverError
    <2>. HIDE CallValues, StateValues
    <2>1. rl.req \in Req /\ call[rl.req] \in CallRec
      BY <1>30, StateValues DEF DeliverError, Serving
    <2>2. "response" \in SomeError /\ "read" \in SomeError BY CallValues
    <2>. QED BY <1>30, <2>1, <2>2, GoesToMap, BecomesRec DEF DeliverError
  <1>31. CASE CallerGone
    BY <1>31 DEF CallerGone
  <1>32. CASE WroteRequest
    BY <1>32 DEF WroteRequest, Decided
  <1>33. CASE TryPutIdleConn
    BY <1>33 DEF TryPutIdleConn, Decided
  <1>34. CASE Deliver
    <2>. HIDE CallValues, StateValues
    <2>1. rl.req \in Req /\ rl.resp.req \in SomeReq /\ call[rl.req] \in CallRec
      BY <1>34, StateValues DEF Deliver, Serving, WithResponse
    <2>. QED BY <1>34, <2>1, Returns, BecomesRec DEF Deliver, Received
  <1>35. CASE DeliverBody
    <2>. HIDE CallValues, StateValues
    <2>1. rl.req \in Req /\ rl.resp.req \in SomeReq /\ call[rl.req] \in CallRec
      BY <1>35, StateValues DEF DeliverBody, Serving, WithResponse
    <2>. QED BY <1>35, <2>1, Returns, BecomesRec DEF DeliverBody, Received
  <1>36. CASE BodyRead
    <2>. HIDE CallValues, StateValues
    <2>1. rl.req \in Req BY <1>36 DEF BodyRead, Serve, Serving, WithResponse
    <2>a. /\ call[rl.req].bodyRead \in Seq(BOOLEAN) /\ call[rl.req].live \in BOOLEAN
          /\ call[rl.req] \in CallRec
      BY <2>1, StateValues DEF Signals
    <2>b. call[rl.req].bodyRead # <<>> BY <1>36 DEF BodyRead
    <2>2. /\ Head(call[rl.req].bodyRead) \in BOOLEAN /\ Tail(call[rl.req].bodyRead) \in Signals
      <3>1. /\ Head(call[rl.req].bodyRead) \in BOOLEAN
            /\ Tail(call[rl.req].bodyRead) \in Seq(BOOLEAN)
        BY <2>a, <2>b, HeadTail, Zenon
      <3>. QED BY <2>a, <3>1 DEF Signals
    <2>3. PICK l \in BOOLEAN : l = (call[rl.req].live /\ Head(call[rl.req].bodyRead))
      BY <2>2, <2>a
    <2>4. [call[rl.req] EXCEPT !.bodyRead = Tail(@), !.live = l] \in CallRec
      BY <2>a, <2>2 DEF CallRec
    <2>5. call' = Becomes(rl.req, [call[rl.req] EXCEPT !.bodyRead = Tail(@), !.live = l])
      BY <1>36, <2>3, Zenon DEF BodyRead
    <2>. QED BY <2>1, <2>4, <2>5, BecomesRec
  <1>37. CASE BodyCanceled
    BY <1>37 DEF BodyCanceled, CancelRequest, Close
  <1>38. CASE BodyConnClosed
    BY <1>38, SetLive DEF BodyConnClosed, Serving, WithResponse
  <1>39. CASE ReleaseBodyReader
    <2>. HIDE CallValues, StateValues
    <2>1. rl.req \in Req /\ call[rl.req] \in CallRec
      BY <1>39, StateValues DEF ReleaseBodyReader, Serving, WithResponse
    <2>2. "over" \in BodyState BY CallValues
    <2>3. [call[rl.req] EXCEPT !.body = "over", !.live = FALSE] \in CallRec
      BY <2>1, <2>2 DEF CallRec
    <2>. QED BY <1>39, <2>1, <2>3, BecomesRec DEF ReleaseBodyReader
  <1>40. CASE CloseEofc
    BY <1>40 DEF CloseEofc
  <1>41. CASE ExitClose
    BY <1>41 DEF ExitClose, Close
  <1>42. CASE ExitRemove
    BY <1>42 DEF ExitRemove
  <1>43. ASSUME NEW r \in Req, ReadToEnd(r) PROVE call' \in [Req -> CallRec]
    <2>. HIDE CallValues, StateValues
    <2>1. /\ call[r] \in CallRec /\ "eof" \in BodyState /\ "failed" \in BodyState
          /\ "closing" \in BodyState
      BY CallValues, StateValues
    <2>. QED BY <1>43, <2>1, Signalled, BecomesRec DEF ReadToEnd, Signal
  <1>44. ASSUME NEW r \in Req, ReadBodyFails(r) PROVE call' \in [Req -> CallRec]
    <2>. HIDE CallValues, StateValues
    <2>1. /\ call[r] \in CallRec /\ "eof" \in BodyState /\ "failed" \in BodyState
          /\ "closing" \in BodyState
      BY CallValues, StateValues
    <2>. QED BY <1>44, <2>1, Signalled, BecomesRec DEF ReadBodyFails, Signal
  <1>45. ASSUME NEW r \in Req, CloseBody(r) PROVE call' \in [Req -> CallRec]
    <2>. HIDE CallValues, StateValues
    <2>1. /\ call[r] \in CallRec /\ "eof" \in BodyState /\ "failed" \in BodyState
          /\ "closing" \in BodyState
      BY CallValues, StateValues
    <2>. QED BY <1>45, <2>1, Signalled, BecomesRec DEF CloseBody, Signal
  <1>46. ASSUME NEW r \in Req, BodyReleased(r) PROVE call' \in [Req -> CallRec]
    BY <1>46, SetBody DEF BodyReleased
  <1>47. CASE Terminated
    BY <1>47 DEF Terminated, vars
  <1>q. QED
    BY <1>1, <1>2, <1>3, <1>4, <1>5, <1>6, <1>7, <1>8, <1>9, <1>10, <1>11, <1>12, <1>13, <1>14,
         <1>15, <1>16, <1>17, <1>18, <1>19, <1>20, <1>21, <1>22, <1>23, <1>24, <1>25, <1>26,
         <1>27, <1>28, <1>29, <1>30, <1>31, <1>32, <1>33, <1>34, <1>35, <1>36, <1>37, <1>38,
         <1>39, <1>40, <1>41, <1>42, <1>43, <1>44, <1>45, <1>46, <1>47 DEF Next

\* The values that the actions give to the fields of the connection, its
\* channels and its loops have their types.
LEMMA LoopValues ==
    /\ \A e \in Errors : e \in SomeError
    /\ None \in SomeReq /\ None \in SomeError /\ None \in WriteError /\ "ok" \in WriteError
    /\ "failed" \in WriteError
    /\ \A r \in Req : r \in SomeReq
    /\ "timeout" \in Errors /\ "canceled" \in Errors /\ "write" \in Errors /\ "read" \in Errors
    /\ "closedByPool" \in Errors /\ "refused" \in Errors /\ "callerOwnsConn" \in Errors
    /\ "serverClosedIdle" \in Errors /\ "peekFailed" \in Errors
    /\ "idle" \in PoolPlace /\ "taken" \in PoolPlace /\ "gone" \in PoolPlace
    /\ <<>> \in OneReq /\ (\A r \in Req : <<r>> \in OneReq)
    /\ \A c \in OneReq : c # <<>> => Head(c) \in Req
    /\ <<>> \in OneResult /\ \A x \in WriteError : x # None => <<x>> \in OneResult
    /\ None \in SomeResp
  BY DEF Errors, SomeError, SomeReq, WriteError, PoolPlace, OneReq, OneResult, SomeResp

\* What is on the wire stays a sequence of answers when it is read or appended
\* to.
LEMMA WireValues ==
    /\ \A s \in Wire : s # <<>> => Head(s) \in OnWire /\ Tail(s) \in Wire
    /\ \A s \in Wire : \A x \in OnWire : Append(s, x) \in Wire
    /\ \A s \in Wire : \A x, y \in OnWire : s \o <<x, y>> \in Wire
  BY DEF Wire

\* Every step leaves the connection,
LEMMA PcStep ==
  ASSUME Types, Serve, Next PROVE pc' \in PcRec
  <1>. USE RequestKinds, LoopValues DEF Types, PcRec
  <1>1. ASSUME NEW r \in Req, Acquire(r) PROVE pc' \in PcRec
    BY <1>1 DEF Acquire, To
  <1>2. ASSUME NEW r \in Req, ExpectResponse(r) PROVE pc' \in PcRec
    BY <1>2 DEF ExpectResponse, To
  <1>3. ASSUME NEW r \in Req, SendToWriteLoop(r) PROVE pc' \in PcRec
    BY <1>3 DEF SendToWriteLoop, Becomes
  <1>4. ASSUME NEW r \in Req, SendToReadLoop(r) PROVE pc' \in PcRec
    BY <1>4 DEF SendToReadLoop, To
  <1>5. ASSUME NEW r \in Req, WriteReported(r) PROVE pc' \in PcRec
    BY <1>5 DEF WriteReported, Becomes, Close
  <1>6. ASSUME NEW r \in Req, ConnClosed(r) PROVE pc' \in PcRec
    BY <1>6 DEF ConnClosed, Becomes
  <1>7. ASSUME NEW r \in Req, HeaderTimeout(r) PROVE pc' \in PcRec
    BY <1>7 DEF HeaderTimeout, Becomes, Close
  <1>8. ASSUME NEW r \in Req, CtxDone(r) PROVE pc' \in PcRec
    BY <1>8 DEF CtxDone, CancelRequest, Close
  <1>9. ASSUME NEW r \in Req, UserCancels(r) PROVE pc' \in PcRec
    BY <1>9 DEF UserCancels
  <1>10. ASSUME NEW r \in Req, MapError(r) PROVE pc' \in PcRec
    BY <1>10 DEF MapError, Failed, Becomes
  <1>11. CASE TakeWrite
    BY <1>11 DEF TakeWrite
  <1>12. CASE WriteLoopClosed
    BY <1>12 DEF WriteLoopClosed
  <1>13. CASE WritePart
    BY <1>13 DEF WritePart, Open
  <1>14. CASE WaitForContinue
    BY <1>14 DEF WaitForContinue
  <1>15. CASE WriteRest
    BY <1>15 DEF WriteRest, Open
  <1>16. CASE WriteFails
    BY <1>16 DEF WriteFails
  <1>17. CASE ReportWrite
    BY <1>17 DEF ReportWrite
  <1>18. CASE TellCaller
    BY <1>18 DEF TellCaller, Close
  <1>19. ASSUME NEW r \in Req, ServerContinues(r) PROVE pc' \in PcRec
    BY <1>19 DEF ServerContinues, Bytes, Open
  <1>20. ASSUME NEW r \in Req, NEW kind \in Answers, ServerAnswers(r, kind) PROVE pc' \in PcRec
    BY <1>20 DEF ServerAnswers, Bytes, Open
  <1>21. ASSUME NEW r \in Req, NEW kind \in Answers, ServerCutsOff(r, kind) PROVE pc' \in PcRec
    BY <1>21 DEF ServerCutsOff, Bytes, Open
  <1>22. CASE ServerTimesOut
    BY <1>22 DEF ServerTimesOut, Bytes, Open
  <1>23. CASE ServerHangsUp
    BY <1>23 DEF ServerHangsUp
  <1>24. CASE PoolCloses
    BY <1>24 DEF PoolCloses, Close
  <1>25. ASSUME NEW ok \in BOOLEAN, Peek(ok) PROVE pc' \in PcRec
    BY <1>25 DEF Peek, Close, PeekFail
  <1>26. CASE TakeRequest
    BY <1>26 DEF TakeRequest
  <1>27. CASE ReadContinue
    BY <1>27 DEF ReadContinue
  <1>28. CASE ReadFinal
    BY <1>28 DEF ReadFinal
  <1>29. CASE ReadFails
    BY <1>29 DEF ReadFails
  <1>30. CASE DeliverError
    BY <1>30 DEF DeliverError, Becomes
  <1>31. CASE CallerGone
    BY <1>31 DEF CallerGone
  <1>32. CASE WroteRequest
    BY <1>32 DEF WroteRequest, Decided
  <1>33. CASE TryPutIdleConn
    BY <1>33 DEF TryPutIdleConn, Decided
  <1>34. CASE Deliver
    BY <1>34 DEF Deliver, Received, Becomes, Again
  <1>35. CASE DeliverBody
    BY <1>35 DEF DeliverBody, Received, Becomes
  <1>36. CASE BodyRead
    BY <1>36 DEF BodyRead, Becomes
  <1>37. CASE BodyCanceled
    BY <1>37 DEF BodyCanceled, CancelRequest, Close, Serve, Serving, WithResponse
  <1>38. CASE BodyConnClosed
    BY <1>38 DEF BodyConnClosed
  <1>39. CASE ReleaseBodyReader
    BY <1>39 DEF ReleaseBodyReader, Becomes, Again
  <1>40. CASE CloseEofc
    BY <1>40 DEF CloseEofc
  <1>41. CASE ExitClose
    BY <1>41 DEF ExitClose, Close, RlRec
  <1>42. CASE ExitRemove
    BY <1>42 DEF ExitRemove
  <1>43. ASSUME NEW r \in Req, ReadToEnd(r) PROVE pc' \in PcRec
    BY <1>43 DEF ReadToEnd, Signal, Becomes
  <1>44. ASSUME NEW r \in Req, ReadBodyFails(r) PROVE pc' \in PcRec
    BY <1>44 DEF ReadBodyFails, Signal, Becomes
  <1>45. ASSUME NEW r \in Req, CloseBody(r) PROVE pc' \in PcRec
    BY <1>45 DEF CloseBody, Signal, Becomes
  <1>46. ASSUME NEW r \in Req, BodyReleased(r) PROVE pc' \in PcRec
    BY <1>46 DEF BodyReleased
  <1>47. CASE Terminated
    BY <1>47 DEF Terminated, vars
  <1>q. QED
    BY <1>1, <1>2, <1>3, <1>4, <1>5, <1>6, <1>7, <1>8, <1>9, <1>10, <1>11, <1>12, <1>13, <1>14,
         <1>15, <1>16, <1>17, <1>18, <1>19, <1>20, <1>21, <1>22, <1>23, <1>24, <1>25, <1>26,
         <1>27, <1>28, <1>29, <1>30, <1>31, <1>32, <1>33, <1>34, <1>35, <1>36, <1>37, <1>38,
         <1>39, <1>40, <1>41, <1>42, <1>43, <1>44, <1>45, <1>46, <1>47 DEF Next

\* its channels,
LEMMA ChStep ==
  ASSUME Types, Serve, Next PROVE ch' \in ChRec
  <1>. USE RequestKinds, LoopValues DEF Types, ChRec
  <1>1. ASSUME NEW r \in Req, Acquire(r) PROVE ch' \in ChRec
    BY <1>1 DEF Acquire, To
  <1>2. ASSUME NEW r \in Req, ExpectResponse(r) PROVE ch' \in ChRec
    BY <1>2 DEF ExpectResponse, To
  <1>3. ASSUME NEW r \in Req, SendToWriteLoop(r) PROVE ch' \in ChRec
    BY <1>3 DEF SendToWriteLoop, Becomes
  <1>4. ASSUME NEW r \in Req, SendToReadLoop(r) PROVE ch' \in ChRec
    BY <1>4 DEF SendToReadLoop, To
  <1>5. ASSUME NEW r \in Req, WriteReported(r) PROVE ch' \in ChRec
    BY <1>5 DEF WriteReported, Becomes, Close
  <1>6. ASSUME NEW r \in Req, ConnClosed(r) PROVE ch' \in ChRec
    BY <1>6 DEF ConnClosed, Becomes
  <1>7. ASSUME NEW r \in Req, HeaderTimeout(r) PROVE ch' \in ChRec
    BY <1>7 DEF HeaderTimeout, Becomes, Close
  <1>8. ASSUME NEW r \in Req, CtxDone(r) PROVE ch' \in ChRec
    BY <1>8 DEF CtxDone, CancelRequest, Close
  <1>9. ASSUME NEW r \in Req, UserCancels(r) PROVE ch' \in ChRec
    BY <1>9 DEF UserCancels
  <1>10. ASSUME NEW r \in Req, MapError(r) PROVE ch' \in ChRec
    BY <1>10 DEF MapError, Failed, Becomes
  <1>11. CASE TakeWrite
    BY <1>11 DEF TakeWrite
  <1>12. CASE WriteLoopClosed
    BY <1>12 DEF WriteLoopClosed
  <1>13. CASE WritePart
    BY <1>13 DEF WritePart, Open
  <1>14. CASE WaitForContinue
    BY <1>14 DEF WaitForContinue
  <1>15. CASE WriteRest
    BY <1>15 DEF WriteRest, Open
  <1>16. CASE WriteFails
    BY <1>16 DEF WriteFails
  <1>17. CASE ReportWrite
    BY <1>17 DEF ReportWrite, Serve, WRec
  <1>18. CASE TellCaller
    BY <1>18 DEF TellCaller, Close
  <1>19. ASSUME NEW r \in Req, ServerContinues(r) PROVE ch' \in ChRec
    BY <1>19 DEF ServerContinues, Bytes, Open
  <1>20. ASSUME NEW r \in Req, NEW kind \in Answers, ServerAnswers(r, kind) PROVE ch' \in ChRec
    BY <1>20 DEF ServerAnswers, Bytes, Open
  <1>21. ASSUME NEW r \in Req, NEW kind \in Answers, ServerCutsOff(r, kind) PROVE ch' \in ChRec
    BY <1>21 DEF ServerCutsOff, Bytes, Open
  <1>22. CASE ServerTimesOut
    BY <1>22 DEF ServerTimesOut, Bytes, Open
  <1>23. CASE ServerHangsUp
    BY <1>23 DEF ServerHangsUp
  <1>24. CASE PoolCloses
    BY <1>24 DEF PoolCloses, Close
  <1>25. ASSUME NEW ok \in BOOLEAN, Peek(ok) PROVE ch' \in ChRec
    BY <1>25 DEF Peek, Close, PeekFail
  <1>26. CASE TakeRequest
    BY <1>26 DEF TakeRequest
  <1>27. CASE ReadContinue
    BY <1>27 DEF ReadContinue
  <1>28. CASE ReadFinal
    BY <1>28 DEF ReadFinal
  <1>29. CASE ReadFails
    BY <1>29 DEF ReadFails
  <1>30. CASE DeliverError
    BY <1>30 DEF DeliverError, Becomes
  <1>31. CASE CallerGone
    BY <1>31 DEF CallerGone
  <1>32. CASE WroteRequest
    BY <1>32 DEF WroteRequest, Decided
  <1>33. CASE TryPutIdleConn
    BY <1>33 DEF TryPutIdleConn, Decided
  <1>34. CASE Deliver
    BY <1>34 DEF Deliver, Received, Becomes, Again
  <1>35. CASE DeliverBody
    BY <1>35 DEF DeliverBody, Received, Becomes
  <1>36. CASE BodyRead
    BY <1>36 DEF BodyRead, Becomes
  <1>37. CASE BodyCanceled
    BY <1>37 DEF BodyCanceled, CancelRequest, Close
  <1>38. CASE BodyConnClosed
    BY <1>38 DEF BodyConnClosed
  <1>39. CASE ReleaseBodyReader
    BY <1>39 DEF ReleaseBodyReader, Becomes, Again
  <1>40. CASE CloseEofc
    BY <1>40 DEF CloseEofc
  <1>41. CASE ExitClose
    BY <1>41 DEF ExitClose, Close
  <1>42. CASE ExitRemove
    BY <1>42 DEF ExitRemove
  <1>43. ASSUME NEW r \in Req, ReadToEnd(r) PROVE ch' \in ChRec
    BY <1>43 DEF ReadToEnd, Signal, Becomes
  <1>44. ASSUME NEW r \in Req, ReadBodyFails(r) PROVE ch' \in ChRec
    BY <1>44 DEF ReadBodyFails, Signal, Becomes
  <1>45. ASSUME NEW r \in Req, CloseBody(r) PROVE ch' \in ChRec
    BY <1>45 DEF CloseBody, Signal, Becomes
  <1>46. ASSUME NEW r \in Req, BodyReleased(r) PROVE ch' \in ChRec
    BY <1>46 DEF BodyReleased
  <1>47. CASE Terminated
    BY <1>47 DEF Terminated, vars
  <1>q. QED
    BY <1>1, <1>2, <1>3, <1>4, <1>5, <1>6, <1>7, <1>8, <1>9, <1>10, <1>11, <1>12, <1>13, <1>14,
         <1>15, <1>16, <1>17, <1>18, <1>19, <1>20, <1>21, <1>22, <1>23, <1>24, <1>25, <1>26,
         <1>27, <1>28, <1>29, <1>30, <1>31, <1>32, <1>33, <1>34, <1>35, <1>36, <1>37, <1>38,
         <1>39, <1>40, <1>41, <1>42, <1>43, <1>44, <1>45, <1>46, <1>47 DEF Next

\* writeLoop,
LEMMA WStep ==
  ASSUME Types, Serve, Next PROVE w' \in WRec
  <1>. USE RequestKinds, LoopValues DEF Types, WRec, WriteAt
  <1>1. ASSUME NEW r \in Req, Acquire(r) PROVE w' \in WRec
    BY <1>1 DEF Acquire, To
  <1>2. ASSUME NEW r \in Req, ExpectResponse(r) PROVE w' \in WRec
    BY <1>2 DEF ExpectResponse, To
  <1>3. ASSUME NEW r \in Req, SendToWriteLoop(r) PROVE w' \in WRec
    BY <1>3 DEF SendToWriteLoop, Becomes
  <1>4. ASSUME NEW r \in Req, SendToReadLoop(r) PROVE w' \in WRec
    BY <1>4 DEF SendToReadLoop, To
  <1>5. ASSUME NEW r \in Req, WriteReported(r) PROVE w' \in WRec
    BY <1>5 DEF WriteReported, Becomes, Close
  <1>6. ASSUME NEW r \in Req, ConnClosed(r) PROVE w' \in WRec
    BY <1>6 DEF ConnClosed, Becomes
  <1>7. ASSUME NEW r \in Req, HeaderTimeout(r) PROVE w' \in WRec
    BY <1>7 DEF HeaderTimeout, Becomes, Close
  <1>8. ASSUME NEW r \in Req, CtxDone(r) PROVE w' \in WRec
    BY <1>8 DEF CtxDone, CancelRequest, Close
  <1>9. ASSUME NEW r \in Req, UserCancels(r) PROVE w' \in WRec
    BY <1>9 DEF UserCancels
  <1>10. ASSUME NEW r \in Req, MapError(r) PROVE w' \in WRec
    BY <1>10 DEF MapError, Failed, Becomes
  <1>11. CASE TakeWrite
    BY <1>11 DEF TakeWrite, ChRec
  <1>12. CASE WriteLoopClosed
    BY <1>12 DEF WriteLoopClosed
  <1>13. CASE WritePart
    BY <1>13 DEF WritePart, Open
  <1>14. CASE WaitForContinue
    BY <1>14 DEF WaitForContinue
  <1>15. CASE WriteRest
    BY <1>15 DEF WriteRest, Open
  <1>16. CASE WriteFails
    BY <1>16 DEF WriteFails
  <1>17. CASE ReportWrite
    BY <1>17 DEF ReportWrite
  <1>18. CASE TellCaller
    BY <1>18 DEF TellCaller, Close
  <1>19. ASSUME NEW r \in Req, ServerContinues(r) PROVE w' \in WRec
    BY <1>19 DEF ServerContinues, Bytes, Open
  <1>20. ASSUME NEW r \in Req, NEW kind \in Answers, ServerAnswers(r, kind) PROVE w' \in WRec
    BY <1>20 DEF ServerAnswers, Bytes, Open
  <1>21. ASSUME NEW r \in Req, NEW kind \in Answers, ServerCutsOff(r, kind) PROVE w' \in WRec
    BY <1>21 DEF ServerCutsOff, Bytes, Open
  <1>22. CASE ServerTimesOut
    BY <1>22 DEF ServerTimesOut, Bytes, Open
  <1>23. CASE ServerHangsUp
    BY <1>23 DEF ServerHangsUp
  <1>24. CASE PoolCloses
    BY <1>24 DEF PoolCloses, Close
  <1>25. ASSUME NEW ok \in BOOLEAN, Peek(ok) PROVE w' \in WRec
    BY <1>25 DEF Peek, Close, PeekFail
  <1>26. CASE TakeRequest
    BY <1>26 DEF TakeRequest
  <1>27. CASE ReadContinue
    BY <1>27 DEF ReadContinue
  <1>28. CASE ReadFinal
    BY <1>28 DEF ReadFinal
  <1>29. CASE ReadFails
    BY <1>29 DEF ReadFails
  <1>30. CASE DeliverError
    BY <1>30 DEF DeliverError, Becomes
  <1>31. CASE CallerGone
    BY <1>31 DEF CallerGone
  <1>32. CASE WroteRequest
    BY <1>32 DEF WroteRequest, Decided
  <1>33. CASE TryPutIdleConn
    BY <1>33 DEF TryPutIdleConn, Decided
  <1>34. CASE Deliver
    BY <1>34 DEF Deliver, Received, Becomes, Again
  <1>35. CASE DeliverBody
    BY <1>35 DEF DeliverBody, Received, Becomes
  <1>36. CASE BodyRead
    BY <1>36 DEF BodyRead, Becomes
  <1>37. CASE BodyCanceled
    BY <1>37 DEF BodyCanceled, CancelRequest, Close
  <1>38. CASE BodyConnClosed
    BY <1>38 DEF BodyConnClosed
  <1>39. CASE ReleaseBodyReader
    BY <1>39 DEF ReleaseBodyReader, Becomes, Again
  <1>40. CASE CloseEofc
    BY <1>40 DEF CloseEofc
  <1>41. CASE ExitClose
    BY <1>41 DEF ExitClose, Close
  <1>42. CASE ExitRemove
    BY <1>42 DEF ExitRemove
  <1>43. ASSUME NEW r \in Req, ReadToEnd(r) PROVE w' \in WRec
    BY <1>43 DEF ReadToEnd, Signal, Becomes
  <1>44. ASSUME NEW r \in Req, ReadBodyFails(r) PROVE w' \in WRec
    BY <1>44 DEF ReadBodyFails, Signal, Becomes
  <1>45. ASSUME NEW r \in Req, CloseBody(r) PROVE w' \in WRec
    BY <1>45 DEF CloseBody, Signal, Becomes
  <1>46. ASSUME NEW r \in Req, BodyReleased(r) PROVE w' \in WRec
    BY <1>46 DEF BodyReleased
  <1>47. CASE Terminated
    BY <1>47 DEF Terminated, vars
  <1>q. QED
    BY <1>1, <1>2, <1>3, <1>4, <1>5, <1>6, <1>7, <1>8, <1>9, <1>10, <1>11, <1>12, <1>13, <1>14,
         <1>15, <1>16, <1>17, <1>18, <1>19, <1>20, <1>21, <1>22, <1>23, <1>24, <1>25, <1>26,
         <1>27, <1>28, <1>29, <1>30, <1>31, <1>32, <1>33, <1>34, <1>35, <1>36, <1>37, <1>38,
         <1>39, <1>40, <1>41, <1>42, <1>43, <1>44, <1>45, <1>46, <1>47 DEF Next

\* readLoop,
LEMMA RlStep ==
  ASSUME Types, Serve, Next PROVE rl' \in RlRec
  <1>. USE RequestKinds, LoopValues DEF Types, RlRec, ReadAt
  <1>1. ASSUME NEW r \in Req, Acquire(r) PROVE rl' \in RlRec
    BY <1>1 DEF Acquire, To
  <1>2. ASSUME NEW r \in Req, ExpectResponse(r) PROVE rl' \in RlRec
    BY <1>2 DEF ExpectResponse, To
  <1>3. ASSUME NEW r \in Req, SendToWriteLoop(r) PROVE rl' \in RlRec
    BY <1>3 DEF SendToWriteLoop, Becomes
  <1>4. ASSUME NEW r \in Req, SendToReadLoop(r) PROVE rl' \in RlRec
    BY <1>4 DEF SendToReadLoop, To
  <1>5. ASSUME NEW r \in Req, WriteReported(r) PROVE rl' \in RlRec
    BY <1>5 DEF WriteReported, Becomes, Close
  <1>6. ASSUME NEW r \in Req, ConnClosed(r) PROVE rl' \in RlRec
    BY <1>6 DEF ConnClosed, Becomes
  <1>7. ASSUME NEW r \in Req, HeaderTimeout(r) PROVE rl' \in RlRec
    BY <1>7 DEF HeaderTimeout, Becomes, Close
  <1>8. ASSUME NEW r \in Req, CtxDone(r) PROVE rl' \in RlRec
    BY <1>8 DEF CtxDone, CancelRequest, Close
  <1>9. ASSUME NEW r \in Req, UserCancels(r) PROVE rl' \in RlRec
    BY <1>9 DEF UserCancels
  <1>10. ASSUME NEW r \in Req, MapError(r) PROVE rl' \in RlRec
    BY <1>10 DEF MapError, Failed, Becomes
  <1>11. CASE TakeWrite
    BY <1>11 DEF TakeWrite
  <1>12. CASE WriteLoopClosed
    BY <1>12 DEF WriteLoopClosed
  <1>13. CASE WritePart
    BY <1>13 DEF WritePart, Open
  <1>14. CASE WaitForContinue
    BY <1>14 DEF WaitForContinue
  <1>15. CASE WriteRest
    BY <1>15 DEF WriteRest, Open
  <1>16. CASE WriteFails
    BY <1>16 DEF WriteFails
  <1>17. CASE ReportWrite
    BY <1>17 DEF ReportWrite
  <1>18. CASE TellCaller
    BY <1>18 DEF TellCaller, Close
  <1>19. ASSUME NEW r \in Req, ServerContinues(r) PROVE rl' \in RlRec
    BY <1>19 DEF ServerContinues, Bytes, Open
  <1>20. ASSUME NEW r \in Req, NEW kind \in Answers, ServerAnswers(r, kind) PROVE rl' \in RlRec
    BY <1>20 DEF ServerAnswers, Bytes, Open
  <1>21. ASSUME NEW r \in Req, NEW kind \in Answers, ServerCutsOff(r, kind) PROVE rl' \in RlRec
    BY <1>21 DEF ServerCutsOff, Bytes, Open
  <1>22. CASE ServerTimesOut
    BY <1>22 DEF ServerTimesOut, Bytes, Open
  <1>23. CASE ServerHangsUp
    BY <1>23 DEF ServerHangsUp
  <1>24. CASE PoolCloses
    BY <1>24 DEF PoolCloses, Close
  <1>25. ASSUME NEW ok \in BOOLEAN, Peek(ok) PROVE rl' \in RlRec
    BY <1>25 DEF Peek, Close, PeekFail
  <1>26. CASE TakeRequest
    BY <1>26 DEF TakeRequest, ChRec
  <1>27. CASE ReadContinue
    BY <1>27 DEF ReadContinue
  <1>28. CASE ReadFinal
    <2>1. Head(srv.wire) \in OnWire /\ Head(srv.wire).kind \in Final
      BY <1>28, WireValues DEF ReadFinal, SrvRec
    <2>2. PICK resp \in SomeResp : resp = Head(srv.wire) BY <2>1 DEF OnWire, Response, SomeResp
    <2>a. (resp.kind \in {"plain", "body"}) \in BOOLEAN OBVIOUS
    <2>3. PICK alive \in BOOLEAN : alive = (resp.kind \in {"plain", "body"}) BY <2>a, Zenon
    <2>4. PICK at \in ReadAt : at = IF resp.kind \in HasBody THEN "sendBody"
                                    ELSE IF resp.kind = "plain" THEN "wrote" ELSE "send"
      BY Zenon
    <2>5. PICK err \in Errors : err = IF resp.kind = "switch" THEN "callerOwnsConn" ELSE rl.closeErr
      OBVIOUS
    <2>6. rl' = [rl EXCEPT !.resp = resp, !.alive = alive, !.closeErr = err, !.at = at]
      BY <1>28, <2>2, <2>3, <2>4, <2>5, Zenon DEF ReadFinal
    <2>. QED BY <2>6
  <1>29. CASE ReadFails
    BY <1>29 DEF ReadFails
  <1>30. CASE DeliverError
    BY <1>30 DEF DeliverError, Becomes
  <1>31. CASE CallerGone
    BY <1>31 DEF CallerGone
  <1>32. CASE WroteRequest
    BY <1>32 DEF WroteRequest, Decided
  <1>33. CASE TryPutIdleConn
    BY <1>33 DEF TryPutIdleConn, Decided
  <1>34. CASE Deliver
    BY <1>34 DEF Deliver, Received, Becomes, Again
  <1>35. CASE DeliverBody
    BY <1>35 DEF DeliverBody, Received, Becomes
  <1>36. CASE BodyRead
    BY <1>36 DEF BodyRead, Becomes
  <1>37. CASE BodyCanceled
    BY <1>37 DEF BodyCanceled, CancelRequest, Close
  <1>38. CASE BodyConnClosed
    BY <1>38 DEF BodyConnClosed
  <1>39. CASE ReleaseBodyReader
    BY <1>39 DEF ReleaseBodyReader, Becomes, Again
  <1>40. CASE CloseEofc
    BY <1>40 DEF CloseEofc
  <1>41. CASE ExitClose
    BY <1>41 DEF ExitClose, Close
  <1>42. CASE ExitRemove
    BY <1>42 DEF ExitRemove
  <1>43. ASSUME NEW r \in Req, ReadToEnd(r) PROVE rl' \in RlRec
    BY <1>43 DEF ReadToEnd, Signal, Becomes
  <1>44. ASSUME NEW r \in Req, ReadBodyFails(r) PROVE rl' \in RlRec
    BY <1>44 DEF ReadBodyFails, Signal, Becomes
  <1>45. ASSUME NEW r \in Req, CloseBody(r) PROVE rl' \in RlRec
    BY <1>45 DEF CloseBody, Signal, Becomes
  <1>46. ASSUME NEW r \in Req, BodyReleased(r) PROVE rl' \in RlRec
    BY <1>46 DEF BodyReleased
  <1>47. CASE Terminated
    BY <1>47 DEF Terminated, vars
  <1>q. QED
    BY <1>1, <1>2, <1>3, <1>4, <1>5, <1>6, <1>7, <1>8, <1>9, <1>10, <1>11, <1>12, <1>13, <1>14,
         <1>15, <1>16, <1>17, <1>18, <1>19, <1>20, <1>21, <1>22, <1>23, <1>24, <1>25, <1>26,
         <1>27, <1>28, <1>29, <1>30, <1>31, <1>32, <1>33, <1>34, <1>35, <1>36, <1>37, <1>38,
         <1>39, <1>40, <1>41, <1>42, <1>43, <1>44, <1>45, <1>46, <1>47 DEF Next

\* what went out,
LEMMA SentStep ==
  ASSUME Types, Serve, Next PROVE sent' \in SentRec
  <1>. USE RequestKinds DEF Types, SentRec, ReqSet
  <1>1. ASSUME NEW r \in Req, Acquire(r) PROVE sent' \in SentRec
    BY <1>1 DEF Acquire, To
  <1>2. ASSUME NEW r \in Req, ExpectResponse(r) PROVE sent' \in SentRec
    BY <1>2 DEF ExpectResponse, To
  <1>3. ASSUME NEW r \in Req, SendToWriteLoop(r) PROVE sent' \in SentRec
    BY <1>3 DEF SendToWriteLoop, Becomes
  <1>4. ASSUME NEW r \in Req, SendToReadLoop(r) PROVE sent' \in SentRec
    BY <1>4 DEF SendToReadLoop, To
  <1>5. ASSUME NEW r \in Req, WriteReported(r) PROVE sent' \in SentRec
    BY <1>5 DEF WriteReported, Becomes, Close
  <1>6. ASSUME NEW r \in Req, ConnClosed(r) PROVE sent' \in SentRec
    BY <1>6 DEF ConnClosed, Becomes
  <1>7. ASSUME NEW r \in Req, HeaderTimeout(r) PROVE sent' \in SentRec
    BY <1>7 DEF HeaderTimeout, Becomes, Close
  <1>8. ASSUME NEW r \in Req, CtxDone(r) PROVE sent' \in SentRec
    BY <1>8 DEF CtxDone, CancelRequest, Close
  <1>9. ASSUME NEW r \in Req, UserCancels(r) PROVE sent' \in SentRec
    BY <1>9 DEF UserCancels
  <1>10. ASSUME NEW r \in Req, MapError(r) PROVE sent' \in SentRec
    BY <1>10 DEF MapError, Failed, Becomes
  <1>11. CASE TakeWrite
    BY <1>11 DEF TakeWrite
  <1>12. CASE WriteLoopClosed
    BY <1>12 DEF WriteLoopClosed
  <1>13. CASE WritePart
    BY <1>13 DEF WritePart, Open, Serve
  <1>14. CASE WaitForContinue
    BY <1>14 DEF WaitForContinue
  <1>15. CASE WriteRest
    BY <1>15 DEF WriteRest, Open, Serve
  <1>16. CASE WriteFails
    BY <1>16 DEF WriteFails
  <1>17. CASE ReportWrite
    BY <1>17 DEF ReportWrite
  <1>18. CASE TellCaller
    BY <1>18 DEF TellCaller, Close
  <1>19. ASSUME NEW r \in Req, ServerContinues(r) PROVE sent' \in SentRec
    BY <1>19 DEF ServerContinues, Bytes, Open
  <1>20. ASSUME NEW r \in Req, NEW kind \in Answers, ServerAnswers(r, kind)
         PROVE  sent' \in SentRec
    BY <1>20 DEF ServerAnswers, Bytes, Open
  <1>21. ASSUME NEW r \in Req, NEW kind \in Answers, ServerCutsOff(r, kind)
         PROVE  sent' \in SentRec
    BY <1>21 DEF ServerCutsOff, Bytes, Open
  <1>22. CASE ServerTimesOut
    BY <1>22 DEF ServerTimesOut, Bytes, Open
  <1>23. CASE ServerHangsUp
    BY <1>23 DEF ServerHangsUp
  <1>24. CASE PoolCloses
    BY <1>24 DEF PoolCloses, Close
  <1>25. ASSUME NEW ok \in BOOLEAN, Peek(ok) PROVE sent' \in SentRec
    BY <1>25 DEF Peek, Close, PeekFail
  <1>26. CASE TakeRequest
    BY <1>26 DEF TakeRequest
  <1>27. CASE ReadContinue
    BY <1>27 DEF ReadContinue
  <1>28. CASE ReadFinal
    BY <1>28 DEF ReadFinal
  <1>29. CASE ReadFails
    BY <1>29 DEF ReadFails
  <1>30. CASE DeliverError
    BY <1>30 DEF DeliverError, Becomes
  <1>31. CASE CallerGone
    BY <1>31 DEF CallerGone
  <1>32. CASE WroteRequest
    BY <1>32 DEF WroteRequest, Decided
  <1>33. CASE TryPutIdleConn
    BY <1>33 DEF TryPutIdleConn, Decided
  <1>34. CASE Deliver
    BY <1>34 DEF Deliver, Received, Becomes, Again
  <1>35. CASE DeliverBody
    BY <1>35 DEF DeliverBody, Received, Becomes
  <1>36. CASE BodyRead
    BY <1>36 DEF BodyRead, Becomes
  <1>37. CASE BodyCanceled
    BY <1>37 DEF BodyCanceled, CancelRequest, Close
  <1>38. CASE BodyConnClosed
    BY <1>38 DEF BodyConnClosed
  <1>39. CASE ReleaseBodyReader
    BY <1>39 DEF ReleaseBodyReader, Becomes, Again
  <1>40. CASE CloseEofc
    BY <1>40 DEF CloseEofc
  <1>41. CASE ExitClose
    BY <1>41 DEF ExitClose, Close
  <1>42. CASE ExitRemove
    BY <1>42 DEF ExitRemove
  <1>43. ASSUME NEW r \in Req, ReadToEnd(r) PROVE sent' \in SentRec
    BY <1>43 DEF ReadToEnd, Signal, Becomes
  <1>44. ASSUME NEW r \in Req, ReadBodyFails(r) PROVE sent' \in SentRec
    BY <1>44 DEF ReadBodyFails, Signal, Becomes
  <1>45. ASSUME NEW r \in Req, CloseBody(r) PROVE sent' \in SentRec
    BY <1>45 DEF CloseBody, Signal, Becomes
  <1>46. ASSUME NEW r \in Req, BodyReleased(r) PROVE sent' \in SentRec
    BY <1>46 DEF BodyReleased
  <1>47. CASE Terminated
    BY <1>47 DEF Terminated, vars
  <1>q. QED
    BY <1>1, <1>2, <1>3, <1>4, <1>5, <1>6, <1>7, <1>8, <1>9, <1>10, <1>11, <1>12, <1>13, <1>14,
         <1>15, <1>16, <1>17, <1>18, <1>19, <1>20, <1>21, <1>22, <1>23, <1>24, <1>25, <1>26,
         <1>27, <1>28, <1>29, <1>30, <1>31, <1>32, <1>33, <1>34, <1>35, <1>36, <1>37, <1>38,
         <1>39, <1>40, <1>41, <1>42, <1>43, <1>44, <1>45, <1>46, <1>47 DEF Next

\* and the server of their types.
LEMMA SrvStep ==
  ASSUME Types, Serve, Next PROVE srv' \in SrvRec
  <1>. USE RequestKinds, WireValues DEF Types, SrvRec, ReqSet
  <1>1. ASSUME NEW r \in Req, Acquire(r) PROVE srv' \in SrvRec
    BY <1>1 DEF Acquire, To
  <1>2. ASSUME NEW r \in Req, ExpectResponse(r) PROVE srv' \in SrvRec
    BY <1>2 DEF ExpectResponse, To
  <1>3. ASSUME NEW r \in Req, SendToWriteLoop(r) PROVE srv' \in SrvRec
    BY <1>3 DEF SendToWriteLoop, Becomes
  <1>4. ASSUME NEW r \in Req, SendToReadLoop(r) PROVE srv' \in SrvRec
    BY <1>4 DEF SendToReadLoop, To
  <1>5. ASSUME NEW r \in Req, WriteReported(r) PROVE srv' \in SrvRec
    BY <1>5 DEF WriteReported, Becomes, Close
  <1>6. ASSUME NEW r \in Req, ConnClosed(r) PROVE srv' \in SrvRec
    BY <1>6 DEF ConnClosed, Becomes
  <1>7. ASSUME NEW r \in Req, HeaderTimeout(r) PROVE srv' \in SrvRec
    BY <1>7 DEF HeaderTimeout, Becomes, Close
  <1>8. ASSUME NEW r \in Req, CtxDone(r) PROVE srv' \in SrvRec
    BY <1>8 DEF CtxDone, CancelRequest, Close
  <1>9. ASSUME NEW r \in Req, UserCancels(r) PROVE srv' \in SrvRec
    BY <1>9 DEF UserCancels
  <1>10. ASSUME NEW r \in Req, MapError(r) PROVE srv' \in SrvRec
    BY <1>10 DEF MapError, Failed, Becomes
  <1>11. CASE TakeWrite
    BY <1>11 DEF TakeWrite
  <1>12. CASE WriteLoopClosed
    BY <1>12 DEF WriteLoopClosed
  <1>13. CASE WritePart
    BY <1>13 DEF WritePart, Open
  <1>14. CASE WaitForContinue
    BY <1>14 DEF WaitForContinue
  <1>15. CASE WriteRest
    BY <1>15 DEF WriteRest, Open
  <1>16. CASE WriteFails
    BY <1>16 DEF WriteFails
  <1>17. CASE ReportWrite
    BY <1>17 DEF ReportWrite
  <1>18. CASE TellCaller
    BY <1>18 DEF TellCaller, Close
  <1>19. ASSUME NEW r \in Req, ServerContinues(r) PROVE srv' \in SrvRec
    BY <1>19 DEF ServerContinues, Bytes, Open, OnWire, SomeReq, Final, Closing
  <1>20. ASSUME NEW r \in Req, NEW kind \in Answers, ServerAnswers(r, kind)
         PROVE  srv' \in SrvRec
    BY <1>20 DEF ServerAnswers, Bytes, Open, OnWire, SomeReq, Final, Closing
  <1>21. ASSUME NEW r \in Req, NEW kind \in Answers, ServerCutsOff(r, kind)
         PROVE  srv' \in SrvRec
    BY <1>21 DEF ServerCutsOff, Bytes, Open, OnWire, SomeReq, Final, Closing
  <1>22. CASE ServerTimesOut
    BY <1>22 DEF ServerTimesOut, Bytes, Open, OnWire, SomeReq, Final, Closing
  <1>23. CASE ServerHangsUp
    BY <1>23 DEF ServerHangsUp
  <1>24. CASE PoolCloses
    BY <1>24 DEF PoolCloses, Close
  <1>25. ASSUME NEW ok \in BOOLEAN, Peek(ok) PROVE srv' \in SrvRec
    BY <1>25 DEF Peek, Close, PeekFail
  <1>26. CASE TakeRequest
    BY <1>26 DEF TakeRequest
  <1>27. CASE ReadContinue
    BY <1>27 DEF ReadContinue
  <1>28. CASE ReadFinal
    BY <1>28 DEF ReadFinal
  <1>29. CASE ReadFails
    BY <1>29 DEF ReadFails
  <1>30. CASE DeliverError
    BY <1>30 DEF DeliverError, Becomes
  <1>31. CASE CallerGone
    BY <1>31 DEF CallerGone
  <1>32. CASE WroteRequest
    BY <1>32 DEF WroteRequest, Decided
  <1>33. CASE TryPutIdleConn
    BY <1>33 DEF TryPutIdleConn, Decided
  <1>34. CASE Deliver
    BY <1>34 DEF Deliver, Received, Becomes, Again
  <1>35. CASE DeliverBody
    BY <1>35 DEF DeliverBody, Received, Becomes
  <1>36. CASE BodyRead
    BY <1>36 DEF BodyRead, Becomes
  <1>37. CASE BodyCanceled
    BY <1>37 DEF BodyCanceled, CancelRequest, Close
  <1>38. CASE BodyConnClosed
    BY <1>38 DEF BodyConnClosed
  <1>39. CASE ReleaseBodyReader
    BY <1>39 DEF ReleaseBodyReader, Becomes, Again
  <1>40. CASE CloseEofc
    BY <1>40 DEF CloseEofc
  <1>41. CASE ExitClose
    BY <1>41 DEF ExitClose, Close
  <1>42. CASE ExitRemove
    BY <1>42 DEF ExitRemove
  <1>43. ASSUME NEW r \in Req, ReadToEnd(r) PROVE srv' \in SrvRec
    BY <1>43 DEF ReadToEnd, Signal, Becomes
  <1>44. ASSUME NEW r \in Req, ReadBodyFails(r) PROVE srv' \in SrvRec
    BY <1>44 DEF ReadBodyFails, Signal, Becomes
  <1>45. ASSUME NEW r \in Req, CloseBody(r) PROVE srv' \in SrvRec
    BY <1>45 DEF CloseBody, Signal, Becomes
  <1>46. ASSUME NEW r \in Req, BodyReleased(r) PROVE srv' \in SrvRec
    BY <1>46 DEF BodyReleased
  <1>47. CASE Terminated
    BY <1>47 DEF Terminated, vars
  <1>q. QED
    BY <1>1, <1>2, <1>3, <1>4, <1>5, <1>6, <1>7, <1>8, <1>9, <1>10, <1>11, <1>12, <1>13, <1>14,
         <1>15, <1>16, <1>17, <1>18, <1>19, <1>20, <1>21, <1>22, <1>23, <1>24, <1>25, <1>26,
         <1>27, <1>28, <1>29, <1>30, <1>31, <1>32, <1>33, <1>34, <1>35, <1>36, <1>37, <1>38,
         <1>39, <1>40, <1>41, <1>42, <1>43, <1>44, <1>45, <1>46, <1>47 DEF Next

-----------------------------------------------------------------------------
(* The actions, as the invariants see them.                                *)

\* Call q keeps what the invariants read of it.
Keeps(q) ==
    /\ call'[q].at = call[q].at /\ call'[q].cont = call[q].cont
    /\ call'[q].body = call[q].body /\ call'[q].bodyRead = call[q].bodyRead

\* No call changes.
AllKeep == \A q \in Req : Keeps(q)

\* Only call r changes.
Others(r) == \A q \in Req : q # r => Keeps(q)

\* roundTrip of r is now at "at".
MovesTo(r, at) ==
    /\ Others(r)
    /\ call'[r].at = at /\ call'[r].cont = call[r].cont
    /\ call'[r].body = call[r].body /\ call'[r].bodyRead = call[r].bodyRead

\* The continue channel of r is now cont.
Continues(r, cont) ==
    /\ Others(r)
    /\ call'[r].at = call[r].at /\ call'[r].cont = cont
    /\ call'[r].body = call[r].body /\ call'[r].bodyRead = call[r].bodyRead

\* The body of r is now body, its signals bodyRead.
BodyMoves(r, at, body, bodyRead) ==
    /\ Others(r)
    /\ call'[r].at = at /\ call'[r].cont = call[r].cont
    /\ call'[r].body = body /\ call'[r].bodyRead = bodyRead

\* The connection stays as it is, or is closed with an error.
PcKeeps == pc'.closed = pc.closed /\ pc'.expected = pc.expected /\ pc'.pool = pc.pool
Breaks  == pc'.closed # None /\ pc'.expected = pc.expected /\ pc'.pool = pc.pool

\* The first signal of a body: read to its end, or given up.
SaysEOF(s)  == s = <<TRUE>>
SaysStop(s) == s # <<>> /\ Head(s) = FALSE

\* pc.close sets pc.closed to an error that is not None, once and for all.
LEMMA CloseBreaks ==
  ASSUME Types, NEW e \in Errors,
         pc' = Close(pc, e) \/ \E r \in SomeReq : pc' = [Close(pc, e) EXCEPT !.canceledErr = r]
  PROVE  Breaks
  <1>. e # None BY NoneApart
  <1>. QED BY DEF Close, Breaks, Types, PcRec

\* getConn hands the connection to roundTrip.
LEMMA AcquireEffect ==
  ASSUME Types, Serve, NEW r \in Req, Acquire(r)
  PROVE  MovesTo(r, "got")
  BY DEF Acquire, To, Types, CallRec, Keeps, Others, MovesTo

\* roundTrip counts the response it expects.
LEMMA ExpectResponseEffect ==
  ASSUME Types, Serve, NEW r \in Req, ExpectResponse(r)
  PROVE  MovesTo(r, "write")
  BY DEF ExpectResponse, To, Types, CallRec, Keeps, Others, MovesTo

\* roundTrip hands the request to writeLoop.
LEMMA SendToWriteLoopEffect ==
  ASSUME Types, Serve, NEW r \in Req, SendToWriteLoop(r)
  PROVE  MovesTo(r, "queue")
  BY DEF SendToWriteLoop, Becomes, Types, CallRec, Keeps, Others, MovesTo

\* roundTrip hands the request to readLoop and waits.
LEMMA SendToReadLoopEffect ==
  ASSUME Types, Serve, NEW r \in Req, SendToReadLoop(r)
  PROVE  MovesTo(r, "select")
  BY DEF SendToReadLoop, To, Types, CallRec, Keeps, Others, MovesTo

\* roundTrip learns how the write ended.
LEMMA WriteReportedEffect ==
  ASSUME Types, Serve, NEW r \in Req, WriteReported(r)
  PROVE  (call[r].wch = "failed" /\ MovesTo(r, "map")) \/ (call[r].wch = "ok" /\ AllKeep)
  <1>. USE DEF Types, CallRec, Keeps, AllKeep, Others, MovesTo, Becomes
  <1>1. ASSUME call' = Becomes(r, [call[r] EXCEPT !.at = "map", !.wch = None, !.err = "write"])
        PROVE  MovesTo(r, "map")
    BY <1>1
  <1>2. ASSUME call' = Becomes(r, [call[r] EXCEPT !.wch = None,
               !.timer = ResponseHeaderTimeout])
        PROVE  AllKeep
    BY <1>2
  <1>. QED BY <1>1, <1>2, Zenon DEF WriteReported

\* roundTrip learns that the connection is closed.
LEMMA ConnClosedEffect ==
  ASSUME Types, Serve, NEW r \in Req, ConnClosed(r)
  PROVE  MovesTo(r, "map")
  BY DEF ConnClosed, Becomes, Types, CallRec, Keeps, Others, MovesTo

\* The response header timer fires.
LEMMA HeaderTimeoutEffect ==
  ASSUME Types, Serve, NEW r \in Req, HeaderTimeout(r)
  PROVE  MovesTo(r, "done")
  BY DEF HeaderTimeout, Becomes, Close, Types, CallRec, Keeps, Others, MovesTo

\* roundTrip returns an error, or asks for another connection.
LEMMA MapErrorEffect ==
  ASSUME Types, Serve, NEW r \in Req, MapError(r)
  PROVE  MovesTo(r, "done")
  BY DEF MapError, Failed, Becomes, Types, CallRec, Keeps, Others, MovesTo

\* writeLoop goes on with the body, or skips it.
LEMMA WaitForContinueEffect ==
  ASSUME Types, Serve, WaitForContinue
  PROVE  \/ Continues(w.req, "empty") /\ w' = [w EXCEPT !.at = "part"]
         \/ /\ AllKeep /\ w' = [w EXCEPT !.at = "report", !.res = "ok"]
            /\ call[w.req].cont = "closed" \/ pc.closed # None
  BY DEF WaitForContinue, Types, Serve, CallRec, Keeps, AllKeep, Others, Continues

\* readLoop reads 100 Continue.
LEMMA ReadContinueEffect ==
  ASSUME Types, Serve, ReadContinue
  PROVE  Continues(rl.req, "full") \/ AllKeep
  BY DEF ReadContinue, Types, Serve, CallRec, Serving, WithResponse, Keeps, AllKeep, Others,
         Continues

\* readLoop reads a response; the writer of the body is told to go on or to
\* stop.
LEMMA ReadFinalEffect ==
  ASSUME Types, Serve, ReadFinal
  PROVE  \/ Continues(rl.req, IF Head(srv.wire).kind \in Closing THEN "closed" ELSE "full")
         \/ AllKeep
  BY DEF ReadFinal, Types, Serve, CallRec, Serving, WithResponse, Keeps, AllKeep, Others,
         Continues

\* readLoop hands roundTrip an error.
LEMMA DeliverErrorEffect ==
  ASSUME Types, Serve, DeliverError
  PROVE  MovesTo(rl.req, "map")
  BY DEF DeliverError, Becomes, Types, Serve, CallRec, Serving, WithResponse, Keeps, Others,
         MovesTo

\* readLoop hands roundTrip a response without a body.
LEMMA DeliverEffect ==
  ASSUME Types, Serve, Deliver
  PROVE  MovesTo(rl.req, "done")
  BY DEF Deliver, Received, Becomes, Again, Types, Serve, CallRec, Serving, WithResponse, Keeps,
         Others, MovesTo

\* readLoop hands roundTrip a response with its body.
LEMMA DeliverBodyEffect ==
  ASSUME Types, Serve, DeliverBody
  PROVE  BodyMoves(rl.req, "done", "open", call[rl.req].bodyRead)
  BY DEF DeliverBody, Received, Becomes, Types, Serve, CallRec, Serving, WithResponse, Keeps,
         Others, BodyMoves

\* readLoop takes the signal of the body.
LEMMA BodyReadEffect ==
  ASSUME Types, Serve, BodyRead
  PROVE  BodyMoves(rl.req, call[rl.req].at, call[rl.req].body, Tail(call[rl.req].bodyRead))
  BY DEF BodyRead, Becomes, Types, Serve, CallRec, Serving, WithResponse, Keeps, Others,
         BodyMoves

\* readLoop lets the reader of the body return.
LEMMA ReleaseBodyReaderEffect ==
  ASSUME Types, Serve, ReleaseBodyReader
  PROVE  BodyMoves(rl.req, call[rl.req].at, "over", call[rl.req].bodyRead)
  BY DEF ReleaseBodyReader, Becomes, Again, Types, Serve, CallRec, Serving, WithResponse, Keeps,
         Others, BodyMoves

\* The user reads the body to its end.
LEMMA ReadToEndEffect ==
  ASSUME Types, Serve, NEW r \in Req, ReadToEnd(r)
  PROVE  BodyMoves(r, call[r].at, "eof", Append(call[r].bodyRead, TRUE))
  BY DEF ReadToEnd, Signal, Becomes, Types, CallRec, Keeps, Others, BodyMoves

\* A read of the body fails.
LEMMA ReadBodyFailsEffect ==
  ASSUME Types, Serve, NEW r \in Req, ReadBodyFails(r)
  PROVE  BodyMoves(r, call[r].at, "failed", Append(call[r].bodyRead, FALSE))
  BY DEF ReadBodyFails, Signal, Becomes, Types, CallRec, Keeps, Others, BodyMoves

\* The user closes the body early.
LEMMA CloseBodyEffect ==
  ASSUME Types, Serve, NEW r \in Req, CloseBody(r)
  PROVE  BodyMoves(r, call[r].at, "closing", Append(call[r].bodyRead, FALSE))
  BY DEF CloseBody, Signal, Becomes, Types, CallRec, Keeps, Others, BodyMoves

\* The reader of the body returns once eofc is closed.
LEMMA BodyReleasedEffect ==
  ASSUME Types, Serve, NEW r \in Req, BodyReleased(r)
  PROVE  BodyMoves(r, call[r].at, "over", call[r].bodyRead)
  BY DEF BodyReleased, Types, CallRec, Keeps, Others, BodyMoves

\* A cancelled context moves no call by itself.
LEMMA UserCancelsEffect ==
  ASSUME Types, Serve, NEW r \in Req, UserCancels(r)
  PROVE  AllKeep
  BY DEF UserCancels, Types, CallRec, Keeps, AllKeep

\* Nor does a failed write,
LEMMA WriteFailsEffect ==
  ASSUME Types, Serve, WriteFails
  PROVE  AllKeep
  BY DEF WriteFails, Types, Serve, CallRec, Serving, WithResponse, Keeps, AllKeep

\* the report of a write,
LEMMA TellCallerEffect ==
  ASSUME Types, Serve, TellCaller
  PROVE  AllKeep
  BY DEF TellCaller, Close, Types, Serve, CallRec, Serving, WithResponse, Keeps, AllKeep

\* or the end of the connection below a body.
LEMMA BodyConnClosedEffect ==
  ASSUME Types, Serve, BodyConnClosed
  PROVE  AllKeep
  BY DEF BodyConnClosed, Types, Serve, CallRec, Serving, WithResponse, Keeps, AllKeep

\* readLoop is now at "at" with the request and the response it had.
RlTo(at, alive) == rl'.at = at /\ rl'.req = rl.req /\ rl'.resp = rl.resp /\ (rl'.alive <=> alive)

\* Steps as the invariants see them. The request is in writech.
LEMMA SendToWriteLoopView ==
  ASSUME Types, Serve, NEW r \in Req, SendToWriteLoop(r)
  PROVE  /\ call[r].at = "write" /\ ch.write = <<>> /\ MovesTo(r, "queue")
         /\ ch'.write = <<r>> /\ ch'.req = ch.req /\ ch'.err = ch.err
         /\ UNCHANGED <<pc, w, rl, sent, srv>>
  <1>1. ch'.write = <<r>> /\ ch'.req = ch.req /\ ch'.err = ch.err
    <2>1. ch' = [ch EXCEPT !.write = <<r>>] BY Zenon DEF SendToWriteLoop
    <2>. QED BY <2>1 DEF Types, ChRec
  <1>. QED BY <1>1, SendToWriteLoopEffect, Zenon DEF SendToWriteLoop

\* Only a closed connection sends roundTrip to mapRoundTripError this way.
LEMMA ConnClosedView ==
  ASSUME Types, Serve, NEW r \in Req, ConnClosed(r)
  PROVE  /\ call[r].at = "select" /\ pc.closed # None /\ MovesTo(r, "map")
         /\ UNCHANGED <<pc, ch, w, rl, sent, srv>>
  BY ConnClosedEffect, Zenon DEF ConnClosed

\* readLoop exits after an error, and its caller was waiting.
LEMMA DeliverErrorView ==
  ASSUME Types, Serve, DeliverError
  PROVE  /\ rl.at = "fail" /\ call[rl.req].at = "select" /\ MovesTo(rl.req, "map")
         /\ RlTo("exit", rl.alive)
         /\ UNCHANGED <<pc, ch, w, sent, srv>>
  <1>1. rl' = [rl EXCEPT !.at = "exit"] BY Zenon DEF DeliverError
  <1>2. RlTo("exit", rl.alive) BY <1>1 DEF RlTo, Types, RlRec
  <1>. QED BY <1>2, DeliverErrorEffect, Zenon DEF DeliverError

\* After a response with a body readLoop waits for the body.
LEMMA DeliverBodyView ==
  ASSUME Types, Serve, DeliverBody
  PROVE  /\ rl.at = "sendBody" /\ call[rl.req].at = "select" /\ RlTo("wait", rl.alive)
         /\ BodyMoves(rl.req, "done", "open", call[rl.req].bodyRead)
         /\ UNCHANGED <<pc, ch, w, sent, srv>>
  <1>1. rl' = [rl EXCEPT !.at = "wait"] BY Zenon DEF DeliverBody
  <1>2. RlTo("wait", rl.alive) BY <1>1 DEF RlTo, Types, RlRec
  <1>. QED BY <1>2, DeliverBodyEffect, Zenon DEF DeliverBody

\* A failed write closes the connection.
LEMMA WriteReportedView ==
  ASSUME Types, Serve, NEW r \in Req, WriteReported(r)
  PROVE  /\ call[r].at = "select"
         /\ (MovesTo(r, "map") /\ Breaks) \/ (AllKeep /\ PcKeeps)
         /\ UNCHANGED <<ch, w, rl, sent, srv>>
  BY WriteReportedEffect, CloseBreaks, LoopValues DEF WriteReported, PcKeeps

\* A timeout closes the connection.
LEMMA HeaderTimeoutView ==
  ASSUME Types, Serve, NEW r \in Req, HeaderTimeout(r)
  PROVE  /\ call[r].at = "select" /\ MovesTo(r, "done") /\ Breaks
         /\ UNCHANGED <<ch, w, rl, sent, srv>>
  BY HeaderTimeoutEffect, CloseBreaks, LoopValues DEF HeaderTimeout

\* A cancelled request closes the connection.
LEMMA CtxDoneView ==
  ASSUME Types, Serve, NEW r \in Req, CtxDone(r)
  PROVE  Breaks /\ UNCHANGED <<call, ch, w, rl, sent, srv>>
  BY CloseBreaks, LoopValues DEF CtxDone, CancelRequest

\* mapRoundTripError waits for writeLoop to end.
LEMMA MapErrorView ==
  ASSUME Types, Serve, NEW r \in Req, MapError(r)
  PROVE  /\ call[r].at = "map" /\ w.at = "done" /\ MovesTo(r, "done")
         /\ UNCHANGED <<pc, ch, w, rl, sent, srv>>
  BY MapErrorEffect DEF MapError

\* writeLoop takes the one request of writech.
LEMMA TakeWriteView ==
  ASSUME Types, Serve, TakeWrite
  PROVE  \E q \in Req :
            /\ w.at = "idle" /\ ch.write = <<q>>
            /\ w'.at = "begin" /\ w'.req = q
            /\ ch'.write = <<>> /\ ch'.req = ch.req /\ ch'.err = ch.err
            /\ UNCHANGED <<call, pc, rl, sent, srv>>
  <1>1. PICK q \in Req : ch.write = <<q>> BY DEF TakeWrite, Types, ChRec, OneReq
  <1>2. Head(ch.write) = q BY <1>1
  <1>. QED BY <1>1, <1>2 DEF TakeWrite, Types, ChRec, WRec

\* writeLoop ends after a failed write, which closes the connection.
LEMMA TellCallerView ==
  ASSUME Types, Serve, TellCaller
  PROVE  /\ w.at = "tell" /\ AllKeep /\ w'.req = None
         /\ \/ w.res = "ok" /\ w'.at = "idle" /\ pc' = pc
            \/ w.res = "failed" /\ w'.at = "done" /\ Breaks
         /\ UNCHANGED <<ch, rl, sent, srv>>
  <1>1. w.res = "ok" \/ w.res = "failed" BY DEF TellCaller, Serve, Types, WRec, WriteError
  <1>2. CASE w.res = "ok" BY <1>2, TellCallerEffect DEF TellCaller
  <1>3. CASE w.res = "failed" BY <1>3, TellCallerEffect, CloseBreaks, LoopValues DEF TellCaller
  <1>. QED BY <1>1, <1>2, <1>3

\* The pool closes a connection it holds.
LEMMA PoolClosesView ==
  ASSUME Types, Serve, PoolCloses
  PROVE  /\ pc.pool = "idle" /\ pc'.pool = "gone" /\ pc'.closed # None
         /\ pc'.expected = pc.expected
         /\ UNCHANGED <<call, ch, w, rl, sent, srv>>
  BY LoopValues, NoneApart DEF PoolCloses, Close, Types, PcRec

\* readLoop goes on to a request only when a response is expected, and closes
\* the connection otherwise.
LEMMA PeekView ==
  ASSUME Types, Serve, NEW ok \in BOOLEAN, Peek(ok)
  PROVE  /\ rl.at = "peek"
         /\ \/ pc.expected = 0 /\ RlTo("exit", rl.alive) /\ Breaks
            \/ pc.expected > 0 /\ RlTo("take", rl.alive) /\ pc' = pc
         /\ UNCHANGED <<call, ch, w, sent, srv>>
  <1>1. PeekFail(ok) \subseteq Errors BY DEF PeekFail, Errors
  <1>2. CASE /\ pc.expected = 0 /\ rl' = [rl EXCEPT !.at = "exit"]
             /\ \E err \in PeekFail(ok) : pc' = Close(pc, err)
    BY <1>1, <1>2, CloseBreaks DEF Peek, RlTo, Types, RlRec
  <1>3. CASE pc.expected > 0 /\ rl' = [rl EXCEPT !.at = "take", !.peekOK = ok] /\ UNCHANGED pc
    BY <1>3 DEF Peek, RlTo, Types, RlRec
  <1>. QED BY <1>2, <1>3, Zenon DEF Peek

\* readLoop takes the one request of reqch.
LEMMA TakeRequestView ==
  ASSUME Types, Serve, TakeRequest
  PROVE  \E q \in Req :
            /\ rl.at = "take" /\ ch.req = <<q>>
            /\ ch' = [ch EXCEPT !.req = <<>>]
            /\ rl'.req = q /\ rl'.at = (IF rl.peekOK THEN "read" ELSE "fail")
            /\ (rl'.alive <=> rl.alive) /\ rl'.resp = rl.resp
            /\ UNCHANGED <<call, pc, w, sent, srv>>
  <1>1. PICK q \in Req : ch.req = <<q>> BY DEF TakeRequest, Types, ChRec, OneReq
  <1>2. Head(ch.req) = q BY <1>1
  <1>3. rl' = [rl EXCEPT !.req = q, !.saw100 = FALSE, !.at = IF rl.peekOK THEN "read" ELSE "fail",
                        !.closeErr = IF rl.peekOK THEN @ ELSE "read"]
    BY <1>2 DEF TakeRequest
  <1>. QED BY <1>1, <1>3 DEF TakeRequest, Types, RlRec

\* readLoop takes the response from the wire, counts it and is alive only after
\* a response that leaves the connection reusable.
LEMMA ReadFinalView ==
  ASSUME Types, Serve, ReadFinal
  PROVE  \E resp \in Response :
            /\ rl.at = "read" /\ srv.wire # <<>> /\ resp = Head(srv.wire)
            /\ srv' = [srv EXCEPT !.wire = Tail(@)]
            /\ rl'.req = rl.req /\ rl'.resp = resp
            /\ rl'.alive <=> (resp.kind \in {"plain", "body"})
            /\ rl'.at = (IF resp.kind \in HasBody THEN "sendBody"
                         ELSE IF resp.kind = "plain" THEN "wrote" ELSE "send")
            /\ Continues(rl.req, IF resp.kind \in Closing THEN "closed" ELSE "full") \/ AllKeep
            /\ pc'.closed = pc.closed /\ pc'.pool = pc.pool /\ pc'.expected = pc.expected - 1
            /\ UNCHANGED <<ch, w, sent>>
  <1>1. Head(srv.wire) \in OnWire /\ Head(srv.wire).kind \in Final
    BY WireValues DEF ReadFinal, Types, SrvRec
  <1>2. Head(srv.wire) \in Response
    BY <1>1 DEF OnWire, Response
  <1>3. pc'.closed = pc.closed /\ pc'.pool = pc.pool /\ pc'.expected = pc.expected - 1
    BY DEF ReadFinal, Types, PcRec
  <1>4. PICK resp \in Response : resp = Head(srv.wire) BY <1>2
  <1>5. Continues(rl.req, IF resp.kind \in Closing THEN "closed" ELSE "full") \/ AllKeep
    BY <1>4, ReadFinalEffect
  <1>6. rl' = [rl EXCEPT !.resp = resp, !.alive = resp.kind \in {"plain", "body"},
                         !.closeErr = IF resp.kind = "switch" THEN "callerOwnsConn" ELSE @,
                         !.at = IF resp.kind \in HasBody THEN "sendBody"
                                ELSE IF resp.kind = "plain" THEN "wrote" ELSE "send"]
    BY <1>4 DEF ReadFinal
  <1>7. /\ rl'.req = rl.req /\ rl'.resp = resp
        /\ rl'.alive <=> (resp.kind \in {"plain", "body"})
        /\ rl'.at = (IF resp.kind \in HasBody THEN "sendBody"
                     ELSE IF resp.kind = "plain" THEN "wrote" ELSE "send")
    BY <1>6 DEF Types, RlRec
  <1>8. /\ rl.at = "read" /\ srv.wire # <<>> /\ srv' = [srv EXCEPT !.wire = Tail(@)]
        /\ UNCHANGED <<ch, w, sent>>
    BY DEF ReadFinal
  <1>. QED BY <1>3, <1>4, <1>5, <1>7, <1>8, Zenon

\* wroteRequest: the write went well and was reported, or the connection is not
\* reused.
LEMMA WroteRequestView ==
  ASSUME Types, Serve, WroteRequest
  PROVE  /\ rl.at = "wrote" /\ UNCHANGED <<call, pc, w, sent, srv>>
         /\ ch'.write = ch.write /\ ch'.req = ch.req /\ ch'.err \in {ch.err, <<>>}
         /\ \/ ch.err \notin {<<>>, <<"failed">>} /\ ch'.err = <<>> /\ RlTo("put", rl.alive)
            \/ RlTo(Decided, FALSE)
  <1>a. /\ [rl EXCEPT !.at = "put"] = rl' => RlTo("put", rl.alive)
        /\ [rl EXCEPT !.at = Decided, !.alive = FALSE] = rl' => RlTo(Decided, FALSE)
    BY DEF RlTo, Types, RlRec
  <1>b. /\ [ch EXCEPT !.err = <<>>] = ch' => ch'.write = ch.write /\ ch'.req = ch.req /\ ch'.err = <<>>
    BY DEF Types, ChRec
  <1>1. ch.err # <<>> => ch.err = <<"ok">> \/ ch.err = <<"failed">>
    BY DEF Types, ChRec, OneResult
  <1>2. CASE ch.err = <<"ok">>
    <2>1. Head(ch.err) = "ok" BY <1>2
    <2>2. ch.err \notin {<<>>, <<"failed">>} BY <1>2
    <2>. QED BY <1>a, <1>b, <2>1, <2>2 DEF WroteRequest
  <1>3. CASE ch.err = <<"failed">>
    <2>1. Head(ch.err) # "ok" BY <1>3
    <2>. QED BY <1>a, <1>b, <2>1, <1>3 DEF WroteRequest
  <1>4. CASE ch.err = <<>>
    BY <1>a, <1>4 DEF WroteRequest
  <1>. QED BY <1>1, <1>2, <1>3, <1>4

\* tryPutIdleConn: the connection is idle, or it is not reused.
LEMMA TryPutIdleConnView ==
  ASSUME Types, Serve, TryPutIdleConn
  PROVE  /\ rl.at = "put" /\ UNCHANGED <<call, ch, w, sent, srv>>
         /\ rl'.at = Decided /\ rl'.req = rl.req /\ rl'.resp = rl.resp
         /\ pc'.closed = pc.closed /\ pc'.expected = pc.expected
         /\ \/ pc.closed = None /\ pc'.pool = "idle" /\ (rl'.alive <=> rl.alive)
            \/ pc'.pool = pc.pool /\ ~rl'.alive
  BY DEF TryPutIdleConn, Types, PcRec, RlRec

\* After a response without a body readLoop goes on if it is alive.
LEMMA DeliverView ==
  ASSUME Types, Serve, Deliver
  PROVE  /\ rl.at = "send" /\ MovesTo(rl.req, "done") /\ UNCHANGED <<pc, ch, w, sent, srv>>
         /\ rl'.at = (IF rl.alive THEN "peek" ELSE "exit") /\ rl'.req = None /\ (rl'.alive <=> rl.alive)
         /\ call[rl.req].at = "select"
  BY DeliverEffect DEF Deliver, Again, Types, RlRec

\* So it does after a body.
LEMMA ReleaseBodyReaderView ==
  ASSUME Types, Serve, ReleaseBodyReader
  PROVE  /\ rl.at = "eofc" /\ call[rl.req].body = "eof" /\ UNCHANGED <<pc, ch, w, sent, srv>>
         /\ BodyMoves(rl.req, call[rl.req].at, "over", call[rl.req].bodyRead)
         /\ rl'.at = (IF rl.alive THEN "peek" ELSE "exit") /\ rl'.req = None /\ (rl'.alive <=> rl.alive)
  BY ReleaseBodyReaderEffect DEF ReleaseBodyReader, Again, Types, RlRec

\* A body read to its end lets readLoop recycle the connection, any other end
\* makes it exit.
LEMMA BodyReadView ==
  ASSUME Types, Serve, BodyRead
  PROVE  /\ rl.at = "wait" /\ call[rl.req].bodyRead # <<>> /\ UNCHANGED <<pc, ch, w, sent, srv>>
         /\ BodyMoves(rl.req, call[rl.req].at, call[rl.req].body, Tail(call[rl.req].bodyRead))
         /\ \/ /\ SaysStop(call[rl.req].bodyRead) /\ RlTo("exit", FALSE)
            \/ /\ ~SaysStop(call[rl.req].bodyRead)
               /\ RlTo(IF rl.alive THEN "wrote" ELSE "eofc", rl.alive)
  <1>1. rl.req \in Req BY DEF BodyRead, Serve, Serving, WithResponse
  <1>2. call[rl.req].bodyRead \in Seq(BOOLEAN) /\ call[rl.req].bodyRead # <<>>
    BY <1>1, StateValues DEF Signals, BodyRead
  <1>3. Head(call[rl.req].bodyRead) \in BOOLEAN BY <1>2, HeadTail, Zenon
  <1>4. CASE Head(call[rl.req].bodyRead) = FALSE
    <2>a. rl' = [rl EXCEPT !.at = "exit", !.alive = FALSE] BY <1>4, Zenon DEF BodyRead
    <2>1. RlTo("exit", FALSE) BY <2>a DEF RlTo, Types, RlRec
    <2>. QED BY <1>2, <1>4, <2>1, BodyReadEffect, Zenon DEF BodyRead, SaysStop
  <1>5. CASE Head(call[rl.req].bodyRead) = TRUE
    <2>1. RlTo(IF rl.alive THEN "wrote" ELSE "eofc", rl.alive)
       <3>1. CASE rl.alive
         <4>1. rl' = [rl EXCEPT !.at = "wrote"] BY <1>5, <3>1, Zenon DEF BodyRead
         <4>. QED BY <3>1, <4>1 DEF RlTo, Types, RlRec
       <3>2. CASE ~rl.alive
         <4>1. rl' = [rl EXCEPT !.at = "eofc"] BY <1>5, <3>2, Zenon DEF BodyRead
         <4>. QED BY <3>2, <4>1 DEF RlTo, Types, RlRec
       <3>. QED BY <3>1, <3>2
    <2>. QED BY <1>2, <1>5, <2>1, BodyReadEffect, Zenon DEF BodyRead, SaysStop
  <1>. QED BY <1>3, <1>4, <1>5

\* Appending to a sequence that holds something leaves its head.
LEMMA HeadAppend ==
  ASSUME NEW S, NEW s \in Seq(S), s # <<>>, NEW x \in S
  PROVE  Head(Append(s, x)) = Head(s) /\ Append(s, x) # <<>>
  OBVIOUS

\* Appending to the empty sequence.
LEMMA HeadOne ==
  ASSUME NEW x PROVE Append(<<>>, x) = <<x>> /\ Head(<<x>>) = x /\ <<x>> # <<>>
  OBVIOUS

\* The first signal of a body stays the first.
LEMMA SignalValues ==
    /\ \A s \in Signals : s = <<>> => SaysEOF(Append(s, TRUE)) /\ SaysStop(Append(s, FALSE))
    /\ \A s \in Signals : SaysStop(s) => SaysStop(Append(s, FALSE))
    /\ \A s : SaysEOF(s) => ~SaysStop(s)
  <1>1. ASSUME NEW s \in Signals, s # <<>>
        PROVE  Head(Append(s, FALSE)) = Head(s) /\ Append(s, FALSE) # <<>>
    BY <1>1, HeadAppend DEF Signals
  <1>2. SaysEOF(Append(<<>>, TRUE)) BY DEF SaysEOF
  <1>3. SaysStop(Append(<<>>, FALSE)) BY HeadOne DEF SaysStop
  <1>4. ASSUME NEW s, SaysEOF(s) PROVE ~SaysStop(s) BY <1>4, HeadOne DEF SaysEOF, SaysStop
  <1>. QED BY <1>1, <1>2, <1>3, <1>4, Zenon DEF SaysStop

\* The end of a body is signalled to readLoop,
LEMMA ReadToEndView ==
  ASSUME Types, Serve, NEW r \in Req, ReadToEnd(r)
  PROVE  /\ call[r].body = "open" /\ srv.wire # <<>> /\ Head(srv.wire).kind = "bytes"
         /\ srv' = [srv EXCEPT !.wire = Tail(@)] /\ UNCHANGED <<pc, ch, w, rl, sent>>
         /\ \E s : BodyMoves(r, call[r].at, "eof", s) /\ (call[r].bodyRead = <<>> => SaysEOF(s))
  <1>1. call[r].bodyRead \in Signals BY StateValues
  <1>2. call[r].bodyRead = <<>> => SaysEOF(Append(call[r].bodyRead, TRUE))
    BY <1>1, SignalValues, Zenon
  <1>3. BodyMoves(r, call[r].at, "eof", Append(call[r].bodyRead, TRUE)) BY ReadToEndEffect
  <1>. QED BY <1>2, <1>3, Zenon DEF ReadToEnd

\* and so is a failed read,
LEMMA ReadBodyFailsView ==
  ASSUME Types, Serve, NEW r \in Req, ReadBodyFails(r)
  PROVE  /\ call[r].body = "open" /\ UNCHANGED <<pc, ch, w, rl, sent, srv>>
         /\ \E s : BodyMoves(r, call[r].at, "failed", s) /\ (call[r].bodyRead = <<>> => SaysStop(s))
  <1>1. call[r].bodyRead \in Signals BY StateValues
  <1>2. call[r].bodyRead = <<>> => SaysStop(Append(call[r].bodyRead, FALSE))
    BY <1>1, SignalValues, Zenon
  <1>3. BodyMoves(r, call[r].at, "failed", Append(call[r].bodyRead, FALSE))
    BY ReadBodyFailsEffect
  <1>. QED BY <1>2, <1>3, Zenon DEF ReadBodyFails

\* and an early close, whatever was signalled before.
LEMMA CloseBodyView ==
  ASSUME Types, Serve, NEW r \in Req, CloseBody(r)
  PROVE  /\ call[r].body \in {"open", "failed"} /\ UNCHANGED <<pc, ch, w, rl, sent, srv>>
         /\ \E s : /\ BodyMoves(r, call[r].at, "closing", s)
                   /\ call[r].bodyRead = <<>> \/ SaysStop(call[r].bodyRead) => SaysStop(s)
  <1>1. call[r].bodyRead \in Signals BY StateValues
  <1>2. call[r].bodyRead = <<>> \/ SaysStop(call[r].bodyRead)
           => SaysStop(Append(call[r].bodyRead, FALSE))
    BY <1>1, SignalValues, Zenon
  <1>3. BodyMoves(r, call[r].at, "closing", Append(call[r].bodyRead, FALSE)) BY CloseBodyEffect
  <1>. QED BY <1>2, <1>3, Zenon DEF CloseBody

\* writeLoop skips a body only when told to, or on a closed connection.
LEMMA WaitForContinueView ==
  ASSUME Types, Serve, WaitForContinue
  PROVE  /\ w.at = "await" /\ UNCHANGED <<pc, ch, rl, sent, srv>>
         /\ w'.req = w.req
         /\ \/ Continues(w.req, "empty") /\ w'.at = "part"
            \/ /\ AllKeep /\ w'.at = "report" /\ w'.res = "ok"
               /\ call[w.req].cont = "closed" \/ pc.closed # None
  BY WaitForContinueEffect DEF WaitForContinue, Types, WRec

\* A request cancelled while its body is read closes the connection.
LEMMA BodyCanceledView ==
  ASSUME Types, Serve, BodyCanceled
  PROVE  /\ rl.at = "wait" /\ Breaks /\ RlTo("exit", FALSE)
         /\ UNCHANGED <<call, ch, w, sent, srv>>
  <1>1. rl.req \in SomeReq BY DEF Types, RlRec
  <1>. QED BY <1>1, CloseBreaks, LoopValues DEF BodyCanceled, CancelRequest, RlTo, Types, RlRec

\* readLoop stops waiting for the body of a closed connection.
LEMMA BodyConnClosedView ==
  ASSUME Types, Serve, BodyConnClosed
  PROVE  /\ rl.at = "wait" /\ AllKeep /\ RlTo("exit", FALSE)
         /\ UNCHANGED <<pc, ch, w, sent, srv>>
  BY BodyConnClosedEffect DEF BodyConnClosed, RlTo, Types, RlRec

\* readLoop closes the connection as it exits.
LEMMA ExitCloseView ==
  ASSUME Types, Serve, ExitClose
  PROVE  /\ rl.at = "close" /\ Breaks /\ RlTo("remove", rl.alive)
         /\ UNCHANGED <<call, ch, w, sent, srv>>
  <1>1. rl.closeErr \in Errors BY DEF Types, RlRec
  <1>. QED BY <1>1, CloseBreaks DEF ExitClose, RlTo, Types, RlRec

-----------------------------------------------------------------------------
(* The order of readLoop and of the bodies.                                *)

\* readLoop has not yet handed over the response it works on.
BeforeBody ==
    \/ rl.at \in {"read", "fail", "sendBody", "send"}
    \/ rl.at \in {"wrote", "put"} /\ rl.resp.kind \notin HasBody

\* The order of readLoop: it is alive while it works on a response that may be
\* the last but one, it closes the connection before it removes it, it serves a
\* request whose roundTrip has handed it over, and a roundTrip that gave up
\* before its response came left a closed connection behind.
ReadOrder ==
    /\ rl.at \in {"peek", "take", "read", "wrote", "put"} => rl.alive
    /\ rl.at \in {"sendBody", "wait", "eofc"} => rl.resp.kind \in HasBody
    /\ rl.at = "send" => rl.resp.kind \notin HasBody
    /\ rl.at \in {"remove", "done"} => pc.closed # None
    /\ \A r \in Req :
         /\ ch.req = <<r>> \/ rl.req = r => call[r].at \in {"select", "map", "done"}
         /\ ch.req = <<r>> => rl.req # r
         /\ call[r].at \in {"map", "done"} /\ (ch.req = <<r>> \/ (rl.req = r /\ BeforeBody)) =>
               pc.closed # None

\* The order of a body: it is there once roundTrip has returned, readLoop waits
\* for it, or recycles the connection after its end, or has left its loop, and
\* what it was signalled agrees with the state of the body.
BodyOf(r) ==
    /\ call[r].body # "none" => call[r].at = "done" /\ ch.req # <<r>>
    /\ call[r].body \in {"open", "failed", "eof", "closing"} =>
         \/ rl.req = r /\ rl.at \in {"wait", "wrote", "put", "eofc"}
         \/ rl.at \in {"exit", "close", "remove", "done"}
    /\ rl.req = r /\ rl.at = "wait" =>
         \/ call[r].body = "open"
         \/ call[r].body = "eof" /\ SaysEOF(call[r].bodyRead)
         \/ call[r].body \in {"failed", "closing"} /\ SaysStop(call[r].bodyRead)
    /\ rl.req = r /\ rl.at \in {"wrote", "put", "eofc"} /\ ~BeforeBody => call[r].body = "eof"
    /\ rl.req = r /\ BeforeBody => call[r].body = "none"
    /\ call[r].body \in {"none", "open"} => call[r].bodyRead = <<>>

\* So it is for every request.
BodyOrder == \A r \in Req : BodyOf(r)

\* Every step keeps the order of readLoop.
LEMMA ReadOrderStep ==
  ASSUME Types, Serve, ReadOrder, Next PROVE ReadOrder'
  <1>. USE RequestKinds DEF Types, Serve, ReadOrder, BeforeBody, ChRec, RlRec, PcRec, Serving,
       WithResponse, HasBody, Keeps, AllKeep, Others, MovesTo, Continues, BodyMoves, PcKeeps,
       Breaks, RlTo
  <1>1. ASSUME NEW r \in Req, Acquire(r) PROVE ReadOrder'
    BY <1>1, AcquireEffect DEF Acquire
  <1>2. ASSUME NEW r \in Req, ExpectResponse(r) PROVE ReadOrder'
    BY <1>2, ExpectResponseEffect DEF ExpectResponse
  <1>3. ASSUME NEW r \in Req, SendToWriteLoop(r) PROVE ReadOrder'
    BY <1>3, SendToWriteLoopView
  <1>4. ASSUME NEW r \in Req, SendToReadLoop(r) PROVE ReadOrder'
    BY <1>4, SendToReadLoopEffect DEF SendToReadLoop
  <1>5. ASSUME NEW r \in Req, WriteReported(r) PROVE ReadOrder'
    BY <1>5, WriteReportedView
  <1>6. ASSUME NEW r \in Req, ConnClosed(r) PROVE ReadOrder'
    BY <1>6, ConnClosedView
  <1>7. ASSUME NEW r \in Req, HeaderTimeout(r) PROVE ReadOrder'
    BY <1>7, HeaderTimeoutView
  <1>8. ASSUME NEW r \in Req, CtxDone(r) PROVE ReadOrder'
    BY <1>8, CtxDoneView
  <1>9. ASSUME NEW r \in Req, UserCancels(r) PROVE ReadOrder'
    BY <1>9, UserCancelsEffect DEF UserCancels
  <1>10. ASSUME NEW r \in Req, MapError(r) PROVE ReadOrder'
    BY <1>10, MapErrorView
  <1>11. CASE TakeWrite
    BY <1>11, TakeWriteView
  <1>12. CASE WriteLoopClosed
    BY <1>12 DEF WriteLoopClosed
  <1>13. CASE WritePart
    BY <1>13 DEF WritePart, Open
  <1>14. CASE WaitForContinue
    BY <1>14, WaitForContinueView
  <1>15. CASE WriteRest
    BY <1>15 DEF WriteRest, Open
  <1>16. CASE WriteFails
    BY <1>16, WriteFailsEffect DEF WriteFails
  <1>17. CASE ReportWrite
    BY <1>17 DEF ReportWrite
  <1>18. CASE TellCaller
    BY <1>18, TellCallerView
  <1>19. ASSUME NEW r \in Req, ServerContinues(r) PROVE ReadOrder'
    BY <1>19 DEF ServerContinues, Bytes, Open
  <1>20. ASSUME NEW r \in Req, NEW kind \in Answers, ServerAnswers(r, kind) PROVE ReadOrder'
    BY <1>20 DEF ServerAnswers, Bytes, Open
  <1>21. ASSUME NEW r \in Req, NEW kind \in Answers, ServerCutsOff(r, kind) PROVE ReadOrder'
    BY <1>21 DEF ServerCutsOff, Bytes, Open
  <1>22. CASE ServerTimesOut
    BY <1>22 DEF ServerTimesOut, Bytes, Open
  <1>23. CASE ServerHangsUp
    BY <1>23 DEF ServerHangsUp
  <1>24. CASE PoolCloses
    BY <1>24, PoolClosesView
  <1>25. ASSUME NEW ok \in BOOLEAN, Peek(ok) PROVE ReadOrder'
    BY <1>25, PeekView
  <1>26. CASE TakeRequest
    BY <1>26, TakeRequestView
  <1>27. CASE ReadContinue
    BY <1>27, ReadContinueEffect DEF ReadContinue
  <1>28. CASE ReadFinal
    BY <1>28, ReadFinalView
  <1>29. CASE ReadFails
    BY <1>29 DEF ReadFails
  <1>30. CASE DeliverError
    BY <1>30, DeliverErrorView
  <1>31. CASE CallerGone
    BY <1>31 DEF CallerGone
  <1>32. CASE WroteRequest
    BY <1>32, WroteRequestView DEF Decided
  <1>33. CASE TryPutIdleConn
    BY <1>33, TryPutIdleConnView DEF Decided
  <1>34. CASE Deliver
    BY <1>34, DeliverView
  <1>35. CASE DeliverBody
    BY <1>35, DeliverBodyView
  <1>36. CASE BodyRead
    BY <1>36, BodyReadView
  <1>37. CASE BodyCanceled
    BY <1>37, BodyCanceledView
  <1>38. CASE BodyConnClosed
    BY <1>38, BodyConnClosedView
  <1>39. CASE ReleaseBodyReader
    BY <1>39, ReleaseBodyReaderView
  <1>40. CASE CloseEofc
    BY <1>40 DEF CloseEofc
  <1>41. CASE ExitClose
    BY <1>41, ExitCloseView
  <1>42. CASE ExitRemove
    BY <1>42 DEF ExitRemove
  <1>43. ASSUME NEW r \in Req, ReadToEnd(r) PROVE ReadOrder'
    BY <1>43, ReadToEndView
  <1>44. ASSUME NEW r \in Req, ReadBodyFails(r) PROVE ReadOrder'
    BY <1>44, ReadBodyFailsView
  <1>45. ASSUME NEW r \in Req, CloseBody(r) PROVE ReadOrder'
    BY <1>45, CloseBodyView
  <1>46. ASSUME NEW r \in Req, BodyReleased(r) PROVE ReadOrder'
    BY <1>46, BodyReleasedEffect DEF BodyReleased
  <1>47. CASE Terminated
    BY <1>47 DEF Terminated, vars
  <1>q. QED
    BY <1>1, <1>2, <1>3, <1>4, <1>5, <1>6, <1>7, <1>8, <1>9, <1>10, <1>11, <1>12, <1>13, <1>14,
         <1>15, <1>16, <1>17, <1>18, <1>19, <1>20, <1>21, <1>22, <1>23, <1>24, <1>25, <1>26,
         <1>27, <1>28, <1>29, <1>30, <1>31, <1>32, <1>33, <1>34, <1>35, <1>36, <1>37, <1>38,
         <1>39, <1>40, <1>41, <1>42, <1>43, <1>44, <1>45, <1>46, <1>47 DEF Next

\* Every step keeps the order of the bodies.
LEMMA BodyOrderStep ==
  ASSUME Types, Serve, ReadOrder, BodyOrder, Next, NEW r0 \in Req PROVE BodyOf(r0)'
  <1>. USE RequestKinds, SignalValues DEF Types, Serve, ReadOrder, BeforeBody, BodyOrder,
       BodyOf, ChRec, RlRec, PcRec, Serving, WithResponse, HasBody, Keeps, AllKeep, Others,
       MovesTo, Continues, BodyMoves, PcKeeps, Breaks, RlTo
  <1>1. ASSUME NEW r \in Req, Acquire(r) PROVE BodyOf(r0)'
    BY <1>1, AcquireEffect DEF Acquire
  <1>2. ASSUME NEW r \in Req, ExpectResponse(r) PROVE BodyOf(r0)'
    BY <1>2, ExpectResponseEffect DEF ExpectResponse
  <1>3. ASSUME NEW r \in Req, SendToWriteLoop(r) PROVE BodyOf(r0)'
    BY <1>3, SendToWriteLoopView
  <1>4. ASSUME NEW r \in Req, SendToReadLoop(r) PROVE BodyOf(r0)'
    BY <1>4, SendToReadLoopEffect DEF SendToReadLoop
  <1>5. ASSUME NEW r \in Req, WriteReported(r) PROVE BodyOf(r0)'
    BY <1>5, WriteReportedView
  <1>6. ASSUME NEW r \in Req, ConnClosed(r) PROVE BodyOf(r0)'
    BY <1>6, ConnClosedView
  <1>7. ASSUME NEW r \in Req, HeaderTimeout(r) PROVE BodyOf(r0)'
    BY <1>7, HeaderTimeoutView
  <1>8. ASSUME NEW r \in Req, CtxDone(r) PROVE BodyOf(r0)'
    BY <1>8, CtxDoneView
  <1>9. ASSUME NEW r \in Req, UserCancels(r) PROVE BodyOf(r0)'
    BY <1>9, UserCancelsEffect DEF UserCancels
  <1>10. ASSUME NEW r \in Req, MapError(r) PROVE BodyOf(r0)'
    BY <1>10, MapErrorView
  <1>11. CASE TakeWrite
    BY <1>11, TakeWriteView
  <1>12. CASE WriteLoopClosed
    BY <1>12 DEF WriteLoopClosed
  <1>13. CASE WritePart
    BY <1>13 DEF WritePart, Open
  <1>14. CASE WaitForContinue
    BY <1>14, WaitForContinueView
  <1>15. CASE WriteRest
    BY <1>15 DEF WriteRest, Open
  <1>16. CASE WriteFails
    BY <1>16, WriteFailsEffect DEF WriteFails
  <1>17. CASE ReportWrite
    BY <1>17 DEF ReportWrite
  <1>18. CASE TellCaller
    BY <1>18, TellCallerView
  <1>19. ASSUME NEW r \in Req, ServerContinues(r) PROVE BodyOf(r0)'
    BY <1>19 DEF ServerContinues, Bytes, Open
  <1>20. ASSUME NEW r \in Req, NEW kind \in Answers, ServerAnswers(r, kind) PROVE BodyOf(r0)'
    BY <1>20 DEF ServerAnswers, Bytes, Open
  <1>21. ASSUME NEW r \in Req, NEW kind \in Answers, ServerCutsOff(r, kind) PROVE BodyOf(r0)'
    BY <1>21 DEF ServerCutsOff, Bytes, Open
  <1>22. CASE ServerTimesOut
    BY <1>22 DEF ServerTimesOut, Bytes, Open
  <1>23. CASE ServerHangsUp
    BY <1>23 DEF ServerHangsUp
  <1>24. CASE PoolCloses
    BY <1>24, PoolClosesView
  <1>25. ASSUME NEW ok \in BOOLEAN, Peek(ok) PROVE BodyOf(r0)'
    BY <1>25, PeekView
  <1>26. CASE TakeRequest
    BY <1>26, TakeRequestView
  <1>27. CASE ReadContinue
    BY <1>27, ReadContinueEffect DEF ReadContinue
  <1>28. CASE ReadFinal
    BY <1>28, ReadFinalView
  <1>29. CASE ReadFails
    BY <1>29 DEF ReadFails
  <1>30. CASE DeliverError
    BY <1>30, DeliverErrorView
  <1>31. CASE CallerGone
    BY <1>31 DEF CallerGone
  <1>32. CASE WroteRequest
    BY <1>32, WroteRequestView DEF Decided
  <1>33. CASE TryPutIdleConn
    BY <1>33, TryPutIdleConnView DEF Decided
  <1>34. CASE Deliver
    BY <1>34, DeliverView
  <1>35. CASE DeliverBody
    BY <1>35, DeliverBodyView
  <1>36. CASE BodyRead
    BY <1>36, BodyReadView
  <1>37. CASE BodyCanceled
    BY <1>37, BodyCanceledView
  <1>38. CASE BodyConnClosed
    BY <1>38, BodyConnClosedView
  <1>39. CASE ReleaseBodyReader
    BY <1>39, ReleaseBodyReaderView
  <1>40. CASE CloseEofc
    BY <1>40 DEF CloseEofc
  <1>41. CASE ExitClose
    BY <1>41, ExitCloseView
  <1>42. CASE ExitRemove
    BY <1>42 DEF ExitRemove
  <1>43. ASSUME NEW r \in Req, ReadToEnd(r) PROVE BodyOf(r0)'
    BY <1>43, ReadToEndView
  <1>44. ASSUME NEW r \in Req, ReadBodyFails(r) PROVE BodyOf(r0)'
    BY <1>44, ReadBodyFailsView
  <1>45. ASSUME NEW r \in Req, CloseBody(r) PROVE BodyOf(r0)'
    BY <1>45, CloseBodyView
  <1>46. ASSUME NEW r \in Req, BodyReleased(r) PROVE BodyOf(r0)'
    BY <1>46, BodyReleasedEffect DEF BodyReleased
  <1>47. CASE Terminated
    BY <1>47 DEF Terminated, vars
  <1>q. QED
    BY <1>1, <1>2, <1>3, <1>4, <1>5, <1>6, <1>7, <1>8, <1>9, <1>10, <1>11, <1>12, <1>13, <1>14,
         <1>15, <1>16, <1>17, <1>18, <1>19, <1>20, <1>21, <1>22, <1>23, <1>24, <1>25, <1>26,
         <1>27, <1>28, <1>29, <1>30, <1>31, <1>32, <1>33, <1>34, <1>35, <1>36, <1>37, <1>38,
         <1>39, <1>40, <1>41, <1>42, <1>43, <1>44, <1>45, <1>46, <1>47 DEF Next

-----------------------------------------------------------------------------
(* The order of writeLoop, and the requests handed back.                   *)

\* The results of a write are not None.
LEMMA ResultApart == None # "ok" /\ None # "failed"
  BY NoneApart

\* How the outcome of a call may change in a step: a response is the one
\* readLoop holds for the call, and "resent" is decided by shouldRetryRequest.
OutKept(q) ==
    /\ \/ call'[q].out = call[q].out
       \/ call'[q].out[1] \notin {"response", "resent"}
       \/ call'[q].out[1] = "resent" /\ MapError(q) /\ ShouldRetry(q, Mapped(q))
       \/ /\ call'[q].out = <<"response", rl.resp.req>>
          /\ q = rl.req /\ rl.at \in {"send", "sendBody"}
    /\ call'[q].start = call[q].start \/ (SendToWriteLoop(q) /\ call'[q].start = pc.nwrite)

\* No step changes an outcome in another way.
LEMMA OutStep == ASSUME Types, Serve, Next, NEW q \in Req PROVE OutKept(q)
  <1>. USE DEF Types, CallRec, Becomes

  <1>1. ASSUME NEW r \in Req, Acquire(r) PROVE OutKept(q)
    BY <1>1 DEF Acquire, To, OutKept, Serve, Serving, WithResponse
  <1>2. ASSUME NEW r \in Req, ExpectResponse(r) PROVE OutKept(q)
    BY <1>2 DEF ExpectResponse, To, OutKept, Serve, Serving, WithResponse
  <1>3. ASSUME NEW r \in Req, SendToWriteLoop(r) PROVE OutKept(q)
    BY <1>3 DEF SendToWriteLoop, Becomes, OutKept, Serve, Serving, WithResponse
  <1>4. ASSUME NEW r \in Req, SendToReadLoop(r) PROVE OutKept(q)
    BY <1>4 DEF SendToReadLoop, To, OutKept, Serve, Serving, WithResponse
  <1>5. ASSUME NEW r \in Req, WriteReported(r) PROVE OutKept(q)
    <2>1. ASSUME call' = Becomes(r, [call[r] EXCEPT !.at = "map", !.wch = None,
                 !.err = "write"])
          PROVE  call'[q].out = call[q].out /\ call'[q].start = call[q].start
      BY <2>1
    <2>2. ASSUME call' = Becomes(r, [call[r] EXCEPT !.wch = None,
                 !.timer = ResponseHeaderTimeout])
          PROVE  call'[q].out = call[q].out /\ call'[q].start = call[q].start
      BY <2>2
    <2>3. call'[q].out = call[q].out /\ call'[q].start = call[q].start
      BY <1>5, <2>1, <2>2, Zenon DEF WriteReported
    <2>. QED BY <2>3 DEF OutKept
  <1>6. ASSUME NEW r \in Req, ConnClosed(r) PROVE OutKept(q)
    BY <1>6 DEF ConnClosed, Becomes, OutKept, Serve, Serving, WithResponse
  <1>7. ASSUME NEW r \in Req, HeaderTimeout(r) PROVE OutKept(q)
    BY <1>7 DEF HeaderTimeout, Becomes, Close, OutKept, Serve, Serving, WithResponse
  <1>8. ASSUME NEW r \in Req, CtxDone(r) PROVE OutKept(q)
    BY <1>8 DEF CtxDone, CancelRequest, Close, OutKept, Serve, Serving, WithResponse
  <1>9. ASSUME NEW r \in Req, UserCancels(r) PROVE OutKept(q)
    BY <1>9 DEF UserCancels, OutKept, Serve, Serving, WithResponse
  <1>10. ASSUME NEW r \in Req, MapError(r) PROVE OutKept(q)
    <2>1. Mapped(r) \notin {"response", "resent"} BY DEF Mapped
    <2>2. ASSUME call' = Becomes(r, [call[r] EXCEPT !.at = "done", !.out = <<"resent", None>>])
          PROVE  /\ call'[q].start = call[q].start
                 /\ call'[q].out = call[q].out \/ (r = q /\ call'[q].out[1] = "resent")
      BY <2>2
    <2>3. ASSUME call' = Becomes(r, [call[r] EXCEPT !.at = "done", !.out = <<Mapped(r),
                 pc.canceledErr>>, !.live = FALSE])
          PROVE  /\ call'[q].start = call[q].start
                 /\ call'[q].out = call[q].out \/ call'[q].out[1] = Mapped(r)
      <3>. HIDE DEF Types
      <3>. USE DEF Types
      <3>1. PICK m : m = Mapped(r) BY Zenon
      <3>2. call' = Becomes(r,
               [call[r] EXCEPT !.at = "done", !.out = <<m, pc.canceledErr>>, !.live = FALSE])
        BY <2>3, <3>1, Zenon
      <3>3. call'[q].start = call[q].start /\ (call'[q].out = call[q].out \/ call'[q].out[1] = m)
        BY <3>2
      <3>. QED BY <3>1, <3>3, Zenon
    <2>4. CASE ShouldRetry(r, Mapped(r))
      <3>1. call' = Becomes(r, [call[r] EXCEPT !.at = "done", !.out = <<"resent", None>>])
        BY <1>10, <2>4, Zenon DEF MapError, Failed
      <3>. HIDE DEF Types, CallRec, Becomes
      <3>. QED BY <1>10, <2>2, <2>4, <3>1 DEF OutKept
    <2>5. CASE ~ShouldRetry(r, Mapped(r))
      <3>1. call' = Becomes(r,
               [call[r] EXCEPT !.at = "done", !.out = <<Mapped(r), pc.canceledErr>>, !.live = FALSE])
        BY <1>10, <2>5, Zenon DEF MapError, Failed
      <3>. HIDE DEF Types, CallRec, Becomes
      <3>. QED BY <2>1, <2>3, <3>1 DEF OutKept
    <2>. QED BY <2>4, <2>5
  <1>11. CASE TakeWrite
    BY <1>11 DEF TakeWrite, OutKept, Serve, Serving, WithResponse
  <1>12. CASE WriteLoopClosed
    BY <1>12 DEF WriteLoopClosed, OutKept, Serve, Serving, WithResponse
  <1>13. CASE WritePart
    BY <1>13 DEF WritePart, Open, OutKept, Serve, Serving, WithResponse
  <1>14. CASE WaitForContinue
    BY <1>14 DEF WaitForContinue, OutKept, Serve, Serving, WithResponse
  <1>15. CASE WriteRest
    BY <1>15 DEF WriteRest, Open, OutKept, Serve, Serving, WithResponse
  <1>16. CASE WriteFails
    BY <1>16 DEF WriteFails, OutKept, Serve, Serving, WithResponse
  <1>17. CASE ReportWrite
    BY <1>17 DEF ReportWrite, OutKept, Serve, Serving, WithResponse
  <1>18. CASE TellCaller
    BY <1>18 DEF TellCaller, Close, OutKept, Serve, Serving, WithResponse
  <1>19. ASSUME NEW r \in Req, ServerContinues(r) PROVE OutKept(q)
    BY <1>19 DEF ServerContinues, Bytes, Open, OutKept, Serve, Serving, WithResponse
  <1>20. ASSUME NEW r \in Req, NEW kind \in Answers, ServerAnswers(r, kind) PROVE OutKept(q)
    BY <1>20 DEF ServerAnswers, Bytes, Open, OutKept, Serve, Serving, WithResponse
  <1>21. ASSUME NEW r \in Req, NEW kind \in Answers, ServerCutsOff(r, kind) PROVE OutKept(q)
    BY <1>21 DEF ServerCutsOff, Bytes, Open, OutKept, Serve, Serving, WithResponse
  <1>22. CASE ServerTimesOut
    BY <1>22 DEF ServerTimesOut, Bytes, Open, OutKept, Serve, Serving, WithResponse
  <1>23. CASE ServerHangsUp
    BY <1>23 DEF ServerHangsUp, OutKept, Serve, Serving, WithResponse
  <1>24. CASE PoolCloses
    BY <1>24 DEF PoolCloses, Close, OutKept, Serve, Serving, WithResponse
  <1>25. ASSUME NEW ok \in BOOLEAN, Peek(ok) PROVE OutKept(q)
    BY <1>25 DEF Peek, Close, PeekFail, OutKept, Serve, Serving, WithResponse
  <1>26. CASE TakeRequest
    BY <1>26 DEF TakeRequest, OutKept, Serve, Serving, WithResponse
  <1>27. CASE ReadContinue
    BY <1>27 DEF ReadContinue, OutKept, Serve, Serving, WithResponse
  <1>28. CASE ReadFinal
    BY <1>28 DEF ReadFinal, OutKept, Serve, Serving, WithResponse
  <1>29. CASE ReadFails
    BY <1>29 DEF ReadFails, OutKept, Serve, Serving, WithResponse
  <1>30. CASE DeliverError
    BY <1>30 DEF DeliverError, Becomes, OutKept, Serve, Serving, WithResponse
  <1>31. CASE CallerGone
    BY <1>31 DEF CallerGone, OutKept, Serve, Serving, WithResponse
  <1>32. CASE WroteRequest
    BY <1>32 DEF WroteRequest, Decided, OutKept, Serve, Serving, WithResponse
  <1>33. CASE TryPutIdleConn
    BY <1>33 DEF TryPutIdleConn, Decided, OutKept, Serve, Serving, WithResponse
  <1>34. CASE Deliver
    BY <1>34 DEF Deliver, Received, Becomes, Again, OutKept, Serve, Serving, WithResponse
  <1>35. CASE DeliverBody
    BY <1>35 DEF DeliverBody, Received, Becomes, OutKept, Serve, Serving, WithResponse
  <1>36. CASE BodyRead
    BY <1>36 DEF BodyRead, Becomes, OutKept, Serve, Serving, WithResponse
  <1>37. CASE BodyCanceled
    BY <1>37 DEF BodyCanceled, CancelRequest, Close, OutKept, Serve, Serving, WithResponse
  <1>38. CASE BodyConnClosed
    BY <1>38 DEF BodyConnClosed, OutKept, Serve, Serving, WithResponse
  <1>39. CASE ReleaseBodyReader
    BY <1>39 DEF ReleaseBodyReader, Becomes, Again, OutKept, Serve, Serving, WithResponse
  <1>40. CASE CloseEofc
    BY <1>40 DEF CloseEofc, OutKept, Serve, Serving, WithResponse
  <1>41. CASE ExitClose
    BY <1>41 DEF ExitClose, Close, OutKept, Serve, Serving, WithResponse
  <1>42. CASE ExitRemove
    BY <1>42 DEF ExitRemove, OutKept, Serve, Serving, WithResponse
  <1>43. ASSUME NEW r \in Req, ReadToEnd(r) PROVE OutKept(q)
    BY <1>43 DEF ReadToEnd, Signal, Becomes, OutKept, Serve, Serving, WithResponse
  <1>44. ASSUME NEW r \in Req, ReadBodyFails(r) PROVE OutKept(q)
    BY <1>44 DEF ReadBodyFails, Signal, Becomes, OutKept, Serve, Serving, WithResponse
  <1>45. ASSUME NEW r \in Req, CloseBody(r) PROVE OutKept(q)
    BY <1>45 DEF CloseBody, Signal, Becomes, OutKept, Serve, Serving, WithResponse
  <1>46. ASSUME NEW r \in Req, BodyReleased(r) PROVE OutKept(q)
    BY <1>46 DEF BodyReleased, OutKept, Serve, Serving, WithResponse
  <1>47. CASE Terminated
    BY <1>47 DEF Terminated, vars, OutKept, Serve, Serving, WithResponse
  <1>s. TRUE OBVIOUS
  <1>q. QED
    BY <1>1, <1>2, <1>3, <1>4, <1>5, <1>6, <1>7, <1>8, <1>9, <1>10, <1>11, <1>12, <1>13, <1>14,
         <1>15, <1>16, <1>17, <1>18, <1>19, <1>20, <1>21, <1>22, <1>23, <1>24, <1>25, <1>26,
         <1>27, <1>28, <1>29, <1>30, <1>31, <1>32, <1>33, <1>34, <1>35, <1>36, <1>37, <1>38,
         <1>39, <1>40, <1>41, <1>42, <1>43, <1>44, <1>45, <1>46, <1>47 DEF Next

\* The order of writeLoop: a request has left roundTrip before it is written,
\* writeLoop writes a request once, and ends on a closed connection.
WriteOrder ==
    /\ w.at \in {"part", "await"} => w.req \in sent.begun
    /\ w.at = "done" => pc.closed # None
    /\ sent.whole \subseteq sent.begun
    /\ \A r \in Req :
         /\ ch.write = <<r>> \/ w.req = r \/ r \in sent.begun =>
               call[r].at \notin {"new", "got", "write"}
         /\ ch.write = <<r>> => w.req # r

\* startBytesWritten is below the bytes written once a byte of the request went
\* out: it is what nothingWrittenError compares.
StartOrder ==
    \A r \in Req :
         /\ ch.write = <<r>> \/ w.req = r => call[r].start <= pc.nwrite
         /\ r \in sent.begun => call[r].start < pc.nwrite

\* The request was handed back to be sent over another connection.
Resent(r) == call[r].out[1] = "resent"

\* writeLoop was over when that was decided, so no byte of the request follows.
RetryOrder ==
    \A r \in Req : Resent(r) => w.at = "done" /\ (r \notin Replayable => r \notin sent.begun)

\* Every step keeps whom the loops serve,
LEMMA ServeStep ==
  ASSUME Types, Serve, Next PROVE Serve'
  <1>. USE RequestKinds, LoopValues, ResultApart DEF Types, Serve, WRec, RlRec, Serving,
       WithResponse, Keeps, AllKeep, Others, MovesTo, Continues, BodyMoves, PcKeeps, Breaks,
       RlTo
  <1>1. ASSUME NEW r \in Req, Acquire(r) PROVE Serve'
    BY <1>1, AcquireEffect DEF Acquire
  <1>2. ASSUME NEW r \in Req, ExpectResponse(r) PROVE Serve'
    BY <1>2, ExpectResponseEffect DEF ExpectResponse
  <1>3. ASSUME NEW r \in Req, SendToWriteLoop(r) PROVE Serve'
    BY <1>3, SendToWriteLoopView
  <1>4. ASSUME NEW r \in Req, SendToReadLoop(r) PROVE Serve'
    BY <1>4, SendToReadLoopEffect DEF SendToReadLoop
  <1>5. ASSUME NEW r \in Req, WriteReported(r) PROVE Serve'
    BY <1>5, WriteReportedView
  <1>6. ASSUME NEW r \in Req, ConnClosed(r) PROVE Serve'
    BY <1>6, ConnClosedView
  <1>7. ASSUME NEW r \in Req, HeaderTimeout(r) PROVE Serve'
    BY <1>7, HeaderTimeoutView
  <1>8. ASSUME NEW r \in Req, CtxDone(r) PROVE Serve'
    BY <1>8, CtxDoneView
  <1>9. ASSUME NEW r \in Req, UserCancels(r) PROVE Serve'
    BY <1>9, UserCancelsEffect DEF UserCancels
  <1>10. ASSUME NEW r \in Req, MapError(r) PROVE Serve'
    BY <1>10, MapErrorView
  <1>11. CASE TakeWrite
    BY <1>11, TakeWriteView
  <1>12. CASE WriteLoopClosed
    BY <1>12 DEF WriteLoopClosed
  <1>13. CASE WritePart
    BY <1>13 DEF WritePart, Open
  <1>14. CASE WaitForContinue
    BY <1>14, WaitForContinueView
  <1>15. CASE WriteRest
    BY <1>15 DEF WriteRest, Open
  <1>16. CASE WriteFails
    BY <1>16, WriteFailsEffect DEF WriteFails
  <1>17. CASE ReportWrite
    BY <1>17 DEF ReportWrite
  <1>18. CASE TellCaller
    BY <1>18, TellCallerView
  <1>19. ASSUME NEW r \in Req, ServerContinues(r) PROVE Serve'
    BY <1>19 DEF ServerContinues, Bytes, Open
  <1>20. ASSUME NEW r \in Req, NEW kind \in Answers, ServerAnswers(r, kind) PROVE Serve'
    BY <1>20 DEF ServerAnswers, Bytes, Open
  <1>21. ASSUME NEW r \in Req, NEW kind \in Answers, ServerCutsOff(r, kind) PROVE Serve'
    BY <1>21 DEF ServerCutsOff, Bytes, Open
  <1>22. CASE ServerTimesOut
    BY <1>22 DEF ServerTimesOut, Bytes, Open
  <1>23. CASE ServerHangsUp
    BY <1>23 DEF ServerHangsUp
  <1>24. CASE PoolCloses
    BY <1>24, PoolClosesView
  <1>25. ASSUME NEW ok \in BOOLEAN, Peek(ok) PROVE Serve'
    BY <1>25, PeekView
  <1>26. CASE TakeRequest
    BY <1>26, TakeRequestView
  <1>27. CASE ReadContinue
    BY <1>27, ReadContinueEffect DEF ReadContinue
  <1>28. CASE ReadFinal
    BY <1>28, ReadFinalView
  <1>29. CASE ReadFails
    BY <1>29 DEF ReadFails
  <1>30. CASE DeliverError
    BY <1>30, DeliverErrorView
  <1>31. CASE CallerGone
    BY <1>31 DEF CallerGone
  <1>32. CASE WroteRequest
    BY <1>32, WroteRequestView DEF Decided
  <1>33. CASE TryPutIdleConn
    BY <1>33, TryPutIdleConnView DEF Decided
  <1>34. CASE Deliver
    BY <1>34, DeliverView
  <1>35. CASE DeliverBody
    BY <1>35, DeliverBodyView
  <1>36. CASE BodyRead
    BY <1>36, BodyReadView
  <1>37. CASE BodyCanceled
    BY <1>37, BodyCanceledView
  <1>38. CASE BodyConnClosed
    BY <1>38, BodyConnClosedView
  <1>39. CASE ReleaseBodyReader
    BY <1>39, ReleaseBodyReaderView
  <1>40. CASE CloseEofc
    BY <1>40 DEF CloseEofc
  <1>41. CASE ExitClose
    BY <1>41, ExitCloseView
  <1>42. CASE ExitRemove
    BY <1>42 DEF ExitRemove
  <1>43. ASSUME NEW r \in Req, ReadToEnd(r) PROVE Serve'
    BY <1>43, ReadToEndView
  <1>44. ASSUME NEW r \in Req, ReadBodyFails(r) PROVE Serve'
    BY <1>44, ReadBodyFailsView
  <1>45. ASSUME NEW r \in Req, CloseBody(r) PROVE Serve'
    BY <1>45, CloseBodyView
  <1>46. ASSUME NEW r \in Req, BodyReleased(r) PROVE Serve'
    BY <1>46, BodyReleasedEffect DEF BodyReleased
  <1>47. CASE Terminated
    BY <1>47 DEF Terminated, vars
  <1>q. QED
    BY <1>1, <1>2, <1>3, <1>4, <1>5, <1>6, <1>7, <1>8, <1>9, <1>10, <1>11, <1>12, <1>13, <1>14,
         <1>15, <1>16, <1>17, <1>18, <1>19, <1>20, <1>21, <1>22, <1>23, <1>24, <1>25, <1>26,
         <1>27, <1>28, <1>29, <1>30, <1>31, <1>32, <1>33, <1>34, <1>35, <1>36, <1>37, <1>38,
         <1>39, <1>40, <1>41, <1>42, <1>43, <1>44, <1>45, <1>46, <1>47 DEF Next

\* and the order of writeLoop.
LEMMA WriteOrderStep ==
  ASSUME Types, Serve, WriteOrder, Next PROVE WriteOrder'
  <1>. USE RequestKinds, LoopValues DEF Types, Serve, WriteOrder, ChRec, WRec, SentRec, PcRec,
       Keeps, AllKeep, Others, MovesTo, Continues, BodyMoves, PcKeeps, Breaks, RlTo
  <1>1. ASSUME NEW r \in Req, Acquire(r) PROVE WriteOrder'
    BY <1>1, AcquireEffect DEF Acquire
  <1>2. ASSUME NEW r \in Req, ExpectResponse(r) PROVE WriteOrder'
    BY <1>2, ExpectResponseEffect DEF ExpectResponse
  <1>3. ASSUME NEW r \in Req, SendToWriteLoop(r) PROVE WriteOrder'
    BY <1>3, SendToWriteLoopView
  <1>4. ASSUME NEW r \in Req, SendToReadLoop(r) PROVE WriteOrder'
    BY <1>4, SendToReadLoopEffect DEF SendToReadLoop
  <1>5. ASSUME NEW r \in Req, WriteReported(r) PROVE WriteOrder'
    BY <1>5, WriteReportedView
  <1>6. ASSUME NEW r \in Req, ConnClosed(r) PROVE WriteOrder'
    BY <1>6, ConnClosedView
  <1>7. ASSUME NEW r \in Req, HeaderTimeout(r) PROVE WriteOrder'
    BY <1>7, HeaderTimeoutView
  <1>8. ASSUME NEW r \in Req, CtxDone(r) PROVE WriteOrder'
    BY <1>8, CtxDoneView
  <1>9. ASSUME NEW r \in Req, UserCancels(r) PROVE WriteOrder'
    BY <1>9, UserCancelsEffect DEF UserCancels
  <1>10. ASSUME NEW r \in Req, MapError(r) PROVE WriteOrder'
    BY <1>10, MapErrorView
  <1>11. CASE TakeWrite
    BY <1>11, TakeWriteView
  <1>12. CASE WriteLoopClosed
    BY <1>12 DEF WriteLoopClosed
  <1>13. CASE WritePart
    BY <1>13 DEF WritePart, Open
  <1>14. CASE WaitForContinue
    BY <1>14, WaitForContinueView
  <1>15. CASE WriteRest
    BY <1>15 DEF WriteRest, Open
  <1>16. CASE WriteFails
    BY <1>16, WriteFailsEffect DEF WriteFails
  <1>17. CASE ReportWrite
    BY <1>17 DEF ReportWrite
  <1>18. CASE TellCaller
    BY <1>18, TellCallerView
  <1>19. ASSUME NEW r \in Req, ServerContinues(r) PROVE WriteOrder'
    BY <1>19 DEF ServerContinues, Bytes, Open
  <1>20. ASSUME NEW r \in Req, NEW kind \in Answers, ServerAnswers(r, kind) PROVE WriteOrder'
    BY <1>20 DEF ServerAnswers, Bytes, Open
  <1>21. ASSUME NEW r \in Req, NEW kind \in Answers, ServerCutsOff(r, kind) PROVE WriteOrder'
    BY <1>21 DEF ServerCutsOff, Bytes, Open
  <1>22. CASE ServerTimesOut
    BY <1>22 DEF ServerTimesOut, Bytes, Open
  <1>23. CASE ServerHangsUp
    BY <1>23 DEF ServerHangsUp
  <1>24. CASE PoolCloses
    BY <1>24, PoolClosesView
  <1>25. ASSUME NEW ok \in BOOLEAN, Peek(ok) PROVE WriteOrder'
    BY <1>25, PeekView
  <1>26. CASE TakeRequest
    BY <1>26, TakeRequestView
  <1>27. CASE ReadContinue
    BY <1>27, ReadContinueEffect DEF ReadContinue
  <1>28. CASE ReadFinal
    BY <1>28, ReadFinalView
  <1>29. CASE ReadFails
    BY <1>29 DEF ReadFails
  <1>30. CASE DeliverError
    BY <1>30, DeliverErrorView
  <1>31. CASE CallerGone
    BY <1>31 DEF CallerGone
  <1>32. CASE WroteRequest
    BY <1>32, WroteRequestView DEF Decided
  <1>33. CASE TryPutIdleConn
    BY <1>33, TryPutIdleConnView DEF Decided
  <1>34. CASE Deliver
    BY <1>34, DeliverView
  <1>35. CASE DeliverBody
    BY <1>35, DeliverBodyView
  <1>36. CASE BodyRead
    BY <1>36, BodyReadView
  <1>37. CASE BodyCanceled
    BY <1>37, BodyCanceledView
  <1>38. CASE BodyConnClosed
    BY <1>38, BodyConnClosedView
  <1>39. CASE ReleaseBodyReader
    BY <1>39, ReleaseBodyReaderView
  <1>40. CASE CloseEofc
    BY <1>40 DEF CloseEofc
  <1>41. CASE ExitClose
    BY <1>41, ExitCloseView
  <1>42. CASE ExitRemove
    BY <1>42 DEF ExitRemove
  <1>43. ASSUME NEW r \in Req, ReadToEnd(r) PROVE WriteOrder'
    BY <1>43, ReadToEndView
  <1>44. ASSUME NEW r \in Req, ReadBodyFails(r) PROVE WriteOrder'
    BY <1>44, ReadBodyFailsView
  <1>45. ASSUME NEW r \in Req, CloseBody(r) PROVE WriteOrder'
    BY <1>45, CloseBodyView
  <1>46. ASSUME NEW r \in Req, BodyReleased(r) PROVE WriteOrder'
    BY <1>46, BodyReleasedEffect DEF BodyReleased
  <1>47. CASE Terminated
    BY <1>47 DEF Terminated, vars
  <1>q. QED
    BY <1>1, <1>2, <1>3, <1>4, <1>5, <1>6, <1>7, <1>8, <1>9, <1>10, <1>11, <1>12, <1>13, <1>14,
         <1>15, <1>16, <1>17, <1>18, <1>19, <1>20, <1>21, <1>22, <1>23, <1>24, <1>25, <1>26,
         <1>27, <1>28, <1>29, <1>30, <1>31, <1>32, <1>33, <1>34, <1>35, <1>36, <1>37, <1>38,
         <1>39, <1>40, <1>41, <1>42, <1>43, <1>44, <1>45, <1>46, <1>47 DEF Next

\* How request q comes to writeLoop and to the wire.
SendsOut(q) ==
    /\ ch'.write = <<q>> \/ w'.req = q => ch.write = <<q>> \/ w.req = q \/ SendToWriteLoop(q)
    /\ q \in sent'.begun => q \in sent.begun \/ (WritePart /\ w.req = q)
    /\ w.at = "done" => w'.at = "done"

\* No step sends a request in another way.
LEMMA Outgoing ==
  ASSUME Types, Serve, Next, NEW q \in Req
  PROVE  SendsOut(q)
  <1>. USE RequestKinds DEF Types, ChRec, WRec, SentRec
  <1>1. ASSUME NEW r \in Req, Acquire(r) PROVE SendsOut(q)
    BY <1>1, AcquireEffect DEF Acquire, SendsOut
  <1>2. ASSUME NEW r \in Req, ExpectResponse(r) PROVE SendsOut(q)
    BY <1>2, ExpectResponseEffect DEF ExpectResponse, SendsOut
  <1>3. ASSUME NEW r \in Req, SendToWriteLoop(r) PROVE SendsOut(q)
    BY <1>3, SendToWriteLoopView DEF SendsOut
  <1>4. ASSUME NEW r \in Req, SendToReadLoop(r) PROVE SendsOut(q)
    BY <1>4, SendToReadLoopEffect DEF SendToReadLoop, SendsOut
  <1>5. ASSUME NEW r \in Req, WriteReported(r) PROVE SendsOut(q)
    BY <1>5, WriteReportedView DEF SendsOut
  <1>6. ASSUME NEW r \in Req, ConnClosed(r) PROVE SendsOut(q)
    BY <1>6, ConnClosedView DEF SendsOut
  <1>7. ASSUME NEW r \in Req, HeaderTimeout(r) PROVE SendsOut(q)
    BY <1>7, HeaderTimeoutView DEF SendsOut
  <1>8. ASSUME NEW r \in Req, CtxDone(r) PROVE SendsOut(q)
    BY <1>8, CtxDoneView DEF SendsOut
  <1>9. ASSUME NEW r \in Req, UserCancels(r) PROVE SendsOut(q)
    BY <1>9, UserCancelsEffect DEF UserCancels, SendsOut
  <1>10. ASSUME NEW r \in Req, MapError(r) PROVE SendsOut(q)
    BY <1>10, MapErrorView DEF SendsOut
  <1>11. CASE TakeWrite
    BY <1>11, TakeWriteView DEF SendsOut
  <1>12. CASE WriteLoopClosed
    BY <1>12 DEF WriteLoopClosed, SendsOut
  <1>13. CASE WritePart
    BY <1>13 DEF WritePart, Open, SendsOut
  <1>14. CASE WaitForContinue
    BY <1>14, WaitForContinueView DEF SendsOut
  <1>15. CASE WriteRest
    BY <1>15 DEF WriteRest, Open, SendsOut
  <1>16. CASE WriteFails
    BY <1>16, WriteFailsEffect DEF WriteFails, SendsOut
  <1>17. CASE ReportWrite
    BY <1>17 DEF ReportWrite, SendsOut
  <1>18. CASE TellCaller
    BY <1>18, TellCallerView DEF SendsOut
  <1>19. ASSUME NEW r \in Req, ServerContinues(r) PROVE SendsOut(q)
    BY <1>19 DEF ServerContinues, Bytes, Open, SendsOut
  <1>20. ASSUME NEW r \in Req, NEW kind \in Answers, ServerAnswers(r, kind) PROVE SendsOut(q)
    BY <1>20 DEF ServerAnswers, Bytes, Open, SendsOut
  <1>21. ASSUME NEW r \in Req, NEW kind \in Answers, ServerCutsOff(r, kind) PROVE SendsOut(q)
    BY <1>21 DEF ServerCutsOff, Bytes, Open, SendsOut
  <1>22. CASE ServerTimesOut
    BY <1>22 DEF ServerTimesOut, Bytes, Open, SendsOut
  <1>23. CASE ServerHangsUp
    BY <1>23 DEF ServerHangsUp, SendsOut
  <1>24. CASE PoolCloses
    BY <1>24, PoolClosesView DEF SendsOut
  <1>25. ASSUME NEW ok \in BOOLEAN, Peek(ok) PROVE SendsOut(q)
    BY <1>25, PeekView DEF SendsOut
  <1>26. CASE TakeRequest
    BY <1>26, TakeRequestView DEF SendsOut
  <1>27. CASE ReadContinue
    BY <1>27, ReadContinueEffect DEF ReadContinue, SendsOut
  <1>28. CASE ReadFinal
    BY <1>28, ReadFinalView DEF SendsOut
  <1>29. CASE ReadFails
    BY <1>29 DEF ReadFails, SendsOut
  <1>30. CASE DeliverError
    BY <1>30, DeliverErrorView DEF SendsOut
  <1>31. CASE CallerGone
    BY <1>31 DEF CallerGone, SendsOut
  <1>32. CASE WroteRequest
    BY <1>32, WroteRequestView DEF Decided, SendsOut
  <1>33. CASE TryPutIdleConn
    BY <1>33, TryPutIdleConnView DEF Decided, SendsOut
  <1>34. CASE Deliver
    BY <1>34, DeliverView DEF SendsOut
  <1>35. CASE DeliverBody
    BY <1>35, DeliverBodyView DEF SendsOut
  <1>36. CASE BodyRead
    BY <1>36, BodyReadView DEF SendsOut
  <1>37. CASE BodyCanceled
    BY <1>37, BodyCanceledView DEF SendsOut
  <1>38. CASE BodyConnClosed
    BY <1>38, BodyConnClosedView DEF SendsOut
  <1>39. CASE ReleaseBodyReader
    BY <1>39, ReleaseBodyReaderView DEF SendsOut
  <1>40. CASE CloseEofc
    BY <1>40 DEF CloseEofc, SendsOut
  <1>41. CASE ExitClose
    BY <1>41, ExitCloseView DEF SendsOut
  <1>42. CASE ExitRemove
    BY <1>42 DEF ExitRemove, SendsOut
  <1>43. ASSUME NEW r \in Req, ReadToEnd(r) PROVE SendsOut(q)
    BY <1>43, ReadToEndView DEF SendsOut
  <1>44. ASSUME NEW r \in Req, ReadBodyFails(r) PROVE SendsOut(q)
    BY <1>44, ReadBodyFailsView DEF SendsOut
  <1>45. ASSUME NEW r \in Req, CloseBody(r) PROVE SendsOut(q)
    BY <1>45, CloseBodyView DEF SendsOut
  <1>46. ASSUME NEW r \in Req, BodyReleased(r) PROVE SendsOut(q)
    BY <1>46, BodyReleasedEffect DEF BodyReleased, SendsOut
  <1>47. CASE Terminated
    BY <1>47 DEF Terminated, vars, SendsOut
  <1>q. QED
    BY <1>1, <1>2, <1>3, <1>4, <1>5, <1>6, <1>7, <1>8, <1>9, <1>10, <1>11, <1>12, <1>13, <1>14,
         <1>15, <1>16, <1>17, <1>18, <1>19, <1>20, <1>21, <1>22, <1>23, <1>24, <1>25, <1>26,
         <1>27, <1>28, <1>29, <1>30, <1>31, <1>32, <1>33, <1>34, <1>35, <1>36, <1>37, <1>38,
         <1>39, <1>40, <1>41, <1>42, <1>43, <1>44, <1>45, <1>46, <1>47 DEF Next

\* Only writeLoop writes.
LEMMA Written ==
  ASSUME Types, Next
  PROVE  pc'.nwrite = pc.nwrite \/ WritePart
  <1>. USE DEF Types, PcRec
  <1>1. ASSUME NEW r \in Req, Acquire(r) PROVE pc'.nwrite = pc.nwrite \/ WritePart
    BY <1>1 DEF Acquire, To
  <1>2. ASSUME NEW r \in Req, ExpectResponse(r) PROVE pc'.nwrite = pc.nwrite \/ WritePart
    BY <1>2 DEF ExpectResponse, To
  <1>3. ASSUME NEW r \in Req, SendToWriteLoop(r) PROVE pc'.nwrite = pc.nwrite \/ WritePart
    BY <1>3 DEF SendToWriteLoop, Becomes
  <1>4. ASSUME NEW r \in Req, SendToReadLoop(r) PROVE pc'.nwrite = pc.nwrite \/ WritePart
    BY <1>4 DEF SendToReadLoop, To
  <1>5. ASSUME NEW r \in Req, WriteReported(r) PROVE pc'.nwrite = pc.nwrite \/ WritePart
    BY <1>5 DEF WriteReported, Becomes, Close
  <1>6. ASSUME NEW r \in Req, ConnClosed(r) PROVE pc'.nwrite = pc.nwrite \/ WritePart
    BY <1>6 DEF ConnClosed, Becomes
  <1>7. ASSUME NEW r \in Req, HeaderTimeout(r) PROVE pc'.nwrite = pc.nwrite \/ WritePart
    BY <1>7 DEF HeaderTimeout, Becomes, Close
  <1>8. ASSUME NEW r \in Req, CtxDone(r) PROVE pc'.nwrite = pc.nwrite \/ WritePart
    BY <1>8 DEF CtxDone, CancelRequest, Close
  <1>9. ASSUME NEW r \in Req, UserCancels(r) PROVE pc'.nwrite = pc.nwrite \/ WritePart
    BY <1>9 DEF UserCancels
  <1>10. ASSUME NEW r \in Req, MapError(r) PROVE pc'.nwrite = pc.nwrite \/ WritePart
    BY <1>10 DEF MapError, Failed, Becomes
  <1>11. CASE TakeWrite
    BY <1>11 DEF TakeWrite
  <1>12. CASE WriteLoopClosed
    BY <1>12 DEF WriteLoopClosed
  <1>13. CASE WritePart
    BY <1>13 DEF WritePart, Open
  <1>14. CASE WaitForContinue
    BY <1>14 DEF WaitForContinue
  <1>15. CASE WriteRest
    BY <1>15 DEF WriteRest, Open
  <1>16. CASE WriteFails
    BY <1>16 DEF WriteFails
  <1>17. CASE ReportWrite
    BY <1>17 DEF ReportWrite
  <1>18. CASE TellCaller
    BY <1>18 DEF TellCaller, Close
  <1>19. ASSUME NEW r \in Req, ServerContinues(r) PROVE pc'.nwrite = pc.nwrite \/ WritePart
    BY <1>19 DEF ServerContinues, Bytes, Open
  <1>20. ASSUME NEW r \in Req, NEW kind \in Answers, ServerAnswers(r, kind)
         PROVE  pc'.nwrite = pc.nwrite \/ WritePart
    BY <1>20 DEF ServerAnswers, Bytes, Open
  <1>21. ASSUME NEW r \in Req, NEW kind \in Answers, ServerCutsOff(r, kind)
         PROVE  pc'.nwrite = pc.nwrite \/ WritePart
    BY <1>21 DEF ServerCutsOff, Bytes, Open
  <1>22. CASE ServerTimesOut
    BY <1>22 DEF ServerTimesOut, Bytes, Open
  <1>23. CASE ServerHangsUp
    BY <1>23 DEF ServerHangsUp
  <1>24. CASE PoolCloses
    BY <1>24 DEF PoolCloses, Close
  <1>25. ASSUME NEW ok \in BOOLEAN, Peek(ok) PROVE pc'.nwrite = pc.nwrite \/ WritePart
    BY <1>25 DEF Peek, Close, PeekFail
  <1>26. CASE TakeRequest
    BY <1>26 DEF TakeRequest
  <1>27. CASE ReadContinue
    BY <1>27 DEF ReadContinue
  <1>28. CASE ReadFinal
    BY <1>28 DEF ReadFinal
  <1>29. CASE ReadFails
    BY <1>29 DEF ReadFails
  <1>30. CASE DeliverError
    BY <1>30 DEF DeliverError, Becomes
  <1>31. CASE CallerGone
    BY <1>31 DEF CallerGone
  <1>32. CASE WroteRequest
    BY <1>32 DEF WroteRequest, Decided
  <1>33. CASE TryPutIdleConn
    BY <1>33 DEF TryPutIdleConn, Decided
  <1>34. CASE Deliver
    BY <1>34 DEF Deliver, Received, Becomes, Again
  <1>35. CASE DeliverBody
    BY <1>35 DEF DeliverBody, Received, Becomes
  <1>36. CASE BodyRead
    BY <1>36 DEF BodyRead, Becomes
  <1>37. CASE BodyCanceled
    BY <1>37 DEF BodyCanceled, CancelRequest, Close
  <1>38. CASE BodyConnClosed
    BY <1>38 DEF BodyConnClosed
  <1>39. CASE ReleaseBodyReader
    BY <1>39 DEF ReleaseBodyReader, Becomes, Again
  <1>40. CASE CloseEofc
    BY <1>40 DEF CloseEofc
  <1>41. CASE ExitClose
    BY <1>41 DEF ExitClose, Close
  <1>42. CASE ExitRemove
    BY <1>42 DEF ExitRemove
  <1>43. ASSUME NEW r \in Req, ReadToEnd(r) PROVE pc'.nwrite = pc.nwrite \/ WritePart
    BY <1>43 DEF ReadToEnd, Signal, Becomes
  <1>44. ASSUME NEW r \in Req, ReadBodyFails(r) PROVE pc'.nwrite = pc.nwrite \/ WritePart
    BY <1>44 DEF ReadBodyFails, Signal, Becomes
  <1>45. ASSUME NEW r \in Req, CloseBody(r) PROVE pc'.nwrite = pc.nwrite \/ WritePart
    BY <1>45 DEF CloseBody, Signal, Becomes
  <1>46. ASSUME NEW r \in Req, BodyReleased(r) PROVE pc'.nwrite = pc.nwrite \/ WritePart
    BY <1>46 DEF BodyReleased
  <1>47. CASE Terminated
    BY <1>47 DEF Terminated, vars
  <1>s. TRUE OBVIOUS
  <1>q. QED
    BY <1>1, <1>2, <1>3, <1>4, <1>5, <1>6, <1>7, <1>8, <1>9, <1>10, <1>11, <1>12, <1>13, <1>14,
         <1>15, <1>16, <1>17, <1>18, <1>19, <1>20, <1>21, <1>22, <1>23, <1>24, <1>25, <1>26,
         <1>27, <1>28, <1>29, <1>30, <1>31, <1>32, <1>33, <1>34, <1>35, <1>36, <1>37, <1>38,
         <1>39, <1>40, <1>41, <1>42, <1>43, <1>44, <1>45, <1>46, <1>47 DEF Next

\* Every step keeps the order of the bytes written.
LEMMA StartOrderStep ==
  ASSUME Types, Serve, WriteOrder, StartOrder, Next PROVE StartOrder'
  <1>1. SUFFICES ASSUME NEW q \in Req
                 PROVE  /\ ch'.write = <<q>> \/ w'.req = q => call'[q].start <= pc'.nwrite
                        /\ q \in sent'.begun => call'[q].start < pc'.nwrite
    BY DEF StartOrder
  <1>2. call[q].start \in Nat BY DEF Types, CallRec
  <1>3. /\ pc'.nwrite = pc.nwrite \/ (WritePart /\ pc'.nwrite = pc.nwrite + 1)
        /\ pc.nwrite \in Nat
    BY Written DEF WritePart, Types, PcRec
  <1>4. CASE SendToWriteLoop(q)
    <2>1. pc' = pc /\ sent' = sent /\ call[q].at = "write" BY <1>4, SendToWriteLoopView
    <2>2. q \notin sent.begun BY <2>1 DEF WriteOrder
    <2>3. call'[q].start = pc.nwrite \/ call'[q].start = call[q].start BY OutStep DEF OutKept
    <2>4. call'[q].start = pc.nwrite BY <1>4 DEF SendToWriteLoop, Becomes, Types, CallRec
    <2>. QED BY <1>3, <2>1, <2>2, <2>4
  <1>5. CASE ~SendToWriteLoop(q)
    <2>1. call'[q].start = call[q].start BY <1>5, OutStep DEF OutKept
    <2>2. /\ ch'.write = <<q>> \/ w'.req = q => ch.write = <<q>> \/ w.req = q
          /\ q \in sent'.begun => q \in sent.begun \/ (WritePart /\ w.req = q)
      BY <1>5, Outgoing DEF SendsOut
    <2>3. WritePart => pc'.nwrite = pc.nwrite + 1 BY DEF WritePart, Types, PcRec
    <2>4. /\ ch.write = <<q>> \/ w.req = q => call[q].start <= pc.nwrite
          /\ q \in sent.begun => call[q].start < pc.nwrite
      BY DEF StartOrder
    <2>. QED BY <1>2, <1>3, <2>1, <2>2, <2>3, <2>4
  <1>. QED BY <1>4, <1>5

\* Every step keeps what was said of the requests handed back:
\* shouldRetryRequest hands back a request that is not replayable only when
\* nothing of it was written.
LEMMA RetryOrderStep ==
  ASSUME Types, Serve, WriteOrder, StartOrder, RetryOrder, Next PROVE RetryOrder'
  <1>1. SUFFICES ASSUME NEW q \in Req, Resent(q)'
                 PROVE  w'.at = "done" /\ (q \notin Replayable => q \notin sent'.begun)
    BY DEF RetryOrder
  <1>2. \/ call'[q].out = call[q].out
        \/ MapError(q) /\ ShouldRetry(q, Mapped(q))
    BY <1>1, OutStep DEF OutKept, Resent
  <1>3. CASE call'[q].out = call[q].out
    <2>1. w.at = "done" /\ (q \notin Replayable => q \notin sent.begun)
      BY <1>1, <1>3 DEF RetryOrder, Resent
    <2>. QED BY <2>1, Outgoing DEF SendsOut, WritePart
  <1>4. CASE MapError(q) /\ ShouldRetry(q, Mapped(q))
    <2>1. w.at = "done" /\ w' = w /\ sent' = sent BY <1>4, MapErrorView
    <2>2. ASSUME q \notin Replayable PROVE q \notin sent.begun
      <3>1. Mapped(q) = "nothingWritten" BY <1>4, <2>2 DEF ShouldRetry
      <3>2. pc.nwrite = call[q].start BY <3>1 DEF Mapped
      <3>3. call[q].start \in Nat BY DEF Types, CallRec
      <3>. QED BY <3>2, <3>3 DEF StartOrder
    <2>. QED BY <2>1, <2>2
  <1>. QED BY <1>2, <1>3, <1>4

-----------------------------------------------------------------------------
(* The signals of a body.                                                  *)

\* Sequence s has at most n elements.
Short(s, n) == Len(s) <= n

\* waitForBodyRead has room for the two signals that one body can give, so Read
\* and Close of a body never block on it.
SignaledOf(r) ==
    /\ call[r].body \in {"eof", "failed"} => Short(call[r].bodyRead, 1)
    /\ Short(call[r].bodyRead, 2)

\* So it is for every request.
Signaled == \A r \in Req : SignaledOf(r)

\* How the length of a sequence of signals changes.
LEMMA ShortSteps ==
    /\ \A s \in Signals : \A x \in BOOLEAN :
          s = <<>> => Short(Append(s, x), 1) /\ Short(Append(s, x), 2)
    /\ \A s \in Signals : \A x \in BOOLEAN : Short(s, 1) => Short(Append(s, x), 2)
    /\ \A s \in Signals : s # <<>> /\ Short(s, 1) => Short(Tail(s), 1)
    /\ \A s \in Signals : s # <<>> /\ Short(s, 2) => Short(Tail(s), 2)
  <1>1. ASSUME NEW s \in Signals, NEW x \in BOOLEAN
        PROVE  Len(Append(s, x)) = Len(s) + 1 /\ Len(s) \in Nat
    BY DEF Signals
  <1>2. ASSUME NEW s \in Signals, s # <<>> PROVE Len(Tail(s)) = Len(s) - 1 /\ Len(s) \in Nat
    BY <1>2 DEF Signals
  <1>3. Len(<<>>) = 0 OBVIOUS
  <1>4. ASSUME NEW s \in Signals, NEW x \in BOOLEAN, s = <<>>
        PROVE  Short(Append(s, x), 1) /\ Short(Append(s, x), 2)
    BY <1>1, <1>3, <1>4 DEF Short
  <1>5. ASSUME NEW s \in Signals, NEW x \in BOOLEAN, Short(s, 1) PROVE Short(Append(s, x), 2)
    BY <1>1, <1>5 DEF Short
  <1>6. ASSUME NEW s \in Signals, s # <<>>, Short(s, 1) PROVE Short(Tail(s), 1)
    BY <1>2, <1>6 DEF Short
  <1>7. ASSUME NEW s \in Signals, s # <<>>, Short(s, 2) PROVE Short(Tail(s), 2)
    BY <1>2, <1>7 DEF Short
  <1>. QED BY <1>4, <1>5, <1>6, <1>7, Zenon

\* Every step keeps the room.
LEMMA SignaledStep ==
  ASSUME Types, Serve, BodyOrder, Signaled, Next, NEW r0 \in Req PROVE SignaledOf(r0)'
  <1>. USE RequestKinds, ShortSteps, StateValues DEF Signaled, SignaledOf, Keeps, AllKeep,
       Others, MovesTo, Continues, BodyMoves, PcKeeps, Breaks, RlTo
  <1>1. ASSUME NEW r \in Req, Acquire(r) PROVE SignaledOf(r0)'
    BY <1>1, AcquireEffect DEF Acquire
  <1>2. ASSUME NEW r \in Req, ExpectResponse(r) PROVE SignaledOf(r0)'
    BY <1>2, ExpectResponseEffect DEF ExpectResponse
  <1>3. ASSUME NEW r \in Req, SendToWriteLoop(r) PROVE SignaledOf(r0)'
    BY <1>3, SendToWriteLoopView
  <1>4. ASSUME NEW r \in Req, SendToReadLoop(r) PROVE SignaledOf(r0)'
    BY <1>4, SendToReadLoopEffect DEF SendToReadLoop
  <1>5. ASSUME NEW r \in Req, WriteReported(r) PROVE SignaledOf(r0)'
    BY <1>5, WriteReportedView
  <1>6. ASSUME NEW r \in Req, ConnClosed(r) PROVE SignaledOf(r0)'
    BY <1>6, ConnClosedView
  <1>7. ASSUME NEW r \in Req, HeaderTimeout(r) PROVE SignaledOf(r0)'
    BY <1>7, HeaderTimeoutView
  <1>8. ASSUME NEW r \in Req, CtxDone(r) PROVE SignaledOf(r0)'
    BY <1>8, CtxDoneView
  <1>9. ASSUME NEW r \in Req, UserCancels(r) PROVE SignaledOf(r0)'
    BY <1>9, UserCancelsEffect DEF UserCancels
  <1>10. ASSUME NEW r \in Req, MapError(r) PROVE SignaledOf(r0)'
    BY <1>10, MapErrorView
  <1>11. CASE TakeWrite
    BY <1>11, TakeWriteView
  <1>12. CASE WriteLoopClosed
    BY <1>12 DEF WriteLoopClosed
  <1>13. CASE WritePart
    BY <1>13 DEF WritePart, Open
  <1>14. CASE WaitForContinue
    BY <1>14, WaitForContinueView
  <1>15. CASE WriteRest
    BY <1>15 DEF WriteRest, Open
  <1>16. CASE WriteFails
    BY <1>16, WriteFailsEffect DEF WriteFails
  <1>17. CASE ReportWrite
    BY <1>17 DEF ReportWrite
  <1>18. CASE TellCaller
    BY <1>18, TellCallerView
  <1>19. ASSUME NEW r \in Req, ServerContinues(r) PROVE SignaledOf(r0)'
    BY <1>19 DEF ServerContinues, Bytes, Open
  <1>20. ASSUME NEW r \in Req, NEW kind \in Answers, ServerAnswers(r, kind)
         PROVE  SignaledOf(r0)'
    BY <1>20 DEF ServerAnswers, Bytes, Open
  <1>21. ASSUME NEW r \in Req, NEW kind \in Answers, ServerCutsOff(r, kind)
         PROVE  SignaledOf(r0)'
    BY <1>21 DEF ServerCutsOff, Bytes, Open
  <1>22. CASE ServerTimesOut
    BY <1>22 DEF ServerTimesOut, Bytes, Open
  <1>23. CASE ServerHangsUp
    BY <1>23 DEF ServerHangsUp
  <1>24. CASE PoolCloses
    BY <1>24, PoolClosesView
  <1>25. ASSUME NEW ok \in BOOLEAN, Peek(ok) PROVE SignaledOf(r0)'
    BY <1>25, PeekView
  <1>26. CASE TakeRequest
    BY <1>26, TakeRequestView
  <1>27. CASE ReadContinue
    BY <1>27, ReadContinueEffect DEF ReadContinue
  <1>28. CASE ReadFinal
    BY <1>28, ReadFinalView
  <1>29. CASE ReadFails
    BY <1>29 DEF ReadFails
  <1>30. CASE DeliverError
    BY <1>30, DeliverErrorView
  <1>31. CASE CallerGone
    BY <1>31 DEF CallerGone
  <1>32. CASE WroteRequest
    BY <1>32, WroteRequestView DEF Decided
  <1>33. CASE TryPutIdleConn
    BY <1>33, TryPutIdleConnView DEF Decided
  <1>34. CASE Deliver
    BY <1>34, DeliverView
  <1>35. CASE DeliverBody
    <2>1. rl.req \in Req /\ rl.at = "sendBody"
      BY <1>35, DeliverBodyView DEF Serving, WithResponse
    <2>2. call[rl.req].body = "none" BY <2>1 DEF BodyOrder, BodyOf, BeforeBody
    <2>. QED BY <1>35, <2>1, <2>2, DeliverBodyView
  <1>36. CASE BodyRead
    <2>1. rl.req \in Req /\ call[rl.req].bodyRead # <<>>
      BY <1>36, BodyReadView DEF Serving, WithResponse
    <2>2. call[rl.req].bodyRead \in Signals BY <2>1
    <2>. QED BY <1>36, <2>1, <2>2, BodyReadEffect
  <1>37. CASE BodyCanceled
    BY <1>37, BodyCanceledView
  <1>38. CASE BodyConnClosed
    BY <1>38, BodyConnClosedView
  <1>39. CASE ReleaseBodyReader
    BY <1>39, ReleaseBodyReaderView
  <1>40. CASE CloseEofc
    BY <1>40 DEF CloseEofc
  <1>41. CASE ExitClose
    BY <1>41, ExitCloseView
  <1>42. CASE ExitRemove
    BY <1>42 DEF ExitRemove
  <1>43. ASSUME NEW r \in Req, ReadToEnd(r) PROVE SignaledOf(r0)'
    <2>1. call[r].body \in {"open", "failed"} /\ call[r].bodyRead \in Signals
      BY <1>43, ReadToEndView
    <2>2. call[r].body = "open" => call[r].bodyRead = <<>> BY DEF BodyOrder, BodyOf
    <2>3. PICK s : s = Append(call[r].bodyRead, TRUE) BY Zenon
    <2>4. Short(s, 2) /\ (call[r].body = "open" => Short(s, 1))
      <3>1. CASE call[r].body = "open" BY <2>1, <2>2, <2>3, <3>1, ShortSteps
      <3>2. CASE call[r].body = "failed" BY <2>1, <2>3, <3>2, ShortSteps
      <3>. QED BY <2>1, <3>1, <3>2
    <2>5. BodyMoves(r, call[r].at, "eof", s) BY <1>43, <2>3, ReadToEndEffect, Zenon
    <2>. QED BY <1>43, <2>4, <2>5, ReadToEndView
  <1>44. ASSUME NEW r \in Req, ReadBodyFails(r) PROVE SignaledOf(r0)'
    <2>1. call[r].body \in {"open", "failed"} /\ call[r].bodyRead \in Signals
      BY <1>44, ReadBodyFailsView
    <2>2. call[r].body = "open" => call[r].bodyRead = <<>> BY DEF BodyOrder, BodyOf
    <2>3. PICK s : s = Append(call[r].bodyRead, FALSE) BY Zenon
    <2>4. Short(s, 2) /\ (call[r].body = "open" => Short(s, 1))
      <3>1. CASE call[r].body = "open" BY <2>1, <2>2, <2>3, <3>1, ShortSteps
      <3>2. CASE call[r].body = "failed" BY <2>1, <2>3, <3>2, ShortSteps
      <3>. QED BY <2>1, <3>1, <3>2
    <2>5. BodyMoves(r, call[r].at, "failed", s) BY <1>44, <2>3, ReadBodyFailsEffect, Zenon
    <2>. QED BY <1>44, <2>4, <2>5, ReadBodyFailsView
  <1>45. ASSUME NEW r \in Req, CloseBody(r) PROVE SignaledOf(r0)'
    <2>1. call[r].body \in {"open", "failed"} /\ call[r].bodyRead \in Signals
      BY <1>45, CloseBodyView
    <2>2. call[r].body = "open" => call[r].bodyRead = <<>> BY DEF BodyOrder, BodyOf
    <2>3. PICK s : s = Append(call[r].bodyRead, FALSE) BY Zenon
    <2>4. Short(s, 2) /\ (call[r].body = "open" => Short(s, 1))
      <3>1. CASE call[r].body = "open" BY <2>1, <2>2, <2>3, <3>1, ShortSteps
      <3>2. CASE call[r].body = "failed" BY <2>1, <2>3, <3>2, ShortSteps
      <3>. QED BY <2>1, <3>1, <3>2
    <2>5. BodyMoves(r, call[r].at, "closing", s) BY <1>45, <2>3, CloseBodyEffect, Zenon
    <2>. QED BY <1>45, <2>4, <2>5
  <1>46. ASSUME NEW r \in Req, BodyReleased(r) PROVE SignaledOf(r0)'
    BY <1>46, BodyReleasedEffect DEF BodyReleased
  <1>47. CASE Terminated
    BY <1>47 DEF Terminated, vars
  <1>q. QED
    BY <1>1, <1>2, <1>3, <1>4, <1>5, <1>6, <1>7, <1>8, <1>9, <1>10, <1>11, <1>12, <1>13, <1>14,
         <1>15, <1>16, <1>17, <1>18, <1>19, <1>20, <1>21, <1>22, <1>23, <1>24, <1>25, <1>26,
         <1>27, <1>28, <1>29, <1>30, <1>31, <1>32, <1>33, <1>34, <1>35, <1>36, <1>37, <1>38,
         <1>39, <1>40, <1>41, <1>42, <1>43, <1>44, <1>45, <1>46, <1>47 DEF Next

-----------------------------------------------------------------------------
(* The invariant and the theorems.                                         *)

\* The inductive invariant of the order in which the goroutines work.
OrderInv ==
    /\ Types /\ Serve
    /\ WriteOrder /\ StartOrder /\ RetryOrder
    /\ ReadOrder /\ BodyOrder /\ Signaled

\* Initially every variable has its type.
LEMMA InitTypes == Init => Types
  <1>1. /\ "new" \in CallAt /\ "empty" \in ContState /\ "none" \in BodyState
        /\ <<"none", None>> \in Outcomes
        /\ None \in WriteError /\ None \in SomeError /\ None \in SomeReq /\ None \in SomeResp
        /\ <<>> \in Signals /\ <<>> \in Wire /\ <<>> \in OneReq /\ <<>> \in OneResult
        /\ "idle" \in PoolPlace /\ "idle" \in WriteAt /\ "peek" \in ReadAt
        /\ "readLoopExiting" \in Errors
        /\ {} \in ReqSet
    BY DEF CallAt, ContState, BodyState, Outcomes, WriteError, SomeError, SomeReq, SomeResp,
           Signals, Wire,
           OneReq, OneResult, PoolPlace, WriteAt, ReadAt, Errors, ReqSet
  <1>2. SUFFICES ASSUME Init PROVE Types OBVIOUS
  <1>3. call \in [Req -> CallRec] BY <1>1, <1>2 DEF Init, CallRec
  <1>4. pc \in PcRec BY <1>1, <1>2 DEF Init, PcRec
  <1>5. ch \in ChRec /\ w \in WRec /\ sent \in SentRec
    BY <1>1, <1>2 DEF Init, ChRec, WRec, SentRec
  <1>6. rl \in RlRec BY <1>1, <1>2 DEF Init, RlRec
  <1>7. srv \in SrvRec BY <1>1, <1>2 DEF Init, SrvRec
  <1>. QED BY <1>3, <1>4, <1>5, <1>6, <1>7 DEF Types

\* The fields that the invariants read, initially.
LEMMA InitValues ==
  ASSUME Init
  PROVE  /\ \A r \in Req : /\ call[r].at = "new" /\ call[r].out[1] = "none" /\ call[r].cont = "empty"
                           /\ call[r].body = "none" /\ call[r].bodyRead = <<>>
         /\ pc.closed = None /\ pc.expected = 0 /\ pc.pool = "idle"
         /\ ch.write = <<>> /\ ch.req = <<>> /\ ch.err = <<>>
         /\ w.at = "idle" /\ w.req = None
         /\ rl.at = "peek" /\ rl.req = None /\ rl.alive
         /\ sent.begun = {} /\ sent.whole = {} /\ srv.wire = <<>>
         /\ \A r \in Req : ch.write # <<r>> /\ ch.req # <<r>> /\ w.req # r /\ rl.req # r
  <1>1. \A r \in Req : <<>> # <<r>> OBVIOUS
  <1>. QED BY <1>1, RequestKinds DEF Init

\* Initially nothing is out of order.
LEMMA InitOrder == Init => OrderInv
  <1>1. SUFFICES ASSUME Init PROVE OrderInv OBVIOUS
  <1>. USE <1>1, InitValues, RequestKinds
  <1>2. Types BY InitTypes
  <1>3. Serve BY DEF Serve, Serving, WithResponse
  <1>4. WriteOrder BY DEF WriteOrder
  <1>5. StartOrder BY DEF StartOrder
  <1>6. RetryOrder BY DEF RetryOrder, Resent
  <1>7. ReadOrder BY DEF ReadOrder, BeforeBody
  <1>8. BodyOrder BY DEF BodyOrder, BodyOf, BeforeBody
  <1>9. Signaled
    <2>1. Len(<<>>) = 0 OBVIOUS
    <2>2. Short(<<>>, 1) /\ Short(<<>>, 2) BY <2>1 DEF Short
    <2>. QED BY <2>2 DEF Signaled, SignaledOf
  <1>. QED BY <1>2, <1>3, <1>4, <1>5, <1>6, <1>7, <1>8, <1>9 DEF OrderInv

\* Every step keeps the types.
LEMMA TypesStep == ASSUME Types, Serve, Next PROVE Types'
  BY CallStep, PcStep, ChStep, WStep, RlStep, SentStep, SrvStep DEF Types

\* OrderInv is inductive.
LEMMA OrderStep == OrderInv /\ [Next]_vars => OrderInv'
  <1>1. ASSUME OrderInv, Next PROVE OrderInv'
    <2>. USE <1>1 DEF OrderInv
    <2>1. Types' BY TypesStep
    <2>2. Serve' BY ServeStep
    <2>3. WriteOrder' /\ StartOrder' BY WriteOrderStep, StartOrderStep
    <2>4. RetryOrder' BY RetryOrderStep
    <2>5. ReadOrder' BY ReadOrderStep
    <2>6. BodyOrder'
      <3>1. \A r \in Req : BodyOf(r)' BY BodyOrderStep
      <3>. QED BY <3>1 DEF BodyOrder
    <2>7. Signaled'
      <3>1. \A r \in Req : SignaledOf(r)' BY SignaledStep
      <3>. QED BY <3>1 DEF Signaled
    <2>. QED BY <2>1, <2>2, <2>3, <2>4, <2>5, <2>6, <2>7
  <1>2. ASSUME OrderInv, UNCHANGED vars PROVE OrderInv'
    <2>. USE <1>2 DEF vars
    <2>1. Types' /\ Serve' BY DEF OrderInv, Types, Serve
    <2>2. WriteOrder' /\ StartOrder' /\ RetryOrder'
      BY DEF OrderInv, WriteOrder, StartOrder, RetryOrder, Resent
    <2>3. ReadOrder' /\ BodyOrder' /\ Signaled'
      BY DEF OrderInv, ReadOrder, BodyOrder, BodyOf, BeforeBody, Signaled, SignaledOf
    <2>. QED BY <2>1, <2>2, <2>3 DEF OrderInv
  <1>. QED BY <1>1, <1>2

\* The goroutines of a connection work in order, whatever the interleaving, the
\* server and the user do: OrderInv is an invariant of roundTrip, writeLoop and
\* readLoop.
THEOREM OrderInvariance == Spec => []OrderInv
  BY InitOrder, OrderStep, PTL DEF Spec

\* readLoop reads from a connection only when the user can no longer read the
\* body of an earlier response: bodyEOFSignal and readLoop never read at the
\* same time.
THEOREM OneReaderAtATime == Spec => []ReadersExclusive
  <1>1. OrderInv => ReadersExclusive
    <2>. SUFFICES ASSUME OrderInv, rl.at \in {"peek", "take", "read"}, NEW r \in Req
                  PROVE  call[r].body \in {"none", "eof", "over"}
      BY DEF ReadersExclusive
    <2>1. call[r].body \in BodyState BY DEF OrderInv, Types, CallRec
    <2>. QED BY <2>1 DEF OrderInv, BodyOrder, BodyOf, BodyState
  <1>. QED BY <1>1, OrderInvariance, PTL

\* The reader of a body sees its end only after readLoop has put the connection
\* back, or decided not to (eofc).
THEOREM RecycledBeforeEOF == Spec => []EOFAfterRecycling
  <1>1. OrderInv => EOFAfterRecycling
    BY DEF OrderInv, BodyOrder, BodyOf, BeforeBody, EOFAfterRecycling
  <1>. QED BY <1>1, OrderInvariance, PTL

\* A request that is not idempotent is handed back for another connection only
\* if not a byte of it went out, then or later (shouldRetryRequest,
\* nothingWrittenError).
THEOREM ResendsAreSafe == Spec => []RetrySafe
  <1>1. OrderInv => RetrySafe BY DEF OrderInv, RetryOrder, Resent, RetrySafe
  <1>. QED BY <1>1, OrderInvariance, PTL
=============================================================================
