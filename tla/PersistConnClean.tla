-------------------------- MODULE PersistConnClean --------------------------
(***************************************************************************)
(* PersistConn, for every set of requests: a connection in the pool is     *)
(* clean, and no caller gets the response to the request of another.       *)
(*                                                                         *)
(* The two need each other.  A response is the right one because what is   *)
(* on the wire belongs to the one request that uses the connection, and    *)
(* one request uses it because it was clean when the pool handed it out.   *)
(* So the invariant follows a request through the connection (Busy), and   *)
(* says of everything on the wire whose it is (WireInv), for as long as    *)
(* readLoop may go on to another response (LoopLives).                     *)
(***************************************************************************)
EXTENDS PersistConnProofs

-----------------------------------------------------------------------------
(* One request at a time.                                                  *)

\* writeLoop is not done with the request of r.
Unwritten(r) ==
    \/ call[r].at \in {"got", "write"} \/ ch.write = <<r>>
    \/ w.req = r /\ w.at \in {"begin", "await", "part", "report"}

\* The response to r has not been read.
Unanswered(r) ==
    call[r].at \in {"got", "write", "queue"} \/ ch.req = <<r>> \/ (rl.req = r /\ rl.at = "read")

\* readLoop works on the response to r.
InHand(r) == rl.req = r /\ rl.at \in {"fail", "sendBody", "wait", "wrote", "put"}

\* The connection is not free of r.
Busy(r) == Unwritten(r) \/ Unanswered(r) \/ InHand(r)

\* readLoop will reuse the connection unless it learns better.
LoopLives == rl.alive /\ rl.at \notin {"fail", "exit", "close", "remove", "done"}

\* r is counted in numExpectedResponses.
Expects(r) == call[r].at \in {"write", "queue"} \/ ch.req = <<r>> \/ (rl.req = r /\ rl.at = "read")

\* Only one request at a time uses the connection.
Alone == \A r, q \in Req : Busy(r) /\ Busy(q) => r = q

\* A connection in the pool is free of every request and of the report of every
\* write.
IdleFree == pc.pool = "idle" => ch.err = <<>> /\ \A r \in Req : ~Busy(r)

\* A report of writeLoop in writeErrCh means that the write is over, and
\* readLoop takes it before it puts the connection back.
Reported ==
    /\ ch.err # <<>> \/ rl.at = "put" => \A r \in Req : ~Unwritten(r)
    /\ rl.at = "put" => ch.err = <<>>

\* readLoop of an open connection in the pool is alive.
IdleAlive == pc.pool = "idle" /\ pc.closed = None => LoopLives

\* numExpectedResponses is one while a response is expected, and zero
\* otherwise.
Counted == LoopLives =>
                /\ \A r \in Req : Expects(r) => pc.expected = 1
                /\ (\A r \in Req : ~Expects(r)) => pc.expected = 0

\* A request starts to use the connection only when it gets it from the pool.
LEMMA BusyStep ==
  ASSUME Types, Serve, WriteOrder, ReadOrder, IdleFree, Next, NEW r0 \in Req, Busy(r0)'
  PROVE  Busy(r0) \/ (Acquire(r0) /\ \A q \in Req : ~Busy(q))
  <1>. USE RequestKinds DEF HasBody, IdleFree, WriteOrder, ReadOrder, Keeps, AllKeep, Others,
       MovesTo, Continues, BodyMoves, PcKeeps, Breaks, RlTo, Types, Serve, ChRec, WRec, RlRec,
       PcRec, Serving, WithResponse, Unwritten, Unanswered, InHand, Busy
  <1>1. ASSUME NEW r \in Req, Acquire(r)
        PROVE  Busy(r0) \/ (Acquire(r0) /\ \A q \in Req : ~Busy(q))
    BY <1>1, AcquireEffect DEF Acquire
  <1>2. ASSUME NEW r \in Req, ExpectResponse(r)
        PROVE  Busy(r0) \/ (Acquire(r0) /\ \A q \in Req : ~Busy(q))
    BY <1>2, ExpectResponseEffect DEF ExpectResponse
  <1>3. ASSUME NEW r \in Req, SendToWriteLoop(r)
        PROVE  Busy(r0) \/ (Acquire(r0) /\ \A q \in Req : ~Busy(q))
    BY <1>3, SendToWriteLoopView
  <1>4. ASSUME NEW r \in Req, SendToReadLoop(r)
        PROVE  Busy(r0) \/ (Acquire(r0) /\ \A q \in Req : ~Busy(q))
    BY <1>4, SendToReadLoopEffect DEF SendToReadLoop
  <1>5. ASSUME NEW r \in Req, WriteReported(r)
        PROVE  Busy(r0) \/ (Acquire(r0) /\ \A q \in Req : ~Busy(q))
    BY <1>5, WriteReportedView
  <1>6. ASSUME NEW r \in Req, ConnClosed(r)
        PROVE  Busy(r0) \/ (Acquire(r0) /\ \A q \in Req : ~Busy(q))
    BY <1>6, ConnClosedView
  <1>7. ASSUME NEW r \in Req, HeaderTimeout(r)
        PROVE  Busy(r0) \/ (Acquire(r0) /\ \A q \in Req : ~Busy(q))
    BY <1>7, HeaderTimeoutView
  <1>8. ASSUME NEW r \in Req, CtxDone(r)
        PROVE  Busy(r0) \/ (Acquire(r0) /\ \A q \in Req : ~Busy(q))
    BY <1>8, CtxDoneView
  <1>9. ASSUME NEW r \in Req, UserCancels(r)
        PROVE  Busy(r0) \/ (Acquire(r0) /\ \A q \in Req : ~Busy(q))
    BY <1>9, UserCancelsEffect DEF UserCancels
  <1>10. ASSUME NEW r \in Req, MapError(r)
         PROVE  Busy(r0) \/ (Acquire(r0) /\ \A q \in Req : ~Busy(q))
    BY <1>10, MapErrorView
  <1>11. CASE TakeWrite
    BY <1>11, TakeWriteView
  <1>12. CASE WriteLoopClosed
    BY <1>12 DEF WriteLoopClosed
  <1>13. CASE WritePart
    BY <1>13 DEF WritePart, Open
  <1>14. CASE WaitForContinue
    BY <1>14, WaitForContinueView
  <1>15. CASE WriteRest
    BY <1>15 DEF WriteRest, Open
  <1>16. CASE WriteFails
    BY <1>16, WriteFailsEffect DEF WriteFails
  <1>17. CASE ReportWrite
    BY <1>17 DEF ReportWrite
  <1>18. CASE TellCaller
    BY <1>18, TellCallerView
  <1>19. ASSUME NEW r \in Req, ServerContinues(r)
         PROVE  Busy(r0) \/ (Acquire(r0) /\ \A q \in Req : ~Busy(q))
    BY <1>19 DEF ServerContinues, Bytes, Open
  <1>20. ASSUME NEW r \in Req, NEW kind \in Answers, ServerAnswers(r, kind)
         PROVE  Busy(r0) \/ (Acquire(r0) /\ \A q \in Req : ~Busy(q))
    BY <1>20 DEF ServerAnswers, Bytes, Open
  <1>21. ASSUME NEW r \in Req, NEW kind \in Answers, ServerCutsOff(r, kind)
         PROVE  Busy(r0) \/ (Acquire(r0) /\ \A q \in Req : ~Busy(q))
    BY <1>21 DEF ServerCutsOff, Bytes, Open
  <1>22. CASE ServerTimesOut
    BY <1>22 DEF ServerTimesOut, Bytes, Open
  <1>23. CASE ServerHangsUp
    BY <1>23 DEF ServerHangsUp
  <1>24. CASE PoolCloses
    BY <1>24, PoolClosesView
  <1>25. ASSUME NEW ok \in BOOLEAN, Peek(ok)
         PROVE  Busy(r0) \/ (Acquire(r0) /\ \A q \in Req : ~Busy(q))
    BY <1>25, PeekView
  <1>26. CASE TakeRequest
    BY <1>26, TakeRequestView
  <1>27. CASE ReadContinue
    BY <1>27, ReadContinueEffect DEF ReadContinue
  <1>28. CASE ReadFinal
    BY <1>28, ReadFinalView
  <1>29. CASE ReadFails
    BY <1>29 DEF ReadFails
  <1>30. CASE DeliverError
    BY <1>30, DeliverErrorView
  <1>31. CASE CallerGone
    BY <1>31 DEF CallerGone
  <1>32. CASE WroteRequest
    BY <1>32, WroteRequestView DEF Decided
  <1>33. CASE TryPutIdleConn
    BY <1>33, TryPutIdleConnView DEF Decided
  <1>34. CASE Deliver
    BY <1>34, DeliverView
  <1>35. CASE DeliverBody
    BY <1>35, DeliverBodyView
  <1>36. CASE BodyRead
    BY <1>36, BodyReadView
  <1>37. CASE BodyCanceled
    BY <1>37, BodyCanceledView
  <1>38. CASE BodyConnClosed
    BY <1>38, BodyConnClosedView
  <1>39. CASE ReleaseBodyReader
    BY <1>39, ReleaseBodyReaderView
  <1>40. CASE CloseEofc
    BY <1>40 DEF CloseEofc
  <1>41. CASE ExitClose
    BY <1>41, ExitCloseView
  <1>42. CASE ExitRemove
    BY <1>42 DEF ExitRemove
  <1>43. ASSUME NEW r \in Req, ReadToEnd(r)
         PROVE  Busy(r0) \/ (Acquire(r0) /\ \A q \in Req : ~Busy(q))
    BY <1>43, ReadToEndView
  <1>44. ASSUME NEW r \in Req, ReadBodyFails(r)
         PROVE  Busy(r0) \/ (Acquire(r0) /\ \A q \in Req : ~Busy(q))
    BY <1>44, ReadBodyFailsView
  <1>45. ASSUME NEW r \in Req, CloseBody(r)
         PROVE  Busy(r0) \/ (Acquire(r0) /\ \A q \in Req : ~Busy(q))
    BY <1>45, CloseBodyView
  <1>46. ASSUME NEW r \in Req, BodyReleased(r)
         PROVE  Busy(r0) \/ (Acquire(r0) /\ \A q \in Req : ~Busy(q))
    BY <1>46, BodyReleasedEffect DEF BodyReleased
  <1>47. CASE Terminated
    BY <1>47 DEF Terminated, vars
  <1>q. QED
    BY <1>1, <1>2, <1>3, <1>4, <1>5, <1>6, <1>7, <1>8, <1>9, <1>10, <1>11, <1>12, <1>13, <1>14,
         <1>15, <1>16, <1>17, <1>18, <1>19, <1>20, <1>21, <1>22, <1>23, <1>24, <1>25, <1>26,
         <1>27, <1>28, <1>29, <1>30, <1>31, <1>32, <1>33, <1>34, <1>35, <1>36, <1>37, <1>38,
         <1>39, <1>40, <1>41, <1>42, <1>43, <1>44, <1>45, <1>46, <1>47 DEF Next

\* Every step keeps the connections in the pool free,
LEMMA IdleFreeStep ==
  ASSUME Types, Serve, WriteOrder, ReadOrder, IdleFree, Reported, Alone, Next PROVE IdleFree'
  <1>. USE RequestKinds DEF HasBody, WriteOrder, ReadOrder, IdleFree, Reported, Alone, Keeps,
       AllKeep, Others, MovesTo, Continues, BodyMoves, PcKeeps, Breaks, RlTo, Types, Serve,
       ChRec, WRec, RlRec, PcRec, Serving, WithResponse, Unwritten, Unanswered, InHand, Busy
  <1>1. ASSUME NEW r \in Req, Acquire(r) PROVE IdleFree'
    BY <1>1, AcquireEffect DEF Acquire
  <1>2. ASSUME NEW r \in Req, ExpectResponse(r) PROVE IdleFree'
    BY <1>2, ExpectResponseEffect DEF ExpectResponse
  <1>3. ASSUME NEW r \in Req, SendToWriteLoop(r) PROVE IdleFree'
    BY <1>3, SendToWriteLoopView
  <1>4. ASSUME NEW r \in Req, SendToReadLoop(r) PROVE IdleFree'
    BY <1>4, SendToReadLoopEffect DEF SendToReadLoop
  <1>5. ASSUME NEW r \in Req, WriteReported(r) PROVE IdleFree'
    BY <1>5, WriteReportedView
  <1>6. ASSUME NEW r \in Req, ConnClosed(r) PROVE IdleFree'
    BY <1>6, ConnClosedView
  <1>7. ASSUME NEW r \in Req, HeaderTimeout(r) PROVE IdleFree'
    BY <1>7, HeaderTimeoutView
  <1>8. ASSUME NEW r \in Req, CtxDone(r) PROVE IdleFree'
    BY <1>8, CtxDoneView
  <1>9. ASSUME NEW r \in Req, UserCancels(r) PROVE IdleFree'
    BY <1>9, UserCancelsEffect DEF UserCancels
  <1>10. ASSUME NEW r \in Req, MapError(r) PROVE IdleFree'
    BY <1>10, MapErrorView
  <1>11. CASE TakeWrite
    BY <1>11, TakeWriteView
  <1>12. CASE WriteLoopClosed
    BY <1>12 DEF WriteLoopClosed
  <1>13. CASE WritePart
    BY <1>13 DEF WritePart, Open
  <1>14. CASE WaitForContinue
    BY <1>14, WaitForContinueView
  <1>15. CASE WriteRest
    BY <1>15 DEF WriteRest, Open
  <1>16. CASE WriteFails
    BY <1>16, WriteFailsEffect DEF WriteFails
  <1>17. CASE ReportWrite
    BY <1>17 DEF ReportWrite
  <1>18. CASE TellCaller
    BY <1>18, TellCallerView
  <1>19. ASSUME NEW r \in Req, ServerContinues(r) PROVE IdleFree'
    BY <1>19 DEF ServerContinues, Bytes, Open
  <1>20. ASSUME NEW r \in Req, NEW kind \in Answers, ServerAnswers(r, kind) PROVE IdleFree'
    BY <1>20 DEF ServerAnswers, Bytes, Open
  <1>21. ASSUME NEW r \in Req, NEW kind \in Answers, ServerCutsOff(r, kind) PROVE IdleFree'
    BY <1>21 DEF ServerCutsOff, Bytes, Open
  <1>22. CASE ServerTimesOut
    BY <1>22 DEF ServerTimesOut, Bytes, Open
  <1>23. CASE ServerHangsUp
    BY <1>23 DEF ServerHangsUp
  <1>24. CASE PoolCloses
    BY <1>24, PoolClosesView
  <1>25. ASSUME NEW ok \in BOOLEAN, Peek(ok) PROVE IdleFree'
    BY <1>25, PeekView
  <1>26. CASE TakeRequest
    BY <1>26, TakeRequestView
  <1>27. CASE ReadContinue
    BY <1>27, ReadContinueEffect DEF ReadContinue
  <1>28. CASE ReadFinal
    BY <1>28, ReadFinalView
  <1>29. CASE ReadFails
    BY <1>29 DEF ReadFails
  <1>30. CASE DeliverError
    BY <1>30, DeliverErrorView
  <1>31. CASE CallerGone
    BY <1>31 DEF CallerGone
  <1>32. CASE WroteRequest
    BY <1>32, WroteRequestView DEF Decided
  <1>33. CASE TryPutIdleConn
    BY <1>33, TryPutIdleConnView DEF Decided
  <1>34. CASE Deliver
    BY <1>34, DeliverView
  <1>35. CASE DeliverBody
    BY <1>35, DeliverBodyView
  <1>36. CASE BodyRead
    BY <1>36, BodyReadView
  <1>37. CASE BodyCanceled
    BY <1>37, BodyCanceledView
  <1>38. CASE BodyConnClosed
    BY <1>38, BodyConnClosedView
  <1>39. CASE ReleaseBodyReader
    BY <1>39, ReleaseBodyReaderView
  <1>40. CASE CloseEofc
    BY <1>40 DEF CloseEofc
  <1>41. CASE ExitClose
    BY <1>41, ExitCloseView
  <1>42. CASE ExitRemove
    BY <1>42 DEF ExitRemove
  <1>43. ASSUME NEW r \in Req, ReadToEnd(r) PROVE IdleFree'
    BY <1>43, ReadToEndView
  <1>44. ASSUME NEW r \in Req, ReadBodyFails(r) PROVE IdleFree'
    BY <1>44, ReadBodyFailsView
  <1>45. ASSUME NEW r \in Req, CloseBody(r) PROVE IdleFree'
    BY <1>45, CloseBodyView
  <1>46. ASSUME NEW r \in Req, BodyReleased(r) PROVE IdleFree'
    BY <1>46, BodyReleasedEffect DEF BodyReleased
  <1>47. CASE Terminated
    BY <1>47 DEF Terminated, vars
  <1>q. QED
    BY <1>1, <1>2, <1>3, <1>4, <1>5, <1>6, <1>7, <1>8, <1>9, <1>10, <1>11, <1>12, <1>13, <1>14,
         <1>15, <1>16, <1>17, <1>18, <1>19, <1>20, <1>21, <1>22, <1>23, <1>24, <1>25, <1>26,
         <1>27, <1>28, <1>29, <1>30, <1>31, <1>32, <1>33, <1>34, <1>35, <1>36, <1>37, <1>38,
         <1>39, <1>40, <1>41, <1>42, <1>43, <1>44, <1>45, <1>46, <1>47 DEF Next

\* the reports of writeLoop,
LEMMA ReportedStep ==
  ASSUME Types, Serve, WriteOrder, ReadOrder, IdleFree, Reported, Alone, Next PROVE Reported'
  <1>. USE RequestKinds DEF HasBody, WriteOrder, ReadOrder, IdleFree, Reported, Alone, Keeps,
       AllKeep, Others, MovesTo, Continues, BodyMoves, PcKeeps, Breaks, RlTo, Types, Serve,
       ChRec, WRec, RlRec, PcRec, Serving, WithResponse, Unwritten, Unanswered, InHand, Busy
  <1>1. ASSUME NEW r \in Req, Acquire(r) PROVE Reported'
    BY <1>1, AcquireEffect DEF Acquire
  <1>2. ASSUME NEW r \in Req, ExpectResponse(r) PROVE Reported'
    BY <1>2, ExpectResponseEffect DEF ExpectResponse
  <1>3. ASSUME NEW r \in Req, SendToWriteLoop(r) PROVE Reported'
    BY <1>3, SendToWriteLoopView
  <1>4. ASSUME NEW r \in Req, SendToReadLoop(r) PROVE Reported'
    BY <1>4, SendToReadLoopEffect DEF SendToReadLoop
  <1>5. ASSUME NEW r \in Req, WriteReported(r) PROVE Reported'
    BY <1>5, WriteReportedView
  <1>6. ASSUME NEW r \in Req, ConnClosed(r) PROVE Reported'
    BY <1>6, ConnClosedView
  <1>7. ASSUME NEW r \in Req, HeaderTimeout(r) PROVE Reported'
    BY <1>7, HeaderTimeoutView
  <1>8. ASSUME NEW r \in Req, CtxDone(r) PROVE Reported'
    BY <1>8, CtxDoneView
  <1>9. ASSUME NEW r \in Req, UserCancels(r) PROVE Reported'
    BY <1>9, UserCancelsEffect DEF UserCancels
  <1>10. ASSUME NEW r \in Req, MapError(r) PROVE Reported'
    BY <1>10, MapErrorView
  <1>11. CASE TakeWrite
    BY <1>11, TakeWriteView
  <1>12. CASE WriteLoopClosed
    BY <1>12 DEF WriteLoopClosed
  <1>13. CASE WritePart
    BY <1>13 DEF WritePart, Open
  <1>14. CASE WaitForContinue
    BY <1>14, WaitForContinueView
  <1>15. CASE WriteRest
    BY <1>15 DEF WriteRest, Open
  <1>16. CASE WriteFails
    BY <1>16, WriteFailsEffect DEF WriteFails
  <1>17. CASE ReportWrite
    BY <1>17 DEF ReportWrite
  <1>18. CASE TellCaller
    BY <1>18, TellCallerView
  <1>19. ASSUME NEW r \in Req, ServerContinues(r) PROVE Reported'
    BY <1>19 DEF ServerContinues, Bytes, Open
  <1>20. ASSUME NEW r \in Req, NEW kind \in Answers, ServerAnswers(r, kind) PROVE Reported'
    BY <1>20 DEF ServerAnswers, Bytes, Open
  <1>21. ASSUME NEW r \in Req, NEW kind \in Answers, ServerCutsOff(r, kind) PROVE Reported'
    BY <1>21 DEF ServerCutsOff, Bytes, Open
  <1>22. CASE ServerTimesOut
    BY <1>22 DEF ServerTimesOut, Bytes, Open
  <1>23. CASE ServerHangsUp
    BY <1>23 DEF ServerHangsUp
  <1>24. CASE PoolCloses
    BY <1>24, PoolClosesView
  <1>25. ASSUME NEW ok \in BOOLEAN, Peek(ok) PROVE Reported'
    BY <1>25, PeekView
  <1>26. CASE TakeRequest
    BY <1>26, TakeRequestView
  <1>27. CASE ReadContinue
    BY <1>27, ReadContinueEffect DEF ReadContinue
  <1>28. CASE ReadFinal
    BY <1>28, ReadFinalView
  <1>29. CASE ReadFails
    BY <1>29 DEF ReadFails
  <1>30. CASE DeliverError
    BY <1>30, DeliverErrorView
  <1>31. CASE CallerGone
    BY <1>31 DEF CallerGone
  <1>32. CASE WroteRequest
    BY <1>32, WroteRequestView DEF Decided
  <1>33. CASE TryPutIdleConn
    BY <1>33, TryPutIdleConnView DEF Decided
  <1>34. CASE Deliver
    BY <1>34, DeliverView
  <1>35. CASE DeliverBody
    BY <1>35, DeliverBodyView
  <1>36. CASE BodyRead
    BY <1>36, BodyReadView
  <1>37. CASE BodyCanceled
    BY <1>37, BodyCanceledView
  <1>38. CASE BodyConnClosed
    BY <1>38, BodyConnClosedView
  <1>39. CASE ReleaseBodyReader
    BY <1>39, ReleaseBodyReaderView
  <1>40. CASE CloseEofc
    BY <1>40 DEF CloseEofc
  <1>41. CASE ExitClose
    BY <1>41, ExitCloseView
  <1>42. CASE ExitRemove
    BY <1>42 DEF ExitRemove
  <1>43. ASSUME NEW r \in Req, ReadToEnd(r) PROVE Reported'
    BY <1>43, ReadToEndView
  <1>44. ASSUME NEW r \in Req, ReadBodyFails(r) PROVE Reported'
    BY <1>44, ReadBodyFailsView
  <1>45. ASSUME NEW r \in Req, CloseBody(r) PROVE Reported'
    BY <1>45, CloseBodyView
  <1>46. ASSUME NEW r \in Req, BodyReleased(r) PROVE Reported'
    BY <1>46, BodyReleasedEffect DEF BodyReleased
  <1>47. CASE Terminated
    BY <1>47 DEF Terminated, vars
  <1>q. QED
    BY <1>1, <1>2, <1>3, <1>4, <1>5, <1>6, <1>7, <1>8, <1>9, <1>10, <1>11, <1>12, <1>13, <1>14,
         <1>15, <1>16, <1>17, <1>18, <1>19, <1>20, <1>21, <1>22, <1>23, <1>24, <1>25, <1>26,
         <1>27, <1>28, <1>29, <1>30, <1>31, <1>32, <1>33, <1>34, <1>35, <1>36, <1>37, <1>38,
         <1>39, <1>40, <1>41, <1>42, <1>43, <1>44, <1>45, <1>46, <1>47 DEF Next

\* readLoop of a connection in the pool alive,
LEMMA IdleAliveStep ==
  ASSUME Types, Serve, WriteOrder, ReadOrder, IdleFree, IdleAlive, Next PROVE IdleAlive'
  <1>. USE RequestKinds DEF HasBody, ReadOrder, BeforeBody, IdleFree, IdleAlive, LoopLives,
       Keeps, AllKeep, Others, MovesTo, Continues, BodyMoves, PcKeeps, Breaks, RlTo, Types,
       Serve, ChRec, WRec, RlRec, PcRec, Serving, WithResponse, Unwritten, Unanswered, InHand,
       Busy
  <1>1. ASSUME NEW r \in Req, Acquire(r) PROVE IdleAlive'
    BY <1>1, AcquireEffect DEF Acquire
  <1>2. ASSUME NEW r \in Req, ExpectResponse(r) PROVE IdleAlive'
    BY <1>2, ExpectResponseEffect DEF ExpectResponse
  <1>3. ASSUME NEW r \in Req, SendToWriteLoop(r) PROVE IdleAlive'
    BY <1>3, SendToWriteLoopView
  <1>4. ASSUME NEW r \in Req, SendToReadLoop(r) PROVE IdleAlive'
    BY <1>4, SendToReadLoopEffect DEF SendToReadLoop
  <1>5. ASSUME NEW r \in Req, WriteReported(r) PROVE IdleAlive'
    BY <1>5, WriteReportedView
  <1>6. ASSUME NEW r \in Req, ConnClosed(r) PROVE IdleAlive'
    BY <1>6, ConnClosedView
  <1>7. ASSUME NEW r \in Req, HeaderTimeout(r) PROVE IdleAlive'
    BY <1>7, HeaderTimeoutView
  <1>8. ASSUME NEW r \in Req, CtxDone(r) PROVE IdleAlive'
    BY <1>8, CtxDoneView
  <1>9. ASSUME NEW r \in Req, UserCancels(r) PROVE IdleAlive'
    BY <1>9, UserCancelsEffect DEF UserCancels
  <1>10. ASSUME NEW r \in Req, MapError(r) PROVE IdleAlive'
    BY <1>10, MapErrorView
  <1>11. CASE TakeWrite
    BY <1>11, TakeWriteView
  <1>12. CASE WriteLoopClosed
    BY <1>12 DEF WriteLoopClosed
  <1>13. CASE WritePart
    BY <1>13 DEF WritePart, Open
  <1>14. CASE WaitForContinue
    BY <1>14, WaitForContinueView
  <1>15. CASE WriteRest
    BY <1>15 DEF WriteRest, Open
  <1>16. CASE WriteFails
    BY <1>16, WriteFailsEffect DEF WriteFails
  <1>17. CASE ReportWrite
    BY <1>17 DEF ReportWrite
  <1>18. CASE TellCaller
    BY <1>18, TellCallerView
  <1>19. ASSUME NEW r \in Req, ServerContinues(r) PROVE IdleAlive'
    BY <1>19 DEF ServerContinues, Bytes, Open
  <1>20. ASSUME NEW r \in Req, NEW kind \in Answers, ServerAnswers(r, kind) PROVE IdleAlive'
    BY <1>20 DEF ServerAnswers, Bytes, Open
  <1>21. ASSUME NEW r \in Req, NEW kind \in Answers, ServerCutsOff(r, kind) PROVE IdleAlive'
    BY <1>21 DEF ServerCutsOff, Bytes, Open
  <1>22. CASE ServerTimesOut
    BY <1>22 DEF ServerTimesOut, Bytes, Open
  <1>23. CASE ServerHangsUp
    BY <1>23 DEF ServerHangsUp
  <1>24. CASE PoolCloses
    BY <1>24, PoolClosesView
  <1>25. ASSUME NEW ok \in BOOLEAN, Peek(ok) PROVE IdleAlive'
    BY <1>25, PeekView
  <1>26. CASE TakeRequest
    BY <1>26, TakeRequestView
  <1>27. CASE ReadContinue
    BY <1>27, ReadContinueEffect DEF ReadContinue
  <1>28. CASE ReadFinal
    BY <1>28, ReadFinalView
  <1>29. CASE ReadFails
    BY <1>29 DEF ReadFails
  <1>30. CASE DeliverError
    BY <1>30, DeliverErrorView
  <1>31. CASE CallerGone
    BY <1>31 DEF CallerGone
  <1>32. CASE WroteRequest
    BY <1>32, WroteRequestView DEF Decided
  <1>33. CASE TryPutIdleConn
    BY <1>33, TryPutIdleConnView DEF Decided
  <1>34. CASE Deliver
    BY <1>34, DeliverView
  <1>35. CASE DeliverBody
    BY <1>35, DeliverBodyView
  <1>36. CASE BodyRead
    BY <1>36, BodyReadView
  <1>37. CASE BodyCanceled
    BY <1>37, BodyCanceledView
  <1>38. CASE BodyConnClosed
    BY <1>38, BodyConnClosedView
  <1>39. CASE ReleaseBodyReader
    BY <1>39, ReleaseBodyReaderView
  <1>40. CASE CloseEofc
    BY <1>40 DEF CloseEofc
  <1>41. CASE ExitClose
    BY <1>41, ExitCloseView
  <1>42. CASE ExitRemove
    BY <1>42 DEF ExitRemove
  <1>43. ASSUME NEW r \in Req, ReadToEnd(r) PROVE IdleAlive'
    BY <1>43, ReadToEndView
  <1>44. ASSUME NEW r \in Req, ReadBodyFails(r) PROVE IdleAlive'
    BY <1>44, ReadBodyFailsView
  <1>45. ASSUME NEW r \in Req, CloseBody(r) PROVE IdleAlive'
    BY <1>45, CloseBodyView
  <1>46. ASSUME NEW r \in Req, BodyReleased(r) PROVE IdleAlive'
    BY <1>46, BodyReleasedEffect DEF BodyReleased
  <1>47. CASE Terminated
    BY <1>47 DEF Terminated, vars
  <1>q. QED
    BY <1>1, <1>2, <1>3, <1>4, <1>5, <1>6, <1>7, <1>8, <1>9, <1>10, <1>11, <1>12, <1>13, <1>14,
         <1>15, <1>16, <1>17, <1>18, <1>19, <1>20, <1>21, <1>22, <1>23, <1>24, <1>25, <1>26,
         <1>27, <1>28, <1>29, <1>30, <1>31, <1>32, <1>33, <1>34, <1>35, <1>36, <1>37, <1>38,
         <1>39, <1>40, <1>41, <1>42, <1>43, <1>44, <1>45, <1>46, <1>47 DEF Next

\* and numExpectedResponses right.
LEMMA CountedStep ==
  ASSUME Types, Serve, WriteOrder, ReadOrder, Alone, Counted, Next PROVE Counted'
  <1>. USE RequestKinds DEF HasBody, WriteOrder, ReadOrder, Alone, Counted, LoopLives, Expects,
       Keeps, AllKeep, Others, MovesTo, Continues, BodyMoves, PcKeeps, Breaks, RlTo, Types,
       Serve, ChRec, WRec, RlRec, PcRec, Serving, WithResponse, Unwritten, Unanswered, InHand,
       Busy
  <1>1. ASSUME NEW r \in Req, Acquire(r) PROVE Counted'
    BY <1>1, AcquireEffect DEF Acquire
  <1>2. ASSUME NEW r \in Req, ExpectResponse(r) PROVE Counted'
    BY <1>2, ExpectResponseEffect DEF ExpectResponse
  <1>3. ASSUME NEW r \in Req, SendToWriteLoop(r) PROVE Counted'
    BY <1>3, SendToWriteLoopView
  <1>4. ASSUME NEW r \in Req, SendToReadLoop(r) PROVE Counted'
    BY <1>4, SendToReadLoopEffect DEF SendToReadLoop
  <1>5. ASSUME NEW r \in Req, WriteReported(r) PROVE Counted'
    BY <1>5, WriteReportedView
  <1>6. ASSUME NEW r \in Req, ConnClosed(r) PROVE Counted'
    BY <1>6, ConnClosedView
  <1>7. ASSUME NEW r \in Req, HeaderTimeout(r) PROVE Counted'
    BY <1>7, HeaderTimeoutView
  <1>8. ASSUME NEW r \in Req, CtxDone(r) PROVE Counted'
    BY <1>8, CtxDoneView
  <1>9. ASSUME NEW r \in Req, UserCancels(r) PROVE Counted'
    BY <1>9, UserCancelsEffect DEF UserCancels
  <1>10. ASSUME NEW r \in Req, MapError(r) PROVE Counted'
    BY <1>10, MapErrorView
  <1>11. CASE TakeWrite
    BY <1>11, TakeWriteView
  <1>12. CASE WriteLoopClosed
    BY <1>12 DEF WriteLoopClosed
  <1>13. CASE WritePart
    BY <1>13 DEF WritePart, Open
  <1>14. CASE WaitForContinue
    BY <1>14, WaitForContinueView
  <1>15. CASE WriteRest
    BY <1>15 DEF WriteRest, Open
  <1>16. CASE WriteFails
    BY <1>16, WriteFailsEffect DEF WriteFails
  <1>17. CASE ReportWrite
    BY <1>17 DEF ReportWrite
  <1>18. CASE TellCaller
    BY <1>18, TellCallerView
  <1>19. ASSUME NEW r \in Req, ServerContinues(r) PROVE Counted'
    BY <1>19 DEF ServerContinues, Bytes, Open
  <1>20. ASSUME NEW r \in Req, NEW kind \in Answers, ServerAnswers(r, kind) PROVE Counted'
    BY <1>20 DEF ServerAnswers, Bytes, Open
  <1>21. ASSUME NEW r \in Req, NEW kind \in Answers, ServerCutsOff(r, kind) PROVE Counted'
    BY <1>21 DEF ServerCutsOff, Bytes, Open
  <1>22. CASE ServerTimesOut
    BY <1>22 DEF ServerTimesOut, Bytes, Open
  <1>23. CASE ServerHangsUp
    BY <1>23 DEF ServerHangsUp
  <1>24. CASE PoolCloses
    BY <1>24, PoolClosesView
  <1>25. ASSUME NEW ok \in BOOLEAN, Peek(ok) PROVE Counted'
    BY <1>25, PeekView
  <1>26. CASE TakeRequest
    BY <1>26, TakeRequestView
  <1>27. CASE ReadContinue
    BY <1>27, ReadContinueEffect DEF ReadContinue
  <1>28. CASE ReadFinal
    BY <1>28, ReadFinalView
  <1>29. CASE ReadFails
    BY <1>29 DEF ReadFails
  <1>30. CASE DeliverError
    BY <1>30, DeliverErrorView
  <1>31. CASE CallerGone
    BY <1>31 DEF CallerGone
  <1>32. CASE WroteRequest
    BY <1>32, WroteRequestView DEF Decided
  <1>33. CASE TryPutIdleConn
    BY <1>33, TryPutIdleConnView DEF Decided
  <1>34. CASE Deliver
    BY <1>34, DeliverView
  <1>35. CASE DeliverBody
    BY <1>35, DeliverBodyView
  <1>36. CASE BodyRead
    BY <1>36, BodyReadView
  <1>37. CASE BodyCanceled
    BY <1>37, BodyCanceledView
  <1>38. CASE BodyConnClosed
    BY <1>38, BodyConnClosedView
  <1>39. CASE ReleaseBodyReader
    BY <1>39, ReleaseBodyReaderView
  <1>40. CASE CloseEofc
    BY <1>40 DEF CloseEofc
  <1>41. CASE ExitClose
    BY <1>41, ExitCloseView
  <1>42. CASE ExitRemove
    BY <1>42 DEF ExitRemove
  <1>43. ASSUME NEW r \in Req, ReadToEnd(r) PROVE Counted'
    BY <1>43, ReadToEndView
  <1>44. ASSUME NEW r \in Req, ReadBodyFails(r) PROVE Counted'
    BY <1>44, ReadBodyFailsView
  <1>45. ASSUME NEW r \in Req, CloseBody(r) PROVE Counted'
    BY <1>45, CloseBodyView
  <1>46. ASSUME NEW r \in Req, BodyReleased(r) PROVE Counted'
    BY <1>46, BodyReleasedEffect DEF BodyReleased
  <1>47. CASE Terminated
    BY <1>47 DEF Terminated, vars
  <1>q. QED
    BY <1>1, <1>2, <1>3, <1>4, <1>5, <1>6, <1>7, <1>8, <1>9, <1>10, <1>11, <1>12, <1>13, <1>14,
         <1>15, <1>16, <1>17, <1>18, <1>19, <1>20, <1>21, <1>22, <1>23, <1>24, <1>25, <1>26,
         <1>27, <1>28, <1>29, <1>30, <1>31, <1>32, <1>33, <1>34, <1>35, <1>36, <1>37, <1>38,
         <1>39, <1>40, <1>41, <1>42, <1>43, <1>44, <1>45, <1>46, <1>47 DEF Next

-----------------------------------------------------------------------------
(* What is left on the wire, and of what went out in part.                 *)

\* An answer on the wire belongs to a request whose response readLoop has not
\* read, or is the body of the response that it has read.
Owned(x) ==
      /\ x.kind # "continue" => x.req \in srv.answered
      /\ \/ Unanswered(x.req)
         \/ /\ rl.at \in {"sendBody", "wait"} /\ rl.req = x.req
            /\ x.kind = "bytes" /\ call[rl.req].body # "eof"

\* A request that the server can still answer is one whose response is
\* expected.
Answerable ==
   LoopLives => \A r \in Req :
      (r \in sent.begun \/ Unwritten(r)) /\ r \notin srv.answered => Unanswered(r)

\* writeLoop is in the middle of the request, or met an error in it.
WritingStill(r) == w.req = r /\ (w.at \in {"await", "part"} \/ (w.at = "report" /\ w.res = "failed"))

\* The writer of a body is told to stop only by a response that ends the
\* connection.
NotSkipped == \A r \in Req : call[r].cont = "closed" => ~LoopLives

\* A request of which only a part went out is being written, or its failure is
\* on the way to readLoop.
Partial ==
   LoopLives /\ pc.closed = None =>
      /\ \A r \in sent.begun \ sent.whole : WritingStill(r) \/ ch.err = <<"failed">>
      /\ w.at = "tell" /\ w.res = "failed" => ch.err = <<"failed">>

\* Every step keeps it so that a body skipped ends the connection,
LEMMA NotSkippedStep ==
  ASSUME Types, Serve, ReadOrder, NotSkipped, Next PROVE NotSkipped'
  <1>. USE RequestKinds DEF HasBody, Closing, NotSkipped, ReadOrder, Keeps, AllKeep, Others,
       MovesTo, Continues, BodyMoves, PcKeeps, Breaks, RlTo, Types, Serve, ChRec, WRec, RlRec,
       PcRec, Serving, WithResponse, Unwritten, Unanswered, InHand, Busy, LoopLives
  <1>1. ASSUME NEW r \in Req, Acquire(r) PROVE NotSkipped'
    BY <1>1, AcquireEffect DEF Acquire
  <1>2. ASSUME NEW r \in Req, ExpectResponse(r) PROVE NotSkipped'
    BY <1>2, ExpectResponseEffect DEF ExpectResponse
  <1>3. ASSUME NEW r \in Req, SendToWriteLoop(r) PROVE NotSkipped'
    BY <1>3, SendToWriteLoopView
  <1>4. ASSUME NEW r \in Req, SendToReadLoop(r) PROVE NotSkipped'
    BY <1>4, SendToReadLoopEffect DEF SendToReadLoop
  <1>5. ASSUME NEW r \in Req, WriteReported(r) PROVE NotSkipped'
    BY <1>5, WriteReportedView
  <1>6. ASSUME NEW r \in Req, ConnClosed(r) PROVE NotSkipped'
    BY <1>6, ConnClosedView
  <1>7. ASSUME NEW r \in Req, HeaderTimeout(r) PROVE NotSkipped'
    BY <1>7, HeaderTimeoutView
  <1>8. ASSUME NEW r \in Req, CtxDone(r) PROVE NotSkipped'
    BY <1>8, CtxDoneView
  <1>9. ASSUME NEW r \in Req, UserCancels(r) PROVE NotSkipped'
    BY <1>9, UserCancelsEffect DEF UserCancels
  <1>10. ASSUME NEW r \in Req, MapError(r) PROVE NotSkipped'
    BY <1>10, MapErrorView
  <1>11. CASE TakeWrite
    BY <1>11, TakeWriteView
  <1>12. CASE WriteLoopClosed
    BY <1>12 DEF WriteLoopClosed
  <1>13. CASE WritePart
    BY <1>13 DEF WritePart, Open
  <1>14. CASE WaitForContinue
    BY <1>14, WaitForContinueView
  <1>15. CASE WriteRest
    BY <1>15 DEF WriteRest, Open
  <1>16. CASE WriteFails
    BY <1>16, WriteFailsEffect DEF WriteFails
  <1>17. CASE ReportWrite
    BY <1>17 DEF ReportWrite
  <1>18. CASE TellCaller
    BY <1>18, TellCallerView
  <1>19. ASSUME NEW r \in Req, ServerContinues(r) PROVE NotSkipped'
    BY <1>19 DEF ServerContinues, Bytes, Open
  <1>20. ASSUME NEW r \in Req, NEW kind \in Answers, ServerAnswers(r, kind) PROVE NotSkipped'
    BY <1>20 DEF ServerAnswers, Bytes, Open
  <1>21. ASSUME NEW r \in Req, NEW kind \in Answers, ServerCutsOff(r, kind) PROVE NotSkipped'
    BY <1>21 DEF ServerCutsOff, Bytes, Open
  <1>22. CASE ServerTimesOut
    BY <1>22 DEF ServerTimesOut, Bytes, Open
  <1>23. CASE ServerHangsUp
    BY <1>23 DEF ServerHangsUp
  <1>24. CASE PoolCloses
    BY <1>24, PoolClosesView
  <1>25. ASSUME NEW ok \in BOOLEAN, Peek(ok) PROVE NotSkipped'
    BY <1>25, PeekView
  <1>26. CASE TakeRequest
    BY <1>26, TakeRequestView
  <1>27. CASE ReadContinue
    BY <1>27, ReadContinueEffect DEF ReadContinue
  <1>28. CASE ReadFinal
    BY <1>28, ReadFinalView
  <1>29. CASE ReadFails
    BY <1>29 DEF ReadFails
  <1>30. CASE DeliverError
    BY <1>30, DeliverErrorView
  <1>31. CASE CallerGone
    BY <1>31 DEF CallerGone
  <1>32. CASE WroteRequest
    BY <1>32, WroteRequestView DEF Decided
  <1>33. CASE TryPutIdleConn
    BY <1>33, TryPutIdleConnView DEF Decided
  <1>34. CASE Deliver
    BY <1>34, DeliverView
  <1>35. CASE DeliverBody
    BY <1>35, DeliverBodyView
  <1>36. CASE BodyRead
    BY <1>36, BodyReadView
  <1>37. CASE BodyCanceled
    BY <1>37, BodyCanceledView
  <1>38. CASE BodyConnClosed
    BY <1>38, BodyConnClosedView
  <1>39. CASE ReleaseBodyReader
    BY <1>39, ReleaseBodyReaderView
  <1>40. CASE CloseEofc
    BY <1>40 DEF CloseEofc
  <1>41. CASE ExitClose
    BY <1>41, ExitCloseView
  <1>42. CASE ExitRemove
    BY <1>42 DEF ExitRemove
  <1>43. ASSUME NEW r \in Req, ReadToEnd(r) PROVE NotSkipped'
    BY <1>43, ReadToEndView
  <1>44. ASSUME NEW r \in Req, ReadBodyFails(r) PROVE NotSkipped'
    BY <1>44, ReadBodyFailsView
  <1>45. ASSUME NEW r \in Req, CloseBody(r) PROVE NotSkipped'
    BY <1>45, CloseBodyView
  <1>46. ASSUME NEW r \in Req, BodyReleased(r) PROVE NotSkipped'
    BY <1>46, BodyReleasedEffect DEF BodyReleased
  <1>47. CASE Terminated
    BY <1>47 DEF Terminated, vars
  <1>q. QED
    BY <1>1, <1>2, <1>3, <1>4, <1>5, <1>6, <1>7, <1>8, <1>9, <1>10, <1>11, <1>12, <1>13, <1>14,
         <1>15, <1>16, <1>17, <1>18, <1>19, <1>20, <1>21, <1>22, <1>23, <1>24, <1>25, <1>26,
         <1>27, <1>28, <1>29, <1>30, <1>31, <1>32, <1>33, <1>34, <1>35, <1>36, <1>37, <1>38,
         <1>39, <1>40, <1>41, <1>42, <1>43, <1>44, <1>45, <1>46, <1>47 DEF Next

\* and that a request written in part does.
LEMMA PartialStep ==
  ASSUME Types, Serve, WriteOrder, ReadOrder, NotSkipped, Partial, Next PROVE Partial'
  <1>. USE RequestKinds DEF HasBody, NotSkipped, ReadOrder, WriteOrder, Partial, WritingStill,
       SentRec, Keeps, AllKeep, Others, MovesTo, Continues, BodyMoves, PcKeeps, Breaks, RlTo,
       Types, Serve, ChRec, WRec, RlRec, PcRec, Serving, WithResponse, Unwritten, Unanswered,
       InHand, Busy, LoopLives
  <1>1. ASSUME NEW r \in Req, Acquire(r) PROVE Partial'
    BY <1>1, AcquireEffect DEF Acquire
  <1>2. ASSUME NEW r \in Req, ExpectResponse(r) PROVE Partial'
    BY <1>2, ExpectResponseEffect DEF ExpectResponse
  <1>3. ASSUME NEW r \in Req, SendToWriteLoop(r) PROVE Partial'
    BY <1>3, SendToWriteLoopView
  <1>4. ASSUME NEW r \in Req, SendToReadLoop(r) PROVE Partial'
    BY <1>4, SendToReadLoopEffect DEF SendToReadLoop
  <1>5. ASSUME NEW r \in Req, WriteReported(r) PROVE Partial'
    BY <1>5, WriteReportedView
  <1>6. ASSUME NEW r \in Req, ConnClosed(r) PROVE Partial'
    BY <1>6, ConnClosedView
  <1>7. ASSUME NEW r \in Req, HeaderTimeout(r) PROVE Partial'
    BY <1>7, HeaderTimeoutView
  <1>8. ASSUME NEW r \in Req, CtxDone(r) PROVE Partial'
    BY <1>8, CtxDoneView
  <1>9. ASSUME NEW r \in Req, UserCancels(r) PROVE Partial'
    BY <1>9, UserCancelsEffect DEF UserCancels
  <1>10. ASSUME NEW r \in Req, MapError(r) PROVE Partial'
    BY <1>10, MapErrorView
  <1>11. CASE TakeWrite
    BY <1>11, TakeWriteView
  <1>12. CASE WriteLoopClosed
    BY <1>12 DEF WriteLoopClosed
  <1>13. CASE WritePart
    BY <1>13 DEF WritePart, Open
  <1>14. CASE WaitForContinue
    BY <1>14, WaitForContinueView
  <1>15. CASE WriteRest
    BY <1>15 DEF WriteRest, Open
  <1>16. CASE WriteFails
    BY <1>16, WriteFailsEffect DEF WriteFails
  <1>17. CASE ReportWrite
    BY <1>17 DEF ReportWrite
  <1>18. CASE TellCaller
    BY <1>18, TellCallerView
  <1>19. ASSUME NEW r \in Req, ServerContinues(r) PROVE Partial'
    BY <1>19 DEF ServerContinues, Bytes, Open
  <1>20. ASSUME NEW r \in Req, NEW kind \in Answers, ServerAnswers(r, kind) PROVE Partial'
    BY <1>20 DEF ServerAnswers, Bytes, Open
  <1>21. ASSUME NEW r \in Req, NEW kind \in Answers, ServerCutsOff(r, kind) PROVE Partial'
    BY <1>21 DEF ServerCutsOff, Bytes, Open
  <1>22. CASE ServerTimesOut
    BY <1>22 DEF ServerTimesOut, Bytes, Open
  <1>23. CASE ServerHangsUp
    BY <1>23 DEF ServerHangsUp
  <1>24. CASE PoolCloses
    BY <1>24, PoolClosesView
  <1>25. ASSUME NEW ok \in BOOLEAN, Peek(ok) PROVE Partial'
    BY <1>25, PeekView
  <1>26. CASE TakeRequest
    BY <1>26, TakeRequestView
  <1>27. CASE ReadContinue
    BY <1>27, ReadContinueEffect DEF ReadContinue
  <1>28. CASE ReadFinal
    BY <1>28, ReadFinalView
  <1>29. CASE ReadFails
    BY <1>29 DEF ReadFails
  <1>30. CASE DeliverError
    BY <1>30, DeliverErrorView
  <1>31. CASE CallerGone
    BY <1>31 DEF CallerGone
  <1>32. CASE WroteRequest
    BY <1>32, WroteRequestView DEF Decided
  <1>33. CASE TryPutIdleConn
    BY <1>33, TryPutIdleConnView DEF Decided
  <1>34. CASE Deliver
    BY <1>34, DeliverView
  <1>35. CASE DeliverBody
    BY <1>35, DeliverBodyView
  <1>36. CASE BodyRead
    BY <1>36, BodyReadView
  <1>37. CASE BodyCanceled
    BY <1>37, BodyCanceledView
  <1>38. CASE BodyConnClosed
    BY <1>38, BodyConnClosedView
  <1>39. CASE ReleaseBodyReader
    BY <1>39, ReleaseBodyReaderView
  <1>40. CASE CloseEofc
    BY <1>40 DEF CloseEofc
  <1>41. CASE ExitClose
    BY <1>41, ExitCloseView
  <1>42. CASE ExitRemove
    BY <1>42 DEF ExitRemove
  <1>43. ASSUME NEW r \in Req, ReadToEnd(r) PROVE Partial'
    BY <1>43, ReadToEndView
  <1>44. ASSUME NEW r \in Req, ReadBodyFails(r) PROVE Partial'
    BY <1>44, ReadBodyFailsView
  <1>45. ASSUME NEW r \in Req, CloseBody(r) PROVE Partial'
    BY <1>45, CloseBodyView
  <1>46. ASSUME NEW r \in Req, BodyReleased(r) PROVE Partial'
    BY <1>46, BodyReleasedEffect DEF BodyReleased
  <1>47. CASE Terminated
    BY <1>47 DEF Terminated, vars
  <1>q. QED
    BY <1>1, <1>2, <1>3, <1>4, <1>5, <1>6, <1>7, <1>8, <1>9, <1>10, <1>11, <1>12, <1>13, <1>14,
         <1>15, <1>16, <1>17, <1>18, <1>19, <1>20, <1>21, <1>22, <1>23, <1>24, <1>25, <1>26,
         <1>27, <1>28, <1>29, <1>30, <1>31, <1>32, <1>33, <1>34, <1>35, <1>36, <1>37, <1>38,
         <1>39, <1>40, <1>41, <1>42, <1>43, <1>44, <1>45, <1>46, <1>47 DEF Next

\* The wire: a 408 of an idle connection is the last that the server sends, and
\* the answers to a request are 1xx responses before the final one, then its
\* body.
WellOrdered ==
   \A i \in DOMAIN srv.wire :
      /\ srv.wire[i].req = None => i = Len(srv.wire) /\ srv.wire[i].kind = "last" /\ srv.eof
      /\ \A j \in DOMAIN srv.wire : i < j /\ srv.wire[j].req # None =>
            \/ srv.wire[i].kind = "continue"
            \/ srv.wire[i].kind \in HasBody /\ srv.wire[j].kind = "bytes"

\* Every answer on the wire has its owner.
AllOwned == \A x \in OnWire : (\E i \in DOMAIN srv.wire : srv.wire[i] = x) /\ x.req # None => Owned(x)

\* So it is while readLoop may go on to another response.
WireInv == LoopLives => WellOrdered /\ AllOwned

\* readLoop does not come back to life.
LEMMA LivesStep == ASSUME Types, Serve, ReadOrder, Next, LoopLives' PROVE LoopLives

  <1>. USE RequestKinds DEF HasBody, ReadOrder, Keeps, AllKeep, Others, MovesTo, Continues,
       BodyMoves, PcKeeps, Breaks, RlTo, Types, Serve, ChRec, WRec, RlRec, PcRec, Serving,
       WithResponse, Unwritten, Unanswered, InHand, Busy, LoopLives
  <1>1. ASSUME NEW r \in Req, Acquire(r) PROVE LoopLives
    BY <1>1, AcquireEffect DEF Acquire
  <1>2. ASSUME NEW r \in Req, ExpectResponse(r) PROVE LoopLives
    BY <1>2, ExpectResponseEffect DEF ExpectResponse
  <1>3. ASSUME NEW r \in Req, SendToWriteLoop(r) PROVE LoopLives
    BY <1>3, SendToWriteLoopView
  <1>4. ASSUME NEW r \in Req, SendToReadLoop(r) PROVE LoopLives
    BY <1>4, SendToReadLoopEffect DEF SendToReadLoop
  <1>5. ASSUME NEW r \in Req, WriteReported(r) PROVE LoopLives
    BY <1>5, WriteReportedView
  <1>6. ASSUME NEW r \in Req, ConnClosed(r) PROVE LoopLives
    BY <1>6, ConnClosedView
  <1>7. ASSUME NEW r \in Req, HeaderTimeout(r) PROVE LoopLives
    BY <1>7, HeaderTimeoutView
  <1>8. ASSUME NEW r \in Req, CtxDone(r) PROVE LoopLives
    BY <1>8, CtxDoneView
  <1>9. ASSUME NEW r \in Req, UserCancels(r) PROVE LoopLives
    BY <1>9, UserCancelsEffect DEF UserCancels
  <1>10. ASSUME NEW r \in Req, MapError(r) PROVE LoopLives
    BY <1>10, MapErrorView
  <1>11. CASE TakeWrite
    BY <1>11, TakeWriteView
  <1>12. CASE WriteLoopClosed
    BY <1>12 DEF WriteLoopClosed
  <1>13. CASE WritePart
    BY <1>13 DEF WritePart, Open
  <1>14. CASE WaitForContinue
    BY <1>14, WaitForContinueView
  <1>15. CASE WriteRest
    BY <1>15 DEF WriteRest, Open
  <1>16. CASE WriteFails
    BY <1>16, WriteFailsEffect DEF WriteFails
  <1>17. CASE ReportWrite
    BY <1>17 DEF ReportWrite
  <1>18. CASE TellCaller
    BY <1>18, TellCallerView
  <1>19. ASSUME NEW r \in Req, ServerContinues(r) PROVE LoopLives
    BY <1>19 DEF ServerContinues, Bytes, Open
  <1>20. ASSUME NEW r \in Req, NEW kind \in Answers, ServerAnswers(r, kind) PROVE LoopLives
    BY <1>20 DEF ServerAnswers, Bytes, Open
  <1>21. ASSUME NEW r \in Req, NEW kind \in Answers, ServerCutsOff(r, kind) PROVE LoopLives
    BY <1>21 DEF ServerCutsOff, Bytes, Open
  <1>22. CASE ServerTimesOut
    BY <1>22 DEF ServerTimesOut, Bytes, Open
  <1>23. CASE ServerHangsUp
    BY <1>23 DEF ServerHangsUp
  <1>24. CASE PoolCloses
    BY <1>24, PoolClosesView
  <1>25. ASSUME NEW ok \in BOOLEAN, Peek(ok) PROVE LoopLives
    BY <1>25, PeekView
  <1>26. CASE TakeRequest
    BY <1>26, TakeRequestView
  <1>27. CASE ReadContinue
    BY <1>27, ReadContinueEffect DEF ReadContinue
  <1>28. CASE ReadFinal
    BY <1>28, ReadFinalView
  <1>29. CASE ReadFails
    BY <1>29 DEF ReadFails
  <1>30. CASE DeliverError
    BY <1>30, DeliverErrorView
  <1>31. CASE CallerGone
    BY <1>31 DEF CallerGone
  <1>32. CASE WroteRequest
    BY <1>32, WroteRequestView DEF Decided
  <1>33. CASE TryPutIdleConn
    BY <1>33, TryPutIdleConnView DEF Decided
  <1>34. CASE Deliver
    BY <1>34, DeliverView
  <1>35. CASE DeliverBody
    BY <1>35, DeliverBodyView
  <1>36. CASE BodyRead
    BY <1>36, BodyReadView
  <1>37. CASE BodyCanceled
    BY <1>37, BodyCanceledView
  <1>38. CASE BodyConnClosed
    BY <1>38, BodyConnClosedView
  <1>39. CASE ReleaseBodyReader
    BY <1>39, ReleaseBodyReaderView
  <1>40. CASE CloseEofc
    BY <1>40 DEF CloseEofc
  <1>41. CASE ExitClose
    BY <1>41, ExitCloseView
  <1>42. CASE ExitRemove
    BY <1>42 DEF ExitRemove
  <1>43. ASSUME NEW r \in Req, ReadToEnd(r) PROVE LoopLives
    BY <1>43, ReadToEndView
  <1>44. ASSUME NEW r \in Req, ReadBodyFails(r) PROVE LoopLives
    BY <1>44, ReadBodyFailsView
  <1>45. ASSUME NEW r \in Req, CloseBody(r) PROVE LoopLives
    BY <1>45, CloseBodyView
  <1>46. ASSUME NEW r \in Req, BodyReleased(r) PROVE LoopLives
    BY <1>46, BodyReleasedEffect DEF BodyReleased
  <1>47. CASE Terminated
    BY <1>47 DEF Terminated, vars
  <1>q. QED
    BY <1>1, <1>2, <1>3, <1>4, <1>5, <1>6, <1>7, <1>8, <1>9, <1>10, <1>11, <1>12, <1>13, <1>14,
         <1>15, <1>16, <1>17, <1>18, <1>19, <1>20, <1>21, <1>22, <1>23, <1>24, <1>25, <1>26,
         <1>27, <1>28, <1>29, <1>30, <1>31, <1>32, <1>33, <1>34, <1>35, <1>36, <1>37, <1>38,
         <1>39, <1>40, <1>41, <1>42, <1>43, <1>44, <1>45, <1>46, <1>47 DEF Next

\* One answer is read from the wire.
WirePopped ==
    /\ srv.wire # <<>> /\ srv'.wire = Tail(srv.wire)
    /\ srv'.eof = srv.eof /\ srv'.answered = srv.answered

\* The wire after a read,
LEMMA Popped ==
  ASSUME Types, WirePopped
  PROVE  /\ Len(srv.wire) \in Nat \ {0} /\ 1 \in DOMAIN srv.wire /\ Head(srv.wire) = srv.wire[1]
         /\ Len(srv'.wire) = Len(srv.wire) - 1
         /\ \A i \in DOMAIN srv'.wire : /\ i \in Nat /\ i + 1 \in DOMAIN srv.wire /\ 1 < i + 1
                                        /\ srv'.wire[i] = srv.wire[i + 1]
  BY DEF Types, SrvRec, Wire, WirePopped

\* and after the server has sent one answer.
LEMMA Pushed ==
  ASSUME Types, NEW x \in OnWire, srv'.wire = Append(srv.wire, x)
  PROVE  /\ Len(srv'.wire) = Len(srv.wire) + 1 /\ Len(srv.wire) \in Nat
         /\ DOMAIN srv'.wire = DOMAIN srv.wire \cup {Len(srv'.wire)}
         /\ srv'.wire[Len(srv'.wire)] = x
         /\ DOMAIN srv.wire \subseteq Nat
         /\ \A i \in DOMAIN srv.wire : i < Len(srv'.wire) /\ srv'.wire[i] = srv.wire[i]
  BY DEF Types, SrvRec, Wire

\* An answer is to a request, or to none.
LEMMA OnWireReq ==
  ASSUME Types, NEW i \in DOMAIN srv.wire
  PROVE  srv.wire[i] \in OnWire /\ srv.wire[i].req \in Req \cup {None}
  <1>1. srv.wire \in Seq(OnWire) BY DEF Types, SrvRec, Wire
  <1>2. srv.wire[i] \in OnWire BY <1>1
  <1>. QED BY <1>2 DEF OnWire, SomeReq

\* Every step keeps the requests that the server can answer among the expected
\* ones.
LEMMA AnswerableStep ==
  ASSUME Types, Serve, WriteOrder, ReadOrder, WireInv, Alone, Answerable, Next PROVE Answerable'

  <1>. USE RequestKinds DEF HasBody, Answerable, WriteOrder, ReadOrder, SentRec, Keeps, AllKeep,
       Others, MovesTo, Continues, BodyMoves, PcKeeps, Breaks, RlTo, Types, Serve, ChRec, WRec,
       RlRec, PcRec, Serving, WithResponse, Unwritten, Unanswered, InHand, Busy, LoopLives
  <1>1. ASSUME NEW r \in Req, Acquire(r) PROVE Answerable'
    BY <1>1, AcquireEffect DEF Acquire
  <1>2. ASSUME NEW r \in Req, ExpectResponse(r) PROVE Answerable'
    BY <1>2, ExpectResponseEffect DEF ExpectResponse
  <1>3. ASSUME NEW r \in Req, SendToWriteLoop(r) PROVE Answerable'
    BY <1>3, SendToWriteLoopView
  <1>4. ASSUME NEW r \in Req, SendToReadLoop(r) PROVE Answerable'
    BY <1>4, SendToReadLoopEffect DEF SendToReadLoop
  <1>5. ASSUME NEW r \in Req, WriteReported(r) PROVE Answerable'
    BY <1>5, WriteReportedView
  <1>6. ASSUME NEW r \in Req, ConnClosed(r) PROVE Answerable'
    BY <1>6, ConnClosedView
  <1>7. ASSUME NEW r \in Req, HeaderTimeout(r) PROVE Answerable'
    BY <1>7, HeaderTimeoutView
  <1>8. ASSUME NEW r \in Req, CtxDone(r) PROVE Answerable'
    BY <1>8, CtxDoneView
  <1>9. ASSUME NEW r \in Req, UserCancels(r) PROVE Answerable'
    BY <1>9, UserCancelsEffect DEF UserCancels
  <1>10. ASSUME NEW r \in Req, MapError(r) PROVE Answerable'
    BY <1>10, MapErrorView
  <1>11. CASE TakeWrite
    BY <1>11, TakeWriteView
  <1>12. CASE WriteLoopClosed
    BY <1>12 DEF WriteLoopClosed
  <1>13. CASE WritePart
    BY <1>13 DEF WritePart, Open
  <1>14. CASE WaitForContinue
    BY <1>14, WaitForContinueView
  <1>15. CASE WriteRest
    BY <1>15 DEF WriteRest, Open
  <1>16. CASE WriteFails
    BY <1>16, WriteFailsEffect DEF WriteFails
  <1>17. CASE ReportWrite
    BY <1>17 DEF ReportWrite
  <1>18. CASE TellCaller
    BY <1>18, TellCallerView
  <1>19. ASSUME NEW r \in Req, ServerContinues(r) PROVE Answerable'
    BY <1>19 DEF ServerContinues, Bytes, Open, SrvRec
  <1>20. ASSUME NEW r \in Req, NEW kind \in Answers, ServerAnswers(r, kind) PROVE Answerable'
    BY <1>20 DEF ServerAnswers, Bytes, Open, SrvRec
  <1>21. ASSUME NEW r \in Req, NEW kind \in Answers, ServerCutsOff(r, kind) PROVE Answerable'
    BY <1>21 DEF ServerCutsOff, Bytes, Open, SrvRec
  <1>22. CASE ServerTimesOut
    BY <1>22 DEF ServerTimesOut, Bytes, Open, SrvRec
  <1>23. CASE ServerHangsUp
    BY <1>23 DEF ServerHangsUp, SrvRec
  <1>24. CASE PoolCloses
    BY <1>24, PoolClosesView
  <1>25. ASSUME NEW ok \in BOOLEAN, Peek(ok) PROVE Answerable'
    BY <1>25, PeekView
  <1>26. CASE TakeRequest
    BY <1>26, TakeRequestView
  <1>27. CASE ReadContinue
    BY <1>27, ReadContinueEffect DEF ReadContinue, SrvRec
  <1>28. CASE ReadFinal
    <2>1. PICK resp \in Response :
            /\ rl.at = "read" /\ srv.wire # <<>> /\ resp = Head(srv.wire)
            /\ srv' = [srv EXCEPT !.wire = Tail(@)]
            /\ rl'.req = rl.req /\ rl'.resp = resp
            /\ rl'.alive <=> (resp.kind \in {"plain", "body"})
            /\ Continues(rl.req, IF resp.kind \in Closing THEN "closed" ELSE "full") \/ AllKeep
            /\ UNCHANGED <<ch, w, sent>>
      BY <1>28, ReadFinalView, Zenon
    <2>2. /\ srv.wire \in Seq(OnWire) /\ srv'.answered = srv.answered
          /\ srv'.wire = Tail(srv.wire)
      BY <2>1 DEF SrvRec, Wire
    <2>3. 1 \in DOMAIN srv.wire /\ Head(srv.wire) = srv.wire[1]
      BY <2>1, <2>2
    <2>4. SUFFICES ASSUME LoopLives' PROVE Answerable'
      BY DEF Answerable
    <2>5. LoopLives BY <2>1 DEF ReadOrder
    <2>6. resp.kind \in {"plain", "body"} BY <2>1, <2>4
    <2>7. Owned(resp) /\ resp.req \in Req
      BY <2>1, <2>3, <2>5, <2>6, OnWireReq DEF WireInv, AllOwned, WellOrdered
    <2>8. resp.req \in srv.answered /\ Unanswered(resp.req)
      BY <2>1, <2>6, <2>7 DEF Owned
    <2>9. resp.req = rl.req
      BY <2>1, <2>7, <2>8 DEF Alone
    <2>. QED BY <2>1, <2>2, <2>5, <2>8, <2>9
  <1>29. CASE ReadFails
    BY <1>29 DEF ReadFails
  <1>30. CASE DeliverError
    BY <1>30, DeliverErrorView
  <1>31. CASE CallerGone
    BY <1>31 DEF CallerGone
  <1>32. CASE WroteRequest
    BY <1>32, WroteRequestView DEF Decided
  <1>33. CASE TryPutIdleConn
    BY <1>33, TryPutIdleConnView DEF Decided
  <1>34. CASE Deliver
    BY <1>34, DeliverView
  <1>35. CASE DeliverBody
    BY <1>35, DeliverBodyView
  <1>36. CASE BodyRead
    BY <1>36, BodyReadView
  <1>37. CASE BodyCanceled
    BY <1>37, BodyCanceledView
  <1>38. CASE BodyConnClosed
    BY <1>38, BodyConnClosedView
  <1>39. CASE ReleaseBodyReader
    BY <1>39, ReleaseBodyReaderView
  <1>40. CASE CloseEofc
    BY <1>40 DEF CloseEofc
  <1>41. CASE ExitClose
    BY <1>41, ExitCloseView
  <1>42. CASE ExitRemove
    BY <1>42 DEF ExitRemove
  <1>43. ASSUME NEW r \in Req, ReadToEnd(r) PROVE Answerable'
    BY <1>43, ReadToEndView DEF SrvRec
  <1>44. ASSUME NEW r \in Req, ReadBodyFails(r) PROVE Answerable'
    BY <1>44, ReadBodyFailsView
  <1>45. ASSUME NEW r \in Req, CloseBody(r) PROVE Answerable'
    BY <1>45, CloseBodyView
  <1>46. ASSUME NEW r \in Req, BodyReleased(r) PROVE Answerable'
    BY <1>46, BodyReleasedEffect DEF BodyReleased
  <1>47. CASE Terminated
    BY <1>47 DEF Terminated, vars
  <1>q. QED
    BY <1>1, <1>2, <1>3, <1>4, <1>5, <1>6, <1>7, <1>8, <1>9, <1>10, <1>11, <1>12, <1>13, <1>14,
         <1>15, <1>16, <1>17, <1>18, <1>19, <1>20, <1>21, <1>22, <1>23, <1>24, <1>25, <1>26,
         <1>27, <1>28, <1>29, <1>30, <1>31, <1>32, <1>33, <1>34, <1>35, <1>36, <1>37, <1>38,
         <1>39, <1>40, <1>41, <1>42, <1>43, <1>44, <1>45, <1>46, <1>47 DEF Next

\* An answer that is not read keeps its owner.
LEMMA OwnedStep ==
  ASSUME Types, Serve, WriteOrder, ReadOrder, BodyOrder, Next, LoopLives', NEW x,
         x.req \in Req, Owned(x),
         ~ReadFinal, \A r \in Req : ~ReadToEnd(r)
  PROVE  Owned(x)'
  <1>. USE RequestKinds, SignalValues DEF HasBody, Owned, ReadOrder, BodyOrder, BodyOf,
       BeforeBody, SrvRec, Keeps, AllKeep, Others, MovesTo, Continues, BodyMoves, PcKeeps,
       Breaks, RlTo, Types, Serve, ChRec, WRec, RlRec, PcRec, Serving, WithResponse, Unwritten,
       Unanswered, InHand, Busy, LoopLives
  <1>1. ASSUME NEW r \in Req, Acquire(r) PROVE Owned(x)'
    BY <1>1, AcquireEffect DEF Acquire
  <1>2. ASSUME NEW r \in Req, ExpectResponse(r) PROVE Owned(x)'
    BY <1>2, ExpectResponseEffect DEF ExpectResponse
  <1>3. ASSUME NEW r \in Req, SendToWriteLoop(r) PROVE Owned(x)'
    BY <1>3, SendToWriteLoopView
  <1>4. ASSUME NEW r \in Req, SendToReadLoop(r) PROVE Owned(x)'
    BY <1>4, SendToReadLoopEffect DEF SendToReadLoop
  <1>5. ASSUME NEW r \in Req, WriteReported(r) PROVE Owned(x)'
    BY <1>5, WriteReportedView
  <1>6. ASSUME NEW r \in Req, ConnClosed(r) PROVE Owned(x)'
    BY <1>6, ConnClosedView
  <1>7. ASSUME NEW r \in Req, HeaderTimeout(r) PROVE Owned(x)'
    BY <1>7, HeaderTimeoutView
  <1>8. ASSUME NEW r \in Req, CtxDone(r) PROVE Owned(x)'
    BY <1>8, CtxDoneView
  <1>9. ASSUME NEW r \in Req, UserCancels(r) PROVE Owned(x)'
    BY <1>9, UserCancelsEffect DEF UserCancels
  <1>10. ASSUME NEW r \in Req, MapError(r) PROVE Owned(x)'
    BY <1>10, MapErrorView
  <1>11. CASE TakeWrite
    BY <1>11, TakeWriteView
  <1>12. CASE WriteLoopClosed
    BY <1>12 DEF WriteLoopClosed
  <1>13. CASE WritePart
    BY <1>13 DEF WritePart, Open
  <1>14. CASE WaitForContinue
    BY <1>14, WaitForContinueView
  <1>15. CASE WriteRest
    BY <1>15 DEF WriteRest, Open
  <1>16. CASE WriteFails
    BY <1>16, WriteFailsEffect DEF WriteFails
  <1>17. CASE ReportWrite
    BY <1>17 DEF ReportWrite
  <1>18. CASE TellCaller
    BY <1>18, TellCallerView
  <1>19. ASSUME NEW r \in Req, ServerContinues(r) PROVE Owned(x)'
    BY <1>19 DEF ServerContinues, Bytes, Open
  <1>20. ASSUME NEW r \in Req, NEW kind \in Answers, ServerAnswers(r, kind) PROVE Owned(x)'
    BY <1>20 DEF ServerAnswers, Bytes, Open
  <1>21. ASSUME NEW r \in Req, NEW kind \in Answers, ServerCutsOff(r, kind) PROVE Owned(x)'
    BY <1>21 DEF ServerCutsOff, Bytes, Open
  <1>22. CASE ServerTimesOut
    BY <1>22 DEF ServerTimesOut, Bytes, Open
  <1>23. CASE ServerHangsUp
    BY <1>23 DEF ServerHangsUp
  <1>24. CASE PoolCloses
    BY <1>24, PoolClosesView
  <1>25. ASSUME NEW ok \in BOOLEAN, Peek(ok) PROVE Owned(x)'
    BY <1>25, PeekView
  <1>26. CASE TakeRequest
    BY <1>26, TakeRequestView
  <1>27. CASE ReadContinue
    BY <1>27, ReadContinueEffect DEF ReadContinue
  <1>28. CASE ReadFinal
    BY <1>28, ReadFinalView
  <1>29. CASE ReadFails
    BY <1>29 DEF ReadFails
  <1>30. CASE DeliverError
    BY <1>30, DeliverErrorView
  <1>31. CASE CallerGone
    BY <1>31 DEF CallerGone
  <1>32. CASE WroteRequest
    BY <1>32, WroteRequestView DEF Decided
  <1>33. CASE TryPutIdleConn
    BY <1>33, TryPutIdleConnView DEF Decided
  <1>34. CASE Deliver
    BY <1>34, DeliverView
  <1>35. CASE DeliverBody
    BY <1>35, DeliverBodyView
  <1>36. CASE BodyRead
    BY <1>36, BodyReadView
  <1>37. CASE BodyCanceled
    BY <1>37, BodyCanceledView
  <1>38. CASE BodyConnClosed
    BY <1>38, BodyConnClosedView
  <1>39. CASE ReleaseBodyReader
    BY <1>39, ReleaseBodyReaderView
  <1>40. CASE CloseEofc
    BY <1>40 DEF CloseEofc
  <1>41. CASE ExitClose
    BY <1>41, ExitCloseView
  <1>42. CASE ExitRemove
    BY <1>42 DEF ExitRemove
  <1>43. ASSUME NEW r \in Req, ReadToEnd(r) PROVE Owned(x)'
    BY <1>43, ReadToEndView
  <1>44. ASSUME NEW r \in Req, ReadBodyFails(r) PROVE Owned(x)'
    BY <1>44, ReadBodyFailsView
  <1>45. ASSUME NEW r \in Req, CloseBody(r) PROVE Owned(x)'
    BY <1>45, CloseBodyView
  <1>46. ASSUME NEW r \in Req, BodyReleased(r) PROVE Owned(x)'
    BY <1>46, BodyReleasedEffect DEF BodyReleased
  <1>47. CASE Terminated
    BY <1>47 DEF Terminated, vars
  <1>q. QED
    BY <1>1, <1>2, <1>3, <1>4, <1>5, <1>6, <1>7, <1>8, <1>9, <1>10, <1>11, <1>12, <1>13, <1>14,
         <1>15, <1>16, <1>17, <1>18, <1>19, <1>20, <1>21, <1>22, <1>23, <1>24, <1>25, <1>26,
         <1>27, <1>28, <1>29, <1>30, <1>31, <1>32, <1>33, <1>34, <1>35, <1>36, <1>37, <1>38,
         <1>39, <1>40, <1>41, <1>42, <1>43, <1>44, <1>45, <1>46, <1>47 DEF Next

\* The wire is left alone.
WireKept == srv'.wire = srv.wire /\ (srv.eof => srv'.eof)

\* Who reads from the wire, and who writes to it.
LEMMA WireActions ==
  ASSUME Types, Next
  PROVE  \/ \E r \in Req : ServerContinues(r)
         \/ \E r \in Req, kind \in Answers : ServerAnswers(r, kind) \/ ServerCutsOff(r, kind)
         \/ ServerTimesOut \/ ReadContinue \/ ReadFinal
         \/ \E r \in Req : ReadToEnd(r)
         \/ WireKept

  BY Zenon DEF Next, WireKept, vars, Types, SrvRec, Acquire, ExpectResponse, SendToWriteLoop,
       SendToReadLoop, WriteReported, ConnClosed, HeaderTimeout, CtxDone, UserCancels, MapError,
       TakeWrite, WriteLoopClosed, WritePart, WaitForContinue, WriteRest, WriteFails,
       ReportWrite, TellCaller, ServerHangsUp, PoolCloses, Peek, TakeRequest, ReadFails,
       DeliverError, CallerGone, WroteRequest, TryPutIdleConn, Deliver, DeliverBody, BodyRead,
       BodyCanceled, BodyConnClosed, ReleaseBodyReader, CloseEofc, ExitClose, ExitRemove,
       ReadBodyFails, CloseBody, BodyReleased, Terminated

\* Sequences: two elements appended one by one,
LEMMA AppendTwo ==
  ASSUME NEW S, NEW s \in Seq(S), NEW x \in S, NEW y \in S
  PROVE  s \o <<x, y>> = Append(Append(s, x), y)
  OBVIOUS

\* the sequence after one is appended,
LEMMA AppendOne ==
  ASSUME NEW S, NEW s \in Seq(S), NEW x \in S
  PROVE  /\ Append(s, x) \in Seq(S) /\ Len(s) \in Nat /\ Len(Append(s, x)) = Len(s) + 1
         /\ DOMAIN s = 1 .. Len(s) /\ DOMAIN Append(s, x) = 1 .. (Len(s) + 1)
         /\ Append(s, x)[Len(s) + 1] = x
         /\ \A i \in 1 .. Len(s) : Append(s, x)[i] = s[i]
  OBVIOUS

\* and after two are.
LEMMA TwoMore ==
  ASSUME NEW S, NEW s \in Seq(S), NEW x \in S, NEW y \in S, NEW u, u = s \o <<x, y>>
  PROVE  /\ Len(u) = Len(s) + 2 /\ Len(s) \in Nat
         /\ DOMAIN u = DOMAIN s \cup {Len(s) + 1, Len(s) + 2}
         /\ u[Len(s) + 1] = x /\ u[Len(s) + 2] = y
         /\ DOMAIN s \subseteq Nat
         /\ \A i \in DOMAIN s : i < Len(s) + 1 /\ u[i] = s[i]
  <1>1. u = Append(Append(s, x), y) BY AppendTwo
  <1>2. PICK t \in Seq(S) : t = Append(s, x) BY AppendOne
  <1>3. /\ Len(s) \in Nat /\ Len(t) = Len(s) + 1 /\ DOMAIN s = 1 .. Len(s)
        /\ t[Len(s) + 1] = x /\ \A i \in 1 .. Len(s) : t[i] = s[i]
    BY <1>2, AppendOne
  <1>4. u = Append(t, y) BY <1>1, <1>2
  <1>5. /\ Len(u) = Len(t) + 1 /\ DOMAIN u = 1 .. (Len(t) + 1) /\ u[Len(t) + 1] = y
        /\ \A i \in 1 .. Len(t) : u[i] = t[i]
    BY <1>4, AppendOne
  <1>6. /\ Len(u) = Len(s) + 2 /\ u[Len(s) + 2] = y /\ u[Len(s) + 1] = x
    BY <1>3, <1>5
  <1>8. DOMAIN u = DOMAIN s \cup {Len(s) + 1, Len(s) + 2}
    <2>1. ASSUME NEW n \in Nat PROVE 1 .. (n + 2) = (1 .. n) \cup {n + 1, n + 2}
      <3>1. ASSUME NEW k \in 1 .. (n + 2) PROVE k \in (1 .. n) \cup {n + 1, n + 2} OBVIOUS
      <3>2. ASSUME NEW k \in 1 .. n PROVE k \in 1 .. (n + 2) OBVIOUS
      <3>3. n + 1 \in 1 .. (n + 2) /\ n + 2 \in 1 .. (n + 2) OBVIOUS
      <3>. QED BY <3>1, <3>2, <3>3, Zenon
    <2>2. DOMAIN u = 1 .. (Len(s) + 2)
      <3>1. Len(t) + 1 = Len(s) + 2 BY <1>3
      <3>. QED BY <1>5, <3>1, Zenon
    <2>. QED BY <1>3, <2>1, <2>2, Zenon
  <1>7. ASSUME NEW i \in DOMAIN s PROVE i \in Nat /\ i < Len(s) + 1 /\ u[i] = s[i]
    BY <1>3, <1>5
  <1>. QED BY <1>3, <1>6, <1>7, <1>8

\* The wire after the server has sent a response and its body.
LEMMA PushedTwo ==
  ASSUME Types, NEW x \in OnWire, NEW y \in OnWire, srv'.wire = srv.wire \o <<x, y>>
  PROVE  /\ Len(srv'.wire) = Len(srv.wire) + 2 /\ Len(srv.wire) \in Nat
         /\ DOMAIN srv'.wire = DOMAIN srv.wire \cup {Len(srv.wire) + 1, Len(srv.wire) + 2}
         /\ srv'.wire[Len(srv.wire) + 1] = x /\ srv'.wire[Len(srv.wire) + 2] = y
         /\ DOMAIN srv.wire \subseteq Nat
         /\ \A i \in DOMAIN srv.wire : i < Len(srv.wire) + 1 /\ srv'.wire[i] = srv.wire[i]
  <1>1. srv.wire \in Seq(OnWire) BY DEF Types, SrvRec, Wire
  <1>0. PICK s \in Seq(OnWire) : s = srv.wire BY <1>1
  <1>2. PICK u : s = srv.wire /\ u = srv'.wire BY <1>0
  <1>3. u = s \o <<x, y>> BY <1>2
  <1>4. /\ Len(u) = Len(s) + 2 /\ Len(s) \in Nat
        /\ DOMAIN u = DOMAIN s \cup {Len(s) + 1, Len(s) + 2}
        /\ u[Len(s) + 1] = x /\ u[Len(s) + 2] = y
        /\ DOMAIN s \subseteq Nat
        /\ \A i \in DOMAIN s : i < Len(s) + 1 /\ u[i] = s[i]
    BY <1>3, TwoMore
  <1>. QED BY <1>2, <1>4, Zenon

\* While a request waits for its answer, the wire holds nothing but 1xx
\* responses to it.
LEMMA AllContinue ==
  ASSUME Types, Alone, Answerable, LoopLives, WellOrdered, AllOwned,
         NEW r \in sent.begun \ srv.answered, r \in Req, ~srv.eof
  PROVE  /\ Unanswered(r)
         /\ \A i \in DOMAIN srv.wire : srv.wire[i].req = r /\ srv.wire[i].kind = "continue"
  <1>1. Unanswered(r) BY DEF Answerable
  <1>2. ASSUME NEW i \in DOMAIN srv.wire
        PROVE  srv.wire[i].req = r /\ srv.wire[i].kind = "continue"
    <2>1. srv.wire[i].req \in Req BY OnWireReq DEF WellOrdered
    <2>2. Owned(srv.wire[i]) BY <2>1, OnWireReq, RequestKinds DEF AllOwned
    <2>3. Busy(srv.wire[i].req) BY <2>2 DEF Owned, Busy, InHand
    <2>4. srv.wire[i].req = r BY <1>1, <2>1, <2>3 DEF Alone, Busy
    <2>. QED BY <2>2, <2>4 DEF Owned
  <1>. QED BY <1>1, <1>2

\* An answer that the server has just sent to an expected request has its
\* owner.
LEMMA OwnedHere ==
  ASSUME NEW x, UNCHANGED <<call, ch, rl>>, Unanswered(x.req),
         x.kind = "continue" \/ x.req \in srv'.answered
  PROVE  Owned(x)'
  BY DEF Owned, Unanswered

\* A step of the server does not read the wire.
LEMMA NotReading ==
  ASSUME Types, Serve, UNCHANGED <<call, rl>>
  PROVE  ~ReadFinal /\ \A r \in Req : ~ReadToEnd(r)
  <1>1. ASSUME ReadFinal PROVE FALSE
    BY <1>1, ReadFinalView DEF HasBody
  <1>2. ASSUME NEW r \in Req, ReadToEnd(r) PROVE FALSE
    BY <1>2, ReadToEndView DEF BodyMoves
  <1>. QED BY <1>1, <1>2

\* Every step keeps the order and the owners of the wire.
LEMMA WireInvStep ==
  ASSUME Types, Serve, WriteOrder, ReadOrder, BodyOrder, Alone, Answerable, WireInv, Next
  PROVE  WireInv'
  <1>1. SUFFICES ASSUME LoopLives' PROVE WellOrdered' /\ AllOwned'
    BY DEF WireInv
  <1>2. LoopLives /\ WellOrdered /\ AllOwned
    BY <1>1, LivesStep DEF WireInv
  <1>3. ASSUME ~ReadFinal, \A r \in Req : ~ReadToEnd(r), NEW x \in OnWire, x.req # None,
               NEW i \in DOMAIN srv.wire, srv.wire[i] = x
        PROVE  Owned(x)'
    <2>1. x.req \in Req /\ Owned(x) BY <1>2, <1>3, OnWireReq DEF AllOwned
    <2>. QED BY <1>1, <1>3, <2>1, OwnedStep
  <1>4. CASE WireKept /\ ~ReadFinal /\ \A r \in Req : ~ReadToEnd(r)
    BY <1>2, <1>3, <1>4 DEF WireKept, WellOrdered, AllOwned
  <1>5. ASSUME NEW r \in Req, NEW x \in OnWire, x.req = r, r \in sent.begun \ srv.answered,
               ~srv.eof,
               srv'.wire = Append(srv.wire, x),
               x.kind = "continue" \/ r \in srv'.answered,
               UNCHANGED <<call, ch, rl>>, ~ReadFinal, \A q \in Req : ~ReadToEnd(q)
        PROVE  WellOrdered' /\ AllOwned'
    <2>1. /\ Unanswered(r)
          /\ \A i \in DOMAIN srv.wire : srv.wire[i].req = r /\ srv.wire[i].kind = "continue"
      BY <1>2, <1>5, AllContinue
    <2>2. Owned(x)' BY <1>5, <2>1, OwnedHere
    <2>3. /\ Len(srv'.wire) = Len(srv.wire) + 1 /\ Len(srv.wire) \in Nat
          /\ DOMAIN srv'.wire = DOMAIN srv.wire \cup {Len(srv'.wire)}
          /\ srv'.wire[Len(srv'.wire)] = x
          /\ DOMAIN srv.wire \subseteq Nat
          /\ \A i \in DOMAIN srv.wire : i < Len(srv'.wire) /\ srv'.wire[i] = srv.wire[i]
      BY <1>5, Pushed
    <2>4. WellOrdered' BY <1>5, <2>1, <2>3, RequestKinds DEF WellOrdered
    <2>5. AllOwned' BY <1>3, <1>5, <2>2, <2>3 DEF AllOwned
    <2>. QED BY <2>4, <2>5
  <1>6. ASSUME NEW r \in Req, ServerContinues(r) PROVE WellOrdered' /\ AllOwned'
    <2>1. /\ Bytes(r, "continue") \in OnWire /\ Bytes(r, "continue").req = r
          /\ Bytes(r, "continue").kind = "continue"
      BY DEF Bytes, OnWire, SomeReq
    <2>2. srv'.wire = Append(srv.wire, Bytes(r, "continue"))
      BY <1>6 DEF ServerContinues, Types, SrvRec
    <2>3. /\ r \in sent.begun \ srv.answered /\ ~srv.eof /\ UNCHANGED <<call, ch, rl>>
      BY <1>6 DEF ServerContinues
    <2>. QED BY <1>5, <2>1, <2>2, <2>3, NotReading
  <1>7. ASSUME NEW r \in Req, NEW kind \in Answers, ServerAnswers(r, kind), kind \notin HasBody
        PROVE  WellOrdered' /\ AllOwned'
    <2>1. Bytes(r, kind) \in OnWire /\ Bytes(r, kind).req = r
      BY RequestKinds DEF Bytes, OnWire, SomeReq
    <2>2. srv'.wire = Append(srv.wire, Bytes(r, kind)) /\ r \in srv'.answered
      BY <1>7 DEF ServerAnswers, Types, SrvRec
    <2>3. /\ r \in sent.begun \ srv.answered /\ ~srv.eof /\ UNCHANGED <<call, ch, rl>>
      BY <1>7 DEF ServerAnswers
    <2>. QED BY <1>5, <2>1, <2>2, <2>3, NotReading
  <1>8. ASSUME NEW r \in Req, NEW kind \in Answers, ServerCutsOff(r, kind)
        PROVE  WellOrdered' /\ AllOwned'
    <2>1. Bytes(r, kind) \in OnWire /\ Bytes(r, kind).req = r
      BY RequestKinds DEF Bytes, OnWire, SomeReq
    <2>2. srv'.wire = Append(srv.wire, Bytes(r, kind)) /\ r \in srv'.answered
      BY <1>8 DEF ServerCutsOff, Types, SrvRec
    <2>3. /\ r \in sent.begun \ srv.answered /\ ~srv.eof /\ UNCHANGED <<call, ch, rl>>
      BY <1>8 DEF ServerCutsOff
    <2>. QED BY <1>5, <2>1, <2>2, <2>3, NotReading
  <1>9. ASSUME NEW r \in Req, NEW kind \in Answers, ServerAnswers(r, kind), kind \in HasBody
        PROVE  WellOrdered' /\ AllOwned'
    <2>1. PICK x \in OnWire, y \in OnWire : x = Bytes(r, kind) /\ y = Bytes(r, "bytes")
      BY RequestKinds DEF Bytes, OnWire, SomeReq
    <2>2. x.req = r /\ x.kind = kind /\ y.req = r /\ y.kind = "bytes"
      BY <2>1 DEF Bytes
    <2>3. srv'.wire = srv.wire \o <<x, y>> /\ r \in srv'.answered
      BY <1>9, <2>1 DEF ServerAnswers, Types, SrvRec
    <2>4. /\ r \in sent.begun \ srv.answered /\ ~srv.eof /\ UNCHANGED <<call, ch, rl>>
      BY <1>9 DEF ServerAnswers
    <2>5. /\ Unanswered(r)
          /\ \A i \in DOMAIN srv.wire : srv.wire[i].req = r /\ srv.wire[i].kind = "continue"
      BY <1>2, <2>4, AllContinue
    <2>6. Owned(x)' /\ Owned(y)'
      <3>1. /\ Unanswered(x.req) /\ Unanswered(y.req) /\ x.req \in srv'.answered
            /\ y.req \in srv'.answered
        BY <2>2, <2>3, <2>5
      <3>. QED BY <2>4, <3>1, OwnedHere
    <2>7. /\ Len(srv'.wire) = Len(srv.wire) + 2 /\ Len(srv.wire) \in Nat
          /\ DOMAIN srv'.wire = DOMAIN srv.wire \cup {Len(srv.wire) + 1, Len(srv.wire) + 2}
          /\ srv'.wire[Len(srv.wire) + 1] = x /\ srv'.wire[Len(srv.wire) + 2] = y
          /\ DOMAIN srv.wire \subseteq Nat
          /\ \A i \in DOMAIN srv.wire : i < Len(srv.wire) + 1 /\ srv'.wire[i] = srv.wire[i]
      BY <2>3, PushedTwo
    <2>8. WellOrdered' BY <1>9, <2>2, <2>5, <2>7, RequestKinds DEF WellOrdered
    <2>9. ~ReadFinal /\ \A q \in Req : ~ReadToEnd(q) BY <2>4, NotReading
    <2>10. AllOwned' BY <1>3, <2>6, <2>7, <2>9 DEF AllOwned
    <2>. QED BY <2>8, <2>10
  <1>10. CASE ServerTimesOut
    <2>1. PICK x \in OnWire : x = Bytes(None, "last")
      BY DEF Bytes, OnWire, SomeReq, Final, Closing
    <2>2. x.req = None /\ x.kind = "last" BY <2>1 DEF Bytes
    <2>3. /\ srv'.wire = Append(srv.wire, x) /\ srv'.eof /\ ~srv.eof
          /\ UNCHANGED <<call, ch, rl>>
      BY <1>10, <2>1 DEF ServerTimesOut, Types, SrvRec
    <2>4. /\ Len(srv'.wire) = Len(srv.wire) + 1 /\ Len(srv.wire) \in Nat
          /\ DOMAIN srv'.wire = DOMAIN srv.wire \cup {Len(srv'.wire)}
          /\ srv'.wire[Len(srv'.wire)] = x
          /\ DOMAIN srv.wire \subseteq Nat
          /\ \A i \in DOMAIN srv.wire : i < Len(srv'.wire) /\ srv'.wire[i] = srv.wire[i]
      BY <2>3, Pushed
    <2>5. WellOrdered' BY <1>2, <2>2, <2>3, <2>4 DEF WellOrdered
    <2>6. ~ReadFinal /\ \A q \in Req : ~ReadToEnd(q) BY <2>3, NotReading
    <2>7. AllOwned' BY <1>3, <2>2, <2>4, <2>6 DEF AllOwned
    <2>. QED BY <2>5, <2>7
  <1>11. ASSUME WirePopped PROVE WellOrdered'
    BY <1>2, <1>11, Popped DEF WirePopped, WellOrdered
  <1>12. CASE ReadContinue
    <2>1. WirePopped BY <1>12 DEF ReadContinue, WirePopped, Types, SrvRec
    <2>2. ~ReadFinal /\ \A q \in Req : ~ReadToEnd(q)
      BY <1>12 DEF ReadContinue, ReadFinal, ReadToEnd, Final, HasBody, Closing
    <2>3. AllOwned' BY <1>3, <2>1, <2>2, Popped DEF AllOwned
    <2>. QED BY <1>11, <2>1, <2>3
  <1>13. CASE ReadFinal
    <2>1. WirePopped BY <1>13, ReadFinalView DEF WirePopped, Types, SrvRec
    <2>2. PICK resp \in Response :
            /\ rl.at = "read" /\ srv.wire # <<>> /\ resp = Head(srv.wire)
            /\ rl'.req = rl.req /\ (rl'.alive <=> (resp.kind \in {"plain", "body"}))
            /\ rl'.at = (IF resp.kind \in HasBody THEN "sendBody"
                         ELSE IF resp.kind = "plain" THEN "wrote" ELSE "send")
            /\ Continues(rl.req, IF resp.kind \in Closing THEN "closed" ELSE "full") \/ AllKeep
      BY <1>13, ReadFinalView, Zenon
    <2>3. resp = srv.wire[1] /\ 1 \in DOMAIN srv.wire BY <2>1, <2>2, Popped
    <2>a. rl'.alive BY <1>1 DEF LoopLives
    <2>4. resp.kind \in {"plain", "body"} BY <2>2, <2>a
    <2>5. rl.req \in Req BY <2>2 DEF Serve, Serving
    <2>6. ASSUME NEW x \in OnWire, NEW i \in DOMAIN srv'.wire, srv'.wire[i] = x, x.req # None
          PROVE  Owned(x)'
      <3>1. i + 1 \in DOMAIN srv.wire /\ 1 < i + 1 /\ srv.wire[i + 1] = x BY <2>1, <2>6, Popped
      <3>2. resp.kind = "body" /\ x.kind = "bytes"
        BY <1>2, <2>3, <2>4, <2>6, <3>1 DEF WellOrdered, HasBody
      <3>3. Owned(x) /\ x.req \in Req BY <1>2, <2>6, <3>1, OnWireReq DEF AllOwned
      <3>4. Unanswered(x.req) /\ x.req \in srv.answered BY <2>2, <3>2, <3>3 DEF Owned
      <3>5. x.req = rl.req BY <2>2, <2>5, <3>3, <3>4 DEF Alone, Busy, Unanswered
      <3>6. call'[rl.req].body = "none"
        BY <2>2, <2>5 DEF BodyOrder, BodyOf, BeforeBody, Continues, AllKeep, Keeps
      <3>. QED BY <2>1, <2>2, <3>2, <3>4, <3>5, <3>6 DEF Owned, HasBody, WirePopped
    <2>7. AllOwned' BY <2>6 DEF AllOwned
    <2>. QED BY <1>11, <2>1, <2>7
  <1>14. ASSUME NEW r \in Req, ReadToEnd(r) PROVE WellOrdered' /\ AllOwned'
    <2>1. WirePopped /\ Head(srv.wire).kind = "bytes"
      BY <1>14, ReadToEndView DEF WirePopped, Types, SrvRec
    <2>2. \A i \in DOMAIN srv'.wire : srv'.wire[i].req = None
      <3>1. srv.wire[1].kind = "bytes" /\ 1 \in DOMAIN srv.wire BY <2>1, Popped
      <3>2. \A j \in DOMAIN srv.wire : 1 < j => srv.wire[j].req = None
        BY <1>2, <3>1 DEF WellOrdered, HasBody
      <3>. QED BY <2>1, <3>2, Popped
    <2>3. AllOwned' BY <2>2 DEF AllOwned
    <2>. QED BY <1>11, <2>1, <2>3
  <1>. QED
    BY <1>4, <1>6, <1>7, <1>8, <1>9, <1>10, <1>12, <1>13, <1>14, WireActions

-----------------------------------------------------------------------------
(* The responses.                                                          *)

\* Every step leaves the connection to one request.
LEMMA AloneStep ==
  ASSUME Types, Serve, WriteOrder, ReadOrder, IdleFree, Alone, Next PROVE Alone'
  <1>1. SUFFICES ASSUME NEW r \in Req, NEW q \in Req, Busy(r)', Busy(q)' PROVE r = q
    BY DEF Alone
  <1>2. /\ Busy(r) \/ (Acquire(r) /\ \A p \in Req : ~Busy(p))
        /\ Busy(q) \/ (Acquire(q) /\ \A p \in Req : ~Busy(p))
    BY <1>1, BusyStep
  <1>3. CASE Busy(r) /\ Busy(q) BY <1>3 DEF Alone
  <1>4. CASE Acquire(r) /\ Acquire(q)
    <2>1. call'[q].at = "got" /\ call[q].at = "new"
      BY <1>4, AcquireEffect DEF MovesTo, Acquire
    <2>. QED BY <1>4, <2>1, AcquireEffect DEF MovesTo, Others, Keeps
  <1>. QED BY <1>2, <1>3, <1>4

\* numExpectedResponses is not negative.
ExpectedNat == pc.expected \in Nat

\* Every step keeps it so: readLoop reads a response only when one is expected.
LEMMA ExpectedStep ==
  ASSUME Types, Serve, ReadOrder, Counted, ExpectedNat, Next PROVE ExpectedNat'
  <1>. USE RequestKinds DEF ExpectedNat, Types, PcRec, Keeps, AllKeep, Others, MovesTo,
       Continues, BodyMoves, PcKeeps, Breaks, RlTo
  <1>1. ASSUME NEW r \in Req, Acquire(r) PROVE ExpectedNat'
    BY <1>1, AcquireEffect DEF Acquire
  <1>2. ASSUME NEW r \in Req, ExpectResponse(r) PROVE ExpectedNat'
    BY <1>2, ExpectResponseEffect DEF ExpectResponse
  <1>3. ASSUME NEW r \in Req, SendToWriteLoop(r) PROVE ExpectedNat'
    BY <1>3, SendToWriteLoopView
  <1>4. ASSUME NEW r \in Req, SendToReadLoop(r) PROVE ExpectedNat'
    BY <1>4, SendToReadLoopEffect DEF SendToReadLoop
  <1>5. ASSUME NEW r \in Req, WriteReported(r) PROVE ExpectedNat'
    BY <1>5, WriteReportedView
  <1>6. ASSUME NEW r \in Req, ConnClosed(r) PROVE ExpectedNat'
    BY <1>6, ConnClosedView
  <1>7. ASSUME NEW r \in Req, HeaderTimeout(r) PROVE ExpectedNat'
    BY <1>7, HeaderTimeoutView
  <1>8. ASSUME NEW r \in Req, CtxDone(r) PROVE ExpectedNat'
    BY <1>8, CtxDoneView
  <1>9. ASSUME NEW r \in Req, UserCancels(r) PROVE ExpectedNat'
    BY <1>9, UserCancelsEffect DEF UserCancels
  <1>10. ASSUME NEW r \in Req, MapError(r) PROVE ExpectedNat'
    BY <1>10, MapErrorView
  <1>11. CASE TakeWrite
    BY <1>11, TakeWriteView
  <1>12. CASE WriteLoopClosed
    BY <1>12 DEF WriteLoopClosed
  <1>13. CASE WritePart
    BY <1>13 DEF WritePart, Open
  <1>14. CASE WaitForContinue
    BY <1>14, WaitForContinueView
  <1>15. CASE WriteRest
    BY <1>15 DEF WriteRest, Open
  <1>16. CASE WriteFails
    BY <1>16, WriteFailsEffect DEF WriteFails
  <1>17. CASE ReportWrite
    BY <1>17 DEF ReportWrite
  <1>18. CASE TellCaller
    BY <1>18, TellCallerView
  <1>19. ASSUME NEW r \in Req, ServerContinues(r) PROVE ExpectedNat'
    BY <1>19 DEF ServerContinues, Bytes, Open
  <1>20. ASSUME NEW r \in Req, NEW kind \in Answers, ServerAnswers(r, kind) PROVE ExpectedNat'
    BY <1>20 DEF ServerAnswers, Bytes, Open
  <1>21. ASSUME NEW r \in Req, NEW kind \in Answers, ServerCutsOff(r, kind) PROVE ExpectedNat'
    BY <1>21 DEF ServerCutsOff, Bytes, Open
  <1>22. CASE ServerTimesOut
    BY <1>22 DEF ServerTimesOut, Bytes, Open
  <1>23. CASE ServerHangsUp
    BY <1>23 DEF ServerHangsUp
  <1>24. CASE PoolCloses
    BY <1>24, PoolClosesView
  <1>25. ASSUME NEW ok \in BOOLEAN, Peek(ok) PROVE ExpectedNat'
    BY <1>25, PeekView
  <1>26. CASE TakeRequest
    BY <1>26, TakeRequestView
  <1>27. CASE ReadContinue
    BY <1>27, ReadContinueEffect DEF ReadContinue
  <1>28. CASE ReadFinal
    <2>1. rl.at = "read" /\ pc'.expected = pc.expected - 1 BY <1>28, ReadFinalView
    <2>2. LoopLives BY <2>1 DEF ReadOrder, LoopLives
    <2>3. rl.req \in Req /\ Expects(rl.req) BY <2>1 DEF Serve, Serving, Expects
    <2>4. pc.expected = 1 BY <2>2, <2>3 DEF Counted
    <2>. QED BY <2>1, <2>4
  <1>29. CASE ReadFails
    BY <1>29 DEF ReadFails
  <1>30. CASE DeliverError
    BY <1>30, DeliverErrorView
  <1>31. CASE CallerGone
    BY <1>31 DEF CallerGone
  <1>32. CASE WroteRequest
    BY <1>32, WroteRequestView DEF Decided
  <1>33. CASE TryPutIdleConn
    BY <1>33, TryPutIdleConnView DEF Decided
  <1>34. CASE Deliver
    BY <1>34, DeliverView
  <1>35. CASE DeliverBody
    BY <1>35, DeliverBodyView
  <1>36. CASE BodyRead
    BY <1>36, BodyReadView
  <1>37. CASE BodyCanceled
    BY <1>37, BodyCanceledView
  <1>38. CASE BodyConnClosed
    BY <1>38, BodyConnClosedView
  <1>39. CASE ReleaseBodyReader
    BY <1>39, ReleaseBodyReaderView
  <1>40. CASE CloseEofc
    BY <1>40 DEF CloseEofc
  <1>41. CASE ExitClose
    BY <1>41, ExitCloseView
  <1>42. CASE ExitRemove
    BY <1>42 DEF ExitRemove
  <1>43. ASSUME NEW r \in Req, ReadToEnd(r) PROVE ExpectedNat'
    BY <1>43, ReadToEndView
  <1>44. ASSUME NEW r \in Req, ReadBodyFails(r) PROVE ExpectedNat'
    BY <1>44, ReadBodyFailsView
  <1>45. ASSUME NEW r \in Req, CloseBody(r) PROVE ExpectedNat'
    BY <1>45, CloseBodyView
  <1>46. ASSUME NEW r \in Req, BodyReleased(r) PROVE ExpectedNat'
    BY <1>46, BodyReleasedEffect DEF BodyReleased
  <1>47. CASE Terminated
    BY <1>47 DEF Terminated, vars
  <1>q. QED
    BY <1>1, <1>2, <1>3, <1>4, <1>5, <1>6, <1>7, <1>8, <1>9, <1>10, <1>11, <1>12, <1>13, <1>14,
         <1>15, <1>16, <1>17, <1>18, <1>19, <1>20, <1>21, <1>22, <1>23, <1>24, <1>25, <1>26,
         <1>27, <1>28, <1>29, <1>30, <1>31, <1>32, <1>33, <1>34, <1>35, <1>36, <1>37, <1>38,
         <1>39, <1>40, <1>41, <1>42, <1>43, <1>44, <1>45, <1>46, <1>47 DEF Next

\* The response that readLoop works on is to the request that it serves, or a
\* 408.
RightResponse == rl.at \in WithResponse => rl.resp.req \in {rl.req, None}

\* Every step keeps it the right one,
LEMMA RightResponseStep ==
  ASSUME Types, Serve, ReadOrder, Alone, WireInv, RightResponse, Next PROVE RightResponse'
  <1>. USE RequestKinds DEF RightResponse, Types, RlRec, WithResponse, Keeps, AllKeep, Others,
       MovesTo, Continues, BodyMoves, PcKeeps, Breaks, RlTo
  <1>1. ASSUME NEW r \in Req, Acquire(r) PROVE RightResponse'
    BY <1>1, AcquireEffect DEF Acquire
  <1>2. ASSUME NEW r \in Req, ExpectResponse(r) PROVE RightResponse'
    BY <1>2, ExpectResponseEffect DEF ExpectResponse
  <1>3. ASSUME NEW r \in Req, SendToWriteLoop(r) PROVE RightResponse'
    BY <1>3, SendToWriteLoopView
  <1>4. ASSUME NEW r \in Req, SendToReadLoop(r) PROVE RightResponse'
    BY <1>4, SendToReadLoopEffect DEF SendToReadLoop
  <1>5. ASSUME NEW r \in Req, WriteReported(r) PROVE RightResponse'
    BY <1>5, WriteReportedView
  <1>6. ASSUME NEW r \in Req, ConnClosed(r) PROVE RightResponse'
    BY <1>6, ConnClosedView
  <1>7. ASSUME NEW r \in Req, HeaderTimeout(r) PROVE RightResponse'
    BY <1>7, HeaderTimeoutView
  <1>8. ASSUME NEW r \in Req, CtxDone(r) PROVE RightResponse'
    BY <1>8, CtxDoneView
  <1>9. ASSUME NEW r \in Req, UserCancels(r) PROVE RightResponse'
    BY <1>9, UserCancelsEffect DEF UserCancels
  <1>10. ASSUME NEW r \in Req, MapError(r) PROVE RightResponse'
    BY <1>10, MapErrorView
  <1>11. CASE TakeWrite
    BY <1>11, TakeWriteView
  <1>12. CASE WriteLoopClosed
    BY <1>12 DEF WriteLoopClosed
  <1>13. CASE WritePart
    BY <1>13 DEF WritePart, Open
  <1>14. CASE WaitForContinue
    BY <1>14, WaitForContinueView
  <1>15. CASE WriteRest
    BY <1>15 DEF WriteRest, Open
  <1>16. CASE WriteFails
    BY <1>16, WriteFailsEffect DEF WriteFails
  <1>17. CASE ReportWrite
    BY <1>17 DEF ReportWrite
  <1>18. CASE TellCaller
    BY <1>18, TellCallerView
  <1>19. ASSUME NEW r \in Req, ServerContinues(r) PROVE RightResponse'
    BY <1>19 DEF ServerContinues, Bytes, Open
  <1>20. ASSUME NEW r \in Req, NEW kind \in Answers, ServerAnswers(r, kind) PROVE RightResponse'
    BY <1>20 DEF ServerAnswers, Bytes, Open
  <1>21. ASSUME NEW r \in Req, NEW kind \in Answers, ServerCutsOff(r, kind) PROVE RightResponse'
    BY <1>21 DEF ServerCutsOff, Bytes, Open
  <1>22. CASE ServerTimesOut
    BY <1>22 DEF ServerTimesOut, Bytes, Open
  <1>23. CASE ServerHangsUp
    BY <1>23 DEF ServerHangsUp
  <1>24. CASE PoolCloses
    BY <1>24, PoolClosesView
  <1>25. ASSUME NEW ok \in BOOLEAN, Peek(ok) PROVE RightResponse'
    BY <1>25, PeekView
  <1>26. CASE TakeRequest
    BY <1>26, TakeRequestView
  <1>27. CASE ReadContinue
    BY <1>27, ReadContinueEffect DEF ReadContinue
  <1>28. CASE ReadFinal
    <2>1. PICK resp \in Response :
            /\ rl.at = "read" /\ srv.wire # <<>> /\ resp = Head(srv.wire)
            /\ rl'.req = rl.req /\ rl'.resp = resp
      BY <1>28, ReadFinalView, Zenon
    <2>2. LoopLives BY <2>1 DEF ReadOrder, LoopLives
    <2>3. srv.wire \in Seq(OnWire) BY DEF SrvRec, Wire
    <2>4. 1 \in DOMAIN srv.wire /\ Head(srv.wire) = srv.wire[1] BY <2>1, <2>3
    <2>5. resp.req = None \/ (Owned(resp) /\ resp.req \in Req)
      BY <2>1, <2>2, <2>4, OnWireReq DEF WireInv, AllOwned
    <2>6. CASE Owned(resp) /\ resp.req \in Req
      <3>1. Busy(resp.req) BY <2>1, <2>6 DEF Owned, Busy
      <3>2. rl.req \in Req /\ Busy(rl.req) BY <2>1 DEF Serve, Serving, Busy, Unanswered
      <3>3. resp.req = rl.req BY <2>6, <3>1, <3>2 DEF Alone
      <3>. QED BY <2>1, <3>3
    <2>. QED BY <2>1, <2>5, <2>6
  <1>29. CASE ReadFails
    BY <1>29 DEF ReadFails
  <1>30. CASE DeliverError
    BY <1>30, DeliverErrorView
  <1>31. CASE CallerGone
    BY <1>31 DEF CallerGone
  <1>32. CASE WroteRequest
    BY <1>32, WroteRequestView DEF Decided
  <1>33. CASE TryPutIdleConn
    BY <1>33, TryPutIdleConnView DEF Decided
  <1>34. CASE Deliver
    BY <1>34, DeliverView
  <1>35. CASE DeliverBody
    BY <1>35, DeliverBodyView
  <1>36. CASE BodyRead
    BY <1>36, BodyReadView
  <1>37. CASE BodyCanceled
    BY <1>37, BodyCanceledView
  <1>38. CASE BodyConnClosed
    BY <1>38, BodyConnClosedView
  <1>39. CASE ReleaseBodyReader
    BY <1>39, ReleaseBodyReaderView
  <1>40. CASE CloseEofc
    BY <1>40 DEF CloseEofc
  <1>41. CASE ExitClose
    BY <1>41, ExitCloseView
  <1>42. CASE ExitRemove
    BY <1>42 DEF ExitRemove
  <1>43. ASSUME NEW r \in Req, ReadToEnd(r) PROVE RightResponse'
    BY <1>43, ReadToEndView
  <1>44. ASSUME NEW r \in Req, ReadBodyFails(r) PROVE RightResponse'
    BY <1>44, ReadBodyFailsView
  <1>45. ASSUME NEW r \in Req, CloseBody(r) PROVE RightResponse'
    BY <1>45, CloseBodyView
  <1>46. ASSUME NEW r \in Req, BodyReleased(r) PROVE RightResponse'
    BY <1>46, BodyReleasedEffect DEF BodyReleased
  <1>47. CASE Terminated
    BY <1>47 DEF Terminated, vars
  <1>q. QED
    BY <1>1, <1>2, <1>3, <1>4, <1>5, <1>6, <1>7, <1>8, <1>9, <1>10, <1>11, <1>12, <1>13, <1>14,
         <1>15, <1>16, <1>17, <1>18, <1>19, <1>20, <1>21, <1>22, <1>23, <1>24, <1>25, <1>26,
         <1>27, <1>28, <1>29, <1>30, <1>31, <1>32, <1>33, <1>34, <1>35, <1>36, <1>37, <1>38,
         <1>39, <1>40, <1>41, <1>42, <1>43, <1>44, <1>45, <1>46, <1>47 DEF Next

\* and gives no caller the response to another request.
LEMMA ResponsesStep ==
  ASSUME Types, Serve, RightResponse, ResponseMatchesRequest, Next PROVE ResponseMatchesRequest'
  <1>1. SUFFICES ASSUME NEW r \in Req, NEW q \in Req, call'[r].out = <<"response", q>> PROVE q = r
    BY DEF ResponseMatchesRequest
  <1>2. OutKept(r) BY OutStep
  <1>3. CASE call'[r].out = call[r].out BY <1>1, <1>3 DEF ResponseMatchesRequest
  <1>4. CASE call'[r].out = <<"response", rl.resp.req>> /\ r = rl.req /\ rl.at \in {"send", "sendBody"}
    <2>1. rl.resp.req = q BY <1>1, <1>4
    <2>. QED BY <1>4, <2>1, RequestKinds DEF RightResponse, WithResponse
  <1>5. call'[r].out[1] = "response" BY <1>1
  <1>. QED BY <1>2, <1>3, <1>4, <1>5 DEF OutKept

-----------------------------------------------------------------------------
(* The invariant and the theorems.                                         *)

\* The inductive invariant of a connection that is used again.
CleanInv ==
    /\ OrderInv
    /\ Alone /\ IdleFree /\ Reported /\ IdleAlive /\ Counted /\ ExpectedNat
    /\ NotSkipped /\ Partial /\ Answerable /\ WireInv
    /\ RightResponse /\ ResponseMatchesRequest

\* Initially the connection is clean.
LEMMA InitClean == Init => CleanInv
  <1>1. SUFFICES ASSUME Init PROVE CleanInv OBVIOUS
  <1>. USE <1>1, InitValues, RequestKinds
  <1>2. OrderInv BY InitOrder
  <1>3. \A r \in Req : ~Busy(r) BY DEF Busy, Unwritten, Unanswered, InHand
  <1>4. Alone /\ IdleFree /\ Reported
    <2>1. \A r \in Req : ~Unwritten(r) BY <1>3 DEF Busy
    <2>. QED BY <1>3, <2>1 DEF Alone, IdleFree, Reported
  <1>5. IdleAlive BY DEF IdleAlive, LoopLives
  <1>6. Counted /\ ExpectedNat BY DEF Counted, ExpectedNat, Expects
  <1>7. NotSkipped /\ Partial BY DEF NotSkipped, Partial
  <1>8. Answerable BY <1>3 DEF Answerable, Busy
  <1>9. WireInv BY DEF WireInv, WellOrdered, AllOwned
  <1>10. RightResponse BY DEF RightResponse, WithResponse
  <1>11. ResponseMatchesRequest
    <2>1. \A r \in Req : call[r].out[1] # "response" OBVIOUS
    <2>. QED BY <2>1 DEF ResponseMatchesRequest
  <1>. QED BY <1>2, <1>4, <1>5, <1>6, <1>7, <1>8, <1>9, <1>10, <1>11 DEF CleanInv

\* CleanInv is inductive.
LEMMA CleanStep == CleanInv /\ [Next]_vars => CleanInv'
  <1>1. ASSUME CleanInv, Next PROVE CleanInv'
    <2>. USE <1>1 DEF CleanInv, OrderInv
    <2>1. OrderInv' BY OrderStep
    <2>2. Alone' BY AloneStep
    <2>3. IdleFree' BY IdleFreeStep
    <2>4. Reported' BY ReportedStep
    <2>5. IdleAlive' BY IdleAliveStep
    <2>6. Counted' BY CountedStep
    <2>7. ExpectedNat' BY ExpectedStep
    <2>8. NotSkipped' BY NotSkippedStep
    <2>9. Partial' BY PartialStep
    <2>10. Answerable' BY AnswerableStep
    <2>11. WireInv' BY WireInvStep
    <2>12. RightResponse' BY RightResponseStep
    <2>13. ResponseMatchesRequest' BY ResponsesStep
    <2>. HIDE DEF OrderInv
    <2>. QED BY <2>1, <2>2, <2>3, <2>4, <2>5, <2>6, <2>7, <2>8, <2>9, <2>10, <2>11, <2>12, <2>13
  <1>2. ASSUME CleanInv, UNCHANGED vars PROVE CleanInv'
    <2>. USE <1>2 DEF vars, Busy, Unwritten, Unanswered, InHand, LoopLives, Expects, Owned
    <2>1. OrderInv' BY OrderStep DEF CleanInv
    <2>2. Alone' /\ IdleFree' /\ Reported' /\ IdleAlive'
      BY DEF CleanInv, Alone, IdleFree, Reported, IdleAlive
    <2>3. Counted' /\ ExpectedNat' /\ NotSkipped'
      BY DEF CleanInv, Counted, ExpectedNat, NotSkipped
    <2>4. Partial' /\ Answerable' BY DEF CleanInv, Partial, WritingStill, Answerable
    <2>5. WireInv' BY DEF CleanInv, WireInv, WellOrdered, AllOwned
    <2>6. RightResponse' /\ ResponseMatchesRequest'
      BY DEF CleanInv, RightResponse, ResponseMatchesRequest
    <2>. QED BY <2>1, <2>2, <2>3, <2>4, <2>5, <2>6 DEF CleanInv
  <1>. QED BY <1>1, <1>2

\* A connection that readLoop means to use again carries the traffic of one
\* request at a time, and what is on its wire belongs to that request: CleanInv
\* is an invariant.
THEOREM CleanInvariance == Spec => []CleanInv
  BY InitClean, CleanStep, PTL DEF Spec

\* Every variable has its type in every reachable state: numExpectedResponses
\* is never negative and no channel of the connection holds more than it has
\* room for.
THEOREM PersistTypeCorrect == Spec => []TypeOK
  <1>1. CleanInv => TypeOK
    <2>. SUFFICES ASSUME CleanInv PROVE TypeOK OBVIOUS
    <2>. USE DEF CleanInv, OrderInv
    <2>1. call \in [Req -> [at : CallAt, out : Outcomes, live : BOOLEAN, wch : WriteError,
                            timer : BOOLEAN,
                            start : Nat, err : SomeError, bad : BOOLEAN, cont : ContState,
                            body : BodyState,
                            bodyRead : Signals]]
      BY DEF Types, CallRec
    <2>2. pc \in [closed : SomeError, canceledErr : SomeReq, nwrite : Nat, expected : Nat,
                  reused : BOOLEAN, pool : PoolPlace]
      BY DEF Types, PcRec, ExpectedNat
    <2>3. ch.write \in OneReq /\ ch.req \in OneReq /\ ch.err \in OneResult
      BY DEF Types, ChRec
    <2>4. /\ \A s \in OneReq : s \in Seq(Req) /\ Len(s) <= 1
          /\ \A s \in OneResult : s \in Seq({"ok", "failed"}) /\ Len(s) <= 1
      <3>1. ASSUME NEW S PROVE <<>> \in Seq(S) /\ Len(<<>>) <= 1 OBVIOUS
      <3>2. ASSUME NEW S, NEW x \in S PROVE <<x>> \in Seq(S) /\ Len(<<x>>) <= 1 OBVIOUS
      <3>. QED BY <3>1, <3>2 DEF OneReq, OneResult
    <2>5. ch \in [write : Seq(Req), req : Seq(Req), err : Seq({"ok", "failed"})]
      <3>1. ch \in [write : OneReq, req : OneReq, err : OneResult] BY DEF Types, ChRec
      <3>. QED BY <2>4, <3>1, Zenon
    <2>6. \A r \in Req : Len(call[r].bodyRead) <= 2 BY DEF Signaled, SignaledOf, Short
    <2>7. w \in WRec /\ rl \in RlRec /\ sent \in SentRec /\ srv \in SrvRec BY DEF Types
    <2>. HIDE DEF CleanInv, OrderInv
    <2>. QED BY <2>1, <2>2, <2>3, <2>4, <2>5, <2>6, <2>7
      DEF TypeOK, CallAt, WriteError, SomeError, SomeReq, ContState, BodyState, Signals,
           PoolPlace, WRec, WriteAt,
          RlRec, ReadAt, SomeResp, Response, SentRec, ReqSet, SrvRec, Wire, OnWire
  <1>. QED BY <1>1, CleanInvariance, PTL

\* No caller of roundTrip gets the response to another request: readLoop never
\* falls a response behind, and a connection with an answer left on it is not
\* used again.
THEOREM ResponsesMatch == Spec => []ResponseMatchesRequest
  <1>1. CleanInv => ResponseMatchesRequest BY DEF CleanInv
  <1>. QED BY <1>1, CleanInvariance, PTL

\* An open connection in the pool is clean: the last request went out whole,
\* its write was reported, no channel holds anything, no response is expected
\* and none is on the wire.
THEOREM IdleConnsClean == Spec => []IdleIsClean
  <1>1. CleanInv => IdleIsClean
    <2>. SUFFICES ASSUME CleanInv, pc.pool = "idle", pc.closed = None
                  PROVE  /\ sent.begun = sent.whole
                         /\ w.at = "idle" \/ (w.at = "tell" /\ w.res = "ok")
                         /\ ch = [write |-> <<>>, req |-> <<>>, err |-> <<>>]
                         /\ pc.expected = 0
                         /\ \A i \in DOMAIN srv.wire : srv.wire[i].req = None
      BY DEF IdleIsClean
    <2>. USE DEF CleanInv, OrderInv
    <2>1. LoopLives BY DEF IdleAlive
    <2>2. ch.err = <<>> /\ \A r \in Req : ~Busy(r) BY DEF IdleFree
    <2>3. ch.write = <<>> /\ ch.req = <<>>
      <3>1. ch.write \in OneReq /\ ch.req \in OneReq BY DEF Types, ChRec
      <3>2. \A r \in Req : ch.write # <<r>> /\ ch.req # <<r>>
        BY <2>2 DEF Busy, Unwritten, Unanswered
      <3>. QED BY <3>1, <3>2 DEF OneReq
    <2>4. ch = [write |-> <<>>, req |-> <<>>, err |-> <<>>]
      <3>1. ch = [write |-> ch.write, req |-> ch.req, err |-> ch.err] BY DEF Types, ChRec
      <3>. QED BY <2>2, <2>3, <3>1
    <2>5. <<>> # <<"failed">> OBVIOUS
    <2>6. w.at = "idle" \/ (w.at = "tell" /\ w.res = "ok")
      <3>1. w.at \in WriteAt /\ w.res \in WriteError BY DEF Types, WRec
      <3>2. w.at \notin {"begin", "await", "part", "report"}
        BY <2>2 DEF Serve, Busy, Unwritten
      <3>3. w.at # "done" BY DEF WriteOrder
      <3>4. ~(w.at = "tell" /\ w.res = "failed") BY <2>1, <2>2, <2>5 DEF Partial
      <3>5. w.at = "tell" => w.res # None BY DEF Serve
      <3>. QED BY <3>1, <3>2, <3>3, <3>4, <3>5 DEF WriteAt, WriteError
    <2>7. sent.begun = sent.whole
      <3>1. sent.begun \subseteq Req BY DEF Types, SentRec, ReqSet
      <3>2. \A r \in sent.begun \ sent.whole : WritingStill(r) \/ ch.err = <<"failed">>
        BY <2>1 DEF Partial
      <3>3. \A r \in Req : ~WritingStill(r) BY <2>2 DEF WritingStill, Busy, Unwritten
      <3>4. sent.begun \subseteq sent.whole BY <2>2, <2>5, <3>1, <3>2, <3>3
      <3>5. sent.whole \subseteq sent.begun BY DEF WriteOrder
      <3>. QED BY <3>4, <3>5
    <2>8. pc.expected = 0
      <3>1. \A r \in Req : ~Expects(r) BY <2>2 DEF Expects, Busy, Unanswered
      <3>. QED BY <2>1, <3>1 DEF Counted
    <2>9. ASSUME NEW i \in DOMAIN srv.wire, srv.wire[i].req # None PROVE FALSE
      <3>1. srv.wire[i] \in OnWire /\ srv.wire[i].req \in Req BY <2>9, OnWireReq
      <3>2. Owned(srv.wire[i]) BY <2>1, <2>9, <3>1 DEF WireInv, AllOwned
      <3>3. Busy(srv.wire[i].req) BY <3>2 DEF Owned, Busy, InHand
      <3>. QED BY <2>2, <3>1, <3>3
    <2>. QED BY <2>4, <2>6, <2>7, <2>8, <2>9
  <1>. QED BY <1>1, CleanInvariance, PTL
=============================================================================
