------------------------------- MODULE H2Pool -------------------------------
(***************************************************************************)
(* The HTTP/2 connection pool (internal/http2/client_conn_pool.go) with    *)
(* the part of ClientConn it rests on (internal/http2/transport.go): which *)
(* connection a request gets, shared dials, connections brought by the     *)
(* HTTP/1 transport, reservations and the limit on streams, GOAWAY, and    *)
(* the retries of RoundTripOpt.                                            *)
(*                                                                         *)
(* A step is one critical section of the pool's or of a connection's mu.   *)
(* All requests go to one address: the pool never relates two of them.     *)
(* IdleConnTimeout is never set on this transport, so there is no idle     *)
(* timer.  What travels on a stream is H2Conn's matter.                    *)
(***************************************************************************)
EXTENDS Integers, FiniteSets, SequencesExt

CONSTANTS
    Req,               \* calls of RoundTripOpt
    ViaHTTP1,          \* the ones whose HTTP/1 dial negotiated h2: AddConn first
    CancelReq,         \* bound: the ones whose context may end
    Body,              \* [Req -> {"none", "replay", "once"}]: no body, GetBody, neither
    MaxConns,          \* bound: connections that may be made
    Unruly,            \* bound: the ones whose server resets streams or sends
                       \* SETTINGS or GOAWAY; the others answer or hang up
    Options,           \* settings, each a record with StrictMaxConcurrentStreams,
                       \* DisableKeepAlives and the set of requests with
                       \* Connection: close; one is in force throughout
    FirstID,           \* nextStreamID of a new connection: 1, more with PriorityFrames
    MaxID,             \* math.MaxInt32
    MaxStreams,        \* the values of MAX_CONCURRENT_STREAMS a server may announce
    DefaultStreams,    \* maxConcurrentStreams before the first SETTINGS
    RetryLimit         \* 6 in the code

Nobody == "nobody"

ASSUME H2PoolConstants ==
    /\ IsFiniteSet(Req) /\ ViaHTTP1 \subseteq Req /\ CancelReq \subseteq Req
    /\ Body \in [Req -> {"none", "replay", "once"}]
    /\ MaxConns \in Nat /\ Unruly \subseteq 1..MaxConns
    /\ Options \subseteq [strict : BOOLEAN, noKeepAlive : BOOLEAN, close : SUBSET Req]
    /\ FirstID \in Nat /\ FirstID % 2 = 1 /\ MaxID \in Nat
    /\ MaxStreams \subseteq Nat \ {0} /\ DefaultStreams \in Nat \ {0}
    /\ RetryLimit \in Nat /\ Nobody \notin Req

VARIABLES
    opt,               \* the settings in force
    conns,             \* clientConnPool.conns[addr]
    dialing,           \* dialing[addr]: the request whose context it has, and its conn
    adding,            \* addConnCalls[addr]: the request that runs it
    cc,                \* the ClientConns
    rq                 \* the requests, each with its clientStream; sent and exec
                       \* count the streams a one-shot body went out on, and the
                       \* times the server ran the request

vars == <<opt, conns, dialing, adding, cc, rq>>
pool == <<conns, dialing, adding>>

CC == 1..MaxConns
NoConn == 0
\* What the code tells apart: errClientConnUnusable; GOAWAY above the last stream,
\* and REFUSED_STREAM or PROTOCOL_ERROR from the peer; the context's end; the rest.
Errors == {"none", "unusable", "refused", "ctx", "lost"}
NoCall == [err |-> "none", res |-> NoConn, ctx |-> Nobody]
NoAway == -1

NewCC == [born |-> FALSE, single |-> FALSE, closed |-> FALSE, reading |-> FALSE,
          noReuse |-> FALSE, away |-> NoAway, awayErr |-> FALSE,
          streams |-> {}, reserved |-> 0, next |-> FirstID,
          max |-> DefaultStreams, hdr |-> Nobody]

NewRq == [pc |-> "get", conn |-> NoConn, id |-> 0, held |-> FALSE, tries |-> 0,
          ctx |-> FALSE, abort |-> "none", resp |-> FALSE, woken |-> FALSE,
          call |-> NoCall, result |-> "none", sent |-> 0,
          ran |-> FALSE, exec |-> 0]

Init ==
    /\ opt \in Options
    /\ conns = <<>> /\ dialing = NoCall /\ adding = Nobody
    /\ cc = [c \in CC |-> NewCC]
    /\ rq = [r \in Req |-> [NewRq EXCEPT !.pc = IF r \in ViaHTTP1 THEN "add" ELSE "get"]]

-----------------------------------------------------------------------------
(* ClientConn: may it take a request, who waits on its cond, aborts.       *)

Pending(c) == {r \in Req : rq[r].pc = "slot" /\ rq[r].conn = c}

\* Faulty variant: a connection that got GOAWAY still takes requests.
CanTakeAfterGoAway(k, p) ==
    /\ ~(k.single /\ k.next > 1)
    /\ ~k.closed /\ ~k.noReuse
    /\ opt.strict \/ Cardinality(k.streams) + k.reserved + 1 <= k.max
    /\ k.next + 2 * p < MaxID

\* idleStateLocked on the state k of connection c, p requests being pending.
CanTake(k, p) ==
    /\ ~(k.single /\ k.next > 1)
    /\ k.away = NoAway /\ ~k.closed /\ ~k.noReuse
    /\ opt.strict \/ Cardinality(k.streams) + k.reserved + 1 <= k.max
    /\ k.next + 2 * p < MaxID

Usable(c) == CanTake(cc[c], Cardinality(Pending(c)))

DecrReserved(k) == [k EXCEPT !.reserved = IF k.reserved > 0 THEN k.reserved - 1 ELSE 0]

\* cc.cond.Broadcast: whoever waits for a stream slot of c looks again.
Broadcast(q, c) ==
    [r \in Req |-> [q[r] EXCEPT !.woken = q[r].woken \/ (q[r].pc = "slot" /\ q[r].conn = c)]]

\* abortStreamLocked on the streams of the requests in S of connection c.
Abort(q, c, S, e) ==
    Broadcast([r \in Req |-> IF r \in S /\ q[r].abort = "none"
                             THEN [q[r] EXCEPT !.abort = e] ELSE q[r]], c)

\* Only request r changes, to state k; only connection c does.
Becomes(r, k) == [rq EXCEPT ![r] = k]
ConnBecomes(c, k) == [cc EXCEPT ![c] = k]

Step(r, to) == Becomes(r, [rq[r] EXCEPT !.pc = to])
Return(q, r, res) ==
    [q EXCEPT ![r] = [NewRq EXCEPT !.pc = "done", !.ctx = q[r].ctx, !.exec = q[r].exec,
                                   !.result = IF res \in {"ok", "ctx"} THEN res
                                              ELSE "error"]]

\* newClientConn: the preface is written and readLoop started.
Newborn(c, one) ==
    /\ ~cc[c].born /\ \A d \in CC : d < c => cc[d].born
    /\ cc' = ConnBecomes(c, [NewCC EXCEPT !.born = TRUE, !.reading = TRUE, !.single = one])

AddConnLocked(c) == IF c \in ToSet(conns) THEN conns ELSE Append(conns, c)
\* addConnLocked lists a connection once, so filtering it out removes one entry.
MarkDead(c) == RemoveFirst(conns, c)

-----------------------------------------------------------------------------
(* AddConnIfNeeded, called by the HTTP/1 transport with its new connection. *)

AddConnIfNeeded(r) ==
    /\ rq[r].pc = "add"
    /\ \/ /\ \E c \in ToSet(conns) : Usable(c)
          /\ rq' = Step(r, "get") /\ UNCHANGED adding
       \/ /\ ~ \E c \in ToSet(conns) : Usable(c)
          /\ rq' = Step(r, IF adding = Nobody THEN "adding" ELSE "addwait")
          /\ adding' = IF adding = Nobody THEN r ELSE adding
    /\ UNCHANGED <<opt, conns, dialing, cc>>

\* addConnCall.run as far as NewClientConn.
AddConnRun(r, c) ==
    /\ rq[r].pc = "adding" /\ Newborn(c, opt.noKeepAlive)
    /\ rq' = Becomes(r, [rq[r] EXCEPT !.pc = "added", !.conn = c])
    /\ UNCHANGED <<opt, pool>>

\* The rest of run: the connection is registered and everybody who waits returns.
AddConnDone(r) ==
    /\ rq[r].pc = "added"
    /\ conns' = AddConnLocked(rq[r].conn) /\ adding' = Nobody
    /\ rq' = [s \in Req |-> IF s = r \/ rq[s].pc = "addwait"
                            THEN [rq[s] EXCEPT !.pc = "get", !.conn = NoConn]
                            ELSE rq[s]]
    /\ UNCHANGED <<opt, dialing, cc>>

AddConnFails(r) ==
    /\ rq[r].pc = "adding"
    /\ adding' = Nobody
    /\ rq' = [s \in Req |-> IF s = r \/ rq[s].pc = "addwait"
                            THEN Return(rq, s, "lost")[s] ELSE rq[s]]
    /\ UNCHANGED <<opt, conns, dialing, cc>>

-----------------------------------------------------------------------------
(* GetClientConn.                                                          *)

\* A reservation on c for r, which goes on to RoundTrip.
Reserve(r, c) ==
    /\ cc' = ConnBecomes(c, [cc[c] EXCEPT !.reserved = cc[c].reserved + 1])
    /\ rq' = Becomes(r, [rq[r] EXCEPT !.pc = "lock", !.conn = c, !.held = TRUE,
                                      !.call = NoCall])

\* The first connection of the list that takes a reservation.
GetReserve(r) ==
    /\ rq[r].pc = "get" /\ r \notin opt.close
    /\ \E i \in DOMAIN conns :
          /\ Usable(conns[i]) /\ \A j \in 1..(i - 1) : ~Usable(conns[j])
          /\ Reserve(r, conns[i])
    /\ UNCHANGED <<opt, pool>>

\* getStartDialLocked: join the dial that is going on, or start one.
GetStartDial(r) ==
    /\ rq[r].pc = "get" /\ r \notin opt.close
    /\ \A i \in DOMAIN conns : ~Usable(conns[i])
    /\ dialing' = IF dialing = NoCall THEN [NoCall EXCEPT !.ctx = r] ELSE dialing
    /\ rq' = Step(r, "dialwait")
    /\ UNCHANGED <<opt, conns, adding, cc>>

\* A request with Connection: close dials for itself and reserves nothing.
GetOwn(r, c) ==
    /\ rq[r].pc = "get" /\ r \in opt.close
    /\ Newborn(c, TRUE)
    /\ rq' = Becomes(r, [rq[r] EXCEPT !.pc = "lock", !.conn = c])
    /\ UNCHANGED <<opt, pool>>

GetOwnFails(r) ==
    /\ rq[r].pc = "get" /\ r \in opt.close
    /\ rq' = Return(rq, r, IF rq[r].ctx THEN "ctx" ELSE "lost")
    /\ UNCHANGED <<opt, pool, cc>>

\* The dial goroutine: dialClientConn ...
DialConn(c) ==
    /\ dialing.ctx # Nobody /\ dialing.res = NoConn /\ Newborn(c, FALSE)
    /\ dialing' = [dialing EXCEPT !.res = c]
    /\ UNCHANGED <<opt, conns, adding, rq>>

\* ... and the end of dialCall.dial, on success or failure: all waiters go on.
DialDone(call) ==
    /\ dialing' = NoCall
    /\ conns' = IF call.err = "none" THEN AddConnLocked(call.res) ELSE conns
    /\ rq' = [r \in Req |-> IF rq[r].pc = "dialwait"
                            THEN [rq[r] EXCEPT !.pc = "dialed", !.call = call]
                            ELSE rq[r]]
    /\ UNCHANGED <<opt, adding, cc>>

DialSucceeds == dialing.res # NoConn /\ DialDone(dialing)
DialFails ==
    /\ dialing.ctx # Nobody /\ dialing.res = NoConn
    /\ \E e \in {"lost"} \cup (IF rq[dialing.ctx].ctx THEN {"ctx"} ELSE {}) :
          DialDone([dialing EXCEPT !.err = e])

\* Faulty variant: a dial cancelled by its own request fails everybody who shares it.
NeverRetryDial(r) == FALSE

ShouldRetryDial(r) ==
    LET call == rq[r].call
    IN  call.ctx # r /\ call.err = "ctx" /\ rq[call.ctx].ctx

DialedReserve(r) ==
    /\ rq[r].pc = "dialed" /\ rq[r].call.err = "none" /\ Usable(rq[r].call.res)
    /\ Reserve(r, rq[r].call.res)
    /\ UNCHANGED <<opt, pool>>

\* Look at the pool again, or return the dial's error.
DialedAgain(r) ==
    /\ rq[r].pc = "dialed"
    /\ rq[r].call.err = "none" => ~Usable(rq[r].call.res)
    /\ rq' = IF rq[r].call.err = "none" \/ ShouldRetryDial(r)
             THEN Becomes(r, [rq[r] EXCEPT !.pc = "get", !.call = NoCall])
             ELSE Return(rq, r, rq[r].call.err)
    /\ UNCHANGED <<opt, pool, cc>>

-----------------------------------------------------------------------------
(* The request on its connection: writeRequest and cleanupWriteRequest.    *)

OnConn(r) == rq[r].pc \in {"lock", "slot", "headers", "active", "cleanup"}

\* The abort that is there already, or e.
OrElse(abort, e) == IF abort = "none" THEN e ELSE abort

\* awaitOpenSlotForStreamLocked on k, r's connection as r finds it, then
\* addStreamLocked.  p: the other pending requests.
AwaitOpenSlot(r, k, p) ==
    LET c == rq[r].conn IN
    \/ /\ ~CanTake(k, p)
       /\ cc' = ConnBecomes(c, [k EXCEPT !.hdr = Nobody])
       /\ rq' = Becomes(r, [rq[r] EXCEPT !.pc = "cleanup", !.held = FALSE,
                                         !.abort = OrElse(rq[r].abort, "unusable")])
    \/ /\ CanTake(k, p) /\ Cardinality(k.streams) < k.max
       /\ cc' = ConnBecomes(c, [k EXCEPT !.hdr = r, !.streams = k.streams \cup {r},
                                         !.next = k.next + 2,
                                         !.noReuse = k.noReuse \/ r \in opt.close])
       /\ rq' = Becomes(r, [rq[r] EXCEPT !.pc = "headers", !.id = k.next, !.held = FALSE])
    \/ /\ CanTake(k, p) /\ Cardinality(k.streams) >= k.max
       /\ cc' = ConnBecomes(c, [k EXCEPT !.hdr = r])
       /\ rq' = Becomes(r, [rq[r] EXCEPT !.pc = "slot", !.woken = FALSE, !.held = FALSE])

\* reqHeaderMu is free: give the reservation back and wait for a slot.
LockHeader(r) ==
    /\ rq[r].pc = "lock" /\ cc[rq[r].conn].hdr = Nobody
    /\ AwaitOpenSlot(r, DecrReserved(cc[rq[r].conn]), Cardinality(Pending(rq[r].conn)))
    /\ UNCHANGED <<opt, pool>>

LockCancelled(r) ==
    /\ rq[r].pc = "lock" /\ rq[r].ctx
    /\ rq' = Becomes(r, [rq[r] EXCEPT !.pc = "cleanup", !.abort = "ctx"])
    /\ UNCHANGED <<opt, pool, cc>>

\* cond.Wait returned.
Wake(r) ==
    LET c == rq[r].conn IN
    /\ rq[r].pc = "slot" /\ rq[r].woken
    /\ \/ /\ rq[r].abort # "none"
          /\ cc' = ConnBecomes(c, [cc[c] EXCEPT !.hdr = Nobody])
          /\ rq' = Step(r, "cleanup")
       \/ /\ rq[r].abort = "none"
          /\ AwaitOpenSlot(r, cc[c], Cardinality(Pending(c) \ {r}))
    /\ UNCHANGED <<opt, pool>>

\* encodeAndWriteHeaders, then reqHeaderMu is released.
WriteHeaders(r) ==
    /\ rq[r].pc = "headers"
    /\ cc' = ConnBecomes(rq[r].conn, [cc[rq[r].conn] EXCEPT !.hdr = Nobody])
    /\ rq' = IF rq[r].abort # "none" \/ rq[r].ctx
             THEN Becomes(r, [rq[r] EXCEPT !.pc = "cleanup",
                                           !.abort = OrElse(rq[r].abort, "ctx")])
             ELSE Becomes(r, [rq[r] EXCEPT !.pc = "active",
                                           !.sent = IF Body[r] = "once" THEN rq[r].sent + 1
                                                    ELSE rq[r].sent])
    /\ UNCHANGED <<opt, pool>>

\* The write fails: cleanupWriteRequest will find cc.werr and close the connection.
WriteFails(r) ==
    /\ rq[r].pc = "headers" /\ rq[r].abort = "none"
    /\ cc' = ConnBecomes(rq[r].conn, [cc[rq[r].conn] EXCEPT !.hdr = Nobody, !.closed = TRUE])
    /\ rq' = Abort(Step(r, "cleanup"), rq[r].conn, cc[rq[r].conn].streams, "lost")
    /\ UNCHANGED <<opt, pool>>

\* The wait at the end of writeRequest: no header in time.
StreamTimeout(r) ==
    /\ rq[r].pc = "active" /\ ~rq[r].resp /\ rq[r].abort = "none"
    /\ rq' = Becomes(r, [rq[r] EXCEPT !.pc = "cleanup", !.abort = "lost"])
    /\ UNCHANGED <<opt, pool, cc>>

\* The request's context ends.
CtxDone(r) ==
    /\ r \in CancelReq /\ ~rq[r].ctx /\ rq[r].pc # "done"
    /\ rq' = Becomes(r, [rq[r] EXCEPT !.ctx = TRUE])
    /\ UNCHANGED <<opt, pool, cc>>

\* roundTrip's select sees it and aborts the stream.
RoundTripCancelled(r) ==
    /\ OnConn(r) /\ rq[r].ctx /\ rq[r].abort = "none" /\ ~rq[r].resp
    /\ rq' = Abort(rq, rq[r].conn, {r}, "ctx")
    /\ UNCHANGED <<opt, pool, cc>>

\* The caller closes the body of its response.
BodyClosed(r) ==
    /\ rq[r].pc = "active" /\ rq[r].resp /\ rq[r].abort = "none"
    /\ rq' = Abort(rq, rq[r].conn, {r}, "lost")
    /\ UNCHANGED <<opt, pool, cc>>

\* Faulty variant: a request whose connection was lost is sent again too.
RetryLost(e) == e \in {"unusable", "refused", "lost"}

CanRetryError(e) == e \in {"unusable", "refused"}

\* Faulty variant: the request is sent again whatever became of its body.
RetryAnyBody(r, e) == CanRetryError(e)

ShouldRetryRequest(r, e) == CanRetryError(e) /\ (Body[r] # "once" \/ e = "unusable")

\* RoundTripOpt after RoundTrip returned with the error e ("none": a response).
AfterRoundTrip(q, r, e) ==
    LET again == e # "none" /\ q[r].tries <= RetryLimit /\ ShouldRetryRequest(r, e)
    IN  IF again
        THEN [q EXCEPT ![r] = [NewRq EXCEPT !.pc = IF q[r].tries = 0 THEN "get"
                                                   ELSE "backoff",
                                            !.tries = q[r].tries + 1, !.ctx = q[r].ctx,
                                            !.sent = q[r].sent, !.exec = q[r].exec]]
        ELSE Return(q, r, IF e = "none" THEN "ok" ELSE e)

Backoff(r) ==
    /\ rq[r].pc = "backoff"
    /\ \/ rq' = Step(r, "get")
       \/ rq[r].ctx /\ rq' = Return(rq, r, "ctx")
    /\ UNCHANGED <<opt, pool, cc>>

\* Faulty variant: the reservation of a request that got no stream is kept.
KeepReservation(k, r) == k

\* cleanupWriteRequest: a request without a stream returns its reservation.
ReturnReservation(k, r) == IF rq[r].id = 0 THEN DecrReserved(k) ELSE k

ForgottenWakes(q, k, c, r) == IF r \in k.streams THEN Broadcast(q, c) ELSE q

\* forgetStreamID: the stream is gone; a connection that will take no more
\* requests is closed with its last stream.
Forget(k, r) ==
    LET left == k.streams \ {r}
        closeOnIdle == k.single \/ k.noReuse \/ opt.noKeepAlive \/ k.away # NoAway
    IN  IF r \notin k.streams THEN k
        ELSE [k EXCEPT !.streams = left,
                       !.closed = k.closed \/ (closeOnIdle /\ k.reserved = 0 /\ left = {})]

Cleanup(r) ==
    LET c == rq[r].conn
        k == ReturnReservation(cc[c], r)
        e == IF rq[r].resp THEN "none" ELSE rq[r].abort
    IN  /\ rq[r].pc = "cleanup" \/ (rq[r].pc = "active" /\ rq[r].abort # "none")
        /\ cc' = ConnBecomes(c, Forget(k, r))
        /\ rq' = AfterRoundTrip(ForgottenWakes(rq, k, c, r), r, e)
        /\ UNCHANGED <<opt, pool>>

-----------------------------------------------------------------------------
(* The server, and the handlers of the frames it sends.  It runs a request *)
(* at most once per stream, never one it refuses with RST_STREAM or GOAWAY. *)

Live(r) == rq[r].pc = "active" /\ cc[rq[r].conn].reading /\ r \in cc[rq[r].conn].streams

ServerRuns(r) ==
    /\ Live(r) /\ ~rq[r].ran /\ rq[r].abort # "refused"
    /\ cc[rq[r].conn].away # NoAway => rq[r].id <= cc[rq[r].conn].away
    /\ rq' = Becomes(r, [rq[r] EXCEPT !.ran = TRUE, !.exec = rq[r].exec + 1])
    /\ UNCHANGED <<opt, pool, cc>>

\* processHeaders: the response arrives.
ServerResponds(r) ==
    /\ Live(r) /\ rq[r].ran /\ ~rq[r].resp /\ rq[r].abort = "none"
    /\ rq' = Becomes(r, [rq[r] EXCEPT !.resp = TRUE])
    /\ UNCHANGED <<opt, pool, cc>>

\* endStream: peerClosed lets writeRequest return.
ServerEnds(r) ==
    /\ Live(r) /\ rq[r].resp /\ rq[r].abort = "none"
    /\ rq' = Step(r, "cleanup")
    /\ UNCHANGED <<opt, pool, cc>>

\* processResetStream.
ServerResets(r, e, protocol) ==
    /\ Live(r) /\ rq[r].conn \in Unruly /\ rq[r].abort = "none"
    /\ e = "refused" => ~rq[r].ran
    /\ cc' = IF protocol
             THEN ConnBecomes(rq[r].conn, [cc[rq[r].conn] EXCEPT !.noReuse = TRUE]) ELSE cc
    /\ rq' = Abort(rq, rq[r].conn, {r}, e)
    /\ UNCHANGED <<opt, pool>>

\* processSettings, as far as MAX_CONCURRENT_STREAMS goes: nobody is woken.
ServerSettings(c, m) ==
    /\ cc[c].reading /\ ~cc[c].closed /\ m # cc[c].max
    /\ cc' = ConnBecomes(c, [cc[c] EXCEPT !.max = m])
    /\ UNCHANGED <<opt, pool, rq>>

\* processGoAway and setGoAway: streams above last are aborted, to be sent again
\* elsewhere unless the error concerns the first stream.  A server may repeat
\* GOAWAY with a lower last, never one below what it has run.  (Only the ids in
\* use, and errors where stream 1 is, make a difference.)
ServerGoAway(c, last, bad) ==
    LET err == IF cc[c].away # NoAway THEN cc[c].awayErr \/ bad ELSE bad
        above(one) == {r \in cc[c].streams : rq[r].id > last
                                             /\ (one = (rq[r].id = 1 /\ err))}
    IN  /\ cc[c].reading /\ ~cc[c].closed
        /\ last \in {0} \cup {rq[r].id : r \in cc[c].streams}
        /\ bad => \E r \in cc[c].streams : rq[r].id = 1
        /\ cc[c].away = NoAway \/ last < cc[c].away
        /\ \A r \in cc[c].streams : rq[r].ran => rq[r].id <= last
        /\ cc' = ConnBecomes(c, [cc[c] EXCEPT !.away = last, !.awayErr = err])
        /\ rq' = Abort(Abort(rq, c, above(TRUE), "lost"), c, above(FALSE), "refused")
        /\ conns' = MarkDead(c)
        /\ UNCHANGED <<opt, dialing, adding>>

\* readLoop ends: the server hung up, broke the protocol, or the connection was
\* closed on this side.  cleanup aborts every stream the server had not ended.
\* (What the connection knew of limits and GOAWAY no longer matters.)
ReadLoopEnds(c) ==
    /\ cc[c].reading
    /\ conns' = MarkDead(c)
    /\ cc' = ConnBecomes(c, [NewCC EXCEPT !.born = TRUE, !.closed = TRUE,
                                          !.streams = cc[c].streams, !.hdr = cc[c].hdr,
                                          !.reserved = cc[c].reserved])
    /\ rq' = Abort(rq, c, {r \in cc[c].streams : rq[r].pc # "cleanup"}, "lost")
    /\ UNCHANGED <<opt, dialing, adding>>

\* closeForLostPing.
LostPing(c) ==
    /\ cc[c].reading /\ ~cc[c].closed
    /\ cc' = ConnBecomes(c, [cc[c] EXCEPT !.closed = TRUE])
    /\ rq' = Abort(rq, c, cc[c].streams, "lost")
    /\ UNCHANGED <<opt, pool>>

IsIdle(k) == k.streams = {} /\ k.reserved = 0

\* CloseIdleConnections: closeIfIdle on every connection of the pool.
CloseIdleConnections ==
    /\ \E c \in ToSet(conns) : IsIdle(cc[c]) /\ ~cc[c].closed
    /\ cc' = [c \in CC |-> IF c \in ToSet(conns) /\ IsIdle(cc[c])
                           THEN [cc[c] EXCEPT !.closed = TRUE] ELSE cc[c]]
    /\ UNCHANGED <<opt, pool, rq>>

-----------------------------------------------------------------------------
Client(r) ==
    \/ AddConnIfNeeded(r) \/ (\E c \in CC : AddConnRun(r, c))
    \/ AddConnDone(r) \/ AddConnFails(r)
    \/ GetReserve(r) \/ GetStartDial(r) \/ (\E c \in CC : GetOwn(r, c))
    \/ GetOwnFails(r) \/ DialedReserve(r) \/ DialedAgain(r)
    \/ LockHeader(r) \/ LockCancelled(r) \/ Wake(r) \/ WriteHeaders(r)
    \/ StreamTimeout(r) \/ RoundTripCancelled(r)
    \/ BodyClosed(r) \/ Backoff(r) \/ Cleanup(r)

Dialer == (\E c \in CC : DialConn(c)) \/ DialSucceeds \/ DialFails

Server ==
    \/ \E r \in Req : \/ ServerRuns(r) \/ ServerResponds(r) \/ ServerEnds(r)
                      \/ \E e \in {"refused", "lost"} : ServerResets(r, e, FALSE)
                      \/ ServerResets(r, "refused", TRUE)
    \/ \E c \in Unruly :
          \/ \E m \in MaxStreams : ServerSettings(c, m)
          \/ \E last \in 0..MaxID, bad \in BOOLEAN : ServerGoAway(c, last, bad)
          \/ LostPing(c)
    \/ \E c \in CC : (c \in Unruly \/ cc[c].closed) /\ ReadLoopEnds(c)

AllDone == (\A r \in Req : rq[r].pc = "done") /\ UNCHANGED vars

Next ==
    \/ \E r \in Req : Client(r) \/ CtxDone(r) \/ WriteFails(r)
    \/ Dialer \/ Server \/ CloseIdleConnections
    \/ AllDone

Spec == Init /\ [][Next]_vars

-----------------------------------------------------------------------------
(* Properties.                                                             *)

\* Whatever is refused, reset, cut off or sent again, the server runs a request
\* at most once (shouldRetryRequest, setGoAway, cleanup).
ExecutedOnce == \A r \in Req : rq[r].exec <= 1

\* A body that cannot be had again goes out on one stream at most
\* (shouldRetryRequest: only errClientConnUnusable, before the body was touched).
OneShotBodySentOnce == \A r \in Req : Body[r] = "once" => rq[r].sent <= 1

\* streamsReserved never counts a reservation nobody is going to use or return:
\* such a connection would refuse requests and never be closed as idle.
ReservationsBacked ==
    \A c \in CC : cc[c].reserved <= Cardinality({r \in Req : rq[r].conn = c /\ rq[r].held})

\* A request is not failed with the cancellation of another one whose dial it
\* shared (shouldRetryDial).
CancelledByItself == \A r \in Req : rq[r].result = "ctx" => rq[r].ctx

\* After GOAWAY no stream above the last one named goes on: each is aborted, and
\* none is opened later by a request that had its reservation before.
NoneAboveGoAway ==
    \A c \in CC : \A r \in cc[c].streams :
        cc[c].away # NoAway /\ rq[r].id > cc[c].away => rq[r].abort # "none"
=============================================================================
