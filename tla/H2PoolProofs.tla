--------------------------- MODULE H2PoolProofs ---------------------------
(***************************************************************************)
(* The safety properties of the HTTP/2 pool, for any number of requests,   *)
(* connections and streams.                                                *)
(*                                                                         *)
(* RqFine says what is known of each request by itself and carries the     *)
(* properties about retries; Streams, NoneAboveGoAway and                  *)
(* ReservationsBacked relate requests and connections.  Most steps leave a *)
(* request quietly on its connection or away from all of them (Plain);     *)
(* taking and returning a reservation, opening and forgetting a stream,    *)
(* GOAWAY and the end of a dial are looked at one by one.                  *)
(***************************************************************************)
EXTENDS H2Pool, FiniteSetTheorems, WellFoundedInduction, TLAPS

Places  == {"add", "adding", "addwait", "added", "get", "dialwait", "dialed", "lock", "slot",
            "headers", "active", "cleanup", "backoff", "done"}
Results == {"none", "ok", "ctx", "error"}
SomeReq == Req \cup {Nobody}
SomeConn == CC \cup {NoConn}
ReqSet  == SUBSET Req
LastID  == Nat \cup {NoAway}

CallRec == [err : Errors, res : SomeConn, ctx : SomeReq]
OptRec  == [strict : BOOLEAN, noKeepAlive : BOOLEAN, close : ReqSet]
ConnRec == [born : BOOLEAN, single : BOOLEAN, closed : BOOLEAN, reading : BOOLEAN,
            noReuse : BOOLEAN, away : LastID, awayErr : BOOLEAN, streams : ReqSet,
            reserved : Nat, next : Nat, max : Nat, hdr : SomeReq]
RqRec   == [pc : Places, conn : SomeConn, id : Nat, held : BOOLEAN, tries : Nat, ctx : BOOLEAN,
            abort : Errors, resp : BOOLEAN, woken : BOOLEAN, call : CallRec, result : Results,
            sent : Nat, ran : BOOLEAN, exec : Nat]

\* The type invariant.
Types ==
    /\ opt \in OptRec /\ conns \in Seq(CC) /\ dialing \in CallRec /\ adding \in SomeReq
    /\ cc \in [CC -> ConnRec]
    /\ rq \in [Req -> RqRec]

\* The places where a request may have a stream, and those with a connection.
OnStream == {"headers", "active", "cleanup"}
OnIts    == {"added", "lock", "slot"} \cup OnStream

\* What is known of a request in state k.  It has a connection where it needs one,
\* a reservation only until it has a stream, and an error only for cause.
Placed(k) ==
    /\ k.pc \in OnIts => k.conn \in CC
    /\ k.held => k.pc \in {"lock", "cleanup"} /\ k.id = 0 /\ k.conn \in CC
    /\ k.pc \notin OnStream => k.id = 0
    /\ k.abort = "unusable" => k.pc = "cleanup"
    /\ k.pc = "dialed" /\ k.call.err = "none" => k.call.res \in CC
    /\ k.abort = "ctx" \/ k.result = "ctx" => k.ctx

\* The server ran it at most once, and a request it ran is not sent again.
Once(k) ==
    /\ k.exec <= 1
    /\ k.exec = 1 => k.ran \/ k.pc = "done"
    /\ k.ran => k.pc \in {"active", "cleanup"} /\ k.abort \notin {"unusable", "refused"}

\* A one-shot body that went out leaves the request on its stream to the end.
SentOnce(r, k) ==
    Body[r] = "once" =>
        /\ k.sent <= 1
        /\ k.sent = 1 => k.pc \in {"active", "cleanup"} /\ k.abort # "unusable"

Fine(r, k) == Placed(k) /\ Once(k) /\ SentOnce(r, k)

AllFine == \A r \in Req : Fine(r, rq[r])

\* The part of the invariant that is about one request at a time.
RqFine == rq \in [Req -> RqRec] /\ AllFine

\* No dial is cancelled for a context that has not ended.
DialsTold ==
    /\ dialing.err = "none"
    /\ \A r \in Req : rq[r].pc = "dialed" /\ rq[r].call.err = "ctx" =>
          rq[r].call.ctx \in Req /\ rq[rq[r].call.ctx].ctx

\* A stream belongs to a request that is on that connection.
Streams == \A c \in CC : \A r \in cc[c].streams : rq[r].conn = c /\ rq[r].pc \in OnStream

\* The requests whose reservation on c is still to be used or returned.
Holders(c) == {r \in Req : rq[r].conn = c /\ rq[r].held}

\* The inductive invariant.
H2Inv == Types /\ AllFine /\ DialsTold /\ Streams /\ NoneAboveGoAway /\ ReservationsBacked

-----------------------------------------------------------------------------
(* Values, records and updates.                                            *)

\* The values the constants and the initial records have.
LEMMA Constants ==
    /\ Nobody \notin Req /\ NoConn \notin CC /\ NoConn \in SomeConn /\ Nobody \in SomeReq
    /\ \A r \in Req : r \in SomeReq
    /\ \A c \in CC : c \in SomeConn
    /\ NoCall \in CallRec /\ NoCall.err = "none"
    /\ NewCC \in ConnRec /\ NewRq \in RqRec
    /\ NewCC.streams = {} /\ NewCC.reserved = 0
    /\ NewRq.conn = NoConn /\ NewRq.held = FALSE /\ NewRq.abort = "none"
    /\ NewRq.ran = FALSE /\ NewRq.sent = 0
    /\ NewRq.result = "none" /\ NewRq.call = NoCall /\ NewRq.id = 0
  BY H2PoolConstants
     DEF CC, NoConn, SomeConn, SomeReq, NoCall, CallRec, Errors, NewCC, ConnRec, NewRq, RqRec,
         LastID, NoAway, ReqSet, Places, Results

\* The names of places and errors are places and errors.
LEMMA Values ==
    /\ \A p \in {"add", "adding", "addwait", "added", "get", "dialwait", "dialed",
                 "lock", "slot", "headers", "active", "cleanup", "backoff",
                         "done"} : p \in Places
    /\ \A e \in {"none", "unusable", "refused", "ctx", "lost"} : e \in Errors
  BY DEF Places, Errors

\* Becomes changes one request.
LEMMA Becoming ==
  ASSUME rq \in [Req -> RqRec], NEW r \in Req, NEW k \in RqRec
  PROVE  /\ Becomes(r, k) \in [Req -> RqRec]
         /\ Becomes(r, k)[r] = k
         /\ \A q \in Req : q # r => Becomes(r, k)[q] = rq[q]
  BY DEF Becomes

\* ConnBecomes changes one connection.
LEMMA ConnBecoming ==
  ASSUME cc \in [CC -> ConnRec], NEW c \in CC, NEW k \in ConnRec
  PROVE  /\ ConnBecomes(c, k) \in [CC -> ConnRec]
         /\ ConnBecomes(c, k)[c] = k
         /\ \A d \in CC : d # c => ConnBecomes(c, k)[d] = cc[d]
  BY DEF ConnBecomes

\* What Return leaves of a request: its context and what the server did.
LEMMA ReturnView ==
  ASSUME NEW q \in [Req -> RqRec], NEW r \in Req, NEW res \in Errors \cup {"ok"}
  PROVE  \E k \in RqRec :
            /\ Return(q, r, res) = [q EXCEPT ![r] = k]
            /\ k.pc = "done" /\ k.conn = NoConn /\ k.id = 0 /\ k.held = FALSE
            /\ k.abort = "none" /\ k.ran = FALSE
            /\ k.sent = 0 /\ k.ctx = q[r].ctx /\ k.exec = q[r].exec
            /\ (k.result = "ctx" <=> res = "ctx")
  <1>1. PICK t \in Results : t = IF res \in {"ok", "ctx"} THEN res ELSE "error" BY DEF Results
  <1>2. PICK k : k = [NewRq EXCEPT !.pc = "done", !.ctx = q[r].ctx, !.exec = q[r].exec,
              !.result = t]
    OBVIOUS
  <1>3. k \in RqRec BY <1>2, Constants DEF RqRec, Places
  <1>4. Return(q, r, res) = [q EXCEPT ![r] = k] BY <1>1, <1>2, Zenon DEF Return
  <1>5. /\ k.pc = "done" /\ k.conn = NoConn /\ k.id = 0 /\ k.held = FALSE
        /\ k.abort = "none" /\ k.ran = FALSE
        /\ k.sent = 0 /\ k.ctx = q[r].ctx /\ k.exec = q[r].exec /\ k.result = t
    BY <1>2, Constants DEF NewRq
  <1>6. k.result = "ctx" <=> res = "ctx" BY <1>1, <1>5
  <1>. QED BY <1>3, <1>4, <1>5, <1>6

\* What Broadcast and Abort leave of a request.
Same(k, m) ==
    /\ k.pc = m.pc /\ k.conn = m.conn /\ k.id = m.id /\ k.held = m.held /\ k.tries = m.tries
    /\ k.ctx = m.ctx /\ k.resp = m.resp /\ k.call = m.call /\ k.result = m.result
    /\ k.sent = m.sent
    /\ k.ran = m.ran /\ k.exec = m.exec

\* Broadcast only wakes.
LEMMA BroadcastView ==
  ASSUME NEW q \in [Req -> RqRec], NEW c
  PROVE  /\ Broadcast(q, c) \in [Req -> RqRec]
         /\ \A r \in Req : Same(Broadcast(q, c)[r], q[r])
                 /\ Broadcast(q, c)[r].abort = q[r].abort
  <1>1. ASSUME NEW r \in Req
        PROVE  /\ Broadcast(q, c)[r] \in RqRec
               /\ Same(Broadcast(q, c)[r], q[r]) /\ Broadcast(q, c)[r].abort = q[r].abort
    <2>1. q[r] \in RqRec OBVIOUS
    <2>2. PICK b \in BOOLEAN : b = (q[r].woken \/ (q[r].pc = "slot" /\ q[r].conn = c))
      BY <2>1 DEF RqRec
    <2>3. Broadcast(q, c)[r] = [q[r] EXCEPT !.woken = b] BY <2>2 DEF Broadcast
    <2>. QED BY <2>1, <2>3 DEF RqRec, Same
  <1>2. Broadcast(q, c) = [r \in Req |-> Broadcast(q, c)[r]] BY DEF Broadcast
  <1>. QED BY <1>1, <1>2

\* Abort only wakes, and gives an error to the streams in S that had none.
LEMMA AbortView ==
  ASSUME NEW q \in [Req -> RqRec], NEW c, NEW S, NEW e \in Errors
  PROVE  /\ Abort(q, c, S, e) \in [Req -> RqRec]
         /\ \A r \in Req :
               /\ Same(Abort(q, c, S, e)[r], q[r])
               /\ Abort(q, c, S, e)[r].abort = IF r \in S /\ q[r].abort = "none"
                       THEN e ELSE q[r].abort
  <1>1. PICK p : p = [r \in Req |-> IF r \in S /\ q[r].abort = "none"
              THEN [q[r] EXCEPT !.abort = e] ELSE q[r]]
    OBVIOUS
  <1>2. ASSUME NEW r \in Req
        PROVE  /\ p[r] \in RqRec
               /\ Same(p[r], q[r]) /\ p[r].abort = IF r \in S /\ q[r].abort = "none"
                       THEN e ELSE q[r].abort
    <2>1. q[r] \in RqRec OBVIOUS
    <2>2. [q[r] EXCEPT !.abort = e] \in RqRec /\ Same([q[r] EXCEPT !.abort = e], q[r])
          /\ [q[r] EXCEPT !.abort = e].abort = e
      BY <2>1 DEF RqRec, Same
    <2>3. Same(q[r], q[r]) BY DEF Same
    <2>. QED BY <1>1, <2>1, <2>2, <2>3
  <1>3. p \in [Req -> RqRec] BY <1>1, <1>2
  <1>4. Abort(q, c, S, e) = Broadcast(p, c) BY <1>1, Zenon DEF Abort
  <1>5. ASSUME NEW r \in Req PROVE Same(Broadcast(p, c)[r], q[r])
    BY <1>2, <1>3, BroadcastView DEF Same
  <1>6. ASSUME NEW r \in Req
        PROVE Broadcast(p, c)[r].abort = IF r \in S /\ q[r].abort = "none" THEN e
                ELSE q[r].abort
    BY <1>2, <1>3, BroadcastView
  <1>. QED BY <1>3, <1>4, <1>5, <1>6, BroadcastView

-----------------------------------------------------------------------------
(* Each request by itself.                                                 *)

\* One request moves on, into a state that is fine.
LEMMA Moves ==
  ASSUME RqFine, NEW r \in Req, NEW k \in RqRec, Fine(r, k), rq' = Becomes(r, k)
  PROVE  RqFine'
  <1>1. rq' \in [Req -> RqRec] BY Becoming DEF RqFine
  <1>2. ASSUME NEW q \in Req PROVE Fine(q, rq'[q])
    <2>1. CASE q = r BY <2>1, Becoming DEF RqFine
    <2>2. CASE q # r BY <2>2, Becoming DEF RqFine, AllFine
    <2>. QED BY <2>1, <2>2
  <1>. QED BY <1>1, <1>2 DEF RqFine, AllFine

\* Aborting streams is fine when the error is true of them.
LEMMA Aborts ==
  ASSUME NEW q \in [Req -> RqRec], \A r \in Req : Fine(r, q[r]), NEW c, NEW S,
         NEW e \in {"refused", "ctx", "lost"},
         \A r \in Req : r \in S /\ q[r].abort = "none" => (e = "refused" => ~q[r].ran)
                 /\ (e = "ctx" => q[r].ctx)
  PROVE  Abort(q, c, S, e) \in [Req -> RqRec] /\ \A r \in Req : Fine(r, Abort(q, c, S, e)[r])
  <1>0. e \in Errors BY Values
  <1>1. PICK p \in [Req -> RqRec] : p = Abort(q, c, S, e) BY <1>0, AbortView
  <1>2. ASSUME NEW r \in Req PROVE Fine(r, p[r])
    <2>1. Same(p[r], q[r]) /\ p[r].abort = IF r \in S /\ q[r].abort = "none" THEN e
                ELSE q[r].abort
      BY <1>0, <1>1, AbortView
    <2>2. Fine(r, q[r]) OBVIOUS
    <2>. QED BY <2>1, <2>2 DEF Same, Fine, Placed, Once, SentOnce
  <1>. QED BY <1>1, <1>2

\* A request that returns is fine.
LEMMA Returned ==
  ASSUME NEW q \in [Req -> RqRec], NEW r \in Req, Fine(r, q[r]),
         NEW res \in Errors \cup {"ok"}, res = "ctx" => q[r].ctx
  PROVE  \E k \in RqRec : Return(q, r, res) = [q EXCEPT ![r] = k] /\ Fine(r, k)
          /\ k.pc = "done" /\ ~k.held /\ k.ctx = q[r].ctx
  <1>1. PICK k \in RqRec :
            /\ Return(q, r, res) = [q EXCEPT ![r] = k]
            /\ k.pc = "done" /\ k.conn = NoConn /\ k.id = 0 /\ k.held = FALSE
            /\ k.abort = "none" /\ k.ran = FALSE
            /\ k.sent = 0 /\ k.ctx = q[r].ctx /\ k.exec = q[r].exec
            /\ (k.result = "ctx" <=> res = "ctx")
    BY ReturnView
  <1>2. Fine(r, k) BY <1>1 DEF Fine, Placed, Once, SentOnce, OnIts, OnStream, RqRec
  <1>. QED BY <1>1, <1>2

\* A request that only changes place is fine.
LEMMA StepFine ==
  ASSUME NEW r \in Req, NEW k \in RqRec, Fine(r, k), NEW p \in Places,
         k.pc \notin {"active", "cleanup", "done", "lock"},
         p \in OnIts => k.conn \in CC, p # "dialed", k.pc \in OnStream => p \in OnStream
  PROVE  [k EXCEPT !.pc = p] \in RqRec /\ Fine(r, [k EXCEPT !.pc = p])
  <1>1. PICK m : m = [k EXCEPT !.pc = p] OBVIOUS
  <1>2. m \in RqRec BY <1>1 DEF RqRec
  <1>3. /\ m.pc = p /\ m.conn = k.conn /\ m.id = k.id /\ m.held = k.held
        /\ m.abort = k.abort /\ m.ctx = k.ctx
        /\ m.call = k.call /\ m.result = k.result /\ m.sent = k.sent /\ m.ran = k.ran
        /\ m.exec = k.exec
    BY <1>1 DEF RqRec
  <1>4. Fine(r, m) BY <1>3 DEF Fine, Placed, Once, SentOnce, RqRec
  <1>. QED BY <1>1, <1>2, <1>4

\* Every step leaves every request in a state that is fine.
LEMMA RqFineStep ==
  ASSUME Types, AllFine, DialsTold, Next PROVE RqFine'
  <1>. USE Values
  <1>0. RqFine /\ (\A r \in Req : rq[r] \in RqRec /\ Fine(r, rq[r])) /\ cc \in [CC -> ConnRec]
    BY DEF RqFine, Types, AllFine

  <1>1. ASSUME NEW r \in Req, AddConnIfNeeded(r) PROVE RqFine'
    <2>1. PICK p \in {"get", "adding", "addwait"} : rq' = Step(r, p) BY <1>1 DEF AddConnIfNeeded
    <2>2. [rq[r] EXCEPT !.pc = p] \in RqRec /\ Fine(r, [rq[r] EXCEPT !.pc = p])
      BY <1>1, <1>0, StepFine DEF AddConnIfNeeded, OnIts, OnStream
    <2>. QED BY <1>0, <2>1, <2>2, Moves DEF Step
  <1>2. ASSUME NEW r \in Req, NEW c \in CC, AddConnRun(r, c) PROVE RqFine'
    <2>1. PICK k : k = [rq[r] EXCEPT !.pc = "added", !.conn = c] OBVIOUS
    <2>2. k \in RqRec BY <1>0, <2>1, Constants DEF RqRec
    <2>3. Fine(r, k)
      BY <1>2, <1>0, <2>1 DEF AddConnRun, Fine, Placed, Once, SentOnce, RqRec, OnIts, OnStream
    <2>4. rq' = Becomes(r, k) BY <1>2, <2>1 DEF AddConnRun
    <2>. QED BY <1>0, <2>2, <2>3, <2>4, Moves
  <1>3. ASSUME NEW r \in Req, AddConnDone(r) PROVE RqFine'
    <2>1. ASSUME NEW s \in Req, s = r \/ rq[s].pc = "addwait"
          PROVE  [rq[s] EXCEPT !.pc = "get", !.conn = NoConn] \in RqRec
                  /\ Fine(s, [rq[s] EXCEPT !.pc = "get", !.conn = NoConn])
      <3>1. PICK k : k = [rq[s] EXCEPT !.pc = "get", !.conn = NoConn] OBVIOUS
      <3>2. k \in RqRec BY <1>0, <3>1, Constants DEF RqRec
      <3>3. Fine(s, k)
        BY <1>3, <1>0, <2>1, <3>1
           DEF AddConnDone, Fine, Placed, Once, SentOnce, RqRec, OnIts, OnStream
      <3>. QED BY <3>1, <3>2, <3>3
    <2>2. rq' = [s \in Req |-> IF s = r \/ rq[s].pc = "addwait"
                THEN [rq[s] EXCEPT !.pc = "get", !.conn = NoConn] ELSE rq[s]]
      BY <1>3 DEF AddConnDone
    <2>3. ASSUME NEW s \in Req PROVE rq'[s] \in RqRec /\ Fine(s, rq'[s]) BY <1>0, <2>1, <2>2
    <2>. QED BY <2>2, <2>3 DEF RqFine, AllFine
  <1>4. ASSUME NEW r \in Req, AddConnFails(r) PROVE RqFine'
    <2>1. rq' = [s \in Req |-> IF s = r \/ rq[s].pc = "addwait"
                THEN Return(rq, s, "lost")[s] ELSE rq[s]]
      BY <1>4 DEF AddConnFails
    <2>2. ASSUME NEW s \in Req
          PROVE  Return(rq, s, "lost")[s] \in RqRec /\ Fine(s, Return(rq, s, "lost")[s])
      <3>1. PICK k \in RqRec : Return(rq, s, "lost") = [rq EXCEPT ![s] = k] /\ Fine(s, k)
        BY <1>0, Returned DEF RqFine
      <3>. QED BY <1>0, <3>1 DEF RqFine
    <2>3. ASSUME NEW s \in Req PROVE rq'[s] \in RqRec /\ Fine(s, rq'[s]) BY <1>0, <2>1, <2>2
    <2>. QED BY <2>1, <2>3 DEF RqFine, AllFine
  <1>5. ASSUME NEW r \in Req, NEW c \in CC, Reserve(r, c), rq[r].pc \in {"get", "dialed"}
        PROVE  RqFine'
    <2>1. PICK k : k = [rq[r] EXCEPT !.pc = "lock", !.conn = c, !.held = TRUE, !.call = NoCall]
      OBVIOUS
    <2>2. k \in RqRec BY <1>0, <2>1, Constants DEF RqRec
    <2>3. Fine(r, k)
      BY <1>5, <1>0, <2>1 DEF Fine, Placed, Once, SentOnce, RqRec, OnIts, OnStream
    <2>4. rq' = Becomes(r, k) BY <1>5, <2>1 DEF Reserve
    <2>. QED BY <1>0, <2>2, <2>3, <2>4, Moves
  <1>6. ASSUME NEW r \in Req, GetReserve(r) PROVE RqFine'
    <2>1. PICK c \in CC : Reserve(r, c) BY <1>6 DEF GetReserve, Types
    <2>. QED BY <1>6, <1>5, <2>1 DEF GetReserve
  <1>7. ASSUME NEW r \in Req, GetStartDial(r) PROVE RqFine'
    <2>1. PICK k : k = [rq[r] EXCEPT !.pc = "dialwait"] OBVIOUS
    <2>2. k \in RqRec /\ Fine(r, k)
      BY <1>7, <1>0, <2>1, StepFine DEF GetStartDial, OnIts, OnStream
    <2>3. rq' = Becomes(r, k) BY <1>7, <2>1 DEF GetStartDial, Step
    <2>. QED BY <1>0, <2>2, <2>3, Moves
  <1>8. ASSUME NEW r \in Req, NEW c \in CC, GetOwn(r, c) PROVE RqFine'
    <2>1. PICK k : k = [rq[r] EXCEPT !.pc = "lock", !.conn = c] OBVIOUS
    <2>2. k \in RqRec BY <1>0, <2>1, Constants DEF RqRec
    <2>3. Fine(r, k)
      BY <1>8, <1>0, <2>1 DEF GetOwn, Fine, Placed, Once, SentOnce, RqRec, OnIts, OnStream
    <2>4. rq' = Becomes(r, k) BY <1>8, <2>1 DEF GetOwn
    <2>. QED BY <1>0, <2>2, <2>3, <2>4, Moves
  <1>9. ASSUME NEW r \in Req, GetOwnFails(r) PROVE RqFine'
    <2>1. PICK e \in {"ctx", "lost"} : rq' = Return(rq, r, e) /\ (e = "ctx" => rq[r].ctx)
      BY <1>9 DEF GetOwnFails
    <2>2. PICK k \in RqRec : Return(rq, r, e) = [rq EXCEPT ![r] = k] /\ Fine(r, k)
      BY <1>0, <2>1, Returned DEF RqFine
    <2>3. rq' = Becomes(r, k) BY <2>1, <2>2 DEF Becomes
    <2>. QED BY <1>0, <2>2, <2>3, Moves
  <1>10. ASSUME NEW r \in Req, DialedReserve(r) PROVE RqFine'
    <2>1. rq[r].call.res \in CC BY <1>10, <1>0 DEF DialedReserve, Fine, Placed
    <2>. QED BY <1>10, <1>5, <2>1 DEF DialedReserve
  <1>11. ASSUME NEW r \in Req, DialedAgain(r) PROVE RqFine'
    <2>1. CASE rq' = Becomes(r, [rq[r] EXCEPT !.pc = "get", !.call = NoCall])
      <3>1. PICK k : k = [rq[r] EXCEPT !.pc = "get", !.call = NoCall] OBVIOUS
      <3>2. k \in RqRec BY <1>0, <3>1, Constants DEF RqRec
      <3>3. Fine(r, k)
        BY <1>11, <1>0, <3>1
           DEF DialedAgain, Fine, Placed, Once, SentOnce, RqRec, OnIts, OnStream
      <3>. QED BY <1>0, <2>1, <3>1, <3>2, <3>3, Moves
    <2>2. CASE rq' = Return(rq, r, rq[r].call.err) /\ rq[r].call.err # "none"
                /\ ~ShouldRetryDial(r)
      <3>1. rq[r].call.err \in Errors BY <1>0 DEF RqRec, CallRec
      <3>2. rq[r].call.err = "ctx" => rq[r].ctx
        BY <1>11, <2>2 DEF DialedAgain, ShouldRetryDial, DialsTold
      <3>3. PICK k \in RqRec : Return(rq, r, rq[r].call.err) = [rq EXCEPT ![r] = k]
                  /\ Fine(r, k)
        BY <1>0, <3>1, <3>2, Returned DEF RqFine
      <3>4. rq' = Becomes(r, k) BY <2>2, <3>3 DEF Becomes
      <3>. QED BY <1>0, <3>3, <3>4, Moves
    <2>. QED BY <1>11, <2>1, <2>2 DEF DialedAgain
  <1>12. ASSUME NEW r \in Req, NEW k \in ConnRec, NEW n, AwaitOpenSlot(r, k, n),
                rq[r].pc \in {"lock", "slot"}
         PROVE  RqFine'
    <2>1. CASE rq' = Becomes(r, [rq[r] EXCEPT !.pc = "cleanup", !.held = FALSE,
                !.abort = OrElse(rq[r].abort, "unusable")])
      <3>1. PICK a \in Errors : a = OrElse(rq[r].abort, "unusable") BY <1>0 DEF OrElse, RqRec
      <3>2. PICK m : m = [rq[r] EXCEPT !.pc = "cleanup", !.held = FALSE, !.abort = a] OBVIOUS
      <3>3. m \in RqRec BY <1>0, <3>2 DEF RqRec
      <3>4. m.abort = OrElse(rq[r].abort, "unusable") BY <1>0, <3>1, <3>2 DEF RqRec
      <3>5. Fine(r, m)
        BY <1>12, <1>0, <3>2, <3>4
           DEF OrElse, Fine, Placed, Once, SentOnce, RqRec, OnIts, OnStream
      <3>. QED BY <1>0, <2>1, <3>1, <3>2, <3>3, <3>5, Moves
    <2>2. CASE rq' = Becomes(r, [rq[r] EXCEPT !.pc = "headers", !.id = k.next, !.held = FALSE])
      <3>1. PICK i \in Nat : i = k.next BY DEF ConnRec
      <3>2. PICK m : m = [rq[r] EXCEPT !.pc = "headers", !.id = i, !.held = FALSE] OBVIOUS
      <3>3. m \in RqRec BY <1>0, <3>2 DEF RqRec
      <3>5. Fine(r, m)
        BY <1>12, <1>0, <3>2 DEF Fine, Placed, Once, SentOnce, RqRec, OnIts, OnStream
      <3>. QED BY <1>0, <2>2, <3>1, <3>2, <3>3, <3>5, Moves
    <2>3. CASE rq' = Becomes(r, [rq[r] EXCEPT !.pc = "slot", !.woken = FALSE, !.held = FALSE])
      <3>2. PICK m : m = [rq[r] EXCEPT !.pc = "slot", !.woken = FALSE, !.held = FALSE] OBVIOUS
      <3>3. m \in RqRec BY <1>0, <3>2 DEF RqRec
      <3>5. Fine(r, m)
        BY <1>12, <1>0, <3>2 DEF Fine, Placed, Once, SentOnce, RqRec, OnIts, OnStream
      <3>. QED BY <1>0, <2>3, <3>2, <3>3, <3>5, Moves
    <2>. QED BY <1>12, <2>1, <2>2, <2>3 DEF AwaitOpenSlot
  <1>13. ASSUME NEW r \in Req, LockHeader(r) PROVE RqFine'
    <2>1. rq[r].conn \in CC BY <1>13, <1>0 DEF LockHeader, Fine, Placed, OnIts
    <2>2. DecrReserved(cc[rq[r].conn]) \in ConnRec
      <3>1. cc[rq[r].conn] \in ConnRec BY <1>0, <2>1
      <3>2. PICK n \in Nat : n = IF cc[rq[r].conn].reserved > 0
                  THEN cc[rq[r].conn].reserved - 1 ELSE 0
        BY <3>1 DEF ConnRec
      <3>. QED BY <3>1, <3>2 DEF DecrReserved, ConnRec
    <2>. QED BY <1>13, <1>12, <2>2 DEF LockHeader
  <1>14. ASSUME NEW r \in Req, LockCancelled(r) PROVE RqFine'
    <2>1. PICK k : k = [rq[r] EXCEPT !.pc = "cleanup", !.abort = "ctx"] OBVIOUS
    <2>2. k \in RqRec BY <1>0, <2>1, Constants DEF RqRec
    <2>3. Fine(r, k)
      BY <1>14, <1>0, <2>1
         DEF LockCancelled, Fine, Placed, Once, SentOnce, RqRec, OnIts, OnStream
    <2>4. rq' = Becomes(r, k) BY <1>14, <2>1 DEF LockCancelled
    <2>. QED BY <1>0, <2>2, <2>3, <2>4, Moves
  <1>15. ASSUME NEW r \in Req, Wake(r) PROVE RqFine'
    <2>1. rq[r].conn \in CC /\ rq[r].pc = "slot" BY <1>15, <1>0 DEF Wake, Fine, Placed, OnIts
    <2>2. CASE rq' = Step(r, "cleanup")
      <3>1. [rq[r] EXCEPT !.pc = "cleanup"] \in RqRec
                  /\ Fine(r, [rq[r] EXCEPT !.pc = "cleanup"])
        BY <1>0, <2>1, StepFine DEF OnIts, OnStream
      <3>. QED BY <1>0, <2>2, <3>1, Moves DEF Step
    <2>3. CASE AwaitOpenSlot(r, cc[rq[r].conn], Cardinality(Pending(rq[r].conn) \ {r}))
      BY <1>12, <1>0, <2>1, <2>3
    <2>. QED BY <1>15, <2>2, <2>3 DEF Wake
  <1>16. ASSUME NEW r \in Req, WriteHeaders(r) PROVE RqFine'
    <2>1. CASE rq' = Becomes(r, [rq[r] EXCEPT !.pc = "cleanup",
                !.abort = OrElse(rq[r].abort, "ctx")]) /\ (rq[r].abort # "none" \/ rq[r].ctx)
      <3>1. PICK a \in Errors : a = OrElse(rq[r].abort, "ctx") BY <1>0 DEF OrElse, RqRec
      <3>2. PICK m : m = [rq[r] EXCEPT !.pc = "cleanup", !.abort = a] OBVIOUS
      <3>3. m \in RqRec BY <1>0, <3>2 DEF RqRec
      <3>4. m.abort = OrElse(rq[r].abort, "ctx") BY <1>0, <3>1, <3>2 DEF RqRec
      <3>5. Fine(r, m)
        BY <1>16, <1>0, <2>1, <3>2, <3>4
           DEF WriteHeaders, OrElse, Fine, Placed, Once, SentOnce, RqRec, OnIts, OnStream
      <3>. QED BY <1>0, <2>1, <3>1, <3>2, <3>3, <3>5, Moves
    <2>2. CASE rq' = Becomes(r, [rq[r] EXCEPT !.pc = "active",
                !.sent = IF Body[r] = "once" THEN rq[r].sent + 1 ELSE rq[r].sent])
               /\ ~(rq[r].abort # "none" \/ rq[r].ctx)
      <3>1. PICK n \in Nat : n = IF Body[r] = "once" THEN rq[r].sent + 1 ELSE rq[r].sent
        BY <1>0 DEF RqRec
      <3>2. PICK m : m = [rq[r] EXCEPT !.pc = "active", !.sent = n] OBVIOUS
      <3>3. m \in RqRec BY <1>0, <3>2 DEF RqRec
      <3>4. m.sent = n /\ m.pc = "active" /\ m.abort = "none" BY <1>0, <2>2, <3>2 DEF RqRec
      <3>5. Placed(m) /\ Once(m)
        BY <1>16, <1>0, <2>2, <3>2 DEF WriteHeaders, Fine, Placed, Once, RqRec, OnIts, OnStream
      <3>6. SentOnce(r, m)
        <4>1. Body[r] = "once" => rq[r].sent = 0
          BY <1>16, <1>0 DEF WriteHeaders, Fine, SentOnce, RqRec
        <4>. QED BY <3>1, <3>4, <4>1 DEF SentOnce
      <3>. QED BY <1>0, <2>2, <3>1, <3>2, <3>3, <3>5, <3>6, Moves DEF Fine
    <2>. QED BY <1>16, <2>1, <2>2 DEF WriteHeaders
  <1>17. ASSUME NEW r \in Req, StreamTimeout(r) PROVE RqFine'
    <2>1. PICK k : k = [rq[r] EXCEPT !.pc = "cleanup", !.abort = "lost"] OBVIOUS
    <2>2. k \in RqRec BY <1>0, <2>1, Constants DEF RqRec
    <2>3. Fine(r, k)
      BY <1>17, <1>0, <2>1
         DEF StreamTimeout, Fine, Placed, Once, SentOnce, RqRec, OnIts, OnStream
    <2>4. rq' = Becomes(r, k) BY <1>17, <2>1 DEF StreamTimeout
    <2>. QED BY <1>0, <2>2, <2>3, <2>4, Moves
  <1>18. ASSUME NEW r \in Req, CtxDone(r) PROVE RqFine'
    <2>1. PICK k : k = [rq[r] EXCEPT !.ctx = TRUE] OBVIOUS
    <2>2. k \in RqRec BY <1>0, <2>1, Constants DEF RqRec
    <2>3. Fine(r, k)
      BY <1>18, <1>0, <2>1 DEF CtxDone, Fine, Placed, Once, SentOnce, RqRec, OnIts, OnStream
    <2>4. rq' = Becomes(r, k) BY <1>18, <2>1 DEF CtxDone
    <2>. QED BY <1>0, <2>2, <2>3, <2>4, Moves
  <1>19. ASSUME NEW r \in Req, RoundTripCancelled(r) PROVE RqFine'
    <2>1. rq' = Abort(rq, rq[r].conn, {r}, "ctx") BY <1>19 DEF RoundTripCancelled
    <2>2. \A q \in Req : q \in {r} => q = r /\ ("ctx" = "ctx" => rq[q].ctx)
      BY <1>19 DEF RoundTripCancelled
    <2>. QED BY <1>0, <2>1, <2>2, Aborts DEF RqFine, AllFine
  <1>20. ASSUME NEW r \in Req, BodyClosed(r) PROVE RqFine'
    <2>1. rq' = Abort(rq, rq[r].conn, {r}, "lost") BY <1>20 DEF BodyClosed
    <2>2. \A q \in Req : q \in {r} => q = r /\ ("lost" = "ctx" => rq[q].ctx)
      BY <1>20 DEF BodyClosed
    <2>. QED BY <1>0, <2>1, <2>2, Aborts DEF RqFine, AllFine
  <1>21. ASSUME NEW r \in Req, Backoff(r) PROVE RqFine'
    <2>1. CASE rq' = Step(r, "get")
      <3>1. [rq[r] EXCEPT !.pc = "get"] \in RqRec /\ Fine(r, [rq[r] EXCEPT !.pc = "get"])
        BY <1>21, <1>0, StepFine DEF Backoff, OnIts, OnStream
      <3>. QED BY <1>0, <2>1, <3>1, Moves DEF Step
    <2>2. CASE rq' = Return(rq, r, "ctx") /\ rq[r].ctx
      <3>1. PICK k \in RqRec : Return(rq, r, "ctx") = [rq EXCEPT ![r] = k] /\ Fine(r, k)
        BY <1>0, <2>2, Returned DEF RqFine
      <3>2. rq' = Becomes(r, k) BY <2>2, <3>1 DEF Becomes
      <3>. QED BY <1>0, <3>1, <3>2, Moves
    <2>. QED BY <1>21, <2>1, <2>2 DEF Backoff
  <1>22. ASSUME NEW r \in Req, Cleanup(r) PROVE RqFine'
    <2>. DEFINE c == rq[r].conn
                e == IF rq[r].resp THEN "none" ELSE rq[r].abort
    <2>1. PICK q : q = ForgottenWakes(rq, ReturnReservation(cc[c], r), c, r) OBVIOUS
    <2>2. /\ q \in [Req -> RqRec] /\ \A s \in Req : Same(q[s], rq[s])
                /\ q[s].abort = rq[s].abort
      <3>1. \A s \in Req : Same(rq[s], rq[s]) BY DEF Same
      <3>. QED BY <1>0, <2>1, <3>1, BroadcastView DEF ForgottenWakes, RqFine
    <2>3. rq' = AfterRoundTrip(q, r, e) BY <1>22, <2>1 DEF Cleanup
    <2>4. \A s \in Req : Fine(s, q[s]) BY <1>0, <2>2 DEF Same, Fine, Placed, Once, SentOnce
    <2>5. e \in Errors BY <1>0 DEF RqRec
    <2>6. e = "ctx" => q[r].ctx BY <1>0, <2>2 DEF Fine, Placed, Same
    <2>. HIDE DEF e, c
    <2>7. PICK k \in RqRec : rq' = [q EXCEPT ![r] = k] /\ Fine(r, k)
      <3>1. CASE e # "none" /\ q[r].tries <= RetryLimit /\ ShouldRetryRequest(r, e)
        <4>1. PICK p \in Places : p = IF q[r].tries = 0 THEN "get" ELSE "backoff" OBVIOUS
        <4>2. PICK n \in Nat : n = q[r].tries + 1 BY <2>2 DEF RqRec
        <4>3. PICK k : k = [NewRq EXCEPT !.pc = p, !.tries = n, !.ctx = q[r].ctx,
                    !.sent = q[r].sent, !.exec = q[r].exec]
          OBVIOUS
        <4>4. k \in RqRec BY <2>2, <4>3, Constants DEF RqRec
        <4>5. rq' = [q EXCEPT ![r] = k]
          BY <2>3, <3>1, <4>1, <4>2, <4>3, Zenon DEF AfterRoundTrip
        <4>6. /\ k.pc = p /\ k.ctx = q[r].ctx /\ k.sent = q[r].sent
              /\ k.exec = q[r].exec /\ k.held = FALSE /\ k.id = 0
              /\ k.abort = "none" /\ k.ran = FALSE /\ k.result = "none"
          BY <4>3, Constants DEF NewRq
        <4>7. e = rq[r].abort /\ e \in {"unusable", "refused"}
          BY <3>1 DEF e, ShouldRetryRequest, CanRetryError
        <4>8. q[r].exec = 0
          BY <1>22, <1>0, <2>2, <4>7 DEF Cleanup, Fine, Once, Same, RqRec
        <4>9. Body[r] = "once" => q[r].sent = 0
          BY <1>0, <2>2, <3>1, <4>7 DEF Fine, SentOnce, Same, RqRec, ShouldRetryRequest
        <4>10. Placed(k) BY <4>1, <4>6 DEF Placed, OnIts, OnStream
        <4>11. Once(k) BY <4>6, <4>8 DEF Once
        <4>12. SentOnce(r, k) BY <4>6, <4>9 DEF SentOnce
        <4>. QED BY <4>4, <4>5, <4>10, <4>11, <4>12 DEF Fine
      <3>2. CASE ~(e # "none" /\ q[r].tries <= RetryLimit /\ ShouldRetryRequest(r, e))
        <4>1. PICK res \in Errors \cup {"ok"} : res = IF e = "none" THEN "ok" ELSE e BY <2>5
        <4>2. rq' = Return(q, r, res) BY <2>3, <3>2, <4>1, Zenon DEF AfterRoundTrip
        <4>3. res = "ctx" => q[r].ctx BY <2>6, <4>1
        <4>. QED BY <2>2, <2>4, <4>2, <4>3, Returned
      <3>. QED BY <3>1, <3>2
    <2>8. ASSUME NEW s \in Req PROVE rq'[s] \in RqRec /\ Fine(s, rq'[s]) BY <2>2, <2>4, <2>7
    <2>9. rq' = [s \in Req |-> rq'[s]] BY <2>2, <2>7
    <2>. QED BY <2>8, <2>9 DEF RqFine, AllFine
  <1>23. ASSUME NEW r \in Req, WriteFails(r) PROVE RqFine'
    <2>1. [rq[r] EXCEPT !.pc = "cleanup"] \in RqRec /\ Fine(r, [rq[r] EXCEPT !.pc = "cleanup"])
      BY <1>23, <1>0, StepFine DEF WriteFails, Fine, Placed, OnIts, OnStream
    <2>2. PICK q \in [Req -> RqRec] : q = Step(r, "cleanup")
      BY <1>0, <2>1, Becoming DEF Step, RqFine
    <2>3. ASSUME NEW s \in Req PROVE Fine(s, q[s])
      <3>1. CASE s = r BY <1>0, <2>1, <2>2, <3>1, Becoming DEF Step, RqFine
      <3>2. CASE s # r BY <1>0, <2>1, <2>2, <3>2, Becoming DEF Step, RqFine
      <3>. QED BY <3>1, <3>2
    <2>4. rq' = Abort(q, rq[r].conn, cc[rq[r].conn].streams, "lost")
      BY <1>23, <2>2 DEF WriteFails
    <2>. QED BY <2>3, <2>4, Aborts DEF RqFine, AllFine
  <1>24. ASSUME NEW call \in CallRec, DialDone(call), call.err = "none" => call.res \in CC
         PROVE  RqFine'
    <2>1. ASSUME NEW s \in Req, rq[s].pc = "dialwait"
          PROVE  [rq[s] EXCEPT !.pc = "dialed", !.call = call] \in RqRec
                  /\ Fine(s, [rq[s] EXCEPT !.pc = "dialed", !.call = call])
      <3>1. PICK k : k = [rq[s] EXCEPT !.pc = "dialed", !.call = call] OBVIOUS
      <3>2. k \in RqRec BY <1>0, <3>1 DEF RqRec
      <3>3. Fine(s, k)
        BY <1>24, <1>0, <2>1, <3>1 DEF Fine, Placed, Once, SentOnce, RqRec, OnIts, OnStream
      <3>. QED BY <3>1, <3>2, <3>3
    <2>2. rq' = [s \in Req |-> IF rq[s].pc = "dialwait"
                THEN [rq[s] EXCEPT !.pc = "dialed", !.call = call] ELSE rq[s]]
      BY <1>24 DEF DialDone
    <2>3. ASSUME NEW s \in Req PROVE rq'[s] \in RqRec /\ Fine(s, rq'[s]) BY <1>0, <2>1, <2>2
    <2>. QED BY <2>2, <2>3 DEF RqFine, AllFine
  <1>25. CASE DialSucceeds
    <2>1. dialing \in CallRec /\ dialing.res \in CC
      BY <1>25 DEF DialSucceeds, Types, CallRec, SomeConn
    <2>. QED BY <1>25, <1>24, <2>1 DEF DialSucceeds
  <1>26. CASE DialFails
    <2>1. PICK e \in {"lost", "ctx"} : DialDone([dialing EXCEPT !.err = e])
      BY <1>26 DEF DialFails
    <2>2. [dialing EXCEPT !.err = e] \in CallRec /\ [dialing EXCEPT !.err = e].err # "none"
      BY DEF Types, CallRec
    <2>. QED BY <1>24, <2>1, <2>2
  <1>27. ASSUME NEW r \in Req, ServerRuns(r) PROVE RqFine'
    <2>1. PICK n \in Nat : n = rq[r].exec + 1 BY <1>0 DEF RqRec
    <2>2. PICK k : k = [rq[r] EXCEPT !.ran = TRUE, !.exec = n] OBVIOUS
    <2>3. k \in RqRec BY <1>0, <2>2 DEF RqRec
    <2>4. /\ k.ran = TRUE /\ k.exec = n /\ k.pc = rq[r].pc /\ k.conn = rq[r].conn
          /\ k.held = rq[r].held
          /\ k.id = rq[r].id /\ k.abort = rq[r].abort /\ k.ctx = rq[r].ctx
          /\ k.result = rq[r].result
          /\ k.sent = rq[r].sent /\ k.call = rq[r].call
      BY <1>0, <2>2 DEF RqRec
    <2>5. /\ rq[r].pc = "active" /\ rq[r].abort \notin {"refused", "unusable"}
          /\ ~rq[r].ran /\ rq[r].exec \in Nat
      BY <1>27, <1>0 DEF ServerRuns, Live, Fine, Placed, RqRec
    <2>6. rq[r].exec = 0 BY <1>0, <2>5 DEF Fine, Once
    <2>7. Fine(r, k) BY <1>0, <2>1, <2>4, <2>5, <2>6 DEF Fine, Placed, Once, SentOnce
    <2>8. rq' = Becomes(r, k) BY <1>27, <2>1, <2>2 DEF ServerRuns
    <2>. QED BY <1>0, <2>3, <2>7, <2>8, Moves
  <1>28. ASSUME NEW r \in Req, ServerResponds(r) PROVE RqFine'
    <2>1. PICK k : k = [rq[r] EXCEPT !.resp = TRUE] OBVIOUS
    <2>2. k \in RqRec BY <1>0, <2>1, Constants DEF RqRec
    <2>3. Fine(r, k)
      BY <1>28, <1>0, <2>1
         DEF ServerResponds, Live, Fine, Placed, Once, SentOnce, RqRec, OnIts, OnStream
    <2>4. rq' = Becomes(r, k) BY <1>28, <2>1 DEF ServerResponds, Live
    <2>. QED BY <1>0, <2>2, <2>3, <2>4, Moves
  <1>29. ASSUME NEW r \in Req, ServerEnds(r) PROVE RqFine'
    <2>1. PICK k : k = [rq[r] EXCEPT !.pc = "cleanup"] OBVIOUS
    <2>2. k \in RqRec BY <1>0, <2>1 DEF RqRec
    <2>3. Fine(r, k)
      BY <1>29, <1>0, <2>1
         DEF ServerEnds, Live, Fine, Placed, Once, SentOnce, RqRec, OnIts, OnStream
    <2>4. rq' = Becomes(r, k) BY <1>29, <2>1 DEF ServerEnds, Step
    <2>. QED BY <1>0, <2>2, <2>3, <2>4, Moves
  <1>30. ASSUME NEW r \in Req, NEW e \in {"refused", "lost"}, NEW b \in BOOLEAN,
                ServerResets(r, e, b)
         PROVE  RqFine'
    <2>1. rq' = Abort(rq, rq[r].conn, {r}, e) /\ (e = "refused" => ~rq[r].ran)
      BY <1>30 DEF ServerResets
    <2>. QED BY <1>0, <2>1, Aborts DEF RqFine, AllFine
  <1>31. ASSUME NEW c \in CC, NEW last \in 0..MaxID, NEW bad \in BOOLEAN, ServerGoAway(c,
                last, bad)
         PROVE  RqFine'
    <2>. DEFINE err == IF cc[c].away # NoAway THEN cc[c].awayErr \/ bad ELSE bad
                S == {r \in cc[c].streams : rq[r].id > last /\ (TRUE = (rq[r].id = 1 /\ err))}
                T == {r \in cc[c].streams : rq[r].id > last /\ (FALSE = (rq[r].id = 1 /\ err))}
    <2>0. rq' = Abort(Abort(rq, c, S, "lost"), c, T, "refused") BY <1>31, Zenon DEF ServerGoAway
    <2>1. \A r \in T : r \in cc[c].streams /\ rq[r].id > last OBVIOUS
    <2>. HIDE DEF S, T, err
    <2>2. \A r \in cc[c].streams : rq[r].ran => rq[r].id <= last BY <1>31 DEF ServerGoAway
    <2>3. PICK q \in [Req -> RqRec] : q = Abort(rq, c, S, "lost") BY <1>0, Aborts DEF RqFine
    <2>4. \A r \in Req : Fine(r, q[r]) BY <1>0, <2>3, Aborts DEF RqFine
    <2>5. \A r \in Req : Same(q[r], rq[r]) BY <1>0, <2>3, AbortView DEF RqFine
    <2>6. \A r \in Req : r \in T => ~q[r].ran
      <3>1. ASSUME NEW r \in Req, r \in T PROVE ~rq[r].ran
        <4>1. last \in Int /\ rq[r].id \in Int BY <1>0, H2PoolConstants DEF RqRec
        <4>. QED BY <2>1, <2>2, <3>1, <4>1
      <3>. QED BY <2>5, <3>1 DEF Same
    <2>. QED BY <2>0, <2>3, <2>4, <2>6, Aborts DEF RqFine, AllFine
  <1>32. ASSUME NEW c \in CC, ReadLoopEnds(c) PROVE RqFine'
    <2>1. PICK S : rq' = Abort(rq, c, S, "lost") BY <1>32 DEF ReadLoopEnds
    <2>. QED BY <1>0, <2>1, Aborts DEF RqFine, AllFine
  <1>33. ASSUME NEW c \in CC, LostPing(c) PROVE RqFine'
    <2>1. PICK S : rq' = Abort(rq, c, S, "lost") BY <1>33 DEF LostPing
    <2>. QED BY <1>0, <2>1, Aborts DEF RqFine, AllFine
  <1>34. CASE UNCHANGED rq
    BY <1>34, <1>0 DEF RqFine, AllFine
  <1>c. ASSUME NEW r \in Req, Client(r) PROVE RqFine'
    BY <1>c, <1>1, <1>2, <1>3, <1>4, <1>6, <1>7, <1>8, <1>9, <1>10, <1>11, <1>13, <1>14,
       <1>15, <1>16, <1>17, <1>19, <1>20, <1>21, <1>22, <1>34 DEF Client
  <1>d. CASE Dialer BY <1>d, <1>25, <1>26, <1>34 DEF Dialer, DialConn
  <1>s. CASE Server
    <2>1. Unruly \subseteq CC BY H2PoolConstants DEF CC
    <2>. QED
      BY <1>s, <2>1, <1>27, <1>28, <1>29, <1>30, <1>31, <1>32, <1>33, <1>34
         DEF Server, ServerSettings
  <1>. QED
    BY <1>c, <1>d, <1>s, <1>18, <1>23, <1>34 DEF Next, CloseIdleConnections, AllDone, vars

-----------------------------------------------------------------------------
(* What a step does to connections and to the requests on them.            *)

\* The types of the pool; a dial that goes on has not failed.
PoolTyped == opt \in OptRec /\ conns \in Seq(CC) /\ dialing \in CallRec
        /\ adding \in SomeReq /\ dialing.err = "none"

\* What becomes of connection c, k being its state before and m after.
Settled(k, m) ==
    /\ m \in ConnRec
    /\ m.streams \subseteq k.streams /\ m.away \in {k.away, NoAway} /\ m.reserved <= k.reserved

\* A request in state k becomes m and stays on its connection with what it had
\* there; or it is away from all connections; and what it was told of a dial stays.
QuietTo(k, m) ==
    /\ m.conn = k.conn /\ m.id = k.id /\ m.held = k.held
    /\ k.pc \in OnStream => m.pc \in OnStream
    /\ k.abort # "none" => m.abort # "none"
ElsewhereTo(k, m) == k.pc \notin OnStream /\ ~k.held /\ ~m.held
ToldTo(k, m) == (k.ctx => m.ctx) /\ (m.pc = "dialed" => k.pc = "dialed" /\ m.call = k.call)

\* One connection settles, the others are as they were.
LEMMA ConnSettles ==
  ASSUME cc \in [CC -> ConnRec], NEW c \in CC, NEW m, Settled(cc[c], m), cc' = ConnBecomes(c, m)
  PROVE  \A d \in CC : Settled(cc[d], cc'[d])
  <1>1. ASSUME NEW d \in CC PROVE Settled(cc[d], cc[d])
    BY DEF Settled, ConnRec
  <1>2. m \in ConnRec BY DEF Settled
  <1>3. cc'[c] = m /\ \A d \in CC : d # c => cc'[d] = cc[d] BY <1>2, ConnBecoming
  <1>. QED BY <1>1, <1>3

\* Connections that stay as they are have settled.
LEMMA ConnsKeep ==
  ASSUME cc \in [CC -> ConnRec], UNCHANGED cc PROVE \A d \in CC : Settled(cc[d], cc'[d])
  BY DEF Settled, ConnRec

\* A new connection has no stream, no reservation and no GOAWAY.
LEMMA NewbornSettles ==
  ASSUME cc \in [CC -> ConnRec], NEW c \in CC, NEW one \in BOOLEAN, Newborn(c, one)
  PROVE  \A d \in CC : Settled(cc[d], cc'[d])
  <1>1. PICK m : m = [NewCC EXCEPT !.born = TRUE, !.reading = TRUE, !.single = one] OBVIOUS
  <1>2. m \in ConnRec BY <1>1, Constants DEF ConnRec
  <1>3. m.streams = {} /\ m.away = NoAway /\ m.reserved = 0 BY <1>1 DEF NewCC
  <1>4. cc[c].reserved \in Nat BY DEF ConnRec
  <1>5. Settled(cc[c], m) BY <1>2, <1>3, <1>4 DEF Settled
  <1>. QED BY <1>1, <1>5, ConnSettles DEF Newborn

\* The flags of a connection do not touch what requests have on it.
LEMMA FlagsSettle ==
  ASSUME NEW k \in ConnRec, NEW h \in SomeReq, NEW b \in BOOLEAN, NEW n \in Nat
  PROVE  /\ Settled(k, [k EXCEPT !.hdr = h])
         /\ Settled(k, [k EXCEPT !.closed = b])
         /\ Settled(k, [k EXCEPT !.hdr = h, !.closed = b])
         /\ Settled(k, [k EXCEPT !.noReuse = b])
         /\ Settled(k, [k EXCEPT !.max = n])
  <1>1. ASSUME NEW m \in {[k EXCEPT !.hdr = h], [k EXCEPT !.closed = b],
               [k EXCEPT !.hdr = h, !.closed = b],
                          [k EXCEPT !.noReuse = b], [k EXCEPT !.max = n]}
        PROVE  m \in ConnRec /\ m.streams = k.streams /\ m.away = k.away
                /\ m.reserved = k.reserved
    BY <1>1 DEF ConnRec
  <1>2. k.reserved \in Nat BY DEF ConnRec
  <1>. QED BY <1>1, <1>2 DEF Settled

\* The same of a request in a step.
Told(q) == (rq[q].ctx => rq'[q].ctx) /\ (rq'[q].pc = "dialed" => rq[q].pc = "dialed"
        /\ rq'[q].call = rq[q].call)
Quiet(q) ==
    /\ rq'[q].conn = rq[q].conn /\ rq'[q].id = rq[q].id /\ rq'[q].held = rq[q].held
    /\ rq[q].pc \in OnStream => rq'[q].pc \in OnStream
    /\ rq[q].abort # "none" => rq'[q].abort # "none"
Elsewhere(q) == rq[q].pc \notin OnStream /\ ~rq[q].held /\ ~rq'[q].held

Frame == \A q \in Req : Quiet(q) \/ Elsewhere(q)
TellsAll == \A q \in Req : Told(q)

\* One request moves, quietly or elsewhere.
LEMMA MoveFrame ==
  ASSUME rq \in [Req -> RqRec], NEW r \in Req, NEW k \in RqRec, rq' = Becomes(r, k),
         QuietTo(rq[r], k) \/ ElsewhereTo(rq[r], k), ToldTo(rq[r], k)
  PROVE  Frame /\ TellsAll
  <1>1. rq'[r] = k /\ \A q \in Req : q # r => rq'[q] = rq[q] BY Becoming
  <1>2. ASSUME NEW q \in Req PROVE (Quiet(q) \/ Elsewhere(q)) /\ Told(q)
    <2>1. CASE q = r BY <1>1, <2>1 DEF Quiet, Elsewhere, Told, QuietTo, ElsewhereTo, ToldTo
    <2>2. CASE q # r BY <1>1, <2>2 DEF Quiet, Told
    <2>. QED BY <2>1, <2>2
  <1>. QED BY <1>2 DEF Frame, TellsAll

\* Aborting streams moves nobody.
LEMMA AbortFrame ==
  ASSUME rq \in [Req -> RqRec], NEW c, NEW S, NEW e \in Errors \ {"none"}, rq' = Abort(rq,
         c, S, e)
  PROVE  Frame /\ TellsAll
  <1>1. ASSUME NEW q \in Req PROVE Quiet(q) /\ Told(q)
    <2>1. Same(rq'[q], rq[q]) /\ rq'[q].abort = IF q \in S /\ rq[q].abort = "none"
                THEN e ELSE rq[q].abort
      BY AbortView
    <2>. QED BY <2>1 DEF Same, Quiet, Told
  <1>. QED BY <1>1 DEF Frame, TellsAll

\* Nor does leaving the requests alone.
LEMMA KeptFrame ==
  ASSUME UNCHANGED rq PROVE Frame /\ TellsAll
  BY DEF Frame, TellsAll, Quiet, Told

-----------------------------------------------------------------------------
(* The steps.                                                              *)

\* A nonempty set of naturals has a least element, and Min is it.
LEMMA MinOf ==
    ASSUME NEW S \in SUBSET Nat, S # {}
    PROVE  Min(S) \in S /\ \A y \in S : Min(S) <= y
<1>1. \E x \in S : \A y \in S : <<y, x>> \notin OpToRel(<, Nat)
  BY NatLessThanWellFounded, WFMin
<1>2. \A x, y \in Nat : y < x => <<y, x>> \in OpToRel(<, Nat)
  BY Zenon DEF OpToRel
<1>3. \E x \in S : \A y \in S : ~(y < x)
  BY <1>1, <1>2, Zenon
<1>4. \E x \in S : \A y \in S : x <= y
  BY <1>3
<1> QED BY <1>4 DEF Min

\* The pool without a connection is a list of connections.
LEMMA DeadTyped ==
    ASSUME conns \in Seq(CC), NEW c PROVE MarkDead(c) \in Seq(CC)
<1> DEFINE I == {i \in 1..Len(conns) : conns[i] = c}
<1>1. CASE I = {}
  BY <1>1 DEF MarkDead, RemoveFirst
<1>2. CASE I # {}
  <2>1. Min(I) \in 1..Len(conns)
    <3>1. I \in SUBSET Nat /\ I \subseteq 1..Len(conns) OBVIOUS
    <3> HIDE DEF I
    <3> QED BY <1>2, <3>1, MinOf
  <2>2. MarkDead(c) = RemoveAt(conns, Min(I))
    BY <1>2 DEF MarkDead, RemoveFirst, SelectInSeq
  <2> HIDE DEF I
  <2>3. SubSeq(conns, 1, Min(I) - 1) \in Seq(CC)
              /\ SubSeq(conns, Min(I) + 1, Len(conns)) \in Seq(CC)
    BY <2>1
  <2> QED BY <2>2, <2>3 DEF RemoveAt
<1> QED BY <1>1, <1>2

\* So is the pool with one more.
LEMMA AddedTyped ==
    ASSUME conns \in Seq(CC), NEW c \in CC PROVE AddConnLocked(c) \in Seq(CC)
  BY DEF AddConnLocked

\* A step after which everything is in its place again.
Plain ==
    /\ Frame /\ TellsAll
    /\ PoolTyped'
    /\ cc' \in [CC -> ConnRec] /\ \A d \in CC : Settled(cc[d], cc'[d])

\* The steps that are not plain.
Special ==
    \/ \E r \in Req, c \in CC : Reserve(r, c) /\ rq[r].pc \in {"get", "dialed"}
            /\ UNCHANGED <<opt, pool>>
    \/ \E r \in Req : LockHeader(r)
    \/ \E r \in Req : Wake(r) /\ rq[r].abort = "none"
    \/ \E r \in Req : Cleanup(r)
    \/ \E call \in CallRec : /\ DialDone(call)
                             /\ call.err = "none" => call.res \in CC
                             /\ call.err = "ctx" => call.ctx \in Req /\ rq[call.ctx].ctx
    \/ \E c \in CC, last \in 0..MaxID, bad \in BOOLEAN : ServerGoAway(c, last, bad)

\* Every step is plain or one of the special ones.
LEMMA PlainStep ==
  ASSUME PoolTyped, cc \in [CC -> ConnRec], RqFine, DialsTold, Next
  PROVE  Plain \/ Special
  <1>. USE Values
  <1>0. rq \in [Req -> RqRec] /\ \A r \in Req : rq[r] \in RqRec /\ Fine(r, rq[r])
    BY DEF RqFine, AllFine

  <1>1. ASSUME NEW r \in Req, AddConnIfNeeded(r) PROVE Plain
    <2>0. PICK p \in {"get", "adding", "addwait"} : rq' = Step(r, p) BY <1>1 DEF AddConnIfNeeded
    <2>1. PICK k : k = [rq[r] EXCEPT !.pc = p] OBVIOUS
    <2>2. k \in RqRec BY <1>0, <2>1 DEF RqRec
    <2>3. rq' = Becomes(r, k) BY <2>0, <2>1 DEF Step
    <2>4. QuietTo(rq[r], k) BY <1>1, <1>0, <2>1 DEF AddConnIfNeeded, QuietTo, RqRec, OnStream
    <2>5. ToldTo(rq[r], k) BY <1>1, <1>0, <2>1 DEF AddConnIfNeeded, ToldTo, RqRec
    <2>6. Frame /\ TellsAll BY <1>0, <2>2, <2>3, <2>4, <2>5, MoveFrame
    <2>8. cc' \in [CC -> ConnRec] /\ \A d \in CC : Settled(cc[d], cc'[d])
      <3>1. UNCHANGED cc BY <1>1 DEF AddConnIfNeeded
      <3>. QED BY <3>1, ConnsKeep
    <2>9. PoolTyped' BY <1>1, Constants DEF AddConnIfNeeded, PoolTyped
    <2>. QED BY <2>6, <2>8, <2>9 DEF Plain
  <1>2. ASSUME NEW r \in Req, NEW c \in CC, AddConnRun(r, c) PROVE Plain
    <2>1. PICK k : k = [rq[r] EXCEPT !.pc = "added", !.conn = c] OBVIOUS
    <2>2. k \in RqRec /\ Fine(r, rq[r]) BY <1>0, <2>1, Constants DEF RqRec
    <2>3. rq' = Becomes(r, k) BY <1>2, <2>1 DEF AddConnRun
    <2>4. QuietTo(rq[r], k) \/ ElsewhereTo(rq[r], k)
      BY <1>2, <1>0, <2>1, <2>2
         DEF AddConnRun, QuietTo, ElsewhereTo, RqRec, OnStream, Fine, Placed
    <2>5. ToldTo(rq[r], k) BY <1>2, <1>0, <2>1 DEF AddConnRun, ToldTo, RqRec
    <2>6. Frame /\ TellsAll BY <1>0, <2>2, <2>3, <2>4, <2>5, MoveFrame
    <2>8. cc' \in [CC -> ConnRec] /\ \A d \in CC : Settled(cc[d], cc'[d])
      <3>1. PICK one \in BOOLEAN : Newborn(c, one) BY <1>2 DEF AddConnRun, PoolTyped, OptRec
      <3>2. \A d \in CC : Settled(cc[d], cc'[d]) BY <3>1, NewbornSettles
      <3>3. cc' = [d \in CC |-> cc'[d]] BY <3>1 DEF Newborn, ConnBecomes
      <3>. QED BY <3>2, <3>3 DEF Settled
    <2>9. PoolTyped' BY <1>2 DEF AddConnRun, pool, PoolTyped
    <2>. QED BY <2>6, <2>8, <2>9 DEF Plain
  <1>3. ASSUME NEW r \in Req, AddConnDone(r) PROVE Plain
    <2>1. rq' = [s \in Req |-> IF s = r \/ rq[s].pc = "addwait"
                THEN [rq[s] EXCEPT !.pc = "get", !.conn = NoConn] ELSE rq[s]]
      BY <1>3 DEF AddConnDone
    <2>2. ASSUME NEW s \in Req PROVE (Quiet(s) \/ Elsewhere(s)) /\ Told(s)
      <3>1. CASE s = r \/ rq[s].pc = "addwait"
        <4>1. rq[s].pc \in {"added", "addwait"} BY <1>3, <3>1 DEF AddConnDone
        <4>2. PICK k : k = [rq[s] EXCEPT !.pc = "get", !.conn = NoConn] OBVIOUS
        <4>3. k.pc = "get" /\ k.held = rq[s].held /\ k.ctx = rq[s].ctx BY <1>0, <4>2 DEF RqRec
        <4>4. rq'[s] = k BY <2>1, <3>1, <4>2
        <4>5. ~rq[s].held BY <1>0, <4>1 DEF Fine, Placed
        <4>. QED BY <4>1, <4>3, <4>4, <4>5 DEF Elsewhere, Told, OnStream
      <3>2. CASE ~(s = r \/ rq[s].pc = "addwait") BY <2>1, <3>2 DEF Quiet, Told
      <3>. QED BY <3>1, <3>2
    <2>6. Frame /\ TellsAll BY <2>2 DEF Frame, TellsAll
    <2>8. cc' \in [CC -> ConnRec] /\ \A d \in CC : Settled(cc[d], cc'[d])
      <3>1. UNCHANGED cc BY <1>3 DEF AddConnDone
      <3>. QED BY <3>1, ConnsKeep
    <2>9. PoolTyped'
      <3>1. rq[r].conn \in CC BY <1>3, <1>0 DEF AddConnDone, Fine, Placed, OnIts
      <3>. QED BY <1>3, <3>1, Constants, AddedTyped DEF AddConnDone, PoolTyped
    <2>. QED BY <2>6, <2>8, <2>9 DEF Plain
  <1>4. ASSUME NEW r \in Req, AddConnFails(r) PROVE Plain
    <2>1. rq' = [s \in Req |-> IF s = r \/ rq[s].pc = "addwait"
                THEN Return(rq, s, "lost")[s] ELSE rq[s]]
      BY <1>4 DEF AddConnFails
    <2>2. ASSUME NEW s \in Req PROVE (Quiet(s) \/ Elsewhere(s)) /\ Told(s)
      <3>1. CASE s = r \/ rq[s].pc = "addwait"
        <4>1. rq[s].pc \in {"adding", "addwait"} BY <1>4, <3>1 DEF AddConnFails
        <4>2. PICK k \in RqRec : Return(rq, s, "lost") = [rq EXCEPT ![s] = k]
                    /\ k.pc = "done" /\ ~k.held /\ k.ctx = rq[s].ctx
          BY <1>0, Returned DEF RqFine
        <4>4. rq'[s] = k BY <1>0, <2>1, <3>1, <4>2
        <4>5. ~rq[s].held BY <1>0, <4>1 DEF Fine, Placed
        <4>. QED BY <4>1, <4>2, <4>4, <4>5 DEF Elsewhere, Told, OnStream
      <3>2. CASE ~(s = r \/ rq[s].pc = "addwait") BY <2>1, <3>2 DEF Quiet, Told
      <3>. QED BY <3>1, <3>2
    <2>6. Frame /\ TellsAll BY <2>2 DEF Frame, TellsAll
    <2>8. cc' \in [CC -> ConnRec] /\ \A d \in CC : Settled(cc[d], cc'[d])
      <3>1. UNCHANGED cc BY <1>4 DEF AddConnFails
      <3>. QED BY <3>1, ConnsKeep
    <2>9. PoolTyped' BY <1>4, Constants DEF AddConnFails, PoolTyped
    <2>. QED BY <2>6, <2>8, <2>9 DEF Plain
  <1>5. ASSUME NEW r \in Req, GetStartDial(r) PROVE Plain
    <2>1. PICK k : k = [rq[r] EXCEPT !.pc = "dialwait"] OBVIOUS
    <2>2. k \in RqRec /\ Fine(r, rq[r]) BY <1>0, <2>1, Constants DEF RqRec
    <2>3. rq' = Becomes(r, k) BY <1>5, <2>1 DEF GetStartDial, Step
    <2>4. QuietTo(rq[r], k) \/ ElsewhereTo(rq[r], k)
      BY <1>5, <1>0, <2>1, <2>2
         DEF GetStartDial, Step, QuietTo, ElsewhereTo, RqRec, OnStream, Fine, Placed
    <2>5. ToldTo(rq[r], k) BY <1>5, <1>0, <2>1 DEF GetStartDial, Step, ToldTo, RqRec
    <2>6. Frame /\ TellsAll BY <1>0, <2>2, <2>3, <2>4, <2>5, MoveFrame
    <2>8. cc' \in [CC -> ConnRec] /\ \A d \in CC : Settled(cc[d], cc'[d])
      <3>1. UNCHANGED cc BY <1>5 DEF GetStartDial
      <3>. QED BY <3>1, ConnsKeep
    <2>9. PoolTyped'
      <3>1. PICK n : n = [NoCall EXCEPT !.ctx = r] OBVIOUS
      <3>2. n \in CallRec /\ n.err = "none" BY <3>1, Constants DEF CallRec, NoCall
      <3>3. dialing' \in {n, dialing} BY <1>5, <3>1 DEF GetStartDial
      <3>4. dialing' \in CallRec /\ dialing'.err = "none" BY <3>2, <3>3 DEF PoolTyped
      <3>. QED BY <1>5, <3>4 DEF GetStartDial, PoolTyped
    <2>. QED BY <2>6, <2>8, <2>9 DEF Plain
  <1>6. ASSUME NEW r \in Req, NEW c \in CC, GetOwn(r, c) PROVE Plain
    <2>1. PICK k : k = [rq[r] EXCEPT !.pc = "lock", !.conn = c] OBVIOUS
    <2>2. k \in RqRec /\ Fine(r, rq[r]) BY <1>0, <2>1, Constants DEF RqRec
    <2>3. rq' = Becomes(r, k) BY <1>6, <2>1 DEF GetOwn
    <2>4. QuietTo(rq[r], k) \/ ElsewhereTo(rq[r], k)
      BY <1>6, <1>0, <2>1, <2>2 DEF GetOwn, QuietTo, ElsewhereTo, RqRec, OnStream, Fine, Placed
    <2>5. ToldTo(rq[r], k) BY <1>6, <1>0, <2>1 DEF GetOwn, ToldTo, RqRec
    <2>6. Frame /\ TellsAll BY <1>0, <2>2, <2>3, <2>4, <2>5, MoveFrame
    <2>8. cc' \in [CC -> ConnRec] /\ \A d \in CC : Settled(cc[d], cc'[d])
      <3>1. PICK one \in BOOLEAN : Newborn(c, one) BY <1>6 DEF GetOwn, PoolTyped, OptRec
      <3>2. \A d \in CC : Settled(cc[d], cc'[d]) BY <3>1, NewbornSettles
      <3>3. cc' = [d \in CC |-> cc'[d]] BY <3>1 DEF Newborn, ConnBecomes
      <3>. QED BY <3>2, <3>3 DEF Settled
    <2>9. PoolTyped' BY <1>6 DEF GetOwn, pool, PoolTyped
    <2>. QED BY <2>6, <2>8, <2>9 DEF Plain
  <1>7. ASSUME NEW r \in Req, GetOwnFails(r) PROVE Plain
    <2>1. PICK e \in {"ctx", "lost"} : rq' = Return(rq, r, e) /\ (e = "ctx" => rq[r].ctx)
      BY <1>7 DEF GetOwnFails
    <2>2. PICK k \in RqRec : Return(rq, r, e) = [rq EXCEPT ![r] = k] /\ k.pc = "done"
                /\ ~k.held /\ k.ctx = rq[r].ctx
      BY <1>0, <2>1, Returned DEF RqFine
    <2>3. rq' = Becomes(r, k) BY <2>1, <2>2 DEF Becomes
    <2>4. ElsewhereTo(rq[r], k)
      BY <1>7, <1>0, <2>2 DEF GetOwnFails, ElsewhereTo, OnStream, Fine, Placed
    <2>5. ToldTo(rq[r], k) BY <2>2 DEF ToldTo
    <2>6. Frame /\ TellsAll BY <1>0, <2>2, <2>3, <2>4, <2>5, MoveFrame
    <2>8. cc' \in [CC -> ConnRec] /\ \A d \in CC : Settled(cc[d], cc'[d])
      <3>1. UNCHANGED cc BY <1>7 DEF GetOwnFails
      <3>. QED BY <3>1, ConnsKeep
    <2>9. PoolTyped' BY <1>7 DEF GetOwnFails, pool, PoolTyped
    <2>. QED BY <2>6, <2>8, <2>9 DEF Plain
  <1>8. ASSUME NEW r \in Req, DialedAgain(r) PROVE Plain
    <2>6. Frame /\ TellsAll
      <3>a. CASE rq' = Becomes(r, [rq[r] EXCEPT !.pc = "get", !.call = NoCall])
        <4>1. PICK k : k = [rq[r] EXCEPT !.pc = "get", !.call = NoCall] OBVIOUS
        <4>2. k \in RqRec BY <1>0, <4>1, Constants DEF RqRec
        <4>4. QuietTo(rq[r], k) BY <1>8, <1>0, <4>1 DEF DialedAgain, QuietTo, RqRec, OnStream
        <4>5. ToldTo(rq[r], k) BY <1>0, <4>1 DEF ToldTo, RqRec
        <4>. QED BY <1>0, <3>a, <4>1, <4>2, <4>4, <4>5, MoveFrame
      <3>b. CASE rq' = Return(rq, r, rq[r].call.err) /\ rq[r].call.err # "none"
                  /\ ~ShouldRetryDial(r)
        <4>1. rq[r].call.err \in Errors BY <1>0 DEF RqRec, CallRec
        <4>2. rq[r].call.err = "ctx" => rq[r].ctx
          BY <1>8, <3>b DEF DialedAgain, ShouldRetryDial, DialsTold
        <4>0. PICK e \in Errors \cup {"ok"} : e = rq[r].call.err BY <4>1
        <4>3. PICK k \in RqRec : Return(rq, r, e) = [rq EXCEPT ![r] = k]
                    /\ k.pc = "done" /\ ~k.held /\ k.ctx = rq[r].ctx
          <5>0. e \in Errors \cup {"ok"} BY <4>0
          <5>1. rq \in [Req -> RqRec] /\ Fine(r, rq[r]) BY <1>0
          <5>2. e = "ctx" => rq[r].ctx BY <4>0, <4>2
          <5>3. \E k \in RqRec : /\ Return(rq, r, e) = [rq EXCEPT ![r] = k] /\ Fine(r, k)
                               /\ k.pc = "done" /\ ~k.held /\ k.ctx = rq[r].ctx
            BY <5>0, <5>1, <5>2, Returned
          <5>. QED BY <5>3, Zenon
        <4>4. rq' = Becomes(r, k) BY <3>b, <4>0, <4>3 DEF Becomes
        <4>5. ElsewhereTo(rq[r], k)
          BY <1>8, <1>0, <4>3 DEF DialedAgain, ElsewhereTo, OnStream, Fine, Placed
        <4>6. ToldTo(rq[r], k) BY <4>3 DEF ToldTo
        <4>. QED BY <1>0, <4>3, <4>4, <4>5, <4>6, MoveFrame
      <3>. QED BY <1>8, <3>a, <3>b DEF DialedAgain
    <2>8. cc' \in [CC -> ConnRec] /\ \A d \in CC : Settled(cc[d], cc'[d])
      <3>1. UNCHANGED cc BY <1>8 DEF DialedAgain
      <3>. QED BY <3>1, ConnsKeep
    <2>9. PoolTyped' BY <1>8 DEF DialedAgain, pool, PoolTyped
    <2>. QED BY <2>6, <2>8, <2>9 DEF Plain
  <1>9. ASSUME NEW r \in Req, LockCancelled(r) PROVE Plain
    <2>1. PICK k : k = [rq[r] EXCEPT !.pc = "cleanup", !.abort = "ctx"] OBVIOUS
    <2>2. k \in RqRec /\ Fine(r, rq[r]) BY <1>0, <2>1, Constants DEF RqRec
    <2>3. rq' = Becomes(r, k) BY <1>9, <2>1 DEF LockCancelled
    <2>4. QuietTo(rq[r], k) \/ ElsewhereTo(rq[r], k)
      BY <1>9, <1>0, <2>1, <2>2
         DEF LockCancelled, QuietTo, ElsewhereTo, RqRec, OnStream, Fine, Placed
    <2>5. ToldTo(rq[r], k) BY <1>9, <1>0, <2>1 DEF LockCancelled, ToldTo, RqRec
    <2>6. Frame /\ TellsAll BY <1>0, <2>2, <2>3, <2>4, <2>5, MoveFrame
    <2>8. cc' \in [CC -> ConnRec] /\ \A d \in CC : Settled(cc[d], cc'[d])
      <3>1. UNCHANGED cc BY <1>9 DEF LockCancelled
      <3>. QED BY <3>1, ConnsKeep
    <2>9. PoolTyped' BY <1>9 DEF LockCancelled, pool, PoolTyped
    <2>. QED BY <2>6, <2>8, <2>9 DEF Plain
  <1>10. ASSUME NEW r \in Req, Wake(r), rq[r].abort # "none" PROVE Plain
    <2>1. PICK k : k = [rq[r] EXCEPT !.pc = "cleanup"] OBVIOUS
    <2>2. k \in RqRec /\ Fine(r, rq[r]) BY <1>0, <2>1, Constants DEF RqRec
    <2>3. rq' = Becomes(r, k) BY <1>10, <2>1 DEF Wake, Step
    <2>4. QuietTo(rq[r], k) \/ ElsewhereTo(rq[r], k)
      BY <1>10, <1>0, <2>1, <2>2
         DEF Wake, Step, QuietTo, ElsewhereTo, RqRec, OnStream, Fine, Placed
    <2>5. ToldTo(rq[r], k) BY <1>10, <1>0, <2>1 DEF Wake, Step, ToldTo, RqRec
    <2>6. Frame /\ TellsAll BY <1>0, <2>2, <2>3, <2>4, <2>5, MoveFrame
    <2>8. cc' \in [CC -> ConnRec] /\ \A d \in CC : Settled(cc[d], cc'[d])
      <3>1. rq[r].conn \in CC BY <1>10, <1>0 DEF Wake, Fine, Placed, OnIts, OnStream
      <3>2. PICK m : m = [cc[rq[r].conn] EXCEPT !.hdr = Nobody] OBVIOUS
      <3>3. Settled(cc[rq[r].conn], m) BY <3>1, <3>2, FlagsSettle, Constants
      <3>4. cc' = ConnBecomes(rq[r].conn, m) BY <1>10, <3>2 DEF Wake
      <3>5. cc' \in [CC -> ConnRec] BY <3>1, <3>3, <3>4, ConnBecoming DEF Settled
      <3>. QED BY <3>1, <3>3, <3>4, <3>5, ConnSettles
    <2>9. PoolTyped' BY <1>10 DEF Wake, pool, PoolTyped
    <2>. QED BY <2>6, <2>8, <2>9 DEF Plain
  <1>11. ASSUME NEW r \in Req, WriteHeaders(r) PROVE Plain
    <2>6. Frame /\ TellsAll
      <3>1. CASE rq' = Becomes(r, [rq[r] EXCEPT !.pc = "cleanup",
                  !.abort = OrElse(rq[r].abort, "ctx")])
        <4>1. PICK a \in Errors : a = OrElse(rq[r].abort, "ctx") BY <1>0 DEF OrElse, RqRec
        <4>2. PICK k : k = [rq[r] EXCEPT !.pc = "cleanup", !.abort = a] OBVIOUS
        <4>3. k \in RqRec BY <1>0, <4>2 DEF RqRec
        <4>4. a # "none" BY <4>1 DEF OrElse
        <4>5. QuietTo(rq[r], k) BY <1>0, <4>2, <4>4 DEF QuietTo, RqRec, OnStream
        <4>6. ToldTo(rq[r], k) BY <1>0, <4>2 DEF ToldTo, RqRec
        <4>. QED BY <1>0, <3>1, <4>1, <4>2, <4>3, <4>5, <4>6, MoveFrame
      <3>2. CASE rq' = Becomes(r, [rq[r] EXCEPT !.pc = "active",
                  !.sent = IF Body[r] = "once" THEN rq[r].sent + 1 ELSE rq[r].sent])
        <4>1. PICK n \in Nat : n = IF Body[r] = "once" THEN rq[r].sent + 1 ELSE rq[r].sent
          BY <1>0 DEF RqRec
        <4>2. PICK k : k = [rq[r] EXCEPT !.pc = "active", !.sent = n] OBVIOUS
        <4>3. k \in RqRec BY <1>0, <4>2 DEF RqRec
        <4>5. QuietTo(rq[r], k) BY <1>0, <4>2 DEF QuietTo, RqRec, OnStream
        <4>6. ToldTo(rq[r], k) BY <1>0, <4>2 DEF ToldTo, RqRec
        <4>. QED BY <1>0, <3>2, <4>1, <4>2, <4>3, <4>5, <4>6, MoveFrame
      <3>. QED BY <1>11, <3>1, <3>2 DEF WriteHeaders
    <2>8. cc' \in [CC -> ConnRec] /\ \A d \in CC : Settled(cc[d], cc'[d])
      <3>1. rq[r].conn \in CC BY <1>11, <1>0 DEF WriteHeaders, Fine, Placed, OnIts, OnStream
      <3>2. PICK m : m = [cc[rq[r].conn] EXCEPT !.hdr = Nobody] OBVIOUS
      <3>3. Settled(cc[rq[r].conn], m) BY <3>1, <3>2, FlagsSettle, Constants
      <3>4. cc' = ConnBecomes(rq[r].conn, m) BY <1>11, <3>2 DEF WriteHeaders
      <3>5. cc' \in [CC -> ConnRec] BY <3>1, <3>3, <3>4, ConnBecoming DEF Settled
      <3>. QED BY <3>1, <3>3, <3>4, <3>5, ConnSettles
    <2>9. PoolTyped' BY <1>11 DEF WriteHeaders, pool, PoolTyped
    <2>. QED BY <2>6, <2>8, <2>9 DEF Plain
  <1>12. ASSUME NEW r \in Req, WriteFails(r) PROVE Plain
    <2>1. PICK k : k = [rq[r] EXCEPT !.pc = "cleanup"] OBVIOUS
    <2>2. k \in RqRec BY <1>0, <2>1 DEF RqRec
    <2>3. PICK q \in [Req -> RqRec] : q = Becomes(r, k) /\ q[r] = k
                /\ \A s \in Req : s # r => q[s] = rq[s]
      BY <1>0, <2>2, Becoming DEF RqFine
    <2>4. rq' = Abort(q, rq[r].conn, cc[rq[r].conn].streams, "lost")
      BY <1>12, <2>1, <2>3 DEF WriteFails, Step
    <2>5. ASSUME NEW s \in Req PROVE Quiet(s) /\ Told(s)
      <3>1. Same(rq'[s], q[s]) /\ (q[s].abort # "none" => rq'[s].abort # "none")
        BY <2>4, AbortView
      <3>2. CASE s # r BY <2>3, <3>1, <3>2 DEF Same, Quiet, Told
      <3>3. CASE s = r
        <4>1. /\ k.conn = rq[r].conn /\ k.id = rq[r].id /\ k.held = rq[r].held
              /\ k.pc = "cleanup" /\ k.abort = rq[r].abort
              /\ k.ctx = rq[r].ctx
          BY <1>0, <2>1 DEF RqRec
        <4>. QED BY <2>3, <3>1, <3>3, <4>1 DEF Same, Quiet, Told, OnStream
      <3>. QED BY <3>2, <3>3
    <2>6. Frame /\ TellsAll BY <2>5 DEF Frame, TellsAll
    <2>8. cc' \in [CC -> ConnRec] /\ \A d \in CC : Settled(cc[d], cc'[d])
      <3>1. rq[r].conn \in CC BY <1>12, <1>0 DEF WriteFails, Fine, Placed, OnIts, OnStream
      <3>2. PICK m : m = [cc[rq[r].conn] EXCEPT !.hdr = Nobody, !.closed = TRUE] OBVIOUS
      <3>3. Settled(cc[rq[r].conn], m) BY <3>1, <3>2, FlagsSettle, Constants
      <3>4. cc' = ConnBecomes(rq[r].conn, m) BY <1>12, <3>2 DEF WriteFails
      <3>5. cc' \in [CC -> ConnRec] BY <3>1, <3>3, <3>4, ConnBecoming DEF Settled
      <3>. QED BY <3>1, <3>3, <3>4, <3>5, ConnSettles
    <2>9. PoolTyped' BY <1>12 DEF WriteFails, pool, PoolTyped
    <2>. QED BY <2>6, <2>8, <2>9 DEF Plain
  <1>13. ASSUME NEW r \in Req, StreamTimeout(r) PROVE Plain
    <2>1. PICK k : k = [rq[r] EXCEPT !.pc = "cleanup", !.abort = "lost"] OBVIOUS
    <2>2. k \in RqRec /\ Fine(r, rq[r]) BY <1>0, <2>1, Constants DEF RqRec
    <2>3. rq' = Becomes(r, k) BY <1>13, <2>1 DEF StreamTimeout
    <2>4. QuietTo(rq[r], k) \/ ElsewhereTo(rq[r], k)
      BY <1>13, <1>0, <2>1, <2>2
         DEF StreamTimeout, QuietTo, ElsewhereTo, RqRec, OnStream, Fine, Placed
    <2>5. ToldTo(rq[r], k) BY <1>13, <1>0, <2>1 DEF StreamTimeout, ToldTo, RqRec
    <2>6. Frame /\ TellsAll BY <1>0, <2>2, <2>3, <2>4, <2>5, MoveFrame
    <2>8. cc' \in [CC -> ConnRec] /\ \A d \in CC : Settled(cc[d], cc'[d])
      <3>1. UNCHANGED cc BY <1>13 DEF StreamTimeout
      <3>. QED BY <3>1, ConnsKeep
    <2>9. PoolTyped' BY <1>13 DEF StreamTimeout, pool, PoolTyped
    <2>. QED BY <2>6, <2>8, <2>9 DEF Plain
  <1>14. ASSUME NEW r \in Req, CtxDone(r) PROVE Plain
    <2>1. PICK k : k = [rq[r] EXCEPT !.ctx = TRUE] OBVIOUS
    <2>2. k \in RqRec /\ Fine(r, rq[r]) BY <1>0, <2>1, Constants DEF RqRec
    <2>3. rq' = Becomes(r, k) BY <1>14, <2>1 DEF CtxDone
    <2>4. QuietTo(rq[r], k) \/ ElsewhereTo(rq[r], k)
      BY <1>14, <1>0, <2>1, <2>2
         DEF CtxDone, QuietTo, ElsewhereTo, RqRec, OnStream, Fine, Placed
    <2>5. ToldTo(rq[r], k) BY <1>14, <1>0, <2>1 DEF CtxDone, ToldTo, RqRec
    <2>6. Frame /\ TellsAll BY <1>0, <2>2, <2>3, <2>4, <2>5, MoveFrame
    <2>8. cc' \in [CC -> ConnRec] /\ \A d \in CC : Settled(cc[d], cc'[d])
      <3>1. UNCHANGED cc BY <1>14 DEF CtxDone
      <3>. QED BY <3>1, ConnsKeep
    <2>9. PoolTyped' BY <1>14 DEF CtxDone, pool, PoolTyped
    <2>. QED BY <2>6, <2>8, <2>9 DEF Plain
  <1>15. ASSUME NEW r \in Req, RoundTripCancelled(r) PROVE Plain
    <2>1. rq' = Abort(rq, rq[r].conn, {r}, "ctx") BY <1>15 DEF RoundTripCancelled
    <2>6. Frame /\ TellsAll BY <1>0, <2>1, AbortFrame
    <2>8. cc' \in [CC -> ConnRec] /\ \A d \in CC : Settled(cc[d], cc'[d])
      <3>1. UNCHANGED cc BY <1>15 DEF RoundTripCancelled
      <3>. QED BY <3>1, ConnsKeep
    <2>9. PoolTyped' BY <1>15 DEF RoundTripCancelled, pool, PoolTyped
    <2>. QED BY <2>6, <2>8, <2>9 DEF Plain
  <1>16. ASSUME NEW r \in Req, BodyClosed(r) PROVE Plain
    <2>1. rq' = Abort(rq, rq[r].conn, {r}, "lost") BY <1>16 DEF BodyClosed
    <2>6. Frame /\ TellsAll BY <1>0, <2>1, AbortFrame
    <2>8. cc' \in [CC -> ConnRec] /\ \A d \in CC : Settled(cc[d], cc'[d])
      <3>1. UNCHANGED cc BY <1>16 DEF BodyClosed
      <3>. QED BY <3>1, ConnsKeep
    <2>9. PoolTyped' BY <1>16 DEF BodyClosed, pool, PoolTyped
    <2>. QED BY <2>6, <2>8, <2>9 DEF Plain
  <1>17. ASSUME NEW r \in Req, Backoff(r) PROVE Plain
    <2>6. Frame /\ TellsAll
      <3>a. CASE rq' = Step(r, "get")
        <4>1. PICK k : k = [rq[r] EXCEPT !.pc = "get"] OBVIOUS
        <4>2. k \in RqRec BY <1>0, <4>1, Constants DEF RqRec
        <4>4. QuietTo(rq[r], k) BY <1>17, <1>0, <4>1 DEF Backoff, QuietTo, RqRec, OnStream
        <4>5. ToldTo(rq[r], k) BY <1>0, <4>1 DEF ToldTo, RqRec
        <4>. QED BY <1>0, <3>a, <4>1, <4>2, <4>4, <4>5, MoveFrame DEF Step
      <3>b. CASE rq[r].ctx /\ rq' = Return(rq, r, "ctx")
        <4>3. PICK k \in RqRec : Return(rq, r, "ctx") = [rq EXCEPT ![r] = k]
                    /\ k.pc = "done" /\ ~k.held /\ k.ctx = rq[r].ctx
          <5>1. rq \in [Req -> RqRec] /\ Fine(r, rq[r]) /\ "ctx" \in Errors \cup {"ok"}
                      /\ ("ctx" = "ctx" => rq[r].ctx)
            BY <1>0, <3>b
          <5>. QED BY <5>1, Returned
        <4>4. rq' = Becomes(r, k) BY <3>b, <4>3 DEF Becomes
        <4>5. ElsewhereTo(rq[r], k)
          BY <1>17, <1>0, <4>3 DEF Backoff, ElsewhereTo, OnStream, Fine, Placed
        <4>6. ToldTo(rq[r], k) BY <4>3 DEF ToldTo
        <4>. QED BY <1>0, <4>3, <4>4, <4>5, <4>6, MoveFrame
      <3>. QED BY <1>17, <3>a, <3>b DEF Backoff
    <2>8. cc' \in [CC -> ConnRec] /\ \A d \in CC : Settled(cc[d], cc'[d])
      <3>1. UNCHANGED cc BY <1>17 DEF Backoff
      <3>. QED BY <3>1, ConnsKeep
    <2>9. PoolTyped' BY <1>17 DEF Backoff, pool, PoolTyped
    <2>. QED BY <2>6, <2>8, <2>9 DEF Plain
  <1>18. ASSUME NEW c \in CC, DialConn(c) PROVE Plain
    <2>6. Frame /\ TellsAll BY <1>18, KeptFrame DEF DialConn
    <2>8. cc' \in [CC -> ConnRec] /\ \A d \in CC : Settled(cc[d], cc'[d])
      <3>1. PICK one \in BOOLEAN : Newborn(c, one) BY <1>18 DEF DialConn, PoolTyped, OptRec
      <3>2. \A d \in CC : Settled(cc[d], cc'[d]) BY <3>1, NewbornSettles
      <3>3. cc' = [d \in CC |-> cc'[d]] BY <3>1 DEF Newborn, ConnBecomes
      <3>. QED BY <3>2, <3>3 DEF Settled
    <2>9. PoolTyped'
      <3>1. [dialing EXCEPT !.res = c] \in CallRec /\ [dialing EXCEPT !.res = c].err = "none"
        BY Constants DEF PoolTyped, CallRec
      <3>. QED BY <1>18, <3>1 DEF DialConn, PoolTyped
    <2>. QED BY <2>6, <2>8, <2>9 DEF Plain
  <1>19. ASSUME NEW r \in Req, ServerRuns(r) PROVE Plain
    <2>0. PICK n \in Nat : n = rq[r].exec + 1 BY <1>0 DEF RqRec
    <2>1. PICK k : k = [rq[r] EXCEPT !.ran = TRUE, !.exec = n] OBVIOUS
    <2>2. k \in RqRec BY <1>0, <2>1 DEF RqRec
    <2>3. rq' = Becomes(r, k) BY <1>19, <2>0, <2>1 DEF ServerRuns
    <2>4. QuietTo(rq[r], k) BY <1>0, <2>1 DEF QuietTo, RqRec
    <2>5. ToldTo(rq[r], k) BY <1>0, <2>1 DEF ToldTo, RqRec
    <2>6. Frame /\ TellsAll BY <1>0, <2>2, <2>3, <2>4, <2>5, MoveFrame
    <2>8. cc' \in [CC -> ConnRec] /\ \A d \in CC : Settled(cc[d], cc'[d])
      <3>1. UNCHANGED cc BY <1>19 DEF ServerRuns
      <3>. QED BY <3>1, ConnsKeep
    <2>9. PoolTyped' BY <1>19 DEF ServerRuns, pool, PoolTyped
    <2>. QED BY <2>6, <2>8, <2>9 DEF Plain
  <1>20. ASSUME NEW r \in Req, ServerResponds(r) PROVE Plain
    <2>1. PICK k : k = [rq[r] EXCEPT !.resp = TRUE] OBVIOUS
    <2>2. k \in RqRec /\ Fine(r, rq[r]) BY <1>0, <2>1, Constants DEF RqRec
    <2>3. rq' = Becomes(r, k) BY <1>20, <2>1 DEF ServerResponds
    <2>4. QuietTo(rq[r], k) \/ ElsewhereTo(rq[r], k)
      BY <1>20, <1>0, <2>1, <2>2
         DEF ServerResponds, QuietTo, ElsewhereTo, RqRec, OnStream, Fine, Placed
    <2>5. ToldTo(rq[r], k) BY <1>20, <1>0, <2>1 DEF ServerResponds, ToldTo, RqRec
    <2>6. Frame /\ TellsAll BY <1>0, <2>2, <2>3, <2>4, <2>5, MoveFrame
    <2>8. cc' \in [CC -> ConnRec] /\ \A d \in CC : Settled(cc[d], cc'[d])
      <3>1. UNCHANGED cc BY <1>20 DEF ServerResponds
      <3>. QED BY <3>1, ConnsKeep
    <2>9. PoolTyped' BY <1>20 DEF ServerResponds, pool, PoolTyped
    <2>. QED BY <2>6, <2>8, <2>9 DEF Plain
  <1>21. ASSUME NEW r \in Req, ServerEnds(r) PROVE Plain
    <2>1. PICK k : k = [rq[r] EXCEPT !.pc = "cleanup"] OBVIOUS
    <2>2. k \in RqRec /\ Fine(r, rq[r]) BY <1>0, <2>1, Constants DEF RqRec
    <2>3. rq' = Becomes(r, k) BY <1>21, <2>1 DEF ServerEnds, Step, Live
    <2>4. QuietTo(rq[r], k) \/ ElsewhereTo(rq[r], k)
      BY <1>21, <1>0, <2>1, <2>2
         DEF ServerEnds, Step, Live, QuietTo, ElsewhereTo, RqRec, OnStream, Fine, Placed
    <2>5. ToldTo(rq[r], k) BY <1>21, <1>0, <2>1 DEF ServerEnds, Step, Live, ToldTo, RqRec
    <2>6. Frame /\ TellsAll BY <1>0, <2>2, <2>3, <2>4, <2>5, MoveFrame
    <2>8. cc' \in [CC -> ConnRec] /\ \A d \in CC : Settled(cc[d], cc'[d])
      <3>1. UNCHANGED cc BY <1>21 DEF ServerEnds
      <3>. QED BY <3>1, ConnsKeep
    <2>9. PoolTyped' BY <1>21 DEF ServerEnds, pool, PoolTyped
    <2>. QED BY <2>6, <2>8, <2>9 DEF Plain
  <1>22. ASSUME NEW r \in Req, NEW e \in {"refused", "lost"}, NEW b \in BOOLEAN,
                ServerResets(r, e, b)
         PROVE  Plain
    <2>1. rq' = Abort(rq, rq[r].conn, {r}, e) BY <1>22 DEF ServerResets
    <2>6. Frame /\ TellsAll BY <1>0, <2>1, AbortFrame
    <2>8. cc' \in [CC -> ConnRec] /\ \A d \in CC : Settled(cc[d], cc'[d])
      <3>1. CASE UNCHANGED cc BY <3>1, ConnsKeep
      <3>2. CASE cc' = ConnBecomes(rq[r].conn, [cc[rq[r].conn] EXCEPT !.noReuse = TRUE])
        <4>1. rq[r].conn \in CC
          BY <1>22, <1>0 DEF ServerResets, Live, Fine, Placed, OnIts, OnStream
        <4>2. Settled(cc[rq[r].conn], [cc[rq[r].conn] EXCEPT !.noReuse = TRUE])
          BY <4>1, FlagsSettle, Constants
        <4>3. cc' \in [CC -> ConnRec] BY <3>2, <4>1, <4>2, ConnBecoming DEF Settled
        <4>. QED BY <3>2, <4>1, <4>2, <4>3, ConnSettles
      <3>. QED BY <1>22, <3>1, <3>2 DEF ServerResets
    <2>9. PoolTyped' BY <1>22 DEF ServerResets, pool, PoolTyped
    <2>. QED BY <2>6, <2>8, <2>9 DEF Plain
  <1>23. ASSUME NEW c \in CC, NEW n \in MaxStreams, ServerSettings(c, n) PROVE Plain
    <2>6. Frame /\ TellsAll BY <1>23, KeptFrame DEF ServerSettings
    <2>7. n \in Nat BY H2PoolConstants
    <2>8. cc' \in [CC -> ConnRec] /\ \A d \in CC : Settled(cc[d], cc'[d])
      <3>1. c \in CC BY <1>23, <1>0 DEF ServerSettings, Fine, Placed, OnIts, OnStream
      <3>2. PICK m : m = [cc[c] EXCEPT !.max = n] OBVIOUS
      <3>3. Settled(cc[c], m) BY <3>1, <3>2, FlagsSettle, Constants, <2>7
      <3>4. cc' = ConnBecomes(c, m) BY <1>23, <3>2 DEF ServerSettings
      <3>5. cc' \in [CC -> ConnRec] BY <3>1, <3>3, <3>4, ConnBecoming DEF Settled
      <3>. QED BY <3>1, <3>3, <3>4, <3>5, ConnSettles
    <2>9. PoolTyped' BY <1>23 DEF ServerSettings, pool, PoolTyped
    <2>. QED BY <2>6, <2>8, <2>9 DEF Plain
  <1>24. ASSUME NEW c \in CC, LostPing(c) PROVE Plain
    <2>1. rq' = Abort(rq, c, cc[c].streams, "lost") BY <1>24 DEF LostPing
    <2>6. Frame /\ TellsAll BY <1>0, <2>1, AbortFrame
    <2>8. cc' \in [CC -> ConnRec] /\ \A d \in CC : Settled(cc[d], cc'[d])
      <3>1. c \in CC BY <1>24, <1>0 DEF LostPing, Fine, Placed, OnIts, OnStream
      <3>2. PICK m : m = [cc[c] EXCEPT !.closed = TRUE] OBVIOUS
      <3>3. Settled(cc[c], m) BY <3>1, <3>2, FlagsSettle, Constants
      <3>4. cc' = ConnBecomes(c, m) BY <1>24, <3>2 DEF LostPing
      <3>5. cc' \in [CC -> ConnRec] BY <3>1, <3>3, <3>4, ConnBecoming DEF Settled
      <3>. QED BY <3>1, <3>3, <3>4, <3>5, ConnSettles
    <2>9. PoolTyped' BY <1>24 DEF LostPing, pool, PoolTyped
    <2>. QED BY <2>6, <2>8, <2>9 DEF Plain
  <1>25. ASSUME NEW c \in CC, ReadLoopEnds(c) PROVE Plain
    <2>1. rq' = Abort(rq, c, {r \in cc[c].streams : rq[r].pc # "cleanup"}, "lost")
      BY <1>25 DEF ReadLoopEnds
    <2>6. Frame /\ TellsAll BY <1>0, <2>1, AbortFrame
    <2>8. cc' \in [CC -> ConnRec] /\ \A d \in CC : Settled(cc[d], cc'[d])
      <3>1. cc[c] \in ConnRec OBVIOUS
      <3>2. PICK k : k = [NewCC EXCEPT !.born = TRUE, !.closed = TRUE,
                  !.streams = cc[c].streams, !.hdr = cc[c].hdr,
                                       !.reserved = cc[c].reserved]
        OBVIOUS
      <3>3. k \in ConnRec BY <3>1, <3>2, Constants DEF ConnRec
      <3>4. k.streams = cc[c].streams /\ k.away = NoAway /\ k.reserved = cc[c].reserved
        BY <3>2 DEF NewCC
      <3>5. Settled(cc[c], k) BY <3>1, <3>3, <3>4 DEF Settled, ConnRec
      <3>6. cc' = ConnBecomes(c, k) BY <1>25, <3>2 DEF ReadLoopEnds
      <3>7. cc' \in [CC -> ConnRec] BY <3>3, <3>6, ConnBecoming
      <3>. QED BY <3>5, <3>6, <3>7, ConnSettles
    <2>9. PoolTyped' BY <1>25, DeadTyped DEF ReadLoopEnds, PoolTyped
    <2>. QED BY <2>6, <2>8, <2>9 DEF Plain
  <1>26. CASE CloseIdleConnections
    <2>6. Frame /\ TellsAll BY <1>26, KeptFrame DEF CloseIdleConnections
    <2>8. cc' \in [CC -> ConnRec] /\ \A d \in CC : Settled(cc[d], cc'[d])
      <3>1. cc' = [c \in CC |-> IF c \in ToSet(conns) /\ IsIdle(cc[c])
                  THEN [cc[c] EXCEPT !.closed = TRUE] ELSE cc[c]]
        BY <1>26 DEF CloseIdleConnections
      <3>2. ASSUME NEW d \in CC PROVE Settled(cc[d], cc'[d])
        <4>1. Settled(cc[d], [cc[d] EXCEPT !.closed = TRUE]) BY FlagsSettle, Constants
        <4>2. Settled(cc[d], cc[d]) BY DEF Settled, ConnRec
        <4>. QED BY <3>1, <4>1, <4>2
      <3>. QED BY <3>1, <3>2 DEF Settled
    <2>9. PoolTyped' BY <1>26 DEF CloseIdleConnections, pool, PoolTyped
    <2>. QED BY <2>6, <2>8, <2>9 DEF Plain
  <1>27. CASE UNCHANGED vars
    <2>6. Frame /\ TellsAll BY <1>27, KeptFrame DEF vars
    <2>8. cc' \in [CC -> ConnRec] /\ \A d \in CC : Settled(cc[d], cc'[d])
      <3>1. UNCHANGED cc BY <1>27 DEF vars
      <3>. QED BY <3>1, ConnsKeep
    <2>9. PoolTyped' BY <1>27 DEF vars, pool, PoolTyped
    <2>. QED BY <2>6, <2>8, <2>9 DEF Plain
  <1>a. ASSUME NEW r \in Req, GetReserve(r) PROVE Special
    <2>1. PICK c \in CC : Reserve(r, c) BY <1>a DEF GetReserve, PoolTyped
    <2>. QED BY <1>a, <2>1 DEF GetReserve, Special
  <1>b. ASSUME NEW r \in Req, DialedReserve(r) PROVE Special
    <2>1. rq[r].call.res \in CC BY <1>b, <1>0 DEF DialedReserve, Fine, Placed
    <2>. QED BY <1>b, <2>1 DEF DialedReserve, Special
  <1>c. CASE DialSucceeds
    <2>1. dialing \in CallRec /\ dialing.res \in CC /\ dialing.err = "none"
      BY <1>c DEF DialSucceeds, PoolTyped, CallRec, SomeConn
    <2>. QED BY <1>c, <2>1 DEF DialSucceeds, Special
  <1>d. CASE DialFails
    <2>0. dialing.ctx \in Req BY <1>d DEF DialFails, PoolTyped, CallRec, SomeReq
    <2>1. PICK e \in {"lost", "ctx"} : DialDone([dialing EXCEPT !.err = e])
                /\ (e = "ctx" => rq[dialing.ctx].ctx)
      BY <1>d DEF DialFails
    <2>2. PICK call : call = [dialing EXCEPT !.err = e] OBVIOUS
    <2>3. call \in CallRec /\ call.err = e /\ call.ctx = dialing.ctx
      BY <2>2 DEF PoolTyped, CallRec
    <2>. QED BY <2>0, <2>1, <2>2, <2>3 DEF Special
  <1>e. ASSUME NEW r \in Req, Client(r) PROVE Plain \/ Special
    BY <1>e, <1>a, <1>b, <1>1, <1>2, <1>3, <1>4, <1>5, <1>6, <1>7, <1>8, <1>9, <1>10,
       <1>11, <1>13, <1>15, <1>16, <1>17, <1>27 DEF Client, Special
  <1>f. CASE Dialer BY <1>f, <1>c, <1>d, <1>18, <1>27 DEF Dialer
  <1>g. CASE Server
    <2>1. Unruly \subseteq CC BY H2PoolConstants DEF CC
    <2>. QED
      BY <1>g, <2>1, <1>19, <1>20, <1>21, <1>22, <1>23, <1>24, <1>25, <1>27 DEF Server, Special
  <1>. QED BY <1>e, <1>f, <1>g, <1>12, <1>14, <1>26, <1>27 DEF Next, AllDone

-----------------------------------------------------------------------------
(* The invariant across a plain step.                                      *)

\* Requests that hold a reservation can be counted.
LEMMA HoldersCount ==
  ASSUME NEW c
  PROVE  /\ IsFiniteSet(Holders(c)) /\ Cardinality(Holders(c)) \in Nat
         /\ \A r \in Req : /\ r \in Holders(c)
                                 => Cardinality(Holders(c) \ {r}) = Cardinality(Holders(c)) - 1
                           /\ r \notin Holders(c)
                                   => Cardinality(Holders(c) \cup {r}) = Cardinality(Holders(c)) + 1
  <1>1. IsFiniteSet(Holders(c))
    <2>1. Holders(c) \subseteq Req BY DEF Holders
    <2>2. IsFiniteSet(Req) BY H2PoolConstants
    <2>. QED BY <2>1, <2>2, FS_Subset
  <1>. QED BY <1>1, FS_CardinalityType, FS_AddElement, FS_RemoveElement

\* Whoever has a stream on a connection stays quiet.
StreamsQuiet == \A q \in Req : Quiet(q) \/ (\A d \in CC : q \notin cc'[d].streams)

\* Only a request on a stream needs to stay quiet.
LEMMA FrameQuiet ==
  ASSUME Streams, \A c \in CC : cc'[c].streams \subseteq cc[c].streams,
         \A q \in Req : Quiet(q) \/ rq[q].pc \notin OnStream
  PROVE  StreamsQuiet
  BY DEF StreamsQuiet, Streams

\* Quiet steps keep streams with their requests.
LEMMA StreamsFrame ==
  ASSUME cc \in [CC -> ConnRec], StreamsQuiet, Streams,
         \A c \in CC : cc'[c].streams \subseteq cc[c].streams
  PROVE  Streams'
  <1>1. ASSUME NEW c \in CC, NEW r \in cc'[c].streams
        PROVE  rq'[r].conn = c /\ rq'[r].pc \in OnStream
    <2>1. r \in cc[c].streams BY <1>1
    <2>2. r \in Req BY <2>1 DEF ConnRec, ReqSet
    <2>3. rq[r].conn = c /\ rq[r].pc \in OnStream BY <2>1 DEF Streams
    <2>. QED BY <1>1, <2>2, <2>3 DEF StreamsQuiet, Quiet
  <1>. QED BY <1>1 DEF Streams, OnStream

\* Quiet steps keep the streams above GOAWAY aborted.
LEMMA AwayFrame ==
  ASSUME cc \in [CC -> ConnRec], StreamsQuiet, NoneAboveGoAway,
         \A c \in CC : cc'[c].streams \subseteq cc[c].streams
                 /\ cc'[c].away \in {cc[c].away, NoAway}
  PROVE  NoneAboveGoAway'
  <1>1. ASSUME NEW c \in CC, NEW r \in cc'[c].streams, cc'[c].away # NoAway,
               rq'[r].id > cc'[c].away
        PROVE  rq'[r].abort # "none"
    <2>1. r \in cc[c].streams BY <1>1
    <2>2. r \in Req BY <2>1 DEF ConnRec, ReqSet
    <2>4. Quiet(r) BY <1>1, <2>2 DEF StreamsQuiet
    <2>5. cc'[c].away = cc[c].away BY <1>1
    <2>6. rq[r].id > cc[c].away /\ cc[c].away # NoAway BY <1>1, <2>4, <2>5 DEF Quiet
    <2>7. rq[r].abort # "none" BY <2>1, <2>6 DEF NoneAboveGoAway
    <2>. QED BY <2>4, <2>7 DEF Quiet
  <1>. QED BY <1>1 DEF NoneAboveGoAway, NoAway

\* A framed step takes no reservation and returns none.
LEMMA HoldersFrame ==
  ASSUME NEW c, \A q \in Req : Quiet(q) \/ Elsewhere(q) PROVE Holders(c)' = Holders(c)
  <1>1. ASSUME NEW q \in Req
        PROVE  (rq'[q].conn = c /\ rq'[q].held) <=> (rq[q].conn = c /\ rq[q].held)
    BY DEF Quiet, Elsewhere
  <1>. QED BY <1>1 DEF Holders

\* A framed step keeps the reservations backed.
LEMMA BackedFrame ==
  ASSUME cc \in [CC -> ConnRec], cc' \in [CC -> ConnRec], Frame, ReservationsBacked,
         \A c \in CC : cc'[c].reserved <= cc[c].reserved
  PROVE  ReservationsBacked'
  <1>1. ASSUME NEW c \in CC PROVE cc'[c].reserved <= Cardinality(Holders(c)')
    <2>1. Holders(c)' = Holders(c) BY HoldersFrame DEF Frame
    <2>2. cc[c].reserved <= Cardinality(Holders(c)) BY DEF ReservationsBacked, Holders
    <2>3. cc[c].reserved \in Nat /\ cc'[c].reserved \in Nat BY DEF ConnRec
    <2>4. cc'[c].reserved <= cc[c].reserved OBVIOUS
    <2>. QED BY <2>1, <2>2, <2>3, <2>4, HoldersCount
  <1>. QED BY <1>1 DEF ReservationsBacked, Holders

\* The outcomes of dials that are already told stay true.
LEMMA DialsFrame ==
  ASSUME rq \in [Req -> RqRec], PoolTyped', DialsTold, TellsAll PROVE DialsTold'
  <1>1. ASSUME NEW r \in Req, rq'[r].pc = "dialed", rq'[r].call.err = "ctx"
        PROVE  rq'[r].call.ctx \in Req /\ rq'[rq'[r].call.ctx].ctx
    <2>1. rq[r].pc = "dialed" /\ rq'[r].call = rq[r].call BY <1>1 DEF TellsAll, Told
    <2>2. rq[r].call.ctx \in Req /\ rq[rq[r].call.ctx].ctx BY <1>1, <2>1 DEF DialsTold
    <2>. QED BY <2>1, <2>2 DEF TellsAll, Told
  <1>. QED BY <1>1 DEF DialsTold, PoolTyped

\* A plain step keeps the invariant.
LEMMA PlainKeeps ==
  ASSUME H2Inv, Plain, RqFine' PROVE H2Inv'
  <1>1. /\ cc \in [CC -> ConnRec] /\ cc' \in [CC -> ConnRec] /\ rq \in [Req -> RqRec]
        /\ Frame /\ TellsAll
        /\ Streams /\ NoneAboveGoAway /\ ReservationsBacked /\ DialsTold /\ PoolTyped'
    BY DEF H2Inv, Types, Plain
  <1>2. \A c \in CC : cc'[c].streams \subseteq cc[c].streams
              /\ cc'[c].away \in {cc[c].away, NoAway} /\ cc'[c].reserved <= cc[c].reserved
    BY DEF Plain, Settled
  <1>0. StreamsQuiet BY <1>1, <1>2, FrameQuiet DEF Frame, Elsewhere
  <1>3. Streams' BY <1>0, <1>1, <1>2, StreamsFrame
  <1>4. NoneAboveGoAway' BY <1>0, <1>1, <1>2, AwayFrame
  <1>5. ReservationsBacked' BY <1>1, <1>2, BackedFrame
  <1>6. DialsTold' BY <1>1, DialsFrame
  <1>7. Types' BY <1>1 DEF PoolTyped, Types, RqFine
  <1>. QED BY <1>3, <1>4, <1>5, <1>6, <1>7 DEF H2Inv, RqFine

\* A reservation that is given back or lost.
-----------------------------------------------------------------------------
(* The invariant across the other steps.                                   *)

\* Request r gives up its reservation, and the connection counts one less.
LEMMA BackedDrop ==
  ASSUME cc \in [CC -> ConnRec], cc' \in [CC -> ConnRec], ReservationsBacked, NEW r \in Req,
         \A q \in Req : q # r => Quiet(q), ~rq'[r].held,
         \A d \in CC : cc'[d].reserved <= cc[d].reserved,
         rq[r].held => LET c == rq[r].conn IN cc'[c].reserved = 0
                 \/ cc'[c].reserved <= cc[c].reserved - 1
  PROVE  ReservationsBacked'
  <1>1. ASSUME NEW d \in CC PROVE cc'[d].reserved <= Cardinality(Holders(d)')
    <2>1. Holders(d)' = Holders(d) \ {r}
      <3>1. ASSUME NEW q \in Req PROVE q \in Holders(d)' <=> q \in Holders(d) \ {r}
        <4>1. CASE q = r BY <4>1 DEF Holders
        <4>2. CASE q # r BY <4>2 DEF Holders, Quiet
        <4>. QED BY <4>1, <4>2
      <3>. QED BY <3>1 DEF Holders
    <2>2. cc[d].reserved <= Cardinality(Holders(d)) BY DEF ReservationsBacked, Holders
    <2>3. cc[d].reserved \in Nat /\ cc'[d].reserved \in Nat BY DEF ConnRec
    <2>4. cc'[d].reserved <= cc[d].reserved OBVIOUS
    <2>5. CASE r \in Holders(d)
      <3>1. rq[r].conn = d /\ rq[r].held BY <2>5 DEF Holders
      <3>2. cc'[d].reserved = 0 \/ cc'[d].reserved <= cc[d].reserved - 1 BY <3>1
      <3>3. Cardinality(Holders(d) \ {r}) = Cardinality(Holders(d)) - 1 BY <2>5, HoldersCount
      <3>4. Cardinality(Holders(d)) \in Nat /\ Cardinality(Holders(d) \ {r}) \in Nat
        BY <2>5, HoldersCount, FS_RemoveElement, FS_CardinalityType
      <3>. QED BY <2>1, <2>2, <2>3, <3>2, <3>3, <3>4
    <2>6. CASE r \notin Holders(d)
      <3>1. Holders(d) \ {r} = Holders(d) BY <2>6
      <3>2. Holders(d)' = Holders(d) BY <2>1, <3>1
      <3>3. Cardinality(Holders(d)) \in Nat BY HoldersCount
      <3>. QED BY <2>2, <2>3, <2>4, <3>2, <3>3
    <2>. QED BY <2>5, <2>6
  <1>. QED BY <1>1 DEF ReservationsBacked, Holders

\* Request r gets a reservation, and the connection counts one more.
LEMMA BackedTake ==
  ASSUME cc \in [CC -> ConnRec], cc' \in [CC -> ConnRec], ReservationsBacked,
         NEW r \in Req, NEW c \in CC,
         \A q \in Req : q # r => Quiet(q), rq'[r].held, rq'[r].conn = c, ~rq[r].held,
         \A d \in CC : d # c => cc'[d].reserved <= cc[d].reserved,
         cc'[c].reserved = cc[c].reserved + 1
  PROVE  ReservationsBacked'
  <1>1. ASSUME NEW d \in CC PROVE cc'[d].reserved <= Cardinality(Holders(d)')
    <2>2. cc[d].reserved <= Cardinality(Holders(d)) BY DEF ReservationsBacked, Holders
    <2>3. cc[d].reserved \in Nat /\ cc'[d].reserved \in Nat BY DEF ConnRec
    <2>4. r \notin Holders(d) BY DEF Holders
    <2>5. CASE d = c
      <3>1. Holders(d)' = Holders(d) \cup {r}
        <4>1. ASSUME NEW q \in Req PROVE q \in Holders(d)' <=> q \in Holders(d) \cup {r}
          <5>1. CASE q = r BY <2>5, <5>1 DEF Holders
          <5>2. CASE q # r BY <5>2 DEF Holders, Quiet
          <5>. QED BY <5>1, <5>2
        <4>. QED BY <4>1 DEF Holders
      <3>2. Cardinality(Holders(d) \cup {r}) = Cardinality(Holders(d)) + 1 BY <2>4, HoldersCount
      <3>3. Cardinality(Holders(d)) \in Nat BY HoldersCount
      <3>. QED BY <2>2, <2>3, <2>5, <3>1, <3>2, <3>3
    <2>6. CASE d # c
      <3>1. Holders(d)' = Holders(d)
        <4>1. ASSUME NEW q \in Req PROVE q \in Holders(d)' <=> q \in Holders(d)
          <5>1. CASE q = r BY <2>6, <5>1 DEF Holders
          <5>2. CASE q # r BY <5>2 DEF Holders, Quiet
          <5>. QED BY <5>1, <5>2
        <4>. QED BY <4>1 DEF Holders
      <3>2. cc'[d].reserved <= cc[d].reserved BY <2>6
      <3>. QED BY <2>2, <2>3, <3>1, <3>2, HoldersCount
    <2>. QED BY <2>5, <2>6
  <1>. QED BY <1>1 DEF ReservationsBacked, Holders

\* All others stay quiet when one request moves.
LEMMA OneMoves ==
  ASSUME rq \in [Req -> RqRec], NEW r \in Req, NEW k \in RqRec, rq' = Becomes(r, k),
         ToldTo(rq[r], k)
  PROVE  rq'[r] = k /\ (\A q \in Req : q # r => Quiet(q)) /\ TellsAll
  <1>1. rq'[r] = k /\ \A q \in Req : q # r => rq'[q] = rq[q] BY Becoming
  <1>2. ASSUME NEW q \in Req PROVE (q # r => Quiet(q)) /\ Told(q)
    <2>1. CASE q = r BY <1>1, <2>1 DEF Told, ToldTo
    <2>2. CASE q # r BY <1>1, <2>2 DEF Quiet, Told
    <2>. QED BY <2>1, <2>2
  <1>. QED BY <1>1, <1>2 DEF TellsAll

\* The invariant from its parts.
LEMMA Together ==
  ASSUME H2Inv, RqFine', PoolTyped', cc' \in [CC -> ConnRec], TellsAll, Streams',
         NoneAboveGoAway', ReservationsBacked'
  PROVE  H2Inv'
  <1>1. DialsTold' BY DialsFrame DEF H2Inv, Types
  <1>2. Types' BY DEF PoolTyped, Types, RqFine
  <1>. QED BY <1>1, <1>2 DEF H2Inv, RqFine

\* Taking a reservation (ReserveNewRequest) keeps the invariant.
LEMMA ReserveKeeps ==
  ASSUME H2Inv, RqFine', NEW r \in Req, NEW c \in CC, Reserve(r, c), rq[r].pc \in {"get",
         "dialed"}, UNCHANGED <<opt, pool>>
  PROVE  H2Inv'
  <1>. USE Values
  <1>0. /\ rq \in [Req -> RqRec] /\ cc \in [CC -> ConnRec] /\ rq[r] \in RqRec
        /\ cc[c] \in ConnRec /\ Fine(r, rq[r])
        /\ Streams /\ NoneAboveGoAway /\ ReservationsBacked
    BY DEF H2Inv, Types, AllFine
  <1>1. PICK k : k = [rq[r] EXCEPT !.pc = "lock", !.conn = c, !.held = TRUE, !.call = NoCall]
    OBVIOUS
  <1>2. k \in RqRec /\ k.pc = "lock" /\ k.conn = c /\ k.held = TRUE /\ ToldTo(rq[r], k)
    BY <1>0, <1>1, Constants DEF RqRec, ToldTo
  <1>3. rq' = Becomes(r, k) BY <1>1 DEF Reserve
  <1>4. rq'[r] = k /\ (\A q \in Req : q # r => Quiet(q)) /\ TellsAll
    BY <1>0, <1>2, <1>3, OneMoves
  <1>5. PICK n \in Nat : n = cc[c].reserved + 1 BY <1>0 DEF ConnRec
  <1>6. PICK m : m = [cc[c] EXCEPT !.reserved = n] OBVIOUS
  <1>7. m \in ConnRec /\ m.streams = cc[c].streams /\ m.away = cc[c].away
              /\ m.reserved = cc[c].reserved + 1
    BY <1>0, <1>5, <1>6 DEF ConnRec
  <1>8. cc' = ConnBecomes(c, m) BY <1>5, <1>6 DEF Reserve
  <1>9. cc' \in [CC -> ConnRec] /\ cc'[c] = m /\ \A d \in CC : d # c => cc'[d] = cc[d]
    BY <1>0, <1>7, <1>8, ConnBecoming
  <1>10. \A d \in CC : cc'[d].streams \subseteq cc[d].streams
               /\ cc'[d].away \in {cc[d].away, NoAway}
    BY <1>7, <1>9
  <1>11. StreamsQuiet
    <2>1. rq[r].pc \notin OnStream BY DEF OnStream
    <2>. QED BY <1>0, <1>4, <1>10, <2>1, FrameQuiet
  <1>12. Streams' BY <1>0, <1>10, <1>11, StreamsFrame
  <1>13. NoneAboveGoAway' BY <1>0, <1>10, <1>11, AwayFrame
  <1>14. ReservationsBacked'
    <2>1. ~rq[r].held BY <1>0 DEF Fine, Placed
    <2>2. \A d \in CC : d # c => cc'[d].reserved <= cc[d].reserved BY <1>0, <1>9 DEF ConnRec
    <2>. QED BY <1>0, <1>2, <1>4, <1>7, <1>9, <2>1, <2>2, BackedTake
  <1>15. PoolTyped' BY DEF H2Inv, Types, DialsTold, PoolTyped, pool
  <1>. QED BY <1>4, <1>9, <1>12, <1>13, <1>14, <1>15, Together

\* DecrReserved returns one reservation if there is one.
LEMMA Decremented ==
  ASSUME NEW k \in ConnRec
  PROVE  /\ DecrReserved(k) \in ConnRec
         /\ DecrReserved(k).streams = k.streams /\ DecrReserved(k).away = k.away
         /\ DecrReserved(k).reserved <= k.reserved
         /\ DecrReserved(k).reserved = 0 \/ DecrReserved(k).reserved <= k.reserved - 1
  <1>1. k.reserved \in Nat BY DEF ConnRec
  <1>2. PICK n \in Nat : n = IF k.reserved > 0 THEN k.reserved - 1 ELSE 0 BY <1>1
  <1>3. DecrReserved(k) = [k EXCEPT !.reserved = n] BY <1>2 DEF DecrReserved
  <1>4. PICK m : m = [k EXCEPT !.reserved = n] OBVIOUS
  <1>5. m \in ConnRec /\ m.streams = k.streams /\ m.away = k.away /\ m.reserved = n
    BY <1>4 DEF ConnRec
  <1>6. n <= k.reserved /\ (n = 0 \/ n <= k.reserved - 1) BY <1>1, <1>2
  <1>. QED BY <1>3, <1>4, <1>5, <1>6

\* Request r leaves its connection in state m: with the reservation gone, and with
\* a stream of r only if the connection has had no GOAWAY.
LEMMA SlotMove ==
  ASSUME H2Inv, RqFine', NEW r \in Req, NEW m \in ConnRec, NEW w \in RqRec,
         rq[r].pc \in {"lock", "slot"},
         LET c == rq[r].conn IN
            /\ cc' = ConnBecomes(c, m)
            /\ m.streams \subseteq cc[c].streams \cup {r} /\ m.away = cc[c].away
            /\ m.reserved <= cc[c].reserved
            /\ rq[r].held => m.reserved = 0 \/ m.reserved <= cc[c].reserved - 1,
         rq' = Becomes(r, w), w.conn = rq[r].conn, ~w.held, ToldTo(rq[r], w),
         r \in m.streams => w.pc \in OnStream /\ m.away = NoAway,
         UNCHANGED <<opt, pool>>
  PROVE  H2Inv'
  <1>0. /\ rq \in [Req -> RqRec] /\ cc \in [CC -> ConnRec] /\ rq[r] \in RqRec /\ Fine(r, rq[r])
        /\ Streams /\ NoneAboveGoAway /\ ReservationsBacked
    BY DEF H2Inv, Types, AllFine
  <1>1. PICK c \in CC : c = rq[r].conn BY <1>0 DEF Fine, Placed, OnIts
  <1>2. rq'[r] = w /\ (\A q \in Req : q # r => Quiet(q)) /\ TellsAll BY <1>0, OneMoves
  <1>3. cc' \in [CC -> ConnRec] /\ cc'[c] = m /\ \A d \in CC : d # c => cc'[d] = cc[d]
    BY <1>0, <1>1, ConnBecoming
  <1>4. /\ m.streams \subseteq cc[c].streams \cup {r} /\ m.away = cc[c].away
        /\ m.reserved <= cc[c].reserved
        /\ rq[r].held => m.reserved = 0 \/ m.reserved <= cc[c].reserved - 1
    BY <1>1
  <1>5. \A d \in CC : r \notin cc[d].streams BY <1>0 DEF Streams, OnStream
  <1>6. ASSUME NEW d \in CC, NEW q \in cc'[d].streams
        PROVE  /\ q \in Req
               /\ rq'[q].conn = d /\ rq'[q].pc \in OnStream
               /\ cc'[d].away # NoAway /\ rq'[q].id > cc'[d].away => rq'[q].abort # "none"
    <2>1. CASE q = r
      <3>1. d = c BY <1>3, <1>5, <1>6, <2>1
      <3>2. w.pc \in OnStream /\ m.away = NoAway BY <1>3, <1>6, <2>1, <3>1
      <3>. QED BY <1>1, <1>2, <1>3, <2>1, <3>1, <3>2
    <2>2. CASE q # r
      <3>1. q \in cc[d].streams /\ cc'[d].away = cc[d].away
        <4>1. CASE d = c BY <1>3, <1>4, <1>6, <2>2, <4>1
        <4>2. CASE d # c BY <1>3, <1>6, <4>2
        <4>. QED BY <4>1, <4>2
      <3>2. q \in Req BY <1>0, <3>1 DEF ConnRec, ReqSet
      <3>3. rq[q].conn = d /\ rq[q].pc \in OnStream BY <1>0, <3>1 DEF Streams
      <3>4. Quiet(q) BY <1>2, <2>2, <3>2
      <3>5. cc[d].away # NoAway /\ rq[q].id > cc[d].away => rq[q].abort # "none"
        BY <1>0, <3>1 DEF NoneAboveGoAway
      <3>. QED BY <3>1, <3>2, <3>3, <3>4, <3>5 DEF Quiet
    <2>. QED BY <2>1, <2>2
  <1>7. Streams' BY <1>6 DEF Streams, OnStream
  <1>8. NoneAboveGoAway' BY <1>6 DEF NoneAboveGoAway, NoAway
  <1>9. ReservationsBacked'
    <2>1. \A d \in CC : cc'[d].reserved <= cc[d].reserved BY <1>0, <1>3, <1>4 DEF ConnRec
    <2>. QED BY <1>0, <1>1, <1>2, <1>3, <1>4, <2>1, BackedDrop
  <1>10. PoolTyped' BY DEF H2Inv, Types, DialsTold, PoolTyped, pool
  <1>. QED BY <1>2, <1>3, <1>7, <1>8, <1>9, <1>10, Together

\* awaitOpenSlotForStreamLocked and addStreamLocked keep the invariant.
LEMMA SlotKeeps ==
  ASSUME H2Inv, RqFine', NEW r \in Req, NEW k \in ConnRec, NEW n, AwaitOpenSlot(r, k, n),
         rq[r].pc \in {"lock", "slot"},
         LET c == rq[r].conn IN
            /\ k.streams = cc[c].streams /\ k.away = cc[c].away /\ k.reserved <= cc[c].reserved
            /\ rq[r].held => k.reserved = 0 \/ k.reserved <= cc[c].reserved - 1,
         UNCHANGED <<opt, pool>>
  PROVE  H2Inv'
  <1>. USE Values
  <1>0. rq \in [Req -> RqRec] /\ rq[r] \in RqRec /\ Fine(r, rq[r]) /\ Streams /\ opt \in OptRec
    BY DEF H2Inv, Types, AllFine
  <1>1. PICK c \in CC : c = rq[r].conn BY <1>0 DEF Fine, Placed, OnIts
  <1>2. r \notin k.streams BY <1>0, <1>1 DEF Streams, OnStream
  <1>3. CASE /\ cc' = ConnBecomes(rq[r].conn, [k EXCEPT !.hdr = Nobody])
             /\ rq' = Becomes(r, [rq[r] EXCEPT !.pc = "cleanup", !.held = FALSE,
                     !.abort = OrElse(rq[r].abort, "unusable")])
    <2>1. PICK a \in Errors : a = OrElse(rq[r].abort, "unusable") BY <1>0 DEF OrElse, RqRec
    <2>2. PICK w : w = [rq[r] EXCEPT !.pc = "cleanup", !.held = FALSE, !.abort = a] OBVIOUS
    <2>3. w \in RqRec /\ w.conn = rq[r].conn /\ ~w.held /\ ToldTo(rq[r], w)
      BY <1>0, <2>2 DEF RqRec, ToldTo
    <2>4. PICK m : m = [k EXCEPT !.hdr = Nobody] OBVIOUS
    <2>5. m \in ConnRec /\ m.streams = k.streams /\ m.away = k.away /\ m.reserved = k.reserved
      BY <2>4, Constants DEF ConnRec
    <2>6. cc' = ConnBecomes(rq[r].conn, m) /\ rq' = Becomes(r, w) BY <1>3, <2>1, <2>2, <2>4
    <2>. HIDE DEF H2Inv
    <2>. QED BY <1>2, <2>3, <2>5, <2>6, SlotMove
  <1>4. CASE /\ CanTake(k, n)
             /\ cc' = ConnBecomes(rq[r].conn, [k EXCEPT !.hdr = r,
                     !.streams = k.streams \cup {r}, !.next = k.next + 2,
                                                        !.noReuse = k.noReuse
                                                                \/ r \in opt.close])
             /\ rq' = Becomes(r, [rq[r] EXCEPT !.pc = "headers", !.id = k.next, !.held = FALSE])
    <2>1. PICK i \in Nat : i = k.next BY DEF ConnRec
    <2>2. PICK w : w = [rq[r] EXCEPT !.pc = "headers", !.id = i, !.held = FALSE] OBVIOUS
    <2>3. w \in RqRec /\ w.conn = rq[r].conn /\ ~w.held /\ w.pc = "headers" /\ ToldTo(rq[r], w)
      BY <1>0, <2>2 DEF RqRec, ToldTo
    <2>4. PICK j \in Nat : j = k.next + 2 BY <2>1
    <2>5. PICK b \in BOOLEAN : b = (k.noReuse \/ r \in opt.close) BY DEF ConnRec
    <2>6. PICK S \in ReqSet : S = k.streams \cup {r} BY DEF ConnRec, ReqSet
    <2>7. PICK m : m = [k EXCEPT !.hdr = r, !.streams = S, !.next = j, !.noReuse = b] OBVIOUS
    <2>8. m \in ConnRec /\ m.streams = S /\ m.away = k.away /\ m.reserved = k.reserved
      BY <2>7, Constants DEF ConnRec
    <2>9. cc' = ConnBecomes(rq[r].conn, m) /\ rq' = Becomes(r, w)
      BY <1>4, <2>1, <2>2, <2>4, <2>5, <2>6, <2>7
    <2>10. m.away = NoAway /\ w.pc \in OnStream BY <1>4, <2>3, <2>8 DEF CanTake, OnStream
    <2>11. m.streams = k.streams \cup {r} BY <2>6, <2>8
    <2>. QED BY <2>3, <2>8, <2>9, <2>10, <2>11, SlotMove
  <1>5. CASE /\ cc' = ConnBecomes(rq[r].conn, [k EXCEPT !.hdr = r])
             /\ rq' = Becomes(r, [rq[r] EXCEPT !.pc = "slot", !.woken = FALSE, !.held = FALSE])
    <2>2. PICK w : w = [rq[r] EXCEPT !.pc = "slot", !.woken = FALSE, !.held = FALSE] OBVIOUS
    <2>3. w \in RqRec /\ w.conn = rq[r].conn /\ ~w.held /\ ToldTo(rq[r], w)
      BY <1>0, <2>2 DEF RqRec, ToldTo
    <2>4. PICK m : m = [k EXCEPT !.hdr = r] OBVIOUS
    <2>5. m \in ConnRec /\ m.streams = k.streams /\ m.away = k.away /\ m.reserved = k.reserved
      BY <2>4, Constants DEF ConnRec
    <2>6. cc' = ConnBecomes(rq[r].conn, m) /\ rq' = Becomes(r, w) BY <1>5, <2>2, <2>4
    <2>. QED BY <1>2, <2>3, <2>5, <2>6, SlotMove
  <1>. QED BY <1>3, <1>4, <1>5 DEF AwaitOpenSlot

\* The reservation is returned under reqHeaderMu before the slot is awaited.
LEMMA LockKeeps ==
  ASSUME H2Inv, RqFine', NEW r \in Req, LockHeader(r) PROVE H2Inv'
  <1>0. rq[r] \in RqRec /\ Fine(r, rq[r]) /\ cc \in [CC -> ConnRec] BY DEF H2Inv, Types, AllFine
  <1>1. rq[r].conn \in CC /\ rq[r].pc = "lock" BY <1>0 DEF LockHeader, Fine, Placed, OnIts
  <1>2. cc[rq[r].conn] \in ConnRec BY <1>0, <1>1
  <1>3. AwaitOpenSlot(r, DecrReserved(cc[rq[r].conn]), Cardinality(Pending(rq[r].conn)))
              /\ UNCHANGED <<opt, pool>>
    BY DEF LockHeader
  <1>. QED BY <1>1, <1>2, <1>3, Decremented, SlotKeeps

\* A request that is woken has no reservation any more.
LEMMA WakeKeeps ==
  ASSUME H2Inv, RqFine', NEW r \in Req, Wake(r), rq[r].abort = "none" PROVE H2Inv'
  <1>0. rq[r] \in RqRec /\ Fine(r, rq[r]) /\ cc \in [CC -> ConnRec] BY DEF H2Inv, Types, AllFine
  <1>1. rq[r].conn \in CC /\ rq[r].pc = "slot" /\ ~rq[r].held
    BY <1>0 DEF Wake, Fine, Placed, OnIts
  <1>2. cc[rq[r].conn] \in ConnRec /\ cc[rq[r].conn].reserved \in Nat BY <1>0, <1>1 DEF ConnRec
  <1>3. AwaitOpenSlot(r, cc[rq[r].conn], Cardinality(Pending(rq[r].conn) \ {r}))
              /\ UNCHANGED <<opt, pool>>
    BY DEF Wake
  <1>4. cc[rq[r].conn].reserved <= cc[rq[r].conn].reserved BY <1>2
  <1>. QED BY <1>1, <1>2, <1>3, <1>4, SlotKeeps

\* forgetStreamID removes one stream.
LEMMA Forgets ==
  ASSUME opt \in OptRec, NEW k \in ConnRec, NEW r \in Req
  PROVE  /\ Forget(k, r) \in ConnRec /\ Forget(k, r).streams = k.streams \ {r}
         /\ Forget(k, r).away = k.away /\ Forget(k, r).reserved = k.reserved
  <1>1. CASE r \notin k.streams
    <2>1. k.streams \ {r} = k.streams BY <1>1
    <2>. QED BY <1>1, <2>1 DEF Forget
  <1>2. CASE r \in k.streams
    <2>1. PICK S \in ReqSet : S = k.streams \ {r} BY DEF ConnRec, ReqSet
    <2>2. PICK b \in BOOLEAN :
             b = (k.closed \/ ((k.single \/ k.noReuse \/ opt.noKeepAlive
                     \/ k.away # NoAway) /\ k.reserved = 0 /\ S = {}))
      BY DEF ConnRec
    <2>3. Forget(k, r) = [k EXCEPT !.streams = S, !.closed = b] BY <1>2, <2>1, <2>2 DEF Forget
    <2>4. PICK m : m = [k EXCEPT !.streams = S, !.closed = b] OBVIOUS
    <2>5. m \in ConnRec /\ m.streams = S /\ m.away = k.away /\ m.reserved = k.reserved
      BY <2>4 DEF ConnRec
    <2>. QED BY <2>1, <2>3, <2>4, <2>5
  <1>. QED BY <1>1, <1>2

\* cleanupWriteRequest and the retry after it keep the invariant.
LEMMA CleanupKeeps ==
  ASSUME H2Inv, RqFine', NEW r \in Req, Cleanup(r) PROVE H2Inv'
  <1>. USE Values
  <1>0. /\ rq \in [Req -> RqRec] /\ cc \in [CC -> ConnRec] /\ rq[r] \in RqRec
              /\ Fine(r, rq[r]) /\ opt \in OptRec
        /\ Streams /\ NoneAboveGoAway /\ ReservationsBacked
    BY DEF H2Inv, Types, AllFine
  <1>1. PICK c \in CC : c = rq[r].conn BY <1>0 DEF Cleanup, Fine, Placed, OnIts, OnStream
  <1>2. PICK k \in ConnRec :
           /\ k = ReturnReservation(cc[c], r) /\ k.streams = cc[c].streams
                   /\ k.away = cc[c].away /\ k.reserved <= cc[c].reserved
           /\ rq[r].held => k.reserved = 0 \/ k.reserved <= cc[c].reserved - 1
    <2>1. cc[c] \in ConnRec BY <1>0
    <2>2. cc[c].reserved \in Nat BY <2>1 DEF ConnRec
    <2>3. rq[r].held => rq[r].id = 0 BY <1>0 DEF Fine, Placed
    <2>4. cc[c].reserved <= cc[c].reserved BY <2>2
    <2>5. CASE rq[r].id = 0
      <3>1. ReturnReservation(cc[c], r) = DecrReserved(cc[c]) BY <2>5 DEF ReturnReservation
      <3>. QED BY <2>1, <3>1, Decremented
    <2>6. CASE rq[r].id # 0
      <3>1. ReturnReservation(cc[c], r) = cc[c] BY <2>6 DEF ReturnReservation
      <3>. QED BY <2>1, <2>3, <2>4, <2>6, <3>1
    <2>. QED BY <2>5, <2>6
  <1>3. PICK m \in ConnRec : m = Forget(k, r) /\ m.streams = k.streams \ {r}
              /\ m.away = k.away /\ m.reserved = k.reserved
    BY <1>0, Forgets
  <1>4. cc' = ConnBecomes(c, m) BY <1>1, <1>2, <1>3 DEF Cleanup
  <1>5. cc' \in [CC -> ConnRec] /\ cc'[c] = m /\ \A d \in CC : d # c => cc'[d] = cc[d]
    BY <1>0, <1>4, ConnBecoming
  <1>6. PICK q : q = ForgottenWakes(rq, k, c, r) OBVIOUS
  <1>7. q \in [Req -> RqRec] /\ \A s \in Req : Same(q[s], rq[s]) /\ q[s].abort = rq[s].abort
    <2>1. \A s \in Req : Same(rq[s], rq[s]) BY DEF Same
    <2>. QED BY <1>0, <1>6, <2>1, BroadcastView DEF ForgottenWakes
  <1>8. PICK e \in Errors : e = IF rq[r].resp THEN "none" ELSE rq[r].abort BY <1>0 DEF RqRec
  <1>9. rq' = AfterRoundTrip(q, r, e) BY <1>1, <1>2, <1>6, <1>8 DEF Cleanup
  <1>10. PICK w \in RqRec : rq' = [q EXCEPT ![r] = w] /\ ~w.held /\ w.ctx = q[r].ctx
               /\ w.pc # "dialed"
    <2>1. CASE e # "none" /\ q[r].tries <= RetryLimit /\ ShouldRetryRequest(r, e)
      <3>1. PICK p \in Places : p = IF q[r].tries = 0 THEN "get" ELSE "backoff" OBVIOUS
      <3>2. PICK n \in Nat : n = q[r].tries + 1 BY <1>7 DEF RqRec
      <3>3. PICK w : w = [NewRq EXCEPT !.pc = p, !.tries = n, !.ctx = q[r].ctx,
                  !.sent = q[r].sent, !.exec = q[r].exec]
        OBVIOUS
      <3>4. w \in RqRec BY <1>7, <3>3, Constants DEF RqRec
      <3>5. rq' = [q EXCEPT ![r] = w] BY <1>9, <2>1, <3>1, <3>2, <3>3, Zenon DEF AfterRoundTrip
      <3>6. w.pc = p /\ w.ctx = q[r].ctx /\ w.held = FALSE BY <3>3, Constants DEF NewRq
      <3>7. p # "dialed" BY <3>1
      <3>. QED BY <3>4, <3>5, <3>6, <3>7
    <2>2. CASE ~(e # "none" /\ q[r].tries <= RetryLimit /\ ShouldRetryRequest(r, e))
      <3>1. PICK res \in Errors \cup {"ok"} : res = IF e = "none" THEN "ok" ELSE e BY <1>8
      <3>2. rq' = Return(q, r, res) BY <1>9, <2>2, <3>1, Zenon DEF AfterRoundTrip
      <3>3. res \in Errors \cup {"ok"} BY <3>1
      <3>4. q \in [Req -> RqRec] BY <1>7
      <3>5. Fine(r, q[r]) BY <1>0, <1>7 DEF Same, Fine, Placed, Once, SentOnce
      <3>6. e = "ctx" => q[r].ctx BY <1>0, <1>7, <1>8 DEF Same, Fine, Placed
      <3>7. res = "ctx" => q[r].ctx BY <3>1, <3>6
      <3>8. \E w \in RqRec : Return(q, r, res) = [q EXCEPT ![r] = w] /\ Fine(r, w)
                  /\ w.pc = "done" /\ ~w.held /\ w.ctx = q[r].ctx
        BY <3>3, <3>4, <3>5, <3>7, Returned
      <3>. QED BY <3>2, <3>8
    <2>. QED BY <2>1, <2>2
  <1>11. rq'[r] = w /\ \A s \in Req : s # r => rq'[s] = q[s] BY <1>7, <1>10
  <1>12. (\A s \in Req : s # r => Quiet(s)) /\ TellsAll
    <2>1. ASSUME NEW s \in Req, s # r PROVE Quiet(s) /\ Told(s)
      BY <1>7, <1>11, <2>1 DEF Same, Quiet, Told
    <2>2. Told(r) BY <1>7, <1>10, <1>11 DEF Told, Same
    <2>. QED BY <2>1, <2>2 DEF TellsAll
  <1>13. \A d \in CC : /\ cc'[d].streams \subseteq cc[d].streams
                             /\ cc'[d].away \in {cc[d].away, NoAway}
                       /\ cc'[d].reserved <= cc[d].reserved
    BY <1>0, <1>2, <1>3, <1>5 DEF ConnRec
  <1>14. \A d \in CC : r \notin cc'[d].streams
    <2>1. ASSUME NEW d \in CC, d # c PROVE r \notin cc[d].streams
      BY <1>0, <1>1, <2>1 DEF Streams
    <2>. QED BY <1>3, <1>5, <2>1
  <1>15. StreamsQuiet BY <1>12, <1>14 DEF StreamsQuiet
  <1>16. Streams' BY <1>0, <1>13, <1>15, StreamsFrame
  <1>17. NoneAboveGoAway' BY <1>0, <1>13, <1>15, AwayFrame
  <1>18. ReservationsBacked'
    <2>1. rq[r].held => LET d == rq[r].conn IN cc'[d].reserved = 0
                \/ cc'[d].reserved <= cc[d].reserved - 1
      BY <1>1, <1>2, <1>3, <1>5
    <2>2. ~rq'[r].held BY <1>10, <1>11
    <2>. QED BY <1>0, <1>5, <1>12, <1>13, <2>1, <2>2, BackedDrop
  <1>19. PoolTyped' BY DEF H2Inv, Types, DialsTold, PoolTyped, pool, Cleanup
  <1>. QED BY <1>5, <1>12, <1>16, <1>17, <1>18, <1>19, Together

\* processGoAway keeps the invariant: whatever is above last is aborted.
LEMMA GoAwayKeeps ==
  ASSUME H2Inv, RqFine', NEW c \in CC, NEW last \in 0..MaxID, NEW bad \in BOOLEAN,
         ServerGoAway(c, last, bad) PROVE H2Inv'
  <1>. USE Values
  <1>0. /\ rq \in [Req -> RqRec] /\ cc \in [CC -> ConnRec] /\ cc[c] \in ConnRec
        /\ Streams /\ NoneAboveGoAway /\ ReservationsBacked
    BY DEF H2Inv, Types, AllFine
  <1>. DEFINE err == IF cc[c].away # NoAway THEN cc[c].awayErr \/ bad ELSE bad
              S == {r \in cc[c].streams : rq[r].id > last /\ (TRUE = (rq[r].id = 1 /\ err))}
              T == {r \in cc[c].streams : rq[r].id > last /\ (FALSE = (rq[r].id = 1 /\ err))}
  <1>1. rq' = Abort(Abort(rq, c, S, "lost"), c, T, "refused") BY Zenon DEF ServerGoAway
  <1>2. cc' = ConnBecomes(c, [cc[c] EXCEPT !.away = last, !.awayErr = err])
    BY Zenon DEF ServerGoAway
  <1>3. \A r \in cc[c].streams : rq[r].id > last => r \in S \/ r \in T OBVIOUS
  <1>4. err \in BOOLEAN BY <1>0 DEF ConnRec
  <1>. HIDE DEF S, T, err
  <1>5. PICK q \in [Req -> RqRec] :
            /\ q = Abort(rq, c, S, "lost")
            /\ \A r \in Req : Same(q[r], rq[r]) /\ q[r].abort = IF r \in S
                    /\ rq[r].abort = "none" THEN "lost" ELSE rq[r].abort
    BY <1>0, AbortView
  <1>6. \A r \in Req : Same(rq'[r], q[r]) /\ rq'[r].abort = IF r \in T
              /\ q[r].abort = "none" THEN "refused" ELSE q[r].abort
    BY <1>1, <1>5, AbortView
  <1>7. ASSUME NEW r \in Req PROVE /\ Quiet(r) /\ Told(r)
                                   /\ r \in S \/ r \in T => rq'[r].abort # "none"
    BY <1>5, <1>6 DEF Quiet, Told, Same
  <1>8. PICK m : m = [cc[c] EXCEPT !.away = last, !.awayErr = err] OBVIOUS
  <1>9. m \in ConnRec /\ m.streams = cc[c].streams /\ m.reserved = cc[c].reserved
              /\ m.away = last
    <2>1. last \in LastID BY H2PoolConstants DEF LastID
    <2>. QED BY <1>0, <1>4, <1>8, <2>1 DEF ConnRec
  <1>10. cc' \in [CC -> ConnRec] /\ cc'[c] = m /\ \A d \in CC : d # c => cc'[d] = cc[d]
    BY <1>0, <1>2, <1>8, <1>9, ConnBecoming
  <1>11. \A d \in CC : cc'[d].streams \subseteq cc[d].streams
               /\ cc'[d].reserved <= cc[d].reserved
    BY <1>0, <1>9, <1>10 DEF ConnRec
  <1>12. Frame /\ TellsAll /\ StreamsQuiet BY <1>7 DEF Frame, TellsAll, StreamsQuiet
  <1>13. Streams' BY <1>0, <1>11, <1>12, StreamsFrame
  <1>14. ReservationsBacked' BY <1>0, <1>10, <1>11, <1>12, BackedFrame
  <1>15. ASSUME NEW d \in CC, NEW r \in cc'[d].streams, cc'[d].away # NoAway,
                rq'[r].id > cc'[d].away
         PROVE  rq'[r].abort # "none"
    <2>1. r \in cc[d].streams BY <1>11, <1>15
    <2>2. r \in Req BY <1>0, <2>1 DEF ConnRec, ReqSet
    <2>3. rq'[r].id = rq[r].id /\ (rq[r].abort # "none" => rq'[r].abort # "none")
      BY <1>7, <2>2 DEF Quiet
    <2>4. CASE d = c
      <3>1. rq[r].id > last BY <1>9, <1>10, <1>15, <2>3, <2>4
      <3>. QED BY <1>3, <1>7, <2>1, <2>2, <2>4, <3>1
    <2>5. CASE d # c
      <3>1. rq[r].abort # "none" BY <1>0, <1>10, <1>15, <2>1, <2>3, <2>5 DEF NoneAboveGoAway
      <3>. QED BY <2>3, <3>1
    <2>. QED BY <2>4, <2>5
  <1>16. NoneAboveGoAway' BY <1>15 DEF NoneAboveGoAway, NoAway
  <1>17. PoolTyped'
    <2>1. conns' \in Seq(CC) BY DeadTyped DEF H2Inv, Types, ServerGoAway
    <2>2. UNCHANGED <<opt, dialing, adding>> BY Zenon DEF ServerGoAway
    <2>. QED BY <2>1, <2>2 DEF H2Inv, Types, DialsTold, PoolTyped
  <1>. QED BY <1>10, <1>12, <1>13, <1>14, <1>16, <1>17, Together

\* The end of a dial keeps the invariant.
LEMMA DialKeeps ==
  ASSUME H2Inv, RqFine', NEW call \in CallRec, DialDone(call),
         call.err = "none" => call.res \in CC,
         call.err = "ctx" => call.ctx \in Req /\ rq[call.ctx].ctx
  PROVE  H2Inv'
  <1>0. /\ rq \in [Req -> RqRec] /\ cc \in [CC -> ConnRec] /\ Streams /\ NoneAboveGoAway
        /\ ReservationsBacked
        /\ DialsTold /\ \A r \in Req : rq[r] \in RqRec
    BY DEF H2Inv, Types
  <1>1. rq' = [s \in Req |-> IF rq[s].pc = "dialwait"
              THEN [rq[s] EXCEPT !.pc = "dialed", !.call = call] ELSE rq[s]]
        /\ cc' = cc
    BY DEF DialDone
  <1>2. ASSUME NEW s \in Req
        PROVE  /\ Quiet(s) /\ rq'[s].ctx = rq[s].ctx
               /\ rq'[s].pc = "dialed" => rq'[s].call = call \/ (rq[s].pc = "dialed"
                       /\ rq'[s].call = rq[s].call)
    <2>1. CASE rq[s].pc = "dialwait"
      <3>1. PICK k : k = [rq[s] EXCEPT !.pc = "dialed", !.call = call] OBVIOUS
      <3>2. /\ k.conn = rq[s].conn /\ k.id = rq[s].id /\ k.held = rq[s].held
            /\ k.abort = rq[s].abort /\ k.ctx = rq[s].ctx
            /\ k.call = call
        BY <1>0, <3>1 DEF RqRec
      <3>3. rq'[s] = k BY <1>1, <2>1, <3>1
      <3>. QED BY <2>1, <3>2, <3>3 DEF Quiet, OnStream
    <2>2. CASE rq[s].pc # "dialwait" BY <1>1, <2>2 DEF Quiet
    <2>. QED BY <2>1, <2>2
  <1>3. Frame /\ StreamsQuiet BY <1>2 DEF Frame, StreamsQuiet
  <1>4. \A d \in CC : /\ cc'[d].streams \subseteq cc[d].streams
                            /\ cc'[d].away \in {cc[d].away, NoAway}
                      /\ cc'[d].reserved <= cc[d].reserved
    <2>1. \A d \in CC : cc[d].reserved \in Nat BY <1>0 DEF ConnRec
    <2>2. cc' = cc BY <1>1
    <2>. QED BY <2>1, <2>2
  <1>5. Streams' BY <1>0, <1>3, <1>4, StreamsFrame
  <1>6. NoneAboveGoAway' BY <1>0, <1>3, <1>4, AwayFrame
  <1>7. ReservationsBacked' BY <1>0, <1>1, <1>3, <1>4, BackedFrame
  <1>8. /\ opt' = opt /\ adding' = adding /\ dialing' = NoCall /\ conns' \in Seq(CC)
    BY AddedTyped DEF DialDone, H2Inv, Types
  <1>9. DialsTold'
    <2>1. ASSUME NEW s \in Req, rq'[s].pc = "dialed", rq'[s].call.err = "ctx"
          PROVE  rq'[s].call.ctx \in Req /\ rq'[rq'[s].call.ctx].ctx
      <3>1. CASE rq'[s].call = call BY <1>2, <2>1, <3>1
      <3>2. CASE rq[s].pc = "dialed" /\ rq'[s].call = rq[s].call
        <4>1. rq[s].call.ctx \in Req /\ rq[rq[s].call.ctx].ctx BY <1>0, <2>1, <3>2 DEF DialsTold
        <4>. QED BY <1>2, <3>2, <4>1
      <3>. QED BY <1>2, <2>1, <3>1, <3>2
    <2>. QED BY <1>8, <2>1, Constants DEF DialsTold
  <1>10. Types' BY <1>0, <1>1, <1>8, Constants DEF H2Inv, Types, RqFine
  <1>. QED BY <1>5, <1>6, <1>7, <1>9, <1>10 DEF H2Inv, RqFine

-----------------------------------------------------------------------------
(* The theorems.                                                           *)

\* The initial states satisfy the invariant.
LEMMA Started ==
  ASSUME Init PROVE H2Inv
  <1>. USE Values
  <1>1. ASSUME NEW r \in Req
        PROVE  /\ rq[r] \in RqRec /\ Fine(r, rq[r]) /\ rq[r].pc # "dialed"
    <2>1. PICK p \in Places : p = (IF r \in ViaHTTP1 THEN "add" ELSE "get") OBVIOUS
    <2>2. PICK k : k = [NewRq EXCEPT !.pc = p] OBVIOUS
    <2>3. rq[r] = k BY <2>1, <2>2 DEF Init
    <2>4. k \in RqRec BY <2>2, Constants DEF RqRec
    <2>5. /\ k.pc = p /\ k.conn = NoConn /\ k.held = FALSE /\ k.abort = "none"
          /\ k.ran = FALSE /\ k.sent = 0
          /\ k.result = "none" /\ k.id = 0 /\ k.exec = 0
      BY <2>2 DEF NewRq
    <2>6. p \in {"add", "get"} BY <2>1
    <2>7. Fine(r, k) BY <2>5, <2>6 DEF Fine, Placed, Once, SentOnce, OnIts, OnStream
    <2>. QED BY <2>3, <2>4, <2>5, <2>6, <2>7
  <1>2. rq \in [Req -> RqRec] BY <1>1 DEF Init
  <1>3. cc \in [CC -> ConnRec] /\ \A c \in CC : cc[c] = NewCC BY Constants DEF Init
  <1>4. opt \in OptRec /\ conns \in Seq(CC) /\ dialing \in CallRec /\ adding \in SomeReq
              /\ dialing.err = "none"
    BY Constants, H2PoolConstants DEF Init, OptRec, ReqSet
  <1>5. Streams /\ NoneAboveGoAway BY <1>3, Constants DEF Streams, NoneAboveGoAway
  <1>6. ReservationsBacked
    <2>1. ASSUME NEW c \in CC PROVE cc[c].reserved <= Cardinality(Holders(c))
      <3>1. cc[c].reserved = 0 BY <1>3, Constants
      <3>. QED BY <3>1, HoldersCount
    <2>. QED BY <2>1 DEF ReservationsBacked, Holders
  <1>. QED BY <1>1, <1>2, <1>3, <1>4, <1>5, <1>6 DEF H2Inv, Types, AllFine, DialsTold

\* Every step keeps the invariant.
LEMMA StepKeeps ==
  ASSUME H2Inv, [Next]_vars PROVE H2Inv'
  <1>0. Types /\ AllFine /\ DialsTold /\ RqFine /\ PoolTyped /\ cc \in [CC -> ConnRec]
    BY DEF H2Inv, Types, RqFine, PoolTyped, DialsTold
  <1>1. CASE Next
    <2>1. RqFine' BY <1>0, <1>1, RqFineStep
    <2>2. Plain \/ Special BY <1>0, <1>1, PlainStep
    <2>. QED
      BY <2>1, <2>2, PlainKeeps, ReserveKeeps, LockKeeps, WakeKeeps, CleanupKeeps,
         DialKeeps, GoAwayKeeps DEF Special
  <1>2. CASE UNCHANGED vars
    BY <1>2
       DEF vars, H2Inv, Types, AllFine, DialsTold, Streams, NoneAboveGoAway,
          ReservationsBacked
  <1>. QED BY <1>1, <1>2

\* The inductive invariant of the HTTP/2 pool holds throughout (RoundTripOpt,

\* clientConnPool, and the part of ClientConn they rest on).
THEOREM H2PoolInvariance == Spec => []H2Inv
  <1>1. Init => H2Inv BY Started
  <1>2. H2Inv /\ [Next]_vars => H2Inv' BY StepKeeps
  <1>. QED BY <1>1, <1>2, PTL DEF Spec

\* However requests are refused, reset, cut off or sent again (shouldRetryRequest,

\* setGoAway, cleanup), the server runs each at most once.
THEOREM RunOnce == Spec => []ExecutedOnce
  <1>1. H2Inv => ExecutedOnce BY DEF H2Inv, AllFine, Fine, Once, ExecutedOnce
  <1>. QED BY <1>1, H2PoolInvariance, PTL
\* A body that cannot be had again goes out on one stream at most

\* (shouldRetryRequest).
THEOREM BodySentOnce == Spec => []OneShotBodySentOnce
  <1>1. H2Inv => OneShotBodySentOnce BY DEF H2Inv, AllFine, Fine, SentOnce, OneShotBodySentOnce
  <1>. QED BY <1>1, H2PoolInvariance, PTL
\* streamsReserved never counts more than the requests that will use or return

\* a reservation (ReserveNewRequest, decrStreamReservationsLocked).
THEOREM EveryReservationBacked == Spec => []ReservationsBacked
  <1>1. H2Inv => ReservationsBacked BY DEF H2Inv
  <1>. QED BY <1>1, H2PoolInvariance, PTL
\* No request fails with the cancellation of another one whose dial it shared

\* (shouldRetryDial).
THEOREM OnlyItsOwnCancellation == Spec => []CancelledByItself
  <1>1. H2Inv => CancelledByItself BY DEF H2Inv, AllFine, Fine, Placed, CancelledByItself
  <1>. QED BY <1>1, H2PoolInvariance, PTL
\* No stream above the last one a GOAWAY names goes on, and none is opened later

\* (setGoAway, awaitOpenSlotForStreamLocked).
THEOREM GoAwayRespected == Spec => []NoneAboveGoAway
  <1>1. H2Inv => NoneAboveGoAway BY DEF H2Inv
  <1>. QED BY <1>1, H2PoolInvariance, PTL

=============================================================================
