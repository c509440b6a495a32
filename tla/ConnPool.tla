------------------------------ MODULE ConnPool ------------------------------
(***************************************************************************)
(* The HTTP/1 connection pool of Transport (transport.go): getConn and its *)
(* wantConn, the idle lists, the LRU over them, the two wait queues, the   *)
(* dial goroutines, the per-host connection count, the idle timers, and    *)
(* CloseIdleConnections.                                                   *)
(*                                                                         *)
(* A step is one critical section (of idleMu, of connsPerHostMu or of a    *)
(* wantConn's or persistConn's mu) of one goroutine.  A section of idleMu  *)
(* that closes a connection takes connsPerHostMu inside it and releases it *)
(* before idleMu, so the two together are one step.                        *)
(***************************************************************************)
EXTENDS Integers, FiniteSets, SequencesExt

CONSTANTS
    Want,                \* the calls of getConn, one wantConn each
    Conn,                \* the persistConns that dials may create
    Key,                 \* connectMethodKeys: hosts
    KeyOf,               \* [Want -> Key]: the host each call is for
    AltKey,              \* the hosts that may negotiate HTTP/2 (pconn.alt # nil)
    MaxConnsPerHost,     \* 0: no limit
    MaxIdleConnsPerHost,
    MaxIdleConns,        \* 0: no limit
    IdleConnTimeout,     \* whether an idle timeout is configured
    DisableKeepAlives,
    None, Err            \* "no result yet" and "a dial error"

ASSUME PoolConstants ==
    /\ IsFiniteSet(Want) /\ IsFiniteSet(Conn)
    /\ Key # {} /\ KeyOf \in [Want -> Key]
    /\ AltKey \subseteq Key
    /\ MaxConnsPerHost \in Nat
    /\ MaxIdleConnsPerHost \in Nat \ {0}
    /\ MaxIdleConns \in Nat
    /\ IdleConnTimeout \in BOOLEAN
    /\ DisableKeepAlives \in BOOLEAN
    /\ Want \cap Conn = {} /\ None \notin Conn /\ Err \notin Conn /\ None # Err

VARIABLES
    pc,                  \* [Want -> ...]: where the caller of getConn is
    held,                \* [Want -> Conn or None]: the connection the caller holds
    wdone, result,       \* wantConn.done and what its result channel holds
    dial,                \* [Want -> ...]: the goroutine of startDialConnForLocked
    dconn,               \* [Want -> Conn or None]: the connection that goroutine made
    open,                \* the connections with pc.closed = nil
    born, ckey, alt,     \* created so far, their cacheKey, the HTTP/2 ones
    exited,              \* the HTTP/1 connections whose readLoop has returned
    idleConn, idleLRU, closeIdle, idleConnWait,
    connsPerHost, connsPerHostWait, dialsInProgress,
    aged, timers,        \* idle for longer than IdleConnTimeout; idleTimer running
    closers,             \* goroutines about to run closeConnIfStillIdle
    sweep, sweeping      \* what CloseIdleConnections took; whether one is running

wantVars  == <<pc, held, wdone, result>>
idleVars  == <<idleConn, idleLRU, closeIdle, idleConnWait>>
countVars == <<connsPerHost, connsPerHostWait, dialsInProgress>>
connVars  == <<open, born, ckey, alt>>
timeVars  == <<aged, timers, closers>>
sweepVars == <<sweep, sweeping>>
vars == <<wantVars, idleVars, countVars, connVars, timeVars, sweepVars,
          dial, dconn, exited>>

PC       == {"new", "dialq", "wait", "using", "check", "put", "failed", "over"}
DialPC   == {"none", "start", "dialing", "cancelled", "check", "put", "dec", "done"}

TypeOK ==
    /\ pc \in [Want -> PC]
    /\ held \in [Want -> Conn \cup {None}]
    /\ wdone \in [Want -> BOOLEAN]
    /\ result \in [Want -> Conn \cup {None, Err}]
    /\ dial \in [Want -> DialPC]
    /\ dconn \in [Want -> Conn \cup {None}]
    /\ open \in SUBSET born /\ born \in SUBSET Conn /\ alt \in SUBSET born
    /\ ckey \in [Conn -> Key]
    /\ exited \in SUBSET born
    /\ idleConn \in [Key -> Seq(Conn)]
    /\ idleLRU \in Seq(Conn)
    /\ closeIdle \in BOOLEAN
    /\ idleConnWait \in [Key -> Seq(Want)]
    /\ connsPerHost \in [Key -> Nat]
    /\ connsPerHostWait \in [Key -> Seq(Want)]
    /\ dialsInProgress \in Seq(Want)
    /\ aged \in SUBSET Conn /\ timers \in SUBSET Conn /\ closers \in SUBSET Conn
    /\ sweep \in SUBSET Conn /\ sweeping \in BOOLEAN

Init ==
    /\ pc = [w \in Want |-> "new"] /\ held = [w \in Want |-> None]
    /\ wdone = [w \in Want |-> FALSE] /\ result = [w \in Want |-> None]
    /\ dial = [w \in Want |-> "none"] /\ dconn = [w \in Want |-> None]
    /\ open = {} /\ born = {} /\ alt = {}
    /\ ckey = [c \in Conn |-> CHOOSE k \in Key : TRUE]
    /\ exited = {}
    /\ idleConn = [k \in Key |-> <<>>] /\ idleLRU = <<>> /\ closeIdle = FALSE
    /\ idleConnWait = [k \in Key |-> <<>>]
    /\ connsPerHost = [k \in Key |-> 0]
    /\ connsPerHostWait = [k \in Key |-> <<>>] /\ dialsInProgress = <<>>
    /\ aged = {} /\ timers = {} /\ closers = {}
    /\ sweep = {} /\ sweeping = FALSE

-----------------------------------------------------------------------------
(* wantConnQueue.                                                          *)

\* The positions of q whose wantConn satisfies the test S.
Positions(q, S) == {i \in DOMAIN q : q[i] \in S}

\* q from its first element in S on; empty when there is none.
DropUntil(q, S) ==
    LET at == Positions(q, S)
    IN  IF at = {} THEN <<>> ELSE SubSeq(q, Min(at), Len(q))

Waiting(done) == {w \in Want : ~done[w]}

\* pushBack after cleanFrontNotWaiting.
Enqueue(q, w) == Append(DropUntil(q, Waiting(wdone)), w)

\* Faulty variant: the front of dialsInProgress is cleaned of the wantConns that
\* no longer wait, as the other queues are.
TrackDialNotWaiting(w) ==
    Append(DropUntil(dialsInProgress, Waiting(wdone)), w)

\* startDialConnForLocked: cleanFrontCanceled, pushBack; cancelCtx is nil
\* exactly when the dial goroutine of a wantConn is done.
TrackDial(w) ==
    Append(DropUntil(dialsInProgress, {x \in Want : dial[x] # "done"}), w)

-----------------------------------------------------------------------------
(* decConnsPerHost(k).  d is dial after the caller's own step, done is     *)
(* wantConn.done at this point of the caller's step.                       *)

\* Faulty variant: only the head of the queue is offered the slot.
DecConnsPerHostHeadOnly(k, d, done) ==
    LET q     == connsPerHostWait[k]
        offer == IF q = <<>> THEN FALSE ELSE ~done[Head(q)]
    IN  \/ /\ MaxConnsPerHost = 0
           /\ dial' = d
           /\ UNCHANGED countVars
        \/ /\ MaxConnsPerHost # 0 /\ offer
           /\ dial' = [d EXCEPT ![Head(q)] = "start"]
           /\ dialsInProgress' = TrackDial(Head(q))
           /\ connsPerHostWait' = [connsPerHostWait EXCEPT ![k] = Tail(q)]
           /\ UNCHANGED connsPerHost
        \/ /\ MaxConnsPerHost # 0 /\ ~offer
           /\ dial' = d
           /\ connsPerHostWait' = [connsPerHostWait EXCEPT ![k] = IF q = <<>> THEN q ELSE Tail(q)]
           /\ connsPerHost' = [connsPerHost EXCEPT ![k] = @ - 1]
           /\ UNCHANGED dialsInProgress

DecConnsPerHost(k, d, done) ==
    LET q    == connsPerHostWait[k]
        live == Positions(q, Waiting(done))
        w    == q[Min(live)]
    IN  \/ /\ MaxConnsPerHost = 0
           /\ dial' = d
           /\ UNCHANGED countVars
        \/ /\ MaxConnsPerHost # 0 /\ live # {}
           /\ dial' = [d EXCEPT ![w] = "start"]
           /\ dialsInProgress' = TrackDial(w)
           /\ connsPerHostWait' = [connsPerHostWait EXCEPT ![k] = SubSeq(q, Min(live) + 1, Len(q))]
           /\ UNCHANGED connsPerHost
        \/ /\ MaxConnsPerHost # 0 /\ live = {}
           /\ dial' = d
           /\ connsPerHostWait' = [connsPerHostWait EXCEPT ![k] = <<>>]
           /\ connsPerHost' = [connsPerHost EXCEPT ![k] = @ - 1]
           /\ UNCHANGED dialsInProgress

\* Faulty variant: every call of close gives the slot back, not only the first.
CloseEachTime(c, d, done) ==
    /\ open' = open \ {c}
    /\ DecConnsPerHost(ckey[c], d, done)

\* persistConn.close (closeLocked): only the first call counts.
Close(c, d, done) ==
    \/ /\ c \in open
       /\ open' = open \ {c}
       /\ DecConnsPerHost(ckey[c], d, done)
    \/ /\ c \notin open
       /\ dial' = d
       /\ UNCHANGED <<open, countVars>>

\* removeIdleConnLocked.
RemoveIdleConn(c) ==
    /\ timers' = timers \ {c}
    /\ aged' = aged \ {c}
    /\ idleLRU' = RemoveFirst(idleLRU, c)
    /\ idleConn' = [idleConn EXCEPT ![ckey[c]] = RemoveFirst(@, c)]

-----------------------------------------------------------------------------
(* getConn.                                                                *)

\* The entries of idleConn[k] that queueForIdleConn would hand out.
Usable(k) == Positions(idleConn[k], open \ aged)

\* Faulty variant: the connection handed out stays in the LRU.
GetIdleKeepsLRU(w) ==
    LET k == KeyOf[w]
        i == Max(Usable(k))
    IN  /\ pc[w] = "new" /\ ~DisableKeepAlives
        /\ Usable(k) # {}
        /\ pc' = [pc EXCEPT ![w] = "wait"]
        /\ wdone' = [wdone EXCEPT ![w] = TRUE]
        /\ result' = [result EXCEPT ![w] = idleConn[k][i]]
        /\ closeIdle' = FALSE
        /\ idleConn' = [idleConn EXCEPT ![k] = SubSeq(@, 1, i - 1)]
        /\ UNCHANGED <<held, idleLRU, idleConnWait, timeVars, countVars, connVars, sweepVars, dial, dconn, exited>>

\* queueForIdleConn, an idle connection found: the newest usable one; broken
\* and too old ones behind it leave the list, the too old ones get a goroutine
\* that closes them.  An HTTP/1 connection leaves the pool.
GetIdle(w) ==
    LET k == KeyOf[w]
        i == Max(Usable(k))
        c == idleConn[k][i]
        dropped == {idleConn[k][j] : j \in (i + 1)..Len(idleConn[k])}
    IN  /\ pc[w] = "new" /\ ~DisableKeepAlives
        /\ Usable(k) # {}
        /\ pc' = [pc EXCEPT ![w] = "wait"]
        /\ wdone' = [wdone EXCEPT ![w] = TRUE]
        /\ result' = [result EXCEPT ![w] = c]
        /\ closeIdle' = FALSE
        /\ closers' = closers \cup (dropped \cap aged)
        /\ aged' = aged \ dropped
        /\ idleConn' = [idleConn EXCEPT ![k] = SubSeq(@, 1, IF c \in alt THEN i ELSE i - 1)]
        /\ idleLRU' = IF c \in alt THEN idleLRU ELSE RemoveFirst(idleLRU, c)
        /\ UNCHANGED <<held, idleConnWait, timers, countVars, connVars, sweepVars, dial, dconn, exited>>

\* queueForIdleConn, nothing usable: the whole list is dropped and w waits for
\* the next connection that becomes idle.  With DisableKeepAlives it does
\* nothing at all.
QueueForIdle(w) ==
    LET k == KeyOf[w]
    IN  /\ pc[w] = "new"
        /\ pc' = [pc EXCEPT ![w] = "dialq"]
        /\ \/ /\ DisableKeepAlives
              /\ UNCHANGED <<idleVars, aged, closers>>
           \/ /\ ~DisableKeepAlives
              /\ Usable(k) = {}
              /\ closeIdle' = FALSE
              /\ closers' = closers \cup (ToSet(idleConn[k]) \cap aged)
              /\ aged' = aged \ ToSet(idleConn[k])
              /\ idleConn' = [idleConn EXCEPT ![k] = <<>>]
              /\ idleConnWait' = [idleConnWait EXCEPT ![k] = Enqueue(@, w)]
              /\ UNCHANGED idleLRU
        /\ UNCHANGED <<held, wdone, result, timers, countVars, connVars, sweepVars, dial, dconn, exited>>

\* Faulty variant: the limit is off by one.
QueueForDialOneMore(w) ==
    LET k == KeyOf[w]
    IN  /\ pc[w] = "dialq"
        /\ connsPerHost[k] <= MaxConnsPerHost
        /\ pc' = [pc EXCEPT ![w] = "wait"]
        /\ connsPerHost' = [connsPerHost EXCEPT ![k] = @ + 1]
        /\ dial' = [dial EXCEPT ![w] = "start"]
        /\ dialsInProgress' = TrackDial(w)
        /\ UNCHANGED <<connsPerHostWait, held, wdone, result, idleVars, connVars, timeVars, sweepVars, dconn, exited>>

\* queueForDial: dial now, or wait for a slot of the host.
QueueForDial(w) ==
    LET k == KeyOf[w]
    IN  /\ pc[w] = "dialq"
        /\ pc' = [pc EXCEPT ![w] = "wait"]
        /\ \/ /\ MaxConnsPerHost = 0 \/ connsPerHost[k] < MaxConnsPerHost
              /\ connsPerHost' = IF MaxConnsPerHost = 0 THEN connsPerHost
                                 ELSE [connsPerHost EXCEPT ![k] = @ + 1]
              /\ dial' = [dial EXCEPT ![w] = "start"]
              /\ dialsInProgress' = TrackDial(w)
              /\ UNCHANGED connsPerHostWait
           \/ /\ MaxConnsPerHost # 0 /\ connsPerHost[k] >= MaxConnsPerHost
              /\ connsPerHostWait' = [connsPerHostWait EXCEPT ![k] = Enqueue(@, w)]
              /\ UNCHANGED <<connsPerHost, dial, dialsInProgress>>
        /\ UNCHANGED <<held, wdone, result, idleVars, connVars, timeVars, sweepVars, dconn, exited>>

\* getConn's select, the result first: getConn returns the connection or the
\* dial's error.
Receive(w) ==
    /\ pc[w] = "wait" /\ result[w] # None
    /\ result' = [result EXCEPT ![w] = None]
    /\ \/ /\ result[w] = Err
          /\ pc' = [pc EXCEPT ![w] = "failed"]
          /\ UNCHANGED held
       \/ /\ result[w] # Err
          /\ pc' = [pc EXCEPT ![w] = "using"]
          /\ held' = [held EXCEPT ![w] = result[w]]
    /\ UNCHANGED <<wdone, idleVars, countVars, connVars, timeVars, sweepVars, dial, dconn, exited>>

\* Faulty variant: cancel does not look into the result channel.
CancelDropsResult(w) ==
    /\ pc[w] = "wait"
    /\ wdone' = [wdone EXCEPT ![w] = TRUE]
    /\ result' = [result EXCEPT ![w] = None]
    /\ pc' = [pc EXCEPT ![w] = "failed"]
    /\ UNCHANGED <<held, idleVars, countVars, connVars, timeVars, sweepVars, dial, dconn, exited>>

\* getConn's select, the request's context done: wantConn.cancel.  A connection
\* already delivered is taken out of the channel and given back.
Cancel(w) ==
    /\ pc[w] = "wait"
    /\ wdone' = [wdone EXCEPT ![w] = TRUE]
    /\ result' = [result EXCEPT ![w] = None]
    /\ \/ /\ result[w] \in {None, Err}
          /\ pc' = [pc EXCEPT ![w] = "failed"]
          /\ UNCHANGED held
       \/ /\ result[w] \notin {None, Err}
          /\ pc' = [pc EXCEPT ![w] = "check"]
          /\ held' = [held EXCEPT ![w] = result[w]]
    /\ UNCHANGED <<idleVars, countVars, connVars, timeVars, sweepVars, dial, dconn, exited>>

-----------------------------------------------------------------------------
(* putOrCloseIdleConn(c), in the two steps the code takes: tryPutIdleConn  *)
(* looks at isBroken before it takes idleMu.  d is dial after the step of  *)
(* the goroutine that gives the connection back.                           *)

MayPut(c) == ~DisableKeepAlives /\ c \in open

\* An HTTP/2 connection that never left the pool.
AlreadyIdle(c) == c \in alt /\ c \in ToSet(idleLRU)

\* Faulty variant: only the head of the queue is tried.
TakersHeadOnly(c) ==
    LET q == idleConnWait[ckey[c]]
    IN  IF q # <<>> /\ ~wdone[Head(q)] THEN {Head(q)} ELSE {}

\* The wantConns of the host's idleConnWait that take c: the first that still
\* waits for HTTP/1, all of them for HTTP/2.
Takers(c) ==
    LET q    == idleConnWait[ckey[c]]
        live == Positions(q, Waiting(wdone))
    IN  CASE live = {}              -> {}
          [] live # {} /\ c \in alt -> {q[i] : i \in live}
          [] OTHER                  -> {q[Min(live)]}

\* idleConnWait after c has been offered to it.
Offered(c) ==
    LET q    == idleConnWait[ckey[c]]
        live == Positions(q, Waiting(wdone))
    IN  [idleConnWait EXCEPT ![ckey[c]] =
            IF c \in alt \/ live = {} THEN <<>> ELSE SubSeq(q, Min(live) + 1, Len(q))]

DoneAfter(c) == [w \in Want |-> wdone[w] \/ w \in Takers(c)]

Refused(c) ==
    closeIdle \/ Len(idleConn[ckey[c]]) >= MaxIdleConnsPerHost

\* Faulty variant: the LRU is never trimmed.
AddIdleUntrimmed(c, d) ==
    /\ idleLRU' = <<c>> \o idleLRU
    /\ idleConn' = [idleConn EXCEPT ![ckey[c]] = Append(@, c)]
    /\ timers' = timers \cup (IF IdleConnTimeout /\ c \notin alt THEN {c} ELSE {})
    /\ dial' = d
    /\ UNCHANGED <<open, countVars, aged>>

\* c joins the idle list of its host and the LRU; when the LRU outgrows
\* MaxIdleConns its oldest member is closed and leaves both.
AddIdle(c, d) ==
    LET lru    == <<c>> \o idleLRU
        full   == MaxIdleConns # 0 /\ Len(lru) > MaxIdleConns
        oldest == Last(lru)
        list   == [idleConn EXCEPT ![ckey[c]] = Append(@, c)]
        armed  == IF IdleConnTimeout /\ c \notin alt THEN {c} ELSE {}
    IN  /\ aged' = aged \ (IF full THEN {c, oldest} ELSE {c})
        /\ \/ /\ full
              /\ idleLRU' = Front(lru)
              /\ idleConn' = [list EXCEPT ![ckey[oldest]] = RemoveFirst(@, oldest)]
              /\ timers' = (timers \ {oldest}) \cup armed
              /\ Close(oldest, d, DoneAfter(c))
           \/ /\ ~full
              /\ idleLRU' = lru
              /\ idleConn' = list
              /\ timers' = timers \cup armed
              /\ dial' = d
              /\ UNCHANGED <<open, countVars>>

\* Faulty variant: an HTTP/1 connection handed to a waiting call is put in the
\* idle list as well, as an HTTP/2 one is.
PutAndDeliver(c, d) ==
    /\ wdone' = DoneAfter(c)
    /\ result' = [w \in Want |-> IF w \in Takers(c) THEN c ELSE result[w]]
    /\ idleConnWait' = Offered(c)
    /\ idleConn' = [idleConn EXCEPT ![ckey[c]] = Append(@, c)]
    /\ idleLRU' = <<c>> \o idleLRU
    /\ dial' = d
    /\ UNCHANGED <<open, countVars, aged, timers, closeIdle, born, ckey, alt, closers, sweepVars>>

\* The part of tryPutIdleConn under idleMu, and putOrCloseIdleConn's close
\* when it refuses.
PutOrCloseIdleConn(c, d) ==
    /\ \/ /\ AlreadyIdle(c)
          /\ dial' = d
          /\ UNCHANGED <<wdone, result, idleConn, idleLRU, idleConnWait, open, countVars, aged, timers>>
       \/ /\ ~AlreadyIdle(c)
          /\ wdone' = DoneAfter(c)
          /\ result' = [w \in Want |-> IF w \in Takers(c) THEN c ELSE result[w]]
          /\ idleConnWait' = Offered(c)
          /\ \/ /\ c \notin alt /\ Takers(c) # {}
                /\ dial' = d
                /\ UNCHANGED <<idleConn, idleLRU, open, countVars, aged, timers>>
             \/ /\ c \in alt \/ Takers(c) = {}
                /\ Refused(c)
                /\ Close(c, d, DoneAfter(c))
                /\ UNCHANGED <<idleConn, idleLRU, aged, timers>>
             \/ /\ c \in alt \/ Takers(c) = {}
                /\ ~Refused(c)
                /\ AddIdle(c, d)
    /\ UNCHANGED <<closeIdle, born, ckey, alt, closers, sweepVars>>

\* The connection that a cancelled getConn gives back.
CancelCheck(w) ==
    /\ pc[w] = "check"
    /\ \/ /\ MayPut(held[w])
          /\ pc' = [pc EXCEPT ![w] = "put"]
          /\ UNCHANGED <<held, dial, open, countVars>>
       \/ /\ ~MayPut(held[w])
          /\ pc' = [pc EXCEPT ![w] = "failed"]
          /\ held' = [held EXCEPT ![w] = None]
          /\ Close(held[w], dial, wdone)
    /\ UNCHANGED <<wdone, result, idleVars, born, ckey, alt, timeVars, sweepVars, dconn, exited>>

CancelPut(w) ==
    /\ pc[w] = "put"
    /\ pc' = [pc EXCEPT ![w] = "failed"]
    /\ held' = [held EXCEPT ![w] = None]
    /\ PutOrCloseIdleConn(held[w], dial)
    /\ UNCHANGED <<dconn, exited>>

-----------------------------------------------------------------------------
(* dialConnFor, the goroutine started for w.                               *)

\* getCtxForDial is nil once w has been delivered to or cancelled: the slot is
\* given up at once.
DialStart(w) ==
    /\ dial[w] = "start"
    /\ \/ /\ ~wdone[w]
          /\ dial' = [dial EXCEPT ![w] = "dialing"]
          /\ UNCHANGED countVars
       \/ /\ wdone[w]
          /\ DecConnsPerHost(KeyOf[w], [dial EXCEPT ![w] = "done"], wdone)
    /\ UNCHANGED <<wantVars, idleVars, connVars, timeVars, sweepVars, dconn, exited>>

\* dialConn fails; tryDeliver the error.
DialFail(w) ==
    /\ dial[w] \in {"dialing", "cancelled"}
    /\ dial' = [dial EXCEPT ![w] = "dec"]
    /\ wdone' = [wdone EXCEPT ![w] = TRUE]
    /\ result' = [result EXCEPT ![w] = IF wdone[w] THEN @ ELSE Err]
    /\ UNCHANGED <<pc, held, idleVars, countVars, connVars, timeVars, sweepVars, dconn, exited>>

\* Faulty variant: a failed dial keeps its slot.
DialDecForgotten(w) ==
    /\ dial[w] = "dec"
    /\ dial' = [dial EXCEPT ![w] = "done"]
    /\ UNCHANGED <<wantVars, idleVars, countVars, connVars, timeVars, sweepVars, dconn, exited>>

\* The failed dial gives its slot up.
DialDec(w) ==
    /\ dial[w] = "dec"
    /\ DecConnsPerHost(KeyOf[w], [dial EXCEPT ![w] = "done"], wdone)
    /\ UNCHANGED <<wantVars, idleVars, connVars, timeVars, sweepVars, dconn, exited>>

\* dialConn succeeds with connection c, an HTTP/2 one when a is TRUE; tryDeliver
\* it; an undelivered or a shared one goes to the pool next.
DialSucceed(w, c, a) ==
    /\ dial[w] \in {"dialing", "cancelled"}
    /\ c \notin born
    /\ a => KeyOf[w] \in AltKey
    /\ born' = born \cup {c}
    /\ open' = open \cup {c}
    /\ alt' = IF a THEN alt \cup {c} ELSE alt
    /\ ckey' = [ckey EXCEPT ![c] = KeyOf[w]]
    /\ wdone' = [wdone EXCEPT ![w] = TRUE]
    /\ result' = [result EXCEPT ![w] = IF wdone[w] THEN @ ELSE c]
    /\ \/ /\ wdone[w] \/ a
          /\ dial' = [dial EXCEPT ![w] = "check"]
          /\ dconn' = [dconn EXCEPT ![w] = c]
       \/ /\ ~wdone[w] /\ ~a
          /\ dial' = [dial EXCEPT ![w] = "done"]
          /\ UNCHANGED dconn
    /\ UNCHANGED <<pc, held, idleVars, countVars, timeVars, sweepVars, exited>>

DialCheck(w) ==
    /\ dial[w] = "check"
    /\ \/ /\ MayPut(dconn[w])
          /\ dial' = [dial EXCEPT ![w] = "put"]
          /\ UNCHANGED <<dconn, open, countVars>>
       \/ /\ ~MayPut(dconn[w])
          /\ dconn' = [dconn EXCEPT ![w] = None]
          /\ Close(dconn[w], [dial EXCEPT ![w] = "done"], wdone)
    /\ UNCHANGED <<wantVars, idleVars, born, ckey, alt, timeVars, sweepVars, exited>>

DialPut(w) ==
    /\ dial[w] = "put"
    /\ dconn' = [dconn EXCEPT ![w] = None]
    /\ PutOrCloseIdleConn(dconn[w], [dial EXCEPT ![w] = "done"])
    /\ UNCHANGED <<pc, held, exited>>

-----------------------------------------------------------------------------
(* The request over the connection, seen from the pool.                    *)

\* An exchange over HTTP/1 ends well: readLoop gives the connection back.  No
\* other goroutine knows the connection, so its two checks are one step.
UseEnds(w) ==
    /\ pc[w] = "using" /\ held[w] \notin alt /\ MayPut(held[w])
    /\ pc' = [pc EXCEPT ![w] = "over"]
    /\ held' = [held EXCEPT ![w] = None]
    /\ PutOrCloseIdleConn(held[w], dial)
    /\ UNCHANGED <<dconn, exited>>

\* It fails, is cancelled, asks for Connection: close, hands the connection to
\* the caller, or keep-alives are off: the connection is closed.
UseFails(w) ==
    /\ pc[w] = "using" /\ held[w] \notin alt
    /\ pc' = [pc EXCEPT ![w] = "over"]
    /\ held' = [held EXCEPT ![w] = None]
    /\ Close(held[w], dial, wdone)
    /\ UNCHANGED <<wdone, result, idleVars, born, ckey, alt, timeVars, sweepVars, dconn, exited>>

\* A request over HTTP/2 leaves its persistConn alone.
UseEndsAlt(w) ==
    /\ pc[w] = "using" /\ held[w] \in alt
    /\ pc' = [pc EXCEPT ![w] = "over"]
    /\ held' = [held EXCEPT ![w] = None]
    /\ UNCHANGED <<wdone, result, idleVars, countVars, connVars, timeVars, sweepVars, dial, dconn, exited>>

\* readLoop's Peek fails with no response expected: readLoopPeekFailLocked.
ServerClose(c) ==
    /\ c \in open \ alt
    /\ \A w \in Want : pc[w] = "using" => held[w] # c
    /\ Close(c, dial, wdone)
    /\ UNCHANGED <<wantVars, idleVars, born, ckey, alt, timeVars, sweepVars, dconn, exited>>

\* A closed connection ends its readLoop, whose deferred call is removeIdleConn.
ReadLoopExit(c) ==
    /\ c \in born \ (open \cup alt \cup exited)
    /\ exited' = exited \cup {c}
    /\ RemoveIdleConn(c)
    /\ UNCHANGED <<wantVars, closeIdle, idleConnWait, countVars, connVars, closers, sweepVars, dial, dconn>>

-----------------------------------------------------------------------------
(* Idle timeouts and CloseIdleConnections.                                 *)

\* The wall clock: c has been idle longer than IdleConnTimeout.
Age(c) ==
    /\ IdleConnTimeout /\ c \in ToSet(idleConn[ckey[c]]) /\ c \notin aged
    /\ aged' = aged \cup {c}
    /\ UNCHANGED <<wantVars, idleVars, countVars, connVars, timers, closers, sweepVars, dial, dconn, exited>>

TimerFires(c) ==
    /\ c \in timers
    /\ timers' = timers \ {c}
    /\ closers' = closers \cup {c}
    /\ UNCHANGED <<wantVars, idleVars, countVars, connVars, aged, sweepVars, dial, dconn, exited>>

\* Faulty variant: the idle timer closes without asking whether the connection
\* is still idle.
CloseConnOnTimer(c) ==
    /\ c \in closers
    /\ closers' = closers \ {c}
    /\ RemoveIdleConn(c)
    /\ Close(c, dial, wdone)
    /\ UNCHANGED <<wantVars, closeIdle, idleConnWait, born, ckey, alt, sweepVars, dconn, exited>>

\* closeConnIfStillIdle, in its own goroutine: nothing unless c is in the LRU.
CloseConnIfStillIdle(c) ==
    /\ c \in closers
    /\ closers' = closers \ {c}
    /\ \/ /\ c \notin ToSet(idleLRU)
          /\ dial' = dial
          /\ UNCHANGED <<idleConn, idleLRU, timers, aged, open, countVars>>
       \/ /\ c \in ToSet(idleLRU)
          /\ RemoveIdleConn(c)
          /\ Close(c, dial, wdone)
    /\ UNCHANGED <<wantVars, closeIdle, idleConnWait, born, ckey, alt, sweepVars, dconn, exited>>

\* CloseIdleConnections, its section of idleMu.
TakeIdle ==
    /\ ~sweeping
    /\ sweeping' = TRUE
    /\ sweep' = UNION {ToSet(idleConn[k]) : k \in Key}
    /\ idleConn' = [k \in Key |-> <<>>]
    /\ idleLRU' = <<>>
    /\ closeIdle' = TRUE
    /\ aged' = {}
    /\ UNCHANGED <<wantVars, idleConnWait, countVars, connVars, timers, closers, dial, dconn, exited>>

\* It closes what it took, one by one and outside the lock ...
SweepClose(c) ==
    /\ sweeping /\ c \in sweep
    /\ sweep' = sweep \ {c}
    /\ Close(c, dial, wdone)
    /\ UNCHANGED <<wantVars, idleVars, born, ckey, alt, timeVars, sweeping, dconn, exited>>

\* ... and then cancels the context of the dials nobody waits for any more; the
\* dial may still succeed.
CancelDials ==
    /\ sweeping /\ sweep = {}
    /\ sweeping' = FALSE
    /\ dial' = [w \in Want |->
                  IF dial[w] = "dialing" /\ w \in ToSet(dialsInProgress) /\ wdone[w]
                  THEN "cancelled" ELSE dial[w]]
    /\ UNCHANGED <<wantVars, idleVars, countVars, connVars, timeVars, sweep, dconn, exited>>

-----------------------------------------------------------------------------

WantStep(w) ==
    \/ GetIdle(w) \/ QueueForIdle(w) \/ QueueForDial(w) \/ Receive(w) \/ Cancel(w)
    \/ CancelCheck(w) \/ CancelPut(w)
    \/ UseEnds(w) \/ UseFails(w) \/ UseEndsAlt(w)

DialStep(w) ==
    \/ DialStart(w) \/ DialFail(w) \/ DialDec(w)
    \/ \E c \in Conn, a \in BOOLEAN : DialSucceed(w, c, a)
    \/ DialCheck(w) \/ DialPut(w)

ConnStep(c) ==
    \/ ServerClose(c) \/ ReadLoopExit(c)
    \/ Age(c) \/ TimerFires(c) \/ CloseConnIfStillIdle(c) \/ SweepClose(c)

Next ==
    \/ \E w \in Want : WantStep(w) \/ DialStep(w)
    \/ \E c \in Conn : ConnStep(c)
    \/ TakeIdle \/ CancelDials

Spec == Init /\ [][Next]_vars

\* Every goroutine of the pool runs; a dial ends (its dialer and its TLS
\* handshake have timeouts), and so does a request that holds a connection.
\* Nothing makes the user start a request, cancel one or call
\* CloseIdleConnections, or the server hang up, or the clock advance.
Fairness ==
    /\ \A w \in Want :
        /\ WF_vars(QueueForDial(w)) /\ WF_vars(Receive(w))
        /\ WF_vars(CancelCheck(w)) /\ WF_vars(CancelPut(w))
        /\ WF_vars(UseEnds(w) \/ UseFails(w) \/ UseEndsAlt(w))
        /\ WF_vars(DialStep(w))
    /\ \A c \in Conn :
        WF_vars(ReadLoopExit(c)) /\ WF_vars(CloseConnIfStillIdle(c)) /\ WF_vars(SweepClose(c))
    /\ WF_vars(CancelDials)

FairSpec == Spec /\ Fairness

-----------------------------------------------------------------------------
(* Properties.                                                             *)

\* The dials and the open connections that a slot of host k is spent on.
DialSlots(k) == {w \in Want : KeyOf[w] = k /\ dial[w] \in {"start", "dialing", "cancelled", "dec"}}
ConnSlots(k) == {c \in open : ckey[c] = k}

\* Who can hand out, use or close connection c.
Holders(c) ==
    {<<"caller", w>> : w \in {w \in Want : held[w] = c}}
    \cup {<<"result", w>> : w \in {w \in Want : result[w] = c}}
    \cup {<<"dial", w>> : w \in {w \in Want : dconn[w] = c}}
    \cup {<<"idle", c>> : x \in {c} \cap ToSet(idleLRU)}
    \cup {<<"sweep", c>> : x \in {c} \cap sweep}

\* SetMaxConnsPerHost: connections "in the dialing, active, and idle states"
\* together never exceed the limit of their host.
ConnLimit ==
    MaxConnsPerHost # 0 =>
        \A k \in Key : Cardinality(DialSlots(k)) + Cardinality(ConnSlots(k)) <= MaxConnsPerHost

\* connsPerHost counts exactly the dials under way and the connections not yet
\* closed: decConnsPerHost runs once for each, whichever of the racing
\* goroutines ends it, so the count neither leaks a slot nor underflows.
SlotsExact ==
    MaxConnsPerHost # 0 =>
        \A k \in Key : connsPerHost[k] = Cardinality(DialSlots(k)) + Cardinality(ConnSlots(k))

\* An open HTTP/1 connection belongs to one party at a time: a caller, the
\* result channel of one wantConn, the goroutine returning it, the idle pool, or
\* CloseIdleConnections.  Two requests never share one.
ExclusiveHTTP1 ==
    \A c \in open \ alt : Cardinality(Holders(c)) <= 1

\* No open connection is forgotten: a caller, the pool or CloseIdleConnections
\* has it, or an idle timer or a closeConnIfStillIdle is still to come for it.
NoneForgotten ==
    \A c \in open : Holders(c) # {} \/ c \in timers \cup closers

\* A request queues for a slot of its host only while none is free: a slot that
\* decConnsPerHost gives back goes to a queued request that still wants it.
NoFreeSlotWhileQueued ==
    \A k \in Key :
        (\E i \in DOMAIN connsPerHostWait[k] : ~wdone[connsPerHostWait[k][i]])
            => connsPerHost[k] = MaxConnsPerHost

\* An idle connection is never parked while a request waits for one to its host.
NoIdleConnWhileAwaited ==
    \A k \in Key :
        (\E i \in DOMAIN idleConnWait[k] : ~wdone[idleConnWait[k][i]]) => idleConn[k] = <<>>

\* The idle lists and the LRU: no connection twice (tryPutIdleConn and
\* connLRU.add abort the process on that), every listed one in the LRU, and
\* both limits respected.
IdleListsWellFormed ==
    /\ IsInjective(idleLRU)
    /\ MaxIdleConns # 0 => Len(idleLRU) <= MaxIdleConns
    /\ \A k \in Key :
        /\ IsInjective(idleConn[k])
        /\ Len(idleConn[k]) <= MaxIdleConnsPerHost
        /\ \A i \in DOMAIN idleConn[k] :
            idleConn[k][i] \in ToSet(idleLRU) /\ ckey[idleConn[k][i]] = k

\* tryPutIdleConn registers no connection whose readLoop has already returned:
\* its deferred removeIdleConn has run, and nothing would take it out again.
NoDeadConnRegistered ==
    \A c \in ToSet(idleLRU) : c \notin exited

\* CloseIdleConnections "does not interrupt any connections currently in use",
\* and neither do idle timers or evictions: while a request uses an HTTP/1
\* connection, only that request's own end closes it.
InUseNotClosedByPool ==
    [][\A w \in Want :
        /\ pc[w] = "using" /\ pc'[w] = "using"
        /\ held[w] \in open \ alt
        => held[w] \in open']_vars

\* CloseIdleConnections cancels every dial that goes on with nobody waiting for
\* its connection: cleanFrontCanceled drops only dials that are over.
AbandonedDialsCancelled ==
    [][CancelDials =>
        \A w \in Want : dial[w] = "dialing" /\ wdone[w] => dial'[w] = "cancelled"]_vars

\* Every getConn returns, with a connection or an error, even when it must queue
\* behind the others for a slot.
GetConnReturns ==
    \A w \in Want : pc[w] \in {"dialq", "wait"} ~> pc[w] \notin {"dialq", "wait"}

-----------------------------------------------------------------------------
(* The pool implements ConnLease.                                          *)

Leases == INSTANCE ConnLease WITH
    Call <- Want, Host <- Key, HostOf <- KeyOf, Limit <- MaxConnsPerHost, NoConn <- None,
    slots <- [k \in Key |-> DialSlots(k) \cup ConnSlots(k)],
    made <- born, shared <- alt,
    lease <- [w \in Want |-> IF pc[w] = "using" THEN held[w] ELSE None]

\* Whatever getConn, the dials, the returning goroutines, the timers and
\* CloseIdleConnections do between them, callers see the promise of ConnLease.
ImplementsConnLease == Leases!LeaseSpec
=============================================================================
