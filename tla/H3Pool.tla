------------------------------- MODULE H3Pool -------------------------------
(***************************************************************************)
(* How a request finds its way to HTTP/3: the alternative services a       *)
(* server announced (transport.go, pkg/altsvc) and the table of QUIC       *)
(* connections of RoundTripper (internal/http3/roundtrip.go).              *)
(*                                                                         *)
(* All requests go to one https origin.  A step is one critical section,   *)
(* or what happens between two points where a goroutine waits.  HTTP/2 and *)
(* HTTP/1 are one alternative here, "h1", taken when HTTP/3 is not.        *)
(***************************************************************************)
EXTENDS Integers, FiniteSets

CONSTANTS
    Req3,              \* requests to the origin
    Announced3,        \* the ones that begin when HTTP/1 has answered them
    Deadline3,         \* bound: the ones whose deadline may pass
    Cancel3,           \* bound: the ones the caller may cancel
    Alternatives,      \* the h3 entries of the Alt-Svc header, as host names
    Origin3,           \* the host name of the origin itself
    MaxClients,        \* bound: QUIC connections somebody holds at a time
    MaxPending,        \* bound: pendingAltSvc objects that may be made
    MaxTries3          \* bound: attempts of one RoundTripOpt

ASSUME H3PoolConstants ==
    /\ IsFiniteSet(Req3) /\ Announced3 \subseteq Req3
    /\ Deadline3 \subseteq Req3 /\ Cancel3 \subseteq Req3
    /\ MaxClients \in Nat /\ MaxPending \in Nat /\ MaxTries3 \in Nat
    /\ "free" \notin Req3 /\ IsFiniteSet(DOMAIN Alternatives)
    /\ DOMAIN Alternatives = 1..Cardinality(DOMAIN Alternatives)

VARIABLES
    jar,               \* AltSvcJar's entry for the origin, its age, and the
                       \* alternatives that did answer a request
    pending,           \* pendingAltSvcs[addr]
    pas,               \* the pendingAltSvcs, each with the handlePendingAltSvc it has
    table,             \* RoundTripper.clients
    client,            \* the roundTripperWithCounts
    closer,            \* CloseIdleConnections: the client it waits for, mutex held
    rq3                \* the requests

poolVars == <<jar, pending, pas, table, client, closer, rq3>>

Client == 1..MaxClients
Pas == 1..MaxPending
Nil == 0
N3 == Cardinality(DOMAIN Alternatives)
Host3 == {Alternatives[i] : i \in DOMAIN Alternatives} \union {Origin3}

NewClient == [dial |-> "unborn", ctx |-> "none", hs |-> FALSE, life |-> "up",
              use |-> 0]
NewPas == [made |-> FALSE, index |-> 1, transport |-> FALSE, mu |-> "free",
           handler |-> "off", at |-> 1, on |-> Nil]
NewRq3 == [pc |-> "start", ctx |-> "live", way |-> "none", entry |-> 0, pas |-> Nil,
           client |-> Nil, reused |-> FALSE, tries |-> 0, result |-> "none"]

PoolInit ==
    /\ jar = [entry |-> 0, old |-> FALSE, proved |-> {}]
    /\ pending = Nil
    /\ pas = [p \in Pas |-> NewPas]
    /\ table = [h \in Host3 |-> Nil]
    /\ client = [c \in Client |-> NewClient]
    /\ closer = Nil
    /\ rq3 = [r \in Req3 |-> [NewRq3 EXCEPT !.pc = IF r \in Announced3 THEN "svc" ELSE @]]

\* EnableHTTP3 was not called, or no request was made.
PoolRest ==
    /\ jar = [entry |-> 0, old |-> FALSE, proved |-> {}]
    /\ pending = Nil
    /\ pas = [p \in Pas |-> NewPas]
    /\ table = [h \in Host3 |-> Nil]
    /\ client = [c \in Client |-> NewClient]
    /\ closer = Nil
    /\ rq3 = [r \in Req3 |-> [NewRq3 EXCEPT !.pc = "done"]]

-----------------------------------------------------------------------------
(* RoundTripper: the table of connections.                                 *)

Users(c) == {r \in Req3 : rq3[r].client = c /\ rq3[r].pc \in {"wait", "rt"}}
Adders(c) == {p \in Pas : pas[p].on = c}

Held(c) ==
    \/ \E h \in Host3 : table[h] = c
    \/ closer = c \/ Users(c) # {} \/ Adders(c) # {} \/ client[c].dial = "dialing"

HostOf(r) == IF rq3[r].way = "cached" THEN Origin3 ELSE Alternatives[rq3[r].entry]
ErrOf(r) == IF rq3[r].ctx = "live" THEN "error" ELSE rq3[r].ctx

\* getClient for host h in the name of who: the connection it returns.
Dials(h, who, c) ==
    /\ closer = Nil /\ table[h] = Nil
    /\ ~Held(c) /\ \A d \in Client : d < c => Held(d)
    /\ table' = [table EXCEPT ![h] = c]
    /\ client' = [client EXCEPT ![c] = [NewClient EXCEPT !.dial = "dialing",
                                                         !.ctx = who, !.use = 1]]

\* Faulty variant: a request that shares a connection does not count as a user.
SharesUncounted(h, c) ==
    /\ closer = Nil /\ table[h] = c /\ c # Nil /\ client[c].dial # "failed"
    /\ UNCHANGED <<client, table>>

Shares(h, c) ==
    /\ closer = Nil /\ table[h] = c /\ c # Nil /\ client[c].dial # "failed"
    /\ client' = [client EXCEPT ![c].use = @ + 1]
    /\ UNCHANGED table

FindsFailed(h) ==
    /\ closer = Nil /\ table[h] # Nil
    /\ client[table[h]].dial = "failed"
    /\ table' = [table EXCEPT ![h] = Nil]
    /\ UNCHANGED client

RemoveClient(h) == table' = [table EXCEPT ![h] = Nil]
Release(c) == client' = [client EXCEPT ![c].use = @ - 1]

\* The dial goroutine of getClient.
DialEnds3(c) ==
    /\ client[c].dial = "dialing"
    /\ \E to \in {"up", "failed"} :
          client' = [client EXCEPT ![c].dial = to, ![c].ctx = "none"]
    /\ UNCHANGED <<jar, pending, pas, table, closer, rq3>>

\* A dial runs in the context of the request that started it; Close cancels it.
DialCanceled(c) ==
    /\ client[c].dial = "dialing"
    /\ closer = c \/ \E r \in Req3 : client[c].ctx = r /\ rq3[r].ctx # "live"
    /\ client' = [client EXCEPT ![c].dial = "failed", ![c].ctx = "none"]
    /\ UNCHANGED <<jar, pending, pas, table, closer, rq3>>

HandshakeComplete(c) ==
    /\ Held(c) /\ client[c].dial = "up" /\ client[c].life = "up" /\ ~client[c].hs
    /\ client' = [client EXCEPT ![c].hs = TRUE]
    /\ UNCHANGED <<jar, pending, pas, table, closer, rq3>>

\* The peer closes the connection, or it was silent for too long.
ConnEnds3(c, how) ==
    /\ Held(c) /\ client[c].dial = "up" /\ client[c].life = "up" /\ how \in {"closed", "timeout"}
    /\ client' = [client EXCEPT ![c].life = how]
    /\ UNCHANGED <<jar, pending, pas, table, closer, rq3>>

\* CloseIdleConnections: roundTripperWithCount.Close cancels the dial and waits
\* for its end, with the mutex held.  Transport does not call it.
CloseIdle(h) ==
    /\ closer = Nil /\ table[h] # Nil /\ client[table[h]].use = 0
    /\ closer' = table[h]
    /\ table' = [table EXCEPT ![h] = Nil]
    /\ UNCHANGED <<jar, pending, pas, client, rq3>>

CloseIdleDone ==
    /\ closer # Nil /\ client[closer].dial # "dialing"
    /\ client' = [client EXCEPT ![closer].life = "closed"]
    /\ closer' = Nil
    /\ UNCHANGED <<jar, pending, pas, table, rq3>>

-----------------------------------------------------------------------------
(* Alternative services: handleAltSvc, handlePendingAltSvc, the jar.       *)

\* AltSvcJar.GetAltSvc: an expired entry is dropped.
Fresh == jar.entry # 0 /\ ~jar.old
Looked == IF jar.entry # 0 /\ jar.old THEN [jar EXCEPT !.entry = 0] ELSE jar

EntryExpires ==
    /\ Fresh /\ jar' = [jar EXCEPT !.old = TRUE]
    /\ UNCHANGED <<pending, pas, table, client, closer, rq3>>

\* handleAltSvc up to pendingAltSvcsMu, on a response that is not HTTP/3's.
LookUpJar(r) ==
    /\ rq3[r].pc = "svc"
    /\ jar' = Looked
    /\ rq3' = [rq3 EXCEPT ![r].pc = IF Fresh THEN "done" ELSE "svc2"]
    /\ UNCHANGED <<pending, pas, table, client, closer>>

AddPending(r) ==
    /\ rq3[r].pc = "svc2"
    /\ rq3' = [rq3 EXCEPT ![r].pc = "done"]
    /\ \/ /\ pending # Nil /\ UNCHANGED <<pending, pas>>
       \/ /\ pending = Nil
          /\ \E p \in Pas :
                /\ ~pas[p].made /\ \A q \in Pas : q < p => pas[q].made
                /\ pending' = p
                /\ pas' = [pas EXCEPT ![p].made = TRUE, ![p].handler = "try"]
    /\ UNCHANGED <<jar, table, client, closer>>

\* One round of handlePendingAltSvc's loop: AddConn as far as getClient's return.
PendingGetClient(p) ==
    /\ pas[p].handler = "try" /\ pas[p].at <= N3
    /\ LET h == Alternatives[pas[p].at] IN
       \/ \E c \in Client :
             /\ Dials(h, "background", c) \/ Shares(h, c)
             /\ pas' = [pas EXCEPT ![p].handler = "set", ![p].on = c]
       \/ /\ FindsFailed(h)
          /\ pas' = [pas EXCEPT ![p].at = @ + 1]
    /\ UNCHANGED <<jar, pending, closer, rq3>>

\* AddConn counts itself out; it does not wait for the dial.
PendingReady(p) ==
    /\ pas[p].handler = "set"
    /\ Release(pas[p].on)
    /\ pas' = [pas EXCEPT ![p].handler = "off", ![p].on = Nil,
                          ![p].index = pas[p].at, ![p].transport = TRUE]
    /\ UNCHANGED <<jar, pending, table, closer, rq3>>

PendingGivesUp(p) ==
    /\ pas[p].handler = "try" /\ pas[p].at > N3
    /\ pas' = [pas EXCEPT ![p].handler = "off"]
    /\ UNCHANGED <<jar, pending, table, client, closer, rq3>>

-----------------------------------------------------------------------------
(* Transport.roundTrip as far as a protocol is chosen.                     *)

\* checkAltSvc as far as pas.Mu: it reads pendingAltSvcs without its mutex.
CheckAltSvc(r) ==
    LET ready == pending # Nil /\ pas[pending].transport IN
    /\ rq3[r].pc = "start"
    /\ \/ /\ ready
          /\ rq3' = [rq3 EXCEPT ![r].pc = "lock", ![r].pas = pending]
          /\ UNCHANGED jar
       \/ /\ ~ready
          /\ jar' = Looked
          /\ rq3' = [rq3 EXCEPT ![r].pc = "get", ![r].entry = IF Fresh THEN jar.entry ELSE 0,
                                ![r].way = IF Fresh THEN "jar" ELSE "cached"]
    /\ UNCHANGED <<pending, pas, table, client, closer>>

LockPas(r) ==
    LET p == rq3[r].pas IN
    /\ rq3[r].pc = "lock" /\ pas[p].mu = "free"
    /\ \/ /\ pas[p].transport
          /\ pas' = [pas EXCEPT ![p].mu = r]
          /\ rq3' = [rq3 EXCEPT ![r].pc = "get", ![r].way = "pending",
                                ![r].entry = pas[p].index]
       \/ /\ ~pas[p].transport
          /\ rq3' = [rq3 EXCEPT ![r].pc = "get", ![r].way = "cached"]
          /\ UNCHANGED pas
    /\ UNCHANGED <<jar, pending, table, client, closer>>

\* What checkAltSvc does with the outcome of its round trip on p.
Resolved(p) == [pas EXCEPT ![p].mu = "free"]
Demoted(p) ==
    IF pas[p].index + 1 <= N3
    THEN [pas EXCEPT ![p].mu = "free", ![p].transport = FALSE,
                     ![p].index = @ + 1, ![p].at = pas[p].index + 1, ![p].handler = "try"]
    ELSE [pas EXCEPT ![p].mu = "free", ![p].transport = FALSE]

Succeeds(r) ==
    /\ rq3' = [rq3 EXCEPT ![r].pc = "done", ![r].result = "h3", ![r].client = Nil]
    /\ IF rq3[r].way = "pending"
       THEN /\ pas' = Resolved(rq3[r].pas)
            /\ jar' = [jar EXCEPT !.entry = rq3[r].entry, !.old = FALSE,
                                  !.proved = @ \union {rq3[r].entry}]
            /\ pending' = Nil
       ELSE UNCHANGED <<pas, jar, pending>>

\* Faulty variant: the alternative is kept whatever came of the round trip.
FailsButKept(r, e) ==
    /\ rq3' = [rq3 EXCEPT ![r].pc = "done", ![r].result = e, ![r].client = Nil]
    /\ IF rq3[r].way = "pending"
       THEN /\ pas' = Resolved(rq3[r].pas)
            /\ jar' = [jar EXCEPT !.entry = rq3[r].entry, !.old = FALSE]
            /\ pending' = Nil
       ELSE UNCHANGED <<pas, jar, pending>>

\* Faulty variant: the mutex of the pending entry is kept on the error path.
FailsLocked(r, e) ==
    /\ rq3' = [rq3 EXCEPT ![r].pc = "done", ![r].result = e, ![r].client = Nil]
    /\ UNCHANGED <<pas, jar, pending>>

Fails(r, e) ==
    /\ rq3' = [rq3 EXCEPT ![r].pc = "done", ![r].result = e, ![r].client = Nil]
    /\ pas' = IF rq3[r].way = "pending" THEN Demoted(rq3[r].pas) ELSE pas
    /\ UNCHANGED <<jar, pending>>

-----------------------------------------------------------------------------
(* RoundTripOpt.                                                           *)

\* getClient; on the cached way ErrNoCachedConn leads on to the other protocols.
GetClient3(r) ==
    /\ rq3[r].pc = "get"
    /\ \/ /\ rq3[r].way = "cached" /\ table[Origin3] = Nil /\ closer = Nil
          /\ rq3' = [rq3 EXCEPT ![r].pc = "h1"]
          /\ UNCHANGED <<jar, pending, pas, table, client>>
       \/ \E c \in Client :
             /\ \/ rq3[r].way # "cached" /\ Dials(HostOf(r), r, c)
                \/ Shares(HostOf(r), c)
             /\ rq3' = [rq3 EXCEPT ![r].pc = "wait", ![r].client = c, ![r].tries = @ + 1,
                           ![r].reused = client[c].dial = "up" /\ client[c].hs]
             /\ UNCHANGED <<jar, pending, pas>>
       \/ FindsFailed(HostOf(r)) /\ Fails(r, "error")
    /\ UNCHANGED closer

DialFailed(r) ==
    /\ rq3[r].pc = "wait" /\ client[rq3[r].client].dial = "failed"
    /\ RemoveClient(HostOf(r)) /\ Fails(r, "error")
    /\ UNCHANGED <<client, closer>>

\* The early return keeps the use count up.
WaitCanceled(r) ==
    /\ rq3[r].pc = "wait" /\ rq3[r].ctx # "live"
    /\ Fails(r, rq3[r].ctx)
    /\ UNCHANGED <<table, client, closer>>

Dialled(r) ==
    /\ rq3[r].pc = "wait" /\ client[rq3[r].client].dial = "up"
    /\ rq3' = [rq3 EXCEPT ![r].pc = "rt"]
    /\ UNCHANGED <<jar, pending, pas, table, client, closer>>

RoundTrips(r) ==
    LET c == client[rq3[r].client] IN
    /\ rq3[r].pc = "rt" /\ c.life = "up" /\ c.hs
    /\ Succeeds(r) /\ Release(rq3[r].client)
    /\ UNCHANGED <<table, closer>>

\* RoundTrip's error: cancellation alone leaves the client in the table; a timeout,
\* of the connection or of the request's own deadline, is tried again.
RoundTripFails(r) ==
    LET c == client[rq3[r].client]
        timeout == c.life = "timeout" \/ rq3[r].ctx = "deadline"
        again == rq3[r].reused /\ timeout /\ rq3[r].ctx # "canceled" IN
    /\ rq3[r].pc = "rt" /\ (c.life # "up" \/ rq3[r].ctx # "live")
    /\ Release(rq3[r].client)
    /\ IF rq3[r].ctx = "canceled" THEN UNCHANGED table ELSE RemoveClient(HostOf(r))
    /\ \/ /\ again /\ rq3[r].tries < MaxTries3
          /\ rq3' = [rq3 EXCEPT ![r].pc = "get", ![r].client = Nil]
          /\ UNCHANGED <<jar, pending, pas>>
       \/ ~(again /\ rq3[r].tries < MaxTries3) /\ Fails(r, ErrOf(r))
    /\ UNCHANGED closer

\* The rest of Transport.roundTrip (ConnPool, PersistConn, H2Pool), then RoundTrip:
\* a response may announce alternatives.
OtherProtocol(r) ==
    /\ rq3[r].pc = "h1"
    /\ \E to \in {"svc", "done"} :
          rq3' = [rq3 EXCEPT ![r].pc = to, ![r].result = "h1"]
    /\ UNCHANGED <<jar, pending, pas, table, client, closer>>

CtxEnds3(r) ==
    /\ rq3[r].ctx = "live" /\ rq3[r].pc \notin {"done", "svc", "svc2"}
    /\ \E how \in {e \in {"canceled", "deadline"} :
                      r \in IF e = "canceled" THEN Cancel3 ELSE Deadline3} :
          rq3' = [rq3 EXCEPT ![r].ctx = how]
    /\ UNCHANGED <<jar, pending, pas, table, client, closer>>

RequestStep3(r) ==
    \/ CheckAltSvc(r) \/ LockPas(r) \/ GetClient3(r)
    \/ DialFailed(r) \/ WaitCanceled(r) \/ Dialled(r)
    \/ RoundTrips(r) \/ RoundTripFails(r) \/ OtherProtocol(r)
    \/ LookUpJar(r) \/ AddPending(r)

PendingStep(p) == PendingGetClient(p) \/ PendingReady(p) \/ PendingGivesUp(p)

PoolNext ==
    \/ \E r \in Req3 : RequestStep3(r) \/ CtxEnds3(r)
    \/ \E p \in Pas : PendingStep(p)
    \/ \E c \in Client : \/ DialEnds3(c) \/ DialCanceled(c) \/ HandshakeComplete(c)
                         \/ \E how \in {"closed", "timeout"} : ConnEnds3(c, how)
    \/ \E h \in Host3 : CloseIdle(h)
    \/ CloseIdleDone \/ EntryExpires

PoolSpec == (PoolInit \/ PoolRest) /\ [][PoolNext]_poolVars

\* Goroutines run; QUIC ends a dial and a handshake one way or the other (its own
\* timeouts see to that); an answer comes or the connection ends.
PoolFairness ==
    /\ \A r \in Req3 : WF_poolVars(RequestStep3(r))
    /\ \A p \in Pas : WF_poolVars(PendingStep(p))
    /\ \A c \in Client : WF_poolVars(DialEnds3(c)) /\ WF_poolVars(HandshakeComplete(c))
    /\ WF_poolVars(CloseIdleDone)

-----------------------------------------------------------------------------
(* Properties.                                                             *)

\* An alternative the jar recommends is one of the announced ones and has answered a
\* request over HTTP/3 (checkAltSvc puts it there only after a round trip on it),
\* although the index it is read from moves on with every failure.
AltSvcProven ==
    /\ jar.entry # 0 => jar.entry \in jar.proved
    /\ \A r \in Req3 : rq3[r].way = "pending" /\ rq3[r].pc = "get" => rq3[r].entry \in 1..N3

\* CloseIdleConnections never closes a connection that a round trip, or the
\* preparation of an alternative, waits for or runs on (useCount).
InUseNotClosed3 ==
    [][closer' # closer /\ closer' # Nil
       => Users(closer') = {} /\ Adders(closer') = {}]_poolVars

\* Every request returns, the ones queued on the mutex of a pending alternative too:
\* its holder gives it back whatever becomes of its round trip.
RequestsReturn3 == \A r \in Req3 : <>(rq3[r].pc = "done")
=============================================================================
