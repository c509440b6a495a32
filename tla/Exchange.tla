------------------------------ MODULE Exchange ------------------------------
(* One call of Request.Do (request.go, middleware.go, client.go, digest.go,  *)
(* redirect.go): the request middleware builds the body, Client.roundTrip    *)
(* sends it, http.Client follows redirects, response middleware reads, saves *)
(* and answers digest challenges, and the loop retries.  The server, the     *)
(* network and the caller's hooks answer as they like.                       *)
(*                                                                           *)
(* A body is a sequence of tokens.  What matters is where GetBody takes it   *)
(* from: memory ("bytes"), the caller's reader ("src"), which is spent by    *)
(* being read, or the pipe of a chunked multipart upload ("pipe").           *)
EXTENDS Integers, Sequences, SequencesExt

CONSTANTS
    Calls,      \* how the caller set up client and request
    Hosts,      \* where a redirect may lead, as sequences of labels
    MaxSends    \* bound: requests on the wire in one call of Do

\* What the caller may set, and what the server may answer.
BodyKinds == {"none", "bytes", "func", "reader", "closer", "marshal", "form", "multipart", "chunked", "ordered", "odd", "unset"}
FileKinds == {"none", "bytes", "path", "reader", "closer", "seeker"}
PolicyKinds == {"max", "no", "domain", "host", "hosts", "domains", "copy"}
ASSUME ExchangeConstants ==
    \A c \in Calls :
        /\ c.body \in BodyKinds /\ c.file \in FileKinds /\ c.cform \in BOOLEAN
        /\ c.cookies \in Nat /\ "nil" \notin c.answers
        /\ DOMAIN c.policies \subseteq Nat
        /\ \A i \in DOMAIN c.policies : c.policies[i].kind \in PolicyKinds /\ c.policies[i].n \in Int

VARIABLES
    setup,       \* the setup, one of Calls
    at,         \* where Do is
    r,          \* the Request: [form, Body, get, data, attempt, url, cookies, error]
    rdr,        \* the caller's reader, of the body or of the file: [left, closed]
    pipe,       \* the pipe of handleMultiPart: [data, left, closed]
    fly,        \* the http.Request under way
    raw,        \* r.RawRequest: [hasBody, clen, host]
    resp,       \* the Response: [status, err, cached, n]
    err,        \* do's err
    canceled,   \* contextCanceled
    sent,       \* every request that left, with what became of it
    output      \* [of, closed]: the responses whose bodies the output holds

exVars == <<setup, at, r, rdr, pipe, fly, raw, resp, err, canceled, sent, output>>

------------------------------------------------------------------------------
NoBody == <<"-">>
FileData == <<"f", "g">>
Contents(c) ==
    CASE c.body \in {"bytes", "func", "reader", "closer"} -> <<"b", "b">>
      [] c.body = "marshal" -> <<"m">>
      [] OTHER -> <<>>

\* SetBody: bytes and functions give a fresh reader each time, a reader gives itself.
SetBody(c) ==
    [form |-> IF c.body \in {"form", "multipart", "chunked"} THEN <<"q">> ELSE <<>>,
     Body |-> IF c.body = "bytes" THEN Contents(c) ELSE NoBody,
     get |-> CASE c.body \in {"bytes", "func"} -> "bytes" [] c.body \in {"reader", "closer"} -> "src" [] OTHER -> "nil",
     data |-> IF c.body \in {"bytes", "func"} THEN Contents(c) ELSE <<>>,
     attempt |-> 0, url |-> <<>>, cookies |-> 0, error |-> c.body = "unset"]
unReplayableBody(c) == c.body \in {"reader", "closer"}
SetBodyBytes(rr, b) == [rr EXCEPT !.Body = b, !.get = "bytes", !.data = b]

NoFlight == [host |-> <<>>, why |-> "first", clen |-> 0, via |-> <<>>, hasBody |-> FALSE, auth |-> "none", back |-> "received"]
NoResponse == [status |-> "nil", err |-> "none", cached |-> 0, n |-> 0]

------------------------------------------------------------------------------
(* Request middleware.                                                       *)

\* parseRequestURL: always from RawURL, the base URL and the parameters, so that a
\* retry starts afresh; a parameter of the request replaces the client's.
parseRequestURL(c) ==
    [err  |-> c.url = "bad",
     url  |-> [host |-> IF c.url = "relative" THEN c.base ELSE c.host,
               query |-> [k \in DOMAIN c.cquery \union DOMAIN c.rquery |->
                             IF k \in DOMAIN c.rquery THEN c.rquery[k] ELSE c.cquery[k]]]]

\* parseRequestHeader: a header of the client is used where the request has none.
parseRequestHeader(c) == IF c.rauth # "none" THEN c.rauth ELSE c.cauth

\* parseRequestCookie: the client's cookies are appended, on a retry again.
parseRequestCookie(c, rr) == IF c.cookies > 0 \/ rr.attempt <= 0 THEN rr.cookies + c.cookies ELSE rr.cookies

\* Faulty variant: SetFile keeps the file it opened first.
GetFileContentOnce(kind, attempt) == kind = "bytes"
\* GetFileContent of SetFileBytes and SetFile: a fresh reader; SetFile's first one
\* was opened when it was called.  SetFileReader and SetFileUpload give one reader.
GetFileContent(kind, attempt) == kind = "bytes" \/ (kind = "path" /\ attempt > 0)
\* content.(io.ReadSeeker): not what io.NopCloser wraps (SetFileReader of a reader).
Seekable(kind) == kind \in {"path", "closer", "seeker"}
Closable(kind) == kind \in {"path", "closer"}

\* writeMultipartFormFile: [part, src]; a file that cannot be read leaves no part,
\* and the error is dropped.
writeMultipartFormFile(kind, attempt, s) ==
    LET fresh == GetFileContent(kind, attempt)
        left == IF fresh \/ (attempt > 0 /\ Seekable(kind)) THEN FileData ELSE s.left
    IN  IF kind = "none" THEN [part |-> <<>>, left |-> <<>>, rdr |-> s]
        ELSE IF ~fresh /\ s.closed THEN [part |-> <<>>, left |-> <<>>, rdr |-> s]
        ELSE [part |-> <<"part">> \o left, left |-> left, rdr |-> [left |-> <<>>, closed |-> Closable(kind)]]

\* writeMultiPart: form data, files, the closing boundary.
writeMultiPart(rr, part) == rr.form \o part \o <<"end">>

\* handleMultiPart: into a buffer, or by a goroutine into a pipe.
handleMultiPart(c, rr) ==
    LET f == writeMultipartFormFile(c.file, rr.attempt, rdr)
        all == writeMultiPart(rr, f.part)
    IN  IF c.body = "chunked"
        THEN [r |-> [rr EXCEPT !.get = "pipe"], rdr |-> f.rdr, pipe |-> [data |-> all, left |-> f.left, closed |-> FALSE]]
        ELSE [r |-> SetBodyBytes(rr, all), rdr |-> f.rdr, pipe |-> pipe]

\* isPayloadForbid
isPayloadForbid(c) == (c.method = "GET" /\ ~c.getPayload) \/ c.method \in {"HEAD", "OPTIONS"}

\* parseRequestBody, with handleFormData, handleOrderedFormData and handleMarshalBody.
\* The client's form data is added to the request's each time; an odd list of ordered
\* form data sets r.error, which nobody looks at any more.
parseRequestBody(c, rr) ==
    LET Same(x) == [r |-> x, rdr |-> rdr, pipe |-> pipe]
        form == IF c.cform THEN rr.form \o <<"c">> ELSE rr.form
        rf == [rr EXCEPT !.form = form]
    IN  IF isPayloadForbid(c) THEN Same([rr EXCEPT !.Body = NoBody, !.get = "nil"])
        ELSE IF c.body \in {"multipart", "chunked"} THEN handleMultiPart(c, rr)
        ELSE IF form # <<>> THEN Same(SetBodyBytes(rf, form))
        ELSE IF c.body = "ordered" THEN Same(SetBodyBytes(rf, <<"o">>))
        ELSE IF c.body = "odd" THEN Same([rf EXCEPT !.error = TRUE])
        ELSE IF c.body = "marshal" THEN Same(SetBodyBytes(rf, Contents(c)))
        ELSE Same(rf)

\* What GetBody returns when its body is read to the end, and whether that fails.
BodyOf(get) == CASE get = "bytes" -> r.data [] get = "src" -> rdr.left [] get = "pipe" -> pipe.data [] OTHER -> <<>>
Unreadable(get) == (get = "src" /\ rdr.closed) \/ (get = "pipe" /\ pipe.closed)

------------------------------------------------------------------------------
(* do and roundTrip.                                                         *)
ExchangeInit ==
    /\ setup \in Calls
    /\ at = "start" /\ r = SetBody(setup)
    /\ rdr = [left |-> IF unReplayableBody(setup) THEN Contents(setup) ELSE FileData, closed |-> FALSE]
    /\ pipe = [data |-> <<>>, left |-> <<>>, closed |-> FALSE]
    /\ fly = NoFlight /\ raw = NoFlight
    /\ resp = NoResponse /\ err = "none" /\ canceled = FALSE
    /\ sent = <<>> /\ output = [of |-> <<>>, closed |-> FALSE]

Return(e) == at' = "done" /\ err' = e

\* Do: an error of a setter, or a body that cannot be sent again where retries are on.
Do ==
    /\ at = "start"
    /\ IF r.error \/ (setup.retry /\ setup.max # 0 /\ unReplayableBody(setup))
       THEN Return("setup") ELSE at' = "before" /\ UNCHANGED err
    /\ UNCHANGED <<setup, r, rdr, pipe, fly, raw, resp, canceled, sent, output>>

\* A middleware of the caller fails, or the URL, or marshalling.
BeforeFails ==
    /\ at = "before"
    /\ setup.before \/ parseRequestURL(setup).err
    /\ Return("before")
    /\ UNCHANGED <<setup, r, rdr, pipe, fly, raw, resp, canceled, sent, output>>

\* beforeRequest, then roundTrip up to httpClient.Do: GetBody, ContentLength.
RoundTrip ==
    /\ at = "before" /\ ~parseRequestURL(setup).err
    /\ LET rc == [r EXCEPT !.cookies = parseRequestCookie(setup, r), !.url = parseRequestURL(setup).url]
           b == parseRequestBody(setup, rc)
           f == [host |-> rc.url.host, why |-> IF r.attempt = 0 THEN "first" ELSE "retry",
                 clen |-> IF b.r.Body = NoBody THEN 0 ELSE Len(b.r.Body),
                 via |-> <<>>, hasBody |-> b.r.get # "nil", auth |-> parseRequestHeader(setup), back |-> "received"]
       IN  /\ r' = b.r /\ rdr' = b.rdr /\ pipe' = b.pipe
           /\ fly' = f /\ raw' = f
    /\ at' = "send" /\ resp' = NoResponse
    /\ UNCHANGED <<setup, err, canceled, sent, output>>

Errors == {"net", "canceled", "deadline"}
\* A body that cannot be read to its end, or is not as long as its length says.
Broken == fly.hasBody /\ (Unreadable(r.get) \/ (fly.clen > 0 /\ Len(BodyOf(r.get)) # fly.clen))

\* What is left of a reader of which some is read; a writer of the pipe that is cut off
\* leaves what it has not yet read of the file.  The body is closed in any case.
Spent ==
    IF ~fly.hasBody \/ r.get \notin {"src", "pipe"} THEN {[rdr |-> rdr, pipe |-> pipe]}
    ELSE IF r.get = "src"
    THEN {[rdr |-> [left |-> s, closed |-> rdr.closed \/ setup.body = "closer"], pipe |-> pipe] : s \in Suffixes(rdr.left)}
    ELSE {[rdr |-> [rdr EXCEPT !.left = s], pipe |-> [data |-> <<>>, left |-> <<>>, closed |-> TRUE]] : s \in Suffixes(pipe.left)}

\* The transport (ConnPool, PersistConn, H2Pool, H3Pool) reads some or all of the body,
\* closes it, and has an answer.
Transport(ans) ==
    /\ at = "send" /\ Len(sent) < MaxSends
    /\ Broken => ans = "net"
    /\ sent' = Append(sent, [body |-> IF fly.hasBody THEN BodyOf(r.get) ELSE <<>>, broken |-> Broken, clen |-> fly.clen,
                             why |-> fly.why, attempt |-> r.attempt, host |-> fly.host, via |-> fly.via,
                             url |-> r.url, auth |-> fly.auth, cookies |-> r.cookies, ans |-> ans])
    /\ \E x \in Spent : rdr' = x.rdr /\ pipe' = x.pipe
    /\ at' = "answer"
    /\ UNCHANGED <<setup, r, fly, raw, resp, err, canceled, output>>

Answer == sent[Len(sent)].ans

------------------------------------------------------------------------------
(* http.Client and the redirect policies.                                    *)
\* getDomain: without the first of three labels or more.
getDomain(h) == IF Len(h) < 3 THEN h ELSE Tail(h)

\* MaxRedirectPolicy, NoRedirectPolicy, SameDomain-, SameHost-, AllowedHost- and
\* AllowedDomainRedirectPolicy: the verdict on a redirect to h after the requests via.
RedirectPolicy(p, h, via) ==
    CASE p.kind = "max"    -> IF Len(via) >= p.n THEN "stop" ELSE "follow"
      [] p.kind = "no"     -> "last"
      [] p.kind = "domain" -> IF getDomain(h) # getDomain(via[1]) THEN "stop" ELSE "follow"
      [] p.kind = "host"   -> IF h # via[1] THEN "stop" ELSE "follow"
      [] p.kind = "hosts"  -> IF h \notin p.set THEN "stop" ELSE "follow"
      [] p.kind = "domains" -> IF getDomain(h) \notin {getDomain(d) : d \in p.set} THEN "stop" ELSE "follow"
      [] p.kind = "copy"   -> "follow"

\* SetRedirectPolicy: the first policy that objects decides.
CheckRedirect(h, via) ==
    LET objects == {i \in DOMAIN setup.policies : RedirectPolicy(setup.policies[i], h, via) # "follow"}
    IN  IF objects = {} THEN "follow"
        ELSE RedirectPolicy(setup.policies[CHOOSE i \in objects : \A j \in objects : i <= j], h, via)

\* http.Client keeps Authorization for the first host and below it, once dropped it
\* stays so; AlwaysCopyHeaderRedirectPolicy puts it back.
RedirectAuth(h) ==
    LET below == Len(h) >= Len(raw.host) /\ SubSeq(h, Len(h) - Len(raw.host) + 1, Len(h)) = raw.host
    IN  IF \E i \in DOMAIN setup.policies : setup.policies[i].kind = "copy" THEN raw.auth
        ELSE IF below THEN fly.auth ELSE "none"

\* A redirect is followed: 307 with GetBody's body, 302 with GET and none.
Redirect(h) ==
    /\ at = "answer" /\ Answer \in {"302", "307"} /\ fly.why # "digest"
    /\ CheckRedirect(h, Append(fly.via, fly.host)) = "follow"
    /\ fly' = [fly EXCEPT !.host = h, !.via = Append(@, fly.host), !.why = "redirect",
                          !.hasBody = Answer = "307" /\ raw.hasBody, !.clen = IF Answer = "307" THEN raw.clen ELSE 0,
                          !.auth = RedirectAuth(h)]
    /\ at' = "send"
    /\ UNCHANGED <<setup, r, rdr, pipe, raw, resp, err, canceled, sent, output>>

\* httpClient.Do returns: a response, an error, or a redirect not followed.
DoReturns(h) ==
    /\ at = "answer" /\ fly.why # "digest"
    /\ LET n == Len(sent)
           v == CheckRedirect(h, Append(fly.via, fly.host))
       IN  \/ /\ Answer \in Errors
              /\ resp' = [resp EXCEPT !.err = Answer, !.n = n]
           \/ /\ Answer \in {"302", "307"} /\ v # "follow"
              /\ resp' = [resp EXCEPT !.status = Answer, !.err = IF v = "stop" THEN "policy" ELSE "none", !.n = n]
           \/ /\ Answer \notin Errors \union {"302", "307"}
              /\ resp' = [resp EXCEPT !.status = Answer, !.n = n]
    /\ at' = "received"
    /\ UNCHANGED <<setup, r, rdr, pipe, fly, raw, err, canceled, sent, output>>

------------------------------------------------------------------------------
(* Response middleware.                                                      *)
AutoRead == setup.save = "no" /\ setup.autoRead

\* ToBytes, when roundTrip reads the body (it did not come, or came whole).
ToBytes(p, ok) ==
    IF p.err # "none" \/ p.cached # 0 \/ p.status = "nil" THEN p
    ELSE IF ok THEN [p EXCEPT !.cached = p.n] ELSE [p EXCEPT !.err = "read", !.cached = p.n]

\* parseResponseBody: a 2xx goes into the result; unmarshalling may fail.
parseResponseBody(p, ok, unmarshals) ==
    IF p.status # "200" \/ ~setup.result THEN p
    ELSE LET q == ToBytes(p, ok) IN IF q.err = "none" /\ ~unmarshals THEN [q EXCEPT !.err = "unmarshal"] ELSE q

\* handleDownload: a file is created anew, a writer goes on where it is; both are
\* closed if they can be.
handleDownload(p, ok) ==
    LET bad == ~ok \/ p.err = "policy" \/ (setup.save = "closer" /\ output.closed)
    IN  IF p.status = "nil" \/ setup.save = "no" THEN [p |-> p, out |-> output]
        ELSE [p |-> IF bad THEN [p EXCEPT !.err = "save"] ELSE p,
              out |-> [of |-> IF setup.save = "closer" /\ output.closed THEN output.of
                              ELSE (IF setup.save = "file" THEN <<>> ELSE output.of) \o (IF bad THEN <<0>> ELSE <<p.n>>),
                       closed |-> setup.save \in {"file", "closer"}]]

\* The rest of roundTrip: the body is read, then c.afterResponse, whose errors replace
\* resp.Err one after the other.
Received(ok, unmarshals) ==
    /\ at = "received"
    /\ LET read == IF AutoRead THEN ToBytes(resp, ok) ELSE resp
           d == handleDownload(parseResponseBody(read, ok, unmarshals), ok)
       IN  resp' = d.p /\ output' = d.out
    /\ at' = "clientDigest"
    /\ UNCHANGED <<setup, r, rdr, pipe, fly, raw, err, canceled, sent>>

Challenged == resp.err = "none" /\ resp.status = "401"

\* handleDigestAuthFunc: the body is set up anew and the request sent again, to where
\* it went first and with the length it had, past http.Client.
handleDigestAuth(back) ==
    LET b == IF raw.hasBody THEN parseRequestBody(setup, r) ELSE [r |-> r, rdr |-> rdr, pipe |-> pipe]
    IN  /\ r' = b.r /\ rdr' = b.rdr /\ pipe' = b.pipe
        /\ fly' = [raw EXCEPT !.why = "digest", !.auth = "digest", !.back = back]
        /\ at' = "send"
        /\ UNCHANGED <<setup, raw, resp, err, canceled, sent, output>>

ClientDigest ==
    /\ at = "clientDigest" /\ setup.digest = "client" /\ Challenged
    /\ handleDigestAuth("clientDone")

RequestDigest ==
    /\ at = "requestDigest" /\ setup.digest = "request" /\ Challenged
    /\ handleDigestAuth("requestDone")

\* The challenge is not one of ours (createDigestAuth fails).
BadChallenge ==
    /\ Challenged
    /\ \/ /\ at = "clientDigest" /\ setup.digest = "client"
          /\ resp' = [resp EXCEPT !.err = "challenge"] /\ at' = "roundTripDone" /\ UNCHANGED err
       \/ /\ at = "requestDigest" /\ setup.digest = "request"
          /\ Return("challenge") /\ UNCHANGED resp
    /\ UNCHANGED <<setup, r, rdr, pipe, fly, raw, canceled, sent, output>>

\* The answer to the second request replaces resp.Response; what was read or saved of
\* the first stays.
DigestReturns ==
    /\ at = "answer" /\ fly.why = "digest"
    /\ LET e == IF Answer \in Errors THEN Answer ELSE "none"
           p == [resp EXCEPT !.status = IF e = "none" THEN Answer ELSE "nil", !.n = Len(sent)]
       IN  IF fly.back = "clientDone"
           THEN resp' = [p EXCEPT !.err = e] /\ at' = "roundTripDone" /\ UNCHANGED err
           ELSE /\ resp' = p
                /\ IF e = "none" THEN at' = "hook" /\ err' = "none" ELSE Return(e)
    /\ UNCHANGED <<setup, r, rdr, pipe, fly, raw, canceled, sent, output>>

\* roundTrip returns; do notes whether the context was canceled.
RoundTripReturns ==
    /\ \/ at = "clientDigest" /\ ~(setup.digest = "client" /\ Challenged)
       \/ at = "roundTripDone"
    /\ err' = resp.err
    /\ canceled' = (resp.err = "canceled")
    /\ at' = "requestDigest"
    /\ UNCHANGED <<setup, r, rdr, pipe, fly, raw, resp, sent, output>>

\* r.afterResponse: each middleware's result replaces err, and an error ends do.
NoRequestDigest ==
    /\ at = "requestDigest" /\ ~(setup.digest = "request" /\ Challenged)
    /\ err' = IF setup.digest = "request" THEN "none" ELSE err
    /\ at' = "hook"
    /\ UNCHANGED <<setup, r, rdr, pipe, fly, raw, resp, canceled, sent, output>>

Hook ==
    /\ at = "hook"
    /\ \/ setup.hook = "none" /\ at' = "decide" /\ UNCHANGED err
       \/ setup.hook # "none" /\ at' = "decide" /\ err' = "none"
       \/ setup.hook = "fails" /\ Return("hook")
    /\ UNCHANGED <<setup, r, rdr, pipe, fly, raw, resp, canceled, sent, output>>

------------------------------------------------------------------------------
\* do: "absolutely cannot retry".
CannotRetry == canceled \/ ~setup.retry \/ (r.attempt >= setup.max /\ setup.max >= 0)
\* The default condition, or the caller's, which looks at the response.
NeedRetry == IF setup.cond THEN resp.status = "500" \/ resp.err # "none" ELSE err # "none"

\* do and Do return, and Send calls OnError if there is an error.
DoEnds ==
    /\ at = "decide" /\ (CannotRetry \/ ~NeedRetry)
    /\ Return(IF resp.err # "none" THEN resp.err ELSE err)
    /\ UNCHANGED <<setup, r, rdr, pipe, fly, raw, resp, canceled, sent, output>>

\* RetryAttempt++, the hooks, the sleep, and the next attempt.
Retry ==
    /\ at = "decide" /\ ~CannotRetry /\ NeedRetry
    /\ r' = [r EXCEPT !.attempt = @ + 1]
    /\ at' = "before"
    /\ UNCHANGED <<setup, rdr, pipe, fly, raw, resp, err, canceled, sent, output>>

ExchangeNext ==
    \/ Do \/ BeforeFails \/ RoundTrip
    \/ \E ans \in setup.answers : Transport(ans)
    \/ \E h \in Hosts : Redirect(h) \/ DoReturns(h)
    \/ \E ok, unmarshals \in BOOLEAN : Received(ok, unmarshals)
    \/ ClientDigest \/ RequestDigest \/ BadChallenge \/ DigestReturns
    \/ RoundTripReturns \/ NoRequestDigest \/ Hook \/ DoEnds \/ Retry

ExchangeSpec == ExchangeInit /\ [][ExchangeNext]_exVars

------------------------------------------------------------------------------
(* Properties.                                                               *)

\* The body the caller asked for.
Wanted ==
    LET form == SetBody(setup).form \o (IF setup.cform THEN <<"c">> ELSE <<>>)
        file == IF setup.file = "none" THEN <<>> ELSE <<"part">> \o FileData
    IN  IF isPayloadForbid(setup) THEN <<>>
        ELSE IF setup.body \in {"multipart", "chunked"} THEN <<"q">> \o file \o <<"end">>
        ELSE IF form # <<>> THEN form
        ELSE IF setup.body = "ordered" THEN <<"o">>
        ELSE Contents(setup)

\* The requests whose body can be made again: from memory always; a file that is
\* opened or rewound for every retry, but not for a digest answer to a first attempt;
\* a reader and the client's form data only once; a pipe only once per attempt.
Rebuilt(x) ==
    \/ x.why = "first"
    \/ /\ ~unReplayableBody(setup) /\ (setup.cform => setup.body \in {"multipart", "chunked"})
       /\ setup.file \notin {"reader", "closer"}
       /\ x.why = "digest" /\ setup.file \in {"path", "seeker"} => x.attempt > 0
       /\ x.why = "redirect" => setup.body # "chunked"

\* Every request of one call that leaves, first, retried, redirected with its body
\* or repeated for a digest challenge, carries the whole body and no more, under a
\* length that is right, and a retry goes to the URL of the first.  Nothing is sent
\* after the context was canceled.  The saved file and the cached body are those of
\* the response returned, and a redirect stays where every policy allows
\* (do, roundTrip, parseRequestBody, writeMultipartFormFile, handleDownload, redirect.go).
AttemptsWhole ==
    /\ \A i \in DOMAIN sent :
          LET x == sent[i]
              bodiless == i > 1 /\ sent[i - 1].ans = "302"
          IN  /\ Rebuilt(x) /\ (x.why = "redirect" => ~bodiless)
                   => x.body = Wanted /\ x.clen \in {0, Len(x.body)} /\ ~x.broken
              /\ x.why = "retry" => x.url = sent[1].url
              /\ i < Len(sent) => x.ans # "canceled"
              /\ x.why = "redirect" => \A p \in DOMAIN setup.policies :
                    /\ setup.policies[p].kind = "domain" => getDomain(x.host) = getDomain(x.via[1])
                    /\ setup.policies[p].kind = "max" => Len(x.via) < setup.policies[p].n
                    /\ setup.policies[p].kind # "no"
    /\ at = "done" /\ err = "none" /\ setup.digest = "no" =>
          /\ setup.save = "file" => output.of = <<Len(sent)>>
          /\ AutoRead => resp.cached = Len(sent)
==============================================================================
