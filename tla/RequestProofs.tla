--------------------------- MODULE RequestProofs ---------------------------
(***************************************************************************)
(* What a caller of the client relies on: the request that Do sends, again *)
(* where it must, the file that a parallel download writes, and settings   *)
(* that no other client can change.                                        *)
(*                                                                         *)
(* Exchange, for every setup of a call and every server: each request that *)
(* leaves carries the whole body where that can be made again.  The        *)
(* property is about requests already sent; what keeps it is BodyInv, how  *)
(* the reader, the pipe and the request stand before the next is sent:     *)
(* nothing touched before the first attempt (Untouched), what an attempt   *)
(* leaves for the next one (Kept), and that the request under way would    *)
(* send just the body wanted.  CancelInv follows a canceled context to the *)
(* end of Do, OutputInv what was read and saved of the last response.      *)
(*                                                                         *)
(* Download, for every file, every size of its segments and any number of  *)
(* workers: what is written is a beginning of the file, and all of it when *)
(* Do returns no error.  The property alone is not inductive.  It needs    *)
(* that a temporary file holds the segment of its number, whichever worker *)
(* fetched it (Fetched), that the merger has appended the segments below   *)
(* mg.i (Merged), and that the WaitGroup still counts the merger when Do   *)
(* finds it at zero (Counted): an end of the merger that Do has not heard  *)
(* an error of is the end of the whole merge.                              *)
(*                                                                         *)
(* Settings, for any number of clients, clones and requests: a call        *)
(* changes what one of them has and no other.  The property is about the   *)
(* values; what keeps it is about addresses: an object that one holder has *)
(* for its own is in nobody else's fields (Apart), arrays and other        *)
(* objects stay distinct and slices within their arrays (SlicesFit), and   *)
(* every address is allocated (Allocated), so that a new one is new.  All  *)
(* setters, Clone and R are instances of one lemma, StepFine.              *)
(***************************************************************************)
EXTENDS Exchange, Download, Settings, FiniteSetTheorems, SequenceTheorems, NaturalsInduction, WellFoundedInduction, TLAPS

-----------------------------------------------------------------------------
(* A call of Do: the invariant.                                            *)

Tokens == Seq({"q", "c", "b", "m", "o", "f", "g", "part", "end", "-"})
HostSet == Hosts \union {c.host : c \in Calls} \union {c.base : c \in Calls} \union {<<>>}
UrlSet == {parseRequestURL(c).url : c \in Calls} \union {<<>>}
AuthSet == {"none", "digest"} \union {c.rauth : c \in Calls} \union {c.cauth : c \in Calls}
AnswerSet == UNION {c.answers : c \in Calls}
Whys == {"first", "retry", "redirect", "digest"}
ReqRec == [form : Tokens, Body : Tokens, get : {"nil", "bytes", "src", "pipe"}, data : Tokens,
           attempt : Nat, url : UrlSet, cookies : Nat, error : BOOLEAN]
RdrRec == [left : Tokens, closed : BOOLEAN]
PipeRec == [data : Tokens, left : Tokens, closed : BOOLEAN]
Flight == [host : HostSet, why : Whys, clen : Nat, via : Seq(HostSet), hasBody : BOOLEAN, auth : AuthSet,
           back : {"received", "clientDone", "requestDone"}]
RespRec == [status : AnswerSet \union {"nil"}, cached : Nat, n : Nat,
            err : {"none", "net", "canceled", "deadline", "policy", "read", "unmarshal", "save", "challenge"}]
SentRec == [body : Tokens, broken : BOOLEAN, clen : Nat, why : Whys, attempt : Nat, host : HostSet,
            via : Seq(HostSet), url : UrlSet, auth : AuthSet, cookies : Nat, ans : AnswerSet]

ExTypeOK ==
    /\ setup \in Calls
    /\ at \in {"start", "before", "send", "answer", "received", "clientDigest", "roundTripDone",
               "requestDigest", "hook", "decide", "done"}
    /\ r \in ReqRec /\ rdr \in RdrRec /\ pipe \in PipeRec
    /\ fly \in Flight /\ raw \in Flight /\ resp \in RespRec
    /\ canceled \in BOOLEAN
    /\ sent \in Seq(SentRec)

\* The part of do between RoundTrip and the decision to try again.
Underway == at \in {"send", "answer", "received", "clientDigest", "roundTripDone", "requestDigest"}

\* What can be made again: not a reader, not the client's form data.
Replayable(c) == ~unReplayableBody(c) /\ (c.cform => c.body \in {"multipart", "chunked"})
\* An attempt makes the whole body; so does a digest answer in that attempt.
Whole(c, attempt) == attempt = 0 \/ (Replayable(c) /\ c.file \notin {"reader", "closer"})
WholeAgain(c, attempt) ==
    Replayable(c) /\ c.file \notin {"reader", "closer"} /\ (c.file \in {"path", "seeker"} => attempt > 0)

\* Before the first attempt nothing has been made and nothing read.
Untouched ==
    /\ r.form = SetBody(setup).form /\ r.get = SetBody(setup).get
    /\ r.data = SetBody(setup).data /\ r.Body = SetBody(setup).Body
    /\ rdr = [left |-> IF unReplayableBody(setup) THEN Contents(setup) ELSE FileData, closed |-> FALSE]

\* What an attempt leaves of the request for the next one.
Kept(c, rr) ==
    /\ Replayable(c) => rr.form = SetBody(c).form
    /\ Replayable(c) /\ c.body \in {"bytes", "func"} /\ ~isPayloadForbid(c) =>
          rr.get = "bytes" /\ rr.data = Contents(c) /\ rr.Body \in {NoBody, Contents(c)}
    /\ Replayable(c) /\ c.body \in {"none", "odd", "unset"} => rr.get = "nil" /\ rr.Body = NoBody
    /\ c.body = "chunked" => rr.Body = NoBody

\* The body that the request under way would send.
Carried == IF fly.hasBody THEN BodyOf(r.get) ELSE <<>>

\* A redirect without a body.
Bodiless == fly.why = "redirect" /\ Answer = "302"

\* Whether a request sent in an attempt, and why, can have its body made again (Rebuilt).
RebuiltOf(c, why, attempt) ==
    \/ why = "first"
    \/ /\ Replayable(c) /\ c.file \notin {"reader", "closer"}
       /\ why = "digest" /\ c.file \in {"path", "seeker"} => attempt > 0
       /\ why = "redirect" => c.body # "chunked"

BodyInv ==
    /\ at \in {"start", "before"} /\ r.attempt = 0 => Untouched
    /\ Kept(setup, r)
    /\ setup.file = "seeker" /\ setup.body \in {"multipart", "chunked"} => ~rdr.closed
    /\ Underway /\ Whole(setup, r.attempt) =>
          raw.clen \in {0, Len(Wanted)} /\ (~raw.hasBody => Wanted = <<>>)
    /\ at \in {"send", "answer"} /\ fly.why # "digest" /\ raw.hasBody /\ setup.body # "chunked"
          /\ Replayable(setup) /\ setup.file \notin {"reader", "closer"} => r.get = "bytes" /\ r.data = Wanted
    /\ at = "send" /\ RebuiltOf(setup, fly.why, r.attempt) /\ ~Bodiless =>
          Carried = Wanted /\ fly.clen \in {0, Len(Wanted)} /\ ~Broken

\* Every policy allows a redirect to host after the requests via.
Allowed(c, host, via) ==
    \A p \in DOMAIN c.policies :
        /\ c.policies[p].kind = "domain" => getDomain(host) = getDomain(via[1])
        /\ c.policies[p].kind = "max" => Len(via) < c.policies[p].n
        /\ c.policies[p].kind # "no"

\* The output and the cached body are those of the last response.
Final ==
    /\ setup.save = "file" => output.of = <<Len(sent)>>
    /\ AutoRead => resp.cached = Len(sent)

\* The i-th of the requests s that left, when w was wanted.
EntryFine(c, w, s, i) ==
    /\ RebuiltOf(c, s[i].why, s[i].attempt) /\ ~(s[i].why = "redirect" /\ i > 1 /\ s[i - 1].ans = "302") =>
          s[i].body = w /\ s[i].clen \in {0, Len(w)} /\ ~s[i].broken
    /\ s[i].url = parseRequestURL(c).url
    /\ i < Len(s) => s[i].ans # "canceled"
    /\ s[i].why = "redirect" => Allowed(c, s[i].host, s[i].via)

\* Where Do is in the exchange.
FlightInv ==
    /\ at = "answer" => sent # <<>>
    /\ at \in {"send", "answer"} /\ fly.why = "redirect" => sent # <<>>
    /\ at = "send" /\ fly.why = "first" => r.attempt = 0
    /\ at \in {"send", "answer"} /\ fly.why # "digest" => resp = NoResponse
    /\ fly.why = "digest" => setup.digest # "no"
    /\ Underway => r.url = parseRequestURL(setup).url
    /\ at = "send" /\ fly.why = "redirect" => Allowed(setup, fly.host, fly.via)

\* A context that was canceled leads to the end.
CancelInv ==
    sent # <<>> /\ Answer = "canceled" =>
        /\ at \notin {"start", "before", "send"}
        /\ at \in {"received", "clientDigest"} => resp.status = "nil"
        /\ at \in {"received", "clientDigest", "roundTripDone", "requestDigest"} => resp.err = "canceled"
        /\ at \in {"requestDigest", "hook", "decide"} => canceled

\* What was read and saved is of the last response.
OutputInv ==
    setup.digest = "no" =>
        /\ at = "received" => resp.n = Len(sent) /\ resp.cached = 0 /\ (resp.err = "none" => resp.status # "nil")
        /\ at \in {"clientDigest", "roundTripDone", "requestDigest", "hook", "decide"} /\ resp.err = "none" => Final
        /\ at = "done" /\ err = "none" => Final

\* What has been sent.
SentInv == \A i \in 1..Len(sent) : EntryFine(setup, Wanted, sent, i)

ExInv == ExTypeOK /\ BodyInv /\ FlightInv /\ CancelInv /\ OutputInv /\ SentInv

\* What parseRequestBody makes, by the kind of body.
Parsed(c, rr, form, b) ==
    /\ form \in Tokens
    /\ isPayloadForbid(c) =>
         b = [r |-> [rr EXCEPT !.Body = NoBody, !.get = "nil"], rdr |-> rdr, pipe |-> pipe]
    /\ ~isPayloadForbid(c) /\ c.body \in {"multipart", "chunked"} => b = handleMultiPart(c, rr)
    /\ ~isPayloadForbid(c) /\ c.body \notin {"multipart", "chunked"} =>
         /\ b.rdr = rdr /\ b.pipe = pipe
         /\ form # <<>> => b.r = [rr EXCEPT !.form = form, !.Body = form, !.get = "bytes", !.data = form]
         /\ form = <<>> /\ c.body = "ordered" =>
              b.r = [rr EXCEPT !.form = form, !.Body = <<"o">>, !.get = "bytes", !.data = <<"o">>]
         /\ form = <<>> /\ c.body = "odd" => b.r = [rr EXCEPT !.form = form, !.error = TRUE]
         /\ form = <<>> /\ c.body = "marshal" =>
              b.r = [rr EXCEPT !.form = form, !.Body = Contents(c), !.get = "bytes", !.data = Contents(c)]
         /\ form = <<>> /\ c.body \notin {"ordered", "odd", "marshal"} => b.r = [rr EXCEPT !.form = form]

LEMMA ParseCases ==
    ASSUME NEW c \in Calls, NEW rr \in ReqRec, NEW b, b = parseRequestBody(c, rr),
           NEW form, form = IF c.cform THEN rr.form \o <<"c">> ELSE rr.form
    PROVE  Parsed(c, rr, form, b)
<1> USE DEF Parsed
<1>1. form \in Tokens
  <2>1. rr.form \in Tokens
    BY DEF ReqRec
  <2>2. <<"c">> \in Tokens
    BY DEF Tokens
  <2>3. rr.form \o <<"c">> \in Tokens
    BY <2>1, <2>2, ConcatProperties DEF Tokens
  <2> QED BY <2>1, <2>3
<1>2. CASE isPayloadForbid(c)
  BY <1>1, <1>2, Zenon DEF parseRequestBody
<1>3. CASE ~isPayloadForbid(c) /\ c.body \in {"multipart", "chunked"}
  BY <1>1, <1>3, Zenon DEF parseRequestBody
<1>4. CASE ~isPayloadForbid(c) /\ c.body \notin {"multipart", "chunked"}
  <2>1. b = IF form # <<>> THEN [r |-> SetBodyBytes([rr EXCEPT !.form = form], form), rdr |-> rdr, pipe |-> pipe]
            ELSE IF c.body = "ordered" THEN [r |-> SetBodyBytes([rr EXCEPT !.form = form], <<"o">>), rdr |-> rdr, pipe |-> pipe]
            ELSE IF c.body = "odd" THEN [r |-> [[rr EXCEPT !.form = form] EXCEPT !.error = TRUE], rdr |-> rdr, pipe |-> pipe]
            ELSE IF c.body = "marshal" THEN [r |-> SetBodyBytes([rr EXCEPT !.form = form], Contents(c)), rdr |-> rdr, pipe |-> pipe]
            ELSE [r |-> [rr EXCEPT !.form = form], rdr |-> rdr, pipe |-> pipe]
    BY <1>4, Zenon DEF parseRequestBody
  <2>2. \A z : SetBodyBytes([rr EXCEPT !.form = form], z)
               = [rr EXCEPT !.form = form, !.Body = z, !.get = "bytes", !.data = z]
    BY DEF SetBodyBytes
  <2>3. [[rr EXCEPT !.form = form] EXCEPT !.error = TRUE] = [rr EXCEPT !.form = form, !.error = TRUE]
    OBVIOUS
  <2>4. CASE form # <<>>
    <3>1. b = [r |-> SetBodyBytes([rr EXCEPT !.form = form], form), rdr |-> rdr, pipe |-> pipe]
      BY <2>1, <2>4
    <3>2. b.r = SetBodyBytes([rr EXCEPT !.form = form], form) /\ b.rdr = rdr /\ b.pipe = pipe
      BY <3>1
    <3>3. b.r = [rr EXCEPT !.form = form, !.Body = form, !.get = "bytes", !.data = form]
      BY <2>2, <3>2
    <3> QED BY <1>1, <1>4, <2>4, <3>2, <3>3
  <2>5. CASE form = <<>> /\ c.body = "ordered"
    <3>1. b = [r |-> SetBodyBytes([rr EXCEPT !.form = form], <<"o">>), rdr |-> rdr, pipe |-> pipe]
      BY <2>1, <2>5
    <3>2. b.r = SetBodyBytes([rr EXCEPT !.form = form], <<"o">>) /\ b.rdr = rdr /\ b.pipe = pipe
      BY <3>1
    <3>3. b.r = [rr EXCEPT !.form = form, !.Body = <<"o">>, !.get = "bytes", !.data = <<"o">>]
      BY <2>2, <3>2
    <3> QED BY <1>1, <1>4, <2>5, <3>2, <3>3
  <2>6. CASE form = <<>> /\ c.body = "odd"
    <3>1. b = [r |-> [[rr EXCEPT !.form = form] EXCEPT !.error = TRUE], rdr |-> rdr, pipe |-> pipe]
      BY <2>1, <2>6
    <3>2. b.r = [[rr EXCEPT !.form = form] EXCEPT !.error = TRUE] /\ b.rdr = rdr /\ b.pipe = pipe
      BY <3>1
    <3>3. b.r = [rr EXCEPT !.form = form, !.error = TRUE]
      BY <2>3, <3>2
    <3> QED BY <1>1, <1>4, <2>6, <3>2, <3>3
  <2>7. CASE form = <<>> /\ c.body = "marshal"
    <3>1. b = [r |-> SetBodyBytes([rr EXCEPT !.form = form], Contents(c)), rdr |-> rdr, pipe |-> pipe]
      BY <2>1, <2>7
    <3>2. b.r = SetBodyBytes([rr EXCEPT !.form = form], Contents(c)) /\ b.rdr = rdr /\ b.pipe = pipe
      BY <3>1
    <3>3. b.r = [rr EXCEPT !.form = form, !.Body = Contents(c), !.get = "bytes", !.data = Contents(c)]
      BY <2>2, <3>2
    <3> QED BY <1>1, <1>4, <2>7, <3>2, <3>3
  <2>8. CASE form = <<>> /\ c.body \notin {"ordered", "odd", "marshal"}
    <3>1. b = [r |-> [rr EXCEPT !.form = form], rdr |-> rdr, pipe |-> pipe]
      BY <2>1, <2>8
    <3> QED BY <1>1, <1>4, <2>8, <3>1
  <2> QED BY <2>4, <2>5, <2>6, <2>7, <2>8
<1> QED BY <1>2, <1>3, <1>4

LEMMA TokenSeqs ==
    ASSUME NEW c \in Calls
    PROVE  /\ <<>> \in Tokens /\ NoBody \in Tokens /\ FileData \in Tokens /\ Contents(c) \in Tokens
           /\ <<"q">> \in Tokens /\ <<"o">> \in Tokens /\ <<"part">> \in Tokens /\ <<"end">> \in Tokens
           /\ SetBody(c) \in ReqRec
           /\ SetBody(c).form = (IF c.body \in {"form", "multipart", "chunked"} THEN <<"q">> ELSE <<>>)
           /\ SetBody(c).Body = (IF c.body = "bytes" THEN Contents(c) ELSE NoBody)
           /\ SetBody(c).get = (IF c.body \in {"bytes", "func"} THEN "bytes"
                                ELSE IF c.body \in {"reader", "closer"} THEN "src" ELSE "nil")
           /\ SetBody(c).data = (IF c.body \in {"bytes", "func"} THEN Contents(c) ELSE <<>>)
           /\ SetBody(c).attempt = 0
<1>1. /\ <<>> \in Tokens /\ NoBody \in Tokens /\ FileData \in Tokens
      /\ <<"q">> \in Tokens /\ <<"o">> \in Tokens /\ <<"part">> \in Tokens /\ <<"end">> \in Tokens
  BY DEF Tokens, NoBody, FileData
<1>2. <<"b", "b">> \in Tokens /\ <<"m">> \in Tokens
  BY DEF Tokens
<1>3. Contents(c) \in Tokens
  BY <1>1, <1>2 DEF Contents
<1>4. PICK form \in Tokens, Body \in Tokens, get \in {"nil", "bytes", "src", "pipe"}, data \in Tokens, e \in BOOLEAN :
         /\ form = IF c.body \in {"form", "multipart", "chunked"} THEN <<"q">> ELSE <<>>
         /\ Body = IF c.body = "bytes" THEN Contents(c) ELSE NoBody
         /\ get = IF c.body \in {"bytes", "func"} THEN "bytes"
                  ELSE IF c.body \in {"reader", "closer"} THEN "src" ELSE "nil"
         /\ data = IF c.body \in {"bytes", "func"} THEN Contents(c) ELSE <<>>
         /\ e = (c.body = "unset")
  <2>1. PICK form \in Tokens : form = IF c.body \in {"form", "multipart", "chunked"} THEN <<"q">> ELSE <<>>
    BY <1>1
  <2>2. PICK Body \in Tokens : Body = IF c.body = "bytes" THEN Contents(c) ELSE NoBody
    BY <1>1, <1>3
  <2>3. PICK data \in Tokens : data = IF c.body \in {"bytes", "func"} THEN Contents(c) ELSE <<>>
    BY <1>1, <1>3
  <2>4. PICK get \in {"nil", "bytes", "src", "pipe"} :
           get = IF c.body \in {"bytes", "func"} THEN "bytes"
                 ELSE IF c.body \in {"reader", "closer"} THEN "src" ELSE "nil"
    OBVIOUS
  <2>5. PICK e \in BOOLEAN : e = (c.body = "unset")
    OBVIOUS
  <2> QED BY <2>1, <2>2, <2>3, <2>4, <2>5
<1>5. get = CASE c.body \in {"bytes", "func"} -> "bytes" [] c.body \in {"reader", "closer"} -> "src" [] OTHER -> "nil"
  BY <1>4
<1>6. SetBody(c) = [form |-> form, Body |-> Body, get |-> get, data |-> data,
                    attempt |-> 0, url |-> <<>>, cookies |-> 0, error |-> e]
  BY <1>4, <1>5 DEF SetBody
<1>7. <<>> \in UrlSet
  BY DEF UrlSet
<1>8. SetBody(c) \in ReqRec
  BY <1>4, <1>6, <1>7 DEF ReqRec
<1>9. /\ SetBody(c).form = form /\ SetBody(c).Body = Body /\ SetBody(c).get = get
      /\ SetBody(c).data = data /\ SetBody(c).attempt = 0
  BY <1>6
<1> QED BY <1>1, <1>3, <1>4, <1>8, <1>9

\* What becomes of a file's part and of its reader.
LEMMA FilePart ==
    ASSUME NEW c \in Calls, NEW a \in Nat, rdr \in RdrRec,
           NEW f, f = writeMultipartFormFile(c.file, a, rdr)
    PROVE  /\ f.part \in Tokens /\ f.left \in Tokens /\ f.rdr \in RdrRec
           /\ c.file = "seeker" /\ ~rdr.closed => ~f.rdr.closed
           /\ \/ c.file = "none" \/ c.file = "bytes"
              \/ a = 0 /\ rdr.left = FileData /\ ~rdr.closed
              \/ a > 0 /\ c.file = "path"
              \/ a > 0 /\ c.file = "seeker" /\ ~rdr.closed
              => f.part = IF c.file = "none" THEN <<>> ELSE <<"part">> \o FileData
<1>1. PICK fresh \in BOOLEAN : fresh = GetFileContent(c.file, a)
  BY DEF GetFileContent
<1>2. rdr.left \in Tokens /\ rdr.closed \in BOOLEAN
  BY DEF RdrRec
<1>3. FileData \in Tokens /\ <<"part">> \in Tokens /\ <<>> \in Tokens
  BY TokenSeqs
<1>4. PICK left \in Tokens : left = IF fresh \/ (a > 0 /\ Seekable(c.file)) THEN FileData ELSE rdr.left
  BY <1>2, <1>3
<1>5. PICK k \in BOOLEAN : k = Closable(c.file)
  <2>1. Closable(c.file) \in BOOLEAN
    <3>1. CASE c.file \in {"path", "closer"}
      <4>1. Closable(c.file) = TRUE
        BY <3>1, Zenon DEF Closable
      <4> QED BY <4>1
    <3>2. CASE ~(c.file \in {"path", "closer"})
      <4>1. Closable(c.file) = FALSE
        BY <3>2, SMT DEF Closable
      <4> QED BY <4>1
    <3> QED BY <3>1, <3>2
  <2> QED BY <2>1
<1>6. f = IF c.file = "none" THEN [part |-> <<>>, left |-> <<>>, rdr |-> rdr]
          ELSE IF ~fresh /\ rdr.closed THEN [part |-> <<>>, left |-> <<>>, rdr |-> rdr]
          ELSE [part |-> <<"part">> \o left, left |-> left, rdr |-> [left |-> <<>>, closed |-> k]]
  BY <1>1, <1>4, <1>5 DEF writeMultipartFormFile
<1>7. CASE c.file = "none"
  BY <1>3, <1>6, <1>7
<1>8. CASE c.file # "none" /\ ~fresh /\ rdr.closed
  <2>1. f = [part |-> <<>>, left |-> <<>>, rdr |-> rdr]
    BY <1>6, <1>8
  <2>2. ~(c.file = "bytes" \/ (c.file = "path" /\ a > 0))
    BY <1>1, <1>8 DEF GetFileContent
  <2> QED BY <1>3, <1>8, <2>1, <2>2
<1>9. CASE c.file # "none" /\ ~(~fresh /\ rdr.closed)
  <2>1. PICK q : q = <<"part">> \o left
    OBVIOUS
  <2>2. q \in Tokens
    BY <1>3, <2>1, ConcatProperties DEF Tokens
  <2>3. PICK z : z = [left |-> <<>>, closed |-> k]
    OBVIOUS
  <2>4. z \in RdrRec /\ z.closed = k
    BY <1>3, <2>3 DEF RdrRec
  <2>5. f = [part |-> q, left |-> left, rdr |-> z]
    BY <1>6, <1>9, <2>1, <2>3
  <2>6. f.part = q /\ f.left = left /\ f.rdr = z
    BY <2>5
  <2>7. c.file = "seeker" => ~k
    BY <1>5 DEF Closable
  <2>8. \/ c.file = "bytes" \/ (a = 0 /\ rdr.left = FileData) \/ (a > 0 /\ c.file \in {"path", "seeker"})
        => left = FileData
    BY <1>1, <1>4 DEF GetFileContent, Seekable
  <2> QED BY <1>9, <2>1, <2>2, <2>4, <2>6, <2>7, <2>8
<1> QED BY <1>7, <1>8, <1>9

\* The multipart body.
MultiParted(c, rr, f, all, b) ==
    /\ all \in Tokens /\ b.rdr = f.rdr
    /\ c.body = "chunked" =>
         b.r = [rr EXCEPT !.get = "pipe"] /\ b.pipe = [data |-> all, left |-> f.left, closed |-> FALSE]
    /\ c.body # "chunked" =>
         b.r = [rr EXCEPT !.Body = all, !.get = "bytes", !.data = all] /\ b.pipe = pipe

LEMMA MultiPart ==
    ASSUME NEW c \in Calls, NEW rr \in ReqRec, rdr \in RdrRec, pipe \in PipeRec,
           NEW b, b = handleMultiPart(c, rr),
           NEW f, f = writeMultipartFormFile(c.file, rr.attempt, rdr),
           NEW all, all = rr.form \o f.part \o <<"end">>
    PROVE  MultiParted(c, rr, f, all, b)
<1> USE DEF MultiParted
<1>1. rr.form \in Tokens /\ rr.attempt \in Nat
  BY DEF ReqRec
<1>2. f.part \in Tokens
  BY <1>1, FilePart
<1>3. <<"end">> \in Tokens
  BY TokenSeqs
<1>4. rr.form \o f.part \in Tokens
  BY <1>1, <1>2, ConcatProperties DEF Tokens
<1>5. all \in Tokens
  BY <1>3, <1>4, ConcatProperties DEF Tokens
<1>6. CASE c.body = "chunked"
  <2>1. b = [r |-> [rr EXCEPT !.get = "pipe"], rdr |-> f.rdr, pipe |-> [data |-> all, left |-> f.left, closed |-> FALSE]]
    BY <1>6, Zenon DEF handleMultiPart, writeMultiPart
  <2> QED BY <1>5, <1>6, <2>1
<1>7. CASE c.body # "chunked"
  <2>1. b = [r |-> SetBodyBytes(rr, all), rdr |-> f.rdr, pipe |-> pipe]
    BY <1>7, Zenon DEF handleMultiPart, writeMultiPart
  <2>2. b.r = SetBodyBytes(rr, all) /\ b.rdr = f.rdr /\ b.pipe = pipe
    BY <2>1
  <2> QED BY <1>5, <1>7, <2>2 DEF SetBodyBytes
<1> QED BY <1>6, <1>7

\* Whatever it makes of the body, parseRequestBody leaves the rest of the request as it
\* is, and what the next attempt needs.
LEMMA ParseKeeps ==
    ASSUME NEW c \in Calls, NEW rr \in ReqRec, rdr \in RdrRec, pipe \in PipeRec, Kept(c, rr),
           NEW b, b = parseRequestBody(c, rr)
    PROVE  /\ b.r \in ReqRec /\ b.rdr \in RdrRec /\ b.pipe \in PipeRec
           /\ b.r.attempt = rr.attempt /\ b.r.url = rr.url
           /\ Kept(c, b.r)
           /\ c.file = "seeker" /\ ~rdr.closed => ~b.rdr.closed
<1>1. PICK form : form = IF c.cform THEN rr.form \o <<"c">> ELSE rr.form
  OBVIOUS
<1>0. Parsed(c, rr, form, b)
  BY <1>1, ParseCases
<1>2. form \in Tokens
  BY <1>0 DEF Parsed
<1>3. /\ NoBody \in Tokens /\ Contents(c) \in Tokens /\ <<"o">> \in Tokens
      /\ SetBody(c).form = (IF c.body \in {"form", "multipart", "chunked"} THEN <<"q">> ELSE <<>>)
      /\ c.body \in BodyKinds /\ c.cform \in BOOLEAN
  BY TokenSeqs, ExchangeConstants
<1>4. CASE isPayloadForbid(c)
  <2>1. b = [r |-> [rr EXCEPT !.Body = NoBody, !.get = "nil"], rdr |-> rdr, pipe |-> pipe]
    BY <1>0, <1>4, Zenon DEF Parsed
  <2>2. b.r = [rr EXCEPT !.Body = NoBody, !.get = "nil"] /\ b.rdr = rdr /\ b.pipe = pipe
    BY <2>1
  <2>3. b.r \in ReqRec
    BY <1>3, <2>2 DEF ReqRec
  <2>4. /\ b.r.Body = NoBody /\ b.r.get = "nil" /\ b.r.form = rr.form
        /\ b.r.attempt = rr.attempt /\ b.r.url = rr.url
    BY <2>2 DEF ReqRec
  <2>5. Kept(c, b.r)
    BY <1>4, <2>4 DEF Kept
  <2> QED BY <2>2, <2>3, <2>4, <2>5
<1>5. CASE ~isPayloadForbid(c) /\ c.body \in {"multipart", "chunked"}
  <2>1. b = handleMultiPart(c, rr)
    BY <1>0, <1>5, Zenon DEF Parsed
  <2>2. PICK f : f = writeMultipartFormFile(c.file, rr.attempt, rdr)
    OBVIOUS
  <2>3. PICK all : all = rr.form \o f.part \o <<"end">>
    OBVIOUS
  <2>4. /\ all \in Tokens /\ b.rdr = f.rdr
        /\ c.body = "chunked" =>
             b.r = [rr EXCEPT !.get = "pipe"] /\ b.pipe = [data |-> all, left |-> f.left, closed |-> FALSE]
        /\ c.body # "chunked" =>
             b.r = [rr EXCEPT !.Body = all, !.get = "bytes", !.data = all] /\ b.pipe = pipe
    <3>1. MultiParted(c, rr, f, all, b)
      BY <2>1, <2>2, <2>3, MultiPart
    <3> QED BY <3>1, Zenon DEF MultiParted
  <2>5. rr.attempt \in Nat
    BY DEF ReqRec
  <2>6. f.left \in Tokens /\ f.rdr \in RdrRec /\ (c.file = "seeker" /\ ~rdr.closed => ~f.rdr.closed)
    BY <2>2, <2>5, FilePart
  <2>7. CASE c.body = "chunked"
    <3>1. b.r \in ReqRec
      BY <2>4, <2>7 DEF ReqRec
    <3>2. b.pipe \in PipeRec
      <4>1. b.pipe = [data |-> all, left |-> f.left, closed |-> FALSE] /\ all \in Tokens /\ f.left \in Tokens
        BY <2>4, <2>6, <2>7
      <4> QED BY <4>1 DEF PipeRec
    <3>3. b.r.form = rr.form /\ b.r.Body = rr.Body /\ b.r.attempt = rr.attempt /\ b.r.url = rr.url
      BY <2>4, <2>7 DEF ReqRec
    <3>4. Kept(c, b.r)
      BY <2>7, <3>3 DEF Kept
    <3> QED BY <2>4, <2>6, <3>1, <3>2, <3>3, <3>4
  <2>8. CASE c.body # "chunked"
    <3>1. b.r \in ReqRec
      BY <2>4, <2>8 DEF ReqRec
    <3>2. b.r.form = rr.form /\ b.r.attempt = rr.attempt /\ b.r.url = rr.url
      BY <2>4, <2>8 DEF ReqRec
    <3>3. Kept(c, b.r)
      BY <1>5, <2>8, <3>2 DEF Kept
    <3> QED BY <2>4, <2>6, <2>8, <3>1, <3>2, <3>3
  <2> QED BY <2>7, <2>8
<1>6. CASE ~isPayloadForbid(c) /\ c.body \notin {"multipart", "chunked"}
  <2>1. /\ b.rdr = rdr /\ b.pipe = pipe
        /\ form # <<>> => b.r = [rr EXCEPT !.form = form, !.Body = form, !.get = "bytes", !.data = form]
        /\ form = <<>> /\ c.body = "ordered" =>
             b.r = [rr EXCEPT !.form = form, !.Body = <<"o">>, !.get = "bytes", !.data = <<"o">>]
        /\ form = <<>> /\ c.body = "odd" => b.r = [rr EXCEPT !.form = form, !.error = TRUE]
        /\ form = <<>> /\ c.body = "marshal" =>
             b.r = [rr EXCEPT !.form = form, !.Body = Contents(c), !.get = "bytes", !.data = Contents(c)]
        /\ form = <<>> /\ c.body \notin {"ordered", "odd", "marshal"} => b.r = [rr EXCEPT !.form = form]
    BY <1>0, <1>6, Zenon DEF Parsed
  <2>2. Replayable(c) => ~c.cform /\ form = SetBody(c).form
    BY <1>1, <1>3, <1>6 DEF Replayable, Kept
  <2>3. <<"q">> # <<>>
    OBVIOUS
  <2>4. CASE form # <<>>
    <3>1. b.r \in ReqRec
      BY <1>2, <2>1, <2>4 DEF ReqRec
    <3>2. b.r.form = form /\ b.r.attempt = rr.attempt /\ b.r.url = rr.url
      BY <2>1, <2>4 DEF ReqRec
    <3>3. Replayable(c) => c.body = "form"
      BY <1>3, <1>6, <2>2, <2>4
    <3>4. Kept(c, b.r)
      BY <1>6, <2>2, <3>2, <3>3 DEF Kept
    <3> QED BY <2>1, <3>1, <3>2, <3>4
  <2>5. CASE form = <<>> /\ c.body \in {"ordered", "marshal"}
    <3>1. PICK z \in Tokens : b.r = [rr EXCEPT !.form = form, !.Body = z, !.get = "bytes", !.data = z]
      BY <1>3, <2>1, <2>5
    <3>2. b.r \in ReqRec
      BY <1>2, <3>1 DEF ReqRec
    <3>3. b.r.form = form /\ b.r.attempt = rr.attempt /\ b.r.url = rr.url
      BY <3>1 DEF ReqRec
    <3>4. Kept(c, b.r)
      BY <2>2, <2>5, <3>3 DEF Kept
    <3> QED BY <2>1, <3>2, <3>3, <3>4
  <2>6. CASE form = <<>> /\ c.body \notin {"ordered", "marshal"}
    <3>1. b.r = [rr EXCEPT !.form = form] \/ b.r = [rr EXCEPT !.form = form, !.error = TRUE]
      BY <2>1, <2>6
    <3>2. b.r \in ReqRec
      BY <1>2, <3>1 DEF ReqRec
    <3>3. /\ b.r.form = form /\ b.r.attempt = rr.attempt /\ b.r.url = rr.url
          /\ b.r.Body = rr.Body /\ b.r.get = rr.get /\ b.r.data = rr.data
      BY <3>1 DEF ReqRec
    <3>4. Kept(c, b.r)
      BY <2>2, <3>3 DEF Kept
    <3> QED BY <2>1, <3>2, <3>3, <3>4
  <2> QED BY <2>4, <2>5, <2>6
<1> QED BY <1>4, <1>5, <1>6

\* The body the caller asked for, by its kind.
LEMMA WantedIs ==
    ASSUME setup \in Calls,
           NEW form, form = IF setup.cform THEN SetBody(setup).form \o <<"c">> ELSE SetBody(setup).form
    PROVE  /\ isPayloadForbid(setup) => Wanted = <<>>
           /\ ~isPayloadForbid(setup) /\ setup.body \in {"multipart", "chunked"} =>
                Wanted = <<"q">> \o (IF setup.file = "none" THEN <<>> ELSE <<"part">> \o FileData) \o <<"end">>
           /\ ~isPayloadForbid(setup) /\ setup.body \notin {"multipart", "chunked"} =>
                Wanted = IF form # <<>> THEN form ELSE IF setup.body = "ordered" THEN <<"o">> ELSE Contents(setup)
<1>1. setup.cform \in BOOLEAN
  BY ExchangeConstants
<1>2. SetBody(setup).form \in Tokens
  <2>1. SetBody(setup) \in ReqRec
    BY TokenSeqs
  <2> QED BY <2>1 DEF ReqRec
<1>3. SetBody(setup).form \o <<>> = SetBody(setup).form
  BY <1>2, ConcatEmptySeq DEF Tokens
<1>4. form = SetBody(setup).form \o (IF setup.cform THEN <<"c">> ELSE <<>>)
  BY <1>1, <1>3
<1>5. CASE isPayloadForbid(setup)
  BY <1>5, Zenon DEF Wanted
<1>6. CASE ~isPayloadForbid(setup) /\ setup.body \in {"multipart", "chunked"}
  BY <1>6, Zenon DEF Wanted
<1>7. CASE ~isPayloadForbid(setup) /\ setup.body \notin {"multipart", "chunked"}
  BY <1>4, <1>7, Zenon DEF Wanted
<1> QED BY <1>5, <1>6, <1>7

\* The body in what parseRequestBody returns, and that it can be read to its end.
BodyIn(b) == IF b.r.get = "bytes" THEN b.r.data ELSE IF b.r.get = "src" THEN b.rdr.left
             ELSE IF b.r.get = "pipe" THEN b.pipe.data ELSE <<>>
MadeWhole(b) ==
    /\ BodyIn(b) = Wanted
    /\ b.r.Body \in {NoBody, Wanted}
    /\ ~(b.r.get = "src" /\ b.rdr.closed) /\ ~(b.r.get = "pipe" /\ b.pipe.closed)
    /\ b.r.get = "nil" => Wanted = <<>>
    /\ Replayable(setup) /\ setup.body # "chunked" => b.r.get \in {"nil", "bytes"}

\* The reader of the body or of the file is where this attempt needs it.
Readable(attempt) ==
    \/ attempt = 0 /\ rdr.left = (IF unReplayableBody(setup) THEN Contents(setup) ELSE FileData) /\ ~rdr.closed
    \/ /\ WholeAgain(setup, attempt)
       /\ setup.file = "seeker" /\ setup.body \in {"multipart", "chunked"} => ~rdr.closed

\* The first attempt makes the whole body, and so does every other that can.
LEMMA ParseWhole ==
    ASSUME setup \in Calls, NEW rr \in ReqRec, rdr \in RdrRec, pipe \in PipeRec, Kept(setup, rr),
           Readable(rr.attempt),
           ~Replayable(setup) => rr.form = SetBody(setup).form /\ rr.get = SetBody(setup).get
                                 /\ rr.data = SetBody(setup).data /\ rr.Body = SetBody(setup).Body,
           NEW b, b = parseRequestBody(setup, rr)
    PROVE  MadeWhole(b)
<1>1. PICK form : form = IF setup.cform THEN rr.form \o <<"c">> ELSE rr.form
  OBVIOUS
<1>0. Parsed(setup, rr, form, b)
  BY <1>1, ParseCases
<1>2. form \in Tokens
  BY <1>0 DEF Parsed
<1>3. /\ NoBody \in Tokens /\ Contents(setup) \in Tokens /\ <<"o">> \in Tokens
      /\ SetBody(setup).form = (IF setup.body \in {"form", "multipart", "chunked"} THEN <<"q">> ELSE <<>>)
      /\ setup.body \in BodyKinds /\ setup.cform \in BOOLEAN
      /\ SetBody(setup).Body = (IF setup.body = "bytes" THEN Contents(setup) ELSE NoBody)
      /\ SetBody(setup).get = (IF setup.body \in {"bytes", "func"} THEN "bytes"
                               ELSE IF setup.body \in {"reader", "closer"} THEN "src" ELSE "nil")
      /\ SetBody(setup).data = (IF setup.body \in {"bytes", "func"} THEN Contents(setup) ELSE <<>>)
  BY TokenSeqs, ExchangeConstants
<1>4. rr.form = SetBody(setup).form /\ rr.attempt \in Nat
  BY DEF Kept, ReqRec
<1>5. CASE isPayloadForbid(setup)
  <2>1. b = [r |-> [rr EXCEPT !.Body = NoBody, !.get = "nil"], rdr |-> rdr, pipe |-> pipe]
    BY <1>0, <1>5, Zenon DEF Parsed
  <2>2. b.r = [rr EXCEPT !.Body = NoBody, !.get = "nil"]
    BY <2>1
  <2>3. b.r.Body = NoBody /\ b.r.get = "nil"
    BY <2>2 DEF ReqRec
  <2>4. Wanted = <<>>
    BY <1>5, WantedIs
  <2> QED BY <2>3, <2>4 DEF MadeWhole, BodyIn
<1>6. CASE ~isPayloadForbid(setup) /\ setup.body \in {"multipart", "chunked"}
  <2>1. b = handleMultiPart(setup, rr)
    BY <1>0, <1>6, Zenon DEF Parsed
  <2>2. PICK f : f = writeMultipartFormFile(setup.file, rr.attempt, rdr)
    OBVIOUS
  <2>3. PICK all : all = rr.form \o f.part \o <<"end">>
    OBVIOUS
  <2>4. MultiParted(setup, rr, f, all, b)
    BY <2>1, <2>2, <2>3, MultiPart
  <2>5. f.part = IF setup.file = "none" THEN <<>> ELSE <<"part">> \o FileData
    <3>1. setup.file \in FileKinds /\ ~unReplayableBody(setup)
      BY <1>6, ExchangeConstants DEF unReplayableBody
    <3>2. CASE rr.attempt = 0 /\ rdr.left = FileData /\ ~rdr.closed
      BY <1>4, <2>2, <3>2, FilePart
    <3>3. CASE WholeAgain(setup, rr.attempt) /\ (setup.file = "seeker" => ~rdr.closed)
      <4>1. \/ setup.file = "none" \/ setup.file = "bytes"
            \/ rr.attempt > 0 /\ setup.file = "path"
            \/ rr.attempt > 0 /\ setup.file = "seeker" /\ ~rdr.closed
        BY <3>1, <3>3 DEF WholeAgain, FileKinds
      <4> QED BY <1>4, <2>2, <4>1, FilePart
    <3> QED BY <1>6, <3>1, <3>2, <3>3 DEF Readable
  <2>6. all = Wanted
    <3>1. Wanted = <<"q">> \o (IF setup.file = "none" THEN <<>> ELSE <<"part">> \o FileData) \o <<"end">>
      BY <1>6, WantedIs
    <3>2. rr.form = <<"q">>
      BY <1>3, <1>4, <1>6
    <3> QED BY <2>3, <2>5, <3>1, <3>2, Zenon
  <2>7. CASE setup.body = "chunked"
    <3>1. b.r = [rr EXCEPT !.get = "pipe"] /\ b.pipe = [data |-> all, left |-> f.left, closed |-> FALSE]
      BY <2>4, <2>7, Zenon DEF MultiParted
    <3>2. b.r.get = "pipe" /\ b.r.Body = rr.Body /\ b.pipe.data = all /\ b.pipe.closed = FALSE
      BY <3>1 DEF ReqRec
    <3> QED BY <2>6, <2>7, <3>2 DEF MadeWhole, BodyIn, Kept
  <2>8. CASE setup.body # "chunked"
    <3>1. b.r = [rr EXCEPT !.Body = all, !.get = "bytes", !.data = all]
      BY <2>4, <2>8, Zenon DEF MultiParted
    <3>2. b.r.get = "bytes" /\ b.r.Body = all /\ b.r.data = all
      BY <3>1 DEF ReqRec
    <3> QED BY <2>6, <3>2 DEF MadeWhole, BodyIn
  <2> QED BY <2>7, <2>8
<1>7. CASE ~isPayloadForbid(setup) /\ setup.body \notin {"multipart", "chunked"}
  <2>1. /\ b.rdr = rdr /\ b.pipe = pipe
        /\ form # <<>> => b.r = [rr EXCEPT !.form = form, !.Body = form, !.get = "bytes", !.data = form]
        /\ form = <<>> /\ setup.body = "ordered" =>
             b.r = [rr EXCEPT !.form = form, !.Body = <<"o">>, !.get = "bytes", !.data = <<"o">>]
        /\ form = <<>> /\ setup.body = "odd" => b.r = [rr EXCEPT !.form = form, !.error = TRUE]
        /\ form = <<>> /\ setup.body = "marshal" =>
             b.r = [rr EXCEPT !.form = form, !.Body = Contents(setup), !.get = "bytes", !.data = Contents(setup)]
        /\ form = <<>> /\ setup.body \notin {"ordered", "odd", "marshal"} => b.r = [rr EXCEPT !.form = form]
    BY <1>0, <1>7, Zenon DEF Parsed
  <2>2. Wanted = IF form # <<>> THEN form ELSE IF setup.body = "ordered" THEN <<"o">> ELSE Contents(setup)
    BY <1>1, <1>4, <1>7, WantedIs
  <2>3. CASE form # <<>>
    <3>1. b.r.get = "bytes" /\ b.r.Body = form /\ b.r.data = form
      BY <2>1, <2>3 DEF ReqRec
    <3> QED BY <2>2, <2>3, <3>1 DEF MadeWhole, BodyIn
  <2>4. CASE form = <<>> /\ setup.body = "ordered"
    <3>1. b.r.get = "bytes" /\ b.r.Body = <<"o">> /\ b.r.data = <<"o">>
      BY <2>1, <2>4 DEF ReqRec
    <3> QED BY <2>2, <2>4, <3>1 DEF MadeWhole, BodyIn
  <2>5. CASE form = <<>> /\ setup.body = "marshal"
    <3>1. b.r.get = "bytes" /\ b.r.Body = Contents(setup) /\ b.r.data = Contents(setup)
      BY <2>1, <2>5 DEF ReqRec
    <3> QED BY <2>2, <2>5, <3>1 DEF MadeWhole, BodyIn
  <2>6. CASE form = <<>> /\ setup.body \notin {"ordered", "marshal"}
    <3>1. b.r = [rr EXCEPT !.form = form] \/ b.r = [rr EXCEPT !.form = form, !.error = TRUE]
      BY <2>1, <2>6
    <3>2. b.r.Body = rr.Body /\ b.r.get = rr.get /\ b.r.data = rr.data
      BY <3>1 DEF ReqRec
    <3>3. Wanted = Contents(setup)
      BY <2>2, <2>6
    <3>4. ~setup.cform
      BY <1>1, <1>2, <2>6, <1>3, <1>4
    <3>5. setup.body \in {"none", "bytes", "func", "reader", "closer", "odd", "unset"}
      BY <1>1, <1>3, <1>4, <1>7, <2>6, <3>4 DEF BodyKinds
    <3>6. CASE setup.body \in {"bytes", "func"}
      <4>1. Replayable(setup)
        BY <3>4, <3>6 DEF Replayable, unReplayableBody
      <4>2. rr.get = "bytes" /\ rr.data = Contents(setup) /\ rr.Body \in {NoBody, Contents(setup)}
        BY <1>7, <3>6, <4>1 DEF Kept
      <4> QED BY <3>2, <3>3, <4>2 DEF MadeWhole, BodyIn
    <3>7. CASE setup.body \in {"none", "odd", "unset"}
      <4>1. Replayable(setup) /\ Contents(setup) = <<>>
        BY <3>4, <3>7 DEF Replayable, unReplayableBody, Contents
      <4>2. rr.get = "nil" /\ rr.Body = NoBody
        BY <3>7, <4>1 DEF Kept
      <4> QED BY <3>2, <3>3, <4>1, <4>2 DEF MadeWhole, BodyIn
    <3>8. CASE setup.body \in {"reader", "closer"}
      <4>1. ~Replayable(setup) /\ unReplayableBody(setup)
        BY <3>8 DEF Replayable, unReplayableBody
      <4>2. rr.get = "src" /\ rr.Body = NoBody
        BY <1>3, <3>8, <4>1
      <4>3. rdr.left = Contents(setup) /\ ~rdr.closed
        BY <4>1 DEF Readable, WholeAgain
      <4> QED BY <2>1, <3>2, <3>3, <4>1, <4>2, <4>3 DEF MadeWhole, BodyIn
    <3> QED BY <3>5, <3>6, <3>7, <3>8
  <2> QED BY <2>3, <2>4, <2>5, <2>6
<1> QED BY <1>5, <1>6, <1>7

-----------------------------------------------------------------------------
(* Steps that send nothing and make no body.                               *)

LEMMA SameSetup ==
    ASSUME setup' = setup
    PROVE  Wanted' = Wanted /\ (AutoRead <=> AutoRead')
BY DEF Wanted, AutoRead

\* A step that only does something with the response leaves bodies and requests alone.
LEMMA Quiet ==
    ASSUME ExInv, UNCHANGED <<setup, r, rdr, pipe, fly, raw, sent>>,
           at' \in {"received", "clientDigest", "roundTripDone", "requestDigest", "hook", "decide", "done"},
           Underway' => Underway
    PROVE  BodyInv' /\ FlightInv' /\ SentInv'
<1>1. Wanted' = Wanted
  BY SameSetup
<1>2. BodyInv'
  <2>1. at' \notin {"start", "before", "send", "answer"}
    OBVIOUS
  <2>2. Kept(setup', r')
    BY DEF ExInv, BodyInv
  <2> QED BY <1>1, <2>1, <2>2 DEF ExInv, BodyInv
<1>3. FlightInv'
  <2>1. at' \notin {"start", "before", "send", "answer"}
    OBVIOUS
  <2> QED BY <2>1 DEF ExInv, FlightInv
<1>4. SentInv'
  BY <1>1 DEF ExInv, SentInv
<1> QED BY <1>2, <1>3, <1>4

\* The types a step leaves alone.
LEMMA QuietTypes ==
    ASSUME ExInv, UNCHANGED <<setup, r, rdr, pipe, fly, raw, sent>>, resp' \in RespRec, canceled' \in BOOLEAN,
           at' \in {"before", "received", "clientDigest", "roundTripDone", "requestDigest", "hook", "decide", "done"}
    PROVE  ExTypeOK'
BY DEF ExInv, ExTypeOK

LEMMA AnswerSame ==
    ASSUME sent' = sent
    PROVE  Answer' = Answer
BY DEF Answer

LEMMA DoStep ==
    ASSUME ExInv, Do
    PROVE  ExInv'
<1>1. /\ UNCHANGED <<setup, r, rdr, pipe, fly, raw, resp, canceled, sent, output>>
      /\ at = "start" /\ (at' = "before" \/ (at' = "done" /\ err' = "setup"))
  BY DEF Do, Return
<1>2. ExTypeOK'
  BY <1>1 DEF ExInv, ExTypeOK
<1>3. Wanted' = Wanted /\ Answer' = Answer
  BY <1>1, SameSetup, AnswerSame
<1>4. BodyInv'
  <2>1. Kept(setup', r')
    BY <1>1 DEF ExInv, BodyInv
  <2>2. ~Underway' /\ at' \notin {"send", "answer"}
    BY <1>1 DEF Underway
  <2>3. at' = "before" /\ r'.attempt = 0 => Untouched'
    BY <1>1 DEF ExInv, BodyInv, Untouched
  <2> QED BY <1>1, <2>1, <2>2, <2>3 DEF ExInv, BodyInv
<1>5. FlightInv'
  BY <1>1 DEF ExInv, FlightInv, Underway
<1>6. SentInv'
  BY <1>1, <1>3 DEF ExInv, SentInv
<1>7. CancelInv'
  BY <1>1, <1>3 DEF ExInv, CancelInv
<1>8. OutputInv'
  BY <1>1 DEF ExInv, OutputInv
<1> QED BY <1>2, <1>4, <1>5, <1>6, <1>7, <1>8 DEF ExInv

LEMMA BeforeFailsStep ==
    ASSUME ExInv, BeforeFails
    PROVE  ExInv'
<1>1. /\ UNCHANGED <<setup, r, rdr, pipe, fly, raw, resp, canceled, sent, output>>
      /\ at = "before" /\ at' = "done" /\ err' = "before"
  BY DEF BeforeFails, Return
<1>2. ExTypeOK'
  BY <1>1 DEF ExInv, ExTypeOK
<1>3. BodyInv' /\ FlightInv' /\ SentInv'
  BY <1>1, Quiet DEF Underway
<1>4. CancelInv'
  BY <1>1, AnswerSame DEF ExInv, CancelInv
<1>5. OutputInv'
  BY <1>1 DEF ExInv, OutputInv
<1> QED BY <1>2, <1>3, <1>4, <1>5 DEF ExInv

LEMMA DoReturnsStep ==
    ASSUME ExInv, NEW h \in Hosts, DoReturns(h)
    PROVE  ExInv'
<1>1. /\ UNCHANGED <<setup, r, rdr, pipe, fly, raw, err, canceled, sent, output>>
      /\ at = "answer" /\ at' = "received" /\ fly.why # "digest"
  BY DEF DoReturns
<1>2. resp = NoResponse /\ sent # <<>> /\ sent \in Seq(SentRec)
  BY <1>1 DEF ExInv, ExTypeOK, FlightInv
<1>3. Len(sent) \in Nat /\ Len(sent) > 0 /\ sent[Len(sent)] \in SentRec
  BY <1>2
<1>4. Answer \in AnswerSet /\ Answer # "nil"
  BY <1>3, ExchangeConstants DEF Answer, SentRec, AnswerSet
<1>5. PICK n \in Nat : n = Len(sent)
  BY <1>3
<1>6. \/ Answer \in Errors /\ resp' = [status |-> "nil", err |-> Answer, cached |-> 0, n |-> n]
      \/ Answer \notin Errors /\ \E e \in {"policy", "none"} : resp' = [status |-> Answer, err |-> e, cached |-> 0, n |-> n]
  <2>1. PICK v : v = CheckRedirect(h, Append(fly.via, fly.host))
    OBVIOUS
  <2>2. \/ Answer \in Errors /\ resp' = [resp EXCEPT !.err = Answer, !.n = n]
        \/ Answer \in {"302", "307"} /\ resp' = [resp EXCEPT !.status = Answer, !.err = IF v = "stop" THEN "policy" ELSE "none", !.n = n]
        \/ Answer \notin Errors \union {"302", "307"} /\ resp' = [resp EXCEPT !.status = Answer, !.n = n]
    BY <1>5, <2>1 DEF DoReturns
  <2>3. CASE Answer \in Errors /\ resp' = [resp EXCEPT !.err = Answer, !.n = n]
    BY <1>2, <2>3 DEF NoResponse
  <2>4. CASE Answer \in {"302", "307"} /\ resp' = [resp EXCEPT !.status = Answer, !.err = IF v = "stop" THEN "policy" ELSE "none", !.n = n]
    <3>1. PICK e \in {"policy", "none"} : e = IF v = "stop" THEN "policy" ELSE "none"
      OBVIOUS
    <3>2. resp' = [status |-> Answer, err |-> e, cached |-> 0, n |-> n]
      BY <1>2, <2>4, <3>1 DEF NoResponse
    <3> QED BY <2>4, <3>2 DEF Errors
  <2>5. CASE Answer \notin Errors \union {"302", "307"} /\ resp' = [resp EXCEPT !.status = Answer, !.n = n]
    <3>1. resp' = [status |-> Answer, err |-> "none", cached |-> 0, n |-> n]
      BY <1>2, <2>5 DEF NoResponse
    <3> QED BY <2>5, <3>1
  <2> QED BY <2>2, <2>3, <2>4, <2>5
<1>7. /\ resp' \in RespRec /\ resp'.n = n /\ resp'.cached = 0
      /\ Answer \in Errors => resp'.status = "nil" /\ resp'.err = Answer
      /\ Answer \notin Errors => resp'.status = Answer
  BY <1>4, <1>6 DEF RespRec, Errors, AnswerSet
<1>8. ExTypeOK'
  <2>1. canceled' \in BOOLEAN
    BY <1>1 DEF ExInv, ExTypeOK
  <2> QED BY <1>1, <1>7, <2>1, QuietTypes
<1>9. BodyInv' /\ FlightInv' /\ SentInv'
  BY <1>1, Quiet DEF Underway
<1>10. CancelInv'
  BY <1>1, <1>7, AnswerSame DEF CancelInv, Errors
<1>11. OutputInv'
  <2>1. resp'.err = "none" => resp'.status # "nil"
    BY <1>4, <1>7 DEF Errors
  <2> QED BY <1>1, <1>5, <1>7, <2>1 DEF OutputInv
<1> QED BY <1>8, <1>9, <1>10, <1>11 DEF ExInv

\* What reading, unmarshalling and saving make of a response.
LEMMA ReadBody ==
    ASSUME NEW p \in RespRec, NEW ok \in BOOLEAN, NEW q, q = ToBytes(p, ok)
    PROVE  /\ q \in RespRec /\ q.status = p.status /\ q.n = p.n
           /\ p.err # "none" => q = p
           /\ p.status = "nil" => q = p
           /\ q.err = "none" /\ p.status # "nil" /\ p.cached = 0 => q.cached = p.n
           /\ q.err = "none" => p.err = "none"
           /\ p.cached # 0 => q = p
<1>1. CASE p.err # "none" \/ p.cached # 0 \/ p.status = "nil"
  <2>1. q = p
    BY <1>1 DEF ToBytes
  <2> QED BY <1>1, <2>1
<1>2. CASE ~(p.err # "none" \/ p.cached # 0 \/ p.status = "nil") /\ ok
  <2>1. q = [p EXCEPT !.cached = p.n]
    BY <1>2 DEF ToBytes
  <2> QED BY <1>2, <2>1 DEF RespRec
<1>3. CASE ~(p.err # "none" \/ p.cached # 0 \/ p.status = "nil") /\ ~ok
  <2>1. q = [p EXCEPT !.err = "read", !.cached = p.n]
    BY <1>3 DEF ToBytes
  <2> QED BY <1>3, <2>1 DEF RespRec
<1> QED BY <1>1, <1>2, <1>3

LEMMA ParseBody ==
    ASSUME NEW p \in RespRec, NEW ok \in BOOLEAN, NEW u \in BOOLEAN, NEW q, q = parseResponseBody(p, ok, u)
    PROVE  /\ q \in RespRec /\ q.status = p.status /\ q.n = p.n
           /\ p.err # "none" /\ p.status = "nil" => q = p
           /\ q.err = "none" => p.err = "none" /\ (p.cached = p.n => q.cached = p.n)
<1>1. CASE p.status # "200" \/ ~setup.result
  BY <1>1 DEF parseResponseBody
<1>2. CASE ~(p.status # "200" \/ ~setup.result)
  <2>1. PICK t : t = ToBytes(p, ok)
    OBVIOUS
  <2>2. /\ t \in RespRec /\ t.status = p.status /\ t.n = p.n
        /\ t.err = "none" => p.err = "none"
        /\ t.err = "none" /\ p.status # "nil" /\ p.cached = 0 => t.cached = p.n
        /\ p.cached # 0 => t = p
    BY <2>1, ReadBody
  <2>3. q = IF t.err = "none" /\ ~u THEN [t EXCEPT !.err = "unmarshal"] ELSE t
    BY <1>2, <2>1 DEF parseResponseBody
  <2>4. CASE t.err = "none" /\ ~u
    <3>1. q = [t EXCEPT !.err = "unmarshal"]
      BY <2>3, <2>4
    <3> QED BY <1>2, <2>2, <3>1 DEF RespRec
  <2>5. CASE ~(t.err = "none" /\ ~u)
    <3>1. q = t
      BY <2>3, <2>5
    <3> QED BY <1>2, <2>2, <3>1
  <2> QED BY <2>4, <2>5
<1> QED BY <1>1, <1>2

LEMMA SaveBody ==
    ASSUME NEW p \in RespRec, NEW ok \in BOOLEAN, NEW d, d = handleDownload(p, ok)
    PROVE  /\ d.p \in RespRec /\ d.p.status = p.status /\ d.p.cached = p.cached
           /\ p.status = "nil" => d.p = p
           /\ d.p.err = "none" => p.err = "none"
           /\ d.p.err = "none" /\ p.status # "nil" /\ setup.save = "file" => d.out.of = <<p.n>>
<1>1. PICK bad : bad = (~ok \/ p.err = "policy" \/ (setup.save = "closer" /\ output.closed))
  OBVIOUS
<1>2. PICK c : c = (setup.save \in {"file", "closer"})
  OBVIOUS
<1>3. CASE p.status = "nil" \/ setup.save = "no"
  <2>1. d = [p |-> p, out |-> output]
    BY <1>3, Zenon DEF handleDownload
  <2> QED BY <1>3, <2>1
<1>4. CASE ~(p.status = "nil" \/ setup.save = "no")
  <2>1. PICK pp : pp = IF bad THEN [p EXCEPT !.err = "save"] ELSE p
    OBVIOUS
  <2>2. PICK of : of = IF setup.save = "closer" /\ output.closed THEN output.of
                       ELSE (IF setup.save = "file" THEN <<>> ELSE output.of) \o (IF bad THEN <<0>> ELSE <<p.n>>)
    OBVIOUS
  <2>3. d = [p |-> pp, out |-> [of |-> of, closed |-> c]]
    BY <1>1, <1>2, <1>4, <2>1, <2>2, Zenon DEF handleDownload
  <2>4. d.p = pp /\ d.out.of = of
    BY <2>3
  <2>5. pp \in RespRec /\ pp.status = p.status /\ pp.cached = p.cached /\ (pp.err = "none" => p = pp /\ ~bad)
    BY <2>1 DEF RespRec
  <2>6. p.n \in Nat
    BY DEF RespRec
  <2>7. setup.save = "file" /\ ~bad => of = <<p.n>>
    <3>1. <<p.n>> \in Seq(Nat)
      BY <2>6
    <3>2. <<>> \o <<p.n>> = <<p.n>>
      BY <3>1, ConcatEmptySeq
    <3> QED BY <2>2, <3>2
  <2> QED BY <1>4, <2>4, <2>5, <2>7
<1> QED BY <1>3, <1>4

LEMMA ReceivedStep ==
    ASSUME ExInv, NEW ok \in BOOLEAN, NEW u \in BOOLEAN, Received(ok, u)
    PROVE  ExInv'
<1>1. /\ UNCHANGED <<setup, r, rdr, pipe, fly, raw, err, canceled, sent>>
      /\ at = "received" /\ at' = "clientDigest"
  BY DEF Received
<1>2. resp \in RespRec
  BY DEF ExInv, ExTypeOK
<1>3. PICK p1 : p1 = IF AutoRead THEN ToBytes(resp, ok) ELSE resp
  OBVIOUS
<1>4. PICK p2 : p2 = parseResponseBody(p1, ok, u)
  OBVIOUS
<1>5. PICK d : d = handleDownload(p2, ok)
  OBVIOUS
<1>6. resp' = d.p /\ output' = d.out
  BY <1>3, <1>4, <1>5 DEF Received
<1>7. /\ p1 \in RespRec /\ p1.status = resp.status /\ p1.n = resp.n
      /\ resp.status = "nil" => p1 = resp
      /\ p1.err = "none" => resp.err = "none"
      /\ p1.err = "none" /\ resp.status # "nil" /\ resp.cached = 0 /\ AutoRead => p1.cached = resp.n
  <2>1. CASE AutoRead
    <3>1. p1 = ToBytes(resp, ok)
      BY <1>3, <2>1
    <3> QED BY <1>2, <3>1, ReadBody
  <2>2. CASE ~AutoRead
    BY <1>2, <1>3, <2>2
  <2> QED BY <2>1, <2>2
<1>8. /\ p2 \in RespRec /\ p2.status = p1.status /\ p2.n = p1.n
      /\ p1.err # "none" /\ p1.status = "nil" => p2 = p1
      /\ p2.err = "none" => p1.err = "none" /\ (p1.cached = p1.n => p2.cached = p1.n)
  BY <1>4, <1>7, ParseBody
<1>9. /\ d.p \in RespRec /\ d.p.status = p2.status /\ d.p.cached = p2.cached
      /\ p2.status = "nil" => d.p = p2
      /\ d.p.err = "none" => p2.err = "none"
      /\ d.p.err = "none" /\ p2.status # "nil" /\ setup.save = "file" => d.out.of = <<p2.n>>
  BY <1>5, <1>8, SaveBody
<1>10. ExTypeOK'
  <2>1. canceled' \in BOOLEAN
    BY <1>1 DEF ExInv, ExTypeOK
  <2> QED BY <1>1, <1>6, <1>9, <2>1, QuietTypes
<1>11. BodyInv' /\ FlightInv' /\ SentInv'
  BY <1>1, Quiet DEF Underway
<1>12. CancelInv'
  <2>1. sent # <<>> /\ Answer = "canceled" => resp'.status = "nil" /\ resp'.err = "canceled"
    <3>1. HAVE sent # <<>> /\ Answer = "canceled"
    <3>2. resp.status = "nil" /\ resp.err = "canceled"
      BY <1>1, <3>1 DEF ExInv, CancelInv
    <3>3. p1 = resp /\ p2 = p1
      BY <1>7, <1>8, <3>2
    <3> QED BY <1>6, <1>9, <3>2, <3>3
  <2> QED BY <1>1, <2>1, AnswerSame DEF CancelInv
<1>13. OutputInv'
  <2>1. SUFFICES ASSUME setup.digest = "no", resp'.err = "none"  PROVE Final'
    BY <1>1 DEF OutputInv
  <2>2. resp.n = Len(sent) /\ resp.cached = 0 /\ (resp.err = "none" => resp.status # "nil")
    BY <1>1, <2>1 DEF ExInv, OutputInv
  <2>3. p2.err = "none" /\ p1.err = "none" /\ resp.err = "none" /\ resp.status # "nil"
    BY <1>6, <1>7, <1>8, <1>9, <2>1, <2>2
  <2>4. setup.save = "file" => d.out.of = <<Len(sent)>>
    BY <1>6, <1>7, <1>8, <1>9, <2>1, <2>2, <2>3
  <2>5. AutoRead => d.p.cached = Len(sent)
    BY <1>7, <1>8, <1>9, <2>2, <2>3
  <2> QED BY <1>1, <1>6, <2>4, <2>5, SameSetup DEF Final
<1> QED BY <1>10, <1>11, <1>12, <1>13 DEF ExInv

-----------------------------------------------------------------------------
(* The end of an attempt.                                                  *)

LEMMA BadChallengeStep ==
    ASSUME ExInv, BadChallenge
    PROVE  ExInv'
<1>1. UNCHANGED <<setup, r, rdr, pipe, fly, raw, canceled, sent, output>> /\ Challenged
  BY DEF BadChallenge
<1>2. \/ /\ at = "clientDigest" /\ setup.digest = "client"
         /\ resp' = [resp EXCEPT !.err = "challenge"] /\ at' = "roundTripDone"
      \/ /\ at = "requestDigest" /\ setup.digest = "request" /\ at' = "done" /\ resp' = resp
  BY DEF BadChallenge, Return
<1>3. resp' \in RespRec
  BY <1>2 DEF ExInv, ExTypeOK, RespRec
<1>4. ExTypeOK'
  <2>1. canceled' \in BOOLEAN /\ at' \in {"roundTripDone", "done"}
    BY <1>1, <1>2 DEF ExInv, ExTypeOK
  <2> QED BY <1>1, <1>3, <2>1, QuietTypes
<1>5. BodyInv' /\ FlightInv' /\ SentInv'
  <2>1. at' \in {"roundTripDone", "done"} /\ (Underway' => Underway)
    BY <1>2 DEF Underway
  <2> QED BY <1>1, <2>1, Quiet
<1>6. CancelInv'
  <2>1. ~(sent # <<>> /\ Answer = "canceled")
    BY <1>1, <1>2 DEF ExInv, CancelInv, Challenged
  <2> QED BY <1>1, <2>1, AnswerSame DEF CancelInv
<1>7. OutputInv'
  BY <1>1, <1>2 DEF OutputInv
<1> QED BY <1>4, <1>5, <1>6, <1>7 DEF ExInv

LEMMA DigestReturnsStep ==
    ASSUME ExInv, DigestReturns
    PROVE  ExInv'
<1>1. /\ UNCHANGED <<setup, r, rdr, pipe, fly, raw, canceled, sent, output>>
      /\ at = "answer" /\ fly.why = "digest"
  BY DEF DigestReturns
<1>2. sent # <<>> /\ sent \in Seq(SentRec) /\ setup.digest # "no"
  BY <1>1 DEF ExInv, ExTypeOK, FlightInv
<1>3. Len(sent) \in Nat /\ Len(sent) > 0 /\ sent[Len(sent)] \in SentRec
  BY <1>2
<1>4. Answer \in AnswerSet
  BY <1>3 DEF Answer, SentRec
<1>5. PICK n \in Nat : n = Len(sent)
  BY <1>3
<1>6. PICK e \in {"none", "net", "canceled", "deadline"} : e = IF Answer \in Errors THEN Answer ELSE "none"
  BY DEF Errors
<1>7. PICK s \in AnswerSet \union {"nil"} : s = IF e = "none" THEN Answer ELSE "nil"
  BY <1>4
<1>8. PICK p : p = [resp EXCEPT !.status = s, !.n = n]
  OBVIOUS
<1>9. p \in RespRec
  BY <1>8 DEF ExInv, ExTypeOK, RespRec
<1>10. \/ resp' = [p EXCEPT !.err = e] /\ at' = "roundTripDone"
       \/ resp' = p /\ e = "none" /\ at' = "hook"
       \/ resp' = p /\ e # "none" /\ at' = "done"
  BY <1>5, <1>6, <1>7, <1>8, Zenon DEF DigestReturns, Return
<1>11. resp' \in RespRec /\ (at' = "roundTripDone" => resp'.err = e)
  BY <1>9, <1>10 DEF RespRec
<1>12. ExTypeOK'
  <2>1. canceled' \in BOOLEAN /\ at' \in {"roundTripDone", "hook", "done"}
    BY <1>1, <1>10 DEF ExInv, ExTypeOK
  <2> QED BY <1>1, <1>11, <2>1, QuietTypes
<1>13. BodyInv' /\ FlightInv' /\ SentInv'
  <2>1. at' \in {"roundTripDone", "hook", "done"} /\ Underway
    BY <1>1, <1>10 DEF Underway
  <2> QED BY <1>1, <2>1, Quiet
<1>14. CancelInv'
  <2>1. Answer = "canceled" => e = "canceled"
    BY <1>6 DEF Errors
  <2> QED BY <1>1, <1>10, <1>11, <2>1, AnswerSame DEF CancelInv
<1>15. OutputInv'
  BY <1>1, <1>2 DEF OutputInv
<1> QED BY <1>12, <1>13, <1>14, <1>15 DEF ExInv

LEMMA RoundTripReturnsStep ==
    ASSUME ExInv, RoundTripReturns
    PROVE  ExInv'
<1>1. /\ UNCHANGED <<setup, r, rdr, pipe, fly, raw, resp, sent, output>>
      /\ at \in {"clientDigest", "roundTripDone"} /\ at' = "requestDigest"
      /\ canceled' = (resp.err = "canceled")
  BY DEF RoundTripReturns
<1>2. ExTypeOK'
  <2>1. canceled' \in BOOLEAN /\ resp' \in RespRec
    BY <1>1 DEF ExInv, ExTypeOK
  <2> QED BY <1>1, <2>1, QuietTypes
<1>3. BodyInv' /\ FlightInv' /\ SentInv'
  <2>1. Underway
    BY <1>1 DEF Underway
  <2> QED BY <1>1, <2>1, Quiet
<1>4. CancelInv'
  BY <1>1, AnswerSame DEF ExInv, CancelInv
<1>5. OutputInv'
  <2>1. (Final <=> Final')
    BY <1>1, SameSetup DEF Final
  <2> QED BY <1>1, <2>1 DEF ExInv, OutputInv
<1> QED BY <1>2, <1>3, <1>4, <1>5 DEF ExInv

LEMMA NoRequestDigestStep ==
    ASSUME ExInv, NoRequestDigest
    PROVE  ExInv'
<1>1. /\ UNCHANGED <<setup, r, rdr, pipe, fly, raw, resp, canceled, sent, output>>
      /\ at = "requestDigest" /\ at' = "hook"
  BY DEF NoRequestDigest
<1>2. ExTypeOK'
  <2>1. canceled' \in BOOLEAN /\ resp' \in RespRec
    BY <1>1 DEF ExInv, ExTypeOK
  <2> QED BY <1>1, <2>1, QuietTypes
<1>3. BodyInv' /\ FlightInv' /\ SentInv'
  BY <1>1, Quiet DEF Underway
<1>4. CancelInv'
  BY <1>1, AnswerSame DEF ExInv, CancelInv
<1>5. OutputInv'
  <2>1. (Final <=> Final')
    BY <1>1, SameSetup DEF Final
  <2> QED BY <1>1, <2>1 DEF ExInv, OutputInv
<1> QED BY <1>2, <1>3, <1>4, <1>5 DEF ExInv

LEMMA HookStep ==
    ASSUME ExInv, Hook
    PROVE  ExInv'
<1>1. /\ UNCHANGED <<setup, r, rdr, pipe, fly, raw, resp, canceled, sent, output>>
      /\ at = "hook" /\ (at' = "decide" \/ (at' = "done" /\ err' = "hook"))
  BY DEF Hook, Return
<1>2. ExTypeOK'
  <2>1. canceled' \in BOOLEAN /\ resp' \in RespRec
    BY <1>1 DEF ExInv, ExTypeOK
  <2> QED BY <1>1, <2>1, QuietTypes
<1>3. BodyInv' /\ FlightInv' /\ SentInv'
  BY <1>1, Quiet DEF Underway
<1>4. CancelInv'
  BY <1>1, AnswerSame DEF ExInv, CancelInv
<1>5. OutputInv'
  <2>1. (Final <=> Final')
    BY <1>1, SameSetup DEF Final
  <2> QED BY <1>1, <2>1 DEF ExInv, OutputInv
<1> QED BY <1>2, <1>3, <1>4, <1>5 DEF ExInv

LEMMA DoEndsStep ==
    ASSUME ExInv, DoEnds
    PROVE  ExInv'
<1>1. /\ UNCHANGED <<setup, r, rdr, pipe, fly, raw, resp, canceled, sent, output>>
      /\ at = "decide" /\ at' = "done" /\ err' = IF resp.err # "none" THEN resp.err ELSE err
  BY DEF DoEnds, Return
<1>2. ExTypeOK'
  <2>1. canceled' \in BOOLEAN /\ resp' \in RespRec
    BY <1>1 DEF ExInv, ExTypeOK
  <2> QED BY <1>1, <2>1, QuietTypes
<1>3. BodyInv' /\ FlightInv' /\ SentInv'
  BY <1>1, Quiet DEF Underway
<1>4. CancelInv'
  BY <1>1, AnswerSame DEF ExInv, CancelInv
<1>5. OutputInv'
  <2>1. (Final <=> Final')
    BY <1>1, SameSetup DEF Final
  <2> QED BY <1>1, <2>1 DEF ExInv, OutputInv
<1> QED BY <1>2, <1>3, <1>4, <1>5 DEF ExInv

\* The next attempt begins: nothing is made yet, and the context was not canceled.
LEMMA RetryStep ==
    ASSUME ExInv, Retry
    PROVE  ExInv'
<1>1. /\ UNCHANGED <<setup, rdr, pipe, fly, raw, resp, err, canceled, sent, output>>
      /\ at = "decide" /\ at' = "before" /\ ~canceled /\ r' = [r EXCEPT !.attempt = r.attempt + 1]
  BY DEF Retry, CannotRetry
<1>2. r \in ReqRec /\ r.attempt \in Nat
  BY DEF ExInv, ExTypeOK, ReqRec
<1>3. PICK a \in Nat : a = r.attempt + 1
  BY <1>2
<1>4. a # 0 /\ r' = [r EXCEPT !.attempt = a]
  BY <1>1, <1>2, <1>3
<1>5. r' \in ReqRec /\ r'.attempt = a
  BY <1>2, <1>4 DEF ReqRec
<1>6. r'.form = r.form /\ r'.get = r.get /\ r'.data = r.data /\ r'.Body = r.Body
  BY <1>2, <1>4 DEF ReqRec
<1>7. ExTypeOK'
  BY <1>1, <1>5 DEF ExInv, ExTypeOK
<1>8. Wanted' = Wanted /\ Answer' = Answer
  BY <1>1, SameSetup, AnswerSame
<1>9. BodyInv'
  <2>1. Kept(setup', r')
    BY <1>1, <1>6 DEF ExInv, BodyInv, Kept
  <2>2. ~Underway' /\ at' \notin {"send", "answer"}
    BY <1>1 DEF Underway
  <2> QED BY <1>1, <1>4, <1>5, <2>1, <2>2 DEF ExInv, BodyInv
<1>10. FlightInv'
  BY <1>1 DEF ExInv, FlightInv, Underway
<1>11. SentInv'
  BY <1>1, <1>8 DEF ExInv, SentInv
<1>12. CancelInv'
  BY <1>1, <1>8 DEF ExInv, CancelInv
<1>13. OutputInv'
  BY <1>1 DEF OutputInv
<1> QED BY <1>7, <1>9, <1>10, <1>11, <1>12, <1>13 DEF ExInv

-----------------------------------------------------------------------------
(* Steps that make a body.                                                 *)

\* A whole body that is made is the one carried, and it can be sent.
LEMMA WholeCarried ==
    ASSUME setup' = setup, NEW b, r' = b.r, rdr' = b.rdr, pipe' = b.pipe, r' \in ReqRec, MadeWhole(b),
           fly'.clen \in {0, Len(Wanted)}, fly'.hasBody \/ Wanted = <<>>
    PROVE  Carried' = Wanted' /\ ~Broken'
<1>1. Wanted' = Wanted
  BY SameSetup
<1>2. BodyIn(b) = Wanted /\ ~(b.r.get = "src" /\ b.rdr.closed) /\ ~(b.r.get = "pipe" /\ b.pipe.closed)
  BY DEF MadeWhole
<1>3. r'.get \in {"nil", "bytes", "src", "pipe"}
  BY DEF ReqRec
<1>4. BodyOf(r.get)' = Wanted
  BY <1>2, <1>3 DEF BodyOf, BodyIn
<1>5. ~Unreadable(r.get)'
  BY <1>2 DEF Unreadable
<1>6. Carried' = Wanted
  BY <1>4 DEF Carried
<1>7. ~Broken'
  <2>1. fly'.clen > 0 => fly'.clen = Len(Wanted)
    OBVIOUS
  <2>2. Broken' <=> fly'.hasBody /\ (Unreadable(r.get)' \/ (fly'.clen > 0 /\ Len(BodyOf(r.get)') # fly'.clen))
    BY DEF Broken
  <2> QED BY <1>4, <1>5, <2>1, <2>2
<1> QED BY <1>1, <1>6, <1>7

\* The request that roundTrip makes of what parseRequestBody returns.
RoundTripped(c, rr, rc, b, f) ==
    /\ rc = [rr EXCEPT !.cookies = parseRequestCookie(c, rr), !.url = parseRequestURL(c).url]
    /\ b = parseRequestBody(c, rc)
    /\ f = [host |-> rc.url.host, why |-> IF rr.attempt = 0 THEN "first" ELSE "retry",
            clen |-> IF b.r.Body = NoBody THEN 0 ELSE Len(b.r.Body),
            via |-> <<>>, hasBody |-> b.r.get # "nil", auth |-> parseRequestHeader(c), back |-> "received"]

LEMMA RoundTripStep ==
    ASSUME ExInv, RoundTrip
    PROVE  ExInv'
<1>1. /\ UNCHANGED <<setup, err, canceled, sent, output>>
      /\ at = "before" /\ at' = "send" /\ resp' = NoResponse
  BY DEF RoundTrip
<1>2. PICK rc, b, f : RoundTripped(setup, r, rc, b, f) /\ r' = b.r /\ rdr' = b.rdr /\ pipe' = b.pipe /\ fly' = f /\ raw' = f
  BY Zenon DEF RoundTrip, RoundTripped
<1>3. setup \in Calls /\ r \in ReqRec /\ rdr \in RdrRec /\ pipe \in PipeRec /\ Kept(setup, r)
  BY DEF ExInv, ExTypeOK, BodyInv
<1>4. PICK u \in UrlSet : u = parseRequestURL(setup).url
  BY <1>3 DEF UrlSet
<1>5. PICK k \in Nat : k = parseRequestCookie(setup, r)
  <2>1. setup.cookies \in Nat /\ r.cookies \in Nat
    BY <1>3, ExchangeConstants DEF ReqRec
  <2>2. PICK x \in Nat : x = r.cookies + setup.cookies
    BY <2>1
  <2>3. parseRequestCookie(setup, r) \in {x, r.cookies}
    BY <2>2 DEF parseRequestCookie
  <2> QED BY <2>1, <2>3
<1>6. rc = [r EXCEPT !.cookies = k, !.url = u]
  BY <1>2, <1>4, <1>5 DEF RoundTripped
<1>7. rc \in ReqRec /\ rc.url = u
  BY <1>3, <1>6 DEF ReqRec
<1>8. rc.form = r.form /\ rc.get = r.get /\ rc.data = r.data /\ rc.Body = r.Body /\ rc.attempt = r.attempt
  BY <1>3, <1>6 DEF ReqRec
<1>9. Kept(setup, rc)
  BY <1>3, <1>8 DEF Kept
<1>10. b = parseRequestBody(setup, rc)
  BY <1>2 DEF RoundTripped
<1>11. /\ b.r \in ReqRec /\ b.rdr \in RdrRec /\ b.pipe \in PipeRec
       /\ b.r.attempt = r.attempt /\ b.r.url = u
       /\ Kept(setup, b.r)
       /\ setup.file = "seeker" /\ ~rdr.closed => ~b.rdr.closed
  BY <1>3, <1>7, <1>8, <1>9, <1>10, ParseKeeps
<1>12. PICK n \in Nat : n = IF b.r.Body = NoBody THEN 0 ELSE Len(b.r.Body)
  <2>1. Len(b.r.Body) \in Nat
    BY <1>11, LenProperties DEF ReqRec, Tokens
  <2> QED BY <2>1
<1>13. f = [host |-> u.host, why |-> IF r.attempt = 0 THEN "first" ELSE "retry", clen |-> n,
            via |-> <<>>, hasBody |-> b.r.get # "nil", auth |-> parseRequestHeader(setup), back |-> "received"]
  BY <1>2, <1>7, <1>12 DEF RoundTripped
<1>14. /\ f \in Flight /\ f.clen = n /\ f.hasBody = (b.r.get # "nil")
       /\ f.why = IF r.attempt = 0 THEN "first" ELSE "retry"
  <2>1. u.host \in HostSet
    <3>1. u.host \in {setup.base, setup.host}
      BY <1>4 DEF parseRequestURL
    <3> QED BY <1>3, <3>1 DEF HostSet
  <2>2. parseRequestHeader(setup) \in AuthSet
    BY <1>3 DEF parseRequestHeader, AuthSet
  <2>3. <<>> \in Seq(HostSet)
    OBVIOUS
  <2> QED BY <1>13, <2>1, <2>2, <2>3 DEF Flight, Whys
<1>15. ExTypeOK'
  <2>1. resp' \in RespRec
    BY <1>1 DEF NoResponse, RespRec
  <2> QED BY <1>1, <1>2, <1>11, <1>14, <2>1 DEF ExInv, ExTypeOK
<1>16. Wanted' = Wanted /\ Answer' = Answer
  BY <1>1, SameSetup, AnswerSame
<1>17. Whole(setup, r.attempt) => MadeWhole(b)
  <2> SUFFICES ASSUME Whole(setup, r.attempt)
               PROVE  MadeWhole(b)
    OBVIOUS
  <2>1. r.attempt \in Nat
    BY <1>3 DEF ReqRec
  <2>2. r.attempt = 0 => Untouched
    BY <1>1 DEF ExInv, BodyInv
  <2>3. Readable(rc.attempt)
    <3>1. CASE r.attempt = 0
      BY <1>8, <2>2, <3>1 DEF Untouched, Readable
    <3>2. CASE r.attempt # 0
      <4>1. r.attempt > 0
        BY <2>1, <3>2
      <4>2. WholeAgain(setup, r.attempt)
        BY <3>2, <4>1 DEF Whole, WholeAgain
      <4> QED BY <1>8, <4>2 DEF ExInv, BodyInv, Readable
    <3> QED BY <3>1, <3>2
  <2>4. ~Replayable(setup) => rc.form = SetBody(setup).form /\ rc.get = SetBody(setup).get
                              /\ rc.data = SetBody(setup).data /\ rc.Body = SetBody(setup).Body
    BY <1>8, <2>2 DEF Whole, Untouched
  <2> QED BY <1>3, <1>7, <1>9, <1>10, <2>3, <2>4, ParseWhole
<1>18. MadeWhole(b) => n \in {0, Len(Wanted)} /\ (~f.hasBody => Wanted = <<>>)
  BY <1>12, <1>14 DEF MadeWhole
<1>19. BodyInv'
  <2>1. Kept(setup', r')
    BY <1>1, <1>2, <1>11
  <2>2. setup'.file = "seeker" /\ setup'.body \in {"multipart", "chunked"} => ~rdr'.closed
    BY <1>1, <1>2, <1>11 DEF ExInv, BodyInv
  <2>3. Whole(setup', r'.attempt) => raw'.clen \in {0, Len(Wanted')} /\ (~raw'.hasBody => Wanted' = <<>>)
    BY <1>1, <1>2, <1>11, <1>14, <1>16, <1>17, <1>18
  <2>4. raw'.hasBody /\ setup'.body # "chunked" /\ Replayable(setup') /\ setup'.file \notin {"reader", "closer"}
          => r'.get = "bytes" /\ r'.data = Wanted'
    <3> SUFFICES ASSUME f.hasBody, setup.body # "chunked", Replayable(setup), setup.file \notin {"reader", "closer"}
                 PROVE  b.r.get = "bytes" /\ b.r.data = Wanted
      BY <1>1, <1>2, <1>16
    <3>1. MadeWhole(b)
      BY <1>17 DEF Whole
    <3>2. b.r.get = "bytes"
      BY <1>14, <3>1 DEF MadeWhole
    <3> QED BY <3>1, <3>2 DEF MadeWhole, BodyIn
  <2>5. RebuiltOf(setup', fly'.why, r'.attempt) => Carried' = Wanted' /\ fly'.clen \in {0, Len(Wanted')} /\ ~Broken'
    <3> SUFFICES ASSUME RebuiltOf(setup, f.why, r.attempt)
                 PROVE  Carried' = Wanted' /\ fly'.clen \in {0, Len(Wanted')} /\ ~Broken'
      BY <1>1, <1>2, <1>11
    <3>1. Whole(setup, r.attempt)
      BY <1>14 DEF RebuiltOf, Whole
    <3>2. MadeWhole(b)
      BY <1>17, <3>1
    <3>3. fly'.clen \in {0, Len(Wanted)} /\ (fly'.hasBody \/ Wanted = <<>>)
      BY <1>2, <1>14, <1>18, <3>2
    <3>4. r' \in ReqRec
      BY <1>2, <1>11
    <3>5. Carried' = Wanted' /\ ~Broken'
      BY <1>1, <1>2, <3>2, <3>3, <3>4, WholeCarried
    <3> QED BY <1>16, <3>3, <3>5
  <2> QED BY <1>1, <2>1, <2>2, <2>3, <2>4, <2>5 DEF BodyInv
<1>20. FlightInv'
  BY <1>1, <1>2, <1>4, <1>11, <1>14 DEF FlightInv
<1>21. SentInv'
  BY <1>1, <1>16 DEF ExInv, SentInv
<1>22. CancelInv'
  BY <1>1, <1>16 DEF ExInv, CancelInv
<1>23. OutputInv'
  BY <1>1 DEF OutputInv
<1> QED BY <1>15, <1>19, <1>20, <1>21, <1>22, <1>23 DEF ExInv

\* The answer to a digest challenge.
LEMMA DigestStep ==
    ASSUME ExInv, at \in {"clientDigest", "requestDigest"}, Challenged, setup.digest # "no",
           NEW back \in {"clientDone", "requestDone"}, handleDigestAuth(back)
    PROVE  ExInv'
<1>1. UNCHANGED <<setup, raw, resp, err, canceled, sent, output>> /\ at' = "send"
  BY DEF handleDigestAuth
<1>2. PICK b : /\ b = IF raw.hasBody THEN parseRequestBody(setup, r) ELSE [r |-> r, rdr |-> rdr, pipe |-> pipe]
               /\ r' = b.r /\ rdr' = b.rdr /\ pipe' = b.pipe
  BY Zenon DEF handleDigestAuth
<1>3. fly' = [raw EXCEPT !.why = "digest", !.auth = "digest", !.back = back]
  BY DEF handleDigestAuth
<1>4. setup \in Calls /\ r \in ReqRec /\ rdr \in RdrRec /\ pipe \in PipeRec /\ raw \in Flight /\ Kept(setup, r)
  BY DEF ExInv, ExTypeOK, BodyInv
<1>5. fly' \in Flight /\ fly'.why = "digest" /\ fly'.clen = raw.clen /\ fly'.hasBody = raw.hasBody
  BY <1>3, <1>4 DEF Flight, Whys, AuthSet
<1>6. /\ b.r \in ReqRec /\ b.rdr \in RdrRec /\ b.pipe \in PipeRec
      /\ b.r.attempt = r.attempt /\ b.r.url = r.url
      /\ Kept(setup, b.r)
      /\ setup.file = "seeker" /\ ~rdr.closed => ~b.rdr.closed
  <2>1. CASE raw.hasBody
    <3>1. b = parseRequestBody(setup, r)
      BY <1>2, <2>1
    <3> QED BY <1>4, <3>1, ParseKeeps
  <2>2. CASE ~raw.hasBody
    <3>1. b.r = r /\ b.rdr = rdr /\ b.pipe = pipe
      BY <1>2, <2>2
    <3> QED BY <1>4, <3>1
  <2> QED BY <2>1, <2>2
<1>7. ExTypeOK'
  BY <1>1, <1>2, <1>5, <1>6 DEF ExInv, ExTypeOK
<1>8. Wanted' = Wanted /\ Answer' = Answer
  BY <1>1, SameSetup, AnswerSame
<1>9. Whole(setup, r.attempt) => raw.clen \in {0, Len(Wanted)} /\ (~raw.hasBody => Wanted = <<>>)
  BY DEF ExInv, BodyInv, Underway
<1>10. BodyInv'
  <2>1. Kept(setup', r')
    BY <1>1, <1>2, <1>6
  <2>2. setup'.file = "seeker" /\ setup'.body \in {"multipart", "chunked"} => ~rdr'.closed
    BY <1>1, <1>2, <1>6 DEF ExInv, BodyInv
  <2>3. Whole(setup', r'.attempt) => raw'.clen \in {0, Len(Wanted')} /\ (~raw'.hasBody => Wanted' = <<>>)
    BY <1>1, <1>2, <1>6, <1>8, <1>9
  <2>4. RebuiltOf(setup', fly'.why, r'.attempt) => Carried' = Wanted' /\ fly'.clen \in {0, Len(Wanted')} /\ ~Broken'
    <3> SUFFICES ASSUME RebuiltOf(setup, "digest", r.attempt)
                 PROVE  Carried' = Wanted' /\ fly'.clen \in {0, Len(Wanted')} /\ ~Broken'
      BY <1>1, <1>2, <1>5, <1>6
    <3>1. WholeAgain(setup, r.attempt) /\ Whole(setup, r.attempt)
      BY DEF RebuiltOf, WholeAgain, Whole
    <3>2. fly'.clen \in {0, Len(Wanted)} /\ (fly'.hasBody \/ Wanted = <<>>)
      BY <1>5, <1>9, <3>1
    <3>3. CASE raw.hasBody
      <4>1. b = parseRequestBody(setup, r)
        BY <1>2, <3>3
      <4>2. Readable(r.attempt)
        BY <3>1 DEF ExInv, BodyInv, Readable
      <4>3. MadeWhole(b)
        BY <1>4, <3>1, <4>1, <4>2, ParseWhole DEF WholeAgain
      <4>4. r' \in ReqRec
        BY <1>2, <1>6
      <4>5. Carried' = Wanted' /\ ~Broken'
        BY <1>1, <1>2, <3>2, <4>3, <4>4, WholeCarried
      <4> QED BY <1>8, <3>2, <4>5
    <3>4. CASE ~raw.hasBody
      BY <1>5, <1>8, <3>2, <3>4 DEF Carried, Broken
    <3> QED BY <3>3, <3>4
  <2> QED BY <1>1, <1>5, <2>1, <2>2, <2>3, <2>4 DEF BodyInv
<1>11. FlightInv'
  <2>1. r.url = parseRequestURL(setup).url
    BY DEF ExInv, FlightInv, Underway
  <2> QED BY <1>1, <1>2, <1>5, <1>6, <2>1 DEF FlightInv
<1>12. SentInv'
  BY <1>1, <1>8 DEF ExInv, SentInv
<1>13. CancelInv'
  <2>1. ~(sent # <<>> /\ Answer = "canceled")
    BY DEF ExInv, CancelInv, Challenged
  <2> QED BY <1>1, <1>8, <2>1 DEF CancelInv
<1>14. OutputInv'
  BY <1>1 DEF OutputInv
<1> QED BY <1>7, <1>10, <1>11, <1>12, <1>13, <1>14 DEF ExInv

-----------------------------------------------------------------------------
(* A request leaves, or is redirected.                                     *)

\* What sending leaves of the reader and of the pipe.
LEMMA SpentFine ==
    ASSUME rdr \in RdrRec, pipe \in PipeRec, NEW x \in Spent
    PROVE  /\ x.rdr \in RdrRec /\ x.pipe \in PipeRec
           /\ setup.body # "closer" /\ ~rdr.closed => ~x.rdr.closed
<1>1. \A t \in Tokens : Suffixes(t) \subseteq Tokens
  <2> SUFFICES ASSUME NEW t \in Tokens, NEW s \in Suffixes(t)
               PROVE  s \in Tokens
    OBVIOUS
  <2>1. PICK W : Tokens = Seq(W)
    BY DEF Tokens
  <2>2. CASE s = <<>>
    BY <2>1, <2>2
  <2>3. CASE \E l \in 1..Len(t) : s = SubSeq(t, l, Len(t))
    <3>1. PICK l \in 1..Len(t) : s = SubSeq(t, l, Len(t))
      BY <2>3
    <3>2. Len(t) \in Nat /\ l \in Int /\ \A i \in l..Len(t) : t[i] \in W
      BY <2>1
    <3>3. SubSeq(t, l, Len(t)) \in Seq(W)
      BY <3>2, SubSeqProperties
    <3> QED BY <2>1, <3>1, <3>3
  <2> QED BY <2>2, <2>3 DEF Suffixes
<1>2. rdr.left \in Tokens /\ rdr.closed \in BOOLEAN /\ pipe.left \in Tokens /\ <<>> \in Tokens
  BY DEF RdrRec, PipeRec, Tokens
<1>3. CASE ~fly.hasBody \/ r.get \notin {"src", "pipe"}
  <2>1. x = [rdr |-> rdr, pipe |-> pipe]
    BY <1>3 DEF Spent
  <2> QED BY <2>1
<1>4. CASE fly.hasBody /\ r.get = "src"
  <2>1. PICK s \in Suffixes(rdr.left) :
           x = [rdr |-> [left |-> s, closed |-> rdr.closed \/ setup.body = "closer"], pipe |-> pipe]
    BY <1>4 DEF Spent
  <2>2. PICK c \in BOOLEAN : c = (rdr.closed \/ setup.body = "closer")
    OBVIOUS
  <2>3. s \in Tokens
    BY <1>1, <1>2
  <2>4. x.rdr = [left |-> s, closed |-> c] /\ x.pipe = pipe
    BY <2>1, <2>2
  <2> QED BY <2>2, <2>3, <2>4 DEF RdrRec
<1>5. CASE fly.hasBody /\ r.get = "pipe"
  <2>1. PICK s \in Suffixes(pipe.left) :
           x = [rdr |-> [rdr EXCEPT !.left = s], pipe |-> [data |-> <<>>, left |-> <<>>, closed |-> TRUE]]
    BY <1>5 DEF Spent
  <2>2. s \in Tokens
    BY <1>1, <1>2
  <2>3. x.rdr = [rdr EXCEPT !.left = s] /\ x.pipe = [data |-> <<>>, left |-> <<>>, closed |-> TRUE]
    BY <2>1
  <2> QED BY <1>2, <2>2, <2>3 DEF RdrRec, PipeRec
<1> QED BY <1>3, <1>4, <1>5

LEMMA TransportStep ==
    ASSUME ExInv, NEW ans \in setup.answers, Transport(ans)
    PROVE  ExInv'
<1>1. at = "send" /\ at' = "answer" /\ UNCHANGED <<setup, r, fly, raw, resp, err, canceled, output>>
  BY DEF Transport
<1>2. /\ setup \in Calls /\ r \in ReqRec /\ rdr \in RdrRec /\ pipe \in PipeRec
      /\ fly \in Flight /\ sent \in Seq(SentRec)
  BY DEF ExInv, ExTypeOK
<1>3. PICK e : e = [body |-> Carried, broken |-> Broken, clen |-> fly.clen,
                    why |-> fly.why, attempt |-> r.attempt, host |-> fly.host, via |-> fly.via,
                    url |-> r.url, auth |-> fly.auth, cookies |-> r.cookies, ans |-> ans]
  OBVIOUS
<1>4. sent' = Append(sent, e)
  BY <1>3 DEF Transport, Carried
<1>5. e \in SentRec
  <2>1. Carried \in Tokens
    <3>1. BodyOf(r.get) \in Tokens
      BY <1>2 DEF BodyOf, ReqRec, RdrRec, PipeRec, Tokens
    <3>2. <<>> \in Tokens
      BY DEF Tokens
    <3> QED BY <3>1, <3>2 DEF Carried
  <2>2. Broken \in BOOLEAN
    BY <1>2 DEF Broken, Flight
  <2>3. ans \in AnswerSet
    BY <1>2 DEF AnswerSet
  <2>4. /\ fly.clen \in Nat /\ fly.why \in Whys /\ fly.host \in HostSet /\ fly.via \in Seq(HostSet)
        /\ fly.auth \in AuthSet
    BY <1>2 DEF Flight
  <2>5. r.attempt \in Nat /\ r.url \in UrlSet /\ r.cookies \in Nat
    BY <1>2 DEF ReqRec
  <2> QED BY <1>3, <2>1, <2>2, <2>3, <2>4, <2>5 DEF SentRec
<1>6. /\ e.body = Carried /\ e.broken = Broken /\ e.clen = fly.clen /\ e.why = fly.why
      /\ e.attempt = r.attempt /\ e.host = fly.host /\ e.via = fly.via /\ e.url = r.url
  BY <1>3
<1>7. PICK n \in Nat : n = Len(sent)
  BY <1>2, LenProperties
<1>8. /\ sent' \in Seq(SentRec) /\ sent' # <<>> /\ Len(sent') = n + 1
      /\ \A i \in 1..n : sent'[i] = sent[i]
      /\ sent'[n + 1] = e
  BY <1>2, <1>4, <1>5, <1>7, AppendProperties
<1>9. PICK x \in Spent : rdr' = x.rdr /\ pipe' = x.pipe
  BY DEF Transport
<1>10. rdr' \in RdrRec /\ pipe' \in PipeRec /\ (setup.body # "closer" /\ ~rdr.closed => ~rdr'.closed)
  BY <1>2, <1>9, SpentFine
<1>11. ExTypeOK'
  BY <1>1, <1>8, <1>10 DEF ExInv, ExTypeOK
<1>12. Wanted' = Wanted
  BY <1>1, SameSetup
<1>13. BodyInv'
  <2>1. Kept(setup', r')
    BY <1>1 DEF ExInv, BodyInv
  <2>2. setup'.file = "seeker" /\ setup'.body \in {"multipart", "chunked"} => ~rdr'.closed
    BY <1>1, <1>10 DEF ExInv, BodyInv
  <2>3. Whole(setup', r'.attempt) => raw'.clen \in {0, Len(Wanted')} /\ (~raw'.hasBody => Wanted' = <<>>)
    BY <1>1, <1>12 DEF ExInv, BodyInv, Underway
  <2>4. fly'.why # "digest" /\ raw'.hasBody /\ setup'.body # "chunked" /\ Replayable(setup')
          /\ setup'.file \notin {"reader", "closer"} => r'.get = "bytes" /\ r'.data = Wanted'
    BY <1>1, <1>12 DEF ExInv, BodyInv
  <2> QED BY <1>1, <2>1, <2>2, <2>3, <2>4 DEF BodyInv
<1>14. FlightInv'
  BY <1>1, <1>8 DEF ExInv, FlightInv, Underway
<1>15. CancelInv'
  BY <1>1 DEF CancelInv
<1>16. OutputInv'
  BY <1>1 DEF OutputInv
<1>17. SentInv'
  <2> SUFFICES ASSUME NEW i \in 1..(n + 1)
               PROVE  EntryFine(setup, Wanted, sent', i)
    BY <1>1, <1>8, <1>12 DEF SentInv
  <2>1. sent # <<>> => sent[n].ans # "canceled"
    BY <1>1, <1>7 DEF ExInv, CancelInv, Answer
  <2>2. CASE i \in 1..n
    <3>1. EntryFine(setup, Wanted, sent, i)
      BY <1>7, <2>2 DEF ExInv, SentInv
    <3>2. sent'[i] = sent[i] /\ (i > 1 => sent'[i - 1] = sent[i - 1])
      <4>1. i > 1 => i - 1 \in 1..n
        BY <2>2
      <4> QED BY <1>8, <2>2, <4>1
    <3>3. i < Len(sent') => sent'[i].ans # "canceled"
      <4>1. CASE i = n
        BY <1>2, <1>7, <2>1, <2>2, <3>2, <4>1
      <4>2. CASE i # n
        BY <1>7, <2>2, <3>1, <3>2, <4>2 DEF EntryFine
      <4> QED BY <4>1, <4>2
    <3>4. /\ RebuiltOf(setup, sent'[i].why, sent'[i].attempt)
             /\ ~(sent'[i].why = "redirect" /\ i > 1 /\ sent'[i - 1].ans = "302") =>
               sent'[i].body = Wanted /\ sent'[i].clen \in {0, Len(Wanted)} /\ ~sent'[i].broken
          /\ sent'[i].url = parseRequestURL(setup).url
          /\ sent'[i].why = "redirect" => Allowed(setup, sent'[i].host, sent'[i].via)
      BY <3>1, <3>2 DEF EntryFine
    <3> QED BY <3>3, <3>4 DEF EntryFine
  <2>3. CASE i = n + 1
    <3>1. sent'[i] = e /\ (n > 0 => sent'[i - 1] = sent[n]) /\ ~(i < Len(sent'))
      <4>1. n > 0 => n \in 1..n /\ i - 1 = n
        BY <2>3
      <4> QED BY <1>8, <2>3, <4>1
    <3>2. fly.why = "redirect" => sent # <<>> /\ n > 0 /\ i > 1
      BY <1>1, <1>2, <1>7, <2>3 DEF ExInv, FlightInv
    <3>3. e.why = "redirect" /\ Answer = "302" => i > 1 /\ sent'[i - 1].ans = "302"
      BY <1>6, <1>7, <3>1, <3>2 DEF Answer
    <3>4. RebuiltOf(setup, e.why, e.attempt) /\ ~(e.why = "redirect" /\ i > 1 /\ sent'[i - 1].ans = "302") =>
            e.body = Wanted /\ e.clen \in {0, Len(Wanted)} /\ ~e.broken
      <4>1. RebuiltOf(setup, fly.why, r.attempt) /\ ~Bodiless =>
               Carried = Wanted /\ fly.clen \in {0, Len(Wanted)} /\ ~Broken
        BY <1>1 DEF ExInv, BodyInv
      <4> QED BY <1>6, <3>3, <4>1 DEF Bodiless
    <3>5. e.url = parseRequestURL(setup).url
      BY <1>1, <1>6 DEF ExInv, FlightInv, Underway
    <3>6. e.why = "redirect" => Allowed(setup, e.host, e.via)
      BY <1>1, <1>6 DEF ExInv, FlightInv
    <3> QED BY <3>1, <3>4, <3>5, <3>6 DEF EntryFine
  <2> QED BY <2>2, <2>3
<1> QED BY <1>11, <1>13, <1>14, <1>15, <1>16, <1>17 DEF ExInv

LEMMA LeastPolicy ==
    ASSUME NEW S \in SUBSET Nat, S # {}
    PROVE  \E x \in S : \A y \in S : x <= y
<1>1. \E x \in S : \A y \in S : <<y, x>> \notin OpToRel(<, Nat)
  BY NatLessThanWellFounded, WFMin
<1>2. \A x, y \in Nat : y < x => <<y, x>> \in OpToRel(<, Nat)
  BY Zenon DEF OpToRel
<1>3. \E x \in S : \A y \in S : ~(y < x)
  BY <1>1, <1>2, Zenon
<1> QED BY <1>3

\* A redirect is followed only where no policy objects.
LEMMA FollowAllowed ==
    ASSUME setup \in Calls, NEW h, NEW v, Len(v) \in Nat, CheckRedirect(h, v) = "follow"
    PROVE  Allowed(setup, h, v)
<1>1. PICK objects : objects = {i \in DOMAIN setup.policies : RedirectPolicy(setup.policies[i], h, v) # "follow"}
  OBVIOUS
<1>2. objects = {}
  <2> SUFFICES ASSUME objects # {}
               PROVE  FALSE
    OBVIOUS
  <2>1. objects \in SUBSET Nat
    BY <1>1, ExchangeConstants
  <2>2. \E i \in objects : \A j \in objects : i <= j
    BY <2>1, LeastPolicy
  <2>3. PICK m : m = CHOOSE i \in objects : \A j \in objects : i <= j
    OBVIOUS
  <2>4. m \in objects
    BY <2>2, <2>3, Zenon
  <2>5. CheckRedirect(h, v) = RedirectPolicy(setup.policies[m], h, v)
    BY <1>1, <2>3, Zenon DEF CheckRedirect
  <2> QED BY <1>1, <2>4, <2>5
<1>3. ASSUME NEW p \in DOMAIN setup.policies
      PROVE  /\ setup.policies[p].kind = "domain" => getDomain(h) = getDomain(v[1])
             /\ setup.policies[p].kind = "max" => Len(v) < setup.policies[p].n
             /\ setup.policies[p].kind # "no"
  <2>1. RedirectPolicy(setup.policies[p], h, v) = "follow"
    BY <1>1, <1>2, <1>3
  <2>2. setup.policies[p].n \in Int
    BY <1>3, ExchangeConstants
  <2>3. PICK q : q = setup.policies[p]
    OBVIOUS
  <2>4. q.kind = "domain" => getDomain(h) = getDomain(v[1])
    BY <2>1, <2>3 DEF RedirectPolicy
  <2>5. q.kind = "max" => Len(v) < q.n
    BY <2>1, <2>2, <2>3 DEF RedirectPolicy
  <2>6. q.kind # "no"
    BY <2>1, <2>3 DEF RedirectPolicy
  <2> QED BY <2>3, <2>4, <2>5, <2>6
<1> QED BY <1>3 DEF Allowed

LEMMA RedirectStep ==
    ASSUME ExInv, NEW h \in Hosts, Redirect(h)
    PROVE  ExInv'
<1>1. /\ UNCHANGED <<setup, r, rdr, pipe, raw, resp, err, canceled, sent, output>>
      /\ at = "answer" /\ at' = "send" /\ Answer \in {"302", "307"} /\ fly.why # "digest"
  BY DEF Redirect
<1>2. setup \in Calls /\ r \in ReqRec /\ fly \in Flight /\ raw \in Flight /\ fly.host \in HostSet /\ fly.via \in Seq(HostSet)
  BY DEF ExInv, ExTypeOK, Flight
<1>3. PICK v \in Seq(HostSet) : v = Append(fly.via, fly.host)
  BY <1>2, AppendProperties
<1>4. PICK c \in Nat : c = IF Answer = "307" THEN raw.clen ELSE 0
  BY <1>2 DEF Flight
<1>5. PICK b \in BOOLEAN : b = (Answer = "307" /\ raw.hasBody)
  OBVIOUS
<1>6. PICK a \in AuthSet : a = RedirectAuth(h)
  <2>1. RedirectAuth(h) \in {raw.auth, fly.auth, "none"}
    BY Zenon DEF RedirectAuth
  <2>2. raw.auth \in AuthSet /\ fly.auth \in AuthSet /\ "none" \in AuthSet
    BY <1>2 DEF Flight, AuthSet
  <2> QED BY <2>1, <2>2
<1>7. fly' = [fly EXCEPT !.host = h, !.via = v, !.why = "redirect", !.hasBody = b, !.clen = c, !.auth = a]
  BY <1>3, <1>4, <1>5, <1>6 DEF Redirect
<1>8. fly' \in Flight
  BY <1>2, <1>7 DEF Flight, Whys, HostSet
<1>9. fly'.host = h /\ fly'.via = v /\ fly'.why = "redirect" /\ fly'.hasBody = b /\ fly'.clen = c
  BY <1>2, <1>7 DEF Flight
<1>10. ExTypeOK'
  BY <1>1, <1>8 DEF ExInv, ExTypeOK
<1>11. Wanted' = Wanted /\ Answer' = Answer
  BY <1>1, SameSetup, AnswerSame
<1>12. Whole(setup, r.attempt) => raw.clen \in {0, Len(Wanted)} /\ (~raw.hasBody => Wanted = <<>>)
  BY <1>1 DEF ExInv, BodyInv, Underway
<1>13. raw.hasBody /\ setup.body # "chunked" /\ Replayable(setup) /\ setup.file \notin {"reader", "closer"}
         => r.get = "bytes" /\ r.data = Wanted
  BY <1>1 DEF ExInv, BodyInv
<1>14. BodyInv'
  <2>1. Kept(setup', r')
    BY <1>1 DEF ExInv, BodyInv
  <2>2. setup'.file = "seeker" /\ setup'.body \in {"multipart", "chunked"} => ~rdr'.closed
    BY <1>1 DEF ExInv, BodyInv
  <2>3. RebuiltOf(setup', fly'.why, r'.attempt) /\ ~Bodiless' =>
          Carried' = Wanted' /\ fly'.clen \in {0, Len(Wanted')} /\ ~Broken'
    <3> SUFFICES ASSUME RebuiltOf(setup, "redirect", r.attempt), Answer # "302"
                 PROVE  Carried' = Wanted' /\ fly'.clen \in {0, Len(Wanted')} /\ ~Broken'
      BY <1>1, <1>9, <1>11 DEF Bodiless
    <3>1. Replayable(setup) /\ setup.file \notin {"reader", "closer"} /\ setup.body # "chunked" /\ Whole(setup, r.attempt)
      BY DEF RebuiltOf, Whole
    <3>2. fly'.clen = raw.clen /\ fly'.hasBody = raw.hasBody /\ fly'.clen \in {0, Len(Wanted)}
      <4>1. Answer = "307"
        BY <1>1
      <4>2. raw.hasBody \in BOOLEAN
        BY <1>2 DEF Flight
      <4>3. b = raw.hasBody
        BY <1>5, <4>1, <4>2
      <4> QED BY <1>4, <1>9, <1>12, <3>1, <4>1, <4>3
    <3>3. CASE raw.hasBody
      <4>1. r'.get = "bytes" /\ r'.data = Wanted
        BY <1>1, <1>13, <3>1, <3>3
      <4>2. BodyOf(r.get)' = Wanted
        BY <4>1 DEF BodyOf
      <4>3. ~Unreadable(r.get)'
        BY <4>1 DEF Unreadable
      <4>4. Carried' = Wanted
        BY <3>2, <3>3, <4>2 DEF Carried
      <4>5. ~Broken'
        <5>1. fly'.clen > 0 => fly'.clen = Len(Wanted)
          BY <3>2
        <5>2. Broken' <=> fly'.hasBody /\ (Unreadable(r.get)' \/ (fly'.clen > 0 /\ Len(BodyOf(r.get)') # fly'.clen))
          BY DEF Broken
        <5> QED BY <4>2, <4>3, <5>1, <5>2
      <4> QED BY <1>11, <3>2, <4>4, <4>5
    <3>4. CASE ~raw.hasBody
      <4>1. Wanted = <<>>
        BY <1>12, <3>1, <3>4
      <4> QED BY <1>11, <3>2, <3>4, <4>1 DEF Carried, Broken
    <3> QED BY <3>3, <3>4
  <2> QED BY <1>1, <1>11, <1>12, <1>13, <2>1, <2>2, <2>3 DEF BodyInv
<1>15. FlightInv'
  <2>1. Allowed(setup, h, v)
    <3>1. CheckRedirect(h, v) = "follow"
      BY <1>3 DEF Redirect
    <3>2. Len(v) \in Nat
      BY LenProperties
    <3> QED BY <1>2, <3>1, <3>2, FollowAllowed
  <2>2. sent # <<>> /\ resp = NoResponse /\ r.url = parseRequestURL(setup).url
    BY <1>1 DEF ExInv, FlightInv, Underway
  <2> QED BY <1>1, <1>9, <2>1, <2>2 DEF FlightInv
<1>16. SentInv'
  BY <1>1, <1>11 DEF ExInv, SentInv
<1>17. CancelInv'
  BY <1>1, <1>11 DEF CancelInv
<1>18. OutputInv'
  BY <1>1 DEF OutputInv
<1> QED BY <1>10, <1>14, <1>15, <1>16, <1>17, <1>18 DEF ExInv

-----------------------------------------------------------------------------
(* The theorems.                                                           *)

LEMMA ExchangeInitInv ==
    ASSUME ExchangeInit
    PROVE  ExInv
<1>1. setup \in Calls /\ at = "start" /\ r = SetBody(setup) /\ sent = <<>> /\ canceled = FALSE
  BY DEF ExchangeInit
<1>2. rdr = [left |-> IF unReplayableBody(setup) THEN Contents(setup) ELSE FileData, closed |-> FALSE]
  BY DEF ExchangeInit
<1>3. rdr \in RdrRec /\ rdr.closed = FALSE
  <2>1. Contents(setup) \in Tokens /\ FileData \in Tokens
    BY <1>1, TokenSeqs
  <2>2. PICK l \in Tokens : l = IF unReplayableBody(setup) THEN Contents(setup) ELSE FileData
    BY <2>1
  <2> QED BY <1>2, <2>2 DEF RdrRec
<1>4. ExTypeOK
  <2>1. r \in ReqRec
    BY <1>1, TokenSeqs
  <2>2. pipe \in PipeRec
    BY DEF ExchangeInit, PipeRec, Tokens
  <2>3. NoFlight \in Flight
    BY DEF NoFlight, Flight, HostSet, Whys, AuthSet
  <2>4. NoResponse \in RespRec
    BY DEF NoResponse, RespRec
  <2>5. fly = NoFlight /\ raw = NoFlight /\ resp = NoResponse
    BY DEF ExchangeInit
  <2>6. fly \in Flight /\ raw \in Flight /\ resp \in RespRec
    BY <2>3, <2>4, <2>5
  <2>7. sent \in Seq(SentRec) /\ canceled \in BOOLEAN
    <3>1. <<>> \in Seq(SentRec)
      OBVIOUS
    <3> QED BY <1>1, <3>1, Zenon
  <2> QED BY <1>1, <1>3, <2>1, <2>2, <2>6, <2>7 DEF ExTypeOK
<1>5. BodyInv
  <2>1. Untouched
    BY <1>1, <1>2 DEF Untouched
  <2>2. Kept(setup, r)
    <3>1. /\ SetBody(setup).Body = (IF setup.body = "bytes" THEN Contents(setup) ELSE NoBody)
          /\ SetBody(setup).get = (IF setup.body \in {"bytes", "func"} THEN "bytes"
                                   ELSE IF setup.body \in {"reader", "closer"} THEN "src" ELSE "nil")
          /\ SetBody(setup).data = (IF setup.body \in {"bytes", "func"} THEN Contents(setup) ELSE <<>>)
      BY <1>1, TokenSeqs
    <3> QED BY <1>1, <3>1 DEF Kept
  <2> QED BY <1>1, <1>3, <2>1, <2>2 DEF BodyInv, Underway
<1>6. FlightInv
  <2>1. fly.why = "first"
    BY DEF ExchangeInit, NoFlight
  <2> QED BY <1>1, <2>1 DEF FlightInv, Underway
<1>7. CancelInv /\ OutputInv
  BY <1>1 DEF CancelInv, OutputInv
<1>8. SentInv
  BY <1>1 DEF SentInv
<1> QED BY <1>4, <1>5, <1>6, <1>7, <1>8 DEF ExInv

LEMMA ExchangeStep ==
    ASSUME ExInv, [ExchangeNext]_exVars
    PROVE  ExInv'
<1>1. CASE Do
  BY <1>1, DoStep
<1>2. CASE BeforeFails
  BY <1>2, BeforeFailsStep
<1>3. CASE RoundTrip
  BY <1>3, RoundTripStep
<1>4. CASE \E ans \in setup.answers : Transport(ans)
  BY <1>4, TransportStep
<1>5. CASE \E h \in Hosts : Redirect(h)
  BY <1>5, RedirectStep
<1>6. CASE \E h \in Hosts : DoReturns(h)
  BY <1>6, DoReturnsStep
<1>7. CASE \E ok, unmarshals \in BOOLEAN : Received(ok, unmarshals)
  BY <1>7, ReceivedStep
<1>8. CASE ClientDigest
  BY <1>8, DigestStep DEF ClientDigest
<1>9. CASE RequestDigest
  BY <1>9, DigestStep DEF RequestDigest
<1>10. CASE BadChallenge
  BY <1>10, BadChallengeStep
<1>11. CASE DigestReturns
  BY <1>11, DigestReturnsStep
<1>12. CASE RoundTripReturns
  BY <1>12, RoundTripReturnsStep
<1>13. CASE NoRequestDigest
  BY <1>13, NoRequestDigestStep
<1>14. CASE Hook
  BY <1>14, HookStep
<1>15. CASE DoEnds
  BY <1>15, DoEndsStep
<1>16. CASE Retry
  BY <1>16, RetryStep
<1>17. CASE UNCHANGED exVars
  <2>1. UNCHANGED <<setup, at, r, rdr, pipe, fly, raw, resp, err, canceled, sent, output>>
    BY <1>17 DEF exVars
  <2>2. Wanted' = Wanted /\ Answer' = Answer /\ (AutoRead <=> AutoRead')
    BY <2>1, SameSetup, AnswerSame
  <2>3. ExTypeOK'
    BY <2>1 DEF ExInv, ExTypeOK
  <2>4. BodyInv'
    <3>1. Carried' = Carried /\ (Broken' <=> Broken)
      BY <2>1 DEF Carried, Broken, BodyOf, Unreadable
    <3>2. (Untouched' <=> Untouched) /\ (Underway' <=> Underway) /\ (Bodiless' <=> Bodiless)
      BY <2>1, <2>2 DEF Untouched, Underway, Bodiless
    <3> QED BY <2>1, <2>2, <3>1, <3>2 DEF ExInv, BodyInv
  <2>5. FlightInv'
    BY <2>1 DEF ExInv, FlightInv, Underway
  <2>6. CancelInv' /\ SentInv'
    BY <2>1, <2>2 DEF ExInv, CancelInv, SentInv
  <2>7. OutputInv'
    BY <2>1, <2>2 DEF ExInv, OutputInv, Final
  <2> QED BY <2>3, <2>4, <2>5, <2>6, <2>7 DEF ExInv
<1> QED
  BY <1>1, <1>2, <1>3, <1>4, <1>5, <1>6, <1>7, <1>8, <1>9, <1>10, <1>11, <1>12, <1>13, <1>14, <1>15, <1>16, <1>17
  DEF ExchangeNext

\* The invariant of a call of Do, in any setup and against any server (do, roundTrip,
\* parseRequestBody, handleDigestAuthFunc, the redirect policies).
THEOREM ExchangeInvariance == ExchangeSpec => []ExInv
<1>1. ExchangeInit => ExInv
  BY ExchangeInitInv
<1>2. ExInv /\ [ExchangeNext]_exVars => ExInv'
  BY ExchangeStep
<1> QED BY <1>1, <1>2, PTL DEF ExchangeSpec

\* Every request of a call whose body can be made again carries all of it under the right
\* length, retries go to the first URL, nothing follows a canceled context, redirects stay
\* where the policies allow, and what was saved and read is of the response returned
\* (Request.do, Client.roundTrip, parseRequestBody, handleDownload, redirect.go).
THEOREM EveryAttemptWhole == ExchangeSpec => []AttemptsWhole
<1>1. ExInv => AttemptsWhole
  <2> SUFFICES ASSUME ExInv
               PROVE  AttemptsWhole
    OBVIOUS
  <2>1. sent \in Seq(SentRec) /\ DOMAIN sent = 1..Len(sent) /\ Len(sent) \in Nat
    BY DEF ExInv, ExTypeOK
  <2>2. ASSUME NEW i \in DOMAIN sent
        PROVE  /\ Rebuilt(sent[i]) /\ (sent[i].why = "redirect" => ~(i > 1 /\ sent[i - 1].ans = "302"))
                    => sent[i].body = Wanted /\ sent[i].clen \in {0, Len(sent[i].body)} /\ ~sent[i].broken
               /\ sent[i].why = "retry" => sent[i].url = sent[1].url
               /\ i < Len(sent) => sent[i].ans # "canceled"
               /\ sent[i].why = "redirect" => \A p \in DOMAIN setup.policies :
                     /\ setup.policies[p].kind = "domain" => getDomain(sent[i].host) = getDomain(sent[i].via[1])
                     /\ setup.policies[p].kind = "max" => Len(sent[i].via) < setup.policies[p].n
                     /\ setup.policies[p].kind # "no"
    <3>1. i \in 1..Len(sent) /\ 1 \in 1..Len(sent)
      BY <2>1, <2>2
    <3>2. EntryFine(setup, Wanted, sent, i) /\ EntryFine(setup, Wanted, sent, 1)
      BY <3>1 DEF ExInv, SentInv
    <3>3. Rebuilt(sent[i]) <=> RebuiltOf(setup, sent[i].why, sent[i].attempt)
      BY DEF Rebuilt, RebuiltOf, Replayable
    <3>4. Rebuilt(sent[i]) /\ (sent[i].why = "redirect" => ~(i > 1 /\ sent[i - 1].ans = "302"))
            => sent[i].body = Wanted /\ sent[i].clen \in {0, Len(sent[i].body)} /\ ~sent[i].broken
      BY <3>2, <3>3 DEF EntryFine
    <3>5. sent[i].url = sent[1].url /\ (i < Len(sent) => sent[i].ans # "canceled")
      BY <3>2 DEF EntryFine
    <3>6. sent[i].why = "redirect" => \A p \in DOMAIN setup.policies :
            /\ setup.policies[p].kind = "domain" => getDomain(sent[i].host) = getDomain(sent[i].via[1])
            /\ setup.policies[p].kind = "max" => Len(sent[i].via) < setup.policies[p].n
            /\ setup.policies[p].kind # "no"
      BY <3>2 DEF EntryFine, Allowed
    <3> QED BY <3>4, <3>5, <3>6
  <2>3. at = "done" /\ err = "none" /\ setup.digest = "no" =>
          /\ setup.save = "file" => output.of = <<Len(sent)>>
          /\ AutoRead => resp.cached = Len(sent)
    BY DEF ExInv, OutputInv, Final
  <2> QED BY <2>2, <2>3, Zenon DEF AttemptsWhole
<1> QED BY <1>1, ExchangeInvariance, PTL

-----------------------------------------------------------------------------
(* A parallel download.                                                    *)


Task == [index : Nat, lo : Nat, hi : Int]
Job == [len : Int, seg : Nat \ {0}, ranged : BOOLEAN]

\* Where segment n begins, where it ends, and what is in it, for a download j.
Low(j, n) == n * j.seg
High(j, n) == IF Low(j, n) + j.seg - 1 > j.len - 1 THEN j.len - 1 ELSE Low(j, n) + j.seg - 1
Segment(j, n) == Bytes(Low(j, n), High(j, n))

\* The workers the WaitGroup counts.
Active == {w \in Worker : wk[w].pc \in {"fetch", "complete", "report", "done"}}

DLTypeOK ==
    /\ job \in Job
    /\ main \in [pc : {"head", "send", "select", "err", "ok"}, index : Nat, start : Nat]
    /\ wk \in [Worker -> [pc : {"idle", "add", "fetch", "report", "complete", "done", "gone"}, t : Task]]
    /\ mg \in [pc : {"none", "open", "check", "recv", "copy", "remove", "report", "end"}, i : Nat, task : Nat]
    /\ wg \in Nat

\* Do is at the beginning of a segment, and a worker's task is one.
Divided ==
    /\ mg.pc # "none" => job.len > 0
    /\ main.pc = "head" => mg.pc = "none" /\ main.start = 0
    /\ main.start = Low(job, main.index)
    /\ main.pc = "send" => main.start < job.len
    /\ \A w \in Worker : wk[w].pc \in {"add", "fetch"} =>
           wk[w].t.lo = Low(job, wk[w].t.index) /\ wk[w].t.hi = High(job, wk[w].t.index)

\* A temporary file holds the segment of its number, and what is told of or taken
\* from the map has one.
Fetched ==
    /\ job.ranged => \A n \in DOMAIN temp : temp[n] = Segment(job, n)
    /\ \A w \in Worker : wk[w].pc = "complete" => wk[w].t.index \in DOMAIN temp
    /\ taskMap \subseteq DOMAIN temp
    /\ notes \subseteq DOMAIN temp
    /\ mg.pc = "copy" => mg.task = mg.i /\ mg.task \in DOMAIN temp

\* The merger has appended the segments below mg.i.
Merged ==
    /\ mg.pc \in {"none", "open"} => mg.i = 0 /\ merged = <<>>
    /\ mg.pc \in {"check", "recv", "copy"} => Low(job, mg.i) < job.len
    /\ job.ranged =>
         /\ mg.pc \in {"check", "recv", "copy"} => merged = Bytes(0, Low(job, mg.i) - 1)
         /\ mg.pc = "remove" => merged = File
         /\ mg.pc = "end" /\ main.pc # "err" => merged = File
         /\ \E m \in Nat : merged = Bytes(0, m - 1) /\ (m = 0 \/ m <= job.len)

\* The WaitGroup counts the workers at work and the merger, and wgDoneCh is closed
\* only after the merger's end.
Counted ==
    /\ wg = Cardinality(Active) + (IF mg.pc \in {"none", "end"} THEN 0 ELSE 1)
    /\ "wgDoneCh" \in chans => mg.pc = "end"
    /\ main.pc = "ok" => mg.pc = "end"

DLInv == DLTypeOK /\ Divided /\ Fetched /\ Merged /\ Counted

-----------------------------------------------------------------------------
(* Segments.                                                               *)

\* The last segment begins inside the file and the one after it does not.
LEMMA LastSegment ==
    ASSUME NEW l \in Nat, l > 0, NEW d \in Nat, d > 0, NEW n \in Nat
    PROVE  /\ n < ((l + d - 1) \div d) - 1 => (n + 1) * d < l
           /\ ~(n < ((l + d - 1) \div d) - 1) => (n + 1) * d >= l
<1> DEFINE q == (l + d - 1) \div d
<1>1. q \in Int
  OBVIOUS
<1>2. q * d <= l + d - 1 /\ l + d - 1 < (q + 1) * d
  BY SMTT(30)
<1> HIDE DEF q
<1>3. ASSUME n < q - 1  PROVE (n + 1) * d < l
  <2>1. n + 2 <= q
    BY <1>1, <1>3
  <2>2. (n + 2) * d <= q * d
    BY <1>1, <2>1
  <2>3. (n + 2) * d = (n + 1) * d + d
    OBVIOUS
  <2> QED BY <1>1, <1>2, <2>2, <2>3
<1>4. ASSUME ~(n < q - 1)  PROVE (n + 1) * d >= l
  <2>1. q <= n + 1
    BY <1>1, <1>4
  <2>2. q * d <= (n + 1) * d
    BY <1>1, <2>1
  <2>3. (q + 1) * d = q * d + d
    BY <1>1
  <2> QED BY <1>1, <1>2, <2>2, <2>3
<1> QED BY <1>3, <1>4 DEF q

\* What Bytes is, as a sequence.
LEMMA BytesAre ==
    ASSUME NEW lo \in Int, NEW hi \in Int, hi + 1 >= lo
    PROVE  /\ Bytes(lo, hi) \in Seq(Int)
           /\ Len(Bytes(lo, hi)) = hi - lo + 1
           /\ \A i \in 1..(hi - lo + 1) : Bytes(lo, hi)[i] = lo + i - 1
<1>1. PICK n \in Nat : n = hi - lo + 1
  OBVIOUS
<1>2. Bytes(lo, hi) = [i \in 1..n |-> lo + i - 1]
  BY <1>1 DEF Bytes
<1> QED BY <1>1, <1>2

\* Bytes that follow one another.
LEMMA BytesFollow ==
    ASSUME NEW a \in Nat, NEW b \in Int, b + 1 >= a
    PROVE  Bytes(0, a - 1) \o Bytes(a, b) = Bytes(0, b)
<1>1. PICK s \in Seq(Int) : s = Bytes(0, a - 1) /\ Len(s) = a /\ \A i \in 1..a : s[i] = i - 1
  <2>1. a - 1 \in Int /\ 0 \in Int /\ (a - 1) + 1 >= 0 /\ (a - 1) - 0 + 1 = a
    OBVIOUS
  <2>2. Bytes(0, a - 1) \in Seq(Int) /\ Len(Bytes(0, a - 1)) = a /\ \A i \in 1..a : Bytes(0, a - 1)[i] = 0 + i - 1
    BY BytesAre, <2>1
  <2> QED BY <2>2
<1>2. PICK t \in Seq(Int) : t = Bytes(a, b) /\ Len(t) = b - a + 1 /\ \A i \in 1..(b - a + 1) : t[i] = a + i - 1
  <2>1. a \in Int
    OBVIOUS
  <2>2. Bytes(a, b) \in Seq(Int) /\ Len(Bytes(a, b)) = b - a + 1 /\ \A i \in 1..(b - a + 1) : Bytes(a, b)[i] = a + i - 1
    BY BytesAre, <2>1
  <2> QED BY <2>2
<1>3. PICK u \in Seq(Int) : u = Bytes(0, b) /\ Len(u) = b + 1 /\ \A i \in 1..(b + 1) : u[i] = i - 1
  <2>1. 0 \in Int /\ b + 1 >= 0 /\ b - 0 + 1 = b + 1
    OBVIOUS
  <2>2. Bytes(0, b) \in Seq(Int) /\ Len(Bytes(0, b)) = b + 1 /\ \A i \in 1..(b + 1) : Bytes(0, b)[i] = 0 + i - 1
    BY BytesAre, <2>1
  <2> QED BY <2>2
<1>a. Len(s) + Len(t) = b + 1
  <2>1. Len(s) = a
    BY <1>1
  <2>2. Len(t) = b - a + 1
    BY <1>2
  <2> QED BY <2>1, <2>2
<1>b. /\ s \o t \in Seq(Int)
      /\ Len(s \o t) = Len(s) + Len(t)
      /\ \A i \in 1..(Len(s) + Len(t)) : (s \o t)[i] = IF i <= Len(s) THEN s[i] ELSE t[i - Len(s)]
  BY ConcatProperties
<1>4. s \o t \in Seq(Int) /\ Len(s \o t) = b + 1
  BY <1>a, <1>b
<1>5. \A i \in 1..(b + 1) : (s \o t)[i] = IF i <= a THEN s[i] ELSE t[i - a]
  BY <1>1, <1>a, <1>b
<1>6. ASSUME NEW i \in 1..(b + 1)  PROVE (s \o t)[i] = u[i]
  <2>1. (s \o t)[i] = IF i <= a THEN s[i] ELSE t[i - a]
    BY <1>5
  <2>2. u[i] = i - 1
    BY <1>3
  <2>3. CASE i <= a
    <3>1. i \in 1..a
      BY <2>3
    <3>2. s[i] = i - 1
      BY <1>1, <3>1
    <3> QED BY <2>1, <2>2, <2>3, <3>2
  <2>4. CASE ~(i <= a)
    <3>1. i - a \in 1..(b - a + 1)
      BY <2>4
    <3>2. t[i - a] = a + (i - a) - 1
      BY <1>2, <3>1
    <3>3. t[i - a] = i - 1
      BY <3>2
    <3> QED BY <2>1, <2>2, <2>4, <3>3
  <2> QED BY <2>3, <2>4
<1>7. s \o t = u
  BY <1>3, <1>4, <1>6, SeqEqual
<1> QED BY <1>1, <1>2, <1>3, <1>7

\* The first bytes of the file are a beginning of it.
LEMMA FirstBytes ==
    ASSUME NEW m \in Nat, NEW l \in Int, m = 0 \/ m <= l
    PROVE  IsPrefix(Bytes(0, m - 1), Bytes(0, l - 1))
<1>1. PICK s \in Seq(Int) : s = Bytes(0, m - 1) /\ Len(s) = m /\ \A i \in 1..m : s[i] = i - 1
  <2>1. m - 1 \in Int /\ 0 \in Int /\ (m - 1) + 1 >= 0 /\ (m - 1) - 0 + 1 = m
    OBVIOUS
  <2>2. Bytes(0, m - 1) \in Seq(Int) /\ Len(Bytes(0, m - 1)) = m /\ \A i \in 1..m : Bytes(0, m - 1)[i] = 0 + i - 1
    BY BytesAre, <2>1
  <2> QED BY <2>2
<1>2. PICK t \in Seq(Int) : t = Bytes(0, l - 1) /\ m <= Len(t) /\ \A i \in 1..m : t[i] = i - 1
  <2>1. CASE l >= 0
    <3>1. l - 1 \in Int /\ 0 \in Int /\ (l - 1) + 1 >= 0 /\ (l - 1) - 0 + 1 = l /\ m <= l
      BY <2>1
    <3>2. Bytes(0, l - 1) \in Seq(Int) /\ Len(Bytes(0, l - 1)) = l /\ \A i \in 1..l : Bytes(0, l - 1)[i] = 0 + i - 1
      BY BytesAre, <3>1
    <3> QED BY <3>1, <3>2
  <2>2. CASE l < 0
    <3>1. Bytes(0, l - 1) = Bytes(0, -1) /\ m = 0
      <4>1. 1..((l - 1) - 0 + 1) = {} /\ 1..(-1 - 0 + 1) = {} /\ m = 0
        BY <2>2
      <4>2. Bytes(0, l - 1) = [i \in {} |-> 0 + i - 1]
        BY <4>1 DEF Bytes
      <4>3. Bytes(0, -1) = [i \in {} |-> 0 + i - 1]
        BY <4>1 DEF Bytes
      <4> QED BY <4>1, <4>2, <4>3
    <3>2. Bytes(0, -1) \in Seq(Int) /\ Len(Bytes(0, -1)) = 0
      <4>1. 0 \in Int /\ -1 \in Int /\ -1 + 1 >= 0 /\ -1 - 0 + 1 = 0
        OBVIOUS
      <4> QED BY <4>1, BytesAre
    <3> QED BY <3>1, <3>2
  <2> QED BY <2>1, <2>2
<1>3. SubSeq(s, 1, m) \in Seq(Int) /\ Len(SubSeq(s, 1, m)) = m /\ \A i \in 1..m : SubSeq(s, 1, m)[i] = i - 1
  BY <1>1, SubSeqProperties
<1>4. SubSeq(t, 1, m) \in Seq(Int) /\ Len(SubSeq(t, 1, m)) = m /\ \A i \in 1..m : SubSeq(t, 1, m)[i] = i - 1
  BY <1>2, SubSeqProperties
<1>5. SubSeq(s, 1, m) = SubSeq(t, 1, m)
  BY <1>3, <1>4, SeqEqual
<1> QED BY <1>1, <1>2, <1>5 DEF IsPrefix

-----------------------------------------------------------------------------
(* The types, and where the tasks come from.                               *)

\* Where the file goes on after a segment that does not reach its end.
LEMMA NextSegment ==
    ASSUME NEW j \in Job, NEW n \in Nat
    PROVE  /\ Low(j, n) \in Nat /\ High(j, n) \in Int
           /\ High(j, n) < j.len - 1 => High(j, n) + 1 = Low(j, n + 1) /\ Low(j, n + 1) < j.len
<1>1. PICK d \in Nat, l \in Int : d = j.seg /\ l = j.len
  BY DEF Job
<1>2. PICK a \in Nat : a = n * d
  OBVIOUS
<1>3. (n + 1) * d = a + d
  BY <1>2
<1>4. Low(j, n) = a /\ Low(j, n + 1) = a + d
  BY <1>1, <1>2, <1>3 DEF Low
<1>5. High(j, n) = IF a + d - 1 > l - 1 THEN l - 1 ELSE a + d - 1
  BY <1>1, <1>4 DEF High
<1> QED BY <1>1, <1>4, <1>5

LEMMA DLTypes ==
    ASSUME DLInv, DownloadNext
    PROVE  DLTypeOK' /\ job' = job
<1> USE DEF DLInv, DLTypeOK, Task
<1>1. CASE HeadReturns
  BY <1>1 DEF HeadReturns, Merger
<1>2. CASE OpenOutput
  BY <1>2 DEF OpenOutput, Merger
<1>3. CASE PopTask
  <2>1. mg' = [mg EXCEPT !.pc = "copy", !.task = mg.i] \/ mg' = [mg EXCEPT !.pc = "recv"]
    BY <1>3 DEF PopTask, Merger
  <2>2. mg' \in [pc : {"none", "open", "check", "recv", "copy", "remove", "report", "end"}, i : Nat, task : Nat]
    BY <2>1
  <2> QED BY <1>3, <2>2 DEF PopTask
<1>4. CASE Merge
  <2>1. \/ mg' = [mg EXCEPT !.pc = "report"] \/ mg' = [mg EXCEPT !.pc = "remove"]
        \/ mg' = [mg EXCEPT !.pc = "check", !.i = mg.i + 1]
    BY <1>4 DEF Merge, Merger
  <2>2. mg' \in [pc : {"none", "open", "check", "recv", "copy", "remove", "report", "end"}, i : Nat, task : Nat]
    <3>1. PICK p \in Nat : p = mg.i + 1
      OBVIOUS
    <3>2. \/ mg' = [mg EXCEPT !.pc = "report"] \/ mg' = [mg EXCEPT !.pc = "remove"]
          \/ mg' = [mg EXCEPT !.pc = "check", !.i = p]
      BY <2>1, <3>1
    <3> QED BY <3>2
  <2> QED BY <1>4, <2>2 DEF Merge
<1>5. CASE RemoveTemp
  <2>1. wg - 1 \in Nat
    <3>1. IsFiniteSet(Active)
      BY DownloadConstants, FS_Subset DEF Active
    <3>2. Cardinality(Active) \in Nat
      BY <3>1, FS_CardinalityType
    <3> QED BY <1>5, <3>2 DEF RemoveTemp, Counted
  <2> QED BY <1>5, <2>1 DEF RemoveTemp, Merger
<1>6. CASE MergerReports
  <2>1. wg - 1 \in Nat
    <3>1. IsFiniteSet(Active)
      BY DownloadConstants, FS_Subset DEF Active
    <3>2. Cardinality(Active) \in Nat
      BY <3>1, FS_CardinalityType
    <3> QED BY <1>6, <3>2 DEF MergerReports, Counted
  <2> QED BY <1>6, <2>1 DEF MergerReports, Merger
<1>7. CASE Waited
  BY <1>7 DEF Waited
<1>8. CASE Finish
  BY <1>8 DEF Finish
<1>9. ASSUME NEW w \in Worker, SendTask(w)  PROVE DLTypeOK' /\ job' = job
  <2>1. PICK top \in Int : top = main.start + job.seg - 1
    BY DEF Job
  <2>2. PICK end \in Int : end = IF top > job.len - 1 THEN job.len - 1 ELSE top
    BY <2>1 DEF Job
  <2>3. /\ job' = job /\ wg' = wg /\ mg' = mg
        /\ wk' = [wk EXCEPT ![w] = [pc |-> "add", t |-> [index |-> main.index, lo |-> main.start, hi |-> end]]]
        /\ main' = IF end < job.len - 1
                   THEN [main EXCEPT !.index = @ + 1, !.start = end + 1]
                   ELSE [main EXCEPT !.pc = "select"]
    BY <1>9, <2>1, <2>2 DEF SendTask
  <2>4. end + 1 \in Nat \/ ~(end < job.len - 1)
    <3>1. main.start \in Nat /\ job.seg \in Nat /\ job.len \in Int
      BY DEF Job
    <3> QED BY <2>1, <2>2, <3>1
  <2>5. main' \in [pc : {"head", "send", "select", "err", "ok"}, index : Nat, start : Nat]
    <3>1. CASE end < job.len - 1
      <4>1. PICK p \in Nat, q \in Nat : p = main.index + 1 /\ q = end + 1
        BY <2>4, <3>1
      <4>2. main' = [main EXCEPT !.index = p, !.start = q]
        BY <2>3, <3>1, <4>1
      <4> QED BY <4>2
    <3>2. CASE ~(end < job.len - 1)
      BY <2>3, <3>2
    <3> QED BY <3>1, <3>2
  <2>6. wk' \in [Worker -> [pc : {"idle", "add", "fetch", "report", "complete", "done", "gone"}, t : Task]]
    BY <2>3
  <2> QED BY <2>3, <2>5, <2>6
<1>10. ASSUME NEW w \in Worker, HandleTask(w)  PROVE DLTypeOK' /\ job' = job
  BY <1>10 DEF HandleTask, Worker1
<1>11. ASSUME NEW w \in Worker, Fetch(w)  PROVE DLTypeOK' /\ job' = job
  <2>1. wk' = Worker1(w, "report") \/ wk' = Worker1(w, "complete")
    BY <1>11 DEF Fetch
  <2> QED BY <1>11, <2>1 DEF Fetch, Worker1
<1>12. ASSUME NEW w \in Worker, CompleteTask(w)  PROVE DLTypeOK' /\ job' = job
  BY <1>12 DEF CompleteTask, Worker1
<1>13. ASSUME NEW w \in Worker, TaskDone(w)  PROVE DLTypeOK' /\ job' = job
  <2>1. wg - 1 \in Nat
    <3>1. IsFiniteSet(Active) /\ w \in Active
      BY <1>13, DownloadConstants, FS_Subset DEF Active, TaskDone
    <3>2. Cardinality(Active) \in Nat /\ Cardinality(Active) # 0
      BY <3>1, FS_CardinalityType, FS_EmptySet
    <3> QED BY <3>2 DEF Counted
  <2> QED BY <1>13, <2>1 DEF TaskDone, Worker1
<1>14. ASSUME NEW w \in Worker, WorkerReports(w)  PROVE DLTypeOK' /\ job' = job
  BY <1>14 DEF WorkerReports, Worker1
<1>15. ASSUME NEW w \in Worker, WorkerQuits(w)  PROVE DLTypeOK' /\ job' = job
  BY <1>15 DEF WorkerQuits, Worker1
<1>16. ASSUME NEW n \in notes, PopNote(n)  PROVE DLTypeOK' /\ job' = job
  BY <1>16 DEF PopNote
<1>17. ASSUME NEW n \in notes, NoteQuits(n)  PROVE DLTypeOK' /\ job' = job
  BY <1>17 DEF NoteQuits
<1> QED BY <1>1, <1>2, <1>3, <1>4, <1>5, <1>6, <1>7, <1>8, <1>9, <1>10, <1>11, <1>12, <1>13,
           <1>14, <1>15, <1>16, <1>17 DEF DownloadNext

\* Every task is a segment, and Do is at the beginning of one.
LEMMA DLDivided ==
    ASSUME DLInv, DownloadNext
    PROVE  Divided'
<1> USE DEF DLInv
<1>0. DLTypeOK' /\ job' = job
  BY DLTypes
<1>a. /\ main \in [pc : {"head", "send", "select", "err", "ok"}, index : Nat, start : Nat]
      /\ wk \in [Worker -> [pc : {"idle", "add", "fetch", "report", "complete", "done", "gone"}, t : Task]]
  BY DEF DLTypeOK
<1>b. ASSUME wk' = wk, mg'.pc = "none" <=> mg.pc = "none", main'.index = main.index,
             main'.start = main.start, main'.pc \notin {"head", "send"} \/ main'.pc = main.pc
      PROVE  Divided'
  BY <1>0, <1>b DEF Divided
<1>c. ASSUME NEW w \in Worker, NEW p \in {"fetch", "report", "complete", "done", "idle", "gone"},
             wk' = Worker1(w, p), p = "fetch" => wk[w].pc = "add", mg' = mg,
             main'.index = main.index,
             main'.start = main.start, main'.pc \notin {"head", "send"} \/ main'.pc = main.pc
      PROVE  Divided'
  <2>1. \A v \in Worker : wk'[v].t = wk[v].t /\ wk'[v].pc = IF v = w THEN p ELSE wk[v].pc
    BY <1>a, <1>c DEF Worker1
  <2>2. \A v \in Worker : wk'[v].pc \in {"add", "fetch"} => wk[v].pc \in {"add", "fetch"}
    BY <1>c, <2>1
  <2>3. ASSUME NEW v \in Worker, wk'[v].pc \in {"add", "fetch"}
        PROVE  wk'[v].t.lo = Low(job, wk'[v].t.index) /\ wk'[v].t.hi = High(job, wk'[v].t.index)
    BY <2>1, <2>2, <2>3 DEF Divided
  <2> QED BY <1>0, <1>c, <2>3 DEF Divided
<1>1. CASE HeadReturns
  <2>1. main'.index = main.index /\ main'.start = main.start /\ wk' = wk /\ main'.pc \in {"send", "err"}
    BY <1>1, <1>a DEF HeadReturns
  <2>2. main'.pc = "send" => job.len > 0 /\ main'.start < job.len
    <3>1. CASE job.len > 0
      <4>1. main.start < job.len
        BY <3>1, <1>1 DEF HeadReturns, Divided
      <4> QED BY <3>1, <2>1, <4>1
    <3>2. CASE ~(job.len > 0)
      BY <1>1, <1>a, <3>2 DEF HeadReturns
    <3> QED BY <3>1, <3>2
  <2>3. mg'.pc # "none" => job.len > 0
    BY <1>1 DEF HeadReturns, Divided
  <2> QED BY <1>0, <2>1, <2>2, <2>3 DEF Divided
<1>2. CASE OpenOutput
  BY <1>2, <1>b DEF OpenOutput, Merger, DLTypeOK
<1>3. CASE PopTask
  BY <1>3, <1>b DEF PopTask, Merger, DLTypeOK
<1>4. CASE Merge
  <2>1. \/ mg' = [mg EXCEPT !.pc = "report"] \/ mg' = [mg EXCEPT !.pc = "remove"]
        \/ mg' = [mg EXCEPT !.pc = "check", !.i = mg.i + 1]
    BY <1>4 DEF Merge, Merger, DLTypeOK
  <2> QED BY <1>4, <1>b, <2>1 DEF Merge, DLTypeOK
<1>5. CASE RemoveTemp
  BY <1>5, <1>b DEF RemoveTemp, Merger, DLTypeOK
<1>6. CASE MergerReports
  BY <1>6, <1>a, <1>b DEF MergerReports, Merger, DLTypeOK
<1>7. CASE Waited
  BY <1>7, <1>b DEF Waited
<1>8. CASE Finish
  BY <1>8, <1>a, <1>b DEF Finish
<1>9. ASSUME NEW w \in Worker, SendTask(w)  PROVE Divided'
  <2>1. job \in Job /\ main.index \in Nat /\ main.start = Low(job, main.index) /\ main.pc = "send"
    BY <1>9, <1>a DEF DLTypeOK, Divided, SendTask
  <2>2. PICK end \in Int : end = High(job, main.index)
    BY <2>1, NextSegment
  <2>3. /\ mg' = mg
        /\ wk' = [wk EXCEPT ![w] = [pc |-> "add", t |-> [index |-> main.index, lo |-> main.start, hi |-> end]]]
        /\ main' = IF end < job.len - 1
                   THEN [main EXCEPT !.index = @ + 1, !.start = end + 1]
                   ELSE [main EXCEPT !.pc = "select"]
    BY <1>9, <2>1, <2>2 DEF SendTask, High
  <2>4. \A v \in Worker : wk'[v].pc \in {"add", "fetch"} =>
            wk'[v].t.lo = Low(job, wk'[v].t.index) /\ wk'[v].t.hi = High(job, wk'[v].t.index)
    <3>1. ASSUME NEW v \in Worker, v # w  PROVE wk'[v] = wk[v]
      BY <1>a, <2>3, <3>1
    <3>2. wk'[w] = [pc |-> "add", t |-> [index |-> main.index, lo |-> main.start, hi |-> end]]
      BY <1>a, <2>3
    <3>3. wk'[w].t.index = main.index /\ wk'[w].t.lo = main.start /\ wk'[w].t.hi = end
      BY <3>2
    <3>4. wk'[w].t.lo = Low(job, wk'[w].t.index) /\ wk'[w].t.hi = High(job, wk'[w].t.index)
      BY <2>1, <2>2, <3>3
    <3> QED BY <3>1, <3>4 DEF Divided
  <2>5. CASE end < job.len - 1
    <3>1. PICK p \in Nat, q \in Int : p = main.index + 1 /\ q = end + 1
      BY <2>1
    <3>2. q = Low(job, p) /\ Low(job, p) < job.len
      BY <2>1, <2>2, <2>5, <3>1, NextSegment
    <3>3. main' = [main EXCEPT !.index = p, !.start = q]
      BY <2>3, <2>5, <3>1
    <3>4. main'.pc = "send" /\ main'.index = p /\ main'.start = q
      BY <1>a, <2>1, <3>3
    <3> QED BY <1>0, <2>1, <2>3, <2>4, <3>2, <3>4 DEF Divided
  <2>6. CASE ~(end < job.len - 1)
    <3>1. main' = [main EXCEPT !.pc = "select"]
      BY <2>3, <2>6
    <3>2. main'.pc = "select" /\ main'.index = main.index /\ main'.start = main.start
      BY <1>a, <3>1
    <3> QED BY <1>0, <2>1, <2>3, <2>4, <3>2 DEF Divided
  <2> QED BY <2>5, <2>6
<1>10. ASSUME NEW w \in Worker, HandleTask(w)  PROVE Divided'
  BY <1>10, <1>c DEF HandleTask
<1>11. ASSUME NEW w \in Worker, Fetch(w)  PROVE Divided'
  BY <1>11, <1>c DEF Fetch
<1>12. ASSUME NEW w \in Worker, CompleteTask(w)  PROVE Divided'
  BY <1>12, <1>c DEF CompleteTask
<1>13. ASSUME NEW w \in Worker, TaskDone(w)  PROVE Divided'
  BY <1>13, <1>c DEF TaskDone
<1>14. ASSUME NEW w \in Worker, WorkerReports(w)  PROVE Divided'
  <2>1. main'.pc = "err" /\ main'.index = main.index /\ main'.start = main.start
    BY <1>14, <1>a DEF WorkerReports
  <2> QED BY <1>14, <1>c, <2>1 DEF WorkerReports
<1>15. ASSUME NEW w \in Worker, WorkerQuits(w)  PROVE Divided'
  BY <1>15, <1>c DEF WorkerQuits
<1>16. ASSUME NEW n \in notes, PopNote(n)  PROVE Divided'
  BY <1>16, <1>b DEF PopNote, DLTypeOK
<1>17. ASSUME NEW n \in notes, NoteQuits(n)  PROVE Divided'
  BY <1>17, <1>b DEF NoteQuits
<1> QED BY <1>1, <1>2, <1>3, <1>4, <1>5, <1>6, <1>7, <1>8, <1>9, <1>10, <1>11, <1>12, <1>13,
           <1>14, <1>15, <1>16, <1>17 DEF DownloadNext

-----------------------------------------------------------------------------
(* The temporary files and the output.                                     *)

LEMMA DLFetched ==
    ASSUME DLInv, DownloadNext
    PROVE  Fetched'
<1> USE DEF DLInv
<1>0. job' = job
  BY DLTypes
<1>a. /\ wk \in [Worker -> [pc : {"idle", "add", "fetch", "report", "complete", "done", "gone"}, t : Task]]
      /\ mg \in [pc : {"none", "open", "check", "recv", "copy", "remove", "report", "end"}, i : Nat, task : Nat]
  BY DEF DLTypeOK
<1>b. ASSUME temp' = temp, taskMap' \subseteq taskMap, notes' \subseteq notes, wk' = wk,
             mg'.pc = "copy" => mg'.task = mg'.i /\ mg'.task \in DOMAIN temp
      PROVE  Fetched'
  BY <1>0, <1>b DEF Fetched
<1>c. ASSUME NEW w \in Worker, NEW p \in {"fetch", "report", "done", "idle", "gone"},
             wk' = Worker1(w, p), mg' = mg, temp' = temp, taskMap' = taskMap, notes' = notes
      PROVE  Fetched'
  <2>1. \A v \in Worker : wk'[v].t = wk[v].t /\ wk'[v].pc = IF v = w THEN p ELSE wk[v].pc
    BY <1>a, <1>c DEF Worker1
  <2>2. \A v \in Worker : wk'[v].pc = "complete" => wk[v].pc = "complete"
    BY <1>c, <2>1
  <2> QED BY <1>0, <1>c, <2>1, <2>2 DEF Fetched
<1>1. CASE HeadReturns
  BY <1>1, <1>a, <1>b DEF HeadReturns, Merger, Fetched
<1>2. CASE OpenOutput
  BY <1>2, <1>a, <1>b DEF OpenOutput, Merger
<1>3. CASE PopTask
  <2>1. CASE mg.i \in taskMap
    <3>1. mg' = [mg EXCEPT !.pc = "copy", !.task = mg.i] /\ taskMap' \subseteq taskMap
      BY <1>3, <2>1 DEF PopTask
    <3>2. mg'.task = mg'.i /\ mg'.task = mg.i
      BY <1>a, <3>1
    <3>3. mg'.task \in DOMAIN temp
      BY <2>1, <3>2 DEF Fetched
    <3> QED BY <1>3, <1>b, <3>1, <3>2, <3>3 DEF PopTask
  <2>2. CASE mg.i \notin taskMap
    <3>1. mg' = [mg EXCEPT !.pc = "recv"] /\ taskMap' = taskMap
      BY <1>3, <2>2 DEF PopTask, Merger
    <3>2. mg'.pc = "recv"
      BY <1>a, <3>1
    <3> QED BY <1>3, <1>b, <3>1, <3>2 DEF PopTask
  <2> QED BY <2>1, <2>2
<1>4. CASE Merge
  <2>1. \/ mg' = [mg EXCEPT !.pc = "report"] \/ mg' = [mg EXCEPT !.pc = "remove"]
        \/ mg' = [mg EXCEPT !.pc = "check", !.i = mg.i + 1]
    BY <1>4 DEF Merge, Merger
  <2>2. mg'.pc # "copy"
    BY <1>a, <2>1
  <2> QED BY <1>4, <1>b, <2>2 DEF Merge
<1>5. CASE RemoveTemp
  BY <1>5, <1>a, <1>b DEF RemoveTemp, Merger
<1>6. CASE MergerReports
  BY <1>6, <1>a, <1>b DEF MergerReports, Merger
<1>7. CASE Waited
  BY <1>7, <1>b DEF Waited, Fetched
<1>8. CASE Finish
  BY <1>8, <1>b DEF Finish, Fetched
<1>9. ASSUME NEW w \in Worker, SendTask(w)  PROVE Fetched'
  <2>1. PICK t : wk' = [wk EXCEPT ![w] = [pc |-> "add", t |-> t]]
    BY <1>9 DEF SendTask
  <2>2. wk'[w].pc = "add" /\ \A v \in Worker : v # w => wk'[v] = wk[v]
    BY <1>a, <2>1
  <2> QED BY <1>0, <1>9, <2>2 DEF Fetched, SendTask
<1>10. ASSUME NEW w \in Worker, HandleTask(w)  PROVE Fetched'
  BY <1>10, <1>c DEF HandleTask
<1>11. ASSUME NEW w \in Worker, Fetch(w)  PROVE Fetched'
  <2>1. CASE wk' = Worker1(w, "report") /\ UNCHANGED temp
    BY <1>11, <1>c, <2>1 DEF Fetch
  <2>2. CASE ~(wk' = Worker1(w, "report") /\ UNCHANGED temp)
    <3>1. PICK k : k = wk[w].t.index
      OBVIOUS
    <3>2. PICK c : c = IF job.ranged THEN Bytes(wk[w].t.lo, wk[w].t.hi) ELSE File
      OBVIOUS
    <3>3. /\ wk' = Worker1(w, "complete") /\ taskMap' = taskMap /\ notes' = notes /\ mg' = mg
          /\ temp' = [i \in DOMAIN temp \union {k} |-> IF i # k THEN temp[i] ELSE c]
      BY <1>11, <2>2, <3>1, <3>2 DEF Fetch
    <3>4. DOMAIN temp' = DOMAIN temp \union {k}
      BY <3>3
    <3>5. ASSUME job.ranged, NEW n \in DOMAIN temp'  PROVE temp'[n] = Segment(job, n)
      <4>1. CASE n = k
        <5>1. temp'[n] = Bytes(wk[w].t.lo, wk[w].t.hi)
          BY <3>2, <3>3, <3>5, <4>1
        <5>2. wk[w].t.lo = Low(job, k) /\ wk[w].t.hi = High(job, k)
          BY <1>11, <3>1 DEF Fetch, Divided
        <5> QED BY <4>1, <5>1, <5>2 DEF Segment
      <4>2. CASE n # k
        BY <3>3, <3>4, <3>5, <4>2 DEF Fetched
      <4> QED BY <4>1, <4>2
    <3>6. \A v \in Worker : wk'[v].t = wk[v].t /\ wk'[v].pc = IF v = w THEN "complete" ELSE wk[v].pc
      BY <1>a, <3>3 DEF Worker1
    <3>7. \A v \in Worker : wk'[v].pc = "complete" => wk'[v].t.index \in DOMAIN temp'
      BY <3>1, <3>4, <3>6 DEF Fetched
    <3> QED BY <1>0, <3>3, <3>4, <3>5, <3>7 DEF Fetched
  <2> QED BY <2>1, <2>2
<1>12. ASSUME NEW w \in Worker, CompleteTask(w)  PROVE Fetched'
  <2>1. \A v \in Worker : wk'[v].t = wk[v].t /\ wk'[v].pc = IF v = w THEN "done" ELSE wk[v].pc
    BY <1>12, <1>a DEF Worker1, CompleteTask
  <2>2. wk[w].t.index \in DOMAIN temp
    BY <1>12 DEF CompleteTask, Fetched
  <2>3. temp' = temp /\ taskMap' \subseteq DOMAIN temp /\ notes' \subseteq DOMAIN temp /\ mg' = mg
    BY <1>12, <2>2 DEF CompleteTask, Fetched
  <2> QED BY <1>0, <2>1, <2>3 DEF Fetched
<1>13. ASSUME NEW w \in Worker, TaskDone(w)  PROVE Fetched'
  BY <1>13, <1>c DEF TaskDone
<1>14. ASSUME NEW w \in Worker, WorkerReports(w)  PROVE Fetched'
  BY <1>14, <1>c DEF WorkerReports
<1>15. ASSUME NEW w \in Worker, WorkerQuits(w)  PROVE Fetched'
  BY <1>15, <1>c DEF WorkerQuits
<1>16. ASSUME NEW n \in notes, PopNote(n)  PROVE Fetched'
  <2>1. CASE n = mg.i
    <3>1. mg' = [mg EXCEPT !.pc = "copy", !.task = n] /\ taskMap' \subseteq taskMap
      BY <1>16, <2>1 DEF PopNote
    <3>2. mg'.task = mg'.i /\ mg'.task = n
      BY <1>a, <2>1, <3>1
    <3>3. mg'.task \in DOMAIN temp
      BY <3>2 DEF Fetched
    <3> QED BY <1>16, <1>b, <3>1, <3>2, <3>3 DEF PopNote
  <2>2. CASE n # mg.i
    BY <1>16, <1>b, <2>2 DEF PopNote
  <2> QED BY <2>1, <2>2
<1>17. ASSUME NEW n \in notes, NoteQuits(n)  PROVE Fetched'
  BY <1>17, <1>b DEF NoteQuits, Fetched
<1> QED BY <1>1, <1>2, <1>3, <1>4, <1>5, <1>6, <1>7, <1>8, <1>9, <1>10, <1>11, <1>12, <1>13,
           <1>14, <1>15, <1>16, <1>17 DEF DownloadNext

LEMMA DLMerged ==
    ASSUME DLInv, DownloadNext
    PROVE  Merged'
<1> USE DEF DLInv
<1>0. job' = job
  BY DLTypes
<1>a. /\ main \in [pc : {"head", "send", "select", "err", "ok"}, index : Nat, start : Nat]
      /\ mg \in [pc : {"none", "open", "check", "recv", "copy", "remove", "report", "end"}, i : Nat, task : Nat]
      /\ job \in Job /\ job.len \in Int
  BY DEF DLTypeOK, Job
<1>b. ASSUME mg' = mg, merged' = merged, main.pc = "err" => main'.pc = "err"
      PROVE  Merged'
  BY <1>0, <1>b DEF Merged, File
<1>c. ASSUME merged' = merged, mg'.pc \in {"recv", "copy"}, mg'.i = mg.i, mg.pc \in {"check", "recv"}
      PROVE  Merged'
  BY <1>0, <1>c DEF Merged, File
<1>1. CASE HeadReturns
  <2>1. mg.pc = "none" /\ mg.i = 0 /\ merged = <<>> /\ merged' = merged
    BY <1>1 DEF HeadReturns, Divided, Merged
  <2>2. (mg'.pc = "none" \/ mg'.pc = "open") /\ mg'.i = 0
    BY <1>1, <1>a, <2>1 DEF HeadReturns, Merger
  <2> QED BY <1>0, <2>1, <2>2 DEF Merged
<1>2. CASE OpenOutput
  <2>1. mg.pc = "open" /\ mg.i = 0 /\ merged = <<>> /\ merged' = merged /\ job.len > 0
    BY <1>2 DEF OpenOutput, Divided, Merged
  <2>2. (mg'.pc = "check" \/ mg'.pc = "report") /\ mg'.i = 0
    BY <1>2, <1>a, <2>1 DEF OpenOutput, Merger
  <2>3. Low(job, 0) = 0
    BY <1>a DEF Low, Job
  <2>4. Bytes(0, 0 - 1) = <<>>
    <3>1. 1..(0 - 1 - 0 + 1) = {}
      OBVIOUS
    <3> QED BY <3>1 DEF Bytes
  <2>5. job.ranged => \E m \in Nat : merged = Bytes(0, m - 1) /\ (m = 0 \/ m <= job.len)
    BY DEF Merged
  <2> QED BY <1>0, <2>1, <2>2, <2>3, <2>4, <2>5 DEF Merged
<1>3. CASE PopTask
  <2>1. mg' = [mg EXCEPT !.pc = "copy", !.task = mg.i] \/ mg' = [mg EXCEPT !.pc = "recv"]
    BY <1>3 DEF PopTask, Merger
  <2>2. mg'.pc \in {"recv", "copy"} /\ mg'.i = mg.i
    BY <1>a, <2>1
  <2> QED BY <1>3, <1>c, <2>2 DEF PopTask
<1>4. CASE Merge
  <2>1. mg.pc = "copy" /\ mg.task = mg.i /\ mg.task \in DOMAIN temp /\ Low(job, mg.i) < job.len /\ job.len > 0
    BY <1>4 DEF Merge, Fetched, Merged, Divided
  <2>2. CASE mg' = Merger("report") /\ merged' = merged
    <3>1. mg'.pc = "report"
      BY <1>a, <2>2 DEF Merger
    <3> QED BY <1>0, <2>2, <3>1 DEF Merged
  <2>3. CASE /\ merged' = merged \o temp[mg.task]
             /\ mg' = IF mg.i < lastIndex THEN [mg EXCEPT !.pc = "check", !.i = @ + 1] ELSE Merger("remove")
    <3>1. PICK n \in Nat : n = mg.i
      BY <1>a
    <3>2. PICK d \in Nat, l \in Nat : d = job.seg /\ l = job.len /\ d > 0 /\ l > 0
      BY <1>a, <2>1 DEF Job
    <3>3. PICK a \in Nat : a = n * d
      OBVIOUS
    <3>4. Low(job, n) = a /\ (n + 1) * d = a + d /\ a < l
      BY <2>1, <3>1, <3>2, <3>3 DEF Low
    <3>5. PICK b \in Int : b = (IF a + d - 1 > l - 1 THEN l - 1 ELSE a + d - 1) /\ b + 1 >= a
      BY <3>2, <3>4
    <3>6. High(job, n) = b
      BY <3>2, <3>4, <3>5 DEF High
    <3>7. job.ranged => merged' = Bytes(0, b)
      <4>1. HAVE job.ranged
      <4>2. merged = Bytes(0, a - 1)
        BY <2>1, <3>1, <3>4, <4>1 DEF Merged
      <4>3. temp[mg.task] = Bytes(a, b)
        BY <2>1, <3>1, <3>4, <3>6, <4>1 DEF Fetched, Segment
      <4> QED BY <2>3, <3>5, <4>2, <4>3, BytesFollow
    <3>8. job.ranged => \E m \in Nat : merged' = Bytes(0, m - 1) /\ (m = 0 \/ m <= job.len)
      <4>1. HAVE job.ranged
      <4>2. PICK m \in Nat : m = b + 1
        BY <3>5
      <4>3. b = m - 1 /\ m <= job.len
        BY <3>2, <3>5, <4>2
      <4> QED BY <3>7, <4>1, <4>3
    <3>9. CASE n < lastIndex
      <4>1. mg'.pc = "check" /\ mg'.i = n + 1
        BY <1>a, <2>3, <3>1, <3>9
      <4>2. a + d < l
        BY <3>1, <3>2, <3>4, <3>9, LastSegment DEF lastIndex
      <4>3. Low(job, n + 1) = a + d /\ a + d - 1 = b
        BY <3>2, <3>4, <3>5, <4>2 DEF Low
      <4>4. mg'.pc = "check" /\ Low(job, mg'.i) < job.len /\ (job.ranged => merged' = Bytes(0, Low(job, mg'.i) - 1))
        BY <3>2, <3>7, <4>1, <4>2, <4>3
      <4> QED BY <1>0, <3>8, <4>4 DEF Merged
    <3>10. CASE ~(n < lastIndex)
      <4>1. mg'.pc = "remove"
        BY <1>a, <2>3, <3>1, <3>10 DEF Merger
      <4>2. a + d >= l
        BY <3>1, <3>2, <3>4, <3>10, LastSegment DEF lastIndex
      <4>3. b = l - 1
        BY <3>2, <3>5, <4>2
      <4>4. job.ranged => merged' = Bytes(0, job.len - 1)
        BY <3>2, <3>7, <4>3
      <4> QED BY <1>0, <3>8, <4>1, <4>4 DEF Merged, File
    <3> QED BY <3>9, <3>10
  <2> QED BY <1>4, <2>2, <2>3 DEF Merge
<1>5. CASE RemoveTemp
  <2>1. mg.pc = "remove" /\ mg'.pc \in {"report", "end"} /\ merged' = merged
    BY <1>5, <1>a DEF RemoveTemp, Merger
  <2> QED BY <1>0, <2>1 DEF Merged, File
<1>6. CASE MergerReports
  <2>1. main'.pc = "err" /\ mg'.pc = "end" /\ merged' = merged
    BY <1>6, <1>a DEF MergerReports, Merger
  <2> QED BY <1>0, <2>1 DEF Merged
<1>7. CASE Waited
  BY <1>7, <1>b DEF Waited
<1>8. CASE Finish
  BY <1>8, <1>a, <1>b DEF Finish
<1>9. ASSUME NEW w \in Worker, SendTask(w)  PROVE Merged'
  BY <1>9, <1>b DEF SendTask
<1>10. ASSUME NEW w \in Worker, HandleTask(w)  PROVE Merged'
  BY <1>10, <1>b DEF HandleTask
<1>11. ASSUME NEW w \in Worker, Fetch(w)  PROVE Merged'
  BY <1>11, <1>b DEF Fetch
<1>12. ASSUME NEW w \in Worker, CompleteTask(w)  PROVE Merged'
  BY <1>12, <1>b DEF CompleteTask
<1>13. ASSUME NEW w \in Worker, TaskDone(w)  PROVE Merged'
  BY <1>13, <1>b DEF TaskDone
<1>14. ASSUME NEW w \in Worker, WorkerReports(w)  PROVE Merged'
  BY <1>14, <1>b DEF WorkerReports
<1>15. ASSUME NEW w \in Worker, WorkerQuits(w)  PROVE Merged'
  BY <1>15, <1>b DEF WorkerQuits
<1>16. ASSUME NEW n \in notes, PopNote(n)  PROVE Merged'
  <2>1. CASE n = mg.i
    <3>1. mg'.pc = "copy" /\ mg'.i = mg.i
      BY <1>16, <1>a, <2>1 DEF PopNote
    <3> QED BY <1>16, <1>c, <3>1 DEF PopNote
  <2>2. CASE n # mg.i
    BY <1>16, <1>b, <2>2 DEF PopNote
  <2> QED BY <2>1, <2>2
<1>17. ASSUME NEW n \in notes, NoteQuits(n)  PROVE Merged'
  BY <1>17, <1>b DEF NoteQuits
<1> QED BY <1>1, <1>2, <1>3, <1>4, <1>5, <1>6, <1>7, <1>8, <1>9, <1>10, <1>11, <1>12, <1>13,
           <1>14, <1>15, <1>16, <1>17 DEF DownloadNext

-----------------------------------------------------------------------------
(* The WaitGroup.                                                          *)

LEMMA DLCounted ==
    ASSUME DLInv, DownloadNext
    PROVE  Counted'
<1> USE DEF DLInv
<1>a. /\ main \in [pc : {"head", "send", "select", "err", "ok"}, index : Nat, start : Nat]
      /\ wk \in [Worker -> [pc : {"idle", "add", "fetch", "report", "complete", "done", "gone"}, t : Task]]
      /\ mg \in [pc : {"none", "open", "check", "recv", "copy", "remove", "report", "end"}, i : Nat, task : Nat]
  BY DEF DLTypeOK
<1>f. IsFiniteSet(Active) /\ Cardinality(Active) \in Nat
  BY DownloadConstants, FS_Subset, FS_CardinalityType DEF Active
<1>b. ASSUME wk' = wk, wg' = wg, chans' = chans, mg.pc \in {"none", "end"} <=> mg'.pc \in {"none", "end"},
             mg.pc = "end" => mg'.pc = "end", main'.pc = "ok" => main.pc = "ok"
      PROVE  Counted'
  BY <1>b DEF Counted, Active
<1>c. ASSUME NEW w \in Worker, NEW p \in {"fetch", "report", "complete", "done", "idle", "gone"},
             wk' = Worker1(w, p),
             wk[w].pc \in {"fetch", "complete", "report", "done"} <=> p \in {"fetch", "complete", "report", "done"},
             wg' = wg, chans' = chans, mg' = mg, main'.pc = "ok" => main.pc = "ok"
      PROVE  Counted'
  <2>1. \A v \in Worker : wk'[v].pc = IF v = w THEN p ELSE wk[v].pc
    BY <1>a, <1>c DEF Worker1
  <2>2. Active' = Active
    BY <1>c, <2>1 DEF Active
  <2> QED BY <1>c, <2>2 DEF Counted
<1>d. ASSUME wk' = wk, wg' = wg - 1, chans' = chans, mg.pc \notin {"none", "end"}, mg'.pc = "end"
      PROVE  Counted'
  <2>1. Active' = Active
    BY <1>d DEF Active
  <2> QED BY <1>d, <1>f, <2>1 DEF Counted
<1>1. CASE HeadReturns
  <2>1. mg.pc = "none" /\ main.pc = "head"
    BY <1>1 DEF HeadReturns, Divided
  <2>2. CASE main' = [main EXCEPT !.pc = "err"] /\ UNCHANGED <<mg, wg>>
    BY <1>1, <1>a, <1>b, <2>2 DEF HeadReturns
  <2>3. CASE main' = [main EXCEPT !.pc = "send"] /\ mg' = Merger("open") /\ wg' = wg + 1
    <3>1. mg'.pc = "open" /\ main'.pc = "send" /\ chans' = chans
      BY <1>1, <1>a, <2>3 DEF Merger, HeadReturns
    <3>2. Active' = Active
      BY <1>1 DEF Active, HeadReturns
    <3> QED BY <1>f, <2>1, <2>3, <3>1, <3>2 DEF Counted
  <2> QED BY <1>1, <2>2, <2>3 DEF HeadReturns
<1>2. CASE OpenOutput
  BY <1>2, <1>a, <1>b DEF OpenOutput, Merger
<1>3. CASE PopTask
  <2>1. mg' = [mg EXCEPT !.pc = "copy", !.task = mg.i] \/ mg' = [mg EXCEPT !.pc = "recv"]
    BY <1>3 DEF PopTask, Merger
  <2>2. mg'.pc \in {"recv", "copy"}
    BY <1>a, <2>1
  <2> QED BY <1>3, <1>b, <2>2 DEF PopTask
<1>4. CASE Merge
  <2>1. \/ mg' = [mg EXCEPT !.pc = "report"] \/ mg' = [mg EXCEPT !.pc = "remove"]
        \/ mg' = [mg EXCEPT !.pc = "check", !.i = mg.i + 1]
    BY <1>4 DEF Merge, Merger
  <2>2. mg'.pc \in {"report", "remove", "check"}
    BY <1>a, <2>1
  <2> QED BY <1>4, <1>b, <2>2 DEF Merge
<1>5. CASE RemoveTemp
  <2>1. CASE mg' = Merger("report") /\ UNCHANGED wg
    BY <1>5, <1>a, <1>b, <2>1 DEF RemoveTemp, Merger
  <2>2. CASE mg' = Merger("end") /\ wg' = wg - 1
    BY <1>5, <1>a, <1>d, <2>2 DEF RemoveTemp, Merger
  <2> QED BY <1>5, <2>1, <2>2 DEF RemoveTemp
<1>6. CASE MergerReports
  BY <1>6, <1>a, <1>d DEF MergerReports, Merger
<1>7. CASE Waited
  <2>1. mg.pc = "end"
    <3>1. wg = 0 /\ mg.pc # "none"
      BY <1>7 DEF Waited
    <3> QED BY <1>f, <3>1 DEF Counted
  <2>2. Active' = Active
    BY <1>7 DEF Waited, Active
  <2> QED BY <1>7, <2>1, <2>2 DEF Waited, Counted
<1>8. CASE Finish
  <2>1. mg.pc = "end"
    BY <1>8 DEF Finish, Counted
  <2>2. Active' = Active
    BY <1>8 DEF Finish, Active
  <2> QED BY <1>8, <2>1, <2>2 DEF Finish, Counted
<1>9. ASSUME NEW w \in Worker, SendTask(w)  PROVE Counted'
  <2>1. PICK t : wk' = [wk EXCEPT ![w] = [pc |-> "add", t |-> t]]
    BY <1>9 DEF SendTask
  <2>2. wk'[w].pc = "add" /\ \A v \in Worker : v # w => wk'[v] = wk[v]
    BY <1>a, <2>1
  <2>3. Active' = Active
    BY <1>9, <2>2 DEF Active, SendTask
  <2>4. main'.pc # "ok"
    BY <1>9, <1>a DEF SendTask
  <2> QED BY <1>9, <2>3, <2>4 DEF Counted, SendTask
<1>10. ASSUME NEW w \in Worker, HandleTask(w)  PROVE Counted'
  <2>1. \A v \in Worker : wk'[v].pc = IF v = w THEN "fetch" ELSE wk[v].pc
    BY <1>10, <1>a DEF Worker1, HandleTask
  <2>2. Active' = Active \union {w} /\ w \notin Active
    BY <1>10, <2>1 DEF Active, HandleTask
  <2>3. Cardinality(Active') = Cardinality(Active) + 1
    BY <1>f, <2>2, FS_AddElement
  <2>4. wg' = wg + 1 /\ chans' = chans /\ mg' = mg /\ main' = main
    BY <1>10 DEF HandleTask
  <2> QED BY <1>f, <2>3, <2>4 DEF Counted
<1>11. ASSUME NEW w \in Worker, Fetch(w)  PROVE Counted'
  BY <1>11, <1>c DEF Fetch
<1>12. ASSUME NEW w \in Worker, CompleteTask(w)  PROVE Counted'
  BY <1>12, <1>c DEF CompleteTask
<1>13. ASSUME NEW w \in Worker, TaskDone(w)  PROVE Counted'
  <2>1. \A v \in Worker : wk'[v].pc = IF v = w THEN "idle" ELSE wk[v].pc
    BY <1>13, <1>a DEF Worker1, TaskDone
  <2>2. Active' = Active \ {w} /\ w \in Active
    BY <1>13, <2>1 DEF Active, TaskDone
  <2>3. Cardinality(Active') = Cardinality(Active) - 1
    BY <1>f, <2>2, FS_RemoveElement
  <2>4. wg' = wg - 1 /\ chans' = chans /\ mg' = mg /\ main' = main
    BY <1>13 DEF TaskDone
  <2> QED BY <1>f, <2>3, <2>4 DEF Counted
<1>14. ASSUME NEW w \in Worker, WorkerReports(w)  PROVE Counted'
  <2>1. main'.pc = "err"
    BY <1>14, <1>a DEF WorkerReports
  <2> QED BY <1>14, <1>c, <2>1 DEF WorkerReports
<1>15. ASSUME NEW w \in Worker, WorkerQuits(w)  PROVE Counted'
  BY <1>15, <1>c DEF WorkerQuits
<1>16. ASSUME NEW n \in notes, PopNote(n)  PROVE Counted'
  <2>1. CASE n = mg.i
    <3>1. mg'.pc = "copy"
      BY <1>16, <1>a, <2>1 DEF PopNote
    <3> QED BY <1>16, <1>b, <3>1 DEF PopNote
  <2>2. CASE n # mg.i
    BY <1>16, <1>b, <2>2 DEF PopNote
  <2> QED BY <2>1, <2>2
<1>17. ASSUME NEW n \in notes, NoteQuits(n)  PROVE Counted'
  BY <1>17, <1>b DEF NoteQuits
<1> QED BY <1>1, <1>2, <1>3, <1>4, <1>5, <1>6, <1>7, <1>8, <1>9, <1>10, <1>11, <1>12, <1>13,
           <1>14, <1>15, <1>16, <1>17 DEF DownloadNext

-----------------------------------------------------------------------------
(* The theorems.                                                           *)

LEMMA DLInit ==
    ASSUME DownloadInit \/ DownloadRest
    PROVE  DLInv
<1>1. job \in Job
  <2>1. CASE DownloadInit
    BY <2>1, DownloadConstants DEF DownloadInit, Job
  <2>2. CASE DownloadRest
    <3>1. job = [len |-> 0, seg |-> 1, ranged |-> FALSE]
      BY <2>2 DEF DownloadRest
    <3>2. 0 \in Int /\ 1 \in Nat \ {0}
      OBVIOUS
    <3> QED BY <3>1, <3>2 DEF Job
  <2> QED BY <2>1, <2>2
<1>2. ensure
  BY DEF DownloadInit, DownloadRest
<1>3. DLTypeOK
  BY <1>1, <1>2 DEF ensure, NoTask, DLTypeOK, Task
<1>4. Divided
  BY <1>1, <1>2 DEF ensure, Divided, Low, Job
<1>5. Fetched
  BY <1>2 DEF ensure, Fetched
<1>6. Merged
  <2>1. Bytes(0, 0 - 1) = <<>>
    <3>1. 1..(0 - 1 - 0 + 1) = {}
      OBVIOUS
    <3> QED BY <3>1 DEF Bytes
  <2>2. \E m \in Nat : merged = Bytes(0, m - 1) /\ (m = 0 \/ m <= job.len)
    BY <1>2, <2>1 DEF ensure
  <2> QED BY <1>2, <2>2 DEF ensure, Merged
<1>7. Counted
  <2>1. Active = {}
    BY <1>2 DEF ensure, Active
  <2>2. Cardinality(Active) = 0
    BY <2>1, FS_EmptySet
  <2> QED BY <1>2, <2>2 DEF ensure, Counted
<1> QED BY <1>3, <1>4, <1>5, <1>6, <1>7 DEF DLInv

\* The inductive invariant of a parallel download: tasks are segments (SendTask),
\* temporary files hold them (handleTask), the merger has appended those below mg.i
\* (mergeFile), and the WaitGroup counts the merger and the workers at work.
THEOREM DownloadInvariance == DownloadSpec => []DLInv
<1>1. DLInv /\ [DownloadNext]_dlVars => DLInv'
  <2> SUFFICES ASSUME DLInv, [DownloadNext]_dlVars PROVE DLInv'
    OBVIOUS
  <2>1. CASE DownloadNext
    BY <2>1, DLTypes, DLDivided, DLFetched, DLMerged, DLCounted DEF DLInv
  <2>2. CASE UNCHANGED dlVars
    BY <2>2 DEF dlVars, DLInv, DLTypeOK, Divided, Fetched, Merged, File, Counted, Active
  <2> QED BY <2>1, <2>2
<1> QED BY <1>1, DLInit, PTL DEF DownloadSpec

\* From a server that honours Range, what mergeFile has written is at every moment a
\* beginning of the file, and the whole of it when Do returns no error.
THEOREM SegmentsInOrder == DownloadSpec => []DownloadInOrder
<1>1. DLInv => DownloadInOrder
  <2> SUFFICES ASSUME DLInv, job.ranged
               PROVE  IsPrefix(merged, File) /\ (main.pc = "ok" => merged = File)
    BY DEF DownloadInOrder
  <2>1. job.len \in Int
    BY DEF DLInv, DLTypeOK, Job
  <2>2. PICK m \in Nat : merged = Bytes(0, m - 1) /\ (m = 0 \/ m <= job.len)
    BY DEF DLInv, Merged
  <2>3. IsPrefix(merged, File)
    BY <2>1, <2>2, FirstBytes DEF File
  <2>4. main.pc = "ok" => merged = File
    BY DEF DLInv, Counted, Merged
  <2> QED BY <2>3, <2>4
<1> QED BY <1>1, DownloadInvariance, PTL

-----------------------------------------------------------------------------
(* Clients, clones and requests: the invariant.                            *)

Holders  == Clients \union Reqs
Wrappers == {"roundTripWrappers", "httpRoundTripWrappers"}
Holder   == [live : BOOLEAN, plain : [PlainFields -> Nat], ptr : [Pointers -> Nat],
             slice : [Slices -> [a : Nat, len : Nat]], wrapped : [Wrappers -> Seq(Nat)],
             factory : BOOLEAN, shake : Clients \union {"own", "custom"}]

\* What a holder x has in field f: the address of an object or of an array.
Fields == Pointers \union Slices
Addr(x, f) == IF f \in Pointers THEN x.ptr[f] ELSE x.slice[f].a

\* The fields whose objects Clone copies, and a jar that a factory made.
Own(x, f) == f \notin {"RootCAs", "Jar", "Certificates"} \union Wrappers \/ (f = "Jar" /\ x.factory)

SetTypeOK ==
    /\ heap \in Seq(Seq(Nat)) /\ hold \in [Holders -> Holder] /\ calls \in Nat
    /\ \A h \in Holders : ~hold[h].live => hold[h] = Empty

\* Every address is one of an object.
Allocated == \A h \in Holders, f \in Fields : Addr(hold[h], f) <= Len(heap)

\* An array is not an object of another kind, and a slice is within its array.
SlicesFit ==
    /\ \A h, k \in Holders, p \in Pointers, s \in Slices :
          hold[h].ptr[p] # 0 => hold[h].ptr[p] # hold[k].slice[s].a
    /\ \A h \in Holders, s \in Slices : hold[h].slice[s].len <= Capacity(hold[h].slice[s])

\* What one holder has for its own no other holder has, for its own or shared.
Apart ==
    \A h, k \in Holders : \A f, g \in Fields :
        Own(hold[h], f) /\ Addr(hold[h], f) # 0 /\ Addr(hold[h], f) = Addr(hold[k], g)
        => h = k /\ Own(hold[k], g)

SetInv == SetTypeOK /\ Allocated /\ SlicesFit /\ Apart

\* A step of holder c may change the objects and the elements of the arrays that c has.
Touches(c) ==
    /\ heap' \in Seq(Seq(Nat)) /\ Len(heap) <= Len(heap')
    /\ \A a \in 1..Len(heap) :
          \/ heap'[a] = heap[a]
          \/ \E p \in Pointers : a = hold[c].ptr[p]
          \/ Len(heap'[a]) = Len(heap[a]) /\ \E s \in Slices : a = hold[c].slice[s].a

\* Field f of x is nil, an object made by this step, or one that y has, shared if y is
\* another holder.
Same(f, g) == f \in Pointers <=> g \in Pointers
Made(a, low, high) == low < a /\ a <= high
Comes(y, x, f, low, high, other) ==
    \/ Addr(x, f) = 0
    \/ Made(Addr(x, f), low, high)
    \/ \E g \in Fields : Same(f, g) /\ Addr(x, f) = Addr(y, g) /\ (Own(x, f) <=> Own(y, g)) /\ (other => ~Own(x, f))
Allocates(o, c, x) ==
    /\ \A f \in Fields : Comes(hold[o], x, f, Len(heap), Len(heap'), o # c)
    /\ \A f, g \in Fields : Made(Addr(x, f), Len(heap), Len(heap')) /\ Addr(x, f) = Addr(x, g)
          => Same(f, g) /\ (Own(x, f) <=> Own(x, g))
    /\ \A s \in Slices : x.slice[s].len <= IF x.slice[s].a = 0 THEN 0 ELSE Len(heap'[x.slice[s].a])

\* A field is a pointer or a slice, never both.
LEMMA FieldFacts ==
    /\ Pointers \intersect Slices = {}
    /\ Fields = Pointers \union Slices
    /\ Wrappers \subseteq Slices
    /\ \A p \in Pointers : p \in Fields /\ \A x : Addr(x, p) = x.ptr[p]
    /\ \A s \in Slices : s \in Fields /\ s \notin Pointers /\ \A x : Addr(x, s) = x.slice[s].a
<1>1. Pointers \intersect Slices = {} BY DEF Pointers, Slices
<1>2. Wrappers \subseteq Slices BY DEF Wrappers, Slices
<1> QED BY <1>1, <1>2 DEF Fields, Addr

LEMMA AddrType ==
    ASSUME NEW x \in Holder, NEW f \in Fields
    PROVE  Addr(x, f) \in Nat
<1>1. CASE f \in Pointers BY <1>1 DEF Addr, Holder
<1>2. CASE f \in Slices /\ f \notin Pointers
  <2>1. x.slice[f] \in [a : Nat, len : Nat] BY <1>2 DEF Holder
  <2> QED BY <2>1, <1>2 DEF Addr
<1> QED BY <1>1, <1>2 DEF Fields

\* A step that changes what one holder has, as every setter, Clone and R do: the
\* invariant is kept, and nobody else sees a change.
LEMMA StepFine ==
    ASSUME SetInv, NEW o \in Holders, NEW c \in Holders, NEW x \in Holder, x.live, calls' \in Nat,
           hold' = [hold EXCEPT ![c] = x], Touches(c), Allocates(o, c, x)
    PROVE  /\ SetInv'
           /\ \A k \in Holders : k # c => hold'[k] = hold[k] /\ Effective(k)' = Effective(k)
<1>a. /\ heap \in Seq(Seq(Nat)) /\ hold \in [Holders -> Holder]
      /\ heap' \in Seq(Seq(Nat)) /\ Len(heap) <= Len(heap')
      /\ Len(heap) \in Nat /\ Len(heap') \in Nat
  BY DEF SetInv, SetTypeOK, Touches
<1>b. hold' \in [Holders -> Holder] /\ hold'[c] = x /\ \A k \in Holders : k # c => hold'[k] = hold[k]
  BY <1>a
<1>c. \A k \in Holders : hold[k] \in Holder /\ hold'[k] \in Holder BY <1>a, <1>b
<1>d. \A k \in Holders, f \in Fields : Addr(hold[k], f) \in Nat /\ Addr(hold'[k], f) \in Nat /\ Addr(hold[k], f) <= Len(heap)
  BY <1>c, AddrType DEF SetInv, Allocated
<1>e. \A f \in Fields : Addr(x, f) \in Nat BY AddrType
<1>1. SetTypeOK'
  <2>1. \A h \in Holders : ~hold'[h].live => hold'[h] = Empty
    BY <1>b DEF SetInv, SetTypeOK
  <2> QED BY <1>a, <1>b, <2>1 DEF SetTypeOK
<1>2. Allocated'
  <2>1. \A f \in Fields : Addr(x, f) <= Len(heap')
    <3> SUFFICES ASSUME NEW f \in Fields PROVE Addr(x, f) <= Len(heap') OBVIOUS
    <3>1. Comes(hold[o], x, f, Len(heap), Len(heap'), o # c) BY DEF Allocates
    <3>2. CASE Addr(x, f) = 0 BY <3>2, <1>a
    <3>3. CASE Made(Addr(x, f), Len(heap), Len(heap')) BY <3>3 DEF Made
    <3>4. CASE \E g \in Fields : Addr(x, f) = Addr(hold[o], g)
      <4>1. PICK g \in Fields : Addr(x, f) = Addr(hold[o], g) BY <3>4
      <4>2. Addr(hold[o], g) <= Len(heap) /\ Addr(hold[o], g) \in Nat BY <1>d
      <4> QED BY <4>1, <4>2, <1>a
    <3> QED BY <3>1, <3>2, <3>3, <3>4 DEF Comes
  <2>2. \A h \in Holders, f \in Fields : Addr(hold'[h], f) <= Len(heap')
    <3> SUFFICES ASSUME NEW h \in Holders, NEW f \in Fields PROVE Addr(hold'[h], f) <= Len(heap') OBVIOUS
    <3>1. CASE h = c BY <3>1, <2>1, <1>b
    <3>2. CASE h # c
      <4>1. hold'[h] = hold[h] BY <3>2, <1>b
      <4>2. Addr(hold[h], f) <= Len(heap) /\ Addr(hold[h], f) \in Nat BY <1>d
      <4> QED BY <4>1, <4>2, <1>a
    <3> QED BY <3>1, <3>2
  <2> QED BY <2>2 DEF Allocated
\* Where a field of x comes from, in one fact: from y, or made.
<1>3. \A f \in Fields, k \in Holders, g \in Fields :
         k # c /\ Addr(x, f) # 0 /\ Addr(x, f) = Addr(hold[k], g) => Same(f, g) /\ ~Own(x, f) /\ ~Own(hold[k], g)
  <2> SUFFICES ASSUME NEW f \in Fields, NEW k \in Holders, NEW g \in Fields, k # c, Addr(x, f) # 0, Addr(x, f) = Addr(hold[k], g)
               PROVE  Same(f, g) /\ ~Own(x, f) /\ ~Own(hold[k], g)
    OBVIOUS
  <2>1. Comes(hold[o], x, f, Len(heap), Len(heap'), o # c) BY DEF Allocates
  <2>2. ~Made(Addr(x, f), Len(heap), Len(heap'))
    <3>1. Addr(hold[k], g) <= Len(heap) /\ Addr(hold[k], g) \in Nat BY <1>d
    <3> QED BY <3>1, <1>a DEF Made
  <2>3. PICK e \in Fields : Same(f, e) /\ Addr(x, f) = Addr(hold[o], e) /\ (Own(x, f) <=> Own(hold[o], e)) /\ (o # c => ~Own(x, f))
    BY <2>1, <2>2 DEF Comes
  <2>4. Addr(hold[o], e) # 0 /\ Addr(hold[o], e) = Addr(hold[k], g) BY <2>3
  <2>5. Same(e, g)
    <3>1. Addr(hold[k], g) # 0 BY <2>4
    <3>2. ~(e \in Pointers /\ g \in Slices)
      <4> SUFFICES ASSUME e \in Pointers, g \in Slices PROVE FALSE OBVIOUS
      <4>1. Addr(hold[o], e) = hold[o].ptr[e] /\ Addr(hold[k], g) = hold[k].slice[g].a BY FieldFacts
      <4> QED BY <4>1, <2>4 DEF SetInv, SlicesFit
    <3>3. ~(g \in Pointers /\ e \in Slices)
      <4> SUFFICES ASSUME g \in Pointers, e \in Slices PROVE FALSE OBVIOUS
      <4>1. Addr(hold[k], g) = hold[k].ptr[g] /\ Addr(hold[o], e) = hold[o].slice[e].a BY FieldFacts
      <4> QED BY <4>1, <2>4 DEF SetInv, SlicesFit
    <3> QED BY <3>2, <3>3 DEF Same, Fields
  <2>6. ~Own(hold[o], e)
    <3>1. CASE o = c
      <4> SUFFICES ASSUME Own(hold[o], e) PROVE FALSE OBVIOUS
      <4>1. o = k BY <2>4 DEF SetInv, Apart
      <4> QED BY <4>1, <3>1
    <3>2. CASE o # c BY <3>2, <2>3
    <3> QED BY <3>1, <3>2
  <2>7. ~Own(hold[k], g)
    <3> SUFFICES ASSUME Own(hold[k], g) PROVE FALSE OBVIOUS
    <3>1. Addr(hold[k], g) # 0 /\ Addr(hold[k], g) = Addr(hold[o], e) BY <2>4
    <3>2. Own(hold[o], e) BY <3>1 DEF SetInv, Apart
    <3> QED BY <3>2, <2>6
  <2> QED BY <2>3, <2>5, <2>6, <2>7 DEF Same
<1>4. \A f, g \in Fields : Addr(x, f) # 0 /\ Addr(x, f) = Addr(x, g) => Same(f, g) /\ (Own(x, f) <=> Own(x, g))
  <2> SUFFICES ASSUME NEW f \in Fields, NEW g \in Fields, Addr(x, f) # 0, Addr(x, f) = Addr(x, g)
               PROVE  Same(f, g) /\ (Own(x, f) <=> Own(x, g))
    OBVIOUS
  <2>1. CASE Made(Addr(x, f), Len(heap), Len(heap')) BY <2>1 DEF Allocates
  <2>2. CASE ~Made(Addr(x, f), Len(heap), Len(heap'))
    <3>1. Comes(hold[o], x, f, Len(heap), Len(heap'), o # c) /\ Comes(hold[o], x, g, Len(heap), Len(heap'), o # c) BY DEF Allocates
    <3>2. PICK d \in Fields : Same(f, d) /\ Addr(x, f) = Addr(hold[o], d) /\ (Own(x, f) <=> Own(hold[o], d))
      BY <3>1, <2>2 DEF Comes
    <3>3. PICK e \in Fields : Same(g, e) /\ Addr(x, g) = Addr(hold[o], e) /\ (Own(x, g) <=> Own(hold[o], e))
      BY <3>1, <2>2 DEF Comes
    <3>4. Addr(hold[o], d) # 0 /\ Addr(hold[o], d) = Addr(hold[o], e) /\ Addr(hold[o], e) # 0 BY <3>2, <3>3
    <3>5. Own(hold[o], d) <=> Own(hold[o], e) BY <3>4 DEF SetInv, Apart
    <3>6. Same(d, e)
      <4>1. ~(d \in Pointers /\ e \in Slices)
        <5> SUFFICES ASSUME d \in Pointers, e \in Slices PROVE FALSE OBVIOUS
        <5>1. Addr(hold[o], d) = hold[o].ptr[d] /\ Addr(hold[o], e) = hold[o].slice[e].a BY FieldFacts
        <5> QED BY <5>1, <3>4 DEF SetInv, SlicesFit
      <4>2. ~(e \in Pointers /\ d \in Slices)
        <5> SUFFICES ASSUME e \in Pointers, d \in Slices PROVE FALSE OBVIOUS
        <5>1. Addr(hold[o], e) = hold[o].ptr[e] /\ Addr(hold[o], d) = hold[o].slice[d].a BY FieldFacts
        <5> QED BY <5>1, <3>4 DEF SetInv, SlicesFit
      <4> QED BY <4>1, <4>2 DEF Same, Fields
    <3> QED BY <3>2, <3>3, <3>5, <3>6 DEF Same
  <2> QED BY <2>1, <2>2
<1>5. Apart'
  <2> SUFFICES ASSUME NEW h \in Holders, NEW k \in Holders, NEW f \in Fields, NEW g \in Fields,
                      Own(hold'[h], f), Addr(hold'[h], f) # 0, Addr(hold'[h], f) = Addr(hold'[k], g)
               PROVE  h = k /\ Own(hold'[k], g)
    BY DEF Apart
  <2>1. CASE h = c /\ k = c BY <2>1, <1>b, <1>4
  <2>2. CASE h = c /\ k # c BY <2>2, <1>b, <1>3
  <2>3. CASE h # c /\ k = c
    <3>1. Addr(x, g) # 0 /\ Addr(x, g) = Addr(hold[h], f) /\ Own(hold[h], f) BY <2>3, <1>b
    <3> QED BY <3>1, <2>3, <1>3
  <2>4. CASE h # c /\ k # c BY <2>4, <1>b DEF SetInv, Apart
  <2> QED BY <2>1, <2>2, <2>3, <2>4
\* An array of another holder keeps its size, and what is another's own is as it was.
<1>6. \A k \in Holders, s \in Slices : k # c /\ hold[k].slice[s].a # 0
         => /\ hold[k].slice[s].a \in 1..Len(heap)
            /\ Len(heap'[hold[k].slice[s].a]) = Len(heap[hold[k].slice[s].a])
  <2> SUFFICES ASSUME NEW k \in Holders, NEW s \in Slices, k # c, hold[k].slice[s].a # 0
               PROVE  /\ hold[k].slice[s].a \in 1..Len(heap)
                      /\ Len(heap'[hold[k].slice[s].a]) = Len(heap[hold[k].slice[s].a])
    OBVIOUS
  <2>1. PICK a : a = hold[k].slice[s].a OBVIOUS
  <2>2. s \in Fields /\ Addr(hold[k], s) = a BY <2>1, FieldFacts
  <2>3. a \in Nat /\ a <= Len(heap) /\ a # 0 BY <2>1, <2>2, <1>d
  <2>4. a \in 1..Len(heap) BY <2>3, <1>a
  <2>5. ~\E p \in Pointers : a = hold[c].ptr[p] BY <2>1, <2>3 DEF SetInv, SlicesFit
  <2>6. Len(heap'[a]) = Len(heap[a]) BY <2>4, <2>5 DEF Touches
  <2> QED BY <2>1, <2>4, <2>6
<1>7. SlicesFit'
  <2>1. \A h, k \in Holders, p \in Pointers, s \in Slices : hold'[h].ptr[p] # 0 => hold'[h].ptr[p] # hold'[k].slice[s].a
    <3> SUFFICES ASSUME NEW h \in Holders, NEW k \in Holders, NEW p \in Pointers, NEW s \in Slices,
                        hold'[h].ptr[p] # 0, hold'[h].ptr[p] = hold'[k].slice[s].a
                 PROVE  FALSE
      OBVIOUS
    <3>1. /\ p \in Fields /\ s \in Fields /\ ~Same(p, s) /\ ~Same(s, p)
          /\ Addr(hold'[h], p) # 0 /\ Addr(hold'[k], s) # 0 /\ Addr(hold'[h], p) = Addr(hold'[k], s)
      BY FieldFacts DEF Same
    <3>2. CASE h = c /\ k = c BY <3>1, <3>2, <1>b, <1>4
    <3>3. CASE h = c /\ k # c BY <3>1, <3>3, <1>b, <1>3
    <3>4. CASE h # c /\ k = c
      <4>1. Addr(x, s) # 0 /\ Addr(x, s) = Addr(hold[h], p) BY <3>1, <3>4, <1>b
      <4> QED BY <4>1, <3>1, <3>4, <1>3
    <3>5. CASE h # c /\ k # c BY <3>5, <1>b DEF SetInv, SlicesFit
    <3> QED BY <3>2, <3>3, <3>4, <3>5
  <2>2. \A h \in Holders, s \in Slices : hold'[h].slice[s].len <= IF hold'[h].slice[s].a = 0 THEN 0 ELSE Len(heap'[hold'[h].slice[s].a])
    <3> SUFFICES ASSUME NEW h \in Holders, NEW s \in Slices
                 PROVE  hold'[h].slice[s].len <= IF hold'[h].slice[s].a = 0 THEN 0 ELSE Len(heap'[hold'[h].slice[s].a])
      OBVIOUS
    <3>1. CASE h = c BY <3>1, <1>b DEF Allocates
    <3>2. CASE h # c
      <4>1. hold[h].slice[s].len <= IF hold[h].slice[s].a = 0 THEN 0 ELSE Len(heap[hold[h].slice[s].a])
        BY DEF SetInv, SlicesFit, Capacity
      <4> QED BY <4>1, <3>2, <1>b, <1>6
    <3> QED BY <3>1, <3>2
  <2> QED BY <2>1, <2>2 DEF SlicesFit, Capacity
<1>8. \A k \in Holders, f \in Fields : k # c /\ Own(hold[k], f) /\ Addr(hold[k], f) # 0 => heap'[Addr(hold[k], f)] = heap[Addr(hold[k], f)]
  <2> SUFFICES ASSUME NEW k \in Holders, NEW f \in Fields, k # c, Own(hold[k], f), Addr(hold[k], f) # 0
               PROVE  heap'[Addr(hold[k], f)] = heap[Addr(hold[k], f)]
    OBVIOUS
  <2>1. PICK a : a = Addr(hold[k], f) OBVIOUS
  <2>2. a \in 1..Len(heap) BY <2>1, <1>d, <1>a
  <2>3. ~\E g \in Fields : a = Addr(hold[c], g) BY <2>1 DEF SetInv, Apart
  <2>4. ~\E p \in Pointers : a = hold[c].ptr[p] BY <2>3, FieldFacts
  <2>5. ~\E s \in Slices : a = hold[c].slice[s].a BY <2>3, FieldFacts
  <2> QED BY <2>1, <2>2, <2>4, <2>5 DEF Touches
<1>9. ASSUME NEW k \in Holders, k # c PROVE hold'[k] = hold[k] /\ Effective(k)' = Effective(k)
  <2>1. hold'[k] = hold[k] BY <1>9, <1>b
  <2>2. \A p \in Pointers \ {"RootCAs", "Jar"} : Object(hold[k].ptr[p])' = Object(hold[k].ptr[p])
    <3> SUFFICES ASSUME NEW p \in Pointers \ {"RootCAs", "Jar"} PROVE Object(hold[k].ptr[p])' = Object(hold[k].ptr[p]) OBVIOUS
    <3>1. p \in Fields /\ Addr(hold[k], p) = hold[k].ptr[p] BY FieldFacts
    <3>2. Own(hold[k], p)
      <4>1. p \notin Wrappers /\ p # "Certificates" BY DEF Pointers, Wrappers
      <4> QED BY <4>1 DEF Own
    <3>3. hold[k].ptr[p] # 0 => heap'[hold[k].ptr[p]] = heap[hold[k].ptr[p]] BY <1>9, <1>8, <3>1, <3>2
    <3> QED BY <3>3, <2>1 DEF Object
  <2>3. \A s \in {"Cookies", "udBeforeRequest", "afterResponse"} : Elements(hold[k].slice[s])' = Elements(hold[k].slice[s])
    <3> SUFFICES ASSUME NEW s \in {"Cookies", "udBeforeRequest", "afterResponse"} PROVE Elements(hold[k].slice[s])' = Elements(hold[k].slice[s]) OBVIOUS
    <3>0. s \in Slices BY DEF Slices
    <3>1. s \in Fields /\ Addr(hold[k], s) = hold[k].slice[s].a BY <3>0, FieldFacts
    <3>2. Own(hold[k], s)
      <4>1. s \notin Wrappers /\ s # "Certificates" /\ s # "Jar" /\ s # "RootCAs" BY DEF Wrappers
      <4> QED BY <4>1 DEF Own
    <3>3. hold[k].slice[s].a # 0 => heap'[hold[k].slice[s].a] = heap[hold[k].slice[s].a] BY <1>9, <1>8, <3>1, <3>2
    <3> QED BY <3>3, <2>1 DEF Elements
  <2>4. hold[k].factory => Object(hold[k].ptr["Jar"])' = Object(hold[k].ptr["Jar"])
    <3> SUFFICES ASSUME hold[k].factory PROVE Object(hold[k].ptr["Jar"])' = Object(hold[k].ptr["Jar"]) OBVIOUS
    <3>0. "Jar" \in Pointers BY DEF Pointers
    <3>1. "Jar" \in Fields /\ Addr(hold[k], "Jar") = hold[k].ptr["Jar"] BY <3>0, FieldFacts
    <3>2. Own(hold[k], "Jar") BY DEF Own
    <3>3. hold[k].ptr["Jar"] # 0 => heap'[hold[k].ptr["Jar"]] = heap[hold[k].ptr["Jar"]] BY <1>9, <1>8, <3>1, <3>2
    <3> QED BY <3>3, <2>1 DEF Object
  <2> QED BY <2>1, <2>2, <2>3, <2>4 DEF Effective
<1> QED BY <1>1, <1>2, <1>5, <1>7, <1>9 DEF SetInv

\* What a step of holder c shows the others: nothing.
OnlyChanges(c) == \A k \in Holders : k # c => hold'[k] = hold[k] /\ Effective(k)' = Effective(k)

\* A setter that changes an object, points to a new one or drops some.
ChangesObject(h) ==
    \/ heap' = heap
    \/ \E v \in Seq(Nat) : heap' = Append(heap, v)
    \/ \E p \in Pointers, v \in Seq(Nat) : hold[h].ptr[p] # 0 /\ heap' = [heap EXCEPT ![hold[h].ptr[p]] = v]
Points(h, x) ==
    /\ \A s \in Slices : x.slice[s] = hold[h].slice[s] \/ x.slice[s] = NoSlice
    /\ \A p \in Pointers :
          \/ x.ptr[p] = 0
          \/ x.ptr[p] = Len(heap) + 1 /\ \E v \in Seq(Nat) : heap' = Append(heap, v)
          \/ \E q \in Pointers : x.ptr[p] = hold[h].ptr[q] /\ (Own(x, p) <=> Own(hold[h], q))
    /\ \A p, q \in Pointers : x.ptr[p] = Len(heap) + 1 /\ x.ptr[q] = Len(heap) + 1 => (Own(x, p) <=> Own(x, q))

LEMMA SeqExcept ==
    ASSUME NEW V, NEW s \in Seq(V), NEW b \in 1..Len(s), NEW w \in V
    PROVE  /\ [s EXCEPT ![b] = w] \in Seq(V)
           /\ Len([s EXCEPT ![b] = w]) = Len(s)
           /\ [s EXCEPT ![b] = w][b] = w
           /\ \A a \in 1..Len(s) : a # b => [s EXCEPT ![b] = w][a] = s[a]
OBVIOUS

LEMMA HeapChange ==
    ASSUME SetInv, NEW h \in Holders, ChangesObject(h)
    PROVE  Touches(h) /\ \A a \in 1..Len(heap) : (\A p \in Pointers : a # hold[h].ptr[p]) => heap'[a] = heap[a]
<1>1. heap \in Seq(Seq(Nat)) /\ hold[h] \in Holder BY DEF SetInv, SetTypeOK
<1>2. CASE heap' = heap BY <1>1, <1>2 DEF Touches
<1>3. CASE \E v \in Seq(Nat) : heap' = Append(heap, v)
  <2>1. PICK v \in Seq(Nat) : heap' = Append(heap, v) BY <1>3
  <2>2. PICK V : V = Seq(Nat) OBVIOUS
  <2>3. heap' \in Seq(V) /\ Len(heap') = Len(heap) + 1 /\ \A a \in 1..Len(heap) : heap'[a] = heap[a] BY <1>1, <2>1, <2>2
  <2> QED BY <2>2, <2>3, <1>1 DEF Touches
<1>4. CASE \E p \in Pointers, v \in Seq(Nat) : hold[h].ptr[p] # 0 /\ heap' = [heap EXCEPT ![hold[h].ptr[p]] = v]
  <2>1. PICK p \in Pointers, v \in Seq(Nat) : hold[h].ptr[p] # 0 /\ heap' = [heap EXCEPT ![hold[h].ptr[p]] = v] BY <1>4
  <2>2. PICK V : V = Seq(Nat) OBVIOUS
  <2>3. PICK b : b = hold[h].ptr[p] OBVIOUS
  <2>4. heap' \in Seq(V) /\ Len(heap') = Len(heap) /\ \A a \in 1..Len(heap) : a # b => heap'[a] = heap[a]
    <3>1. p \in Fields /\ Addr(hold[h], p) = b BY <2>3, FieldFacts
    <3>2. b \in Nat /\ b <= Len(heap) /\ b # 0 BY <3>1, <2>1, <2>3, <1>1, AddrType DEF SetInv, Allocated
    <3>3. b \in 1..Len(heap) /\ heap \in Seq(V) /\ v \in V BY <3>2, <1>1, <2>2
    <3>4. heap' = [heap EXCEPT ![b] = v] BY <2>1, <2>3
    <3> QED BY <3>3, <3>4, SeqExcept
  <2> QED BY <2>2, <2>3, <2>4, <1>1 DEF Touches
<1> QED BY <1>2, <1>3, <1>4 DEF ChangesObject

LEMMA SetterFine ==
    ASSUME SetInv, NEW h \in Holders, NEW x \in Holder, x.live, calls' \in Nat,
           hold' = [hold EXCEPT ![h] = x], ChangesObject(h), Points(h, x)
    PROVE  SetInv' /\ OnlyChanges(h)
<1>1. heap \in Seq(Seq(Nat)) /\ hold[h] \in Holder /\ Len(heap) \in Nat BY DEF SetInv, SetTypeOK
<1>2. Touches(h) BY HeapChange
<1>3. Len(heap') \in Nat /\ Len(heap) <= Len(heap') BY <1>2 DEF Touches
<1>4. \A v \in Seq(Nat) : heap' = Append(heap, v) => Len(heap') = Len(heap) + 1 BY <1>1
<1>5. ASSUME NEW f \in Fields PROVE Comes(hold[h], x, f, Len(heap), Len(heap'), h # h)
  <2>1. CASE f \in Pointers
    <3>1. Addr(x, f) = x.ptr[f] BY <2>1, FieldFacts
    <3>2. CASE x.ptr[f] = 0 BY <3>1, <3>2 DEF Comes
    <3>3. CASE x.ptr[f] = Len(heap) + 1 /\ \E v \in Seq(Nat) : heap' = Append(heap, v)
      BY <3>1, <3>3, <1>4, <1>1 DEF Comes, Made
    <3>4. CASE \E q \in Pointers : x.ptr[f] = hold[h].ptr[q] /\ (Own(x, f) <=> Own(hold[h], q))
      <4>1. PICK q \in Pointers : x.ptr[f] = hold[h].ptr[q] /\ (Own(x, f) <=> Own(hold[h], q)) BY <3>4
      <4>2. q \in Fields /\ Addr(hold[h], q) = hold[h].ptr[q] BY FieldFacts
      <4>3. Same(f, q) BY <2>1 DEF Same
      <4> QED BY <3>1, <4>1, <4>2, <4>3 DEF Comes
    <3> QED BY <2>1, <3>2, <3>3, <3>4 DEF Points
  <2>2. CASE f \in Slices
    <3>1. Addr(x, f) = x.slice[f].a /\ Addr(hold[h], f) = hold[h].slice[f].a /\ f \in Fields /\ f \notin Pointers BY <2>2, FieldFacts
    <3>2. CASE x.slice[f] = NoSlice BY <3>1, <3>2 DEF Comes, NoSlice
    <3>3. CASE x.slice[f] = hold[h].slice[f]
      <4>1. Own(x, f) <=> Own(hold[h], f)
        <5>1. f # "Jar" BY <2>2 DEF Slices
        <5> QED BY <5>1 DEF Own
      <4>2. Same(f, f) BY DEF Same
      <4> QED BY <3>1, <3>3, <4>1, <4>2 DEF Comes
    <3> QED BY <2>2, <3>2, <3>3 DEF Points
  <2> QED BY <2>1, <2>2 DEF Fields
<1>6. ASSUME NEW f \in Fields, NEW g \in Fields, Made(Addr(x, f), Len(heap), Len(heap')), Addr(x, f) = Addr(x, g)
      PROVE  Same(f, g) /\ (Own(x, f) <=> Own(x, g))
  <2>1. \A s \in Slices : Addr(x, s) <= Len(heap)
    <3> SUFFICES ASSUME NEW s \in Slices PROVE Addr(x, s) <= Len(heap) OBVIOUS
    <3>1. s \in Fields /\ Addr(x, s) = x.slice[s].a /\ Addr(hold[h], s) = hold[h].slice[s].a BY FieldFacts
    <3>2. Addr(hold[h], s) <= Len(heap) BY <3>1 DEF SetInv, Allocated
    <3>3. x.slice[s] = hold[h].slice[s] \/ x.slice[s] = NoSlice BY DEF Points
    <3> QED BY <3>1, <3>2, <3>3, <1>1 DEF NoSlice
  <2>2. Addr(x, f) \in Nat /\ Addr(x, g) \in Nat BY AddrType
  <2>3. f \in Pointers /\ g \in Pointers
    <3>1. ~(Addr(x, f) <= Len(heap)) BY <1>6, <2>2, <1>1 DEF Made
    <3> QED BY <3>1, <2>1, <1>6 DEF Fields
  <2>4. \A p \in Pointers : Made(x.ptr[p], Len(heap), Len(heap')) => x.ptr[p] = Len(heap) + 1
    <3> SUFFICES ASSUME NEW p \in Pointers, Made(x.ptr[p], Len(heap), Len(heap')) PROVE x.ptr[p] = Len(heap) + 1 OBVIOUS
    <3>1. x.ptr[p] # 0 BY <1>1 DEF Made
    <3>2. ~\E q \in Pointers : x.ptr[p] = hold[h].ptr[q]
      <4> SUFFICES ASSUME NEW q \in Pointers, x.ptr[p] = hold[h].ptr[q] PROVE FALSE OBVIOUS
      <4>1. q \in Fields /\ Addr(hold[h], q) = hold[h].ptr[q] BY FieldFacts
      <4>2. Addr(hold[h], q) <= Len(heap) /\ Addr(hold[h], q) \in Nat BY <4>1, <1>1, AddrType DEF SetInv, Allocated
      <4> QED BY <4>1, <4>2, <1>1 DEF Made
    <3> QED BY <3>1, <3>2 DEF Points
  <2>5. Addr(x, f) = x.ptr[f] /\ Addr(x, g) = x.ptr[g] BY <2>3, FieldFacts
  <2>6. x.ptr[f] = Len(heap) + 1 /\ x.ptr[g] = Len(heap) + 1 BY <2>3, <2>4, <2>5, <1>6
  <2>7. Own(x, f) <=> Own(x, g) BY <2>3, <2>6 DEF Points
  <2> QED BY <2>3, <2>7 DEF Same
<1>7. ASSUME NEW s \in Slices PROVE x.slice[s].len <= IF x.slice[s].a = 0 THEN 0 ELSE Len(heap'[x.slice[s].a])
  <2>1. CASE x.slice[s] = NoSlice BY <2>1 DEF NoSlice
  <2>2. CASE x.slice[s] = hold[h].slice[s]
    <3>1. hold[h].slice[s].len <= IF hold[h].slice[s].a = 0 THEN 0 ELSE Len(heap[hold[h].slice[s].a])
      BY DEF SetInv, SlicesFit, Capacity
    <3>2. CASE hold[h].slice[s].a = 0 BY <3>1, <3>2, <2>2
    <3>3. CASE hold[h].slice[s].a # 0
      <4>1. PICK a : a = hold[h].slice[s].a OBVIOUS
      <4>2. s \in Fields /\ Addr(hold[h], s) = a BY <4>1, FieldFacts
      <4>3. a \in Nat /\ a <= Len(heap) /\ a # 0 BY <4>1, <4>2, <3>3, <1>1, AddrType DEF SetInv, Allocated
      <4>4. a \in 1..Len(heap) BY <4>3, <1>1
      <4>5. \A p \in Pointers : a # hold[h].ptr[p] BY <4>1, <4>3 DEF SetInv, SlicesFit
      <4>6. heap'[a] = heap[a] BY <4>4, <4>5, HeapChange
      <4> QED BY <3>1, <3>3, <4>1, <4>6, <2>2
    <3> QED BY <3>2, <3>3
  <2> QED BY <2>1, <2>2 DEF Points
<1>8. Allocates(h, h, x) BY <1>5, <1>6, <1>7 DEF Allocates
<1> QED BY <1>2, <1>8, StepFine DEF OnlyChanges

\* append: to the array there is, which nobody else has for its own, or to a new one.
LEMMA AppendFine ==
    ASSUME SetInv, NEW h \in Holders, NEW x \in Holder, x.live, calls \in Nat, calls' = calls + 1, NEW f \in Slices,
           hold' = [hold EXCEPT ![h] = x], x.ptr = hold[h].ptr, x.factory = hold[h].factory,
           \A s \in Slices : s # f => x.slice[s] = hold[h].slice[s],
           \/ /\ hold[h].slice[f].len < Capacity(hold[h].slice[f])
              /\ heap' = [heap EXCEPT ![hold[h].slice[f].a][hold[h].slice[f].len + 1] = Arg]
              /\ x.slice[f] = [a |-> hold[h].slice[f].a, len |-> hold[h].slice[f].len + 1]
           \/ \E v \in Seq(Nat) :
                 /\ hold[h].slice[f].len + 1 <= Len(v)
                 /\ heap' = Append(heap, v)
                 /\ x.slice[f] = [a |-> Len(heap) + 1, len |-> hold[h].slice[f].len + 1]
    PROVE  SetInv' /\ OnlyChanges(h)
<1>1. heap \in Seq(Seq(Nat)) /\ hold[h] \in Holder /\ Len(heap) \in Nat BY DEF SetInv, SetTypeOK
<1>n. calls' \in Nat OBVIOUS
<1>2. PICK s : s = hold[h].slice[f] OBVIOUS
<1>3. s \in [a : Nat, len : Nat] BY <1>1, <1>2 DEF Holder
<1>4. s.a <= Len(heap)
  <2>1. f \in Fields /\ Addr(hold[h], f) = s.a BY <1>2, FieldFacts
  <2> QED BY <2>1 DEF SetInv, Allocated
<1>o. \A g \in Fields : Own(x, g) <=> Own(hold[h], g) BY DEF Own
<1>5. CASE /\ s.len < Capacity(s)
           /\ heap' = [heap EXCEPT ![s.a][s.len + 1] = Arg]
           /\ x.slice[f] = [a |-> s.a, len |-> s.len + 1]
  <2>1. s.a # 0 /\ s.len < Len(heap[s.a]) BY <1>5, <1>3 DEF Capacity
  <2>2. s.a \in 1..Len(heap) BY <2>1, <1>1, <1>3, <1>4
  <2>3. heap[s.a] \in Seq(Nat) BY <2>2, <1>1
  <2>4. PICK V, w, b : V = Seq(Nat) /\ w = [heap[s.a] EXCEPT ![s.len + 1] = Arg] /\ b = s.a OBVIOUS
  <2>5. heap' = [heap EXCEPT ![b] = w] BY <1>5, <2>4
  <2>6. w \in Seq(Nat) /\ Len(w) = Len(heap[s.a])
    <3>1. PICK u, i : u = heap[s.a] /\ i = s.len + 1 OBVIOUS
    <3>2. u \in Seq(Nat) /\ i \in 1..Len(u) /\ calls + 1 \in Nat BY <3>1, <2>3, <2>1, <1>3
    <3>3. [u EXCEPT ![i] = calls + 1] \in Seq(Nat) /\ Len([u EXCEPT ![i] = calls + 1]) = Len(u) BY <3>2
    <3> QED BY <3>1, <3>3, <2>4 DEF Arg
  <2>7. heap' \in Seq(V) /\ Len(heap') = Len(heap) /\ heap'[b] = w /\ \A a \in 1..Len(heap) : a # b => heap'[a] = heap[a]
    <3>1. b \in 1..Len(heap) /\ heap \in Seq(V) /\ w \in V BY <2>2, <2>4, <2>6, <1>1
    <3> QED BY <3>1, <2>5, SeqExcept
  <2>8. \A a \in 1..Len(heap) : Len(heap'[a]) = Len(heap[a]) BY <2>4, <2>6, <2>7
  <2>9. Touches(h)
    <3>1. \A a \in 1..Len(heap) : heap'[a] = heap[a] \/ (Len(heap'[a]) = Len(heap[a]) /\ a = hold[h].slice[f].a)
      BY <1>2, <2>4, <2>7, <2>8
    <3>2. heap' \in Seq(Seq(Nat)) /\ Len(heap) <= Len(heap') BY <2>4, <2>7, <1>1
    <3> QED BY <3>1, <3>2 DEF Touches
  <2>10. \A g \in Fields : Addr(x, g) = Addr(hold[h], g)
    <3>1. \A g \in Slices : x.slice[g].a = hold[h].slice[g].a BY <1>5, <1>2
    <3> QED BY <3>1 DEF Addr, Fields
  <2>11. Allocates(h, h, x)
    <3>1. ASSUME NEW g \in Fields PROVE Comes(hold[h], x, g, Len(heap), Len(heap'), h # h)
      <4>1. Same(g, g) BY DEF Same
      <4> QED BY <4>1, <2>10, <1>o DEF Comes
    <3>2. ASSUME NEW g \in Fields PROVE ~Made(Addr(x, g), Len(heap), Len(heap'))
      <4>1. Addr(hold[h], g) <= Len(heap) /\ Addr(hold[h], g) \in Nat BY <1>1, AddrType DEF SetInv, Allocated
      <4> QED BY <4>1, <2>10, <1>1 DEF Made
    <3>3. ASSUME NEW g \in Slices PROVE x.slice[g].len <= IF x.slice[g].a = 0 THEN 0 ELSE Len(heap'[x.slice[g].a])
      <4>1. CASE g = f BY <4>1, <1>5, <2>1, <2>2, <2>3, <2>8, <1>3
      <4>2. CASE g # f
        <5>1. hold[h].slice[g].len <= IF hold[h].slice[g].a = 0 THEN 0 ELSE Len(heap[hold[h].slice[g].a])
          BY DEF SetInv, SlicesFit, Capacity
        <5>2. PICK a : a = hold[h].slice[g].a OBVIOUS
        <5>3. g \in Fields /\ Addr(hold[h], g) = a BY <5>2, FieldFacts
        <5>4. a \in Nat /\ a <= Len(heap) BY <5>3, <1>1, AddrType DEF SetInv, Allocated
        <5>5. a # 0 => Len(heap'[a]) = Len(heap[a]) BY <5>4, <1>1, <2>8
        <5>6. x.slice[g] = hold[h].slice[g] BY <4>2
        <5> QED BY <5>1, <5>2, <5>5, <5>6
      <4> QED BY <4>1, <4>2
    <3> QED BY <3>1, <3>2, <3>3 DEF Allocates
  <2> QED BY <2>9, <2>11, <1>n, StepFine DEF OnlyChanges
<1>6. CASE \E v \in Seq(Nat) :
              /\ s.len + 1 <= Len(v)
              /\ heap' = Append(heap, v)
              /\ x.slice[f] = [a |-> Len(heap) + 1, len |-> s.len + 1]
  <2>1. PICK v \in Seq(Nat) :
              /\ s.len + 1 <= Len(v)
              /\ heap' = Append(heap, v)
              /\ x.slice[f] = [a |-> Len(heap) + 1, len |-> s.len + 1]
    BY <1>6
  <2>2. ChangesObject(h) BY <2>1 DEF ChangesObject
  <2>3. Touches(h) BY <2>2, HeapChange
  <2>4. PICK V : V = Seq(Nat) OBVIOUS
  <2>5. /\ Len(heap') = Len(heap) + 1 /\ heap'[Len(heap) + 1] = v
        /\ \A a \in 1..Len(heap) : heap'[a] = heap[a]
    BY <2>1, <2>4, <1>1
  <2>6. Addr(x, f) = Len(heap) + 1 /\ f \in Fields /\ f \notin Pointers BY <2>1, FieldFacts
  <2>7. \A g \in Fields : g # f => Addr(x, g) = Addr(hold[h], g) BY DEF Addr, Fields
  <2>8. Allocates(h, h, x)
    <3>1. ASSUME NEW g \in Fields PROVE Comes(hold[h], x, g, Len(heap), Len(heap'), h # h)
      <4>1. Same(g, g) BY DEF Same
      <4>2. CASE g = f BY <4>2, <2>5, <2>6, <1>1 DEF Comes, Made
      <4>3. CASE g # f BY <4>1, <4>3, <2>7, <1>o DEF Comes
      <4> QED BY <4>2, <4>3
    <3>2. ASSUME NEW g \in Fields, Made(Addr(x, g), Len(heap), Len(heap')) PROVE g = f
      <4>1. Addr(hold[h], g) <= Len(heap) /\ Addr(hold[h], g) \in Nat BY <1>1, AddrType DEF SetInv, Allocated
      <4> QED BY <4>1, <3>2, <2>7, <1>1 DEF Made
    <3>3. ASSUME NEW g \in Slices PROVE x.slice[g].len <= IF x.slice[g].a = 0 THEN 0 ELSE Len(heap'[x.slice[g].a])
      <4>1. CASE g = f BY <4>1, <2>1, <2>5, <1>1
      <4>2. CASE g # f
        <5>1. hold[h].slice[g].len <= IF hold[h].slice[g].a = 0 THEN 0 ELSE Len(heap[hold[h].slice[g].a])
          BY DEF SetInv, SlicesFit, Capacity
        <5>2. PICK a : a = hold[h].slice[g].a OBVIOUS
        <5>3. g \in Fields /\ Addr(hold[h], g) = a BY <5>2, FieldFacts
        <5>4. a \in Nat /\ a <= Len(heap) BY <5>3, <1>1, AddrType DEF SetInv, Allocated
        <5>5. a # 0 => heap'[a] = heap[a] BY <5>4, <1>1, <2>5
        <5>6. x.slice[g] = hold[h].slice[g] BY <4>2
        <5> QED BY <5>1, <5>2, <5>5, <5>6
      <4> QED BY <4>1, <4>2
    <3>4. ASSUME NEW d \in Fields, NEW g \in Fields, Made(Addr(x, d), Len(heap), Len(heap')), Addr(x, d) = Addr(x, g)
          PROVE  Same(d, g) /\ (Own(x, d) <=> Own(x, g))
      <4>1. d = f /\ g = f BY <3>2, <3>4
      <4> QED BY <4>1 DEF Same
    <3> QED BY <3>1, <3>3, <3>4 DEF Allocates
  <2> QED BY <2>3, <2>8, <1>n, StepFine DEF OnlyChanges
<1> QED BY <1>2, <1>5, <1>6

-----------------------------------------------------------------------------
(* The setters.                                                            *)

LEMMA Calling ==
    ASSUME SetInv, NEW h \in Holders, NEW g, Call(h, g)
    PROVE  hold[h].live /\ hold[h] \in Holder /\ calls \in Nat /\ calls' = calls + 1 /\ calls' \in Nat /\ Arg \in Nat /\ Fresh \in Nat
<1>1. calls \in Nat /\ hold[h] \in Holder /\ heap \in Seq(Seq(Nat)) BY DEF SetInv, SetTypeOK
<1>2. Fresh \in Nat BY <1>1 DEF Fresh
<1>3. calls' = calls + 1 /\ hold[h].live BY DEF Call
<1> QED BY <1>1, <1>2, <1>3 DEF Arg

\* A setter of what is copied by assignment.
LEMMA PlainFine ==
    ASSUME SetInv, NEW h \in Holders, NEW x \in Holder, x.live, calls' \in Nat, heap' = heap,
           hold' = [hold EXCEPT ![h] = x],
           x.ptr = hold[h].ptr, x.slice = hold[h].slice, x.factory = hold[h].factory
    PROVE  SetInv' /\ OnlyChanges(h)
<1>1. ChangesObject(h) BY DEF ChangesObject
<1>2. \A p \in Pointers : Own(x, p) <=> Own(hold[h], p) BY DEF Own
<1>3. heap \in Seq(Seq(Nat)) /\ hold[h] \in Holder BY DEF SetInv, SetTypeOK
<1>4. \A p \in Pointers : x.ptr[p] # Len(heap) + 1
  <2> SUFFICES ASSUME NEW p \in Pointers PROVE hold[h].ptr[p] # Len(heap) + 1 OBVIOUS
  <2>1. p \in Fields /\ Addr(hold[h], p) = hold[h].ptr[p] BY FieldFacts
  <2>2. Addr(hold[h], p) <= Len(heap) /\ Addr(hold[h], p) \in Nat BY <2>1, <1>3, AddrType DEF SetInv, Allocated
  <2> QED BY <2>1, <2>2, <1>3
<1>5. Points(h, x) BY <1>2, <1>4 DEF Points
<1> QED BY <1>1, <1>5, SetterFine

LEMMA AssignFine ==
    ASSUME SetInv, NEW h \in Holders, NEW g, Call(h, g), NEW f \in PlainFields, Assign(h, f)
    PROVE  SetInv' /\ OnlyChanges(h)
<1>1. hold[h].live /\ hold[h] \in Holder /\ calls' \in Nat /\ Arg \in Nat BY Calling
<1>2. PICK n : n = Arg OBVIOUS
<1>3. PICK x : x = [hold[h] EXCEPT !.plain[f] = n] OBVIOUS
<1>4. x \in Holder /\ x.live /\ x.ptr = hold[h].ptr /\ x.slice = hold[h].slice /\ x.factory = hold[h].factory
  BY <1>1, <1>2, <1>3 DEF Holder
<1>5. hold' = [hold EXCEPT ![h] = x] /\ heap' = heap BY <1>2, <1>3 DEF Assign
<1> QED BY <1>1, <1>4, <1>5, PlainFine

\* A setter of an object: the one there is is changed, or one is made.
LEMMA ModifyFine ==
    ASSUME SetInv, NEW h \in Holders, hold[h].live, calls' \in Nat, NEW p \in Pointers, NEW v \in Seq(Nat),
           \/ hold[h].ptr[p] = 0 /\ heap' = Append(heap, v) /\ hold' = [hold EXCEPT ![h].ptr[p] = Fresh]
           \/ hold[h].ptr[p] # 0 /\ heap' = [heap EXCEPT ![hold[h].ptr[p]] = v] /\ hold' = hold
    PROVE  SetInv' /\ OnlyChanges(h)
<1>1. heap \in Seq(Seq(Nat)) /\ hold \in [Holders -> Holder] /\ hold[h] \in Holder /\ Len(heap) \in Nat BY DEF SetInv, SetTypeOK
<1>2. ChangesObject(h) BY DEF ChangesObject
<1>3. \A q \in Pointers : hold[h].ptr[q] # Len(heap) + 1
  <2> SUFFICES ASSUME NEW q \in Pointers PROVE hold[h].ptr[q] # Len(heap) + 1 OBVIOUS
  <2>1. q \in Fields /\ Addr(hold[h], q) = hold[h].ptr[q] BY FieldFacts
  <2>2. Addr(hold[h], q) <= Len(heap) /\ Addr(hold[h], q) \in Nat BY <2>1, <1>1, AddrType DEF SetInv, Allocated
  <2> QED BY <2>1, <2>2, <1>1
<1>4. CASE hold[h].ptr[p] = 0 /\ heap' = Append(heap, v) /\ hold' = [hold EXCEPT ![h].ptr[p] = Fresh]
  <2>1. PICK n, x : n = Len(heap) + 1 /\ x = [hold[h] EXCEPT !.ptr[p] = n] OBVIOUS
  <2>n. n \in Nat BY <2>1, <1>1
  <2>2. /\ x \in Holder /\ x.live /\ x.slice = hold[h].slice /\ x.factory = hold[h].factory /\ x.ptr[p] = n
        /\ \A q \in Pointers : q # p => x.ptr[q] = hold[h].ptr[q]
    BY <1>1, <2>1, <2>n DEF Holder
  <2>3. hold' = [hold EXCEPT ![h] = x] BY <1>4, <2>1 DEF Fresh
  <2>4. \A q \in Pointers : Own(x, q) <=> Own(hold[h], q) BY <2>2 DEF Own
  <2>5. Points(h, x) BY <1>3, <1>4, <2>1, <2>2, <2>4 DEF Points
  <2> QED BY <1>2, <2>2, <2>3, <2>5, SetterFine
<1>5. CASE hold' = hold
  <2>1. hold' = [hold EXCEPT ![h] = hold[h]] BY <1>1, <1>5
  <2>2. Points(h, hold[h]) BY <1>3 DEF Points
  <2>3. PICK x : x = hold[h] OBVIOUS
  <2> QED BY <1>1, <1>2, <2>1, <2>2, <2>3, SetterFine
<1> QED BY <1>4, <1>5

LEMMA SetFine ==
    ASSUME SetInv, NEW h \in Holders, NEW g, Call(h, g), NEW p \in Pointers, Set(h, p)
    PROVE  SetInv' /\ OnlyChanges(h)
<1>1. hold[h].live /\ calls' \in Nat /\ Arg \in Nat BY Calling
<1>2. PICK v : v = <<Arg>> OBVIOUS
<1>3. v \in Seq(Nat) BY <1>1, <1>2
<1>4. \/ hold[h].ptr[p] = 0 /\ heap' = Append(heap, v) /\ hold' = [hold EXCEPT ![h].ptr[p] = Fresh]
      \/ hold[h].ptr[p] # 0 /\ heap' = [heap EXCEPT ![hold[h].ptr[p]] = v] /\ hold' = hold
  BY <1>2 DEF Set, Modify
<1> QED BY <1>1, <1>3, <1>4, ModifyFine

LEMMA AddFine ==
    ASSUME SetInv, NEW h \in Holders, NEW g, Call(h, g), NEW p \in Pointers, Add(h, p)
    PROVE  SetInv' /\ OnlyChanges(h)
<1>1. hold[h].live /\ calls' \in Nat /\ Arg \in Nat /\ hold[h] \in Holder BY Calling
<1>2. CASE hold[h].ptr[p] = 0
  <2>1. PICK v : v = Append(<<>>, Arg) OBVIOUS
  <2>2. v \in Seq(Nat) BY <1>1, <2>1
  <2>3. heap' = Append(heap, v) /\ hold' = [hold EXCEPT ![h].ptr[p] = Fresh] BY <1>2, <2>1 DEF Add, Modify
  <2> QED BY <1>1, <1>2, <2>2, <2>3, ModifyFine
<1>3. CASE hold[h].ptr[p] # 0
  <2>1. PICK v : v = Append(heap[hold[h].ptr[p]], Arg) OBVIOUS
  <2>2. v \in Seq(Nat)
    <3>1. p \in Fields /\ Addr(hold[h], p) = hold[h].ptr[p] BY FieldFacts
    <3>2. PICK a : a = hold[h].ptr[p] OBVIOUS
    <3>3. a \in Nat /\ a <= Len(heap) /\ a # 0 BY <3>1, <3>2, <1>1, <1>3, AddrType DEF SetInv, Allocated
    <3>4. heap \in Seq(Seq(Nat)) BY DEF SetInv, SetTypeOK
    <3>5. heap[a] \in Seq(Nat) BY <3>3, <3>4
    <3> QED BY <3>2, <3>5, <1>1, <2>1
  <2>3. heap' = [heap EXCEPT ![hold[h].ptr[p]] = v] /\ hold' = hold BY <1>3, <2>1 DEF Add, Modify
  <2> QED BY <1>1, <1>3, <2>2, <2>3, ModifyFine
<1> QED BY <1>2, <1>3

LEMMA SetOrAddFine ==
    ASSUME SetInv, NEW h \in Holders, NEW g, Call(h, g), NEW p \in Pointers, SetOrAdd(h, p)
    PROVE  SetInv' /\ OnlyChanges(h)
BY SetFine, AddFine DEF SetOrAdd

\* A setter that appends.
LEMMA AppendInFine ==
    ASSUME SetInv, NEW h \in Holders, NEW g, Call(h, g), NEW f \in Slices,
           NEW base \in [Holders -> Holder], \A k \in Holders : k # h => base[k] = hold[k],
           base[h].live, base[h].ptr = hold[h].ptr, base[h].slice = hold[h].slice, base[h].factory = hold[h].factory,
           AppendIn(base, h, f)
    PROVE  SetInv' /\ OnlyChanges(h)
<1>1. hold[h].live /\ calls \in Nat /\ calls' = calls + 1 /\ Arg \in Nat /\ hold[h] \in Holder BY Calling
<1>2. heap \in Seq(Seq(Nat)) /\ Len(heap) \in Nat /\ hold \in [Holders -> Holder] BY DEF SetInv, SetTypeOK
<1>3. PICK s : s = hold[h].slice[f] OBVIOUS
<1>4. s \in [a : Nat, len : Nat] BY <1>1, <1>3 DEF Holder
<1>5. s.a <= Len(heap) /\ s.len <= Capacity(s)
  <2>1. f \in Fields /\ Addr(hold[h], f) = s.a BY <1>3, FieldFacts
  <2> QED BY <2>1, <1>3 DEF SetInv, Allocated, SlicesFit
<1>6. s.a # 0 => heap[s.a] \in Seq(Nat) BY <1>2, <1>4, <1>5
<1>7. Capacity(s) \in Nat /\ (s.a # 0 => Capacity(s) = Len(heap[s.a])) /\ (s.a = 0 => Capacity(s) = 0)
  BY <1>6 DEF Capacity
<1>b. base[h] \in Holder OBVIOUS
<1>8. CASE s.len < Capacity(s)
  <2>1. heap' = [heap EXCEPT ![s.a][s.len + 1] = Arg] /\ hold' = [base EXCEPT ![h].slice[f].len = @ + 1]
    BY <1>3, <1>8 DEF AppendIn
  <2>2. PICK n, y, x : n = s.len + 1 /\ y = [a |-> s.a, len |-> n] /\ x = [base[h] EXCEPT !.slice[f] = y] OBVIOUS
  <2>3. y \in [a : Nat, len : Nat] /\ y = [s EXCEPT !.len = s.len + 1] BY <2>2, <1>4
  <2>4. /\ x \in Holder /\ x.live /\ x.ptr = hold[h].ptr /\ x.factory = hold[h].factory /\ x.slice[f] = y
        /\ \A g2 \in Slices : g2 # f => x.slice[g2] = hold[h].slice[g2]
    BY <1>b, <2>2, <2>3 DEF Holder
  <2>5. hold' = [base EXCEPT ![h] = x] BY <2>1, <2>2, <2>3, <1>3
  <2>6. hold' = [hold EXCEPT ![h] = x] BY <2>5, <1>2
  <2>7. /\ hold[h].slice[f].len < Capacity(hold[h].slice[f])
        /\ heap' = [heap EXCEPT ![hold[h].slice[f].a][hold[h].slice[f].len + 1] = Arg]
        /\ x.slice[f] = [a |-> hold[h].slice[f].a, len |-> hold[h].slice[f].len + 1]
    BY <1>3, <1>8, <2>1, <2>2, <2>4
  <2> QED BY <1>1, <2>4, <2>6, <2>7, AppendFine
<1>9. CASE ~(s.len < Capacity(s))
  <2>0. s.len = Capacity(s) BY <1>9, <1>4, <1>5, <1>7
  <2>1. PICK m : m = IF Capacity(s) = 0 THEN 1 ELSE 2 * Capacity(s) OBVIOUS
  <2>2. PICK v : v = [i \in 1..m |-> IF i <= s.len THEN Elements(s)[i] ELSE IF i = s.len + 1 THEN Arg ELSE 0] OBVIOUS
  <2>3. heap' = Append(heap, v) /\ hold' = [base EXCEPT ![h].slice[f] = [a |-> Fresh, len |-> s.len + 1]]
    BY <1>3, <1>9, <2>1, <2>2 DEF AppendIn
  <2>4. m \in Nat /\ s.len + 1 <= m BY <2>0, <2>1, <1>7
  <2>5. \A i \in 1..m : i <= s.len => Elements(s)[i] \in Nat
    <3> SUFFICES ASSUME NEW i \in 1..m, i <= s.len PROVE Elements(s)[i] \in Nat OBVIOUS
    <3>1. s.a # 0 /\ s.len = Len(heap[s.a]) BY <2>0, <1>7, <1>4
    <3>2. PICK u : u = heap[s.a] OBVIOUS
    <3>3. u \in Seq(Nat) /\ s.len = Len(u) BY <3>1, <3>2, <1>6
    <3>4. SubSeq(u, 1, s.len)[i] = u[i] /\ u[i] \in Nat BY <3>3, <2>4
    <3> QED BY <3>1, <3>2, <3>4 DEF Elements
  <2>6. v \in Seq(Nat) /\ Len(v) = m
    <3>1. v \in [1..m -> Nat] BY <2>2, <2>5, <1>1
    <3> QED BY <3>1, <2>4
  <2>7. PICK n, y, x : n = s.len + 1 /\ y = [a |-> Len(heap) + 1, len |-> n] /\ x = [base[h] EXCEPT !.slice[f] = y] OBVIOUS
  <2>8. y \in [a : Nat, len : Nat] BY <2>7, <1>2, <1>4
  <2>9. /\ x \in Holder /\ x.live /\ x.ptr = hold[h].ptr /\ x.factory = hold[h].factory /\ x.slice[f] = y
        /\ \A g2 \in Slices : g2 # f => x.slice[g2] = hold[h].slice[g2]
    BY <1>b, <2>7, <2>8 DEF Holder
  <2>10. hold' = [base EXCEPT ![h] = x] BY <2>3, <2>7 DEF Fresh
  <2>11. hold' = [hold EXCEPT ![h] = x] BY <2>10, <1>2
  <2>12. /\ hold[h].slice[f].len + 1 <= Len(v)
         /\ heap' = Append(heap, v)
         /\ x.slice[f] = [a |-> Len(heap) + 1, len |-> hold[h].slice[f].len + 1]
    BY <1>3, <2>3, <2>4, <2>6, <2>7, <2>9
  <2> QED BY <1>1, <2>6, <2>9, <2>11, <2>12, AppendFine
<1> QED BY <1>8, <1>9

LEMMA AppendToFine ==
    ASSUME SetInv, NEW h \in Holders, NEW g, Call(h, g), NEW f \in Slices, AppendTo(h, f)
    PROVE  SetInv' /\ OnlyChanges(h)
<1>1. hold[h].live BY Calling
<1>2. PICK base : base = hold OBVIOUS
<1>3. base \in [Holders -> Holder] /\ \A k \in Holders : base[k] = hold[k] BY <1>2 DEF SetInv, SetTypeOK
<1>4. AppendIn(base, h, f) BY <1>2 DEF AppendTo, AppendIn
<1> QED BY <1>1, <1>3, <1>4, AppendInFine

LEMMA WrapFine ==
    ASSUME SetInv, NEW h \in Holders, NEW g, Call(h, g), NEW f \in Wrappers, Wrap(h, f)
    PROVE  SetInv' /\ OnlyChanges(h)
<1>1. hold[h].live /\ hold[h] \in Holder /\ Arg \in Nat BY Calling
<1>2. hold \in [Holders -> Holder] BY DEF SetInv, SetTypeOK
<1>3. PICK u, base : u = Append(hold[h].wrapped[f], Arg) /\ base = [hold EXCEPT ![h].wrapped[f] = u] OBVIOUS
<1>4. u \in Seq(Nat)
  <2>1. hold[h].wrapped[f] \in Seq(Nat) BY <1>1 DEF Holder
  <2> QED BY <2>1, <1>1, <1>3
<1>5. PICK x : x = [hold[h] EXCEPT !.wrapped[f] = u] OBVIOUS
<1>6. x \in Holder /\ x.live /\ x.ptr = hold[h].ptr /\ x.slice = hold[h].slice /\ x.factory = hold[h].factory
  BY <1>1, <1>4, <1>5 DEF Holder
<1>7. base \in [Holders -> Holder] /\ base[h] = x /\ \A k \in Holders : k # h => base[k] = hold[k] BY <1>2, <1>3, <1>5, <1>6
<1>8. f \in Slices BY DEF Wrappers, Slices
<1>9. AppendIn(base, h, f) BY <1>3 DEF Wrap, AppendIn
<1> QED BY <1>6, <1>7, <1>8, <1>9, AppendInFine

LEMMA NotFresh ==
    ASSUME SetInv, NEW h \in Holders
    PROVE  \A q \in Pointers : hold[h].ptr[q] # Len(heap) + 1
<1>1. heap \in Seq(Seq(Nat)) /\ hold[h] \in Holder BY DEF SetInv, SetTypeOK
<1> SUFFICES ASSUME NEW q \in Pointers PROVE hold[h].ptr[q] # Len(heap) + 1 OBVIOUS
<1>2. q \in Fields /\ Addr(hold[h], q) = hold[h].ptr[q] BY FieldFacts
<1>3. Addr(hold[h], q) <= Len(heap) /\ Addr(hold[h], q) \in Nat BY <1>1, <1>2, AddrType DEF SetInv, Allocated
<1> QED BY <1>1, <1>2, <1>3

\* The objects of these fields are not shared by Clone; a jar is not if a factory makes it.
LEMMA Owned ==
    /\ \A x : \A p \in Pointers \ {"RootCAs", "Jar"} : Own(x, p)
    /\ \A x : Own(x, "Jar") <=> x.factory
    /\ \A x : ~Own(x, "RootCAs")
    /\ \A x, y : \A f \in Fields \ {"Jar"} : Own(x, f) <=> Own(y, f)
    /\ \A x, y : \A f \in Fields : x.factory = y.factory => (Own(x, f) <=> Own(y, f))
<1>1. \A p \in Pointers : p \notin Wrappers /\ p # "Certificates" BY DEF Pointers, Wrappers
<1>2. "Jar" \notin Wrappers BY DEF Wrappers
<1> QED BY <1>1, <1>2 DEF Own

LEMMA TLSConfigFine ==
    ASSUME SetInv, NEW h \in Holders, SetTLSClientConfig(h)
    PROVE  SetInv' /\ OnlyChanges(h)
<1>0. Call(h, "tls") BY DEF SetTLSClientConfig
<1>1. hold[h].live /\ hold[h] \in Holder /\ calls' \in Nat /\ Arg \in Nat /\ Fresh \in Nat BY <1>0, Calling
<1>2. PICK n, v : n = Fresh /\ v = <<Arg>> OBVIOUS
<1>3. PICK x : x = [hold[h] EXCEPT !.ptr["TLSClientConfig"] = n, !.ptr["RootCAs"] = 0, !.slice["Certificates"] = NoSlice] OBVIOUS
<1>4. NoSlice \in [a : Nat, len : Nat] BY DEF NoSlice
<1>5. "TLSClientConfig" \in Pointers /\ "RootCAs" \in Pointers /\ "Certificates" \in Slices BY DEF Pointers, Slices
<1>6. /\ x \in Holder /\ x.live /\ x.factory = hold[h].factory /\ x.ptr["TLSClientConfig"] = n /\ x.ptr["RootCAs"] = 0
      /\ \A q \in Pointers : q # "TLSClientConfig" /\ q # "RootCAs" => x.ptr[q] = hold[h].ptr[q]
      /\ \A s \in Slices : x.slice[s] = hold[h].slice[s] \/ x.slice[s] = NoSlice
  BY <1>1, <1>2, <1>3, <1>4, <1>5 DEF Holder
<1>7. hold' = [hold EXCEPT ![h] = x] /\ heap' = Append(heap, v)
  <2>1. hold \in [Holders -> Holder] BY DEF SetInv, SetTypeOK
  <2> QED BY <2>1, <1>2, <1>3 DEF SetTLSClientConfig
<1>8. v \in Seq(Nat) BY <1>1, <1>2
<1>9. ChangesObject(h) BY <1>7, <1>8 DEF ChangesObject
<1>10. \A q \in Pointers : Own(x, q) <=> Own(hold[h], q) BY <1>6, Owned DEF Fields
<1>11. Points(h, x)
  <2>1. \A p \in Pointers : x.ptr[p] = Len(heap) + 1 => p = "TLSClientConfig"
    <3>1. Len(heap) + 1 # 0 BY DEF SetInv, SetTypeOK
    <3> QED BY <3>1, <1>6, NotFresh
  <2>2. \A p \in Pointers : \/ x.ptr[p] = 0
                            \/ x.ptr[p] = Len(heap) + 1 /\ heap' = Append(heap, v)
                            \/ x.ptr[p] = hold[h].ptr[p]
    BY <1>2, <1>6, <1>7 DEF Fresh
  <2> QED BY <2>1, <2>2, <1>6, <1>8, <1>10 DEF Points
<1> QED BY <1>1, <1>6, <1>7, <1>9, <1>11, SetterFine

\* The dumpers: the options and what runs on them are the holder's own.
LEMMA DumpFine ==
    ASSUME SetInv, NEW h \in Holders, Call(h, "dump"), NEW a \in Nat, NEW b \in Nat,
           hold' = [hold EXCEPT ![h].ptr["dumpOptions"] = a, ![h].ptr["Dump"] = b],
           \/ heap' = Append(heap, <<Arg>>) /\ a = Fresh /\ b \in {0, Fresh, hold[h].ptr["Dump"]}
           \/ /\ heap' = heap \/ (a # 0 /\ heap' = [heap EXCEPT ![a] = <<Arg>>])
              /\ a = hold[h].ptr["dumpOptions"] /\ b \in {0, a, hold[h].ptr["Dump"]}
    PROVE  SetInv' /\ OnlyChanges(h)
<1>1. hold[h].live /\ hold[h] \in Holder /\ calls' \in Nat /\ Arg \in Nat /\ Fresh \in Nat BY Calling
<1>2. PICK x : x = [hold[h] EXCEPT !.ptr["dumpOptions"] = a, !.ptr["Dump"] = b] OBVIOUS
<1>3. "dumpOptions" \in Pointers /\ "Dump" \in Pointers /\ "dumpOptions" # "Jar" /\ "dumpOptions" # "RootCAs" /\ "Dump" # "Jar" /\ "Dump" # "RootCAs"
  BY DEF Pointers
<1>4. /\ x \in Holder /\ x.live /\ x.factory = hold[h].factory /\ x.ptr["dumpOptions"] = a /\ x.ptr["Dump"] = b
      /\ \A q \in Pointers : q # "dumpOptions" /\ q # "Dump" => x.ptr[q] = hold[h].ptr[q]
      /\ x.slice = hold[h].slice
  BY <1>1, <1>2, <1>3 DEF Holder
<1>5. hold' = [hold EXCEPT ![h] = x]
  <2>1. hold \in [Holders -> Holder] BY DEF SetInv, SetTypeOK
  <2> QED BY <2>1, <1>2
<1>6. PICK v : v = <<Arg>> OBVIOUS
<1>7. v \in Seq(Nat) BY <1>1, <1>6
<1>8. ChangesObject(h) BY <1>3, <1>6, <1>7 DEF ChangesObject
<1>9. \A q \in Pointers : Own(x, q) <=> Own(hold[h], q) BY <1>4, Owned DEF Fields
<1>10. Own(x, "dumpOptions") /\ Own(x, "Dump") /\ Own(hold[h], "dumpOptions") /\ Own(hold[h], "Dump") BY <1>3, Owned
<1>11. CASE heap' = Append(heap, <<Arg>>) /\ a = Fresh /\ b \in {0, Fresh, hold[h].ptr["Dump"]}
  <2>1. \A p \in Pointers : x.ptr[p] = Len(heap) + 1 => p = "dumpOptions" \/ p = "Dump" BY <1>4, NotFresh
  <2>2. \A p \in Pointers : \/ x.ptr[p] = 0
                            \/ x.ptr[p] = Len(heap) + 1 /\ heap' = Append(heap, v)
                            \/ x.ptr[p] = hold[h].ptr[p]
    BY <1>4, <1>6, <1>11 DEF Fresh
  <2>3. Points(h, x) BY <1>4, <1>7, <1>9, <1>10, <2>1, <2>2 DEF Points
  <2> QED BY <1>1, <1>4, <1>5, <1>8, <2>3, SetterFine
<1>12. CASE a = hold[h].ptr["dumpOptions"] /\ b \in {0, a, hold[h].ptr["Dump"]}
  <2>1. \A p \in Pointers : \/ x.ptr[p] = 0
                            \/ \E q \in Pointers : x.ptr[p] = hold[h].ptr[q] /\ (Own(x, p) <=> Own(hold[h], q))
    <3> SUFFICES ASSUME NEW p \in Pointers, x.ptr[p] # 0
                 PROVE  \E q \in Pointers : x.ptr[p] = hold[h].ptr[q] /\ (Own(x, p) <=> Own(hold[h], q))
      OBVIOUS
    <3>1. CASE p = "Dump" BY <3>1, <1>3, <1>4, <1>10, <1>12
    <3>2. CASE p = "dumpOptions" BY <3>2, <1>3, <1>4, <1>10, <1>12
    <3>3. CASE p # "Dump" /\ p # "dumpOptions" BY <3>3, <1>4, <1>9
    <3> QED BY <3>1, <3>2, <3>3
  <2>2. \A p \in Pointers : x.ptr[p] # Len(heap) + 1
    <3>1. Len(heap) + 1 # 0 BY <1>1 DEF Fresh, SetInv, SetTypeOK
    <3> QED BY <2>1, <3>1, NotFresh
  <2>3. Points(h, x) BY <1>4, <2>1, <2>2 DEF Points
  <2> QED BY <1>1, <1>4, <1>5, <1>8, <2>3, SetterFine
<1> QED BY <1>11, <1>12

LEMMA EnableDumpAllFine ==
    ASSUME SetInv, NEW h \in Holders, EnableDumpAll(h)
    PROVE  SetInv' /\ OnlyChanges(h)
<1>0. Call(h, "dump") BY DEF EnableDumpAll
<1>1. hold[h] \in Holder /\ Fresh \in Nat BY <1>0, Calling
<1>2. PICK opts, d : opts = hold[h].ptr["dumpOptions"] /\ d = hold[h].ptr["Dump"] OBVIOUS
<1>3. opts \in Nat /\ d \in Nat
  <2>1. "dumpOptions" \in Pointers /\ "Dump" \in Pointers BY DEF Pointers
  <2> QED BY <1>1, <1>2, <2>1 DEF Holder
<1>4. PICK a, b : a = (IF opts = 0 THEN Fresh ELSE opts) /\ b = (IF d = 0 THEN a ELSE d) OBVIOUS
<1>5. a \in Nat /\ b \in Nat BY <1>1, <1>3, <1>4
<1>6. hold' = [hold EXCEPT ![h].ptr["dumpOptions"] = a, ![h].ptr["Dump"] = b]
  <2>1. hold \in [Holders -> Holder] BY DEF SetInv, SetTypeOK
  <2>2. hold' = [hold EXCEPT ![h].ptr["dumpOptions"] = a, ![h].ptr["Dump"] = IF @ = 0 THEN a ELSE @] BY <1>2, <1>4 DEF EnableDumpAll
  <2>3. [hold EXCEPT ![h].ptr["dumpOptions"] = a][h].ptr["Dump"] = d
    <3>1. "dumpOptions" # "Dump" OBVIOUS
    <3>2. hold[h].ptr \in [Pointers -> Nat] /\ "Dump" \in Pointers BY <1>1 DEF Holder, Pointers
    <3>3. PICK y : y = [hold[h] EXCEPT !.ptr["dumpOptions"] = a] OBVIOUS
    <3>4. y.ptr["Dump"] = d BY <3>1, <3>2, <3>3, <1>1, <1>2 DEF Holder
    <3> QED BY <2>1, <3>3, <3>4
  <2> QED BY <2>2, <2>3, <1>4
<1>7. heap' = IF opts = 0 THEN Append(heap, <<Arg>>) ELSE [heap EXCEPT ![a] = <<Arg>>] BY <1>2, <1>4 DEF EnableDumpAll
<1>8. CASE opts = 0
  <2>1. a = Fresh /\ b \in {0, Fresh, hold[h].ptr["Dump"]} /\ heap' = Append(heap, <<Arg>>) BY <1>2, <1>4, <1>7, <1>8
  <2> QED BY <1>0, <1>5, <1>6, <2>1, DumpFine
<1>9. CASE opts # 0
  <2>1. a = hold[h].ptr["dumpOptions"] /\ b \in {0, a, hold[h].ptr["Dump"]} /\ a # 0 /\ heap' = [heap EXCEPT ![a] = <<Arg>>] BY <1>2, <1>4, <1>7, <1>9
  <2> QED BY <1>0, <1>5, <1>6, <2>1, DumpFine
<1> QED BY <1>8, <1>9

LEMMA EnableDumpFine ==
    ASSUME SetInv, NEW h \in Holders, EnableDump(h)
    PROVE  SetInv' /\ OnlyChanges(h)
<1>0. Call(h, "dump") BY DEF EnableDump
<1>1. hold[h] \in Holder /\ Fresh \in Nat BY <1>0, Calling
<1>2. PICK opts : opts = hold[h].ptr["dumpOptions"] OBVIOUS
<1>3. opts \in Nat
  <2>1. "dumpOptions" \in Pointers BY DEF Pointers
  <2> QED BY <1>1, <1>2, <2>1 DEF Holder
<1>4. PICK a : a = IF opts = 0 THEN Fresh ELSE opts OBVIOUS
<1>5. a \in Nat BY <1>1, <1>3, <1>4
<1>6. hold' = [hold EXCEPT ![h].ptr["dumpOptions"] = a, ![h].ptr["Dump"] = a] BY <1>2, <1>4 DEF EnableDump
<1>7. heap' = IF opts = 0 THEN Append(heap, <<Arg>>) ELSE [heap EXCEPT ![a] = <<Arg>>] BY <1>2, <1>4 DEF EnableDump
<1>8. CASE opts = 0
  <2>1. a = Fresh /\ a \in {0, Fresh, hold[h].ptr["Dump"]} /\ heap' = Append(heap, <<Arg>>) BY <1>4, <1>7, <1>8
  <2> QED BY <1>0, <1>5, <1>6, <2>1, DumpFine
<1>9. CASE opts # 0
  <2>1. a = hold[h].ptr["dumpOptions"] /\ a \in {0, a, hold[h].ptr["Dump"]} /\ a # 0 /\ heap' = [heap EXCEPT ![a] = <<Arg>>] BY <1>2, <1>4, <1>7, <1>9
  <2> QED BY <1>0, <1>5, <1>6, <2>1, DumpFine
<1> QED BY <1>8, <1>9

LEMMA DisableDumpAllFine ==
    ASSUME SetInv, NEW h \in Holders, DisableDumpAll(h)
    PROVE  SetInv' /\ OnlyChanges(h)
<1>0. Call(h, "dump") BY DEF DisableDumpAll
<1>1. hold[h] \in Holder /\ hold \in [Holders -> Holder] BY <1>0, Calling DEF SetInv, SetTypeOK
<1>2. PICK a : a = hold[h].ptr["dumpOptions"] OBVIOUS
<1>3. "dumpOptions" \in Pointers /\ "Dump" \in Pointers BY DEF Pointers
<1>4. a \in Nat BY <1>1, <1>2, <1>3 DEF Holder
<1>5. hold' = [hold EXCEPT ![h].ptr["dumpOptions"] = a, ![h].ptr["Dump"] = 0]
  <2>1. [hold[h] EXCEPT !.ptr["dumpOptions"] = a] = hold[h]
    <3>1. [hold[h].ptr EXCEPT !["dumpOptions"] = a] = hold[h].ptr BY <1>1, <1>2, <1>3 DEF Holder
    <3>2. PICK y : y = hold[h].ptr OBVIOUS
    <3>3. [hold[h] EXCEPT !.ptr = y] = hold[h] BY <1>1, <3>2 DEF Holder
    <3> QED BY <3>1, <3>2, <3>3
  <2>2. [hold EXCEPT ![h].ptr["dumpOptions"] = a] = hold BY <1>1, <2>1
  <2> QED BY <2>2 DEF DisableDumpAll
<1>6. heap' = heap BY DEF DisableDumpAll
<1>7. 0 \in {0, a, hold[h].ptr["Dump"]} OBVIOUS
<1> QED BY <1>0, <1>2, <1>4, <1>5, <1>6, <1>7, DumpFine

LEMMA SetCommonDumpOptionsFine ==
    ASSUME SetInv, NEW h \in Holders, SetCommonDumpOptions(h)
    PROVE  SetInv' /\ OnlyChanges(h)
<1>0. Call(h, "dump") BY DEF SetCommonDumpOptions
<1>1. hold[h] \in Holder /\ Fresh \in Nat BY <1>0, Calling
<1>2. PICK d, n : d = hold[h].ptr["Dump"] /\ n = Fresh OBVIOUS
<1>4. PICK b : b = IF d = 0 THEN 0 ELSE n OBVIOUS
<1>5. n \in Nat /\ b \in Nat BY <1>1, <1>2, <1>4
<1>6. hold' = [hold EXCEPT ![h].ptr["dumpOptions"] = n, ![h].ptr["Dump"] = b]
  <2>1. hold \in [Holders -> Holder] BY DEF SetInv, SetTypeOK
  <2>2. hold' = [hold EXCEPT ![h].ptr["dumpOptions"] = n, ![h].ptr["Dump"] = IF @ = 0 THEN 0 ELSE n] BY <1>2 DEF SetCommonDumpOptions
  <2>3. [hold EXCEPT ![h].ptr["dumpOptions"] = n][h].ptr["Dump"] = d
    <3>1. "dumpOptions" # "Dump" OBVIOUS
    <3>2. hold[h].ptr \in [Pointers -> Nat] /\ "Dump" \in Pointers BY <1>1 DEF Holder, Pointers
    <3>3. PICK y : y = [hold[h] EXCEPT !.ptr["dumpOptions"] = n] OBVIOUS
    <3>4. y.ptr["Dump"] = d BY <3>1, <3>2, <3>3, <1>1, <1>2 DEF Holder
    <3> QED BY <2>1, <3>3, <3>4
  <2> QED BY <2>2, <2>3, <1>4
<1>7. heap' = Append(heap, <<Arg>>) BY DEF SetCommonDumpOptions
<1>8. n = Fresh /\ b \in {0, Fresh, hold[h].ptr["Dump"]} BY <1>2, <1>4
<1> QED BY <1>0, <1>5, <1>6, <1>7, <1>8, DumpFine

\* The jars.
LEMMA JarFine ==
    ASSUME SetInv, NEW h \in Holders, Call(h, "jar"), NEW fac \in BOOLEAN, NEW sl \in [Slices -> [a : Nat, len : Nat]],
           \A s \in Slices : sl[s] = hold[h].slice[s] \/ sl[s] = NoSlice,
           NEW x, x = [hold[h] EXCEPT !.ptr["Jar"] = Fresh, !.factory = fac, !.slice = sl],
           hold' = [hold EXCEPT ![h] = x], heap' = Append(heap, <<>>)
    PROVE  SetInv' /\ OnlyChanges(h)
<1>1. hold[h].live /\ hold[h] \in Holder /\ calls' \in Nat /\ Fresh \in Nat BY Calling
<1>2. PICK n, v : n = Fresh /\ v = <<>> OBVIOUS
<1>3. "Jar" \in Pointers BY DEF Pointers
<1>4. /\ x \in Holder /\ x.live /\ x.ptr["Jar"] = n /\ x.slice = sl
      /\ \A q \in Pointers : q # "Jar" => x.ptr[q] = hold[h].ptr[q]
  BY <1>1, <1>2, <1>3 DEF Holder
<1>5. <<>> \in Seq(Nat) OBVIOUS
<1>6. v \in Seq(Nat) /\ heap' = Append(heap, v) BY <1>2, <1>5, Zenon
<1>7. ChangesObject(h) BY <1>6 DEF ChangesObject
<1>8. \A q \in Pointers : q # "Jar" => (Own(x, q) <=> Own(hold[h], q)) BY Owned DEF Fields
<1>9. \A q \in Pointers : x.ptr[q] = Len(heap) + 1 => q = "Jar" BY <1>4, NotFresh
<1>10. Points(h, x) BY <1>2, <1>4, <1>6, <1>8, <1>9 DEF Points, Fresh
<1> QED BY <1>1, <1>4, <1>7, <1>10, SetterFine

LEMMA SetCookieJarFine ==
    ASSUME SetInv, NEW h \in Holders, SetCookieJar(h) \/ SetCookieJarFactory(h)
    PROVE  SetInv' /\ OnlyChanges(h)
<1>0. Call(h, "jar") BY DEF SetCookieJar, SetCookieJarFactory
<1>1. hold[h] \in Holder /\ hold \in [Holders -> Holder] BY <1>0, Calling DEF SetInv, SetTypeOK
<1>2. PICK fac \in BOOLEAN : hold' = [hold EXCEPT ![h].ptr["Jar"] = Fresh, ![h].factory = fac] BY DEF SetCookieJar, SetCookieJarFactory
<1>3. heap' = Append(heap, <<>>) BY DEF SetCookieJar, SetCookieJarFactory
<1>4. PICK sl : sl = hold[h].slice OBVIOUS
<1>5. sl \in [Slices -> [a : Nat, len : Nat]] BY <1>1, <1>4 DEF Holder
<1>6. PICK n : n = Fresh OBVIOUS
<1>7. PICK x : x = [hold[h] EXCEPT !.ptr["Jar"] = n, !.factory = fac, !.slice = sl] OBVIOUS
<1>8. x = [hold[h] EXCEPT !.ptr["Jar"] = n, !.factory = fac] BY <1>1, <1>4, <1>7 DEF Holder
<1>9. hold' = [hold EXCEPT ![h] = x] BY <1>1, <1>2, <1>6, <1>8
<1> QED BY <1>0, <1>3, <1>4, <1>5, <1>6, <1>7, <1>9, JarFine

LEMMA ClearCookiesFine ==
    ASSUME SetInv, NEW h \in Holders, ClearCookies(h)
    PROVE  SetInv' /\ OnlyChanges(h)
<1>0. Call(h, "jar") BY DEF ClearCookies
<1>1. hold[h].live /\ hold[h] \in Holder /\ hold \in [Holders -> Holder] /\ calls' \in Nat BY <1>0, Calling DEF SetInv, SetTypeOK
<1>2. PICK sl : sl = [hold[h].slice EXCEPT !["Cookies"] = NoSlice] OBVIOUS
<1>3. "Jar" \in Pointers /\ "Cookies" \in Slices BY DEF Pointers, Slices
<1>4. NoSlice \in [a : Nat, len : Nat] BY DEF NoSlice
<1>5. sl \in [Slices -> [a : Nat, len : Nat]] /\ \A s \in Slices : sl[s] = hold[h].slice[s] \/ sl[s] = NoSlice
  BY <1>1, <1>2, <1>3, <1>4 DEF Holder
<1>6. CASE hold[h].factory
  <2>1. heap' = Append(heap, <<>>) BY <1>6 DEF ClearCookies
  <2>2. PICK n : n = Fresh OBVIOUS
  <2>3. hold' = [hold EXCEPT ![h].ptr["Jar"] = n, ![h].slice["Cookies"] = NoSlice] BY <1>6, <2>2 DEF ClearCookies
  <2>4. PICK x : x = [hold[h] EXCEPT !.ptr["Jar"] = n, !.factory = TRUE, !.slice = sl] OBVIOUS
  <2>5. x = [hold[h] EXCEPT !.ptr["Jar"] = n, !.slice["Cookies"] = NoSlice] BY <1>1, <1>2, <1>6, <2>4 DEF Holder
  <2>6. hold' = [hold EXCEPT ![h] = x] BY <1>1, <2>3, <2>5
  <2> QED BY <1>0, <1>5, <2>1, <2>2, <2>4, <2>6, JarFine
<1>7. CASE ~hold[h].factory
  <2>1. heap' = heap BY <1>7 DEF ClearCookies
  <2>2. hold' = [hold EXCEPT ![h].ptr["Jar"] = @, ![h].slice["Cookies"] = NoSlice] BY <1>7 DEF ClearCookies
  <2>3. PICK x : x = [hold[h] EXCEPT !.slice = sl] OBVIOUS
  <2>4. x \in Holder /\ x.live /\ x.ptr = hold[h].ptr /\ x.factory = hold[h].factory /\ x.slice = sl BY <1>1, <1>5, <2>3 DEF Holder
  <2>5. hold' = [hold EXCEPT ![h] = x]
    <3>1. [hold[h].ptr EXCEPT !["Jar"] = hold[h].ptr["Jar"]] = hold[h].ptr BY <1>1, <1>3 DEF Holder
    <3>2. PICK y : y = hold[h].ptr OBVIOUS
    <3>3. [hold[h] EXCEPT !.ptr = y] = hold[h] BY <1>1, <3>2 DEF Holder
    <3>4. [hold EXCEPT ![h].ptr["Jar"] = @] = hold BY <1>1, <3>1, <3>2, <3>3
    <3> QED BY <2>2, <2>3, <3>4, <1>2
  <2>6. ChangesObject(h) BY <2>1 DEF ChangesObject
  <2>7. \A q \in Pointers : Own(x, q) <=> Own(hold[h], q) BY <2>4, Owned DEF Fields
  <2>8. Points(h, x) BY <1>5, <2>4, <2>7, NotFresh DEF Points
  <2> QED BY <1>1, <2>4, <2>5, <2>6, <2>8, SetterFine
<1> QED BY <1>6, <1>7

\* Several fields set at once, and the handshake.
LEMMA FieldsFine ==
    ASSUME SetInv, NEW h \in Holders, NEW g, Call(h, g), UNCHANGED heap,
           NEW pl \in [PlainFields -> Nat], NEW sh \in Clients \union {"own", "custom"},
           hold' = [hold EXCEPT ![h] = [hold[h] EXCEPT !.plain = pl, !.shake = sh]]
    PROVE  SetInv' /\ OnlyChanges(h)
<1>1. hold[h].live /\ hold[h] \in Holder /\ calls' \in Nat BY Calling
<1>2. PICK x : x = [hold[h] EXCEPT !.plain = pl, !.shake = sh] OBVIOUS
<1>3. x \in Holder /\ x.live /\ x.ptr = hold[h].ptr /\ x.slice = hold[h].slice /\ x.factory = hold[h].factory
  BY <1>1, <1>2 DEF Holder
<1> QED BY <1>1, <1>2, <1>3, PlainFine

LEMMA HandshakeFine ==
    ASSUME SetInv, NEW h \in Clients, SetTLSFingerprint(h) \/ SetTLSHandshake(h)
    PROVE  SetInv' /\ OnlyChanges(h)
<1>0. h \in Holders /\ Call(h, "tls") /\ UNCHANGED heap BY DEF SetTLSFingerprint, SetTLSHandshake, Holders
<1>1. hold[h] \in Holder /\ hold \in [Holders -> Holder] BY <1>0, Calling DEF SetInv, SetTypeOK
<1>2. PICK sh \in Clients \union {"own", "custom"} : hold' = [hold EXCEPT ![h].shake = sh] BY DEF SetTLSFingerprint, SetTLSHandshake
<1>3. PICK pl : pl = hold[h].plain OBVIOUS
<1>4. pl \in [PlainFields -> Nat] BY <1>1, <1>3 DEF Holder
<1>5. [hold[h] EXCEPT !.plain = pl] = hold[h] BY <1>1, <1>3 DEF Holder
<1>6. hold' = [hold EXCEPT ![h] = [hold[h] EXCEPT !.plain = pl, !.shake = sh]] BY <1>2, <1>5
<1> QED BY <1>0, <1>4, <1>6, FieldsFine

LEMMA VersionsFine ==
    ASSUME SetInv, NEW h \in Holders, EnableH2C(h) \/ DisableH2C(h) \/ EnableHTTP3(h) \/ DisableHTTP3(h)
    PROVE  SetInv' /\ OnlyChanges(h)
<1>0. PICK g : Call(h, g) /\ UNCHANGED heap BY DEF EnableH2C, DisableH2C, EnableHTTP3, DisableHTTP3
<1>1. hold[h] \in Holder /\ hold \in [Holders -> Holder] /\ Arg \in Nat BY <1>0, Calling DEF SetInv, SetTypeOK
<1>2. PICK sh : sh = hold[h].shake OBVIOUS
<1>3. sh \in Clients \union {"own", "custom"} BY <1>1, <1>2 DEF Holder
<1>4. {"h2c", "AllowHTTP", "dial", "t3", "version"} \subseteq PlainFields BY DEF PlainFields
<1>5. hold[h].plain \in [PlainFields -> Nat] BY <1>1 DEF Holder
<1>6. ASSUME NEW pl \in [PlainFields -> Nat], hold' = [hold EXCEPT ![h] = [hold[h] EXCEPT !.plain = pl]]
      PROVE  SetInv' /\ OnlyChanges(h)
  <2>1. [hold[h] EXCEPT !.plain = pl, !.shake = sh] = [hold[h] EXCEPT !.plain = pl] BY <1>1, <1>2 DEF Holder
  <2>2. hold' = [hold EXCEPT ![h] = [hold[h] EXCEPT !.plain = pl, !.shake = sh]] BY <1>6, <2>1
  <2> QED BY <1>0, <1>3, <2>2, FieldsFine
<1>7. CASE EnableH2C(h)
  <2>1. PICK n, pl : n = Arg /\ pl = [hold[h].plain EXCEPT !["h2c"] = 1, !["AllowHTTP"] = 1, !["dial"] = n] OBVIOUS
  <2>2. pl \in [PlainFields -> Nat] BY <2>1, <1>1, <1>4, <1>5
  <2>3. hold' = [hold EXCEPT ![h].plain["h2c"] = 1, ![h].plain["AllowHTTP"] = 1, ![h].plain["dial"] = n] BY <1>7, <2>1 DEF EnableH2C
  <2>4. hold' = [hold EXCEPT ![h] = [hold[h] EXCEPT !.plain = pl]] BY <2>1, <2>3, <1>1 DEF Holder
  <2> QED BY <2>2, <2>4, <1>6
<1>8. CASE DisableH2C(h)
  <2>1. PICK pl : pl = [hold[h].plain EXCEPT !["h2c"] = 0, !["AllowHTTP"] = 0] OBVIOUS
  <2>2. pl \in [PlainFields -> Nat] BY <2>1, <1>4, <1>5
  <2>3. hold' = [hold EXCEPT ![h].plain["h2c"] = 0, ![h].plain["AllowHTTP"] = 0] BY <1>8 DEF DisableH2C
  <2>4. hold' = [hold EXCEPT ![h] = [hold[h] EXCEPT !.plain = pl]] BY <2>1, <2>3, <1>1 DEF Holder
  <2> QED BY <2>2, <2>4, <1>6
<1>9. CASE EnableHTTP3(h)
  <2>1. PICK v \in {hold[h].plain["version"], Arg} : hold' = [hold EXCEPT ![h].plain["t3"] = 1, ![h].plain["version"] = v] BY <1>9 DEF EnableHTTP3
  <2>2. v \in Nat BY <1>1, <1>4, <1>5
  <2>3. PICK pl : pl = [hold[h].plain EXCEPT !["t3"] = 1, !["version"] = v] OBVIOUS
  <2>4. pl \in [PlainFields -> Nat] BY <2>2, <2>3, <1>4, <1>5
  <2>5. hold' = [hold EXCEPT ![h] = [hold[h] EXCEPT !.plain = pl]] BY <2>1, <2>3, <1>1 DEF Holder
  <2> QED BY <2>4, <2>5, <1>6
<1>10. CASE DisableHTTP3(h)
  <2>1. PICK pl : pl = [hold[h].plain EXCEPT !["t3"] = 0] OBVIOUS
  <2>2. pl \in [PlainFields -> Nat] BY <2>1, <1>4, <1>5
  <2>3. hold' = [hold EXCEPT ![h] = [hold[h] EXCEPT !.plain = pl]] BY <1>10, <2>1 DEF DisableHTTP3
  <2> QED BY <2>2, <2>3, <1>6
<1> QED BY <1>7, <1>8, <1>9, <1>10

\* Every setter of a client, and every setter of a request.
LEMMA SetClientFine ==
    ASSUME SetInv, NEW c \in Clients, SetClient(c)
    PROVE  SetInv' /\ OnlyChanges(c) /\ hold[c].live
<1>h. c \in Holders BY DEF Holders
<1>1. CASE SetResultHandling(c) BY <1>1, <1>h, AssignFine, Calling DEF SetResultHandling, PlainFields
<1>2. CASE SetBaseURL(c) BY <1>2, <1>h, AssignFine, Calling DEF SetBaseURL, PlainFields
<1>3. CASE SetRedirectPolicy(c) BY <1>3, <1>h, AssignFine, Calling DEF SetRedirectPolicy, PlainFields
<1>4. CASE SetFlags(c) BY <1>4, <1>h, AssignFine, Calling DEF SetFlags, PlainFields
<1>5. CASE SetLogger(c) BY <1>5, <1>h, AssignFine, Calling DEF SetLogger, PlainFields
<1>6. CASE SetAutoDecode(c) BY <1>6, <1>h, AssignFine, Calling DEF SetAutoDecode, PlainFields
<1>7. CASE OnError(c) BY <1>7, <1>h, AssignFine, Calling DEF OnError, PlainFields
<1>8. CASE SetProxy(c) BY <1>8, <1>h, AssignFine, Calling DEF SetProxy, PlainFields
<1>9. CASE SetMarshal(c) BY <1>9, <1>h, AssignFine, Calling DEF SetMarshal, PlainFields
<1>10. CASE SetDial(c) BY <1>10, <1>h, AssignFine, Calling DEF SetDial, PlainFields
<1>11. CASE ForceHttpVersion(c) BY <1>11, <1>h, AssignFine, Calling DEF ForceHttpVersion, PlainFields
<1>12. CASE SetHTTP2(c) BY <1>12, <1>h, AssignFine, Calling DEF SetHTTP2, PlainFields
<1>13. CASE SetTimeouts(c) BY <1>13, <1>h, AssignFine, Calling DEF SetTimeouts, PlainFields
<1>14. CASE SetCommonFormData(c) BY <1>14, <1>h, SetOrAddFine, Calling DEF SetCommonFormData, Pointers
<1>15. CASE SetCommonQueryParams(c) BY <1>15, <1>h, SetOrAddFine, Calling DEF SetCommonQueryParams, Pointers
<1>16. CASE SetCommonPathParams(c) BY <1>16, <1>h, SetOrAddFine, Calling DEF SetCommonPathParams, Pointers
<1>17. CASE SetCommonHeaders(c) BY <1>17, <1>h, SetOrAddFine, Calling DEF SetCommonHeaders, Pointers
<1>18. CASE SetCommonRetry(c) BY <1>18, <1>h, SetOrAddFine, Calling DEF SetCommonRetry, Pointers
<1>19. CASE SetRootCerts(c) BY <1>19, <1>h, AddFine, Calling DEF SetRootCerts, Pointers
<1>20. CASE StoreCookie(c) BY <1>20, <1>h, AddFine, Calling DEF StoreCookie, Pointers
<1>21. CASE SetInsecureSkipVerify(c) BY <1>21, <1>h, SetFine, Calling DEF SetInsecureSkipVerify, Pointers
<1>22. CASE SetCerts(c) BY <1>22, <1>h, AppendToFine, Calling DEF SetCerts, Slices
<1>23. CASE SetCommonCookies(c) BY <1>23, <1>h, AppendToFine, Calling DEF SetCommonCookies, Slices
<1>24. CASE EnableDumpEachRequest(c) BY <1>24, <1>h, AppendToFine, Calling DEF EnableDumpEachRequest, Slices
<1>25. CASE OnAfterResponse(c) BY <1>25, <1>h, AppendToFine, Calling DEF OnAfterResponse, Slices
<1>26. CASE SetCommonHeaderOrder(c) BY <1>26, <1>h, WrapFine, Calling DEF SetCommonHeaderOrder, Wrappers
<1>27. CASE WrapRoundTrip(c) BY <1>27, <1>h, WrapFine, Calling DEF WrapRoundTrip, Wrappers
<1>28. CASE SetTLSClientConfig(c)
  <2>1. hold[c].live BY <1>28, <1>h, Calling DEF SetTLSClientConfig
  <2> QED BY <1>28, <1>h, <2>1, TLSConfigFine
<1>29. CASE EnableDumpAll(c)
  <2>1. hold[c].live BY <1>29, <1>h, Calling DEF EnableDumpAll
  <2> QED BY <1>29, <1>h, <2>1, EnableDumpAllFine
<1>30. CASE DisableDumpAll(c)
  <2>1. hold[c].live BY <1>30, <1>h, Calling DEF DisableDumpAll
  <2> QED BY <1>30, <1>h, <2>1, DisableDumpAllFine
<1>31. CASE SetCommonDumpOptions(c)
  <2>1. hold[c].live BY <1>31, <1>h, Calling DEF SetCommonDumpOptions
  <2> QED BY <1>31, <1>h, <2>1, SetCommonDumpOptionsFine
<1>32. CASE SetCookieJar(c)
  <2>1. hold[c].live BY <1>32, <1>h, Calling DEF SetCookieJar
  <2> QED BY <1>32, <1>h, <2>1, SetCookieJarFine
<1>33. CASE SetCookieJarFactory(c)
  <2>1. hold[c].live BY <1>33, <1>h, Calling DEF SetCookieJarFactory
  <2> QED BY <1>33, <1>h, <2>1, SetCookieJarFine
<1>34. CASE ClearCookies(c)
  <2>1. hold[c].live BY <1>34, <1>h, Calling DEF ClearCookies
  <2> QED BY <1>34, <1>h, <2>1, ClearCookiesFine
<1>35. CASE SetTLSFingerprint(c)
  <2>1. hold[c].live BY <1>35, <1>h, Calling DEF SetTLSFingerprint
  <2> QED BY <1>35, <1>h, <2>1, HandshakeFine
<1>36. CASE SetTLSHandshake(c)
  <2>1. hold[c].live BY <1>36, <1>h, Calling DEF SetTLSHandshake
  <2> QED BY <1>36, <1>h, <2>1, HandshakeFine
<1>37. CASE EnableH2C(c)
  <2>1. hold[c].live BY <1>37, <1>h, Calling DEF EnableH2C
  <2> QED BY <1>37, <1>h, <2>1, VersionsFine
<1>38. CASE DisableH2C(c)
  <2>1. hold[c].live BY <1>38, <1>h, Calling DEF DisableH2C
  <2> QED BY <1>38, <1>h, <2>1, VersionsFine
<1>39. CASE EnableHTTP3(c)
  <2>1. hold[c].live BY <1>39, <1>h, Calling DEF EnableHTTP3
  <2> QED BY <1>39, <1>h, <2>1, VersionsFine
<1>40. CASE DisableHTTP3(c)
  <2>1. hold[c].live BY <1>40, <1>h, Calling DEF DisableHTTP3
  <2> QED BY <1>40, <1>h, <2>1, VersionsFine
<1>41. CASE SetTLSFingerprintRaw(c) BY <1>41, <1>35 DEF SetTLSFingerprintRaw
<1> QED
  BY <1>1, <1>2, <1>3, <1>4, <1>5, <1>6, <1>7, <1>8, <1>9, <1>10, <1>11, <1>12, <1>13, <1>14,
     <1>15, <1>16, <1>17, <1>18, <1>19, <1>20, <1>21, <1>22, <1>23, <1>24, <1>25, <1>26,
     <1>27, <1>28, <1>29, <1>30, <1>31, <1>32, <1>33, <1>34, <1>35, <1>36, <1>37, <1>38,
     <1>39, <1>40, <1>41
  DEF SetClient

LEMMA SetRequestFine ==
    ASSUME SetInv, NEW q \in Reqs, SetRequest(q)
    PROVE  SetInv' /\ OnlyChanges(q) /\ hold[q].live
<1>h. q \in Holders BY DEF Holders
<1>1. CASE SetFormData(q) BY <1>1, <1>h, SetOrAddFine, Calling DEF SetFormData, Pointers
<1>2. CASE SetCookies(q) BY <1>2, <1>h, AppendToFine, Calling DEF SetCookies, Slices
<1>3. CASE SetHeaders(q) BY <1>3, <1>h, SetOrAddFine, Calling DEF SetHeaders, Pointers
<1>4. CASE SetQueryParams(q) BY <1>4, <1>h, SetOrAddFine, Calling DEF SetQueryParams, Pointers
<1>5. CASE SetPathParams(q) BY <1>5, <1>h, SetOrAddFine, Calling DEF SetPathParams, Pointers
<1>6. CASE SetContext(q) BY <1>6, <1>h, AssignFine, Calling DEF SetContext, PlainFields
<1>7. CASE EnableDump(q)
  <2>1. hold[q].live BY <1>7, <1>h, Calling DEF EnableDump
  <2> QED BY <1>7, <1>h, <2>1, EnableDumpFine
<1>8. CASE SetDumpOptions(q) BY <1>8, <1>h, SetFine, Calling DEF SetDumpOptions, Pointers
<1>9. CASE SetRetry(q) BY <1>9, <1>h, SetOrAddFine, Calling DEF SetRetry, Pointers
<1> QED BY <1>1, <1>2, <1>3, <1>4, <1>5, <1>6, <1>7, <1>8, <1>9 DEF SetRequest

-----------------------------------------------------------------------------
(* Clone and R.                                                            *)

LEMMA FunctionSeq ==
    ASSUME NEW V, NEW m \in Nat, NEW f \in [1..m -> V]
    PROVE  f \in Seq(V) /\ Len(f) = m
OBVIOUS

\* Which field each of the objects that Clone makes is for.
LEMMA DeepFacts ==
    /\ DOMAIN Deep = 1..8 /\ Len(Deep) = 8 /\ \A i \in 1..8 : Deep[i] \in Pointers \ {"RootCAs", "Jar"}
    /\ ToSet(Deep) = Pointers \ {"RootCAs", "Jar"}
    /\ \A p \in ToSet(Deep) : IndexOf(p, Deep) \in 1..8 /\ Deep[IndexOf(p, Deep)] = p
<1>1. DOMAIN Deep = 1..8 /\ Len(Deep) = 8 BY DEF Deep
<1>2. ToSet(Deep) = {Deep[i] : i \in 1..8} BY <1>1 DEF ToSet
<1>3. \A i \in 1..8 : Deep[i] \in Pointers \ {"RootCAs", "Jar"} BY DEF Deep, Pointers
<1>4. \A p \in Pointers \ {"RootCAs", "Jar"} : \E i \in 1..8 : Deep[i] = p
  <2>1. /\ Deep[1] = "Headers" /\ Deep[2] = "PathParams" /\ Deep[3] = "QueryParams" /\ Deep[4] = "FormData"
        /\ Deep[5] = "retryOption" /\ Deep[6] = "dumpOptions" /\ Deep[7] = "Dump" /\ Deep[8] = "TLSClientConfig"
    BY DEF Deep
  <2>2. 1 \in 1..8 /\ 2 \in 1..8 /\ 3 \in 1..8 /\ 4 \in 1..8 /\ 5 \in 1..8 /\ 6 \in 1..8 /\ 7 \in 1..8 /\ 8 \in 1..8 OBVIOUS
  <2> QED BY <2>1, <2>2, Zenon DEF Pointers
<1>5. ToSet(Deep) = Pointers \ {"RootCAs", "Jar"} BY <1>2, <1>3, <1>4
<1>6. \A p \in ToSet(Deep) : IndexOf(p, Deep) \in 1..8 /\ Deep[IndexOf(p, Deep)] = p
  <2> SUFFICES ASSUME NEW p \in ToSet(Deep) PROVE IndexOf(p, Deep) \in DOMAIN Deep /\ Deep[IndexOf(p, Deep)] = p BY <1>1
  <2>1. \E i \in DOMAIN Deep : Deep[i] = p BY <1>1, <1>2
  <2> QED BY <2>1, Zenon DEF IndexOf
<1> QED BY <1>1, <1>3, <1>5, <1>6

LEMMA DeepSlicesFacts ==
    /\ DOMAIN DeepSlices = 1..3 /\ Len(DeepSlices) = 3
    /\ \A i \in 1..3 : DeepSlices[i] \in Slices
    /\ ToSet(DeepSlices) = {"Cookies", "udBeforeRequest", "afterResponse"}
    /\ \A s \in ToSet(DeepSlices) : s \in Slices /\ IndexOf(s, DeepSlices) \in 1..3 /\ DeepSlices[IndexOf(s, DeepSlices)] = s
<1>1. DOMAIN DeepSlices = 1..3 /\ Len(DeepSlices) = 3 BY DEF DeepSlices
<1>2. ToSet(DeepSlices) = {DeepSlices[i] : i \in 1..3} BY <1>1 DEF ToSet
<1>3. DeepSlices[1] = "Cookies" /\ DeepSlices[2] = "udBeforeRequest" /\ DeepSlices[3] = "afterResponse" BY DEF DeepSlices
<1>4. \A i \in 1..3 : DeepSlices[i] \in Slices BY <1>3 DEF Slices
<1>5. ToSet(DeepSlices) = {"Cookies", "udBeforeRequest", "afterResponse"} BY <1>2, <1>3
<1>6. \A s \in ToSet(DeepSlices) : s \in Slices /\ IndexOf(s, DeepSlices) \in DOMAIN DeepSlices /\ DeepSlices[IndexOf(s, DeepSlices)] = s
  <2> SUFFICES ASSUME NEW s \in ToSet(DeepSlices) PROVE s \in Slices /\ IndexOf(s, DeepSlices) \in DOMAIN DeepSlices /\ DeepSlices[IndexOf(s, DeepSlices)] = s OBVIOUS
  <2>1. \E i \in DOMAIN DeepSlices : DeepSlices[i] = s BY <1>1, <1>2
  <2>2. s \in Slices BY <2>1, <1>1, <1>4
  <2> QED BY <2>1, <2>2, Zenon DEF IndexOf
<1> QED BY <1>1, <1>4, <1>5, <1>6

LEMMA ElementsType ==
    ASSUME SetInv, NEW h \in Holders, NEW s \in Slices
    PROVE  Elements(hold[h].slice[s]) \in Seq(Nat) /\ Len(Elements(hold[h].slice[s])) = hold[h].slice[s].len
<1>1. heap \in Seq(Seq(Nat)) /\ hold[h] \in Holder BY DEF SetInv, SetTypeOK
<1>2. PICK a, n : a = hold[h].slice[s].a /\ n = hold[h].slice[s].len OBVIOUS
<1>3. a \in Nat /\ n \in Nat BY <1>1, <1>2 DEF Holder
<1>4. s \in Fields /\ Addr(hold[h], s) = a BY <1>2, FieldFacts
<1>5. a <= Len(heap) BY <1>4 DEF SetInv, Allocated
<1>6. n <= IF a = 0 THEN 0 ELSE Len(heap[a]) BY <1>2 DEF SetInv, SlicesFit, Capacity
<1>7. CASE a = 0
  <2>1. Elements(hold[h].slice[s]) = <<>> BY <1>2, <1>7 DEF Elements
  <2>2. <<>> \in Seq(Nat) /\ Len(<<>>) = 0 OBVIOUS
  <2>3. n = 0 BY <1>3, <1>6, <1>7
  <2> QED BY <1>2, <2>1, <2>2, <2>3
<1>8. CASE a # 0
  <2>1. PICK u : u = heap[a] OBVIOUS
  <2>2. u \in Seq(Nat) BY <1>1, <1>3, <1>5, <1>8, <2>1
  <2>3. n <= Len(u) BY <1>6, <1>8, <2>1
  <2>4. SubSeq(u, 1, n) \in Seq(Nat) /\ Len(SubSeq(u, 1, n)) = n BY <2>2, <2>3, <1>3
  <2> QED BY <1>2, <1>8, <2>1, <2>4 DEF Elements
<1> QED BY <1>7, <1>8

LEMMA ObjectType ==
    ASSUME SetInv, NEW h \in Holders, NEW p \in Pointers
    PROVE  Object(hold[h].ptr[p]) \in Seq(Nat)
<1>1. heap \in Seq(Seq(Nat)) /\ hold[h] \in Holder BY DEF SetInv, SetTypeOK
<1>2. PICK a : a = hold[h].ptr[p] OBVIOUS
<1>3. p \in Fields /\ Addr(hold[h], p) = a BY <1>2, FieldFacts
<1>4. a \in Nat /\ a <= Len(heap) BY <1>1, <1>3, AddrType DEF SetInv, Allocated
<1>5. CASE a = 0
  <2>1. <<>> \in Seq(Nat) OBVIOUS
  <2> QED BY <1>2, <1>5, <2>1, Zenon DEF Object
<1>6. CASE a # 0
  <2>1. heap[a] \in Seq(Nat) BY <1>1, <1>4, <1>6
  <2> QED BY <1>2, <1>6, <2>1 DEF Object
<1> QED BY <1>5, <1>6

\* What Clone adds to the heap, by field.
ForField == Deep \o DeepSlices \o <<"Jar">>

LEMMA ForFieldFacts ==
    /\ \A p \in ToSet(Deep) : ForField[IndexOf(p, Deep)] = p
    /\ \A s \in ToSet(DeepSlices) : ForField[8 + IndexOf(s, DeepSlices)] = s
    /\ ForField[12] = "Jar"
<1>1. \A i \in 1..8 : ForField[i] = Deep[i] BY DEF ForField, Deep, DeepSlices
<1>2. \A i \in 1..3 : ForField[8 + i] = DeepSlices[i] BY DEF ForField, Deep, DeepSlices
<1>3. ForField[12] = "Jar" BY DEF ForField, Deep, DeepSlices
<1> QED BY <1>1, <1>2, <1>3, DeepFacts, DeepSlicesFacts

\* A clone has copies, which are new, and what its original shares.
LEMMA CloneFine ==
    ASSUME SetInv, NEW o \in Clients, NEW c \in Clients, Clone(o, c)
    PROVE  SetInv' /\ OnlyChanges(c) /\ hold[o].live /\ Inherited(c)' = Inherited(o)
<1>0. o \in Holders /\ c \in Holders BY DEF Holders
<1>1. /\ heap \in Seq(Seq(Nat)) /\ hold \in [Holders -> Holder] /\ calls' \in Nat /\ hold[o] \in Holder /\ Len(heap) \in Nat
      /\ hold[o].live /\ o # c
  BY <1>0 DEF SetInv, SetTypeOK, Clone
<1>2. PICK h, n, A, B : h = hold[o] /\ n = Len(heap) /\ A = Copies(h) /\ B = ArrayCopies(h) OBVIOUS
<1>3. h \in Holder /\ n \in Nat BY <1>1, <1>2
<1>4. PICK V : V = Seq(Nat) OBVIOUS
<1>5. /\ A \in Seq(V) /\ Len(A) = 8 /\ \A p \in ToSet(Deep) : A[IndexOf(p, Deep)] = Object(h.ptr[p])
  <2>1. A = [i \in 1..8 |-> Object(h.ptr[Deep[i]])] BY <1>2, DeepFacts DEF Copies
  <2>2. \A i \in 1..8 : Object(h.ptr[Deep[i]]) \in V BY <1>0, <1>2, <1>4, ObjectType, DeepFacts
  <2>3. A \in [1..8 -> V] BY <2>1, <2>2
  <2>4. A \in Seq(V) /\ Len(A) = 8 BY <2>3, FunctionSeq
  <2> QED BY <2>1, <2>4, DeepFacts
<1>6. /\ B \in Seq(V) /\ Len(B) = 3 /\ \A s \in ToSet(DeepSlices) : B[IndexOf(s, DeepSlices)] = Elements(h.slice[s])
  <2>1. B = [i \in 1..3 |-> Elements(h.slice[DeepSlices[i]])] BY <1>2, DeepSlicesFacts DEF ArrayCopies
  <2>2. \A i \in 1..3 : Elements(h.slice[DeepSlices[i]]) \in V BY <1>0, <1>2, <1>4, ElementsType, DeepSlicesFacts
  <2>3. B \in [1..3 -> V] BY <2>1, <2>2
  <2>4. B \in Seq(V) /\ Len(B) = 3 BY <2>3, FunctionSeq
  <2> QED BY <2>1, <2>4, DeepSlicesFacts
<1>7. /\ heap' \in Seq(V) /\ Len(heap') = n + 12
      /\ \A i \in 1..n : heap'[i] = heap[i]
      /\ \A p \in ToSet(Deep) : heap'[n + IndexOf(p, Deep)] = Object(h.ptr[p])
      /\ \A s \in ToSet(DeepSlices) : heap'[n + 8 + IndexOf(s, DeepSlices)] = Elements(h.slice[s])
  <2>1. heap' = heap \o A \o B \o <<<<>>>> BY <1>2 DEF Clone
  <2>2. <<>> \in Seq(Nat) OBVIOUS
  <2>3. PICK e, t : e = <<>> /\ t = heap' OBVIOUS
  <2>4. e \in V BY <1>4, <2>2, <2>3, Zenon
  <2>5. heap \in Seq(V) BY <1>1, <1>4
  <2>6. PICK z : z = <<e>> OBVIOUS
  <2>6a. t = heap \o A \o B \o z BY <2>1, <2>3, <2>6
  <2>7. /\ t \in Seq(V) /\ Len(t) = Len(heap) + Len(A) + Len(B) + 1
        /\ \A i \in 1..Len(heap) : t[i] = heap[i]
        /\ \A i \in 1..Len(A) : t[Len(heap) + i] = A[i]
        /\ \A i \in 1..Len(B) : t[Len(heap) + Len(A) + i] = B[i]
    <3>1. PICK hp, u, w : hp = heap /\ u = hp \o A /\ w = u \o B OBVIOUS
    <3>2. hp \in Seq(V) /\ t = w \o z BY <3>1, <2>5, <2>6a
    <3>3. /\ u \in Seq(V) /\ Len(u) = Len(hp) + Len(A)
          /\ \A i \in 1..Len(hp) : u[i] = hp[i]
          /\ \A i \in 1..Len(A) : u[Len(hp) + i] = A[i]
      <4>1. hp \in Seq(V) /\ A \in Seq(V) BY <3>2, <1>5
      <4>2. /\ hp \o A \in Seq(V) /\ Len(hp \o A) = Len(hp) + Len(A)
            /\ \A i \in 1..Len(hp) : (hp \o A)[i] = hp[i]
            /\ \A i \in 1..Len(A) : (hp \o A)[Len(hp) + i] = A[i]
        BY <4>1
      <4> QED BY <3>1, <4>2, Zenon
    <3>4. /\ w \in Seq(V) /\ Len(w) = Len(u) + Len(B)
          /\ \A i \in 1..Len(u) : w[i] = u[i]
          /\ \A i \in 1..Len(B) : w[Len(u) + i] = B[i]
      <4>1. u \in Seq(V) /\ B \in Seq(V) BY <3>3, <1>6
      <4>2. /\ u \o B \in Seq(V) /\ Len(u \o B) = Len(u) + Len(B)
            /\ \A i \in 1..Len(u) : (u \o B)[i] = u[i]
            /\ \A i \in 1..Len(B) : (u \o B)[Len(u) + i] = B[i]
        BY <4>1
      <4> QED BY <3>1, <4>2, Zenon
    <3>5. z \in Seq(V) /\ Len(z) = 1 BY <2>4, <2>6
    <3>6. t \in Seq(V) /\ Len(t) = Len(w) + 1 /\ \A i \in 1..Len(w) : t[i] = w[i]
      <4>1. w \o z \in Seq(V) /\ Len(w \o z) = Len(w) + Len(z) /\ \A i \in 1..Len(w) : (w \o z)[i] = w[i]
        <5>1. w \in Seq(V) /\ z \in Seq(V) BY <3>4, <3>5
        <5> QED BY <5>1
      <4> QED BY <3>2, <3>5, <4>1
    <3>7. Len(hp) \in Nat /\ Len(A) \in Nat /\ Len(B) \in Nat BY <3>2, <1>5, <1>6
    <3>8. \A i \in 1..Len(hp) : t[i] = hp[i] BY <3>3, <3>4, <3>6, <3>7
    <3>9. \A i \in 1..Len(A) : t[Len(hp) + i] = A[i] BY <3>3, <3>4, <3>6, <3>7
    <3>10. \A i \in 1..Len(B) : t[Len(hp) + Len(A) + i] = B[i] BY <3>3, <3>4, <3>6, <3>7
    <3> QED BY <3>1, <3>3, <3>4, <3>6, <3>8, <3>9, <3>10
  <2>8. /\ t \in Seq(V) /\ Len(t) = n + 12
        /\ \A i \in 1..n : t[i] = heap[i]
        /\ \A i \in 1..8 : t[n + i] = A[i]
        /\ \A i \in 1..3 : t[n + 8 + i] = B[i]
    BY <2>7, <1>2, <1>3, <1>5, <1>6
  <2> QED BY <2>3, <2>8, <1>5, <1>6, DeepFacts, DeepSlicesFacts
<1>8. PICK pt, sl, wr, pl :
         /\ pt = [p \in Pointers |-> IF p \in ToSet(Deep) THEN CopyOf(h, p) ELSE IF p = "Jar" /\ h.factory THEN NewJar ELSE h.ptr[p]]
         /\ sl = [s \in Slices |-> IF s \in ToSet(DeepSlices) THEN ArrayOf(h, s) ELSE h.slice[s]]
         /\ wr = [s \in DOMAIN h.wrapped |-> Elements(h.slice[s])]
         /\ pl = [h.plain EXCEPT !["AllowHTTP"] = 0]
  OBVIOUS
<1>9. PICK x : x = [h EXCEPT !.ptr = pt, !.slice = sl, !.wrapped = wr, !.plain = pl] OBVIOUS
<1>10. hold' = [hold EXCEPT ![c] = x]
  <2>1. [h EXCEPT !.ptr = pt, !.slice = sl, !.wrapped = wr, !.plain["AllowHTTP"] = 0] = x BY <1>3, <1>8, <1>9 DEF Holder
  <2> QED BY <2>1, <1>2, <1>8 DEF Clone
<1>11. \A p \in Pointers : pt[p] =
          IF p \in ToSet(Deep) THEN (IF h.ptr[p] = 0 THEN 0 ELSE n + IndexOf(p, Deep)) ELSE IF p = "Jar" /\ h.factory THEN n + 12 ELSE h.ptr[p]
  BY <1>2, <1>3, <1>8, DeepFacts, DeepSlicesFacts DEF CopyOf, NewJar
<1>12. /\ \A s \in ToSet(DeepSlices) : h.slice[s].len = 0 => sl[s] = NoSlice
       /\ \A s \in ToSet(DeepSlices) : h.slice[s].len # 0 => sl[s] = [a |-> n + 8 + IndexOf(s, DeepSlices), len |-> h.slice[s].len]
       /\ \A s \in Slices : s \notin ToSet(DeepSlices) => sl[s] = h.slice[s]
  <2>1. \A s \in ToSet(DeepSlices) : sl[s] = ArrayOf(h, s) BY <1>8, DeepSlicesFacts
  <2>2. \A s \in Slices : s \notin ToSet(DeepSlices) => sl[s] = h.slice[s] BY <1>8
  <2> QED BY <2>1, <2>2, <1>2, DeepFacts DEF ArrayOf
<1>13. pt \in [Pointers -> Nat]
  <2>1. \A p \in Pointers : h.ptr[p] \in Nat BY <1>3 DEF Holder
  <2>2. \A p \in Pointers : pt[p] \in Nat
    <3> SUFFICES ASSUME NEW p \in Pointers PROVE pt[p] \in Nat OBVIOUS
    <3>1. PICK i : i = IndexOf(p, Deep) OBVIOUS
    <3>2. p \in ToSet(Deep) => i \in 1..8 BY <3>1, DeepFacts
    <3> QED BY <1>3, <1>11, <2>1, <3>1, <3>2
  <2> QED BY <1>8, <2>2
<1>14. sl \in [Slices -> [a : Nat, len : Nat]]
  <2>1. \A s \in Slices : h.slice[s] \in [a : Nat, len : Nat] BY <1>3 DEF Holder
  <2>2. \A s \in Slices : sl[s] \in [a : Nat, len : Nat]
    <3> SUFFICES ASSUME NEW s \in Slices PROVE sl[s] \in [a : Nat, len : Nat] OBVIOUS
    <3>1. PICK i : i = IndexOf(s, DeepSlices) OBVIOUS
    <3>2. s \in ToSet(DeepSlices) => i \in 1..3 BY <3>1, DeepSlicesFacts
    <3>3. s \in ToSet(DeepSlices) => n + 8 + i \in Nat BY <3>2, <1>3
    <3>4. CASE s \in ToSet(DeepSlices) /\ h.slice[s].len = 0 BY <1>12, <3>4 DEF NoSlice
    <3>5. CASE s \in ToSet(DeepSlices) /\ h.slice[s].len # 0
      <4>1. sl[s] = [a |-> n + 8 + i, len |-> h.slice[s].len] BY <1>12, <3>1, <3>5
      <4> QED BY <4>1, <2>1, <3>3, <3>5
    <3>6. CASE s \notin ToSet(DeepSlices) BY <1>12, <2>1, <3>6
    <3> QED BY <3>4, <3>5, <3>6
  <2> QED BY <1>8, <2>2
<1>15. wr \in [Wrappers -> Seq(Nat)]
  <2>1. DOMAIN h.wrapped = Wrappers BY <1>3 DEF Holder
  <2>2. \A s \in Wrappers : Elements(h.slice[s]) \in Seq(Nat) BY <1>0, <1>2, ElementsType, FieldFacts
  <2> QED BY <1>8, <2>1, <2>2
<1>16. pl \in [PlainFields -> Nat]
  <2>1. h.plain \in [PlainFields -> Nat] BY <1>3 DEF Holder
  <2> QED BY <1>8, <2>1
<1>17. /\ x \in Holder /\ x.live /\ x.ptr = pt /\ x.slice = sl /\ x.wrapped = wr /\ x.plain = pl
       /\ x.factory = h.factory /\ x.shake = h.shake
  <2>1. h.live BY <1>1, <1>2
  <2> QED BY <2>1, <1>3, <1>9, <1>13, <1>14, <1>15, <1>16 DEF Holder
<1>18. Touches(c) BY <1>2, <1>3, <1>4, <1>7 DEF Touches
<1>19. \A f \in Fields : Own(x, f) <=> Own(h, f) BY <1>17, Owned
<1>20. ASSUME NEW p \in Pointers
       PROVE  \/ Addr(x, p) = 0
              \/ \E i \in 1..12 : Addr(x, p) = n + i /\ ForField[i] = p
              \/ Addr(x, p) = Addr(h, p) /\ ~Own(x, p)
  <2>1. Addr(x, p) = pt[p] /\ Addr(h, p) = h.ptr[p] BY <1>17, FieldFacts
  <2>2. CASE p \in ToSet(Deep)
    <3>1. PICK i : i = IndexOf(p, Deep) OBVIOUS
    <3>2. i \in 1..8 /\ ForField[i] = p BY <2>2, <3>1, DeepFacts, ForFieldFacts
    <3>3. pt[p] = 0 \/ pt[p] = n + i BY <1>11, <2>2, <3>1
    <3>4. i \in 1..12 BY <3>2
    <3> QED BY <2>1, <3>2, <3>3, <3>4
  <2>3. CASE p = "Jar"
    <3>1. p \notin ToSet(Deep) BY <2>3, DeepFacts
    <3>2. CASE h.factory
      <4>1. pt[p] = n + 12 /\ ForField[12] = p /\ 12 \in 1..12 BY <1>11, <2>3, <3>1, <3>2, ForFieldFacts
      <4> QED BY <2>1, <4>1
    <3>3. CASE ~h.factory
      <4>1. pt[p] = h.ptr[p] BY <1>11, <3>1, <3>3
      <4>2. ~Own(x, p) BY <1>17, <2>3, <3>3, Owned
      <4> QED BY <2>1, <4>1, <4>2
    <3> QED BY <3>2, <3>3
  <2>4. CASE p = "RootCAs"
    <3>1. p \notin ToSet(Deep) /\ p # "Jar" BY <2>4, DeepFacts
    <3>2. pt[p] = h.ptr[p] BY <1>11, <3>1
    <3>3. ~Own(x, p) BY <2>4, Owned
    <3> QED BY <2>1, <3>2, <3>3
  <2> QED BY <2>2, <2>3, <2>4, DeepFacts
<1>21. ASSUME NEW s \in Slices
       PROVE  \/ Addr(x, s) = 0
              \/ \E i \in 1..12 : Addr(x, s) = n + i /\ ForField[i] = s
              \/ Addr(x, s) = Addr(h, s) /\ ~Own(x, s)
  <2>1. Addr(x, s) = sl[s].a /\ Addr(h, s) = h.slice[s].a BY <1>17, FieldFacts
  <2>2. CASE s \in ToSet(DeepSlices)
    <3>1. PICK i : i = IndexOf(s, DeepSlices) OBVIOUS
    <3>2. i \in 1..3 /\ ForField[8 + i] = s BY <2>2, <3>1, DeepSlicesFacts, ForFieldFacts
    <3>3. sl[s].a = 0 \/ sl[s].a = n + 8 + i
      <4>1. CASE h.slice[s].len = 0
        <5>1. sl[s] = NoSlice BY <1>12, <2>2, <4>1
        <5> QED BY <5>1 DEF NoSlice
      <4>2. CASE h.slice[s].len # 0
        <5>1. sl[s] = [a |-> n + 8 + i, len |-> h.slice[s].len] BY <1>12, <2>2, <3>1, <4>2
        <5> QED BY <5>1
      <4> QED BY <4>1, <4>2
    <3>4. 8 + i \in 1..12 /\ n + 8 + i = n + (8 + i) BY <1>3, <3>2
    <3> QED BY <2>1, <3>2, <3>3, <3>4
  <2>3. CASE s \notin ToSet(DeepSlices)
    <3>1. sl[s] = h.slice[s] BY <1>12, <2>3
    <3>2. ~Own(x, s)
      <4>1. s \in {"Certificates"} \union Wrappers BY <2>3, DeepSlicesFacts DEF Slices, Wrappers
      <4>2. s # "Jar" BY DEF Slices
      <4> QED BY <4>1, <4>2 DEF Own
    <3> QED BY <2>1, <3>1, <3>2
  <2> QED BY <2>2, <2>3
<1>22. ASSUME NEW f \in Fields
       PROVE  \/ Addr(x, f) = 0
              \/ \E i \in 1..12 : Addr(x, f) = n + i /\ ForField[i] = f
              \/ Addr(x, f) = Addr(h, f) /\ ~Own(x, f)
  BY <1>20, <1>21 DEF Fields
<1>23. Allocates(o, c, x)
  <2>1. ASSUME NEW f \in Fields PROVE Comes(hold[o], x, f, Len(heap), Len(heap'), o # c)
    <3>1. CASE Addr(x, f) = 0 BY <3>1 DEF Comes
    <3>2. CASE \E i \in 1..12 : Addr(x, f) = n + i
      <4>1. PICK i \in 1..12 : Addr(x, f) = n + i BY <3>2
      <4>2. Made(Addr(x, f), Len(heap), Len(heap')) BY <4>1, <1>2, <1>3, <1>7 DEF Made
      <4> QED BY <4>2 DEF Comes
    <3>3. CASE Addr(x, f) = Addr(h, f) /\ ~Own(x, f)
      <4>1. Same(f, f) BY DEF Same
      <4> QED BY <3>3, <4>1, <1>2, <1>19 DEF Comes
    <3> QED BY <1>22, <3>1, <3>2, <3>3
  <2>2. ASSUME NEW f \in Fields, Made(Addr(x, f), Len(heap), Len(heap')) PROVE \E i \in 1..12 : Addr(x, f) = n + i /\ ForField[i] = f
    <3>1. Addr(h, f) <= Len(heap) /\ Addr(h, f) \in Nat BY <1>0, <1>2, <1>3, AddrType DEF SetInv, Allocated
    <3>2. Addr(x, f) # 0 /\ Addr(x, f) # Addr(h, f) BY <2>2, <3>1, <1>2, <1>3 DEF Made
    <3> QED BY <1>22, <3>2
  <2>3. ASSUME NEW f \in Fields, NEW g \in Fields, Made(Addr(x, f), Len(heap), Len(heap')), Addr(x, f) = Addr(x, g)
        PROVE  Same(f, g) /\ (Own(x, f) <=> Own(x, g))
    <3>1. PICK i \in 1..12 : Addr(x, f) = n + i /\ ForField[i] = f BY <2>2, <2>3
    <3>2. PICK j \in 1..12 : Addr(x, g) = n + j /\ ForField[j] = g BY <2>2, <2>3
    <3>3. i = j BY <3>1, <3>2, <2>3, <1>3
    <3>4. f = g BY <3>1, <3>2, <3>3
    <3> QED BY <3>4 DEF Same
  <2>4. ASSUME NEW s \in Slices PROVE x.slice[s].len <= IF x.slice[s].a = 0 THEN 0 ELSE Len(heap'[x.slice[s].a])
    <3>1. CASE sl[s] = NoSlice BY <3>1, <1>17 DEF NoSlice
    <3>2. CASE s \in ToSet(DeepSlices) /\ sl[s] = [a |-> n + 8 + IndexOf(s, DeepSlices), len |-> h.slice[s].len]
      <4>1. PICK i : i = IndexOf(s, DeepSlices) OBVIOUS
      <4>2. i \in 1..3 BY <3>2, <4>1, DeepSlicesFacts
      <4>3. n + 8 + i # 0 BY <4>2, <1>3
      <4>4. heap'[n + 8 + i] = Elements(h.slice[s]) BY <1>7, <3>2, <4>1
      <4>5. Len(Elements(h.slice[s])) = h.slice[s].len BY <1>0, <1>2, ElementsType
      <4>6. h.slice[s].len \in Nat BY <1>3 DEF Holder
      <4> QED BY <1>17, <3>2, <4>1, <4>3, <4>4, <4>5, <4>6
    <3>3. CASE sl[s] = h.slice[s]
      <4>1. hold[o].slice[s].len <= IF hold[o].slice[s].a = 0 THEN 0 ELSE Len(heap[hold[o].slice[s].a])
        BY <1>0 DEF SetInv, SlicesFit, Capacity
      <4>2. PICK a : a = hold[o].slice[s].a OBVIOUS
      <4>3. s \in Fields /\ Addr(hold[o], s) = a BY <4>2, FieldFacts
      <4>4. a \in Nat /\ a <= n BY <4>3, <1>0, <1>1, <1>2, AddrType DEF SetInv, Allocated
      <4>5. a # 0 => heap'[a] = heap[a] BY <4>4, <1>3, <1>7
      <4> QED BY <4>1, <4>2, <4>5, <3>3, <1>2, <1>17
    <3> QED BY <1>12, <3>1, <3>2, <3>3
  <2> QED BY <2>1, <2>3, <2>4 DEF Allocates
<1>24. SetInv' /\ OnlyChanges(c) BY <1>0, <1>1, <1>10, <1>17, <1>18, <1>23, StepFine DEF OnlyChanges
<1>25. hold'[c] = x BY <1>0, <1>1, <1>10
<1>26. Effective(c)'.ptr = Effective(o).ptr
  <2>1. ASSUME NEW p \in Pointers \ {"RootCAs", "Jar"}
        PROVE  (IF hold'[c].ptr[p] = 0 THEN <<>> ELSE heap'[hold'[c].ptr[p]]) = Object(hold[o].ptr[p])
    <3>1. p \in ToSet(Deep) BY DeepFacts
    <3>2. PICK i : i = IndexOf(p, Deep) OBVIOUS
    <3>3. i \in 1..8 BY <3>1, <3>2, DeepFacts
    <3>4. hold'[c].ptr[p] = IF h.ptr[p] = 0 THEN 0 ELSE n + i BY <1>11, <1>17, <1>25, <3>1, <3>2
    <3>5. heap'[n + i] = Object(h.ptr[p]) BY <1>7, <3>1, <3>2
    <3>6. n + i # 0 BY <1>3, <3>3
    <3>7. h.ptr[p] = 0 => Object(h.ptr[p]) = <<>> BY DEF Object
    <3> QED BY <1>2, <3>4, <3>5, <3>6, <3>7
  <2>2. [p \in Pointers \ {"RootCAs", "Jar"} |-> IF hold'[c].ptr[p] = 0 THEN <<>> ELSE heap'[hold'[c].ptr[p]]]
        = [p \in Pointers \ {"RootCAs", "Jar"} |-> Object(hold[o].ptr[p])]
    BY <2>1
  <2> QED BY <2>2 DEF Effective, Object
<1>27. Effective(c)'.slice = Effective(o).slice
  <2>1. ASSUME NEW s \in {"Cookies", "udBeforeRequest", "afterResponse"}
        PROVE  (IF hold'[c].slice[s].a = 0 THEN <<>> ELSE SubSeq(heap'[hold'[c].slice[s].a], 1, hold'[c].slice[s].len)) = Elements(hold[o].slice[s])
    <3>1. s \in ToSet(DeepSlices) /\ s \in Slices BY DeepSlicesFacts
    <3>2. PICK i, u : i = IndexOf(s, DeepSlices) /\ u = Elements(h.slice[s]) OBVIOUS
    <3>3. i \in 1..3 BY <3>1, <3>2, DeepSlicesFacts
    <3>4. u \in Seq(Nat) /\ Len(u) = h.slice[s].len BY <1>0, <1>2, <3>1, <3>2, ElementsType
    <3>5. CASE h.slice[s].len = 0
      <4>1. hold'[c].slice[s].a = 0
        <5>1. sl[s] = NoSlice BY <1>12, <3>1, <3>5
        <5>2. sl[s].a = 0 BY <5>1 DEF NoSlice
        <5> QED BY <5>2, <1>17, <1>25
      <4>2. u = <<>> BY <3>4, <3>5
      <4> QED BY <1>2, <3>2, <4>1, <4>2
    <3>6. CASE h.slice[s].len # 0
      <4>1. hold'[c].slice[s].a = n + 8 + i /\ hold'[c].slice[s].len = h.slice[s].len
        <5>1. sl[s] = [a |-> n + 8 + i, len |-> h.slice[s].len] BY <1>12, <3>1, <3>2, <3>6
        <5>2. sl[s].a = n + 8 + i /\ sl[s].len = h.slice[s].len BY <5>1
        <5> QED BY <5>2, <1>17, <1>25
      <4>2. n + 8 + i # 0 BY <1>3, <3>3
      <4>3. heap'[n + 8 + i] = u BY <1>7, <3>1, <3>2
      <4>4. SubSeq(u, 1, Len(u)) = u BY <3>4
      <4> QED BY <1>2, <3>2, <3>4, <4>1, <4>2, <4>3, <4>4
    <3> QED BY <3>5, <3>6
  <2>2. [s \in {"Cookies", "udBeforeRequest", "afterResponse"} |->
            IF hold'[c].slice[s].a = 0 THEN <<>> ELSE SubSeq(heap'[hold'[c].slice[s].a], 1, hold'[c].slice[s].len)]
        = [s \in {"Cookies", "udBeforeRequest", "afterResponse"} |-> Elements(hold[o].slice[s])]
    BY <2>1
  <2> QED BY <2>2 DEF Effective, Elements
<1>28. Effective(c)'.shake = Effective(o).shake BY <1>2, <1>17, <1>25 DEF Effective
<1>29. [hold'[c].plain EXCEPT !["AllowHTTP"] = 0] = [hold[o].plain EXCEPT !["AllowHTTP"] = 0]
  <2>1. h.plain \in [PlainFields -> Nat] BY <1>3 DEF Holder
  <2> QED BY <2>1, <1>2, <1>8, <1>17, <1>25
<1>30. Inherited(c)' = Inherited(o)
  <2>1. \A k \in {"plain", "ptr", "slice", "shake"} : k # "plain" => Effective(c)'[k] = Effective(o)[k] BY <1>26, <1>27, <1>28
  <2> QED BY <2>1, <1>29 DEF Inherited
<1> QED BY <1>1, <1>24, <1>30

\* A request begins with a copy of the retry options, and nothing else.
LEMMA RFine ==
    ASSUME SetInv, NEW c \in Clients, NEW q \in Reqs, R(c, q)
    PROVE  /\ SetInv' /\ OnlyChanges(q) /\ q \notin Clients /\ hold[c].live
           /\ Object(hold[c].ptr["retryOption"]) = Effective(q)'.ptr["retryOption"]
<1>0. c \in Holders /\ q \in Holders /\ q \notin Clients /\ hold[c].live BY SettingsConstants DEF Holders, R
<1>1. /\ heap \in Seq(Seq(Nat)) /\ hold \in [Holders -> Holder] /\ calls' \in Nat /\ Len(heap) \in Nat
      /\ hold[q] \in Holder /\ hold[c] \in Holder /\ hold[q] = Empty
  BY <1>0 DEF SetInv, SetTypeOK, R
<1>2. "retryOption" \in Pointers \ {"RootCAs", "Jar"} BY DEF Pointers
<1>3. hold[q].ptr["retryOption"] = 0 BY <1>1, <1>2 DEF Empty
<1>4. CASE hold[c].ptr["retryOption"] = 0
  <2>1. PICK x : x = [hold[q] EXCEPT !.live = TRUE] OBVIOUS
  <2>2. hold' = [hold EXCEPT ![q] = x] /\ heap' = heap BY <1>4, <2>1 DEF R
  <2>3. x \in Holder /\ x.live /\ x.ptr = hold[q].ptr /\ x.slice = hold[q].slice /\ x.factory = hold[q].factory BY <1>1, <2>1 DEF Holder
  <2>4. SetInv' /\ OnlyChanges(q) BY <1>0, <1>1, <2>2, <2>3, PlainFine
  <2>5. hold'[q] = x BY <1>0, <1>1, <2>2
  <2>6. Object(hold[c].ptr["retryOption"]) = <<>> BY <1>4 DEF Object
  <2>7. Effective(q)'.ptr["retryOption"] = <<>> BY <1>2, <1>3, <2>3, <2>5 DEF Effective, Object
  <2> QED BY <1>0, <2>4, <2>6, <2>7
<1>5. CASE hold[c].ptr["retryOption"] # 0
  <2>1. PICK n, v, x : n = Len(heap) + 1 /\ v = heap[hold[c].ptr["retryOption"]] /\ x = [hold[q] EXCEPT !.live = TRUE, !.ptr["retryOption"] = n] OBVIOUS
  <2>2. hold' = [hold EXCEPT ![q] = x] /\ heap' = Append(heap, v)
    <3>1. hold' = [hold EXCEPT ![q].live = TRUE, ![q].ptr["retryOption"] = n] BY <1>5, <2>1 DEF R, Fresh
    <3>2. heap' = Append(heap, v) BY <1>5, <2>1 DEF R
    <3>3. hold' = [hold EXCEPT ![q] = x] BY <3>1, <1>0, <1>1, <2>1
    <3> QED BY <3>2, <3>3
  <2>3. n \in Nat BY <1>1, <2>1
  <2>4. /\ x \in Holder /\ x.live /\ x.ptr["retryOption"] = n /\ x.slice = hold[q].slice /\ x.factory = hold[q].factory
        /\ \A p \in Pointers : p # "retryOption" => x.ptr[p] = hold[q].ptr[p]
    BY <1>1, <1>2, <2>1, <2>3 DEF Holder
  <2>5. v \in Seq(Nat) /\ Object(hold[c].ptr["retryOption"]) = v
    <3>1. Object(hold[c].ptr["retryOption"]) = v BY <1>5, <2>1 DEF Object
    <3> QED BY <3>1, <1>0, <1>2, ObjectType
  <2>6. ChangesObject(q) BY <2>2, <2>5 DEF ChangesObject
  <2>7. \A p \in Pointers : Own(x, p) <=> Own(hold[q], p) BY <2>4, Owned DEF Fields
  <2>8. Points(q, x)
    <3>1. \A p \in Pointers : x.ptr[p] = Len(heap) + 1 => p = "retryOption" BY <1>0, <2>4, NotFresh
    <3>2. \A p \in Pointers : \/ x.ptr[p] = Len(heap) + 1 /\ heap' = Append(heap, v)
                              \/ x.ptr[p] = hold[q].ptr[p]
      BY <2>1, <2>2, <2>4
    <3> QED BY <3>1, <3>2, <2>4, <2>5, <2>7 DEF Points
  <2>9. SetInv' /\ OnlyChanges(q) BY <1>0, <1>1, <2>2, <2>4, <2>6, <2>8, SetterFine
  <2>10. hold'[q] = x BY <1>0, <1>1, <2>2
  <2>11. heap'[n] = v /\ n # 0
    <3>1. PICK V : V = Seq(Nat) OBVIOUS
    <3>2. heap \in Seq(V) /\ v \in V BY <1>1, <2>5, <3>1
    <3> QED BY <2>1, <2>2, <3>2
  <2>12. Effective(q)'.ptr["retryOption"] = v BY <1>2, <2>4, <2>10, <2>11 DEF Effective, Object
  <2> QED BY <1>0, <2>5, <2>9, <2>12
<1> QED BY <1>4, <1>5

LEMMA SettingsStart ==
    ASSUME SettingsInit
    PROVE  SetInv
<1>1. heap = <<<<1, 1>>, <<>>, <<1>>>> BY DEF SettingsInit, T
<1>2. heap \in Seq(Seq(Nat)) /\ Len(heap) = 3 /\ heap[1] = <<1, 1>>
  <2>1. PICK d, e, f : d = <<1, 1>> /\ e = <<>> /\ f = <<1>> OBVIOUS
  <2>2. PICK V : V = Seq(Nat) OBVIOUS
  <2>3. d \in Seq(Nat) /\ f \in Seq(Nat) BY <2>1
  <2>4. <<>> \in Seq(Nat) OBVIOUS
  <2>5. d \in V /\ e \in V /\ f \in V BY <2>1, <2>2, <2>3, <2>4, Zenon
  <2>6. heap = <<d, e, f>> BY <1>1, <2>1
  <2>7. heap \in Seq(V) /\ Len(heap) = 3 /\ heap[1] = d BY <2>5, <2>6
  <2> QED BY <2>1, <2>2, <2>7
<1>3. calls \in Nat BY DEF SettingsInit
<1>4. Empty \in Holder /\ \A f \in Fields : Addr(Empty, f) = 0
  <2>1. <<>> \in Seq(Nat) OBVIOUS
  <2>2. [s \in {"roundTripWrappers", "httpRoundTripWrappers"} |-> <<>>] \in [Wrappers -> Seq(Nat)] BY <2>1, Zenon DEF Wrappers
  <2>3. PICK wr : wr = [s \in {"roundTripWrappers", "httpRoundTripWrappers"} |-> <<>>] OBVIOUS
  <2>4. NoSlice \in [a : Nat, len : Nat] BY DEF NoSlice
  <2>5. PICK sl : sl = [s \in Slices |-> NoSlice] OBVIOUS
  <2>6. sl \in [Slices -> [a : Nat, len : Nat]] BY <2>4, <2>5
  <2>7. Empty = [live |-> FALSE, plain |-> [f \in PlainFields |-> 0], ptr |-> [p \in Pointers |-> 0], slice |-> sl,
                 wrapped |-> wr, factory |-> TRUE, shake |-> "own"]
    BY <2>3, <2>5 DEF Empty
  <2>8. wr \in [Wrappers -> Seq(Nat)] BY <2>2, <2>3
  <2>9. Empty \in Holder BY <2>6, <2>7, <2>8 DEF Holder
  <2>10. \A p \in Pointers : Empty.ptr[p] = 0 BY <2>7
  <2>11. \A s \in Slices : Empty.slice[s].a = 0 BY <2>5, <2>7 DEF NoSlice
  <2> QED BY <2>9, <2>10, <2>11 DEF Addr, Fields
<1>5. PICK r1 : r1 = [a |-> 1, len |-> 2] OBVIOUS
<1>6. r1 \in [a : Nat, len : Nat] /\ r1.a = 1 /\ r1.len = 2 BY <1>5
<1>7. {"Jar", "TLSClientConfig"} \subseteq Pointers /\ "afterResponse" \in Slices BY DEF Pointers, Slices
<1>8. C = [Empty EXCEPT !.live = TRUE, !.slice["afterResponse"] = r1, !.ptr["Jar"] = 2, !.ptr["TLSClientConfig"] = 3] BY <1>5 DEF C
<1>9. /\ C \in Holder /\ C.live /\ C.slice["afterResponse"] = r1 /\ C.ptr["Jar"] = 2 /\ C.ptr["TLSClientConfig"] = 3 /\ C.factory = Empty.factory
      /\ \A p \in Pointers : p \notin {"Jar", "TLSClientConfig"} => C.ptr[p] = Empty.ptr[p]
      /\ \A s \in Slices : s # "afterResponse" => C.slice[s] = Empty.slice[s]
  BY <1>4, <1>6, <1>7, <1>8 DEF Holder
<1>10. \A p \in Pointers : C.ptr[p] = IF p = "Jar" THEN 2 ELSE IF p = "TLSClientConfig" THEN 3 ELSE 0
  <2>1. \A p \in Pointers : Empty.ptr[p] = 0 BY <1>4, FieldFacts
  <2> QED BY <2>1, <1>9
<1>11. \A s \in Slices : C.slice[s].a = IF s = "afterResponse" THEN 1 ELSE 0
  <2>1. \A s \in Slices : Empty.slice[s].a = 0 BY <1>4, FieldFacts
  <2> QED BY <2>1, <1>6, <1>9
<1>12. \A h \in Holders : hold[h] = (IF h = FirstClient THEN C ELSE Empty) BY DEF SettingsInit, Holders
<1>13. hold \in [Holders -> Holder]
  <2>1. hold = [h \in Holders |-> IF h = FirstClient THEN C ELSE Empty] BY DEF SettingsInit, Holders
  <2> QED BY <2>1, <1>4, <1>9
<1>14. \A f \in Fields : Addr(C, f) \in 0..3
  <2>1. \A p \in Pointers : Addr(C, p) \in 0..3 BY <1>10, FieldFacts
  <2>2. \A s \in Slices : Addr(C, s) \in 0..3 BY <1>11, FieldFacts
  <2> QED BY <2>1, <2>2 DEF Fields
<1>15. SetTypeOK BY <1>2, <1>3, <1>9, <1>12, <1>13 DEF SetTypeOK
<1>16. Allocated
  <2> SUFFICES ASSUME NEW h \in Holders, NEW f \in Fields PROVE Addr(hold[h], f) <= 3 BY <1>2 DEF Allocated
  <2>1. Addr(hold[h], f) = 0 \/ Addr(hold[h], f) \in 0..3 BY <1>4, <1>12, <1>14
  <2> QED BY <2>1
<1>17. SlicesFit
  <2>1. ASSUME NEW h \in Holders, NEW k \in Holders, NEW p \in Pointers, NEW s \in Slices, hold[h].ptr[p] # 0
        PROVE  hold[h].ptr[p] # hold[k].slice[s].a
    <3>1. Empty.ptr[p] = 0 /\ Empty.slice[s].a = 0 BY <1>4, FieldFacts
    <3>2. hold[h].ptr[p] \in {0, 2, 3} BY <3>1, <1>10, <1>12
    <3>3. hold[k].slice[s].a \in {0, 1} BY <3>1, <1>11, <1>12
    <3> QED BY <2>1, <3>2, <3>3
  <2>2. ASSUME NEW h \in Holders, NEW s \in Slices PROVE hold[h].slice[s].len <= Capacity(hold[h].slice[s])
    <3>1. Empty.slice[s] = NoSlice BY DEF Empty
    <3>2. CASE hold[h].slice[s] = NoSlice BY <3>2 DEF Capacity, NoSlice
    <3>3. CASE hold[h].slice[s] = r1
      <4>1. Capacity(r1) = Len(heap[1]) BY <1>6 DEF Capacity
      <4>2. Len(<<1, 1>>) = 2 OBVIOUS
      <4> QED BY <3>3, <4>1, <4>2, <1>2, <1>6
    <3> QED BY <3>1, <3>2, <3>3, <1>9, <1>12
  <2> QED BY <2>1, <2>2 DEF SlicesFit
<1>18. Apart
  <2> SUFFICES ASSUME NEW h \in Holders, NEW k \in Holders, NEW f \in Fields, NEW g \in Fields,
                      Own(hold[h], f), Addr(hold[h], f) # 0, Addr(hold[h], f) = Addr(hold[k], g)
               PROVE  h = k /\ Own(hold[k], g)
    BY DEF Apart
  <2>1. h = FirstClient /\ k = FirstClient /\ hold[h] = C /\ hold[k] = C BY <1>4, <1>12
  <2>2. f = g
    <3>1. CASE f \in Pointers /\ g \in Pointers
      <4>1. C.ptr[f] # 0 /\ C.ptr[f] = C.ptr[g] BY <3>1, <2>1, FieldFacts
      <4> QED BY <3>1, <4>1, <1>10
    <3>2. CASE f \in Slices /\ g \in Slices
      <4>1. C.slice[f].a # 0 /\ C.slice[f].a = C.slice[g].a BY <3>2, <2>1, FieldFacts
      <4> QED BY <3>2, <4>1, <1>11
    <3>3. CASE f \in Pointers /\ g \in Slices
      <4>1. C.ptr[f] # 0 /\ C.ptr[f] = C.slice[g].a BY <3>3, <2>1, FieldFacts
      <4> QED BY <3>3, <4>1, <1>10, <1>11
    <3>4. CASE f \in Slices /\ g \in Pointers
      <4>1. C.slice[f].a # 0 /\ C.slice[f].a = C.ptr[g] BY <3>4, <2>1, FieldFacts
      <4> QED BY <3>4, <4>1, <1>10, <1>11
    <3> QED BY <3>1, <3>2, <3>3, <3>4 DEF Fields
  <2> QED BY <2>1, <2>2
<1> QED BY <1>15, <1>16, <1>17, <1>18 DEF SetInv

LEMMA SettingsStep ==
    ASSUME SetInv, [SettingsNext]_setVars
    PROVE  SetInv'
<1>1. CASE \E c \in Clients : SetClient(c) BY <1>1, SetClientFine
<1>2. CASE \E q \in Reqs : SetRequest(q) BY <1>2, SetRequestFine
<1>3. CASE \E o, c \in Clients : Clone(o, c) BY <1>3, CloneFine
<1>4. CASE \E c \in Clients, q \in Reqs : R(c, q) BY <1>4, RFine
<1>5. CASE UNCHANGED setVars
  <2>1. heap' = heap /\ hold' = hold /\ calls' = calls BY <1>5 DEF setVars
  <2> QED BY <2>1 DEF SetInv, SetTypeOK, Allocated, SlicesFit, Apart, Capacity
<1> QED BY <1>1, <1>2, <1>3, <1>4, <1>5 DEF SettingsNext

LEMMA OneSees ==
    ASSUME SetInv, NEW c \in Holders, OnlyChanges(c)
    PROVE  OneChanged /\ \A k \in Holders : ~hold[k].live /\ hold'[k].live => k = c
<1>1. DOMAIN hold = Holders BY DEF SetInv, SetTypeOK
<1> QED BY <1>1 DEF OneChanged, OnlyChanges

LEMMA SettingsAction ==
    ASSUME SetInv, SettingsNext
    PROVE  OneChanged /\ CloneBegins /\ RequestBegins
<1>0. Clients \subseteq Holders /\ Reqs \subseteq Holders BY DEF Holders
<1>1. CASE \E c \in Clients : SetClient(c)
  <2>1. PICK c \in Clients : OnlyChanges(c) /\ hold[c].live BY <1>1, SetClientFine
  <2>2. OneChanged /\ \A k \in Holders : ~(~hold[k].live /\ hold'[k].live) BY <1>0, <2>1, OneSees
  <2> QED BY <1>0, <2>2 DEF CloneBegins, RequestBegins
<1>2. CASE \E q \in Reqs : SetRequest(q)
  <2>1. PICK q \in Reqs : OnlyChanges(q) /\ hold[q].live BY <1>2, SetRequestFine
  <2>2. OneChanged /\ \A k \in Holders : ~(~hold[k].live /\ hold'[k].live) BY <1>0, <2>1, OneSees
  <2> QED BY <1>0, <2>2 DEF CloneBegins, RequestBegins
<1>3. CASE \E o, c \in Clients : Clone(o, c)
  <2>1. PICK o \in Clients, c \in Clients : OnlyChanges(c) /\ hold[o].live /\ Inherited(c)' = Inherited(o) BY <1>3, CloneFine
  <2>2. OneChanged /\ \A k \in Holders : ~hold[k].live /\ hold'[k].live => k = c BY <1>0, <2>1, OneSees
  <2>3. c \notin Reqs BY SettingsConstants
  <2>4. CloneBegins BY <1>0, <2>1, <2>2 DEF CloneBegins
  <2>5. RequestBegins BY <1>0, <2>2, <2>3 DEF RequestBegins
  <2> QED BY <2>2, <2>4, <2>5
<1>4. CASE \E c \in Clients, q \in Reqs : R(c, q)
  <2>1. PICK c \in Clients, q \in Reqs : OnlyChanges(q) /\ q \notin Clients /\ hold[c].live /\ Object(hold[c].ptr["retryOption"]) = Effective(q)'.ptr["retryOption"]
    BY <1>4, RFine
  <2>2. OneChanged /\ \A k \in Holders : ~hold[k].live /\ hold'[k].live => k = q BY <1>0, <2>1, OneSees
  <2>3. CloneBegins BY <1>0, <2>1, <2>2 DEF CloneBegins
  <2>4. RequestBegins BY <1>0, <2>1, <2>2 DEF RequestBegins
  <2> QED BY <2>2, <2>3, <2>4
<1> QED BY <1>1, <1>2, <1>3, <1>4 DEF SettingsNext

\* What clients, clones and requests hold, at every time.
THEOREM SettingsInvariance == SettingsSpec => []SetInv
<1>1. SettingsInit => SetInv BY SettingsStart
<1>2. SetInv /\ [SettingsNext]_setVars => SetInv' BY SettingsStep
<1> QED BY <1>1, <1>2, PTL DEF SettingsSpec

\* A call changes the settings of the client or request it is made on and of no other,
\* whoever was cloned from whom; a clone starts with its original's settings and a
\* request with its client's retry options.
THEOREM ClonesAreIndependent == SettingsSpec => CloneIndependent
<1>1. SettingsInit => SetInv BY SettingsStart
<1>2. SetInv /\ [SettingsNext]_setVars => SetInv' BY SettingsStep
<1>3. SetInv /\ [SettingsNext]_setVars => [OneChanged /\ CloneBegins /\ RequestBegins]_setVars BY SettingsAction
<1> QED BY <1>1, <1>2, <1>3, PTL DEF SettingsSpec, CloneIndependent
=============================================================================
