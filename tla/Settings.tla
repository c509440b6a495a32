------------------------------ MODULE Settings ------------------------------
(* The settings of clients and requests (client.go, request.go, the setters  *)
(* of transport.go, dump.go, retry.go, option.go) and what Client.Clone and  *)
(* Client.R make of them.  What is hard here is aliasing, so the model is a   *)
(* small heap: maps, pointers and backing arrays are objects, and a client,  *)
(* with its Transport and http.Client, holds their addresses.                *)
(*                                                                           *)
(* A call sets a value not set before (its number), whatever its arguments;  *)
(* the values of a map or a list stand for all of its keys.                  *)
EXTENDS Integers, Sequences, SequencesExt

CONSTANTS
    Clients,   \* clients, alive or not yet
    Reqs,      \* requests
    FirstClient,
    Groups,    \* the groups of settings a program may use: what the others hold is the same throughout
    MaxCalls   \* bound: calls of setters, of Clone and of R

ASSUME SettingsConstants == FirstClient \in Clients /\ Clients \intersect Reqs = {}

VARIABLES
    heap,      \* objects, sequences of values; 0 is a free slot of an array
    hold,      \* what each client or request holds
    group,     \* the group of settings this program uses
    calls      \* calls so far

setVars == <<heap, hold, group, calls>>

------------------------------------------------------------------------------
Pointers == {"Headers", "PathParams", "QueryParams", "FormData", "retryOption", "dumpOptions", "Dump", "TLSClientConfig", "RootCAs", "Jar"}
Slices == {"Cookies", "udBeforeRequest", "afterResponse", "Certificates", "roundTripWrappers", "httpRoundTripWrappers"}
PlainFields == {"result", "base", "redirect", "flags", "log", "decode", "marshal", "hooks", "proxy", "dial", "timeouts",
           "t2", "version", "t3", "h2c", "AllowHTTP", "ctx"}
NoSlice == [a |-> 0, len |-> 0]

\* plain: fields copied by assignment.  wrapped: the chain of wrappers as called.
\* factory: is there a cookiejarFactory.  shake: whose TLS config the handshake reads.
Empty ==
    [live |-> FALSE, plain |-> [f \in PlainFields |-> 0], ptr |-> [p \in Pointers |-> 0], slice |-> [s \in Slices |-> NoSlice],
     wrapped |-> [s \in {"roundTripWrappers", "httpRoundTripWrappers"} |-> <<>>], factory |-> TRUE, shake |-> "own"]

\* C: built-in middleware after the response, a cookie jar; T: a TLS config and a t2.
C == [Empty EXCEPT !.live = TRUE, !.slice["afterResponse"] = [a |-> 1, len |-> 2], !.ptr["Jar"] = 2, !.ptr["TLSClientConfig"] = 3]
T == <<<<1, 1>>, <<>>, <<1>>>>

SettingsInit ==
    /\ heap = T
    /\ hold = [h \in Clients \union Reqs |-> IF h = FirstClient THEN C ELSE Empty]
    /\ group \in Groups
    /\ calls = 1

------------------------------------------------------------------------------
(* What a setter does to the heap.                                           *)
Arg == calls + 1
Call(h, g) == group = g /\ hold[h].live /\ calls < MaxCalls /\ calls' = calls + 1 /\ UNCHANGED group
Fresh == Len(heap) + 1

\* c.f = value
Assign(h, f) == hold' = [hold EXCEPT ![h].plain[f] = Arg] /\ UNCHANGED heap

\* if c.p == nil { c.p = new }, then an entry is replaced or one is added.
Modify(h, p, New(_)) ==
    IF hold[h].ptr[p] = 0
    THEN heap' = Append(heap, New(<<>>)) /\ hold' = [hold EXCEPT ![h].ptr[p] = Fresh]
    ELSE heap' = [heap EXCEPT ![hold[h].ptr[p]] = New(@)] /\ UNCHANGED hold
Set(h, p) == Modify(h, p, LAMBDA old : <<Arg>>)
Add(h, p) == Modify(h, p, LAMBDA old : Append(old, Arg))
SetOrAdd(h, p) == Set(h, p) \/ Add(h, p)

Elements(s) == IF s.a = 0 THEN <<>> ELSE SubSeq(heap[s.a], 1, s.len)
Capacity(s) == IF s.a = 0 THEN 0 ELSE Len(heap[s.a])
\* append: in place if the array has room, else to an array of twice the size.
AppendIn(base, h, f) ==
    LET s == hold[h].slice[f]
        grown == [i \in 1..(IF Capacity(s) = 0 THEN 1 ELSE 2 * Capacity(s)) |->
                     IF i <= s.len THEN Elements(s)[i] ELSE IF i = s.len + 1 THEN Arg ELSE 0]
    IN  IF s.len < Capacity(s)
        THEN heap' = [heap EXCEPT ![s.a][s.len + 1] = Arg] /\ hold' = [base EXCEPT ![h].slice[f].len = @ + 1]
        ELSE heap' = Append(heap, grown) /\ hold' = [base EXCEPT ![h].slice[f] = [a |-> Fresh, len |-> s.len + 1]]
AppendTo(h, f) == AppendIn(hold, h, f)
\* WrapRoundTrip keeps the wrapper, for Clone, and calls it on the chain so far.
Wrap(h, f) == AppendIn([hold EXCEPT ![h].wrapped[f] = Append(@, Arg)], h, f)

------------------------------------------------------------------------------
(* Setters of the client, in the order of client.go.                         *)

\* SetResponseBodyTransformer, SetCommonErrorResult, SetResultStateCheckFunc
SetResultHandling(c) == Call(c, "result") /\ Assign(c, "result")
\* SetCommonFormDataFromValues adds, SetCommonFormData replaces.
SetCommonFormData(c) == Call(c, "FormData") /\ SetOrAdd(c, "FormData")
\* SetMultipartBoundaryFunc, SetBaseURL, SetOutputDirectory
SetBaseURL(c) == Call(c, "base") /\ Assign(c, "base")
\* SetCertFromFile, SetCerts
SetCerts(c) == Call(c, "tls") /\ AppendTo(c, "Certificates")
\* appendRootCertData: into the pool the config points to.
SetRootCerts(c) == Call(c, "tls") /\ Add(c, "RootCAs")
SetRedirectPolicy(c) == Call(c, "redirect") /\ Assign(c, "redirect")
\* Keep-alives, compression, decompression.
SetFlags(c) == Call(c, "flags") /\ Assign(c, "flags")
\* SetTLSClientConfig: another config, with its own pool and certificates.
SetTLSClientConfig(c) ==
    /\ Call(c, "tls")
    /\ heap' = Append(heap, <<Arg>>)
    /\ hold' = [hold EXCEPT ![c].ptr["TLSClientConfig"] = Fresh, ![c].ptr["RootCAs"] = 0, ![c].slice["Certificates"] = NoSlice]
\* EnableInsecureSkipVerify, DisableInsecureSkipVerify: in the config itself.
SetInsecureSkipVerify(c) == Call(c, "tls") /\ Set(c, "TLSClientConfig")
SetCommonQueryParams(c) == Call(c, "QueryParams") /\ SetOrAdd(c, "QueryParams")
SetCommonPathParams(c) == Call(c, "PathParams") /\ SetOrAdd(c, "PathParams")
SetCommonCookies(c) == Call(c, "Cookies") /\ AppendTo(c, "Cookies")
\* Debug log, scheme, logger, timeout.
SetLogger(c) == Call(c, "log") /\ Assign(c, "log")

\* EnableDumpAll and its variants: the options are changed in place, and a dumper is
\* started on them unless one runs.
EnableDumpAll(c) ==
    LET opts == hold[c].ptr["dumpOptions"]
        a == IF opts = 0 THEN Fresh ELSE opts
    IN  /\ Call(c, "dump")
        /\ heap' = IF opts = 0 THEN Append(heap, <<Arg>>) ELSE [heap EXCEPT ![a] = <<Arg>>]
        /\ hold' = [hold EXCEPT ![c].ptr["dumpOptions"] = a, ![c].ptr["Dump"] = IF @ = 0 THEN a ELSE @]
DisableDumpAll(c) == Call(c, "dump") /\ hold' = [hold EXCEPT ![c].ptr["Dump"] = 0] /\ UNCHANGED heap
\* SetCommonDumpOptions: the dumper that runs is given the new options.
SetCommonDumpOptions(c) ==
    /\ Call(c, "dump")
    /\ heap' = Append(heap, <<Arg>>)
    /\ hold' = [hold EXCEPT ![c].ptr["dumpOptions"] = Fresh, ![c].ptr["Dump"] = IF @ = 0 THEN 0 ELSE Fresh]

\* EnableDumpEachRequest and its variants, OnBeforeRequest
EnableDumpEachRequest(c) == Call(c, "udBeforeRequest") /\ AppendTo(c, "udBeforeRequest")
\* Auto-reading and auto-decoding.
SetAutoDecode(c) == Call(c, "decode") /\ Assign(c, "decode")
\* SetUserAgent, the auth headers, SetCommonHeaders: Set or append per key.
SetCommonHeaders(c) == Call(c, "Headers") /\ SetOrAdd(c, "Headers")
\* SetCommonHeaderOrder, SetCommonPseudoHeaderOder
SetCommonHeaderOrder(c) == Call(c, "httpRoundTripWrappers") /\ Wrap(c, "httpRoundTripWrappers")
\* OnAfterResponse, SetCommonDigestAuth
OnAfterResponse(c) == Call(c, "afterResponse") /\ AppendTo(c, "afterResponse")
\* OnError, the trace flag.
OnError(c) == Call(c, "hooks") /\ Assign(c, "hooks")
SetProxy(c) == Call(c, "proxy") /\ Assign(c, "proxy")

\* SetCookieJar: a jar for this client and its clones; SetCookieJarFactory and
\* ClearCookies: a jar of its own.
SetCookieJar(c) ==
    /\ Call(c, "jar")
    /\ heap' = Append(heap, <<>>)
    /\ hold' = [hold EXCEPT ![c].ptr["Jar"] = Fresh, ![c].factory = FALSE]
SetCookieJarFactory(c) ==
    /\ Call(c, "jar")
    /\ heap' = Append(heap, <<>>)
    /\ hold' = [hold EXCEPT ![c].ptr["Jar"] = Fresh, ![c].factory = TRUE]
ClearCookies(c) ==
    /\ Call(c, "jar")
    /\ LET jar == hold[c].factory
       IN  /\ heap' = IF jar THEN Append(heap, <<>>) ELSE heap
           /\ hold' = [hold EXCEPT ![c].ptr["Jar"] = IF jar THEN Fresh ELSE @, ![c].slice["Cookies"] = NoSlice]
\* A response sets a cookie (http.Client).
StoreCookie(c) == Call(c, "jar") /\ Add(c, "Jar")

SetMarshal(c) == Call(c, "marshal") /\ Assign(c, "marshal")
SetDial(c) == Call(c, "dial") /\ Assign(c, "dial")
\* SetTLSFingerprint and its variants: a handshake that reads the config of this
\* client, also when a clone dials with it.
SetTLSFingerprint(c) == Call(c, "tls") /\ hold' = [hold EXCEPT ![c].shake = c] /\ UNCHANGED heap
SetTLSFingerprintRaw(c) == SetTLSFingerprint(c)
SetTLSHandshake(c) == Call(c, "tls") /\ hold' = [hold EXCEPT ![c].shake = "custom"] /\ UNCHANGED heap
ForceHttpVersion(c) == Call(c, "version") /\ Assign(c, "version")

\* EnableH2C and DisableH2C of the Transport: the latter leaves DialTLSContext.
EnableH2C(c) ==
    /\ Call(c, "h2c")
    /\ hold' = [hold EXCEPT ![c].plain["h2c"] = 1, ![c].plain["AllowHTTP"] = 1, ![c].plain["dial"] = Arg]
    /\ UNCHANGED heap
DisableH2C(c) ==
    /\ Call(c, "h2c")
    /\ hold' = [hold EXCEPT ![c].plain["h2c"] = 0, ![c].plain["AllowHTTP"] = 0]
    /\ UNCHANGED heap
\* The retry options: one is replaced, or a hook or condition is added.
SetCommonRetry(c) == Call(c, "retryOption") /\ SetOrAdd(c, "retryOption")
\* EnableHTTP3 (where the Go version is one it knows), EnableForceHTTP3, DisableHTTP3
EnableHTTP3(c) ==
    /\ Call(c, "t3")
    /\ \E v \in {hold[c].plain["version"], Arg} : hold' = [hold EXCEPT ![c].plain["t3"] = 1, ![c].plain["version"] = v]
    /\ UNCHANGED heap
DisableHTTP3(c) == Call(c, "t3") /\ hold' = [hold EXCEPT ![c].plain["t3"] = 0] /\ UNCHANGED heap
SetHTTP2(c) == Call(c, "t2") /\ Assign(c, "t2")
\* The limits, timeouts and buffer sizes of the Transport.
SetTimeouts(c) == Call(c, "timeouts") /\ Assign(c, "timeouts")
WrapRoundTrip(c) == Call(c, "roundTripWrappers") /\ Wrap(c, "roundTripWrappers")

SetClient(c) ==
    \/ SetResultHandling(c) \/ SetCommonFormData(c) \/ SetBaseURL(c) \/ SetCerts(c) \/ SetRootCerts(c)
    \/ SetRedirectPolicy(c) \/ SetFlags(c) \/ SetTLSClientConfig(c) \/ SetInsecureSkipVerify(c)
    \/ SetCommonQueryParams(c) \/ SetCommonPathParams(c) \/ SetCommonCookies(c) \/ SetLogger(c)
    \/ EnableDumpAll(c) \/ DisableDumpAll(c) \/ SetCommonDumpOptions(c) \/ EnableDumpEachRequest(c)
    \/ SetAutoDecode(c) \/ SetCommonHeaders(c) \/ SetCommonHeaderOrder(c) \/ OnAfterResponse(c) \/ OnError(c)
    \/ SetProxy(c) \/ SetCookieJar(c) \/ SetCookieJarFactory(c) \/ ClearCookies(c) \/ StoreCookie(c)
    \/ SetMarshal(c) \/ SetDial(c) \/ SetTLSFingerprint(c) \/ SetTLSFingerprintRaw(c) \/ SetTLSHandshake(c)
    \/ ForceHttpVersion(c) \/ EnableH2C(c) \/ DisableH2C(c) \/ SetCommonRetry(c)
    \/ EnableHTTP3(c) \/ DisableHTTP3(c) \/ SetHTTP2(c) \/ SetTimeouts(c) \/ WrapRoundTrip(c)

------------------------------------------------------------------------------
(* Setters of the request.                                                   *)
SetFormData(r) == Call(r, "FormData") /\ SetOrAdd(r, "FormData")
SetCookies(r) == Call(r, "Cookies") /\ AppendTo(r, "Cookies")
SetHeaders(r) == Call(r, "Headers") /\ SetOrAdd(r, "Headers")
SetQueryParams(r) == Call(r, "QueryParams") /\ SetOrAdd(r, "QueryParams")
SetPathParams(r) == Call(r, "PathParams") /\ SetOrAdd(r, "PathParams")
SetContext(r) == Call(r, "ctx") /\ Assign(r, "ctx")
\* EnableDump and its variants: a dumper on the request's options, in its context.
EnableDump(r) ==
    LET opts == hold[r].ptr["dumpOptions"]
        a == IF opts = 0 THEN Fresh ELSE opts
    IN  /\ Call(r, "dump")
        /\ heap' = IF opts = 0 THEN Append(heap, <<Arg>>) ELSE [heap EXCEPT ![a] = <<Arg>>]
        /\ hold' = [hold EXCEPT ![r].ptr["dumpOptions"] = a, ![r].ptr["Dump"] = a]
\* SetDumpOptions: copied over the options there are.
SetDumpOptions(r) == Call(r, "dump") /\ Set(r, "dumpOptions")
SetRetry(r) == Call(r, "retryOption") /\ SetOrAdd(r, "retryOption")

SetRequest(r) ==
    \/ SetFormData(r) \/ SetCookies(r) \/ SetHeaders(r) \/ SetQueryParams(r) \/ SetPathParams(r)
    \/ SetContext(r) \/ EnableDump(r) \/ SetDumpOptions(r) \/ SetRetry(r)

------------------------------------------------------------------------------
(* Clone and R.                                                              *)
\* Faulty variant: Clone leaves the form data shared.
DeepExceptForm == <<"Headers", "PathParams", "QueryParams", "retryOption", "dumpOptions", "Dump", "TLSClientConfig">>
\* What Client.Clone, Transport.Clone and Options.Clone copy, object by object: header
\* and parameter maps, the retry options, the dump options of the client and of its
\* dumper, the TLS config.  The pool of roots stays shared, as tls.Config.Clone leaves it.
Deep == <<"Headers", "PathParams", "QueryParams", "FormData", "retryOption", "dumpOptions", "Dump", "TLSClientConfig">>
\* cloneSlice: an array of the exact length, or nil.
DeepSlices == <<"Cookies", "udBeforeRequest", "afterResponse">>

Object(a) == IF a = 0 THEN <<>> ELSE heap[a]
\* DumpOptions.Clone, Dumper.Clone, cloneMap, cloneUrlValues, retryOption.Clone; cloneSlice.
Copies(h) == [i \in DOMAIN Deep |-> Object(h.ptr[Deep[i]])]
ArrayCopies(h) == [i \in DOMAIN DeepSlices |-> Elements(h.slice[DeepSlices[i]])]
\* Where the copies are: nil stays nil, and an empty list becomes nil.
IndexOf(x, fs) == CHOOSE i \in DOMAIN fs : fs[i] = x
CopyOf(h, p) == IF h.ptr[p] = 0 THEN 0 ELSE Len(heap) + IndexOf(p, Deep)
ArrayOf(h, s) == IF h.slice[s].len = 0 THEN NoSlice
                 ELSE [a |-> Len(heap) + Len(Deep) + IndexOf(s, DeepSlices), len |-> h.slice[s].len]
NewJar == Len(heap) + Len(Deep) + Len(DeepSlices) + 1

\* A new client: the struct is copied, then what it points to; the wrappers' slices stay
\* those of the original and are applied once more; a factory makes another jar; AllowHTTP
\* of t2 is not among the fields copied.
Clone(o, c) ==
    LET h == hold[o]
    IN  /\ h.live /\ ~hold[c].live /\ calls < MaxCalls
        /\ heap' = heap \o Copies(h) \o ArrayCopies(h) \o <<<<>>>>
        /\ hold' = [hold EXCEPT ![c] =
              [h EXCEPT !.ptr = [p \in Pointers |-> IF p \in ToSet(Deep) THEN CopyOf(h, p)
                                                    ELSE IF p = "Jar" /\ h.factory THEN NewJar ELSE h.ptr[p]],
                        !.slice = [s \in Slices |-> IF s \in ToSet(DeepSlices) THEN ArrayOf(h, s) ELSE h.slice[s]],
                        !.wrapped = [s \in DOMAIN h.wrapped |-> Elements(h.slice[s])],
                        !.plain["AllowHTTP"] = 0]]
        /\ calls' = calls + 1 /\ UNCHANGED group

\* R: a request with a copy of the client's retry options.
R(c, r) ==
    /\ hold[c].live /\ ~hold[r].live /\ calls < MaxCalls
    /\ IF hold[c].ptr["retryOption"] = 0
       THEN hold' = [hold EXCEPT ![r].live = TRUE] /\ UNCHANGED heap
       ELSE /\ heap' = Append(heap, heap[hold[c].ptr["retryOption"]])
            /\ hold' = [hold EXCEPT ![r].live = TRUE, ![r].ptr["retryOption"] = Fresh]
    /\ calls' = calls + 1 /\ UNCHANGED group

SettingsNext ==
    \/ \E c \in Clients : SetClient(c)
    \/ \E r \in Reqs : SetRequest(r)
    \/ \E o, c \in Clients : Clone(o, c)
    \/ \E c \in Clients, r \in Reqs : R(c, r)

SettingsSpec == SettingsInit /\ [][SettingsNext]_setVars

------------------------------------------------------------------------------
(* Properties.                                                               *)

\* The settings in effect, less what Clone leaves shared: the pool of roots, the
\* certificates, the arrays of the wrappers, a jar given by SetCookieJar, and the TLS
\* config of another client that a fingerprint reads.
Effective(h) ==
    [plain   |-> hold[h].plain,
     ptr     |-> [p \in Pointers \ {"RootCAs", "Jar"} |-> Object(hold[h].ptr[p])],
     slice   |-> [s \in {"Cookies", "udBeforeRequest", "afterResponse"} |-> Elements(hold[h].slice[s])],
     wrapped |-> hold[h].wrapped, shake |-> hold[h].shake,
     jar     |-> IF hold[h].factory THEN Object(hold[h].ptr["Jar"]) ELSE <<>>]
\* ... that a clone has from its original.
Inherited(h) == [k \in {"plain", "ptr", "slice", "shake"} |-> IF k = "plain" THEN [hold[h].plain EXCEPT !["AllowHTTP"] = 0] ELSE Effective(h)[k]]

\* A step changes the settings of one client or request at most.
OneChanged ==
    \A h, k \in DOMAIN hold :
        hold[h].live /\ hold[k].live /\ Effective(h)' # Effective(h) /\ Effective(k)' # Effective(k) => h = k
\* A clone starts with the settings of its original.
CloneBegins ==
    \A c \in Clients : ~hold[c].live /\ hold'[c].live => \E o \in Clients : hold[o].live /\ Inherited(c)' = Inherited(o)
\* A request starts with the retry options of its client.
RequestBegins ==
    \A r \in Reqs : ~hold[r].live /\ hold'[r].live
        => \E c \in Clients : hold[c].live /\ Object(hold[c].ptr["retryOption"]) = Effective(r)'.ptr["retryOption"]

\* However clients are cloned and set up in turn, a call changes the settings of the one
\* client or request it is made on, never those of one cloned from it or that it was
\* cloned from; a clone starts with the settings of its original, and a request with its
\* client's retry options (Clone, R, and every setter that changes a map or array in place).
CloneIndependent == [][OneChanged /\ CloneBegins /\ RequestBegins]_setVars
==============================================================================
