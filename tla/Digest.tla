------------------------------- MODULE Digest -------------------------------
(* Digest authentication (digest.go): the challenge of a 401 is parsed and   *)
(* answered.  The header is a sequence of tokens; a hash is the record of    *)
(* what went into it.                                                        *)
EXTENDS Integers, Sequences, SequencesExt, FiniteSetsExt

hashFuncs ==
    [a \in {"", "MD5", "MD5-sess", "SHA-256", "SHA-256-sess", "SHA-512-256", "SHA-512-256-sess"} |->
        CASE a \in {"", "MD5", "MD5-sess"} -> "md5" [] a \in {"SHA-256", "SHA-256-sess"} -> "sha256" [] OTHER -> "sha512"]
sessionAlg(a) == a \in {"MD5-sess", "SHA-256-sess", "SHA-512-256-sess"}
Known == {"realm", "domain", "nonce", "opaque", "stale", "algorithm", "qop", "charset", "userhash"}

DigestRefused == [err |-> TRUE]
\* strings.Split(s, ","): a comma inside quotes splits too.
Items(s) ==
    LET commas == SetToSortSeq({0, Len(s) + 1} \union {i \in DOMAIN s : s[i] = ","}, <)
    IN  [i \in 1..(Len(commas) - 1) |-> SubSeq(s, commas[i] + 1, commas[i + 1] - 1)]
\* The value of a key, the last one given, or empty.
ValueOf(items, k) ==
    LET at == {i \in DOMAIN items : items[i][1] = k} IN  IF at = {} THEN "" ELSE items[Max(at)][3]
\* parseChallenge: an item without "=" or with a key not known is refused, and so is a
\* charset that is not UTF-8.
parseChallenge(s) ==
    LET items == Items(s)
    IN  IF \E i \in DOMAIN items : Len(items[i]) < 3 \/ items[i][2] # "=" \/ items[i][1] \notin Known THEN DigestRefused
        ELSE IF ValueOf(items, "charset") \notin {"", "UTF-8"} THEN DigestRefused
        ELSE [err |-> FALSE, realm |-> ValueOf(items, "realm"), nonce |-> ValueOf(items, "nonce"),
              opaque |-> ValueOf(items, "opaque"), algorithm |-> ValueOf(items, "algorithm"),
              qop |-> ValueOf(items, "qop"), userhash |-> ValueOf(items, "userhash")]

hashOf(a, data) == [hash |-> hashFuncs[a], of |-> data]
ha1(c, cr) ==
    LET ret == hashOf(c.algorithm, <<cr.user, c.realm, cr.password>>)
    IN  IF sessionAlg(c.algorithm) THEN hashOf(c.algorithm, <<ret, c.nonce, cr.cnonce>>) ELSE ret
ha2(c, cr) == hashOf(c.algorithm, <<cr.method, cr.uri>>)
\* credentials.resp, with nc = 1 and a nonce of the client's.
respOf(c, cr) ==
    IF c.qop = "" THEN hashOf(c.algorithm, <<ha1(c, cr), c.nonce, ha2(c, cr)>>)
    ELSE hashOf(c.algorithm, <<ha1(c, cr), c.nonce, 1, cr.cnonce, c.qop, ha2(c, cr)>>)

\* authorize: the response is computed before the user name is hashed.
authorize(c, cr) ==
    IF c.err \/ c.algorithm \notin DOMAIN hashFuncs \/ c.qop \notin {"", "auth"} THEN DigestRefused
    ELSE [err |-> FALSE, realm |-> c.realm, nonce |-> c.nonce, uri |-> cr.uri, response |-> respOf(c, cr),
          algorithm |-> c.algorithm, opaque |-> c.opaque, userhash |-> c.userhash = "true",
          username |-> IF c.userhash = "true" THEN hashOf(c.algorithm, <<cr.user, c.realm>>) ELSE cr.user,
          qop |-> c.qop, nc |-> 1, cnonce |-> IF c.qop = "" THEN "" ELSE cr.cnonce]

------------------------------------------------------------------------------
\* A challenge as a server writes it: the fields it sets, each a sequence of tokens, in
\* any order.
ChallengeText(ch, keys) ==
    FlattenSeq([i \in DOMAIN keys |-> (IF i > 1 THEN <<",">> ELSE <<>>) \o <<keys[i], "=">> \o ch[keys[i]]])
FieldOf(ch, k) == IF k \in DOMAIN ch THEN ch[k][1] ELSE ""

\* What the server computes from the header it gets, its challenge and the password it
\* has on file: RFC 7616, where a session key is made of both nonces.
ServerHash(a, data) ==
    [hash |-> CASE a \in {"", "MD5", "MD5-sess"} -> "md5" [] a \in {"SHA-256", "SHA-256-sess"} -> "sha256" [] OTHER -> "sha512/256",
     of |-> data]
Verifies(ch, a, cr) ==
    LET alg == FieldOf(ch, "algorithm")
        key == ServerHash(alg, <<cr.user, FieldOf(ch, "realm"), cr.password>>)
        sess == IF sessionAlg(alg) THEN ServerHash(alg, <<key, FieldOf(ch, "nonce"), a.cnonce>>) ELSE key
        what == ServerHash(alg, <<cr.method, a.uri>>)
    IN  /\ a.uri = cr.uri /\ a.nonce = FieldOf(ch, "nonce") /\ a.opaque = FieldOf(ch, "opaque")
        /\ a.username = IF a.userhash THEN ServerHash(alg, <<cr.user, FieldOf(ch, "realm")>>) ELSE cr.user
        /\ a.response = IF a.qop = "" THEN ServerHash(alg, <<sess, a.nonce, what>>)
                        ELSE ServerHash(alg, <<sess, a.nonce, a.nc, a.cnonce, a.qop, what>>)

\* Of challenges without a comma in a value (those are refused: parseChallenge splits at
\* every comma), every one that asks for no protection or "auth" is answered, and so that
\* the server that knows the password accepts it, whatever its options and their order.
\* Not with SHA-512-256, for which hashFuncs has SHA-512, nor with a session algorithm and
\* no qop, when the client's nonce stays unsent (createDigestAuth, authorize).
DigestAccepted(ch, keys, cr) ==
    LET a == authorize(parseChallenge(ChallengeText(ch, keys)), cr)
        alg == FieldOf(ch, "algorithm")
    IN  /\ a.err = (alg \notin DOMAIN hashFuncs \/ \E k \in DOMAIN ch : Len(ch[k]) > 1
                    \/ FieldOf(ch, "qop") \notin {"", "auth"} \/ FieldOf(ch, "charset") \notin {"", "UTF-8"})
        /\ ~a.err /\ alg \notin {"SHA-512-256", "SHA-512-256-sess"} /\ (sessionAlg(alg) => a.qop # "")
             => Verifies(ch, a, cr)
==============================================================================
