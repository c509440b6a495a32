------------------------------- MODULE Socks -------------------------------
(* The SOCKS5 dialer (internal/socks): connect writes the greeting, the      *)
(* credentials and the request, and reads a reply after each.  What the      *)
(* proxy sends is a sequence of bytes, of which connect must leave those     *)
(* that are not its own.                                                     *)
EXTENDS Integers, Sequences, SequencesExt

Version5 == 5
NoMethods == 255
CmdConnect == 1
IPv4 == 1
FQDN == 3
IPv6 == 4
UserPass == 2

\* How far connect has come: what it wrote, what is left to read, how it failed, if it did.
Dialing(in) == [out |-> <<>>, in |-> in, err |-> "none", addr |-> <<>>, method |-> 0]
Abandon(d, e) == [d EXCEPT !.err = e]
\* io.ReadFull of n bytes and what is done with them.
ReadFull(d, n, Then(_, _)) ==
    IF d.err # "none" THEN d
    ELSE IF Len(d.in) < n THEN Abandon(d, "eof")
    ELSE Then([d EXCEPT !.in = SubSeq(@, n + 1, Len(@))], SubSeq(d.in, 1, n))
SendBytes(d, b) == IF d.err # "none" THEN d ELSE [d EXCEPT !.out = Append(@, b)]

\* The greeting: the methods of the dialer, or none required.
Greet(d, t) ==
    LET ams == IF t.methods = <<>> \/ ~t.authenticate THEN <<0>> ELSE t.methods
    IN  IF Len(ams) > 255 THEN Abandon(d, "methods") ELSE SendBytes(d, <<Version5, Len(ams)>> \o ams)

MethodChosen(d) ==
    ReadFull(d, 2, LAMBDA e, b :
        IF b[1] # Version5 THEN Abandon(e, "version") ELSE IF b[2] = NoMethods THEN Abandon(e, "no method")
        ELSE [e EXCEPT !.method = b[2]])

\* UsernamePassword.Authenticate
Authenticate(d, t) ==
    IF d.err # "none" \/ ~t.authenticate \/ d.method = 0 THEN d
    ELSE IF d.method # UserPass THEN Abandon(d, "unsupported")
    ELSE IF Len(t.user) \notin 1..255 \/ Len(t.password) \notin 1..255 THEN Abandon(d, "credentials")
    ELSE ReadFull(SendBytes(d, <<1, Len(t.user)>> \o t.user \o <<Len(t.password)>> \o t.password), 2, LAMBDA e, b :
             IF b[1] # 1 \/ b[2] # 0 THEN Abandon(e, "denied") ELSE e)

\* The address in the request: four or sixteen bytes, or a name after its length.
AddrBytes(a) == (CASE a.kind = "ip4" -> <<IPv4>> [] a.kind = "ip6" -> <<IPv6>> [] OTHER -> <<FQDN, Len(a.host)>>) \o a.host
SendRequest(d, t) ==
    IF d.err = "none" /\ t.addr.kind = "name" /\ Len(t.addr.host) > 255 THEN Abandon(d, "too long")
    ELSE SendBytes(d, <<Version5, CmdConnect, 0>> \o AddrBytes(t.addr) \o <<t.addr.port \div 256, t.addr.port % 256>>)

\* The reply, and then the bound address: as long as its type says.
Bound(d, kind, b) ==
    [d EXCEPT !.addr = [kind |-> kind, host |-> SubSeq(b, 1, Len(b) - 2), port |-> b[Len(b) - 1] * 256 + b[Len(b)]]]
ReadBound(d, type) ==
    CASE type = IPv4 -> ReadFull(d, 6, LAMBDA e, b : Bound(e, "ip4", b))
      [] type = IPv6 -> ReadFull(d, 18, LAMBDA e, b : Bound(e, "ip6", b))
      [] type = FQDN -> ReadFull(d, 1, LAMBDA e, n : ReadFull(e, 2 + n[1], LAMBDA f, b : Bound(f, "name", b)))
      [] OTHER -> Abandon(d, "address type")
ReadReply(d) ==
    ReadFull(d, 4, LAMBDA e, b :
        IF b[1] # Version5 THEN Abandon(e, "version") ELSE IF b[2] # 0 THEN Abandon(e, "refused")
        ELSE IF b[3] # 0 THEN Abandon(e, "reserved") ELSE ReadBound(e, b[4]))

\* splitHostPort's range check, then the exchange.
connect(t, in) ==
    IF t.addr.port \notin 1..65535 THEN Abandon(Dialing(in), "port")
    ELSE ReadReply(SendRequest(Authenticate(MethodChosen(Greet(Dialing(in), t)), t), t))

------------------------------------------------------------------------------
\* What a proxy p answers: the method, the verdict on the credentials, the reply with
\* the bound address, and the first bytes from the target right behind.
Script(p) ==
    <<Version5, p.method>> \o (IF p.method = UserPass THEN <<1, p.verdict>> ELSE <<>>)
    \o <<Version5, p.reply, 0>> \o AddrBytes(p.bound) \o <<p.bound.port \div 256, p.bound.port % 256>> \o p.more

\* The address a proxy reads in a request.
Requested(b) ==
    LET named == b[4] = FQDN
        rest == SubSeq(b, IF named THEN 6 ELSE 5, Len(b) - 2)
    IN  [kind |-> IF named THEN "name" ELSE IF b[4] = IPv4 THEN "ip4" ELSE "ip6", host |-> rest,
         port |-> b[Len(b) - 1] * 256 + b[Len(b)]]

Allowed(t, p) == p.method = 0 \/ (p.method = UserPass /\ t.authenticate /\ t.user # <<>> /\ p.verdict = 0)

\* The dialer connects exactly when the proxy let it, to the address it was given, and
\* leaves on the connection every byte that came behind the reply (Dialer.connect).
SocksReadBack(t, p) ==
    LET d == connect(t, Script(p))
        ok == t.addr.port \in 1..65535 /\ Allowed(t, p) /\ p.reply = 0 /\ Len(t.addr.host) <= 255
    IN  /\ (d.err = "none") = ok
        /\ d.err = "none" => d.in = p.more /\ d.addr = p.bound /\ Requested(d.out[Len(d.out)]) = t.addr
==============================================================================
