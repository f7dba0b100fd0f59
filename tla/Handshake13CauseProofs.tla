----------------------- MODULE Handshake13CauseProofs -----------------------
(***************************************************************************)
(* Proofs about Handshake13, for all configurations: no alert has its      *)
(* cause in the code itself, compatible ends do not fail, and the two ends *)
(* never wait for each other.                                              *)
(*                                                                         *)
(* The server sends its flight at once, after it has read all the hellos,  *)
(* and the client answers after it has read the flight; so at any moment   *)
(* one end computes, or reads what is on its wire.  Each wire is described *)
(* by what its reader, in the state it is in, has to find there.           *)
(***************************************************************************)
EXTENDS Handshake13Proofs

-----------------------------------------------------------------------------
(* What is on a wire.  d: the server failed.  key: the key the records are *)
(* sealed under.  t: the reader's transcript.  ts: the wire.               *)

\* The record that is read next.
hsRec(key, m) == [typ |-> "handshake", key |-> key, msg |-> m]
Comes(key, m, ts) == ts # <<>> /\ Head(ts) = hsRec(key, m)
AlertNext(key, ts) == ts # <<>> /\ Head(ts).typ = "alert" /\ Head(ts).key = key
CCSNext(ts) == ts # <<>> /\ Head(ts).typ = "ccs"
OnlyCCS(b) == b = <<>> \/ (b = <<b[1]>> /\ b[1].typ = "ccs")

Signed(context, cert, t) ==
    [type |-> "certificateVerify", by |-> cert, context |-> context, signed |-> t]
RequestMsg == [type |-> "certificateRequest"]
ServerCert == [type |-> "certificate", cert |-> "server"]

\* What the client reads, from the end of the server's flight backwards.
FedFin(key, t, ts) == Comes(key, finishedMsg(finishedHash(key, t)), ts)

FedVerify(key, t, ts) ==
    LET m == Signed("server", "server", t)
    IN Comes(key, m, ts) /\ FedFin(key, Append(t, Digest(m)), Tail(ts))

FedCert(key, t, ts) ==
    /\ Comes(key, ServerCert, ts)
    /\ FedVerify(key, Append(t, Digest(ServerCert)), Tail(ts))

FedRequest(key, t, ts) ==
    /\ Comes(key, RequestMsg, ts)
    /\ FedCert(key, Append(t, Digest(RequestMsg)), Tail(ts))

FedServer(k, psk, key, t, ts) ==
    /\ psk => FedFin(key, t, ts)
    /\ ~psk /\ k.auth >= 1 => FedRequest(key, t, ts)
    /\ ~psk /\ ~(k.auth >= 1) => FedCert(key, t, ts)

Extensions(k, psk, key, t, m, ts) ==
    /\ Comes(key, m, ts) /\ m.type = "encryptedExtensions"
    /\ checkALPN(k.clientProtos, m.alpn)
    /\ FedServer(k, psk, key, Append(t, Digest(m)), Tail(ts))

FedParams(k, d, psk, key, t, ts) ==
    (d /\ AlertNext(key, ts)) \/ Extensions(k, psk, key, t, Head(ts).msg, ts)

\* A ChangeCipherSpec may come before it.
FedKeyed(k, d, psk, key, t, ts) ==
    \/ FedParams(k, d, psk, key, t, ts)
    \/ CCSNext(ts) /\ FedParams(k, d, psk, key, t, Tail(ts))

\* The two ends derive the same handshake keys; in is the server's.
FedKeys(k, d, secret, psk, in, t, ts) ==
    /\ in = clientKey(secret, t)
    /\ FedKeyed(k, d, psk, ServerKey(secret, t), t, ts)

\* ServerHello sh suits hello m of a client that offers session.
Fits(m, session, sh) ==
    /\ sh.type = "serverHello" /\ sh.hrr = FALSE
    /\ sh.suite \in Range(m.suites) /\ sh.share.group = m.share.group
    /\ sh.psk => m.psk # None /\ Hash(session.suite) = Hash(sh.suite)

PSKOf(session, psk) == IF psk THEN session.secret ELSE None
SecretOf(session, m, sh) ==
    HandshakeSecret(sh.suite, PSKOf(session, sh.psk), m.share, sh.share)

\* The client's transcript before the ServerHello.
Greeted(p) ==
    IF p.pc = "serverHello" THEN Append(p.transcript, Digest(p.hello))
    ELSE p.transcript

Answer(k, d, p, in, sh, ts) ==
    /\ Comes(None, sh, ts) /\ Fits(p.hello, p.session, sh)
    /\ p.suite \in {None, sh.suite}
    /\ FedKeys(k, d, SecretOf(p.session, p.hello, sh), sh.psk, in,
               Append(Greeted(p), Digest(sh)), Tail(ts))

FedHello(k, d, p, in, ts) ==
    (d /\ AlertNext(None, ts)) \/ Answer(k, d, p, in, Head(ts).msg, ts)

\* After a retry the server's ChangeCipherSpec may come first.
FedAgain(k, d, p, in, ts) ==
    FedHello(k, d, p, in, ts) \/ (CCSNext(ts) /\ FedHello(k, d, p, in, Tail(ts)))

Feeds(k, d, p, in, ts) ==
    /\ p.pc = "serverHello" => FedHello(k, d, p, in, ts)
    /\ p.pc = "secondServerHello" => FedAgain(k, d, p, in, ts)
    /\ p.pc = "processServerHello" =>
          /\ Fits(p.hello, p.session, p.serverHello)
          /\ p.suite = p.serverHello.suite
          /\ FedKeys(k, d, SecretOf(p.session, p.hello, p.serverHello),
                     p.serverHello.psk, in,
                     Append(p.transcript, Digest(p.serverHello)), ts)
    /\ p.pc = "establishHandshakeKeys" =>
          /\ p.usingPSK = p.serverHello.psk /\ p.suite = p.serverHello.suite
          /\ FedKeys(k, d, SecretOf(p.session, p.hello, p.serverHello),
                     p.usingPSK, in, p.transcript, ts)
    /\ p.pc = "serverParameters" =>
          FedKeyed(k, d, p.usingPSK, p.in, p.transcript, ts)
    /\ p.pc = "serverCertificate" =>
          \/ p.certReq = FALSE /\ FedServer(k, p.usingPSK, p.in, p.transcript, ts)
          \/ ~p.usingPSK /\ FedCert(p.in, p.transcript, ts)
    /\ p.pc = "certificateVerify" =>
          p.peerCerts = "server" /\ FedVerify(p.in, p.transcript, ts)
    /\ p.pc = "serverFinished" => FedFin(p.in, p.transcript, ts)

\* What the server reads after its flight; a is the transcript that ends
\* with its Finished.
CFin(k, in, a, ts) ==
    Comes(in, finishedMsg(finishedHash(in, Before(k, a))), ts)

CVerify(k, in, a, ts) ==
    /\ Comes(in, Signed("client", k.clientCert, Shown(k, a)), ts)
    /\ CFin(k, in, a, Tail(ts))

CFlight(k, asks, in, a, ts) ==
    /\ ~asks => CFin(k, in, a, ts)
    /\ asks => Comes(in, certMsg(k), ts)
    /\ asks /\ k.clientCert = "none" => CFin(k, in, a, Tail(ts))
    /\ asks /\ k.clientCert # "none" => CVerify(k, in, a, Tail(ts))

CAll(k, asks, in, a, ts) ==
    \/ CFlight(k, asks, in, a, ts)
    \/ CCSNext(ts) /\ CFlight(k, asks, in, a, Tail(ts))

\* What the client still has to write when only its Finished is missing.
Unsent(k, p) ==
    \A u : IsSeq(u) /\ CFin(k, p.out, p.app.transcript, u) =>
              CAll(k, Asks(k, p), p.out, p.app.transcript, p.sendBuf \o u)

-----------------------------------------------------------------------------
(* The stages of the two ends.  p, q, ts, tc: the client, the server, the  *)
(* wire to the server, the wire to the client.                             *)

HelloFields == {"type", "suites", "groups", "share", "alpn", "pskModes",
                "sessionTicket", "psk", "binder"}

\* The hello of a client that has hashed tr, offers session, and sends a share
\* for group.
Offer(k, session, tr, group, m) ==
    /\ DOMAIN m = HelloFields
    /\ m.type = "clientHello" /\ m.suites = SuitePreference(k.clientAES)
    /\ m.groups = k.clientGroups /\ m.share.group = group
    /\ m.psk # None =>
          /\ session # None /\ m.psk = session.ticket
          /\ m.binder = Binder(session.suite, session.secret, tr, m)

Idle(p) ==
    /\ p.in = None /\ p.out = None /\ p.sendBuf = <<>>
    /\ p.buffering = FALSE /\ p.certReq = FALSE

\* The client has sent its first hello.
Greets(k, p) ==
    /\ p.pc = "serverHello" /\ Idle(p)
    /\ p.transcript = <<>> /\ p.suite = None
    /\ Offer(k, p.session, <<>>, Head(k.clientGroups), p.hello)

Starting(k, p, q, ts, tc) ==
    /\ p = NewConn("clientHandshake", k.session)
    /\ q = NewConn("clientHello", None) /\ ts = <<>> /\ tc = <<>>

Greeting(k, p, q, ts, tc) ==
    /\ Greets(k, p) /\ q = NewConn("clientHello", None)
    /\ ts = <<hsRec(None, p.hello)>> /\ tc = <<>>

RetryMsg(q) == serverHelloMsg(q.suite, TRUE, q.group, None, FALSE)

\* The server has sent a HelloRetryRequest.
Retries(k, q) ==
    /\ q.pc = "secondClientHello" /\ Idle(q)
    /\ q.psk = None /\ q.usingPSK = FALSE
    /\ q.suite \in Range(q.hello.suites) /\ q.suite # None
    /\ q.group \in Range(k.clientGroups) /\ q.group # q.hello.share.group
    /\ DOMAIN q.hello = HelloFields
    /\ q.hello.groups = k.clientGroups
    /\ q.transcript = <<messageHash(q.hello), Digest(RetryMsg(q))>>

Retried(k, p, q, ts, tc) ==
    /\ Greets(k, p) /\ Retries(k, q) /\ p.hello = q.hello
    /\ ts = <<>> /\ Comes(None, RetryMsg(q), tc) /\ OnlyCCS(Tail(tc))

Retrying(k, p, q, ts, tc) ==
    /\ p.pc = "helloRetryRequest" /\ Idle(p) /\ Retries(k, q)
    /\ Offer(k, p.session, <<>>, Head(k.clientGroups), p.hello)
    /\ p.hello = q.hello /\ p.suite = q.suite /\ p.serverHello = RetryMsg(q)
    /\ ts = <<>> /\ OnlyCCS(tc)

\* The client has sent its second hello, changed as it may be.
Regreets(k, p, tr, group) ==
    /\ p.pc = "secondServerHello" /\ Idle(p)
    /\ p.transcript = Append(tr, Digest(p.hello))
    /\ Offer(k, p.session, tr, group, p.hello)

Regreeting(k, p, q, ts, tc) ==
    /\ Retries(k, q) /\ Regreets(k, p, q.transcript, q.group)
    /\ p.suite = q.suite /\ ~illegalClientHelloChange(p.hello, q.hello)
    /\ \/ ts = <<hsRec(None, p.hello)>>
       \/ CCSNext(ts) /\ Tail(ts) = <<hsRec(None, p.hello)>>
    /\ OnlyCCS(tc)

\* The server has all it needs; psk is what a resumption accepted.
Answering(k, p, q, ts, tc) ==
    /\ p.pc \in {"serverHello", "secondServerHello"} /\ Idle(p)
    /\ p.suite \in {None, q.suite}
    /\ q.pc \in {"checkForResumption", "pickCertificate", "sendServerParameters",
                 "sendServerCertificate", "sendServerFinished"}
    /\ ts = <<>> /\ OnlyCCS(tc) /\ (p.pc = "serverHello" => tc = <<>>)
    /\ q.hello = p.hello /\ q.suite \in Range(p.hello.suites)
    /\ q.group = p.hello.share.group
    /\ q.psk = PSKOf(p.session, q.usingPSK)
    /\ q.usingPSK =>
          p.hello.psk # None /\ Hash(p.session.suite) = Hash(q.suite)
    /\ q.pc = "checkForResumption" =>
          /\ q.usingPSK = FALSE /\ q.buffering = FALSE
          /\ Offer(k, p.session, q.transcript, q.group, p.hello)
    /\ q.pc \in {"checkForResumption", "pickCertificate", "sendServerParameters"} =>
          /\ Append(q.transcript, Digest(q.hello)) = Greeted(p)
          /\ q.sendBuf = <<>> /\ q.in = None /\ q.out = None
    /\ q.pc \in {"sendServerParameters", "sendServerCertificate",
                 "sendServerFinished"} => q.buffering = TRUE
    /\ q.pc = "sendServerCertificate" =>
          \A u : IsSeq(u) /\ FedServer(k, q.usingPSK, q.out, q.transcript, u)
                    => FedHello(k, FALSE, p, q.in, q.sendBuf \o u)
    /\ q.pc = "sendServerFinished" =>
          \A u : IsSeq(u) /\ FedFin(q.out, q.transcript, u)
                    => FedHello(k, FALSE, p, q.in, q.sendBuf \o u)

\* The server has sent its flight and waits.
Awaits(k, q) ==
    /\ \/ q.pc = "readClientCertificate"
       \/ q.pc = "readClientFinished" /\ ~Asks(k, q)
    /\ Requests(q.app.transcript) <=> Asks(k, q)
    /\ ~Asks(k, q) =>
          q.clientFinished = finishedHash(q.in, Before(k, q.app.transcript))

\* The client has the handshake keys.
KeysSet == {"serverParameters", "serverCertificate", "certificateVerify",
            "serverFinished", "clientCertificate", "clientFinished"}
ReadsFlight == KeysSet \cup {"serverHello", "secondServerHello",
                             "processServerHello", "establishHandshakeKeys"}

Delivered(k, p, q, ts, tc) ==
    /\ p.pc \in ReadsFlight /\ ts = <<>>
    /\ q.pc # "failed" => Awaits(k, q)
    /\ Feeds(k, q.pc = "failed", p, q.in, tc)
    /\ p.pc \in {"serverHello", "secondServerHello"} => Idle(p)
    /\ p.pc = "processServerHello" => p.sendBuf = <<>>
    /\ p.pc \in {"processServerHello", "establishHandshakeKeys",
                 "serverParameters"} => p.certReq = FALSE
    /\ p.pc \in KeysSet \cup {"establishHandshakeKeys"} => p.buffering = TRUE
    /\ p.pc # "clientFinished" => OnlyCCS(p.sendBuf)
    /\ p.pc \in KeysSet => p.out = q.in
    /\ p.pc = "clientFinished" /\ q.pc # "failed" => Unsent(k, p)

\* What the server, waiting, still finds.
SFeeds(k, q, ts) ==
    LET a == q.app.transcript
    IN /\ q.pc = "readClientCertificate" =>
             Awaits(k, q) /\ CAll(k, Asks(k, q), q.in, a, ts)
       /\ q.pc = "readClientCertificateVerify" => CVerify(k, q.in, a, ts)
       /\ q.pc = "readClientFinished" =>
             /\ q.clientFinished = finishedHash(q.in, Before(k, a))
             /\ CFin(k, q.in, a, ts) \/ (CCSNext(ts) /\ CFin(k, q.in, a, Tail(ts)))

Completing(k, p, q, ts, tc) ==
    p.pc = "done" /\ q.pc \in After /\ SFeeds(k, q, ts)

\* The client has failed: nothing but an alert is on its way to the server,
\* and one is, except after the error that is returned without.
Excuse(q, r) == r.typ = "ccs" \/ (r.typ = "alert" /\ r.key = q.in)
Alerted(ts) == \E r \in Recs(ts) : r.typ = "alert"
Refusing(k, p, q, ts, tc) ==
    /\ p.pc = "failed"
    /\ q.pc # "failed" =>
          /\ Awaits(k, q) /\ \A r \in Recs(ts) : Excuse(q, r)
          /\ p.err # "getClientCertificate" => Alerted(ts)

Stage(k, p, q, ts, tc) ==
    \/ Starting(k, p, q, ts, tc) \/ Greeting(k, p, q, ts, tc)
    \/ Retried(k, p, q, ts, tc) \/ Retrying(k, p, q, ts, tc)
    \/ Regreeting(k, p, q, ts, tc) \/ Answering(k, p, q, ts, tc)
    \/ Delivered(k, p, q, ts, tc) \/ Completing(k, p, q, ts, tc)
    \/ Refusing(k, p, q, ts, tc)

\* What a client may report.
ClientFault(k, e, q) ==
    \/ e = "bad_certificate" /\ (~k.trusts \/ k.clientVetoes)
    \/ e = "getClientCertificate" /\ k.getCertFails
    \/ e = "remote" /\ q.pc = "failed"

\* What a server may report, to a client p.
Groups(k) == \E g \in Range(k.clientGroups) : g \in Range(k.serverGroups)
Protos(k) ==
    \/ k.clientProtos = <<>> \/ k.serverProtos = <<>>
    \/ \E a \in Range(k.clientProtos) : a \in Range(k.serverProtos)
    \/ /\ "http/1.1" \in Range(k.clientProtos)
       /\ "h2" \in Range(k.serverProtos)
Refused(k, cert) ==
    \/ cert = "none" /\ requiresClientCert(k.auth)
    \/ cert = "bad" /\ k.auth >= 3

ServerFault(k, e, p) ==
    \/ e = "handshake_failure" /\ ~Groups(k)
    \/ e = "no_application_protocol" /\ ~Protos(k)
    \/ e = "unrecognized_name" /\ ~k.hasCert
    \/ e = "decrypt_error" /\ p.session # None
         /\ p.session.secret # p.session.ticket.secret
    \/ e = "bad_certificate"
         /\ \/ k.serverVetoes \/ Refused(k, k.clientCert)
            \/ p.session # None /\ Refused(k, p.session.ticket.certs)
    \/ e = "remote" /\ p.pc = "failed"

\* Nobody reports an error who has not failed, who has failed reports one it has
\* a reason for, and the session offered is the one that is configured.
Blameless(k, p, q) ==
    /\ p.pc # "failed" => p.err = None
    /\ q.pc # "failed" => q.err = None
    /\ p.pc = "failed" => ClientFault(k, p.err, q)
    /\ q.pc = "failed" => ServerFault(k, q.err, p)
    /\ k \in Configs /\ p.session \in {None, k.session}

CauseInv ==
    /\ Stage(conf, c, s, toServer, toClient)
    /\ Blameless(conf, c, s) /\ FailuresHaveACause
-----------------------------------------------------------------------------
(* Records in front of a sequence.                                         *)

Cons(x, t) == <<x>> \o t

LEMMA ConsSeq ==
    ASSUME NEW x, NEW t, IsSeq(t)
    PROVE  /\ IsSeq(Cons(x, t)) /\ Cons(x, t) # <<>>
           /\ Head(Cons(x, t)) = x /\ Tail(Cons(x, t)) = t
  <1>1. PICK S : t \in Seq(S)
    BY DEF IsSeq
  <1> DEFINE T == S \cup {x}
  <1>2. t \in Seq(T) /\ x \in T /\ <<x>> \in Seq(T)
    BY <1>1, SeqMonotonic, S \subseteq T
  <1> HIDE DEF T
  <1> DEFINE b == <<x>> \o t
  <1>3. /\ b \in Seq(T) /\ Len(b) = 1 + Len(t) /\ b[1] = x
        /\ \A i \in 1 .. Len(t) : b[i + 1] = t[i]
    BY <1>2, ConcatProperties
  <1>4. Len(t) \in Nat /\ t \in [1 .. Len(t) -> T]
    BY <1>2, LenProperties
  <1> HIDE DEF b
  <1>5. b # <<>> /\ Head(b) = x
    BY <1>3, <1>4, EmptySeq, HeadTailProperties
  <1>6. /\ Tail(b) \in Seq(T) /\ Len(Tail(b)) = Len(t)
        /\ \A i \in 1 .. Len(t) : Tail(b)[i] = b[i + 1]
    BY <1>3, <1>4, <1>5, HeadTailProperties
  <1>7. Tail(b) = t
    BY <1>2, <1>3, <1>4, <1>6, SeqEqual
  <1> QED
    BY <1>3, <1>5, <1>7 DEF b, IsSeq, Cons

LEMMA AppendCons ==
    ASSUME NEW t, NEW x, NEW d, IsSeq(t), IsSeq(d)
    PROVE  Append(t, x) \o d = t \o Cons(x, d)
  <1>1. PICK S : t \in Seq(S)
    BY DEF IsSeq
  <1>2. PICK R : d \in Seq(R)
    BY DEF IsSeq
  <1> DEFINE T == S \cup {x} \cup R
  <1>3. t \in Seq(T) /\ d \in Seq(T) /\ x \in T /\ <<x>> \in Seq(T)
    BY <1>1, <1>2, SeqMonotonic, S \subseteq T, R \subseteq T
  <1> HIDE DEF T
  <1>4. t \o <<x>> = Append(t, x)
    BY <1>3, AppendIsConcat
  <1> QED
    BY <1>3, <1>4, ConcatAssociative DEF Cons

\* Sequence w is t and then x.
Appended(w, t, x) == w = Append(t, x)

LEMMA AppendThen ==
    ASSUME NEW t, NEW x, NEW d, NEW w, IsSeq(t), IsSeq(d), Appended(w, t, x)
    PROVE  IsSeq(w) /\ w \o d = t \o Cons(x, d)
  BY AppendCons, RecsAppend DEF Appended

LEMMA EmptyConcat ==
    /\ IsSeq(<<>>)
    /\ \A t : IsSeq(t) => t \o <<>> = t /\ <<>> \o t = t
    /\ \A x : IsSeq(<<x>>) /\ Cons(x, <<>>) = <<x>> /\ Append(<<>>, x) = <<x>>
  <1>1. IsSeq(<<>>)
    BY EmptySeq DEF IsSeq
  <1>2. ASSUME NEW t, IsSeq(t) PROVE t \o <<>> = t /\ <<>> \o t = t
    BY <1>2, ConcatEmptySeq DEF IsSeq
  <1>3. ASSUME NEW x PROVE IsSeq(<<x>>)
    <2>1. <<x>> \in Seq({x})
      OBVIOUS
    <2> QED
      BY <2>1 DEF IsSeq
  <1>4. ASSUME NEW x PROVE Cons(x, <<>>) = <<x>>
    <2> DEFINE u == <<x>>
    <2>1. IsSeq(u)
      BY <1>3
    <2> HIDE DEF u
    <2>2. u \o <<>> = u
      BY <1>2, <2>1
    <2> QED
      BY <2>2 DEF Cons, u
  <1>5. ASSUME NEW x PROVE Append(<<>>, x) = <<x>>
    OBVIOUS
  <1> QED
    BY <1>1, <1>2, <1>3, <1>4, <1>5

LEMMA HeadConcat ==
    ASSUME NEW t, NEW u, IsSeq(t), IsSeq(u), t # <<>>
    PROVE  /\ t \o u # <<>> /\ Head(t \o u) = Head(t)
           /\ IsSeq(Tail(t)) /\ Tail(t \o u) = Tail(t) \o u
  <1>1. PICK S : t \in Seq(S)
    BY DEF IsSeq
  <1> DEFINE x == Head(t)
             w == Tail(t)
  <1>2. x \in S /\ w \in Seq(S) /\ t = <<x>> \o w
    <2>1. /\ Head(t) \in S /\ Tail(t) \in Seq(S) /\ Len(Tail(t)) = Len(t) - 1
          /\ \A i \in 1 .. Len(Tail(t)) : Tail(t)[i] = t[i + 1]
          /\ Head(t) = t[1] /\ Len(t) \in Nat \ {0}
      BY <1>1, HeadTailProperties, EmptySeq, LenProperties
    <2> DEFINE b == <<x>> \o w
    <2>2. /\ b \in Seq(S) /\ Len(b) = 1 + Len(w) /\ b[1] = x
          /\ \A i \in 1 .. Len(w) : b[i + 1] = w[i]
      <3>1. <<x>> \in Seq(S) /\ Len(<<x>>) = 1 /\ <<x>>[1] = x
        BY <2>1
      <3> QED
        BY <2>1, <3>1, ConcatProperties
    <2> HIDE DEF b
    <2>3. \A i \in 1 .. Len(t) : b[i] = t[i]
      <3> TAKE i \in 1 .. Len(t)
      <3>1. CASE i = 1
        BY <2>1, <2>2, <3>1
      <3>2. CASE i # 1
        <4>1. i - 1 \in 1 .. Len(w) /\ i = (i - 1) + 1
          BY <2>1, <3>2
        <4> QED
          BY <2>1, <2>2, <4>1
      <3> QED
        BY <3>1, <3>2
    <2>4. b = t
      BY <1>1, <2>1, <2>2, <2>3, SeqEqual
    <2> QED
      BY <2>1, <2>4 DEF b
  <1> HIDE DEF x, w
  <1>3. IsSeq(w)
    BY <1>2 DEF IsSeq
  <1>4. t \o u = Cons(x, w \o u)
    <2>1. PICK R : u \in Seq(R)
      BY DEF IsSeq
    <2> DEFINE T == S \cup R
    <2>2. <<x>> \in Seq(T) /\ w \in Seq(T) /\ u \in Seq(T)
      <3>1. S \subseteq T /\ R \subseteq T
        OBVIOUS
      <3>2. w \in Seq(T) /\ u \in Seq(T) /\ x \in T
        BY <1>2, <2>1, <3>1, SeqMonotonic
      <3> HIDE DEF T
      <3> QED
        BY <3>2
    <2> HIDE DEF T
    <2> QED
      BY <1>2, <2>2, ConcatAssociative DEF Cons
  <1>5. IsSeq(w \o u)
    BY <1>3, RecsConcat
  <1> DEFINE v == w \o u
  <1>6. t \o u = Cons(x, v) /\ IsSeq(v)
    BY <1>4, <1>5
  <1> HIDE DEF v
  <1>7. t \o u # <<>> /\ Head(t \o u) = x /\ Tail(t \o u) = v
    BY <1>6, ConsSeq
  <1> QED
    BY <1>3, <1>7 DEF x, w, v

\* What is written after a wire changes nothing about its first record.
LEMMA NextOn ==
    ASSUME NEW ts, NEW u, IsSeq(ts), IsSeq(u), ts # <<>>
    PROVE  /\ IsSeq(Tail(ts)) /\ Tail(ts \o u) = Tail(ts) \o u
           /\ Head(ts \o u) = Head(ts) /\ ts \o u # <<>>
           /\ \A key, m : Comes(key, m, ts) => Comes(key, m, ts \o u)
           /\ \A key : AlertNext(key, ts) => AlertNext(key, ts \o u)
           /\ CCSNext(ts) => CCSNext(ts \o u)
  <1> DEFINE w == ts \o u
  <1>1. /\ w # <<>> /\ Head(w) = Head(ts)
        /\ IsSeq(Tail(ts)) /\ Tail(w) = Tail(ts) \o u
    BY HeadConcat
  <1> HIDE DEF w
  <1> QED
    BY <1>1 DEF w, Comes, AlertNext, CCSNext

\* A record in front is the one that comes.
LEMMA NextCons ==
    ASSUME NEW x, NEW u, IsSeq(u)
    PROVE  /\ IsSeq(Cons(x, u)) /\ Tail(Cons(x, u)) = u /\ Head(Cons(x, u)) = x
           /\ \A key, m : x = hsRec(key, m) => Comes(key, m, Cons(x, u))
           /\ \A key : x.typ = "alert" /\ x.key = key => AlertNext(key, Cons(x, u))
           /\ x.typ = "ccs" => CCSNext(Cons(x, u))
  <1> DEFINE w == Cons(x, u)
  <1>1. /\ IsSeq(w) /\ w # <<>> /\ Head(w) = x /\ Tail(w) = u
    BY ConsSeq
  <1> HIDE DEF w
  <1> QED
    BY <1>1 DEF w, Comes, AlertNext, CCSNext

\* At most one ChangeCipherSpec.
LEMMA CCSParts ==
    ASSUME NEW b, OnlyCCS(b)
    PROVE  /\ IsSeq(b) /\ \A r \in Recs(b) : r.typ = "ccs"
           /\ b # <<>> => CCSNext(b) /\ Tail(b) = <<>>
           /\ \A u : IsSeq(u) => \/ b = <<>> /\ b \o u = u
                                 \/ CCSNext(b \o u) /\ Tail(b \o u) = u
  <1>1. CASE b = <<>>
    BY <1>1, EmptyConcat, RecsShort
  <1>2. CASE b # <<>>
    <2> DEFINE x == b[1]
    <2>1. b = <<x>> /\ x.typ = "ccs"
      BY <1>2 DEF OnlyCCS
    <2> HIDE DEF x
    <2>2. IsSeq(b) /\ b = Cons(x, <<>>)
      BY <2>1, EmptyConcat
    <2>3. \A r \in Recs(b) : r.typ = "ccs"
      BY <2>1 DEF Recs
    <2>4. CCSNext(b) /\ Tail(b) = <<>>
      BY <2>1, <2>2, NextCons, EmptyConcat
    <2>5. ASSUME NEW u, IsSeq(u) PROVE CCSNext(b \o u) /\ Tail(b \o u) = u
      <3>1. b \o u = Cons(x, u)
        BY <2>1 DEF Cons
      <3> QED
        BY <2>1, <2>5, <3>1, NextCons
    <2> QED
      BY <2>2, <2>3, <2>4, <2>5
  <1> QED
    BY <1>1, <1>2

\* What the client finds, it still finds when more is written, or when the
\* server has failed since.
LEMMA FedServerOn ==
    ASSUME NEW k, NEW psk, NEW key, NEW t, NEW ts, NEW u, IsSeq(ts), IsSeq(u)
    PROVE  /\ FedFin(key, t, ts) => FedFin(key, t, ts \o u)
           /\ FedVerify(key, t, ts) => FedVerify(key, t, ts \o u)
           /\ FedCert(key, t, ts) => FedCert(key, t, ts \o u)
           /\ FedServer(k, psk, key, t, ts) => FedServer(k, psk, key, t, ts \o u)
  <1>1. ASSUME NEW t1, NEW w, IsSeq(w), FedFin(key, t1, w)
        PROVE  FedFin(key, t1, w \o u)
    <2>1. w # <<>>
      BY <1>1 DEF FedFin, Comes
    <2> QED
      BY <1>1, <2>1, NextOn DEF FedFin
  <1>2. ASSUME NEW t1, NEW w, IsSeq(w), FedVerify(key, t1, w)
        PROVE  FedVerify(key, t1, w \o u)
    <2> DEFINE m == Signed("server", "server", t1)
               v == w \o u
    <2>1. Comes(key, m, w) /\ FedFin(key, Append(t1, Digest(m)), Tail(w))
      BY <1>2 DEF FedVerify
    <2> HIDE DEF m
    <2>2. w # <<>>
      BY <2>1 DEF Comes
    <2>3. IsSeq(Tail(w)) /\ Tail(v) = Tail(w) \o u /\ Comes(key, m, v)
      BY <1>2, <2>1, <2>2, NextOn
    <2> HIDE DEF v
    <2>4. FedFin(key, Append(t1, Digest(m)), Tail(v))
      BY <1>1, <2>1, <2>3
    <2> QED
      BY <2>3, <2>4 DEF FedVerify, m, v
  <1>3. ASSUME NEW t1, NEW w, IsSeq(w), FedCert(key, t1, w)
        PROVE  FedCert(key, t1, w \o u)
    <2> DEFINE v == w \o u
    <2>1. /\ Comes(key, ServerCert, w)
          /\ FedVerify(key, Append(t1, Digest(ServerCert)), Tail(w))
      BY <1>3 DEF FedCert
    <2>2. w # <<>>
      BY <2>1 DEF Comes
    <2>3. IsSeq(Tail(w)) /\ Tail(v) = Tail(w) \o u /\ Comes(key, ServerCert, v)
      BY <1>3, <2>1, <2>2, NextOn
    <2> HIDE DEF v
    <2>4. FedVerify(key, Append(t1, Digest(ServerCert)), Tail(v))
      BY <1>2, <2>1, <2>3
    <2> QED
      BY <2>3, <2>4 DEF FedCert, v
  <1>4. ASSUME NEW t1, NEW w, IsSeq(w), FedRequest(key, t1, w)
        PROVE  FedRequest(key, t1, w \o u)
    <2> DEFINE v == w \o u
    <2>1. /\ Comes(key, RequestMsg, w)
          /\ FedCert(key, Append(t1, Digest(RequestMsg)), Tail(w))
      BY <1>4 DEF FedRequest
    <2>2. w # <<>>
      BY <2>1 DEF Comes
    <2>3. IsSeq(Tail(w)) /\ Tail(v) = Tail(w) \o u /\ Comes(key, RequestMsg, v)
      BY <1>4, <2>1, <2>2, NextOn
    <2> HIDE DEF v
    <2>4. FedCert(key, Append(t1, Digest(RequestMsg)), Tail(v))
      BY <1>3, <2>1, <2>3
    <2> QED
      BY <2>3, <2>4 DEF FedRequest, v
  <1>5. FedServer(k, psk, key, t, ts) => FedServer(k, psk, key, t, ts \o u)
    BY <1>1, <1>3, <1>4 DEF FedServer
  <1> QED
    BY <1>1, <1>2, <1>3, <1>5

LEMMA FedParamsOn ==
    ASSUME NEW k, NEW d, NEW psk, NEW key, NEW t, NEW ts, NEW u,
           IsSeq(ts), IsSeq(u), FedParams(k, d, psk, key, t, ts)
    PROVE  FedParams(k, TRUE, psk, key, t, ts \o u)
  <1> DEFINE v == ts \o u
             m == Head(ts).msg
  <1>1. ts # <<>>
    BY DEF FedParams, Extensions, AlertNext, Comes
  <1>2. /\ IsSeq(Tail(ts)) /\ Tail(v) = Tail(ts) \o u /\ Head(v) = Head(ts)
        /\ \A n : Comes(key, n, ts) => Comes(key, n, v)
        /\ AlertNext(key, ts) => AlertNext(key, v)
    BY <1>1, NextOn
  <1>3. Head(v).msg = m
    BY <1>2
  <1> HIDE DEF v, m
  <1>4. CASE AlertNext(key, ts)
    BY <1>2, <1>4 DEF FedParams, v
  <1>5. CASE Extensions(k, psk, key, t, m, ts)
    <2>1. FedServer(k, psk, key, Append(t, Digest(m)), Tail(ts))
      BY <1>5 DEF Extensions
    <2>2. FedServer(k, psk, key, Append(t, Digest(m)), Tail(v))
      BY <1>2, <2>1, FedServerOn
    <2>3. Extensions(k, psk, key, t, m, v)
      BY <1>2, <1>5, <2>2 DEF Extensions
    <2> QED
      BY <1>3, <2>3 DEF FedParams, v
  <1> QED
    BY <1>4, <1>5 DEF FedParams, m

LEMMA FedKeyedOn ==
    ASSUME NEW k, NEW d, NEW psk, NEW key, NEW t, NEW ts, NEW u,
           IsSeq(ts), IsSeq(u), FedKeyed(k, d, psk, key, t, ts)
    PROVE  FedKeyed(k, TRUE, psk, key, t, ts \o u)
  <1> DEFINE v == ts \o u
  <1>1. CASE FedParams(k, d, psk, key, t, ts)
    BY <1>1, FedParamsOn DEF FedKeyed
  <1>2. CASE CCSNext(ts) /\ FedParams(k, d, psk, key, t, Tail(ts))
    <2>1. ts # <<>>
      BY <1>2 DEF CCSNext
    <2>2. IsSeq(Tail(ts)) /\ Tail(v) = Tail(ts) \o u /\ CCSNext(v)
      BY <1>2, <2>1, NextOn
    <2> HIDE DEF v
    <2>3. FedParams(k, TRUE, psk, key, t, Tail(v))
      BY <1>2, <2>2, FedParamsOn
    <2> QED
      BY <2>2, <2>3 DEF FedKeyed, v
  <1> QED
    BY <1>1, <1>2 DEF FedKeyed

LEMMA FedHelloOn ==
    ASSUME NEW k, NEW d, NEW p, NEW in, NEW ts, NEW u,
           IsSeq(ts), IsSeq(u), FedHello(k, d, p, in, ts)
    PROVE  FedHello(k, TRUE, p, in, ts \o u)
  <1> DEFINE v == ts \o u
             sh == Head(ts).msg
  <1>1. ts # <<>>
    BY DEF FedHello, Answer, AlertNext, Comes
  <1>2. /\ IsSeq(Tail(ts)) /\ Tail(v) = Tail(ts) \o u /\ Head(v) = Head(ts)
        /\ \A n : Comes(None, n, ts) => Comes(None, n, v)
        /\ AlertNext(None, ts) => AlertNext(None, v)
    BY <1>1, NextOn
  <1>3. Head(v).msg = sh
    BY <1>2
  <1> HIDE DEF v, sh
  <1>4. CASE AlertNext(None, ts)
    BY <1>2, <1>4 DEF FedHello, v
  <1>5. CASE Answer(k, d, p, in, sh, ts)
    <2> DEFINE t == Append(Greeted(p), Digest(sh))
               x == SecretOf(p.session, p.hello, sh)
    <2>1. FedKeys(k, d, x, sh.psk, in, t, Tail(ts))
      BY <1>5 DEF Answer
    <2> HIDE DEF t, x
    <2>2. in = clientKey(x, t) /\ FedKeyed(k, d, sh.psk, ServerKey(x, t), t, Tail(ts))
      BY <2>1 DEF FedKeys
    <2>3. FedKeyed(k, TRUE, sh.psk, ServerKey(x, t), t, Tail(v))
      BY <1>2, <2>2, FedKeyedOn
    <2>4. FedKeys(k, TRUE, x, sh.psk, in, t, Tail(v))
      BY <2>2, <2>3 DEF FedKeys
    <2>5. Answer(k, TRUE, p, in, sh, v)
      BY <1>2, <1>5, <2>4 DEF Answer, t, x
    <2> QED
      BY <1>3, <2>5 DEF FedHello, v
  <1> QED
    BY <1>4, <1>5 DEF FedHello, sh

LEMMA FedAgainOn ==
    ASSUME NEW k, NEW d, NEW p, NEW in, NEW ts, NEW u,
           IsSeq(ts), IsSeq(u), FedAgain(k, d, p, in, ts)
    PROVE  FedAgain(k, TRUE, p, in, ts \o u)
  <1> DEFINE v == ts \o u
  <1>1. CASE FedHello(k, d, p, in, ts)
    BY <1>1, FedHelloOn DEF FedAgain
  <1>2. CASE CCSNext(ts) /\ FedHello(k, d, p, in, Tail(ts))
    <2>1. ts # <<>>
      BY <1>2 DEF CCSNext
    <2>2. IsSeq(Tail(ts)) /\ Tail(v) = Tail(ts) \o u /\ CCSNext(v)
      BY <1>2, <2>1, NextOn
    <2> HIDE DEF v
    <2>3. FedHello(k, TRUE, p, in, Tail(v))
      BY <1>2, <2>2, FedHelloOn
    <2> QED
      BY <2>2, <2>3 DEF FedAgain, v
  <1> QED
    BY <1>1, <1>2 DEF FedAgain

LEMMA FeedsOn ==
    ASSUME NEW k, NEW d, NEW p, NEW in, NEW ts, NEW u,
           IsSeq(ts), IsSeq(u), Feeds(k, d, p, in, ts)
    PROVE  Feeds(k, TRUE, p, in, ts \o u)
  <1> DEFINE v == ts \o u
  <1>1. ASSUME NEW x, NEW psk, NEW t, FedKeys(k, d, x, psk, in, t, ts)
        PROVE  FedKeys(k, TRUE, x, psk, in, t, v)
    BY <1>1, FedKeyedOn DEF FedKeys
  <1>2. p.pc = "serverHello" => FedHello(k, TRUE, p, in, v)
    BY FedHelloOn DEF Feeds
  <1>3. p.pc = "secondServerHello" => FedAgain(k, TRUE, p, in, v)
    BY FedAgainOn DEF Feeds
  <1>4. p.pc = "serverParameters" => FedKeyed(k, TRUE, p.usingPSK, p.in, p.transcript, v)
    BY FedKeyedOn DEF Feeds
  <1>5. p.pc = "serverCertificate" =>
          \/ p.certReq = FALSE /\ FedServer(k, p.usingPSK, p.in, p.transcript, v)
          \/ ~p.usingPSK /\ FedCert(p.in, p.transcript, v)
    BY FedServerOn DEF Feeds
  <1>6. p.pc = "certificateVerify" => FedVerify(p.in, p.transcript, v)
    BY FedServerOn DEF Feeds
  <1>7. p.pc = "serverFinished" => FedFin(p.in, p.transcript, v)
    BY FedServerOn DEF Feeds
  <1> HIDE DEF v
  <1>8. Feeds(k, TRUE, p, in, v)
    BY <1>1, <1>2, <1>3, <1>4, <1>5, <1>6, <1>7 DEF Feeds
  <1> QED
    BY <1>8 DEF v

\* The description of a client holds of one that differs in its cache only.
LEMMA DeliveredSame ==
    ASSUME NEW k, NEW x, NEW r, NEW q, NEW ts, NEW tc, Keeps(r, x, {"cache"}),
           Delivered(k, x, q, ts, tc)
    PROVE  Delivered(k, r, q, ts, tc)
  <1>1. /\ r.pc = x.pc /\ r.session = x.session /\ r.hello = x.hello
        /\ r.serverHello = x.serverHello /\ r.suite = x.suite
        /\ r.usingPSK = x.usingPSK /\ r.transcript = x.transcript
        /\ r.in = x.in /\ r.out = x.out /\ r.app = x.app
        /\ r.certReq = x.certReq /\ r.peerCerts = x.peerCerts
        /\ r.buffering = x.buffering /\ r.sendBuf = x.sendBuf
    BY DEF Keeps, ConnFields
  <1>2. Greeted(r) = Greeted(x)
    BY <1>1 DEF Greeted
  <1>3. \A d, in, t : FedHello(k, d, r, in, t) <=> FedHello(k, d, x, in, t)
    BY <1>1, <1>2 DEF FedHello, Answer
  <1>4. \A d, in, t : FedAgain(k, d, r, in, t) <=> FedAgain(k, d, x, in, t)
    BY <1>3 DEF FedAgain
  <1>5. Unsent(k, r) <=> Unsent(k, x)
    BY <1>1 DEF Unsent, Asks
  <1>6. Idle(r) <=> Idle(x)
    BY <1>1 DEF Idle
  <1>7. Feeds(k, q.pc = "failed", r, q.in, tc)
    BY <1>1, <1>3, <1>4 DEF Feeds, Delivered
  <1> QED
    BY <1>1, <1>5, <1>6, <1>7 DEF Delivered

-----------------------------------------------------------------------------
(* The client's steps.                                                     *)

\* The property in these terms, now and after a step.
CausesHold(k, p, q) ==
    /\ p.err # None => ClientFault(k, p.err, q)
    /\ q.err # None => ServerFault(k, q.err, p)

LEMMA CausesForm ==
    /\ FailuresHaveACause <=> CausesHold(conf, c, s)
    /\ FailuresHaveACause' <=> CausesHold(conf', c', s')
  <1>1. FailuresHaveACause <=> CausesHold(conf, c, s)
    BY DEF FailuresHaveACause, CausesHold, ClientFault, ServerFault, Groups,
           Protos, Refused, CommonGroup, CommonProtocol, Unacceptable
  <1> DEFINE k == conf'
             p == c'
             q == s'
  <1>2. (FailuresHaveACause)' <=> CausesHold(k, p, q)
    BY DEF FailuresHaveACause, CausesHold, ClientFault, ServerFault, Groups,
           Protos, Refused, CommonGroup, CommonProtocol, Unacceptable
  <1> QED
    BY <1>1, <1>2

\* One end goes on, or fails for a reason; what the other has reported stands.
LEMMA ClientBlameless ==
    ASSUME NEW k, NEW p, NEW q, Blameless(k, p, q), p.pc # "failed",
           NEW r, r.session = p.session,
           \/ r.pc # "failed" /\ r.err = None
           \/ r.pc = "failed" /\ ClientFault(k, r.err, q)
    PROVE  Blameless(k, r, q)
  <1>1. ServerFault(k, q.err, p) => ServerFault(k, q.err, r)
    BY DEF ServerFault
  <1> QED
    BY <1>1 DEF Blameless

LEMMA ServerBlameless ==
    ASSUME NEW k, NEW p, NEW q, Blameless(k, p, q), q.pc # "failed", NEW r,
           \/ r.pc # "failed" /\ r.err = None
           \/ r.pc = "failed" /\ ServerFault(k, r.err, p)
    PROVE  Blameless(k, p, r)
  <1>1. ClientFault(k, p.err, q) => ClientFault(k, p.err, r)
    BY DEF ClientFault
  <1> QED
    BY <1>1 DEF Blameless

LEMMA ClientCauses ==
    ASSUME FailuresHaveACause, c.pc # "failed", conf' = conf, s' = s,
           c'.session = c.session,
           c'.err = None \/ ClientFault(conf, c'.err, s)
    PROVE  FailuresHaveACause'
  <1> DEFINE p == c'
  <1>1. p.session = c.session /\ (p.err = None \/ ClientFault(conf, p.err, s))
    OBVIOUS
  <1>2. s.err # None => ServerFault(conf, s.err, c)
    BY CausesForm DEF CausesHold
  <1> HIDE DEF p
  <1>3. s.err # None => ServerFault(conf, s.err, p)
    BY <1>1, <1>2 DEF ServerFault
  <1>4. CausesHold(conf, p, s)
    BY <1>1, <1>3 DEF CausesHold
  <1> QED
    BY <1>4, CausesForm DEF p

LEMMA AlertParts ==
    ASSUME NEW x, NEW a, DOMAIN x = ConnFields
    PROVE  /\ Keeps(Alert(x, a), x, {"pc", "err", "buffering", "sendBuf"})
           /\ Alert(x, a).pc = "failed" /\ Alert(x, a).err = a
           /\ Alert(x, a).sendBuf =
                Append(x.sendBuf, [typ |-> "alert", key |-> x.out,
                                   msg |-> [type |-> a]])
           /\ Alert(x, a).buffering <=>
                (x.buffering /\ Alert(x, a).sendBuf = <<>>)
  <1> DEFINE rec == [typ |-> "alert", key |-> x.out, msg |-> [type |-> a]]
             y == Send(x, "alert", [type |-> a])
  <1>1. Keeps(y, x, {"sendBuf"}) /\ y.sendBuf = Append(x.sendBuf, rec)
    BY SendKeeps
  <1> HIDE DEF y
  <1>2. DOMAIN y = ConnFields /\ y.buffering = x.buffering
    BY <1>1 DEF Keeps, ConnFields
  <1> DEFINE r == Return(y, a)
  <1>3. /\ Keeps(r, y, {"pc", "err", "buffering"}) /\ r.pc = "failed" /\ r.err = a
        /\ r.buffering <=> (y.buffering /\ y.sendBuf = <<>>)
    BY <1>2 DEF Return, Keeps, ConnFields
  <1>4. r = Alert(x, a)
    BY DEF Alert, y
  <1> HIDE DEF r
  <1>5. r.sendBuf = y.sendBuf
    BY <1>3 DEF Keeps, ConnFields
  <1> QED
    BY <1>1, <1>2, <1>3, <1>4, <1>5 DEF Keeps

LEMMA Receives ==
    ASSUME NEW x, NEW ts, NEW types, DOMAIN x = ConnFields, x.pc # "failed"
    PROVE  /\ AlertNext(x.in, ts) =>
                Receive(x, Head(ts), types) = Return(x, "remote")
           /\ \A m : Comes(x.in, m, ts) /\ m.type \in types =>
                Receive(x, Head(ts), types) = x /\ Head(ts).msg = m
  <1>1. ASSUME AlertNext(x.in, ts)
        PROVE  Receive(x, Head(ts), types) = Return(x, "remote")
    <2> DEFINE r == Return(x, "remote")
    <2>1. r.pc = "failed"
      BY ReturnKeeps
    <2>2. Opened(x, Head(ts)) = r
      BY <1>1 DEF Opened, AlertNext
    <2> HIDE DEF r
    <2> QED
      BY <2>1, <2>2 DEF Receive, Then, r
  <1>2. ASSUME NEW m, Comes(x.in, m, ts), m.type \in types
        PROVE  Receive(x, Head(ts), types) = x /\ Head(ts).msg = m
    <2> DEFINE rec == Head(ts)
    <2>1. rec.typ = "handshake" /\ rec.key = x.in /\ rec.msg = m
      BY <1>2 DEF Comes, hsRec
    <2> HIDE DEF rec
    <2>2. Opened(x, rec) = x
      BY <2>1 DEF Opened
    <2>3. Receive(x, rec, types) = x
      BY <1>2, <2>1, <2>2 DEF Receive, Then
    <2> QED
      BY <2>1, <2>3 DEF rec
  <1> QED
    BY <1>1, <1>2

\* What is known of a client that reads the server's flight.
InFlightNow ==
    /\ Delivered(conf, c, s, toServer, toClient) /\ toServer = <<>>
    /\ c.err = None /\ c.pc # "failed"
    /\ c.pc \in ReadsFlight /\ (s.pc # "failed" => Awaits(conf, s))
    /\ DOMAIN c = ConnFields /\ IsSeq(c.sendBuf) /\ IsSeq(c.transcript)
    /\ IsSeq(toClient)

LEMMA WiresNow ==
    ASSUME AgreeInv, TicketInv
    PROVE  /\ DOMAIN c = ConnFields /\ IsSeq(c.sendBuf) /\ IsSeq(c.transcript)
           /\ IsSeq(toClient) /\ IsSeq(toServer) /\ IsSeq(s.sendBuf)
           /\ DOMAIN s = ConnFields /\ IsSeq(s.transcript)
  <1>1. DOMAIN c = ConnFields /\ IsSeq(c.sendBuf) /\ IsSeq(c.transcript)
    BY ToldNow
  <1>2. DOMAIN s = ConnFields /\ IsSeq(s.transcript)
    BY ConnSeq DEF AgreeInv, ServerState
  <1> QED
    BY <1>1, <1>2 DEF TicketInv, TicketWire, SaidOn, ServerBuf

LEMMA FlightNow ==
    ASSUME AgreeInv, TicketInv, CauseInv,
           \/ c.pc \in ReadsFlight \ {"serverHello", "secondServerHello"}
           \/ Delivered(conf, c, s, toServer, toClient)
    PROVE  InFlightNow
  <1>1. c.pc \in ReadsFlight
    BY DEF Delivered
  <1>2. Delivered(conf, c, s, toServer, toClient)
    <2>1. SUFFICES ASSUME c.pc \in ReadsFlight \ {"serverHello", "secondServerHello"}
                   PROVE  Delivered(conf, c, s, toServer, toClient)
      OBVIOUS
    <2>2. /\ c.pc # "clientHandshake" /\ c.pc # "serverHello"
          /\ c.pc # "helloRetryRequest" /\ c.pc # "secondServerHello"
          /\ c.pc # "done" /\ c.pc # "failed"
      BY <2>1 DEF ReadsFlight, KeysSet
    <2>3. c # NewConn("clientHandshake", conf.session)
      BY <2>2 DEF NewConn
    <2> QED
      BY <2>2, <2>3 DEF CauseInv, Stage, Starting, Greeting, Greets, Retried,
         Retrying, Regreeting, Regreets, Answering, Completing, Refusing
  <1>3. c.pc # "failed" /\ c.err = None
    BY <1>1 DEF CauseInv, Blameless, ReadsFlight, KeysSet
  <1> QED
    BY <1>1, <1>2, <1>3, WiresNow DEF InFlightNow, Delivered

\* The client goes on reading.
ReadsOn(r) ==
    /\ DOMAIN r = ConnFields /\ r.session = c.session /\ r.err = None
    /\ r.buffering = TRUE \/ r.sendBuf = <<>>
    /\ Delivered(conf, r, s, <<>>, toClient') /\ ClientBecomes(r)

LEMMA ClientReadsOn ==
    ASSUME CauseInv, toServer = <<>>, c.pc # "failed", NEW r, ReadsOn(r)
    PROVE  CauseInv'
  <1>1. Kept(r) = r.sendBuf /\ Passed(r) = <<>>
    BY DEF ReadsOn, Kept, Passed
  <1>2. /\ Keeps(c', r, {"cache"}) /\ s' = s /\ conf' = conf
        /\ toServer' = <<>> \o <<>>
    BY <1>1 DEF ReadsOn, ClientBecomes, Keeps, ConnFields
  <1>3. toServer' = <<>>
    BY <1>2, EmptyConcat
  <1>4. Delivered(conf, c', s, <<>>, toClient')
    BY <1>2, DeliveredSame DEF ReadsOn
  <1>5. c'.err = None /\ c'.session = c.session /\ c'.pc # "failed"
    BY <1>2 DEF ReadsOn, Keeps, ConnFields, Delivered, ReadsFlight, KeysSet
  <1>6. FailuresHaveACause'
    BY <1>2, <1>5, ClientCauses DEF CauseInv
  <1>7. Blameless(conf, c', s)
    BY <1>5, ClientBlameless DEF CauseInv
  <1> DEFINE d == c'
             tc == toClient'
             tv == toServer'
  <1>8. Stage(conf, d, s, tv, tc)
    BY <1>3, <1>4 DEF Stage
  <1> QED
    BY <1>2, <1>6, <1>7, <1>8 DEF CauseInv

\* The client fails.
Quits(r) ==
    /\ DOMAIN r = ConnFields /\ r.pc = "failed" /\ r.session = c.session
    /\ ClientFault(conf, r.err, s) /\ IsSeq(r.sendBuf)
    /\ s.pc # "failed" =>
          /\ Awaits(conf, s) /\ \A x \in Recs(r.sendBuf) : Excuse(s, x)
          /\ r.err # "getClientCertificate" =>
                Alerted(r.sendBuf) /\ ~r.buffering
    /\ ClientBecomes(r)

LEMMA ClientQuits ==
    ASSUME CauseInv, toServer = <<>>, c.pc # "failed", NEW r, Quits(r)
    PROVE  CauseInv'
  <1>1. Passed(r) = <<>> \/ Passed(r) = r.sendBuf
    BY DEF Passed
  <1>2. /\ Keeps(c', r, {"cache", "sendBuf"}) /\ s' = s /\ conf' = conf
        /\ toServer' = <<>> \o Passed(r)
    BY DEF Quits, ClientBecomes, Keeps, ConnFields
  <1>3. toServer' = Passed(r)
    BY <1>1, <1>2, EmptyConcat DEF Quits
  <1>4. s.pc # "failed" => Awaits(conf, s) /\ \A x \in Recs(toServer') : Excuse(s, x)
    BY <1>1, <1>3, RecsShort DEF Quits
  <1>9. s.pc # "failed" /\ r.err # "getClientCertificate" => Alerted(toServer')
    BY <1>3 DEF Quits, Passed
  <1>5. c'.err = r.err /\ c'.session = c.session /\ c'.pc = "failed"
    BY <1>2 DEF Quits, Keeps, ConnFields
  <1>6. FailuresHaveACause'
    BY <1>2, <1>5, ClientCauses DEF CauseInv, Quits
  <1>7. Blameless(conf, c', s)
    BY <1>5, ClientBlameless DEF CauseInv, Quits
  <1> DEFINE d == c'
             tc == toClient'
             tv == toServer'
  <1>8. Stage(conf, d, s, tv, tc)
    BY <1>4, <1>5, <1>9 DEF Stage, Refusing
  <1> QED
    BY <1>2, <1>6, <1>7, <1>8 DEF CauseInv

\* It reads the server's alert.
LEMMA ReadsRemote ==
    ASSUME CauseInv, InFlightNow, s.pc = "failed",
           ClientBecomes(Return(c, "remote"))
    PROVE  CauseInv'
  <1> DEFINE r == Return(c, "remote")
  <1>1. /\ Keeps(r, c, {"pc", "err", "buffering"})
        /\ r.pc = "failed" /\ r.err = "remote"
    <2>1. DOMAIN c = ConnFields
      BY DEF InFlightNow
    <2> QED
      BY <2>1 DEF Return, Keeps, ConnFields
  <1>2. ClientBecomes(r)
    OBVIOUS
  <1> HIDE DEF r
  <1>3. Quits(r)
    BY <1>1, <1>2 DEF Quits, Keeps, ConnFields, InFlightNow, ClientFault
  <1> QED
    BY <1>3, ClientQuits DEF InFlightNow

\* It has a reason of its own, and the key the server reads with.
LEMMA Refuses ==
    ASSUME CauseInv, InFlightNow, c.pc \in KeysSet \ {"clientFinished"}, NEW x,
           Keeps(x, c, {"transcript"}), NEW a, ClientFault(conf, a, s),
           ClientBecomes(Alert(x, a))
    PROVE  CauseInv'
  <1> DEFINE r == Alert(x, a)
             rec == [typ |-> "alert", key |-> x.out, msg |-> [type |-> a]]
  <1>1. DOMAIN x = ConnFields
    BY DEF Keeps
  <1>2. /\ Keeps(r, x, {"pc", "err", "buffering", "sendBuf"})
        /\ r.pc = "failed" /\ r.err = a /\ r.sendBuf = Append(x.sendBuf, rec)
    BY <1>1, AlertParts
  <1>3. ClientBecomes(r)
    OBVIOUS
  <1>4. rec.typ = "alert" /\ rec.key = x.out
    OBVIOUS
  <1> HIDE DEF r, rec
  <1>5. x.sendBuf = c.sendBuf /\ x.out = s.in /\ x.session = c.session
    BY DEF Keeps, ConnFields, InFlightNow, Delivered
  <1>6. IsSeq(c.sendBuf) /\ \A y \in Recs(c.sendBuf) : y.typ = "ccs"
    BY CCSParts DEF InFlightNow, Delivered
  <1>7. /\ IsSeq(r.sendBuf)
        /\ Recs(r.sendBuf) = Recs(c.sendBuf) \cup {rec}
    BY <1>2, <1>5, <1>6, RecsAppend
  <1>8. \A y \in Recs(r.sendBuf) : Excuse(s, y)
    BY <1>4, <1>5, <1>6, <1>7 DEF Excuse
  <1>9. Alerted(r.sendBuf) /\ ~r.buffering
    <2>1. Alerted(r.sendBuf)
      BY <1>4, <1>7 DEF Alerted
    <2>2. r.sendBuf # <<>>
      BY <1>7, RecsShort
    <2> QED
      BY <1>1, <2>1, <2>2, AlertParts DEF r
  <1>10. Quits(r)
    BY <1>2, <1>3, <1>5, <1>7, <1>8, <1>9 DEF Quits, Keeps, ConnFields, InFlightNow
  <1> QED
    BY <1>10, ClientQuits DEF InFlightNow

\* It goes on with r.
LEMMA ReadingGoes ==
    ASSUME CauseInv, InFlightNow, c.pc \in KeysSet \ {"clientFinished"}, NEW r,
           Keeps(r, c, {"transcript", "proto", "certReq", "peerCerts", "pc",
                        "app", "in"}),
           r.pc \in KeysSet \ {"clientFinished", "serverParameters"},
           Feeds(conf, s.pc = "failed", r, s.in, toClient'), ClientBecomes(r)
    PROVE  CauseInv'
  <1>1. /\ r.out = c.out /\ r.sendBuf = c.sendBuf /\ r.buffering = c.buffering
        /\ r.err = c.err /\ r.session = c.session /\ DOMAIN r = ConnFields
    BY DEF Keeps, ConnFields
  <1>2. /\ c.out = s.in /\ c.buffering = TRUE /\ OnlyCCS(c.sendBuf)
        /\ s.pc # "failed" => Awaits(conf, s)
    BY DEF InFlightNow, Delivered
  <1>3. Delivered(conf, r, s, <<>>, toClient')
    BY <1>1, <1>2 DEF Delivered, ReadsFlight, KeysSet
  <1>4. ReadsOn(r)
    BY <1>1, <1>2, <1>3 DEF ReadsOn, InFlightNow
  <1> QED
    BY <1>4, ClientReadsOn DEF InFlightNow

LEMMA ReadParametersGoes ==
    ASSUME AgreeInv, TicketInv, CauseInv, readServerParameters
    PROVE  CauseInv'
  <1> DEFINE rec == Head(toClient)
             m == rec.msg
             g == Receive(c, rec, {"encryptedExtensions"})
             h == Hashed(c, m)
             r == [h EXCEPT !.proto = m.alpn, !.pc = "serverCertificate"]
  <1>1. /\ c.pc = "serverParameters" /\ rec.typ # "ccs"
        /\ \/ ClientBecomes(g) /\ g.pc = "failed"
           \/ /\ g.pc # "failed"
              /\ checkALPN(conf.clientProtos, m.alpn) =>
                   ClientBecomes([Hashed(g, m) EXCEPT !.proto = m.alpn,
                                               !.pc = "serverCertificate"])
        /\ toClient' = Tail(toClient)
    BY DEF readServerParameters, ClientReads, Then
  <1>2. c.pc \in ReadsFlight \ {"serverHello", "secondServerHello"}
    BY <1>1 DEF ReadsFlight, KeysSet
  <1>3. InFlightNow
    BY <1>2, FlightNow
  <1>4. DOMAIN c = ConnFields /\ IsSeq(c.transcript) /\ c.pc # "failed"
    BY <1>3 DEF InFlightNow
  <1>5. FedParams(conf, s.pc = "failed", c.usingPSK, c.in, c.transcript, toClient)
    BY <1>1, <1>3 DEF InFlightNow, Delivered, Feeds, FedKeyed, CCSNext
  <1>6. CASE s.pc = "failed" /\ AlertNext(c.in, toClient)
    <2>1. g = Return(c, "remote")
      BY <1>4, <1>6, Receives
    <2>2. g.pc = "failed"
      BY <2>1, <1>4, ReturnKeeps
    <2>3. ClientBecomes(g)
      BY <1>1, <2>2
    <2> HIDE DEF g
    <2> QED
      BY <1>3, <1>6, <2>1, <2>3, ReadsRemote
  <1>7. CASE Extensions(conf, c.usingPSK, c.in, c.transcript, m, toClient)
    <2>1. /\ Comes(c.in, m, toClient) /\ m.type \in {"encryptedExtensions"}
          /\ checkALPN(conf.clientProtos, m.alpn)
          /\ FedServer(conf, c.usingPSK, c.in, Append(c.transcript, Digest(m)),
                       Tail(toClient))
      BY <1>7 DEF Extensions
    <2>2. g = c
      BY <1>4, <2>1, Receives
    <2>3. ClientBecomes(r)
      BY <1>1, <1>4, <2>1, <2>2
    <2> HIDE DEF m
    <2>4. Keeps(h, c, {"transcript"}) /\ h.transcript = Append(c.transcript, Digest(m))
      BY <1>4, HashedKeeps
    <2> HIDE DEF h
    <2>5. /\ Keeps(r, c, {"transcript", "proto", "pc"}) /\ r.pc = "serverCertificate"
          /\ r.transcript = h.transcript
      BY <2>4 DEF Keeps, ConnFields
    <2> HIDE DEF r
    <2>6. r.usingPSK = c.usingPSK /\ r.in = c.in /\ r.certReq = c.certReq
      BY <2>5 DEF Keeps, ConnFields
    <2>7. c.certReq = FALSE
      BY <1>1, <1>3 DEF InFlightNow, Delivered
    <2>8. Feeds(conf, s.pc = "failed", r, s.in, toClient')
      BY <1>1, <2>1, <2>4, <2>5, <2>6, <2>7 DEF Feeds
    <2>9. Keeps(r, c, {"transcript", "proto", "certReq", "peerCerts", "pc",
                       "app", "in"})
      BY <2>5 DEF Keeps
    <2>10. /\ c.pc \in KeysSet \ {"clientFinished"}
           /\ r.pc \in KeysSet \ {"clientFinished", "serverParameters"}
      BY <1>1, <2>5 DEF KeysSet
    <2> QED
      BY <1>3, <2>3, <2>8, <2>9, <2>10, ReadingGoes
  <1> QED
    BY <1>5, <1>6, <1>7 DEF FedParams

LEMMA ResumeGoes ==
    ASSUME AgreeInv, TicketInv, CauseInv, ResumeServerCertificate
    PROVE  CauseInv'
  <1> DEFINE r == [c EXCEPT !.pc = "serverFinished"]
             a == Alert(c, "bad_certificate")
  <1>1. /\ c.pc = "serverCertificate" /\ c.usingPSK
        /\ \/ conf.clientVetoes /\ ClientBecomes(a)
           \/ ClientBecomes(r)
        /\ toClient' = toClient
    BY DEF ResumeServerCertificate, ClientDoes
  <1>2. c.pc \in ReadsFlight \ {"serverHello", "secondServerHello"}
    BY <1>1 DEF ReadsFlight, KeysSet
  <1>3. InFlightNow /\ c.pc \in KeysSet \ {"clientFinished"}
    BY <1>1, <1>2, FlightNow DEF KeysSet
  <1>4. DOMAIN c = ConnFields
    BY <1>3 DEF InFlightNow
  <1>5. CASE conf.clientVetoes /\ ClientBecomes(a)
    <2>1. ClientFault(conf, "bad_certificate", s)
      BY <1>5 DEF ClientFault
    <2>2. Keeps(c, c, {"transcript"})
      BY <1>4 DEF Keeps
    <2> QED
      BY <1>3, <1>5, <2>1, <2>2, Refuses
  <1>6. CASE ClientBecomes(r)
    <2>1. ClientBecomes(r)
      BY <1>6
    <2>2. Keeps(r, c, {"pc"}) /\ r.pc = "serverFinished"
      BY <1>4 DEF Keeps, ConnFields
    <2> HIDE DEF r
    <2>3. r.in = c.in /\ r.transcript = c.transcript
      BY <2>2 DEF Keeps, ConnFields
    <2>4. FedFin(c.in, c.transcript, toClient)
      BY <1>1, <1>3 DEF InFlightNow, Delivered, Feeds, FedServer
    <2>5. Feeds(conf, s.pc = "failed", r, s.in, toClient')
      BY <1>1, <2>2, <2>3, <2>4 DEF Feeds
    <2>6. Keeps(r, c, {"transcript", "proto", "certReq", "peerCerts", "pc",
                       "app", "in"})
      BY <2>2 DEF Keeps
    <2>7. r.pc \in KeysSet \ {"clientFinished", "serverParameters"}
      BY <2>2 DEF KeysSet
    <2> QED
      BY <1>3, <2>1, <2>5, <2>6, <2>7, ReadingGoes
  <1> QED
    BY <1>1, <1>5, <1>6

LEMMA ReadCertificateGoes ==
    ASSUME AgreeInv, TicketInv, CauseInv, readServerCertificate
    PROVE  CauseInv'
  <1> DEFINE rec == Head(toClient)
             m == rec.msg
             types == {"certificate"} \cup
                      IF c.certReq THEN {} ELSE {"certificateRequest"}
             g == Receive(c, rec, types)
             h == Hashed(c, m)
             r1 == [h EXCEPT !.certReq = TRUE]
             r2 == [h EXCEPT !.peerCerts = m.cert, !.pc = "certificateVerify"]
             a == Alert(h, "bad_certificate")
             u == Append(c.transcript, Digest(m))
  <1>1. /\ c.pc = "serverCertificate" /\ ~c.usingPSK
        /\ g.pc # "failed" =>
             /\ m.type = "certificateRequest" =>
                   ClientBecomes([Hashed(g, m) EXCEPT !.certReq = TRUE])
             /\ m.type # "certificateRequest" =>
                 \/ ClientBecomes([Hashed(g, m) EXCEPT !.peerCerts = m.cert,
                                                 !.pc = "certificateVerify"])
                 \/ /\ ~conf.trusts \/ conf.clientVetoes
                    /\ ClientBecomes(Alert(Hashed(g, m), "bad_certificate"))
        /\ toClient' = Tail(toClient)
    BY DEF readServerCertificate, ClientReads, Then
  <1>2. c.pc \in ReadsFlight \ {"serverHello", "secondServerHello"}
    BY <1>1 DEF ReadsFlight, KeysSet
  <1>3. InFlightNow /\ c.pc \in KeysSet \ {"clientFinished"}
    BY <1>1, <1>2, FlightNow DEF KeysSet
  <1>4. DOMAIN c = ConnFields /\ IsSeq(c.transcript) /\ c.pc # "failed"
    BY <1>3 DEF InFlightNow
  <1>5. \/ c.certReq = FALSE /\ FedRequest(c.in, c.transcript, toClient)
        \/ FedCert(c.in, c.transcript, toClient)
    BY <1>1, <1>3 DEF InFlightNow, Delivered, Feeds, FedServer
  <1>6. Keeps(h, c, {"transcript"}) /\ h.transcript = u
    BY <1>4, HashedKeeps
  <1>7. ASSUME NEW n, Comes(c.in, n, toClient), n.type \in types
        PROVE  g = c /\ m = n
    BY <1>4, <1>7, Receives
  <1>8. CASE c.certReq = FALSE /\ FedRequest(c.in, c.transcript, toClient)
    <2>1. /\ Comes(c.in, RequestMsg, toClient)
          /\ FedCert(c.in, Append(c.transcript, Digest(RequestMsg)), Tail(toClient))
      BY <1>8 DEF FedRequest
    <2>2. RequestMsg.type = "certificateRequest" /\ RequestMsg.type \in types
      BY <1>8 DEF RequestMsg
    <2>3. g = c /\ m = RequestMsg
      BY <1>7, <2>1, <2>2
    <2>4. ClientBecomes(r1)
      BY <1>1, <1>4, <2>2, <2>3
    <2>5. FedCert(c.in, u, Tail(toClient))
      BY <2>1, <2>3
    <2> HIDE DEF m, h, u, g, types
    <2>6. /\ Keeps(r1, c, {"transcript", "certReq"}) /\ r1.pc = c.pc
          /\ r1.transcript = u
      BY <1>6 DEF Keeps, ConnFields
    <2> HIDE DEF r1
    <2>7. r1.in = c.in /\ r1.usingPSK = c.usingPSK
      BY <2>6 DEF Keeps, ConnFields
    <2>8. Feeds(conf, s.pc = "failed", r1, s.in, toClient')
      BY <1>1, <2>5, <2>6, <2>7 DEF Feeds
    <2>9. Keeps(r1, c, {"transcript", "proto", "certReq", "peerCerts", "pc",
                        "app", "in"})
      BY <2>6 DEF Keeps
    <2>10. r1.pc \in KeysSet \ {"clientFinished", "serverParameters"}
      BY <1>1, <2>6 DEF KeysSet
    <2> QED
      BY <1>3, <2>4, <2>8, <2>9, <2>10, ReadingGoes
  <1>9. CASE FedCert(c.in, c.transcript, toClient)
    <2>1. /\ Comes(c.in, ServerCert, toClient)
          /\ FedVerify(c.in, Append(c.transcript, Digest(ServerCert)), Tail(toClient))
      BY <1>9 DEF FedCert
    <2>2. /\ ServerCert.type # "certificateRequest" /\ ServerCert.type \in types
          /\ ServerCert.cert = "server"
      BY DEF ServerCert
    <2>3. g = c /\ m = ServerCert
      BY <1>7, <2>1, <2>2
    <2>4. \/ ClientBecomes(r2)
          \/ (~conf.trusts \/ conf.clientVetoes) /\ ClientBecomes(a)
      BY <1>1, <1>4, <2>2, <2>3
    <2>5. FedVerify(c.in, u, Tail(toClient)) /\ m.cert = "server"
      BY <2>1, <2>2, <2>3
    <2> HIDE DEF m, u, g, types
    <2>6. ASSUME ClientBecomes(r2) PROVE CauseInv'
      <3>1. ClientBecomes(r2)
        BY <2>6
      <3> HIDE DEF h
      <3>2. /\ Keeps(r2, c, {"transcript", "peerCerts", "pc"})
            /\ r2.pc = "certificateVerify" /\ r2.transcript = u
            /\ r2.peerCerts = "server"
        BY <1>6, <2>5 DEF Keeps, ConnFields
      <3> HIDE DEF r2
      <3>3. r2.in = c.in
        BY <3>2 DEF Keeps, ConnFields
      <3>4. Feeds(conf, s.pc = "failed", r2, s.in, toClient')
        BY <1>1, <2>5, <3>2, <3>3 DEF Feeds
      <3>5. Keeps(r2, c, {"transcript", "proto", "certReq", "peerCerts", "pc",
                          "app", "in"})
        BY <3>2 DEF Keeps
      <3>6. r2.pc \in KeysSet \ {"clientFinished", "serverParameters"}
        BY <3>2 DEF KeysSet
      <3> QED
        BY <1>3, <3>1, <3>4, <3>5, <3>6, ReadingGoes
    <2>7. ASSUME ~conf.trusts \/ conf.clientVetoes, ClientBecomes(a)
          PROVE  CauseInv'
      <3>1. ClientFault(conf, "bad_certificate", s)
        BY <2>7 DEF ClientFault
      <3> HIDE DEF h
      <3> QED
        BY <1>3, <1>6, <2>7, <3>1, Refuses
    <2> QED
      BY <2>4, <2>6, <2>7
  <1> QED
    BY <1>5, <1>8, <1>9

LEMMA ReadCertificateVerifyGoes ==
    ASSUME AgreeInv, TicketInv, CauseInv, ReadServerCertificateVerify
    PROVE  CauseInv'
  <1> DEFINE rec == Head(toClient)
             m == rec.msg
             g == Receive(c, rec, {"certificateVerify"})
             n == Signed("server", "server", c.transcript)
             h == Hashed(c, n)
             r == [h EXCEPT !.pc = "serverFinished"]
  <1>1. /\ c.pc = "certificateVerify"
        /\ g.pc # "failed" /\ m = Signed("server", g.peerCerts, g.transcript) =>
             ClientBecomes([Hashed(g, m) EXCEPT !.pc = "serverFinished"])
        /\ toClient' = Tail(toClient)
    BY DEF ReadServerCertificateVerify, ClientReads, Then, certificateVerify, Signed
  <1>2. c.pc \in ReadsFlight \ {"serverHello", "secondServerHello"}
    BY <1>1 DEF ReadsFlight, KeysSet
  <1>3. InFlightNow /\ c.pc \in KeysSet \ {"clientFinished"}
    BY <1>1, <1>2, FlightNow DEF KeysSet
  <1>4. DOMAIN c = ConnFields /\ IsSeq(c.transcript) /\ c.pc # "failed"
    BY <1>3 DEF InFlightNow
  <1>5. c.peerCerts = "server" /\ FedVerify(c.in, c.transcript, toClient)
    BY <1>1, <1>3 DEF InFlightNow, Delivered, Feeds
  <1>6. /\ Comes(c.in, n, toClient)
        /\ FedFin(c.in, Append(c.transcript, Digest(n)), Tail(toClient))
    BY <1>5 DEF FedVerify
  <1>7. n.type \in {"certificateVerify"}
    BY DEF Signed
  <1>8. g = c /\ m = n
    BY <1>4, <1>6, <1>7, Receives
  <1>9. ClientBecomes(r)
    BY <1>1, <1>4, <1>5, <1>8
  <1> HIDE DEF n, m, g
  <1>10. Keeps(h, c, {"transcript"}) /\ h.transcript = Append(c.transcript, Digest(n))
    BY <1>4, HashedKeeps
  <1> HIDE DEF h
  <1>11. /\ Keeps(r, c, {"transcript", "pc"}) /\ r.pc = "serverFinished"
         /\ r.transcript = h.transcript
    BY <1>10 DEF Keeps, ConnFields
  <1> HIDE DEF r
  <1>12. r.in = c.in
    BY <1>11 DEF Keeps, ConnFields
  <1>13. Feeds(conf, s.pc = "failed", r, s.in, toClient')
    BY <1>1, <1>6, <1>10, <1>11, <1>12 DEF Feeds
  <1>14. Keeps(r, c, {"transcript", "proto", "certReq", "peerCerts", "pc",
                      "app", "in"})
    BY <1>11 DEF Keeps
  <1>15. r.pc \in KeysSet \ {"clientFinished", "serverParameters"}
    BY <1>11 DEF KeysSet
  <1> QED
    BY <1>3, <1>9, <1>13, <1>14, <1>15, ReadingGoes

LEMMA ReadFinishedGoes ==
    ASSUME AgreeInv, TicketInv, CauseInv, readServerFinished
    PROVE  CauseInv'
  <1> DEFINE rec == Head(toClient)
             m == rec.msg
             g == Receive(c, rec, {"finished"})
             n == finishedMsg(finishedHash(c.in, c.transcript))
             h == Hashed(c, n)
             v == m.verifyData
             R(x) == [Hashed(x, m) EXCEPT
                        !.app = clientAppKey(x.secret, Hashed(x, m).transcript),
                        !.in = serverAppKey(x.secret, Hashed(x, m).transcript),
                        !.pc = "clientCertificate"]
             r(x, y) == [h EXCEPT !.app = x, !.in = y, !.pc = "clientCertificate"]
  <1>1. /\ c.pc = "serverFinished"
        /\ \/ g.pc = "failed"
           \/ g.pc # "failed" /\ ClientBecomes(R(g))
           \/ v # finishedHash(g.in, g.transcript)
        /\ toClient' = Tail(toClient)
    BY Zenon DEF readServerFinished, ClientReads, Then, clientAppKey,
                 serverAppKey
  <1>2. c.pc \in ReadsFlight \ {"serverHello", "secondServerHello"}
    BY <1>1 DEF ReadsFlight, KeysSet
  <1>3. InFlightNow /\ c.pc \in KeysSet \ {"clientFinished"}
    BY <1>1, <1>2, FlightNow DEF KeysSet
  <1>4. DOMAIN c = ConnFields /\ IsSeq(c.transcript) /\ c.pc # "failed"
    BY <1>3 DEF InFlightNow
  <1>5. Comes(c.in, n, toClient)
    BY <1>1, <1>3 DEF InFlightNow, Delivered, Feeds, FedFin
  <1>6. n.type \in {"finished"} /\ n.verifyData = finishedHash(c.in, c.transcript)
    BY DEF finishedMsg
  <1>7. g = c /\ m = n
    BY <1>4, <1>5, <1>6, Receives
  <1>8. PICK x, y : ClientBecomes(r(x, y))
    <2>1. ClientBecomes(R(c))
      BY <1>1, <1>4, <1>6, <1>7
    <2>2. R(c) = r(clientAppKey(c.secret, h.transcript),
                   serverAppKey(c.secret, h.transcript))
      BY <1>7
    <2> QED
      BY <2>1, <2>2
  <1> HIDE DEF n, m, g
  <1>9. Keeps(h, c, {"transcript"})
    BY <1>4, HashedKeeps
  <1> HIDE DEF h
  <1> DEFINE q == r(x, y)
  <1>10. /\ Keeps(q, c, {"transcript", "app", "in", "pc"})
         /\ q.pc = "clientCertificate" /\ ClientBecomes(q)
    BY <1>8, <1>9 DEF Keeps, ConnFields
  <1> HIDE DEF q
  <1>11. Feeds(conf, s.pc = "failed", q, s.in, toClient')
    BY <1>10 DEF Feeds
  <1>12. Keeps(q, c, {"transcript", "proto", "certReq", "peerCerts", "pc",
                      "app", "in"})
    BY <1>10 DEF Keeps
  <1>13. q.pc \in KeysSet \ {"clientFinished", "serverParameters"}
    BY <1>10 DEF KeysSet
  <1> QED
    BY <1>3, <1>10, <1>11, <1>12, <1>13, ReadingGoes

\* What the server waits for comes after what is in sendBuf.
LEMMA FlightAfterCCS ==
    ASSUME NEW k, NEW asks, NEW in, NEW a, NEW b, NEW w, OnlyCCS(b), IsSeq(w),
           CFlight(k, asks, in, a, w)
    PROVE  CAll(k, asks, in, a, b \o w)
  <1> DEFINE v == b \o w
  <1>1. v = w \/ (CCSNext(v) /\ Tail(v) = w)
    BY CCSParts
  <1> HIDE DEF v
  <1>2. CAll(k, asks, in, a, v)
    BY <1>1 DEF CAll
  <1> QED
    BY <1>2 DEF v

\* The client's certificate goes to a server that asked for it.
LEMMA JoinedAsks ==
    ASSUME AgreeInv, TicketInv, CauseInv, InFlightNow,
           c.pc \in {"clientCertificate", "clientFinished"}, s.pc # "failed"
    PROVE  /\ c.app = s.app /\ c.out = s.in /\ (Asks(conf, c) <=> Asks(conf, s))
           /\ c.pc = "clientCertificate" =>
                c.transcript = c.app.transcript /\ (c.certReq <=> Asks(conf, c))
           /\ c.pc = "clientFinished" =>
                c.transcript = Before(conf, c.app.transcript)
  <1>1. Told(c) /\ ClientTicket(conf, c) /\ Joined(c, s, toClient)
    BY ToldNow DEF TicketInv
  <1>2. c.app = s.app /\ c.usingPSK = s.usingPSK
    BY <1>1 DEF Joined, Accepted
  <1>3. c.out = s.in
    BY DEF InFlightNow, Delivered, KeysSet
  <1>4. Requests(s.app.transcript) <=> Asks(conf, s)
    BY DEF InFlightNow, Awaits
  <1>5. Asks(conf, c) <=> Asks(conf, s)
    BY <1>2 DEF Asks
  <1>6. c.pc = "clientCertificate" =>
          /\ c.transcript = c.app.transcript
          /\ c.certReq = TRUE <=> Requests(c.transcript)
    BY <1>1 DEF ClientTicket, Reading
  <1>7. c.pc = "clientFinished" => c.transcript = Before(conf, c.app.transcript)
    BY <1>1 DEF ClientTicket
  <1> QED
    BY <1>2, <1>3, <1>4, <1>5, <1>6, <1>7

LEMMA SendCertificateGoes ==
    ASSUME AgreeInv, TicketInv, CauseInv, sendClientCertificate
    PROVE  CauseInv'
  <1> DEFINE m == certMsg(conf)
             p == Say(c, m)
             n == certificateVerify(p, "client", conf.clientCert)
             q == Say(p, n)
             w == IF conf.clientCert = "none" THEN p ELSE q
             r == [w EXCEPT !.pc = "clientFinished"]
             o == [c EXCEPT !.pc = "clientFinished"]
             e == Return(c, "getClientCertificate")
             a == s.app.transcript
  <1>1. /\ c.pc = "clientCertificate" /\ toClient' = toClient
        /\ \/ ~c.certReq /\ ClientBecomes(o)
           \/ conf.getCertFails /\ ClientBecomes(e)
           \/ c.certReq /\ ClientBecomes(r)
    <2>1. /\ c.pc = "clientCertificate"
          /\ ClientDoes(CASE ~c.certReq -> o
                          [] c.certReq /\ conf.getCertFails -> e
                          [] c.certReq /\ ~conf.getCertFails -> r)
      BY DEF sendClientCertificate, certMsg
    <2> HIDE DEF o, e, r
    <2>2. CASE ~c.certReq
      BY <2>1, <2>2 DEF ClientDoes
    <2>3. CASE c.certReq /\ conf.getCertFails
      BY <2>1, <2>3 DEF ClientDoes
    <2>4. CASE c.certReq /\ ~conf.getCertFails
      BY <2>1, <2>4 DEF ClientDoes
    <2> QED
      BY <2>2, <2>3, <2>4
  <1>2. c.pc \in ReadsFlight \ {"serverHello", "secondServerHello"}
    BY <1>1 DEF ReadsFlight, KeysSet
  <1>3. InFlightNow
    BY <1>2, FlightNow
  <1>4. /\ DOMAIN c = ConnFields /\ IsSeq(c.sendBuf) /\ IsSeq(c.transcript)
        /\ c.pc # "failed" /\ c.err = None /\ toServer = <<>>
        /\ OnlyCCS(c.sendBuf) /\ c.buffering = TRUE /\ c.out = s.in
        /\ s.pc # "failed" => Awaits(conf, s)
    BY <1>1, <1>3 DEF InFlightNow, Delivered, KeysSet
  <1>5. s.pc # "failed" =>
          /\ c.app = s.app /\ c.transcript = a
          /\ (c.certReq <=> Asks(conf, c))
    BY <1>1, <1>3, JoinedAsks
  <1>6. ASSUME NEW x, ClientBecomes(x), Keeps(x, c, {"pc", "sendBuf", "transcript"}),
               x.pc = "clientFinished", s.pc # "failed" => Unsent(conf, x)
        PROVE  CauseInv'
    <2>1. /\ x.out = c.out /\ x.buffering = c.buffering /\ x.err = c.err
          /\ x.session = c.session /\ x.in = c.in
      BY <1>6 DEF Keeps, ConnFields
    <2>2. Delivered(conf, x, s, <<>>, toClient')
      BY <1>4, <1>6, <2>1 DEF Delivered, ReadsFlight, KeysSet, Feeds
    <2>3. ReadsOn(x)
      BY <1>4, <1>6, <2>1, <2>2 DEF ReadsOn, Keeps
    <2> QED
      BY <1>4, <2>3, ClientReadsOn
  <1>7. ASSUME ~c.certReq, ClientBecomes(o) PROVE CauseInv'
    <2>1. Keeps(o, c, {"pc"}) /\ o.pc = "clientFinished" /\ ClientBecomes(o)
      BY <1>4, <1>7 DEF Keeps, ConnFields
    <2> HIDE DEF o
    <2>2. /\ o.sendBuf = c.sendBuf /\ o.app = c.app /\ o.out = c.out
          /\ o.usingPSK = c.usingPSK
      BY <2>1 DEF Keeps, ConnFields
    <2>3. ASSUME s.pc # "failed" PROVE Unsent(conf, o)
      <3>1. ~Asks(conf, o)
        BY <1>5, <1>7, <2>2, <2>3 DEF Asks
      <3>2. ASSUME NEW u, IsSeq(u), CFin(conf, o.out, o.app.transcript, u)
            PROVE  CAll(conf, Asks(conf, o), o.out, o.app.transcript, o.sendBuf \o u)
        <4>1. CFlight(conf, Asks(conf, o), o.out, o.app.transcript, u)
          BY <3>1, <3>2 DEF CFlight
        <4> QED
          BY <1>4, <2>2, <3>2, <4>1, FlightAfterCCS
      <3> QED
        BY <3>2 DEF Unsent
    <2>4. Keeps(o, c, {"pc", "sendBuf", "transcript"})
      BY <2>1 DEF Keeps
    <2> QED
      BY <1>6, <2>1, <2>3, <2>4
  <1>8. ASSUME conf.getCertFails, ClientBecomes(e) PROVE CauseInv'
    <2>1. /\ Keeps(e, c, {"pc", "err", "buffering"}) /\ e.pc = "failed"
          /\ e.err = "getClientCertificate"
      BY <1>4 DEF Return, Keeps, ConnFields
    <2>2. ClientBecomes(e)
      BY <1>8
    <2> HIDE DEF e
    <2>3. e.sendBuf = c.sendBuf /\ e.session = c.session
      BY <2>1 DEF Keeps, ConnFields
    <2>4. \A x \in Recs(c.sendBuf) : Excuse(s, x)
      BY <1>4, CCSParts DEF Excuse
    <2>5. ClientFault(conf, e.err, s)
      BY <1>8, <2>1 DEF ClientFault
    <2>6. Quits(e)
      BY <1>4, <2>1, <2>2, <2>3, <2>4, <2>5 DEF Quits, Keeps
    <2> QED
      BY <1>4, <2>6, ClientQuits
  <1>9. ASSUME c.certReq, ClientBecomes(r) PROVE CauseInv'
    <2> DEFINE t == c.transcript
               mrec == hsRec(c.out, m)
               nrec == hsRec(c.out, n)
    <2>1. m.type = "certificate" /\ Digest(m) = m
      BY DigestSelf DEF certMsg
    <2>2. /\ Keeps(p, c, {"transcript", "sendBuf"}) /\ p.transcript = Append(t, m)
          /\ p.sendBuf = Append(c.sendBuf, mrec)
      <3>1. /\ Keeps(p, c, {"transcript", "sendBuf"})
            /\ p.transcript = Append(c.transcript, Digest(m))
            /\ p.sendBuf = Append(c.sendBuf, mrec)
        BY <1>4, SayKeeps DEF hsRec
      <3> QED
        BY <2>1, <3>1
    <2> HIDE DEF p, mrec, m
    <2>3. DOMAIN p = ConnFields /\ p.out = c.out
      BY <2>2 DEF Keeps, ConnFields
    <2>4. /\ Keeps(q, c, {"transcript", "sendBuf"})
          /\ q.sendBuf = Append(p.sendBuf, nrec)
      <3>1. /\ Keeps(q, p, {"transcript", "sendBuf"})
            /\ q.sendBuf = Append(p.sendBuf, nrec)
        BY <2>3, SayKeeps DEF hsRec
      <3> QED
        BY <2>2, <3>1 DEF Keeps
    <2>5. n = Signed("client", conf.clientCert, Append(t, m))
      BY <2>2 DEF certificateVerify, Signed
    <2> HIDE DEF q, n, nrec
    <2>6. /\ Keeps(w, c, {"transcript", "sendBuf"})
          /\ w.sendBuf = IF conf.clientCert = "none" THEN Append(c.sendBuf, mrec)
                         ELSE Append(Append(c.sendBuf, mrec), nrec)
      BY <2>2, <2>4
    <2> HIDE DEF w
    <2>7. /\ Keeps(r, c, {"pc", "sendBuf", "transcript"}) /\ r.pc = "clientFinished"
          /\ r.sendBuf = w.sendBuf /\ ClientBecomes(r)
      BY <1>9, <2>6 DEF Keeps, ConnFields
    <2> HIDE DEF r
    <2>8. r.app = c.app /\ r.out = c.out /\ r.usingPSK = c.usingPSK
      BY <2>7 DEF Keeps, ConnFields
    <2>9. ASSUME s.pc # "failed" PROVE Unsent(conf, r)
      <3>1. Asks(conf, r) /\ r.app.transcript = a /\ t = a
        BY <1>5, <1>9, <2>8, <2>9 DEF Asks
      <3>2. ASSUME NEW u, IsSeq(u), CFin(conf, c.out, a, u)
            PROVE  CAll(conf, TRUE, c.out, a, r.sendBuf \o u)
        <4>1. CASE conf.clientCert = "none"
          <5> DEFINE x == Cons(mrec, u)
          <5>1. IsSeq(x) /\ Comes(c.out, m, x) /\ Tail(x) = u
            BY <3>2, NextCons DEF mrec
          <5>2. Appended(r.sendBuf, c.sendBuf, mrec)
            BY <2>6, <2>7, <4>1 DEF Appended
          <5>3. r.sendBuf \o u = c.sendBuf \o x
            BY <1>4, <3>2, <5>2, AppendThen
          <5> HIDE DEF x
          <5>4. CFlight(conf, TRUE, c.out, a, x)
            BY <3>2, <4>1, <5>1 DEF CFlight, m
          <5> QED
            BY <1>4, <5>1, <5>3, <5>4, FlightAfterCCS
        <4>2. CASE conf.clientCert # "none"
          <5> DEFINE y == Cons(nrec, u)
                     x == Cons(mrec, y)
                     b == p.sendBuf
          <5>1. IsSeq(y) /\ Comes(c.out, n, y) /\ Tail(y) = u
            BY <3>2, NextCons DEF nrec
          <5>2. Appended(b, c.sendBuf, mrec) /\ Appended(r.sendBuf, b, nrec)
            BY <2>2, <2>6, <2>7, <4>2 DEF Appended
          <5> HIDE DEF b
          <5>3. IsSeq(b) /\ r.sendBuf \o u = b \o y
            <6>1. IsSeq(b)
              BY <1>4, <3>2, <5>2, AppendThen
            <6> QED
              BY <3>2, <5>2, <6>1, AppendThen
          <5> HIDE DEF y
          <5>4. b \o y = c.sendBuf \o x
            BY <1>4, <5>1, <5>2, AppendThen
          <5>5. IsSeq(x) /\ Comes(c.out, m, x) /\ Tail(x) = y
            BY <5>1, NextCons DEF mrec
          <5> HIDE DEF x
          <5>6. CVerify(conf, c.out, a, y)
            BY <2>5, <3>1, <3>2, <5>1 DEF CVerify, Shown, m
          <5>7. CFlight(conf, TRUE, c.out, a, x)
            BY <4>2, <5>5, <5>6 DEF CFlight, m
          <5> QED
            BY <1>4, <5>3, <5>4, <5>5, <5>7, FlightAfterCCS
        <4> QED
          BY <4>1, <4>2
      <3>3. ASSUME NEW u, IsSeq(u), CFin(conf, r.out, r.app.transcript, u)
            PROVE  CAll(conf, Asks(conf, r), r.out, r.app.transcript, r.sendBuf \o u)
        <4>1. CAll(conf, TRUE, c.out, a, r.sendBuf \o u)
          BY <2>8, <3>1, <3>2, <3>3
        <4>2. CAll(conf, Asks(conf, r), c.out, a, r.sendBuf \o u)
          BY <3>1, <4>1 DEF CAll, CFlight
        <4> QED
          BY <2>8, <3>1, <4>2
      <3> QED
        BY <3>3 DEF Unsent
    <2> QED
      BY <1>6, <2>7, <2>9
  <1> HIDE DEF o, e, r
  <1> QED
    BY <1>1, <1>7, <1>8, <1>9

LEMMA SendFinishedGoes ==
    ASSUME AgreeInv, TicketInv, CauseInv, sendClientFinished
    PROVE  CauseInv'
  <1> DEFINE m == finishedMsg(finishedHash(c.out, c.transcript))
             rec == hsRec(c.out, m)
             p == Say(c, m)
             z == IF conf.caching THEN resumptionSecret(c.secret, p.transcript)
                  ELSE None
             r == [p EXCEPT !.out = c.app, !.pc = "done", !.buffering = FALSE,
                            !.resumption = z]
             a == s.app.transcript
  <1>1. c.pc = "clientFinished" /\ ClientBecomes(r)
    BY Zenon DEF sendClientFinished, ClientDoes, resumptionSecret
  <1>2. c.pc \in ReadsFlight \ {"serverHello", "secondServerHello"}
    BY <1>1 DEF ReadsFlight, KeysSet
  <1>3. InFlightNow
    BY <1>2, FlightNow
  <1>4. /\ DOMAIN c = ConnFields /\ IsSeq(c.sendBuf)
        /\ c.pc # "failed" /\ c.err = None /\ toServer = <<>>
        /\ s.pc # "failed" => Awaits(conf, s) /\ Unsent(conf, c)
    BY <1>1, <1>3 DEF InFlightNow, Delivered
  <1>5. s.pc # "failed" =>
          /\ c.app = s.app /\ c.out = s.in /\ (Asks(conf, c) <=> Asks(conf, s))
          /\ c.transcript = Before(conf, a)
    BY <1>1, <1>3, JoinedAsks
  <1>6. /\ Keeps(p, c, {"transcript", "sendBuf"}) /\ p.sendBuf = Append(c.sendBuf, rec)
    BY <1>4, SayKeeps DEF hsRec
  <1> HIDE DEF p, z
  <1>7. /\ Keeps(r, c, {"transcript", "sendBuf", "out", "pc", "buffering",
                        "resumption"})
        /\ r.pc = "done" /\ r.buffering = FALSE /\ r.sendBuf = p.sendBuf
    BY <1>6 DEF Keeps, ConnFields
  <1> HIDE DEF r
  <1> DEFINE u == Cons(rec, <<>>)
             b == c.sendBuf
             tv == toServer'
             tc == toClient'
             d == c'
  <1>8. IsSeq(u) /\ Comes(c.out, m, u)
    BY NextCons, EmptyConcat
  <1> HIDE DEF u, rec
  <1>9. p.sendBuf = b \o u /\ IsSeq(b \o u)
    <2> DEFINE w == p.sendBuf
    <2>1. Appended(w, b, rec) /\ IsSeq(<<>>)
      BY <1>6, EmptyConcat DEF Appended
    <2> HIDE DEF w
    <2>2. IsSeq(w) /\ w \o <<>> = b \o u
      BY <1>4, <2>1, AppendThen DEF u
    <2>3. w \o <<>> = w
      BY <2>2, EmptyConcat
    <2> QED
      BY <2>2, <2>3 DEF w
  <1>10. /\ Keeps(d, r, {"sendBuf", "cache"}) /\ s' = s /\ conf' = conf
         /\ tv = <<>> \o (b \o u)
    BY <1>1, <1>4, <1>7, <1>9 DEF ClientBecomes, Keeps, ConnFields, Passed
  <1>11. tv = b \o u
    BY <1>9, <1>10, EmptyConcat
  <1>12. d.pc = "done" /\ d.err = None /\ d.session = c.session
    BY <1>4, <1>7, <1>10 DEF Keeps, ConnFields
  <1>13. s.pc # "failed" => CAll(conf, Asks(conf, s), s.in, a, tv)
    <2>1. ASSUME s.pc # "failed" PROVE CFin(conf, c.out, c.app.transcript, u)
      BY <1>5, <1>8, <2>1 DEF CFin
    <2>2. ASSUME s.pc # "failed" PROVE CAll(conf, Asks(conf, c), c.out, c.app.transcript, tv)
      BY <1>4, <1>8, <1>11, <2>1, <2>2 DEF Unsent
    <2> QED
      BY <1>5, <2>2 DEF CAll, CFlight
  <1>14. s.pc \in After
    <2>1. Joined(c, s, toClient)
      BY DEF TicketInv
    <2> QED
      BY <1>1, <2>1 DEF Joined, Accepted
  <1>15. SFeeds(conf, s, tv)
    BY <1>4, <1>13 DEF SFeeds, Awaits, CAll, CFlight
  <1>16. Stage(conf, d, s, tv, tc)
    BY <1>12, <1>14, <1>15 DEF Stage, Completing
  <1>17. FailuresHaveACause'
    BY <1>4, <1>10, <1>12, ClientCauses DEF CauseInv
  <1>18. Blameless(conf, d, s)
    BY <1>4, <1>12, ClientBlameless DEF CauseInv
  <1> QED
    BY <1>10, <1>16, <1>17, <1>18 DEF CauseInv

-----------------------------------------------------------------------------
(* The client's hellos.                                                    *)

\* A hello without a PSK, and one with the binder of its PSK.
Bare(k, group, o) ==
    /\ DOMAIN o = HelloFields
    /\ o.type = "clientHello" /\ o.suites = SuitePreference(k.clientAES)
    /\ o.groups = k.clientGroups /\ o.share.group = group

LEMMA OfferBound ==
    ASSUME NEW k, NEW session, NEW tr, NEW group, NEW o, Bare(k, group, o),
           session # None, o.psk = session.ticket, NEW b,
           b = Binder(session.suite, session.secret, tr, o)
    PROVE  Offer(k, session, tr, group, [o EXCEPT !.binder = b])
  <1> DEFINE m == [o EXCEPT !.binder = b]
  <1>1. DOMAIN o = HelloFields
    BY DEF Bare
  <1>2. [m EXCEPT !.binder = None] = [o EXCEPT !.binder = None]
    BY <1>1 DEF HelloFields
  <1>3. /\ DOMAIN m = HelloFields /\ m.type = o.type /\ m.suites = o.suites
        /\ m.groups = o.groups /\ m.share = o.share /\ m.psk = o.psk /\ m.binder = b
    BY <1>1 DEF HelloFields
  <1> HIDE DEF m
  <1>4. b = Binder(session.suite, session.secret, tr, m)
    BY <1>2 DEF Binder
  <1>5. Offer(k, session, tr, group, m)
    BY <1>3, <1>4 DEF Offer, Bare
  <1> QED
    BY <1>5 DEF m

LEMMA OffersFit ==
    ASSUME NEW x
    PROVE  Offer(conf, x, <<>>, Head(conf.clientGroups),
                 loadSession(makeClientHello, x))
  <1> DEFINE h == makeClientHello
             group == Head(conf.clientGroups)
             m == [h EXCEPT !.pskModes = conf.caching]
             n == [m EXCEPT !.sessionTicket = x.ticket]
             o == [m EXCEPT !.psk = x.ticket]
             b == Binder(x.suite, x.secret, <<>>, o)
             r == loadSession(h, x)
  <1>1. Bare(conf, group, h) /\ h.psk = None
    BY DEF makeClientHello, Bare, HelloFields
  <1>2. \/ r = m \/ r = n
        \/ x # None /\ r = [o EXCEPT !.binder = b]
    BY DEF loadSession
  <1> HIDE DEF h, r, group
  <1>3. Bare(conf, group, m) /\ m.psk = None
    BY <1>1 DEF Bare, HelloFields
  <1> HIDE DEF m
  <1>4. /\ Bare(conf, group, n) /\ n.psk = None
        /\ Bare(conf, group, o) /\ o.psk = x.ticket
    BY <1>3 DEF Bare, HelloFields
  <1> HIDE DEF n, o
  <1>5. r = m \/ r = n => Offer(conf, x, <<>>, group, r)
    BY <1>3, <1>4 DEF Offer, Bare
  <1>6. ASSUME x # None, r = [o EXCEPT !.binder = b]
        PROVE  Offer(conf, x, <<>>, group, r)
    BY <1>4, <1>6, OfferBound
  <1>7. Offer(conf, x, <<>>, group, r)
    BY <1>2, <1>5, <1>6
  <1> QED
    BY <1>7 DEF h, r, group

\* The client sends what it has in sendBuf and goes on.
LEMMA ClientSends ==
    ASSUME NEW r, DOMAIN r = ConnFields, r.buffering = FALSE, IsSeq(r.sendBuf),
           ClientBecomes(r), toServer = <<>>
    PROVE  /\ Keeps(c', r, {"sendBuf", "cache"}) /\ c'.sendBuf = <<>>
           /\ toServer' = r.sendBuf /\ s' = s /\ conf' = conf
  <1>1. Kept(r) = <<>> /\ Passed(r) = r.sendBuf
    BY DEF Kept, Passed
  <1>2. /\ Keeps(c', r, {"sendBuf", "cache"}) /\ c'.sendBuf = <<>>
        /\ s' = s /\ conf' = conf /\ toServer' = <<>> \o r.sendBuf
    BY <1>1 DEF ClientBecomes, Keeps, ConnFields
  <1> QED
    BY <1>2, EmptyConcat

\* The stages in which the client sends or reads a hello.
LEMMA StageAt ==
    ASSUME CauseInv
    PROVE  /\ c.pc = "clientHandshake" => Starting(conf, c, s, toServer, toClient)
           /\ c.pc = "serverHello" =>
                \/ Greeting(conf, c, s, toServer, toClient)
                \/ Retried(conf, c, s, toServer, toClient)
                \/ Answering(conf, c, s, toServer, toClient)
                \/ Delivered(conf, c, s, toServer, toClient)
           /\ c.pc = "helloRetryRequest" =>
                Retrying(conf, c, s, toServer, toClient)
           /\ c.pc = "secondServerHello" =>
                \/ Regreeting(conf, c, s, toServer, toClient)
                \/ Answering(conf, c, s, toServer, toClient)
                \/ Delivered(conf, c, s, toServer, toClient)
  <1>1. ASSUME c.pc \in {"clientHandshake", "serverHello", "helloRetryRequest",
                         "secondServerHello"}
        PROVE  /\ Starting(conf, c, s, toServer, toClient) => c.pc = "clientHandshake"
               /\ Greeting(conf, c, s, toServer, toClient) => c.pc = "serverHello"
               /\ Retried(conf, c, s, toServer, toClient) => c.pc = "serverHello"
               /\ Retrying(conf, c, s, toServer, toClient) => c.pc = "helloRetryRequest"
               /\ Regreeting(conf, c, s, toServer, toClient) => c.pc = "secondServerHello"
               /\ Answering(conf, c, s, toServer, toClient) =>
                    c.pc \in {"serverHello", "secondServerHello"}
               /\ Delivered(conf, c, s, toServer, toClient) =>
                    c.pc \in {"serverHello", "secondServerHello"}
               /\ ~Completing(conf, c, s, toServer, toClient)
               /\ ~Refusing(conf, c, s, toServer, toClient)
    <2>1. Starting(conf, c, s, toServer, toClient) => c.pc = "clientHandshake"
      BY DEF Starting, NewConn
    <2>2. /\ Greeting(conf, c, s, toServer, toClient) => c.pc = "serverHello"
          /\ Retried(conf, c, s, toServer, toClient) => c.pc = "serverHello"
          /\ Retrying(conf, c, s, toServer, toClient) => c.pc = "helloRetryRequest"
          /\ Regreeting(conf, c, s, toServer, toClient) => c.pc = "secondServerHello"
      BY DEF Greeting, Greets, Retried, Retrying, Regreeting, Regreets
    <2>3. /\ Answering(conf, c, s, toServer, toClient) =>
               c.pc \in {"serverHello", "secondServerHello"}
          /\ Delivered(conf, c, s, toServer, toClient) =>
               c.pc \in {"serverHello", "secondServerHello"}
      BY <1>1 DEF Answering, Delivered, ReadsFlight, KeysSet
    <2>4. /\ ~Completing(conf, c, s, toServer, toClient)
          /\ ~Refusing(conf, c, s, toServer, toClient)
      BY <1>1 DEF Completing, Refusing
    <2> QED
      BY <2>1, <2>2, <2>3, <2>4
  <1> QED
    BY <1>1 DEF CauseInv, Stage

LEMMA ClientHelloGoes ==
    ASSUME AgreeInv, TicketInv, CauseInv, ClientHello PROVE CauseInv'
  <1> DEFINE hello == loadSession(makeClientHello, UsableSession)
             se == UsableSession
             p == [c EXCEPT !.pc = "serverHello", !.hello = hello,
                            !.session = se, !.cache = se]
             r == Send(p, "handshake", hello)
             rec == hsRec(None, hello)
             d == c'
             tv == toServer'
             tc == toClient'
  <1>1. ClientBecomes(r) /\ c.pc = "clientHandshake" /\ toClient' = toClient
    BY DEF ClientHello, ClientDoes
  <1>2. /\ c = NewConn("clientHandshake", conf.session)
        /\ s = NewConn("clientHello", None) /\ toServer = <<>> /\ toClient = <<>>
    BY <1>1, StageAt DEF Starting
  <1>3. se \in {None, conf.session}
    <2>1. c.cache = conf.session
      BY <1>2 DEF NewConn
    <2> QED
      BY <2>1 DEF UsableSession
  <1>4. Offer(conf, se, <<>>, Head(conf.clientGroups), hello)
    BY OffersFit
  <1> HIDE DEF hello, se
  <1>5. /\ DOMAIN p = ConnFields /\ p.pc = "serverHello" /\ p.hello = hello
        /\ p.session = se /\ p.transcript = <<>> /\ p.suite = None
        /\ p.in = None /\ p.out = None /\ p.buffering = FALSE /\ p.certReq = FALSE
        /\ p.err = None /\ p.sendBuf = <<>>
    BY <1>2 DEF NewConn, ConnFields
  <1> HIDE DEF p
  <1>6. Keeps(r, p, {"sendBuf"}) /\ r.sendBuf = Append(p.sendBuf, rec)
    BY <1>5, SendKeeps DEF hsRec
  <1>7. r.sendBuf = <<rec>> /\ IsSeq(r.sendBuf)
    BY <1>5, <1>6, EmptyConcat
  <1>8. DOMAIN r = ConnFields /\ r.buffering = FALSE
    BY <1>5, <1>6 DEF Keeps, ConnFields
  <1> HIDE DEF r
  <1>9. /\ Keeps(d, r, {"sendBuf", "cache"}) /\ d.sendBuf = <<>>
        /\ tv = <<rec>> /\ s' = s /\ conf' = conf
    BY <1>1, <1>2, <1>7, <1>8, ClientSends
  <1> HIDE DEF rec, d, tv, tc
  <1>10. /\ d.pc = "serverHello" /\ d.hello = hello
         /\ d.session = se /\ d.transcript = <<>> /\ d.suite = None
         /\ d.in = None /\ d.out = None /\ d.buffering = FALSE
         /\ d.certReq = FALSE /\ d.err = None
    BY <1>5, <1>6, <1>9 DEF Keeps, ConnFields
  <1>11. Greets(conf, d)
    BY <1>4, <1>9, <1>10 DEF Greets, Idle
  <1>12. Greeting(conf, d, s, tv, tc)
    BY <1>1, <1>2, <1>9, <1>10, <1>11 DEF Greeting, rec, tc
  <1>13. Stage(conf, d, s, tv, tc)
    BY <1>12 DEF Stage
  <1>14. s.err = None /\ s.pc = "clientHello"
    BY <1>2 DEF NewConn
  <1>15. Blameless(conf, d, s)
    BY <1>3, <1>10, <1>14 DEF CauseInv, Blameless
  <1>16. CausesHold(conf, d, s)
    BY <1>10, <1>14 DEF CausesHold
  <1>17. FailuresHaveACause'
    BY <1>9, <1>16, CausesForm DEF d
  <1> QED
    BY <1>9, <1>13, <1>15, <1>17 DEF CauseInv, d, tv, tc

\* The client goes on in the stage St.
LEMMA ClientProceeds ==
    ASSUME CauseInv, c.pc # "failed", conf' = conf, s' = s,
           c'.session = c.session, c'.err = None, c'.pc # "failed",
           Stage(conf, c', s, toServer', toClient')
    PROVE  CauseInv'
  <1>1. FailuresHaveACause'
    BY ClientCauses DEF CauseInv
  <1>2. Blameless(conf, c', s)
    BY ClientBlameless DEF CauseInv
  <1> QED
    BY <1>1, <1>2 DEF CauseInv

\* What checkServerHelloOrHRR does with a suite that was offered.
LEMMA ChecksGood ==
    ASSUME NEW x, NEW sh, DOMAIN x = ConnFields, x.suite \in {None, sh.suite},
           sh.suite \in Range(x.hello.suites)
    PROVE  /\ Keeps(checkServerHelloOrHRR(x, sh), x, {"suite", "serverHello", "pc"})
           /\ checkServerHelloOrHRR(x, sh).suite = sh.suite
           /\ checkServerHelloOrHRR(x, sh).serverHello = sh
           /\ checkServerHelloOrHRR(x, sh).pc =
                IF sh.hrr /\ x.pc = "serverHello" THEN "helloRetryRequest"
                                                  ELSE "processServerHello"
  <1> DEFINE next == IF sh.hrr /\ x.pc = "serverHello"
                     THEN "helloRetryRequest" ELSE "processServerHello"
             q == [x EXCEPT !.suite = sh.suite, !.serverHello = sh, !.pc = next]
             r == checkServerHelloOrHRR(x, sh)
  <1>1. r = q
    BY DEF checkServerHelloOrHRR
  <1> HIDE DEF r, next
  <1>2. /\ Keeps(q, x, {"suite", "serverHello", "pc"}) /\ q.suite = sh.suite
        /\ q.serverHello = sh /\ q.pc = next
    BY DEF Keeps, ConnFields
  <1> HIDE DEF q
  <1>3. /\ Keeps(r, x, {"suite", "serverHello", "pc"}) /\ r.suite = sh.suite
        /\ r.serverHello = sh /\ r.pc = next
    BY <1>1, <1>2
  <1> QED
    BY <1>3 DEF r, next

\* The client reads the ServerHello that answers it, and its transcript is t.
LEMMA AnswerGoes ==
    ASSUME CauseInv, InFlightNow, c.pc \in {"serverHello", "secondServerHello"},
           NEW sh, NEW r, toClient # <<>>,
           Answer(conf, s.pc = "failed", c, s.in, sh, toClient),
           Keeps(r, c, {"suite", "serverHello", "pc", "transcript"}),
           r.suite = sh.suite, r.serverHello = sh, r.pc = "processServerHello",
           r.transcript = Greeted(c), toClient' = Tail(toClient), ClientBecomes(r)
    PROVE  CauseInv'
  <1>1. Idle(c)
    BY DEF InFlightNow, Delivered
  <1>2. /\ r.hello = c.hello /\ r.session = c.session /\ r.sendBuf = <<>>
        /\ r.certReq = FALSE /\ r.err = c.err /\ DOMAIN r = ConnFields
    BY <1>1 DEF Keeps, ConnFields, Idle
  <1>3. Feeds(conf, s.pc = "failed", r, s.in, toClient')
    BY <1>2 DEF Feeds, Answer
  <1>4. Delivered(conf, r, s, <<>>, toClient')
    BY <1>2, <1>3 DEF Delivered, InFlightNow, ReadsFlight, KeysSet, OnlyCCS
  <1>5. ReadsOn(r)
    BY <1>2, <1>4 DEF ReadsOn, InFlightNow
  <1> QED
    BY <1>5, ClientReadsOn DEF InFlightNow

LEMMA HelloParts ==
    ASSUME NEW k, NEW d, NEW p, NEW in, NEW ts, FedHello(k, d, p, in, ts)
    PROVE  \/ d /\ AlertNext(None, ts)
           \/ /\ Answer(k, d, p, in, Head(ts).msg, ts)
              /\ Comes(None, Head(ts).msg, ts)
              /\ Head(ts).msg.type \in {"serverHello"} /\ Head(ts).msg.hrr = FALSE
              /\ p.suite \in {None, Head(ts).msg.suite}
              /\ Head(ts).msg.suite \in Range(p.hello.suites)
  BY DEF FedHello, Answer, Fits

LEMMA RetryMsgParts ==
    ASSUME NEW q
    PROVE  /\ RetryMsg(q).type = "serverHello" /\ RetryMsg(q).suite = q.suite
           /\ RetryMsg(q).hrr = TRUE /\ RetryMsg(q).group = q.group
           /\ Digest(RetryMsg(q)) = RetryMsg(q)
  <1>1. /\ RetryMsg(q).type = "serverHello" /\ RetryMsg(q).suite = q.suite
        /\ RetryMsg(q).hrr = TRUE /\ RetryMsg(q).group = q.group
    BY DEF RetryMsg, serverHelloMsg
  <1> QED
    BY <1>1, DigestSelf

LEMMA ReadServerHelloGoes ==
    ASSUME AgreeInv, TicketInv, CauseInv, ReadServerHello PROVE CauseInv'
  <1> DEFINE rec == Head(toClient)
             m == rec.msg
             g == Receive(c, rec, {"serverHello"})
             q == checkServerHelloOrHRR(c, m)
             r == Hashed(q, c.hello)
             F(x) == Then(checkServerHelloOrHRR(x, m),
                          LAMBDA y : Hashed(y, c.hello))
             d == c'
             tv == toServer'
             tc == toClient'
  <1>1. /\ c.pc = "serverHello" /\ toClient # <<>> /\ tc = Tail(toClient)
        /\ \/ ClientBecomes(g) /\ g.pc = "failed"
           \/ g.pc # "failed" /\ ClientBecomes(F(g))
    BY DEF ReadServerHello, ClientReads, Then
  <1>2. /\ DOMAIN c = ConnFields /\ c.pc # "failed" /\ c.err = None
        /\ IsSeq(c.transcript)
    BY <1>1, WiresNow DEF CauseInv, Blameless
  <1>3. ASSUME Comes(c.in, m, toClient), m.type \in {"serverHello"},
               c.suite \in {None, m.suite}, m.suite \in Range(c.hello.suites)
        PROVE  /\ ClientBecomes(r) /\ r.suite = m.suite /\ r.serverHello = m
               /\ Keeps(r, c, {"suite", "serverHello", "pc", "transcript"})
               /\ r.transcript = Append(c.transcript, Digest(c.hello))
               /\ r.pc = IF m.hrr THEN "helloRetryRequest" ELSE "processServerHello"
    <2>1. g = c
      BY <1>2, <1>3, Receives
    <2>2. ClientBecomes(F(c))
      BY <1>1, <1>2, <2>1
    <2> HIDE DEF m
    <2>3. /\ Keeps(q, c, {"suite", "serverHello", "pc"}) /\ q.suite = m.suite
          /\ q.serverHello = m
          /\ q.pc = IF m.hrr THEN "helloRetryRequest" ELSE "processServerHello"
      BY <1>1, <1>2, <1>3, ChecksGood
    <2>4. ClientBecomes(r)
      BY <2>2, <2>3 DEF Then
    <2> HIDE DEF q
    <2>5. /\ Keeps(r, q, {"transcript"})
          /\ r.transcript = Append(q.transcript, Digest(c.hello))
      BY <2>3, HashedKeeps DEF Keeps
    <2> HIDE DEF r
    <2>6. /\ q.transcript = c.transcript /\ r.suite = q.suite
          /\ r.serverHello = q.serverHello /\ r.pc = q.pc
      BY <2>3, <2>5 DEF Keeps, ConnFields
    <2> QED
      BY <2>3, <2>4, <2>5, <2>6 DEF Keeps
  <1> HIDE DEF r, q, F
  <1>4. CASE Retried(conf, c, s, toServer, toClient)
    <2>1. /\ Greets(conf, c) /\ Retries(conf, s) /\ c.hello = s.hello
          /\ toServer = <<>> /\ Comes(None, RetryMsg(s), toClient)
          /\ OnlyCCS(Tail(toClient))
      BY <1>4 DEF Retried
    <2>2. m = RetryMsg(s)
      BY <2>1 DEF Comes, hsRec
    <2>3. /\ RetryMsg(s).type \in {"serverHello"} /\ RetryMsg(s).suite = s.suite
          /\ RetryMsg(s).hrr = TRUE
      BY RetryMsgParts
    <2>4. /\ c.in = None /\ c.suite = None
          /\ RetryMsg(s).suite \in Range(c.hello.suites)
      BY <2>1, <2>3 DEF Greets, Idle, Retries
    <2>5. /\ ClientBecomes(r) /\ r.suite = s.suite /\ r.serverHello = RetryMsg(s)
          /\ Keeps(r, c, {"suite", "serverHello", "pc", "transcript"})
          /\ r.pc = "helloRetryRequest"
      BY <1>3, <2>1, <2>2, <2>3, <2>4
    <2>6. /\ r.buffering = FALSE /\ r.sendBuf = <<>> /\ IsSeq(r.sendBuf)
          /\ r.in = None /\ r.out = None /\ r.certReq = FALSE /\ r.err = None
          /\ r.hello = c.hello /\ r.session = c.session /\ DOMAIN r = ConnFields
      BY <1>2, <2>1, <2>5, EmptyConcat DEF Keeps, ConnFields, Greets, Idle
    <2>7. /\ Keeps(d, r, {"sendBuf", "cache"}) /\ d.sendBuf = <<>>
          /\ tv = <<>> /\ s' = s /\ conf' = conf
      BY <2>1, <2>5, <2>6, ClientSends
    <2>8. /\ d.buffering = FALSE /\ d.in = None /\ d.out = None
          /\ d.certReq = FALSE /\ d.err = None /\ d.hello = c.hello
          /\ d.session = c.session /\ d.pc = "helloRetryRequest"
          /\ d.suite = s.suite /\ d.serverHello = RetryMsg(s)
      BY <2>5, <2>6, <2>7 DEF Keeps, ConnFields
    <2>9. Retrying(conf, d, s, tv, tc)
      BY <1>1, <2>1, <2>7, <2>8 DEF Retrying, Idle, Greets
    <2>10. Stage(conf, d, s, tv, tc)
      BY <2>9 DEF Stage
    <2> QED
      BY <1>2, <2>7, <2>8, <2>10, ClientProceeds
  <1>5. CASE Delivered(conf, c, s, toServer, toClient)
    <2>1. InFlightNow
      BY <1>5, FlightNow
    <2>2. c.in = None /\ FedHello(conf, s.pc = "failed", c, s.in, toClient)
      BY <1>1, <1>5 DEF Delivered, Feeds, Idle
    <2>3. CASE s.pc = "failed" /\ AlertNext(None, toClient)
      <3>1. g = Return(c, "remote")
        BY <1>2, <2>2, <2>3, Receives
      <3>2. g.pc = "failed"
        BY <3>1, <1>2, ReturnKeeps
      <3>3. ClientBecomes(g)
        BY <1>1, <3>2
      <3> HIDE DEF g
      <3> QED
        BY <2>1, <2>3, <3>1, <3>3, ReadsRemote
    <2>4. CASE /\ Answer(conf, s.pc = "failed", c, s.in, m, toClient)
               /\ Comes(None, m, toClient)
               /\ m.type \in {"serverHello"} /\ m.hrr = FALSE
               /\ c.suite \in {None, m.suite} /\ m.suite \in Range(c.hello.suites)
      <3>1. /\ ClientBecomes(r) /\ r.suite = m.suite /\ r.serverHello = m
            /\ Keeps(r, c, {"suite", "serverHello", "pc", "transcript"})
            /\ r.transcript = Append(c.transcript, Digest(c.hello))
            /\ r.pc = "processServerHello"
        BY <1>3, <2>2, <2>4
      <3>2. r.transcript = Greeted(c)
        BY <1>1, <3>1 DEF Greeted
      <3> HIDE DEF m
      <3> QED
        BY <1>1, <2>1, <2>4, <3>1, <3>2, AnswerGoes
    <2>5. \/ s.pc = "failed" /\ AlertNext(None, toClient)
          \/ /\ Answer(conf, s.pc = "failed", c, s.in, m, toClient)
             /\ Comes(None, m, toClient)
             /\ m.type \in {"serverHello"} /\ m.hrr = FALSE
             /\ c.suite \in {None, m.suite} /\ m.suite \in Range(c.hello.suites)
      <3> DEFINE bad == s.pc = "failed"
      <3>1. FedHello(conf, bad, c, s.in, toClient)
        BY <2>2
      <3> HIDE DEF bad
      <3>2. \/ bad /\ AlertNext(None, toClient)
            \/ /\ Answer(conf, bad, c, s.in, m, toClient)
               /\ Comes(None, m, toClient)
               /\ m.type \in {"serverHello"} /\ m.hrr = FALSE
               /\ c.suite \in {None, m.suite} /\ m.suite \in Range(c.hello.suites)
        BY <3>1, HelloParts
      <3> QED
        BY <3>2 DEF bad
    <2> QED
      BY <2>3, <2>4, <2>5
  <1>6. ~Greeting(conf, c, s, toServer, toClient)
    BY <1>1 DEF Greeting
  <1>7. ~Answering(conf, c, s, toServer, toClient)
    BY <1>1 DEF Answering
  <1> QED
    BY <1>1, <1>4, <1>5, <1>6, <1>7, StageAt

\* The retried hello, with or without its PSK.
LEMMA RetriedFits ==
    ASSUME NEW k, NEW p, NEW group, NEW o, Bare(k, group, o),
           o.psk # None => p.session # None /\ o.psk = p.session.ticket
    PROVE  /\ Offer(k, p.session, p.transcript, group, RetriedPSK(p, o))
           /\ ~illegalClientHelloChange(RetriedPSK(p, o), o)
  <1> DEFINE b == Binder(p.suite, p.session.secret, p.transcript, o)
             m == [o EXCEPT !.binder = b]
             n == [o EXCEPT !.psk = None, !.binder = None]
             r == RetriedPSK(p, o)
  <1>1. CASE o.psk = None
    <2>1. r = o
      BY <1>1 DEF RetriedPSK
    <2> HIDE DEF r
    <2> QED
      BY <1>1, <2>1 DEF Offer, Bare, illegalClientHelloChange, r
  <1>2. CASE o.psk # None /\ Hash(p.session.suite) = Hash(p.suite)
    <2>1. r = m
      BY <1>2 DEF RetriedPSK
    <2>2. b = Binder(p.session.suite, p.session.secret, p.transcript, o)
      BY <1>2 DEF Binder
    <2> HIDE DEF r, b
    <2>3. Offer(k, p.session, p.transcript, group, m)
      BY <1>2, <2>2, OfferBound
    <2>4. ~illegalClientHelloChange(m, o)
      BY DEF illegalClientHelloChange, Bare, HelloFields
    <2> QED
      BY <2>1, <2>3, <2>4 DEF r
  <1>3. CASE o.psk # None /\ Hash(p.session.suite) # Hash(p.suite)
    <2>1. r = n
      BY <1>3 DEF RetriedPSK
    <2> HIDE DEF r
    <2>2. Bare(k, group, n) /\ n.psk = None
      BY DEF Bare, HelloFields
    <2>3. ~illegalClientHelloChange(n, o)
      BY DEF illegalClientHelloChange, Bare, HelloFields
    <2> HIDE DEF n
    <2> QED
      BY <2>1, <2>2, <2>3 DEF Offer, Bare, r
  <1> QED
    BY <1>1, <1>2, <1>3

LEMMA RetryGoes ==
    ASSUME AgreeInv, TicketInv, CauseInv, processHelloRetryRequest
    PROVE  CauseInv'
  <1> DEFINE group == c.serverHello.group
             x == sendDummyChangeCipherSpec(c)
             t == <<messageHash(c.hello), c.serverHello>>
             p == [x EXCEPT !.transcript = t]
             o == [c.hello EXCEPT !.share = [group |-> group, n |-> 2]]
             m == RetriedPSK(p, o)
             w == Say(p, m)
             r == [w EXCEPT !.hello = m, !.pc = "secondServerHello"]
             rec == hsRec(None, m)
             d == c'
             tv == toServer'
             tc == toClient'
  <1>1. /\ c.pc = "helloRetryRequest" /\ tc = toClient
        /\ ~illegalRetry(c.hello, group) => ClientBecomes(r)
    BY DEF processHelloRetryRequest, ClientDoes
  <1>2. /\ DOMAIN c = ConnFields /\ c.pc # "failed" /\ c.err = None
        /\ IsSeq(c.transcript)
    BY <1>1, WiresNow DEF CauseInv, Blameless
  <1>3. /\ Idle(c) /\ Retries(conf, s)
        /\ Offer(conf, c.session, <<>>, Head(conf.clientGroups), c.hello)
        /\ c.hello = s.hello /\ c.suite = s.suite /\ c.serverHello = RetryMsg(s)
        /\ toServer = <<>> /\ OnlyCCS(toClient)
    BY <1>1, StageAt DEF Retrying
  <1>4. group = s.group /\ Digest(c.serverHello) = c.serverHello
    BY <1>3, RetryMsgParts
  <1>5. ClientBecomes(r)
    BY <1>1, <1>3, <1>4 DEF illegalRetry, Retries
  <1>6. t = s.transcript
    BY <1>3, <1>4 DEF Retries
  <1>7. /\ Bare(conf, group, o) /\ o.psk = c.hello.psk
        /\ ~illegalClientHelloChange(o, c.hello)
    BY <1>3 DEF Offer, Bare, HelloFields, illegalClientHelloChange
  <1>8. o.psk # None => c.session # None /\ o.psk = c.session.ticket
    BY <1>3, <1>7 DEF Offer
  <1> HIDE DEF o, t, group
  <1>9. /\ Keeps(x, c, {"ccs", "sendBuf"})
        /\ x.sendBuf = <<>> \/ \E y : x.sendBuf = <<y>> /\ y.typ = "ccs"
    <2> DEFINE y == [typ |-> "ccs", key |-> c.out, msg |-> None]
    <2>1. /\ Keeps(x, c, {"ccs", "sendBuf"})
          /\ x.sendBuf = c.sendBuf \/ x.sendBuf = Append(c.sendBuf, y)
      BY <1>2, CCSKeeps
    <2>2. c.sendBuf = <<>> /\ y.typ = "ccs"
      BY <1>3 DEF Idle
    <2> HIDE DEF y, x
    <2> QED
      BY <2>1, <2>2, EmptyConcat
  <1> HIDE DEF x
  <1>10. /\ Keeps(p, x, {"transcript"}) /\ p.transcript = t
         /\ p.session = c.session /\ p.sendBuf = x.sendBuf /\ p.out = None
    BY <1>3, <1>9 DEF Keeps, ConnFields, Idle
  <1> HIDE DEF p
  <1>11. /\ Offer(conf, c.session, t, group, m)
         /\ ~illegalClientHelloChange(m, o)
    BY <1>7, <1>8, <1>10, RetriedFits
  <1>12. ~illegalClientHelloChange(m, s.hello)
    BY <1>3, <1>7, <1>11 DEF illegalClientHelloChange
  <1> HIDE DEF m
  <1>13. /\ Keeps(w, p, {"transcript", "sendBuf"})
         /\ w.transcript = Append(t, Digest(m))
         /\ w.sendBuf = Append(p.sendBuf, rec)
    <2>1. DOMAIN p = ConnFields
      BY <1>10 DEF Keeps
    <2> QED
      BY <1>10, <2>1, SayKeeps DEF hsRec
  <1> HIDE DEF w
  <1>14. /\ Keeps(r, w, {"hello", "pc"}) /\ r.hello = m
         /\ r.pc = "secondServerHello"
    BY <1>13 DEF Keeps, ConnFields
  <1> HIDE DEF r, rec
  <1>15. /\ r.buffering = FALSE /\ r.in = None /\ r.out = None
         /\ r.certReq = FALSE /\ r.err = None /\ r.suite = s.suite
         /\ r.session = c.session /\ DOMAIN r = ConnFields
         /\ r.transcript = w.transcript /\ r.sendBuf = w.sendBuf
    BY <1>2, <1>3, <1>9, <1>10, <1>13, <1>14 DEF Keeps, ConnFields, Idle
  <1>16. /\ IsSeq(r.sendBuf)
         /\ \/ r.sendBuf = <<rec>>
            \/ CCSNext(r.sendBuf) /\ Tail(r.sendBuf) = <<rec>>
    <2>1. CASE x.sendBuf = <<>>
      BY <1>10, <1>13, <1>15, <2>1, EmptyConcat
    <2>2. ASSUME NEW y, x.sendBuf = <<y>>, y.typ = "ccs"
          PROVE  IsSeq(r.sendBuf) /\ CCSNext(r.sendBuf) /\ Tail(r.sendBuf) = <<rec>>
      <3> DEFINE b == x.sendBuf
                 u == <<rec>>
                 v == r.sendBuf
      <3>1. IsSeq(b) /\ IsSeq(u) /\ OnlyCCS(b) /\ b # <<>> /\ IsSeq(<<>>)
        BY <2>2, EmptyConcat DEF OnlyCCS
      <3>2. Appended(v, b, rec) /\ Cons(rec, <<>>) = u
        BY <1>10, <1>13, <1>15, EmptyConcat DEF Appended
      <3> HIDE DEF b, u, v
      <3>3. IsSeq(v) /\ v \o <<>> = b \o u
        BY <3>1, <3>2, AppendThen
      <3>4. v = b \o u
        BY <3>3, EmptyConcat
      <3>5. CCSNext(b \o u) /\ Tail(b \o u) = u
        BY <3>1, CCSParts
      <3> QED
        BY <3>3, <3>4, <3>5 DEF u, v
    <2> QED
      BY <1>9, <2>1, <2>2
  <1>17. /\ Keeps(d, r, {"sendBuf", "cache"}) /\ d.sendBuf = <<>>
         /\ tv = r.sendBuf /\ s' = s /\ conf' = conf
    BY <1>3, <1>5, <1>15, <1>16, ClientSends
  <1> HIDE DEF d, tv, tc
  <1>18. /\ d.buffering = FALSE /\ d.in = None /\ d.out = None
         /\ d.certReq = FALSE /\ d.err = None /\ d.hello = m
         /\ d.session = c.session /\ d.pc = "secondServerHello"
         /\ d.suite = s.suite /\ d.transcript = r.transcript
    BY <1>14, <1>15, <1>17 DEF Keeps, ConnFields
  <1>19. Regreets(conf, d, s.transcript, s.group)
    BY <1>4, <1>6, <1>11, <1>13, <1>15, <1>17, <1>18 DEF Regreets, Idle
  <1>20. Regreeting(conf, d, s, tv, tc)
    BY <1>1, <1>3, <1>12, <1>16, <1>17, <1>18, <1>19 DEF Regreeting, rec
  <1>21. Stage(conf, d, s, tv, tc)
    BY <1>20 DEF Stage
  <1> QED
    BY <1>2, <1>17, <1>18, <1>21, ClientProceeds DEF d, tv, tc


LEMMA ReadSecondServerHelloGoes ==
    ASSUME AgreeInv, TicketInv, CauseInv, ReadSecondServerHello
    PROVE  CauseInv'
  <1> DEFINE rec == Head(toClient)
             m == rec.msg
             g == Receive(c, rec, {"serverHello"})
             r == checkServerHelloOrHRR(c, m)
             bad == s.pc = "failed"
  <1>1. /\ c.pc = "secondServerHello" /\ toClient # <<>> /\ rec.typ # "ccs"
        /\ toClient' = Tail(toClient)
        /\ \/ ClientBecomes(g) /\ g.pc = "failed"
           \/ g.pc # "failed" /\ ClientBecomes(checkServerHelloOrHRR(g, m))
    BY DEF ReadSecondServerHello, ClientReads, Then
  <1>2. /\ DOMAIN c = ConnFields /\ c.pc # "failed" /\ c.err = None
    BY <1>1, WiresNow DEF CauseInv, Blameless
  <1>3. ~OnlyCCS(toClient)
    BY <1>1, CCSParts DEF CCSNext
  <1>4. Delivered(conf, c, s, toServer, toClient)
    BY <1>1, <1>3, StageAt DEF Regreeting, Answering
  <1>5. InFlightNow
    BY <1>4, FlightNow
  <1>6. c.in = None /\ FedAgain(conf, bad, c, s.in, toClient)
    BY <1>1, <1>4 DEF Delivered, Feeds, Idle
  <1> HIDE DEF bad
  <1>7. FedHello(conf, bad, c, s.in, toClient)
    BY <1>1, <1>6 DEF FedAgain, CCSNext
  <1>8. \/ bad /\ AlertNext(None, toClient)
        \/ /\ Answer(conf, bad, c, s.in, m, toClient)
           /\ Comes(None, m, toClient)
           /\ m.type \in {"serverHello"} /\ m.hrr = FALSE
           /\ c.suite \in {None, m.suite} /\ m.suite \in Range(c.hello.suites)
    BY <1>7, HelloParts
  <1>9. CASE bad /\ AlertNext(None, toClient)
    <2>1. g = Return(c, "remote")
      BY <1>2, <1>6, <1>9, Receives
    <2>2. g.pc = "failed"
      BY <2>1, <1>2, ReturnKeeps
    <2>3. ClientBecomes(g)
      BY <1>1, <2>2
    <2> HIDE DEF g
    <2> QED
      BY <1>5, <1>9, <2>1, <2>3, ReadsRemote DEF bad
  <1>10. CASE /\ Answer(conf, bad, c, s.in, m, toClient)
              /\ Comes(None, m, toClient)
              /\ m.type \in {"serverHello"} /\ m.hrr = FALSE
              /\ c.suite \in {None, m.suite} /\ m.suite \in Range(c.hello.suites)
    <2>1. g = c
      BY <1>2, <1>6, <1>10, Receives
    <2>2. ClientBecomes(r)
      BY <1>1, <1>2, <2>1
    <2> HIDE DEF m, g
    <2>3. /\ Keeps(r, c, {"suite", "serverHello", "pc"}) /\ r.suite = m.suite
          /\ r.serverHello = m /\ r.pc = "processServerHello"
      BY <1>1, <1>2, <1>10, ChecksGood
    <2> HIDE DEF r
    <2>4. r.transcript = Greeted(c)
      BY <1>1, <2>3 DEF Greeted, Keeps, ConnFields
    <2>5. Keeps(r, c, {"suite", "serverHello", "pc", "transcript"})
      BY <2>3 DEF Keeps
    <2>6. Answer(conf, s.pc = "failed", c, s.in, m, toClient)
      BY <1>10 DEF bad
    <2> QED
      BY <1>1, <1>5, <2>2, <2>3, <2>4, <2>5, <2>6, AnswerGoes
  <1> QED
    BY <1>8, <1>9, <1>10

LEMMA ProcessServerHelloGoes ==
    ASSUME AgreeInv, TicketInv, CauseInv, processServerHello
    PROVE  CauseInv'
  <1> DEFINE sh == c.serverHello
             h == Hashed(c, sh)
             p == [h EXCEPT !.buffering = TRUE]
             x == sendDummyChangeCipherSpec(p)
             r == [x EXCEPT !.usingPSK = sh.psk,
                     !.peerCerts = IF sh.psk THEN "server" ELSE @,
                     !.pc = "establishHandshakeKeys"]
             bad == s.pc = "failed"
             key == SecretOf(c.session, c.hello, sh)
  <1>1. /\ c.pc = "processServerHello" /\ toClient' = toClient
        /\ ~sh.hrr /\ sh.share.group = c.hello.share.group
           /\ (sh.psk => c.hello.psk # None /\ Hash(c.session.suite) = Hash(c.suite))
             => ClientBecomes(r)
    BY DEF processServerHello, ClientDoes
  <1>2. c.pc \in ReadsFlight \ {"serverHello", "secondServerHello"}
    BY <1>1 DEF ReadsFlight, KeysSet
  <1>3. InFlightNow
    BY <1>2, FlightNow
  <1>4. DOMAIN c = ConnFields /\ IsSeq(c.transcript) /\ c.pc # "failed"
    BY <1>3 DEF InFlightNow
  <1>5. /\ Fits(c.hello, c.session, sh) /\ c.suite = sh.suite
        /\ FedKeys(conf, bad, key, sh.psk, s.in,
                   Append(c.transcript, Digest(sh)), toClient)
        /\ c.sendBuf = <<>> /\ c.certReq = FALSE
    BY <1>1, <1>3 DEF InFlightNow, Delivered, Feeds
  <1> HIDE DEF bad
  <1>6. ClientBecomes(r)
    BY <1>1, <1>5 DEF Fits
  <1> HIDE DEF sh, key
  <1>7. Keeps(h, c, {"transcript"}) /\ h.transcript = Append(c.transcript, Digest(sh))
    BY <1>4, HashedKeeps
  <1> HIDE DEF h
  <1>8. Keeps(p, h, {"buffering"}) /\ p.buffering = TRUE
    BY <1>7 DEF Keeps, ConnFields
  <1> HIDE DEF p
  <1>9. DOMAIN p = ConnFields /\ p.sendBuf = <<>> /\ p.transcript = h.transcript
    BY <1>5, <1>7, <1>8 DEF Keeps, ConnFields
  <1>10. Keeps(x, p, {"ccs", "sendBuf"}) /\ OnlyCCS(x.sendBuf)
    <2> DEFINE y == [typ |-> "ccs", key |-> p.out, msg |-> None]
    <2>1. /\ Keeps(x, p, {"ccs", "sendBuf"})
          /\ x.sendBuf = p.sendBuf \/ x.sendBuf = Append(p.sendBuf, y)
      BY <1>9, CCSKeeps
    <2>2. y.typ = "ccs"
      OBVIOUS
    <2> HIDE DEF y, x
    <2>3. x.sendBuf = <<>> \/ x.sendBuf = <<y>>
      BY <1>9, <2>1, EmptyConcat
    <2> QED
      BY <2>1, <2>2, <2>3 DEF OnlyCCS
  <1> HIDE DEF x
  <1>11. /\ Keeps(r, x, {"usingPSK", "peerCerts", "pc"}) /\ r.usingPSK = sh.psk
         /\ r.pc = "establishHandshakeKeys"
    BY <1>10 DEF Keeps, ConnFields
  <1> HIDE DEF r
  <1>12. /\ r.transcript = h.transcript /\ r.buffering = TRUE
         /\ r.sendBuf = x.sendBuf /\ r.session = c.session /\ r.hello = c.hello
         /\ r.suite = c.suite /\ r.serverHello = sh /\ r.err = c.err
         /\ r.certReq = FALSE /\ DOMAIN r = ConnFields
    BY <1>5, <1>7, <1>8, <1>9, <1>10, <1>11 DEF Keeps, ConnFields, sh
  <1>13. Feeds(conf, bad, r, s.in, toClient)
    BY <1>5, <1>7, <1>11, <1>12 DEF Feeds, key
  <1>14. Delivered(conf, r, s, <<>>, toClient')
    BY <1>1, <1>3, <1>10, <1>11, <1>12, <1>13
       DEF Delivered, InFlightNow, ReadsFlight, KeysSet, bad
  <1>15. ReadsOn(r)
    BY <1>3, <1>6, <1>12, <1>14 DEF ReadsOn, InFlightNow
  <1> QED
    BY <1>3, <1>15, ClientReadsOn DEF InFlightNow

LEMMA EstablishGoes ==
    ASSUME AgreeInv, TicketInv, CauseInv, establishHandshakeKeys
    PROVE  CauseInv'
  <1> DEFINE secret == HandshakeSecret(c.suite, PSKOf(c.session, c.usingPSK),
                                       c.hello.share, c.serverHello.share)
             key == clientKey(secret, c.transcript)
             other == ServerKey(secret, c.transcript)
             r == [c EXCEPT !.secret = secret, !.out = key, !.in = other,
                            !.pc = "serverParameters"]
             bad == s.pc = "failed"
  <1>1. /\ c.pc = "establishHandshakeKeys" /\ ClientBecomes(r)
        /\ toClient' = toClient
    BY Zenon DEF establishHandshakeKeys, ClientDoes, clientKey, ServerKey, PSKOf
  <1>2. c.pc \in ReadsFlight \ {"serverHello", "secondServerHello"}
    BY <1>1 DEF ReadsFlight, KeysSet
  <1>3. InFlightNow
    BY <1>2, FlightNow
  <1>4. DOMAIN c = ConnFields
    BY <1>3 DEF InFlightNow
  <1>5. /\ c.usingPSK = c.serverHello.psk /\ c.suite = c.serverHello.suite
        /\ FedKeys(conf, bad, SecretOf(c.session, c.hello, c.serverHello),
                   c.usingPSK, s.in, c.transcript, toClient)
        /\ c.certReq = FALSE /\ c.buffering = TRUE /\ OnlyCCS(c.sendBuf)
    BY <1>1, <1>3 DEF InFlightNow, Delivered, Feeds
  <1>6. SecretOf(c.session, c.hello, c.serverHello) = secret
    BY <1>5 DEF SecretOf
  <1> HIDE DEF bad, secret
  <1>7. s.in = key /\ FedKeyed(conf, bad, c.usingPSK, other, c.transcript, toClient)
    BY <1>5, <1>6 DEF FedKeys
  <1> HIDE DEF key, other
  <1>8. /\ Keeps(r, c, {"secret", "out", "in", "pc"})
        /\ r.out = s.in /\ r.in = other /\ r.pc = "serverParameters"
    BY <1>4, <1>7 DEF Keeps, ConnFields
  <1> HIDE DEF r
  <1>9. /\ r.transcript = c.transcript /\ r.buffering = TRUE
        /\ r.sendBuf = c.sendBuf /\ r.session = c.session
        /\ r.usingPSK = c.usingPSK /\ r.err = c.err /\ r.certReq = FALSE
        /\ DOMAIN r = ConnFields
    BY <1>5, <1>8 DEF Keeps, ConnFields
  <1>10. Feeds(conf, bad, r, s.in, toClient)
    BY <1>7, <1>8, <1>9 DEF Feeds
  <1>11. Delivered(conf, r, s, <<>>, toClient')
    BY <1>1, <1>3, <1>5, <1>8, <1>9, <1>10
       DEF Delivered, InFlightNow, ReadsFlight, KeysSet, bad
  <1>12. ReadsOn(r)
    BY <1>1, <1>3, <1>9, <1>11 DEF ReadsOn, InFlightNow
  <1> QED
    BY <1>3, <1>12, ClientReadsOn DEF InFlightNow

\* The wire changes, the ends stay.
LEMMA WireMoves ==
    ASSUME CauseInv, conf' = conf, c' = c, s' = s,
           Stage(conf, c, s, toServer', toClient')
    PROVE  CauseInv'
  <1>1. Blameless(conf, c, s) /\ CausesHold(conf, c, s)
    BY CausesForm DEF CauseInv
  <1>2. FailuresHaveACause'
    BY <1>1, CausesForm
  <1> DEFINE tc == toClient'
             tv == toServer'
  <1>3. Stage(conf, c, s, tv, tc)
    OBVIOUS
  <1> QED
    BY <1>1, <1>2, <1>3 DEF CauseInv

LEMMA ClientDropsGoes ==
    ASSUME AgreeInv, TicketInv, CauseInv, ClientDropsCCS
    PROVE  CauseInv'
  <1> DEFINE u == Tail(toClient)
             bad == s.pc = "failed"
             tc == toClient'
  <1>1. /\ ClientWaits /\ CCSNext(toClient) /\ tc = u
        /\ conf' = conf /\ c' = c /\ s' = s /\ toServer' = toServer
    BY DEF ClientDropsCCS, CCSNext
  <1>2. c.pc # "serverHello" /\ (c.pc = "serverCertificate" => ~c.usingPSK)
    BY <1>1 DEF ClientWaits
  <1>3. ASSUME OnlyCCS(toClient) PROVE OnlyCCS(u)
    <2>1. u = <<>>
      BY <1>1, <1>3, CCSParts DEF CCSNext
    <2> HIDE DEF u
    <2> QED
      BY <2>1 DEF OnlyCCS
  <1>4. CASE c.pc = "secondServerHello"
    <2>1. CASE Regreeting(conf, c, s, toServer, toClient)
      <3>1. OnlyCCS(u)
        BY <1>3, <2>1 DEF Regreeting
      <3> HIDE DEF u
      <3>2. Stage(conf, c, s, toServer, u)
        BY <2>1, <3>1 DEF Regreeting, Stage
      <3> QED
        BY <1>1, <3>2, WireMoves
    <2>2. CASE Answering(conf, c, s, toServer, toClient)
      <3>1. OnlyCCS(u)
        BY <1>3, <2>2 DEF Answering
      <3> HIDE DEF u
      <3>2. Answering(conf, c, s, toServer, u)
        BY <1>4, <2>2, <3>1 DEF Answering
      <3>3. Stage(conf, c, s, toServer, u)
        BY <3>2 DEF Stage
      <3> QED
        BY <1>1, <3>3, WireMoves
    <2>3. CASE Delivered(conf, c, s, toServer, toClient)
      <3>1. FedAgain(conf, bad, c, s.in, toClient)
        BY <1>4, <2>3 DEF Delivered, Feeds
      <3> HIDE DEF bad
      <3>2. FedHello(conf, bad, c, s.in, u)
        BY <1>1, <3>1 DEF FedAgain, FedHello, Answer, Comes, hsRec, AlertNext, CCSNext
      <3> HIDE DEF u
      <3>3. FedAgain(conf, bad, c, s.in, u)
        BY <3>2 DEF FedAgain
      <3>4. Feeds(conf, bad, c, s.in, u)
        BY <1>4, <3>3 DEF Feeds
      <3>5. Delivered(conf, c, s, toServer, u)
        BY <2>3, <3>4 DEF Delivered, bad
      <3>6. Stage(conf, c, s, toServer, u)
        BY <3>5 DEF Stage
      <3> QED
        BY <1>1, <3>6, WireMoves
    <2> QED
      BY <1>4, <2>1, <2>2, <2>3, StageAt
  <1>5. CASE c.pc # "secondServerHello"
    <2>1. c.pc \in ReadsFlight \ {"serverHello", "secondServerHello"}
      BY <1>1, <1>5 DEF ClientWaits, ReadsFlight, KeysSet
    <2>2. InFlightNow
      BY <2>1, FlightNow
    <2>3. Delivered(conf, c, s, toServer, toClient)
      BY <2>2 DEF InFlightNow
    <2>4. Feeds(conf, bad, c, s.in, toClient)
      BY <2>3 DEF Delivered
    <2>5. ~Comes(c.in, Head(toClient).msg, toClient)
      BY <1>1 DEF Comes, hsRec, CCSNext
    <2>6. \A m : ~Comes(c.in, m, toClient)
      BY <1>1 DEF Comes, hsRec, CCSNext
    <2>7. c.pc = "serverParameters"
      BY <1>1, <1>2, <1>5, <2>4, <2>6
         DEF ClientWaits, Feeds, FedServer, FedFin, FedVerify, FedCert, FedRequest
    <2>8. FedKeyed(conf, bad, c.usingPSK, c.in, c.transcript, toClient)
      BY <2>4, <2>7 DEF Feeds
    <2> HIDE DEF bad
    <2>9. FedParams(conf, bad, c.usingPSK, c.in, c.transcript, u)
      BY <1>1, <2>6, <2>8 DEF FedKeyed, FedParams, Extensions, AlertNext, CCSNext
    <2> HIDE DEF u
    <2>10. FedKeyed(conf, bad, c.usingPSK, c.in, c.transcript, u)
      BY <2>9 DEF FedKeyed
    <2>11. Feeds(conf, bad, c, s.in, u)
      BY <2>7, <2>10 DEF Feeds
    <2>12. Delivered(conf, c, s, toServer, u)
      BY <2>3, <2>11 DEF Delivered, bad
    <2>13. Stage(conf, c, s, toServer, u)
      BY <2>12 DEF Stage
    <2> QED
      BY <1>1, <2>13, WireMoves
  <1> QED
    BY <1>4, <1>5

LEMMA ClientGoes ==
    ASSUME AgreeInv, TicketInv, CauseInv, ClientNext PROVE CauseInv'
  BY ClientHelloGoes, ReadServerHelloGoes, RetryGoes, ReadSecondServerHelloGoes,
     ProcessServerHelloGoes, EstablishGoes, ReadParametersGoes, ResumeGoes,
     ReadCertificateGoes, ReadCertificateVerifyGoes, ReadFinishedGoes,
     SendCertificateGoes, SendFinishedGoes, ClientDropsGoes DEF ClientNext

-----------------------------------------------------------------------------
(* The server's steps.                                                     *)

LEMMA LeastOf ==
    ASSUME NEW T, T \subseteq Nat, T # {}
    PROVE  \E m \in T : \A i \in T : m <= i
  <1>1. PICK m \in T : \A i \in T : ~(<<i, m>> \in OpToRel(<, Nat))
    BY NatLessThanWellFounded, WFMin
  <1>2. \A i \in T : ~(<<i, m>> \in {ss \in Nat \X Nat : ss[1] < ss[2]})
    BY <1>1 DEF OpToRel
  <1>3. \A i \in T : ~(i < m)
    BY <1>2
  <1> QED
    BY <1>3

LEMMA FirstInFinds ==
    ASSUME NEW T, None \notin T, NEW seq \in Seq(T), NEW S
    PROVE  /\ FirstIn(seq, S) = None => Range(seq) \cap S = {}
           /\ FirstIn(seq, S) # None =>
                FirstIn(seq, S) \in Range(seq) /\ FirstIn(seq, S) \in S
  <1> DEFINE hits == {i \in DOMAIN seq : seq[i] \in S}
             k == CHOOSE i \in hits : \A j \in hits : i <= j
  <1>1. DOMAIN seq \subseteq Nat /\ \A i \in DOMAIN seq : seq[i] \in T
    BY LenProperties
  <1>2. FirstIn(seq, S) = IF hits = {} THEN None ELSE seq[k]
    BY DEF FirstIn
  <1>3. hits = {} => Range(seq) \cap S = {}
    BY DEF Range
  <1>4. ASSUME hits # {} PROVE k \in hits
    <2>1. hits \subseteq Nat
      BY <1>1
    <2> HIDE DEF hits
    <2>2. \E m \in hits : \A j \in hits : m <= j
      BY <1>4, <2>1, LeastOf
    <2> QED
      BY <2>2
  <1>5. ASSUME hits # {}
        PROVE  seq[k] \in S /\ seq[k] \in Range(seq) /\ seq[k] # None
    <2> HIDE DEF k
    <2> QED
      BY <1>1, <1>4, <1>5 DEF Range
  <1> HIDE DEF hits, k
  <1> QED
    BY <1>2, <1>3, <1>5

AEADs == {"aes128", "aes256", "chacha"}

LEMMA SuitesPreferred ==
    ASSUME NEW b
    PROVE  SuitePreference(b) \in Seq(AEADs) /\ "aes128" \in Range(SuitePreference(b))
  <1>1. /\ <<"aes128", "aes256", "chacha">> \in Seq(AEADs)
        /\ <<"chacha", "aes128", "aes256">> \in Seq(AEADs)
    BY DEF AEADs
  <1>2. /\ "aes128" \in Range(<<"aes128", "aes256", "chacha">>)
        /\ "aes128" \in Range(<<"chacha", "aes128", "aes256">>)
    <2> DEFINE u == <<"aes128", "aes256", "chacha">>
               v == <<"chacha", "aes128", "aes256">>
    <2>1. 1 \in DOMAIN u /\ u[1] = "aes128" /\ 2 \in DOMAIN v /\ v[2] = "aes128"
      OBVIOUS
    <2> HIDE DEF u, v
    <2>2. "aes128" \in Range(u) /\ "aes128" \in Range(v)
      BY <2>1 DEF Range
    <2> QED
      BY <2>2 DEF u, v
  <1> QED
    BY <1>1, <1>2 DEF SuitePreference

\* The hellos of this client offer a suite the server has.
LEMMA SuiteFound ==
    ASSUME NEW m, NEW b, m.suites = SuitePreference(b)
    PROVE  SelectedSuite(m) # None /\ SelectedSuite(m) \in Range(m.suites)
  <1> DEFINE aes == conf.serverAES /\ Head(m.suites) \in {"aes128", "aes256"}
             u == SuitePreference(aes)
             S == Range(m.suites)
             x == FirstIn(u, S)
  <1>1. SelectedSuite(m) = x
    BY DEF SelectedSuite
  <1> HIDE DEF aes
  <1>2. u \in Seq(AEADs) /\ "aes128" \in Range(u) /\ "aes128" \in S
    BY SuitesPreferred
  <1>3. None \notin AEADs
    BY NoneAssumption DEF AEADs
  <1> HIDE DEF u, S
  <1>4. /\ x = None => Range(u) \cap S = {}
        /\ x # None => x \in Range(u) /\ x \in S
    BY <1>2, <1>3, FirstInFinds
  <1> HIDE DEF x
  <1> QED
    BY <1>1, <1>2, <1>4 DEF S

\* They find no group only if there is none.
LEMMA GroupFound ==
    ASSUME conf \in Configs, NEW m, m.groups = conf.clientGroups,
           m.share.group = Head(conf.clientGroups)
    PROVE  /\ SelectedGroup(m) = None => ~Groups(conf)
           /\ SelectedGroup(m) # None => SelectedGroup(m) \in Range(conf.clientGroups)
  <1> DEFINE u == conf.serverGroups
             v == conf.clientGroups
             x == FirstIn(u, Range(v))
  <1>1. u \in Seq(STRING) /\ v \in Seq(STRING) /\ v # <<>> /\ None \notin STRING
    BY ConfigAssumption, NoneAssumption
  <1>2. SelectedGroup(m) = IF m.share.group \in Range(u) THEN m.share.group ELSE x
    BY DEF SelectedGroup
  <1>3. Groups(conf) <=> \E g \in Range(v) : g \in Range(u)
    BY DEF Groups
  <1> HIDE DEF u
  <1>4. m.share.group \in STRING /\ m.share.group \in Range(v)
    <2>1. 1 \in DOMAIN v /\ Head(v) = v[1] /\ v[1] \in STRING
      BY <1>1, HeadTailProperties, LenProperties, EmptySeq
    <2>2. Head(v) \in Range(v)
      BY <2>1 DEF Range
    <2> QED
      BY <2>1, <2>2
  <1> HIDE DEF v
  <1>5. /\ x = None => Range(u) \cap Range(v) = {}
        /\ x # None => x \in Range(u) /\ x \in Range(v)
    BY <1>1, FirstInFinds
  <1> HIDE DEF x
  <1>6. /\ SelectedGroup(m) = None => ~Groups(conf)
        /\ SelectedGroup(m) # None => SelectedGroup(m) \in Range(v)
    BY <1>1, <1>2, <1>3, <1>4, <1>5
  <1> QED
    BY <1>6 DEF v

LEMMA ServerCauses ==
    ASSUME FailuresHaveACause, s.pc # "failed", conf' = conf, c' = c,
           s'.err = None \/ ServerFault(conf, s'.err, c)
    PROVE  FailuresHaveACause'
  <1> DEFINE q == s'
  <1>1. c.err # None => ClientFault(conf, c.err, s)
    BY CausesForm DEF CausesHold
  <1>2. q.err = None \/ ServerFault(conf, q.err, c)
    OBVIOUS
  <1> HIDE DEF q
  <1>3. c.err # None => ClientFault(conf, c.err, q)
    BY <1>1 DEF ClientFault
  <1>4. CausesHold(conf, c, q)
    BY <1>2, <1>3 DEF CausesHold
  <1> QED
    BY <1>4, CausesForm DEF q

\* The server goes on, or fails for a reason.
LEMMA ServerProceeds ==
    ASSUME CauseInv, s.pc # "failed", conf' = conf, c' = c,
           \/ s'.err = None /\ s'.pc # "failed"
           \/ s'.pc = "failed" /\ ServerFault(conf, s'.err, c),
           Stage(conf, c, s', toServer', toClient')
    PROVE  CauseInv'
  <1>1. FailuresHaveACause'
    BY ServerCauses DEF CauseInv
  <1>2. Blameless(conf, c, s')
    BY ServerBlameless DEF CauseInv
  <1> QED
    BY <1>1, <1>2 DEF CauseInv

LEMMA ServerSends ==
    ASSUME NEW r, DOMAIN r = ConnFields, ServerBecomes(r)
    PROVE  /\ Keeps(s', r, {"sendBuf"}) /\ c' = c /\ conf' = conf
           /\ ~r.buffering => s'.sendBuf = <<>> /\ toClient' = toClient \o r.sendBuf
           /\ r.buffering => s'.sendBuf = r.sendBuf /\ toClient' = toClient \o <<>>
  BY DEF ServerBecomes, Keeps, ConnFields, Kept, Passed

\* Where the client is while the server reads or writes.
LEMMA ServerStageAt ==
    ASSUME CauseInv
    PROVE  /\ s.pc = "clientHello" /\ toServer # <<>> =>
                Greeting(conf, c, s, toServer, toClient)
           /\ s.pc = "secondClientHello" =>
                \/ Retried(conf, c, s, toServer, toClient)
                \/ Retrying(conf, c, s, toServer, toClient)
                \/ Regreeting(conf, c, s, toServer, toClient)
           /\ s.pc \in {"checkForResumption", "pickCertificate",
                        "sendServerParameters", "sendServerCertificate",
                        "sendServerFinished"} =>
                Answering(conf, c, s, toServer, toClient)
           /\ s.pc \in After \ {"failed"} =>
                \/ Delivered(conf, c, s, toServer, toClient)
                \/ Completing(conf, c, s, toServer, toClient)
                \/ Refusing(conf, c, s, toServer, toClient)
  <1>1. /\ Starting(conf, c, s, toServer, toClient) =>
             s.pc = "clientHello" /\ toServer = <<>>
        /\ Greeting(conf, c, s, toServer, toClient) => s.pc = "clientHello"
    BY DEF Starting, Greeting, NewConn
  <1>2. /\ Retried(conf, c, s, toServer, toClient) => s.pc = "secondClientHello"
        /\ Retrying(conf, c, s, toServer, toClient) => s.pc = "secondClientHello"
        /\ Regreeting(conf, c, s, toServer, toClient) => s.pc = "secondClientHello"
    BY DEF Retried, Retrying, Regreeting, Retries
  <1>3. Answering(conf, c, s, toServer, toClient) =>
          s.pc \in {"checkForResumption", "pickCertificate",
                    "sendServerParameters", "sendServerCertificate",
                    "sendServerFinished"}
    BY DEF Answering
  <1>4. /\ Delivered(conf, c, s, toServer, toClient) => s.pc \in After
        /\ Completing(conf, c, s, toServer, toClient) => s.pc \in After
        /\ Refusing(conf, c, s, toServer, toClient) => s.pc \in After
    BY DEF Delivered, Completing, Refusing, Awaits, After
  <1> QED
    BY <1>1, <1>2, <1>3, <1>4 DEF CauseInv, Stage, After

\* The server fails before it has written anything but a retry.
LEMMA AnswersAlert ==
    ASSUME CauseInv, c.pc \in {"serverHello", "secondServerHello"}, Idle(c),
           OnlyCCS(toClient), c.pc = "serverHello" => toClient = <<>>,
           s.pc # "failed", NEW x, DOMAIN x = ConnFields, x.sendBuf = <<>>,
           x.out = None, NEW a, ServerFault(conf, a, c),
           ServerBecomes(Alert(x, a)), toServer' = <<>>
    PROVE  CauseInv'
  <1> DEFINE r == Alert(x, a)
             rec == [typ |-> "alert", key |-> x.out, msg |-> [type |-> a]]
             u == Cons(rec, <<>>)
             q == s'
             tc == toClient'
             tv == toServer'
  <1>1. ServerBecomes(r)
    OBVIOUS
  <1>2. /\ Keeps(r, x, {"pc", "err", "buffering", "sendBuf"}) /\ r.pc = "failed"
        /\ r.err = a /\ r.sendBuf = Append(x.sendBuf, rec)
        /\ r.buffering <=> (x.buffering /\ r.sendBuf = <<>>)
    BY AlertParts
  <1> HIDE DEF r
  <1>3. rec.typ = "alert" /\ rec.key = None
    OBVIOUS
  <1> HIDE DEF rec
  <1>4. /\ r.sendBuf = u /\ IsSeq(u) /\ AlertNext(None, u) /\ u # <<>>
    <2>1. u = <<rec>> /\ Append(<<>>, rec) = <<rec>> /\ IsSeq(<<>>)
      BY EmptyConcat
    <2>2. IsSeq(u) /\ AlertNext(None, u)
      BY <1>3, <2>1, NextCons
    <2> QED
      BY <1>2, <2>1, <2>2 DEF AlertNext
  <1> HIDE DEF u
  <1>5. DOMAIN r = ConnFields /\ ~r.buffering
    BY <1>2, <1>4 DEF Keeps
  <1>6. /\ Keeps(q, r, {"sendBuf"}) /\ c' = c /\ conf' = conf
        /\ tc = toClient \o u
    BY <1>1, <1>4, <1>5, ServerSends
  <1>7. (toClient = <<>> /\ tc = u) \/ (CCSNext(tc) /\ Tail(tc) = u)
    BY <1>4, <1>6, CCSParts
  <1>8. q.pc = "failed" /\ q.err = a
    BY <1>2, <1>6 DEF Keeps, ConnFields
  <1> HIDE DEF q, tc, tv
  <1>9. \A in : /\ FedAgain(conf, TRUE, c, in, tc)
                /\ c.pc = "serverHello" => FedHello(conf, TRUE, c, in, tc)
    <2>1. \A in : FedHello(conf, TRUE, c, in, u)
      BY <1>4 DEF FedHello
    <2>2. c.pc = "serverHello" => tc = u
      BY <1>6, <1>4, EmptyConcat
    <2> QED
      BY <1>7, <2>1, <2>2 DEF FedAgain
  <1>10. Feeds(conf, TRUE, c, q.in, tc)
    BY <1>9 DEF Feeds
  <1>11. Delivered(conf, c, q, tv, tc)
    BY <1>8, <1>10 DEF Delivered, ReadsFlight, KeysSet, OnlyCCS, Idle, tv
  <1>12. Stage(conf, c, q, tv, tc)
    BY <1>11 DEF Stage
  <1> QED
    BY <1>6, <1>8, <1>12, ServerProceeds DEF q, tv, tc

LEMMA ShortWire ==
    ASSUME NEW x, NEW ts, ts = <<x>>
    PROVE  /\ IsSeq(ts) /\ ts # <<>> /\ Tail(ts) = <<>> /\ Head(ts) = x
           /\ \A key, m : x = hsRec(key, m) => Comes(key, m, ts)
  <1>1. ts = Cons(x, <<>>) /\ IsSeq(<<>>)
    BY EmptyConcat
  <1> QED
    BY <1>1, ConsSeq DEF Comes

LEMMA AppendOne ==
    ASSUME NEW x, NEW y, NEW w, NEW u, u = <<x>>, w = Append(u, y)
    PROVE  w = <<x, y>>
  <1> DEFINE S == {x, y}
             v == <<x, y>>
  <1>1. u \in Seq(S) /\ v \in Seq(S) /\ y \in S /\ Len(u) = 1 /\ u[1] = x
    OBVIOUS
  <1>2. Len(v) = 2 /\ v[1] = x /\ v[2] = y
    OBVIOUS
  <1> HIDE DEF S, v
  <1>3. /\ w \in Seq(S) /\ Len(w) = 2 /\ w[2] = y /\ w[1] = x
    BY <1>1, AppendProperties
  <1>4. \A i \in 1 .. Len(w) : w[i] = v[i]
    BY <1>2, <1>3
  <1>5. w = v
    BY <1>1, <1>2, <1>3, <1>4, SeqEqual
  <1> QED
    BY <1>5 DEF v

LEMMA ReadClientHelloGoes ==
    ASSUME AgreeInv, TicketInv, CauseInv, ReadClientHello
    PROVE  CauseInv'
  <1> DEFINE rec == Head(toServer)
             m == rec.msg
             g == Receive(s, rec, {"clientHello"})
             suite == SelectedSuite(m)
             group == SelectedGroup(m)
             Q(x) == [x EXCEPT !.hello = m, !.suite = suite, !.group = group]
             q == Q(s)
             one == <<messageHash(q.hello)>>
             k == [q EXCEPT !.transcript = one]
             hrr == serverHelloMsg(q.suite, TRUE, group, None, FALSE)
             w == Say(k, hrr)
             x == sendDummyChangeCipherSpec(w)
             e == [x EXCEPT !.pc = "secondClientHello"]
             f == [q EXCEPT !.pc = "checkForResumption"]
             a == Alert(q, "handshake_failure")
             d == s'
             tc == toClient'
             tv == toServer'
  <1>1. /\ s.pc = "clientHello" /\ toServer # <<>> /\ tv = Tail(toServer)
        /\ g.pc # "failed" =>
             \/ /\ suite = None \/ group = None
                /\ ServerBecomes(Alert(Q(g), "handshake_failure"))
             \/ /\ suite # None /\ group # None /\ group # m.share.group
                /\ ServerBecomes(doHelloRetryRequest(Q(g), group))
             \/ /\ suite # None /\ group # None /\ group = m.share.group
                /\ ServerBecomes([Q(g) EXCEPT !.pc = "checkForResumption"])
    BY DEF ReadClientHello, ServerReads, Then
  <1>2. Greeting(conf, c, s, toServer, toClient)
    BY <1>1, ServerStageAt
  <1>3. /\ Greets(conf, c) /\ s = NewConn("clientHello", None)
        /\ toServer = <<hsRec(None, c.hello)>> /\ toClient = <<>>
    BY <1>2 DEF Greeting
  <1>4. /\ DOMAIN s = ConnFields /\ s.pc # "failed" /\ s.err = None
        /\ s.in = None /\ s.out = None /\ s.sendBuf = <<>>
        /\ s.transcript = <<>> /\ s.buffering = FALSE /\ s.certReq = FALSE
        /\ s.psk = None /\ s.usingPSK = FALSE
    BY <1>3 DEF NewConn, ConnFields
  <1>5. Comes(s.in, c.hello, toServer) /\ tv = <<>>
    BY <1>1, <1>3, <1>4, ShortWire
  <1>6. /\ c.pc = "serverHello" /\ Idle(c) /\ c.transcript = <<>>
        /\ Offer(conf, c.session, <<>>, Head(conf.clientGroups), c.hello)
        /\ c.suite = None
    BY <1>3 DEF Greets
  <1>7. /\ DOMAIN c.hello = HelloFields /\ c.hello.type \in {"clientHello"}
        /\ c.hello.suites = SuitePreference(conf.clientAES)
        /\ c.hello.groups = conf.clientGroups
        /\ c.hello.share.group = Head(conf.clientGroups)
    BY <1>6 DEF Offer
  <1>8. g = s /\ m = c.hello
    BY <1>4, <1>5, <1>7, Receives
  <1>9. suite # None /\ suite \in Range(m.suites)
    BY <1>7, <1>8, SuiteFound
  <1>10. /\ group = None => ~Groups(conf)
         /\ group # None => group \in Range(conf.clientGroups)
    BY <1>7, <1>8, GroupFound DEF CauseInv, Blameless
  <1>11. \/ group = None /\ ServerBecomes(a)
         \/ group # None /\ group # m.share.group /\ ServerBecomes(e)
         \/ group # None /\ group = m.share.group /\ ServerBecomes(f)
    BY <1>1, <1>4, <1>8, <1>9 DEF doHelloRetryRequest
  <1> HIDE DEF suite, group, m, g
  <1>12. /\ Keeps(q, s, {"hello", "suite", "group"}) /\ q.hello = m
         /\ q.suite = suite /\ q.group = group
    BY <1>4 DEF Keeps, ConnFields
  <1> HIDE DEF q
  <1>13. /\ DOMAIN q = ConnFields /\ q.sendBuf = <<>> /\ q.out = None
         /\ q.in = None /\ q.transcript = <<>> /\ q.buffering = FALSE
         /\ q.certReq = FALSE /\ q.psk = None /\ q.usingPSK = FALSE
         /\ q.err = None
    BY <1>4, <1>12 DEF Keeps, ConnFields
  <1>14. CASE group = None /\ ServerBecomes(a)
    <2>1. ServerFault(conf, "handshake_failure", c)
      BY <1>10, <1>14 DEF ServerFault
    <2>2. OnlyCCS(toClient)
      BY <1>3 DEF OnlyCCS
    <2> QED
      BY <1>3, <1>4, <1>5, <1>6, <1>13, <1>14, <2>1, <2>2, AnswersAlert
  <1>15. CASE group # None /\ group # m.share.group /\ ServerBecomes(e)
    <2> DEFINE hrec == hsRec(None, hrr)
    <2>1. ServerBecomes(e)
      BY <1>15
    <2> HIDE DEF one
    <2>2. /\ Keeps(k, q, {"transcript"}) /\ k.transcript = one
          /\ DOMAIN k = ConnFields /\ k.sendBuf = <<>> /\ k.out = None
      BY <1>13 DEF Keeps, ConnFields
    <2> HIDE DEF k, hrr
    <2>3. /\ Keeps(w, k, {"transcript", "sendBuf"})
          /\ w.transcript = Append(one, Digest(hrr))
          /\ w.sendBuf = Append(<<>>, hrec)
      BY <2>2, SayKeeps DEF hsRec
    <2> HIDE DEF w
    <2>4. w.sendBuf = <<hrec>> /\ DOMAIN w = ConnFields
      BY <2>3, EmptyConcat DEF Keeps
    <2>5. w.transcript = <<messageHash(m), Digest(hrr)>>
      <3> DEFINE i == messageHash(m)
                 j == Digest(hrr)
                 v == w.transcript
      <3>1. one = <<i>> /\ v = Append(one, j)
        BY <1>12, <2>3 DEF one
      <3> HIDE DEF i, j, v
      <3>2. v = <<i, j>>
        BY <3>1, AppendOne
      <3> QED
        BY <3>2 DEF i, j, v
    <2> HIDE DEF hrec
    <2> DEFINE y == [typ |-> "ccs", key |-> w.out, msg |-> None]
    <2>6. /\ Keeps(x, w, {"ccs", "sendBuf"})
          /\ x.sendBuf = w.sendBuf \/ x.sendBuf = Append(w.sendBuf, y)
      BY <2>4, CCSKeeps
    <2>7. y.typ = "ccs"
      OBVIOUS
    <2> HIDE DEF x, y
    <2>8. /\ IsSeq(x.sendBuf) /\ Comes(None, hrr, x.sendBuf)
          /\ OnlyCCS(Tail(x.sendBuf))
      <3>1. CASE x.sendBuf = w.sendBuf
        <4>1. x.sendBuf = <<hrec>>
          BY <2>4, <3>1
        <4> QED
          BY <4>1, ShortWire DEF OnlyCCS, hrec
      <3>2. CASE x.sendBuf = Append(w.sendBuf, y)
        <4> DEFINE v == x.sendBuf
                   b == w.sendBuf
                   u == <<y>>
        <4>1. Appended(v, b, y) /\ IsSeq(b) /\ IsSeq(<<>>)
          BY <2>4, <3>2, ShortWire, EmptyConcat DEF Appended
        <4>2. b = <<hrec>>
          BY <2>4
        <4> HIDE DEF v, b
        <4>3. IsSeq(v) /\ v \o <<>> = b \o Cons(y, <<>>)
          BY <4>1, AppendThen
        <4>4. v = b \o u /\ IsSeq(u)
          BY <4>3, EmptyConcat
        <4>5. v = Cons(hrec, u)
          BY <4>2, <4>4 DEF Cons
        <4>6. OnlyCCS(u)
          <5>1. u[1] = y
            OBVIOUS
          <5> QED
            BY <2>7, <5>1 DEF OnlyCCS
        <4> HIDE DEF u
        <4>7. Tail(v) = u /\ Comes(None, hrr, v)
          BY <4>4, <4>5, NextCons DEF hrec
        <4> QED
          BY <4>3, <4>6, <4>7 DEF v
      <3> QED
        BY <2>6, <3>1, <3>2
    <2>9. /\ Keeps(e, x, {"pc"}) /\ e.pc = "secondClientHello"
      BY <2>4, <2>6 DEF Keeps, ConnFields
    <2> HIDE DEF e
    <2>10. /\ e.sendBuf = x.sendBuf /\ e.transcript = w.transcript
           /\ e.hello = m /\ e.suite = suite /\ e.group = group
           /\ e.in = None /\ e.out = None /\ e.buffering = FALSE
           /\ e.certReq = FALSE /\ e.psk = None /\ e.usingPSK = FALSE
           /\ e.err = None /\ DOMAIN e = ConnFields
      BY <1>12, <1>13, <2>2, <2>3, <2>6, <2>9 DEF Keeps, ConnFields
    <2>11. /\ Keeps(d, e, {"sendBuf"}) /\ d.sendBuf = <<>> /\ c' = c /\ conf' = conf
           /\ tc = toClient \o e.sendBuf
      BY <2>1, <2>10, ServerSends
    <2>12. tc = x.sendBuf
      BY <1>3, <2>8, <2>10, <2>11, EmptyConcat
    <2> HIDE DEF d, tc, tv
    <2>13. /\ d.pc = "secondClientHello" /\ d.transcript = w.transcript
           /\ d.hello = m /\ d.suite = suite /\ d.group = group
           /\ d.in = None /\ d.out = None /\ d.buffering = FALSE
           /\ d.certReq = FALSE /\ d.psk = None /\ d.usingPSK = FALSE
           /\ d.err = None
      BY <2>9, <2>10, <2>11 DEF Keeps, ConnFields
    <2>14. RetryMsg(d) = hrr
      BY <1>12, <2>13 DEF RetryMsg, hrr
    <2>15. Retries(conf, d)
      BY <1>7, <1>8, <1>9, <1>10, <1>15, <2>5, <2>11, <2>13, <2>14 DEF Retries, Idle
    <2>16. Retried(conf, c, d, tv, tc)
      BY <1>3, <1>5, <1>8, <2>8, <2>12, <2>13, <2>14, <2>15 DEF Retried
    <2>17. Stage(conf, c, d, tv, tc)
      BY <2>16 DEF Stage
    <2> QED
      BY <1>4, <2>11, <2>13, <2>17, ServerProceeds DEF d, tv, tc
  <1>16. CASE group # None /\ group = m.share.group /\ ServerBecomes(f)
    <2>1. ServerBecomes(f)
      BY <1>16
    <2>2. Keeps(f, q, {"pc"}) /\ f.pc = "checkForResumption"
      BY <1>13 DEF Keeps, ConnFields
    <2> HIDE DEF f
    <2>3. /\ f.sendBuf = <<>> /\ f.buffering = FALSE /\ DOMAIN f = ConnFields
      BY <1>13, <2>2 DEF Keeps, ConnFields
    <2>4. /\ Keeps(d, f, {"sendBuf"}) /\ d.sendBuf = <<>> /\ c' = c /\ conf' = conf
          /\ tc = toClient \o <<>>
      BY <2>1, <2>3, ServerSends
    <2>5. tc = <<>>
      BY <1>3, <2>4, EmptyConcat
    <2> HIDE DEF d, tc, tv
    <2>6. /\ d.pc = "checkForResumption" /\ d.transcript = <<>>
          /\ d.hello = m /\ d.suite = suite /\ d.group = group
          /\ d.in = None /\ d.out = None /\ d.buffering = FALSE
          /\ d.psk = None /\ d.usingPSK = FALSE /\ d.err = None
      BY <1>12, <1>13, <2>2, <2>4 DEF Keeps, ConnFields
    <2>7. Append(d.transcript, Digest(d.hello)) = Greeted(c)
      BY <1>6, <1>8, <2>6 DEF Greeted
    <2>8. Answering(conf, c, d, tv, tc)
      BY <1>5, <1>6, <1>7, <1>8, <1>9, <1>16, <2>4, <2>5, <2>6, <2>7
         DEF Answering, OnlyCCS, PSKOf
    <2>9. Stage(conf, c, d, tv, tc)
      BY <2>8 DEF Stage
    <2> QED
      BY <1>4, <2>4, <2>6, <2>9, ServerProceeds DEF d, tv, tc
  <1> HIDE DEF a, e, f
  <1> QED
    BY <1>11, <1>14, <1>15, <1>16

LEMMA ReadSecondClientHelloGoes ==
    ASSUME AgreeInv, TicketInv, CauseInv, ReadSecondClientHello
    PROVE  CauseInv'
  <1> DEFINE rec == Head(toServer)
             m == rec.msg
             g == Receive(s, rec, {"clientHello"})
             R(x) == [x EXCEPT !.hello = m, !.pc = "checkForResumption"]
             f == R(s)
             d == s'
             tc == toClient'
             tv == toServer'
  <1>1. /\ s.pc = "secondClientHello" /\ toServer # <<>> /\ rec.typ # "ccs"
        /\ tv = Tail(toServer)
        /\ g.pc # "failed" /\ m.share.group = g.group
           /\ ~illegalClientHelloChange(m, g.hello) => ServerBecomes(R(g))
    BY DEF ReadSecondClientHello, ServerReads, Then
  <1>2. Regreeting(conf, c, s, toServer, toClient)
    BY <1>1, ServerStageAt DEF Retried, Retrying
  <1>3. /\ Retries(conf, s) /\ Regreets(conf, c, s.transcript, s.group)
        /\ c.suite = s.suite /\ ~illegalClientHelloChange(c.hello, s.hello)
        /\ OnlyCCS(toClient)
        /\ \/ toServer = <<hsRec(None, c.hello)>>
           \/ CCSNext(toServer) /\ Tail(toServer) = <<hsRec(None, c.hello)>>
    BY <1>2 DEF Regreeting
  <1>4. /\ DOMAIN s = ConnFields /\ s.pc # "failed" /\ s.err = None
    BY <1>1, WiresNow DEF CauseInv, Blameless
  <1>5. /\ s.in = None /\ s.out = None /\ s.sendBuf = <<>>
        /\ s.buffering = FALSE /\ s.psk = None /\ s.usingPSK = FALSE
        /\ s.suite \in Range(s.hello.suites) /\ s.suite # None
    BY <1>3 DEF Retries, Idle
  <1>6. toServer = <<hsRec(None, c.hello)>>
    BY <1>1, <1>3 DEF CCSNext
  <1>7. Comes(s.in, c.hello, toServer) /\ tv = <<>>
    BY <1>1, <1>5, <1>6, ShortWire
  <1>8. /\ c.pc = "secondServerHello" /\ Idle(c)
        /\ c.transcript = Append(s.transcript, Digest(c.hello))
        /\ Offer(conf, c.session, s.transcript, s.group, c.hello)
    BY <1>3 DEF Regreets
  <1>9. c.hello.type \in {"clientHello"} /\ c.hello.share.group = s.group
    BY <1>8 DEF Offer
  <1>10. g = s /\ m = c.hello
    BY <1>4, <1>7, <1>9, Receives
  <1>11. ServerBecomes(f)
    BY <1>1, <1>3, <1>4, <1>9, <1>10
  <1> HIDE DEF m, g
  <1>12. /\ Keeps(f, s, {"hello", "pc"}) /\ f.pc = "checkForResumption"
         /\ f.hello = m
    BY <1>4 DEF Keeps, ConnFields
  <1> HIDE DEF f
  <1>13. f.sendBuf = <<>> /\ f.buffering = FALSE /\ DOMAIN f = ConnFields
    BY <1>5, <1>12 DEF Keeps, ConnFields
  <1>14. /\ Keeps(d, f, {"sendBuf"}) /\ d.sendBuf = <<>> /\ c' = c /\ conf' = conf
         /\ tc = toClient \o <<>>
    BY <1>11, <1>13, ServerSends
  <1>15. tc = toClient
    BY <1>14, WiresNow, EmptyConcat
  <1> HIDE DEF d, tc, tv
  <1>16. /\ d.pc = "checkForResumption" /\ d.transcript = s.transcript
         /\ d.hello = m /\ d.suite = s.suite /\ d.group = s.group
         /\ d.in = None /\ d.out = None /\ d.buffering = FALSE
         /\ d.psk = None /\ d.usingPSK = FALSE /\ d.err = None
    BY <1>4, <1>5, <1>12, <1>14 DEF Keeps, ConnFields
  <1>17. Append(d.transcript, Digest(d.hello)) = Greeted(c)
    BY <1>8, <1>10, <1>16 DEF Greeted
  <1>18. c.hello.suites = s.hello.suites
    BY <1>3 DEF illegalClientHelloChange
  <1>19. Answering(conf, c, d, tv, tc)
    BY <1>3, <1>5, <1>7, <1>8, <1>9, <1>10, <1>14, <1>15, <1>16, <1>17, <1>18
       DEF Answering, PSKOf
  <1>20. Stage(conf, c, d, tv, tc)
    BY <1>19 DEF Stage
  <1> QED
    BY <1>4, <1>14, <1>16, <1>20, ServerProceeds DEF d, tv, tc

\* The server writes nothing yet.
LEMMA AnswersOn ==
    ASSUME CauseInv, s.pc # "failed", IsSeq(toClient), NEW r,
           DOMAIN r = ConnFields, r.err = None, r.pc # "failed",
           r.buffering = TRUE \/ r.sendBuf = <<>>, ServerBecomes(r),
           toServer' = toServer, Answering(conf, c, r, toServer, toClient)
    PROVE  CauseInv'
  <1> DEFINE d == s'
             tc == toClient'
             tv == toServer'
  <1>1. /\ Keeps(d, r, {"sendBuf"}) /\ c' = c /\ conf' = conf
        /\ ~r.buffering => d.sendBuf = <<>> /\ tc = toClient \o r.sendBuf
        /\ r.buffering => d.sendBuf = r.sendBuf /\ tc = toClient \o <<>>
    BY ServerSends
  <1>2. d.sendBuf = r.sendBuf /\ tc = toClient \o <<>>
    BY <1>1
  <1>3. tc = toClient
    BY <1>2, EmptyConcat
  <1>4. tv = toServer
    OBVIOUS
  <1> HIDE DEF d, tc, tv
  <1>5. /\ d.pc = r.pc /\ d.hello = r.hello /\ d.suite = r.suite
        /\ d.group = r.group /\ d.psk = r.psk /\ d.usingPSK = r.usingPSK
        /\ d.buffering = r.buffering /\ d.transcript = r.transcript
        /\ d.in = r.in /\ d.out = r.out /\ d.err = r.err
    BY <1>1 DEF Keeps, ConnFields
  <1>6. Answering(conf, c, d, tv, tc)
    BY <1>2, <1>3, <1>4, <1>5 DEF Answering
  <1>7. Stage(conf, c, d, tv, tc)
    BY <1>6 DEF Stage
  <1> QED
    BY <1>1, <1>5, <1>7, ServerProceeds DEF d, tv, tc

\* The server, before it has written anything of its flight.
LEMMA AnsweringNow ==
    ASSUME AgreeInv, TicketInv, CauseInv,
           s.pc \in {"checkForResumption", "pickCertificate",
                     "sendServerParameters", "sendServerCertificate",
                     "sendServerFinished"}
    PROVE  /\ Answering(conf, c, s, toServer, toClient)
           /\ DOMAIN s = ConnFields /\ s.pc # "failed" /\ s.err = None
           /\ IsSeq(toClient) /\ toServer = <<>> /\ OnlyCCS(toClient)
           /\ c.pc \in {"serverHello", "secondServerHello"} /\ Idle(c)
           /\ c.pc = "serverHello" => toClient = <<>>
           /\ IsSeq(s.sendBuf) /\ IsSeq(s.transcript)
           /\ IsSeq(c.transcript)
           /\ conf \in Configs /\ c.session \in {None, conf.session}
  <1>1. Answering(conf, c, s, toServer, toClient)
    BY ServerStageAt
  <1>2. s.pc # "failed" /\ s.err = None
    BY DEF CauseInv, Blameless
  <1>3. conf \in Configs /\ c.session \in {None, conf.session}
    BY DEF CauseInv, Blameless
  <1> QED
    BY <1>1, <1>2, <1>3, WiresNow DEF Answering

LEMMA pickCertificateGoes ==
    ASSUME AgreeInv, TicketInv, CauseInv, pickCertificate
    PROVE  CauseInv'
  <1> DEFINE f == [s EXCEPT !.pc = "sendServerParameters", !.buffering = TRUE]
             a == Alert(s, "unrecognized_name")
  <1>1. /\ s.pc = "pickCertificate" /\ toServer' = toServer
        /\ \/ ServerBecomes(f)
           \/ ~conf.hasCert /\ ServerBecomes(a)
    BY DEF pickCertificate, ServerDoes
  <1>2. /\ Answering(conf, c, s, toServer, toClient)
        /\ DOMAIN s = ConnFields /\ s.pc # "failed" /\ s.err = None
        /\ IsSeq(toClient) /\ toServer = <<>> /\ OnlyCCS(toClient)
        /\ c.pc \in {"serverHello", "secondServerHello"} /\ Idle(c)
        /\ c.pc = "serverHello" => toClient = <<>>
    BY <1>1, AnsweringNow
  <1>3. CASE ServerBecomes(f)
    <2>1. ServerBecomes(f)
      BY <1>3
    <2>2. /\ Keeps(f, s, {"pc", "buffering"}) /\ f.buffering = TRUE
          /\ f.pc = "sendServerParameters"
      BY <1>2 DEF Keeps, ConnFields
    <2> HIDE DEF f
    <2>3. /\ f.hello = s.hello /\ f.suite = s.suite
          /\ f.group = s.group /\ f.psk = s.psk /\ f.usingPSK = s.usingPSK
          /\ f.transcript = s.transcript /\ f.sendBuf = s.sendBuf
          /\ f.in = s.in /\ f.out = s.out /\ f.err = s.err
          /\ DOMAIN f = ConnFields
      BY <2>2 DEF Keeps, ConnFields
    <2>4. Answering(conf, c, f, toServer, toClient)
      BY <1>1, <1>2, <2>2, <2>3 DEF Answering
    <2> QED
      BY <1>1, <1>2, <2>1, <2>2, <2>3, <2>4, AnswersOn
  <1>4. CASE ~conf.hasCert /\ ServerBecomes(a)
    <2>1. ServerFault(conf, "unrecognized_name", c)
      BY <1>4 DEF ServerFault
    <2>2. s.sendBuf = <<>> /\ s.out = None
      BY <1>1, <1>2 DEF Answering
    <2> QED
      BY <1>1, <1>2, <1>4, <2>1, <2>2, AnswersAlert
  <1> HIDE DEF a, f
  <1> QED
    BY <1>1, <1>3, <1>4

LEMMA BindersMatch ==
    ASSUME NEW u, NEW v, NEW x, NEW y, NEW tr, NEW m, Hash(u) = Hash(v)
    PROVE  Binder(u, x, tr, m) = Binder(v, y, tr, m) <=> x = y
  <1> DEFINE w == Append(tr, [m EXCEPT !.binder = None])
             a == [hash |-> Hash(u), key |-> x, transcript |-> w]
             b == [hash |-> Hash(v), key |-> y, transcript |-> w]
  <1>1. Binder(u, x, tr, m) = a /\ Binder(v, y, tr, m) = b
    BY DEF Binder
  <1>2. a.key = x /\ b.key = y
    OBVIOUS
  <1> HIDE DEF w
  <1>3. x = y => a = b
    OBVIOUS
  <1> HIDE DEF a, b
  <1> QED
    BY <1>1, <1>2, <1>3

LEMMA checkForResumptionGoes ==
    ASSUME AgreeInv, TicketInv, CauseInv, checkForResumption
    PROVE  CauseInv'
  <1> DEFINE ticket == s.hello.psk
             x == [s EXCEPT !.psk = ticket.secret]
             y == [x EXCEPT !.peerCerts = ticket.certs]
             f == [y EXCEPT !.usingPSK = TRUE, !.pc = "pickCertificate"]
             n == [s EXCEPT !.pc = "pickCertificate"]
             a == Alert(x, "decrypt_error")
             b == Alert(x, "bad_certificate")
             mine == Binder(s.suite, ticket.secret, s.transcript, s.hello)
             g == processCertsFromClient(x, ticket.certs)
             e == c.session
  <1>1. s.pc = "checkForResumption" /\ toServer' = toServer
    BY DEF checkForResumption, ServerDoes
  <1>2. /\ Answering(conf, c, s, toServer, toClient)
        /\ DOMAIN s = ConnFields /\ s.pc # "failed" /\ s.err = None
        /\ IsSeq(toClient) /\ toServer = <<>> /\ OnlyCCS(toClient)
        /\ c.pc \in {"serverHello", "secondServerHello"} /\ Idle(c)
        /\ c.pc = "serverHello" => toClient = <<>>
        /\ conf \in Configs /\ e \in {None, conf.session}
    BY <1>1, AnsweringNow
  <1>3. /\ s.hello = c.hello /\ s.sendBuf = <<>> /\ s.out = None
        /\ s.usingPSK = FALSE /\ s.buffering = FALSE /\ s.psk = None
        /\ Offer(conf, e, s.transcript, s.group, c.hello)
    BY <1>1, <1>2 DEF Answering, PSKOf
  <1>4. x.psk = ticket.secret /\ Keeps(x, s, {"psk"}) /\ x.pc # "failed"
    BY <1>2 DEF Keeps, ConnFields
  <1>5. \/ ServerBecomes(n)
        \/ /\ TicketAccepted(s) /\ s.hello.binder # mine /\ ServerBecomes(a)
        \/ /\ TicketAccepted(s) /\ s.hello.binder = mine
           /\ ServerBecomes(Then(g, LAMBDA q : [q EXCEPT !.usingPSK = TRUE,
                                                         !.pc = "pickCertificate"]))
    BY <1>4 DEF checkForResumption, ServerDoes
  <1>6. \/ g = b /\ Refused(conf, ticket.certs) /\ b.pc = "failed"
        \/ g = y /\ y.pc # "failed"
    <2>1. DOMAIN x = ConnFields
      BY <1>4 DEF Keeps
    <2>2. b.pc = "failed"
      BY <2>1, AlertParts
    <2>3. y.pc = x.pc
      BY <2>1 DEF ConnFields
    <2> HIDE DEF x, b, y
    <2> QED
      BY <1>4, <2>2, <2>3 DEF processCertsFromClient, Refused, b, y
  <1>7. \/ ServerBecomes(n)
        \/ /\ TicketAccepted(s) /\ s.hello.binder # mine /\ ServerBecomes(a)
        \/ Refused(conf, ticket.certs) /\ TicketAccepted(s) /\ ServerBecomes(b)
        \/ /\ TicketAccepted(s) /\ s.hello.binder = mine /\ ServerBecomes(f)
    <2> HIDE DEF x, y, a, b, g, mine, ticket
    <2> QED
      BY <1>5, <1>6 DEF Then, f
  <1>8. ASSUME TicketAccepted(s)
        PROVE  /\ e # None /\ ticket = e.ticket /\ c.hello.psk # None
               /\ Hash(e.suite) = Hash(s.suite)
               /\ s.hello.binder = mine <=> ticket.secret = e.secret
    <2>1. ticket # None /\ Hash(ticket.suite) = Hash(s.suite)
      BY <1>8 DEF TicketAccepted
    <2>2. /\ e # None /\ ticket = e.ticket
          /\ c.hello.binder = Binder(e.suite, e.secret, s.transcript, c.hello)
      BY <1>3, <2>1 DEF Offer
    <2>3. e.suite = ticket.suite
      BY <1>2, <2>2, ConfigAssumption
    <2>4. s.hello.binder = Binder(e.suite, e.secret, s.transcript, s.hello)
      BY <1>3, <2>2
    <2>5. Hash(e.suite) = Hash(s.suite)
      BY <2>1, <2>3
    <2> HIDE DEF e, ticket
    <2>6. s.hello.binder = mine <=> ticket.secret = e.secret
      BY <2>4, <2>5, BindersMatch
    <2>7. c.hello.psk # None
      BY <1>3, <2>1 DEF ticket
    <2> QED
      BY <2>2, <2>5, <2>6, <2>7
  <1>9. DOMAIN x = ConnFields /\ x.sendBuf = <<>> /\ x.out = None
    BY <1>3, <1>4 DEF Keeps, ConnFields
  <1>10. /\ Keeps(n, s, {"pc"}) /\ n.pc = "pickCertificate"
         /\ Keeps(f, s, {"pc", "psk", "peerCerts", "usingPSK"})
         /\ f.pc = "pickCertificate" /\ f.psk = ticket.secret
         /\ f.usingPSK = TRUE
    BY <1>2 DEF Keeps, ConnFields
  <1> HIDE DEF x, y, f, n, mine, ticket
  <1>11. CASE ServerBecomes(n)
    <2>1. /\ n.hello = s.hello /\ n.suite = s.suite /\ n.buffering = s.buffering
          /\ n.group = s.group /\ n.psk = s.psk /\ n.usingPSK = s.usingPSK
          /\ n.transcript = s.transcript /\ n.sendBuf = s.sendBuf
          /\ n.in = s.in /\ n.out = s.out /\ n.err = s.err
          /\ DOMAIN n = ConnFields
      BY <1>10 DEF Keeps, ConnFields
    <2>2. Answering(conf, c, n, toServer, toClient)
      BY <1>1, <1>2, <1>10, <2>1 DEF Answering
    <2> QED
      BY <1>1, <1>2, <1>3, <1>10, <1>11, <2>1, <2>2, AnswersOn
  <1>12. CASE TicketAccepted(s) /\ s.hello.binder # mine /\ ServerBecomes(a)
    <2>1. ServerFault(conf, "decrypt_error", c)
      BY <1>8, <1>12 DEF ServerFault
    <2> QED
      BY <1>1, <1>2, <1>9, <1>12, <2>1, AnswersAlert
  <1>13. CASE Refused(conf, ticket.certs) /\ TicketAccepted(s) /\ ServerBecomes(b)
    <2>1. ServerFault(conf, "bad_certificate", c)
      BY <1>8, <1>13 DEF ServerFault
    <2> QED
      BY <1>1, <1>2, <1>9, <1>13, <2>1, AnswersAlert
  <1>14. CASE TicketAccepted(s) /\ s.hello.binder = mine /\ ServerBecomes(f)
    <2>1. /\ f.hello = s.hello /\ f.suite = s.suite /\ f.buffering = s.buffering
          /\ f.group = s.group /\ f.sendBuf = s.sendBuf
          /\ f.transcript = s.transcript
          /\ f.in = s.in /\ f.out = s.out /\ f.err = s.err
          /\ DOMAIN f = ConnFields
      BY <1>10 DEF Keeps, ConnFields
    <2>2. f.psk = PSKOf(e, f.usingPSK)
      BY <1>8, <1>10, <1>14 DEF PSKOf
    <2>3. Answering(conf, c, f, toServer, toClient)
      BY <1>1, <1>2, <1>8, <1>10, <1>14, <2>1, <2>2 DEF Answering
    <2> QED
      BY <1>1, <1>2, <1>3, <1>10, <1>14, <2>1, <2>3, AnswersOn
  <1> HIDE DEF a, b
  <1> QED
    BY <1>7, <1>11, <1>12, <1>13, <1>14

\* What goes after what has been written of the flight reaches the client.
LEMMA FedAfterCCS ==
    ASSUME NEW k, NEW d, NEW p, NEW in, NEW b, NEW w, OnlyCCS(b), IsSeq(w),
           FedHello(k, d, p, in, w), p.pc = "serverHello" => b = <<>>
    PROVE  /\ FedAgain(k, d, p, in, b \o w)
           /\ p.pc = "serverHello" => FedHello(k, d, p, in, b \o w)
  <1> DEFINE v == b \o w
  <1>1. \/ b = <<>> /\ v = w
        \/ CCSNext(v) /\ Tail(v) = w
    BY CCSParts
  <1>2. b = <<>> => v = w
    BY EmptyConcat
  <1> HIDE DEF v
  <1>3. /\ FedAgain(k, d, p, in, v)
        /\ p.pc = "serverHello" => FedHello(k, d, p, in, v)
    BY <1>1, <1>2 DEF FedAgain
  <1> QED
    BY <1>3 DEF v

\* The server passes its flight on, and waits or has failed.
LEMMA FlightDelivered ==
    ASSUME AgreeInv, TicketInv, CauseInv,
           s.pc \in {"checkForResumption", "pickCertificate",
                     "sendServerParameters", "sendServerCertificate",
                     "sendServerFinished"},
           NEW r, DOMAIN r = ConnFields, ~r.buffering, IsSeq(r.sendBuf),
           \/ r.pc # "failed" /\ r.err = None /\ Awaits(conf, r)
           \/ r.pc = "failed" /\ ServerFault(conf, r.err, c),
           FedHello(conf, r.pc = "failed", c, r.in, r.sendBuf),
           ServerBecomes(r), toServer' = toServer
    PROVE  CauseInv'
  <1> DEFINE d == s'
             tc == toClient'
             tv == toServer'
             w == r.sendBuf
             bad == r.pc = "failed"
  <1>1. /\ s.pc # "failed" /\ toServer = <<>> /\ OnlyCCS(toClient)
        /\ c.pc \in {"serverHello", "secondServerHello"} /\ Idle(c)
        /\ c.pc = "serverHello" => toClient = <<>>
    BY AnsweringNow
  <1>2. /\ Keeps(d, r, {"sendBuf"}) /\ c' = c /\ conf' = conf
        /\ tc = toClient \o w
    BY ServerSends
  <1>3. tv = <<>> /\ IsSeq(w) /\ FedHello(conf, bad, c, r.in, w)
    BY <1>1
  <1>4. d.pc = r.pc /\ d.in = r.in /\ d.err = r.err /\ d.app = r.app
        /\ d.usingPSK = r.usingPSK /\ d.clientFinished = r.clientFinished
    BY <1>2 DEF Keeps, ConnFields
  <1>5. Awaits(conf, r) => Awaits(conf, d)
    BY <1>4 DEF Awaits, Asks
  <1> HIDE DEF d, tc, tv, w, bad
  <1>6. /\ FedAgain(conf, bad, c, r.in, tc)
        /\ c.pc = "serverHello" => FedHello(conf, bad, c, r.in, tc)
    BY <1>1, <1>2, <1>3, FedAfterCCS
  <1>7. Feeds(conf, bad, c, r.in, tc)
    BY <1>1, <1>6 DEF Feeds
  <1>8. (d.pc = "failed") = bad
    BY <1>4 DEF bad
  <1>9. /\ d.pc # "failed" => Awaits(conf, d)
        /\ \/ d.err = None /\ d.pc # "failed"
           \/ d.pc = "failed" /\ ServerFault(conf, d.err, c)
    BY <1>4, <1>5
  <1>10. Delivered(conf, c, d, tv, tc)
    BY <1>1, <1>3, <1>4, <1>7, <1>8, <1>9
       DEF Delivered, ReadsFlight, KeysSet, OnlyCCS, Idle
  <1>11. Stage(conf, c, d, tv, tc)
    BY <1>10 DEF Stage
  <1> QED
    BY <1>1, <1>2, <1>9, <1>11, ServerProceeds DEF d, tv, tc

\* Protocols the ends have in common are found.
LEMMA ProtocolFound ==
    ASSUME conf \in Configs, NEW proto,
           proto = negotiateALPN(conf.serverProtos, conf.clientProtos)
    PROVE  /\ checkALPN(conf.clientProtos, proto)
           /\ refusesALPN(conf.serverProtos, conf.clientProtos) => ~Protos(conf)
  <1> DEFINE u == conf.serverProtos
             v == conf.clientProtos
             x == FirstIn(u, Range(v))
  <1>1. u \in Seq(STRING) /\ None \notin STRING
    BY ConfigAssumption, NoneAssumption
  <1>2. negotiateALPN(u, v) = x /\ proto = x
    BY DEF negotiateALPN
  <1>3. /\ x = None => Range(u) \cap Range(v) = {}
        /\ x # None => x \in Range(u) /\ x \in Range(v)
    BY <1>1, FirstInFinds
  <1>4. Protos(conf) <=>
          \/ v = <<>> \/ u = <<>>
          \/ \E a \in Range(v) : a \in Range(u)
          \/ "http/1.1" \in Range(v) /\ "h2" \in Range(u)
    BY DEF Protos
  <1>5. refusesALPN(u, v) <=>
          /\ u # <<>> /\ v # <<>> /\ x = None
          /\ ~("h2" \in Range(u) /\ "http/1.1" \in Range(v))
    BY <1>2 DEF refusesALPN
  <1>6. checkALPN(v, proto) <=> (proto = None \/ proto \in Range(v))
    BY DEF checkALPN
  <1> HIDE DEF u, v, x
  <1>7. checkALPN(v, proto) /\ (refusesALPN(u, v) => ~Protos(conf))
    BY <1>2, <1>3, <1>4, <1>5, <1>6
  <1> QED
    BY <1>7 DEF u, v

\* The ServerHello, and what is written under the keys it leads to.
LEMMA AnswerComes ==
    ASSUME NEW k, NEW d, NEW p, NEW m, NEW hrec, hrec = hsRec(None, m),
           NEW secret, secret = SecretOf(p.session, p.hello, m),
           NEW t, t = Append(Greeted(p), Digest(m)),
           NEW key, key = clientKey(secret, t),
           Fits(p.hello, p.session, m), p.suite \in {None, m.suite},
           NEW y, y.typ = "ccs", NEW b, NEW u, IsSeq(u),
           FedParams(k, d, m.psk, ServerKey(secret, t), t, u),
           b = <<hrec>> \/ b = Append(<<hrec>>, y)
    PROVE  FedHello(k, d, p, key, b \o u)
  <1> DEFINE v == b \o u
             x == <<hrec>>
             w == Cons(y, u)
             other == ServerKey(secret, t)
  <1>1. IsSeq(x) /\ Cons(hrec, u) = x \o u /\ Cons(hrec, w) = x \o w
    BY EmptyConcat DEF Cons
  <1>2. IsSeq(w) /\ CCSNext(w) /\ Tail(w) = u
    BY NextCons
  <1>3. v = Cons(hrec, u) \/ v = Cons(hrec, w)
    <2>1. CASE b = x
      BY <1>1, <2>1
    <2>2. CASE b = Append(x, y)
      <3> HIDE DEF x, w
      <3>1. Appended(b, x, y)
        BY <2>2 DEF Appended
      <3>2. b \o u = x \o Cons(y, u)
        BY <1>1, <3>1, AppendThen
      <3> QED
        BY <1>1, <3>2 DEF w
    <2> QED
      BY <2>1, <2>2
  <1> HIDE DEF v, w, x, other
  <1>4. ASSUME NEW z, IsSeq(z), v = Cons(hrec, z),
               FedKeyed(k, d, m.psk, other, t, z)
        PROVE  FedHello(k, d, p, key, v)
    <2>1. Comes(None, m, v) /\ Tail(v) = z /\ Head(v) = hrec
      BY <1>4, NextCons
    <2>2. Head(v).msg = m
      BY <2>1 DEF hsRec
    <2>3. FedKeys(k, d, secret, m.psk, key, t, z)
      BY <1>4 DEF FedKeys, other
    <2>4. Answer(k, d, p, key, m, v)
      BY <2>1, <2>3 DEF Answer
    <2> QED
      BY <2>2, <2>4 DEF FedHello
  <1>5. FedKeyed(k, d, m.psk, other, t, u)
    BY DEF FedKeyed, other
  <1>6. FedKeyed(k, d, m.psk, other, t, w)
    BY <1>2 DEF FedKeyed, other
  <1>7. FedHello(k, d, p, key, v)
    BY <1>2, <1>3, <1>4, <1>5, <1>6
  <1> QED
    BY <1>7 DEF v

LEMMA sendServerParametersGoes ==
    ASSUME AgreeInv, TicketInv, CauseInv, sendServerParameters
    PROVE  CauseInv'
  <1> DEFINE share == [group |-> s.group, n |-> 0]
             secret == HandshakeSecret(s.suite, s.psk, s.hello.share, share)
             h == Hashed(s, s.hello)
             m == serverHelloMsg(s.suite, FALSE, None, share, s.usingPSK)
             p == Say(h, m)
             d == sendDummyChangeCipherSpec(p)
             t == p.transcript
             key == clientKey(secret, t)
             other == ServerKey(secret, t)
             q == [d EXCEPT !.secret = secret, !.in = key, !.out = other]
             proto == negotiateALPN(conf.serverProtos, conf.clientProtos)
             ee == [type |-> "encryptedExtensions", alpn |-> proto]
             e == Say(q, ee)
             r == [e EXCEPT !.proto = proto,
                            !.pc = "sendServerCertificate"]
             a == Alert(q, "no_application_protocol")
             refuses == refusesALPN(conf.serverProtos, conf.clientProtos)
             y == [typ |-> "ccs", key |-> p.out, msg |-> None]
             hrec == hsRec(None, m)
             erec == hsRec(other, ee)
             arec == [typ |-> "alert", key |-> other,
                      msg |-> [type |-> "no_application_protocol"]]
  <1>1. /\ s.pc = "sendServerParameters" /\ toServer' = toServer
        /\ \/ refuses /\ ServerBecomes(a)
           \/ ~refuses /\ ServerBecomes(r)
    BY Zenon DEF sendServerParameters, ServerDoes, clientKey, ServerKey
  <1>2. /\ Answering(conf, c, s, toServer, toClient)
        /\ DOMAIN s = ConnFields /\ s.pc # "failed" /\ s.err = None
        /\ IsSeq(toClient) /\ toServer = <<>>
        /\ IsSeq(s.transcript)
        /\ conf \in Configs
    BY <1>1, AnsweringNow
  <1>3. /\ s.hello = c.hello /\ s.suite \in Range(c.hello.suites)
        /\ s.group = c.hello.share.group
        /\ s.psk = PSKOf(c.session, s.usingPSK)
        /\ s.usingPSK =>
              c.hello.psk # None /\ Hash(c.session.suite) = Hash(s.suite)
        /\ Append(s.transcript, Digest(s.hello)) = Greeted(c)
        /\ s.sendBuf = <<>> /\ s.out = None /\ s.buffering = TRUE
        /\ c.suite \in {None, s.suite}
    BY <1>1, <1>2 DEF Answering
  <1>4. /\ m.type = "serverHello" /\ m.hrr = FALSE /\ m.suite = s.suite
        /\ m.share = share /\ m.psk = s.usingPSK /\ share.group = s.group
        /\ ee.type = "encryptedExtensions" /\ ee.alpn = proto
    BY DEF serverHelloMsg
  <1>5. secret = SecretOf(c.session, c.hello, m)
    BY <1>3, <1>4 DEF SecretOf
  <1>6. Fits(c.hello, c.session, m) /\ c.suite \in {None, m.suite}
    BY <1>3, <1>4 DEF Fits
  <1>7. /\ checkALPN(conf.clientProtos, proto)
        /\ refuses => ~Protos(conf)
    BY <1>2, ProtocolFound
  <1> HIDE DEF secret, m, ee, proto, share, refuses
  <1>8. /\ Keeps(h, s, {"transcript"}) /\ h.transcript = Greeted(c)
        /\ h.sendBuf = <<>> /\ h.out = None /\ DOMAIN h = ConnFields
    <2>1. /\ Keeps(h, s, {"transcript"})
          /\ h.transcript = Append(s.transcript, Digest(s.hello))
      BY <1>2, HashedKeeps
    <2> HIDE DEF h
    <2> QED
      BY <1>3, <2>1 DEF Keeps, ConnFields
  <1> HIDE DEF h
  <1>9. /\ Keeps(p, h, {"transcript", "sendBuf"})
        /\ t = Append(Greeted(c), Digest(m)) /\ p.sendBuf = Append(<<>>, hrec)
    BY <1>8, SayKeeps DEF hsRec
  <1>10. /\ key = clientKey(secret, t) /\ other = ServerKey(secret, t)
         /\ y.typ = "ccs" /\ hrec = hsRec(None, m) /\ erec = hsRec(other, ee)
         /\ arec.typ = "alert" /\ arec.key = other
    OBVIOUS
  <1> HIDE DEF p, t, hrec
  <1>11. p.sendBuf = <<hrec>> /\ DOMAIN p = ConnFields
    BY <1>9, EmptyConcat DEF Keeps
  <1>12. /\ Keeps(d, p, {"ccs", "sendBuf"})
         /\ d.sendBuf = <<hrec>> \/ d.sendBuf = Append(<<hrec>>, y)
    <2>1. /\ Keeps(d, p, {"ccs", "sendBuf"})
          /\ d.sendBuf = p.sendBuf \/ d.sendBuf = Append(p.sendBuf, y)
      BY <1>11, CCSKeeps
    <2> QED
      BY <1>11, <2>1
  <1> HIDE DEF d, y, key, other, erec, arec
  <1>13. DOMAIN d = ConnFields
    BY <1>12 DEF Keeps
  <1>14. /\ Keeps(q, d, {"secret", "in", "out"})
         /\ q.in = key /\ q.out = other
    BY <1>13 DEF Keeps, ConnFields
  <1> HIDE DEF q
  <1>15. /\ q.transcript = t /\ q.sendBuf = d.sendBuf /\ q.buffering = TRUE
         /\ q.err = None /\ q.hello = s.hello /\ q.suite = s.suite
         /\ q.group = s.group /\ q.psk = s.psk /\ q.usingPSK = s.usingPSK
         /\ DOMAIN q = ConnFields
    BY <1>2, <1>3, <1>8, <1>9, <1>12, <1>14 DEF Keeps, ConnFields, t
  <1>16. ASSUME NEW bad, NEW u, IsSeq(u),
                FedParams(conf, bad, s.usingPSK, other, t, u)
         PROVE  FedHello(conf, bad, c, key, q.sendBuf \o u)
    <2>1. FedParams(conf, bad, m.psk, ServerKey(secret, t), t, u)
      BY <1>4, <1>10, <1>16
    <2> DEFINE b == q.sendBuf
    <2>2. b = <<hrec>> \/ b = Append(<<hrec>>, y)
      BY <1>12, <1>15
    <2> HIDE DEF b
    <2>3. FedHello(conf, bad, c, key, b \o u)
      BY <1>5, <1>6, <1>9, <1>10, <1>16, <2>1, <2>2, AnswerComes
    <2> QED
      BY <2>3 DEF b
  <1>17. IsSeq(q.sendBuf)
    <2> DEFINE x == <<hrec>>
               b == q.sendBuf
    <2>1. IsSeq(x) /\ (b = x \/ b = Append(x, y))
      BY <1>12, <1>15, EmptyConcat
    <2> HIDE DEF x, b
    <2>2. IsSeq(b)
      BY <2>1, RecsAppend
    <2> QED
      BY <2>2 DEF b
  <1>18. CASE refuses /\ ServerBecomes(a)
    <2>1. /\ Keeps(a, q, {"pc", "err", "buffering", "sendBuf"})
          /\ a.pc = "failed" /\ a.err = "no_application_protocol"
          /\ a.sendBuf = Append(q.sendBuf, arec)
          /\ a.buffering <=> (q.buffering /\ a.sendBuf = <<>>)
      BY <1>14, <1>15, AlertParts DEF arec
    <2>2. ServerBecomes(a)
      BY <1>18
    <2> HIDE DEF a
    <2> DEFINE b == q.sendBuf
               z == a.sendBuf
               u == Cons(arec, <<>>)
    <2>3. IsSeq(u) /\ AlertNext(other, u) /\ IsSeq(<<>>)
      BY <1>10, EmptyConcat, NextCons
    <2>4. Appended(z, b, arec) /\ IsSeq(b)
      BY <1>17, <2>1 DEF Appended
    <2>5. FedParams(conf, TRUE, s.usingPSK, other, t, u)
      BY <2>3 DEF FedParams
    <2>6. FedHello(conf, TRUE, c, key, b \o u)
      BY <1>16, <2>3, <2>5
    <2> HIDE DEF u, b, z
    <2>7. IsSeq(z) /\ z \o <<>> = b \o u
      BY <2>3, <2>4, AppendThen DEF u
    <2>8. z = b \o u
      BY <2>7, EmptyConcat
    <2>9. z # <<>>
      BY <2>6, <2>8 DEF FedHello, AlertNext, Answer, Comes
    <2>10. DOMAIN a = ConnFields /\ ~a.buffering /\ a.in = key
      BY <1>14, <2>1, <2>9 DEF z, Keeps, ConnFields
    <2>11. ServerFault(conf, a.err, c)
      BY <1>7, <1>18, <2>1 DEF ServerFault
    <2> DEFINE bad == a.pc = "failed"
    <2>12. bad = TRUE
      BY <2>1
    <2> HIDE DEF bad
    <2>13. FedHello(conf, bad, c, a.in, z) /\ IsSeq(z)
      BY <2>6, <2>7, <2>8, <2>10, <2>12
    <2> QED
      BY <1>1, <2>1, <2>2, <2>10, <2>11, <2>13, FlightDelivered DEF z, bad
  <1>19. CASE ~refuses /\ ServerBecomes(r)
    <2>1. ServerBecomes(r)
      BY <1>19
    <2>2. /\ Keeps(e, q, {"transcript", "sendBuf"})
          /\ e.transcript = Append(t, Digest(ee))
          /\ e.sendBuf = Append(q.sendBuf, erec)
      BY <1>14, <1>15, SayKeeps DEF hsRec, erec
    <2> HIDE DEF e
    <2>3. DOMAIN e = ConnFields
      BY <2>2 DEF Keeps
    <2>4. Keeps(r, e, {"proto", "pc"}) /\ r.pc = "sendServerCertificate"
      BY <2>3 DEF Keeps, ConnFields
    <2> HIDE DEF r
    <2>5. /\ r.transcript = Append(t, Digest(ee))
          /\ r.sendBuf = Append(q.sendBuf, erec) /\ r.buffering = TRUE
          /\ r.err = None /\ r.hello = s.hello /\ r.suite = s.suite
          /\ r.group = s.group /\ r.psk = s.psk /\ r.usingPSK = s.usingPSK
          /\ r.in = key /\ r.out = other /\ DOMAIN r = ConnFields
      BY <1>14, <1>15, <2>2, <2>4 DEF Keeps, ConnFields
    <2>6. ASSUME NEW u, IsSeq(u),
                 FedServer(conf, r.usingPSK, r.out, r.transcript, u)
          PROVE  FedHello(conf, FALSE, c, r.in, r.sendBuf \o u)
      <3> DEFINE w == Cons(erec, u)
                 b == q.sendBuf
                 z == r.sendBuf
      <3>1. /\ IsSeq(w) /\ Tail(w) = u /\ Head(w) = erec /\ Comes(other, ee, w)
        BY <1>10, <2>6, NextCons
      <3>2. Appended(z, b, erec) /\ IsSeq(b)
        BY <1>17, <2>5 DEF Appended
      <3> HIDE DEF w, b, z
      <3>3. Head(w).msg = ee
        BY <1>10, <3>1 DEF hsRec
      <3>4. FedServer(conf, s.usingPSK, other, Append(t, Digest(ee)), Tail(w))
        BY <2>5, <2>6, <3>1
      <3>5. Extensions(conf, s.usingPSK, other, t, ee, w)
        BY <1>4, <1>7, <3>1, <3>4 DEF Extensions
      <3>6. FedParams(conf, FALSE, s.usingPSK, other, t, w)
        BY <3>3, <3>5 DEF FedParams
      <3>7. FedHello(conf, FALSE, c, key, b \o w)
        BY <1>16, <3>1, <3>6 DEF b
      <3>8. z \o u = b \o w
        BY <2>6, <3>2, AppendThen DEF w
      <3> QED
        BY <2>5, <3>7, <3>8 DEF z
    <2>7. Answering(conf, c, r, toServer, toClient)
      BY <1>1, <1>2, <1>3, <2>4, <2>5, <2>6 DEF Answering
    <2> QED
      BY <1>1, <1>2, <2>1, <2>4, <2>5, <2>7, AnswersOn
  <1> HIDE DEF a, r
  <1> QED
    BY <1>1, <1>18, <1>19

\* A message in front of what is read after it.
LEMMA CertsCome ==
    ASSUME NEW key, NEW t, NEW u, IsSeq(u)
    PROVE  /\ \A m : m = Signed("server", "server", t)
                       /\ FedFin(key, Append(t, Digest(m)), u) =>
                FedVerify(key, t, Cons(hsRec(key, m), u))
           /\ FedVerify(key, Append(t, Digest(ServerCert)), u) =>
                FedCert(key, t, Cons(hsRec(key, ServerCert), u))
           /\ FedCert(key, Append(t, Digest(RequestMsg)), u) =>
                FedRequest(key, t, Cons(hsRec(key, RequestMsg), u))
           /\ \A m : m = finishedMsg(finishedHash(key, t)) =>
                FedFin(key, t, Cons(hsRec(key, m), u))
  <1>1. ASSUME NEW m PROVE /\ Comes(key, m, Cons(hsRec(key, m), u))
                           /\ Tail(Cons(hsRec(key, m), u)) = u
    <2> DEFINE x == hsRec(key, m)
    <2>1. x = hsRec(key, m)
      OBVIOUS
    <2> HIDE DEF x
    <2>2. Comes(key, m, Cons(x, u)) /\ Tail(Cons(x, u)) = u
      BY <2>1, NextCons
    <2> QED
      BY <2>2 DEF x
  <1>2. ASSUME NEW m, m = Signed("server", "server", t),
               FedFin(key, Append(t, Digest(m)), u)
        PROVE  FedVerify(key, t, Cons(hsRec(key, m), u))
    <2> DEFINE w == Cons(hsRec(key, m), u)
    <2>1. Comes(key, m, w) /\ Tail(w) = u
      BY <1>1
    <2> HIDE DEF w
    <2>2. FedVerify(key, t, w)
      BY <1>2, <2>1 DEF FedVerify
    <2> QED
      BY <2>2 DEF w
  <1>3. ASSUME FedVerify(key, Append(t, Digest(ServerCert)), u)
        PROVE  FedCert(key, t, Cons(hsRec(key, ServerCert), u))
    <2> DEFINE w == Cons(hsRec(key, ServerCert), u)
    <2>1. Comes(key, ServerCert, w) /\ Tail(w) = u
      BY <1>1
    <2> HIDE DEF w
    <2>2. FedCert(key, t, w)
      BY <1>3, <2>1 DEF FedCert
    <2> QED
      BY <2>2 DEF w
  <1>4. ASSUME FedCert(key, Append(t, Digest(RequestMsg)), u)
        PROVE  FedRequest(key, t, Cons(hsRec(key, RequestMsg), u))
    <2> DEFINE w == Cons(hsRec(key, RequestMsg), u)
    <2>1. Comes(key, RequestMsg, w) /\ Tail(w) = u
      BY <1>1
    <2> HIDE DEF w
    <2>2. FedRequest(key, t, w)
      BY <1>4, <2>1 DEF FedRequest
    <2> QED
      BY <2>2 DEF w
  <1>5. ASSUME NEW m, m = finishedMsg(finishedHash(key, t))
        PROVE  FedFin(key, t, Cons(hsRec(key, m), u))
    BY <1>1, <1>5 DEF FedFin
  <1> QED
    BY <1>2, <1>3, <1>4, <1>5

\* A message said goes in front of what is said later.
Front(z, b, x) == \A u : IsSeq(u) => z \o u = b \o Cons(x, u)

LEMMA SayThen ==
    ASSUME NEW x, NEW m, DOMAIN x = ConnFields, IsSeq(x.sendBuf),
           NEW key, x.out = key
    PROVE  /\ Keeps(Say(x, m), x, {"transcript", "sendBuf"})
           /\ Say(x, m).transcript = Append(x.transcript, Digest(m))
           /\ IsSeq(Say(x, m).sendBuf)
           /\ Front(Say(x, m).sendBuf, x.sendBuf, hsRec(key, m))
  <1> DEFINE rec == hsRec(key, m)
             z == Say(x, m).sendBuf
             b == x.sendBuf
  <1>1. /\ Keeps(Say(x, m), x, {"transcript", "sendBuf"})
        /\ Say(x, m).transcript = Append(x.transcript, Digest(m))
        /\ Appended(z, b, rec)
    BY SayKeeps DEF Appended, hsRec
  <1>2. IsSeq(b)
    OBVIOUS
  <1> HIDE DEF rec, z, b
  <1>3. IsSeq(z)
    BY <1>1, <1>2, AppendThen, EmptyConcat
  <1>4. Front(z, b, rec)
    BY <1>1, <1>2, AppendThen DEF Front
  <1> QED
    BY <1>1, <1>3, <1>4 DEF rec, z, b

LEMMA sendServerCertificateGoes ==
    ASSUME AgreeInv, TicketInv, CauseInv, sendServerCertificate
    PROVE  CauseInv'
  <1> DEFINE asks == requestClientCert(s)
             w == Say(s, RequestMsg)
             p == IF asks THEN w ELSE s
             q == Say(p, ServerCert)
             verify == Signed("server", "server", q.transcript)
             v == Say(q, verify)
             e == IF s.usingPSK THEN s ELSE v
             f == [e EXCEPT !.pc = "sendServerFinished"]
             t == s.transcript
             key == s.out
             b == s.sendBuf
  <1>1. /\ s.pc = "sendServerCertificate" /\ toServer' = toServer
        /\ ServerBecomes(f)
    BY DEF sendServerCertificate, ServerDoes, RequestMsg, ServerCert, Signed,
           certificateVerify
  <1>2. /\ Answering(conf, c, s, toServer, toClient)
        /\ DOMAIN s = ConnFields /\ s.pc # "failed" /\ s.err = None
        /\ IsSeq(toClient) /\ IsSeq(b)
    BY <1>1, AnsweringNow
  <1>3. /\ s.buffering = TRUE
        /\ \A u : IsSeq(u) /\ FedServer(conf, s.usingPSK, key, t, u)
                    => FedHello(conf, FALSE, c, s.in, b \o u)
    BY <1>1, <1>2 DEF Answering
  <1>a. key = s.out
    OBVIOUS
  <1> HIDE DEF key
  <1>4. asks <=> conf.auth >= 1 /\ ~s.usingPSK
    BY DEF requestClientCert
  <1> HIDE DEF asks
  <1>5. /\ Keeps(w, s, {"transcript", "sendBuf"}) /\ IsSeq(w.sendBuf)
        /\ w.transcript = Append(t, Digest(RequestMsg))
        /\ Front(w.sendBuf, b, hsRec(key, RequestMsg))
    BY <1>2, <1>a, SayThen
  <1> HIDE DEF w
  <1>6. /\ Keeps(p, s, {"transcript", "sendBuf"}) /\ IsSeq(p.sendBuf)
        /\ asks => p = w
        /\ ~asks => p = s
    <2>1. Keeps(s, s, {"transcript", "sendBuf"})
      BY <1>2 DEF Keeps
    <2> QED
      BY <1>2, <1>5, <2>1
  <1> HIDE DEF p
  <1>7. DOMAIN p = ConnFields /\ p.out = key
    BY <1>6, <1>a DEF Keeps, ConnFields
  <1>8. /\ Keeps(q, p, {"transcript", "sendBuf"}) /\ IsSeq(q.sendBuf)
        /\ q.transcript = Append(p.transcript, Digest(ServerCert))
        /\ Front(q.sendBuf, p.sendBuf, hsRec(key, ServerCert))
    BY <1>6, <1>7, SayThen
  <1> HIDE DEF q
  <1>9. DOMAIN q = ConnFields /\ q.out = key
    BY <1>7, <1>8 DEF Keeps, ConnFields
  <1>10. verify = Signed("server", "server", q.transcript)
    OBVIOUS
  <1> HIDE DEF verify
  <1>11. /\ Keeps(v, q, {"transcript", "sendBuf"})
         /\ v.transcript = Append(q.transcript, Digest(verify))
         /\ Front(v.sendBuf, q.sendBuf, hsRec(key, verify))
    BY <1>8, <1>9, SayThen
  <1> HIDE DEF v
  <1>12. ASSUME ~s.usingPSK, NEW u, IsSeq(u), FedFin(key, v.transcript, u)
         PROVE  FedHello(conf, FALSE, c, s.in, v.sendBuf \o u)
    <2> DEFINE u1 == Cons(hsRec(key, verify), u)
               u2 == Cons(hsRec(key, ServerCert), u1)
               u3 == Cons(hsRec(key, RequestMsg), u2)
    <2>1. /\ FedVerify(key, q.transcript, u1) /\ IsSeq(u1)
          /\ v.sendBuf \o u = q.sendBuf \o u1
      BY <1>10, <1>11, <1>12, CertsCome, ConsSeq DEF Front
    <2> HIDE DEF u1
    <2>2. /\ FedCert(key, p.transcript, u2) /\ IsSeq(u2)
          /\ q.sendBuf \o u1 = p.sendBuf \o u2
      BY <1>8, <2>1, CertsCome, ConsSeq DEF Front
    <2> HIDE DEF u2
    <2>3. CASE asks
      <3>1. /\ FedRequest(key, t, u3) /\ IsSeq(u3) /\ p.sendBuf \o u2 = b \o u3
        BY <1>5, <1>6, <2>2, <2>3, CertsCome, ConsSeq DEF Front
      <3> HIDE DEF u3
      <3>2. FedServer(conf, s.usingPSK, key, t, u3)
        BY <1>4, <1>12, <2>3, <3>1 DEF FedServer
      <3>3. FedHello(conf, FALSE, c, s.in, b \o u3)
        BY <1>3, <3>1, <3>2
      <3> QED
        BY <2>1, <2>2, <3>1, <3>3
    <2>4. CASE ~asks
      <3>1. FedCert(key, t, u2) /\ p.sendBuf \o u2 = b \o u2
        BY <1>6, <2>2, <2>4
      <3>2. FedServer(conf, s.usingPSK, key, t, u2)
        BY <1>4, <1>12, <2>4, <3>1 DEF FedServer
      <3>3. FedHello(conf, FALSE, c, s.in, b \o u2)
        BY <1>3, <2>2, <3>2
      <3> QED
        BY <2>1, <2>2, <3>1, <3>3
    <2> QED
      BY <2>3, <2>4
  <1>13. ASSUME s.usingPSK, NEW u, IsSeq(u), FedFin(key, t, u)
         PROVE  FedHello(conf, FALSE, c, s.in, b \o u)
    BY <1>3, <1>13 DEF FedServer
  <1>14. Keeps(e, s, {"transcript", "sendBuf"})
    BY <1>2, <1>6, <1>8, <1>11 DEF Keeps
  <1>15. \A u : IsSeq(u) /\ FedFin(key, e.transcript, u)
                   => FedHello(conf, FALSE, c, s.in, e.sendBuf \o u)
    BY <1>12, <1>13
  <1> HIDE DEF e
  <1>16. Keeps(f, e, {"pc"}) /\ f.pc = "sendServerFinished"
    BY <1>14 DEF Keeps, ConnFields
  <1> HIDE DEF f
  <1>17. /\ f.hello = s.hello /\ f.suite = s.suite /\ f.buffering = TRUE
         /\ f.group = s.group /\ f.psk = s.psk /\ f.usingPSK = s.usingPSK
         /\ f.in = s.in /\ f.out = key /\ f.err = None
         /\ f.transcript = e.transcript /\ f.sendBuf = e.sendBuf
         /\ DOMAIN f = ConnFields
    BY <1>2, <1>3, <1>a, <1>14, <1>16 DEF Keeps, ConnFields
  <1>18. Answering(conf, c, f, toServer, toClient)
    BY <1>1, <1>2, <1>15, <1>16, <1>17 DEF Answering
  <1> QED
    BY <1>1, <1>2, <1>16, <1>17, <1>18, AnswersOn

Longer(z, b) == \E u : IsSeq(u) /\ z = b \o u

\* What sendSessionTickets adds, and the Finished it expects.
LEMMA SealsExpect ==
    ASSUME NEW x, DOMAIN x = ConnFields, IsSeq(x.sendBuf)
    PROVE  /\ Keeps(sendSessionTickets(x), x,
                    {"transcript", "clientFinished", "sendBuf"})
           /\ sendSessionTickets(x).clientFinished =
                finishedHash(x.in, x.transcript)
           /\ Longer(sendSessionTickets(x).sendBuf, x.sendBuf)
  <1> DEFINE v == finishedHash(x.in, x.transcript)
             m == finishedMsg(v)
             f == [x EXCEPT !.clientFinished = v]
             q == Hashed(f, m)
             y == sendSessionTickets(x)
             k == [type |-> "newSessionTicket", suite |-> x.suite,
                   secret |-> resumptionSecret(x.secret, q.transcript),
                   certs |-> x.peerCerts]
             b == x.sendBuf
  <1>1. y = q \/ y = Send(q, "handshake", k)
    BY Zenon DEF sendSessionTickets, resumptionSecret
  <1> HIDE DEF v, m, y
  <1>2. /\ Keeps(f, x, {"clientFinished"}) /\ f.clientFinished = v
        /\ DOMAIN f = ConnFields
    BY DEF Keeps, ConnFields
  <1> HIDE DEF f
  <1>3. Keeps(q, f, {"transcript"})
    BY <1>2, HashedKeeps
  <1> HIDE DEF q, k
  <1>4. /\ DOMAIN q = ConnFields /\ q.sendBuf = b /\ q.clientFinished = v
        /\ Keeps(q, x, {"transcript", "clientFinished"})
    BY <1>2, <1>3 DEF Keeps, ConnFields
  <1>5. CASE y = q
    <2>1. y.sendBuf = b \o <<>> /\ IsSeq(<<>>)
      BY <1>4, <1>5, EmptyConcat
    <2> QED
      BY <1>4, <1>5, <2>1 DEF y, v, b, Keeps, Longer
  <1>6. CASE y = Send(q, "handshake", k)
    <2> DEFINE rec == [typ |-> "handshake", key |-> q.out, msg |-> k]
               z == y.sendBuf
               u == Cons(rec, <<>>)
    <2>1. Keeps(y, q, {"sendBuf"}) /\ Appended(z, b, rec) /\ IsSeq(b)
      BY <1>4, <1>6, SendKeeps DEF Appended
    <2> HIDE DEF rec, z
    <2>2. IsSeq(u) /\ IsSeq(<<>>)
      BY EmptyConcat, ConsSeq
    <2>3. z \o <<>> = b \o u /\ IsSeq(z)
      <3> HIDE DEF b
      <3> QED
        BY <2>1, <2>2, AppendThen
    <2>4. z = b \o u
      BY <2>3, EmptyConcat
    <2>5. /\ Keeps(y, x, {"transcript", "clientFinished", "sendBuf"})
          /\ y.clientFinished = v
      BY <1>4, <2>1 DEF Keeps, ConnFields
    <2> HIDE DEF u
    <2> QED
      BY <2>2, <2>4, <2>5 DEF y, v, b, z, Longer
  <1> QED
    BY <1>1, <1>5, <1>6

LEMMA sendServerFinishedGoes ==
    ASSUME AgreeInv, TicketInv, CauseInv, sendServerFinished
    PROVE  CauseInv'
  <1> DEFINE m == finishedMsg(finishedHash(s.out, s.transcript))
             p == Say(s, m)
             app == clientAppKey(s.secret, p.transcript)
             other == serverAppKey(s.secret, p.transcript)
             q == [p EXCEPT !.app = app, !.out = other]
             k == sendSessionTickets(q)
             r == IF requestClientCert(s) THEN q ELSE k
             f == [r EXCEPT !.pc = "readClientCertificate", !.buffering = FALSE]
             t == s.transcript
             key == s.out
             b == s.sendBuf
             a == p.transcript
  <1>1. /\ s.pc = "sendServerFinished" /\ toServer' = toServer
        /\ ServerBecomes(f)
    BY Zenon DEF sendServerFinished, ServerDoes, clientAppKey, serverAppKey
  <1>2. /\ Answering(conf, c, s, toServer, toClient)
        /\ DOMAIN s = ConnFields /\ s.pc # "failed" /\ s.err = None
        /\ IsSeq(b) /\ IsSeq(t)
    BY <1>1, AnsweringNow
  <1>3. \A u : IsSeq(u) /\ FedFin(key, t, u) => FedHello(conf, FALSE, c, s.in, b \o u)
    BY <1>1, <1>2 DEF Answering
  <1>a. key = s.out
    OBVIOUS
  <1> HIDE DEF key
  <1>4. (Requests(t) <=> Asks(conf, s)) /\ (requestClientCert(s) <=> Asks(conf, s))
    <2>1. s.pc \notin After
      BY <1>1 DEF After
    <2> QED
      BY <1>1, <2>1, QuietlyNow DEF ServerTicket, requestClientCert, Asks
  <1>5. m = finishedMsg(finishedHash(key, t)) /\ m.type = "finished"
    BY <1>a DEF finishedMsg
  <1> HIDE DEF m
  <1>6. /\ Keeps(p, s, {"transcript", "sendBuf"}) /\ IsSeq(p.sendBuf)
        /\ a = Append(t, Digest(m))
        /\ Front(p.sendBuf, b, hsRec(key, m))
    BY <1>2, <1>a, SayThen
  <1>7. Requests(a) <=> Asks(conf, s)
    BY <1>2, <1>4, <1>5, <1>6, RequestsHashed
  <1>8. app.transcript = a
    BY AppKeyParts
  <1> HIDE DEF p, a, app, other
  <1>9. DOMAIN p = ConnFields
    BY <1>6 DEF Keeps
  <1>10. /\ Keeps(q, p, {"app", "out"}) /\ q.app = app
    BY <1>9 DEF Keeps, ConnFields
  <1> HIDE DEF q
  <1>11. /\ DOMAIN q = ConnFields /\ q.sendBuf = p.sendBuf /\ q.transcript = a
         /\ q.in = s.in /\ q.usingPSK = s.usingPSK /\ q.err = None
    BY <1>2, <1>6, <1>10 DEF Keeps, ConnFields, a
  <1>12. /\ Keeps(k, q, {"transcript", "clientFinished", "sendBuf"})
         /\ k.clientFinished = finishedHash(q.in, q.transcript)
         /\ Longer(k.sendBuf, q.sendBuf)
    BY <1>6, <1>11, SealsExpect
  <1> HIDE DEF k
  <1>13. /\ Keeps(r, q, {"transcript", "clientFinished", "sendBuf"})
         /\ ~Asks(conf, s) => r.clientFinished = finishedHash(s.in, a)
         /\ Longer(r.sendBuf, p.sendBuf)
    <2>1. CASE requestClientCert(s)
      <3>1. q.sendBuf = p.sendBuf \o <<>> /\ IsSeq(<<>>)
        BY <1>6, <1>11, EmptyConcat
      <3>2. r = q
        BY <2>1
      <3> HIDE DEF r
      <3> QED
        BY <1>4, <1>11, <2>1, <3>1, <3>2 DEF Keeps, Longer
    <2>2. CASE ~requestClientCert(s)
      BY <1>11, <1>12, <2>2
    <2> QED
      BY <2>1, <2>2
  <1> HIDE DEF r
  <1>14. PICK u : IsSeq(u) /\ r.sendBuf = p.sendBuf \o u
    BY <1>13 DEF Longer
  <1> DEFINE w == Cons(hsRec(key, m), u)
  <1>15. IsSeq(w) /\ FedFin(key, t, w) /\ r.sendBuf = b \o w
    BY <1>5, <1>6, <1>14, CertsCome, ConsSeq DEF Front
  <1> HIDE DEF w
  <1>16. FedHello(conf, FALSE, c, s.in, r.sendBuf) /\ IsSeq(r.sendBuf)
    BY <1>2, <1>3, <1>15, RecsConcat
  <1>17. DOMAIN r = ConnFields
    BY <1>13 DEF Keeps
  <1>18. /\ Keeps(f, r, {"pc", "buffering"}) /\ f.pc = "readClientCertificate"
         /\ f.buffering = FALSE
    BY <1>17 DEF Keeps, ConnFields
  <1> HIDE DEF f
  <1>19. /\ f.app = app /\ f.in = s.in /\ f.usingPSK = s.usingPSK
         /\ f.sendBuf = r.sendBuf /\ f.clientFinished = r.clientFinished
         /\ f.err = None /\ DOMAIN f = ConnFields
    BY <1>10, <1>11, <1>13, <1>18 DEF Keeps, ConnFields
  <1>20. Asks(conf, f) <=> Asks(conf, s)
    BY <1>19 DEF Asks
  <1>21. Awaits(conf, f)
    BY <1>7, <1>8, <1>13, <1>18, <1>19, <1>20 DEF Awaits, Before
  <1> DEFINE bad == f.pc = "failed"
  <1>22. bad = FALSE
    BY <1>18
  <1> HIDE DEF bad
  <1>23. FedHello(conf, bad, c, f.in, f.sendBuf)
    BY <1>16, <1>19, <1>22
  <1> QED
    BY <1>1, <1>16, <1>18, <1>19, <1>21, <1>23, FlightDelivered DEF bad

\* The server that waits.
LEMMA WaitingNow ==
    ASSUME AgreeInv, TicketInv, CauseInv, s.pc \in After \ {"failed"}
    PROVE  /\ DOMAIN s = ConnFields /\ s.pc # "failed" /\ s.err = None
           /\ s.buffering = FALSE /\ s.sendBuf = <<>> /\ IsSeq(s.transcript)
           /\ IsSeq(toClient) /\ IsSeq(toServer)
           /\ \/ Delivered(conf, c, s, toServer, toClient)
              \/ Completing(conf, c, s, toServer, toClient)
              \/ Refusing(conf, c, s, toServer, toClient)
  <1>1. s.buffering = FALSE /\ s.sendBuf = <<>>
    BY DEF TicketInv, ServerBuf
  <1>2. s.pc # "failed" /\ s.err = None
    BY DEF CauseInv, Blameless
  <1> QED
    BY <1>1, <1>2, WiresNow, ServerStageAt

\* It fails for a reason.
LEMMA WaitingFails ==
    ASSUME AgreeInv, TicketInv, CauseInv, s.pc \in After \ {"failed"}, NEW r,
           DOMAIN r = ConnFields, r.pc = "failed", ServerFault(conf, r.err, c),
           IsSeq(r.sendBuf), r.in = s.in, ServerBecomes(r),
           toServer = <<>> => toServer' = <<>>
    PROVE  CauseInv'
  <1> DEFINE d == s'
             tc == toClient'
             tv == toServer'
             u == Passed(r)
  <1>1. /\ DOMAIN s = ConnFields /\ s.pc # "failed" /\ IsSeq(toClient)
        /\ \/ Delivered(conf, c, s, toServer, toClient)
           \/ Completing(conf, c, s, toServer, toClient)
           \/ Refusing(conf, c, s, toServer, toClient)
    BY WaitingNow
  <1>2. /\ Keeps(d, r, {"sendBuf"}) /\ c' = c /\ conf' = conf
        /\ tc = toClient \o u
    BY DEF ServerBecomes, Keeps, ConnFields
  <1>3. IsSeq(u)
    BY EmptyConcat DEF Passed
  <1>4. toServer = <<>> => tv = <<>>
    OBVIOUS
  <1> HIDE DEF d, tc, tv, u
  <1>5. d.pc = "failed" /\ d.err = r.err /\ d.in = s.in
    BY <1>2 DEF Keeps, ConnFields
  <1> DEFINE bad == d.pc = "failed"
             was == s.pc = "failed"
  <1>6. bad = TRUE
    BY <1>5
  <1> HIDE DEF bad, was
  <1>7. ASSUME Delivered(conf, c, s, toServer, toClient)
        PROVE  Stage(conf, c, d, tv, tc)
    <2>1. toServer = <<>> /\ Feeds(conf, was, c, s.in, toClient)
      BY <1>7 DEF Delivered, was
    <2>2. Feeds(conf, TRUE, c, s.in, tc)
      BY <1>1, <1>2, <1>3, <2>1, FeedsOn
    <2>3. Feeds(conf, bad, c, d.in, tc)
      BY <1>5, <1>6, <2>2
    <2> QED
      BY <1>4, <1>5, <1>7, <2>1, <2>3 DEF Delivered, Stage, bad
  <1>8. ASSUME Completing(conf, c, s, toServer, toClient)
        PROVE  Stage(conf, c, d, tv, tc)
    BY <1>5, <1>8 DEF Completing, SFeeds, Stage, After
  <1>9. ASSUME Refusing(conf, c, s, toServer, toClient)
        PROVE  Stage(conf, c, d, tv, tc)
    BY <1>5, <1>9 DEF Refusing, Stage
  <1>10. Stage(conf, c, d, tv, tc)
    BY <1>1, <1>7, <1>8, <1>9
  <1> QED
    BY <1>1, <1>2, <1>5, <1>10, ServerProceeds DEF d, tv, tc

LEMMA WaitingAlerts ==
    ASSUME AgreeInv, TicketInv, CauseInv, s.pc \in After \ {"failed"}, NEW x,
           Keeps(x, s, {"transcript", "peerCerts"}), NEW a,
           ServerFault(conf, a, c), ServerBecomes(Alert(x, a)),
           toServer = <<>> => toServer' = <<>>
    PROVE  CauseInv'
  <1> DEFINE r == Alert(x, a)
             rec == [typ |-> "alert", key |-> x.out, msg |-> [type |-> a]]
             b == x.sendBuf
             z == r.sendBuf
  <1>1. DOMAIN x = ConnFields /\ b = <<>> /\ x.in = s.in
    BY WaitingNow DEF Keeps, ConnFields
  <1>2. /\ Keeps(r, x, {"pc", "err", "buffering", "sendBuf"})
        /\ r.pc = "failed" /\ r.err = a /\ z = Append(b, rec)
    BY <1>1, AlertParts
  <1>3. ServerBecomes(r)
    OBVIOUS
  <1> HIDE DEF r, rec, b
  <1>4. IsSeq(z)
    BY <1>1, <1>2, EmptyConcat
  <1>5. DOMAIN r = ConnFields /\ r.in = s.in
    BY <1>1, <1>2 DEF Keeps, ConnFields
  <1> QED
    BY <1>2, <1>3, <1>4, <1>5, WaitingFails

\* It reads what the client has sent, if the client is done.
LEMMA WaitingReads ==
    ASSUME AgreeInv, TicketInv, CauseInv, s.pc \in After \ {"failed"},
           toServer # <<>>
    PROVE  \/ Completing(conf, c, s, toServer, toClient)
           \/ Refusing(conf, c, s, toServer, toClient)
  BY WaitingNow DEF Delivered

LEMMA WaitingHears ==
    ASSUME AgreeInv, TicketInv, CauseInv, s.pc \in After \ {"failed"},
           toServer # <<>>, Head(toServer).typ # "ccs", NEW types
    PROVE  \/ Completing(conf, c, s, toServer, toClient)
           \/ /\ Receive(s, Head(toServer), types).pc = "failed"
              /\ ServerBecomes(Receive(s, Head(toServer), types)) => CauseInv'
  <1> DEFINE r == Receive(s, Head(toServer), types)
  <1>1. SUFFICES ASSUME Refusing(conf, c, s, toServer, toClient)
                 PROVE  r.pc = "failed" /\ (ServerBecomes(r) => CauseInv')
    BY WaitingReads
  <1>2. /\ DOMAIN s = ConnFields /\ s.pc # "failed" /\ s.sendBuf = <<>>
        /\ IsSeq(toServer)
    BY WaitingNow
  <1>3. /\ c.pc = "failed"
        /\ \A x \in Recs(toServer) : Excuse(s, x)
    BY <1>1, <1>2 DEF Refusing
  <1>4. Head(toServer) \in Recs(toServer)
    BY <1>2, RecsTail
  <1>5. AlertNext(s.in, toServer)
    BY <1>3, <1>4 DEF Excuse, AlertNext
  <1>6. r = Return(s, "remote")
    BY <1>2, <1>5, Receives
  <1>7. /\ Keeps(r, s, {"pc", "err", "buffering"}) /\ r.pc = "failed"
        /\ r.err = "remote"
    BY <1>2, <1>6 DEF Return, Keeps, ConnFields
  <1> HIDE DEF r
  <1>8. /\ DOMAIN r = ConnFields /\ r.in = s.in /\ r.sendBuf = <<>>
        /\ IsSeq(r.sendBuf)
    BY <1>2, <1>7, EmptyConcat DEF Keeps, ConnFields
  <1>9. ServerFault(conf, r.err, c)
    BY <1>3, <1>7 DEF ServerFault
  <1> QED
    BY <1>7, <1>8, <1>9, WaitingFails

\* The client is done, and the server goes on.
LEMMA CompletesOn ==
    ASSUME CauseInv, c.pc = "done", s.pc # "failed", NEW r,
           DOMAIN r = ConnFields, r.pc \in After \ {"failed"}, r.err = None,
           ServerBecomes(r), SFeeds(conf, r, toServer')
    PROVE  CauseInv'
  <1> DEFINE d == s'
             tc == toClient'
             tv == toServer'
  <1>1. Keeps(d, r, {"sendBuf"}) /\ c' = c /\ conf' = conf
    BY ServerSends
  <1>2. SFeeds(conf, r, tv)
    OBVIOUS
  <1> HIDE DEF d, tc, tv
  <1>3. /\ d.pc = r.pc /\ d.app = r.app /\ d.in = r.in /\ d.err = None
        /\ d.clientFinished = r.clientFinished /\ d.usingPSK = r.usingPSK
    BY <1>1 DEF Keeps, ConnFields
  <1>4. (Asks(conf, d) <=> Asks(conf, r)) /\ (Awaits(conf, r) => Awaits(conf, d))
    BY <1>3 DEF Asks, Awaits
  <1>5. SFeeds(conf, d, tv)
    <2>1. d.pc = "readClientCertificate" =>
             /\ Awaits(conf, d)
             /\ CAll(conf, Asks(conf, d), d.in, d.app.transcript, tv)
      <3> DEFINE x == Asks(conf, r)
                 y == Asks(conf, d)
      <3>1. y = x
        BY <1>4 DEF Asks
      <3>2. r.pc = "readClientCertificate" =>
              Awaits(conf, r) /\ CAll(conf, x, r.in, r.app.transcript, tv)
        BY <1>2 DEF SFeeds
      <3> HIDE DEF x, y
      <3> QED
        BY <1>3, <1>4, <3>1, <3>2 DEF y
    <2> QED
      BY <1>2, <1>3, <2>1 DEF SFeeds
  <1>6. Stage(conf, c, d, tv, tc)
    BY <1>3, <1>5 DEF Stage, Completing
  <1> QED
    BY <1>1, <1>3, <1>6, ServerProceeds DEF d, tv, tc

LEMMA SkipClientCertificateGoes ==
    ASSUME AgreeInv, TicketInv, CauseInv, SkipClientCertificate
    PROVE  CauseInv'
  <1> DEFINE r == [s EXCEPT !.pc = "readClientFinished"]
             a == Alert(s, "bad_certificate")
             d == s'
             tc == toClient'
             tv == toServer'
  <1>1. /\ s.pc = "readClientCertificate" /\ ~Asks(conf, s) /\ tv = toServer
        /\ \/ conf.serverVetoes /\ ServerBecomes(a)
           \/ ServerBecomes(r)
    BY DEF SkipClientCertificate, ServerDoes, requestClientCert, Asks
  <1>2. s.pc \in After \ {"failed"}
    BY <1>1 DEF After
  <1>3. /\ DOMAIN s = ConnFields /\ s.pc # "failed" /\ s.err = None
        /\ s.buffering = FALSE /\ s.sendBuf = <<>> /\ IsSeq(toClient)
        /\ \/ Delivered(conf, c, s, toServer, toClient)
           \/ Completing(conf, c, s, toServer, toClient)
           \/ Refusing(conf, c, s, toServer, toClient)
    BY <1>2, WaitingNow
  <1>4. CASE conf.serverVetoes /\ ServerBecomes(a)
    <2>1. ServerFault(conf, "bad_certificate", c)
      BY <1>4 DEF ServerFault
    <2>2. Keeps(s, s, {"transcript", "peerCerts"})
      BY <1>3 DEF Keeps
    <2> QED
      BY <1>1, <1>2, <1>4, <2>1, <2>2, WaitingAlerts
  <1>5. CASE ServerBecomes(r)
    <2>1. ServerBecomes(r)
      BY <1>5
    <2>2. Keeps(r, s, {"pc"}) /\ r.pc = "readClientFinished"
      BY <1>3 DEF Keeps, ConnFields
    <2> HIDE DEF r
    <2>3. DOMAIN r = ConnFields /\ r.buffering = FALSE /\ r.sendBuf = <<>>
      BY <1>3, <2>2 DEF Keeps, ConnFields
    <2>4. /\ Keeps(d, r, {"sendBuf"}) /\ c' = c /\ conf' = conf
          /\ tc = toClient \o <<>>
      BY <2>1, <2>3, ServerSends
    <2>5. tc = toClient
      BY <1>3, <2>4, EmptyConcat
    <2> HIDE DEF d, tc, tv
    <2>6. /\ d.pc = "readClientFinished" /\ d.app = s.app /\ d.in = s.in
          /\ d.clientFinished = s.clientFinished /\ d.usingPSK = s.usingPSK
          /\ d.err = None
      BY <1>3, <2>2, <2>4 DEF Keeps, ConnFields
    <2>7. ~Asks(conf, d)
      BY <1>1, <2>6 DEF Asks
    <2>8. Awaits(conf, s) => Awaits(conf, d)
      BY <1>1, <2>6, <2>7 DEF Awaits
    <2>9. ASSUME Delivered(conf, c, s, toServer, toClient)
          PROVE  Stage(conf, c, d, tv, tc)
      <3> DEFINE bad == d.pc = "failed"
                 was == s.pc = "failed"
      <3>1. bad = was
        BY <1>3, <2>6
      <3> HIDE DEF bad, was
      <3>2. Feeds(conf, bad, c, d.in, tc)
        BY <2>5, <2>6, <2>9, <3>1 DEF Delivered, was
      <3> QED
        BY <1>1, <1>3, <2>6, <2>8, <2>9, <3>2 DEF Delivered, Stage, bad
    <2>10. ASSUME Completing(conf, c, s, toServer, toClient)
          PROVE  Stage(conf, c, d, tv, tc)
      <3> DEFINE x == Asks(conf, s)
      <3>1. /\ Awaits(conf, s) /\ CAll(conf, x, s.in, s.app.transcript, tv)
            /\ c.pc = "done"
        BY <1>1, <2>10 DEF Completing, SFeeds
      <3>2. ~x
        BY <1>1
      <3> HIDE DEF x
      <3>3. SFeeds(conf, d, tv)
        BY <1>1, <2>6, <3>1, <3>2 DEF SFeeds, Awaits, CAll, CFlight
      <3> QED
        BY <2>6, <3>1, <3>3 DEF Completing, Stage, After
    <2>11. ASSUME Refusing(conf, c, s, toServer, toClient)
          PROVE  Stage(conf, c, d, tv, tc)
      BY <1>1, <1>3, <2>6, <2>8, <2>11 DEF Refusing, Stage, Excuse
    <2>12. Stage(conf, c, d, tv, tc)
      BY <1>3, <2>9, <2>10, <2>11
    <2> QED
      BY <1>3, <2>4, <2>6, <2>12, ServerProceeds DEF d, tv, tc
  <1> HIDE DEF a, r
  <1> QED
    BY <1>1, <1>4, <1>5

\* The tickets go out with the client's Finished still to come.
LEMMA SealsOn ==
    ASSUME CauseInv, c.pc = "done", s.pc # "failed", NEW x,
           DOMAIN x = ConnFields, x.err = None, x.sendBuf = <<>>,
           x.transcript = Before(conf, x.app.transcript),
           CFin(conf, x.in, x.app.transcript, toServer'),
           ServerBecomes([sendSessionTickets(x) EXCEPT !.pc = "readClientFinished"])
    PROVE  CauseInv'
  <1> DEFINE k == sendSessionTickets(x)
             r == [k EXCEPT !.pc = "readClientFinished"]
             tv == toServer'
  <1>1. ServerBecomes(r) /\ CFin(conf, x.in, x.app.transcript, tv)
    OBVIOUS
  <1> HIDE DEF tv
  <1>2. /\ Keeps(k, x, {"transcript", "clientFinished", "sendBuf"})
        /\ k.clientFinished = finishedHash(x.in, x.transcript)
    BY SealsExpect, EmptyConcat
  <1> HIDE DEF k
  <1>3. Keeps(r, k, {"pc"}) /\ r.pc = "readClientFinished"
    BY <1>2 DEF Keeps, ConnFields
  <1> HIDE DEF r
  <1>4. /\ r.in = x.in /\ r.app = x.app /\ r.err = None /\ DOMAIN r = ConnFields
        /\ r.clientFinished = finishedHash(x.in, x.transcript)
    BY <1>2, <1>3 DEF Keeps, ConnFields
  <1>5. SFeeds(conf, r, tv)
    BY <1>1, <1>3, <1>4 DEF SFeeds
  <1> QED
    BY <1>1, <1>3, <1>4, <1>5, CompletesOn DEF After, tv

LEMMA readClientCertificateGoes ==
    ASSUME AgreeInv, TicketInv, CauseInv, readClientCertificate
    PROVE  CauseInv'
  <1> DEFINE rec == Head(toServer)
             m == rec.msg
             g == Receive(s, rec, {"certificate"})
             E(x) == [x EXCEPT !.pc = "readClientCertificateVerify"]
             K(x) == [sendSessionTickets(x) EXCEPT !.pc = "readClientFinished"]
             A(x) == Alert(x, "bad_certificate")
             G(x) == CASE conf.serverVetoes -> A(x)
                       [] ~conf.serverVetoes /\ m.cert # "none" -> E(x)
                       [] ~conf.serverVetoes /\ m.cert = "none" -> K(x)
             P(x) == processCertsFromClient(Hashed(x, m), m.cert)
             h == Hashed(s, m)
             q == processCertsFromClient(h, m.cert)
             b == Alert(h, "bad_certificate")
             o == [h EXCEPT !.peerCerts = m.cert]
             a == s.app.transcript
             tv == toServer'
  <1>1. /\ s.pc = "readClientCertificate" /\ Asks(conf, s)
        /\ toServer # <<>> /\ rec.typ # "ccs" /\ tv = Tail(toServer)
        /\ \/ g.pc = "failed" /\ ServerBecomes(g)
           \/ g.pc # "failed" /\
                ServerBecomes(IF P(g).pc = "failed" THEN P(g) ELSE G(P(g)))
    BY DEF readClientCertificate, ServerReads, Then, requestClientCert, Asks
  <1>2. s.pc \in After \ {"failed"}
    BY <1>1 DEF After
  <1>3. /\ DOMAIN s = ConnFields /\ s.pc # "failed" /\ s.err = None
        /\ s.sendBuf = <<>> /\ IsSeq(s.transcript)
    BY <1>2, WaitingNow
  <1>4. \/ Completing(conf, c, s, toServer, toClient)
        \/ /\ g.pc = "failed"
           /\ ServerBecomes(g) => CauseInv'
    BY <1>1, <1>2, WaitingHears
  <1>5. CASE Completing(conf, c, s, toServer, toClient)
    <2> DEFINE asks == Asks(conf, s)
    <2>1. c.pc = "done" /\ CAll(conf, asks, s.in, a, toServer)
      BY <1>1, <1>5 DEF Completing, SFeeds
    <2>2. asks
      BY <1>1
    <2> HIDE DEF asks
    <2>3. CFlight(conf, asks, s.in, a, toServer)
      BY <1>1, <2>1 DEF CAll, CCSNext
    <2>4. /\ Comes(s.in, certMsg(conf), toServer)
          /\ conf.clientCert = "none" => CFin(conf, s.in, a, tv)
          /\ conf.clientCert # "none" => CVerify(conf, s.in, a, tv)
      BY <1>1, <2>2, <2>3 DEF CFlight
    <2> HIDE DEF tv
    <2>5. g = s /\ m = certMsg(conf)
      <3>1. certMsg(conf).type \in {"certificate"}
        BY DEF certMsg
      <3> QED
        BY <1>3, <2>4, <3>1, Receives
    <2>6. ServerBecomes(IF q.pc = "failed" THEN q ELSE G(q))
      BY <1>1, <1>3, <2>5
    <2>7. m.cert = conf.clientCert /\ m.type = "certificate"
      BY <2>5 DEF certMsg
    <2>8. s.transcript = a /\ Requests(a)
      BY <1>1 DEF TicketInv, ServerTicket
    <2>9. (q = b /\ Refused(conf, conf.clientCert)) \/ q = o
      BY <2>7 DEF processCertsFromClient, Refused
    <2> HIDE DEF q, m
    <2>10. Digest(m) = certMsg(conf)
      BY <2>5, <2>7, DigestSelf
    <2>11. Keeps(h, s, {"transcript"}) /\ h.transcript = Shown(conf, a)
      BY <1>3, <2>8, <2>10, HashedKeeps DEF Shown
    <2> HIDE DEF h
    <2>12. DOMAIN h = ConnFields /\ h.pc = s.pc
      BY <2>11 DEF Keeps, ConnFields
    <2>13. b.pc = "failed"
      BY <2>12, AlertParts
    <2>14. toServer = <<>> => toServer' = <<>>
      BY <1>1
    <2>15. /\ Keeps(o, h, {"peerCerts"}) /\ o.peerCerts = conf.clientCert
           /\ o.pc # "failed"
      BY <1>3, <2>7, <2>12 DEF Keeps, ConnFields
    <2>16. CASE q = b /\ Refused(conf, conf.clientCert)
      <3>1. ServerBecomes(b)
        BY <2>6, <2>13, <2>16
      <3>2. ServerFault(conf, "bad_certificate", c)
        BY <2>16 DEF ServerFault
      <3>3. Keeps(h, s, {"transcript", "peerCerts"})
        BY <2>11 DEF Keeps
      <3> QED
        BY <1>2, <2>14, <3>1, <3>2, <3>3, WaitingAlerts
    <2>17. CASE q = o
      <3> HIDE DEF o, b
      <3>1. ServerBecomes(G(o))
        BY <2>6, <2>15, <2>17
      <3>2. \/ conf.serverVetoes /\ ServerBecomes(A(o))
            \/ ServerBecomes(E(o)) /\ conf.clientCert # "none"
            \/ ServerBecomes(K(o)) /\ conf.clientCert = "none"
        <4> HIDE DEF A, E, K
        <4>1. CASE conf.serverVetoes
          BY <3>1, <4>1
        <4>2. CASE ~conf.serverVetoes /\ m.cert # "none"
          BY <2>7, <3>1, <4>2
        <4>3. CASE ~conf.serverVetoes /\ m.cert = "none"
          BY <2>7, <3>1, <4>3
        <4> QED
          BY <4>1, <4>2, <4>3
      <3>3. /\ o.in = s.in /\ o.app = s.app /\ o.err = None
            /\ o.sendBuf = <<>> /\ DOMAIN o = ConnFields
            /\ o.transcript = Shown(conf, a)
            /\ Keeps(o, s, {"transcript", "peerCerts"})
        BY <1>3, <2>11, <2>15 DEF Keeps, ConnFields
      <3>4. CASE conf.serverVetoes /\ ServerBecomes(A(o))
        <4>1. ServerFault(conf, "bad_certificate", c)
          BY <3>4 DEF ServerFault
        <4> QED
          BY <1>2, <2>14, <3>3, <3>4, <4>1, WaitingAlerts
      <3>5. CASE ServerBecomes(E(o)) /\ conf.clientCert # "none"
        <4> DEFINE e == E(o)
        <4>1. /\ Keeps(e, o, {"pc"}) /\ e.pc = "readClientCertificateVerify"
          BY <3>3 DEF Keeps, ConnFields
        <4>2. ServerBecomes(e)
          BY <3>5
        <4> HIDE DEF e
        <4>3. e.in = s.in /\ e.app = s.app /\ e.err = None /\ DOMAIN e = ConnFields
          BY <3>3, <4>1 DEF Keeps, ConnFields
        <4>4. SFeeds(conf, e, tv)
          BY <2>4, <3>5, <4>1, <4>3 DEF SFeeds
        <4> QED
          BY <1>3, <2>1, <4>1, <4>2, <4>3, <4>4, CompletesOn DEF After, tv
      <3>6. CASE ServerBecomes(K(o)) /\ conf.clientCert = "none"
        <4>1. o.transcript = Before(conf, o.app.transcript)
          BY <2>8, <3>3, <3>6 DEF Before
        <4>2. CFin(conf, o.in, o.app.transcript, tv)
          BY <2>4, <3>3, <3>6
        <4> QED
          BY <1>3, <2>1, <3>3, <3>6, <4>1, <4>2, SealsOn DEF tv
      <3> HIDE DEF A, E, K, G
      <3> QED
        BY <3>2, <3>4, <3>5, <3>6
    <2> QED
      BY <2>9, <2>16, <2>17
  <1> HIDE DEF g, G, P
  <1> QED
    BY <1>1, <1>4, <1>5

LEMMA ReadClientVerifyGoes ==
    ASSUME AgreeInv, TicketInv, CauseInv, ReadClientCertificateVerify
    PROVE  CauseInv'
  <1> DEFINE rec == Head(toServer)
             m == rec.msg
             g == Receive(s, rec, {"certificateVerify"})
             K(x) == [sendSessionTickets(x) EXCEPT !.pc = "readClientFinished"]
             h == Hashed(s, m)
             a == s.app.transcript
             t == Shown(conf, a)
             proof == [type |-> "certificateVerify", by |-> conf.clientCert]
             tv == toServer'
  <1>1. /\ s.pc = "readClientCertificateVerify" /\ toServer # <<>>
        /\ rec.typ # "ccs" /\ tv = Tail(toServer)
        /\ \/ g.pc = "failed" /\ ServerBecomes(g)
           \/ /\ g.pc # "failed"
              /\ m = certificateVerify(g, "client", g.peerCerts) =>
                    ServerBecomes(K(Hashed(g, m)))
    BY DEF ReadClientCertificateVerify, ServerReads, Then
  <1>2. s.pc \in After \ {"failed"}
    BY <1>1 DEF After
  <1>3. /\ DOMAIN s = ConnFields /\ s.pc # "failed" /\ s.err = None
        /\ s.sendBuf = <<>> /\ IsSeq(s.transcript)
    BY <1>2, WaitingNow
  <1>4. \/ Completing(conf, c, s, toServer, toClient)
        \/ /\ g.pc = "failed"
           /\ ServerBecomes(g) => CauseInv'
    BY <1>1, <1>2, WaitingHears
  <1>5. CASE Completing(conf, c, s, toServer, toClient)
    <2> DEFINE signed == Signed("client", conf.clientCert, t)
    <2>1. /\ c.pc = "done" /\ Comes(s.in, signed, toServer)
          /\ CFin(conf, s.in, a, tv)
      BY <1>1, <1>5 DEF Completing, SFeeds, CVerify
    <2>2. /\ conf.clientCert # "none" /\ s.peerCerts = conf.clientCert
          /\ s.transcript = t /\ Requests(a)
      BY <1>1 DEF TicketInv, ServerTicket
    <2> HIDE DEF tv
    <2>3. signed.type \in {"certificateVerify"} /\ signed.by = conf.clientCert
      BY DEF Signed
    <2>4. signed = certificateVerify(s, "client", s.peerCerts)
      BY <2>2 DEF Signed, certificateVerify
    <2>5. Digest(signed) = proof
      <3> HIDE DEF signed
      <3> QED
        BY <2>3 DEF Digest
    <2> HIDE DEF signed
    <2>6. g = s /\ m = signed
      BY <1>3, <2>1, <2>3, Receives
    <2>7. ServerBecomes(K(h))
      BY <1>1, <1>3, <2>4, <2>6
    <2>8. Keeps(h, s, {"transcript"}) /\ h.transcript = Append(t, proof)
      BY <1>3, <2>2, <2>5, <2>6, HashedKeeps
    <2> HIDE DEF h
    <2>9. /\ h.in = s.in /\ h.app = s.app /\ h.err = None
          /\ h.sendBuf = <<>> /\ DOMAIN h = ConnFields
      BY <1>3, <2>8 DEF Keeps, ConnFields
    <2>10. h.transcript = Before(conf, h.app.transcript)
      BY <2>2, <2>8, <2>9 DEF Before
    <2>11. CFin(conf, h.in, h.app.transcript, tv)
      BY <2>1, <2>9
    <2> QED
      BY <1>3, <2>1, <2>7, <2>9, <2>10, <2>11, SealsOn DEF tv
  <1> HIDE DEF g, K
  <1> QED
    BY <1>1, <1>4, <1>5

LEMMA readClientFinishedGoes ==
    ASSUME AgreeInv, TicketInv, CauseInv, readClientFinished
    PROVE  CauseInv'
  <1> DEFINE rec == Head(toServer)
             m == rec.msg
             g == Receive(s, rec, {"finished"})
             R(x) == [x EXCEPT !.in = x.app, !.pc = "done"]
             r == R(s)
             a == s.app.transcript
             v == finishedHash(s.in, Before(conf, a))
             fin == finishedMsg(v)
             tv == toServer'
  <1>1. /\ s.pc = "readClientFinished" /\ toServer # <<>>
        /\ rec.typ # "ccs" /\ tv = Tail(toServer)
        /\ \/ g.pc = "failed" /\ ServerBecomes(g)
           \/ /\ g.pc # "failed"
              /\ m.verifyData = g.clientFinished => ServerBecomes(R(g))
    BY DEF readClientFinished, ServerReads, Then
  <1>2. s.pc \in After \ {"failed"}
    BY <1>1 DEF After
  <1>3. DOMAIN s = ConnFields /\ s.pc # "failed" /\ s.err = None
    BY <1>2, WaitingNow
  <1>4. \/ Completing(conf, c, s, toServer, toClient)
        \/ /\ g.pc = "failed"
           /\ ServerBecomes(g) => CauseInv'
    BY <1>1, <1>2, WaitingHears
  <1>5. CASE Completing(conf, c, s, toServer, toClient)
    <2>1. /\ c.pc = "done" /\ s.clientFinished = v
          /\ CFin(conf, s.in, a, toServer)
      BY <1>1, <1>5 DEF Completing, SFeeds, CCSNext
    <2>2. Comes(s.in, fin, toServer)
      BY <2>1 DEF CFin
    <2> HIDE DEF v, tv
    <2>3. fin.type \in {"finished"} /\ fin.verifyData = v
      BY DEF finishedMsg
    <2> HIDE DEF fin
    <2>4. g = s /\ m = fin
      BY <1>3, <2>2, <2>3, Receives
    <2>5. ServerBecomes(r)
      BY <1>1, <1>3, <2>1, <2>3, <2>4
    <2>6. /\ r.pc = "done" /\ r.err = None /\ DOMAIN r = ConnFields
      BY <1>3 DEF ConnFields
    <2> HIDE DEF r
    <2>7. SFeeds(conf, r, tv)
      BY <2>6 DEF SFeeds
    <2> QED
      BY <1>3, <2>1, <2>5, <2>6, <2>7, CompletesOn DEF After, tv
  <1> HIDE DEF g, R
  <1> QED
    BY <1>1, <1>4, <1>5

\* A record is the next one or comes later.
LEMMA RecsHead ==
    ASSUME NEW t, IsSeq(t), t # <<>>
    PROVE  \A r \in Recs(t) : r = Head(t) \/ r \in Recs(Tail(t))
  <1>1. PICK T : t \in Seq(T)
    BY DEF IsSeq
  <1>2. /\ Tail(t) \in Seq(T) /\ Len(Tail(t)) = Len(t) - 1 /\ Head(t) = t[1]
        /\ \A i \in 1 .. Len(Tail(t)) : Tail(t)[i] = t[i + 1]
    BY <1>1, HeadTailProperties
  <1>3. /\ Len(t) \in Nat /\ DOMAIN t = 1 .. Len(t)
        /\ DOMAIN Tail(t) = 1 .. Len(Tail(t))
    BY <1>1, <1>2, LenProperties
  <1> DEFINE u == Tail(t)
             n == Len(t)
  <1>4. /\ \A i \in 1 .. (n - 1) : u[i] = t[i + 1] /\ i \in DOMAIN u
        /\ n \in Nat /\ DOMAIN t = 1 .. n /\ Head(t) = t[1]
    BY <1>2, <1>3
  <1> HIDE DEF u, n
  <1>5. ASSUME NEW i \in DOMAIN t PROVE t[i] = Head(t) \/ t[i] \in Recs(u)
    <2>1. CASE i = 1
      BY <1>4, <2>1
    <2>2. CASE i # 1
      <3>1. i - 1 \in 1 .. (n - 1) /\ (i - 1) + 1 = i
        BY <1>4, <2>2
      <3> QED
        BY <1>4, <3>1 DEF Recs
    <2> QED
      BY <2>1, <2>2
  <1> QED
    BY <1>5 DEF Recs, u

LEMMA ServerDropsGoes ==
    ASSUME AgreeInv, TicketInv, CauseInv, ServerDropsCCS
    PROVE  CauseInv'
  <1> DEFINE a == s.app.transcript
             tc == toClient'
             tv == toServer'
  <1>1. /\ ServerWaits /\ CCSNext(toServer) /\ tv = Tail(toServer)
        /\ tc = toClient /\ conf' = conf /\ c' = c /\ s' = s
        /\ toServer # <<>> /\ Head(toServer).typ = "ccs"
    BY DEF ServerDropsCCS, CCSNext
  <1>2. IsSeq(toServer)
    BY WiresNow
  <1>3. \A key, x : ~Comes(key, x, toServer)
    BY <1>1 DEF Comes, hsRec
  <1>4. CASE s.pc = "secondClientHello"
    <2>1. Regreeting(conf, c, s, toServer, toClient)
      BY <1>1, <1>4, ServerStageAt DEF Retried, Retrying
    <2>2. toServer # <<hsRec(None, c.hello)>>
      BY <1>3, ShortWire
    <2> HIDE DEF tv, tc
    <2>3. Stage(conf, c, s, tv, tc)
      BY <1>1, <2>1, <2>2 DEF Regreeting, Stage
    <2> QED
      BY <1>1, <2>3, WireMoves DEF tv, tc
  <1>5. CASE s.pc # "secondClientHello"
    <2>1. /\ s.pc \in {"readClientCertificate", "readClientCertificateVerify",
                       "readClientFinished"}
          /\ s.pc = "readClientCertificate" => Asks(conf, s)
      BY <1>1, <1>5 DEF ServerWaits, requestClientCert, Asks
    <2>2. s.pc \in After \ {"failed"}
      BY <2>1 DEF After
    <2> HIDE DEF tv, tc
    <2>3. ASSUME Completing(conf, c, s, toServer, toClient)
          PROVE  Stage(conf, c, s, tv, tc)
      <3>1. c.pc = "done" /\ s.pc \in After /\ SFeeds(conf, s, toServer)
        BY <2>3 DEF Completing
      <3>2. CASE s.pc = "readClientCertificate"
        <4> DEFINE asks == Asks(conf, s)
        <4>1. asks /\ Awaits(conf, s) /\ CAll(conf, asks, s.in, a, toServer)
          BY <2>1, <3>1, <3>2 DEF SFeeds
        <4> HIDE DEF asks, a
        <4>2. CAll(conf, asks, s.in, a, tv)
          BY <1>1, <1>3, <4>1 DEF CAll, CFlight
        <4>3. SFeeds(conf, s, tv)
          BY <3>2, <4>1, <4>2 DEF SFeeds, asks, a
        <4> QED
          BY <3>1, <4>3 DEF Completing, Stage
      <3>3. CASE s.pc = "readClientCertificateVerify"
        BY <1>3, <3>1, <3>3 DEF SFeeds, CVerify
      <3>4. CASE s.pc = "readClientFinished"
        <4>1. SFeeds(conf, s, tv)
          BY <1>1, <1>3, <3>1, <3>4 DEF SFeeds, CFin
        <4> QED
          BY <3>1, <4>1 DEF Completing, Stage
      <3> QED
        BY <2>1, <3>2, <3>3, <3>4
    <2>4. ASSUME Refusing(conf, c, s, toServer, toClient)
          PROVE  Stage(conf, c, s, tv, tc)
      <3>1. Recs(tv) \subseteq Recs(toServer)
        BY <1>1, <1>2, RecsTail
      <3>2. Alerted(toServer) => Alerted(tv)
        <4>1. \A r \in Recs(toServer) : r = Head(toServer) \/ r \in Recs(tv)
          BY <1>1, <1>2, RecsHead
        <4> QED
          BY <1>1, <4>1 DEF Alerted
      <3> QED
        BY <2>4, <3>1, <3>2 DEF Refusing, Stage
    <2>5. Stage(conf, c, s, tv, tc)
      BY <1>1, <2>2, <2>3, <2>4, WaitingReads
    <2> QED
      BY <1>1, <2>5, WireMoves DEF tv, tc
  <1> QED
    BY <1>4, <1>5

LEMMA ServerGoes ==
    ASSUME AgreeInv, TicketInv, CauseInv, ServerNext PROVE CauseInv'
  <1>1. ASSUME ReadClientHello \/ ReadSecondClientHello PROVE CauseInv'
    BY <1>1, ReadClientHelloGoes, ReadSecondClientHelloGoes
  <1>2. ASSUME \/ checkForResumption \/ pickCertificate
               \/ sendServerParameters \/ sendServerCertificate
               \/ sendServerFinished
        PROVE  CauseInv'
    BY <1>2, checkForResumptionGoes, pickCertificateGoes,
       sendServerParametersGoes, sendServerCertificateGoes,
       sendServerFinishedGoes
  <1>3. ASSUME \/ SkipClientCertificate \/ readClientCertificate
               \/ ReadClientCertificateVerify \/ readClientFinished
               \/ ServerDropsCCS
        PROVE  CauseInv'
    BY <1>3, SkipClientCertificateGoes, readClientCertificateGoes,
       ReadClientVerifyGoes, readClientFinishedGoes, ServerDropsGoes
  <1> QED
    BY <1>1, <1>2, <1>3 DEF ServerNext

LEMMA CauseInit == ASSUME Init PROVE CauseInv
  <1>1. /\ conf \in Configs /\ toServer = <<>> /\ toClient = <<>>
        /\ c = NewConn("clientHandshake", conf.session)
        /\ s = NewConn("clientHello", None)
    BY DEF Init
  <1>2. /\ c.err = None /\ s.err = None /\ c.session = None
        /\ c.pc = "clientHandshake" /\ s.pc = "clientHello"
    BY <1>1 DEF NewConn
  <1>3. Stage(conf, c, s, toServer, toClient)
    BY <1>1 DEF Stage, Starting
  <1>4. Blameless(conf, c, s)
    BY <1>1, <1>2 DEF Blameless
  <1>5. FailuresHaveACause
    BY <1>2 DEF FailuresHaveACause
  <1> QED
    BY <1>3, <1>4, <1>5 DEF CauseInv

LEMMA CauseSame ==
    ASSUME CauseInv, UNCHANGED vars PROVE CauseInv'
  BY DEF CauseInv, FailuresHaveACause, CommonGroup, CommonProtocol,
         Unacceptable, vars

\* What the theorems below lean on.
HandshakeInv == AgreeInv /\ AuthInv /\ TicketInv /\ CauseInv

LEMMA HandshakeInvariance == Spec => []HandshakeInv
  <1>1. Init => HandshakeInv
    BY AgreeInit, AuthInit, TicketInit, CauseInit DEF HandshakeInv
  <1>2. HandshakeInv /\ [Next]_vars => HandshakeInv'
    <2> SUFFICES ASSUME HandshakeInv, [Next]_vars PROVE HandshakeInv'
      OBVIOUS
    <2>1. AgreeInv'
      BY AgreeStep DEF HandshakeInv
    <2>2. AuthInv'
      BY AuthStep DEF HandshakeInv
    <2>3. TicketInv'
      BY ClientStepTickets, ServerStepTickets, TicketsSame DEF HandshakeInv, Next
    <2>4. CauseInv'
      BY ClientGoes, ServerGoes, CauseSame DEF HandshakeInv, Next
    <2> QED
      BY <2>1, <2>2, <2>3, <2>4 DEF HandshakeInv
  <1> QED
    BY <1>1, <1>2, PTL DEF Spec

\* Whatever the configurations and the interleaving, client and server of this
\* code never break the protocol for each other: each alert an end raises has
\* its cause in a configuration, or in the alert of the other end, and no
\* alert says that a record did not open, that a message was unexpected or
\* that a parameter was illegal.
THEOREM CauseSafety == Spec => []FailuresHaveACause
  <1>1. HandshakeInv => FailuresHaveACause
    BY DEF HandshakeInv, CauseInv
  <1> QED
    BY <1>1, HandshakeInvariance, PTL

-----------------------------------------------------------------------------
(* Compatible configurations.                                              *)

\* Neither end fails that has no cause in the configurations.
CompatibleNeverFail == Compatible => c.pc # "failed" /\ s.pc # "failed"

\* An end fails first for a reason of its own, which Compatible excludes.
LEMMA NoFaultOfClient ==
    ASSUME Compatible, s.pc # "failed", NEW e PROVE ~ClientFault(conf, e, s)
  BY DEF Compatible, ClientFault

LEMMA NoFaultOfServer ==
    ASSUME Compatible, c.pc # "failed", c.session \in {None, conf.session},
           conf \in Configs, NEW e
    PROVE  ~ServerFault(conf, e, c)
  <1>1. Groups(conf) /\ Protos(conf) /\ conf.hasCert /\ ~conf.serverVetoes
    BY DEF Compatible, CommonGroup, CommonProtocol, Groups, Protos
  <1>2. ~Refused(conf, conf.clientCert)
    <2>1. conf.auth \in 0..4
      BY ConfigAssumption
    <2>2. CASE conf.auth >= 1
      BY <2>2 DEF Compatible, Refused, Unacceptable
    <2>3. CASE conf.auth = 0
      BY <2>3 DEF Refused, requiresClientCert
    <2> QED
      BY <2>1, <2>2, <2>3
  <1>3. c.session # None =>
          /\ c.session.secret = c.session.ticket.secret
          /\ ~Refused(conf, c.session.ticket.certs)
    BY DEF Compatible, Refused, Unacceptable
  <1> QED
    BY <1>1, <1>2, <1>3 DEF ServerFault

LEMMA CompatibleStep ==
    ASSUME CauseInv, CauseInv', CompatibleNeverFail, [Next]_vars
    PROVE  CompatibleNeverFail'
  <1>1. CASE ClientNext
    <2>1. conf' = conf /\ s' = s
      BY <1>1, ClientLeavesServer
    <2> SUFFICES ASSUME Compatible' PROVE c'.pc # "failed" /\ s'.pc # "failed"
      BY DEF CompatibleNeverFail
    <2>2. Compatible
      BY <2>1 DEF Compatible, CommonGroup, CommonProtocol, Unacceptable
    <2>3. s.pc # "failed"
      BY <2>2 DEF CompatibleNeverFail
    <2>4. c'.pc = "failed" => ClientFault(conf, c'.err, s)
      BY <2>1 DEF CauseInv, Blameless
    <2> QED
      BY <2>1, <2>2, <2>3, <2>4, NoFaultOfClient
  <1>2. CASE ServerNext
    <2>1. conf' = conf /\ c' = c
      BY <1>2, ServerLeavesClient
    <2> SUFFICES ASSUME Compatible' PROVE c'.pc # "failed" /\ s'.pc # "failed"
      BY DEF CompatibleNeverFail
    <2>2. Compatible
      BY <2>1 DEF Compatible, CommonGroup, CommonProtocol, Unacceptable
    <2>3. c.pc # "failed"
      BY <2>2 DEF CompatibleNeverFail
    <2>4. s'.pc = "failed" => ServerFault(conf, s'.err, c)
      BY <2>1 DEF CauseInv, Blameless
    <2>5. conf \in Configs /\ c.session \in {None, conf.session}
      BY DEF CauseInv, Blameless
    <2> QED
      BY <2>1, <2>2, <2>3, <2>4, <2>5, NoFaultOfServer
  <1>3. CASE UNCHANGED vars
    BY <1>3 DEF CompatibleNeverFail, Compatible, CommonGroup, CommonProtocol,
                Unacceptable, vars
  <1> QED
    BY <1>1, <1>2, <1>3 DEF Next

\* Compatible configurations never lead to a failure at either end, whatever
\* the interleaving, with or without a retry, a resumption or a client
\* certificate: the half of CompatibleEndsComplete that is safety.
THEOREM CompatibleSafety == Spec => []CompatibleNeverFail
  <1>1. Init => CompatibleNeverFail
    BY DEF Init, NewConn, CompatibleNeverFail
  <1>2. HandshakeInv /\ HandshakeInv' /\ CompatibleNeverFail /\ [Next]_vars
          => CompatibleNeverFail'
    BY CompatibleStep DEF HandshakeInv
  <1> QED
    BY <1>1, <1>2, HandshakeInvariance, PTL DEF Spec

-----------------------------------------------------------------------------
(* The two ends never wait for each other.                                 *)

\* The end has something to do, or a record to read or to drop; while its
\* version is unknown it does not drop a ChangeCipherSpec.
ClientCanStep ==
    \/ c.pc \in {"clientHandshake", "helloRetryRequest", "processServerHello",
                 "establishHandshakeKeys", "clientCertificate", "clientFinished"}
    \/ c.pc = "serverCertificate" /\ c.usingPSK
    \/ c.pc = "serverHello" /\ toClient # <<>> /\ Head(toClient).typ # "ccs"
    \/ ClientWaits /\ toClient # <<>>

ServerCanStep ==
    \/ s.pc \in {"checkForResumption", "pickCertificate", "sendServerParameters",
                 "sendServerCertificate", "sendServerFinished"}
    \/ s.pc = "readClientCertificate" /\ ~requestClientCert(s)
    \/ s.pc = "clientHello" /\ toServer # <<>> /\ Head(toServer).typ # "ccs"
    \/ ServerWaits /\ toServer # <<>>

\* Both handshakes are over, as far as HandshakesEnd asks.
BothEnded ==
    /\ c.pc \in {"done", "failed"}
    /\ s.pc \in {"done", "failed"} \/ c.err = "getClientCertificate"

\* Until then one of the two goes on.
NoDeadlock == BothEnded \/ ClientCanStep \/ ServerCanStep

\* Where a stage expects the client to read, the wire has a record.
LEMMA FedSomething ==
    ASSUME NEW k, NEW d, NEW psk, NEW key, NEW t, NEW ts
    PROVE  /\ FedServer(k, psk, key, t, ts) => ts # <<>>
           /\ FedKeyed(k, d, psk, key, t, ts) => ts # <<>>
  <1>1. FedServer(k, psk, key, t, ts) => ts # <<>>
    BY DEF FedServer, FedFin, FedRequest, FedCert, Comes
  <1>2. FedKeyed(k, d, psk, key, t, ts) => ts # <<>>
    BY DEF FedKeyed, FedParams, CCSNext, AlertNext, Extensions, Comes
  <1> QED
    BY <1>1, <1>2

LEMMA HelloSomething ==
    ASSUME NEW k, NEW d, NEW p, NEW in, NEW ts
    PROVE  /\ FedHello(k, d, p, in, ts) => ts # <<>> /\ Head(ts).typ # "ccs"
           /\ FedAgain(k, d, p, in, ts) => ts # <<>>
  <1>1. FedHello(k, d, p, in, ts) => ts # <<>> /\ Head(ts).typ # "ccs"
    BY DEF FedHello, AlertNext, Answer, Comes, hsRec
  <1> QED
    BY <1>1 DEF FedAgain, CCSNext

LEMMA FedMoves ==
    ASSUME NEW d, c.pc \in ReadsFlight, Feeds(conf, d, c, s.in, toClient)
    PROVE  ClientCanStep
  <1>1. CASE c.pc \in {"serverHello", "secondServerHello"}
    BY <1>1, HelloSomething DEF Feeds, ClientCanStep, ClientWaits
  <1>2. CASE c.pc \in {"serverParameters", "certificateVerify", "serverFinished"}
    BY <1>2, FedSomething
       DEF Feeds, FedVerify, FedFin, Comes, ClientCanStep, ClientWaits
  <1>3. CASE c.pc = "serverCertificate"
    BY <1>3, FedSomething
       DEF Feeds, FedCert, Comes, ClientCanStep, ClientWaits
  <1>4. CASE c.pc \in {"processServerHello", "establishHandshakeKeys",
                       "clientCertificate", "clientFinished"}
    BY <1>4 DEF ClientCanStep
  <1> QED
    BY <1>1, <1>2, <1>3, <1>4 DEF ReadsFlight, KeysSet

LEMMA AwaitedMoves ==
    ASSUME Awaits(conf, s), toServer # <<>> PROVE ServerCanStep
  BY DEF Awaits, ServerCanStep, ServerWaits

LEMMA CompletingMoves ==
    ASSUME Completing(conf, c, s, toServer, toClient)
    PROVE  BothEnded \/ ServerCanStep
  <1> DEFINE a == s.app.transcript
  <1>1. c.pc = "done" /\ s.pc \in After /\ SFeeds(conf, s, toServer)
    BY DEF Completing
  <1>2. CASE s.pc = "readClientCertificate" /\ requestClientCert(s)
    <2> DEFINE asks == Asks(conf, s)
    <2>1. asks = TRUE
      BY <1>2 DEF requestClientCert, Asks
    <2>2. CAll(conf, asks, s.in, a, toServer)
      BY <1>1, <1>2 DEF SFeeds
    <2> HIDE DEF asks, a
    <2>3. toServer # <<>>
      BY <2>1, <2>2 DEF CAll, CFlight, CCSNext, Comes
    <2> QED
      BY <1>2, <2>3 DEF ServerCanStep, ServerWaits
  <1>3. CASE s.pc = "readClientCertificate" /\ ~requestClientCert(s)
    BY <1>3 DEF ServerCanStep
  <1>4. CASE s.pc = "readClientCertificateVerify"
    BY <1>1, <1>4 DEF SFeeds, CVerify, Comes, ServerCanStep, ServerWaits
  <1>5. CASE s.pc = "readClientFinished"
    BY <1>1, <1>5 DEF SFeeds, CFin, CCSNext, Comes, ServerCanStep, ServerWaits
  <1>6. CASE s.pc \in {"done", "failed"}
    BY <1>1, <1>6 DEF BothEnded
  <1> QED
    BY <1>1, <1>2, <1>3, <1>4, <1>5, <1>6 DEF After

LEMMA StageMoves ==
    ASSUME Stage(conf, c, s, toServer, toClient) PROVE NoDeadlock
  <1>1. CASE Starting(conf, c, s, toServer, toClient)
    BY <1>1 DEF Starting, NewConn, NoDeadlock, ClientCanStep
  <1>2. CASE Greeting(conf, c, s, toServer, toClient)
    <2>1. s.pc = "clientHello" /\ toServer = <<hsRec(None, c.hello)>>
      BY <1>2 DEF Greeting, NewConn
    <2>2. toServer # <<>> /\ Head(toServer).typ = "handshake"
      BY <2>1, ShortWire DEF Comes, hsRec
    <2> QED
      BY <2>1, <2>2 DEF NoDeadlock, ServerCanStep
  <1>3. CASE Retried(conf, c, s, toServer, toClient)
    BY <1>3 DEF Retried, Greets, Comes, hsRec, NoDeadlock, ClientCanStep
  <1>4. CASE Retrying(conf, c, s, toServer, toClient)
    BY <1>4 DEF Retrying, NoDeadlock, ClientCanStep
  <1>5. CASE Regreeting(conf, c, s, toServer, toClient)
    <2>1. s.pc = "secondClientHello"
      BY <1>5 DEF Regreeting, Retries
    <2>2. toServer # <<>>
      BY <1>5, ShortWire DEF Regreeting, CCSNext, Comes
    <2> QED
      BY <2>1, <2>2 DEF NoDeadlock, ServerCanStep, ServerWaits
  <1>6. CASE Answering(conf, c, s, toServer, toClient)
    BY <1>6 DEF Answering, NoDeadlock, ServerCanStep
  <1>7. CASE Delivered(conf, c, s, toServer, toClient)
    <2> DEFINE d == s.pc = "failed"
    <2>1. c.pc \in ReadsFlight /\ Feeds(conf, d, c, s.in, toClient)
      BY <1>7 DEF Delivered
    <2> HIDE DEF d
    <2> QED
      BY <2>1, FedMoves DEF NoDeadlock
  <1>8. CASE Completing(conf, c, s, toServer, toClient)
    BY <1>8, CompletingMoves DEF NoDeadlock
  <1>9. CASE Refusing(conf, c, s, toServer, toClient)
    <2>1. c.pc = "failed"
      BY <1>9 DEF Refusing
    <2>2. CASE s.pc = "failed" \/ c.err = "getClientCertificate"
      BY <2>1, <2>2 DEF NoDeadlock, BothEnded
    <2>3. CASE s.pc # "failed" /\ c.err # "getClientCertificate"
      <3>1. Awaits(conf, s) /\ Alerted(toServer)
        BY <1>9, <2>3 DEF Refusing
      <3>2. toServer # <<>>
        BY <3>1, RecsShort DEF Alerted
      <3> QED
        BY <3>1, <3>2, AwaitedMoves DEF NoDeadlock
    <2> QED
      BY <2>2, <2>3
  <1> QED
    BY <1>1, <1>2, <1>3, <1>4, <1>5, <1>6, <1>7, <1>8, <1>9 DEF Stage

\* Whatever the configurations and the interleaving, client and server never
\* both wait: until both handshakes have ended, one end has a step of its own
\* or a record to read.  The exception is the one of HandshakesEnd, the error
\* of GetClientCertificate, which the client returns without an alert.
THEOREM NeverStuck == Spec => []NoDeadlock
  <1>1. HandshakeInv => NoDeadlock
    BY StageMoves DEF HandshakeInv, CauseInv
  <1> QED
    BY <1>1, HandshakeInvariance, PTL

=============================================================================
