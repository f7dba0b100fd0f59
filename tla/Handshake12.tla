----------------------------- MODULE Handshake12 -----------------------------
(***************************************************************************)
(* The handshakes of TLS 1.0 to 1.2, full and abbreviated, over a sequence *)
(* of connections between a client with a session cache and servers that   *)
(* share ticket keys.  Between two of them time passes, keys are rotated   *)
(* and either configuration may change: what a session was made under is   *)
(* not what it is resumed under.                                           *)
(*                                                                         *)
(* As in Handshake13 cryptography is symbolic: a transcript is the         *)
(* sequence of messages hashed, verify data and signatures are records of  *)
(* what they cover, keys and secrets of what they are derived from, and a  *)
(* record opens only under the key it was sealed with.  The randoms of a   *)
(* connection, and the session id of its hello, are its number.            *)
(***************************************************************************)
EXTENDS Negotiation

CONSTANTS
    Configs,   \* Configs[i]: those the i-th connection may have
    Names,     \* the servers: the keys of the session cache
    Capacity,  \* of the session cache
    Lifetime,  \* maxSessionTicketLifetime
    MaxConns,  \* bound: connections
    MaxTime,   \* bound: the clock
    Rivals     \* bound: failures of other connections that share the cache

Cache == INSTANCE SessionCache WITH NoSession <- None

\* Certificates the client can present: none, one the server's ClientCAs
\* verify, one they do not.
Certs == {"none", "good", "bad"}

\* Master secrets, and the keys derived from them.
Secrets == [vers : Nat, suite : Suites, curve : STRING \cup {None}, n : Nat]
ConnKeys == [writer : {"client", "server"}, secret : Secrets, vers : Nat,
             suite : Suites, n : Nat]

\* None is none of the values it may stand in for.
ASSUME NoneAssumption ==
    /\ None \notin Nat /\ None \notin STRING /\ None \notin ConnKeys
    /\ None \notin Suites \cup {"tls11", "tls12"}

\* The fields of the two tls.Configs and of the machines that matter here.
ASSUME ConfigAssumption ==
    /\ Capacity \in Nat \ {0} /\ Lifetime \in Nat
    /\ MaxConns \in Nat \ {0} /\ MaxTime \in Nat /\ Rivals \in Nat
    /\ DOMAIN Configs = 1 .. MaxConns
    /\ \A k \in UNION Range(Configs) :
        /\ k.name \in Names                  \* ServerName
        /\ k.clientMin \in {0, 10, 11, 12} /\ k.clientMax \in {0, 10, 11, 12}
        /\ k.serverMin \in {0, 10, 11, 12} /\ k.serverMax \in {0, 10, 11, 12}
        /\ k.clientMax # 0 \/ k.serverMax # 0  \* TLS 1.3 is Handshake13's
        /\ supportedVersions(k.clientMin, k.clientMax, TRUE) # <<>>
        /\ k.clientSuites \subseteq Suites /\ k.serverSuites \subseteq Suites
        /\ k.clientAES \in BOOLEAN /\ k.serverAES \in BOOLEAN
        /\ k.clientCurves \in Seq(STRING) /\ k.serverCurves \in Seq(STRING)
        /\ k.clientProtos \in Seq(STRING) /\ k.serverProtos \in Seq(STRING)
        /\ k.caching \in BOOLEAN             \* client: tickets and a cache
        /\ k.insecure \in BOOLEAN            \* client: InsecureSkipVerify
        /\ k.trusts \in BOOLEAN              \* client: the chain verifies
        /\ k.certExpired \in BOOLEAN         \* the cached one has run out
        /\ k.clientVetoes \in BOOLEAN        \* VerifyConnection: an error
        /\ k.clientCert \in Certs
        /\ k.getCertFails \in BOOLEAN        \* GetClientCertificate: an error
        /\ k.key \in {"rsa", "ecdsa", "none"}  \* the server's certificate
        /\ k.staple \in BOOLEAN              \* ... comes with an OCSP response
        /\ k.tickets \in BOOLEAN             \* server: tickets not disabled
        /\ k.auth \in 0 .. 4                 \* ClientAuth
        /\ k.serverVetoes \in BOOLEAN        \* VerifyConnection: an error

VARIABLES
    conf,      \* the configuration of this connection
    n,         \* its number
    clock,     \* time() of both ends
    keys,      \* the servers' ticket keys, the current one first
    cache,     \* the client's session cache
    rivals,    \* failures of other connections so far
    c,         \* the client: Conn and clientHandshakeState
    s,         \* the server: Conn and serverHandshakeState
    toServer,  \* records the client wrote and the server has not read
    toClient,  \* records the server wrote and the client has not read
    made       \* history: what each master secret was agreed on for

world == <<conf, n, clock, keys, rivals>>
vars == <<world, cache, c, s, toServer, toClient, made>>

clientVersions == supportedVersions(conf.clientMin, conf.clientMax, TRUE)
serverVersions == supportedVersions(conf.serverMin, conf.serverMax, FALSE)

-----------------------------------------------------------------------------
(* One end of the connection: p is c or s.                                 *)

\* writeRecord: the record joins sendBuf; the step that wrote it passes
\* sendBuf on unless p is buffering.
Send(p, typ, msg) ==
    [p EXCEPT !.sendBuf = Append(@, [typ |-> typ, key |-> p.out, msg |-> msg])]

\* finishedHash.Write; verify data and signatures are functions of what was
\* hashed before them, and are checked against it.
Digest(msg) ==
    IF msg.type \in {"finished", "certificateVerify"} THEN [type |-> msg.type]
    ELSE msg

Hashed(p, msg) == [p EXCEPT !.transcript = Append(@, Digest(msg))]

Say(p, msg) == Send(Hashed(p, msg), "handshake", msg)

SayIf(due, p, msg) == IF due THEN Say(p, msg) ELSE p

\* The handshake function returns an error; handshakeContext flushes sendBuf.
Return(p, err) ==
    [p EXCEPT !.pc = "failed", !.err = err,
              !.buffering = @ /\ p.sendBuf = <<>>]

Alert(p, alert) == Return(Send(p, "alert", [type |-> alert]), alert)

\* "if err := f(); err != nil { return err }"
Then(p, F(_)) == IF p.pc = "failed" THEN p ELSE F(p)

\* masterFromPreMasterSecret; curve is None where the client encrypted the
\* pre-master secret.
masterSecret(p, curve) ==
    [vers |-> p.vers, suite |-> p.suite, curve |-> curve, n |-> n]

\* keysFromMasterSecret.
ConnKey(p, writer) ==
    [writer |-> writer, secret |-> p.secret, vers |-> p.vers, suite |-> p.suite,
     n |-> n]

\* establishKeys: prepareCipherSpec in both directions.
establishKeys(p, me, peer) ==
    [p EXCEPT !.nextOut = ConnKey(p, me), !.nextIn = ConnKey(p, peer)]

\* clientSum and serverSum.
Sum(p, label) ==
    [label |-> label, secret |-> p.secret, transcript |-> p.transcript]

\* Mutant of WriteChangeCipherSpec: the new keys are used one record late.
WriteChangeCipherSpecLate(p) ==
    IF p.nextOut = None THEN Alert(p, "internal_error")
    ELSE Send(p, "ccs", None)

\* writeRecord of a ChangeCipherSpec, which changes c.out.
WriteChangeCipherSpec(p) ==
    LET q == Send(p, "ccs", None)
    IN IF q.nextOut = None THEN Alert(q, "internal_error")
       ELSE [q EXCEPT !.out = q.nextOut, !.nextOut = None]

sendFinished(p, label) ==
    Then(WriteChangeCipherSpec(p),
         LAMBDA q : Say(q, [type |-> "finished", verifyData |-> Sum(q, label)]))

\* The handshake buffer a client's signature covers was discarded, over which
\* hashForClientCertificate panics.
BufferGone(p) == p.vers >= 12 /\ ~p.buffer

\* readRecordOrCCS: the record opens, is no alert, and is a ChangeCipherSpec
\* where one is expected and only there.
Opened(p, record, expectCCS) ==
    IF record.key # p.in
    THEN Alert(p, IF p.in = None THEN "unexpected_message"
                                 ELSE "bad_record_mac")
    ELSE IF record.typ = "alert" THEN Return(p, "remote")
    ELSE IF (record.typ = "ccs") # expectCCS
    THEN Alert(p, "unexpected_message") ELSE p

\* readHandshake and the type assertion that follows it.
Receive(p, record, types) ==
    Then(Opened(p, record, FALSE),
         LAMBDA q : IF record.msg.type \in types THEN q
                    ELSE Alert(q, "unexpected_message"))

\* readChangeCipherSpec.
ReceiveCCS(p, record) ==
    Then(Opened(p, record, TRUE),
         LAMBDA q : IF q.nextIn = None THEN Alert(q, "internal_error")
                    ELSE [q EXCEPT !.in = q.nextIn, !.nextIn = None,
                                   !.pc = "finished"])

\* What a step leaves in sendBuf, and what it puts on the wire.
Kept(p) == IF p.buffering THEN p.sendBuf ELSE <<>>
Passed(p) == IF p.buffering THEN <<>> ELSE p.sendBuf

\* How clientHandshake leaves the session cache: a session that was offered
\* goes if the handshake fails; a new one comes if it succeeds.
CacheAfter(p) ==
    CASE p.pc = "failed" /\ p.offered # None ->
            Cache!Put(cache, conf.name, None)
      [] p.pc = "done" /\ conf.caching /\ p.session \notin {None, p.offered} ->
            Cache!Put(cache, conf.name, p.session)
      [] OTHER -> cache

ClientBecomes(p) ==
    /\ c' = [p EXCEPT !.sendBuf = Kept(p)]
    /\ toServer' = toServer \o Passed(p)
    /\ UNCHANGED <<world, s, made>>

\* The client, blocked at pc, reads the next record.  (\E p \in {...} names
\* the end's next state and lets TLC evaluate it once.)
ClientReads(pc, F(_, _)) ==
    /\ c.pc = pc /\ toClient # <<>>
    /\ \E p \in {F(c, Head(toClient))} :
          ClientBecomes(p) /\ cache' = CacheAfter(p)
    /\ toClient' = Tail(toClient)

ServerBecomes(p) ==
    /\ s' = [p EXCEPT !.sendBuf = Kept(p)]
    /\ toClient' = toClient \o Passed(p)
    /\ UNCHANGED <<world, cache, c>>

ServerReads(pc, F(_, _)) ==
    /\ s.pc = pc /\ toServer # <<>>
    /\ \E p \in {F(s, Head(toServer))} : ServerBecomes(p)
    /\ toServer' = Tail(toServer)

-----------------------------------------------------------------------------
(* The client.                                                             *)

\* Mutant of loadSession: a session whose server nobody verified will do.
loadSessionUnverified(session, suites) ==
    IF /\ session # None
       /\ session.vers \in Range(clientVersions)
       /\ conf.insecure \/ ~conf.certExpired
       /\ session.suite \in Range(suites)
    THEN session ELSE None

\* The session loadSession offers, of the one it finds in the cache.
loadSession(session, suites) ==
    IF /\ session # None
       /\ session.vers \in Range(clientVersions)
       /\ conf.insecure \/ (session.verified /\ ~conf.certExpired)
       /\ session.suite \in Range(suites)
    THEN session ELSE None

\* How loadSession leaves the cache: Get, and a Put where the certificate of
\* the session has expired.
CacheAfterLoad(session) ==
    IF ~conf.caching THEN cache
    ELSE IF /\ session # None /\ session.vers \in Range(clientVersions)
            /\ ~conf.insecure /\ session.verified /\ conf.certExpired
    THEN Cache!Put(Cache!Get(cache, conf.name), conf.name, None)
    ELSE Cache!Get(cache, conf.name)

makeClientHello(session, suites) ==
    [type |-> "clientHello", versions |-> clientVersions, suites |-> suites,
     curves |-> conf.clientCurves, protos |-> conf.clientProtos,
     ticketSupported |-> conf.caching, sessionId |-> n,
     ticket |-> IF session = None THEN None ELSE session.ticket]

\* clientHandshake to its first read.
ClientHello ==
    /\ c.pc = "start"
    /\ LET found == IF conf.caching THEN Cache!State(cache, conf.name) ELSE None
           suites == OfferedSuites(conf.clientSuites, conf.clientAES,
                                   Head(clientVersions))
           session == loadSession(found, suites)
           hello == makeClientHello(session, suites)
       IN /\ ClientBecomes(
                Send([c EXCEPT !.hello = hello, !.offered = session,
                               !.session = session, !.pc = "serverHello"],
                     "handshake", hello))
          /\ cache' = CacheAfterLoad(found)
    /\ UNCHANGED toClient

serverResumedSession(p, m) == p.offered # None /\ m.sessionId = p.hello.sessionId

\* Mutant of processServerHello: a resumption keeps no protocol.
processServerHelloNoProto(p, m) ==
    LET q == [p EXCEPT !.vers = m.vers, !.suite = m.suite, !.serverHello = m]
    IN CASE m.suite \notin Range(p.hello.suites) ->
              Alert(q, "handshake_failure")
         [] m.suite \in Range(p.hello.suites)
              /\ ~checkALPN(p.hello.protos, m.proto) ->
              Alert(q, "unsupported_extension")
         [] OTHER ->
              IF ~serverResumedSession(p, m) THEN [q EXCEPT !.proto = m.proto]
              ELSE IF p.offered.vers # m.vers \/ p.offered.suite # m.suite
              THEN Alert(q, "handshake_failure")
              ELSE [q EXCEPT !.resumed = TRUE, !.secret = p.offered.secret,
                             !.verified = p.offered.verified]

\* pickCipherSuite, checkALPN, and the state a resumed session restores.
processServerHello(p, m) ==
    LET q == [p EXCEPT !.vers = m.vers, !.suite = m.suite, !.serverHello = m]
        r == [q EXCEPT !.proto = m.proto]
    IN CASE m.suite \notin Range(p.hello.suites) ->
              Alert(q, "handshake_failure")
         [] m.suite \in Range(p.hello.suites)
              /\ ~checkALPN(p.hello.protos, m.proto) ->
              Alert(q, "unsupported_extension")
         [] OTHER ->
              IF ~serverResumedSession(p, m) THEN r
              ELSE IF p.offered.vers # m.vers \/ p.offered.suite # m.suite
              THEN Alert(r, "handshake_failure")
              ELSE [r EXCEPT !.resumed = TRUE, !.secret = p.offered.secret,
                             !.verified = p.offered.verified]

\* readSessionTicket reads only if the server announced a ticket.
AwaitTicket(p) ==
    [p EXCEPT !.pc = IF p.serverHello.ticketSupported THEN "ticket" ELSE "ccs"]

\* clientHandshakeState's handshake to its next read.
handshake(p) ==
    LET q == [p EXCEPT !.transcript = <<p.hello, p.serverHello>>,
                       !.buffer = /\ ~p.resumed
                                  /\ \/ conf.clientCert # "none"
                                     \/ conf.getCertFails,
                       !.buffering = TRUE]
    IN IF p.resumed THEN AwaitTicket(establishKeys(q, "client", "server"))
       ELSE [q EXCEPT !.pc = "certificate"]

\* clientHandshake from the ServerHello on.
OnServerHello(p, m) ==
    LET vers == mutualVersion(clientVersions, <<m.vers>>)
    IN CASE vers = None -> Alert(p, "protocol_version")
         [] vers # None /\ DowngradeDetected(vers, Head(clientVersions),
                                             m.canary) ->
              Alert(p, "illegal_parameter")
         [] OTHER -> Then(processServerHello(p, m), handshake)

ReadServerHello ==
    ClientReads("serverHello", LAMBDA p, record :
        Then(Receive(p, record, {"serverHello"}),
             LAMBDA q : OnServerHello(q, record.msg)))

ReadCertificate ==
    ClientReads("certificate", LAMBDA p, record :
        Then(Receive(p, record, {"certificate"}), LAMBDA q :
            [Hashed(q, record.msg) EXCEPT
                !.serverKey = record.msg.cert, !.pc = "certificateStatus"]))

verifyServerCertificate(p) ==
    LET q == [p EXCEPT !.verified = ~conf.insecure /\ conf.trusts]
    IN IF (~conf.insecure /\ ~conf.trusts) \/ conf.clientVetoes
       THEN Alert(q, "bad_certificate") ELSE q

\* The CertificateVerify of a client that has sent a certificate.
ClientSigns(p, chain) ==
    IF chain = "none" THEN p
    ELSE IF BufferGone(p) THEN [p EXCEPT !.pc = "failed", !.err = "panic"]
    ELSE Say(p, [type |-> "certificateVerify", cert |-> chain,
                 signed |-> p.transcript])

\* The new keys, and Finished.
ClientKeys(p) ==
    LET q == [p EXCEPT !.secret = masterSecret(p, p.curve), !.buffer = FALSE]
    IN Then(sendFinished(establishKeys(q, "client", "server"), "client finished"),
            LAMBDA f : AwaitTicket([f EXCEPT !.buffering = FALSE]))

\* Certificate, ClientKeyExchange and CertificateVerify, as far as they are
\* due, and what follows them.
ClientFlight(p) ==
    LET chain == IF p.certReq THEN conf.clientCert ELSE "none"
        withCert == SayIf(p.certReq, p, [type |-> "certificate", cert |-> chain])
        withKey == IF IF ECDHE(p.suite) THEN p.curve = None
                                        ELSE p.serverKey # "rsa"
                   THEN Alert(withCert, "internal_error")
                   ELSE Say(withCert, [type |-> "clientKeyExchange",
                                       curve |-> p.curve])
    IN Then(Then(withKey, LAMBDA q : ClientSigns(q, chain)), ClientKeys)

OnServerHelloDone(p, m) ==
    IF m.type # "serverHelloDone" THEN Alert(p, "unexpected_message")
    ELSE ClientFlight(Hashed(p, m))

OnCertificateRequest(p, m) ==
    IF m.type # "certificateRequest" THEN OnServerHelloDone(p, m)
    ELSE LET q == [Hashed(p, m) EXCEPT !.certReq = TRUE]
         IN IF conf.getCertFails THEN Alert(q, "internal_error")
            ELSE [q EXCEPT !.pc = "serverHelloDone"]

\* processServerKeyExchange: an RSA suite has none, and the signature covers
\* both randoms and the curve.
OnServerKeyExchange(p, m) ==
    IF m.type # "serverKeyExchange" THEN OnCertificateRequest(p, m)
    ELSE LET q == Hashed(p, m)
         IN IF ECDHE(p.suite)
               /\ m.signed = [key |-> p.serverKey, n |-> n, curve |-> m.curve]
            THEN [q EXCEPT !.curve = m.curve, !.pc = "certificateRequest"]
            ELSE Alert(q, "unexpected_message")

\* Each message of the flight but the last may be missing; a CertificateStatus
\* has to be announced.
ReadCertificateStatus ==
    ClientReads("certificateStatus", LAMBDA p, record :
        Then(Opened(p, record, FALSE), LAMBDA q :
            IF record.msg.type # "certificateStatus"
            THEN Then(verifyServerCertificate(q),
                      LAMBDA r : OnServerKeyExchange(r, record.msg))
            ELSE IF q.serverHello.ocspStapling
            THEN [Hashed(q, record.msg) EXCEPT !.pc = "serverKeyExchange"]
            ELSE Alert(q, "unexpected_message")))

ReadServerKeyExchange ==
    ClientReads("serverKeyExchange", LAMBDA p, record :
        Then(Opened(p, record, FALSE), LAMBDA q :
            Then(verifyServerCertificate(q),
                 LAMBDA r : OnServerKeyExchange(r, record.msg))))

ReadCertificateRequest ==
    ClientReads("certificateRequest", LAMBDA p, record :
        Then(Opened(p, record, FALSE),
             LAMBDA q : OnCertificateRequest(q, record.msg)))

ReadServerHelloDone ==
    ClientReads("serverHelloDone", LAMBDA p, record :
        Then(Opened(p, record, FALSE),
             LAMBDA q : OnServerHelloDone(q, record.msg)))

readSessionTicket ==
    ClientReads("ticket", LAMBDA p, record :
        Then(Receive(p, record, {"newSessionTicket"}), LAMBDA q :
            [Hashed(q, record.msg) EXCEPT
                !.session = [ticket |-> record.msg.ticket, vers |-> q.vers,
                             suite |-> q.suite, secret |-> q.secret,
                             verified |-> q.verified],
                !.pc = "ccs"]))

ClientReadsCCS == ClientReads("ccs", ReceiveCCS)

\* readFinished; in a resumption VerifyConnection and the client's own
\* Finished follow.
ReadServerFinished ==
    ClientReads("finished", LAMBDA p, record :
        Then(Receive(p, record, {"finished"}), LAMBDA q :
            IF record.msg.verifyData # Sum(q, "server finished")
            THEN Alert(q, "handshake_failure")
            ELSE LET r == Hashed(q, record.msg)
                 IN IF ~r.resumed THEN [r EXCEPT !.pc = "done"]
                    ELSE IF conf.clientVetoes THEN Alert(r, "bad_certificate")
                    ELSE Then(sendFinished(r, "client finished"), LAMBDA f :
                             [f EXCEPT !.buffering = FALSE, !.pc = "done"])))

-----------------------------------------------------------------------------
(* The server.                                                             *)

SuiteOk(p, suite) ==
    cipherSuiteOk(suite, conf.key,
                  supportsECDHE(p.hello.curves, conf.serverCurves), p.vers)

\* What decryptTicket and unmarshal make of the ticket offered: a
\* sessionState, or None.  checkForResumption leaves it in place whatever it
\* decides then.
SessionStateOf(hello) ==
    IF /\ conf.tickets /\ hello.ticket # None
       /\ hello.ticket.key \in Range(keys)
    THEN hello.ticket ELSE None

\* Mutant of checkForResumption: a client certificate nobody asks for any
\* more is no obstacle.
checkForResumptionAnyCerts(p) ==
    LET st == p.sessionState IN
    /\ st # None
    /\ clock - st.createdAt <= Lifetime
    /\ p.vers = st.vers
    /\ st.suite \in Range(p.hello.suites)
    /\ st.suite \in conf.serverSuites /\ SuiteOk(p, st.suite)
    /\ requiresClientCert(conf.auth) => st.certs # "none"

checkForResumption(p) ==
    LET st == p.sessionState IN
    /\ st # None
    /\ clock - st.createdAt <= Lifetime
    /\ p.vers = st.vers
    /\ st.suite \in Range(p.hello.suites)
    /\ st.suite \in conf.serverSuites /\ SuiteOk(p, st.suite)
    /\ requiresClientCert(conf.auth) => st.certs # "none"
    /\ st.certs # "none" => conf.auth # 0

processCertsFromClient(p, cert) ==
    IF \/ cert = "none" /\ requiresClientCert(conf.auth)
       \/ cert = "bad" /\ conf.auth >= 3
    THEN Alert(p, "bad_certificate")
    ELSE [p EXCEPT !.peerCerts = cert]

\* Mutant of TicketFor: a ticket sealed anew starts a new life.
TicketForNow(p) ==
    [key |-> Head(keys), vers |-> p.vers, suite |-> p.suite,
     createdAt |-> clock, secret |-> p.secret, certs |-> p.peerCerts]

\* The state sendSessionTicket seals under the first key.
TicketFor(p) ==
    [key |-> Head(keys), vers |-> p.vers, suite |-> p.suite,
     createdAt |-> IF p.sessionState = None THEN clock
                   ELSE p.sessionState.createdAt,
     secret |-> p.secret, certs |-> p.peerCerts]

sendSessionTicket(p) ==
    IF ~p.serverHello.ticketSupported THEN p
    ELSE Say(p, [type |-> "newSessionTicket", ticket |-> TicketFor(p)])

\* serverHelloMsg and the two writes to a new finishedHash.
SayHello(p, sessionId, suite, ticketSupported, ocsp) ==
    LET m == [type |-> "serverHello", vers |-> p.vers, suite |-> suite,
              proto |-> p.proto, sessionId |-> sessionId,
              canary |-> Canary(p.vers, Head(serverVersions)),
              ticketSupported |-> ticketSupported, ocspStapling |-> ocsp]
    IN Say([p EXCEPT !.suite = suite, !.serverHello = m,
                     !.transcript = <<p.hello>>], m)

\* doResumeHandshake once the certificates of the session have passed.
ResumeFlight(p) ==
    LET r == establishKeys([p EXCEPT !.secret = p.sessionState.secret],
                           "server", "client")
    IN IF conf.serverVetoes THEN Alert(p, "bad_certificate")
       ELSE Then(sendFinished(sendSessionTicket(r), "server finished"),
                 LAMBDA f : [f EXCEPT !.buffering = FALSE, !.pc = "ccs"])

\* The abbreviated handshake up to the client's ChangeCipherSpec.
doResumeHandshake(p) ==
    LET st == p.sessionState
        h == SayHello([p EXCEPT !.resumed = TRUE, !.buffer = FALSE],
                      p.hello.sessionId, st.suite,
                      st.key # Head(keys), FALSE)
    IN Then(processCertsFromClient(h, st.certs), ResumeFlight)

\* Mutant of KeepsBuffer: the buffer is kept only where a certificate is
\* insisted on.
KeepsBufferLess(auth) == requiresClientCert(auth)

\* doFullHandshake keeps the handshake buffer for a client's signature.
KeepsBuffer(auth) == auth # 0

\* Mutant of Flushed: the flight stays in sendBuf.
FlushedNot(p) == p

\* flush.
Flushed(p) == [p EXCEPT !.buffering = FALSE]

\* pickCipherSuite and doFullHandshake up to its first read.
doFullHandshake(p) ==
    LET suite == selectCipherSuite(
            conf.serverSuites, conf.serverAES, p.hello.suites, conf.key,
            supportsECDHE(p.hello.curves, conf.serverCurves), p.vers)
        curve == IF ECDHE(suite)
                 THEN MutualCurve(p.hello.curves, conf.serverCurves) ELSE None
        h == SayHello([p EXCEPT !.buffer = KeepsBuffer(conf.auth),
                                !.curve = curve],
                      None, suite, p.hello.ticketSupported /\ conf.tickets,
                      conf.staple)
        withCert == Say(h, [type |-> "certificate", cert |-> conf.key])
        withStatus == SayIf(conf.staple, withCert, [type |-> "certificateStatus"])
        withKey == SayIf(ECDHE(suite), withStatus,
                         [type |-> "serverKeyExchange", curve |-> curve,
                          signed |-> [key |-> conf.key, n |-> n,
                                      curve |-> curve]])
        withRequest == SayIf(conf.auth # 0, withKey,
                             [type |-> "certificateRequest"])
        flight == Say(withRequest, [type |-> "serverHelloDone"])
    IN IF suite = None THEN Alert(p, "handshake_failure")
       ELSE [Flushed(flight) EXCEPT
               !.pc = IF conf.auth # 0 THEN "certificate" ELSE "keyExchange"]

\* readClientHello, processClientHello, and handshake to its next read.
OnClientHello(p, hello) ==
    LET vers == mutualVersion(serverVersions, hello.versions)
        noALPN == refusesALPN(conf.serverProtos, hello.protos)
        r == [p EXCEPT !.hello = hello, !.vers = vers,
                       !.proto = negotiateALPN(conf.serverProtos, hello.protos),
                       !.buffering = TRUE,
                       !.sessionState = SessionStateOf(hello)]
    IN CASE vers = None -> Alert(p, "protocol_version")
         [] vers # None /\ noALPN -> Alert(p, "no_application_protocol")
         [] vers # None /\ ~noALPN /\ conf.key = "none" ->
              Alert(p, "unrecognized_name")
         [] OTHER -> IF checkForResumption(r) THEN doResumeHandshake(r)
                     ELSE doFullHandshake(r)

ReadClientHello ==
    /\ ServerReads("clientHello", LAMBDA p, record :
        Then(Receive(p, record, {"clientHello"}),
             LAMBDA q : OnClientHello(q, record.msg)))
    /\ UNCHANGED made

ReadClientCertificate ==
    /\ ServerReads("certificate", LAMBDA p, record :
        Then(Receive(p, record, {"certificate"}), LAMBDA q :
            Then(processCertsFromClient(Hashed(q, record.msg), record.msg.cert),
                 LAMBDA r : [r EXCEPT !.pc = "keyExchange"])))
    /\ UNCHANGED made

\* What follows the last message the client signs or the server waits for.
ServerKeys(p) ==
    [establishKeys([p EXCEPT !.buffer = FALSE], "server", "client") EXCEPT
        !.pc = "ccs"]

\* VerifyConnection comes before the message is looked at.
ReadClientKeyExchange ==
    /\ ServerReads("keyExchange", LAMBDA p, record :
        Then(Opened(p, record, FALSE), LAMBDA q :
            CASE conf.serverVetoes -> Alert(q, "bad_certificate")
              [] ~conf.serverVetoes
                   /\ record.msg.type # "clientKeyExchange" ->
                   Alert(q, "unexpected_message")
              [] OTHER ->
                   LET r == [Hashed(q, record.msg) EXCEPT
                                !.secret = masterSecret(q, record.msg.curve)]
                   IN IF r.peerCerts = "none" THEN ServerKeys(r)
                      ELSE [r EXCEPT !.pc = "certificateVerify"]))
    /\ UNCHANGED made

ReadCertificateVerify ==
    /\ ServerReads("certificateVerify", LAMBDA p, record :
        Then(Receive(p, record, {"certificateVerify"}), LAMBDA q :
            IF BufferGone(q) THEN [q EXCEPT !.pc = "failed", !.err = "panic"]
            ELSE IF record.msg = [type |-> "certificateVerify",
                                  cert |-> q.peerCerts,
                                  signed |-> q.transcript]
            THEN ServerKeys(Hashed(q, record.msg))
            ELSE Alert(q, "decrypt_error")))
    /\ UNCHANGED made

ServerReadsCCS == ServerReads("ccs", ReceiveCCS) /\ UNCHANGED made

\* readFinished; in a full handshake the ticket and the server's Finished
\* follow, and with them the secret is agreed on.
ReadClientFinished ==
    /\ ServerReads("finished", LAMBDA p, record :
        Then(Receive(p, record, {"finished"}), LAMBDA q :
            IF record.msg.verifyData # Sum(q, "client finished")
            THEN Alert(q, "handshake_failure")
            ELSE LET r == Hashed(q, record.msg)
                     t == sendSessionTicket([r EXCEPT !.buffering = TRUE])
                 IN IF r.resumed THEN [r EXCEPT !.pc = "done"]
                    ELSE Then(sendFinished(t, "server finished"), LAMBDA f :
                             [Flushed(f) EXCEPT !.pc = "done"])))
    /\ made' = IF s'.pc = "done" /\ ~s'.resumed
               THEN made \cup {[secret |-> s.secret, name |-> conf.name,
                                vers |-> s.vers, suite |-> s.suite,
                                at |-> clock, certs |-> s.peerCerts]}
               ELSE made

-----------------------------------------------------------------------------
(* The specification.                                                      *)

\* A Conn before its handshake, with the fields of either handshake state.
NewConn(pc) ==
    [pc |-> pc, vers |-> None, suite |-> None, proto |-> None,
     hello |-> None, serverHello |-> None, offered |-> None,
     session |-> None, sessionState |-> None, resumed |-> FALSE,
     secret |-> None, curve |-> None, serverKey |-> None, certReq |-> FALSE,
     peerCerts |-> "none", verified |-> FALSE, transcript |-> <<>>,
     buffer |-> TRUE, in |-> None, out |-> None, nextIn |-> None,
     nextOut |-> None, buffering |-> FALSE, sendBuf |-> <<>>, err |-> None]

Init ==
    /\ n = 1 /\ conf \in Configs[1] /\ clock = 0 /\ keys = <<1>>
    /\ cache = <<>> /\ rivals = 0
    /\ c = NewConn("start") /\ s = NewConn("clientHello")
    /\ toServer = <<>> /\ toClient = <<>> /\ made = {}

Ended(p) == p.pc \in {"done", "failed"}

\* The next connection, of the same client to a server that may differ, after
\* some time and perhaps a rotation of the ticket keys, two of which are kept.
Connect ==
    /\ Ended(c) /\ Ended(s) /\ n < MaxConns
    /\ n' = n + 1 /\ conf' \in Configs[n + 1]
    /\ clock' \in clock .. MaxTime
    /\ \/ keys' = keys
       \/ keys' = <<n + 1, Head(keys)>>
    /\ c' = NewConn("start") /\ s' = NewConn("clientHello")
    /\ toServer' = <<>> /\ toClient' = <<>>
    /\ UNCHANGED <<cache, rivals, made>>

\* Another connection of the client, to the same server and with the same
\* session, fails and drops the session from the cache they share.
RivalFails ==
    /\ c.pc = "serverHello" /\ c.offered # None /\ rivals < Rivals
    /\ cache' = Cache!Put(cache, conf.name, None)
    /\ rivals' = rivals + 1
    /\ UNCHANGED <<conf, n, clock, keys, c, s, toServer, toClient, made>>

\* The connections the bound allows have ended.
Finished ==
    /\ Ended(c) /\ Ended(s) /\ n = MaxConns
    /\ UNCHANGED vars

ClientNext ==
    \/ ClientHello \/ ReadServerHello \/ ReadCertificate
    \/ ReadCertificateStatus \/ ReadServerKeyExchange \/ ReadCertificateRequest
    \/ ReadServerHelloDone \/ readSessionTicket \/ ClientReadsCCS
    \/ ReadServerFinished

ServerNext ==
    \/ ReadClientHello \/ ReadClientCertificate \/ ReadClientKeyExchange
    \/ ReadCertificateVerify \/ ServerReadsCCS \/ ReadClientFinished

Next == ClientNext \/ ServerNext \/ Connect \/ RivalFails \/ Finished

Spec == Init /\ [][Next]_vars

-----------------------------------------------------------------------------
(* Properties.                                                             *)

\* Two ends that are done agree: on version, suite, protocol, on whether they
\* resumed, on the secret and the messages hashed, and each writes under the
\* key the other reads with; and the version is the best both support.  The
\* handshake never succeeds at one end and fails at the other.
EndsAgree ==
    /\ c.pc = "done" /\ s.pc = "done" =>
         /\ c.vers = s.vers /\ c.suite = s.suite /\ c.proto = s.proto
         /\ c.resumed = s.resumed /\ c.secret = s.secret
         /\ c.transcript = s.transcript
         /\ c.out = s.in /\ c.in = s.out
         /\ \A v \in Range(clientVersions) \cap Range(serverVersions) :
               v <= c.vers
    /\ ~(c.pc = "done" /\ s.pc = "failed")
    /\ ~(c.pc = "failed" /\ s.pc = "done")

\* A resumed handshake rests on a full one that the same client completed
\* with the server of that name, for the version and suite in use, no longer
\* ago than a ticket may live however often it was sealed anew, and gives the
\* client the identity it proved then.
ResumptionSound ==
    /\ s.resumed /\ s.pc = "done" =>
         \E m \in made :
            /\ m.secret = s.secret /\ m.vers = s.vers /\ m.suite = s.suite
            /\ m.certs = s.peerCerts /\ clock - m.at <= Lifetime
    /\ c.resumed /\ c.pc = "done" =>
         \E m \in made : m.secret = c.secret /\ m.name = conf.name

\* What ClientAuth asks for now holds when the server's handshake is done,
\* whatever it asked for when a resumed session was made.
ClientAuthHolds ==
    s.pc = "done" =>
        /\ requiresClientCert(conf.auth) => s.peerCerts # "none"
        /\ conf.auth >= 3 => s.peerCerts # "bad"
        /\ conf.auth = 0 => s.peerCerts = "none"

\* A client that does not skip verification ends, resumed or not, with a
\* server whose certificate it verified.
ServerVerified == c.pc = "done" /\ ~conf.insecure => c.verified

Refused(cert) ==
    \/ cert = "none" /\ requiresClientCert(conf.auth)
    \/ cert = "bad" /\ conf.auth >= 3

\* What may make the client p, and the server p, return an error.
ClientCause(p, peer) ==
    \/ p.err = "bad_certificate"
         /\ (conf.clientVetoes \/ (~conf.insecure /\ ~conf.trusts))
    \/ p.err = "internal_error" /\ conf.getCertFails /\ conf.auth # 0
    \/ p.err = "remote" /\ peer.pc = "failed"

ServerCause(p, peer) ==
    \/ p.err = "protocol_version"
         /\ Range(clientVersions) \cap Range(serverVersions) = {}
    \/ p.err = "no_application_protocol"
         /\ Range(conf.clientProtos) \cap Range(conf.serverProtos) = {}
    \/ p.err = "unrecognized_name" /\ conf.key = "none"
    \/ p.err = "handshake_failure"
         /\ \A x \in conf.clientSuites \cap conf.serverSuites :
               \/ ECDHE(x)
                    /\ Range(conf.clientCurves)
                         \cap Range(conf.serverCurves) = {}
               \/ (conf.key = "ecdsa") # ECSign(x)
               \/ TLS12Only(x)
                    /\ 12 \notin Range(clientVersions)
                                   \cap Range(serverVersions)
    \/ p.err = "bad_certificate"
         /\ \/ conf.serverVetoes \/ Refused(conf.clientCert)
            \/ p.sessionState # None /\ Refused(p.sessionState.certs)
    \/ p.err = "remote" /\ peer.pc = "failed"

\* Client and server of this code, whatever was negotiated before, never
\* break the protocol for each other: each alert has its cause in the
\* configurations, and none says that a record did not open, a message was
\* unexpected or a parameter illegal; and no signature is asked of a
\* handshake buffer that was discarded, which would panic.
AlertsHaveACause ==
    (c.err # None => ClientCause(c, s)) /\ (s.err # None => ServerCause(s, c))

\* The two never wait for each other, nor one for an end that has returned:
\* until both have returned, one of them has a record to read or has not
\* begun.
HandshakeProceeds ==
    \/ Ended(c) /\ Ended(s)
    \/ c.pc = "start"
    \/ ~Ended(c) /\ toClient # <<>>
    \/ ~Ended(s) /\ toServer # <<>>

=============================================================================
