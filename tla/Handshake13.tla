----------------------------- MODULE Handshake13 -----------------------------
(***************************************************************************)
(* The TLS 1.3 handshake, client and server, as clientHandshake and        *)
(* serverHandshake run it over one connection.  Each side is a sequential  *)
(* program that blocks in readHandshake; what is in flight is a sequence   *)
(* of records in each direction.                                           *)
(*                                                                         *)
(* Cryptography is symbolic.  A transcript is the sequence of messages     *)
(* hashed so far, a MAC or a signature is the record of what it covers, a  *)
(* secret is the record of what it is derived from, and a record opens     *)
(* under a key only if it was sealed under the same one.  So the two sides *)
(* agree on a secret only if they hashed the same messages in the same     *)
(* order and mixed in the same shares and the same PSK.                    *)
(*                                                                         *)
(* Fields that both sides fill with constants (versions, session id,       *)
(* compression, random, signature schemes) are left out, with the checks   *)
(* on them; the configurations negotiate TLS 1.3.                          *)
(***************************************************************************)
EXTENDS Negotiation

\* None, of Negotiation, is a nil pointer or an empty extension.
CONSTANT Configs  \* the configurations of the two ends, see ConfigAssumption

\* Certificates the client can present: none, one the server's ClientCAs
\* verify, one they do not.
Certs == {"none", "good", "bad"}

\* What a server sealed into a ticket; opens: decryptTicket finds a key for it
\* and it is not older than maxSessionTicketLifetime.
Tickets == [opens : BOOLEAN, suite : {"aes128", "aes256", "chacha"},
            secret : STRING, certs : Certs]

\* A ClientSessionState; expired: its useBy or its server certificate ran out.
Sessions == [vers : {12, 13}, suite : {"aes128", "aes256", "chacha"},
             secret : STRING, expired : BOOLEAN, ticket : Tickets]

\* None is none of the values it may stand in for.
ASSUME NoneAssumption ==
    None \notin STRING \cup {"aes128", "aes256", "chacha"} \cup Tickets
                       \cup Sessions

\* The fields of the two tls.Configs and of the machines that matter here.  A
\* session and its ticket stem from one handshake, and so have its suite.
ASSUME ConfigAssumption ==
    \A k \in Configs :
        /\ k.clientGroups \in Seq(STRING) /\ k.clientGroups # <<>>
        /\ k.serverGroups \in Seq(STRING) /\ k.serverGroups # <<>>
        /\ k.clientProtos \in Seq(STRING) /\ k.serverProtos \in Seq(STRING)
        /\ k.clientAES \in BOOLEAN       \* client hardware has AES-GCM
        /\ k.serverAES \in BOOLEAN       \* server hardware has AES-GCM
        /\ k.caching \in BOOLEAN         \* client: tickets and a cache
        /\ k.session \in Sessions \cup {None}  \* the cached session
        /\ k.session # None =>
              k.caching /\ k.session.suite = k.session.ticket.suite
        /\ k.clientCert \in Certs
        /\ k.getCertFails \in BOOLEAN    \* GetClientCertificate: an error
        /\ k.trusts \in BOOLEAN          \* client verifies the server's chain
        /\ k.clientVetoes \in BOOLEAN    \* client VerifyConnection: an error
        /\ k.tickets \in BOOLEAN         \* ~SessionTicketsDisabled, server
        /\ k.auth \in 0 .. 4             \* ClientAuth, NoClientCert = 0
        /\ k.hasCert \in BOOLEAN         \* server has a certificate to offer
        /\ k.serverVetoes \in BOOLEAN    \* server VerifyConnection: an error

VARIABLES
    conf,      \* the configuration of this connection
    c,         \* the client: Conn and clientHandshakeStateTLS13
    s,         \* the server: Conn and serverHandshakeStateTLS13
    toServer,  \* records the client wrote and the server has not read
    toClient   \* records the server wrote and the client has not read

vars == <<conf, c, s, toServer, toClient>>

-----------------------------------------------------------------------------
(* Suites and the key schedule.                                            *)

Hash(suite) == IF suite = "aes256" THEN "sha384" ELSE "sha256"

\* defaultCipherSuitesTLS13 and defaultCipherSuitesTLS13NoAES.
SuitePreference(aes) ==
    IF aes THEN <<"aes128", "aes256", "chacha">>
           ELSE <<"chacha", "aes128", "aes256">>

\* The secret that a pre-shared key and an ECDHE exchange lead to.
HandshakeSecret(suite, psk, clientShare, serverShare) ==
    [suite |-> suite, psk |-> psk, shares |-> <<clientShare, serverShare>>]

deriveSecret(secret, label, transcript) ==
    [label |-> label, secret |-> secret, transcript |-> transcript]

finishedHash(key, transcript) == [key |-> key, transcript |-> transcript]

\* The MAC of a PSK over a transcript and a hello without its binders.
Binder(suite, psk, transcript, hello) ==
    [hash |-> Hash(suite), key |-> psk,
     transcript |-> Append(transcript, [hello EXCEPT !.binder = None])]

\* The first ClientHello of a transcript that is restarted by a retry.
messageHash(hello) == [type |-> "messageHash", of |-> hello]

-----------------------------------------------------------------------------
(* One end of the connection: p is c or s.                                 *)

\* writeRecord: the record joins sendBuf; the step that wrote it passes
\* sendBuf on unless p is buffering.
Send(p, typ, msg) ==
    [p EXCEPT !.sendBuf = Append(@, [typ |-> typ, key |-> p.out, msg |-> msg])]

\* What a message adds to a transcript: a MAC or a signature is a function of
\* the messages before it, and is checked against them, so it adds nothing.
Digest(msg) ==
    CASE msg.type = "finished" -> [type |-> "finished"]
      [] msg.type = "certificateVerify" ->
            [type |-> "certificateVerify", by |-> msg.by]
      [] msg.type \notin {"finished", "certificateVerify"} -> msg

\* A message is hashed into the transcript.
Hashed(p, msg) == [p EXCEPT !.transcript = Append(@, Digest(msg))]

\* A message is hashed into the transcript and written.
Say(p, msg) == Send(Hashed(p, msg), "handshake", msg)

sendDummyChangeCipherSpec(p) ==
    IF p.ccs THEN p ELSE [Send(p, "ccs", None) EXCEPT !.ccs = TRUE]

\* The handshake function returns an error; handshakeContext flushes sendBuf,
\* which ends buffering unless there was nothing to flush.
Return(p, err) ==
    [p EXCEPT !.pc = "failed", !.err = err,
              !.buffering = @ /\ p.sendBuf = <<>>]

\* The same, after an alert.
Alert(p, alert) == Return(Send(p, "alert", [type |-> alert]), alert)

\* "if err := f(); err != nil { return err }"
Then(p, F(_)) == IF p.pc = "failed" THEN p ELSE F(p)

\* readRecordOrCCS: the next record opens, and is no alert.
Opened(p, record) ==
    IF record.key # p.in
    THEN Alert(p, IF p.in = None THEN "unexpected_message"
                                 ELSE "bad_record_mac")
    ELSE IF record.typ = "alert" THEN Return(p, "remote") ELSE p

\* readHandshake: the record holds a message, of a type that is expected.
Receive(p, record, types) ==
    Then(Opened(p, record),
         LAMBDA q : IF record.msg.type \in types THEN q
                    ELSE Alert(q, "unexpected_message"))

\* What a step leaves in sendBuf, and what it puts on the wire.
Kept(p) == IF p.buffering THEN p.sendBuf ELSE <<>>
Passed(p) == IF p.buffering THEN <<>> ELSE p.sendBuf

\* The client's step ends in p.  An error also drops the session that was
\* offered from the cache.
ClientBecomes(p) ==
    /\ c' = [p EXCEPT !.sendBuf = Kept(p),
                      !.cache = IF p.pc = "failed" /\ p.session # None
                                THEN None ELSE @]
    /\ toServer' = toServer \o Passed(p)
    /\ UNCHANGED <<conf, s>>

ServerBecomes(p) ==
    /\ s' = [p EXCEPT !.sendBuf = Kept(p)]
    /\ toClient' = toClient \o Passed(p)
    /\ UNCHANGED <<conf, c>>

\* The client, blocked in readHandshake at pc, gets a message and goes on
\* with F.  (Here and below \E p \in {...} names a next state of an end, and
\* lets TLC evaluate it once.)
ClientReads(pc, types, F(_, _)) ==
    /\ c.pc = pc /\ toClient # <<>> /\ Head(toClient).typ # "ccs"
    /\ \E p \in {Then(Receive(c, Head(toClient), types),
                      LAMBDA q : F(q, Head(toClient).msg))} : ClientBecomes(p)
    /\ toClient' = Tail(toClient)

ServerReads(pc, types, F(_, _)) ==
    /\ s.pc = pc /\ toServer # <<>> /\ Head(toServer).typ # "ccs"
    /\ \E p \in {Then(Receive(s, Head(toServer), types),
                      LAMBDA q : F(q, Head(toServer).msg))} : ServerBecomes(p)
    /\ toServer' = Tail(toServer)

\* A step of an end that reads nothing.
ClientDoes(p) == ClientBecomes(p) /\ UNCHANGED toClient
ServerDoes(p) == ServerBecomes(p) /\ UNCHANGED toServer

-----------------------------------------------------------------------------
(* The client.                                                             *)

\* makeClientHello: a share for the preferred group only.
makeClientHello ==
    [type |-> "clientHello", suites |-> SuitePreference(conf.clientAES),
     groups |-> conf.clientGroups,
     share |-> [group |-> Head(conf.clientGroups), n |-> 1],
     alpn |-> conf.clientProtos, pskModes |-> FALSE, sessionTicket |-> None,
     psk |-> None, binder |-> None]

\* The session loadSession finds fit to offer.
UsableSession ==
    IF conf.caching /\ c.cache # None
    THEN IF c.cache.expired THEN None ELSE c.cache
    ELSE None

\* loadSession: the hello that offers session.  Every TLS 1.3 hello offers
\* a suite of either hash.
loadSession(hello, session) ==
    LET modes == [hello EXCEPT !.pskModes = conf.caching]
        offer == [modes EXCEPT !.psk = session.ticket]
    IN IF session = None THEN modes
       ELSE IF session.vers # 13
       THEN [modes EXCEPT !.sessionTicket = session.ticket]
       ELSE [offer EXCEPT !.binder =
                Binder(session.suite, session.secret, <<>>, offer)]

\* clientHandshake up to the first read; an expired session leaves the cache.
ClientHello ==
    /\ c.pc = "clientHandshake"
    /\ \E hello \in {loadSession(makeClientHello, UsableSession)} :
       \E p \in {[c EXCEPT !.pc = "serverHello", !.hello = hello,
                           !.session = UsableSession, !.cache = UsableSession]} :
           ClientDoes(Send(p, "handshake", hello))

\* checkServerHelloOrHRR: the suite was offered, and a retry does not change it.
checkServerHelloOrHRR(p, sh) ==
    IF p.suite \notin {None, sh.suite} \/ sh.suite \notin Range(p.hello.suites)
    THEN Alert(p, "illegal_parameter")
    ELSE [p EXCEPT !.suite = sh.suite, !.serverHello = sh,
                   !.pc = IF sh.hrr /\ p.pc = "serverHello"
                          THEN "helloRetryRequest" ELSE "processServerHello"]

\* The first ServerHello: it fixes the hash that the transcript starts with.
ReadServerHello ==
    ClientReads("serverHello", {"serverHello"},
        LAMBDA p, sh : Then(checkServerHelloOrHRR(p, sh),
                            LAMBDA q : Hashed(q, c.hello)))

\* Mutant of RetriedPSK: the binder of the first hello is sent again.
RetriedPSKOldBinder(p, hello) ==
    IF hello.psk # None /\ Hash(p.session.suite) # Hash(p.suite)
    THEN [hello EXCEPT !.psk = None, !.binder = None] ELSE hello

\* The PSK that is offered again after a retry has a binder over the
\* restarted transcript; one of another hash is withdrawn.
RetriedPSK(p, hello) ==
    IF hello.psk = None THEN hello
    ELSE IF Hash(p.session.suite) = Hash(p.suite)
    THEN [hello EXCEPT !.binder =
             Binder(p.suite, p.session.secret, p.transcript, hello)]
    ELSE [hello EXCEPT !.psk = None, !.binder = None]

\* The retry asks for a group that was not offered, or for the share it got.
illegalRetry(hello, group) ==
    group \notin Range(hello.groups) \/ group = hello.share.group

\* processHelloRetryRequest up to its read.
processHelloRetryRequest ==
    /\ c.pc = "helloRetryRequest"
    /\ \E p \in {[sendDummyChangeCipherSpec(c) EXCEPT
                    !.transcript = <<messageHash(c.hello), c.serverHello>>]} :
       \E hello \in {RetriedPSK(p, [c.hello EXCEPT !.share =
                        [group |-> c.serverHello.group, n |-> 2]])} :
           ClientDoes(
               IF illegalRetry(c.hello, c.serverHello.group)
               THEN Alert(p, "illegal_parameter")
               ELSE [Say(p, hello) EXCEPT !.hello = hello,
                                          !.pc = "secondServerHello"])

ReadSecondServerHello ==
    ClientReads("secondServerHello", {"serverHello"}, checkServerHelloOrHRR)

\* processServerHello: the group is the one the client sent a share for, and
\* a PSK is one it offered, of the suite's hash.
processServerHello ==
    /\ c.pc = "processServerHello"
    /\ \E p \in {[Hashed(c, c.serverHello) EXCEPT !.buffering = TRUE]} :
           ClientDoes(
               IF c.serverHello.hrr THEN Alert(p, "unexpected_message")
               ELSE IF \/ c.serverHello.share.group # c.hello.share.group
                       \/ /\ c.serverHello.psk
                          /\ \/ c.hello.psk = None
                             \/ Hash(c.session.suite) # Hash(c.suite)
               THEN Alert(p, "illegal_parameter")
               ELSE [sendDummyChangeCipherSpec(p) EXCEPT
                       !.usingPSK = c.serverHello.psk,
                       !.peerCerts = IF c.serverHello.psk THEN "server" ELSE @,
                       !.pc = "establishHandshakeKeys"])

establishHandshakeKeys ==
    /\ c.pc = "establishHandshakeKeys"
    /\ \E secret \in {HandshakeSecret(c.suite,
                          IF c.usingPSK THEN c.session.secret ELSE None,
                          c.hello.share, c.serverHello.share)} :
           ClientDoes(
               [c EXCEPT
                  !.secret = secret,
                  !.out = deriveSecret(secret, "c hs traffic", c.transcript),
                  !.in = deriveSecret(secret, "s hs traffic", c.transcript),
                  !.pc = "serverParameters"])

readServerParameters ==
    ClientReads("serverParameters", {"encryptedExtensions"},
        LAMBDA p, ee :
            IF checkALPN(conf.clientProtos, ee.alpn)
            THEN [Hashed(p, ee) EXCEPT !.proto = ee.alpn,
                                       !.pc = "serverCertificate"]
            ELSE Alert(Hashed(p, ee), "unsupported_extension"))

\* readServerCertificate of a resumed session: only VerifyConnection.
ResumeServerCertificate ==
    /\ c.pc = "serverCertificate" /\ c.usingPSK
    /\ ClientDoes(IF conf.clientVetoes THEN Alert(c, "bad_certificate")
                  ELSE [c EXCEPT !.pc = "serverFinished"])

\* readServerCertificate: a request at most once, then the certificate.
readServerCertificate ==
    /\ ~c.usingPSK
    /\ ClientReads("serverCertificate",
           {"certificate"} \cup IF c.certReq THEN {} ELSE {"certificateRequest"},
           LAMBDA p, m :
               IF m.type = "certificateRequest"
               THEN [Hashed(p, m) EXCEPT !.certReq = TRUE]
               ELSE IF conf.trusts /\ ~conf.clientVetoes
               THEN [Hashed(p, m) EXCEPT !.peerCerts = m.cert,
                                         !.pc = "certificateVerify"]
               ELSE Alert(Hashed(p, m), "bad_certificate"))

\* A signature of cert's key over the transcript so far.
certificateVerify(p, context, cert) ==
    [type |-> "certificateVerify", by |-> cert, context |-> context,
     signed |-> p.transcript]

ReadServerCertificateVerify ==
    ClientReads("certificateVerify", {"certificateVerify"},
        LAMBDA p, m :
            IF m = certificateVerify(p, "server", p.peerCerts)
            THEN [Hashed(p, m) EXCEPT !.pc = "serverFinished"]
            ELSE Alert(p, "decrypt_error"))

finishedMsg(verifyData) == [type |-> "finished", verifyData |-> verifyData]

readServerFinished ==
    ClientReads("serverFinished", {"finished"},
        LAMBDA p, m :
            IF m.verifyData # finishedHash(p.in, p.transcript)
            THEN Alert(p, "decrypt_error")
            ELSE LET q == Hashed(p, m)
                 IN [q EXCEPT
                       !.app = deriveSecret(p.secret, "c ap traffic",
                                            q.transcript),
                       !.in = deriveSecret(p.secret, "s ap traffic",
                                           q.transcript),
                       !.pc = "clientCertificate"])

\* sendClientCertificate: an empty certificate is not followed by a proof.
sendClientCertificate ==
    /\ c.pc = "clientCertificate"
    /\ \E p \in {Say(c, [type |-> "certificate", cert |-> conf.clientCert])} :
       \E q \in {IF conf.clientCert = "none" THEN p
                 ELSE Say(p, certificateVerify(p, "client", conf.clientCert))} :
           ClientDoes(
               CASE ~c.certReq -> [c EXCEPT !.pc = "clientFinished"]
                 [] c.certReq /\ conf.getCertFails ->
                        Return(c, "getClientCertificate")
                 [] c.certReq /\ ~conf.getCertFails ->
                        [q EXCEPT !.pc = "clientFinished"])

\* sendClientFinished, flush and handshakeStatus.
sendClientFinished ==
    /\ c.pc = "clientFinished"
    /\ \E p \in {Say(c, finishedMsg(finishedHash(c.out, c.transcript)))} :
           ClientDoes(
               [p EXCEPT !.out = c.app, !.pc = "done", !.buffering = FALSE,
                         !.resumption =
                            IF conf.caching
                            THEN deriveSecret(c.secret, "res master", p.transcript)
                            ELSE None])

-----------------------------------------------------------------------------
(* The server.                                                             *)

\* AES goes first if both machines have hardware for it.
SelectedSuite(hello) ==
    LET aes == conf.serverAES /\ Head(hello.suites) \in {"aes128", "aes256"}
    IN FirstIn(SuitePreference(aes), Range(hello.suites))

\* Server preference order, but a group with a key share goes first.
SelectedGroup(hello) ==
    IF hello.share.group \in Range(conf.serverGroups) THEN hello.share.group
    ELSE FirstIn(conf.serverGroups, Range(hello.groups))

serverHelloMsg(suite, hrr, group, share, psk) ==
    [type |-> "serverHello", suite |-> suite, hrr |-> hrr, group |-> group,
     share |-> share, psk |-> psk]

\* doHelloRetryRequest up to its read.
doHelloRetryRequest(p, group) ==
    LET hrr == serverHelloMsg(p.suite, TRUE, group, None, FALSE)
        q == [p EXCEPT !.transcript = <<messageHash(p.hello)>>]
    IN [sendDummyChangeCipherSpec(Say(q, hrr)) EXCEPT
          !.pc = "secondClientHello"]

\* readClientHello and processClientHello, up to a retry.
ReadClientHello ==
    ServerReads("clientHello", {"clientHello"},
        LAMBDA p, hello :
            LET suite == SelectedSuite(hello)
                group == SelectedGroup(hello)
                q == [p EXCEPT !.hello = hello, !.suite = suite,
                               !.group = group]
            IN IF suite = None \/ group = None
               THEN Alert(q, "handshake_failure")
               ELSE IF group # hello.share.group
               THEN doHelloRetryRequest(q, group)
               ELSE [q EXCEPT !.pc = "checkForResumption"])

\* Anything but the key share and the PSK changed.
illegalClientHelloChange(ch, ch1) ==
    \/ ch.suites # ch1.suites \/ ch.groups # ch1.groups \/ ch.alpn # ch1.alpn
    \/ ch.sessionTicket # ch1.sessionTicket \/ ch.pskModes # ch1.pskModes

ReadSecondClientHello ==
    ServerReads("secondClientHello", {"clientHello"},
        LAMBDA p, hello :
            IF \/ hello.share.group # p.group
               \/ illegalClientHelloChange(hello, p.hello)
            THEN Alert(p, "illegal_parameter")
            ELSE [p EXCEPT !.hello = hello, !.pc = "checkForResumption"])

\* Mutant of TicketAccepted: certificates in the ticket do not matter.
TicketAcceptedAnyCerts(p) ==
    /\ conf.tickets /\ p.hello.pskModes /\ p.hello.psk # None
    /\ p.hello.psk.opens
    /\ Hash(p.hello.psk.suite) = Hash(p.suite)

\* The ticket opens and what it holds suits the suite and ClientAuth.
TicketAccepted(p) ==
    /\ conf.tickets /\ p.hello.pskModes /\ p.hello.psk # None
    /\ p.hello.psk.opens
    /\ Hash(p.hello.psk.suite) = Hash(p.suite)
    /\ requiresClientCert(conf.auth) => p.hello.psk.certs # "none"
    /\ conf.auth = 0 => p.hello.psk.certs = "none"

\* processCertsFromClient: presence if required, verification from
\* VerifyClientCertIfGiven on.
processCertsFromClient(p, certs) ==
    IF \/ certs = "none" /\ requiresClientCert(conf.auth)
       \/ certs = "bad" /\ conf.auth >= 3
    THEN Alert(p, "bad_certificate")
    ELSE [p EXCEPT !.peerCerts = certs]

checkForResumption ==
    /\ s.pc = "checkForResumption"
    /\ IF TicketAccepted(s)
       THEN \E p \in {[s EXCEPT !.psk = s.hello.psk.secret]} :
              ServerDoes(
                IF s.hello.binder = Binder(s.suite, p.psk, s.transcript, s.hello)
                THEN Then(processCertsFromClient(p, s.hello.psk.certs),
                          LAMBDA q : [q EXCEPT !.usingPSK = TRUE,
                                               !.pc = "pickCertificate"])
                ELSE Alert(p, "decrypt_error"))
       ELSE ServerDoes([s EXCEPT !.pc = "pickCertificate"])

\* Mutant of pickCertificate: no alert when there is no certificate.
pickCertificateSilent ==
    /\ s.pc = "pickCertificate"
    /\ ServerDoes(
         IF s.usingPSK \/ conf.hasCert
         THEN [s EXCEPT !.pc = "sendServerParameters", !.buffering = TRUE]
         ELSE Return(s, "unrecognized_name"))

pickCertificate ==
    /\ s.pc = "pickCertificate"
    /\ ServerDoes(
         IF s.usingPSK \/ conf.hasCert
         THEN [s EXCEPT !.pc = "sendServerParameters", !.buffering = TRUE]
         ELSE Alert(s, "unrecognized_name"))

sendServerParameters ==
    /\ s.pc = "sendServerParameters"
    /\ \E share \in {[group |-> s.group, n |-> 0]} :
       \E secret \in {HandshakeSecret(s.suite, s.psk, s.hello.share, share)} :
       \E p \in {Say(Hashed(s, s.hello),
                     serverHelloMsg(s.suite, FALSE, None, share, s.usingPSK))} :
       \E proto \in {negotiateALPN(conf.serverProtos, conf.clientProtos)} :
       \E q \in {[sendDummyChangeCipherSpec(p) EXCEPT
                    !.secret = secret,
                    !.in = deriveSecret(secret, "c hs traffic", p.transcript),
                    !.out = deriveSecret(secret, "s hs traffic", p.transcript)]} :
           ServerDoes(
               IF refusesALPN(conf.serverProtos, conf.clientProtos)
               THEN Alert(q, "no_application_protocol")
               ELSE [Say(q, [type |-> "encryptedExtensions", alpn |-> proto])
                       EXCEPT !.proto = proto, !.pc = "sendServerCertificate"])

requestClientCert(p) == conf.auth >= 1 /\ ~p.usingPSK

sendServerCertificate ==
    /\ s.pc = "sendServerCertificate"
    /\ \E p \in {IF requestClientCert(s)
                 THEN Say(s, [type |-> "certificateRequest"]) ELSE s} :
       \E q \in {Say(p, [type |-> "certificate", cert |-> "server"])} :
       \E r \in {Say(q, certificateVerify(q, "server", "server"))} :
           ServerDoes(
               [IF s.usingPSK THEN s ELSE r EXCEPT !.pc = "sendServerFinished"])

\* Mutant of sendSessionTickets: the resumption secret is derived before the
\* client's Finished is hashed.
sendSessionTicketsEarly(p) ==
    LET expected == finishedHash(p.in, p.transcript)
        q == Hashed([p EXCEPT !.clientFinished = expected],
                    finishedMsg(expected))
    IN IF conf.tickets /\ p.hello.pskModes
       THEN Send(q, "handshake",
                 [type |-> "newSessionTicket", suite |-> p.suite,
                  secret |-> deriveSecret(p.secret, "res master",
                                          p.transcript),
                  certs |-> p.peerCerts])
       ELSE q

\* sendSessionTickets: the client's Finished is computed ahead of its
\* arrival, and a ticket goes to a client that can use it.
sendSessionTickets(p) ==
    LET expected == finishedHash(p.in, p.transcript)
        q == Hashed([p EXCEPT !.clientFinished = expected],
                    finishedMsg(expected))
    IN IF conf.tickets /\ p.hello.pskModes
       THEN Send(q, "handshake",
                 [type |-> "newSessionTicket", suite |-> p.suite,
                  secret |-> deriveSecret(p.secret, "res master",
                                          q.transcript),
                  certs |-> p.peerCerts])
       ELSE q

\* Mutant of sendServerFinished: the flight is left in sendBuf.
sendServerFinishedUnflushed ==
    /\ s.pc = "sendServerFinished"
    /\ \E p \in {Say(s, finishedMsg(finishedHash(s.out, s.transcript)))} :
       \E q \in {[p EXCEPT
                    !.app = deriveSecret(s.secret, "c ap traffic", p.transcript),
                    !.out = deriveSecret(s.secret, "s ap traffic", p.transcript)]} :
       \E r \in {IF requestClientCert(s) THEN q ELSE sendSessionTickets(q)} :
           ServerDoes([r EXCEPT !.pc = "readClientCertificate"])

\* sendServerFinished and the flush of the first flight.
sendServerFinished ==
    /\ s.pc = "sendServerFinished"
    /\ \E p \in {Say(s, finishedMsg(finishedHash(s.out, s.transcript)))} :
       \E q \in {[p EXCEPT
                    !.app = deriveSecret(s.secret, "c ap traffic", p.transcript),
                    !.out = deriveSecret(s.secret, "s ap traffic", p.transcript)]} :
       \E r \in {IF requestClientCert(s) THEN q ELSE sendSessionTickets(q)} :
           ServerDoes(
               [r EXCEPT !.pc = "readClientCertificate", !.buffering = FALSE])

\* readClientCertificate when none was requested: only VerifyConnection.
SkipClientCertificate ==
    /\ s.pc = "readClientCertificate" /\ ~requestClientCert(s)
    /\ ServerDoes(IF conf.serverVetoes THEN Alert(s, "bad_certificate")
                  ELSE [s EXCEPT !.pc = "readClientFinished"])

readClientCertificate ==
    /\ requestClientCert(s)
    /\ ServerReads("readClientCertificate", {"certificate"},
           LAMBDA p, m :
               Then(processCertsFromClient(Hashed(p, m), m.cert),
                    LAMBDA q :
                       CASE conf.serverVetoes -> Alert(q, "bad_certificate")
                         [] ~conf.serverVetoes /\ m.cert # "none" ->
                              [q EXCEPT !.pc = "readClientCertificateVerify"]
                         [] ~conf.serverVetoes /\ m.cert = "none" ->
                              [sendSessionTickets(q) EXCEPT
                                 !.pc = "readClientFinished"]))

ReadClientCertificateVerify ==
    ServerReads("readClientCertificateVerify", {"certificateVerify"},
        LAMBDA p, m :
            IF m = certificateVerify(p, "client", p.peerCerts)
            THEN [sendSessionTickets(Hashed(p, m)) EXCEPT
                    !.pc = "readClientFinished"]
            ELSE Alert(p, "decrypt_error"))

\* Mutant of readClientFinished: the server goes on reading under the
\* handshake key.
readClientFinishedSameKey ==
    ServerReads("readClientFinished", {"finished"},
        LAMBDA p, m :
            IF m.verifyData = p.clientFinished
            THEN [p EXCEPT !.pc = "done"]
            ELSE Alert(p, "decrypt_error"))

readClientFinished ==
    ServerReads("readClientFinished", {"finished"},
        LAMBDA p, m :
            IF m.verifyData = p.clientFinished
            THEN [p EXCEPT !.in = p.app, !.pc = "done"]
            ELSE Alert(p, "decrypt_error"))

-----------------------------------------------------------------------------
(* The specification.                                                      *)

\* A Conn before its handshake, with the fields of the handshake state that
\* either end uses.
NewConn(pc, cache) ==
    [pc |-> pc, cache |-> cache, session |-> None, hello |-> None,
     serverHello |-> None, suite |-> None, group |-> None, psk |-> None,
     usingPSK |-> FALSE, transcript |-> <<>>, secret |-> None, app |-> None,
     resumption |-> None, clientFinished |-> None, in |-> None, out |-> None,
     proto |-> None, certReq |-> FALSE, peerCerts |-> "none", ccs |-> FALSE,
     buffering |-> FALSE, sendBuf |-> <<>>, err |-> None]

Init ==
    /\ conf \in Configs
    /\ c = NewConn("clientHandshake", conf.session)
    /\ s = NewConn("clientHello", None)
    /\ toServer = <<>> /\ toClient = <<>>

\* The ends block in readHandshake, their version known to be TLS 1.3.
ClientWaits ==
    \/ c.pc \in {"secondServerHello", "serverParameters", "certificateVerify",
                 "serverFinished"}
    \/ c.pc = "serverCertificate" /\ ~c.usingPSK

ServerWaits ==
    \/ s.pc \in {"secondClientHello", "readClientCertificateVerify",
                 "readClientFinished"}
    \/ s.pc = "readClientCertificate" /\ requestClientCert(s)

\* readRecordOrCCS drops a ChangeCipherSpec record, sealed or not.
ClientDropsCCS ==
    /\ ClientWaits /\ toClient # <<>> /\ Head(toClient).typ = "ccs"
    /\ toClient' = Tail(toClient)
    /\ UNCHANGED <<conf, c, s, toServer>>

ServerDropsCCS ==
    /\ ServerWaits /\ toServer # <<>> /\ Head(toServer).typ = "ccs"
    /\ toServer' = Tail(toServer)
    /\ UNCHANGED <<conf, c, s, toClient>>

ClientNext ==
    \/ ClientHello \/ ReadServerHello \/ processHelloRetryRequest
    \/ ReadSecondServerHello \/ processServerHello \/ establishHandshakeKeys
    \/ readServerParameters \/ ResumeServerCertificate \/ readServerCertificate
    \/ ReadServerCertificateVerify \/ readServerFinished
    \/ sendClientCertificate \/ sendClientFinished \/ ClientDropsCCS

ServerNext ==
    \/ ReadClientHello \/ ReadSecondClientHello \/ checkForResumption
    \/ pickCertificate \/ sendServerParameters \/ sendServerCertificate
    \/ sendServerFinished \/ SkipClientCertificate \/ readClientCertificate
    \/ ReadClientCertificateVerify \/ readClientFinished \/ ServerDropsCCS

Next == ClientNext \/ ServerNext

Spec == Init /\ [][Next]_vars

\* Both ends keep running their handshake functions: the goroutines are
\* scheduled and the transport delivers.
FairSpec == Spec /\ WF_vars(ClientNext) /\ WF_vars(ServerNext)

-----------------------------------------------------------------------------
(* Properties.                                                             *)

\* A server whose handshake is done faces a client whose handshake is done,
\* and the two hashed the same messages, ended with the same suite, protocol
\* and secret, both or neither resumed, and each writes under the key the
\* other reads with.
Agreement ==
    s.pc = "done" =>
        /\ c.pc = "done"
        /\ c.suite = s.suite /\ c.proto = s.proto
        /\ c.usingPSK = s.usingPSK
        /\ c.secret = s.secret /\ c.transcript = s.transcript
        /\ c.out = s.in /\ c.in = s.out

\* What ClientAuth asks for is met when the server's handshake is done,
\* resumption included: a required certificate is there, one that has to be
\* verified was, nobody is authenticated who was not asked, and a certificate
\* sent in this handshake came with a signature over it.
ClientAuthEnforced ==
    s.pc = "done" =>
        /\ requiresClientCert(conf.auth) => s.peerCerts # "none"
        /\ conf.auth >= 3 => s.peerCerts # "bad"
        /\ conf.auth = 0 => s.peerCerts = "none"
        /\ s.peerCerts # "none" /\ ~s.usingPSK =>
              \E i \in DOMAIN s.transcript :
                 /\ s.transcript[i].type = "certificateVerify"
                 /\ s.transcript[i].by = s.peerCerts

\* The ticket a server sends, computed before the client's Finished arrived,
\* holds the secret the client derives when its handshake is done, and the
\* certificate the client showed.
TicketSecretsAgree ==
    c.pc = "done" =>
        \A i \in DOMAIN toClient :
            toClient[i].typ = "handshake" =>
                /\ toClient[i].msg.type = "newSessionTicket"
                /\ toClient[i].msg.secret = c.resumption
                /\ toClient[i].msg.certs \in {"none", conf.clientCert} \cup
                      IF c.usingPSK THEN {c.session.ticket.certs} ELSE {}
                /\ toClient[i].key = c.in

CommonGroup ==
    \E g \in Range(conf.clientGroups) : g \in Range(conf.serverGroups)

\* ALPN finds a protocol or is not insisted on.
CommonProtocol ==
    \/ conf.clientProtos = <<>> \/ conf.serverProtos = <<>>
    \/ \E a \in Range(conf.clientProtos) : a \in Range(conf.serverProtos)
    \/ /\ "http/1.1" \in Range(conf.clientProtos)
       /\ "h2" \in Range(conf.serverProtos)

\* A certificate ClientAuth does not accept.
Unacceptable(cert) ==
    \/ cert = "none" /\ requiresClientCert(conf.auth)
    \/ cert = "bad" /\ conf.auth >= 3

\* Client and server of this code never break the protocol for each other:
\* every alert has its cause in a configuration, and no alert says that a
\* record did not open, a message was unexpected, or a parameter illegal.
FailuresHaveACause ==
    /\ c.err # None =>
         \/ c.err = "bad_certificate" /\ (~conf.trusts \/ conf.clientVetoes)
         \/ c.err = "getClientCertificate" /\ conf.getCertFails
         \/ c.err = "remote" /\ s.pc = "failed"
    /\ s.err # None =>
         \/ s.err = "handshake_failure" /\ ~CommonGroup
         \/ s.err = "no_application_protocol" /\ ~CommonProtocol
         \/ s.err = "unrecognized_name" /\ ~conf.hasCert
         \/ s.err = "decrypt_error" /\ c.session # None
              /\ c.session.secret # c.session.ticket.secret
         \/ s.err = "bad_certificate"
              /\ \/ conf.serverVetoes \/ Unacceptable(conf.clientCert)
                 \/ c.session # None /\ Unacceptable(c.session.ticket.certs)
         \/ s.err = "remote" /\ c.pc = "failed"

\* Nothing in either configuration stands in the way.
Compatible ==
    /\ CommonGroup /\ CommonProtocol /\ conf.hasCert /\ conf.trusts
    /\ ~conf.clientVetoes /\ ~conf.serverVetoes /\ ~conf.getCertFails
    /\ conf.auth >= 1 => ~Unacceptable(conf.clientCert)
    /\ conf.session # None =>
         /\ conf.session.secret = conf.session.ticket.secret
         /\ ~Unacceptable(conf.session.ticket.certs)

\* Compatible configurations lead to a handshake that is done at both ends,
\* with or without a retry, a resumption or a client certificate.
CompatibleEndsComplete == Compatible => <>(c.pc = "done" /\ s.pc = "done")

\* No end waits for ever for the other, unless GetClientCertificate fails,
\* the one error that is returned without an alert.
HandshakesEnd ==
    <>(/\ c.pc \in {"done", "failed"}
       /\ s.pc \in {"done", "failed"} \/ c.err = "getClientCertificate")

=============================================================================
