-------------------------- MODULE Handshake12Proofs --------------------------
(***************************************************************************)
(* The handshakes before TLS 1.3, for all configurations, any number of    *)
(* connections and any size of the session cache.                          *)
(***************************************************************************)
EXTENDS Handshake12, SequenceTheorems, WellFoundedInduction, TLAPS

ConnFields == {"pc", "vers", "suite", "proto", "hello", "serverHello", "offered",
               "session", "sessionState", "resumed", "secret", "curve",
               "serverKey", "certReq", "peerCerts", "verified", "transcript",
               "buffer", "in", "out", "nextIn", "nextOut", "buffering",
               "sendBuf", "err"}

IsSeq(t) == \E S : t \in Seq(S)
Before(x, t) == <<x>> \o t

-----------------------------------------------------------------------------
(* The records of a connection, and what the two ends hash of them.  Here  *)
(* and below p is the client and q the server.                             *)

Rec(k, m) == [typ |-> "handshake", key |-> k, msg |-> m]
CCS == [typ |-> "ccs", key |-> None, msg |-> None]
AlertRec(a) == [typ |-> "alert", key |-> None, msg |-> [type |-> a]]

CertMsg == [type |-> "certificate", cert |-> conf.key]
StatusMsg == [type |-> "certificateStatus"]
SKEMsg(q) == [type |-> "serverKeyExchange", curve |-> q.curve,
              signed |-> [key |-> conf.key, n |-> n, curve |-> q.curve]]
RequestMsg == [type |-> "certificateRequest"]
DoneMsg == [type |-> "serverHelloDone"]

\* The rest of the server's flight from its i-th message on.
Rest5 == <<Rec(None, DoneMsg)>>
Rest4 == IF conf.auth # 0 THEN Before(Rec(None, RequestMsg), Rest5) ELSE Rest5
Rest3(q) == IF ECDHE(q.suite) THEN Before(Rec(None, SKEMsg(q)), Rest4) ELSE Rest4
Rest2(q) == IF conf.staple THEN Before(Rec(None, StatusMsg), Rest3(q))
            ELSE Rest3(q)
Rest1(q) == Before(Rec(None, CertMsg), Rest2(q))
Rest0(q) == Before(Rec(None, q.serverHello), Rest1(q))

\* What is hashed before the i-th message of it.
Hash1(q) == Append(<<q.hello>>, q.serverHello)
Hash2(q) == Append(Hash1(q), CertMsg)
Hash3(q) == IF conf.staple THEN Append(Hash2(q), StatusMsg) ELSE Hash2(q)
Hash4(q) == IF ECDHE(q.suite) THEN Append(Hash3(q), SKEMsg(q)) ELSE Hash3(q)
Hash5(q) == IF conf.auth # 0 THEN Append(Hash4(q), RequestMsg) ELSE Hash4(q)
Hash6(q) == Append(Hash5(q), DoneMsg)

\* The client's flight: the certificate it sends, and what it hashes.
Chain == IF conf.auth # 0 THEN conf.clientCert ELSE "none"
ChainMsg == [type |-> "certificate", cert |-> Chain]
CKEMsg(q) == [type |-> "clientKeyExchange", curve |-> q.curve]
Fin == [type |-> "finished"]

Hash7(q) == IF conf.auth # 0 THEN Append(Hash6(q), ChainMsg) ELSE Hash6(q)
Hash8(q) == Append(Hash7(q), CKEMsg(q))
Hash9(q) == IF Chain # "none"
            THEN Append(Hash8(q), [type |-> "certificateVerify"]) ELSE Hash8(q)
HashF(q) == Append(Hash9(q), Fin)

VerifyMsg(q) == [type |-> "certificateVerify", cert |-> Chain, signed |-> Hash8(q)]

FinMsg(label, secret, hash) ==
    [type |-> "finished",
     verifyData |-> [label |-> label, secret |-> secret, transcript |-> hash]]

\* The secret of a full handshake, and the keys from a secret.
Master(q) == masterSecret(q, q.curve)
KeyOf(q, secret, writer) ==
    [writer |-> writer, secret |-> secret, vers |-> q.vers, suite |-> q.suite,
     n |-> n]

\* The rest of the client's flight from its i-th message on.
Sent5(q) == <<Rec(KeyOf(q, Master(q), "client"),
                  FinMsg("client finished", Master(q), Hash9(q)))>>
Sent4(q) == Before(CCS, Sent5(q))
Sent3(q) == IF Chain # "none" THEN Before(Rec(None, VerifyMsg(q)), Sent4(q))
            ELSE Sent4(q)
Sent2(q) == Before(Rec(None, CKEMsg(q)), Sent3(q))
Sent1(q) == IF conf.auth # 0 THEN Before(Rec(None, ChainMsg), Sent2(q))
            ELSE Sent2(q)

\* The end of a handshake at the server: a ticket where it announced one, and
\* Finished; before is what was hashed before them.
TicketMsg(q) == [type |-> "newSessionTicket", ticket |-> TicketFor(q)]
WithTicket(q, before) ==
    IF q.serverHello.ticketSupported THEN Append(before, TicketMsg(q)) ELSE before
End3(q, before) ==
    <<Rec(KeyOf(q, q.secret, "server"),
          FinMsg("server finished", q.secret, WithTicket(q, before)))>>
End2(q, before) == Before(CCS, End3(q, before))
End1(q, before) ==
    IF q.serverHello.ticketSupported
    THEN Before(Rec(None, TicketMsg(q)), End2(q, before)) ELSE End2(q, before)

\* The client's end of a resumption.
Back2(q) == <<Rec(KeyOf(q, q.secret, "client"),
                  FinMsg("client finished", q.secret,
                         Append(WithTicket(q, Hash1(q)), Fin)))>>
Back1(q) == Before(CCS, Back2(q))

-----------------------------------------------------------------------------
(* What stays true from one connection to the next.                        *)

\* A full handshake with server name made the session that was sealed in x.
TicketOK(x, name) ==
    /\ x.secret \in Secrets /\ x.createdAt \in Nat
    /\ \E m \in made :
        /\ m.secret = x.secret /\ m.name = name
        /\ m.vers = x.vers /\ m.suite = x.suite /\ m.certs = x.certs
        /\ m.at \in Nat /\ x.createdAt <= m.at /\ m.at <= clock

SessionOK(x, name) ==
    /\ TicketOK(x.ticket, name)
    /\ x.vers = x.ticket.vers /\ x.suite = x.ticket.suite
    /\ x.secret = x.ticket.secret

EntryOK(e) == e.state # None => SessionOK(e.state, e.name)

CacheOK(q) == IsSeq(q) /\ \A i \in DOMAIN q : EntryOK(q[i])

WorldOK ==
    /\ conf \in UNION Range(Configs) /\ n \in 1 .. MaxConns /\ clock \in Nat
    /\ keys \in Seq(Nat) /\ keys # <<>>
    /\ DOMAIN c = ConnFields /\ DOMAIN s = ConnFields

-----------------------------------------------------------------------------
(* What the ends have settled.                                             *)

offeredSuites ==
    OfferedSuites(conf.clientSuites, conf.clientAES, Head(clientVersions))
bestVersion == mutualVersion(serverVersions, clientVersions)
bestProto == negotiateALPN(conf.serverProtos, conf.clientProtos)
curvesMeet == supportsECDHE(conf.clientCurves, conf.serverCurves)

\* The client has sent its hello, perhaps with a session.
Offers(p) ==
    /\ p.hello = makeClientHello(p.offered, offeredSuites)
    /\ p.session # None => SessionOK(p.session, conf.name)
    /\ p.offered # None => SessionOK(p.offered, conf.name)
    /\ (p.offered # None /\ ~conf.insecure) => p.offered.verified

NoKeys(p) == p.in = None /\ p.out = None /\ p.nextIn = None /\ p.nextOut = None
Quiet(p) == p.sendBuf = <<>> /\ p.err = None
Verified(p) == ~conf.insecure => p.verified

\* It has read nothing yet.
Fresh(p) ==
    /\ p.pc = "serverHello" /\ NoKeys(p) /\ Quiet(p) /\ ~p.buffering
    /\ p.resumed = FALSE /\ ~p.certReq /\ p.curve = None

\* What the server's hello says.
Announced(q, sessionId) ==
    /\ q.vers = bestVersion /\ q.vers # None
    /\ q.suite \in Range(offeredSuites)
    /\ q.serverHello.type = "serverHello"
    /\ q.serverHello.vers = q.vers /\ q.serverHello.suite = q.suite
    /\ q.serverHello.proto = bestProto
    /\ q.serverHello.sessionId = sessionId
    /\ q.serverHello.canary = Canary(q.vers, Head(serverVersions))

Chosen(p, q) ==
    /\ q.hello = p.hello /\ q.err = None /\ q.proto = bestProto
    /\ q.sessionState # None =>
          p.offered # None /\ q.sessionState = p.offered.ticket

ChoseFull(p, q) ==
    /\ Chosen(p, q) /\ Announced(q, None) /\ q.resumed = FALSE
    /\ cipherSuiteOk(q.suite, conf.key, curvesMeet, q.vers)
    /\ q.curve = IF ECDHE(q.suite)
                 THEN MutualCurve(conf.clientCurves, conf.serverCurves) ELSE None
    /\ q.serverHello.ocspStapling <=> conf.staple

ChoseResume(p, q) ==
    /\ Chosen(p, q) /\ Announced(q, n) /\ q.resumed = TRUE
    /\ p.offered # None /\ q.sessionState = p.offered.ticket
    /\ q.vers = p.offered.vers /\ q.suite = p.offered.suite
    /\ clock - q.sessionState.createdAt <= Lifetime
    /\ q.sessionState.certs # "none" => conf.auth # 0
    /\ q.peerCerts = q.sessionState.certs /\ ~Refused(q.peerCerts)
    /\ q.secret = p.offered.secret
    /\ TicketOK(TicketFor(q), conf.name)

\* The client has read the server's hello.
Follows(p, q) ==
    /\ p.vers = q.vers /\ p.suite = q.suite /\ p.proto = q.proto
    /\ p.serverHello = q.serverHello /\ Quiet(p)

-----------------------------------------------------------------------------
(* The stages of a full handshake: ts and tc are the records on the way to *)
(* the server and to the client.                                           *)

\* The client reads the server's flight.
InFlight(p, q) ==
    /\ Follows(p, q) /\ p.resumed = FALSE /\ NoKeys(p) /\ p.buffering
    /\ p.buffer <=> (conf.clientCert # "none" \/ conf.getCertFails)

AwaitsCert(p, q, tc) ==
    /\ InFlight(p, q) /\ p.pc = "certificate" /\ tc = Rest1(q)
    /\ p.transcript = Hash1(q) /\ ~p.certReq /\ p.curve = None

AwaitsStatus(p, q, tc) ==
    /\ InFlight(p, q) /\ p.pc = "certificateStatus" /\ tc = Rest2(q)
    /\ p.transcript = Hash2(q) /\ ~p.certReq /\ p.curve = None
    /\ p.serverKey = conf.key

AwaitsKey(p, q, tc) ==
    /\ InFlight(p, q) /\ p.pc = "serverKeyExchange" /\ tc = Rest3(q)
    /\ p.transcript = Hash3(q) /\ ~p.certReq /\ p.curve = None
    /\ p.serverKey = conf.key

AwaitsRequest(p, q, tc) ==
    /\ InFlight(p, q) /\ p.pc = "certificateRequest" /\ tc = Rest4
    /\ p.transcript = Hash4(q) /\ ~p.certReq /\ p.curve = q.curve
    /\ p.serverKey = conf.key /\ Verified(p)

AwaitsDone(p, q, tc) ==
    /\ InFlight(p, q) /\ p.pc = "serverHelloDone" /\ tc = Rest5
    /\ p.transcript = Hash5(q) /\ p.certReq /\ conf.auth # 0
    /\ p.curve = q.curve /\ p.serverKey = conf.key /\ Verified(p)

ServerAwaitsFlight(q) ==
    /\ q.pc = (IF conf.auth # 0 THEN "certificate" ELSE "keyExchange")
    /\ NoKeys(q) /\ Quiet(q) /\ ~q.buffering
    /\ q.buffer <=> conf.auth # 0
    /\ q.peerCerts = "none" /\ q.transcript = Hash6(q)

ServerFlight(p, q, ts, tc) ==
    /\ Offers(p) /\ ChoseFull(p, q) /\ ServerAwaitsFlight(q) /\ ts = <<>>
    /\ \/ Fresh(p) /\ tc = Rest0(q)
       \/ AwaitsCert(p, q, tc) \/ AwaitsStatus(p, q, tc) \/ AwaitsKey(p, q, tc)
       \/ AwaitsRequest(p, q, tc) \/ AwaitsDone(p, q, tc)

\* The server reads the client's flight.
ClientAwaitsEnd(p, q) ==
    /\ Follows(p, q) /\ Verified(p) /\ p.resumed = FALSE
    /\ p.pc = (IF q.serverHello.ticketSupported THEN "ticket" ELSE "ccs")
    /\ p.secret = Master(q) /\ p.in = None
    /\ p.nextIn = KeyOf(q, Master(q), "server")
    /\ p.out = KeyOf(q, Master(q), "client")
    /\ p.transcript = HashF(q)

Accepted(q) == q.peerCerts = Chain /\ ~Refused(Chain)

AtCertificate(q, ts) ==
    /\ q.pc = "certificate" /\ ts = Sent1(q) /\ conf.auth # 0 /\ NoKeys(q)
    /\ q.buffer /\ q.peerCerts = "none" /\ q.transcript = Hash6(q)

AtKeyExchange(q, ts) ==
    /\ q.pc = "keyExchange" /\ ts = Sent2(q) /\ Accepted(q) /\ NoKeys(q)
    /\ (q.buffer <=> conf.auth # 0) /\ q.transcript = Hash7(q)

AtVerify(q, ts) ==
    /\ q.pc = "certificateVerify" /\ ts = Sent3(q) /\ Accepted(q) /\ NoKeys(q)
    /\ Chain # "none" /\ q.secret = Master(q) /\ q.buffer
    /\ q.transcript = Hash8(q)

AtCCS(q, ts) ==
    /\ q.pc = "ccs" /\ ts = Sent4(q) /\ Accepted(q) /\ q.secret = Master(q)
    /\ q.in = None /\ q.out = None /\ q.nextIn = KeyOf(q, Master(q), "client")
    /\ q.nextOut = KeyOf(q, Master(q), "server") /\ q.transcript = Hash9(q)

AtFinished(q, ts) ==
    /\ q.pc = "finished" /\ ts = Sent5(q) /\ Accepted(q) /\ q.secret = Master(q)
    /\ q.in = KeyOf(q, Master(q), "client") /\ q.out = None
    /\ q.nextOut = KeyOf(q, Master(q), "server") /\ q.transcript = Hash9(q)

ClientFlightSent(p, q, ts, tc) ==
    /\ Offers(p) /\ ChoseFull(p, q) /\ ClientAwaitsEnd(p, q) /\ tc = <<>>
    /\ Quiet(q) /\ ~q.buffering
    /\ \/ AtCertificate(q, ts) \/ AtKeyExchange(q, ts) \/ AtVerify(q, ts)
       \/ AtCCS(q, ts) \/ AtFinished(q, ts)

\* The client reads what the server ends the handshake with.
ClientEnds(p, q, tc, before) ==
    \/ /\ p.pc = "ticket" /\ q.serverHello.ticketSupported
       /\ tc = End1(q, before) /\ p.in = None /\ p.nextIn = q.out
       /\ p.transcript = before
    \/ /\ p.pc = "ccs" /\ tc = End2(q, before) /\ p.in = None
       /\ p.nextIn = q.out /\ p.transcript = WithTicket(q, before)
    \/ /\ p.pc = "finished" /\ tc = End3(q, before) /\ p.in = q.out
       /\ p.transcript = WithTicket(q, before)

\* The server is done.
ServerEnded(p, q, ts, tc) ==
    /\ Offers(p) /\ ChoseFull(p, q) /\ Follows(p, q) /\ Verified(p)
    /\ p.resumed = FALSE /\ q.pc = "done" /\ ts = <<>> /\ Accepted(q)
    /\ q.secret = Master(q) /\ p.secret = q.secret
    /\ q.transcript = Append(WithTicket(q, HashF(q)), Fin)
    /\ q.in = KeyOf(q, q.secret, "client")
    /\ q.out = KeyOf(q, q.secret, "server") /\ p.out = q.in
    /\ \/ ClientEnds(p, q, tc, HashF(q))
       \/ /\ p.pc = "done" /\ tc = <<>> /\ p.in = q.out
          /\ p.transcript = q.transcript

ServerDone(p, q, ts, tc) ==
    ServerEnded(p, q, ts, tc) /\ TicketOK(TicketFor(q), conf.name)

-----------------------------------------------------------------------------
(* The stages of an abbreviated handshake.                                 *)

ServerAwaitsCCS(q) ==
    /\ q.pc = "ccs" /\ Quiet(q) /\ ~q.buffering
    /\ q.in = None /\ q.nextIn = KeyOf(q, q.secret, "client")
    /\ q.out = KeyOf(q, q.secret, "server")
    /\ q.transcript = Append(WithTicket(q, Hash1(q)), Fin)

\* The client reads the server's flight.
ClientResumes(p, q, tc) ==
    /\ Follows(p, q) /\ Verified(p) /\ p.resumed = TRUE
    /\ p.secret = q.secret /\ p.out = None
    /\ p.nextOut = KeyOf(q, q.secret, "client")
    /\ ClientEnds(p, q, tc, Hash1(q))

Resuming(p, q, ts, tc) ==
    /\ Offers(p) /\ ChoseResume(p, q) /\ ServerAwaitsCCS(q) /\ ts = <<>>
    /\ \/ /\ Fresh(p)
          /\ tc = Before(Rec(None, q.serverHello), End1(q, Hash1(q)))
       \/ ClientResumes(p, q, tc)

\* The client is done.
Resumed(p, q, ts, tc) ==
    /\ Offers(p) /\ ChoseResume(p, q) /\ Follows(p, q) /\ Verified(p)
    /\ p.resumed = TRUE /\ p.pc = "done" /\ p.secret = q.secret /\ tc = <<>>
    /\ p.in = KeyOf(q, q.secret, "server")
    /\ p.out = KeyOf(q, q.secret, "client")
    /\ p.transcript = Append(Append(WithTicket(q, Hash1(q)), Fin), Fin)
    /\ \/ ServerAwaitsCCS(q) /\ ts = Back1(q)
       \/ /\ q.pc = "finished" /\ ts = Back2(q) /\ Quiet(q) /\ ~q.buffering
          /\ q.in = p.out /\ q.out = p.in
          /\ q.transcript = Append(WithTicket(q, Hash1(q)), Fin)
       \/ /\ q.pc = "done" /\ q.in = p.out /\ q.out = p.in
          /\ q.transcript = p.transcript

-----------------------------------------------------------------------------
(* One end refuses, and the other has yet to read so.                      *)

Refuses(p) == p.pc = "failed"

ResumeRefused(p, q, ts, tc) ==
    /\ Offers(p) /\ Fresh(p) /\ Refuses(q) /\ ServerCause(q, p) /\ ts = <<>>
    /\ Announced(q, n) /\ p.offered # None
    /\ q.vers = p.offered.vers /\ q.suite = p.offered.suite
    /\ tc = Before(Rec(None, q.serverHello), <<AlertRec(q.err)>>)

ServerRefused(p, q, ts, tc) ==
    /\ Refuses(q) /\ ServerCause(q, p)
    /\ p.pc \in {"serverHello", "ticket", "ccs"} /\ p.in = None /\ Quiet(p)
    /\ tc = <<AlertRec(q.err)>>

ClientRefused(p, q, ts, tc) ==
    /\ Refuses(p) /\ ClientCause(p, q)
    /\ q.pc \in {"certificate", "keyExchange", "ccs"} /\ q.in = None /\ Quiet(q)
    /\ ts = <<AlertRec(p.err)>>

BothFailed(p, q) ==
    Refuses(p) /\ Refuses(q) /\ ClientCause(p, q) /\ ServerCause(q, p)

-----------------------------------------------------------------------------
(* The inductive invariant.                                                *)

Starting(p, q, ts, tc) ==
    /\ p = NewConn("start") /\ q = NewConn("clientHello")
    /\ ts = <<>> /\ tc = <<>>

HelloSent(p, q, ts, tc) ==
    /\ Offers(p) /\ Fresh(p) /\ q = NewConn("clientHello")
    /\ ts = <<Rec(None, p.hello)>> /\ tc = <<>>

Stage(p, q, ts, tc) ==
    \/ Starting(p, q, ts, tc) \/ HelloSent(p, q, ts, tc)
    \/ ServerFlight(p, q, ts, tc) \/ ClientFlightSent(p, q, ts, tc)
    \/ ServerDone(p, q, ts, tc)
    \/ Resuming(p, q, ts, tc) \/ Resumed(p, q, ts, tc)
    \/ ResumeRefused(p, q, ts, tc) \/ ServerRefused(p, q, ts, tc)
    \/ ClientRefused(p, q, ts, tc) \/ BothFailed(p, q)

ConnInv == WorldOK /\ CacheOK(cache) /\ Stage(c, s, toServer, toClient)

-----------------------------------------------------------------------------
(* Sequences.                                                              *)

LEMMA SeqAny ==
    /\ IsSeq(<<>>)
    /\ \A x : IsSeq(<<x>>)
    /\ \A t, x : IsSeq(t) => IsSeq(Append(t, x))
    /\ \A t : IsSeq(t) => t \o <<>> = t /\ <<>> \o t = t
    /\ \A t, x : IsSeq(t) => t \o <<x>> = Append(t, x) /\ Append(t, x) # <<>>
  <1>1. IsSeq(<<>>)
    BY EmptySeq DEF IsSeq
  <1>2. ASSUME NEW x PROVE IsSeq(<<x>>)
    <2>1. <<x>> \in Seq({x})
      OBVIOUS
    <2> QED
      BY <2>1 DEF IsSeq
  <1>3. ASSUME NEW t, NEW x, IsSeq(t)
        PROVE /\ IsSeq(Append(t, x)) /\ t \o <<x>> = Append(t, x)
              /\ Append(t, x) # <<>>
              /\ t \o <<>> = t /\ <<>> \o t = t
    <2>1. PICK S : t \in Seq(S)
      BY <1>3 DEF IsSeq
    <2> DEFINE T == S \cup {x}
    <2>2. t \in Seq(T) /\ x \in T /\ <<x>> \in Seq(T)
      BY <2>1, SeqMonotonic, S \subseteq T
    <2> HIDE DEF T
    <2>3. Append(t, x) \in Seq(T) /\ t \o <<x>> = Append(t, x) /\ Append(t, x) # <<>>
      BY <2>2, AppendProperties, AppendIsConcat
    <2>4. t \o <<>> = t /\ <<>> \o t = t
      BY <2>2, ConcatEmptySeq
    <2> QED
      BY <2>3, <2>4 DEF IsSeq
  <1> QED
    BY <1>1, <1>2, <1>3

LEMMA BeforeAny ==
    ASSUME NEW x, NEW t, IsSeq(t)
    PROVE  /\ IsSeq(Before(x, t)) /\ Before(x, t) # <<>>
           /\ Head(Before(x, t)) = x /\ Tail(Before(x, t)) = t
  <1>1. PICK S : t \in Seq(S)
    BY DEF IsSeq
  <1> DEFINE T == S \cup {x}
  <1>2. t \in Seq(T) /\ x \in T /\ <<x>> \in Seq(T)
    BY <1>1, SeqMonotonic, S \subseteq T
  <1> HIDE DEF T
  <1> DEFINE b == <<x>> \o t
  <1>3. /\ b \in Seq(T) /\ Len(b) = 1 + Len(t) /\ b[1] = x
        /\ \A i \in 1 .. Len(t) : b[i + 1] = t[i]
    BY <1>2, ConcatProperties
  <1>4. Len(t) \in Nat /\ t \in [1 .. Len(t) -> T]
    BY <1>2, LenProperties
  <1> HIDE DEF b
  <1>5. b # <<>> /\ Head(b) = x
    BY <1>3, <1>4, EmptySeq, HeadTailProperties
  <1>6. /\ Tail(b) \in Seq(T) /\ Len(Tail(b)) = Len(t)
        /\ \A i \in 1 .. Len(t) : Tail(b)[i] = b[i + 1]
    BY <1>3, <1>4, <1>5, HeadTailProperties
  <1>7. Tail(b) = t
    BY <1>2, <1>3, <1>4, <1>6, SeqEqual
  <1> QED
    BY <1>3, <1>5, <1>7 DEF b, IsSeq, Before

LEMMA AppendBefore ==
    \A t, x, d : (IsSeq(t) /\ IsSeq(d)) => Append(t, x) \o d = t \o Before(x, d)
  <1> SUFFICES ASSUME NEW t, NEW x, NEW d, IsSeq(t), IsSeq(d)
               PROVE  Append(t, x) \o d = t \o Before(x, d)
    OBVIOUS
  <1>1. PICK S : t \in Seq(S)
    BY DEF IsSeq
  <1>2. PICK R : d \in Seq(R)
    BY DEF IsSeq
  <1> DEFINE T == S \cup {x} \cup R
  <1>3. t \in Seq(T) /\ d \in Seq(T) /\ x \in T /\ <<x>> \in Seq(T)
    BY <1>1, <1>2, SeqMonotonic, S \subseteq T, R \subseteq T
  <1> HIDE DEF T
  <1>4. t \o <<x>> = Append(t, x)
    BY <1>3, AppendIsConcat
  <1> QED
    BY <1>3, <1>4, ConcatAssociative DEF Before

-----------------------------------------------------------------------------
(* One end of the connection.                                              *)

\* r is x but for the fields of F.
Keeps(r, x, F) ==
    DOMAIN r = ConnFields /\ \A f \in ConnFields \ F : r[f] = x[f]

LEMMA NewConnFields ==
    ASSUME NEW pc
    PROVE  /\ DOMAIN NewConn(pc) = ConnFields
           /\ NewConn(pc).pc = pc
           /\ NoKeys(NewConn(pc)) /\ Quiet(NewConn(pc))
           /\ ~NewConn(pc).buffering /\ NewConn(pc).resumed = FALSE
           /\ ~NewConn(pc).certReq /\ NewConn(pc).curve = None
           /\ NewConn(pc).peerCerts = "none" /\ NewConn(pc).session = None
           /\ NewConn(pc).offered = None /\ NewConn(pc).sessionState = None
  BY DEF NewConn, ConnFields, NoKeys, Quiet

LEMMA SendFields ==
    ASSUME NEW x, NEW typ, NEW m, DOMAIN x = ConnFields
    PROVE  /\ Keeps(Send(x, typ, m), x, {"sendBuf"})
           /\ Send(x, typ, m).sendBuf =
                Append(x.sendBuf, [typ |-> typ, key |-> x.out, msg |-> m])
  BY DEF Send, Keeps, ConnFields

LEMMA HashedFields ==
    ASSUME NEW x, NEW m, DOMAIN x = ConnFields
    PROVE  /\ Keeps(Hashed(x, m), x, {"transcript"})
           /\ Hashed(x, m).transcript = Append(x.transcript, Digest(m))
  <1> DEFINE d == Digest(m)
  <1> HIDE DEF d
  <1>1. Keeps([x EXCEPT !.transcript = Append(@, d)], x, {"transcript"})
    BY DEF Keeps, ConnFields
  <1>2. [x EXCEPT !.transcript = Append(@, d)].transcript =
          Append(x.transcript, d)
    BY DEF ConnFields
  <1> QED
    BY <1>1, <1>2 DEF d, Hashed

LEMMA SayFields ==
    ASSUME NEW x, NEW m, DOMAIN x = ConnFields
    PROVE  /\ Keeps(Say(x, m), x, {"transcript", "sendBuf"})
           /\ Say(x, m).transcript = Append(x.transcript, Digest(m))
           /\ Say(x, m).sendBuf = Append(x.sendBuf, Rec(x.out, m))
  <1> DEFINE h == Hashed(x, m)
             r == Say(x, m)
  <1>1. /\ Keeps(h, x, {"transcript"})
        /\ h.transcript = Append(x.transcript, Digest(m))
    BY HashedFields
  <1>2. /\ Keeps(r, h, {"sendBuf"})
        /\ r.sendBuf = Append(h.sendBuf, Rec(h.out, m))
    BY <1>1, SendFields DEF Keeps, Say, Rec
  <1> HIDE DEF h, r
  <1>3. h.sendBuf = x.sendBuf /\ h.out = x.out /\ r.transcript = h.transcript
    BY <1>1, <1>2 DEF Keeps, ConnFields
  <1>4. Keeps(r, x, {"transcript", "sendBuf"})
    BY <1>1, <1>2 DEF Keeps
  <1> QED
    BY <1>1, <1>2, <1>3, <1>4 DEF r

\* A message that is due leaves first of what there is to say: r has said m,
\* before rest.
Says(due, r, x, m, rest) ==
    /\ Keeps(r, x, {"transcript", "sendBuf"})
    /\ r.transcript = IF due THEN Append(x.transcript, Digest(m)) ELSE x.transcript
    /\ IsSeq(r.sendBuf)
    /\ r.sendBuf \o rest =
         x.sendBuf \o (IF due THEN Before(Rec(None, m), rest) ELSE rest)

LEMMA SayIfFields ==
    ASSUME NEW due, NEW x, NEW m, NEW rest, DOMAIN x = ConnFields, x.out = None,
           IsSeq(x.sendBuf), IsSeq(rest)
    PROVE  Says(due, SayIf(due, x, m), x, m, rest)
  <1>1. CASE due
    <2> DEFINE r == Say(x, m)
    <2>1. SayIf(due, x, m) = r
      BY <1>1 DEF SayIf
    <2>2. /\ Keeps(r, x, {"transcript", "sendBuf"})
          /\ r.transcript = Append(x.transcript, Digest(m))
          /\ r.sendBuf = Append(x.sendBuf, Rec(x.out, m))
      BY SayFields
    <2> HIDE DEF r
    <2>3. IsSeq(Append(x.sendBuf, Rec(x.out, m)))
      BY SeqAny, Zenon
    <2>4. Append(x.sendBuf, Rec(x.out, m)) \o rest =
            x.sendBuf \o Before(Rec(x.out, m), rest)
      <3> DEFINE b == x.sendBuf
                 f == Rec(x.out, m)
      <3> HIDE DEF b, f
      <3>1. IsSeq(b)
        BY DEF b
      <3>2. Append(b, f) \o rest = b \o Before(f, rest)
        BY <3>1, AppendBefore
      <3> QED
        BY <3>2 DEF b, f
    <2> QED
      BY <1>1, <2>1, <2>2, <2>3, <2>4 DEF Says
  <1>2. CASE ~due
    BY <1>2 DEF SayIf, Keeps, Says
  <1> QED
    BY <1>1, <1>2

LEMMA ReturnFields ==
    ASSUME NEW x, NEW err, DOMAIN x = ConnFields
    PROVE  /\ Keeps(Return(x, err), x, {"pc", "err", "buffering"})
           /\ Return(x, err).pc = "failed" /\ Return(x, err).err = err
           /\ x.sendBuf # <<>> => ~Return(x, err).buffering
  BY DEF Return, Keeps, ConnFields

\* An alert is on its way, after what there was in sendBuf.
LEMMA AlertFields ==
    ASSUME NEW x, NEW a, DOMAIN x = ConnFields, IsSeq(x.sendBuf)
    PROVE  /\ Keeps(Alert(x, a), x, {"pc", "err", "buffering", "sendBuf"})
           /\ Alert(x, a).pc = "failed" /\ Alert(x, a).err = a
           /\ Alert(x, a).sendBuf =
                Append(x.sendBuf, [typ |-> "alert", key |-> x.out,
                                   msg |-> [type |-> a]])
           /\ ~Alert(x, a).buffering
  <1> DEFINE y == Send(x, "alert", [type |-> a])
             r == Return(y, a)
  <1>1. /\ Keeps(y, x, {"sendBuf"})
        /\ y.sendBuf = Append(x.sendBuf, [typ |-> "alert", key |-> x.out,
                                          msg |-> [type |-> a]])
    BY SendFields
  <1>2. y.sendBuf # <<>>
    BY <1>1, SeqAny
  <1> HIDE DEF y
  <1>3. /\ Keeps(r, y, {"pc", "err", "buffering"})
        /\ r.pc = "failed" /\ r.err = a /\ ~r.buffering
    BY <1>1, <1>2, ReturnFields DEF Keeps
  <1>4. r = Alert(x, a)
    BY DEF y, Alert
  <1> HIDE DEF r
  <1>5. r.sendBuf = y.sendBuf
    BY <1>3 DEF Keeps, ConnFields
  <1>6. Keeps(r, x, {"pc", "err", "buffering", "sendBuf"})
    BY <1>1, <1>3 DEF Keeps
  <1> QED
    BY <1>1, <1>3, <1>4, <1>5, <1>6

LEMMA EstablishFields ==
    ASSUME NEW x, NEW me, NEW peer, DOMAIN x = ConnFields
    PROVE  /\ Keeps(establishKeys(x, me, peer), x, {"nextIn", "nextOut"})
           /\ establishKeys(x, me, peer).nextOut = KeyOf(x, x.secret, me)
           /\ establishKeys(x, me, peer).nextIn = KeyOf(x, x.secret, peer)
  <1> DEFINE a == KeyOf(x, x.secret, me)
             b == KeyOf(x, x.secret, peer)
             r == [x EXCEPT !.nextOut = a, !.nextIn = b]
  <1>1. establishKeys(x, me, peer) = r
    BY DEF establishKeys, ConnKey, KeyOf
  <1> HIDE DEF a, b
  <1>2. Keeps(r, x, {"nextIn", "nextOut"}) /\ r.nextOut = a /\ r.nextIn = b
    BY DEF Keeps, ConnFields
  <1> QED
    BY <1>1, <1>2 DEF a, b

\* ChangeCipherSpec goes under the old key, Finished under the new one.
LEMMA SendFinishedFields ==
    ASSUME NEW x, NEW label, DOMAIN x = ConnFields, IsSeq(x.sendBuf),
           x.pc # "failed", x.nextOut # None, x.out = None
    PROVE  LET r == sendFinished(x, label)
               m == FinMsg(label, x.secret, x.transcript)
           IN /\ Keeps(r, x, {"transcript", "sendBuf", "out", "nextOut"})
              /\ r.transcript = Append(x.transcript, Fin)
              /\ IsSeq(r.sendBuf)
              /\ r.sendBuf = x.sendBuf \o Before(CCS, <<Rec(x.nextOut, m)>>)
              /\ r.out = x.nextOut /\ r.pc # "failed"
  <1> DEFINE y == Send(x, "ccs", None)
             w == [y EXCEPT !.out = y.nextOut, !.nextOut = None]
             m == [type |-> "finished", verifyData |-> Sum(w, label)]
             r == Say(w, m)
  <1>1. Keeps(y, x, {"sendBuf"}) /\ y.sendBuf = Append(x.sendBuf, CCS)
    BY SendFields DEF CCS
  <1>2. y.nextOut = x.nextOut /\ y.pc = x.pc
    BY <1>1 DEF Keeps, ConnFields
  <1>3. WriteChangeCipherSpec(x) = w
    BY <1>2 DEF WriteChangeCipherSpec
  <1> HIDE DEF y
  <1>4. /\ Keeps(w, y, {"out", "nextOut"}) /\ w.out = x.nextOut
    BY <1>1, <1>2 DEF Keeps, ConnFields
  <1> HIDE DEF w
  <1>5. /\ w.pc # "failed" /\ w.sendBuf = y.sendBuf
        /\ w.transcript = x.transcript /\ w.secret = x.secret
    BY <1>1, <1>2, <1>4 DEF Keeps, ConnFields
  <1>6. sendFinished(x, label) = r
    BY <1>3, <1>5 DEF sendFinished, Then
  <1>7. m = FinMsg(label, x.secret, x.transcript) /\ Digest(m) = Fin
    BY <1>5 DEF FinMsg, Sum, Digest, Fin
  <1> HIDE DEF m
  <1>8. /\ Keeps(r, w, {"transcript", "sendBuf"})
        /\ r.transcript = Append(w.transcript, Digest(m))
        /\ r.sendBuf = Append(w.sendBuf, Rec(w.out, m))
    BY <1>4, SayFields DEF Keeps
  <1> HIDE DEF r
  <1>9. r.pc # "failed" /\ r.out = x.nextOut
    BY <1>4, <1>5, <1>8 DEF Keeps, ConnFields
  <1>10. /\ IsSeq(r.sendBuf)
         /\ r.sendBuf = x.sendBuf \o Before(CCS, <<Rec(x.nextOut, m)>>)
    <2> DEFINE f == Rec(x.nextOut, m)
    <2>1. r.sendBuf = Append(Append(x.sendBuf, CCS), f)
      BY <1>1, <1>4, <1>5, <1>8
    <2> HIDE DEF f
    <2>2. IsSeq(Append(x.sendBuf, CCS)) /\ IsSeq(<<f>>)
      BY SeqAny
    <2>3. Append(Append(x.sendBuf, CCS), f) = Append(x.sendBuf, CCS) \o <<f>>
      BY <2>2, SeqAny
    <2>4. Append(x.sendBuf, CCS) \o <<f>> = x.sendBuf \o Before(CCS, <<f>>)
      <3> DEFINE b == x.sendBuf
                 d == <<f>>
                 k == CCS
      <3>1. IsSeq(b) /\ IsSeq(d)
        BY <2>2
      <3> HIDE DEF b, d, k
      <3>2. Append(b, k) \o d = b \o Before(k, d)
        BY <3>1, AppendBefore
      <3> QED
        BY <3>2 DEF b, d, k
    <2>5. IsSeq(Append(Append(x.sendBuf, CCS), f))
      BY <2>2, SeqAny, Zenon
    <2> QED
      BY <2>1, <2>3, <2>4, <2>5 DEF f
  <1>11. Keeps(r, x, {"transcript", "sendBuf", "out", "nextOut"})
    BY <1>1, <1>4, <1>8 DEF Keeps
  <1> QED
    BY <1>5, <1>6, <1>7, <1>8, <1>9, <1>10, <1>11

-----------------------------------------------------------------------------
(* Reading a record.                                                       *)

LEMMA OpensMessage ==
    ASSUME NEW x, NEW k, NEW m, x.in = k, x.pc # "failed"
    PROVE  /\ Opened(x, Rec(k, m), FALSE) = x
           /\ Rec(k, m).msg = m
           /\ \A types : m.type \in types => Receive(x, Rec(k, m), types) = x
  <1>1. Opened(x, Rec(k, m), FALSE) = x /\ Rec(k, m).msg = m
    BY DEF Opened, Rec
  <1> QED
    BY <1>1 DEF Receive, Then

LEMMA OpensAlert ==
    ASSUME NEW x, NEW a, x.in = None, DOMAIN x = ConnFields
    PROVE  /\ \A e : Opened(x, AlertRec(a), e) = Return(x, "remote")
           /\ \A types : Receive(x, AlertRec(a), types) = Return(x, "remote")
           /\ ReceiveCCS(x, AlertRec(a)) = Return(x, "remote")
           /\ Return(x, "remote").pc = "failed"
  <1>1. \A e : Opened(x, AlertRec(a), e) = Return(x, "remote")
    BY DEF Opened, AlertRec
  <1>2. Return(x, "remote").pc = "failed"
    BY ReturnFields
  <1> QED
    BY <1>1, <1>2 DEF Receive, ReceiveCCS, Then

LEMMA OpensCCS ==
    ASSUME NEW x, DOMAIN x = ConnFields, x.in = None, x.nextIn # None,
           x.pc # "failed"
    PROVE  LET r == ReceiveCCS(x, CCS)
           IN /\ Keeps(r, x, {"in", "nextIn", "pc"})
              /\ r.in = x.nextIn /\ r.pc = "finished"
  <1> DEFINE r == [x EXCEPT !.in = x.nextIn, !.nextIn = None, !.pc = "finished"]
  <1>1. Opened(x, CCS, TRUE) = x
    BY DEF Opened, CCS
  <1>2. ReceiveCCS(x, CCS) = r
    BY <1>1 DEF ReceiveCCS, Then
  <1>3. /\ Keeps(r, x, {"in", "nextIn", "pc"})
        /\ r.in = x.nextIn /\ r.pc = "finished"
    BY DEF Keeps, ConnFields
  <1> QED
    BY <1>2, <1>3

-----------------------------------------------------------------------------
(* Negotiation.                                                            *)

LEMMA LeastOf ==
    ASSUME NEW T, T \subseteq Nat, T # {}
    PROVE  \E m \in T : \A i \in T : m <= i
  <1>1. PICK m \in T : \A i \in T : ~(<<i, m>> \in OpToRel(<, Nat))
    BY NatLessThanWellFounded, WFMin
  <1>2. \A i \in T : ~(<<i, m>> \in {ss \in Nat \X Nat : ss[1] < ss[2]})
    BY <1>1 DEF OpToRel
  <1>3. \A i \in T : ~(i < m)
    BY <1>2
  <1> QED
    BY <1>3

LEMMA CountedInduction ==
    ASSUME NEW k \in Nat, NEW S, 0 \in S,
           \A i \in 0 .. (k - 1) : i \in S => i + 1 \in S
    PROVE  0 .. k \subseteq S
  <1> DEFINE T == (0 .. k) \ S
  <1> SUFFICES ASSUME T # {} PROVE FALSE
    OBVIOUS
  <1>1. T \subseteq Nat
    OBVIOUS
  <1> HIDE DEF T
  <1>2. PICK m \in T : \A i \in T : m <= i
    BY <1>1, LeastOf
  <1>3. m \in 0 .. k /\ m # 0 /\ m \notin S
    BY DEF T
  <1>4. m - 1 \in 0 .. (k - 1) /\ m - 1 \in 0 .. k /\ (m - 1) + 1 = m
    BY <1>3
  <1>5. m - 1 \in T
    BY <1>3, <1>4 DEF T
  <1> QED
    BY <1>2, <1>3, <1>5

LEMMA FirstInProperties ==
    ASSUME NEW T, None \notin T, NEW seq \in Seq(T), NEW S
    PROVE  LET x == FirstIn(seq, S)
           IN /\ (x = None) => Range(seq) \cap S = {}
              /\ (x # None) =>
                   /\ x \in Range(seq) /\ x \in S /\ x \in T
                   /\ \E i \in 1 .. Len(seq) :
                        /\ x = seq[i]
                        /\ \A j \in 1 .. Len(seq) : seq[j] \in S => i <= j
  <1> DEFINE hits == {i \in DOMAIN seq : seq[i] \in S}
             k == CHOOSE i \in hits : \A j \in hits : i <= j
  <1>1. Len(seq) \in Nat /\ DOMAIN seq = 1 .. Len(seq) /\ seq \in [1 .. Len(seq) -> T]
    BY LenProperties
  <1>2. FirstIn(seq, S) = IF hits = {} THEN None ELSE seq[k]
    BY DEF FirstIn
  <1>3. hits = {} => Range(seq) \cap S = {}
    BY DEF Range
  <1>4. ASSUME hits # {} PROVE k \in hits /\ \A j \in hits : k <= j
    <2>1. hits \subseteq Nat
      BY <1>1
    <2> HIDE DEF hits
    <2>2. \E m \in hits : \A j \in hits : m <= j
      BY <1>4, <2>1, LeastOf
    <2> QED
      BY <2>2
  <1>5. ASSUME hits # {}
        PROVE  /\ k \in 1 .. Len(seq) /\ seq[k] \in S /\ seq[k] \in T
               /\ seq[k] \in Range(seq) /\ seq[k] # None
               /\ \A j \in 1 .. Len(seq) : seq[j] \in S => k <= j
    <2> HIDE DEF k
    <2> QED
      BY <1>1, <1>4, <1>5 DEF Range
  <1> HIDE DEF hits, k
  <1> QED
    BY <1>2, <1>3, <1>5

\* One round of the loop that filters, and its first k rounds.
Round(v, seq, S, i) == IF seq[i] \in S THEN Append(v, seq[i]) ELSE v
IsLoop(f, seq, S, k) ==
    f = [i \in 0 .. k |-> IF i = 0 THEN <<>> ELSE Round(f[i - 1], seq, S, i)]

LEMMA LoopExists ==
    ASSUME NEW seq, NEW S, NEW k \in Nat
    PROVE  \E f : IsLoop(f, seq, S, k)
  <1> DEFINE N == {m \in Nat : \E f : IsLoop(f, seq, S, m)}
  <1>1. 0 \in N
    <2>1. IsLoop([i \in 0 .. 0 |-> <<>>], seq, S, 0)
      BY DEF IsLoop
    <2> QED
      BY <2>1
  <1>2. ASSUME NEW m \in Nat, m \in N PROVE m + 1 \in N
    <2>1. PICK f : IsLoop(f, seq, S, m)
      BY <1>2
    <2>2. /\ DOMAIN f = 0 .. m
          /\ \A i \in 0 .. m :
                f[i] = IF i = 0 THEN <<>> ELSE Round(f[i - 1], seq, S, i)
      BY <2>1 DEF IsLoop
    <2> DEFINE h == [i \in 0 .. (m + 1) |->
                        IF i <= m THEN f[i] ELSE Round(f[m], seq, S, m + 1)]
    <2>3. \A i \in 0 .. (m + 1) :
             h[i] = IF i = 0 THEN <<>> ELSE Round(h[i - 1], seq, S, i)
      <3> TAKE i \in 0 .. (m + 1)
      <3>1. CASE i <= m /\ i # 0
        <4>1. i \in 0 .. m /\ i - 1 \in 0 .. (m + 1) /\ i - 1 <= m
          BY <3>1
        <4>2. h[i] = f[i] /\ h[i - 1] = f[i - 1]
          BY <3>1, <4>1
        <4> HIDE DEF h
        <4> QED
          BY <2>2, <3>1, <4>1, <4>2
      <3>2. CASE i = 0
        BY <2>2, <3>2
      <3>3. CASE ~(i <= m)
        <4>1. i = m + 1 /\ m \in 0 .. (m + 1) /\ (m + 1) - 1 = m /\ m + 1 # 0
          BY <3>3
        <4>2. h[m] = f[m] /\ h[m + 1] = Round(f[m], seq, S, m + 1)
          BY <4>1
        <4> HIDE DEF h
        <4> QED
          BY <4>1, <4>2
      <3> QED
        BY <3>1, <3>2, <3>3
    <2>4. h = [i \in 0 .. (m + 1) |-> h[i]]
      OBVIOUS
    <2>5. IsLoop(h, seq, S, m + 1)
      <3> HIDE DEF h
      <3> QED
        BY <2>3, <2>4 DEF IsLoop
    <2> QED
      BY <2>5
  <1> HIDE DEF N
  <1>3. 0 .. k \subseteq N
    BY <1>1, <1>2, CountedInduction
  <1> QED
    BY <1>3 DEF N

\* What the loop has kept after k rounds.
Selects(v, seq, S, T, k) ==
    /\ v \in Seq(T)
    /\ \A a \in 1 .. Len(v) : v[a] \in S /\ \E j \in 1 .. k : v[a] = seq[j]
    /\ \A j \in 1 .. k : seq[j] \in S => \E a \in 1 .. Len(v) : v[a] = seq[j]
    /\ \A a, b \in 1 .. Len(v) : a < b =>
          \E i, j \in 1 .. k : i < j /\ v[a] = seq[i] /\ v[b] = seq[j]

LEMMA RoundKeeps ==
    ASSUME NEW T, NEW seq \in Seq(T), NEW S, NEW k \in Nat, k < Len(seq),
           NEW v, Selects(v, seq, S, T, k)
    PROVE  Selects(Round(v, seq, S, k + 1), seq, S, T, k + 1)
  <1>1. Len(seq) \in Nat /\ seq \in [1 .. Len(seq) -> T]
    BY LenProperties
  <1>2. v \in Seq(T) /\ Len(v) \in Nat
    BY LenProperties DEF Selects
  <1>3. k + 1 \in 1 .. Len(seq) /\ seq[k + 1] \in T
    BY <1>1
  <1>4. CASE seq[k + 1] \notin S
    <2>1. Round(v, seq, S, k + 1) = v
      BY <1>4 DEF Round
    <2>2. \A j \in 1 .. k + 1 : j \in 1 .. k \/ j = k + 1
      OBVIOUS
    <2>3. \A j \in 1 .. k : j \in 1 .. k + 1
      OBVIOUS
    <2> QED
      BY <1>4, <2>1, <2>2, <2>3 DEF Selects
  <1>5. CASE seq[k + 1] \in S
    <2> DEFINE x == seq[k + 1]
               w == Append(v, x)
    <2>1. /\ w \in Seq(T) /\ Len(w) = Len(v) + 1 /\ w[Len(v) + 1] = x
          /\ \A a \in 1 .. Len(v) : w[a] = v[a]
      BY <1>2, <1>3, AppendProperties
    <2>2. Round(v, seq, S, k + 1) = w
      BY <1>5 DEF Round
    <2> HIDE DEF w
    <2> DEFINE l == Len(v)
    <2>3. /\ l \in Nat /\ Len(w) = l + 1 /\ w[l + 1] = seq[k + 1]
          /\ \A a \in 1 .. l : w[a] = v[a]
      BY <1>2, <2>1
    <2>4. /\ \A a \in 1 .. l : v[a] \in S /\ \E j \in 1 .. k : v[a] = seq[j]
          /\ \A j \in 1 .. k : seq[j] \in S => \E a \in 1 .. l : v[a] = seq[j]
          /\ \A a, b \in 1 .. l : a < b =>
                \E i, j \in 1 .. k : i < j /\ v[a] = seq[i] /\ v[b] = seq[j]
      BY DEF Selects
    <2> HIDE DEF l
    <2>5. \A a \in 1 .. l + 1 :
             w[a] \in S /\ \E j \in 1 .. k + 1 : w[a] = seq[j]
      <3> TAKE a \in 1 .. l + 1
      <3>1. CASE a = l + 1
        <4>1. k + 1 \in 1 .. k + 1
          OBVIOUS
        <4> QED
          BY <1>5, <2>3, <3>1, <4>1
      <3>2. CASE a # l + 1
        <4>1. a \in 1 .. l
          BY <2>3, <3>2
        <4>2. w[a] = v[a] /\ v[a] \in S
          BY <2>3, <2>4, <4>1
        <4>3. PICK j \in 1 .. k : v[a] = seq[j]
          BY <2>4, <4>1
        <4>4. j \in 1 .. k + 1
          OBVIOUS
        <4> QED
          BY <4>2, <4>3, <4>4
      <3> QED
        BY <3>1, <3>2
    <2>6. \A j \in 1 .. k + 1 : seq[j] \in S => \E a \in 1 .. l + 1 : w[a] = seq[j]
      BY <2>3, <2>4
    <2>7. ASSUME NEW a \in 1 .. l + 1, NEW b \in 1 .. l + 1, a < b
          PROVE  \E i, j \in 1 .. k + 1 : i < j /\ w[a] = seq[i] /\ w[b] = seq[j]
      <3>1. CASE b = l + 1
        <4>1. a \in 1 .. l /\ w[a] = v[a] /\ w[b] = seq[k + 1]
          BY <2>3, <2>7, <3>1
        <4>2. PICK j \in 1 .. k : v[a] = seq[j]
          BY <2>4, <4>1
        <4>3. j \in 1 .. k + 1 /\ k + 1 \in 1 .. k + 1 /\ j < k + 1
          OBVIOUS
        <4> QED
          BY <4>1, <4>2, <4>3
      <3>2. CASE b # l + 1
        <4>1. a \in 1 .. l /\ b \in 1 .. l /\ w[a] = v[a] /\ w[b] = v[b]
          BY <2>3, <2>7, <3>2
        <4>2. PICK i \in 1 .. k, j \in 1 .. k :
                 i < j /\ v[a] = seq[i] /\ v[b] = seq[j]
          BY <2>4, <2>7, <4>1
        <4>3. i \in 1 .. k + 1 /\ j \in 1 .. k + 1
          OBVIOUS
        <4> QED
          BY <4>1, <4>2, <4>3
      <3> QED
        BY <3>1, <3>2
    <2>8. \A a, b \in 1 .. Len(w) : a < b =>
             \E i, j \in 1 .. k + 1 : i < j /\ w[a] = seq[i] /\ w[b] = seq[j]
      <3> TAKE a, b \in 1 .. Len(w)
      <3>1. a \in 1 .. l + 1 /\ b \in 1 .. l + 1
        BY <2>3
      <3> QED
        BY <2>7, <3>1
    <2>9. \A a \in 1 .. Len(w) :
             w[a] \in S /\ \E j \in 1 .. k + 1 : w[a] = seq[j]
      BY <2>3, <2>5
    <2>10. \A j \in 1 .. k + 1 :
              seq[j] \in S => \E a \in 1 .. Len(w) : w[a] = seq[j]
      BY <2>3, <2>6
    <2>11. Selects(w, seq, S, T, k + 1)
      BY <2>1, <2>8, <2>9, <2>10 DEF Selects
    <2> QED
      BY <2>2, <2>11
  <1> QED
    BY <1>4, <1>5

LEMMA FilterKeeps ==
    ASSUME NEW T, NEW seq \in Seq(T), NEW S
    PROVE  Selects(Filter(seq, S), seq, S, T, Len(seq))
  <1>1. Len(seq) \in Nat
    BY LenProperties
  <1>2. PICK f : IsLoop(f, seq, S, Len(seq)) /\ Filter(seq, S) = f[Len(seq)]
    <2> DEFINE F == CHOOSE f : f = [i \in 0 .. Len(seq) |->
                       IF i = 0 THEN <<>>
                       ELSE IF seq[i] \in S THEN Append(f[i - 1], seq[i])
                       ELSE f[i - 1]]
    <2>1. Filter(seq, S) = F[Len(seq)]
      BY DEF Filter
    <2>2. \E f : f = [i \in 0 .. Len(seq) |->
                       IF i = 0 THEN <<>>
                       ELSE IF seq[i] \in S THEN Append(f[i - 1], seq[i])
                       ELSE f[i - 1]]
      <3>1. PICK f : IsLoop(f, seq, S, Len(seq))
        BY <1>1, LoopExists
      <3>2. f = [i \in 0 .. Len(seq) |->
                       IF i = 0 THEN <<>>
                       ELSE IF seq[i] \in S THEN Append(f[i - 1], seq[i])
                       ELSE f[i - 1]]
        BY <3>1 DEF IsLoop, Round
      <3> QED
        BY <3>2
    <2>3. F = [i \in 0 .. Len(seq) |->
                       IF i = 0 THEN <<>>
                       ELSE IF seq[i] \in S THEN Append(F[i - 1], seq[i])
                       ELSE F[i - 1]]
      BY <2>2
    <2> HIDE DEF F
    <2>4. IsLoop(F, seq, S, Len(seq))
      BY <2>3 DEF IsLoop, Round
    <2> QED
      BY <2>1, <2>4
  <1>3. \A i \in 0 .. Len(seq) :
           f[i] = IF i = 0 THEN <<>> ELSE Round(f[i - 1], seq, S, i)
    BY <1>2 DEF IsLoop
  <1> DEFINE N == {i \in 0 .. Len(seq) : Selects(f[i], seq, S, T, i)}
  <1>4. 0 \in N
    <2>1. f[0] = <<>>
      BY <1>1, <1>3
    <2>2. Selects(<<>>, seq, S, T, 0)
      BY EmptySeq DEF Selects
    <2> QED
      BY <1>1, <2>1, <2>2
  <1>5. ASSUME NEW i \in 0 .. (Len(seq) - 1), i \in N PROVE i + 1 \in N
    <2>1. i \in Nat /\ i < Len(seq) /\ i + 1 \in 0 .. Len(seq) /\ i + 1 # 0
          /\ (i + 1) - 1 = i
      BY <1>1
    <2>2. f[i + 1] = Round(f[i], seq, S, i + 1)
      BY <1>3, <2>1
    <2>3. Selects(f[i], seq, S, T, i)
      BY <1>5
    <2>4. Selects(Round(f[i], seq, S, i + 1), seq, S, T, i + 1)
      BY <2>1, <2>3, RoundKeeps
    <2> QED
      BY <2>1, <2>2, <2>4
  <1> HIDE DEF N
  <1>6. 0 .. Len(seq) \subseteq N
    BY <1>1, <1>4, <1>5, CountedInduction
  <1>7. Len(seq) \in N
    BY <1>1, <1>6
  <1> QED
    BY <1>2, <1>7 DEF N

LEMMA RangeOf ==
    ASSUME NEW T, NEW seq \in Seq(T)
    PROVE  Range(seq) = {seq[i] : i \in 1 .. Len(seq)}
  <1>1. DOMAIN seq = 1 .. Len(seq)
    BY LenProperties
  <1> QED
    BY <1>1 DEF Range

\* A list of versions, and the best of it at its head.
Allowed(min, max, isClient) ==
    {v \in 10 .. 13 : /\ (min = 0 /\ isClient) => v >= 12
                      /\ v >= min
                      /\ max # 0 => v <= max}

LEMMA VersionList ==
    ASSUME NEW min, NEW max, NEW isClient
    PROVE  LET L == supportedVersions(min, max, isClient)
               V == Allowed(min, max, isClient)
           IN /\ L \in Seq(10 .. 13) /\ L \in Seq(Nat) /\ Range(L) = V
              /\ \A a, b \in 1 .. Len(L) : a <= b => L[a] >= L[b]
              /\ L # <<>> => Head(L) \in V /\ \A v \in V : v <= Head(L)
  <1> DEFINE all == <<13, 12, 11, 10>>
             V == Allowed(min, max, isClient)
             L == Filter(all, V)
  <1>1. supportedVersions(min, max, isClient) = L
    BY DEF supportedVersions, Allowed
  <1>2. /\ all \in Seq(10 .. 13) /\ Len(all) = 4
        /\ \A i, j \in 1 .. 4 : i < j => all[i] > all[j]
        /\ \A v \in 10 .. 13 : \E i \in 1 .. 4 : v = all[i]
    <2>1. all[1] = 13 /\ all[2] = 12 /\ all[3] = 11 /\ all[4] = 10 /\ Len(all) = 4
      OBVIOUS
    <2>2. all \in Seq(10 .. 13)
      OBVIOUS
    <2> HIDE DEF all
    <2>3. \A i \in 1 .. 4 : i = 1 \/ i = 2 \/ i = 3 \/ i = 4
      OBVIOUS
    <2>4. \A i, j \in 1 .. 4 : i < j => all[i] > all[j]
      BY <2>1, <2>3
    <2>5. \A v \in 10 .. 13 : v = 13 \/ v = 12 \/ v = 11 \/ v = 10
      OBVIOUS
    <2>6. \A v \in 10 .. 13 : \E i \in 1 .. 4 : v = all[i]
      BY <2>1, <2>5
    <2> QED
      BY <2>1, <2>2, <2>4, <2>6
  <1> HIDE DEF all
  <1>3. Selects(L, all, V, 10 .. 13, 4)
    BY <1>2, FilterKeeps
  <1>4. V \subseteq 10 .. 13
    BY DEF Allowed
  <1> HIDE DEF L, V
  <1>5. L \in Seq(10 .. 13) /\ L \in Seq(Nat)
    <2>1. L \in Seq(10 .. 13) /\ 10 .. 13 \subseteq Nat
      BY <1>3 DEF Selects
    <2> QED
      BY <2>1, SeqMonotonic
  <1>6. Len(L) \in Nat /\ L \in [1 .. Len(L) -> 10 .. 13]
    BY <1>5, LenProperties
  <1>7. Range(L) = V
    <2>1. Range(L) = {L[i] : i \in 1 .. Len(L)}
      BY <1>5, RangeOf
    <2>2. \A i \in 1 .. Len(L) : L[i] \in V
      BY <1>3 DEF Selects
    <2>3. \A v \in V : \E i \in 1 .. Len(L) : v = L[i]
      BY <1>2, <1>3, <1>4 DEF Selects
    <2> QED
      BY <2>1, <2>2, <2>3
  <1>8. \A a, b \in 1 .. Len(L) : a <= b => L[a] >= L[b]
    <2> TAKE a, b \in 1 .. Len(L)
    <2> HAVE a <= b
    <2>1. L[a] \in 10 .. 13 /\ L[b] \in 10 .. 13
      BY <1>6
    <2>2. CASE a = b
      BY <2>1, <2>2
    <2>3. CASE a # b
      <3>1. a < b
        BY <1>6, <2>3
      <3>2. PICK i \in 1 .. 4, j \in 1 .. 4 :
               i < j /\ L[a] = all[i] /\ L[b] = all[j]
        BY <1>3, <3>1 DEF Selects
      <3>3. all[i] > all[j]
        BY <1>2, <3>2
      <3> QED
        BY <2>1, <3>2, <3>3
    <2> QED
      BY <2>2, <2>3
  <1>9. ASSUME L # <<>> PROVE Head(L) \in V /\ \A v \in V : v <= Head(L)
    <2>1. Len(L) > 0 /\ Head(L) = L[1]
      BY <1>5, <1>6, <1>9, EmptySeq
    <2>2. 1 \in 1 .. Len(L)
      BY <1>6, <2>1
    <2>3. Head(L) \in V
      BY <1>3, <2>1, <2>2 DEF Selects
    <2>4. ASSUME NEW v \in V PROVE v <= Head(L)
      <3>1. PICK i \in 1 .. 4 : v = all[i]
        BY <1>2, <1>4
      <3>2. PICK b \in 1 .. Len(L) : L[b] = all[i]
        BY <1>3, <3>1, <2>4 DEF Selects
      <3>3. 1 <= b
        BY <1>6
      <3>4. L[1] >= L[b]
        BY <1>8, <2>2, <3>3
      <3>5. L[1] \in 10 .. 13 /\ L[b] \in 10 .. 13
        BY <1>6, <2>2
      <3> QED
        BY <2>1, <3>1, <3>2, <3>4, <3>5
    <2> QED
      BY <2>3, <2>4
  <1> QED
    BY <1>1, <1>5, <1>7, <1>8, <1>9 DEF V

ConfOK == conf \in UNION Range(Configs)

\* The version settled on is the best of both ends, and no canary makes the
\* client think otherwise.
LEMMA BestVersion ==
    ASSUME ConfOK
    PROVE  /\ clientVersions # <<>> /\ clientVersions \in Seq(Nat)
           /\ bestVersion = None =>
                Range(clientVersions) \cap Range(serverVersions) = {}
           /\ bestVersion # None =>
                /\ bestVersion \in Nat /\ bestVersion \in Range(clientVersions)
                /\ \A v \in Range(clientVersions) \cap Range(serverVersions) :
                      v <= bestVersion
                /\ ~DowngradeDetected(bestVersion, Head(clientVersions),
                                      Canary(bestVersion, Head(serverVersions)))
           /\ Head(clientVersions) < 12 => 12 \notin Range(clientVersions)
           /\ Range(clientVersions) \subseteq Nat
  <1> DEFINE C == clientVersions
             D == serverVersions
             V == Allowed(conf.clientMin, conf.clientMax, TRUE)
             W == Allowed(conf.serverMin, conf.serverMax, FALSE)
             b == bestVersion
  <1>0. /\ conf.clientMin \in {0, 10, 11, 12} /\ conf.clientMax \in {0, 10, 11, 12}
        /\ conf.serverMin \in {0, 10, 11, 12} /\ conf.serverMax \in {0, 10, 11, 12}
        /\ conf.clientMax # 0 \/ conf.serverMax # 0
        /\ C # <<>>
    BY ConfigAssumption DEF ConfOK, clientVersions
  <1>1. /\ C \in Seq(10 .. 13) /\ C \in Seq(Nat) /\ Range(C) = V
        /\ \A i, j \in 1 .. Len(C) : i <= j => C[i] >= C[j]
        /\ Head(C) \in V /\ \A v \in V : v <= Head(C)
    BY <1>0, VersionList DEF clientVersions
  <1>2. /\ D \in Seq(10 .. 13) /\ Range(D) = W
        /\ D # <<>> => Head(D) \in W /\ \A v \in W : v <= Head(D)
    BY VersionList DEF serverVersions
  <1>3. b = FirstIn(C, Range(D))
    BY DEF bestVersion, mutualVersion
  <1>4. None \notin Nat
    BY NoneAssumption
  <1> HIDE DEF C, D, b
  <1>5. b = None => Range(C) \cap Range(D) = {}
    BY <1>1, <1>3, <1>4, FirstInProperties
  <1>6. ASSUME b # None
        PROVE  /\ b \in V /\ b \in W /\ b \in 10 .. 13
               /\ \A v \in V \cap W : v <= b
    <2>1. PICK i \in 1 .. Len(C) : /\ b = C[i]
                                   /\ \A j \in 1 .. Len(C) :
                                         C[j] \in Range(D) => i <= j
      BY <1>1, <1>3, <1>4, <1>6, FirstInProperties
    <2>2. b \in Range(C) /\ b \in Range(D)
      BY <1>1, <1>3, <1>4, <1>6, FirstInProperties
    <2>3. V \subseteq 10 .. 13
      BY DEF Allowed
    <2>4. ASSUME NEW v \in V \cap W PROVE v <= b
      <3>1. PICK j \in 1 .. Len(C) : v = C[j]
        BY <1>1, <2>4, RangeOf
      <3>2. i <= j
        BY <1>2, <2>1, <2>4, <3>1
      <3>3. C[i] >= C[j]
        BY <1>1, <3>2
      <3>4. v \in 10 .. 13 /\ b \in 10 .. 13
        BY <1>1, <2>2, <2>3, <2>4
      <3> QED
        BY <2>1, <3>1, <3>3, <3>4
    <2> QED
      BY <1>1, <1>2, <2>2, <2>3, <2>4
  <1>7. ASSUME b # None
        PROVE  ~DowngradeDetected(b, Head(C), Canary(b, Head(D)))
    <2>1. D # <<>>
      <3>1. b \in Range(D)
        BY <1>2, <1>6, <1>7
      <3> QED
        BY <3>1 DEF Range
    <2> DEFINE h == Head(C)
               g == Head(D)
    <2>2. /\ h \in V /\ \A v \in V : v <= h
          /\ g \in W /\ \A v \in W : v <= g
          /\ b \in V /\ b \in W /\ \A v \in V \cap W : v <= b
      BY <1>1, <1>2, <1>6, <1>7, <2>1
    <2> HIDE DEF h, g
    <2>3. h \in 10 .. 13 /\ g \in 10 .. 13 /\ b \in 10 .. 13
      BY <2>2 DEF Allowed
    <2>4. (h \in {12, 13} /\ g \in {12, 13}) => b = 12
      <3>1. (h \in {12, 13} /\ g \in {12, 13}) => 12 \in V /\ 12 \in W
        BY <1>0, <2>2 DEF Allowed
      <3>2. b # 13
        BY <1>0, <2>2 DEF Allowed
      <3>3. (12 \in V /\ 12 \in W) => 12 \in V \cap W
        OBVIOUS
      <3>4. (12 \in V /\ 12 \in W) => 12 <= b
        BY <2>2, <3>3
      <3> HIDE DEF V, W
      <3>5. (12 \in V /\ 12 \in W) => b = 12
        BY <2>3, <3>2, <3>4
      <3> QED
        BY <3>1, <3>5
    <2>5. g = 13 => h # 13
      BY <1>0, <2>2 DEF Allowed
    <2>6. Canary(b, g) # None => g \in {12, 13} /\ b < g
      BY <2>3 DEF Canary
    <2>7. Canary(b, g) = "tls11" => g \in {12, 13} /\ b < g /\ b # 12
      <3>1. "tls11" # None
        BY NoneAssumption
      <3> QED
        BY <2>3, <2>6, <3>1 DEF Canary
    <2> QED
      BY <2>3, <2>4, <2>5, <2>6, <2>7 DEF DowngradeDetected, h, g
  <1>8. Head(C) < 12 => 12 \notin Range(C)
    <2>1. Head(C) \in 10 .. 13 /\ \A v \in V : v <= Head(C)
      BY <1>1 DEF Allowed
    <2>2. 12 \in V => 12 <= Head(C)
      BY <2>1
    <2>3. Range(C) = V
      BY <1>1
    <2> HIDE DEF V
    <2> DEFINE h == Head(C)
    <2> HIDE DEF h
    <2>4. h < 12 => ~(12 <= h)
      BY <2>1 DEF h
    <2> QED
      BY <2>2, <2>3, <2>4 DEF h
  <1>9. Range(C) \subseteq Nat
    BY <1>1 DEF Allowed
  <1> QED
    BY <1>0, <1>1, <1>2, <1>5, <1>6, <1>7, <1>8, <1>9 DEF C, D, b

LEMMA OneVersion ==
    ASSUME NEW v, NEW L, v \in Range(L)
    PROVE  mutualVersion(L, <<v>>) = v
  <1> DEFINE hits == {i \in DOMAIN <<v>> : <<v>>[i] \in Range(L)}
  <1>1. hits = {1}
    OBVIOUS
  <1>2. (CHOOSE i \in hits : \A j \in hits : i <= j) = 1
    BY <1>1
  <1> QED
    BY <1>1, <1>2 DEF mutualVersion, FirstIn

LEMMA PreferenceOrder ==
    ASSUME NEW aes
    PROVE  /\ cipherSuitesPreferenceOrder(aes) \in Seq(Suites)
           /\ Range(cipherSuitesPreferenceOrder(aes)) = Suites
  <1> DEFINE a == <<"ECDHE_ECDSA_GCM", "ECDHE_RSA_GCM", "ECDHE_RSA_CHACHA",
                    "ECDHE_RSA_CBC", "RSA_CBC">>
             b == <<"ECDHE_RSA_CHACHA", "ECDHE_ECDSA_GCM", "ECDHE_RSA_GCM",
                    "ECDHE_RSA_CBC", "RSA_CBC">>
  <1>1. cipherSuitesPreferenceOrder(aes) = a \/ cipherSuitesPreferenceOrder(aes) = b
    BY DEF cipherSuitesPreferenceOrder
  <1>2. a \in Seq(Suites) /\ b \in Seq(Suites)
    BY DEF Suites
  <1>3. Range(a) = Suites
    <2>1. DOMAIN a = 1 .. 5
      OBVIOUS
    <2>2. /\ a[1] = "ECDHE_ECDSA_GCM" /\ a[2] = "ECDHE_RSA_GCM"
          /\ a[3] = "ECDHE_RSA_CHACHA" /\ a[4] = "ECDHE_RSA_CBC"
          /\ a[5] = "RSA_CBC"
      OBVIOUS
    <2> HIDE DEF a
    <2>3. \A i \in 1 .. 5 : i = 1 \/ i = 2 \/ i = 3 \/ i = 4 \/ i = 5
      OBVIOUS
    <2> QED
      BY <2>1, <2>2, <2>3 DEF Range, Suites
  <1>4. Range(b) = Suites
    <2>1. DOMAIN b = 1 .. 5
      OBVIOUS
    <2>2. /\ b[1] = "ECDHE_RSA_CHACHA" /\ b[2] = "ECDHE_ECDSA_GCM"
          /\ b[3] = "ECDHE_RSA_GCM" /\ b[4] = "ECDHE_RSA_CBC"
          /\ b[5] = "RSA_CBC"
      OBVIOUS
    <2> HIDE DEF b
    <2>3. \A i \in 1 .. 5 : i = 1 \/ i = 2 \/ i = 3 \/ i = 4 \/ i = 5
      OBVIOUS
    <2> QED
      BY <2>1, <2>2, <2>3 DEF Range, Suites
  <1> HIDE DEF a, b
  <1> QED
    BY <1>1, <1>2, <1>3, <1>4

LEMMA SuitesOffered ==
    ASSUME ConfOK
    PROVE  /\ Range(offeredSuites) \subseteq Suites
           /\ Range(offeredSuites) =
                {x \in conf.clientSuites :
                    Head(clientVersions) < 12 => ~TLS12Only(x)}
  <1> DEFINE order == cipherSuitesPreferenceOrder(conf.clientAES)
             S == {x \in conf.clientSuites :
                     Head(clientVersions) < 12 => ~TLS12Only(x)}
             L == Filter(order, S)
  <1>1. offeredSuites = L
    BY DEF offeredSuites, OfferedSuites
  <1>2. order \in Seq(Suites) /\ Range(order) = Suites
    BY PreferenceOrder
  <1>3. S \subseteq Suites
    BY ConfigAssumption DEF ConfOK
  <1> HIDE DEF order, S
  <1>4. Selects(L, order, S, Suites, Len(order))
    BY <1>2, FilterKeeps
  <1> HIDE DEF L
  <1>5. L \in Seq(Suites)
    BY <1>4 DEF Selects
  <1>6. Range(L) = {L[i] : i \in 1 .. Len(L)}
    BY <1>5, RangeOf
  <1>7. Suites = {order[i] : i \in 1 .. Len(order)}
    BY <1>2, RangeOf
  <1>8. Range(L) = S
    <2>1. \A i \in 1 .. Len(L) : L[i] \in S
      BY <1>4 DEF Selects
    <2>2. \A x \in S : \E i \in 1 .. Len(L) : x = L[i]
      <3> TAKE x \in S
      <3>1. PICK i \in 1 .. Len(order) : x = order[i]
        BY <1>3, <1>7
      <3> QED
        BY <1>4, <3>1 DEF Selects
    <2> QED
      BY <1>6, <2>1, <2>2
  <1> QED
    BY <1>1, <1>3, <1>8 DEF S

Chooses(v) ==
    selectCipherSuite(conf.serverSuites, conf.serverAES, offeredSuites, conf.key,
                      curvesMeet, v)

LEMMA SuiteChosen ==
    ASSUME ConfOK, NEW v
    PROVE  /\ Chooses(v) # None =>
                /\ Chooses(v) \in Range(offeredSuites)
                /\ cipherSuiteOk(Chooses(v), conf.key, curvesMeet, v)
           /\ Chooses(v) = None =>
                \A x \in conf.serverSuites \cap Range(offeredSuites) :
                   ~cipherSuiteOk(x, conf.key, curvesMeet, v)
  <1> DEFINE aes == conf.serverAES /\ aesgcmPreferred(offeredSuites)
             order == cipherSuitesPreferenceOrder(aes)
             S == {x \in conf.serverSuites \cap Range(offeredSuites) :
                      cipherSuiteOk(x, conf.key, curvesMeet, v)}
  <1>1. Chooses(v) = FirstIn(order, S)
    BY DEF Chooses, selectCipherSuite
  <1>2. order \in Seq(Suites) /\ Range(order) = Suites
    BY PreferenceOrder
  <1>3. None \notin Suites
    BY NoneAssumption
  <1>4. Range(offeredSuites) \subseteq Suites
    BY SuitesOffered
  <1> HIDE DEF order
  <1>5. /\ Chooses(v) # None => Chooses(v) \in S
        /\ Chooses(v) = None => Suites \cap S = {}
    <2> HIDE DEF S
    <2> QED
      BY <1>1, <1>2, <1>3, FirstInProperties
  <1>6. Chooses(v) = None => S = {}
    BY <1>4, <1>5
  <1> HIDE DEF Chooses
  <1> QED
    BY <1>5, <1>6

LEMMA CurveSettled ==
    ASSUME ConfOK
    PROVE  /\ MutualCurve(conf.clientCurves, conf.serverCurves)
                \in STRING \cup {None}
           /\ ~curvesMeet =>
                Range(conf.clientCurves) \cap Range(conf.serverCurves) = {}
           /\ curvesMeet =>
                MutualCurve(conf.clientCurves, conf.serverCurves) # None
  <1>1. conf.clientCurves \in Seq(STRING) /\ None \notin STRING
    BY ConfigAssumption, NoneAssumption DEF ConfOK
  <1> DEFINE L == conf.clientCurves
             S == Range(conf.serverCurves)
  <1> HIDE DEF L, S
  <1>2. L \in Seq(STRING)
    BY <1>1 DEF L
  <1>3. /\ FirstIn(L, S) # None => FirstIn(L, S) \in STRING
        /\ FirstIn(L, S) = None => Range(L) \cap S = {}
    BY <1>1, <1>2, FirstInProperties
  <1> QED
    BY <1>3 DEF L, S, MutualCurve, curvesMeet, supportsECDHE

LEMMA ProtoSettled ==
    ASSUME ConfOK
    PROVE  /\ checkALPN(conf.clientProtos, bestProto)
           /\ bestProto = None =>
                Range(conf.clientProtos) \cap Range(conf.serverProtos) = {}
  <1>1. conf.serverProtos \in Seq(STRING) /\ None \notin STRING
    BY ConfigAssumption, NoneAssumption DEF ConfOK
  <1> DEFINE L == conf.serverProtos
             S == Range(conf.clientProtos)
  <1> HIDE DEF L, S
  <1>2. L \in Seq(STRING)
    BY <1>1 DEF L
  <1>3. /\ FirstIn(L, S) # None => FirstIn(L, S) \in S
        /\ FirstIn(L, S) = None => Range(L) \cap S = {}
    BY <1>1, <1>2, FirstInProperties
  <1> QED
    BY <1>3 DEF L, S, bestProto, negotiateALPN, checkALPN

\* A server that finds no suite has a reason.
LEMMA NoSuiteCause ==
    ASSUME ConfOK, bestVersion # None, Chooses(bestVersion) = None,
           conf.key # "none"
    PROVE  \A x \in conf.clientSuites \cap conf.serverSuites :
               \/ ECDHE(x)
                    /\ Range(conf.clientCurves)
                         \cap Range(conf.serverCurves) = {}
               \/ (conf.key = "ecdsa") # ECSign(x)
               \/ TLS12Only(x)
                    /\ 12 \notin Range(clientVersions)
                                   \cap Range(serverVersions)
  <1> TAKE x \in conf.clientSuites \cap conf.serverSuites
  <1> DEFINE both == Range(clientVersions) \cap Range(serverVersions)
             b == bestVersion
  <1>1. conf.key \in {"rsa", "ecdsa"}
    BY ConfigAssumption DEF ConfOK
  <1>2. /\ b \in Nat /\ \A v \in both : v <= b
        /\ Head(clientVersions) < 12 => 12 \notin both
    BY BestVersion
  <1>3. b < 12 => 12 \notin both
    <2> HIDE DEF both, b
    <2>1. 12 \in both => 12 <= b
      BY <1>2
    <2> QED
      BY <1>2, <2>1
  <1>4. CASE x \notin Range(offeredSuites)
    <2>1. Head(clientVersions) < 12 /\ TLS12Only(x)
      BY <1>4, SuitesOffered
    <2> QED
      BY <1>2, <2>1
  <1>5. CASE x \in Range(offeredSuites)
    <2>1. ~cipherSuiteOk(x, conf.key, curvesMeet, b)
      BY <1>5, SuiteChosen
    <2>2. ~curvesMeet =>
            Range(conf.clientCurves) \cap Range(conf.serverCurves) = {}
      BY CurveSettled
    <2> HIDE DEF b, both
    <2>3. CASE b < 12 /\ TLS12Only(x)
      BY <1>3, <2>3 DEF both
    <2>4. CASE ~(b < 12 /\ TLS12Only(x))
      <3>1. CASE ECDHE(x)
        BY <1>1, <2>1, <2>2, <2>4, <3>1 DEF cipherSuiteOk, ECSign
      <3>2. CASE ~ECDHE(x)
        BY <1>1, <2>1, <2>4, <3>2 DEF cipherSuiteOk, ECSign, ECDHE
      <3> QED
        BY <3>1, <3>2
    <2> QED
      BY <2>3, <2>4
  <1> QED
    BY <1>4, <1>5

-----------------------------------------------------------------------------
(* The session cache.                                                      *)

LEMMA CacheJoin ==
    ASSUME NEW a, NEW b, CacheOK(a), CacheOK(b)
    PROVE  CacheOK(a \o b)
  <1>1. PICK S : a \in Seq(S)
    BY DEF CacheOK, IsSeq
  <1>2. PICK R : b \in Seq(R)
    BY DEF CacheOK, IsSeq
  <1> DEFINE T == S \cup R
  <1>3. a \in Seq(T) /\ b \in Seq(T)
    BY <1>1, <1>2, SeqMonotonic, S \subseteq T, R \subseteq T
  <1> HIDE DEF T
  <1> DEFINE ab == a \o b
             k == Len(a)
             l == Len(b)
  <1>4. /\ ab \in Seq(T) /\ Len(ab) = k + l
        /\ \A i \in 1 .. k + l : ab[i] = IF i <= k THEN a[i] ELSE b[i - k]
    BY <1>3, ConcatProperties
  <1>5. /\ k \in Nat /\ l \in Nat /\ DOMAIN a = 1 .. k /\ DOMAIN b = 1 .. l
        /\ DOMAIN ab = 1 .. k + l
    BY <1>3, <1>4, LenProperties
  <1>6. /\ \A i \in 1 .. k : EntryOK(a[i])
        /\ \A i \in 1 .. l : EntryOK(b[i])
    BY <1>5 DEF CacheOK
  <1> HIDE DEF ab, k, l
  <1>7. ASSUME NEW i \in 1 .. k + l PROVE EntryOK(ab[i])
    <2>1. CASE i <= k
      <3>1. i \in 1 .. k
        BY <1>5, <2>1
      <3> QED
        BY <1>4, <1>6, <2>1, <3>1
    <2>2. CASE ~(i <= k)
      <3>1. i - k \in 1 .. l
        BY <1>5, <2>2
      <3>2. ab[i] = b[i - k]
        BY <1>4, <2>2
      <3> QED
        BY <1>6, <3>1, <3>2
    <2> QED
      BY <2>1, <2>2
  <1> QED
    BY <1>4, <1>5, <1>7 DEF CacheOK, IsSeq, ab

LEMMA CachePart ==
    ASSUME NEW q, CacheOK(q), NEW m \in Nat, m > 0, NEW k \in Int, k <= Len(q)
    PROVE  CacheOK(SubSeq(q, m, k))
  <1>1. PICK S : q \in Seq(S)
    BY DEF CacheOK, IsSeq
  <1>2. Len(q) \in Nat /\ DOMAIN q = 1 .. Len(q) /\ q \in [1 .. Len(q) -> S]
    BY <1>1, LenProperties
  <1>3. \A i \in m .. k : i \in 1 .. Len(q) /\ q[i] \in S
    BY <1>2
  <1> DEFINE r == SubSeq(q, m, k)
  <1>4. /\ r \in Seq(S) /\ Len(r) = IF m <= k THEN k - m + 1 ELSE 0
        /\ \A i \in 1 .. k - m + 1 : r[i] = q[m + i - 1]
    BY <1>3, SubSeqProperties
  <1>5. DOMAIN r = 1 .. Len(r)
    BY <1>4, LenProperties
  <1> HIDE DEF r
  <1>6. ASSUME NEW i \in DOMAIN r PROVE EntryOK(r[i])
    <2>1. i \in 1 .. k - m + 1 /\ m + i - 1 \in m .. k
      BY <1>4, <1>5
    <2>2. r[i] = q[m + i - 1] /\ m + i - 1 \in DOMAIN q
      BY <1>2, <1>3, <1>4, <2>1
    <2> QED
      BY <2>2 DEF CacheOK
  <1> QED
    BY <1>4, <1>6 DEF CacheOK, IsSeq, r

LEMMA CacheEntry ==
    ASSUME NEW name, NEW x, x # None => SessionOK(x, name)
    PROVE  CacheOK(<<Cache!Entry(name, x)>>)
  <1> DEFINE e == Cache!Entry(name, x)
  <1>1. EntryOK(e)
    BY DEF Cache!Entry, EntryOK
  <1> HIDE DEF e
  <1>2. DOMAIN <<e>> = {1} /\ <<e>>[1] = e
    OBVIOUS
  <1> QED
    BY <1>1, <1>2, SeqAny DEF CacheOK, e

LEMMA CacheWithout ==
    ASSUME NEW q, NEW name, CacheOK(q), Cache!Cached(q, name)
    PROVE  /\ CacheOK(Cache!Without(q, name))
           /\ q[Cache!Place(q, name)].name = name
           /\ Cache!Place(q, name) \in DOMAIN q
  <1> DEFINE k == Cache!Place(q, name)
  <1>1. k \in DOMAIN q /\ q[k].name = name
    BY DEF Cache!Cached, Cache!Place
  <1>2. DOMAIN q = 1 .. Len(q) /\ Len(q) \in Nat
    BY LenProperties DEF CacheOK, IsSeq
  <1> HIDE DEF k
  <1>3. CacheOK(SubSeq(q, 1, k - 1)) /\ CacheOK(SubSeq(q, k + 1, Len(q)))
    BY <1>1, <1>2, CachePart
  <1> QED
    BY <1>1, <1>3, CacheJoin DEF Cache!Without, k

\* A session found in the cache was made with the server of that name.
LEMMA CacheState ==
    ASSUME NEW q, NEW name, CacheOK(q), Cache!State(q, name) # None
    PROVE  SessionOK(Cache!State(q, name), name)
  <1>1. Cache!Cached(q, name)
    BY DEF Cache!State
  <1> QED
    BY <1>1, CacheWithout DEF Cache!State, CacheOK, EntryOK

LEMMA CachePut ==
    ASSUME NEW q, NEW name, NEW x, CacheOK(q), x # None => SessionOK(x, name)
    PROVE  CacheOK(Cache!Put(q, name, x))
  <1>1. CacheOK(<<Cache!Entry(name, x)>>)
    BY CacheEntry
  <1>2. CASE Cache!Cached(q, name)
    <2>1. CacheOK(Cache!Without(q, name))
      BY <1>2, CacheWithout
    <2>2. CacheOK(<<Cache!Entry(name, x)>> \o Cache!Without(q, name))
      BY <1>1, <2>1, CacheJoin
    <2> QED
      BY <1>2, <2>1, <2>2 DEF Cache!Put
  <1>3. CASE ~Cache!Cached(q, name)
    <2>1. Len(q) \in Nat
      BY LenProperties DEF CacheOK, IsSeq
    <2>2. CacheOK(SubSeq(q, 1, Len(q) - 1))
      BY <2>1, CachePart
    <2> DEFINE rest == IF Len(q) < Capacity THEN q ELSE SubSeq(q, 1, Len(q) - 1)
    <2>3. CacheOK(rest)
      BY <2>2
    <2> HIDE DEF rest
    <2>4. CacheOK(<<Cache!Entry(name, x)>> \o rest)
      BY <1>1, <2>3, CacheJoin
    <2> QED
      BY <1>3, <2>4 DEF Cache!Put, rest
  <1> QED
    BY <1>2, <1>3

LEMMA CacheGet ==
    ASSUME NEW q, NEW name, CacheOK(q)
    PROVE  CacheOK(Cache!Get(q, name))
  <1> DEFINE x == Cache!State(q, name)
  <1>1. x # None => SessionOK(x, name)
    BY CacheState
  <1> HIDE DEF x
  <1>2. CacheOK(<<Cache!Entry(name, x)>>)
    BY <1>1, CacheEntry
  <1>3. CASE Cache!Cached(q, name)
    <2>1. CacheOK(Cache!Without(q, name))
      BY <1>3, CacheWithout
    <2>2. CacheOK(<<Cache!Entry(name, x)>> \o Cache!Without(q, name))
      BY <1>2, <2>1, CacheJoin
    <2> QED
      BY <1>3, <2>2 DEF Cache!Get, x
  <1>4. CASE ~Cache!Cached(q, name)
    BY <1>4 DEF Cache!Get
  <1> QED
    BY <1>3, <1>4

\* The caches that the hello and the end of a handshake leave.
LEMMA CacheLoaded ==
    ASSUME CacheOK(cache), NEW x
    PROVE  CacheOK(CacheAfterLoad(x))
  <1>1. CacheOK(Cache!Get(cache, conf.name))
    BY CacheGet
  <1>2. CacheOK(Cache!Put(Cache!Get(cache, conf.name), conf.name, None))
    BY <1>1, CachePut
  <1> QED
    BY <1>1, <1>2 DEF CacheAfterLoad

LEMMA CacheLeft ==
    ASSUME CacheOK(cache), NEW x,
           x.session # None => SessionOK(x.session, conf.name)
    PROVE  CacheOK(CacheAfter(x))
  <1>1. CacheOK(Cache!Put(cache, conf.name, None))
    BY CachePut
  <1>2. CacheOK(Cache!Put(cache, conf.name, x.session))
    BY CachePut
  <1> DEFINE A == x.pc = "failed" /\ x.offered # None
             B == /\ x.pc = "done" /\ conf.caching
                  /\ x.session \notin {None, x.offered}
  <1>3. CacheAfter(x) = Cache!Put(cache, conf.name, None)
        \/ CacheAfter(x) = Cache!Put(cache, conf.name, x.session)
        \/ CacheAfter(x) = cache
    <2>1. CASE A
      BY <2>1 DEF CacheAfter
    <2>2. CASE B
      BY <2>2 DEF CacheAfter
    <2>3. CASE ~A /\ ~B
      BY <2>3 DEF CacheAfter
    <2> QED
      BY <2>1, <2>2, <2>3
  <1> QED
    BY <1>1, <1>2, <1>3

-----------------------------------------------------------------------------
(* A step within a connection leaves the world as it is.                   *)

StillWorld ==
    /\ UNCHANGED <<conf, n, clock, keys>> /\ made \subseteq made'
    /\ clock \in Nat

LEMMA TicketStays ==
    ASSUME NEW x, NEW name, TicketOK(x, name), made \subseteq made',
           clock \in Nat, clock' \in Nat, clock <= clock'
    PROVE  TicketOK(x, name)'
  BY DEF TicketOK

LEMMA SessionStays ==
    ASSUME NEW x, NEW name, SessionOK(x, name), made \subseteq made',
           clock \in Nat, clock' \in Nat, clock <= clock'
    PROVE  SessionOK(x, name)'
  BY TicketStays DEF SessionOK

LEMMA StillSettings ==
    ASSUME StillWorld
    PROVE  /\ conf' = conf /\ n' = n /\ clock' = clock /\ keys' = keys
           /\ clientVersions' = clientVersions /\ serverVersions' = serverVersions
           /\ offeredSuites' = offeredSuites /\ bestVersion' = bestVersion
           /\ bestProto' = bestProto /\ Chain' = Chain
           /\ Rest5' = Rest5 /\ Rest4' = Rest4
           /\ \A q : Master(q)' = Master(q)
           /\ \A q, x, w : KeyOf(q, x, w)' = KeyOf(q, x, w)
           /\ \A q : TicketFor(q)' = TicketFor(q)
           /\ \A x, L : makeClientHello(x, L)' = makeClientHello(x, L)
           /\ \A x : Refused(x)' <=> Refused(x)
           /\ \A x, name : TicketOK(x, name) => TicketOK(x, name)'
           /\ \A x, name : SessionOK(x, name) => SessionOK(x, name)'
  <1>1. conf' = conf /\ n' = n /\ clock' = clock /\ keys' = keys
    BY DEF StillWorld
  <1>2. clientVersions' = clientVersions /\ serverVersions' = serverVersions
    BY <1>1 DEF clientVersions, serverVersions
  <1>3. /\ offeredSuites' = offeredSuites /\ bestVersion' = bestVersion
        /\ bestProto' = bestProto /\ Chain' = Chain
    BY <1>1, <1>2 DEF offeredSuites, bestVersion, bestProto, Chain
  <1>4. Rest5' = Rest5 /\ Rest4' = Rest4
    BY <1>1 DEF Rest5, Rest4, RequestMsg, DoneMsg
  <1>5. /\ \A q : Master(q)' = Master(q)
        /\ \A q, x, w : KeyOf(q, x, w)' = KeyOf(q, x, w)
        /\ \A q : TicketFor(q)' = TicketFor(q)
    BY <1>1 DEF Master, masterSecret, KeyOf, TicketFor
  <1>6. \A x, L : makeClientHello(x, L)' = makeClientHello(x, L)
    BY <1>1, <1>2 DEF makeClientHello
  <1>7. \A x : Refused(x)' <=> Refused(x)
    BY <1>1 DEF Refused
  <1>8. /\ \A x, name : TicketOK(x, name) => TicketOK(x, name)'
        /\ \A x, name : SessionOK(x, name) => SessionOK(x, name)'
    BY <1>1, TicketStays, SessionStays DEF StillWorld
  <1> QED
    BY <1>1, <1>2, <1>3, <1>4, <1>5, <1>6, <1>7, <1>8

LEMMA StillHashes ==
    ASSUME StillWorld, NEW q
    PROVE  /\ Hash1(q)' = Hash1(q) /\ Hash2(q)' = Hash2(q)
           /\ Hash3(q)' = Hash3(q) /\ Hash4(q)' = Hash4(q)
           /\ Hash5(q)' = Hash5(q) /\ Hash6(q)' = Hash6(q)
           /\ Hash7(q)' = Hash7(q) /\ Hash8(q)' = Hash8(q)
           /\ Hash9(q)' = Hash9(q) /\ HashF(q)' = HashF(q)
  <1>0. conf' = conf /\ n' = n /\ Chain' = Chain
    BY StillSettings
  <1>1. Hash1(q)' = Hash1(q)
    BY DEF Hash1
  <1>2. Hash2(q)' = Hash2(q)
    BY <1>0, <1>1 DEF Hash2, CertMsg
  <1>3. Hash3(q)' = Hash3(q)
    BY <1>0, <1>2 DEF Hash3, StatusMsg
  <1>4. Hash4(q)' = Hash4(q)
    BY <1>0, <1>3 DEF Hash4, SKEMsg
  <1>5. Hash5(q)' = Hash5(q)
    BY <1>0, <1>4 DEF Hash5, RequestMsg
  <1>6. Hash6(q)' = Hash6(q)
    BY <1>5 DEF Hash6, DoneMsg
  <1>7. Hash7(q)' = Hash7(q)
    BY <1>0, <1>6 DEF Hash7, ChainMsg
  <1>8. Hash8(q)' = Hash8(q)
    BY <1>7 DEF Hash8, CKEMsg
  <1>9. Hash9(q)' = Hash9(q)
    BY <1>0, <1>8 DEF Hash9
  <1>10. HashF(q)' = HashF(q)
    BY <1>9 DEF HashF, Fin
  <1> QED
    BY <1>1, <1>2, <1>3, <1>4, <1>5, <1>6, <1>7, <1>8, <1>9, <1>10

LEMMA StillFlights ==
    ASSUME StillWorld, NEW q
    PROVE  /\ Rest3(q)' = Rest3(q) /\ Rest2(q)' = Rest2(q)
           /\ Rest1(q)' = Rest1(q) /\ Rest0(q)' = Rest0(q)
           /\ Sent5(q)' = Sent5(q) /\ Sent4(q)' = Sent4(q)
           /\ Sent3(q)' = Sent3(q) /\ Sent2(q)' = Sent2(q)
           /\ Sent1(q)' = Sent1(q)
           /\ \A h : /\ WithTicket(q, h)' = WithTicket(q, h)
                     /\ End1(q, h)' = End1(q, h) /\ End2(q, h)' = End2(q, h)
                     /\ End3(q, h)' = End3(q, h)
           /\ Back2(q)' = Back2(q) /\ Back1(q)' = Back1(q)
  <1>0. /\ conf' = conf /\ n' = n /\ Chain' = Chain /\ Rest4' = Rest4
        /\ Master(q)' = Master(q) /\ TicketFor(q)' = TicketFor(q)
        /\ \A x, w : KeyOf(q, x, w)' = KeyOf(q, x, w)
        /\ Hash1(q)' = Hash1(q) /\ Hash8(q)' = Hash8(q) /\ Hash9(q)' = Hash9(q)
    BY StillSettings, StillHashes
  <1>1. Rest3(q)' = Rest3(q)
    BY <1>0 DEF Rest3, SKEMsg
  <1>2. Rest2(q)' = Rest2(q)
    BY <1>0, <1>1 DEF Rest2, StatusMsg
  <1>3. Rest1(q)' = Rest1(q)
    BY <1>0, <1>2 DEF Rest1, CertMsg
  <1>4. Rest0(q)' = Rest0(q)
    BY <1>3 DEF Rest0
  <1>5. Sent5(q)' = Sent5(q)
    BY <1>0 DEF Sent5
  <1>6. Sent4(q)' = Sent4(q)
    BY <1>5 DEF Sent4, CCS
  <1>7. Sent3(q)' = Sent3(q)
    BY <1>0, <1>6 DEF Sent3, VerifyMsg
  <1>8. Sent2(q)' = Sent2(q)
    BY <1>7 DEF Sent2, CKEMsg
  <1>9. Sent1(q)' = Sent1(q)
    BY <1>0, <1>8 DEF Sent1, ChainMsg
  <1>10. \A h : WithTicket(q, h)' = WithTicket(q, h)
    BY <1>0 DEF WithTicket, TicketMsg
  <1>11. \A h : End3(q, h)' = End3(q, h)
    BY <1>0, <1>10 DEF End3
  <1>12. \A h : End2(q, h)' = End2(q, h)
    BY <1>11 DEF End2, CCS
  <1>13. \A h : End1(q, h)' = End1(q, h)
    BY <1>0, <1>12 DEF End1, TicketMsg
  <1>14. Back2(q)' = Back2(q)
    BY <1>0, <1>10 DEF Back2, Fin
  <1>15. Back1(q)' = Back1(q)
    BY <1>14 DEF Back1, CCS
  <1> QED
    BY <1>1, <1>2, <1>3, <1>4, <1>5, <1>6, <1>7, <1>8, <1>9, <1>10, <1>11,
       <1>12, <1>13, <1>14, <1>15

LEMMA StillChoices ==
    ASSUME StillWorld, NEW p, NEW q
    PROVE  /\ Offers(p) => Offers(p)'
           /\ ChoseFull(p, q) => ChoseFull(p, q)'
           /\ ChoseResume(p, q) => ChoseResume(p, q)'
           /\ \A id : Announced(q, id) => Announced(q, id)'
           /\ Fresh(p) => Fresh(p)'
           /\ Follows(p, q) => Follows(p, q)'
           /\ Verified(p) => Verified(p)'
           /\ Quiet(q) => Quiet(q)'
           /\ NoKeys(q) => NoKeys(q)'
           /\ Quiet(p) => Quiet(p)'
           /\ NoKeys(p) => NoKeys(p)'
           /\ Accepted(q) => Accepted(q)'
           /\ ServerCause(q, p) => ServerCause(q, p)'
           /\ ClientCause(p, q) => ClientCause(p, q)'
  <1>0. /\ conf' = conf /\ n' = n /\ clock' = clock /\ keys' = keys
        /\ clientVersions' = clientVersions /\ serverVersions' = serverVersions
        /\ offeredSuites' = offeredSuites /\ bestVersion' = bestVersion
        /\ bestProto' = bestProto /\ Chain' = Chain
        /\ TicketFor(q)' = TicketFor(q)
        /\ \A x, L : makeClientHello(x, L)' = makeClientHello(x, L)
        /\ \A x : Refused(x)' <=> Refused(x)
        /\ \A x, name : TicketOK(x, name) => TicketOK(x, name)'
        /\ \A x, name : SessionOK(x, name) => SessionOK(x, name)'
    BY StillSettings
  <1>1. Offers(p) => Offers(p)'
    BY <1>0 DEF Offers
  <1>2. \A id : Announced(q, id) => Announced(q, id)'
    BY <1>0 DEF Announced
  <1>3. Chosen(p, q) => Chosen(p, q)'
    BY <1>0 DEF Chosen
  <1>4. ChoseFull(p, q) => ChoseFull(p, q)'
    <2>1. Announced(q, None) => Announced(q, None)'
      BY <1>2
    <2> QED
      BY <1>0, <1>3, <2>1 DEF ChoseFull, curvesMeet
  <1>5. ChoseResume(p, q) => ChoseResume(p, q)'
    <2>1. Announced(q, n) => Announced(q, n)'
      BY <1>0, <1>2
    <2> QED
      BY <1>0, <1>3, <2>1 DEF ChoseResume
  <1>6. /\ Fresh(p) => Fresh(p)'
        /\ Follows(p, q) => Follows(p, q)'
        /\ Quiet(q) => Quiet(q)'
        /\ NoKeys(q) => NoKeys(q)'
        /\ Quiet(p) => Quiet(p)'
        /\ NoKeys(p) => NoKeys(p)'
    BY DEF Fresh, Follows, Quiet, NoKeys
  <1>7. Verified(p) => Verified(p)'
    BY <1>0 DEF Verified
  <1>8. Accepted(q) => Accepted(q)'
    BY <1>0 DEF Accepted
  <1>9. ClientCause(p, q) => ClientCause(p, q)'
    BY <1>0 DEF ClientCause
  <1>10. ServerCause(q, p) => ServerCause(q, p)'
    BY <1>0 DEF ServerCause
  <1> QED
    BY <1>1, <1>2, <1>4, <1>5, <1>6, <1>7, <1>8, <1>9, <1>10

LEMMA StillFull ==
    ASSUME StillWorld, NEW p, NEW q, NEW ts, NEW tc
    PROVE  /\ ServerFlight(p, q, ts, tc) => ServerFlight(p, q, ts, tc)'
           /\ ClientFlightSent(p, q, ts, tc) => ClientFlightSent(p, q, ts, tc)'
           /\ ServerEnded(p, q, ts, tc) => ServerEnded(p, q, ts, tc)'
           /\ ServerDone(p, q, ts, tc) => ServerDone(p, q, ts, tc)'
  <1>0. /\ conf' = conf /\ Chain' = Chain /\ Rest4' = Rest4 /\ Rest5' = Rest5
        /\ Master(q)' = Master(q) /\ TicketFor(q)' = TicketFor(q)
        /\ \A x, w : KeyOf(q, x, w)' = KeyOf(q, x, w)
        /\ \A x, name : TicketOK(x, name) => TicketOK(x, name)'
    BY StillSettings
  <1>1. /\ Hash1(q)' = Hash1(q) /\ Hash2(q)' = Hash2(q)
        /\ Hash3(q)' = Hash3(q) /\ Hash4(q)' = Hash4(q)
        /\ Hash5(q)' = Hash5(q) /\ Hash6(q)' = Hash6(q)
        /\ Hash7(q)' = Hash7(q) /\ Hash8(q)' = Hash8(q)
        /\ Hash9(q)' = Hash9(q) /\ HashF(q)' = HashF(q)
    BY StillHashes
  <1>2. /\ Rest3(q)' = Rest3(q) /\ Rest2(q)' = Rest2(q)
        /\ Rest1(q)' = Rest1(q) /\ Rest0(q)' = Rest0(q)
    BY StillFlights
  <1>3. /\ Sent5(q)' = Sent5(q) /\ Sent4(q)' = Sent4(q)
        /\ Sent3(q)' = Sent3(q) /\ Sent2(q)' = Sent2(q)
        /\ Sent1(q)' = Sent1(q)
    BY StillFlights
  <1>4. \A h : /\ WithTicket(q, h)' = WithTicket(q, h)
               /\ End1(q, h)' = End1(q, h) /\ End2(q, h)' = End2(q, h)
               /\ End3(q, h)' = End3(q, h)
    BY StillFlights
  <1>5. /\ Offers(p) => Offers(p)'
        /\ ChoseFull(p, q) => ChoseFull(p, q)'
        /\ Follows(p, q) => Follows(p, q)'
        /\ Verified(p) => Verified(p)'
        /\ Fresh(p) => Fresh(p)'
        /\ Quiet(q) => Quiet(q)'
        /\ NoKeys(q) => NoKeys(q)'
        /\ NoKeys(p) => NoKeys(p)'
        /\ Accepted(q) => Accepted(q)'
    BY StillChoices
  <1>6. InFlight(p, q) => InFlight(p, q)'
    BY <1>0, <1>5 DEF InFlight
  <1>7. /\ AwaitsCert(p, q, tc) => AwaitsCert(p, q, tc)'
        /\ AwaitsStatus(p, q, tc) => AwaitsStatus(p, q, tc)'
        /\ AwaitsKey(p, q, tc) => AwaitsKey(p, q, tc)'
        /\ AwaitsRequest(p, q, tc) => AwaitsRequest(p, q, tc)'
        /\ AwaitsDone(p, q, tc) => AwaitsDone(p, q, tc)'
    BY <1>0, <1>1, <1>2, <1>5, <1>6
       DEF AwaitsCert, AwaitsStatus, AwaitsKey, AwaitsRequest, AwaitsDone
  <1>8. ServerAwaitsFlight(q) => ServerAwaitsFlight(q)'
    BY <1>0, <1>1, <1>5 DEF ServerAwaitsFlight
  <1>9. ServerFlight(p, q, ts, tc) => ServerFlight(p, q, ts, tc)'
    BY <1>2, <1>5, <1>7, <1>8 DEF ServerFlight
  <1>10. /\ AtCertificate(q, ts) => AtCertificate(q, ts)'
         /\ AtKeyExchange(q, ts) => AtKeyExchange(q, ts)'
         /\ AtVerify(q, ts) => AtVerify(q, ts)'
         /\ AtCCS(q, ts) => AtCCS(q, ts)'
         /\ AtFinished(q, ts) => AtFinished(q, ts)'
    BY <1>0, <1>1, <1>3, <1>5
       DEF AtCertificate, AtKeyExchange, AtVerify, AtCCS, AtFinished
  <1>11. ClientAwaitsEnd(p, q) => ClientAwaitsEnd(p, q)'
    BY <1>0, <1>1, <1>5 DEF ClientAwaitsEnd
  <1>12. ClientFlightSent(p, q, ts, tc) => ClientFlightSent(p, q, ts, tc)'
    BY <1>5, <1>10, <1>11 DEF ClientFlightSent
  <1>13. ClientEnds(p, q, tc, HashF(q)) => ClientEnds(p, q, tc, HashF(q))'
    BY <1>1, <1>4 DEF ClientEnds
  <1>14. ServerEnded(p, q, ts, tc) => ServerEnded(p, q, ts, tc)'
    <2>1. WithTicket(q, HashF(q))' = WithTicket(q, HashF(q))
      BY <1>1, <1>4
    <2>2. /\ KeyOf(q, q.secret, "client")' = KeyOf(q, q.secret, "client")
          /\ KeyOf(q, q.secret, "server")' = KeyOf(q, q.secret, "server")
      BY <1>0
    <2> QED
      BY <1>0, <1>5, <1>13, <2>1, <2>2 DEF ServerEnded, Fin
  <1>15. ServerDone(p, q, ts, tc) => ServerDone(p, q, ts, tc)'
    BY <1>0, <1>14 DEF ServerDone
  <1> QED
    BY <1>9, <1>12, <1>14, <1>15

LEMMA StillResume ==
    ASSUME StillWorld, NEW p, NEW q, NEW ts, NEW tc
    PROVE  /\ Resuming(p, q, ts, tc) => Resuming(p, q, ts, tc)'
           /\ Resumed(p, q, ts, tc) => Resumed(p, q, ts, tc)'
  <1>0. \A x, w : KeyOf(q, x, w)' = KeyOf(q, x, w)
    BY StillSettings
  <1>1. Hash1(q)' = Hash1(q)
    BY StillHashes
  <1>2. /\ \A h : /\ WithTicket(q, h)' = WithTicket(q, h)
                  /\ End1(q, h)' = End1(q, h) /\ End2(q, h)' = End2(q, h)
                  /\ End3(q, h)' = End3(q, h)
        /\ Back1(q)' = Back1(q) /\ Back2(q)' = Back2(q)
    BY StillFlights
  <1>3. /\ Offers(p) => Offers(p)'
        /\ ChoseResume(p, q) => ChoseResume(p, q)'
        /\ Follows(p, q) => Follows(p, q)'
        /\ Verified(p) => Verified(p)'
        /\ Fresh(p) => Fresh(p)'
        /\ Quiet(q) => Quiet(q)'
    BY StillChoices
  <1>4. WithTicket(q, Hash1(q))' = WithTicket(q, Hash1(q))
    BY <1>1, <1>2
  <1>5. /\ KeyOf(q, q.secret, "client")' = KeyOf(q, q.secret, "client")
        /\ KeyOf(q, q.secret, "server")' = KeyOf(q, q.secret, "server")
    BY <1>0
  <1>6. ServerAwaitsCCS(q) => ServerAwaitsCCS(q)'
    BY <1>3, <1>4, <1>5 DEF ServerAwaitsCCS, Fin
  <1>7. ClientEnds(p, q, tc, Hash1(q)) => ClientEnds(p, q, tc, Hash1(q))'
    BY <1>1, <1>2 DEF ClientEnds
  <1>8. ClientResumes(p, q, tc) => ClientResumes(p, q, tc)'
    BY <1>3, <1>5, <1>7 DEF ClientResumes
  <1>9. End1(q, Hash1(q))' = End1(q, Hash1(q))
    BY <1>1, <1>2
  <1>10. Resuming(p, q, ts, tc) => Resuming(p, q, ts, tc)'
    BY <1>3, <1>6, <1>8, <1>9 DEF Resuming
  <1>11. Resumed(p, q, ts, tc) => Resumed(p, q, ts, tc)'
    BY <1>2, <1>3, <1>4, <1>5, <1>6 DEF Resumed, Fin
  <1> QED
    BY <1>10, <1>11

\* So it is enough to know the stage in the world before the step.
LEMMA StageStays ==
    ASSUME StillWorld, Stage(c', s', toServer', toClient')
    PROVE  Stage(c, s, toServer, toClient)'
  <1> SUFFICES ASSUME NEW p, NEW q, NEW ts, NEW tc, Stage(p, q, ts, tc)
               PROVE  Stage(p, q, ts, tc)'
    OBVIOUS
  <1>1. /\ ServerFlight(p, q, ts, tc) => ServerFlight(p, q, ts, tc)'
        /\ ClientFlightSent(p, q, ts, tc) => ClientFlightSent(p, q, ts, tc)'
        /\ ServerDone(p, q, ts, tc) => ServerDone(p, q, ts, tc)'
    BY StillFull
  <1>2. /\ Resuming(p, q, ts, tc) => Resuming(p, q, ts, tc)'
        /\ Resumed(p, q, ts, tc) => Resumed(p, q, ts, tc)'
    BY StillResume
  <1>3. /\ Offers(p) => Offers(p)'
        /\ Fresh(p) => Fresh(p)'
        /\ Quiet(q) => Quiet(q)'
        /\ Quiet(p) => Quiet(p)'
        /\ Announced(q, n) => Announced(q, n)'
        /\ ServerCause(q, p) => ServerCause(q, p)'
        /\ ClientCause(p, q) => ClientCause(p, q)'
    <2>1. n' = n
      BY StillSettings
    <2> QED
      BY <2>1, StillChoices
  <1>4. Starting(p, q, ts, tc) => Starting(p, q, ts, tc)'
    BY DEF Starting, NewConn
  <1>5. HelloSent(p, q, ts, tc) => HelloSent(p, q, ts, tc)'
    BY <1>3 DEF HelloSent, NewConn
  <1>6. ResumeRefused(p, q, ts, tc) => ResumeRefused(p, q, ts, tc)'
    BY <1>3 DEF ResumeRefused, Refuses
  <1>7. /\ ServerRefused(p, q, ts, tc) => ServerRefused(p, q, ts, tc)'
        /\ ClientRefused(p, q, ts, tc) => ClientRefused(p, q, ts, tc)'
        /\ BothFailed(p, q) => BothFailed(p, q)'
    BY <1>3 DEF ServerRefused, ClientRefused, BothFailed, Refuses
  <1> QED
    BY <1>1, <1>2, <1>4, <1>5, <1>6, <1>7 DEF Stage

-----------------------------------------------------------------------------
(* What a step of one end makes of the connection.                         *)

\* r once the step has passed on what it does not keep.
After(r) == [r EXCEPT !.sendBuf = Kept(r)]

ClientTo(r, q, tc) ==
    /\ DOMAIN r = ConnFields /\ IsSeq(r.sendBuf)
    /\ r.session # None => SessionOK(r.session, conf.name)
    /\ Stage(After(r), q, Passed(r), tc)

ServerTo(p, r, ts) ==
    /\ DOMAIN r = ConnFields /\ IsSeq(r.sendBuf)
    /\ Stage(p, After(r), ts, Passed(r))

StepOK ==
    /\ UNCHANGED <<conf, n, clock, keys, made>>
    /\ DOMAIN c' = ConnFields /\ DOMAIN s' = ConnFields
    /\ CacheOK(cache') /\ Stage(c', s', toServer', toClient')

LEMMA AfterFields ==
    ASSUME NEW r, DOMAIN r = ConnFields
    PROVE  /\ Keeps(After(r), r, {"sendBuf"})
           /\ After(r).sendBuf = IF r.buffering THEN r.sendBuf ELSE <<>>
           /\ r.sendBuf = <<>> => After(r).sendBuf = <<>> /\ Passed(r) = <<>>
           /\ ~r.buffering => After(r).sendBuf = <<>> /\ Passed(r) = r.sendBuf
  <1> DEFINE k == Kept(r)
  <1> HIDE DEF k
  <1>1. Keeps([r EXCEPT !.sendBuf = k], r, {"sendBuf"})
    BY DEF Keeps, ConnFields
  <1>2. [r EXCEPT !.sendBuf = k].sendBuf = k
    BY DEF ConnFields
  <1>3. After(r) = [r EXCEPT !.sendBuf = k]
    BY DEF After, k
  <1> QED
    BY <1>1, <1>2, <1>3 DEF k, Kept, Passed

LEMMA PassedSeq ==
    ASSUME NEW r, IsSeq(r.sendBuf)
    PROVE  /\ <<>> \o Passed(r) = Passed(r)
  BY SeqAny DEF Passed

LEMMA ClientMoves ==
    ASSUME WorldOK, CacheOK(cache), NEW r, ClientBecomes(r),
           cache' = CacheAfter(r), toServer = <<>>, ClientTo(r, s, toClient')
    PROVE  StepOK
  <1>1. c' = After(r) /\ toServer' = Passed(r)
    BY PassedSeq DEF ClientBecomes, After, ClientTo
  <1>2. s' = s /\ UNCHANGED <<conf, n, clock, keys, made>>
    BY DEF ClientBecomes, world
  <1>3. CacheOK(cache')
    BY CacheLeft DEF ClientTo
  <1>4. DOMAIN c' = ConnFields
    BY <1>1, AfterFields DEF ClientTo, Keeps
  <1> QED
    BY <1>1, <1>2, <1>3, <1>4 DEF StepOK, ClientTo, WorldOK

LEMMA ServerMoves ==
    ASSUME WorldOK, CacheOK(cache), NEW r, ServerBecomes(r), UNCHANGED made,
           toClient = <<>>, ServerTo(c, r, toServer')
    PROVE  StepOK
  <1>1. s' = After(r) /\ toClient' = Passed(r)
    BY PassedSeq DEF ServerBecomes, After, ServerTo
  <1>2. c' = c /\ cache' = cache /\ UNCHANGED <<conf, n, clock, keys, made>>
    BY DEF ServerBecomes, world
  <1>3. DOMAIN s' = ConnFields
    BY <1>1, AfterFields DEF ServerTo, Keeps
  <1> QED
    BY <1>1, <1>2, <1>3 DEF StepOK, ServerTo, WorldOK

\* Sessions in the cache stay good as time passes.
LEMMA CacheStays ==
    ASSUME CacheOK(cache'), made \subseteq made', clock \in Nat, clock' \in Nat,
           clock <= clock'
    PROVE  CacheOK(cache)'
  <1>1. \A x, name : SessionOK(x, name) => SessionOK(x, name)'
    BY SessionStays
  <1>2. IsSeq(cache')
    BY DEF CacheOK
  <1>3. ASSUME NEW i \in DOMAIN cache' PROVE EntryOK(cache[i])'
    <2>1. EntryOK(cache'[i])
      BY DEF CacheOK
    <2> QED
      BY <1>1, <2>1 DEF EntryOK
  <1> QED
    BY <1>2, <1>3 DEF CacheOK

\* A step within a connection that ends in a stage keeps the invariant.
LEMMA StepKeeps ==
    ASSUME WorldOK, StepOK
    PROVE  ConnInv'
  <1>1. StillWorld
    BY DEF StepOK, StillWorld, WorldOK
  <1>2. Stage(c, s, toServer, toClient)'
    BY <1>1, StageStays DEF StepOK
  <1>3. WorldOK'
    BY DEF WorldOK, StepOK
  <1>4. CacheOK(cache)'
    BY CacheStays DEF StepOK, WorldOK
  <1> QED
    BY <1>2, <1>3, <1>4 DEF ConnInv

-----------------------------------------------------------------------------
(* Keys are never nil.                                                     *)

LEMMA KeyTyped ==
    ASSUME ConfOK, n \in Nat, NEW q, NEW id, Announced(q, id),
           NEW secret \in Secrets, NEW w \in {"client", "server"}
    PROVE  KeyOf(q, secret, w) # None
  <1>1. q.vers \in Nat /\ q.suite \in Suites
    BY BestVersion, SuitesOffered DEF Announced
  <1>2. KeyOf(q, secret, w) \in ConnKeys
    BY <1>1 DEF KeyOf, ConnKeys
  <1> QED
    BY <1>2, NoneAssumption

LEMMA MasterTyped ==
    ASSUME ConfOK, n \in Nat, NEW p, NEW q, ChoseFull(p, q)
    PROVE  /\ Master(q) \in Secrets
           /\ KeyOf(q, Master(q), "client") # None
           /\ KeyOf(q, Master(q), "server") # None
  <1>1. q.vers \in Nat /\ q.suite \in Suites /\ Announced(q, None)
    BY BestVersion, SuitesOffered DEF Announced, ChoseFull
  <1>2. q.curve \in STRING \cup {None}
    BY CurveSettled DEF ChoseFull
  <1>3. Master(q) \in Secrets
    BY <1>1, <1>2 DEF Master, masterSecret, Secrets
  <1> QED
    BY <1>1, <1>3, KeyTyped

-----------------------------------------------------------------------------
(* The flights are sequences.                                              *)

LEMMA FlightSeqs ==
    ASSUME NEW q
    PROVE  /\ IsSeq(Rest5) /\ IsSeq(Rest4) /\ IsSeq(Rest3(q)) /\ IsSeq(Rest2(q))
           /\ IsSeq(Rest1(q))
           /\ IsSeq(Sent5(q)) /\ IsSeq(Sent4(q)) /\ IsSeq(Sent3(q))
           /\ IsSeq(Sent2(q)) /\ IsSeq(Back2(q))
           /\ \A h : IsSeq(End3(q, h)) /\ IsSeq(End2(q, h)) /\ IsSeq(End1(q, h))
  <1>1. IsSeq(Rest5) /\ IsSeq(Sent5(q)) /\ IsSeq(Back2(q))
    BY SeqAny DEF Rest5, Sent5, Back2
  <1>2. IsSeq(Rest4)
    BY <1>1, BeforeAny DEF Rest4
  <1>3. IsSeq(Rest3(q))
    BY <1>2, BeforeAny DEF Rest3
  <1>4. IsSeq(Rest2(q))
    BY <1>3, BeforeAny DEF Rest2
  <1>5. IsSeq(Rest1(q))
    BY <1>4, BeforeAny DEF Rest1
  <1>6. IsSeq(Sent4(q))
    BY <1>1, BeforeAny DEF Sent4
  <1>7. IsSeq(Sent3(q))
    BY <1>6, BeforeAny DEF Sent3
  <1>8. IsSeq(Sent2(q))
    BY <1>7, BeforeAny DEF Sent2
  <1>9. ASSUME NEW h
        PROVE  IsSeq(End3(q, h)) /\ IsSeq(End2(q, h)) /\ IsSeq(End1(q, h))
    <2>1. IsSeq(End3(q, h))
      BY SeqAny DEF End3
    <2>2. IsSeq(End2(q, h))
      BY <2>1, BeforeAny DEF End2
    <2> QED
      BY <2>1, <2>2, BeforeAny DEF End1
  <1> QED
    BY <1>1, <1>2, <1>3, <1>4, <1>5, <1>6, <1>7, <1>8, <1>9

-----------------------------------------------------------------------------
(* The client in a full handshake.                                         *)

\* The server does not notice yet that the client refuses.
LEMMA ClientAlerts ==
    ASSUME NEW x, NEW a, NEW q, NEW tc, DOMAIN x = ConnFields,
           x.out = None, x.sendBuf = <<>>,
           x.session # None => SessionOK(x.session, conf.name),
           q.pc \in {"certificate", "keyExchange", "ccs"}, q.in = None, Quiet(q),
           \/ a = "bad_certificate"
                /\ (conf.clientVetoes \/ (~conf.insecure /\ ~conf.trusts))
           \/ a = "internal_error" /\ conf.getCertFails /\ conf.auth # 0
    PROVE  ClientTo(Alert(x, a), q, tc) /\ Alert(x, a).pc = "failed"
  <1> DEFINE r == Alert(x, a)
             y == After(r)
  <1>0. IsSeq(<<>>) /\ IsSeq(<<AlertRec(a)>>)
    BY SeqAny
  <1>1. /\ Keeps(r, x, {"pc", "err", "buffering", "sendBuf"})
        /\ r.pc = "failed" /\ r.err = a /\ ~r.buffering
        /\ r.sendBuf = Append(<<>>, AlertRec(a))
    BY <1>0, AlertFields DEF AlertRec
  <1>2. r.sendBuf = <<AlertRec(a)>>
    BY <1>1
  <1> HIDE DEF r
  <1>3. Keeps(y, r, {"sendBuf"}) /\ Passed(r) = <<AlertRec(a)>>
    BY <1>1, <1>2, AfterFields DEF Keeps
  <1> HIDE DEF y
  <1>4. y.pc = "failed" /\ y.err = a /\ r.session = x.session
    BY <1>1, <1>3 DEF Keeps, ConnFields
  <1>5. ClientCause(y, q)
    BY <1>4 DEF ClientCause
  <1>6. ClientRefused(y, q, Passed(r), tc)
    BY <1>3, <1>4, <1>5 DEF ClientRefused, Refuses
  <1>7. Stage(y, q, Passed(r), tc)
    BY <1>6 DEF Stage
  <1> QED
    BY <1>0, <1>1, <1>2, <1>4, <1>7 DEF ClientTo, Keeps, r, y

\* What holds of the client and the server while the flight is read.
Reading(p, q) ==
    /\ DOMAIN p = ConnFields /\ p.pc # "failed" /\ Offers(p) /\ ChoseFull(p, q)
    /\ ServerAwaitsFlight(q) /\ InFlight(p, q)

LEMMA ReadingKept ==
    ASSUME NEW p, NEW q, NEW r, Reading(p, q), r.pc # "failed",
           Keeps(r, p, {"pc", "transcript", "certReq", "curve", "serverKey",
                        "verified"})
    PROVE  Reading(r, q)
  <1>1. DOMAIN r = ConnFields /\ DOMAIN p = ConnFields
    BY DEF Keeps, Reading
  <1>2. /\ r.hello = p.hello /\ r.offered = p.offered /\ r.session = p.session
        /\ r.vers = p.vers /\ r.suite = p.suite /\ r.proto = p.proto
        /\ r.serverHello = p.serverHello /\ r.sendBuf = p.sendBuf
        /\ r.err = p.err /\ r.resumed = p.resumed /\ r.in = p.in
        /\ r.out = p.out /\ r.nextIn = p.nextIn /\ r.nextOut = p.nextOut
        /\ r.buffering = p.buffering /\ r.buffer = p.buffer
    BY DEF Keeps, ConnFields
  <1>3. Offers(r) /\ ChoseFull(r, q) /\ InFlight(r, q)
    BY <1>2 DEF Reading, Offers, ChoseFull, Chosen, InFlight, Follows, Quiet,
                NoKeys
  <1> QED
    BY <1>1, <1>3 DEF Reading

\* It stays in the flight, and passes nothing on.
LEMMA ReadingOn ==
    ASSUME NEW r, NEW q, NEW tc, Reading(r, q),
           \/ AwaitsCert(r, q, tc) \/ AwaitsStatus(r, q, tc)
           \/ AwaitsKey(r, q, tc) \/ AwaitsRequest(r, q, tc)
           \/ AwaitsDone(r, q, tc)
    PROVE  ClientTo(r, q, tc)
  <1> DEFINE y == After(r)
  <1>1. DOMAIN r = ConnFields /\ r.sendBuf = <<>>
    BY DEF Reading, InFlight, Follows, Quiet
  <1>2. /\ Keeps(y, r, {"sendBuf"}) /\ y.sendBuf = r.sendBuf
        /\ Passed(r) = <<>>
    BY <1>1, AfterFields
  <1> HIDE DEF y
  <1>3. /\ y.pc = r.pc /\ y.transcript = r.transcript /\ y.certReq = r.certReq
        /\ y.curve = r.curve /\ y.serverKey = r.serverKey
        /\ y.verified = r.verified
    BY <1>2 DEF Keeps, ConnFields
  <1>4. Keeps(y, r, {"pc", "transcript", "certReq", "curve", "serverKey",
                     "verified"})
    BY <1>2 DEF Keeps
  <1>5. Reading(y, q)
    BY <1>3, <1>4, ReadingKept DEF Reading
  <1>6. \/ AwaitsCert(y, q, tc) \/ AwaitsStatus(y, q, tc)
        \/ AwaitsKey(y, q, tc) \/ AwaitsRequest(y, q, tc)
        \/ AwaitsDone(y, q, tc)
    BY <1>3, <1>5 DEF AwaitsCert, AwaitsStatus, AwaitsKey, AwaitsRequest,
                      AwaitsDone, Reading, Verified
  <1>7. ServerFlight(y, q, <<>>, tc)
    BY <1>5, <1>6 DEF ServerFlight, Reading
  <1>8. IsSeq(r.sendBuf)
    BY <1>1, SeqAny
  <1>9. Stage(y, q, Passed(r), tc)
    BY <1>2, <1>7 DEF Stage
  <1> QED
    BY <1>1, <1>8, <1>9 DEF ClientTo, Reading, Offers, y

LEMMA ServerListens ==
    ASSUME NEW q, ServerAwaitsFlight(q)
    PROVE  /\ q.pc \in {"certificate", "keyExchange", "ccs"} /\ q.in = None
           /\ Quiet(q)
  BY DEF ServerAwaitsFlight, NoKeys

\* Certificate, ClientKeyExchange, CertificateVerify, the new keys, Finished.
LEMMA ClientFlightSends ==
    ASSUME ConfOK, n \in Nat, NEW p, NEW q, Reading(p, q), p.transcript = Hash5(q),
           p.certReq <=> conf.auth # 0, p.curve = q.curve,
           p.serverKey = conf.key, Verified(p)
    PROVE  ClientTo(OnServerHelloDone(p, DoneMsg), q, <<>>)
  <1> DEFINE x0 == Hashed(p, DoneMsg)
             x1 == SayIf(conf.auth # 0, x0, ChainMsg)
             x2 == Say(x1, CKEMsg(q))
             x3 == SayIf(Chain # "none", x2, VerifyMsg(q))
             x4 == [x3 EXCEPT !.secret = Master(q), !.buffer = FALSE]
             x5 == establishKeys(x4, "client", "server")
             x6 == sendFinished(x5, "client finished")
             x7 == [x6 EXCEPT !.buffering = FALSE]
             x8 == AwaitTicket(x7)
             F == {"transcript", "sendBuf"}
  <1>p. /\ DOMAIN p = ConnFields /\ p.pc # "failed" /\ p.sendBuf = <<>>
        /\ p.suite = q.suite /\ p.vers = q.vers /\ p.out = None /\ p.in = None
        /\ p.serverHello = q.serverHello /\ p.nextOut = None
    BY DEF Reading, InFlight, Follows, Quiet, NoKeys
  <1>q. IsSeq(Sent2(q)) /\ IsSeq(Sent3(q)) /\ IsSeq(Sent4(q)) /\ IsSeq(<<>>)
    BY FlightSeqs, SeqAny
  <1>0. /\ Keeps(x0, p, {"transcript"})
        /\ x0.transcript = Hash6(q)
    <2>1. Digest(DoneMsg) = DoneMsg
      BY DEF Digest, DoneMsg
    <2> QED
      BY <1>p, <2>1, HashedFields DEF Hash6
  <1> HIDE DEF x0
  <1>0a. /\ DOMAIN x0 = ConnFields /\ x0.sendBuf = <<>> /\ x0.out = None
         /\ x0.certReq = p.certReq /\ x0.suite = q.suite /\ x0.curve = q.curve
         /\ x0.serverKey = conf.key
    BY <1>p, <1>0 DEF Keeps, ConnFields
  <1>1. /\ Keeps(x1, x0, F) /\ x1.transcript = Hash7(q) /\ IsSeq(x1.sendBuf)
        /\ x1.sendBuf \o Sent2(q) = Sent1(q)
    <2>1. Digest(ChainMsg) = ChainMsg
      BY DEF Digest, ChainMsg
    <2>2. Says(conf.auth # 0, x1, x0, ChainMsg, Sent2(q))
      BY <1>0a, <1>q, SayIfFields
    <2>3. IsSeq(Sent1(q))
      BY <1>q, BeforeAny DEF Sent1
    <2>4. <<>> \o Sent1(q) = Sent1(q)
      BY <2>3, SeqAny
    <2> QED
      BY <1>0, <1>0a, <2>1, <2>2, <2>4 DEF Hash7, Sent1, Says
  <1> HIDE DEF x1
  <1>1a. /\ DOMAIN x1 = ConnFields /\ x1.out = None
    BY <1>0a, <1>1 DEF Keeps, ConnFields
  <1>2. /\ Keeps(x2, x1, F) /\ x2.transcript = Hash8(q) /\ IsSeq(x2.sendBuf)
        /\ x2.sendBuf \o Sent3(q) = Sent1(q)
    <2>1. Digest(CKEMsg(q)) = CKEMsg(q)
      BY DEF Digest, CKEMsg
    <2>2. x2 = SayIf(TRUE, x1, CKEMsg(q))
      BY DEF SayIf
    <2>3. Says(TRUE, x2, x1, CKEMsg(q), Sent3(q))
      BY <1>1a, <1>1, <1>q, <2>2, SayIfFields
    <2> QED
      BY <1>1, <2>1, <2>3 DEF Hash8, Sent2, Says
  <1> HIDE DEF x2
  <1>2a. /\ DOMAIN x2 = ConnFields /\ x2.out = None /\ x2.pc = p.pc
         /\ x2.vers = p.vers /\ x2.buffer = p.buffer
    BY <1>p, <1>0, <1>1, <1>2, <1>1a DEF Keeps, ConnFields
  <1>3. /\ Keeps(x3, x2, F) /\ x3.transcript = Hash9(q) /\ IsSeq(x3.sendBuf)
        /\ x3.sendBuf \o Sent4(q) = Sent1(q)
    <2>1. Digest(VerifyMsg(q)) = [type |-> "certificateVerify"]
      BY DEF Digest, VerifyMsg
    <2>2. Says(Chain # "none", x3, x2, VerifyMsg(q), Sent4(q))
      BY <1>2a, <1>2, <1>q, SayIfFields
    <2> QED
      BY <1>2, <2>1, <2>2 DEF Hash9, Sent3, Says
  <1> HIDE DEF x3
  <1>3a. /\ DOMAIN x3 = ConnFields /\ x3.vers = q.vers /\ x3.suite = q.suite
         /\ x3.curve = q.curve /\ x3.pc = p.pc /\ x3.out = None
    BY <1>p, <1>0, <1>0a, <1>1, <1>2, <1>3 DEF Keeps, ConnFields
  <1>4. /\ Keeps(x4, x3, {"secret", "buffer"}) /\ x4.secret = Master(q)
    <2> DEFINE k == Master(q)
               y == [x3 EXCEPT !.secret = k, !.buffer = FALSE]
    <2> HIDE DEF k
    <2>1. Keeps(y, x3, {"secret", "buffer"}) /\ y.secret = k
      BY <1>3a DEF Keeps, ConnFields
    <2> QED
      BY <2>1 DEF k
  <1> HIDE DEF x4
  <1>4a. DOMAIN x4 = ConnFields /\ x4.vers = q.vers /\ x4.suite = q.suite
    BY <1>3a, <1>4 DEF Keeps, ConnFields
  <1>5. /\ Keeps(x5, x4, {"nextIn", "nextOut"})
        /\ x5.nextOut = KeyOf(q, Master(q), "client")
        /\ x5.nextIn = KeyOf(q, Master(q), "server")
    BY <1>4a, <1>4, EstablishFields DEF KeyOf
  <1> HIDE DEF x5
  <1>5a. /\ DOMAIN x5 = ConnFields /\ IsSeq(x5.sendBuf) /\ x5.pc # "failed"
         /\ x5.out = None /\ x5.secret = Master(q) /\ x5.transcript = Hash9(q)
         /\ x5.sendBuf = x3.sendBuf
    BY <1>p, <1>3a, <1>3, <1>4, <1>5 DEF Keeps, ConnFields
  <1>5b. x5.nextOut # None
    BY <1>5, MasterTyped DEF Reading
  <1>6. /\ Keeps(x6, x5, {"transcript", "sendBuf", "out", "nextOut"})
        /\ x6.transcript = HashF(q) /\ IsSeq(x6.sendBuf)
        /\ x6.sendBuf = Sent1(q)
        /\ x6.out = KeyOf(q, Master(q), "client") /\ x6.pc # "failed"
    <2>1. /\ Keeps(x6, x5, {"transcript", "sendBuf", "out", "nextOut"})
          /\ x6.transcript = Append(x5.transcript, Fin)
          /\ IsSeq(x6.sendBuf)
          /\ x6.sendBuf = x5.sendBuf \o Before(CCS, <<Rec(x5.nextOut,
                             FinMsg("client finished", x5.secret, x5.transcript))>>)
          /\ x6.out = x5.nextOut /\ x6.pc # "failed"
      BY <1>5a, <1>5b, SendFinishedFields
    <2> QED
      BY <2>1, <1>5, <1>5a, <1>3 DEF HashF, Sent4, Sent5
  <1> HIDE DEF x6
  <1>7. Keeps(x7, x6, {"buffering"}) /\ ~x7.buffering
    BY <1>6 DEF Keeps, ConnFields
  <1> HIDE DEF x7
  <1>7a. DOMAIN x7 = ConnFields /\ x7.serverHello = q.serverHello
    BY <1>p, <1>0, <1>1, <1>2, <1>3, <1>4, <1>5, <1>6, <1>7 DEF Keeps, ConnFields
  <1>8. /\ Keeps(x8, x7, {"pc"})
        /\ x8.pc = IF q.serverHello.ticketSupported THEN "ticket" ELSE "ccs"
    BY <1>7a DEF Keeps, ConnFields, AwaitTicket
  <1> HIDE DEF x8
  <1>9. OnServerHelloDone(p, DoneMsg) = x8
    <2>1. OnServerHelloDone(p, DoneMsg) = ClientFlight(x0)
      BY DEF OnServerHelloDone, DoneMsg, x0
    <2>2. (IF x0.certReq THEN conf.clientCert ELSE "none") = Chain
      BY <1>0a DEF Chain
    <2>3. SayIf(x0.certReq, x0, [type |-> "certificate", cert |-> Chain]) = x1
      BY <1>0a DEF x1, SayIf, ChainMsg
    <2>4. ~(IF ECDHE(x0.suite) THEN x0.curve = None ELSE x0.serverKey # "rsa")
      BY <1>0a, CurveSettled DEF Reading, ChoseFull, cipherSuiteOk
    <2>5. x2 = Say(x1, [type |-> "clientKeyExchange", curve |-> x0.curve])
      BY <1>0a DEF x2, CKEMsg
    <2>6. x2.pc # "failed" /\ x3.pc # "failed"
      BY <1>p, <1>2a, <1>3a
    <2>7. Chain # "none" => ~BufferGone(x2)
      BY <1>2a DEF BufferGone, Chain, Reading, InFlight
    <2>8. ClientSigns(x2, Chain) = x3
      BY <2>7, <1>2 DEF ClientSigns, x3, SayIf, VerifyMsg
    <2>9. masterSecret(x3, x3.curve) = Master(q)
      BY <1>3a DEF masterSecret, Master
    <2>10. x4 = [x3 EXCEPT !.secret = masterSecret(x3, x3.curve), !.buffer = FALSE]
      BY <2>9 DEF x4
    <2>11. ClientKeys(x3) = x8
      BY <1>6, <2>10 DEF x5, x6, x7, x8, ClientKeys, Then
    <2>12. ClientFlight(x0) = x8
      BY <2>2, <2>3, <2>4, <2>5, <2>6, <2>8, <2>11 DEF ClientFlight, Then
    <2> QED
      BY <2>1, <2>12
  <1> DEFINE y == After(x8)
  <1>10. DOMAIN x8 = ConnFields /\ ~x8.buffering /\ x8.sendBuf = Sent1(q)
    BY <1>6, <1>7, <1>8 DEF Keeps, ConnFields
  <1>11. Keeps(y, x8, {"sendBuf"}) /\ y.sendBuf = <<>> /\ Passed(x8) = Sent1(q)
    BY <1>10, AfterFields
  <1> HIDE DEF y
  <1>12. /\ y.hello = p.hello /\ y.offered = p.offered /\ y.session = p.session
         /\ y.vers = p.vers /\ y.suite = p.suite /\ y.proto = p.proto
         /\ y.serverHello = p.serverHello /\ y.err = p.err
         /\ y.resumed = p.resumed /\ y.verified = p.verified /\ y.in = p.in
         /\ x8.session = p.session
    <2>1. Keeps(x3, p, F)
      BY <1>0, <1>1, <1>2, <1>3 DEF Keeps
    <2>2. Keeps(x5, x3, {"secret", "buffer", "nextIn", "nextOut"})
      BY <1>4, <1>5 DEF Keeps
    <2>3. Keeps(x8, x5, {"transcript", "sendBuf", "out", "nextOut", "buffering",
                         "pc"})
      BY <1>6, <1>7, <1>8 DEF Keeps
    <2> QED
      BY <2>1, <2>2, <2>3, <1>11 DEF Keeps, ConnFields
  <1>13. /\ y.pc = IF q.serverHello.ticketSupported THEN "ticket" ELSE "ccs"
         /\ y.secret = Master(q) /\ y.transcript = HashF(q)
         /\ y.nextIn = KeyOf(q, Master(q), "server")
         /\ y.out = KeyOf(q, Master(q), "client")
    BY <1>4, <1>5, <1>6, <1>7, <1>8, <1>11 DEF Keeps, ConnFields
  <1>14. Offers(y) /\ ChoseFull(y, q) /\ Follows(y, q) /\ Verified(y)
    BY <1>11, <1>12 DEF Reading, Offers, ChoseFull, Chosen, InFlight, Follows,
                        Quiet, Verified
  <1>15. ClientAwaitsEnd(y, q)
    BY <1>p, <1>12, <1>13, <1>14 DEF ClientAwaitsEnd, Reading, InFlight
  <1>16. AtCertificate(q, Sent1(q)) \/ AtKeyExchange(q, Sent1(q))
    <2>1. CASE conf.auth # 0
      BY <2>1 DEF AtCertificate, Reading, ServerAwaitsFlight
    <2>2. CASE conf.auth = 0
      <3>1. Chain = "none" /\ ~Refused("none") /\ Sent1(q) = Sent2(q)
            /\ Hash7(q) = Hash6(q)
        BY <2>2 DEF Chain, Refused, requiresClientCert, Sent1, Hash7
      <3> QED
        BY <2>2, <3>1 DEF AtKeyExchange, Reading, ServerAwaitsFlight, Accepted
    <2> QED
      BY <2>1, <2>2
  <1>17. Quiet(q) /\ ~q.buffering
    BY DEF Reading, ServerAwaitsFlight
  <1>18. ClientFlightSent(y, q, Sent1(q), <<>>)
    BY <1>14, <1>15, <1>16, <1>17 DEF ClientFlightSent
  <1>19. Stage(y, q, Passed(x8), <<>>)
    BY <1>11, <1>18 DEF Stage
  <1>20. IsSeq(x8.sendBuf)
    BY <1>6, <1>10
  <1> QED
    BY <1>9, <1>10, <1>12, <1>19, <1>20 DEF ClientTo, Reading, Offers, y

\* The next record of the flight: a message, sealed with nothing.
LEMMA RestHeads ==
    ASSUME NEW q
    PROVE  /\ Rest5 # <<>> /\ Head(Rest5) = Rec(None, DoneMsg) /\ Tail(Rest5) = <<>>
           /\ conf.auth # 0 => /\ Rest4 # <<>> /\ Tail(Rest4) = Rest5
                               /\ Head(Rest4) = Rec(None, RequestMsg)
           /\ conf.auth = 0 => Rest4 = Rest5
           /\ ECDHE(q.suite) => /\ Rest3(q) # <<>> /\ Tail(Rest3(q)) = Rest4
                                /\ Head(Rest3(q)) = Rec(None, SKEMsg(q))
           /\ ~ECDHE(q.suite) => Rest3(q) = Rest4
           /\ conf.staple => /\ Rest2(q) # <<>> /\ Tail(Rest2(q)) = Rest3(q)
                             /\ Head(Rest2(q)) = Rec(None, StatusMsg)
           /\ ~conf.staple => Rest2(q) = Rest3(q)
           /\ Rest1(q) # <<>> /\ Tail(Rest1(q)) = Rest2(q)
           /\ Head(Rest1(q)) = Rec(None, CertMsg)
           /\ Rest0(q) # <<>> /\ Tail(Rest0(q)) = Rest1(q)
           /\ Head(Rest0(q)) = Rec(None, q.serverHello)
  <1>0. /\ IsSeq(Rest5) /\ IsSeq(Rest4) /\ IsSeq(Rest3(q)) /\ IsSeq(Rest2(q))
        /\ IsSeq(Rest1(q))
    BY FlightSeqs
  <1>1. Rest5 # <<>> /\ Head(Rest5) = Rec(None, DoneMsg) /\ Tail(Rest5) = <<>>
    BY DEF Rest5
  <1>2. conf.auth # 0 => /\ Rest4 # <<>> /\ Tail(Rest4) = Rest5
                         /\ Head(Rest4) = Rec(None, RequestMsg)
    BY <1>0, BeforeAny DEF Rest4
  <1>3. ECDHE(q.suite) => /\ Rest3(q) # <<>> /\ Tail(Rest3(q)) = Rest4
                          /\ Head(Rest3(q)) = Rec(None, SKEMsg(q))
    BY <1>0, BeforeAny DEF Rest3
  <1>4. conf.staple => /\ Rest2(q) # <<>> /\ Tail(Rest2(q)) = Rest3(q)
                       /\ Head(Rest2(q)) = Rec(None, StatusMsg)
    BY <1>0, BeforeAny DEF Rest2
  <1>5. /\ Rest1(q) # <<>> /\ Tail(Rest1(q)) = Rest2(q)
        /\ Head(Rest1(q)) = Rec(None, CertMsg)
    BY <1>0, BeforeAny DEF Rest1
  <1>6. /\ Rest0(q) # <<>> /\ Tail(Rest0(q)) = Rest1(q)
        /\ Head(Rest0(q)) = Rec(None, q.serverHello)
    BY <1>0, BeforeAny DEF Rest0
  <1>7. /\ conf.auth = 0 => Rest4 = Rest5
        /\ ~ECDHE(q.suite) => Rest3(q) = Rest4
        /\ ~conf.staple => Rest2(q) = Rest3(q)
    BY DEF Rest4, Rest3, Rest2
  <1> QED
    BY <1>1, <1>2, <1>3, <1>4, <1>5, <1>6, <1>7

\* The messages the client may be asked to read at each place.
Next4 == Head(Rest4).msg
Next3(q) == Head(Rest3(q)).msg
Next2(q) == Head(Rest2(q)).msg

LEMMA NextMessages ==
    ASSUME NEW q
    PROVE  /\ Next4 = IF conf.auth # 0 THEN RequestMsg ELSE DoneMsg
           /\ Next3(q) = IF ECDHE(q.suite) THEN SKEMsg(q) ELSE Next4
           /\ Next2(q) = IF conf.staple THEN StatusMsg ELSE Next3(q)
           /\ Head(Rest4) = Rec(None, Next4) /\ Rest4 # <<>>
           /\ Head(Rest3(q)) = Rec(None, Next3(q)) /\ Rest3(q) # <<>>
           /\ Head(Rest2(q)) = Rec(None, Next2(q)) /\ Rest2(q) # <<>>
           /\ Next4.type \in {"certificateRequest", "serverHelloDone"}
           /\ Next3(q).type \in {"serverKeyExchange", "certificateRequest",
                                 "serverHelloDone"}
  <1>0. \A k, m : Rec(k, m).msg = m
    BY DEF Rec
  <1>1. /\ Next4 = (IF conf.auth # 0 THEN RequestMsg ELSE DoneMsg)
        /\ Head(Rest4) = Rec(None, Next4) /\ Rest4 # <<>>
    <2>1. CASE conf.auth # 0
      <3>1. Rest4 # <<>> /\ Head(Rest4) = Rec(None, RequestMsg)
        BY <2>1, RestHeads
      <3> QED
        BY <1>0, <2>1, <3>1, Zenon DEF Next4
    <2>2. CASE conf.auth = 0
      <3>1. Rest4 # <<>> /\ Head(Rest4) = Rec(None, DoneMsg)
        BY <2>2, RestHeads
      <3> QED
        BY <1>0, <2>2, <3>1, Zenon DEF Next4
    <2> QED
      BY <2>1, <2>2
  <1>2. /\ Next3(q) = (IF ECDHE(q.suite) THEN SKEMsg(q) ELSE Next4)
        /\ Head(Rest3(q)) = Rec(None, Next3(q)) /\ Rest3(q) # <<>>
    <2>1. CASE ECDHE(q.suite)
      <3>1. Rest3(q) # <<>> /\ Head(Rest3(q)) = Rec(None, SKEMsg(q))
        BY <2>1, RestHeads
      <3> QED
        BY <1>0, <2>1, <3>1, Zenon DEF Next3
    <2>2. CASE ~ECDHE(q.suite)
      <3>1. Rest3(q) = Rest4
        BY <2>2, RestHeads
      <3> QED
        BY <1>1, <2>2, <3>1, Zenon DEF Next3, Next4
    <2> QED
      BY <2>1, <2>2
  <1>3. /\ Next2(q) = (IF conf.staple THEN StatusMsg ELSE Next3(q))
        /\ Head(Rest2(q)) = Rec(None, Next2(q)) /\ Rest2(q) # <<>>
    <2>1. CASE conf.staple
      <3>1. Rest2(q) # <<>> /\ Head(Rest2(q)) = Rec(None, StatusMsg)
        BY <2>1, RestHeads
      <3> QED
        BY <1>0, <2>1, <3>1, Zenon DEF Next2
    <2>2. CASE ~conf.staple
      <3>1. Rest2(q) = Rest3(q)
        BY <2>2, RestHeads
      <3> QED
        BY <1>2, <2>2, <3>1, Zenon DEF Next2, Next3
    <2> QED
      BY <2>1, <2>2
  <1>4. Next4.type \in {"certificateRequest", "serverHelloDone"}
    BY <1>1 DEF RequestMsg, DoneMsg
  <1>5. Next3(q).type \in {"serverKeyExchange", "certificateRequest",
                           "serverHelloDone"}
    BY <1>2, <1>4 DEF SKEMsg
  <1> QED
    BY <1>1, <1>2, <1>3, <1>4, <1>5

LEMMA RequestRead ==
    ASSUME ConfOK, n \in Nat, NEW p, NEW q, Reading(p, q), p.transcript = Hash4(q),
           ~p.certReq, p.curve = q.curve, p.serverKey = conf.key, Verified(p)
    PROVE  ClientTo(OnCertificateRequest(p, Next4), q, Tail(Rest4))
  <1>1. CASE conf.auth # 0
    <2> DEFINE x == Hashed(p, RequestMsg)
               r == [x EXCEPT !.certReq = TRUE]
               d == [r EXCEPT !.pc = "serverHelloDone"]
    <2>1. Next4 = RequestMsg /\ Tail(Rest4) = Rest5
      BY <1>1, NextMessages, RestHeads
    <2>2. Keeps(x, p, {"transcript"}) /\ x.transcript = Hash5(q)
      <3>1. Digest(RequestMsg) = RequestMsg
        BY DEF Digest, RequestMsg
      <3> QED
        BY <1>1, <3>1, HashedFields DEF Hash5, Reading
    <2> HIDE DEF x
    <2>3. Keeps(r, x, {"certReq"}) /\ r.certReq
      BY <2>2 DEF Keeps, ConnFields
    <2> HIDE DEF r
    <2>4. CASE conf.getCertFails
      <3>1. OnCertificateRequest(p, RequestMsg) = Alert(r, "internal_error")
        BY <2>4 DEF OnCertificateRequest, RequestMsg, r, x
      <3>2. /\ DOMAIN r = ConnFields /\ r.out = p.out /\ r.sendBuf = p.sendBuf
            /\ r.session = p.session
        BY <2>2, <2>3 DEF Keeps, ConnFields
      <3>3. /\ r.out = None /\ r.sendBuf = <<>>
            /\ r.session # None => SessionOK(r.session, conf.name)
        BY <3>2 DEF Reading, InFlight, Follows, Quiet, NoKeys, Offers
      <3>4. /\ q.pc \in {"certificate", "keyExchange", "ccs"} /\ q.in = None
            /\ Quiet(q)
        BY ServerListens DEF Reading
      <3> QED
        BY <1>1, <2>1, <2>4, <3>1, <3>2, <3>3, <3>4, ClientAlerts
    <2>5. CASE ~conf.getCertFails
      <3>1. OnCertificateRequest(p, RequestMsg) = d
        BY <2>5 DEF OnCertificateRequest, RequestMsg, r, x
      <3>2. Keeps(d, r, {"pc"}) /\ d.pc = "serverHelloDone"
        BY <2>3 DEF Keeps, ConnFields
      <3> HIDE DEF d
      <3>3. Keeps(d, p, {"pc", "transcript", "certReq", "curve", "serverKey",
                         "verified"})
        BY <2>2, <2>3, <3>2 DEF Keeps
      <3>4. Reading(d, q)
        BY <3>2, <3>3, ReadingKept
      <3>5. /\ d.transcript = Hash5(q) /\ d.certReq /\ d.curve = q.curve
            /\ d.serverKey = conf.key /\ d.verified = p.verified
        BY <2>2, <2>3, <3>2 DEF Keeps, ConnFields
      <3>6. AwaitsDone(d, q, Rest5)
        BY <1>1, <3>2, <3>4, <3>5 DEF AwaitsDone, Reading, Verified
      <3> QED
        BY <2>1, <3>1, <3>4, <3>6, ReadingOn
    <2> QED
      BY <2>4, <2>5
  <1>2. CASE conf.auth = 0
    <2>1. Next4 = DoneMsg /\ Tail(Rest4) = <<>>
      BY <1>2, NextMessages, RestHeads
    <2>2. OnCertificateRequest(p, DoneMsg) = OnServerHelloDone(p, DoneMsg)
      BY DEF OnCertificateRequest, DoneMsg
    <2>3. Hash5(q) = Hash4(q)
      BY <1>2 DEF Hash5
    <2> QED
      BY <1>2, <2>1, <2>2, <2>3, ClientFlightSends
  <1> QED
    BY <1>1, <1>2

LEMMA KeyRead ==
    ASSUME ConfOK, n \in Nat, NEW p, NEW q, Reading(p, q), p.transcript = Hash3(q),
           ~p.certReq, p.curve = None, p.serverKey = conf.key, Verified(p)
    PROVE  ClientTo(OnServerKeyExchange(p, Next3(q)), q, Tail(Rest3(q)))
  <1>0. p.suite = q.suite /\ DOMAIN p = ConnFields
    BY DEF Reading, InFlight, Follows
  <1>1. CASE ECDHE(q.suite)
    <2> DEFINE m == SKEMsg(q)
               x == Hashed(p, m)
               d == [x EXCEPT !.curve = q.curve, !.pc = "certificateRequest"]
    <2>1. Next3(q) = m /\ Tail(Rest3(q)) = Rest4
      BY <1>1, NextMessages, RestHeads
    <2>2. /\ m.type = "serverKeyExchange" /\ m.curve = q.curve
          /\ m.signed = [key |-> p.serverKey, n |-> n, curve |-> m.curve]
      BY DEF SKEMsg
    <2>3. Keeps(x, p, {"transcript"}) /\ x.transcript = Hash4(q)
      <3>1. Digest(m) = m
        BY DEF Digest, SKEMsg
      <3> QED
        BY <1>0, <1>1, <3>1, HashedFields DEF Hash4
    <2> HIDE DEF x, m
    <2>4. OnServerKeyExchange(p, m) = d
      BY <1>0, <1>1, <2>2 DEF OnServerKeyExchange, x
    <2>5. /\ Keeps(d, x, {"curve", "pc"}) /\ d.curve = q.curve
          /\ d.pc = "certificateRequest"
      BY <2>3 DEF Keeps, ConnFields
    <2> HIDE DEF d
    <2>6. Keeps(d, p, {"pc", "transcript", "certReq", "curve", "serverKey",
                       "verified"})
      BY <2>3, <2>5 DEF Keeps
    <2>7. Reading(d, q)
      BY <2>5, <2>6, ReadingKept
    <2>8. /\ d.transcript = Hash4(q) /\ d.certReq = p.certReq
          /\ d.serverKey = conf.key /\ d.verified = p.verified
      BY <2>3, <2>5 DEF Keeps, ConnFields
    <2>9. AwaitsRequest(d, q, Rest4)
      BY <2>5, <2>7, <2>8 DEF AwaitsRequest, Reading, Verified
    <2> QED
      BY <2>1, <2>4, <2>7, <2>9, ReadingOn
  <1>2. CASE ~ECDHE(q.suite)
    <2>1. Next3(q) = Next4 /\ Rest3(q) = Rest4 /\ Hash4(q) = Hash3(q)
      BY <1>2, NextMessages, RestHeads DEF Hash4
    <2>2. OnServerKeyExchange(p, Next4) = OnCertificateRequest(p, Next4)
      BY NextMessages DEF OnServerKeyExchange
    <2>3. q.curve = None
      BY <1>2 DEF Reading, ChoseFull
    <2> QED
      BY <2>1, <2>2, <2>3, RequestRead
  <1> QED
    BY <1>1, <1>2

LEMMA ServerIsVerified ==
    ASSUME ConfOK, n \in Nat, NEW p, NEW q, Reading(p, q), p.transcript = Hash3(q),
           ~p.certReq, p.curve = None, p.serverKey = conf.key
    PROVE  LET x == verifyServerCertificate(p)
           IN ClientTo(IF x.pc = "failed" THEN x
                       ELSE OnServerKeyExchange(x, Next3(q)), q, Tail(Rest3(q)))
  <1> DEFINE x == verifyServerCertificate(p)
             r == [p EXCEPT !.verified = ~conf.insecure /\ conf.trusts]
  <1>0. DOMAIN p = ConnFields
    BY DEF Reading
  <1>1. /\ Keeps(r, p, {"verified"})
        /\ r.verified <=> (~conf.insecure /\ conf.trusts)
    BY <1>0 DEF Keeps, ConnFields
  <1>2. CASE (~conf.insecure /\ ~conf.trusts) \/ conf.clientVetoes
    <2>1. x = Alert(r, "bad_certificate")
      BY <1>2 DEF verifyServerCertificate
    <2> HIDE DEF x, r
    <2>2. /\ DOMAIN r = ConnFields /\ r.out = p.out /\ r.sendBuf = p.sendBuf
          /\ r.session = p.session
      BY <1>1 DEF Keeps, ConnFields
    <2>3. /\ r.out = None /\ r.sendBuf = <<>>
          /\ r.session # None => SessionOK(r.session, conf.name)
      BY <2>2 DEF Reading, InFlight, Follows, Quiet, NoKeys, Offers
    <2>4. /\ q.pc \in {"certificate", "keyExchange", "ccs"} /\ q.in = None
          /\ Quiet(q)
      BY ServerListens DEF Reading
    <2>5. ClientTo(x, q, Tail(Rest3(q))) /\ x.pc = "failed"
      BY <1>2, <2>1, <2>2, <2>3, <2>4, ClientAlerts
    <2> QED
      BY <2>5 DEF x
  <1>3. CASE ~((~conf.insecure /\ ~conf.trusts) \/ conf.clientVetoes)
    <2>1. x = r
      BY <1>3 DEF verifyServerCertificate
    <2> HIDE DEF x, r
    <2>2. /\ r.transcript = Hash3(q) /\ r.certReq = p.certReq /\ r.curve = None
          /\ r.serverKey = conf.key /\ r.pc = p.pc
      BY <1>1 DEF Keeps, ConnFields
    <2>3. Verified(r)
      BY <1>1, <1>3 DEF Verified
    <2>4. Keeps(r, p, {"pc", "transcript", "certReq", "curve", "serverKey",
                       "verified"})
      BY <1>1 DEF Keeps
    <2>5. Reading(r, q) /\ r.pc # "failed"
      BY <2>2, <2>4, ReadingKept DEF Reading
    <2>6. ClientTo(OnServerKeyExchange(r, Next3(q)), q, Tail(Rest3(q)))
      BY <2>2, <2>3, <2>5, KeyRead
    <2> QED
      BY <2>1, <2>5, <2>6 DEF x
  <1> QED
    BY <1>2, <1>3

-----------------------------------------------------------------------------
(* Where the two ends are in each stage.                                   *)

LEMMA StagePlaces ==
    ASSUME NEW p, NEW q, NEW ts, NEW tc
    PROVE  /\ Starting(p, q, ts, tc) => p.pc = "start" /\ q.pc = "clientHello"
           /\ HelloSent(p, q, ts, tc) =>
                p.pc = "serverHello" /\ q.pc = "clientHello"
           /\ ServerFlight(p, q, ts, tc) =>
                /\ p.pc \in {"serverHello", "certificate", "certificateStatus",
                             "serverKeyExchange", "certificateRequest",
                             "serverHelloDone"}
                /\ q.pc \in {"certificate", "keyExchange"}
           /\ ClientFlightSent(p, q, ts, tc) =>
                /\ p.pc \in {"ticket", "ccs"}
                /\ q.pc \in {"certificate", "keyExchange", "certificateVerify",
                             "ccs", "finished"}
           /\ ServerDone(p, q, ts, tc) =>
                p.pc \in {"ticket", "ccs", "finished", "done"} /\ q.pc = "done"
           /\ Resuming(p, q, ts, tc) =>
                /\ p.pc \in {"serverHello", "ticket", "ccs", "finished"}
                /\ q.pc = "ccs"
           /\ Resumed(p, q, ts, tc) =>
                p.pc = "done" /\ q.pc \in {"ccs", "finished", "done"}
           /\ ResumeRefused(p, q, ts, tc) =>
                p.pc = "serverHello" /\ q.pc = "failed"
           /\ ServerRefused(p, q, ts, tc) =>
                p.pc \in {"serverHello", "ticket", "ccs"} /\ q.pc = "failed"
           /\ ClientRefused(p, q, ts, tc) =>
                /\ p.pc = "failed"
                /\ q.pc \in {"certificate", "keyExchange", "ccs"}
           /\ BothFailed(p, q) => p.pc = "failed" /\ q.pc = "failed"
  <1>1. Starting(p, q, ts, tc) => p.pc = "start" /\ q.pc = "clientHello"
    BY NewConnFields DEF Starting
  <1>2. HelloSent(p, q, ts, tc) => p.pc = "serverHello" /\ q.pc = "clientHello"
    BY NewConnFields DEF HelloSent, Fresh
  <1>3. ServerFlight(p, q, ts, tc) =>
          /\ p.pc \in {"serverHello", "certificate", "certificateStatus",
                       "serverKeyExchange", "certificateRequest",
                       "serverHelloDone"}
          /\ q.pc \in {"certificate", "keyExchange"}
    BY DEF ServerFlight, Fresh, AwaitsCert, AwaitsStatus, AwaitsKey,
           AwaitsRequest, AwaitsDone, ServerAwaitsFlight
  <1>4. ClientFlightSent(p, q, ts, tc) =>
          /\ p.pc \in {"ticket", "ccs"}
          /\ q.pc \in {"certificate", "keyExchange", "certificateVerify",
                       "ccs", "finished"}
    BY DEF ClientFlightSent, ClientAwaitsEnd, AtCertificate, AtKeyExchange,
           AtVerify, AtCCS, AtFinished
  <1>5. ServerDone(p, q, ts, tc) =>
          p.pc \in {"ticket", "ccs", "finished", "done"} /\ q.pc = "done"
    BY DEF ServerDone, ServerEnded, ClientEnds
  <1>6. Resuming(p, q, ts, tc) =>
          /\ p.pc \in {"serverHello", "ticket", "ccs", "finished"}
          /\ q.pc = "ccs"
    BY DEF Resuming, Fresh, ClientResumes, ClientEnds, ServerAwaitsCCS
  <1>7. Resumed(p, q, ts, tc) =>
          p.pc = "done" /\ q.pc \in {"ccs", "finished", "done"}
    BY DEF Resumed, ServerAwaitsCCS
  <1>8. ResumeRefused(p, q, ts, tc) => p.pc = "serverHello" /\ q.pc = "failed"
    BY DEF ResumeRefused, Fresh, Refuses
  <1>9. ServerRefused(p, q, ts, tc) =>
          p.pc \in {"serverHello", "ticket", "ccs"} /\ q.pc = "failed"
    BY DEF ServerRefused, Refuses
  <1>10. ClientRefused(p, q, ts, tc) =>
          p.pc = "failed" /\ q.pc \in {"certificate", "keyExchange", "ccs"}
    BY DEF ClientRefused, Refuses
  <1>11. BothFailed(p, q) => p.pc = "failed" /\ q.pc = "failed"
    BY DEF BothFailed, Refuses
  <1> QED
    BY <1>1, <1>2, <1>3, <1>4, <1>5, <1>6, <1>7, <1>8, <1>9, <1>10, <1>11, Zenon

\* The next record, sealed with the key the reader has, is a message.
LEMMA ReadsMessage ==
    ASSUME NEW x, NEW record, NEW m, record = Rec(x.in, m), x.pc # "failed"
    PROVE  Opened(x, record, FALSE) = x /\ record.msg = m
  BY DEF Opened, Rec

LEMMA InvFacts ==
    ASSUME ConnInv
    PROVE  /\ ConfOK /\ n \in Nat /\ clock \in Nat /\ WorldOK /\ CacheOK(cache)
           /\ DOMAIN c = ConnFields /\ DOMAIN s = ConnFields
           /\ Stage(c, s, toServer, toClient)
  <1>1. n \in 1 .. MaxConns /\ MaxConns \in Nat
    BY ConfigAssumption DEF ConnInv, WorldOK
  <1> QED
    BY <1>1 DEF ConnInv, WorldOK, ConfOK

\* A client in the middle of the server's flight.
LEMMA FlightPlaces ==
    ASSUME ConnInv, c.pc \in {"certificate", "certificateStatus",
                              "serverKeyExchange", "certificateRequest",
                              "serverHelloDone"}
    PROVE  /\ Reading(c, s) /\ toServer = <<>>
           /\ c.in = None
           /\ c.pc = "certificate" => AwaitsCert(c, s, toClient)
           /\ c.pc = "certificateStatus" => AwaitsStatus(c, s, toClient)
           /\ c.pc = "serverKeyExchange" => AwaitsKey(c, s, toClient)
           /\ c.pc = "certificateRequest" => AwaitsRequest(c, s, toClient)
           /\ c.pc = "serverHelloDone" => AwaitsDone(c, s, toClient)
  <1>1. ServerFlight(c, s, toServer, toClient)
    BY InvFacts, StagePlaces DEF Stage
  <1>2. ~Fresh(c)
    BY DEF Fresh
  <1>3. \/ AwaitsCert(c, s, toClient) \/ AwaitsStatus(c, s, toClient)
        \/ AwaitsKey(c, s, toClient) \/ AwaitsRequest(c, s, toClient)
        \/ AwaitsDone(c, s, toClient)
    BY <1>1, <1>2 DEF ServerFlight
  <1>4. InFlight(c, s)
    BY <1>3 DEF AwaitsCert, AwaitsStatus, AwaitsKey, AwaitsRequest, AwaitsDone
  <1>5. Reading(c, s) /\ toServer = <<>>
    BY <1>1, <1>4, InvFacts DEF Reading, ServerFlight
  <1>6. /\ AwaitsCert(c, s, toClient) => c.pc = "certificate"
        /\ AwaitsStatus(c, s, toClient) => c.pc = "certificateStatus"
        /\ AwaitsKey(c, s, toClient) => c.pc = "serverKeyExchange"
        /\ AwaitsRequest(c, s, toClient) => c.pc = "certificateRequest"
        /\ AwaitsDone(c, s, toClient) => c.pc = "serverHelloDone"
    BY DEF AwaitsCert, AwaitsStatus, AwaitsKey, AwaitsRequest, AwaitsDone
  <1>7. c.in = None
    BY <1>4 DEF InFlight, NoKeys
  <1> QED
    BY <1>3, <1>5, <1>6, <1>7

LEMMA CertificateStep ==
    ASSUME ConnInv, ReadCertificate
    PROVE  StepOK
  <1> DEFINE x == Hashed(c, CertMsg)
             r == [x EXCEPT !.serverKey = conf.key, !.pc = "certificateStatus"]
  <1>0. c.pc = "certificate"
    BY DEF ReadCertificate, ClientReads
  <1>1. Reading(c, s) /\ toServer = <<>> /\ AwaitsCert(c, s, toClient) /\ c.in = None
    BY <1>0, FlightPlaces
  <1>2. Head(toClient) = Rec(None, CertMsg) /\ Tail(toClient) = Rest2(s)
    BY <1>1, RestHeads DEF AwaitsCert
  <1>3. /\ CertMsg.type = "certificate" /\ CertMsg.cert = conf.key
        /\ Digest(CertMsg) = CertMsg
    BY DEF CertMsg, Digest
  <1>4. /\ Receive(c, Head(toClient), {"certificate"}) = c
        /\ Head(toClient).msg = CertMsg
    <2>1. Opened(c, Head(toClient), FALSE) = c /\ Head(toClient).msg = CertMsg
      BY <1>0, <1>1, <1>2, ReadsMessage
    <2> QED
      BY <1>3, <2>1 DEF Receive, Then
  <1>5. ClientBecomes(r) /\ cache' = CacheAfter(r) /\ toClient' = Rest2(s)
    BY <1>0, <1>2, <1>3, <1>4 DEF ReadCertificate, ClientReads, Then
  <1>6. Keeps(x, c, {"transcript"}) /\ x.transcript = Hash2(s)
    BY <1>1, <1>3, HashedFields DEF Reading, AwaitsCert, Hash2
  <1> HIDE DEF x
  <1>7. /\ Keeps(r, x, {"serverKey", "pc"}) /\ r.serverKey = conf.key
        /\ r.pc = "certificateStatus"
    BY <1>6 DEF Keeps, ConnFields
  <1> HIDE DEF r
  <1>8. Keeps(r, c, {"pc", "transcript", "certReq", "curve", "serverKey",
                     "verified"})
    BY <1>6, <1>7 DEF Keeps
  <1>9. Reading(r, s)
    BY <1>1, <1>7, <1>8, ReadingKept
  <1>10. r.transcript = Hash2(s) /\ r.certReq = c.certReq /\ r.curve = c.curve
    BY <1>6, <1>7 DEF Keeps, ConnFields
  <1>11. AwaitsStatus(r, s, Rest2(s))
    BY <1>1, <1>7, <1>9, <1>10 DEF AwaitsStatus, AwaitsCert, Reading
  <1>12. ClientTo(r, s, toClient')
    BY <1>5, <1>9, <1>11, ReadingOn
  <1> QED
    BY <1>1, <1>5, <1>12, InvFacts, ClientMoves

LEMMA StatusStep ==
    ASSUME ConnInv, ReadCertificateStatus
    PROVE  StepOK
  <1> DEFINE m == Next2(s)
             v == verifyServerCertificate(c)
             x == Hashed(c, StatusMsg)
             d == [x EXCEPT !.pc = "serverKeyExchange"]
             e == IF v.pc = "failed" THEN v ELSE OnServerKeyExchange(v, m)
             r == IF m.type # "certificateStatus" THEN e
                  ELSE IF c.serverHello.ocspStapling THEN [Hashed(c, m) EXCEPT !.pc = "serverKeyExchange"]
                  ELSE Alert(c, "unexpected_message")
  <1>0. c.pc = "certificateStatus"
    BY DEF ReadCertificateStatus, ClientReads
  <1>1. /\ Reading(c, s) /\ toServer = <<>> /\ AwaitsStatus(c, s, toClient)
        /\ c.in = None /\ DOMAIN c = ConnFields
    BY <1>0, FlightPlaces, InvFacts
  <1>2. toClient = Rest2(s) /\ Head(toClient) = Rec(None, m)
    BY <1>1, NextMessages DEF AwaitsStatus
  <1>3. Opened(c, Head(toClient), FALSE) = c /\ Head(toClient).msg = m
    BY <1>0, <1>1, <1>2, ReadsMessage
  <1>4. ClientBecomes(r) /\ cache' = CacheAfter(r) /\ toClient' = Tail(Rest2(s))
    BY <1>0, <1>2, <1>3 DEF ReadCertificateStatus, ClientReads, Then
  <1>5. ClientTo(r, s, Tail(Rest2(s)))
    <2>1. CASE conf.staple
      <3>1. m = StatusMsg /\ Tail(Rest2(s)) = Rest3(s)
        BY <2>1, NextMessages, RestHeads
      <3>2. StatusMsg.type = "certificateStatus" /\ Digest(StatusMsg) = StatusMsg
        BY DEF StatusMsg, Digest
      <3>3. c.serverHello.ocspStapling
        BY <1>1, <2>1 DEF Reading, InFlight, Follows, ChoseFull
      <3>4. r = d
        BY <3>1, <3>2, <3>3
      <3>5. Keeps(x, c, {"transcript"}) /\ x.transcript = Hash3(s)
        BY <1>1, <2>1, <3>2, HashedFields DEF AwaitsStatus, Hash3
      <3> HIDE DEF x, r
      <3>6. Keeps(d, x, {"pc"}) /\ d.pc = "serverKeyExchange"
        BY <3>5 DEF Keeps, ConnFields
      <3> HIDE DEF d
      <3>7. Keeps(d, c, {"pc", "transcript", "certReq", "curve", "serverKey",
                         "verified"})
        BY <3>5, <3>6 DEF Keeps
      <3>8. Reading(d, s)
        BY <1>1, <3>6, <3>7, ReadingKept
      <3>9. /\ d.transcript = Hash3(s) /\ d.certReq = c.certReq
            /\ d.curve = c.curve /\ d.serverKey = c.serverKey
        BY <3>5, <3>6 DEF Keeps, ConnFields
      <3>10. AwaitsKey(d, s, Rest3(s))
        BY <1>1, <3>6, <3>8, <3>9 DEF AwaitsStatus, AwaitsKey, Reading
      <3> QED
        BY <3>1, <3>4, <3>8, <3>10, ReadingOn
    <2>2. CASE ~conf.staple
      <3>1. m = Next3(s) /\ Rest2(s) = Rest3(s) /\ m.type # "certificateStatus"
        BY <2>2, NextMessages, RestHeads
      <3>2. Hash3(s) = Hash2(s)
        BY <2>2 DEF Hash3
      <3>3. ClientTo(IF v.pc = "failed" THEN v ELSE OnServerKeyExchange(v, Next3(s)),
                     s, Tail(Rest3(s)))
        BY <1>1, <3>2, ServerIsVerified, InvFacts DEF AwaitsStatus
      <3> HIDE DEF v, m
      <3> QED
        BY <3>1, <3>3
    <2> QED
      BY <2>1, <2>2
  <1> HIDE DEF r
  <1> QED
    BY <1>1, <1>4, <1>5, InvFacts, ClientMoves

LEMMA KeyExchangeStep ==
    ASSUME ConnInv, ReadServerKeyExchange
    PROVE  StepOK
  <1> DEFINE m == Next3(s)
             v == verifyServerCertificate(c)
             r == IF v.pc = "failed" THEN v ELSE OnServerKeyExchange(v, m)
  <1>0. c.pc = "serverKeyExchange"
    BY DEF ReadServerKeyExchange, ClientReads
  <1>1. /\ Reading(c, s) /\ toServer = <<>> /\ AwaitsKey(c, s, toClient)
        /\ c.in = None
    BY <1>0, FlightPlaces
  <1>2. toClient = Rest3(s) /\ Head(toClient) = Rec(None, m)
    BY <1>1, NextMessages DEF AwaitsKey
  <1>3. Opened(c, Head(toClient), FALSE) = c /\ Head(toClient).msg = m
    BY <1>0, <1>1, <1>2, ReadsMessage
  <1>4. ClientBecomes(r) /\ cache' = CacheAfter(r) /\ toClient' = Tail(Rest3(s))
    BY <1>0, <1>2, <1>3 DEF ReadServerKeyExchange, ClientReads, Then
  <1>5. ClientTo(r, s, Tail(Rest3(s)))
    BY <1>1, ServerIsVerified, InvFacts DEF AwaitsKey
  <1> HIDE DEF r
  <1> QED
    BY <1>1, <1>4, <1>5, InvFacts, ClientMoves

LEMMA RequestStep ==
    ASSUME ConnInv, ReadCertificateRequest
    PROVE  StepOK
  <1> DEFINE r == OnCertificateRequest(c, Next4)
  <1>0. c.pc = "certificateRequest"
    BY DEF ReadCertificateRequest, ClientReads
  <1>1. /\ Reading(c, s) /\ toServer = <<>> /\ AwaitsRequest(c, s, toClient)
        /\ c.in = None
    BY <1>0, FlightPlaces
  <1>2. toClient = Rest4 /\ Head(toClient) = Rec(None, Next4)
    BY <1>1, NextMessages DEF AwaitsRequest
  <1>3. Opened(c, Head(toClient), FALSE) = c /\ Head(toClient).msg = Next4
    BY <1>0, <1>1, <1>2, ReadsMessage
  <1>4. ClientBecomes(r) /\ cache' = CacheAfter(r) /\ toClient' = Tail(Rest4)
    BY <1>0, <1>2, <1>3 DEF ReadCertificateRequest, ClientReads, Then
  <1>5. ClientTo(r, s, Tail(Rest4))
    BY <1>1, RequestRead, InvFacts DEF AwaitsRequest
  <1> HIDE DEF r
  <1> QED
    BY <1>1, <1>4, <1>5, InvFacts, ClientMoves

LEMMA HelloDoneStep ==
    ASSUME ConnInv, ReadServerHelloDone
    PROVE  StepOK
  <1> DEFINE r == OnServerHelloDone(c, DoneMsg)
  <1>0. c.pc = "serverHelloDone"
    BY DEF ReadServerHelloDone, ClientReads
  <1>1. /\ Reading(c, s) /\ toServer = <<>> /\ AwaitsDone(c, s, toClient)
        /\ c.in = None
    BY <1>0, FlightPlaces
  <1>2. Head(toClient) = Rec(None, DoneMsg) /\ Tail(toClient) = <<>>
    BY <1>1, RestHeads DEF AwaitsDone
  <1>3. Opened(c, Head(toClient), FALSE) = c /\ Head(toClient).msg = DoneMsg
    BY <1>0, <1>1, <1>2, ReadsMessage
  <1>4. ClientBecomes(r) /\ cache' = CacheAfter(r) /\ toClient' = <<>>
    BY <1>0, <1>2, <1>3 DEF ReadServerHelloDone, ClientReads, Then
  <1>5. ClientTo(r, s, <<>>)
    BY <1>1, ClientFlightSends, InvFacts DEF AwaitsDone
  <1> HIDE DEF r
  <1> QED
    BY <1>1, <1>4, <1>5, InvFacts, ClientMoves

-----------------------------------------------------------------------------
(* The client's hello and the server's.                                    *)

LEMMA AfterSame ==
    ASSUME NEW r, DOMAIN r = ConnFields, r.sendBuf = <<>>
    PROVE  Keeps(After(r), r, {}) /\ Passed(r) = <<>> /\ IsSeq(r.sendBuf)
  <1> DEFINE y == After(r)
  <1>1. Keeps(y, r, {"sendBuf"}) /\ y.sendBuf = r.sendBuf /\ Passed(r) = <<>>
    BY AfterFields
  <1>2. IsSeq(r.sendBuf)
    BY SeqAny
  <1> HIDE DEF y
  <1>3. Keeps(y, r, {})
    BY <1>1 DEF Keeps
  <1> QED
    BY <1>1, <1>2, <1>3 DEF y

LEMMA ClientHelloStep ==
    ASSUME ConnInv, ClientHello
    PROVE  StepOK
  <1> DEFINE found == IF conf.caching THEN Cache!State(cache, conf.name) ELSE None
             session == loadSession(found, offeredSuites)
             hello == makeClientHello(session, offeredSuites)
             x == [c EXCEPT !.hello = hello, !.offered = session,
                            !.session = session, !.pc = "serverHello"]
             r == Send(x, "handshake", hello)
             y == After(r)
  <1>0. c.pc = "start" /\ DOMAIN c = ConnFields
    BY InvFacts DEF ClientHello
  <1>1. Starting(c, s, toServer, toClient)
    BY <1>0, InvFacts, StagePlaces DEF Stage
  <1>2. ClientBecomes(r) /\ cache' = CacheAfterLoad(found) /\ UNCHANGED toClient
    BY DEF ClientHello, offeredSuites
  <1>3. session # None =>
          SessionOK(session, conf.name) /\ (~conf.insecure => session.verified)
    <2>1. found # None => SessionOK(found, conf.name)
      BY CacheState, InvFacts
    <2> HIDE DEF found
    <2>2. session # None => session = found /\ (~conf.insecure => found.verified)
      BY DEF loadSession
    <2> QED
      BY <2>1, <2>2
  <1>4. CacheOK(cache')
    BY <1>2, CacheLoaded, InvFacts
  <1> HIDE DEF found, session, hello
  <1>5. /\ Keeps(x, c, {"hello", "offered", "session", "pc"})
        /\ x.hello = hello /\ x.offered = session /\ x.session = session
        /\ x.pc = "serverHello"
    BY <1>0 DEF Keeps, ConnFields
  <1> HIDE DEF x
  <1>6. /\ NoKeys(c) /\ Quiet(c) /\ ~c.buffering /\ c.resumed = FALSE /\ ~c.certReq
        /\ c.curve = None
    BY <1>1, NewConnFields DEF Starting
  <1>7. /\ Keeps(r, x, {"sendBuf"})
        /\ r.sendBuf = Append(x.sendBuf, Rec(x.out, hello))
    BY <1>5, SendFields DEF Keeps, Rec
  <1>8. x.sendBuf = <<>> /\ x.out = None
    BY <1>5, <1>6 DEF Keeps, ConnFields, Quiet, NoKeys
  <1>9. r.sendBuf = <<Rec(None, hello)>> /\ IsSeq(r.sendBuf)
    <2> HIDE DEF r
    <2>1. r.sendBuf = Append(<<>>, Rec(None, hello))
      BY <1>7, <1>8
    <2>2. r.sendBuf = <<Rec(None, hello)>>
      BY <2>1
    <2> QED
      BY <2>2, SeqAny
  <1> HIDE DEF r
  <1>10. DOMAIN r = ConnFields /\ ~r.buffering
    BY <1>5, <1>6, <1>7 DEF Keeps, ConnFields
  <1>11. /\ Keeps(y, r, {"sendBuf"}) /\ y.sendBuf = <<>>
         /\ Passed(r) = <<Rec(None, hello)>>
    BY <1>9, <1>10, AfterFields
  <1>12. c' = y /\ toServer' = <<Rec(None, hello)>>
    <2>1. toServer = <<>>
      BY <1>1 DEF Starting
    <2>2. toServer' = Passed(r)
      BY <1>2, <1>9, <2>1, PassedSeq DEF ClientBecomes
    <2> QED
      BY <1>2, <1>11, <2>2 DEF ClientBecomes, After
  <1> HIDE DEF y
  <1>13. /\ y.hello = hello /\ y.offered = session /\ y.session = session
         /\ y.pc = "serverHello" /\ y.in = c.in /\ y.out = c.out
         /\ y.nextIn = c.nextIn /\ y.nextOut = c.nextOut /\ y.err = c.err
         /\ y.buffering = c.buffering /\ y.resumed = c.resumed
         /\ y.certReq = c.certReq /\ y.curve = c.curve /\ DOMAIN y = ConnFields
    BY <1>5, <1>7, <1>11 DEF Keeps, ConnFields
  <1>14. Offers(y)
    BY <1>3, <1>13 DEF Offers, hello
  <1>15. Fresh(y)
    BY <1>6, <1>11, <1>13 DEF Fresh, NoKeys, Quiet
  <1>16. HelloSent(y, s, toServer', toClient')
    BY <1>1, <1>2, <1>12, <1>13, <1>14, <1>15 DEF HelloSent, Starting
  <1>17. s' = s /\ UNCHANGED <<conf, n, clock, keys, made>>
    BY <1>2 DEF ClientBecomes, world
  <1>18. Stage(c', s', toServer', toClient')
    BY <1>12, <1>16, <1>17 DEF Stage
  <1> QED
    BY <1>4, <1>12, <1>13, <1>17, <1>18, InvFacts DEF StepOK

\* What the server announces passes the client's checks.
LEMMA HelloPasses ==
    ASSUME ConfOK, NEW p, NEW q, NEW id, Offers(p), Announced(q, id),
           p.pc # "failed"
    PROVE  LET r == processServerHello(p, q.serverHello)
           IN /\ OnServerHello(p, q.serverHello) =
                   IF r.pc = "failed" THEN r ELSE handshake(r)
              /\ q.serverHello.suite \in Range(p.hello.suites)
              /\ checkALPN(p.hello.protos, q.serverHello.proto)
              /\ p.hello.sessionId = n
  <1> DEFINE m == q.serverHello
             r == processServerHello(p, m)
  <1>1. /\ p.hello.suites = offeredSuites /\ p.hello.protos = conf.clientProtos
        /\ p.hello.sessionId = n
    BY DEF Offers, makeClientHello
  <1>2. /\ m.vers = bestVersion /\ bestVersion # None /\ m.proto = bestProto
        /\ m.suite \in Range(offeredSuites)
        /\ m.canary = Canary(bestVersion, Head(serverVersions))
    BY DEF Announced
  <1> HIDE DEF m
  <1>3. /\ bestVersion \in Range(clientVersions)
        /\ ~DowngradeDetected(bestVersion, Head(clientVersions), m.canary)
    BY <1>2, BestVersion
  <1>4. mutualVersion(clientVersions, <<m.vers>>) = bestVersion
    BY <1>2, <1>3, OneVersion
  <1>5. OnServerHello(p, m) = IF r.pc = "failed" THEN r ELSE handshake(r)
    BY <1>2, <1>3, <1>4 DEF OnServerHello, Then
  <1>6. checkALPN(p.hello.protos, m.proto)
    BY <1>1, <1>2, ProtoSettled
  <1> QED
    BY <1>1, <1>2, <1>5, <1>6 DEF m

LEMMA HelloStarts ==
    ASSUME ConfOK, n \in Nat, NEW p, NEW q, DOMAIN p = ConnFields, Offers(p),
           Fresh(p), ChoseFull(p, q), ServerAwaitsFlight(q)
    PROVE  ClientTo(OnServerHello(p, q.serverHello), q, Rest1(q))
  <1> DEFINE m == q.serverHello
             a == [p EXCEPT !.vers = m.vers, !.suite = m.suite, !.serverHello = m]
             x == [a EXCEPT !.proto = m.proto]
             h == [x EXCEPT !.transcript = <<x.hello, x.serverHello>>,
                            !.buffer = /\ ~x.resumed
                                       /\ \/ conf.clientCert # "none"
                                          \/ conf.getCertFails,
                            !.buffering = TRUE]
             r == [h EXCEPT !.pc = "certificate"]
  <1>0. /\ Announced(q, None) /\ q.hello = p.hello /\ q.proto = bestProto
        /\ p.pc = "serverHello" /\ p.resumed = FALSE
    BY DEF ChoseFull, Chosen, Fresh
  <1>1. /\ OnServerHello(p, m) =
             IF processServerHello(p, m).pc = "failed" THEN processServerHello(p, m)
             ELSE handshake(processServerHello(p, m))
        /\ m.suite \in Range(p.hello.suites) /\ checkALPN(p.hello.protos, m.proto)
        /\ p.hello.sessionId = n
    BY <1>0, HelloPasses
  <1>2. m.sessionId = None /\ None # n /\ m.vers = q.vers /\ m.suite = q.suite
        /\ m.proto = bestProto
    BY <1>0, NoneAssumption DEF Announced
  <1>3. ~serverResumedSession(p, m)
    BY <1>1, <1>2 DEF serverResumedSession
  <1>4. processServerHello(p, m) = x
    BY <1>1, <1>3 DEF processServerHello
  <1> HIDE DEF m
  <1>5. /\ Keeps(a, p, {"vers", "suite", "serverHello"})
        /\ a.vers = m.vers /\ a.suite = m.suite /\ a.serverHello = m
    BY DEF Keeps, ConnFields
  <1> HIDE DEF a
  <1>6. Keeps(x, a, {"proto"}) /\ x.proto = m.proto
    BY <1>5 DEF Keeps, ConnFields
  <1> HIDE DEF x
  <1>7. /\ x.pc = "serverHello" /\ x.resumed = FALSE /\ x.hello = p.hello
        /\ x.serverHello = m /\ x.vers = m.vers /\ x.suite = m.suite
    BY <1>0, <1>5, <1>6 DEF Keeps, ConnFields
  <1>8. OnServerHello(p, m) = r
    BY <1>1, <1>4, <1>7 DEF handshake
  <1>9. /\ Keeps(h, x, {"transcript", "buffer", "buffering"})
        /\ h.transcript = <<x.hello, x.serverHello>> /\ h.buffering
        /\ h.buffer <=> (conf.clientCert # "none" \/ conf.getCertFails)
    BY <1>6, <1>7 DEF Keeps, ConnFields
  <1> HIDE DEF h
  <1>10. Keeps(r, h, {"pc"}) /\ r.pc = "certificate"
    BY <1>9 DEF Keeps, ConnFields
  <1> HIDE DEF r
  <1>11. Keeps(r, p, {"pc", "vers", "suite", "serverHello", "proto", "transcript",
                      "buffer", "buffering"})
    BY <1>5, <1>6, <1>9, <1>10 DEF Keeps
  <1>12. /\ r.vers = m.vers /\ r.suite = m.suite /\ r.serverHello = m
         /\ r.proto = m.proto /\ r.transcript = <<p.hello, m>> /\ r.buffering
         /\ r.buffer <=> (conf.clientCert # "none" \/ conf.getCertFails)
    BY <1>6, <1>7, <1>9, <1>10 DEF Keeps, ConnFields
  <1>13. /\ r.hello = p.hello /\ r.offered = p.offered /\ r.session = p.session
         /\ r.sendBuf = p.sendBuf /\ r.err = p.err /\ r.resumed = p.resumed
         /\ r.in = p.in /\ r.out = p.out /\ r.nextIn = p.nextIn
         /\ r.nextOut = p.nextOut /\ r.certReq = p.certReq /\ r.curve = p.curve
         /\ DOMAIN r = ConnFields
    BY <1>11 DEF Keeps, ConnFields
  <1>14. Offers(r) /\ ChoseFull(r, q)
    BY <1>13 DEF Offers, ChoseFull, Chosen
  <1>15. InFlight(r, q)
    BY <1>0, <1>2, <1>12, <1>13 DEF InFlight, Follows, Quiet, NoKeys, Fresh, m
  <1>16. Reading(r, q)
    BY <1>10, <1>13, <1>14, <1>15 DEF Reading
  <1>17. r.transcript = Hash1(q)
    BY <1>0, <1>12 DEF Hash1, m
  <1>18. AwaitsCert(r, q, Rest1(q))
    BY <1>10, <1>13, <1>15, <1>17 DEF AwaitsCert, Fresh
  <1> QED
    BY <1>8, <1>16, <1>18, ReadingOn DEF m

\* The fields of a client that takes up the session it offered.
LEMMA HelloResumes ==
    ASSUME ConfOK, n \in Nat, NEW p, NEW q, DOMAIN p = ConnFields, Offers(p),
           Fresh(p), Announced(q, n), p.offered # None,
           q.vers = p.offered.vers, q.suite = p.offered.suite
    PROVE  LET r == OnServerHello(p, q.serverHello)
           IN /\ Keeps(r, p, {"pc", "vers", "suite", "serverHello", "proto",
                              "resumed", "secret", "verified", "transcript",
                              "buffer", "buffering", "nextIn", "nextOut"})
              /\ r.pc = IF q.serverHello.ticketSupported THEN "ticket" ELSE "ccs"
              /\ r.vers = q.vers /\ r.suite = q.suite
              /\ r.serverHello = q.serverHello /\ r.proto = bestProto
              /\ r.resumed = TRUE /\ r.secret = p.offered.secret
              /\ r.verified = p.offered.verified
              /\ r.transcript = <<p.hello, q.serverHello>>
              /\ r.nextOut = KeyOf(q, p.offered.secret, "client")
              /\ r.nextIn = KeyOf(q, p.offered.secret, "server")
  <1> DEFINE m == q.serverHello
             a == [p EXCEPT !.vers = m.vers, !.suite = m.suite, !.serverHello = m]
             b == [a EXCEPT !.proto = m.proto]
             x == [b EXCEPT !.resumed = TRUE, !.secret = p.offered.secret,
                            !.verified = p.offered.verified]
             h == [x EXCEPT !.transcript = <<x.hello, x.serverHello>>,
                            !.buffer = /\ ~x.resumed
                                       /\ \/ conf.clientCert # "none"
                                          \/ conf.getCertFails,
                            !.buffering = TRUE]
             e == establishKeys(h, "client", "server")
             r == AwaitTicket(e)
  <1>0. p.pc = "serverHello"
    BY DEF Fresh
  <1>1. /\ OnServerHello(p, m) =
             IF processServerHello(p, m).pc = "failed" THEN processServerHello(p, m)
             ELSE handshake(processServerHello(p, m))
        /\ m.suite \in Range(p.hello.suites) /\ checkALPN(p.hello.protos, m.proto)
        /\ p.hello.sessionId = n
    BY <1>0, HelloPasses
  <1>2. /\ m.sessionId = n /\ m.vers = q.vers /\ m.suite = q.suite
        /\ m.proto = bestProto
    BY DEF Announced
  <1>3. serverResumedSession(p, m)
    BY <1>1, <1>2 DEF serverResumedSession
  <1>4. processServerHello(p, m) = x
    BY <1>1, <1>2, <1>3 DEF processServerHello
  <1> HIDE DEF m
  <1>5. /\ Keeps(a, p, {"vers", "suite", "serverHello"})
        /\ a.vers = m.vers /\ a.suite = m.suite /\ a.serverHello = m
    BY DEF Keeps, ConnFields
  <1> HIDE DEF a
  <1>6. Keeps(b, a, {"proto"}) /\ b.proto = m.proto
    BY <1>5 DEF Keeps, ConnFields
  <1> HIDE DEF b
  <1>7. /\ Keeps(x, b, {"resumed", "secret", "verified"}) /\ x.resumed = TRUE
        /\ x.secret = p.offered.secret /\ x.verified = p.offered.verified
    BY <1>6 DEF Keeps, ConnFields
  <1> HIDE DEF x
  <1>8. /\ x.pc = "serverHello" /\ x.hello = p.hello /\ x.serverHello = m
        /\ x.vers = m.vers /\ x.suite = m.suite /\ x.proto = m.proto
    BY <1>0, <1>5, <1>6, <1>7 DEF Keeps, ConnFields
  <1>9. OnServerHello(p, m) = r
    BY <1>1, <1>4, <1>7, <1>8 DEF handshake
  <1>10. /\ Keeps(h, x, {"transcript", "buffer", "buffering"})
         /\ h.transcript = <<x.hello, x.serverHello>>
    BY <1>7 DEF Keeps, ConnFields
  <1> HIDE DEF h
  <1>11. /\ h.vers = q.vers /\ h.suite = q.suite /\ h.secret = p.offered.secret
         /\ DOMAIN h = ConnFields
    BY <1>2, <1>7, <1>8, <1>10 DEF Keeps, ConnFields
  <1>12. /\ Keeps(e, h, {"nextIn", "nextOut"})
         /\ e.nextOut = KeyOf(h, h.secret, "client")
         /\ e.nextIn = KeyOf(h, h.secret, "server")
    BY <1>11, EstablishFields
  <1> HIDE DEF e
  <1>13. e.serverHello = m
    BY <1>8, <1>10, <1>12 DEF Keeps, ConnFields
  <1>14. /\ Keeps(r, e, {"pc"})
         /\ r.pc = IF m.ticketSupported THEN "ticket" ELSE "ccs"
    BY <1>12, <1>13 DEF Keeps, ConnFields, AwaitTicket
  <1> HIDE DEF r
  <1>15. /\ e.nextOut = KeyOf(q, p.offered.secret, "client")
         /\ e.nextIn = KeyOf(q, p.offered.secret, "server")
    BY <1>11, <1>12 DEF KeyOf
  <1>16. Keeps(r, p, {"pc", "vers", "suite", "serverHello", "proto",
                      "resumed", "secret", "verified", "transcript",
                      "buffer", "buffering", "nextIn", "nextOut"})
    BY <1>5, <1>6, <1>7, <1>10, <1>12, <1>14 DEF Keeps
  <1>17. /\ r.vers = q.vers /\ r.suite = q.suite /\ r.serverHello = m
         /\ r.proto = bestProto /\ r.resumed = TRUE
         /\ r.secret = p.offered.secret /\ r.verified = p.offered.verified
         /\ r.transcript = <<p.hello, m>>
    BY <1>2, <1>7, <1>8, <1>10, <1>12, <1>14 DEF Keeps, ConnFields
  <1>18. r.nextOut = e.nextOut /\ r.nextIn = e.nextIn
    BY <1>14 DEF Keeps, ConnFields
  <1> QED
    BY <1>9, <1>14, <1>15, <1>16, <1>17, <1>18 DEF m

\* A resumption the server goes through with.
LEMMA HelloResumed ==
    ASSUME ConfOK, n \in Nat, NEW p, NEW q, DOMAIN p = ConnFields, Offers(p),
           Fresh(p), ChoseResume(p, q), ServerAwaitsCCS(q)
    PROVE  ClientTo(OnServerHello(p, q.serverHello), q, End1(q, Hash1(q)))
  <1> DEFINE r == OnServerHello(p, q.serverHello)
             y == After(r)
             F == {"pc", "vers", "suite", "serverHello", "proto", "resumed",
                   "secret", "verified", "transcript", "buffer", "buffering",
                   "nextIn", "nextOut"}
  <1>0. /\ Announced(q, n) /\ p.offered # None /\ q.vers = p.offered.vers
        /\ q.suite = p.offered.suite /\ q.secret = p.offered.secret
        /\ q.hello = p.hello /\ q.proto = bestProto
    BY DEF ChoseResume, Chosen
  <1>1. /\ Keeps(r, p, F)
        /\ r.pc = IF q.serverHello.ticketSupported THEN "ticket" ELSE "ccs"
        /\ r.vers = q.vers /\ r.suite = q.suite
        /\ r.serverHello = q.serverHello /\ r.proto = bestProto
        /\ r.resumed = TRUE /\ r.secret = q.secret
        /\ r.verified = p.offered.verified
        /\ r.transcript = <<p.hello, q.serverHello>>
        /\ r.nextOut = KeyOf(q, q.secret, "client")
        /\ r.nextIn = KeyOf(q, q.secret, "server")
    <2>1. /\ Keeps(r, p, F)
          /\ r.pc = IF q.serverHello.ticketSupported THEN "ticket" ELSE "ccs"
          /\ r.vers = q.vers /\ r.suite = q.suite
          /\ r.serverHello = q.serverHello /\ r.proto = bestProto
          /\ r.resumed = TRUE /\ r.secret = p.offered.secret
          /\ r.verified = p.offered.verified
          /\ r.transcript = <<p.hello, q.serverHello>>
          /\ r.nextOut = KeyOf(q, p.offered.secret, "client")
          /\ r.nextIn = KeyOf(q, p.offered.secret, "server")
      BY <1>0, HelloResumes
    <2> HIDE DEF r, F
    <2> QED
      BY <2>1, <1>0
  <1> HIDE DEF r
  <1>2. DOMAIN r = ConnFields /\ r.sendBuf = p.sendBuf /\ r.session = p.session
    BY <1>1 DEF Keeps, ConnFields
  <1>3. Keeps(y, r, {}) /\ Passed(r) = <<>> /\ IsSeq(r.sendBuf)
    BY <1>2, AfterSame DEF Fresh, Quiet
  <1> HIDE DEF y
  <1>4. /\ y.pc = r.pc /\ y.vers = r.vers /\ y.suite = r.suite
        /\ y.serverHello = r.serverHello /\ y.proto = r.proto
        /\ y.resumed = r.resumed /\ y.secret = r.secret /\ y.verified = r.verified
        /\ y.transcript = r.transcript /\ y.nextOut = r.nextOut
        /\ y.nextIn = r.nextIn
    BY <1>3 DEF Keeps, ConnFields
  <1>5. /\ y.hello = p.hello /\ y.offered = p.offered /\ y.session = p.session
        /\ y.sendBuf = p.sendBuf /\ y.err = p.err /\ y.in = p.in /\ y.out = p.out
    BY <1>1, <1>3 DEF Keeps, ConnFields
  <1>6. Offers(y) /\ ChoseResume(y, q)
    BY <1>5 DEF Offers, ChoseResume, Chosen
  <1>7. Follows(y, q) /\ Verified(y)
    BY <1>0, <1>1, <1>4, <1>5 DEF Follows, Verified, Quiet, Fresh, Offers
  <1>8. ClientEnds(y, q, End1(q, Hash1(q)), Hash1(q))
    <2>1. /\ y.transcript = Hash1(q) /\ y.in = None /\ y.nextIn = q.out
      BY <1>0, <1>1, <1>4, <1>5 DEF Hash1, Fresh, NoKeys, ServerAwaitsCCS
    <2>2. CASE q.serverHello.ticketSupported
      BY <2>1, <2>2, <1>1, <1>4 DEF ClientEnds
    <2>3. CASE ~q.serverHello.ticketSupported
      <3>1. End1(q, Hash1(q)) = End2(q, Hash1(q)) /\ WithTicket(q, Hash1(q)) = Hash1(q)
        BY <2>3 DEF End1, WithTicket
      <3> QED
        BY <2>1, <2>3, <3>1, <1>1, <1>4 DEF ClientEnds
    <2> QED
      BY <2>2, <2>3
  <1>9. ClientResumes(y, q, End1(q, Hash1(q)))
    BY <1>1, <1>4, <1>5, <1>7, <1>8 DEF ClientResumes, Fresh, NoKeys
  <1>10. Resuming(y, q, <<>>, End1(q, Hash1(q)))
    BY <1>6, <1>9 DEF Resuming
  <1>11. Stage(y, q, Passed(r), End1(q, Hash1(q)))
    BY <1>3, <1>10 DEF Stage
  <1> QED
    BY <1>2, <1>3, <1>11 DEF ClientTo, Offers, r, y

\* And one it refuses after its hello.
LEMMA HelloRefused ==
    ASSUME ConfOK, n \in Nat, NEW p, NEW q, NEW ts, NEW tc, DOMAIN p = ConnFields,
           ResumeRefused(p, q, ts, tc)
    PROVE  ClientTo(OnServerHello(p, q.serverHello), q, <<AlertRec(q.err)>>)
  <1> DEFINE r == OnServerHello(p, q.serverHello)
             y == After(r)
             F == {"pc", "vers", "suite", "serverHello", "proto", "resumed",
                   "secret", "verified", "transcript", "buffer", "buffering",
                   "nextIn", "nextOut"}
  <1>0. /\ Announced(q, n) /\ p.offered # None /\ q.vers = p.offered.vers
        /\ q.suite = p.offered.suite /\ Offers(p) /\ Fresh(p)
    BY DEF ResumeRefused
  <1>1. /\ Keeps(r, p, F)
        /\ r.pc = IF q.serverHello.ticketSupported THEN "ticket" ELSE "ccs"
    BY <1>0, HelloResumes
  <1> HIDE DEF r
  <1>2. DOMAIN r = ConnFields /\ r.sendBuf = p.sendBuf /\ r.session = p.session
    BY <1>1 DEF Keeps, ConnFields
  <1>3. Keeps(y, r, {}) /\ Passed(r) = <<>> /\ IsSeq(r.sendBuf)
    BY <1>0, <1>2, AfterSame DEF Fresh, Quiet
  <1> HIDE DEF y
  <1>4. y.pc = r.pc /\ y.sendBuf = p.sendBuf /\ y.err = p.err /\ y.in = p.in
    BY <1>1, <1>3 DEF Keeps, ConnFields
  <1>5. ServerCause(q, y)
    BY <1>0 DEF ServerCause, ResumeRefused, Fresh
  <1>6. ServerRefused(y, q, Passed(r), <<AlertRec(q.err)>>)
    BY <1>0, <1>1, <1>4, <1>5
       DEF ServerRefused, ResumeRefused, Fresh, NoKeys, Quiet
  <1>7. Stage(y, q, Passed(r), <<AlertRec(q.err)>>)
    BY <1>6 DEF Stage
  <1> QED
    BY <1>0, <1>2, <1>3, <1>7 DEF ClientTo, Offers, r, y

-----------------------------------------------------------------------------
(* Reading an alert.                                                       *)

LEMMA CacheFailed ==
    ASSUME CacheOK(cache), NEW x, x.pc = "failed"
    PROVE  CacheOK(CacheAfter(x))
  <1>1. CacheOK(Cache!Put(cache, conf.name, None))
    BY CachePut
  <1>2. CacheAfter(x) \in {cache, Cache!Put(cache, conf.name, None)}
    BY DEF CacheAfter
  <1> QED
    BY <1>1, <1>2

LEMMA ClientGivesUp ==
    ASSUME ConnInv, ServerRefused(c, s, toServer, toClient),
           ClientBecomes(Return(c, "remote")),
           cache' = CacheAfter(Return(c, "remote"))
    PROVE  StepOK
  <1> DEFINE r == Return(c, "remote")
             y == After(r)
  <1>1. /\ Keeps(r, c, {"pc", "err", "buffering"}) /\ r.pc = "failed"
        /\ r.err = "remote"
    BY InvFacts, ReturnFields
  <1>2. CacheOK(cache')
    BY <1>1, CacheFailed, InvFacts
  <1>3. c' = y /\ s' = s /\ UNCHANGED <<conf, n, clock, keys, made>>
    BY DEF ClientBecomes, world, After
  <1> HIDE DEF r
  <1>4. Keeps(y, r, {"sendBuf"})
    BY <1>1, AfterFields DEF Keeps
  <1> HIDE DEF y
  <1>5. y.pc = "failed" /\ y.err = "remote" /\ DOMAIN y = ConnFields
    BY <1>1, <1>4 DEF Keeps, ConnFields
  <1>6. ClientCause(y, s) /\ ServerCause(s, y)
    BY <1>5 DEF ClientCause, ServerCause, ServerRefused, Refuses
  <1>7. Stage(c', s', toServer', toClient')
    BY <1>3, <1>5, <1>6 DEF Stage, BothFailed, Refuses, ServerRefused
  <1> QED
    BY <1>2, <1>3, <1>5, <1>7, InvFacts DEF StepOK

LEMMA ServerGivesUp ==
    ASSUME ConnInv, ClientRefused(c, s, toServer, toClient),
           ServerBecomes(Return(s, "remote")), UNCHANGED made
    PROVE  StepOK
  <1> DEFINE r == Return(s, "remote")
             y == After(r)
  <1>1. /\ Keeps(r, s, {"pc", "err", "buffering"}) /\ r.pc = "failed"
        /\ r.err = "remote"
    BY InvFacts, ReturnFields
  <1>3. /\ s' = y /\ c' = c /\ cache' = cache
        /\ UNCHANGED <<conf, n, clock, keys, made>>
    BY DEF ServerBecomes, world, After
  <1> HIDE DEF r
  <1>4. Keeps(y, r, {"sendBuf"})
    BY <1>1, AfterFields DEF Keeps
  <1> HIDE DEF y
  <1>5. y.pc = "failed" /\ y.err = "remote" /\ DOMAIN y = ConnFields
    BY <1>1, <1>4 DEF Keeps, ConnFields
  <1>6. ClientCause(c, y) /\ ServerCause(y, c)
    BY <1>5 DEF ClientCause, ServerCause, ClientRefused, Refuses
  <1>7. Stage(c', s', toServer', toClient')
    BY <1>3, <1>5, <1>6 DEF Stage, BothFailed, Refuses, ClientRefused
  <1> QED
    BY <1>3, <1>5, <1>7, InvFacts DEF StepOK

LEMMA ServerHelloStep ==
    ASSUME ConnInv, ReadServerHello
    PROVE  StepOK
  <1> DEFINE m == s.serverHello
             r == OnServerHello(c, m)
  <1>0. c.pc = "serverHello" /\ toClient # <<>> /\ toClient' = Tail(toClient)
    BY DEF ReadServerHello, ClientReads
  <1>f. /\ ConfOK /\ n \in Nat /\ WorldOK /\ CacheOK(cache)
        /\ DOMAIN c = ConnFields
    BY InvFacts
  <1>1. ASSUME Head(toClient) = Rec(None, m), m.type = "serverHello", c.in = None
        PROVE  ClientBecomes(r) /\ cache' = CacheAfter(r)
    <2>1. Opened(c, Head(toClient), FALSE) = c /\ Head(toClient).msg = m
      <3> HIDE DEF m
      <3>1. Head(toClient) = Rec(c.in, m) /\ c.pc # "failed"
        BY <1>0, <1>1
      <3> QED
        BY <3>1, ReadsMessage
    <2>2. Receive(c, Head(toClient), {"serverHello"}) = c
      BY <1>1, <2>1 DEF Receive, Then
    <2> QED
      BY <1>0, <2>1, <2>2 DEF ReadServerHello, ClientReads, Then
  <1>2. CASE ServerFlight(c, s, toServer, toClient)
    <2>1. /\ Offers(c) /\ Fresh(c) /\ ChoseFull(c, s) /\ ServerAwaitsFlight(s)
          /\ toClient = Rest0(s) /\ toServer = <<>>
      BY <1>0, <1>2 DEF ServerFlight, AwaitsCert, AwaitsStatus, AwaitsKey,
                        AwaitsRequest, AwaitsDone
    <2>2. Head(toClient) = Rec(None, m) /\ Tail(toClient) = Rest1(s)
      BY <2>1, RestHeads
    <2>3. m.type = "serverHello" /\ c.in = None
      BY <2>1 DEF ChoseFull, Announced, Fresh, NoKeys
    <2>4. ClientBecomes(r) /\ cache' = CacheAfter(r)
      BY <1>1, <2>2, <2>3
    <2>5. ClientTo(r, s, toClient')
      BY <1>0, <1>f, <2>1, <2>2, HelloStarts
    <2> HIDE DEF r
    <2> QED
      BY <1>f, <2>1, <2>4, <2>5, ClientMoves
  <1>3. CASE Resuming(c, s, toServer, toClient)
    <2>1. /\ Offers(c) /\ Fresh(c) /\ ChoseResume(c, s) /\ ServerAwaitsCCS(s)
          /\ toClient = Before(Rec(None, m), End1(s, Hash1(s)))
          /\ toServer = <<>>
      BY <1>0, <1>3 DEF Resuming, ClientResumes, ClientEnds
    <2>2. Head(toClient) = Rec(None, m) /\ Tail(toClient) = End1(s, Hash1(s))
      BY <2>1, BeforeAny, FlightSeqs
    <2>3. m.type = "serverHello" /\ c.in = None
      BY <2>1 DEF ChoseResume, Announced, Fresh, NoKeys
    <2>4. ClientBecomes(r) /\ cache' = CacheAfter(r)
      BY <1>1, <2>2, <2>3
    <2>5. ClientTo(r, s, toClient')
      BY <1>0, <1>f, <2>1, <2>2, HelloResumed
    <2> HIDE DEF r
    <2> QED
      BY <1>f, <2>1, <2>4, <2>5, ClientMoves
  <1>4. CASE ResumeRefused(c, s, toServer, toClient)
    <2>1. /\ Fresh(c) /\ Announced(s, n) /\ toServer = <<>>
          /\ toClient = Before(Rec(None, m), <<AlertRec(s.err)>>)
      BY <1>4 DEF ResumeRefused
    <2>2. Head(toClient) = Rec(None, m) /\ Tail(toClient) = <<AlertRec(s.err)>>
      BY <2>1, BeforeAny, SeqAny
    <2>3. m.type = "serverHello" /\ c.in = None
      BY <2>1 DEF Announced, Fresh, NoKeys
    <2>4. ClientBecomes(r) /\ cache' = CacheAfter(r)
      BY <1>1, <2>2, <2>3
    <2>5. ClientTo(r, s, toClient')
      BY <1>0, <1>f, <1>4, <2>2, HelloRefused
    <2> HIDE DEF r
    <2> QED
      BY <1>f, <2>1, <2>4, <2>5, ClientMoves
  <1>5. CASE ServerRefused(c, s, toServer, toClient)
    <2>1. Head(toClient) = AlertRec(s.err) /\ c.in = None
      BY <1>5 DEF ServerRefused
    <2>2. /\ Receive(c, Head(toClient), {"serverHello"}) = Return(c, "remote")
          /\ Return(c, "remote").pc = "failed"
      BY <1>f, <2>1, OpensAlert
    <2>3. /\ ClientBecomes(Return(c, "remote"))
          /\ cache' = CacheAfter(Return(c, "remote"))
      BY <1>0, <2>2 DEF ReadServerHello, ClientReads, Then
    <2> QED
      BY <1>5, <2>3, ClientGivesUp
  <1>6. ~HelloSent(c, s, toServer, toClient)
    BY <1>0 DEF HelloSent
  <1> QED
    BY <1>0, <1>2, <1>3, <1>4, <1>5, <1>6, InvFacts, StagePlaces DEF Stage

-----------------------------------------------------------------------------
(* The client reads the end of a handshake, full or abbreviated.           *)

LEMMA EndHeads ==
    ASSUME NEW q, NEW h
    PROVE  /\ q.serverHello.ticketSupported =>
                /\ Head(End1(q, h)) = Rec(None, TicketMsg(q))
                /\ Tail(End1(q, h)) = End2(q, h)
           /\ Head(End2(q, h)) = CCS /\ Tail(End2(q, h)) = End3(q, h)
           /\ Head(End3(q, h)) =
                Rec(KeyOf(q, q.secret, "server"),
                    FinMsg("server finished", q.secret, WithTicket(q, h)))
           /\ Tail(End3(q, h)) = <<>>
  <1>1. IsSeq(End3(q, h)) /\ IsSeq(End2(q, h))
    BY FlightSeqs
  <1>2. q.serverHello.ticketSupported =>
          /\ Head(End1(q, h)) = Rec(None, TicketMsg(q))
          /\ Tail(End1(q, h)) = End2(q, h)
    BY <1>1, BeforeAny DEF End1
  <1>3. Head(End2(q, h)) = CCS /\ Tail(End2(q, h)) = End3(q, h)
    BY <1>1, BeforeAny DEF End2
  <1>4. /\ Head(End3(q, h)) =
             Rec(KeyOf(q, q.secret, "server"),
                 FinMsg("server finished", q.secret, WithTicket(q, h)))
        /\ Tail(End3(q, h)) = <<>>
    BY DEF End3
  <1> QED
    BY <1>2, <1>3, <1>4

\* What the two kinds of handshake have in common at their end.
Ending(p, q) ==
    /\ DOMAIN p = ConnFields /\ Offers(p) /\ Follows(p, q) /\ p.secret = q.secret
    /\ q.out = KeyOf(q, q.secret, "server") /\ q.out # None
    /\ TicketOK(TicketFor(q), conf.name)

\* Reading on changes nothing else.
LEMMA EndsOn ==
    ASSUME NEW p, NEW q, NEW ts, NEW tc, NEW r, NEW t2, Ending(p, q),
           Keeps(r, p, {"transcript", "session", "pc", "in", "nextIn"}),
           r.session # None => SessionOK(r.session, conf.name),
           \/ ServerDone(p, q, ts, tc) /\ ClientEnds(r, q, t2, HashF(q))
           \/ /\ Resuming(p, q, ts, tc) /\ ClientResumes(p, q, tc)
              /\ ClientEnds(r, q, t2, Hash1(q))
    PROVE  ClientTo(r, q, t2)
  <1> DEFINE y == After(r)
  <1>0. DOMAIN r = ConnFields /\ r.sendBuf = p.sendBuf /\ p.sendBuf = <<>>
    BY DEF Keeps, ConnFields, Ending, Follows, Quiet
  <1>1. Keeps(y, r, {}) /\ Passed(r) = <<>> /\ IsSeq(r.sendBuf)
    BY <1>0, AfterSame
  <1> HIDE DEF y
  <1>2. /\ y.hello = p.hello /\ y.offered = p.offered /\ y.vers = p.vers
        /\ y.suite = p.suite /\ y.proto = p.proto
        /\ y.serverHello = p.serverHello /\ y.sendBuf = p.sendBuf
        /\ y.err = p.err /\ y.verified = p.verified /\ y.resumed = p.resumed
        /\ y.secret = p.secret /\ y.out = p.out /\ y.nextOut = p.nextOut
    BY <1>1 DEF Keeps, ConnFields
  <1>3. /\ y.transcript = r.transcript /\ y.session = r.session /\ y.pc = r.pc
        /\ y.in = r.in /\ y.nextIn = r.nextIn
    BY <1>1 DEF Keeps, ConnFields
  <1>4. Offers(y) /\ Follows(y, q)
    BY <1>2, <1>3 DEF Ending, Offers, Follows, Quiet
  <1>5. ASSUME ServerDone(p, q, ts, tc), ClientEnds(r, q, t2, HashF(q))
        PROVE  Stage(y, q, <<>>, t2)
    <2>1. ClientEnds(y, q, t2, HashF(q))
      BY <1>3, <1>5 DEF ClientEnds
    <2>2. ChoseFull(y, q) /\ Verified(y) /\ y.resumed = FALSE
      BY <1>2, <1>5 DEF ServerDone, ServerEnded, ChoseFull, Chosen, Verified
    <2>3. ServerDone(y, q, <<>>, t2)
      BY <1>2, <1>4, <1>5, <2>1, <2>2 DEF ServerDone, ServerEnded
    <2> QED
      BY <2>3 DEF Stage
  <1>6. ASSUME Resuming(p, q, ts, tc), ClientResumes(p, q, tc),
               ClientEnds(r, q, t2, Hash1(q))
        PROVE  Stage(y, q, <<>>, t2)
    <2>1. ClientEnds(y, q, t2, Hash1(q))
      BY <1>3, <1>6 DEF ClientEnds
    <2>2. ChoseResume(y, q) /\ Verified(y)
      BY <1>2, <1>6 DEF Resuming, ClientResumes, ChoseResume, Chosen, Verified
    <2>3. ClientResumes(y, q, t2)
      BY <1>2, <1>4, <1>6, <2>1, <2>2 DEF ClientResumes
    <2>4. Resuming(y, q, <<>>, t2)
      BY <1>4, <1>6, <2>2, <2>3 DEF Resuming
    <2> QED
      BY <2>4 DEF Stage
  <1>7. Stage(y, q, Passed(r), t2)
    BY <1>1, <1>5, <1>6
  <1> QED
    BY <1>0, <1>1, <1>7 DEF ClientTo, y

\* A client that waits for the end of the handshake.
LEMMA EndPlaces ==
    ASSUME ConnInv, c.pc \in {"ticket", "ccs", "finished"}, toClient # <<>>
    PROVE  \/ ServerRefused(c, s, toServer, toClient) /\ c.pc # "finished"
           \/ /\ Ending(c, s) /\ toServer = <<>>
              /\ ServerDone(c, s, toServer, toClient)
              /\ ClientEnds(c, s, toClient, HashF(s))
           \/ /\ Ending(c, s) /\ toServer = <<>>
              /\ Resuming(c, s, toServer, toClient)
              /\ ClientResumes(c, s, toClient)
              /\ ClientEnds(c, s, toClient, Hash1(s))
  <1>0. /\ ConfOK /\ n \in Nat /\ DOMAIN c = ConnFields
        /\ Stage(c, s, toServer, toClient)
    BY InvFacts
  <1>1. ~ClientFlightSent(c, s, toServer, toClient)
    BY DEF ClientFlightSent
  <1>2. \/ ServerRefused(c, s, toServer, toClient)
        \/ ServerDone(c, s, toServer, toClient)
        \/ Resuming(c, s, toServer, toClient)
    BY <1>0, <1>1, StagePlaces DEF Stage
  <1>3. CASE ServerRefused(c, s, toServer, toClient)
    BY <1>3 DEF ServerRefused
  <1>4. ASSUME NEW id, Announced(s, id), TicketOK(TicketFor(s), conf.name)
        PROVE  KeyOf(s, s.secret, "server") # None
    <2>1. s.secret \in Secrets
      BY <1>4 DEF TicketOK, TicketFor
    <2> QED
      BY <1>0, <1>4, <2>1, KeyTyped
  <1>5. CASE ServerDone(c, s, toServer, toClient)
    <2>1. ClientEnds(c, s, toClient, HashF(s)) /\ toServer = <<>>
      BY <1>5 DEF ServerDone, ServerEnded
    <2>2. s.out # None
      BY <1>4, <1>5 DEF ServerDone, ServerEnded, ChoseFull
    <2>3. Ending(c, s)
      BY <1>0, <1>5, <2>2 DEF Ending, ServerDone, ServerEnded
    <2> QED
      BY <1>5, <2>1, <2>3
  <1>6. CASE Resuming(c, s, toServer, toClient)
    <2>1. ClientResumes(c, s, toClient) /\ toServer = <<>>
      BY <1>6 DEF Resuming, Fresh
    <2>2. ClientEnds(c, s, toClient, Hash1(s))
      BY <2>1 DEF ClientResumes
    <2>3. s.out # None
      BY <1>4, <1>6 DEF Resuming, ChoseResume, ServerAwaitsCCS
    <2>4. Ending(c, s)
      BY <1>0, <1>6, <2>1, <2>3 DEF Ending, Resuming, ChoseResume, ServerAwaitsCCS,
                                    ClientResumes
    <2> QED
      BY <1>6, <2>1, <2>2, <2>4
  <1> QED
    BY <1>2, <1>3, <1>5, <1>6

LEMMA TicketRead ==
    ASSUME NEW p, NEW q, NEW tc, NEW h, Ending(p, q), ClientEnds(p, q, tc, h),
           p.pc = "ticket"
    PROVE  LET x == Hashed(p, TicketMsg(q))
               r == [x EXCEPT !.session = [ticket |-> TicketMsg(q).ticket,
                                           vers |-> p.vers, suite |-> p.suite,
                                           secret |-> p.secret,
                                           verified |-> p.verified],
                              !.pc = "ccs"]
           IN /\ Head(tc) = Rec(p.in, TicketMsg(q))
              /\ Keeps(r, p, {"transcript", "session", "pc", "in", "nextIn"})
              /\ SessionOK(r.session, conf.name)
              /\ ClientEnds(r, q, Tail(tc), h)
  <1> DEFINE x == Hashed(p, TicketMsg(q))
             f == [ticket |-> TicketMsg(q).ticket, vers |-> p.vers,
                   suite |-> p.suite, secret |-> p.secret,
                   verified |-> p.verified]
             r == [x EXCEPT !.session = f, !.pc = "ccs"]
  <1>1. /\ q.serverHello.ticketSupported /\ tc = End1(q, h) /\ p.in = None
        /\ p.nextIn = q.out /\ p.transcript = h
    BY DEF ClientEnds
  <1>2. Head(tc) = Rec(p.in, TicketMsg(q)) /\ Tail(tc) = End2(q, h)
    BY <1>1, EndHeads
  <1>3. Keeps(x, p, {"transcript"}) /\ x.transcript = WithTicket(q, h)
    <2>1. Digest(TicketMsg(q)) = TicketMsg(q)
      BY DEF Digest, TicketMsg
    <2> QED
      BY <1>1, <2>1, HashedFields DEF Ending, WithTicket
  <1>4. SessionOK(f, conf.name)
    <2>1. f.ticket = TicketFor(q)
      BY DEF TicketMsg
    <2>2. f.vers = q.vers /\ f.suite = q.suite /\ f.secret = q.secret
      BY DEF Ending, Follows
    <2> QED
      BY <2>1, <2>2 DEF SessionOK, Ending, TicketFor
  <1> HIDE DEF x, f
  <1>5. Keeps(r, x, {"session", "pc"}) /\ r.session = f /\ r.pc = "ccs"
    BY <1>3 DEF Keeps, ConnFields
  <1> HIDE DEF r
  <1>6. Keeps(r, p, {"transcript", "session", "pc", "in", "nextIn"})
    BY <1>3, <1>5 DEF Keeps
  <1>7. r.transcript = x.transcript /\ r.in = p.in /\ r.nextIn = p.nextIn
    BY <1>3, <1>5 DEF Keeps, ConnFields
  <1>8. ClientEnds(r, q, End2(q, h), h)
    BY <1>1, <1>3, <1>5, <1>7 DEF ClientEnds
  <1> QED
    BY <1>2, <1>4, <1>5, <1>6, <1>8 DEF r, x, f

LEMMA TicketStep ==
    ASSUME ConnInv, readSessionTicket
    PROVE  StepOK
  <1> DEFINE m == TicketMsg(s)
             x == Hashed(c, m)
             r == [x EXCEPT !.session = [ticket |-> m.ticket, vers |-> c.vers,
                                         suite |-> c.suite, secret |-> c.secret,
                                         verified |-> c.verified],
                            !.pc = "ccs"]
  <1>0. c.pc = "ticket" /\ toClient # <<>> /\ toClient' = Tail(toClient)
    BY DEF readSessionTicket, ClientReads
  <1>1. CASE ServerRefused(c, s, toServer, toClient)
    <2>1. Head(toClient) = AlertRec(s.err) /\ c.in = None
      BY <1>1 DEF ServerRefused
    <2>2. /\ Receive(c, Head(toClient), {"newSessionTicket"}) = Return(c, "remote")
          /\ Return(c, "remote").pc = "failed"
      BY <2>1, OpensAlert, InvFacts
    <2>3. /\ ClientBecomes(Return(c, "remote"))
          /\ cache' = CacheAfter(Return(c, "remote"))
      BY <1>0, <2>2 DEF readSessionTicket, ClientReads, Then
    <2> QED
      BY <1>1, <2>3, ClientGivesUp
  <1>2. ASSUME NEW h, Ending(c, s), toServer = <<>>,
               ClientEnds(c, s, toClient, h),
               \/ ServerDone(c, s, toServer, toClient) /\ h = HashF(s)
               \/ /\ Resuming(c, s, toServer, toClient)
                  /\ ClientResumes(c, s, toClient) /\ h = Hash1(s)
        PROVE  StepOK
    <2>1. /\ Head(toClient) = Rec(c.in, m)
          /\ Keeps(r, c, {"transcript", "session", "pc", "in", "nextIn"})
          /\ SessionOK(r.session, conf.name)
          /\ ClientEnds(r, s, Tail(toClient), h)
      BY <1>0, <1>2, TicketRead
    <2>2. m.type = "newSessionTicket"
      BY DEF TicketMsg
    <2> HIDE DEF m
    <2>3. Opened(c, Head(toClient), FALSE) = c /\ Head(toClient).msg = m
      BY <1>0, <2>1, ReadsMessage
    <2>4. Receive(c, Head(toClient), {"newSessionTicket"}) = c
      BY <2>2, <2>3 DEF Receive, Then
    <2>5. ClientBecomes(r) /\ cache' = CacheAfter(r)
      BY <1>0, <2>3, <2>4 DEF readSessionTicket, ClientReads, Then
    <2> HIDE DEF r
    <2>6. ClientTo(r, s, toClient')
      BY <1>0, <1>2, <2>1, EndsOn
    <2> QED
      BY <1>2, <2>5, <2>6, ClientMoves, InvFacts
  <1> QED
    BY <1>0, <1>1, <1>2, EndPlaces

LEMMA ClientCCSStep ==
    ASSUME ConnInv, ClientReadsCCS
    PROVE  StepOK
  <1> DEFINE r == ReceiveCCS(c, CCS)
  <1>0. c.pc = "ccs" /\ toClient # <<>> /\ toClient' = Tail(toClient)
    BY DEF ClientReadsCCS, ClientReads
  <1>i. /\ ClientBecomes(ReceiveCCS(c, Head(toClient)))
        /\ cache' = CacheAfter(ReceiveCCS(c, Head(toClient)))
    BY DEF ClientReadsCCS, ClientReads
  <1>1. CASE ServerRefused(c, s, toServer, toClient)
    <2>1. Head(toClient) = AlertRec(s.err) /\ c.in = None
      BY <1>1 DEF ServerRefused
    <2>2. ReceiveCCS(c, Head(toClient)) = Return(c, "remote")
      BY <2>1, OpensAlert, InvFacts
    <2> QED
      BY <1>1, <1>i, <2>2, ClientGivesUp
  <1>2. ASSUME NEW h, Ending(c, s), toServer = <<>>,
               ClientEnds(c, s, toClient, h),
               \/ ServerDone(c, s, toServer, toClient) /\ h = HashF(s)
               \/ /\ Resuming(c, s, toServer, toClient)
                  /\ ClientResumes(c, s, toClient) /\ h = Hash1(s)
        PROVE  StepOK
    <2>1. /\ toClient = End2(s, h) /\ c.in = None /\ c.nextIn = s.out
          /\ c.transcript = WithTicket(s, h)
      BY <1>0, <1>2 DEF ClientEnds
    <2>2. Head(toClient) = CCS /\ Tail(toClient) = End3(s, h)
      BY <2>1, EndHeads
    <2>3. /\ Keeps(r, c, {"in", "nextIn", "pc"})
          /\ r.in = c.nextIn /\ r.pc = "finished"
      BY <1>0, <1>2, <2>1, OpensCCS DEF Ending
    <2>4. ClientBecomes(r) /\ cache' = CacheAfter(r)
      BY <1>i, <2>2
    <2> HIDE DEF r
    <2>5. r.transcript = c.transcript /\ r.session = c.session
      BY <2>3 DEF Keeps, ConnFields
    <2>6. ClientEnds(r, s, End3(s, h), h)
      BY <2>1, <2>3, <2>5 DEF ClientEnds
    <2>7. Keeps(r, c, {"transcript", "session", "pc", "in", "nextIn"})
      BY <2>3 DEF Keeps
    <2>8. r.session # None => SessionOK(r.session, conf.name)
      BY <1>2, <2>5 DEF Ending, Offers
    <2>9. ClientTo(r, s, toClient')
      BY <1>0, <1>2, <2>2, <2>6, <2>7, <2>8, EndsOn
    <2> QED
      BY <1>2, <2>4, <2>9, ClientMoves, InvFacts
  <1> QED
    BY <1>0, <1>1, <1>2, EndPlaces

LEMMA BackSeqs ==
    ASSUME NEW q
    PROVE  /\ Head(Back1(q)) = CCS /\ Tail(Back1(q)) = Back2(q)
           /\ Head(Back2(q)) = Rec(KeyOf(q, q.secret, "client"),
                                   FinMsg("client finished", q.secret,
                                          Append(WithTicket(q, Hash1(q)), Fin)))
           /\ Tail(Back2(q)) = <<>> /\ IsSeq(Back1(q))
  <1>1. IsSeq(Back2(q))
    BY FlightSeqs
  <1>2. Head(Back1(q)) = CCS /\ Tail(Back1(q)) = Back2(q) /\ IsSeq(Back1(q))
    BY <1>1, BeforeAny DEF Back1
  <1> DEFINE f == Rec(KeyOf(q, q.secret, "client"),
                      FinMsg("client finished", q.secret,
                             Append(WithTicket(q, Hash1(q)), Fin)))
  <1>3. Back2(q) = <<f>>
    BY DEF Back2
  <1> HIDE DEF f
  <1>4. Head(Back2(q)) = f /\ Tail(Back2(q)) = <<>>
    BY <1>3
  <1> QED
    BY <1>2, <1>4 DEF f

\* The end of a full handshake at the client.
LEMMA ClientIsDone ==
    ASSUME NEW p, NEW q, NEW ts, NEW tc, Ending(p, q), ServerDone(p, q, ts, tc),
           p.in = q.out, NEW x, Keeps(x, p, {"transcript"}),
           x.transcript = q.transcript
    PROVE  ClientTo([x EXCEPT !.pc = "done"], q, <<>>)
  <1> DEFINE r == [x EXCEPT !.pc = "done"]
             y == After(r)
  <1>1. Keeps(r, x, {"pc"}) /\ r.pc = "done"
    BY DEF Keeps, ConnFields
  <1> HIDE DEF r
  <1>2. DOMAIN r = ConnFields /\ r.sendBuf = <<>> /\ r.session = p.session
    BY <1>1 DEF Keeps, ConnFields, Ending, Follows, Quiet
  <1>3. Keeps(y, r, {}) /\ Passed(r) = <<>> /\ IsSeq(r.sendBuf)
    BY <1>2, AfterSame
  <1> HIDE DEF y
  <1>4. /\ y.hello = p.hello /\ y.offered = p.offered /\ y.vers = p.vers
        /\ y.suite = p.suite /\ y.proto = p.proto
        /\ y.serverHello = p.serverHello /\ y.sendBuf = p.sendBuf
        /\ y.err = p.err /\ y.verified = p.verified /\ y.resumed = p.resumed
        /\ y.secret = p.secret /\ y.out = p.out /\ y.session = p.session
        /\ y.in = p.in /\ y.transcript = q.transcript /\ y.pc = "done"
    BY <1>1, <1>3 DEF Keeps, ConnFields
  <1>5. Offers(y) /\ Follows(y, q) /\ ChoseFull(y, q) /\ Verified(y)
    BY <1>4 DEF Ending, Offers, Follows, Quiet, ServerDone, ServerEnded, ChoseFull, Chosen,
                Verified
  <1>6. ServerDone(y, q, <<>>, <<>>)
    BY <1>4, <1>5 DEF ServerDone, ServerEnded
  <1>7. Stage(y, q, Passed(r), <<>>)
    BY <1>3, <1>6 DEF Stage
  <1> QED
    BY <1>2, <1>3, <1>7 DEF ClientTo, Ending, Offers, r, y

\* The end of a resumption at the client.
LEMMA ClientHasResumed ==
    ASSUME ConfOK, n \in Nat, NEW p, NEW q, NEW ts, NEW tc, Ending(p, q),
           Resuming(p, q, ts, tc), ClientResumes(p, q, tc), p.pc = "finished",
           p.in = q.out, NEW x, Keeps(x, p, {"transcript"}),
           x.transcript = Append(WithTicket(q, Hash1(q)), Fin)
    PROVE  LET f == sendFinished(x, "client finished")
           IN /\ f.pc # "failed"
              /\ ClientTo([f EXCEPT !.buffering = FALSE, !.pc = "done"], q, <<>>)
  <1> DEFINE f == sendFinished(x, "client finished")
             r == [f EXCEPT !.buffering = FALSE, !.pc = "done"]
             y == After(r)
             h == Append(WithTicket(q, Hash1(q)), Fin)
  <1>0. /\ x.out = p.out /\ x.nextOut = p.nextOut /\ x.secret = p.secret
        /\ x.sendBuf = p.sendBuf /\ x.pc = p.pc /\ DOMAIN x = ConnFields
    BY DEF Keeps, ConnFields
  <1>1. KeyOf(q, q.secret, "client") # None
    <2>1. q.secret \in Secrets
      BY DEF Ending, TicketOK, TicketFor
    <2>2. Announced(q, n)
      BY DEF Resuming, ChoseResume
    <2> QED
      BY <2>1, <2>2, KeyTyped
  <1>2. /\ x.out = None /\ x.nextOut = KeyOf(q, q.secret, "client")
        /\ x.secret = q.secret /\ x.sendBuf = <<>> /\ x.pc # "failed"
    BY <1>0 DEF ClientResumes, Follows, Quiet
  <1>3. IsSeq(<<>>)
    BY SeqAny
  <1>4. /\ Keeps(f, x, {"transcript", "sendBuf", "out", "nextOut"})
        /\ f.transcript = Append(x.transcript, Fin)
        /\ IsSeq(f.sendBuf)
        /\ f.sendBuf = x.sendBuf \o Before(CCS, <<Rec(x.nextOut,
                          FinMsg("client finished", x.secret, x.transcript))>>)
        /\ f.out = x.nextOut /\ f.pc # "failed"
    BY <1>0, <1>1, <1>2, <1>3, SendFinishedFields
  <1>5. f.sendBuf = Back1(q)
    <2>1. f.sendBuf = <<>> \o Back1(q)
      BY <1>2, <1>4 DEF Back1, Back2
    <2> QED
      BY <2>1, BackSeqs, SeqAny
  <1> HIDE DEF f
  <1>6. /\ Keeps(r, f, {"buffering", "pc"}) /\ ~r.buffering /\ r.pc = "done"
    BY <1>4 DEF Keeps, ConnFields
  <1> HIDE DEF r
  <1>7. /\ DOMAIN r = ConnFields /\ r.sendBuf = Back1(q) /\ r.session = p.session
        /\ r.transcript = f.transcript /\ r.out = f.out
    BY <1>4, <1>5, <1>6 DEF Keeps, ConnFields
  <1>8. Keeps(y, r, {"sendBuf"}) /\ y.sendBuf = <<>> /\ Passed(r) = Back1(q)
    BY <1>6, <1>7, AfterFields
  <1> HIDE DEF y
  <1>9. Keeps(y, p, {"transcript", "sendBuf", "out", "nextOut", "buffering", "pc"})
    BY <1>4, <1>6, <1>8 DEF Keeps
  <1>10. /\ y.hello = p.hello /\ y.offered = p.offered /\ y.vers = p.vers
         /\ y.suite = p.suite /\ y.proto = p.proto
         /\ y.serverHello = p.serverHello /\ y.err = p.err
         /\ y.verified = p.verified /\ y.resumed = p.resumed
         /\ y.secret = p.secret /\ y.session = p.session /\ y.in = p.in
    BY <1>9 DEF Keeps, ConnFields
  <1>11. /\ y.pc = "done" /\ y.transcript = Append(h, Fin)
         /\ y.out = KeyOf(q, q.secret, "client")
    BY <1>2, <1>4, <1>6, <1>7, <1>8 DEF Keeps, ConnFields
  <1>12. Offers(y) /\ Follows(y, q) /\ ChoseResume(y, q) /\ Verified(y)
    BY <1>8, <1>10 DEF Ending, Offers, Follows, Quiet, Resuming, ChoseResume,
                       Chosen, Verified, ClientResumes
  <1>13. Resumed(y, q, Back1(q), <<>>)
    BY <1>10, <1>11, <1>12 DEF Resumed, Resuming, ClientResumes, ServerAwaitsCCS,
                               Ending
  <1>14. Stage(y, q, Passed(r), <<>>)
    BY <1>8, <1>13 DEF Stage
  <1>15. ClientTo(r, q, <<>>)
    BY <1>4, <1>5, <1>7, <1>14 DEF ClientTo, Ending, Offers, y
  <1> QED
    BY <1>4, <1>15 DEF r, f

LEMMA ServerFinishedStep ==
    ASSUME ConnInv, ReadServerFinished
    PROVE  StepOK
  <1> DEFINE x == Hashed(c, Fin)
             f == sendFinished(x, "client finished")
             r == IF ~x.resumed THEN [x EXCEPT !.pc = "done"]
                  ELSE IF conf.clientVetoes THEN Alert(x, "bad_certificate")
                  ELSE IF f.pc = "failed" THEN f
                  ELSE [f EXCEPT !.buffering = FALSE, !.pc = "done"]
  <1>0. c.pc = "finished" /\ toClient # <<>> /\ toClient' = Tail(toClient)
    BY DEF ReadServerFinished, ClientReads
  <1>f. /\ ConfOK /\ n \in Nat /\ WorldOK /\ CacheOK(cache)
        /\ DOMAIN c = ConnFields
    BY InvFacts
  <1>1. ASSUME NEW h, Ending(c, s), ClientEnds(c, s, toClient, h)
        PROVE  /\ ClientBecomes(r) /\ cache' = CacheAfter(r) /\ toClient' = <<>>
               /\ c.in = s.out /\ Keeps(x, c, {"transcript"})
               /\ x.transcript = Append(WithTicket(s, h), Fin)
    <2> DEFINE m == FinMsg("server finished", s.secret, WithTicket(s, h))
    <2>1. /\ toClient = End3(s, h) /\ c.in = s.out
          /\ c.transcript = WithTicket(s, h)
      BY <1>0, <1>1 DEF ClientEnds
    <2>2. Head(toClient) = Rec(c.in, m) /\ Tail(toClient) = <<>>
      BY <1>1, <2>1, EndHeads DEF Ending
    <2>3. /\ m.type = "finished" /\ Digest(m) = Fin /\ Digest(Fin) = Fin
          /\ m.verifyData = Sum(c, "server finished")
      BY <1>1, <2>1 DEF FinMsg, Digest, Fin, Sum, Ending
    <2> HIDE DEF m
    <2>4. Opened(c, Head(toClient), FALSE) = c /\ Head(toClient).msg = m
      BY <1>0, <2>2, ReadsMessage
    <2>5. Receive(c, Head(toClient), {"finished"}) = c
      BY <2>3, <2>4 DEF Receive, Then
    <2>6. Hashed(c, m) = x
      BY <2>3 DEF Hashed
    <2> HIDE DEF x
    <2>7. ClientBecomes(r) /\ cache' = CacheAfter(r)
      BY <1>0, <2>3, <2>4, <2>5, <2>6 DEF ReadServerFinished, ClientReads, Then
    <2>8. Keeps(x, c, {"transcript"}) /\ x.transcript = Append(WithTicket(s, h), Fin)
      BY <1>f, <2>1, <2>3, HashedFields DEF x
    <2> HIDE DEF r
    <2> QED
      BY <1>0, <2>1, <2>2, <2>7, <2>8
  <1>2. CASE /\ Ending(c, s) /\ toServer = <<>>
             /\ ServerDone(c, s, toServer, toClient)
             /\ ClientEnds(c, s, toClient, HashF(s))
    <2>1. /\ ClientBecomes(r) /\ cache' = CacheAfter(r) /\ toClient' = <<>>
          /\ c.in = s.out /\ Keeps(x, c, {"transcript"})
          /\ x.transcript = Append(WithTicket(s, HashF(s)), Fin)
      BY <1>1, <1>2
    <2> HIDE DEF x
    <2>2. x.resumed = FALSE
      BY <1>2, <2>1 DEF Keeps, ConnFields, ServerDone, ServerEnded
    <2>3. x.transcript = s.transcript
      BY <1>2, <2>1 DEF ServerDone, ServerEnded
    <2>4. ClientTo([x EXCEPT !.pc = "done"], s, <<>>)
      BY <1>2, <2>1, <2>3, ClientIsDone
    <2>5. ClientTo(r, s, toClient')
      BY <2>1, <2>2, <2>4
    <2> HIDE DEF r
    <2> QED
      BY <1>2, <1>f, <2>1, <2>5, ClientMoves
  <1>3. CASE /\ Ending(c, s) /\ toServer = <<>>
             /\ Resuming(c, s, toServer, toClient)
             /\ ClientResumes(c, s, toClient)
             /\ ClientEnds(c, s, toClient, Hash1(s))
    <2>1. /\ ClientBecomes(r) /\ cache' = CacheAfter(r) /\ toClient' = <<>>
          /\ c.in = s.out /\ Keeps(x, c, {"transcript"})
          /\ x.transcript = Append(WithTicket(s, Hash1(s)), Fin)
      BY <1>1, <1>3
    <2> HIDE DEF x
    <2>2. x.resumed = TRUE
      BY <1>3, <2>1 DEF Keeps, ConnFields, ClientResumes
    <2>3. CASE conf.clientVetoes
      <3>1. /\ DOMAIN x = ConnFields /\ x.out = c.out /\ x.sendBuf = c.sendBuf
            /\ x.session = c.session
        BY <2>1 DEF Keeps, ConnFields
      <3>2. /\ x.out = None /\ x.sendBuf = <<>>
            /\ x.session # None => SessionOK(x.session, conf.name)
        BY <1>3, <3>1 DEF ClientResumes, Follows, Quiet, Ending, Offers
      <3>3. s.pc = "ccs" /\ s.in = None /\ Quiet(s)
        BY <1>3 DEF Resuming, ServerAwaitsCCS
      <3>4. ClientTo(Alert(x, "bad_certificate"), s, <<>>)
        BY <2>3, <3>1, <3>2, <3>3, ClientAlerts
      <3>5. ClientTo(r, s, toClient')
        BY <2>1, <2>2, <2>3, <3>4
      <3> HIDE DEF r
      <3> QED
        BY <1>3, <1>f, <2>1, <3>5, ClientMoves
    <2>4. CASE ~conf.clientVetoes
      <3>1. /\ f.pc # "failed"
            /\ ClientTo([f EXCEPT !.buffering = FALSE, !.pc = "done"], s, <<>>)
        BY <1>0, <1>f, <1>3, <2>1, ClientHasResumed
      <3> HIDE DEF f
      <3>2. ClientTo(r, s, toClient')
        BY <2>1, <2>2, <2>4, <3>1
      <3> HIDE DEF r
      <3> QED
        BY <1>3, <1>f, <2>1, <3>2, ClientMoves
    <2> QED
      BY <2>3, <2>4
  <1> QED
    BY <1>0, <1>2, <1>3, EndPlaces

-----------------------------------------------------------------------------
(* The server reads the client's flight.                                   *)

\* The flights of a server depend on what it has settled, nothing else.
LEMMA SameFlights ==
    ASSUME NEW q, NEW r, r.hello = q.hello, r.serverHello = q.serverHello,
           r.vers = q.vers, r.suite = q.suite, r.curve = q.curve
    PROVE  /\ Hash1(r) = Hash1(q) /\ Hash6(r) = Hash6(q) /\ Hash7(r) = Hash7(q)
           /\ Hash8(r) = Hash8(q) /\ Hash9(r) = Hash9(q) /\ HashF(r) = HashF(q)
           /\ Master(r) = Master(q)
           /\ \A x, w : KeyOf(r, x, w) = KeyOf(q, x, w)
           /\ Sent2(r) = Sent2(q) /\ Sent3(r) = Sent3(q) /\ Sent4(r) = Sent4(q)
           /\ Sent5(r) = Sent5(q)
  <1>1. Hash1(r) = Hash1(q)
    BY DEF Hash1
  <1>2. Hash6(r) = Hash6(q)
    <2>1. Hash3(r) = Hash3(q)
      BY <1>1 DEF Hash3, Hash2
    <2>2. Hash4(r) = Hash4(q)
      BY <2>1 DEF Hash4, SKEMsg
    <2> QED
      BY <2>2 DEF Hash6, Hash5
  <1>3. Hash7(r) = Hash7(q)
    BY <1>2 DEF Hash7
  <1>4. Hash8(r) = Hash8(q)
    BY <1>3 DEF Hash8, CKEMsg
  <1>5. Hash9(r) = Hash9(q)
    BY <1>4 DEF Hash9
  <1>6. HashF(r) = HashF(q)
    BY <1>5 DEF HashF
  <1>7. Master(r) = Master(q) /\ \A x, w : KeyOf(r, x, w) = KeyOf(q, x, w)
    BY DEF Master, masterSecret, KeyOf
  <1>8. Sent5(r) = Sent5(q)
    BY <1>5, <1>7 DEF Sent5
  <1>9. Sent4(r) = Sent4(q)
    BY <1>8 DEF Sent4
  <1>10. Sent3(r) = Sent3(q)
    BY <1>4, <1>9 DEF Sent3, VerifyMsg
  <1>11. Sent2(r) = Sent2(q)
    BY <1>10 DEF Sent2, CKEMsg
  <1> QED
    BY <1>1, <1>2, <1>3, <1>4, <1>5, <1>6, <1>7, <1>8, <1>9, <1>10, <1>11

LEMMA SentHeads ==
    ASSUME NEW q
    PROVE  /\ conf.auth # 0 => /\ Head(Sent1(q)) = Rec(None, ChainMsg)
                               /\ Tail(Sent1(q)) = Sent2(q)
           /\ Head(Sent2(q)) = Rec(None, CKEMsg(q)) /\ Tail(Sent2(q)) = Sent3(q)
           /\ Chain # "none" => /\ Head(Sent3(q)) = Rec(None, VerifyMsg(q))
                                /\ Tail(Sent3(q)) = Sent4(q)
           /\ Chain = "none" => Sent3(q) = Sent4(q)
           /\ Head(Sent4(q)) = CCS /\ Tail(Sent4(q)) = Sent5(q)
           /\ Head(Sent5(q)) = Rec(KeyOf(q, Master(q), "client"),
                                   FinMsg("client finished", Master(q), Hash9(q)))
           /\ Tail(Sent5(q)) = <<>>
  <1>0. IsSeq(Sent2(q)) /\ IsSeq(Sent3(q)) /\ IsSeq(Sent4(q)) /\ IsSeq(Sent5(q))
    BY FlightSeqs
  <1>1. conf.auth # 0 => /\ Head(Sent1(q)) = Rec(None, ChainMsg)
                         /\ Tail(Sent1(q)) = Sent2(q)
    BY <1>0, BeforeAny DEF Sent1
  <1>2. Head(Sent2(q)) = Rec(None, CKEMsg(q)) /\ Tail(Sent2(q)) = Sent3(q)
    BY <1>0, BeforeAny DEF Sent2
  <1>3. Chain # "none" => /\ Head(Sent3(q)) = Rec(None, VerifyMsg(q))
                          /\ Tail(Sent3(q)) = Sent4(q)
    BY <1>0, BeforeAny DEF Sent3
  <1>4. Chain = "none" => Sent3(q) = Sent4(q)
    BY DEF Sent3
  <1>5. Head(Sent4(q)) = CCS /\ Tail(Sent4(q)) = Sent5(q)
    BY <1>0, BeforeAny DEF Sent4
  <1> DEFINE f == Rec(KeyOf(q, Master(q), "client"),
                      FinMsg("client finished", Master(q), Hash9(q)))
  <1>6. Sent5(q) = <<f>>
    BY DEF Sent5
  <1> HIDE DEF f
  <1>7. Head(Sent5(q)) = f /\ Tail(Sent5(q)) = <<>>
    BY <1>6
  <1> QED
    BY <1>1, <1>2, <1>3, <1>4, <1>5, <1>7 DEF f

\* The client does not notice yet that the server refuses.
LEMMA ServerAlerts ==
    ASSUME NEW x, NEW a, NEW p, NEW ts, DOMAIN x = ConnFields,
           x.out = None, x.sendBuf = <<>>,
           p.pc \in {"serverHello", "ticket", "ccs"}, p.in = None, Quiet(p),
           \A y : (y.err = a /\ y.sessionState = x.sessionState) =>
                      ServerCause(y, p)
    PROVE  ServerTo(p, Alert(x, a), ts) /\ Alert(x, a).pc = "failed"
  <1> DEFINE r == Alert(x, a)
             y == After(r)
  <1>0. IsSeq(<<>>) /\ IsSeq(<<AlertRec(a)>>)
    BY SeqAny
  <1>1. /\ Keeps(r, x, {"pc", "err", "buffering", "sendBuf"})
        /\ r.pc = "failed" /\ r.err = a /\ ~r.buffering
        /\ r.sendBuf = Append(<<>>, AlertRec(a))
    BY <1>0, AlertFields DEF AlertRec
  <1>2. r.sendBuf = <<AlertRec(a)>>
    BY <1>1
  <1> HIDE DEF r
  <1>3. Keeps(y, r, {"sendBuf"}) /\ Passed(r) = <<AlertRec(a)>>
    BY <1>1, <1>2, AfterFields DEF Keeps
  <1> HIDE DEF y
  <1>4. y.pc = "failed" /\ y.err = a /\ y.sessionState = x.sessionState
    BY <1>1, <1>3 DEF Keeps, ConnFields
  <1>5. ServerCause(y, p)
    BY <1>4
  <1>6. ServerRefused(p, y, ts, Passed(r))
    BY <1>3, <1>4, <1>5 DEF ServerRefused, Refuses
  <1>7. Stage(p, y, ts, Passed(r))
    BY <1>6 DEF Stage
  <1> QED
    BY <1>0, <1>1, <1>2, <1>7 DEF ServerTo, Keeps, r, y

\* What holds of the client and the server while the client's flight is read.
Hearing(p, q) ==
    /\ DOMAIN q = ConnFields /\ Offers(p) /\ ChoseFull(p, q)
    /\ ClientAwaitsEnd(p, q) /\ Quiet(q) /\ ~q.buffering

LEMMA HearingKept ==
    ASSUME NEW p, NEW q, NEW r, Hearing(p, q),
           Keeps(r, q, {"pc", "transcript", "peerCerts", "secret", "buffer", "in",
                        "nextIn", "nextOut"})
    PROVE  /\ Hearing(p, r)
           /\ r.hello = q.hello /\ r.serverHello = q.serverHello
           /\ r.vers = q.vers /\ r.suite = q.suite /\ r.curve = q.curve
  <1>1. /\ r.hello = q.hello /\ r.serverHello = q.serverHello
        /\ r.vers = q.vers /\ r.suite = q.suite /\ r.curve = q.curve
        /\ r.proto = q.proto /\ r.err = q.err /\ r.sessionState = q.sessionState
        /\ r.resumed = q.resumed /\ r.sendBuf = q.sendBuf
        /\ r.buffering = q.buffering /\ DOMAIN r = ConnFields
    BY DEF Keeps, ConnFields
  <1>2. HashF(r) = HashF(q) /\ Master(r) = Master(q)
        /\ KeyOf(r, Master(r), "server") = KeyOf(q, Master(q), "server")
        /\ KeyOf(r, Master(r), "client") = KeyOf(q, Master(q), "client")
    BY <1>1, SameFlights
  <1>3. ChoseFull(p, r)
    BY <1>1 DEF Hearing, ChoseFull, Chosen, Announced
  <1>4. ClientAwaitsEnd(p, r)
    BY <1>1, <1>2 DEF Hearing, ClientAwaitsEnd, Follows
  <1> QED
    BY <1>1, <1>3, <1>4 DEF Hearing, Quiet

LEMMA HearingOn ==
    ASSUME NEW p, NEW r, NEW ts, Hearing(p, r),
           \/ AtCertificate(r, ts) \/ AtKeyExchange(r, ts) \/ AtVerify(r, ts)
           \/ AtCCS(r, ts) \/ AtFinished(r, ts)
    PROVE  ServerTo(p, r, ts)
  <1> DEFINE y == After(r)
  <1>0. DOMAIN r = ConnFields /\ r.sendBuf = <<>>
    BY DEF Hearing, Quiet
  <1>1. Keeps(y, r, {}) /\ Passed(r) = <<>> /\ IsSeq(r.sendBuf)
    BY <1>0, AfterSame
  <1> HIDE DEF y
  <1>2. Keeps(y, r, {"pc", "transcript", "peerCerts", "secret", "buffer", "in",
                     "nextIn", "nextOut"})
    BY <1>1 DEF Keeps
  <1>3. /\ Hearing(p, y)
        /\ y.hello = r.hello /\ y.serverHello = r.serverHello
        /\ y.vers = r.vers /\ y.suite = r.suite /\ y.curve = r.curve
    BY <1>2, HearingKept
  <1>4. /\ y.pc = r.pc /\ y.transcript = r.transcript
        /\ y.peerCerts = r.peerCerts /\ y.secret = r.secret
        /\ y.buffer = r.buffer /\ y.in = r.in /\ y.out = r.out
        /\ y.nextIn = r.nextIn /\ y.nextOut = r.nextOut
    BY <1>1 DEF Keeps, ConnFields
  <1>5. /\ Hash6(y) = Hash6(r) /\ Hash7(y) = Hash7(r) /\ Hash8(y) = Hash8(r)
        /\ Hash9(y) = Hash9(r) /\ Master(y) = Master(r)
        /\ KeyOf(y, Master(y), "server") = KeyOf(r, Master(r), "server")
        /\ KeyOf(y, Master(y), "client") = KeyOf(r, Master(r), "client")
        /\ Sent2(y) = Sent2(r) /\ Sent3(y) = Sent3(r) /\ Sent4(y) = Sent4(r)
        /\ Sent5(y) = Sent5(r)
    BY <1>3, SameFlights
  <1>6. Sent1(y) = Sent1(r)
    BY <1>5 DEF Sent1
  <1>7. \/ AtCertificate(y, ts) \/ AtKeyExchange(y, ts) \/ AtVerify(y, ts)
        \/ AtCCS(y, ts) \/ AtFinished(y, ts)
    <2>1. AtCertificate(r, ts) => AtCertificate(y, ts)
      BY <1>4, <1>5, <1>6 DEF AtCertificate, NoKeys
    <2>2. AtKeyExchange(r, ts) => AtKeyExchange(y, ts)
      BY <1>4, <1>5 DEF AtKeyExchange, Accepted, NoKeys
    <2>3. AtVerify(r, ts) => AtVerify(y, ts)
      BY <1>4, <1>5 DEF AtVerify, Accepted, NoKeys
    <2>4. AtCCS(r, ts) => AtCCS(y, ts)
      BY <1>4, <1>5 DEF AtCCS, Accepted
    <2>5. AtFinished(r, ts) => AtFinished(y, ts)
      BY <1>4, <1>5 DEF AtFinished, Accepted
    <2> QED
      BY <2>1, <2>2, <2>3, <2>4, <2>5
  <1>8. ClientFlightSent(p, y, ts, <<>>)
    BY <1>3, <1>7 DEF ClientFlightSent, Hearing
  <1>9. Stage(p, y, ts, Passed(r))
    BY <1>1, <1>8 DEF Stage
  <1> QED
    BY <1>0, <1>1, <1>9 DEF ServerTo, y

\* A server that reads.
LEMMA HearingPlaces ==
    ASSUME ConnInv, toServer # <<>>,
           s.pc \in {"certificate", "keyExchange", "certificateVerify", "ccs",
                     "finished"}
    PROVE  \/ /\ Hearing(c, s) /\ toClient = <<>>
              /\ c.pc \in {"ticket", "ccs"} /\ c.in = None /\ Quiet(c)
              /\ s.pc = "certificate" => AtCertificate(s, toServer)
              /\ s.pc = "keyExchange" => AtKeyExchange(s, toServer)
              /\ s.pc = "certificateVerify" => AtVerify(s, toServer)
              /\ s.pc = "ccs" => AtCCS(s, toServer)
              /\ s.pc = "finished" => AtFinished(s, toServer)
           \/ Resumed(c, s, toServer, toClient) /\ s.pc \in {"ccs", "finished"}
           \/ /\ ClientRefused(c, s, toServer, toClient)
              /\ s.pc \in {"certificate", "keyExchange", "ccs"}
  <1>0. DOMAIN s = ConnFields /\ Stage(c, s, toServer, toClient)
    BY InvFacts
  <1>1. ~ServerFlight(c, s, toServer, toClient) /\ ~Resuming(c, s, toServer, toClient)
    BY DEF ServerFlight, Resuming
  <1>2. \/ ClientFlightSent(c, s, toServer, toClient)
        \/ Resumed(c, s, toServer, toClient)
        \/ ClientRefused(c, s, toServer, toClient)
    BY <1>0, <1>1, StagePlaces DEF Stage
  <1>3. CASE ClientFlightSent(c, s, toServer, toClient)
    <2>1. Hearing(c, s) /\ toClient = <<>>
      BY <1>0, <1>3 DEF Hearing, ClientFlightSent
    <2>2. c.pc \in {"ticket", "ccs"} /\ c.in = None /\ Quiet(c)
      BY <2>1 DEF Hearing, ClientAwaitsEnd, Follows
    <2>3. /\ AtCertificate(s, toServer) => s.pc = "certificate"
          /\ AtKeyExchange(s, toServer) => s.pc = "keyExchange"
          /\ AtVerify(s, toServer) => s.pc = "certificateVerify"
          /\ AtCCS(s, toServer) => s.pc = "ccs"
          /\ AtFinished(s, toServer) => s.pc = "finished"
      BY DEF AtCertificate, AtKeyExchange, AtVerify, AtCCS, AtFinished
    <2>4. \/ AtCertificate(s, toServer) \/ AtKeyExchange(s, toServer)
          \/ AtVerify(s, toServer) \/ AtCCS(s, toServer)
          \/ AtFinished(s, toServer)
      BY <1>3 DEF ClientFlightSent
    <2> QED
      BY <2>1, <2>2, <2>3, <2>4
  <1>4. CASE Resumed(c, s, toServer, toClient)
    <2>1. s.pc # "certificate" /\ s.pc # "keyExchange" /\ s.pc # "certificateVerify"
      BY <1>4, StagePlaces
    <2> QED
      BY <1>4, <2>1
  <1>5. CASE ClientRefused(c, s, toServer, toClient)
    BY <1>5, StagePlaces
  <1> QED
    BY <1>2, <1>3, <1>4, <1>5


LEMMA ClientCertificateStep ==
    ASSUME ConnInv, ReadClientCertificate
    PROVE  StepOK
  <1> DEFINE g == Receive(s, Head(toServer), {"certificate"})
             x == Hashed(s, ChainMsg)
             v == processCertsFromClient(x, Chain)
             d == [v EXCEPT !.pc = "keyExchange"]
             r == IF v.pc = "failed" THEN v ELSE d
  <1>0. /\ s.pc = "certificate" /\ toServer # <<>>
        /\ toServer' = Tail(toServer) /\ UNCHANGED made
    BY DEF ReadClientCertificate, ServerReads
  <1>f. DOMAIN s = ConnFields /\ WorldOK /\ CacheOK(cache)
    BY InvFacts
  <1>1. CASE ClientRefused(c, s, toServer, toClient)
    <2>1. Head(toServer) = AlertRec(c.err) /\ s.in = None
      BY <1>1 DEF ClientRefused
    <2>2. g = Return(s, "remote") /\ g.pc = "failed"
      BY <1>f, <2>1, OpensAlert
    <2> HIDE DEF g
    <2>3. ServerBecomes(g)
      BY <2>2 DEF ReadClientCertificate, ServerReads, Then, g
    <2> QED
      BY <1>0, <1>1, <2>2, <2>3, ServerGivesUp
  <1>2. CASE /\ Hearing(c, s) /\ toClient = <<>> /\ AtCertificate(s, toServer)
             /\ c.pc \in {"ticket", "ccs"} /\ c.in = None /\ Quiet(c)
    <2>0. /\ conf.auth # 0 /\ s.in = None /\ s.out = None /\ s.sendBuf = <<>>
          /\ s.transcript = Hash6(s) /\ s.buffer /\ NoKeys(s)
      BY <1>2 DEF AtCertificate, NoKeys, Hearing, Quiet
    <2>1. Head(toServer) = Rec(None, ChainMsg) /\ Tail(toServer) = Sent2(s)
      BY <1>2, SentHeads DEF AtCertificate
    <2>2. /\ ChainMsg.type = "certificate" /\ ChainMsg.cert = Chain
          /\ Digest(ChainMsg) = ChainMsg
      BY DEF ChainMsg, Digest
    <2>3. g = s /\ Head(toServer).msg = ChainMsg
      <3>1. Opened(s, Head(toServer), FALSE) = s /\ Head(toServer).msg = ChainMsg
        BY <1>0, <2>0, <2>1, ReadsMessage
      <3> QED
        BY <2>2, <3>1 DEF Receive, Then
    <2>4. ServerBecomes(r)
      BY <1>0, <2>2, <2>3 DEF ReadClientCertificate, ServerReads, Then
    <2>5. Keeps(x, s, {"transcript"}) /\ x.transcript = Hash7(s)
      BY <1>f, <2>0, <2>2, HashedFields DEF Hash7
    <2> HIDE DEF x
    <2>6. CASE Refused(Chain)
      <3>1. v = Alert(x, "bad_certificate")
        BY <2>6 DEF processCertsFromClient, Refused
      <3>2. DOMAIN x = ConnFields /\ x.out = None /\ x.sendBuf = <<>>
        BY <2>0, <2>5 DEF Keeps, ConnFields
      <3>3. Refused(conf.clientCert)
        BY <2>0, <2>6 DEF Chain
      <3>4. \A y : (y.err = "bad_certificate" /\ y.sessionState = x.sessionState)
                      => ServerCause(y, c)
        BY <3>3 DEF ServerCause
      <3>5. c.pc \in {"serverHello", "ticket", "ccs"} /\ c.in = None /\ Quiet(c)
        BY <1>2
      <3>6. /\ ServerTo(c, Alert(x, "bad_certificate"), toServer')
            /\ Alert(x, "bad_certificate").pc = "failed"
        BY <3>2, <3>4, <3>5, ServerAlerts
      <3> HIDE DEF v
      <3>7. r = v /\ ServerTo(c, v, toServer')
        BY <3>1, <3>6
      <3> HIDE DEF r
      <3> QED
        BY <1>f, <1>0, <1>2, <2>4, <3>7, ServerMoves
    <2>7. CASE ~Refused(Chain)
      <3> DEFINE w == [x EXCEPT !.peerCerts = Chain]
      <3>1. v = w
        BY <2>7 DEF processCertsFromClient, Refused
      <3>2. Keeps(w, x, {"peerCerts"}) /\ w.peerCerts = Chain
        <4> DEFINE k == Chain
        <4> HIDE DEF k
        <4>1. /\ Keeps([x EXCEPT !.peerCerts = k], x, {"peerCerts"})
              /\ [x EXCEPT !.peerCerts = k].peerCerts = k
          BY <2>5 DEF Keeps, ConnFields
        <4> QED
          BY <4>1 DEF k
      <3> HIDE DEF w
      <3>3. w.pc = "certificate"
        BY <1>0, <2>5, <3>2 DEF Keeps, ConnFields
      <3>4. r = d /\ d = [w EXCEPT !.pc = "keyExchange"]
        BY <3>1, <3>3
      <3> HIDE DEF r, d, v
      <3>5. Keeps(d, w, {"pc"}) /\ d.pc = "keyExchange"
        BY <3>2, <3>4 DEF Keeps, ConnFields
      <3>6. Keeps(d, s, {"pc", "transcript", "peerCerts", "secret", "buffer",
                         "in", "nextIn", "nextOut"})
        BY <2>5, <3>2, <3>5 DEF Keeps
      <3>7. /\ Hearing(c, d)
            /\ d.hello = s.hello /\ d.serverHello = s.serverHello
            /\ d.vers = s.vers /\ d.suite = s.suite /\ d.curve = s.curve
        BY <1>2, <3>6, HearingKept
      <3>8. /\ d.transcript = Hash7(s) /\ d.peerCerts = Chain /\ d.in = s.in
            /\ d.out = s.out /\ d.nextIn = s.nextIn /\ d.nextOut = s.nextOut
            /\ d.buffer = s.buffer
        BY <2>5, <3>2, <3>5 DEF Keeps, ConnFields
      <3>9. Hash7(d) = Hash7(s) /\ Sent2(d) = Sent2(s)
        BY <3>7, SameFlights
      <3>10. AtKeyExchange(d, toServer')
        BY <1>0, <2>0, <2>1, <2>7, <3>5, <3>8, <3>9
           DEF AtKeyExchange, Accepted, NoKeys
      <3>11. ServerTo(c, r, toServer')
        BY <3>4, <3>7, <3>10, HearingOn
      <3> QED
        BY <1>f, <1>0, <1>2, <2>4, <3>11, ServerMoves
    <2> QED
      BY <2>6, <2>7
  <1> QED
    BY <1>0, <1>1, <1>2, HearingPlaces

\* The keys of a full handshake at the server, after its last message before
\* ChangeCipherSpec.
LEMMA ServerHasKeys ==
    ASSUME NEW p, NEW q, NEW x, Hearing(p, q),
           Keeps(x, q, {"pc", "transcript", "secret"}), x.secret = Master(q),
           x.transcript = Hash9(q), Accepted(q), q.in = None, q.out = None
    PROVE  ServerTo(p, ServerKeys(x), Sent4(q))
  <1> DEFINE y == [x EXCEPT !.buffer = FALSE]
             z == establishKeys(y, "server", "client")
             r == [z EXCEPT !.pc = "ccs"]
  <1>1. Keeps(y, x, {"buffer"})
    BY DEF Keeps, ConnFields
  <1> HIDE DEF y
  <1>2. Keeps(y, q, {"pc", "transcript", "secret", "buffer"})
    BY <1>1 DEF Keeps
  <1>3. DOMAIN y = ConnFields /\ y.vers = q.vers /\ y.suite = q.suite
        /\ y.secret = Master(q) /\ y.transcript = Hash9(q)
    <2>1. y.secret = x.secret /\ y.transcript = x.transcript
      BY <1>1 DEF Keeps, ConnFields
    <2> QED
      BY <1>2, <2>1 DEF Keeps, ConnFields
  <1>4. /\ Keeps(z, y, {"nextIn", "nextOut"})
        /\ z.nextOut = KeyOf(q, Master(q), "server")
        /\ z.nextIn = KeyOf(q, Master(q), "client")
    BY <1>3, EstablishFields DEF KeyOf
  <1> HIDE DEF z
  <1>5. Keeps(r, z, {"pc"}) /\ r.pc = "ccs"
    BY <1>4 DEF Keeps, ConnFields
  <1>6. r = ServerKeys(x)
    BY DEF r, z, y, ServerKeys
  <1> HIDE DEF r
  <1>7. Keeps(r, q, {"pc", "transcript", "peerCerts", "secret", "buffer", "in",
                     "nextIn", "nextOut"})
    BY <1>2, <1>4, <1>5 DEF Keeps
  <1>8. /\ Hearing(p, r)
        /\ r.hello = q.hello /\ r.serverHello = q.serverHello
        /\ r.vers = q.vers /\ r.suite = q.suite /\ r.curve = q.curve
    BY <1>7, HearingKept
  <1>9. /\ r.transcript = Hash9(q) /\ r.secret = Master(q)
        /\ r.nextOut = KeyOf(q, Master(q), "server")
        /\ r.nextIn = KeyOf(q, Master(q), "client")
        /\ r.peerCerts = q.peerCerts /\ r.in = None /\ r.out = None
    BY <1>2, <1>3, <1>4, <1>5 DEF Keeps, ConnFields
  <1>10. /\ Hash9(r) = Hash9(q) /\ Sent4(r) = Sent4(q) /\ Master(r) = Master(q)
         /\ KeyOf(r, Master(r), "server") = KeyOf(q, Master(q), "server")
         /\ KeyOf(r, Master(r), "client") = KeyOf(q, Master(q), "client")
    BY <1>8, SameFlights
  <1>11. AtCCS(r, Sent4(q))
    BY <1>5, <1>9, <1>10 DEF AtCCS, Accepted
  <1> QED
    BY <1>6, <1>8, <1>11, HearingOn

LEMMA ClientKeyStep ==
    ASSUME ConnInv, ReadClientKeyExchange
    PROVE  StepOK
  <1> DEFINE g == Opened(s, Head(toServer), FALSE)
             m == CKEMsg(s)
             x == [Hashed(s, m) EXCEPT !.secret = masterSecret(s, m.curve)]
             d == [x EXCEPT !.pc = "certificateVerify"]
             r == IF conf.serverVetoes THEN Alert(s, "bad_certificate")
                  ELSE IF x.peerCerts = "none" THEN ServerKeys(x) ELSE d
  <1>0. /\ s.pc = "keyExchange" /\ toServer # <<>>
        /\ toServer' = Tail(toServer) /\ UNCHANGED made
    BY DEF ReadClientKeyExchange, ServerReads
  <1>f. DOMAIN s = ConnFields /\ WorldOK /\ CacheOK(cache)
    BY InvFacts
  <1>1. CASE ClientRefused(c, s, toServer, toClient)
    <2>1. Head(toServer) = AlertRec(c.err) /\ s.in = None
      BY <1>1 DEF ClientRefused
    <2>2. g = Return(s, "remote") /\ g.pc = "failed"
      BY <1>f, <2>1, OpensAlert
    <2> HIDE DEF g
    <2>3. ServerBecomes(g)
      BY <2>2 DEF ReadClientKeyExchange, ServerReads, Then, g
    <2> QED
      BY <1>0, <1>1, <2>2, <2>3, ServerGivesUp
  <1>2. CASE /\ Hearing(c, s) /\ toClient = <<>> /\ AtKeyExchange(s, toServer)
             /\ c.pc \in {"ticket", "ccs"} /\ c.in = None /\ Quiet(c)
    <2>0. /\ s.in = None /\ s.out = None /\ s.sendBuf = <<>>
          /\ s.transcript = Hash7(s) /\ NoKeys(s) /\ Accepted(s)
          /\ s.buffer <=> conf.auth # 0
      BY <1>2 DEF AtKeyExchange, NoKeys, Hearing, Quiet
    <2>1. Head(toServer) = Rec(None, m) /\ Tail(toServer) = Sent3(s)
      BY <1>2, SentHeads DEF AtKeyExchange
    <2>2. /\ m.type = "clientKeyExchange" /\ m.curve = s.curve
          /\ Digest(m) = m
      BY DEF CKEMsg, Digest
    <2>3. g = s /\ Head(toServer).msg = m
      BY <1>0, <2>0, <2>1, ReadsMessage
    <2> HIDE DEF m
    <2>4. ServerBecomes(r)
      BY <1>0, <2>2, <2>3 DEF ReadClientKeyExchange, ServerReads, Then
    <2>5. CASE conf.serverVetoes
      <3>1. \A y : (y.err = "bad_certificate" /\ y.sessionState = s.sessionState)
                      => ServerCause(y, c)
        BY <2>5 DEF ServerCause
      <3>2. c.pc \in {"serverHello", "ticket", "ccs"} /\ c.in = None /\ Quiet(c)
        BY <1>2
      <3>3. ServerTo(c, Alert(s, "bad_certificate"), toServer')
        BY <1>f, <2>0, <3>1, <3>2, ServerAlerts
      <3>4. ServerTo(c, r, toServer')
        BY <2>5, <3>3
      <3> HIDE DEF r
      <3> QED
        BY <1>f, <1>0, <1>2, <2>4, <3>4, ServerMoves
    <2>6. CASE ~conf.serverVetoes
      <3> DEFINE h == Hashed(s, m)
                 k == masterSecret(s, m.curve)
      <3>1. Keeps(h, s, {"transcript"}) /\ h.transcript = Hash8(s)
        BY <1>f, <2>0, <2>2, HashedFields DEF Hash8, m
      <3>2. k = Master(s)
        BY <2>2 DEF Master
      <3> HIDE DEF h, k
      <3>3. x = [h EXCEPT !.secret = k]
        BY DEF h, k
      <3> HIDE DEF x
      <3>4. Keeps(x, h, {"secret"}) /\ x.secret = k
        BY <3>1, <3>3 DEF Keeps, ConnFields
      <3>5. /\ Keeps(x, s, {"pc", "transcript", "secret"})
            /\ x.transcript = Hash8(s) /\ x.peerCerts = s.peerCerts
        <4>1. x.transcript = h.transcript /\ x.peerCerts = s.peerCerts
          BY <3>1, <3>4 DEF Keeps, ConnFields
        <4> QED
          BY <3>1, <3>4, <4>1 DEF Keeps
      <3>6. CASE Chain = "none"
        <4>1. Sent3(s) = Sent4(s) /\ Hash9(s) = Hash8(s)
          BY <3>6, SentHeads DEF Hash9
        <4>2. r = ServerKeys(x)
          BY <2>0, <2>6, <3>5, <3>6 DEF Accepted
        <4>3. ServerTo(c, ServerKeys(x), Sent4(s))
          BY <1>2, <2>0, <3>2, <3>4, <3>5, <4>1, ServerHasKeys
        <4> HIDE DEF r
        <4>4. ServerTo(c, r, toServer')
          BY <1>0, <2>1, <4>1, <4>2, <4>3
        <4> QED
          BY <1>f, <1>0, <1>2, <2>4, <4>4, ServerMoves
      <3>7. CASE Chain # "none"
        <4>1. r = d
          BY <2>0, <2>6, <3>5, <3>7 DEF Accepted
        <4>2. Keeps(d, x, {"pc"}) /\ d.pc = "certificateVerify"
          BY <3>4 DEF Keeps, ConnFields
        <4> HIDE DEF r, d
        <4>3. Keeps(d, s, {"pc", "transcript", "peerCerts", "secret", "buffer",
                           "in", "nextIn", "nextOut"})
          BY <3>5, <4>2 DEF Keeps
        <4>4. /\ Hearing(c, d)
              /\ d.hello = s.hello /\ d.serverHello = s.serverHello
              /\ d.vers = s.vers /\ d.suite = s.suite /\ d.curve = s.curve
          BY <1>2, <4>3, HearingKept
        <4>5. /\ d.transcript = Hash8(s) /\ d.peerCerts = s.peerCerts
              /\ d.secret = k /\ d.in = s.in /\ d.out = s.out
              /\ d.nextIn = s.nextIn /\ d.nextOut = s.nextOut
              /\ d.buffer = s.buffer
          BY <3>4, <3>5, <4>2 DEF Keeps, ConnFields
        <4>6. /\ Hash8(d) = Hash8(s) /\ Sent3(d) = Sent3(s)
              /\ Master(d) = Master(s)
          BY <4>4, SameFlights
        <4>7. conf.auth # 0
          BY <3>7 DEF Chain
        <4>8. AtVerify(d, toServer')
          BY <1>0, <2>0, <2>1, <3>2, <3>7, <4>2, <4>5, <4>6, <4>7
             DEF AtVerify, Accepted, NoKeys
        <4>9. ServerTo(c, r, toServer')
          BY <4>1, <4>4, <4>8, HearingOn
        <4> QED
          BY <1>f, <1>0, <1>2, <2>4, <4>9, ServerMoves
      <3> QED
        BY <3>6, <3>7
    <2> QED
      BY <2>5, <2>6
  <1> QED
    BY <1>0, <1>1, <1>2, HearingPlaces

LEMMA CertificateVerifyStep ==
    ASSUME ConnInv, ReadCertificateVerify
    PROVE  StepOK
  <1> DEFINE m == VerifyMsg(s)
             x == Hashed(s, m)
  <1>0. /\ s.pc = "certificateVerify" /\ toServer # <<>>
        /\ toServer' = Tail(toServer) /\ UNCHANGED made
    BY DEF ReadCertificateVerify, ServerReads
  <1>f. DOMAIN s = ConnFields /\ WorldOK /\ CacheOK(cache)
    BY InvFacts
  <1>1. Hearing(c, s) /\ toClient = <<>> /\ AtVerify(s, toServer)
    BY <1>0, HearingPlaces
  <1>2. /\ s.in = None /\ s.out = None /\ Accepted(s) /\ s.secret = Master(s)
        /\ s.transcript = Hash8(s) /\ s.buffer /\ Chain # "none"
    BY <1>1 DEF AtVerify, NoKeys
  <1>3. Head(toServer) = Rec(None, m) /\ Tail(toServer) = Sent4(s)
    BY <1>1, <1>2, SentHeads DEF AtVerify
  <1>4. /\ m.type = "certificateVerify"
        /\ m = [type |-> "certificateVerify", cert |-> s.peerCerts,
                signed |-> s.transcript]
        /\ Digest(m) = [type |-> "certificateVerify"]
    BY <1>2 DEF VerifyMsg, Digest, Accepted
  <1> HIDE DEF m
  <1>5. Receive(s, Head(toServer), {"certificateVerify"}) = s
        /\ Head(toServer).msg = m
    <2>1. Opened(s, Head(toServer), FALSE) = s /\ Head(toServer).msg = m
      BY <1>0, <1>2, <1>3, ReadsMessage
    <2> QED
      BY <1>4, <2>1 DEF Receive, Then
  <1>6. ~BufferGone(s)
    BY <1>2 DEF BufferGone
  <1>7. ServerBecomes(ServerKeys(x))
    BY <1>0, <1>4, <1>5, <1>6 DEF ReadCertificateVerify, ServerReads, Then
  <1>8. Keeps(x, s, {"transcript"}) /\ x.transcript = Hash9(s)
    BY <1>f, <1>2, <1>4, HashedFields DEF Hash9
  <1> HIDE DEF x
  <1>9. /\ Keeps(x, s, {"pc", "transcript", "secret"}) /\ x.secret = Master(s)
    <2>1. x.secret = s.secret
      BY <1>8 DEF Keeps, ConnFields
    <2> QED
      BY <1>2, <1>8, <2>1 DEF Keeps
  <1>10. ServerTo(c, ServerKeys(x), toServer')
    BY <1>0, <1>1, <1>2, <1>3, <1>8, <1>9, ServerHasKeys
  <1> QED
    BY <1>f, <1>0, <1>1, <1>7, <1>10, ServerMoves

\* The server moves on in a resumption the client is done with.
LEMMA ResumedOn ==
    ASSUME NEW p, NEW q, NEW ts, NEW tc, NEW r, NEW t2, Resumed(p, q, ts, tc),
           Keeps(r, q, {"pc", "in", "nextIn", "transcript"}), Quiet(q),
           ~q.buffering, r.in = p.out, q.out = p.in,
           \/ /\ r.pc = "finished" /\ t2 = Back2(q)
              /\ r.transcript = Append(WithTicket(q, Hash1(q)), Fin)
           \/ r.pc = "done" /\ r.transcript = p.transcript
    PROVE  ServerTo(p, r, t2)
  <1> DEFINE y == After(r)
  <1>0. DOMAIN r = ConnFields /\ r.sendBuf = <<>>
    BY DEF Keeps, Quiet, ConnFields
  <1>1. Keeps(y, r, {}) /\ Passed(r) = <<>> /\ IsSeq(r.sendBuf)
    BY <1>0, AfterSame
  <1> HIDE DEF y
  <1>2. Keeps(y, q, {"pc", "in", "nextIn", "transcript"})
    BY <1>1 DEF Keeps
  <1>3. /\ y.hello = q.hello /\ y.serverHello = q.serverHello
        /\ y.vers = q.vers /\ y.suite = q.suite /\ y.curve = q.curve
        /\ y.proto = q.proto /\ y.err = q.err /\ y.sessionState = q.sessionState
        /\ y.resumed = q.resumed /\ y.sendBuf = q.sendBuf
        /\ y.buffering = q.buffering /\ y.secret = q.secret
        /\ y.peerCerts = q.peerCerts /\ y.out = q.out
    BY <1>2 DEF Keeps, ConnFields
  <1>4. y.pc = r.pc /\ y.in = r.in /\ y.transcript = r.transcript
    BY <1>1 DEF Keeps, ConnFields
  <1>5. /\ Hash1(y) = Hash1(q)
        /\ KeyOf(y, y.secret, "client") = KeyOf(q, q.secret, "client")
        /\ KeyOf(y, y.secret, "server") = KeyOf(q, q.secret, "server")
    BY <1>3, SameFlights
  <1>6. TicketFor(y) = TicketFor(q)
    BY <1>3 DEF TicketFor
  <1>7. WithTicket(y, Hash1(y)) = WithTicket(q, Hash1(q))
    BY <1>3, <1>5, <1>6 DEF WithTicket, TicketMsg
  <1>8. Back2(y) = Back2(q)
    BY <1>3, <1>5, <1>7 DEF Back2
  <1>9. ChoseResume(p, y)
    BY <1>3, <1>6 DEF Resumed, ChoseResume, Chosen, Announced
  <1>10. Follows(p, y)
    BY <1>3 DEF Resumed, Follows
  <1>11. Quiet(y) /\ ~y.buffering
    BY <1>3 DEF Quiet
  <1>12. Resumed(p, y, t2, <<>>)
    <2>1. /\ Offers(p) /\ Verified(p)
          /\ p.resumed = TRUE /\ p.pc = "done" /\ p.secret = y.secret
          /\ p.in = KeyOf(y, y.secret, "server")
          /\ p.out = KeyOf(y, y.secret, "client")
          /\ p.transcript = Append(Append(WithTicket(y, Hash1(y)), Fin), Fin)
      BY <1>3, <1>5, <1>7 DEF Resumed
    <2>2. y.in = p.out /\ y.out = p.in
      BY <1>3, <1>4
    <2> QED
      BY <1>4, <1>7, <1>8, <1>9, <1>10, <1>11, <2>1, <2>2 DEF Resumed
  <1>13. Stage(p, y, t2, Passed(r))
    BY <1>1, <1>12 DEF Stage
  <1> QED
    BY <1>0, <1>1, <1>13 DEF ServerTo, y

\* The secret that is resumed is one.
LEMMA ResumedSecret ==
    ASSUME ConfOK, n \in Nat, NEW p, NEW q, Offers(p), ChoseResume(p, q)
    PROVE  /\ q.secret \in Secrets
           /\ KeyOf(q, q.secret, "client") # None
           /\ KeyOf(q, q.secret, "server") # None
  <1>1. q.secret \in Secrets /\ Announced(q, n)
    BY DEF Offers, ChoseResume, SessionOK, TicketOK
  <1> QED
    BY <1>1, KeyTyped

LEMMA ServerCCSStep ==
    ASSUME ConnInv, ServerReadsCCS
    PROVE  StepOK
  <1> DEFINE g == ReceiveCCS(s, Head(toServer))
             r == ReceiveCCS(s, CCS)
  <1>0. /\ s.pc = "ccs" /\ toServer # <<>> /\ toServer' = Tail(toServer)
        /\ UNCHANGED made /\ ServerBecomes(g)
    BY DEF ServerReadsCCS, ServerReads
  <1>f. /\ DOMAIN s = ConnFields /\ WorldOK /\ CacheOK(cache) /\ ConfOK
        /\ n \in Nat
    BY InvFacts
  <1>1. CASE ClientRefused(c, s, toServer, toClient)
    <2>1. Head(toServer) = AlertRec(c.err) /\ s.in = None
      BY <1>1 DEF ClientRefused
    <2>2. g = Return(s, "remote") /\ g.pc = "failed"
      BY <1>f, <2>1, OpensAlert
    <2> QED
      BY <1>0, <1>1, <2>2, ServerGivesUp
  <1>2. CASE Hearing(c, s) /\ toClient = <<>> /\ AtCCS(s, toServer)
    <2>0. /\ s.in = None /\ s.nextIn = KeyOf(s, Master(s), "client")
          /\ s.secret = Master(s) /\ s.transcript = Hash9(s) /\ Accepted(s)
          /\ s.out = None /\ s.nextOut = KeyOf(s, Master(s), "server")
      BY <1>2 DEF AtCCS
    <2>1. Head(toServer) = CCS /\ Tail(toServer) = Sent5(s)
      BY <1>2, SentHeads DEF AtCCS
    <2>2. s.nextIn # None
      BY <1>2, <1>f, <2>0, MasterTyped DEF Hearing
    <2>3. /\ Keeps(r, s, {"in", "nextIn", "pc"})
          /\ r.in = s.nextIn /\ r.pc = "finished"
      BY <1>0, <1>f, <2>0, <2>2, OpensCCS
    <2>4. ServerBecomes(r)
      BY <1>0, <2>1
    <2> HIDE DEF r
    <2>5. Keeps(r, s, {"pc", "transcript", "peerCerts", "secret", "buffer", "in",
                       "nextIn", "nextOut"})
      BY <2>3 DEF Keeps
    <2>6. /\ Hearing(c, r)
          /\ r.hello = s.hello /\ r.serverHello = s.serverHello
          /\ r.vers = s.vers /\ r.suite = s.suite /\ r.curve = s.curve
      BY <1>2, <2>5, HearingKept
    <2>7. /\ r.transcript = s.transcript /\ r.secret = s.secret
          /\ r.nextOut = s.nextOut /\ r.peerCerts = s.peerCerts
          /\ r.out = s.out
      BY <2>3 DEF Keeps, ConnFields
    <2>8. /\ Hash9(r) = Hash9(s) /\ Sent5(r) = Sent5(s) /\ Master(r) = Master(s)
          /\ KeyOf(r, Master(r), "server") = KeyOf(s, Master(s), "server")
          /\ KeyOf(r, Master(r), "client") = KeyOf(s, Master(s), "client")
      BY <2>6, SameFlights
    <2>9. AtFinished(r, toServer')
      BY <1>0, <2>0, <2>1, <2>3, <2>7, <2>8 DEF AtFinished, Accepted
    <2>10. ServerTo(c, r, toServer')
      BY <2>6, <2>9, HearingOn
    <2> QED
      BY <1>f, <1>0, <1>2, <2>4, <2>10, ServerMoves
  <1>3. CASE Resumed(c, s, toServer, toClient)
    <2>0. ServerAwaitsCCS(s) /\ toServer = Back1(s) /\ toClient = <<>>
      BY <1>0, <1>3 DEF Resumed
    <2>1. Head(toServer) = CCS /\ Tail(toServer) = Back2(s)
      BY <2>0, BackSeqs
    <2>2. /\ s.in = None /\ s.nextIn = KeyOf(s, s.secret, "client")
          /\ s.out = KeyOf(s, s.secret, "server") /\ Quiet(s) /\ ~s.buffering
          /\ s.transcript = Append(WithTicket(s, Hash1(s)), Fin)
      BY <2>0 DEF ServerAwaitsCCS
    <2>3. s.nextIn # None
      BY <1>3, <1>f, <2>2, ResumedSecret DEF Resumed
    <2>4. /\ Keeps(r, s, {"in", "nextIn", "pc"})
          /\ r.in = s.nextIn /\ r.pc = "finished"
      BY <1>0, <1>f, <2>2, <2>3, OpensCCS
    <2>5. ServerBecomes(r)
      BY <1>0, <2>1
    <2> HIDE DEF r
    <2>6. r.transcript = s.transcript
      BY <2>4 DEF Keeps, ConnFields
    <2>7. r.in = c.out /\ s.out = c.in
      BY <1>3, <2>2, <2>4 DEF Resumed
    <2>8. Keeps(r, s, {"pc", "in", "nextIn", "transcript"})
      BY <2>4 DEF Keeps
    <2>9. ServerTo(c, r, Back2(s))
      BY <1>3, <2>2, <2>4, <2>6, <2>7, <2>8, ResumedOn
    <2> QED
      BY <1>f, <1>0, <2>0, <2>1, <2>5, <2>9, ServerMoves
  <1> QED
    BY <1>0, <1>1, <1>2, <1>3, HearingPlaces

\* The end of a handshake at the server: a ticket if there is to be one,
\* ChangeCipherSpec, Finished.
LEMMA EndSent ==
    ASSUME NEW x, NEW h, DOMAIN x = ConnFields, IsSeq(x.sendBuf),
           x.pc # "failed", x.out = None, x.transcript = h,
           x.nextOut = KeyOf(x, x.secret, "server"), x.nextOut # None
    PROVE  LET f == sendFinished(sendSessionTicket(x), "server finished")
           IN /\ Keeps(f, x, {"transcript", "sendBuf", "out", "nextOut"})
              /\ f.pc # "failed" /\ f.out = x.nextOut /\ IsSeq(f.sendBuf)
              /\ f.transcript = Append(WithTicket(x, h), Fin)
              /\ f.sendBuf = x.sendBuf \o End1(x, h)
  <1> DEFINE due == x.serverHello.ticketSupported
             m == TicketMsg(x)
             t == SayIf(due, x, m)
             f == sendFinished(t, "server finished")
  <1>1. sendSessionTicket(x) = t
    BY DEF sendSessionTicket, SayIf, TicketMsg
  <1>2. IsSeq(End2(x, h))
    BY FlightSeqs
  <1>3. Digest(m) = m
    BY DEF Digest, TicketMsg
  <1> HIDE DEF m
  <1>4. Says(due, t, x, m, End2(x, h))
    BY <1>2, SayIfFields
  <1> HIDE DEF t
  <1>5. /\ Keeps(t, x, {"transcript", "sendBuf"}) /\ IsSeq(t.sendBuf)
        /\ t.transcript = WithTicket(x, h)
        /\ t.sendBuf \o End2(x, h) = x.sendBuf \o End1(x, h)
    BY <1>3, <1>4 DEF Says, WithTicket, End1, m
  <1>6. /\ DOMAIN t = ConnFields /\ t.pc = x.pc /\ t.nextOut = x.nextOut
        /\ t.out = x.out /\ t.secret = x.secret
    BY <1>5 DEF Keeps, ConnFields
  <1>7. /\ Keeps(f, t, {"transcript", "sendBuf", "out", "nextOut"})
        /\ f.transcript = Append(t.transcript, Fin)
        /\ IsSeq(f.sendBuf)
        /\ f.sendBuf = t.sendBuf \o Before(CCS, <<Rec(t.nextOut,
                         FinMsg("server finished", t.secret, t.transcript))>>)
        /\ f.out = t.nextOut /\ f.pc # "failed"
    BY <1>5, <1>6, SendFinishedFields
  <1>8. f.sendBuf = t.sendBuf \o End2(x, h)
    BY <1>5, <1>6, <1>7 DEF End2, End3
  <1> HIDE DEF f
  <1>9. Keeps(f, x, {"transcript", "sendBuf", "out", "nextOut"})
    BY <1>5, <1>7 DEF Keeps
  <1>10. f.transcript = Append(WithTicket(x, h), Fin) /\ f.out = x.nextOut
    BY <1>5, <1>6, <1>7
  <1>11. f.sendBuf = x.sendBuf \o End1(x, h)
    BY <1>5, <1>8
  <1> QED
    BY <1>1, <1>7, <1>9, <1>10, <1>11 DEF f

\* It depends on what the server has settled and on the session, nothing else.
LEMMA SameEnds ==
    ASSUME NEW q, NEW r, NEW h, r.serverHello = q.serverHello,
           r.vers = q.vers, r.suite = q.suite, r.secret = q.secret,
           r.peerCerts = q.peerCerts, r.sessionState = q.sessionState
    PROVE  /\ TicketFor(r) = TicketFor(q)
           /\ WithTicket(r, h) = WithTicket(q, h)
           /\ End1(r, h) = End1(q, h) /\ End2(r, h) = End2(q, h)
           /\ End3(r, h) = End3(q, h)
  <1>1. TicketFor(r) = TicketFor(q)
    BY DEF TicketFor
  <1>2. WithTicket(r, h) = WithTicket(q, h)
    BY <1>1 DEF WithTicket, TicketMsg
  <1>3. End3(r, h) = End3(q, h)
    BY <1>2 DEF End3, KeyOf
  <1>4. End2(r, h) = End2(q, h)
    BY <1>3 DEF End2
  <1>5. End1(r, h) = End1(q, h)
    BY <1>1, <1>4 DEF End1, TicketMsg
  <1> QED
    BY <1>1, <1>2, <1>3, <1>4, <1>5

\* The server has read the client's Finished and sent its own.
LEMMA ServerIsDone ==
    ASSUME ConfOK, n \in Nat, NEW p, NEW q, NEW ts, Hearing(p, q),
           AtFinished(q, ts), NEW x, Keeps(x, q, {"transcript"}),
           x.transcript = HashF(q)
    PROVE  LET b == [x EXCEPT !.buffering = TRUE]
               f == sendFinished(sendSessionTicket(b), "server finished")
               r == [Flushed(f) EXCEPT !.pc = "done"]
           IN /\ f.pc # "failed" /\ DOMAIN r = ConnFields /\ IsSeq(r.sendBuf)
              /\ ServerEnded(p, After(r), <<>>, Passed(r))
              /\ Keeps(After(r), q, {"transcript", "buffering", "sendBuf", "out",
                                     "nextOut", "pc"})
  <1> DEFINE h == HashF(q)
             b == [x EXCEPT !.buffering = TRUE]
             f == sendFinished(sendSessionTicket(b), "server finished")
             e == Flushed(f)
             r == [e EXCEPT !.pc = "done"]
             y == After(r)
  <1>q. /\ q.pc = "finished" /\ q.secret = Master(q) /\ q.out = None
        /\ q.nextOut = KeyOf(q, Master(q), "server") /\ q.sendBuf = <<>>
        /\ q.in = KeyOf(q, Master(q), "client") /\ Accepted(q)
    BY DEF AtFinished, Hearing, Quiet
  <1>1. Keeps(b, x, {"buffering"})
    BY DEF Keeps, ConnFields
  <1> HIDE DEF b
  <1>2. Keeps(b, q, {"transcript", "buffering"}) /\ b.transcript = h
    <2>1. b.transcript = x.transcript
      BY <1>1 DEF Keeps, ConnFields
    <2> QED
      BY <1>1, <2>1 DEF Keeps
  <1>3. /\ DOMAIN b = ConnFields /\ b.sendBuf = <<>> /\ b.pc = "finished"
        /\ b.out = None /\ b.nextOut = q.nextOut /\ b.secret = q.secret
        /\ b.vers = q.vers /\ b.suite = q.suite
        /\ b.serverHello = q.serverHello /\ b.peerCerts = q.peerCerts
        /\ b.sessionState = q.sessionState
    BY <1>q, <1>2 DEF Keeps, ConnFields
  <1>4. b.nextOut = KeyOf(b, b.secret, "server") /\ b.nextOut # None
    <2>1. b.nextOut # None
      BY <1>q, <1>3, MasterTyped DEF Hearing
    <2> QED
      BY <1>q, <1>3, <2>1 DEF KeyOf
  <1>5. IsSeq(b.sendBuf)
    BY <1>3, SeqAny
  <1> HIDE DEF h
  <1>6. /\ Keeps(f, b, {"transcript", "sendBuf", "out", "nextOut"})
        /\ f.pc # "failed" /\ f.out = b.nextOut /\ IsSeq(f.sendBuf)
        /\ f.transcript = Append(WithTicket(b, h), Fin)
        /\ f.sendBuf = b.sendBuf \o End1(b, h)
    BY <1>2, <1>3, <1>4, <1>5, EndSent
  <1> HIDE DEF f
  <1>7. WithTicket(b, h) = WithTicket(q, h) /\ End1(b, h) = End1(q, h)
    BY <1>3, SameEnds
  <1>8. f.sendBuf = End1(q, h) /\ f.transcript = Append(WithTicket(q, h), Fin)
    <2>1. IsSeq(End1(q, h))
      BY FlightSeqs
    <2>2. <<>> \o End1(q, h) = End1(q, h)
      BY <2>1, SeqAny
    <2> QED
      BY <1>3, <1>6, <1>7, <2>2
  <1>9. Keeps(e, f, {"buffering"}) /\ ~e.buffering
    BY <1>6 DEF Keeps, ConnFields, Flushed
  <1> HIDE DEF e
  <1>10. Keeps(r, e, {"pc"}) /\ r.pc = "done"
    BY <1>9 DEF Keeps, ConnFields
  <1> HIDE DEF r
  <1>11. DOMAIN r = ConnFields /\ ~r.buffering /\ r.sendBuf = f.sendBuf
    BY <1>9, <1>10 DEF Keeps, ConnFields
  <1>12. /\ Keeps(y, r, {"sendBuf"}) /\ y.sendBuf = <<>>
         /\ Passed(r) = f.sendBuf
    BY <1>11, AfterFields
  <1> HIDE DEF y
  <1>13. Keeps(y, q, {"transcript", "buffering", "sendBuf", "out", "nextOut",
                      "pc"})
    BY <1>2, <1>6, <1>9, <1>10, <1>12 DEF Keeps
  <1>14. /\ y.pc = "done" /\ y.transcript = f.transcript /\ y.out = f.out
    BY <1>9, <1>10, <1>12 DEF Keeps, ConnFields
  <1>15. /\ y.hello = q.hello /\ y.serverHello = q.serverHello
         /\ y.vers = q.vers /\ y.suite = q.suite /\ y.curve = q.curve
         /\ y.proto = q.proto /\ y.err = q.err /\ y.sessionState = q.sessionState
         /\ y.resumed = q.resumed /\ y.secret = q.secret
         /\ y.peerCerts = q.peerCerts /\ y.in = q.in
    BY <1>13 DEF Keeps, ConnFields
  <1>16. /\ HashF(y) = h /\ Master(y) = Master(q)
         /\ KeyOf(y, y.secret, "client") = KeyOf(q, q.secret, "client")
         /\ KeyOf(y, y.secret, "server") = KeyOf(q, q.secret, "server")
    BY <1>15, SameFlights DEF h
  <1>17. /\ WithTicket(y, h) = WithTicket(q, h) /\ End1(y, h) = End1(q, h)
         /\ End2(y, h) = End2(q, h)
    BY <1>15, SameEnds
  <1>18. ChoseFull(p, y) /\ Offers(p) /\ Follows(p, y) /\ Verified(p)
         /\ p.resumed = FALSE
    BY <1>15 DEF Hearing, ChoseFull, Chosen, Announced, ClientAwaitsEnd, Follows
  <1>19. /\ p.secret = Master(q) /\ p.in = None
         /\ p.nextIn = KeyOf(q, Master(q), "server")
         /\ p.out = KeyOf(q, Master(q), "client") /\ p.transcript = h
         /\ p.pc = IF q.serverHello.ticketSupported THEN "ticket" ELSE "ccs"
    BY DEF Hearing, ClientAwaitsEnd, h
  <1>20. y.out = KeyOf(q, q.secret, "server")
    BY <1>q, <1>3, <1>6, <1>14
  <1>21. ClientEnds(p, y, Passed(r), HashF(y))
    <2>1. CASE q.serverHello.ticketSupported
      BY <1>q, <1>8, <1>12, <1>15, <1>16, <1>17, <1>19, <1>20, <2>1 DEF ClientEnds
    <2>2. CASE ~q.serverHello.ticketSupported
      <3>1. End1(q, h) = End2(q, h) /\ WithTicket(q, h) = h
        BY <2>2 DEF End1, WithTicket
      <3> QED
        BY <1>q, <1>8, <1>12, <1>15, <1>16, <1>17, <1>19, <1>20, <2>2, <3>1
           DEF ClientEnds
    <2> QED
      BY <2>1, <2>2
  <1>22. ServerEnded(p, y, <<>>, Passed(r))
    <2>1. /\ y.pc = "done" /\ Accepted(y) /\ y.secret = Master(y)
          /\ p.secret = y.secret
      BY <1>q, <1>14, <1>15, <1>16, <1>19 DEF Accepted
    <2>2. y.transcript = Append(WithTicket(y, HashF(y)), Fin)
      BY <1>8, <1>14, <1>16, <1>17
    <2>3. /\ y.in = KeyOf(y, y.secret, "client")
          /\ y.out = KeyOf(y, y.secret, "server") /\ p.out = y.in
      BY <1>q, <1>15, <1>16, <1>19, <1>20
    <2> QED
      BY <1>18, <1>21, <2>1, <2>2, <2>3 DEF ServerEnded
  <1>23. IsSeq(r.sendBuf)
    BY <1>6, <1>11
  <1> QED
    BY <1>6, <1>11, <1>13, <1>22, <1>23 DEF f, e, r, y, b

\* A full handshake is behind every ticket of the server that is done with
\* one.
LEMMA AgreedOn ==
    ASSUME NEW q, Offers(c), Chosen(c, s), clock \in Nat, clock' = clock,
           conf' = conf, keys' = keys, s.secret \in Secrets,
           made' = made \cup {[secret |-> s.secret, name |-> conf.name,
                               vers |-> s.vers, suite |-> s.suite,
                               at |-> clock, certs |-> s.peerCerts]},
           q.vers = s.vers, q.suite = s.suite, q.secret = s.secret,
           q.peerCerts = s.peerCerts, q.sessionState = s.sessionState
    PROVE  TicketOK(TicketFor(q), conf.name)'
  <1> DEFINE x == TicketFor(q)
             e == [secret |-> s.secret, name |-> conf.name,
                   vers |-> s.vers, suite |-> s.suite,
                   at |-> clock, certs |-> s.peerCerts]
  <1>1. /\ x.secret = s.secret /\ x.vers = s.vers /\ x.suite = s.suite
        /\ x.certs = s.peerCerts
        /\ x.createdAt = IF s.sessionState = None THEN clock
                         ELSE s.sessionState.createdAt
    BY DEF TicketFor
  <1>2. TicketFor(q)' = x
    BY DEF TicketFor
  <1> HIDE DEF x
  <1>3. x.createdAt \in Nat /\ x.createdAt <= clock
    <2>1. CASE s.sessionState = None
      BY <1>1, <2>1
    <2>2. CASE s.sessionState # None
      <3>1. TicketOK(s.sessionState, conf.name)
        BY <2>2 DEF Chosen, Offers, SessionOK
      <3> QED
        BY <1>1, <2>2, <3>1 DEF TicketOK
    <2> QED
      BY <2>1, <2>2
  <1>4. /\ e.secret = x.secret /\ e.name = conf.name /\ e.vers = x.vers
        /\ e.suite = x.suite /\ e.certs = x.certs /\ e.at = clock
    BY <1>1
  <1> HIDE DEF e
  <1>5. e \in made'
    BY DEF e
  <1>6. \E m \in made' :
          /\ m.secret = x.secret /\ m.name = conf'.name
          /\ m.vers = x.vers /\ m.suite = x.suite /\ m.certs = x.certs
          /\ m.at \in Nat /\ x.createdAt <= m.at /\ m.at <= clock'
    BY <1>3, <1>4, <1>5
  <1> QED
    BY <1>1, <1>2, <1>3, <1>6 DEF TicketOK

LEMMA ClientFinishedStep ==
    ASSUME ConnInv, ReadClientFinished
    PROVE  ConnInv'
  <1> DEFINE g == Receive(s, Head(toServer), {"finished"})
             m == Head(toServer).msg
             x == Hashed(s, m)
             b == [x EXCEPT !.buffering = TRUE]
             f == sendFinished(sendSessionTicket(b), "server finished")
             w == [Flushed(f) EXCEPT !.pc = "done"]
             r == IF x.resumed THEN [x EXCEPT !.pc = "done"]
                  ELSE IF f.pc = "failed" THEN f ELSE w
  <1>0. /\ s.pc = "finished" /\ toServer # <<>> /\ toServer' = Tail(toServer)
        /\ made' = IF s'.pc = "done" /\ ~s'.resumed
                   THEN made \cup {[secret |-> s.secret, name |-> conf.name,
                                    vers |-> s.vers, suite |-> s.suite,
                                    at |-> clock, certs |-> s.peerCerts]}
                   ELSE made
    BY DEF ReadClientFinished, ServerReads
  <1>f. /\ DOMAIN s = ConnFields /\ WorldOK /\ CacheOK(cache) /\ ConfOK
        /\ n \in Nat /\ clock \in Nat /\ DOMAIN c = ConnFields
    BY InvFacts
  <1>1. ASSUME NEW h,
               Head(toServer) = Rec(s.in, FinMsg("client finished", s.secret, h)),
               s.transcript = h
        PROVE  /\ ServerBecomes(r) /\ Keeps(x, s, {"transcript"})
               /\ x.transcript = Append(h, Fin)
    <2>1. Opened(s, Head(toServer), FALSE) = s
          /\ m = FinMsg("client finished", s.secret, h)
      BY <1>0, <1>1, ReadsMessage
    <2> HIDE DEF m
    <2>2. /\ m.type = "finished" /\ m.verifyData = Sum(s, "client finished")
          /\ Digest(m) = Fin
      BY <1>1, <2>1 DEF FinMsg, Sum, Digest, Fin
    <2>3. g = s
      BY <2>1, <2>2 DEF Receive, Then, m
    <2>4. ServerBecomes(r)
      BY <1>0, <2>2, <2>3 DEF ReadClientFinished, ServerReads, Then, m
    <2> QED
      BY <1>1, <1>f, <2>2, <2>4, HashedFields
  <1>2. CASE Hearing(c, s) /\ toClient = <<>> /\ AtFinished(s, toServer)
    <2> DEFINE y == After(w)
    <2>0. /\ s.secret = Master(s) /\ s.in = KeyOf(s, Master(s), "client")
          /\ s.transcript = Hash9(s) /\ s.resumed = FALSE /\ ChoseFull(c, s)
      BY <1>2 DEF AtFinished, Hearing, ChoseFull
    <2>1. /\ Head(toServer) = Rec(s.in, FinMsg("client finished", s.secret,
                                               Hash9(s)))
          /\ Tail(toServer) = <<>>
      BY <1>2, <2>0, SentHeads DEF AtFinished
    <2>2. /\ ServerBecomes(r) /\ Keeps(x, s, {"transcript"})
          /\ x.transcript = HashF(s)
      BY <1>1, <2>0, <2>1 DEF HashF
    <2> HIDE DEF x
    <2>3. x.resumed = FALSE
      BY <2>0, <2>2 DEF Keeps, ConnFields
    <2>4. /\ f.pc # "failed" /\ DOMAIN w = ConnFields /\ IsSeq(w.sendBuf)
          /\ ServerEnded(c, After(w), <<>>, Passed(w))
          /\ Keeps(After(w), s, {"transcript", "buffering", "sendBuf", "out",
                                 "nextOut", "pc"})
      BY <1>2, <1>f, <2>2, ServerIsDone
    <2>5. r = w
      BY <2>3, <2>4
    <2> HIDE DEF w, r
    <2>6. /\ s' = y /\ toClient' = Passed(w) /\ c' = c /\ cache' = cache
          /\ UNCHANGED <<conf, n, clock, keys>>
      BY <1>2, <2>2, <2>4, <2>5, PassedSeq DEF ServerBecomes, After, world
    <2> HIDE DEF y
    <2>7. /\ s'.pc = "done" /\ s'.resumed = FALSE
          /\ ServerEnded(c', s', toServer', toClient')
      BY <1>0, <2>1, <2>4, <2>6 DEF ServerEnded, ChoseFull, y
    <2>8. made' = made \cup {[secret |-> s.secret, name |-> conf.name,
                              vers |-> s.vers, suite |-> s.suite,
                              at |-> clock, certs |-> s.peerCerts]}
      BY <1>0, <2>7
    <2>9. StillWorld
      BY <1>f, <2>6, <2>8 DEF StillWorld
    <2>10. ServerEnded(c, s, toServer, toClient)'
      <3>1. ASSUME NEW p, NEW q, NEW ts, NEW tc, ServerEnded(p, q, ts, tc)
            PROVE  ServerEnded(p, q, ts, tc)'
        BY <2>9, <3>1, StillFull
      <3> QED
        BY <2>7, <3>1
    <2>11. /\ s'.vers = s.vers /\ s'.suite = s.suite /\ s'.secret = s.secret
           /\ s'.peerCerts = s.peerCerts /\ s'.sessionState = s.sessionState
      BY <2>4, <2>6 DEF Keeps, ConnFields, y
    <2>12. TicketOK(TicketFor(s), conf.name)'
      <3>1. /\ Offers(c) /\ Chosen(c, s) /\ s.secret \in Secrets
        BY <1>2, <1>f, <2>0, MasterTyped DEF Hearing, ChoseFull
      <3>2. ASSUME NEW q, q.vers = s.vers, q.suite = s.suite,
                   q.secret = s.secret, q.peerCerts = s.peerCerts,
                   q.sessionState = s.sessionState
            PROVE  TicketOK(TicketFor(q), conf.name)'
        BY <1>f, <2>6, <2>8, <3>1, <3>2, AgreedOn
      <3> QED
        BY <2>11, <3>2
    <2>13. Stage(c, s, toServer, toClient)'
      BY <2>10, <2>12 DEF Stage, ServerDone
    <2>14. CacheOK(cache)'
      BY <1>f, <2>6, <2>9, CacheStays DEF StillWorld
    <2>15. WorldOK'
      BY <1>f, <2>4, <2>6 DEF WorldOK, Keeps, y
    <2> QED
      BY <2>13, <2>14, <2>15 DEF ConnInv
  <1>3. CASE Resumed(c, s, toServer, toClient)
    <2> DEFINE d == [x EXCEPT !.pc = "done"]
               h == Append(WithTicket(s, Hash1(s)), Fin)
    <2>0. /\ toServer = Back2(s) /\ toClient = <<>> /\ Quiet(s) /\ ~s.buffering
          /\ s.in = c.out /\ s.out = c.in /\ s.transcript = h
          /\ c.out = KeyOf(s, s.secret, "client") /\ s.resumed = TRUE
          /\ c.transcript = Append(h, Fin)
      BY <1>0, <1>3 DEF Resumed, ServerAwaitsCCS, ChoseResume
    <2>1. /\ Head(toServer) = Rec(s.in, FinMsg("client finished", s.secret, h))
          /\ Tail(toServer) = <<>>
      BY <2>0, BackSeqs
    <2> HIDE DEF h
    <2>2. /\ ServerBecomes(r) /\ Keeps(x, s, {"transcript"})
          /\ x.transcript = Append(h, Fin)
      BY <1>1, <2>0, <2>1
    <2> HIDE DEF x
    <2>3. x.resumed = TRUE
      BY <2>0, <2>2 DEF Keeps, ConnFields
    <2>4. r = d
      BY <2>3
    <2>5. Keeps(d, x, {"pc"}) /\ d.pc = "done"
      BY <2>2 DEF Keeps, ConnFields
    <2> HIDE DEF r, d
    <2>6. /\ d.transcript = c.transcript /\ d.in = c.out
          /\ DOMAIN d = ConnFields /\ d.resumed = TRUE
      BY <2>0, <2>2, <2>3, <2>5 DEF Keeps, ConnFields
    <2>7. Keeps(d, s, {"pc", "in", "nextIn", "transcript"})
      BY <2>2, <2>5 DEF Keeps
    <2>8. ServerTo(c, d, toServer')
      BY <1>3, <2>0, <2>5, <2>6, <2>7, ResumedOn
    <2>9. s'.resumed = TRUE
      <3>1. s' = After(d) /\ Keeps(After(d), d, {"sendBuf"})
        BY <2>2, <2>4, <2>6, AfterFields DEF ServerBecomes, After
      <3> HIDE DEF d
      <3> QED
        BY <2>6, <3>1 DEF Keeps, ConnFields
    <2>10. made' = made
      BY <1>0, <2>9
    <2>11. StepOK
      BY <1>f, <2>0, <2>2, <2>4, <2>8, <2>10, ServerMoves
    <2> QED
      BY <1>f, <2>11, StepKeeps
  <1> QED
    BY <1>0, <1>2, <1>3, HearingPlaces

-----------------------------------------------------------------------------
(* The server reads the client's hello.                                    *)

\* The server x has read the hello of p and agrees to a version.
Agreed(p, x) ==
    /\ DOMAIN x = ConnFields /\ x.pc = "clientHello"
    /\ x.hello = p.hello /\ x.vers = bestVersion /\ x.vers # None
    /\ x.proto = bestProto /\ NoKeys(x) /\ Quiet(x) /\ x.peerCerts = "none"
    /\ x.resumed = FALSE
    /\ x.sessionState # None =>
          p.offered # None /\ x.sessionState = p.offered.ticket

\* The server h has said its hello m.
SaidHello(h, x, id, suite, ticket, ocsp) ==
    /\ Keeps(h, x, {"suite", "serverHello", "transcript", "sendBuf"})
    /\ h.suite = suite /\ h.transcript = Append(<<x.hello>>, h.serverHello)
    /\ h.sendBuf = Append(x.sendBuf, Rec(x.out, h.serverHello))
    /\ h.serverHello.type = "serverHello" /\ h.serverHello.vers = x.vers
    /\ h.serverHello.suite = suite /\ h.serverHello.proto = x.proto
    /\ h.serverHello.sessionId = id
    /\ h.serverHello.canary = Canary(x.vers, Head(serverVersions))
    /\ h.serverHello.ticketSupported = ticket
    /\ h.serverHello.ocspStapling = ocsp

LEMMA SayHelloFields ==
    ASSUME NEW x, NEW id, NEW suite, NEW ticket, NEW ocsp, DOMAIN x = ConnFields
    PROVE  SaidHello(SayHello(x, id, suite, ticket, ocsp), x, id, suite, ticket,
                     ocsp)
  <1> DEFINE k == Canary(x.vers, Head(serverVersions))
             m == [type |-> "serverHello", vers |-> x.vers, suite |-> suite,
                   proto |-> x.proto, sessionId |-> id, canary |-> k,
                   ticketSupported |-> ticket, ocspStapling |-> ocsp]
             t == <<x.hello>>
             y == [x EXCEPT !.suite = suite, !.serverHello = m, !.transcript = t]
             h == Say(y, m)
  <1>1. h = SayHello(x, id, suite, ticket, ocsp)
    BY DEF SayHello
  <1> HIDE DEF k
  <1>2. /\ m.type = "serverHello" /\ m.vers = x.vers
        /\ m.suite = suite /\ m.proto = x.proto
        /\ m.sessionId = id /\ m.canary = k
        /\ m.ticketSupported = ticket /\ m.ocspStapling = ocsp
    OBVIOUS
  <1> HIDE DEF m, t
  <1>3. Digest(m) = m
    BY <1>2 DEF Digest
  <1>4. /\ Keeps(y, x, {"suite", "serverHello", "transcript"})
        /\ y.suite = suite /\ y.serverHello = m /\ y.transcript = t
    BY DEF Keeps, ConnFields
  <1> HIDE DEF y
  <1>5. /\ Keeps(h, y, {"transcript", "sendBuf"})
        /\ h.transcript = Append(y.transcript, Digest(m))
        /\ h.sendBuf = Append(y.sendBuf, Rec(y.out, m))
    BY <1>4, SayFields DEF Keeps
  <1> HIDE DEF h
  <1>6. /\ h.suite = suite /\ h.serverHello = m /\ y.sendBuf = x.sendBuf
        /\ y.out = x.out
    BY <1>4, <1>5 DEF Keeps, ConnFields
  <1>7. Keeps(h, x, {"suite", "serverHello", "transcript", "sendBuf"})
    BY <1>4, <1>5 DEF Keeps
  <1>8. /\ h.transcript = Append(t, h.serverHello)
        /\ h.sendBuf = Append(x.sendBuf, Rec(x.out, h.serverHello))
    BY <1>3, <1>4, <1>5, <1>6
  <1>9. SaidHello(h, x, id, suite, ticket, ocsp)
    BY <1>2, <1>6, <1>7, <1>8 DEF SaidHello, k, t
  <1> QED
    BY <1>1, <1>9

\* What the hello offers.
LEMMA HelloOffers ==
    ASSUME NEW p, Offers(p)
    PROVE  /\ p.hello.type = "clientHello"
           /\ p.hello.versions = clientVersions /\ p.hello.suites = offeredSuites
           /\ p.hello.curves = conf.clientCurves
           /\ p.hello.protos = conf.clientProtos /\ p.hello.sessionId = n
           /\ p.hello.ticket = IF p.offered = None THEN None ELSE p.offered.ticket
  BY DEF Offers, makeClientHello

\* The server's flight depends on what it has settled, nothing else.
LEMMA SameRest ==
    ASSUME NEW q, NEW r, r.serverHello = q.serverHello,
           r.suite = q.suite, r.curve = q.curve
    PROVE  Rest0(r) = Rest0(q)
  <1>1. Rest3(r) = Rest3(q)
    BY DEF Rest3, SKEMsg
  <1>2. Rest2(r) = Rest2(q)
    BY <1>1 DEF Rest2
  <1>3. Rest1(r) = Rest1(q)
    BY <1>2 DEF Rest1
  <1> QED
    BY <1>3 DEF Rest0

\* The messages after the hello.
LEMMA FlightSaid ==
    ASSUME NEW q, DOMAIN q = ConnFields, q.out = None,
           q.sendBuf = <<Rec(None, q.serverHello)>>, q.transcript = Hash1(q)
    PROVE  LET withCert == Say(q, CertMsg)
               withStatus == SayIf(conf.staple, withCert, StatusMsg)
               withKey == SayIf(ECDHE(q.suite), withStatus, SKEMsg(q))
               withRequest == SayIf(conf.auth # 0, withKey, RequestMsg)
               flight == Say(withRequest, DoneMsg)
           IN /\ Keeps(flight, q, {"transcript", "sendBuf"})
              /\ flight.transcript = Hash6(q)
              /\ flight.sendBuf = Rest0(q) /\ IsSeq(flight.sendBuf)
  <1> DEFINE x1 == SayIf(TRUE, q, CertMsg)
             x2 == SayIf(conf.staple, x1, StatusMsg)
             x3 == SayIf(ECDHE(q.suite), x2, SKEMsg(q))
             x4 == SayIf(conf.auth # 0, x3, RequestMsg)
             x5 == SayIf(TRUE, x4, DoneMsg)
             F == {"transcript", "sendBuf"}
  <1>0. /\ IsSeq(Rest5) /\ IsSeq(Rest4) /\ IsSeq(Rest3(q)) /\ IsSeq(Rest2(q))
        /\ IsSeq(Rest1(q)) /\ IsSeq(<<>>) /\ IsSeq(q.sendBuf)
    BY FlightSeqs, SeqAny
  <1>d. /\ Digest(CertMsg) = CertMsg /\ Digest(StatusMsg) = StatusMsg
        /\ Digest(SKEMsg(q)) = SKEMsg(q) /\ Digest(RequestMsg) = RequestMsg
        /\ Digest(DoneMsg) = DoneMsg
    BY DEF Digest, CertMsg, StatusMsg, SKEMsg, RequestMsg, DoneMsg
  <1>e. x5 = Say(SayIf(conf.auth # 0, SayIf(ECDHE(q.suite), SayIf(conf.staple,
               Say(q, CertMsg), StatusMsg), SKEMsg(q)), RequestMsg), DoneMsg)
    BY DEF SayIf
  <1>1. /\ Keeps(x1, q, F) /\ x1.transcript = Hash2(q) /\ IsSeq(x1.sendBuf)
        /\ x1.sendBuf \o Rest2(q) = Rest0(q)
    <2>1. Says(TRUE, x1, q, CertMsg, Rest2(q))
      BY <1>0, SayIfFields
    <2>2. q.sendBuf \o Rest1(q) = Rest0(q)
      BY DEF Rest0, Before
    <2> QED
      BY <1>d, <2>1, <2>2 DEF Says, Hash2, Rest1
  <1> HIDE DEF x1
  <1>1a. DOMAIN x1 = ConnFields /\ x1.out = None
    BY <1>1 DEF Keeps, ConnFields
  <1>2. /\ Keeps(x2, x1, F) /\ x2.transcript = Hash3(q) /\ IsSeq(x2.sendBuf)
        /\ x2.sendBuf \o Rest3(q) = Rest0(q)
    <2>1. Says(conf.staple, x2, x1, StatusMsg, Rest3(q))
      BY <1>0, <1>1, <1>1a, SayIfFields
    <2> HIDE DEF x2
    <2>2. CASE conf.staple
      BY <1>d, <1>1, <2>1, <2>2 DEF Says, Hash3, Rest2
    <2>3. CASE ~conf.staple
      BY <1>d, <1>1, <2>1, <2>3 DEF Says, Hash3, Rest2
    <2> QED
      BY <2>2, <2>3
  <1> HIDE DEF x2
  <1>2a. DOMAIN x2 = ConnFields /\ x2.out = None
    BY <1>1a, <1>2 DEF Keeps, ConnFields
  <1>3. /\ Keeps(x3, x2, F) /\ x3.transcript = Hash4(q) /\ IsSeq(x3.sendBuf)
        /\ x3.sendBuf \o Rest4 = Rest0(q)
    <2>1. Says(ECDHE(q.suite), x3, x2, SKEMsg(q), Rest4)
      BY <1>0, <1>2, <1>2a, SayIfFields
    <2> HIDE DEF x3
    <2>2. CASE ECDHE(q.suite)
      BY <1>d, <1>2, <2>1, <2>2 DEF Says, Hash4, Rest3
    <2>3. CASE ~ECDHE(q.suite)
      BY <1>d, <1>2, <2>1, <2>3 DEF Says, Hash4, Rest3
    <2> QED
      BY <2>2, <2>3
  <1> HIDE DEF x3
  <1>3a. DOMAIN x3 = ConnFields /\ x3.out = None
    BY <1>2a, <1>3 DEF Keeps, ConnFields
  <1>4. /\ Keeps(x4, x3, F) /\ x4.transcript = Hash5(q) /\ IsSeq(x4.sendBuf)
        /\ x4.sendBuf \o Rest5 = Rest0(q)
    <2>1. Says(conf.auth # 0, x4, x3, RequestMsg, Rest5)
      BY <1>0, <1>3, <1>3a, SayIfFields
    <2> QED
      BY <1>d, <1>3, <2>1 DEF Says, Hash5, Rest4
  <1> HIDE DEF x4
  <1>4a. DOMAIN x4 = ConnFields /\ x4.out = None
    BY <1>3a, <1>4 DEF Keeps, ConnFields
  <1>5. /\ Keeps(x5, x4, F) /\ x5.transcript = Hash6(q) /\ IsSeq(x5.sendBuf)
        /\ x5.sendBuf = Rest0(q)
    <2>1. Says(TRUE, x5, x4, DoneMsg, <<>>)
      BY <1>0, <1>4, <1>4a, SayIfFields
    <2>2. Before(Rec(None, DoneMsg), <<>>) = Rest5
      <3> DEFINE k == Rec(None, DoneMsg)
      <3> HIDE DEF k
      <3>1. IsSeq(<<k>>)
        BY SeqAny
      <3>2. Before(k, <<>>) = <<k>>
        BY <3>1, SeqAny DEF Before
      <3> QED
        BY <3>2 DEF k, Rest5
    <2>3. IsSeq(x5.sendBuf) /\ x5.sendBuf \o <<>> = x4.sendBuf \o Rest5
      BY <2>1, <2>2 DEF Says
    <2>4. x5.sendBuf = Rest0(q)
      BY <1>4, <2>3, SeqAny
    <2> QED
      BY <1>d, <1>4, <2>1, <2>3, <2>4 DEF Says, Hash6
  <1> HIDE DEF x5
  <1>6. Keeps(x5, q, F)
    BY <1>1, <1>2, <1>3, <1>4, <1>5 DEF Keeps
  <1> QED
    BY <1>e, <1>5, <1>6

\* The server says all it has to say before it reads again.
LEMMA FullStarts ==
    ASSUME ConfOK, n \in Nat, NEW p, NEW x, Offers(p), Fresh(p), Agreed(p, x),
           conf.key # "none"
    PROVE  ServerTo(p, doFullHandshake(x), <<>>)
  <1> DEFINE suite == selectCipherSuite(
                 conf.serverSuites, conf.serverAES, x.hello.suites, conf.key,
                 supportsECDHE(x.hello.curves, conf.serverCurves), x.vers)
             curve == IF ECDHE(suite)
                      THEN MutualCurve(x.hello.curves, conf.serverCurves)
                      ELSE None
             keeps == KeepsBuffer(conf.auth)
             ticket == x.hello.ticketSupported /\ conf.tickets
             b == [x EXCEPT !.buffer = keeps, !.curve = curve]
             q == SayHello(b, None, suite, ticket, conf.staple)
             f == Say(SayIf(conf.auth # 0, SayIf(ECDHE(suite), SayIf(conf.staple,
                      Say(q, CertMsg), StatusMsg),
                      [type |-> "serverKeyExchange", curve |-> curve,
                       signed |-> [key |-> conf.key, n |-> n, curve |-> curve]]),
                      RequestMsg), DoneMsg)
             pc == IF conf.auth # 0 THEN "certificate" ELSE "keyExchange"
             e == Flushed(f)
             r == [e EXCEPT !.pc = pc]
             y == After(r)
  <1>x. /\ DOMAIN x = ConnFields /\ x.hello = p.hello /\ x.vers = bestVersion
        /\ x.vers # None /\ x.proto = bestProto /\ NoKeys(x) /\ Quiet(x)
        /\ x.peerCerts = "none" /\ x.resumed = FALSE /\ x.sendBuf = <<>>
        /\ x.out = None
    BY DEF Agreed, NoKeys, Quiet
  <1>h. /\ x.hello.suites = offeredSuites /\ x.hello.curves = conf.clientCurves
    BY <1>x, HelloOffers
  <1>s. suite = Chooses(bestVersion)
    BY <1>x, <1>h DEF Chooses, curvesMeet
  <1>c. curve = IF ECDHE(suite) THEN MutualCurve(conf.clientCurves,
                                                 conf.serverCurves) ELSE None
    BY <1>h
  <1>k. keeps <=> conf.auth # 0
    BY DEF KeepsBuffer
  <1>d. doFullHandshake(x) = IF suite = None THEN Alert(x, "handshake_failure")
                             ELSE r
    BY DEF doFullHandshake, CertMsg, StatusMsg, RequestMsg, DoneMsg
  <1>1. CASE suite = None
    <2>1. Chooses(bestVersion) = None /\ bestVersion # None
      BY <1>1, <1>s, <1>x
    <2>2. \A y2 : (y2.err = "handshake_failure"
                     /\ y2.sessionState = x.sessionState) => ServerCause(y2, p)
      BY <2>1, NoSuiteCause DEF ServerCause
    <2>3. p.pc \in {"serverHello", "ticket", "ccs"} /\ p.in = None /\ Quiet(p)
      BY DEF Fresh, NoKeys
    <2>4. ServerTo(p, Alert(x, "handshake_failure"), <<>>)
      BY <1>x, <2>2, <2>3, ServerAlerts
    <2> QED
      BY <1>1, <1>d, <2>4
  <1>2. CASE suite # None
    <2>1. /\ suite \in Range(offeredSuites)
          /\ cipherSuiteOk(suite, conf.key, curvesMeet, bestVersion)
      BY <1>2, <1>s, SuiteChosen
    <2>2. doFullHandshake(x) = r
      BY <1>2, <1>d
    <2> HIDE DEF suite, curve, keeps, ticket, pc
    <2>3. /\ Keeps(b, x, {"buffer", "curve"}) /\ b.buffer = keeps
          /\ b.curve = curve
      BY <1>x DEF Keeps, ConnFields
    <2> HIDE DEF b
    <2>4. SaidHello(q, b, None, suite, ticket, conf.staple)
      BY <2>3, SayHelloFields DEF Keeps
    <2> HIDE DEF q
    <2>5. /\ b.vers = bestVersion /\ b.proto = bestProto /\ b.hello = p.hello
          /\ b.sendBuf = <<>> /\ b.out = None
      BY <1>x, <2>3 DEF Keeps, ConnFields
    <2>6. /\ Keeps(q, b, {"suite", "serverHello", "transcript", "sendBuf"})
          /\ q.suite = suite /\ q.transcript = Append(<<p.hello>>, q.serverHello)
          /\ q.sendBuf = Append(<<>>, Rec(None, q.serverHello))
          /\ q.serverHello.type = "serverHello"
          /\ q.serverHello.vers = bestVersion
          /\ q.serverHello.suite = suite /\ q.serverHello.proto = bestProto
          /\ q.serverHello.sessionId = None
          /\ q.serverHello.canary = Canary(bestVersion, Head(serverVersions))
          /\ q.serverHello.ocspStapling = conf.staple
      BY <2>4, <2>5 DEF SaidHello
    <2>7. Keeps(q, x, {"buffer", "curve", "suite", "serverHello", "transcript",
                       "sendBuf"})
      BY <2>3, <2>6 DEF Keeps
    <2>8. /\ q.hello = p.hello /\ q.out = None /\ q.curve = curve
          /\ DOMAIN q = ConnFields /\ q.buffer = keeps
      BY <1>x, <2>3, <2>6 DEF Keeps, ConnFields
    <2>9. q.transcript = Hash1(q) /\ q.sendBuf = <<Rec(None, q.serverHello)>>
      BY <2>6, <2>8 DEF Hash1
    <2>10. f = Say(SayIf(conf.auth # 0, SayIf(ECDHE(q.suite), SayIf(conf.staple,
                      Say(q, CertMsg), StatusMsg), SKEMsg(q)),
                      RequestMsg), DoneMsg)
      BY <2>6, <2>8 DEF SKEMsg
    <2> HIDE DEF f
    <2>11. /\ Keeps(f, q, {"transcript", "sendBuf"})
           /\ f.transcript = Hash6(q)
           /\ f.sendBuf = Rest0(q) /\ IsSeq(f.sendBuf)
      BY <2>8, <2>9, <2>10, FlightSaid
    <2>12. Keeps(e, f, {"buffering"}) /\ ~e.buffering
      BY <2>11 DEF Keeps, ConnFields, Flushed
    <2> HIDE DEF e
    <2>13. Keeps(r, e, {"pc"}) /\ r.pc = pc
      BY <2>12 DEF Keeps, ConnFields
    <2> HIDE DEF r
    <2>14. DOMAIN r = ConnFields /\ ~r.buffering /\ r.sendBuf = Rest0(q)
      BY <2>11, <2>12, <2>13 DEF Keeps, ConnFields
    <2>15. Keeps(y, r, {"sendBuf"}) /\ y.sendBuf = <<>> /\ Passed(r) = Rest0(q)
      BY <2>14, AfterFields
    <2> HIDE DEF y
    <2>16. Keeps(y, q, {"transcript", "buffering", "sendBuf", "pc"})
      BY <2>11, <2>12, <2>13, <2>15 DEF Keeps
    <2>17. y.pc = pc /\ y.transcript = Hash6(q) /\ y.buffering = e.buffering
      BY <2>11, <2>12, <2>13, <2>15 DEF Keeps, ConnFields
    <2>18. /\ y.hello = p.hello /\ y.serverHello = q.serverHello
           /\ y.suite = suite /\ y.curve = curve /\ y.buffer = keeps
      BY <2>6, <2>8, <2>16 DEF Keeps, ConnFields
    <2>19. /\ y.vers = x.vers /\ y.proto = x.proto /\ y.err = x.err
           /\ y.sessionState = x.sessionState /\ y.resumed = x.resumed
           /\ y.peerCerts = x.peerCerts /\ y.in = x.in /\ y.out = x.out
           /\ y.nextIn = x.nextIn /\ y.nextOut = x.nextOut
      BY <2>7, <2>16 DEF Keeps, ConnFields
    <2>20. Hash6(y) = Hash6(q) /\ Rest0(y) = Rest0(q)
      <3>1. q.vers = y.vers
        BY <2>16 DEF Keeps, ConnFields
      <3> QED
        BY <2>6, <2>8, <2>18, <3>1, SameFlights, SameRest
    <2>21. Announced(y, None)
      BY <1>x, <2>1, <2>6, <2>18, <2>19 DEF Announced
    <2>22. Chosen(p, y)
      BY <1>x, <2>18, <2>19 DEF Chosen, Agreed, Quiet
    <2>23. ChoseFull(p, y)
      BY <1>x, <1>c, <2>1, <2>6, <2>18, <2>19, <2>21, <2>22 DEF ChoseFull
    <2>24. ServerAwaitsFlight(y)
      <3>1. NoKeys(y) /\ Quiet(y)
        BY <1>x, <2>15, <2>19 DEF NoKeys, Quiet
      <3>2. y.buffer <=> conf.auth # 0
        BY <1>k, <2>18
      <3> QED
        BY <1>x, <2>12, <2>17, <2>19, <2>20, <3>1, <3>2
           DEF ServerAwaitsFlight, pc
    <2>25. ServerFlight(p, y, <<>>, Passed(r))
      BY <2>15, <2>20, <2>23, <2>24 DEF ServerFlight
    <2>26. Stage(p, y, <<>>, Passed(r)) /\ IsSeq(r.sendBuf)
      BY <2>11, <2>14, <2>25 DEF Stage
    <2> QED
      BY <2>2, <2>14, <2>26 DEF ServerTo, y
  <1> QED
    BY <1>1, <1>2

\* The server's hello to a client it lets resume.
Welcomed(p, x, h) ==
    /\ Keeps(h, x, {"resumed", "buffer", "suite", "serverHello", "transcript",
                    "sendBuf"})
    /\ h.resumed = TRUE /\ h.suite = x.sessionState.suite /\ Announced(h, n)
    /\ h.hello = p.hello /\ h.transcript = Hash1(h)
    /\ h.sendBuf = <<Rec(None, h.serverHello)>>

\* A refusal that follows it.
LEMMA ResumeAlerts ==
    ASSUME NEW p, NEW x, NEW h, NEW w, Offers(p), Fresh(p), Agreed(p, x),
           x.sessionState # None, x.vers = x.sessionState.vers,
           Welcomed(p, x, h), Keeps(w, h, {"peerCerts"}),
           conf.serverVetoes \/ Refused(x.sessionState.certs)
    PROVE  /\ ServerTo(p, Alert(w, "bad_certificate"), <<>>)
           /\ Alert(w, "bad_certificate").pc = "failed"
  <1> DEFINE a == "bad_certificate"
             r == Alert(w, a)
             y == After(r)
             k == Rec(None, h.serverHello)
  <1>1. /\ DOMAIN w = ConnFields /\ w.sendBuf = <<k>> /\ w.out = None
        /\ w.serverHello = h.serverHello /\ w.sessionState = x.sessionState
        /\ w.vers = x.vers /\ w.suite = h.suite
    <2>1. /\ DOMAIN w = ConnFields /\ w.sendBuf = h.sendBuf /\ w.out = h.out
          /\ w.serverHello = h.serverHello /\ w.sessionState = h.sessionState
          /\ w.vers = h.vers /\ w.suite = h.suite
      BY DEF Keeps, ConnFields
    <2>2. /\ h.out = x.out /\ h.sessionState = x.sessionState /\ h.vers = x.vers
      BY DEF Welcomed, Keeps, ConnFields
    <2> QED
      BY <2>1, <2>2 DEF Welcomed, Agreed, NoKeys
  <1> HIDE DEF k
  <1>2. IsSeq(w.sendBuf)
    BY <1>1, SeqAny
  <1>3. /\ Keeps(r, w, {"pc", "err", "buffering", "sendBuf"})
        /\ r.pc = "failed" /\ r.err = a /\ ~r.buffering
        /\ r.sendBuf = Append(<<k>>, AlertRec(a))
    <2>1. /\ Keeps(r, w, {"pc", "err", "buffering", "sendBuf"})
          /\ r.pc = "failed" /\ r.err = a /\ ~r.buffering
          /\ r.sendBuf = Append(w.sendBuf, [typ |-> "alert", key |-> w.out,
                                            msg |-> [type |-> a]])
      BY <1>1, <1>2, AlertFields
    <2>2. [typ |-> "alert", key |-> w.out, msg |-> [type |-> a]] = AlertRec(a)
      BY <1>1 DEF AlertRec
    <2> QED
      BY <1>1, <2>1, <2>2
  <1>4. r.sendBuf = Before(k, <<AlertRec(a)>>) /\ IsSeq(r.sendBuf)
    <2> DEFINE z == AlertRec(a)
    <2> HIDE DEF z
    <2>1. IsSeq(<<k>>) /\ IsSeq(<<z>>)
      BY SeqAny
    <2>2. Append(<<k>>, z) = <<k>> \o <<z>> /\ IsSeq(Append(<<k>>, z))
      BY <2>1, SeqAny
    <2> QED
      BY <1>3, <2>2 DEF z, Before
  <1> HIDE DEF r
  <1>5. Keeps(y, r, {"sendBuf"}) /\ Passed(r) = r.sendBuf
    BY <1>3, AfterFields DEF Keeps
  <1> HIDE DEF y
  <1>6. /\ y.pc = "failed" /\ y.err = a /\ y.serverHello = h.serverHello
        /\ y.sessionState = x.sessionState /\ y.vers = x.vers
        /\ y.suite = h.suite
    BY <1>1, <1>3, <1>5 DEF Keeps, ConnFields
  <1>7. ServerCause(y, p)
    BY <1>6 DEF ServerCause
  <1>8. Announced(y, n)
    <2>1. h.vers = x.vers
      BY DEF Welcomed, Keeps, ConnFields
    <2> QED
      BY <1>6, <2>1 DEF Welcomed, Announced
  <1>9. /\ p.offered # None /\ y.vers = p.offered.vers
        /\ y.suite = p.offered.suite
    <2>1. p.offered # None /\ x.sessionState = p.offered.ticket
      BY DEF Agreed
    <2>2. /\ p.offered.vers = p.offered.ticket.vers
          /\ p.offered.suite = p.offered.ticket.suite
      BY <2>1 DEF Offers, SessionOK
    <2> QED
      BY <1>6, <2>1, <2>2 DEF Welcomed
  <1>10. ResumeRefused(p, y, <<>>, Passed(r))
    BY <1>4, <1>5, <1>6, <1>7, <1>8, <1>9 DEF ResumeRefused, Refuses, k
  <1>11. Stage(p, y, <<>>, Passed(r)) /\ DOMAIN r = ConnFields
    BY <1>3, <1>10 DEF Stage, Keeps
  <1> QED
    BY <1>3, <1>4, <1>11 DEF ServerTo, r, y

\* The server's flight of a resumption.
LEMMA ResumeStarts ==
    ASSUME ConfOK, n \in Nat, NEW p, NEW x, NEW h, NEW w, Offers(p), Fresh(p),
           Agreed(p, x), checkForResumption(x), Welcomed(p, x, h),
           Keeps(w, h, {"peerCerts"}), w.peerCerts = x.sessionState.certs,
           ~Refused(x.sessionState.certs), ~conf.serverVetoes
    PROVE  ServerTo(p, ResumeFlight(w), <<>>)
  <1> DEFINE st == x.sessionState
             b == [w EXCEPT !.secret = w.sessionState.secret]
             q == establishKeys(b, "server", "client")
             f == sendFinished(sendSessionTicket(q), "server finished")
             r == [f EXCEPT !.buffering = FALSE, !.pc = "ccs"]
             y == After(r)
             H == Hash1(h)
  <1>x. /\ st # None /\ clock - st.createdAt <= Lifetime /\ x.vers = st.vers
        /\ st.certs # "none" => conf.auth # 0
    BY DEF checkForResumption
  <1>o. p.offered # None /\ st = p.offered.ticket
    BY <1>x DEF Agreed
  <1>p. /\ SessionOK(p.offered, conf.name) /\ TicketOK(st, conf.name)
        /\ st.secret = p.offered.secret /\ st.vers = p.offered.vers
        /\ st.suite = p.offered.suite /\ st.secret \in Secrets
    BY <1>o DEF Offers, SessionOK, TicketOK
  <1> HIDE DEF st
  <1>w. /\ DOMAIN w = ConnFields /\ w.sendBuf = <<Rec(None, h.serverHello)>>
        /\ w.out = None /\ w.serverHello = h.serverHello /\ w.sessionState = st
        /\ w.vers = x.vers /\ w.suite = st.suite /\ w.hello = p.hello
        /\ w.transcript = H /\ w.pc = "clientHello" /\ w.proto = x.proto
        /\ w.err = None /\ w.resumed = TRUE /\ w.in = None
    <2>1. /\ DOMAIN w = ConnFields /\ w.sendBuf = h.sendBuf /\ w.out = h.out
          /\ w.serverHello = h.serverHello /\ w.sessionState = h.sessionState
          /\ w.vers = h.vers /\ w.suite = h.suite /\ w.hello = h.hello
          /\ w.transcript = h.transcript /\ w.pc = h.pc /\ w.proto = h.proto
          /\ w.err = h.err /\ w.resumed = h.resumed /\ w.in = h.in
      BY DEF Keeps, ConnFields
    <2>2. /\ h.out = x.out /\ h.sessionState = x.sessionState /\ h.vers = x.vers
          /\ h.pc = x.pc /\ h.proto = x.proto /\ h.err = x.err /\ h.in = x.in
      BY DEF Welcomed, Keeps, ConnFields
    <2> QED
      BY <2>1, <2>2 DEF Welcomed, Agreed, NoKeys, Quiet, st
  <1>1. Keeps(b, w, {"secret"}) /\ b.secret = st.secret
    BY <1>w DEF Keeps, ConnFields
  <1> HIDE DEF b
  <1>2. /\ Keeps(q, b, {"nextIn", "nextOut"})
        /\ q.nextOut = KeyOf(b, b.secret, "server")
        /\ q.nextIn = KeyOf(b, b.secret, "client")
    BY <1>1, EstablishFields DEF Keeps
  <1> HIDE DEF q
  <1>3. Keeps(q, w, {"secret", "nextIn", "nextOut"})
    BY <1>1, <1>2 DEF Keeps
  <1>4. q.secret = st.secret /\ b.vers = w.vers /\ b.suite = w.suite
    BY <1>1, <1>2 DEF Keeps, ConnFields
  <1>5. /\ DOMAIN q = ConnFields /\ q.sendBuf = <<Rec(None, h.serverHello)>>
        /\ q.out = None /\ q.serverHello = h.serverHello /\ q.sessionState = st
        /\ q.vers = x.vers /\ q.suite = st.suite /\ q.hello = p.hello
        /\ q.transcript = H /\ q.pc = "clientHello" /\ q.proto = x.proto
        /\ q.err = None /\ q.resumed = TRUE /\ q.in = None
        /\ q.peerCerts = w.peerCerts
    <2> HIDE DEF H
    <2> QED
      BY <1>w, <1>3 DEF Keeps, ConnFields
  <1>6. /\ q.nextOut = KeyOf(q, q.secret, "server")
        /\ q.nextIn = KeyOf(q, q.secret, "client")
    BY <1>1, <1>2, <1>4, <1>5, <1>w DEF KeyOf
  <1>7. Announced(q, n)
    <2>1. h.vers = x.vers /\ h.suite = st.suite
      BY DEF Welcomed, Keeps, ConnFields, st
    <2> QED
      BY <1>5, <2>1 DEF Welcomed, Announced
  <1>8. q.nextOut # None
    BY <1>6, <1>7, <1>4, <1>p, KeyTyped
  <1>9. IsSeq(q.sendBuf)
    BY <1>5, SeqAny
  <1>10. /\ Keeps(f, q, {"transcript", "sendBuf", "out", "nextOut"})
         /\ f.pc # "failed" /\ f.out = q.nextOut /\ IsSeq(f.sendBuf)
         /\ f.transcript = Append(WithTicket(q, H), Fin)
         /\ f.sendBuf = q.sendBuf \o End1(q, H)
    <2> HIDE DEF H
    <2> QED
      BY <1>5, <1>6, <1>8, <1>9, EndSent
  <1>11. ResumeFlight(w) = r
    BY <1>10 DEF ResumeFlight, Then, b, q
  <1> HIDE DEF f
  <1>12. Keeps(r, f, {"buffering", "pc"}) /\ ~r.buffering /\ r.pc = "ccs"
    BY <1>10 DEF Keeps, ConnFields
  <1> HIDE DEF r
  <1>13. DOMAIN r = ConnFields /\ r.sendBuf = f.sendBuf
    BY <1>12 DEF Keeps, ConnFields
  <1>14. Keeps(y, r, {"sendBuf"}) /\ y.sendBuf = <<>> /\ Passed(r) = f.sendBuf
    BY <1>12, <1>13, AfterFields
  <1> HIDE DEF y
  <1>15. Keeps(y, q, {"transcript", "sendBuf", "out", "nextOut", "buffering",
                      "pc"})
    BY <1>10, <1>12, <1>14 DEF Keeps
  <1>16. /\ y.pc = "ccs" /\ y.buffering = r.buffering
         /\ y.transcript = f.transcript /\ y.out = f.out
    BY <1>12, <1>14 DEF Keeps, ConnFields
  <1>17. /\ y.serverHello = q.serverHello /\ y.sessionState = q.sessionState
         /\ y.vers = q.vers /\ y.suite = q.suite /\ y.hello = q.hello
         /\ y.proto = q.proto /\ y.err = q.err /\ y.resumed = q.resumed
         /\ y.in = q.in /\ y.peerCerts = q.peerCerts /\ y.secret = q.secret
         /\ y.nextIn = q.nextIn /\ y.curve = q.curve
    BY <1>15 DEF Keeps, ConnFields
  <1>18. Hash1(y) = H
    BY <1>5, <1>17 DEF Hash1, Welcomed
  <1>19. /\ WithTicket(y, H) = WithTicket(q, H) /\ End1(y, H) = End1(q, H)
         /\ TicketFor(y) = TicketFor(q)
    BY <1>17, SameEnds
  <1>20. TicketOK(TicketFor(y), conf.name)
    <2>1. /\ TicketFor(y).secret = st.secret /\ TicketFor(y).vers = st.vers
          /\ TicketFor(y).suite = st.suite /\ TicketFor(y).certs = st.certs
          /\ TicketFor(y).createdAt = st.createdAt
      BY <1>x, <1>4, <1>5, <1>17 DEF TicketFor, st
    <2> DEFINE t == TicketFor(y)
    <2> HIDE DEF t
    <2>2. TicketOK(t, conf.name)
      BY <1>p, <2>1 DEF TicketOK, t
    <2> QED
      BY <2>2 DEF t
  <1>21. Announced(y, n)
    BY <1>7, <1>17 DEF Announced
  <1>22. Chosen(p, y)
    BY <1>o, <1>5, <1>17 DEF Chosen, Agreed
  <1>23. ChoseResume(p, y)
    <2>1. /\ y.sessionState = st /\ y.peerCerts = st.certs /\ ~Refused(st.certs)
          /\ y.secret = p.offered.secret /\ y.vers = p.offered.vers
          /\ y.suite = p.offered.suite /\ y.resumed = TRUE
      BY <1>x, <1>p, <1>4, <1>5, <1>17 DEF st
    <2> QED
      BY <1>x, <1>o, <1>20, <1>21, <1>22, <2>1 DEF ChoseResume
  <1>24. /\ y.nextIn = KeyOf(y, y.secret, "client")
         /\ y.out = KeyOf(y, y.secret, "server")
    BY <1>6, <1>10, <1>16, <1>17 DEF KeyOf
  <1>25. ServerAwaitsCCS(y)
    BY <1>5, <1>10, <1>12, <1>14, <1>16, <1>17, <1>18, <1>19, <1>24
       DEF ServerAwaitsCCS, Quiet
  <1>26. Passed(r) = Before(Rec(None, y.serverHello), End1(y, Hash1(y)))
    BY <1>5, <1>10, <1>14, <1>17, <1>18, <1>19 DEF Before
  <1>27. Resuming(p, y, <<>>, Passed(r))
    BY <1>23, <1>25, <1>26 DEF Resuming
  <1>28. Stage(p, y, <<>>, Passed(r)) /\ IsSeq(r.sendBuf)
    BY <1>10, <1>13, <1>27 DEF Stage
  <1> QED
    BY <1>11, <1>13, <1>28 DEF ServerTo, y

LEMMA ResumeTried ==
    ASSUME ConfOK, n \in Nat, NEW p, NEW x, Offers(p), Fresh(p), Agreed(p, x),
           checkForResumption(x)
    PROVE  ServerTo(p, doResumeHandshake(x), <<>>)
  <1> DEFINE st == x.sessionState
             ticket == st.key # Head(keys)
             b == [x EXCEPT !.resumed = TRUE, !.buffer = FALSE]
             h == SayHello(b, x.hello.sessionId, st.suite, ticket, FALSE)
             v == processCertsFromClient(h, st.certs)
             w == [h EXCEPT !.peerCerts = st.certs]
  <1>x. /\ DOMAIN x = ConnFields /\ x.hello = p.hello /\ x.vers = bestVersion
        /\ x.vers # None /\ x.proto = bestProto /\ x.sendBuf = <<>>
        /\ x.out = None /\ x.pc = "clientHello"
    BY DEF Agreed, NoKeys, Quiet
  <1>h. x.hello.suites = offeredSuites /\ x.hello.sessionId = n
    BY <1>x, HelloOffers
  <1>s. /\ st # None /\ x.vers = st.vers /\ st.suite \in Range(offeredSuites)
    BY <1>h DEF checkForResumption
  <1>d. doResumeHandshake(x) = IF v.pc = "failed" THEN v ELSE ResumeFlight(v)
    BY DEF doResumeHandshake, Then
  <1> HIDE DEF ticket
  <1>1. Keeps(b, x, {"resumed", "buffer"}) /\ b.resumed = TRUE
    BY <1>x DEF Keeps, ConnFields
  <1> HIDE DEF b
  <1>2. SaidHello(h, b, n, st.suite, ticket, FALSE)
    <2> DEFINE no == FALSE
    <2>1. h = SayHello(b, n, st.suite, ticket, no)
      BY <1>h
    <2> HIDE DEF h, no
    <2>2. DOMAIN b = ConnFields
      BY <1>1 DEF Keeps
    <2>3. SaidHello(SayHello(b, n, st.suite, ticket, no), b, n, st.suite, ticket, no)
      BY <2>2, SayHelloFields
    <2> QED
      BY <2>1, <2>3 DEF no
  <1> HIDE DEF h
  <1>3. Welcomed(p, x, h)
    <2>1. /\ b.vers = bestVersion /\ b.proto = bestProto /\ b.hello = p.hello
          /\ b.sendBuf = <<>> /\ b.out = None
      BY <1>x, <1>1 DEF Keeps, ConnFields
    <2>2. /\ Keeps(h, b, {"suite", "serverHello", "transcript", "sendBuf"})
          /\ h.suite = st.suite
          /\ h.transcript = Append(<<p.hello>>, h.serverHello)
          /\ h.sendBuf = Append(<<>>, Rec(None, h.serverHello))
          /\ h.serverHello.type = "serverHello"
          /\ h.serverHello.vers = bestVersion
          /\ h.serverHello.suite = st.suite /\ h.serverHello.proto = bestProto
          /\ h.serverHello.sessionId = n
          /\ h.serverHello.canary = Canary(bestVersion, Head(serverVersions))
      BY <1>2, <2>1 DEF SaidHello
    <2>3. Keeps(h, x, {"resumed", "buffer", "suite", "serverHello",
                       "transcript", "sendBuf"})
      BY <1>1, <2>2 DEF Keeps
    <2>4. h.hello = p.hello /\ h.resumed = TRUE /\ h.vers = bestVersion
      BY <1>1, <2>1, <2>2 DEF Keeps, ConnFields
    <2>5. Announced(h, n)
      BY <1>x, <1>s, <2>2, <2>4 DEF Announced
    <2>6. /\ h.transcript = Hash1(h)
          /\ h.sendBuf = <<Rec(None, h.serverHello)>>
      BY <2>2, <2>4 DEF Hash1
    <2> QED
      BY <2>2, <2>3, <2>4, <2>5, <2>6 DEF Welcomed
  <1>4. DOMAIN h = ConnFields /\ h.pc = "clientHello"
    BY <1>3, <1>x DEF Welcomed, Keeps, ConnFields
  <1>5. CASE Refused(st.certs)
    <2>1. v = Alert(h, "bad_certificate")
      BY <1>5 DEF processCertsFromClient, Refused
    <2>2. Keeps(h, h, {"peerCerts"})
      BY <1>4 DEF Keeps
    <2>3. /\ ServerTo(p, Alert(h, "bad_certificate"), <<>>)
          /\ Alert(h, "bad_certificate").pc = "failed"
      BY <1>3, <1>5, <1>s, <2>2, ResumeAlerts
    <2> HIDE DEF v
    <2> QED
      BY <1>d, <2>1, <2>3
  <1>6. CASE ~Refused(st.certs)
    <2>1. v = w
      BY <1>6 DEF processCertsFromClient, Refused
    <2>2. Keeps(w, h, {"peerCerts"}) /\ w.peerCerts = st.certs
      BY <1>4 DEF Keeps, ConnFields
    <2> HIDE DEF v, w
    <2>3. w.pc # "failed"
      BY <1>4, <2>2 DEF Keeps, ConnFields
    <2>4. doResumeHandshake(x) = ResumeFlight(w)
      BY <1>d, <2>1, <2>3
    <2>5. CASE conf.serverVetoes
      <3>1. ResumeFlight(w) = Alert(w, "bad_certificate")
        BY <2>5 DEF ResumeFlight
      <3>2. ServerTo(p, Alert(w, "bad_certificate"), <<>>)
        BY <1>3, <1>s, <2>2, <2>5, ResumeAlerts
      <3> QED
        BY <2>4, <3>1, <3>2
    <2>6. CASE ~conf.serverVetoes
      BY <1>3, <1>6, <2>2, <2>4, <2>6, ResumeStarts
    <2> QED
      BY <2>5, <2>6
  <1> QED
    BY <1>5, <1>6

LEMMA ReadClientHelloStep ==
    ASSUME ConnInv, ReadClientHello
    PROVE  StepOK
  <1> DEFINE r == OnClientHello(s, c.hello)
             st == SessionStateOf(c.hello)
             x == [s EXCEPT !.hello = c.hello, !.vers = bestVersion,
                            !.proto = bestProto, !.buffering = TRUE,
                            !.sessionState = st]
             noALPN == refusesALPN(conf.serverProtos, conf.clientProtos)
  <1>0. /\ s.pc = "clientHello" /\ toServer # <<>> /\ toServer' = Tail(toServer)
        /\ UNCHANGED made
    BY DEF ReadClientHello, ServerReads
  <1>f. /\ DOMAIN s = ConnFields /\ WorldOK /\ CacheOK(cache) /\ ConfOK
        /\ n \in Nat /\ Stage(c, s, toServer, toClient)
    BY InvFacts
  <1>1. HelloSent(c, s, toServer, toClient)
    <2>1. ~Starting(c, s, toServer, toClient)
      BY <1>0 DEF Starting
    <2> QED
      BY <1>f, <1>0, <2>1, StagePlaces DEF Stage
  <1>2. /\ Offers(c) /\ Fresh(c) /\ s = NewConn("clientHello")
        /\ toServer = <<Rec(None, c.hello)>> /\ toClient = <<>>
    BY <1>1 DEF HelloSent
  <1>3. /\ NoKeys(s) /\ Quiet(s) /\ s.resumed = FALSE /\ s.peerCerts = "none"
        /\ s.in = None /\ s.out = None /\ s.sendBuf = <<>>
    BY <1>2, NewConnFields DEF NoKeys, Quiet
  <1>4. /\ c.hello.type = "clientHello"
        /\ c.hello.versions = clientVersions
        /\ c.hello.protos = conf.clientProtos
        /\ c.hello.ticket = IF c.offered = None THEN None ELSE c.offered.ticket
    BY <1>2, HelloOffers
  <1>5. Head(toServer) = Rec(None, c.hello) /\ Tail(toServer) = <<>>
    <2> DEFINE k == Rec(None, c.hello)
    <2> HIDE DEF k
    <2>1. toServer = <<k>>
      BY <1>2 DEF k
    <2>2. Head(toServer) = k /\ Tail(toServer) = <<>>
      BY <2>1
    <2> QED
      BY <2>2 DEF k
  <1>6. ServerBecomes(r)
    <2>1. Opened(s, Head(toServer), FALSE) = s /\ Head(toServer).msg = c.hello
      <3> DEFINE m == c.hello
                 k == Head(toServer)
      <3>1. k = Rec(s.in, m) /\ s.pc # "failed"
        BY <1>0, <1>3, <1>5
      <3> HIDE DEF m, k
      <3>2. Opened(s, k, FALSE) = s /\ k.msg = m
        BY <3>1, ReadsMessage
      <3> QED
        BY <3>2 DEF m, k
    <2>2. Receive(s, Head(toServer), {"clientHello"}) = s
      BY <1>4, <2>1 DEF Receive, Then
    <2> QED
      BY <1>0, <2>1, <2>2 DEF ReadClientHello, ServerReads, Then
  <1>7. r = IF bestVersion = None THEN Alert(s, "protocol_version")
            ELSE IF noALPN THEN Alert(s, "no_application_protocol")
            ELSE IF conf.key = "none" THEN Alert(s, "unrecognized_name")
            ELSE IF checkForResumption(x) THEN doResumeHandshake(x)
            ELSE doFullHandshake(x)
    BY <1>4 DEF OnClientHello, bestVersion, bestProto
  <1>8. c.pc \in {"serverHello", "ticket", "ccs"} /\ c.in = None /\ Quiet(c)
    BY <1>2 DEF Fresh, NoKeys
  <1> HIDE DEF r
  <1>9. SUFFICES ServerTo(c, r, <<>>)
    BY <1>f, <1>0, <1>2, <1>5, <1>6, ServerMoves
  <1>10. CASE bestVersion = None
    <2>1. Range(clientVersions) \cap Range(serverVersions) = {}
      BY <1>f, <1>10, BestVersion
    <2>2. \A y : (y.err = "protocol_version" /\ y.sessionState = s.sessionState)
                    => ServerCause(y, c)
      BY <2>1 DEF ServerCause
    <2>3. ServerTo(c, Alert(s, "protocol_version"), <<>>)
      BY <1>f, <1>3, <1>8, <2>2, ServerAlerts
    <2> QED
      BY <1>7, <1>10, <2>3
  <1>11. CASE bestVersion # None /\ noALPN
    <2>1. Range(conf.clientProtos) \cap Range(conf.serverProtos) = {}
      BY <1>f, <1>11, ProtoSettled DEF refusesALPN, bestProto
    <2>2. \A y : (y.err = "no_application_protocol"
                    /\ y.sessionState = s.sessionState) => ServerCause(y, c)
      BY <2>1 DEF ServerCause
    <2>3. ServerTo(c, Alert(s, "no_application_protocol"), <<>>)
      BY <1>f, <1>3, <1>8, <2>2, ServerAlerts
    <2> QED
      BY <1>7, <1>11, <2>3
  <1>12. CASE bestVersion # None /\ ~noALPN /\ conf.key = "none"
    <2>1. \A y : (y.err = "unrecognized_name"
                    /\ y.sessionState = s.sessionState) => ServerCause(y, c)
      BY <1>12 DEF ServerCause
    <2>2. ServerTo(c, Alert(s, "unrecognized_name"), <<>>)
      BY <1>f, <1>3, <1>8, <2>1, ServerAlerts
    <2> QED
      BY <1>7, <1>12, <2>2
  <1>13. CASE bestVersion # None /\ ~noALPN /\ conf.key # "none"
    <2>1. r = IF checkForResumption(x) THEN doResumeHandshake(x)
              ELSE doFullHandshake(x)
      BY <1>7, <1>13
    <2>2. st # None => c.offered # None /\ st = c.offered.ticket
      BY <1>4 DEF SessionStateOf
    <2> HIDE DEF st
    <2>3. /\ Keeps(x, s, {"hello", "vers", "proto", "buffering", "sessionState"})
          /\ x.hello = c.hello /\ x.vers = bestVersion /\ x.proto = bestProto
          /\ x.sessionState = st
      <3> DEFINE v == bestVersion
                 o == bestProto
      <3> HIDE DEF v, o
      <3> DEFINE z == [s EXCEPT !.hello = c.hello, !.vers = v, !.proto = o,
                                !.buffering = TRUE, !.sessionState = st]
      <3>1. /\ Keeps(z, s, {"hello", "vers", "proto", "buffering",
                            "sessionState"})
            /\ z.hello = c.hello /\ z.vers = v /\ z.proto = o
            /\ z.sessionState = st
        BY <1>f DEF Keeps, ConnFields
      <3>2. x = z
        BY DEF v, o
      <3> HIDE DEF x, z
      <3> QED
        BY <3>1, <3>2 DEF v, o
    <2> HIDE DEF x
    <2>4. /\ DOMAIN x = ConnFields /\ x.pc = s.pc /\ x.in = s.in /\ x.out = s.out
          /\ x.nextIn = s.nextIn /\ x.nextOut = s.nextOut /\ x.err = s.err
          /\ x.sendBuf = s.sendBuf /\ x.peerCerts = s.peerCerts
          /\ x.resumed = s.resumed
      BY <2>3 DEF Keeps, ConnFields
    <2>5. Agreed(c, x)
      BY <1>0, <1>3, <1>13, <2>2, <2>3, <2>4 DEF Agreed, NoKeys, Quiet
    <2>6. CASE checkForResumption(x)
      BY <1>f, <1>2, <2>1, <2>5, <2>6, ResumeTried
    <2>7. CASE ~checkForResumption(x)
      BY <1>f, <1>2, <1>13, <2>1, <2>5, <2>7, FullStarts
    <2> QED
      BY <2>6, <2>7
  <1> QED
    BY <1>10, <1>11, <1>12, <1>13

-----------------------------------------------------------------------------
(* The invariant is inductive.                                             *)

LEMMA InitInv ==
    ASSUME Init
    PROVE  ConnInv
  <1>1. conf \in UNION Range(Configs)
    <2>1. 1 \in DOMAIN Configs
      BY ConfigAssumption
    <2> QED
      BY <2>1 DEF Init, Range
  <1>2. /\ n \in 1 .. MaxConns /\ clock \in Nat /\ keys \in Seq(Nat)
        /\ keys # <<>>
    BY ConfigAssumption DEF Init
  <1>3. DOMAIN c = ConnFields /\ DOMAIN s = ConnFields
    BY NewConnFields DEF Init
  <1>4. CacheOK(cache)
    BY SeqAny DEF CacheOK, Init
  <1>5. Stage(c, s, toServer, toClient)
    BY DEF Stage, Starting, Init
  <1> QED
    BY <1>1, <1>2, <1>3, <1>4, <1>5 DEF ConnInv, WorldOK

LEMMA ConnectStep ==
    ASSUME ConnInv, Connect
    PROVE  ConnInv'
  <1>0. WorldOK /\ CacheOK(cache) /\ clock \in Nat /\ n \in Nat
    BY InvFacts
  <1>1. n' \in 1 .. MaxConns /\ conf' \in UNION Range(Configs)
    <2>1. n + 1 \in 1 .. MaxConns /\ n' = n + 1 /\ conf' \in Configs[n + 1]
      BY <1>0, ConfigAssumption DEF Connect
    <2>2. n + 1 \in DOMAIN Configs
      BY <2>1, ConfigAssumption
    <2> QED
      BY <2>1, <2>2 DEF Range
  <1>2. clock' \in Nat /\ clock <= clock'
    BY <1>0, ConfigAssumption DEF Connect
  <1>3. keys' \in Seq(Nat) /\ keys' # <<>>
    <2>1. keys \in Seq(Nat) /\ keys # <<>> /\ Head(keys) \in Nat
      BY <1>0 DEF WorldOK
    <2> DEFINE k == Head(keys)
    <2> HIDE DEF k
    <2>2. <<n + 1, k>> \in Seq(Nat) /\ <<n + 1, k>> # <<>>
      BY <1>0, <2>1 DEF k
    <2>3. keys' = keys \/ keys' = <<n + 1, k>>
      BY DEF Connect, k
    <2> QED
      BY <2>1, <2>2, <2>3
  <1>4. /\ c' = NewConn("start") /\ s' = NewConn("clientHello")
        /\ toServer' = <<>> /\ toClient' = <<>> /\ cache' = cache
        /\ made' = made
    BY DEF Connect
  <1>5. DOMAIN c' = ConnFields /\ DOMAIN s' = ConnFields
    BY <1>4, NewConnFields
  <1>6. WorldOK'
    BY <1>1, <1>2, <1>3, <1>5 DEF WorldOK
  <1>7. CacheOK(cache)'
    BY <1>0, <1>2, <1>4, CacheStays
  <1>8. Starting(c, s, toServer, toClient)'
    BY <1>4 DEF Starting, NewConn
  <1> QED
    BY <1>6, <1>7, <1>8 DEF ConnInv, Stage

LEMMA RivalStep ==
    ASSUME ConnInv, RivalFails
    PROVE  ConnInv'
  <1>0. WorldOK /\ CacheOK(cache) /\ Stage(c, s, toServer, toClient)
        /\ DOMAIN c = ConnFields /\ DOMAIN s = ConnFields
    BY InvFacts
  <1>1. CacheOK(cache')
    BY <1>0, CachePut DEF RivalFails
  <1>2. StepOK
    BY <1>0, <1>1 DEF RivalFails, StepOK
  <1> QED
    BY <1>0, <1>2, StepKeeps

LEMMA StutterStep ==
    ASSUME ConnInv, UNCHANGED vars
    PROVE  ConnInv'
  <1>0. WorldOK /\ CacheOK(cache) /\ Stage(c, s, toServer, toClient)
        /\ DOMAIN c = ConnFields /\ DOMAIN s = ConnFields
    BY InvFacts
  <1>1. StepOK
    BY <1>0 DEF vars, world, StepOK
  <1> QED
    BY <1>0, <1>1, StepKeeps

\* Every step of every handshake takes the two ends from one stage to one.
LEMMA NextInv ==
    ASSUME ConnInv, [Next]_vars
    PROVE  ConnInv'
  <1>0. WorldOK
    BY InvFacts
  <1>1. CASE ClientNext
    <2>1. StepOK
      BY <1>1, ClientHelloStep, ServerHelloStep, CertificateStep, StatusStep,
         KeyExchangeStep, RequestStep, HelloDoneStep, TicketStep, ClientCCSStep,
         ServerFinishedStep DEF ClientNext
    <2> QED
      BY <1>0, <2>1, StepKeeps
  <1>2. CASE ServerNext /\ ~ReadClientFinished
    <2>1. StepOK
      BY <1>2, ReadClientHelloStep, ClientCertificateStep, ClientKeyStep,
         CertificateVerifyStep, ServerCCSStep DEF ServerNext
    <2> QED
      BY <1>0, <2>1, StepKeeps
  <1>3. CASE ReadClientFinished
    BY <1>3, ClientFinishedStep
  <1>4. CASE Connect
    BY <1>4, ConnectStep
  <1>5. CASE RivalFails
    BY <1>5, RivalStep
  <1>6. CASE Finished \/ UNCHANGED vars
    BY <1>6, StutterStep DEF Finished
  <1> QED
    BY <1>1, <1>2, <1>3, <1>4, <1>5, <1>6 DEF Next

-----------------------------------------------------------------------------
(* What the stages say.                                                    *)

\* The ends of a connection that are done.
LEMMA DonePlaces ==
    ASSUME ConnInv
    PROVE  /\ c.pc = "done" =>
                \/ ServerDone(c, s, toServer, toClient)
                \/ Resumed(c, s, toServer, toClient)
           /\ s.pc = "done" =>
                \/ ServerDone(c, s, toServer, toClient)
                \/ Resumed(c, s, toServer, toClient)
  BY InvFacts, StagePlaces DEF Stage

LEMMA AgreementHolds ==
    ASSUME ConnInv
    PROVE  EndsAgree
  <1>1. ASSUME c.pc = "done", s.pc = "done"
        PROVE  /\ c.vers = s.vers /\ c.suite = s.suite /\ c.proto = s.proto
               /\ c.resumed = s.resumed /\ c.secret = s.secret
               /\ c.transcript = s.transcript
               /\ c.out = s.in /\ c.in = s.out
               /\ c.vers = bestVersion /\ bestVersion # None
    <2>1. CASE ServerDone(c, s, toServer, toClient)
      <3>1. ~ClientEnds(c, s, toClient, HashF(s))
        BY <1>1 DEF ClientEnds
      <3> QED
        BY <2>1, <3>1 DEF ServerDone, ServerEnded, Follows, ChoseFull, Announced
    <2>2. CASE Resumed(c, s, toServer, toClient)
      BY <1>1, <2>2 DEF Resumed, ServerAwaitsCCS, Follows, ChoseResume, Announced
    <2> QED
      BY <1>1, <2>1, <2>2, DonePlaces
  <1>2. bestVersion # None =>
          \A v \in Range(clientVersions) \cap Range(serverVersions) :
             v <= bestVersion
    BY BestVersion, InvFacts
  <1>3. /\ ~(c.pc = "done" /\ s.pc = "failed")
        /\ ~(c.pc = "failed" /\ s.pc = "done")
    BY DonePlaces, StagePlaces
  <1> QED
    BY <1>1, <1>2, <1>3 DEF EndsAgree

LEMMA ResumptionHolds ==
    ASSUME ConnInv
    PROVE  ResumptionSound
  <1>0. clock \in Nat /\ Lifetime \in Nat
    BY InvFacts, ConfigAssumption
  <1>1. ASSUME Resumed(c, s, toServer, toClient)
        PROVE  \E m \in made :
                  /\ m.secret = s.secret /\ m.vers = s.vers /\ m.suite = s.suite
                  /\ m.certs = s.peerCerts /\ clock - m.at <= Lifetime
                  /\ m.name = conf.name /\ c.secret = s.secret
    <2> DEFINE x == TicketFor(s)
               a == s.sessionState.createdAt
    <2>1. TicketOK(x, conf.name) /\ c.secret = s.secret
          /\ clock - a <= Lifetime
      BY <1>1 DEF Resumed, ChoseResume
    <2>2. /\ x.secret = s.secret /\ x.vers = s.vers /\ x.suite = s.suite
          /\ x.certs = s.peerCerts
          /\ x.createdAt = IF s.sessionState = None THEN clock ELSE a
      BY DEF TicketFor
    <2> HIDE DEF x, a
    <2>3. PICK m \in made :
            /\ m.secret = x.secret /\ m.name = conf.name
            /\ m.vers = x.vers /\ m.suite = x.suite /\ m.certs = x.certs
            /\ m.at \in Nat /\ x.createdAt <= m.at /\ m.at <= clock
            /\ x.createdAt \in Nat
      BY <2>1 DEF TicketOK
    <2>4. clock - m.at <= Lifetime
      <3>1. CASE s.sessionState = None
        BY <1>0, <2>2, <2>3, <3>1
      <3>2. CASE s.sessionState # None
        BY <1>0, <2>1, <2>2, <2>3, <3>2
      <3> QED
        BY <3>1, <3>2
    <2> QED
      BY <2>1, <2>2, <2>3, <2>4
  <1>2. /\ (s.pc = "done" /\ s.resumed) => Resumed(c, s, toServer, toClient)
        /\ (c.pc = "done" /\ c.resumed) => Resumed(c, s, toServer, toClient)
    BY DonePlaces DEF ServerDone, ServerEnded, ChoseFull
  <1> QED
    BY <1>1, <1>2 DEF ResumptionSound

LEMMA ClientAuthFollows ==
    ASSUME ConnInv
    PROVE  ClientAuthHolds
  <1> SUFFICES ASSUME s.pc = "done"
               PROVE  /\ ~Refused(s.peerCerts)
                      /\ conf.auth = 0 => s.peerCerts = "none"
    BY DEF ClientAuthHolds, Refused
  <1>1. CASE ServerDone(c, s, toServer, toClient)
    BY <1>1 DEF ServerDone, ServerEnded, Accepted, Chain
  <1>2. CASE Resumed(c, s, toServer, toClient)
    BY <1>2 DEF Resumed, ChoseResume
  <1> QED
    BY <1>1, <1>2, DonePlaces

LEMMA VerificationFollows ==
    ASSUME ConnInv
    PROVE  ServerVerified
  <1>1. c.pc = "done" => Verified(c)
    BY DonePlaces DEF ServerDone, ServerEnded, Resumed
  <1> QED
    BY <1>1 DEF ServerVerified, Verified

LEMMA CausesFollow ==
    ASSUME ConnInv
    PROVE  AlertsHaveACause
  <1>1. ASSUME NEW p, NEW q, NEW ts, NEW tc, Stage(p, q, ts, tc)
        PROVE  /\ p.err = None \/ ClientCause(p, q)
               /\ q.err = None \/ ServerCause(q, p)
    <2>1. CASE Starting(p, q, ts, tc) \/ HelloSent(p, q, ts, tc)
      <3>1. \A pc \in {"start", "clientHello"} : NewConn(pc).err = None
        BY DEF NewConn
      <3>2. p.err = None
        BY <2>1, <3>1 DEF Starting, HelloSent, Fresh, Quiet
      <3>3. q.err = None
        BY <2>1, <3>1 DEF Starting, HelloSent
      <3> QED
        BY <3>2, <3>3
    <2>2. CASE ServerFlight(p, q, ts, tc)
      <3>1. p.err = None
        BY <2>2 DEF ServerFlight, Fresh, Quiet, AwaitsCert, AwaitsStatus,
                    AwaitsKey, AwaitsRequest, AwaitsDone, InFlight, Follows
      <3> QED
        BY <2>2, <3>1 DEF ServerFlight, ChoseFull, Chosen
    <2>3. CASE ClientFlightSent(p, q, ts, tc)
      BY <2>3 DEF ClientFlightSent, ClientAwaitsEnd, Follows, Quiet
    <2>4. CASE ServerDone(p, q, ts, tc)
      BY <2>4 DEF ServerDone, ServerEnded, Follows, Quiet, ChoseFull, Chosen
    <2>5. CASE Resuming(p, q, ts, tc)
      BY <2>5 DEF Resuming, ClientResumes, Fresh, Follows, Quiet, ChoseResume,
                  Chosen
    <2>6. CASE Resumed(p, q, ts, tc)
      BY <2>6 DEF Resumed, Follows, Quiet, ChoseResume, Chosen
    <2>7. CASE ResumeRefused(p, q, ts, tc) \/ ServerRefused(p, q, ts, tc)
      BY <2>7 DEF ResumeRefused, ServerRefused, Fresh, Quiet
    <2>8. CASE ClientRefused(p, q, ts, tc)
      BY <2>8 DEF ClientRefused, Quiet
    <2>9. CASE BothFailed(p, q)
      BY <2>9 DEF BothFailed
    <2> QED
      BY <1>1, <2>1, <2>2, <2>3, <2>4, <2>5, <2>6, <2>7, <2>8, <2>9 DEF Stage
  <1>2. Stage(c, s, toServer, toClient)
    BY InvFacts
  <1> QED
    BY <1>1, <1>2 DEF AlertsHaveACause

\* Something is on its way wherever an end waits for it.
LEMMA FlightsNotEmpty ==
    ASSUME NEW q
    PROVE  /\ Rest0(q) # <<>> /\ Rest1(q) # <<>> /\ Rest2(q) # <<>>
           /\ Rest3(q) # <<>> /\ Rest4 # <<>> /\ Rest5 # <<>>
           /\ Sent1(q) # <<>> /\ Sent2(q) # <<>> /\ Sent3(q) # <<>>
           /\ Sent4(q) # <<>> /\ Sent5(q) # <<>>
           /\ Back1(q) # <<>> /\ Back2(q) # <<>>
           /\ \A h : End1(q, h) # <<>> /\ End2(q, h) # <<>> /\ End3(q, h) # <<>>
           /\ \A k, t : IsSeq(t) => Before(k, t) # <<>>
  <1>0. /\ IsSeq(Sent5(q)) /\ IsSeq(Sent4(q)) /\ IsSeq(Sent3(q))
        /\ IsSeq(Sent2(q)) /\ IsSeq(Back2(q))
        /\ \A h : IsSeq(End3(q, h)) /\ IsSeq(End2(q, h))
    BY FlightSeqs
  <1>1. /\ Rest0(q) # <<>> /\ Rest1(q) # <<>> /\ Rest2(q) # <<>>
        /\ Rest3(q) # <<>> /\ Rest4 # <<>> /\ Rest5 # <<>>
    BY RestHeads, NextMessages
  <1>2. \A k, t : IsSeq(t) => Before(k, t) # <<>>
    BY BeforeAny
  <1>3. \A x : <<x>> # <<>>
    OBVIOUS
  <1>4. Sent5(q) # <<>> /\ Back2(q) # <<>> /\ \A h : End3(q, h) # <<>>
    BY <1>3, Zenon DEF Sent5, Back2, End3
  <1>5. Sent4(q) # <<>> /\ Back1(q) # <<>> /\ \A h : End2(q, h) # <<>>
    BY <1>0, <1>2 DEF Sent4, Back1, End2
  <1>6. Sent3(q) # <<>> /\ Sent2(q) # <<>> /\ \A h : End1(q, h) # <<>>
    BY <1>0, <1>2, <1>5 DEF Sent3, Sent2, End1
  <1>7. Sent1(q) # <<>>
    BY <1>0, <1>2, <1>6 DEF Sent1
  <1> QED
    BY <1>1, <1>2, <1>4, <1>5, <1>6, <1>7

LEMMA ProgressFollows ==
    ASSUME ConnInv
    PROVE  HandshakeProceeds
  <1>1. ASSUME NEW p, NEW q, NEW ts, NEW tc, Stage(p, q, ts, tc)
        PROVE  \/ Ended(p) /\ Ended(q)
               \/ p.pc = "start"
               \/ ~Ended(p) /\ tc # <<>>
               \/ ~Ended(q) /\ ts # <<>>
    <2>0. \A a : <<a>> # <<>>
      OBVIOUS
    <2>1. CASE Starting(p, q, ts, tc)
      BY <2>1, StagePlaces
    <2>2. CASE HelloSent(p, q, ts, tc)
      <3>1. ts # <<>>
        BY <2>0, <2>2, Zenon DEF HelloSent
      <3> QED
        BY <2>2, <3>1, StagePlaces DEF Ended
    <2>3. CASE ServerFlight(p, q, ts, tc)
      <3>1. tc # <<>>
        BY <2>3, FlightsNotEmpty DEF ServerFlight, AwaitsCert, AwaitsStatus,
                                     AwaitsKey, AwaitsRequest, AwaitsDone
      <3> QED
        BY <2>3, <3>1, StagePlaces DEF Ended
    <2>4. CASE ClientFlightSent(p, q, ts, tc)
      <3>1. ts # <<>>
        BY <2>4, FlightsNotEmpty DEF ClientFlightSent, AtCertificate,
                                     AtKeyExchange, AtVerify, AtCCS, AtFinished
      <3> QED
        BY <2>4, <3>1, StagePlaces DEF Ended
    <2>5. CASE ServerDone(p, q, ts, tc)
      <3>1. p.pc = "done" \/ tc # <<>>
        BY <2>5, FlightsNotEmpty DEF ServerDone, ServerEnded, ClientEnds
      <3> QED
        BY <2>5, <3>1, StagePlaces DEF Ended
    <2>6. CASE Resuming(p, q, ts, tc)
      <3>1. tc # <<>>
        <4>1. IsSeq(End1(q, Hash1(q)))
          BY FlightSeqs
        <4> QED
          BY <2>6, <4>1, FlightsNotEmpty DEF Resuming, ClientResumes, ClientEnds
      <3> QED
        BY <2>6, <3>1, StagePlaces DEF Ended
    <2>7. CASE Resumed(p, q, ts, tc)
      <3>1. q.pc = "done" \/ ts # <<>>
        BY <2>7, FlightsNotEmpty DEF Resumed
      <3> QED
        BY <2>7, <3>1, StagePlaces DEF Ended
    <2>8. CASE ResumeRefused(p, q, ts, tc) \/ ServerRefused(p, q, ts, tc)
      <3>1. tc # <<>>
        <4>1. CASE ResumeRefused(p, q, ts, tc)
          <5>1. IsSeq(<<AlertRec(q.err)>>)
            BY SeqAny
          <5> QED
            BY <4>1, <5>1, FlightsNotEmpty DEF ResumeRefused
        <4>2. CASE ServerRefused(p, q, ts, tc)
          BY <2>0, <4>2, Zenon DEF ServerRefused
        <4> QED
          BY <2>8, <4>1, <4>2
      <3> QED
        BY <2>8, <3>1, StagePlaces DEF Ended
    <2>9. CASE ClientRefused(p, q, ts, tc)
      <3>1. ts # <<>>
        BY <2>0, <2>9, Zenon DEF ClientRefused
      <3> QED
        BY <2>9, <3>1, StagePlaces DEF Ended
    <2>10. CASE BothFailed(p, q)
      BY <2>10, StagePlaces DEF Ended
    <2> QED
      BY <1>1, <2>1, <2>2, <2>3, <2>4, <2>5, <2>6, <2>7, <2>8, <2>9, <2>10
         DEF Stage
  <1>2. Stage(c, s, toServer, toClient)
    BY InvFacts
  <1> QED
    BY <1>1, <1>2 DEF HandshakeProceeds

-----------------------------------------------------------------------------
(* The theorems.                                                           *)

\* Whatever the configurations, at every moment the two ends, the records on
\* the way and the session cache are in one of the stages of a full or an
\* abbreviated handshake, or of a refusal with its cause: the reads and writes
\* of handshake_client.go and handshake_server.go match each other.
THEOREM StagesHold == Spec => []ConnInv
  <1>1. Init => ConnInv
    BY InitInv
  <1>2. ConnInv /\ [Next]_vars => ConnInv'
    BY NextInv
  <1> QED
    BY <1>1, <1>2, PTL DEF Spec

\* Two ends that complete a handshake agree on version, suite, protocol,
\* resumption, secret, transcript and keys, the version is the best both
\* support, and neither completes one that fails at the other.
THEOREM AgreementAlways == Spec => []EndsAgree
  <1>1. ConnInv => EndsAgree
    BY AgreementHolds
  <1> QED
    BY <1>1, StagesHold, PTL

\* A session is resumed only under what a full handshake with that server
\* agreed on, and no longer than maxSessionTicketLifetime after it, however
\* often sendSessionTicket has sealed it anew.
THEOREM ResumptionAlwaysSound == Spec => []ResumptionSound
  <1>1. ConnInv => ResumptionSound
    BY ResumptionHolds
  <1> QED
    BY <1>1, StagesHold, PTL

\* The ClientAuth in force holds for every handshake the server completes, by
\* processCertsFromClient and checkForResumption.
THEOREM ClientAuthAlways == Spec => []ClientAuthHolds
  <1>1. ConnInv => ClientAuthHolds
    BY ClientAuthFollows
  <1> QED
    BY <1>1, StagesHold, PTL

\* A client that does not skip verification completes a handshake, resumed or
\* not, only with a server whose certificate verifyServerCertificate accepted.
THEOREM AlwaysVerified == Spec => []ServerVerified
  <1>1. ConnInv => ServerVerified
    BY VerificationFollows
  <1> QED
    BY <1>1, StagesHold, PTL

\* Every alert of either end has its cause in the configurations: no record
\* fails to open, no message is unexpected, no signature is asked of a
\* discarded handshake buffer.
THEOREM CausesAlways == Spec => []AlertsHaveACause
  <1>1. ConnInv => AlertsHaveACause
    BY CausesFollow
  <1> QED
    BY <1>1, StagesHold, PTL

\* Until both ends have returned one of them has a record to read, or the
\* client has yet to begin: no two ends wait for each other.
THEOREM AlwaysProceeds == Spec => []HandshakeProceeds
  <1>1. ConnInv => HandshakeProceeds
    BY ProgressFollows
  <1> QED
    BY <1>1, StagesHold, PTL
=============================================================================
