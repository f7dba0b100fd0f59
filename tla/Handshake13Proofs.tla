-------------------------- MODULE Handshake13Proofs --------------------------
(***************************************************************************)
(* Proofs about Handshake13, for all configurations: that a server's       *)
(* handshake ends only if ClientAuth is satisfied (whatever the other end  *)
(* sends), that a server that is done agrees with its client, and that     *)
(* tickets hold the secret both ends derived.                              *)
(***************************************************************************)
EXTENDS Handshake13, SequenceTheorems, WellFoundedInduction, TLAPS

ConnFields == {"pc", "cache", "session", "hello", "serverHello", "suite",
               "group", "psk", "usingPSK", "transcript", "secret", "app",
               "resumption", "clientFinished", "in", "out", "proto",
               "certReq", "peerCerts", "ccs", "buffering", "sendBuf", "err"}

LEMMA NewConnFields ==
    ASSUME NEW pc, NEW cache PROVE DOMAIN NewConn(pc, cache) = ConnFields
  BY DEF NewConn, ConnFields

\* A server's step leaves the client alone.
LEMMA ServerLeavesClient ==
    ASSUME ServerNext PROVE UNCHANGED <<conf, c>>
  <1>1. ASSUME NEW p, ServerBecomes(p) PROVE UNCHANGED <<conf, c>>
    BY <1>1 DEF ServerBecomes
  <1>2. ASSUME NEW p, ServerDoes(p) PROVE UNCHANGED <<conf, c>>
    BY <1>1, <1>2 DEF ServerDoes
  <1>3. ASSUME ReadClientHello PROVE UNCHANGED <<conf, c>>
    BY <1>1, <1>3 DEF ReadClientHello, ServerReads
  <1>4. ASSUME ReadSecondClientHello PROVE UNCHANGED <<conf, c>>
    BY <1>1, <1>4 DEF ReadSecondClientHello, ServerReads
  <1>5. ASSUME checkForResumption PROVE UNCHANGED <<conf, c>>
    BY <1>2, <1>5 DEF checkForResumption
  <1>6. ASSUME pickCertificate PROVE UNCHANGED <<conf, c>>
    BY <1>2, <1>6 DEF pickCertificate
  <1>7. ASSUME sendServerParameters PROVE UNCHANGED <<conf, c>>
    BY <1>2, <1>7 DEF sendServerParameters
  <1>8. ASSUME sendServerCertificate PROVE UNCHANGED <<conf, c>>
    BY <1>2, <1>8 DEF sendServerCertificate
  <1>9. ASSUME sendServerFinished PROVE UNCHANGED <<conf, c>>
    BY <1>2, <1>9 DEF sendServerFinished
  <1>10. ASSUME SkipClientCertificate PROVE UNCHANGED <<conf, c>>
    BY <1>2, <1>10 DEF SkipClientCertificate
  <1>11. ASSUME readClientCertificate PROVE UNCHANGED <<conf, c>>
    BY <1>1, <1>11 DEF readClientCertificate, ServerReads
  <1>12. ASSUME ReadClientCertificateVerify PROVE UNCHANGED <<conf, c>>
    BY <1>1, <1>12 DEF ReadClientCertificateVerify, ServerReads
  <1>13. ASSUME readClientFinished PROVE UNCHANGED <<conf, c>>
    BY <1>1, <1>13 DEF readClientFinished, ServerReads
  <1>14. ASSUME ServerDropsCCS PROVE UNCHANGED <<conf, c>>
    BY <1>14 DEF ServerDropsCCS
  <1> QED
    BY <1>3, <1>4, <1>5, <1>6, <1>7, <1>8, <1>9, <1>10, <1>11, <1>12, <1>13,
       <1>14 DEF ServerNext

-----------------------------------------------------------------------------
(* Client authentication.                                                  *)

Conn(p) == DOMAIN p = ConnFields /\ \E T : p.transcript \in Seq(T)

\* ClientAuth is content with the certificates of p.
PolicyMet(p) ==
    /\ requiresClientCert(conf.auth) => p.peerCerts # "none"
    /\ conf.auth >= 3 => p.peerCerts # "bad"
    /\ conf.auth = 0 => p.peerCerts = "none"

\* The transcript of p has a signature by its certificates.
Proven(p) ==
    \E i \in DOMAIN p.transcript :
        /\ p.transcript[i].type = "certificateVerify"
        /\ p.transcript[i].by = p.peerCerts

\* Before a ticket is looked at, and before the client's certificate is.
BeforeResumption == {"clientHello", "secondClientHello", "checkForResumption"}
BeforeCertificate == {"pickCertificate", "sendServerParameters",
                      "sendServerCertificate", "sendServerFinished",
                      "readClientCertificate"}

\* Certificates come from an accepted ticket, or from the client's message,
\* checked against ClientAuth either way, and in the second case are proven
\* before the server waits for Finished.
AuthState(p) ==
    /\ Conn(p)
    /\ p.pc \in BeforeResumption => p.peerCerts = "none" /\ ~p.usingPSK
    /\ p.pc \in BeforeCertificate =>
          IF p.usingPSK THEN PolicyMet(p) ELSE p.peerCerts = "none"
    /\ p.pc = "readClientCertificateVerify" => PolicyMet(p)
    /\ p.pc \in {"readClientFinished", "done"} =>
          /\ PolicyMet(p)
          /\ p.peerCerts # "none" /\ ~p.usingPSK => Proven(p)

\* q is p after some writing and hashing.
Follows(q, p) ==
    /\ Conn(q) /\ q.pc = p.pc /\ q.usingPSK = p.usingPSK
    /\ q.peerCerts = p.peerCerts
    /\ Proven(p) => Proven(q)

LEMMA AppendAny ==
    ASSUME NEW t, NEW e, \E T : t \in Seq(T)
    PROVE  /\ \E T : Append(t, e) \in Seq(T)
           /\ Len(t) + 1 \in DOMAIN Append(t, e)
           /\ Append(t, e)[Len(t) + 1] = e
           /\ \A i \in DOMAIN t : /\ i \in DOMAIN Append(t, e)
                                  /\ Append(t, e)[i] = t[i]
  <1>1. PICK T : t \in Seq(T)
    OBVIOUS
  <1> DEFINE U == T \cup {e}
  <1>2. t \in Seq(U) /\ e \in U
    BY <1>1, SeqMonotonic, T \subseteq U
  <1> HIDE DEF U
  <1>3. /\ Append(t, e) \in Seq(U)
        /\ Len(Append(t, e)) = Len(t) + 1
        /\ Append(t, e)[Len(t) + 1] = e
        /\ \A i \in 1 .. Len(t) : Append(t, e)[i] = t[i]
    BY <1>2, AppendProperties
  <1>4. /\ DOMAIN t = 1 .. Len(t) /\ Len(t) \in Nat
        /\ DOMAIN Append(t, e) = 1 .. Len(Append(t, e))
    BY <1>2, <1>3, LenProperties
  <1> QED
    BY <1>3, <1>4

LEMMA FollowsSelf == ASSUME NEW p, Conn(p) PROVE Follows(p, p)
  BY DEF Follows

LEMMA FollowsThrough ==
    ASSUME NEW p, NEW q, NEW r, Follows(q, p), Follows(r, q)
    PROVE  Follows(r, p)
  BY DEF Follows

LEMMA FollowsSend ==
    ASSUME NEW p, NEW typ, NEW msg, Conn(p)
    PROVE  Follows(Send(p, typ, msg), p)
  BY DEF Follows, Conn, Send, ConnFields, Proven

LEMMA FollowsHashed ==
    ASSUME NEW p, NEW msg, Conn(p)
    PROVE  Follows(Hashed(p, msg), p)
  <1> DEFINE q == Hashed(p, msg)
             d == Digest(msg)
  <1>1. /\ DOMAIN q = ConnFields /\ q.transcript = Append(p.transcript, d)
        /\ q.pc = p.pc /\ q.usingPSK = p.usingPSK /\ q.peerCerts = p.peerCerts
    BY DEF Hashed, Conn, ConnFields
  <1>2. \E T : p.transcript \in Seq(T)
    BY DEF Conn
  <1> HIDE DEF q, d
  <1>3. Conn(q)
    <2>1. \E T : Append(p.transcript, d) \in Seq(T)
      BY <1>2, AppendAny
    <2>2. \E T : q.transcript \in Seq(T)
      BY <1>1, <2>1
    <2> QED
      BY <1>1, <2>2, Zenon DEF Conn
  <1>4. Proven(p) => Proven(q)
    BY <1>1, <1>2, AppendAny DEF Proven
  <1> QED
    BY <1>1, <1>3, <1>4 DEF Follows, q

LEMMA FollowsSay ==
    ASSUME NEW p, NEW msg, Conn(p)
    PROVE  Follows(Say(p, msg), p)
  <1>1. Follows(Hashed(p, msg), p) /\ Conn(Hashed(p, msg))
    BY FollowsHashed DEF Follows
  <1>2. Follows(Say(p, msg), Hashed(p, msg))
    BY <1>1, FollowsSend DEF Say
  <1> QED
    BY <1>1, <1>2, FollowsThrough

LEMMA FollowsCCS ==
    ASSUME NEW p, Conn(p)
    PROVE  Follows(sendDummyChangeCipherSpec(p), p)
  <1> DEFINE q == Send(p, "ccs", None)
  <1>1. Follows(q, p)
    BY FollowsSend
  <1>2. Follows([q EXCEPT !.ccs = TRUE], p)
    BY <1>1 DEF Follows, Conn, Proven, ConnFields
  <1> QED
    BY <1>2, FollowsSelf DEF sendDummyChangeCipherSpec

LEMMA FollowsTickets ==
    ASSUME NEW p, Conn(p)
    PROVE  Follows(sendSessionTickets(p), p)
  <1> DEFINE expected == finishedHash(p.in, p.transcript)
             f == [p EXCEPT !.clientFinished = expected]
             q == Hashed(f, finishedMsg(expected))
  <1>1. Follows(f, p)
    BY DEF Follows, Conn, Proven, ConnFields
  <1>2. Follows(q, p) /\ Conn(q)
    <2>1. Conn(f)
      BY <1>1 DEF Follows
    <2>2. Follows(q, f)
      BY <2>1, FollowsHashed
    <2>3. Follows(q, p)
      BY <1>1, <2>2, FollowsThrough
    <2> QED
      BY <2>3 DEF Follows
  <1>3. \A msg : Follows(Send(q, "handshake", msg), p)
    BY <1>2, FollowsSend, FollowsThrough
  <1> QED
    BY <1>2, <1>3 DEF sendSessionTickets

LEMMA FailedState ==
    ASSUME NEW p, Conn(p)
    PROVE  /\ \A err : AuthState(Return(p, err)) /\ Return(p, err).pc = "failed"
           /\ \A a : AuthState(Alert(p, a)) /\ Alert(p, a).pc = "failed"
  <1>1. ASSUME NEW q, Conn(q), NEW err
        PROVE  AuthState(Return(q, err)) /\ Return(q, err).pc = "failed"
    BY <1>1 DEF AuthState, Conn, Return, ConnFields, BeforeResumption,
                BeforeCertificate
  <1>2. \A a : Conn(Send(p, "alert", [type |-> a]))
    BY FollowsSend DEF Follows
  <1> QED
    BY <1>1, <1>2 DEF Alert

\* A message is of an expected type, or the handshake fails.
LEMMA Received ==
    ASSUME NEW p, NEW record, NEW types, Conn(p)
    PROVE  \/ Receive(p, record, types) = p
           \/ /\ AuthState(Receive(p, record, types))
              /\ Receive(p, record, types).pc = "failed"
  <1> DEFINE o == Opened(p, record)
  <1>1. \/ o = p
        \/ AuthState(o) /\ o.pc = "failed"
    <2>1. \/ o = p \/ o = Return(p, "remote")
          \/ o = Alert(p, "unexpected_message") \/ o = Alert(p, "bad_record_mac")
      BY DEF Opened
    <2>2. /\ AuthState(Return(p, "remote")) /\ Return(p, "remote").pc = "failed"
          /\ \A a : AuthState(Alert(p, a)) /\ Alert(p, a).pc = "failed"
      BY FailedState
    <2> HIDE DEF o
    <2> QED
      BY <2>1, <2>2
  <1>2. \A a : AuthState(Alert(o, a)) /\ Alert(o, a).pc = "failed"
    <2>1. Conn(o)
      BY <1>1 DEF AuthState
    <2> QED
      BY <2>1, FailedState
  <1>3. IF o.pc = "failed" THEN Receive(p, record, types) = o
        ELSE \/ Receive(p, record, types) = o
             \/ Receive(p, record, types) = Alert(o, "unexpected_message")
    BY DEF Receive, Then
  <1> HIDE DEF o
  <1> QED
    BY <1>1, <1>2, <1>3

AuthInv == AuthState(s)

LEMMA AuthBecomes ==
    ASSUME NEW p, AuthState(p), ServerBecomes(p)
    PROVE  AuthInv'
  <1>1. /\ DOMAIN s' = ConnFields /\ s'.pc = p.pc /\ s'.usingPSK = p.usingPSK
        /\ s'.peerCerts = p.peerCerts /\ s'.transcript = p.transcript
        /\ conf' = conf
    BY DEF AuthState, Conn, ServerBecomes, ConnFields
  <1> QED
    BY <1>1 DEF AuthInv, AuthState, Conn, PolicyMet, Proven, requiresClientCert

LEMMA AuthUntouched ==
    ASSUME AuthInv, UNCHANGED <<conf, s>> PROVE AuthInv'
  BY DEF AuthInv, AuthState, Conn, PolicyMet, Proven, requiresClientCert

\* A client's step leaves the server alone.
LEMMA ClientLeavesServer ==
    ASSUME ClientNext PROVE UNCHANGED <<conf, s>>
  <1>1. ASSUME NEW p, ClientBecomes(p) PROVE UNCHANGED <<conf, s>>
    BY <1>1 DEF ClientBecomes
  <1>2. ASSUME NEW p, ClientDoes(p) PROVE UNCHANGED <<conf, s>>
    BY <1>1, <1>2 DEF ClientDoes
  <1>3. ASSUME ClientHello PROVE UNCHANGED <<conf, s>>
    BY <1>2, <1>3 DEF ClientHello
  <1>4. ASSUME ReadServerHello PROVE UNCHANGED <<conf, s>>
    BY <1>1, <1>4 DEF ReadServerHello, ClientReads
  <1>5. ASSUME processHelloRetryRequest PROVE UNCHANGED <<conf, s>>
    BY <1>2, <1>5 DEF processHelloRetryRequest
  <1>6. ASSUME ReadSecondServerHello PROVE UNCHANGED <<conf, s>>
    BY <1>1, <1>6 DEF ReadSecondServerHello, ClientReads
  <1>7. ASSUME processServerHello PROVE UNCHANGED <<conf, s>>
    BY <1>2, <1>7 DEF processServerHello
  <1>8. ASSUME establishHandshakeKeys PROVE UNCHANGED <<conf, s>>
    BY <1>2, <1>8 DEF establishHandshakeKeys
  <1>9. ASSUME readServerParameters PROVE UNCHANGED <<conf, s>>
    BY <1>1, <1>9 DEF readServerParameters, ClientReads
  <1>10. ASSUME ResumeServerCertificate PROVE UNCHANGED <<conf, s>>
    BY <1>2, <1>10 DEF ResumeServerCertificate
  <1>11. ASSUME readServerCertificate PROVE UNCHANGED <<conf, s>>
    BY <1>1, <1>11 DEF readServerCertificate, ClientReads
  <1>12. ASSUME ReadServerCertificateVerify PROVE UNCHANGED <<conf, s>>
    BY <1>1, <1>12 DEF ReadServerCertificateVerify, ClientReads
  <1>13. ASSUME readServerFinished PROVE UNCHANGED <<conf, s>>
    BY <1>1, <1>13 DEF readServerFinished, ClientReads
  <1>14. ASSUME sendClientCertificate PROVE UNCHANGED <<conf, s>>
    BY <1>2, <1>14 DEF sendClientCertificate
  <1>15. ASSUME sendClientFinished PROVE UNCHANGED <<conf, s>>
    BY <1>2, <1>15 DEF sendClientFinished
  <1>16. ASSUME ClientDropsCCS PROVE UNCHANGED <<conf, s>>
    BY <1>16 DEF ClientDropsCCS
  <1> QED
    BY <1>3, <1>4, <1>5, <1>6, <1>7, <1>8, <1>9, <1>10, <1>11, <1>12, <1>13,
       <1>14, <1>15, <1>16 DEF ClientNext

\* Certificates that processCertsFromClient lets through satisfy ClientAuth,
\* if the server asks for any.
LEMMA CertsProcessed ==
    ASSUME NEW p, NEW certs, Conn(p), conf.auth = 0 => certs = "none"
    PROVE  LET q == processCertsFromClient(p, certs)
           IN \/ AuthState(q) /\ q.pc = "failed"
              \/ /\ q = [p EXCEPT !.peerCerts = certs]
                 /\ Conn(q) /\ PolicyMet(q) /\ q.peerCerts = certs
                 /\ q.pc = p.pc /\ q.usingPSK = p.usingPSK
  <1> DEFINE refused == \/ certs = "none" /\ requiresClientCert(conf.auth)
                        \/ certs = "bad" /\ conf.auth >= 3
             q == [p EXCEPT !.peerCerts = certs]
  <1>1. CASE refused
    BY <1>1, FailedState DEF processCertsFromClient
  <1>2. CASE ~refused
    <2>1. /\ DOMAIN q = ConnFields /\ q.transcript = p.transcript
          /\ q.pc = p.pc /\ q.usingPSK = p.usingPSK /\ q.peerCerts = certs
      BY DEF Conn, ConnFields
    <2>2. Conn(q)
      BY <2>1 DEF Conn
    <2>3. PolicyMet(q)
      BY <1>2, <2>1 DEF PolicyMet
    <2>4. processCertsFromClient(p, certs) = q
      BY <1>2 DEF processCertsFromClient
    <2> QED
      BY <2>1, <2>2, <2>3, <2>4
  <1> QED
    BY <1>1, <1>2

\* Until the client's certificate is due, writing and hashing change nothing.
LEMMA OnwardStep ==
    ASSUME NEW p, NEW q, AuthState(p), p.pc \in BeforeCertificate,
           Follows(q, p), NEW r, Conn(r), r.pc \in BeforeCertificate,
           r.usingPSK = q.usingPSK, r.peerCerts = q.peerCerts
    PROVE  AuthState(r)
  BY DEF AuthState, Follows, BeforeResumption, BeforeCertificate, PolicyMet

\* From here on the server only waits for Finished.
LEMMA FinishedState ==
    ASSUME NEW p, NEW q, Conn(p), PolicyMet(p), Follows(q, p),
           p.peerCerts # "none" /\ ~p.usingPSK => Proven(p)
    PROVE  AuthState([q EXCEPT !.pc = "readClientFinished"])
  <1> DEFINE r == [q EXCEPT !.pc = "readClientFinished"]
  <1>1. /\ DOMAIN r = ConnFields /\ r.transcript = q.transcript
        /\ r.pc = "readClientFinished" /\ r.usingPSK = p.usingPSK
        /\ r.peerCerts = p.peerCerts /\ q.peerCerts = p.peerCerts
    BY DEF Follows, Conn, ConnFields
  <1> HIDE DEF r
  <1>2. Conn(r) /\ PolicyMet(r)
    BY <1>1 DEF Follows, Conn, PolicyMet
  <1>3. Proven(p) => Proven(r)
    BY <1>1 DEF Follows, Proven
  <1>4. AuthState(r)
    BY <1>1, <1>2, <1>3 DEF AuthState, BeforeResumption, BeforeCertificate
  <1> QED
    BY <1>4 DEF r

\* Every step of the server keeps its certificates accounted for.
LEMMA ServerStep ==
    ASSUME AuthInv, ServerNext PROVE AuthInv'
  <1> DEFINE got(types) == Receive(s, Head(toServer), types)
             msg == Head(toServer).msg
  <1>a. Conn(s) /\ AuthState(s)
    BY DEF AuthInv, AuthState
  <1>b. \A types : \/ got(types) = s
                   \/ AuthState(got(types)) /\ got(types).pc = "failed"
    BY <1>a, Received
  <1>c. \A a : AuthState(Alert(s, a))
    BY <1>a, FailedState
  <1>1. ASSUME ReadClientHello PROVE AuthInv'
    <2> DEFINE suite == SelectedSuite(msg)
               group == SelectedGroup(msg)
               q == [s EXCEPT !.hello = msg, !.suite = suite, !.group = group]
               m == [q EXCEPT !.transcript = <<messageHash(q.hello)>>]
               hrr == serverHelloMsg(q.suite, TRUE, group, None, FALSE)
               d == sendDummyChangeCipherSpec(Say(m, hrr))
               e == [d EXCEPT !.pc = "secondClientHello"]
               f == [q EXCEPT !.pc = "checkForResumption"]
    <2>1. s.pc = "clientHello" /\ s.peerCerts = "none" /\ ~s.usingPSK
      BY <1>1, <1>a DEF ReadClientHello, ServerReads, AuthState, BeforeResumption
    <2>2. Conn(q) /\ q.pc = s.pc /\ q.peerCerts = "none" /\ ~q.usingPSK
      BY <1>a, <2>1 DEF Conn, ConnFields
    <2>3. Conn(m) /\ m.peerCerts = "none" /\ ~m.usingPSK
      <3>1. /\ DOMAIN m = ConnFields /\ m.transcript = <<messageHash(q.hello)>>
            /\ m.peerCerts = "none" /\ ~m.usingPSK
        BY <2>2 DEF Conn, ConnFields
      <3>2. <<messageHash(q.hello)>> \in Seq({messageHash(q.hello)})
        OBVIOUS
      <3> QED
        BY <3>1, <3>2 DEF Conn
    <2>4. Conn(d) /\ d.peerCerts = "none" /\ ~d.usingPSK
      <3>1. Follows(Say(m, hrr), m) /\ Conn(Say(m, hrr))
        BY <2>3, FollowsSay DEF Follows
      <3>2. Follows(d, Say(m, hrr))
        BY <3>1, FollowsCCS
      <3> QED
        BY <2>3, <3>1, <3>2 DEF Follows
    <2>5. AuthState(e) /\ AuthState(f)
      BY <2>2, <2>4 DEF AuthState, Conn, ConnFields, BeforeResumption,
                        BeforeCertificate
    <2>6. \A a : AuthState(Alert(q, a))
      BY <2>2, FailedState
    <2> DEFINE r == got({"clientHello"})
               F(x) == LET q1 == [x EXCEPT !.hello = msg, !.suite = suite,
                                           !.group = group]
                       IN IF suite = None \/ group = None
                          THEN Alert(q1, "handshake_failure")
                          ELSE IF group # msg.share.group
                          THEN doHelloRetryRequest(q1, group)
                          ELSE [q1 EXCEPT !.pc = "checkForResumption"]
    <2>7. ServerBecomes(IF r.pc = "failed" THEN r ELSE F(r))
      BY <1>1 DEF ReadClientHello, ServerReads, Then
    <2>8. CASE r = s
      <3>1. ServerBecomes(F(s))
        BY <2>1, <2>7, <2>8
      <3>2. doHelloRetryRequest(q, group) = e
        BY DEF doHelloRetryRequest
      <3>3. \/ F(s) = Alert(q, "handshake_failure")
            \/ F(s) = e \/ F(s) = f
        BY <3>2
      <3> QED
        BY <2>5, <2>6, <3>1, <3>3, AuthBecomes
    <2>9. CASE AuthState(r) /\ r.pc = "failed"
      BY <2>7, <2>9, AuthBecomes
    <2> QED
      BY <1>b, <2>8, <2>9
  <1>2. ASSUME ReadSecondClientHello PROVE AuthInv'
    <2> DEFINE r == got({"clientHello"})
               f == [s EXCEPT !.hello = msg, !.pc = "checkForResumption"]
    <2>1. s.pc = "secondClientHello" /\ s.peerCerts = "none" /\ ~s.usingPSK
      BY <1>2, <1>a DEF ReadSecondClientHello, ServerReads, AuthState,
                        BeforeResumption
    <2>2. AuthState(f)
      BY <1>a, <2>1 DEF AuthState, Conn, ConnFields, BeforeResumption,
                        BeforeCertificate
    <2>3. CASE r = s
      <3>1. \/ ServerBecomes(Alert(s, "illegal_parameter")) \/ ServerBecomes(f)
        BY <1>2, <2>1, <2>3 DEF ReadSecondClientHello, ServerReads, Then
      <3> QED
        BY <1>c, <2>2, <3>1, AuthBecomes
    <2>4. CASE AuthState(r) /\ r.pc = "failed"
      <3>1. ServerBecomes(r)
        BY <1>2, <2>4 DEF ReadSecondClientHello, ServerReads, Then
      <3> QED
        BY <2>4, <3>1, AuthBecomes
    <2> QED
      BY <1>b, <2>3, <2>4
  <1>3. ASSUME checkForResumption PROVE AuthInv'
    <2> DEFINE p == [s EXCEPT !.psk = s.hello.psk.secret]
               q == processCertsFromClient(p, s.hello.psk.certs)
               f == [q EXCEPT !.usingPSK = TRUE, !.pc = "pickCertificate"]
               g == [s EXCEPT !.pc = "pickCertificate"]
    <2>1. s.pc = "checkForResumption" /\ s.peerCerts = "none" /\ ~s.usingPSK
      BY <1>3, <1>a DEF checkForResumption, AuthState, BeforeResumption
    <2>2. Conn(p) /\ p.pc = s.pc
      BY <1>a DEF Conn, ConnFields
    <2>3. CASE TicketAccepted(s)
      <3>1. conf.auth = 0 => s.hello.psk.certs = "none"
        BY <2>3 DEF TicketAccepted
      <3>2. \/ ServerBecomes(Alert(p, "decrypt_error"))
            \/ ServerBecomes(IF q.pc = "failed" THEN q ELSE f)
        BY <1>3, <2>3 DEF checkForResumption, ServerDoes, Then
      <3>3. \/ AuthState(q) /\ q.pc = "failed"
            \/ Conn(q) /\ PolicyMet(q) /\ q.pc = p.pc
        BY <2>2, <3>1, CertsProcessed
      <3>4. ASSUME Conn(q), PolicyMet(q) PROVE AuthState(f)
        BY <3>4 DEF AuthState, Conn, ConnFields, BeforeResumption,
                    BeforeCertificate, PolicyMet
      <3>5. AuthState(Alert(p, "decrypt_error"))
        BY <2>2, FailedState
      <3> HIDE DEF p, q
      <3> QED
        BY <2>1, <2>2, <3>2, <3>3, <3>4, <3>5, AuthBecomes
    <2>4. CASE ~TicketAccepted(s)
      <3>1. ServerBecomes(g)
        BY <1>3, <2>4 DEF checkForResumption, ServerDoes
      <3>2. AuthState(g)
        BY <1>a, <2>1 DEF AuthState, Conn, ConnFields, BeforeResumption,
                          BeforeCertificate
      <3> QED
        BY <3>1, <3>2, AuthBecomes
    <2> QED
      BY <2>3, <2>4
  <1>4. ASSUME pickCertificate PROVE AuthInv'
    <2> DEFINE r == [s EXCEPT !.pc = "sendServerParameters", !.buffering = TRUE]
    <2>1. s.pc \in BeforeCertificate /\ Follows(s, s)
      BY <1>4, <1>a, FollowsSelf DEF pickCertificate, BeforeCertificate
    <2>2. /\ Conn(r) /\ r.pc \in BeforeCertificate
          /\ r.usingPSK = s.usingPSK /\ r.peerCerts = s.peerCerts
      BY <1>a DEF Conn, ConnFields, BeforeCertificate
    <2>3. AuthState(r)
      BY <1>a, <2>1, <2>2, OnwardStep
    <2>4. ServerBecomes(r) \/ ServerBecomes(Alert(s, "unrecognized_name"))
      BY <1>4 DEF pickCertificate, ServerDoes
    <2> QED
      BY <1>c, <2>3, <2>4, AuthBecomes
  <1>5. ASSUME sendServerParameters PROVE AuthInv'
    <2> DEFINE share == [group |-> s.group, n |-> 0]
               secret == HandshakeSecret(s.suite, s.psk, s.hello.share, share)
               h == Hashed(s, s.hello)
               p == Say(h, serverHelloMsg(s.suite, FALSE, None, share,
                                          s.usingPSK))
               d == sendDummyChangeCipherSpec(p)
               in == deriveSecret(secret, "c hs traffic", p.transcript)
               out == deriveSecret(secret, "s hs traffic", p.transcript)
               q == [d EXCEPT !.secret = secret, !.in = in, !.out = out]
               proto == negotiateALPN(conf.serverProtos, conf.clientProtos)
               ee == [type |-> "encryptedExtensions", alpn |-> proto]
               e == Say(q, ee)
               r == [e EXCEPT !.proto = proto,
                              !.pc = "sendServerCertificate"]
    <2>1. \/ ServerBecomes(Alert(q, "no_application_protocol"))
          \/ ServerBecomes(r)
      BY <1>5 DEF sendServerParameters, ServerDoes
    <2>2. s.pc \in BeforeCertificate
      BY <1>5 DEF sendServerParameters, BeforeCertificate
    <2>3. Follows(h, s) /\ Conn(h)
      BY <1>a, FollowsHashed DEF Follows
    <2>4. Follows(p, h) /\ Conn(p)
      BY <2>3, FollowsSay DEF Follows
    <2>5. Follows(d, p)
      BY <2>4, FollowsCCS
    <2>6. Follows(d, s) /\ Conn(d)
      BY <2>3, <2>4, <2>5, FollowsThrough DEF Follows
    <2>7. Follows(q, s) /\ Conn(q)
      BY <2>6 DEF Follows, Conn, ConnFields, Proven
    <2>8. AuthState(r)
      <3>1. Follows(e, q)
        BY <2>7, FollowsSay
      <3>2. Follows(e, s) /\ Conn(e)
        BY <2>7, <3>1, FollowsThrough DEF Follows
      <3> HIDE DEF e
      <3>3. /\ Conn(r) /\ r.pc \in BeforeCertificate
            /\ r.usingPSK = e.usingPSK /\ r.peerCerts = e.peerCerts
        BY <3>2 DEF Conn, ConnFields, BeforeCertificate
      <3> HIDE DEF r
      <3> QED
        BY <1>a, <2>2, <3>2, <3>3, OnwardStep
    <2>9. \A a : AuthState(Alert(q, a))
      BY <2>7, FailedState
    <2> QED
      BY <2>1, <2>8, <2>9, AuthBecomes
  <1>6. ASSUME sendServerCertificate PROVE AuthInv'
    <2> DEFINE p == IF requestClientCert(s)
                    THEN Say(s, [type |-> "certificateRequest"]) ELSE s
               q == Say(p, [type |-> "certificate", cert |-> "server"])
               r == Say(q, certificateVerify(q, "server", "server"))
               e == IF s.usingPSK THEN s ELSE r
               f == [e EXCEPT !.pc = "sendServerFinished"]
    <2>1. ServerBecomes(f)
      BY <1>6 DEF sendServerCertificate, ServerDoes
    <2>2. s.pc \in BeforeCertificate
      BY <1>6 DEF sendServerCertificate, BeforeCertificate
    <2>3. Follows(p, s) /\ Conn(p)
      BY <1>a, FollowsSay, FollowsSelf DEF Follows
    <2> HIDE DEF p
    <2>4. Follows(q, p) /\ Conn(q)
      BY <2>3, FollowsSay DEF Follows
    <2> HIDE DEF q
    <2>5. Follows(r, q) /\ Conn(r)
      BY <2>4, FollowsSay DEF Follows
    <2>6. Follows(r, s)
      BY <2>3, <2>4, <2>5, FollowsThrough
    <2> HIDE DEF r
    <2>7. Follows(e, s) /\ Conn(e)
      BY <1>a, <2>5, <2>6, FollowsSelf
    <2> HIDE DEF e
    <2>8. /\ Conn(f) /\ f.pc \in BeforeCertificate
          /\ f.usingPSK = e.usingPSK /\ f.peerCerts = e.peerCerts
      BY <2>7 DEF Conn, ConnFields, BeforeCertificate
    <2> HIDE DEF f
    <2>9. AuthState(f)
      BY <1>a, <2>2, <2>7, <2>8, OnwardStep
    <2> QED
      BY <2>1, <2>9, AuthBecomes
  <1>7. ASSUME sendServerFinished PROVE AuthInv'
    <2> DEFINE p == Say(s, finishedMsg(finishedHash(s.out, s.transcript)))
               q == [p EXCEPT
                       !.app = deriveSecret(s.secret, "c ap traffic",
                                            p.transcript),
                       !.out = deriveSecret(s.secret, "s ap traffic",
                                            p.transcript)]
               r == IF requestClientCert(s) THEN q ELSE sendSessionTickets(q)
               f == [r EXCEPT !.pc = "readClientCertificate",
                              !.buffering = FALSE]
    <2>1. ServerBecomes(f)
      BY <1>7 DEF sendServerFinished, ServerDoes
    <2>2. s.pc \in BeforeCertificate
      BY <1>7 DEF sendServerFinished, BeforeCertificate
    <2>3. Follows(p, s) /\ Conn(p)
      BY <1>a, FollowsSay DEF Follows
    <2> HIDE DEF p
    <2>4. Follows(q, s) /\ Conn(q)
      BY <2>3 DEF Follows, Conn, ConnFields, Proven
    <2> HIDE DEF q
    <2>5. Follows(sendSessionTickets(q), q)
      BY <2>4, FollowsTickets
    <2>6. Follows(sendSessionTickets(q), s)
      BY <2>4, <2>5, FollowsThrough
    <2>7. Follows(r, s) /\ Conn(r)
      BY <2>4, <2>6 DEF Follows
    <2> HIDE DEF r
    <2>8. /\ Conn(f) /\ f.pc \in BeforeCertificate
          /\ f.usingPSK = r.usingPSK /\ f.peerCerts = r.peerCerts
      BY <2>7 DEF Conn, ConnFields, BeforeCertificate
    <2> HIDE DEF f
    <2>9. AuthState(f)
      BY <1>a, <2>2, <2>7, <2>8, OnwardStep
    <2> QED
      BY <2>1, <2>9, AuthBecomes
  <1>8. ASSUME SkipClientCertificate PROVE AuthInv'
    <2> DEFINE r == [s EXCEPT !.pc = "readClientFinished"]
    <2>1. s.pc = "readClientCertificate" /\ (s.usingPSK \/ ~(conf.auth >= 1))
      BY <1>8 DEF SkipClientCertificate, requestClientCert
    <2>2. IF s.usingPSK THEN PolicyMet(s) ELSE s.peerCerts = "none"
      BY <1>a, <2>1 DEF AuthState, BeforeCertificate
    <2>3. PolicyMet(s)
      BY <2>1, <2>2 DEF PolicyMet, requiresClientCert
    <2>4. AuthState(r)
      BY <1>a, <2>2, <2>3, FollowsSelf, FinishedState
    <2>5. ServerBecomes(r) \/ ServerBecomes(Alert(s, "bad_certificate"))
      BY <1>8 DEF SkipClientCertificate, ServerDoes
    <2> QED
      BY <1>c, <2>4, <2>5, AuthBecomes
  <1>9. ASSUME readClientCertificate PROVE AuthInv'
    <2> DEFINE r == got({"certificate"})
               h == Hashed(s, msg)
               q == processCertsFromClient(h, msg.cert)
               k == sendSessionTickets(q)
               e == [q EXCEPT !.pc = "readClientCertificateVerify"]
               f == [k EXCEPT !.pc = "readClientFinished"]
    <2>1. s.pc = "readClientCertificate" /\ conf.auth >= 1 /\ ~s.usingPSK
      BY <1>9 DEF readClientCertificate, ServerReads, requestClientCert
    <2>2. Follows(h, s) /\ Conn(h) /\ h.pc = "readClientCertificate"
      BY <1>a, <2>1, FollowsHashed DEF Follows
    <2>3. \/ AuthState(q) /\ q.pc = "failed"
          \/ /\ Conn(q) /\ PolicyMet(q) /\ q.peerCerts = msg.cert
             /\ q.pc = "readClientCertificate"
      BY <2>1, <2>2, CertsProcessed
    <2>4. CASE r = s
      <3>1. IF q.pc = "failed" THEN ServerBecomes(q)
            ELSE \/ ServerBecomes(Alert(q, "bad_certificate"))
                 \/ ServerBecomes(e)
                 \/ msg.cert = "none" /\ ServerBecomes(f)
        <4> DEFINE G(x) ==
                CASE conf.serverVetoes -> Alert(x, "bad_certificate")
                  [] ~conf.serverVetoes /\ msg.cert # "none" ->
                       [x EXCEPT !.pc = "readClientCertificateVerify"]
                  [] ~conf.serverVetoes /\ msg.cert = "none" ->
                       [sendSessionTickets(x) EXCEPT !.pc = "readClientFinished"]
        <4>1. ServerBecomes(IF q.pc = "failed" THEN q ELSE G(q))
          BY <1>9, <2>1, <2>4 DEF readClientCertificate, ServerReads, Then
        <4>2. CASE conf.serverVetoes
          BY <4>1, <4>2
        <4>3. CASE ~conf.serverVetoes /\ msg.cert # "none"
          BY <4>1, <4>3
        <4>4. CASE ~conf.serverVetoes /\ msg.cert = "none"
          BY <4>1, <4>4
        <4> QED
          BY <4>2, <4>3, <4>4
      <3> HIDE DEF q
      <3>2. CASE AuthState(q) /\ q.pc = "failed"
        BY <3>1, <3>2, AuthBecomes
      <3>3. CASE /\ Conn(q) /\ PolicyMet(q) /\ q.peerCerts = msg.cert
                 /\ q.pc = "readClientCertificate"
        <4>1. AuthState(e)
          BY <3>3 DEF AuthState, Conn, ConnFields, BeforeResumption,
                      BeforeCertificate, PolicyMet
        <4>2. msg.cert = "none" => AuthState(f)
          BY <3>3, FollowsTickets, FinishedState
        <4>3. AuthState(Alert(q, "bad_certificate"))
          BY <3>3, FailedState
        <4> HIDE DEF e, f
        <4> QED
          BY <3>1, <3>3, <4>1, <4>2, <4>3, AuthBecomes
      <3> QED
        BY <2>3, <3>2, <3>3
    <2>5. CASE AuthState(r) /\ r.pc = "failed"
      <3>1. ServerBecomes(r)
        BY <1>9, <2>5 DEF readClientCertificate, ServerReads, Then
      <3> QED
        BY <2>5, <3>1, AuthBecomes
    <2> QED
      BY <1>b, <2>4, <2>5
  <1>10. ASSUME ReadClientCertificateVerify PROVE AuthInv'
    <2> DEFINE r == got({"certificateVerify"})
               h == Hashed(s, msg)
               k == sendSessionTickets(h)
               f == [k EXCEPT !.pc = "readClientFinished"]
    <2>1. s.pc = "readClientCertificateVerify" /\ PolicyMet(s)
      BY <1>10, <1>a DEF ReadClientCertificateVerify, ServerReads, AuthState
    <2>2. CASE r = s
      <3>1. \/ ServerBecomes(Alert(s, "decrypt_error"))
            \/ /\ msg = certificateVerify(s, "client", s.peerCerts)
               /\ ServerBecomes(f)
        BY <1>10, <2>1, <2>2 DEF ReadClientCertificateVerify, ServerReads, Then
      <3>2. ASSUME msg = certificateVerify(s, "client", s.peerCerts)
            PROVE  AuthState(f)
        <4> DEFINE d == Digest(msg)
        <4>1. d.type = "certificateVerify" /\ d.by = s.peerCerts
          BY <3>2 DEF Digest, certificateVerify
        <4>2. Follows(h, s) /\ Conn(h)
          BY <1>a, FollowsHashed DEF Follows
        <4>3. h.transcript = Append(s.transcript, d)
          BY <1>a DEF Hashed, Conn, ConnFields
        <4>4. \E T : s.transcript \in Seq(T)
          BY <1>a DEF Conn
        <4> HIDE DEF d, h
        <4>5. /\ Len(s.transcript) + 1 \in DOMAIN h.transcript
              /\ h.transcript[Len(s.transcript) + 1] = d
          BY <4>3, <4>4, AppendAny
        <4>6. Proven(h) /\ PolicyMet(h)
          BY <2>1, <4>1, <4>2, <4>5 DEF Proven, Follows, PolicyMet
        <4> QED
          BY <4>2, <4>6, FollowsTickets, FinishedState
      <3> HIDE DEF f
      <3> QED
        BY <1>c, <3>1, <3>2, AuthBecomes
    <2>3. CASE AuthState(r) /\ r.pc = "failed"
      <3>1. ServerBecomes(r)
        BY <1>10, <2>3 DEF ReadClientCertificateVerify, ServerReads, Then
      <3> QED
        BY <2>3, <3>1, AuthBecomes
    <2> QED
      BY <1>b, <2>2, <2>3
  <1>11. ASSUME readClientFinished PROVE AuthInv'
    <2> DEFINE r == got({"finished"})
               f == [s EXCEPT !.in = s.app, !.pc = "done"]
    <2>1. /\ s.pc = "readClientFinished" /\ PolicyMet(s)
          /\ s.peerCerts # "none" /\ ~s.usingPSK => Proven(s)
      BY <1>11, <1>a DEF readClientFinished, ServerReads, AuthState
    <2>2. CASE r = s
      <3>1. ServerBecomes(Alert(s, "decrypt_error")) \/ ServerBecomes(f)
        BY <1>11, <2>1, <2>2 DEF readClientFinished, ServerReads, Then
      <3>2. AuthState(f)
        BY <1>a, <2>1 DEF AuthState, Conn, ConnFields, PolicyMet, Proven,
                          BeforeResumption, BeforeCertificate
      <3> QED
        BY <1>c, <3>1, <3>2, AuthBecomes
    <2>3. CASE AuthState(r) /\ r.pc = "failed"
      <3>1. ServerBecomes(r)
        BY <1>11, <2>3 DEF readClientFinished, ServerReads, Then
      <3> QED
        BY <2>3, <3>1, AuthBecomes
    <2> QED
      BY <1>b, <2>2, <2>3
  <1>12. ASSUME ServerDropsCCS PROVE AuthInv'
    BY <1>12, AuthUntouched DEF ServerDropsCCS
  <1> QED
    BY <1>1, <1>2, <1>3, <1>4, <1>5, <1>6, <1>7, <1>8, <1>9, <1>10, <1>11,
       <1>12 DEF ServerNext

LEMMA AuthInit == ASSUME Init PROVE AuthInv
  <1>1. DOMAIN s = ConnFields
    BY NewConnFields DEF Init
  <1>2. /\ s.pc = "clientHello" /\ s.peerCerts = "none" /\ s.usingPSK = FALSE
        /\ s.transcript = <<>>
    BY DEF Init, NewConn
  <1>3. Conn(s)
    BY <1>1, <1>2, EmptySeq DEF Conn
  <1> QED
    BY <1>2, <1>3 DEF AuthInv, AuthState, BeforeResumption, BeforeCertificate

LEMMA AuthStep == ASSUME AuthInv, [Next]_vars PROVE AuthInv'
  <1>1. CASE ServerNext
    BY <1>1, ServerStep
  <1>2. CASE ClientNext
    BY <1>2, ClientLeavesServer, AuthUntouched
  <1>3. CASE UNCHANGED vars
    BY <1>3, AuthUntouched DEF vars
  <1> QED
    BY <1>1, <1>2, <1>3 DEF Next

\* Whatever the configurations, and whatever a client offers or sends, a
\* server's handshake is done only if what ClientAuth asks for is met, by the
\* ticket it resumed or by a certificate the client signed with.
THEOREM ClientAuthSafety == Spec => []ClientAuthEnforced
  <1>1. Init => AuthInv
    BY AuthInit
  <1>2. AuthInv /\ [Next]_vars => AuthInv'
    BY AuthStep
  <1>3. AuthInv => ClientAuthEnforced
    BY DEF AuthInv, AuthState, PolicyMet, Proven, ClientAuthEnforced
  <1> QED
    BY <1>1, <1>2, <1>3, PTL DEF Spec

-----------------------------------------------------------------------------
(* Agreement.  The server accepts one Finished, the one it computed; each  *)
(* end's secret, keys and parameters are functions of what its Finished    *)
(* covers; so if the client sent that Finished, the two agree.             *)

IsSeq(t) == \E T : t \in Seq(T)

Prefix(h, t) ==
    /\ IsSeq(h) /\ IsSeq(t) /\ Len(h) <= Len(t)
    /\ \A i \in 1 .. Len(h) : t[i] = h[i]

\* No Finished in transcript t; and a ends with the first one of t.
Unfinished(t) == \A i \in DOMAIN t : t[i].type # "finished"
Closes(a, t) ==
    /\ Prefix(a, t) /\ Len(a) > 0 /\ a[Len(a)].type = "finished"
    /\ \A i \in 1 .. Len(a) - 1 : a[i].type # "finished"

\* The client's handshake key, and the application keys of both ends.
clientKey(secret, h) == deriveSecret(secret, "c hs traffic", h)
clientAppKey(secret, a) == deriveSecret(secret, "c ap traffic", a)
serverAppKey(secret, a) == deriveSecret(secret, "s ap traffic", a)

\* key is the client's handshake key of p, from a transcript that ends with
\* the ServerHello.
Keyed(p, key, t) ==
    /\ key = clientKey(p.secret, key.transcript)
    /\ p.secret.suite = p.suite
    /\ Prefix(key.transcript, t) /\ Len(key.transcript) > 0
    /\ key.transcript[Len(key.transcript)].psk = p.usingPSK

\* The EncryptedExtensions that follow it.
Extended(p, key, t) ==
    /\ Len(key.transcript) < Len(t)
    /\ t[Len(key.transcript) + 1].alpn = p.proto

\* The application keys, from a transcript that ends with the server's
\* Finished.
Closed(p, app, other, t) ==
    /\ Closes(app.transcript, t)
    /\ app = clientAppKey(p.secret, app.transcript)
    /\ other = serverAppKey(p.secret, app.transcript)

Settled(p, key, app, other, t) ==
    Keyed(p, key, t) /\ Extended(p, key, t) /\ Closed(p, app, other, t)

\* The client's Finished of p is v.
Completed(p, v, app, other) ==
    /\ Settled(p, v.key, app, other, v.transcript)
    /\ p.transcript = Append(v.transcript, [type |-> "finished"])

\* A record that readHandshake takes for a Finished.
IsFinished(r) == r.typ \notin {"alert", "ccs"} /\ r.msg.type = "finished"
Mute(p) ==
    /\ DOMAIN p = ConnFields /\ IsSeq(p.transcript) /\ IsSeq(p.sendBuf)
    /\ \A i \in DOMAIN p.sendBuf : ~IsFinished(p.sendBuf[i])

\* A message that is hashed again, and so stays a ClientHello.
IsHello(m) == "type" \in DOMAIN m /\ m.type = "clientHello"

ClientState(p) ==
    /\ Mute(p)
    /\ p.pc \in {"clientHandshake", "serverHello", "helloRetryRequest",
                 "secondServerHello", "processServerHello",
                 "establishHandshakeKeys"} => Unfinished(p.transcript)
    /\ p.pc \in {"serverHello", "helloRetryRequest"} => IsHello(p.hello)
    /\ p.pc \in {"helloRetryRequest", "processServerHello"} =>
          p.serverHello.type = "serverHello"
    /\ p.pc = "establishHandshakeKeys" =>
          /\ Len(p.transcript) > 0
          /\ p.transcript[Len(p.transcript)].psk = p.usingPSK
    /\ p.pc = "serverParameters" => p.transcript = p.out.transcript
    /\ p.pc \in {"serverParameters", "serverCertificate", "certificateVerify",
                 "serverFinished"} =>
          Keyed(p, p.out, p.transcript) /\ Unfinished(p.transcript)
    /\ p.pc \in {"serverCertificate", "certificateVerify", "serverFinished"} =>
          Extended(p, p.out, p.transcript)
    /\ p.pc \in {"clientCertificate", "clientFinished"} =>
          Settled(p, p.out, p.app, p.in, p.transcript)

\* The Finished the server waits for.
Expects(p) == Completed(p, p.clientFinished, p.app, p.out)

ServerState(p) ==
    /\ Conn(p)
    /\ p.pc \in BeforeResumption \cup {"pickCertificate", "sendServerParameters"}
          => Unfinished(p.transcript)
    /\ p.pc \in {"checkForResumption", "pickCertificate", "sendServerParameters"}
          => p.hello.type = "clientHello"
    /\ p.pc \in {"sendServerCertificate", "sendServerFinished"} =>
          /\ Keyed(p, p.in, p.transcript) /\ Extended(p, p.in, p.transcript)
          /\ Unfinished(p.transcript)
    /\ p.pc = "readClientCertificate" =>
          IF requestClientCert(p)
          THEN Settled(p, p.in, p.app, p.out, p.transcript) ELSE Expects(p)
    /\ p.pc = "readClientCertificateVerify" =>
          Settled(p, p.in, p.app, p.out, p.transcript)
    /\ p.pc = "readClientFinished" => Expects(p)

\* The client sends Finished once, when its handshake is done.
WireOK(p, ts) ==
    /\ IsSeq(ts)
    /\ \A i \in DOMAIN ts :
          IsFinished(ts[i]) =>
             p.pc = "done" /\ Completed(p, ts[i].msg.verifyData, p.out, p.in)

AgreeInv == ClientState(c) /\ ServerState(s) /\ WireOK(c, toServer) /\ Agreement

LEMMA AppendSeq ==
    ASSUME NEW t, NEW x, IsSeq(t)
    PROVE  /\ IsSeq(Append(t, x)) /\ Len(t) \in Nat /\ DOMAIN t = 1 .. Len(t)
           /\ Len(Append(t, x)) = Len(t) + 1
           /\ DOMAIN Append(t, x) = 1 .. (Len(t) + 1)
           /\ Append(t, x)[Len(t) + 1] = x
           /\ \A i \in 1 .. Len(t) : Append(t, x)[i] = t[i]
  <1>1. PICK T : t \in Seq(T)
    BY DEF IsSeq
  <1> DEFINE U == T \cup {x}
  <1>2. t \in Seq(U) /\ x \in U
    BY <1>1, SeqMonotonic, T \subseteq U
  <1> HIDE DEF U
  <1>3. /\ Append(t, x) \in Seq(U) /\ Len(Append(t, x)) = Len(t) + 1
        /\ Append(t, x)[Len(t) + 1] = x
        /\ \A i \in 1 .. Len(t) : Append(t, x)[i] = t[i]
    BY <1>2, AppendProperties
  <1>4. /\ Len(t) \in Nat /\ DOMAIN t = 1 .. Len(t)
        /\ DOMAIN Append(t, x) = 1 .. Len(Append(t, x))
    BY <1>2, <1>3, LenProperties
  <1> QED
    BY <1>3, <1>4 DEF IsSeq

LEMMA ShortSeq ==
    ASSUME NEW x, NEW y
    PROVE  /\ IsSeq(<<>>) /\ DOMAIN <<>> = {}
           /\ IsSeq(<<x>>) /\ Len(<<x>>) = 1 /\ DOMAIN <<x>> = {1} /\ <<x>>[1] = x
           /\ IsSeq(<<x, y>>) /\ DOMAIN <<x, y>> = {1, 2}
           /\ <<x, y>>[1] = x /\ <<x, y>>[2] = y
  <1>1. /\ <<>> \in Seq({x}) /\ <<x>> \in Seq({x}) /\ <<x, y>> \in Seq({x, y})
    OBVIOUS
  <1>2. DOMAIN <<>> = {}
    OBVIOUS
  <1>3. Len(<<x>>) = 1 /\ DOMAIN <<x>> = {1} /\ <<x>>[1] = x
    OBVIOUS
  <1>4. DOMAIN <<x, y>> = {1, 2} /\ <<x, y>>[1] = x /\ <<x, y>>[2] = y
    OBVIOUS
  <1> QED
    BY <1>1, <1>2, <1>3, <1>4 DEF IsSeq

\* Every element of w is one of t or of u.
Joins(w, t, u) ==
    /\ IsSeq(w)
    /\ \A i \in DOMAIN w : \/ \E j \in DOMAIN t : w[i] = t[j]
                          \/ \E j \in DOMAIN u : w[i] = u[j]

LEMMA ConcatSeq ==
    ASSUME NEW t, NEW u, IsSeq(t), IsSeq(u)
    PROVE  Joins(t \o u, t, u)
  <1>1. PICK T : t \in Seq(T)
    BY DEF IsSeq
  <1>2. PICK U : u \in Seq(U)
    BY DEF IsSeq
  <1> DEFINE V == T \cup U
  <1>3. t \in Seq(V) /\ u \in Seq(V)
    BY <1>1, <1>2, SeqMonotonic, T \subseteq V, U \subseteq V
  <1> HIDE DEF V
  <1> DEFINE w == t \o u
  <1>4. /\ w \in Seq(V) /\ Len(w) = Len(t) + Len(u)
        /\ \A i \in 1 .. Len(t) : w[i] = t[i]
        /\ \A i \in 1 .. Len(u) : w[Len(t) + i] = u[i]
    BY <1>3, ConcatProperties
  <1>5. /\ Len(t) \in Nat /\ DOMAIN t = 1 .. Len(t)
        /\ Len(u) \in Nat /\ DOMAIN u = 1 .. Len(u) /\ DOMAIN w = 1 .. Len(w)
    BY <1>3, <1>4, LenProperties
  <1> HIDE DEF w
  <1>6. ASSUME NEW i \in DOMAIN w
        PROVE  \/ \E j \in DOMAIN t : w[i] = t[j]
               \/ \E j \in DOMAIN u : w[i] = u[j]
    <2>1. CASE i <= Len(t)
      BY <1>4, <1>5, <2>1
    <2>2. CASE i > Len(t)
      <3>1. i - Len(t) \in 1 .. Len(u) /\ Len(t) + (i - Len(t)) = i
        BY <1>4, <1>5, <2>2
      <3> QED
        BY <1>4, <1>5, <3>1
    <2> QED
      BY <1>4, <1>5, <2>1, <2>2
  <1>7. Joins(w, t, u)
    BY <1>4, <1>6 DEF IsSeq, Joins
  <1> QED
    BY <1>7 DEF w

LEMMA TailSeq ==
    ASSUME NEW t, IsSeq(t), t # <<>>
    PROVE  /\ IsSeq(Tail(t)) /\ 1 \in DOMAIN t /\ Head(t) = t[1]
           /\ \A i \in DOMAIN Tail(t) : \E j \in DOMAIN t : Tail(t)[i] = t[j]
  <1>1. PICK T : t \in Seq(T)
    BY DEF IsSeq
  <1>2. /\ Tail(t) \in Seq(T) /\ Len(Tail(t)) = Len(t) - 1 /\ Head(t) = t[1]
        /\ \A i \in 1 .. Len(Tail(t)) : Tail(t)[i] = t[i + 1]
    BY <1>1, HeadTailProperties
  <1>3. /\ Len(t) \in Nat /\ Len(t) # 0 /\ DOMAIN t = 1 .. Len(t)
        /\ DOMAIN Tail(t) = 1 .. Len(Tail(t))
    BY <1>1, <1>2, LenProperties, EmptySeq
  <1> QED
    BY <1>2, <1>3 DEF IsSeq

-----------------------------------------------------------------------------
(* What writing, hashing and failing change.                               *)

\* r is x but for the fields of F.
Keeps(r, x, F) ==
    DOMAIN r = ConnFields /\ \A f \in ConnFields \ F : r[f] = x[f]

LEMMA SendKeeps ==
    ASSUME NEW x, NEW typ, NEW m, DOMAIN x = ConnFields
    PROVE  /\ Keeps(Send(x, typ, m), x, {"sendBuf"})
           /\ Send(x, typ, m).sendBuf =
                Append(x.sendBuf, [typ |-> typ, key |-> x.out, msg |-> m])
  BY DEF Send, Keeps, ConnFields

LEMMA HashedKeeps ==
    ASSUME NEW x, NEW m, DOMAIN x = ConnFields
    PROVE  /\ Keeps(Hashed(x, m), x, {"transcript"})
           /\ Hashed(x, m).transcript = Append(x.transcript, Digest(m))
  BY DEF Hashed, Keeps, ConnFields

LEMMA SayKeeps ==
    ASSUME NEW x, NEW m, DOMAIN x = ConnFields
    PROVE  /\ Keeps(Say(x, m), x, {"transcript", "sendBuf"})
           /\ Say(x, m).transcript = Append(x.transcript, Digest(m))
           /\ Say(x, m).sendBuf = Append(x.sendBuf, [typ |-> "handshake",
                                             key |-> x.out, msg |-> m])
  <1> DEFINE h == Hashed(x, m)
  <1>1. /\ Keeps(h, x, {"transcript"})
        /\ h.transcript = Append(x.transcript, Digest(m))
    BY HashedKeeps
  <1> HIDE DEF h
  <1>2. /\ Keeps(Send(h, "handshake", m), h, {"sendBuf"})
        /\ Send(h, "handshake", m).sendBuf =
             Append(h.sendBuf, [typ |-> "handshake", key |-> h.out, msg |-> m])
    BY <1>1, SendKeeps DEF Keeps
  <1>3. Say(x, m) = Send(h, "handshake", m)
    BY DEF Say, h
  <1> QED
    BY <1>1, <1>2, <1>3 DEF Keeps, ConnFields

LEMMA CCSKeeps ==
    ASSUME NEW x, DOMAIN x = ConnFields
    PROVE  /\ Keeps(sendDummyChangeCipherSpec(x), x, {"ccs", "sendBuf"})
           /\ \/ sendDummyChangeCipherSpec(x).sendBuf = x.sendBuf
              \/ sendDummyChangeCipherSpec(x).sendBuf =
                   Append(x.sendBuf, [typ |-> "ccs", key |-> x.out, msg |-> None])
  <1>1. CASE x.ccs
    BY <1>1 DEF sendDummyChangeCipherSpec, Keeps
  <1>2. CASE ~x.ccs
    BY <1>2 DEF sendDummyChangeCipherSpec, Send, Keeps, ConnFields
  <1> QED
    BY <1>1, <1>2

LEMMA ReturnKeeps ==
    ASSUME NEW x, NEW err, DOMAIN x = ConnFields
    PROVE  /\ Keeps(Return(x, err), x, {"pc", "err", "buffering"})
           /\ Return(x, err).pc = "failed"
  BY DEF Return, Keeps, ConnFields

\* The client says something, but no Finished.
LEMMA MuteWrites ==
    ASSUME NEW x, NEW r, NEW rec, Mute(x), DOMAIN r = ConnFields,
           IsSeq(r.transcript), r.sendBuf = Append(x.sendBuf, rec),
           ~IsFinished(rec)
    PROVE  Mute(r)
  <1> DEFINE b == x.sendBuf
  <1>1. IsSeq(b)
    BY DEF Mute
  <1> HIDE DEF b
  <1>2. /\ IsSeq(Append(b, rec)) /\ DOMAIN b = 1 .. Len(b) /\ Len(b) \in Nat
        /\ DOMAIN Append(b, rec) = 1 .. (Len(b) + 1)
        /\ Append(b, rec)[Len(b) + 1] = rec
        /\ \A i \in 1 .. Len(b) : Append(b, rec)[i] = b[i]
    BY <1>1, AppendSeq
  <1>3. r.sendBuf = Append(b, rec)
    BY DEF b
  <1>4. \A i \in 1 .. Len(b) : ~IsFinished(b[i])
    BY <1>2 DEF Mute, b
  <1>5. ASSUME NEW i \in DOMAIN r.sendBuf
        PROVE  ~IsFinished(r.sendBuf[i])
    <2>1. CASE i = Len(b) + 1
      BY <1>2, <1>3, <2>1
    <2>2. CASE i # Len(b) + 1
      BY <1>2, <1>3, <1>4, <2>2
    <2> QED
      BY <2>1, <2>2
  <1> QED
    BY <1>2, <1>3, <1>5 DEF Mute

LEMMA MuteKeeps ==
    ASSUME NEW x, NEW r, NEW F, Mute(x), Keeps(r, x, F),
           "sendBuf" \notin F, IsSeq(r.transcript)
    PROVE  Mute(r)
  BY DEF Mute, Keeps, ConnFields

LEMMA MuteSays ==
    ASSUME NEW x, NEW m, Mute(x), m.type # "finished"
    PROVE  Mute(Say(x, m))
  <1> DEFINE r == Say(x, m)
             rec == [typ |-> "handshake", key |-> x.out, msg |-> m]
  <1>1. /\ DOMAIN r = ConnFields /\ r.transcript = Append(x.transcript, Digest(m))
        /\ r.sendBuf = Append(x.sendBuf, rec)
    BY SayKeeps DEF Mute, Keeps
  <1>2. IsSeq(Append(x.transcript, Digest(m)))
    BY AppendSeq DEF Mute
  <1>3. ~IsFinished(rec)
    BY DEF IsFinished
  <1> HIDE DEF r, rec
  <1>4. Mute(r)
    BY <1>1, <1>2, <1>3, MuteWrites
  <1> QED
    BY <1>4 DEF r

LEMMA MuteCCS ==
    ASSUME NEW x, Mute(x)
    PROVE  Mute(sendDummyChangeCipherSpec(x))
  <1> DEFINE r == sendDummyChangeCipherSpec(x)
             rec == [typ |-> "ccs", key |-> x.out, msg |-> None]
  <1>1. /\ DOMAIN r = ConnFields /\ r.transcript = x.transcript
        /\ r.sendBuf = x.sendBuf \/ r.sendBuf = Append(x.sendBuf, rec)
    BY CCSKeeps DEF Mute, Keeps, ConnFields
  <1>2. ~IsFinished(rec)
    BY DEF IsFinished
  <1> HIDE DEF r, rec
  <1>3. CASE r.sendBuf = x.sendBuf
    BY <1>1, <1>3 DEF Mute, r
  <1>4. CASE r.sendBuf = Append(x.sendBuf, rec)
    <2>1. Mute(r)
      BY <1>1, <1>2, <1>4, MuteWrites DEF Mute
    <2> QED
      BY <2>1 DEF r
  <1> QED
    BY <1>1, <1>3, <1>4 DEF r

\* A handshake that fails, and a message that is not what it should be.
LEMMA MuteFails ==
    ASSUME NEW x, Mute(x)
    PROVE  /\ \A err : ClientState(Return(x, err)) /\ Return(x, err).pc = "failed"
           /\ \A a : ClientState(Alert(x, a)) /\ Alert(x, a).pc = "failed"
  <1>1. ASSUME NEW y, Mute(y), NEW err
        PROVE  ClientState(Return(y, err)) /\ Return(y, err).pc = "failed"
    <2> DEFINE r == Return(y, err)
    <2>1. Keeps(r, y, {"pc", "err", "buffering"}) /\ r.pc = "failed"
      BY <1>1, ReturnKeeps DEF Mute
    <2> HIDE DEF r
    <2>2. Mute(r)
      BY <1>1, <2>1 DEF Mute, Keeps, ConnFields
    <2>3. ClientState(r)
      BY <2>1, <2>2 DEF ClientState
    <2> QED
      BY <2>1, <2>3 DEF r
  <1>2. ASSUME NEW a PROVE Mute(Send(x, "alert", [type |-> a]))
    <2> DEFINE r == Send(x, "alert", [type |-> a])
               rec == [typ |-> "alert", key |-> x.out, msg |-> [type |-> a]]
    <2>1. /\ DOMAIN r = ConnFields /\ r.transcript = x.transcript
          /\ r.sendBuf = Append(x.sendBuf, rec)
      BY SendKeeps DEF Mute, Keeps, ConnFields
    <2>2. ~IsFinished(rec)
      BY DEF IsFinished
    <2> HIDE DEF r, rec
    <2>3. Mute(r)
      BY <2>1, <2>2, MuteWrites DEF Mute
    <2> QED
      BY <2>3 DEF r
  <1> QED
    BY <1>1, <1>2 DEF Alert

LEMMA ClientReceives ==
    ASSUME NEW x, NEW rec, NEW types, Mute(x)
    PROVE  \/ Receive(x, rec, types) = x /\ rec.msg.type \in types
           \/ /\ ClientState(Receive(x, rec, types))
              /\ Receive(x, rec, types).pc = "failed"
  <1> DEFINE o == Opened(x, rec)
             r == Receive(x, rec, types)
  <1>1. o = x \/ (ClientState(o) /\ o.pc = "failed")
    <2>1. \/ o = x \/ o = Return(x, "remote")
          \/ o = Alert(x, "unexpected_message") \/ o = Alert(x, "bad_record_mac")
      BY DEF Opened
    <2>2. /\ ClientState(Return(x, "remote")) /\ Return(x, "remote").pc = "failed"
          /\ \A a : ClientState(Alert(x, a)) /\ Alert(x, a).pc = "failed"
      BY MuteFails
    <2> HIDE DEF o
    <2> QED
      BY <2>1, <2>2
  <1>2. Mute(o)
    BY <1>1 DEF ClientState
  <1>3. \A a : ClientState(Alert(o, a)) /\ Alert(o, a).pc = "failed"
    BY <1>2, MuteFails
  <1>4. \/ o.pc = "failed" /\ r = o
        \/ o.pc # "failed" /\ r = o /\ rec.msg.type \in types
        \/ r = Alert(o, "unexpected_message")
    BY DEF Receive, Then
  <1> HIDE DEF o, r
  <1>5. CASE o.pc = "failed" /\ r = o
    <2>1. CASE ClientState(o) /\ o.pc = "failed"
      BY <1>5, <2>1 DEF r
    <2>2. CASE o = x /\ ~ClientState(o)
      <3>1. ClientState(x)
        BY <1>2, <1>5, <2>2 DEF ClientState
      <3> QED
        BY <2>2, <3>1
    <2> QED
      BY <1>1, <1>5, <2>1, <2>2 DEF r
  <1>6. CASE o.pc # "failed" /\ r = o /\ rec.msg.type \in types
    BY <1>1, <1>6 DEF r
  <1>7. CASE r = Alert(o, "unexpected_message")
    BY <1>3, <1>7 DEF r
  <1> QED
    BY <1>4, <1>5, <1>6, <1>7

-----------------------------------------------------------------------------
(* What later messages leave as it is.                                     *)

\* What r has settled with its keys is what p has.
Alike(r, p) ==
    /\ r.secret = p.secret /\ r.suite = p.suite /\ r.usingPSK = p.usingPSK
    /\ r.proto = p.proto

LEMMA DeriveParts ==
    \A x, label, t : /\ deriveSecret(x, label, t).secret = x
                     /\ deriveSecret(x, label, t).transcript = t
  BY DEF deriveSecret

LEMMA KeyParts ==
    \A x, t : /\ clientKey(x, t).secret = x /\ clientKey(x, t).transcript = t
              /\ clientAppKey(x, t).transcript = t
  <1> TAKE x, t
  <1>1. clientKey(x, t).secret = x
    BY DeriveParts, Zenon DEF clientKey
  <1>2. clientKey(x, t).transcript = t
    BY DeriveParts, Zenon DEF clientKey
  <1>3. clientAppKey(x, t).transcript = t
    BY DeriveParts, Zenon DEF clientAppKey
  <1> QED
    BY <1>1, <1>2, <1>3

LEMMA UnfinishedOn ==
    ASSUME NEW t, NEW d, IsSeq(t), Unfinished(t), d.type # "finished"
    PROVE  Unfinished(Append(t, d))
  <1>1. /\ Len(t) \in Nat /\ DOMAIN t = 1 .. Len(t)
        /\ DOMAIN Append(t, d) = 1 .. (Len(t) + 1)
        /\ Append(t, d)[Len(t) + 1] = d
        /\ \A i \in 1 .. Len(t) : Append(t, d)[i] = t[i]
    BY AppendSeq
  <1>2. ASSUME NEW i \in 1 .. (Len(t) + 1)
        PROVE  Append(t, d)[i].type # "finished"
    <2>1. CASE i = Len(t) + 1
      BY <1>1, <2>1
    <2>2. CASE i # Len(t) + 1
      BY <1>1, <2>2 DEF Unfinished
    <2> QED
      BY <2>1, <2>2
  <1> QED
    BY <1>1, <1>2 DEF Unfinished

LEMMA PrefixOn ==
    ASSUME NEW h, NEW t, NEW d, Prefix(h, t)
    PROVE  /\ Prefix(h, Append(t, d)) /\ Len(h) \in Nat /\ Len(t) \in Nat
           /\ Len(h) <= Len(t) /\ Len(Append(t, d)) = Len(t) + 1
           /\ \A i \in 1 .. Len(t) : Append(t, d)[i] = t[i]
  <1>1. /\ IsSeq(Append(t, d)) /\ Len(t) \in Nat /\ Len(Append(t, d)) = Len(t) + 1
        /\ \A i \in 1 .. Len(t) : Append(t, d)[i] = t[i]
    BY AppendSeq DEF Prefix
  <1>2. Len(h) \in Nat
    BY AppendSeq DEF Prefix
  <1> QED
    BY <1>1, <1>2 DEF Prefix

LEMMA PrefixSelf ==
    ASSUME NEW t, IsSeq(t) PROVE Prefix(t, t)
  <1>1. Len(t) \in Nat
    BY AppendSeq
  <1> QED
    BY <1>1 DEF Prefix

LEMMA KeyedOn ==
    ASSUME NEW p, NEW r, NEW key, NEW t, NEW d, Keyed(p, key, t), Alike(r, p)
    PROVE  Keyed(r, key, t) /\ Keyed(r, key, Append(t, d))
  <1>1. Prefix(key.transcript, Append(t, d))
    BY PrefixOn DEF Keyed
  <1> QED
    BY <1>1 DEF Keyed, Alike

LEMMA ExtendedOn ==
    ASSUME NEW p, NEW r, NEW key, NEW t, NEW d, Keyed(p, key, t),
           Extended(p, key, t), Alike(r, p)
    PROVE  Extended(r, key, t) /\ Extended(r, key, Append(t, d))
  <1> DEFINE k == Len(key.transcript)
  <1>1. /\ k \in Nat /\ Len(t) \in Nat /\ Len(Append(t, d)) = Len(t) + 1
        /\ \A i \in 1 .. Len(t) : Append(t, d)[i] = t[i]
    BY PrefixOn DEF Keyed
  <1>2. k < Len(t) /\ t[k + 1].alpn = r.proto
    BY DEF Extended, Alike
  <1> HIDE DEF k
  <1>3. k < Len(Append(t, d)) /\ Append(t, d)[k + 1].alpn = r.proto
    BY <1>1, <1>2
  <1> QED
    BY <1>2, <1>3 DEF Extended, k

LEMMA SettledOn ==
    ASSUME NEW p, NEW r, NEW key, NEW app, NEW other, NEW t, NEW d,
           Settled(p, key, app, other, t), Alike(r, p)
    PROVE  /\ Settled(r, key, app, other, t)
           /\ Settled(r, key, app, other, Append(t, d))
  <1>1. /\ Keyed(r, key, t) /\ Keyed(r, key, Append(t, d))
        /\ Extended(r, key, t) /\ Extended(r, key, Append(t, d))
    BY KeyedOn, ExtendedOn DEF Settled
  <1>2. Closed(r, app, other, t)
    BY DEF Settled, Closed, Alike
  <1>3. Closes(app.transcript, Append(t, d))
    BY <1>2, PrefixOn DEF Closed, Closes
  <1> QED
    BY <1>1, <1>2, <1>3 DEF Settled, Closed

\* The server's Finished completes the application keys' transcript.
LEMMA NowSettled ==
    ASSUME NEW p, NEW r, NEW key, NEW t, Keyed(p, key, t), Extended(p, key, t),
           Unfinished(t), Alike(r, p), NEW d, d.type = "finished", NEW u,
           u = Append(t, d)
    PROVE  Settled(r, key, clientAppKey(p.secret, u),
                      serverAppKey(p.secret, u), u)
  <1> DEFINE app == clientAppKey(p.secret, u)
             other == serverAppKey(p.secret, u)
  <1>1. Keyed(r, key, u) /\ Extended(r, key, u)
    BY KeyedOn, ExtendedOn
  <1>2. IsSeq(t)
    BY DEF Keyed, Prefix
  <1>3. /\ IsSeq(u) /\ Len(t) \in Nat /\ DOMAIN t = 1 .. Len(t)
        /\ Len(u) = Len(t) + 1 /\ u[Len(t) + 1] = d
        /\ \A i \in 1 .. Len(t) : u[i] = t[i]
    BY <1>2, AppendSeq
  <1>4. Closes(u, u)
    <2>1. Prefix(u, u)
      BY <1>3, PrefixSelf
    <2>2. Len(u) > 0 /\ u[Len(u)].type = "finished"
      BY <1>3
    <2>3. \A i \in 1 .. Len(u) - 1 : u[i].type # "finished"
      BY <1>3 DEF Unfinished
    <2> QED
      BY <2>1, <2>2, <2>3 DEF Closes
  <1>5. app.transcript = u
    BY KeyParts
  <1>6. Closed(r, app, other, u)
    BY <1>4, <1>5 DEF Closed, Alike
  <1> QED
    BY <1>1, <1>6 DEF Settled

\* A transcript has one first Finished.
LEMMA OneClose ==
    ASSUME NEW a, NEW b, NEW t, Closes(a, t), Closes(b, t)
    PROVE  a = b
  <1>1. /\ IsSeq(a) /\ IsSeq(b) /\ Len(a) \in Nat /\ Len(b) \in Nat
        /\ Len(a) > 0 /\ Len(b) > 0
        /\ \A i \in 1 .. Len(a) : t[i] = a[i]
        /\ \A i \in 1 .. Len(b) : t[i] = b[i]
    BY AppendSeq DEF Closes, Prefix
  <1>2. Len(a) <= Len(b)
    <2>1. ASSUME Len(b) < Len(a) PROVE FALSE
      <3>1. Len(b) \in 1 .. Len(a) - 1 /\ Len(b) \in 1 .. Len(a)
        BY <1>1, <2>1
      <3>2. a[Len(b)] = b[Len(b)]
        BY <1>1, <3>1
      <3> QED
        BY <3>1, <3>2 DEF Closes
    <2> QED
      BY <1>1, <2>1
  <1>3. Len(b) <= Len(a)
    <2>1. ASSUME Len(a) < Len(b) PROVE FALSE
      <3>1. Len(a) \in 1 .. Len(b) - 1 /\ Len(a) \in 1 .. Len(b)
        BY <1>1, <2>1
      <3>2. b[Len(a)] = a[Len(a)]
        BY <1>1, <3>1
      <3> QED
        BY <3>1, <3>2 DEF Closes
    <2> QED
      BY <1>1, <2>1
  <1>4. Len(a) = Len(b) /\ \A i \in 1 .. Len(a) : a[i] = b[i]
    BY <1>1, <1>2, <1>3
  <1>5. PICK A : a \in Seq(A)
    BY <1>1 DEF IsSeq
  <1>6. PICK B : b \in Seq(B)
    BY <1>1 DEF IsSeq
  <1> DEFINE U == A \cup B
  <1>7. a \in Seq(U) /\ b \in Seq(U)
    BY <1>5, <1>6, SeqMonotonic, A \subseteq U, B \subseteq U
  <1> HIDE DEF U
  <1> QED
    BY <1>4, <1>7, SeqEqual

\* Two ends of one Finished agree.
LEMMA OneFinished ==
    ASSUME NEW p, NEW q, NEW v, NEW app1, NEW other1, NEW app2, NEW other2,
           Completed(p, v, app1, other1), Completed(q, v, app2, other2)
    PROVE  /\ p.suite = q.suite /\ p.proto = q.proto /\ p.usingPSK = q.usingPSK
           /\ p.secret = q.secret /\ p.transcript = q.transcript
           /\ app1 = app2 /\ other1 = other2
  <1> DEFINE k == v.key
             t == v.transcript
  <1>1. /\ k = clientKey(p.secret, k.transcript)
        /\ k = clientKey(q.secret, k.transcript)
    BY DEF Completed, Settled, Keyed
  <1>2. p.secret = q.secret
    BY <1>1, KeyParts
  <1>3. p.suite = q.suite /\ p.usingPSK = q.usingPSK
    BY <1>2 DEF Completed, Settled, Keyed
  <1>4. p.proto = q.proto
    BY DEF Completed, Settled, Extended
  <1>5. p.transcript = q.transcript
    BY DEF Completed
  <1>6. app1.transcript = app2.transcript
    BY OneClose DEF Completed, Settled, Closed
  <1>7. app1 = app2 /\ other1 = other2
    BY <1>2, <1>6 DEF Completed, Settled, Closed
  <1> QED
    BY <1>2, <1>3, <1>4, <1>5, <1>7


-----------------------------------------------------------------------------
(* The client's steps.                                                     *)

LEMMA DigestType ==
    ASSUME NEW m, m.type # "finished" PROVE Digest(m).type # "finished"
  <1>1. CASE m.type = "certificateVerify"
    BY <1>1 DEF Digest
  <1>2. CASE m.type # "certificateVerify"
    BY <1>2 DEF Digest
  <1> QED
    BY <1>1, <1>2

LEMMA DigestSelf ==
    ASSUME NEW m, m.type \notin {"finished", "certificateVerify"}
    PROVE  Digest(m) = m
  BY DEF Digest

LEMMA DigestFinished ==
    ASSUME NEW m, m.type = "finished" PROVE Digest(m) = [type |-> "finished"]
  BY DEF Digest

\* One more message, hashed.
LEMMA UnfinishedHashed ==
    ASSUME NEW t, NEW m, IsSeq(t), Unfinished(t), m.type # "finished"
    PROVE  IsSeq(Append(t, Digest(m))) /\ Unfinished(Append(t, Digest(m)))
  <1>1. Digest(m).type # "finished"
    BY DigestType
  <1> DEFINE d == Digest(m)
  <1> HIDE DEF d
  <1>2. IsSeq(Append(t, d))
    BY AppendSeq
  <1>3. Unfinished(Append(t, d))
    BY <1>1, UnfinishedOn DEF d
  <1> QED
    BY <1>2, <1>3 DEF d

\* A connection that differs from x where ClientState does not look.
LEMMA ClientStateSame ==
    ASSUME NEW x, NEW r, ClientState(x), Keeps(r, x, {"sendBuf", "cache"}),
           r.sendBuf \in {x.sendBuf, <<>>}
    PROVE  ClientState(r)
  <1>1. /\ r.pc = x.pc /\ r.hello = x.hello /\ r.serverHello = x.serverHello
        /\ r.usingPSK = x.usingPSK /\ r.transcript = x.transcript
        /\ r.out = x.out /\ r.in = x.in /\ r.app = x.app
        /\ r.secret = x.secret /\ r.suite = x.suite /\ r.proto = x.proto
        /\ DOMAIN r = ConnFields
    BY DEF Keeps, ConnFields
  <1>2. Mute(r)
    <2>1. Mute(x)
      BY DEF ClientState
    <2>2. IsSeq(<<>>) /\ DOMAIN <<>> = {}
      BY ShortSeq
    <2> QED
      BY <1>1, <2>1, <2>2 DEF Mute
  <1>3. Alike(r, x)
    BY <1>1 DEF Alike
  <1>4. Keyed(x, x.out, x.transcript) => Keyed(r, r.out, r.transcript)
    BY <1>1, <1>3, KeyedOn
  <1>5. Keyed(x, x.out, x.transcript) /\ Extended(x, x.out, x.transcript)
          => Extended(r, r.out, r.transcript)
    BY <1>1, <1>3, ExtendedOn
  <1>6. Settled(x, x.out, x.app, x.in, x.transcript)
          => Settled(r, r.out, r.app, r.in, r.transcript)
    BY <1>1, <1>3, SettledOn
  <1> QED
    BY <1>1, <1>2, <1>4, <1>5, <1>6 DEF ClientState

\* A step of the client that does not complete its handshake.
ClientMoves ==
    /\ c.pc # "done"
    /\ \E p : ClientState(p) /\ p.pc # "done" /\ ClientBecomes(p)

LEMMA ClientOn ==
    ASSUME WireOK(c, toServer), ClientMoves
    PROVE  ClientState(c') /\ WireOK(c', toServer')
  <1>1. PICK p : ClientState(p) /\ p.pc # "done" /\ ClientBecomes(p)
    BY DEF ClientMoves
  <1>2. DOMAIN p = ConnFields /\ Mute(p)
    BY <1>1 DEF ClientState, Mute
  <1>3. Keeps(c', p, {"sendBuf", "cache"}) /\ c'.sendBuf = Kept(p)
    BY <1>1, <1>2 DEF ClientBecomes, Keeps, ConnFields
  <1>4. ClientState(c')
    BY <1>1, <1>3, ClientStateSame DEF Kept
  <1>5. toServer' = toServer \o Passed(p)
    BY <1>1 DEF ClientBecomes
  <1>6. IsSeq(Passed(p)) /\ \A i \in DOMAIN Passed(p) : ~IsFinished(Passed(p)[i])
    BY <1>2, ShortSeq DEF Passed, Mute
  <1>7. IsSeq(toServer) /\ \A i \in DOMAIN toServer : ~IsFinished(toServer[i])
    BY DEF WireOK, ClientMoves
  <1> DEFINE ts == toServer \o Passed(p)
  <1>8. IsSeq(ts) /\ \A i \in DOMAIN ts : ~IsFinished(ts[i])
    <2> DEFINE u == Passed(p)
    <2>1. IsSeq(u) /\ \A i \in DOMAIN u : ~IsFinished(u[i])
      BY <1>6
    <2> HIDE DEF u
    <2>2. Joins(toServer \o u, toServer, u)
      BY <1>7, <2>1, ConcatSeq
    <2>3. ts = toServer \o u
      BY DEF u
    <2> HIDE DEF ts
    <2> QED
      BY <1>7, <2>1, <2>2, <2>3 DEF Joins
  <1> HIDE DEF ts
  <1>9. WireOK(c', ts)
    BY <1>8 DEF WireOK
  <1> QED
    BY <1>4, <1>5, <1>9 DEF ts

\* The hello that loadSession makes is a hello.
LEMMA OffersHello ==
    ASSUME NEW x PROVE IsHello(loadSession(makeClientHello, x))
  <1> DEFINE h == makeClientHello
             m == [h EXCEPT !.pskModes = conf.caching]
             o == [m EXCEPT !.psk = x.ticket]
  <1>1. IsHello(h)
    BY DEF makeClientHello, IsHello
  <1> HIDE DEF h
  <1>2. IsHello(m)
    BY <1>1 DEF IsHello
  <1> HIDE DEF m
  <1>3. IsHello(o)
    BY <1>2 DEF IsHello
  <1> HIDE DEF o
  <1>4. \A b : /\ IsHello([m EXCEPT !.sessionTicket = b])
               /\ IsHello([o EXCEPT !.binder = b])
    BY <1>2, <1>3 DEF IsHello
  <1>5. \/ loadSession(h, x) = m
        \/ loadSession(h, x) = [m EXCEPT !.sessionTicket = x.ticket]
        \/ \E b : loadSession(h, x) = [o EXCEPT !.binder = b]
    BY DEF loadSession, m, o
  <1>6. IsHello(loadSession(h, x))
    BY <1>2, <1>4, <1>5
  <1> QED
    BY <1>6 DEF h

LEMMA RetriesHello ==
    ASSUME NEW p, NEW h, IsHello(h) PROVE IsHello(RetriedPSK(p, h))
  <1>1. \A b : /\ IsHello([h EXCEPT !.binder = b])
               /\ IsHello([h EXCEPT !.psk = None, !.binder = b])
    BY DEF IsHello
  <1>2. \/ RetriedPSK(p, h) = h
        \/ \E b : RetriedPSK(p, h) = [h EXCEPT !.binder = b]
        \/ RetriedPSK(p, h) = [h EXCEPT !.psk = None, !.binder = None]
    BY DEF RetriedPSK
  <1> QED
    BY <1>1, <1>2

LEMMA ClientFails ==
    ASSUME c.pc # "done", NEW p, ClientState(p), p.pc = "failed",
           ClientBecomes(p)
    PROVE  ClientMoves
  BY DEF ClientMoves

LEMMA ClientHelloMoves ==
    ASSUME ClientState(c), ClientHello PROVE ClientMoves
  <1> DEFINE hello == loadSession(makeClientHello, UsableSession)
             p == [c EXCEPT !.pc = "serverHello", !.hello = hello,
                            !.session = UsableSession, !.cache = UsableSession]
             r == Send(p, "handshake", hello)
  <1>1. ClientBecomes(r) /\ c.pc = "clientHandshake"
    BY DEF ClientHello, ClientDoes
  <1>2. Mute(c) /\ Unfinished(c.transcript)
    BY <1>1 DEF ClientState
  <1>3. IsHello(hello)
    BY OffersHello
  <1> HIDE DEF hello
  <1>4. /\ DOMAIN p = ConnFields /\ p.transcript = c.transcript
        /\ p.sendBuf = c.sendBuf /\ p.pc = "serverHello" /\ p.hello = hello
    BY <1>2 DEF Mute, ConnFields
  <1> HIDE DEF p
  <1> DEFINE rec == [typ |-> "handshake", key |-> p.out, msg |-> hello]
  <1>5. Keeps(r, p, {"sendBuf"}) /\ r.sendBuf = Append(p.sendBuf, rec)
    BY <1>4, SendKeeps
  <1>6. ~IsFinished(rec)
    BY <1>3 DEF IsFinished, IsHello
  <1> HIDE DEF r, rec
  <1>7. /\ DOMAIN r = ConnFields /\ r.transcript = c.transcript
        /\ r.pc = "serverHello" /\ r.hello = hello
    BY <1>4, <1>5 DEF Keeps, ConnFields
  <1>8. Mute(r)
    BY <1>2, <1>4, <1>5, <1>6, <1>7, MuteWrites DEF Mute
  <1>9. ClientState(r)
    BY <1>2, <1>3, <1>7, <1>8 DEF ClientState
  <1> QED
    BY <1>1, <1>7, <1>9 DEF ClientMoves

\* checkServerHelloOrHRR passes the message on, or fails.
Checked(q, p, sh) ==
    \/ ClientState(q) /\ q.pc = "failed"
    \/ /\ Keeps(q, p, {"suite", "serverHello", "pc"}) /\ q.serverHello = sh
       /\ q.pc \in {"helloRetryRequest", "processServerHello"}
       /\ p.pc # "serverHello" => q.pc = "processServerHello"

LEMMA ClientChecks ==
    ASSUME NEW p, NEW sh, Mute(p)
    PROVE  Checked(checkServerHelloOrHRR(p, sh), p, sh)
  <1> DEFINE next == IF sh.hrr /\ p.pc = "serverHello"
                     THEN "helloRetryRequest" ELSE "processServerHello"
             q == [p EXCEPT !.suite = sh.suite, !.serverHello = sh, !.pc = next]
             a == Alert(p, "illegal_parameter")
             r == checkServerHelloOrHRR(p, sh)
  <1>1. ClientState(a) /\ a.pc = "failed"
    BY MuteFails
  <1>2. r = a \/ r = q
    BY DEF checkServerHelloOrHRR
  <1>3. /\ next \in {"helloRetryRequest", "processServerHello"}
        /\ p.pc # "serverHello" => next = "processServerHello"
    OBVIOUS
  <1> HIDE DEF next, a
  <1>4. Keeps(q, p, {"suite", "serverHello", "pc"}) /\ q.serverHello = sh
        /\ q.pc = next
    BY DEF Keeps, Mute, ConnFields
  <1> HIDE DEF q, r
  <1>5. Checked(r, p, sh)
    BY <1>1, <1>2, <1>3, <1>4 DEF Checked
  <1> QED
    BY <1>5 DEF r

LEMMA ReadServerHelloMoves ==
    ASSUME ClientState(c), ReadServerHello PROVE ClientMoves
  <1> DEFINE rec == Head(toClient)
             r == Receive(c, rec, {"serverHello"})
             q == checkServerHelloOrHRR(c, rec.msg)
             h == Hashed(q, c.hello)
  <1>1. c.pc = "serverHello" /\ \/ ClientBecomes(r) /\ r.pc = "failed"
                                \/ r.pc # "failed" /\
                                     ClientBecomes(Then(checkServerHelloOrHRR(r, rec.msg),
                                        LAMBDA x : Hashed(x, c.hello)))
    BY DEF ReadServerHello, ClientReads, Then
  <1>2. Mute(c) /\ Unfinished(c.transcript) /\ IsHello(c.hello)
    BY <1>1 DEF ClientState
  <1>3. \/ r = c /\ rec.msg.type \in {"serverHello"}
        \/ ClientState(r) /\ r.pc = "failed"
    BY <1>2, ClientReceives
  <1>4. CASE ClientState(r) /\ r.pc = "failed"
    BY <1>1, <1>4, ClientFails
  <1>5. CASE r = c /\ rec.msg.type \in {"serverHello"}
    <2>1. \/ q.pc = "failed" /\ ClientBecomes(q)
          \/ q.pc # "failed" /\ ClientBecomes(h)
      BY <1>1, <1>5 DEF Then
    <2>2. Checked(q, c, rec.msg)
      BY <1>2, ClientChecks
    <2> HIDE DEF q
    <2>3. CASE ClientState(q) /\ q.pc = "failed"
      BY <1>1, <2>1, <2>3, ClientFails
    <2>4. CASE ~(ClientState(q) /\ q.pc = "failed")
      <3>1. /\ Keeps(q, c, {"suite", "serverHello", "pc"})
            /\ q.serverHello = rec.msg
            /\ q.pc \in {"helloRetryRequest", "processServerHello"}
        BY <2>2, <2>4 DEF Checked
      <3>2. /\ Keeps(h, q, {"transcript"})
            /\ h.transcript = Append(q.transcript, Digest(c.hello))
        BY <3>1, HashedKeeps DEF Keeps
      <3> HIDE DEF h
      <3>3. /\ h.pc = q.pc /\ h.serverHello = rec.msg /\ h.hello = c.hello
            /\ h.transcript = Append(c.transcript, Digest(c.hello))
            /\ Keeps(h, c, {"transcript", "suite", "serverHello", "pc"})
        BY <3>1, <3>2 DEF Keeps, ConnFields
      <3>4. IsSeq(h.transcript) /\ Unfinished(h.transcript)
        BY <1>2, <3>3, UnfinishedHashed DEF Mute, IsHello
      <3>5. Mute(h)
        BY <1>2, <3>3, <3>4, MuteKeeps
      <3>6. ClientState(h)
        BY <1>2, <1>5, <3>1, <3>3, <3>4, <3>5 DEF ClientState
      <3>7. ClientBecomes(h) /\ h.pc # "done"
        BY <2>1, <3>1, <3>3
      <3> QED
        BY <1>1, <3>6, <3>7 DEF ClientMoves
    <2> QED
      BY <2>3, <2>4
  <1> QED
    BY <1>3, <1>4, <1>5

LEMMA RetryMoves ==
    ASSUME ClientState(c), processHelloRetryRequest PROVE ClientMoves
  <1> DEFINE d == sendDummyChangeCipherSpec(c)
             t == <<messageHash(c.hello), c.serverHello>>
             p == [d EXCEPT !.transcript = t]
             h == [c.hello EXCEPT !.share = [group |-> c.serverHello.group, n |-> 2]]
             m == RetriedPSK(p, h)
             w == Say(p, m)
             r == [w EXCEPT !.hello = m, !.pc = "secondServerHello"]
             a == Alert(p, "illegal_parameter")
  <1>1. c.pc = "helloRetryRequest" /\ (ClientBecomes(a) \/ ClientBecomes(r))
    BY DEF processHelloRetryRequest, ClientDoes
  <1>2. Mute(c) /\ IsHello(c.hello) /\ c.serverHello.type = "serverHello"
    BY <1>1 DEF ClientState
  <1>3. IsHello(m)
    <2>1. IsHello(h)
      BY <1>2 DEF IsHello
    <2> QED
      BY <2>1, RetriesHello
  <1>4. IsSeq(t) /\ Unfinished(t)
    <2>1. /\ IsSeq(t) /\ DOMAIN t = {1, 2} /\ t[1] = messageHash(c.hello)
          /\ t[2] = c.serverHello
      BY ShortSeq
    <2>2. messageHash(c.hello).type = "messageHash"
      BY DEF messageHash
    <2> HIDE DEF t
    <2> QED
      BY <1>2, <2>1, <2>2 DEF Unfinished
  <1> HIDE DEF m, t
  <1>5. Mute(d)
    BY <1>2, MuteCCS
  <1> HIDE DEF d
  <1>6. p.transcript = t /\ p.pc = d.pc /\ Keeps(p, d, {"transcript"})
    BY <1>5 DEF Mute, Keeps, ConnFields
  <1>7. Mute(p)
    BY <1>4, <1>5, <1>6, MuteKeeps
  <1> HIDE DEF p
  <1>8. ClientState(a) /\ a.pc = "failed"
    BY <1>7, MuteFails
  <1>9. m.type # "finished"
    BY <1>3 DEF IsHello
  <1>10. Mute(w)
    BY <1>7, <1>9, MuteSays
  <1>11. w.transcript = Append(t, Digest(m))
    BY <1>6, <1>7, SayKeeps DEF Mute
  <1> HIDE DEF w, a
  <1>12. /\ Keeps(r, w, {"hello", "pc"}) /\ r.transcript = w.transcript
         /\ r.pc = "secondServerHello"
    BY <1>10 DEF Mute, Keeps, ConnFields
  <1> HIDE DEF r
  <1>13. IsSeq(r.transcript) /\ Unfinished(r.transcript)
    BY <1>4, <1>9, <1>11, <1>12, UnfinishedHashed
  <1>14. Mute(r)
    BY <1>10, <1>12, <1>13, MuteKeeps
  <1>15. ClientState(r)
    BY <1>12, <1>13, <1>14 DEF ClientState
  <1> QED
    BY <1>1, <1>8, <1>12, <1>15 DEF ClientMoves

LEMMA ReadSecondServerHelloMoves ==
    ASSUME ClientState(c), ReadSecondServerHello PROVE ClientMoves
  <1> DEFINE rec == Head(toClient)
             r == Receive(c, rec, {"serverHello"})
             q == checkServerHelloOrHRR(c, rec.msg)
  <1>1. /\ c.pc = "secondServerHello"
        /\ \/ ClientBecomes(r) /\ r.pc = "failed"
           \/ r.pc # "failed" /\ ClientBecomes(checkServerHelloOrHRR(r, rec.msg))
    BY DEF ReadSecondServerHello, ClientReads, Then
  <1>2. Mute(c) /\ Unfinished(c.transcript)
    BY <1>1 DEF ClientState
  <1>3. \/ r = c /\ rec.msg.type \in {"serverHello"}
        \/ ClientState(r) /\ r.pc = "failed"
    BY <1>2, ClientReceives
  <1>4. CASE ClientState(r) /\ r.pc = "failed"
    BY <1>1, <1>4, ClientFails
  <1>5. CASE r = c /\ rec.msg.type \in {"serverHello"}
    <2>1. ClientBecomes(q)
      BY <1>1, <1>5
    <2>2. Checked(q, c, rec.msg)
      BY <1>2, ClientChecks
    <2> HIDE DEF q
    <2>3. CASE ClientState(q) /\ q.pc = "failed"
      BY <1>1, <2>1, <2>3, ClientFails
    <2>4. CASE ~(ClientState(q) /\ q.pc = "failed")
      <3>1. /\ Keeps(q, c, {"suite", "serverHello", "pc"})
            /\ q.serverHello = rec.msg /\ q.pc = "processServerHello"
        BY <1>1, <2>2, <2>4 DEF Checked
      <3>2. q.transcript = c.transcript
        BY <3>1 DEF Keeps, ConnFields
      <3>3. Mute(q)
        BY <1>2, <3>1, <3>2, MuteKeeps DEF Mute
      <3>4. ClientState(q)
        BY <1>2, <1>5, <3>1, <3>2, <3>3 DEF ClientState
      <3> QED
        BY <1>1, <2>1, <3>1, <3>4 DEF ClientMoves
    <2> QED
      BY <2>3, <2>4
  <1> QED
    BY <1>3, <1>4, <1>5

LEMMA ProcessServerHelloMoves ==
    ASSUME ClientState(c), processServerHello PROVE ClientMoves
  <1> DEFINE sh == c.serverHello
             h == Hashed(c, sh)
             p == [h EXCEPT !.buffering = TRUE]
             d == sendDummyChangeCipherSpec(p)
             r == [d EXCEPT !.usingPSK = sh.psk,
                     !.peerCerts = IF sh.psk THEN "server" ELSE @,
                     !.pc = "establishHandshakeKeys"]
  <1>1. /\ c.pc = "processServerHello"
        /\ (\E a : ClientBecomes(Alert(p, a))) \/ ClientBecomes(r)
    BY DEF processServerHello, ClientDoes
  <1>2. Mute(c) /\ Unfinished(c.transcript) /\ sh.type = "serverHello"
    BY <1>1 DEF ClientState
  <1> HIDE DEF sh
  <1>3. Digest(sh) = sh
    BY <1>2, DigestSelf
  <1>4. Keeps(h, c, {"transcript"}) /\ h.transcript = Append(c.transcript, sh)
    BY <1>2, <1>3, HashedKeeps DEF Mute
  <1> HIDE DEF h
  <1>5. /\ Keeps(p, h, {"buffering"}) /\ p.transcript = h.transcript
    BY <1>4 DEF Keeps, ConnFields
  <1> HIDE DEF p
  <1>6. /\ IsSeq(h.transcript) /\ Unfinished(h.transcript)
        /\ Len(h.transcript) > 0 /\ h.transcript[Len(h.transcript)] = sh
    <2>1. /\ Len(c.transcript) \in Nat
          /\ Len(h.transcript) = Len(c.transcript) + 1
          /\ h.transcript[Len(c.transcript) + 1] = sh
      BY <1>2, <1>4, AppendSeq DEF Mute
    <2>2. IsSeq(h.transcript) /\ Unfinished(h.transcript)
      BY <1>2, <1>3, <1>4, UnfinishedHashed DEF Mute
    <2> QED
      BY <2>1, <2>2
  <1>7. Mute(p)
    <2>1. Mute(h)
      BY <1>2, <1>4, <1>6, MuteKeeps
    <2> QED
      BY <1>5, <1>6, <2>1, MuteKeeps
  <1>8. \A a : ClientState(Alert(p, a)) /\ Alert(p, a).pc = "failed"
    BY <1>7, MuteFails
  <1>9. Mute(d)
    BY <1>7, MuteCCS
  <1>10. d.transcript = p.transcript
    BY <1>7, CCSKeeps DEF Mute, Keeps, ConnFields
  <1> HIDE DEF d
  <1>11. /\ Keeps(r, d, {"usingPSK", "peerCerts", "pc"})
         /\ r.transcript = d.transcript
         /\ r.usingPSK = sh.psk /\ r.pc = "establishHandshakeKeys"
    BY <1>9 DEF Mute, Keeps, ConnFields
  <1> HIDE DEF r
  <1>12. Mute(r)
    BY <1>5, <1>6, <1>9, <1>10, <1>11, MuteKeeps
  <1>13. ClientState(r)
    BY <1>5, <1>6, <1>10, <1>11, <1>12 DEF ClientState
  <1> QED
    BY <1>1, <1>8, <1>11, <1>13 DEF ClientMoves

\* The keys both ends derive from a secret and a transcript.
ServerKey(secret, t) == deriveSecret(secret, "s hs traffic", t)

LEMMA EstablishMoves ==
    ASSUME ClientState(c), establishHandshakeKeys PROVE ClientMoves
  <1> DEFINE psk == IF c.usingPSK THEN c.session.secret ELSE None
             secret == HandshakeSecret(c.suite, psk, c.hello.share,
                                       c.serverHello.share)
             key == clientKey(secret, c.transcript)
             other == ServerKey(secret, c.transcript)
             r == [c EXCEPT !.secret = secret, !.out = key, !.in = other,
                            !.pc = "serverParameters"]
  <1>1. c.pc = "establishHandshakeKeys" /\ ClientBecomes(r)
    BY Zenon DEF establishHandshakeKeys, ClientDoes, clientKey, ServerKey
  <1>2. /\ Mute(c) /\ Unfinished(c.transcript) /\ Len(c.transcript) > 0
        /\ c.transcript[Len(c.transcript)].psk = c.usingPSK
    BY <1>1 DEF ClientState
  <1>3. secret.suite = c.suite
    BY DEF HandshakeSecret
  <1>4. key.transcript = c.transcript
    BY KeyParts
  <1>5. key = clientKey(secret, key.transcript)
    BY <1>4
  <1> HIDE DEF secret, key, other
  <1>6. /\ Keeps(r, c, {"secret", "out", "in", "pc"})
        /\ r.secret = secret /\ r.out = key /\ r.pc = "serverParameters"
        /\ r.transcript = c.transcript /\ r.suite = c.suite
        /\ r.usingPSK = c.usingPSK
    BY <1>2 DEF Mute, Keeps, ConnFields
  <1> HIDE DEF r
  <1>7. Mute(r)
    BY <1>2, <1>6, MuteKeeps DEF Mute
  <1>8. Prefix(key.transcript, r.transcript)
    BY <1>2, <1>4, <1>6, PrefixSelf DEF Mute
  <1>9. Keyed(r, r.out, r.transcript)
    BY <1>2, <1>3, <1>4, <1>5, <1>6, <1>8 DEF Keyed
  <1>10. ClientState(r)
    BY <1>2, <1>4, <1>6, <1>7, <1>9 DEF ClientState
  <1> QED
    BY <1>1, <1>6, <1>10 DEF ClientMoves

LEMMA ReadParametersMoves ==
    ASSUME ClientState(c), readServerParameters PROVE ClientMoves
  <1> DEFINE rec == Head(toClient)
             m == rec.msg
             g == Receive(c, rec, {"encryptedExtensions"})
             h == Hashed(c, m)
             r == [h EXCEPT !.proto = m.alpn, !.pc = "serverCertificate"]
  <1>1. /\ c.pc = "serverParameters"
        /\ \/ ClientBecomes(g) /\ g.pc = "failed"
           \/ g.pc # "failed" /\
                \/ ClientBecomes([Hashed(g, m) EXCEPT !.proto = m.alpn,
                                               !.pc = "serverCertificate"])
                \/ ClientBecomes(Alert(Hashed(g, m), "unsupported_extension"))
    BY DEF readServerParameters, ClientReads, Then
  <1>2. /\ Mute(c) /\ Unfinished(c.transcript) /\ c.transcript = c.out.transcript
        /\ Keyed(c, c.out, c.transcript)
    BY <1>1 DEF ClientState
  <1>3. \/ g = c /\ rec.msg.type \in {"encryptedExtensions"}
        \/ ClientState(g) /\ g.pc = "failed"
    BY <1>2, ClientReceives
  <1>4. CASE ClientState(g) /\ g.pc = "failed"
    BY <1>1, <1>4, ClientFails
  <1>5. CASE g = c /\ rec.msg.type \in {"encryptedExtensions"}
    <2>1. ClientBecomes(r) \/ ClientBecomes(Alert(h, "unsupported_extension"))
      BY <1>1, <1>5
    <2>2. m.type = "encryptedExtensions" /\ Digest(m) = m
      BY <1>5, DigestSelf
    <2> HIDE DEF m
    <2>3. Keeps(h, c, {"transcript"}) /\ h.transcript = Append(c.transcript, m)
      BY <1>2, <2>2, HashedKeeps DEF Mute
    <2> HIDE DEF h
    <2>4. IsSeq(h.transcript) /\ Unfinished(h.transcript)
      BY <1>2, <2>2, <2>3, UnfinishedHashed DEF Mute
    <2>5. Mute(h)
      BY <1>2, <2>3, <2>4, MuteKeeps
    <2>6. /\ ClientState(Alert(h, "unsupported_extension"))
          /\ Alert(h, "unsupported_extension").pc = "failed"
      BY <2>5, MuteFails
    <2>7. /\ Keeps(r, h, {"proto", "pc"}) /\ r.transcript = h.transcript
          /\ r.proto = m.alpn /\ r.pc = "serverCertificate"
          /\ r.out = c.out /\ r.secret = c.secret /\ r.suite = c.suite
          /\ r.usingPSK = c.usingPSK
      BY <2>3 DEF Keeps, ConnFields
    <2> HIDE DEF r
    <2>8. Mute(r)
      BY <2>4, <2>5, <2>7, MuteKeeps
    <2>9. Prefix(c.out.transcript, r.transcript)
      BY <1>2, <2>3, <2>7, PrefixOn DEF Keyed
    <2>10. Keyed(r, r.out, r.transcript)
      BY <1>2, <2>7, <2>9 DEF Keyed
    <2>11. Extended(r, r.out, r.transcript)
      <3>1. /\ Len(c.transcript) \in Nat
            /\ Len(r.transcript) = Len(c.transcript) + 1
            /\ r.transcript[Len(c.transcript) + 1] = m
        BY <1>2, <2>3, <2>7, AppendSeq DEF Mute
      <3> QED
        BY <1>2, <2>7, <3>1 DEF Extended
    <2>12. ClientState(r)
      BY <2>4, <2>7, <2>8, <2>10, <2>11 DEF ClientState
    <2> QED
      BY <1>1, <2>1, <2>6, <2>7, <2>12 DEF ClientMoves
  <1> QED
    BY <1>3, <1>4, <1>5

\* The client hashes m and goes on with r, its keys as they are.
LEMMA ClientHashes ==
    ASSUME NEW m, m.type # "finished", ClientState(c),
           c.pc \in {"serverCertificate", "certificateVerify"}, NEW r, NEW F,
           F \subseteq {"certReq", "peerCerts", "pc"}, Keeps(r, Hashed(c, m), F),
           r.pc \in {"serverCertificate", "certificateVerify", "serverFinished"}
    PROVE  ClientState(r) /\ r.pc # "done"
  <1> DEFINE h == Hashed(c, m)
             t == c.transcript
             u == Append(t, Digest(m))
  <1>1. /\ Mute(c) /\ Unfinished(t) /\ Keyed(c, c.out, t)
        /\ Extended(c, c.out, t)
    BY DEF ClientState
  <1>2. Keeps(h, c, {"transcript"}) /\ h.transcript = u
    BY <1>1, HashedKeeps DEF Mute
  <1>3. IsSeq(u) /\ Unfinished(u)
    BY <1>1, UnfinishedHashed DEF Mute
  <1> HIDE DEF h
  <1>4. /\ DOMAIN r = ConnFields /\ r.transcript = u /\ r.out = c.out
        /\ r.secret = c.secret /\ r.suite = c.suite
        /\ r.usingPSK = c.usingPSK /\ r.proto = c.proto
        /\ r.sendBuf = c.sendBuf
    <2>1. Keeps(r, h, {"certReq", "peerCerts", "pc"})
      BY DEF Keeps, h
    <2> QED
      BY <1>2, <2>1 DEF Keeps, ConnFields
  <1>5. Mute(r)
    BY <1>1, <1>3, <1>4 DEF Mute
  <1>6. Alike(r, c)
    BY <1>4 DEF Alike
  <1>7. Keyed(r, r.out, r.transcript) /\ Extended(r, r.out, r.transcript)
    BY <1>1, <1>4, <1>6, KeyedOn, ExtendedOn
  <1> HIDE DEF u
  <1> QED
    BY <1>3, <1>4, <1>5, <1>7 DEF ClientState

LEMMA ResumeMoves ==
    ASSUME ClientState(c), ResumeServerCertificate PROVE ClientMoves
  <1> DEFINE r == [c EXCEPT !.pc = "serverFinished"]
             a == Alert(c, "bad_certificate")
  <1>1. c.pc = "serverCertificate" /\ (ClientBecomes(a) \/ ClientBecomes(r))
    BY DEF ResumeServerCertificate, ClientDoes
  <1>2. /\ Mute(c) /\ Unfinished(c.transcript) /\ Keyed(c, c.out, c.transcript)
        /\ Extended(c, c.out, c.transcript)
    BY <1>1 DEF ClientState
  <1>3. ClientState(a) /\ a.pc = "failed"
    BY <1>2, MuteFails
  <1>4. /\ Keeps(r, c, {"pc"}) /\ r.pc = "serverFinished"
        /\ r.transcript = c.transcript /\ r.out = c.out
    BY <1>2 DEF Mute, Keeps, ConnFields
  <1> HIDE DEF r, a
  <1>5. Alike(r, c)
    BY <1>4 DEF Keeps, ConnFields, Alike
  <1>6. Mute(r)
    BY <1>2, <1>4, MuteKeeps DEF Mute
  <1>7. Keyed(r, r.out, r.transcript) /\ Extended(r, r.out, r.transcript)
    BY <1>2, <1>4, <1>5, KeyedOn, ExtendedOn
  <1>8. ClientState(r)
    BY <1>2, <1>4, <1>6, <1>7 DEF ClientState
  <1> QED
    BY <1>1, <1>3, <1>4, <1>8 DEF ClientMoves

LEMMA ReadCertificateMoves ==
    ASSUME ClientState(c), readServerCertificate PROVE ClientMoves
  <1> DEFINE rec == Head(toClient)
             m == rec.msg
             types == {"certificate"} \cup
                      IF c.certReq THEN {} ELSE {"certificateRequest"}
             g == Receive(c, rec, types)
             h == Hashed(c, m)
             r1 == [h EXCEPT !.certReq = TRUE]
             r2 == [h EXCEPT !.peerCerts = m.cert, !.pc = "certificateVerify"]
             a == Alert(h, "bad_certificate")
  <1>1. /\ c.pc = "serverCertificate"
        /\ \/ ClientBecomes(g) /\ g.pc = "failed"
           \/ g.pc # "failed" /\
                \/ ClientBecomes([Hashed(g, m) EXCEPT !.certReq = TRUE])
                \/ ClientBecomes([Hashed(g, m) EXCEPT !.peerCerts = m.cert,
                                               !.pc = "certificateVerify"])
                \/ ClientBecomes(Alert(Hashed(g, m), "bad_certificate"))
    BY DEF readServerCertificate, ClientReads, Then
  <1>2. Mute(c)
    BY DEF ClientState
  <1>3. "finished" \notin types
    OBVIOUS
  <1> HIDE DEF types
  <1>4. \/ g = c /\ rec.msg.type \in types
        \/ ClientState(g) /\ g.pc = "failed"
    BY <1>2, ClientReceives
  <1>5. CASE ClientState(g) /\ g.pc = "failed"
    BY <1>1, <1>5, ClientFails
  <1>6. CASE g = c /\ rec.msg.type \in types
    <2>1. ClientBecomes(r1) \/ ClientBecomes(r2) \/ ClientBecomes(a)
      BY <1>1, <1>6
    <2>2. m.type # "finished"
      BY <1>3, <1>6
    <2> HIDE DEF m
    <2>3. Keeps(h, c, {"transcript"}) /\ IsSeq(h.transcript)
      <3>1. /\ Keeps(h, c, {"transcript"})
            /\ h.transcript = Append(c.transcript, Digest(m))
        BY <1>2, HashedKeeps DEF Mute
      <3> HIDE DEF h
      <3> QED
        BY <1>2, <3>1, AppendSeq DEF Mute
    <2>4. Mute(h)
      BY <1>2, <2>3, MuteKeeps
    <2>5. ClientState(a) /\ a.pc = "failed"
      BY <2>4, MuteFails
    <2>6. /\ Keeps(r1, h, {"certReq"}) /\ r1.pc = c.pc
          /\ Keeps(r2, h, {"peerCerts", "pc"}) /\ r2.pc = "certificateVerify"
      BY <2>3 DEF Keeps, ConnFields
    <2> HIDE DEF r1, r2, a
    <2>7. ClientState(r1) /\ r1.pc # "done"
      <3>1. {"certReq"} \subseteq {"certReq", "peerCerts", "pc"}
        OBVIOUS
      <3> QED
        BY <1>1, <2>2, <2>6, <3>1, ClientHashes
    <2>8. ClientState(r2) /\ r2.pc # "done"
      <3>1. {"peerCerts", "pc"} \subseteq {"certReq", "peerCerts", "pc"}
        OBVIOUS
      <3> QED
        BY <1>1, <2>2, <2>6, <3>1, ClientHashes
    <2> QED
      BY <1>1, <2>1, <2>5, <2>7, <2>8 DEF ClientMoves
  <1> QED
    BY <1>4, <1>5, <1>6

LEMMA ReadCertificateVerifyMoves ==
    ASSUME ClientState(c), ReadServerCertificateVerify PROVE ClientMoves
  <1> DEFINE rec == Head(toClient)
             m == rec.msg
             g == Receive(c, rec, {"certificateVerify"})
             h == Hashed(c, m)
             r == [h EXCEPT !.pc = "serverFinished"]
             a == Alert(c, "decrypt_error")
  <1>1. /\ c.pc = "certificateVerify"
        /\ \/ ClientBecomes(g) /\ g.pc = "failed"
           \/ g.pc # "failed" /\
                \/ ClientBecomes([Hashed(g, m) EXCEPT !.pc = "serverFinished"])
                \/ ClientBecomes(Alert(g, "decrypt_error"))
    BY DEF ReadServerCertificateVerify, ClientReads, Then
  <1>2. Mute(c)
    BY DEF ClientState
  <1>3. ClientState(a) /\ a.pc = "failed"
    BY <1>2, MuteFails
  <1>4. \/ g = c /\ rec.msg.type \in {"certificateVerify"}
        \/ ClientState(g) /\ g.pc = "failed"
    BY <1>2, ClientReceives
  <1>5. CASE ClientState(g) /\ g.pc = "failed"
    BY <1>1, <1>5, ClientFails
  <1>6. CASE g = c /\ rec.msg.type \in {"certificateVerify"}
    <2>1. ClientBecomes(r) \/ ClientBecomes(a)
      BY <1>1, <1>6
    <2>2. m.type # "finished"
      BY <1>6
    <2> HIDE DEF m, a
    <2>3. DOMAIN h = ConnFields
      BY <1>2, HashedKeeps DEF Mute, Keeps
    <2>4. Keeps(r, h, {"pc"}) /\ r.pc = "serverFinished"
      BY <2>3 DEF Keeps, ConnFields
    <2> HIDE DEF r
    <2>5. ClientState(r) /\ r.pc # "done"
      <3>1. {"pc"} \subseteq {"certReq", "peerCerts", "pc"}
        OBVIOUS
      <3> QED
        BY <1>1, <2>2, <2>4, <3>1, ClientHashes
    <2> QED
      BY <1>1, <1>3, <2>1, <2>5 DEF ClientMoves
  <1> QED
    BY <1>4, <1>5, <1>6

LEMMA ReadFinishedMoves ==
    ASSUME ClientState(c), readServerFinished PROVE ClientMoves
  <1> DEFINE rec == Head(toClient)
             m == rec.msg
             g == Receive(c, rec, {"finished"})
             h == Hashed(c, m)
             app == clientAppKey(c.secret, h.transcript)
             other == serverAppKey(c.secret, h.transcript)
             r == [h EXCEPT !.app = app, !.in = other, !.pc = "clientCertificate"]
             a == Alert(c, "decrypt_error")
             R(x) == [Hashed(x, m) EXCEPT
                        !.app = clientAppKey(x.secret, Hashed(x, m).transcript),
                        !.in = serverAppKey(x.secret, Hashed(x, m).transcript),
                        !.pc = "clientCertificate"]
  <1>1. /\ c.pc = "serverFinished"
        /\ \/ ClientBecomes(g) /\ g.pc = "failed"
           \/ g.pc # "failed" /\ ClientBecomes(R(g))
           \/ g.pc # "failed" /\ ClientBecomes(Alert(g, "decrypt_error"))
    BY Zenon DEF readServerFinished, ClientReads, Then, clientAppKey,
                 serverAppKey
  <1>2. /\ Mute(c) /\ Unfinished(c.transcript) /\ Keyed(c, c.out, c.transcript)
        /\ Extended(c, c.out, c.transcript)
    BY <1>1 DEF ClientState
  <1>3. ClientState(a) /\ a.pc = "failed"
    BY <1>2, MuteFails
  <1>4. \/ g = c /\ rec.msg.type \in {"finished"}
        \/ ClientState(g) /\ g.pc = "failed"
    BY <1>2, ClientReceives
  <1>5. CASE ClientState(g) /\ g.pc = "failed"
    BY <1>1, <1>5, ClientFails
  <1>6. CASE g = c /\ rec.msg.type \in {"finished"}
    <2>1. ClientBecomes(r) \/ ClientBecomes(a)
      BY <1>1, <1>6
    <2> DEFINE d == Digest(m)
    <2>2. d.type = "finished"
      BY <1>6, DigestFinished
    <2>3. Keeps(h, c, {"transcript"}) /\ h.transcript = Append(c.transcript, d)
      BY <1>2, HashedKeeps DEF Mute
    <2> HIDE DEF m, d, a, h
    <2>4. IsSeq(h.transcript)
      BY <1>2, <2>3, AppendSeq DEF Mute
    <2>5. Alike(c, c)
      BY DEF Alike
    <2>6. Settled(c, c.out, app, other, h.transcript)
      BY <1>2, <2>2, <2>3, <2>5, NowSettled
    <2> HIDE DEF app, other
    <2>7. /\ Keeps(r, h, {"app", "in", "pc"}) /\ r.pc = "clientCertificate"
          /\ r.app = app /\ r.in = other /\ r.out = c.out
          /\ r.transcript = h.transcript
      BY <2>3 DEF Keeps, ConnFields
    <2>8. Keeps(r, c, {"transcript", "app", "in", "pc"})
      BY <2>3, <2>7 DEF Keeps
    <2> HIDE DEF r
    <2>9. Alike(r, c)
      BY <2>8 DEF Keeps, ConnFields, Alike
    <2>10. Mute(r)
      BY <1>2, <2>4, <2>7, <2>8, MuteKeeps
    <2>11. Settled(r, r.out, r.app, r.in, r.transcript)
      BY <2>6, <2>7, <2>9, SettledOn
    <2>12. ClientState(r)
      BY <2>7, <2>10, <2>11 DEF ClientState
    <2> QED
      BY <1>1, <1>3, <2>1, <2>7, <2>12 DEF ClientMoves
  <1> QED
    BY <1>4, <1>5, <1>6

\* What the client says after the server's Finished leaves it settled.
LEMMA SettledSays ==
    ASSUME NEW x, NEW m, Mute(x), m.type # "finished",
           Settled(x, x.out, x.app, x.in, x.transcript)
    PROVE  LET y == Say(x, m)
           IN Mute(y) /\ Settled(y, y.out, y.app, y.in, y.transcript)
  <1> DEFINE y == Say(x, m)
             d == Digest(m)
  <1>1. Keeps(y, x, {"transcript", "sendBuf"})
        /\ y.transcript = Append(x.transcript, d)
    BY SayKeeps DEF Mute
  <1>2. Mute(y)
    BY MuteSays
  <1> HIDE DEF y, d
  <1>3. /\ Alike(y, x) /\ y.out = x.out /\ y.app = x.app /\ y.in = x.in
    BY <1>1 DEF Keeps, ConnFields, Alike
  <1>4. Settled(y, y.out, y.app, y.in, y.transcript)
    BY <1>1, <1>3, SettledOn
  <1> QED
    BY <1>2, <1>4 DEF y

LEMMA SendCertificateMoves ==
    ASSUME ClientState(c), sendClientCertificate PROVE ClientMoves
  <1> DEFINE cert == [type |-> "certificate", cert |-> conf.clientCert]
             p == Say(c, cert)
             verify == certificateVerify(p, "client", conf.clientCert)
             v == Say(p, verify)
             q == IF conf.clientCert = "none" THEN p ELSE v
             a == Return(c, "getClientCertificate")
             R(x) == [x EXCEPT !.pc = "clientFinished"]
  <1>1. /\ c.pc = "clientCertificate"
        /\ ClientBecomes(R(c)) \/ ClientBecomes(R(q)) \/ ClientBecomes(a)
    <2>1. ClientDoes(CASE ~c.certReq -> R(c)
                       [] c.certReq /\ conf.getCertFails -> a
                       [] c.certReq /\ ~conf.getCertFails -> R(q))
      BY DEF sendClientCertificate
    <2>2. CASE ~c.certReq
      BY <2>1, <2>2 DEF ClientDoes, sendClientCertificate
    <2>3. CASE c.certReq /\ conf.getCertFails
      BY <2>1, <2>3 DEF ClientDoes, sendClientCertificate
    <2>4. CASE c.certReq /\ ~conf.getCertFails
      BY <2>1, <2>4 DEF ClientDoes, sendClientCertificate
    <2> QED
      BY <2>2, <2>3, <2>4
  <1>2. Mute(c) /\ Settled(c, c.out, c.app, c.in, c.transcript)
    BY <1>1 DEF ClientState
  <1>3. ClientState(a) /\ a.pc = "failed"
    BY <1>2, MuteFails
  <1>4. cert.type # "finished" /\ verify.type # "finished"
    BY DEF certificateVerify
  <1> HIDE DEF cert, a
  <1>5. Mute(p) /\ Settled(p, p.out, p.app, p.in, p.transcript)
    BY <1>2, <1>4, SettledSays
  <1> HIDE DEF p, verify
  <1>6. Mute(v) /\ Settled(v, v.out, v.app, v.in, v.transcript)
    BY <1>4, <1>5, SettledSays
  <1> HIDE DEF v
  <1>7. Mute(q) /\ Settled(q, q.out, q.app, q.in, q.transcript)
    BY <1>5, <1>6
  <1> HIDE DEF q
  <1>8. ASSUME NEW x, Mute(x), Settled(x, x.out, x.app, x.in, x.transcript)
        PROVE  ClientState(R(x)) /\ R(x).pc # "done"
    <2> DEFINE r == R(x)
    <2>1. Keeps(r, x, {"pc"}) /\ r.pc = "clientFinished"
      BY <1>8 DEF Mute, Keeps, ConnFields
    <2> HIDE DEF r
    <2>2. /\ Alike(r, x) /\ r.out = x.out /\ r.app = x.app /\ r.in = x.in
          /\ r.transcript = x.transcript
      BY <2>1 DEF Keeps, ConnFields, Alike
    <2>3. Mute(r)
      BY <1>8, <2>1, <2>2, MuteKeeps DEF Mute
    <2>4. Settled(r, r.out, r.app, r.in, r.transcript)
      BY <1>8, <2>2, SettledOn
    <2>5. ClientState(r)
      BY <2>1, <2>3, <2>4 DEF ClientState
    <2> QED
      BY <2>1, <2>5 DEF r
  <1>9. /\ ClientState(R(c)) /\ R(c).pc # "done"
        /\ ClientState(R(q)) /\ R(q).pc # "done"
    BY <1>2, <1>7, <1>8
  <1> HIDE DEF R
  <1> QED
    BY <1>1, <1>3, <1>9 DEF ClientMoves

\* The step that completes the client's handshake puts the one Finished on
\* the wire, and it covers all the client has settled.
LEMMA SendFinishedCompletes ==
    ASSUME ClientState(c), WireOK(c, toServer), sendClientFinished
    PROVE  ClientState(c') /\ WireOK(c', toServer')
  <1> DEFINE v == finishedHash(c.out, c.transcript)
             m == finishedMsg(v)
             p == Say(c, m)
             R(x) == [p EXCEPT !.out = c.app, !.pc = "done", !.buffering = FALSE,
                               !.resumption = x]
  <1>1. c.pc = "clientFinished" /\ \E x : ClientBecomes(R(x))
    BY Zenon DEF sendClientFinished, ClientDoes
  <1>2. PICK x : ClientBecomes(R(x))
    BY <1>1
  <1>3. /\ Mute(c) /\ Settled(c, c.out, c.app, c.in, c.transcript)
    BY <1>1 DEF ClientState
  <1>4. /\ m.type = "finished" /\ m.verifyData = v
        /\ v.key = c.out /\ v.transcript = c.transcript
    BY DEF finishedMsg, finishedHash
  <1> HIDE DEF v, m
  <1>5. Digest(m) = [type |-> "finished"]
    BY <1>4, DigestFinished
  <1> DEFINE rec == [typ |-> "handshake", key |-> c.out, msg |-> m]
             b == c.sendBuf
             u == Append(b, rec)
             t == Append(c.transcript, [type |-> "finished"])
  <1>6. Keeps(p, c, {"transcript", "sendBuf"}) /\ p.transcript = t /\ p.sendBuf = u
    BY <1>3, <1>5, SayKeeps DEF Mute
  <1>7. IsSeq(t)
    BY <1>3, AppendSeq DEF Mute
  <1> HIDE DEF p, u, t, b
  <1> DEFINE r == R(x)
  <1>8. /\ Keeps(r, p, {"out", "pc", "buffering", "resumption"})
        /\ r.out = c.app /\ r.pc = "done" /\ r.buffering = FALSE
        /\ r.transcript = t /\ r.sendBuf = u
    BY <1>6 DEF Keeps, ConnFields
  <1>9. ClientBecomes(r)
    BY <1>2
  <1> HIDE DEF r
  <1>10. Keeps(r, c, {"out", "pc", "buffering", "resumption", "transcript",
                      "sendBuf"})
    BY <1>6, <1>8 DEF Keeps
  <1>11. /\ Keeps(c', r, {"sendBuf", "cache"}) /\ c'.sendBuf = Kept(r)
         /\ toServer' = toServer \o Passed(r)
    BY <1>8, <1>9 DEF ClientBecomes, Keeps, ConnFields
  <1>12. /\ c'.pc = "done" /\ c'.out = c.app /\ c'.in = c.in /\ c'.transcript = t
         /\ c'.sendBuf = <<>> /\ DOMAIN c' = ConnFields /\ Alike(c', c)
         /\ toServer' = toServer \o u
    <2>1. Kept(r) = <<>> /\ Passed(r) = u
      BY <1>8 DEF Kept, Passed
    <2>2. /\ c'.pc = r.pc /\ c'.out = r.out /\ c'.in = r.in
          /\ c'.transcript = r.transcript /\ Alike(c', r)
      BY <1>11 DEF Keeps, ConnFields, Alike
    <2>3. r.in = c.in /\ Alike(r, c)
      BY <1>10 DEF Keeps, ConnFields, Alike
    <2> QED
      BY <1>8, <1>11, <2>1, <2>2, <2>3 DEF Alike, Keeps
  <1>13. ClientState(c')
    <2>1. IsSeq(<<>>) /\ DOMAIN <<>> = {}
      BY ShortSeq
    <2>2. Mute(c')
      BY <1>7, <1>12, <2>1 DEF Mute
    <2> QED
      BY <1>12, <2>2 DEF ClientState
  <1>14. Completed(c', v, c'.out, c'.in)
    <2>1. Settled(c', c.out, c.app, c.in, c.transcript)
      BY <1>3, <1>12, SettledOn
    <2> QED
      BY <1>4, <1>12, <2>1 DEF Completed, t
  <1>15. IsSeq(toServer) /\ \A i \in DOMAIN toServer : ~IsFinished(toServer[i])
    BY <1>1 DEF WireOK
  <1>16. IsSeq(b) /\ \A i \in DOMAIN b : ~IsFinished(b[i])
    BY <1>3 DEF Mute, b
  <1>17. /\ IsSeq(u)
         /\ \A i \in DOMAIN u : u[i] = rec \/ ~IsFinished(u[i])
    <2> HIDE DEF rec
    <2>1. /\ IsSeq(u) /\ Len(b) \in Nat /\ DOMAIN b = 1 .. Len(b)
          /\ DOMAIN u = 1 .. (Len(b) + 1) /\ u[Len(b) + 1] = rec
          /\ \A i \in 1 .. Len(b) : u[i] = b[i]
      BY <1>16, AppendSeq DEF u
    <2>2. ASSUME NEW i \in DOMAIN u PROVE u[i] = rec \/ ~IsFinished(u[i])
      <3>1. CASE i = Len(b) + 1
        BY <2>1, <3>1
      <3>2. CASE i # Len(b) + 1
        BY <1>16, <2>1, <3>2
      <3> QED
        BY <3>1, <3>2
    <2> QED
      BY <2>1, <2>2
  <1>18. rec.msg.verifyData = v
    BY <1>4
  <1> HIDE DEF rec
  <1> DEFINE w == toServer \o u
  <1>19. Joins(w, toServer, u)
    BY <1>15, <1>17, ConcatSeq
  <1> HIDE DEF w
  <1>20. IsSeq(w) /\ \A i \in DOMAIN w : w[i] = rec \/ ~IsFinished(w[i])
    BY <1>15, <1>17, <1>19 DEF Joins
  <1>21. WireOK(c', w)
    BY <1>12, <1>14, <1>18, <1>20 DEF WireOK
  <1> QED
    BY <1>12, <1>13, <1>21 DEF w

\* A client's step: it is not done before, and is in order after.
LEMMA ClientStepAgrees ==
    ASSUME ClientState(c), WireOK(c, toServer), ClientNext
    PROVE  /\ ClientState(c') /\ WireOK(c', toServer')
           /\ c.pc # "done" \/ UNCHANGED c
  <1>1. CASE ClientMoves
    BY <1>1, ClientOn DEF ClientMoves
  <1>2. CASE sendClientFinished
    <2>1. c.pc # "done"
      BY <1>2 DEF sendClientFinished
    <2> QED
      BY <1>2, <2>1, SendFinishedCompletes
  <1>3. CASE ClientDropsCCS
    <2>1. c' = c /\ toServer' = toServer
      BY <1>3 DEF ClientDropsCCS
    <2> QED
      BY <2>1
  <1> QED
    BY <1>1, <1>2, <1>3, ClientHelloMoves, ReadServerHelloMoves, RetryMoves,
       ReadSecondServerHelloMoves, ProcessServerHelloMoves, EstablishMoves,
       ReadParametersMoves, ResumeMoves, ReadCertificateMoves,
       ReadCertificateVerifyMoves, ReadFinishedMoves, SendCertificateMoves
       DEF ClientNext

-----------------------------------------------------------------------------
(* The server's steps.                                                     *)

LEMMA ConnKeeps ==
    ASSUME NEW x, NEW r, NEW F, Keeps(r, x, F), IsSeq(r.transcript)
    PROVE  Conn(r)
  BY DEF Conn, Keeps, IsSeq

LEMMA ConnSeq ==
    ASSUME NEW x, Conn(x)
    PROVE  DOMAIN x = ConnFields /\ IsSeq(x.transcript)
  BY DEF Conn, IsSeq

\* What the server waits for, it waits for whatever else changes.
LEMMA ExpectsOn ==
    ASSUME NEW x, NEW r, Expects(x), Alike(r, x), r.app = x.app, r.out = x.out,
           r.clientFinished = x.clientFinished, r.transcript = x.transcript
    PROVE  Expects(r)
  <1> DEFINE v == x.clientFinished
  <1>1. /\ Settled(x, v.key, x.app, x.out, v.transcript)
        /\ x.transcript = Append(v.transcript, [type |-> "finished"])
    BY DEF Expects, Completed
  <1>2. Settled(r, v.key, x.app, x.out, v.transcript)
    BY <1>1, SettledOn
  <1> QED
    BY <1>1, <1>2 DEF Expects, Completed

\* A step of the server that does not complete its handshake.
ServerMoves ==
    /\ s.pc # "done"
    /\ \E p : ServerState(p) /\ p.pc # "done" /\ ServerBecomes(p)

LEMMA ServerOn ==
    ASSUME NEW p, ServerState(p), ServerBecomes(p)
    PROVE  ServerState(s)' /\ s'.pc = p.pc
  <1>1. Conn(p)
    BY DEF ServerState
  <1>2. Keeps(s', p, {"sendBuf"}) /\ conf' = conf
    BY <1>1 DEF ServerBecomes, Conn, Keeps, ConnFields
  <1>3. /\ s'.pc = p.pc /\ s'.hello = p.hello
        /\ s'.usingPSK = p.usingPSK /\ s'.transcript = p.transcript
        /\ s'.out = p.out /\ s'.in = p.in /\ s'.app = p.app
        /\ s'.clientFinished = p.clientFinished /\ Alike(s', p)
    BY <1>2 DEF Keeps, ConnFields, Alike
  <1>4. Conn(s')
    BY <1>1, <1>2, <1>3, ConnKeeps, ConnSeq
  <1>5. Keyed(p, p.in, p.transcript) => Keyed(s', s'.in, s'.transcript)
    BY <1>3, KeyedOn
  <1>6. Keyed(p, p.in, p.transcript) /\ Extended(p, p.in, p.transcript)
          => Extended(s', s'.in, s'.transcript)
    BY <1>3, ExtendedOn
  <1>7. Settled(p, p.in, p.app, p.out, p.transcript)
          => Settled(s', s'.in, s'.app, s'.out, s'.transcript)
    BY <1>3, SettledOn
  <1>8. Expects(p) => Expects(s')
    BY <1>3, ExpectsOn
  <1>9. requestClientCert(s)' <=> requestClientCert(p)
    BY <1>2, <1>3 DEF requestClientCert
  <1>10. ServerState(s)'
    BY <1>3, <1>4, <1>5, <1>6, <1>7, <1>8, <1>9 DEF ServerState,
       BeforeResumption
  <1> QED
    BY <1>3, <1>10

LEMMA ServerFails ==
    ASSUME NEW x, Conn(x)
    PROVE  /\ \A err : ServerState(Return(x, err)) /\ Return(x, err).pc = "failed"
           /\ \A a : ServerState(Alert(x, a)) /\ Alert(x, a).pc = "failed"
  <1>1. ASSUME NEW y, Conn(y), NEW err
        PROVE  ServerState(Return(y, err)) /\ Return(y, err).pc = "failed"
    <2> DEFINE r == Return(y, err)
    <2>1. AuthState(r) /\ r.pc = "failed"
      BY <1>1, FailedState
    <2> HIDE DEF r
    <2>2. ServerState(r)
      BY <2>1 DEF AuthState, ServerState, BeforeResumption
    <2> QED
      BY <2>1, <2>2 DEF r
  <1>2. \A a : Conn(Send(x, "alert", [type |-> a]))
    BY FollowsSend DEF Follows
  <1> QED
    BY <1>1, <1>2 DEF Alert

LEMMA ServerReceives ==
    ASSUME NEW x, NEW rec, NEW types, Conn(x), x.pc # "failed"
    PROVE  \/ /\ Receive(x, rec, types) = x /\ rec.msg.type \in types
              /\ rec.typ # "alert"
           \/ /\ ServerState(Receive(x, rec, types))
              /\ Receive(x, rec, types).pc = "failed"
  <1> DEFINE o == Opened(x, rec)
             r == Receive(x, rec, types)
  <1>1. (o = x /\ rec.typ # "alert") \/ (ServerState(o) /\ o.pc = "failed")
    <2>1. \/ o = x /\ rec.typ # "alert"
          \/ o = Return(x, "remote")
          \/ o = Alert(x, "unexpected_message") \/ o = Alert(x, "bad_record_mac")
      BY DEF Opened
    <2>2. /\ ServerState(Return(x, "remote")) /\ Return(x, "remote").pc = "failed"
          /\ \A a : ServerState(Alert(x, a)) /\ Alert(x, a).pc = "failed"
      BY ServerFails
    <2> HIDE DEF o
    <2> QED
      BY <2>1, <2>2
  <1>2. Conn(o)
    BY <1>1 DEF ServerState
  <1>3. \A a : ServerState(Alert(o, a)) /\ Alert(o, a).pc = "failed"
    BY <1>2, ServerFails
  <1>4. \/ o.pc = "failed" /\ r = o
        \/ o.pc # "failed" /\ r = o /\ rec.msg.type \in types
        \/ r = Alert(o, "unexpected_message")
    BY DEF Receive, Then
  <1> HIDE DEF o, r
  <1>5. \/ r = x /\ rec.msg.type \in types /\ rec.typ # "alert"
        \/ ServerState(r) /\ r.pc = "failed"
    BY <1>1, <1>3, <1>4
  <1> QED
    BY <1>5 DEF r

LEMMA ServerFailing ==
    ASSUME s.pc # "done", NEW p, ServerState(p), p.pc = "failed",
           ServerBecomes(p)
    PROVE  ServerMoves
  BY DEF ServerMoves

LEMMA ReadClientHelloMoves ==
    ASSUME ServerState(s), ReadClientHello PROVE ServerMoves
  <1> DEFINE rec == Head(toServer)
             m == rec.msg
             g == Receive(s, rec, {"clientHello"})
             suite == SelectedSuite(m)
             group == SelectedGroup(m)
             Q(x) == [x EXCEPT !.hello = m, !.suite = suite, !.group = group]
             q == Q(s)
             hash == messageHash(q.hello)
             k == [q EXCEPT !.transcript = <<hash>>]
             hrr == serverHelloMsg(q.suite, TRUE, group, None, FALSE)
             w == Say(k, hrr)
             d == sendDummyChangeCipherSpec(w)
             e == [d EXCEPT !.pc = "secondClientHello"]
             f == [q EXCEPT !.pc = "checkForResumption"]
             a == Alert(q, "handshake_failure")
  <1>1. /\ s.pc = "clientHello"
        /\ \/ g.pc = "failed" /\ ServerBecomes(g)
           \/ g.pc # "failed" /\
                \/ ServerBecomes(Alert(Q(g), "handshake_failure"))
                \/ ServerBecomes(doHelloRetryRequest(Q(g), group))
                \/ ServerBecomes([Q(g) EXCEPT !.pc = "checkForResumption"])
    BY DEF ReadClientHello, ServerReads, Then
  <1>2. Conn(s) /\ Unfinished(s.transcript)
    BY <1>1 DEF ServerState, BeforeResumption
  <1>3. \/ g = s /\ m.type \in {"clientHello"}
        \/ ServerState(g) /\ g.pc = "failed"
    BY <1>1, <1>2, ServerReceives
  <1>4. CASE ServerState(g) /\ g.pc = "failed"
    BY <1>1, <1>4, ServerFailing
  <1>5. CASE g = s /\ m.type \in {"clientHello"}
    <2>1. ServerBecomes(a) \/ ServerBecomes(e) \/ ServerBecomes(f)
      BY <1>1, <1>5 DEF doHelloRetryRequest
    <2> HIDE DEF suite, group, m
    <2>2. /\ Keeps(q, s, {"hello", "suite", "group"}) /\ q.hello = m
          /\ q.transcript = s.transcript
      BY <1>2 DEF Conn, Keeps, ConnFields
    <2>3. Conn(q)
      BY <1>2, <2>2, ConnKeeps, ConnSeq
    <2>4. ServerState(a) /\ a.pc = "failed"
      BY <2>3, ServerFails
    <2> HIDE DEF q, a, hash
    <2>5. Keeps(k, q, {"transcript"}) /\ k.transcript = <<hash>>
      BY <2>2 DEF Keeps, ConnFields
    <2>6. hash.type # "finished" /\ hrr.type # "finished"
      BY DEF hash, messageHash, serverHelloMsg
    <2> DEFINE one == <<hash>>
    <2>7. IsSeq(one) /\ Unfinished(one)
      <3>1. IsSeq(one) /\ DOMAIN one = {1} /\ one[1] = hash
        BY ShortSeq
      <3> HIDE DEF one
      <3> QED
        BY <2>6, <3>1 DEF Unfinished
    <2>8. Keeps(k, q, {"transcript"}) /\ k.transcript = one
      BY <2>5
    <2> HIDE DEF k, hrr, one
    <2>9. /\ Keeps(w, k, {"transcript", "sendBuf"})
          /\ w.transcript = Append(one, Digest(hrr))
      <3>1. DOMAIN k = ConnFields
        BY <2>8 DEF Keeps
      <3> QED
        BY <2>8, <3>1, SayKeeps
    <2>10. IsSeq(w.transcript) /\ Unfinished(w.transcript)
      BY <2>6, <2>7, <2>9, UnfinishedHashed
    <2> HIDE DEF w
    <2>11. Keeps(d, w, {"ccs", "sendBuf"})
      BY <2>9, CCSKeeps DEF Keeps
    <2> HIDE DEF d
    <2>12. /\ Keeps(e, d, {"pc"}) /\ e.pc = "secondClientHello"
           /\ e.transcript = w.transcript
      BY <2>11 DEF Keeps, ConnFields
    <2> HIDE DEF e
    <2>13. ServerState(e)
      BY <2>10, <2>12, ConnKeeps DEF ServerState, BeforeResumption
    <2>14. /\ Keeps(f, q, {"pc"}) /\ f.pc = "checkForResumption"
           /\ f.transcript = s.transcript /\ f.hello = m
      BY <2>2 DEF Keeps, ConnFields
    <2> HIDE DEF f
    <2>15. Conn(f)
      BY <1>2, <2>14, ConnKeeps, ConnSeq
    <2>16. ServerState(f)
      BY <1>2, <1>5, <2>14, <2>15 DEF ServerState, BeforeResumption, m
    <2> QED
      BY <1>1, <2>1, <2>4, <2>12, <2>13, <2>14, <2>16 DEF ServerMoves
  <1> QED
    BY <1>3, <1>4, <1>5

LEMMA ReadSecondClientHelloMoves ==
    ASSUME ServerState(s), ReadSecondClientHello PROVE ServerMoves
  <1> DEFINE rec == Head(toServer)
             m == rec.msg
             g == Receive(s, rec, {"clientHello"})
             R(x) == [x EXCEPT !.hello = m, !.pc = "checkForResumption"]
             f == R(s)
             a == Alert(s, "illegal_parameter")
  <1>1. /\ s.pc = "secondClientHello"
        /\ \/ g.pc = "failed" /\ ServerBecomes(g)
           \/ g.pc # "failed" /\ ServerBecomes(Alert(g, "illegal_parameter"))
           \/ g.pc # "failed" /\ ServerBecomes(R(g))
    BY DEF ReadSecondClientHello, ServerReads, Then
  <1>2. Conn(s) /\ Unfinished(s.transcript)
    BY <1>1 DEF ServerState, BeforeResumption
  <1>3. \/ g = s /\ m.type \in {"clientHello"}
        \/ ServerState(g) /\ g.pc = "failed"
    BY <1>1, <1>2, ServerReceives
  <1>4. CASE ServerState(g) /\ g.pc = "failed"
    BY <1>1, <1>4, ServerFailing
  <1>5. CASE g = s /\ m.type \in {"clientHello"}
    <2>1. ServerBecomes(a) \/ ServerBecomes(f)
      BY <1>1, <1>5
    <2>2. ServerState(a) /\ a.pc = "failed"
      BY <1>2, ServerFails
    <2> HIDE DEF a, m
    <2>3. /\ Keeps(f, s, {"hello", "pc"}) /\ f.pc = "checkForResumption"
          /\ f.transcript = s.transcript /\ f.hello = m
      BY <1>2 DEF Conn, Keeps, ConnFields
    <2> HIDE DEF f
    <2>4. Conn(f)
      BY <1>2, <2>3, ConnKeeps, ConnSeq
    <2>5. ServerState(f)
      BY <1>2, <1>5, <2>3, <2>4 DEF ServerState, BeforeResumption, m
    <2> QED
      BY <1>1, <2>1, <2>2, <2>3, <2>5 DEF ServerMoves
  <1> QED
    BY <1>3, <1>4, <1>5

\* processCertsFromClient fails or notes the certificates.
Processed(q, p) ==
    \/ ServerState(q) /\ q.pc = "failed"
    \/ Keeps(q, p, {"peerCerts"}) /\ q.transcript = p.transcript

LEMMA ServerProcesses ==
    ASSUME NEW p, NEW certs, Conn(p)
    PROVE  Processed(processCertsFromClient(p, certs), p)
  <1> DEFINE q == processCertsFromClient(p, certs)
             a == Alert(p, "bad_certificate")
             r == [p EXCEPT !.peerCerts = certs]
  <1>1. q = a \/ q = r
    BY DEF processCertsFromClient
  <1>2. ServerState(a) /\ a.pc = "failed"
    BY ServerFails
  <1>3. Keeps(r, p, {"peerCerts"}) /\ r.transcript = p.transcript
    BY DEF Conn, Keeps, ConnFields
  <1> HIDE DEF q, a, r
  <1>4. Processed(q, p)
    BY <1>1, <1>2, <1>3 DEF Processed
  <1> QED
    BY <1>4 DEF q

LEMMA ResumptionMoves ==
    ASSUME ServerState(s), checkForResumption PROVE ServerMoves
  <1> DEFINE p == [s EXCEPT !.psk = s.hello.psk.secret]
             q == processCertsFromClient(p, s.hello.psk.certs)
             f == [q EXCEPT !.usingPSK = TRUE, !.pc = "pickCertificate"]
             e == [s EXCEPT !.pc = "pickCertificate"]
             a == Alert(p, "decrypt_error")
  <1>1. /\ s.pc = "checkForResumption"
        /\ \/ ServerBecomes(e) \/ ServerBecomes(a)
           \/ q.pc = "failed" /\ ServerBecomes(q)
           \/ q.pc # "failed" /\ ServerBecomes(f)
    BY DEF checkForResumption, ServerDoes, Then
  <1>2. Conn(s) /\ Unfinished(s.transcript) /\ s.hello.type = "clientHello"
    BY <1>1 DEF ServerState, BeforeResumption
  <1>3. /\ Keeps(p, s, {"psk"}) /\ p.transcript = s.transcript
        /\ p.hello = s.hello
    BY <1>2 DEF Conn, Keeps, ConnFields
  <1>4. Conn(p)
    BY <1>2, <1>3, ConnKeeps, ConnSeq
  <1> HIDE DEF p
  <1>5. Processed(q, p)
    BY <1>4, ServerProcesses
  <1>6. ServerState(a) /\ a.pc = "failed"
    BY <1>4, ServerFails
  <1> HIDE DEF q, a
  <1>7. /\ Keeps(e, s, {"pc"}) /\ e.transcript = s.transcript
        /\ e.hello = s.hello /\ e.pc = "pickCertificate"
    BY <1>2 DEF Conn, Keeps, ConnFields
  <1> HIDE DEF e
  <1>8. Conn(e)
    BY <1>2, <1>7, ConnKeeps, ConnSeq
  <1>9. ServerState(e)
    BY <1>2, <1>7, <1>8 DEF ServerState, BeforeResumption
  <1>10. CASE ServerState(q) /\ q.pc = "failed"
    BY <1>1, <1>6, <1>7, <1>9, <1>10 DEF ServerMoves
  <1>11. CASE Keeps(q, p, {"peerCerts"}) /\ q.transcript = p.transcript
    <2>1. q.pc = s.pc
      BY <1>3, <1>11 DEF Keeps, ConnFields
    <2>2. /\ Keeps(f, q, {"usingPSK", "pc"}) /\ f.transcript = s.transcript
          /\ f.hello = s.hello /\ f.pc = "pickCertificate"
      BY <1>3, <1>11 DEF Keeps, ConnFields
    <2> HIDE DEF f
    <2>3. Conn(f)
      BY <1>2, <2>2, ConnKeeps, ConnSeq
    <2>4. ServerState(f)
      BY <1>2, <2>2, <2>3 DEF ServerState, BeforeResumption
    <2> QED
      BY <1>1, <1>6, <1>7, <1>9, <2>1, <2>2, <2>4 DEF ServerMoves
  <1> QED
    BY <1>5, <1>10, <1>11 DEF Processed

LEMMA PickMoves ==
    ASSUME ServerState(s), pickCertificate PROVE ServerMoves
  <1> DEFINE r == [s EXCEPT !.pc = "sendServerParameters", !.buffering = TRUE]
             a == Alert(s, "unrecognized_name")
  <1>1. s.pc = "pickCertificate" /\ (ServerBecomes(a) \/ ServerBecomes(r))
    BY DEF pickCertificate, ServerDoes
  <1>2. Conn(s) /\ Unfinished(s.transcript) /\ s.hello.type = "clientHello"
    BY <1>1 DEF ServerState, BeforeResumption
  <1>3. ServerState(a) /\ a.pc = "failed"
    BY <1>2, ServerFails
  <1>4. /\ Keeps(r, s, {"pc", "buffering"}) /\ r.transcript = s.transcript
        /\ r.hello = s.hello /\ r.pc = "sendServerParameters"
    BY <1>2 DEF Conn, Keeps, ConnFields
  <1> HIDE DEF r, a
  <1>5. Conn(r)
    BY <1>2, <1>4, ConnKeeps, ConnSeq
  <1>6. ServerState(r)
    BY <1>2, <1>4, <1>5 DEF ServerState, BeforeResumption
  <1> QED
    BY <1>1, <1>3, <1>4, <1>6 DEF ServerMoves

LEMMA ParametersMove ==
    ASSUME ServerState(s), sendServerParameters PROVE ServerMoves
  <1> DEFINE share == [group |-> s.group, n |-> 0]
             secret == HandshakeSecret(s.suite, s.psk, s.hello.share, share)
             h == Hashed(s, s.hello)
             m == serverHelloMsg(s.suite, FALSE, None, share, s.usingPSK)
             p == Say(h, m)
             d == sendDummyChangeCipherSpec(p)
             key == clientKey(secret, p.transcript)
             other == ServerKey(secret, p.transcript)
             q == [d EXCEPT !.secret = secret, !.in = key, !.out = other]
             proto == negotiateALPN(conf.serverProtos, conf.clientProtos)
             ee == [type |-> "encryptedExtensions", alpn |-> proto]
             e == Say(q, ee)
             r == [e EXCEPT !.proto = proto,
                            !.pc = "sendServerCertificate"]
             a == Alert(q, "no_application_protocol")
  <1>1. s.pc = "sendServerParameters" /\ (ServerBecomes(a) \/ ServerBecomes(r))
    BY Zenon DEF sendServerParameters, ServerDoes, clientKey, ServerKey
  <1>2. Conn(s) /\ Unfinished(s.transcript) /\ s.hello.type = "clientHello"
    BY <1>1 DEF ServerState
  <1>3. secret.suite = s.suite
    BY DEF HandshakeSecret
  <1>4. m.type = "serverHello" /\ m.psk = s.usingPSK
    BY DEF serverHelloMsg
  <1>5. ee.type = "encryptedExtensions" /\ ee.alpn = proto
    OBVIOUS
  <1> HIDE DEF secret, m, ee
  <1>6. Digest(m) = m /\ Digest(ee) = ee
    BY <1>4, <1>5, DigestSelf
  <1>7. /\ Keeps(h, s, {"transcript"})
        /\ h.transcript = Append(s.transcript, Digest(s.hello))
    BY <1>2, HashedKeeps DEF Conn
  <1>8. IsSeq(h.transcript) /\ Unfinished(h.transcript)
    BY <1>2, <1>7, UnfinishedHashed, ConnSeq
  <1> HIDE DEF h
  <1>9. /\ Keeps(p, h, {"transcript", "sendBuf"})
         /\ p.transcript = Append(h.transcript, m)
    <2>1. DOMAIN h = ConnFields
      BY <1>7 DEF Keeps
    <2>2. /\ Keeps(p, h, {"transcript", "sendBuf"})
          /\ p.transcript = Append(h.transcript, Digest(m))
      BY <2>1, SayKeeps
    <2> QED
      BY <1>6, <2>2
  <1> HIDE DEF p
  <1>10. key.transcript = p.transcript
    BY KeyParts
  <1>11. key = clientKey(secret, key.transcript)
    BY <1>10
  <1> HIDE DEF key, other
  <1>12. /\ IsSeq(p.transcript) /\ Unfinished(p.transcript)
         /\ Len(p.transcript) \in Nat /\ Len(p.transcript) > 0
         /\ p.transcript[Len(p.transcript)] = m
    <2>1. /\ Len(h.transcript) \in Nat
          /\ Len(p.transcript) = Len(h.transcript) + 1
          /\ p.transcript[Len(h.transcript) + 1] = m
      BY <1>8, <1>9, AppendSeq
    <2>2. IsSeq(p.transcript) /\ Unfinished(p.transcript)
      BY <1>4, <1>6, <1>8, <1>9, UnfinishedHashed
    <2> QED
      BY <2>1, <2>2
  <1>13. Keeps(d, p, {"ccs", "sendBuf"})
    BY <1>9, CCSKeeps DEF Keeps
  <1> HIDE DEF d
  <1>14. /\ Keeps(q, d, {"secret", "in", "out"}) /\ q.secret = secret
         /\ q.in = key /\ q.transcript = p.transcript
    BY <1>13 DEF Keeps, ConnFields
  <1>15. Keeps(q, s, {"transcript", "sendBuf", "ccs", "secret", "in", "out"})
    BY <1>7, <1>9, <1>13, <1>14 DEF Keeps
  <1> HIDE DEF q
  <1>16. ServerState(a) /\ a.pc = "failed"
    <2>1. Conn(q)
      BY <1>12, <1>14, ConnKeeps
    <2> QED
      BY <2>1, ServerFails
  <1>17. /\ Keeps(e, q, {"transcript", "sendBuf"})
         /\ e.transcript = Append(p.transcript, ee)
    <2>1. DOMAIN q = ConnFields
      BY <1>14 DEF Keeps
    <2>2. /\ Keeps(e, q, {"transcript", "sendBuf"})
          /\ e.transcript = Append(q.transcript, Digest(ee))
      BY <2>1, SayKeeps
    <2> QED
      BY <1>6, <1>14, <2>2
  <1>18. /\ IsSeq(e.transcript) /\ Unfinished(e.transcript)
         /\ Prefix(p.transcript, e.transcript)
         /\ Len(e.transcript) = Len(p.transcript) + 1
         /\ e.transcript[Len(p.transcript) + 1] = ee
    <2>1. IsSeq(e.transcript) /\ Unfinished(e.transcript)
      BY <1>5, <1>6, <1>12, <1>17, UnfinishedHashed
    <2>2. Prefix(p.transcript, e.transcript)
      BY <1>12, <1>17, PrefixSelf, PrefixOn
    <2>3. /\ Len(e.transcript) = Len(p.transcript) + 1
          /\ e.transcript[Len(p.transcript) + 1] = ee
      BY <1>12, <1>17, AppendSeq
    <2> QED
      BY <2>1, <2>2, <2>3
  <1> HIDE DEF e, a
  <1>19. /\ Keeps(r, e, {"proto", "pc"}) /\ r.proto = proto
         /\ r.pc = "sendServerCertificate" /\ r.transcript = e.transcript
         /\ r.secret = secret /\ r.in = key
    BY <1>14, <1>17 DEF Keeps, ConnFields
  <1>20. r.suite = s.suite /\ r.usingPSK = s.usingPSK
    <2>1. Keeps(r, s, {"transcript", "sendBuf", "ccs", "secret", "in", "out",
                       "proto", "pc"})
      BY <1>15, <1>17, <1>19 DEF Keeps
    <2> QED
      BY <2>1 DEF Keeps, ConnFields
  <1> HIDE DEF r
  <1>21. Conn(r)
    BY <1>18, <1>19, ConnKeeps
  <1>22. Keyed(r, r.in, r.transcript)
    BY <1>3, <1>4, <1>10, <1>11, <1>12, <1>18, <1>19, <1>20 DEF Keyed
  <1>23. Extended(r, r.in, r.transcript)
    BY <1>5, <1>10, <1>12, <1>18, <1>19 DEF Extended
  <1>24. ServerState(r)
    BY <1>18, <1>19, <1>21, <1>22, <1>23 DEF ServerState, BeforeResumption
  <1> QED
    BY <1>1, <1>16, <1>19, <1>24 DEF ServerMoves

\* The server's keys stand and its Finished is still to come.
Certifying(x) ==
    /\ Conn(x) /\ Keyed(x, x.in, x.transcript) /\ Extended(x, x.in, x.transcript)
    /\ Unfinished(x.transcript)

LEMMA CertifyingSays ==
    ASSUME NEW x, NEW m, Certifying(x), m.type # "finished"
    PROVE  Certifying(Say(x, m)) /\ Say(x, m).usingPSK = x.usingPSK
  <1> DEFINE y == Say(x, m)
             d == Digest(m)
  <1>1. Conn(x)
    BY DEF Certifying
  <1>2. /\ Keeps(y, x, {"transcript", "sendBuf"})
        /\ y.transcript = Append(x.transcript, d)
    BY <1>1, SayKeeps DEF Conn
  <1>3. IsSeq(y.transcript) /\ Unfinished(y.transcript)
    BY <1>1, <1>2, UnfinishedHashed, ConnSeq DEF Certifying
  <1> HIDE DEF y, d
  <1>4. Alike(y, x) /\ y.in = x.in /\ y.usingPSK = x.usingPSK
    BY <1>2 DEF Keeps, ConnFields, Alike
  <1>5. Keyed(y, y.in, y.transcript) /\ Extended(y, y.in, y.transcript)
    BY <1>2, <1>4, KeyedOn, ExtendedOn DEF Certifying
  <1>6. Conn(y)
    BY <1>2, <1>3, ConnKeeps
  <1>7. Certifying(y)
    BY <1>3, <1>5, <1>6 DEF Certifying
  <1> QED
    BY <1>4, <1>7 DEF y

LEMMA CertificateMoves ==
    ASSUME ServerState(s), sendServerCertificate PROVE ServerMoves
  <1> DEFINE req == [type |-> "certificateRequest"]
             p == IF requestClientCert(s) THEN Say(s, req) ELSE s
             cert == [type |-> "certificate", cert |-> "server"]
             q == Say(p, cert)
             verify == certificateVerify(q, "server", "server")
             v == Say(q, verify)
             e == IF s.usingPSK THEN s ELSE v
             f == [e EXCEPT !.pc = "sendServerFinished"]
  <1>1. s.pc = "sendServerCertificate" /\ ServerBecomes(f)
    BY DEF sendServerCertificate, ServerDoes
  <1>2. Certifying(s)
    BY <1>1 DEF ServerState, Certifying
  <1>3. /\ req.type # "finished" /\ cert.type # "finished"
        /\ verify.type # "finished"
    BY DEF certificateVerify
  <1> HIDE DEF req, cert, verify
  <1>4. Certifying(p)
    BY <1>2, <1>3, CertifyingSays
  <1> HIDE DEF p
  <1>5. Certifying(q)
    BY <1>3, <1>4, CertifyingSays
  <1> HIDE DEF q
  <1>6. Certifying(v)
    BY <1>3, <1>5, CertifyingSays
  <1> HIDE DEF v
  <1>7. Certifying(e)
    BY <1>2, <1>6
  <1> HIDE DEF e
  <1>8. /\ Keeps(f, e, {"pc"}) /\ f.pc = "sendServerFinished"
        /\ f.transcript = e.transcript /\ f.in = e.in
    BY <1>7 DEF Certifying, Conn, Keeps, ConnFields
  <1> HIDE DEF f
  <1>9. Alike(f, e)
    BY <1>8 DEF Keeps, ConnFields, Alike
  <1>10. Conn(f)
    BY <1>7, <1>8, ConnKeeps, ConnSeq DEF Certifying
  <1>11. Keyed(f, f.in, f.transcript) /\ Extended(f, f.in, f.transcript)
    BY <1>7, <1>8, <1>9, KeyedOn, ExtendedOn DEF Certifying
  <1>12. ServerState(f)
    BY <1>7, <1>8, <1>10, <1>11 DEF ServerState, BeforeResumption, Certifying
  <1> QED
    BY <1>1, <1>8, <1>12 DEF ServerMoves

\* The server is settled, and waits for a certificate at most.
Awaiting(x) == Conn(x) /\ Settled(x, x.in, x.app, x.out, x.transcript)

\* sendSessionTickets computes the Finished of a client that settled the same.
LEMMA TicketsExpect ==
    ASSUME NEW x, Awaiting(x)
    PROVE  /\ Conn(sendSessionTickets(x)) /\ Expects(sendSessionTickets(x))
           /\ Keeps(sendSessionTickets(x), x,
                    {"transcript", "clientFinished", "sendBuf"})
  <1> DEFINE v == finishedHash(x.in, x.transcript)
             m == finishedMsg(v)
             f == [x EXCEPT !.clientFinished = v]
             q == Hashed(f, m)
             y == sendSessionTickets(x)
             t == Append(x.transcript, [type |-> "finished"])
  <1>1. y = q \/ \E k : y = Send(q, "handshake", k)
    BY Zenon DEF sendSessionTickets
  <1>2. /\ m.type = "finished" /\ v.key = x.in /\ v.transcript = x.transcript
    BY DEF finishedMsg, finishedHash
  <1>3. Conn(x) /\ DOMAIN x = ConnFields /\ IsSeq(x.transcript)
    BY ConnSeq DEF Awaiting
  <1> HIDE DEF v, m, y
  <1>4. /\ Keeps(f, x, {"clientFinished"}) /\ f.clientFinished = v
        /\ f.transcript = x.transcript /\ DOMAIN f = ConnFields
    BY <1>3 DEF Keeps, ConnFields
  <1> HIDE DEF f
  <1>5. Keeps(q, f, {"transcript"}) /\ q.transcript = t
    <2>1. /\ Keeps(q, f, {"transcript"})
          /\ q.transcript = Append(f.transcript, Digest(m))
      BY <1>4, HashedKeeps
    <2>2. Digest(m) = [type |-> "finished"]
      BY <1>2, DigestFinished
    <2> QED
      BY <1>4, <2>1, <2>2
  <1>6. IsSeq(t)
    BY <1>3, AppendSeq
  <1> HIDE DEF q
  <1>7. Keeps(y, q, {"sendBuf"})
    <2>1. DOMAIN q = ConnFields
      BY <1>5 DEF Keeps
    <2>2. CASE y = q
      BY <2>1, <2>2 DEF Keeps
    <2>3. CASE \E k : y = Send(q, "handshake", k)
      BY <2>1, <2>3, SendKeeps
    <2> QED
      BY <1>1, <2>2, <2>3
  <1> HIDE DEF t
  <1>8. Keeps(y, x, {"transcript", "clientFinished", "sendBuf"})
    BY <1>4, <1>5, <1>7 DEF Keeps
  <1>9. /\ y.transcript = t /\ y.clientFinished = v
    BY <1>4, <1>5, <1>7 DEF Keeps, ConnFields
  <1>10. Alike(y, x) /\ y.app = x.app /\ y.out = x.out
    BY <1>8 DEF Keeps, ConnFields, Alike
  <1>11. Settled(y, x.in, x.app, x.out, x.transcript)
    BY <1>10, SettledOn DEF Awaiting
  <1>12. Expects(y)
    BY <1>2, <1>9, <1>10, <1>11 DEF Expects, Completed, t
  <1>13. Conn(y)
    BY <1>6, <1>8, <1>9, ConnKeeps
  <1> QED
    BY <1>8, <1>12, <1>13 DEF y

\* r is x at another step.
LEMMA AwaitingOn ==
    ASSUME NEW x, NEW r, Keeps(r, x, {"pc", "buffering", "peerCerts"}), Conn(x)
    PROVE  /\ Conn(r) /\ r.usingPSK = x.usingPSK
           /\ Awaiting(x) => Awaiting(r)
           /\ Expects(x) => Expects(r)
  <1>1. /\ Alike(r, x) /\ r.in = x.in /\ r.app = x.app /\ r.out = x.out
        /\ r.clientFinished = x.clientFinished /\ r.transcript = x.transcript
        /\ r.usingPSK = x.usingPSK
    BY DEF Keeps, ConnFields, Alike
  <1>2. Conn(r)
    BY <1>1, ConnKeeps, ConnSeq
  <1>3. Awaiting(x) => Awaiting(r)
    BY <1>1, <1>2, SettledOn DEF Awaiting
  <1>4. Expects(x) => Expects(r)
    BY <1>1, ExpectsOn
  <1> QED
    BY <1>1, <1>2, <1>3, <1>4

LEMMA FinishedMoves ==
    ASSUME ServerState(s), sendServerFinished PROVE ServerMoves
  <1> DEFINE m == finishedMsg(finishedHash(s.out, s.transcript))
             p == Say(s, m)
             app == clientAppKey(s.secret, p.transcript)
             other == serverAppKey(s.secret, p.transcript)
             q == [p EXCEPT !.app = app, !.out = other]
             k == sendSessionTickets(q)
             r == IF requestClientCert(s) THEN q ELSE k
             f == [r EXCEPT !.pc = "readClientCertificate", !.buffering = FALSE]
  <1>1. s.pc = "sendServerFinished" /\ ServerBecomes(f)
    BY Zenon DEF sendServerFinished, ServerDoes, clientAppKey, serverAppKey
  <1>2. Certifying(s) /\ Conn(s)
    BY <1>1 DEF ServerState, Certifying
  <1>3. m.type = "finished"
    BY DEF finishedMsg
  <1> HIDE DEF m
  <1> DEFINE d == Digest(m)
  <1>4. d.type = "finished"
    BY <1>3, DigestFinished
  <1>5. /\ Keeps(p, s, {"transcript", "sendBuf"})
        /\ p.transcript = Append(s.transcript, d)
    BY <1>2, SayKeeps DEF Conn
  <1> HIDE DEF p, d
  <1>6. IsSeq(p.transcript)
    BY <1>2, <1>5, AppendSeq, ConnSeq
  <1>7. Alike(s, s)
    BY DEF Alike
  <1>8. Settled(s, s.in, app, other, p.transcript)
    BY <1>2, <1>4, <1>5, <1>7, NowSettled DEF Certifying
  <1> HIDE DEF app, other
  <1>9. /\ Keeps(q, p, {"app", "out"}) /\ q.app = app /\ q.out = other
        /\ q.transcript = p.transcript
    BY <1>5 DEF Keeps, ConnFields
  <1> HIDE DEF q
  <1>10. Keeps(q, s, {"transcript", "sendBuf", "app", "out"})
    BY <1>5, <1>9 DEF Keeps
  <1>11. Alike(q, s) /\ q.in = s.in /\ q.usingPSK = s.usingPSK
    BY <1>10 DEF Keeps, ConnFields, Alike
  <1>12. Awaiting(q)
    <2>1. Conn(q)
      BY <1>6, <1>9, ConnKeeps
    <2>2. Settled(q, s.in, app, other, p.transcript)
      BY <1>8, <1>11, SettledOn
    <2> QED
      BY <1>9, <1>11, <2>1, <2>2 DEF Awaiting
  <1>13. /\ Conn(k) /\ Expects(k)
         /\ Keeps(k, q, {"transcript", "clientFinished", "sendBuf"})
    BY <1>12, TicketsExpect
  <1> HIDE DEF k
  <1>14. k.usingPSK = s.usingPSK
    BY <1>11, <1>13 DEF Keeps, ConnFields
  <1>15. /\ Conn(r) /\ r.usingPSK = s.usingPSK
         /\ requestClientCert(s) => Awaiting(r)
         /\ ~requestClientCert(s) => Expects(r)
    BY <1>11, <1>12, <1>13, <1>14 DEF Awaiting
  <1> HIDE DEF r
  <1>16. /\ Keeps(f, r, {"pc", "buffering", "peerCerts"})
         /\ f.pc = "readClientCertificate"
    BY <1>15 DEF Conn, Keeps, ConnFields
  <1> HIDE DEF f
  <1>17. /\ Conn(f) /\ f.usingPSK = r.usingPSK
         /\ Awaiting(r) => Awaiting(f)
         /\ Expects(r) => Expects(f)
    BY <1>15, <1>16, AwaitingOn
  <1>18. requestClientCert(f) <=> requestClientCert(s)
    BY <1>15, <1>17 DEF requestClientCert
  <1>19. ServerState(f)
    BY <1>15, <1>16, <1>17, <1>18 DEF ServerState, BeforeResumption, Awaiting
  <1> QED
    BY <1>1, <1>16, <1>19 DEF ServerMoves

LEMMA SkipMoves ==
    ASSUME ServerState(s), SkipClientCertificate PROVE ServerMoves
  <1> DEFINE r == [s EXCEPT !.pc = "readClientFinished"]
             a == Alert(s, "bad_certificate")
  <1>1. /\ s.pc = "readClientCertificate" /\ ~requestClientCert(s)
        /\ ServerBecomes(a) \/ ServerBecomes(r)
    BY DEF SkipClientCertificate, ServerDoes
  <1>2. Conn(s) /\ Expects(s)
    BY <1>1 DEF ServerState
  <1>3. ServerState(a) /\ a.pc = "failed"
    BY <1>2, ServerFails
  <1>4. /\ Keeps(r, s, {"pc", "buffering", "peerCerts"})
        /\ r.pc = "readClientFinished"
    BY <1>2 DEF Conn, Keeps, ConnFields
  <1> HIDE DEF r, a
  <1>5. Conn(r) /\ Expects(r)
    BY <1>2, <1>4, AwaitingOn
  <1>6. ServerState(r)
    BY <1>4, <1>5 DEF ServerState, BeforeResumption
  <1> QED
    BY <1>1, <1>3, <1>4, <1>6 DEF ServerMoves

LEMMA AwaitingHashed ==
    ASSUME NEW x, NEW m, Awaiting(x)
    PROVE  Awaiting(Hashed(x, m)) /\ Hashed(x, m).pc = x.pc
  <1> DEFINE y == Hashed(x, m)
             d == Digest(m)
  <1>1. DOMAIN x = ConnFields /\ IsSeq(x.transcript)
    BY ConnSeq DEF Awaiting
  <1>2. Keeps(y, x, {"transcript"}) /\ y.transcript = Append(x.transcript, d)
    BY <1>1, HashedKeeps
  <1> HIDE DEF y, d
  <1>3. /\ Alike(y, x) /\ y.in = x.in /\ y.app = x.app /\ y.out = x.out
        /\ y.pc = x.pc
    BY <1>2 DEF Keeps, ConnFields, Alike
  <1>4. IsSeq(y.transcript)
    BY <1>1, <1>2, AppendSeq
  <1>5. Conn(y)
    BY <1>2, <1>4, ConnKeeps
  <1>6. Settled(y, y.in, y.app, y.out, y.transcript)
    BY <1>2, <1>3, SettledOn DEF Awaiting
  <1> QED
    BY <1>3, <1>5, <1>6 DEF y, Awaiting

\* From a settled server to one that waits for Finished.
LEMMA NowExpects ==
    ASSUME NEW x, Awaiting(x)
    PROVE  ServerState([sendSessionTickets(x) EXCEPT !.pc = "readClientFinished"])
           /\ [sendSessionTickets(x) EXCEPT !.pc = "readClientFinished"].pc
                 = "readClientFinished"
  <1> DEFINE k == sendSessionTickets(x)
             r == [k EXCEPT !.pc = "readClientFinished"]
  <1>1. Conn(k) /\ Expects(k)
    BY TicketsExpect
  <1> HIDE DEF k
  <1>2. /\ Keeps(r, k, {"pc", "buffering", "peerCerts"})
        /\ r.pc = "readClientFinished"
    BY <1>1 DEF Conn, Keeps, ConnFields
  <1> HIDE DEF r
  <1>3. Conn(r) /\ Expects(r)
    BY <1>1, <1>2, AwaitingOn
  <1>4. ServerState(r)
    BY <1>2, <1>3 DEF ServerState, BeforeResumption
  <1> QED
    BY <1>2, <1>4 DEF r, k

LEMMA ReadClientCertificateMoves ==
    ASSUME ServerState(s), readClientCertificate PROVE ServerMoves
  <1> DEFINE rec == Head(toServer)
             m == rec.msg
             g == Receive(s, rec, {"certificate"})
             E(x) == [x EXCEPT !.pc = "readClientCertificateVerify"]
             K(x) == [sendSessionTickets(x) EXCEPT !.pc = "readClientFinished"]
             A(x) == Alert(x, "bad_certificate")
             G(x) == CASE conf.serverVetoes -> A(x)
                       [] ~conf.serverVetoes /\ m.cert # "none" -> E(x)
                       [] ~conf.serverVetoes /\ m.cert = "none" -> K(x)
             P(x) == processCertsFromClient(Hashed(x, m), m.cert)
             h == Hashed(s, m)
             q == processCertsFromClient(h, m.cert)
  <1>1. /\ s.pc = "readClientCertificate" /\ requestClientCert(s)
        /\ \/ g.pc = "failed" /\ ServerBecomes(g)
           \/ g.pc # "failed" /\
                ServerBecomes(IF P(g).pc = "failed" THEN P(g) ELSE G(P(g)))
    BY DEF readClientCertificate, ServerReads, Then
  <1>2. Awaiting(s) /\ Conn(s)
    BY <1>1 DEF ServerState, Awaiting
  <1>3. \/ g = s /\ rec.msg.type \in {"certificate"} /\ rec.typ # "alert"
        \/ ServerState(g) /\ g.pc = "failed"
    BY <1>1, <1>2, ServerReceives
  <1>4. CASE ServerState(g) /\ g.pc = "failed"
    BY <1>1, <1>4, ServerFailing
  <1>5. CASE g = s
    <2>1. ServerBecomes(IF q.pc = "failed" THEN q ELSE G(q))
      BY <1>1, <1>5
    <2>2. Awaiting(h) /\ h.pc = s.pc
      BY <1>2, AwaitingHashed
    <2> HIDE DEF h, m
    <2>3. Processed(q, h)
      BY <2>2, ServerProcesses DEF Awaiting
    <2> HIDE DEF q
    <2>4. CASE ServerState(q) /\ q.pc = "failed"
      BY <1>1, <2>1, <2>4, ServerFailing
    <2>5. CASE Keeps(q, h, {"peerCerts"}) /\ q.transcript = h.transcript
      <3>1. q.pc = s.pc /\ Keeps(q, h, {"pc", "buffering", "peerCerts"})
        BY <2>2, <2>5 DEF Keeps, ConnFields
      <3>2. Awaiting(q) /\ Conn(q)
        BY <2>2, <3>1, AwaitingOn DEF Awaiting
      <3>3. ServerBecomes(A(q)) \/ ServerBecomes(E(q)) \/ ServerBecomes(K(q))
        <4> HIDE DEF A, E, K
        <4>1. ServerBecomes(G(q))
          BY <1>1, <2>1, <3>1
        <4>2. CASE conf.serverVetoes
          BY <4>1, <4>2
        <4>3. CASE ~conf.serverVetoes /\ m.cert # "none"
          BY <4>1, <4>3
        <4>4. CASE ~conf.serverVetoes /\ m.cert = "none"
          BY <4>1, <4>4
        <4> QED
          BY <4>2, <4>3, <4>4
      <3>4. ServerState(A(q)) /\ A(q).pc = "failed"
        BY <3>2, ServerFails
      <3>5. ServerState(K(q)) /\ K(q).pc = "readClientFinished"
        BY <3>2, NowExpects
      <3>6. ServerState(E(q)) /\ E(q).pc = "readClientCertificateVerify"
        <4> DEFINE e == E(q)
        <4>1. /\ Keeps(e, q, {"pc", "buffering", "peerCerts"})
              /\ e.pc = "readClientCertificateVerify"
          BY <3>2 DEF Conn, Keeps, ConnFields
        <4> HIDE DEF e
        <4>2. Awaiting(e)
          BY <3>2, <4>1, AwaitingOn
        <4>3. ServerState(e)
          BY <4>1, <4>2 DEF ServerState, BeforeResumption, Awaiting
        <4> QED
          BY <4>1, <4>3 DEF e
      <3> HIDE DEF A, E, K
      <3> QED
        BY <1>1, <3>3, <3>4, <3>5, <3>6 DEF ServerMoves
    <2> QED
      BY <2>3, <2>4, <2>5 DEF Processed
  <1> QED
    BY <1>3, <1>4, <1>5

LEMMA ReadClientVerifyMoves ==
    ASSUME ServerState(s), ReadClientCertificateVerify PROVE ServerMoves
  <1> DEFINE rec == Head(toServer)
             m == rec.msg
             g == Receive(s, rec, {"certificateVerify"})
             K(x) == [sendSessionTickets(x) EXCEPT !.pc = "readClientFinished"]
             h == Hashed(s, m)
             a == Alert(s, "decrypt_error")
  <1>1. /\ s.pc = "readClientCertificateVerify"
        /\ \/ g.pc = "failed" /\ ServerBecomes(g)
           \/ g.pc # "failed" /\ ServerBecomes(Alert(g, "decrypt_error"))
           \/ g.pc # "failed" /\ ServerBecomes(K(Hashed(g, m)))
    BY DEF ReadClientCertificateVerify, ServerReads, Then
  <1>2. Awaiting(s) /\ Conn(s)
    BY <1>1 DEF ServerState, Awaiting
  <1>3. \/ g = s /\ rec.msg.type \in {"certificateVerify"} /\ rec.typ # "alert"
        \/ ServerState(g) /\ g.pc = "failed"
    BY <1>1, <1>2, ServerReceives
  <1>4. CASE ServerState(g) /\ g.pc = "failed"
    BY <1>1, <1>4, ServerFailing
  <1>5. CASE g = s
    <2>1. ServerBecomes(a) \/ ServerBecomes(K(h))
      BY <1>1, <1>5
    <2>2. Awaiting(h)
      BY <1>2, AwaitingHashed
    <2> HIDE DEF h
    <2>3. ServerState(K(h)) /\ K(h).pc = "readClientFinished"
      BY <2>2, NowExpects
    <2>4. ServerState(a) /\ a.pc = "failed"
      BY <1>2, ServerFails
    <2> HIDE DEF K, a
    <2> QED
      BY <1>1, <2>1, <2>3, <2>4 DEF ServerMoves
  <1> QED
    BY <1>3, <1>4, <1>5

\* What the server takes off the wire leaves the rest in order.
LEMMA WireTail ==
    ASSUME NEW p, NEW ts, WireOK(p, ts), ts # <<>>
    PROVE  WireOK(p, Tail(ts)) /\ 1 \in DOMAIN ts /\ Head(ts) = ts[1]
  <1>1. /\ IsSeq(Tail(ts)) /\ 1 \in DOMAIN ts /\ Head(ts) = ts[1]
        /\ \A i \in DOMAIN Tail(ts) : \E j \in DOMAIN ts : Tail(ts)[i] = ts[j]
    BY TailSeq DEF WireOK
  <1> DEFINE u == Tail(ts)
  <1>2. /\ IsSeq(u) /\ \A i \in DOMAIN u : \E j \in DOMAIN ts : u[i] = ts[j]
    BY <1>1
  <1> HIDE DEF u
  <1>3. WireOK(p, u)
    BY <1>2 DEF WireOK
  <1> QED
    BY <1>1, <1>3 DEF u

\* The server takes the client's messages off the wire one by one, and its
\* first step takes one.
LEMMA ServerTakes ==
    ASSUME ServerNext
    PROVE  /\ \/ toServer' = toServer
              \/ toServer # <<>> /\ toServer' = Tail(toServer)
           /\ s.pc = "clientHello" => toServer # <<>>
  <1>1. CASE ReadClientHello
    BY <1>1 DEF ReadClientHello, ServerReads
  <1>2. CASE ReadSecondClientHello
    BY <1>2 DEF ReadSecondClientHello, ServerReads
  <1>3. CASE readClientCertificate
    BY <1>3 DEF readClientCertificate, ServerReads
  <1>4. CASE ReadClientCertificateVerify
    BY <1>4 DEF ReadClientCertificateVerify, ServerReads
  <1>5. CASE readClientFinished
    BY <1>5 DEF readClientFinished, ServerReads
  <1>6. CASE ServerDropsCCS
    BY <1>6 DEF ServerDropsCCS
  <1>7. CASE checkForResumption
    BY <1>7 DEF checkForResumption, ServerDoes
  <1>8. CASE pickCertificate
    BY <1>8 DEF pickCertificate, ServerDoes
  <1>9. CASE sendServerParameters
    BY <1>9, Zenon DEF sendServerParameters, ServerDoes
  <1>10. CASE sendServerCertificate
    BY <1>10 DEF sendServerCertificate, ServerDoes
  <1>11. CASE sendServerFinished
    BY <1>11, Zenon DEF sendServerFinished, ServerDoes
  <1>12. CASE SkipClientCertificate
    BY <1>12 DEF SkipClientCertificate, ServerDoes
  <1> QED
    BY <1>1, <1>2, <1>3, <1>4, <1>5, <1>6, <1>7, <1>8, <1>9, <1>10, <1>11,
       <1>12 DEF ServerNext

LEMMA ServerWire ==
    ASSUME WireOK(c, toServer), ServerNext PROVE WireOK(c', toServer')
  <1>1. c' = c
    BY ServerLeavesClient
  <1>2. \/ toServer' = toServer
        \/ toServer # <<>> /\ toServer' = Tail(toServer)
    BY ServerTakes
  <1>3. CASE toServer' = toServer
    BY <1>1, <1>3
  <1>4. CASE toServer # <<>> /\ toServer' = Tail(toServer)
    BY <1>1, <1>4, WireTail
  <1> QED
    BY <1>2, <1>3, <1>4

LEMMA ServerMovesAgree ==
    ASSUME ServerMoves PROVE ServerState(s)' /\ Agreement'
  <1>1. PICK p : ServerState(p) /\ p.pc # "done" /\ ServerBecomes(p)
    BY DEF ServerMoves
  <1>2. ServerState(s)' /\ s'.pc = p.pc
    BY <1>1, ServerOn
  <1> QED
    BY <1>1, <1>2 DEF Agreement

\* The server accepts the Finished it computed, and the client sent it.
LEMMA ReadFinishedAgrees ==
    ASSUME ServerState(s), WireOK(c, toServer), readClientFinished
    PROVE  ServerState(s)' /\ Agreement'
  <1> DEFINE rec == Head(toServer)
             m == rec.msg
             g == Receive(s, rec, {"finished"})
             R(x) == [x EXCEPT !.in = x.app, !.pc = "done"]
             r == R(s)
             a == Alert(s, "decrypt_error")
  <1>1. /\ s.pc = "readClientFinished" /\ toServer # <<>> /\ rec.typ # "ccs"
        /\ \/ g.pc = "failed" /\ ServerBecomes(g)
           \/ g.pc # "failed" /\ ServerBecomes(Alert(g, "decrypt_error"))
           \/ /\ g.pc # "failed" /\ ServerBecomes(R(g))
              /\ m.verifyData = g.clientFinished
    BY DEF readClientFinished, ServerReads, Then
  <1>2. Expects(s) /\ Conn(s)
    BY <1>1 DEF ServerState
  <1>3. \/ g = s /\ rec.msg.type \in {"finished"} /\ rec.typ # "alert"
        \/ ServerState(g) /\ g.pc = "failed"
    BY <1>1, <1>2, ServerReceives
  <1>4. CASE ServerState(g) /\ g.pc = "failed"
    BY <1>1, <1>4, ServerFailing, ServerMovesAgree
  <1>5. CASE g = s /\ rec.msg.type \in {"finished"} /\ rec.typ # "alert"
    <2>1. \/ ServerBecomes(a)
          \/ ServerBecomes(r) /\ m.verifyData = s.clientFinished
      BY <1>1, <1>5
    <2>2. ServerState(a) /\ a.pc = "failed"
      BY <1>2, ServerFails
    <2>3. CASE ServerBecomes(a)
      BY <1>1, <2>2, <2>3, ServerFailing, ServerMovesAgree
    <2>4. CASE ServerBecomes(r) /\ m.verifyData = s.clientFinished
      <3>1. IsFinished(rec)
        BY <1>1, <1>5 DEF IsFinished
      <3>2. c.pc = "done" /\ Completed(c, m.verifyData, c.out, c.in)
        <4>1. 1 \in DOMAIN toServer /\ rec = toServer[1]
          BY <1>1, WireTail
        <4> HIDE DEF rec
        <4> QED
          BY <3>1, <4>1 DEF WireOK
      <3>3. Completed(s, m.verifyData, s.app, s.out)
        BY <1>2, <2>4 DEF Expects
      <3>4. /\ c.suite = s.suite /\ c.proto = s.proto
            /\ c.usingPSK = s.usingPSK /\ c.secret = s.secret
            /\ c.transcript = s.transcript /\ c.out = s.app /\ c.in = s.out
        BY <3>2, <3>3, OneFinished
      <3>5. /\ Keeps(r, s, {"in", "pc"}) /\ r.in = s.app /\ r.pc = "done"
        BY <1>2 DEF Conn, Keeps, ConnFields
      <3> HIDE DEF r
      <3>6. ServerState(r)
        <4>1. r.transcript = s.transcript
          BY <3>5 DEF Keeps, ConnFields
        <4>2. Conn(r)
          BY <1>2, <3>5, <4>1, ConnKeeps, ConnSeq
        <4> QED
          BY <3>5, <4>2 DEF ServerState, BeforeResumption
      <3>7. ServerState(s)'
        BY <2>4, <3>6, ServerOn
      <3>8. Keeps(s', r, {"sendBuf"}) /\ c' = c
        BY <2>4, <3>5 DEF ServerBecomes, Keeps, ConnFields
      <3>9. Keeps(s', s, {"in", "pc", "sendBuf"}) /\ s'.in = s.app
        BY <3>5, <3>8 DEF Keeps, ConnFields
      <3>10. /\ s'.suite = s.suite /\ s'.proto = s.proto
             /\ s'.usingPSK = s.usingPSK /\ s'.secret = s.secret
             /\ s'.transcript = s.transcript /\ s'.out = s.out
        BY <3>9 DEF Keeps, ConnFields
      <3>11. Agreement'
        BY <3>2, <3>4, <3>8, <3>9, <3>10 DEF Agreement
      <3> QED
        BY <3>7, <3>11
    <2> QED
      BY <2>1, <2>3, <2>4
  <1> QED
    BY <1>3, <1>4, <1>5

LEMMA ServerStepAgrees ==
    ASSUME AgreeInv, ServerNext PROVE ServerState(s)' /\ Agreement'
  <1>1. ServerState(s) /\ WireOK(c, toServer) /\ Agreement
    BY DEF AgreeInv
  <1>2. CASE ServerMoves
    BY <1>2, ServerMovesAgree
  <1>3. CASE readClientFinished
    BY <1>1, <1>3, ReadFinishedAgrees
  <1>4. CASE ServerDropsCCS
    <2>1. UNCHANGED <<conf, c, s>>
      BY <1>4 DEF ServerDropsCCS
    <2> QED
      BY <1>1, <2>1 DEF ServerState, Agreement, requestClientCert
  <1> QED
    BY <1>1, <1>2, <1>3, <1>4, ReadClientHelloMoves, ReadSecondClientHelloMoves,
       ResumptionMoves, PickMoves, ParametersMove, CertificateMoves,
       FinishedMoves, SkipMoves, ReadClientCertificateMoves,
       ReadClientVerifyMoves DEF ServerNext

LEMMA AgreeInit == ASSUME Init PROVE AgreeInv
  <1>1. /\ DOMAIN c = ConnFields /\ DOMAIN s = ConnFields
    BY NewConnFields DEF Init
  <1>2. /\ c.pc = "clientHandshake" /\ c.transcript = <<>> /\ c.sendBuf = <<>>
        /\ s.pc = "clientHello" /\ s.transcript = <<>> /\ toServer = <<>>
    BY DEF Init, NewConn
  <1>3. IsSeq(<<>>) /\ DOMAIN <<>> = {}
    BY ShortSeq
  <1>4. Mute(c) /\ Unfinished(c.transcript) /\ Unfinished(s.transcript)
    BY <1>1, <1>2, <1>3 DEF Mute, Unfinished
  <1>5. Conn(s)
    BY <1>1, <1>2, <1>3 DEF Conn, IsSeq
  <1>6. ClientState(c)
    BY <1>2, <1>4 DEF ClientState
  <1>7. ServerState(s)
    BY <1>2, <1>4, <1>5 DEF ServerState, BeforeResumption
  <1>8. WireOK(c, toServer)
    BY <1>2, <1>3 DEF WireOK
  <1>9. Agreement
    BY <1>2 DEF Agreement
  <1> QED
    BY <1>6, <1>7, <1>8, <1>9 DEF AgreeInv

LEMMA AgreeStep == ASSUME AgreeInv, [Next]_vars PROVE AgreeInv'
  <1>1. CASE ClientNext
    <2>1. /\ ClientState(c') /\ WireOK(c', toServer')
          /\ c.pc # "done" \/ c' = c
      BY <1>1, ClientStepAgrees DEF AgreeInv
    <2>2. s' = s /\ conf' = conf
      BY <1>1, ClientLeavesServer
    <2>3. ServerState(s)'
      BY <2>2 DEF AgreeInv, ServerState, requestClientCert
    <2>4. Agreement'
      BY <2>1, <2>2 DEF AgreeInv, Agreement
    <2> QED
      BY <2>1, <2>3, <2>4 DEF AgreeInv
  <1>2. CASE ServerNext
    <2>1. ServerState(s)' /\ Agreement'
      BY <1>2, ServerStepAgrees
    <2>2. WireOK(c', toServer')
      BY <1>2, ServerWire DEF AgreeInv
    <2>3. ClientState(c')
      BY <1>2, ServerLeavesClient DEF AgreeInv
    <2> QED
      BY <2>1, <2>2, <2>3 DEF AgreeInv
  <1>3. CASE UNCHANGED vars
    <2>1. c' = c /\ s' = s /\ conf' = conf /\ toServer' = toServer
      BY <1>3 DEF vars
    <2>2. ClientState(c)' /\ WireOK(c, toServer)'
      BY <2>1 DEF AgreeInv
    <2>3. ServerState(s)' /\ Agreement'
      BY <2>1 DEF AgreeInv, ServerState, requestClientCert, Agreement
    <2> QED
      BY <2>2, <2>3 DEF AgreeInv
  <1> QED
    BY <1>1, <1>2, <1>3 DEF Next

\* Whatever the configurations, and however the steps of the two ends
\* interleave: a server whose handshake is done faces a client whose handshake
\* is done with the same messages, suite, protocol, secret and keys.
THEOREM AgreementSafety == Spec => []Agreement
  <1>1. Init => AgreeInv
    BY AgreeInit
  <1>2. AgreeInv /\ [Next]_vars => AgreeInv'
    BY AgreeStep
  <1>3. AgreeInv => Agreement
    BY DEF AgreeInv
  <1> QED
    BY <1>1, <1>2, <1>3, PTL DEF Spec

-----------------------------------------------------------------------------
(* Tickets.  A client that accepts the server's Finished has settled what  *)
(* the server has, and what either end hashes after it is fixed by the     *)
(* client's certificate; so the transcript that a ticket's secret covers   *)
(* is known before the ends reach it.  k is the configuration.             *)

\* The records of sequence b.
Recs(b) == {b[i] : i \in DOMAIN b}

Requests(t) == \E i \in DOMAIN t : t[i].type = "certificateRequest"

\* The server asks for a certificate.
Asks(k, p) == k.auth >= 1 /\ ~p.usingPSK

certMsg(k) == [type |-> "certificate", cert |-> k.clientCert]
Fin == [type |-> "finished"]

\* The transcript that follows t, one that ends with the server's Finished:
\* with the client's certificate, before and after the client's Finished.
Shown(k, t) == Append(t, certMsg(k))
Before(k, t) ==
    IF ~Requests(t) THEN t
    ELSE IF k.clientCert = "none" THEN Shown(k, t)
    ELSE Append(Shown(k, t), [type |-> "certificateVerify", by |-> k.clientCert])
Full(k, t) == Append(Before(k, t), Fin)

resumptionSecret(secret, t) == deriveSecret(secret, "res master", t)

\* A hello of a client that offers session.
GoodHello(k, session, m) ==
    /\ {"type", "pskModes", "psk"} \subseteq DOMAIN m
    /\ m.type = "clientHello" /\ m.pskModes = k.caching
    /\ m.psk = None \/ m.psk = session.ticket

\* Records without a message; what a client may write; a server's tickets,
\* and the rest of its messages.
Noise(r) == r.typ \in {"alert", "ccs"}
Said(k, session, r) ==
    ~Noise(r) =>
       /\ r.msg.type = "clientHello" => GoodHello(k, session, r.msg)
       /\ r.msg.type = "certificate" => r.msg = certMsg(k)
IsTicket(r) == ~Noise(r) /\ r.msg.type = "newSessionTicket"
InFlight(r) == ~Noise(r) /\ r.msg.type # "newSessionTicket"
Quiet(r) == ~IsFinished(r) /\ ~IsTicket(r)

\* Before the server's Finished is accepted, and after.
Reading == {"clientHandshake", "serverHello", "secondServerHello",
            "processServerHello", "establishHandshakeKeys", "serverParameters",
            "serverCertificate", "certificateVerify", "serverFinished",
            "clientCertificate"}
Accepted == {"clientCertificate", "clientFinished", "done"}

ClientTicket(k, p) ==
    /\ p.pc \in {"serverHello", "helloRetryRequest"} =>
          GoodHello(k, p.session, p.hello)
    /\ p.pc \in {"clientHandshake", "serverHello", "helloRetryRequest"} =>
          p.certReq = FALSE
    /\ p.pc \in Reading => (p.certReq = TRUE <=> Requests(p.transcript))
    /\ p.pc \in {"serverParameters", "serverCertificate", "certificateVerify",
                 "serverFinished"} =>
          p.in.secret = p.secret /\ p.in.transcript = p.out.transcript
    /\ p.pc = "clientCertificate" => p.transcript = p.app.transcript
    /\ p.pc = "clientFinished" => p.transcript = Before(k, p.app.transcript)
    /\ p.pc = "done" =>
          /\ p.transcript = Full(k, p.app.transcript)
          /\ k.caching => p.resumption = resumptionSecret(p.secret, p.transcript)

\* The server has sent its Finished, or failed.
After == {"readClientCertificate", "readClientCertificateVerify",
          "readClientFinished", "done", "failed"}

\* Certificates the client of this connection has shown, now or before.
Showed(k, session, p, certs) ==
    \/ certs \in {"none", k.clientCert}
    \/ p.usingPSK /\ certs = session.ticket.certs

ServerTicket(k, session, p) ==
    /\ p.pc \notin {"clientHello", "failed"} => GoodHello(k, session, p.hello)
    /\ p.pc # "failed" => Showed(k, session, p, p.peerCerts)
    /\ p.pc \in {"clientHello", "secondClientHello", "checkForResumption",
                 "pickCertificate", "sendServerParameters",
                 "sendServerCertificate"} => ~Requests(p.transcript)
    /\ p.pc = "sendServerFinished" => (Requests(p.transcript) <=> Asks(k, p))
    /\ p.pc \in {"sendServerCertificate", "sendServerFinished"} =>
          p.out.secret = p.secret /\ p.out.transcript = p.in.transcript
    /\ p.pc = "readClientCertificate" /\ Asks(k, p) =>
          p.transcript = p.app.transcript /\ Requests(p.app.transcript)
    /\ p.pc = "readClientCertificateVerify" =>
          /\ k.clientCert # "none" /\ p.peerCerts = k.clientCert
          /\ p.transcript = Shown(k, p.app.transcript)
          /\ Requests(p.app.transcript)

\* What waits in the server's sendBuf: no Finished, no ticket.
ServerBuf(p) ==
    /\ IsSeq(p.sendBuf)
    /\ p.pc \notin After => \A r \in Recs(p.sendBuf) : Quiet(r)
    /\ p.pc \in After \ {"failed"} => p.buffering = FALSE /\ p.sendBuf = <<>>

\* v is the MAC of p's server Finished, and r its ticket.
Finishes(p, v) ==
    /\ v.key.secret = p.secret
    /\ v.key.transcript[Len(v.key.transcript)].psk = p.usingPSK
    /\ p.app = clientAppKey(p.secret, p.app.transcript)
    /\ p.out = serverAppKey(p.secret, p.app.transcript)
    /\ p.app.transcript = Append(v.transcript, Fin)

TicketOK(k, session, p, r) ==
    /\ k.caching /\ r.key = p.out
    /\ r.msg.secret = resumptionSecret(p.secret, Full(k, p.app.transcript))
    /\ Showed(k, session, p, r.msg.certs)

\* Nothing but tickets follows the server's Finished.
Ordered(ts) ==
    \A i, j \in DOMAIN ts : i < j /\ IsFinished(ts[i]) => ~InFlight(ts[j])

TicketWire(k, session, p, ts) ==
    /\ IsSeq(ts) /\ Ordered(ts)
    /\ \A r \in Recs(ts) :
          /\ IsFinished(r) => p.pc \in After /\ Finishes(p, r.msg.verifyData)
          /\ IsTicket(r) => p.pc \in After /\ TicketOK(k, session, p, r)

\* A client that has accepted the Finished has settled what the server has.
Joined(p, q, ts) ==
    p.pc \in Accepted =>
       /\ q.pc \in After /\ p.app = q.app /\ p.in = q.out
       /\ p.secret = q.secret /\ p.usingPSK = q.usingPSK
       /\ \A r \in Recs(ts) : ~InFlight(r)

SaidOn(k, session, ts) == IsSeq(ts) /\ \A r \in Recs(ts) : Said(k, session, r)

Fresh(p, q, ts) ==
    p.pc = "clientHandshake" =>
       p.sendBuf = <<>> /\ ts = <<>> /\ q.pc = "clientHello"

TicketInv ==
    /\ ClientTicket(conf, c) /\ ServerTicket(conf, c.session, s) /\ ServerBuf(s)
    /\ SaidOn(conf, c.session, c.sendBuf) /\ SaidOn(conf, c.session, toServer)
    /\ TicketWire(conf, c.session, s, toClient)
    /\ Joined(c, s, toClient) /\ Fresh(c, s, toServer)

LEMMA RecsShort == IsSeq(<<>>) /\ Recs(<<>>) = {}
  <1>1. IsSeq(<<>>) /\ DOMAIN <<>> = {}
    BY ShortSeq
  <1> QED
    BY <1>1 DEF Recs

LEMMA RecsAppend ==
    ASSUME NEW b, NEW x, IsSeq(b)
    PROVE  IsSeq(Append(b, x)) /\ Recs(Append(b, x)) = Recs(b) \cup {x}
  <1> DEFINE u == Append(b, x)
  <1>1. /\ IsSeq(u) /\ Len(b) \in Nat /\ DOMAIN b = 1 .. Len(b)
        /\ DOMAIN u = 1 .. (Len(b) + 1) /\ u[Len(b) + 1] = x
        /\ \A i \in 1 .. Len(b) : u[i] = b[i]
    BY AppendSeq
  <1> HIDE DEF u
  <1>2. ASSUME NEW i \in DOMAIN u PROVE u[i] \in Recs(b) \cup {x}
    <2>1. CASE i = Len(b) + 1
      BY <1>1, <2>1
    <2>2. CASE i # Len(b) + 1
      BY <1>1, <2>2 DEF Recs
    <2> QED
      BY <2>1, <2>2
  <1>3. x \in Recs(u) /\ \A i \in DOMAIN b : b[i] \in Recs(u)
    <2>1. Len(b) + 1 \in DOMAIN u
      BY <1>1
    <2>2. ASSUME NEW i \in DOMAIN b PROVE b[i] \in Recs(u)
      <3>1. i \in DOMAIN u /\ u[i] = b[i]
        BY <1>1
      <3> QED
        BY <3>1 DEF Recs
    <2> QED
      BY <1>1, <2>1, <2>2 DEF Recs
  <1>4. Recs(u) = Recs(b) \cup {x}
    BY <1>2, <1>3 DEF Recs
  <1> QED
    BY <1>1, <1>4 DEF u

LEMMA RecsConcat ==
    ASSUME NEW t, NEW u, IsSeq(t), IsSeq(u)
    PROVE  IsSeq(t \o u) /\ Recs(t \o u) \subseteq Recs(t) \cup Recs(u)
  <1> DEFINE w == t \o u
  <1>1. Joins(w, t, u)
    BY ConcatSeq
  <1> HIDE DEF w
  <1>2. IsSeq(w) /\ Recs(w) \subseteq Recs(t) \cup Recs(u)
    BY <1>1 DEF Joins, Recs
  <1> QED
    BY <1>2 DEF w

LEMMA RecsTail ==
    ASSUME NEW t, IsSeq(t), t # <<>>
    PROVE  IsSeq(Tail(t)) /\ Recs(Tail(t)) \subseteq Recs(t) /\ Head(t) \in Recs(t)
  <1> DEFINE u == Tail(t)
             x == Head(t)
  <1>1. /\ IsSeq(u) /\ 1 \in DOMAIN t /\ x = t[1]
        /\ \A i \in DOMAIN u : \E j \in DOMAIN t : u[i] = t[j]
    BY TailSeq
  <1> HIDE DEF u, x
  <1>2. IsSeq(u) /\ Recs(u) \subseteq Recs(t) /\ x \in Recs(t)
    BY <1>1 DEF Recs
  <1> QED
    BY <1>2 DEF u, x

LEMMA DigestKind == ASSUME NEW m PROVE Digest(m).type = m.type
  <1>1. CASE m.type = "finished"
    BY <1>1, DigestFinished
  <1>2. CASE m.type = "certificateVerify"
    BY <1>2 DEF Digest
  <1>3. CASE m.type \notin {"finished", "certificateVerify"}
    BY <1>3, DigestSelf
  <1> QED
    BY <1>1, <1>2, <1>3

LEMMA RequestsOn ==
    ASSUME NEW t, NEW d, IsSeq(t)
    PROVE  Requests(Append(t, d))
             <=> (Requests(t) \/ d.type = "certificateRequest")
  <1> DEFINE u == Append(t, d)
  <1>1. Recs(u) = Recs(t) \cup {d}
    BY RecsAppend
  <1> HIDE DEF u
  <1>2. \A b : Requests(b) <=> \E x \in Recs(b) : x.type = "certificateRequest"
    BY DEF Requests, Recs
  <1>3. Requests(u) <=> (Requests(t) \/ d.type = "certificateRequest")
    BY <1>1, <1>2
  <1> QED
    BY <1>3 DEF u

LEMMA RequestsHashed ==
    ASSUME NEW t, NEW m, IsSeq(t)
    PROVE  /\ IsSeq(Append(t, Digest(m)))
           /\ Requests(Append(t, Digest(m)))
                <=> (Requests(t) \/ m.type = "certificateRequest")
  <1> DEFINE d == Digest(m)
  <1>1. d.type = m.type
    BY DigestKind
  <1> HIDE DEF d
  <1>2. /\ IsSeq(Append(t, d))
        /\ Requests(Append(t, d))
             <=> (Requests(t) \/ d.type = "certificateRequest")
    BY RequestsOn, RecsAppend
  <1>3. /\ IsSeq(Append(t, d))
        /\ Requests(Append(t, d))
             <=> (Requests(t) \/ m.type = "certificateRequest")
    BY <1>1, <1>2
  <1> QED
    BY <1>3 DEF d

-----------------------------------------------------------------------------
(* The order of what the server writes.                                    *)

LEMMA OrderedAppend ==
    ASSUME NEW t, NEW x, IsSeq(t), Ordered(t),
           (\A r \in Recs(t) : ~IsFinished(r)) \/ ~InFlight(x)
    PROVE  Ordered(Append(t, x))
  <1> DEFINE u == Append(t, x)
  <1>1. /\ Len(t) \in Nat /\ DOMAIN t = 1 .. Len(t)
        /\ DOMAIN u = 1 .. (Len(t) + 1) /\ u[Len(t) + 1] = x
        /\ \A i \in 1 .. Len(t) : u[i] = t[i]
    BY AppendSeq
  <1> HIDE DEF u
  <1>2. ASSUME NEW i \in DOMAIN u, NEW j \in DOMAIN u, i < j, IsFinished(u[i])
        PROVE  ~InFlight(u[j])
    <2>1. i \in DOMAIN t /\ u[i] = t[i] /\ IsFinished(t[i])
      BY <1>1, <1>2
    <2>2. CASE j \in DOMAIN t
      BY <1>1, <1>2, <2>1, <2>2 DEF Ordered
    <2>3. CASE j = Len(t) + 1
      BY <1>1, <2>1, <2>3 DEF Recs
    <2> QED
      BY <1>1, <2>2, <2>3
  <1>3. Ordered(u)
    BY <1>2 DEF Ordered
  <1> QED
    BY <1>3 DEF u

LEMMA OrderedTail ==
    ASSUME NEW t, IsSeq(t), Ordered(t), t # <<>>
    PROVE  /\ Ordered(Tail(t))
           /\ IsFinished(Head(t)) => \A r \in Recs(Tail(t)) : ~InFlight(r)
  <1> DEFINE u == Tail(t)
             x == Head(t)
  <1>1. PICK T : t \in Seq(T)
    BY DEF IsSeq
  <1>2. /\ u \in Seq(T) /\ Len(u) = Len(t) - 1 /\ x = t[1]
        /\ \A i \in 1 .. Len(u) : u[i] = t[i + 1]
    BY <1>1, HeadTailProperties
  <1>3. /\ Len(t) \in Nat /\ Len(t) # 0 /\ DOMAIN t = 1 .. Len(t)
        /\ DOMAIN u = 1 .. Len(u)
    BY <1>1, <1>2, LenProperties, EmptySeq
  <1> HIDE DEF u, x
  <1>4. ASSUME NEW i \in DOMAIN u, NEW j \in DOMAIN u, i < j, IsFinished(u[i])
        PROVE  ~InFlight(u[j])
    <2>1. /\ i + 1 \in DOMAIN t /\ j + 1 \in DOMAIN t /\ i + 1 < j + 1
          /\ u[i] = t[i + 1] /\ u[j] = t[j + 1]
      BY <1>2, <1>3, <1>4
    <2> QED
      BY <1>4, <2>1 DEF Ordered
  <1>5. ASSUME IsFinished(x), NEW j \in DOMAIN u PROVE ~InFlight(u[j])
    <2>1. /\ 1 \in DOMAIN t /\ j + 1 \in DOMAIN t /\ 1 < j + 1
          /\ u[j] = t[j + 1]
      BY <1>2, <1>3
    <2> QED
      BY <1>2, <1>5, <2>1 DEF Ordered
  <1>6. /\ Ordered(u)
        /\ IsFinished(x) => \A r \in Recs(u) : ~InFlight(r)
    BY <1>4, <1>5 DEF Ordered, Recs
  <1> QED
    BY <1>6 DEF u, x

LEMMA OrderedConcat ==
    ASSUME NEW t, NEW u, IsSeq(t), IsSeq(u), Ordered(t), Ordered(u),
           \/ \A r \in Recs(t) : ~IsFinished(r)
           \/ \A r \in Recs(u) : ~InFlight(r)
    PROVE  Ordered(t \o u)
  <1> DEFINE w == t \o u
  <1>1. PICK T : t \in Seq(T)
    BY DEF IsSeq
  <1>2. PICK U : u \in Seq(U)
    BY DEF IsSeq
  <1> DEFINE V == T \cup U
  <1>3. t \in Seq(V) /\ u \in Seq(V)
    BY <1>1, <1>2, SeqMonotonic, T \subseteq V, U \subseteq V
  <1> HIDE DEF V
  <1>4. /\ w \in Seq(V) /\ Len(w) = Len(t) + Len(u)
        /\ \A i \in 1 .. Len(t) : w[i] = t[i]
        /\ \A i \in 1 .. Len(u) : w[Len(t) + i] = u[i]
    BY <1>3, ConcatProperties
  <1>5. /\ Len(t) \in Nat /\ DOMAIN t = 1 .. Len(t)
        /\ Len(u) \in Nat /\ DOMAIN u = 1 .. Len(u) /\ DOMAIN w = 1 .. Len(w)
    BY <1>3, <1>4, LenProperties
  <1> HIDE DEF w
  <1>6. ASSUME NEW i \in DOMAIN w
        PROVE  \/ i \in DOMAIN t /\ w[i] = t[i]
               \/ /\ i > Len(t) /\ i - Len(t) \in DOMAIN u
                  /\ w[i] = u[i - Len(t)]
    <2>1. CASE i <= Len(t)
      BY <1>4, <1>5, <2>1
    <2>2. CASE i > Len(t)
      <3>1. i - Len(t) \in 1 .. Len(u) /\ Len(t) + (i - Len(t)) = i
        BY <1>4, <1>5, <2>2
      <3> QED
        BY <1>4, <1>5, <2>2, <3>1
    <2> QED
      BY <1>4, <1>5, <2>1, <2>2
  <1>7. \A r : IsFinished(r) => InFlight(r)
    BY DEF IsFinished, InFlight, Noise
  <1>8. ASSUME NEW i \in DOMAIN w, NEW j \in DOMAIN w, i < j, IsFinished(w[i])
        PROVE  ~InFlight(w[j])
    <2>1. CASE j \in DOMAIN t /\ w[j] = t[j]
      <3>1. i \in DOMAIN t /\ w[i] = t[i]
        BY <1>4, <1>5, <1>8, <2>1
      <3> QED
        BY <1>8, <2>1, <3>1 DEF Ordered
    <2> DEFINE k == j - Len(t)
    <2>2. CASE j > Len(t) /\ k \in DOMAIN u /\ w[j] = u[k]
      <3>1. CASE i \in DOMAIN t /\ w[i] = t[i]
        <4>1. w[i] \in Recs(t) /\ w[j] \in Recs(u)
          BY <2>2, <3>1 DEF Recs
        <4> QED
          BY <1>8, <4>1
      <3> DEFINE h == i - Len(t)
      <3>2. CASE i > Len(t) /\ h \in DOMAIN u /\ w[i] = u[h]
        <4>1. h < k
          BY <1>4, <1>5, <1>8
        <4> QED
          BY <1>8, <2>2, <3>2, <4>1 DEF Ordered
      <3> QED
        BY <1>6, <3>1, <3>2
    <2> QED
      BY <1>6, <2>1, <2>2
  <1>9. Ordered(w)
    BY <1>8 DEF Ordered
  <1> QED
    BY <1>9 DEF w

-----------------------------------------------------------------------------
(* What a step adds to sendBuf.                                            *)

\* q has written nothing but noise since x.
Adds(q, x) ==
    IsSeq(q.sendBuf) /\ \A r \in Recs(q.sendBuf) : r \in Recs(x.sendBuf) \/ Noise(r)

\* q has failed where x was.
Failing(q, x) ==
    /\ Keeps(q, x, {"pc", "err", "buffering", "sendBuf"})
    /\ q.pc = "failed" /\ Adds(q, x)

LEMMA AddsNoise ==
    ASSUME NEW x, NEW q, NEW r, IsSeq(x.sendBuf), Noise(r),
           q.sendBuf = Append(x.sendBuf, r)
    PROVE  Adds(q, x)
  <1> DEFINE b == x.sendBuf
  <1>1. IsSeq(Append(b, r)) /\ Recs(Append(b, r)) = Recs(b) \cup {r}
    BY RecsAppend
  <1> QED
    BY <1>1 DEF Adds

LEMMA AddsNothing ==
    ASSUME NEW x, NEW q, IsSeq(x.sendBuf), q.sendBuf = x.sendBuf
    PROVE  Adds(q, x)
  BY DEF Adds

LEMMA CCSAdds ==
    ASSUME NEW x, DOMAIN x = ConnFields, IsSeq(x.sendBuf)
    PROVE  /\ Keeps(sendDummyChangeCipherSpec(x), x, {"ccs", "sendBuf"})
           /\ Adds(sendDummyChangeCipherSpec(x), x)
  <1> DEFINE q == sendDummyChangeCipherSpec(x)
             r == [typ |-> "ccs", key |-> x.out, msg |-> None]
  <1>1. /\ Keeps(q, x, {"ccs", "sendBuf"})
        /\ q.sendBuf = x.sendBuf \/ q.sendBuf = Append(x.sendBuf, r)
    BY CCSKeeps
  <1>2. Noise(r)
    BY DEF Noise
  <1> HIDE DEF q, r
  <1>3. Adds(q, x)
    BY <1>1, <1>2, AddsNoise, AddsNothing
  <1> QED
    BY <1>1, <1>3 DEF q

LEMMA FailsReturn ==
    ASSUME NEW x, NEW err, DOMAIN x = ConnFields, IsSeq(x.sendBuf)
    PROVE  Failing(Return(x, err), x)
  <1> DEFINE q == Return(x, err)
  <1>1. Keeps(q, x, {"pc", "err", "buffering"}) /\ q.pc = "failed"
    BY ReturnKeeps
  <1> HIDE DEF q
  <1>2. q.sendBuf = x.sendBuf /\ Keeps(q, x, {"pc", "err", "buffering", "sendBuf"})
    BY <1>1 DEF Keeps, ConnFields
  <1>3. Failing(q, x)
    BY <1>1, <1>2, AddsNothing DEF Failing
  <1> QED
    BY <1>3 DEF q

LEMMA FailsAlert ==
    ASSUME NEW x, NEW a, DOMAIN x = ConnFields, IsSeq(x.sendBuf)
    PROVE  Failing(Alert(x, a), x)
  <1> DEFINE m == [type |-> a]
             y == Send(x, "alert", m)
             r == [typ |-> "alert", key |-> x.out, msg |-> m]
             q == Return(y, a)
  <1>1. Keeps(y, x, {"sendBuf"}) /\ y.sendBuf = Append(x.sendBuf, r)
    BY SendKeeps
  <1>2. Noise(r)
    BY DEF Noise
  <1> HIDE DEF y, r
  <1>3. DOMAIN y = ConnFields /\ Adds(y, x)
    BY <1>1, <1>2, AddsNoise DEF Keeps
  <1>4. Failing(q, y)
    BY <1>3, FailsReturn DEF Adds
  <1> HIDE DEF q
  <1>5. Keeps(q, x, {"pc", "err", "buffering", "sendBuf"})
    BY <1>1, <1>4 DEF Failing, Keeps
  <1>6. Failing(q, x)
    BY <1>3, <1>4, <1>5 DEF Failing, Adds
  <1> QED
    BY <1>6 DEF q, y, Alert

\* What fails after x was hashed or prepared fails where it was.
LEMMA FailsOn ==
    ASSUME NEW x, NEW y, NEW q, Failing(q, y), Adds(y, x)
    PROVE  Adds(q, x)
  BY DEF Failing, Adds

LEMMA FailsReceive ==
    ASSUME NEW x, NEW rec, NEW types, DOMAIN x = ConnFields, IsSeq(x.sendBuf),
           x.pc # "failed"
    PROVE  \/ /\ Receive(x, rec, types) = x
              /\ rec.typ # "alert" /\ rec.msg.type \in types
           \/ Failing(Receive(x, rec, types), x)
  <1> DEFINE o == Opened(x, rec)
             r == Receive(x, rec, types)
  <1>1. (o = x /\ rec.typ # "alert") \/ Failing(o, x)
    <2>1. \/ o = x /\ rec.typ # "alert"
          \/ o = Return(x, "remote")
          \/ o = Alert(x, "unexpected_message") \/ o = Alert(x, "bad_record_mac")
      BY DEF Opened
    <2> HIDE DEF o
    <2> QED
      BY <2>1, FailsReturn, FailsAlert
  <1>2. \/ o.pc = "failed" /\ r = o
        \/ o.pc # "failed" /\ r = o /\ rec.msg.type \in types
        \/ o.pc # "failed" /\ r = Alert(o, "unexpected_message")
    BY DEF Receive, Then
  <1> HIDE DEF o, r
  <1>3. CASE Failing(o, x)
    BY <1>2, <1>3 DEF Failing, r
  <1>4. CASE o = x /\ rec.typ # "alert"
    <2>1. Failing(Alert(x, "unexpected_message"), x)
      BY FailsAlert
    <2>2. \/ r = x /\ rec.msg.type \in types
          \/ r = Alert(x, "unexpected_message")
      BY <1>2, <1>4
    <2> QED
      BY <1>4, <2>1, <2>2 DEF r
  <1> QED
    BY <1>1, <1>3, <1>4

-----------------------------------------------------------------------------
(* The client's steps.                                                     *)

\* The client's step ends in q, which has written what a client may.
Told(q) ==
    /\ DOMAIN q = ConnFields /\ q.session = c.session
    /\ SaidOn(conf, c.session, q.sendBuf)

ClientTells(q) ==
    /\ Told(q) /\ q.pc # "clientHandshake" /\ ClientTicket(conf, q)
    /\ Joined(q, s, toClient') /\ ClientBecomes(q)

\* x, and then nothing but noise.
LEMMA ToldAdds ==
    ASSUME NEW x, NEW q, Told(x), Adds(q, x), DOMAIN q = ConnFields,
           q.session = x.session
    PROVE  Told(q)
  BY DEF Told, Adds, SaidOn, Said

\* x, and then a message that is neither a hello nor a certificate, or one
\* that the client may write.
LEMMA ToldSays ==
    ASSUME NEW x, NEW m, Told(x),
           m.type = "clientHello" => GoodHello(conf, c.session, m),
           m.type = "certificate" => m = certMsg(conf)
    PROVE  Told(Say(x, m))
  <1> DEFINE r == Say(x, m)
             rec == [typ |-> "handshake", key |-> x.out, msg |-> m]
             b == x.sendBuf
  <1>0. DOMAIN x = ConnFields
    BY DEF Told
  <1>1. /\ Keeps(r, x, {"transcript", "sendBuf"}) /\ r.sendBuf = Append(b, rec)
    BY <1>0, SayKeeps
  <1>2. Said(conf, c.session, rec)
    BY DEF Said
  <1>3. IsSeq(b) /\ SaidOn(conf, c.session, b)
    BY DEF Told, SaidOn
  <1> HIDE DEF r, rec, b
  <1>4. IsSeq(Append(b, rec)) /\ Recs(Append(b, rec)) = Recs(b) \cup {rec}
    BY <1>3, RecsAppend
  <1>5. SaidOn(conf, c.session, r.sendBuf)
    BY <1>1, <1>2, <1>3, <1>4 DEF SaidOn
  <1>6. DOMAIN r = ConnFields /\ r.session = x.session
    BY <1>1 DEF Keeps, ConnFields
  <1> QED
    BY <1>5, <1>6 DEF Told, r

LEMMA ToldKeeps ==
    ASSUME NEW x, NEW q, NEW F, Told(x), Keeps(q, x, F), "sendBuf" \notin F,
           "session" \notin F
    PROVE  Told(q)
  <1>1. q.sendBuf = x.sendBuf /\ q.session = x.session /\ DOMAIN q = ConnFields
    BY DEF Keeps, ConnFields
  <1> QED
    BY <1>1 DEF Told

LEMMA ToldHashed ==
    ASSUME NEW x, NEW m, Told(x)
    PROVE  /\ Told(Hashed(x, m)) /\ Keeps(Hashed(x, m), x, {"transcript"})
           /\ Hashed(x, m).transcript = Append(x.transcript, Digest(m))
  <1>0. DOMAIN x = ConnFields
    BY DEF Told
  <1> DEFINE h == Hashed(x, m)
  <1>1. /\ Keeps(h, x, {"transcript"})
        /\ h.transcript = Append(x.transcript, Digest(m))
    BY <1>0, HashedKeeps
  <1> HIDE DEF h
  <1>2. Told(h)
    BY <1>1, ToldKeeps
  <1> QED
    BY <1>1, <1>2 DEF h

\* A client that fails has told, and a failed one has nothing more to keep.
LEMMA FailingTells ==
    ASSUME NEW x, NEW q, Told(x), Failing(q, x), ClientBecomes(q)
    PROVE  ClientTells(q)
  <1>1. DOMAIN q = ConnFields /\ q.session = x.session /\ q.pc = "failed"
    BY DEF Failing, Keeps, ConnFields
  <1>2. Told(q)
    BY <1>1, ToldAdds DEF Failing
  <1> QED
    BY <1>1, <1>2 DEF ClientTells, ClientTicket, Reading, Joined, Accepted

LEMMA ToldFails ==
    ASSUME NEW x, Told(x)
    PROVE  /\ \A a : Failing(Alert(x, a), x)
           /\ \A e : Failing(Return(x, e), x)
  BY FailsAlert, FailsReturn DEF Told, SaidOn

\* What the end of a step leaves is what its state says.
LEMMA TicketSame ==
    ASSUME NEW k, NEW x, NEW r, NEW p, NEW ts,
           Keeps(r, x, {"sendBuf", "cache"}), ClientTicket(k, x), Joined(x, p, ts)
    PROVE  ClientTicket(k, r) /\ Joined(r, p, ts)
  <1>1. /\ r.pc = x.pc /\ r.hello = x.hello /\ r.session = x.session
        /\ r.certReq = x.certReq /\ r.transcript = x.transcript
        /\ r.in = x.in /\ r.out = x.out /\ r.app = x.app
        /\ r.secret = x.secret /\ r.resumption = x.resumption
        /\ r.usingPSK = x.usingPSK
    BY DEF Keeps, ConnFields
  <1> QED
    BY <1>1 DEF ClientTicket, Joined

LEMMA ClientTakes ==
    ASSUME ClientNext
    PROVE  \/ toClient' = toClient
           \/ toClient # <<>> /\ toClient' = Tail(toClient)
  <1>1. CASE ClientHello
    BY <1>1 DEF ClientHello, ClientDoes
  <1>2. CASE ReadServerHello
    BY <1>2 DEF ReadServerHello, ClientReads
  <1>3. CASE processHelloRetryRequest
    BY <1>3 DEF processHelloRetryRequest, ClientDoes
  <1>4. CASE ReadSecondServerHello
    BY <1>4 DEF ReadSecondServerHello, ClientReads
  <1>5. CASE processServerHello
    BY <1>5 DEF processServerHello, ClientDoes
  <1>6. CASE establishHandshakeKeys
    BY <1>6, Zenon DEF establishHandshakeKeys, ClientDoes
  <1>7. CASE readServerParameters
    BY <1>7 DEF readServerParameters, ClientReads
  <1>8. CASE ResumeServerCertificate
    BY <1>8 DEF ResumeServerCertificate, ClientDoes
  <1>9. CASE readServerCertificate
    BY <1>9 DEF readServerCertificate, ClientReads
  <1>10. CASE ReadServerCertificateVerify
    BY <1>10 DEF ReadServerCertificateVerify, ClientReads
  <1>11. CASE readServerFinished
    BY <1>11, Zenon DEF readServerFinished, ClientReads
  <1>12. CASE sendClientCertificate
    BY <1>12 DEF sendClientCertificate, ClientDoes
  <1>13. CASE sendClientFinished
    BY <1>13, Zenon DEF sendClientFinished, ClientDoes
  <1>14. CASE ClientDropsCCS
    BY <1>14 DEF ClientDropsCCS
  <1> QED
    BY <1>1, <1>2, <1>3, <1>4, <1>5, <1>6, <1>7, <1>8, <1>9, <1>10, <1>11,
       <1>12, <1>13, <1>14 DEF ClientNext

\* What is left of the server's messages is as it was.
LEMMA TicketWireTail ==
    ASSUME NEW k, NEW session, NEW p, NEW ts, TicketWire(k, session, p, ts),
           ts # <<>>
    PROVE  TicketWire(k, session, p, Tail(ts))
  <1> DEFINE u == Tail(ts)
  <1>1. IsSeq(ts) /\ Ordered(ts)
    BY DEF TicketWire
  <1>2. IsSeq(u) /\ Ordered(u) /\ Recs(u) \subseteq Recs(ts)
    BY <1>1, RecsTail, OrderedTail
  <1> HIDE DEF u
  <1>3. TicketWire(k, session, p, u)
    BY <1>2 DEF TicketWire
  <1> QED
    BY <1>3 DEF u

LEMMA ClientTold ==
    ASSUME TicketInv, c.pc # "clientHandshake", ClientNext,
           \E q : ClientTells(q)
    PROVE  TicketInv'
  <1>1. PICK q : ClientTells(q)
    OBVIOUS
  <1>2. /\ Told(q) /\ q.pc # "clientHandshake" /\ ClientTicket(conf, q)
        /\ Joined(q, s, toClient') /\ ClientBecomes(q)
    BY <1>1 DEF ClientTells
  <1>3. /\ Keeps(c', q, {"sendBuf", "cache"}) /\ c'.sendBuf = Kept(q)
        /\ toServer' = toServer \o Passed(q) /\ s' = s /\ conf' = conf
    <2>1. DOMAIN q = ConnFields
      BY <1>2 DEF Told
    <2> QED
      BY <1>2, <2>1 DEF ClientBecomes, Keeps, ConnFields
  <1>4. c'.session = c.session /\ c'.pc = q.pc
    BY <1>2, <1>3 DEF Told, Keeps, ConnFields
  <1>5. ClientTicket(conf, c') /\ Joined(c', s, toClient')
    BY <1>2, <1>3, TicketSame
  <1>6. SaidOn(conf, c.session, Kept(q)) /\ SaidOn(conf, c.session, Passed(q))
    BY <1>2, RecsShort DEF Told, SaidOn, Kept, Passed
  <1>7. SaidOn(conf, c.session, toServer')
    <2> DEFINE u == Passed(q)
    <2>1. IsSeq(toServer) /\ IsSeq(u)
      BY <1>6 DEF TicketInv, SaidOn
    <2>2. /\ IsSeq(toServer \o u)
          /\ Recs(toServer \o u) \subseteq Recs(toServer) \cup Recs(u)
      BY <2>1, RecsConcat
    <2>3. toServer' = toServer \o u
      BY <1>3
    <2>4. SaidOn(conf, c.session, u) /\ SaidOn(conf, c.session, toServer)
      BY <1>6 DEF TicketInv
    <2> HIDE DEF u
    <2> QED
      BY <2>2, <2>3, <2>4 DEF SaidOn
  <1>8. TicketWire(conf, c.session, s, toClient')
    BY ClientTakes, TicketWireTail DEF TicketInv
  <1> DEFINE d == c'
             tc == toClient'
             tv == toServer'
  <1>9. /\ ClientTicket(conf, d) /\ ServerTicket(conf, d.session, s)
        /\ ServerBuf(s) /\ SaidOn(conf, d.session, d.sendBuf)
        /\ SaidOn(conf, d.session, tv) /\ TicketWire(conf, d.session, s, tc)
        /\ Joined(d, s, tc) /\ Fresh(d, s, tv)
    BY <1>2, <1>3, <1>4, <1>5, <1>6, <1>7, <1>8 DEF TicketInv, Fresh
  <1> QED
    BY <1>3, <1>9 DEF TicketInv

\* The client hashes m, of a message type with no bearing on its certificate.
LEMMA HashTells ==
    ASSUME NEW x, NEW m, Told(x), IsSeq(x.transcript),
           m.type # "certificateRequest"
    PROVE  /\ Told(Hashed(x, m)) /\ Keeps(Hashed(x, m), x, {"transcript"})
           /\ IsSeq(Hashed(x, m).transcript)
           /\ Requests(Hashed(x, m).transcript) <=> Requests(x.transcript)
  <1> DEFINE h == Hashed(x, m)
             t == x.transcript
  <1>1. /\ Told(h) /\ Keeps(h, x, {"transcript"})
        /\ h.transcript = Append(t, Digest(m))
    BY ToldHashed
  <1>2. /\ IsSeq(Append(t, Digest(m)))
        /\ Requests(Append(t, Digest(m)))
             <=> (Requests(t) \/ m.type = "certificateRequest")
    BY RequestsHashed
  <1> HIDE DEF h
  <1>3. IsSeq(h.transcript) /\ (Requests(h.transcript) <=> Requests(t))
    BY <1>1, <1>2
  <1> QED
    BY <1>1, <1>3 DEF h

LEMMA ToldNow ==
    ASSUME AgreeInv, TicketInv
    PROVE  /\ Told(c) /\ DOMAIN c = ConnFields /\ IsSeq(c.sendBuf)
           /\ IsSeq(c.transcript) /\ ClientTicket(conf, c)
  BY DEF AgreeInv, TicketInv, ClientState, Mute, Told

\* checkServerHelloOrHRR passes the message on, or fails.
LEMMA CheckTells ==
    ASSUME NEW sh, AgreeInv, TicketInv
    PROVE  \/ Failing(checkServerHelloOrHRR(c, sh), c)
           \/ /\ Keeps(checkServerHelloOrHRR(c, sh), c,
                       {"suite", "serverHello", "pc"})
              /\ checkServerHelloOrHRR(c, sh).pc \in
                    {"helloRetryRequest", "processServerHello"}
              /\ c.pc # "serverHello" =>
                    checkServerHelloOrHRR(c, sh).pc = "processServerHello"
  <1> DEFINE next == IF sh.hrr /\ c.pc = "serverHello"
                     THEN "helloRetryRequest" ELSE "processServerHello"
             q == [c EXCEPT !.suite = sh.suite, !.serverHello = sh, !.pc = next]
             r == checkServerHelloOrHRR(c, sh)
             a == Alert(c, "illegal_parameter")
  <1>1. Failing(a, c)
    BY ToldNow, ToldFails
  <1>2. r = a \/ r = q
    BY DEF checkServerHelloOrHRR
  <1>3. /\ next \in {"helloRetryRequest", "processServerHello"}
        /\ c.pc # "serverHello" => next = "processServerHello"
    OBVIOUS
  <1> HIDE DEF next, a
  <1>4. Keeps(q, c, {"suite", "serverHello", "pc"}) /\ q.pc = next
    <2>1. DOMAIN c = ConnFields
      BY ToldNow
    <2> QED
      BY <2>1 DEF Keeps, ConnFields
  <1> HIDE DEF q, r
  <1>5. \/ Failing(r, c)
        \/ /\ Keeps(r, c, {"suite", "serverHello", "pc"})
           /\ r.pc \in {"helloRetryRequest", "processServerHello"}
           /\ c.pc # "serverHello" => r.pc = "processServerHello"
    BY <1>1, <1>2, <1>3, <1>4
  <1> QED
    BY <1>5 DEF r

LEMMA ReadServerHelloTells ==
    ASSUME AgreeInv, TicketInv, ReadServerHello
    PROVE  \E q : ClientTells(q)
  <1> DEFINE rec == Head(toClient)
             g == Receive(c, rec, {"serverHello"})
             q == checkServerHelloOrHRR(c, rec.msg)
             h == Hashed(q, c.hello)
  <1>1. /\ c.pc = "serverHello"
        /\ \/ ClientBecomes(g) /\ g.pc = "failed"
           \/ g.pc # "failed" /\
                ClientBecomes(Then(checkServerHelloOrHRR(g, rec.msg),
                                   LAMBDA x : Hashed(x, c.hello)))
    BY DEF ReadServerHello, ClientReads, Then
  <1>2. /\ Told(c) /\ DOMAIN c = ConnFields /\ IsSeq(c.sendBuf)
        /\ IsSeq(c.transcript) /\ ClientTicket(conf, c)
    BY ToldNow
  <1>3. g = c \/ Failing(g, c)
    BY <1>1, <1>2, FailsReceive
  <1>4. CASE Failing(g, c)
    BY <1>1, <1>2, <1>4, FailingTells DEF Failing
  <1>5. CASE g = c
    <2>1. \/ q.pc = "failed" /\ ClientBecomes(q)
          \/ q.pc # "failed" /\ ClientBecomes(h)
      BY <1>1, <1>5 DEF Then
    <2>2. \/ Failing(q, c)
          \/ /\ Keeps(q, c, {"suite", "serverHello", "pc"})
             /\ q.pc \in {"helloRetryRequest", "processServerHello"}
      BY CheckTells
    <2> HIDE DEF q
    <2>3. CASE Failing(q, c)
      BY <1>2, <2>1, <2>3, FailingTells DEF Failing
    <2>4. CASE /\ Keeps(q, c, {"suite", "serverHello", "pc"})
               /\ q.pc \in {"helloRetryRequest", "processServerHello"}
      <3>1. /\ Told(q) /\ q.transcript = c.transcript /\ q.hello = c.hello
            /\ q.session = c.session /\ q.certReq = c.certReq
        <4>1. Told(q)
          BY <1>2, <2>4, ToldKeeps
        <4> QED
          BY <2>4, <4>1 DEF Keeps, ConnFields
      <3>2. GoodHello(conf, c.session, c.hello) /\ c.hello.type = "clientHello"
        BY <1>1, <1>2 DEF ClientTicket, GoodHello
      <3>3. /\ Told(h) /\ Keeps(h, q, {"transcript"})
            /\ Requests(h.transcript) <=> Requests(c.transcript)
        BY <1>2, <3>1, <3>2, HashTells
      <3> HIDE DEF h
      <3>4. /\ h.pc = q.pc /\ h.hello = c.hello /\ h.session = c.session
            /\ h.certReq = c.certReq
        BY <3>1, <3>3 DEF Keeps, ConnFields
      <3>5. c.certReq = FALSE /\ (c.certReq = TRUE <=> Requests(c.transcript))
        BY <1>1, <1>2 DEF ClientTicket, Reading
      <3>6. ClientTicket(conf, h)
        BY <2>4, <3>2, <3>3, <3>4, <3>5 DEF ClientTicket, Reading
      <3>7. ClientTells(h)
        BY <2>1, <2>4, <3>3, <3>4, <3>6 DEF ClientTells, Joined, Accepted
      <3> QED
        BY <3>7
    <2> QED
      BY <2>2, <2>3, <2>4
  <1> QED
    BY <1>3, <1>4, <1>5

\* The hello that follows a retry is as good as the first.
LEMMA RetriesGood ==
    ASSUME NEW p, NEW h, NEW k, NEW session, GoodHello(k, session, h)
    PROVE  GoodHello(k, session, RetriedPSK(p, h))
  <1>1. \A b : /\ GoodHello(k, session, [h EXCEPT !.binder = b])
               /\ GoodHello(k, session, [h EXCEPT !.psk = None, !.binder = b])
    BY DEF GoodHello
  <1>2. \/ RetriedPSK(p, h) = h
        \/ \E b : RetriedPSK(p, h) = [h EXCEPT !.binder = b]
        \/ RetriedPSK(p, h) = [h EXCEPT !.psk = None, !.binder = None]
    BY DEF RetriedPSK
  <1> QED
    BY <1>1, <1>2

LEMMA RetryTells ==
    ASSUME AgreeInv, TicketInv, processHelloRetryRequest
    PROVE  \E q : ClientTells(q)
  <1> DEFINE d == sendDummyChangeCipherSpec(c)
             t == <<messageHash(c.hello), c.serverHello>>
             p == [d EXCEPT !.transcript = t]
             h == [c.hello EXCEPT !.share = [group |-> c.serverHello.group, n |-> 2]]
             m == RetriedPSK(p, h)
             w == Say(p, m)
             r == [w EXCEPT !.hello = m, !.pc = "secondServerHello"]
             a == Alert(p, "illegal_parameter")
  <1>1. c.pc = "helloRetryRequest" /\ (ClientBecomes(a) \/ ClientBecomes(r))
    BY DEF processHelloRetryRequest, ClientDoes
  <1>2. /\ Told(c) /\ DOMAIN c = ConnFields /\ IsSeq(c.sendBuf)
        /\ IsSeq(c.transcript) /\ ClientTicket(conf, c)
    BY ToldNow
  <1>3. /\ GoodHello(conf, c.session, c.hello) /\ c.certReq = FALSE
        /\ c.serverHello.type = "serverHello"
    BY <1>1, <1>2 DEF ClientTicket, AgreeInv, ClientState
  <1>4. GoodHello(conf, c.session, m)
    <2>1. GoodHello(conf, c.session, h)
      BY <1>3 DEF GoodHello
    <2> HIDE DEF h, p
    <2> QED
      BY <2>1, RetriesGood
  <1>5. IsSeq(t) /\ ~Requests(t)
    <2>1. /\ IsSeq(t) /\ DOMAIN t = {1, 2} /\ t[1] = messageHash(c.hello)
          /\ t[2] = c.serverHello
      BY ShortSeq
    <2>2. messageHash(c.hello).type = "messageHash"
      BY DEF messageHash
    <2> HIDE DEF t
    <2> QED
      BY <1>3, <2>1, <2>2 DEF Requests
  <1> HIDE DEF m, t
  <1>6. Keeps(d, c, {"ccs", "sendBuf"}) /\ Adds(d, c)
    BY <1>2, CCSAdds
  <1> HIDE DEF d
  <1>7. Keeps(p, d, {"transcript"}) /\ p.transcript = t
    BY <1>6 DEF Keeps, ConnFields
  <1> HIDE DEF p
  <1>8. Told(p) /\ p.certReq = FALSE
    <2>1. Told(d) /\ d.certReq = c.certReq
      BY <1>2, <1>6, ToldAdds DEF Keeps, ConnFields
    <2> QED
      BY <1>3, <1>7, <2>1, ToldKeeps DEF Keeps, ConnFields
  <1>9. Failing(a, p)
    BY <1>8, ToldFails
  <1> HIDE DEF a
  <1>10. m.type = "clientHello"
    BY <1>4 DEF GoodHello
  <1>11. Told(w)
    BY <1>4, <1>8, <1>10, ToldSays
  <1>12. w.certReq = FALSE /\ w.transcript = Append(t, Digest(m))
    <2>1. DOMAIN p = ConnFields
      BY <1>8 DEF Told
    <2>2. /\ Keeps(w, p, {"transcript", "sendBuf"})
          /\ w.transcript = Append(p.transcript, Digest(m))
      BY <2>1, SayKeeps
    <2> HIDE DEF w
    <2> QED
      BY <1>7, <1>8, <2>2 DEF Keeps, ConnFields
  <1>13. ~Requests(w.transcript)
    <2>1. /\ IsSeq(Append(t, Digest(m)))
          /\ Requests(Append(t, Digest(m)))
               <=> (Requests(t) \/ m.type = "certificateRequest")
      BY <1>5, RequestsHashed
    <2> QED
      BY <1>5, <1>10, <1>12, <2>1
  <1> HIDE DEF w
  <1>14. /\ Keeps(r, w, {"hello", "pc"}) /\ r.pc = "secondServerHello"
         /\ r.transcript = w.transcript /\ r.certReq = w.certReq
    BY <1>11 DEF Told, Keeps, ConnFields
  <1> HIDE DEF r
  <1>15. Told(r) /\ ClientTicket(conf, r)
    BY <1>11, <1>12, <1>13, <1>14, ToldKeeps DEF ClientTicket, Reading
  <1>16. ClientBecomes(r) => ClientTells(r)
    BY <1>14, <1>15 DEF ClientTells, Joined, Accepted
  <1>17. ClientBecomes(a) => ClientTells(a)
    BY <1>8, <1>9, FailingTells
  <1> QED
    BY <1>1, <1>16, <1>17

LEMMA ReadSecondServerHelloTells ==
    ASSUME AgreeInv, TicketInv, ReadSecondServerHello
    PROVE  \E q : ClientTells(q)
  <1> DEFINE rec == Head(toClient)
             g == Receive(c, rec, {"serverHello"})
             q == checkServerHelloOrHRR(c, rec.msg)
  <1>1. /\ c.pc = "secondServerHello"
        /\ \/ ClientBecomes(g) /\ g.pc = "failed"
           \/ g.pc # "failed" /\ ClientBecomes(checkServerHelloOrHRR(g, rec.msg))
    BY DEF ReadSecondServerHello, ClientReads, Then
  <1>2. /\ Told(c) /\ DOMAIN c = ConnFields /\ IsSeq(c.sendBuf)
        /\ IsSeq(c.transcript) /\ ClientTicket(conf, c)
    BY ToldNow
  <1>3. g = c \/ Failing(g, c)
    BY <1>1, <1>2, FailsReceive
  <1>4. CASE Failing(g, c)
    BY <1>1, <1>2, <1>4, FailingTells DEF Failing
  <1>5. CASE g = c
    <2>1. ClientBecomes(q)
      BY <1>1, <1>5
    <2>2. \/ Failing(q, c)
          \/ /\ Keeps(q, c, {"suite", "serverHello", "pc"})
             /\ q.pc = "processServerHello"
      BY <1>1, CheckTells
    <2> HIDE DEF q
    <2>3. CASE Failing(q, c)
      BY <1>2, <2>1, <2>3, FailingTells DEF Failing
    <2>4. CASE /\ Keeps(q, c, {"suite", "serverHello", "pc"})
               /\ q.pc = "processServerHello"
      <3>1. /\ Told(q) /\ q.transcript = c.transcript /\ q.certReq = c.certReq
        <4>1. Told(q)
          BY <1>2, <2>4, ToldKeeps
        <4> QED
          BY <2>4, <4>1 DEF Keeps, ConnFields
      <3>2. c.certReq = TRUE <=> Requests(c.transcript)
        BY <1>1, <1>2 DEF ClientTicket, Reading
      <3>3. ClientTicket(conf, q)
        BY <2>4, <3>1, <3>2 DEF ClientTicket, Reading
      <3>4. ClientTells(q)
        BY <2>1, <2>4, <3>1, <3>3 DEF ClientTells, Joined, Accepted
      <3> QED
        BY <3>4
    <2> QED
      BY <2>2, <2>3, <2>4
  <1> QED
    BY <1>3, <1>4, <1>5

LEMMA ProcessServerHelloTells ==
    ASSUME AgreeInv, TicketInv, processServerHello
    PROVE  \E q : ClientTells(q)
  <1> DEFINE sh == c.serverHello
             h == Hashed(c, sh)
             p == [h EXCEPT !.buffering = TRUE]
             d == sendDummyChangeCipherSpec(p)
             r == [d EXCEPT !.usingPSK = sh.psk,
                     !.peerCerts = IF sh.psk THEN "server" ELSE @,
                     !.pc = "establishHandshakeKeys"]
  <1>1. /\ c.pc = "processServerHello"
        /\ (\E a : ClientBecomes(Alert(p, a))) \/ ClientBecomes(r)
    BY DEF processServerHello, ClientDoes
  <1>2. /\ Told(c) /\ DOMAIN c = ConnFields /\ IsSeq(c.sendBuf)
        /\ IsSeq(c.transcript) /\ ClientTicket(conf, c)
    BY ToldNow
  <1>3. /\ sh.type = "serverHello"
        /\ c.certReq = TRUE <=> Requests(c.transcript)
    BY <1>1, <1>2 DEF ClientTicket, Reading, AgreeInv, ClientState
  <1> HIDE DEF sh
  <1>4. /\ Told(h) /\ Keeps(h, c, {"transcript"})
        /\ Requests(h.transcript) <=> Requests(c.transcript)
    BY <1>2, <1>3, HashTells
  <1> HIDE DEF h
  <1>5. Keeps(p, h, {"buffering"})
    BY <1>4 DEF Keeps, ConnFields
  <1> HIDE DEF p
  <1>6. Told(p)
    BY <1>4, <1>5, ToldKeeps
  <1>7. DOMAIN p = ConnFields /\ IsSeq(p.sendBuf)
    BY <1>6 DEF Told, SaidOn
  <1>8. Keeps(d, p, {"ccs", "sendBuf"}) /\ Adds(d, p)
    BY <1>7, CCSAdds
  <1> HIDE DEF d
  <1>9. Told(d)
    BY <1>6, <1>8, ToldAdds DEF Keeps, ConnFields
  <1>10. Keeps(r, d, {"usingPSK", "peerCerts", "pc"})
         /\ r.pc = "establishHandshakeKeys"
    BY <1>8 DEF Keeps, ConnFields
  <1> HIDE DEF r
  <1>11. Told(r)
    BY <1>9, <1>10, ToldKeeps
  <1>12. r.transcript = h.transcript /\ r.certReq = c.certReq
    BY <1>4, <1>5, <1>8, <1>10 DEF Keeps, ConnFields
  <1>13. ClientTicket(conf, r)
    BY <1>3, <1>4, <1>10, <1>12 DEF ClientTicket, Reading
  <1>14. ClientBecomes(r) => ClientTells(r)
    BY <1>10, <1>11, <1>13 DEF ClientTells, Joined, Accepted
  <1>15. ASSUME NEW a, ClientBecomes(Alert(p, a))
         PROVE  ClientTells(Alert(p, a))
    BY <1>6, <1>15, ToldFails, FailingTells
  <1> QED
    BY <1>1, <1>14, <1>15

\* The key the server writes its handshake under.
LEMMA ServerKeyParts ==
    \A x, t : ServerKey(x, t).secret = x /\ ServerKey(x, t).transcript = t
  <1> TAKE x, t
  <1>1. ServerKey(x, t).secret = x
    BY DeriveParts, Zenon DEF ServerKey
  <1>2. ServerKey(x, t).transcript = t
    BY DeriveParts, Zenon DEF ServerKey
  <1> QED
    BY <1>1, <1>2

LEMMA EstablishTells ==
    ASSUME AgreeInv, TicketInv, establishHandshakeKeys
    PROVE  \E q : ClientTells(q)
  <1> DEFINE psk == IF c.usingPSK THEN c.session.secret ELSE None
             secret == HandshakeSecret(c.suite, psk, c.hello.share,
                                       c.serverHello.share)
             key == clientKey(secret, c.transcript)
             other == ServerKey(secret, c.transcript)
             r == [c EXCEPT !.secret = secret, !.out = key, !.in = other,
                            !.pc = "serverParameters"]
  <1>1. c.pc = "establishHandshakeKeys" /\ ClientBecomes(r)
    BY Zenon DEF establishHandshakeKeys, ClientDoes, clientKey, ServerKey
  <1>2. /\ Told(c) /\ DOMAIN c = ConnFields /\ IsSeq(c.sendBuf)
        /\ IsSeq(c.transcript) /\ ClientTicket(conf, c)
    BY ToldNow
  <1>3. c.certReq = TRUE <=> Requests(c.transcript)
    BY <1>1, <1>2 DEF ClientTicket, Reading
  <1>4. /\ key.transcript = c.transcript /\ other.transcript = c.transcript
        /\ other.secret = secret
    BY KeyParts, ServerKeyParts
  <1> HIDE DEF secret, key, other
  <1>5. /\ Keeps(r, c, {"secret", "out", "in", "pc"})
        /\ r.secret = secret /\ r.out = key /\ r.in = other
        /\ r.pc = "serverParameters"
        /\ r.transcript = c.transcript /\ r.certReq = c.certReq
    BY <1>2 DEF Keeps, ConnFields
  <1> HIDE DEF r
  <1>6. Told(r)
    BY <1>2, <1>5, ToldKeeps
  <1>7. ClientTicket(conf, r)
    BY <1>3, <1>4, <1>5 DEF ClientTicket, Reading
  <1>8. ClientTells(r)
    BY <1>1, <1>5, <1>6, <1>7 DEF ClientTells, Joined, Accepted
  <1> QED
    BY <1>8

\* The client, its keys derived, goes on with r after a message was hashed.
LEMMA ReadingOn ==
    ASSUME NEW h, NEW r, NEW F, AgreeInv, TicketInv,
           c.pc \in {"serverParameters", "serverCertificate", "certificateVerify",
                     "serverFinished"},
           F \subseteq {"proto", "certReq", "peerCerts", "pc"},
           Told(h), Keeps(h, c, {"transcript"}), Keeps(r, h, F),
           r.certReq = TRUE <=> Requests(r.transcript),
           r.pc \in {"serverCertificate", "certificateVerify", "serverFinished"},
           ClientBecomes(r)
    PROVE  ClientTells(r)
  <1>1. ClientTicket(conf, c)
    BY ToldNow
  <1>2. c.in.secret = c.secret /\ c.in.transcript = c.out.transcript
    BY <1>1 DEF ClientTicket
  <1>3. Told(r)
    BY ToldKeeps
  <1>4. Keeps(r, h, {"proto", "certReq", "peerCerts", "pc"})
    BY DEF Keeps
  <1>5. r.in = c.in /\ r.out = c.out /\ r.secret = c.secret
    BY <1>4 DEF Keeps, ConnFields
  <1>6. ClientTicket(conf, r)
    BY <1>2, <1>5 DEF ClientTicket, Reading
  <1> QED
    BY <1>3, <1>6 DEF ClientTells, Joined, Accepted

LEMMA ReadParametersTells ==
    ASSUME AgreeInv, TicketInv, readServerParameters
    PROVE  \E q : ClientTells(q)
  <1> DEFINE rec == Head(toClient)
             m == rec.msg
             g == Receive(c, rec, {"encryptedExtensions"})
             h == Hashed(c, m)
             r == [h EXCEPT !.proto = m.alpn, !.pc = "serverCertificate"]
             a == Alert(h, "unsupported_extension")
  <1>1. /\ c.pc = "serverParameters"
        /\ \/ ClientBecomes(g) /\ g.pc = "failed"
           \/ g.pc # "failed" /\
                \/ ClientBecomes([Hashed(g, m) EXCEPT !.proto = m.alpn,
                                               !.pc = "serverCertificate"])
                \/ ClientBecomes(Alert(Hashed(g, m), "unsupported_extension"))
    BY DEF readServerParameters, ClientReads, Then
  <1>2. /\ Told(c) /\ DOMAIN c = ConnFields /\ IsSeq(c.sendBuf)
        /\ IsSeq(c.transcript) /\ ClientTicket(conf, c)
    BY ToldNow
  <1>3. \/ g = c /\ rec.msg.type \in {"encryptedExtensions"}
        \/ Failing(g, c)
    BY <1>1, <1>2, FailsReceive
  <1>4. CASE Failing(g, c)
    BY <1>1, <1>2, <1>4, FailingTells DEF Failing
  <1>5. CASE g = c /\ rec.msg.type \in {"encryptedExtensions"}
    <2>1. ClientBecomes(r) \/ ClientBecomes(a)
      BY <1>1, <1>5
    <2>2. m.type # "certificateRequest"
      BY <1>5
    <2> HIDE DEF m
    <2>3. /\ Told(h) /\ Keeps(h, c, {"transcript"})
          /\ Requests(h.transcript) <=> Requests(c.transcript)
      BY <1>2, <2>2, HashTells
    <2> HIDE DEF h
    <2>4. /\ Keeps(r, h, {"proto", "pc"}) /\ r.pc = "serverCertificate"
          /\ r.transcript = h.transcript /\ r.certReq = c.certReq
      BY <2>3 DEF Keeps, ConnFields
    <2> HIDE DEF r
    <2>5. r.certReq = TRUE <=> Requests(r.transcript)
      BY <1>1, <1>2, <2>3, <2>4 DEF ClientTicket, Reading
    <2>6. {"proto", "pc"} \subseteq {"proto", "certReq", "peerCerts", "pc"}
      OBVIOUS
    <2>7. ClientBecomes(r) => ClientTells(r)
      BY <1>1, <2>3, <2>4, <2>5, <2>6, ReadingOn
    <2>8. ClientBecomes(a) => ClientTells(a)
      BY <2>3, ToldFails, FailingTells
    <2> QED
      BY <2>1, <2>7, <2>8
  <1> QED
    BY <1>3, <1>4, <1>5

LEMMA ResumeTells ==
    ASSUME AgreeInv, TicketInv, ResumeServerCertificate
    PROVE  \E q : ClientTells(q)
  <1> DEFINE r == [c EXCEPT !.pc = "serverFinished"]
             a == Alert(c, "bad_certificate")
  <1>1. c.pc = "serverCertificate" /\ (ClientBecomes(a) \/ ClientBecomes(r))
    BY DEF ResumeServerCertificate, ClientDoes
  <1>2. /\ Told(c) /\ DOMAIN c = ConnFields /\ IsSeq(c.sendBuf)
        /\ IsSeq(c.transcript) /\ ClientTicket(conf, c)
    BY ToldNow
  <1>3. /\ Keeps(r, c, {"pc"}) /\ r.pc = "serverFinished"
        /\ r.transcript = c.transcript /\ r.certReq = c.certReq
    BY <1>2 DEF Keeps, ConnFields
  <1> HIDE DEF r
  <1>4. r.certReq = TRUE <=> Requests(r.transcript)
    BY <1>1, <1>2, <1>3 DEF ClientTicket, Reading
  <1>5. {"pc"} \subseteq {"proto", "certReq", "peerCerts", "pc"}
    OBVIOUS
  <1>6. Keeps(c, c, {"transcript"})
    BY <1>2 DEF Keeps
  <1>7. ClientBecomes(r) => ClientTells(r)
    BY <1>1, <1>2, <1>3, <1>4, <1>5, <1>6, ReadingOn
  <1>8. ClientBecomes(a) => ClientTells(a)
    BY <1>2, ToldFails, FailingTells
  <1> QED
    BY <1>1, <1>7, <1>8

LEMMA ReadCertificateTells ==
    ASSUME AgreeInv, TicketInv, readServerCertificate
    PROVE  \E q : ClientTells(q)
  <1> DEFINE rec == Head(toClient)
             m == rec.msg
             types == {"certificate"} \cup
                      IF c.certReq THEN {} ELSE {"certificateRequest"}
             g == Receive(c, rec, types)
             h == Hashed(c, m)
             r1 == [h EXCEPT !.certReq = TRUE]
             r2 == [h EXCEPT !.peerCerts = m.cert, !.pc = "certificateVerify"]
             a == Alert(h, "bad_certificate")
             u == Append(c.transcript, Digest(m))
  <1>1. /\ c.pc = "serverCertificate"
        /\ \/ ClientBecomes(g) /\ g.pc = "failed"
           \/ g.pc # "failed" /\
                \/ /\ m.type = "certificateRequest"
                   /\ ClientBecomes([Hashed(g, m) EXCEPT !.certReq = TRUE])
                \/ /\ m.type # "certificateRequest"
                   /\ \/ ClientBecomes([Hashed(g, m) EXCEPT !.peerCerts = m.cert,
                                                 !.pc = "certificateVerify"])
                      \/ ClientBecomes(Alert(Hashed(g, m), "bad_certificate"))
    BY DEF readServerCertificate, ClientReads, Then
  <1>2. /\ Told(c) /\ DOMAIN c = ConnFields /\ IsSeq(c.sendBuf)
        /\ IsSeq(c.transcript) /\ ClientTicket(conf, c)
    BY ToldNow
  <1> HIDE DEF types
  <1>3. g = c \/ Failing(g, c)
    BY <1>1, <1>2, FailsReceive
  <1>4. CASE Failing(g, c)
    BY <1>1, <1>2, <1>4, FailingTells DEF Failing
  <1>5. CASE g = c
    <2>1. \/ m.type = "certificateRequest" /\ ClientBecomes(r1)
          \/ m.type # "certificateRequest" /\ ClientBecomes(r2)
          \/ ClientBecomes(a)
      BY <1>1, <1>5
    <2>2. /\ Told(h) /\ Keeps(h, c, {"transcript"}) /\ h.transcript = u
      BY <1>2, ToldHashed
    <2>3. Requests(u) <=> (Requests(c.transcript) \/ m.type = "certificateRequest")
      BY <1>2, RequestsHashed
    <2> HIDE DEF m, h, u
    <2>4. c.certReq = TRUE <=> Requests(c.transcript)
      BY <1>1, <1>2 DEF ClientTicket, Reading
    <2>5. /\ Keeps(r1, h, {"certReq"}) /\ r1.pc = c.pc /\ r1.certReq = TRUE
          /\ Keeps(r2, h, {"peerCerts", "pc"}) /\ r2.pc = "certificateVerify"
          /\ r2.certReq = c.certReq
          /\ r1.transcript = u /\ r2.transcript = u
      BY <2>2 DEF Keeps, ConnFields
    <2> HIDE DEF r1, r2
    <2>6. /\ {"certReq"} \subseteq {"proto", "certReq", "peerCerts", "pc"}
          /\ {"peerCerts", "pc"} \subseteq {"proto", "certReq", "peerCerts", "pc"}
      OBVIOUS
    <2>7. ASSUME m.type = "certificateRequest", ClientBecomes(r1)
          PROVE  ClientTells(r1)
      <3>1. r1.certReq = TRUE <=> Requests(r1.transcript)
        BY <2>3, <2>5, <2>7
      <3> QED
        BY <1>1, <2>2, <2>5, <2>6, <2>7, <3>1, ReadingOn
    <2>8. ASSUME m.type # "certificateRequest", ClientBecomes(r2)
          PROVE  ClientTells(r2)
      <3>1. r2.certReq = TRUE <=> Requests(r2.transcript)
        BY <2>3, <2>4, <2>5, <2>8
      <3> QED
        BY <1>1, <2>2, <2>5, <2>6, <2>8, <3>1, ReadingOn
    <2>9. ClientBecomes(a) => ClientTells(a)
      BY <2>2, ToldFails, FailingTells
    <2> QED
      BY <2>1, <2>7, <2>8, <2>9
  <1> QED
    BY <1>3, <1>4, <1>5

LEMMA ReadCertificateVerifyTells ==
    ASSUME AgreeInv, TicketInv, ReadServerCertificateVerify
    PROVE  \E q : ClientTells(q)
  <1> DEFINE rec == Head(toClient)
             m == rec.msg
             g == Receive(c, rec, {"certificateVerify"})
             h == Hashed(c, m)
             r == [h EXCEPT !.pc = "serverFinished"]
             a == Alert(c, "decrypt_error")
  <1>1. /\ c.pc = "certificateVerify"
        /\ \/ ClientBecomes(g) /\ g.pc = "failed"
           \/ g.pc # "failed" /\
                \/ ClientBecomes([Hashed(g, m) EXCEPT !.pc = "serverFinished"])
                \/ ClientBecomes(Alert(g, "decrypt_error"))
    BY DEF ReadServerCertificateVerify, ClientReads, Then
  <1>2. /\ Told(c) /\ DOMAIN c = ConnFields /\ IsSeq(c.sendBuf)
        /\ IsSeq(c.transcript) /\ ClientTicket(conf, c)
    BY ToldNow
  <1>3. \/ g = c /\ rec.msg.type \in {"certificateVerify"}
        \/ Failing(g, c)
    BY <1>1, <1>2, FailsReceive
  <1>4. CASE Failing(g, c)
    BY <1>1, <1>2, <1>4, FailingTells DEF Failing
  <1>5. CASE g = c /\ rec.msg.type \in {"certificateVerify"}
    <2>1. ClientBecomes(r) \/ ClientBecomes(a)
      BY <1>1, <1>5
    <2>2. m.type # "certificateRequest"
      BY <1>5
    <2> HIDE DEF m
    <2>3. /\ Told(h) /\ Keeps(h, c, {"transcript"})
          /\ Requests(h.transcript) <=> Requests(c.transcript)
      BY <1>2, <2>2, HashTells
    <2> HIDE DEF h
    <2>4. /\ Keeps(r, h, {"pc"}) /\ r.pc = "serverFinished"
          /\ r.transcript = h.transcript /\ r.certReq = c.certReq
      BY <2>3 DEF Keeps, ConnFields
    <2> HIDE DEF r
    <2>5. r.certReq = TRUE <=> Requests(r.transcript)
      BY <1>1, <1>2, <2>3, <2>4 DEF ClientTicket, Reading
    <2>6. {"pc"} \subseteq {"proto", "certReq", "peerCerts", "pc"}
      OBVIOUS
    <2>7. ClientBecomes(r) => ClientTells(r)
      BY <1>1, <2>3, <2>4, <2>5, <2>6, ReadingOn
    <2>8. ClientBecomes(a) => ClientTells(a)
      BY <1>2, ToldFails, FailingTells
    <2> QED
      BY <2>1, <2>7, <2>8
  <1> QED
    BY <1>3, <1>4, <1>5

\* Accepting the server's Finished settles what the server has.
LEMMA ReadFinishedTells ==
    ASSUME AgreeInv, TicketInv, readServerFinished
    PROVE  \E q : ClientTells(q)
  <1> DEFINE rec == Head(toClient)
             m == rec.msg
             g == Receive(c, rec, {"finished"})
             h == Hashed(c, m)
             app == clientAppKey(c.secret, h.transcript)
             other == serverAppKey(c.secret, h.transcript)
             r == [h EXCEPT !.app = app, !.in = other, !.pc = "clientCertificate"]
             a == Alert(c, "decrypt_error")
             v == m.verifyData
             ts == Tail(toClient)
             R(x) == [Hashed(x, m) EXCEPT
                        !.app = clientAppKey(x.secret, Hashed(x, m).transcript),
                        !.in = serverAppKey(x.secret, Hashed(x, m).transcript),
                        !.pc = "clientCertificate"]
  <1>1. /\ c.pc = "serverFinished" /\ toClient # <<>> /\ rec.typ # "ccs"
        /\ toClient' = ts
        /\ \/ ClientBecomes(g) /\ g.pc = "failed"
           \/ /\ g.pc # "failed" /\ ClientBecomes(R(g))
              /\ v = finishedHash(g.in, g.transcript)
           \/ g.pc # "failed" /\ ClientBecomes(Alert(g, "decrypt_error"))
    BY Zenon DEF readServerFinished, ClientReads, Then, clientAppKey,
                 serverAppKey
  <1>2. /\ Told(c) /\ DOMAIN c = ConnFields /\ IsSeq(c.sendBuf)
        /\ IsSeq(c.transcript) /\ ClientTicket(conf, c)
    BY ToldNow
  <1>3. \/ /\ g = c /\ rec.typ # "alert" /\ rec.msg.type \in {"finished"}
        \/ Failing(g, c)
    BY <1>1, <1>2, FailsReceive
  <1>4. CASE Failing(g, c)
    BY <1>1, <1>2, <1>4, FailingTells DEF Failing
  <1>5. CASE g = c /\ rec.typ # "alert" /\ rec.msg.type \in {"finished"}
    <2>1. \/ ClientBecomes(r) /\ v = finishedHash(c.in, c.transcript)
          \/ ClientBecomes(a)
      BY <1>1, <1>5
    <2>2. m.type # "certificateRequest" /\ Digest(m) = Fin
      BY <1>5, DigestFinished DEF Fin
    <2>3. ClientBecomes(a) => ClientTells(a)
      BY <1>2, ToldFails, FailingTells
    <2>4. CASE ClientBecomes(r) /\ v = finishedHash(c.in, c.transcript)
      <3>1. /\ s.pc \in After /\ Finishes(s, v)
            /\ \A x \in Recs(ts) : ~InFlight(x)
        <4>1. IsSeq(toClient) /\ TicketWire(conf, c.session, s, toClient)
          BY DEF TicketInv, TicketWire
        <4>2. IsFinished(rec)
          BY <1>1, <1>5 DEF IsFinished
        <4>3. rec \in Recs(toClient)
          BY <1>1, <4>1, RecsTail
        <4>4. \A x \in Recs(ts) : ~InFlight(x)
          BY <1>1, <4>1, <4>2, OrderedTail DEF TicketWire
        <4> HIDE DEF rec, ts
        <4> QED
          BY <4>1, <4>2, <4>3, <4>4 DEF TicketWire
      <3>2. v.key = c.in /\ v.transcript = c.transcript
        BY <2>4 DEF finishedHash
      <3> HIDE DEF m, v, ts
      <3>3. /\ Told(h) /\ Keeps(h, c, {"transcript"})
            /\ Requests(h.transcript) <=> Requests(c.transcript)
        BY <1>2, <2>2, HashTells
      <3>4. h.transcript = Append(c.transcript, Fin)
        BY <1>2, <2>2, ToldHashed
      <3> HIDE DEF h
      <3>5. /\ app.transcript = h.transcript
        BY KeyParts
      <3> HIDE DEF app, other
      <3>6. /\ Keeps(r, h, {"app", "in", "pc"}) /\ r.pc = "clientCertificate"
            /\ r.app = app /\ r.in = other /\ r.transcript = h.transcript
            /\ r.certReq = c.certReq /\ r.secret = c.secret
            /\ r.usingPSK = c.usingPSK
        BY <3>3 DEF Keeps, ConnFields
      <3> HIDE DEF r
      <3>7. /\ c.certReq = TRUE <=> Requests(c.transcript)
            /\ c.in.secret = c.secret /\ c.in.transcript = c.out.transcript
        BY <1>1, <1>2 DEF ClientTicket, Reading
      <3>8. ClientTicket(conf, r)
        BY <3>3, <3>5, <3>6, <3>7 DEF ClientTicket, Reading
      <3>9. c.out.transcript[Len(c.out.transcript)].psk = c.usingPSK
        BY <1>1 DEF AgreeInv, ClientState, Keyed
      <3>10. s.secret = c.secret /\ s.usingPSK = c.usingPSK
        BY <3>1, <3>2, <3>7, <3>9 DEF Finishes
      <3>11. s.app.transcript = h.transcript
        BY <3>1, <3>2, <3>4 DEF Finishes
      <3>12. s.app = app /\ s.out = other
        BY <3>1, <3>10, <3>11 DEF Finishes, app, other
      <3>13. Joined(r, s, ts)
        BY <3>1, <3>6, <3>10, <3>12 DEF Joined
      <3>14. Told(r)
        BY <3>3, <3>6, ToldKeeps
      <3>15. ClientTells(r)
        BY <1>1, <2>4, <3>6, <3>8, <3>13, <3>14 DEF ClientTells
      <3> QED
        BY <3>15
    <2> HIDE DEF a, r, v
    <2> QED
      BY <2>1, <2>3, <2>4
  <1> QED
    BY <1>3, <1>4, <1>5

\* What was settled stays.
LEMMA JoinedKeeps ==
    ASSUME NEW r, NEW F, TicketInv, c.pc \in Accepted, Keeps(r, c, F),
           {"app", "in", "secret", "usingPSK"} \cap F = {}
    PROVE  Joined(r, s, toClient)
  <1>1. /\ r.app = c.app /\ r.in = c.in /\ r.secret = c.secret
        /\ r.usingPSK = c.usingPSK
    BY DEF Keeps, ConnFields
  <1> QED
    BY <1>1 DEF TicketInv, Joined

LEMMA SendCertificateTells ==
    ASSUME AgreeInv, TicketInv, sendClientCertificate
    PROVE  \E q : ClientTells(q)
  <1> DEFINE m == certMsg(conf)
             t == c.transcript
             p == Say(c, m)
             n == certificateVerify(p, "client", conf.clientCert)
             q == Say(p, n)
             w == IF conf.clientCert = "none" THEN p ELSE q
             r == [w EXCEPT !.pc = "clientFinished"]
             o == [c EXCEPT !.pc = "clientFinished"]
             e == Return(c, "getClientCertificate")
  <1>1. /\ c.pc = "clientCertificate" /\ toClient' = toClient
        /\ \/ ~c.certReq /\ ClientBecomes(o)
           \/ c.certReq /\ ClientBecomes(e)
           \/ c.certReq /\ ClientBecomes(r)
    <2>1. /\ c.pc = "clientCertificate"
          /\ ClientDoes(CASE ~c.certReq -> o
                          [] c.certReq /\ conf.getCertFails -> e
                          [] c.certReq /\ ~conf.getCertFails -> r)
      BY DEF sendClientCertificate, certMsg
    <2> HIDE DEF o, e, r
    <2>2. CASE ~c.certReq
      BY <2>1, <2>2 DEF ClientDoes
    <2>3. CASE c.certReq /\ conf.getCertFails
      BY <2>1, <2>3 DEF ClientDoes
    <2>4. CASE c.certReq /\ ~conf.getCertFails
      BY <2>1, <2>4 DEF ClientDoes
    <2> QED
      BY <2>2, <2>3, <2>4
  <1>2. /\ Told(c) /\ DOMAIN c = ConnFields /\ IsSeq(c.sendBuf)
        /\ IsSeq(c.transcript) /\ ClientTicket(conf, c)
    BY ToldNow
  <1>3. /\ t = c.app.transcript
        /\ c.certReq = TRUE <=> Requests(t)
    BY <1>1, <1>2 DEF ClientTicket, Reading
  <1>4. ClientBecomes(e) => ClientTells(e)
    BY <1>2, ToldFails, FailingTells
  <1>5. ASSUME ~c.certReq, ClientBecomes(o) PROVE ClientTells(o)
    <2>1. /\ Keeps(o, c, {"pc"}) /\ o.pc = "clientFinished"
          /\ o.transcript = t /\ o.app = c.app
      BY <1>2 DEF Keeps, ConnFields
    <2> HIDE DEF o
    <2>2. Before(conf, o.app.transcript) = o.transcript
      BY <1>3, <1>5, <2>1 DEF Before
    <2>3. ClientTicket(conf, o)
      BY <2>1, <2>2 DEF ClientTicket, Reading
    <2>4. Told(o) /\ Joined(o, s, toClient)
      BY <1>1, <1>2, <2>1, ToldKeeps, JoinedKeeps DEF Accepted
    <2> QED
      BY <1>1, <1>5, <2>1, <2>3, <2>4 DEF ClientTells
  <1>6. m.type = "certificate" /\ Digest(m) = m
    BY DigestSelf DEF certMsg
  <1>7. /\ n.type = "certificateVerify"
        /\ Digest(n) = [type |-> "certificateVerify", by |-> conf.clientCert]
    BY DEF certificateVerify, Digest
  <1> DEFINE u == Append(t, m)
             x == Append(u, Digest(n))
  <1>8. /\ Told(p) /\ Keeps(p, c, {"transcript", "sendBuf"}) /\ p.transcript = u
    <2>1. m.type # "clientHello" /\ m = certMsg(conf)
      BY <1>6
    <2> HIDE DEF m
    <2>2. Told(Say(c, m))
      BY <1>2, <2>1, ToldSays
    <2>3. /\ Keeps(p, c, {"transcript", "sendBuf"})
          /\ p.transcript = Append(c.transcript, Digest(m))
      BY <1>2, SayKeeps
    <2> QED
      BY <1>6, <2>2, <2>3
  <1> HIDE DEF m
  <1>9. /\ Told(q) /\ Keeps(q, p, {"transcript", "sendBuf"}) /\ q.transcript = x
    <2>1. n.type \notin {"clientHello", "certificate"} /\ q = Say(p, n)
      BY <1>7
    <2> HIDE DEF n, p, q, u
    <2>2. Told(Say(p, n))
      BY <1>8, <2>1, ToldSays
    <2>3. DOMAIN p = ConnFields
      BY <1>8 DEF Told
    <2>4. /\ Keeps(Say(p, n), p, {"transcript", "sendBuf"})
          /\ Say(p, n).transcript = Append(p.transcript, Digest(n))
      BY <2>3, SayKeeps
    <2> QED
      BY <1>8, <2>1, <2>2, <2>4
  <1>10. ASSUME c.certReq, ClientBecomes(r) PROVE ClientTells(r)
    <2> HIDE DEF p, q, n
    <2>1. /\ Told(w) /\ Keeps(w, c, {"transcript", "sendBuf"})
          /\ w.transcript = IF conf.clientCert = "none" THEN u ELSE x
      BY <1>8, <1>9 DEF Keeps
    <2> HIDE DEF w
    <2>2. /\ Keeps(r, c, {"transcript", "sendBuf", "pc"}) /\ r.app = c.app
          /\ Keeps(r, w, {"pc"})
          /\ r.pc = "clientFinished" /\ r.transcript = w.transcript
      BY <2>1 DEF Keeps, ConnFields
    <2> HIDE DEF r
    <2>3. Before(conf, r.app.transcript) = r.transcript
      BY <1>3, <1>7, <1>10, <2>1, <2>2 DEF Before, Shown, m
    <2>4. ClientTicket(conf, r)
      BY <2>2, <2>3 DEF ClientTicket, Reading
    <2>5. Told(r)
      BY <2>1, <2>2, ToldKeeps
    <2>6. Joined(r, s, toClient)
      BY <1>1, <2>2, JoinedKeeps DEF Accepted
    <2> QED
      BY <1>1, <1>10, <2>2, <2>4, <2>5, <2>6 DEF ClientTells
  <1> HIDE DEF o, e, r
  <1> QED
    BY <1>1, <1>4, <1>5, <1>10

LEMMA SendFinishedTells ==
    ASSUME AgreeInv, TicketInv, sendClientFinished
    PROVE  \E q : ClientTells(q)
  <1> DEFINE m == finishedMsg(finishedHash(c.out, c.transcript))
             p == Say(c, m)
             z == IF conf.caching THEN resumptionSecret(c.secret, p.transcript)
                  ELSE None
             r == [p EXCEPT !.out = c.app, !.pc = "done", !.buffering = FALSE,
                            !.resumption = z]
  <1>1. c.pc = "clientFinished" /\ ClientBecomes(r) /\ toClient' = toClient
    BY Zenon DEF sendClientFinished, ClientDoes, resumptionSecret
  <1>2. /\ Told(c) /\ DOMAIN c = ConnFields /\ IsSeq(c.sendBuf)
        /\ IsSeq(c.transcript) /\ ClientTicket(conf, c)
    BY ToldNow
  <1>3. m.type = "finished" /\ Digest(m) = Fin
    BY DigestFinished DEF finishedMsg, Fin
  <1> HIDE DEF m
  <1>4. Told(p)
    BY <1>2, <1>3, ToldSays
  <1>5. /\ Keeps(p, c, {"transcript", "sendBuf"})
        /\ p.transcript = Append(c.transcript, Fin)
    BY <1>2, <1>3, SayKeeps
  <1> HIDE DEF p
  <1>6. c.transcript = Before(conf, c.app.transcript)
    BY <1>1, <1>2 DEF ClientTicket
  <1>7. p.transcript = Full(conf, c.app.transcript)
    BY <1>5, <1>6 DEF Full
  <1>8. conf.caching => z = resumptionSecret(c.secret, p.transcript)
    OBVIOUS
  <1> HIDE DEF z
  <1>9. /\ Keeps(r, p, {"out", "pc", "buffering", "resumption"})
        /\ Keeps(r, c, {"transcript", "sendBuf", "out", "pc", "buffering",
                        "resumption"})
        /\ r.pc = "done" /\ r.resumption = z
    BY <1>5 DEF Keeps, ConnFields
  <1>10. r.app = c.app /\ r.secret = c.secret /\ r.transcript = p.transcript
    BY <1>5, <1>9 DEF Keeps, ConnFields
  <1> HIDE DEF r
  <1>11. ClientTicket(conf, r)
    BY <1>7, <1>8, <1>9, <1>10 DEF ClientTicket, Reading
  <1>12. Told(r)
    BY <1>4, <1>9, ToldKeeps
  <1>13. Joined(r, s, toClient)
    BY <1>1, <1>9, JoinedKeeps DEF Accepted
  <1>14. ClientTells(r)
    BY <1>1, <1>9, <1>11, <1>12, <1>13 DEF ClientTells
  <1> QED
    BY <1>14

LEMMA OffersGood ==
    ASSUME NEW x PROVE GoodHello(conf, x, loadSession(makeClientHello, x))
  <1> DEFINE h == makeClientHello
             m == [h EXCEPT !.pskModes = conf.caching]
             o == [m EXCEPT !.psk = x.ticket]
             G(y) == GoodHello(conf, x, y)
  <1>1. /\ {"type", "pskModes", "psk"} \subseteq DOMAIN h
        /\ h.type = "clientHello" /\ h.psk = None
    BY DEF makeClientHello
  <1> HIDE DEF h
  <1>2. /\ {"type", "pskModes", "psk"} \subseteq DOMAIN m
        /\ m.type = "clientHello" /\ m.psk = None /\ m.pskModes = conf.caching
    BY <1>1
  <1> HIDE DEF m
  <1>3. G(m) /\ G(o)
    BY <1>2 DEF GoodHello
  <1> HIDE DEF o
  <1>4. \A b : G([m EXCEPT !.sessionTicket = b]) /\ G([o EXCEPT !.binder = b])
    BY <1>3 DEF GoodHello
  <1>5. \/ loadSession(h, x) = m
        \/ loadSession(h, x) = [m EXCEPT !.sessionTicket = x.ticket]
        \/ \E b : loadSession(h, x) = [o EXCEPT !.binder = b]
    BY DEF loadSession, m, o
  <1> HIDE DEF G
  <1>6. G(loadSession(h, x))
    BY <1>3, <1>4, <1>5
  <1> QED
    BY <1>6 DEF h, G

\* The hello fixes the session; nothing was said before it.
LEMMA ClientHelloTold ==
    ASSUME AgreeInv, AuthInv, TicketInv, ClientHello PROVE TicketInv'
  <1> DEFINE hello == loadSession(makeClientHello, UsableSession)
             se == UsableSession
             p == [c EXCEPT !.pc = "serverHello", !.hello = hello,
                            !.session = se, !.cache = se]
             r == Send(p, "handshake", hello)
             rec == [typ |-> "handshake", key |-> p.out, msg |-> hello]
  <1>1. ClientBecomes(r) /\ c.pc = "clientHandshake" /\ toClient' = toClient
    BY DEF ClientHello, ClientDoes
  <1>2. /\ Told(c) /\ DOMAIN c = ConnFields /\ IsSeq(c.sendBuf)
        /\ IsSeq(c.transcript) /\ ClientTicket(conf, c)
    BY ToldNow
  <1>3. /\ c.sendBuf = <<>> /\ toServer = <<>> /\ s.pc = "clientHello"
        /\ c.certReq = FALSE /\ (c.certReq = TRUE <=> Requests(c.transcript))
    BY <1>1, <1>2 DEF TicketInv, Fresh, ClientTicket, Reading
  <1>4. GoodHello(conf, se, hello) /\ hello.type = "clientHello"
    BY OffersGood DEF GoodHello
  <1> HIDE DEF hello, se
  <1>5. Said(conf, se, rec)
    BY <1>4 DEF Said
  <1>6. /\ DOMAIN p = ConnFields /\ p.transcript = c.transcript
        /\ p.sendBuf = c.sendBuf /\ p.pc = "serverHello" /\ p.hello = hello
        /\ p.session = se /\ p.certReq = c.certReq
    BY <1>2 DEF ConnFields
  <1> HIDE DEF p
  <1>7. Keeps(r, p, {"sendBuf"}) /\ r.sendBuf = Append(p.sendBuf, rec)
    BY <1>6, SendKeeps
  <1> HIDE DEF r, rec
  <1>8. SaidOn(conf, se, r.sendBuf)
    <2>1. IsSeq(<<>>) /\ Recs(<<>>) = {}
      BY RecsShort
    <2>2. IsSeq(Append(<<>>, rec)) /\ Recs(Append(<<>>, rec)) = Recs(<<>>) \cup {rec}
      BY <2>1, RecsAppend
    <2>3. r.sendBuf = Append(<<>>, rec)
      BY <1>3, <1>6, <1>7
    <2> DEFINE b == Append(<<>>, rec)
    <2>4. IsSeq(b) /\ Recs(b) = {rec}
      BY <2>1, <2>2
    <2> HIDE DEF b
    <2>5. SaidOn(conf, se, b)
      BY <1>5, <2>4 DEF SaidOn
    <2> QED
      BY <2>3, <2>5 DEF b
  <1>9. /\ Keeps(c', r, {"sendBuf", "cache"}) /\ c'.sendBuf = Kept(r)
        /\ toServer' = toServer \o Passed(r) /\ s' = s /\ conf' = conf
    <2>1. DOMAIN r = ConnFields
      BY <1>7 DEF Keeps
    <2> QED
      BY <1>1, <2>1 DEF ClientBecomes, Keeps, ConnFields
  <1>10. /\ c'.pc = "serverHello" /\ c'.session = se /\ c'.hello = hello
         /\ c'.certReq = c.certReq /\ c'.transcript = c.transcript
    BY <1>6, <1>7, <1>9 DEF Keeps, ConnFields
  <1>11. SaidOn(conf, se, Kept(r)) /\ SaidOn(conf, se, Passed(r))
    BY <1>8, RecsShort DEF Kept, Passed, SaidOn
  <1>12. SaidOn(conf, se, toServer')
    <2> DEFINE u == Passed(r)
    <2>1. IsSeq(<<>>) /\ Recs(<<>>) = {} /\ IsSeq(u)
      BY <1>11, RecsShort DEF SaidOn
    <2>2. IsSeq(<<>> \o u) /\ Recs(<<>> \o u) \subseteq Recs(<<>>) \cup Recs(u)
      BY <2>1, RecsConcat
    <2>3. toServer' = <<>> \o u
      BY <1>3, <1>9
    <2>4. SaidOn(conf, se, u)
      BY <1>11
    <2> HIDE DEF u
    <2> DEFINE w == <<>> \o u
    <2>5. IsSeq(w) /\ Recs(w) \subseteq Recs(u)
      BY <2>1, <2>2
    <2> HIDE DEF w
    <2>6. SaidOn(conf, se, w)
      BY <2>4, <2>5 DEF SaidOn
    <2> QED
      BY <2>3, <2>6 DEF w
  <1>13. s.peerCerts = "none"
    BY <1>3 DEF AuthInv, AuthState, BeforeResumption
  <1>14. ServerTicket(conf, se, s)
    BY <1>3, <1>13 DEF TicketInv, ServerTicket, Showed
  <1>15. TicketWire(conf, se, s, toClient)
    BY <1>3 DEF TicketInv, TicketWire, After
  <1> DEFINE d == c'
             tv == toServer'
  <1>16. /\ ClientTicket(conf, d) /\ ServerTicket(conf, d.session, s)
         /\ ServerBuf(s) /\ SaidOn(conf, d.session, d.sendBuf)
         /\ SaidOn(conf, d.session, tv) /\ TicketWire(conf, d.session, s, toClient)
         /\ Joined(d, s, toClient) /\ Fresh(d, s, tv)
    <2>1. ClientTicket(conf, d)
      BY <1>3, <1>4, <1>10 DEF ClientTicket, Reading
    <2>2. Joined(d, s, toClient) /\ Fresh(d, s, tv)
      BY <1>10 DEF Joined, Accepted, Fresh
    <2>3. ServerBuf(s)
      BY DEF TicketInv
    <2> QED
      BY <1>9, <1>10, <1>11, <1>12, <1>14, <1>15, <2>1, <2>2, <2>3
  <1> QED
    BY <1>1, <1>9, <1>16 DEF TicketInv

LEMMA ClientStepTickets ==
    ASSUME AgreeInv, AuthInv, TicketInv, ClientNext PROVE TicketInv'
  <1>1. CASE ClientHello
    BY <1>1, ClientHelloTold
  <1>2. CASE ClientDropsCCS
    <2>1. /\ c' = c /\ s' = s /\ conf' = conf /\ toServer' = toServer
          /\ toClient # <<>> /\ toClient' = Tail(toClient)
      BY <1>2 DEF ClientDropsCCS
    <2> DEFINE ts == Tail(toClient)
    <2>2. TicketWire(conf, c.session, s, ts)
      BY <2>1, TicketWireTail DEF TicketInv
    <2>3. Joined(c, s, ts)
      <3>1. IsSeq(toClient)
        BY DEF TicketInv, TicketWire
      <3>2. Recs(ts) \subseteq Recs(toClient)
        BY <2>1, <3>1, RecsTail
      <3> HIDE DEF ts
      <3> QED
        BY <3>2 DEF TicketInv, Joined
    <2> HIDE DEF ts
    <2> QED
      BY <2>1, <2>2, <2>3 DEF TicketInv, ts
  <1>3. CASE ~ClientHello /\ ~ClientDropsCCS
    <2>1. c.pc # "clientHandshake" /\ \E q : ClientTells(q)
      <3>1. CASE ReadServerHello
        BY <3>1, ReadServerHelloTells DEF ReadServerHello, ClientReads
      <3>2. CASE processHelloRetryRequest
        BY <3>2, RetryTells DEF processHelloRetryRequest
      <3>3. CASE ReadSecondServerHello
        BY <3>3, ReadSecondServerHelloTells DEF ReadSecondServerHello, ClientReads
      <3>4. CASE processServerHello
        BY <3>4, ProcessServerHelloTells DEF processServerHello
      <3>5. CASE establishHandshakeKeys
        <4>1. c.pc = "establishHandshakeKeys"
          BY <3>5, Zenon DEF establishHandshakeKeys
        <4> QED
          BY <3>5, <4>1, EstablishTells
      <3>6. CASE readServerParameters
        BY <3>6, ReadParametersTells DEF readServerParameters, ClientReads
      <3>7. CASE ResumeServerCertificate
        BY <3>7, ResumeTells DEF ResumeServerCertificate
      <3>8. CASE readServerCertificate
        BY <3>8, ReadCertificateTells DEF readServerCertificate, ClientReads
      <3>9. CASE ReadServerCertificateVerify
        BY <3>9, ReadCertificateVerifyTells
           DEF ReadServerCertificateVerify, ClientReads
      <3>10. CASE readServerFinished
        <4>1. c.pc = "serverFinished"
          BY <3>10, Zenon DEF readServerFinished, ClientReads
        <4> QED
          BY <3>10, <4>1, ReadFinishedTells
      <3>11. CASE sendClientCertificate
        BY <3>11, SendCertificateTells DEF sendClientCertificate
      <3>12. CASE sendClientFinished
        <4>1. c.pc = "clientFinished"
          BY <3>12, Zenon DEF sendClientFinished
        <4> QED
          BY <3>12, <4>1, SendFinishedTells
      <3> QED
        BY <1>3, <3>1, <3>2, <3>3, <3>4, <3>5, <3>6, <3>7, <3>8, <3>9, <3>10,
           <3>11, <3>12 DEF ClientNext
    <2> QED
      BY <2>1, ClientTold
  <1> QED
    BY <1>1, <1>2, <1>3

-----------------------------------------------------------------------------
(* The server's steps up to its Finished.                                  *)

\* q has neither a Finished nor a ticket to write.
Quietly(q) ==
    /\ DOMAIN q = ConnFields /\ IsSeq(q.sendBuf)
    /\ \A r \in Recs(q.sendBuf) : Quiet(r)

\* The server's step ends in q, its Finished still to come.
ServerTells(q) ==
    /\ Quietly(q) /\ q.pc \notin After \ {"failed"}
    /\ ServerTicket(conf, c.session, q) /\ ServerBecomes(q)

LEMMA QuietlyNow ==
    ASSUME AgreeInv, TicketInv, s.pc \notin After
    PROVE  /\ Quietly(s) /\ DOMAIN s = ConnFields /\ IsSeq(s.transcript)
           /\ IsSeq(s.sendBuf) /\ s.pc # "failed"
           /\ ServerTicket(conf, c.session, s)
  <1>1. DOMAIN s = ConnFields /\ IsSeq(s.transcript)
    BY ConnSeq DEF AgreeInv, ServerState
  <1>2. IsSeq(s.sendBuf) /\ \A r \in Recs(s.sendBuf) : Quiet(r)
    BY DEF TicketInv, ServerBuf
  <1> QED
    BY <1>1, <1>2 DEF Quietly, TicketInv, After

LEMMA QuietlyAdds ==
    ASSUME NEW x, NEW q, Quietly(x), Adds(q, x), DOMAIN q = ConnFields
    PROVE  Quietly(q)
  <1>1. \A r : Noise(r) => Quiet(r)
    BY DEF Noise, Quiet, IsFinished, IsTicket
  <1> QED
    BY <1>1 DEF Quietly, Adds

LEMMA QuietlyKeeps ==
    ASSUME NEW x, NEW q, NEW F, Quietly(x), Keeps(q, x, F), "sendBuf" \notin F
    PROVE  Quietly(q)
  <1>1. q.sendBuf = x.sendBuf /\ DOMAIN q = ConnFields
    BY DEF Keeps, ConnFields
  <1> QED
    BY <1>1 DEF Quietly

LEMMA QuietlySays ==
    ASSUME NEW x, NEW m, Quietly(x), IsSeq(x.transcript),
           m.type \notin {"finished", "newSessionTicket"}
    PROVE  /\ Quietly(Say(x, m)) /\ Keeps(Say(x, m), x, {"transcript", "sendBuf"})
           /\ IsSeq(Say(x, m).transcript)
           /\ Requests(Say(x, m).transcript)
                <=> (Requests(x.transcript) \/ m.type = "certificateRequest")
  <1> DEFINE r == Say(x, m)
             rec == [typ |-> "handshake", key |-> x.out, msg |-> m]
             b == x.sendBuf
             u == Append(x.transcript, Digest(m))
  <1>0. DOMAIN x = ConnFields
    BY DEF Quietly
  <1>1. /\ Keeps(r, x, {"transcript", "sendBuf"}) /\ r.sendBuf = Append(b, rec)
        /\ r.transcript = u
    BY <1>0, SayKeeps
  <1>2. Quiet(rec)
    BY DEF Quiet, IsFinished, IsTicket
  <1>3. IsSeq(b) /\ \A y \in Recs(b) : Quiet(y)
    BY DEF Quietly
  <1>4. /\ IsSeq(u)
        /\ Requests(u) <=> (Requests(x.transcript) \/ m.type = "certificateRequest")
    BY RequestsHashed
  <1> HIDE DEF r, rec, b, u
  <1>5. IsSeq(Append(b, rec)) /\ Recs(Append(b, rec)) = Recs(b) \cup {rec}
    BY <1>3, RecsAppend
  <1>6. Quietly(r)
    BY <1>1, <1>2, <1>3, <1>5 DEF Quietly, Keeps
  <1> QED
    BY <1>1, <1>4, <1>6 DEF r

LEMMA FailingQuiet ==
    ASSUME NEW x, NEW q, Quietly(x), Failing(q, x), ServerBecomes(q)
    PROVE  ServerTells(q)
  <1>1. DOMAIN q = ConnFields /\ q.pc = "failed"
    BY DEF Failing, Keeps
  <1>2. Quietly(q)
    BY <1>1, QuietlyAdds DEF Failing
  <1>3. ServerTicket(conf, c.session, q)
    BY <1>1 DEF ServerTicket
  <1> QED
    BY <1>1, <1>2, <1>3 DEF ServerTells

LEMMA QuietlyFails ==
    ASSUME NEW x, Quietly(x), NEW a PROVE Failing(Alert(x, a), x)
  BY FailsAlert DEF Quietly

\* What the client said is there to be read.
LEMMA Heard ==
    ASSUME TicketInv, toServer # <<>>, Head(toServer).typ \notin {"alert", "ccs"}
    PROVE  /\ Head(toServer).msg.type = "clientHello" =>
                 GoodHello(conf, c.session, Head(toServer).msg)
           /\ Head(toServer).msg.type = "certificate" =>
                 Head(toServer).msg = certMsg(conf)
  <1> DEFINE x == Head(toServer)
  <1>1. x \in Recs(toServer)
    BY RecsTail DEF TicketInv, SaidOn
  <1>2. Said(conf, c.session, x) /\ ~Noise(x)
    BY <1>1 DEF TicketInv, SaidOn, Noise
  <1> QED
    BY <1>2 DEF Said

LEMMA ReadClientHelloTells ==
    ASSUME AgreeInv, TicketInv, ReadClientHello
    PROVE  s.pc \notin After /\ \E q : ServerTells(q)
  <1> DEFINE rec == Head(toServer)
             m == rec.msg
             g == Receive(s, rec, {"clientHello"})
             suite == SelectedSuite(m)
             group == SelectedGroup(m)
             Q(x) == [x EXCEPT !.hello = m, !.suite = suite, !.group = group]
             q == Q(s)
             hash == messageHash(q.hello)
             one == <<hash>>
             k == [q EXCEPT !.transcript = one]
             hrr == serverHelloMsg(q.suite, TRUE, group, None, FALSE)
             w == Say(k, hrr)
             d == sendDummyChangeCipherSpec(w)
             e == [d EXCEPT !.pc = "secondClientHello"]
             f == [q EXCEPT !.pc = "checkForResumption"]
             a == Alert(q, "handshake_failure")
  <1>1. /\ s.pc = "clientHello" /\ toServer # <<>> /\ rec.typ # "ccs"
        /\ \/ g.pc = "failed" /\ ServerBecomes(g)
           \/ g.pc # "failed" /\
                \/ ServerBecomes(Alert(Q(g), "handshake_failure"))
                \/ ServerBecomes(doHelloRetryRequest(Q(g), group))
                \/ ServerBecomes([Q(g) EXCEPT !.pc = "checkForResumption"])
    BY DEF ReadClientHello, ServerReads, Then
  <1>a. s.pc \notin After
    BY <1>1 DEF After
  <1>2. /\ Quietly(s) /\ DOMAIN s = ConnFields /\ IsSeq(s.transcript)
        /\ IsSeq(s.sendBuf) /\ s.pc # "failed"
        /\ ServerTicket(conf, c.session, s)
    BY <1>a, QuietlyNow
  <1>3. \/ g = s /\ rec.typ # "alert" /\ rec.msg.type \in {"clientHello"}
        \/ Failing(g, s)
    BY <1>2, FailsReceive
  <1>4. CASE Failing(g, s)
    BY <1>1, <1>a, <1>2, <1>4, FailingQuiet DEF Failing
  <1>5. CASE g = s /\ rec.typ # "alert" /\ rec.msg.type \in {"clientHello"}
    <2>1. ServerBecomes(a) \/ ServerBecomes(e) \/ ServerBecomes(f)
      BY <1>1, <1>5 DEF doHelloRetryRequest
    <2>2. GoodHello(conf, c.session, m)
      BY <1>1, <1>5, Heard
    <2>3. Showed(conf, c.session, s, s.peerCerts) /\ ~Requests(s.transcript)
      BY <1>1, <1>2 DEF ServerTicket
    <2> HIDE DEF suite, group, m
    <2>4. /\ Keeps(q, s, {"hello", "suite", "group"}) /\ q.hello = m
          /\ q.transcript = s.transcript
      BY <1>2 DEF Keeps, ConnFields
    <2>5. Quietly(q)
      BY <1>2, <2>4, QuietlyKeeps
    <2> HIDE DEF q, hash
    <2>6. ServerBecomes(a) => ServerTells(a)
      BY <2>5, QuietlyFails, FailingQuiet
    <2> HIDE DEF a
    <2>7. IsSeq(one) /\ ~Requests(one)
      <3>1. IsSeq(one) /\ DOMAIN one = {1} /\ one[1] = hash
        BY ShortSeq
      <3>2. hash.type = "messageHash"
        BY DEF hash, messageHash
      <3> HIDE DEF one
      <3> QED
        BY <3>1, <3>2 DEF Requests
    <2> HIDE DEF one
    <2>8. Keeps(k, q, {"transcript"}) /\ k.transcript = one
      BY <2>4 DEF Keeps, ConnFields
    <2> HIDE DEF k
    <2>9. Quietly(k)
      BY <2>5, <2>8, QuietlyKeeps
    <2>10. hrr.type = "serverHello"
      BY DEF serverHelloMsg
    <2> HIDE DEF hrr
    <2>11. /\ Quietly(w) /\ Keeps(w, k, {"transcript", "sendBuf"})
           /\ ~Requests(w.transcript)
      BY <2>7, <2>8, <2>9, <2>10, QuietlySays
    <2> HIDE DEF w
    <2>12. Keeps(d, w, {"ccs", "sendBuf"}) /\ Adds(d, w)
      BY <2>11, CCSAdds DEF Quietly
    <2> HIDE DEF d
    <2>13. Quietly(d)
      BY <2>11, <2>12, QuietlyAdds DEF Keeps
    <2>14. Keeps(e, d, {"pc"}) /\ e.pc = "secondClientHello"
      BY <2>12 DEF Keeps, ConnFields
    <2> HIDE DEF e
    <2>15. Quietly(e)
      BY <2>13, <2>14, QuietlyKeeps
    <2>16. /\ e.transcript = w.transcript /\ e.hello = m
           /\ e.peerCerts = s.peerCerts /\ e.usingPSK = s.usingPSK
      BY <2>4, <2>8, <2>11, <2>12, <2>14 DEF Keeps, ConnFields
    <2>17. ServerTicket(conf, c.session, e)
      BY <2>2, <2>3, <2>11, <2>14, <2>16 DEF ServerTicket, Showed
    <2>18. ServerBecomes(e) => ServerTells(e)
      BY <2>14, <2>15, <2>17 DEF ServerTells, After
    <2>19. /\ Keeps(f, q, {"pc"}) /\ f.pc = "checkForResumption"
           /\ f.transcript = s.transcript /\ f.hello = m
           /\ f.peerCerts = s.peerCerts /\ f.usingPSK = s.usingPSK
      BY <2>4 DEF Keeps, ConnFields
    <2> HIDE DEF f
    <2>20. Quietly(f)
      BY <2>5, <2>19, QuietlyKeeps
    <2>21. ServerTicket(conf, c.session, f)
      BY <2>2, <2>3, <2>19 DEF ServerTicket, Showed
    <2>22. ServerBecomes(f) => ServerTells(f)
      BY <2>19, <2>20, <2>21 DEF ServerTells, After
    <2> QED
      BY <1>a, <2>1, <2>6, <2>18, <2>22
  <1> QED
    BY <1>3, <1>4, <1>5

LEMMA ReadSecondClientHelloTells ==
    ASSUME AgreeInv, TicketInv, ReadSecondClientHello
    PROVE  s.pc \notin After /\ \E q : ServerTells(q)
  <1> DEFINE rec == Head(toServer)
             m == rec.msg
             g == Receive(s, rec, {"clientHello"})
             R(x) == [x EXCEPT !.hello = m, !.pc = "checkForResumption"]
             f == R(s)
             a == Alert(s, "illegal_parameter")
  <1>1. /\ s.pc = "secondClientHello" /\ toServer # <<>> /\ rec.typ # "ccs"
        /\ \/ g.pc = "failed" /\ ServerBecomes(g)
           \/ g.pc # "failed" /\ ServerBecomes(Alert(g, "illegal_parameter"))
           \/ g.pc # "failed" /\ ServerBecomes(R(g))
    BY DEF ReadSecondClientHello, ServerReads, Then
  <1>a. s.pc \notin After
    BY <1>1 DEF After
  <1>2. /\ Quietly(s) /\ DOMAIN s = ConnFields /\ IsSeq(s.transcript)
        /\ IsSeq(s.sendBuf) /\ s.pc # "failed"
        /\ ServerTicket(conf, c.session, s)
    BY <1>a, QuietlyNow
  <1>3. \/ g = s /\ rec.typ # "alert" /\ rec.msg.type \in {"clientHello"}
        \/ Failing(g, s)
    BY <1>2, FailsReceive
  <1>4. CASE Failing(g, s)
    BY <1>1, <1>a, <1>2, <1>4, FailingQuiet DEF Failing
  <1>5. CASE g = s /\ rec.typ # "alert" /\ rec.msg.type \in {"clientHello"}
    <2>1. ServerBecomes(a) \/ ServerBecomes(f)
      BY <1>1, <1>5
    <2>2. GoodHello(conf, c.session, m)
      BY <1>1, <1>5, Heard
    <2>3. Showed(conf, c.session, s, s.peerCerts) /\ ~Requests(s.transcript)
      BY <1>1, <1>2 DEF ServerTicket
    <2> HIDE DEF m
    <2>4. ServerBecomes(a) => ServerTells(a)
      BY <1>2, QuietlyFails, FailingQuiet
    <2>5. /\ Keeps(f, s, {"hello", "pc"}) /\ f.pc = "checkForResumption"
          /\ f.transcript = s.transcript /\ f.hello = m
          /\ f.peerCerts = s.peerCerts /\ f.usingPSK = s.usingPSK
      BY <1>2 DEF Keeps, ConnFields
    <2> HIDE DEF f
    <2>6. Quietly(f)
      BY <1>2, <2>5, QuietlyKeeps
    <2>7. ServerTicket(conf, c.session, f)
      BY <2>2, <2>3, <2>5 DEF ServerTicket, Showed
    <2>8. ServerBecomes(f) => ServerTells(f)
      BY <2>5, <2>6, <2>7 DEF ServerTells, After
    <2> QED
      BY <1>a, <2>1, <2>4, <2>8
  <1> QED
    BY <1>3, <1>4, <1>5

LEMMA ResumptionTells ==
    ASSUME AgreeInv, TicketInv, checkForResumption
    PROVE  s.pc \notin After /\ \E q : ServerTells(q)
  <1> DEFINE certs == s.hello.psk.certs
             p == [s EXCEPT !.psk = s.hello.psk.secret]
             q == processCertsFromClient(p, certs)
             b == Alert(p, "bad_certificate")
             o == [p EXCEPT !.peerCerts = certs]
             f == [o EXCEPT !.usingPSK = TRUE, !.pc = "pickCertificate"]
             e == [s EXCEPT !.pc = "pickCertificate"]
             a == Alert(p, "decrypt_error")
  <1>1. /\ s.pc = "checkForResumption"
        /\ \/ ServerBecomes(e) \/ ServerBecomes(a)
           \/ q.pc = "failed" /\ ServerBecomes(q)
           \/ /\ s.hello.psk # None /\ q.pc # "failed"
              /\ ServerBecomes([q EXCEPT !.usingPSK = TRUE,
                                         !.pc = "pickCertificate"])
    BY DEF checkForResumption, ServerDoes, Then, TicketAccepted
  <1>a. s.pc \notin After
    BY <1>1 DEF After
  <1>2. /\ Quietly(s) /\ DOMAIN s = ConnFields /\ IsSeq(s.transcript)
        /\ IsSeq(s.sendBuf) /\ s.pc # "failed"
        /\ ServerTicket(conf, c.session, s)
    BY <1>a, QuietlyNow
  <1>3. /\ GoodHello(conf, c.session, s.hello)
        /\ Showed(conf, c.session, s, s.peerCerts) /\ ~Requests(s.transcript)
    BY <1>1, <1>2 DEF ServerTicket
  <1>4. q = b \/ q = o
    BY DEF processCertsFromClient
  <1> HIDE DEF q, certs
  <1>5. /\ Keeps(p, s, {"psk"}) /\ p.pc = s.pc
    BY <1>2 DEF Keeps, ConnFields
  <1>6. Quietly(p)
    BY <1>2, <1>5, QuietlyKeeps
  <1> HIDE DEF p
  <1>7. Failing(a, p) /\ Failing(b, p)
    BY <1>6, QuietlyFails
  <1> HIDE DEF a, b
  <1>8. Keeps(o, p, {"peerCerts"}) /\ o.peerCerts = certs /\ o.pc = s.pc
    BY <1>5 DEF Keeps, ConnFields
  <1>9. Quietly(o)
    BY <1>6, <1>8, QuietlyKeeps
  <1> HIDE DEF o
  <1>10. /\ Keeps(f, o, {"usingPSK", "pc"}) /\ f.pc = "pickCertificate"
         /\ f.usingPSK = TRUE /\ f.peerCerts = certs
         /\ f.hello = s.hello /\ f.transcript = s.transcript
    BY <1>5, <1>8 DEF Keeps, ConnFields
  <1>11. /\ Keeps(e, s, {"pc"}) /\ e.pc = "pickCertificate"
         /\ e.usingPSK = s.usingPSK /\ e.peerCerts = s.peerCerts
         /\ e.hello = s.hello /\ e.transcript = s.transcript
    BY <1>2 DEF Keeps, ConnFields
  <1>12. Quietly(f) /\ Quietly(e)
    BY <1>2, <1>9, <1>10, <1>11, QuietlyKeeps
  <1>13. ASSUME s.hello.psk # None, ServerBecomes(f) PROVE ServerTells(f)
    <2>1. certs = c.session.ticket.certs
      BY <1>3, <1>13 DEF GoodHello, certs
    <2> HIDE DEF f
    <2>2. ServerTicket(conf, c.session, f)
      BY <1>3, <1>10, <2>1 DEF ServerTicket, Showed
    <2> QED
      BY <1>10, <1>12, <1>13, <2>2 DEF ServerTells, After
  <1>14. ASSUME ServerBecomes(e) PROVE ServerTells(e)
    <2> HIDE DEF e
    <2>1. ServerTicket(conf, c.session, e)
      BY <1>3, <1>11 DEF ServerTicket, Showed
    <2> QED
      BY <1>11, <1>12, <1>14, <2>1 DEF ServerTells, After
  <1>15. /\ ServerBecomes(a) => ServerTells(a)
         /\ ServerBecomes(b) => ServerTells(b)
    BY <1>6, <1>7, FailingQuiet
  <1>16. o.pc # "failed" /\ b.pc = "failed"
    BY <1>1, <1>7, <1>8 DEF Failing
  <1>17. CASE q = b
    BY <1>1, <1>a, <1>14, <1>15, <1>16, <1>17
  <1>18. CASE q = o
    BY <1>1, <1>a, <1>13, <1>14, <1>15, <1>16, <1>18
  <1> QED
    BY <1>4, <1>17, <1>18

LEMMA PickTells ==
    ASSUME AgreeInv, TicketInv, pickCertificate
    PROVE  s.pc \notin After /\ \E q : ServerTells(q)
  <1> DEFINE r == [s EXCEPT !.pc = "sendServerParameters", !.buffering = TRUE]
             a == Alert(s, "unrecognized_name")
  <1>1. s.pc = "pickCertificate" /\ (ServerBecomes(a) \/ ServerBecomes(r))
    BY DEF pickCertificate, ServerDoes
  <1>a. s.pc \notin After
    BY <1>1 DEF After
  <1>2. /\ Quietly(s) /\ DOMAIN s = ConnFields /\ IsSeq(s.transcript)
        /\ IsSeq(s.sendBuf) /\ s.pc # "failed"
        /\ ServerTicket(conf, c.session, s)
    BY <1>a, QuietlyNow
  <1>3. /\ GoodHello(conf, c.session, s.hello)
        /\ Showed(conf, c.session, s, s.peerCerts) /\ ~Requests(s.transcript)
    BY <1>1, <1>2 DEF ServerTicket
  <1>4. /\ Keeps(r, s, {"pc", "buffering"}) /\ r.pc = "sendServerParameters"
        /\ r.usingPSK = s.usingPSK /\ r.peerCerts = s.peerCerts
        /\ r.hello = s.hello /\ r.transcript = s.transcript
    BY <1>2 DEF Keeps, ConnFields
  <1> HIDE DEF r
  <1>5. Quietly(r)
    BY <1>2, <1>4, QuietlyKeeps
  <1>6. ServerTicket(conf, c.session, r)
    BY <1>3, <1>4 DEF ServerTicket, Showed
  <1>7. ServerBecomes(r) => ServerTells(r)
    BY <1>4, <1>5, <1>6 DEF ServerTells, After
  <1>8. ServerBecomes(a) => ServerTells(a)
    BY <1>2, QuietlyFails, FailingQuiet
  <1> QED
    BY <1>1, <1>a, <1>7, <1>8

LEMMA ParametersTells ==
    ASSUME AgreeInv, TicketInv, sendServerParameters
    PROVE  s.pc \notin After /\ \E q : ServerTells(q)
  <1> DEFINE share == [group |-> s.group, n |-> 0]
             secret == HandshakeSecret(s.suite, s.psk, s.hello.share, share)
             h == Hashed(s, s.hello)
             m == serverHelloMsg(s.suite, FALSE, None, share, s.usingPSK)
             p == Say(h, m)
             d == sendDummyChangeCipherSpec(p)
             key == clientKey(secret, p.transcript)
             other == ServerKey(secret, p.transcript)
             q == [d EXCEPT !.secret = secret, !.in = key, !.out = other]
             proto == negotiateALPN(conf.serverProtos, conf.clientProtos)
             ee == [type |-> "encryptedExtensions", alpn |-> proto]
             e == Say(q, ee)
             r == [e EXCEPT !.proto = proto,
                            !.pc = "sendServerCertificate"]
             a == Alert(q, "no_application_protocol")
  <1>1. s.pc = "sendServerParameters" /\ (ServerBecomes(a) \/ ServerBecomes(r))
    BY Zenon DEF sendServerParameters, ServerDoes, clientKey, ServerKey
  <1>a. s.pc \notin After
    BY <1>1 DEF After
  <1>2. /\ Quietly(s) /\ DOMAIN s = ConnFields /\ IsSeq(s.transcript)
        /\ IsSeq(s.sendBuf) /\ s.pc # "failed"
        /\ ServerTicket(conf, c.session, s)
    BY <1>a, QuietlyNow
  <1>3. /\ GoodHello(conf, c.session, s.hello)
        /\ Showed(conf, c.session, s, s.peerCerts) /\ ~Requests(s.transcript)
    BY <1>1, <1>2 DEF ServerTicket
  <1>4. m.type = "serverHello" /\ ee.type = "encryptedExtensions"
    BY DEF serverHelloMsg
  <1> HIDE DEF secret, m, ee
  <1>5. /\ Keeps(h, s, {"transcript"})
        /\ h.transcript = Append(s.transcript, Digest(s.hello))
    BY <1>2, HashedKeeps
  <1>6. IsSeq(h.transcript) /\ ~Requests(h.transcript)
    BY <1>2, <1>3, <1>5, RequestsHashed DEF GoodHello
  <1>7. Quietly(h)
    BY <1>2, <1>5, QuietlyKeeps
  <1> HIDE DEF h
  <1>8. /\ Quietly(p) /\ Keeps(p, h, {"transcript", "sendBuf"})
        /\ IsSeq(p.transcript) /\ ~Requests(p.transcript)
    BY <1>4, <1>6, <1>7, QuietlySays
  <1> HIDE DEF p
  <1>9. /\ key.transcript = p.transcript
        /\ other.secret = secret /\ other.transcript = p.transcript
    BY KeyParts, ServerKeyParts
  <1> HIDE DEF key, other
  <1>10. DOMAIN p = ConnFields /\ IsSeq(p.sendBuf)
    BY <1>8 DEF Quietly
  <1>11. Keeps(d, p, {"ccs", "sendBuf"}) /\ Adds(d, p)
    BY <1>10, CCSAdds
  <1> HIDE DEF d
  <1>12. DOMAIN d = ConnFields
    BY <1>11 DEF Keeps
  <1>13. Quietly(d)
    BY <1>8, <1>11, <1>12, QuietlyAdds
  <1>14. /\ Keeps(q, d, {"secret", "in", "out"}) /\ q.secret = secret
         /\ q.in = key /\ q.out = other /\ q.transcript = p.transcript
    BY <1>11, <1>12 DEF Keeps, ConnFields
  <1> HIDE DEF q
  <1>15. Quietly(q)
    BY <1>13, <1>14, QuietlyKeeps
  <1>16. ServerBecomes(a) => ServerTells(a)
    BY <1>15, QuietlyFails, FailingQuiet
  <1> HIDE DEF a
  <1>17. /\ Quietly(e) /\ Keeps(e, q, {"transcript", "sendBuf"})
         /\ IsSeq(e.transcript) /\ ~Requests(e.transcript)
    BY <1>4, <1>8, <1>14, <1>15, QuietlySays
  <1> HIDE DEF e
  <1>18. DOMAIN e = ConnFields
    BY <1>17 DEF Keeps
  <1>19. /\ Keeps(r, e, {"proto", "pc"}) /\ r.pc = "sendServerCertificate"
         /\ r.transcript = e.transcript /\ r.secret = secret
         /\ r.in = key /\ r.out = other
    BY <1>14, <1>17, <1>18 DEF Keeps, ConnFields
  <1>20. /\ r.hello = s.hello /\ r.peerCerts = s.peerCerts
         /\ r.usingPSK = s.usingPSK
    BY <1>5, <1>8, <1>11, <1>14, <1>17, <1>19 DEF Keeps, ConnFields
  <1> HIDE DEF r
  <1>21. Quietly(r)
    BY <1>17, <1>19, QuietlyKeeps
  <1>22. ServerTicket(conf, c.session, r)
    BY <1>3, <1>9, <1>17, <1>19, <1>20 DEF ServerTicket, Showed
  <1>23. ServerBecomes(r) => ServerTells(r)
    BY <1>19, <1>21, <1>22 DEF ServerTells, After
  <1> QED
    BY <1>1, <1>a, <1>16, <1>23

LEMMA CertificateTells ==
    ASSUME AgreeInv, TicketInv, sendServerCertificate
    PROVE  s.pc \notin After /\ \E q : ServerTells(q)
  <1> DEFINE req == [type |-> "certificateRequest"]
             x == Say(s, req)
             p == IF requestClientCert(s) THEN x ELSE s
             cert == [type |-> "certificate", cert |-> "server"]
             q == Say(p, cert)
             verify == certificateVerify(q, "server", "server")
             v == Say(q, verify)
             e == IF s.usingPSK THEN s ELSE v
             f == [e EXCEPT !.pc = "sendServerFinished"]
  <1>1. s.pc = "sendServerCertificate" /\ ServerBecomes(f)
    BY DEF sendServerCertificate, ServerDoes
  <1>a. s.pc \notin After
    BY <1>1 DEF After
  <1>2. /\ Quietly(s) /\ DOMAIN s = ConnFields /\ IsSeq(s.transcript)
        /\ IsSeq(s.sendBuf) /\ s.pc # "failed"
        /\ ServerTicket(conf, c.session, s)
    BY <1>a, QuietlyNow
  <1>3. /\ GoodHello(conf, c.session, s.hello)
        /\ Showed(conf, c.session, s, s.peerCerts) /\ ~Requests(s.transcript)
        /\ s.out.secret = s.secret /\ s.out.transcript = s.in.transcript
    BY <1>1, <1>2 DEF ServerTicket
  <1>4. /\ req.type = "certificateRequest" /\ cert.type = "certificate"
        /\ verify.type = "certificateVerify"
    BY DEF certificateVerify
  <1>5. requestClientCert(s) <=> Asks(conf, s)
    BY DEF requestClientCert, Asks
  <1> HIDE DEF req, cert, verify
  <1>6. /\ Quietly(x) /\ Keeps(x, s, {"transcript", "sendBuf"})
        /\ IsSeq(x.transcript) /\ Requests(x.transcript)
    BY <1>2, <1>4, QuietlySays
  <1> HIDE DEF x
  <1>7. /\ Quietly(p) /\ Keeps(p, s, {"transcript", "sendBuf"})
        /\ IsSeq(p.transcript) /\ (Requests(p.transcript) <=> Asks(conf, s))
    <2>1. Keeps(s, s, {"transcript", "sendBuf"})
      BY <1>2 DEF Keeps
    <2> QED
      BY <1>2, <1>3, <1>5, <1>6, <2>1
  <1> HIDE DEF p
  <1>8. /\ Quietly(q) /\ Keeps(q, p, {"transcript", "sendBuf"})
        /\ IsSeq(q.transcript) /\ (Requests(q.transcript) <=> Asks(conf, s))
    <2>1. /\ Quietly(q) /\ Keeps(q, p, {"transcript", "sendBuf"})
          /\ IsSeq(q.transcript)
          /\ Requests(q.transcript)
               <=> (Requests(p.transcript) \/ cert.type = "certificateRequest")
      BY <1>4, <1>7, QuietlySays
    <2> QED
      BY <1>4, <1>7, <2>1
  <1> HIDE DEF q
  <1>9. /\ Quietly(v) /\ Keeps(v, q, {"transcript", "sendBuf"})
        /\ IsSeq(v.transcript) /\ (Requests(v.transcript) <=> Asks(conf, s))
    <2>1. /\ Quietly(v) /\ Keeps(v, q, {"transcript", "sendBuf"})
          /\ IsSeq(v.transcript)
          /\ Requests(v.transcript)
               <=> (Requests(q.transcript) \/ verify.type = "certificateRequest")
      BY <1>4, <1>8, QuietlySays
    <2> QED
      BY <1>4, <1>8, <2>1
  <1> HIDE DEF v
  <1>10. /\ Quietly(e) /\ Keeps(e, s, {"transcript", "sendBuf"})
         /\ Requests(e.transcript) <=> Asks(conf, s)
    <2>1. CASE s.usingPSK
      <3>1. ~Asks(conf, s) /\ e = s
        BY <2>1 DEF Asks
      <3> QED
        BY <1>2, <1>3, <3>1 DEF Keeps
    <2>2. CASE ~s.usingPSK
      <3>1. Keeps(v, s, {"transcript", "sendBuf"}) /\ e = v
        BY <1>7, <1>8, <1>9, <2>2 DEF Keeps
      <3> QED
        BY <1>9, <3>1
    <2> QED
      BY <2>1, <2>2
  <1> HIDE DEF e
  <1>11. DOMAIN e = ConnFields
    BY <1>10 DEF Keeps
  <1>12. /\ Keeps(f, e, {"pc"}) /\ f.pc = "sendServerFinished"
         /\ f.transcript = e.transcript
    BY <1>11 DEF Keeps, ConnFields
  <1> HIDE DEF f
  <1>13. /\ f.hello = s.hello /\ f.peerCerts = s.peerCerts
         /\ f.usingPSK = s.usingPSK /\ f.secret = s.secret
         /\ f.in = s.in /\ f.out = s.out
    BY <1>10, <1>12 DEF Keeps, ConnFields
  <1>14. Quietly(f)
    BY <1>10, <1>12, QuietlyKeeps
  <1>15. ServerTicket(conf, c.session, f)
    BY <1>3, <1>10, <1>12, <1>13 DEF ServerTicket, Showed, Asks
  <1>16. ServerTells(f)
    BY <1>1, <1>12, <1>14, <1>15 DEF ServerTells, After
  <1> QED
    BY <1>a, <1>16

\* What the end of a step leaves is what its state says.
LEMMA ServerTicketSame ==
    ASSUME NEW k, NEW session, NEW x, NEW r, Keeps(r, x, {"sendBuf"}),
           ServerTicket(k, session, x)
    PROVE  ServerTicket(k, session, r)
  <1>1. /\ r.pc = x.pc /\ r.hello = x.hello /\ r.peerCerts = x.peerCerts
        /\ r.usingPSK = x.usingPSK /\ r.transcript = x.transcript
        /\ r.in = x.in /\ r.out = x.out /\ r.secret = x.secret /\ r.app = x.app
    BY DEF Keeps, ConnFields
  <1> QED
    BY <1>1 DEF ServerTicket, Showed, Asks

\* What the server's step leaves alone.
LEMMA ServerLeaves ==
    ASSUME TicketInv, ServerNext
    PROVE  /\ c' = c /\ SaidOn(conf, c.session, toServer')
           /\ SaidOn(conf, c.session, c.sendBuf) /\ ClientTicket(conf, c)
           /\ c.pc # "clientHandshake"
  <1>1. SaidOn(conf, c.session, toServer)
    BY DEF TicketInv
  <1>2. SaidOn(conf, c.session, toServer')
    <2>1. CASE toServer' = toServer
      BY <1>1, <2>1
    <2>2. CASE toServer # <<>> /\ toServer' = Tail(toServer)
      <3> DEFINE u == Tail(toServer)
      <3>1. IsSeq(u) /\ Recs(u) \subseteq Recs(toServer)
        BY <1>1, <2>2, RecsTail DEF SaidOn
      <3>2. toServer' = u
        BY <2>2
      <3> HIDE DEF u
      <3>3. SaidOn(conf, c.session, u)
        BY <1>1, <3>1 DEF SaidOn
      <3> QED
        BY <3>2, <3>3
    <2> QED
      BY <2>1, <2>2, ServerTakes
  <1>4. c.pc # "clientHandshake"
    BY ServerTakes DEF TicketInv, Fresh
  <1> QED
    BY <1>2, <1>4, ServerLeavesClient DEF TicketInv

\* The server's step ends in q, and its records follow those on the wire.
LEMMA ServerConcludes ==
    ASSUME TicketInv, ServerNext, NEW q, DOMAIN q = ConnFields, ServerBecomes(q),
           ServerTicket(conf, c.session, q), ServerBuf(s'),
           TicketWire(conf, c.session, s', toClient'), Joined(c, s', toClient')
    PROVE  TicketInv'
  <1>1. Keeps(s', q, {"sendBuf"}) /\ conf' = conf
    BY DEF ServerBecomes, Keeps, ConnFields
  <1>2. ServerTicket(conf, c.session, s')
    BY <1>1, ServerTicketSame
  <1>3. /\ c' = c /\ SaidOn(conf, c.session, toServer')
        /\ SaidOn(conf, c.session, c.sendBuf) /\ ClientTicket(conf, c)
        /\ c.pc # "clientHandshake"
    BY ServerLeaves
  <1> DEFINE d == s'
             tc == toClient'
             tv == toServer'
  <1>4. /\ ClientTicket(conf, c) /\ ServerTicket(conf, c.session, d)
        /\ ServerBuf(d) /\ SaidOn(conf, c.session, c.sendBuf)
        /\ SaidOn(conf, c.session, tv) /\ TicketWire(conf, c.session, d, tc)
        /\ Joined(c, d, tc) /\ Fresh(c, d, tv)
    BY <1>2, <1>3 DEF Fresh
  <1> QED
    BY <1>1, <1>3, <1>4 DEF TicketInv

LEMMA ServerTold ==
    ASSUME TicketInv, s.pc \notin After, ServerNext, \E q : ServerTells(q)
    PROVE  TicketInv'
  <1>1. PICK q : ServerTells(q)
    OBVIOUS
  <1>2. /\ DOMAIN q = ConnFields /\ IsSeq(q.sendBuf)
        /\ \A r \in Recs(q.sendBuf) : Quiet(r)
        /\ q.pc \notin After \ {"failed"}
        /\ ServerTicket(conf, c.session, q) /\ ServerBecomes(q)
    BY <1>1 DEF ServerTells, Quietly
  <1>3. /\ Keeps(s', q, {"sendBuf"}) /\ s'.sendBuf = Kept(q)
        /\ toClient' = toClient \o Passed(q)
    BY <1>2 DEF ServerBecomes, Keeps, ConnFields
  <1>4. s'.pc = q.pc
    BY <1>3 DEF Keeps, ConnFields
  <1> DEFINE u == Passed(q)
             b == Kept(q)
             w == toClient \o u
  <1>5. /\ IsSeq(u) /\ \A r \in Recs(u) : Quiet(r)
        /\ IsSeq(b) /\ \A r \in Recs(b) : Quiet(r)
    BY <1>2, RecsShort DEF Passed, Kept
  <1>6. s'.sendBuf = b /\ toClient' = w
    BY <1>3
  <1> HIDE DEF u, b
  <1>7. ServerBuf(s')
    BY <1>2, <1>4, <1>5, <1>6 DEF ServerBuf
  <1>8. /\ IsSeq(toClient) /\ \A r \in Recs(toClient) : Quiet(r)
    BY DEF TicketInv, TicketWire, Quiet
  <1>9. IsSeq(w) /\ Recs(w) \subseteq Recs(toClient) \cup Recs(u)
    BY <1>5, <1>8, RecsConcat
  <1> HIDE DEF w
  <1>10. \A r \in Recs(w) : Quiet(r)
    BY <1>5, <1>8, <1>9
  <1>11. TicketWire(conf, c.session, s', w)
    BY <1>9, <1>10 DEF TicketWire, Ordered, Recs, Quiet
  <1>12. Joined(c, s', w)
    BY DEF TicketInv, Joined
  <1> QED
    BY <1>2, <1>6, <1>7, <1>11, <1>12, ServerConcludes

-----------------------------------------------------------------------------
(* The server's Finished and its tickets.                                  *)

LEMMA QuietWire ==
    ASSUME NEW k, NEW session, NEW p, NEW ts, IsSeq(ts),
           \A r \in Recs(ts) : Quiet(r)
    PROVE  TicketWire(k, session, p, ts)
  BY DEF TicketWire, Ordered, Recs, Quiet

\* r is p later on, its keys the same.
LEMMA TicketWireOn ==
    ASSUME NEW k, NEW session, NEW p, NEW r, NEW ts,
           TicketWire(k, session, p, ts), r.pc \in After, r.secret = p.secret,
           r.usingPSK = p.usingPSK, r.app = p.app, r.out = p.out
    PROVE  TicketWire(k, session, r, ts)
  <1>1. \A v : Finishes(p, v) => Finishes(r, v)
    BY DEF Finishes
  <1>2. \A x : TicketOK(k, session, p, x) => TicketOK(k, session, r, x)
    BY DEF TicketOK, Showed
  <1> QED
    BY <1>1, <1>2 DEF TicketWire

LEMMA TicketWireAppend ==
    ASSUME NEW k, NEW session, NEW p, NEW ts, NEW x, TicketWire(k, session, p, ts),
           (\A r \in Recs(ts) : ~IsFinished(r)) \/ ~InFlight(x),
           IsFinished(x) => p.pc \in After /\ Finishes(p, x.msg.verifyData),
           IsTicket(x) => p.pc \in After /\ TicketOK(k, session, p, x)
    PROVE  TicketWire(k, session, p, Append(ts, x))
  <1> DEFINE u == Append(ts, x)
  <1>1. IsSeq(ts) /\ Ordered(ts)
    BY DEF TicketWire
  <1>2. Ordered(u)
    BY <1>1, OrderedAppend
  <1>3. IsSeq(u) /\ Recs(u) = Recs(ts) \cup {x}
    BY <1>1, RecsAppend
  <1> HIDE DEF u
  <1>4. TicketWire(k, session, p, u)
    BY <1>2, <1>3 DEF TicketWire
  <1> QED
    BY <1>4 DEF u

LEMMA TicketWireConcat ==
    ASSUME NEW k, NEW session, NEW p, NEW t, NEW u, TicketWire(k, session, p, t),
           TicketWire(k, session, p, u),
           \/ \A r \in Recs(t) : ~IsFinished(r)
           \/ \A r \in Recs(u) : ~InFlight(r)
    PROVE  TicketWire(k, session, p, t \o u)
  <1> DEFINE w == t \o u
  <1>1. IsSeq(t) /\ Ordered(t) /\ IsSeq(u) /\ Ordered(u)
    BY DEF TicketWire
  <1>2. Ordered(w)
    BY <1>1, OrderedConcat
  <1>3. IsSeq(w) /\ Recs(w) \subseteq Recs(t) \cup Recs(u)
    BY <1>1, RecsConcat
  <1> HIDE DEF w
  <1>4. TicketWire(k, session, p, w)
    BY <1>2, <1>3 DEF TicketWire
  <1> QED
    BY <1>4 DEF w

\* The ticket that x seals with a client's Finished to follow its transcript.
TicketFrom(x, r) ==
    /\ conf.caching /\ IsTicket(r) /\ ~InFlight(r) /\ r.key = x.out
    /\ r.msg.secret = resumptionSecret(x.secret, Append(x.transcript, Fin))
    /\ r.msg.certs = x.peerCerts

LEMMA TicketsSeal ==
    ASSUME NEW x, DOMAIN x = ConnFields, GoodHello(conf, c.session, x.hello)
    PROVE  /\ Keeps(sendSessionTickets(x), x,
                    {"transcript", "clientFinished", "sendBuf"})
           /\ sendSessionTickets(x).transcript = Append(x.transcript, Fin)
           /\ \/ sendSessionTickets(x).sendBuf = x.sendBuf
              \/ \E r : /\ TicketFrom(x, r)
                        /\ sendSessionTickets(x).sendBuf = Append(x.sendBuf, r)
  <1> DEFINE v == finishedHash(x.in, x.transcript)
             m == finishedMsg(v)
             f == [x EXCEPT !.clientFinished = v]
             q == Hashed(f, m)
             y == sendSessionTickets(x)
             k == [type |-> "newSessionTicket", suite |-> x.suite,
                   secret |-> resumptionSecret(x.secret, q.transcript),
                   certs |-> x.peerCerts]
             t == Append(x.transcript, Fin)
  <1>1. \/ y = q
        \/ conf.tickets /\ x.hello.pskModes /\ y = Send(q, "handshake", k)
    BY Zenon DEF sendSessionTickets, resumptionSecret
  <1>2. m.type = "finished"
    BY DEF finishedMsg
  <1> HIDE DEF v, m, y
  <1>3. /\ Keeps(f, x, {"clientFinished"}) /\ f.transcript = x.transcript
        /\ DOMAIN f = ConnFields
    BY DEF Keeps, ConnFields
  <1> HIDE DEF f
  <1>4. Keeps(q, f, {"transcript"}) /\ q.transcript = t
    <2>1. /\ Keeps(q, f, {"transcript"})
          /\ q.transcript = Append(f.transcript, Digest(m))
      BY <1>3, HashedKeeps
    <2>2. Digest(m) = Fin
      BY <1>2, DigestFinished DEF Fin
    <2> QED
      BY <1>3, <2>1, <2>2
  <1> HIDE DEF q, t
  <1>5. /\ k.type = "newSessionTicket" /\ k.certs = x.peerCerts
        /\ k.secret = resumptionSecret(x.secret, t)
    BY <1>4
  <1> HIDE DEF k
  <1>6. /\ DOMAIN q = ConnFields /\ q.sendBuf = x.sendBuf /\ q.out = x.out
        /\ Keeps(q, x, {"transcript", "clientFinished", "sendBuf"})
    BY <1>3, <1>4 DEF Keeps, ConnFields
  <1>7. CASE y = q
    BY <1>4, <1>6, <1>7 DEF y, t
  <1>8. CASE x.hello.pskModes /\ y = Send(q, "handshake", k)
    <2> DEFINE r == [typ |-> "handshake", key |-> x.out, msg |-> k]
    <2>1. /\ Keeps(Send(q, "handshake", k), q, {"sendBuf"})
          /\ Send(q, "handshake", k).sendBuf = Append(q.sendBuf,
               [typ |-> "handshake", key |-> q.out, msg |-> k])
      BY <1>6, SendKeeps
    <2>2. Keeps(y, q, {"sendBuf"}) /\ y.sendBuf = Append(x.sendBuf, r)
      BY <1>6, <1>8, <2>1
    <2>3. TicketFrom(x, r)
      BY <1>5, <1>8 DEF TicketFrom, IsTicket, InFlight, Noise, GoodHello, t
    <2> HIDE DEF r
    <2>4. /\ Keeps(y, x, {"transcript", "clientFinished", "sendBuf"})
          /\ y.transcript = t
      BY <1>4, <1>6, <2>2 DEF Keeps, ConnFields
    <2> QED
      BY <2>2, <2>3, <2>4 DEF y, t
  <1> QED
    BY <1>1, <1>7, <1>8

LEMMA AppKeyParts ==
    \A x, t : clientAppKey(x, t).transcript = t
  BY KeyParts

\* The server's Finished, and the ticket of a server that asks for nothing.
LEMMA FinishedTickets ==
    ASSUME AgreeInv, TicketInv, ServerNext, sendServerFinished PROVE TicketInv'
  <1> DEFINE v == finishedHash(s.out, s.transcript)
             m == finishedMsg(v)
             p == Say(s, m)
             app == clientAppKey(s.secret, p.transcript)
             other == serverAppKey(s.secret, p.transcript)
             q == [p EXCEPT !.app = app, !.out = other]
             k == sendSessionTickets(q)
             r == IF requestClientCert(s) THEN q ELSE k
             f == [r EXCEPT !.pc = "readClientCertificate", !.buffering = FALSE]
             rec == [typ |-> "handshake", key |-> s.out, msg |-> m]
             t == Append(s.transcript, Fin)
             b == Append(s.sendBuf, rec)
  <1>1. s.pc = "sendServerFinished" /\ ServerBecomes(f)
    BY Zenon DEF sendServerFinished, ServerDoes, clientAppKey, serverAppKey
  <1>a. s.pc \notin After
    BY <1>1 DEF After
  <1>2. /\ Quietly(s) /\ DOMAIN s = ConnFields /\ IsSeq(s.transcript)
        /\ IsSeq(s.sendBuf) /\ ServerTicket(conf, c.session, s)
    BY <1>a, QuietlyNow
  <1>3. /\ GoodHello(conf, c.session, s.hello)
        /\ Showed(conf, c.session, s, s.peerCerts)
        /\ Requests(s.transcript) <=> Asks(conf, s)
        /\ s.out.secret = s.secret /\ s.out.transcript = s.in.transcript
    BY <1>1, <1>2 DEF ServerTicket
  <1>4. s.in.transcript[Len(s.in.transcript)].psk = s.usingPSK
    BY <1>1 DEF AgreeInv, ServerState, Keyed
  <1>5. /\ m.type = "finished" /\ m.verifyData = v
        /\ v.key = s.out /\ v.transcript = s.transcript
    BY DEF finishedMsg, finishedHash
  <1>6. requestClientCert(s) <=> Asks(conf, s)
    BY DEF requestClientCert, Asks
  <1> HIDE DEF m, v
  <1>7. Digest(m) = Fin
    BY <1>5, DigestFinished DEF Fin
  <1>8. /\ Keeps(p, s, {"transcript", "sendBuf"}) /\ p.transcript = t
        /\ p.sendBuf = b
    BY <1>2, <1>7, SayKeeps
  <1>9. IsFinished(rec) /\ ~IsTicket(rec) /\ rec.msg = m
    BY <1>5 DEF IsFinished, IsTicket
  <1>10. IsSeq(t) /\ (Requests(t) <=> Requests(s.transcript))
    <2>1. Fin.type # "certificateRequest"
      BY DEF Fin
    <2> QED
      BY <1>2, <2>1, RequestsOn, RecsAppend
  <1> HIDE DEF p, rec, t, b
  <1>11. app = clientAppKey(s.secret, t) /\ other = serverAppKey(s.secret, t)
         /\ app.transcript = t
    BY <1>8, AppKeyParts
  <1> HIDE DEF app, other
  <1>12. DOMAIN p = ConnFields
    BY <1>8 DEF Keeps
  <1>13. /\ Keeps(q, p, {"app", "out"}) /\ q.app = app /\ q.out = other
         /\ q.transcript = t /\ q.sendBuf = b /\ DOMAIN q = ConnFields
    BY <1>8, <1>12 DEF Keeps, ConnFields
  <1> HIDE DEF q
  <1>14. /\ q.hello = s.hello /\ q.secret = s.secret
         /\ q.usingPSK = s.usingPSK /\ q.peerCerts = s.peerCerts
    BY <1>8, <1>13 DEF Keeps, ConnFields
  <1>15. /\ Keeps(k, q, {"transcript", "clientFinished", "sendBuf"})
         /\ \/ k.sendBuf = b
            \/ \E x : TicketFrom(q, x) /\ k.sendBuf = Append(b, x)
    BY <1>3, <1>13, <1>14, TicketsSeal
  <1> HIDE DEF k
  <1>16. /\ Keeps(r, q, {"transcript", "clientFinished", "sendBuf"})
         /\ requestClientCert(s) => r.transcript = t
         /\ \/ r.sendBuf = b
            \/ /\ ~requestClientCert(s)
               /\ \E x : TicketFrom(q, x) /\ r.sendBuf = Append(b, x)
    <2>1. Keeps(q, q, {"transcript", "clientFinished", "sendBuf"})
      BY <1>13 DEF Keeps
    <2> QED
      BY <1>13, <1>15, <2>1
  <1> HIDE DEF r
  <1>17. DOMAIN r = ConnFields
    BY <1>16 DEF Keeps
  <1>18. /\ Keeps(f, r, {"pc", "buffering"}) /\ f.pc = "readClientCertificate"
         /\ f.buffering = FALSE /\ f.transcript = r.transcript
         /\ f.sendBuf = r.sendBuf /\ DOMAIN f = ConnFields
    BY <1>17 DEF Keeps, ConnFields
  <1> HIDE DEF f
  <1>19. /\ f.hello = s.hello /\ f.secret = s.secret
         /\ f.usingPSK = s.usingPSK /\ f.peerCerts = s.peerCerts
         /\ f.app = app /\ f.out = other
    BY <1>13, <1>14, <1>16, <1>18 DEF Keeps, ConnFields
  <1>20. f.pc \in After
    BY <1>18 DEF After
  <1>21. Finishes(f, v)
    BY <1>3, <1>4, <1>5, <1>11, <1>19 DEF Finishes, t
  <1>22. ASSUME NEW x, TicketFrom(q, x), ~requestClientCert(s)
         PROVE  TicketOK(conf, c.session, f, x)
    <2>1. Full(conf, t) = Append(t, Fin)
      BY <1>3, <1>6, <1>10, <1>22 DEF Full, Before
    <2>2. /\ x.msg.secret = resumptionSecret(s.secret, Append(t, Fin))
          /\ x.msg.certs = s.peerCerts /\ x.key = other /\ conf.caching
      BY <1>13, <1>14, <1>22 DEF TicketFrom
    <2>3. Showed(conf, c.session, f, s.peerCerts)
      BY <1>3, <1>19 DEF Showed
    <2> QED
      BY <1>11, <1>19, <2>1, <2>2, <2>3 DEF TicketOK
  <1>23. TicketWire(conf, c.session, f, b)
    <2>1. TicketWire(conf, c.session, f, s.sendBuf)
      BY <1>2, QuietWire DEF Quietly
    <2>2. \A x \in Recs(s.sendBuf) : ~IsFinished(x)
      BY <1>2 DEF Quietly, Quiet
    <2>3. IsFinished(rec) => f.pc \in After /\ Finishes(f, rec.msg.verifyData)
      BY <1>5, <1>9, <1>20, <1>21
    <2> QED
      BY <1>9, <2>1, <2>2, <2>3, TicketWireAppend DEF b
  <1>24. TicketWire(conf, c.session, f, f.sendBuf)
    <2>1. CASE r.sendBuf = b
      BY <1>18, <1>23, <2>1
    <2>2. CASE /\ ~requestClientCert(s)
               /\ \E x : TicketFrom(q, x) /\ r.sendBuf = Append(b, x)
      <3>1. PICK x : TicketFrom(q, x) /\ r.sendBuf = Append(b, x)
        BY <2>2
      <3>2. TicketOK(conf, c.session, f, x)
        BY <1>22, <2>2, <3>1
      <3>3. ~InFlight(x) /\ ~IsFinished(x)
        BY <3>1 DEF TicketFrom, IsTicket, IsFinished
      <3>4. TicketWire(conf, c.session, f, Append(b, x))
        BY <1>20, <1>23, <3>2, <3>3, TicketWireAppend
      <3> QED
        BY <1>18, <3>1, <3>4
    <2> QED
      BY <1>16, <2>1, <2>2
  <1>25. ServerTicket(conf, c.session, f)
    <2>1. Asks(conf, f) <=> Asks(conf, s)
      BY <1>19 DEF Asks
    <2> QED
      BY <1>3, <1>6, <1>10, <1>11, <1>16, <1>18, <1>19, <2>1
         DEF ServerTicket, Showed
  <1> DEFINE w == toClient \o f.sendBuf
  <1>26. TicketWire(conf, c.session, f, w)
    <2>1. IsSeq(toClient) /\ \A x \in Recs(toClient) : Quiet(x)
      BY <1>a DEF TicketInv, TicketWire, Quiet
    <2>2. TicketWire(conf, c.session, f, toClient)
      BY <2>1, QuietWire
    <2>3. \A x \in Recs(toClient) : ~IsFinished(x)
      BY <2>1 DEF Quiet
    <2> QED
      BY <1>24, <2>2, <2>3, TicketWireConcat
  <1>27. /\ Keeps(s', f, {"sendBuf"}) /\ s'.sendBuf = <<>> /\ toClient' = w
    BY <1>1, <1>18 DEF ServerBecomes, Keeps, ConnFields, Kept, Passed
  <1> HIDE DEF w
  <1>28. /\ s'.pc = f.pc /\ s'.secret = f.secret /\ s'.usingPSK = f.usingPSK
         /\ s'.app = f.app /\ s'.out = f.out /\ s'.buffering = FALSE
    BY <1>18, <1>27 DEF Keeps, ConnFields
  <1>29. TicketWire(conf, c.session, s', w)
    BY <1>20, <1>26, <1>28, TicketWireOn
  <1>30. ServerBuf(s')
    BY <1>20, <1>27, <1>28, RecsShort DEF ServerBuf
  <1>31. Joined(c, s', w)
    BY <1>a DEF TicketInv, Joined
  <1> QED
    BY <1>1, <1>18, <1>25, <1>27, <1>29, <1>30, <1>31, ServerConcludes

-----------------------------------------------------------------------------
(* The server's steps after its Finished.                                  *)

\* What the server may still write, as long as its keys stand.
Trailing(r) ==
    ~InFlight(r) /\ (IsTicket(r) => TicketOK(conf, c.session, s, r))

\* q has the keys of s, and nothing to write but noise and tickets.
Later(q) ==
    /\ DOMAIN q = ConnFields /\ IsSeq(q.sendBuf)
    /\ \A r \in Recs(q.sendBuf) : Trailing(r)
    /\ q.hello = s.hello /\ q.secret = s.secret /\ q.usingPSK = s.usingPSK
    /\ q.app = s.app /\ q.out = s.out

\* The server's step ends in q, after its Finished.
LaterTells(q) ==
    /\ Later(q) /\ q.pc \in After /\ (q.pc # "failed" => q.buffering = FALSE)
    /\ ServerTicket(conf, c.session, q) /\ ServerBecomes(q)

LEMMA LaterNow ==
    ASSUME AgreeInv, TicketInv, s.pc \in After \ {"failed"}
    PROVE  /\ Later(s) /\ DOMAIN s = ConnFields /\ IsSeq(s.transcript)
           /\ IsSeq(s.sendBuf) /\ s.buffering = FALSE /\ s.pc # "failed"
           /\ GoodHello(conf, c.session, s.hello)
           /\ Showed(conf, c.session, s, s.peerCerts)
  <1>1. DOMAIN s = ConnFields /\ IsSeq(s.transcript)
    BY ConnSeq DEF AgreeInv, ServerState
  <1>2. s.buffering = FALSE /\ s.sendBuf = <<>>
    BY DEF TicketInv, ServerBuf
  <1>3. IsSeq(s.sendBuf) /\ Recs(s.sendBuf) = {}
    BY <1>2, RecsShort
  <1>4. /\ GoodHello(conf, c.session, s.hello)
        /\ Showed(conf, c.session, s, s.peerCerts)
    BY DEF TicketInv, ServerTicket, After
  <1> QED
    BY <1>1, <1>2, <1>3, <1>4 DEF Later

LEMMA LaterKeeps ==
    ASSUME NEW x, NEW q, Later(x),
           Keeps(q, x, {"pc", "transcript", "in", "peerCerts", "clientFinished"})
    PROVE  Later(q) /\ q.buffering = x.buffering
  <1>1. /\ DOMAIN q = ConnFields /\ q.sendBuf = x.sendBuf
        /\ q.hello = x.hello /\ q.secret = x.secret /\ q.usingPSK = x.usingPSK
        /\ q.app = x.app /\ q.out = x.out /\ q.buffering = x.buffering
    BY DEF Keeps, ConnFields
  <1> QED
    BY <1>1 DEF Later

\* A server that fails leaves noise, at most.
LEMMA FailingLater ==
    ASSUME NEW x, NEW q, Later(x), Failing(q, x), ServerBecomes(q)
    PROVE  LaterTells(q)
  <1>1. /\ DOMAIN q = ConnFields /\ q.pc = "failed"
        /\ q.hello = x.hello /\ q.secret = x.secret /\ q.usingPSK = x.usingPSK
        /\ q.app = x.app /\ q.out = x.out
    BY DEF Failing, Keeps, ConnFields
  <1>2. \A r : Noise(r) => Trailing(r)
    BY DEF Trailing, Noise, InFlight, IsTicket
  <1>3. IsSeq(q.sendBuf) /\ \A r \in Recs(q.sendBuf) : Trailing(r)
    BY <1>2 DEF Failing, Adds, Later
  <1>4. Later(q)
    BY <1>1, <1>3 DEF Later
  <1>5. ServerTicket(conf, c.session, q)
    BY <1>1 DEF ServerTicket
  <1> QED
    BY <1>1, <1>4, <1>5 DEF LaterTells, After

LEMMA LaterFails ==
    ASSUME NEW x, Later(x), NEW a, ServerBecomes(Alert(x, a))
    PROVE  LaterTells(Alert(x, a))
  <1>1. Failing(Alert(x, a), x)
    BY FailsAlert DEF Later
  <1> QED
    BY <1>1, FailingLater

\* The server's ticket, if it has one to send, is the one the client's last
\* messages call for.
LEMMA LaterSeals ==
    ASSUME NEW x, Later(x), x.buffering = FALSE,
           GoodHello(conf, c.session, s.hello),
           Showed(conf, c.session, s, x.peerCerts),
           x.transcript = Before(conf, s.app.transcript),
           ServerBecomes([sendSessionTickets(x) EXCEPT !.pc = "readClientFinished"])
    PROVE  \E q : LaterTells(q)
  <1> DEFINE k == sendSessionTickets(x)
             q == [k EXCEPT !.pc = "readClientFinished"]
             b == x.sendBuf
  <1>0. ServerBecomes(q)
    OBVIOUS
  <1>1. /\ DOMAIN x = ConnFields /\ x.hello = s.hello /\ IsSeq(b)
        /\ x.secret = s.secret /\ x.out = s.out
        /\ \A y \in Recs(b) : Trailing(y)
    BY DEF Later
  <1>2. /\ Keeps(k, x, {"transcript", "clientFinished", "sendBuf"})
        /\ \/ k.sendBuf = b
           \/ \E r : TicketFrom(x, r) /\ k.sendBuf = Append(b, r)
    BY <1>1, TicketsSeal
  <1> HIDE DEF k, b
  <1>3. ASSUME NEW r, TicketFrom(x, r) PROVE Trailing(r)
    <2>1. Append(x.transcript, Fin) = Full(conf, s.app.transcript)
      BY DEF Full
    <2> QED
      BY <1>1, <1>3, <2>1 DEF TicketFrom, Trailing, TicketOK
  <1>4. IsSeq(k.sendBuf) /\ \A y \in Recs(k.sendBuf) : Trailing(y)
    <2>1. ASSUME NEW r, TicketFrom(x, r), k.sendBuf = Append(b, r)
          PROVE  IsSeq(k.sendBuf) /\ \A y \in Recs(k.sendBuf) : Trailing(y)
      <3> DEFINE u == Append(b, r)
      <3>1. IsSeq(u) /\ Recs(u) = Recs(b) \cup {r}
        BY <1>1, RecsAppend
      <3>2. k.sendBuf = u
        BY <2>1
      <3> HIDE DEF u
      <3> QED
        BY <1>1, <1>3, <2>1, <3>1, <3>2
    <2> QED
      BY <1>1, <1>2, <2>1
  <1>5. /\ DOMAIN k = ConnFields /\ k.hello = x.hello /\ k.secret = x.secret
        /\ k.usingPSK = x.usingPSK /\ k.app = x.app /\ k.out = x.out
        /\ k.peerCerts = x.peerCerts /\ k.buffering = x.buffering
    BY <1>2 DEF Keeps, ConnFields
  <1>6. Later(k)
    BY <1>4, <1>5 DEF Later
  <1>7. /\ Keeps(q, k, {"pc", "transcript", "in", "peerCerts", "clientFinished"})
        /\ q.pc = "readClientFinished" /\ q.peerCerts = x.peerCerts
    BY <1>5 DEF Keeps, ConnFields
  <1> HIDE DEF q
  <1>8. Later(q) /\ q.buffering = FALSE
    BY <1>5, <1>6, <1>7, LaterKeeps
  <1>9. ServerTicket(conf, c.session, q)
    BY <1>7, <1>8 DEF ServerTicket, Later, Showed
  <1>10. LaterTells(q)
    BY <1>0, <1>7, <1>8, <1>9 DEF LaterTells, After
  <1> QED
    BY <1>10

LEMMA SkipTells ==
    ASSUME AgreeInv, TicketInv, SkipClientCertificate
    PROVE  s.pc \in After \ {"failed"} /\ \E q : LaterTells(q)
  <1> DEFINE r == [s EXCEPT !.pc = "readClientFinished"]
             a == Alert(s, "bad_certificate")
  <1>1. /\ s.pc = "readClientCertificate"
        /\ ServerBecomes(a) \/ ServerBecomes(r)
    BY DEF SkipClientCertificate, ServerDoes
  <1>a. s.pc \in After \ {"failed"}
    BY <1>1 DEF After
  <1>2. /\ Later(s) /\ DOMAIN s = ConnFields /\ s.buffering = FALSE
        /\ GoodHello(conf, c.session, s.hello)
        /\ Showed(conf, c.session, s, s.peerCerts)
    BY <1>a, LaterNow
  <1>3. ServerBecomes(a) => LaterTells(a)
    BY <1>2, LaterFails
  <1> HIDE DEF a
  <1>4. /\ Keeps(r, s, {"pc", "transcript", "in", "peerCerts", "clientFinished"})
        /\ r.pc = "readClientFinished" /\ r.peerCerts = s.peerCerts
    BY <1>2 DEF Keeps, ConnFields
  <1> HIDE DEF r
  <1>5. Later(r) /\ r.buffering = FALSE
    BY <1>2, <1>4, LaterKeeps
  <1>6. ServerTicket(conf, c.session, r)
    BY <1>2, <1>4, <1>5 DEF ServerTicket, Later, Showed
  <1>7. ServerBecomes(r) => LaterTells(r)
    BY <1>4, <1>5, <1>6 DEF LaterTells, After
  <1> QED
    BY <1>1, <1>a, <1>3, <1>7

LEMMA ReadClientCertificateTells ==
    ASSUME AgreeInv, TicketInv, readClientCertificate
    PROVE  s.pc \in After \ {"failed"} /\ \E q : LaterTells(q)
  <1> DEFINE rec == Head(toServer)
             m == rec.msg
             g == Receive(s, rec, {"certificate"})
             E(x) == [x EXCEPT !.pc = "readClientCertificateVerify"]
             K(x) == [sendSessionTickets(x) EXCEPT !.pc = "readClientFinished"]
             A(x) == Alert(x, "bad_certificate")
             G(x) == CASE conf.serverVetoes -> A(x)
                       [] ~conf.serverVetoes /\ m.cert # "none" -> E(x)
                       [] ~conf.serverVetoes /\ m.cert = "none" -> K(x)
             P(x) == processCertsFromClient(Hashed(x, m), m.cert)
             h == Hashed(s, m)
             q == processCertsFromClient(h, m.cert)
             b == Alert(h, "bad_certificate")
             o == [h EXCEPT !.peerCerts = m.cert]
  <1>1. /\ s.pc = "readClientCertificate" /\ requestClientCert(s)
        /\ toServer # <<>> /\ rec.typ # "ccs"
        /\ \/ g.pc = "failed" /\ ServerBecomes(g)
           \/ g.pc # "failed" /\
                ServerBecomes(IF P(g).pc = "failed" THEN P(g) ELSE G(P(g)))
    BY DEF readClientCertificate, ServerReads, Then
  <1>a. s.pc \in After \ {"failed"}
    BY <1>1 DEF After
  <1>2. /\ Later(s) /\ DOMAIN s = ConnFields /\ s.buffering = FALSE
        /\ IsSeq(s.sendBuf) /\ s.pc # "failed"
        /\ GoodHello(conf, c.session, s.hello)
        /\ Showed(conf, c.session, s, s.peerCerts)
    BY <1>a, LaterNow
  <1>3. \/ g = s /\ rec.typ # "alert" /\ rec.msg.type \in {"certificate"}
        \/ Failing(g, s)
    BY <1>2, FailsReceive
  <1>4. CASE Failing(g, s)
    BY <1>1, <1>a, <1>2, <1>4, FailingLater DEF Failing
  <1>5. CASE g = s /\ rec.typ # "alert" /\ rec.msg.type \in {"certificate"}
    <2>1. ServerBecomes(IF q.pc = "failed" THEN q ELSE G(q))
      BY <1>1, <1>5
    <2>2. m = certMsg(conf)
      BY <1>1, <1>5, Heard
    <2>3. m.cert = conf.clientCert /\ m.type = "certificate"
      BY <2>2 DEF certMsg
    <2>4. s.transcript = s.app.transcript /\ Requests(s.app.transcript)
      BY <1>1 DEF TicketInv, ServerTicket, Asks, requestClientCert
    <2>5. q = b \/ q = o
      BY DEF processCertsFromClient
    <2> HIDE DEF q, m
    <2>6. Digest(m) = certMsg(conf)
      BY <2>2, <2>3, DigestSelf
    <2>7. /\ Keeps(h, s, {"transcript"})
          /\ h.transcript = Shown(conf, s.app.transcript)
      BY <1>2, <2>4, <2>6, HashedKeeps DEF Shown
    <2> HIDE DEF h
    <2>8. DOMAIN h = ConnFields /\ h.pc = s.pc
      BY <2>7 DEF Keeps, ConnFields
    <2>9. Later(h) /\ h.buffering = FALSE
      <3>1. Keeps(h, s, {"pc", "transcript", "in", "peerCerts", "clientFinished"})
        BY <2>7 DEF Keeps
      <3> QED
        BY <1>2, <3>1, LaterKeeps
    <2>10. Failing(b, h)
      BY <2>9, FailsAlert DEF Later
    <2>11. ServerBecomes(b) => LaterTells(b)
      BY <2>9, LaterFails
    <2> HIDE DEF b
    <2>12. /\ Keeps(o, h, {"pc", "transcript", "in", "peerCerts", "clientFinished"})
           /\ o.peerCerts = conf.clientCert /\ o.pc = s.pc
           /\ o.transcript = h.transcript
      BY <2>3, <2>8 DEF Keeps, ConnFields
    <2> HIDE DEF o
    <2>13. Later(o) /\ o.buffering = FALSE
      BY <2>9, <2>12, LaterKeeps
    <2>14. CASE q = b
      BY <1>a, <2>1, <2>10, <2>11, <2>14 DEF Failing
    <2>15. CASE q = o
      <3>1. ServerBecomes(G(o))
        BY <1>1, <2>1, <2>12, <2>15
      <3>2. \/ ServerBecomes(A(o))
            \/ ServerBecomes(E(o)) /\ conf.clientCert # "none"
            \/ ServerBecomes(K(o)) /\ conf.clientCert = "none"
        <4> HIDE DEF A, E, K
        <4>1. CASE conf.serverVetoes
          BY <3>1, <4>1
        <4>2. CASE ~conf.serverVetoes /\ m.cert # "none"
          BY <2>3, <3>1, <4>2
        <4>3. CASE ~conf.serverVetoes /\ m.cert = "none"
          BY <2>3, <3>1, <4>3
        <4> QED
          BY <4>1, <4>2, <4>3
      <3>3. CASE ServerBecomes(A(o))
        BY <1>a, <2>13, <3>3, LaterFails
      <3>4. CASE ServerBecomes(E(o)) /\ conf.clientCert # "none"
        <4> DEFINE e == E(o)
        <4>1. /\ Keeps(e, o, {"pc", "transcript", "in", "peerCerts",
                              "clientFinished"})
              /\ e.pc = "readClientCertificateVerify"
              /\ e.transcript = o.transcript /\ e.peerCerts = o.peerCerts
          <5>1. DOMAIN o = ConnFields
            BY <2>13 DEF Later
          <5> QED
            BY <5>1 DEF Keeps, ConnFields
        <4>0. ServerBecomes(e)
          BY <3>4
        <4> HIDE DEF e
        <4>2. Later(e) /\ e.buffering = FALSE
          BY <2>13, <4>1, LaterKeeps
        <4>3. ServerTicket(conf, c.session, e)
          BY <1>2, <2>4, <2>7, <2>12, <3>4, <4>1, <4>2
             DEF ServerTicket, Later, Showed
        <4>4. LaterTells(e)
          BY <4>0, <4>1, <4>2, <4>3 DEF LaterTells, After
        <4> QED
          BY <1>a, <4>4
      <3>5. CASE ServerBecomes(K(o)) /\ conf.clientCert = "none"
        <4>1. o.transcript = Before(conf, s.app.transcript)
          BY <2>4, <2>7, <2>12, <3>5 DEF Before
        <4>2. Showed(conf, c.session, s, o.peerCerts)
          BY <2>12 DEF Showed
        <4> QED
          BY <1>a, <1>2, <2>13, <3>5, <4>1, <4>2, LaterSeals
      <3> QED
        BY <3>2, <3>3, <3>4, <3>5
    <2> QED
      BY <2>5, <2>14, <2>15
  <1> QED
    BY <1>3, <1>4, <1>5

LEMMA ReadClientVerifyTells ==
    ASSUME AgreeInv, TicketInv, ReadClientCertificateVerify
    PROVE  s.pc \in After \ {"failed"} /\ \E q : LaterTells(q)
  <1> DEFINE rec == Head(toServer)
             m == rec.msg
             g == Receive(s, rec, {"certificateVerify"})
             K(x) == [sendSessionTickets(x) EXCEPT !.pc = "readClientFinished"]
             h == Hashed(s, m)
             a == Alert(s, "decrypt_error")
             proof == [type |-> "certificateVerify", by |-> conf.clientCert]
             t == Shown(conf, s.app.transcript)
  <1>1. /\ s.pc = "readClientCertificateVerify"
        /\ \/ g.pc = "failed" /\ ServerBecomes(g)
           \/ g.pc # "failed" /\ ServerBecomes(Alert(g, "decrypt_error"))
           \/ /\ g.pc # "failed" /\ ServerBecomes(K(Hashed(g, m)))
              /\ m = certificateVerify(g, "client", g.peerCerts)
    BY DEF ReadClientCertificateVerify, ServerReads, Then
  <1>a. s.pc \in After \ {"failed"}
    BY <1>1 DEF After
  <1>2. /\ Later(s) /\ DOMAIN s = ConnFields /\ s.buffering = FALSE
        /\ IsSeq(s.sendBuf) /\ s.pc # "failed"
        /\ GoodHello(conf, c.session, s.hello)
        /\ Showed(conf, c.session, s, s.peerCerts)
    BY <1>a, LaterNow
  <1>3. \/ g = s /\ rec.typ # "alert" /\ rec.msg.type \in {"certificateVerify"}
        \/ Failing(g, s)
    BY <1>2, FailsReceive
  <1>4. CASE Failing(g, s)
    BY <1>1, <1>a, <1>2, <1>4, FailingLater DEF Failing
  <1>5. CASE g = s
    <2>1. \/ ServerBecomes(a)
          \/ /\ ServerBecomes(K(h))
             /\ m = certificateVerify(s, "client", s.peerCerts)
      BY <1>1, <1>5
    <2>2. CASE ServerBecomes(a)
      BY <1>a, <1>2, <2>2, LaterFails
    <2>3. CASE /\ ServerBecomes(K(h))
               /\ m = certificateVerify(s, "client", s.peerCerts)
      <3>1. /\ conf.clientCert # "none" /\ s.peerCerts = conf.clientCert
            /\ s.transcript = t /\ Requests(s.app.transcript)
        BY <1>1 DEF TicketInv, ServerTicket
      <3>2. Digest(m) = proof
        <4>1. m.type = "certificateVerify" /\ m.by = conf.clientCert
          BY <2>3, <3>1 DEF certificateVerify
        <4> HIDE DEF m
        <4> QED
          BY <4>1 DEF Digest
      <3> HIDE DEF m
      <3>3. /\ Keeps(h, s, {"transcript"})
            /\ h.transcript = Append(s.transcript, proof)
        BY <1>2, <3>2, HashedKeeps
      <3> HIDE DEF h
      <3>4. h.transcript = Before(conf, s.app.transcript)
        BY <3>1, <3>3 DEF Before
      <3>5. /\ Keeps(h, s, {"pc", "transcript", "in", "peerCerts",
                            "clientFinished"})
            /\ h.peerCerts = s.peerCerts
        BY <3>3 DEF Keeps, ConnFields
      <3>6. Later(h) /\ h.buffering = FALSE
        BY <1>2, <3>5, LaterKeeps
      <3>7. Showed(conf, c.session, s, h.peerCerts)
        BY <1>2, <3>5
      <3> QED
        BY <1>a, <1>2, <2>3, <3>4, <3>6, <3>7, LaterSeals
    <2> QED
      BY <2>1, <2>2, <2>3
  <1> QED
    BY <1>3, <1>4, <1>5

LEMMA ReadClientFinishedTells ==
    ASSUME AgreeInv, TicketInv, readClientFinished
    PROVE  s.pc \in After \ {"failed"} /\ \E q : LaterTells(q)
  <1> DEFINE rec == Head(toServer)
             m == rec.msg
             g == Receive(s, rec, {"finished"})
             R(x) == [x EXCEPT !.in = x.app, !.pc = "done"]
             r == R(s)
             a == Alert(s, "decrypt_error")
  <1>1. /\ s.pc = "readClientFinished"
        /\ \/ g.pc = "failed" /\ ServerBecomes(g)
           \/ g.pc # "failed" /\ ServerBecomes(Alert(g, "decrypt_error"))
           \/ g.pc # "failed" /\ ServerBecomes(R(g))
    BY DEF readClientFinished, ServerReads, Then
  <1>a. s.pc \in After \ {"failed"}
    BY <1>1 DEF After
  <1>2. /\ Later(s) /\ DOMAIN s = ConnFields /\ s.buffering = FALSE
        /\ IsSeq(s.sendBuf) /\ s.pc # "failed"
        /\ GoodHello(conf, c.session, s.hello)
        /\ Showed(conf, c.session, s, s.peerCerts)
    BY <1>a, LaterNow
  <1>3. \/ g = s /\ rec.typ # "alert" /\ rec.msg.type \in {"finished"}
        \/ Failing(g, s)
    BY <1>2, FailsReceive
  <1>4. CASE Failing(g, s)
    BY <1>1, <1>a, <1>2, <1>4, FailingLater DEF Failing
  <1>5. CASE g = s
    <2>1. ServerBecomes(a) \/ ServerBecomes(r)
      BY <1>1, <1>5
    <2>2. ServerBecomes(a) => LaterTells(a)
      BY <1>2, LaterFails
    <2> HIDE DEF a
    <2>3. /\ Keeps(r, s, {"pc", "transcript", "in", "peerCerts",
                          "clientFinished"})
          /\ r.pc = "done" /\ r.peerCerts = s.peerCerts
      BY <1>2 DEF Keeps, ConnFields
    <2> HIDE DEF r
    <2>4. Later(r) /\ r.buffering = FALSE
      BY <1>2, <2>3, LaterKeeps
    <2>5. ServerTicket(conf, c.session, r)
      BY <1>2, <2>3, <2>4 DEF ServerTicket, Later, Showed
    <2>6. ServerBecomes(r) => LaterTells(r)
      BY <2>3, <2>4, <2>5 DEF LaterTells, After
    <2> QED
      BY <1>a, <2>1, <2>2, <2>6
  <1> QED
    BY <1>3, <1>4, <1>5

LEMMA LaterTold ==
    ASSUME TicketInv, ServerNext, s.pc \in After \ {"failed"},
           \E q : LaterTells(q)
    PROVE  TicketInv'
  <1>1. PICK q : LaterTells(q)
    OBVIOUS
  <1>2. /\ DOMAIN q = ConnFields /\ IsSeq(q.sendBuf)
        /\ \A r \in Recs(q.sendBuf) : Trailing(r)
        /\ q.secret = s.secret /\ q.usingPSK = s.usingPSK
        /\ q.app = s.app /\ q.out = s.out
        /\ q.pc \in After /\ (q.pc # "failed" => q.buffering = FALSE)
        /\ ServerTicket(conf, c.session, q) /\ ServerBecomes(q)
    BY <1>1 DEF LaterTells, Later
  <1>3. /\ Keeps(s', q, {"sendBuf"}) /\ s'.sendBuf = Kept(q)
        /\ toClient' = toClient \o Passed(q)
    BY <1>2 DEF ServerBecomes, Keeps, ConnFields
  <1>4. /\ s'.pc = q.pc /\ s'.secret = s.secret /\ s'.usingPSK = s.usingPSK
        /\ s'.app = s.app /\ s'.out = s.out /\ s'.buffering = q.buffering
    BY <1>2, <1>3 DEF Keeps, ConnFields
  <1>5. ServerBuf(s')
    BY <1>2, <1>3, <1>4, RecsShort DEF ServerBuf, Kept
  <1> DEFINE u == Passed(q)
             w == toClient \o u
  <1>6. IsSeq(u) /\ \A r \in Recs(u) : Trailing(r)
    BY <1>2, RecsShort DEF Passed
  <1>7. toClient' = w
    BY <1>3
  <1> HIDE DEF u
  <1>8. TicketWire(conf, c.session, s, u)
    <2>1. \A r : Trailing(r) => ~IsFinished(r)
      BY DEF Trailing, IsFinished, InFlight, Noise
    <2>2. \A r : Trailing(r) /\ IsTicket(r) => TicketOK(conf, c.session, s, r)
      BY DEF Trailing
    <2>3. Ordered(u)
      BY <1>6, <2>1 DEF Ordered, Recs
    <2> QED
      BY <1>6, <2>1, <2>2, <2>3 DEF TicketWire
  <1>9. \A r \in Recs(u) : ~InFlight(r)
    BY <1>6 DEF Trailing
  <1>10. TicketWire(conf, c.session, s, toClient) /\ IsSeq(toClient)
    BY DEF TicketInv, TicketWire
  <1>11. TicketWire(conf, c.session, s, w)
    BY <1>8, <1>9, <1>10, TicketWireConcat
  <1>12. Recs(w) \subseteq Recs(toClient) \cup Recs(u)
    BY <1>6, <1>10, RecsConcat
  <1> HIDE DEF w
  <1>13. TicketWire(conf, c.session, s', w)
    BY <1>2, <1>4, <1>11, TicketWireOn
  <1>14. Joined(c, s', w)
    BY <1>2, <1>4, <1>9, <1>12 DEF TicketInv, Joined
  <1> QED
    BY <1>2, <1>5, <1>7, <1>13, <1>14, ServerConcludes

LEMMA DropTickets ==
    ASSUME TicketInv, ServerNext, ServerDropsCCS PROVE TicketInv'
  <1>1. conf' = conf /\ c' = c /\ s' = s /\ toClient' = toClient
    BY DEF ServerDropsCCS
  <1>2. SaidOn(conf, c.session, toServer') /\ c.pc # "clientHandshake"
    BY ServerLeaves
  <1> DEFINE tv == toServer'
  <1>3. Fresh(c, s, tv)
    BY <1>2 DEF Fresh
  <1>4. /\ ClientTicket(conf, c) /\ ServerTicket(conf, c.session, s)
        /\ ServerBuf(s) /\ SaidOn(conf, c.session, c.sendBuf)
        /\ SaidOn(conf, c.session, tv) /\ TicketWire(conf, c.session, s, toClient)
        /\ Joined(c, s, toClient) /\ Fresh(c, s, tv)
    BY <1>2, <1>3 DEF TicketInv
  <1> QED
    BY <1>1, <1>4 DEF TicketInv

LEMMA ServerStepTickets ==
    ASSUME AgreeInv, TicketInv, ServerNext PROVE TicketInv'
  <1>1. CASE s.pc \notin After /\ \E q : ServerTells(q)
    BY <1>1, ServerTold
  <1>2. CASE s.pc \in After \ {"failed"} /\ \E q : LaterTells(q)
    BY <1>2, LaterTold
  <1>3. CASE sendServerFinished
    BY <1>3, FinishedTickets
  <1>4. CASE ServerDropsCCS
    BY <1>4, DropTickets
  <1> QED
    BY <1>1, <1>2, <1>3, <1>4, ReadClientHelloTells, ReadSecondClientHelloTells,
       ResumptionTells, PickTells, ParametersTells, CertificateTells, SkipTells,
       ReadClientCertificateTells, ReadClientVerifyTells,
       ReadClientFinishedTells DEF ServerNext

LEMMA TicketInit == ASSUME Init PROVE TicketInv
  <1>1. /\ c.pc = "clientHandshake" /\ c.transcript = <<>> /\ c.sendBuf = <<>>
        /\ c.certReq = FALSE
        /\ s.pc = "clientHello" /\ s.transcript = <<>> /\ s.sendBuf = <<>>
        /\ s.peerCerts = "none" /\ toServer = <<>> /\ toClient = <<>>
    BY DEF Init, NewConn
  <1>2. IsSeq(<<>>) /\ DOMAIN <<>> = {} /\ Recs(<<>>) = {}
    BY ShortSeq, RecsShort
  <1>3. ~Requests(<<>>)
    BY <1>2 DEF Requests
  <1>4. ClientTicket(conf, c)
    BY <1>1, <1>3 DEF ClientTicket
  <1>5. ServerTicket(conf, c.session, s)
    BY <1>1, <1>3 DEF ServerTicket, Showed
  <1>6. ServerBuf(s)
    BY <1>1, <1>2 DEF ServerBuf, After
  <1>7. /\ SaidOn(conf, c.session, c.sendBuf) /\ SaidOn(conf, c.session, toServer)
        /\ TicketWire(conf, c.session, s, toClient)
    BY <1>1, <1>2 DEF SaidOn, TicketWire, Ordered
  <1>8. Joined(c, s, toClient) /\ Fresh(c, s, toServer)
    BY <1>1 DEF Joined, Fresh, Accepted
  <1> QED
    BY <1>4, <1>5, <1>6, <1>7, <1>8 DEF TicketInv

LEMMA TicketsSame ==
    ASSUME TicketInv, UNCHANGED vars PROVE TicketInv'
  BY DEF TicketInv, vars

\* What a done client finds on the wire is what it settled.
LEMMA TicketsAgree == ASSUME TicketInv PROVE TicketSecretsAgree
  <1> SUFFICES ASSUME c.pc = "done", NEW i \in DOMAIN toClient,
                      toClient[i].typ = "handshake"
               PROVE  /\ toClient[i].msg.type = "newSessionTicket"
                      /\ toClient[i].msg.secret = c.resumption
                      /\ toClient[i].msg.certs \in {"none", conf.clientCert} \cup
                            IF c.usingPSK THEN {c.session.ticket.certs} ELSE {}
                      /\ toClient[i].key = c.in
    BY DEF TicketSecretsAgree
  <1> DEFINE r == toClient[i]
  <1>1. r \in Recs(toClient) /\ ~Noise(r)
    BY DEF Recs, Noise
  <1> HIDE DEF r
  <1>2. /\ c.app = s.app /\ c.in = s.out /\ c.secret = s.secret
        /\ c.usingPSK = s.usingPSK /\ ~InFlight(r)
    BY <1>1 DEF TicketInv, Joined, Accepted
  <1>3. IsTicket(r) /\ r.msg.type = "newSessionTicket"
    BY <1>1, <1>2 DEF InFlight, IsTicket
  <1>4. TicketOK(conf, c.session, s, r)
    BY <1>1, <1>3 DEF TicketInv, TicketWire
  <1>5. /\ c.transcript = Full(conf, c.app.transcript)
        /\ conf.caching => c.resumption = resumptionSecret(c.secret, c.transcript)
    BY DEF TicketInv, ClientTicket
  <1>6. r.msg.secret = c.resumption /\ r.key = c.in
    BY <1>2, <1>4, <1>5 DEF TicketOK
  <1>7. r.msg.certs \in {"none", conf.clientCert} \cup
           IF c.usingPSK THEN {c.session.ticket.certs} ELSE {}
    BY <1>2, <1>4 DEF TicketOK, Showed
  <1> QED
    BY <1>3, <1>6, <1>7 DEF r

\* Whatever the configurations and the interleaving: a ticket that reaches a
\* client whose handshake is done holds the resumption secret the client
\* derived, though the server derived it before the client's Finished came;
\* its certificate is one the client showed, and it opens under the client's
\* key.
THEOREM TicketSafety == Spec => []TicketSecretsAgree
  <1> DEFINE Inv == AgreeInv /\ AuthInv /\ TicketInv
  <1>1. Init => Inv
    BY AgreeInit, AuthInit, TicketInit
  <1>2. Inv /\ [Next]_vars => Inv'
    <2> SUFFICES ASSUME Inv, [Next]_vars PROVE Inv'
      OBVIOUS
    <2>1. AgreeInv'
      BY AgreeStep
    <2>2. AuthInv'
      BY AuthStep
    <2>3. TicketInv'
      BY ClientStepTickets, ServerStepTickets, TicketsSame DEF Next
    <2> QED
      BY <2>1, <2>2, <2>3
  <1>3. Inv => TicketSecretsAgree
    BY TicketsAgree
  <1> QED
    BY <1>1, <1>2, <1>3, PTL DEF Spec

=============================================================================
