---------------------------- MODULE MCHandshake13 ----------------------------
(***************************************************************************)
(* The configurations of Handshake13 that TLC explores.                    *)
(***************************************************************************)
EXTENDS Handshake13

Ticket(suite, opens, certs) ==
    [opens |-> opens, suite |-> suite, secret |-> "psk", certs |-> certs]

Session(vers, ticket, expired, secret) ==
    [vers |-> vers, suite |-> ticket.suite, secret |-> secret,
     expired |-> expired, ticket |-> ticket]

\* A session of this server's, with each kind of client certificate.
Resumable(certs) == Session(13, Ticket("aes128", TRUE, certs), FALSE, "psk")

\* Sessions the server or the client will not use, and a corrupted one.
OtherSessions ==
    { Session(13, Ticket("chacha", FALSE, "none"), FALSE, "psk"),
      Session(13, Ticket("aes256", TRUE, "none"), FALSE, "psk"),
      Session(13, Ticket("aes128", TRUE, "none"), TRUE, "psk"),
      Session(12, Ticket("aes128", FALSE, "none"), FALSE, "psk"),
      Session(13, Ticket("aes128", TRUE, "none"), FALSE, "corrupt") }

Plain ==
    [clientGroups |-> <<"x25519", "p256">>, serverGroups |-> <<"x25519">>,
     clientProtos |-> <<"h2", "http/1.1">>, serverProtos |-> <<"h2">>,
     clientAES |-> TRUE, serverAES |-> TRUE, caching |-> TRUE,
     session |-> None, clientCert |-> "none", getCertFails |-> FALSE,
     trusts |-> TRUE, clientVetoes |-> FALSE, tickets |-> TRUE, auth |-> 0,
     hasCert |-> TRUE, serverVetoes |-> FALSE]

\* Server groups: the share fits; it fits, though another is preferred; a
\* retry for the second choice; no group in common.
ServerGroups == {<<"x25519">>, <<"p256", "x25519">>, <<"p384", "p256">>,
                 <<"p384">>}

\* Groups, sessions, tickets, client authentication.
Policies ==
    { [Plain EXCEPT !.serverGroups = g, !.session = i, !.tickets = t,
                    !.auth = a, !.clientCert = k] :
        g \in ServerGroups, t \in BOOLEAN, a \in 0 .. 4, k \in Certs,
        i \in {None} \cup {Resumable(k) : k \in Certs} \cup OtherSessions }

\* What either end may refuse, on the way through a full, a retried and a
\* resumed handshake.
Refusals ==
    { [Plain EXCEPT !.serverGroups = g, !.session = i, !.auth = a,
                    !.clientCert = "good", !.hasCert = h, !.trusts = t,
                    !.getCertFails = e, !.clientVetoes = v,
                    !.serverVetoes = w] :
        g \in {<<"x25519">>, <<"p256">>}, i \in {None, Resumable("good")},
        a \in {0, 1, 4}, h \in BOOLEAN, t \in BOOLEAN, e \in BOOLEAN,
        v \in BOOLEAN, w \in BOOLEAN }

\* Suites, protocols, and a client without a session cache.
Preferences ==
    { [Plain EXCEPT !.clientAES = x, !.serverAES = y, !.caching = m,
                    !.clientProtos = p, !.serverProtos = q,
                    !.serverGroups = g] :
        x \in BOOLEAN, y \in BOOLEAN, m \in BOOLEAN,
        p \in {<<>>, <<"http/1.1">>, <<"h2", "http/1.1">>},
        q \in {<<>>, <<"h2">>, <<"other", "http/1.1", "h2">>, <<"other">>},
        g \in {<<"x25519">>, <<"p256">>} }

MCConfigs == Policies \cup Refusals \cup Preferences

=============================================================================
