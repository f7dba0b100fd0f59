---------------------------- MODULE MCHandshake12 ----------------------------
(***************************************************************************)
(* The configurations of Handshake12 that TLC explores: the first of three *)
(* connections tries what can be negotiated and refused, the second and    *)
(* third what a session can meet that was made before.                     *)
(***************************************************************************)
EXTENDS Handshake12

Plain ==
    [name |-> "a", clientMin |-> 0, clientMax |-> 0, serverMin |-> 10,
     serverMax |-> 12, clientSuites |-> {"ECDHE_RSA_GCM", "RSA_CBC"},
     serverSuites |-> {"ECDHE_RSA_GCM", "RSA_CBC"}, clientAES |-> TRUE,
     serverAES |-> TRUE, clientCurves |-> <<"x25519", "p256">>,
     serverCurves |-> <<"p256">>, clientProtos |-> <<"h2", "http/1.1">>,
     serverProtos |-> <<"http/1.1">>, caching |-> TRUE, insecure |-> FALSE,
     trusts |-> TRUE, certExpired |-> FALSE, clientVetoes |-> FALSE,
     clientCert |-> "none", getCertFails |-> FALSE, key |-> "rsa",
     staple |-> FALSE, tickets |-> TRUE, auth |-> 0, serverVetoes |-> FALSE]

\* Versions from the default and the explicit limits of either end.
Versions ==
    { k \in { [Plain EXCEPT !.clientMin = i, !.clientMax = j,
                            !.serverMin = x, !.serverMax = y] :
                i \in {0, 10}, j \in {0, 11, 12},
                x \in {10, 12}, y \in {0, 11, 12} } :
        /\ k.clientMax # 0 \/ k.serverMax # 0
        /\ k.clientMax = 11 => k.clientMin = 10
        /\ k.serverMax = 11 => k.serverMin = 10 }

\* Suites, keys, curves, hardware.
SuiteChoices ==
    { [Plain EXCEPT !.clientSuites = i, !.serverSuites = Suites, !.key = k,
                    !.clientCurves = u, !.serverAES = e, !.clientMax = v,
                    !.clientMin = 10, !.staple = e] :
        i \in {Suites, {"ECDHE_RSA_GCM", "RSA_CBC"}, {"ECDHE_ECDSA_GCM"}},
        k \in {"rsa", "ecdsa"}, u \in {<<"x25519", "p256">>, <<"x25519">>},
        e \in BOOLEAN, v \in {11, 12} }

Protocols ==
    { [Plain EXCEPT !.clientProtos = p, !.serverProtos = q] :
        p \in {<<>>, <<"http/1.1">>, <<"other">>}, q \in {<<>>, <<"h2">>} }

\* Client authentication, on the way through each kind of handshake.
Authentication ==
    { [Plain EXCEPT !.auth = a, !.clientCert = k, !.clientMin = 10,
                    !.clientMax = v] :
        a \in 0 .. 4, k \in Certs, v \in {11, 12} }

Refusals ==
    { [Plain EXCEPT !.insecure = i, !.trusts = t, !.clientVetoes = v,
                    !.serverVetoes = w, !.auth = 1, !.getCertFails = g] :
        i \in BOOLEAN, t \in BOOLEAN, v \in BOOLEAN, w \in BOOLEAN,
        g \in BOOLEAN }
    \cup { [Plain EXCEPT !.key = "none"], [Plain EXCEPT !.caching = FALSE],
           [Plain EXCEPT !.tickets = FALSE] }

\* Sessions to come back with: verified or not, with either version and
\* suite, and each kind of client certificate.
Makers ==
    { Plain, [Plain EXCEPT !.insecure = TRUE],
      [Plain EXCEPT !.serverMax = 11, !.clientMin = 10],
      [Plain EXCEPT !.clientSuites = {"RSA_CBC"}] }
    \cup { [Plain EXCEPT !.auth = 1, !.clientCert = k] : k \in Certs }

\* What such a session meets later.
Laters ==
    { Plain, [Plain EXCEPT !.name = "b"], [Plain EXCEPT !.insecure = TRUE],
      [Plain EXCEPT !.certExpired = TRUE], [Plain EXCEPT !.tickets = FALSE],
      [Plain EXCEPT !.clientVetoes = TRUE],
      [Plain EXCEPT !.serverVetoes = TRUE],
      [Plain EXCEPT !.clientMin = 10, !.serverMax = 11],
      [Plain EXCEPT !.serverSuites = {"RSA_CBC"}],
      [Plain EXCEPT !.clientSuites = {"RSA_CBC"}],
      [Plain EXCEPT !.auth = 2, !.clientCert = "good"],
      [Plain EXCEPT !.auth = 3, !.clientCert = "good"] }

MCConfigs ==
    <<Versions \cup SuiteChoices \cup Protocols \cup Authentication
        \cup Refusals \cup Makers,
      Laters,
      Laters>>

=============================================================================
