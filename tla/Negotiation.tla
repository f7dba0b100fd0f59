----------------------------- MODULE Negotiation -----------------------------
(***************************************************************************)
(* What the two ends of a handshake settle by comparing preferences:       *)
(* version, cipher suite and curve before TLS 1.3, and the application     *)
(* protocol in every version.                                              *)
(***************************************************************************)
EXTENDS Integers, Sequences, Functions

CONSTANT None   \* no value

\* The first element of seq in S, or None.
FirstIn(seq, S) ==
    LET hits == {i \in DOMAIN seq : seq[i] \in S}
    IN IF hits = {} THEN None
       ELSE seq[CHOOSE i \in hits : \A j \in hits : i <= j]

\* The elements of seq in S, in their order.
Filter(seq, S) ==
    LET F[i \in 0 .. Len(seq)] ==
            IF i = 0 THEN <<>>
            ELSE IF seq[i] \in S THEN Append(F[i - 1], seq[i]) ELSE F[i - 1]
    IN F[Len(seq)]

-----------------------------------------------------------------------------
(* Versions: 10 for TLS 1.0 to 13 for TLS 1.3, 0 for a limit not set.      *)

\* A client offers nothing before TLS 1.2 unless it is told to.
supportedVersions(min, max, isClient) ==
    Filter(<<13, 12, 11, 10>>,
           {v \in 10 .. 13 : /\ (min = 0 /\ isClient) => v >= 12
                             /\ v >= min
                             /\ max # 0 => v <= max})

\* The peer's preference decides.
mutualVersion(supported, peerVersions) ==
    FirstIn(peerVersions, Range(supported))

\* Mutant of Canary: a server that got its best version warns as well.
CanaryAlways(vers, maxVers) ==
    IF maxVers >= 12 /\ vers <= maxVers
    THEN IF vers = 12 THEN "tls12" ELSE "tls11" ELSE None

\* The canary a server puts into its random when it could do better.
Canary(vers, maxVers) ==
    IF maxVers >= 12 /\ vers < maxVers
    THEN IF vers = 12 THEN "tls12" ELSE "tls11" ELSE None

\* The client takes the canary for a downgrade.
DowngradeDetected(vers, maxVers, canary) ==
    \/ maxVers = 13 /\ vers <= 12 /\ canary # None
    \/ maxVers = 12 /\ vers <= 11 /\ canary = "tls11"

-----------------------------------------------------------------------------
(* Suites: one of each kind the flags of cipherSuites tell apart.          *)

Suites == {"ECDHE_ECDSA_GCM", "ECDHE_RSA_GCM", "ECDHE_RSA_CHACHA",
           "ECDHE_RSA_CBC", "RSA_CBC"}

ECDHE(suite) == suite # "RSA_CBC"
ECSign(suite) == suite = "ECDHE_ECDSA_GCM"
TLS12Only(suite) == suite \notin {"ECDHE_RSA_CBC", "RSA_CBC"}

cipherSuitesPreferenceOrder(aes) ==
    IF aes
    THEN <<"ECDHE_ECDSA_GCM", "ECDHE_RSA_GCM", "ECDHE_RSA_CHACHA",
           "ECDHE_RSA_CBC", "RSA_CBC">>
    ELSE <<"ECDHE_RSA_CHACHA", "ECDHE_ECDSA_GCM", "ECDHE_RSA_GCM",
           "ECDHE_RSA_CBC", "RSA_CBC">>

\* The suites a client offers: the configured ones in order of preference.
OfferedSuites(configured, aes, maxVers) ==
    Filter(cipherSuitesPreferenceOrder(aes),
           {x \in configured : maxVers < 12 => ~TLS12Only(x)})

\* The client's first suite says whether it prefers AES-GCM.
aesgcmPreferred(offered) ==
    /\ offered # <<>>
    /\ Head(offered) \in {"ECDHE_ECDSA_GCM", "ECDHE_RSA_GCM"}

\* A suite fits the server's key ("rsa" or "ecdsa"), the curves and the
\* version.
cipherSuiteOk(suite, key, ecdheOk, vers) ==
    /\ IF ECDHE(suite)
       THEN ecdheOk /\ key = (IF ECSign(suite) THEN "ecdsa" ELSE "rsa")
       ELSE key = "rsa"
    /\ vers < 12 => ~TLS12Only(suite)

\* The server's choice: its preference among the suites offered that it may
\* use, or None.
selectCipherSuite(configured, aes, offered, key, ecdheOk, vers) ==
    FirstIn(cipherSuitesPreferenceOrder(aes /\ aesgcmPreferred(offered)),
            {x \in configured \cap Range(offered) :
                cipherSuiteOk(x, key, ecdheOk, vers)})

\* The first of the client's curves the server supports, or None.
MutualCurve(clientCurves, serverCurves) ==
    FirstIn(clientCurves, Range(serverCurves))

supportsECDHE(clientCurves, serverCurves) ==
    MutualCurve(clientCurves, serverCurves) # None

-----------------------------------------------------------------------------
(* Application protocols.                                                  *)

\* The server's choice, or None.
negotiateALPN(serverProtos, clientProtos) ==
    FirstIn(serverProtos, Range(clientProtos))

\* It is an error to have none in common, unless one end has none at all or
\* HTTP/1.1 will do without being named.
refusesALPN(serverProtos, clientProtos) ==
    /\ serverProtos # <<>> /\ clientProtos # <<>>
    /\ negotiateALPN(serverProtos, clientProtos) = None
    /\ ~("h2" \in Range(serverProtos) /\ "http/1.1" \in Range(clientProtos))

\* The client's check of it.
checkALPN(clientProtos, proto) == proto = None \/ proto \in Range(clientProtos)

\* ClientAuth: RequireAnyClientCert and RequireAndVerifyClientCert.
requiresClientCert(auth) == auth \in {2, 4}

=============================================================================
