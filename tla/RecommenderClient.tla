--------------------------- MODULE RecommenderClient ---------------------------
(***************************************************************************)
(* The requests that the workers of the controller make to recommenders,   *)
(* on top of the certificate cache.  All of them go through one            *)
(* http.Transport, whose TLS configuration each request replaces by its    *)
(* own, and which keeps connections for later requests to the same host.   *)
(* Recommenders are reached by https; what they answer is a reading of     *)
(* Reconciler.                                                             *)
(***************************************************************************)
EXTENDS TlsCertificateCache

CONSTANTS
    Recommenders,   \* url -> the TLS configuration of its RecommenderSpec, or NoConfig
    HostOf,         \* url -> the host it is on
    Defaults        \* the TLS configuration of the flags, or NoConfig

NoConfig == [set |-> FALSE]

\* A configuration names a certificate and a key that are written together or not, or
\* leaves names open: one may have a CA file only.
TLSConfigs == [set : {TRUE}, caFile : STRING, certFile : CertNames, keyFile : KeyNames]

\* main refuses flags that name a certificate and no key.
ASSUME RecommenderAssumption ==
    /\ Defaults \in {NoConfig} \cup TLSConfigs
    /\ Defaults.set => /\ Defaults.caFile # NoName \/ Defaults.certFile # NoName
                       /\ Defaults.certFile # NoName => Defaults.keyFile # NoName
    /\ \A url \in DOMAIN Recommenders : Recommenders[url] \in {NoConfig} \cup TLSConfigs
    /\ DOMAIN HostOf = DOMAIN Recommenders

VARIABLES
    transport,      \* TLSClientConfig of the shared transport
    idle,           \* the connections it keeps: pairs of host and configuration
    request         \* the request each worker makes

rvars == << transport, idle, request >>
vars == << cvars, rvars >>

NoRequest == [pc |-> "idle", url |-> NoName, conn |-> NoConfig]

Init ==
    /\ CacheInit
    /\ transport = NoConfig /\ idle = {}
    /\ request = [w \in Workers |-> NoRequest]

--------------------------------------------------------------------------------
Or(file, default) == IF file = NoName THEN default ELSE file

mergeTLSConfig(defaults, recommender) ==
    CASE ~defaults.set -> recommender
      [] ~recommender.set -> defaults
      [] OTHER -> [recommender EXCEPT !.caFile = Or(@, defaults.caFile),
                                      !.certFile = Or(@, defaults.certFile),
                                      !.keyFile = Or(@, defaults.keyFile)]

ConfigOf(url) == mergeTLSConfig(Defaults, Recommenders[url])

\* Up to http.Client.Do: the request replaces the configuration of the transport, if
\* it has one of its own.  (A URL, a CA file or a version that cannot be used ends the
\* request before that, and nothing has changed.)
GetReplicaRecommendation(w) ==
    /\ request[w].pc = "idle"
    /\ \E url \in DOMAIN Recommenders :
          /\ request' = [request EXCEPT ![w] = [NoRequest EXCEPT !.pc = "send", !.url = url]]
          /\ transport' = IF ConfigOf(url).set THEN ConfigOf(url) ELSE transport
    /\ UNCHANGED << cvars, idle >>

\* The transport has a connection to the host.
Reuse(w) ==
    /\ request[w].pc = "send"
    /\ \E c \in idle :
          /\ c[1] = HostOf[request[w].url]
          /\ idle' = idle \ {c}
          /\ request' = [request EXCEPT ![w].pc = "exchange", ![w].conn = c[2]]
    /\ UNCHANGED << cvars, transport >>

\* It dials with the configuration it has now; the server does not ask for a certificate ...
Dial(w) ==
    /\ request[w].pc = "send"
    /\ request' = [request EXCEPT ![w].pc = "exchange", ![w].conn = transport]
    /\ UNCHANGED << cvars, transport, idle >>

\* ... or does.
DialWithCertificate(w) ==
    /\ request[w].pc = "send" /\ transport.set
    /\ Call(w, transport.certFile, transport.keyFile)
    /\ request' = [request EXCEPT ![w].pc = "handshake", ![w].conn = transport]
    /\ UNCHANGED << transport, idle >>

\* A callback that returns an error fails the handshake and the request.
HandshakeEnds(w) ==
    /\ request[w].pc = "handshake"
    /\ request' = [request EXCEPT ![w] = IF call[w].err # NoError THEN NoRequest
                                              ELSE [@ EXCEPT !.pc = "exchange"]]
    /\ Return(w)
    /\ UNCHANGED << transport, idle >>

\* The server answers, with a recommendation or an error, and the connection is kept.
Answer(w) ==
    /\ request[w].pc = "exchange"
    /\ idle' = idle \cup {<< HostOf[request[w].url], request[w].conn >>}
    /\ request' = [request EXCEPT ![w] = NoRequest]
    /\ UNCHANGED << cvars, transport >>

\* No connection, an error on it, or the timeout of 10 seconds.
RequestFails(w) ==
    /\ request[w].pc \in {"send", "exchange"}
    /\ request' = [request EXCEPT ![w] = NoRequest]
    /\ UNCHANGED << cvars, transport, idle >>

CloseIdle ==
    /\ idle # {}
    /\ idle' = {}
    /\ UNCHANGED << cvars, transport, request >>

Callback(w) == CallbackStep(w) /\ UNCHANGED rvars

Next ==
    \/ \E w \in Workers : \/ GetReplicaRecommendation(w)
                          \/ Reuse(w) \/ Dial(w) \/ DialWithCertificate(w)
                          \/ Callback(w) \/ HandshakeEnds(w)
                          \/ Answer(w) \/ RequestFails(w)
    \/ CloseIdle
    \/ CacheEnvironment /\ UNCHANGED rvars

Spec == Init /\ [][Next]_vars

--------------------------------------------------------------------------------
(* Properties. *)

\* A request travels on a connection that was made with the TLS configuration of its
\* own recommender, its client certificate included (instrumentedClient and
\* NewCertificateReloadingTransport: the client for this recommender).
OwnConfiguration ==
    \A w \in Workers : request[w].pc \in {"handshake", "exchange"}
                          => request[w].conn = ConfigOf(request[w].url)
================================================================================
