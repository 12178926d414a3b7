-------------------------- MODULE MCRecommenderClient --------------------------
(* The instances of RecommenderClient that TLC checks. *)
EXTENDS RecommenderClient, TLC

Config(ca, cert, key) == [set |-> TRUE, caFile |-> ca, certFile |-> cert, keyFile |-> key]

OneCert == {"cert"}
OneKey == {"key"}
OneKeyOf == "cert" :> "key"

AnyWorker == Permutations(Workers)

\* A recommender with a certificate; the CA file is that of the flags.
CaFlags == Config("ca", "", "")
CertRecommender == "reco1" :> Config("", "cert", "key")
OneHost == "reco1" :> "host"

\* The first certificate expires at 1, the second at 2, the last after the run.
ThreeExpire == << 1, 2, 9 >>

\* The certificate is given by the flags; a recommender without a configuration and
\* one that leaves everything to the flags.
Flags == Config("ca", "cert", "key")
SameRecommenders == ("reco1" :> NoConfig) @@ ("reco2" :> Config("", "", ""))
TwoHosts == ("reco1" :> "host1") @@ ("reco2" :> "host2")
TwoExpire == << 1, 9 >>

\* With the CA file of the flags: a recommender without a certificate, and one with a
\* certificate on the same host.
MixedRecommenders == ("reco1" :> NoConfig) @@ ("reco2" :> Config("", "cert", "key"))
SameHost == ("reco1" :> "host") @@ ("reco2" :> "host")
================================================================================
