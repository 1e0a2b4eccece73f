-------------------------- MODULE MCEvidenceChain --------------------------
(* Threads of the ingestion service, one of the API process, and a table   *)
(* that was there before the chain.                                        *)
EXTENDS EvidenceChain, ChainVerification

CONSTANTS ingest, api, w1, w2, w3, k1, k2, k3

TwoProcesses == (w1 :> ingest) @@ (w2 :> ingest) @@ (w3 :> api)
OneEach      == (w1 :> ingest) @@ (w3 :> api)
OneProcess   == (w1 :> ingest) @@ (w2 :> ingest)
NoRows       == <<>>
OldRow       == <<k1>>
OldRows      == <<k1, k3>>
=============================================================================
