--------------------------- MODULE MCContractClient ---------------------------
(***************************************************************************)
(* Every feature of the catalog, for clients with the usual default of ten *)
(* outgoing streams and with as many as the server.                        *)
(***************************************************************************)
EXTENDS ContractClient

MCDefinitions == {FeatureDefinitions[i] : i \in DOMAIN FeatureDefinitions}
MCClientStreams == {10, 32}

\* No payload of the catalog has a NUL.
NoCuts == <<>>
=============================================================================
