----------------------------- MODULE MCRPCClients -----------------------------
(* Instance of RPCClients: every configuration of up to two URLs.             *)
EXTENDS RPCClients, SequencesExt

MCConfigs == BoundedSeq({"http", "ws"}, 2)
=============================================================================
