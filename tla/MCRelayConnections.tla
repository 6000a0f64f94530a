------------------------- MODULE MCRelayConnections -------------------------
(* Small instances of RelayConnections for TLC.                            *)
EXTENDS RelayConnections
=============================================================================
