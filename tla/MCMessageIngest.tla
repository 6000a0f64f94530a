--------------------------- MODULE MCMessageIngest ---------------------------
(* Small instances of MessageIngest for TLC.                               *)
EXTENDS MessageIngest
=============================================================================
