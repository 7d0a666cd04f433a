--------------------------- MODULE MCFloatingSession ---------------------------
(* The worker and one task of the application share a client.              *)
EXTENDS FloatingSession
=============================================================================
