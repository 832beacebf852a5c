--------------------------- MODULE MCAuthTransport --------------------------
(* Three requests that share a transport. *)
EXTENDS AuthTransport
=============================================================================
