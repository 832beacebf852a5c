---------------------------- MODULE MCTailFollow ----------------------------
(* Two documents, one written before the follow begins. *)
EXTENDS TailFollow
=============================================================================
