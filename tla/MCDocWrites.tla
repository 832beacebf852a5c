----------------------------- MODULE MCDocWrites ----------------------------
(* Two operators, each with a command of any kind, on a document that is not
   there, has one revision, or two or three in conflict. *)
EXTENDS DocWrites

MCCommands == {"put", "putrev", "cp", "attach", "edit", "rm", "rmrev", "rmatt", "resolve",
               "cancel", "security"}
=============================================================================
