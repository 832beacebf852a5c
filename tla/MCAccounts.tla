----------------------------- MODULE MCAccounts -----------------------------
(* Two operators, each with a command of any kind, on a name that is an account
   of either kind, of both or of none. *)
EXTENDS Accounts

MCCommands == {"add", "addadmin", "passwd", "passwdadmin", "rm", "rmadmin"}
=============================================================================
