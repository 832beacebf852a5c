------------------------------- MODULE Prompt -------------------------------
(***************************************************************************)
(* An operator at the prompt (internal/shell/shell.go), who runs one       *)
(* command at a time: moving about and changing databases, reading one     *)
(* page by page, or compacting one.  What the three share is the session,  *)
(* which only the first changes, so that they are checked one at a time:   *)
(* the operator is here on one errand, and the rest stays as it was.       *)
(***************************************************************************)
EXTENDS Completion, Listing, Compaction

VARIABLE errand

vars == <<errand, browseVars, listVars, watchVars>>

Init ==
  /\ errand \in {"browse", "list", "compact"}
  /\ BrowseInit /\ (errand # "browse" => host = CHOOSE h \in Hosts : TRUE)
  /\ ListInit   /\ (errand # "list" => cmd = "ls" /\ still = {})
  /\ WatchInit  /\ (errand # "compact" =>
                      theirs = "none" /\ ~options.cleanup /\ ~options.watch)

Next ==
  /\ UNCHANGED errand
  /\ \/ errand = "browse"  /\ BrowseNext /\ UNCHANGED <<listVars, watchVars>>
     \/ errand = "list"    /\ ListNext   /\ UNCHANGED <<browseVars, watchVars>>
     \/ errand = "compact" /\ WatchNext  /\ UNCHANGED <<browseVars, listVars>>

Spec == Init /\ [][Next]_vars

(* The watch goes on looking, and the server works off the tasks it has begun; it
   need never begin one. *)
Fairness ==
  /\ WF_vars(errand = "compact" /\ (Poll \/ Pause) /\ UNCHANGED <<errand, browseVars, listVars>>)
  /\ WF_vars(/\ errand = "compact" /\ own = "running" /\ Advance
             /\ UNCHANGED <<errand, browseVars, listVars>>)
  /\ WF_vars(/\ errand = "compact" /\ theirs = "running" /\ AdvanceTheirs
             /\ UNCHANGED <<errand, browseVars, listVars>>)

FairSpec == Spec /\ Fairness
=============================================================================
