---------------------------- MODULE MCBackupDump ----------------------------
(* BackupDump on a small instance: two documents, a handful of writes. *)
EXTENDS BackupDump, TLC

Symmetry == Permutations(Docs)
=============================================================================
