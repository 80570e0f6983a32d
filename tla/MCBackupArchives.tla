-------------------------- MODULE MCBackupArchives --------------------------
(***************************************************************************)
(* BackupArchives for TLC: ids, labels, archives and threads are model     *)
(* values that nothing tells apart.                                        *)
(***************************************************************************)
EXTENDS BackupArchives, TLC

Symmetry == Permutations(Backup) \cup Permutations(Content) \cup Permutations(Thread)
=============================================================================
