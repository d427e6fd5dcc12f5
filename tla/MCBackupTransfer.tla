-------------------------- MODULE MCBackupTransfer --------------------------
(* Small instances of BackupTransfer for TLC. *)
EXTENDS BackupTransfer, TLC

\* Runs are alike.
MCSymmetry == Permutations(Run)
=============================================================================
