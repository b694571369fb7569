---------------------------- MODULE MCBackupPage ----------------------------
(***************************************************************************)
(* The backups page alone, on one backup whose job may be attempted twice. *)
(***************************************************************************)
EXTENDS BackupPage
=============================================================================
