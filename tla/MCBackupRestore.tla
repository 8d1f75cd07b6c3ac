--------------------------- MODULE MCBackupRestore ---------------------------
(* A database volume and another one, a secret besides the login of
   the administrator, commands with up to two flags. *)
EXTENDS BackupRestore
=============================================================================
