----------------------------- MODULE MCFwUpdate -----------------------------
(* FwUpdate for model checking: two targets, each with its backup.         *)
EXTENDS FwUpdate

CONSTANTS t1, t2, b1, b2, d1, v1, v2, v3

(* BOOT.BIN and ZZ9000.CFG keep BOOT.bak and ZZ9000.bak.                    *)
MCBackupOf == [t \in Target |-> IF t = t1 THEN b1 ELSE b2]

(* Two names with one base: the backup file has the base name of both.      *)
OneBackup == [t \in Target |-> b1]
=============================================================================
