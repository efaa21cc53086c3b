------------------------- MODULE MC_BackupCatalog -------------------------
(***************************************************************************)
(* The instances of BackupCatalog that TLC checks.  The pods are           *)
(* interchangeable: any of them may be the primary and take the backups.   *)
(***************************************************************************)
EXTENDS BackupCatalog, TLC

PodSymmetry == Permutations(Pods)
=============================================================================
