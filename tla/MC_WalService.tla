---------------------------- MODULE MC_WalService ----------------------------
(* Instances of WalService for TLC: the bounds are given in the .cfg files. *)
EXTENDS WalService
=============================================================================
