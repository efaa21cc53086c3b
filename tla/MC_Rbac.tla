------------------------------ MODULE MC_Rbac ------------------------------
(* The instance of Rbac that TLC checks. *)
EXTENDS Rbac
=============================================================================
