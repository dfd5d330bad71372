------------------------------ MODULE MCPathA ------------------------------
(***************************************************************************)
(* Instances that meet the hypothesis of Path A, which TLC evaluates.      *)
(***************************************************************************)
EXTENDS MCKeyRotation

ASSUME PathAHolds == PathA
=============================================================================
