------------------------------ MODULE MCClaims ------------------------------
(***************************************************************************)
(* Instances of R2LineClaims for TLC.                                      *)
(***************************************************************************)
EXTENDS MCLine, R2LineClaims
=============================================================================
