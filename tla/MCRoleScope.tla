---------------------------- MODULE MCRoleScope -----------------------------
(***************************************************************************)
(* Instances of RoleScope for TLC.                                         *)
(***************************************************************************)
EXTENDS RoleScope, TLC

\* User ids are only compared; no safety property names one.
UserSymmetry == Permutations(Users)
=============================================================================
