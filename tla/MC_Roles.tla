-------------------------------- MODULE MC_Roles --------------------------------
(* Instances of Roles.                                                            *)
EXTENDS Roles, TLC

Symmetry == Permutations(Contents)
=============================================================================
