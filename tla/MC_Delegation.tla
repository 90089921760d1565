------------------------------ MODULE MC_Delegation ------------------------------
(* Roles that may call each other, the second from a family with a whole-db store. *)
EXTENDS Delegation, TLC

CONSTANTS a, b

MutualGrants == {<<a, b>>, <<b, a>>}
=============================================================================
