----------------------------- MODULE MC_Approvals -----------------------------
(* Instances of the approvals: all turns on one native port.                  *)
EXTENDS Approvals, TLC

OnePort == {"port"}
Shared == [t \in Turns |-> "port"]

Symmetry == Permutations(Turns) \cup Permutations(Rows) \cup Permutations(Calls)
            \cup Permutations(RequestIds) \cup Permutations(Decisions)
=============================================================================
