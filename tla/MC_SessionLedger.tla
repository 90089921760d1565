--------------------------- MODULE MC_SessionLedger ---------------------------
(* Instances of the ledger: pa and pb are roles of a family whose home is      *)
(* exclusive, pc belongs to a family that shares its home.                     *)
EXTENDS SessionLedger, TLC

CONSTANTS pa, pb, pc

FamilyOf == [p \in Profiles |-> IF p = pc THEN "shared" ELSE "exclusive"]

Symmetry == Permutations(Sessions) \cup Permutations(Profiles \ {pc})
            \cup Permutations(Turns) \cup Permutations(Items)
            \cup Permutations(SendIds)
=============================================================================
