--------------------------- MODULE MC_FirstRunGate ---------------------------
(* Instances of the gate: all turns on one library.                           *)
EXTENDS FirstRunGate, TLC

OneLibrary == {"local:kilo"}
Shared == [t \in Turns |-> "local:kilo"]

Symmetry == Permutations(Turns)
=============================================================================
