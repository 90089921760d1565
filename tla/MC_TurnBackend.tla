----------------------------- MODULE MC_TurnBackend -----------------------------
(* The turns of one session, each with its own keys in the Work Core.          *)
EXTENDS TurnBackend, TLC

CONSTANT i1

Lists == {{i1}}
Given == {i1}
Clock == {0}
KeyOf(t) == <<"execution", t>>
SealOf(t, o) == <<o, t>>
KeySet == {KeyOf(t) : t \in Turns} \cup {SealOf(t, o) : t \in Turns, o \in Outcomes}
Symmetry == Permutations(Turns)
=============================================================================
