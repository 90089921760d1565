---------------------------- MODULE MC_RunTracker ----------------------------
(* Instances of the tracker: stops of business turns, and stops of neutral    *)
(* submits.                                                                   *)
EXTENDS RunTracker, TLC

Symmetry == Permutations(Turns) \cup Permutations(Keys) \cup Permutations(Callers)
            \cup Permutations(Submitters)
=============================================================================
