------------------------------ MODULE MC_WorkCore ------------------------------
(* Two callers at a time on two executions of one work.                        *)
EXTENDS WorkCore, TLC

CONSTANT i1

Lists == {{}, {i1}}
Clock == 0..1
Symmetry == Permutations(Callers) \cup Permutations(Keys) \cup Permutations(Execs)
            \cup Permutations(Outcomes)
=============================================================================
