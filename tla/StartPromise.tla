----------------------------- MODULE StartPromise -----------------------------
(***************************************************************************)
(* What the Work Core promises of one Execution, whatever its callers do,  *)
(* in whatever order, and wherever they die: its inputs are fixed once and *)
(* before anything starts, it is started at most once, the verdict on its  *)
(* dispatch is given once and is true of what happened, and its outcome is *)
(* written once.                                                           *)
(***************************************************************************)
EXTENDS Integers

CONSTANTS Execs, InputSets, Outcomes, NULL

VARIABLES
    given,      \* the inputs the dispatch froze, NULL before
    starts,     \* native starts so far
    verdict,    \* "open", then "accepted" or "failed" for good
    seal        \* the outcome, NULL before it is written

vars == <<given, starts, verdict, seal>>

Init ==
    /\ given = [e \in Execs |-> NULL]
    /\ starts = [e \in Execs |-> 0]
    /\ verdict = [e \in Execs |-> "open"]
    /\ seal = [e \in Execs |-> NULL]

Fix(e) ==
    /\ given[e] = NULL
    /\ \E I \in InputSets : given' = [given EXCEPT ![e] = I]
    /\ UNCHANGED <<starts, verdict, seal>>

Begin(e) ==
    /\ given[e] # NULL
    /\ verdict[e] = "open"
    /\ starts[e] = 0
    /\ starts' = [starts EXCEPT ![e] = 1]
    /\ UNCHANGED <<given, verdict, seal>>

Judge(e) ==
    /\ given[e] # NULL
    /\ verdict[e] = "open"
    /\ verdict' = [verdict EXCEPT ![e] = IF starts[e] = 1 THEN "accepted" ELSE "failed"]
    /\ UNCHANGED <<given, starts, seal>>

Seal(e) ==
    /\ seal[e] = NULL
    /\ \E o \in Outcomes : seal' = [seal EXCEPT ![e] = o]
    /\ UNCHANGED <<given, starts, verdict>>

Next == \E e \in Execs : Fix(e) \/ Begin(e) \/ Judge(e) \/ Seal(e)

Spec == Init /\ [][Next]_vars
=============================================================================
