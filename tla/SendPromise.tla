------------------------------ MODULE SendPromise ------------------------------
(***************************************************************************)
(* What the server promises whoever sends a message, with nothing of how:  *)
(* no turns, no queue items, no dispatch, no roles.  A key that was        *)
(* accepted has a fate.  A session runs one message at a time; a success   *)
(* starts the oldest message that waits, in the same step; an end that is  *)
(* no success holds every message that waits; a message leaves the queue   *)
(* by the hand of its sender or by its turn; nothing runs twice.           *)
(***************************************************************************)
EXTENDS Integers

CONSTANTS Sessions, SendIds, TurnKeys, NULL

Keys == SendIds \cup TurnKeys

VARIABLES
    fate,   \* per key: what became of the message
    home,   \* per key: the session it was accepted for
    rank,   \* per key: its place in the queue, 0 if it never waited
    next    \* the next place in a queue

vars == <<fate, home, rank, next>>

Ended == {"completed", "failed", "cancelled", "unknown"}

Running(s) == {k \in Keys : fate[k] = "running" /\ home[k] = s}
Waiting(s) == {k \in Keys : fate[k] = "waiting" /\ home[k] = s}
First(s)   == {k \in Waiting(s) : \A l \in Waiting(s) : rank[k] <= rank[l]}

Init ==
    /\ fate = [k \in Keys |-> "unsent"] /\ home = [k \in Keys |-> NULL]
    /\ rank = [k \in Keys |-> 0] /\ next = 1

\* The message starts at once.
Start(k, s) ==
    /\ fate[k] = "unsent" /\ Running(s) = {}
    /\ fate' = [fate EXCEPT ![k] = "running"]
    /\ home' = [home EXCEPT ![k] = s]
    /\ UNCHANGED <<rank, next>>

\* The message waits behind the one that runs.
Join(k, s) ==
    /\ fate[k] = "unsent" /\ Running(s) # {}
    /\ fate' = [fate EXCEPT ![k] = "waiting"]
    /\ home' = [home EXCEPT ![k] = s]
    /\ rank' = [rank EXCEPT ![k] = next]
    /\ next' = next + 1

Withdraw(k) ==
    /\ fate[k] = "waiting"
    /\ fate' = [fate EXCEPT ![k] = "withdrawn"]
    /\ UNCHANGED <<home, rank, next>>

Succeed(k) ==
    /\ fate[k] = "running"
    /\ \/ /\ Waiting(home[k]) = {}
          /\ fate' = [fate EXCEPT ![k] = "completed"]
       \/ \E l \in First(home[k]) :
             fate' = [fate EXCEPT ![k] = "completed", ![l] = "running"]
    /\ UNCHANGED <<home, rank, next>>

End(k, how) ==
    /\ fate[k] = "running" /\ how \in Ended \ {"completed"}
    /\ fate' = [l \in Keys |-> IF l = k THEN how
                               ELSE IF l \in Waiting(home[k]) THEN "held" ELSE fate[l]]
    /\ UNCHANGED <<home, rank, next>>

\* The process dies: what ran has an unknown end, what waited still waits.
Crash ==
    /\ fate' = [k \in Keys |-> IF fate[k] = "running" THEN "unknown" ELSE fate[k]]
    /\ UNCHANGED <<home, rank, next>>

Next ==
    \/ \E k \in Keys, s \in Sessions : Start(k, s)
    \/ \E k \in SendIds, s \in Sessions : Join(k, s)
    \/ \E k \in Keys : \/ Withdraw(k) \/ Succeed(k)
                       \/ \E how \in Ended : End(k, how)
    \/ Crash

Spec == Init /\ [][Next]_vars
=============================================================================
