----------------------------- MODULE FirstRunGate ------------------------------
(***************************************************************************)
(* The first run on a shared library.  A harness whose sessions share one   *)
(* database must not have two runs in it while the database is being        *)
(* created, so FirstRunGate gives the first run of a library an exclusive   *)
(* hold, makes the others wait, and lets everyone through afterwards.  The  *)
(* module composes the gate with the threads that pass it: accept() takes   *)
(* it in _start_run; the completion thread releases the hold, after it has  *)
(* accepted the successor that complete_turn claimed from the queue;        *)
(* stop() releases what is left over.  The gate lives as long as the        *)
(* process.  The 300 seconds of a wait are a step that may happen at any    *)
(* time while the wait lasts.                                               *)
(***************************************************************************)
EXTENDS Integers, FiniteSets

CONSTANTS
    Turns, Libraries,
    Library,        \* the (placement, family) key of each Turn
    NULL,
    MaxLeaks,       \* bound: accepts that fail once their run has started
    MaxStops        \* bound: shutdowns of the runtime

ASSUME GateAssumption ==
    /\ Library \in [Turns -> Libraries] /\ NULL \notin Turns
    /\ MaxLeaks \in Nat /\ MaxStops \in Nat

VARIABLES
    event,      \* _states: no event, an unset one, a set one
    hold,       \* per Turn: it was given the exclusive hold
    stage,      \* per Turn: what its thread does
    successor,  \* per Turn: the Turn its completion thread accepts
    leaks, stops

gateVars == <<event, hold, stage, successor, leaks, stops>>

GateTypeOK ==
    /\ event \in [Libraries -> {"none", "unset", "set"}]
    /\ hold \in [Turns -> BOOLEAN]
    /\ stage \in [Turns -> {"new", "waiting", "opening", "started", "running",
                            "succession", "releasing", "over", "failed", "leaked"}]
    /\ successor \in [Turns -> Turns \cup {NULL}]
    /\ leaks \in 0..MaxLeaks /\ stops \in 0..MaxStops

GateInit ==
    /\ event = [l \in Libraries |-> "none"]
    /\ hold = [t \in Turns |-> FALSE]
    /\ stage = [t \in Turns |-> "new"]
    /\ successor = [t \in Turns |-> NULL]
    /\ leaks = 0 /\ stops = 0

\* A harness process of t has the library's files open.
Inside(t) == stage[t] \in {"opening", "started", "running", "leaked"}

\* accept() has returned to whoever called it.
Accepted(t) == stage[t] \notin {"new", "waiting", "opening", "started"}

\* _Hold.release: idempotent, and nothing for a run without a hold.
ReleasedBy_Never(ts) == event
ReleasedBy(ts) ==
    [l \in Libraries |-> IF \E t \in ts : hold[t] /\ Library[t] = l
                         THEN "set" ELSE event[l]]

-----------------------------------------------------------------------------
(* accept() *)

\* acquire, up to its wait: the first caller owns the library.
Acquired(t, at) ==
    \/ /\ event[Library[t]] = "none"
       /\ event' = [event EXCEPT ![Library[t]] = "unset"]
       /\ hold' = [hold EXCEPT ![t] = TRUE]
       /\ stage' = [at EXCEPT ![t] = "opening"]
    \/ /\ event[Library[t]] = "set"
       /\ stage' = [at EXCEPT ![t] = "opening"]
       /\ UNCHANGED <<event, hold>>
    \/ /\ event[Library[t]] = "unset"
       /\ stage' = [at EXCEPT ![t] = "waiting"]
       /\ UNCHANGED <<event, hold>>

\* A Turn accepted by a request thread.
Accept(t) ==
    /\ stage[t] = "new"
    /\ Acquired(t, stage)
    /\ UNCHANGED <<successor, leaks, stops>>

PassThrough(t) ==
    /\ stage[t] = "waiting"
    /\ event[Library[t]] = "set"
    /\ stage' = [stage EXCEPT ![t] = "opening"]
    /\ UNCHANGED <<event, hold, successor, leaks, stops>>

WaitExpires_Enters(t) ==
    /\ stage[t] = "waiting"
    /\ event[Library[t]] = "unset"
    /\ stage' = [stage EXCEPT ![t] = "opening"]
    /\ UNCHANGED <<event, hold, successor, leaks, stops>>

\* FirstRunLockTimeout: fail_turn, and no run.
WaitExpires(t) ==
    /\ stage[t] = "waiting"
    /\ event[Library[t]] = "unset"
    /\ stage' = [stage EXCEPT ![t] = "failed"]
    /\ UNCHANGED <<event, hold, successor, leaks, stops>>

\* open_execution answers, and the prompt's thread starts.
OpenExecution(t) ==
    /\ stage[t] = "opening"
    /\ stage' = [stage EXCEPT ![t] = "started"]
    /\ UNCHANGED <<event, hold, successor, leaks, stops>>

\* open_execution raises: the hold is released, so the library counts as ready.
OpenFailsInside(t) ==
    /\ stage[t] = "opening"
    /\ stage' = [stage EXCEPT ![t] = "failed"]
    /\ event' = ReleasedBy({t})
    /\ UNCHANGED <<hold, successor, leaks, stops>>

Register(t) ==
    /\ stage[t] = "started"
    /\ stage' = [stage EXCEPT ![t] = "running"]
    /\ UNCHANGED <<event, hold, successor, leaks, stops>>

\* Recording the dispatch raises: accept()'s handler fails the Turn, and nobody
\* knows the run any more.
AcceptFails(t) ==
    /\ stage[t] = "started"
    /\ leaks < MaxLeaks
    /\ stage' = [stage EXCEPT ![t] = "leaked"]
    /\ leaks' = leaks + 1
    /\ UNCHANGED <<event, hold, successor, stops>>

-----------------------------------------------------------------------------
(* The completion thread *)

\* _complete with nothing queued.
FinishRun(t) ==
    /\ stage[t] = "running"
    /\ stage' = [stage EXCEPT ![t] = "releasing"]
    /\ UNCHANGED <<event, hold, successor, leaks, stops>>

\* _complete with a successor claimed from the same session's queue: it is
\* accepted by this thread, before _complete returns.
FinishAndAccept(t, u) ==
    /\ stage[t] = "running"
    /\ stage[u] = "new" /\ Library[u] = Library[t]
    /\ Acquired(u, [stage EXCEPT ![t] = "succession"])
    /\ successor' = [successor EXCEPT ![t] = u]
    /\ UNCHANGED <<leaks, stops>>

SuccessorAccepted(t) ==
    /\ stage[t] = "succession"
    /\ Accepted(successor[t])
    /\ stage' = [stage EXCEPT ![t] = "releasing"]
    /\ UNCHANGED <<event, hold, successor, leaks, stops>>

\* _complete_then_retire's finally.
ReleaseHold(t) ==
    /\ stage[t] = "releasing"
    /\ stage' = [stage EXCEPT ![t] = "over"]
    /\ event' = ReleasedBy({t})
    /\ UNCHANGED <<hold, successor, leaks, stops>>

\* stop(): the holds of runs that are still registered after the deadline.
Leftovers == {t \in Turns : stage[t] = "running"}

StopRuntime ==
    /\ stops < MaxStops
    /\ stops' = stops + 1
    /\ event' = ReleasedBy(Leftovers)
    /\ UNCHANGED <<hold, stage, successor, leaks>>

-----------------------------------------------------------------------------

Thread(t) ==
    \/ PassThrough(t) \/ WaitExpires(t)
    \/ OpenExecution(t) \/ OpenFailsInside(t) \/ Register(t) \/ AcceptFails(t)
    \/ FinishRun(t) \/ SuccessorAccepted(t) \/ ReleaseHold(t)
    \/ \E u \in Turns : FinishAndAccept(t, u)

GateNext ==
    \/ \E t \in Turns : Accept(t) \/ Thread(t)
    \/ StopRuntime

GateSpec == GateInit /\ [][GateNext]_gateVars

\* A Turn's thread keeps running; nobody has to send, and a wait need not expire
\* while the library may still become ready.
FairGateSpec == GateSpec /\ \A t \in Turns : WF_gateVars(Thread(t))

-----------------------------------------------------------------------------
(* What the gate promises *)

\* While the first run of a library has not ended, nobody else is inside it: the
\* waiters wait, and a wait that expires is a failure and never an entry.
FirstRunIsExclusive ==
    \A t, u \in Turns :
        /\ Inside(u) /\ Library[t] = Library[u]
        /\ hold[t] /\ event[Library[t]] = "unset"
        => t = u

\* A library has at most one first run in the life of the process.
OneFirstRun ==
    \A t, u \in Turns : hold[t] /\ hold[u] /\ Library[t] = Library[u] => t = u

\* Whoever waits is released by its library's first run, or gives up: a held library
\* becomes ready, unless the accept that took the hold lost its run.
LibraryBecomesReady ==
    \A l \in Libraries : event[l] = "unset" ~>
        \/ event[l] = "set"
        \/ \E t \in Turns : hold[t] /\ Library[t] = l /\ stage[t] = "leaked"
=============================================================================
