-------------------------------- MODULE WorkCore --------------------------------
(***************************************************************************)
(* The Work Core: works, the executions filed under them, the one dispatch *)
(* of an execution, its projection, its finalization and the evidence that *)
(* arrives about its inputs.  CoreRepository runs every write under one    *)
(* lock and in one SQLite transaction, so a write is one action; the       *)
(* services read before they write, outside that lock, so what they read   *)
(* is kept in the caller's row and may be stale when it is used.           *)
(*                                                                         *)
(* A caller is one thread inside a service call.  It may die with its      *)
(* process between any two steps, and any step of it may raise.            *)
(* Left out: Work metadata, native and output references (they guard       *)
(* nothing), the legacy resource states, and the event ledger, which       *)
(* copies what the rows say.                                               *)
(***************************************************************************)
EXTENDS Integers, FiniteSets

CONSTANTS
    Works, Execs, Callers,
    Keys,          \* idempotency keys, of dispatches and of finalizations
    Inputs,        \* references that can be an execution's input
    InputSets,     \* the canonical input lists a dispatch may bring
    Outcomes,
    Times,         \* readings of the provider's clock (observed_at)
    Freshness,     \* how fresh a provider says its observation is
    NULL,
    MaxCalls,      \* bound: service calls
    MaxDeaths      \* bound: process deaths

ASSUME CoreAssumption ==
    /\ InputSets \subseteq SUBSET Inputs
    /\ Times \subseteq Nat /\ 0 \in Times
    /\ "stale" \in Freshness
    /\ NULL \notin Works /\ NULL \notin Execs /\ NULL \notin Keys
    /\ NULL \notin Outcomes /\ NULL \notin InputSets
    /\ MaxCalls \in Nat /\ MaxDeaths \in Nat

VARIABLES
    work,       \* core_works
    exec,       \* core_executions
    dispatch,   \* core_dispatches, by execution
    input,      \* core_execution_refs of relation INPUT
    final,      \* core_execution_finalizations
    evidence,   \* core_resource_observations: the inputs they address
    caller,     \* the service calls in progress
    starts,     \* native starts of each execution (outside Core)
    calls, deaths

rows == <<work, exec, dispatch, input, final, evidence>>
vars == <<rows, caller, starts, calls, deaths>>

Projection ==
    [phase : {"unknown", "active"}, outcome : {NULL}, fresh : Freshness, at : Times]
    \cup [phase : {"terminal"}, outcome : Outcomes, fresh : Freshness, at : Times]

WorkRow == [state : {"absent", "open", "completed"}, version : Nat]
ExecRow == [work : Works \cup {NULL}, proj : Projection \cup {NULL}, version : Nat]
DispatchRow == [state : {"none", "requested", "accepted", "failed"},
                key : Keys \cup {NULL}, digest : InputSets \cup {NULL}]
FinalRow == [key : Keys, outcome : Outcomes, about : SUBSET Inputs]
Answers == {"none", "accepted", "failed", "ambiguous", "rejected", "done", "error"}
CallerRow == [pc : {"idle", "freeze", "resolve", "start", "accept", "fail", "doubt",
                    "project", "close", "reopen"},
              exec : Execs \cup {NULL}, work : Works \cup {NULL},
              key : Keys \cup {NULL}, digest : InputSets \cup {NULL},
              proj : Projection \cup {NULL}, base : Nat, answer : Answers]

\* A row that is there is not the missing row.
ASSUME NullAssumption ==
    /\ \A p \in Projection : p # NULL
    /\ \A f \in FinalRow : f # NULL
    /\ \A I \in SUBSET Inputs : I # NULL

Nobody == [pc |-> "idle", exec |-> NULL, work |-> NULL, key |-> NULL, digest |-> NULL,
           proj |-> NULL, base |-> 0, answer |-> "none"]

TypeOK ==
    /\ work \in [Works -> WorkRow]
    /\ exec \in [Execs -> ExecRow]
    /\ dispatch \in [Execs -> DispatchRow]
    /\ input \in [Execs -> SUBSET Inputs]
    /\ final \in [Execs -> FinalRow \cup {NULL}]
    /\ evidence \in [Execs -> SUBSET Inputs]
    /\ caller \in [Callers -> CallerRow]
    /\ starts \in [Execs -> Nat]
    /\ calls \in 0..MaxCalls /\ deaths \in 0..MaxDeaths

Exists(e) == exec[e].proj # NULL
Terminal(e) == Exists(e) /\ exec[e].proj.phase = "terminal"
Dispatched(e) == dispatch[e].state # "none"

\* core_events.idempotency_key is unique over both kinds of rows.
KeyTaken(k) == \E e \in Execs : dispatch[e].key = k \/ (final[e] # NULL /\ final[e].key = k)

Init ==
    /\ work = [w \in Works |-> [state |-> "absent", version |-> 1]]
    /\ exec = [e \in Execs |-> [work |-> NULL, proj |-> NULL, version |-> 1]]
    /\ dispatch = [e \in Execs |-> [state |-> "none", key |-> NULL, digest |-> NULL]]
    /\ input = [e \in Execs |-> {}]
    /\ final = [e \in Execs |-> NULL]
    /\ evidence = [e \in Execs |-> {}]
    /\ caller = [c \in Callers |-> Nobody]
    /\ starts = [e \in Execs |-> 0]
    /\ calls = 0 /\ deaths = 0

-----------------------------------------------------------------------------
(* The caller's side of a call *)

Begin(c) ==
    /\ caller[c].pc = "idle"
    /\ calls < MaxCalls
    /\ calls' = calls + 1

Goes(c, row) == caller' = [caller EXCEPT ![c] = row]
Moves(c, pc) == caller' = [caller EXCEPT ![c].pc = pc]
Answers_(c, answer) == Goes(c, [Nobody EXCEPT !.exec = caller[c].exec, !.answer = answer])
Returns(c, e, answer) == Goes(c, [Nobody EXCEPT !.exec = e, !.answer = answer])

-----------------------------------------------------------------------------
(* Works and executions *)

CreateWork(w) ==
    /\ work[w].state = "absent"
    /\ work' = [work EXCEPT ![w].state = "open"]
    /\ UNCHANGED <<exec, dispatch, input, final, evidence, caller, starts, calls, deaths>>

\* complete_work and reopen_work: the row is read, then written if its version
\* is still the one that was read.
ReadWork(c, w, to) ==
    /\ Begin(c)
    /\ work[w].state # "absent"
    /\ Goes(c, [Nobody EXCEPT !.pc = to, !.work = w, !.base = work[w].version])
    /\ UNCHANGED <<rows, starts, deaths>>

UpdateWork(c) ==
    LET w == caller[c].work IN
    /\ caller[c].pc \in {"close", "reopen"}
    /\ \/ /\ work[w].version = caller[c].base
          /\ work' = [work EXCEPT
                        ![w].state = IF caller[c].pc = "close" THEN "completed" ELSE "open",
                        ![w].version = @ + 1]
          /\ Returns(c, NULL, "done")
       \/ /\ work[w].version # caller[c].base
          /\ Returns(c, NULL, "error")
          /\ UNCHANGED work
    /\ UNCHANGED <<exec, dispatch, input, final, evidence, starts, calls, deaths>>

\* create_execution: one INSERT .. SELECT that finds the work open.
CreateExecution(e, w) ==
    /\ ~Exists(e)
    /\ work[w].state = "open"
    /\ exec' = [exec EXCEPT ![e].work = w,
                  ![e].proj = [phase |-> "unknown", outcome |-> NULL, fresh |-> "stale",
                               at |-> 0]]
    /\ UNCHANGED <<work, dispatch, input, final, evidence, caller, starts, calls, deaths>>

\* attach_ref of an INPUT: only before the dispatch.
AttachInput(e, i) ==
    /\ Exists(e)
    /\ ~Dispatched(e)
    /\ input' = [input EXCEPT ![e] = @ \cup {i}]
    /\ UNCHANGED <<work, exec, dispatch, final, evidence, caller, starts, calls, deaths>>

-----------------------------------------------------------------------------
(* dispatch_execution *)

\* What a key that names a dispatch answers; start is never called again.
Recorded_Decided(state) == IF state = "accepted" THEN "accepted" ELSE "failed"
Recorded(state) ==
    CASE state = "accepted" -> "accepted"
      [] state = "failed"   -> "failed"
      [] OTHER              -> "ambiguous"

\* get_dispatch_by_key, then the reads of the execution and its provider.
Dispatch(c, e, k, I) ==
    /\ Begin(c)
    /\ \/ \E f \in Execs :
             /\ dispatch[f].key = k
             /\ Returns(c, e, IF f # e \/ dispatch[f].digest # I THEN "rejected"
                              ELSE Recorded(dispatch[f].state))
       \/ /\ \A f \in Execs : dispatch[f].key # k
          /\ Exists(e)
          /\ Goes(c, [Nobody EXCEPT !.pc = "freeze", !.exec = e, !.key = k, !.digest = I])
    /\ UNCHANGED <<rows, starts, deaths>>

\* create_dispatch_with_inputs, under the lock and in one transaction.
FreezeAllowed_Unchecked(c) ==
    LET e == caller[c].exec IN
    ~KeyTaken(caller[c].key) /\ input[e] \cap caller[c].digest = {}
FreezeAllowed(c) ==
    LET e == caller[c].exec IN
    /\ ~Dispatched(e)
    /\ ~KeyTaken(caller[c].key)
    /\ input[e] \cap caller[c].digest = {}

Freeze(c) ==
    LET e == caller[c].exec IN
    /\ caller[c].pc = "freeze"
    /\ \/ /\ FreezeAllowed(c)
          /\ dispatch' = [dispatch EXCEPT ![e] = [state |-> "requested",
                                                  key |-> caller[c].key,
                                                  digest |-> caller[c].digest]]
          /\ input' = [input EXCEPT ![e] = @ \cup caller[c].digest]
          /\ exec' = [exec EXCEPT ![e].version = @ + 1]
          /\ Moves(c, "resolve")
       \/ /\ ~FreezeAllowed(c)
          /\ Answers_(c, "rejected")
          /\ UNCHANGED <<dispatch, input, exec>>
    /\ UNCHANGED <<work, final, evidence, starts, calls, deaths>>

\* Early inputs are resolved, preflight runs, then the late inputs are resolved.
\* Whatever raises here, nothing was started.
Resolve(c) ==
    /\ caller[c].pc = "resolve"
    /\ \E next \in {"start", "fail"} : Moves(c, next)
    /\ UNCHANGED <<rows, starts, calls, deaths>>

\* provider.start and the check of its receipt.  ExecutionStartRejected is the
\* provider's proof that nothing started; any other exception proves nothing.
StartProvider(c) ==
    LET e == caller[c].exec IN
    /\ caller[c].pc = "start"
    /\ \/ /\ starts' = [starts EXCEPT ![e] = @ + 1]
          /\ Moves(c, "accept") \/ Moves(c, "doubt")
       \/ /\ UNCHANGED starts
          /\ Moves(c, "fail") \/ Moves(c, "doubt")
    /\ UNCHANGED <<rows, calls, deaths>>

\* _record_dispatch_terminal and record_dispatch_ambiguous: only a requested
\* dispatch takes a verdict, and doubt leaves it requested.
Settled(c) ==
    CASE caller[c].pc = "accept" -> "accepted"
      [] caller[c].pc = "fail"   -> "failed"
      [] OTHER                   -> "requested"

RecordStart(c) ==
    LET e == caller[c].exec IN
    /\ caller[c].pc \in {"accept", "fail", "doubt"}
    /\ dispatch[e].state = "requested"
    /\ dispatch' = [dispatch EXCEPT ![e].state = Settled(c)]
    /\ Answers_(c, Recorded(Settled(c)))
    /\ UNCHANGED <<work, exec, input, final, evidence, starts, calls, deaths>>

-----------------------------------------------------------------------------
(* Projection, finalization, evidence *)

\* observe_projection: what it reads decides; the write is a compare-and-set.
Observe(c, e, p) ==
    LET now == exec[e].proj IN
    /\ Begin(c)
    /\ Exists(e)
    /\ \/ /\ \/ p.phase = "terminal" /\ ~Terminal(e)                \* FinalizationRequired
             \/ Terminal(e) /\ p.outcome # now.outcome              \* it is sealed
          /\ Returns(c, e, "rejected")
       \/ /\ Terminal(e) <=> p.phase = "terminal"
          /\ Terminal(e) => p.outcome = now.outcome
          /\ IF p.at < now.at \/ [p EXCEPT !.at = now.at] = now
             THEN Returns(c, e, "done")
             ELSE Goes(c, [Nobody EXCEPT !.pc = "project", !.exec = e, !.proj = p,
                                         !.base = exec[e].version])
    /\ UNCHANGED <<rows, starts, deaths>>

\* update_projection's WHERE id = ? AND version = ?
Unchanged_Always(c) == TRUE
Unchanged(c) == exec[caller[c].exec].version = caller[c].base

Project(c) ==
    LET e == caller[c].exec IN
    /\ caller[c].pc = "project"
    /\ \/ /\ Unchanged(c)
          /\ exec' = [exec EXCEPT ![e].proj = caller[c].proj, ![e].version = @ + 1]
          /\ Answers_(c, "done")
       \/ /\ ~Unchanged(c)
          /\ Answers_(c, "error")
          /\ UNCHANGED exec
    /\ UNCHANGED <<work, dispatch, input, final, evidence, starts, calls, deaths>>

\* finalize_execution: everything is read again inside the transaction that
\* writes the terminal projection, the evidence and the receipt.
Finalize(e, k, o, fresh, at, about) ==
    /\ Exists(e)
    /\ final[e] = NULL /\ ~Terminal(e)
    /\ ~KeyTaken(k)
    /\ about \subseteq input[e]
    /\ exec' = [exec EXCEPT ![e].version = @ + 1,
                  ![e].proj = [phase |-> "terminal", outcome |-> o, fresh |-> fresh,
                               at |-> at]]
    /\ final' = [final EXCEPT ![e] = [key |-> k, outcome |-> o, about |-> about]]
    /\ evidence' = [evidence EXCEPT ![e] = @ \cup about]
    /\ UNCHANGED <<work, dispatch, input, caller, starts, calls, deaths>>

\* record_resource_observations: the whole batch or nothing, also after the end.
RecordEvidence(e, about) ==
    /\ Exists(e)
    /\ about # {} /\ about \subseteq input[e]
    /\ evidence' = [evidence EXCEPT ![e] = @ \cup about]
    /\ UNCHANGED <<work, exec, dispatch, input, final, caller, starts, calls, deaths>>

-----------------------------------------------------------------------------
(* Failure *)

\* A step of the call raises: a full disk, a locked database, a lost provider.
Raise(c) ==
    /\ caller[c].pc # "idle"
    /\ Answers_(c, "error")
    /\ UNCHANGED <<rows, starts, calls, deaths>>

\* The process dies and comes back with the rows and no calls.
Die ==
    /\ deaths < MaxDeaths
    /\ deaths' = deaths + 1
    /\ caller' = [c \in Callers |-> Nobody]
    /\ UNCHANGED <<rows, starts, calls>>

-----------------------------------------------------------------------------

Step(c) ==
    \/ UpdateWork(c) \/ Freeze(c) \/ Resolve(c) \/ StartProvider(c) \/ RecordStart(c)
    \/ Project(c) \/ Raise(c)

Next ==
    \/ \E w \in Works : CreateWork(w) \/ \E e \in Execs : CreateExecution(e, w)
    \/ \E e \in Execs, i \in Inputs : AttachInput(e, i)
    \/ \E c \in Callers :
          \/ Step(c)
          \/ \E w \in Works, to \in {"close", "reopen"} : ReadWork(c, w, to)
          \/ \E e \in Execs, k \in Keys, I \in InputSets : Dispatch(c, e, k, I)
          \/ \E e \in Execs, p \in Projection : Observe(c, e, p)
    \/ \E e \in Execs, about \in SUBSET Inputs :
          \/ RecordEvidence(e, about)
          \/ \E k \in Keys, o \in Outcomes, fresh \in Freshness, at \in Times :
                Finalize(e, k, o, fresh, at, about)
    \/ Die

Spec == Init /\ [][Next]_vars

-----------------------------------------------------------------------------
(* What the Work Core promises *)

\* Whatever its callers do, the core keeps StartPromise: inputs fixed once, at most
\* one native start, a verdict that is true and final, an outcome written once.
Promise == INSTANCE StartPromise WITH
    given   <- [e \in Execs |-> IF Dispatched(e) THEN input[e] ELSE NULL],
    verdict <- [e \in Execs |-> IF dispatch[e].state \in {"accepted", "failed"}
                                THEN dispatch[e].state ELSE "open"],
    seal    <- [e \in Execs |-> IF Terminal(e) THEN exec[e].proj.outcome ELSE NULL],
    InputSets <- SUBSET Inputs

KeepsStartPromise == Promise!Spec

\* The answer a dispatching caller holds is true of the world, also when it is a
\* replay by another caller after a death: accepted says that the execution was
\* started, failed that it was not and never will be.
AnswersAreTrue ==
    \A c \in Callers : caller[c].exec # NULL =>
        /\ caller[c].answer = "accepted" => starts[caller[c].exec] = 1
        /\ caller[c].answer = "failed" => starts[caller[c].exec] = 0

\* An observation computed from a row that has changed since is not written: no
\* projection goes back in its provider's time, and a sealed outcome stays.
HistoryIsKept ==
    [][\A e \in Execs : Exists(e) =>
          /\ final'[e] = final[e] => exec'[e].proj.at >= exec[e].proj.at
          /\ Terminal(e) => /\ exec'[e].proj.phase = "terminal"
                            /\ exec'[e].proj.outcome = exec[e].proj.outcome]_vars
=============================================================================
