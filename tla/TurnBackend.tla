------------------------------- MODULE TurnBackend -------------------------------
(***************************************************************************)
(* How a turn is carried from its acceptance to its end: the thread that   *)
(* files its core records and accepts it, the completion worker that waits *)
(* for its prompt and writes how it ended into the Work Core and then into *)
(* the ledger, the successor that the worker takes on, and the shutdown    *)
(* that works beside them.  The rows of the Work Core are those of         *)
(* WorkCore, which this module extends: a turn files one work and one      *)
(* execution, so Works = Execs = Callers = Turns.                          *)
(*                                                                         *)
(* The turns are those of one session.  Every durable step of a thread can *)
(* raise (Fault), and the process can die between any two of them.         *)
(***************************************************************************)
EXTENDS WorkCore

CONSTANTS
    Turns,
    Frozen,        \* the resolved inputs of every dispatch, a member of InputSets
    Succeeded, Cancelled,
    ExecutionKey(_), FinalKey(_, _),   \* the keys a turn brings to the core
    MaxFaults      \* bound: steps that raise

ASSUME BackendAssumption ==
    /\ Works = Turns /\ Execs = Turns /\ Callers = Turns
    /\ Frozen \in InputSets
    /\ Outcomes = {Succeeded, Cancelled} /\ Succeeded # Cancelled
    /\ \A t \in Turns : /\ ExecutionKey(t) \in Keys
                        /\ \A o \in Outcomes : FinalKey(t, o) \in Keys
    /\ MaxFaults \in Nat

VARIABLES
    turn,       \* server_turns.state; "waiting" and "paused" are its queue item's
    linked,     \* the turn's row carries its work and its execution
    at,         \* what the turn's thread does next
    heir,       \* the successor the completion worker holds: next_execution_id
    held,       \* the process's tables that name the turn
    prompt,     \* the native prompt
    confirmed,  \* _Run.cancel_confirmed
    server,     \* the runtime
    snapshot,   \* stop(): the active runs it saw first
    faults

backend == <<turn, linked, at, heir, held, prompt, confirmed>>
runtime == <<server, snapshot>>
tvars == <<vars, backend, runtime, faults>>

Active == {"accepted", "running"}
Ended == {"completed", "failed", "cancelled", "unknown"}
Filing == {"work", "execution", "link"}
Accepting == {"bind", "dispatch", "record", "register", "launch", "reject"}
Completing == {"wait", "seal cancelled", "finish", "seal succeeded", "complete", "adopt",
               "close work", "closing", "fail", "fail cancelled", "cleanup", "retire",
               "succeed", "carry"}

TurnTypeOK ==
    /\ TypeOK
    /\ turn \in [Turns -> {"absent", "waiting", "paused"} \cup Active \cup Ended]
    /\ linked \in [Turns -> BOOLEAN]
    /\ at \in [Turns -> {"none", "filed"} \cup Filing \cup Accepting \cup Completing]
    /\ heir \in [Turns -> Turns \cup {NULL}]
    /\ held \in [Turns -> SUBSET {"context", "inputs", "handle", "active"}]
    /\ prompt \in [Turns -> {"none", "running", "ended", "cancelled", "error", "stopped"}]
    /\ confirmed \in [Turns -> BOOLEAN]
    /\ server \in {"up", "stopping", "stopped", "stuck", "down"}
    /\ snapshot \subseteq Turns
    /\ faults \in 0..MaxFaults

TurnInit ==
    /\ Init
    /\ turn = [t \in Turns |-> "absent"]
    /\ linked = [t \in Turns |-> FALSE]
    /\ at = [t \in Turns |-> "none"]
    /\ heir = [t \in Turns |-> NULL]
    /\ held = [t \in Turns |-> {}]
    /\ prompt = [t \in Turns |-> "none"]
    /\ confirmed = [t \in Turns |-> FALSE]
    /\ server = "up" /\ snapshot = {}
    /\ faults = 0

-----------------------------------------------------------------------------
(* The threads *)

Lives == server \in {"up", "stopping", "stopped", "stuck"}    \* the process runs
Goto(t, step) == at' = [at EXCEPT ![t] = step]
Advance(t, from, to) == Lives /\ at[t] = from /\ Goto(t, to)

\* The worker that adopts or accepts t, if it is not a request thread.
Carriers(t) == {p \in Turns : at[p] \in {"adopt", "carry"} /\ heir[p] = t}

Busy(t) == at[t] \notin {"none", "filed"}
Workers == {t \in Turns : at[t] \in Completing}

-----------------------------------------------------------------------------
(* Acceptance and filing *)

\* create_turn or accept_intent commits a turn, or queues the message behind the
\* session's active one; the request thread goes on with the turn it started.
Send(t) ==
    /\ server = "up"
    /\ turn[t] = "absent"
    /\ IF \E u \in Turns : turn[u] \in Active
       THEN turn' = [turn EXCEPT ![t] = "waiting"] /\ UNCHANGED at
       ELSE turn' = [turn EXCEPT ![t] = "accepted"] /\ Goto(t, "work")
    /\ UNCHANGED <<vars, linked, heir, held, prompt, confirmed, runtime, faults>>

FileWork(t) ==
    /\ Advance(t, "work", "execution")
    /\ CreateWork(t)
    /\ UNCHANGED <<turn, linked, heir, held, prompt, confirmed, runtime, faults>>

FileExecution(t) ==
    /\ Advance(t, "execution", "link")
    /\ CreateExecution(t, t)
    /\ UNCHANGED <<turn, linked, heir, held, prompt, confirmed, runtime, faults>>

\* set_turn_dispatch(state="accepted"): the state is overwritten as it stands.  A
\* request thread goes on to accept; a worker first finishes its own turn.
Link(t) ==
    /\ Advance(t, "link", IF Carriers(t) = {} THEN "bind" ELSE "filed")
    /\ linked' = [linked EXCEPT ![t] = TRUE]
    /\ turn' = [turn EXCEPT ![t] = "accepted"]
    /\ UNCHANGED <<vars, heir, held, prompt, confirmed, runtime, faults>>

\* A filing that raises: a request thread swallows it, and in a worker it leaves
\* complete_turn after the commit, before next_execution_id is assigned.
FilingFails(t) ==
    /\ Lives /\ at[t] \in Filing
    /\ faults < MaxFaults /\ faults' = faults + 1
    /\ at' = [u \in Turns |-> IF u = t THEN "none"
                              ELSE IF u \in Carriers(t) THEN "fail" ELSE at[u]]
    /\ heir' = [u \in Turns |-> IF u \in Carriers(t) THEN NULL ELSE heir[u]]
    /\ UNCHANGED <<vars, turn, linked, held, prompt, confirmed, runtime>>

-----------------------------------------------------------------------------
(* SidecarBackend.accept *)

\* The context is read and the inputs are bound, before accept's own handler: a
\* turn without its core identity, or whose objects cannot be read, is left as it is.
Bind(t) ==
    /\ Lives /\ at[t] = "bind"
    /\ \/ /\ linked[t]
          /\ held' = [held EXCEPT ![t] = @ \cup {"context", "inputs"}]
          /\ Goto(t, "dispatch")
          /\ UNCHANGED faults
       \/ /\ ~linked[t] \/ faults < MaxFaults
          /\ faults' = IF linked[t] THEN faults + 1 ELSE faults
          /\ Goto(t, "none")
          /\ UNCHANGED held
    /\ UNCHANGED <<vars, turn, linked, heir, prompt, confirmed, runtime>>

\* dispatch_execution under the turn's own key; its steps are those of WorkCore.
EnterDispatch(t) ==
    /\ Lives /\ at[t] = "dispatch"
    /\ caller[t] = Nobody
    /\ Dispatch(t, t, ExecutionKey(t), Frozen)
    /\ UNCHANGED <<backend, runtime, faults>>

\* _start_run: the port is opened and the prompt worker started; then the run is
\* put in the provider's table.
StartRun(t) ==
    /\ Lives
    /\ StartProvider(t)
    /\ IF caller'[t].pc = "accept"
       THEN /\ prompt' = [prompt EXCEPT ![t] = "running"]
            /\ held' = [held EXCEPT ![t] = @ \cup {"handle"}]
       ELSE UNCHANGED <<prompt, held>>
    /\ UNCHANGED <<turn, linked, at, heir, confirmed, runtime, faults>>

CoreStep(t) ==
    /\ Lives
    /\ Freeze(t) \/ Resolve(t) \/ RecordStart(t) \/ UpdateWork(t)
    /\ UNCHANGED <<backend, runtime, faults>>

CoreRaises(t) ==
    /\ Lives
    /\ faults < MaxFaults /\ faults' = faults + 1
    /\ Raise(t)
    /\ UNCHANGED <<backend, runtime>>

\* An answer other than a receipt is an exception for accept.
Dispatched_(t) ==
    /\ Lives /\ at[t] = "dispatch"
    /\ caller[t].pc = "idle" /\ caller[t].answer # "none"
    /\ Goto(t, IF caller[t].answer = "accepted" THEN "record" ELSE "reject")
    /\ caller' = [caller EXCEPT ![t] = Nobody]
    /\ UNCHANGED <<rows, starts, calls, deaths, turn, linked, heir, held, prompt, confirmed,
                   runtime, faults>>

\* set_turn_dispatch(state="running")
SetRunning(t) ==
    /\ Advance(t, "record", "register")
    /\ turn' = [turn EXCEPT ![t] = "running"]
    /\ UNCHANGED <<vars, linked, heir, held, prompt, confirmed, runtime, faults>>

Register(t) ==
    /\ Advance(t, "register", "launch")
    /\ held' = [held EXCEPT ![t] = @ \cup {"active"}]
    /\ UNCHANGED <<vars, turn, linked, heir, prompt, confirmed, runtime, faults>>

\* The completion worker runs, and accept returns.
Returned(t) == [p \in Turns |-> IF p \in Carriers(t) THEN "none" ELSE at[p]]

Launch(t) ==
    /\ Lives /\ at[t] = "launch"
    /\ at' = [Returned(t) EXCEPT ![t] = "wait"]
    /\ UNCHANGED <<vars, turn, linked, heir, held, prompt, confirmed, runtime, faults>>

AcceptRaises(t) ==
    /\ Lives /\ at[t] \in {"record", "register", "launch"}
    /\ faults < MaxFaults /\ faults' = faults + 1
    /\ Goto(t, "reject")
    /\ UNCHANGED <<vars, turn, linked, heir, held, prompt, confirmed, runtime>>

\* fail_turn and finish_cancelled end an active turn and pause what waits behind
\* it; on any other turn they change nothing.
Paused(t, state) == [u \in Turns |-> IF u = t THEN state
                                     ELSE IF turn[u] = "waiting" THEN "paused" ELSE turn[u]]
EndTurn_Always(t, state) == turn' = Paused(t, state)
EndTurn(t, state) == turn' = IF turn[t] \in Active THEN Paused(t, state) ELSE turn

\* accept's handler: the turn fails and its inputs are released.
Reject(t) ==
    /\ Lives /\ at[t] = "reject"
    /\ EndTurn(t, "failed")
    /\ held' = [held EXCEPT ![t] = @ \ {"inputs"}]
    /\ at' = [Returned(t) EXCEPT ![t] = "none"]
    /\ UNCHANGED <<vars, linked, heir, prompt, confirmed, runtime, faults>>

-----------------------------------------------------------------------------
(* The prompt, and stops of it (external: the harness; RunTracker has the race) *)

PromptEnds(t) ==
    /\ Lives /\ prompt[t] = "running"
    /\ \E how \in {"ended", "cancelled", "error", "stopped"} :
          prompt' = [prompt EXCEPT ![t] = how]
    /\ UNCHANGED <<vars, turn, linked, at, heir, held, confirmed, runtime, faults>>

ConfirmStop(t) ==
    /\ Lives /\ "active" \in held[t] /\ ~confirmed[t]
    /\ confirmed' = [confirmed EXCEPT ![t] = TRUE]
    /\ prompt' = [prompt EXCEPT ![t] = IF @ = "running" THEN "ended" ELSE @]
    /\ UNCHANGED <<vars, turn, linked, at, heir, held, runtime, faults>>

-----------------------------------------------------------------------------
(* SidecarBackend._complete *)

\* How the worker reads the run once its prompt is over.
Verdict(t) ==
    CASE confirmed[t] \/ prompt[t] = "cancelled" -> "seal cancelled"
      [] prompt[t] = "stopped"                   -> "fail cancelled"
      [] prompt[t] = "error"                     -> "fail"
      [] OTHER                                   -> "seal succeeded"

Decide(t) ==
    /\ prompt[t] # "running"
    /\ Advance(t, "wait", Verdict(t))
    /\ UNCHANGED <<vars, turn, linked, heir, held, prompt, confirmed, runtime, faults>>

\* apply_finalization: the Work Core first.
SealCore(t) ==
    /\ \/ /\ Advance(t, "seal cancelled", "finish")
          /\ Finalize(t, FinalKey(t, Cancelled), Cancelled, "stale", 0, {})
       \/ /\ Advance(t, "seal succeeded", "complete")
          /\ Finalize(t, FinalKey(t, Succeeded), Succeeded, "stale", 0, {})
    /\ UNCHANGED <<turn, linked, heir, held, prompt, confirmed, runtime, faults>>

\* Then the ledger.
FinishCancelled(t) ==
    /\ Advance(t, "finish", "close work") \/ Advance(t, "fail cancelled", "cleanup")
    /\ EndTurn(t, "cancelled")
    /\ UNCHANGED <<vars, linked, heir, held, prompt, confirmed, runtime, faults>>

Completable(t) == turn[t] = "running"

\* complete_turn: one transaction ends the turn and claims its successor, which is
\* filed before the call returns.
CompleteTurn(t) ==
    /\ Lives /\ at[t] = "complete"
    /\ \/ /\ Completable(t)
          /\ \/ \E u \in Turns :
                   /\ turn[u] = "waiting"
                   /\ turn' = [turn EXCEPT ![t] = "completed", ![u] = "accepted"]
                   /\ heir' = [heir EXCEPT ![t] = u]
                   /\ at' = [at EXCEPT ![t] = "adopt", ![u] = "work"]
             \/ /\ \A u \in Turns : turn[u] # "waiting"
                /\ turn' = [turn EXCEPT ![t] = "completed"]
                /\ Goto(t, "close work")
                /\ UNCHANGED heir
       \/ /\ ~Completable(t)
          /\ Goto(t, "fail")
          /\ UNCHANGED <<turn, heir>>
    /\ UNCHANGED <<vars, linked, held, prompt, confirmed, runtime, faults>>

Adopted(t) ==
    /\ heir[t] # NULL
    /\ at[heir[t]] = "filed"
    /\ Advance(t, "adopt", "close work")
    /\ UNCHANGED <<vars, turn, linked, heir, held, prompt, confirmed, runtime, faults>>

\* complete_work reads the work's version and then writes it; it answers when the
\* core's caller is done.
CloseWork(t) ==
    /\ Advance(t, "close work", "closing")
    /\ ReadWork(t, t, "close")
    /\ UNCHANGED <<turn, linked, heir, held, prompt, confirmed, runtime, faults>>

WorkClosed(t) ==
    /\ Lives /\ at[t] = "closing"
    /\ caller[t].pc = "idle"
    /\ Goto(t, IF caller[t].answer = "done" THEN "cleanup" ELSE "fail")
    /\ caller' = [caller EXCEPT ![t] = Nobody]
    /\ UNCHANGED <<rows, starts, calls, deaths, turn, linked, heir, held, prompt, confirmed,
                   runtime, faults>>

\* Where a step that raises leads: to the handler, and from the handler through the
\* finally clause, after which the successor is not accepted.
Handlers == {"fail", "fail cancelled"}
Landing_Swallowed(step) == IF step \in Handlers THEN "cleanup"
                           ELSE IF step = "seal succeeded" THEN "complete" ELSE "fail"
Landing_NoFinally(step) == IF step \in Handlers THEN "none" ELSE "fail"
Landing(step) == IF step \in Handlers THEN "cleanup" ELSE "fail"

CompletionRaises(t) ==
    /\ Lives
    /\ faults < MaxFaults /\ faults' = faults + 1
    /\ at[t] \in Handlers \cup {"seal cancelled", "finish", "seal succeeded", "complete",
                              "close work"}
    /\ Goto(t, Landing(at[t]))
    /\ heir' = IF at[t] \in Handlers THEN [heir EXCEPT ![t] = NULL] ELSE heir
    /\ UNCHANGED <<vars, turn, linked, held, prompt, confirmed, runtime>>

FailTurn(t) ==
    /\ Advance(t, "fail", "cleanup")
    /\ EndTurn(t, "failed")
    /\ UNCHANGED <<vars, linked, heir, held, prompt, confirmed, runtime, faults>>

\* Approvals, the native channel and the clean-up mark: none can raise past the end.
Cleanup(t) ==
    /\ Advance(t, "cleanup", "retire")
    /\ UNCHANGED <<vars, turn, linked, heir, held, prompt, confirmed, runtime, faults>>

\* _retire_run; nothing holds the _Run, its prompt or its flag any more.
Retire(t) ==
    /\ Advance(t, "retire", "succeed")
    /\ held' = [held EXCEPT ![t] = {}]
    /\ prompt' = [prompt EXCEPT ![t] = "none"]
    /\ confirmed' = [confirmed EXCEPT ![t] = FALSE]
    /\ UNCHANGED <<vars, turn, linked, heir, runtime, faults>>

\* The worker accepts its successor itself, and ends when accept has returned.
Owed_None(t) == {}
Owed(t) == {heir[t]} \ {NULL}

AcceptHeir(t) ==
    /\ Lives /\ at[t] = "succeed"
    /\ at' = [u \in Turns |-> IF u \in Owed(t) THEN "bind"
                              ELSE IF u = t THEN IF Owed(t) = {} THEN "none" ELSE "carry"
                              ELSE at[u]]
    /\ UNCHANGED <<vars, turn, linked, heir, held, prompt, confirmed, runtime, faults>>

\* accept raised before its handler (Bind); the worker swallows it.
HeirRefused(t) ==
    /\ heir[t] # NULL /\ at[heir[t]] = "none"
    /\ Advance(t, "carry", "none")
    /\ UNCHANGED <<vars, turn, linked, heir, held, prompt, confirmed, runtime, faults>>

-----------------------------------------------------------------------------
(* Shutdown, death and the next start *)

\* The HTTP server has no request left when the lifespan ends (external).
StopBegins ==
    /\ server = "up"
    /\ \A t \in Turns : at[t] \in Filing \cup Accepting => Carriers(t) # {}
    /\ server' = "stopping"
    /\ snapshot' = {t \in Turns : "active" \in held[t]}
    /\ UNCHANGED <<vars, backend, faults>>

\* Both waits have ended or run out; what stop() answers is read again under the
\* lock.  Then the Work Core's database is let go and the data root is released.
Quiescent_Snapshot == \A t \in snapshot : ~Busy(t)
Quiescent == Workers = {}

StopEnds ==
    /\ server = "stopping"
    /\ server' = IF (\A t \in snapshot : prompt[t] # "running") /\ Quiescent
                 THEN "stopped" ELSE "stuck"
    /\ snapshot' = {}
    /\ UNCHANGED <<vars, backend, faults>>

ProcessDies ==
    /\ Die
    /\ server' = "down" /\ snapshot' = {}
    /\ at' = [t \in Turns |-> "none"]
    /\ heir' = [t \in Turns |-> NULL]
    /\ held' = [t \in Turns |-> {}]
    /\ prompt' = [t \in Turns |-> "none"]
    /\ confirmed' = [t \in Turns |-> FALSE]
    /\ UNCHANGED <<turn, linked, faults>>

\* seal_interrupted_turns, before the first request.  The queue stays as it stood.
StartServer ==
    /\ server = "down"
    /\ server' = "up"
    /\ turn' = [t \in Turns |-> IF turn[t] \in Active THEN "unknown" ELSE turn[t]]
    /\ UNCHANGED <<vars, linked, at, heir, held, prompt, confirmed, snapshot, faults>>

-----------------------------------------------------------------------------

Accept(t) ==
    \/ FileWork(t) \/ FileExecution(t) \/ Link(t) \/ Bind(t) \/ EnterDispatch(t)
    \/ StartRun(t) \/ CoreStep(t) \/ Dispatched_(t) \/ SetRunning(t) \/ Register(t)
    \/ Launch(t) \/ Reject(t)

Complete(t) ==
    \/ Decide(t) \/ SealCore(t) \/ FinishCancelled(t) \/ CompleteTurn(t) \/ Adopted(t)
    \/ CloseWork(t) \/ WorkClosed(t) \/ FailTurn(t) \/ Cleanup(t) \/ Retire(t)
    \/ AcceptHeir(t) \/ HeirRefused(t)

Raises(t) == FilingFails(t) \/ CoreRaises(t) \/ AcceptRaises(t) \/ CompletionRaises(t)

TurnNext ==
    \/ \E t \in Turns : \/ Send(t) \/ Accept(t) \/ PromptEnds(t) \/ ConfirmStop(t)
                        \/ Complete(t) \/ Raises(t)
    \/ StopBegins \/ StopEnds \/ ProcessDies \/ StartServer

TurnSpec == TurnInit /\ [][TurnNext]_tvars

\* Threads run on, and a prompt has a timeout.
FairTurnSpec ==
    /\ TurnSpec
    /\ \A t \in Turns : WF_tvars(Accept(t) \/ Complete(t)) /\ WF_tvars(PromptEnds(t))

-----------------------------------------------------------------------------
(* What the two stores, the threads and the shutdown owe each other *)

\* The ledger never contradicts the Work Core, whichever of their writes raised
\* and whoever died between them: a completed turn is a started execution sealed as
\* succeeded, and an execution sealed as cancelled is not a completed turn.
RecordsAgree ==
    \A t \in Turns :
        LET sealed == IF Terminal(t) THEN exec[t].proj.outcome ELSE NULL IN
        /\ turn[t] = "completed" =>
              sealed = Succeeded /\ dispatch[t].state = "accepted" /\ starts[t] = 1
        /\ sealed = Cancelled => turn[t] # "completed"
        /\ sealed = Succeeded => turn[t] # "cancelled"

\* When stop() has answered that everything is done, no thread is left that could
\* still write: the database below it is about to be let go.
CleanStopIsQuiet == server = "stopped" => \A t \in Turns : ~Busy(t)

\* A turn is sent into the harness in one life of the server only: one that was
\* cut off is not dispatched by a later one.
SealedStaysDown ==
    [][\A t \in Turns : turn[t] \in Ended => starts'[t] = starts[t] /\ turn'[t] = turn[t]]_tvars

\* Whatever step of the completion raises, the worker comes to its end and the run
\* gives back what it holds.
RunsComeToRest ==
    \A t \in Turns : at[t] = "wait" ~> at[t] = "none" /\ held[t] = {}

\* As long as nothing raises or dies, every accepted turn is driven to its end,
\* the successor a worker took on as well.
TurnsAreDriven ==
    \A t \in Turns : turn[t] = "accepted" ~> turn[t] \in Ended \/ faults > 0 \/ deaths > 0
=============================================================================
