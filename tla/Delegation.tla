------------------------------- MODULE Delegation -------------------------------
(***************************************************************************)
(* Runs that call runs, and the one event loop that serves them.  Wire     *)
(* methods and the bridge of the delegation tools are coroutines that call *)
(* the services synchronously: the loop serves one at a time, and a call   *)
(* that waits (for a child's end, for the first run of a library) keeps    *)
(* everybody else waiting.  The REST cancel runs on a thread of its own.   *)
(*                                                                         *)
(* A turn is its row: SessionLedger has the transactions and TurnBackend   *)
(* the threads, which are one step here.                                   *)
(***************************************************************************)
EXTENDS Integers

CONSTANTS
    Turns, Roles,
    Grants,        \* <<role, role>>: which role may call which
    Exclusive,     \* roles whose home admits one active turn
    WholeDb,       \* roles of a family whose library needs an exclusive first run
    NULL,
    MaxStops,      \* bound: stops that users ask for
    MaxFaults      \* bound: inputs that cannot be bound

ASSUME DelegationAssumption ==
    /\ Grants \subseteq Roles \X Roles
    /\ Exclusive \subseteq Roles /\ WholeDb \subseteq Roles
    /\ NULL \notin Turns /\ NULL \notin Roles
    /\ MaxStops \in Nat /\ MaxFaults \in Nat

VARIABLES
    filing,     \* the port refuses a turn without core records: the backend's does,
                \* one that the tests inject does not
    turn,       \* rows: state, role, parent, session
    asked,      \* turns with stop_requested_at
    waits,      \* what the agent in a run waits for
    want,       \* the role its subagent call names, while the request is under way
    loop,       \* what the event loop is doing
    cascade,    \* stops under way, on the loop and on a REST thread
    stops,
    owner,      \* the run inside a library that is not ready
    ready,      \* libraries whose first run is over
    faults,
    late,       \* history: children inserted when every stop of the parent had read its own
    left        \* history: children of a turn that its stop found ended

vars == <<filing, turn, asked, waits, want, loop, cascade, stops, owner, ready, faults, late,
          left>>
ledger == <<turn, asked, late, faults>>
runs == <<waits, want>>
gate == <<owner, ready>>
stopping == <<cascade, stops, left>>

Active == {"accepted", "running"}
Live(t) == turn[t].state \in Active
Running(t) == turn[t].state = "running"

Cancellers == {"loop", "rest"}
Idle == [pc |-> "idle", turn |-> NULL, parent |-> NULL]
NoCascade == [look |-> {}, stop |-> {}, read |-> {}]

Rows     == [state : {"absent", "ended"} \cup Active, role : Roles \cup {NULL},
             parent : Turns \cup {NULL}, session : Turns \cup {NULL}]
Loops    == [pc : {"idle", "accept", "gate", "check", "insert", "await", "timeout", "stop"},
             turn : Turns \cup {NULL}, parent : Turns \cup {NULL}]
Cascades == [look : SUBSET Turns, stop : SUBSET Turns, read : SUBSET Turns]

TypeOK ==
    /\ filing \in BOOLEAN /\ turn \in [Turns -> Rows]
    /\ asked \subseteq Turns /\ late \subseteq Turns /\ left \subseteq Turns
    /\ waits \in [Turns -> {"nothing", "approval", "subagent"}]
    /\ want \in [Turns -> Roles \cup {NULL}]
    /\ loop \in Loops /\ cascade \in [Cancellers -> Cascades]
    /\ owner \in [Roles -> Turns \cup {NULL}] /\ ready \subseteq Roles
    /\ stops \in 0..MaxStops /\ faults \in 0..MaxFaults

Init ==
    /\ filing \in BOOLEAN
    /\ turn = [t \in Turns |-> [state |-> "absent", role |-> NULL, parent |-> NULL,
                                session |-> NULL]]
    /\ asked = {} /\ late = {} /\ left = {}
    /\ waits = [t \in Turns |-> "nothing"]
    /\ want = [t \in Turns |-> NULL]
    /\ loop = Idle
    /\ cascade = [k \in Cancellers |-> NoCascade]
    /\ owner = [r \in Roles |-> NULL] /\ ready = {}
    /\ stops = 0 /\ faults = 0

-----------------------------------------------------------------------------
(* The runs (external: the harness and the turn's own threads) *)

Calls(t, r) ==
    /\ Running(t) /\ waits[t] = "nothing"
    /\ \E other \in Roles : <<turn[t].role, other>> \in Grants     \* else no tools
    /\ waits' = [waits EXCEPT ![t] = "subagent"]
    /\ want' = [want EXCEPT ![t] = r]
    /\ UNCHANGED <<ledger, loop, stopping, gate>>

Asks(t) ==
    /\ Running(t) /\ waits[t] = "nothing"
    /\ waits' = [waits EXCEPT ![t] = "approval"]
    /\ UNCHANGED <<ledger, want, loop, stopping, gate>>

\* A run ends by itself when it waits for nothing, and at any time by a confirmed
\* stop or by the limit of its prompt.  Its library is free then; a request that it
\* had sent stays under way.
RunEnds(t) ==
    /\ Running(t)
    /\ turn' = [turn EXCEPT ![t].state = "ended"]
    /\ waits' = [waits EXCEPT ![t] = "nothing"]
    /\ owner' = [r \in Roles |-> IF owner[r] = t THEN NULL ELSE owner[r]]
    /\ ready' = ready \cup {r \in Roles : owner[r] = t}
    /\ UNCHANGED <<asked, late, faults, want, loop, stopping>>

-----------------------------------------------------------------------------
(* The loop: sessions.createAndSend, approvals.decide *)

\* Identifiers are opaque: which of the unused ones a row gets is all the same.
Unused(t) == /\ turn[t].state = "absent"
             /\ t = CHOOSE u \in Turns : turn[u].state = "absent"

Insert(t, r, p, s) ==
    turn' = [turn EXCEPT ![t] = [state |-> "accepted", role |-> r, parent |-> p, session |-> s]]

\* The rules of the ledger for a new active turn; a delegated one is inserted by
\* the delegation service under the same two.
Admissible(r, s) ==
    \A u \in Turns : Live(u) => /\ turn[u].session # s
                                /\ turn[u].role = r => r \notin Exclusive

WireSend(t, r) ==
    /\ loop = Idle
    /\ Unused(t) /\ Admissible(r, t)
    /\ Insert(t, r, NULL, t)
    /\ loop' = [Idle EXCEPT !.pc = "accept", !.turn = t]
    /\ UNCHANGED <<asked, late, faults, runs, stopping, gate>>

WireDecide(t) ==
    /\ loop = Idle
    /\ Running(t) /\ waits[t] = "approval"
    /\ waits' = [waits EXCEPT ![t] = "nothing"]
    /\ UNCHANGED <<ledger, want, loop, stopping, gate>>

\* accept returned or raised: a send is answered either way, a delegation goes on
\* to wait, or answers the error.
Answered == /\ loop' = Idle
            /\ want' = IF loop.parent = NULL THEN want ELSE [want EXCEPT ![loop.parent] = NULL]
            /\ waits' = IF loop.parent = NULL THEN waits
                        ELSE [waits EXCEPT ![loop.parent] = "nothing"]
AcceptReturns ==
    IF loop.parent = NULL THEN loop' = Idle ELSE loop' = [loop EXCEPT !.pc = "await"]

\* The core records of a send were filed by its handler; nobody files a child's.
Identified(t) == filing => turn[t].parent = NULL

\* What accept checks and binds before its own handler raises: the row stays as it is.
AcceptRefused ==
    /\ loop.pc = "accept"
    /\ \/ ~Identified(loop.turn) /\ UNCHANGED faults
       \/ /\ Identified(loop.turn)
          /\ faults < MaxFaults /\ faults' = faults + 1
    /\ Answered
    /\ UNCHANGED <<turn, asked, late, stopping, gate>>

\* FirstRunGate.acquire on the loop.
FirstRunOpen(r) == r \in WholeDb /\ r \notin ready
AcceptWaits ==
    /\ loop.pc = "accept" /\ Identified(loop.turn)
    /\ FirstRunOpen(turn[loop.turn].role) /\ owner[turn[loop.turn].role] # NULL
    /\ loop' = [loop EXCEPT !.pc = "gate"]
    /\ UNCHANGED <<ledger, runs, stopping, gate>>

\* The run starts, or accept's handler fails the turn and accept raises.
AcceptRuns ==
    LET t == loop.turn  r == turn[t].role IN
    /\ \/ loop.pc = "accept" /\ Identified(t) /\ (FirstRunOpen(r) => owner[r] = NULL)
       \/ loop.pc = "gate" /\ ~FirstRunOpen(r)
    /\ \/ /\ turn' = [turn EXCEPT ![t].state = "running"]
          /\ owner' = IF FirstRunOpen(r) THEN [owner EXCEPT ![r] = t] ELSE owner
          /\ AcceptReturns
          /\ UNCHANGED <<waits, want>>
       \/ /\ turn' = [turn EXCEPT ![t].state = "ended"]
          /\ Answered
          /\ UNCHANGED owner
    /\ UNCHANGED <<asked, late, faults, stopping, ready>>

GateExpires ==
    /\ loop.pc = "gate" /\ FirstRunOpen(turn[loop.turn].role)
    /\ turn' = [turn EXCEPT ![loop.turn].state = "ended"]
    /\ Answered
    /\ UNCHANGED <<asked, late, faults, stopping, gate>>

-----------------------------------------------------------------------------
(* The loop: DelegationService.run *)

ServeCall(t) ==
    /\ loop = Idle
    /\ want[t] # NULL
    /\ loop' = [pc |-> "check", turn |-> NULL, parent |-> t]
    /\ UNCHANGED <<ledger, runs, stopping, gate>>

\* turn_ancestry_profile_ids: the turns on the way up from a turn, and their roles with
\* its own.
Parents(us) == {turn[u].parent : u \in us} \ {NULL}
Above(t) ==
    {u \in Turns : \A us \in SUBSET Turns :
        Parents({t}) \cup Parents(us) \subseteq us => u \in us}
Ancestry_Parent(t) == {turn[t].role}
Ancestry(t) == {turn[u].role : u \in {t} \cup Above(t)}

\* The roster, the arguments and check_cycle; the state of the parent is not asked.
Callable(p, r) == <<turn[p].role, r>> \in Grants /\ r # turn[p].role /\ r \notin Ancestry(p)

CheckCall ==
    LET p == loop.parent IN
    /\ loop.pc = "check"
    /\ \/ /\ Callable(p, want[p])
          /\ loop' = [loop EXCEPT !.pc = "insert"]
          /\ UNCHANGED <<waits, want>>
       \/ /\ ~Callable(p, want[p])
          /\ Answered
    /\ UNCHANGED <<ledger, stopping, gate>>

\* A stop is under way that will read the children of a turn.
ToBeRead(t) == \E k \in Cancellers : t \in cascade[k].look \cup cascade[k].read

\* _resolve_child_session (a new session, or one of the same role by its task_id) and
\* the transaction of _create_child_turn.
Sessions(t, r) == {t} \cup {turn[u].session : u \in {v \in Turns : turn[v].role = r}}

InsertChild ==
    LET p == loop.parent  r == want[p] IN
    /\ loop.pc = "insert"
    /\ \E t \in Turns : Unused(t) /\ \E s \in Sessions(t, r) :
          IF Admissible(r, s)
          THEN /\ Insert(t, r, p, s)
               /\ late' = IF p \in asked /\ ~ToBeRead(p) THEN late \cup {t} ELSE late
               /\ loop' = [loop EXCEPT !.pc = "accept", !.turn = t]
               /\ UNCHANGED <<waits, want>>
          ELSE Answered /\ UNCHANGED <<turn, late>>
    /\ UNCHANGED <<asked, faults, stopping, gate>>

\* Bound: no row is left for another child.
TurnsUsedUp ==
    /\ loop.pc = "insert"
    /\ \A t \in Turns : turn[t].state # "absent"
    /\ Answered
    /\ UNCHANGED <<ledger, stopping, gate>>

ChildEnded ==
    /\ loop.pc = "await" /\ turn[loop.turn].state = "ended"
    /\ Answered
    /\ UNCHANGED <<ledger, stopping, gate>>

\* record_cancel_request: a turn that has ended is left alone.
Request(t) == asked' = IF Live(t) THEN asked \cup {t} ELSE asked

\* The deadline, at most ten minutes: the child is cancelled like any turn, and the
\* call answers SUBAGENT_TIMEOUT once that is done.
Patient_Forever == FALSE
Patient == loop.pc = "await"

DeadlinePasses ==
    /\ Patient
    /\ loop' = [loop EXCEPT !.pc = "timeout"]
    /\ Request(loop.turn)
    /\ cascade' = [cascade EXCEPT !["loop"].look = {loop.turn}]
    /\ UNCHANGED <<turn, late, left, faults, runs, gate, stops>>

-----------------------------------------------------------------------------
(* Stops: runs.stop on the loop, the REST cancel on a thread *)

Done(k) == cascade[k] = NoCascade

WireStop(t) ==
    /\ loop = Idle /\ Live(t)
    /\ loop' = [Idle EXCEPT !.pc = "stop", !.turn = t]
    /\ cascade' = [cascade EXCEPT !["loop"].stop = {t}]
    /\ stops < MaxStops /\ stops' = stops + 1
    /\ UNCHANGED <<ledger, left, runs, gate>>

\* cancel_turn records the request, and then reads the row again: a turn that has ended
\* meanwhile has nothing to stop, and its children are left to themselves.
RestStop(t) ==
    /\ Done("rest") /\ Live(t)
    /\ Request(t)
    /\ cascade' = [cascade EXCEPT !["rest"].look = {t}]
    /\ stops < MaxStops /\ stops' = stops + 1
    /\ UNCHANGED <<turn, late, left, faults, runs, loop, gate>>

\* live_child_turn_ids
Children_OfRunning(t) == {c \in Turns : turn[c].parent = t /\ Live(c) /\ Live(t)}
Children(t) == {c \in Turns : turn[c].parent = t /\ Live(c)}

Look(k, t) ==
    /\ t \in cascade[k].look
    /\ IF Live(t)
       THEN cascade' = [cascade EXCEPT ![k] = [NoCascade EXCEPT !.read = {t}]] /\ left' = left
       ELSE cascade' = [cascade EXCEPT ![k] = NoCascade] /\ left' = left \cup Children(t)
    /\ UNCHANGED <<ledger, runs, loop, stops, gate>>

\* record_cancel_request and cancel_execution of one turn, which may end a run (that
\* is RunEnds).  Its children are next, whatever the answer was.
Stop(k, t) ==
    /\ t \in cascade[k].stop
    /\ Request(t)
    /\ cascade' = [cascade EXCEPT ![k].stop = @ \ {t}, ![k].read = @ \cup {t}]
    /\ UNCHANGED <<turn, late, left, faults, waits, want, loop, stops, gate>>

ReadChildren(k, t) ==
    /\ t \in cascade[k].read
    /\ cascade' = [cascade EXCEPT ![k].stop = @ \cup Children(t), ![k].read = @ \ {t}]
    /\ UNCHANGED <<ledger, left, runs, loop, stops, gate>>

StopAnswered ==
    /\ loop.pc \in {"stop", "timeout"} /\ Done("loop")
    /\ Answered
    /\ UNCHANGED <<ledger, stopping, gate>>

-----------------------------------------------------------------------------

Serve ==
    \/ AcceptRefused \/ AcceptWaits \/ AcceptRuns \/ GateExpires \/ CheckCall \/ InsertChild
    \/ TurnsUsedUp \/ ChildEnded \/ DeadlinePasses \/ StopAnswered
    \/ \E t \in Turns : Look("loop", t) \/ Stop("loop", t) \/ ReadChildren("loop", t)

Act ==
    \/ \E t \in Turns : \/ Asks(t) \/ RunEnds(t)
                        \/ WireDecide(t) \/ ServeCall(t) \/ WireStop(t) \/ RestStop(t)
                        \/ Look("rest", t) \/ Stop("rest", t) \/ ReadChildren("rest", t)
                        \/ \E r \in Roles : Calls(t, r) \/ WireSend(t, r)
    \/ Serve

Next == Act /\ UNCHANGED filing

Spec == Init /\ [][Next]_vars

\* The loop runs on: each of its waits has a deadline.
FairSpec == Spec /\ WF_vars(Serve /\ UNCHANGED filing)

-----------------------------------------------------------------------------
(* What delegation promises *)

\* No role waits for itself: the roles on the way up from any turn are different, though
\* roles may be granted to each other and a chain grows one call at a time.
RolesWaitOnce ==
    \A t \in Turns : \A u \in Above(t) : turn[u].role # turn[t].role

\* A stop takes the whole family, also after the stopped turn has ended: an active child
\* of a turn that was asked to stop has been asked too, or a stop under way still has to
\* read its parent's children or to ask it.  The exceptions are two: a child inserted
\* when all of that was over, and one of a turn that cancel_turn found ended when it read
\* the row again after the request.
Spared(c) ==
    LET p == turn[c].parent IN
    /\ Live(c) /\ p # NULL /\ p \in asked /\ ~ToBeRead(p)
    /\ c \notin asked \cup late \cup left
    /\ \A k \in Cancellers : c \notin cascade[k].stop

StopsReachChildren == \A c \in Turns : ~Spared(c)

\* Whatever a call waits for, also for its own child, the loop comes free again.
LoopComesFree == loop # Idle ~> loop = Idle
=============================================================================
