------------------------------- MODULE Approvals -------------------------------
(***************************************************************************)
(* Permissions that a harness asks for while it runs a turn.  Four kinds   *)
(* of thread meet at one approval:                                         *)
(*   - the reader of the sidecar's channel stores the request as a row     *)
(*     (which publishes it), then registers the route for the answer in    *)
(*     the port, then enters the port in the backend's table;              *)
(*   - threads of approvals.decide commit a decision and only then look    *)
(*     for the port, take the route and write the answer;                  *)
(*   - the turn's threads open the session, may rebuild it under the       *)
(*     prompt, and at its end invalidate, close and retire;                *)
(*   - the death of the process.                                           *)
(* A port serves one turn, or, for a native agent, all turns of a session  *)
(* over one channel that stays open; its events then go to the turn that   *)
(* was opened last.  Left out: the scope and text of a request, the events *)
(* in the session's log, and the version (a row is at version 1 for as     *)
(* long as it is open, so the comparison never tells two deciders apart).  *)
(***************************************************************************)
EXTENDS Integers, FiniteSets

CONSTANTS
    Turns, Ports,
    PortOf,         \* the port of each turn
    Rows,           \* identifiers of approvals
    Calls,          \* threads that serve one approvals.decide each
    RequestIds,     \* requestIds of decisions; a retry repeats one
    Decisions,
    NULL,
    RebuildLimit,   \* PROMPT_REBUILD_LIMIT
    MaxRestarts     \* bound: process deaths

ASSUME ApprovalAssumption ==
    /\ PortOf \in [Turns -> Ports]
    /\ NULL \notin Turns \cup RequestIds \cup Decisions \cup Rows
    /\ RebuildLimit \in Nat /\ MaxRestarts \in Nat

VARIABLES
    row,        \* server_approvals
    stage,      \* per turn: how far its threads are
    cleanup,    \* turns whose invalidation raised: cleanup_state failed
    current,    \* per port: _current, the turn its events belong to
    sessions,   \* turns with a session in their port (_sessions)
    reader,     \* per approval: how far the reader is with it
    route,      \* approvals with a route in their port (_approvals)
    ports,      \* approvals in the backend's _approval_ports
    call,       \* threads of approvals.decide
    answered,   \* history: per approval, the decisions its harness was sent
    rebuilds, restarts

turns   == <<stage, cleanup, current, sessions, rebuilds>>
routing == <<reader, route, ports>>
deciding == <<call, answered>>
vars == <<row, turns, routing, deciding, restarts>>

Absent == [state |-> "absent", turn |-> NULL, decision |-> NULL, rid |-> NULL]
Idle   == [pc |-> "idle", row |-> NULL, decision |-> NULL]

Row == [state : {"absent", "open", "settled", "invalid"}, turn : Turns \cup {NULL},
        decision : Decisions \cup {NULL}, rid : RequestIds \cup {NULL}]
CallRow == [pc : {"idle", "lookup", "pop", "require", "write", "done"},
            row : Rows \cup {NULL}, decision : Decisions \cup {NULL}]

TypeOK ==
    /\ row \in [Rows -> Row]
    /\ stage \in [Turns -> {"new", "opening", "running", "ended", "invalidated",
                            "closed", "retired", "refused", "sealed"}]
    /\ cleanup \subseteq Turns
    /\ current \in [Ports -> Turns \cup {NULL}]
    /\ sessions \subseteq Turns
    /\ reader \in [Rows -> {"none", "stored", "registered", "over"}]
    /\ route \subseteq Rows /\ ports \subseteq Rows
    /\ call \in [Calls -> CallRow]
    /\ answered \in [Rows -> SUBSET (Calls \X Decisions)]
    /\ rebuilds \in [Turns -> 0..RebuildLimit] /\ restarts \in 0..MaxRestarts

Init ==
    /\ row = [a \in Rows |-> Absent]
    /\ stage = [t \in Turns |-> "new"] /\ cleanup = {}
    /\ current = [p \in Ports |-> NULL] /\ sessions = {}
    /\ reader = [a \in Rows |-> "none"] /\ route = {} /\ ports = {}
    /\ call = [c \in Calls |-> Idle] /\ answered = [a \in Rows |-> {}]
    /\ rebuilds = [t \in Turns |-> 0] /\ restarts = 0

\* The turn's row is in a terminal state.
Ended(t) == stage[t] \notin {"new", "opening", "running"}

RowsOf(t) == {a \in Rows : row[a].turn = t}
OpenOf(t) == {a \in RowsOf(t) : row[a].state = "open"}

\* UPDATE ... SET state='invalid' over a set of rows.
MadeInvalid(as) == [a \in Rows |-> IF a \in as THEN [row[a] EXCEPT !.state = "invalid"]
                                   ELSE row[a]]

-----------------------------------------------------------------------------
(* The reader of a port's channel *)

\* _native_event stores the request for the port's current turn, whatever state
\* that turn is in; a request without an id of its own gets no route.  After a rebuild the old channel's reader may be at work
\* beside the new one's, and lines read before a close are still served: the
\* requests of a turn are put in no sequence.
Ask(p, a) ==
    /\ current[p] # NULL
    /\ row[a].state = "absent"
    /\ row' = [row EXCEPT ![a] = [Absent EXCEPT !.state = "open", !.turn = current[p]]]
    /\ \E pc \in {"stored", "over"} : reader' = [reader EXCEPT ![a] = pc]
    /\ UNCHANGED <<turns, route, ports, deciding, restarts>>

Registrable(t) == t \in sessions

\* register_approval: the session is looked up and the route entered under one
\* hold of the port's lock; a turn without a session raises EXECUTION_UNKNOWN.
RegisterRoute(a) ==
    /\ reader[a] = "stored"
    /\ \/ /\ Registrable(row[a].turn)
          /\ route' = route \cup {a}
          /\ reader' = [reader EXCEPT ![a] = "registered"]
       \/ /\ ~Registrable(row[a].turn)
          /\ reader' = [reader EXCEPT ![a] = "over"]
          /\ UNCHANGED route
    /\ UNCHANGED <<row, turns, ports, deciding, restarts>>

EnterPort(a) ==
    /\ reader[a] = "registered"
    /\ reader' = [reader EXCEPT ![a] = "over"]
    /\ ports' = ports \cup {a}
    /\ UNCHANGED <<row, turns, route, deciding, restarts>>

-----------------------------------------------------------------------------
(* approvals.decide *)

\* What the transaction answers, in the order of its checks.
Outcome(a, rid) ==
    CASE row[a].rid = rid         -> "already_recorded"
      [] row[a].rid # rid /\ row[a].state # "open" -> "invalid"
      [] row[a].state = "open" /\ Ended(row[a].turn) -> "not_actionable"
      [] OTHER                    -> "recorded"

\* Only a decision that was recorded by this call goes on to the port.
Delivers_Repeats(outcome) == outcome \in {"recorded", "already_recorded"}
Delivers(outcome) == outcome = "recorded"

Decide(c, a, rid, d) ==
    LET outcome == Outcome(a, rid) IN
    /\ call[c].pc = "idle"
    /\ row[a].state # "absent"
    /\ row' = CASE outcome = "recorded" ->
                     [row EXCEPT ![a] = [@ EXCEPT !.state = "settled", !.decision = d,
                                                  !.rid = rid]]
                [] outcome = "not_actionable" -> MadeInvalid({a})
                [] OTHER -> row
    /\ call' = [call EXCEPT ![c] = [pc |-> IF Delivers(outcome) THEN "lookup" ELSE "done",
                                    row |-> a, decision |-> d]]
    /\ UNCHANGED <<turns, routing, answered, restarts>>

\* A call goes on, or is over: with its answer, or with an error for its client.
GoOn(c, pc) == call' = [call EXCEPT ![c].pc = pc]

\* SidecarBackend.decide_approval: no port, no delivery and no error.
LookUp(c) ==
    /\ call[c].pc = "lookup"
    /\ GoOn(c, IF call[c].row \in ports THEN "pop" ELSE "done")
    /\ UNCHANGED <<row, turns, routing, answered, restarts>>

\* SidecarHarnessPort.decide_approval: the route is taken.
TakeRoute(c) ==
    /\ call[c].pc = "pop"
    /\ GoOn(c, IF call[c].row \in route THEN "require" ELSE "done")
    /\ route' = route \ {call[c].row}
    /\ UNCHANGED <<row, turns, reader, ports, answered, restarts>>

Require(c) ==
    /\ call[c].pc = "require"
    /\ GoOn(c, IF row[call[c].row].turn \in sessions THEN "write" ELSE "done")
    /\ UNCHANGED <<row, turns, routing, answered, restarts>>

\* The answer is written, or the channel has closed meanwhile.
Write(c) ==
    /\ call[c].pc = "write"
    /\ GoOn(c, "done")
    /\ \/ answered' = [answered EXCEPT ![call[c].row] = @ \cup {<<c, call[c].decision>>}]
       \/ UNCHANGED answered
    /\ UNCHANGED <<row, turns, routing, restarts>>

-----------------------------------------------------------------------------
(* The turn's threads *)

\* accept(): open_execution makes the turn the port's current one.  Turns of one
\* port are turns of one session, of which the ledger has one active at a time.
Begin(t) ==
    /\ stage[t] = "new"
    /\ \A u \in Turns \ {t} : PortOf[u] = PortOf[t] => stage[u] = "new" \/ Ended(u)
    /\ stage' = [stage EXCEPT ![t] = "opening"]
    /\ current' = [current EXCEPT ![PortOf[t]] = t]
    /\ UNCHANGED <<row, cleanup, sessions, rebuilds, routing, deciding, restarts>>

\* The session is in the port; the turn is its current one since Begin.
OpenExecution(t) ==
    /\ stage[t] = "opening"
    /\ stage' = [stage EXCEPT ![t] = "running"]
    /\ sessions' = sessions \cup {t}
    /\ UNCHANGED <<row, cleanup, current, rebuilds, routing, deciding, restarts>>

\* accept()'s handler fails the turn and looks at nothing else.
AcceptFails(t) ==
    /\ stage[t] \in {"opening", "running"} /\ rebuilds[t] = 0
    /\ stage' = [stage EXCEPT ![t] = "refused"]
    /\ UNCHANGED <<row, cleanup, current, sessions, rebuilds, routing, deciding, restarts>>

MayRebuild(t) == rebuilds[t] < RebuildLimit

\* _prompt_with_rebuild closes the execution and opens it again.  That a native port
\* whose channel has exited refuses to open is left out: any port may reopen.
Rebuild(t) ==
    /\ stage[t] = "running"
    /\ MayRebuild(t)
    /\ rebuilds' = [rebuilds EXCEPT ![t] = @ + 1]
    /\ stage' = [stage EXCEPT ![t] = "opening"]
    /\ sessions' = sessions \ {t}
    /\ route' = route \ RowsOf(t)
    /\ UNCHANGED <<row, cleanup, current, reader, ports, deciding, restarts>>

\* _complete persists the turn's end; a rebuild that cannot open is an end too.
Persist(t) ==
    /\ \/ stage[t] = "running"
       \/ stage[t] = "opening" /\ rebuilds[t] > 0
    /\ stage' = [stage EXCEPT ![t] = "ended"]
    /\ UNCHANGED <<row, cleanup, current, sessions, rebuilds, routing, deciding, restarts>>

\* invalidate_for_execution, or its exception, which leaves a mark.
Invalidated_None(t) == {}
Invalidated(t) == OpenOf(t)

Invalidate(t) ==
    /\ stage[t] = "ended"
    /\ stage' = [stage EXCEPT ![t] = "invalidated"]
    /\ \/ row' = MadeInvalid(Invalidated(t)) /\ UNCHANGED cleanup
       \/ cleanup' = cleanup \cup {t} /\ UNCHANGED row
    /\ UNCHANGED <<current, sessions, rebuilds, routing, deciding, restarts>>

CloseExecution(t) ==
    /\ stage[t] = "invalidated"
    /\ stage' = [stage EXCEPT ![t] = "closed"]
    /\ sessions' = sessions \ {t}
    /\ route' = route \ RowsOf(t)
    /\ UNCHANGED <<row, cleanup, current, rebuilds, reader, ports, deciding, restarts>>

\* _retire_run forgets every approval of the run's port.
Retire(t) ==
    /\ stage[t] = "closed"
    /\ stage' = [stage EXCEPT ![t] = "retired"]
    /\ ports' = {a \in ports : PortOf[row[a].turn] # PortOf[t]}
    /\ UNCHANGED <<row, cleanup, current, sessions, rebuilds, reader, route, deciding, restarts>>

\* The process dies, and the next one seals the active turns; nothing in it
\* looks at the approvals.
Restart ==
    /\ restarts < MaxRestarts
    /\ restarts' = restarts + 1
    /\ stage' = [t \in Turns |-> IF stage[t] = "new" THEN "new" ELSE "sealed"]
    /\ current' = [p \in Ports |-> NULL] /\ sessions' = {}
    /\ reader' = [a \in Rows |-> IF reader[a] = "none" THEN "none" ELSE "over"]
    /\ route' = {} /\ ports' = {}
    /\ call' = [c \in Calls |-> IF call[c].pc = "idle" THEN call[c]
                                ELSE [call[c] EXCEPT !.pc = "done"]]
    /\ UNCHANGED <<row, cleanup, rebuilds, answered>>

-----------------------------------------------------------------------------

Reader == \E a \in Rows : RegisterRoute(a) \/ EnterPort(a) \/ \E p \in Ports : Ask(p, a)
Deliver(c) == LookUp(c) \/ TakeRoute(c) \/ Require(c) \/ Write(c)
Worker(t) == \/ OpenExecution(t) \/ AcceptFails(t) \/ Persist(t) \/ Invalidate(t)
             \/ CloseExecution(t) \/ Retire(t)

Next ==
    \/ Reader
    \/ \E c \in Calls : \/ Deliver(c)
                        \/ \E a \in Rows, rid \in RequestIds, d \in Decisions :
                              Decide(c, a, rid, d)
    \/ \E t \in Turns : Begin(t) \/ Rebuild(t) \/ Worker(t)
    \/ Restart

Spec == Init /\ [][Next]_vars

\* An execution opens or fails, a prompt ends (both by their timeouts at the latest),
\* and the completion worker runs on.
FairSpec == Spec /\ \A t \in Turns : WF_vars(Worker(t))

-----------------------------------------------------------------------------
(* What an approval promises *)

\* A harness is answered at most once per request, and only with the decision that
\* is on record: whoever repeats, contradicts or loses a race delivers nothing.
AnswersAreRecorded ==
    \A a \in Rows : \A x \in answered[a] :
        /\ row[a].state = "settled" /\ row[a].decision = x[2]
        /\ \A y \in answered[a] : x = y

\* The first valid decision wins: no later decision, and no end of the turn that
\* races it, changes a row that is not open.
FirstDecisionStands ==
    [][\A a \in Rows : row[a].state \in {"settled", "invalid"} => row'[a] = row[a]]_vars

\* No route outlives the session of its execution, although reader, rebuild and
\* completion pass the port in any order.
RoutesAreLive == \A a \in route : row[a].turn \in sessions

\* What a turn asked while it was active does not stay open after it: it is
\* decided, or the completion worker closes it or leaves a mark that it could not.
\* Turns that accept() failed and turns a restart sealed have no such worker.
ApprovalsClose ==
    \A a \in Rows :
        row[a].state = "open" /\ ~Ended(row[a].turn) ~>
            \/ row[a].state # "open"
            \/ row[a].turn \in cleanup
            \/ stage[row[a].turn] \in {"refused", "sealed"}
=============================================================================
