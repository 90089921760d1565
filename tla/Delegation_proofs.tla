---------------------------- MODULE Delegation_proofs ----------------------------
(***************************************************************************)
(* Runs that call runs, for every set of turns and of roles and every      *)
(* table of grants.  A chain of calls is read from rows by one loop, and   *)
(* what makes the reading good for the insert that follows is that rows    *)
(* are only added, that only the loop adds them, and that the request the   *)
(* loop serves cannot be exchanged under it.                                *)
(***************************************************************************)
EXTENDS Delegation, TLAPS

Absent(t) == turn[t].state = "absent"

\* A row is inserted under a row that is there.
ParentsExist == \A t \in Turns : turn[t].parent # NULL =>
                    turn[t].parent \in Turns /\ ~Absent(turn[t].parent)

\* Only an agent that waits has a request under way, or one whose run is over.
Asking == \A t \in Turns : want[t] # NULL =>
              ~Absent(t) /\ (waits[t] = "subagent" \/ turn[t].state = "ended")

\* What the loop has in its hands.
Serving ==
    /\ loop.parent # NULL => loop.parent \in Turns /\ ~Absent(loop.parent)
    /\ loop.pc \in {"check", "insert"} => loop.parent # NULL /\ want[loop.parent] # NULL
    /\ loop.pc = "insert" => want[loop.parent] \notin Ancestry(loop.parent)
    /\ loop.pc \in {"accept", "gate"} =>
          loop.turn \in Turns /\ turn[loop.turn].state = "accepted"
    /\ loop.pc = "await" => loop.turn \in Turns
    /\ loop.pc \notin {"stop", "timeout"} => Done("loop")

\* A cascade that looks at its turn has nothing else to do yet.
Looking == \A k \in Cancellers : cascade[k].look # {} =>
              \E t \in Turns : cascade[k] = [NoCascade EXCEPT !.look = {t}]

IInv == TypeOK /\ ParentsExist /\ Asking /\ Serving /\ Looking
        /\ RolesWaitOnce /\ StopsReachChildren

-----------------------------------------------------------------------------
(* The way up from a turn *)

\* What Above reads: the least set that holds the parents of a turn and of its members.
LEMMA AboveIsClosed ==
    ASSUME ParentsExist, NEW t \in Turns
    PROVE  Parents({t}) \cup Parents(Above(t)) \subseteq Above(t)
<1> SUFFICES ASSUME NEW x \in Parents({t}) \cup Parents(Above(t)),
                    NEW us \in SUBSET Turns, Parents({t}) \cup Parents(us) \subseteq us
             PROVE  x \in Turns /\ x \in us
  BY DEF Above, Parents, ParentsExist
<1>1. Above(t) \subseteq us
  BY DEF Above
<1>2. Parents(Above(t)) \subseteq Parents(us)
  BY <1>1 DEF Parents
<1>3. x \in us
  BY <1>2
<1> QED
  BY <1>3

LEMMA AboveIsLeast ==
    ASSUME NEW t \in Turns, NEW us \in SUBSET Turns,
           Parents({t}) \cup Parents(us) \subseteq us
    PROVE  Above(t) \subseteq us
BY DEF Above

\* The rows on the way up are there.
LEMMA AboveIsThere ==
    ASSUME ParentsExist, NEW t \in Turns
    PROVE  \A u \in Above(t) : u \in Turns /\ ~Absent(u)
<1> DEFINE there == {u \in Turns : ~Absent(u)}
<1>1. Parents({t}) \cup Parents(there) \subseteq there
  BY DEF Parents, ParentsExist
<1>2. Above(t) \subseteq there
  BY <1>1, AboveIsLeast
<1> QED
  BY <1>2

\* A step that leaves the rows where they are.
RowsStay ==
    \A u \in Turns : /\ turn'[u].role = turn[u].role /\ turn'[u].parent = turn[u].parent
                     /\ Absent(u)' = Absent(u)
                     /\ Live(u)' => Live(u)
                     /\ turn[u].state = "ended" => turn'[u].state = "ended"

\* A step that adds a row.
RowAdded(t, r, p) ==
    /\ t \in Turns /\ Absent(t) /\ r \in Roles
    /\ turn'[t].state = "accepted" /\ turn'[t].role = r /\ turn'[t].parent = p
    /\ \A u \in Turns \ {t} : turn'[u] = turn[u]
    /\ p # NULL => p \in Turns /\ ~Absent(p) /\ r \notin Ancestry(p)

LEMMA AboveStays ==
    ASSUME RowsStay, NEW t \in Turns
    PROVE  Above(t)' = Above(t)
<1>1. \A us \in SUBSET Turns : Parents(us)' = Parents(us)
  BY DEF RowsStay, Parents
<1>2. Parents({t})' = Parents({t})
  BY <1>1
<1> QED
  BY <1>1, <1>2 DEF Above

LEMMA AboveGrows ==
    ASSUME ParentsExist, NEW t, NEW r, NEW p, RowAdded(t, r, p), NEW u \in Turns
    PROVE  /\ u # t => Above(u)' \subseteq Above(u)
           /\ p = NULL => Above(t)' = {}
           /\ p # NULL => Above(t)' \subseteq {p} \cup Above(p)
<1>a. t \in Turns /\ Absent(t)
  BY DEF RowAdded
<1>1. ASSUME NEW us \in SUBSET Turns, t \notin us
      PROVE  Parents(us)' = Parents(us)
  BY <1>1 DEF RowAdded, Parents
<1>2. ASSUME NEW v \in Turns
      PROVE  Above(v) \in SUBSET Turns /\ t \notin Above(v)
  BY <1>a, AboveIsThere
<1>3. ASSUME NEW v \in Turns, NEW us \in SUBSET Turns,
             Parents({v})' \cup Parents(us)' \subseteq us
      PROVE  Above(v)' \subseteq us
  BY <1>3 DEF Above
<1>4. ASSUME u # t
      PROVE  Above(u)' \subseteq Above(u)
  <2>1. PICK us : us = Above(u)
    OBVIOUS
  <2>2. us \in SUBSET Turns /\ t \notin us
    BY <2>1, <1>2
  <2>3. Parents({u}) \cup Parents(us) \subseteq us
    BY <2>1, AboveIsClosed
  <2>4. Parents({u})' = Parents({u}) /\ Parents(us)' = Parents(us)
    <3>1. {u} \in SUBSET Turns /\ t \notin {u}
      BY <1>4
    <3> QED
      BY <3>1, <2>2, <1>1
  <2> QED
    BY <2>1, <2>2, <2>3, <2>4, <1>3
<1>5. ASSUME p = NULL
      PROVE  Above(t)' = {}
  <2>1. Parents({t})' = {} /\ Parents({})' = {}
    BY <1>5, <1>a DEF RowAdded, Parents
  <2> QED
    BY <2>1, <1>a, <1>3
<1>6. ASSUME p # NULL
      PROVE  Above(t)' \subseteq {p} \cup Above(p)
  <2>1. p \in Turns /\ p # t /\ ~Absent(p)
    BY <1>6, <1>a DEF RowAdded
  <2>2. PICK us : us = {p} \cup Above(p)
    OBVIOUS
  <2>3. us \in SUBSET Turns /\ t \notin us
    BY <2>1, <2>2, <1>2
  <2>4. Parents(us)' = Parents(us)
    BY <2>3, <1>1
  <2>5. Parents(us) = Parents({p}) \cup Parents(Above(p))
    BY <2>2 DEF Parents
  <2>6. Parents(us)' \subseteq us
    BY <2>1, <2>2, <2>4, <2>5, AboveIsClosed
  <2>7. Parents({t})' \subseteq us
    BY <1>6, <1>a, <2>2 DEF RowAdded, Parents
  <2>8. Above(t)' \subseteq us
    BY <2>3, <2>6, <2>7, <1>a, <1>3
  <2> QED
    BY <2>2, <2>8
<1> QED
  BY <1>4, <1>5, <1>6

\* What a step does to the rows, for all that is said of chains.
RowsMove == RowsStay \/ \E t \in Turns, r \in Roles, p \in Turns \cup {NULL} : RowAdded(t, r, p)

LEMMA LineageKept ==
    ASSUME TypeOK, ParentsExist, RolesWaitOnce, RowsMove
    PROVE  ParentsExist' /\ RolesWaitOnce'
<1>1. CASE RowsStay
  <2>1. ParentsExist'
    BY <1>1 DEF RowsStay, ParentsExist
  <2>2. \A t \in Turns : Above(t)' = Above(t) /\ Above(t) \subseteq Turns
    BY <1>1, AboveStays DEF Above
  <2>3. RolesWaitOnce'
    BY <1>1, <2>2 DEF RowsStay, RolesWaitOnce
  <2> QED
    BY <2>1, <2>3
<1>2. ASSUME NEW t \in Turns, NEW r \in Roles, NEW p \in Turns \cup {NULL}, RowAdded(t, r, p)
      PROVE  ParentsExist' /\ RolesWaitOnce'
  <2>1. \A u \in Turns : ~Absent(u) => ~Absent(u)' /\ turn'[u] = turn[u] /\ u # t
    BY <1>2 DEF RowAdded, Absent
  <2>2. \A u \in Turns \ {t} : turn'[u] = turn[u]
    BY <1>2 DEF RowAdded
  <2>3. turn'[t].role = r /\ turn'[t].parent = p
    BY <1>2 DEF RowAdded
  <2>4. p # NULL => p \in Turns /\ ~Absent(p) /\ r \notin Ancestry(p)
    BY <1>2 DEF RowAdded
  <2>5. ParentsExist'
    <3> SUFFICES ASSUME NEW u \in Turns, turn'[u].parent # NULL
                 PROVE  turn'[u].parent \in Turns /\ ~Absent(turn[u].parent)'
      BY DEF ParentsExist
    <3>1. CASE u = t
      BY <3>1, <2>1, <2>3, <2>4 DEF Absent
    <3>2. CASE u # t
      BY <3>2, <2>1, <2>2 DEF ParentsExist, Absent
    <3> QED
      BY <3>1, <3>2
  <2>6. RolesWaitOnce'
    <3> SUFFICES ASSUME NEW u \in Turns, NEW v \in Above(u)'
                 PROVE  turn'[v].role # turn'[u].role
      BY DEF RolesWaitOnce
    <3>1. CASE u # t
      <4>1. v \in Above(u)
        BY <3>1, <1>2, AboveGrows
      <4>2. v \in Turns /\ ~Absent(v)
        BY <4>1, AboveIsThere
      <4> QED
        BY <3>1, <4>1, <4>2, <2>1, <2>2 DEF RolesWaitOnce
    <3>2. CASE u = t
      <4>1. p # NULL /\ v \in {p} \cup Above(p)
        BY <3>2, <1>2, AboveGrows
      <4>2. v \in Turns /\ ~Absent(v)
        BY <4>1, <2>4, AboveIsThere
      <4>3. turn[v].role \in Ancestry(p)
        BY <4>1 DEF Ancestry
      <4>4. r # turn[v].role
        BY <4>1, <4>3, <2>4
      <4> QED
        BY <3>2, <4>2, <4>4, <2>1, <2>3
    <3> QED
      BY <3>1, <3>2
  <2> QED
    BY <2>5, <2>6
<1> QED
  BY <1>1, <1>2 DEF RowsMove

-----------------------------------------------------------------------------
(* What each step does to the rows *)

LEMMA SameRows == ASSUME turn' = turn PROVE RowsStay
BY DEF RowsStay, Absent, Live

LEMMA RunEndsRows ==
    ASSUME TypeOK, NEW t \in Turns, RunEnds(t)
    PROVE  RowsStay
BY DEF TypeOK, Rows, RunEnds, RowsStay, Absent, Live, Running, Active

LEMMA AcceptRunsRows ==
    ASSUME TypeOK, Serving, AcceptRuns
    PROVE  RowsStay
<1>1. PICK t : t = loop.turn
  OBVIOUS
<1>2. t \in Turns /\ turn[t].state = "accepted"
  BY <1>1 DEF Serving, AcceptRuns
<1>3. \E st \in {"running", "ended"} : turn' = [turn EXCEPT ![t].state = st]
  BY <1>1 DEF AcceptRuns
<1> QED
  BY <1>2, <1>3 DEF TypeOK, Rows, RowsStay, Absent, Live, Active

LEMMA GateExpiresRows ==
    ASSUME TypeOK, Serving, GateExpires
    PROVE  RowsStay
<1>1. PICK t : t = loop.turn
  OBVIOUS
<1>2. t \in Turns /\ turn[t].state = "accepted"
  BY <1>1 DEF Serving, GateExpires
<1>3. turn' = [turn EXCEPT ![t].state = "ended"]
  BY <1>1 DEF GateExpires
<1> QED
  BY <1>2, <1>3 DEF TypeOK, Rows, RowsStay, Absent, Live, Active

LEMMA InsertRows ==
    ASSUME TypeOK, NEW t \in Turns, NEW r \in Roles, NEW p, NEW s,
           Unused(t), Insert(t, r, p, s),
           p # NULL => p \in Turns /\ ~Absent(p) /\ r \notin Ancestry(p)
    PROVE  RowAdded(t, r, p)
<1>1. Absent(t)
  BY DEF Unused, Absent
<1>2. turn'[t] = [state |-> "accepted", role |-> r, parent |-> p, session |-> s]
  BY DEF Insert, TypeOK
<1>3. \A u \in Turns \ {t} : turn'[u] = turn[u]
  BY DEF Insert, TypeOK
<1> QED
  BY <1>1, <1>2, <1>3 DEF RowAdded

LEMMA WireSendRows ==
    ASSUME TypeOK, NEW t \in Turns, NEW r \in Roles, WireSend(t, r)
    PROVE  RowAdded(t, r, NULL)
BY InsertRows DEF WireSend

\* The insert of a child adds a row under the parent it was checked for, or none.
LEMMA InsertChildRows ==
    ASSUME TypeOK, Serving, InsertChild
    PROVE  \/ turn' = turn /\ late' = late /\ Answered
           \/ \E t \in Turns :
                 /\ RowAdded(t, want[loop.parent], loop.parent)
                 /\ late' = IF loop.parent \in asked /\ ~ToBeRead(loop.parent) THEN late \cup {t} ELSE late
                 /\ loop' = [loop EXCEPT !.pc = "accept", !.turn = t]
                 /\ UNCHANGED <<waits, want>>
<1>1. PICK p, r : p = loop.parent /\ r = want[loop.parent]
  OBVIOUS
<1>2. loop.pc = "insert"
  BY DEF InsertChild
<1>3. p \in Turns /\ ~Absent(p) /\ r # NULL /\ r \notin Ancestry(p)
  BY <1>1, <1>2 DEF Serving
<1>4. r \in Roles
  BY <1>1, <1>3 DEF TypeOK
<1>5. PICK t, s :
          /\ t \in Turns /\ Unused(t)
          /\ \/ /\ Insert(t, r, p, s)
                /\ late' = IF p \in asked /\ ~ToBeRead(p) THEN late \cup {t} ELSE late
                /\ loop' = [loop EXCEPT !.pc = "accept", !.turn = t]
                /\ UNCHANGED <<waits, want>>
             \/ Answered /\ UNCHANGED <<turn, late>>
  BY <1>1 DEF InsertChild
<1>6. Insert(t, r, p, s) => RowAdded(t, r, p)
  BY <1>3, <1>4, <1>5, InsertRows
<1> QED
  BY <1>1, <1>5, <1>6

\* The steps of an agent, of the loop that serves and of the stops.
Agents == \E t \in Turns : Asks(t) \/ RunEnds(t) \/ \E r \in Roles : Calls(t, r)

Stops == \E t \in Turns : \/ WireStop(t) \/ RestStop(t)
                         \/ \E k \in Cancellers : Look(k, t) \/ Stop(k, t) \/ ReadChildren(k, t)

Serves ==
    \/ AcceptRefused \/ AcceptWaits \/ AcceptRuns \/ GateExpires \/ CheckCall \/ InsertChild
    \/ TurnsUsedUp \/ ChildEnded \/ StopAnswered \/ DeadlinePasses
    \/ \E t \in Turns : WireDecide(t) \/ ServeCall(t) \/ \E r \in Roles : WireSend(t, r)

LEMMA ActIsThree == Act => Agents \/ Stops \/ Serves
BY DEF Act, Serve, Agents, Stops, Serves, Cancellers

LEMMA ActRows ==
    ASSUME TypeOK, Serving, Act
    PROVE  RowsMove
<1>1. CASE Agents
  <2>1. \A t \in Turns : RunEnds(t) => RowsStay
    BY RunEndsRows
  <2>2. \A t \in Turns : Asks(t) => turn' = turn
    BY DEF Asks, ledger
  <2>3. \A t \in Turns, r \in Roles : Calls(t, r) => turn' = turn
    BY DEF Calls, ledger
  <2> QED
    BY <1>1, <2>1, <2>2, <2>3, SameRows DEF Agents, RowsMove
<1>2. CASE Stops
  <2>1. turn' = turn
    BY <1>2 DEF Stops, WireStop, RestStop, Look, Stop, ReadChildren, ledger
  <2> QED
    BY <2>1, SameRows DEF RowsMove
<1>3. CASE Serves
  <2>1. CASE \/ AcceptRefused \/ AcceptWaits \/ CheckCall \/ TurnsUsedUp \/ ChildEnded
             \/ StopAnswered \/ DeadlinePasses \/ \E t \in Turns : WireDecide(t) \/ ServeCall(t)
    <3>1. turn' = turn
      BY <2>1 DEF AcceptRefused, AcceptWaits, CheckCall, TurnsUsedUp, ChildEnded,
                  StopAnswered, DeadlinePasses, WireDecide, ServeCall, ledger
    <3> QED
      BY <3>1, SameRows DEF RowsMove
  <2>2. CASE AcceptRuns \/ GateExpires
    BY <2>2, AcceptRunsRows, GateExpiresRows DEF RowsMove
  <2>3. ASSUME NEW t \in Turns, NEW r \in Roles, WireSend(t, r)
        PROVE  RowsMove
    BY <2>3, WireSendRows DEF RowsMove
  <2>4. CASE InsertChild
    <3>1. CASE turn' = turn
      BY <3>1, SameRows DEF RowsMove
    <3>2. ASSUME NEW t \in Turns, RowAdded(t, want[loop.parent], loop.parent)
          PROVE  RowsMove
      <4>1. PICK r, p : r = want[loop.parent] /\ p = loop.parent
        OBVIOUS
      <4>2. p \in Turns \cup {NULL}
        BY <4>1 DEF TypeOK, Loops
      <4>3. RowAdded(t, r, p)
        BY <3>2, <4>1
      <4>4. r \in Roles
        BY <4>3 DEF RowAdded
      <4> QED
        BY <4>2, <4>3, <4>4 DEF RowsMove
    <3> QED
      BY <2>4, <3>1, <3>2, InsertChildRows
  <2> QED
    BY <1>3, <2>1, <2>2, <2>3, <2>4 DEF Serves
<1> QED
  BY <1>1, <1>2, <1>3, ActIsThree

-----------------------------------------------------------------------------
(* The requests of agents *)

\* Whose request stays under way waits as before, or its run is over.
RequestsShrink ==
    \A t \in Turns : want'[t] # NULL =>
        want[t] # NULL /\ (waits'[t] = waits[t] \/ turn'[t].state = "ended")

LEMMA AskingKept ==
    ASSUME Asking, RowsMove, RequestsShrink
    PROVE  Asking'
<1> SUFFICES ASSUME NEW t \in Turns, want'[t] # NULL
             PROVE  ~Absent(t)' /\ (waits'[t] = "subagent" \/ turn'[t].state = "ended")
  BY DEF Asking
<1>1. want[t] # NULL /\ (waits'[t] = waits[t] \/ turn'[t].state = "ended")
  BY DEF RequestsShrink
<1>2. ~Absent(t) /\ (waits[t] = "subagent" \/ turn[t].state = "ended")
  BY <1>1 DEF Asking
<1>3. CASE RowsStay
  BY <1>1, <1>2, <1>3 DEF RowsStay
<1>4. ASSUME NEW u \in Turns, NEW r \in Roles, NEW p \in Turns \cup {NULL}, RowAdded(u, r, p)
      PROVE  ~Absent(t)' /\ (waits'[t] = "subagent" \/ turn'[t].state = "ended")
  <2>1. turn'[t] = turn[t]
    BY <1>2, <1>4 DEF RowAdded
  <2> QED
    BY <2>1, <1>1, <1>2 DEF Absent
<1> QED
  BY <1>3, <1>4 DEF RowsMove

LEMMA AnsweredShrinks ==
    ASSUME TypeOK, Answered
    PROVE  RequestsShrink
BY DEF Answered, RequestsShrink, TypeOK

LEMMA SameShrinks ==
    ASSUME waits' = waits, want' = want
    PROVE  RequestsShrink
BY DEF RequestsShrink

LEMMA ActAsking ==
    ASSUME TypeOK, Asking, Serving, Act
    PROVE  Asking'
<1>r. RowsMove
  BY ActRows
<1>1. ASSUME NEW t \in Turns, NEW r \in Roles, Calls(t, r)
      PROVE  Asking'
  BY <1>1 DEF Calls, Asking, TypeOK, Running, Absent, ledger
<1>2. ASSUME NEW t \in Turns, Asks(t) \/ WireDecide(t)
      PROVE  Asking'
  <2>1. want[t] = NULL
    BY <1>2 DEF Asks, WireDecide, Running, Asking
  <2>2. want' = want /\ \A u \in Turns \ {t} : waits'[u] = waits[u]
    BY <1>2 DEF Asks, WireDecide, TypeOK
  <2>3. RequestsShrink
    BY <2>1, <2>2 DEF RequestsShrink
  <2> QED
    BY <2>3, <1>r, AskingKept
<1>3. ASSUME NEW t \in Turns, RunEnds(t)
      PROVE  Asking'
  <2>1. turn'[t].state = "ended" /\ want' = want /\ \A u \in Turns \ {t} : waits'[u] = waits[u]
    BY <1>3 DEF RunEnds, TypeOK, Rows
  <2>2. RequestsShrink
    BY <2>1 DEF RequestsShrink
  <2> QED
    BY <2>2, <1>r, AskingKept
<1>4. CASE Answered
  BY <1>4, <1>r, AnsweredShrinks, AskingKept
<1>5. CASE waits' = waits /\ want' = want
  BY <1>5, <1>r, SameShrinks, AskingKept
<1>6. CASE Stops
  BY <1>6, <1>5 DEF Stops, WireStop, RestStop, Look, Stop, ReadChildren, runs
<1>7. CASE Serves
  BY <1>7, <1>2, <1>4, <1>5 DEF Serves, AcceptRefused, AcceptWaits, AcceptRuns, GateExpires,
     CheckCall, InsertChild, TurnsUsedUp, ChildEnded, StopAnswered, DeadlinePasses, ServeCall,
     WireSend, runs
<1> QED
  BY <1>1, <1>2, <1>3, <1>6, <1>7, ActIsThree DEF Agents

-----------------------------------------------------------------------------
(* The loop *)

LEMMA LoopIdles ==
    ASSUME loop' = Idle, Done("loop")'
    PROVE  Serving'
BY DEF Idle, Serving

\* The chain a call was checked against is the chain its child is inserted under.
LEMMA AncestryStays ==
    ASSUME RowsStay, NEW p \in Turns
    PROVE  Ancestry(p)' = Ancestry(p)
<1>1. Above(p)' = Above(p) /\ Above(p) \subseteq Turns
  BY AboveStays DEF Above
<1> QED
  BY <1>1 DEF Ancestry, RowsStay

LEMMA LoopStays ==
    ASSUME Serving, RowsStay, loop' = loop,
           loop.pc \in {"accept", "gate"} => turn'[loop.turn].state = "accepted",
           loop.pc \in {"check", "insert"} => want'[loop.parent] = want[loop.parent],
           loop.pc \notin {"stop", "timeout"} => cascade'["loop"] = cascade["loop"]
    PROVE  Serving'
<1>1. loop.parent # NULL => loop.parent \in Turns /\ ~Absent(loop.parent)'
  BY DEF Serving, RowsStay, Absent
<1>2. loop.pc \in {"check", "insert"} => loop.parent # NULL /\ want'[loop.parent] # NULL
  BY DEF Serving
<1>3. ASSUME loop.pc = "insert"
      PROVE  want'[loop.parent] \notin Ancestry(loop.parent)'
  <2>1. PICK p : p = loop.parent
    OBVIOUS
  <2>2. p \in Turns /\ want[p] \notin Ancestry(p)
    BY <1>3, <2>1 DEF Serving
  <2>3. Ancestry(p)' = Ancestry(p)
    BY <2>2, AncestryStays
  <2>4. p = loop'.parent
    BY <2>1
  <2> QED
    BY <1>3, <2>1, <2>2, <2>3, <2>4
<1>4. loop.pc \in {"accept", "gate"} => loop.turn \in Turns /\ turn'[loop.turn].state = "accepted"
  BY DEF Serving
<1>5. loop.pc = "await" => loop.turn \in Turns
  BY DEF Serving
<1>6. loop.pc \notin {"stop", "timeout"} => Done("loop")'
  BY DEF Serving, Done
<1> QED
  BY <1>1, <1>2, <1>3, <1>4, <1>5, <1>6 DEF Serving

LEMMA AgentsServing ==
    ASSUME TypeOK, Asking, Serving, Agents
    PROVE  Serving'
<1>1. ASSUME NEW t \in Turns, Asks(t)
      PROVE  Serving'
  <2>1. turn' = turn /\ loop' = loop /\ want' = want /\ cascade' = cascade
    BY <1>1 DEF Asks, ledger, stopping
  <2>2. loop.pc \in {"accept", "gate"} => turn'[loop.turn].state = "accepted"
    BY <2>1 DEF Serving
  <2> QED
    BY <2>1, <2>2, SameRows, LoopStays
<1>2. ASSUME NEW t \in Turns, RunEnds(t)
      PROVE  Serving'
  <2>1. loop' = loop /\ want' = want /\ cascade' = cascade
    BY <1>2 DEF RunEnds, stopping
  <2>2. turn[t].state = "running" /\ \A u \in Turns \ {t} : turn'[u] = turn[u]
    BY <1>2 DEF RunEnds, Running, TypeOK
  <2>3. loop.pc \in {"accept", "gate"} => turn'[loop.turn].state = "accepted"
    BY <2>2 DEF Serving
  <2> QED
    BY <1>2, <2>1, <2>3, RunEndsRows, LoopStays
<1>3. ASSUME NEW t \in Turns, NEW r \in Roles, Calls(t, r)
      PROVE  Serving'
  <2>1. turn' = turn /\ loop' = loop /\ cascade' = cascade
    BY <1>3 DEF Calls, ledger, stopping
  <2>2. want[t] = NULL /\ \A u \in Turns \ {t} : want'[u] = want[u]
    BY <1>3 DEF Calls, TypeOK, Asking, Running
  <2>3. loop.pc \in {"check", "insert"} => want'[loop.parent] = want[loop.parent]
    BY <2>2 DEF Serving
  <2>4. loop.pc \in {"accept", "gate"} => turn'[loop.turn].state = "accepted"
    BY <2>1 DEF Serving
  <2> QED
    BY <2>1, <2>3, <2>4, SameRows, LoopStays
<1> QED
  BY <1>1, <1>2, <1>3 DEF Agents

LEMMA StopsServing ==
    ASSUME TypeOK, Serving, Stops
    PROVE  Serving'
<1>1. ASSUME NEW t \in Turns, WireStop(t)
      PROVE  Serving'
  BY <1>1 DEF WireStop, Serving, Idle
<1>2. ASSUME NEW t \in Turns, RestStop(t)
      PROVE  Serving'
  <2>1. turn' = turn /\ loop' = loop /\ want' = want /\ cascade'["loop"] = cascade["loop"]
    BY <1>2 DEF RestStop, runs, TypeOK, Cancellers
  <2>2. loop.pc \in {"accept", "gate"} => turn'[loop.turn].state = "accepted"
    BY <2>1 DEF Serving
  <2> QED
    BY <2>1, <2>2, SameRows, LoopStays
<1>3. ASSUME NEW t \in Turns, NEW k \in Cancellers, Look(k, t) \/ Stop(k, t) \/ ReadChildren(k, t)
      PROVE  Serving'
  <2>1. turn' = turn /\ loop' = loop /\ want' = want
    BY <1>3 DEF Look, Stop, ReadChildren, runs, ledger
  <2>2. \A j \in Cancellers \ {k} : cascade'[j] = cascade[j]
    BY <1>3 DEF Look, Stop, ReadChildren, TypeOK
  <2>3. ~Done(k)
    BY <1>3 DEF Look, Stop, ReadChildren, Done, NoCascade
  <2>4. loop.pc \notin {"stop", "timeout"} => cascade'["loop"] = cascade["loop"]
    BY <2>2, <2>3 DEF Serving, Cancellers
  <2>5. loop.pc \in {"accept", "gate"} => turn'[loop.turn].state = "accepted"
    BY <2>1 DEF Serving
  <2> QED
    BY <2>1, <2>4, <2>5, SameRows, LoopStays
<1> QED
  BY <1>1, <1>2, <1>3 DEF Stops

LEMMA ServesServing ==
    ASSUME TypeOK, Asking, ParentsExist, Serving, Serves
    PROVE  Serving'
<1>a. ASSUME Answered, cascade' = cascade, loop.pc \notin {"stop", "timeout"} \/ Done("loop")
      PROVE  Serving'
  BY <1>a, LoopIdles DEF Answered, Serving, Done
<1>1. ASSUME NEW t \in Turns, WireDecide(t)
      PROVE  Serving'
  BY <1>1, LoopIdles DEF WireDecide, Serving, Done, Idle, stopping
<1>2. ASSUME NEW t \in Turns, ServeCall(t)
      PROVE  Serving'
  <2>1. /\ loop' = [pc |-> "check", turn |-> NULL, parent |-> t]
        /\ loop = Idle /\ want[t] # NULL
        /\ turn' = turn /\ want' = want /\ cascade' = cascade
    BY <1>2 DEF ServeCall, ledger, runs, stopping
  <2>2. ~Absent(t) /\ Done("loop")
    BY <2>1 DEF Asking, Serving, Idle
  <2>3. loop'.pc = "check" /\ loop'.parent = t
    BY <2>1
  <2>4. ~Absent(loop.parent)' /\ want'[loop'.parent] # NULL /\ Done("loop")'
    BY <2>1, <2>2, <2>3 DEF Absent, Done
  <2> QED
    BY <2>3, <2>4, DelegationAssumption DEF Serving
<1>3. ASSUME NEW t \in Turns, NEW r \in Roles, WireSend(t, r)
      PROVE  Serving'
  <2>1. /\ loop = Idle /\ loop' = [pc |-> "accept", turn |-> t, parent |-> NULL]
        /\ cascade' = cascade
    BY <1>3 DEF WireSend, Idle, stopping
  <2>2. turn'[t].state = "accepted"
    BY <1>3, WireSendRows DEF RowAdded
  <2> QED
    BY <2>1, <2>2 DEF Serving, Idle, Done
<1>4. CASE AcceptRefused
  BY <1>4, <1>a DEF AcceptRefused, stopping
<1>5. CASE AcceptWaits
  <2>1. /\ loop.pc = "accept" /\ loop' = [loop EXCEPT !.pc = "gate"]
        /\ turn' = turn /\ cascade' = cascade
    BY <1>5 DEF AcceptWaits, ledger, stopping
  <2> QED
    BY <2>1 DEF Serving, TypeOK, Loops, Absent, Done
<1>6. CASE AcceptRuns
  <2>1. loop.pc \in {"accept", "gate"} /\ cascade' = cascade
    BY <1>6 DEF AcceptRuns, stopping
  <2>2. CASE Answered
    BY <2>1, <2>2, <1>a
  <2>3. CASE AcceptReturns
    <3>1. CASE loop' = Idle
      BY <3>1, <2>1, LoopIdles DEF Serving, Done
    <3>2. CASE loop' = [loop EXCEPT !.pc = "await"]
      <4>1. RowsStay
        BY <1>6, AcceptRunsRows
      <4> QED
        BY <2>1, <3>2, <4>1 DEF Serving, TypeOK, Loops, RowsStay, Done
    <3> QED
      BY <2>3, <3>1, <3>2 DEF AcceptReturns
  <2> QED
    BY <1>6, <2>2, <2>3 DEF AcceptRuns
<1>7. CASE GateExpires
  BY <1>7, <1>a DEF GateExpires, stopping
<1>8. CASE CheckCall
  <2>1. PICK p : p = loop.parent
    OBVIOUS
  <2>2. CASE Answered
    BY <1>8, <2>2, <1>a DEF CheckCall, stopping
  <2>3. CASE /\ Callable(p, want[p]) /\ loop' = [loop EXCEPT !.pc = "insert"]
             /\ UNCHANGED <<waits, want>>
    <3>1. want[p] \notin Ancestry(p) /\ p \in Turns
      BY <1>8, <2>1, <2>3 DEF Callable, CheckCall, Serving
    <3>2. turn' = turn /\ loop.pc = "check"
      BY <1>8 DEF CheckCall, ledger
    <3>3. Ancestry(p)' = Ancestry(p)
      BY <3>1, <3>2, SameRows, AncestryStays
    <3>4. p = loop'.parent /\ loop'.pc = "insert"
      BY <2>1, <2>3 DEF TypeOK, Loops
    <3> QED
      BY <1>8, <2>1, <2>3, <3>1, <3>2, <3>3, <3>4 DEF Serving, CheckCall, Absent, Done, stopping
  <2> QED
    BY <1>8, <2>1, <2>2, <2>3 DEF CheckCall
<1>9. CASE InsertChild
  <2>1. loop.pc = "insert" /\ cascade' = cascade
    BY <1>9 DEF InsertChild, stopping
  <2>2. CASE Answered
    BY <2>1, <2>2, <1>a
  <2>3. ASSUME NEW t \in Turns,
               RowAdded(t, want[loop.parent], loop.parent),
               loop' = [loop EXCEPT !.pc = "accept", !.turn = t]
        PROVE  Serving'
    <3>1. /\ loop'.pc = "accept" /\ loop'.turn = t /\ loop'.parent = loop.parent
      BY <2>3 DEF TypeOK, Loops
    <3>2. turn'[t].state = "accepted" /\ \A u \in Turns : ~Absent(u) => ~Absent(u)'
      BY <2>3 DEF RowAdded, Absent
    <3> QED
      BY <2>1, <3>1, <3>2 DEF Serving, Done
  <2> QED
    BY <1>9, <2>2, <2>3, InsertChildRows
<1>10. CASE TurnsUsedUp
  BY <1>10, <1>a DEF TurnsUsedUp, stopping
<1>11. CASE ChildEnded
  BY <1>11, <1>a DEF ChildEnded, stopping
<1>12. CASE StopAnswered
  BY <1>12, <1>a DEF StopAnswered, stopping
<1>13. CASE DeadlinePasses
  <2>1. loop'.pc = "timeout" /\ loop'.parent = loop.parent /\ turn' = turn
    BY <1>13 DEF DeadlinePasses, TypeOK, Loops
  <2> QED
    BY <2>1 DEF Serving, Absent
<1> QED
  BY <1>1, <1>2, <1>3, <1>4, <1>5, <1>6, <1>7, <1>8, <1>9, <1>10, <1>11, <1>12, <1>13 DEF Serves

-----------------------------------------------------------------------------
(* The cascades *)

LEMMA ActLooking ==
    ASSUME TypeOK, Serving, Looking, Act
    PROVE  Looking'
<1>1. ASSUME cascade' = cascade
      PROVE  Looking'
  BY <1>1 DEF Looking
<1>2. ASSUME NEW t \in Turns, RestStop(t)
      PROVE  Looking'
  <2>1. /\ cascade["rest"] = NoCascade
        /\ cascade'["rest"] = [cascade["rest"] EXCEPT !.look = {t}]
        /\ \A j \in Cancellers \ {"rest"} : cascade'[j] = cascade[j]
    BY <1>2 DEF RestStop, Done, TypeOK, Cancellers
  <2> QED
    BY <2>1 DEF Looking, Cancellers
<1>3. ASSUME NEW t \in Turns, WireStop(t)
      PROVE  Looking'
  <2>1. Done("loop")
    BY <1>3 DEF WireStop, Serving, Idle
  <2>2. /\ cascade'["loop"].look = {}
        /\ \A j \in Cancellers \ {"loop"} : cascade'[j] = cascade[j]
    BY <1>3, <2>1 DEF WireStop, Done, NoCascade, TypeOK, Cancellers
  <2> QED
    BY <2>2 DEF Looking, Cancellers
<1>4. CASE DeadlinePasses
  <2>1. Done("loop") /\ loop.turn \in Turns
    BY <1>4 DEF DeadlinePasses, Patient, Serving
  <2>2. /\ cascade'["loop"] = [NoCascade EXCEPT !.look = {loop.turn}]
        /\ \A j \in Cancellers \ {"loop"} : cascade'[j] = cascade[j]
    BY <1>4, <2>1 DEF DeadlinePasses, Done, TypeOK, Cancellers
  <2> QED
    BY <2>1, <2>2 DEF Looking, Cancellers
<1>5. ASSUME NEW t \in Turns, NEW k \in Cancellers, Look(k, t)
      PROVE  Looking'
  <2>1. /\ cascade'[k].look = {}
        /\ \A j \in Cancellers \ {k} : cascade'[j] = cascade[j]
    BY <1>5 DEF Look, NoCascade, TypeOK
  <2> QED
    BY <2>1 DEF Looking
<1>6. ASSUME NEW t \in Turns, NEW k \in Cancellers, Stop(k, t) \/ ReadChildren(k, t)
      PROVE  Looking'
  <2>1. cascade[k].look = {}
    BY <1>6 DEF Stop, ReadChildren, Looking, NoCascade
  <2>2. /\ cascade'[k].look = {}
        /\ \A j \in Cancellers \ {k} : cascade'[j] = cascade[j]
    BY <1>6, <2>1 DEF Stop, ReadChildren, TypeOK, Cascades
  <2> QED
    BY <2>2 DEF Looking
<1>7. CASE Stops
  BY <1>2, <1>3, <1>5, <1>6, <1>7 DEF Stops
<1>8. CASE Agents
  BY <1>1, <1>8 DEF Agents, Asks, RunEnds, Calls, stopping
<1>9. CASE Serves
  BY <1>1, <1>4, <1>9 DEF Serves, AcceptRefused, AcceptWaits, AcceptRuns, GateExpires,
     CheckCall, InsertChild, TurnsUsedUp, ChildEnded, StopAnswered, WireDecide, ServeCall,
     WireSend, stopping
<1> QED
  BY <1>7, <1>8, <1>9, ActIsThree

\* What keeps an active child of a stopped turn from being spared.
Reached(c) ==
    \/ c \in asked \cup late \cup left
    \/ ToBeRead(turn[c].parent)
    \/ \E k \in Cancellers : c \in cascade[k].stop

LEMMA StopsReach ==
    StopsReachChildren <=>
        \A c \in Turns : Live(c) /\ turn[c].parent # NULL /\ turn[c].parent \in asked
                         => Reached(c)
BY DEF StopsReachChildren, Spared, Reached

\* A step after which nobody else is asked and nobody reached is lost keeps the promise.
LEMMA ReachKept ==
    ASSUME StopsReachChildren, RowsStay,
           \A c \in Turns : Live(c) /\ Live(c)' /\ turn[c].parent # NULL
                             /\ turn[c].parent \in asked' \ asked => Reached(c)',
           \A c \in Turns : Live(c) /\ Live(c)' /\ turn[c].parent # NULL
                             /\ Reached(c) => Reached(c)'
    PROVE  StopsReachChildren'
<1>1. SUFFICES ASSUME NEW c \in Turns, Live(c)', turn'[c].parent # NULL,
                      turn'[c].parent \in asked'
               PROVE  Reached(c)'
  BY DEF StopsReachChildren, Spared, Reached
<1>2. Live(c) /\ turn[c].parent # NULL /\ turn'[c].parent = turn[c].parent
  BY <1>1 DEF RowsStay
<1> QED
  BY <1>1, <1>2, StopsReach

LEMMA ReachSame ==
    ASSUME StopsReachChildren, RowsStay,
           asked' = asked, late' = late, left' = left, cascade' = cascade
    PROVE  StopsReachChildren'
<1>1. \A c \in Turns : turn'[c].parent = turn[c].parent
  BY DEF RowsStay
<1>2. \A c \in Turns : Reached(c) => Reached(c)'
  BY <1>1 DEF Reached, ToBeRead
<1> QED
  BY <1>2, ReachKept

\* A child that is inserted under a turn that was asked to stop is late, or it is among
\* the children that are still to be read.
LEMMA ReachAdded ==
    ASSUME StopsReachChildren,
           NEW t, NEW r, NEW p, RowAdded(t, r, p),
           asked' = asked, left' = left, late \subseteq late', cascade' = cascade,
           p # NULL /\ p \in asked => t \in late' \/ ToBeRead(p)
    PROVE  StopsReachChildren'
<1>1. SUFFICES ASSUME NEW c \in Turns, Live(c)', turn'[c].parent # NULL,
                      turn'[c].parent \in asked'
               PROVE  Reached(c)'
  BY DEF StopsReachChildren, Spared, Reached
<1>2. CASE c = t
  <2>1. turn'[c].parent = p
    BY <1>2 DEF RowAdded
  <2> QED
    BY <1>1, <1>2, <2>1 DEF Reached, ToBeRead
<1>3. CASE c # t
  <2>1. turn'[c] = turn[c]
    BY <1>3 DEF RowAdded
  <2>2. Live(c)
    BY <1>1, <2>1 DEF Live, Active
  <2>3. Reached(c)
    BY <1>1, <2>1, <2>2, StopsReach
  <2> QED
    BY <2>1, <2>3 DEF Reached, ToBeRead
<1> QED
  BY <1>2, <1>3

\* The cascade of one canceller moves on.
CascadeMoves(k, t) ==
    /\ asked \subseteq asked' /\ asked' \subseteq asked \cup {t}
    /\ late' = late /\ left \subseteq left'
    /\ \A j \in Cancellers \ {k} : cascade'[j] = cascade[j]

LEMMA CascadeReach ==
    ASSUME TypeOK, StopsReachChildren, turn' = turn,
           NEW k \in Cancellers, NEW t \in Turns, CascadeMoves(k, t),
           t \in asked' \ asked => t \in cascade'[k].look \cup cascade'[k].read,
           \A c \in Turns : /\ Live(c) /\ turn[c].parent # NULL
                            /\ \/ turn[c].parent \in cascade[k].look \cup cascade[k].read
                               \/ c \in cascade[k].stop
               => \/ turn[c].parent \in cascade'[k].look \cup cascade'[k].read
                  \/ c \in cascade'[k].stop
                  \/ c \in asked' \cup left'
    PROVE  StopsReachChildren'
<1>1. RowsStay
  BY SameRows
<1>2. ASSUME NEW c \in Turns, turn[c].parent # NULL, turn[c].parent \in asked' \ asked
      PROVE  Reached(c)'
  BY <1>2 DEF Reached, ToBeRead, CascadeMoves
<1>3. ASSUME NEW c \in Turns, Live(c), turn[c].parent # NULL, Reached(c)
      PROVE  Reached(c)'
  <2>1. CASE c \in asked \cup late \cup left
    BY <2>1 DEF Reached, CascadeMoves
  <2>2. ASSUME NEW j \in Cancellers,
               turn[c].parent \in cascade[j].look \cup cascade[j].read \/ c \in cascade[j].stop
        PROVE  Reached(c)'
    <3>1. CASE j # k
      BY <2>2, <3>1 DEF Reached, ToBeRead, CascadeMoves
    <3>2. CASE j = k
      BY <1>3, <2>2, <3>2 DEF Reached, ToBeRead
    <3> QED
      BY <3>1, <3>2
  <2> QED
    BY <1>3, <2>1, <2>2 DEF Reached, ToBeRead
<1> QED
  BY <1>1, <1>2, <1>3, ReachKept

LEMMA StopsReaches ==
    ASSUME TypeOK, Serving, Looking, StopsReachChildren, Stops
    PROVE  StopsReachChildren'
<1>a. turn' = turn
  BY DEF Stops, WireStop, RestStop, Look, Stop, ReadChildren, ledger
<1>1. ASSUME NEW t \in Turns, RestStop(t)
      PROVE  StopsReachChildren'
  <2>1. /\ cascade["rest"] = NoCascade
        /\ cascade'["rest"] = [NoCascade EXCEPT !.look = {t}]
        /\ CascadeMoves("rest", t)
    BY <1>1 DEF RestStop, Request, Done, TypeOK, Cancellers, CascadeMoves
  <2> QED
    BY <1>a, <2>1, CascadeReach DEF NoCascade, Cancellers
<1>2. ASSUME NEW t \in Turns, WireStop(t)
      PROVE  StopsReachChildren'
  <2>1. Done("loop")
    BY <1>2 DEF WireStop, Serving, Idle
  <2>2. cascade["loop"] = NoCascade /\ CascadeMoves("loop", t) /\ asked' = asked
    BY <1>2, <2>1 DEF WireStop, Done, TypeOK, CascadeMoves, ledger
  <2> QED
    BY <1>a, <2>2, CascadeReach DEF NoCascade, Cancellers
<1>3. ASSUME NEW t \in Turns, NEW k \in Cancellers, Look(k, t)
      PROVE  StopsReachChildren'
  <2>1. cascade[k] = [NoCascade EXCEPT !.look = {t}]
    <3>1. t \in cascade[k].look
      BY <1>3 DEF Look
    <3>2. PICK u \in Turns : cascade[k] = [NoCascade EXCEPT !.look = {u}]
      BY <3>1 DEF Looking
    <3>3. cascade[k].look = {u}
      BY <3>2 DEF NoCascade
    <3> QED
      BY <3>1, <3>2, <3>3
  <2>2. CascadeMoves(k, t) /\ asked' = asked
    BY <1>3 DEF Look, TypeOK, CascadeMoves, ledger
  <2>3. Live(t) => cascade'[k].read = {t}
    BY <1>3 DEF Look, TypeOK, NoCascade
  <2>4. ~Live(t) => Children(t) \subseteq left'
    BY <1>3 DEF Look
  <2> QED
    BY <1>a, <2>1, <2>2, <2>3, <2>4, CascadeReach DEF NoCascade, Children
<1>4. ASSUME NEW t \in Turns, NEW k \in Cancellers, Stop(k, t)
      PROVE  StopsReachChildren'
  <2>1. /\ cascade'[k].look = cascade[k].look
        /\ cascade'[k].read = cascade[k].read \cup {t}
        /\ cascade'[k].stop = cascade[k].stop \ {t}
    BY <1>4 DEF Stop, TypeOK, Cascades
  <2>2. CascadeMoves(k, t) /\ (Live(t) => t \in asked')
    BY <1>4 DEF Stop, Request, TypeOK, CascadeMoves
  <2> QED
    BY <1>a, <2>1, <2>2, CascadeReach
<1>5. ASSUME NEW t \in Turns, NEW k \in Cancellers, ReadChildren(k, t)
      PROVE  StopsReachChildren'
  <2>1. /\ cascade'[k].look = cascade[k].look
        /\ cascade'[k].read = cascade[k].read \ {t}
        /\ cascade'[k].stop = cascade[k].stop \cup Children(t)
    BY <1>5 DEF ReadChildren, TypeOK, Cascades
  <2>2. CascadeMoves(k, t) /\ asked' = asked
    BY <1>5 DEF ReadChildren, TypeOK, CascadeMoves, ledger
  <2> QED
    BY <1>a, <2>1, <2>2, CascadeReach DEF Children
<1> QED
  BY <1>1, <1>2, <1>3, <1>4, <1>5 DEF Stops

LEMMA ActReaches ==
    ASSUME TypeOK, Serving, Looking, StopsReachChildren, Act
    PROVE  StopsReachChildren'
<1>1. CASE Agents
  <2>1. asked' = asked /\ late' = late /\ left' = left /\ cascade' = cascade
    BY <1>1 DEF Agents, Asks, RunEnds, Calls, stopping, ledger
  <2>2. RowsStay
    BY <1>1, RunEndsRows, SameRows DEF Agents, Asks, Calls, ledger
  <2> QED
    BY <2>1, <2>2, ReachSame
<1>2. CASE Stops
  BY <1>2, StopsReaches
<1>3. CASE Serves
  <2>1. CASE \/ AcceptRefused \/ AcceptWaits \/ CheckCall \/ TurnsUsedUp \/ ChildEnded
             \/ StopAnswered \/ \E t \in Turns : WireDecide(t) \/ ServeCall(t)
    <3>1. turn' = turn /\ asked' = asked /\ late' = late /\ left' = left /\ cascade' = cascade
      BY <2>1 DEF AcceptRefused, AcceptWaits, CheckCall, TurnsUsedUp, ChildEnded,
                  StopAnswered, WireDecide, ServeCall, ledger, stopping
    <3> QED
      BY <3>1, SameRows, ReachSame
  <2>2. CASE AcceptRuns \/ GateExpires
    <3>1. asked' = asked /\ late' = late /\ left' = left /\ cascade' = cascade
      BY <2>2 DEF AcceptRuns, GateExpires, stopping
    <3> QED
      BY <2>2, <3>1, AcceptRunsRows, GateExpiresRows, ReachSame
  <2>3. ASSUME NEW t \in Turns, NEW r \in Roles, WireSend(t, r)
        PROVE  StopsReachChildren'
    <3>1. asked' = asked /\ late' = late /\ left' = left /\ cascade' = cascade
      BY <2>3 DEF WireSend, stopping
    <3>2. PICK p : p = NULL
      OBVIOUS
    <3>3. RowAdded(t, r, p)
      BY <2>3, <3>2, WireSendRows
    <3> QED
      BY <3>1, <3>2, <3>3, ReachAdded
  <2>4. CASE InsertChild
    <3>1. asked' = asked /\ left' = left /\ cascade' = cascade
      BY <2>4 DEF InsertChild, stopping
    <3>2. CASE turn' = turn /\ late' = late
      BY <3>1, <3>2, SameRows, ReachSame
    <3>3. ASSUME NEW t \in Turns, RowAdded(t, want[loop.parent], loop.parent),
                 late' = IF loop.parent \in asked /\ ~ToBeRead(loop.parent) THEN late \cup {t} ELSE late
          PROVE  StopsReachChildren'
      <4>1. PICK r, p : r = want[loop.parent] /\ p = loop.parent
        OBVIOUS
      <4>2. RowAdded(t, r, p) /\ late \subseteq late' /\ (p \in asked => t \in late' \/ ToBeRead(p))
        BY <3>3, <4>1
      <4> QED
        BY <3>1, <4>2, ReachAdded
    <3> QED
      BY <2>4, <3>2, <3>3, InsertChildRows
  <2>5. CASE DeadlinePasses
    <3>1. PICK t : t = loop.turn
      OBVIOUS
    <3>2. Done("loop") /\ t \in Turns
      BY <2>5, <3>1 DEF DeadlinePasses, Patient, Serving
    <3>3. /\ cascade["loop"] = NoCascade
          /\ cascade'["loop"] = [NoCascade EXCEPT !.look = {t}]
          /\ CascadeMoves("loop", t) /\ turn' = turn
      BY <2>5, <3>1, <3>2
         DEF DeadlinePasses, Request, Done, TypeOK, Cancellers, CascadeMoves
    <3> QED
      BY <3>2, <3>3, CascadeReach DEF NoCascade, Cancellers
  <2> QED
    BY <1>3, <2>1, <2>2, <2>3, <2>4, <2>5 DEF Serves
<1> QED
  BY <1>1, <1>2, <1>3, ActIsThree

-----------------------------------------------------------------------------
(* Types *)

LEMMA RowTypes ==
    ASSUME TypeOK, NEW t \in Turns, NEW st \in {"ended"} \cup Active
    PROVE  [turn EXCEPT ![t].state = st] \in [Turns -> Rows]
BY DEF TypeOK, Rows

LEMMA AnsweredTypes ==
    ASSUME TypeOK, Answered
    PROVE  /\ loop' \in Loops
           /\ waits' \in [Turns -> {"nothing", "approval", "subagent"}]
           /\ want' \in [Turns -> Roles \cup {NULL}]
<1>1. Idle \in Loops
  BY DEF Idle, Loops
<1> QED
  BY <1>1 DEF TypeOK, Answered

LEMMA InsertTypes ==
    ASSUME TypeOK, NEW t \in Turns, NEW r \in Roles \cup {NULL}, NEW p \in Turns \cup {NULL},
           NEW s \in Turns \cup {NULL}, Insert(t, r, p, s)
    PROVE  turn' \in [Turns -> Rows]
<1>1. [state |-> "accepted", role |-> r, parent |-> p, session |-> s] \in Rows
  BY DEF Rows, Active
<1> QED
  BY <1>1 DEF TypeOK, Insert

LEMMA CascadeTypes ==
    ASSUME TypeOK, NEW k \in Cancellers, NEW x \in Cascades
    PROVE  [cascade EXCEPT ![k] = x] \in [Cancellers -> Cascades]
BY DEF TypeOK

LEMMA AgentsTypes ==
    ASSUME TypeOK, Agents, filing' = filing
    PROVE  TypeOK'
<1>1. ASSUME NEW t \in Turns, Asks(t)
      PROVE  TypeOK'
  BY <1>1 DEF Asks, TypeOK, ledger, stopping, gate
<1>2. ASSUME NEW t \in Turns, NEW r \in Roles, Calls(t, r)
      PROVE  TypeOK'
  BY <1>2 DEF Calls, TypeOK, ledger, stopping, gate
<1>3. ASSUME NEW t \in Turns, RunEnds(t)
      PROVE  TypeOK'
  <2>1. turn' \in [Turns -> Rows]
    BY <1>3, RowTypes DEF RunEnds
  <2> QED
    BY <1>3, <2>1 DEF RunEnds, TypeOK, stopping
<1> QED
  BY <1>1, <1>2, <1>3 DEF Agents

LEMMA StopsTypes ==
    ASSUME TypeOK, Stops, filing' = filing
    PROVE  TypeOK'
<1>1. ASSUME cascade' \in [Cancellers -> Cascades]
      PROVE  TypeOK'
  <2>a. loop' \in Loops
    BY DEF Stops, WireStop, RestStop, Look, Stop, ReadChildren, TypeOK, Loops, Idle
  <2>b. stops' = stops \/ (stops < MaxStops /\ stops' = stops + 1)
    BY DEF Stops, WireStop, RestStop, Look, Stop, ReadChildren
  <2>1. loop' \in Loops /\ stops' \in 0..MaxStops
    BY <2>a, <2>b, DelegationAssumption DEF TypeOK
  <2>2. asked' \subseteq Turns
    BY DEF Stops, WireStop, RestStop, Look, Stop, ReadChildren, TypeOK, Request, ledger
  <2>3. UNCHANGED <<turn, late, faults, waits, want, owner, ready>> /\ left' \subseteq Turns
    BY DEF Stops, WireStop, RestStop, Look, Stop, ReadChildren, ledger, runs, gate, TypeOK,
           Children
  <2> QED
    BY <1>1, <2>1, <2>2, <2>3 DEF TypeOK
<1>2. ASSUME NEW t \in Turns, NEW k \in Cancellers
      PROVE  /\ [cascade[k] EXCEPT !.look = {t}] \in Cascades
             /\ [cascade[k] EXCEPT !.stop = {t}] \in Cascades
             /\ [NoCascade EXCEPT !.read = {t}] \in Cascades
             /\ NoCascade \in Cascades
             /\ [cascade[k] EXCEPT !.stop = @ \ {t}, !.read = @ \cup {t}] \in Cascades
             /\ [cascade[k] EXCEPT !.stop = @ \cup Children(t), !.read = @ \ {t}] \in Cascades
  BY <1>2 DEF TypeOK, Cascades, NoCascade, Children
<1>3. ASSUME NEW t \in Turns, RestStop(t) \/ WireStop(t)
      PROVE  cascade' \in [Cancellers -> Cascades]
  BY <1>2, <1>3 DEF RestStop, WireStop, TypeOK, Cancellers
<1>4. ASSUME NEW t \in Turns, NEW k \in Cancellers, Look(k, t)
      PROVE  cascade' \in [Cancellers -> Cascades]
  BY <1>2, <1>4 DEF Look, TypeOK
<1>5. ASSUME NEW t \in Turns, NEW k \in Cancellers, Stop(k, t)
      PROVE  cascade' \in [Cancellers -> Cascades]
  <2>1. cascade' = [cascade EXCEPT ![k] =
                      [cascade[k] EXCEPT !.stop = @ \ {t}, !.read = @ \cup {t}]]
    BY <1>5 DEF Stop, TypeOK, Cascades
  <2> QED
    BY <1>2, <2>1, CascadeTypes
<1>6. ASSUME NEW t \in Turns, NEW k \in Cancellers, ReadChildren(k, t)
      PROVE  cascade' \in [Cancellers -> Cascades]
  BY <1>2, <1>6 DEF ReadChildren, TypeOK
<1> QED
  BY <1>1, <1>3, <1>4, <1>5, <1>6 DEF Stops

LEMMA ServesTypes ==
    ASSUME TypeOK, Serving, Serves, filing' = filing
    PROVE  TypeOK'
<1> USE DEF ledger, runs, gate, stopping
<1>1. ASSUME NEW t \in Turns, WireDecide(t)
      PROVE  TypeOK'
  BY <1>1 DEF WireDecide, TypeOK
<1>2. ASSUME NEW t \in Turns, ServeCall(t)
      PROVE  TypeOK'
  BY <1>2 DEF ServeCall, TypeOK, Loops
<1>3. ASSUME NEW t \in Turns, NEW r \in Roles, WireSend(t, r)
      PROVE  TypeOK'
  <2>1. turn' \in [Turns -> Rows]
    BY <1>3, InsertTypes DEF WireSend
  <2> QED
    BY <1>3, <2>1 DEF WireSend, TypeOK, Loops, Idle
<1>4. CASE AcceptRefused
  <2>1. faults' = faults \/ (faults < MaxFaults /\ faults' = faults + 1)
    BY <1>4 DEF AcceptRefused
  <2>2. faults' \in 0..MaxFaults
    BY <2>1, DelegationAssumption DEF TypeOK
  <2> QED
    BY <1>4, <2>2, AnsweredTypes DEF AcceptRefused, TypeOK
<1>5. CASE AcceptWaits
  BY <1>5 DEF AcceptWaits, TypeOK, Loops
<1>6. CASE AcceptRuns
  <2>1. PICK t : t = loop.turn
    OBVIOUS
  <2>2. t \in Turns
    BY <1>6, <2>1 DEF AcceptRuns, Serving
  <2>3. turn' \in [Turns -> Rows]
    <3>1. PICK st \in {"running", "ended"} : turn' = [turn EXCEPT ![t].state = st]
      BY <1>6, <2>1 DEF AcceptRuns
    <3> QED
      BY <2>2, <3>1, RowTypes DEF Active
  <2>4. owner' \in [Roles -> Turns \cup {NULL}]
    BY <1>6, <2>1, <2>2 DEF AcceptRuns, TypeOK
  <2>5. loop' \in Loops /\ waits' \in [Turns -> {"nothing", "approval", "subagent"}]
        /\ want' \in [Turns -> Roles \cup {NULL}]
    <3>1. CASE Answered
      BY <3>1, AnsweredTypes
    <3>2. CASE AcceptReturns /\ UNCHANGED <<waits, want>>
      BY <3>2 DEF AcceptReturns, TypeOK, Loops, Idle
    <3> QED
      BY <1>6, <3>1, <3>2 DEF AcceptRuns
  <2> QED
    BY <1>6, <2>3, <2>4, <2>5 DEF AcceptRuns, TypeOK
<1>7. CASE GateExpires
  <2>1. turn' \in [Turns -> Rows]
    BY <1>7, RowTypes DEF GateExpires, Serving
  <2> QED
    BY <1>7, <2>1, AnsweredTypes DEF GateExpires, TypeOK
<1>8. CASE CheckCall
  BY <1>8, AnsweredTypes DEF CheckCall, TypeOK, Loops
<1>9. CASE InsertChild
  <2>1. PICK p, r : p = loop.parent /\ r = want[loop.parent]
    OBVIOUS
  <2>2. p \in Turns \cup {NULL} /\ r \in Roles \cup {NULL}
    BY <1>9, <2>1 DEF TypeOK, Loops, InsertChild, Serving
  <2>3. PICK t, s :
          /\ t \in Turns /\ s \in Sessions(t, r)
          /\ \/ /\ Insert(t, r, p, s)
                /\ late' = IF p \in asked /\ ~ToBeRead(p) THEN late \cup {t} ELSE late
                /\ loop' = [loop EXCEPT !.pc = "accept", !.turn = t]
                /\ UNCHANGED <<waits, want>>
             \/ Answered /\ UNCHANGED <<turn, late>>
    BY <1>9, <2>1 DEF InsertChild
  <2>4. s \in Turns \cup {NULL}
    BY <2>3 DEF Sessions, TypeOK, Rows
  <2>5. turn' \in [Turns -> Rows]
    BY <2>2, <2>3, <2>4, InsertTypes DEF TypeOK
  <2>6. late' \subseteq Turns
    BY <2>3 DEF TypeOK
  <2>7. loop' \in Loops /\ waits' \in [Turns -> {"nothing", "approval", "subagent"}]
        /\ want' \in [Turns -> Roles \cup {NULL}]
    BY <2>3, AnsweredTypes DEF TypeOK, Loops
  <2> QED
    BY <1>9, <2>5, <2>6, <2>7 DEF InsertChild, TypeOK
<1>10. CASE TurnsUsedUp \/ ChildEnded \/ StopAnswered
  BY <1>10, AnsweredTypes DEF TurnsUsedUp, ChildEnded, StopAnswered, TypeOK
<1>11. CASE DeadlinePasses
  <2>1. loop.turn \in Turns
    BY <1>11 DEF DeadlinePasses, Patient, Serving
  <2>2. cascade' \in [Cancellers -> Cascades]
    BY <1>11, <2>1 DEF DeadlinePasses, TypeOK, Cascades, Cancellers
  <2>3. loop' \in Loops /\ asked' \subseteq Turns
    BY <1>11, <2>1 DEF DeadlinePasses, Request, TypeOK, Loops
  <2> QED
    BY <1>11, <2>2, <2>3 DEF DeadlinePasses, TypeOK
<1> QED
  BY <1>1, <1>2, <1>3, <1>4, <1>5, <1>6, <1>7, <1>8, <1>9, <1>10, <1>11 DEF Serves

-----------------------------------------------------------------------------

LEMMA InitIInv == Init => IInv
<1> SUFFICES ASSUME Init PROVE IInv
  OBVIOUS
<1>1. TypeOK
  BY DelegationAssumption
     DEF Init, TypeOK, Rows, Loops, Cascades, Idle, NoCascade
<1>2. \A t \in Turns : turn[t].state = "absent" /\ turn[t].parent = NULL
  BY DEF Init
<1>3. ParentsExist /\ StopsReachChildren
  BY <1>2 DEF ParentsExist, StopsReachChildren, Spared
<1>4. Asking /\ Serving /\ Looking
  BY DEF Init, Asking, Serving, Looking, Idle, Done, NoCascade, Cancellers
<1>5. RolesWaitOnce
  <2>1. ASSUME NEW t \in Turns
        PROVE  Above(t) = {}
    <3>1. Parents({t}) = {} /\ Parents({}) = {}
      BY <1>2 DEF Parents
    <3> QED
      BY <3>1, AboveIsLeast
  <2> QED
    BY <2>1 DEF RolesWaitOnce
<1> QED
  BY <1>1, <1>3, <1>4, <1>5 DEF IInv

LEMMA NextIInv == IInv /\ [Next]_vars => IInv'
<1> SUFFICES ASSUME IInv, [Next]_vars PROVE IInv'
  OBVIOUS
<1>1. CASE UNCHANGED vars
  <2>1. RowsMove /\ RowsStay
    BY <1>1, SameRows DEF RowsMove, vars
  <2>2. TypeOK' /\ Looking' /\ Asking'
    BY <1>1 DEF IInv, TypeOK, Looking, Asking, Absent, vars
  <2>3. ParentsExist' /\ RolesWaitOnce'
    BY <2>1, LineageKept DEF IInv
  <2>4. StopsReachChildren'
    BY <1>1, <2>1, ReachSame DEF IInv, vars
  <2>5. Serving'
    BY <1>1, <2>1, LoopStays DEF IInv, vars, Serving
  <2> QED
    BY <2>2, <2>3, <2>4, <2>5 DEF IInv
<1>2. CASE Act /\ filing' = filing
  <2>1. TypeOK'
    BY <1>2, ActIsThree, AgentsTypes, StopsTypes, ServesTypes DEF IInv
  <2>2. ParentsExist' /\ RolesWaitOnce'
    BY <1>2, ActRows, LineageKept DEF IInv
  <2>3. Asking' /\ Looking' /\ StopsReachChildren'
    BY <1>2, ActAsking, ActLooking, ActReaches DEF IInv
  <2>4. Serving'
    BY <1>2, ActIsThree, AgentsServing, StopsServing, ServesServing DEF IInv
  <2> QED
    BY <2>1, <2>2, <2>3, <2>4 DEF IInv
<1> QED
  BY <1>1, <1>2 DEF Next

LEMMA SpecIInv == Spec => []IInv
BY InitIInv, NextIInv, PTL DEF Spec

\* The rows, the requests and the loop keep their shape (service/sessions/repository.py,
\* execution/delegation.py).
THEOREM DelegationTypes == Spec => []TypeOK
<1>1. IInv => TypeOK
  BY DEF IInv
<1> QED
  BY <1>1, SpecIInv, PTL

\* No chain of calls comes back to a role that waits in it, whatever the grants allow:
\* check_cycle and the insert are two steps, and runs end in between
\* (profiles/subagents.py, execution/delegation.py).
THEOREM NoRoleWaitsForItself == Spec => []RolesWaitOnce
<1>1. IInv => RolesWaitOnce
  BY DEF IInv
<1> QED
  BY <1>1, SpecIInv, PTL

\* A stop reaches every active child of the turn it was asked of, also when that turn has
\* ended meanwhile, except a child inserted after the last look at the children and the
\* children of a turn that cancel_turn found ended: with any number of turns, and stops on
\* the loop and on a REST thread at once (service/sessions/service.py, cancel_turn and
\* cancel_descendants).
THEOREM StopsReachTheFamily == Spec => []StopsReachChildren
<1>1. IInv => StopsReachChildren
  BY DEF IInv
<1> QED
  BY <1>1, SpecIInv, PTL
=============================================================================
