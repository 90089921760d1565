---------------------------- MODULE Approvals_proofs ----------------------------
(***************************************************************************)
(* The answers to a harness, for every set of turns, ports, approvals and  *)
(* threads.  An answer is written four steps after its decision was        *)
(* committed.  What it says is still on record then because only the call  *)
(* that moved the row out of "open" delivers: there is one such call per   *)
(* row, and no step moves the row again.                                   *)
(***************************************************************************)
EXTENDS Approvals, TLAPS

Active == {"lookup", "pop", "require", "write"}

\* A call that still delivers holds the decision on record.
DeliversWhatIsRecorded(c) ==
    call[c].pc \in Active =>
        /\ call[c].row \in Rows /\ call[c].decision \in Decisions
        /\ row[call[c].row].state = "settled"
        /\ row[call[c].row].decision = call[c].decision

CallsDeliverTheRecord == \A c \in Calls : DeliversWhatIsRecorded(c)

\* A row has one deliverer, and none once its harness was answered.
OneDeliverer ==
    /\ \A b, c \in Calls :
          call[b].pc \in Active /\ call[c].pc \in Active /\ call[b].row = call[c].row => b = c
    /\ \A a \in Rows, c \in Calls :
          call[c].pc \in Active /\ call[c].row = a => answered[a] = {}

\* The reader and the routes know stored requests only.
StoredFirst ==
    \A a \in Rows : reader[a] = "stored" \/ a \in route => row[a].state # "absent"

IInv == TypeOK /\ CallsDeliverTheRecord /\ OneDeliverer /\ StoredFirst
        /\ AnswersAreRecorded /\ RoutesAreLive

-----------------------------------------------------------------------------
(* Operators *)

\* Only a row that is open can be recorded, or found not actionable.
LEMMA OutcomeIs ==
    ASSUME NEW a \in Rows, NEW rid \in RequestIds, row[a].state # "absent",
           Outcome(a, rid) \in {"recorded", "not_actionable"}
    PROVE  row[a].state = "open"
  BY DEF Outcome

LEMMA MadeInvalidType ==
    ASSUME TypeOK, NEW as
    PROVE  MadeInvalid(as) \in [Rows -> Row]
  BY DEF MadeInvalid, TypeOK, Row

\* Rows are made invalid in their state only.
LEMMA MadeInvalidIs ==
    ASSUME TypeOK, NEW as, NEW a \in Rows
    PROVE  /\ MadeInvalid(as)[a].turn = row[a].turn
           /\ MadeInvalid(as)[a].decision = row[a].decision
           /\ MadeInvalid(as)[a].state \in {row[a].state, "invalid"}
           /\ a \notin as => MadeInvalid(as)[a] = row[a]
  BY DEF MadeInvalid, TypeOK, Row

\* A step touches a settled or invalid row in no field, and an existing row never
\* in its turn; a row that is absent stays so, or is opened by the reader.
LEMMA RowStep ==
    ASSUME TypeOK, [Next]_vars, NEW b \in Rows
    PROVE  /\ row[b].state \in {"settled", "invalid"} => row'[b] = row[b]
           /\ row[b].state # "absent" => /\ row'[b].turn = row[b].turn
                                         /\ row'[b].state # "absent"
<1> DEFINE P == /\ row[b].state \in {"settled", "invalid"} => row'[b] = row[b]
                /\ row[b].state # "absent" => /\ row'[b].turn = row[b].turn
                                              /\ row'[b].state # "absent"
<1>1. CASE UNCHANGED row
  BY <1>1
<1>2. ASSUME NEW p \in Ports, NEW a \in Rows, Ask(p, a) PROVE P
  BY <1>2 DEF Ask, TypeOK
<1>3. ASSUME NEW c \in Calls, NEW a \in Rows, NEW rid \in RequestIds, NEW d \in Decisions,
             Decide(c, a, rid, d)
      PROVE  P
  <2>1. CASE Outcome(a, rid) = "recorded"
    <3>1. row[a].state = "open"
      BY <1>3, <2>1, OutcomeIs DEF Decide
    <3>2. row' = [row EXCEPT ![a] = [@ EXCEPT !.state = "settled", !.decision = d,
                                              !.rid = rid]]
      BY <1>3, <2>1 DEF Decide
    <3> QED BY <3>1, <3>2 DEF TypeOK, Row
  <2>2. CASE Outcome(a, rid) = "not_actionable"
    <3>1. row[a].state = "open"
      BY <1>3, <2>2, OutcomeIs DEF Decide
    <3>2. row' = MadeInvalid({a})
      BY <1>3, <2>2 DEF Decide
    <3> QED BY <3>1, <3>2, MadeInvalidIs
  <2>3. CASE Outcome(a, rid) \notin {"recorded", "not_actionable"}
    BY <1>3, <2>3, <1>1 DEF Decide
  <2> QED BY <2>1, <2>2, <2>3
<1>4. ASSUME NEW t \in Turns, Invalidate(t) PROVE P
  <2>1. CASE row' = MadeInvalid(OpenOf(t))
    <3>1. b \in OpenOf(t) => row[b].state = "open"
      BY DEF OpenOf
    <3> QED BY <2>1, <3>1, MadeInvalidIs
  <2> QED BY <1>1, <1>4, <2>1 DEF Invalidate, Invalidated
<1>5. ASSUME NEW a \in Rows, RegisterRoute(a) \/ EnterPort(a) PROVE UNCHANGED row
  BY <1>5 DEF RegisterRoute, EnterPort
<1>6. ASSUME NEW c \in Calls, Deliver(c) PROVE UNCHANGED row
  BY <1>6 DEF Deliver, LookUp, TakeRoute, Require, Write
<1>7. ASSUME NEW t \in Turns,
             \/ Begin(t) \/ Rebuild(t) \/ OpenExecution(t) \/ AcceptFails(t) \/ Persist(t)
             \/ CloseExecution(t) \/ Retire(t)
      PROVE  UNCHANGED row
  BY <1>7 DEF Begin, Rebuild, OpenExecution, AcceptFails, Persist, CloseExecution, Retire
<1>8. CASE Restart
  BY <1>1, <1>8 DEF Restart
<1>9. CASE UNCHANGED vars
  BY <1>1, <1>9 DEF vars
<1> QED BY <1>1, <1>2, <1>3, <1>4, <1>5, <1>6, <1>7, <1>8, <1>9 DEF Next, Reader, Worker

-----------------------------------------------------------------------------
(* Types *)

LEMMA TypeInit == Init => TypeOK
  BY ApprovalAssumption DEF Init, TypeOK, Row, CallRow, Absent, Idle

LEMMA RowType ==
    ASSUME TypeOK, [Next]_vars
    PROVE  row' \in [Rows -> Row]
<1>1. CASE UNCHANGED row
  BY <1>1 DEF TypeOK
<1>2. ASSUME NEW p \in Ports, NEW a \in Rows, Ask(p, a) PROVE row' \in [Rows -> Row]
  <2>1. current[p] \in Turns
    BY <1>2 DEF Ask, TypeOK
  <2> QED BY <1>2, <2>1 DEF Ask, TypeOK, Row, Absent
<1>3. ASSUME NEW c \in Calls, NEW a \in Rows, NEW rid \in RequestIds, NEW d \in Decisions,
             Decide(c, a, rid, d)
      PROVE  row' \in [Rows -> Row]
  <2>1. \/ UNCHANGED row
        \/ row' = MadeInvalid({a})
        \/ row' = [row EXCEPT ![a] = [@ EXCEPT !.state = "settled", !.decision = d,
                                               !.rid = rid]]
    BY <1>3 DEF Decide
  <2>2. CASE row' = [row EXCEPT ![a] = [@ EXCEPT !.state = "settled", !.decision = d,
                                                 !.rid = rid]]
    BY <2>2, ZenonT(60) DEF TypeOK, Row
  <2> QED BY <1>1, <2>1, <2>2, MadeInvalidType
<1>4. ASSUME NEW t \in Turns, Invalidate(t) PROVE row' \in [Rows -> Row]
  BY <1>1, <1>4, MadeInvalidType DEF Invalidate
<1>5. ASSUME NEW a \in Rows, RegisterRoute(a) \/ EnterPort(a) PROVE UNCHANGED row
  BY <1>5 DEF RegisterRoute, EnterPort
<1>6. ASSUME NEW c \in Calls, Deliver(c) PROVE UNCHANGED row
  BY <1>6 DEF Deliver, LookUp, TakeRoute, Require, Write
<1>7. ASSUME NEW t \in Turns,
             \/ Begin(t) \/ Rebuild(t) \/ OpenExecution(t) \/ AcceptFails(t) \/ Persist(t)
             \/ CloseExecution(t) \/ Retire(t)
      PROVE  UNCHANGED row
  BY <1>7 DEF Begin, Rebuild, OpenExecution, AcceptFails, Persist, CloseExecution, Retire
<1>8. CASE Restart
  BY <1>1, <1>8 DEF Restart
<1>9. CASE UNCHANGED vars
  BY <1>1, <1>9 DEF vars
<1> QED BY <1>1, <1>2, <1>3, <1>4, <1>5, <1>6, <1>7, <1>8, <1>9 DEF Next, Reader, Worker

LEMMA TypeStep == TypeOK /\ CallsDeliverTheRecord /\ [Next]_vars => TypeOK'
<1> SUFFICES ASSUME TypeOK, CallsDeliverTheRecord, [Next]_vars PROVE TypeOK'
  OBVIOUS
<1>0. row' \in [Rows -> Row]
  BY RowType
<1> USE <1>0, ApprovalAssumption DEF turns, routing, deciding
<1>1. ASSUME NEW p \in Ports, NEW a \in Rows, Ask(p, a) PROVE TypeOK'
  BY <1>1 DEF Ask, TypeOK
<1>2. ASSUME NEW a \in Rows, RegisterRoute(a) PROVE TypeOK'
  BY <1>2 DEF RegisterRoute, TypeOK
<1>3. ASSUME NEW a \in Rows, EnterPort(a) PROVE TypeOK'
  BY <1>3 DEF EnterPort, TypeOK
<1>4. ASSUME NEW c \in Calls, NEW a \in Rows, NEW rid \in RequestIds, NEW d \in Decisions,
             Decide(c, a, rid, d)
      PROVE  TypeOK'
  <2>1. call' \in [Calls -> CallRow]
    BY <1>4 DEF Decide, TypeOK, CallRow
  <2> QED BY <1>4, <2>1 DEF Decide, TypeOK
<1>5. ASSUME NEW c \in Calls, LookUp(c) PROVE TypeOK'
  BY ZenonT(40), <1>5 DEF LookUp, GoOn, TypeOK, CallRow
<1>6. ASSUME NEW c \in Calls, TakeRoute(c) PROVE TypeOK'
  <2>1. call' \in [Calls -> CallRow]
    BY <1>6 DEF TakeRoute, GoOn, TypeOK, CallRow
  <2> QED BY <1>6, <2>1 DEF TakeRoute, TypeOK
<1>7. ASSUME NEW c \in Calls, Require(c) PROVE TypeOK'
  <2>1. call' \in [Calls -> CallRow]
    BY <1>7 DEF Require, GoOn, TypeOK, CallRow
  <2> QED BY <1>7, <2>1 DEF Require, TypeOK
<1>8. ASSUME NEW c \in Calls, Write(c) PROVE TypeOK'
  <2>1. call' \in [Calls -> CallRow]
    BY <1>8 DEF Write, GoOn, TypeOK, CallRow
  <2>2. call[c].row \in Rows /\ <<c, call[c].decision>> \in Calls \X Decisions
    BY <1>8 DEF Write, CallsDeliverTheRecord, DeliversWhatIsRecorded, Active
  <2>3. answered' \in [Rows -> SUBSET (Calls \X Decisions)]
    BY <1>8, <2>2 DEF Write, TypeOK
  <2> QED BY <1>8, <2>1, <2>3 DEF Write, TypeOK
<1>9. ASSUME NEW t \in Turns, Worker(t) PROVE TypeOK'
  <2>1. CASE OpenExecution(t)  BY <2>1 DEF OpenExecution, TypeOK
  <2>2. CASE AcceptFails(t)    BY <2>2 DEF AcceptFails, TypeOK
  <2>3. CASE Persist(t)        BY <2>3 DEF Persist, TypeOK
  <2>4. CASE Invalidate(t)     BY <2>4 DEF Invalidate, TypeOK
  <2>5. CASE CloseExecution(t) BY <2>5 DEF CloseExecution, TypeOK
  <2>6. CASE Retire(t)         BY <2>6 DEF Retire, TypeOK
  <2> QED BY <1>9, <2>1, <2>2, <2>3, <2>4, <2>5, <2>6 DEF Worker
<1>10. ASSUME NEW t \in Turns, Begin(t) PROVE TypeOK'
  BY <1>10 DEF Begin, TypeOK
<1>11. ASSUME NEW t \in Turns, Rebuild(t) PROVE TypeOK'
  <2>1. rebuilds' \in [Turns -> 0..RebuildLimit]
    BY <1>11 DEF Rebuild, MayRebuild, TypeOK
  <2> QED BY <1>11, <2>1 DEF Rebuild, TypeOK
<1>12. CASE Restart
  <2>1. call' \in [Calls -> CallRow]
    BY <1>12 DEF Restart, TypeOK, CallRow
  <2>2. stage' \in [Turns -> {"new", "sealed"}] /\ reader' \in [Rows -> {"none", "over"}]
    BY <1>12 DEF Restart
  <2> QED BY <1>12, <2>1, <2>2 DEF Restart, TypeOK
<1>13. CASE UNCHANGED vars
  BY <1>13 DEF vars, TypeOK
<1> QED BY <1>1, <1>2, <1>3, <1>4, <1>5, <1>6, <1>7, <1>8, <1>9, <1>10, <1>11, <1>12, <1>13
        DEF Next, Reader, Deliver
-----------------------------------------------------------------------------
(* The decisions stand *)

\* The first valid decision wins: approvals.decide's second caller, the turn's end
\* and a restart all leave a row that is settled or invalid as it is.
LEMMA RowsStand == TypeOK /\ [Next]_vars =>
                     \A a \in Rows : row[a].state \in {"settled", "invalid"} => row'[a] = row[a]
  BY RowStep

-----------------------------------------------------------------------------
(* The deliverers *)

\* What a step does to the calls: it commits one, moves one on, or kills them all.
LEMMA CallsStep ==
    ASSUME TypeOK, [Next]_vars
    PROVE  \/ \E c \in Calls, a \in Rows, rid \in RequestIds, d \in Decisions :
                 /\ Decide(c, a, rid, d) /\ Outcome(a, rid) = "recorded"
           \/ \A c \in Calls : call'[c].pc \in Active =>
                 /\ call[c].pc \in Active
                 /\ call'[c].row = call[c].row /\ call'[c].decision = call[c].decision
<1> DEFINE P == \A c \in Calls : call'[c].pc \in Active =>
                   /\ call[c].pc \in Active
                   /\ call'[c].row = call[c].row /\ call'[c].decision = call[c].decision
<1>1. CASE UNCHANGED call
  BY <1>1
<1>2. ASSUME NEW c \in Calls, NEW a \in Rows, NEW rid \in RequestIds, NEW d \in Decisions,
             Decide(c, a, rid, d), Outcome(a, rid) # "recorded"
      PROVE  P
  BY <1>2 DEF Decide, Delivers, TypeOK, CallRow, Active
<1>3. ASSUME NEW c \in Calls, Deliver(c) PROVE P
  <2>1. call[c].pc \in Active /\ \E pc \in Active \cup {"done"} : GoOn(c, pc)
    BY <1>3 DEF Deliver, LookUp, TakeRoute, Require, Write, Active
  <2> QED BY <2>1 DEF GoOn, TypeOK, CallRow
<1>4. CASE Restart
  BY <1>4 DEF Restart, TypeOK, CallRow, Active
<1>5. ASSUME NEW p \in Ports, NEW a \in Rows, Ask(p, a) PROVE UNCHANGED call
  BY <1>5 DEF Ask, deciding
<1>6. ASSUME NEW a \in Rows, RegisterRoute(a) \/ EnterPort(a) PROVE UNCHANGED call
  BY <1>6 DEF RegisterRoute, EnterPort, deciding
<1>7. ASSUME NEW t \in Turns, Begin(t) \/ Rebuild(t) \/ Worker(t) PROVE UNCHANGED call
  BY <1>7 DEF Begin, Rebuild, Worker, OpenExecution, AcceptFails, Persist, Invalidate,
             CloseExecution, Retire, deciding
<1>8. CASE UNCHANGED vars
  BY <1>1, <1>8 DEF vars, deciding
<1> QED BY <1>1, <1>2, <1>3, <1>4, <1>5, <1>6, <1>7, <1>8 DEF Next, Reader

\* What a call that recorded its decision leaves.
LEMMA RecordedIs ==
    ASSUME TypeOK, NEW c \in Calls, NEW a \in Rows, NEW rid \in RequestIds, NEW d \in Decisions,
           Decide(c, a, rid, d), Outcome(a, rid) = "recorded"
    PROVE  /\ row[a].state = "open" /\ row'[a].state = "settled" /\ row'[a].decision = d
           /\ call[c].pc = "idle"
           /\ call'[c] = [pc |-> "lookup", row |-> a, decision |-> d]
           /\ \A b \in Calls \ {c} : call'[b] = call[b]
           /\ UNCHANGED answered
<1>1. row[a].state = "open"
  BY OutcomeIs DEF Decide
<1>2. row' = [row EXCEPT ![a] = [@ EXCEPT !.state = "settled", !.decision = d, !.rid = rid]]
  BY DEF Decide
<1>3. call' = [call EXCEPT ![c] = [pc |-> "lookup", row |-> a, decision |-> d]]
  BY DEF Decide, Delivers
<1> QED BY <1>1, <1>2, <1>3 DEF Decide, TypeOK, Row

LEMMA RecordStep ==
    TypeOK /\ CallsDeliverTheRecord /\ [Next]_vars => CallsDeliverTheRecord'
<1> SUFFICES ASSUME TypeOK, CallsDeliverTheRecord, [Next]_vars, NEW b \in Calls
             PROVE  DeliversWhatIsRecorded(b)'
  BY DEF CallsDeliverTheRecord
<1>1. ASSUME call[b].pc \in Active, call'[b].row = call[b].row,
             call'[b].decision = call[b].decision
      PROVE  DeliversWhatIsRecorded(b)'
  BY <1>1, RowStep DEF CallsDeliverTheRecord, DeliversWhatIsRecorded
<1>2. ASSUME NEW c \in Calls, NEW a \in Rows, NEW rid \in RequestIds, NEW d \in Decisions,
             Decide(c, a, rid, d), Outcome(a, rid) = "recorded"
      PROVE  DeliversWhatIsRecorded(b)'
  <2>1. /\ row[a].state = "open" /\ row'[a].state = "settled" /\ row'[a].decision = d
        /\ call'[c] = [pc |-> "lookup", row |-> a, decision |-> d]
        /\ \A x \in Calls \ {c} : call'[x] = call[x]
    BY <1>2, RecordedIs
  <2>2. CASE b = c
    BY <2>1, <2>2 DEF DeliversWhatIsRecorded
  <2>3. CASE b # c
    <3>1. call'[b] = call[b]
      BY <2>1, <2>3
    <3> QED BY <1>1, <3>1 DEF DeliversWhatIsRecorded
  <2> QED BY <2>2, <2>3
<1> QED BY <1>1, <1>2, CallsStep DEF DeliversWhatIsRecorded

\* An answer is the write of one call, which is over then.
LEMMA AnswerStep ==
    ASSUME TypeOK, [Next]_vars, answered' # answered
    PROVE  \E c \in Calls :
              /\ call[c].pc = "write"
              /\ call' = [call EXCEPT ![c].pc = "done"]
              /\ answered' = [answered EXCEPT ![call[c].row] =
                                                @ \cup {<<c, call[c].decision>>}]
<1>1. ASSUME NEW c \in Calls, Deliver(c) PROVE Write(c)
  BY <1>1 DEF Deliver, LookUp, TakeRoute, Require
<1>2. ASSUME NEW c \in Calls, NEW a \in Rows, NEW rid \in RequestIds, NEW d \in Decisions,
             Decide(c, a, rid, d)
      PROVE  FALSE
  BY <1>2 DEF Decide
<1>3. ~Reader
  BY DEF Reader, Ask, RegisterRoute, EnterPort, deciding
<1>4. ASSUME NEW t \in Turns, Begin(t) \/ Rebuild(t) \/ Worker(t) PROVE FALSE
  BY <1>4 DEF Begin, Rebuild, Worker, OpenExecution, AcceptFails, Persist, Invalidate,
             CloseExecution, Retire, deciding
<1>5. ~Restart /\ ~UNCHANGED vars
  BY DEF Restart, vars, deciding
<1> QED BY <1>1, <1>2, <1>3, <1>4, <1>5 DEF Next, Write, GoOn

LEMMA DelivererStep ==
    TypeOK /\ CallsDeliverTheRecord /\ OneDeliverer /\ AnswersAreRecorded /\ [Next]_vars
        => OneDeliverer' /\ AnswersAreRecorded'
<1> SUFFICES ASSUME TypeOK, CallsDeliverTheRecord, OneDeliverer, AnswersAreRecorded, [Next]_vars
             PROVE  OneDeliverer' /\ AnswersAreRecorded'
  OBVIOUS
<1>1. CASE answered' # answered
  <2>1. PICK c \in Calls :
           /\ call[c].pc = "write"
           /\ call' = [call EXCEPT ![c].pc = "done"]
           /\ answered' = [answered EXCEPT ![call[c].row] = @ \cup {<<c, call[c].decision>>}]
    BY <1>1, AnswerStep
  <2>2. /\ call[c].row \in Rows /\ answered[call[c].row] = {}
        /\ row[call[c].row].state = "settled"
        /\ row[call[c].row].decision = call[c].decision
    BY <2>1 DEF CallsDeliverTheRecord, DeliversWhatIsRecorded, OneDeliverer, Active
  <2>3. \A b \in Calls : call'[b].pc \in Active => b # c /\ call'[b] = call[b]
    BY <2>1 DEF TypeOK, CallRow, Active
  <2>4. /\ answered'[call[c].row] = {<<c, call[c].decision>>}
        /\ \A a \in Rows : a # call[c].row => answered'[a] = answered[a]
    BY <2>1, <2>2 DEF TypeOK
  <2>5. OneDeliverer'
    BY <2>1, <2>2, <2>3, <2>4 DEF OneDeliverer, Active
  <2>6. AnswersAreRecorded'
    BY <2>2, <2>4, RowStep DEF AnswersAreRecorded
  <2> QED BY <2>5, <2>6
<1>2. CASE UNCHANGED answered
  <2>1. AnswersAreRecorded'
    BY <1>2, RowStep DEF AnswersAreRecorded
  <2>2. CASE \A c \in Calls : call'[c].pc \in Active =>
                 /\ call[c].pc \in Active
                 /\ call'[c].row = call[c].row /\ call'[c].decision = call[c].decision
    <3>1. \A b, c \in Calls :
             call'[b].pc \in Active /\ call'[c].pc \in Active /\ call'[b].row = call'[c].row
             => b = c
      BY <2>2 DEF OneDeliverer
    <3>2. \A a \in Rows, c \in Calls :
             call'[c].pc \in Active /\ call'[c].row = a => answered'[a] = {}
      BY <1>2, <2>2 DEF OneDeliverer
    <3> QED BY <2>1, <3>1, <3>2 DEF OneDeliverer, Active
  <2>3. ASSUME NEW c \in Calls, NEW a \in Rows, NEW rid \in RequestIds, NEW d \in Decisions,
               Decide(c, a, rid, d), Outcome(a, rid) = "recorded"
        PROVE  OneDeliverer'
    <3>1. /\ row[a].state = "open"
          /\ call'[c] = [pc |-> "lookup", row |-> a, decision |-> d]
          /\ \A b \in Calls \ {c} : call'[b] = call[b]
      BY <2>3, RecordedIs
    <3>2. \A b \in Calls : call[b].pc \in Active => call[b].row # a
      BY <3>1 DEF CallsDeliverTheRecord, DeliversWhatIsRecorded
    <3>3. answered[a] = {}
      BY <3>1 DEF AnswersAreRecorded
    <3> QED BY <1>2, <3>1, <3>2, <3>3 DEF OneDeliverer
  <2> QED BY <2>1, <2>2, <2>3, CallsStep
<1> QED BY <1>1, <1>2

-----------------------------------------------------------------------------
(* The routes *)

LEMMA RouteStep ==
    TypeOK /\ StoredFirst /\ RoutesAreLive /\ [Next]_vars => StoredFirst' /\ RoutesAreLive'
<1> SUFFICES ASSUME TypeOK, StoredFirst, RoutesAreLive, [Next]_vars
             PROVE  StoredFirst' /\ RoutesAreLive'
  OBVIOUS
<1>1. ASSUME route' \subseteq route, sessions \subseteq sessions',
             \A b \in Rows : reader'[b] = "stored" => reader[b] = "stored"
      PROVE  StoredFirst' /\ RoutesAreLive'
  BY <1>1, RowStep DEF StoredFirst, RoutesAreLive, TypeOK
<1>2. ASSUME NEW p \in Ports, NEW a \in Rows, Ask(p, a) PROVE StoredFirst' /\ RoutesAreLive'
  <2>1. row'[a].state = "open" /\ \A b \in Rows \ {a} : row'[b] = row[b] /\ reader'[b] = reader[b]
    BY <1>2 DEF Ask, TypeOK, Row, Absent
  <2>2. a \notin route
    BY <1>2 DEF Ask, StoredFirst
  <2> QED BY <1>2, <2>1, <2>2 DEF Ask, turns, StoredFirst, RoutesAreLive, TypeOK
<1>3. ASSUME NEW a \in Rows, RegisterRoute(a) PROVE StoredFirst' /\ RoutesAreLive'
  BY <1>3 DEF RegisterRoute, Registrable, turns, StoredFirst, RoutesAreLive, TypeOK
<1>4. ASSUME NEW a \in Rows, EnterPort(a) PROVE StoredFirst' /\ RoutesAreLive'
  BY <1>1, <1>4 DEF EnterPort, turns, TypeOK
<1>5. ASSUME NEW c \in Calls, NEW a \in Rows, NEW rid \in RequestIds, NEW d \in Decisions,
             Decide(c, a, rid, d)
      PROVE  StoredFirst' /\ RoutesAreLive'
  BY <1>1, <1>5 DEF Decide, turns, routing
<1>6. ASSUME NEW c \in Calls, Deliver(c) PROVE StoredFirst' /\ RoutesAreLive'
  BY <1>1, <1>6 DEF Deliver, LookUp, TakeRoute, Require, Write, turns, routing
<1>7. ASSUME NEW t \in Turns,
             \/ Begin(t) \/ OpenExecution(t) \/ AcceptFails(t) \/ Persist(t) \/ Invalidate(t)
             \/ Retire(t)
      PROVE  StoredFirst' /\ RoutesAreLive'
  BY <1>1, <1>7 DEF Begin, OpenExecution, AcceptFails, Persist, Invalidate, Retire, routing
<1>8. ASSUME NEW t \in Turns, Rebuild(t) \/ CloseExecution(t)
      PROVE  StoredFirst' /\ RoutesAreLive'
  <2>1. /\ sessions' = sessions \ {t} /\ route' = route \ RowsOf(t)
        /\ UNCHANGED <<row, reader>>
    BY <1>8 DEF Rebuild, CloseExecution
  <2> QED BY <2>1 DEF RowsOf, StoredFirst, RoutesAreLive, TypeOK
<1>9. CASE Restart
  <2>1. /\ route' = {} /\ UNCHANGED row
        /\ \A b \in Rows : reader'[b] # "stored"
    BY <1>9 DEF Restart
  <2> QED BY <2>1 DEF StoredFirst, RoutesAreLive
<1>10. CASE UNCHANGED vars
  BY <1>1, <1>10 DEF vars, turns, routing
<1> QED BY <1>2, <1>3, <1>4, <1>5, <1>6, <1>7, <1>8, <1>9, <1>10 DEF Next, Reader, Worker

-----------------------------------------------------------------------------

LEMMA InvInit == Init => IInv
<1> SUFFICES ASSUME Init PROVE IInv
  OBVIOUS
<1>1. TypeOK
  BY TypeInit
<1>2. \A c \in Calls : call[c].pc = "idle"
  BY DEF Init, Idle
<1> QED BY <1>1, <1>2 DEF Init, IInv, CallsDeliverTheRecord, DeliversWhatIsRecorded, Active,
              OneDeliverer, StoredFirst, AnswersAreRecorded, RoutesAreLive

LEMMA InvStep == IInv /\ [Next]_vars => IInv'
  BY TypeStep, RecordStep, DelivererStep, RouteStep DEF IInv

\* TypeOK, AnswersAreRecorded and RoutesAreLive hold in every reachable state,
\* together with the three invariants they rest on.
THEOREM ApprovalInvariant == Spec => []IInv
<1>1. Init => IInv
  BY InvInit
<1>2. IInv /\ [Next]_vars => IInv'
  BY InvStep
<1> QED BY <1>1, <1>2, PTL DEF Spec

\* However deciders, reader, rebuild, completion and restart interleave, a harness
\* is answered once per request at most, with the decision the database holds.
THEOREM OneRecordedAnswer == Spec => []AnswersAreRecorded
<1>1. IInv => AnswersAreRecorded
  BY DEF IInv
<1> QED BY <1>1, ApprovalInvariant, PTL

\* register_approval never leaves a route behind that close_execution has missed.
THEOREM RoutesHaveSessions == Spec => []RoutesAreLive
<1>1. IInv => RoutesAreLive
  BY DEF IInv
<1> QED BY <1>1, ApprovalInvariant, PTL

\* No later decision and no end of the turn changes a row that is not open.
THEOREM DecisionsStand == Spec => FirstDecisionStands
<1>1. IInv /\ [Next]_vars =>
        [\A a \in Rows : row[a].state \in {"settled", "invalid"} => row'[a] = row[a]]_vars
  BY RowsStand DEF IInv
<1> QED BY <1>1, ApprovalInvariant, PTL DEF Spec, FirstDecisionStands
=============================================================================
