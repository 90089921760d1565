-------------------------- MODULE TurnBackend_proofs --------------------------
(***************************************************************************)
(* The Work Core and the backend that drives it.  First the core alone:     *)
(* what a caller may believe, that no stale observation is written, and     *)
(* that the core implements StartPromise.  Then the two stores: the ledger  *)
(* and the core agree, a turn that was cut off is not sent again, and a     *)
(* shutdown that answers yes leaves nobody at work.  All for any number of  *)
(* works, executions, callers, turns, faults and deaths.                    *)
(***************************************************************************)
EXTENDS TurnBackend, TLAPS

-----------------------------------------------------------------------------
(* Types *)

\* The steps after the freeze: this caller drives the dispatch of its execution.
Driving == {"resolve", "start", "accept", "fail", "doubt"}

\* What a call needs at its next step, it has.
Equipped(row) ==
    /\ row.pc \in Driving \cup {"freeze", "project"} => row.exec \in Execs
    /\ row.pc = "freeze" => row.key \in Keys /\ row.digest \in InputSets
    /\ row.pc = "project" => row.proj \in Projection
    /\ row.pc \in {"close", "reopen"} => row.work \in Works

Typed == TypeOK /\ \A c \in Callers : Equipped(caller[c])

LEMMA NobodyTyped ==
    ASSUME NEW e \in Execs \cup {NULL}, NEW answer \in Answers
    PROVE  /\ [Nobody EXCEPT !.exec = e, !.answer = answer] \in CallerRow
           /\ Equipped([Nobody EXCEPT !.exec = e, !.answer = answer])
  BY DEF Nobody, CallerRow, Equipped, Driving

\* Replacing one caller's row by a typed one.
LEMMA CallerTyped ==
    ASSUME Typed, NEW c \in Callers, NEW row \in CallerRow, Equipped(row), Goes(c, row)
    PROVE  /\ caller' \in [Callers -> CallerRow] /\ caller'[c] = row
           /\ \A d \in Callers \ {c} : caller'[d] = caller[d]
           /\ \A d \in Callers : Equipped(caller'[d])
  BY DEF Typed, TypeOK, Goes

\* An answer ends a call.
LEMMA AnswerTyped ==
    ASSUME Typed, NEW c \in Callers, NEW e \in Execs \cup {NULL}, NEW answer \in Answers, Returns(c, e, answer)
    PROVE  /\ caller' \in [Callers -> CallerRow]
           /\ caller'[c].pc = "idle" /\ caller'[c].exec = e /\ caller'[c].answer = answer
           /\ \A d \in Callers \ {c} : caller'[d] = caller[d]
           /\ \A d \in Callers : Equipped(caller'[d])
<1>. DEFINE row == [Nobody EXCEPT !.exec = e, !.answer = answer]
<1>1. row \in CallerRow /\ Equipped(row) /\ Goes(c, row)
  BY NobodyTyped DEF Returns
<1>2. row.pc = "idle" /\ row.exec = e /\ row.answer = answer
  BY DEF Nobody
<1>. HIDE DEF row
<1>. QED  BY <1>1, <1>2, CallerTyped

\* A caller that goes on keeps all but its pc.
LEMMA MoveTyped ==
    ASSUME Typed, NEW c \in Callers, caller[c].pc \in Driving \cup {"freeze"}, NEW pc \in Driving, Moves(c, pc)
    PROVE  /\ caller' \in [Callers -> CallerRow]
           /\ caller'[c].pc = pc /\ caller'[c].exec = caller[c].exec /\ caller'[c].answer = caller[c].answer
           /\ \A d \in Callers \ {c} : caller'[d] = caller[d]
           /\ \A d \in Callers : Equipped(caller'[d])
<1>. DEFINE row == [caller[c] EXCEPT !.pc = pc]
<1>1. row \in CallerRow /\ Equipped(row) /\ Goes(c, row)
  BY DEF Typed, TypeOK, CallerRow, Equipped, Driving, Moves, Goes
<1>2. row.pc = pc /\ row.exec = caller[c].exec /\ row.answer = caller[c].answer
  BY DEF Typed, TypeOK, CallerRow
<1>. HIDE DEF row
<1>. QED  BY <1>1, <1>2, CallerTyped

LEMMA InitTyped == Init => Typed
<1>. SUFFICES ASSUME Init PROVE Typed
  OBVIOUS
<1>1. caller \in [Callers -> CallerRow] /\ \A c \in Callers : Equipped(caller[c])
  BY DEF Init, Nobody, CallerRow, Answers, Equipped, Driving
<1>2. TypeOK
  BY <1>1, CoreAssumption DEF Init, TypeOK, WorkRow, ExecRow, DispatchRow
<1>. QED  BY <1>1, <1>2 DEF Typed

LEMMA DispatchTyped ==
    ASSUME Typed, NEW c \in Callers, NEW e \in Execs, NEW k \in Keys, NEW I \in InputSets, Dispatch(c, e, k, I)
    PROVE  Typed'
<1>1. /\ UNCHANGED <<rows, starts, deaths>> /\ calls' \in 0..MaxCalls
  BY CoreAssumption DEF Dispatch, Begin, Typed, TypeOK
<1>2. /\ caller' \in [Callers -> CallerRow] /\ \A d \in Callers : Equipped(caller'[d])
  <2>1. CASE \E f \in Execs : /\ dispatch[f].key = k
                              /\ Returns(c, e, IF f # e \/ dispatch[f].digest # I THEN "rejected"
                                               ELSE Recorded(dispatch[f].state))
    BY <2>1, AnswerTyped DEF Recorded, Answers
  <2>2. CASE Goes(c, [Nobody EXCEPT !.pc = "freeze", !.exec = e, !.key = k, !.digest = I])
    <3>. DEFINE row == [Nobody EXCEPT !.pc = "freeze", !.exec = e, !.key = k, !.digest = I]
    <3>1. row \in CallerRow /\ Equipped(row)
      BY DEF Nobody, CallerRow, Answers, Equipped, Driving
    <3>2. Goes(c, row)
      BY <2>2
    <3>. HIDE DEF row
    <3>. QED  BY <3>1, <3>2, CallerTyped
  <2>. QED  BY <2>1, <2>2 DEF Dispatch
<1>. QED  BY <1>1, <1>2 DEF Typed, TypeOK, rows

LEMMA ObserveTyped ==
    ASSUME Typed, NEW c \in Callers, NEW e \in Execs, NEW p \in Projection, Observe(c, e, p)
    PROVE  Typed'
<1>1. /\ UNCHANGED <<rows, starts, deaths>> /\ calls' \in 0..MaxCalls
  BY CoreAssumption DEF Observe, Begin, Typed, TypeOK
<1>2. /\ caller' \in [Callers -> CallerRow] /\ \A d \in Callers : Equipped(caller'[d])
  <2>1. CASE \E answer \in {"rejected", "done"} : Returns(c, e, answer)
    BY <2>1, AnswerTyped DEF Answers
  <2>2. CASE Goes(c, [Nobody EXCEPT !.pc = "project", !.exec = e, !.proj = p, !.base = exec[e].version])
    <3>. DEFINE row == [Nobody EXCEPT !.pc = "project", !.exec = e, !.proj = p, !.base = exec[e].version]
    <3>1. exec[e].version \in Nat
      BY DEF Typed, TypeOK, ExecRow
    <3>2. row \in CallerRow /\ Equipped(row)
      BY <3>1 DEF Nobody, CallerRow, Answers, Equipped, Driving
    <3>3. Goes(c, row)
      BY <2>2
    <3>. HIDE DEF row
    <3>. QED  BY <3>2, <3>3, CallerTyped
  <2>. QED  BY <2>1, <2>2 DEF Observe
<1>. QED  BY <1>1, <1>2 DEF Typed, TypeOK, rows

LEMMA ReadWorkTyped ==
    ASSUME Typed, NEW c \in Callers, NEW w \in Works, NEW to \in {"close", "reopen"}, ReadWork(c, w, to)
    PROVE  Typed'
<1>. DEFINE row == [Nobody EXCEPT !.pc = to, !.work = w, !.base = work[w].version]
<1>1. /\ UNCHANGED <<rows, starts, deaths>> /\ calls' \in 0..MaxCalls /\ Goes(c, row)
  BY CoreAssumption DEF ReadWork, Begin, Typed, TypeOK
<1>2. work[w].version \in Nat
  BY DEF Typed, TypeOK, WorkRow
<1>3. row \in CallerRow /\ Equipped(row)
  BY <1>2 DEF Nobody, CallerRow, Answers, Equipped, Driving
<1>. HIDE DEF row
<1>4. /\ caller' \in [Callers -> CallerRow] /\ \A d \in Callers : Equipped(caller'[d])
  BY <1>1, <1>3, CallerTyped
<1>. QED  BY <1>1, <1>4 DEF Typed, TypeOK, rows

LEMMA UpdateWorkTyped == ASSUME Typed, NEW c \in Callers, UpdateWork(c) PROVE Typed'
<1>1. caller[c].work \in Works
  BY DEF Typed, Equipped, UpdateWork
<1>2. work' \in [Works -> WorkRow]
  BY <1>1 DEF Typed, TypeOK, UpdateWork, WorkRow
<1>3. /\ caller' \in [Callers -> CallerRow] /\ \A d \in Callers : Equipped(caller'[d])
  BY AnswerTyped DEF UpdateWork, Answers
<1>. QED  BY <1>2, <1>3 DEF Typed, TypeOK, UpdateWork

LEMMA FreezeTyped == ASSUME Typed, NEW c \in Callers, Freeze(c) PROVE Typed'
<1>. DEFINE e == caller[c].exec
<1>1. e \in Execs /\ caller[c].key \in Keys /\ caller[c].digest \in InputSets
  BY DEF Typed, Equipped, Freeze
<1>2. caller[c].digest \subseteq Inputs
  BY <1>1, CoreAssumption
<1>3. /\ exec' \in [Execs -> ExecRow] /\ dispatch' \in [Execs -> DispatchRow]
      /\ input' \in [Execs -> SUBSET Inputs]
  <2>1. CASE UNCHANGED <<dispatch, input, exec>>
    BY <2>1 DEF Typed, TypeOK
  <2>2. CASE /\ dispatch' = [dispatch EXCEPT ![e] = [state |-> "requested", key |-> caller[c].key,
                                                     digest |-> caller[c].digest]]
             /\ input' = [input EXCEPT ![e] = @ \cup caller[c].digest]
             /\ exec' = [exec EXCEPT ![e].version = @ + 1]
    <3>1. exec' \in [Execs -> ExecRow]
      <4>1. exec \in [Execs -> ExecRow]
        BY DEF Typed, TypeOK
      <4>2. [exec[e] EXCEPT !.version = @ + 1] \in ExecRow
        BY <1>1, <4>1 DEF ExecRow
      <4>3. exec' = [exec EXCEPT ![e] = [exec[e] EXCEPT !.version = @ + 1]]
        BY <2>2
      <4>. QED  BY <4>1, <4>2, <4>3
    <3>2. dispatch' \in [Execs -> DispatchRow]
      BY <2>2, <1>1 DEF Typed, TypeOK, DispatchRow
    <3>3. input' \in [Execs -> SUBSET Inputs]
      BY <2>2, <1>1, <1>2 DEF Typed, TypeOK
    <3>. QED  BY <3>1, <3>2, <3>3
  <2>. QED  BY <2>1, <2>2 DEF Freeze
<1>4. /\ caller' \in [Callers -> CallerRow] /\ \A d \in Callers : Equipped(caller'[d])
  <2>1. CASE Moves(c, "resolve")
    BY <2>1, MoveTyped DEF Freeze, Driving
  <2>2. CASE Answers_(c, "rejected")
    BY <2>2, <1>1, AnswerTyped DEF Answers_, Returns, Answers
  <2>. QED  BY <2>1, <2>2 DEF Freeze
<1>. QED  BY <1>3, <1>4 DEF Typed, TypeOK, Freeze

LEMMA DriveTyped ==
    ASSUME Typed, NEW c \in Callers, Resolve(c) \/ StartProvider(c) \/ RecordStart(c)
    PROVE  Typed'
<1>1. caller[c].exec \in Execs
  BY DEF Typed, Equipped, Driving, Resolve, StartProvider, RecordStart
<1>2. /\ starts' \in [Execs -> Nat] /\ UNCHANGED <<work, exec, input, final, evidence, calls, deaths>>
  BY <1>1 DEF Typed, TypeOK, rows, Resolve, StartProvider, RecordStart
<1>3. dispatch' \in [Execs -> DispatchRow]
  <2>1. CASE RecordStart(c)
    BY <2>1, <1>1, SMTT(30) DEF RecordStart, Settled, Typed, TypeOK, DispatchRow
  <2>2. CASE Resolve(c) \/ StartProvider(c)
    BY <2>2 DEF Resolve, StartProvider, rows, Typed, TypeOK
  <2>. QED  BY <2>1, <2>2
<1>4. /\ caller' \in [Callers -> CallerRow] /\ \A d \in Callers : Equipped(caller'[d])
  <2>1. CASE RecordStart(c)
    <3>1. Recorded(Settled(c)) \in Answers
      BY DEF Recorded, Settled, Answers
    <3>. QED  BY <2>1, <3>1, <1>1, AnswerTyped DEF RecordStart, Answers_, Returns
  <2>2. CASE Resolve(c)
    BY <2>2, MoveTyped DEF Resolve, Driving
  <2>3. CASE StartProvider(c)
    BY <2>3, MoveTyped DEF StartProvider, Driving
  <2>. QED  BY <2>1, <2>2, <2>3
<1>. QED  BY <1>2, <1>3, <1>4 DEF Typed, TypeOK

LEMMA ProjectTyped == ASSUME Typed, NEW c \in Callers, Project(c) PROVE Typed'
<1>1. caller[c].exec \in Execs /\ caller[c].proj \in Projection
  BY DEF Typed, Equipped, Project
<1>2. exec' \in [Execs -> ExecRow]
  BY <1>1 DEF Typed, TypeOK, ExecRow, Project
<1>3. /\ caller' \in [Callers -> CallerRow] /\ \A d \in Callers : Equipped(caller'[d])
  BY <1>1, AnswerTyped DEF Project, Answers_, Returns, Answers
<1>. QED  BY <1>2, <1>3 DEF Typed, TypeOK, Project

LEMMA RaiseTyped == ASSUME Typed, NEW c \in Callers, Raise(c) PROVE Typed'
<1>1. caller[c].exec \in Execs \cup {NULL}
  BY DEF Typed, TypeOK, CallerRow
<1>2. /\ caller' \in [Callers -> CallerRow] /\ \A d \in Callers : Equipped(caller'[d])
  BY <1>1, AnswerTyped DEF Raise, Answers_, Returns, Answers
<1>. QED  BY <1>2 DEF Typed, TypeOK, Raise, rows

LEMMA DieTyped == ASSUME Typed, Die PROVE Typed'
<1>1. deaths' \in 0..MaxDeaths
  BY CoreAssumption DEF Typed, TypeOK, Die
<1>2. /\ caller' \in [Callers -> CallerRow] /\ \A d \in Callers : Equipped(caller'[d])
  BY DEF Die, Nobody, CallerRow, Answers, Equipped, Driving
<1>. QED  BY <1>1, <1>2 DEF Typed, TypeOK, Die, rows

\* What the writes that no caller's row takes part in leave behind.
LEMMA RowsTyped ==
    ASSUME Typed, \/ \E w \in Works : CreateWork(w) \/ \E e \in Execs : CreateExecution(e, w)
                  \/ \E e \in Execs, i \in Inputs : AttachInput(e, i)
                  \/ \E e \in Execs, about \in SUBSET Inputs :
                        \/ RecordEvidence(e, about)
                        \/ \E k \in Keys, o \in Outcomes, fresh \in Freshness, time \in Times :
                              Finalize(e, k, o, fresh, time, about)
    PROVE  Typed' /\ UNCHANGED <<caller, dispatch, starts>>
<1>1. CASE \E w \in Works : CreateWork(w)
  BY <1>1 DEF CreateWork, Typed, TypeOK, WorkRow
<1>2. CASE \E w \in Works, e \in Execs : CreateExecution(e, w)
  <2>1. PICK w \in Works, e \in Execs : CreateExecution(e, w)
    BY <1>2
  <2>2. [phase |-> "unknown", outcome |-> NULL, fresh |-> "stale", at |-> 0] \in Projection
    BY CoreAssumption DEF Projection
  <2>. HIDE DEF Projection
  <2>3. exec' \in [Execs -> ExecRow]
    BY <2>1, <2>2 DEF CreateExecution, Typed, TypeOK, ExecRow
  <2>. QED  BY <2>1, <2>3 DEF CreateExecution, Typed, TypeOK
<1>3. CASE \E e \in Execs, i \in Inputs : AttachInput(e, i)
  BY <1>3 DEF AttachInput, Typed, TypeOK
<1>4. CASE \E e \in Execs, about \in SUBSET Inputs : RecordEvidence(e, about)
  BY <1>4 DEF RecordEvidence, Typed, TypeOK
<1>5. CASE \E e \in Execs, about \in SUBSET Inputs, k \in Keys, o \in Outcomes, fresh \in Freshness, time \in Times :
              Finalize(e, k, o, fresh, time, about)
  <2>1. PICK e \in Execs, about \in SUBSET Inputs, k \in Keys, o \in Outcomes, fresh \in Freshness, time \in Times :
              Finalize(e, k, o, fresh, time, about)
    BY <1>5
  <2>. DEFINE proj == [phase |-> "terminal", outcome |-> o, fresh |-> fresh, at |-> time]
  <2>2. proj \in Projection
    BY DEF Projection
  <2>. DEFINE mid == [exec[e] EXCEPT !.version = @ + 1]
              next == [mid EXCEPT !.proj = proj]
  <2>3. exec' = [exec EXCEPT ![e] = next]
    BY <2>1 DEF Finalize, Typed, TypeOK, ExecRow
  <2>6. mid \in ExecRow
    BY DEF Typed, TypeOK, ExecRow
  <2>. HIDE DEF proj, mid
  <2>7. next \in ExecRow
    BY <2>2, <2>6 DEF ExecRow
  <2>. HIDE DEF next
  <2>5. exec' \in [Execs -> ExecRow]
    BY <2>3, <2>7 DEF Typed, TypeOK
  <2>4. final' \in [Execs -> FinalRow \cup {NULL}]
    BY <2>1 DEF Finalize, Typed, TypeOK, FinalRow
  <2>. QED  BY <2>1, <2>4, <2>5 DEF Finalize, Typed, TypeOK
<1>. QED  BY <1>1, <1>2, <1>3, <1>4, <1>5

LEMMA TypedStep == Typed /\ [Next]_vars => Typed'
<1>. SUFFICES ASSUME Typed, [Next]_vars PROVE Typed'
  OBVIOUS
<1>1. CASE UNCHANGED vars
  BY <1>1 DEF vars, rows, Typed, TypeOK
<1>2. CASE \E c \in Callers : Step(c)
  BY <1>2, UpdateWorkTyped, FreezeTyped, DriveTyped, ProjectTyped, RaiseTyped DEF Step
<1>3. CASE \E c \in Callers : \/ \E w \in Works, to \in {"close", "reopen"} : ReadWork(c, w, to)
                              \/ \E e \in Execs, k \in Keys, I \in InputSets : Dispatch(c, e, k, I)
                              \/ \E e \in Execs, p \in Projection : Observe(c, e, p)
  BY <1>3, ReadWorkTyped, DispatchTyped, ObserveTyped
<1>4. CASE Die
  BY <1>4, DieTyped
<1>. QED  BY <1>1, <1>2, <1>3, <1>4, RowsTyped DEF Next

\* The rows, and what every call in progress holds, keep their types.
THEOREM CoreTypes == Spec => []TypeOK
<1>1. Spec => []Typed
  BY InitTyped, TypedStep, PTL DEF Spec
<1>2. Typed => TypeOK
  BY DEF Typed
<1>. QED  BY <1>1, <1>2, PTL

-----------------------------------------------------------------------------
(* Dispatch: one caller drives it, and the record is true *)

\* What the record says of the world.
RecordIsTrue ==
    \A e \in Execs :
        /\ dispatch[e].state \in {"none", "failed"} => starts[e] = 0
        /\ dispatch[e].state = "accepted" => starts[e] = 1
        /\ dispatch[e].state = "requested" => starts[e] \in {0, 1}

\* What a caller that drives a dispatch knows of it, and of the start it asked for.
Drives(row) ==
    row.pc \in Driving =>
        /\ dispatch[row.exec].state = "requested"
        /\ row.pc \in {"resolve", "start", "fail"} => starts[row.exec] = 0
        /\ row.pc = "accept" => starts[row.exec] = 1

\* What a caller was told is on record.
ToldTheRecord(row) ==
    row.exec # NULL /\ row.answer \in {"accepted", "failed"} =>
        dispatch[row.exec].state = row.answer

OneDriver ==
    \A c, d \in Callers :
        /\ caller[c].pc \in Driving /\ caller[d].pc \in Driving
        /\ caller[c].exec = caller[d].exec
        => c = d

DispatchInv ==
    /\ RecordIsTrue
    /\ \A c \in Callers : Drives(caller[c]) /\ ToldTheRecord(caller[c])
    /\ OneDriver

\* A step that leaves dispatches and starts alone, after which a caller whose row it
\* changed drives nothing and was told at most what is on record.
LEMMA QuietInv ==
    ASSUME DispatchInv, UNCHANGED <<dispatch, starts>>,
           \A c \in Callers : \/ caller'[c] = caller[c]
                              \/ caller'[c].pc \notin Driving /\ ToldTheRecord(caller'[c])
    PROVE  DispatchInv'
<1>1. RecordIsTrue'
  BY DEF DispatchInv, RecordIsTrue
<1>2. \A c \in Callers : Drives(caller'[c]) /\ ToldTheRecord(caller'[c])
  BY DEF DispatchInv, Drives
<1>3. (\A c \in Callers : Drives(caller[c]) /\ ToldTheRecord(caller[c]))'
  BY <1>2 DEF Drives, ToldTheRecord
<1>4. OneDriver'
  BY DEF DispatchInv, OneDriver
<1>. QED  BY <1>1, <1>3, <1>4 DEF DispatchInv

\* A step of one caller that changes at most its own dispatch, out of which nobody else
\* was told anything.
LEMMA DriverInv ==
    ASSUME DispatchInv, Typed, Typed', NEW c \in Callers, NEW e \in Execs,
           \A d \in Callers \ {c} : caller'[d] = caller[d],
           \A f \in Execs \ {e} : dispatch'[f] = dispatch[f] /\ starts'[f] = starts[f],
           dispatch[e].state \in {"none", "requested"},
           \A d \in Callers \ {c} : ~(caller[d].pc \in Driving /\ caller[d].exec = e),
           caller'[c].exec = e,
           Drives(caller[c])', ToldTheRecord(caller[c])', RecordIsTrue'
    PROVE  DispatchInv'
<1>1. ASSUME NEW d \in Callers \ {c} PROVE (Drives(caller[d]) /\ ToldTheRecord(caller[d]))'
  <2>1. caller'[d] = caller[d] /\ Drives(caller[d]) /\ ToldTheRecord(caller[d])
    BY DEF DispatchInv
  <2>2. caller[d].pc \in Driving => caller[d].exec \in Execs \ {e}
    BY DEF Typed, Equipped
  <2>3. caller[d].exec \in Execs \cup {NULL}
    BY DEF Typed, TypeOK, CallerRow
  <2>4. caller[d].exec = e => caller[d].answer \notin {"accepted", "failed"}
    BY <2>1, <2>3, CoreAssumption DEF ToldTheRecord
  <2>. QED  BY <2>1, <2>2, <2>3, <2>4 DEF Drives, ToldTheRecord
<1>2. OneDriver'
  BY DEF DispatchInv, OneDriver
<1>. QED  BY <1>1, <1>2 DEF DispatchInv

LEMMA InitDispatch == Init => DispatchInv
  BY DEF Init, Nobody, DispatchInv, RecordIsTrue, Drives, ToldTheRecord, OneDriver, Driving

LEMMA DispatchQuiet ==
    ASSUME DispatchInv, Typed, NEW c \in Callers, NEW e \in Execs, NEW k \in Keys,
           NEW I \in InputSets, Dispatch(c, e, k, I)
    PROVE  DispatchInv'
<1>1. UNCHANGED <<dispatch, starts>>
  BY DEF Dispatch, rows
<1>2. CASE \E f \in Execs : /\ dispatch[f].key = k
                            /\ Returns(c, e, IF f # e \/ dispatch[f].digest # I THEN "rejected"
                                             ELSE Recorded(dispatch[f].state))
  <2>1. PICK answer \in Answers : /\ Returns(c, e, answer)
                                  /\ answer \in {"accepted", "failed"} => dispatch[e].state = answer
    BY <1>2 DEF Recorded, Answers
  <2>2. caller'[c].pc = "idle" /\ caller'[c].exec = e /\ caller'[c].answer = answer
        /\ \A d \in Callers \ {c} : caller'[d] = caller[d]
    BY <2>1, AnswerTyped
  <2>. QED  BY <1>1, <2>1, <2>2, QuietInv DEF ToldTheRecord, Driving
<1>3. CASE Goes(c, [Nobody EXCEPT !.pc = "freeze", !.exec = e, !.key = k, !.digest = I])
  <2>1. caller'[c].pc = "freeze" /\ caller'[c].answer = "none" /\ \A d \in Callers \ {c} : caller'[d] = caller[d]
    BY <1>3 DEF Goes, Nobody, Typed, TypeOK
  <2>. QED  BY <1>1, <2>1, QuietInv DEF ToldTheRecord, Driving
<1>. QED  BY <1>2, <1>3 DEF Dispatch

LEMMA ObserveQuiet ==
    ASSUME DispatchInv, Typed, NEW c \in Callers, NEW e \in Execs, NEW p \in Projection, Observe(c, e, p)
    PROVE  DispatchInv'
<1>1. UNCHANGED <<dispatch, starts>>
  BY DEF Observe, rows
<1>2. /\ caller'[c].pc \in {"idle", "project"} /\ caller'[c].answer \in {"none", "rejected", "done"}
      /\ \A d \in Callers \ {c} : caller'[d] = caller[d]
  <2>1. caller \in [Callers -> CallerRow]
    BY DEF Typed, TypeOK
  <2>2. CASE \E answer \in {"rejected", "done"} : Returns(c, e, answer)
    BY <2>1, <2>2, AnswerTyped DEF Answers
  <2>3. CASE Goes(c, [Nobody EXCEPT !.pc = "project", !.exec = e, !.proj = p, !.base = exec[e].version])
    BY <2>1, <2>3 DEF Goes, Nobody
  <2>. QED  BY <2>2, <2>3 DEF Observe
<1>. QED  BY <1>1, <1>2, QuietInv DEF ToldTheRecord, Driving

\* Works, a projection's write, and calls that raise.
LEMMA OtherCallsQuiet ==
    ASSUME DispatchInv, Typed, NEW c \in Callers,
           \/ \E w \in Works, to \in {"close", "reopen"} : ReadWork(c, w, to)
           \/ UpdateWork(c) \/ Project(c) \/ Raise(c)
    PROVE  DispatchInv'
<1>1. UNCHANGED <<dispatch, starts>>
  BY DEF ReadWork, UpdateWork, Project, Raise, rows
<1>2. /\ caller'[c].pc \in {"idle", "close", "reopen"} /\ caller'[c].answer \in {"none", "done", "error"}
      /\ \A d \in Callers \ {c} : caller'[d] = caller[d]
  <2>1. CASE \E w \in Works, to \in {"close", "reopen"} : ReadWork(c, w, to)
    BY <2>1 DEF ReadWork, Goes, Nobody, Typed, TypeOK
  <2>2. CASE UpdateWork(c)
    BY <2>2, AnswerTyped DEF UpdateWork, Answers
  <2>3. CASE Project(c) \/ Raise(c)
    <3>1. caller[c].exec \in Execs \cup {NULL}
      BY DEF Typed, TypeOK, CallerRow
    <3>. QED  BY <2>3, <3>1, AnswerTyped DEF Project, Raise, Answers_, Returns, Answers
  <2>. QED  BY <2>1, <2>2, <2>3
<1>. QED  BY <1>1, <1>2, QuietInv DEF ToldTheRecord, Driving

LEMMA FreezeInv == ASSUME DispatchInv, Typed, Typed', NEW c \in Callers, Freeze(c) PROVE DispatchInv'
<1>. DEFINE e == caller[c].exec
<1>1. e \in Execs
  BY DEF Typed, Equipped, Freeze
<1>2. CASE Answers_(c, "rejected") /\ UNCHANGED dispatch
  <2>1. /\ caller'[c].pc = "idle" /\ caller'[c].answer = "rejected"
        /\ \A d \in Callers \ {c} : caller'[d] = caller[d]
    BY <1>1, <1>2, AnswerTyped DEF Answers_, Returns, Answers
  <2>. QED  BY <1>2, <2>1, QuietInv DEF ToldTheRecord, Driving, Freeze
<1>3. CASE /\ FreezeAllowed(c) /\ Moves(c, "resolve")
           /\ dispatch' = [dispatch EXCEPT ![e] = [state |-> "requested", key |-> caller[c].key,
                                                   digest |-> caller[c].digest]]
  <2>1. /\ caller'[c].pc = "resolve" /\ caller'[c].exec = e /\ caller'[c].answer = caller[c].answer
        /\ \A d \in Callers \ {c} : caller'[d] = caller[d]
    BY <1>3, MoveTyped DEF Freeze, Driving
  <2>2. dispatch[e].state = "none" /\ starts[e] = 0
    BY <1>1, <1>3 DEF FreezeAllowed, Dispatched, DispatchInv, RecordIsTrue
  <2>3. /\ dispatch'[e].state = "requested" /\ starts' = starts
        /\ \A f \in Execs \ {e} : dispatch'[f] = dispatch[f]
    BY <1>1, <1>3 DEF Freeze, Typed, TypeOK
  <2>4. \A d \in Callers : ~(caller[d].pc \in Driving /\ caller[d].exec = e)
    BY <2>2 DEF DispatchInv, Drives
  <2>5. caller[c].answer \notin {"accepted", "failed"}
    BY <1>1, <2>2, CoreAssumption DEF DispatchInv, ToldTheRecord
  <2>6. Drives(caller[c])' /\ ToldTheRecord(caller[c])'
    BY <2>1, <2>2, <2>3, <2>5 DEF Drives, ToldTheRecord
  <2>7. RecordIsTrue'
    BY <2>2, <2>3 DEF DispatchInv, RecordIsTrue
  <2>. QED  BY <1>1, <2>1, <2>2, <2>3, <2>4, <2>6, <2>7, DriverInv
<1>. QED  BY <1>2, <1>3 DEF Freeze

\* What every step of a driver rests on.
LEMMA DriverAlone ==
    ASSUME DispatchInv, Typed, NEW c \in Callers, caller[c].pc \in Driving
    PROVE  /\ caller[c].exec \in Execs /\ dispatch[caller[c].exec].state = "requested"
           /\ \A d \in Callers \ {c} : ~(caller[d].pc \in Driving /\ caller[d].exec = caller[c].exec)
           /\ caller[c].answer \notin {"accepted", "failed"}
<1>1. caller[c].exec \in Execs
  BY DEF Typed, Equipped
<1>2. dispatch[caller[c].exec].state = "requested"
  BY DEF DispatchInv, Drives
<1>. QED  BY <1>1, <1>2, CoreAssumption DEF DispatchInv, OneDriver, ToldTheRecord

LEMMA ResolveInv == ASSUME DispatchInv, Typed, Typed', NEW c \in Callers, Resolve(c) PROVE DispatchInv'
<1>. DEFINE e == caller[c].exec
<1>1. /\ e \in Execs /\ dispatch[e].state = "requested" /\ caller[c].answer \notin {"accepted", "failed"}
      /\ \A d \in Callers \ {c} : ~(caller[d].pc \in Driving /\ caller[d].exec = e)
  BY DriverAlone DEF Resolve, Driving
<1>2. starts[e] = 0
  BY DEF Resolve, DispatchInv, Drives, Driving
<1>3. /\ caller'[c].pc \in {"start", "fail"} /\ caller'[c].exec = e /\ caller'[c].answer = caller[c].answer
      /\ \A d \in Callers \ {c} : caller'[d] = caller[d]
  BY MoveTyped DEF Resolve, Driving
<1>4. UNCHANGED <<dispatch, starts>>
  BY DEF Resolve, rows
<1>5. Drives(caller[c])' /\ ToldTheRecord(caller[c])'
  BY <1>1, <1>2, <1>3, <1>4 DEF Drives, ToldTheRecord
<1>6. RecordIsTrue'
  BY <1>4 DEF DispatchInv, RecordIsTrue
<1>. QED  BY <1>1, <1>3, <1>4, <1>5, <1>6, DriverInv

LEMMA StartInv == ASSUME DispatchInv, Typed, Typed', NEW c \in Callers, StartProvider(c) PROVE DispatchInv'
<1>. DEFINE e == caller[c].exec
<1>1. /\ e \in Execs /\ dispatch[e].state = "requested" /\ caller[c].answer \notin {"accepted", "failed"}
      /\ \A d \in Callers \ {c} : ~(caller[d].pc \in Driving /\ caller[d].exec = e)
  BY DriverAlone DEF StartProvider, Driving
<1>2. starts[e] = 0
  BY DEF StartProvider, DispatchInv, Drives, Driving
<1>3. /\ caller'[c].exec = e /\ caller'[c].answer = caller[c].answer
      /\ \A d \in Callers \ {c} : caller'[d] = caller[d]
      /\ \/ caller'[c].pc \in {"accept", "doubt"} /\ starts' = [starts EXCEPT ![e] = @ + 1]
         \/ caller'[c].pc \in {"fail", "doubt"} /\ starts' = starts
  BY MoveTyped DEF StartProvider, Driving
<1>4. /\ dispatch' = dispatch /\ \A f \in Execs \ {e} : starts'[f] = starts[f]
      /\ \/ caller'[c].pc \in {"accept", "doubt"} /\ starts'[e] = 1
         \/ caller'[c].pc \in {"fail", "doubt"} /\ starts'[e] = 0
  BY <1>1, <1>2, <1>3 DEF StartProvider, rows, Typed, TypeOK
<1>5. Drives(caller[c])' /\ ToldTheRecord(caller[c])'
  BY <1>1, <1>3, <1>4 DEF Drives, ToldTheRecord
<1>6. RecordIsTrue'
  BY <1>1, <1>4 DEF DispatchInv, RecordIsTrue
<1>. QED  BY <1>1, <1>3, <1>4, <1>5, <1>6, DriverInv

LEMMA RecordInv == ASSUME DispatchInv, Typed, Typed', NEW c \in Callers, RecordStart(c) PROVE DispatchInv'
<1>. DEFINE e == caller[c].exec
<1>1. /\ e \in Execs /\ dispatch[e].state = "requested"
      /\ \A d \in Callers \ {c} : ~(caller[d].pc \in Driving /\ caller[d].exec = e)
  BY DriverAlone DEF RecordStart, Driving
<1>2. /\ caller[c].pc = "fail" => starts[e] = 0
      /\ caller[c].pc = "accept" => starts[e] = 1
      /\ starts[e] \in {0, 1}
  BY <1>1 DEF DispatchInv, Drives, Driving, RecordIsTrue
<1>3. Recorded(Settled(c)) \in Answers
  BY DEF Recorded, Settled, Answers
<1>4. /\ caller'[c].pc = "idle" /\ caller'[c].exec = e /\ caller'[c].answer = Recorded(Settled(c))
      /\ \A d \in Callers \ {c} : caller'[d] = caller[d]
  BY <1>1, <1>3, AnswerTyped DEF RecordStart, Answers_, Returns
<1>5. /\ starts' = starts /\ dispatch'[e].state = Settled(c)
      /\ \A f \in Execs \ {e} : dispatch'[f] = dispatch[f]
  BY <1>1 DEF RecordStart, Typed, TypeOK, DispatchRow
<1>6. Drives(caller[c])' /\ ToldTheRecord(caller[c])'
  BY <1>4, <1>5 DEF Drives, ToldTheRecord, Recorded, Settled, Driving
<1>7. RecordIsTrue'
  BY <1>1, <1>2, <1>5 DEF DispatchInv, RecordIsTrue, Settled
<1>. QED  BY <1>1, <1>4, <1>5, <1>6, <1>7, DriverInv

LEMMA DispatchStep == DispatchInv /\ Typed /\ [Next]_vars => DispatchInv'
<1>. SUFFICES ASSUME DispatchInv, Typed, [Next]_vars PROVE DispatchInv'
  OBVIOUS
<1>0. Typed'
  BY TypedStep
<1>1. CASE UNCHANGED vars
  BY <1>1, QuietInv DEF vars, rows
<1>2. CASE \E c \in Callers : Step(c)
  BY <1>0, <1>2, FreezeInv, ResolveInv, StartInv, RecordInv, OtherCallsQuiet DEF Step
<1>3. CASE \E c \in Callers : \/ \E w \in Works, to \in {"close", "reopen"} : ReadWork(c, w, to)
                              \/ \E e \in Execs, k \in Keys, I \in InputSets : Dispatch(c, e, k, I)
                              \/ \E e \in Execs, p \in Projection : Observe(c, e, p)
  BY <1>3, OtherCallsQuiet, DispatchQuiet, ObserveQuiet
<1>4. CASE Die
  <2>1. /\ UNCHANGED <<dispatch, starts>>
        /\ \A c \in Callers : caller'[c].pc = "idle" /\ caller'[c].answer = "none"
    BY <1>4 DEF Die, rows, Nobody
  <2>. QED  BY <2>1, QuietInv DEF ToldTheRecord, Driving
<1>5. CASE UNCHANGED <<caller, dispatch, starts>>
  BY <1>5, QuietInv
<1>. QED  BY <1>1, <1>2, <1>3, <1>4, <1>5, RowsTyped DEF Next

LEMMA CoreInvariant == Spec => [](Typed /\ DispatchInv)
  BY InitTyped, InitDispatch, TypedStep, DispatchStep, PTL DEF Spec

\* What a dispatching caller was told is true of the world: accepted, that the execution was
\* started once, and failed, that it never was, replays after a death included.
THEOREM AnswersTellTheWorld == Spec => []AnswersAreTrue
<1>1. Typed /\ DispatchInv => AnswersAreTrue
  <2>. SUFFICES ASSUME Typed, DispatchInv, NEW c \in Callers, caller[c].exec # NULL
                PROVE  /\ caller[c].answer = "accepted" => starts[caller[c].exec] = 1
                       /\ caller[c].answer = "failed" => starts[caller[c].exec] = 0
    BY DEF AnswersAreTrue
  <2>1. caller[c].exec \in Execs
    BY DEF Typed, TypeOK, CallerRow
  <2>. QED  BY <2>1 DEF DispatchInv, ToldTheRecord, RecordIsTrue
<1>. QED  BY <1>1, CoreInvariant, PTL

-----------------------------------------------------------------------------
(* Projection: what a caller is about to write is no older than the row *)

\* An observation in hand was computed from some version of its execution's row; if that
\* is still the version, it is in its provider's order and agrees with the seal.
InOrder(row) ==
    row.pc = "project" =>
        LET e == row.exec IN
        /\ Exists(e) /\ row.base <= exec[e].version
        /\ row.base = exec[e].version =>
              /\ row.proj.at >= exec[e].proj.at
              /\ Terminal(e) <=> row.proj.phase = "terminal"
              /\ Terminal(e) => row.proj.outcome = exec[e].proj.outcome

ObservedInOrder == \A c \in Callers : InOrder(caller[c])

LEMMA ProjectionFields ==
    ASSUME NEW p \in Projection
    PROVE  /\ p # NULL /\ p.at \in Nat /\ p.phase \in {"unknown", "active", "terminal"}
           /\ p.phase = "terminal" => p.outcome \in Outcomes
  BY CoreAssumption, NullAssumption DEF Projection

LEMMA ExecFields ==
    ASSUME Typed, NEW e \in Execs
    PROVE  /\ exec[e].version \in Nat /\ exec[e].proj \in Projection \cup {NULL}
           /\ Exists(e) => exec[e].proj \in Projection
  BY DEF Typed, TypeOK, ExecRow, Exists

\* What a step may do to an execution that exists.
Advances(e) == exec'[e] = exec[e] \/ exec'[e].version > exec[e].version

\* A version that moves on leaves every older observation behind.
LEMMA InOrderKept ==
    ASSUME Typed, ObservedInOrder, NEW c \in Callers, caller'[c] = caller[c],
           \A e \in Execs : Exists(e) => Exists(e)' /\ Advances(e) /\ exec'[e].version \in Nat
    PROVE  InOrder(caller[c])'
<1>. SUFFICES ASSUME caller[c].pc = "project"
              PROVE  InOrder(caller[c])'
  BY DEF InOrder
<1>. DEFINE e == caller[c].exec
<1>1. e \in Execs /\ caller[c].base \in Nat /\ exec[e].version \in Nat
  BY ExecFields DEF Typed, TypeOK, CallerRow, Equipped
<1>2. InOrder(caller[c]) /\ Exists(e)
  BY DEF ObservedInOrder, InOrder
<1>3. CASE exec'[e] = exec[e]
  BY <1>2, <1>3 DEF InOrder, Exists, Terminal
<1>4. CASE exec'[e].version > exec[e].version /\ Exists(e)' /\ exec'[e].version \in Nat
  <2>1. caller[c].base < exec'[e].version
    BY <1>1, <1>2, <1>4 DEF InOrder
  <2>. QED  BY <1>1, <1>4, <2>1 DEF InOrder
<1>. QED  BY <1>1, <1>2, <1>3, <1>4 DEF Advances

\* What Project writes, when it does.
LEMMA ProjectWrites ==
    ASSUME Typed, ObservedInOrder, NEW c \in Callers, Project(c)
    PROVE  \/ exec' = exec
           \/ LET e == caller[c].exec IN
              /\ e \in Execs /\ Exists(e) /\ caller[c].proj \in Projection
              /\ exec' = [exec EXCEPT ![e].proj = caller[c].proj, ![e].version = @ + 1]
              /\ caller[c].proj.at >= exec[e].proj.at
              /\ Terminal(e) <=> caller[c].proj.phase = "terminal"
              /\ Terminal(e) => caller[c].proj.outcome = exec[e].proj.outcome
<1>1. caller[c].exec \in Execs /\ caller[c].proj \in Projection /\ caller[c].pc = "project"
  BY DEF Typed, Equipped, Project
<1>2. InOrder(caller[c])
  BY DEF ObservedInOrder
<1>. QED  BY <1>1, <1>2 DEF Project, Unchanged, InOrder

\* The row Project writes, field by field.
LEMMA ProjectedRow ==
    ASSUME Typed, NEW e \in Execs, NEW p,
           exec' = [exec EXCEPT ![e].proj = p, ![e].version = @ + 1]
    PROVE  /\ exec'[e].proj = p /\ exec'[e].version = exec[e].version + 1
           /\ \A f \in Execs \ {e} : exec'[f] = exec[f]
<1>. DEFINE mid == [exec EXCEPT ![e].proj = p]
<1>1. exec' = [mid EXCEPT ![e].version = @ + 1]
  OBVIOUS
<1>2. /\ mid[e] = [exec[e] EXCEPT !.proj = p] /\ DOMAIN mid = Execs
      /\ \A f \in Execs \ {e} : mid[f] = exec[f]
  BY DEF Typed, TypeOK
<1>3. exec[e] \in ExecRow
  BY DEF Typed, TypeOK
<1>4. mid[e].proj = p /\ mid[e].version = exec[e].version /\ DOMAIN mid[e] = {"work", "proj", "version"}
  BY <1>2, <1>3 DEF ExecRow
<1>. HIDE DEF mid
<1>5. exec'[e] = [mid[e] EXCEPT !.version = @ + 1] /\ \A f \in Execs \ {e} : exec'[f] = mid[f]
  BY <1>1, <1>2
<1>6. exec'[e].proj = p /\ exec'[e].version = mid[e].version + 1
  BY <1>4, <1>5
<1>. QED  BY <1>2, <1>4, <1>5, <1>6

\* The five things a step may do to the executions.
CreatedOne(e) == ~Exists(e) /\ Exists(e)' /\ exec'[e].proj.phase = "unknown"
FrozeOne(e) == exec'[e].proj = exec[e].proj /\ exec'[e].version = exec[e].version + 1
ProjectedOne(e) ==
    /\ Exists(e) /\ Exists(e)' /\ exec'[e].version = exec[e].version + 1
    /\ exec'[e].proj.at >= exec[e].proj.at
    /\ Terminal(e) <=> exec'[e].proj.phase = "terminal"
    /\ Terminal(e) => exec'[e].proj.outcome = exec[e].proj.outcome
SealedOne(e) ==
    /\ Exists(e) /\ Exists(e)' /\ exec'[e].version = exec[e].version + 1
    /\ ~Terminal(e) /\ final[e] = NULL /\ final'[e] # NULL
    /\ exec'[e].proj.phase = "terminal" /\ exec'[e].proj.outcome \in Outcomes
OneExecMoves ==
    \E e \in Execs :
        /\ \A f \in Execs \ {e} : exec'[f] = exec[f]
        /\ CreatedOne(e) \/ FrozeOne(e) \/ ProjectedOne(e) \/ SealedOne(e)

LEMMA CreateMoves ==
    ASSUME Typed, NEW w \in Works, NEW e \in Execs, CreateExecution(e, w)
    PROVE  OneExecMoves
<1>. DEFINE p == [phase |-> "unknown", outcome |-> NULL, fresh |-> "stale", at |-> 0]
<1>1. p \in Projection /\ p.phase = "unknown"
  BY CoreAssumption DEF Projection
<1>2. p # NULL
  BY <1>1, ProjectionFields
<1>3. exec' = [exec EXCEPT ![e].work = w, ![e].proj = p] /\ ~Exists(e)
  BY DEF CreateExecution
<1>. HIDE DEF p
<1>4. exec'[e].proj = p /\ \A f \in Execs \ {e} : exec'[f] = exec[f]
  <2>. DEFINE mid == [exec EXCEPT ![e].work = w]
  <2>1. exec' = [mid EXCEPT ![e].proj = p]
    BY <1>3
  <2>2. mid \in [Execs -> ExecRow] /\ \A f \in Execs \ {e} : mid[f] = exec[f]
    BY DEF Typed, TypeOK, ExecRow
  <2>. HIDE DEF mid
  <2>. QED  BY <2>1, <2>2 DEF ExecRow
<1>. QED  BY <1>1, <1>2, <1>3, <1>4 DEF OneExecMoves, CreatedOne, Exists

LEMMA FreezeMoves ==
    ASSUME Typed, NEW c \in Callers, Freeze(c)
    PROVE  exec' = exec \/ OneExecMoves
<1>. DEFINE e == caller[c].exec
<1>1. e \in Execs
  BY DEF Typed, Equipped, Freeze
<1>2. CASE exec' = [exec EXCEPT ![e].version = @ + 1]
  <2>1. FrozeOne(e) /\ \A f \in Execs \ {e} : exec'[f] = exec[f]
    BY <1>1, <1>2 DEF Typed, TypeOK, ExecRow, FrozeOne
  <2>. QED  BY <1>1, <2>1 DEF OneExecMoves
<1>. QED  BY <1>2 DEF Freeze

LEMMA ProjectMoves ==
    ASSUME Typed, ObservedInOrder, NEW c \in Callers, Project(c)
    PROVE  exec' = exec \/ OneExecMoves
<1>1. ASSUME NEW e \in Execs, NEW p \in Projection, Exists(e),
             exec' = [exec EXCEPT ![e].proj = p, ![e].version = @ + 1],
             p.at >= exec[e].proj.at,
             Terminal(e) <=> p.phase = "terminal",
             Terminal(e) => p.outcome = exec[e].proj.outcome
      PROVE  OneExecMoves
  <2>1. p # NULL
    BY <1>1, ProjectionFields
  <2>2. /\ exec'[e].proj = p /\ exec'[e].version = exec[e].version + 1
        /\ \A f \in Execs \ {e} : exec'[f] = exec[f]
    BY <1>1, ProjectedRow
  <2>3. ProjectedOne(e)
    BY <1>1, <2>1, <2>2 DEF ProjectedOne, Exists
  <2>. QED  BY <1>1, <2>2, <2>3 DEF OneExecMoves
<1>. QED  BY <1>1, ProjectWrites

LEMMA FinalizeMoves ==
    ASSUME Typed, NEW e \in Execs, NEW k \in Keys, NEW o \in Outcomes, NEW fresh \in Freshness,
           NEW time \in Times, NEW about \in SUBSET Inputs, Finalize(e, k, o, fresh, time, about)
    PROVE  /\ SealedOne(e) /\ exec'[e].proj.outcome = o
           /\ \A f \in Execs \ {e} : exec'[f] = exec[f]
<1>. DEFINE p == [phase |-> "terminal", outcome |-> o, fresh |-> fresh, at |-> time]
            row == [key |-> k, outcome |-> o, about |-> about]
<1>1. p \in Projection /\ p.phase = "terminal" /\ p.outcome = o
  BY DEF Projection
<1>2. p # NULL
  BY <1>1, ProjectionFields
<1>3. row \in FinalRow
  BY DEF FinalRow
<1>4. final'[e] # NULL
  BY <1>3, NullAssumption DEF Finalize, Typed, TypeOK
<1>5. /\ exec' = [exec EXCEPT ![e].version = @ + 1, ![e].proj = p]
      /\ Exists(e) /\ ~Terminal(e) /\ final[e] = NULL
  BY DEF Finalize
<1>. HIDE DEF p
<1>6. /\ exec'[e].proj = p /\ exec'[e].version = exec[e].version + 1
      /\ \A f \in Execs \ {e} : exec'[f] = exec[f]
  <2>. DEFINE mid == [exec EXCEPT ![e].version = @ + 1]
  <2>1. exec' = [mid EXCEPT ![e].proj = p]
    BY <1>5
  <2>2. /\ mid \in [Execs -> ExecRow] /\ \A f \in Execs \ {e} : mid[f] = exec[f]
        /\ mid[e].version = exec[e].version + 1
    BY SMTT(30) DEF Typed, TypeOK, ExecRow
  <2>. HIDE DEF mid
  <2>. QED  BY <2>1, <2>2 DEF ExecRow
<1>7. SealedOne(e)
  BY <1>1, <1>2, <1>4, <1>5, <1>6 DEF SealedOne, Exists
<1>. QED  BY <1>1, <1>6, <1>7

LEMMA ExecStep ==
    ASSUME Typed, ObservedInOrder, [Next]_vars
    PROVE  exec' = exec \/ OneExecMoves
<1>1. CASE UNCHANGED vars
  BY <1>1 DEF vars, rows
<1>2. CASE \E c \in Callers : Step(c)
  <2>1. PICK c \in Callers : Step(c)
    BY <1>2
  <2>2. CASE UpdateWork(c) \/ Resolve(c) \/ StartProvider(c) \/ RecordStart(c) \/ Raise(c)
    BY <2>2 DEF UpdateWork, Resolve, StartProvider, RecordStart, Raise, rows
  <2>. QED  BY <2>1, <2>2, FreezeMoves, ProjectMoves DEF Step
<1>3. CASE \E c \in Callers : \/ \E w \in Works, to \in {"close", "reopen"} : ReadWork(c, w, to)
                              \/ \E e \in Execs, k \in Keys, I \in InputSets : Dispatch(c, e, k, I)
                              \/ \E e \in Execs, p \in Projection : Observe(c, e, p)
  BY <1>3 DEF ReadWork, Dispatch, Observe, rows
<1>4. CASE \/ \E w \in Works : CreateWork(w)
           \/ \E e \in Execs, i \in Inputs : AttachInput(e, i)
           \/ \E e \in Execs, about \in SUBSET Inputs : RecordEvidence(e, about)
           \/ Die
  BY <1>4 DEF CreateWork, AttachInput, RecordEvidence, Die, rows
<1>5. CASE \E w \in Works, e \in Execs : CreateExecution(e, w)
  BY <1>5, CreateMoves
<1>6. CASE \E e \in Execs, about \in SUBSET Inputs, k \in Keys, o \in Outcomes, fresh \in Freshness, time \in Times :
              Finalize(e, k, o, fresh, time, about)
  BY <1>6, FinalizeMoves DEF OneExecMoves
<1>. QED  BY <1>1, <1>2, <1>3, <1>4, <1>5, <1>6 DEF Next

\* A call that goes on, or ends, has no projection to write.
LEMMA StepLeavesNone ==
    ASSUME Typed, NEW d \in Callers, Step(d)
    PROVE  caller'[d].pc # "project" /\ \A b \in Callers \ {d} : caller'[b] = caller[b]
<1>1. caller[d].exec \in Execs \cup {NULL}
  BY DEF Typed, TypeOK, CallerRow
<1>2. CASE \E answer \in Answers : Answers_(d, answer) \/ Returns(d, NULL, answer)
  BY <1>1, <1>2, AnswerTyped DEF Answers_, Returns
<1>3. CASE caller[d].pc \in Driving \cup {"freeze"} /\ \E pc \in Driving : Moves(d, pc)
  BY <1>3, MoveTyped DEF Driving
<1>4. CASE Freeze(d)
  BY <1>2, <1>3, <1>4 DEF Freeze, Driving, Answers
<1>5. CASE Resolve(d) \/ StartProvider(d)
  BY <1>3, <1>5 DEF Resolve, StartProvider, Driving
<1>6. CASE RecordStart(d)
  BY <1>2, <1>6 DEF RecordStart, Recorded, Settled, Answers
<1>7. CASE UpdateWork(d) \/ Project(d) \/ Raise(d)
  BY <1>2, <1>7 DEF UpdateWork, Project, Raise, Answers
<1>. QED  BY <1>4, <1>5, <1>6, <1>7 DEF Step

LEMMA ReadLeavesNone ==
    ASSUME Typed, NEW d \in Callers,
           \/ \E w \in Works, to \in {"close", "reopen"} : ReadWork(d, w, to)
           \/ \E e \in Execs, k \in Keys, I \in InputSets : Dispatch(d, e, k, I)
    PROVE  caller'[d].pc # "project" /\ \A b \in Callers \ {d} : caller'[b] = caller[b]
<1>1. ASSUME NEW w \in Works, NEW to \in {"close", "reopen"}, ReadWork(d, w, to)
      PROVE  caller'[d].pc # "project" /\ \A b \in Callers \ {d} : caller'[b] = caller[b]
  BY <1>1 DEF ReadWork, Goes, Nobody, Typed, TypeOK
<1>2. ASSUME NEW e \in Execs, NEW k \in Keys, NEW I \in InputSets, Dispatch(d, e, k, I)
      PROVE  caller'[d].pc # "project" /\ \A b \in Callers \ {d} : caller'[b] = caller[b]
  <2>1. CASE \E f \in Execs : /\ dispatch[f].key = k
                              /\ Returns(d, e, IF f # e \/ dispatch[f].digest # I THEN "rejected"
                                               ELSE Recorded(dispatch[f].state))
    BY <2>1, AnswerTyped DEF Recorded, Answers
  <2>2. CASE Goes(d, [Nobody EXCEPT !.pc = "freeze", !.exec = e, !.key = k, !.digest = I])
    BY <2>2 DEF Goes, Nobody, Typed, TypeOK
  <2>. QED  BY <1>2, <2>1, <2>2 DEF Dispatch
<1>. QED  BY <1>1, <1>2

LEMMA ObserveLeavesOthers ==
    ASSUME Typed, NEW d \in Callers, NEW e \in Execs, NEW p \in Projection, Observe(d, e, p)
    PROVE  exec' = exec /\ \A b \in Callers \ {d} : caller'[b] = caller[b]
  BY DEF Observe, rows, Returns, Goes, Typed, TypeOK

\* The rows move on; the callers: only an observation gets a projection to write.
LEMMA CallerStep ==
    ASSUME Typed, [Next]_vars, NEW c \in Callers
    PROVE  \/ caller'[c] = caller[c]
           \/ caller'[c].pc # "project"
           \/ \E e \in Execs, p \in Projection : Observe(c, e, p)
<1>0. CASE UNCHANGED caller
  BY <1>0
<1>1. CASE \E d \in Callers : Step(d)
  BY <1>1, StepLeavesNone
<1>2. ASSUME NEW d \in Callers,
             \/ \E w \in Works, to \in {"close", "reopen"} : ReadWork(d, w, to)
             \/ \E e \in Execs, k \in Keys, I \in InputSets : Dispatch(d, e, k, I)
      PROVE  caller'[c] = caller[c] \/ caller'[c].pc # "project"
  BY <1>2, ReadLeavesNone
<1>3. ASSUME NEW d \in Callers, NEW e \in Execs, NEW p \in Projection, Observe(d, e, p)
      PROVE  d = c \/ caller'[c] = caller[c]
  BY <1>3, ObserveLeavesOthers
<1>4. CASE Die
  BY <1>4 DEF Die, Nobody
<1>. QED  BY <1>0, <1>1, <1>2, <1>3, <1>4, RowsTyped DEF Next, vars

\* What Observe hands to Project.
LEMMA ObservesInOrder ==
    ASSUME Typed, NEW c \in Callers, NEW e \in Execs, NEW p \in Projection, Observe(c, e, p)
    PROVE  InOrder(caller[c])'
<1>1. CASE \E answer : Returns(c, e, answer)
  BY <1>1 DEF Returns, Goes, Nobody, InOrder, Typed, TypeOK
<1>2. CASE /\ Goes(c, [Nobody EXCEPT !.pc = "project", !.exec = e, !.proj = p, !.base = exec[e].version])
           /\ ~(p.at < exec[e].proj.at)
           /\ Terminal(e) <=> p.phase = "terminal"
           /\ Terminal(e) => p.outcome = exec[e].proj.outcome
  <2>1. /\ caller'[c].exec = e /\ caller'[c].proj = p /\ caller'[c].base = exec[e].version
    BY <1>2 DEF Goes, Nobody, Typed, TypeOK
  <2>2. exec' = exec /\ Exists(e)
    BY DEF Observe, rows
  <2>3. p.at >= exec[e].proj.at /\ exec[e].version \in Nat
    BY <1>2, <2>2, ProjectionFields, ExecFields
  <2>. QED  BY <1>2, <2>1, <2>2, <2>3 DEF InOrder, Exists, Terminal
<1>. QED  BY <1>1, <1>2 DEF Observe

LEMMA OrderStep == ObservedInOrder /\ Typed /\ [Next]_vars => ObservedInOrder'
<1>. SUFFICES ASSUME ObservedInOrder, Typed, [Next]_vars, NEW c \in Callers PROVE InOrder(caller[c])'
  BY DEF ObservedInOrder
<1>1. ASSUME NEW e \in Execs, Exists(e) PROVE Exists(e)' /\ Advances(e) /\ exec'[e].version \in Nat
  <2>1. exec'[e].version \in Nat /\ exec[e].version \in Nat
    BY TypedStep, ExecFields DEF Typed, TypeOK, ExecRow
  <2>2. CASE exec' = exec
    BY <1>1, <2>1, <2>2 DEF Exists, Advances
  <2>3. CASE OneExecMoves
    BY <1>1, <2>1, <2>3 DEF OneExecMoves, CreatedOne, FrozeOne, ProjectedOne, SealedOne, Exists, Advances
  <2>. QED  BY <2>2, <2>3, ExecStep
<1>2. CASE caller'[c] = caller[c]
  BY <1>1, <1>2, InOrderKept
<1>3. CASE caller'[c].pc # "project"
  BY <1>3 DEF InOrder
<1>4. CASE \E e \in Execs, p \in Projection : Observe(c, e, p)
  BY <1>4, ObservesInOrder
<1>. QED  BY <1>2, <1>3, <1>4, CallerStep

LEMMA InitOrder == Init => ObservedInOrder
  BY DEF Init, Nobody, ObservedInOrder, InOrder

LEMMA OrderInvariant == Spec => [](Typed /\ ObservedInOrder)
  BY InitTyped, InitOrder, TypedStep, OrderStep, PTL DEF Spec

\* No observation is written that was computed from a row that has changed since: no projection
\* goes back in its provider's time, and a sealed outcome stays.
THEOREM NoStaleObservation == Spec => HistoryIsKept
<1>1. ASSUME Typed, ObservedInOrder, [Next]_vars, NEW e \in Execs, Exists(e)
      PROVE  /\ final'[e] = final[e] => exec'[e].proj.at >= exec[e].proj.at
             /\ Terminal(e) => /\ exec'[e].proj.phase = "terminal"
                               /\ exec'[e].proj.outcome = exec[e].proj.outcome
  <2>1. exec[e].proj.at \in Nat
    BY <1>1, ExecFields, ProjectionFields
  <2>2. CASE exec'[e].proj = exec[e].proj
    BY <2>1, <2>2 DEF Terminal
  <2>3. CASE OneExecMoves
    BY <1>1, <2>1, <2>2, <2>3 DEF OneExecMoves, CreatedOne, FrozeOne, ProjectedOne, SealedOne
  <2>. QED  BY <1>1, <2>2, <2>3, ExecStep
<1>2. Typed /\ ObservedInOrder /\ [Next]_vars =>
        [\A e \in Execs : Exists(e) =>
          /\ final'[e] = final[e] => exec'[e].proj.at >= exec[e].proj.at
          /\ Terminal(e) => /\ exec'[e].proj.phase = "terminal"
                            /\ exec'[e].proj.outcome = exec[e].proj.outcome]_vars
  BY <1>1
<1>. QED  BY <1>2, OrderInvariant, PTL DEF Spec, HistoryIsKept

-----------------------------------------------------------------------------
(* The core implements StartPromise *)

\* The rows, as StartPromise sees them.
InputsOf(e) == IF Dispatched(e) THEN input[e] ELSE NULL
VerdictOf(e) == IF dispatch[e].state \in {"accepted", "failed"} THEN dispatch[e].state ELSE "open"
SealOf(e) == IF Terminal(e) THEN exec[e].proj.outcome ELSE NULL

LEMMA InitPromise == Init => Promise!Init
<1>. SUFFICES ASSUME Init PROVE Promise!Init
  OBVIOUS
<1>1. \A e \in Execs : ~Dispatched(e) /\ ~Terminal(e) /\ dispatch[e].state = "none"
  BY DEF Init, Dispatched, Terminal, Exists
<1>. QED  BY <1>1 DEF Init, Promise!Init

\* A step that leaves what the promise sees alone.
LEMMA Stutter ==
    ASSUME UNCHANGED starts,
           \A e \in Execs : InputsOf(e)' = InputsOf(e) /\ VerdictOf(e)' = VerdictOf(e) /\ SealOf(e)' = SealOf(e)
    PROVE  UNCHANGED Promise!vars
  BY DEF Promise!vars, InputsOf, VerdictOf, SealOf

\* Only a finalization changes what is sealed.
LEMMA SealKept ==
    ASSUME Typed, ObservedInOrder, [Next]_vars, final' = final, NEW e \in Execs
    PROVE  SealOf(e)' = SealOf(e)
<1>1. CASE exec' = exec
  BY <1>1 DEF SealOf, Terminal, Exists
<1>2. CASE OneExecMoves
  BY <1>2 DEF OneExecMoves, CreatedOne, FrozeOne, ProjectedOne, SealedOne, SealOf, Terminal, Exists
<1>. QED  BY <1>1, <1>2, ExecStep

LEMMA FreezeKeepsPromise ==
    ASSUME Typed, ObservedInOrder, NEW c \in Callers, Freeze(c)
    PROVE  [Promise!Next]_(Promise!vars)
<1>0. [Next]_vars /\ final' = final /\ starts' = starts
  BY DEF Freeze, Next, Step
<1>1. \A f \in Execs : SealOf(f)' = SealOf(f)
  BY <1>0, SealKept
<1>2. CASE UNCHANGED <<dispatch, input>>
  BY <1>0, <1>1, <1>2, Stutter DEF InputsOf, VerdictOf, Dispatched
<1>3. ASSUME NEW e \in Execs, NEW I \in InputSets, NEW k, ~Dispatched(e),
             dispatch' = [dispatch EXCEPT ![e] = [state |-> "requested", key |-> k, digest |-> I]],
             input' = [input EXCEPT ![e] = @ \cup I]
      PROVE  Promise!Fix(e)
  <2>1. /\ dispatch'[e].state = "requested" /\ \A f \in Execs \ {e} : dispatch'[f] = dispatch[f]
        /\ input'[e] = input[e] \cup I /\ \A f \in Execs \ {e} : input'[f] = input[f]
    BY <1>3 DEF Typed, TypeOK
  <2>2. input'[e] \in SUBSET Inputs
    BY <2>1, CoreAssumption DEF Typed, TypeOK
  <2>3. /\ InputsOf(e) = NULL /\ InputsOf(e)' = input'[e] /\ \A f \in Execs \ {e} : InputsOf(f)' = InputsOf(f)
        /\ \A f \in Execs : VerdictOf(f)' = VerdictOf(f)
    BY <1>3, <2>1 DEF InputsOf, VerdictOf, Dispatched
  <2>4. [f \in Execs |-> InputsOf(f)]' = [[f \in Execs |-> InputsOf(f)] EXCEPT ![e] = input'[e]]
    BY <2>3
  <2>. QED  BY <1>0, <1>1, <2>2, <2>3, <2>4 DEF Promise!Fix, InputsOf, VerdictOf, SealOf
<1>4. caller[c].exec \in Execs /\ caller[c].digest \in InputSets
  BY DEF Typed, Equipped, Freeze
<1>. QED  BY <1>2, <1>3, <1>4 DEF Freeze, FreezeAllowed, Promise!Next

LEMMA StartKeepsPromise ==
    ASSUME Typed, DispatchInv, ObservedInOrder, NEW c \in Callers, StartProvider(c)
    PROVE  [Promise!Next]_(Promise!vars)
<1>0. [Next]_vars /\ final' = final /\ UNCHANGED <<dispatch, input>>
  BY DEF StartProvider, Next, Step, rows
<1>1. \A f \in Execs : SealOf(f)' = SealOf(f) /\ InputsOf(f)' = InputsOf(f) /\ VerdictOf(f)' = VerdictOf(f)
  BY <1>0, SealKept DEF InputsOf, VerdictOf, Dispatched
<1>2. CASE starts' = starts
  BY <1>1, <1>2, Stutter
<1>3. ASSUME NEW e \in Execs, e = caller[c].exec, starts' = [starts EXCEPT ![e] = @ + 1]
      PROVE  Promise!Begin(e)
  <2>1. dispatch[e].state = "requested" /\ starts[e] = 0
    BY <1>3 DEF StartProvider, DispatchInv, Drives, Driving
  <2>2. InputsOf(e) # NULL /\ VerdictOf(e) = "open"
    BY <2>1, NullAssumption DEF InputsOf, VerdictOf, Dispatched, Typed, TypeOK
  <2>3. starts' = [starts EXCEPT ![e] = 1]
    BY <1>3, <2>1 DEF Typed, TypeOK
  <2>. QED  BY <1>1, <2>1, <2>2, <2>3 DEF Promise!Begin, InputsOf, VerdictOf, SealOf
<1>4. caller[c].exec \in Execs
  BY DriverAlone DEF StartProvider, Driving
<1>. QED  BY <1>2, <1>3, <1>4 DEF StartProvider, Promise!Next

LEMMA RecordKeepsPromise ==
    ASSUME Typed, DispatchInv, ObservedInOrder, NEW c \in Callers, RecordStart(c)
    PROVE  [Promise!Next]_(Promise!vars)
<1>0. [Next]_vars /\ final' = final /\ UNCHANGED <<starts, input>>
  BY DEF RecordStart, Next, Step
<1>1. \A f \in Execs : SealOf(f)' = SealOf(f)
  BY <1>0, SealKept
<1>2. ASSUME NEW e \in Execs, e = caller[c].exec
      PROVE  [Promise!Next]_(Promise!vars)
  <2>1. /\ dispatch[e].state = "requested"
        /\ caller[c].pc = "fail" => starts[e] = 0
        /\ caller[c].pc = "accept" => starts[e] = 1
    BY <1>2 DEF RecordStart, DispatchInv, Drives, Driving
  <2>2. /\ dispatch'[e].state = Settled(c) /\ \A f \in Execs \ {e} : dispatch'[f] = dispatch[f]
    BY <1>2 DEF RecordStart, Typed, TypeOK, DispatchRow
  <2>3. Settled(c) \in {"accepted", "failed", "requested"}
    BY DEF Settled
  <2>4. \A f \in Execs : InputsOf(f)' = InputsOf(f)
    BY <1>0, <2>1, <2>2, <2>3 DEF InputsOf, Dispatched
  <2>5. CASE caller[c].pc = "doubt"
    <3>1. \A f \in Execs : VerdictOf(f)' = VerdictOf(f)
      BY <2>1, <2>2, <2>5 DEF VerdictOf, Settled
    <3>. QED  BY <1>0, <1>1, <2>4, <3>1, Stutter
  <2>6. CASE caller[c].pc \in {"accept", "fail"}
    <3>1. InputsOf(e) # NULL /\ VerdictOf(e) = "open"
      BY <2>1, NullAssumption DEF InputsOf, VerdictOf, Dispatched, Typed, TypeOK
    <3>2. /\ VerdictOf(e)' = IF starts[e] = 1 THEN "accepted" ELSE "failed"
          /\ \A f \in Execs \ {e} : VerdictOf(f)' = VerdictOf(f)
      BY <2>1, <2>2, <2>6 DEF VerdictOf, Settled
    <3>3. [f \in Execs |-> VerdictOf(f)]'
          = [[f \in Execs |-> VerdictOf(f)] EXCEPT ![e] = IF starts[e] = 1 THEN "accepted" ELSE "failed"]
      BY <3>2
    <3>4. Promise!Judge(e)
      BY <1>0, <1>1, <2>4, <3>1, <3>3 DEF Promise!Judge, InputsOf, VerdictOf, SealOf
    <3>. QED  BY <3>4 DEF Promise!Next
  <2>. QED  BY <2>5, <2>6 DEF RecordStart
<1>3. caller[c].exec \in Execs
  BY DriverAlone DEF RecordStart, Driving
<1>. QED  BY <1>2, <1>3

LEMMA FinalizeKeepsPromise ==
    ASSUME Typed, NEW e \in Execs, NEW k \in Keys, NEW o \in Outcomes, NEW fresh \in Freshness,
           NEW time \in Times, NEW about \in SUBSET Inputs, Finalize(e, k, o, fresh, time, about)
    PROVE  Promise!Seal(e)
<1>1. SealedOne(e) /\ \A f \in Execs \ {e} : exec'[f] = exec[f]
  BY FinalizeMoves
<1>2. \A f \in Execs : InputsOf(f)' = InputsOf(f) /\ VerdictOf(f)' = VerdictOf(f)
  BY DEF Finalize, InputsOf, VerdictOf, Dispatched
<1>3. /\ SealOf(e) = NULL /\ SealOf(e)' \in Outcomes
      /\ \A f \in Execs \ {e} : SealOf(f)' = SealOf(f)
  BY <1>1 DEF SealedOne, SealOf, Terminal, Exists
<1>4. [f \in Execs |-> SealOf(f)]' = [[f \in Execs |-> SealOf(f)] EXCEPT ![e] = SealOf(e)']
  BY <1>3
<1>5. starts' = starts
  BY DEF Finalize
<1>. QED  BY <1>2, <1>3, <1>4, <1>5 DEF Promise!Seal, InputsOf, VerdictOf, SealOf

LEMMA AttachKeepsPromise ==
    ASSUME Typed, ObservedInOrder, NEW e \in Execs, NEW i \in Inputs, AttachInput(e, i)
    PROVE  UNCHANGED Promise!vars
<1>1. [Next]_vars /\ final' = final /\ starts' = starts
  BY DEF AttachInput, Next
<1>2. \A f \in Execs : SealOf(f)' = SealOf(f)
  BY <1>1, SealKept
<1>3. \A f \in Execs : InputsOf(f)' = InputsOf(f) /\ VerdictOf(f)' = VerdictOf(f)
  BY DEF AttachInput, InputsOf, VerdictOf, Dispatched, Typed, TypeOK
<1>. QED  BY <1>1, <1>2, <1>3, Stutter

LEMMA PromiseStep ==
    ASSUME Typed, DispatchInv, ObservedInOrder, [Next]_vars
    PROVE  [Promise!Next]_(Promise!vars)
<1>1. CASE UNCHANGED <<dispatch, input, final, starts>>
  <2>1. \A e \in Execs : InputsOf(e)' = InputsOf(e) /\ VerdictOf(e)' = VerdictOf(e) /\ SealOf(e)' = SealOf(e)
    BY <1>1, SealKept DEF InputsOf, VerdictOf, Dispatched
  <2>. QED  BY <1>1, <2>1, Stutter
<1>2. CASE \E c \in Callers : Step(c)
  <2>1. PICK c \in Callers : Step(c)
    BY <1>2
  <2>2. CASE UpdateWork(c) \/ Resolve(c) \/ Project(c) \/ Raise(c)
    BY <1>1, <2>2 DEF UpdateWork, Resolve, Project, Raise, rows
  <2>. QED  BY <2>1, <2>2, FreezeKeepsPromise, StartKeepsPromise, RecordKeepsPromise DEF Step
<1>3. CASE \E c \in Callers : \/ \E w \in Works, to \in {"close", "reopen"} : ReadWork(c, w, to)
                              \/ \E e \in Execs, k \in Keys, I \in InputSets : Dispatch(c, e, k, I)
                              \/ \E e \in Execs, p \in Projection : Observe(c, e, p)
  BY <1>1, <1>3 DEF ReadWork, Dispatch, Observe, rows
<1>4. CASE \/ \E w \in Works : CreateWork(w) \/ \E e \in Execs : CreateExecution(e, w)
           \/ \E e \in Execs, about \in SUBSET Inputs : RecordEvidence(e, about)
           \/ Die
  BY <1>1, <1>4 DEF CreateWork, CreateExecution, RecordEvidence, Die, rows
<1>5. CASE \E e \in Execs, i \in Inputs : AttachInput(e, i)
  BY <1>5, AttachKeepsPromise
<1>6. CASE \E e \in Execs, about \in SUBSET Inputs, k \in Keys, o \in Outcomes, fresh \in Freshness, time \in Times :
              Finalize(e, k, o, fresh, time, about)
  BY <1>6, FinalizeKeepsPromise DEF Promise!Next
<1>7. CASE UNCHANGED vars
  BY <1>1, <1>7 DEF vars, rows
<1>. QED  BY <1>2, <1>3, <1>4, <1>5, <1>6, <1>7 DEF Next

\* The core implements StartPromise: inputs fixed once and before anything starts, at most one
\* start, a verdict that is true and final, an outcome written once.
THEOREM CoreKeepsPromise == Spec => KeepsStartPromise
  BY InitPromise, PromiseStep, CoreInvariant, OrderInvariant, PTL DEF Spec, KeepsStartPromise, Promise!Spec

-----------------------------------------------------------------------------
(* The core's part of a step *)

\* The backend takes an answer from the core and the call is over.
Rests(t) ==
    /\ caller[t].pc = "idle" /\ caller' = [caller EXCEPT ![t] = Nobody]
    /\ UNCHANGED <<rows, starts, calls, deaths>>

LEMMA SealCoreFinalizes ==
    ASSUME NEW t \in Turns, SealCore(t)
    PROVE  \E o \in Outcomes, k \in Keys : Finalize(t, k, o, "stale", 0, {})
  BY BackendAssumption DEF SealCore

LEMMA CoreTakesPart ==
    ASSUME [TurnNext]_tvars
    PROVE  [Next]_vars \/ \E t \in Turns : Rests(t)
<1>1. CASE UNCHANGED vars
  BY <1>1
<1>2. CASE \E t \in Turns : FileWork(t) \/ FileExecution(t)
  BY <1>2, BackendAssumption DEF FileWork, FileExecution, Next
<1>3. CASE \E t \in Turns : EnterDispatch(t)
  BY <1>3, BackendAssumption DEF EnterDispatch, Next
<1>4. CASE \E t \in Turns : StartRun(t) \/ CoreStep(t) \/ CoreRaises(t)
  BY <1>4, BackendAssumption DEF StartRun, CoreStep, CoreRaises, Step, Next
<1>5. CASE \E t \in Turns : Dispatched_(t) \/ WorkClosed(t)
  BY <1>5 DEF Dispatched_, WorkClosed, Rests
<1>6. CASE \E t \in Turns : SealCore(t)
  BY <1>6, SealCoreFinalizes, BackendAssumption, CoreAssumption DEF Next
<1>7. CASE \E t \in Turns : CloseWork(t)
  BY <1>7, BackendAssumption DEF CloseWork, Next
<1>8. CASE ProcessDies
  BY <1>8 DEF ProcessDies, Next
<1>9. CASE \E t \in Turns : \/ Send(t) \/ Link(t) \/ FilingFails(t) \/ Bind(t) \/ SetRunning(t) \/ Register(t)
                            \/ Launch(t) \/ AcceptRaises(t) \/ Reject(t) \/ PromptEnds(t) \/ ConfirmStop(t)
  BY <1>9 DEF Send, Link, FilingFails, Bind, SetRunning, Register, Launch, AcceptRaises, Reject,
              PromptEnds, ConfirmStop
<1>10. CASE \E t \in Turns : \/ Decide(t) \/ FinishCancelled(t) \/ CompleteTurn(t) \/ Adopted(t) \/ FailTurn(t)
                             \/ CompletionRaises(t) \/ Cleanup(t) \/ Retire(t) \/ AcceptHeir(t) \/ HeirRefused(t)
  BY <1>10 DEF Decide, FinishCancelled, CompleteTurn, Adopted, FailTurn, CompletionRaises, Cleanup, Retire,
               AcceptHeir, HeirRefused
<1>11. CASE StopBegins \/ StopEnds \/ StartServer
  BY <1>11 DEF StopBegins, StopEnds, StartServer
<1>. QED  BY <1>1, <1>2, <1>3, <1>4, <1>5, <1>6, <1>7, <1>8, <1>9, <1>10, <1>11
          DEF TurnNext, Accept, Complete, Raises, tvars

-----------------------------------------------------------------------------
(* Types *)

BackendTyped ==
    /\ turn \in [Turns -> {"absent", "waiting", "paused"} \cup Active \cup Ended]
    /\ linked \in [Turns -> BOOLEAN]
    /\ at \in [Turns -> {"none", "filed"} \cup Filing \cup Accepting \cup Completing]
    /\ heir \in [Turns -> Turns \cup {NULL}]
    /\ held \in [Turns -> SUBSET {"context", "inputs", "handle", "active"}]
    /\ prompt \in [Turns -> {"none", "running", "ended", "cancelled", "error", "stopped"}]
    /\ confirmed \in [Turns -> BOOLEAN]
    /\ server \in {"up", "stopping", "stopped", "stuck", "down"}
    /\ snapshot \subseteq Turns
    /\ faults \in 0..MaxFaults

LEMMA FilingTypes ==
    ASSUME BackendTyped, NEW t \in Turns,
           \/ Send(t) \/ FileWork(t) \/ FileExecution(t) \/ Link(t) \/ FilingFails(t) \/ Bind(t)
    PROVE  BackendTyped'
<1>1. CASE Send(t)
  BY <1>1 DEF Send, Goto, runtime, BackendTyped, Active, Ended, Filing
<1>2. CASE FileWork(t) \/ FileExecution(t)
  BY <1>2 DEF FileWork, FileExecution, Advance, Goto, runtime, BackendTyped, Filing
<1>3. CASE Link(t)
  BY <1>3 DEF Link, Advance, Goto, runtime, BackendTyped, Accepting, Active
<1>4. CASE FilingFails(t)
  <2>1. faults' \in 0..MaxFaults
    BY <1>4, BackendAssumption DEF FilingFails, BackendTyped
  <2>2. at' \in [Turns -> {"none", "filed"} \cup Filing \cup Accepting \cup Completing]
    BY <1>4 DEF FilingFails, BackendTyped, Completing
  <2>3. heir' \in [Turns -> Turns \cup {NULL}]
    BY <1>4 DEF FilingFails, BackendTyped
  <2>. QED  BY <1>4, <2>1, <2>2, <2>3 DEF FilingFails, runtime, BackendTyped
<1>5. CASE Bind(t)
  BY <1>5, BackendAssumption DEF Bind, Goto, runtime, BackendTyped, Accepting
<1>. QED  BY <1>1, <1>2, <1>3, <1>4, <1>5

LEMMA AcceptTypes ==
    ASSUME BackendTyped, NEW t \in Turns,
           \/ EnterDispatch(t) \/ StartRun(t) \/ CoreStep(t) \/ CoreRaises(t) \/ Dispatched_(t)
           \/ SetRunning(t) \/ Register(t) \/ Launch(t) \/ AcceptRaises(t) \/ Reject(t)
    PROVE  BackendTyped'
<1>1. CASE EnterDispatch(t) \/ CoreStep(t) \/ CoreRaises(t)
  BY <1>1, BackendAssumption DEF EnterDispatch, CoreStep, CoreRaises, backend, runtime, BackendTyped
<1>2. CASE StartRun(t)
  BY <1>2 DEF StartRun, runtime, BackendTyped
<1>3. CASE Dispatched_(t) \/ SetRunning(t) \/ Register(t)
  BY <1>3 DEF Dispatched_, SetRunning, Register, Advance, Goto, runtime, BackendTyped, Accepting, Active
<1>4. CASE Launch(t)
  BY <1>4 DEF Launch, Returned, runtime, BackendTyped, Completing
<1>5. CASE AcceptRaises(t)
  BY <1>5, BackendAssumption DEF AcceptRaises, Goto, runtime, BackendTyped, Accepting
<1>6. CASE Reject(t)
  <2>1. turn' \in [Turns -> {"absent", "waiting", "paused"} \cup Active \cup Ended]
    BY <1>6 DEF Reject, EndTurn, Paused, BackendTyped, Ended
  <2>. QED  BY <1>6, <2>1 DEF Reject, Returned, runtime, BackendTyped
<1>. QED  BY <1>1, <1>2, <1>3, <1>4, <1>5, <1>6

LEMMA CompletionTypes ==
    ASSUME BackendTyped, NEW t \in Turns,
           \/ PromptEnds(t) \/ ConfirmStop(t) \/ Complete(t) \/ CompletionRaises(t)
    PROVE  BackendTyped'
<1>1. CASE PromptEnds(t) \/ ConfirmStop(t)
  BY <1>1 DEF PromptEnds, ConfirmStop, runtime, BackendTyped
<1>2. CASE Decide(t)
  BY <1>2 DEF Decide, Verdict, Advance, Goto, runtime, BackendTyped, Completing
<1>3. CASE SealCore(t)
  BY <1>3 DEF SealCore, Advance, Goto, runtime, BackendTyped, Completing
<1>4. CASE FinishCancelled(t)
  <2>1. turn' \in [Turns -> {"absent", "waiting", "paused"} \cup Active \cup Ended]
    BY <1>4 DEF FinishCancelled, EndTurn, Paused, BackendTyped, Ended
  <2>. QED  BY <1>4, <2>1 DEF FinishCancelled, Advance, Goto, runtime, BackendTyped, Completing
<1>5. CASE CompleteTurn(t)
  <2>1. at' \in [Turns -> {"none", "filed"} \cup Filing \cup Accepting \cup Completing]
    BY <1>5, ZenonT(60) DEF CompleteTurn, Goto, BackendTyped, Completing, Filing
  <2>2. turn' \in [Turns -> {"absent", "waiting", "paused"} \cup Active \cup Ended]
    BY <1>5 DEF CompleteTurn, BackendTyped, Active, Ended
  <2>3. heir' \in [Turns -> Turns \cup {NULL}]
    <3>1. heir' = heir \/ \E u \in Turns : heir' = [heir EXCEPT ![t] = u]
      BY <1>5 DEF CompleteTurn
    <3>. QED  BY <3>1 DEF BackendTyped
  <2>. QED  BY <1>5, <2>1, <2>2, <2>3 DEF CompleteTurn, runtime, BackendTyped
<1>6. CASE Adopted(t) \/ CloseWork(t) \/ WorkClosed(t) \/ Cleanup(t) \/ HeirRefused(t)
  BY <1>6 DEF Adopted, CloseWork, WorkClosed, Cleanup, HeirRefused, Advance, Goto, runtime, BackendTyped, Completing
<1>7. CASE FailTurn(t)
  <2>1. turn' \in [Turns -> {"absent", "waiting", "paused"} \cup Active \cup Ended]
    BY <1>7 DEF FailTurn, EndTurn, Paused, BackendTyped, Ended
  <2>. QED  BY <1>7, <2>1 DEF FailTurn, Advance, Goto, runtime, BackendTyped, Completing
<1>8. CASE Retire(t)
  BY <1>8 DEF Retire, Advance, Goto, runtime, BackendTyped, Completing
<1>9. CASE AcceptHeir(t)
  BY <1>9 DEF AcceptHeir, Lives, runtime, BackendTyped, Accepting, Completing
<1>10. CASE CompletionRaises(t)
  <2>1. faults' \in 0..MaxFaults
    <3>1. faults < MaxFaults /\ faults' = faults + 1
      BY <1>10 DEF CompletionRaises
    <3>. QED  BY <3>1, BackendAssumption DEF BackendTyped
  <2>2. at' \in [Turns -> {"none", "filed"} \cup Filing \cup Accepting \cup Completing]
    BY <1>10 DEF CompletionRaises, Landing, Goto, BackendTyped, Completing
  <2>3. heir' \in [Turns -> Turns \cup {NULL}]
    BY <1>10 DEF CompletionRaises, BackendTyped
  <2>. QED  BY <1>10, <2>1, <2>2, <2>3 DEF CompletionRaises, runtime, BackendTyped
<1>. QED  BY <1>1, <1>2, <1>3, <1>4, <1>5, <1>6, <1>7, <1>8, <1>9, <1>10 DEF Complete

LEMMA ServerTypes ==
    ASSUME BackendTyped, StopBegins \/ StopEnds \/ ProcessDies \/ StartServer
    PROVE  BackendTyped'
<1>1. CASE StopBegins \/ StopEnds
  BY <1>1 DEF StopBegins, StopEnds, backend, BackendTyped
<1>2. CASE ProcessDies
  BY <1>2 DEF ProcessDies, BackendTyped
<1>3. CASE StartServer
  BY <1>3 DEF StartServer, BackendTyped, Active, Ended
<1>. QED  BY <1>1, <1>2, <1>3

LEMMA BackendTypes == BackendTyped /\ [TurnNext]_tvars => BackendTyped'
<1>. SUFFICES ASSUME BackendTyped, [TurnNext]_tvars PROVE BackendTyped'
  OBVIOUS
<1>1. CASE UNCHANGED tvars
  BY <1>1 DEF tvars, backend, runtime, BackendTyped
<1>. QED  BY <1>1, FilingTypes, AcceptTypes, CompletionTypes, ServerTypes DEF TurnNext, Accept, Raises

-----------------------------------------------------------------------------
(* The core's invariants, under the backend's steps *)

\* A turn's caller works on the turn's own execution, while its thread waits for the dispatch.
Own(t) ==
    /\ caller[t].exec \in {t, NULL} /\ caller[t].pc # "project"
    /\ caller[t].answer = "accepted" => caller[t].exec = t
    /\ caller[t].pc \in Driving \cup {"freeze"} => caller[t].exec = t /\ at[t] = "dispatch"

CoreInv == Typed /\ DispatchInv /\ BackendTyped /\ \A t \in Turns : Own(t)

LEMMA OwnInOrder == CoreInv => ObservedInOrder
  BY BackendAssumption DEF CoreInv, Own, ObservedInOrder, InOrder

LEMMA RestKeepsCore ==
    ASSUME CoreInv, NEW t \in Turns, Rests(t)
    PROVE  Typed' /\ DispatchInv'
<1>1. caller' \in [Callers -> CallerRow] /\ \A d \in Callers : Equipped(caller'[d])
  BY BackendAssumption DEF Rests, CoreInv, Typed, TypeOK, Nobody, CallerRow, Answers, Equipped, Driving
<1>2. Typed'
  BY <1>1 DEF Rests, CoreInv, Typed, TypeOK, rows
<1>3. \A c \in Callers : caller'[c] = caller[c] \/ (caller'[c].pc = "idle" /\ caller'[c].answer = "none")
  <2>1. Nobody.pc = "idle" /\ Nobody.answer = "none"
    BY DEF Nobody
  <2>2. \A c \in Callers : caller'[c] = IF c = t THEN Nobody ELSE caller[c]
    BY BackendAssumption DEF Rests, CoreInv, Typed, TypeOK
  <2>. QED  BY <2>1, <2>2
<1>4. DispatchInv'
  BY <1>3, QuietInv DEF Rests, CoreInv, ToldTheRecord, Driving, rows
<1>. QED  BY <1>2, <1>4

LEMMA CoreKept ==
    ASSUME CoreInv, [TurnNext]_tvars
    PROVE  Typed' /\ DispatchInv' /\ BackendTyped'
  BY CoreTakesPart, RestKeepsCore, TypedStep, DispatchStep, BackendTypes DEF CoreInv

\* What a step does to the rows a turn's end depends on.
LEMMA AcceptedStays ==
    ASSUME CoreInv, [TurnNext]_tvars, NEW u \in Turns, dispatch[u].state = "accepted"
    PROVE  dispatch'[u].state = "accepted"
<1>1. ASSUME NEW c \in Callers, Freeze(c) PROVE dispatch'[u].state = "accepted"
  BY <1>1, BackendAssumption DEF Freeze, FreezeAllowed, Dispatched, CoreInv, Typed, TypeOK
<1>2. ASSUME NEW c \in Callers, RecordStart(c) PROVE dispatch'[u].state = "accepted"
  BY <1>2, BackendAssumption DEF RecordStart, CoreInv, Typed, TypeOK
<1>3. CASE UNCHANGED dispatch
  BY <1>3
<1>4. ASSUME NEW c \in Callers, Step(c) PROVE dispatch'[u].state = "accepted"
  BY <1>1, <1>2, <1>3, <1>4 DEF Step, UpdateWork, Resolve, StartProvider, Project, Raise, rows
<1>5. ASSUME NEW c \in Callers,
             \/ \E w \in Works, to \in {"close", "reopen"} : ReadWork(c, w, to)
             \/ \E e \in Execs, k \in Keys, I \in InputSets : Dispatch(c, e, k, I)
             \/ \E e \in Execs, p \in Projection : Observe(c, e, p)
      PROVE  UNCHANGED dispatch
  BY <1>5 DEF ReadWork, Dispatch, Observe, rows
<1>6. CASE Die
  BY <1>3, <1>6 DEF Die, rows
<1>7. [Next]_vars => dispatch'[u].state = "accepted"
  BY <1>3, <1>4, <1>5, <1>6, RowsTyped DEF Next, vars, rows, CoreInv
<1>8. (\E t \in Turns : Rests(t)) => UNCHANGED dispatch
  BY DEF Rests, rows
<1>. QED  BY <1>3, <1>7, <1>8, CoreTakesPart

LEMMA SealStays ==
    ASSUME CoreInv, [TurnNext]_tvars, final' = final, NEW u \in Turns
    PROVE  SealOf(u)' = SealOf(u)
<1>1. (\E t \in Turns : Rests(t)) => SealOf(u)' = SealOf(u)
  BY DEF Rests, rows, SealOf, Terminal, Exists
<1>2. [Next]_vars => SealOf(u)' = SealOf(u)
  BY SealKept, OwnInOrder, BackendAssumption DEF CoreInv
<1>. QED  BY <1>1, <1>2, CoreTakesPart

\* Only the completion worker seals.
LEMMA Sealing ==
    ASSUME CoreInv, NEW t \in Turns, SealCore(t)
    PROVE  /\ \A u \in Turns \ {t} : SealOf(u)' = SealOf(u)
           /\ SealOf(t) = NULL
           /\ \/ Advance(t, "seal cancelled", "finish") /\ SealOf(t)' = Cancelled
              \/ Advance(t, "seal succeeded", "complete") /\ SealOf(t)' = Succeeded
<1>1. ASSUME NEW o \in Outcomes, NEW k \in Keys, Finalize(t, k, o, "stale", 0, {})
      PROVE  /\ \A u \in Turns \ {t} : SealOf(u)' = SealOf(u)
             /\ SealOf(t) = NULL /\ SealOf(t)' = o
  <2>1. /\ SealedOne(t) /\ exec'[t].proj.outcome = o
        /\ \A f \in Execs \ {t} : exec'[f] = exec[f]
    BY <1>1, FinalizeMoves, BackendAssumption, CoreAssumption DEF CoreInv
  <2>. QED  BY <2>1, BackendAssumption DEF SealedOne, SealOf, Terminal, Exists
<1>. QED  BY <1>1, BackendAssumption DEF SealCore

-----------------------------------------------------------------------------
(* Where a thread stands, and what the two stores say of its turn *)

Unsent == {"absent", "waiting", "paused"}
\* The steps before the core is sealed, and those after the dispatch was accepted.
Early == Filing \cup Accepting \cup {"filed", "wait", "seal cancelled", "seal succeeded", "fail cancelled"}
Running == {"record", "register", "launch", "wait", "seal cancelled", "seal succeeded", "complete"}

\* A thread at step, on a turn in state, whose execution has this seal and this verdict.
Agrees(step, state, seal, verdict) ==
    /\ step \in Early \cup {"complete", "finish"} => state \in Active
    /\ step \in Early => seal = NULL
    /\ step \in Running => verdict = "accepted"
    /\ step = "complete" => seal = Succeeded
    /\ step = "finish" => seal = Cancelled
    /\ state \in Unsent => seal = NULL
    /\ state = "completed" => seal = Succeeded /\ verdict = "accepted"
    /\ seal = Succeeded => state # "cancelled"

Progress(u) == Agrees(at[u], turn[u], SealOf(u), dispatch[u].state)

\* Who has a successor ended as completed; a successor has one predecessor, and waits, filed,
\* until that one has cleaned up.
Holding == {"close work", "closing", "fail", "cleanup", "retire", "succeed"}
Heirs ==
    /\ \A t \in Turns : heir[t] # NULL =>
          /\ turn[t] = "completed" /\ turn[heir[t]] \notin Unsent
          /\ at[t] \in Holding => at[heir[t]] = "filed"
    /\ \A t, u \in Turns : heir[t] # NULL /\ heir[t] = heir[u] => t = u

IInv == CoreInv /\ (\A u \in Turns : Progress(u)) /\ Heirs

\* A step that seals nothing, judged by what it does to threads and turns.
LEMMA ProgressKept ==
    ASSUME IInv, [TurnNext]_tvars, final' = final, NEW u \in Turns,
           Agrees(at'[u], turn'[u], SealOf(u), dispatch[u].state)
    PROVE  Progress(u)'
<1>1. SealOf(u)' = SealOf(u)
  BY SealStays DEF IInv
<1>2. dispatch[u].state = "accepted" => dispatch'[u].state = "accepted"
  BY AcceptedStays DEF IInv
<1>3. Agrees(at'[u], turn'[u], SealOf(u)', dispatch'[u].state)
  BY <1>1, <1>2 DEF Agrees
<1>. QED  BY <1>3 DEF Progress

LEMMA FilingProgress ==
    ASSUME IInv, NEW t \in Turns, Send(t) \/ FileWork(t) \/ FileExecution(t) \/ Link(t) \/ FilingFails(t) \/ Bind(t),
           NEW u \in Turns
    PROVE  Agrees(at'[u], turn'[u], SealOf(u), dispatch[u].state)
<1>0. Agrees(at[u], turn[u], SealOf(u), dispatch[u].state) /\ BackendTyped
  BY DEF IInv, Progress, CoreInv
<1>1. CASE Send(t)
  BY <1>0, <1>1 DEF Send, Goto, BackendTyped, Agrees, Early, Running, Filing, Accepting, Active, Unsent
<1>2. CASE FileWork(t) \/ FileExecution(t)
  BY <1>0, <1>2 DEF FileWork, FileExecution, Advance, Goto, BackendTyped, Agrees, Early, Running, Filing, Accepting
<1>3. CASE Link(t)
  BY <1>0, <1>3 DEF Link, Advance, Goto, BackendTyped, Agrees, Early, Running, Filing, Accepting, Active, Unsent
<1>4. CASE FilingFails(t)
  <2>1. turn' = turn /\ at'[u] \in {"none", "fail", at[u]}
    BY <1>4 DEF FilingFails
  <2>. QED  BY <1>0, <2>1 DEF Agrees, Early, Running, Filing, Accepting
<1>5. CASE Bind(t)
  BY <1>0, <1>5 DEF Bind, Goto, BackendTyped, Agrees, Early, Running, Filing, Accepting
<1>. QED  BY <1>1, <1>2, <1>3, <1>4, <1>5

LEMMA AcceptProgress ==
    ASSUME IInv, NEW t \in Turns,
           \/ EnterDispatch(t) \/ StartRun(t) \/ CoreStep(t) \/ CoreRaises(t) \/ Dispatched_(t)
           \/ SetRunning(t) \/ Register(t) \/ Launch(t) \/ AcceptRaises(t) \/ Reject(t),
           NEW u \in Turns
    PROVE  Agrees(at'[u], turn'[u], SealOf(u), dispatch[u].state)
<1>0. Agrees(at[u], turn[u], SealOf(u), dispatch[u].state) /\ BackendTyped
  BY DEF IInv, Progress, CoreInv
<1>1. CASE EnterDispatch(t) \/ StartRun(t) \/ CoreStep(t) \/ CoreRaises(t)
  BY <1>0, <1>1 DEF EnterDispatch, StartRun, CoreStep, CoreRaises, backend
<1>2. CASE Dispatched_(t)
  <2>1. caller[t].answer = "accepted" => dispatch[t].state = "accepted"
    BY BackendAssumption, CoreAssumption DEF IInv, CoreInv, Own, DispatchInv, ToldTheRecord
  <2>. QED  BY <1>0, <1>2, <2>1 DEF Dispatched_, Goto, BackendTyped, Agrees, Early, Running, Filing, Accepting
<1>3. CASE SetRunning(t)
  BY <1>0, <1>3 DEF SetRunning, Advance, Goto, BackendTyped, Agrees, Early, Running, Filing, Accepting, Active, Unsent
<1>4. CASE Register(t) \/ AcceptRaises(t)
  BY <1>0, <1>4 DEF Register, AcceptRaises, Advance, Goto, BackendTyped, Agrees, Early, Running, Filing, Accepting
<1>5. CASE Launch(t)
  <2>1. (turn' = turn /\ at'[u] \in {"none", at[u]}) \/ (u = t /\ at[t] = "launch" /\ at'[u] = "wait" /\ turn' = turn)
    BY <1>5 DEF Launch, Returned, BackendTyped
  <2>. QED  BY <1>0, <2>1 DEF Agrees, Early, Running, Filing, Accepting
<1>6. CASE Reject(t)
  <2>1. at'[u] \in {"none", at[u]} /\ (u = t => at'[u] = "none" /\ at[t] = "reject")
    BY <1>6 DEF Reject, Returned, BackendTyped
  <2>2. \/ turn'[u] = turn[u]
        \/ u = t /\ turn'[u] = "failed"
        \/ turn[u] = "waiting" /\ turn'[u] = "paused"
    BY <1>6 DEF Reject, EndTurn, Paused
  <2>. QED  BY <1>0, <2>1, <2>2 DEF Agrees, Early, Running, Filing, Accepting, Active, Unsent
<1>. QED  BY <1>1, <1>2, <1>3, <1>4, <1>5, <1>6

\* A function changed at two places.
LEMMA TwoMove ==
    ASSUME NEW S, NEW T, NEW f \in [S -> T], NEW x \in S, NEW y \in S, x # y, NEW a, NEW b, NEW z \in S
    PROVE  [f EXCEPT ![x] = a, ![y] = b][z] = IF z = x THEN a ELSE IF z = y THEN b ELSE f[z]
<1>. DEFINE g == [f EXCEPT ![x] = a]
<1>1. DOMAIN g = S /\ g[z] = IF z = x THEN a ELSE f[z]
  OBVIOUS
<1>2. [f EXCEPT ![x] = a, ![y] = b] = [g EXCEPT ![y] = b]
  OBVIOUS
<1>. HIDE DEF g
<1>. QED  BY <1>1, <1>2

LEMMA CompletionProgress ==
    ASSUME IInv, NEW t \in Turns,
           \/ PromptEnds(t) \/ ConfirmStop(t) \/ Decide(t) \/ FinishCancelled(t) \/ CompleteTurn(t)
           \/ Adopted(t) \/ CloseWork(t) \/ WorkClosed(t) \/ FailTurn(t) \/ Cleanup(t) \/ Retire(t)
           \/ AcceptHeir(t) \/ HeirRefused(t) \/ CompletionRaises(t),
           NEW u \in Turns
    PROVE  Agrees(at'[u], turn'[u], SealOf(u), dispatch[u].state)
<1>0. Agrees(at[u], turn[u], SealOf(u), dispatch[u].state) /\ BackendTyped
  BY DEF IInv, Progress, CoreInv
<1>a. Agrees(at[t], turn[t], SealOf(t), dispatch[t].state)
  BY DEF IInv, Progress
<1>1. CASE PromptEnds(t) \/ ConfirmStop(t)
  BY <1>0, <1>1 DEF PromptEnds, ConfirmStop
<1>2. CASE Decide(t)
  BY <1>0, <1>2 DEF Decide, Verdict, Advance, Goto, BackendTyped, Agrees, Early, Running, Filing, Accepting
<1>3. CASE FinishCancelled(t)
  <2>1. \/ at[t] = "finish" /\ at' = [at EXCEPT ![t] = "close work"]
        \/ at[t] = "fail cancelled" /\ at' = [at EXCEPT ![t] = "cleanup"]
    BY <1>3 DEF FinishCancelled, Advance, Goto
  <2>2. \/ turn'[u] = turn[u]
        \/ u = t /\ turn'[u] = "cancelled"
        \/ turn[u] = "waiting" /\ turn'[u] = "paused"
    BY <1>3 DEF FinishCancelled, EndTurn, Paused
  <2>3. SealOf(t) # Succeeded
    BY <1>a, <2>1, BackendAssumption, CoreAssumption DEF Agrees, Early
  <2>. QED  BY <1>0, <2>1, <2>2, <2>3
            DEF BackendTyped, Agrees, Early, Running, Filing, Accepting, Active, Unsent
<1>4. CASE CompleteTurn(t)
  <2>1. at[t] = "complete"
    BY <1>4 DEF CompleteTurn
  <2>2. CASE \E v \in Turns : /\ turn[v] = "waiting"
                             /\ turn' = [turn EXCEPT ![t] = "completed", ![v] = "accepted"]
                             /\ at' = [at EXCEPT ![t] = "adopt", ![v] = "work"]
    <3>1. PICK v \in Turns : /\ turn[v] = "waiting"
                             /\ turn' = [turn EXCEPT ![t] = "completed", ![v] = "accepted"]
                             /\ at' = [at EXCEPT ![t] = "adopt", ![v] = "work"]
      BY <2>2
    <3>2. v # t
      BY <1>a, <2>1, <3>1 DEF Agrees, Active
    <3>3. /\ turn'[u] = IF u = t THEN "completed" ELSE IF u = v THEN "accepted" ELSE turn[u]
          /\ at'[u] = IF u = t THEN "adopt" ELSE IF u = v THEN "work" ELSE at[u]
      BY <1>0, <3>1, <3>2, TwoMove DEF BackendTyped
    <3>4. CASE u = t
      BY <1>a, <2>1, <3>3, <3>4, BackendAssumption DEF Agrees, Early, Running, Filing, Accepting, Unsent
    <3>5. CASE u = v
      <4>1. SealOf(u) = NULL
        BY <1>0, <3>1, <3>5 DEF Agrees, Unsent
      <4>2. turn'[u] = "accepted" /\ at'[u] = "work"
        BY <3>2, <3>3, <3>5
      <4>. QED  BY <4>1, <4>2 DEF Agrees, Early, Running, Filing, Accepting, Active, Unsent
    <3>6. CASE u # t /\ u # v
      BY <1>0, <3>3, <3>6
    <3>. QED  BY <3>4, <3>5, <3>6
  <2>3. CASE turn' = [turn EXCEPT ![t] = "completed"] /\ Goto(t, "close work")
    BY <1>0, <1>a, <2>1, <2>3, BackendAssumption
       DEF Goto, BackendTyped, Agrees, Early, Running, Filing, Accepting, Active, Unsent
  <2>4. CASE Goto(t, "fail") /\ UNCHANGED turn
    BY <1>0, <2>4 DEF Goto, BackendTyped, Agrees, Early, Running, Filing, Accepting
  <2>. QED  BY <1>4, <2>2, <2>3, <2>4 DEF CompleteTurn
<1>5. CASE Adopted(t) \/ CloseWork(t) \/ WorkClosed(t) \/ Cleanup(t) \/ Retire(t) \/ HeirRefused(t)
  BY <1>0, <1>5 DEF Adopted, CloseWork, WorkClosed, Cleanup, Retire, HeirRefused, Advance, Goto,
                    BackendTyped, Agrees, Early, Running, Filing, Accepting
<1>6. CASE FailTurn(t)
  <2>1. at' = [at EXCEPT ![t] = "cleanup"]
    BY <1>6 DEF FailTurn, Advance, Goto
  <2>2. \/ turn'[u] = turn[u]
        \/ u = t /\ turn'[u] = "failed"
        \/ turn[u] = "waiting" /\ turn'[u] = "paused"
    BY <1>6 DEF FailTurn, EndTurn, Paused
  <2>. QED  BY <1>0, <2>1, <2>2
            DEF BackendTyped, Agrees, Early, Running, Filing, Accepting, Active, Unsent
<1>7. CASE AcceptHeir(t)
  <2>1. turn' = turn /\ at[t] = "succeed"
    BY <1>7 DEF AcceptHeir
  <2>2. \/ at'[u] \in {at[u], "none", "carry"}
        \/ u = heir[t] /\ heir[t] # NULL /\ at'[u] = "bind"
    BY <1>7 DEF AcceptHeir, Owed
  <2>3. u = heir[t] /\ heir[t] # NULL => at[u] = "filed"
    BY <2>1 DEF IInv, Heirs, Holding
  <2>. QED  BY <1>0, <2>1, <2>2, <2>3 DEF Agrees, Early, Running, Filing, Accepting
<1>8. CASE CompletionRaises(t)
  BY <1>0, <1>8 DEF CompletionRaises, Landing, Goto, BackendTyped, Agrees, Early, Running, Filing, Accepting
<1>. QED  BY <1>1, <1>2, <1>3, <1>4, <1>5, <1>6, <1>7, <1>8

LEMMA SealProgress ==
    ASSUME IInv, NEW t \in Turns, SealCore(t), [TurnNext]_tvars, NEW u \in Turns
    PROVE  Progress(u)'
<1>0. Agrees(at[u], turn[u], SealOf(u), dispatch[u].state) /\ BackendTyped
  BY DEF IInv, Progress, CoreInv
<1>1. turn' = turn /\ dispatch' = dispatch
  BY DEF SealCore, Finalize
<1>2. CASE u # t
  <2>1. at'[u] = at[u] /\ SealOf(u)' = SealOf(u)
    BY <1>2, Sealing DEF IInv, Advance, Goto, CoreInv, BackendTyped
  <2>2. Agrees(at'[u], turn'[u], SealOf(u)', dispatch'[u].state)
    BY <1>0, <1>1, <2>1
  <2>. QED  BY <2>2 DEF Progress
<1>3. CASE u = t
  <2>1. \/ at[u] = "seal cancelled" /\ at'[u] = "finish" /\ SealOf(u)' = Cancelled
        \/ at[u] = "seal succeeded" /\ at'[u] = "complete" /\ SealOf(u)' = Succeeded
    BY <1>0, <1>3, Sealing, ZenonT(60) DEF IInv, Advance, Goto, BackendTyped
  <2>2. Agrees(at'[u], turn'[u], SealOf(u)', dispatch'[u].state)
    BY <1>0, <1>1, <2>1, BackendAssumption DEF Agrees, Early, Running, Active, Unsent, Filing, Accepting
  <2>. QED  BY <2>2 DEF Progress
<1>. QED  BY <1>2, <1>3

LEMMA ServerProgress ==
    ASSUME IInv, StopBegins \/ StopEnds \/ ProcessDies \/ StartServer, NEW u \in Turns,
           server = "down" => \A t \in Turns : at[t] = "none"
    PROVE  Agrees(at'[u], turn'[u], SealOf(u), dispatch[u].state)
<1>0. Agrees(at[u], turn[u], SealOf(u), dispatch[u].state) /\ BackendTyped
  BY DEF IInv, Progress, CoreInv
<1>1. CASE StopBegins \/ StopEnds
  BY <1>0, <1>1 DEF StopBegins, StopEnds, backend
<1>2. CASE ProcessDies
  BY <1>0, <1>2 DEF ProcessDies, Agrees, Early, Running, Filing, Accepting
<1>3. CASE StartServer
  <2>1. at'[u] = "none" /\ (turn'[u] = turn[u] \/ (turn[u] \in Active /\ turn'[u] = "unknown"))
    BY <1>3 DEF StartServer
  <2>. QED  BY <1>0, <2>1 DEF Agrees, Early, Running, Filing, Accepting, Unsent
<1>. QED  BY <1>1, <1>2, <1>3

-----------------------------------------------------------------------------
(* Successors *)

\* No step takes a turn back.
Onward ==
    \A v \in Turns : /\ turn[v] = "completed" => turn'[v] = "completed"
                     /\ turn[v] \notin Unsent => turn'[v] \notin Unsent

\* An ended thread's turn is no longer active, and only ended threads have successors.
LEMMA HeirlessBefore ==
    ASSUME IInv, NEW t \in Turns, at[t] \in Early \cup {"complete", "finish"}
    PROVE  heir[t] = NULL
  BY DEF IInv, Progress, Agrees, Heirs, Active

\* One thread moves.
LEMMA OneMoves ==
    ASSUME IInv, NEW t \in Turns, NEW to, at' = [at EXCEPT ![t] = to], heir' = heir, Onward,
           at[t] # "filed",
           to \in Holding => at[t] \in Holding \/ heir[t] = NULL \/ at[heir[t]] = "filed"
    PROVE  Heirs'
<1>0. at \in [Turns -> {"none", "filed"} \cup Filing \cup Accepting \cup Completing]
      /\ heir \in [Turns -> Turns \cup {NULL}]
  BY DEF IInv, CoreInv, BackendTyped
<1>1. \A v \in Turns : at'[v] = IF v = t THEN to ELSE at[v]
  BY <1>0
<1>2. ASSUME NEW v \in Turns, heir[v] # NULL
      PROVE  /\ turn'[v] = "completed" /\ turn'[heir[v]] \notin Unsent
             /\ at'[v] \in Holding => at'[heir[v]] = "filed"
  <2>1. heir[v] \in Turns
    BY <1>0, <1>2
  <2>2. turn[v] = "completed" /\ turn[heir[v]] \notin Unsent /\ (at[v] \in Holding => at[heir[v]] = "filed")
    BY <1>2 DEF IInv, Heirs
  <2>. QED  BY <1>1, <1>2, <2>1, <2>2 DEF Onward
<1>. QED  BY <1>2 DEF Heirs, IInv

\* Nobody's successor changes, and no thread moves but to its end.
LEMMA NoneMove ==
    ASSUME IInv, heir' = heir, Onward, \A v \in Turns : at'[v] = at[v] \/ (at[v] # "filed" /\ at'[v] \notin Holding)
    PROVE  Heirs'
<1>1. ASSUME NEW v \in Turns, heir[v] # NULL
      PROVE  /\ turn'[v] = "completed" /\ turn'[heir[v]] \notin Unsent
             /\ at'[v] \in Holding => at'[heir[v]] = "filed"
  <2>1. heir[v] \in Turns
    BY <1>1 DEF IInv, CoreInv, BackendTyped
  <2>2. turn[v] = "completed" /\ turn[heir[v]] \notin Unsent /\ (at[v] \in Holding => at[heir[v]] = "filed")
    BY <1>1 DEF IInv, Heirs
  <2>. QED  BY <2>1, <2>2 DEF Onward
<1>. QED  BY <1>1 DEF Heirs, IInv

\* What ends a turn ends only an active one.
LEMMA EndsOnward ==
    ASSUME IInv, NEW t \in Turns, NEW state \in Ended, EndTurn(t, state)
    PROVE  Onward
  BY DEF IInv, CoreInv, BackendTyped, EndTurn, Paused, Onward, Active, Ended, Unsent

LEMMA FilingHeirs ==
    ASSUME IInv, NEW t \in Turns,
           Send(t) \/ FileWork(t) \/ FileExecution(t) \/ Link(t) \/ FilingFails(t) \/ Bind(t)
    PROVE  Heirs'
<1>0. Agrees(at[t], turn[t], SealOf(t), dispatch[t].state) /\ BackendTyped
  BY DEF IInv, Progress, CoreInv
<1>1. CASE Send(t)
  <2>1. Onward
    BY <1>0, <1>1 DEF Send, Onward, BackendTyped, Unsent
  <2>2. at[t] # "filed"
    BY <1>0, <1>1 DEF Send, Agrees, Early, Active
  <2>3. heir' = heir /\ (at' = at \/ at' = [at EXCEPT ![t] = "work"])
    BY <1>1 DEF Send, Goto
  <2>. QED  BY <2>1, <2>2, <2>3, OneMoves, NoneMove DEF Holding
<1>2. CASE FileWork(t) \/ FileExecution(t) \/ Bind(t)
  <2>1. Onward /\ heir' = heir
    BY <1>2 DEF FileWork, FileExecution, Bind, Onward
  <2>2. at[t] # "filed" /\ \E to \in {"execution", "link", "dispatch", "none"} : at' = [at EXCEPT ![t] = to]
    BY <1>2 DEF FileWork, FileExecution, Bind, Advance, Goto
  <2>. QED  BY <2>1, <2>2, OneMoves DEF Holding
<1>3. CASE Link(t)
  <2>1. Onward /\ heir' = heir
    BY <1>0, <1>3 DEF Link, Advance, Onward, BackendTyped, Agrees, Early, Filing, Active, Unsent
  <2>2. at[t] # "filed" /\ \E to \in {"bind", "filed"} : at' = [at EXCEPT ![t] = to]
    BY <1>3 DEF Link, Advance, Goto
  <2>. QED  BY <2>1, <2>2, OneMoves DEF Holding
<1>4. CASE FilingFails(t)
  <2>1. turn' = turn /\ at[t] \in Filing
    BY <1>4 DEF FilingFails
  <2>2. ASSUME NEW v \in Turns
        PROVE  /\ v \in Carriers(t) => heir'[v] = NULL
               /\ v \notin Carriers(t) => heir'[v] = heir[v]
               /\ v = t => at'[v] = "none"
               /\ v # t /\ v \in Carriers(t) => at'[v] = "fail"
               /\ v # t /\ v \notin Carriers(t) => at'[v] = at[v]
    BY <1>4 DEF FilingFails
  <2>3. \A v \in Carriers(t) \cup {t} : v \in Turns /\ at[v] # "filed"
    BY <2>1 DEF Carriers, Filing
  <2>4. ASSUME NEW v \in Turns, heir'[v] # NULL
        PROVE  /\ heir'[v] = heir[v] /\ heir[v] \in Turns
               /\ turn'[v] = "completed" /\ turn'[heir[v]] \notin Unsent
               /\ at'[v] \in Holding => at'[heir[v]] = "filed"
    <3>1. v \notin Carriers(t) /\ heir'[v] = heir[v] /\ heir[v] \in Turns
      BY <1>0, <2>2, <2>4 DEF BackendTyped
    <3>2. turn[v] = "completed" /\ turn[heir[v]] \notin Unsent /\ (at[v] \in Holding => at[heir[v]] = "filed")
      BY <2>4, <3>1 DEF IInv, Heirs
    <3>3. at'[v] \in {"none", at[v]}
      BY <2>2, <3>1
    <3>4. at[heir[v]] = "filed" => at'[heir[v]] = "filed"
      BY <2>2, <2>3, <3>1
    <3>. QED  BY <2>1, <3>1, <3>2, <3>3, <3>4 DEF Holding
  <2>. QED  BY <2>4 DEF Heirs, IInv
<1>. QED  BY <1>1, <1>2, <1>3, <1>4

LEMMA AcceptHeirs ==
    ASSUME IInv, NEW t \in Turns,
           \/ EnterDispatch(t) \/ StartRun(t) \/ CoreStep(t) \/ CoreRaises(t) \/ Dispatched_(t)
           \/ SetRunning(t) \/ Register(t) \/ Launch(t) \/ AcceptRaises(t) \/ Reject(t)
    PROVE  Heirs'
<1>0. Agrees(at[t], turn[t], SealOf(t), dispatch[t].state) /\ BackendTyped
  BY DEF IInv, Progress, CoreInv
<1>1. CASE EnterDispatch(t) \/ StartRun(t) \/ CoreStep(t) \/ CoreRaises(t)
  <2>1. heir' = heir /\ at' = at /\ turn' = turn
    BY <1>1 DEF EnterDispatch, StartRun, CoreStep, CoreRaises, backend
  <2>. QED  BY <2>1, NoneMove DEF Onward
<1>2. CASE Dispatched_(t) \/ SetRunning(t) \/ Register(t) \/ AcceptRaises(t)
  <2>1. Onward /\ heir' = heir
    BY <1>0, <1>2 DEF Dispatched_, SetRunning, Register, AcceptRaises, Advance, Onward, BackendTyped, Agrees,
                      Early, Accepting, Active, Unsent
  <2>2. at[t] # "filed" /\ \E to \in {"record", "reject", "register", "launch"} : at' = [at EXCEPT ![t] = to]
    BY <1>2 DEF Dispatched_, SetRunning, Register, AcceptRaises, Advance, Goto
  <2>. QED  BY <2>1, <2>2, OneMoves DEF Holding
<1>3. CASE Launch(t) \/ Reject(t)
  <2>1. heir' = heir /\ \A v \in Turns : at'[v] = at[v] \/ (at[v] # "filed" /\ at'[v] \in {"none", "wait"})
    BY <1>0, <1>3 DEF Launch, Reject, Returned, Carriers, BackendTyped
  <2>2. Onward
    <3>1. CASE Launch(t)
      BY <3>1 DEF Launch, Onward
    <3>2. CASE Reject(t)
      BY <3>2, EndsOnward DEF Reject, Ended
    <3>. QED  BY <1>3, <3>1, <3>2
  <2>. QED  BY <2>1, <2>2, NoneMove DEF Holding
<1>. QED  BY <1>1, <1>2, <1>3

LEMMA ClaimHeirs ==
    ASSUME IInv, NEW t \in Turns, NEW u \in Turns, at[t] = "complete", turn[t] = "running", turn[u] = "waiting",
           turn' = [turn EXCEPT ![t] = "completed", ![u] = "accepted"],
           heir' = [heir EXCEPT ![t] = u],
           at' = [at EXCEPT ![t] = "adopt", ![u] = "work"]
    PROVE  Heirs'
<1>0. BackendTyped /\ t # u
  BY DEF IInv, CoreInv
<1>1. \A v \in Turns :
         /\ turn'[v] = IF v = t THEN "completed" ELSE IF v = u THEN "accepted" ELSE turn[v]
         /\ at'[v] = IF v = t THEN "adopt" ELSE IF v = u THEN "work" ELSE at[v]
         /\ heir'[v] = IF v = t THEN u ELSE heir[v]
  BY <1>0, TwoMove DEF BackendTyped
<1>2. ASSUME NEW v \in Turns, v # t, heir[v] # NULL
      PROVE  /\ heir[v] # u /\ heir[v] \in Turns
             /\ turn'[v] = "completed" /\ turn'[heir[v]] \notin Unsent
             /\ at'[v] \in Holding => at'[heir[v]] = "filed"
  <2>1. turn[v] = "completed" /\ turn[heir[v]] \notin Unsent /\ (at[v] \in Holding => at[heir[v]] = "filed")
    BY <1>2 DEF IInv, Heirs
  <2>2. heir[v] \in Turns /\ heir[v] # u
    BY <1>0, <1>2, <2>1 DEF BackendTyped, Unsent
  <2>4. at'[v] \in Holding => at[v] \in Holding
    <3>1. at'[v] \in {"work", at[v]}
      BY <1>1, <1>2
    <3>. QED  BY <3>1 DEF Holding
  <2>5. turn'[v] = "completed" /\ turn'[heir[v]] \notin Unsent
    BY <1>1, <1>2, <2>1, <2>2 DEF Unsent
  <2>6. at[v] \in Holding => heir[v] # t
    BY <2>1
  <2>. QED  BY <1>1, <2>1, <2>2, <2>4, <2>5, <2>6
<1>3. turn'[t] = "completed" /\ turn'[u] \notin Unsent /\ at'[t] \notin Holding /\ heir'[t] = u
  <2>1. turn'[t] = "completed" /\ at'[t] = "adopt" /\ heir'[t] = u
    BY <1>1
  <2>2. turn'[u] = "accepted"
    BY <1>0, <1>1
  <2>. QED  BY <2>1, <2>2 DEF Unsent, Holding
<1>4. \A v \in Turns : heir'[v] # NULL =>
          /\ turn'[v] = "completed" /\ turn'[heir'[v]] \notin Unsent
          /\ at'[v] \in Holding => at'[heir'[v]] = "filed"
  <2>. SUFFICES ASSUME NEW v \in Turns, heir'[v] # NULL
                PROVE  /\ turn'[v] = "completed" /\ turn'[heir'[v]] \notin Unsent
                       /\ at'[v] \in Holding => at'[heir'[v]] = "filed"
    OBVIOUS
  <2>1. CASE v = t
    BY <1>3, <2>1
  <2>2. CASE v # t
    <3>1. heir'[v] = heir[v]
      BY <1>1, <2>2
    <3>. QED  BY <1>2, <2>2, <3>1
  <2>. QED  BY <2>1, <2>2
<1>5. \A v, w \in Turns : heir'[v] # NULL /\ heir'[v] = heir'[w] => v = w
  BY <1>1, <1>2 DEF IInv, Heirs
<1>. QED  BY <1>4, <1>5 DEF Heirs

LEMMA CompletionHeirs ==
    ASSUME IInv, NEW t \in Turns, Complete(t) \/ PromptEnds(t) \/ ConfirmStop(t) \/ CompletionRaises(t)
    PROVE  Heirs'
<1>0. Agrees(at[t], turn[t], SealOf(t), dispatch[t].state) /\ BackendTyped
  BY DEF IInv, Progress, CoreInv
<1>1. CASE PromptEnds(t) \/ ConfirmStop(t)
  BY <1>1, NoneMove DEF PromptEnds, ConfirmStop, Onward
<1>2. CASE Decide(t)
  <2>1. heir[t] = NULL
    BY <1>2, HeirlessBefore DEF Decide, Advance, Early
  <2>. QED  BY <1>2, <2>1, OneMoves DEF Decide, Advance, Goto, Onward
<1>3. CASE SealCore(t)
  <2>1. heir[t] = NULL
    BY <1>3, HeirlessBefore DEF SealCore, Advance, Early
  <2>. QED  BY <1>3, <2>1, OneMoves DEF SealCore, Advance, Goto, Onward
<1>4. CASE FinishCancelled(t)
  <2>1. heir[t] = NULL
    BY <1>4, HeirlessBefore DEF FinishCancelled, Advance, Early
  <2>2. Onward
    BY <1>4, EndsOnward DEF FinishCancelled, Ended
  <2>. QED  BY <1>4, <2>1, <2>2, OneMoves DEF FinishCancelled, Advance, Goto
<1>5. CASE CompleteTurn(t)
  <2>1. at[t] = "complete" /\ heir[t] = NULL
    BY <1>5, HeirlessBefore DEF CompleteTurn
  <2>2. CASE /\ turn[t] = "running"
             /\ \E u \in Turns : /\ turn[u] = "waiting"
                                /\ turn' = [turn EXCEPT ![t] = "completed", ![u] = "accepted"]
                                /\ heir' = [heir EXCEPT ![t] = u]
                                /\ at' = [at EXCEPT ![t] = "adopt", ![u] = "work"]
    BY <2>1, <2>2, ClaimHeirs
  <2>3. CASE turn[t] = "running" /\ turn' = [turn EXCEPT ![t] = "completed"] /\ Goto(t, "close work") /\ heir' = heir
    <3>1. Onward
      BY <1>0, <2>3 DEF Onward, BackendTyped, Unsent
    <3>. QED  BY <2>1, <2>3, <3>1, OneMoves DEF Goto
  <2>4. CASE Goto(t, "fail") /\ UNCHANGED <<turn, heir>>
    BY <2>1, <2>4, OneMoves DEF Goto, Onward
  <2>. QED  BY <1>5, <2>2, <2>3, <2>4 DEF CompleteTurn, Completable
<1>6. CASE Adopted(t)
  BY <1>6, OneMoves DEF Adopted, Advance, Goto, Onward
<1>7. CASE CloseWork(t) \/ WorkClosed(t) \/ Cleanup(t) \/ Retire(t) \/ FailTurn(t)
  <2>1. Onward
    <3>1. CASE FailTurn(t)
      BY <3>1, EndsOnward DEF FailTurn, Ended
    <3>. QED  BY <1>7, <3>1 DEF CloseWork, WorkClosed, Cleanup, Retire, Onward
  <2>2. /\ heir' = heir /\ at[t] \in Holding
        /\ \E to \in Holding : at' = [at EXCEPT ![t] = to]
    BY <1>7 DEF CloseWork, WorkClosed, Cleanup, Retire, FailTurn, Advance, Goto, Holding
  <2>3. at[t] # "filed"
    BY <2>2 DEF Holding
  <2>. QED  BY <2>1, <2>2, <2>3, OneMoves
<1>8. CASE HeirRefused(t)
  BY <1>8, OneMoves DEF HeirRefused, Advance, Goto, Onward, Holding
<1>9. CASE AcceptHeir(t)
  <2>1. turn' = turn /\ heir' = heir /\ at[t] = "succeed"
    BY <1>9 DEF AcceptHeir
  <2>2. ASSUME NEW v \in Turns
        PROVE  /\ v \in Owed(t) => at'[v] = "bind"
               /\ v = t /\ v \notin Owed(t) => at'[v] \in {"none", "carry"}
               /\ v # t /\ v \notin Owed(t) => at'[v] = at[v]
    BY <1>9 DEF AcceptHeir
  <2>3. ASSUME NEW v \in Turns, heir[v] # NULL
        PROVE  at'[v] \in Holding => at'[heir[v]] = "filed"
    <3>1. heir[v] \in Turns /\ (at[v] \in Holding => at[heir[v]] = "filed") /\ (heir[v] = heir[t] => v = t)
      BY <1>0, <2>3 DEF BackendTyped, IInv, Heirs
    <3>2. at'[v] \in Holding => v # t /\ at[v] \in Holding
      BY <2>2 DEF Holding
    <3>3. v # t => heir[v] \notin Owed(t)
      BY <3>1 DEF Owed
    <3>. QED  BY <2>1, <2>2, <3>1, <3>2, <3>3
  <2>. QED  BY <2>1, <2>3 DEF Heirs, IInv
<1>10. CASE CompletionRaises(t)
  <2>1. turn' = turn /\ at' = [at EXCEPT ![t] = Landing(at[t])]
        /\ at[t] \in Handlers \cup {"seal cancelled", "finish", "seal succeeded", "complete", "close work"}
    BY <1>10 DEF CompletionRaises, Goto
  <2>2. CASE at[t] \in Handlers
    <3>1. heir' = [heir EXCEPT ![t] = NULL]
      BY <1>10, <2>2 DEF CompletionRaises
    <3>2. at[t] # "filed" /\ \A v \in Turns : v # t => at'[v] = at[v]
      BY <1>0, <2>1, <2>2 DEF Handlers, BackendTyped
    <3>3. ASSUME NEW v \in Turns, heir'[v] # NULL
          PROVE  /\ v # t /\ heir'[v] = heir[v]
                 /\ turn'[v] = "completed" /\ turn'[heir[v]] \notin Unsent
                 /\ at'[v] \in Holding => at'[heir[v]] = "filed"
      <4>1. v # t /\ heir'[v] = heir[v] /\ heir[v] \in Turns
        BY <1>0, <3>1, <3>3 DEF BackendTyped
      <4>. QED  BY <2>1, <3>2, <3>3, <4>1 DEF IInv, Heirs
    <3>. QED  BY <3>3 DEF Heirs, IInv
  <2>3. CASE at[t] \notin Handlers
    <3>1. heir' = heir /\ at[t] # "filed"
      BY <1>10, <2>1, <2>3 DEF CompletionRaises
    <3>2. heir[t] = NULL \/ at[t] \in Holding
      BY <2>1, <2>3, HeirlessBefore DEF Early, Holding
    <3>. QED  BY <2>1, <3>1, <3>2, OneMoves DEF Onward
  <2>. QED  BY <2>2, <2>3
<1>. QED  BY <1>1, <1>2, <1>3, <1>4, <1>5, <1>6, <1>7, <1>8, <1>9, <1>10 DEF Complete

LEMMA ServerHeirs ==
    ASSUME IInv, StopBegins \/ StopEnds \/ ProcessDies \/ StartServer,
           server = "down" => \A t \in Turns : at[t] = "none"
    PROVE  Heirs'
<1>1. CASE StopBegins \/ StopEnds
  BY <1>1, NoneMove DEF StopBegins, StopEnds, backend, Onward
<1>2. CASE ProcessDies
  BY <1>2 DEF ProcessDies, Heirs
<1>3. CASE StartServer
  <2>1. Onward
    BY <1>3 DEF StartServer, Onward, IInv, CoreInv, BackendTyped, Active, Unsent
  <2>. QED  BY <1>3, <2>1, NoneMove DEF StartServer
<1>. QED  BY <1>1, <1>2, <1>3

-----------------------------------------------------------------------------
(* The caller of a turn *)

\* A step that leaves a caller alone, or at rest.
LEMMA OwnKept ==
    ASSUME IInv, NEW u \in Turns, caller'[u] = caller[u], at[u] = "dispatch" => at'[u] = "dispatch"
    PROVE  Own(u)'
  BY DEF IInv, CoreInv, Own

LEMMA OwnAtRest ==
    ASSUME NEW u \in Turns, caller'[u].pc \in {"idle", "close"}, caller'[u].exec \in {u, NULL},
           caller'[u].answer = "accepted" => caller'[u].exec = u
    PROVE  Own(u)'
  BY DEF Own, Driving

\* Threads of which another is at work, and the successor of one that is, do not wait for a dispatch.
LEMMA DispatchersStay ==
    ASSUME IInv, [TurnNext]_tvars, NEW u \in Turns, at[u] = "dispatch",
           ~Dispatched_(u), ~ProcessDies, ~StartServer
    PROVE  at'[u] = "dispatch"
<1>0. BackendTyped /\ turn[u] \in Active
  BY DEF IInv, CoreInv, Progress, Agrees, Early, Accepting
<1>1. CASE UNCHANGED at
  BY <1>1
<1>2. ASSUME NEW t \in Turns, Send(t) \/ FileWork(t) \/ FileExecution(t) \/ Link(t) \/ Bind(t)
      PROVE  at'[u] = "dispatch"
  BY <1>0, <1>2 DEF Send, FileWork, FileExecution, Link, Bind, Advance, Goto, BackendTyped, Active
<1>3. ASSUME NEW t \in Turns, FilingFails(t) PROVE at'[u] = "dispatch"
  BY <1>3 DEF FilingFails, Carriers, Filing
<1>4. ASSUME NEW t \in Turns, EnterDispatch(t) \/ StartRun(t) \/ CoreStep(t) \/ CoreRaises(t) \/ PromptEnds(t) \/ ConfirmStop(t)
      PROVE  at'[u] = "dispatch"
  BY <1>4 DEF EnterDispatch, StartRun, CoreStep, CoreRaises, PromptEnds, ConfirmStop, backend
<1>5. ASSUME NEW t \in Turns, t # u, Dispatched_(t)
      PROVE  at'[u] = "dispatch"
  BY <1>0, <1>5 DEF Dispatched_, Goto, BackendTyped
<1>6. ASSUME NEW t \in Turns, SetRunning(t) \/ Register(t) \/ AcceptRaises(t)
      PROVE  at'[u] = "dispatch"
  BY <1>0, <1>6 DEF SetRunning, Register, AcceptRaises, Advance, Goto, BackendTyped
<1>7. ASSUME NEW t \in Turns, Launch(t) \/ Reject(t) PROVE at'[u] = "dispatch"
  BY <1>0, <1>7 DEF Launch, Reject, Returned, Carriers, BackendTyped
<1>8. ASSUME NEW t \in Turns, \/ Decide(t) \/ SealCore(t) \/ FinishCancelled(t) \/ Adopted(t) \/ CloseWork(t) \/ WorkClosed(t)
                              \/ FailTurn(t) \/ Cleanup(t) \/ Retire(t) \/ HeirRefused(t)
      PROVE  at'[u] = "dispatch"
  BY <1>0, <1>8 DEF Decide, SealCore, FinishCancelled, Adopted, CloseWork, WorkClosed, FailTurn, Cleanup, Retire,
                    HeirRefused, Advance, Goto, BackendTyped
<1>9. ASSUME NEW t \in Turns, CompleteTurn(t) PROVE at'[u] = "dispatch"
  <2>1. at[t] = "complete" /\ t # u
    BY <1>9 DEF CompleteTurn
  <2>2. CASE \E v \in Turns : turn[v] = "waiting" /\ at' = [at EXCEPT ![t] = "adopt", ![v] = "work"]
    <3>1. PICK v \in Turns : turn[v] = "waiting" /\ at' = [at EXCEPT ![t] = "adopt", ![v] = "work"]
      BY <2>2
    <3>2. v # u /\ v # t
      BY <1>0, <2>1, <3>1 DEF Active, IInv, Progress, Agrees
    <3>. QED  BY <1>0, <2>1, <3>1, <3>2, TwoMove DEF BackendTyped
  <2>3. CASE Goto(t, "close work") \/ Goto(t, "fail")
    BY <1>0, <2>1, <2>3 DEF Goto, BackendTyped
  <2>. QED  BY <1>9, <2>2, <2>3 DEF CompleteTurn
<1>10. ASSUME NEW t \in Turns, AcceptHeir(t) PROVE at'[u] = "dispatch"
  <2>1. u # t /\ u \notin Owed(t)
    BY <1>10 DEF AcceptHeir, Owed, IInv, Heirs, Holding
  <2>. QED  BY <1>10, <2>1 DEF AcceptHeir
<1>11. ASSUME NEW t \in Turns, CompletionRaises(t) PROVE at'[u] = "dispatch"
  BY <1>0, <1>11 DEF CompletionRaises, Handlers, Goto, BackendTyped
<1>12. CASE StopBegins \/ StopEnds
  BY <1>12 DEF StopBegins, StopEnds, backend
<1>. QED  BY <1>1, <1>2, <1>3, <1>4, <1>5, <1>6, <1>7, <1>8, <1>9, <1>10, <1>11, <1>12
          DEF TurnNext, Accept, Complete, Raises, tvars, backend

\* A step of the core by the caller of t.
LEMMA OwnDrives ==
    ASSUME IInv, NEW t \in Turns, EnterDispatch(t) \/ StartRun(t) \/ CoreStep(t) \/ CoreRaises(t)
    PROVE  /\ Own(t)'
           /\ \A u \in Turns \ {t} : caller'[u] = caller[u]
<1>0. /\ Typed /\ Own(t) /\ at' = at /\ t \in Callers /\ Callers = Turns
      /\ t \in Execs \cup {NULL} /\ caller[t].exec \in {t, NULL}
  BY BackendAssumption DEF IInv, CoreInv, Own, EnterDispatch, StartRun, CoreStep, CoreRaises, backend
<1>1. ASSUME NEW answer \in Answers, NEW e \in {t, NULL}, Returns(t, e, answer), answer = "accepted" => e = t
      PROVE  Own(t)' /\ \A u \in Turns \ {t} : caller'[u] = caller[u]
  <2>1. /\ caller'[t].pc = "idle" /\ caller'[t].exec = e /\ caller'[t].answer = answer
        /\ \A d \in Callers \ {t} : caller'[d] = caller[d]
    BY <1>0, <1>1, AnswerTyped
  <2>2. Own(t)'
    BY <1>1, <2>1, OwnAtRest
  <2>. QED  BY <1>0, <2>1, <2>2
<1>2. ASSUME NEW pc \in Driving, caller[t].pc \in Driving \cup {"freeze"}, Moves(t, pc)
      PROVE  Own(t)' /\ \A u \in Turns \ {t} : caller'[u] = caller[u]
  <2>1. /\ caller'[t].pc = pc /\ caller'[t].exec = caller[t].exec /\ caller'[t].answer = caller[t].answer
        /\ \A d \in Callers \ {t} : caller'[d] = caller[d]
    BY <1>0, <1>2, MoveTyped
  <2>. QED  BY <1>0, <1>2, <2>1 DEF Own, Driving
<1>3. CASE EnterDispatch(t)
  <2>1. CASE \E f \in Execs : Returns(t, t, IF f # t \/ dispatch[f].digest # Frozen THEN "rejected"
                                           ELSE Recorded(dispatch[f].state))
    <3>1. \E answer \in Answers : Returns(t, t, answer)
      BY <2>1 DEF Recorded, Answers
    <3>. QED  BY <1>1, <3>1
  <2>2. CASE Goes(t, [Nobody EXCEPT !.pc = "freeze", !.exec = t, !.key = ExecutionKey(t), !.digest = Frozen])
    <3>1. /\ caller'[t].pc = "freeze" /\ caller'[t].exec = t /\ caller'[t].answer = "none"
          /\ \A u \in Turns \ {t} : caller'[u] = caller[u]
      BY <1>0, <2>2 DEF Goes, Nobody, Typed, TypeOK
    <3>2. at[t] = "dispatch"
      BY <1>3 DEF EnterDispatch
    <3>. QED  BY <1>0, <3>1, <3>2 DEF Own
  <2>. QED  BY <1>3, <2>1, <2>2 DEF EnterDispatch, Dispatch
<1>4. CASE StartProvider(t) \/ Resolve(t)
  BY <1>2, <1>4 DEF StartProvider, Resolve, Driving
<1>5. CASE Freeze(t)
  <2>1. CASE Moves(t, "resolve")
    BY <1>2, <1>5, <2>1 DEF Freeze, Driving
  <2>2. CASE Answers_(t, "rejected")
    BY <1>0, <1>1, <2>2 DEF Answers_, Returns, Answers
  <2>. QED  BY <1>5, <2>1, <2>2 DEF Freeze
<1>6. CASE RecordStart(t)
  <2>1. caller[t].exec = t /\ Recorded(Settled(t)) \in Answers
    BY <1>0, <1>6 DEF RecordStart, Own, Driving, Recorded, Settled, Answers
  <2>2. Returns(t, t, Recorded(Settled(t)))
    BY <1>6, <2>1 DEF RecordStart, Answers_, Returns
  <2>. QED  BY <1>1, <2>1, <2>2
<1>7. CASE UpdateWork(t)
  BY <1>1, <1>7 DEF UpdateWork, Answers
<1>8. CASE Raise(t)
  BY <1>0, <1>1, <1>8 DEF Raise, Answers_, Returns, Answers
<1>. QED  BY <1>3, <1>4, <1>5, <1>6, <1>7, <1>8 DEF StartRun, CoreStep, CoreRaises

LEMMA OwnRests ==
    ASSUME IInv, NEW t \in Turns, Dispatched_(t) \/ WorkClosed(t) \/ CloseWork(t)
    PROVE  /\ Own(t)'
           /\ \A u \in Turns \ {t} : caller'[u] = caller[u]
<1>0. caller \in [Turns -> CallerRow]
  BY BackendAssumption DEF IInv, CoreInv, Typed, TypeOK
<1>1. CASE Dispatched_(t) \/ WorkClosed(t)
  <2>1. caller' = [caller EXCEPT ![t] = Nobody]
    BY <1>1 DEF Dispatched_, WorkClosed
  <2>2. Nobody.pc = "idle" /\ Nobody.exec = NULL /\ Nobody.answer = "none"
    BY DEF Nobody
  <2>3. caller'[t] = Nobody /\ \A u \in Turns \ {t} : caller'[u] = caller[u]
    BY <1>0, <2>1
  <2>. QED  BY <2>2, <2>3, OwnAtRest
<1>2. CASE CloseWork(t)
  <2>1. /\ caller'[t].pc = "close" /\ caller'[t].exec = NULL /\ caller'[t].answer = "none"
        /\ \A u \in Turns \ {t} : caller'[u] = caller[u]
    BY <1>0, <1>2 DEF CloseWork, ReadWork, Goes, Nobody
  <2>. QED  BY <2>1, OwnAtRest
<1>. QED  BY <1>1, <1>2

LEMMA OwnStep ==
    ASSUME IInv, [TurnNext]_tvars, NEW u \in Turns,
           server = "down" => \A t \in Turns : at[t] = "none"
    PROVE  Own(u)'
<1>1. CASE \E t \in Turns : EnterDispatch(t) \/ StartRun(t) \/ CoreStep(t) \/ CoreRaises(t)
  <2>1. PICK t \in Turns : EnterDispatch(t) \/ StartRun(t) \/ CoreStep(t) \/ CoreRaises(t)
    BY <1>1
  <2>2. at' = at
    BY <2>1 DEF EnterDispatch, StartRun, CoreStep, CoreRaises, backend
  <2>. QED  BY <2>1, <2>2, OwnDrives, OwnKept
<1>2. CASE \E t \in Turns : Dispatched_(t) \/ WorkClosed(t) \/ CloseWork(t)
  <2>1. PICK t \in Turns : Dispatched_(t) \/ WorkClosed(t) \/ CloseWork(t)
    BY <1>2
  <2>2. u # t => at'[u] = at[u]
    BY <2>1 DEF Dispatched_, WorkClosed, CloseWork, Advance, Goto, IInv, CoreInv, BackendTyped
  <2>. QED  BY <2>1, <2>2, OwnRests, OwnKept
<1>3. CASE ProcessDies
  <2>1. u \in Callers /\ Nobody.pc = "idle" /\ Nobody.exec = NULL /\ Nobody.answer = "none"
    BY BackendAssumption DEF Nobody
  <2>2. caller'[u] = Nobody
    BY <1>3, <2>1 DEF ProcessDies, Die
  <2>. QED  BY <2>1, <2>2, OwnAtRest
<1>4. CASE StartServer
  <2>1. at[u] # "dispatch" /\ caller' = caller
    BY <1>4 DEF StartServer, vars
  <2>. QED  BY <2>1, OwnKept
<1>5. CASE UNCHANGED caller /\ ~StartServer /\ ~ProcessDies /\ ~Dispatched_(u)
  BY <1>5, DispatchersStay, OwnKept
<1>6. CASE \E t \in Turns : FileWork(t) \/ FileExecution(t)
  BY <1>5, <1>6, <1>4, <1>3, <1>2 DEF FileWork, FileExecution, CreateWork, CreateExecution
<1>7. CASE \E t \in Turns : SealCore(t)
  BY <1>5, <1>7, <1>4, <1>3, <1>2 DEF SealCore, Finalize
<1>8. CASE UNCHANGED vars
  BY <1>5, <1>8, <1>4, <1>3, <1>2 DEF vars
<1>9. CASE \E t \in Turns : \/ Send(t) \/ Link(t) \/ FilingFails(t) \/ Bind(t) \/ SetRunning(t) \/ Register(t)
                            \/ Launch(t) \/ AcceptRaises(t) \/ Reject(t) \/ PromptEnds(t) \/ ConfirmStop(t)
  BY <1>8, <1>9 DEF Send, Link, FilingFails, Bind, SetRunning, Register, Launch, AcceptRaises, Reject,
              PromptEnds, ConfirmStop
<1>10. CASE \E t \in Turns : \/ Decide(t) \/ FinishCancelled(t) \/ CompleteTurn(t) \/ Adopted(t) \/ FailTurn(t)
                             \/ CompletionRaises(t) \/ Cleanup(t) \/ Retire(t) \/ AcceptHeir(t) \/ HeirRefused(t)
  BY <1>8, <1>10 DEF Decide, FinishCancelled, CompleteTurn, Adopted, FailTurn, CompletionRaises, Cleanup, Retire,
               AcceptHeir, HeirRefused
<1>11. CASE StopBegins \/ StopEnds
  BY <1>8, <1>11 DEF StopBegins, StopEnds
<1>. QED  BY <1>1, <1>2, <1>3, <1>4, <1>6, <1>7, <1>8, <1>9, <1>10, <1>11
          DEF TurnNext, Accept, Complete, Raises, tvars

-----------------------------------------------------------------------------
(* Shutdown *)

\* No thread outlives its process, and once the shutdown began a turn that is filed or
\* accepted is somebody's successor.
Down == server = "down" => \A t \in Turns : at[t] = "none"
Carried ==
    server \in {"stopping", "stopped", "stuck"} =>
        \A t \in Turns : at[t] \in Filing \cup Accepting => Carriers(t) # {}

Inv == IInv /\ Down /\ Carried /\ CleanStopIsQuiet

LEMMA InvHasDown == Inv => IInv /\ (server = "down" => \A t \in Turns : at[t] = "none")
  BY DEF Inv, Down

\* One thread moves that carries nobody, or nobody who still needs it.
LEMMA OneCarried ==
    ASSUME IInv, Carried, server' = server, NEW t \in Turns, NEW to, at' = [at EXCEPT ![t] = to],
           \A v \in Turns \ {t} : heir'[v] = heir[v],
           to \in Filing \cup Accepting => at[t] \in Filing \cup Accepting,
           at[t] \in {"adopt", "carry"} => at[heir[t]] \notin Filing \cup Accepting
    PROVE  Carried'
<1>1. \A v \in Turns : at'[v] = IF v = t THEN to ELSE at[v]
  BY DEF IInv, CoreInv, BackendTyped
<1>2. ASSUME NEW u \in Turns, server \in {"stopping", "stopped", "stuck"}, at'[u] \in Filing \cup Accepting
      PROVE  Carriers(u)' # {}
  <2>1. at[u] \in Filing \cup Accepting
    BY <1>1, <1>2
  <2>2. PICK p \in Turns : at[p] \in {"adopt", "carry"} /\ heir[p] = u
    BY <1>2, <2>1 DEF Carried, Carriers
  <2>3. p # t
    BY <2>1, <2>2
  <2>4. at'[p] = at[p] /\ heir'[p] = heir[p]
    BY <1>1, <2>3
  <2>. QED  BY <2>2, <2>4 DEF Carriers
<1>. QED  BY <1>2 DEF Carried

\* Threads and successors stay.
LEMMA NoneCarried ==
    ASSUME Carried, server' = server, at' = at, heir' = heir
    PROVE  Carried'
  BY DEF Carried, Carriers

LEMMA FilingCarried ==
    ASSUME IInv, Carried, NEW t \in Turns,
           Send(t) \/ FileWork(t) \/ FileExecution(t) \/ Link(t) \/ FilingFails(t) \/ Bind(t)
    PROVE  Carried'
<1>1. CASE Send(t)
  BY <1>1 DEF Send, runtime, Carried
<1>2. CASE FileWork(t) \/ FileExecution(t) \/ Link(t) \/ Bind(t)
  <2>1. heir' = heir /\ server' = server
    BY <1>2 DEF FileWork, FileExecution, Link, Bind, runtime
  <2>2. /\ at[t] \in Filing \cup Accepting
        /\ \E to \in {"execution", "link", "bind", "filed", "dispatch", "none"} : at' = [at EXCEPT ![t] = to]
    BY <1>2 DEF FileWork, FileExecution, Link, Bind, Advance, Goto, Filing, Accepting
  <2>3. at[t] \notin {"adopt", "carry"}
    BY <2>2 DEF Filing, Accepting
  <2>. QED  BY <2>1, <2>2, <2>3, OneCarried
<1>3. CASE FilingFails(t)
  <2>1. /\ at[t] \in Filing /\ server' = server
        /\ \A v \in Turns : /\ at'[v] = IF v = t THEN "none" ELSE IF v \in Carriers(t) THEN "fail" ELSE at[v]
                            /\ heir'[v] = IF v \in Carriers(t) THEN NULL ELSE heir[v]
    BY <1>3 DEF FilingFails, runtime
  <2>2. ASSUME NEW u \in Turns, server \in {"stopping", "stopped", "stuck"}, at'[u] \in Filing \cup Accepting
        PROVE  Carriers(u)' # {}
    <3>1. u # t /\ at[u] \in Filing \cup Accepting
      BY <2>1, <2>2 DEF Filing, Accepting
    <3>2. PICK p \in Turns : at[p] \in {"adopt", "carry"} /\ heir[p] = u
      BY <2>2, <3>1 DEF Carried, Carriers
    <3>3. p # t /\ p \notin Carriers(t)
      BY <2>1, <3>1, <3>2 DEF Filing, Carriers
    <3>4. at'[p] = at[p] /\ heir'[p] = heir[p]
      BY <2>1, <3>3
    <3>. QED  BY <3>2, <3>4 DEF Carriers
  <2>. QED  BY <2>1, <2>2 DEF Carried
<1>. QED  BY <1>1, <1>2, <1>3

LEMMA AcceptCarried ==
    ASSUME IInv, Carried, NEW t \in Turns,
           \/ EnterDispatch(t) \/ StartRun(t) \/ CoreStep(t) \/ CoreRaises(t) \/ Dispatched_(t)
           \/ SetRunning(t) \/ Register(t) \/ Launch(t) \/ AcceptRaises(t) \/ Reject(t)
    PROVE  Carried'
<1>1. CASE EnterDispatch(t) \/ StartRun(t) \/ CoreStep(t) \/ CoreRaises(t)
  BY <1>1, NoneCarried DEF EnterDispatch, StartRun, CoreStep, CoreRaises, backend, runtime
<1>2. CASE Dispatched_(t) \/ SetRunning(t) \/ Register(t) \/ AcceptRaises(t)
  <2>1. heir' = heir /\ server' = server
    BY <1>2 DEF Dispatched_, SetRunning, Register, AcceptRaises, runtime
  <2>2. at[t] \in Accepting /\ \E to : at' = [at EXCEPT ![t] = to]
    BY <1>2 DEF Dispatched_, SetRunning, Register, AcceptRaises, Advance, Goto, Accepting
  <2>3. at[t] \notin {"adopt", "carry"}
    BY <2>2 DEF Accepting
  <2>. QED  BY <2>1, <2>2, <2>3, OneCarried
<1>3. CASE Launch(t) \/ Reject(t)
  <2>1. /\ server' = server /\ heir' = heir /\ at[t] \in Accepting
        /\ at'[t] \in {"wait", "none"}
        /\ \A v \in Turns \ {t} : at'[v] = IF v \in Carriers(t) THEN "none" ELSE at[v]
    BY <1>3 DEF Launch, Reject, Returned, runtime, Accepting
  <2>2. ASSUME NEW u \in Turns, server \in {"stopping", "stopped", "stuck"}, at'[u] \in Filing \cup Accepting
        PROVE  Carriers(u)' # {}
    <3>1. u # t /\ at[u] \in Filing \cup Accepting
      BY <2>1, <2>2 DEF Filing, Accepting
    <3>2. PICK p \in Turns : at[p] \in {"adopt", "carry"} /\ heir[p] = u
      BY <2>2, <3>1 DEF Carried, Carriers
    <3>3. p # t /\ p \notin Carriers(t)
      BY <2>1, <3>1, <3>2 DEF Accepting, Carriers
    <3>4. at'[p] = at[p] /\ heir'[p] = heir[p]
      BY <2>1, <3>3
    <3>. QED  BY <3>2, <3>4 DEF Carriers
  <2>. QED  BY <2>1, <2>2 DEF Carried
<1>. QED  BY <1>1, <1>2, <1>3

LEMMA ClaimCarried ==
    ASSUME IInv, Carried, server' = server, NEW t \in Turns, NEW u \in Turns,
           at[t] = "complete", turn[t] = "running", turn[u] = "waiting",
           heir' = [heir EXCEPT ![t] = u],
           at' = [at EXCEPT ![t] = "adopt", ![u] = "work"]
    PROVE  Carried'
<1>0. BackendTyped /\ t # u
  BY DEF IInv, CoreInv
<1>1. \A v \in Turns :
         /\ at'[v] = IF v = t THEN "adopt" ELSE IF v = u THEN "work" ELSE at[v]
         /\ heir'[v] = IF v = t THEN u ELSE heir[v]
  BY <1>0, TwoMove DEF BackendTyped
<1>2. ASSUME NEW v \in Turns, server \in {"stopping", "stopped", "stuck"}, at'[v] \in Filing \cup Accepting
      PROVE  Carriers(v)' # {}
  <2>1. CASE v = u
    <3>1. at'[t] = "adopt" /\ heir'[t] = v
      BY <1>1, <2>1
    <3>. QED  BY <3>1 DEF Carriers
  <2>2. CASE v # u
    <3>1. at[v] \in Filing \cup Accepting
      BY <1>1, <1>2, <2>2 DEF Filing, Accepting
    <3>2. PICK p \in Turns : at[p] \in {"adopt", "carry"} /\ heir[p] = v
      BY <1>2, <3>1 DEF Carried, Carriers
    <3>3. heir[p] # NULL
      BY <3>2, BackendAssumption, CoreAssumption
    <3>4. turn[p] = "completed"
      BY <3>3 DEF IInv, Heirs
    <3>5. p # t /\ p # u
      BY <3>2, <3>4
    <3>6. at'[p] = at[p] /\ heir'[p] = heir[p]
      BY <1>1, <3>5
    <3>. QED  BY <3>2, <3>6 DEF Carriers
  <2>. QED  BY <2>1, <2>2
<1>. QED  BY <1>2 DEF Carried

LEMMA CompletionCarried ==
    ASSUME IInv, Carried, NEW t \in Turns, Complete(t) \/ PromptEnds(t) \/ ConfirmStop(t) \/ CompletionRaises(t)
    PROVE  Carried'
<1>1. CASE PromptEnds(t) \/ ConfirmStop(t)
  BY <1>1, NoneCarried DEF PromptEnds, ConfirmStop, runtime
<1>2. CASE Decide(t) \/ FinishCancelled(t) \/ CloseWork(t) \/ WorkClosed(t) \/ FailTurn(t) \/ Cleanup(t) \/ Retire(t)
  <2>1. /\ heir' = heir /\ server' = server
        /\ at[t] \in {"wait", "finish", "fail cancelled", "close work", "closing", "fail", "cleanup", "retire"}
    BY <1>2 DEF Decide, FinishCancelled, CloseWork, WorkClosed, FailTurn, Cleanup, Retire, Advance, runtime
  <2>2. \E to \in Completing : at' = [at EXCEPT ![t] = to]
    BY <1>2 DEF Decide, Verdict, FinishCancelled, CloseWork, WorkClosed, FailTurn, Cleanup, Retire, Advance, Goto,
                Completing
  <2>. QED  BY <2>1, <2>2, OneCarried DEF Completing, Filing, Accepting
<1>3. CASE SealCore(t)
  <2>1. /\ heir' = heir /\ server' = server /\ at[t] \in {"seal cancelled", "seal succeeded"}
        /\ \E to \in {"finish", "complete"} : at' = [at EXCEPT ![t] = to]
    BY <1>3 DEF SealCore, Advance, Goto, runtime
  <2>. QED  BY <2>1, OneCarried DEF Filing, Accepting
<1>4. CASE CompleteTurn(t)
  <2>1. at[t] = "complete" /\ server' = server
    BY <1>4 DEF CompleteTurn, runtime
  <2>2. CASE /\ turn[t] = "running"
             /\ \E u \in Turns : /\ turn[u] = "waiting"
                                /\ heir' = [heir EXCEPT ![t] = u]
                                /\ at' = [at EXCEPT ![t] = "adopt", ![u] = "work"]
    BY <2>1, <2>2, ClaimCarried
  <2>3. CASE heir' = heir /\ \E to \in {"close work", "fail"} : at' = [at EXCEPT ![t] = to]
    BY <2>1, <2>3, OneCarried DEF Filing, Accepting
  <2>. QED  BY <1>4, <2>2, <2>3 DEF CompleteTurn, Completable, Goto
<1>5. CASE Adopted(t) \/ HeirRefused(t)
  <2>1. /\ heir' = heir /\ server' = server /\ at[heir[t]] \in {"filed", "none"}
        /\ \E to \in {"close work", "none"} : at' = [at EXCEPT ![t] = to]
    BY <1>5 DEF Adopted, HeirRefused, Advance, Goto, runtime
  <2>. QED  BY <2>1, OneCarried DEF Filing, Accepting
<1>6. CASE AcceptHeir(t)
  <2>1. /\ heir' = heir /\ server' = server /\ at[t] = "succeed"
        /\ \A v \in Turns : at'[v] = IF v \in Owed(t) THEN "bind"
                                     ELSE IF v = t THEN IF Owed(t) = {} THEN "none" ELSE "carry"
                                     ELSE at[v]
    BY <1>6 DEF AcceptHeir, runtime
  <2>2. \A v \in Owed(t) : v = heir[t] /\ at[v] = "filed"
    BY <2>1 DEF Owed, IInv, Heirs, Holding
  <2>3. ASSUME NEW u \in Turns, server \in {"stopping", "stopped", "stuck"}, at'[u] \in Filing \cup Accepting
        PROVE  Carriers(u)' # {}
    <3>1. CASE u \in Owed(t)
      <4>1. heir[t] = u /\ t \notin Owed(t) /\ Owed(t) # {}
        BY <2>1, <2>2, <3>1
      <4>2. at'[t] = "carry"
        BY <2>1, <4>1
      <4>. QED  BY <2>1, <4>1, <4>2 DEF Carriers
    <3>2. CASE u \notin Owed(t)
      <4>1. at[u] \in Filing \cup Accepting
        BY <2>1, <2>3, <3>2 DEF Filing, Accepting
      <4>2. PICK p \in Turns : at[p] \in {"adopt", "carry"} /\ heir[p] = u
        BY <2>3, <4>1 DEF Carried, Carriers
      <4>3. p # t /\ p \notin Owed(t)
        BY <2>1, <2>2, <4>2
      <4>4. at'[p] = at[p]
        BY <2>1, <4>3
      <4>. QED  BY <2>1, <4>2, <4>4 DEF Carriers
    <3>. QED  BY <3>1, <3>2
  <2>. QED  BY <2>1, <2>3 DEF Carried
<1>7. CASE CompletionRaises(t)
  <2>1. /\ server' = server /\ at' = [at EXCEPT ![t] = Landing(at[t])]
        /\ at[t] \in Handlers \cup {"seal cancelled", "finish", "seal succeeded", "complete", "close work"}
        /\ heir' = heir \/ heir' = [heir EXCEPT ![t] = NULL]
    BY <1>7 DEF CompletionRaises, Goto, runtime
  <2>2. /\ \A v \in Turns \ {t} : heir'[v] = heir[v]
        /\ at[t] \notin {"adopt", "carry"}
        /\ Landing(at[t]) \notin Filing \cup Accepting
    BY <2>1 DEF Handlers, Landing, Filing, Accepting, IInv, CoreInv, BackendTyped
  <2>. QED  BY <2>1, <2>2, OneCarried
<1>. QED  BY <1>1, <1>2, <1>3, <1>4, <1>5, <1>6, <1>7 DEF Complete

LEMMA ServerCarried ==
    ASSUME Carried, StopBegins \/ StopEnds \/ ProcessDies \/ StartServer
    PROVE  Carried'
<1>1. CASE StopBegins
  BY <1>1 DEF StopBegins, backend, Carried, Carriers
<1>2. CASE StopEnds
  BY <1>2 DEF StopEnds, backend, Carried, Carriers
<1>3. CASE ProcessDies \/ StartServer
  BY <1>3 DEF ProcessDies, StartServer, Carried
<1>. QED  BY <1>1, <1>2, <1>3

LEMMA CarriedStep == Inv /\ [TurnNext]_tvars => Carried'
<1>. SUFFICES ASSUME Inv, [TurnNext]_tvars PROVE Carried'
  OBVIOUS
<1>0. IInv /\ Carried
  BY DEF Inv
<1>1. CASE UNCHANGED tvars
  BY <1>0, <1>1, NoneCarried DEF tvars, backend, runtime
<1>. QED  BY <1>0, <1>1, FilingCarried, AcceptCarried, CompletionCarried, ServerCarried
          DEF TurnNext, Accept, Raises

\* A thread takes a step only while the process runs, and only a busy one does; Send gives
\* work to an idle one, before the shutdown.
LEMMA ThreadsNeedProcess ==
    ASSUME [TurnNext]_tvars
    PROVE  \/ at' = at /\ server' = server
           \/ server' = server /\ Lives /\ \E t \in Turns : Busy(t)
           \/ server' = "up" /\ server = "up"
           \/ StopBegins \/ StopEnds \/ ProcessDies \/ StartServer
<1>1. CASE UNCHANGED tvars
  BY <1>1 DEF tvars, backend, runtime
<1>2. ASSUME NEW t \in Turns, Send(t) PROVE server' = "up" /\ server = "up"
  BY <1>2 DEF Send, runtime
<1>3. ASSUME NEW t \in Turns, \/ FileWork(t) \/ FileExecution(t) \/ Link(t) \/ FilingFails(t) \/ Bind(t)
      PROVE  server' = server /\ Lives /\ Busy(t)
  BY <1>3 DEF FileWork, FileExecution, Link, FilingFails, Bind, Advance, Filing, Busy, runtime
<1>4. ASSUME NEW t \in Turns, \/ EnterDispatch(t) \/ StartRun(t) \/ CoreStep(t) \/ CoreRaises(t)
                              \/ PromptEnds(t) \/ ConfirmStop(t)
      PROVE  at' = at /\ server' = server
  BY <1>4 DEF EnterDispatch, StartRun, CoreStep, CoreRaises, PromptEnds, ConfirmStop, backend, runtime
<1>5. ASSUME NEW t \in Turns, Dispatched_(t) \/ SetRunning(t) \/ Register(t) \/ Launch(t) \/ AcceptRaises(t) \/ Reject(t)
      PROVE  server' = server /\ Lives /\ Busy(t)
  BY <1>5 DEF Dispatched_, SetRunning, Register, Launch, AcceptRaises, Reject, Advance, Busy, runtime
<1>6. ASSUME NEW t \in Turns, \/ Decide(t) \/ SealCore(t) \/ FinishCancelled(t) \/ CompleteTurn(t) \/ Adopted(t)
                              \/ CloseWork(t) \/ WorkClosed(t)
      PROVE  server' = server /\ Lives /\ Busy(t)
  BY <1>6 DEF Decide, SealCore, FinishCancelled, CompleteTurn, Adopted, CloseWork, WorkClosed, Advance, Busy, runtime
<1>7. ASSUME NEW t \in Turns, \/ FailTurn(t) \/ Cleanup(t) \/ Retire(t) \/ AcceptHeir(t) \/ HeirRefused(t)
                              \/ CompletionRaises(t)
      PROVE  server' = server /\ Lives /\ Busy(t)
  BY <1>7 DEF FailTurn, Cleanup, Retire, AcceptHeir, HeirRefused, CompletionRaises, Handlers, Advance, Busy, runtime
<1>. QED  BY <1>1, <1>2, <1>3, <1>4, <1>5, <1>6, <1>7 DEF TurnNext, Accept, Complete, Raises

LEMMA DownStep == Inv /\ [TurnNext]_tvars => Down'
<1>. SUFFICES ASSUME Inv, [TurnNext]_tvars PROVE Down'
  OBVIOUS
<1>1. CASE StopBegins \/ StopEnds \/ StartServer
  BY <1>1 DEF StopBegins, StopEnds, StartServer, Down
<1>2. CASE ProcessDies
  BY <1>2 DEF ProcessDies, Down
<1>. QED  BY <1>1, <1>2, ThreadsNeedProcess DEF Inv, Down, Lives

\* What stop() waits for is enough: a thread that is not a worker's is carried by a worker.
LEMMA QuietStep == Inv /\ [TurnNext]_tvars => CleanStopIsQuiet'
<1>. SUFFICES ASSUME Inv, [TurnNext]_tvars PROVE CleanStopIsQuiet'
  OBVIOUS
<1>1. CASE StopBegins \/ ProcessDies \/ StartServer
  BY <1>1 DEF StopBegins, ProcessDies, StartServer, CleanStopIsQuiet
<1>2. CASE StopEnds
  <2>1. ASSUME server' = "stopped", NEW t \in Turns PROVE ~Busy(t)'
    <3>1. server = "stopping" /\ Workers = {} /\ at' = at
      BY <1>2, <2>1 DEF StopEnds, Quiescent, backend
    <3>2. at[t] \notin Completing
      BY <3>1 DEF Workers
    <3>3. Carriers(t) = {}
      BY <3>1 DEF Carriers, Workers, Completing
    <3>4. at[t] \notin Filing \cup Accepting
      BY <3>1, <3>3 DEF Inv, Carried
    <3>5. at[t] \in {"none", "filed"}
      BY <3>2, <3>4 DEF Inv, IInv, CoreInv, BackendTyped
    <3>. QED  BY <3>1, <3>5 DEF Busy
  <2>. QED  BY <2>1 DEF CleanStopIsQuiet
<1>3. CASE at' = at /\ server' = server
  BY <1>3 DEF Inv, CleanStopIsQuiet, Busy
<1>4. CASE server' = server /\ \E t \in Turns : Busy(t)
  BY <1>4 DEF Inv, CleanStopIsQuiet
<1>5. CASE server' = "up"
  BY <1>5 DEF CleanStopIsQuiet
<1>. QED  BY <1>1, <1>2, <1>3, <1>4, <1>5, ThreadsNeedProcess

-----------------------------------------------------------------------------
(* The invariant *)

LEMMA InitInv == TurnInit => Inv
<1>. SUFFICES ASSUME TurnInit PROVE Inv
  OBVIOUS
<1>1. Typed /\ DispatchInv
  BY InitTyped, InitDispatch DEF TurnInit
<1>2. BackendTyped
  BY BackendAssumption DEF TurnInit, BackendTyped
<1>3. ASSUME NEW t \in Turns PROVE Own(t)
  <2>1. caller[t] = Nobody /\ Nobody.pc = "idle" /\ Nobody.exec = NULL /\ Nobody.answer = "none"
    BY BackendAssumption DEF TurnInit, Init, Nobody
  <2>. QED  BY <2>1 DEF Own, Driving
<1>4. ASSUME NEW t \in Turns PROVE Progress(t)
  <2>1. SealOf(t) = NULL
    BY BackendAssumption DEF TurnInit, Init, SealOf, Terminal, Exists
  <2>2. at[t] = "none" /\ turn[t] = "absent"
    BY DEF TurnInit
  <2>3. Succeeded # NULL /\ Cancelled # NULL
    BY BackendAssumption, CoreAssumption
  <2>. QED  BY <2>1, <2>2, <2>3 DEF Progress, Agrees, Early, Running, Filing, Accepting
<1>5. Heirs
  BY DEF TurnInit, Heirs
<1>6. Down /\ Carried /\ CleanStopIsQuiet
  BY DEF TurnInit, Down, Carried, CleanStopIsQuiet
<1>. QED  BY <1>1, <1>2, <1>3, <1>4, <1>5, <1>6 DEF Inv, IInv, CoreInv

LEMMA ProgressStep ==
    ASSUME Inv, [TurnNext]_tvars, NEW u \in Turns
    PROVE  Progress(u)'
<1>0. IInv /\ (server = "down" => \A t \in Turns : at[t] = "none")
  BY DEF Inv, Down
<1>1. CASE UNCHANGED tvars
  <2>1. final' = final /\ at' = at /\ turn' = turn
    BY <1>1 DEF tvars, vars, rows, backend
  <2>2. Agrees(at'[u], turn'[u], SealOf(u), dispatch[u].state)
    BY <1>0, <2>1 DEF IInv, Progress
  <2>. QED  BY <1>0, <2>1, <2>2, ProgressKept
<1>2. ASSUME NEW t \in Turns, Send(t) \/ FileWork(t) \/ FileExecution(t) \/ Link(t) \/ FilingFails(t) \/ Bind(t)
      PROVE  Progress(u)'
  <2>1. final' = final
    BY <1>2 DEF Send, FileWork, FileExecution, CreateWork, CreateExecution, Link, FilingFails, Bind, vars, rows
  <2>. QED  BY <1>0, <1>2, <2>1, FilingProgress, ProgressKept
<1>3. ASSUME NEW t \in Turns,
             \/ EnterDispatch(t) \/ StartRun(t) \/ CoreStep(t) \/ CoreRaises(t) \/ Dispatched_(t)
             \/ SetRunning(t) \/ Register(t) \/ Launch(t) \/ AcceptRaises(t) \/ Reject(t)
      PROVE  Progress(u)'
  <2>1. CASE EnterDispatch(t) \/ StartRun(t) \/ CoreStep(t) \/ CoreRaises(t)
    BY <1>0, <1>3, <2>1, AcceptProgress, ProgressKept
       DEF EnterDispatch, Dispatch, StartRun, StartProvider, CoreStep, Freeze, Resolve, RecordStart, UpdateWork,
           CoreRaises, Raise, rows
  <2>2. CASE ~(EnterDispatch(t) \/ StartRun(t) \/ CoreStep(t) \/ CoreRaises(t))
    <3>1. final' = final
      BY <1>3, <2>2 DEF Dispatched_, SetRunning, Register, Launch, AcceptRaises, Reject, vars, rows
    <3>. QED  BY <1>0, <1>3, <3>1, AcceptProgress, ProgressKept
  <2>. QED  BY <2>1, <2>2
<1>4. ASSUME NEW t \in Turns,
             \/ PromptEnds(t) \/ ConfirmStop(t) \/ Decide(t) \/ FinishCancelled(t) \/ CompleteTurn(t)
             \/ Adopted(t) \/ CloseWork(t) \/ WorkClosed(t) \/ FailTurn(t) \/ Cleanup(t) \/ Retire(t)
             \/ AcceptHeir(t) \/ HeirRefused(t) \/ CompletionRaises(t)
      PROVE  Progress(u)'
  <2>1. final' = final
    BY <1>4 DEF PromptEnds, ConfirmStop, Decide, FinishCancelled, CompleteTurn, Adopted, CloseWork, ReadWork,
                WorkClosed, FailTurn, Cleanup, Retire, AcceptHeir, HeirRefused, CompletionRaises, vars, rows
  <2>. QED  BY <1>0, <1>4, <2>1, CompletionProgress, ProgressKept
<1>5. ASSUME NEW t \in Turns, SealCore(t) PROVE Progress(u)'
  BY <1>0, <1>5, SealProgress
<1>6. CASE StopBegins \/ StopEnds \/ ProcessDies \/ StartServer
  <2>1. final' = final
    BY <1>6 DEF StopBegins, StopEnds, ProcessDies, Die, StartServer, vars, rows
  <2>. QED  BY <1>0, <1>6, <2>1, ServerProgress, ProgressKept
<1>. QED  BY <1>1, <1>2, <1>3, <1>4, <1>5, <1>6 DEF TurnNext, Accept, Complete, Raises

LEMMA HeirsStep == Inv /\ [TurnNext]_tvars => Heirs'
<1>. SUFFICES ASSUME Inv, [TurnNext]_tvars PROVE Heirs'
  OBVIOUS
<1>0. IInv /\ (server = "down" => \A t \in Turns : at[t] = "none")
  BY DEF Inv, Down
<1>1. CASE UNCHANGED tvars
  BY <1>0, <1>1, NoneMove DEF tvars, backend, Onward
<1>. QED  BY <1>0, <1>1, FilingHeirs, AcceptHeirs, CompletionHeirs, ServerHeirs
          DEF TurnNext, Accept, Raises

LEMMA InvStep == Inv /\ [TurnNext]_tvars => Inv'
<1>. SUFFICES ASSUME Inv, [TurnNext]_tvars PROVE Inv'
  OBVIOUS
<1>0. IInv /\ CoreInv /\ (server = "down" => \A t \in Turns : at[t] = "none")
  BY DEF Inv, Down, IInv
<1>1. Typed' /\ DispatchInv' /\ BackendTyped'
  BY <1>0, CoreKept
<1>2. \A u \in Turns : Own(u)'
  BY <1>0, OwnStep
<1>3. \A u \in Turns : Progress(u)'
  BY ProgressStep
<1>. QED  BY <1>1, <1>2, <1>3, HeirsStep, DownStep, CarriedStep, QuietStep DEF Inv, IInv, CoreInv

LEMMA Invariant == TurnSpec => []Inv
  BY InitInv, InvStep, PTL DEF TurnSpec

-----------------------------------------------------------------------------
(* What the two stores, the threads and the shutdown owe each other *)

\* The ledger and the Work Core never contradict each other, whichever of their two writes
\* raised and whoever died between them (_complete, SidecarBackend).
THEOREM StoresAgree == TurnSpec => []RecordsAgree
<1>1. Inv => RecordsAgree
  <2>. SUFFICES ASSUME Inv, NEW t \in Turns
                PROVE  /\ turn[t] = "completed" =>
                             SealOf(t) = Succeeded /\ dispatch[t].state = "accepted" /\ starts[t] = 1
                       /\ SealOf(t) = Cancelled => turn[t] # "completed"
                       /\ SealOf(t) = Succeeded => turn[t] # "cancelled"
    BY DEF RecordsAgree, SealOf
  <2>1. Agrees(at[t], turn[t], SealOf(t), dispatch[t].state)
    BY DEF Inv, IInv, Progress
  <2>2. dispatch[t].state = "accepted" => starts[t] = 1
    BY BackendAssumption DEF Inv, IInv, CoreInv, DispatchInv, RecordIsTrue
  <2>. QED  BY <2>1, <2>2, BackendAssumption DEF Agrees
<1>. QED  BY <1>1, Invariant, PTL

\* A stop() that answers yes leaves no thread that could write to the database it lets go.
THEOREM StopIsQuiet == TurnSpec => []CleanStopIsQuiet
<1>1. Inv => CleanStopIsQuiet
  BY DEF Inv
<1>. QED  BY <1>1, Invariant, PTL

\* Every step leaves the end of a turn alone.
LEMMA EndStays ==
    ASSUME Inv, [TurnNext]_tvars, NEW u \in Turns, turn[u] \in Ended
    PROVE  turn'[u] = turn[u]
<1>0. /\ BackendTyped
      /\ \A t \in Turns : Agrees(at[t], turn[t], SealOf(t), dispatch[t].state)
  BY DEF Inv, IInv, CoreInv, Progress
<1>1. CASE turn' = turn
  BY <1>1
<1>2. ASSUME NEW t \in Turns, Send(t) \/ Link(t) \/ SetRunning(t) PROVE turn'[u] = turn[u]
  <2>1. t # u /\ \E state : turn' = [turn EXCEPT ![t] = state]
    BY <1>0, <1>2 DEF Send, Link, SetRunning, Advance, Agrees, Early, Filing, Accepting, Active, Ended
  <2>. QED  BY <1>0, <2>1 DEF BackendTyped
<1>3. ASSUME NEW t \in Turns, Reject(t) \/ FinishCancelled(t) \/ FailTurn(t) PROVE turn'[u] = turn[u]
  <2>1. \E state : EndTurn(t, state)
    BY <1>3 DEF Reject, FinishCancelled, FailTurn
  <2>. QED  BY <1>0, <2>1 DEF EndTurn, Paused, Active, Ended, BackendTyped
<1>4. ASSUME NEW t \in Turns, CompleteTurn(t) PROVE turn'[u] = turn[u]
  <2>1. turn' = turn \/ turn[t] = "running"
    BY <1>4 DEF CompleteTurn, Completable
  <2>2. CASE turn[t] = "running" /\ turn' = [turn EXCEPT ![t] = "completed"]
    BY <1>0, <2>2 DEF BackendTyped, Ended
  <2>3. CASE /\ turn[t] = "running"
             /\ \E v \in Turns : turn[v] = "waiting" /\ turn' = [turn EXCEPT ![t] = "completed", ![v] = "accepted"]
    <3>1. PICK v \in Turns : turn[v] = "waiting" /\ turn' = [turn EXCEPT ![t] = "completed", ![v] = "accepted"]
      BY <2>3
    <3>2. t # u /\ v # u /\ t # v
      BY <2>3, <3>1 DEF Ended
    <3>. QED  BY <1>0, <3>1, <3>2, TwoMove DEF BackendTyped
  <2>. QED  BY <1>4, <2>1, <2>2, <2>3 DEF CompleteTurn
<1>5. CASE StartServer
  BY <1>0, <1>5 DEF StartServer, BackendTyped, Active, Ended
<1>6. CASE UNCHANGED tvars \/ StopBegins \/ StopEnds \/ ProcessDies
  BY <1>1, <1>6 DEF tvars, backend, StopBegins, StopEnds, ProcessDies
<1>7. ASSUME NEW t \in Turns, \/ FileWork(t) \/ FileExecution(t) \/ FilingFails(t) \/ Bind(t) \/ EnterDispatch(t)
                              \/ StartRun(t) \/ CoreStep(t) \/ CoreRaises(t) \/ Dispatched_(t) \/ Register(t)
                              \/ Launch(t) \/ AcceptRaises(t)
      PROVE  turn' = turn
  BY <1>7 DEF FileWork, FileExecution, FilingFails, Bind, EnterDispatch, StartRun, CoreStep, CoreRaises, Dispatched_,
              Register, Launch, AcceptRaises, backend
<1>8. ASSUME NEW t \in Turns, \/ PromptEnds(t) \/ ConfirmStop(t) \/ Decide(t) \/ SealCore(t) \/ Adopted(t)
                              \/ CloseWork(t) \/ WorkClosed(t) \/ Cleanup(t) \/ Retire(t) \/ AcceptHeir(t)
                              \/ HeirRefused(t) \/ CompletionRaises(t)
      PROVE  turn' = turn
  BY <1>8 DEF PromptEnds, ConfirmStop, Decide, SealCore, Adopted, CloseWork, WorkClosed, Cleanup, Retire, AcceptHeir,
              HeirRefused, CompletionRaises
<1>. QED  BY <1>1, <1>2, <1>3, <1>4, <1>5, <1>6, <1>7, <1>8 DEF TurnNext, Accept, Complete, Raises

\* The one step that starts natively is the caller's of a turn that is still active.
LEMMA StartsStay ==
    ASSUME Inv, [TurnNext]_tvars, NEW u \in Turns, turn[u] \in Ended
    PROVE  starts'[u] = starts[u]
<1>1. CASE starts' = starts
  BY <1>1
<1>2. ASSUME NEW t \in Turns, StartRun(t) PROVE starts'[u] = starts[u]
  <2>1. caller[t].exec = t /\ at[t] = "dispatch"
    BY <1>2 DEF StartRun, StartProvider, Inv, IInv, CoreInv, Own, Driving
  <2>2. turn[t] \in Active
    BY <2>1 DEF Inv, IInv, Progress, Agrees, Early, Accepting
  <2>3. t # u
    BY <2>2 DEF Active, Ended
  <2>4. starts \in [Turns -> Nat]
    BY BackendAssumption DEF Inv, IInv, CoreInv, Typed, TypeOK
  <2>. QED  BY <1>2, <2>1, <2>3, <2>4 DEF StartRun, StartProvider
<1>3. CASE UNCHANGED tvars \/ StopBegins \/ StopEnds \/ ProcessDies \/ StartServer
  BY <1>1, <1>3 DEF tvars, vars, StopBegins, StopEnds, ProcessDies, Die, StartServer
<1>4. ASSUME NEW t \in Turns, \/ Send(t) \/ FileWork(t) \/ FileExecution(t) \/ Link(t) \/ FilingFails(t) \/ Bind(t)
                              \/ SetRunning(t) \/ Register(t) \/ Launch(t) \/ AcceptRaises(t) \/ Reject(t)
                              \/ Dispatched_(t)
      PROVE  starts' = starts
  BY <1>4 DEF Send, FileWork, CreateWork, FileExecution, CreateExecution, Link, FilingFails, Bind, SetRunning,
              Register, Launch, AcceptRaises, Reject, Dispatched_, vars
<1>5. ASSUME NEW t \in Turns, EnterDispatch(t) \/ CoreStep(t) \/ CoreRaises(t) PROVE starts' = starts
  BY <1>5 DEF EnterDispatch, Dispatch, CoreStep, Freeze, Resolve, RecordStart, UpdateWork, CoreRaises, Raise
<1>6. ASSUME NEW t \in Turns, \/ PromptEnds(t) \/ ConfirmStop(t) \/ Complete(t) \/ CompletionRaises(t)
      PROVE  starts' = starts
  BY <1>6 DEF PromptEnds, ConfirmStop, Complete, Decide, SealCore, Finalize, FinishCancelled, CompleteTurn, Adopted,
              CloseWork, ReadWork, WorkClosed, FailTurn, Cleanup, Retire, AcceptHeir, HeirRefused, CompletionRaises,
              vars
<1>. QED  BY <1>1, <1>2, <1>3, <1>4, <1>5, <1>6 DEF TurnNext, Accept, Raises

\* A turn that has ended stays as it ended and is not sent into the harness again, by this
\* life of the server or by a later one (seal_interrupted_turns, SidecarBackend.accept).
THEOREM EndedStaysDown == TurnSpec => SealedStaysDown
<1>1. Inv /\ [TurnNext]_tvars =>
        [\A t \in Turns : turn[t] \in Ended => starts'[t] = starts[t] /\ turn'[t] = turn[t]]_tvars
  BY EndStays, StartsStay
<1>. QED  BY <1>1, Invariant, PTL DEF TurnSpec, SealedStaysDown
=============================================================================
