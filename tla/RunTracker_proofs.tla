--------------------------- MODULE RunTracker_proofs ---------------------------
(***************************************************************************)
(* Stopping a run, for every set of turns, keys, callers and submitters.   *)
(* One abort per run rests on three facts that no single step shows: a     *)
(* caller past Enter owns the run's cancel lock; a run that no stop can    *)
(* find yet was touched by none; and a run that was sent an abort has its  *)
(* answer recorded, or in the hands of the caller that will record it.     *)
(***************************************************************************)
EXTENDS RunTracker, TLAPS

Bound  == {"lock", "check", "sent", "record"}
Locked == {"check", "sent", "record"}
Asking == {"sent", "record"}

\* What a caller holds at each point of cancel_execution.
HoldsItsPart(c) ==
    /\ caller[c].pc \in Bound \cup {"look", "refuse"} => caller[c].id \in Ids
    /\ caller[c].pc \in Bound =>
          caller[c].run \in Runs /\ caller[c].run[1] = caller[c].id
    /\ caller[c].pc \in Locked => cancelLock[caller[c].run] = c
    /\ caller[c].pc \in Asking => port[caller[c].run] # "none"
    /\ caller[c].pc = "record" => caller[c].answer \in Outcomes

CallersAreBound == \A c \in Callers : HoldsItsPart(c)

\* Until accept() registers a run, no stop knows of it.
UnregisteredIsUntouched ==
    \A t \in Turns : stage[t] \in {"new", "started", "refused"} =>
        /\ t \notin active
        /\ sent[<<t, 1>>] = 0
        /\ \A c \in Callers : caller[c].pc \in Bound => caller[c].run # <<t, 1>>

\* A submitter between its claim and its answer holds the key by itself.
SubmittersHoldTheirKey ==
    /\ \A k \in Keys : claim[k] <= attempts[k]
    /\ \A u \in Submitters : submitter[u].pc \in {"build", "open"} =>
          /\ submitter[u].run \in Runs /\ submitter[u].run[1] \in Keys
          /\ claim[submitter[u].run[1]] = submitter[u].run[2]
    /\ \A u \in Submitters : submitter[u].pc = "build" => port[submitter[u].run] = "none"
    /\ \A u, v \in Submitters :
          /\ submitter[u].pc \in {"build", "open"} /\ submitter[v].pc \in {"build", "open"}
          /\ submitter[u].run = submitter[v].run
          => u = v

\* An abort that was sent is answered, or a caller is about to record its answer.
AbortsAreAnswered ==
    \A r \in Runs : sent[r] > 0 =>
        /\ port[r] # "none"
        /\ \/ receipt[r[1]] # NULL
           \/ \E c \in Callers : caller[c].pc \in Asking /\ caller[c].run = r

IInv == TypeOK /\ CallersAreBound /\ UnregisteredIsUntouched /\ SubmittersHoldTheirKey
        /\ AbortsAreAnswered /\ AbortOnce /\ OneStart

\* A prompt that an abort cut short is decided by the answer to that abort.
CutShort ==
    \A t \in Turns :
        /\ stage[t] \in {"cancelling", "finishing", "closing", "closed", "retired"} =>
              prompt[t] # "running"
        /\ ended[t] = "completed" => stage[t] \in {"closing", "closed", "retired"}
        /\ interrupted[<<t, 1>>] => sent[<<t, 1>>] > 0
        /\ (stage[t] = "finishing" \/ ended[t] = "completed") /\ interrupted[<<t, 1>>] =>
              /\ ~confirmed[<<t, 1>>]
              /\ \A c \in Callers : caller[c].pc \in Asking => caller[c].run # <<t, 1>>

-----------------------------------------------------------------------------
(* Runs *)

\* A run is its identifier and its attempt; a Turn has one.
LEMMA RunIs ==
    ASSUME NEW r \in Runs
    PROVE  /\ r = <<r[1], r[2]>> /\ r[1] \in Ids
           /\ r[1] \in Turns => r = <<r[1], 1>>
           /\ r[1] \in Keys => r[2] \in 1..MaxClaims
  BY TrackerAssumption DEF Runs, Ids

LEMMA RunOf ==
    /\ \A t \in Turns : <<t, 1>> \in Runs
    /\ \A k \in Keys, n \in 1..MaxClaims : <<k, n>> \in Runs
  BY DEF Runs

\* What Target finds is a run of the identifier that was looked up.
LEMMA TargetIs ==
    ASSUME TypeOK, NEW id \in Ids, Target(id) # NULL
    PROVE  /\ Target(id) \in Runs /\ Target(id)[1] = id
           /\ id \in Turns => id \in active /\ Target(id) = <<id, 1>>
<1>1. CASE id \in active
  BY <1>1, RunOf DEF Target, TypeOK
<1>2. CASE id \notin active
  <2>1. id \in Keys /\ claim[id] # 0 /\ Target(id) = <<id, claim[id]>>
    BY <1>2 DEF Target
  <2>2. claim[id] \in 1..MaxClaims
    BY <2>1, TrackerAssumption DEF TypeOK
  <2> QED BY <2>1, <2>2, RunOf, TrackerAssumption
<1> QED BY <1>1, <1>2

-----------------------------------------------------------------------------
(* Types *)

LEMMA TypeInit == Init => TypeOK
<1> SUFFICES ASSUME Init PROVE TypeOK
  OBVIOUS
<1>1. caller \in [Callers -> CallerRow] /\ submitter \in [Submitters -> SubmitRow]
  BY DEF Init, CallerRow, SubmitRow, NotFiled
<1> QED BY <1>1, TrackerAssumption DEF Init, TypeOK

LEMMA ReleasedType ==
    ASSUME TypeOK, NEW c \in Callers
    PROVE  Released(c) \in [Runs -> Callers \cup {NULL}]
  BY DEF TypeOK, Released

LEMMA TypeStep == TypeOK /\ CallersAreBound /\ SubmittersHoldTheirKey /\ [Next]_vars => TypeOK'
<1> SUFFICES ASSUME TypeOK, CallersAreBound, SubmittersHoldTheirKey, [Next]_vars
             PROVE  TypeOK'
  OBVIOUS
<1> USE TrackerAssumption DEF tracker, locks, native, worker
<1>1. ASSUME NEW c \in Callers, NEW id \in Ids, AskStop(c, id) PROVE TypeOK'
  BY ZenonT(40), <1>1 DEF AskStop, TypeOK, CallerRow
<1>2. ASSUME NEW c \in Callers, Look(c) PROVE TypeOK'
  <2>1. caller[c].id \in Ids
    BY <1>2 DEF Look, CallersAreBound, HoldsItsPart
  <2>2. caller' \in [Callers -> CallerRow]
    <3>1. CASE Return(c, receipt[caller[c].id]) /\ receipt[caller[c].id] # NULL
      <4>1. receipt[caller[c].id] \in Outcomes
        BY <2>1, <3>1 DEF TypeOK
      <4> QED BY ZenonT(40), <4>1, <3>1 DEF Return, TypeOK, CallerRow
    <3>2. CASE caller' = [caller EXCEPT ![c].pc = "refuse"]
      BY <3>2 DEF TypeOK, CallerRow
    <3>3. CASE /\ Target(caller[c].id) # NULL
               /\ caller' = [caller EXCEPT ![c].pc = "lock",
                                           ![c].run = Target(caller[c].id)]
      <4>1. Target(caller[c].id) \in Runs
        BY <2>1, <3>3, TargetIs
      <4> QED BY ZenonT(40), <4>1, <3>3 DEF TypeOK, CallerRow
    <3> QED BY <1>2, <3>1, <3>2, <3>3 DEF Look
  <2> QED BY <1>2, <2>2 DEF Look, TypeOK
<1>3. ASSUME NEW c \in Callers, Refuse(c) PROVE TypeOK'
  <2>1. caller' \in [Callers -> CallerRow]
    BY ZenonT(40), <1>3 DEF Refuse, Return, TypeOK, CallerRow, Outcomes
  <2>2. receipt' \in [Ids -> Outcomes \cup {NULL}]
    BY <1>3 DEF Refuse, TypeOK, Outcomes
  <2> QED BY <1>3, <2>1, <2>2 DEF Refuse, TypeOK
<1>4. ASSUME NEW c \in Callers, Enter(c) PROVE TypeOK'
  <2>1. caller' \in [Callers -> CallerRow]
    BY <1>4 DEF Enter, TypeOK, CallerRow
  <2>2. cancelLock' \in [Runs -> Callers \cup {NULL}]
    BY <1>4 DEF Enter, TypeOK
  <2> QED BY <1>4, <2>1, <2>2 DEF Enter, TypeOK
<1>5. ASSUME NEW c \in Callers, Check(c) PROVE TypeOK'
  <2>1. caller[c].id \in Ids /\ caller[c].run \in Runs
    BY <1>5 DEF Check, CallersAreBound, HoldsItsPart, Bound
  <2>2. caller' \in [Callers -> CallerRow]
    BY <1>5, <2>1, SMTT(30) DEF Check, Return, TypeOK, CallerRow, Outcomes
  <2>3. cancelLock' \in [Runs -> Callers \cup {NULL}]
    BY <1>5, ReleasedType DEF Check, TypeOK
  <2>4. sent' \in [Runs -> Nat] /\ interrupted' \in [Runs -> BOOLEAN]
    <3>1. UNCHANGED sent \/ sent' = [sent EXCEPT ![caller[c].run] = @ + 1]
      BY <1>5 DEF Check
    <3>2. UNCHANGED interrupted \/ interrupted' = [interrupted EXCEPT ![caller[c].run] = TRUE]
      BY <1>5 DEF Check
    <3>3. sent' \in [Runs -> Nat]
      BY <2>1, <3>1 DEF TypeOK
    <3>4. interrupted' \in [Runs -> BOOLEAN]
      BY <3>2 DEF TypeOK
    <3> QED BY <3>3, <3>4
  <2> QED BY <1>5, <2>2, <2>3, <2>4 DEF Check, TypeOK
<1>6. ASSUME NEW c \in Callers, Answered(c) PROVE TypeOK'
  <2>1. PICK outcome \in Outcomes :
           caller' = [caller EXCEPT ![c].pc = "record", ![c].answer = outcome]
    BY <1>6 DEF Answered
  <2>2. caller' \in [Callers -> CallerRow]
    BY ZenonT(40), <2>1 DEF TypeOK, CallerRow
  <2> QED BY <1>6, <2>2 DEF Answered, TypeOK
<1>7. ASSUME NEW c \in Callers, Record(c) PROVE TypeOK'
  <2>1. caller[c].answer \in Outcomes
    BY <1>7 DEF Record, CallersAreBound, HoldsItsPart
  <2>2. caller' \in [Callers -> CallerRow]
    BY ZenonT(40), <1>7 DEF Record, Return, TypeOK, CallerRow
  <2>3. receipt' \in [Ids -> Outcomes \cup {NULL}] /\ confirmed' \in [Runs -> BOOLEAN]
    BY <1>7, <2>1 DEF Record, TypeOK
  <2> QED BY <1>7, <2>2, <2>3, ReleasedType DEF Record, TypeOK
<1>8. ASSUME NEW t \in Turns, \/ Start(t) \/ Register(t) \/ AcceptFails(t) \/ PromptEnds(t)
                              \/ Decide(t) \/ Persist(t) \/ CloseExecution(t) \/ Retire(t)
      PROVE  TypeOK'
  <2>1. <<t, 1>> \in Runs /\ t \in Ids
    BY RunOf DEF Ids
  <2>2. CASE Start(t)          BY <2>1, <2>2 DEF Start, TypeOK
  <2>3. CASE Register(t)       BY <2>1, <2>3 DEF Register, TypeOK
  <2>4. CASE AcceptFails(t)    BY <2>4 DEF AcceptFails, TypeOK
  <2>5. CASE PromptEnds(t)     BY <2>5 DEF PromptEnds, TypeOK
  <2>6. CASE Decide(t)         BY <2>6 DEF Decide, TypeOK
  <2>7. CASE Persist(t)        BY <2>7 DEF Persist, TypeOK
  <2>8. CASE CloseExecution(t) BY <2>1, <2>8 DEF CloseExecution, TypeOK
  <2>9. CASE Retire(t)         BY <2>9 DEF Retire, Kept, TypeOK
  <2> QED BY <1>8, <2>2, <2>3, <2>4, <2>5, <2>6, <2>7, <2>8, <2>9
<1>9. ASSUME NEW t \in Turns, Rebuild(t) PROVE TypeOK'
  BY <1>9, RunOf DEF Rebuild, TypeOK
<1>10. ASSUME NEW u \in Submitters, NEW k \in Keys, Claim(u, k) PROVE TypeOK'
  <2>1. attempts[k] + 1 \in 1..MaxClaims
    BY <1>10 DEF Claim, Claimable, TypeOK
  <2>2. <<k, attempts[k] + 1>> \in Runs
    BY <2>1, RunOf
  <2>3. submitter' \in [Submitters -> SubmitRow]
    BY <1>10, <2>2 DEF Claim, TypeOK, SubmitRow
  <2>4. /\ claim' \in [Keys -> 0..MaxClaims] /\ attempts' \in [Keys -> 0..MaxClaims]
        /\ receipt' \in [Ids -> Outcomes \cup {NULL}]
    <3>1. attempts[k] + 1 \in 0..MaxClaims
      BY <2>1
    <3> QED BY <1>10, <3>1 DEF Claim, TypeOK
  <2> QED BY <1>10, <2>3, <2>4 DEF Claim, TypeOK
<1>11. ASSUME NEW u \in Submitters, NEW k \in Keys, Replay(u, k) PROVE TypeOK'
  BY <1>11 DEF Replay, TypeOK, SubmitRow
<1>12. ASSUME NEW u \in Submitters, Submitter(u) PROVE TypeOK'
  <2>1. CASE Build(u)        BY <2>1 DEF Build, TypeOK, SubmitRow
  <2>2. CASE BuildRefused(u)
    <3>1. claim' \in [Keys -> 0..MaxClaims]
      <4>1. claim' = claim \/ claim' = [claim EXCEPT ![submitter[u].run[1]] = 0]
        BY <2>2 DEF BuildRefused
      <4>2. 0 \in 0..MaxClaims
        OBVIOUS
      <4> QED BY <4>1, <4>2 DEF TypeOK
    <3>2. submitter' \in [Submitters -> SubmitRow]
      BY <2>2 DEF BuildRefused, TypeOK, SubmitRow
    <3> QED BY <2>2, <3>1, <3>2 DEF BuildRefused, TypeOK
  <2>3. CASE Open(u)         BY <2>3 DEF Open, TypeOK, SubmitRow
  <2> QED BY <1>12, <2>1, <2>2, <2>3 DEF Submitter
<1>13. CASE UNCHANGED vars
  BY <1>13 DEF vars, TypeOK
<1> QED BY <1>1, <1>2, <1>3, <1>4, <1>5, <1>6, <1>7, <1>8, <1>9, <1>10, <1>11, <1>12, <1>13
        DEF Next, Caller, Completion

-----------------------------------------------------------------------------
(* What a caller holds *)

\* Ports appear and close; none goes back to not existing.
LEMMA PortsStay ==
    ASSUME IInv, Next, NEW r \in Runs, port[r] # "none"
    PROVE  port'[r] # "none"
<1> USE DEF tracker, locks, native, worker
<1> TypeOK /\ SubmittersHoldTheirKey
  BY DEF IInv
<1>1. ASSUME NEW c \in Callers, Caller(c) \/ \E id \in Ids : AskStop(c, id)
      PROVE  port' = port
  BY <1>1 DEF Caller, AskStop, Look, Refuse, Enter, Check, Answered, Record
<1>2. ASSUME NEW t \in Turns, \/ Start(t) \/ Register(t) \/ AcceptFails(t)
                              \/ PromptEnds(t) \/ Rebuild(t) \/ Completion(t)
      PROVE  port'[r] # "none"
  <2>1. port' = port \/ port' = [port EXCEPT ![<<t, 1>>] = "open"]
                     \/ port' = [port EXCEPT ![<<t, 1>>] = "closed"]
    BY <1>2 DEF Start, Register, AcceptFails, PromptEnds, Rebuild, Completion, Decide,
                Persist, CloseExecution, Retire
  <2> QED BY <2>1 DEF TypeOK
<1>3. ASSUME NEW u \in Submitters, Submitter(u) \/ \E k \in Keys : Claim(u, k) \/ Replay(u, k)
      PROVE  port'[r] # "none"
  <2>1. port' = port \/ port' = [port EXCEPT ![submitter[u].run] = "built"]
                     \/ port' = [port EXCEPT ![submitter[u].run] = "open"]
    BY <1>3 DEF Submitter, Build, BuildRefused, Open, Claim, Replay
  <2> QED BY <2>1 DEF TypeOK
<1> QED BY <1>1, <1>2, <1>3 DEF Next

\* A caller that does not move keeps its part if its lock is not taken from it.
LEMMA OthersKeep ==
    ASSUME IInv, NEW d \in Callers, caller'[d] = caller[d],
           \A r \in Runs : port[r] # "none" => port'[r] # "none",
           \A r \in Runs : cancelLock[r] = d => cancelLock'[r] = d
    PROVE  HoldsItsPart(d)'
<1>1. HoldsItsPart(d)
  BY DEF IInv, CallersAreBound
<1> QED BY <1>1 DEF HoldsItsPart, Bound, Locked, Asking

\* Nor is it taken when another caller returns.
LEMMA ReleaseKeeps ==
    ASSUME TypeOK, NEW c \in Callers, NEW d \in Callers \ {c}, NEW r \in Runs,
           cancelLock[r] = d
    PROVE  Released(c)[r] = d
  BY DEF Released

LEMMA BoundStep == IInv /\ [Next]_vars => CallersAreBound'
<1> SUFFICES ASSUME IInv, [Next]_vars PROVE CallersAreBound'
  OBVIOUS
<1> TypeOK /\ CallersAreBound
  BY DEF IInv
<1> USE TrackerAssumption DEF tracker, locks, native, worker
<1>1. ASSUME NEW c \in Callers, NEW id \in Ids, AskStop(c, id) PROVE CallersAreBound'
  <2>1. HoldsItsPart(c)'
    BY <1>1 DEF AskStop, TypeOK, HoldsItsPart, Bound, Locked, Asking
  <2>2. ASSUME NEW d \in Callers \ {c} PROVE HoldsItsPart(d)'
    BY <1>1, OthersKeep DEF AskStop, TypeOK
  <2> QED BY <2>1, <2>2 DEF CallersAreBound
<1>2. ASSUME NEW c \in Callers, Look(c) PROVE CallersAreBound'
  <2>1. caller[c].id \in Ids
    BY <1>2 DEF Look, CallersAreBound, HoldsItsPart
  <2>2. ASSUME NEW d \in Callers \ {c} PROVE HoldsItsPart(d)'
    BY <1>2, OthersKeep DEF Look, Return, TypeOK
  <2>3. /\ caller'[c].id = caller[c].id
        /\ \/ caller'[c].pc \in {"done", "refuse"}
           \/ /\ caller'[c].pc = "lock" /\ caller'[c].run = Target(caller[c].id)
              /\ Target(caller[c].id) # NULL
    BY <1>2 DEF Look, Return, TypeOK, CallerRow
  <2>4. caller'[c].pc = "lock" => caller'[c].run \in Runs /\ caller'[c].run[1] = caller'[c].id
    BY <2>1, <2>3, TargetIs
  <2>5. HoldsItsPart(c)'
    BY <2>1, <2>3, <2>4 DEF HoldsItsPart, Bound, Locked, Asking
  <2> QED BY <2>2, <2>5 DEF CallersAreBound
<1>3. ASSUME NEW c \in Callers, Refuse(c) PROVE CallersAreBound'
  <2>1. HoldsItsPart(c)'
    BY <1>3 DEF Refuse, Return, TypeOK, HoldsItsPart, Bound, Locked, Asking
  <2>2. ASSUME NEW d \in Callers \ {c} PROVE HoldsItsPart(d)'
    BY <1>3, OthersKeep DEF Refuse, Return, TypeOK
  <2> QED BY <2>1, <2>2 DEF CallersAreBound
<1>4. ASSUME NEW c \in Callers, Enter(c) PROVE CallersAreBound'
  <2>1. HoldsItsPart(c) /\ caller[c].pc = "lock"
    BY <1>4 DEF Enter, CallersAreBound
  <2>2. caller[c].run \in Runs /\ caller[c].run[1] = caller[c].id /\ caller[c].id \in Ids
    BY <2>1 DEF HoldsItsPart, Bound
  <2>3. /\ caller'[c].pc = "check" /\ caller'[c].run = caller[c].run
        /\ caller'[c].id = caller[c].id /\ cancelLock'[caller[c].run] = c
    BY <1>4, <2>2 DEF Enter, TypeOK, CallerRow
  <2>4. HoldsItsPart(c)'
    BY <2>2, <2>3 DEF HoldsItsPart, Bound, Locked, Asking
  <2>5. ASSUME NEW d \in Callers \ {c} PROVE HoldsItsPart(d)'
    <3>1. ASSUME NEW r \in Runs, cancelLock[r] = d PROVE cancelLock'[r] = d
      BY <1>4, <2>2, <3>1 DEF Enter, TypeOK
    <3>2. caller'[d] = caller[d] /\ port' = port
      BY <1>4 DEF Enter, TypeOK
    <3> QED BY <3>1, <3>2, OthersKeep
  <2> QED BY <2>4, <2>5 DEF CallersAreBound
<1>5. ASSUME NEW c \in Callers, Check(c) PROVE CallersAreBound'
  <2>1. HoldsItsPart(c) /\ caller[c].pc = "check"
    BY <1>5 DEF Check, CallersAreBound
  <2>2. /\ caller'[c].id = caller[c].id /\ caller'[c].run = caller[c].run
        /\ \/ caller'[c].pc = "done"
           \/ /\ caller'[c].pc \in Asking /\ port[caller[c].run] # "none"
              /\ cancelLock' = cancelLock /\ port' = port
              /\ caller'[c].pc = "record" => caller'[c].answer \in Outcomes
    BY <1>5 DEF Check, Return, TypeOK, CallerRow, Asking, Outcomes
  <2>3. HoldsItsPart(c)'
    BY <2>1, <2>2 DEF HoldsItsPart, Bound, Locked, Asking
  <2>4. ASSUME NEW d \in Callers \ {c} PROVE HoldsItsPart(d)'
    <3>1. /\ caller'[d] = caller[d] /\ port' = port
          /\ cancelLock' \in {cancelLock, Released(c)}
      BY <1>5 DEF Check, Return, TypeOK
    <3> QED BY <3>1, ReleaseKeeps, OthersKeep
  <2> QED BY <2>3, <2>4 DEF CallersAreBound
<1>6. ASSUME NEW c \in Callers, Answered(c) PROVE CallersAreBound'
  <2>1. HoldsItsPart(c) /\ caller[c].pc = "sent" /\ UNCHANGED <<cancelLock, port>>
    BY <1>6 DEF Answered, CallersAreBound
  <2>2. /\ caller'[c].id = caller[c].id /\ caller'[c].run = caller[c].run
        /\ caller'[c].pc = "record" /\ caller'[c].answer \in Outcomes
    BY <1>6 DEF Answered, TypeOK, CallerRow
  <2>3. HoldsItsPart(c)'
    BY <2>1, <2>2 DEF HoldsItsPart, Bound, Locked, Asking
  <2>4. ASSUME NEW d \in Callers \ {c} PROVE HoldsItsPart(d)'
    BY <1>6, <2>1, OthersKeep DEF Answered, TypeOK
  <2> QED BY <2>3, <2>4 DEF CallersAreBound
<1>7. ASSUME NEW c \in Callers, Record(c) PROVE CallersAreBound'
  <2>1. HoldsItsPart(c)'
    BY <1>7 DEF Record, Return, TypeOK, CallerRow, HoldsItsPart, Bound, Locked, Asking
  <2>2. ASSUME NEW d \in Callers \ {c} PROVE HoldsItsPart(d)'
    <3>1. caller'[d] = caller[d] /\ port' = port /\ cancelLock' = Released(c)
      BY <1>7 DEF Record, Return, TypeOK
    <3> QED BY <3>1, ReleaseKeeps, OthersKeep
  <2> QED BY <2>1, <2>2 DEF CallersAreBound
<1>8. ASSUME Next, UNCHANGED <<caller, cancelLock>> PROVE CallersAreBound'
  BY <1>8, PortsStay, OthersKeep DEF CallersAreBound
<1>9. CASE UNCHANGED vars
  BY <1>9, OthersKeep DEF vars, CallersAreBound
<1>10. ASSUME NEW t \in Turns, \/ Start(t) \/ Register(t) \/ AcceptFails(t)
                               \/ PromptEnds(t) \/ Rebuild(t) \/ Completion(t)
       PROVE  UNCHANGED <<caller, cancelLock>>
  BY <1>10 DEF Start, Register, AcceptFails, PromptEnds, Rebuild, Completion, Decide,
               Persist, CloseExecution, Retire
<1>11. ASSUME NEW u \in Submitters, Submitter(u) \/ \E k \in Keys : Claim(u, k) \/ Replay(u, k)
       PROVE  UNCHANGED <<caller, cancelLock>>
  BY <1>11 DEF Submitter, Build, BuildRefused, Open, Claim, Replay
<1> QED BY <1>1, <1>2, <1>3, <1>4, <1>5, <1>6, <1>7, <1>8, <1>9, <1>10, <1>11 DEF Next, Caller

-----------------------------------------------------------------------------
(* Runs that no stop can find, and keys that are being started *)

\* The steps that are not a caller's leave callers alone, and so on: what each
\* kind of step leaves unchanged.
LEMMA Frames ==
    ASSUME Next
    PROVE  \/ \E c \in Callers : Look(c) /\ UNCHANGED <<sent, stage, active, tracker, native, worker, submitter>>
           \/ \E c \in Callers : /\ Refuse(c) \/ Enter(c) \/ Answered(c) \/ Record(c)
                                    \/ \E id \in Ids : AskStop(c, id)
                                 /\ UNCHANGED <<sent, active, claim, attempts, native, worker, submitter>>
           \/ \E c \in Callers : Check(c) /\ UNCHANGED <<tracker, port, prompt, worker, submitter>>
           \/ \E t \in Turns : /\ Start(t) \/ Register(t) \/ AcceptFails(t) \/ PromptEnds(t)
                                  \/ Rebuild(t) \/ Completion(t)
                               /\ UNCHANGED <<sent, caller, claim, attempts, locks, submitter>>
           \/ \E u \in Submitters :
                  /\ Submitter(u) \/ \E k \in Keys : Claim(u, k) \/ Replay(u, k)
                  /\ UNCHANGED <<sent, caller, active, locks, worker, prompt, interrupted>>
  BY ZenonT(40) DEF Next, Caller, Completion, Submitter, tracker, locks, native, worker,
         AskStop, Look, Refuse, Enter, Check, Answered, Record, Start, Register, AcceptFails,
         PromptEnds, Rebuild, Decide, Persist, CloseExecution, Retire, Build, BuildRefused,
         Open, Claim, Replay

LEMMA UntouchedStep == IInv /\ [Next]_vars => UnregisteredIsUntouched'
<1> SUFFICES ASSUME IInv, [Next]_vars PROVE UnregisteredIsUntouched'
  OBVIOUS
<1> TypeOK /\ CallersAreBound /\ UnregisteredIsUntouched
  BY DEF IInv
<1> USE TrackerAssumption DEF tracker, locks, native, worker
<1>1. ASSUME NEW c \in Callers, Look(c), UNCHANGED <<sent, stage, active>>
      PROVE  UnregisteredIsUntouched'
  <2>1. caller[c].id \in Ids
    BY <1>1 DEF Look, CallersAreBound, HoldsItsPart
  <2>2. \A d \in Callers \ {c} : caller'[d] = caller[d]
    BY <1>1 DEF Look, Return, TypeOK
  <2>3. \/ caller'[c].pc \notin Bound
        \/ caller'[c].run = Target(caller[c].id) /\ Target(caller[c].id) # NULL
    BY <1>1 DEF Look, Return, TypeOK, CallerRow, Bound
  <2>4. ASSUME NEW t \in Turns, t \notin active, caller'[c].pc \in Bound
        PROVE  caller'[c].run # <<t, 1>>
    <3>1. /\ caller'[c].run = Target(caller[c].id)
          /\ Target(caller[c].id)[1] = caller[c].id
          /\ caller[c].id \in Turns => caller[c].id \in active
      BY <2>1, <2>3, <2>4, TargetIs
    <3> QED BY <3>1, <2>4
  <2> QED BY <1>1, <2>2, <2>4 DEF UnregisteredIsUntouched
<1>2. ASSUME NEW c \in Callers, UNCHANGED <<sent, stage, active>>,
             \/ Refuse(c) \/ Enter(c) \/ Answered(c) \/ Record(c)
             \/ \E id \in Ids : AskStop(c, id)
      PROVE  UnregisteredIsUntouched'
  <2>1. \A d \in Callers : caller'[d].pc \in Bound =>
           caller[d].pc \in Bound /\ caller'[d].run = caller[d].run
    BY <1>2 DEF AskStop, Refuse, Enter, Answered, Record, Return, TypeOK, CallerRow, Bound
  <2> QED BY <1>2, <2>1 DEF UnregisteredIsUntouched
<1>3. ASSUME NEW c \in Callers, Check(c), UNCHANGED <<stage, active>>
      PROVE  UnregisteredIsUntouched'
  <2>1. caller[c].pc = "check" /\ caller[c].pc \in Bound /\ caller[c].run \in Runs
    BY <1>3 DEF Check, CallersAreBound, HoldsItsPart, Bound
  <2>2. \A d \in Callers : caller'[d].pc \in Bound =>
           caller[d].pc \in Bound /\ caller'[d].run = caller[d].run
    <3>1. /\ caller'[c].run = caller[c].run
          /\ \A d \in Callers \ {c} : caller'[d] = caller[d]
      BY <1>3 DEF Check, Return, TypeOK, CallerRow
    <3> QED BY <2>1, <3>1
  <2>3. \A r \in Runs : r # caller[c].run => sent'[r] = sent[r]
    BY <1>3 DEF Check, TypeOK
  <2>4. \A t \in Turns : <<t, 1>> \in Runs
    BY RunOf
  <2> QED BY <1>3, <2>1, <2>2, <2>3, <2>4 DEF UnregisteredIsUntouched
<1>4. ASSUME NEW t \in Turns, UNCHANGED <<sent, caller>>,
             \/ Start(t) \/ Register(t) \/ AcceptFails(t) \/ PromptEnds(t)
             \/ Rebuild(t) \/ Completion(t)
      PROVE  UnregisteredIsUntouched'
  <2>1. ASSUME NEW v \in Turns, stage'[v] \in {"new", "started", "refused"}
        PROVE  stage[v] \in {"new", "started", "refused"} /\ (v \in active' => v \in active)
    BY <1>4, <2>1 DEF Start, Register, AcceptFails, PromptEnds, Rebuild, Completion, Decide,
                      Persist, CloseExecution, Retire, TypeOK
  <2> QED BY <1>4, <2>1 DEF UnregisteredIsUntouched
<1>5. CASE UNCHANGED <<sent, caller, active, stage>>
  BY <1>5 DEF UnregisteredIsUntouched
<1> QED BY <1>1, <1>2, <1>3, <1>4, <1>5, Frames DEF vars

\* A key has one submitter between claim and answer, and no port but that of the
\* attempt that holds it.
LEMMA SubmittersStep == IInv /\ [Next]_vars => SubmittersHoldTheirKey' /\ OneStart'
<1> SUFFICES ASSUME IInv, [Next]_vars PROVE SubmittersHoldTheirKey' /\ OneStart'
  OBVIOUS
<1> TypeOK /\ SubmittersHoldTheirKey /\ OneStart
  BY DEF IInv
<1> USE TrackerAssumption DEF tracker, locks, native, worker
<1>1. CASE UNCHANGED <<claim, attempts, submitter, port>>
  BY <1>1 DEF SubmittersHoldTheirKey, OneStart
<1>2. ASSUME NEW t \in Turns, UNCHANGED <<claim, attempts, submitter>>,
             \/ Start(t) \/ Register(t) \/ AcceptFails(t) \/ PromptEnds(t)
             \/ Rebuild(t) \/ Completion(t)
      PROVE  SubmittersHoldTheirKey' /\ OneStart'
  <2>1. ASSUME NEW r \in Runs, r[1] \in Keys PROVE port'[r] = port[r]
    <3>1. r # <<t, 1>>
      BY <2>1
    <3> QED BY <1>2, <3>1 DEF Start, Register, AcceptFails, PromptEnds, Rebuild, Completion,
                              Decide, Persist, CloseExecution, Retire, TypeOK
  <2>2. SubmittersHoldTheirKey'
    BY <1>2, <2>1 DEF SubmittersHoldTheirKey
  <2>3. OneStart'
    BY <1>2, <2>1, RunOf DEF OneStart
  <2> QED BY <2>2, <2>3
<1>3. ASSUME NEW u \in Submitters, NEW k \in Keys, Claim(u, k)
      PROVE  SubmittersHoldTheirKey' /\ OneStart'
  <2> DEFINE n == attempts[k] + 1
  <2>1. n \in 1..MaxClaims /\ <<k, n>> \in Runs
    BY <1>3, RunOf DEF Claim, Claimable, TypeOK
  <2>2. \A m \in 1..MaxClaims : port[<<k, m>>] = "none"
    BY <1>3 DEF Claim, Claimable, OneStart
  <2>3. \A v \in Submitters : submitter[v].pc \in {"build", "open"} => submitter[v].run[1] # k
    <3> SUFFICES ASSUME NEW v \in Submitters, submitter[v].pc \in {"build", "open"},
                        submitter[v].run[1] = k
                 PROVE  FALSE
      OBVIOUS
    <3>1. submitter[v].run[2] \in 1..MaxClaims /\ claim[k] = submitter[v].run[2]
      BY RunIs DEF SubmittersHoldTheirKey
    <3> QED BY <3>1, <1>3 DEF Claim, Claimable
  <2>4. /\ claim' = [claim EXCEPT ![k] = n] /\ attempts' = [attempts EXCEPT ![k] = n]
        /\ submitter'[u].pc = "build" /\ submitter'[u].run = <<k, n>>
        /\ \A v \in Submitters \ {u} : submitter'[v] = submitter[v]
        /\ port' = port
    BY <1>3 DEF Claim, TypeOK, SubmitRow
  <2>5. OneStart'
    BY <2>2, <2>4 DEF OneStart, TypeOK
  <2>6. \A j \in Keys : claim'[j] <= attempts'[j]
    BY <2>1, <2>4 DEF SubmittersHoldTheirKey, TypeOK
  <2>7. \A v \in Submitters : submitter'[v].pc \in {"build", "open"} =>
          /\ submitter'[v].run \in Runs /\ submitter'[v].run[1] \in Keys
          /\ claim'[submitter'[v].run[1]] = submitter'[v].run[2]
    BY <2>1, <2>3, <2>4 DEF SubmittersHoldTheirKey, TypeOK
  <2>8. \A v \in Submitters : submitter'[v].pc = "build" => port'[submitter'[v].run] = "none"
    BY <2>1, <2>2, <2>4 DEF SubmittersHoldTheirKey
  <2>9. \A v, w \in Submitters :
          /\ submitter'[v].pc \in {"build", "open"} /\ submitter'[w].pc \in {"build", "open"}
          /\ submitter'[v].run = submitter'[w].run
          => v = w
    BY <2>3, <2>4 DEF SubmittersHoldTheirKey
  <2> QED BY <2>5, <2>6, <2>7, <2>8, <2>9 DEF SubmittersHoldTheirKey
<1>4. ASSUME NEW u \in Submitters, NEW k \in Keys, Replay(u, k)
      PROVE  SubmittersHoldTheirKey' /\ OneStart'
  BY <1>4 DEF Replay, SubmittersHoldTheirKey, OneStart, TypeOK, SubmitRow
<1>5. ASSUME NEW u \in Submitters, Build(u) \/ Open(u)
      PROVE  SubmittersHoldTheirKey' /\ OneStart'
  <2> DEFINE r == submitter[u].run
  <2>1. /\ submitter[u].pc \in {"build", "open"} /\ submitter'[u].pc \in {"open", "done"}
        /\ submitter'[u].run = r
        /\ \A v \in Submitters \ {u} : submitter'[v] = submitter[v]
        /\ \A q \in Runs \ {r} : port'[q] = port[q]
        /\ UNCHANGED <<claim, attempts>>
    BY <1>5 DEF Build, Open, TypeOK, SubmitRow
  <2>2. r \in Runs /\ r[1] \in Keys /\ claim[r[1]] = r[2] /\ r = <<r[1], r[2]>>
    BY <2>1, RunIs DEF SubmittersHoldTheirKey
  <2>3. OneStart'
    <3> SUFFICES ASSUME NEW k \in Keys, NEW n \in 1..MaxClaims, port'[<<k, n>>] # "none"
                 PROVE  claim'[k] = n
      BY DEF OneStart
    <3>1. CASE <<k, n>> = r
      BY <2>1, <2>2, <3>1
    <3>2. CASE <<k, n>> # r
      BY <2>1, <3>2, RunOf DEF OneStart
    <3> QED BY <3>1, <3>2
  <2>4. \A v \in Submitters : submitter'[v].pc = "build" => port'[submitter'[v].run] = "none"
    BY <2>1 DEF SubmittersHoldTheirKey
  <2>5. \A v \in Submitters : submitter'[v].run = submitter[v].run /\
          (submitter'[v].pc \in {"build", "open"} => submitter[v].pc \in {"build", "open"})
    BY <2>1
  <2> QED BY <2>1, <2>3, <2>4, <2>5 DEF SubmittersHoldTheirKey
<1>6. ASSUME NEW u \in Submitters, BuildRefused(u)
      PROVE  SubmittersHoldTheirKey' /\ OneStart'
  <2> DEFINE r == submitter[u].run
  <2>1. /\ submitter[u].pc = "build" /\ submitter'[u].pc = "done"
        /\ \A v \in Submitters \ {u} : submitter'[v] = submitter[v]
        /\ UNCHANGED <<port, attempts>>
    BY <1>6 DEF BuildRefused, TypeOK, SubmitRow
  <2>2. /\ r \in Runs /\ r[1] \in Keys /\ claim[r[1]] = r[2] /\ r = <<r[1], r[2]>>
        /\ port[r] = "none" /\ r[2] \in 1..MaxClaims
    BY <2>1, RunIs DEF SubmittersHoldTheirKey
  <2>3. claim' = [claim EXCEPT ![r[1]] = 0]
    BY <1>6, <2>2 DEF BuildRefused
  <2>4. OneStart'
    <3> SUFFICES ASSUME NEW k \in Keys, NEW n \in 1..MaxClaims, port[<<k, n>>] # "none"
                 PROVE  claim'[k] = n
      BY <2>1 DEF OneStart
    <3>1. claim[k] = n
      BY DEF OneStart
    <3>2. k # r[1]
      BY <2>2, <3>1
    <3> QED BY <2>3, <3>1, <3>2 DEF TypeOK
  <2>5. \A v \in Submitters \ {u} : submitter[v].pc \in {"build", "open"} =>
          submitter[v].run[1] # r[1]
    <3> SUFFICES ASSUME NEW v \in Submitters \ {u}, submitter[v].pc \in {"build", "open"},
                        submitter[v].run[1] = r[1]
                 PROVE  FALSE
      OBVIOUS
    <3>1. submitter[v].run[2] = r[2] /\ submitter[v].run = <<submitter[v].run[1], submitter[v].run[2]>>
      BY <2>2, RunIs DEF SubmittersHoldTheirKey
    <3> QED BY <2>1, <2>2, <3>1 DEF SubmittersHoldTheirKey
  <2>6. \A k \in Keys : claim'[k] <= attempts'[k]
    BY <2>1, <2>2, <2>3 DEF SubmittersHoldTheirKey, TypeOK
  <2>7. \A v \in Submitters : submitter'[v].pc \in {"build", "open"} =>
          /\ v # u /\ submitter'[v] = submitter[v]
          /\ claim'[submitter[v].run[1]] = claim[submitter[v].run[1]]
    BY <2>1, <2>2, <2>3, <2>5 DEF SubmittersHoldTheirKey, TypeOK
  <2> QED BY <2>1, <2>4, <2>6, <2>7 DEF SubmittersHoldTheirKey
<1> QED BY <1>1, <1>2, <1>3, <1>4, <1>5, <1>6, Frames DEF vars, Submitter

-----------------------------------------------------------------------------
(* Aborts and their answers *)

\* A receipt is dropped only for a run that was sent nothing.
LEMMA ReceiptsStay ==
    ASSUME IInv, Next, NEW r \in Runs, sent[r] > 0, receipt[r[1]] # NULL
    PROVE  receipt'[r[1]] # NULL
<1> TypeOK /\ CallersAreBound /\ UnregisteredIsUntouched /\ AbortsAreAnswered /\ OneStart
  BY DEF IInv
<1> USE TrackerAssumption DEF tracker, locks, native, worker
<1>0. r[1] \in Ids /\ r = <<r[1], r[2]>>
  BY RunIs
<1>1. CASE receipt' = receipt
  BY <1>1
<1>2. ASSUME NEW c \in Callers, Refuse(c) PROVE receipt'[r[1]] # NULL
  BY <1>0, <1>2 DEF Refuse, TypeOK, Outcomes
<1>3. ASSUME NEW c \in Callers, Record(c) PROVE receipt'[r[1]] # NULL
  <2>1. caller[c].answer # NULL
    BY <1>3 DEF Record, CallersAreBound, HoldsItsPart
  <2> QED BY <1>0, <1>3, <2>1 DEF Record, TypeOK
<1>4. ASSUME NEW t \in Turns, Register(t) PROVE receipt'[r[1]] # NULL
  <2>1. sent[<<t, 1>>] = 0
    BY <1>4 DEF Register, UnregisteredIsUntouched
  <2>2. r[1] # t
    BY <2>1, RunIs
  <2> QED BY <1>0, <1>4, <2>2 DEF Register, TypeOK
<1>5. ASSUME NEW u \in Submitters, NEW k \in Keys, Claim(u, k) PROVE receipt'[r[1]] # NULL
  <2>1. r[1] # k
    <3> SUFFICES ASSUME r[1] = k PROVE FALSE
      OBVIOUS
    <3>1. r[2] \in 1..MaxClaims /\ port[<<k, r[2]>>] # "none"
      BY <1>0, RunIs DEF AbortsAreAnswered
    <3> QED BY <3>1, <1>5 DEF OneStart, Claim, Claimable
  <2> QED BY <1>0, <1>5, <2>1 DEF Claim, TypeOK
<1>6. ASSUME NEW t \in Turns, Retire(t) PROVE receipt' = receipt
  BY <1>6 DEF Retire, Kept
<1> QED BY <1>1, <1>2, <1>3, <1>4, <1>5, <1>6, Frames
        DEF Look, Enter, Answered, AskStop, Start, AcceptFails, PromptEnds, Rebuild, Completion,
            Decide, Persist, CloseExecution, Submitter, Build, BuildRefused, Open, Replay, Check

\* No other caller is between sending an abort of r and recording its answer while
\* c holds r's cancel lock.
LEMMA LockedAlone ==
    ASSUME IInv, NEW c \in Callers, NEW d \in Callers, caller[c].pc \in Locked,
           caller[d].pc \in Asking, caller[d].run = caller[c].run
    PROVE  c = d
  BY DEF IInv, CallersAreBound, HoldsItsPart, Locked, Asking

LEMMA AnsweredStep == IInv /\ [Next]_vars => AbortsAreAnswered' /\ AbortOnce'
<1> SUFFICES ASSUME IInv, [Next]_vars PROVE AbortsAreAnswered' /\ AbortOnce'
  OBVIOUS
<1> TypeOK /\ CallersAreBound /\ AbortsAreAnswered /\ AbortOnce
  BY DEF IInv
<1> USE TrackerAssumption DEF tracker, locks, native, worker
<1>1. CASE UNCHANGED vars
  BY <1>1 DEF vars, AbortsAreAnswered, AbortOnce
<1>2. ASSUME Next, NEW r \in Runs, sent[r] > 0,
             \A d \in Callers : caller[d].pc \in Asking /\ caller[d].run = r =>
                 \/ caller'[d].pc \in Asking /\ caller'[d].run = r
                 \/ receipt'[r[1]] # NULL
      PROVE  /\ port'[r] # "none"
             /\ \/ receipt'[r[1]] # NULL
                \/ \E c \in Callers : caller'[c].pc \in Asking /\ caller'[c].run = r
  <2>1. port[r] # "none"
    BY <1>2 DEF AbortsAreAnswered
  <2> QED BY <1>2, <2>1, PortsStay, ReceiptsStay DEF AbortsAreAnswered
<1>3. ASSUME Next, UNCHANGED <<sent, caller>> PROVE AbortsAreAnswered' /\ AbortOnce'
  BY <1>2, <1>3 DEF AbortsAreAnswered, AbortOnce
<1>4. ASSUME Next, NEW c \in Callers, UNCHANGED sent,
             Look(c) \/ Refuse(c) \/ Enter(c) \/ Answered(c) \/ \E id \in Ids : AskStop(c, id)
      PROVE  AbortsAreAnswered' /\ AbortOnce'
  <2>1. \A d \in Callers : caller[d].pc \in Asking =>
            caller'[d].pc \in Asking /\ caller'[d].run = caller[d].run
    BY <1>4 DEF Look, Refuse, Enter, Answered, AskStop, Return, TypeOK, CallerRow, Asking
  <2> QED BY <1>2, <1>4, <2>1 DEF AbortsAreAnswered, AbortOnce
<1>5. ASSUME Next, NEW c \in Callers, Record(c) PROVE AbortsAreAnswered' /\ AbortOnce'
  <2>1. /\ caller[c].run \in Runs /\ caller[c].run[1] = caller[c].id /\ caller[c].id \in Ids
        /\ caller[c].answer # NULL
    BY <1>5 DEF Record, CallersAreBound, HoldsItsPart, Bound
  <2>2. receipt'[caller[c].run[1]] # NULL /\ sent' = sent
    BY <1>5, <2>1 DEF Record, TypeOK
  <2>3. \A d \in Callers \ {c} : caller'[d] = caller[d]
    BY <1>5 DEF Record, Return, TypeOK
  <2> QED BY <1>2, <1>5, <2>2, <2>3 DEF AbortsAreAnswered, AbortOnce
<1>6. ASSUME Next, NEW c \in Callers, Check(c) PROVE AbortsAreAnswered' /\ AbortOnce'
  <2> DEFINE r == caller[c].run
  <2>1. r \in Runs /\ r[1] = caller[c].id /\ caller[c].pc = "check"
    BY <1>6 DEF Check, CallersAreBound, HoldsItsPart, Bound
  <2>2. \A d \in Callers \ {c} : caller'[d] = caller[d]
    BY <1>6 DEF Check, Return, TypeOK
  <2>3. \A d \in Callers : caller[d].pc \in Asking =>
            caller'[d].pc \in Asking /\ caller'[d].run = caller[d].run
    BY <2>1, <2>2 DEF Asking
  <2>4. CASE sent' = sent
    BY <1>2, <1>6, <2>3, <2>4 DEF AbortsAreAnswered, AbortOnce
  <2>5. CASE sent' # sent
    <3>1. /\ receipt[r[1]] = NULL /\ port[r] = "open" /\ port' = port
          /\ sent' = [sent EXCEPT ![r] = @ + 1]
          /\ caller'[c].pc = "sent" /\ caller'[c].run = r
      BY <1>6, <2>1, <2>5 DEF Check, Unanswered, TypeOK, CallerRow
    <3>2. sent[r] = 0
      <4> SUFFICES ASSUME sent[r] > 0 PROVE FALSE
        BY <2>1 DEF TypeOK
      <4>1. PICK d \in Callers : caller[d].pc \in Asking /\ caller[d].run = r
        BY <2>1, <3>1 DEF AbortsAreAnswered
      <4> QED BY <2>1, <4>1, LockedAlone DEF Locked, Asking
    <3>3. AbortOnce'
      BY <2>1, <3>1, <3>2 DEF AbortOnce, TypeOK
    <3>4. ASSUME NEW q \in Runs, sent'[q] > 0
          PROVE  /\ port'[q] # "none"
                 /\ \/ receipt'[q[1]] # NULL
                    \/ \E d \in Callers : caller'[d].pc \in Asking /\ caller'[d].run = q
      <4>1. CASE q = r
        BY <2>1, <3>1, <4>1 DEF Asking
      <4>2. CASE q # r
        <5>1. sent[q] > 0
          BY <3>1, <3>4, <4>2 DEF TypeOK
        <5> QED BY <1>2, <1>6, <2>3, <5>1
      <4> QED BY <4>1, <4>2
    <3> QED BY <3>3, <3>4 DEF AbortsAreAnswered
  <2> QED BY <2>4, <2>5
<1> QED BY <1>1, <1>3, <1>4, <1>5, <1>6, Frames

-----------------------------------------------------------------------------
(* Prompts that an abort cut short *)

LEMMA CutShortStep == IInv /\ CutShort /\ [Next]_vars => CutShort'
<1> SUFFICES ASSUME IInv, CutShort, [Next]_vars PROVE CutShort'
  OBVIOUS
<1> TypeOK /\ CallersAreBound /\ AbortsAreAnswered
  BY DEF IInv
<1> USE TrackerAssumption DEF tracker, locks, native, worker
<1>1. CASE UNCHANGED <<stage, prompt, ended, interrupted, sent, confirmed, caller>>
  BY <1>1 DEF CutShort
<1>2. ASSUME NEW c \in Callers, UNCHANGED <<stage, prompt, ended, interrupted, sent, confirmed>>,
             \/ Look(c) \/ Refuse(c) \/ Enter(c) \/ Answered(c)
             \/ \E id \in Ids : AskStop(c, id)
      PROVE  CutShort'
  <2>1. \A d \in Callers : caller'[d].pc \in Asking =>
            caller[d].pc \in Asking /\ caller'[d].run = caller[d].run
    BY <1>2 DEF Look, Refuse, Enter, Answered, AskStop, Return, TypeOK, CallerRow, Asking
  <2> QED BY <1>2, <2>1 DEF CutShort
<1>3. ASSUME NEW c \in Callers, Record(c) PROVE CutShort'
  <2>1. /\ caller[c].pc \in Asking /\ caller'[c].pc = "done"
        /\ \A d \in Callers \ {c} : caller'[d] = caller[d]
        /\ \A q \in Runs : q # caller[c].run => confirmed'[q] = confirmed[q]
        /\ UNCHANGED <<stage, prompt, ended, interrupted, sent>>
    BY <1>3 DEF Record, Return, TypeOK, CallerRow, Asking
  <2>2. \A t \in Turns : <<t, 1>> \in Runs
    BY RunOf
  <2> QED BY ZenonT(40), <2>1, <2>2 DEF CutShort, Asking
<1>4. ASSUME NEW c \in Callers, Check(c) PROVE CutShort'
  <2> DEFINE r == caller[c].run
  <2>1. r \in Runs /\ r[1] = caller[c].id /\ caller[c].pc = "check" /\ sent[r] \in Nat
    BY <1>4 DEF Check, CallersAreBound, HoldsItsPart, Bound, TypeOK
  <2>2. /\ \A d \in Callers \ {c} : caller'[d] = caller[d]
        /\ caller'[c].run = r
        /\ caller'[c].pc \in Asking => Unanswered(r[1])
        /\ UNCHANGED <<stage, prompt, ended, confirmed>>
        /\ sent' = sent \/ sent' = [sent EXCEPT ![r] = @ + 1]
    BY <1>4, <2>1 DEF Check, Return, TypeOK, CallerRow, Asking
  <2>3. \/ interrupted' = interrupted
        \/ /\ interrupted' = [interrupted EXCEPT ![r] = TRUE]
           /\ sent' = [sent EXCEPT ![r] = @ + 1]
           /\ r[1] \in Turns /\ prompt[r[1]] = "running"
    BY <1>4, <2>1 DEF Check
  <2>4. ASSUME Unanswered(r[1]) PROVE sent[r] = 0
    <3> SUFFICES ASSUME sent[r] > 0 PROVE FALSE
      BY <2>1
    <3>1. PICK d \in Callers : caller[d].pc \in Asking /\ caller[d].run = r
      BY <2>1, <2>4 DEF AbortsAreAnswered, Unanswered
    <3> QED BY <2>1, <3>1, LockedAlone DEF Locked, Asking
  <2> SUFFICES ASSUME NEW t \in Turns
               PROVE  /\ interrupted'[<<t, 1>>] => sent'[<<t, 1>>] > 0
                      /\ (stage[t] = "finishing" \/ ended[t] = "completed")
                            /\ interrupted'[<<t, 1>>] =>
                              /\ ~confirmed[<<t, 1>>]
                              /\ \A d \in Callers : caller'[d].pc \in Asking =>
                                    caller'[d].run # <<t, 1>>
    BY <2>2 DEF CutShort
  <2>5. <<t, 1>> \in Runs
    BY RunOf
  <2>6. CASE r # <<t, 1>>
    <3>1. interrupted'[<<t, 1>>] = interrupted[<<t, 1>>] /\ sent'[<<t, 1>>] = sent[<<t, 1>>]
      BY <2>2, <2>3, <2>5, <2>6 DEF TypeOK
    <3>2. \A d \in Callers : caller'[d].pc \in Asking /\ caller'[d].run = <<t, 1>> =>
             caller[d].pc \in Asking /\ caller[d].run = <<t, 1>>
      BY <2>2, <2>6
    <3> QED BY <3>1, <3>2 DEF CutShort
  <2>7. CASE r = <<t, 1>>
    <3>1. interrupted'[<<t, 1>>] => sent'[<<t, 1>>] > 0
      BY <2>1, <2>2, <2>3, <2>7 DEF CutShort, TypeOK
    <3>2. ASSUME stage[t] = "finishing" \/ ended[t] = "completed", interrupted'[<<t, 1>>]
          PROVE  /\ ~confirmed[<<t, 1>>]
                 /\ \A d \in Callers : caller'[d].pc \in Asking => caller'[d].run # <<t, 1>>
      <4>1. prompt[t] # "running"
        BY <3>2 DEF CutShort
      <4>2. interrupted' = interrupted
        BY <2>3, <2>7, <4>1
      <4>3. sent[r] > 0
        BY <2>7, <3>2, <4>2 DEF CutShort
      <4>4. caller'[c].pc \notin Asking
        BY <2>2, <2>4, <4>3
      <4> QED BY <2>2, <3>2, <4>2, <4>4 DEF CutShort
    <3> QED BY <3>1, <3>2
  <2> QED BY <2>6, <2>7
<1>5. ASSUME NEW t \in Turns, UNCHANGED <<sent, caller, locks>>,
             \/ Start(t) \/ Register(t) \/ AcceptFails(t) \/ PromptEnds(t)
             \/ Rebuild(t) \/ Completion(t)
      PROVE  CutShort'
  <2>1. <<t, 1>> \in Runs
    BY RunOf
  <2>2. CASE Start(t)          BY <1>5, <2>2 DEF Start, CutShort, TypeOK
  <2>3. CASE Register(t)       BY <1>5, <2>3 DEF Register, CutShort, TypeOK
  <2>4. CASE AcceptFails(t)
    <3>1. \A v \in Turns : /\ stage'[v] = "finishing" => stage[v] = "finishing"
                           /\ ended'[v] = "completed" => ended[v] = "completed"
      BY <2>4 DEF AcceptFails, TypeOK
    <3>2. UNCHANGED <<prompt, interrupted, confirmed, sent, caller>>
      BY <1>5, <2>4 DEF AcceptFails
    <3>3. \A v \in Turns :
             /\ stage'[v] \in {"cancelling", "finishing", "closing", "closed", "retired"} =>
                  stage[v] \in {"cancelling", "finishing", "closing", "closed", "retired"}
             /\ stage[v] \in {"closing", "closed", "retired"} => stage'[v] = stage[v]
      BY <2>4 DEF AcceptFails, TypeOK
    <3> QED BY <3>1, <3>2, <3>3 DEF CutShort
  <2>5. CASE PromptEnds(t)     BY ZenonT(40), <1>5, <2>5 DEF PromptEnds, CutShort, TypeOK
  <2>6. CASE Rebuild(t)
    <3>1. \A v \in Turns : interrupted'[<<v, 1>>] => interrupted[<<v, 1>>]
      BY <2>1, <2>6, RunOf DEF Rebuild, TypeOK
    <3> QED BY <1>5, <2>6, <3>1 DEF Rebuild, CutShort
  <2>7. CASE Decide(t)
    <3>1. /\ stage[t] = "registered" /\ prompt[t] # "running" /\ cancelLock[<<t, 1>>] = NULL
          /\ stage' = [stage EXCEPT ![t] = stage'[t]] /\ stage'[t] \in {"cancelling", "finishing"}
          /\ stage'[t] = "finishing" => ~confirmed[<<t, 1>>]
          /\ UNCHANGED <<prompt, ended, interrupted>>
      BY <2>7 DEF Decide, DecisionAllowed, TypeOK
    <3>2. \A d \in Callers : caller[d].pc \in Asking => caller[d].run # <<t, 1>>
      BY <3>1 DEF CallersAreBound, HoldsItsPart, Asking, Locked
    <3>3. ended[t] # "completed"
      BY <3>1 DEF CutShort
    <3> QED BY ZenonT(40), <1>5, <3>1, <3>2, <3>3 DEF CutShort, TypeOK
  <2>8. CASE Persist(t)
    <3>1. \A v \in Turns : /\ stage'[v] = "finishing" => stage[v] = "finishing"
                           /\ ended'[v] = "completed" =>
                                stage[v] = "finishing" \/ ended[v] = "completed"
      <4>1. ended'[t] = "completed" => stage[t] = "finishing"
        BY <2>8 DEF Persist, TypeOK
      <4>2. \A v \in Turns \ {t} : ended'[v] = ended[v] /\ stage'[v] = stage[v]
        BY <2>8 DEF Persist, TypeOK
      <4>3. stage'[t] = "closing"
        BY <2>8 DEF Persist, TypeOK
      <4> QED BY <4>1, <4>2, <4>3
    <3>2. UNCHANGED <<prompt, interrupted, confirmed, sent, caller>>
      BY <1>5, <2>8 DEF Persist
    <3>3. \A v \in Turns :
             /\ stage'[v] \in {"cancelling", "finishing", "closing", "closed", "retired"} =>
                  stage[v] \in {"cancelling", "finishing", "closing", "closed", "retired"}
             /\ ended'[v] = "completed" => stage'[v] \in {"closing", "closed", "retired"}
      BY <2>8 DEF Persist, TypeOK, CutShort
    <3> QED BY <3>1, <3>2, <3>3 DEF CutShort
  <2>9. CASE CloseExecution(t) BY <1>5, <2>9 DEF CloseExecution, CutShort, TypeOK
  <2>10. CASE Retire(t)        BY <1>5, <2>10 DEF Retire, CutShort, TypeOK
  <2> QED BY <1>5, <2>2, <2>3, <2>4, <2>5, <2>6, <2>7, <2>8, <2>9, <2>10 DEF Completion
<1>6. ASSUME NEW u \in Submitters, Submitter(u) \/ \E k \in Keys : Claim(u, k) \/ Replay(u, k)
      PROVE  UNCHANGED <<stage, prompt, ended, interrupted, sent, confirmed, caller>>
  BY <1>6 DEF Submitter, Build, BuildRefused, Open, Claim, Replay
<1>7. ASSUME NEW c \in Callers,
             \/ Look(c) \/ Refuse(c) \/ Enter(c) \/ Answered(c)
             \/ \E id \in Ids : AskStop(c, id)
      PROVE  UNCHANGED <<stage, prompt, ended, interrupted, sent, confirmed>>
  BY <1>7 DEF Look, Refuse, Enter, Answered, AskStop
<1> QED BY <1>1, <1>2, <1>3, <1>4, <1>5, <1>6, <1>7, Frames DEF vars

-----------------------------------------------------------------------------
(* Theorems *)

LEMMA IInvInit == Init => IInv /\ CutShort
<1> SUFFICES ASSUME Init PROVE IInv /\ CutShort
  OBVIOUS
<1>1. TypeOK
  BY TypeInit
<1>2. \A c \in Callers : caller[c].pc = "idle"
  BY DEF Init, NotFiled
<1>3. CallersAreBound /\ UnregisteredIsUntouched
  BY <1>2, RunOf DEF Init, CallersAreBound, HoldsItsPart, UnregisteredIsUntouched,
                     Bound, Locked, Asking
<1>4. SubmittersHoldTheirKey /\ OneStart
  BY RunOf DEF Init, SubmittersHoldTheirKey, OneStart
<1>5. AbortsAreAnswered /\ AbortOnce
  BY DEF Init, AbortsAreAnswered, AbortOnce
<1>6. CutShort
  BY RunOf DEF Init, CutShort
<1> QED BY <1>1, <1>3, <1>4, <1>5, <1>6 DEF IInv

LEMMA IInvStep == IInv /\ CutShort /\ [Next]_vars => (IInv /\ CutShort)'
  BY TypeStep, BoundStep, UntouchedStep, SubmittersStep, AnsweredStep, CutShortStep DEF IInv

LEMMA Invariance == Spec => [](IInv /\ CutShort)
  BY IInvInit, IInvStep, PTL DEF Spec

\* The tables, the locks and the callers keep their types.
THEOREM TrackerTypes == Spec => []TypeOK
  BY Invariance, PTL DEF IInv

\* However many stops of a run race each other, cancel_execution sends one abort.
THEOREM AbortedOnce == Spec => []AbortOnce
  BY Invariance, PTL DEF IInv

\* However many submits of a key race a factory that may refuse, one attempt at a
\* time has a port.
THEOREM StartedOnce == Spec => []OneStart
  BY Invariance, PTL DEF IInv

\* A prompt cut short by an abort that was acknowledged is never persisted as a
\* success by _complete.
THEOREM InterruptedNotCompleted == Spec => []InterruptedIsNotCompleted
<1>1. CutShort => InterruptedIsNotCompleted
  BY DEF CutShort, InterruptedIsNotCompleted
<1> QED BY <1>1, Invariance, PTL

\* Once an abort is answered, its receipt changes only by a refusal that was
\* decided before the run was registered.
THEOREM ReceiptsOutliveRuns == Spec => ReceiptOutlivesRun
<1> DEFINE A == \A r \in Runs :
                  /\ sent[r] > 0 /\ receipt[r[1]] # NULL
                  /\ \A c \in Callers : caller[c].run = r => caller[c].pc \notin {"sent", "record"}
                  /\ ~(\E c \in Callers : Refuse(c))
                  => receipt'[r[1]] = receipt[r[1]]
<1>1. IInv /\ [Next]_vars => [A]_vars
  <2> SUFFICES ASSUME IInv, Next, NEW r \in Runs, sent[r] > 0,
                      \A c \in Callers : caller[c].run = r => caller[c].pc \notin Asking,
                      ~(\E c \in Callers : Refuse(c))
               PROVE  receipt'[r[1]] = receipt[r[1]]
    BY DEF Asking
  <2> TypeOK /\ CallersAreBound /\ UnregisteredIsUntouched /\ AbortsAreAnswered /\ OneStart
    BY DEF IInv
  <2> USE TrackerAssumption DEF tracker, locks, native, worker
  <2>0. r[1] \in Ids /\ r = <<r[1], r[2]>>
    BY RunIs
  <2>1. CASE receipt' = receipt
    BY <2>1
  <2>2. ASSUME NEW c \in Callers, Record(c) PROVE receipt'[r[1]] = receipt[r[1]]
    <3>1. /\ caller[c].pc \in Asking /\ caller[c].run \in Runs /\ caller[c].run # r
          /\ caller[c].run[1] = caller[c].id /\ port[caller[c].run] # "none"
      BY <2>2 DEF Record, CallersAreBound, HoldsItsPart, Bound, Asking
    <3>2. caller[c].id # r[1]
      <4> SUFFICES ASSUME caller[c].id = r[1] PROVE FALSE
        OBVIOUS
      <4>1. caller[c].run = <<caller[c].run[1], caller[c].run[2]>>
        BY <3>1, RunIs
      <4>2. CASE r[1] \in Turns
        BY <3>1, <4>2, RunIs
      <4>3. CASE r[1] \in Keys
        <5>1. /\ r[2] \in 1..MaxClaims /\ caller[c].run[2] \in 1..MaxClaims
              /\ port[r] # "none"
          BY <3>1, <4>3, RunIs DEF AbortsAreAnswered
        <5>2. claim[r[1]] = r[2] /\ claim[r[1]] = caller[c].run[2]
          BY <2>0, <3>1, <4>1, <4>3, <5>1 DEF OneStart
        <5> QED BY <2>0, <3>1, <4>1, <5>2
      <4> QED BY <2>0, <4>2, <4>3 DEF Ids
    <3> QED BY <2>0, <2>2, <3>2 DEF Record, TypeOK
  <2>3. ASSUME NEW t \in Turns, Register(t) PROVE receipt'[r[1]] = receipt[r[1]]
    <3>1. sent[<<t, 1>>] = 0
      BY <2>3 DEF Register, UnregisteredIsUntouched
    <3>2. r[1] # t
      BY <3>1, RunIs
    <3> QED BY <2>0, <2>3, <3>2 DEF Register, TypeOK
  <2>4. ASSUME NEW u \in Submitters, NEW k \in Keys, Claim(u, k)
        PROVE  receipt'[r[1]] = receipt[r[1]]
    <3>1. r[1] # k
      <4> SUFFICES ASSUME r[1] = k PROVE FALSE
        OBVIOUS
      <4>1. r[2] \in 1..MaxClaims /\ port[<<k, r[2]>>] # "none"
        BY <2>0, RunIs DEF AbortsAreAnswered
      <4> QED BY <4>1, <2>4 DEF OneStart, Claim, Claimable
    <3> QED BY <2>0, <2>4, <3>1 DEF Claim, TypeOK
  <2>5. ASSUME NEW t \in Turns, Retire(t) PROVE receipt' = receipt
    BY <2>5 DEF Retire, Kept
  <2> QED BY <2>1, <2>2, <2>3, <2>4, <2>5, Frames
          DEF Look, Enter, Answered, AskStop, Start, AcceptFails, PromptEnds, Rebuild, Completion,
              Decide, Persist, CloseExecution, Submitter, Build, BuildRefused, Open, Replay, Check
<1> QED BY <1>1, Invariance, PTL DEF Spec, ReceiptOutlivesRun
=============================================================================
