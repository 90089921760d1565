------------------------------ MODULE RunTracker -------------------------------
(***************************************************************************)
(* Stopping a run.  NeutralRunTracker keeps two tables of runs and one of  *)
(* cancel receipts under one lock, and each run carries a cancel lock of   *)
(* its own.  Three kinds of thread meet there, and every step below ends   *)
(* where a thread gives up a lock or waits:                                *)
(*   - callers of cancel_execution (the wire's runs.stop, REST cancel, the *)
(*     cascade to delegated children, shutdown);                           *)
(*   - the threads of a Turn: accept() starts and registers it, the prompt *)
(*     worker ends, the completion worker decides its end and retires it;  *)
(*   - submitters of the neutral start path.                               *)
(* The sidecar behind a port is the environment: an abort may or may not   *)
(* interrupt the prompt, and its answer may be lost.                       *)
(***************************************************************************)
EXTENDS Integers, FiniteSets

CONSTANTS
    Turns,          \* business runs: one per Turn, in active_runs
    Keys,           \* execution keys of the neutral path, in runs
    Callers,        \* threads that call cancel_execution once
    Submitters,     \* threads that call submit once
    NULL,
    MaxClaims,      \* bound: attempts to start one neutral key
    RebuildLimit    \* PROMPT_REBUILD_LIMIT

\* A run object: the attempt distinguishes a neutral key claimed a second time.
Runs == (Turns \X {1}) \cup (Keys \X (1..MaxClaims))
Ids  == Turns \cup Keys

Outcomes == {"confirmed_stopped", "refused_no_active_run", "unknown"}

ASSUME TrackerAssumption ==
    /\ Turns \cap Keys = {}
    /\ NULL \notin Ids \cup Callers \cup Runs \cup Outcomes
    /\ MaxClaims \in Nat \ {0} /\ RebuildLimit \in Nat

VARIABLES
    active,      \* active_runs
    claim,       \* runs: the attempt that holds a neutral key, 0 when absent
    attempts,    \* how often a neutral key was claimed
    receipt,     \* cancel_receipts
    cancelLock,  \* per run: the caller holding its cancel_lock
    confirmed,   \* per run: cancel_confirmed
    port,        \* per run: the port and the native session behind it
    prompt,      \* per Turn: the prompt worker
    rebuilds,    \* per Turn: sidecars rebuilt under the running prompt
    stage,       \* per Turn: how far accept() and the completion worker are
    ended,       \* per Turn: the end the completion worker persisted
    caller, submitter,
    sent, interrupted   \* history: aborts sent, prompts cut short

tracker == <<active, claim, attempts, receipt>>
locks   == <<cancelLock, confirmed>>
native  == <<port, prompt, rebuilds, interrupted>>
worker  == <<stage, ended>>
vars == <<tracker, locks, native, worker, caller, submitter, sent>>

NotFiled == [pc |-> "idle", id |-> NULL, run |-> NULL, answer |-> NULL]

CallerRow == [pc : {"idle", "look", "refuse", "lock", "check", "sent", "record", "done"},
              id : Ids \cup {NULL}, run : Runs \cup {NULL},
              answer : Outcomes \cup {NULL}]
SubmitRow == [pc : {"idle", "build", "open", "done"}, run : Runs \cup {NULL}]

TypeOK ==
    /\ active \subseteq Turns
    /\ claim \in [Keys -> 0..MaxClaims] /\ attempts \in [Keys -> 0..MaxClaims]
    /\ receipt \in [Ids -> Outcomes \cup {NULL}]
    /\ cancelLock \in [Runs -> Callers \cup {NULL}]
    /\ confirmed \in [Runs -> BOOLEAN]
    /\ port \in [Runs -> {"none", "built", "open", "closed"}]
    /\ prompt \in [Turns -> {"none", "running", "success", "cancelled", "error"}]
    /\ rebuilds \in [Turns -> 0..RebuildLimit]
    /\ stage \in [Turns -> {"new", "started", "registered", "cancelling", "finishing",
                            "closing", "closed", "retired", "refused"}]
    /\ ended \in [Turns -> {"live", "completed", "cancelled", "failed"}]
    /\ caller \in [Callers -> CallerRow]
    /\ submitter \in [Submitters -> SubmitRow]
    /\ sent \in [Runs -> Nat]
    /\ interrupted \in [Runs -> BOOLEAN]

\* active_runs.get(id) or runs.get(id)
Target(id) ==
    IF id \in active THEN <<id, 1>>
    ELSE IF id \in Keys /\ claim[id] # 0 THEN <<id, claim[id]>> ELSE NULL

Init ==
    /\ active = {}
    /\ claim = [k \in Keys |-> 0] /\ attempts = [k \in Keys |-> 0]
    /\ receipt = [id \in Ids |-> NULL]
    /\ cancelLock = [r \in Runs |-> NULL]
    /\ confirmed = [r \in Runs |-> FALSE]
    /\ port = [r \in Runs |-> "none"]
    /\ prompt = [t \in Turns |-> "none"] /\ rebuilds = [t \in Turns |-> 0]
    /\ stage = [t \in Turns |-> "new"] /\ ended = [t \in Turns |-> "live"]
    /\ caller = [c \in Callers |-> NotFiled]
    /\ submitter = [u \in Submitters |-> [pc |-> "idle", run |-> NULL]]
    /\ sent = [r \in Runs |-> 0]
    /\ interrupted = [r \in Runs |-> FALSE]

-----------------------------------------------------------------------------
(* cancel_execution *)

\* The caller returns; it lets go of the run's cancel lock if it holds it.
Released_Leaked(c) == cancelLock
Released(c) ==
    [r \in Runs |-> IF cancelLock[r] = c THEN NULL ELSE cancelLock[r]]

Return(c, outcome) ==
    caller' = [caller EXCEPT ![c].pc = "done", ![c].answer = outcome]

\* runs.stop and REST cancel read the Turn first and answer already_finished for
\* an ended one; the cascade and shutdown call for a Turn they know to be live.
AskStop(c, id) ==
    /\ caller[c].pc = "idle"
    /\ id \in Turns => ended[id] = "live"
    /\ caller' = [caller EXCEPT ![c].pc = "look", ![c].id = id]
    /\ UNCHANGED <<tracker, locks, native, worker, submitter, sent>>

\* Under the tracker's lock: the receipt, and the run to stop.
Look(c) ==
    LET id == caller[c].id IN
    /\ caller[c].pc = "look"
    /\ \/ /\ receipt[id] # NULL
          /\ Return(c, receipt[id])
       \/ /\ receipt[id] = NULL
          /\ Target(id) = NULL
          /\ caller' = [caller EXCEPT ![c].pc = "refuse"]
       \/ /\ receipt[id] = NULL
          /\ Target(id) # NULL
          /\ caller' = [caller EXCEPT ![c].pc = "lock", ![c].run = Target(id)]
    /\ UNCHANGED <<tracker, locks, native, worker, submitter, sent>>

\* No run was found: the refusal is recorded under a second hold of the lock.
Refuse(c) ==
    /\ caller[c].pc = "refuse"
    /\ receipt' = [receipt EXCEPT ![caller[c].id] = "refused_no_active_run"]
    /\ Return(c, "refused_no_active_run")
    /\ UNCHANGED <<active, claim, attempts, locks, native, worker, submitter, sent>>

Enter(c) ==
    /\ caller[c].pc = "lock"
    /\ cancelLock[caller[c].run] = NULL
    /\ cancelLock' = [cancelLock EXCEPT ![caller[c].run] = c]
    /\ caller' = [caller EXCEPT ![c].pc = "check"]
    /\ UNCHANGED <<tracker, confirmed, native, worker, submitter, sent>>

\* The second read of the receipt, under the run's cancel lock.
Unanswered_NotReread(id) == TRUE
Unanswered(id) == receipt[id] = NULL

\* An abort meets a session that is open; on a running prompt it may take effect
\* before its answer is on the way.  A port without a native session answers no.
Check(c) ==
    LET id == caller[c].id
        r  == caller[c].run
    IN
    /\ caller[c].pc = "check"
    /\ \/ /\ ~Unanswered(id)
          /\ Return(c, receipt[id])
          /\ cancelLock' = Released(c)
          /\ UNCHANGED <<sent, interrupted>>
       \/ /\ Unanswered(id) /\ port[r] = "none"
          /\ Return(c, "unknown")
          /\ cancelLock' = Released(c)
          /\ UNCHANGED <<sent, interrupted>>
       \/ /\ Unanswered(id) /\ port[r] \in {"built", "closed"}
          /\ caller' = [caller EXCEPT ![c].pc = "record",
                                      ![c].answer = "refused_no_active_run"]
          /\ UNCHANGED <<cancelLock, sent, interrupted>>
       \/ /\ Unanswered(id) /\ port[r] = "open"
          /\ caller' = [caller EXCEPT ![c].pc = "sent"]
          /\ sent' = [sent EXCEPT ![r] = @ + 1]
          /\ \/ UNCHANGED interrupted
             \/ /\ id \in Turns /\ prompt[id] = "running"
                /\ interrupted' = [interrupted EXCEPT ![r] = TRUE]
          /\ UNCHANGED cancelLock
    /\ UNCHANGED <<tracker, confirmed, port, prompt, rebuilds, worker, submitter>>

\* The sidecar answers every abort it reads with ok.  An error answer, a timeout
\* and a closed channel are all SidecarErrors, which the port turns into "no", so
\* a lost answer is recorded as a refusal; anything else the channel raises
\* reaches the tracker and counts as unknown.
Answered(c) ==
    /\ caller[c].pc = "sent"
    /\ \E outcome \in Outcomes :
          caller' = [caller EXCEPT ![c].pc = "record", ![c].answer = outcome]
    /\ UNCHANGED <<tracker, locks, native, worker, submitter, sent>>

\* The receipt is written before the cancel lock is given up.
Record(c) ==
    LET r == caller[c].run IN
    /\ caller[c].pc = "record"
    /\ receipt' = [receipt EXCEPT ![caller[c].id] = caller[c].answer]
    /\ confirmed' = [confirmed EXCEPT ![r] = @ \/ caller[c].answer = "confirmed_stopped"]
    /\ Return(c, caller[c].answer)
    /\ cancelLock' = Released(c)
    /\ UNCHANGED <<active, claim, attempts, native, worker, submitter, sent>>

-----------------------------------------------------------------------------
(* A Turn's threads *)

\* accept(): dispatch_execution opens the native session and starts the prompt.
Start(t) ==
    /\ stage[t] = "new"
    /\ stage' = [stage EXCEPT ![t] = "started"]
    /\ port' = [port EXCEPT ![<<t, 1>>] = "open"]
    /\ prompt' = [prompt EXCEPT ![t] = "running"]
    /\ UNCHANGED <<tracker, locks, rebuilds, interrupted, ended, caller, submitter, sent>>

\* accept(): from here a stop can find the run; an earlier receipt is dropped.
Register(t) ==
    /\ stage[t] = "started"
    /\ stage' = [stage EXCEPT ![t] = "registered"]
    /\ active' = active \cup {t}
    /\ receipt' = [receipt EXCEPT ![t] = NULL]
    /\ UNCHANGED <<claim, attempts, locks, native, ended, caller, submitter, sent>>

\* accept()'s handler, after the start and before the registration: the Turn
\* fails, and the session it opened stays.
AcceptFails(t) ==
    /\ stage[t] \in {"new", "started"}
    /\ stage' = [stage EXCEPT ![t] = "refused"]
    /\ ended' = [ended EXCEPT ![t] = "failed"]
    /\ UNCHANGED <<tracker, locks, native, caller, submitter, sent>>

\* The prompt worker: a success, the harness's own cancellation or an error.
PromptEnds(t) ==
    /\ prompt[t] = "running"
    /\ \E result \in {"success", "cancelled", "error"} :
          prompt' = [prompt EXCEPT ![t] = result]
    /\ UNCHANGED <<tracker, locks, port, rebuilds, interrupted, worker, caller, submitter,
                   sent>>

\* _prompt_with_rebuild: the sidecar closed under the prompt, and the same
\* execution is opened and prompted again, whatever was asked meanwhile.
Rebuild(t) ==
    /\ prompt[t] = "running"
    /\ rebuilds[t] < RebuildLimit
    /\ rebuilds' = [rebuilds EXCEPT ![t] = @ + 1]
    /\ interrupted' = [interrupted EXCEPT ![<<t, 1>>] = FALSE]
    /\ UNCHANGED <<tracker, locks, port, prompt, worker, caller, submitter, sent>>

\* _complete waits for the prompt, then takes the cancel lock to read
\* cancel_confirmed.
DecisionAllowed_Unlocked(t) == prompt[t] # "running"
DecisionAllowed(t) == prompt[t] # "running" /\ cancelLock[<<t, 1>>] = NULL

Decide(t) ==
    /\ stage[t] = "registered"
    /\ DecisionAllowed(t)
    /\ stage' = [stage EXCEPT ![t] = IF confirmed[<<t, 1>>] \/ prompt[t] = "cancelled"
                                     THEN "cancelling" ELSE "finishing"]
    /\ UNCHANGED <<tracker, locks, native, ended, caller, submitter, sent>>

\* The end is persisted; whatever raises on the way makes it a failure.
Persist(t) ==
    /\ \/ /\ stage[t] = "cancelling"
          /\ \E end \in {"cancelled", "failed"} : ended' = [ended EXCEPT ![t] = end]
       \/ /\ stage[t] = "finishing" /\ prompt[t] = "success"
          /\ \E end \in {"completed", "failed"} : ended' = [ended EXCEPT ![t] = end]
       \/ /\ stage[t] = "finishing" /\ prompt[t] # "success"
          /\ ended' = [ended EXCEPT ![t] = "failed"]
    /\ stage' = [stage EXCEPT ![t] = "closing"]
    /\ UNCHANGED <<tracker, locks, native, caller, submitter, sent>>

\* The finally block: close_execution, then _retire_run.
CloseExecution(t) ==
    /\ stage[t] = "closing"
    /\ stage' = [stage EXCEPT ![t] = "closed"]
    /\ port' = [port EXCEPT ![<<t, 1>>] = "closed"]
    /\ UNCHANGED <<tracker, locks, prompt, rebuilds, interrupted, ended, caller, submitter,
                   sent>>

\* What retirement leaves of the receipts: they outlive their run.
Kept_Dropped(t) == [receipt EXCEPT ![t] = NULL]
Kept(t) == receipt

Retire(t) ==
    /\ stage[t] = "closed"
    /\ stage' = [stage EXCEPT ![t] = "retired"]
    /\ active' = active \ {t}
    /\ receipt' = Kept(t)
    /\ UNCHANGED <<claim, attempts, locks, native, ended, caller, submitter, sent>>

-----------------------------------------------------------------------------
(* submit *)

\* A key is claimed before its port is built, and only while it is free.
Claimable(k) == claim[k] = 0 /\ attempts[k] < MaxClaims

Claim(u, k) ==
    /\ submitter[u].pc = "idle"
    /\ Claimable(k)
    /\ attempts' = [attempts EXCEPT ![k] = @ + 1]
    /\ claim' = [claim EXCEPT ![k] = attempts[k] + 1]
    /\ receipt' = [receipt EXCEPT ![k] = NULL]
    /\ submitter' = [submitter EXCEPT ![u] = [pc |-> "build", run |-> <<k, attempts[k] + 1>>]]
    /\ UNCHANGED <<active, locks, native, worker, caller, sent>>

\* A key that is tracked answers its original receipt.
Replay(u, k) ==
    /\ submitter[u].pc = "idle"
    /\ claim[k] # 0
    /\ submitter' = [submitter EXCEPT ![u].pc = "done"]
    /\ UNCHANGED <<tracker, locks, native, worker, caller, sent>>

\* The factory answers, or refuses: then the key is released if it is still ours.
Build(u) ==
    /\ submitter[u].pc = "build"
    /\ submitter' = [submitter EXCEPT ![u].pc = "open"]
    /\ port' = [port EXCEPT ![submitter[u].run] = "built"]
    /\ UNCHANGED <<tracker, locks, prompt, rebuilds, interrupted, worker, caller, sent>>

BuildRefused(u) ==
    LET k == submitter[u].run[1] IN
    /\ submitter[u].pc = "build"
    /\ submitter' = [submitter EXCEPT ![u].pc = "done"]
    /\ claim' = IF <<k, claim[k]>> = submitter[u].run THEN [claim EXCEPT ![k] = 0] ELSE claim
    /\ UNCHANGED <<active, attempts, receipt, locks, native, worker, caller, sent>>

\* open_execution: it answers, or the start stays uncertain and the key tracked.
Open(u) ==
    /\ submitter[u].pc = "open"
    /\ submitter' = [submitter EXCEPT ![u].pc = "done"]
    /\ \/ port' = [port EXCEPT ![submitter[u].run] = "open"]
       \/ UNCHANGED port
    /\ UNCHANGED <<tracker, locks, prompt, rebuilds, interrupted, worker, caller, sent>>

-----------------------------------------------------------------------------

Caller(c) == Look(c) \/ Refuse(c) \/ Enter(c) \/ Check(c) \/ Answered(c) \/ Record(c)
Completion(t) == Decide(t) \/ Persist(t) \/ CloseExecution(t) \/ Retire(t)
Submitter(u) == Build(u) \/ BuildRefused(u) \/ Open(u)

Next ==
    \/ \E c \in Callers : Caller(c) \/ \E id \in Ids : AskStop(c, id)
    \/ \E t \in Turns : \/ Start(t) \/ Register(t) \/ AcceptFails(t)
                        \/ PromptEnds(t) \/ Rebuild(t) \/ Completion(t)
    \/ \E u \in Submitters : \/ Submitter(u)
                             \/ \E k \in Keys : Claim(u, k) \/ Replay(u, k)

Spec == Init /\ [][Next]_vars

\* A caller in the tracker and a completion worker keep running; a prompt ends,
\* by its own timeout at the latest, and an abort's answer is waited for 10 s.
FairSpec ==
    /\ Spec
    /\ \A c \in Callers : WF_vars(Caller(c))
    /\ \A t \in Turns : WF_vars(Completion(t)) /\ WF_vars(PromptEnds(t))

-----------------------------------------------------------------------------
(* What the tracker promises *)

\* Racing stops of one run send a single abort: whoever waited for the cancel lock
\* finds the receipt that was written under it.
AbortOnce == \A r \in Runs : sent[r] <= 1

\* Two submits of one key never open two executions at once: every attempt but the
\* one that holds the key was refused before its port existed.
OneStart ==
    \A k \in Keys, n \in 1..MaxClaims : port[<<k, n>>] # "none" => claim[k] = n

\* A Turn whose prompt an acknowledged abort cut short is not persisted as
\* completed, although the prompt's result arrives before the acknowledgement.
InterruptedIsNotCompleted ==
    \A t \in Turns :
        confirmed[<<t, 1>>] /\ interrupted[<<t, 1>>] => ended[t] # "completed"

\* The answer to an abort outlives its run: once recorded, no step but a refusal
\* decided before the run was registered changes it, retirement included.
ReceiptOutlivesRun ==
    [][\A r \in Runs :
          /\ sent[r] > 0 /\ receipt[r[1]] # NULL
          /\ \A c \in Callers : caller[c].run = r => caller[c].pc \notin {"sent", "record"}
          /\ ~(\E c \in Callers : Refuse(c))
          => receipt'[r[1]] = receipt[r[1]]]_vars

\* Every stop that was asked for is answered.
StopsAreAnswered == \A c \in Callers : caller[c].pc = "look" ~> caller[c].pc = "done"
=============================================================================
