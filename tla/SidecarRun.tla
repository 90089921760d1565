------------------------------- MODULE SidecarRun -------------------------------
(***************************************************************************)
(* One turn's execution over a sidecar: the launcher stages the bundle, the *)
(* credential and the home on the machine that runs it and spawns the room; *)
(* the port opens a native session in it and prompts; a sidecar that closes *)
(* under the prompt is rebuilt on a fresh attempt; the completion audits    *)
(* the durable home and the close sweeps what the attempt left behind.      *)
(*                                                                         *)
(* Two launchers do this: through a Worker on the target machine, whose     *)
(* every request may fail, or on this machine.  The turn's own threads hand *)
(* over to each other and never overlap; what races them is the sidecar's   *)
(* process, the link to the Worker with its lease, the reader of the        *)
(* channel, and the Harness that writes to its home.  A request whose       *)
(* outcome nobody reads (the listing of the workspace, result.ack, usage,   *)
(* the best-effort close before a sweep) has no action.                     *)
(***************************************************************************)
EXTENDS Integers

CONSTANTS
    RebuildLimit,   \* PROMPT_REBUILD_LIMIT
    MaxFaults       \* bound: requests that fail, links and leases that are lost

ASSUME RunAssumption == RebuildLimit \in Nat /\ MaxFaults \in Nat

Attempts == 1..(RebuildLimit + 1)

VARIABLES
    plan,       \* the launcher, whether the audited tree is a shared library, and whether
                \* a driver of the deployment speaks for the Harness, not ACP
    credential, \* launcher.credential is there
    site,       \* per attempt: what is on the machine that runs it
    chan,       \* per attempt: the launcher's channels and the envelope over them
    port,       \* SidecarHarnessPort: session, _prompted, _native_closed
    turn,       \* the turn's threads
    leak,       \* a listed file of the home carries the credential
    hindered,   \* history: attempts whose sweep failed, or was never reached by a raise
    faults

vars == <<plan, credential, site, chan, port, turn, leak, hindered, faults>>

Worker == plan.channel = "worker"
a == turn.at                       \* the attempt the turn is at
Bare   == [view |-> FALSE, secret |-> FALSE, process |-> "none"]
NoChan == [stage |-> "none", link |-> "up", lease |-> "none", scan |-> FALSE,
           over |-> "no", flushed |-> FALSE]
NoSession == [session |-> 0, prompted |-> FALSE]

Plans    == [channel : {"worker", "local"}, library : BOOLEAN, driver : BOOLEAN]
Sites    == [view : BOOLEAN, secret : BOOLEAN, process : {"none", "running", "ended"}]
Chans    == [stage : {"none", "launching", "open", "closed", "gone"}, link : {"up", "down"},
             lease : {"none", "kept", "failed"}, scan : BOOLEAN,
             over : {"no", "ended", "lost"}, flushed : BOOLEAN]
Sessions == [session : 0..(RebuildLimit + 1), prompted : BOOLEAN]
TurnRows    == [pc : {"launch", "stage", "secure", "home", "room", "spawn", "unwind",
                   "handshake", "prompt", "waiting", "pop", "done", "capture", "audit",
                   "close", "await", "sweep", "sweep and raise", "over"},
             at : Attempts, after : {"raise", "reopen", "retire"}, failed : BOOLEAN,
             cancelled : BOOLEAN, opened : BOOLEAN, truncated : BOOLEAN,
             end : {"none", "completed", "cancelled", "failed"},
             parts : SUBSET (Attempts \X {"early", "answer"})]

TypeOK ==
    /\ plan \in Plans /\ credential \in BOOLEAN /\ leak \in BOOLEAN
    /\ site \in [Attempts -> Sites] /\ chan \in [Attempts -> Chans]
    /\ port \in Sessions /\ turn \in TurnRows
    /\ hindered \subseteq Attempts /\ faults \in 0..MaxFaults

Init ==
    /\ plan \in Plans /\ credential = TRUE /\ leak = FALSE
    /\ site = [i \in Attempts |-> Bare] /\ chan = [i \in Attempts |-> NoChan]
    /\ port = NoSession
    /\ turn = [pc |-> "launch", at |-> 1, after |-> "raise", failed |-> FALSE,
               cancelled |-> FALSE, opened |-> FALSE, truncated |-> FALSE, end |-> "none", parts |-> {}]
    /\ hindered = {} /\ faults = 0

-----------------------------------------------------------------------------
(* Steps that go well, and steps that raise *)

Fine  == UNCHANGED faults
Fault == faults < MaxFaults /\ faults' = faults + 1

\* A request over the link is answered, or raises: on its own, or as the link is down.
Answered == chan[a].link = "up" /\ Fine
Raised   == IF chan[a].link = "up" THEN Fault ELSE Fine

Goes(pc) == turn' = [turn EXCEPT !.pc = pc]

\* open_execution raises.  The first time accept() fails the turn; under a prompt the
\* completion finds the error.
OpenRaises ==
    turn' = IF turn.opened THEN [turn EXCEPT !.pc = "done", !.failed = TRUE]
            ELSE [turn EXCEPT !.pc = "over", !.end = "failed"]

\* The launch raises: the Worker's launcher undoes what it staged, the local one does
\* so only around Popen.
LaunchRaises ==
    IF Worker THEN Goes("unwind") /\ UNCHANGED <<chan, hindered>>
    ELSE /\ OpenRaises
         /\ chan' = [chan EXCEPT ![a].stage = "gone"]
         /\ hindered' = hindered \cup {a}

-----------------------------------------------------------------------------
(* launch *)

\* The credential is taken out of the Worker's launcher before the client starts.
ClientStarts ==
    /\ turn.pc = "launch" /\ Worker
    /\ Goes("stage") /\ Fine
    /\ chan' = [chan EXCEPT ![a].stage = "launching", ![a].scan = credential]
    /\ credential' = FALSE
    /\ UNCHANGED <<plan, site, port, leak, hindered>>

ClientRefused ==
    /\ turn.pc = "launch" /\ Worker
    /\ OpenRaises /\ Fault
    /\ chan' = [chan EXCEPT ![a].stage = "gone", ![a].link = "down"]
    /\ credential' = FALSE
    /\ UNCHANGED <<plan, site, port, leak, hindered>>

\* The local launcher makes a directory of its own for the attempt.
RootMade ==
    /\ turn.pc = "launch" /\ ~Worker
    /\ Goes("stage") /\ Fine
    /\ chan' = [chan EXCEPT ![a].stage = "launching", ![a].scan = credential]
    /\ UNCHANGED <<plan, credential, site, port, leak, hindered>>

\* view.prepare, view.put, view.commit: a failure may leave part of the view.
StageView ==
    /\ turn.pc = "stage"
    /\ site' = [site EXCEPT ![a].view = TRUE]
    /\ \/ Answered /\ Goes("secure") /\ UNCHANGED <<chan, hindered>>
       \/ Raised /\ LaunchRaises
    /\ UNCHANGED <<plan, credential, port, leak>>

\* secret.put, or a file of mode 0600; there is none without a credential.
PutSecret ==
    /\ turn.pc = "secure"
    /\ \/ /\ ~chan[a].scan /\ Goes("home") /\ Fine
          /\ UNCHANGED <<site, chan, hindered>>
       \/ /\ chan[a].scan /\ site' = [site EXCEPT ![a].secret = TRUE]
          /\ \/ Answered /\ Goes("home") /\ UNCHANGED <<chan, hindered>>
             \/ Raised /\ LaunchRaises
    /\ UNCHANGED <<plan, credential, port, leak>>

\* home.prepare, the working copies and the asset files; a home that belongs to
\* another profile, or a library of another kind, is refused.
PrepareHome ==
    /\ turn.pc = "home"
    /\ \/ Answered /\ Goes("room") /\ UNCHANGED <<chan, hindered>>
       \/ Raised /\ LaunchRaises
    /\ UNCHANGED <<plan, credential, site, port, leak>>

\* The sandbox composes the room, or refuses to.
ComposeRoom ==
    /\ turn.pc = "room"
    /\ \/ Fine /\ Goes("spawn") /\ UNCHANGED <<chan, hindered>>
       \/ Fault /\ LaunchRaises
    /\ UNCHANGED <<plan, credential, site, port, leak>>

\* subscribe() starts the keepalive of the lease, then the Worker spawns the room; the
\* answer of a spawn that happened may be lost.
Spawn ==
    /\ turn.pc = "spawn" /\ Worker
    /\ \/ /\ Answered /\ Goes("handshake")
          /\ chan' = [chan EXCEPT ![a].lease = "kept", ![a].stage = "open"]
          /\ site' = [site EXCEPT ![a].process = "running"]
       \/ /\ Raised /\ Goes("unwind")
          /\ chan' = [chan EXCEPT ![a].lease = "kept"]
          /\ \/ UNCHANGED site
             \/ chan[a].link = "up" /\ site' = [site EXCEPT ![a].process = "running"]
    /\ UNCHANGED <<plan, credential, port, leak, hindered>>

\* A Popen that fails is the one failure that removes the attempt's directory.
Popen ==
    /\ turn.pc = "spawn" /\ ~Worker
    /\ \/ /\ Fine /\ Goes("handshake")
          /\ site' = [site EXCEPT ![a].process = "running"]
          /\ chan' = [chan EXCEPT ![a].stage = "open"]
       \/ /\ Fault /\ OpenRaises
          /\ site' = [site EXCEPT ![a] = Bare]
          /\ chan' = [chan EXCEPT ![a].stage = "gone"]
    /\ UNCHANGED <<plan, credential, port, leak, hindered>>

\* secret.cleanup and view.cleanup, each on its own: swept, or refused.
Swept(left) ==
    /\ left \in SUBSET {"view", "secret"}
    /\ IF left = {} THEN Answered ELSE Raised
    /\ site' = [site EXCEPT ![a].view = @ /\ "view" \in left,
                            ![a].secret = @ /\ "secret" \in left]
    /\ hindered' = IF left = {} THEN hindered ELSE hindered \cup {a}

\* The launcher's handler: the client is closed in the end, and with it the lease.
Released_StillLinked == [chan EXCEPT ![a].stage = "gone"]
Released == [chan EXCEPT ![a].stage = "gone", ![a].link = "down"]
Unwind ==
    /\ turn.pc = "unwind"
    /\ \E left \in SUBSET {"view", "secret"} : Swept(left)
    /\ chan' = Released
    /\ OpenRaises
    /\ UNCHANGED <<plan, credential, port, leak>>

-----------------------------------------------------------------------------
(* The port *)

\* close_execution forgets the session, and that it was prompted.
Popped_Prompted == [NoSession EXCEPT !.prompted = port.prompted]
Popped == NoSession

\* The sidecar can answer a request of the port.
Alive == chan[a].over = "no" /\ chan[a].link = "up" /\ site[a].process = "running"

\* register, start, and create or open: each is answered, or the envelope is closed
\* and the open raises.
Handshake ==
    /\ turn.pc = "handshake"
    /\ \/ /\ Alive /\ Fine
          /\ turn' = [turn EXCEPT !.pc = "prompt", !.opened = TRUE]
          /\ port' = [port EXCEPT !.session = a]
       \/ /\ IF Alive THEN Fault ELSE Fine
          /\ turn' = [turn EXCEPT !.pc = "close", !.after = "raise"]
          /\ UNCHANGED port
    /\ UNCHANGED <<plan, credential, site, chan, leak, hindered>>

\* The execution is marked as prompted before the prompt is written.  A write that
\* fails is no SIDECAR_CLOSED: the run has failed.
Prompt ==
    /\ turn.pc = "prompt"
    /\ port' = [port EXCEPT !.prompted = TRUE]
    /\ \/ /\ Goes("waiting") /\ Fine
          /\ Worker \/ site[a].process = "running"
          /\ chan[a].link = "up"
       \/ /\ turn' = [turn EXCEPT !.pc = "done", !.failed = TRUE]
          /\ IF site[a].process = "running" THEN Raised ELSE Fine
    /\ UNCHANGED <<plan, credential, site, chan, leak, hindered>>

PromptAnswered ==
    /\ turn.pc = "waiting"
    /\ Alive /\ Goes("done") /\ Fine
    /\ UNCHANGED <<plan, credential, site, chan, port, leak, hindered>>

\* An answer that is an error, a typed failure of the reader, the timeout, or a sidecar
\* that closed once too often.
PromptRaises ==
    /\ turn.pc = "waiting"
    /\ IF chan[a].over = "no" THEN Fault
       ELSE (chan[a].over = "lost" \/ a = RebuildLimit + 1) /\ Fine
    /\ turn' = [turn EXCEPT !.pc = "done", !.failed = TRUE]
    /\ UNCHANGED <<plan, credential, site, chan, port, leak, hindered>>

\* SIDECAR_CLOSED: _prompt_with_rebuild closes the execution and opens it again.
Rebuild ==
    /\ turn.pc = "waiting"
    /\ chan[a].over = "ended" /\ a <= RebuildLimit
    /\ port' = Popped /\ Fine
    /\ turn' = [turn EXCEPT !.pc = "close", !.after = "reopen"]
    /\ UNCHANGED <<plan, credential, site, chan, leak, hindered>>

-----------------------------------------------------------------------------
(* The completion *)

\* _complete after done.wait(): a stop may have been confirmed, whatever the prompt did.
Complete ==
    /\ turn.pc = "done"
    /\ \E cancelled \in BOOLEAN :
          turn' = [turn EXCEPT
              !.cancelled = cancelled,
              !.pc  = IF cancelled \/ ~turn.failed THEN "capture" ELSE "pop",
              !.end = IF cancelled \/ ~turn.failed THEN "none" ELSE "failed"]
    /\ Fine
    /\ UNCHANGED <<plan, credential, site, chan, port, leak, hindered>>

\* The end of a turn whose audit was clean, or raised.
EndIf(clean, truncated) ==
    turn' = [turn EXCEPT !.pc = "pop", !.truncated = truncated,
                         !.end = IF turn.cancelled THEN "cancelled"
                                 ELSE IF clean THEN "completed" ELSE "failed"]

\* capture_execution: the adapter is told to close its session and to flush.
Flushed_Unasked == chan
Flushed == [chan EXCEPT ![a].flushed = TRUE]
Capture ==
    /\ turn.pc = "capture"
    /\ \/ /\ port.session = a /\ Alive /\ Fine
          /\ chan' = Flushed /\ Goes("audit")
       \/ /\ IF port.session = a /\ Alive THEN Fault ELSE Fine
          /\ EndIf(FALSE, FALSE) /\ UNCHANGED chan
    /\ UNCHANGED <<plan, credential, site, port, leak, hindered>>

\* The walk reads every listed file and looks for what was injected in this attempt.
Found == leak /\ chan[a].scan

\* _audited_home: a file that cannot be read is reported, and passed over; one that
\* carries the credential fails the turn, and is deleted, if that works and the tree is
\* not the library other profiles share.
Audit ==
    /\ turn.pc = "audit"
    /\ \/ ~Found /\ Answered /\ EndIf(TRUE, FALSE) /\ UNCHANGED leak
       \/ Raised /\ EndIf(FALSE, FALSE) /\ UNCHANGED leak
       \/ chan[a].link = "up" /\ Fault /\ EndIf(TRUE, TRUE) /\ UNCHANGED leak
       \/ /\ Found /\ EndIf(FALSE, FALSE)
          /\ \/ ~plan.library /\ Answered /\ leak' = FALSE
             \/ (IF plan.library THEN Fine ELSE Raised) /\ UNCHANGED leak
    /\ UNCHANGED <<plan, credential, site, chan, port, hindered>>

\* close_execution, at the end of the completion.
CloseExecution ==
    /\ turn.pc = "pop"
    /\ port' = Popped /\ Fine
    /\ turn' = [turn EXCEPT !.pc = IF port.session = 0 THEN "over" ELSE "close",
                            !.after = "retire"]
    /\ UNCHANGED <<plan, credential, site, chan, leak, hindered>>

-----------------------------------------------------------------------------
(* _WorkerChannels.close and _LocalChannels.close *)

\* What follows a close, also one that raised.
AfterClose(raised) ==
    turn' = CASE turn.after = "retire" -> [turn EXCEPT !.pc = "over"]
              [] turn.after = "raise" /\ turn.opened ->
                    [turn EXCEPT !.pc = "done", !.failed = TRUE]
              [] turn.after = "raise" /\ ~turn.opened ->
                    [turn EXCEPT !.pc = "over", !.end = "failed"]
              [] turn.after = "reopen" /\ raised ->
                    [turn EXCEPT !.pc = "done", !.failed = TRUE]
              [] turn.after = "reopen" /\ ~raised ->
                    [turn EXCEPT !.pc = "launch", !.at = a + 1]

\* The client is closed and the lease let go; envelope.close() sets the event that
\* pending requests read, whatever the channels' close did.
Shut == [chan EXCEPT ![a].stage = "gone", ![a].link = "down", ![a].lease = "none",
                     ![a].over = IF @ = "no" THEN "ended" ELSE @]

\* close_stdin, or a cancel where that fails; a cancel that fails too skips the wait
\* and the whole sweep.
CloseStdin ==
    /\ turn.pc = "close" /\ Worker
    /\ \/ /\ Answered /\ Goes("await")
          /\ chan' = [chan EXCEPT ![a].stage = "closed"] /\ UNCHANGED hindered
       \/ /\ Raised /\ AfterClose(TRUE)
          /\ chan' = Shut /\ hindered' = hindered \cup {a}
    /\ UNCHANGED <<plan, credential, site, port, leak>>

\* The sweep is in the finally of wait_terminal.
Finally_Skipped(raised) ==
    IF raised THEN AfterClose(TRUE) /\ chan' = Shut
    ELSE /\ turn' = [turn EXCEPT !.pc = "sweep"] /\ UNCHANGED chan
Finally(raised) ==
    /\ turn' = [turn EXCEPT !.pc = IF raised THEN "sweep and raise" ELSE "sweep"]
    /\ UNCHANGED chan

\* wait_terminal: the process has ended, or the wait raises; it does so by its timeout
\* where the process does not end.
AwaitTerminal ==
    /\ turn.pc = "await"
    /\ \/ site[a].process = "ended" /\ Answered /\ Finally(FALSE)
       \/ /\ IF site[a].process = "running" THEN Fine ELSE Raised
          /\ Finally(TRUE)
    /\ UNCHANGED <<plan, credential, site, port, leak, hindered>>

Sweep ==
    /\ turn.pc \in {"sweep", "sweep and raise"}
    /\ \E left \in SUBSET {"view", "secret"} : Swept(left)
    /\ AfterClose(turn.pc = "sweep and raise")
    /\ chan' = Shut
    /\ UNCHANGED <<plan, credential, port, leak>>

\* The local close kills the process group, and takes the directory with it, where the
\* machine lets it: an error of the removal is ignored.
CloseLocal ==
    /\ turn.pc = "close" /\ ~Worker
    /\ \/ /\ site' = [site EXCEPT ![a] = [Bare EXCEPT !.process = "ended"]]
          /\ Fine /\ UNCHANGED hindered
       \/ /\ site' = [site EXCEPT ![a].process = "ended"]
          /\ Fault /\ hindered' = hindered \cup {a}
    /\ AfterClose(FALSE)
    /\ chan' = Shut
    /\ UNCHANGED <<plan, credential, port, leak>>

-----------------------------------------------------------------------------
(* What races the turn *)

ProcessEnds(i) ==
    /\ site[i].process = "running"
    /\ site' = [site EXCEPT ![i].process = "ended"]
    /\ UNCHANGED <<plan, credential, chan, port, turn, leak, hindered, faults>>

LinkDrops(i) ==
    /\ Worker /\ chan[i].stage # "none" /\ chan[i].link = "up" /\ Fault
    /\ chan' = [chan EXCEPT ![i].link = "down"]
    /\ UNCHANGED <<plan, credential, site, port, turn, leak, hindered>>

\* A heartbeat that could not be sent.
LeaseFails(i) ==
    /\ chan[i].lease = "kept"
    /\ IF chan[i].link = "up" THEN Fault ELSE Fine
    /\ chan' = [chan EXCEPT ![i].lease = "failed"]
    /\ UNCHANGED <<plan, credential, site, port, turn, leak, hindered>>

\* The Worker cancels an attempt whose client stays quiet past its lease.
LeaseExpires(i) ==
    /\ Worker /\ site[i].process = "running"
    /\ chan[i].link = "down" \/ chan[i].lease # "kept"
    /\ site' = [site EXCEPT ![i].process = "ended"]
    /\ UNCHANGED <<plan, credential, chan, port, turn, leak, hindered, faults>>

\* The reader's loop ends: after the last chunk of a process that ended, or with the
\* typed failure that a lost link or a lost lease is.
ReaderEnds(i) ==
    /\ chan[i].stage = "open" /\ chan[i].over = "no"
    /\ \/ /\ site[i].process = "ended" /\ chan[i].link = "up"
          /\ chan' = [chan EXCEPT ![i].over = "ended", ![i].lease = "none"]
       \/ /\ chan[i].link = "down" \/ chan[i].lease = "failed"
          /\ chan' = [chan EXCEPT ![i].over = "lost"]
    /\ UNCHANGED <<plan, credential, site, port, turn, leak, hindered, faults>>

\* A piece of text from the sidecar: before the turn's prompt, such as stored history that
\* plays while the session is opened again, or after it.  _forward takes a message chunk of
\* ACP for the turn's answer only if the prompt was sent, and a driver's as it comes.
Taken == plan.driver \/ port.prompted
Delta(i) ==
    /\ i = a /\ Alive /\ Taken
    /\ \E kind \in {"early", "answer"} :
          /\ turn.pc \in IF kind = "early" THEN {"handshake", "prompt"} ELSE {"waiting"}
          /\ turn' = [turn EXCEPT !.parts = @ \cup {<<i, kind>>}]
    /\ UNCHANGED <<plan, credential, site, chan, port, leak, hindered, faults>>

\* The Harness writes what it was given into its home; it is quiet once flushed.
HarnessLeaks(i) ==
    /\ site[i].process = "running" /\ site[i].secret /\ ~chan[i].flushed /\ ~leak
    /\ leak' = TRUE
    /\ UNCHANGED <<plan, credential, site, chan, port, turn, hindered, faults>>

-----------------------------------------------------------------------------
Launch == ClientStarts \/ ClientRefused \/ RootMade \/ StageView \/ PutSecret
          \/ PrepareHome \/ ComposeRoom \/ Spawn \/ Popen \/ Unwind
Drive  == Handshake \/ Prompt \/ PromptAnswered \/ PromptRaises \/ Rebuild
Finish == Complete \/ Capture \/ Audit \/ CloseExecution
Close  == CloseStdin \/ AwaitTerminal \/ Sweep \/ CloseLocal
Turn   == Launch \/ Drive \/ Finish \/ Close

Next ==
    \/ Turn
    \/ \E i \in Attempts :
          \/ ProcessEnds(i) \/ LinkDrops(i) \/ LeaseFails(i) \/ LeaseExpires(i)
          \/ ReaderEnds(i)  \/ Delta(i)     \/ HarnessLeaks(i)

Spec == Init /\ [][Next]_vars

\* Every request and every wait of the turn has a timeout, so its threads move on; the
\* reader polls, and the Worker's clock runs.
FairSpec ==
    /\ Spec
    /\ WF_vars(Turn)
    /\ \A i \in Attempts : WF_vars(LeaseExpires(i)) /\ WF_vars(ReaderEnds(i))

-----------------------------------------------------------------------------
(* Properties *)

\* The credential an attempt was given is on no machine once the attempt is over: a copy
\* is left behind only where the Worker refused the sweep or could not be reached, a
\* local launch failed before its process, or the local removal failed, which the code
\* ignores (sidecar.py:596-609, 1017-1033; local_channel.py:636).
SecretsAreSwept ==
    \A i \in Attempts : chan[i].stage = "gone" /\ site[i].secret => i \in hindered

\* No turn completes with the credential in a durable directory, unless the audit reports
\* what it did not read, or a Worker's sidecar was rebuilt: only the first launch of that
\* launcher has the credential to look for (sidecar_backend.py:923-926, sidecar.py:412).
CompletedIsClean ==
    turn.end = "completed" /\ leak => turn.truncated \/ (Worker /\ a > 1)

\* Over ACP, what a Harness plays back when its session is opened again is no part of the
\* answer, also where a prompt of the same turn came before.  The rule that the port states
\* is of every Harness (sidecar.py:1302-1304); what a driver sends early does become part of
\* the answer, which is the exception here (sidecar.py:1686-1695).
ReplayIsNotAnswer ==
    ~plan.driver => \A i \in Attempts : <<i, "early">> \notin turn.parts

\* However an attempt ends, a lost answer to spawn and a lost link included, no process
\* of it is left in the end: the lease ends what no request can reach.
RunsLeaveNoProcess ==
    <>[](turn.pc = "over" /\ \A i \in Attempts : site[i].process # "running")
=============================================================================
