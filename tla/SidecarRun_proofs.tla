---------------------------- MODULE SidecarRun_proofs ---------------------------
(***************************************************************************)
(* Proofs about SidecarRun, for any limit of rebuilds and any number of     *)
(* faults.  A turn's threads never overlap, so where the turn is says what  *)
(* the machine and the port hold: what lies ahead is untouched, a launch is *)
(* of the attempt the turn is at, and a session is of an attempt whose      *)
(* launch went through.  The second part is about FirstRunGate, which is     *)
(* passed before a turn may launch: a hold is handed out when a library's    *)
(* event is created, and an event is created once; whoever is inside a       *)
(* library that is not ready therefore owns it.                              *)
(***************************************************************************)
EXTENDS SidecarRun, FirstRunGate, TLAPS

Launching == {"stage", "secure", "home", "room", "spawn", "unwind"}
Closing   == {"close", "await", "sweep", "sweep and raise"}

\* Attempts the turn has not come to.
Untouched(i) == site[i] = Bare /\ chan[i] = NoChan

\* Where the turn is.
Staged ==
    /\ \A i \in Attempts : a < i => Untouched(i)
    /\ turn.pc = "launch" => Untouched(a)
    /\ turn.pc \in Launching => chan[a].stage = "launching"
    /\ turn.pc \in Closing /\ turn.after = "reopen" => a <= RebuildLimit
    /\ turn.pc \in Closing \ {"close"} => Worker

\* The port was not prompted while a session is on its way to be opened.
Fresh ==
    /\ turn.pc \in Launching \cup {"launch", "handshake", "prompt"} => ~port.prompted
    /\ turn.pc \in Closing /\ turn.after = "reopen" => ~port.prompted

\* Attempts that have the credential to look for: all the local ones, and the Worker's
\* first.
Searched(i) == ~Worker \/ i = 1

Credentials ==
    /\ ~Worker => credential
    /\ turn.pc = "launch" /\ a = 1 => credential
    /\ turn.pc \in Launching \cup {"handshake"} /\ Searched(a) => chan[a].scan
    /\ port.session # 0 /\ Searched(port.session) => chan[port.session].scan

\* A local attempt the turn has left has no process, and an end is of the last attempt.
Left ==
    /\ ~Worker => \A i \in Attempts : i < a => site[i].process # "running"
    /\ turn.pc = "audit" => port.session = a /\ chan[a].flushed
    /\ turn.end # "none" =>
          turn.pc \in {"pop", "over"} \/ (turn.pc \in Closing /\ turn.after = "retire")
    /\ turn.end = "completed" => chan[a].flushed

RunInv == Staged /\ Fresh /\ Credentials /\ Left
Promises == SecretsAreSwept /\ CompletedIsClean /\ ReplayIsNotAnswer
IInv == TypeOK /\ RunInv /\ Promises

-----------------------------------------------------------------------------
(* What the model's operators do to the turn *)

TurnStays == /\ turn' \in TurnRows
             /\ turn'.at = turn.at /\ turn'.after = turn.after /\ turn'.end = turn.end
             /\ turn'.truncated = turn.truncated /\ turn'.parts = turn.parts

Pcs == {"stage", "secure", "home", "room", "spawn", "unwind", "handshake", "prompt",
        "waiting", "done", "audit", "await"}

LEMMA GoesOn ==
  ASSUME turn \in TurnRows, NEW pc \in Pcs, Goes(pc)
  PROVE  TurnStays /\ turn'.pc = pc
  BY DEF Goes, Pcs, TurnRows, TurnStays

LEMMA OpenFails ==
  ASSUME turn \in TurnRows, OpenRaises
  PROVE  /\ turn' \in TurnRows
         /\ turn'.at = turn.at /\ turn'.after = turn.after /\ turn'.parts = turn.parts
         /\ turn'.truncated = turn.truncated
         /\ \/ turn'.pc = "done" /\ turn'.end = turn.end
            \/ turn'.pc = "over" /\ turn'.end = "failed"
<1>1. CASE turn.opened
  BY <1>1 DEF OpenRaises, TurnRows
<1>2. CASE ~turn.opened
  BY <1>2 DEF OpenRaises, TurnRows
<1>. QED  BY <1>1, <1>2

\* A close hands the turn on: to its end, to the completion, or to the next attempt.
LEMMA Closed ==
  ASSUME turn \in TurnRows, NEW raised \in BOOLEAN, AfterClose(raised),
         turn.after = "reopen" => a <= RebuildLimit
  PROVE  /\ turn' \in TurnRows
         /\ turn'.after = turn.after /\ turn'.parts = turn.parts
         /\ turn'.truncated = turn.truncated
         /\ \/ /\ turn'.at = turn.at
               /\ \/ turn.after = "retire" /\ turn'.pc = "over" /\ turn'.end = turn.end
                  \/ turn'.pc = "over" /\ turn'.end = "failed"
                  \/ turn.after # "retire" /\ turn'.pc = "done" /\ turn'.end = turn.end
            \/ /\ ~raised /\ turn'.at = turn.at + 1 /\ turn'.pc = "launch"
               /\ turn'.end = turn.end /\ turn.after = "reopen"
<1> USE DEF AfterClose
<1>1. CASE turn.after = "retire"
  BY <1>1 DEF TurnRows
<1>2. CASE turn.after = "raise" /\ turn.opened
  BY <1>2 DEF TurnRows
<1>3. CASE turn.after = "raise" /\ ~turn.opened
  BY <1>3 DEF TurnRows
<1>4. CASE turn.after = "reopen" /\ raised
  BY <1>4 DEF TurnRows
<1>5. CASE turn.after = "reopen" /\ ~raised
  <2>0. turn.at \in Attempts
    BY DEF TurnRows
  <2>1. turn.at + 1 \in Attempts
    BY <1>5, <2>0, RunAssumption DEF Attempts, a
  <2>2. turn' = [turn EXCEPT !.pc = "launch", !.at = a + 1]
    BY <1>5
  <2>. QED  BY <1>5, <2>1, <2>2 DEF TurnRows, a
<1>. QED  BY <1>1, <1>2, <1>3, <1>4, <1>5 DEF TurnRows

LEMMA FaultsTyped ==
  ASSUME faults \in 0..MaxFaults, Fine \/ Fault
  PROVE  faults' \in 0..MaxFaults
  BY RunAssumption DEF Fine, Fault

-----------------------------------------------------------------------------
(* What they do to the attempt *)

\* Its channel moves, and keeps what it looks for and whether it was flushed.
ChanGoes(s) ==
    /\ chan' \in [Attempts -> Chans]
    /\ chan'[a].stage = s /\ chan'[a].scan = chan[a].scan
    /\ chan'[a].flushed = chan[a].flushed
    /\ \A j \in Attempts : j # a => chan'[j] = chan[j]

\* A record of channels that keeps the type.
LEMMA ChanTyped ==
  ASSUME NEW f \in [Attempts -> Chans], NEW i \in Attempts,
         NEW r \in Chans
  PROVE  /\ [f EXCEPT ![i] = r] \in [Attempts -> Chans]
         /\ [f EXCEPT ![i] = r][i] = r
         /\ \A j \in Attempts : j # i => [f EXCEPT ![i] = r][j] = f[j]
  OBVIOUS

LEMMA AtTyped ==
  ASSUME TypeOK
  PROVE  /\ turn \in TurnRows /\ a \in Attempts /\ a \in Nat \ {0} /\ turn.at = a
         /\ port.session # 0 => port.session \in Attempts
         /\ \A i \in Attempts : a < i \/ i < a => i # a
<1>1. turn \in TurnRows /\ turn.at \in Attempts
  BY DEF TypeOK, TurnRows
<1>2. port.session \in 0..(RebuildLimit + 1)
  BY DEF TypeOK, Sessions
<1>3. turn.at \in Nat \ {0} /\ (port.session # 0 => port.session \in Attempts)
  BY <1>1, <1>2, RunAssumption DEF Attempts
<1>4. \A i \in Attempts : i \in Nat
  BY RunAssumption DEF Attempts
<1>. QED  BY <1>1, <1>3, <1>4 DEF a

LEMMA ChanStarts ==
  ASSUME TypeOK, chan' = [chan EXCEPT ![a].stage = "launching", ![a].scan = credential]
  PROVE  /\ chan' \in [Attempts -> Chans] /\ chan'[a].stage = "launching"
         /\ chan'[a].scan = credential /\ chan'[a].flushed = chan[a].flushed
         /\ \A j \in Attempts : j # a => chan'[j] = chan[j]
<1> DEFINE c == chan[a]
           r == [[c EXCEPT !.stage = "launching"] EXCEPT !.scan = credential]
<1>1. c \in Chans /\ credential \in BOOLEAN
  BY AtTyped DEF TypeOK
<1>2. /\ r \in Chans /\ r.stage = "launching" /\ r.scan = credential
      /\ r.flushed = c.flushed
  BY <1>1 DEF Chans
<1>3. chan' = [chan EXCEPT ![a] = r]
  BY <1>1, AtTyped DEF TypeOK, Chans
<1>. QED  BY <1>2, <1>3, AtTyped, ChanTyped DEF TypeOK

LEMMA ChanGone ==
  ASSUME TypeOK, chan' = [chan EXCEPT ![a].stage = "gone"]
  PROVE  ChanGoes("gone")
  BY AtTyped DEF TypeOK, Chans, ChanGoes

LEMMA ChanReleased ==
  ASSUME TypeOK, chan' = Released
  PROVE  ChanGoes("gone")
  BY AtTyped DEF TypeOK, Chans, ChanGoes, Released

LEMMA ChanFlushed ==
  ASSUME TypeOK, chan' = Flushed
  PROVE  /\ chan' \in [Attempts -> Chans] /\ chan'[a].flushed
         /\ chan'[a].stage = chan[a].stage /\ chan'[a].scan = chan[a].scan
         /\ \A j \in Attempts : j # a => chan'[j] = chan[j]
<1> DEFINE r == [chan[a] EXCEPT !.flushed = TRUE]
<1>1. chan[a] \in Chans
  BY AtTyped DEF TypeOK
<1>2. r \in Chans /\ r.flushed /\ r.stage = chan[a].stage /\ r.scan = chan[a].scan
  BY <1>1 DEF Chans
<1>3. chan' = [chan EXCEPT ![a] = r]
  BY <1>1, AtTyped DEF Flushed, TypeOK, Chans
<1>. QED  BY <1>2, <1>3, AtTyped, ChanTyped DEF TypeOK

LEMMA ChanShut ==
  ASSUME TypeOK, chan' = Shut
  PROVE  ChanGoes("gone")
<1> DEFINE c == chan[a]
           r == [[[[c EXCEPT !.stage = "gone"] EXCEPT !.link = "down"] EXCEPT !.lease = "none"]
                    EXCEPT !.over = IF c.over = "no" THEN "ended" ELSE c.over]
<1>1. c \in Chans
  BY AtTyped DEF TypeOK
<1>2. r \in Chans /\ r.stage = "gone" /\ r.scan = c.scan /\ r.flushed = c.flushed
  BY <1>1 DEF Chans
<1>3. chan' = [chan EXCEPT ![a] = r]
  BY <1>1, AtTyped DEF Shut, TypeOK, Chans
<1>. QED  BY <1>2, <1>3, AtTyped, ChanTyped DEF TypeOK, ChanGoes

LEMMA ChanOpen ==
  ASSUME TypeOK, \/ chan' = [chan EXCEPT ![a].lease = "kept", ![a].stage = "open"]
                 \/ chan' = [chan EXCEPT ![a].stage = "open"]
  PROVE  ChanGoes("open")
<1>1. CASE chan' = [chan EXCEPT ![a].lease = "kept", ![a].stage = "open"]
  BY <1>1, AtTyped DEF TypeOK, Chans, ChanGoes
<1>2. CASE chan' = [chan EXCEPT ![a].stage = "open"]
  BY <1>2, AtTyped DEF TypeOK, Chans, ChanGoes
<1>. QED  BY <1>1, <1>2

\* What races the turn leaves each channel where it is, and those alone that wait.
ChansStay ==
    /\ chan' \in [Attempts -> Chans]
    /\ \A j \in Attempts : /\ chan'[j].stage = chan[j].stage
                           /\ chan'[j].scan = chan[j].scan
                           /\ chan'[j].flushed = chan[j].flushed
                           /\ chan[j] = NoChan => chan'[j] = NoChan

LEMMA ChanRaces ==
  ASSUME TypeOK, NEW i \in Attempts, LinkDrops(i) \/ LeaseFails(i) \/ ReaderEnds(i)
  PROVE  ChansStay
<1>0. chan[i] # NoChan
  BY DEF LinkDrops, LeaseFails, ReaderEnds, NoChan
<1>1. CASE chan' = [chan EXCEPT ![i].link = "down"]
  BY <1>0, <1>1 DEF TypeOK, Chans, ChansStay
<1>2. CASE chan' = [chan EXCEPT ![i].lease = "failed"]
  BY <1>0, <1>2 DEF TypeOK, Chans, ChansStay
<1>3. CASE chan' = [chan EXCEPT ![i].over = "ended", ![i].lease = "none"]
  BY <1>0, <1>3, ZenonT(60) DEF TypeOK, Chans, ChansStay
<1>4. CASE chan' = [chan EXCEPT ![i].over = "lost"]
  BY <1>0, <1>4 DEF TypeOK, Chans, ChansStay
<1>. QED  BY <1>1, <1>2, <1>3, <1>4 DEF LinkDrops, LeaseFails, ReaderEnds

\* The machine of the attempt changes, and no other.
SiteGoes == /\ site' \in [Attempts -> Sites]
            /\ \A j \in Attempts : j # a => site'[j] = site[j]

LEMMA SiteStaged ==
  ASSUME TypeOK, \/ site' = [site EXCEPT ![a].view = TRUE]
                 \/ site' = [site EXCEPT ![a].process = "running"]
  PROVE  SiteGoes /\ site'[a].secret = site[a].secret
<1>1. CASE site' = [site EXCEPT ![a].view = TRUE]
  BY <1>1, AtTyped DEF TypeOK, Sites, SiteGoes
<1>2. CASE site' = [site EXCEPT ![a].process = "running"]
  BY <1>2, AtTyped DEF TypeOK, Sites, SiteGoes
<1>. QED  BY <1>1, <1>2

LEMMA SiteSwept ==
  ASSUME TypeOK, NEW left, Swept(left)
  PROVE  /\ SiteGoes
         /\ site'[a].secret => a \in hindered'
         /\ site'[a].process = site[a].process
         /\ hindered \subseteq hindered' /\ hindered' \subseteq Attempts
         /\ Fine \/ Fault
<1>1. site' = [site EXCEPT ![a].view = @ /\ "view" \in left,
                           ![a].secret = @ /\ "secret" \in left]
  BY DEF Swept
<1>2. site[a] \in Sites
  BY AtTyped DEF TypeOK
<1>3. /\ (site[a].view /\ "view" \in left) \in BOOLEAN
      /\ (site[a].secret /\ "secret" \in left) \in BOOLEAN
  BY <1>2 DEF Sites
<1>4. SiteGoes /\ site'[a].process = site[a].process
         /\ site'[a].secret = (site[a].secret /\ "secret" \in left)
  BY <1>1, <1>2, AtTyped DEF TypeOK, Sites, SiteGoes
<1>5. hindered' = IF left = {} THEN hindered ELSE hindered \cup {a}
  BY DEF Swept
<1>6. Fine \/ Fault
  BY DEF Swept, Answered, Raised
<1>. QED  BY <1>4, <1>5, <1>6, AtTyped DEF TypeOK

-----------------------------------------------------------------------------
(* Each step keeps the invariant *)

\* A launch that raises, whatever it had staged.
LEMMA LaunchFails ==
  ASSUME IInv, turn.pc \in Launching, LaunchRaises, UNCHANGED <<plan, credential, port, leak>>,
         SiteGoes, site'[a].process = site[a].process, Fine \/ Fault
  PROVE  IInv'
<1>0. /\ turn \in TurnRows /\ a \in Attempts /\ a \in Nat \ {0} /\ turn.at = a
      /\ port.session # 0 => port.session \in Attempts
      /\ \A i \in Attempts : a < i \/ i < a => i # a
  BY AtTyped DEF IInv
<1>1. CASE Worker
  <2>1. TurnStays /\ turn'.pc = "unwind" /\ UNCHANGED <<chan, hindered>>
    BY <1>0, <1>1, GoesOn DEF LaunchRaises, Pcs
  <2>2. TypeOK'
    BY <2>1, FaultsTyped DEF IInv, TypeOK, TurnStays, SiteGoes
  <2>21. Staged'
    BY <1>0, <1>1, <2>1
      DEF IInv, RunInv, Staged, Untouched, Worker, Bare, NoChan, Launching, Closing, a,
        TurnStays, SiteGoes
  <2>22. Fresh'
    BY <1>0, <1>1, <2>1
      DEF IInv, RunInv, Staged, Fresh, Launching, Closing, TurnStays, SiteGoes
  <2>23. Credentials'
    BY <1>0, <1>1, <2>1
      DEF IInv, RunInv, Staged, Untouched, NoChan, Credentials, Searched, Worker,
        Launching, a, TurnStays, SiteGoes
  <2>24. Left'
    BY <1>0, <1>1, <2>1
      DEF IInv, RunInv, Staged, Left, Worker, Launching, Closing, a, TurnStays, SiteGoes
  <2>25. SecretsAreSwept'
    BY <1>0, <1>1, <2>1
      DEF IInv, Promises, RunInv, Staged, Launching, Untouched, Bare, SecretsAreSwept, a,
        TurnStays, SiteGoes
  <2>26. CompletedIsClean'
    BY <1>0, <1>1, <2>1
      DEF IInv, Promises, RunInv, Left, CompletedIsClean, Worker, a, TurnStays, SiteGoes
  <2>27. ReplayIsNotAnswer'
    BY <1>0, <1>1, <2>1
      DEF IInv, Promises, ReplayIsNotAnswer, TurnStays, SiteGoes
  <2>. QED
    BY <2>2, <2>21, <2>22, <2>23, <2>24, <2>25, <2>26, <2>27 DEF IInv, RunInv, Promises
<1>2. CASE ~Worker
  <2>1. ChanGoes("gone") /\ hindered' = hindered \cup {a}
    BY <1>2, ChanGone DEF LaunchRaises, IInv
  <2>2. TypeOK'
    BY <1>0, <1>2, <2>1, OpenFails, FaultsTyped DEF LaunchRaises, IInv, TypeOK, SiteGoes, ChanGoes
  <2>3. /\ turn'.at = turn.at /\ turn'.after = turn.after /\ turn'.parts = turn.parts
        /\ turn'.truncated = turn.truncated
        /\ \/ turn'.pc = "done" /\ turn'.end = turn.end
           \/ turn'.pc = "over" /\ turn'.end = "failed"
    BY <1>0, <1>2, OpenFails DEF LaunchRaises
  <2>21. Staged'
    BY <1>0, <1>2, <2>1, <2>3
      DEF IInv, RunInv, Staged, Untouched, Worker, Bare, NoChan, Launching, Closing, a,
        ChanGoes, SiteGoes
  <2>22. Fresh'
    BY <1>0, <1>2, <2>1, <2>3
      DEF IInv, RunInv, Staged, Fresh, Launching, Closing, ChanGoes, SiteGoes
  <2>23. Credentials'
    BY <1>0, <1>2, <2>1, <2>3
      DEF IInv, RunInv, Staged, Untouched, NoChan, Credentials, Searched, Worker,
        Launching, a, ChanGoes, SiteGoes
  <2>24. Left'
    BY <1>0, <1>2, <2>1, <2>3
      DEF IInv, RunInv, Staged, Left, Worker, Launching, Closing, a, ChanGoes, SiteGoes
  <2>25. SecretsAreSwept'
    BY <1>0, <1>2, <2>1, <2>3
      DEF IInv, Promises, RunInv, Staged, Launching, Untouched, Bare, SecretsAreSwept, a,
        ChanGoes, SiteGoes
  <2>26. CompletedIsClean'
    BY <1>0, <1>2, <2>1, <2>3
      DEF IInv, Promises, RunInv, Left, CompletedIsClean, Worker, a, ChanGoes, SiteGoes
  <2>27. ReplayIsNotAnswer'
    BY <1>0, <1>2, <2>1, <2>3
      DEF IInv, Promises, ReplayIsNotAnswer, ChanGoes, SiteGoes
  <2>. QED
    BY <2>2, <2>21, <2>22, <2>23, <2>24, <2>25, <2>26, <2>27 DEF IInv, RunInv, Promises
<1>. QED  BY <1>1, <1>2

LEMMA ClientStartsKeeps == ASSUME IInv, ClientStarts PROVE IInv'
<1>0. /\ turn \in TurnRows /\ a \in Attempts /\ a \in Nat \ {0} /\ turn.at = a
      /\ port.session # 0 => port.session \in Attempts
      /\ \A i \in Attempts : a < i \/ i < a => i # a
  BY AtTyped DEF IInv
<1>1. /\ TurnStays /\ turn'.pc = "stage" /\ Worker
      /\ turn.pc = "launch" /\ UNCHANGED <<plan, site, port, leak, hindered>>
      /\ Fine /\ credential' = FALSE
  BY <1>0, GoesOn DEF ClientStarts, Pcs
<1>3. /\ chan' \in [Attempts -> Chans] /\ chan'[a].stage = "launching"
      /\ chan'[a].scan = credential /\ chan'[a].flushed = chan[a].flushed
      /\ \A j \in Attempts : j # a => chan'[j] = chan[j]
  BY ChanStarts DEF ClientStarts, IInv
<1>2. TypeOK'
  BY <1>1, <1>3, FaultsTyped DEF IInv, TypeOK, TurnStays
<1>21. Staged'
  BY <1>0, <1>1, <1>3
    DEF IInv, RunInv, Staged, Untouched, Worker, Bare, NoChan, Launching, Closing, a,
      TurnStays
<1>22. Fresh'
  BY <1>0, <1>1, <1>3
    DEF IInv, RunInv, Staged, Fresh, Launching, Closing, TurnStays
<1>23. Credentials'
  BY <1>0, <1>1, <1>3
    DEF IInv, RunInv, Staged, Untouched, NoChan, Credentials, Searched, Worker, Launching,
      a, TurnStays
<1>24. Left'
  BY <1>0, <1>1, <1>3
    DEF IInv, RunInv, Staged, Left, Worker, Launching, Closing, a, TurnStays
<1>25. SecretsAreSwept'
  BY <1>0, <1>1, <1>3
    DEF IInv, Promises, RunInv, Staged, Launching, Untouched, Bare, SecretsAreSwept, a,
      TurnStays
<1>26. CompletedIsClean'
  BY <1>0, <1>1, <1>3
    DEF IInv, Promises, RunInv, Left, CompletedIsClean, Worker, a, TurnStays
<1>27. ReplayIsNotAnswer'
  BY <1>0, <1>1, <1>3
    DEF IInv, Promises, ReplayIsNotAnswer, TurnStays
<1>. QED
  BY <1>2, <1>21, <1>22, <1>23, <1>24, <1>25, <1>26, <1>27
    DEF IInv, RunInv, Promises

LEMMA RootMadeKeeps == ASSUME IInv, RootMade PROVE IInv'
<1>0. /\ turn \in TurnRows /\ a \in Attempts /\ a \in Nat \ {0} /\ turn.at = a
      /\ port.session # 0 => port.session \in Attempts
      /\ \A i \in Attempts : a < i \/ i < a => i # a
  BY AtTyped DEF IInv
<1>1. /\ TurnStays /\ turn'.pc = "stage" /\ ~Worker
      /\ turn.pc = "launch" /\ UNCHANGED <<plan, credential, site, port, leak, hindered>>
      /\ Fine
  BY <1>0, GoesOn DEF RootMade, Pcs
<1>3. /\ chan' \in [Attempts -> Chans] /\ chan'[a].stage = "launching"
      /\ chan'[a].scan = credential /\ chan'[a].flushed = chan[a].flushed
      /\ \A j \in Attempts : j # a => chan'[j] = chan[j]
  BY ChanStarts DEF RootMade, IInv
<1>2. TypeOK'
  BY <1>1, <1>3, FaultsTyped DEF IInv, TypeOK, TurnStays
<1>21. Staged'
  BY <1>0, <1>1, <1>3
    DEF IInv, RunInv, Staged, Untouched, Worker, Bare, NoChan, Launching, Closing, a,
      TurnStays
<1>22. Fresh'
  BY <1>0, <1>1, <1>3
    DEF IInv, RunInv, Staged, Fresh, Launching, Closing, TurnStays
<1>23. Credentials'
  BY <1>0, <1>1, <1>3
    DEF IInv, RunInv, Staged, Untouched, NoChan, Credentials, Searched, Worker, Launching,
      a, TurnStays
<1>24. Left'
  BY <1>0, <1>1, <1>3
    DEF IInv, RunInv, Staged, Left, Worker, Launching, Closing, a, TurnStays
<1>25. SecretsAreSwept'
  BY <1>0, <1>1, <1>3
    DEF IInv, Promises, RunInv, Staged, Launching, Untouched, Bare, SecretsAreSwept, a,
      TurnStays
<1>26. CompletedIsClean'
  BY <1>0, <1>1, <1>3
    DEF IInv, Promises, RunInv, Left, CompletedIsClean, Worker, a, TurnStays
<1>27. ReplayIsNotAnswer'
  BY <1>0, <1>1, <1>3
    DEF IInv, Promises, ReplayIsNotAnswer, TurnStays
<1>. QED
  BY <1>2, <1>21, <1>22, <1>23, <1>24, <1>25, <1>26, <1>27
    DEF IInv, RunInv, Promises

LEMMA ClientRefusedKeeps == ASSUME IInv, ClientRefused PROVE IInv'
<1>0. /\ turn \in TurnRows /\ a \in Attempts /\ a \in Nat \ {0} /\ turn.at = a
      /\ port.session # 0 => port.session \in Attempts
      /\ \A i \in Attempts : a < i \/ i < a => i # a
  BY AtTyped DEF IInv
<1>1. /\ turn' \in TurnRows
      /\ turn'.at = turn.at /\ turn'.after = turn.after /\ turn'.parts = turn.parts
      /\ turn'.truncated = turn.truncated
      /\ \/ turn'.pc = "done" /\ turn'.end = turn.end
         \/ turn'.pc = "over" /\ turn'.end = "failed"
  BY <1>0, OpenFails DEF ClientRefused
<1>3. ChanGoes("gone")
  BY ChanReleased DEF ClientRefused, IInv, Released
<1>4. /\ Worker /\ turn.pc = "launch" /\ UNCHANGED <<plan, site, port, leak, hindered>>
      /\ Fault /\ credential' = FALSE
  BY DEF ClientRefused
<1>2. TypeOK'
  BY <1>1, <1>3, <1>4, FaultsTyped DEF IInv, TypeOK, ChanGoes
<1>21. Staged'
  BY <1>0, <1>1, <1>3, <1>4
    DEF IInv, RunInv, Staged, Untouched, Worker, Bare, NoChan, Launching, Closing, a,
      ChanGoes
<1>22. Fresh'
  BY <1>0, <1>1, <1>3, <1>4
    DEF IInv, RunInv, Staged, Fresh, Launching, Closing, ChanGoes
<1>23. Credentials'
  BY <1>0, <1>1, <1>3, <1>4
    DEF IInv, RunInv, Staged, Untouched, NoChan, Credentials, Searched, Worker, Launching,
      a, ChanGoes
<1>24. Left'
  BY <1>0, <1>1, <1>3, <1>4
    DEF IInv, RunInv, Staged, Left, Worker, Launching, Closing, a, ChanGoes
<1>25. SecretsAreSwept'
  BY <1>0, <1>1, <1>3, <1>4
    DEF IInv, Promises, RunInv, Staged, Launching, Untouched, Bare, SecretsAreSwept, a,
      ChanGoes
<1>26. CompletedIsClean'
  BY <1>0, <1>1, <1>3, <1>4
    DEF IInv, Promises, RunInv, Left, CompletedIsClean, Worker, a, ChanGoes
<1>27. ReplayIsNotAnswer'
  BY <1>0, <1>1, <1>3, <1>4
    DEF IInv, Promises, ReplayIsNotAnswer, ChanGoes
<1>. QED
  BY <1>2, <1>21, <1>22, <1>23, <1>24, <1>25, <1>26, <1>27
    DEF IInv, RunInv, Promises

LEMMA StageViewKeeps == ASSUME IInv, StageView PROVE IInv'
<1>0. /\ turn \in TurnRows /\ a \in Attempts /\ a \in Nat \ {0} /\ turn.at = a
      /\ port.session # 0 => port.session \in Attempts
      /\ \A i \in Attempts : a < i \/ i < a => i # a
  BY AtTyped DEF IInv
<1>1. /\ turn.pc = "stage" /\ turn.pc \in Launching
      /\ UNCHANGED <<plan, credential, port, leak>>
  BY DEF StageView, Launching
<1>2. SiteGoes /\ site'[a].process = site[a].process
  <2>1. site' = [site EXCEPT ![a].view = TRUE]
    BY DEF StageView
  <2>. QED  BY <1>0, <2>1 DEF IInv, TypeOK, Sites, SiteGoes
<1>3. CASE Goes("secure") /\ UNCHANGED <<chan, hindered>> /\ (Fine \/ Fault)
  <2>1. TurnStays /\ turn'.pc = "secure" /\ UNCHANGED <<chan, hindered>>
    BY <1>0, <1>3, GoesOn DEF Pcs
  <2>2. TypeOK'
    BY <1>1, <1>2, <1>3, <2>1, FaultsTyped DEF IInv, TypeOK, TurnStays, SiteGoes
  <2>21. Staged'
    BY <1>0, <1>1, <1>2, <2>1
      DEF IInv, RunInv, Staged, Untouched, Worker, Bare, NoChan, Launching, Closing, a,
        SiteGoes, TurnStays
  <2>22. Fresh'
    BY <1>0, <1>1, <1>2, <2>1
      DEF IInv, RunInv, Staged, Fresh, Launching, Closing, SiteGoes, TurnStays
  <2>23. Credentials'
    BY <1>0, <1>1, <1>2, <2>1
      DEF IInv, RunInv, Staged, Untouched, NoChan, Credentials, Searched, Worker,
        Launching, a, SiteGoes, TurnStays
  <2>24. Left'
    BY <1>0, <1>1, <1>2, <2>1
      DEF IInv, RunInv, Staged, Left, Worker, Launching, Closing, a, SiteGoes, TurnStays
  <2>25. SecretsAreSwept'
    BY <1>0, <1>1, <1>2, <2>1
      DEF IInv, Promises, RunInv, Staged, Launching, Untouched, Bare, SecretsAreSwept, a,
        SiteGoes, TurnStays
  <2>26. CompletedIsClean'
    BY <1>0, <1>1, <1>2, <2>1
      DEF IInv, Promises, RunInv, Left, CompletedIsClean, Worker, a, SiteGoes, TurnStays
  <2>27. ReplayIsNotAnswer'
    BY <1>0, <1>1, <1>2, <2>1
      DEF IInv, Promises, ReplayIsNotAnswer, SiteGoes, TurnStays
  <2>. QED
    BY <2>2, <2>21, <2>22, <2>23, <2>24, <2>25, <2>26, <2>27
      DEF IInv, RunInv, Promises
<1>4. CASE LaunchRaises /\ (Fine \/ Fault)
  BY <1>1, <1>2, <1>4, LaunchFails
<1>. QED
  BY <1>3, <1>4 DEF StageView, Answered, Raised

LEMMA PutSecretKeeps == ASSUME IInv, PutSecret PROVE IInv'
<1>0. /\ turn \in TurnRows /\ a \in Attempts /\ a \in Nat \ {0} /\ turn.at = a
      /\ port.session # 0 => port.session \in Attempts
      /\ \A i \in Attempts : a < i \/ i < a => i # a
  BY AtTyped DEF IInv
<1>1. /\ turn.pc = "secure" /\ turn.pc \in Launching
      /\ UNCHANGED <<plan, credential, port, leak>>
  BY DEF PutSecret, Launching
<1>2. SiteGoes /\ site'[a].process = site[a].process
  <2>1. UNCHANGED site \/ site' = [site EXCEPT ![a].secret = TRUE]
    BY DEF PutSecret
  <2>2. CASE UNCHANGED site
    BY <2>2 DEF IInv, TypeOK, SiteGoes
  <2>3. CASE site' = [site EXCEPT ![a].secret = TRUE]
    BY <1>0, <2>3 DEF IInv, TypeOK, Sites, SiteGoes
  <2>. QED  BY <2>1, <2>2, <2>3
<1>3. CASE Goes("home") /\ UNCHANGED <<chan, hindered>> /\ (Fine \/ Fault)
  <2>1. TurnStays /\ turn'.pc = "home" /\ UNCHANGED <<chan, hindered>>
    BY <1>0, <1>3, GoesOn DEF Pcs
  <2>2. TypeOK'
    BY <1>1, <1>2, <1>3, <2>1, FaultsTyped DEF IInv, TypeOK, TurnStays, SiteGoes
  <2>21. Staged'
    BY <1>0, <1>1, <1>2, <2>1
      DEF IInv, RunInv, Staged, Untouched, Worker, Bare, NoChan, Launching, Closing, a,
        SiteGoes, TurnStays
  <2>22. Fresh'
    BY <1>0, <1>1, <1>2, <2>1
      DEF IInv, RunInv, Staged, Fresh, Launching, Closing, SiteGoes, TurnStays
  <2>23. Credentials'
    BY <1>0, <1>1, <1>2, <2>1
      DEF IInv, RunInv, Staged, Untouched, NoChan, Credentials, Searched, Worker,
        Launching, a, SiteGoes, TurnStays
  <2>24. Left'
    BY <1>0, <1>1, <1>2, <2>1
      DEF IInv, RunInv, Staged, Left, Worker, Launching, Closing, a, SiteGoes, TurnStays
  <2>25. SecretsAreSwept'
    BY <1>0, <1>1, <1>2, <2>1
      DEF IInv, Promises, RunInv, Staged, Launching, Untouched, Bare, SecretsAreSwept, a,
        SiteGoes, TurnStays
  <2>26. CompletedIsClean'
    BY <1>0, <1>1, <1>2, <2>1
      DEF IInv, Promises, RunInv, Left, CompletedIsClean, Worker, a, SiteGoes, TurnStays
  <2>27. ReplayIsNotAnswer'
    BY <1>0, <1>1, <1>2, <2>1
      DEF IInv, Promises, ReplayIsNotAnswer, SiteGoes, TurnStays
  <2>. QED
    BY <2>2, <2>21, <2>22, <2>23, <2>24, <2>25, <2>26, <2>27
      DEF IInv, RunInv, Promises
<1>4. CASE LaunchRaises /\ (Fine \/ Fault)
  BY <1>1, <1>2, <1>4, LaunchFails
<1>. QED
  BY <1>3, <1>4 DEF PutSecret, Answered, Raised

LEMMA PrepareHomeKeeps == ASSUME IInv, PrepareHome PROVE IInv'
<1>0. /\ turn \in TurnRows /\ a \in Attempts /\ a \in Nat \ {0} /\ turn.at = a
      /\ port.session # 0 => port.session \in Attempts
      /\ \A i \in Attempts : a < i \/ i < a => i # a
  BY AtTyped DEF IInv
<1>1. /\ turn.pc = "home" /\ turn.pc \in Launching
      /\ UNCHANGED <<plan, credential, port, leak>>
  BY DEF PrepareHome, Launching
<1>2. SiteGoes /\ site'[a].process = site[a].process
  BY DEF PrepareHome, IInv, TypeOK, SiteGoes
<1>3. CASE Goes("room") /\ UNCHANGED <<chan, hindered>> /\ (Fine \/ Fault)
  <2>1. TurnStays /\ turn'.pc = "room" /\ UNCHANGED <<chan, hindered>>
    BY <1>0, <1>3, GoesOn DEF Pcs
  <2>2. TypeOK'
    BY <1>1, <1>2, <1>3, <2>1, FaultsTyped DEF IInv, TypeOK, TurnStays, SiteGoes
  <2>21. Staged'
    BY <1>0, <1>1, <1>2, <2>1
      DEF IInv, RunInv, Staged, Untouched, Worker, Bare, NoChan, Launching, Closing, a,
        SiteGoes, TurnStays
  <2>22. Fresh'
    BY <1>0, <1>1, <1>2, <2>1
      DEF IInv, RunInv, Staged, Fresh, Launching, Closing, SiteGoes, TurnStays
  <2>23. Credentials'
    BY <1>0, <1>1, <1>2, <2>1
      DEF IInv, RunInv, Staged, Untouched, NoChan, Credentials, Searched, Worker,
        Launching, a, SiteGoes, TurnStays
  <2>24. Left'
    BY <1>0, <1>1, <1>2, <2>1
      DEF IInv, RunInv, Staged, Left, Worker, Launching, Closing, a, SiteGoes, TurnStays
  <2>25. SecretsAreSwept'
    BY <1>0, <1>1, <1>2, <2>1
      DEF IInv, Promises, RunInv, Staged, Launching, Untouched, Bare, SecretsAreSwept, a,
        SiteGoes, TurnStays
  <2>26. CompletedIsClean'
    BY <1>0, <1>1, <1>2, <2>1
      DEF IInv, Promises, RunInv, Left, CompletedIsClean, Worker, a, SiteGoes, TurnStays
  <2>27. ReplayIsNotAnswer'
    BY <1>0, <1>1, <1>2, <2>1
      DEF IInv, Promises, ReplayIsNotAnswer, SiteGoes, TurnStays
  <2>. QED
    BY <2>2, <2>21, <2>22, <2>23, <2>24, <2>25, <2>26, <2>27
      DEF IInv, RunInv, Promises
<1>4. CASE LaunchRaises /\ (Fine \/ Fault)
  BY <1>1, <1>2, <1>4, LaunchFails
<1>. QED
  BY <1>3, <1>4 DEF PrepareHome, Answered, Raised

LEMMA ComposeRoomKeeps == ASSUME IInv, ComposeRoom PROVE IInv'
<1>0. /\ turn \in TurnRows /\ a \in Attempts /\ a \in Nat \ {0} /\ turn.at = a
      /\ port.session # 0 => port.session \in Attempts
      /\ \A i \in Attempts : a < i \/ i < a => i # a
  BY AtTyped DEF IInv
<1>1. /\ turn.pc = "room" /\ turn.pc \in Launching
      /\ UNCHANGED <<plan, credential, port, leak>>
  BY DEF ComposeRoom, Launching
<1>2. SiteGoes /\ site'[a].process = site[a].process
  BY DEF ComposeRoom, IInv, TypeOK, SiteGoes
<1>3. CASE Goes("spawn") /\ UNCHANGED <<chan, hindered>> /\ (Fine \/ Fault)
  <2>1. TurnStays /\ turn'.pc = "spawn" /\ UNCHANGED <<chan, hindered>>
    BY <1>0, <1>3, GoesOn DEF Pcs
  <2>2. TypeOK'
    BY <1>1, <1>2, <1>3, <2>1, FaultsTyped DEF IInv, TypeOK, TurnStays, SiteGoes
  <2>21. Staged'
    BY <1>0, <1>1, <1>2, <2>1
      DEF IInv, RunInv, Staged, Untouched, Worker, Bare, NoChan, Launching, Closing, a,
        SiteGoes, TurnStays
  <2>22. Fresh'
    BY <1>0, <1>1, <1>2, <2>1
      DEF IInv, RunInv, Staged, Fresh, Launching, Closing, SiteGoes, TurnStays
  <2>23. Credentials'
    BY <1>0, <1>1, <1>2, <2>1
      DEF IInv, RunInv, Staged, Untouched, NoChan, Credentials, Searched, Worker,
        Launching, a, SiteGoes, TurnStays
  <2>24. Left'
    BY <1>0, <1>1, <1>2, <2>1
      DEF IInv, RunInv, Staged, Left, Worker, Launching, Closing, a, SiteGoes, TurnStays
  <2>25. SecretsAreSwept'
    BY <1>0, <1>1, <1>2, <2>1
      DEF IInv, Promises, RunInv, Staged, Launching, Untouched, Bare, SecretsAreSwept, a,
        SiteGoes, TurnStays
  <2>26. CompletedIsClean'
    BY <1>0, <1>1, <1>2, <2>1
      DEF IInv, Promises, RunInv, Left, CompletedIsClean, Worker, a, SiteGoes, TurnStays
  <2>27. ReplayIsNotAnswer'
    BY <1>0, <1>1, <1>2, <2>1
      DEF IInv, Promises, ReplayIsNotAnswer, SiteGoes, TurnStays
  <2>. QED
    BY <2>2, <2>21, <2>22, <2>23, <2>24, <2>25, <2>26, <2>27
      DEF IInv, RunInv, Promises
<1>4. CASE LaunchRaises /\ (Fine \/ Fault)
  BY <1>1, <1>2, <1>4, LaunchFails
<1>. QED
  BY <1>3, <1>4 DEF ComposeRoom

LEMMA SpawnKeeps == ASSUME IInv, Spawn PROVE IInv'
<1>0. /\ turn \in TurnRows /\ a \in Attempts /\ a \in Nat \ {0} /\ turn.at = a
      /\ port.session # 0 => port.session \in Attempts
      /\ \A i \in Attempts : a < i \/ i < a => i # a
  BY AtTyped DEF IInv
<1>1. /\ turn.pc = "spawn" /\ Worker /\ UNCHANGED <<plan, credential, port, leak, hindered>>
      /\ Fine \/ Fault
  BY DEF Spawn, Answered, Raised
<1>3. CASE /\ Goes("handshake") /\ chan' = [chan EXCEPT ![a].lease = "kept", ![a].stage = "open"]
           /\ site' = [site EXCEPT ![a].process = "running"]
  <2>1. TurnStays /\ turn'.pc = "handshake"
    BY <1>0, <1>3, GoesOn DEF Pcs
  <2>3. ChanGoes("open") /\ SiteGoes /\ site'[a].secret = site[a].secret
    BY <1>3, ChanOpen, SiteStaged DEF IInv
  <2>2. TypeOK'
    BY <1>1, <2>1, <2>3, FaultsTyped DEF IInv, TypeOK, TurnStays, SiteGoes, ChanGoes
  <2>21. Staged'
    BY <1>0, <1>1, <2>1, <2>3
      DEF IInv, RunInv, Staged, Untouched, Worker, Bare, NoChan, Launching, Closing, a,
        SiteGoes, ChanGoes, TurnStays
  <2>22. Fresh'
    BY <1>0, <1>1, <2>1, <2>3
      DEF IInv, RunInv, Staged, Fresh, Launching, Closing, SiteGoes, ChanGoes, TurnStays
  <2>23. Credentials'
    BY <1>0, <1>1, <2>1, <2>3
      DEF IInv, RunInv, Staged, Untouched, NoChan, Credentials, Searched, Worker,
        Launching, a, SiteGoes, ChanGoes, TurnStays
  <2>24. Left'
    BY <1>0, <1>1, <2>1, <2>3
      DEF IInv, RunInv, Staged, Left, Worker, Launching, Closing, a, SiteGoes, ChanGoes,
        TurnStays
  <2>25. SecretsAreSwept'
    BY <1>0, <1>1, <2>1, <2>3
      DEF IInv, Promises, RunInv, Staged, Launching, Untouched, Bare, SecretsAreSwept, a,
        SiteGoes, ChanGoes, TurnStays
  <2>26. CompletedIsClean'
    BY <1>0, <1>1, <2>1, <2>3
      DEF IInv, Promises, RunInv, Left, CompletedIsClean, Worker, a, SiteGoes, ChanGoes,
        TurnStays
  <2>27. ReplayIsNotAnswer'
    BY <1>0, <1>1, <2>1, <2>3
      DEF IInv, Promises, ReplayIsNotAnswer, SiteGoes, ChanGoes, TurnStays
  <2>. QED
    BY <2>2, <2>21, <2>22, <2>23, <2>24, <2>25, <2>26, <2>27
      DEF IInv, RunInv, Promises
<1>4. CASE /\ Goes("unwind") /\ chan' = [chan EXCEPT ![a].lease = "kept"]
           /\ UNCHANGED site \/ site' = [site EXCEPT ![a].process = "running"]
  <2>1. TurnStays /\ turn'.pc = "unwind"
    BY <1>0, <1>4, GoesOn DEF Pcs
  <2>3. ChanGoes(chan[a].stage)
    BY <1>0, <1>4 DEF IInv, TypeOK, Chans, ChanGoes
  <2>4. SiteGoes /\ site'[a].secret = site[a].secret
    <3>1. CASE UNCHANGED site
      BY <3>1 DEF IInv, TypeOK, SiteGoes
    <3>2. CASE site' = [site EXCEPT ![a].process = "running"]
      BY <3>2, SiteStaged DEF IInv
    <3>. QED  BY <1>4, <3>1, <3>2
  <2>2. TypeOK'
    BY <1>1, <2>1, <2>3, <2>4, FaultsTyped DEF IInv, TypeOK, TurnStays, SiteGoes, ChanGoes
  <2>21. Staged'
    BY <1>0, <1>1, <2>1, <2>3, <2>4
      DEF IInv, RunInv, Staged, Untouched, Worker, Bare, NoChan, Launching, Closing, a,
        SiteGoes, ChanGoes, TurnStays
  <2>22. Fresh'
    BY <1>0, <1>1, <2>1, <2>3, <2>4
      DEF IInv, RunInv, Staged, Fresh, Launching, Closing, SiteGoes, ChanGoes, TurnStays
  <2>23. Credentials'
    BY <1>0, <1>1, <2>1, <2>3, <2>4
      DEF IInv, RunInv, Staged, Untouched, NoChan, Credentials, Searched, Worker,
        Launching, a, SiteGoes, ChanGoes, TurnStays
  <2>24. Left'
    BY <1>0, <1>1, <2>1, <2>3, <2>4
      DEF IInv, RunInv, Staged, Left, Worker, Launching, Closing, a, SiteGoes, ChanGoes,
        TurnStays
  <2>25. SecretsAreSwept'
    BY <1>0, <1>1, <2>1, <2>3, <2>4
      DEF IInv, Promises, RunInv, Staged, Launching, Untouched, Bare, SecretsAreSwept, a,
        SiteGoes, ChanGoes, TurnStays
  <2>26. CompletedIsClean'
    BY <1>0, <1>1, <2>1, <2>3, <2>4
      DEF IInv, Promises, RunInv, Left, CompletedIsClean, Worker, a, SiteGoes, ChanGoes,
        TurnStays
  <2>27. ReplayIsNotAnswer'
    BY <1>0, <1>1, <2>1, <2>3, <2>4
      DEF IInv, Promises, ReplayIsNotAnswer, SiteGoes, ChanGoes, TurnStays
  <2>. QED
    BY <2>2, <2>21, <2>22, <2>23, <2>24, <2>25, <2>26, <2>27
      DEF IInv, RunInv, Promises
<1>. QED  BY <1>3, <1>4 DEF Spawn

LEMMA PopenKeeps == ASSUME IInv, Popen PROVE IInv'
<1>0. /\ turn \in TurnRows /\ a \in Attempts /\ a \in Nat \ {0} /\ turn.at = a
      /\ port.session # 0 => port.session \in Attempts
      /\ \A i \in Attempts : a < i \/ i < a => i # a
  BY AtTyped DEF IInv
<1>1. /\ turn.pc = "spawn" /\ ~Worker /\ UNCHANGED <<plan, credential, port, leak, hindered>>
      /\ Fine \/ Fault
  BY DEF Popen
<1>3. CASE /\ Goes("handshake") /\ chan' = [chan EXCEPT ![a].stage = "open"]
           /\ site' = [site EXCEPT ![a].process = "running"]
  <2>1. TurnStays /\ turn'.pc = "handshake"
    BY <1>0, <1>3, GoesOn DEF Pcs
  <2>3. ChanGoes("open") /\ SiteGoes /\ site'[a].secret = site[a].secret
    BY <1>3, ChanOpen, SiteStaged DEF IInv
  <2>2. TypeOK'
    BY <1>1, <2>1, <2>3, FaultsTyped DEF IInv, TypeOK, TurnStays, SiteGoes, ChanGoes
  <2>21. Staged'
    BY <1>0, <1>1, <2>1, <2>3
      DEF IInv, RunInv, Staged, Untouched, Worker, Bare, NoChan, Launching, Closing, a,
        SiteGoes, ChanGoes, TurnStays
  <2>22. Fresh'
    BY <1>0, <1>1, <2>1, <2>3
      DEF IInv, RunInv, Staged, Fresh, Launching, Closing, SiteGoes, ChanGoes, TurnStays
  <2>23. Credentials'
    BY <1>0, <1>1, <2>1, <2>3
      DEF IInv, RunInv, Staged, Untouched, NoChan, Credentials, Searched, Worker,
        Launching, a, SiteGoes, ChanGoes, TurnStays
  <2>24. Left'
    BY <1>0, <1>1, <2>1, <2>3
      DEF IInv, RunInv, Staged, Left, Worker, Launching, Closing, a, SiteGoes, ChanGoes,
        TurnStays
  <2>25. SecretsAreSwept'
    BY <1>0, <1>1, <2>1, <2>3
      DEF IInv, Promises, RunInv, Staged, Launching, Untouched, Bare, SecretsAreSwept, a,
        SiteGoes, ChanGoes, TurnStays
  <2>26. CompletedIsClean'
    BY <1>0, <1>1, <2>1, <2>3
      DEF IInv, Promises, RunInv, Left, CompletedIsClean, Worker, a, SiteGoes, ChanGoes,
        TurnStays
  <2>27. ReplayIsNotAnswer'
    BY <1>0, <1>1, <2>1, <2>3
      DEF IInv, Promises, ReplayIsNotAnswer, SiteGoes, ChanGoes, TurnStays
  <2>. QED
    BY <2>2, <2>21, <2>22, <2>23, <2>24, <2>25, <2>26, <2>27
      DEF IInv, RunInv, Promises
<1>4. CASE /\ OpenRaises /\ chan' = [chan EXCEPT ![a].stage = "gone"]
           /\ site' = [site EXCEPT ![a] = Bare]
  <2>1. /\ turn' \in TurnRows
      /\ turn'.at = turn.at /\ turn'.after = turn.after /\ turn'.parts = turn.parts
      /\ turn'.truncated = turn.truncated
      /\ \/ turn'.pc = "done" /\ turn'.end = turn.end
         \/ turn'.pc = "over" /\ turn'.end = "failed"
    BY <1>0, <1>4, OpenFails
  <2>3. ChanGoes("gone")
    BY <1>4, ChanGone DEF IInv
  <2>4. SiteGoes /\ site'[a] = Bare
    BY <1>0, <1>4 DEF IInv, TypeOK, Sites, Bare, SiteGoes
  <2>2. TypeOK'
    BY <1>1, <2>1, <2>3, <2>4, FaultsTyped DEF IInv, TypeOK, SiteGoes, ChanGoes
  <2>21. Staged'
    BY <1>0, <1>1, <2>1, <2>3, <2>4
      DEF IInv, RunInv, Staged, Untouched, Worker, Bare, NoChan, Launching, Closing, a,
        SiteGoes, ChanGoes
  <2>22. Fresh'
    BY <1>0, <1>1, <2>1, <2>3, <2>4
      DEF IInv, RunInv, Staged, Fresh, Launching, Closing, SiteGoes, ChanGoes
  <2>23. Credentials'
    BY <1>0, <1>1, <2>1, <2>3, <2>4
      DEF IInv, RunInv, Staged, Untouched, NoChan, Credentials, Searched, Worker,
        Launching, a, SiteGoes, ChanGoes
  <2>24. Left'
    BY <1>0, <1>1, <2>1, <2>3, <2>4
      DEF IInv, RunInv, Staged, Left, Worker, Launching, Closing, a, SiteGoes, ChanGoes
  <2>25. SecretsAreSwept'
    BY <1>0, <1>1, <2>1, <2>3, <2>4
      DEF IInv, Promises, RunInv, Staged, Launching, Untouched, Bare, SecretsAreSwept, a,
        SiteGoes, ChanGoes
  <2>26. CompletedIsClean'
    BY <1>0, <1>1, <2>1, <2>3, <2>4
      DEF IInv, Promises, RunInv, Left, CompletedIsClean, Worker, a, SiteGoes, ChanGoes
  <2>27. ReplayIsNotAnswer'
    BY <1>0, <1>1, <2>1, <2>3, <2>4
      DEF IInv, Promises, ReplayIsNotAnswer, SiteGoes, ChanGoes
  <2>. QED
    BY <2>2, <2>21, <2>22, <2>23, <2>24, <2>25, <2>26, <2>27
      DEF IInv, RunInv, Promises
<1>. QED  BY <1>3, <1>4 DEF Popen

LEMMA UnwindKeeps == ASSUME IInv, Unwind PROVE IInv'
<1>0. /\ turn \in TurnRows /\ a \in Attempts /\ a \in Nat \ {0} /\ turn.at = a
      /\ port.session # 0 => port.session \in Attempts
      /\ \A i \in Attempts : a < i \/ i < a => i # a
  BY AtTyped DEF IInv
<1>1. /\ turn.pc = "unwind" /\ UNCHANGED <<plan, credential, port, leak>>
  BY DEF Unwind
<1>3. /\ turn' \in TurnRows
      /\ turn'.at = turn.at /\ turn'.after = turn.after /\ turn'.parts = turn.parts
      /\ turn'.truncated = turn.truncated
      /\ \/ turn'.pc = "done" /\ turn'.end = turn.end
         \/ turn'.pc = "over" /\ turn'.end = "failed"
  BY <1>0, OpenFails DEF Unwind
<1>4. ChanGoes("gone")
  BY ChanReleased DEF Unwind, IInv
<1>5. /\ SiteGoes /\ site'[a].process = site[a].process
      /\ site'[a].secret => a \in hindered'
      /\ hindered \subseteq hindered' /\ hindered' \subseteq Attempts
      /\ Fine \/ Fault
  BY SiteSwept DEF Unwind, IInv
<1>2. TypeOK'
  BY <1>1, <1>3, <1>4, <1>5, FaultsTyped DEF IInv, TypeOK, SiteGoes, ChanGoes
<1>21. Staged'
  BY <1>0, <1>1, <1>3, <1>4, <1>5
    DEF IInv, RunInv, Staged, Untouched, Worker, Bare, NoChan, Launching, Closing, a,
      SiteGoes, ChanGoes
<1>22. Fresh'
  BY <1>0, <1>1, <1>3, <1>4, <1>5
    DEF IInv, RunInv, Staged, Fresh, Launching, Closing, SiteGoes, ChanGoes
<1>23. Credentials'
  BY <1>0, <1>1, <1>3, <1>4, <1>5
    DEF IInv, RunInv, Staged, Untouched, NoChan, Credentials, Searched, Worker, Launching,
      a, SiteGoes, ChanGoes
<1>24. Left'
  BY <1>0, <1>1, <1>3, <1>4, <1>5
    DEF IInv, RunInv, Staged, Left, Worker, Launching, Closing, a, SiteGoes, ChanGoes
<1>25. SecretsAreSwept'
  BY <1>0, <1>1, <1>3, <1>4, <1>5
    DEF IInv, Promises, RunInv, Staged, Launching, Untouched, Bare, SecretsAreSwept, a,
      SiteGoes, ChanGoes
<1>26. CompletedIsClean'
  BY <1>0, <1>1, <1>3, <1>4, <1>5
    DEF IInv, Promises, RunInv, Left, CompletedIsClean, Worker, a, SiteGoes, ChanGoes
<1>27. ReplayIsNotAnswer'
  BY <1>0, <1>1, <1>3, <1>4, <1>5
    DEF IInv, Promises, ReplayIsNotAnswer, SiteGoes, ChanGoes
<1>. QED
  BY <1>2, <1>21, <1>22, <1>23, <1>24, <1>25, <1>26, <1>27
    DEF IInv, RunInv, Promises

LEMMA HandshakeKeeps == ASSUME IInv, Handshake PROVE IInv'
<1>0. /\ turn \in TurnRows /\ a \in Attempts /\ a \in Nat \ {0} /\ turn.at = a
      /\ port.session # 0 => port.session \in Attempts
      /\ \A i \in Attempts : a < i \/ i < a => i # a
  BY AtTyped DEF IInv
<1>1. /\ turn.pc = "handshake" /\ (Fine \/ Fault)
      /\ UNCHANGED <<plan, credential, site, chan, leak, hindered>>
  BY DEF Handshake
<1>3. CASE /\ turn' = [turn EXCEPT !.pc = "prompt", !.opened = TRUE]
           /\ port' = [port EXCEPT !.session = a]
  <2>1. TurnStays /\ turn'.pc = "prompt"
    BY <1>0, <1>3 DEF TurnRows, TurnStays
  <2>3. port' \in Sessions /\ port'.session = a /\ port'.prompted = port.prompted
    BY <1>0, <1>3, RunAssumption DEF IInv, TypeOK, Sessions, Attempts
  <2>2. TypeOK'
    BY <1>1, <2>1, <2>3, FaultsTyped DEF IInv, TypeOK, TurnStays
  <2>21. Staged'
    BY <1>0, <1>1, <2>1, <2>3
      DEF IInv, RunInv, Staged, Untouched, Worker, Bare, NoChan, Launching, Closing, a,
        TurnStays
  <2>22. Fresh'
    BY <1>0, <1>1, <2>1, <2>3
      DEF IInv, RunInv, Staged, Fresh, Launching, Closing, TurnStays
  <2>23. Credentials'
    BY <1>0, <1>1, <2>1, <2>3
      DEF IInv, RunInv, Staged, Untouched, NoChan, Credentials, Searched, Worker,
        Launching, a, TurnStays
  <2>24. Left'
    BY <1>0, <1>1, <2>1, <2>3
      DEF IInv, RunInv, Staged, Left, Worker, Launching, Closing, a, TurnStays
  <2>25. SecretsAreSwept'
    BY <1>0, <1>1, <2>1, <2>3
      DEF IInv, Promises, RunInv, Staged, Launching, Untouched, Bare, SecretsAreSwept, a,
        TurnStays
  <2>26. CompletedIsClean'
    BY <1>0, <1>1, <2>1, <2>3
      DEF IInv, Promises, RunInv, Left, CompletedIsClean, Worker, a, TurnStays
  <2>27. ReplayIsNotAnswer'
    BY <1>0, <1>1, <2>1, <2>3
      DEF IInv, Promises, ReplayIsNotAnswer, TurnStays
  <2>. QED
    BY <2>2, <2>21, <2>22, <2>23, <2>24, <2>25, <2>26, <2>27
      DEF IInv, RunInv, Promises
<1>4. CASE turn' = [turn EXCEPT !.pc = "close", !.after = "raise"] /\ UNCHANGED port
  <2>1. /\ turn' \in TurnRows /\ turn'.pc = "close" /\ turn'.after = "raise"
        /\ turn'.at = turn.at /\ turn'.end = turn.end
        /\ turn'.truncated = turn.truncated /\ turn'.parts = turn.parts
    BY <1>0, <1>4 DEF TurnRows
  <2>2. TypeOK'
    BY <1>1, <1>4, <2>1, FaultsTyped DEF IInv, TypeOK
  <2>21. Staged'
    BY <1>0, <1>1, <1>4, <2>1
      DEF IInv, RunInv, Staged, Untouched, Worker, Bare, NoChan, Launching, Closing, a
  <2>22. Fresh'
    BY <1>0, <1>1, <1>4, <2>1
      DEF IInv, RunInv, Staged, Fresh, Launching, Closing
  <2>23. Credentials'
    BY <1>0, <1>1, <1>4, <2>1
      DEF IInv, RunInv, Staged, Untouched, NoChan, Credentials, Searched, Worker,
        Launching, a
  <2>24. Left'
    BY <1>0, <1>1, <1>4, <2>1
      DEF IInv, RunInv, Staged, Left, Worker, Launching, Closing, a
  <2>25. SecretsAreSwept'
    BY <1>0, <1>1, <1>4, <2>1
      DEF IInv, Promises, RunInv, Staged, Launching, Untouched, Bare, SecretsAreSwept, a
  <2>26. CompletedIsClean'
    BY <1>0, <1>1, <1>4, <2>1
      DEF IInv, Promises, RunInv, Left, CompletedIsClean, Worker, a
  <2>27. ReplayIsNotAnswer'
    BY <1>0, <1>1, <1>4, <2>1
      DEF IInv, Promises, ReplayIsNotAnswer
  <2>. QED
    BY <2>2, <2>21, <2>22, <2>23, <2>24, <2>25, <2>26, <2>27
      DEF IInv, RunInv, Promises
<1>. QED  BY <1>3, <1>4 DEF Handshake

LEMMA PromptKeeps == ASSUME IInv, Prompt PROVE IInv'
<1>0. /\ turn \in TurnRows /\ a \in Attempts /\ a \in Nat \ {0} /\ turn.at = a
      /\ port.session # 0 => port.session \in Attempts
      /\ \A i \in Attempts : a < i \/ i < a => i # a
  BY AtTyped DEF IInv
<1>1. /\ turn.pc = "prompt" /\ (Fine \/ Fault)
      /\ UNCHANGED <<plan, credential, site, chan, leak, hindered>>
  BY DEF Prompt, Raised
<1>3. TurnStays /\ turn'.pc \in {"waiting", "done"}
  <2>1. CASE Goes("waiting")
    BY <1>0, <2>1, GoesOn DEF Pcs
  <2>2. CASE turn' = [turn EXCEPT !.pc = "done", !.failed = TRUE]
    BY <1>0, <2>2 DEF TurnRows, TurnStays
  <2>. QED  BY <2>1, <2>2 DEF Prompt
<1>4. port' \in Sessions /\ port'.session = port.session
  BY DEF Prompt, IInv, TypeOK, Sessions
<1>2. TypeOK'
  BY <1>1, <1>3, <1>4, FaultsTyped DEF IInv, TypeOK, TurnStays
<1>21. Staged'
  BY <1>0, <1>1, <1>3, <1>4
    DEF IInv, RunInv, Staged, Untouched, Worker, Bare, NoChan, Launching, Closing, a,
      TurnStays
<1>22. Fresh'
  BY <1>0, <1>1, <1>3, <1>4
    DEF IInv, RunInv, Staged, Fresh, Launching, Closing, TurnStays
<1>23. Credentials'
  BY <1>0, <1>1, <1>3, <1>4
    DEF IInv, RunInv, Staged, Untouched, NoChan, Credentials, Searched, Worker, Launching,
      a, TurnStays
<1>24. Left'
  BY <1>0, <1>1, <1>3, <1>4
    DEF IInv, RunInv, Staged, Left, Worker, Launching, Closing, a, TurnStays
<1>25. SecretsAreSwept'
  BY <1>0, <1>1, <1>3, <1>4
    DEF IInv, Promises, RunInv, Staged, Launching, Untouched, Bare, SecretsAreSwept, a,
      TurnStays
<1>26. CompletedIsClean'
  BY <1>0, <1>1, <1>3, <1>4
    DEF IInv, Promises, RunInv, Left, CompletedIsClean, Worker, a, TurnStays
<1>27. ReplayIsNotAnswer'
  BY <1>0, <1>1, <1>3, <1>4
    DEF IInv, Promises, ReplayIsNotAnswer, TurnStays
<1>. QED
  BY <1>2, <1>21, <1>22, <1>23, <1>24, <1>25, <1>26, <1>27
    DEF IInv, RunInv, Promises

LEMMA WaitingKeeps == ASSUME IInv, (PromptAnswered \/ PromptRaises) PROVE IInv'
<1>0. /\ turn \in TurnRows /\ a \in Attempts /\ a \in Nat \ {0} /\ turn.at = a
      /\ port.session # 0 => port.session \in Attempts
      /\ \A i \in Attempts : a < i \/ i < a => i # a
  BY AtTyped DEF IInv
<1>1. /\ turn.pc = "waiting" /\ (Fine \/ Fault)
      /\ UNCHANGED <<plan, credential, site, chan, port, leak, hindered>>
  BY DEF PromptAnswered, PromptRaises
<1>3. TurnStays /\ turn'.pc = "done"
  <2>1. CASE Goes("done")
    BY <1>0, <2>1, GoesOn DEF Pcs
  <2>2. CASE turn' = [turn EXCEPT !.pc = "done", !.failed = TRUE]
    BY <1>0, <2>2 DEF TurnRows, TurnStays
  <2>. QED  BY <2>1, <2>2 DEF PromptAnswered, PromptRaises
<1>2. TypeOK'
  BY <1>1, <1>3, FaultsTyped DEF IInv, TypeOK, TurnStays
<1>21. Staged'
  BY <1>0, <1>1, <1>3
    DEF IInv, RunInv, Staged, Untouched, Worker, Bare, NoChan, Launching, Closing, a,
      TurnStays
<1>22. Fresh'
  BY <1>0, <1>1, <1>3
    DEF IInv, RunInv, Staged, Fresh, Launching, Closing, TurnStays
<1>23. Credentials'
  BY <1>0, <1>1, <1>3
    DEF IInv, RunInv, Staged, Untouched, NoChan, Credentials, Searched, Worker, Launching,
      a, TurnStays
<1>24. Left'
  BY <1>0, <1>1, <1>3
    DEF IInv, RunInv, Staged, Left, Worker, Launching, Closing, a, TurnStays
<1>25. SecretsAreSwept'
  BY <1>0, <1>1, <1>3
    DEF IInv, Promises, RunInv, Staged, Launching, Untouched, Bare, SecretsAreSwept, a,
      TurnStays
<1>26. CompletedIsClean'
  BY <1>0, <1>1, <1>3
    DEF IInv, Promises, RunInv, Left, CompletedIsClean, Worker, a, TurnStays
<1>27. ReplayIsNotAnswer'
  BY <1>0, <1>1, <1>3
    DEF IInv, Promises, ReplayIsNotAnswer, TurnStays
<1>. QED
  BY <1>2, <1>21, <1>22, <1>23, <1>24, <1>25, <1>26, <1>27
    DEF IInv, RunInv, Promises

LEMMA RebuildKeeps == ASSUME IInv, Rebuild PROVE IInv'
<1>0. /\ turn \in TurnRows /\ a \in Attempts /\ a \in Nat \ {0} /\ turn.at = a
      /\ port.session # 0 => port.session \in Attempts
      /\ \A i \in Attempts : a < i \/ i < a => i # a
  BY AtTyped DEF IInv
<1>1. /\ turn.pc = "waiting" /\ a <= RebuildLimit /\ Fine
      /\ UNCHANGED <<plan, credential, site, chan, leak, hindered>>
  BY DEF Rebuild
<1>3. /\ turn' \in TurnRows /\ turn'.pc = "close" /\ turn'.after = "reopen"
      /\ turn'.at = turn.at /\ turn'.end = turn.end
      /\ turn'.truncated = turn.truncated /\ turn'.parts = turn.parts
  BY <1>0 DEF Rebuild, TurnRows
<1>4. port' \in Sessions /\ port'.session = 0 /\ ~port'.prompted
  BY RunAssumption DEF Rebuild, Popped, NoSession, Sessions
<1>2. TypeOK'
  BY <1>1, <1>3, <1>4, FaultsTyped DEF IInv, TypeOK
<1>21. Staged'
  BY <1>0, <1>1, <1>3, <1>4
    DEF IInv, RunInv, Staged, Untouched, Worker, Bare, NoChan, Launching, Closing, a
<1>22. Fresh'
  BY <1>0, <1>1, <1>3, <1>4
    DEF IInv, RunInv, Staged, Fresh, Launching, Closing
<1>23. Credentials'
  BY <1>0, <1>1, <1>3, <1>4
    DEF IInv, RunInv, Staged, Untouched, NoChan, Credentials, Searched, Worker, Launching,
      a
<1>24. Left'
  BY <1>0, <1>1, <1>3, <1>4
    DEF IInv, RunInv, Staged, Left, Worker, Launching, Closing, a
<1>25. SecretsAreSwept'
  BY <1>0, <1>1, <1>3, <1>4
    DEF IInv, Promises, RunInv, Staged, Launching, Untouched, Bare, SecretsAreSwept, a
<1>26. CompletedIsClean'
  BY <1>0, <1>1, <1>3, <1>4
    DEF IInv, Promises, RunInv, Left, CompletedIsClean, Worker, a
<1>27. ReplayIsNotAnswer'
  BY <1>0, <1>1, <1>3, <1>4
    DEF IInv, Promises, ReplayIsNotAnswer
<1>. QED
  BY <1>2, <1>21, <1>22, <1>23, <1>24, <1>25, <1>26, <1>27
    DEF IInv, RunInv, Promises

LEMMA CompleteKeeps == ASSUME IInv, Complete PROVE IInv'
<1>0. /\ turn \in TurnRows /\ a \in Attempts /\ a \in Nat \ {0} /\ turn.at = a
      /\ port.session # 0 => port.session \in Attempts
      /\ \A i \in Attempts : a < i \/ i < a => i # a
  BY AtTyped DEF IInv
<1>1. /\ turn.pc = "done" /\ Fine
      /\ UNCHANGED <<plan, credential, site, chan, port, leak, hindered>>
  BY DEF Complete
<1>3. /\ turn' \in TurnRows /\ turn'.at = turn.at /\ turn'.parts = turn.parts
      /\ turn'.after = turn.after /\ turn'.truncated = turn.truncated
      /\ \/ turn'.pc = "capture" /\ turn'.end = "none"
         \/ turn'.pc = "pop" /\ turn'.end = "failed"
  <2>1. PICK cancelled \in BOOLEAN : turn' = [turn EXCEPT
              !.cancelled = cancelled,
              !.pc  = IF cancelled \/ ~turn.failed THEN "capture" ELSE "pop",
              !.end = IF cancelled \/ ~turn.failed THEN "none" ELSE "failed"]
    BY DEF Complete
  <2>2. CASE cancelled \/ ~turn.failed
    BY <1>0, <2>1, <2>2 DEF TurnRows
  <2>3. CASE ~(cancelled \/ ~turn.failed)
    BY <1>0, <2>1, <2>3 DEF TurnRows
  <2>. QED  BY <2>2, <2>3
<1>2. TypeOK'
  BY <1>1, <1>3, FaultsTyped DEF IInv, TypeOK
<1>21. Staged'
  BY <1>0, <1>1, <1>3
    DEF IInv, RunInv, Staged, Untouched, Worker, Bare, NoChan, Launching, Closing, a
<1>22. Fresh'
  BY <1>0, <1>1, <1>3
    DEF IInv, RunInv, Staged, Fresh, Launching, Closing
<1>23. Credentials'
  BY <1>0, <1>1, <1>3
    DEF IInv, RunInv, Staged, Untouched, NoChan, Credentials, Searched, Worker, Launching,
      a
<1>24. Left'
  BY <1>0, <1>1, <1>3
    DEF IInv, RunInv, Staged, Left, Worker, Launching, Closing, a
<1>25. SecretsAreSwept'
  BY <1>0, <1>1, <1>3
    DEF IInv, Promises, RunInv, Staged, Launching, Untouched, Bare, SecretsAreSwept, a
<1>26. CompletedIsClean'
  BY <1>0, <1>1, <1>3
    DEF IInv, Promises, RunInv, Left, CompletedIsClean, Worker, a
<1>27. ReplayIsNotAnswer'
  BY <1>0, <1>1, <1>3
    DEF IInv, Promises, ReplayIsNotAnswer
<1>. QED
  BY <1>2, <1>21, <1>22, <1>23, <1>24, <1>25, <1>26, <1>27
    DEF IInv, RunInv, Promises
\* The audit, or what keeps the turn from it, leaves it an end.
LEMMA Ends ==
  ASSUME turn \in TurnRows, NEW clean \in BOOLEAN, NEW truncated \in BOOLEAN,
         EndIf(clean, truncated)
  PROVE  /\ turn' \in TurnRows /\ turn'.pc = "pop" /\ turn'.truncated = truncated
         /\ turn'.at = turn.at /\ turn'.after = turn.after /\ turn'.parts = turn.parts
         /\ turn'.end = "completed" => clean
<1>1. CASE turn.cancelled
  BY <1>1 DEF EndIf, TurnRows
<1>2. CASE ~turn.cancelled /\ clean
  BY <1>2 DEF EndIf, TurnRows
<1>3. CASE ~turn.cancelled /\ ~clean
  BY <1>3 DEF EndIf, TurnRows
<1>. QED  BY <1>1, <1>2, <1>3

LEMMA CaptureKeeps == ASSUME IInv, Capture PROVE IInv'
<1>0. /\ turn \in TurnRows /\ a \in Attempts /\ a \in Nat \ {0} /\ turn.at = a
      /\ port.session # 0 => port.session \in Attempts
      /\ \A i \in Attempts : a < i \/ i < a => i # a
  BY AtTyped DEF IInv
<1>1. /\ turn.pc = "capture" /\ (Fine \/ Fault)
      /\ UNCHANGED <<plan, credential, site, port, leak, hindered>>
  BY DEF Capture
<1>3. CASE port.session = a /\ chan' = Flushed /\ Goes("audit")
  <2>1. TurnStays /\ turn'.pc = "audit"
    BY <1>0, <1>3, GoesOn DEF Pcs
  <2>3. /\ chan' \in [Attempts -> Chans] /\ chan'[a].flushed
        /\ chan'[a].stage = chan[a].stage /\ chan'[a].scan = chan[a].scan
        /\ \A j \in Attempts : j # a => chan'[j] = chan[j]
    BY <1>3, ChanFlushed DEF IInv
  <2>2. TypeOK'
    BY <1>1, <2>1, <2>3, FaultsTyped DEF IInv, TypeOK, TurnStays
  <2>21. Staged'
    BY <1>0, <1>1, <1>3, <2>1, <2>3
      DEF IInv, RunInv, Staged, Untouched, Worker, Bare, NoChan, Launching, Closing, a,
        TurnStays
  <2>22. Fresh'
    BY <1>0, <1>1, <1>3, <2>1, <2>3
      DEF IInv, RunInv, Staged, Fresh, Launching, Closing, TurnStays
  <2>23. Credentials'
    BY <1>0, <1>1, <1>3, <2>1, <2>3
      DEF IInv, RunInv, Staged, Untouched, NoChan, Credentials, Searched, Worker,
        Launching, a, TurnStays
  <2>24. Left'
    BY <1>0, <1>1, <1>3, <2>1, <2>3
      DEF IInv, RunInv, Staged, Left, Worker, Launching, Closing, a, TurnStays
  <2>25. SecretsAreSwept'
    BY <1>0, <1>1, <1>3, <2>1, <2>3
      DEF IInv, Promises, RunInv, Staged, Launching, Untouched, Bare, SecretsAreSwept, a,
        TurnStays
  <2>26. CompletedIsClean'
    BY <1>0, <1>1, <1>3, <2>1, <2>3
      DEF IInv, Promises, RunInv, Left, CompletedIsClean, Worker, a, TurnStays
  <2>27. ReplayIsNotAnswer'
    BY <1>0, <1>1, <1>3, <2>1, <2>3
      DEF IInv, Promises, ReplayIsNotAnswer, TurnStays
  <2>. QED
    BY <2>2, <2>21, <2>22, <2>23, <2>24, <2>25, <2>26, <2>27
      DEF IInv, RunInv, Promises
<1>4. CASE EndIf(FALSE, FALSE) /\ UNCHANGED chan
  <2>1. /\ turn' \in TurnRows /\ turn'.pc = "pop" /\ turn'.end # "completed"
        /\ turn'.at = turn.at /\ turn'.after = turn.after /\ turn'.parts = turn.parts
    BY <1>0, <1>4, Ends
  <2>2. TypeOK'
    BY <1>1, <1>4, <2>1, FaultsTyped DEF IInv, TypeOK
  <2>21. Staged'
    BY <1>0, <1>1, <1>4, <2>1
      DEF IInv, RunInv, Staged, Untouched, Worker, Bare, NoChan, Launching, Closing, a
  <2>22. Fresh'
    BY <1>0, <1>1, <1>4, <2>1
      DEF IInv, RunInv, Staged, Fresh, Launching, Closing
  <2>23. Credentials'
    BY <1>0, <1>1, <1>4, <2>1
      DEF IInv, RunInv, Staged, Untouched, NoChan, Credentials, Searched, Worker,
        Launching, a
  <2>24. Left'
    BY <1>0, <1>1, <1>4, <2>1
      DEF IInv, RunInv, Staged, Left, Worker, Launching, Closing, a
  <2>25. SecretsAreSwept'
    BY <1>0, <1>1, <1>4, <2>1
      DEF IInv, Promises, RunInv, Staged, Launching, Untouched, Bare, SecretsAreSwept, a
  <2>26. CompletedIsClean'
    BY <1>0, <1>1, <1>4, <2>1
      DEF IInv, Promises, RunInv, Left, CompletedIsClean, Worker, a
  <2>27. ReplayIsNotAnswer'
    BY <1>0, <1>1, <1>4, <2>1
      DEF IInv, Promises, ReplayIsNotAnswer
  <2>. QED
    BY <2>2, <2>21, <2>22, <2>23, <2>24, <2>25, <2>26, <2>27
      DEF IInv, RunInv, Promises
<1>. QED  BY <1>3, <1>4 DEF Capture

LEMMA AuditKeeps == ASSUME IInv, Audit PROVE IInv'
<1>0. /\ turn \in TurnRows /\ a \in Attempts /\ a \in Nat \ {0} /\ turn.at = a
      /\ port.session # 0 => port.session \in Attempts
      /\ \A i \in Attempts : a < i \/ i < a => i # a
  BY AtTyped DEF IInv
<1>1. /\ turn.pc = "audit" /\ (Fine \/ Fault) /\ leak' \in BOOLEAN
      /\ UNCHANGED <<plan, credential, site, chan, port, hindered>>
  BY DEF Audit, Answered, Raised, IInv, TypeOK
<1>3. /\ turn' \in TurnRows /\ turn'.pc = "pop"
      /\ turn'.at = turn.at /\ turn'.after = turn.after /\ turn'.parts = turn.parts
      /\ turn'.end = "completed" =>
            turn'.truncated \/ (~(leak /\ chan[a].scan) /\ UNCHANGED leak)
  <2>1. CASE ~Found /\ EndIf(TRUE, FALSE) /\ UNCHANGED leak
    BY <1>0, <2>1, Ends DEF Found
  <2>2. CASE EndIf(FALSE, FALSE)
    BY <1>0, <2>2, Ends
  <2>3. CASE EndIf(TRUE, TRUE)
    BY <1>0, <2>3, Ends
  <2>. QED  BY <2>1, <2>2, <2>3 DEF Audit
<1>2. TypeOK'
  BY <1>1, <1>3, FaultsTyped DEF IInv, TypeOK
<1>21. Staged'
  BY <1>0, <1>1, <1>3
    DEF IInv, RunInv, Staged, Untouched, Worker, Bare, NoChan, Launching, Closing, a
<1>22. Fresh'
  BY <1>0, <1>1, <1>3
    DEF IInv, RunInv, Staged, Fresh, Launching, Closing
<1>23. Credentials'
  BY <1>0, <1>1, <1>3
    DEF IInv, RunInv, Staged, Untouched, NoChan, Credentials, Searched, Worker, Launching,
      a
<1>24. Left'
  BY <1>0, <1>1, <1>3
    DEF IInv, RunInv, Staged, Left, Worker, Launching, Closing, a
<1>25. SecretsAreSwept'
  BY <1>0, <1>1, <1>3
    DEF IInv, Promises, RunInv, Staged, Launching, Untouched, Bare, SecretsAreSwept, a
<1>26. CompletedIsClean'
  <2> SUFFICES ASSUME turn'.end = "completed", leak', ~turn'.truncated
               PROVE  Worker /\ a > 1
    BY <1>0, <1>1, <1>3 DEF CompletedIsClean, Worker, a
  <2>1. port.session = a /\ ~chan[a].scan
    BY <1>1, <1>3 DEF IInv, RunInv, Left
  <2>2. ~Searched(a)
    BY <1>0, <2>1 DEF IInv, RunInv, Credentials
  <2>. QED  BY <1>0, <2>2 DEF Searched
<1>27. ReplayIsNotAnswer'
  BY <1>0, <1>1, <1>3
    DEF IInv, Promises, ReplayIsNotAnswer
<1>. QED
  BY <1>2, <1>21, <1>22, <1>23, <1>24, <1>25, <1>26, <1>27
    DEF IInv, RunInv, Promises

LEMMA CloseExecutionKeeps == ASSUME IInv, CloseExecution PROVE IInv'
<1>0. /\ turn \in TurnRows /\ a \in Attempts /\ a \in Nat \ {0} /\ turn.at = a
      /\ port.session # 0 => port.session \in Attempts
      /\ \A i \in Attempts : a < i \/ i < a => i # a
  BY AtTyped DEF IInv
<1>1. /\ turn.pc = "pop" /\ Fine
      /\ UNCHANGED <<plan, credential, site, chan, leak, hindered>>
  BY DEF CloseExecution
<1>3. /\ turn' \in TurnRows /\ turn'.pc \in {"over", "close"} /\ turn'.after = "retire"
      /\ turn'.at = turn.at /\ turn'.end = turn.end
      /\ turn'.truncated = turn.truncated /\ turn'.parts = turn.parts
  <2>1. CASE port.session = 0
    BY <1>0, <2>1 DEF CloseExecution, TurnRows
  <2>2. CASE port.session # 0
    BY <1>0, <2>2 DEF CloseExecution, TurnRows
  <2>. QED  BY <2>1, <2>2
<1>4. port' \in Sessions /\ port'.session = 0 /\ ~port'.prompted
  BY RunAssumption DEF CloseExecution, Popped, NoSession, Sessions
<1>2. TypeOK'
  BY <1>1, <1>3, <1>4, FaultsTyped DEF IInv, TypeOK
<1>21. Staged'
  BY <1>0, <1>1, <1>3, <1>4
    DEF IInv, RunInv, Staged, Untouched, Worker, Bare, NoChan, Launching, Closing, a
<1>22. Fresh'
  BY <1>0, <1>1, <1>3, <1>4
    DEF IInv, RunInv, Staged, Fresh, Launching, Closing
<1>23. Credentials'
  BY <1>0, <1>1, <1>3, <1>4
    DEF IInv, RunInv, Staged, Untouched, NoChan, Credentials, Searched, Worker, Launching,
      a
<1>24. Left'
  BY <1>0, <1>1, <1>3, <1>4
    DEF IInv, RunInv, Staged, Left, Worker, Launching, Closing, a
<1>25. SecretsAreSwept'
  BY <1>0, <1>1, <1>3, <1>4
    DEF IInv, Promises, RunInv, Staged, Launching, Untouched, Bare, SecretsAreSwept, a
<1>26. CompletedIsClean'
  BY <1>0, <1>1, <1>3, <1>4
    DEF IInv, Promises, RunInv, Left, CompletedIsClean, Worker, a
<1>27. ReplayIsNotAnswer'
  BY <1>0, <1>1, <1>3, <1>4
    DEF IInv, Promises, ReplayIsNotAnswer
<1>. QED
  BY <1>2, <1>21, <1>22, <1>23, <1>24, <1>25, <1>26, <1>27
    DEF IInv, RunInv, Promises
\* The close of an attempt that sweeps what it can, and hands the turn on.
LEMMA CloseKeeps ==
  ASSUME IInv, turn.pc \in Closing, NEW raised \in BOOLEAN, AfterClose(raised), chan' = Shut,
         UNCHANGED <<plan, credential, port, leak>>, SiteGoes, Fine \/ Fault,
         site'[a].secret => a \in hindered',
         hindered \subseteq hindered', hindered' \subseteq Attempts,
         \/ Worker /\ site'[a].process = site[a].process
         \/ ~Worker /\ site'[a].process = "ended"
  PROVE  IInv'
<1>0. /\ turn \in TurnRows /\ a \in Attempts /\ a \in Nat \ {0} /\ turn.at = a
      /\ port.session # 0 => port.session \in Attempts
      /\ \A i \in Attempts : a < i \/ i < a => i # a
  BY AtTyped DEF IInv
<1>1. /\ ChanGoes("gone")
      /\ turn.after = "reopen" => a <= RebuildLimit
  BY ChanShut DEF IInv, RunInv, Staged
<1>3. /\ turn' \in TurnRows
      /\ turn'.after = turn.after /\ turn'.parts = turn.parts
      /\ turn'.truncated = turn.truncated
      /\ \/ /\ turn'.at = turn.at
            /\ \/ turn.after = "retire" /\ turn'.pc = "over" /\ turn'.end = turn.end
               \/ turn'.pc = "over" /\ turn'.end = "failed"
               \/ turn.after # "retire" /\ turn'.pc = "done" /\ turn'.end = turn.end
         \/ /\ turn'.at = turn.at + 1 /\ turn'.pc = "launch"
            /\ turn'.end = turn.end /\ turn.after = "reopen"
  BY <1>0, <1>1, Closed
<1>2. TypeOK'
  BY <1>1, <1>3, FaultsTyped DEF IInv, TypeOK, SiteGoes, ChanGoes
<1>4. CASE turn'.at = turn.at /\ turn'.pc # "launch"
  <2>21. Staged'
    BY <1>0, <1>1, <1>3, <1>4
      DEF IInv, RunInv, Staged, Untouched, Worker, Bare, NoChan, Launching, Closing, a,
        SiteGoes, ChanGoes
  <2>22. Fresh'
    BY <1>0, <1>1, <1>3, <1>4
      DEF IInv, RunInv, Staged, Fresh, Launching, Closing, SiteGoes, ChanGoes
  <2>23. Credentials'
    BY <1>0, <1>1, <1>3, <1>4
      DEF IInv, RunInv, Staged, Untouched, NoChan, Credentials, Searched, Worker,
        Launching, a, SiteGoes, ChanGoes
  <2>24. Left'
    BY <1>0, <1>1, <1>3, <1>4
      DEF IInv, RunInv, Staged, Left, Worker, Launching, Closing, a, SiteGoes, ChanGoes
  <2>25. SecretsAreSwept'
    BY <1>0, <1>1, <1>3, <1>4
      DEF IInv, Promises, RunInv, Staged, Launching, Untouched, Bare, SecretsAreSwept, a,
        SiteGoes, ChanGoes
  <2>26. CompletedIsClean'
    BY <1>0, <1>1, <1>3, <1>4
      DEF IInv, Promises, RunInv, Left, CompletedIsClean, Worker, a, SiteGoes, ChanGoes
  <2>27. ReplayIsNotAnswer'
    BY <1>0, <1>1, <1>3, <1>4
      DEF IInv, Promises, ReplayIsNotAnswer, SiteGoes, ChanGoes
  <2>. QED
    BY <1>2, <2>21, <2>22, <2>23, <2>24, <2>25, <2>26, <2>27
    DEF IInv, RunInv, Promises
<1>5. CASE /\ turn'.at = turn.at + 1 /\ turn'.pc = "launch"
           /\ turn'.end = turn.end /\ turn.after = "reopen"
  <2>1. /\ a + 1 \in Attempts /\ a < a + 1 /\ a + 1 # a /\ a + 1 # 1
        /\ \A i \in Attempts : /\ a + 1 < i => a < i
                               /\ i < a + 1 => i < a \/ i = a
    BY <1>0, <1>1, <1>5, RunAssumption DEF Attempts
  <2>21. Staged'
    BY <1>0, <1>1, <1>3, <1>5, <2>1, ZenonT(60)
      DEF IInv, RunInv, Staged, Untouched, Worker, Bare, NoChan, Launching, Closing, a,
        SiteGoes, ChanGoes
  <2>22. Fresh'
    BY <1>0, <1>1, <1>3, <1>5, <2>1
      DEF IInv, RunInv, Staged, Fresh, Launching, Closing, SiteGoes, ChanGoes
  <2>23. Credentials'
    BY <1>0, <1>1, <1>3, <1>5, <2>1
      DEF IInv, RunInv, Staged, Untouched, NoChan, Credentials, Searched, Worker,
        Launching, a, SiteGoes, ChanGoes
  <2>24. Left'
    BY <1>0, <1>1, <1>3, <1>5, <2>1
      DEF IInv, RunInv, Staged, Left, Worker, Launching, Closing, a, SiteGoes, ChanGoes,
        Untouched, Bare
  <2>25. SecretsAreSwept'
    BY <1>0, <1>1, <1>3, <1>5, <2>1
      DEF IInv, Promises, RunInv, Staged, Launching, Untouched, Bare, SecretsAreSwept, a,
        SiteGoes, ChanGoes
  <2>26. CompletedIsClean'
    BY <1>0, <1>1, <1>3, <1>5, <2>1
      DEF IInv, Promises, RunInv, Left, CompletedIsClean, Worker, a, SiteGoes, ChanGoes
  <2>27. ReplayIsNotAnswer'
    BY <1>0, <1>1, <1>3, <1>5, <2>1
      DEF IInv, Promises, ReplayIsNotAnswer, SiteGoes, ChanGoes
  <2>. QED
    BY <1>2, <2>21, <2>22, <2>23, <2>24, <2>25, <2>26, <2>27
    DEF IInv, RunInv, Promises
<1>. QED  BY <1>3, <1>4, <1>5

LEMMA CloseStdinKeeps == ASSUME IInv, CloseStdin PROVE IInv'
<1>0. /\ turn \in TurnRows /\ a \in Attempts /\ a \in Nat \ {0} /\ turn.at = a
      /\ port.session # 0 => port.session \in Attempts
      /\ \A i \in Attempts : a < i \/ i < a => i # a
  BY AtTyped DEF IInv
<1>1. /\ turn.pc = "close" /\ turn.pc \in Closing /\ Worker
      /\ UNCHANGED <<plan, credential, site, port, leak>>
  BY DEF CloseStdin, Closing
<1>3. CASE /\ Goes("await") /\ Answered /\ UNCHANGED hindered
           /\ chan' = [chan EXCEPT ![a].stage = "closed"]
  <2>1. TurnStays /\ turn'.pc = "await"
    BY <1>0, <1>3, GoesOn DEF Pcs
  <2>3. ChanGoes("closed")
    BY <1>0, <1>3 DEF IInv, TypeOK, Chans, ChanGoes
  <2>2. TypeOK'
    BY <1>1, <1>3, <2>1, <2>3, FaultsTyped DEF Answered, IInv, TypeOK, TurnStays, ChanGoes
  <2>21. Staged'
    BY <1>0, <1>1, <1>3, <2>1, <2>3
      DEF IInv, RunInv, Staged, Untouched, Worker, Bare, NoChan, Launching, Closing, a,
        ChanGoes, TurnStays
  <2>22. Fresh'
    BY <1>0, <1>1, <1>3, <2>1, <2>3
      DEF IInv, RunInv, Staged, Fresh, Launching, Closing, ChanGoes, TurnStays
  <2>23. Credentials'
    BY <1>0, <1>1, <1>3, <2>1, <2>3
      DEF IInv, RunInv, Staged, Untouched, NoChan, Credentials, Searched, Worker,
        Launching, a, ChanGoes, TurnStays
  <2>24. Left'
    BY <1>0, <1>1, <1>3, <2>1, <2>3
      DEF IInv, RunInv, Staged, Left, Worker, Launching, Closing, a, ChanGoes, TurnStays
  <2>25. SecretsAreSwept'
    BY <1>0, <1>1, <1>3, <2>1, <2>3
      DEF IInv, Promises, RunInv, Staged, Launching, Untouched, Bare, SecretsAreSwept, a,
        ChanGoes, TurnStays
  <2>26. CompletedIsClean'
    BY <1>0, <1>1, <1>3, <2>1, <2>3
      DEF IInv, Promises, RunInv, Left, CompletedIsClean, Worker, a, ChanGoes, TurnStays
  <2>27. ReplayIsNotAnswer'
    BY <1>0, <1>1, <1>3, <2>1, <2>3
      DEF IInv, Promises, ReplayIsNotAnswer, ChanGoes, TurnStays
  <2>. QED
    BY <2>2, <2>21, <2>22, <2>23, <2>24, <2>25, <2>26, <2>27
      DEF IInv, RunInv, Promises
<1>4. CASE /\ Raised /\ AfterClose(TRUE) /\ chan' = Shut
           /\ hindered' = hindered \cup {a}
  <2>1. SiteGoes /\ (Fine \/ Fault) /\ hindered' \subseteq Attempts
    BY <1>0, <1>1, <1>4 DEF IInv, TypeOK, SiteGoes, Raised
  <2>. QED  BY <1>1, <1>4, <2>1, CloseKeeps
<1>. QED  BY <1>3, <1>4 DEF CloseStdin

LEMMA AwaitTerminalKeeps == ASSUME IInv, AwaitTerminal PROVE IInv'
<1>0. /\ turn \in TurnRows /\ a \in Attempts /\ a \in Nat \ {0} /\ turn.at = a
      /\ port.session # 0 => port.session \in Attempts
      /\ \A i \in Attempts : a < i \/ i < a => i # a
  BY AtTyped DEF IInv
<1>1. /\ turn.pc = "await" /\ (Fine \/ Fault)
      /\ UNCHANGED <<plan, credential, site, chan, port, leak, hindered>>
  BY DEF AwaitTerminal, Answered, Raised, Finally
<1>3. TurnStays /\ turn'.pc \in {"sweep", "sweep and raise"}
  <2>1. CASE Finally(FALSE)
    BY <1>0, <2>1 DEF Finally, TurnRows, TurnStays
  <2>2. CASE Finally(TRUE)
    BY <1>0, <2>2 DEF Finally, TurnRows, TurnStays
  <2>. QED  BY <2>1, <2>2 DEF AwaitTerminal
<1>2. TypeOK'
  BY <1>1, <1>3, FaultsTyped DEF IInv, TypeOK, TurnStays
<1>21. Staged'
  BY <1>0, <1>1, <1>3
    DEF IInv, RunInv, Staged, Untouched, Worker, Bare, NoChan, Launching, Closing, a,
      TurnStays
<1>22. Fresh'
  BY <1>0, <1>1, <1>3
    DEF IInv, RunInv, Staged, Fresh, Launching, Closing, TurnStays
<1>23. Credentials'
  BY <1>0, <1>1, <1>3
    DEF IInv, RunInv, Staged, Untouched, NoChan, Credentials, Searched, Worker, Launching,
      a, TurnStays
<1>24. Left'
  BY <1>0, <1>1, <1>3
    DEF IInv, RunInv, Staged, Left, Worker, Launching, Closing, a, TurnStays
<1>25. SecretsAreSwept'
  BY <1>0, <1>1, <1>3
    DEF IInv, Promises, RunInv, Staged, Launching, Untouched, Bare, SecretsAreSwept, a,
      TurnStays
<1>26. CompletedIsClean'
  BY <1>0, <1>1, <1>3
    DEF IInv, Promises, RunInv, Left, CompletedIsClean, Worker, a, TurnStays
<1>27. ReplayIsNotAnswer'
  BY <1>0, <1>1, <1>3
    DEF IInv, Promises, ReplayIsNotAnswer, TurnStays
<1>. QED
  BY <1>2, <1>21, <1>22, <1>23, <1>24, <1>25, <1>26, <1>27
    DEF IInv, RunInv, Promises
LEMMA SweepKeeps == ASSUME IInv, Sweep PROVE IInv'
<1>1. /\ turn.pc \in Closing /\ Worker /\ chan' = Shut /\ AfterClose(turn.pc = "sweep and raise")
      /\ UNCHANGED <<plan, credential, port, leak>>
  BY DEF Sweep, Closing, IInv, RunInv, Staged
<1>2. /\ SiteGoes /\ site'[a].process = site[a].process
      /\ site'[a].secret => a \in hindered'
      /\ hindered \subseteq hindered' /\ hindered' \subseteq Attempts
      /\ Fine \/ Fault
  BY SiteSwept DEF Sweep, IInv
<1>. QED  BY <1>1, <1>2, CloseKeeps

LEMMA CloseLocalKeeps == ASSUME IInv, CloseLocal PROVE IInv'
<1>0. /\ turn \in TurnRows /\ a \in Attempts /\ a \in Nat \ {0} /\ turn.at = a
      /\ port.session # 0 => port.session \in Attempts
      /\ \A i \in Attempts : a < i \/ i < a => i # a
  BY AtTyped DEF IInv
<1>1. /\ turn.pc \in Closing /\ ~Worker /\ chan' = Shut /\ AfterClose(FALSE)
      /\ UNCHANGED <<plan, credential, port, leak>>
      /\ Fine \/ Fault
      /\ hindered \subseteq hindered' /\ hindered' \subseteq Attempts
  BY <1>0 DEF CloseLocal, Closing, IInv, TypeOK
<1>2. SiteGoes /\ site'[a].process = "ended"
  <2>1. CASE site' = [site EXCEPT ![a] = [Bare EXCEPT !.process = "ended"]]
    BY <1>0, <2>1 DEF IInv, TypeOK, Sites, Bare, SiteGoes
  <2>2. CASE site' = [site EXCEPT ![a].process = "ended"]
    BY <1>0, <2>2 DEF IInv, TypeOK, Sites, SiteGoes
  <2>. QED  BY <2>1, <2>2 DEF CloseLocal
<1>3. site'[a].secret => a \in hindered'
  BY <1>0 DEF CloseLocal, IInv, TypeOK, Sites, Bare
<1>. QED  BY <1>1, <1>2, <1>3, CloseKeeps

LEMMA ProcessOver ==
  ASSUME IInv, NEW k \in Attempts, ProcessEnds(k) \/ LeaseExpires(k)
  PROVE  IInv'
<1>0. /\ turn \in TurnRows /\ a \in Attempts /\ a \in Nat \ {0} /\ turn.at = a
      /\ port.session # 0 => port.session \in Attempts
      /\ \A i \in Attempts : a < i \/ i < a => i # a
  BY AtTyped DEF IInv
<1>1. UNCHANGED <<plan, credential, chan, port, turn, leak, hindered, faults>>
  BY DEF ProcessEnds, LeaseExpires
<1>3. /\ site' \in [Attempts -> Sites] /\ site[k].process = "running"
      /\ site'[k].secret = site[k].secret /\ site'[k].process = "ended"
      /\ \A j \in Attempts : j # k => site'[j] = site[j]
  BY DEF ProcessEnds, LeaseExpires, IInv, TypeOK, Sites
<1>2. TypeOK'
  BY <1>1, <1>3 DEF IInv, TypeOK
<1>4. \A j \in Attempts : site[j] = Bare => site'[j] = Bare
  BY <1>3 DEF Bare
<1>21. Staged'
  BY <1>0, <1>1, <1>3, <1>4
    DEF IInv, RunInv, Staged, Untouched, Worker, Bare, NoChan, Launching, Closing, a
<1>22. Fresh'
  BY <1>0, <1>1, <1>3, <1>4
    DEF IInv, RunInv, Staged, Fresh, Launching, Closing
<1>23. Credentials'
  BY <1>0, <1>1, <1>3, <1>4
    DEF IInv, RunInv, Staged, Untouched, NoChan, Credentials, Searched, Worker, Launching,
      a
<1>24. Left'
  BY <1>0, <1>1, <1>3, <1>4
    DEF IInv, RunInv, Staged, Left, Worker, Launching, Closing, a
<1>25. SecretsAreSwept'
  BY <1>0, <1>1, <1>3, <1>4
    DEF IInv, Promises, RunInv, Staged, Launching, Untouched, Bare, SecretsAreSwept, a
<1>26. CompletedIsClean'
  BY <1>0, <1>1, <1>3, <1>4
    DEF IInv, Promises, RunInv, Left, CompletedIsClean, Worker, a
<1>27. ReplayIsNotAnswer'
  BY <1>0, <1>1, <1>3, <1>4
    DEF IInv, Promises, ReplayIsNotAnswer
<1>. QED
  BY <1>2, <1>21, <1>22, <1>23, <1>24, <1>25, <1>26, <1>27
    DEF IInv, RunInv, Promises

LEMMA ChannelRaces ==
  ASSUME IInv, NEW k \in Attempts, LinkDrops(k) \/ LeaseFails(k) \/ ReaderEnds(k)
  PROVE  IInv'
<1>0. /\ turn \in TurnRows /\ a \in Attempts /\ a \in Nat \ {0} /\ turn.at = a
      /\ port.session # 0 => port.session \in Attempts
      /\ \A i \in Attempts : a < i \/ i < a => i # a
  BY AtTyped DEF IInv
<1>1. UNCHANGED <<plan, credential, site, port, turn, leak, hindered>> /\ faults' \in 0..MaxFaults
  <2>1. Fine \/ Fault
    BY DEF LinkDrops, LeaseFails, ReaderEnds, Fine
  <2>. QED  BY <2>1, FaultsTyped DEF LinkDrops, LeaseFails, ReaderEnds, IInv, TypeOK
<1>3. ChansStay
  BY ChanRaces DEF IInv
<1>2. TypeOK'
  BY <1>1, <1>3 DEF IInv, TypeOK, ChansStay
<1>21. Staged'
  BY <1>0, <1>1, <1>3
    DEF IInv, RunInv, Staged, Untouched, Worker, Bare, NoChan, Launching, Closing, a,
      ChansStay
<1>22. Fresh'
  BY <1>0, <1>1, <1>3
    DEF IInv, RunInv, Staged, Fresh, Launching, Closing, ChansStay
<1>23. Credentials'
  BY <1>0, <1>1, <1>3
    DEF IInv, RunInv, Staged, Untouched, NoChan, Credentials, Searched, Worker, Launching,
      a, ChansStay
<1>24. Left'
  BY <1>0, <1>1, <1>3
    DEF IInv, RunInv, Staged, Left, Worker, Launching, Closing, a, ChansStay
<1>25. SecretsAreSwept'
  BY <1>0, <1>1, <1>3
    DEF IInv, Promises, RunInv, Staged, Launching, Untouched, Bare, SecretsAreSwept, a,
      ChansStay
<1>26. CompletedIsClean'
  BY <1>0, <1>1, <1>3
    DEF IInv, Promises, RunInv, Left, CompletedIsClean, Worker, a, ChansStay
<1>27. ReplayIsNotAnswer'
  BY <1>0, <1>1, <1>3
    DEF IInv, Promises, ReplayIsNotAnswer, ChansStay
<1>. QED
  BY <1>2, <1>21, <1>22, <1>23, <1>24, <1>25, <1>26, <1>27
    DEF IInv, RunInv, Promises

LEMMA DeltaKeeps ==
  ASSUME IInv, NEW k \in Attempts, Delta(k)
  PROVE  IInv'
<1>0. /\ turn \in TurnRows /\ a \in Attempts /\ a \in Nat \ {0} /\ turn.at = a
      /\ port.session # 0 => port.session \in Attempts
      /\ \A i \in Attempts : a < i \/ i < a => i # a
  BY AtTyped DEF IInv
<1>1. UNCHANGED <<plan, credential, site, chan, port, leak, hindered, faults>>
  BY DEF Delta
<1>3. PICK kind \in {"early", "answer"} :
          /\ kind = "early" => turn.pc \in {"handshake", "prompt"}
          /\ turn' = [turn EXCEPT !.parts = @ \cup {<<k, kind>>}]
  BY DEF Delta
<1>6. kind = "early" => plan.driver
  BY <1>3 DEF Delta, Taken, IInv, RunInv, Fresh, Launching
<1>4. (turn.parts \cup {<<k, kind>>}) \in SUBSET (Attempts \X {"early", "answer"})
  <2>1. turn.parts \in SUBSET (Attempts \X {"early", "answer"})
    BY <1>0 DEF TurnRows
  <2>2. <<k, kind>> \in Attempts \X {"early", "answer"}
    OBVIOUS
  <2>. QED  BY <2>1, <2>2
<1>5. /\ turn' \in TurnRows /\ turn'.pc = turn.pc /\ turn'.at = turn.at
      /\ turn'.after = turn.after /\ turn'.end = turn.end
      /\ turn'.truncated = turn.truncated
      /\ turn'.parts = turn.parts \cup {<<k, kind>>}
  BY <1>0, <1>3, <1>4 DEF TurnRows
<1>2. TypeOK'
  BY <1>1, <1>5 DEF IInv, TypeOK
<1>21. Staged'
  BY <1>0, <1>1, <1>5
    DEF IInv, RunInv, Staged, Untouched, Worker, Bare, NoChan, Launching, Closing, a
<1>22. Fresh'
  BY <1>0, <1>1, <1>5
    DEF IInv, RunInv, Staged, Fresh, Launching, Closing
<1>23. Credentials'
  BY <1>0, <1>1, <1>5
    DEF IInv, RunInv, Staged, Untouched, NoChan, Credentials, Searched, Worker, Launching,
      a
<1>24. Left'
  BY <1>0, <1>1, <1>5
    DEF IInv, RunInv, Staged, Left, Worker, Launching, Closing, a
<1>25. SecretsAreSwept'
  BY <1>0, <1>1, <1>5
    DEF IInv, Promises, RunInv, Staged, Launching, Untouched, Bare, SecretsAreSwept, a
<1>26. CompletedIsClean'
  BY <1>0, <1>1, <1>5
    DEF IInv, Promises, RunInv, Left, CompletedIsClean, Worker, a
<1>27. ReplayIsNotAnswer'
  BY <1>0, <1>1, <1>5, <1>6
    DEF IInv, Promises, ReplayIsNotAnswer
<1>. QED
  BY <1>2, <1>21, <1>22, <1>23, <1>24, <1>25, <1>26, <1>27
    DEF IInv, RunInv, Promises

LEMMA LeakKeeps ==
  ASSUME IInv, NEW k \in Attempts, HarnessLeaks(k)
  PROVE  IInv'
<1>0. /\ turn \in TurnRows /\ a \in Attempts /\ a \in Nat \ {0} /\ turn.at = a
      /\ port.session # 0 => port.session \in Attempts
      /\ \A i \in Attempts : a < i \/ i < a => i # a
  BY AtTyped DEF IInv
<1>1. /\ UNCHANGED <<plan, credential, site, chan, port, turn, hindered, faults>> /\ leak' = TRUE
      /\ site[k].process = "running" /\ ~chan[k].flushed
  BY DEF HarnessLeaks
<1>2. TypeOK'
  BY <1>1 DEF IInv, TypeOK
<1>3. k < a \/ k = a \/ a < k
  BY <1>0, RunAssumption DEF Attempts
<1>21. Staged'
  BY <1>0, <1>1, <1>3
    DEF IInv, RunInv, Staged, Untouched, Worker, Bare, NoChan, Launching, Closing, a
<1>22. Fresh'
  BY <1>0, <1>1, <1>3
    DEF IInv, RunInv, Staged, Fresh, Launching, Closing
<1>23. Credentials'
  BY <1>0, <1>1, <1>3
    DEF IInv, RunInv, Staged, Untouched, NoChan, Credentials, Searched, Worker, Launching,
      a
<1>24. Left'
  BY <1>0, <1>1, <1>3
    DEF IInv, RunInv, Staged, Left, Worker, Launching, Closing, a
<1>25. SecretsAreSwept'
  BY <1>0, <1>1, <1>3
    DEF IInv, Promises, RunInv, Staged, Launching, Untouched, Bare, SecretsAreSwept, a
<1>26. CompletedIsClean'
  <2> SUFFICES ASSUME turn.end = "completed" PROVE turn.truncated \/ (Worker /\ a > 1)
    BY <1>1 DEF CompletedIsClean, Worker, a
  <2>1. k # a
    BY <1>1 DEF IInv, RunInv, Left
  <2>2. ~(a < k)
    BY <1>1 DEF IInv, RunInv, Staged, Untouched, Bare
  <2>3. k < a /\ Worker
    BY <1>1, <1>3, <2>1, <2>2 DEF IInv, RunInv, Left
  <2>. QED  BY <1>0, <2>3, RunAssumption DEF Attempts
<1>27. ReplayIsNotAnswer'
  BY <1>0, <1>1, <1>3
    DEF IInv, Promises, ReplayIsNotAnswer
<1>. QED
  BY <1>2, <1>21, <1>22, <1>23, <1>24, <1>25, <1>26, <1>27
    DEF IInv, RunInv, Promises
-----------------------------------------------------------------------------
(* Theorems *)

LEMMA RunStarts == Init => IInv
<1> SUFFICES ASSUME Init PROVE IInv
  OBVIOUS
<1>1. TypeOK
  <2>1. 1 \in Attempts /\ 0 \in 0..MaxFaults /\ 0 \in 0..(RebuildLimit + 1)
    BY RunAssumption DEF Attempts
  <2>2. Bare \in Sites /\ NoChan \in Chans /\ NoSession \in Sessions
    BY <2>1 DEF Bare, Sites, NoChan, Chans, NoSession, Sessions
  <2>3. turn \in TurnRows
    BY <2>1 DEF Init, TurnRows
  <2>. QED  BY <2>1, <2>2, <2>3 DEF Init, TypeOK
<1>2. RunInv
  BY RunAssumption DEF Init, RunInv, Staged, Fresh, Credentials, Left, Untouched, Launching,
    Closing, Searched, Attempts, a, NoSession, Bare
<1>3. Promises
  BY DEF Init, Promises, SecretsAreSwept, CompletedIsClean, ReplayIsNotAnswer, NoChan
<1>. QED  BY <1>1, <1>2, <1>3 DEF IInv

LEMMA RunKeeps == IInv /\ [Next]_vars => IInv'
<1> SUFFICES ASSUME IInv, [Next]_vars PROVE IInv'
  OBVIOUS
<1>1. CASE Launch
  BY <1>1, ClientStartsKeeps, ClientRefusedKeeps, RootMadeKeeps, StageViewKeeps,
    PutSecretKeeps, PrepareHomeKeeps, ComposeRoomKeeps, SpawnKeeps, PopenKeeps, UnwindKeeps
    DEF Launch
<1>2. CASE Drive
  BY <1>2, HandshakeKeeps, PromptKeeps, WaitingKeeps, RebuildKeeps DEF Drive
<1>3. CASE Finish
  BY <1>3, CompleteKeeps, CaptureKeeps, AuditKeeps, CloseExecutionKeeps DEF Finish
<1>4. CASE Close
  BY <1>4, CloseStdinKeeps, AwaitTerminalKeeps, SweepKeeps, CloseLocalKeeps DEF Close
<1>5. ASSUME NEW k \in Attempts,
             \/ ProcessEnds(k) \/ LinkDrops(k) \/ LeaseFails(k) \/ LeaseExpires(k)
             \/ ReaderEnds(k) \/ Delta(k) \/ HarnessLeaks(k)
      PROVE  IInv'
  BY <1>5, ProcessOver, ChannelRaces, DeltaKeeps, LeakKeeps
<1>6. CASE UNCHANGED vars
  BY <1>6 DEF vars, IInv, TypeOK, RunInv, Promises, Staged, Fresh, Credentials, Left,
    Untouched, Searched, Worker, a, Bare, NoChan, SecretsAreSwept, CompletedIsClean,
    ReplayIsNotAnswer
<1>. QED  BY <1>1, <1>2, <1>3, <1>4, <1>5, <1>6 DEF Next, Turn

LEMMA RunHolds == Spec => []IInv
  BY RunStarts, RunKeeps, PTL DEF Spec

\* The turn, its attempts and their channels keep their types: the last rebuild that the
\* limit admits opens the last attempt there is (sidecar_backend.py:405-412).
THEOREM RunTypes == Spec => []TypeOK
  BY RunHolds, PTL DEF IInv

\* For any limit of rebuilds and any faults: where an attempt is over, the credential is
\* gone from its machine or its sweep was refused or never reached
\* (sidecar.py:596-609, 1017-1033).
THEOREM NoSecretStays == Spec => []SecretsAreSwept
  BY RunHolds, PTL DEF IInv, Promises

\* A turn that completed left no credential in the durable home, unless its audit says it
\* was truncated or a Worker's sidecar was rebuilt (sidecar_backend.py:923-926).
THEOREM CompletionIsClean == Spec => []CompletedIsClean
  BY RunHolds, PTL DEF IInv, Promises

\* Over ACP, stored history that an opening session plays back never becomes part of the
\* answer, however often the turn was rebuilt (sidecar.py:1302-1306, 1523, 1635-1650).
THEOREM NoReplayInAnswer == Spec => []ReplayIsNotAnswer
  BY RunHolds, PTL DEF IInv, Promises

-----------------------------------------------------------------------------
(* The first-run gate, for any turns, any libraries and any bound on the accepts that
   lose their run *)

\* A hold belongs to a library that has its event.
HeldIsRegistered == \A t \in Turns : hold[t] => event[Library[t]] # "none"

\* Nobody enters a library that is not ready but its owner.
EnteredReady ==
    \A u \in Turns : Inside(u) => hold[u] \/ event[Library[u]] = "set"

GateInv == GateTypeOK /\ HeldIsRegistered /\ OneFirstRun /\ EnteredReady

LEMMA GateKey == \A t \in Turns : Library[t] \in Libraries
BY GateAssumption

-----------------------------------------------------------------------------
(* What acquire and release do to the parts *)

\* acquire(u), with the stages the caller's thread leaves besides it.
LEMMA GateAcquireStep ==
    ASSUME GateInv, NEW u \in Turns, NEW at \in [Turns -> {"new", "waiting", "opening", "started",
               "running", "succession", "releasing", "over", "failed", "leaked"}],
           \A v \in Turns \ {u} : at[v] = stage[v] \/ at[v] = "succession",
           Acquired(u, at), UNCHANGED <<leaks, stops>>,
           successor' \in [Turns -> Turns \cup {NULL}]
    PROVE  GateInv'
<1> GateTypeOK /\ HeldIsRegistered /\ OneFirstRun /\ EnteredReady
  BY DEF GateInv
<1>1. CASE /\ event[Library[u]] = "none"
           /\ event' = [event EXCEPT ![Library[u]] = "unset"]
           /\ hold' = [hold EXCEPT ![u] = TRUE]
           /\ stage' = [at EXCEPT ![u] = "opening"]
  <2>1. GateTypeOK'
    BY <1>1 DEF GateTypeOK
  <2>2. \A v \in Turns : Library[v] = Library[u] => ~hold[v]
    BY <1>1 DEF HeldIsRegistered
  <2>3. HeldIsRegistered'
    BY <1>1, GateKey DEF HeldIsRegistered, GateTypeOK
  <2>4. OneFirstRun'
    BY <1>1, <2>2 DEF OneFirstRun, GateTypeOK
  <2>5. EnteredReady'
    BY <1>1, <2>2, GateKey DEF EnteredReady, Inside, GateTypeOK
  <2> QED BY <2>1, <2>3, <2>4, <2>5 DEF GateInv
<1>2. CASE /\ event[Library[u]] = "set"
           /\ stage' = [at EXCEPT ![u] = "opening"]
           /\ UNCHANGED <<event, hold>>
  <2>1. GateTypeOK'
    BY <1>2 DEF GateTypeOK
  <2>2. HeldIsRegistered' /\ OneFirstRun'
    BY <1>2 DEF HeldIsRegistered, OneFirstRun
  <2>3. EnteredReady'
    BY <1>2 DEF EnteredReady, Inside
  <2> QED BY <2>1, <2>2, <2>3 DEF GateInv
<1>3. CASE /\ event[Library[u]] = "unset"
           /\ stage' = [at EXCEPT ![u] = "waiting"]
           /\ UNCHANGED <<event, hold>>
  <2>1. GateTypeOK'
    BY <1>3 DEF GateTypeOK
  <2>2. HeldIsRegistered' /\ OneFirstRun'
    BY <1>3 DEF HeldIsRegistered, OneFirstRun
  <2>3. EnteredReady'
    BY <1>3 DEF EnteredReady, Inside
  <2> QED BY <2>1, <2>2, <2>3 DEF GateInv
<1> QED BY <1>1, <1>2, <1>3 DEF Acquired

\* release of any set of holds, while nobody enters.
LEMMA GateReleaseStep ==
    ASSUME GateInv, NEW ts \in SUBSET Turns, event' = ReleasedBy(ts), UNCHANGED hold, GateTypeOK',
           \A u \in Turns : Inside(u)' => Inside(u)
    PROVE  GateInv'
<1> HeldIsRegistered /\ OneFirstRun /\ EnteredReady
  BY DEF GateInv
<1>1. \A l \in Libraries : event'[l] = "set" \/ event'[l] = event[l]
  BY DEF ReleasedBy
<1>2. HeldIsRegistered' /\ EnteredReady'
  BY <1>1, GateKey DEF HeldIsRegistered, EnteredReady
<1>3. OneFirstRun'
  BY DEF OneFirstRun
<1> QED BY <1>2, <1>3 DEF GateInv

\* A step of the threads that leaves the gate alone and enters nothing but a
\* ready library.
LEMMA GateQuietStep ==
    ASSUME GateInv, UNCHANGED <<event, hold>>, GateTypeOK',
           \A u \in Turns : Inside(u)' => Inside(u) \/ event[Library[u]] = "set"
    PROVE  GateInv'
BY DEF GateInv, HeldIsRegistered, OneFirstRun, EnteredReady

-----------------------------------------------------------------------------
(* The invariant *)

LEMMA GateInvInit == GateInit => GateInv
BY GateAssumption DEF GateInit, GateInv, GateTypeOK, HeldIsRegistered, OneFirstRun, EnteredReady, Inside

LEMMA GateInvStep == GateInv /\ [GateNext]_gateVars => GateInv'
<1> SUFFICES ASSUME GateInv, [GateNext]_gateVars PROVE GateInv'
  OBVIOUS
<1> GateTypeOK
  BY DEF GateInv
<1>1. CASE UNCHANGED gateVars
  BY <1>1 DEF gateVars, GateInv, GateTypeOK, HeldIsRegistered, OneFirstRun, EnteredReady, Inside
<1>2. ASSUME NEW t \in Turns, Accept(t) PROVE GateInv'
  <2>1. Acquired(t, stage) /\ UNCHANGED <<successor, leaks, stops>>
    BY <1>2 DEF Accept
  <2> QED BY <2>1, GateAcquireStep DEF GateTypeOK
<1>3. ASSUME NEW t \in Turns, NEW u \in Turns, FinishAndAccept(t, u) PROVE GateInv'
  <2> DEFINE at == [stage EXCEPT ![t] = "succession"]
  <2>1. Acquired(u, at) /\ UNCHANGED <<leaks, stops>>
    BY <1>3 DEF FinishAndAccept
  <2>2. successor' \in [Turns -> Turns \cup {NULL}]
    BY <1>3 DEF FinishAndAccept, GateTypeOK
  <2>3. /\ at \in [Turns -> {"new", "waiting", "opening", "started", "running",
                             "succession", "releasing", "over", "failed", "leaked"}]
        /\ \A v \in Turns \ {u} : at[v] = stage[v] \/ at[v] = "succession"
    BY DEF GateTypeOK
  <2> QED BY <2>1, <2>2, <2>3, GateAcquireStep
<1>4. ASSUME NEW t \in Turns,
             \/ PassThrough(t) \/ WaitExpires(t) \/ OpenExecution(t) \/ Register(t)
             \/ AcceptFails(t) \/ FinishRun(t) \/ SuccessorAccepted(t)
      PROVE  GateInv'
  <2>1. UNCHANGED <<event, hold>>
    BY <1>4 DEF PassThrough, WaitExpires, OpenExecution, Register, AcceptFails, FinishRun,
                SuccessorAccepted
  <2>2. GateTypeOK'
    BY <1>4, GateAssumption, GateKey
       DEF GateTypeOK, PassThrough, WaitExpires, OpenExecution, Register, AcceptFails, FinishRun,
           SuccessorAccepted
  <2>3. \A u \in Turns : Inside(u)' => Inside(u) \/ event[Library[u]] = "set"
    BY <1>4 DEF GateTypeOK, Inside, PassThrough, WaitExpires, OpenExecution, Register,
                AcceptFails, FinishRun, SuccessorAccepted
  <2> QED BY <2>1, <2>2, <2>3, GateQuietStep
<1>5. ASSUME NEW t \in Turns, OpenFailsInside(t) \/ ReleaseHold(t) PROVE GateInv'
  <2>1. event' = ReleasedBy({t}) /\ UNCHANGED hold
    BY <1>5 DEF OpenFailsInside, ReleaseHold
  <2>2. GateTypeOK'
    BY <1>5, <2>1 DEF GateTypeOK, OpenFailsInside, ReleaseHold, ReleasedBy
  <2>3. \A u \in Turns : Inside(u)' => Inside(u)
    BY <1>5 DEF GateTypeOK, Inside, OpenFailsInside, ReleaseHold
  <2> QED BY <2>1, <2>2, <2>3, GateReleaseStep
<1>6. CASE StopRuntime
  <2>1. event' = ReleasedBy(Leftovers) /\ UNCHANGED <<hold, stage>> /\ Leftovers \subseteq Turns
    BY <1>6 DEF StopRuntime, Leftovers
  <2>2. GateTypeOK'
    BY <1>6, <2>1, GateAssumption DEF GateTypeOK, StopRuntime, ReleasedBy
  <2>3. \A u \in Turns : Inside(u)' => Inside(u)
    BY <2>1 DEF Inside
  <2> QED BY <2>1, <2>2, <2>3, GateReleaseStep
<1> QED BY <1>1, <1>2, <1>3, <1>4, <1>5, <1>6 DEF GateNext, Thread

LEMMA GateInvariance == GateSpec => []GateInv
BY GateInvInit, GateInvStep, PTL DEF GateSpec

-----------------------------------------------------------------------------
(* Theorems *)

\* The gate's table and the stages of accept() keep their types.
THEOREM GateTypes == GateSpec => []GateTypeOK
BY GateInvariance, PTL DEF GateInv

\* acquire hands out a library's exclusive hold once in the life of the process.
THEOREM OneHoldPerLibrary == GateSpec => []OneFirstRun
BY GateInvariance, PTL DEF GateInv

\* Until the first run of a library has ended, no other run is inside it: no wait,
\* expiry, failure, succession or shutdown opens a second way in.
THEOREM FirstRunAlone == GateSpec => []FirstRunIsExclusive
<1>1. GateInv => FirstRunIsExclusive
  BY GateKey DEF GateInv, OneFirstRun, EnteredReady, FirstRunIsExclusive
<1> QED BY <1>1, GateInvariance, PTL

=============================================================================
