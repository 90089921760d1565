# A formal model of the Ordessa server

This directory holds TLA+ specifications of the server in this repository: the
program that takes messages for sessions, runs each as a *turn* in a harness
process (a "sidecar"), and survives stops, failures and restarts while it does.
The specifications are translated from the code, checked with TLC on small
instances, and the results that matter most are proved with TLAPS for every value
of the constants. Paths below are relative to the repository; `pacthold/` stands for
`packages/pacthold/src/pacthold/` and `ordessa_server/` for
`apps/server/src/ordessa_server/`.

`PROJECT.json` lists every component, run, mutant, hazard and theorem, and maps each
definition to the lines it was translated from.

## 1. The system

The server is one Python process over one SQLite database. Requests arrive over
HTTP: REST requests run on threads of a pool; the wire protocol of named operations and
the bridge of the delegation tools are coroutines that call the services synchronously,
so the event loop executes one of them at a time; an ACP channel is opened over the wire
and relayed over a socket. A session belongs to a workspace and is bound to a *profile*
(a role: a harness family, configuration, permissions, and a home directory on a
placement). A message sent to a session either starts a turn at once or joins the
session's queue. A turn is dispatched to a sidecar on the profile's placement, local or
through a Worker on another machine, and a completion thread per turn persists how it
ended and takes the next message.

### 1.1 Components

**Session ledger** (`pacthold/service/sessions/repository.py`, `queue.py`,
`ordessa_server/idempotency.py`, tables in `pacthold/storage/database.py`).
*State:* the rows of sessions, profiles, turns, queue items and receipts. *Operations:*
`accept_intent` (wire sends: start or enqueue), `create_turn` (REST: start or
refuse), `withdraw`, `switch_profile`, both archives, `file_core_records`,
`set_turn_dispatch`, `complete_turn` (which also claims the successor),
`finish_cancelled`, `fail_turn`, and `seal_interrupted_turns` at startup; each inside
one `BEGIN IMMEDIATE` transaction. *Hard:* transactions of different threads in any
order; the same rule (one active turn, exclusive home) enforced on three paths;
columns that summarise other rows; a restart between any two transactions. *Correct
when:* one turn at a time per session and per exclusive home, the queue in order and
never stuck, every accepted request acted on once, terminal states final, summary
columns true.

**Session service** (`pacthold/service/sessions/service.py`, `facade.py`). Holds no
state. Reads the role, freezes its configuration into an object, calls the ledger, then
the filer of the work core, then the backend's `accept`; failures of the last two are
swallowed, since the acceptance already stands. Also `cancel_turn` and the cascade to
delegated children. *Hard:* a role read in several steps while it is edited; the cascade
over children that are being created.

**Run tracker** (`pacthold/execution/lifecycle.py`). *State:* tables of runs by
execution key and of business runs by turn, and cancel receipts, under one lock; a
cancel lock and flags per run. *Operations:* `submit`, `cancel_execution`, reads.
*Hard:* several stops race each other and the completion worker over two locks, with
an abort of up to ten seconds in between; a run is registered or retired at any of
these points. *Correct when:* one abort per run, an answer once recorded stays, a
prompt that was cut short is not reported as a success, every stop ends.

**First-run gate** (`pacthold/execution/first_run_lock.py`). *State:* an event per
(placement, family). *Operations:* `acquire`, `release`. *Hard:* the hold is taken on
one thread and released on another, or never; expiring waits. *Correct when:* the
first run of a shared library is alone in it and everybody else gets in afterwards.

**Sidecar backend** (`ordessa_server/execution/sidecar_backend.py`). The turn's
threads: `accept` (resolve, take the gate, open, start the prompt worker, record the
dispatch, register with the tracker, start the completion worker), `_complete` (wait
for the prompt, decide, persist the end, accept the successor, close, retire),
`_prompt_with_rebuild`, `stop`. It ties the ledger, the tracker, the gate, the work
core, the approvals and the sidecars together. *Hard:* several durable writes in sequence (the
work core's, then the ledger's), with handlers that turn an exception at any of them
into a failure of the turn. *Correct when:* the two records agree, every worker comes to
its end and gives back what it holds, and a shutdown leaves nobody writing.

**Sidecar envelope, ports and channels** (`ordessa_server/execution/sidecar.py`,
`local_channel.py`). A launcher stages a bundle, a credential and a home, and spawns the
process, on this machine or through a Worker; an envelope correlates JSON-line requests
on its channel; a port maps the operations of a turn to requests. *State:* the Worker's
attempts and leases, staged paths, the reader's slots, the port's session. *Hard:* any
request may fail, or happen and lose its answer; a rebuild under a running turn; a
credential that must not outlive its attempt. *Correct when:* no copy of the credential
and no process is left, no turn completes with the credential in its home, stored history
is not taken for an answer.

**Work core** (`pacthold/work_core/`). Works, executions, dispatches, projections,
finalizations and an event log, each with its own idempotency key. *Hard:* a crash
between the provider's start and its record; two callers that both read before either
writes. *Correct when:* an execution starts at most once, on inputs that are fixed
before, and its verdict and its outcome are true and final.

**Approvals** (`ordessa_server/approvals/records.py`). Requests of a harness for
permission, decided once by a user or invalidated by the turn's end; the decision is
delivered to the port after it was committed. *State:* the rows, the port's routes and
current turn, the backend's table of ports. *Operations:* `request`,
`register_approval`, `decide` and its delivery, `invalidate_for_execution`. *Hard:* the
channel's reader, the deciders and the turn's threads meet at one request, under three
different locks and a database. *Correct when:* the first decision stands, the harness
hears no other, and nothing a turn asked stays open after it.

**Delegation** (`ordessa_server/execution/delegation.py`). A subagent call of a
running turn makes a child session and a child turn, waits for its end on the event loop
and cancels it at a deadline. *Hard:* nested calls and approvals need the loop that the
outer call occupies; stops race the creation of children. *Correct when:* no role waits
for itself, a stop takes the whole family, the loop comes free.

**ACP channel** (`ordessa_server/acp_channel/`, with the plugin's access entry,
`plugins/harness/runtime/access-entry.mjs`). A client opens a channel to a Harness; the
channel has one run in the ledger. *State:* the registry's tables, a transport with its
release handshake and reader per connection. *Hard:* a release, the reader's report of an
exit and the shutdown all want to end one run, over three locks. *Correct when:*
"released" is said on proof only, an end is never missed, a shutdown leaves nothing.

**Accounts** (`ordessa_server/accounts/`). Login states of subscriptions: imported from
a file, materialised in the home of a turn, renewed there and copied back. *Hard:* the
secret store and the account's row share no transaction; turns overlap.

**Profiles, model configurations and assets** (`ordessa_server/profiles/`,
`model_configs/`, `assets/`). Versioned rows and content-addressed objects: what a role
is configured with, the providers it may refer to, the definitions bound to it. *Hard:*
they are edited while turns are accepted, delegated and launched, and no transaction
spans two of them. *Correct when:* a turn runs under one revision of its role, a child
under no more than its parent, references hold, launches project what was published.

**Events and their readers** (`_append_session_event` in the ledger's repository,
`ordessa_server/events/`, `wire/`, `transport/http/app.py`, and the desktop's client in
`plugins/connectors/ordessa/`). *State:* a log of rows per session, the notifier's
generation, a cursor and a socket per stream, what a client shows. *Operations:* append,
`notify`, `history.snapshot` with its cursors, the batches of the live stream, the retained
SSE route, `openSession`. *Hard:* a page and the stream that continues it are two requests;
openings overlap, and a stream is replaced while its frames are under way. *Correct when:*
a reader is shown every event once and in order, and sleeps on none.

**Wire protocol, HTTP transport, bootstrap** (`ordessa_server/wire/`,
`transport/http/app.py`, `bootstrap/runtime.py`). Parse, authorise, call the above;
assembly, startup and shutdown.

**The rest**: placements and ssh, usage and change-set readers, workspaces, the login
engine, hooks, the storage of objects, the extension host, capability selection, runtime
composition, the harness plugins' sidecars, the Go adapter, the other connectors and the
desktop application. `PROJECT.json` says for each what is in a model,
or why nothing is.

### 1.2 How they interact

    REST thread / event loop ── accept_intent, create_turn ──> ledger (transaction)
         │                                              ^        ^
         ├─ file_core_records ── work core              │        │ complete_turn (+ successor)
         └─ SidecarBackend.accept                       │        │ finish_cancelled, fail_turn
              ├─ FirstRunGate.acquire                   │        │
              ├─ sidecar: open, prompt worker           │   completion worker (_complete)
              ├─ set_turn_dispatch ─────────────────────┘        ^   │ seals the execution, reclaims
              └─ NeutralRunTracker.active_runs ──────────────────┘   │ the subscription, accepts the
    stop ── cancel_execution ── cancel lock ── abort ── sidecar      │ successor, closes, retires
    harness ── subagent call ── event loop ── Delegation ── child turn, waits for its end
    harness ── approval ── reader thread ── row, route;  event loop ── decide ── deliver
    ledger ── event rows ── history page, live stream ──> client;  on_event ── notifier ── SSE
    startup ── seal_interrupted_turns ──> ledger

The shared pieces are the database (serial transactions), the event loop, the tracker's
lock, the per-run cancel lock, the gate's condition variable, the registry's and the
transport's locks, the reclaim's lock file and the disk. The models cut there: every
action ends where a thread commits, gives up a lock, or waits.

### 1.3 What is hard to test

`PROJECT.json` lists the hazards at their lines, each with the properties that would
catch it; those no property covers say why. They fall into these groups:

- transactions of clients, turn threads and restarts in orders nobody wrote a test
  for (admission, the queue, the summary columns, receipts);
- stops racing registration, completion, each other, new children and their own late
  answers;
- holds and locks taken on one thread and given up on another, and waits on the one
  event loop;
- a failure or a crash between two durable steps of two stores (ledger and work core,
  secret store and account, disk and catalogue);
- requests to another machine that fail, or succeed and lose their answer;
- a page and the stream that continues it, a wakeup and the look that precedes it;
- values read in one step and used in a later one (the role a turn freezes, the references
  of a provider, the digest before a reclaim, the snapshot a shutdown works from).

## 2. Modules

| module | models | composed with |
|---|---|---|
| `SessionLedger` | the ledger's rows and every transaction on them; the threads that drive a turn through them | refines `SendPromise` |
| `SendPromise` | what a sender is promised: the fate of an accepted key | abstract |
| `RunTracker` | `submit` and `cancel_execution` step by step; the turn's threads as far as they touch the tracker | environment: the sidecar |
| `FirstRunGate` | `acquire`, `release` and the threads that pass the gate | environment: the harness process |
| `Approvals` | a request from the channel's reader to the answer written back; the turn's threads as far as they touch requests, routes and sessions | environment: the harness |
| `WorkCore` | works, executions, dispatch with its crash window, projection, finalization, evidence | refines `StartPromise` |
| `StartPromise` | what the work core promises of one execution | abstract |
| `TurnBackend` | `accept`, the prompt worker, `_complete`, `stop` and a restart, with a failure at each durable step | extends `WorkCore`, whose actions are its calls |
| `Delegation` | the event loop, the subagent calls it serves, the cascade of stops | the ledger's turns and the gate, reduced to what a call reads |
| `AcpChannel` | registry, transport, reader, clean-up, shutdown, and the relay's sockets | environment: the access entry |
| `SidecarRun` | one run from launch to audit, over a Worker or locally, with its rebuilds | environment: Worker, link, harness |
| `Accounts` | the secret store, the account's row, turns that renew a login state, imports | environment: the harness |
| `Roles` | roles, providers, bindings and assets while turns are accepted, delegated and launched | the ledger's turns, reduced to what they froze |
| `EventFeed` | the event log, `history.snapshot`, the live streams, the SSE route and its notifier | environment: the desktop's client |
| `*_proofs` | theorems and their proofs; four hold those of two modules (section 5) | extend the modules they are about |
| `MC_*` | instances and symmetry for TLC | |

A definition whose name ends in an underscore and a word (`Oldest_Newest`,
`Unanswered_NotReread`, ...) is a plausible bug: it is used by no specification, and
`PROJECT.json` ("mutants") names the property that fails when it takes the place of the
definition it is named after.

The modules cut the server at the places where components meet. `TurnBackend` composes
the backend with the work core by extension, since the two interleave at every write;
the others see their neighbours through what they read of them, and the section of each
says what that is.

### 2.1 SessionLedger

Rows are functions from the identifiers they will carry; a row in the state `"absent"`
has not been inserted. An action is a transaction: its guard is what the code checks
inside it, its primed variables are all it writes, and a transaction that raises
writes nothing and is no step. `duty[t]` is the one piece of process memory: which
step the thread of turn `t` owes next. It makes the order of the backend's calls part of
the model (file the core records, dispatch, then exactly one of the three ends), and
it is what a restart clears.

| code | action |
|---|---|
| `create_session` | `CreateSession` |
| `accept_intent` (`sessions.send`, `sessions.createAndSend`) | `AcceptIntent` |
| `create_turn` | `CreateTurn` |
| `QueueRecords.withdraw` | `Withdraw` |
| `switch_profile`, `archive_session`, `ProfileRecords.archive` | `SwitchProfile`, `ArchiveSession`, `ArchiveProfile` |
| `file_core_records` | `FileCoreRecords` |
| an exception in the filer or before `accept`'s own handler | `Abandon` |
| `set_turn_dispatch(state="running")` | `DispatchTurn` |
| `complete_turn` with `mark_terminal` and `claim_next` | `CompleteTurn` |
| `finish_cancelled`, `fail_turn` with `mark_terminal` and `pause_pending` | `FinishCancelled`, `FailTurn` |
| `seal_interrupted_turns` | `Restart` |

Left out, because no property tells them apart: texts, digests, usage, checkpoints,
locators, `native_generation`, the event log and the `version` column. A
compare-and-set that fails and a replay of a receipt write nothing. The clock that
orders the queue ticks once per enqueue: transactions are serial, and the wall clock is
taken not to run backwards.

`Promise == INSTANCE SendPromise WITH ...` maps each accepted key to its fate: the state of
its turn or, if it was queued, of its item and then of the turn claimed from it.
`KeepsPromise` says every step of the rows is a step of the promise or invisible to
the sender.

### 2.2 RunTracker

A caller of `cancel_execution` goes through `Look` (first hold of the tracker's lock),
`Refuse` (second hold) or `Enter` (the run's cancel lock), `Check` (second read of the
receipt; the abort is on its way), `Answered` and `Record` (third hold, then the cancel
lock is given up). Every one of these is an action, because each ends where another
thread can come in. A run is a pair of identifier and attempt, so that a neutral key
that is claimed again is a new run object with its own lock. The turn's threads appear as
`Start`, `Register`, `AcceptFails`, `PromptEnds`, `Rebuild`, `Decide`, `Persist`,
`CloseExecution` and `Retire`; the neutral path as `Claim`, `Replay`, `Build`,
`BuildRefused` and `Open`.

The sidecar is the environment. An abort may interrupt a running prompt before its
answer is recorded, or not at all, and the answer is any of the three outcomes: ok is
`confirmed_stopped`; an error answer, a timeout and a closed channel all become a
refusal in `SidecarHarnessPort.cancel`; anything else the channel raises is `unknown`.

`sent` and `interrupted` are history: they count aborts and remember prompts that one
cut short. No action reads them.

### 2.3 FirstRunGate

The gate's event per library, the hold handed out to the first caller, and the threads:
a request thread in `Accept`, a waiter in `PassThrough` or `WaitExpires`, the
completion thread that accepts the queue's successor (`FinishAndAccept`) and only then
releases (`ReleaseHold`), and a shutdown that releases what is left (`StopRuntime`).
The 300 seconds of a wait are a step that may happen whenever the wait lasts.

### 2.4 Approvals

The reader stores a request (`Ask`), registers its route (`RegisterRoute`) and enters
the port in the backend's table (`EnterPort`); `approvals.decide` commits (`Decide`) and
then delivers in four more steps (`LookUp`, `TakeRoute`, `Require`, `Write`). The turn's
threads are `Begin`, `OpenExecution`, `AcceptFails`, `Rebuild`, `Persist`, `Invalidate`,
`CloseExecution` and `Retire`, and `Restart` is the next process, which keeps the rows and
nothing else. Each is an action because it ends one hold of a lock, or a transaction.
`PortOf` maps turns to ports: a native agent's port serves all turns of a session. A
write may be lost with the channel. `answered` is history: no action reads it. A native
port refuses to reopen once its channel has exited; the model lets any port reopen,
which only adds behaviours.

### 2.5 WorkCore and StartPromise

`CoreRepository` makes every write under one lock and in one transaction, so a write is
an action; the services read before they write, and what a caller read is kept in its
row of `caller`. `CreateWork`, `CreateExecution`, `AttachInput`, `Finalize` and
`RecordEvidence` are single transactions. `complete_work` and `reopen_work` read and then
compare and set (`ReadWork`, `UpdateWork`). A dispatch looks up its key (`Dispatch`),
freezes the inputs (`Freeze`), asks for the provider (`Resolve`), starts it
(`StartProvider`) and records that (`RecordStart`); an observation is read against a row
(`Observe`) and written with a compare-and-set (`Project`). `Raise` may end any call, and
`Die` all of them. `starts` counts native starts and is outside the core's database.

`Promise == INSTANCE StartPromise WITH ...` reads the frozen inputs, the verdict and the
seal off the rows.

### 2.6 TurnBackend

Extends `WorkCore`; each turn is its own work, execution and caller. A turn goes through
`Send`, the filer (`FileWork`, `FileExecution`, `Link`), `accept` (`Bind`,
`EnterDispatch`, `StartRun`, the core's own steps, `SetRunning`, `Register`, `Launch`, or
`Reject`), and the completion worker (`Decide`, `SealCore`, `FinishCancelled`,
`CompleteTurn`, `Adopted`, `CloseWork`, `WorkClosed`, `FailTurn`, `Cleanup`, `Retire`,
and for the successor `AcceptHeir` or `HeirRefused`). `FilingFails`, `CoreRaises`,
`AcceptRaises` and `CompletionRaises` let each durable step raise, into the handler that
the code has there. `StopBegins` takes the snapshot and `StopEnds` answers; `ProcessDies`
and `StartServer` are the end of a process and the sealing of the next.

What the ledger and the tracker do is reduced to the turn's state and to `held`, the set
of things a run has to give back. The gate, the approvals and the tracker's receipts are
in their own modules.

### 2.7 Delegation

The event loop is the one variable `loop`: what it executes or waits for; while it is not
idle, wire methods and calls are only pending. A call reads the chain of its parents and
the child's session (`ServeCall`, `CheckCall`), inserts the child (`InsertChild`), and
waits for its end or its deadline; `AcceptWaits` and `GateExpires` are the wait of `accept`
at the first-run gate on that same loop. Stops come over the wire (`WireStop`), from the
deadline, and from REST on a thread (`RestStop`); each walks the family with `Look`, `Stop`
and `ReadChildren`. `late` and `left` are history: the children inserted when every stop of
their parent had read its own, and those of a turn that its stop found ended at the second read.

`filing` is chosen at `Init`. The delegation service takes an execution port, and whether
that port refuses a turn for which no core records were filed is the port's affair: the
sidecar backend does, and delegation files none; ports injected by the tests do not. All
properties hold with either.

### 2.8 AcpChannel

A call to `acquire` goes `Acquire`, `Connected`, `OpenRun`, `Register`, then `Superseded`
or `CheckExit`; a `release` goes `Release`, `Ask`, `Await`, `Claim`, `Settle`. The reader of a
connection delivers what the entry wrote (`Read`), gives up (`Abandon`), and runs the
exit's callbacks (`NoteExit`, `ClaimExit`, `SettleExit`), the last on a thread of its own.
`StopServer` and `StopNext` walk the snapshot of a shutdown, with `LastAsk`, `LastWait` and
`StopEntry` for each connection. The entry is a process that connects, reports an end,
answers a release and may die (`EntryConnects`, `HarnessExits`, `EntryCloses`,
`EntryDies`); `out` is its pipe. Sockets are `Admit`, `Attach`, `Detach`. `spoiled` is
history: the connections with a release that was answered "not released", whose end
nobody reports any more.

### 2.9 SidecarRun

One turn over at most `RebuildLimit + 1` attempts. A launch stages a view, writes the
credential, prepares the home and spawns (`StageView`, `PutSecret`, `PrepareHome`,
`ComposeRoom`, `Spawn`, or `Popen` on this machine), and `Unwind` undoes it where the code
does. `Handshake`, `Prompt`, `PromptAnswered`, `PromptRaises` and `Rebuild` drive it;
`Complete`, `Capture`, `Audit` and `CloseExecution` finish it; `CloseStdin`,
`AwaitTerminal`, `Sweep` and `CloseLocal` close the channel. Racing with these: the process
ends, the link drops, a heartbeat fails, the lease expires, the reader ends, chunks
arrive, the harness writes the credential into its home. `site` is what is on the machine,
`chan` what the server believes. `hindered` is history: attempts whose sweep was refused (or, on this machine, whose
directory would not go: `rmtree` ignores its errors), or
never reached because a step before it raised. Whether the placement is local, the library shared and
the harness spoken for by ACP or by a driver of the deployment is chosen at `Init` (`plan`): text of ACP
is taken for the answer only after the prompt, a driver's `message_delta` as it comes (`Taken`, `Delta`).

### 2.10 Accounts

A turn materialises the stored asset (`Materialize`), the harness may renew it (`Renew`),
and the completion reads it back (`ReadBack`), takes the lock file, checks the digest,
stores, lets go and records (`Lock`, `Check`, `Store`, `Unlock`, `Record`). An import is
`Import`, `ImportCheck`, `ImportStore`, `ImportRecord`, `ImportSave` on the event loop. A
content is known by who made it. `Crash` leaves the store, the row and the lock file.
`kind` is the secret store, the platform's or the one tests inject: they differ in the
name under which an asset is read. `writer` and `crossed` are history: whose record the row
holds, and which writers each turn met between its check and its record.

### 2.11 Roles

`role`, `past`, `provider`, `asset` and `bound` are the rows, `disk` the directory of
installed definitions, `turn` what each turn froze, and `loop` and `post` what the event
loop and a REST thread are in the middle of. `past` keeps what the row said at each
`config_revision`, which is what the properties compare with; the code keeps only the
last. Edits are `Create`, `Configure`, `SetPermissions`, `Archive`, `Clone` with
`CopyBindings`, `UpdateProvider`, `CheckReferences` with `ArchiveProvider`, `Install` with
`Publish`, and `Bind`. Turns come from `Send`, `Open` (an ACP run), `Delegate`, and from
`PostTurn`, `ReadConfiguration`, `ReadPermissions`, `InsertTurn` on a thread; `ReadBindings`
and `Project` are their launch. A configuration is known by the provider it selects and
a definition by its digest; `LOST` is the configuration a clone to another family has.

### 2.12 EventFeed

`log` holds a number per row, 0 for a row that makes no frame (`AppendEvent`); a row's place
is its cursor. The desktop's client is `OpenSession`, `HistoryRead`, `HistoryFails`, `Load`,
`Serve`, `Subscribe` and `Subscribed` for each call of `openSession`, and `Receive`; its native
half takes the renderer's requests in order (`bridge`) and sends frames on, so a stream's
frames are in the socket, on their way, or shown. Which stream a frame is of matters only in
one way: whether it is the one that continues the page the session shows, opened by the call
that loaded the page (`own`, `by`). Frames of that one are in `flight`; those of every other,
of one that was there before the page or of an overlapping call, are in `wake`, ahead of it.
`ReadBatch`, `SendFrame` and `Drop` are the stream's. The SSE route is `SseConnect`,
`SseHistory`, `SseList`, `SseAgain`, `SseWake`, and a pager `PageLatest`, `PageOlder`,
`PageForward`; the pager keeps what it was given as a list, so that a repeat shows. The kinds of
readers share nothing but the log, so a behaviour has one of them (`reader`). `exact` is history:
true when a page is loaded, false once the session is handed a frame of `wake`. Left out: what a
client makes of an event's body, runs and approvals that it marks unknown when a stream drops,
`resync_required`, and the 30 seconds after which it gives up on a `stream` request.

## 3. Runs

Each run is one question. `tlc -config <cfg> <module>` repeats it.

| run | instance | what it shows |
|---|---|---|
| `ledger_entries` | 2 sessions, 3 roles (2 of an exclusive home, 1 of a shared one), 2 turns, 2 queue items, 2 sends and 1 REST key, 1 restart, 1 abandoned dispatch | admission on all paths, items that mirror their turns, summary columns, completions that are not refused, no message left behind; the rows implement `SendPromise` |
| `stop_races` | 1 turn, 1 neutral key with 2 attempts, 2 stops, 2 submits, 1 rebuild | a single abort, answers that stay, no success for an interrupted prompt, every stop answered |
| `first_run` | 4 turns on one library, 1 accept that loses its run, 1 shutdown | the exclusive first run, and a library that becomes ready |
| `approval_races` | 2 turns of one native port, 1 request, 2 deciders with 2 requestIds and 2 decisions, 1 rebuild, 1 restart | one recorded answer, no stale route, no request left open |
| `work_core` | 2 callers, 2 executions of one work, 2 keys, 3 calls, 1 death | true answers, history that is kept, the refinement of `StartPromise` |
| `turn_records` | 2 turns of a session, 1 fault, 1 death | ledger and core agree, a clean stop is quiet, workers come to rest, turns are driven |
| `delegation` | 3 turns of 2 roles that call each other, 1 stop, 1 fault, a port of either kind | no role waits for itself, a stop reaches the family, the loop comes free |
| `acp_channel` | 2 callers, 2 connections, 1 socket, 1 shutdown, 1 fault | proof of every release, no end missed, a shutdown that leaves nothing behind |
| `sidecar_attempts` | 3 attempts of a turn, 2 faults, Worker or local | no credential and no process left, no leak in a completed turn, no replay in the answer over ACP |
| `asset_reclaims` | 3 turns and 1 import key of one account, 2 requests, 1 crash | a row that names its asset, two reclaims of one asset that never pass the check together |
| `role_edits` | 2 roles, 1 provider, 2 turns, an asset with 2 revisions and 2 contents, 4 edits, 1 crash | one revision frozen, children narrower, only published assets launched |
| `event_feed` | 2 sessions, 3 rows, pages and batches of 1 row, 2 openings; or the SSE route; or a pager | no frame lost or repeated until one of another stream comes, no wakeup lost, what is followed arrives |

### 3.1 Why the bounds are enough

- *Ledger.* The rules relate two turns (of a session or of a role), two items of a queue, or
  a turn and its successor. Two turns are a running one with its successor, or one in each
  of two sessions; two items are the pair that could be swapped; two sessions and two
  roles of an exclusive home let a switch, a queue and a foreign turn meet in one role;
  the third role shares its home, so that one role runs in two sessions at once, which
  the sibling rule of `_settle_profile_after_turn` is about. One restart reaches every
  state with sealed turns beside live ones; a second one seals rows of the same kinds.
- *Tracker.* Two callers race for the cancel lock, and the one that enters second may find
  a receipt, a retired run or a run that has just been registered; the theorems hold for
  any number. Runs of different identifiers share nothing but the short hold of the
  tracker's lock, so one turn and one key are enough; the key is claimed twice, so
  that a refused attempt and its successor meet, and two submitters race. One rebuild
  shows a prompt that starts again after an abort.
- *Gate.* An owner, a waiter, a successor of the owner and one that comes after the release
  are four turns. Libraries share nothing.
- *Approvals.* Requests share nothing but their turn and port, so one is enough; two
  deciders are the race, the retry (the same requestId) and the contradiction (another
  decision); the second turn of the port is the one whose session a late route or answer
  could reach. The decisions are interchangeable, and so are the turns.
- *Work core.* Rules speak of one execution, or of two that bring the same key; two callers
  are the race and the replay; the third call comes after a death, or between the read and
  the write of another. A second death finds callers in the same steps.
- *Backend.* A turn and its successor, which the worker of the first carries. One fault
  takes every handler once, and the death comes at any step of it; two faults of one
  completion are two handlers in sequence, of which the second is the end of the worker.
- *Delegation.* Three turns are a parent, its child and the child's child, which is the
  first that could repeat a role, or a parent with two children; the stop meets them in
  every order.
- *ACP channel.* A connection that is replaced and its replacement; a caller that acquires
  while the other releases. The one fault is an end the entry reports, a death, a refusal
  or a lost answer.
- *Sidecar.* `RebuildLimit` is the code's own 2. Two faults are one that ends an attempt
  and one in its clean-up, or in the next attempt's launch.
- *Accounts.* Two turns race for the row; the third materialises what the first left. The
  import comes at any step of them.
- *Roles.* Two roles are a parent and its child, or the source and the target of a clone.
  Four edits create a role, bind or permit something, change it and archive what it
  refers to; one more would repeat an edit. Two revisions are the pinned and the latest.
- *Events.* Pages and batches of one row put every boundary between two rows. Three rows are one
  on the page, one under way and one behind the cursor; the second opening replaces the first
  one's stream, or is of the other session. Sessions share nothing but `streamed` and the bridge.
- `MaxRestarts`, `MaxAbandoned`, `MaxClaims`, `RebuildLimit`, `MaxLeaks`, `MaxStops`,
  `MaxCalls`, `MaxDeaths`, `MaxFaults`, `MaxRequests`, `MaxEdits` and `MaxCrashes` bound steps
  that could recur for ever. The theorems of section 5 hold for every value of them.

Deadlock is not checked: a server without requests stops, and so do these models.

### 3.2 Fairness

- `RunTracker!FairSpec` lets each caller inside `cancel_execution`, each completion
  worker and each prompt end: an abort's answer is awaited for ten seconds and a prompt
  for its own limit. Nobody has to ask for a stop, and registration is not fair.
- `FirstRunGate!FairGateSpec` lets each turn's thread run on; nobody has to send.
- `Approvals!FairSpec` lets each turn's threads run on: opening and prompting have
  timeouts, and the completion worker waits for nothing else. Readers and deciders are
  not fair.
- `TurnBackend!FairTurnSpec` lets each turn's threads run on and each prompt end. Nobody
  has to send, stop or restart, and no step has to raise.
- `Delegation!FairSpec` lets the loop run on: each of its waits, for a child as for the
  gate, has a deadline of its own. Runs do not have to end.
- `SidecarRun!FairSpec` lets the turn's thread run on, since each request and each wait of
  it has a timeout, the reader poll, and the Worker's clock end a lease nobody renews.
- `EventFeed!FairFeedSpec` lets the notifying threads, the loops that serve streams, the
  native half and the renderer run on; the SSE route wakes after 15 seconds at the latest.
  Nobody has to write an event or open a session, and a stream may drop at any time.
- The other runs state no fairness. `DeathsAreNoticed` is the safety form of what the ACP
  channel owes: somebody is always there who will act on an end. `PendingIsDriven` is that of
  the queue: behind what waits something runs, whose end claims from the queue or pauses it.

All are weak fairness of a whole thread: a thread that can always take some step takes
one. No lock is assumed to be fair, and none has to be: each has a bounded number of
contenders.

## 4. Properties

Each module has one type invariant, which the proofs need and which is proved.

*Ledger.* `ExclusiveHome` holds over both entries and the queue's successor.
`StatusTracksTurns` ties the status columns to the turns they summarise, with siblings
ending in any order. `ItemMirrorsTurn` says that an item mirrors exactly one turn, through
every end of it. `CompletionNotRefused` says that the successor of a finished run may
always be inserted, so that the run is never rolled back for its sake, and `PendingIsDriven`
that a message waits only behind a turn that runs, sessions sealed by a restart excepted, whose
queue the code leaves as it stood. `KeepsPromise` is the refinement: nothing lost, nothing done
twice, nobody overtakes.

*Tracker.* `AbortOnce`, `InterruptedIsNotCompleted` and the step property
`ReceiptOutlivesRun`; `StopsAreAnswered` is liveness.

*Gate.* `FirstRunIsExclusive`; `LibraryBecomesReady` is liveness.

*Approvals.* `AnswersAreRecorded`; `ApprovalsClose` is liveness. It speaks
of what was stored before the turn's end and excepts turns that have no completion
worker: those `accept` failed and those a restart sealed. Nothing in the code closes their
requests until somebody decides them.

*Work core.* `AnswersAreTrue` is what a caller may believe, replays after a death included;
`HistoryIsKept` that no stale observation is written; `KeepsStartPromise` the refinement.

*Backend.* `RecordsAgree` relates the two stores over every failure between their writes.
`CleanStopIsQuiet` says that a shutdown that answers yes leaves no thread that writes; it counts
completion workers and accepting threads, not the prompt of a run that a failed accept lost
(`sidecar_backend.py:308`).
`SealedStaysDown` keeps a turn that was cut off from being started again. `RunsComeToRest`
and `TurnsAreDriven` are liveness.

*Delegation.* `RolesWaitOnce`; `LoopComesFree` is liveness. `StopsReachChildren` says that
an active child of a stopped turn has been asked, or stands before a cascade that will ask it,
whether its parent still runs or the stop has ended it. It has two exceptions, `late` and `left`:
a child that came after the last look, and the children of a turn that ended between
the request and the second read (section 6).

*ACP channel.* `ReleasesAreProved`, `StopLeavesNothing`. `DeathsAreNoticed` says that an
active run whose entry is gone has somebody who is about to end it; its exception (`Held`) is a run
with a release answered "not released", which waits for the next release or the shutdown.

*Sidecar.* `SecretsAreSwept` and `CompletedIsClean` name the cases in which the code cannot
keep them; `ReplayIsNotAnswer` is about ACP (section 6); `RunsLeaveNoProcess` is liveness.

*Accounts.* `RecordNamesItsAsset`; the step property `ReclaimKeepsNewer`: a reclaim replaces
what its turn materialised, or what one of those wrote that it met outside the lock's reach: an import
that recorded after the check, or a reclaim where one of the two was between the lock and
the row (section 6). So the lock is what it checks: two turns that both check before either has let
go of it, as they do when a held lock is taken over, break it.

*Roles.* `FrozenIsOneRevision`, `ChildrenAreNarrower` and `OnlyPublishedIsProjected`.

*Events.* `FeedIsExact` compares what a reader was shown with the log itself, from each page on.
It ends for the desktop when a frame comes that is not of the stream that continues the page (section
6), and begins again with the next page: a session that is opened over a stream of its own is covered
up to that frame, and altogether if none comes. `NoWakeupIsLost`; `EventsArrive` is liveness.

`OneActiveTurn`, `TerminalIsFinal`, `OneStart`, `OneFirstRun`, `RoutesAreLive`,
`FirstDecisionStands`, `EndedIsTold` and `ArchivedIsUnused` (whose exception, `dangling`, is a
row that was inserted without a look at its provider) are proved and in no run.

## 5. Proofs

The theorems hold for every value of the constants that satisfies the assumption of the
module (`LedgerAssumption`, `ReceiptAssumption`, `TrackerAssumption`, `GateAssumption`, `ApprovalAssumption`,
`RolesAssumption`, `AccountsAssumption`, `DelegationAssumption`, `RunAssumption`,
`ChannelAssumption`, `FeedAssumption`, `CoreAssumption`, `NullAssumption`, `BackendAssumption`): disjoint identifiers, a NULL that is none of them, and
bounds that are naturals. TLC evaluates the assumptions on every run.

**`SessionLedger_proofs`**: `LedgerTypes`, `OneTurnPerSession`, `ExclusiveHomeHeld`,
`SummariesAgree`, `EndsAreFinal`, `ItemsMirrorTurns`, `SuccessorsFit`, `QueueIsDriven`
(`PendingIsDriven`), `LedgerKeepsPromise`. A row that is present must name a session and a
profile that exist, and a thread must owe steps only to a turn in the matching state:
neither follows from the types, and without them an action could write through a
dangling reference. `RowsAreLinked` and `DutyMatches` say so; with the types and
the two admission rules they form the invariant `IInv`. Every step falls under `NoneStarts`
(no turn becomes active) or `OneStarts` (one does, and `InsertAllowed` was true of it), and
uniqueness follows from that distinction alone (`UniqueStep`). The summary columns
need `IInv`, in particular that an active turn is the session's only one. For the queue every
step of the ledger is shown to have one of ten shapes (`RowSteps`), which is all the
remaining arguments read. `ClaimsAreOne` says that an item is
claimed by one turn at most and shows that turn's state from then on; the mirror follows. `RolesMatch` says
that in a session no restart has sealed, what waits is of the role that runs: it waits
behind an active turn, and a role is never switched under one. So the successor's role is
the predecessor's, and its insert cannot be refused (`SuccessorFits`).
`LedgerKeepsPromise` is the refinement of `SendPromise`: `KeysName` says that every turn and
every item answers to exactly one key, so that a key's fate is that of the one turn that
runs it or of the one item it waits in (`Reads`), and each of the ten shapes is then one step
of the promise, or none. It assumes that NULL is no receipt (`ReceiptAssumption`).

**`RunTracker_proofs`**: `TrackerTypes`, `AbortedOnce`, `StartedOnce`,
`InterruptedNotCompleted`, `ReceiptsOutliveRuns`. `CallersAreBound` ties a caller to its
run and to the lock it holds, `UnregisteredIsUntouched` says nobody has reached a
run that is not registered, `SubmittersHoldTheirKey` that a submitter before its port
still holds its claim. The heart is `AbortsAreAnswered`: a run that was sent an abort
either has its receipt or a caller between the abort and the receipt, which holds the
cancel lock. So whoever comes next finds the receipt (`AbortOnce`). `CutShort`
carries it to the completion worker: an abort that was not yet acknowledged when
`_complete` read the flag under the cancel lock cannot be acknowledged later.

**`SidecarRun_proofs`**, first part: `RunTypes`, `NoSecretStays` (`SecretsAreSwept`),
`CompletionIsClean` (`CompletedIsClean`) and `NoReplayInAnswer` (`ReplayIsNotAnswer`). The turn's
threads take turns with the machine and the channel, so the invariant says what those hold as a
function of where the turn is: attempts it has not come to are untouched (`Staged`), a port was not
prompted while a session is being opened (`Fresh`), an attempt that took the credential is one whose
home will be scanned (`Credentials`), and of the attempts left behind no local process runs (`Left`).
The properties are inductive only with these: a clean-up is looked at steps after the launch that
made it necessary. Second part, about `FirstRunGate`: `GateTypes`, `OneHoldPerLibrary`,
`FirstRunAlone` (`FirstRunIsExclusive`). A hold is handed out only when the library's event is made,
and whoever is inside a library that is not ready has the hold; exclusiveness is the two together.

**`Delegation_proofs`**: `DelegationTypes`, `NoRoleWaitsForItself` (`RolesWaitOnce`) and
`StopsReachTheFamily` (`StopsReachChildren`). The chain of a call is the least closed set above a
turn, and no recursion is needed for it (`AboveIsClosed`, `AboveIsLeast`): an old chain stays what it
was when a row is added, and the chain of the new row is that of its parent and the parent. The check of a call and
its insert are two steps; between them rows are only added, only by the loop, and the request that the
loop serves cannot be exchanged (`Asking`, `Serving`), so what the check saw is still true. For the
stops, `Reached` lists what keeps an active child of a stopped turn from being spared: it was asked
itself, came too late, was left by the second read, or is ahead of some cascade; a step that serves a cascade must carry each child from one
of these to the next, and `Looking` says that a cascade which looks at a turn has nothing else to lose.

**`Approvals_proofs`**: `ApprovalInvariant`, `OneRecordedAnswer`, `RoutesHaveSessions`,
`DecisionsStand`. An answer is written four steps after its decision was committed, so
`AnswersAreRecorded` needs to know what a call between the two holds
(`CallsDeliverTheRecord`: the decision on record) and that it is alone
(`OneDeliverer`: one such call per row, and none once the harness was answered). Both rest
on `RowStep`: no step changes a row that is settled or invalid. Routes need
`StoredFirst`: the reader registers a request only after it was stored, so that the turn a
route belongs to cannot change under it.

**`Roles_proofs`**: `RoleTypes`, `ArchivedStaysUnused`, `OneRevisionIsFrozen`,
`DelegationNarrows`, `PublishedIsProjected`. `Linked` adds to the types that turns, roles and
the request in hand name rows that exist (`RowsSpeak`, `TurnsNameRoles`,
`PostNamesRole`). `ArchivedIsUnused` is not inductive, since an archive checks the references in
one step and marks the row in another: `ClosedIsDangling` says of an archive past its check
what the property says of one that is done. What a turn froze, and what a request has read
on the way to it, is true of the role's row for as long as the revision it names is the
last one (`TurnsFroze`, `PostReads`): a row changes only together with its revision. A launch reads the catalogue
of the asset when it projects it (`Catalogued`).

**`Accounts_proofs`**: `AccountTypes`, `RecordNamesItsAsset` (`RecordedAssetIsStored`) and
`ReclaimKeepsNewer` (`NewerAssetIsKept`). A row is written from values that a thread carries
since an earlier step. `TurnIsBacked` and `LoopIsBacked` say that what each of them carries is in the secret store, and
no step takes anything out of it. Second part, about `AcpChannel`: `ChannelTypes`,
`NoUnprovedRelease` (`ReleasesAreProved`), `EverySocketIsTold`, `StopIsComplete`
(`StopLeavesNothing`) and `NoDeathIsMissed` (`DeathsAreNoticed`). Every step is at one connection and of one
thread (`Local`), so the invariant is stated of one connection (`ConnInv`) and of one thread with it
(`ThreadAt`, `OpenerAt`), and a step is only examined where it happens. Of a connection it says that what the
entry wrote and nobody has read is true of the Harness (`AnswersAt`), who will end an active run
(`OwnedAt`), who comes for it once its end is no longer reported (`ReportedAt`, `CleanerAt`), and who
stops an entry that runs (`StoppingAt`); of the server that it is empty once it has shut down (`ShutDown`).

**`Roles_proofs`**, second part, about `EventFeed`: `FeedTypes`, `WakeupsAreKept` (`NoWakeupIsLost`) and
`FeedLosesNothing` (`FeedIsExact`). What the stream that continues a page has on its way to an exact
session is a chain (`StreamAt`): the frames in flight and those in the socket follow each other in the log
without a gap, the first follows the cursor of what is shown, and after the last one nothing is left out before
the socket's own cursor. Reading, sending and showing a frame move along it (`UnbrokenBatch`, `HeadMoves`,
`UnbrokenTail`). A page cuts the chain and its call begins a new one where the page ended: until then
the stream sends nothing and the cursor has not moved (`OpeningAt`). Frames of other streams are no part of
it; the first one that is shown ends the claim (`StrayKeeps`). Two pages of a pager join (`ListsJoin`). The numbers of the
frames have no gap because each is the next free one (`LogAt`). For the SSE route, `SseAt`:
the generation it holds was read before the log.

Which list the frames of a page are is a choice (`Frames`), and that a list like that exists is proved by induction over
its length (`FramesExist`), in the form of a least number outside a *set* (`NatSet`), since the
library's induction theorems take an operator.

**`TurnBackend_proofs`**, first part, about `WorkCore`: `CoreTypes`, `AnswersTellTheWorld` (`AnswersAreTrue`), `NoStaleObservation`
(`HistoryIsKept`) and `CoreKeepsPromise`, the refinement. A caller past the freeze drives the
dispatch of its execution and is the only one that does (`OneDriver`): a freeze finds no
dispatch, and leaves one that nobody else can freeze. What it knows of the start (`Drives`) is therefore
still true when it records it, and the record true of the world (`RecordIsTrue`); what a caller
was told is on record for good (`ToldTheRecord`). An observation that has been read is in order with the row as long as
the row's version is the one it was read from (`InOrder`), since every step that changes a projection moves
the version on (`ExecStep`). Of the refinement `Freeze` is `Fix`, a start `Begin`, a
verdict `Judge`, `Finalize` `Seal`, and everything else a stutter.

Second part, over the invariants of the first: `StoresAgree` (`RecordsAgree`),
`EndedStaysDown` (`SealedStaysDown`) and `StopIsQuiet` (`CleanStopIsQuiet`). Every step of the backend
is a step of the core, or takes an answer from it (`CoreTakesPart`), so the core's invariants carry
over. `Own` says that a turn's caller works on the turn's own execution, and drives its dispatch
only while its thread waits for it. `Progress` relates where a thread stands to what both
stores say of its turn: before the core is sealed the turn is active and its execution open, at
`complete` it is sealed as succeeded and was accepted, and a turn that nobody has sent is not
sealed. It is what an exception between the two writes must not break, and the mutant that
swallows one breaks it. `Heirs` is needed because a worker starts a thread for another turn: who
has a successor ended as completed, a successor has one predecessor, and waits, filed, until that
one has cleaned up; so a second thread never drives it. For the shutdown, `Carried`: once it
began, whatever is filed or accepted is some worker's successor, so that waiting for the
workers alone is enough.

Every invariant and every step property that a run checks is stated by a theorem, and so
are both refinements. Only model-checked are the liveness properties (`StopsAreAnswered`,
`LibraryBecomesReady`, `ApprovalsClose`, `RunsComeToRest`, `TurnsAreDriven`, `LoopComesFree`,
`RunsLeaveNoProcess`, `EventsArrive`), which need ENABLED and fairness. None of the models has a
recursive operator.

## 6. What the code does that a reader would not expect

Observed while modelling. Each is visible at the place named, and the models contain it where they reach
it (as an exception that a property names, or as a branch); none has a run that is meant
to fail.

*Ledger and session service.* A paused item can neither be withdrawn (`too_late`) nor
resumed. Recovery evidence found by a turn whose sibling is still active is dropped, and a later
failure that left none clears what was there. The successor of a completed turn is claimed
without a look at its role's recovery state. An abandoned dispatch stays active until the next
restart. A receipt is looked up after the role was read and frozen, so that a replay may be
refused for what happened to the role since.

*Stops.* A refusal decided before a run is registered is recorded after it, and later stops
replay it. A stop that arrives after the completion worker read the flag is answered
`confirmed_stopped` for a turn that is persisted as completed (`sidecar_backend.py:527-530`). An
abort whose answer is lost is recorded as a refusal, although the contract has `unknown` for
it. `cancel_turn` writes its request and then reads the turn again: if the run has ended in between,
it answers that there was nothing to stop and its children, which run on, are not asked
(`service.py:323-330`), although `service.py:340-343` says that a stopped parent must leave no live
process behind. A child inserted after the last look at its parent is not asked either.

*First run.* A first run that fails before its library exists makes the library count as
ready. The successor of a library's first run waits for a hold that its own thread gives up
only after the wait. A failed `accept` does not give back the hold.

*Approvals.* A request is readable before its route is registered, so an early decision is
recorded and dropped. A request that arrives after the turn's invalidation stays open. On a
native port the retirement of one turn forgets the requests of the next.

*Delegation.* `run` inserts the child turn and calls `accept` without filing the records of the
work core, and the sidecar backend refuses a turn without an execution before its own failure
handler: the child stays accepted, and its role occupied, until a restart (`delegation.py:205`).

*Sidecar.* After a rebuild the second Worker launch brings no credential and audits for
nothing; the run's native id stays that of the first attempt; text streamed by the first prompt is
kept and prefixes the answer. `sidecar.py:1302-1304` says of every Harness that history which is played
back while a session is opened is no part of the answer, and the updates of ACP are held back until the prompt
(1635-1656); the `message_delta` of a driver is not (1686-1695), and nothing but the driver's own restraint
keeps it out (`fixture_native_driver.mjs:27` sends it after the prompt only). A write to a dead local process raises a `RuntimeError`, which no
rebuild answers. When a clean-up step of the Worker raises, those after it are skipped. The local
launcher passes no workspace root, so its change set is always empty; a launch that raises before
the process exists leaves the staged home. The audit counts a file it cannot read as truncation.

*ACP channel.* A release that could not be confirmed leaves the end marked as reported, so that
`on_exit` never fires for it, although `access_entry.py:56-58` promises exactly once; the run stays active until the
next release or the shutdown. A
channel whose entry died during registration stays registered until somebody reads it.

*Accounts.* The lock of a reclaim is given up before the caller writes the row (`assets.py:217`), so that
two turns with the same digest pass one after the other and the last one wins; an import takes neither the lock
nor the digest check. `assets.py:12-14` and 33-34 promise a typed conflict instead of a silent
last-writer-wins; `ReclaimKeepsNewer` excepts the two cases by name.
A lock file left by a crash refuses every later reclaim, by design. The file-backed store looks
an asset up under a name that `write_asset` does not record. Old assets are never deleted.

*Events.* A client that opens the session it streams already replaces the stream, but frames of the old one that
are still in flight are projected after the page took the place of the messages: the text of a delta is appended
twice, and the cursor is pulled back, which `client.ts:341-342` rules out for the page's own frames. A stream that drops
clears `streamedSession` whichever session it was of, so that a later opening does not close the
one that is still up. `FeedIsExact` ends where such a frame is shown.

*Roles and assets.* A binding reports its pinned revision with the digest of the latest one, so
publishing a newer revision makes launches under the older one fail (`assets/records.py:166-185`).
Publishing installs on disk before it looks at the receipt. A lower revision lowers the latest
one. A provider's archive checks references in one transaction and marks the row in another, so that a
role created between the two refers to an archived provider; a clone may, too. A clone
of another family has an empty digest, which makes every provider archive raise until it is
configured. `grant_subagent` refuses cycles of two only. A parent's patterned deny does not
travel to the child.

## 7. Not modelled, and why

Left out of modelled components: renames and metadata, generation columns and clean-up marks of the ledger; observations of the tracker;
attachments and projections of the backend; versions, scopes and events of the
approvals, and `expire`, which nothing calls; texts and digests, except whether two are equal. They write
columns that none of the modelled transactions reads.

Components with status `not_modelled` are of three kinds. *Input and output*: the
placements, ssh, the Worker's own side (not part of this repository), readers of usage and of
change sets, the desktop application. Their state is a file or a
connection; what the server makes of their answers is in the models of their callers.
*Parsing, rendering and assembly*: the wire handlers' validation and pages, the HTTP
routes, bootstrap, discovery of capabilities and extensions, the command line, contracts of
resources. They are functions without state, or run once before the first request. *Retired or
unwired*: the composition of runs and its coordinator, the login engine, the Go adapter.

The definitions cover between an eighth and a seventh of the implementation's lines. The rest is mostly the three
kinds above: the largest files without a module (`bootstrap/runtime.py`, most of
`wire/handlers.py`, the launchers' staging) assemble, parse, render and copy. A model of them
would restate them, and no property of turns, stops or stores tells their outcomes apart.

## 8. Plan

What is left, in order of importance:

1. The safety properties that the liveness arguments rest on, so that fairness is all that is left to
   TLC: for `RunsComeToRest` that no worker waits for one that waits for it, for `EventsArrive` that a
   cursor behind the log always has a reader that can move.
2. The queue of an ACP channel's session, which stays pending after a release.
3. Hooks and their `enabled` flag while a role's model is replaced; the composition of runs, once
   something uses it again.
