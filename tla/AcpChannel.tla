------------------------------ MODULE AcpChannel -------------------------------
(***************************************************************************)
(* The managed ACP channel: a client opens a channel to a Harness on a      *)
(* project, relays frames over sockets, and releases it.  AcpChannelRegistry *)
(* owns the connections and the one run record each has in the ledger;      *)
(* AccessEntryTransport speaks to the plugin's access entry, the process    *)
(* that launches the Harness and is the only one who can prove it is gone;  *)
(* its reader thread reports the entry's end.  Acquire, release, the        *)
(* reader's exit path, the clean-up thread it starts and stop_all run in    *)
(* threads of their own and meet at three locks: the registry's, the        *)
(* transport's release lock and its lock over `_end_reported`.              *)
(*                                                                         *)
(* One (harness, project) pair: pairs share nothing.  Frames carry nothing  *)
(* a property tells apart, so deliver() has no action.  A wait with a       *)
(* timeout may be given up at any time.                                     *)
(***************************************************************************)
EXTENDS Integers, Sequences, FiniteSets

CONSTANTS
    Callers,        \* threads that call acquire and release
    Stopper,        \* the thread that runs stop_all
    Conns,          \* bound: connections, numbered in the order of their launch
    Sockets,        \* relay sockets of clients
    None,
    MaxFaults       \* bound: exits of a Harness, crashes of an entry, refusals, survivors

ASSUME ChannelAssumption ==
    /\ IsFiniteSet(Callers) /\ Stopper \notin Callers
    /\ IsFiniteSet(Conns) /\ Conns = 1..Cardinality(Conns)
    /\ None \notin Callers \cup Conns \cup {Stopper} /\ MaxFaults \in Nat
    /\ \A c \in Conns : <<c>> \notin Callers \cup {Stopper, None}    \* Cleaner(c)

VARIABLES
    pair, ids,      \* AcpChannelRegistry._by_pair and ._by_id
    chan,           \* per connection: _Channel's exit_code and _ended
    run,            \* per connection: the Turn that is its run
    tr,             \* per connection: AccessEntryTransport
    entry,          \* per connection: the access entry and the Harness it launched
    out,            \* per connection: what the entry wrote and nobody read yet
    reader,         \* per connection: the reader thread
    thread,         \* callers, stop_all, and one clean-up thread per connection
    socket,         \* relay sockets
    spoiled,        \* connections with a release that was answered "not released"
    server,         \* "up", "stopping", "stopped"
    faults

channelVars == <<pair, ids, chan, run, tr, entry, out, reader, thread, socket, spoiled, server,
          faults>>
registry == <<pair, ids>>
peer     == <<entry, out>>
rest     == <<socket, spoiled, server, faults>>

Cleaner(c) == <<c>>
Threads == Callers \cup {Stopper} \cup {Cleaner(c) : c \in Conns}
Replies == {"none", "waiting", "ok", "kept", "refused", "gone"}
Closed  == [state |-> "none", conn |-> None]
Made    == [exit |-> FALSE, ended |-> FALSE]
Unstarted == [connect |-> "none", close |-> "none", established |-> FALSE,
              reported |-> FALSE, confirmed |-> FALSE, lock |-> None]
AtRest    == [pc |-> "idle", conn |-> None, back |-> "idle"]

Pcs == {"idle", "launched", "open", "register", "superseded", "check", "ask", "await",
        "claim", "settle", "lock", "wait", "stop"}
Ends       == [exit : BOOLEAN, ended : BOOLEAN]
Transports == [connect : Replies, close : Replies, established : BOOLEAN,
               reported : BOOLEAN, confirmed : BOOLEAN, lock : Threads \cup {None}]
Entries    == [alive : BOOLEAN, todo : {"none", "connect", "close"}, ended : BOOLEAN,
               harness : {"none", "alive", "dead"}]
Works      == [pc : Pcs, conn : Conns \cup {None}, back : {"idle", "claim"}]
Relays     == [state : {"none", "admitted", "attached"}, conn : Conns \cup {None}]

\* The two tables of the registry agree: at most the pair's connection is in both.
ChannelTypeOK ==
    /\ pair \in Conns \cup {None} /\ ids = {pair} \ {None} /\ spoiled \subseteq Conns
    /\ chan \in [Conns -> Ends] /\ tr \in [Conns -> Transports]
    /\ run \in [Conns -> {"none", "active", "cancelled", "failed"}]
    /\ entry \in [Conns -> Entries] /\ out \in [Conns -> Seq({"ok", "refused", "end", "kept"})]
    /\ reader \in [Conns -> {"none", "reading", "exit", "claim", "settle", "done"}]
    /\ thread \in [Threads -> Works] /\ socket \in [Sockets -> Relays]
    /\ server \in {"up", "stopping", "stopped"} /\ faults \in 0..MaxFaults

ChannelInit ==
    /\ pair = None /\ ids = {} /\ spoiled = {} /\ server = "up" /\ faults = 0
    /\ chan = [c \in Conns |-> Made]
    /\ run = [c \in Conns |-> "none"]
    /\ tr = [c \in Conns |-> Unstarted]
    /\ entry = [c \in Conns |-> [alive |-> FALSE, todo |-> "none", ended |-> FALSE,
                                 harness |-> "none"]]
    /\ out = [c \in Conns |-> <<>>]
    /\ reader = [c \in Conns |-> "none"]
    /\ thread = [k \in Threads |-> AtRest]
    /\ socket = [s \in Sockets |-> Closed]

At(k, pc)   == thread[k].pc = pc
Goto(k, pc) == thread' = [thread EXCEPT ![k].pc = pc]
Done(k)     == thread' = [thread EXCEPT ![k] = AtRest]
Conn(k)     == thread[k].conn

-----------------------------------------------------------------------------
(* The run record and the sockets *)

\* finish_cancelled and fail_turn: the first end of the Turn stands.
Ended(c, state) == IF run[c] = "active" THEN [run EXCEPT ![c] = state] ELSE run

\* _Channel.finish: ended once, and every attached socket is told so and closed.
Told(s, c) == ~chan[c].ended /\ socket[s].state = "attached" /\ socket[s].conn = c
Finish(c) ==
    /\ chan' = [chan EXCEPT ![c].ended = TRUE]
    /\ socket' = [s \in Sockets |-> IF Told(s, c) THEN Closed ELSE socket[s]]

\* Popping both tables under the registry's lock.
Registered(c) == c \in ids
Unregister(c) ==
    /\ ids' = ids \ {c}
    /\ pair' = IF c \in ids THEN None ELSE pair

\* wire_acp_channel looks the id up before it accepts the socket.
Admit(s) ==
    /\ socket[s].state = "none" /\ server = "up"
    /\ \E c \in ids : socket' = [socket EXCEPT ![s] = [state |-> "admitted", conn |-> c]]
    /\ UNCHANGED <<registry, chan, run, tr, peer, reader, thread, spoiled, server, faults>>

Attachable(c) == ~chan[c].ended

Attach(s) ==
    /\ socket[s].state = "admitted"
    /\ socket' = [socket EXCEPT ![s] =
                     IF Attachable(@.conn) THEN [@ EXCEPT !.state = "attached"] ELSE Closed]
    /\ UNCHANGED <<registry, chan, run, tr, peer, reader, thread, spoiled, server, faults>>

\* The client goes away: that is not a release.
Detach(s) ==
    /\ socket[s].state = "attached"
    /\ socket' = [socket EXCEPT ![s] = Closed]
    /\ UNCHANGED <<registry, chan, run, tr, peer, reader, thread, spoiled, server, faults>>

-----------------------------------------------------------------------------
(* AcpChannelRegistry.acquire *)

\* From the moment a close is asked for or the entry is terminated, its end is our own.
OwnEnd(t) == [t EXCEPT !.reported = TRUE]

Terminate_RaiseOnly(k, back) == Done(k) /\ UNCHANGED tr
Terminate(k, back) ==
    /\ tr' = [tr EXCEPT ![Conn(k)] = OwnEnd(@)]
    /\ thread' = [thread EXCEPT ![k].pc = "lock", ![k].back = back]

\* A pair that is held answers its connection; a free one launches an entry
\* and asks it to connect, or finds it dead before the request is written.
Acquire(k) ==
    /\ At(k, "idle") /\ server = "up" /\ pair = None
    /\ \E c \in Conns :
        /\ reader[c] = "none" /\ \A d \in 1..(c - 1) : reader[d] # "none"
        /\ reader' = [reader EXCEPT ![c] = "reading"]
        /\ \/ /\ thread' = [thread EXCEPT ![k] = [pc |-> "launched", conn |-> c, back |-> "idle"]]
              /\ tr' = [tr EXCEPT ![c].connect = "waiting"]
              /\ entry' = [entry EXCEPT ![c].alive = TRUE, ![c].todo = "connect"]
           \/ UNCHANGED <<thread, tr, entry>>
    /\ UNCHANGED <<registry, chan, run, out, rest>>

\* AccessEntryTransport.start: the reply to connect, its refusal, the entry's
\* death, or the timeout; all but the first terminate the entry and raise.
Connected(k) ==
    /\ At(k, "launched")
    /\ \/ /\ tr[Conn(k)].connect = "ok"
          /\ tr' = [tr EXCEPT ![Conn(k)].established = TRUE]
          /\ Goto(k, "open")
       \/ tr[Conn(k)].connect # "ok" /\ Terminate(k, "idle")
    /\ UNCHANGED <<registry, chan, run, peer, reader, rest>>

\* open_run: the Session and its Turn; a refused one terminates the transport.
OpenRun(k) ==
    /\ At(k, "open")
    /\ \/ run' = [run EXCEPT ![Conn(k)] = "active"] /\ Goto(k, "register") /\ UNCHANGED tr
       \/ Terminate(k, "idle") /\ UNCHANGED run
    /\ UNCHANGED <<registry, chan, peer, reader, rest>>

Register(k) ==
    /\ At(k, "register")
    /\ IF pair = None
       THEN pair' = Conn(k) /\ ids' = ids \cup {Conn(k)} /\ Goto(k, "check")
       ELSE Goto(k, "superseded") /\ UNCHANGED registry
    /\ UNCHANGED <<chan, run, tr, peer, reader, rest>>

\* A concurrent open won: this run is cancelled and its transport terminated.
Superseded(k) ==
    /\ At(k, "superseded")
    /\ run' = Ended(Conn(k), "cancelled") /\ Finish(Conn(k)) /\ Terminate(k, "idle")
    /\ UNCHANGED <<registry, peer, reader, spoiled, server, faults>>

\* The Agent may have died before it was registered: its run then failed.
DiedBefore_Unseen(c) == FALSE
DiedBefore(c) == chan[c].exit

CheckExit(k) ==
    /\ At(k, "check") /\ Done(k)
    /\ IF DiedBefore(Conn(k))
       THEN run' = Ended(Conn(k), "failed") /\ Finish(Conn(k))
       ELSE UNCHANGED <<run, chan, socket>>
    /\ UNCHANGED <<registry, tr, peer, reader, spoiled, server, faults>>

-----------------------------------------------------------------------------
(* AcpChannelRegistry.release and AccessEntryTransport.request_release *)

Release(k) ==
    /\ At(k, "idle") /\ k \in Callers /\ server = "up"
    /\ \E c \in ids : thread' = [thread EXCEPT ![k] = [pc |-> "ask", conn |-> c, back |-> "idle"]]
    /\ UNCHANGED <<registry, chan, run, tr, peer, reader, rest>>

\* The close op is written once; while it is unanswered a retry waits on the same.
Written(k, t) == [t EXCEPT !.close = "waiting", !.lock = k]
Reachable(c)  == entry[c].alive
AskEntry(c)   == entry' = [entry EXCEPT ![c].todo = "close"]

\* What stop_all does with a release that was not confirmed: terminate, then claim.
NotReleased(k) ==
    /\ spoiled' = spoiled \cup {Conn(k)}
    /\ IF k = Stopper /\ Conn(k) \in ids
       THEN thread' = [thread EXCEPT ![k].pc = "lock", ![k].back = "claim"]
       ELSE Done(k)

Ask(k) ==
    LET c == Conn(k) IN
    /\ At(k, "ask") /\ tr[c].lock = None
    /\ \/ tr[c].confirmed /\ Goto(k, "claim") /\ UNCHANGED <<tr, entry, spoiled>>
       \/ /\ ~tr[c].confirmed /\ tr[c].close # "none"
          /\ tr' = [tr EXCEPT ![c].lock = k] /\ Goto(k, "await") /\ UNCHANGED <<entry, spoiled>>
       \/ /\ ~tr[c].confirmed /\ tr[c].close = "none" /\ Reachable(c)
          /\ tr' = [tr EXCEPT ![c] = Written(k, OwnEnd(@))]
          /\ AskEntry(c) /\ Goto(k, "await") /\ UNCHANGED spoiled
       \/ /\ ~tr[c].confirmed /\ tr[c].close = "none" /\ ~Reachable(c)
          /\ tr' = [tr EXCEPT ![c] = OwnEnd(@)]
          /\ NotReleased(k) /\ UNCHANGED entry
    /\ UNCHANGED <<registry, chan, run, out, reader, socket, server, faults>>

\* _record_receipt: `released` alone confirms; a timeout keeps the request.
Receipt_AnyReply(reply) == reply \in {"ok", "kept"}
Receipt(reply) == reply = "ok"

Unlocked(t, reply) ==
    [t EXCEPT !.lock = None, !.close = IF reply = "waiting" THEN "waiting" ELSE "none",
              !.confirmed = @ \/ Receipt(reply)]

\* Closing its input and terminating it: the entry is gone, and the Harness with it
\* only if the entry still came to release it.
Stopped(c) ==
    \E left \in {entry[c].harness, IF entry[c].harness = "none" THEN "none" ELSE "dead"} :
        entry' = [entry EXCEPT ![c].alive = FALSE, ![c].todo = "none", ![c].harness = left]

Await(k) ==
    LET c == Conn(k) reply == tr[c].close IN
    /\ At(k, "await")
    /\ tr' = [tr EXCEPT ![c] = Unlocked(@, reply)]
    /\ IF Receipt(reply)
       THEN Goto(k, "claim") /\ UNCHANGED spoiled /\ Stopped(c)
       ELSE NotReleased(k) /\ UNCHANGED entry
    /\ UNCHANGED <<registry, chan, run, out, reader, socket, server, faults>>

\* One caller wins the claim; only it writes the ledger, and both finish the channel.
Claim(k) ==
    /\ At(k, "claim") /\ Unregister(Conn(k))
    /\ IF Registered(Conn(k))
       THEN Goto(k, "settle") /\ UNCHANGED <<chan, socket>>
       ELSE Finish(Conn(k)) /\ Done(k)
    /\ UNCHANGED <<run, tr, peer, reader, spoiled, server, faults>>

Settle(k) ==
    /\ At(k, "settle")
    /\ run' = Ended(Conn(k), "cancelled") /\ Finish(Conn(k)) /\ Done(k)
    /\ UNCHANGED <<registry, tr, peer, reader, spoiled, server, faults>>

-----------------------------------------------------------------------------
(* AccessEntryTransport.terminate *)

LastAsk(k) ==
    LET c == Conn(k) IN
    /\ At(k, "lock") /\ tr[c].lock = None
    /\ \/ /\ tr[c].established /\ ~tr[c].confirmed
          /\ \/ /\ tr[c].close # "none"
                /\ tr' = [tr EXCEPT ![c].lock = k] /\ Goto(k, "wait") /\ UNCHANGED entry
             \/ /\ tr[c].close = "none" /\ Reachable(c)
                /\ tr' = [tr EXCEPT ![c] = Written(k, @)] /\ AskEntry(c) /\ Goto(k, "wait")
             \/ /\ tr[c].close = "none" /\ ~Reachable(c)
                /\ Goto(k, "stop") /\ UNCHANGED <<tr, entry>>
       \/ /\ ~tr[c].established \/ tr[c].confirmed
          /\ Goto(k, "stop") /\ UNCHANGED <<tr, entry>>
    /\ UNCHANGED <<registry, chan, run, out, reader, rest>>

LastWait(k) ==
    LET c == Conn(k) IN
    /\ At(k, "wait")
    /\ tr' = [tr EXCEPT ![c] = Unlocked(@, tr[c].close)]
    /\ Goto(k, "stop")
    /\ UNCHANGED <<registry, chan, run, peer, reader, rest>>

\* Whatever it answered, the entry is stopped; stop_all then claims the connection.
StopEntry(k) ==
    /\ At(k, "stop") /\ Stopped(Conn(k))
    /\ IF thread[k].back = "claim" THEN Goto(k, "claim") ELSE Done(k)
    /\ UNCHANGED <<registry, chan, run, tr, out, reader, rest>>

-----------------------------------------------------------------------------
(* AcpChannelRegistry.stop_all, called when no caller is left *)

StopServer ==
    /\ server = "up" /\ \A k \in Callers : At(k, "idle")
    /\ server' = "stopping"
    /\ UNCHANGED <<registry, chan, run, tr, peer, reader, thread, socket, spoiled, faults>>

StopNext ==
    /\ server = "stopping" /\ At(Stopper, "idle")
    /\ \/ /\ \E c \in ids :
                thread' = [thread EXCEPT ![Stopper] = [pc |-> "ask", conn |-> c, back |-> "idle"]]
          /\ UNCHANGED server
       \/ ids = {} /\ server' = "stopped" /\ UNCHANGED thread
    /\ UNCHANGED <<registry, chan, run, tr, peer, reader, socket, spoiled, faults>>

-----------------------------------------------------------------------------
(* The reader thread *)

\* _classify: replies wake their waiter, transport_end is reported unless the end
\* is our own; `read` is the next line.
Reply(t, read) ==
    IF t.connect = "waiting" THEN [t EXCEPT !.connect = read]
    ELSE IF t.close = "waiting" THEN [t EXCEPT !.close = read] ELSE t

Report(c) ==
    /\ reader' = [reader EXCEPT ![c] = IF tr[c].reported THEN "reading" ELSE "exit"]
    /\ tr' = [tr EXCEPT ![c].reported = TRUE]

Read(c) ==
    /\ reader[c] = "reading" /\ out[c] # <<>>
    /\ out' = [out EXCEPT ![c] = Tail(@)]
    /\ IF Head(out[c]) = "end" THEN Report(c)
       ELSE tr' = [tr EXCEPT ![c] = Reply(@, Head(out[c]))] /\ UNCHANGED reader
    /\ UNCHANGED <<registry, chan, run, entry, thread, rest>>

\* _entry_exit: its output ended; nobody stays parked on it, then the end is reported.
Abandon(c) ==
    /\ reader[c] = "reading" /\ out[c] = <<>> /\ ~entry[c].alive
    /\ IF "waiting" \in {tr[c].connect, tr[c].close}
       THEN /\ tr' = [tr EXCEPT ![c].connect = IF @ = "waiting" THEN "gone" ELSE @,
                                ![c].close = IF @ = "waiting" THEN "gone" ELSE @]
            /\ UNCHANGED reader
       ELSE IF tr[c].reported
       THEN reader' = [reader EXCEPT ![c] = "done"] /\ UNCHANGED tr
       ELSE Report(c)
    /\ UNCHANGED <<registry, chan, run, peer, thread, rest>>

\* _handle_exit sets exit_code, then claims the connection under the registry's lock;
\* at the end _report_end leaves the entry to a thread of its own.
NoteExit(c) ==
    /\ reader[c] = "exit"
    /\ chan' = [chan EXCEPT ![c].exit = TRUE]
    /\ reader' = [reader EXCEPT ![c] = "claim"]
    /\ UNCHANGED <<registry, run, tr, peer, thread, rest>>

Leave(c) ==
    /\ Finish(c)
    /\ reader' = [reader EXCEPT ![c] = "reading"]
    /\ thread' = [thread EXCEPT ![Cleaner(c)] = [pc |-> "lock", conn |-> c, back |-> "idle"]]

ClaimExit(c) ==
    /\ reader[c] = "claim" /\ Unregister(c)
    /\ IF Registered(c)
       THEN reader' = [reader EXCEPT ![c] = "settle"] /\ UNCHANGED <<chan, socket, thread>>
       ELSE Leave(c)
    /\ UNCHANGED <<run, tr, peer, spoiled, server, faults>>

SettleExit(c) ==
    /\ reader[c] = "settle"
    /\ run' = Ended(c, "failed") /\ Leave(c)
    /\ UNCHANGED <<registry, tr, peer, spoiled, server, faults>>

-----------------------------------------------------------------------------
(* access-entry.mjs and access-transport.mjs *)

Fault == faults < MaxFaults /\ faults' = faults + 1

EntryConnects(c) ==
    /\ entry[c].alive /\ entry[c].todo = "connect"
    /\ \/ /\ entry' = [entry EXCEPT ![c].todo = "none", ![c].harness = "alive"]
          /\ out' = [out EXCEPT ![c] = Append(@, "ok")] /\ UNCHANGED faults
       \/ /\ entry' = [entry EXCEPT ![c].todo = "none"]
          /\ out' = [out EXCEPT ![c] = Append(@, "refused")] /\ Fault
    /\ UNCHANGED <<registry, chan, run, tr, reader, thread, socket, spoiled, server>>

\* Its end is reported once: by the first close, or by the exit of the root process,
\* which may leave others of its tree running.
HarnessExits(c) ==
    /\ entry[c].alive /\ entry[c].harness = "alive" /\ ~entry[c].ended
    /\ \E left \in {"alive", "dead"} :
          entry' = [entry EXCEPT ![c].ended = TRUE, ![c].harness = left]
    /\ out' = [out EXCEPT ![c] = Append(@, "end")] /\ Fault
    /\ UNCHANGED <<registry, chan, run, tr, reader, thread, socket, spoiled, server>>

\* `released` only when the whole tree is confirmed gone, else it stays owned.
EntryCloses(c) ==
    /\ entry[c].alive /\ entry[c].todo = "close"
    /\ \E left \in {entry[c].harness, "dead"} :
        /\ entry' = [entry EXCEPT ![c].todo = "none", ![c].ended = TRUE, ![c].harness = left]
        /\ out' = [out EXCEPT ![c] = @ \o (IF entry[c].ended THEN <<>> ELSE <<"end">>)
                                       \o <<IF left = "dead" THEN "ok" ELSE "kept">>]
        /\ IF left = "dead" THEN UNCHANGED faults ELSE Fault
    /\ UNCHANGED <<registry, chan, run, tr, reader, thread, socket, spoiled, server>>

\* The entry crashes; the Harness, in a group of its own, may outlive it.
EntryDies(c) ==
    /\ entry[c].alive /\ Stopped(c) /\ Fault
    /\ UNCHANGED <<registry, chan, run, tr, out, reader, thread, socket, spoiled, server>>

-----------------------------------------------------------------------------
Call(k) == Acquire(k) \/ Release(k)
Work(k) == Connected(k) \/ OpenRun(k) \/ Register(k) \/ Superseded(k) \/ CheckExit(k)
           \/ Ask(k) \/ Await(k) \/ Claim(k) \/ Settle(k)
           \/ LastAsk(k) \/ LastWait(k) \/ StopEntry(k)
Reading(c) == Read(c) \/ Abandon(c) \/ NoteExit(c) \/ ClaimExit(c) \/ SettleExit(c)

ChannelNext ==
    \/ \E k \in Callers : Call(k)
    \/ \E k \in Threads : Work(k)
    \/ \E c \in Conns : Reading(c) \/ EntryConnects(c) \/ HarnessExits(c)
                        \/ EntryCloses(c) \/ EntryDies(c)
    \/ \E s \in Sockets : Admit(s) \/ Attach(s) \/ Detach(s)
    \/ StopServer \/ StopNext

ChannelSpec == ChannelInit /\ [][ChannelNext]_channelVars

-----------------------------------------------------------------------------
(* What the channel promises *)

Working(c) == \E k \in Threads : Conn(k) = c
Exiting(c) == reader[c] \in {"exit", "claim", "settle"}

\* `released: True` is said, and the run is closed as released, only on proof that
\* the Harness is gone; what stop_all forces down is not such an answer.
ReleasesAreProved ==
    \A k \in Threads : thread[k].pc \in {"claim", "settle"} /\ thread[k].back = "idle"
        => entry[Conn(k)].harness = "dead"

\* No socket listens to a channel that has ended.
EndedIsTold ==
    \A s \in Sockets : socket[s].state = "attached" => ~chan[socket[s].conn].ended

\* After stop_all no run is active and no entry runs but under its clean-up thread.
StopLeavesNothing ==
    server = "stopped" => \A c \in Conns :
        /\ run[c] # "active" \/ Exiting(c)
        /\ entry[c].alive => Exiting(c) \/ Conn(Cleaner(c)) = c

\* The end of the entry or its Harness reaches the run: while it is active somebody is
\* at work on it or the reader still has the news.  Not so after a release that was answered
\* `not released`: what was the end of our own asking is never reported, though on_exit
\* should fire exactly once (access_entry.py:56-58).  Such a run is still registered, so that
\* a release that is proved, or stop_all, ends it.
Over(c) == run[c] = "active" /\ (entry[c].ended \/ ~entry[c].alive)
News(c) == reader[c] = "reading" /\ ~tr[c].reported
Held(c) == c \in spoiled /\ c \in ids
DeathsAreNoticed ==
    \A c \in Conns : Over(c) => Working(c) \/ Exiting(c) \/ News(c) \/ Held(c)
=============================================================================
