------------------------------- MODULE EventFeed -------------------------------
(***************************************************************************)
(* The event log of the sessions and those who read it.  A transaction      *)
(* appends a row; a reader follows the rows with a cursor.  There are three *)
(* kinds: the desktop's client, which opens a session with a page of its    *)
(* history and joins the live stream where the page ends; the retained SSE  *)
(* route, woken through EventNotifier; and a client of the wire that pages  *)
(* through history.snapshot.  They share the log alone, so a behaviour has  *)
(* one of them.                                                             *)
(*                                                                         *)
(* The desktop's client is two halves: the renderer, whose calls of         *)
(* openSession overlap as the user clicks, and the native half, which holds *)
(* the sockets.  The renderer's requests reach the native half in order,    *)
(* and so do events the renderer; a reply may pass an event or be passed.   *)
(***************************************************************************)
EXTENDS Integers, Sequences, FiniteSetsExt, SequencesExt

CONSTANTS
    Sessions,
    Calls,          \* openSession, as often as it is in progress at a time
    Nowhere,
    PageLimit,      \* rows of a history page (50, of a pager up to 500)
    BatchLimit,     \* rows of a live batch
    MaxEvents, MaxOpens     \* bounds

ASSUME FeedAssumption ==
    /\ Nowhere \notin Sessions \cup Calls
    /\ PageLimit \in Nat \ {0} /\ BatchLimit \in Nat \ {0}
    /\ MaxEvents \in Nat /\ MaxOpens \in Nat

VARIABLES
    reader,     \* who reads in this behaviour
    log,        \* server_session_events: the wire_seq of each row, 0 without one
    notifier,   \* EventNotifier; calls of notify still due; rows there at the last one
    socket,     \* per session: the live stream, from the Server to the native half
    wake,       \* per session: what the native half has sent on, of streams that were there
                \* before the page or are another call's; 0 is ordessa/down
    flight,     \* and then, of the stream that continues the page
    tab,        \* per session: what the renderer shows
    streamed,   \* streamedSession
    call,       \* openSession
    bridge,     \* calls whose request the native half has yet to take, in order
    opens,
    sse, pager

desk == <<socket, wake, flight, tab, streamed, call, bridge, opens>>
feedVars == <<reader, log, notifier, socket, wake, flight, tab, streamed, call, bridge, opens,
          sse, pager>>

Rows == Nat
Maybe == Sessions \cup {Nowhere}

FeedTypeOK ==
    /\ reader \in {"desktop", "sse", "pager"}
    /\ log \in [Sessions -> Seq(Rows)]
    /\ notifier \in [generation : Rows, due : Rows, told : [Sessions -> Rows]]
    /\ socket \in [Sessions -> [up : BOOLEAN, own : BOOLEAN, cursor : Rows, frames : Seq(Rows)]]
    /\ wake \in [Sessions -> Seq(Rows)] /\ flight \in [Sessions -> Seq(Rows)]
    /\ tab \in [Sessions -> [shown : Seq(Rows), from : Rows, resume : Rows,
                             by : Calls \cup {Nowhere}, exact : BOOLEAN]]
    /\ streamed \in Maybe /\ bridge \in Seq(Calls) /\ opens \in 0..MaxOpens
    /\ call \in [Calls -> [pc : {"idle", "asked", "answered", "closing", "closed",
                                 "opening", "opened"},
                           session : Maybe, other : Maybe, lo : Rows, hi : Rows]]
    /\ sse \in [pc : {"off", "history", "list", "again", "waiting"}, session : Maybe,
                cursor : Rows, generation : Rows]
    /\ pager \in [session : Maybe, seen : Seq(Rows), lo : Rows, hi : Rows]

Closed == [up |-> FALSE, own |-> FALSE, cursor |-> 0, frames |-> <<>>]
IdleCall == [pc |-> "idle", session |-> Nowhere, other |-> Nowhere, lo |-> 0, hi |-> 0]

FeedInit ==
    /\ reader \in {"desktop", "sse", "pager"}
    /\ log = [s \in Sessions |-> <<>>]
    /\ notifier = [generation |-> 0, due |-> 0, told |-> [s \in Sessions |-> 0]]
    /\ socket = [s \in Sessions |-> Closed]
    /\ wake = [s \in Sessions |-> <<>>] /\ flight = [s \in Sessions |-> <<>>]
    /\ tab = [s \in Sessions |-> [shown |-> <<>>, from |-> 0, resume |-> 0, by |-> Nowhere,
                                  exact |-> FALSE]]
    /\ streamed = Nowhere /\ call = [c \in Calls |-> IdleCall] /\ bridge = <<>> /\ opens = 0
    /\ sse = [pc |-> "off", session |-> Nowhere, cursor |-> 0, generation |-> 0]
    /\ pager = [session |-> Nowhere, seen |-> <<>>, lo |-> 0, hi |-> 0]

-----------------------------------------------------------------------------
(* The log *)

Head0(s) == Len(log[s])

\* _append_session_event: rows are numbered by their place and none is deleted; a kind
\* that makes a frame gets a number of its own, for which there is no gap.
WireSeq_OfRow(s) == Head0(s) + 1
WireSeq(s) == Max({0} \cup ToSet(log[s])) + 1

\* In the transaction of its caller.  A turn's thread calls on_event when that is over;
\* other writers do not, and only the SSE route looks.
AppendEvent(s) ==
    /\ MapThenSumSet(Head0, Sessions) < MaxEvents
    /\ \E framed \in BOOLEAN :
          log' = [log EXCEPT ![s] = Append(@, IF framed THEN WireSeq(s) ELSE 0)]
    /\ \E due \in IF reader = "sse" THEN {0, 1} ELSE {0} :
          notifier' = [notifier EXCEPT !.due = @ + due]
    /\ UNCHANGED <<reader, desk, sse, pager>>

Notify ==
    /\ notifier.due > 0
    /\ notifier' = [generation |-> notifier.generation + 1, due |-> notifier.due - 1,
                    told |-> [s \in Sessions |-> Head0(s)]]
    /\ UNCHANGED <<reader, log, desk, sse, pager>>

\* What a page (lo, hi] of rows makes: a frame for each row that has one, in the order of
\* the rows; a frame's cursor is its row.
Framed(s, lo, hi) == {n \in lo + 1..hi : log[s][n] # 0}
Increasing(f) == \A i, j \in DOMAIN f : i < j => f[i] < f[j]
Frames(s, page) ==
    LET rows == Framed(s, page.lo, page.hi)
    IN  CHOOSE f \in BoundedSeq(rows, page.hi - page.lo) : ToSet(f) = rows /\ Increasing(f)

After(s, cursor, limit) == [lo |-> cursor, hi |-> Min({Head0(s), cursor + limit})]
Before(row, limit)      == [lo |-> Max({0, row - 1 - limit}), hi |-> row - 1]
Latest(s)               == Before(Head0(s) + 1, PageLimit)

-----------------------------------------------------------------------------
(* openSession *)

CallGoes(c, pc) == call' = [call EXCEPT ![c].pc = pc]

\* The user opens a session, the one that is open too, and need not wait for the last.
OpenSession(c, s) ==
    /\ reader = "desktop" /\ call[c].pc = "idle" /\ opens < MaxOpens
    /\ opens' = opens + 1
    /\ call' = [call EXCEPT ![c] = [IdleCall EXCEPT !.pc = "asked", !.session = s]]
    /\ UNCHANGED <<reader, log, notifier, socket, wake, flight, tab, streamed, bridge, sse, pager>>

\* history.snapshot without a cursor: the latest page and the head, read at once.
HistoryRead(c) ==
    /\ call[c].pc = "asked"
    /\ LET page == Latest(call[c].session)
       IN  call' = [call EXCEPT ![c].pc = "answered", ![c].lo = page.lo, ![c].hi = page.hi]
    /\ UNCHANGED <<reader, log, notifier, socket, wake, flight, tab, streamed, bridge, opens, sse, pager>>

\* A refusal, a lost answer, or one after the 30 seconds of a request.
HistoryFails(c) ==
    /\ call[c].pc \in {"asked", "answered"}
    /\ call' = [call EXCEPT ![c] = IdleCall]
    /\ UNCHANGED <<reader, log, notifier, socket, wake, flight, tab, streamed, bridge, opens, sse, pager>>

\* What is on its way to a session is not of the stream that will continue its page.
Disown(s) ==
    /\ wake'   = [wake EXCEPT ![s] = @ \o flight[s]]
    /\ flight' = [flight EXCEPT ![s] = <<>>]

\* loadHistory ends and subscribeStream begins, with no event between: the page replaces
\* what was shown, the cursor is set where the page ends, and the stream of the session
\* that was open before is closed first.
Resume_LastFrame(s, page) ==
    IF Frames(s, page) = <<>> THEN 0 ELSE Last(Frames(s, page))
Resume(s, page) == page.hi
Load(c) ==
    /\ call[c].pc = "answered"
    /\ LET s == call[c].session
       IN  /\ tab' = [tab EXCEPT ![s] = [shown  |-> Frames(s, call[c]), from |-> call[c].lo,
                                         resume |-> Resume(s, call[c]), by |-> c,
                                         exact  |-> TRUE]]
           /\ call' = [call EXCEPT
                 ![c].pc    = IF streamed \in {Nowhere, s} THEN "opening" ELSE "closing",
                 ![c].other = streamed, ![c].hi = Resume(s, call[c])]
           /\ socket' = [socket EXCEPT ![s].own = FALSE] /\ Disown(s)
    /\ bridge' = Append(bridge, c)
    /\ UNCHANGED <<reader, log, notifier, streamed, opens, sse, pager>>

\* The native half takes the next request: closeStream, or stream, which replaces the
\* socket the session had.  What is in flight stays so.
Serve(c) ==
    /\ bridge # <<>> /\ Head(bridge) = c
    /\ bridge' = Tail(bridge)
    /\ \/ /\ call[c].pc = "closing"
          /\ socket' = [socket EXCEPT ![call[c].other] = Closed]
          /\ CallGoes(c, "closed") /\ UNCHANGED <<wake, flight>>
       \/ /\ call[c].pc = "opening"
          /\ LET s == call[c].session
             IN  /\ socket' = [socket EXCEPT ![s] = [up |-> TRUE, own |-> tab[s].by = c,
                                                     cursor |-> call[c].hi, frames |-> <<>>]]
                 /\ IF tab[s].by = c THEN UNCHANGED <<wake, flight>> ELSE Disown(s)
          /\ CallGoes(c, "opened")
    /\ UNCHANGED <<reader, log, notifier, tab, streamed, opens, sse, pager>>

\* The cursor is the one events have left by now.
Subscribe(c) ==
    /\ call[c].pc = "closed"
    /\ streamed' = Nowhere
    /\ call' = [call EXCEPT ![c].pc = "opening", ![c].hi = tab[call[c].session].resume]
    /\ bridge' = Append(bridge, c)
    /\ UNCHANGED <<reader, log, notifier, socket, wake, flight, tab, opens, sse, pager>>

Subscribed(c) ==
    /\ call[c].pc = "opened"
    /\ streamed' = call[c].session
    /\ call' = [call EXCEPT ![c] = IdleCall]
    /\ UNCHANGED <<reader, log, notifier, socket, wake, flight, tab, bridge, opens, sse, pager>>

-----------------------------------------------------------------------------
(* The live stream *)

\* event_stream_batch: the cursor moves to the last row that was read.
NextCursor_Head(s, page) == Head0(s)
NextCursor(s, page) == page.hi
ReadBatch(s) ==
    /\ socket[s].up /\ socket[s].frames = <<>> /\ socket[s].cursor < Head0(s)
    /\ LET page == After(s, socket[s].cursor, BatchLimit)
       IN  socket' = [socket EXCEPT ![s].frames = Frames(s, page),
                                    ![s].cursor = NextCursor(s, page)]
    /\ UNCHANGED <<reader, log, notifier, wake, flight, tab, streamed, call, bridge, opens, sse, pager>>

\* The native half sends on to the renderer.
SentOn(s, n) ==
    IF socket[s].own
    THEN flight' = [flight EXCEPT ![s] = Append(@, n)] /\ UNCHANGED wake
    ELSE wake' = [wake EXCEPT ![s] = Append(@, n)] /\ UNCHANGED flight

SendFrame(s) ==
    /\ socket[s].frames # <<>>
    /\ socket' = [socket EXCEPT ![s].frames = Tail(@)]
    /\ SentOn(s, Head(socket[s].frames))
    /\ UNCHANGED <<reader, log, notifier, tab, streamed, call, bridge, opens, sse, pager>>

\* The socket closes, or fails: one statement to the renderer, and no reconnect.
Drop(s) ==
    /\ socket[s].up
    /\ socket' = [socket EXCEPT ![s] = Closed]
    /\ SentOn(s, 0)
    /\ UNCHANGED <<reader, log, notifier, tab, streamed, call, bridge, opens, sse, pager>>

\* receive: a frame is shown and its cursor is kept, whichever stream sent it.
\* channelDown does not ask which session's stream it was.
Shown(s, n, continues) ==
    IF n = 0 THEN streamed' = Nowhere /\ UNCHANGED tab
    ELSE /\ tab' = [tab EXCEPT ![s].shown = Append(@, n), ![s].resume = n,
                               ![s].exact = @ /\ continues]
         /\ UNCHANGED streamed

Receive(s) ==
    /\ \/ /\ wake[s] # <<>> /\ Shown(s, Head(wake[s]), FALSE)
          /\ wake' = [wake EXCEPT ![s] = Tail(@)] /\ UNCHANGED flight
       \/ /\ wake[s] = <<>> /\ flight[s] # <<>> /\ Shown(s, Head(flight[s]), TRUE)
          /\ flight' = [flight EXCEPT ![s] = Tail(@)] /\ UNCHANGED wake
    /\ UNCHANGED <<reader, log, notifier, socket, call, bridge, opens, sse, pager>>

-----------------------------------------------------------------------------
(* The SSE route *)

SseGoes(pc) == sse' = [sse EXCEPT !.pc = pc]

\* The generation is read before the history.
SseConnect(s) ==
    /\ reader = "sse" /\ sse.pc = "off"
    /\ \E after \in 0..Head0(s) :
          sse' = [pc |-> "history", session |-> s, cursor |-> after,
                  generation |-> notifier.generation]
    /\ UNCHANGED <<reader, log, notifier, desk, pager>>

SseHistory ==
    /\ sse.pc = "history"
    /\ sse' = [sse EXCEPT !.pc = "list", !.cursor = After(sse.session, @, BatchLimit).hi]
    /\ UNCHANGED <<reader, log, notifier, desk, pager>>

SseList ==
    /\ sse.pc = "list"
    /\ LET page == After(sse.session, sse.cursor, BatchLimit)
       IN  IF page.hi = page.lo THEN SseGoes("waiting")
           ELSE sse' = [sse EXCEPT !.pc = "again", !.cursor = page.hi]
    /\ UNCHANGED <<reader, log, notifier, desk, pager>>

\* After a batch the generation is read again, and then the log.
SseAgain_Waits ==
    /\ sse.pc = "again"
    /\ sse' = [sse EXCEPT !.pc = "waiting", !.generation = notifier.generation]
    /\ UNCHANGED <<reader, log, notifier, desk, pager>>
SseAgain ==
    /\ sse.pc = "again"
    /\ sse' = [sse EXCEPT !.pc = "list", !.generation = notifier.generation]
    /\ UNCHANGED <<reader, log, notifier, desk, pager>>

\* wait_after: another generation, or 15 seconds and a keepalive; either way the log
\* is read again.
SseWake_OnNews ==
    /\ sse.pc = "waiting" /\ notifier.generation # sse.generation
    /\ sse' = [sse EXCEPT !.pc = "list", !.generation = notifier.generation]
    /\ UNCHANGED <<reader, log, notifier, desk, pager>>
SseWake ==
    /\ sse.pc = "waiting"
    /\ sse' = [sse EXCEPT !.pc = "list", !.generation = notifier.generation]
    /\ UNCHANGED <<reader, log, notifier, desk, pager>>

Sse == SseHistory \/ SseList \/ SseAgain \/ SseWake

-----------------------------------------------------------------------------
(* history.snapshot with its cursors *)

PageLatest(s) ==
    /\ reader = "pager" /\ pager.session = Nowhere
    /\ pager' = [session |-> s, seen |-> Frames(s, Latest(s)), lo |-> Latest(s).lo,
                 hi |-> Latest(s).hi]
    /\ UNCHANGED <<reader, log, notifier, desk, sse>>

\* olderCursor: the first row of the page before, exclusive; none when nothing is older.
PageOlder ==
    /\ pager.session # Nowhere /\ pager.lo > 0
    /\ LET page == Before(pager.lo + 1, PageLimit)
       IN  pager' = [pager EXCEPT !.seen = Frames(pager.session, page) \o @, !.lo = page.lo]
    /\ UNCHANGED <<reader, log, notifier, desk, sse>>

\* resumeCursor: by the rows that were returned.
PageForward ==
    /\ pager.session # Nowhere /\ pager.hi < Head0(pager.session)
    /\ LET page == After(pager.session, pager.hi, PageLimit)
       IN  pager' = [pager EXCEPT !.seen = @ \o Frames(pager.session, page),
                                  !.hi = NextCursor(pager.session, page)]
    /\ UNCHANGED <<reader, log, notifier, desk, sse>>

-----------------------------------------------------------------------------
CallStep(c) == HistoryRead(c) \/ Load(c) \/ Serve(c) \/ Subscribe(c) \/ Subscribed(c)

FeedNext ==
    \/ \E s \in Sessions :
          \/ AppendEvent(s) \/ ReadBatch(s) \/ SendFrame(s) \/ Drop(s) \/ Receive(s)
          \/ SseConnect(s) \/ PageLatest(s)
          \/ \E c \in Calls : OpenSession(c, s)
    \/ \E c \in Calls : CallStep(c) \/ HistoryFails(c)
    \/ Notify \/ Sse \/ PageOlder \/ PageForward

FeedSpec == FeedInit /\ [][FeedNext]_feedVars

\* Threads and event loops run on, and the 15 seconds pass.
FairFeedSpec ==
    /\ FeedSpec
    /\ WF_feedVars(Notify) /\ WF_feedVars(Sse)
    /\ \A s \in Sessions :
          WF_feedVars(ReadBatch(s)) /\ WF_feedVars(SendFrame(s)) /\ WF_feedVars(Receive(s))
    /\ \A c \in Calls : WF_feedVars(CallStep(c))

-----------------------------------------------------------------------------
(* Properties *)

\* A reader has every frame between where it began and its cursor, once and in order, and
\* the numbers it sees have no gap: the page and the stream it joins neither lose nor repeat
\* an event (client.ts:341-342, handlers.py:2340-2342).  The desktop keeps this until it is
\* handed a frame of a stream its page does not end in: one that was there before and was
\* not replaced yet, or that of an openSession which overlaps; it then may show one twice.
Lists(seen, s, lo, hi) == ToSet(seen) = Framed(s, lo, hi) /\ Increasing(seen)
FeedIsExact ==
    /\ \A s \in Sessions : tab[s].exact =>
          /\ Lists(tab[s].shown, s, tab[s].from, tab[s].resume)
          /\ \A i \in 1..Len(tab[s].shown) - 1 :
                log[s][tab[s].shown[i + 1]] = log[s][tab[s].shown[i]] + 1
    /\ pager.session # Nowhere => Lists(pager.seen, pager.session, pager.lo, pager.hi)

\* A reader of the SSE route that sleeps has seen every event whose notify is over: a
\* wakeup is not lost between its last look at the log and its wait.
NoWakeupIsLost ==
    sse.pc = "waiting" /\ sse.generation = notifier.generation =>
        notifier.told[sse.session] <= sse.cursor

\* A stream that stays up catches up with the log, again and again; so does the SSE
\* route, with the events that nobody notifies too.
Followed(s) == socket[s].up /\ tab[s].exact
Caught(s) == \A n \in tab[s].resume + 1..Head0(s) : log[s][n] = 0
SseCaught == sse.pc # "off" /\ sse.cursor = Head0(sse.session)
EventsArrive ==
    /\ \A s \in Sessions : Followed(s) ~> (~Followed(s) \/ Caught(s))
    /\ (sse.pc # "off") ~> SseCaught
=============================================================================
