----------------------------- MODULE SessionLedger -----------------------------
(***************************************************************************)
(* The session ledger: sessions, profiles, turns and queued messages as    *)
(* rows of one SQLite database.  Every operation of SessionRecords and     *)
(* QueueRecords runs inside one BEGIN IMMEDIATE transaction, so each is    *)
(* one action here; what interleaves is the transactions of different      *)
(* clients, of the turns' own threads, and the death of the process.       *)
(*                                                                         *)
(* Rows are indexed by the identifiers they will carry; a row whose state  *)
(* is "absent" has not been inserted.  submitted_at is the reading of a    *)
(* clock that ticks once per enqueue: the transactions are serial and the  *)
(* wall clock is taken not to run backwards.  Left out because no property *)
(* tells them apart: message text, digests of objects, usage, checkpoint   *)
(* and locator columns, native_generation, the event log, and the version  *)
(* column (a compare-and-set that fails writes nothing, and a replayed     *)
(* receipt writes nothing, so both are stuttering steps).                  *)
(***************************************************************************)
EXTENDS Integers, FiniteSets

CONSTANTS
    Sessions, Profiles, Turns, Items,
    SendIds,       \* requestIds of wire sends (scope "sessions.send")
    TurnKeys,      \* Idempotency-Keys of REST turns (one scope per session)
    Families, Family,      \* harness_type of each profile
    ExclusiveFamilies,     \* families whose home declares "exclusive"
    NULL,                  \* SQL NULL
    MaxRestarts,           \* bound: process deaths
    MaxAbandoned           \* bound: dispatches that raise before a Turn fact

ASSUME LedgerAssumption ==
    /\ Family \in [Profiles -> Families]
    /\ ExclusiveFamilies \subseteq Families
    /\ NULL \notin Sessions \cup Profiles \cup Turns \cup Items
    /\ SendIds \cap TurnKeys = {}
    /\ MaxRestarts \in Nat /\ MaxAbandoned \in Nat

VARIABLES
    session,    \* server_sessions
    profile,    \* server_profiles: run_state, recovery_pending, archived_at
    turn,       \* server_turns
    item,       \* server_queue_items
    receipt,    \* server_idempotency: what an accepted key named
    clock,      \* next submitted_at
    duty,       \* the thread that owes a turn its next step (process memory)
    restarts, abandoned

vars == <<session, profile, turn, item, receipt, clock, duty, restarts, abandoned>>

ActiveStates   == {"accepted", "dispatching", "running", "capturing"}
TerminalStates == {"completed", "failed", "cancelled", "unknown"}
EndedItem      == {"completed", "failed", "cancelled"}

Keys == SendIds \cup TurnKeys

SessionRow == [status : {"absent", "ready", "active", "recovery_required"},
               profile : Profiles \cup {NULL}, archived : BOOLEAN]
ProfileRow == [run_state : {"idle", "active"}, recovery_pending : BOOLEAN,
               archived : BOOLEAN]
TurnRow == [state : {"absent"} \cup ActiveStates \cup TerminalStates,
            session : Sessions \cup {NULL}, profile : Profiles \cup {NULL},
            queue_item : Items \cup {NULL},
            filed : BOOLEAN,            \* work_id, execution_id, dispatch_id set
            sealed : BOOLEAN]           \* error_code SERVER_RESTART_INTERRUPTED
ItemRow == [state : {"absent", "pending", "dispatched", "paused", "withdrawn"}
                    \cup EndedItem,
            session : Sessions \cup {NULL}, profile : Profiles \cup {NULL},
            submitted_at : Nat]
Receipt == [turn : Turns \cup {NULL}, item : Items \cup {NULL}]
ASSUME ReceiptAssumption == NULL \notin Receipt

Duty == {"none", "file", "dispatch", "complete", "abandoned"}

TypeOK ==
    /\ session \in [Sessions -> SessionRow]
    /\ profile \in [Profiles -> ProfileRow]
    /\ turn \in [Turns -> TurnRow]
    /\ item \in [Items -> ItemRow]
    /\ receipt \in [Keys -> Receipt \cup {NULL}]
    /\ clock \in Nat
    /\ duty \in [Turns -> Duty]
    /\ restarts \in 0..MaxRestarts
    /\ abandoned \in 0..MaxAbandoned

-----------------------------------------------------------------------------
(* What the transactions read *)

Active(t) == turn[t].state \in ActiveStates
Exclusive(p) == Family[p] \in ExclusiveFamilies

SessionBusy(s) == \E t \in Turns : Active(t) /\ turn[t].session = s
ProfileBusy(p) == \E t \in Turns : Active(t) /\ turn[t].profile = p

\* Another active Turn of t's profile: the reason not to settle the Profile yet.
Sibling(t) == \E u \in Turns \ {t} : Active(u) /\ turn[u].profile = turn[t].profile

Pending(s) == {i \in Items : item[i].state = "pending" /\ item[i].session = s}

\* ORDER BY submitted_at, id LIMIT 1; equal readings would be told apart by id.
Oldest_Newest(s) ==
    {i \in Pending(s) : \A j \in Pending(s) : item[j].submitted_at <= item[i].submitted_at}
Oldest(s) ==
    {i \in Pending(s) : \A j \in Pending(s) : item[i].submitted_at <= item[j].submitted_at}

\* IdempotentRecords.check: the key has no receipt yet.
Fresh(k) == receipt[k] = NULL

\* accept_intent's refusals on the profile row.
ProfileOpen(p) == ~profile[p].archived /\ ~profile[p].recovery_pending

\* _insert_execution: the exclusive-home check and the partial unique index,
\* seen from inside a transaction that has just ended the turns in `ended`.
InsertAllowed_NoHome(s, p, ended) ==
    \A u \in Turns \ ended : Active(u) => turn[u].session # s
InsertAllowed(s, p, ended) ==
    \A u \in Turns \ ended : Active(u) =>
        /\ turn[u].session # s
        /\ Exclusive(p) => turn[u].profile # p

\* The row _insert_execution writes.
NewTurn(s, p, i) ==
    [state |-> "accepted", session |-> s, profile |-> p, queue_item |-> i,
     filed |-> FALSE, sealed |-> FALSE]

Init ==
    /\ session = [s \in Sessions |->
                    [status |-> "absent", profile |-> NULL, archived |-> FALSE]]
    /\ profile = [p \in Profiles |->
                    [run_state |-> "idle", recovery_pending |-> FALSE,
                     archived |-> FALSE]]
    /\ turn = [t \in Turns |-> [NewTurn(NULL, NULL, NULL) EXCEPT !.state = "absent"]]
    /\ item = [i \in Items |-> [state |-> "absent", session |-> NULL,
                                profile |-> NULL, submitted_at |-> 0]]
    /\ receipt = [k \in Keys |-> NULL]
    /\ clock = 1
    /\ duty = [t \in Turns |-> "none"]
    /\ restarts = 0 /\ abandoned = 0

-----------------------------------------------------------------------------
(* Accepting work *)

\* create_session
CreateSession(s, p) ==
    /\ session[s].status = "absent"
    /\ session' = [session EXCEPT ![s].status = "ready", ![s].profile = p]
    /\ UNCHANGED <<profile, turn, item, receipt, clock, duty, restarts, abandoned>>

\* accept_intent: the winner either starts an execution or joins the queue.
\* sessions.createAndSend names no session and makes one; sessions.send must
\* find the session live and still bound to the profile it read.
AcceptIntent(r, s, p) ==
    /\ Fresh(r)
    /\ \/ session[s].status = "absent"
       \/ /\ session[s].status # "absent"
          /\ ~session[s].archived
          /\ session[s].profile = p
    /\ ProfileOpen(p)
    /\ \/ /\ ~SessionBusy(s)
          /\ InsertAllowed(s, p, {})
          /\ \E t \in Turns :
                /\ turn[t].state = "absent"
                /\ turn' = [turn EXCEPT ![t] = NewTurn(s, p, NULL)]
                /\ duty' = [duty EXCEPT ![t] = "file"]
                /\ receipt' = [receipt EXCEPT ![r] = [turn |-> t, item |-> NULL]]
          /\ session' = [session EXCEPT ![s].status = "active", ![s].profile = p]
          /\ profile' = [profile EXCEPT ![p].run_state = "active"]
          /\ UNCHANGED <<item, clock>>
       \/ /\ SessionBusy(s)
          /\ \E i \in Items :
                /\ item[i].state = "absent"
                /\ item' = [item EXCEPT ![i] =
                              [state |-> "pending", session |-> s, profile |-> p,
                               submitted_at |-> clock]]
                /\ receipt' = [receipt EXCEPT ![r] = [turn |-> NULL, item |-> i]]
          /\ clock' = clock + 1
          /\ UNCHANGED <<session, profile, turn, duty>>
    /\ UNCHANGED <<restarts, abandoned>>

\* create_turn, the REST entry: no queue, and no look at archived_at.
CreateTurn(k, s) ==
    LET p == session[s].profile IN
    /\ Fresh(k)
    /\ session[s].status # "absent"
    /\ ~profile[p].recovery_pending
    /\ InsertAllowed(s, p, {})
    /\ \E t \in Turns :
          /\ turn[t].state = "absent"
          /\ turn' = [turn EXCEPT ![t] = NewTurn(s, p, NULL)]
          /\ duty' = [duty EXCEPT ![t] = "file"]
          /\ receipt' = [receipt EXCEPT ![k] = [turn |-> t, item |-> NULL]]
    /\ profile' = [profile EXCEPT ![p].run_state = "active"]
    /\ session' = [session EXCEPT ![s].status = "active"]
    /\ UNCHANGED <<item, clock, restarts, abandoned>>

\* withdraw: only what is still pending; anything else is answered too_late.
Withdraw(i) ==
    /\ item[i].state = "pending"
    /\ item' = [item EXCEPT ![i].state = "withdrawn"]
    /\ UNCHANGED <<session, profile, turn, receipt, clock, duty, restarts, abandoned>>

\* switch_profile's refusals: within the family, never under an active Turn of
\* the session nor onto a profile that is mid-turn.
SwitchAllowed_MidTurn(s, p) ==
    /\ ~profile[p].archived
    /\ Family[session[s].profile] = Family[p]
    /\ ~ProfileBusy(p)
SwitchAllowed(s, p) ==
    /\ ~profile[p].archived
    /\ ~SessionBusy(s)
    /\ Family[session[s].profile] = Family[p]
    /\ ~ProfileBusy(p)

\* switch_profile; the guard of the family's shared store may refuse as well, and a
\* switch to the role the session has only bumps the version.
SwitchProfile(s, p) ==
    /\ session[s].status # "absent" /\ session[s].profile # p
    /\ SwitchAllowed(s, p)
    /\ session' = [session EXCEPT ![s].profile = p]
    /\ UNCHANGED <<profile, turn, item, receipt, clock, duty, restarts, abandoned>>

\* archive_session: allowed at any time, whatever the session is doing.  Archiving
\* again only bumps the version, and is a stuttering step.
ArchiveSession(s) ==
    /\ session[s].status # "absent" /\ ~session[s].archived
    /\ session' = [session EXCEPT ![s].archived = TRUE]
    /\ UNCHANGED <<profile, turn, item, receipt, clock, duty, restarts, abandoned>>

\* ProfileRecords.archive: likewise.
ArchiveProfile(p) ==
    /\ ~profile[p].archived
    /\ profile' = [profile EXCEPT ![p].archived = TRUE]
    /\ UNCHANGED <<session, turn, item, receipt, clock, duty, restarts, abandoned>>

-----------------------------------------------------------------------------
(* Driving a turn: its own threads, through the transactions they call *)

\* _settle_profile_after_turn: only the last active Turn of a Profile settles it.
Settled_IgnoringSiblings(t, evidence) ==
    [profile EXCEPT ![turn[t].profile].run_state = "idle",
                    ![turn[t].profile].recovery_pending = evidence]
Settled(t, evidence) ==
    IF Sibling(t) THEN profile
    ELSE [profile EXCEPT ![turn[t].profile].run_state = "idle",
                         ![turn[t].profile].recovery_pending = evidence]

\* recovery_pending=None: the column is left as it is.
KeepEvidence(t) == profile[turn[t].profile].recovery_pending

\* mark_terminal: the item that t was claimed from, if it is still dispatched.
MarkedTerminal_Forgotten(t, state) == item
MarkedTerminal(t, state) ==
    [i \in Items |-> IF i = turn[t].queue_item /\ item[i].state = "dispatched"
                     THEN [item[i] EXCEPT !.state = state] ELSE item[i]]

\* pause_pending over what mark_terminal left.
Paused_NotAtAll(s, items) == items
Paused(s, items) ==
    [i \in Items |-> IF i \in Pending(s) THEN [items[i] EXCEPT !.state = "paused"]
                     ELSE items[i]]

\* file_core_records: after the accepting transaction, by the same caller; the
\* row's state is written again with the Core links.
FileCoreRecords(t) ==
    /\ duty[t] = "file"
    /\ turn' = [turn EXCEPT ![t].filed = TRUE, ![t].state = "accepted"]
    /\ duty' = [duty EXCEPT ![t] = "dispatch"]
    /\ UNCHANGED <<session, profile, item, receipt, clock, restarts, abandoned>>

\* The filer, or the reads that accept() makes before its try, raise: nothing is
\* written and no caller tries this Turn again (a retried requestId is a replay).
Abandon(t) ==
    /\ duty[t] \in {"file", "dispatch"}
    /\ abandoned < MaxAbandoned
    /\ duty' = [duty EXCEPT ![t] = "abandoned"]
    /\ abandoned' = abandoned + 1
    /\ UNCHANGED <<session, profile, turn, item, receipt, clock, restarts>>

\* accept() up to set_turn_dispatch(state="running"); a row without its Core
\* identity is refused.
DispatchTurn(t) ==
    /\ duty[t] = "dispatch"
    /\ turn[t].filed
    /\ turn' = [turn EXCEPT ![t].state = "running"]
    /\ duty' = [duty EXCEPT ![t] = "complete"]
    /\ UNCHANGED <<session, profile, item, receipt, clock, restarts, abandoned>>

\* complete_turn: the Turn ends and, in the same transaction, the oldest pending
\* item becomes the session's next Turn.  A refused insert rolls all of it back.
CompleteTurn(t) ==
    LET s    == turn[t].session
        done == [turn EXCEPT ![t].state = "completed"]
        kept == Settled(t, KeepEvidence(t))
        rest == MarkedTerminal(t, "completed")
    IN
    /\ duty[t] = "complete"
    /\ turn[t].state \in {"running", "capturing"}
    /\ \/ /\ Pending(s) = {}
          /\ turn' = done
          /\ profile' = kept
          /\ item' = rest
          /\ session' = [session EXCEPT ![s].status = "ready"]
          /\ duty' = [duty EXCEPT ![t] = "none"]
       \/ /\ Pending(s) # {}
          /\ \E i \in Oldest(s) :
                LET p == item[i].profile IN
                /\ InsertAllowed(s, p, {t})
                /\ \E u \in Turns :
                      /\ turn[u].state = "absent"
                      /\ turn' = [done EXCEPT ![u] = NewTurn(s, p, i)]
                      /\ duty' = [duty EXCEPT ![t] = "none", ![u] = "file"]
                /\ item' = [rest EXCEPT ![i].state = "dispatched"]
                /\ profile' = [kept EXCEPT ![p].run_state = "active"]
          /\ session' = [session EXCEPT ![s].status = "active"]
    /\ UNCHANGED <<receipt, clock, restarts, abandoned>>

\* finish_cancelled: a confirmed stop, or the harness's own cancellation.
FinishCancelled(t) ==
    /\ duty[t] = "complete"
    /\ turn[t].state \notin TerminalStates
    /\ turn' = [turn EXCEPT ![t].state = "cancelled"]
    /\ session' = [session EXCEPT ![turn[t].session].status = "ready"]
    /\ profile' = Settled(t, KeepEvidence(t))
    /\ item' = Paused(turn[t].session, MarkedTerminal(t, "cancelled"))
    /\ duty' = [duty EXCEPT ![t] = "none"]
    /\ UNCHANGED <<receipt, clock, restarts, abandoned>>

\* fail_turn, from accept()'s handler or from the completion thread.  The codes
\* WORKER_DISCONNECTED and DISPATCH_AMBIGUOUS leave the outcome unknown.
FailTurn(t, ambiguous) ==
    LET recovery == ambiguous \/ turn[t].state \in {"running", "capturing"} IN
    /\ duty[t] \in {"dispatch", "complete"}
    /\ turn[t].state \notin TerminalStates
    /\ turn' = [turn EXCEPT ![t].state = IF ambiguous THEN "unknown" ELSE "failed"]
    /\ session' = [session EXCEPT ![turn[t].session].status =
                     IF recovery THEN "recovery_required" ELSE "ready"]
    /\ profile' = Settled(t, recovery)
    /\ item' = Paused(turn[t].session, MarkedTerminal(t, "failed"))
    /\ duty' = [duty EXCEPT ![t] = "none"]
    /\ UNCHANGED <<receipt, clock, restarts, abandoned>>

\* A new process owes the turns it finds nothing: they are never redispatched.
SurvivingDuty == [t \in Turns |-> "none"]

\* The process dies and the next one seals what it finds before serving: every
\* active Turn becomes unknown.  The sealing loop leaves each profile it touched
\* idle with recovery evidence, and does not look at the queue.
Restart ==
    /\ restarts < MaxRestarts
    /\ restarts' = restarts + 1
    /\ turn' = [t \in Turns |-> IF Active(t)
                  THEN [turn[t] EXCEPT !.state = "unknown", !.sealed = TRUE]
                  ELSE turn[t]]
    /\ session' = [s \in Sessions |-> IF SessionBusy(s)
                     THEN [session[s] EXCEPT !.status = "recovery_required"]
                     ELSE session[s]]
    /\ profile' = [p \in Profiles |-> IF ProfileBusy(p)
                     THEN [profile[p] EXCEPT !.run_state = "idle",
                                             !.recovery_pending = TRUE]
                     ELSE profile[p]]
    /\ duty' = SurvivingDuty
    /\ UNCHANGED <<item, receipt, clock, abandoned>>

Client ==
    \/ \E s \in Sessions : ArchiveSession(s) \/ \E p \in Profiles : CreateSession(s, p)
    \/ \E s \in Sessions, p \in Profiles :
          SwitchProfile(s, p) \/ \E r \in SendIds : AcceptIntent(r, s, p)
    \/ \E s \in Sessions, k \in TurnKeys : CreateTurn(k, s)
    \/ \E i \in Items : Withdraw(i)
    \/ \E p \in Profiles : ArchiveProfile(p)

Worker(t) ==
    \/ FileCoreRecords(t)
    \/ Abandon(t)
    \/ DispatchTurn(t)
    \/ CompleteTurn(t)
    \/ FinishCancelled(t)
    \/ \E ambiguous \in BOOLEAN : FailTurn(t, ambiguous)

Next == Client \/ (\E t \in Turns : Worker(t)) \/ Restart

Spec == Init /\ [][Next]_vars

-----------------------------------------------------------------------------
(* What the ledger promises *)

\* A session whose running Turn was once sealed by a restart: its queue was left
\* as it stood, which is what several promises below have to except.
Sealed(s) == \E t \in Turns : turn[t].sealed /\ turn[t].session = s

\* At most one Turn of a session is active, whichever entry accepted it and
\* however a completion chains into the queue (server_one_active_turn_per_session).
OneActiveTurn ==
    \A t, u \in Turns :
        Active(t) /\ Active(u) /\ turn[t].session = turn[u].session => t = u

\* A profile whose family declares its home "exclusive" runs at most one Turn,
\* over all sessions, the queue's successors included (order 67's narrowed lock).
ExclusiveHome ==
    \A t, u \in Turns :
        /\ Active(t) /\ Active(u)
        /\ turn[t].profile = turn[u].profile
        /\ Exclusive(turn[t].profile)
        => t = u

\* The denormalised columns agree with the turns they summarise: a session reads
\* "active" and a profile reads "active" exactly while one of their turns is.
StatusTracksTurns ==
    /\ \A s \in Sessions : (session[s].status = "active") <=> SessionBusy(s)
    /\ \A p \in Profiles : (profile[p].run_state = "active") <=> ProfileBusy(p)

\* An item that left the queue for a Turn mirrors that Turn, and only that one:
\* dispatched while it is active, then the matching end (left dispatched only
\* when a restart sealed the Turn).
ItemMirrorsTurn ==
    /\ \A i \in Items : item[i].state \in {"dispatched"} \cup EndedItem =>
          \E t \in Turns :
             /\ turn[t].queue_item = i
             /\ \A u \in Turns : turn[u].queue_item = i => u = t
             /\ CASE Active(t) \/ turn[t].sealed      -> item[i].state = "dispatched"
                  [] turn[t].state = "completed"      -> item[i].state = "completed"
                  [] turn[t].state = "cancelled"      -> item[i].state = "cancelled"
                  [] OTHER                            -> item[i].state = "failed"
    /\ \A t \in Turns : turn[t].queue_item # NULL =>
          item[turn[t].queue_item].state \in {"dispatched"} \cup EndedItem

\* The successor of a running Turn can always be inserted, so a finished run is
\* never rolled back into a failure, except in a sealed session.
CompletionNotRefused ==
    \A t \in Turns :
        turn[t].state = "running" /\ ~Sealed(turn[t].session) =>
            \A i \in Oldest(turn[t].session) :
                InsertAllowed(turn[t].session, item[i].profile, {t})

\* A Turn that ended never changes its end, and no sealed Turn runs again.
TerminalIsFinal ==
    [][\A t \in Turns : turn[t].state \in TerminalStates =>
          turn'[t].state = turn[t].state]_vars

\* What waits in a session waits behind a running turn, whose end claims from the queue
\* or pauses it: no message stays pending with nobody to come for it.
PendingIsDriven ==
    \A s \in Sessions : ~Sealed(s) => \A i \in Pending(s) : SessionBusy(s)

-----------------------------------------------------------------------------
(* The ledger implements what the sender was promised *)

\* The Turn that runs an accepted key: its own, or the one claimed from its item.
TurnOf(k) ==
    IF receipt[k].item = NULL THEN receipt[k].turn
    ELSE CHOOSE t \in Turns : turn[t].queue_item = receipt[k].item

FateOfTurn(t) == IF Active(t) THEN "running" ELSE turn[t].state

Fate(k) ==
    IF receipt[k] = NULL THEN "unsent"
    ELSE IF receipt[k].item = NULL THEN FateOfTurn(receipt[k].turn)
    ELSE CASE item[receipt[k].item].state = "pending"   -> "waiting"
           [] item[receipt[k].item].state = "paused"    -> "held"
           [] item[receipt[k].item].state = "withdrawn" -> "withdrawn"
           [] OTHER                                     -> FateOfTurn(TurnOf(k))

HomeOf(k) ==
    IF receipt[k] = NULL THEN NULL
    ELSE IF receipt[k].item = NULL THEN turn[receipt[k].turn].session
    ELSE item[receipt[k].item].session

RankOf(k) ==
    IF receipt[k] = NULL \/ receipt[k].item = NULL THEN 0
    ELSE item[receipt[k].item].submitted_at

Promise == INSTANCE SendPromise WITH
    fate <- [k \in Keys |-> Fate(k)], home <- [k \in Keys |-> HomeOf(k)],
    rank <- [k \in Keys |-> RankOf(k)], next <- clock

\* Every step of the rows is a step of the promise or invisible to the sender:
\* one message at a time, oldest first, the queue held by an end that is no
\* success, nothing lost and nothing run twice.
KeepsPromise == Promise!Spec
=============================================================================
