-------------------------------- MODULE Accounts --------------------------------
(***************************************************************************)
(* The login state of one managed account: turns of the profiles bound to   *)
(* it materialise the stored asset into their home, the Harness may renew   *)
(* it there, and the completion copies it back under the account's lock     *)
(* file; the wire imports a login state from a file.                        *)
(*                                                                         *)
(* Turns run on threads of their own, each with a home of its own; wire     *)
(* methods run one after the other on the event loop.  The secret store     *)
(* and the account's row share no transaction, and the process may die      *)
(* between any two steps.  The content of an asset stands for its digest.   *)
(***************************************************************************)
EXTENDS Integers, Sequences

CONSTANTS
    Turns,          \* turns bound to the account
    Keys,           \* requestIds of accounts.importAsset, each over a file of its own
    NULL,
    MaxRequests,    \* bound: executions of importAsset
    MaxCrashes      \* bound

ASSUME AccountsAssumption ==
    /\ NULL \notin Turns \cup Keys /\ Turns \cap Keys = {}
    /\ MaxRequests \in Nat /\ MaxCrashes \in Nat

Content == Turns \cup Keys      \* a login state is known by who made it

VARIABLES
    kind,       \* the SecretStore: of the platform, or the one the tests inject
    assets,     \* what import_file stored; the index is the credential's id
    record,     \* the account's row
    receipts,   \* server_idempotency, scope accounts.importAsset
    lock,       \* reclaim.lock, and whose turn created it
    turn,
    loop,       \* the import the event loop executes
    writer,     \* history: whose record the row holds
    crossed,    \* history: writers that meet a turn between its check and its record
    requests, crashes

vars == <<kind, assets, record, receipts, lock, turn, loop, writer, crossed,
          requests, crashes>>
history == <<writer, crossed>>

Ids == 1..Len(assets)
Row == [locator : 0..Len(assets), digest : Content \cup {NULL},
        state : {"unknown", "valid"}]
Idle == [pc |-> "idle", key |-> NULL, id |-> 0, state |-> "unknown"]
Fresh == [pc |-> "new", seen |-> NULL, copy |-> NULL, id |-> 0]

TypeOK ==
    /\ kind \in {"dpapi", "memory"}
    /\ assets \in Seq(Content) /\ record \in Row
    /\ receipts \subseteq Keys
    /\ lock \in Turns \cup {NULL}
    /\ writer \in Content \cup {NULL} /\ crossed \in [Turns -> SUBSET Content]
    /\ turn \in [Turns -> [pc : {"new", "running", "working", "locked", "checked",
                                 "stored", "refused", "unlocked", "over", "dead"},
                           seen : Content \cup {NULL}, copy : Content \cup {NULL},
                           id : 0..Len(assets)]]
    /\ loop \in [pc : {"idle", "check", "store", "record", "save"},
                 key : Keys \cup {NULL}, id : 0..Len(assets), state : {"unknown", "valid"}]
    /\ requests \in 0..MaxRequests /\ crashes \in 0..MaxCrashes

Init ==
    /\ kind \in {"dpapi", "memory"}
    /\ assets = <<>> /\ receipts = {} /\ lock = NULL
    /\ record = [locator |-> 0, digest |-> NULL, state |-> "unknown"]
    /\ turn = [t \in Turns |-> Fresh] /\ loop = Idle
    /\ writer = NULL /\ crossed = [t \in Turns |-> {}] /\ requests = 0 /\ crashes = 0

-----------------------------------------------------------------------------
(* The store and the row *)

Step(t, pc) == turn' = [turn EXCEPT ![t].pc = pc]

\* The platform's store reads by the name of its file; write_asset keeps the
\* credential's id, which only the other store takes for a name.
Readable(id) == kind = "memory"

\* record_asset: the reference, the digest and the state in one UPDATE.
Recorded_DigestOnly(id, state) ==
    record' = [record EXCEPT !.digest = assets[id], !.state = state,
                             !.locator = IF @ = 0 THEN id ELSE @]
Recorded(id, state) ==
    record' = [locator |-> id, digest |-> assets[id], state |-> state]

\* Between its check, which found the asset it had materialised, and its record.
Committed(t) == turn[t].pc \in {"checked", "stored", "unlocked"}

-----------------------------------------------------------------------------
(* A turn *)

\* The port's factory reads locator and digest in one row, and then the asset; it is
\* written into the home.  An asset that cannot be read fails the turn.
Materialize(t) ==
    /\ turn[t].pc = "new"
    /\ IF record.locator = 0
       THEN turn' = [turn EXCEPT ![t].pc = "running"]
       ELSE IF Readable(record.locator)
       THEN turn' = [turn EXCEPT ![t] = [pc |-> "running", seen |-> record.digest,
                                         copy |-> assets[record.locator], id |-> 0]]
       ELSE Step(t, "over")
    /\ UNCHANGED <<kind, assets, record, receipts, lock, loop, history, requests,
                   crashes>>

\* The Harness logs in, or renews its login.
Renew(t) ==
    /\ turn[t].pc = "running"
    /\ turn' = [turn EXCEPT ![t].copy = t]
    /\ UNCHANGED <<kind, assets, record, receipts, lock, loop, history, requests,
                   crashes>>

\* read_subscription; a turn that failed never comes here, and a working copy that is
\* absent or cannot be read is no working copy.
ReadBack(t) ==
    /\ turn[t].pc = "running"
    /\ \/ turn[t].copy # NULL /\ Step(t, "working")
       \/ Step(t, "over")
    /\ UNCHANGED <<kind, assets, record, receipts, lock, loop, history, requests,
                   crashes>>

\* acquire_reclaim_lock: the file is created, or is there and the reclaim is refused,
\* whatever its age.
Free_Stolen == TRUE
Free == lock = NULL
Lock(t) ==
    /\ turn[t].pc = "working"
    /\ IF Free THEN lock' = t /\ Step(t, "locked")
       ELSE UNCHANGED lock /\ Step(t, "over")
    /\ UNCHANGED <<kind, assets, record, receipts, loop, history, requests,
                   crashes>>

\* The turn meets those that have let go of the lock and did not write the row yet.
Met(t) == {u \in Turns \ {t} : turn[u].pc = "unlocked"}

Unmoved_Unchecked(t) == TRUE
Unmoved(t) == record.digest = turn[t].seen
Check(t) ==
    /\ turn[t].pc = "locked"
    /\ \/ /\ Unmoved(t) /\ Step(t, "checked")
          /\ crossed' = [u \in Turns |-> IF u = t THEN Met(t)
                                        ELSE IF u \in Met(t) THEN crossed[u] \cup {t}
                                        ELSE crossed[u]]
       \/ ~Unmoved(t) /\ Step(t, "refused") /\ UNCHANGED crossed
    /\ UNCHANGED <<kind, assets, record, receipts, lock, loop, writer, requests,
                   crashes>>

\* write_asset, which may raise.
Store(t) ==
    /\ turn[t].pc = "checked"
    /\ \/ /\ assets' = Append(assets, turn[t].copy)
          /\ turn' = [turn EXCEPT ![t].pc = "stored", ![t].id = Len(assets) + 1]
       \/ Step(t, "refused") /\ UNCHANGED assets
    /\ UNCHANGED <<kind, record, receipts, lock, loop, history, requests,
                   crashes>>

\* The finally of reclaim().
Unlock(t) ==
    /\ turn[t].pc \in {"stored", "refused"}
    /\ lock' = NULL
    /\ Step(t, IF turn[t].pc = "stored" THEN "unlocked" ELSE "over")
    /\ UNCHANGED <<kind, assets, record, receipts, loop, history, requests,
                   crashes>>

\* The caller of reclaim() updates the row, or fails to and logs it.
Record(t) ==
    /\ turn[t].pc = "unlocked"
    /\ Step(t, "over")
    /\ \/ Recorded(turn[t].id, "valid") /\ writer' = t
       \/ UNCHANGED <<record, writer>>
    /\ UNCHANGED <<kind, assets, receipts, lock, loop, crossed, requests, crashes>>

-----------------------------------------------------------------------------
(* accounts.importAsset *)

\* A client sends it, for the first time or again: its answer may have been lost.  The
\* row's state is read here and written back by the record.
Import(k) ==
    /\ loop.pc = "idle" /\ requests < MaxRequests
    /\ requests' = requests + 1
    /\ loop' = [pc |-> "check", key |-> k, id |-> 0, state |-> record.state]
    /\ UNCHANGED <<kind, assets, record, receipts, lock, turn, history, crashes>>

Replayed(k) == k \in receipts
ImportCheck ==
    /\ loop.pc = "check"
    /\ loop' = IF Replayed(loop.key) THEN Idle ELSE [loop EXCEPT !.pc = "store"]
    /\ UNCHANGED <<kind, assets, record, receipts, lock, turn, history, requests,
                   crashes>>

\* No lock, and no look at the digest.  Each step may raise.
ImportStore ==
    /\ loop.pc = "store"
    /\ \/ /\ assets' = Append(assets, loop.key)
          /\ loop' = [loop EXCEPT !.pc = "record", !.id = Len(assets) + 1]
       \/ loop' = Idle /\ UNCHANGED assets
    /\ UNCHANGED <<kind, record, receipts, lock, turn, history, requests, crashes>>

ImportRecord ==
    /\ loop.pc = "record"
    /\ \/ /\ Recorded(loop.id, loop.state) /\ writer' = loop.key
          /\ crossed' = [u \in Turns |-> IF Committed(u) THEN crossed[u] \cup {loop.key}
                                        ELSE crossed[u]]
          /\ loop' = [loop EXCEPT !.pc = "save"]
       \/ /\ loop' = Idle
          /\ UNCHANGED <<record, history>>
    /\ UNCHANGED <<kind, assets, receipts, lock, turn, requests, crashes>>

ImportSave ==
    /\ loop.pc = "save"
    /\ loop' = Idle
    /\ receipts' \in {receipts, receipts \cup {loop.key}}
    /\ UNCHANGED <<kind, assets, record, lock, turn, history, requests, crashes>>

-----------------------------------------------------------------------------
\* The process dies; store, row, receipts and the lock file are there when it is back.
Crash ==
    /\ crashes < MaxCrashes
    /\ crashes' = crashes + 1
    /\ turn' = [t \in Turns |-> IF turn[t].pc \in {"new", "over"} THEN turn[t]
                                ELSE [turn[t] EXCEPT !.pc = "dead"]]
    /\ loop' = Idle
    /\ UNCHANGED <<kind, assets, record, receipts, lock, history, requests>>

Reclaim(t) == Lock(t) \/ Check(t) \/ Store(t) \/ Unlock(t) \/ Record(t)

Next ==
    \/ \E t \in Turns : Materialize(t) \/ Renew(t) \/ ReadBack(t) \/ Reclaim(t)
    \/ \E k \in Keys : Import(k)
    \/ ImportCheck \/ ImportStore \/ ImportRecord \/ ImportSave
    \/ Crash

Spec == Init /\ [][Next]_vars

-----------------------------------------------------------------------------
(* Properties *)

\* The row never names one asset and the digest of another, and what it names is in the
\* store, wherever a writer is overtaken, fails or dies (assets.py:207-209).  Whether the
\* store then reads it by that name is a matter of its kind.
RecordNamesItsAsset ==
    record.locator # 0 =>
        record.locator \in Ids /\ assets[record.locator] = record.digest

\* A reclaim replaces what its turn materialised and nothing newer (assets.py:12-14), but
\* for two ways in which the code lets another's asset be overwritten: an import records
\* between the check and the record, or two reclaims meet while one of them has let go of
\* the lock and has yet to write the row (assets.py:217, its caller's record after that).
\* Two that have both checked under the lock, or one that checks a row another's record
\* has moved, never do.
ReclaimKeepsNewer ==
    [][\A t \in Turns : turn[t].pc = "unlocked" /\ turn'[t].pc = "over" /\ record' # record
            => record.digest = turn[t].seen \/ writer \in crossed[t]]_vars
=============================================================================
