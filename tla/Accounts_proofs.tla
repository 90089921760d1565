---------------------------- MODULE Accounts_proofs ----------------------------
(***************************************************************************)
(* Proofs about two components that hold something outside the database,   *)
(* in two parts that use nothing of each other:                            *)
(*   1. Accounts: the row names what the store has, and a reclaim replaces *)
(*      what its turn materialised, for any number of turns, imports and   *)
(*      crashes;                                                           *)
(*   2. AcpChannel: a run of the managed channel ends when its Harness is  *)
(*      gone, and not before, for any number of callers, connections and   *)
(*      sockets.                                                           *)
(***************************************************************************)
EXTENDS Accounts, AcpChannel, TLAPS

-----------------------------------------------------------------------------
(* The asset of the row *)

Passed == {"checked", "stored", "unlocked"}

\* A reclaim under way has a working copy; from its check to its record the row's digest is
\* the one it has seen, unless one it met has recorded; from the store on its asset is there.
TurnIsBacked(t) ==
    /\ turn[t].pc \in {"working", "locked"} \cup Passed => turn[t].copy # NULL
    /\ turn[t].pc \in {"stored", "unlocked"} => turn[t].id \in Ids
    /\ turn[t].pc \in Passed => record.digest = turn[t].seen \/ writer \in crossed[t]

\* Who is between the lock file and its removal is who created it.
TurnHolds(t) == turn[t].pc \in {"locked", "checked", "stored", "refused"} => lock = t

\* Two reclaims past their check, one of which has let go of the lock, have met: only one
\* holds the lock, so one of them was checked when the other had let go.
HaveMet(t, u) == t # u /\ turn[t].pc \in Passed /\ turn[u].pc = "unlocked"
                    => u \in crossed[t] /\ t \in crossed[u]

LoopIsBacked == /\ loop.pc # "idle" => loop.key \in Keys
                /\ loop.pc \in {"record", "save"} => loop.id \in Ids

IInv ==
    /\ TypeOK
    /\ \A t \in Turns : TurnIsBacked(t) /\ TurnHolds(t)
    /\ \A t, u \in Turns : HaveMet(t, u)
    /\ LoopIsBacked
    /\ RecordNamesItsAsset

\* The store only grows: what was in it stays where it was.
LEMMA StoreGrows ==
    ASSUME TypeOK, NEW x \in Content, assets' = Append(assets, x)
    PROVE  /\ assets' \in Seq(Content) /\ Len(assets)' = Len(assets) + 1 /\ Len(assets) \in Nat
           /\ assets'[Len(assets) + 1] = x
           /\ \A i \in Ids : i \in Ids' /\ assets'[i] = assets[i]
  BY DEF TypeOK, Ids

LEMMA InitInv == Init => IInv
<1>. SUFFICES ASSUME Init PROVE IInv
  OBVIOUS
<1>1. assets = <<>> /\ Len(assets) = 0 /\ assets \in Seq(Content)
  BY DEF Init
<1>2. TypeOK
  BY <1>1, AccountsAssumption DEF Init, TypeOK, Row, Fresh, Idle, Content
<1>3. /\ \A t \in Turns : TurnIsBacked(t) /\ TurnHolds(t)
      /\ \A t, u \in Turns : HaveMet(t, u)
  BY DEF Init, TurnIsBacked, TurnHolds, HaveMet, Passed, Fresh
<1>. QED  BY <1>1, <1>2, <1>3 DEF Init, IInv, LoopIsBacked, RecordNamesItsAsset, Idle

\* A step that stores and records nothing.
LEMMA QuietStep ==
    ASSUME IInv, TypeOK', UNCHANGED <<assets, record>>,
           \A t \in Turns : TurnIsBacked(t)' /\ TurnHolds(t)',
           \A t, u \in Turns : HaveMet(t, u)', LoopIsBacked'
    PROVE  IInv'
  BY DEF IInv, RecordNamesItsAsset, Ids

\* A step that leaves the turns, the lock and the meetings alone, or adds meetings.
LEMMA SameMeetings ==
    ASSUME IInv, UNCHANGED <<turn, lock>>,
           \A t \in Turns : crossed[t] \subseteq crossed'[t]
    PROVE  (\A t \in Turns : TurnHolds(t)') /\ \A t, u \in Turns : HaveMet(t, u)'
  BY DEF IInv, TurnHolds, HaveMet

LEMMA TurnStepInv ==
    ASSUME IInv, NEW t \in Turns,
           Materialize(t) \/ Renew(t) \/ ReadBack(t) \/ Lock(t) \/ Check(t) \/ Unlock(t)
    PROVE  IInv'
<1>. USE DEF IInv
<1>0. UNCHANGED <<kind, assets, record, receipts, loop, writer, requests, crashes>>
  BY DEF Materialize, Renew, ReadBack, Lock, Check, Unlock, history
<1> DEFINE pcs == {"new", "running", "working", "locked", "checked",
                   "stored", "refused", "unlocked", "over", "dead"}
           row == [pc : pcs, seen : Content \cup {NULL}, copy : Content \cup {NULL},
                   id : 0..Len(assets)]
<1>row. turn \in [Turns -> row] /\ lock \in Turns \cup {NULL} /\ crossed \in [Turns -> SUBSET Content]
  BY DEF TypeOK
<1>1. turn' \in [Turns -> row]
  <2>1. ASSUME NEW pc \in pcs, Step(t, pc) PROVE turn' \in [Turns -> row]
    BY <1>row, <2>1 DEF Step
  <2>2. ASSUME NEW r \in row, turn' = [turn EXCEPT ![t] = r] PROVE turn' \in [Turns -> row]
    <3>. HIDE DEF row
    <3>. QED  BY <1>row, <2>2
  <2>3. CASE Materialize(t)
    <3>1. record.locator # 0 => record.digest \in Content \cup {NULL} /\ assets[record.locator] \in Content
      BY DEF TypeOK, Row, RecordNamesItsAsset, Ids
    <3>2. 0 \in 0..Len(assets)
      BY DEF TypeOK
    <3>. DEFINE made == [pc |-> "running", seen |-> record.digest, copy |-> assets[record.locator], id |-> 0]
    <3>3. record.locator # 0 => made \in row
      BY <3>1, <3>2
    <3>. HIDE DEF row
    <3>. QED  BY <2>1, <2>2, <2>3, <3>3 DEF Materialize, Step
  <2>4. CASE Renew(t)
    BY <1>row, <2>4 DEF Renew, Content
  <2>5. CASE ReadBack(t) \/ Lock(t) \/ Check(t) \/ Unlock(t)
    <3>. HIDE DEF row
    <3>. QED  BY <2>1, <2>5 DEF ReadBack, Lock, Check, Unlock
  <2>. QED  BY <2>3, <2>4, <2>5
<1>7. lock' \in Turns \cup {NULL} /\ crossed' \in [Turns -> SUBSET Content]
  <2>. HIDE DEF row
  <2>. QED  BY <1>row DEF Materialize, Renew, ReadBack, Lock, Check, Unlock, Met, Content, history
<1>8. ASSUME NEW u \in Turns, u # t PROVE crossed[u] \subseteq crossed'[u] /\ turn'[u] = turn[u]
  <2>. HIDE DEF row
  <2>1. turn'[u] = turn[u]
    BY <1>row, <1>8 DEF Materialize, Renew, ReadBack, Lock, Check, Unlock, Step
  <2>2. crossed[u] \subseteq crossed'[u]
    BY <1>row, <1>8 DEF Materialize, Renew, ReadBack, Lock, Check, Unlock, history
  <2>. QED  BY <2>1, <2>2
<1>2. TypeOK'
  BY <1>0, <1>1, <1>7 DEF TypeOK, Row
<1>3. ASSUME NEW u \in Turns PROVE TurnIsBacked(u)'
  <2>1. CASE u = t
    BY <1>0, <2>1 DEF Materialize, Renew, ReadBack, Lock, Check, Unlock, Unmoved, TurnIsBacked, Passed, TypeOK, Step, Ids, history
  <2>2. CASE u # t
    BY <1>0, <1>8, <2>2 DEF TurnIsBacked, Ids
  <2>. QED  BY <2>1, <2>2
<1>4. ASSUME NEW u \in Turns PROVE TurnHolds(u)'
  <2>1. CASE Lock(t)
    <3>1. CASE lock = NULL /\ lock' = t /\ Step(t, "locked")
      BY <3>1, <1>4, AccountsAssumption DEF TurnHolds, TypeOK, Step
    <3>2. CASE UNCHANGED lock /\ Step(t, "over")
      BY <3>2, <1>4 DEF TurnHolds, TypeOK, Step
    <3>. QED  BY <2>1, <3>1, <3>2 DEF Lock, Free
  <2>2. CASE Unlock(t)
    BY <2>2, <1>4 DEF Unlock, TurnHolds, TypeOK, Step
  <2>3. CASE Materialize(t) \/ Renew(t) \/ ReadBack(t) \/ Check(t)
    BY <2>3, <1>4 DEF Materialize, Renew, ReadBack, Check, TurnHolds, TypeOK, Step
  <2>. QED  BY <2>1, <2>2, <2>3
<1>5. ASSUME NEW u \in Turns, NEW v \in Turns PROVE HaveMet(u, v)'
  <2>1. CASE Check(t)
    BY <2>1, <1>5 DEF Check, Met, HaveMet, Passed, TypeOK, Step, Content
  <2>2. CASE Unlock(t)
    BY <2>2, <1>5 DEF Unlock, HaveMet, TurnHolds, Passed, TypeOK, Step, history
  <2>3. CASE Materialize(t) \/ Renew(t) \/ ReadBack(t) \/ Lock(t)
    <3>1. turn'[t].pc \notin Passed
      BY <2>3, <1>row DEF Materialize, Renew, ReadBack, Lock, Passed, Step
    <3>2. UNCHANGED crossed
      BY <2>3 DEF Materialize, Renew, ReadBack, Lock, history
    <3>. QED  BY <3>1, <3>2, <1>8, <1>5 DEF HaveMet, Passed
  <2>. QED  BY <2>1, <2>2, <2>3
<1>6. LoopIsBacked'
  BY <1>0 DEF LoopIsBacked, Ids
<1>. QED  BY <1>0, <1>2, <1>3, <1>4, <1>5, <1>6, QuietStep

\* What a record makes of the row.
LEMMA RecordedInv ==
    ASSUME IInv, NEW id \in Ids, NEW state \in {"unknown", "valid"}, Recorded(id, state)
    PROVE  record' \in Row /\ record'.locator = id /\ record'.digest = assets[id]
<1>1. assets[id] \in Content /\ Len(assets) \in Nat
  BY DEF IInv, TypeOK, Ids
<1>. QED  BY <1>1 DEF Recorded, Row, Ids

LEMMA StoreInv == ASSUME IInv, NEW t \in Turns, Store(t) PROVE IInv'
<1>. USE DEF IInv
<1>0. UNCHANGED <<kind, record, receipts, lock, loop, writer, crossed, requests, crashes>>
  BY DEF Store, history
<1>3. /\ \A u \in Turns : TurnHolds(u)'
      /\ \A u, v \in Turns : HaveMet(u, v)'
  <2>1. turn[t].pc = "checked" /\ turn'[t].pc \in {"stored", "refused"}
        /\ \A u \in Turns : u # t => turn'[u] = turn[u]
    BY DEF Store, TypeOK, Step
  <2>. QED  BY <1>0, <2>1 DEF TurnHolds, HaveMet, Passed
<1>1. CASE assets' = assets /\ Step(t, "refused")
  <2>1. TypeOK'
    BY <1>0, <1>1, ZenonT(60) DEF TypeOK, Row, Step
  <2>2. \A u \in Turns : TurnIsBacked(u)'
    BY <1>0, <1>1 DEF TurnIsBacked, Passed, TypeOK, Step, Ids
  <2>3. LoopIsBacked'
    BY <1>0, <1>1 DEF LoopIsBacked, Ids
  <2>. QED  BY <1>0, <1>1, <1>3, <2>1, <2>2, <2>3, QuietStep
<1>2. CASE assets' = Append(assets, turn[t].copy)
           /\ turn' = [turn EXCEPT ![t].pc = "stored", ![t].id = Len(assets) + 1]
  <2>1. turn[t].copy \in Content /\ turn[t].pc = "checked"
    BY DEF Store, TypeOK, TurnIsBacked, Passed
  <2>2. /\ assets' \in Seq(Content) /\ Len(assets)' = Len(assets) + 1 /\ Len(assets) \in Nat
        /\ \A i \in Ids : i \in Ids' /\ assets'[i] = assets[i]
    BY <1>2, <2>1, StoreGrows
  <2>3. 0..Len(assets) \subseteq 0..Len(assets)' /\ Len(assets) + 1 \in Ids'
    BY <2>2 DEF Ids
  <2>4. turn' \in [Turns -> [pc : {"new", "running", "working", "locked", "checked",
                                  "stored", "refused", "unlocked", "over", "dead"},
                            seen : Content \cup {NULL}, copy : Content \cup {NULL},
                            id : 0..Len(assets)']]
    BY <1>2, <2>2, <2>3 DEF TypeOK
  <2>5. TypeOK'
    BY <1>0, <2>2, <2>3, <2>4 DEF TypeOK, Row
  <2>6. \A u \in Turns : TurnIsBacked(u)'
    BY <1>0, <1>2, <2>1, <2>2, <2>3 DEF TurnIsBacked, Passed, TypeOK
  <2>7. LoopIsBacked' /\ RecordNamesItsAsset'
    BY <1>0, <2>2 DEF LoopIsBacked, RecordNamesItsAsset
  <2>. QED  BY <1>3, <2>5, <2>6, <2>7
<1>. QED  BY <1>1, <1>2 DEF Store

LEMMA RecordInv == ASSUME IInv, NEW t \in Turns, Record(t) PROVE IInv'
<1>. USE DEF IInv
<1>0. /\ UNCHANGED <<kind, assets, receipts, lock, loop, crossed, requests, crashes>>
      /\ turn[t].pc = "unlocked" /\ Step(t, "over")
  BY DEF Record
<1>1. LoopIsBacked'
  BY <1>0 DEF LoopIsBacked, Ids
<1>2. /\ \A u \in Turns : TurnHolds(u)'
      /\ \A u, v \in Turns : HaveMet(u, v)'
  BY <1>0 DEF TurnHolds, HaveMet, Passed, TypeOK, Step
<1>3. CASE UNCHANGED <<record, writer>>
  <2>1. TypeOK'
    BY <1>0, <1>3, ZenonT(60) DEF TypeOK, Row, Step
  <2>2. \A u \in Turns : TurnIsBacked(u)'
    BY <1>0, <1>3 DEF TurnIsBacked, Passed, TypeOK, Step, Ids
  <2>. QED  BY <1>0, <1>1, <1>2, <1>3, <2>1, <2>2, QuietStep
<1>4. CASE Recorded(turn[t].id, "valid") /\ writer' = t
  <2>1. turn[t].id \in Ids
    BY <1>0 DEF TurnIsBacked
  <2>2. record' \in Row /\ record'.locator = turn[t].id /\ record'.digest = assets[turn[t].id]
    BY <1>4, <2>1, RecordedInv
  <2>3. TypeOK'
    BY <1>0, <1>4, <2>2, ZenonT(60) DEF TypeOK, Row, Step, Content
  <2>4. ASSUME NEW u \in Turns PROVE TurnIsBacked(u)'
    <3>1. u # t /\ turn[u].pc \in Passed => t \in crossed[u]
      BY <1>0, <2>4 DEF HaveMet
    <3>2. turn'[u] = IF u = t THEN [turn[t] EXCEPT !.pc = "over"] ELSE turn[u]
      BY <1>0, <2>4 DEF Step, TypeOK
    <3>. QED  BY <1>0, <1>4, <3>1, <3>2, <2>4 DEF TurnIsBacked, Passed, Ids, TypeOK
  <2>. QED  BY <1>0, <1>1, <1>2, <2>1, <2>2, <2>3, <2>4 DEF RecordNamesItsAsset, Ids
<1>. QED  BY <1>3, <1>4 DEF Record

LEMMA ImportStepInv ==
    ASSUME IInv, (\E k \in Keys : Import(k)) \/ ImportCheck \/ ImportStore \/ ImportRecord \/ ImportSave
    PROVE  IInv'
<1>. USE DEF IInv
<1>0. UNCHANGED <<kind, lock, turn, crashes>>
  BY DEF Import, ImportCheck, ImportStore, ImportRecord, ImportSave
<1>4. /\ \A t \in Turns : TurnHolds(t)' /\ crossed[t] \subseteq crossed'[t]
      /\ \A t, u \in Turns : HaveMet(t, u)'
  <2>1. \A t \in Turns : crossed[t] \subseteq crossed'[t]
    BY DEF Import, ImportCheck, ImportStore, ImportRecord, ImportSave, history, TypeOK
  <2>. QED  BY <1>0, <2>1, SameMeetings
<1>1. CASE (\E k \in Keys : Import(k)) \/ ImportCheck \/ ImportSave
  <2>1. UNCHANGED <<assets, record, writer, crossed>>
    BY <1>1 DEF Import, ImportCheck, ImportSave, history
  <2>2. loop' \in [pc : {"idle", "check", "store", "record", "save"},
                  key : Keys \cup {NULL}, id : 0..Len(assets), state : {"unknown", "valid"}]
        /\ requests' \in 0..MaxRequests /\ receipts' \subseteq Keys
    <3>0. Len(assets) \in Nat /\ Idle \in [pc : {"idle", "check", "store", "record", "save"},
              key : Keys \cup {NULL}, id : 0..Len(assets), state : {"unknown", "valid"}]
      BY DEF TypeOK, Idle
    <3>1. ASSUME NEW k \in Keys, Import(k) PROVE
            /\ loop' \in [pc : {"idle", "check", "store", "record", "save"},
                         key : Keys \cup {NULL}, id : 0..Len(assets), state : {"unknown", "valid"}]
            /\ requests' \in 0..MaxRequests /\ receipts' \subseteq Keys
      BY <3>0, <3>1, AccountsAssumption DEF Import, TypeOK, Row
    <3>2. CASE ImportCheck
      BY <3>0, <3>2 DEF ImportCheck, TypeOK
    <3>3. CASE ImportSave
      BY <3>0, <3>3 DEF ImportSave, TypeOK, LoopIsBacked
    <3>. QED  BY <1>1, <3>1, <3>2, <3>3
  <2>3. TypeOK'
    BY <1>0, <2>1, <2>2 DEF TypeOK, Row
  <2>4. LoopIsBacked'
    BY <1>1, <2>1 DEF Import, ImportCheck, ImportSave, TypeOK, Idle, LoopIsBacked, Ids
  <2>5. \A u \in Turns : TurnIsBacked(u)'
    BY <1>0, <2>1 DEF TurnIsBacked, Ids
  <2>. QED  BY <1>4, <2>1, <2>3, <2>4, <2>5, QuietStep
<1>2. CASE ImportStore
  <2>1. CASE loop' = Idle /\ assets' = assets
    <3>1. TypeOK'
      BY <1>0, <1>2, <2>1 DEF ImportStore, TypeOK, Row, Idle, history
    <3>2. LoopIsBacked'
      BY <2>1 DEF LoopIsBacked, Idle
    <3>3. \A u \in Turns : TurnIsBacked(u)'
      BY <1>0, <1>2, <2>1 DEF ImportStore, TurnIsBacked, Ids, history
    <3>. QED  BY <1>2, <1>4, <2>1, <3>1, <3>2, <3>3, QuietStep DEF ImportStore
  <2>2. CASE assets' = Append(assets, loop.key) /\ loop' = [loop EXCEPT !.pc = "record", !.id = Len(assets) + 1]
    <3>1. loop.key \in Content /\ loop.key \in Keys
      BY <1>2 DEF ImportStore, LoopIsBacked, Content
    <3>2. /\ assets' \in Seq(Content) /\ Len(assets)' = Len(assets) + 1 /\ Len(assets) \in Nat
          /\ \A i \in Ids : i \in Ids' /\ assets'[i] = assets[i]
      BY <2>2, <3>1, StoreGrows
    <3>3. 0..Len(assets) \subseteq 0..Len(assets)' /\ Len(assets) + 1 \in Ids' /\ Len(assets) + 1 \in 0..Len(assets)'
      BY <3>2 DEF Ids
    <3>4. UNCHANGED <<record, receipts, writer, crossed, requests>>
      BY <1>2 DEF ImportStore, history
    <3>5. turn' \in [Turns -> [pc : {"new", "running", "working", "locked", "checked",
                                    "stored", "refused", "unlocked", "over", "dead"},
                              seen : Content \cup {NULL}, copy : Content \cup {NULL},
                              id : 0..Len(assets)']]
      BY <1>0, <3>3 DEF TypeOK
    <3>6. TypeOK'
      BY <1>0, <2>2, <3>2, <3>3, <3>4, <3>5 DEF TypeOK, Row
    <3>7. LoopIsBacked' /\ RecordNamesItsAsset'
      BY <2>2, <3>1, <3>2, <3>3, <3>4 DEF LoopIsBacked, RecordNamesItsAsset, TypeOK
    <3>8. \A u \in Turns : TurnIsBacked(u)'
      BY <1>0, <3>2, <3>4 DEF TurnIsBacked
    <3>. QED  BY <1>4, <3>6, <3>7, <3>8
  <2>. QED  BY <1>2, <2>1, <2>2 DEF ImportStore
<1>3. CASE ImportRecord
  <2>0. UNCHANGED <<assets, receipts, requests>> /\ loop.id \in Ids /\ loop.state \in {"unknown", "valid"}
        /\ loop'.pc \in {"idle", "save"} /\ (loop'.pc = "save" => loop' = [loop EXCEPT !.pc = "save"])
        /\ loop' \in [pc : {"idle", "check", "store", "record", "save"},
                     key : Keys \cup {NULL}, id : 0..Len(assets), state : {"unknown", "valid"}]
    BY <1>3 DEF ImportRecord, LoopIsBacked, TypeOK, Idle
  <2>1. LoopIsBacked'
    BY <1>3, <2>0 DEF ImportRecord, LoopIsBacked, TypeOK, Ids
  <2>2. CASE UNCHANGED <<record, writer, crossed>>
    <3>1. TypeOK'
      BY <1>0, <2>0, <2>2 DEF TypeOK, Row
    <3>2. \A u \in Turns : TurnIsBacked(u)'
      BY <1>0, <2>0, <2>2 DEF TurnIsBacked, Ids
    <3>. QED  BY <1>4, <2>0, <2>1, <2>2, <3>1, <3>2, QuietStep
  <2>3. CASE /\ Recorded(loop.id, loop.state) /\ writer' = loop.key
             /\ crossed' = [u \in Turns |-> IF Committed(u) THEN crossed[u] \cup {loop.key}
                                           ELSE crossed[u]]
    <3>0. loop.key \in Content
      BY <1>3 DEF ImportRecord, LoopIsBacked, Content
    <3>1. record' \in Row /\ record'.locator = loop.id /\ record'.digest = assets[loop.id]
      BY <2>0, <2>3, RecordedInv
    <3>2. TypeOK'
      <4>1. crossed' \in [Turns -> SUBSET Content] /\ writer' \in Content \cup {NULL}
        BY <2>3, <3>0 DEF TypeOK
      <4>. QED  BY <1>0, <2>0, <3>1, <4>1 DEF TypeOK, Row
    <3>3. \A u \in Turns : TurnIsBacked(u)'
      BY <1>0, <2>0, <2>3 DEF TurnIsBacked, Passed, Committed, Ids
    <3>. QED  BY <1>4, <2>0, <2>1, <3>1, <3>2, <3>3 DEF RecordNamesItsAsset, Ids
  <2>. QED  BY <1>3, <2>2, <2>3 DEF ImportRecord, history
<1>. QED  BY <1>1, <1>2, <1>3

LEMMA CrashInv == ASSUME IInv, Crash PROVE IInv'
<1>. USE DEF IInv
<1>1. UNCHANGED <<kind, assets, record, receipts, lock, writer, crossed, requests>> /\ loop' = Idle
  BY DEF Crash, history
<1>2. TypeOK'
  <2>1. Len(assets) \in Nat /\ Idle \in [pc : {"idle", "check", "store", "record", "save"},
            key : Keys \cup {NULL}, id : 0..Len(assets), state : {"unknown", "valid"}]
    BY DEF TypeOK, Idle
  <2>2. crashes' \in 0..MaxCrashes
    BY AccountsAssumption DEF Crash, TypeOK
  <2>3. turn' \in [Turns -> [pc : {"new", "running", "working", "locked", "checked",
                                  "stored", "refused", "unlocked", "over", "dead"},
                            seen : Content \cup {NULL}, copy : Content \cup {NULL},
                            id : 0..Len(assets)]]
    BY DEF Crash, TypeOK
  <2>. QED  BY <1>1, <2>1, <2>2, <2>3 DEF TypeOK, Row
<1>3. /\ \A u \in Turns : TurnIsBacked(u)' /\ TurnHolds(u)'
      /\ \A u, v \in Turns : HaveMet(u, v)'
  BY <1>1 DEF Crash, TurnIsBacked, TurnHolds, HaveMet, Passed, TypeOK, Ids
<1>4. LoopIsBacked'
  BY <1>1 DEF LoopIsBacked, Idle
<1>. QED  BY <1>1, <1>2, <1>3, <1>4, QuietStep

LEMMA StepInv == IInv /\ [Next]_vars => IInv'
<1>1. IInv /\ UNCHANGED vars => IInv'
  BY DEF vars, IInv, TypeOK, Row, TurnIsBacked, TurnHolds, HaveMet, LoopIsBacked,
         RecordNamesItsAsset, Ids
<1>. QED  BY <1>1, TurnStepInv, StoreInv, RecordInv, ImportStepInv, CrashInv DEF Next, Reclaim

LEMMA AlwaysInv == Spec => []IInv
  BY InitInv, StepInv, PTL DEF Spec

\* Store, row, turns and the loop keep their types.
THEOREM AccountTypes == Spec => []TypeOK
<1>1. IInv => TypeOK
  BY DEF IInv
<1>. QED  BY <1>1, AlwaysInv, PTL

\* The row names an asset of the store by its own digest, for any number of reclaims and
\* imports that cross each other, fail or die.
THEOREM RecordedAssetIsStored == Spec => []RecordNamesItsAsset
<1>1. IInv => RecordNamesItsAsset
  BY DEF IInv
<1>. QED  BY <1>1, AlwaysInv, PTL

\* A reclaim replaces what its turn has seen, or what was recorded by an import between its
\* check and its record or by a reclaim it met past the lock (assets.py:217): never what one
\* before its check, or one that held the lock with it, has made of the row.
THEOREM NewerAssetIsKept == Spec => ReclaimKeepsNewer
<1>1. IInv => (\A t \in Turns : turn[t].pc = "unlocked"
                    => record.digest = turn[t].seen \/ writer \in crossed[t])
  BY DEF IInv, TurnIsBacked, Passed
<1>2. IInv /\ [Next]_vars => [\A t \in Turns : turn[t].pc = "unlocked" /\ turn'[t].pc = "over"
                                           /\ record' # record
                => record.digest = turn[t].seen \/ writer \in crossed[t]]_vars
  BY <1>1
<1>. QED  BY <1>2, AlwaysInv, PTL DEF Spec, ReclaimKeepsNewer

-----------------------------------------------------------------------------
(***************************************************************************)
(* Part 2, AcpChannel.  Every step is at one connection and of one thread; *)
(* what is said here is said of one connection and of the threads that are *)
(* with it, so that a step is only looked at where it happens.             *)
(***************************************************************************)

\* Threads that are with a connection, at one of some points.
With(c, pcs) == \E k \in Threads : Conn(k) = c /\ thread[k].pc \in pcs

Opening     == {"launched", "open", "register", "superseded"}
Terminating == {"lock", "wait", "stop"}
Established == {"open", "register", "superseded", "check", "ask", "await", "claim", "settle",
                "wait"}

\* The replies in what the entry wrote.
NoReply(s)  == \A i \in 1..Len(s) : s[i] = "end"
OneReply(s) == \A i, j \in 1..Len(s) : s[i] # "end" /\ s[j] # "end" => i = j
NoOk(s)     == \A i \in 1..Len(s) : s[i] # "ok"

NoEntry == [alive |-> FALSE, todo |-> "none", ended |-> FALSE, harness |-> "none"]

FreshAt(c) == reader[c] = "none" =>
    /\ entry[c] = NoEntry /\ tr[c] = Unstarted /\ out[c] = <<>>
    /\ run[c] = "none" /\ c \notin ids
    /\ \A k \in Threads : Conn(k) # c

\* What is written and not read yet says the truth about the Harness.
AnswersAt(c) ==
    /\ entry[c].todo # "none" => entry[c].alive
    /\ entry[c].todo = "connect" =>
          tr[c].connect = "waiting" /\ NoReply(out[c]) /\ entry[c].harness = "none"
    /\ tr[c].connect = "waiting" => OneReply(out[c])
    /\ tr[c].established => tr[c].connect = "ok"
    /\ entry[c].todo = "close" \/ tr[c].close # "none" \/ tr[c].confirmed => tr[c].established
    /\ tr[c].connect # "waiting" => NoOk(out[c]) \/ entry[c].harness = "dead"
    /\ tr[c].close = "ok" \/ tr[c].confirmed => entry[c].harness = "dead"

\* The clean-up thread of a connection works for it, after the reader's exit path.
CleanerAt(c) ==
    /\ c \in ids => tr[c].established
    /\ thread[Cleaner(c)].pc \in Terminating \cup {"idle"}
    /\ Conn(Cleaner(c)) \in {c, None}
    /\ thread[Cleaner(c)].pc # "idle" \/ Exiting(c) \/ reader[c] = "done" => tr[c].reported
    /\ thread[Cleaner(c)].pc # "idle" => ~Exiting(c)

\* Who ends an active run.
OwnedAt(c) == run[c] = "active" =>
    c \in ids \/ With(c, {"register", "superseded", "settle"}) \/ reader[c] = "settle"

\* Who comes for an active run whose end is not reported any more.
StopperAt(c) == Conn(Stopper) = c /\ thread[Stopper].pc \in Terminating
                /\ thread[Stopper].back = "claim"
ReportedAt(c) == c \in ids /\ run[c] = "active" /\ tr[c].reported =>
    \/ Exiting(c) \/ c \in spoiled \/ With(c, {"await", "claim"}) \/ StopperAt(c)
    \/ chan[c].exit /\ With(c, {"check"})

\* Who stops an entry that runs.
StoppingAt(c) == entry[c].alive =>
    /\ c \in ids \/ Exiting(c) \/ With(c, Opening \cup Terminating)
    /\ tr[c].confirmed \/ With(c, {"claim", "settle"}) => With(c, {"stop"})

ThreadAt(k) ==
    /\ thread[k].pc # "idle" => Conn(k) \in Conns
    /\ thread[k].pc = "idle" => thread[k] = AtRest
    /\ thread[k].pc \in Established \/ thread[k].back = "claim" => tr[Conn(k)].established
    /\ thread[k].back = "claim" =>
          k = Stopper /\ thread[k].pc \in Terminating \cup {"claim", "settle"}
    /\ k \notin Callers => thread[k].pc \notin Opening \cup {"check"}
    /\ thread[k].pc \in {"claim", "settle"} /\ thread[k].back = "idle" =>
          entry[Conn(k)].harness = "dead"

\* One thread opens a connection, and until it has registered it only the reader
\* can have reported its end.
OpenerAt(k) ==
    /\ thread[k].pc \in Opening =>
        /\ Conn(k) \notin ids
        /\ \A j \in Callers \cup {Stopper} : Conn(j) = Conn(k) => j = k
    /\ thread[k].pc \in {"launched", "open", "register"} /\ tr[Conn(k)].reported =>
          reader[Conn(k)] = "exit" \/ chan[Conn(k)].exit

ConnInv(c) == FreshAt(c) /\ AnswersAt(c) /\ CleanerAt(c) /\ OwnedAt(c) /\ ReportedAt(c)
              /\ StoppingAt(c)

ShutDown ==
    /\ server # "up" => \A k \in Callers : thread[k].pc = "idle"
    /\ server = "stopped" => ids = {} /\ thread[Stopper].pc = "idle"

ConnectionsInv ==
    /\ ChannelTypeOK
    /\ \A c \in Conns : ConnInv(c)
    /\ \A k \in Threads : ThreadAt(k) /\ OpenerAt(k)

-----------------------------------------------------------------------------
(* Steps are local *)

LEMMA CleanersDiffer ==
    /\ \A c \in Conns : Cleaner(c) \in Threads /\ Cleaner(c) \notin Callers \cup {Stopper}
    /\ \A c, d \in Conns : Cleaner(c) = Cleaner(d) => c = d
    /\ \A k \in Threads : k \notin Callers \cup {Stopper} => \E c \in Conns : k = Cleaner(c)
    /\ Stopper \notin Callers
BY ChannelAssumption DEF Cleaner, Threads

\* A step of thread k at connection c.
Local(c, k) ==
    /\ k \in Callers \cup {Stopper, Cleaner(c)}
    /\ \A j \in Threads \ {k} : thread'[j] = thread[j]
    /\ Conn(k) \in {c, None} /\ thread'[k].conn \in {c, None}
    /\ \A d \in Conns \ {c} :
        /\ chan'[d] = chan[d] /\ run'[d] = run[d] /\ tr'[d] = tr[d] /\ entry'[d] = entry[d]
        /\ out'[d] = out[d] /\ reader'[d] = reader[d]
        /\ (d \in ids') = (d \in ids) /\ (d \in spoiled => d \in spoiled')

LEMMA WithElsewhere ==
    ASSUME NEW c \in Conns, NEW k \in Threads, Local(c, k), NEW d \in Conns \ {c}, NEW pcs
    PROVE  With(d, pcs)' = With(d, pcs)
<1>1. \A j \in Threads : j = k \/ thread'[j] = thread[j]
  BY DEF Local
<1>2. Conn(k) # d /\ thread'[k].conn # d
  BY ChannelAssumption DEF Local
<1> QED
  BY <1>1, <1>2 DEF With, Conn

LEMMA ConnElsewhere ==
    ASSUME NEW c \in Conns, NEW k \in Threads, Local(c, k), NEW d \in Conns \ {c}, ConnInv(d)
    PROVE  ConnInv(d)'
<1>1. /\ chan'[d] = chan[d] /\ run'[d] = run[d] /\ tr'[d] = tr[d] /\ entry'[d] = entry[d]
      /\ out'[d] = out[d] /\ reader'[d] = reader[d]
      /\ (d \in ids') = (d \in ids) /\ (d \in spoiled => d \in spoiled')
  BY DEF Local
<1>2. thread'[Cleaner(d)] = thread[Cleaner(d)]
  BY CleanersDiffer DEF Local
<1>3. Conn(k) # d /\ thread'[k].conn # d /\ \A j \in Threads : j = k \/ thread'[j] = thread[j]
  BY ChannelAssumption DEF Local
<1>4. Exiting(d)' = Exiting(d)
  BY <1>1 DEF Exiting
<1>5. FreshAt(d)'
  BY <1>1, <1>3 DEF ConnInv, FreshAt, Conn
<1>6. AnswersAt(d)'
  BY <1>1 DEF ConnInv, AnswersAt
<1>7. CleanerAt(d)'
  BY <1>1, <1>2, <1>4 DEF ConnInv, CleanerAt, Conn
<1>8. OwnedAt(d)'
  BY <1>1, WithElsewhere DEF ConnInv, OwnedAt
<1>9. ReportedAt(d)'
  <2>1. Stopper \in Threads
    BY DEF Threads
  <2>2. StopperAt(d)' = StopperAt(d)
    BY <2>1, <1>3 DEF StopperAt, Conn
  <2> QED
    BY <2>2, <1>1, <1>4, WithElsewhere DEF ConnInv, ReportedAt
<1>10. StoppingAt(d)'
  BY <1>1, <1>4, WithElsewhere DEF ConnInv, StoppingAt
<1> QED
  BY <1>5, <1>6, <1>7, <1>8, <1>9, <1>10 DEF ConnInv

LEMMA ThreadElsewhere ==
    ASSUME NEW c \in Conns, NEW k \in Threads, Local(c, k),
           NEW j \in Threads \ {k}, Conn(j) # c, ThreadAt(j), OpenerAt(j)
    PROVE  ThreadAt(j)' /\ OpenerAt(j)'
<1>1. thread'[j] = thread[j] /\ thread[j].conn # c
  BY DEF Local, Conn
<1>2. thread[j].pc # "idle" =>
        /\ thread[j].conn \in Conns
        /\ tr'[Conn(j)] = tr[Conn(j)] /\ entry'[Conn(j)] = entry[Conn(j)]
        /\ reader'[Conn(j)] = reader[Conn(j)] /\ chan'[Conn(j)] = chan[Conn(j)]
        /\ (Conn(j) \in ids') = (Conn(j) \in ids)
  BY <1>1 DEF Local, ThreadAt, Conn
<1>3. ThreadAt(j)'
  BY <1>1, <1>2 DEF ThreadAt, Conn, AtRest, Established, Opening, Terminating
<1>4. \A i \in Callers \cup {Stopper} : thread'[i].conn = Conn(j) /\ Conn(j) \in Conns => Conn(i) = Conn(j)
  BY <1>1, ChannelAssumption DEF Local, Conn, Threads
<1>5. OpenerAt(j)'
  BY <1>1, <1>2, <1>4 DEF OpenerAt, Opening, Conn
<1> QED
  BY <1>3, <1>5

\* What a step has to show where it happens.
Here(c, k) == ConnInv(c) /\ \A j \in Threads : j = k \/ Conn(j) = c => ThreadAt(j) /\ OpenerAt(j)

LEMMA LocalInv ==
    ASSUME ConnectionsInv, NEW c \in Conns, NEW k \in Threads, Local(c, k), Here(c, k)'
    PROVE  /\ \A d \in Conns : ConnInv(d)'
           /\ \A j \in Threads : ThreadAt(j)' /\ OpenerAt(j)'
<1>1. \A d \in Conns : ConnInv(d)'
  BY ConnElsewhere DEF ConnectionsInv, Here
<1>2. ASSUME NEW j \in Threads
      PROVE  ThreadAt(j)' /\ OpenerAt(j)'
  <2>1. CASE j = k \/ Conn(j)' = c
    BY <2>1 DEF Here
  <2>2. CASE j # k /\ Conn(j)' # c
    <3>1. Conn(j) # c
      BY <2>2 DEF Local, Conn
    <3> QED
      BY <2>2, <3>1, ThreadElsewhere DEF ConnectionsInv
  <2> QED
    BY <2>1, <2>2
<1> QED
  BY <1>1, <1>2

\* Threads that do not move stay where they are.

LEMMA WithKept ==
    ASSUME NEW k, \A j \in Threads \ {k} : thread'[j] = thread[j], NEW c, NEW pcs,
           thread[k].pc \notin pcs \/ (thread'[k].pc \in pcs /\ thread'[k].conn = Conn(k))
    PROVE  With(c, pcs) => With(c, pcs)'
BY DEF With, Conn

LEMMA AtWork ==
    ASSUME ConnectionsInv, NEW k \in Threads, thread[k].pc # "idle", NEW c, c = Conn(k)
    PROVE  /\ c \in Conns /\ c # None /\ reader[c] # "none" /\ Conn(k) = c
           /\ k \in Callers \cup {Stopper, Cleaner(c)}
           /\ ConnInv(c) /\ ThreadAt(k) /\ OpenerAt(k)
<1>1. ThreadAt(k) /\ OpenerAt(k)
  BY DEF ConnectionsInv
<1>2. c \in Conns /\ c # None
  BY <1>1, ChannelAssumption DEF ThreadAt
<1>3. ConnInv(c)
  BY <1>2 DEF ConnectionsInv
<1>4. reader[c] # "none"
  BY <1>3 DEF ConnInv, FreshAt
<1>5. ASSUME k \notin Callers \cup {Stopper}
      PROVE  k = Cleaner(c)
  <2>1. PICK d \in Conns : k = Cleaner(d)
    BY <1>5, CleanersDiffer
  <2>2. Conn(Cleaner(d)) \in {d, None}
    BY DEF ConnectionsInv, ConnInv, CleanerAt
  <2> QED
    BY <1>2, <2>1, <2>2
<1> QED
  BY <1>1, <1>2, <1>3, <1>4, <1>5

-----------------------------------------------------------------------------
(* One lemma for each step of a thread, the reader or an entry, <Step>Here: the step is  *)
(* local, and what is said of its connection and of the threads that are with it holds   *)
(* after it.  In each of them <2>f is what the step changes there, <2>l that it is local, *)
(* <2>1 to <2>6 the parts of ConnInv, <2>7 the thread that moves, <2>8 the others.        *)

LEMMA ConnectedHere ==
    ASSUME ConnectionsInv, NEW k \in Threads, Connected(k)
    PROVE  \E c \in Conns : Local(c, k) /\ Here(c, k)'
<1>c. PICK c : c = Conn(k)
  OBVIOUS
<1>i. ConnectionsInv
  OBVIOUS
<1>k. thread[k].pc # "idle"
  BY DEF Connected, At
<1>w. /\ c \in Conns /\ c # None /\ reader[c] # "none" /\ Conn(k) = c
      /\ k \in Callers \cup {Stopper, Cleaner(c)}
      /\ ConnInv(c) /\ ThreadAt(k) /\ OpenerAt(k)
  BY <1>k, <1>c, AtWork
<1>e. ChannelTypeOK /\ c \in Conns /\ k \in Threads /\ c = Conn(k)
  BY <1>c, <1>w DEF ConnectionsInv
<1>1. CASE tr[c].connect = "ok" /\ tr' = [tr EXCEPT ![c].established = TRUE] /\ Goto(k, "open")
  <2>f. /\ thread'[k].pc = "open" /\ thread'[k].conn = thread[k].conn
           /\ thread'[k].back = thread[k].back
        /\ tr'[c].connect = tr[c].connect /\ tr'[c].close = tr[c].close
           /\ tr'[c].established = TRUE /\ tr'[c].reported = tr[c].reported
           /\ tr'[c].confirmed = tr[c].confirmed
        /\ entry'[c] = entry[c]
        /\ chan'[c] = chan[c]
        /\ run'[c] = run[c]
        /\ out'[c] = out[c]
        /\ reader'[c] = reader[c]
        /\ (c \in ids') = (c \in ids)
        /\ (c \in spoiled) => (c \in spoiled')
        /\ thread[k].pc = "launched" /\ tr[c].connect = "ok"
    BY <1>1, <1>e
      DEF Connected, At, Goto, registry, peer, rest, ChannelTypeOK, Works, Transports,
          Entries, Ends
  <2>l. Local(c, k)
    BY <1>1, <1>w, <1>e, <2>f
      DEF Local, Connected, At, Goto, registry, peer, rest, ChannelTypeOK, Conn, AtRest
  <2>j. \A j \in Threads \ {k} : thread'[j] = thread[j]
    BY <2>l DEF Local
  <2>s. Stopper \in Threads /\ Cleaner(c) \in Threads
    BY <1>w, CleanersDiffer DEF Threads
  <2>1. FreshAt(c)'
    BY <1>w, <2>f, <2>j DEF FreshAt
  <2>2. AnswersAt(c)'
    BY <1>w, <2>f, <2>j DEF ConnInv, AnswersAt
  <2>3. CleanerAt(c)'
    BY <1>w, <2>f, <2>j, <2>s, CleanersDiffer
      DEF ConnInv, CleanerAt, ThreadAt, Exiting, Conn, AtRest, Opening, Terminating,
          Established
  <2>4. OwnedAt(c)'
    BY <1>w, <2>f, <2>j DEF ConnInv, OwnedAt, With, Conn, AtRest
  <2>5. ReportedAt(c)'
    BY <1>w, <2>f, <2>j
      DEF ConnInv, ReportedAt, StopperAt, ThreadAt, OpenerAt, With, Exiting, Conn, AtRest,
          Opening, Terminating, Established
  <2>6. StoppingAt(c)'
    BY <1>w, <2>f, <2>j
      DEF ConnInv, StoppingAt, ThreadAt, With, Exiting, Conn, AtRest, Opening, Terminating,
          Established
  <2>7. ThreadAt(k)' /\ OpenerAt(k)'
    BY <1>w, <2>f, <2>j, CleanersDiffer
      DEF ConnInv, ThreadAt, OpenerAt, AnswersAt, CleanerAt, Conn, AtRest, Threads, Opening,
          Terminating, Established
  <2>8. ASSUME NEW j \in Threads \ {k}, Conn(j)' = c
       PROVE  ThreadAt(j)' /\ OpenerAt(j)'
    <3>1. thread'[j] = thread[j] /\ Conn(j) = c /\ ThreadAt(j) /\ OpenerAt(j)
      BY <1>i, <2>j, <2>8 DEF Conn, ConnectionsInv
    <3>2. ThreadAt(j)'
      BY <3>1, <1>w, <2>f, <2>j
        DEF ConnInv, ThreadAt, AnswersAt, Conn, Opening, Terminating, Established
    <3>3. OpenerAt(j)'
      BY <3>1, <1>w, <2>f, <2>j, CleanersDiffer
        DEF ConnInv, ThreadAt, OpenerAt, CleanerAt, Conn, AtRest, Threads, Exiting, Opening,
            Terminating, Established
    <3> QED
      BY <3>2, <3>3
  <2> QED
    BY <1>w, <2>l, <2>1, <2>2, <2>3, <2>4, <2>5, <2>6, <2>7, <2>8 DEF Here, ConnInv
<1>2. CASE Terminate(k, "idle")
  <2>f. /\ thread'[k].pc = "lock" /\ thread'[k].conn = thread[k].conn
           /\ thread'[k].back = "idle"
        /\ tr'[c].connect = tr[c].connect /\ tr'[c].close = tr[c].close
           /\ tr'[c].established = tr[c].established /\ tr'[c].reported = TRUE
           /\ tr'[c].confirmed = tr[c].confirmed
        /\ entry'[c] = entry[c]
        /\ chan'[c] = chan[c]
        /\ run'[c] = run[c]
        /\ out'[c] = out[c]
        /\ reader'[c] = reader[c]
        /\ (c \in ids') = (c \in ids)
        /\ (c \in spoiled) => (c \in spoiled')
        /\ thread[k].pc = "launched"
    BY <1>2, <1>e
      DEF Connected, At, registry, peer, rest, Terminate, OwnEnd, ChannelTypeOK, Works,
          Transports, Entries, Ends
  <2>l. Local(c, k)
    BY <1>2, <1>w, <1>e, <2>f
      DEF Local, Connected, At, registry, peer, rest, Terminate, OwnEnd, ChannelTypeOK, Conn,
          AtRest
  <2>j. \A j \in Threads \ {k} : thread'[j] = thread[j]
    BY <2>l DEF Local
  <2>s. Stopper \in Threads /\ Cleaner(c) \in Threads
    BY <1>w, CleanersDiffer DEF Threads
  <2>1. FreshAt(c)'
    BY <1>w, <2>f, <2>j DEF FreshAt
  <2>2. AnswersAt(c)'
    BY <1>w, <2>f, <2>j DEF ConnInv, AnswersAt
  <2>3. CleanerAt(c)'
    BY <1>w, <2>f, <2>j, <2>s, CleanersDiffer
      DEF ConnInv, CleanerAt, ThreadAt, Exiting, Conn, AtRest, Opening, Terminating,
          Established
  <2>4. OwnedAt(c)'
    BY <1>w, <2>f, <2>j DEF ConnInv, OwnedAt, With, Conn, AtRest
  <2>5. ReportedAt(c)'
    BY <1>w, <2>f, <2>j
      DEF ConnInv, ReportedAt, StopperAt, ThreadAt, OpenerAt, With, Exiting, Conn, AtRest,
          Opening, Terminating, Established
  <2>6. StoppingAt(c)'
    BY <1>w, <2>f, <2>j
      DEF ConnInv, StoppingAt, ThreadAt, With, Exiting, Conn, AtRest, Opening, Terminating,
          Established
  <2>7. ThreadAt(k)' /\ OpenerAt(k)'
    BY <1>w, <2>f, <2>j, CleanersDiffer
      DEF ConnInv, ThreadAt, OpenerAt, AnswersAt, CleanerAt, Conn, AtRest, Threads, Opening,
          Terminating, Established
  <2>8. ASSUME NEW j \in Threads \ {k}, Conn(j)' = c
       PROVE  ThreadAt(j)' /\ OpenerAt(j)'
    <3>1. thread'[j] = thread[j] /\ Conn(j) = c /\ ThreadAt(j) /\ OpenerAt(j)
      BY <1>i, <2>j, <2>8 DEF Conn, ConnectionsInv
    <3>2. ThreadAt(j)'
      BY <3>1, <1>w, <2>f, <2>j
        DEF ConnInv, ThreadAt, AnswersAt, Conn, Opening, Terminating, Established
    <3>3. OpenerAt(j)'
      BY <3>1, <1>w, <2>f, <2>j, CleanersDiffer
        DEF ConnInv, ThreadAt, OpenerAt, CleanerAt, Conn, AtRest, Threads, Exiting, Opening,
            Terminating, Established
    <3> QED
      BY <3>2, <3>3
  <2> QED
    BY <1>w, <2>l, <2>1, <2>2, <2>3, <2>4, <2>5, <2>6, <2>7, <2>8 DEF Here, ConnInv
<1> QED
  BY <1>c, <1>1, <1>2 DEF Connected

LEMMA OpenRunHere ==
    ASSUME ConnectionsInv, NEW k \in Threads, OpenRun(k)
    PROVE  \E c \in Conns : Local(c, k) /\ Here(c, k)'
<1>c. PICK c : c = Conn(k)
  OBVIOUS
<1>i. ConnectionsInv
  OBVIOUS
<1>k. thread[k].pc # "idle"
  BY DEF OpenRun, At
<1>w. /\ c \in Conns /\ c # None /\ reader[c] # "none" /\ Conn(k) = c
      /\ k \in Callers \cup {Stopper, Cleaner(c)}
      /\ ConnInv(c) /\ ThreadAt(k) /\ OpenerAt(k)
  BY <1>k, <1>c, AtWork
<1>e. ChannelTypeOK /\ c \in Conns /\ k \in Threads /\ c = Conn(k)
  BY <1>c, <1>w DEF ConnectionsInv
<1>1. CASE run' = [run EXCEPT ![c] = "active"] /\ Goto(k, "register") /\ UNCHANGED tr
  <2>f. /\ thread'[k].pc = "register" /\ thread'[k].conn = thread[k].conn
           /\ thread'[k].back = thread[k].back
        /\ tr'[c] = tr[c]
        /\ entry'[c] = entry[c]
        /\ chan'[c] = chan[c]
        /\ run'[c] = "active"
        /\ out'[c] = out[c]
        /\ reader'[c] = reader[c]
        /\ (c \in ids') = (c \in ids)
        /\ (c \in spoiled) => (c \in spoiled')
        /\ thread[k].pc = "open"
    BY <1>1, <1>e
      DEF At, registry, peer, rest, OpenRun, Goto, ChannelTypeOK, Works, Transports, Entries,
          Ends
  <2>l. Local(c, k)
    BY <1>1, <1>w, <1>e, <2>f
      DEF Local, At, registry, peer, rest, OpenRun, Goto, ChannelTypeOK, Conn, AtRest
  <2>j. \A j \in Threads \ {k} : thread'[j] = thread[j]
    BY <2>l DEF Local
  <2>s. Stopper \in Threads /\ Cleaner(c) \in Threads
    BY <1>w, CleanersDiffer DEF Threads
  <2>1. FreshAt(c)'
    BY <1>w, <2>f, <2>j DEF FreshAt
  <2>2. AnswersAt(c)'
    BY <1>w, <2>f, <2>j DEF ConnInv, AnswersAt
  <2>3. CleanerAt(c)'
    BY <1>w, <2>f, <2>j, <2>s, CleanersDiffer
      DEF ConnInv, CleanerAt, ThreadAt, Exiting, Conn, AtRest, Opening, Terminating,
          Established
  <2>4. OwnedAt(c)'
    BY <1>w, <2>f, <2>j DEF ConnInv, OwnedAt, With, Conn, AtRest
  <2>5. ReportedAt(c)'
    BY <1>w, <2>f, <2>j
      DEF ConnInv, ReportedAt, StopperAt, ThreadAt, OpenerAt, With, Exiting, Conn, AtRest,
          Opening, Terminating, Established
  <2>6. StoppingAt(c)'
    BY <1>w, <2>f, <2>j
      DEF ConnInv, StoppingAt, ThreadAt, With, Exiting, Conn, AtRest, Opening, Terminating,
          Established
  <2>7. ThreadAt(k)' /\ OpenerAt(k)'
    BY <1>w, <2>f, <2>j, CleanersDiffer
      DEF ConnInv, ThreadAt, OpenerAt, AnswersAt, CleanerAt, Conn, AtRest, Threads, Opening,
          Terminating, Established
  <2>8. ASSUME NEW j \in Threads \ {k}, Conn(j)' = c
       PROVE  ThreadAt(j)' /\ OpenerAt(j)'
    <3>1. thread'[j] = thread[j] /\ Conn(j) = c /\ ThreadAt(j) /\ OpenerAt(j)
      BY <1>i, <2>j, <2>8 DEF Conn, ConnectionsInv
    <3>2. ThreadAt(j)'
      BY <3>1, <1>w, <2>f, <2>j
        DEF ConnInv, ThreadAt, AnswersAt, Conn, Opening, Terminating, Established
    <3>3. OpenerAt(j)'
      BY <3>1, <1>w, <2>f, <2>j, CleanersDiffer
        DEF ConnInv, ThreadAt, OpenerAt, CleanerAt, Conn, AtRest, Threads, Exiting, Opening,
            Terminating, Established
    <3> QED
      BY <3>2, <3>3
  <2> QED
    BY <1>w, <2>l, <2>1, <2>2, <2>3, <2>4, <2>5, <2>6, <2>7, <2>8 DEF Here, ConnInv
<1>2. CASE Terminate(k, "idle") /\ UNCHANGED run
  <2>f. /\ thread'[k].pc = "lock" /\ thread'[k].conn = thread[k].conn
           /\ thread'[k].back = "idle"
        /\ tr'[c].connect = tr[c].connect /\ tr'[c].close = tr[c].close
           /\ tr'[c].established = tr[c].established /\ tr'[c].reported = TRUE
           /\ tr'[c].confirmed = tr[c].confirmed
        /\ entry'[c] = entry[c]
        /\ chan'[c] = chan[c]
        /\ run'[c] = run[c]
        /\ out'[c] = out[c]
        /\ reader'[c] = reader[c]
        /\ (c \in ids') = (c \in ids)
        /\ (c \in spoiled) => (c \in spoiled')
        /\ thread[k].pc = "open"
    BY <1>2, <1>e
      DEF At, registry, peer, rest, OpenRun, Terminate, OwnEnd, ChannelTypeOK, Works,
          Transports, Entries, Ends
  <2>l. Local(c, k)
    BY <1>2, <1>w, <1>e, <2>f
      DEF Local, At, registry, peer, rest, OpenRun, Terminate, OwnEnd, ChannelTypeOK, Conn,
          AtRest
  <2>j. \A j \in Threads \ {k} : thread'[j] = thread[j]
    BY <2>l DEF Local
  <2>s. Stopper \in Threads /\ Cleaner(c) \in Threads
    BY <1>w, CleanersDiffer DEF Threads
  <2>1. FreshAt(c)'
    BY <1>w, <2>f, <2>j DEF FreshAt
  <2>2. AnswersAt(c)'
    BY <1>w, <2>f, <2>j DEF ConnInv, AnswersAt
  <2>3. CleanerAt(c)'
    BY <1>w, <2>f, <2>j, <2>s, CleanersDiffer
      DEF ConnInv, CleanerAt, ThreadAt, Exiting, Conn, AtRest, Opening, Terminating,
          Established
  <2>4. OwnedAt(c)'
    BY <1>w, <2>f, <2>j DEF ConnInv, OwnedAt, With, Conn, AtRest
  <2>5. ReportedAt(c)'
    BY <1>w, <2>f, <2>j
      DEF ConnInv, ReportedAt, StopperAt, ThreadAt, OpenerAt, With, Exiting, Conn, AtRest,
          Opening, Terminating, Established
  <2>6. StoppingAt(c)'
    BY <1>w, <2>f, <2>j
      DEF ConnInv, StoppingAt, ThreadAt, With, Exiting, Conn, AtRest, Opening, Terminating,
          Established
  <2>7. ThreadAt(k)' /\ OpenerAt(k)'
    BY <1>w, <2>f, <2>j, CleanersDiffer
      DEF ConnInv, ThreadAt, OpenerAt, AnswersAt, CleanerAt, Conn, AtRest, Threads, Opening,
          Terminating, Established
  <2>8. ASSUME NEW j \in Threads \ {k}, Conn(j)' = c
       PROVE  ThreadAt(j)' /\ OpenerAt(j)'
    <3>1. thread'[j] = thread[j] /\ Conn(j) = c /\ ThreadAt(j) /\ OpenerAt(j)
      BY <1>i, <2>j, <2>8 DEF Conn, ConnectionsInv
    <3>2. ThreadAt(j)'
      BY <3>1, <1>w, <2>f, <2>j
        DEF ConnInv, ThreadAt, AnswersAt, Conn, Opening, Terminating, Established
    <3>3. OpenerAt(j)'
      BY <3>1, <1>w, <2>f, <2>j, CleanersDiffer
        DEF ConnInv, ThreadAt, OpenerAt, CleanerAt, Conn, AtRest, Threads, Exiting, Opening,
            Terminating, Established
    <3> QED
      BY <3>2, <3>3
  <2> QED
    BY <1>w, <2>l, <2>1, <2>2, <2>3, <2>4, <2>5, <2>6, <2>7, <2>8 DEF Here, ConnInv
<1> QED
  BY <1>c, <1>1, <1>2 DEF OpenRun

LEMMA RegisterHere ==
    ASSUME ConnectionsInv, NEW k \in Threads, Register(k)
    PROVE  \E c \in Conns : Local(c, k) /\ Here(c, k)'
<1>c. PICK c : c = Conn(k)
  OBVIOUS
<1>i. ConnectionsInv
  OBVIOUS
<1>k. thread[k].pc # "idle"
  BY DEF Register, At
<1>w. /\ c \in Conns /\ c # None /\ reader[c] # "none" /\ Conn(k) = c
      /\ k \in Callers \cup {Stopper, Cleaner(c)}
      /\ ConnInv(c) /\ ThreadAt(k) /\ OpenerAt(k)
  BY <1>k, <1>c, AtWork
<1>e. ChannelTypeOK /\ c \in Conns /\ k \in Threads /\ c = Conn(k)
  BY <1>c, <1>w DEF ConnectionsInv
<1>1. CASE pair = None
  <2>f. /\ thread'[k].pc = "check" /\ thread'[k].conn = thread[k].conn
           /\ thread'[k].back = thread[k].back
        /\ tr'[c] = tr[c]
        /\ entry'[c] = entry[c]
        /\ chan'[c] = chan[c]
        /\ run'[c] = run[c]
        /\ out'[c] = out[c]
        /\ reader'[c] = reader[c]
        /\ c \in ids' /\ c \notin ids
        /\ (c \in spoiled) => (c \in spoiled')
        /\ thread[k].pc = "register"
    BY <1>1, <1>e
      DEF At, registry, peer, rest, Register, Goto, ChannelTypeOK, Works, Transports, Entries,
          Ends
  <2>l. Local(c, k)
    BY <1>1, <1>w, <1>e, <2>f
      DEF Local, At, registry, peer, rest, Register, Goto, ChannelTypeOK, Conn, AtRest
  <2>j. \A j \in Threads \ {k} : thread'[j] = thread[j]
    BY <2>l DEF Local
  <2>s. Stopper \in Threads /\ Cleaner(c) \in Threads
    BY <1>w, CleanersDiffer DEF Threads
  <2>1. FreshAt(c)'
    BY <1>w, <2>f, <2>j DEF FreshAt
  <2>2. AnswersAt(c)'
    BY <1>w, <2>f, <2>j DEF ConnInv, AnswersAt
  <2>3. CleanerAt(c)'
    BY <1>w, <2>f, <2>j, <2>s, CleanersDiffer
      DEF ConnInv, CleanerAt, ThreadAt, Exiting, Conn, AtRest, Opening, Terminating,
          Established
  <2>4. OwnedAt(c)'
    BY <1>w, <2>f, <2>j DEF ConnInv, OwnedAt, With, Conn, AtRest
  <2>5. ReportedAt(c)'
    BY <1>w, <2>f, <2>j
      DEF ConnInv, ReportedAt, StopperAt, ThreadAt, OpenerAt, With, Exiting, Conn, AtRest,
          Opening, Terminating, Established
  <2>6. StoppingAt(c)'
    BY <1>w, <2>f, <2>j
      DEF ConnInv, StoppingAt, ThreadAt, With, Exiting, Conn, AtRest, Opening, Terminating,
          Established
  <2>7. ThreadAt(k)' /\ OpenerAt(k)'
    BY <1>w, <2>f, <2>j, CleanersDiffer
      DEF ConnInv, ThreadAt, OpenerAt, AnswersAt, CleanerAt, Conn, AtRest, Threads, Opening,
          Terminating, Established
  <2>8. ASSUME NEW j \in Threads \ {k}, Conn(j)' = c
       PROVE  ThreadAt(j)' /\ OpenerAt(j)'
    <3>1. thread'[j] = thread[j] /\ Conn(j) = c /\ ThreadAt(j) /\ OpenerAt(j)
      BY <1>i, <2>j, <2>8 DEF Conn, ConnectionsInv
    <3>2. ThreadAt(j)'
      BY <3>1, <1>w, <2>f, <2>j
        DEF ConnInv, ThreadAt, AnswersAt, Conn, Opening, Terminating, Established
    <3>3. OpenerAt(j)'
      BY <3>1, <1>w, <2>f, <2>j, CleanersDiffer
        DEF ConnInv, ThreadAt, OpenerAt, CleanerAt, Conn, AtRest, Threads, Exiting, Opening,
            Terminating, Established
    <3> QED
      BY <3>2, <3>3
  <2> QED
    BY <1>w, <2>l, <2>1, <2>2, <2>3, <2>4, <2>5, <2>6, <2>7, <2>8 DEF Here, ConnInv
<1>2. CASE pair # None
  <2>f. /\ thread'[k].pc = "superseded" /\ thread'[k].conn = thread[k].conn
           /\ thread'[k].back = thread[k].back
        /\ tr'[c] = tr[c]
        /\ entry'[c] = entry[c]
        /\ chan'[c] = chan[c]
        /\ run'[c] = run[c]
        /\ out'[c] = out[c]
        /\ reader'[c] = reader[c]
        /\ (c \in ids') = (c \in ids)
        /\ (c \in spoiled) => (c \in spoiled')
        /\ thread[k].pc = "register"
    BY <1>2, <1>e
      DEF At, registry, peer, rest, Register, Goto, ChannelTypeOK, Works, Transports, Entries,
          Ends
  <2>l. Local(c, k)
    BY <1>2, <1>w, <1>e, <2>f
      DEF Local, At, registry, peer, rest, Register, Goto, ChannelTypeOK, Conn, AtRest
  <2>j. \A j \in Threads \ {k} : thread'[j] = thread[j]
    BY <2>l DEF Local
  <2>s. Stopper \in Threads /\ Cleaner(c) \in Threads
    BY <1>w, CleanersDiffer DEF Threads
  <2>1. FreshAt(c)'
    BY <1>w, <2>f, <2>j DEF FreshAt
  <2>2. AnswersAt(c)'
    BY <1>w, <2>f, <2>j DEF ConnInv, AnswersAt
  <2>3. CleanerAt(c)'
    BY <1>w, <2>f, <2>j, <2>s, CleanersDiffer
      DEF ConnInv, CleanerAt, ThreadAt, Exiting, Conn, AtRest, Opening, Terminating,
          Established
  <2>4. OwnedAt(c)'
    BY <1>w, <2>f, <2>j DEF ConnInv, OwnedAt, With, Conn, AtRest
  <2>5. ReportedAt(c)'
    BY <1>w, <2>f, <2>j
      DEF ConnInv, ReportedAt, StopperAt, ThreadAt, OpenerAt, With, Exiting, Conn, AtRest,
          Opening, Terminating, Established
  <2>6. StoppingAt(c)'
    BY <1>w, <2>f, <2>j
      DEF ConnInv, StoppingAt, ThreadAt, With, Exiting, Conn, AtRest, Opening, Terminating,
          Established
  <2>7. ThreadAt(k)' /\ OpenerAt(k)'
    BY <1>w, <2>f, <2>j, CleanersDiffer
      DEF ConnInv, ThreadAt, OpenerAt, AnswersAt, CleanerAt, Conn, AtRest, Threads, Opening,
          Terminating, Established
  <2>8. ASSUME NEW j \in Threads \ {k}, Conn(j)' = c
       PROVE  ThreadAt(j)' /\ OpenerAt(j)'
    <3>1. thread'[j] = thread[j] /\ Conn(j) = c /\ ThreadAt(j) /\ OpenerAt(j)
      BY <1>i, <2>j, <2>8 DEF Conn, ConnectionsInv
    <3>2. ThreadAt(j)'
      BY <3>1, <1>w, <2>f, <2>j
        DEF ConnInv, ThreadAt, AnswersAt, Conn, Opening, Terminating, Established
    <3>3. OpenerAt(j)'
      BY <3>1, <1>w, <2>f, <2>j, CleanersDiffer
        DEF ConnInv, ThreadAt, OpenerAt, CleanerAt, Conn, AtRest, Threads, Exiting, Opening,
            Terminating, Established
    <3> QED
      BY <3>2, <3>3
  <2> QED
    BY <1>w, <2>l, <2>1, <2>2, <2>3, <2>4, <2>5, <2>6, <2>7, <2>8 DEF Here, ConnInv
<1> QED
  BY <1>c, <1>1, <1>2 DEF Register

LEMMA SupersededHere ==
    ASSUME ConnectionsInv, NEW k \in Threads, Superseded(k)
    PROVE  \E c \in Conns : Local(c, k) /\ Here(c, k)'
<1>c. PICK c : c = Conn(k)
  OBVIOUS
<1>i. ConnectionsInv
  OBVIOUS
<1>k. thread[k].pc # "idle"
  BY DEF Superseded, At
<1>w. /\ c \in Conns /\ c # None /\ reader[c] # "none" /\ Conn(k) = c
      /\ k \in Callers \cup {Stopper, Cleaner(c)}
      /\ ConnInv(c) /\ ThreadAt(k) /\ OpenerAt(k)
  BY <1>k, <1>c, AtWork
<1>e. ChannelTypeOK /\ c \in Conns /\ k \in Threads /\ c = Conn(k)
  BY <1>c, <1>w DEF ConnectionsInv
<1>f. /\ thread'[k].pc = "lock" /\ thread'[k].conn = thread[k].conn /\ thread'[k].back = "idle"
      /\ tr'[c].connect = tr[c].connect /\ tr'[c].close = tr[c].close
         /\ tr'[c].established = tr[c].established /\ tr'[c].reported = TRUE
         /\ tr'[c].confirmed = tr[c].confirmed
      /\ entry'[c] = entry[c]
      /\ chan'[c].exit = chan[c].exit /\ chan'[c].ended = TRUE
      /\ run'[c] = IF run[c] = "active" THEN "cancelled" ELSE run[c]
      /\ out'[c] = out[c]
      /\ reader'[c] = reader[c]
      /\ (c \in ids') = (c \in ids)
      /\ (c \in spoiled) => (c \in spoiled')
      /\ thread[k].pc = "superseded"
  BY <1>k, <1>e
    DEF At, registry, peer, rest, Superseded, Ended, Finish, Terminate, OwnEnd, ChannelTypeOK,
        Works, Transports, Entries, Ends
<1>l. Local(c, k)
  BY <1>k, <1>w, <1>e, <1>f
    DEF Local, At, registry, peer, rest, Superseded, Ended, Finish, Terminate, OwnEnd,
        ChannelTypeOK, Conn, AtRest
<1>j. \A j \in Threads \ {k} : thread'[j] = thread[j]
  BY <1>l DEF Local
<1>s. Stopper \in Threads /\ Cleaner(c) \in Threads
  BY <1>w, CleanersDiffer DEF Threads
<1>1. FreshAt(c)'
  BY <1>w, <1>f, <1>j DEF FreshAt
<1>2. AnswersAt(c)'
  BY <1>w, <1>f, <1>j DEF ConnInv, AnswersAt
<1>3. CleanerAt(c)'
  BY <1>w, <1>f, <1>j, <1>s, CleanersDiffer
    DEF ConnInv, CleanerAt, ThreadAt, Exiting, Conn, AtRest, Opening, Terminating, Established
<1>4. OwnedAt(c)'
  BY <1>w, <1>f, <1>j DEF ConnInv, OwnedAt, With, Conn, AtRest
<1>5. ReportedAt(c)'
  BY <1>w, <1>f, <1>j
    DEF ConnInv, ReportedAt, StopperAt, ThreadAt, OpenerAt, With, Exiting, Conn, AtRest,
        Opening, Terminating, Established
<1>6. StoppingAt(c)'
  BY <1>w, <1>f, <1>j
    DEF ConnInv, StoppingAt, ThreadAt, With, Exiting, Conn, AtRest, Opening, Terminating,
        Established
<1>7. ThreadAt(k)' /\ OpenerAt(k)'
  BY <1>w, <1>f, <1>j, CleanersDiffer
    DEF ConnInv, ThreadAt, OpenerAt, AnswersAt, CleanerAt, Conn, AtRest, Threads, Opening,
        Terminating, Established
<1>8. ASSUME NEW j \in Threads \ {k}, Conn(j)' = c
     PROVE  ThreadAt(j)' /\ OpenerAt(j)'
  <2>1. thread'[j] = thread[j] /\ Conn(j) = c /\ ThreadAt(j) /\ OpenerAt(j)
    BY <1>i, <1>j, <1>8 DEF Conn, ConnectionsInv
  <2>2. ThreadAt(j)'
    BY <2>1, <1>w, <1>f, <1>j
      DEF ConnInv, ThreadAt, AnswersAt, Conn, Opening, Terminating, Established
  <2>3. OpenerAt(j)'
    BY <2>1, <1>w, <1>f, <1>j, CleanersDiffer
      DEF ConnInv, ThreadAt, OpenerAt, CleanerAt, Conn, AtRest, Threads, Exiting, Opening,
          Terminating, Established
  <2> QED
    BY <2>2, <2>3
<1> QED
  BY <1>w, <1>l, <1>1, <1>2, <1>3, <1>4, <1>5, <1>6, <1>7, <1>8 DEF Here, ConnInv

LEMMA CheckExitHere ==
    ASSUME ConnectionsInv, NEW k \in Threads, CheckExit(k)
    PROVE  \E c \in Conns : Local(c, k) /\ Here(c, k)'
<1>c. PICK c : c = Conn(k)
  OBVIOUS
<1>i. ConnectionsInv
  OBVIOUS
<1>k. thread[k].pc # "idle"
  BY DEF CheckExit, At
<1>w. /\ c \in Conns /\ c # None /\ reader[c] # "none" /\ Conn(k) = c
      /\ k \in Callers \cup {Stopper, Cleaner(c)}
      /\ ConnInv(c) /\ ThreadAt(k) /\ OpenerAt(k)
  BY <1>k, <1>c, AtWork
<1>e. ChannelTypeOK /\ c \in Conns /\ k \in Threads /\ c = Conn(k)
  BY <1>c, <1>w DEF ConnectionsInv
<1>1. CASE DiedBefore(c) /\ run' = Ended(c, "failed") /\ Finish(c)
  <2>f. /\ thread'[k] = AtRest
        /\ tr'[c] = tr[c]
        /\ entry'[c] = entry[c]
        /\ chan'[c].exit = chan[c].exit /\ chan'[c].ended = TRUE
        /\ run'[c] = IF run[c] = "active" THEN "failed" ELSE run[c]
        /\ out'[c] = out[c]
        /\ reader'[c] = reader[c]
        /\ (c \in ids') = (c \in ids)
        /\ (c \in spoiled) => (c \in spoiled')
        /\ thread[k].pc = "check"
    BY <1>1, <1>e
      DEF At, registry, peer, rest, CheckExit, Ended, Finish, Done, ChannelTypeOK, Works,
          Transports, Entries, Ends
  <2>l. Local(c, k)
    BY <1>1, <1>w, <1>e, <2>f
      DEF Local, At, registry, peer, rest, CheckExit, Ended, Finish, Done, ChannelTypeOK,
          Conn, AtRest
  <2>j. \A j \in Threads \ {k} : thread'[j] = thread[j]
    BY <2>l DEF Local
  <2>s. Stopper \in Threads /\ Cleaner(c) \in Threads
    BY <1>w, CleanersDiffer DEF Threads
  <2>1. FreshAt(c)'
    BY <1>w, <2>f, <2>j DEF FreshAt
  <2>2. AnswersAt(c)'
    BY <1>w, <2>f, <2>j DEF ConnInv, AnswersAt
  <2>3. CleanerAt(c)'
    BY <1>w, <2>f, <2>j, <2>s, CleanersDiffer
      DEF ConnInv, CleanerAt, ThreadAt, Exiting, Conn, AtRest, Opening, Terminating,
          Established
  <2>4. OwnedAt(c)'
    BY <1>w, <2>f, <2>j DEF ConnInv, OwnedAt, With, Conn, AtRest
  <2>5. ReportedAt(c)'
    BY <1>w, <2>f, <2>j
      DEF ConnInv, ReportedAt, StopperAt, ThreadAt, OpenerAt, With, Exiting, Conn, AtRest,
          Opening, Terminating, Established
  <2>6. StoppingAt(c)'
    BY <1>w, <2>f, <2>j
      DEF ConnInv, StoppingAt, ThreadAt, With, Exiting, Conn, AtRest, Opening, Terminating,
          Established
  <2>7. ThreadAt(k)' /\ OpenerAt(k)'
    BY <1>w, <2>f, <2>j, CleanersDiffer
      DEF ConnInv, ThreadAt, OpenerAt, AnswersAt, CleanerAt, Conn, AtRest, Threads, Opening,
          Terminating, Established
  <2>8. ASSUME NEW j \in Threads \ {k}, Conn(j)' = c
       PROVE  ThreadAt(j)' /\ OpenerAt(j)'
    <3>1. thread'[j] = thread[j] /\ Conn(j) = c /\ ThreadAt(j) /\ OpenerAt(j)
      BY <1>i, <2>j, <2>8 DEF Conn, ConnectionsInv
    <3>2. ThreadAt(j)'
      BY <3>1, <1>w, <2>f, <2>j
        DEF ConnInv, ThreadAt, AnswersAt, Conn, Opening, Terminating, Established
    <3>3. OpenerAt(j)'
      BY <3>1, <1>w, <2>f, <2>j, CleanersDiffer
        DEF ConnInv, ThreadAt, OpenerAt, CleanerAt, Conn, AtRest, Threads, Exiting, Opening,
            Terminating, Established
    <3> QED
      BY <3>2, <3>3
  <2> QED
    BY <1>w, <2>l, <2>1, <2>2, <2>3, <2>4, <2>5, <2>6, <2>7, <2>8 DEF Here, ConnInv
<1>2. CASE ~DiedBefore(c) /\ UNCHANGED <<run, chan, socket>>
  <2>f. /\ thread'[k] = AtRest
        /\ tr'[c] = tr[c]
        /\ entry'[c] = entry[c]
        /\ chan'[c] = chan[c]
        /\ run'[c] = run[c]
        /\ out'[c] = out[c]
        /\ reader'[c] = reader[c]
        /\ (c \in ids') = (c \in ids)
        /\ (c \in spoiled) => (c \in spoiled')
        /\ thread[k].pc = "check" /\ chan'[c].exit = FALSE
    BY <1>2, <1>e
      DEF At, registry, peer, rest, CheckExit, DiedBefore, Done, ChannelTypeOK, Works,
          Transports, Entries, Ends
  <2>l. Local(c, k)
    BY <1>2, <1>w, <1>e, <2>f
      DEF Local, At, registry, peer, rest, CheckExit, DiedBefore, Done, ChannelTypeOK, Conn,
          AtRest
  <2>j. \A j \in Threads \ {k} : thread'[j] = thread[j]
    BY <2>l DEF Local
  <2>s. Stopper \in Threads /\ Cleaner(c) \in Threads
    BY <1>w, CleanersDiffer DEF Threads
  <2>1. FreshAt(c)'
    BY <1>w, <2>f, <2>j DEF FreshAt
  <2>2. AnswersAt(c)'
    BY <1>w, <2>f, <2>j DEF ConnInv, AnswersAt
  <2>3. CleanerAt(c)'
    BY <1>w, <2>f, <2>j, <2>s, CleanersDiffer
      DEF ConnInv, CleanerAt, ThreadAt, Exiting, Conn, AtRest, Opening, Terminating,
          Established
  <2>4. OwnedAt(c)'
    BY <1>w, <2>f, <2>j DEF ConnInv, OwnedAt, With, Conn, AtRest
  <2>5. ReportedAt(c)'
    <3>1. With(c, {"await", "claim"}) => With(c, {"await", "claim"})'
      BY <2>f, <2>j, WithKept
    <3>2. StopperAt(c) => StopperAt(c)'
      BY <1>w, <2>f, <2>j, <2>s DEF StopperAt, Terminating, Conn
    <3>3. chan[c].exit = FALSE /\ Exiting(c)' = Exiting(c)
      BY <2>f DEF Exiting
    <3> QED
      BY <1>w, <2>f, <3>1, <3>2, <3>3 DEF ConnInv, ReportedAt
  <2>6. StoppingAt(c)'
    BY <1>w, <2>f, <2>j
      DEF ConnInv, StoppingAt, ThreadAt, With, Exiting, Conn, AtRest, Opening, Terminating,
          Established
  <2>7. ThreadAt(k)' /\ OpenerAt(k)'
    BY <1>w, <2>f, <2>j, CleanersDiffer
      DEF ConnInv, ThreadAt, OpenerAt, AnswersAt, CleanerAt, Conn, AtRest, Threads, Opening,
          Terminating, Established
  <2>8. ASSUME NEW j \in Threads \ {k}, Conn(j)' = c
       PROVE  ThreadAt(j)' /\ OpenerAt(j)'
    <3>1. thread'[j] = thread[j] /\ Conn(j) = c /\ ThreadAt(j) /\ OpenerAt(j)
      BY <1>i, <2>j, <2>8 DEF Conn, ConnectionsInv
    <3>2. ThreadAt(j)'
      BY <3>1, <1>w, <2>f, <2>j
        DEF ConnInv, ThreadAt, AnswersAt, Conn, Opening, Terminating, Established
    <3>3. OpenerAt(j)'
      BY <3>1, <1>w, <2>f, <2>j, CleanersDiffer
        DEF ConnInv, ThreadAt, OpenerAt, CleanerAt, Conn, AtRest, Threads, Exiting, Opening,
            Terminating, Established
    <3> QED
      BY <3>2, <3>3
  <2> QED
    BY <1>w, <2>l, <2>1, <2>2, <2>3, <2>4, <2>5, <2>6, <2>7, <2>8 DEF Here, ConnInv
<1> QED
  BY <1>c, <1>1, <1>2 DEF CheckExit

LEMMA SettleHere ==
    ASSUME ConnectionsInv, NEW k \in Threads, Settle(k)
    PROVE  \E c \in Conns : Local(c, k) /\ Here(c, k)'
<1>c. PICK c : c = Conn(k)
  OBVIOUS
<1>i. ConnectionsInv
  OBVIOUS
<1>k. thread[k].pc # "idle"
  BY DEF Settle, At
<1>w. /\ c \in Conns /\ c # None /\ reader[c] # "none" /\ Conn(k) = c
      /\ k \in Callers \cup {Stopper, Cleaner(c)}
      /\ ConnInv(c) /\ ThreadAt(k) /\ OpenerAt(k)
  BY <1>k, <1>c, AtWork
<1>e. ChannelTypeOK /\ c \in Conns /\ k \in Threads /\ c = Conn(k)
  BY <1>c, <1>w DEF ConnectionsInv
<1>f. /\ thread'[k] = AtRest
      /\ tr'[c] = tr[c]
      /\ entry'[c] = entry[c]
      /\ chan'[c].exit = chan[c].exit /\ chan'[c].ended = TRUE
      /\ run'[c] = IF run[c] = "active" THEN "cancelled" ELSE run[c]
      /\ out'[c] = out[c]
      /\ reader'[c] = reader[c]
      /\ (c \in ids') = (c \in ids)
      /\ (c \in spoiled) => (c \in spoiled')
      /\ thread[k].pc = "settle"
  BY <1>k, <1>e
    DEF At, registry, peer, rest, Settle, Ended, Finish, Done, ChannelTypeOK, Works,
        Transports, Entries, Ends
<1>l. Local(c, k)
  BY <1>k, <1>w, <1>e, <1>f
    DEF Local, At, registry, peer, rest, Settle, Ended, Finish, Done, ChannelTypeOK, Conn,
        AtRest
<1>j. \A j \in Threads \ {k} : thread'[j] = thread[j]
  BY <1>l DEF Local
<1>s. Stopper \in Threads /\ Cleaner(c) \in Threads
  BY <1>w, CleanersDiffer DEF Threads
<1>1. FreshAt(c)'
  BY <1>w, <1>f, <1>j DEF FreshAt
<1>2. AnswersAt(c)'
  BY <1>w, <1>f, <1>j DEF ConnInv, AnswersAt
<1>3. CleanerAt(c)'
  BY <1>w, <1>f, <1>j, <1>s, CleanersDiffer
    DEF ConnInv, CleanerAt, ThreadAt, Exiting, Conn, AtRest, Opening, Terminating, Established
<1>4. OwnedAt(c)'
  BY <1>w, <1>f, <1>j DEF ConnInv, OwnedAt, With, Conn, AtRest
<1>5. ReportedAt(c)'
  BY <1>w, <1>f, <1>j
    DEF ConnInv, ReportedAt, StopperAt, ThreadAt, OpenerAt, With, Exiting, Conn, AtRest,
        Opening, Terminating, Established
<1>6. StoppingAt(c)'
  BY <1>w, <1>f, <1>j
    DEF ConnInv, StoppingAt, ThreadAt, With, Exiting, Conn, AtRest, Opening, Terminating,
        Established
<1>7. ThreadAt(k)' /\ OpenerAt(k)'
  BY <1>w, <1>f, <1>j, CleanersDiffer
    DEF ConnInv, ThreadAt, OpenerAt, AnswersAt, CleanerAt, Conn, AtRest, Threads, Opening,
        Terminating, Established
<1>8. ASSUME NEW j \in Threads \ {k}, Conn(j)' = c
     PROVE  ThreadAt(j)' /\ OpenerAt(j)'
  <2>1. thread'[j] = thread[j] /\ Conn(j) = c /\ ThreadAt(j) /\ OpenerAt(j)
    BY <1>i, <1>j, <1>8 DEF Conn, ConnectionsInv
  <2>2. ThreadAt(j)'
    BY <2>1, <1>w, <1>f, <1>j
      DEF ConnInv, ThreadAt, AnswersAt, Conn, Opening, Terminating, Established
  <2>3. OpenerAt(j)'
    BY <2>1, <1>w, <1>f, <1>j, CleanersDiffer
      DEF ConnInv, ThreadAt, OpenerAt, CleanerAt, Conn, AtRest, Threads, Exiting, Opening,
          Terminating, Established
  <2> QED
    BY <2>2, <2>3
<1> QED
  BY <1>w, <1>l, <1>1, <1>2, <1>3, <1>4, <1>5, <1>6, <1>7, <1>8 DEF Here, ConnInv

LEMMA ClaimHere ==
    ASSUME ConnectionsInv, NEW k \in Threads, Claim(k)
    PROVE  \E c \in Conns : Local(c, k) /\ Here(c, k)'
<1>c. PICK c : c = Conn(k)
  OBVIOUS
<1>i. ConnectionsInv
  OBVIOUS
<1>k. thread[k].pc # "idle"
  BY DEF Claim, At
<1>w. /\ c \in Conns /\ c # None /\ reader[c] # "none" /\ Conn(k) = c
      /\ k \in Callers \cup {Stopper, Cleaner(c)}
      /\ ConnInv(c) /\ ThreadAt(k) /\ OpenerAt(k)
  BY <1>k, <1>c, AtWork
<1>e. ChannelTypeOK /\ c \in Conns /\ k \in Threads /\ c = Conn(k)
  BY <1>c, <1>w DEF ConnectionsInv
<1>1. CASE c \in ids
  <2>f. /\ thread'[k].pc = "settle" /\ thread'[k].conn = thread[k].conn
           /\ thread'[k].back = thread[k].back
        /\ tr'[c] = tr[c]
        /\ entry'[c] = entry[c]
        /\ chan'[c] = chan[c]
        /\ run'[c] = run[c]
        /\ out'[c] = out[c]
        /\ reader'[c] = reader[c]
        /\ c \notin ids' /\ c \in ids
        /\ (c \in spoiled) => (c \in spoiled')
        /\ thread[k].pc = "claim"
    BY <1>1, <1>e
      DEF At, registry, peer, rest, Claim, Unregister, Registered, Goto, ChannelTypeOK, Works,
          Transports, Entries, Ends
  <2>l. Local(c, k)
    BY <1>1, <1>w, <1>e, <2>f
      DEF Local, At, registry, peer, rest, Claim, Unregister, Registered, Goto, ChannelTypeOK,
          Conn, AtRest
  <2>j. \A j \in Threads \ {k} : thread'[j] = thread[j]
    BY <2>l DEF Local
  <2>s. Stopper \in Threads /\ Cleaner(c) \in Threads
    BY <1>w, CleanersDiffer DEF Threads
  <2>1. FreshAt(c)'
    BY <1>w, <2>f, <2>j DEF FreshAt
  <2>2. AnswersAt(c)'
    BY <1>w, <2>f, <2>j DEF ConnInv, AnswersAt
  <2>3. CleanerAt(c)'
    BY <1>w, <2>f, <2>j, <2>s, CleanersDiffer
      DEF ConnInv, CleanerAt, ThreadAt, Exiting, Conn, AtRest, Opening, Terminating,
          Established
  <2>4. OwnedAt(c)'
    BY <1>w, <2>f, <2>j DEF ConnInv, OwnedAt, With, Conn, AtRest
  <2>5. ReportedAt(c)'
    BY <1>w, <2>f, <2>j
      DEF ConnInv, ReportedAt, StopperAt, ThreadAt, OpenerAt, With, Exiting, Conn, AtRest,
          Opening, Terminating, Established
  <2>6. StoppingAt(c)'
    BY <1>w, <2>f, <2>j
      DEF ConnInv, StoppingAt, ThreadAt, With, Exiting, Conn, AtRest, Opening, Terminating,
          Established
  <2>7. ThreadAt(k)' /\ OpenerAt(k)'
    BY <1>w, <2>f, <2>j, CleanersDiffer
      DEF ConnInv, ThreadAt, OpenerAt, AnswersAt, CleanerAt, Conn, AtRest, Threads, Opening,
          Terminating, Established
  <2>8. ASSUME NEW j \in Threads \ {k}, Conn(j)' = c
       PROVE  ThreadAt(j)' /\ OpenerAt(j)'
    <3>1. thread'[j] = thread[j] /\ Conn(j) = c /\ ThreadAt(j) /\ OpenerAt(j)
      BY <1>i, <2>j, <2>8 DEF Conn, ConnectionsInv
    <3>2. ThreadAt(j)'
      BY <3>1, <1>w, <2>f, <2>j
        DEF ConnInv, ThreadAt, AnswersAt, Conn, Opening, Terminating, Established
    <3>3. OpenerAt(j)'
      BY <3>1, <1>w, <2>f, <2>j, CleanersDiffer
        DEF ConnInv, ThreadAt, OpenerAt, CleanerAt, Conn, AtRest, Threads, Exiting, Opening,
            Terminating, Established
    <3> QED
      BY <3>2, <3>3
  <2> QED
    BY <1>w, <2>l, <2>1, <2>2, <2>3, <2>4, <2>5, <2>6, <2>7, <2>8 DEF Here, ConnInv
<1>2. CASE c \notin ids
  <2>f. /\ thread'[k] = AtRest
        /\ tr'[c] = tr[c]
        /\ entry'[c] = entry[c]
        /\ chan'[c].exit = chan[c].exit /\ chan'[c].ended = TRUE
        /\ run'[c] = run[c]
        /\ out'[c] = out[c]
        /\ reader'[c] = reader[c]
        /\ c \notin ids' /\ c \notin ids
        /\ (c \in spoiled) => (c \in spoiled')
        /\ thread[k].pc = "claim"
    BY <1>2, <1>e
      DEF At, registry, peer, rest, Claim, Unregister, Registered, Finish, Done,
          ChannelTypeOK, Works, Transports, Entries, Ends
  <2>l. Local(c, k)
    BY <1>2, <1>w, <1>e, <2>f
      DEF Local, At, registry, peer, rest, Claim, Unregister, Registered, Finish, Done,
          ChannelTypeOK, Conn, AtRest
  <2>j. \A j \in Threads \ {k} : thread'[j] = thread[j]
    BY <2>l DEF Local
  <2>s. Stopper \in Threads /\ Cleaner(c) \in Threads
    BY <1>w, CleanersDiffer DEF Threads
  <2>1. FreshAt(c)'
    BY <1>w, <2>f, <2>j DEF FreshAt
  <2>2. AnswersAt(c)'
    BY <1>w, <2>f, <2>j DEF ConnInv, AnswersAt
  <2>3. CleanerAt(c)'
    BY <1>w, <2>f, <2>j, <2>s, CleanersDiffer
      DEF ConnInv, CleanerAt, ThreadAt, Exiting, Conn, AtRest, Opening, Terminating,
          Established
  <2>4. OwnedAt(c)'
    BY <1>w, <2>f, <2>j DEF ConnInv, OwnedAt, With, Conn, AtRest
  <2>5. ReportedAt(c)'
    BY <1>w, <2>f, <2>j
      DEF ConnInv, ReportedAt, StopperAt, ThreadAt, OpenerAt, With, Exiting, Conn, AtRest,
          Opening, Terminating, Established
  <2>6. StoppingAt(c)'
    BY <1>w, <2>f, <2>j
      DEF ConnInv, StoppingAt, ThreadAt, With, Exiting, Conn, AtRest, Opening, Terminating,
          Established
  <2>7. ThreadAt(k)' /\ OpenerAt(k)'
    BY <1>w, <2>f, <2>j, CleanersDiffer
      DEF ConnInv, ThreadAt, OpenerAt, AnswersAt, CleanerAt, Conn, AtRest, Threads, Opening,
          Terminating, Established
  <2>8. ASSUME NEW j \in Threads \ {k}, Conn(j)' = c
       PROVE  ThreadAt(j)' /\ OpenerAt(j)'
    <3>1. thread'[j] = thread[j] /\ Conn(j) = c /\ ThreadAt(j) /\ OpenerAt(j)
      BY <1>i, <2>j, <2>8 DEF Conn, ConnectionsInv
    <3>2. ThreadAt(j)'
      BY <3>1, <1>w, <2>f, <2>j
        DEF ConnInv, ThreadAt, AnswersAt, Conn, Opening, Terminating, Established
    <3>3. OpenerAt(j)'
      BY <3>1, <1>w, <2>f, <2>j, CleanersDiffer
        DEF ConnInv, ThreadAt, OpenerAt, CleanerAt, Conn, AtRest, Threads, Exiting, Opening,
            Terminating, Established
    <3> QED
      BY <3>2, <3>3
  <2> QED
    BY <1>w, <2>l, <2>1, <2>2, <2>3, <2>4, <2>5, <2>6, <2>7, <2>8 DEF Here, ConnInv
<1> QED
  BY <1>c, <1>1, <1>2 DEF Claim

\* What one reply leaves of the transport, once its waiter has let the lock go.

LEMMA UnlockedFields ==
    ASSUME NEW t \in Transports, NEW reply \in Replies
    PROVE  /\ Unlocked(t, reply).connect = t.connect
           /\ Unlocked(t, reply).close = IF reply = "waiting" THEN "waiting" ELSE "none"
           /\ Unlocked(t, reply).established = t.established
           /\ Unlocked(t, reply).reported = t.reported
           /\ reply = "ok" => Unlocked(t, reply).confirmed = TRUE
           /\ reply # "ok" => Unlocked(t, reply).confirmed = t.confirmed
           /\ Unlocked(t, reply) \in Transports
<1>1. t.confirmed \in BOOLEAN
  BY DEF Transports
<1>2. reply # "ok" => (t.confirmed \/ reply = "ok") = t.confirmed
  BY <1>1
<1>3. (t.confirmed \/ reply = "ok") \in BOOLEAN
  OBVIOUS
<1>4. None \in Threads \cup {None}
  OBVIOUS
<1> QED
  BY <1>2, <1>3, <1>4 DEF Transports, Unlocked, Receipt, Replies

LEMMA TrFields ==
    ASSUME ChannelTypeOK, NEW c \in Conns
    PROVE  tr[c] \in Transports /\ tr[c].close \in Replies
BY DEF ChannelTypeOK, Transports

LEMMA AskHere ==
    ASSUME ConnectionsInv, NEW k \in Threads, Ask(k)
    PROVE  \E c \in Conns : Local(c, k) /\ Here(c, k)'
<1>c. PICK c : c = Conn(k)
  OBVIOUS
<1>i. ConnectionsInv
  OBVIOUS
<1>k. thread[k].pc # "idle"
  BY DEF Ask, At
<1>w. /\ c \in Conns /\ c # None /\ reader[c] # "none" /\ Conn(k) = c
      /\ k \in Callers \cup {Stopper, Cleaner(c)}
      /\ ConnInv(c) /\ ThreadAt(k) /\ OpenerAt(k)
  BY <1>k, <1>c, AtWork
<1>e. ChannelTypeOK /\ c \in Conns /\ k \in Threads /\ c = Conn(k)
  BY <1>c, <1>w DEF ConnectionsInv
<1>u. UNCHANGED <<pair, ids, chan, run, out, reader>> /\ thread[k].pc = "ask"
  BY <1>c DEF Ask, At, registry, peer, rest
<1>1. CASE tr[c].confirmed /\ Goto(k, "claim") /\ UNCHANGED <<tr, entry, spoiled>>
  <2>f. /\ thread'[k].pc = "claim" /\ thread'[k].conn = thread[k].conn
           /\ thread'[k].back = thread[k].back
        /\ tr'[c] = tr[c]
        /\ entry'[c] = entry[c]
        /\ chan'[c] = chan[c]
        /\ run'[c] = run[c]
        /\ out'[c] = out[c]
        /\ reader'[c] = reader[c]
        /\ (c \in ids') = (c \in ids)
        /\ (c \in spoiled) => (c \in spoiled')
        /\ thread[k].pc = "ask"
        /\ tr[c].confirmed = TRUE
    BY <1>1, <1>u, <1>e DEF Goto, ChannelTypeOK, Works, Transports, Entries, Ends
  <2>l. Local(c, k)
    BY <1>1, <1>u, <1>w, <1>e, <2>f DEF Local, Goto, ChannelTypeOK, Conn, AtRest
  <2>j. \A j \in Threads \ {k} : thread'[j] = thread[j]
    BY <2>l DEF Local
  <2>s. Stopper \in Threads /\ Cleaner(c) \in Threads
    BY <1>w, CleanersDiffer DEF Threads
  <2>1. FreshAt(c)'
    BY <1>w, <2>f, <2>j DEF FreshAt
  <2>2. AnswersAt(c)'
    BY <1>w, <2>f, <2>j DEF ConnInv, AnswersAt
  <2>3. CleanerAt(c)'
    BY <1>w, <2>f, <2>j, <2>s, CleanersDiffer
      DEF ConnInv, CleanerAt, ThreadAt, Exiting, Conn, AtRest, Opening, Terminating,
          Established
  <2>4. OwnedAt(c)'
    BY <1>w, <2>f, <2>j DEF ConnInv, OwnedAt, With, Conn, AtRest
  <2>5. ReportedAt(c)'
    BY <1>w, <2>f, <2>j
      DEF ConnInv, ReportedAt, StopperAt, ThreadAt, OpenerAt, With, Exiting, Conn, AtRest,
          Opening, Terminating, Established
  <2>6. StoppingAt(c)'
    BY <1>w, <2>f, <2>j
      DEF ConnInv, StoppingAt, ThreadAt, With, Exiting, Conn, AtRest, Opening, Terminating,
          Established
  <2>7. ThreadAt(k)' /\ OpenerAt(k)'
    BY <1>w, <2>f, <2>j, CleanersDiffer
      DEF ConnInv, ThreadAt, OpenerAt, AnswersAt, CleanerAt, Conn, AtRest, Threads, Opening,
          Terminating, Established
  <2>8. ASSUME NEW j \in Threads \ {k}, Conn(j)' = c
       PROVE  ThreadAt(j)' /\ OpenerAt(j)'
    <3>1. thread'[j] = thread[j] /\ Conn(j) = c /\ ThreadAt(j) /\ OpenerAt(j)
      BY <1>i, <2>j, <2>8 DEF Conn, ConnectionsInv
    <3>2. ThreadAt(j)'
      BY <3>1, <1>w, <2>f, <2>j
        DEF ConnInv, ThreadAt, AnswersAt, Conn, Opening, Terminating, Established
    <3>3. OpenerAt(j)'
      BY <3>1, <1>w, <2>f, <2>j, CleanersDiffer
        DEF ConnInv, ThreadAt, OpenerAt, CleanerAt, Conn, AtRest, Threads, Exiting, Opening,
            Terminating, Established
    <3> QED
      BY <3>2, <3>3
  <2> QED
    BY <1>w, <2>l, <2>1, <2>2, <2>3, <2>4, <2>5, <2>6, <2>7, <2>8 DEF Here, ConnInv
<1>2. CASE /\ ~tr[c].confirmed /\ tr[c].close # "none"
           /\ tr' = [tr EXCEPT ![c].lock = k] /\ Goto(k, "await")
              /\ UNCHANGED <<entry, spoiled>>
  <2>f. /\ thread'[k].pc = "await" /\ thread'[k].conn = thread[k].conn
           /\ thread'[k].back = thread[k].back
        /\ tr'[c].connect = tr[c].connect /\ tr'[c].close = tr[c].close
           /\ tr'[c].established = tr[c].established /\ tr'[c].reported = tr[c].reported
           /\ tr'[c].confirmed = tr[c].confirmed
        /\ entry'[c] = entry[c]
        /\ chan'[c] = chan[c]
        /\ run'[c] = run[c]
        /\ out'[c] = out[c]
        /\ reader'[c] = reader[c]
        /\ (c \in ids') = (c \in ids)
        /\ (c \in spoiled) => (c \in spoiled')
        /\ thread[k].pc = "ask"
    <3>1. /\ thread'[k].pc = "await" /\ thread'[k].conn = thread[k].conn
          /\ thread'[k].back = thread[k].back
      BY <1>2, <1>u, <1>e DEF Goto, ChannelTypeOK, Works
    <3>2. /\ tr'[c].connect = tr[c].connect /\ tr'[c].close = tr[c].close
          /\ tr'[c].established = tr[c].established /\ tr'[c].reported = tr[c].reported
          /\ tr'[c].confirmed = tr[c].confirmed
      BY <1>2, <1>u, <1>e DEF Goto, ChannelTypeOK, Transports
    <3>3. entry'[c] = entry[c]
      BY <1>2, <1>u, <1>e DEF Goto, ChannelTypeOK, Entries
    <3>4. chan'[c] = chan[c]
      BY <1>2, <1>u, <1>e DEF Goto, ChannelTypeOK, Ends
    <3>5. run'[c] = run[c]
      BY <1>2, <1>u, <1>e DEF Goto, ChannelTypeOK
    <3>6. out'[c] = out[c]
      BY <1>2, <1>u, <1>e DEF Goto, ChannelTypeOK
    <3>7. reader'[c] = reader[c]
      BY <1>2, <1>u, <1>e DEF Goto, ChannelTypeOK
    <3>8. (c \in ids') = (c \in ids)
      BY <1>2, <1>u, <1>e DEF Goto, ChannelTypeOK
    <3>9. (c \in spoiled) => (c \in spoiled')
      BY <1>2, <1>u, <1>e DEF Goto, ChannelTypeOK
    <3>10. thread[k].pc = "ask"
      BY <1>2, <1>u, <1>e DEF Goto, ChannelTypeOK
    <3> QED
      BY <3>1, <3>2, <3>3, <3>4, <3>5, <3>6, <3>7, <3>8, <3>9, <3>10
  <2>l. Local(c, k)
    BY <1>2, <1>u, <1>w, <1>e, <2>f DEF Local, Goto, ChannelTypeOK, Conn, AtRest
  <2>j. \A j \in Threads \ {k} : thread'[j] = thread[j]
    BY <2>l DEF Local
  <2>s. Stopper \in Threads /\ Cleaner(c) \in Threads
    BY <1>w, CleanersDiffer DEF Threads
  <2>1. FreshAt(c)'
    BY <1>w, <2>f, <2>j DEF FreshAt
  <2>2. AnswersAt(c)'
    BY <1>w, <2>f, <2>j DEF ConnInv, AnswersAt
  <2>3. CleanerAt(c)'
    BY <1>w, <2>f, <2>j, <2>s, CleanersDiffer
      DEF ConnInv, CleanerAt, ThreadAt, Exiting, Conn, AtRest, Opening, Terminating,
          Established
  <2>4. OwnedAt(c)'
    BY <1>w, <2>f, <2>j DEF ConnInv, OwnedAt, With, Conn, AtRest
  <2>5. ReportedAt(c)'
    BY <1>w, <2>f, <2>j
      DEF ConnInv, ReportedAt, StopperAt, ThreadAt, OpenerAt, With, Exiting, Conn, AtRest,
          Opening, Terminating, Established
  <2>6. StoppingAt(c)'
    BY <1>w, <2>f, <2>j
      DEF ConnInv, StoppingAt, ThreadAt, With, Exiting, Conn, AtRest, Opening, Terminating,
          Established
  <2>7. ThreadAt(k)' /\ OpenerAt(k)'
    BY <1>w, <2>f, <2>j, CleanersDiffer
      DEF ConnInv, ThreadAt, OpenerAt, AnswersAt, CleanerAt, Conn, AtRest, Threads, Opening,
          Terminating, Established
  <2>8. ASSUME NEW j \in Threads \ {k}, Conn(j)' = c
       PROVE  ThreadAt(j)' /\ OpenerAt(j)'
    <3>1. thread'[j] = thread[j] /\ Conn(j) = c /\ ThreadAt(j) /\ OpenerAt(j)
      BY <1>i, <2>j, <2>8 DEF Conn, ConnectionsInv
    <3>2. ThreadAt(j)'
      BY <3>1, <1>w, <2>f, <2>j
        DEF ConnInv, ThreadAt, AnswersAt, Conn, Opening, Terminating, Established
    <3>3. OpenerAt(j)'
      BY <3>1, <1>w, <2>f, <2>j, CleanersDiffer
        DEF ConnInv, ThreadAt, OpenerAt, CleanerAt, Conn, AtRest, Threads, Exiting, Opening,
            Terminating, Established
    <3> QED
      BY <3>2, <3>3
  <2> QED
    BY <1>w, <2>l, <2>1, <2>2, <2>3, <2>4, <2>5, <2>6, <2>7, <2>8 DEF Here, ConnInv
<1>3. CASE /\ ~tr[c].confirmed /\ tr[c].close = "none" /\ Reachable(c)
           /\ tr' = [tr EXCEPT ![c] = Written(k, OwnEnd(@))]
           /\ AskEntry(c) /\ Goto(k, "await") /\ UNCHANGED spoiled
  <2>f. /\ thread'[k].pc = "await" /\ thread'[k].conn = thread[k].conn
           /\ thread'[k].back = thread[k].back
        /\ tr'[c].connect = tr[c].connect /\ tr'[c].close = "waiting"
           /\ tr'[c].established = tr[c].established /\ tr'[c].reported = TRUE
           /\ tr'[c].confirmed = tr[c].confirmed
        /\ entry'[c].alive = entry[c].alive /\ entry'[c].todo = "close"
           /\ entry'[c].ended = entry[c].ended /\ entry'[c].harness = entry[c].harness
        /\ chan'[c] = chan[c]
        /\ run'[c] = run[c]
        /\ out'[c] = out[c]
        /\ reader'[c] = reader[c]
        /\ (c \in ids') = (c \in ids)
        /\ (c \in spoiled) => (c \in spoiled')
        /\ thread[k].pc = "ask"
        /\ entry[c].alive = TRUE
    <3>1. /\ thread'[k].pc = "await" /\ thread'[k].conn = thread[k].conn
          /\ thread'[k].back = thread[k].back
      BY <1>3, <1>u, <1>e DEF Goto, AskEntry, Written, OwnEnd, Reachable, ChannelTypeOK, Works
    <3>2. /\ tr'[c].connect = tr[c].connect /\ tr'[c].close = "waiting"
          /\ tr'[c].established = tr[c].established /\ tr'[c].reported = TRUE
          /\ tr'[c].confirmed = tr[c].confirmed
      BY <1>3, <1>u, <1>e
        DEF Goto, AskEntry, Written, OwnEnd, Reachable, ChannelTypeOK, Transports
    <3>3. /\ entry'[c].alive = entry[c].alive /\ entry'[c].todo = "close"
          /\ entry'[c].ended = entry[c].ended /\ entry'[c].harness = entry[c].harness
      BY <1>3, <1>u, <1>e DEF Goto, AskEntry, Written, OwnEnd, Reachable, ChannelTypeOK, Entries
    <3>4. chan'[c] = chan[c]
      BY <1>3, <1>u, <1>e DEF Goto, AskEntry, Written, OwnEnd, Reachable, ChannelTypeOK, Ends
    <3>5. run'[c] = run[c]
      BY <1>3, <1>u, <1>e DEF Goto, AskEntry, Written, OwnEnd, Reachable, ChannelTypeOK
    <3>6. out'[c] = out[c]
      BY <1>3, <1>u, <1>e DEF Goto, AskEntry, Written, OwnEnd, Reachable, ChannelTypeOK
    <3>7. reader'[c] = reader[c]
      BY <1>3, <1>u, <1>e DEF Goto, AskEntry, Written, OwnEnd, Reachable, ChannelTypeOK
    <3>8. (c \in ids') = (c \in ids)
      BY <1>3, <1>u, <1>e DEF Goto, AskEntry, Written, OwnEnd, Reachable, ChannelTypeOK
    <3>9. (c \in spoiled) => (c \in spoiled')
      BY <1>3, <1>u, <1>e DEF Goto, AskEntry, Written, OwnEnd, Reachable, ChannelTypeOK
    <3>10. thread[k].pc = "ask"
      BY <1>3, <1>u, <1>e DEF Goto, AskEntry, Written, OwnEnd, Reachable, ChannelTypeOK
    <3>11. entry[c].alive = TRUE
      BY <1>3, <1>u, <1>e DEF Goto, AskEntry, Written, OwnEnd, Reachable, ChannelTypeOK
    <3> QED
      BY <3>1, <3>2, <3>3, <3>4, <3>5, <3>6, <3>7, <3>8, <3>9, <3>10, <3>11
  <2>l. Local(c, k)
    BY <1>3, <1>u, <1>w, <1>e, <2>f
      DEF Local, Goto, AskEntry, Written, OwnEnd, Reachable, ChannelTypeOK, Conn, AtRest
  <2>j. \A j \in Threads \ {k} : thread'[j] = thread[j]
    BY <2>l DEF Local
  <2>s. Stopper \in Threads /\ Cleaner(c) \in Threads
    BY <1>w, CleanersDiffer DEF Threads
  <2>1. FreshAt(c)'
    BY <1>w, <2>f, <2>j DEF FreshAt
  <2>2. AnswersAt(c)'
    BY <1>w, <2>f, <2>j DEF ConnInv, AnswersAt, ThreadAt, Established, Conn
  <2>3. CleanerAt(c)'
    BY <1>w, <2>f, <2>j, <2>s, CleanersDiffer
      DEF ConnInv, CleanerAt, ThreadAt, Exiting, Conn, AtRest, Opening, Terminating,
          Established
  <2>4. OwnedAt(c)'
    BY <1>w, <2>f, <2>j DEF ConnInv, OwnedAt, With, Conn, AtRest
  <2>5. ReportedAt(c)'
    BY <1>w, <2>f, <2>j
      DEF ConnInv, ReportedAt, StopperAt, ThreadAt, OpenerAt, With, Exiting, Conn, AtRest,
          Opening, Terminating, Established
  <2>6. StoppingAt(c)'
    BY <1>w, <2>f, <2>j
      DEF ConnInv, StoppingAt, ThreadAt, With, Exiting, Conn, AtRest, Opening, Terminating,
          Established
  <2>7. ThreadAt(k)' /\ OpenerAt(k)'
    BY <1>w, <2>f, <2>j, CleanersDiffer
      DEF ConnInv, ThreadAt, OpenerAt, AnswersAt, CleanerAt, Conn, AtRest, Threads, Opening,
          Terminating, Established
  <2>8. ASSUME NEW j \in Threads \ {k}, Conn(j)' = c
       PROVE  ThreadAt(j)' /\ OpenerAt(j)'
    <3>1. thread'[j] = thread[j] /\ Conn(j) = c /\ ThreadAt(j) /\ OpenerAt(j)
      BY <1>i, <2>j, <2>8 DEF Conn, ConnectionsInv
    <3>2. ThreadAt(j)'
      BY <3>1, <1>w, <2>f, <2>j
        DEF ConnInv, ThreadAt, AnswersAt, Conn, Opening, Terminating, Established
    <3>3. OpenerAt(j)'
      BY <3>1, <1>w, <2>f, <2>j, CleanersDiffer
        DEF ConnInv, ThreadAt, OpenerAt, CleanerAt, Conn, AtRest, Threads, Exiting, Opening,
            Terminating, Established
    <3> QED
      BY <3>2, <3>3
  <2> QED
    BY <1>w, <2>l, <2>1, <2>2, <2>3, <2>4, <2>5, <2>6, <2>7, <2>8 DEF Here, ConnInv
<1>4. CASE /\ ~tr[c].confirmed /\ tr[c].close = "none" /\ ~Reachable(c)
           /\ tr' = [tr EXCEPT ![c] = OwnEnd(@)]
           /\ NotReleased(k) /\ UNCHANGED entry /\ k = Stopper /\ c \in ids
  <2>f. /\ thread'[k].pc = "lock" /\ thread'[k].conn = thread[k].conn
           /\ thread'[k].back = "claim"
        /\ tr'[c].connect = tr[c].connect /\ tr'[c].close = tr[c].close
           /\ tr'[c].established = tr[c].established /\ tr'[c].reported = TRUE
           /\ tr'[c].confirmed = tr[c].confirmed
        /\ entry'[c] = entry[c]
        /\ chan'[c] = chan[c]
        /\ run'[c] = run[c]
        /\ out'[c] = out[c]
        /\ reader'[c] = reader[c]
        /\ (c \in ids') = (c \in ids)
        /\ c \in spoiled'
        /\ thread[k].pc = "ask"
        /\ k = Stopper
    BY <1>4, <1>u, <1>e DEF NotReleased, OwnEnd, ChannelTypeOK, Works, Transports, Entries, Ends
  <2>l. Local(c, k)
    BY <1>4, <1>u, <1>w, <1>e, <2>f DEF Local, NotReleased, OwnEnd, ChannelTypeOK, Conn, AtRest
  <2>j. \A j \in Threads \ {k} : thread'[j] = thread[j]
    BY <2>l DEF Local
  <2>s. Stopper \in Threads /\ Cleaner(c) \in Threads
    BY <1>w, CleanersDiffer DEF Threads
  <2>1. FreshAt(c)'
    BY <1>w, <2>f, <2>j DEF FreshAt
  <2>2. AnswersAt(c)'
    BY <1>w, <2>f, <2>j DEF ConnInv, AnswersAt
  <2>3. CleanerAt(c)'
    BY <1>w, <2>f, <2>j, <2>s, CleanersDiffer
      DEF ConnInv, CleanerAt, ThreadAt, Exiting, Conn, AtRest, Opening, Terminating,
          Established
  <2>4. OwnedAt(c)'
    BY <1>w, <2>f, <2>j DEF ConnInv, OwnedAt, With, Conn, AtRest
  <2>5. ReportedAt(c)'
    BY <1>w, <2>f, <2>j
      DEF ConnInv, ReportedAt, StopperAt, ThreadAt, OpenerAt, With, Exiting, Conn, AtRest,
          Opening, Terminating, Established
  <2>6. StoppingAt(c)'
    BY <1>w, <2>f, <2>j
      DEF ConnInv, StoppingAt, ThreadAt, With, Exiting, Conn, AtRest, Opening, Terminating,
          Established
  <2>7. ThreadAt(k)' /\ OpenerAt(k)'
    BY <1>w, <2>f, <2>j, CleanersDiffer
      DEF ConnInv, ThreadAt, OpenerAt, AnswersAt, CleanerAt, Conn, AtRest, Threads, Opening,
          Terminating, Established
  <2>8. ASSUME NEW j \in Threads \ {k}, Conn(j)' = c
       PROVE  ThreadAt(j)' /\ OpenerAt(j)'
    <3>1. thread'[j] = thread[j] /\ Conn(j) = c /\ ThreadAt(j) /\ OpenerAt(j)
      BY <1>i, <2>j, <2>8 DEF Conn, ConnectionsInv
    <3>2. ThreadAt(j)'
      BY <3>1, <1>w, <2>f, <2>j
        DEF ConnInv, ThreadAt, AnswersAt, Conn, Opening, Terminating, Established
    <3>3. OpenerAt(j)'
      BY <3>1, <1>w, <2>f, <2>j, CleanersDiffer
        DEF ConnInv, ThreadAt, OpenerAt, CleanerAt, Conn, AtRest, Threads, Exiting, Opening,
            Terminating, Established
    <3> QED
      BY <3>2, <3>3
  <2> QED
    BY <1>w, <2>l, <2>1, <2>2, <2>3, <2>4, <2>5, <2>6, <2>7, <2>8 DEF Here, ConnInv
<1>5. CASE /\ ~tr[c].confirmed /\ tr[c].close = "none" /\ ~Reachable(c)
           /\ tr' = [tr EXCEPT ![c] = OwnEnd(@)]
           /\ NotReleased(k) /\ UNCHANGED entry /\ ~(k = Stopper /\ c \in ids)
  <2>f. /\ thread'[k] = AtRest
        /\ tr'[c].connect = tr[c].connect /\ tr'[c].close = tr[c].close
           /\ tr'[c].established = tr[c].established /\ tr'[c].reported = TRUE
           /\ tr'[c].confirmed = tr[c].confirmed
        /\ entry'[c] = entry[c]
        /\ chan'[c] = chan[c]
        /\ run'[c] = run[c]
        /\ out'[c] = out[c]
        /\ reader'[c] = reader[c]
        /\ (c \in ids') = (c \in ids)
        /\ c \in spoiled'
        /\ thread[k].pc = "ask"
    BY <1>5, <1>u, <1>e
      DEF NotReleased, OwnEnd, Done, ChannelTypeOK, Works, Transports, Entries, Ends
  <2>l. Local(c, k)
    BY <1>5, <1>u, <1>w, <1>e, <2>f
      DEF Local, NotReleased, OwnEnd, Done, ChannelTypeOK, Conn, AtRest
  <2>j. \A j \in Threads \ {k} : thread'[j] = thread[j]
    BY <2>l DEF Local
  <2>s. Stopper \in Threads /\ Cleaner(c) \in Threads
    BY <1>w, CleanersDiffer DEF Threads
  <2>1. FreshAt(c)'
    BY <1>w, <2>f, <2>j DEF FreshAt
  <2>2. AnswersAt(c)'
    BY <1>w, <2>f, <2>j DEF ConnInv, AnswersAt
  <2>3. CleanerAt(c)'
    BY <1>w, <2>f, <2>j, <2>s, CleanersDiffer
      DEF ConnInv, CleanerAt, ThreadAt, Exiting, Conn, AtRest, Opening, Terminating,
          Established
  <2>4. OwnedAt(c)'
    BY <1>w, <2>f, <2>j DEF ConnInv, OwnedAt, With, Conn, AtRest
  <2>5. ReportedAt(c)'
    BY <1>w, <2>f, <2>j
      DEF ConnInv, ReportedAt, StopperAt, ThreadAt, OpenerAt, With, Exiting, Conn, AtRest,
          Opening, Terminating, Established
  <2>6. StoppingAt(c)'
    BY <1>w, <2>f, <2>j
      DEF ConnInv, StoppingAt, ThreadAt, With, Exiting, Conn, AtRest, Opening, Terminating,
          Established
  <2>7. ThreadAt(k)' /\ OpenerAt(k)'
    BY <1>w, <2>f, <2>j, CleanersDiffer
      DEF ConnInv, ThreadAt, OpenerAt, AnswersAt, CleanerAt, Conn, AtRest, Threads, Opening,
          Terminating, Established
  <2>8. ASSUME NEW j \in Threads \ {k}, Conn(j)' = c
       PROVE  ThreadAt(j)' /\ OpenerAt(j)'
    <3>1. thread'[j] = thread[j] /\ Conn(j) = c /\ ThreadAt(j) /\ OpenerAt(j)
      BY <1>i, <2>j, <2>8 DEF Conn, ConnectionsInv
    <3>2. ThreadAt(j)'
      BY <3>1, <1>w, <2>f, <2>j
        DEF ConnInv, ThreadAt, AnswersAt, Conn, Opening, Terminating, Established
    <3>3. OpenerAt(j)'
      BY <3>1, <1>w, <2>f, <2>j, CleanersDiffer
        DEF ConnInv, ThreadAt, OpenerAt, CleanerAt, Conn, AtRest, Threads, Exiting, Opening,
            Terminating, Established
    <3> QED
      BY <3>2, <3>3
  <2> QED
    BY <1>w, <2>l, <2>1, <2>2, <2>3, <2>4, <2>5, <2>6, <2>7, <2>8 DEF Here, ConnInv
<1> QED
  BY <1>c, <1>1, <1>2, <1>3, <1>4, <1>5 DEF Ask

LEMMA AwaitHere ==
    ASSUME ConnectionsInv, NEW k \in Threads, Await(k)
    PROVE  \E c \in Conns : Local(c, k) /\ Here(c, k)'
<1>c. PICK c : c = Conn(k)
  OBVIOUS
<1>i. ConnectionsInv
  OBVIOUS
<1>k. thread[k].pc # "idle"
  BY DEF Await, At
<1>w. /\ c \in Conns /\ c # None /\ reader[c] # "none" /\ Conn(k) = c
      /\ k \in Callers \cup {Stopper, Cleaner(c)}
      /\ ConnInv(c) /\ ThreadAt(k) /\ OpenerAt(k)
  BY <1>k, <1>c, AtWork
<1>e. ChannelTypeOK /\ c \in Conns /\ k \in Threads /\ c = Conn(k)
  BY <1>c, <1>w DEF ConnectionsInv
<1>u. /\ UNCHANGED <<pair, ids, chan, run, out, reader>> /\ thread[k].pc = "await"
      /\ tr' = [tr EXCEPT ![c] = Unlocked(@, tr[c].close)]
  BY <1>c DEF Await, At, registry, peer, rest
<1>v. /\ tr'[c].connect = tr[c].connect /\ tr'[c].established = tr[c].established
      /\ tr'[c].reported = tr[c].reported
      /\ tr'[c].close = IF tr[c].close = "waiting" THEN "waiting" ELSE "none"
      /\ tr[c].close = "ok" => tr'[c].confirmed = TRUE
      /\ tr[c].close # "ok" => tr'[c].confirmed = tr[c].confirmed
  <2>1. tr'[c] = Unlocked(tr[c], tr[c].close)
    BY <1>u, <1>e DEF ChannelTypeOK
  <2>2. tr[c] \in Transports /\ tr[c].close \in Replies
    BY <1>e, TrFields
  <2>3. PICK t \in Transports, r \in Replies : t = tr[c] /\ r = tr[c].close
    BY <2>2
  <2>4. tr'[c] = Unlocked(t, r)
    BY <2>1, <2>3
  <2>5. /\ Unlocked(t, r).connect = t.connect /\ Unlocked(t, r).established = t.established
        /\ Unlocked(t, r).reported = t.reported
        /\ Unlocked(t, r).close = IF r = "waiting" THEN "waiting" ELSE "none"
        /\ r = "ok" => Unlocked(t, r).confirmed = TRUE
        /\ r # "ok" => Unlocked(t, r).confirmed = t.confirmed
    BY UnlockedFields
  <2> QED
    BY <2>3, <2>4, <2>5
<1>1. CASE Receipt(tr[c].close) /\ Goto(k, "claim") /\ UNCHANGED spoiled /\ Stopped(c)
  <2>f. /\ thread'[k].pc = "claim" /\ thread'[k].conn = thread[k].conn
           /\ thread'[k].back = thread[k].back
        /\ tr'[c].connect = tr[c].connect /\ tr'[c].close = "none"
           /\ tr'[c].established = tr[c].established /\ tr'[c].reported = tr[c].reported
           /\ tr'[c].confirmed = TRUE
        /\ entry'[c].alive = FALSE /\ entry'[c].todo = "none"
        /\ entry'[c].ended = entry[c].ended
        /\ entry'[c].harness \in {entry[c].harness, "dead"}
        /\ entry[c].harness = "none" => entry'[c].harness = "none"
        /\ chan'[c] = chan[c]
        /\ run'[c] = run[c]
        /\ out'[c] = out[c]
        /\ reader'[c] = reader[c]
        /\ (c \in ids') = (c \in ids)
        /\ (c \in spoiled) => (c \in spoiled')
        /\ thread[k].pc = "await"
        /\ tr[c].close = "ok"
    BY <1>1, <1>u, <1>v, <1>e
      DEF Goto, Receipt, Stopped, ChannelTypeOK, Works, Transports, Entries, Ends
  <2>l. Local(c, k)
    BY <1>1, <1>u, <1>v, <1>w, <1>e, <2>f
      DEF Local, Goto, Receipt, Stopped, ChannelTypeOK, Conn, AtRest
  <2>j. \A j \in Threads \ {k} : thread'[j] = thread[j]
    BY <2>l DEF Local
  <2>s. Stopper \in Threads /\ Cleaner(c) \in Threads
    BY <1>w, CleanersDiffer DEF Threads
  <2>1. FreshAt(c)'
    BY <1>w, <2>f, <2>j DEF FreshAt
  <2>2. AnswersAt(c)'
    BY <1>w, <2>f, <2>j DEF ConnInv, AnswersAt
  <2>3. CleanerAt(c)'
    BY <1>w, <2>f, <2>j, <2>s, CleanersDiffer
      DEF ConnInv, CleanerAt, ThreadAt, Exiting, Conn, AtRest, Opening, Terminating,
          Established
  <2>4. OwnedAt(c)'
    BY <1>w, <2>f, <2>j DEF ConnInv, OwnedAt, With, Conn, AtRest
  <2>5. ReportedAt(c)'
    BY <1>w, <2>f, <2>j
      DEF ConnInv, ReportedAt, StopperAt, ThreadAt, OpenerAt, With, Exiting, Conn, AtRest,
          Opening, Terminating, Established
  <2>6. StoppingAt(c)'
    BY <1>w, <2>f, <2>j
      DEF ConnInv, StoppingAt, ThreadAt, With, Exiting, Conn, AtRest, Opening, Terminating,
          Established
  <2>7. ThreadAt(k)' /\ OpenerAt(k)'
    BY <1>w, <2>f, <2>j, CleanersDiffer
      DEF ConnInv, ThreadAt, OpenerAt, AnswersAt, CleanerAt, Conn, AtRest, Threads, Opening,
          Terminating, Established
  <2>8. ASSUME NEW j \in Threads \ {k}, Conn(j)' = c
       PROVE  ThreadAt(j)' /\ OpenerAt(j)'
    <3>1. thread'[j] = thread[j] /\ Conn(j) = c /\ ThreadAt(j) /\ OpenerAt(j)
      BY <1>i, <2>j, <2>8 DEF Conn, ConnectionsInv
    <3>2. ThreadAt(j)'
      BY <3>1, <1>w, <2>f, <2>j
        DEF ConnInv, ThreadAt, AnswersAt, Conn, Opening, Terminating, Established
    <3>3. OpenerAt(j)'
      BY <3>1, <1>w, <2>f, <2>j, CleanersDiffer
        DEF ConnInv, ThreadAt, OpenerAt, CleanerAt, Conn, AtRest, Threads, Exiting, Opening,
            Terminating, Established
    <3> QED
      BY <3>2, <3>3
  <2> QED
    BY <1>w, <2>l, <2>1, <2>2, <2>3, <2>4, <2>5, <2>6, <2>7, <2>8 DEF Here, ConnInv
<1>2. CASE ~Receipt(tr[c].close) /\ NotReleased(k) /\ UNCHANGED entry /\ k = Stopper /\ c \in ids
  <2>f. /\ thread'[k].pc = "lock" /\ thread'[k].conn = thread[k].conn
           /\ thread'[k].back = "claim"
        /\ tr'[c].connect = tr[c].connect
           /\ tr'[c].close = (IF tr[c].close = "waiting" THEN "waiting" ELSE "none")
           /\ tr'[c].established = tr[c].established /\ tr'[c].reported = tr[c].reported
           /\ tr'[c].confirmed = tr[c].confirmed
        /\ entry'[c] = entry[c]
        /\ chan'[c] = chan[c]
        /\ run'[c] = run[c]
        /\ out'[c] = out[c]
        /\ reader'[c] = reader[c]
        /\ (c \in ids') = (c \in ids)
        /\ c \in spoiled'
        /\ thread[k].pc = "await"
        /\ tr[c].close # "ok"
        /\ k = Stopper
    BY <1>2, <1>u, <1>v, <1>e
      DEF NotReleased, Receipt, ChannelTypeOK, Works, Transports, Entries, Ends
  <2>l. Local(c, k)
    BY <1>2, <1>u, <1>v, <1>w, <1>e, <2>f
      DEF Local, NotReleased, Receipt, ChannelTypeOK, Conn, AtRest
  <2>j. \A j \in Threads \ {k} : thread'[j] = thread[j]
    BY <2>l DEF Local
  <2>s. Stopper \in Threads /\ Cleaner(c) \in Threads
    BY <1>w, CleanersDiffer DEF Threads
  <2>1. FreshAt(c)'
    BY <1>w, <2>f, <2>j DEF FreshAt
  <2>2. AnswersAt(c)'
    BY <1>w, <2>f, <2>j DEF ConnInv, AnswersAt
  <2>3. CleanerAt(c)'
    BY <1>w, <2>f, <2>j, <2>s, CleanersDiffer
      DEF ConnInv, CleanerAt, ThreadAt, Exiting, Conn, AtRest, Opening, Terminating,
          Established
  <2>4. OwnedAt(c)'
    BY <1>w, <2>f, <2>j DEF ConnInv, OwnedAt, With, Conn, AtRest
  <2>5. ReportedAt(c)'
    BY <1>w, <2>f, <2>j
      DEF ConnInv, ReportedAt, StopperAt, ThreadAt, OpenerAt, With, Exiting, Conn, AtRest,
          Opening, Terminating, Established
  <2>6. StoppingAt(c)'
    BY <1>w, <2>f, <2>j
      DEF ConnInv, StoppingAt, ThreadAt, With, Exiting, Conn, AtRest, Opening, Terminating,
          Established
  <2>7. ThreadAt(k)' /\ OpenerAt(k)'
    BY <1>w, <2>f, <2>j, CleanersDiffer
      DEF ConnInv, ThreadAt, OpenerAt, AnswersAt, CleanerAt, Conn, AtRest, Threads, Opening,
          Terminating, Established
  <2>8. ASSUME NEW j \in Threads \ {k}, Conn(j)' = c
       PROVE  ThreadAt(j)' /\ OpenerAt(j)'
    <3>1. thread'[j] = thread[j] /\ Conn(j) = c /\ ThreadAt(j) /\ OpenerAt(j)
      BY <1>i, <2>j, <2>8 DEF Conn, ConnectionsInv
    <3>2. ThreadAt(j)'
      BY <3>1, <1>w, <2>f, <2>j
        DEF ConnInv, ThreadAt, AnswersAt, Conn, Opening, Terminating, Established
    <3>3. OpenerAt(j)'
      BY <3>1, <1>w, <2>f, <2>j, CleanersDiffer
        DEF ConnInv, ThreadAt, OpenerAt, CleanerAt, Conn, AtRest, Threads, Exiting, Opening,
            Terminating, Established
    <3> QED
      BY <3>2, <3>3
  <2> QED
    BY <1>w, <2>l, <2>1, <2>2, <2>3, <2>4, <2>5, <2>6, <2>7, <2>8 DEF Here, ConnInv
<1>3. CASE ~Receipt(tr[c].close) /\ NotReleased(k) /\ UNCHANGED entry /\ ~(k = Stopper /\ c \in ids)
  <2>f. /\ thread'[k] = AtRest
        /\ tr'[c].connect = tr[c].connect
           /\ tr'[c].close = (IF tr[c].close = "waiting" THEN "waiting" ELSE "none")
           /\ tr'[c].established = tr[c].established /\ tr'[c].reported = tr[c].reported
           /\ tr'[c].confirmed = tr[c].confirmed
        /\ entry'[c] = entry[c]
        /\ chan'[c] = chan[c]
        /\ run'[c] = run[c]
        /\ out'[c] = out[c]
        /\ reader'[c] = reader[c]
        /\ (c \in ids') = (c \in ids)
        /\ c \in spoiled'
        /\ thread[k].pc = "await"
        /\ tr[c].close # "ok"
    BY <1>3, <1>u, <1>v, <1>e
      DEF NotReleased, Receipt, Done, ChannelTypeOK, Works, Transports, Entries, Ends
  <2>l. Local(c, k)
    BY <1>3, <1>u, <1>v, <1>w, <1>e, <2>f
      DEF Local, NotReleased, Receipt, Done, ChannelTypeOK, Conn, AtRest
  <2>j. \A j \in Threads \ {k} : thread'[j] = thread[j]
    BY <2>l DEF Local
  <2>s. Stopper \in Threads /\ Cleaner(c) \in Threads
    BY <1>w, CleanersDiffer DEF Threads
  <2>1. FreshAt(c)'
    BY <1>w, <2>f, <2>j DEF FreshAt
  <2>2. AnswersAt(c)'
    BY <1>w, <2>f, <2>j DEF ConnInv, AnswersAt
  <2>3. CleanerAt(c)'
    BY <1>w, <2>f, <2>j, <2>s, CleanersDiffer
      DEF ConnInv, CleanerAt, ThreadAt, Exiting, Conn, AtRest, Opening, Terminating,
          Established
  <2>4. OwnedAt(c)'
    BY <1>w, <2>f, <2>j DEF ConnInv, OwnedAt, With, Conn, AtRest
  <2>5. ReportedAt(c)'
    BY <1>w, <2>f, <2>j
      DEF ConnInv, ReportedAt, StopperAt, ThreadAt, OpenerAt, With, Exiting, Conn, AtRest,
          Opening, Terminating, Established
  <2>6. StoppingAt(c)'
    BY <1>w, <2>f, <2>j
      DEF ConnInv, StoppingAt, ThreadAt, With, Exiting, Conn, AtRest, Opening, Terminating,
          Established
  <2>7. ThreadAt(k)' /\ OpenerAt(k)'
    BY <1>w, <2>f, <2>j, CleanersDiffer
      DEF ConnInv, ThreadAt, OpenerAt, AnswersAt, CleanerAt, Conn, AtRest, Threads, Opening,
          Terminating, Established
  <2>8. ASSUME NEW j \in Threads \ {k}, Conn(j)' = c
       PROVE  ThreadAt(j)' /\ OpenerAt(j)'
    <3>1. thread'[j] = thread[j] /\ Conn(j) = c /\ ThreadAt(j) /\ OpenerAt(j)
      BY <1>i, <2>j, <2>8 DEF Conn, ConnectionsInv
    <3>2. ThreadAt(j)'
      BY <3>1, <1>w, <2>f, <2>j
        DEF ConnInv, ThreadAt, AnswersAt, Conn, Opening, Terminating, Established
    <3>3. OpenerAt(j)'
      BY <3>1, <1>w, <2>f, <2>j, CleanersDiffer
        DEF ConnInv, ThreadAt, OpenerAt, CleanerAt, Conn, AtRest, Threads, Exiting, Opening,
            Terminating, Established
    <3> QED
      BY <3>2, <3>3
  <2> QED
    BY <1>w, <2>l, <2>1, <2>2, <2>3, <2>4, <2>5, <2>6, <2>7, <2>8 DEF Here, ConnInv
<1> QED
  BY <1>c, <1>1, <1>2, <1>3 DEF Await

LEMMA LastAskHere ==
    ASSUME ConnectionsInv, NEW k \in Threads, LastAsk(k)
    PROVE  \E c \in Conns : Local(c, k) /\ Here(c, k)'
<1>c. PICK c : c = Conn(k)
  OBVIOUS
<1>i. ConnectionsInv
  OBVIOUS
<1>k. thread[k].pc # "idle"
  BY DEF LastAsk, At
<1>w. /\ c \in Conns /\ c # None /\ reader[c] # "none" /\ Conn(k) = c
      /\ k \in Callers \cup {Stopper, Cleaner(c)}
      /\ ConnInv(c) /\ ThreadAt(k) /\ OpenerAt(k)
  BY <1>k, <1>c, AtWork
<1>e. ChannelTypeOK /\ c \in Conns /\ k \in Threads /\ c = Conn(k)
  BY <1>c, <1>w DEF ConnectionsInv
<1>u. /\ UNCHANGED <<pair, ids, chan, run, out, reader>> /\ spoiled' = spoiled
      /\ thread[k].pc = "lock"
  BY <1>c DEF LastAsk, At, registry, peer, rest
<1>1. CASE /\ tr[c].established /\ ~tr[c].confirmed /\ tr[c].close # "none"
           /\ tr' = [tr EXCEPT ![c].lock = k] /\ Goto(k, "wait") /\ UNCHANGED entry
  <2>f. /\ thread'[k].pc = "wait" /\ thread'[k].conn = thread[k].conn
           /\ thread'[k].back = thread[k].back
        /\ tr'[c].connect = tr[c].connect /\ tr'[c].close = tr[c].close
           /\ tr'[c].established = tr[c].established /\ tr'[c].reported = tr[c].reported
           /\ tr'[c].confirmed = tr[c].confirmed
        /\ entry'[c] = entry[c]
        /\ chan'[c] = chan[c]
        /\ run'[c] = run[c]
        /\ out'[c] = out[c]
        /\ reader'[c] = reader[c]
        /\ (c \in ids') = (c \in ids)
        /\ (c \in spoiled) => (c \in spoiled')
        /\ thread[k].pc = "lock"
        /\ tr[c].established = TRUE
    <3>1. /\ thread'[k].pc = "wait" /\ thread'[k].conn = thread[k].conn
          /\ thread'[k].back = thread[k].back
      BY <1>1, <1>u, <1>e DEF Goto, ChannelTypeOK, Works
    <3>2. /\ tr'[c].connect = tr[c].connect /\ tr'[c].close = tr[c].close
          /\ tr'[c].established = tr[c].established /\ tr'[c].reported = tr[c].reported
          /\ tr'[c].confirmed = tr[c].confirmed
      BY <1>1, <1>u, <1>e DEF Goto, ChannelTypeOK, Transports
    <3>3. entry'[c] = entry[c]
      BY <1>1, <1>u, <1>e DEF Goto, ChannelTypeOK, Entries
    <3>4. chan'[c] = chan[c]
      BY <1>1, <1>u, <1>e DEF Goto, ChannelTypeOK, Ends
    <3>5. run'[c] = run[c]
      BY <1>1, <1>u, <1>e DEF Goto, ChannelTypeOK
    <3>6. out'[c] = out[c]
      BY <1>1, <1>u, <1>e DEF Goto, ChannelTypeOK
    <3>7. reader'[c] = reader[c]
      BY <1>1, <1>u, <1>e DEF Goto, ChannelTypeOK
    <3>8. (c \in ids') = (c \in ids)
      BY <1>1, <1>u, <1>e DEF Goto, ChannelTypeOK
    <3>9. (c \in spoiled) => (c \in spoiled')
      BY <1>1, <1>u, <1>e DEF Goto, ChannelTypeOK
    <3>10. thread[k].pc = "lock"
      BY <1>1, <1>u, <1>e DEF Goto, ChannelTypeOK
    <3>11. tr[c].established = TRUE
      BY <1>1, <1>u, <1>e DEF Goto, ChannelTypeOK
    <3> QED
      BY <3>1, <3>2, <3>3, <3>4, <3>5, <3>6, <3>7, <3>8, <3>9, <3>10, <3>11
  <2>l. Local(c, k)
    BY <1>1, <1>u, <1>w, <1>e, <2>f DEF Local, Goto, ChannelTypeOK, Conn, AtRest
  <2>j. \A j \in Threads \ {k} : thread'[j] = thread[j]
    BY <2>l DEF Local
  <2>s. Stopper \in Threads /\ Cleaner(c) \in Threads
    BY <1>w, CleanersDiffer DEF Threads
  <2>1. FreshAt(c)'
    BY <1>w, <2>f, <2>j DEF FreshAt
  <2>2. AnswersAt(c)'
    BY <1>w, <2>f, <2>j DEF ConnInv, AnswersAt
  <2>3. CleanerAt(c)'
    BY <1>w, <2>f, <2>j, <2>s, CleanersDiffer
      DEF ConnInv, CleanerAt, ThreadAt, Exiting, Conn, AtRest, Opening, Terminating,
          Established
  <2>4. OwnedAt(c)'
    BY <1>w, <2>f, <2>j DEF ConnInv, OwnedAt, With, Conn, AtRest
  <2>5. ReportedAt(c)'
    <3>1. With(c, {"await", "claim"}) => With(c, {"await", "claim"})'
      BY <2>f, <2>j, WithKept
    <3>2. With(c, {"check"}) => With(c, {"check"})'
      BY <2>f, <2>j, WithKept
    <3>3. StopperAt(c) => StopperAt(c)'
      BY <1>w, <2>f, <2>j, <2>s DEF StopperAt, Terminating, Conn
    <3>4. Exiting(c)' = Exiting(c)
      BY <2>f DEF Exiting
    <3> QED
      BY <1>w, <2>f, <3>1, <3>2, <3>3, <3>4 DEF ConnInv, ReportedAt
  <2>6. StoppingAt(c)'
    BY <1>w, <2>f, <2>j
      DEF ConnInv, StoppingAt, ThreadAt, With, Exiting, Conn, AtRest, Opening, Terminating,
          Established
  <2>7. ThreadAt(k)' /\ OpenerAt(k)'
    BY <1>w, <2>f, <2>j, CleanersDiffer
      DEF ConnInv, ThreadAt, OpenerAt, AnswersAt, CleanerAt, Conn, AtRest, Threads, Opening,
          Terminating, Established
  <2>8. ASSUME NEW j \in Threads \ {k}, Conn(j)' = c
       PROVE  ThreadAt(j)' /\ OpenerAt(j)'
    <3>1. thread'[j] = thread[j] /\ Conn(j) = c /\ ThreadAt(j) /\ OpenerAt(j)
      BY <1>i, <2>j, <2>8 DEF Conn, ConnectionsInv
    <3>2. ThreadAt(j)'
      BY <3>1, <1>w, <2>f, <2>j
        DEF ConnInv, ThreadAt, AnswersAt, Conn, Opening, Terminating, Established
    <3>3. OpenerAt(j)'
      BY <3>1, <1>w, <2>f, <2>j, CleanersDiffer
        DEF ConnInv, ThreadAt, OpenerAt, CleanerAt, Conn, AtRest, Threads, Exiting, Opening,
            Terminating, Established
    <3> QED
      BY <3>2, <3>3
  <2> QED
    BY <1>w, <2>l, <2>1, <2>2, <2>3, <2>4, <2>5, <2>6, <2>7, <2>8 DEF Here, ConnInv
<1>2. CASE /\ tr[c].established /\ ~tr[c].confirmed /\ tr[c].close = "none" /\ Reachable(c)
           /\ tr' = [tr EXCEPT ![c] = Written(k, @)] /\ AskEntry(c) /\ Goto(k, "wait")
  <2>f. /\ thread'[k].pc = "wait" /\ thread'[k].conn = thread[k].conn
           /\ thread'[k].back = thread[k].back
        /\ tr'[c].connect = tr[c].connect /\ tr'[c].close = "waiting"
           /\ tr'[c].established = tr[c].established /\ tr'[c].reported = tr[c].reported
           /\ tr'[c].confirmed = tr[c].confirmed
        /\ entry'[c].alive = entry[c].alive /\ entry'[c].todo = "close"
           /\ entry'[c].ended = entry[c].ended /\ entry'[c].harness = entry[c].harness
        /\ chan'[c] = chan[c]
        /\ run'[c] = run[c]
        /\ out'[c] = out[c]
        /\ reader'[c] = reader[c]
        /\ (c \in ids') = (c \in ids)
        /\ (c \in spoiled) => (c \in spoiled')
        /\ thread[k].pc = "lock"
        /\ entry[c].alive = TRUE
        /\ tr[c].established = TRUE
    <3>1. /\ thread'[k].pc = "wait" /\ thread'[k].conn = thread[k].conn
          /\ thread'[k].back = thread[k].back
      BY <1>2, <1>u, <1>e DEF Goto, AskEntry, Written, Reachable, ChannelTypeOK, Works
    <3>2. /\ tr'[c].connect = tr[c].connect /\ tr'[c].close = "waiting"
          /\ tr'[c].established = tr[c].established /\ tr'[c].reported = tr[c].reported
          /\ tr'[c].confirmed = tr[c].confirmed
      BY <1>2, <1>u, <1>e DEF Goto, AskEntry, Written, Reachable, ChannelTypeOK, Transports
    <3>3. /\ entry'[c].alive = entry[c].alive /\ entry'[c].todo = "close"
          /\ entry'[c].ended = entry[c].ended /\ entry'[c].harness = entry[c].harness
      BY <1>2, <1>u, <1>e DEF Goto, AskEntry, Written, Reachable, ChannelTypeOK, Entries
    <3>4. chan'[c] = chan[c]
      BY <1>2, <1>u, <1>e DEF Goto, AskEntry, Written, Reachable, ChannelTypeOK, Ends
    <3>5. run'[c] = run[c]
      BY <1>2, <1>u, <1>e DEF Goto, AskEntry, Written, Reachable, ChannelTypeOK
    <3>6. out'[c] = out[c]
      BY <1>2, <1>u, <1>e DEF Goto, AskEntry, Written, Reachable, ChannelTypeOK
    <3>7. reader'[c] = reader[c]
      BY <1>2, <1>u, <1>e DEF Goto, AskEntry, Written, Reachable, ChannelTypeOK
    <3>8. (c \in ids') = (c \in ids)
      BY <1>2, <1>u, <1>e DEF Goto, AskEntry, Written, Reachable, ChannelTypeOK
    <3>9. (c \in spoiled) => (c \in spoiled')
      BY <1>2, <1>u, <1>e DEF Goto, AskEntry, Written, Reachable, ChannelTypeOK
    <3>10. thread[k].pc = "lock"
      BY <1>2, <1>u, <1>e DEF Goto, AskEntry, Written, Reachable, ChannelTypeOK
    <3>11. entry[c].alive = TRUE
      BY <1>2, <1>u, <1>e DEF Goto, AskEntry, Written, Reachable, ChannelTypeOK
    <3>12. tr[c].established = TRUE
      BY <1>2, <1>u, <1>e DEF Goto, AskEntry, Written, Reachable, ChannelTypeOK
    <3> QED
      BY <3>1, <3>2, <3>3, <3>4, <3>5, <3>6, <3>7, <3>8, <3>9, <3>10, <3>11, <3>12
  <2>l. Local(c, k)
    BY <1>2, <1>u, <1>w, <1>e, <2>f
      DEF Local, Goto, AskEntry, Written, Reachable, ChannelTypeOK, Conn, AtRest
  <2>j. \A j \in Threads \ {k} : thread'[j] = thread[j]
    BY <2>l DEF Local
  <2>s. Stopper \in Threads /\ Cleaner(c) \in Threads
    BY <1>w, CleanersDiffer DEF Threads
  <2>1. FreshAt(c)'
    BY <1>w, <2>f, <2>j DEF FreshAt
  <2>2. AnswersAt(c)'
    BY <1>w, <2>f, <2>j DEF ConnInv, AnswersAt
  <2>3. CleanerAt(c)'
    BY <1>w, <2>f, <2>j, <2>s, CleanersDiffer
      DEF ConnInv, CleanerAt, ThreadAt, Exiting, Conn, AtRest, Opening, Terminating,
          Established
  <2>4. OwnedAt(c)'
    BY <1>w, <2>f, <2>j DEF ConnInv, OwnedAt, With, Conn, AtRest
  <2>5. ReportedAt(c)'
    <3>1. With(c, {"await", "claim"}) => With(c, {"await", "claim"})'
      BY <2>f, <2>j, WithKept
    <3>2. With(c, {"check"}) => With(c, {"check"})'
      BY <2>f, <2>j, WithKept
    <3>3. StopperAt(c) => StopperAt(c)'
      BY <1>w, <2>f, <2>j, <2>s DEF StopperAt, Terminating, Conn
    <3>4. Exiting(c)' = Exiting(c)
      BY <2>f DEF Exiting
    <3> QED
      BY <1>w, <2>f, <3>1, <3>2, <3>3, <3>4 DEF ConnInv, ReportedAt
  <2>6. StoppingAt(c)'
    BY <1>w, <2>f, <2>j
      DEF ConnInv, StoppingAt, ThreadAt, With, Exiting, Conn, AtRest, Opening, Terminating,
          Established
  <2>7. ThreadAt(k)' /\ OpenerAt(k)'
    BY <1>w, <2>f, <2>j, CleanersDiffer
      DEF ConnInv, ThreadAt, OpenerAt, AnswersAt, CleanerAt, Conn, AtRest, Threads, Opening,
          Terminating, Established
  <2>8. ASSUME NEW j \in Threads \ {k}, Conn(j)' = c
       PROVE  ThreadAt(j)' /\ OpenerAt(j)'
    <3>1. thread'[j] = thread[j] /\ Conn(j) = c /\ ThreadAt(j) /\ OpenerAt(j)
      BY <1>i, <2>j, <2>8 DEF Conn, ConnectionsInv
    <3>2. ThreadAt(j)'
      BY <3>1, <1>w, <2>f, <2>j
        DEF ConnInv, ThreadAt, AnswersAt, Conn, Opening, Terminating, Established
    <3>3. OpenerAt(j)'
      BY <3>1, <1>w, <2>f, <2>j, CleanersDiffer
        DEF ConnInv, ThreadAt, OpenerAt, CleanerAt, Conn, AtRest, Threads, Exiting, Opening,
            Terminating, Established
    <3> QED
      BY <3>2, <3>3
  <2> QED
    BY <1>w, <2>l, <2>1, <2>2, <2>3, <2>4, <2>5, <2>6, <2>7, <2>8 DEF Here, ConnInv
<1>3. CASE Goto(k, "stop") /\ UNCHANGED <<tr, entry>>
  <2>f. /\ thread'[k].pc = "stop" /\ thread'[k].conn = thread[k].conn
           /\ thread'[k].back = thread[k].back
        /\ tr'[c] = tr[c]
        /\ entry'[c] = entry[c]
        /\ chan'[c] = chan[c]
        /\ run'[c] = run[c]
        /\ out'[c] = out[c]
        /\ reader'[c] = reader[c]
        /\ (c \in ids') = (c \in ids)
        /\ (c \in spoiled) => (c \in spoiled')
        /\ thread[k].pc = "lock"
    <3>1. /\ thread'[k].pc = "stop" /\ thread'[k].conn = thread[k].conn
          /\ thread'[k].back = thread[k].back
      BY <1>3, <1>u, <1>e DEF Goto, ChannelTypeOK, Works
    <3>2. tr'[c] = tr[c]
      BY <1>3, <1>u, <1>e DEF Goto, ChannelTypeOK, Transports
    <3>3. entry'[c] = entry[c]
      BY <1>3, <1>u, <1>e DEF Goto, ChannelTypeOK, Entries
    <3>4. chan'[c] = chan[c]
      BY <1>3, <1>u, <1>e DEF Goto, ChannelTypeOK, Ends
    <3>5. run'[c] = run[c]
      BY <1>3, <1>u, <1>e DEF Goto, ChannelTypeOK
    <3>6. out'[c] = out[c]
      BY <1>3, <1>u, <1>e DEF Goto, ChannelTypeOK
    <3>7. reader'[c] = reader[c]
      BY <1>3, <1>u, <1>e DEF Goto, ChannelTypeOK
    <3>8. (c \in ids') = (c \in ids)
      BY <1>3, <1>u, <1>e DEF Goto, ChannelTypeOK
    <3>9. (c \in spoiled) => (c \in spoiled')
      BY <1>3, <1>u, <1>e DEF Goto, ChannelTypeOK
    <3>10. thread[k].pc = "lock"
      BY <1>3, <1>u, <1>e DEF Goto, ChannelTypeOK
    <3> QED
      BY <3>1, <3>2, <3>3, <3>4, <3>5, <3>6, <3>7, <3>8, <3>9, <3>10
  <2>l. Local(c, k)
    BY <1>3, <1>u, <1>w, <1>e, <2>f DEF Local, Goto, ChannelTypeOK, Conn, AtRest
  <2>j. \A j \in Threads \ {k} : thread'[j] = thread[j]
    BY <2>l DEF Local
  <2>s. Stopper \in Threads /\ Cleaner(c) \in Threads
    BY <1>w, CleanersDiffer DEF Threads
  <2>1. FreshAt(c)'
    BY <1>w, <2>f, <2>j DEF FreshAt
  <2>2. AnswersAt(c)'
    BY <1>w, <2>f, <2>j DEF ConnInv, AnswersAt
  <2>3. CleanerAt(c)'
    BY <1>w, <2>f, <2>j, <2>s, CleanersDiffer
      DEF ConnInv, CleanerAt, ThreadAt, Exiting, Conn, AtRest, Opening, Terminating,
          Established
  <2>4. OwnedAt(c)'
    BY <1>w, <2>f, <2>j DEF ConnInv, OwnedAt, With, Conn, AtRest
  <2>5. ReportedAt(c)'
    <3>1. With(c, {"await", "claim"}) => With(c, {"await", "claim"})'
      BY <2>f, <2>j, WithKept
    <3>2. With(c, {"check"}) => With(c, {"check"})'
      BY <2>f, <2>j, WithKept
    <3>3. StopperAt(c) => StopperAt(c)'
      BY <1>w, <2>f, <2>j, <2>s DEF StopperAt, Terminating, Conn
    <3>4. Exiting(c)' = Exiting(c)
      BY <2>f DEF Exiting
    <3> QED
      BY <1>w, <2>f, <3>1, <3>2, <3>3, <3>4 DEF ConnInv, ReportedAt
  <2>6. StoppingAt(c)'
    BY <1>w, <2>f, <2>j
      DEF ConnInv, StoppingAt, ThreadAt, With, Exiting, Conn, AtRest, Opening, Terminating,
          Established
  <2>7. ThreadAt(k)' /\ OpenerAt(k)'
    BY <1>w, <2>f, <2>j, CleanersDiffer
      DEF ConnInv, ThreadAt, OpenerAt, AnswersAt, CleanerAt, Conn, AtRest, Threads, Opening,
          Terminating, Established
  <2>8. ASSUME NEW j \in Threads \ {k}, Conn(j)' = c
       PROVE  ThreadAt(j)' /\ OpenerAt(j)'
    <3>1. thread'[j] = thread[j] /\ Conn(j) = c /\ ThreadAt(j) /\ OpenerAt(j)
      BY <1>i, <2>j, <2>8 DEF Conn, ConnectionsInv
    <3>2. ThreadAt(j)'
      BY <3>1, <1>w, <2>f, <2>j
        DEF ConnInv, ThreadAt, AnswersAt, Conn, Opening, Terminating, Established
    <3>3. OpenerAt(j)'
      BY <3>1, <1>w, <2>f, <2>j, CleanersDiffer
        DEF ConnInv, ThreadAt, OpenerAt, CleanerAt, Conn, AtRest, Threads, Exiting, Opening,
            Terminating, Established
    <3> QED
      BY <3>2, <3>3
  <2> QED
    BY <1>w, <2>l, <2>1, <2>2, <2>3, <2>4, <2>5, <2>6, <2>7, <2>8 DEF Here, ConnInv
<1> QED
  BY <1>c, <1>1, <1>2, <1>3 DEF LastAsk

LEMMA LastWaitHere ==
    ASSUME ConnectionsInv, NEW k \in Threads, LastWait(k)
    PROVE  \E c \in Conns : Local(c, k) /\ Here(c, k)'
<1>c. PICK c : c = Conn(k)
  OBVIOUS
<1>i. ConnectionsInv
  OBVIOUS
<1>k. thread[k].pc # "idle"
  BY DEF LastWait, At
<1>w. /\ c \in Conns /\ c # None /\ reader[c] # "none" /\ Conn(k) = c
      /\ k \in Callers \cup {Stopper, Cleaner(c)}
      /\ ConnInv(c) /\ ThreadAt(k) /\ OpenerAt(k)
  BY <1>k, <1>c, AtWork
<1>e. ChannelTypeOK /\ c \in Conns /\ k \in Threads /\ c = Conn(k)
  BY <1>c, <1>w DEF ConnectionsInv
<1>u. /\ UNCHANGED <<pair, ids, chan, run, out, reader>> /\ spoiled' = spoiled
      /\ thread[k].pc = "wait" /\ entry' = entry /\ Goto(k, "stop")
      /\ tr' = [tr EXCEPT ![c] = Unlocked(@, tr[c].close)]
  BY <1>c DEF LastWait, At, registry, peer, rest
<1>v. /\ tr'[c].connect = tr[c].connect /\ tr'[c].established = tr[c].established
      /\ tr'[c].reported = tr[c].reported
      /\ tr'[c].close = IF tr[c].close = "waiting" THEN "waiting" ELSE "none"
      /\ tr[c].close = "ok" => tr'[c].confirmed = TRUE
      /\ tr[c].close # "ok" => tr'[c].confirmed = tr[c].confirmed
  <2>1. tr'[c] = Unlocked(tr[c], tr[c].close)
    BY <1>u, <1>e DEF ChannelTypeOK
  <2>2. tr[c] \in Transports /\ tr[c].close \in Replies
    BY <1>e, TrFields
  <2>3. PICK t \in Transports, r \in Replies : t = tr[c] /\ r = tr[c].close
    BY <2>2
  <2>4. tr'[c] = Unlocked(t, r)
    BY <2>1, <2>3
  <2>5. /\ Unlocked(t, r).connect = t.connect /\ Unlocked(t, r).established = t.established
        /\ Unlocked(t, r).reported = t.reported
        /\ Unlocked(t, r).close = IF r = "waiting" THEN "waiting" ELSE "none"
        /\ r = "ok" => Unlocked(t, r).confirmed = TRUE
        /\ r # "ok" => Unlocked(t, r).confirmed = t.confirmed
    BY UnlockedFields
  <2> QED
    BY <2>3, <2>4, <2>5
<1>1. CASE tr[c].close = "ok"
  <2>f. /\ thread'[k].pc = "stop" /\ thread'[k].conn = thread[k].conn
           /\ thread'[k].back = thread[k].back
        /\ tr'[c].connect = tr[c].connect /\ tr'[c].close = "none"
           /\ tr'[c].established = tr[c].established /\ tr'[c].reported = tr[c].reported
           /\ tr'[c].confirmed = TRUE
        /\ entry'[c] = entry[c]
        /\ chan'[c] = chan[c]
        /\ run'[c] = run[c]
        /\ out'[c] = out[c]
        /\ reader'[c] = reader[c]
        /\ (c \in ids') = (c \in ids)
        /\ (c \in spoiled) => (c \in spoiled')
        /\ thread[k].pc = "wait"
        /\ tr[c].close = "ok"
    <3>1. /\ thread'[k].pc = "stop" /\ thread'[k].conn = thread[k].conn
          /\ thread'[k].back = thread[k].back
      BY <1>1, <1>u, <1>v, <1>e DEF Goto, ChannelTypeOK, Works
    <3>2. /\ tr'[c].connect = tr[c].connect /\ tr'[c].close = "none"
          /\ tr'[c].established = tr[c].established /\ tr'[c].reported = tr[c].reported
          /\ tr'[c].confirmed = TRUE
      BY <1>1, <1>u, <1>v, <1>e DEF Goto, ChannelTypeOK, Transports
    <3>3. entry'[c] = entry[c]
      BY <1>1, <1>u, <1>v, <1>e DEF Goto, ChannelTypeOK, Entries
    <3>4. chan'[c] = chan[c]
      BY <1>1, <1>u, <1>v, <1>e DEF Goto, ChannelTypeOK, Ends
    <3>5. run'[c] = run[c]
      BY <1>1, <1>u, <1>v, <1>e DEF Goto, ChannelTypeOK
    <3>6. out'[c] = out[c]
      BY <1>1, <1>u, <1>v, <1>e DEF Goto, ChannelTypeOK
    <3>7. reader'[c] = reader[c]
      BY <1>1, <1>u, <1>v, <1>e DEF Goto, ChannelTypeOK
    <3>8. (c \in ids') = (c \in ids)
      BY <1>1, <1>u, <1>v, <1>e DEF Goto, ChannelTypeOK
    <3>9. (c \in spoiled) => (c \in spoiled')
      BY <1>1, <1>u, <1>v, <1>e DEF Goto, ChannelTypeOK
    <3>10. thread[k].pc = "wait"
      BY <1>1, <1>u, <1>v, <1>e DEF Goto, ChannelTypeOK
    <3>11. tr[c].close = "ok"
      BY <1>1, <1>u, <1>v, <1>e DEF Goto, ChannelTypeOK
    <3> QED
      BY <3>1, <3>2, <3>3, <3>4, <3>5, <3>6, <3>7, <3>8, <3>9, <3>10, <3>11
  <2>l. Local(c, k)
    BY <1>1, <1>u, <1>v, <1>w, <1>e, <2>f DEF Local, Goto, ChannelTypeOK, Conn, AtRest
  <2>j. \A j \in Threads \ {k} : thread'[j] = thread[j]
    BY <2>l DEF Local
  <2>s. Stopper \in Threads /\ Cleaner(c) \in Threads
    BY <1>w, CleanersDiffer DEF Threads
  <2>1. FreshAt(c)'
    BY <1>w, <2>f, <2>j DEF FreshAt
  <2>2. AnswersAt(c)'
    BY <1>w, <2>f, <2>j DEF ConnInv, AnswersAt
  <2>3. CleanerAt(c)'
    BY <1>w, <2>f, <2>j, <2>s, CleanersDiffer
      DEF ConnInv, CleanerAt, ThreadAt, Exiting, Conn, AtRest, Opening, Terminating,
          Established
  <2>4. OwnedAt(c)'
    BY <1>w, <2>f, <2>j DEF ConnInv, OwnedAt, With, Conn, AtRest
  <2>5. ReportedAt(c)'
    <3>1. With(c, {"await", "claim"}) => With(c, {"await", "claim"})'
      BY <2>f, <2>j, WithKept
    <3>2. With(c, {"check"}) => With(c, {"check"})'
      BY <2>f, <2>j, WithKept
    <3>3. StopperAt(c) => StopperAt(c)'
      BY <1>w, <2>f, <2>j, <2>s DEF StopperAt, Terminating, Conn
    <3>4. Exiting(c)' = Exiting(c)
      BY <2>f DEF Exiting
    <3> QED
      BY <1>w, <2>f, <3>1, <3>2, <3>3, <3>4 DEF ConnInv, ReportedAt
  <2>6. StoppingAt(c)'
    BY <1>w, <2>f, <2>j
      DEF ConnInv, StoppingAt, ThreadAt, With, Exiting, Conn, AtRest, Opening, Terminating,
          Established
  <2>7. ThreadAt(k)' /\ OpenerAt(k)'
    BY <1>w, <2>f, <2>j, CleanersDiffer
      DEF ConnInv, ThreadAt, OpenerAt, AnswersAt, CleanerAt, Conn, AtRest, Threads, Opening,
          Terminating, Established
  <2>8. ASSUME NEW j \in Threads \ {k}, Conn(j)' = c
       PROVE  ThreadAt(j)' /\ OpenerAt(j)'
    <3>1. thread'[j] = thread[j] /\ Conn(j) = c /\ ThreadAt(j) /\ OpenerAt(j)
      BY <1>i, <2>j, <2>8 DEF Conn, ConnectionsInv
    <3>2. ThreadAt(j)'
      BY <3>1, <1>w, <2>f, <2>j
        DEF ConnInv, ThreadAt, AnswersAt, Conn, Opening, Terminating, Established
    <3>3. OpenerAt(j)'
      BY <3>1, <1>w, <2>f, <2>j, CleanersDiffer
        DEF ConnInv, ThreadAt, OpenerAt, CleanerAt, Conn, AtRest, Threads, Exiting, Opening,
            Terminating, Established
    <3> QED
      BY <3>2, <3>3
  <2> QED
    BY <1>w, <2>l, <2>1, <2>2, <2>3, <2>4, <2>5, <2>6, <2>7, <2>8 DEF Here, ConnInv
<1>2. CASE tr[c].close # "ok"
  <2>f. /\ thread'[k].pc = "stop" /\ thread'[k].conn = thread[k].conn
           /\ thread'[k].back = thread[k].back
        /\ tr'[c].connect = tr[c].connect
           /\ tr'[c].close = (IF tr[c].close = "waiting" THEN "waiting" ELSE "none")
           /\ tr'[c].established = tr[c].established /\ tr'[c].reported = tr[c].reported
           /\ tr'[c].confirmed = tr[c].confirmed
        /\ entry'[c] = entry[c]
        /\ chan'[c] = chan[c]
        /\ run'[c] = run[c]
        /\ out'[c] = out[c]
        /\ reader'[c] = reader[c]
        /\ (c \in ids') = (c \in ids)
        /\ (c \in spoiled) => (c \in spoiled')
        /\ thread[k].pc = "wait"
    <3>1. /\ thread'[k].pc = "stop" /\ thread'[k].conn = thread[k].conn
          /\ thread'[k].back = thread[k].back
      BY <1>2, <1>u, <1>v, <1>e DEF Goto, ChannelTypeOK, Works
    <3>2. /\ tr'[c].connect = tr[c].connect
          /\ tr'[c].close = (IF tr[c].close = "waiting" THEN "waiting" ELSE "none")
          /\ tr'[c].established = tr[c].established /\ tr'[c].reported = tr[c].reported
          /\ tr'[c].confirmed = tr[c].confirmed
      BY <1>2, <1>u, <1>v, <1>e DEF Goto, ChannelTypeOK, Transports
    <3>3. entry'[c] = entry[c]
      BY <1>2, <1>u, <1>v, <1>e DEF Goto, ChannelTypeOK, Entries
    <3>4. chan'[c] = chan[c]
      BY <1>2, <1>u, <1>v, <1>e DEF Goto, ChannelTypeOK, Ends
    <3>5. run'[c] = run[c]
      BY <1>2, <1>u, <1>v, <1>e DEF Goto, ChannelTypeOK
    <3>6. out'[c] = out[c]
      BY <1>2, <1>u, <1>v, <1>e DEF Goto, ChannelTypeOK
    <3>7. reader'[c] = reader[c]
      BY <1>2, <1>u, <1>v, <1>e DEF Goto, ChannelTypeOK
    <3>8. (c \in ids') = (c \in ids)
      BY <1>2, <1>u, <1>v, <1>e DEF Goto, ChannelTypeOK
    <3>9. (c \in spoiled) => (c \in spoiled')
      BY <1>2, <1>u, <1>v, <1>e DEF Goto, ChannelTypeOK
    <3>10. thread[k].pc = "wait"
      BY <1>2, <1>u, <1>v, <1>e DEF Goto, ChannelTypeOK
    <3> QED
      BY <3>1, <3>2, <3>3, <3>4, <3>5, <3>6, <3>7, <3>8, <3>9, <3>10
  <2>l. Local(c, k)
    BY <1>2, <1>u, <1>v, <1>w, <1>e, <2>f DEF Local, Goto, ChannelTypeOK, Conn, AtRest
  <2>j. \A j \in Threads \ {k} : thread'[j] = thread[j]
    BY <2>l DEF Local
  <2>s. Stopper \in Threads /\ Cleaner(c) \in Threads
    BY <1>w, CleanersDiffer DEF Threads
  <2>1. FreshAt(c)'
    BY <1>w, <2>f, <2>j DEF FreshAt
  <2>2. AnswersAt(c)'
    BY <1>w, <2>f, <2>j DEF ConnInv, AnswersAt
  <2>3. CleanerAt(c)'
    BY <1>w, <2>f, <2>j, <2>s, CleanersDiffer
      DEF ConnInv, CleanerAt, ThreadAt, Exiting, Conn, AtRest, Opening, Terminating,
          Established
  <2>4. OwnedAt(c)'
    BY <1>w, <2>f, <2>j DEF ConnInv, OwnedAt, With, Conn, AtRest
  <2>5. ReportedAt(c)'
    <3>1. With(c, {"await", "claim"}) => With(c, {"await", "claim"})'
      BY <2>f, <2>j, WithKept
    <3>2. With(c, {"check"}) => With(c, {"check"})'
      BY <2>f, <2>j, WithKept
    <3>3. StopperAt(c) => StopperAt(c)'
      BY <1>w, <2>f, <2>j, <2>s DEF StopperAt, Terminating, Conn
    <3>4. Exiting(c)' = Exiting(c)
      BY <2>f DEF Exiting
    <3> QED
      BY <1>w, <2>f, <3>1, <3>2, <3>3, <3>4 DEF ConnInv, ReportedAt
  <2>6. StoppingAt(c)'
    BY <1>w, <2>f, <2>j
      DEF ConnInv, StoppingAt, ThreadAt, With, Exiting, Conn, AtRest, Opening, Terminating,
          Established
  <2>7. ThreadAt(k)' /\ OpenerAt(k)'
    BY <1>w, <2>f, <2>j, CleanersDiffer
      DEF ConnInv, ThreadAt, OpenerAt, AnswersAt, CleanerAt, Conn, AtRest, Threads, Opening,
          Terminating, Established
  <2>8. ASSUME NEW j \in Threads \ {k}, Conn(j)' = c
       PROVE  ThreadAt(j)' /\ OpenerAt(j)'
    <3>1. thread'[j] = thread[j] /\ Conn(j) = c /\ ThreadAt(j) /\ OpenerAt(j)
      BY <1>i, <2>j, <2>8 DEF Conn, ConnectionsInv
    <3>2. ThreadAt(j)'
      BY <3>1, <1>w, <2>f, <2>j
        DEF ConnInv, ThreadAt, AnswersAt, Conn, Opening, Terminating, Established
    <3>3. OpenerAt(j)'
      BY <3>1, <1>w, <2>f, <2>j, CleanersDiffer
        DEF ConnInv, ThreadAt, OpenerAt, CleanerAt, Conn, AtRest, Threads, Exiting, Opening,
            Terminating, Established
    <3> QED
      BY <3>2, <3>3
  <2> QED
    BY <1>w, <2>l, <2>1, <2>2, <2>3, <2>4, <2>5, <2>6, <2>7, <2>8 DEF Here, ConnInv
<1> QED
  BY <1>c, <1>1, <1>2 DEF LastWait

LEMMA StopEntryHere ==
    ASSUME ConnectionsInv, NEW k \in Threads, StopEntry(k)
    PROVE  \E c \in Conns : Local(c, k) /\ Here(c, k)'
<1>c. PICK c : c = Conn(k)
  OBVIOUS
<1>i. ConnectionsInv
  OBVIOUS
<1>k. thread[k].pc # "idle"
  BY DEF StopEntry, At
<1>w. /\ c \in Conns /\ c # None /\ reader[c] # "none" /\ Conn(k) = c
      /\ k \in Callers \cup {Stopper, Cleaner(c)}
      /\ ConnInv(c) /\ ThreadAt(k) /\ OpenerAt(k)
  BY <1>k, <1>c, AtWork
<1>e. ChannelTypeOK /\ c \in Conns /\ k \in Threads /\ c = Conn(k)
  BY <1>c, <1>w DEF ConnectionsInv
<1>1. CASE thread[k].back = "claim"
  <2>f. /\ thread'[k].pc = "claim" /\ thread'[k].conn = thread[k].conn
           /\ thread'[k].back = thread[k].back
        /\ tr'[c] = tr[c]
        /\ entry'[c].alive = FALSE /\ entry'[c].todo = "none"
        /\ entry'[c].ended = entry[c].ended
        /\ entry'[c].harness \in {entry[c].harness, "dead"}
        /\ entry[c].harness = "none" => entry'[c].harness = "none"
        /\ chan'[c] = chan[c]
        /\ run'[c] = run[c]
        /\ out'[c] = out[c]
        /\ reader'[c] = reader[c]
        /\ (c \in ids') = (c \in ids)
        /\ (c \in spoiled) => (c \in spoiled')
        /\ thread[k].pc = "stop"
        /\ thread[k].back = "claim"
    BY <1>1, <1>e
      DEF At, registry, peer, rest, StopEntry, Goto, Stopped, ChannelTypeOK, Works,
          Transports, Entries, Ends
  <2>l. Local(c, k)
    BY <1>1, <1>w, <1>e, <2>f
      DEF Local, At, registry, peer, rest, StopEntry, Goto, Stopped, ChannelTypeOK, Conn,
          AtRest
  <2>j. \A j \in Threads \ {k} : thread'[j] = thread[j]
    BY <2>l DEF Local
  <2>s. Stopper \in Threads /\ Cleaner(c) \in Threads
    BY <1>w, CleanersDiffer DEF Threads
  <2>1. FreshAt(c)'
    BY <1>w, <2>f, <2>j DEF FreshAt
  <2>2. AnswersAt(c)'
    BY <1>w, <2>f, <2>j DEF ConnInv, AnswersAt
  <2>3. CleanerAt(c)'
    BY <1>w, <2>f, <2>j, <2>s, CleanersDiffer
      DEF ConnInv, CleanerAt, ThreadAt, Exiting, Conn, AtRest, Opening, Terminating,
          Established
  <2>4. OwnedAt(c)'
    BY <1>w, <2>f, <2>j DEF ConnInv, OwnedAt, With, Conn, AtRest
  <2>5. ReportedAt(c)'
    BY <1>w, <2>f, <2>j
      DEF ConnInv, ReportedAt, StopperAt, ThreadAt, OpenerAt, With, Exiting, Conn, AtRest,
          Opening, Terminating, Established
  <2>6. StoppingAt(c)'
    BY <1>w, <2>f, <2>j
      DEF ConnInv, StoppingAt, ThreadAt, With, Exiting, Conn, AtRest, Opening, Terminating,
          Established
  <2>7. ThreadAt(k)' /\ OpenerAt(k)'
    BY <1>w, <2>f, <2>j, CleanersDiffer
      DEF ConnInv, ThreadAt, OpenerAt, AnswersAt, CleanerAt, Conn, AtRest, Threads, Opening,
          Terminating, Established
  <2>8. ASSUME NEW j \in Threads \ {k}, Conn(j)' = c
       PROVE  ThreadAt(j)' /\ OpenerAt(j)'
    <3>1. thread'[j] = thread[j] /\ Conn(j) = c /\ ThreadAt(j) /\ OpenerAt(j)
      BY <1>i, <2>j, <2>8 DEF Conn, ConnectionsInv
    <3>2. ThreadAt(j)'
      BY <3>1, <1>w, <2>f, <2>j
        DEF ConnInv, ThreadAt, AnswersAt, Conn, Opening, Terminating, Established
    <3>3. OpenerAt(j)'
      BY <3>1, <1>w, <2>f, <2>j, CleanersDiffer
        DEF ConnInv, ThreadAt, OpenerAt, CleanerAt, Conn, AtRest, Threads, Exiting, Opening,
            Terminating, Established
    <3> QED
      BY <3>2, <3>3
  <2> QED
    BY <1>w, <2>l, <2>1, <2>2, <2>3, <2>4, <2>5, <2>6, <2>7, <2>8 DEF Here, ConnInv
<1>2. CASE thread[k].back # "claim"
  <2>f. /\ thread'[k] = AtRest
        /\ tr'[c] = tr[c]
        /\ entry'[c].alive = FALSE /\ entry'[c].todo = "none"
        /\ entry'[c].ended = entry[c].ended
        /\ entry'[c].harness \in {entry[c].harness, "dead"}
        /\ entry[c].harness = "none" => entry'[c].harness = "none"
        /\ chan'[c] = chan[c]
        /\ run'[c] = run[c]
        /\ out'[c] = out[c]
        /\ reader'[c] = reader[c]
        /\ (c \in ids') = (c \in ids)
        /\ (c \in spoiled) => (c \in spoiled')
        /\ thread[k].pc = "stop"
        /\ thread[k].back # "claim"
    <3>1. thread'[k] = AtRest
      BY <1>2, <1>e DEF At, registry, peer, rest, StopEntry, Done, Stopped, ChannelTypeOK, Works
    <3>2. tr'[c] = tr[c]
      BY <1>2, <1>e
        DEF At, registry, peer, rest, StopEntry, Done, Stopped, ChannelTypeOK, Transports
    <3>3. /\ entry'[c].alive = FALSE /\ entry'[c].todo = "none"
          /\ entry'[c].ended = entry[c].ended
          /\ entry'[c].harness \in {entry[c].harness, "dead"}
          /\ entry[c].harness = "none" => entry'[c].harness = "none"
      BY <1>2, <1>e
        DEF At, registry, peer, rest, StopEntry, Done, Stopped, ChannelTypeOK, Entries
    <3>4. chan'[c] = chan[c]
      BY <1>2, <1>e DEF At, registry, peer, rest, StopEntry, Done, Stopped, ChannelTypeOK, Ends
    <3>5. run'[c] = run[c]
      BY <1>2, <1>e DEF At, registry, peer, rest, StopEntry, Done, Stopped, ChannelTypeOK
    <3>6. out'[c] = out[c]
      BY <1>2, <1>e DEF At, registry, peer, rest, StopEntry, Done, Stopped, ChannelTypeOK
    <3>7. reader'[c] = reader[c]
      BY <1>2, <1>e DEF At, registry, peer, rest, StopEntry, Done, Stopped, ChannelTypeOK
    <3>8. (c \in ids') = (c \in ids)
      BY <1>2, <1>e DEF At, registry, peer, rest, StopEntry, Done, Stopped, ChannelTypeOK
    <3>9. (c \in spoiled) => (c \in spoiled')
      BY <1>2, <1>e DEF At, registry, peer, rest, StopEntry, Done, Stopped, ChannelTypeOK
    <3>10. thread[k].pc = "stop"
      BY <1>2, <1>e DEF At, registry, peer, rest, StopEntry, Done, Stopped, ChannelTypeOK
    <3>11. thread[k].back # "claim"
      BY <1>2, <1>e DEF At, registry, peer, rest, StopEntry, Done, Stopped, ChannelTypeOK
    <3> QED
      BY <3>1, <3>2, <3>3, <3>4, <3>5, <3>6, <3>7, <3>8, <3>9, <3>10, <3>11
  <2>l. Local(c, k)
    BY <1>2, <1>w, <1>e, <2>f
      DEF Local, At, registry, peer, rest, StopEntry, Done, Stopped, ChannelTypeOK, Conn,
          AtRest
  <2>j. \A j \in Threads \ {k} : thread'[j] = thread[j]
    BY <2>l DEF Local
  <2>s. Stopper \in Threads /\ Cleaner(c) \in Threads
    BY <1>w, CleanersDiffer DEF Threads
  <2>1. FreshAt(c)'
    BY <1>w, <2>f, <2>j DEF FreshAt
  <2>2. AnswersAt(c)'
    BY <1>w, <2>f, <2>j DEF ConnInv, AnswersAt
  <2>3. CleanerAt(c)'
    BY <1>w, <2>f, <2>j, <2>s, CleanersDiffer
      DEF ConnInv, CleanerAt, ThreadAt, Exiting, Conn, AtRest, Opening, Terminating,
          Established
  <2>4. OwnedAt(c)'
    BY <1>w, <2>f, <2>j DEF ConnInv, OwnedAt, With, Conn, AtRest
  <2>5. ReportedAt(c)'
    <3>1. With(c, {"await", "claim"}) => With(c, {"await", "claim"})'
      BY <2>f, <2>j, WithKept
    <3>2. With(c, {"check"}) => With(c, {"check"})'
      BY <2>f, <2>j, WithKept
    <3>3. StopperAt(c) => StopperAt(c)'
      BY <1>w, <2>f, <2>j, <2>s DEF StopperAt, Terminating, Conn
    <3>4. Exiting(c)' = Exiting(c)
      BY <2>f DEF Exiting
    <3> QED
      BY <1>w, <2>f, <3>1, <3>2, <3>3, <3>4 DEF ConnInv, ReportedAt
  <2>6. StoppingAt(c)'
    BY <1>w, <2>f, <2>j
      DEF ConnInv, StoppingAt, ThreadAt, With, Exiting, Conn, AtRest, Opening, Terminating,
          Established
  <2>7. ThreadAt(k)' /\ OpenerAt(k)'
    BY <1>w, <2>f, <2>j, CleanersDiffer
      DEF ConnInv, ThreadAt, OpenerAt, AnswersAt, CleanerAt, Conn, AtRest, Threads, Opening,
          Terminating, Established
  <2>8. ASSUME NEW j \in Threads \ {k}, Conn(j)' = c
       PROVE  ThreadAt(j)' /\ OpenerAt(j)'
    <3>1. thread'[j] = thread[j] /\ Conn(j) = c /\ ThreadAt(j) /\ OpenerAt(j)
      BY <1>i, <2>j, <2>8 DEF Conn, ConnectionsInv
    <3>2. ThreadAt(j)'
      BY <3>1, <1>w, <2>f, <2>j
        DEF ConnInv, ThreadAt, AnswersAt, Conn, Opening, Terminating, Established
    <3>3. OpenerAt(j)'
      BY <3>1, <1>w, <2>f, <2>j, CleanersDiffer
        DEF ConnInv, ThreadAt, OpenerAt, CleanerAt, Conn, AtRest, Threads, Exiting, Opening,
            Terminating, Established
    <3> QED
      BY <3>2, <3>3
  <2> QED
    BY <1>w, <2>l, <2>1, <2>2, <2>3, <2>4, <2>5, <2>6, <2>7, <2>8 DEF Here, ConnInv
<1> QED
  BY <1>c, <1>1, <1>2 DEF StopEntry

\* What the reader finds in what the entry wrote.
Words == {"ok", "refused", "end", "kept"}

LEMMA RepliesGrow ==
    ASSUME NEW s \in Seq(Words), NEW r \in Words
    PROVE  /\ Append(s, r) \in Seq(Words)
           /\ NoReply(s) => OneReply(Append(s, r))
           /\ OneReply(s) /\ r = "end" => OneReply(Append(s, r))
           /\ NoOk(s) /\ r # "ok" => NoOk(Append(s, r))
<1>1. /\ Append(s, r) \in Seq(Words) /\ Len(Append(s, r)) = Len(s) + 1
      /\ \A i \in 1..(Len(s) + 1) : Append(s, r)[i] = IF i <= Len(s) THEN s[i] ELSE r
  OBVIOUS
<1>2. Len(s) \in Nat
  OBVIOUS
<1>3. NoReply(s) => OneReply(Append(s, r))
  BY <1>1, <1>2 DEF NoReply, OneReply
<1>4. OneReply(s) /\ r = "end" => OneReply(Append(s, r))
  BY <1>1, <1>2 DEF OneReply
<1>5. NoOk(s) /\ r # "ok" => NoOk(Append(s, r))
  BY <1>1, <1>2 DEF NoOk
<1> QED
  BY <1>1, <1>3, <1>4, <1>5

LEMMA RepliesAreRead ==
    ASSUME NEW s \in Seq(Words), s # <<>>
    PROVE  /\ Head(s) \in Words /\ Tail(s) \in Seq(Words)
           /\ NoReply(s) => NoReply(Tail(s)) /\ Head(s) = "end"
           /\ OneReply(s) => OneReply(Tail(s))
           /\ OneReply(s) /\ Head(s) # "end" => NoOk(Tail(s))
           /\ NoOk(s) => NoOk(Tail(s)) /\ Head(s) # "ok"
<1>1. /\ Len(s) \in Nat \ {0} /\ Head(s) = s[1] /\ Tail(s) \in Seq(Words)
      /\ Len(Tail(s)) = Len(s) - 1 /\ \A i \in 1..(Len(s) - 1) : Tail(s)[i] = s[i + 1]
  OBVIOUS
<1>2. \A i \in 1..(Len(s) - 1) : i + 1 \in 1..Len(s) /\ i + 1 # 1 /\ i \in Nat
  BY <1>1
<1>3. 1 \in 1..Len(s) /\ Head(s) \in Words
  BY <1>1
<1>4. NoReply(s) => NoReply(Tail(s)) /\ Head(s) = "end"
  BY <1>1, <1>2, <1>3 DEF NoReply
<1>5. OneReply(s) => OneReply(Tail(s))
  <2> SUFFICES ASSUME OneReply(s), NEW i \in 1..(Len(s) - 1), NEW j \in 1..(Len(s) - 1),
                      s[i + 1] # "end", s[j + 1] # "end"
               PROVE  i = j
    BY <1>1 DEF OneReply
  <2>1. i + 1 = j + 1
    BY <1>2 DEF OneReply
  <2> QED
    BY <1>2, <2>1
<1>6. OneReply(s) /\ Head(s) # "end" => NoOk(Tail(s))
  <2> SUFFICES ASSUME OneReply(s), s[1] # "end", NEW i \in 1..(Len(s) - 1), s[i + 1] = "ok"
               PROVE  FALSE
    BY <1>1 DEF NoOk
  <2> QED
    BY <1>2, <1>3 DEF OneReply
<1>7. NoOk(s) => NoOk(Tail(s)) /\ Head(s) # "ok"
  BY <1>1, <1>2, <1>3 DEF NoOk
<1> QED
  BY <1>1, <1>3, <1>4, <1>5, <1>6, <1>7

LEMMA NothingWritten == NoReply(<<>>) /\ OneReply(<<>>) /\ NoOk(<<>>) /\ <<>> \in Seq(Words)
BY DEF NoReply, OneReply, NoOk

LEMMA CloseIsWritten ==
    ASSUME NEW s \in Seq(Words), NEW ended \in BOOLEAN, NEW r \in Words
    PROVE  LET u == s \o (IF ended THEN <<>> ELSE <<"end">>) \o <<r>> IN
           u \in Seq(Words) /\ (NoOk(s) /\ r # "ok" => NoOk(u))
<1> DEFINE v == IF ended THEN s ELSE Append(s, "end")
<1>1. s \o (IF ended THEN <<>> ELSE <<"end">>) = v
  <2>1. s \o <<>> = s
    OBVIOUS
  <2>2. s \o <<"end">> = Append(s, "end")
    OBVIOUS
  <2> QED
    BY <2>1, <2>2
<1>2. "end" \in Words
  BY DEF Words
<1>3. v \in Seq(Words) /\ (NoOk(s) => NoOk(v))
  BY <1>2, RepliesGrow
<1>4. v \o <<r>> = Append(v, r)
  BY <1>3
<1>5. PICK x \in Seq(Words) : x = v
  BY <1>3
<1>6. Append(x, r) \in Seq(Words) /\ (NoOk(x) /\ r # "ok" => NoOk(Append(x, r)))
  BY RepliesGrow
<1> QED
  BY <1>1, <1>3, <1>4, <1>5, <1>6

LEMMA AcquireHere ==
    ASSUME ConnectionsInv, NEW k \in Callers, Acquire(k)
    PROVE  \E c \in Conns : Local(c, k) /\ Here(c, k)'
<1>i. ConnectionsInv
  OBVIOUS
<1>1. PICK c \in Conns :
         /\ reader[c] = "none" /\ reader' = [reader EXCEPT ![c] = "reading"]
         /\ \/ /\ thread' = [thread EXCEPT ![k] = [pc |-> "launched", conn |-> c, back |-> "idle"]]
               /\ tr' = [tr EXCEPT ![c].connect = "waiting"]
               /\ entry' = [entry EXCEPT ![c].alive = TRUE, ![c].todo = "connect"]
            \/ UNCHANGED <<thread, tr, entry>>
  BY DEF Acquire
<1>u. UNCHANGED <<pair, ids, chan, run, out, spoiled>> /\ thread[k].pc = "idle"
  BY DEF Acquire, At, registry, rest
<1>w. /\ c \in Conns /\ c # None /\ k \in Threads /\ k \in Callers \cup {Stopper, Cleaner(c)}
      /\ k # Cleaner(c) /\ Conn(k) = None /\ thread[k] = AtRest
      /\ ConnInv(c) /\ ThreadAt(k) /\ OpenerAt(k) /\ c \notin ids /\ run[c] = "none"
      /\ \A j \in Threads : Conn(j) # c
  BY <1>1, <1>u, ChannelAssumption, CleanersDiffer
     DEF ConnectionsInv, ConnInv, FreshAt, ThreadAt, Threads, AtRest, Conn
<1>x. /\ entry[c].alive = FALSE /\ entry[c].todo = "none" /\ entry[c].ended = FALSE
      /\ entry[c].harness = "none" /\ out[c] = <<>>
      /\ tr[c].connect = "none" /\ tr[c].close = "none" /\ tr[c].established = FALSE
      /\ tr[c].reported = FALSE /\ tr[c].confirmed = FALSE
  BY <1>1, <1>w DEF ConnInv, FreshAt, NoEntry, Unstarted
<1>e. ChannelTypeOK /\ c \in Conns /\ k \in Threads
  BY <1>w DEF ConnectionsInv
<1>2. CASE /\ thread' = [thread EXCEPT ![k] = [pc |-> "launched", conn |-> c, back |-> "idle"]]
           /\ tr' = [tr EXCEPT ![c].connect = "waiting"]
           /\ entry' = [entry EXCEPT ![c].alive = TRUE, ![c].todo = "connect"]
  <2>f. /\ thread'[k].pc = "launched" /\ thread'[k].conn = c /\ thread'[k].back = "idle"
        /\ tr'[c].connect = "waiting" /\ tr'[c].close = tr[c].close
           /\ tr'[c].established = tr[c].established /\ tr'[c].reported = tr[c].reported
           /\ tr'[c].confirmed = tr[c].confirmed
        /\ entry'[c].alive = TRUE /\ entry'[c].todo = "connect"
           /\ entry'[c].ended = entry[c].ended /\ entry'[c].harness = entry[c].harness
        /\ chan'[c] = chan[c]
        /\ run'[c] = run[c]
        /\ out'[c] = out[c]
        /\ reader'[c] = "reading"
        /\ (c \in ids') = (c \in ids)
        /\ (c \in spoiled) => (c \in spoiled')
        /\ tr[c].reported = FALSE /\ tr[c].confirmed = FALSE
    BY <1>1, <1>u, <1>2, <1>x, <1>e DEF Conn, ChannelTypeOK, Works, Transports, Entries, Ends
  <2>l. Local(c, k)
    BY <1>1, <1>u, <1>2, <1>x, <1>w, <1>e, <2>f DEF Local, Conn, ChannelTypeOK, AtRest
  <2>j. \A j \in Threads \ {k} : thread'[j] = thread[j]
    BY <2>l DEF Local
  <2>s. Stopper \in Threads /\ Cleaner(c) \in Threads
    BY <1>w, CleanersDiffer DEF Threads
  <2>1. FreshAt(c)'
    BY <1>w, <2>f, <2>j DEF FreshAt
  <2>2. AnswersAt(c)'
    BY <1>w, <2>f, <2>j, <1>x, NothingWritten DEF ConnInv, AnswersAt
  <2>3. CleanerAt(c)'
    BY <1>w, <2>f, <2>j, <2>s, CleanersDiffer, <1>x
      DEF ConnInv, CleanerAt, ThreadAt, Exiting, Conn, AtRest, Opening, Terminating,
          Established
  <2>4. OwnedAt(c)'
    BY <1>w, <2>f, <2>j DEF ConnInv, OwnedAt, With, Conn, AtRest
  <2>5. ReportedAt(c)'
    BY <1>w, <2>f, <2>j
      DEF ConnInv, ReportedAt, StopperAt, ThreadAt, OpenerAt, With, Exiting, Conn, AtRest,
          Opening, Terminating, Established
  <2>6. StoppingAt(c)'
    BY <1>w, <2>f, <2>j, <1>x
      DEF ConnInv, StoppingAt, ThreadAt, With, Exiting, Conn, AtRest, Opening, Terminating,
          Established
  <2>7. ThreadAt(k)' /\ OpenerAt(k)'
    BY <1>w, <2>f, <2>j, CleanersDiffer, <1>x
      DEF ConnInv, ThreadAt, OpenerAt, AnswersAt, CleanerAt, Conn, AtRest, Threads, Opening,
          Terminating, Established
  <2>8. ASSUME NEW j \in Threads \ {k}, Conn(j)' = c
       PROVE  ThreadAt(j)' /\ OpenerAt(j)'
    <3>1. thread'[j] = thread[j] /\ Conn(j) = c /\ ThreadAt(j) /\ OpenerAt(j)
      BY <1>i, <2>j, <2>8 DEF Conn, ConnectionsInv
    <3>2. ThreadAt(j)'
      BY <3>1, <1>w, <2>f, <2>j
        DEF ConnInv, ThreadAt, AnswersAt, Conn, Opening, Terminating, Established
    <3>3. OpenerAt(j)'
      BY <3>1, <1>w, <2>f, <2>j, CleanersDiffer
        DEF ConnInv, ThreadAt, OpenerAt, CleanerAt, Conn, AtRest, Threads, Exiting, Opening,
            Terminating, Established
    <3> QED
      BY <3>2, <3>3
  <2> QED
    BY <1>w, <2>l, <2>1, <2>2, <2>3, <2>4, <2>5, <2>6, <2>7, <2>8 DEF Here, ConnInv
<1>3. CASE UNCHANGED <<thread, tr, entry>>
  <2>f. /\ thread'[k].pc = thread[k].pc /\ thread'[k].conn = thread[k].conn
           /\ thread'[k].back = thread[k].back
        /\ tr'[c] = tr[c]
        /\ entry'[c] = entry[c]
        /\ chan'[c] = chan[c]
        /\ run'[c] = run[c]
        /\ out'[c] = out[c]
        /\ reader'[c] = "reading"
        /\ (c \in ids') = (c \in ids)
        /\ (c \in spoiled) => (c \in spoiled')
        /\ tr[c].reported = FALSE /\ tr[c].confirmed = FALSE
        /\ thread'[k] = thread[k]
    BY <1>1, <1>u, <1>3, <1>x, <1>e DEF Conn, ChannelTypeOK, Works, Transports, Entries, Ends
  <2>l. Local(c, k)
    BY <1>1, <1>u, <1>3, <1>x, <1>w, <1>e, <2>f DEF Local, Conn, ChannelTypeOK, AtRest
  <2>j. \A j \in Threads \ {k} : thread'[j] = thread[j]
    BY <2>l DEF Local
  <2>s. Stopper \in Threads /\ Cleaner(c) \in Threads
    BY <1>w, CleanersDiffer DEF Threads
  <2>1. FreshAt(c)'
    BY <1>w, <2>f, <2>j DEF FreshAt
  <2>2. AnswersAt(c)'
    BY <1>w, <2>f, <2>j, <1>x, NothingWritten DEF ConnInv, AnswersAt
  <2>3. CleanerAt(c)'
    BY <1>w, <2>f, <2>j, <2>s, CleanersDiffer, <1>x
      DEF ConnInv, CleanerAt, ThreadAt, Exiting, Conn, AtRest, Opening, Terminating,
          Established
  <2>4. OwnedAt(c)'
    BY <1>w, <2>f, <2>j DEF ConnInv, OwnedAt, With, Conn, AtRest
  <2>5. ReportedAt(c)'
    BY <1>w, <2>f, <2>j
      DEF ConnInv, ReportedAt, StopperAt, ThreadAt, OpenerAt, With, Exiting, Conn, AtRest,
          Opening, Terminating, Established
  <2>6. StoppingAt(c)'
    BY <1>w, <2>f, <2>j, <1>x
      DEF ConnInv, StoppingAt, ThreadAt, With, Exiting, Conn, AtRest, Opening, Terminating,
          Established
  <2>7. ThreadAt(k)' /\ OpenerAt(k)'
    BY <1>w, <2>f, <2>j, CleanersDiffer
      DEF ConnInv, ThreadAt, OpenerAt, AnswersAt, CleanerAt, Conn, AtRest, Threads, Opening,
          Terminating, Established
  <2>8. ASSUME NEW j \in Threads \ {k}, Conn(j)' = c
       PROVE  ThreadAt(j)' /\ OpenerAt(j)'
    <3>1. thread'[j] = thread[j] /\ Conn(j) = c /\ ThreadAt(j) /\ OpenerAt(j)
      BY <1>i, <2>j, <2>8 DEF Conn, ConnectionsInv
    <3>2. ThreadAt(j)'
      BY <3>1, <1>w, <2>f, <2>j
        DEF ConnInv, ThreadAt, AnswersAt, Conn, Opening, Terminating, Established
    <3>3. OpenerAt(j)'
      BY <3>1, <1>w, <2>f, <2>j, CleanersDiffer
        DEF ConnInv, ThreadAt, OpenerAt, CleanerAt, Conn, AtRest, Threads, Exiting, Opening,
            Terminating, Established
    <3> QED
      BY <3>2, <3>3
  <2> QED
    BY <1>w, <2>l, <2>1, <2>2, <2>3, <2>4, <2>5, <2>6, <2>7, <2>8 DEF Here, ConnInv
<1> QED
  BY <1>1, <1>2, <1>3

LEMMA ApproachHere ==
    ASSUME ConnectionsInv, NEW k \in Callers \cup {Stopper}, NEW c \in ids, thread[k].pc = "idle",
           thread' = [thread EXCEPT ![k] = [pc |-> "ask", conn |-> c, back |-> "idle"]],
           UNCHANGED <<pair, ids, chan, run, tr, entry, out, reader, spoiled>>
    PROVE  Local(c, k) /\ Here(c, k)'
<1>i. ConnectionsInv
  OBVIOUS
<1>w. /\ c \in Conns /\ c # None /\ k \in Threads /\ k \in Callers \cup {Stopper, Cleaner(c)}
      /\ k # Cleaner(c) /\ Conn(k) = None /\ reader[c] # "none" /\ thread[k] = AtRest
      /\ ConnInv(c) /\ ThreadAt(k) /\ OpenerAt(k) /\ tr[c].established = TRUE
  <2>1. c \in Conns /\ k \in Threads
    BY ChannelAssumption DEF ConnectionsInv, ChannelTypeOK, Threads
  <2>2. ConnInv(c) /\ ThreadAt(k) /\ OpenerAt(k)
    BY <2>1 DEF ConnectionsInv
  <2>3. thread[k] = AtRest /\ Conn(k) = None
    BY <2>2 DEF ThreadAt, AtRest, Conn
  <2>4. reader[c] # "none" /\ tr[c].established
    BY <2>2 DEF ConnInv, FreshAt, CleanerAt
  <2>5. tr[c].established \in BOOLEAN
    BY <2>1 DEF ConnectionsInv, ChannelTypeOK, Transports
  <2> QED
    BY <2>1, <2>2, <2>3, <2>4, <2>5, CleanersDiffer, ChannelAssumption
<1>e. ChannelTypeOK /\ c \in Conns /\ k \in Threads
  BY <1>w DEF ConnectionsInv
<1>f. /\ thread'[k].pc = "ask" /\ thread'[k].conn = c /\ thread'[k].back = "idle"
      /\ tr'[c] = tr[c]
      /\ entry'[c] = entry[c]
      /\ chan'[c] = chan[c]
      /\ run'[c] = run[c]
      /\ out'[c] = out[c]
      /\ reader'[c] = reader[c]
      /\ (c \in ids') = (c \in ids)
      /\ (c \in spoiled) => (c \in spoiled')
      /\ thread[k].pc = "idle" /\ c \in ids
  BY <1>w, <1>e DEF Conn, ChannelTypeOK, Works, Transports, Entries, Ends
<1>l. Local(c, k)
  BY <1>w, <1>w, <1>e, <1>f DEF Local, Conn, ChannelTypeOK, AtRest
<1>j. \A j \in Threads \ {k} : thread'[j] = thread[j]
  BY <1>l DEF Local
<1>s. Stopper \in Threads /\ Cleaner(c) \in Threads
  BY <1>w, CleanersDiffer DEF Threads
<1>1. FreshAt(c)'
  BY <1>w, <1>f, <1>j DEF FreshAt
<1>2. AnswersAt(c)'
  BY <1>w, <1>f, <1>j DEF ConnInv, AnswersAt
<1>3. CleanerAt(c)'
  BY <1>w, <1>f, <1>j, <1>s, CleanersDiffer
    DEF ConnInv, CleanerAt, ThreadAt, Exiting, Conn, AtRest, Opening, Terminating, Established
<1>4. OwnedAt(c)'
  BY <1>w, <1>f, <1>j DEF ConnInv, OwnedAt, With, Conn, AtRest
<1>5. ReportedAt(c)'
  <2>1. With(c, {"await", "claim"}) => With(c, {"await", "claim"})'
    BY <1>f, <1>j, WithKept
  <2>2. With(c, {"check"}) => With(c, {"check"})'
    BY <1>f, <1>j, WithKept
  <2>3. StopperAt(c) => StopperAt(c)'
    BY <1>w, <1>f, <1>j, <1>s DEF StopperAt, Terminating, Conn
  <2>4. Exiting(c)' = Exiting(c)
    BY <1>f DEF Exiting
  <2> QED
    BY <1>w, <1>f, <2>1, <2>2, <2>3, <2>4 DEF ConnInv, ReportedAt
<1>6. StoppingAt(c)'
  BY <1>w, <1>f, <1>j
    DEF ConnInv, StoppingAt, ThreadAt, With, Exiting, Conn, AtRest, Opening, Terminating,
        Established
<1>7. ThreadAt(k)' /\ OpenerAt(k)'
  BY <1>w, <1>f, <1>j, CleanersDiffer
    DEF ConnInv, ThreadAt, OpenerAt, AnswersAt, CleanerAt, Conn, AtRest, Threads, Opening,
        Terminating, Established
<1>8. ASSUME NEW j \in Threads \ {k}, Conn(j)' = c
     PROVE  ThreadAt(j)' /\ OpenerAt(j)'
  <2>1. thread'[j] = thread[j] /\ Conn(j) = c /\ ThreadAt(j) /\ OpenerAt(j)
    BY <1>i, <1>j, <1>8 DEF Conn, ConnectionsInv
  <2>2. ThreadAt(j)'
    BY <2>1, <1>w, <1>f, <1>j
      DEF ConnInv, ThreadAt, AnswersAt, Conn, Opening, Terminating, Established
  <2>3. OpenerAt(j)'
    BY <2>1, <1>w, <1>f, <1>j, CleanersDiffer
      DEF ConnInv, ThreadAt, OpenerAt, CleanerAt, Conn, AtRest, Threads, Exiting, Opening,
          Terminating, Established
  <2> QED
    BY <2>2, <2>3
<1> QED
  BY <1>w, <1>l, <1>1, <1>2, <1>3, <1>4, <1>5, <1>6, <1>7, <1>8 DEF Here, ConnInv

LEMMA ReadHere ==
    ASSUME ConnectionsInv, NEW c \in Conns, Read(c)
    PROVE  Local(c, Cleaner(c)) /\ Here(c, Cleaner(c))'
<1>c. PICK k : k = Cleaner(c)
  OBVIOUS
<1>i. ConnectionsInv
  OBVIOUS
<1>e. ChannelTypeOK /\ c \in Conns /\ k \in Threads
  BY <1>c, CleanersDiffer DEF ConnectionsInv
<1>u. UNCHANGED <<ids, chan, run, entry, spoiled, thread>> /\ reader[c] = "reading"
      /\ out[c] # <<>> /\ out' = [out EXCEPT ![c] = Tail(@)]
      /\ IF Head(out[c]) = "end" THEN Report(c)
         ELSE tr' = [tr EXCEPT ![c] = Reply(@, Head(out[c]))] /\ reader' = reader
  BY DEF Read, registry, peer, rest
<1>x. /\ ConnInv(c) /\ ThreadAt(k) /\ OpenerAt(k)
  BY <1>e DEF ConnectionsInv
<1>w. /\ c \in Conns /\ c # None /\ reader[c] # "none" /\ k = Cleaner(c) /\ k \notin Callers
      /\ k \in Callers \cup {Stopper, Cleaner(c)} /\ Conn(k) \in {c, None}
      /\ ConnInv(c) /\ ThreadAt(k) /\ OpenerAt(k)
  BY <1>c, <1>e, <1>u, <1>x, CleanersDiffer, ChannelAssumption
    DEF ConnInv, CleanerAt, FreshAt, NoEntry
<1>r. /\ out[c] \in Seq(Words) /\ out[c] # <<>> /\ out'[c] = Tail(out[c])
      /\ NoReply(out[c]) => NoReply(Tail(out[c])) /\ Head(out[c]) = "end"
      /\ OneReply(out[c]) => OneReply(Tail(out[c]))
      /\ OneReply(out[c]) /\ Head(out[c]) # "end" => NoOk(Tail(out[c]))
      /\ NoOk(out[c]) => NoOk(Tail(out[c])) /\ Head(out[c]) # "ok"
      /\ Head(out[c]) \in Words
  <2>1. out[c] \in Seq(Words)
    BY <1>e DEF ChannelTypeOK, Words
  <2>2. PICK s \in Seq(Words) : s = out[c]
    BY <2>1
  <2> QED
    BY <1>e, <1>u, <2>1, <2>2, RepliesAreRead DEF ChannelTypeOK
<1>1. ASSUME Head(out[c]) = "end", tr[c].reported, reader' = reader, tr' = [tr EXCEPT ![c].reported = TRUE]
     PROVE  Local(c, k) /\ Here(c, k)'
  <2>f. /\ thread' = thread
        /\ tr'[c].connect = tr[c].connect /\ tr'[c].close = tr[c].close
           /\ tr'[c].established = tr[c].established /\ tr'[c].reported = TRUE
           /\ tr'[c].confirmed = tr[c].confirmed
        /\ entry'[c] = entry[c]
        /\ chan'[c] = chan[c]
        /\ run'[c] = run[c]
        /\ out'[c] = Tail(out[c])
        /\ reader'[c] = reader[c]
        /\ (c \in ids') = (c \in ids)
        /\ (c \in spoiled) => (c \in spoiled')
        /\ tr[c].reported = TRUE /\ reader[c] = "reading"
    BY <1>1, <1>u, <1>c, <1>r, <1>e DEF Conn, ChannelTypeOK, Works, Transports, Entries, Ends
  <2>l. Local(c, k)
    BY <1>1, <1>u, <1>c, <1>r, <1>w, <1>e, <2>f DEF Local, Conn, ChannelTypeOK
  <2>t. /\ \A j \in Threads : Conn(j)' = Conn(j) /\ thread'[j] = thread[j]
        /\ With(c, {"register", "superseded", "settle"})' = With(c, {"register", "superseded", "settle"})
        /\ With(c, {"await", "claim"})' = With(c, {"await", "claim"})
        /\ With(c, {"check"})' = With(c, {"check"})
        /\ With(c, Opening \cup Terminating)' = With(c, Opening \cup Terminating)
        /\ With(c, {"claim", "settle"})' = With(c, {"claim", "settle"})
        /\ With(c, {"stop"})' = With(c, {"stop"})
        /\ StopperAt(c)' = StopperAt(c)
    BY <2>f DEF With, StopperAt, Conn, Opening, Terminating
  <2>1. FreshAt(c)'
    BY <1>w, <2>f, <2>t DEF FreshAt
  <2>2. AnswersAt(c)'
    BY <1>w, <2>f, <2>t, <1>r DEF ConnInv, AnswersAt
  <2>3. CleanerAt(c)'
    BY <1>w, <2>f, <2>t DEF ConnInv, CleanerAt, Exiting, Conn
  <2>4. OwnedAt(c)'
    BY <1>w, <2>f, <2>t DEF ConnInv, OwnedAt
  <2>5. ReportedAt(c)'
    BY <1>w, <2>f, <2>t DEF ConnInv, ReportedAt, Exiting
  <2>6. StoppingAt(c)'
    BY <1>w, <2>f, <2>t DEF ConnInv, StoppingAt, Exiting
  <2>7. ASSUME NEW j \in Threads, j = k \/ Conn(j)' = c
       PROVE  ThreadAt(j)' /\ OpenerAt(j)'
    <3>1. ThreadAt(j) /\ OpenerAt(j) /\ thread'[j] = thread[j] /\ Conn(j)' = Conn(j)
      BY <1>i, <2>t DEF ConnectionsInv
    <3>2. CASE Conn(j) = c
      <4>1. ThreadAt(j)'
        BY <1>w, <2>f, <2>t, <3>1, <3>2 DEF ConnInv, ThreadAt, AnswersAt, Established
      <4>2. OpenerAt(j)'
        BY <1>w, <2>f, <2>t, <3>1, <3>2, <1>e
          DEF ConnInv, OpenerAt, CleanerAt, Exiting, Opening, Threads
      <4> QED
        BY <4>1, <4>2
    <3>3. CASE Conn(j) # c
      <4>1. thread[j].pc = "idle" /\ thread[j].back = "idle"
        BY <2>7, <3>1, <3>3, <1>w, ChannelAssumption DEF ThreadAt, AtRest
      <4> QED
        BY <4>1, <3>1 DEF ThreadAt, OpenerAt, Established, Opening, AtRest
    <3> QED
      BY <3>2, <3>3
  <2> QED
    BY <1>w, <2>l, <2>1, <2>2, <2>3, <2>4, <2>5, <2>6, <2>7 DEF Here, ConnInv
<1>2. ASSUME Head(out[c]) = "end", ~tr[c].reported, reader' = [reader EXCEPT ![c] = "exit"],
            tr' = [tr EXCEPT ![c].reported = TRUE]
     PROVE  Local(c, k) /\ Here(c, k)'
  <2>f. /\ thread' = thread
        /\ tr'[c].connect = tr[c].connect /\ tr'[c].close = tr[c].close
           /\ tr'[c].established = tr[c].established /\ tr'[c].reported = TRUE
           /\ tr'[c].confirmed = tr[c].confirmed
        /\ entry'[c] = entry[c]
        /\ chan'[c] = chan[c]
        /\ run'[c] = run[c]
        /\ out'[c] = Tail(out[c])
        /\ reader'[c] = "exit"
        /\ (c \in ids') = (c \in ids)
        /\ (c \in spoiled) => (c \in spoiled')
        /\ reader[c] = "reading" /\ tr[c].reported = FALSE
    BY <1>2, <1>u, <1>c, <1>r, <1>e DEF Conn, ChannelTypeOK, Works, Transports, Entries, Ends
  <2>l. Local(c, k)
    BY <1>2, <1>u, <1>c, <1>r, <1>w, <1>e, <2>f DEF Local, Conn, ChannelTypeOK
  <2>t. /\ \A j \in Threads : Conn(j)' = Conn(j) /\ thread'[j] = thread[j]
        /\ With(c, {"register", "superseded", "settle"})' = With(c, {"register", "superseded", "settle"})
        /\ With(c, {"await", "claim"})' = With(c, {"await", "claim"})
        /\ With(c, {"check"})' = With(c, {"check"})
        /\ With(c, Opening \cup Terminating)' = With(c, Opening \cup Terminating)
        /\ With(c, {"claim", "settle"})' = With(c, {"claim", "settle"})
        /\ With(c, {"stop"})' = With(c, {"stop"})
        /\ StopperAt(c)' = StopperAt(c)
    BY <2>f DEF With, StopperAt, Conn, Opening, Terminating
  <2>1. FreshAt(c)'
    BY <1>w, <2>f, <2>t DEF FreshAt
  <2>2. AnswersAt(c)'
    BY <1>w, <2>f, <2>t, <1>r DEF ConnInv, AnswersAt
  <2>3. CleanerAt(c)'
    BY <1>w, <2>f, <2>t DEF ConnInv, CleanerAt, Exiting, Conn
  <2>4. OwnedAt(c)'
    BY <1>w, <2>f, <2>t DEF ConnInv, OwnedAt
  <2>5. ReportedAt(c)'
    BY <1>w, <2>f, <2>t DEF ConnInv, ReportedAt, Exiting
  <2>6. StoppingAt(c)'
    BY <1>w, <2>f, <2>t DEF ConnInv, StoppingAt, Exiting
  <2>7. ASSUME NEW j \in Threads, j = k \/ Conn(j)' = c
       PROVE  ThreadAt(j)' /\ OpenerAt(j)'
    <3>1. ThreadAt(j) /\ OpenerAt(j) /\ thread'[j] = thread[j] /\ Conn(j)' = Conn(j)
      BY <1>i, <2>t DEF ConnectionsInv
    <3>2. CASE Conn(j) = c
      <4>1. ThreadAt(j)'
        BY <1>w, <2>f, <2>t, <3>1, <3>2 DEF ConnInv, ThreadAt, AnswersAt, Established
      <4>2. OpenerAt(j)'
        BY <1>w, <2>f, <2>t, <3>1, <3>2, <1>e
          DEF ConnInv, OpenerAt, CleanerAt, Exiting, Opening, Threads
      <4> QED
        BY <4>1, <4>2
    <3>3. CASE Conn(j) # c
      <4>1. thread[j].pc = "idle" /\ thread[j].back = "idle"
        BY <2>7, <3>1, <3>3, <1>w, ChannelAssumption DEF ThreadAt, AtRest
      <4> QED
        BY <4>1, <3>1 DEF ThreadAt, OpenerAt, Established, Opening, AtRest
    <3> QED
      BY <3>2, <3>3
  <2> QED
    BY <1>w, <2>l, <2>1, <2>2, <2>3, <2>4, <2>5, <2>6, <2>7 DEF Here, ConnInv
<1>3. ASSUME Head(out[c]) # "end", tr[c].connect = "waiting", reader' = reader,
            tr' = [tr EXCEPT ![c].connect = Head(out[c])]
     PROVE  Local(c, k) /\ Here(c, k)'
  <2>f. /\ thread' = thread
        /\ tr'[c].connect = Head(out[c]) /\ tr'[c].close = tr[c].close
           /\ tr'[c].established = tr[c].established /\ tr'[c].reported = tr[c].reported
           /\ tr'[c].confirmed = tr[c].confirmed
        /\ entry'[c] = entry[c]
        /\ chan'[c] = chan[c]
        /\ run'[c] = run[c]
        /\ out'[c] = Tail(out[c])
        /\ reader'[c] = reader[c]
        /\ (c \in ids') = (c \in ids)
        /\ (c \in spoiled) => (c \in spoiled')
        /\ tr[c].connect = "waiting" /\ Head(out[c]) # "end" /\ Head(out[c]) # "waiting"
    BY <1>3, <1>u, <1>c, <1>r, <1>e
      DEF Conn, Words, Replies, ChannelTypeOK, Works, Transports, Entries, Ends
  <2>l. Local(c, k)
    BY <1>3, <1>u, <1>c, <1>r, <1>w, <1>e, <2>f DEF Local, Conn, Words, Replies, ChannelTypeOK
  <2>t. /\ \A j \in Threads : Conn(j)' = Conn(j) /\ thread'[j] = thread[j]
        /\ With(c, {"register", "superseded", "settle"})' = With(c, {"register", "superseded", "settle"})
        /\ With(c, {"await", "claim"})' = With(c, {"await", "claim"})
        /\ With(c, {"check"})' = With(c, {"check"})
        /\ With(c, Opening \cup Terminating)' = With(c, Opening \cup Terminating)
        /\ With(c, {"claim", "settle"})' = With(c, {"claim", "settle"})
        /\ With(c, {"stop"})' = With(c, {"stop"})
        /\ StopperAt(c)' = StopperAt(c)
    BY <2>f DEF With, StopperAt, Conn, Opening, Terminating
  <2>1. FreshAt(c)'
    BY <1>w, <2>f, <2>t DEF FreshAt
  <2>2. AnswersAt(c)'
    BY <1>w, <2>f, <2>t, <1>r DEF ConnInv, AnswersAt
  <2>3. CleanerAt(c)'
    BY <1>w, <2>f, <2>t DEF ConnInv, CleanerAt, Exiting, Conn
  <2>4. OwnedAt(c)'
    BY <1>w, <2>f, <2>t DEF ConnInv, OwnedAt
  <2>5. ReportedAt(c)'
    BY <1>w, <2>f, <2>t DEF ConnInv, ReportedAt, Exiting
  <2>6. StoppingAt(c)'
    BY <1>w, <2>f, <2>t DEF ConnInv, StoppingAt, Exiting
  <2>7. ASSUME NEW j \in Threads, j = k \/ Conn(j)' = c
       PROVE  ThreadAt(j)' /\ OpenerAt(j)'
    <3>1. ThreadAt(j) /\ OpenerAt(j) /\ thread'[j] = thread[j] /\ Conn(j)' = Conn(j)
      BY <1>i, <2>t DEF ConnectionsInv
    <3>2. CASE Conn(j) = c
      <4>1. ThreadAt(j)'
        BY <1>w, <2>f, <2>t, <3>1, <3>2 DEF ConnInv, ThreadAt, AnswersAt, Established
      <4>2. OpenerAt(j)'
        BY <1>w, <2>f, <2>t, <3>1, <3>2, <1>e
          DEF ConnInv, OpenerAt, CleanerAt, Exiting, Opening, Threads
      <4> QED
        BY <4>1, <4>2
    <3>3. CASE Conn(j) # c
      <4>1. thread[j].pc = "idle" /\ thread[j].back = "idle"
        BY <2>7, <3>1, <3>3, <1>w, ChannelAssumption DEF ThreadAt, AtRest
      <4> QED
        BY <4>1, <3>1 DEF ThreadAt, OpenerAt, Established, Opening, AtRest
    <3> QED
      BY <3>2, <3>3
  <2> QED
    BY <1>w, <2>l, <2>1, <2>2, <2>3, <2>4, <2>5, <2>6, <2>7 DEF Here, ConnInv
<1>4. ASSUME Head(out[c]) # "end", tr[c].connect # "waiting", tr[c].close = "waiting", reader' = reader,
            tr' = [tr EXCEPT ![c].close = Head(out[c])]
     PROVE  Local(c, k) /\ Here(c, k)'
  <2>f. /\ thread' = thread
        /\ tr'[c].connect = tr[c].connect /\ tr'[c].close = Head(out[c])
           /\ tr'[c].established = tr[c].established /\ tr'[c].reported = tr[c].reported
           /\ tr'[c].confirmed = tr[c].confirmed
        /\ entry'[c] = entry[c]
        /\ chan'[c] = chan[c]
        /\ run'[c] = run[c]
        /\ out'[c] = Tail(out[c])
        /\ reader'[c] = reader[c]
        /\ (c \in ids') = (c \in ids)
        /\ (c \in spoiled) => (c \in spoiled')
        /\ tr[c].close = "waiting" /\ tr[c].connect # "waiting" /\ Head(out[c]) # "end"
           /\ Head(out[c]) # "none"
    BY <1>4, <1>u, <1>c, <1>r, <1>e
      DEF Conn, Words, Replies, ChannelTypeOK, Works, Transports, Entries, Ends
  <2>l. Local(c, k)
    BY <1>4, <1>u, <1>c, <1>r, <1>w, <1>e, <2>f DEF Local, Conn, Words, Replies, ChannelTypeOK
  <2>t. /\ \A j \in Threads : Conn(j)' = Conn(j) /\ thread'[j] = thread[j]
        /\ With(c, {"register", "superseded", "settle"})' = With(c, {"register", "superseded", "settle"})
        /\ With(c, {"await", "claim"})' = With(c, {"await", "claim"})
        /\ With(c, {"check"})' = With(c, {"check"})
        /\ With(c, Opening \cup Terminating)' = With(c, Opening \cup Terminating)
        /\ With(c, {"claim", "settle"})' = With(c, {"claim", "settle"})
        /\ With(c, {"stop"})' = With(c, {"stop"})
        /\ StopperAt(c)' = StopperAt(c)
    BY <2>f DEF With, StopperAt, Conn, Opening, Terminating
  <2>1. FreshAt(c)'
    BY <1>w, <2>f, <2>t DEF FreshAt
  <2>2. AnswersAt(c)'
    BY <1>w, <2>f, <2>t, <1>r DEF ConnInv, AnswersAt
  <2>3. CleanerAt(c)'
    BY <1>w, <2>f, <2>t DEF ConnInv, CleanerAt, Exiting, Conn
  <2>4. OwnedAt(c)'
    BY <1>w, <2>f, <2>t DEF ConnInv, OwnedAt
  <2>5. ReportedAt(c)'
    BY <1>w, <2>f, <2>t DEF ConnInv, ReportedAt, Exiting
  <2>6. StoppingAt(c)'
    BY <1>w, <2>f, <2>t DEF ConnInv, StoppingAt, Exiting
  <2>7. ASSUME NEW j \in Threads, j = k \/ Conn(j)' = c
       PROVE  ThreadAt(j)' /\ OpenerAt(j)'
    <3>1. ThreadAt(j) /\ OpenerAt(j) /\ thread'[j] = thread[j] /\ Conn(j)' = Conn(j)
      BY <1>i, <2>t DEF ConnectionsInv
    <3>2. CASE Conn(j) = c
      <4>1. ThreadAt(j)'
        BY <1>w, <2>f, <2>t, <3>1, <3>2 DEF ConnInv, ThreadAt, AnswersAt, Established
      <4>2. OpenerAt(j)'
        BY <1>w, <2>f, <2>t, <3>1, <3>2, <1>e
          DEF ConnInv, OpenerAt, CleanerAt, Exiting, Opening, Threads
      <4> QED
        BY <4>1, <4>2
    <3>3. CASE Conn(j) # c
      <4>1. thread[j].pc = "idle" /\ thread[j].back = "idle"
        BY <2>7, <3>1, <3>3, <1>w, ChannelAssumption DEF ThreadAt, AtRest
      <4> QED
        BY <4>1, <3>1 DEF ThreadAt, OpenerAt, Established, Opening, AtRest
    <3> QED
      BY <3>2, <3>3
  <2> QED
    BY <1>w, <2>l, <2>1, <2>2, <2>3, <2>4, <2>5, <2>6, <2>7 DEF Here, ConnInv
<1>5. ASSUME Head(out[c]) # "end", tr[c].connect # "waiting", reader' = reader, tr' = tr
     PROVE  Local(c, k) /\ Here(c, k)'
  <2>f. /\ thread' = thread
        /\ tr'[c] = tr[c]
        /\ entry'[c] = entry[c]
        /\ chan'[c] = chan[c]
        /\ run'[c] = run[c]
        /\ out'[c] = Tail(out[c])
        /\ reader'[c] = reader[c]
        /\ (c \in ids') = (c \in ids)
        /\ (c \in spoiled) => (c \in spoiled')
        /\ tr[c].connect # "waiting" /\ Head(out[c]) # "end"
    BY <1>5, <1>u, <1>c, <1>r, <1>e DEF Conn, ChannelTypeOK, Works, Transports, Entries, Ends
  <2>l. Local(c, k)
    BY <1>5, <1>u, <1>c, <1>r, <1>w, <1>e, <2>f DEF Local, Conn, ChannelTypeOK
  <2>t. /\ \A j \in Threads : Conn(j)' = Conn(j) /\ thread'[j] = thread[j]
        /\ With(c, {"register", "superseded", "settle"})' = With(c, {"register", "superseded", "settle"})
        /\ With(c, {"await", "claim"})' = With(c, {"await", "claim"})
        /\ With(c, {"check"})' = With(c, {"check"})
        /\ With(c, Opening \cup Terminating)' = With(c, Opening \cup Terminating)
        /\ With(c, {"claim", "settle"})' = With(c, {"claim", "settle"})
        /\ With(c, {"stop"})' = With(c, {"stop"})
        /\ StopperAt(c)' = StopperAt(c)
    BY <2>f DEF With, StopperAt, Conn, Opening, Terminating
  <2>1. FreshAt(c)'
    BY <1>w, <2>f, <2>t DEF FreshAt
  <2>2. AnswersAt(c)'
    BY <1>w, <2>f, <2>t, <1>r DEF ConnInv, AnswersAt
  <2>3. CleanerAt(c)'
    BY <1>w, <2>f, <2>t DEF ConnInv, CleanerAt, Exiting, Conn
  <2>4. OwnedAt(c)'
    BY <1>w, <2>f, <2>t DEF ConnInv, OwnedAt
  <2>5. ReportedAt(c)'
    BY <1>w, <2>f, <2>t DEF ConnInv, ReportedAt, Exiting
  <2>6. StoppingAt(c)'
    BY <1>w, <2>f, <2>t DEF ConnInv, StoppingAt, Exiting
  <2>7. ASSUME NEW j \in Threads, j = k \/ Conn(j)' = c
       PROVE  ThreadAt(j)' /\ OpenerAt(j)'
    <3>1. ThreadAt(j) /\ OpenerAt(j) /\ thread'[j] = thread[j] /\ Conn(j)' = Conn(j)
      BY <1>i, <2>t DEF ConnectionsInv
    <3>2. CASE Conn(j) = c
      <4>1. ThreadAt(j)'
        BY <1>w, <2>f, <2>t, <3>1, <3>2 DEF ConnInv, ThreadAt, AnswersAt, Established
      <4>2. OpenerAt(j)'
        BY <1>w, <2>f, <2>t, <3>1, <3>2, <1>e
          DEF ConnInv, OpenerAt, CleanerAt, Exiting, Opening, Threads
      <4> QED
        BY <4>1, <4>2
    <3>3. CASE Conn(j) # c
      <4>1. thread[j].pc = "idle" /\ thread[j].back = "idle"
        BY <2>7, <3>1, <3>3, <1>w, ChannelAssumption DEF ThreadAt, AtRest
      <4> QED
        BY <4>1, <3>1 DEF ThreadAt, OpenerAt, Established, Opening, AtRest
    <3> QED
      BY <3>2, <3>3
  <2> QED
    BY <1>w, <2>l, <2>1, <2>2, <2>3, <2>4, <2>5, <2>6, <2>7 DEF Here, ConnInv
<1> QED
  BY <1>c, <1>1, <1>2, <1>3, <1>4, <1>5, <1>u, <1>c, <1>r, <1>e DEF Report, Reply, ChannelTypeOK

LEMMA AbandonHere ==
    ASSUME ConnectionsInv, NEW c \in Conns, Abandon(c)
    PROVE  Local(c, Cleaner(c)) /\ Here(c, Cleaner(c))'
<1>c. PICK k : k = Cleaner(c)
  OBVIOUS
<1>i. ConnectionsInv
  OBVIOUS
<1>e. ChannelTypeOK /\ c \in Conns /\ k \in Threads
  BY <1>c, CleanersDiffer DEF ConnectionsInv
<1>u. /\ UNCHANGED <<ids, chan, run, entry, spoiled, thread>> /\ out' = out
      /\ reader[c] = "reading" /\ out[c] = <<>> /\ ~entry[c].alive
  BY DEF Abandon, registry, peer, rest
<1>x. /\ ConnInv(c) /\ ThreadAt(k) /\ OpenerAt(k)
  BY <1>e DEF ConnectionsInv
<1>w. /\ c \in Conns /\ c # None /\ reader[c] # "none" /\ k = Cleaner(c) /\ k \notin Callers
      /\ k \in Callers \cup {Stopper, Cleaner(c)} /\ Conn(k) \in {c, None}
      /\ ConnInv(c) /\ ThreadAt(k) /\ OpenerAt(k)
  BY <1>c, <1>e, <1>u, <1>x, CleanersDiffer, ChannelAssumption
    DEF ConnInv, CleanerAt, FreshAt, NoEntry
<1>1. ASSUME reader' = reader,
            tr' = [tr EXCEPT ![c].connect = IF @ = "waiting" THEN "gone" ELSE @,
                             ![c].close = IF @ = "waiting" THEN "gone" ELSE @]
     PROVE  Local(c, k) /\ Here(c, k)'
  <2>f. /\ thread' = thread
        /\ tr'[c].connect = (IF tr[c].connect = "waiting" THEN "gone" ELSE tr[c].connect)
           /\ tr'[c].close = (IF tr[c].close = "waiting" THEN "gone" ELSE tr[c].close)
           /\ tr'[c].established = tr[c].established /\ tr'[c].reported = tr[c].reported
           /\ tr'[c].confirmed = tr[c].confirmed
        /\ entry'[c] = entry[c]
        /\ chan'[c] = chan[c]
        /\ run'[c] = run[c]
        /\ out'[c] = out[c]
        /\ reader'[c] = reader[c]
        /\ (c \in ids') = (c \in ids)
        /\ (c \in spoiled) => (c \in spoiled')
        /\ entry[c].alive = FALSE
        /\ reader[c] = "reading"
    BY <1>1, <1>u, <1>c, <1>e DEF Conn, Replies, ChannelTypeOK, Works, Transports, Entries, Ends
  <2>l. Local(c, k)
    BY <1>1, <1>u, <1>c, <1>w, <1>e, <2>f DEF Local, Conn, Replies, ChannelTypeOK
  <2>t. /\ \A j \in Threads : Conn(j)' = Conn(j) /\ thread'[j] = thread[j]
        /\ With(c, {"register", "superseded", "settle"})' = With(c, {"register", "superseded", "settle"})
        /\ With(c, {"await", "claim"})' = With(c, {"await", "claim"})
        /\ With(c, {"check"})' = With(c, {"check"})
        /\ With(c, Opening \cup Terminating)' = With(c, Opening \cup Terminating)
        /\ With(c, {"claim", "settle"})' = With(c, {"claim", "settle"})
        /\ With(c, {"stop"})' = With(c, {"stop"})
        /\ StopperAt(c)' = StopperAt(c)
    BY <2>f DEF With, StopperAt, Conn, Opening, Terminating
  <2>1. FreshAt(c)'
    BY <1>w, <2>f, <2>t DEF FreshAt
  <2>2. AnswersAt(c)'
    BY <1>w, <2>f, <2>t, <1>u, NothingWritten DEF ConnInv, AnswersAt
  <2>3. CleanerAt(c)'
    BY <1>w, <2>f, <2>t DEF ConnInv, CleanerAt, Exiting, Conn
  <2>4. OwnedAt(c)'
    BY <1>w, <2>f, <2>t DEF ConnInv, OwnedAt
  <2>5. ReportedAt(c)'
    BY <1>w, <2>f, <2>t DEF ConnInv, ReportedAt, Exiting
  <2>6. StoppingAt(c)'
    BY <1>w, <2>f, <2>t DEF ConnInv, StoppingAt, Exiting
  <2>7. ASSUME NEW j \in Threads, j = k \/ Conn(j)' = c
       PROVE  ThreadAt(j)' /\ OpenerAt(j)'
    <3>1. ThreadAt(j) /\ OpenerAt(j) /\ thread'[j] = thread[j] /\ Conn(j)' = Conn(j)
      BY <1>i, <2>t DEF ConnectionsInv
    <3>2. CASE Conn(j) = c
      <4>1. ThreadAt(j)'
        BY <1>w, <2>f, <2>t, <3>1, <3>2 DEF ConnInv, ThreadAt, AnswersAt, Established
      <4>2. OpenerAt(j)'
        BY <1>w, <2>f, <2>t, <3>1, <3>2, <1>e
          DEF ConnInv, OpenerAt, CleanerAt, Exiting, Opening, Threads
      <4> QED
        BY <4>1, <4>2
    <3>3. CASE Conn(j) # c
      <4>1. thread[j].pc = "idle" /\ thread[j].back = "idle"
        BY <2>7, <3>1, <3>3, <1>w, ChannelAssumption DEF ThreadAt, AtRest
      <4> QED
        BY <4>1, <3>1 DEF ThreadAt, OpenerAt, Established, Opening, AtRest
    <3> QED
      BY <3>2, <3>3
  <2> QED
    BY <1>w, <2>l, <2>1, <2>2, <2>3, <2>4, <2>5, <2>6, <2>7 DEF Here, ConnInv
<1>2. ASSUME tr[c].reported, reader' = [reader EXCEPT ![c] = "done"], tr' = tr
     PROVE  Local(c, k) /\ Here(c, k)'
  <2>f. /\ thread' = thread
        /\ tr'[c] = tr[c]
        /\ entry'[c] = entry[c]
        /\ chan'[c] = chan[c]
        /\ run'[c] = run[c]
        /\ out'[c] = out[c]
        /\ reader'[c] = "done"
        /\ (c \in ids') = (c \in ids)
        /\ (c \in spoiled) => (c \in spoiled')
        /\ tr[c].reported = TRUE /\ entry[c].alive = FALSE
        /\ reader[c] = "reading"
    BY <1>2, <1>u, <1>c, <1>e DEF Conn, ChannelTypeOK, Works, Transports, Entries, Ends
  <2>l. Local(c, k)
    BY <1>2, <1>u, <1>c, <1>w, <1>e, <2>f DEF Local, Conn, ChannelTypeOK
  <2>t. /\ \A j \in Threads : Conn(j)' = Conn(j) /\ thread'[j] = thread[j]
        /\ With(c, {"register", "superseded", "settle"})' = With(c, {"register", "superseded", "settle"})
        /\ With(c, {"await", "claim"})' = With(c, {"await", "claim"})
        /\ With(c, {"check"})' = With(c, {"check"})
        /\ With(c, Opening \cup Terminating)' = With(c, Opening \cup Terminating)
        /\ With(c, {"claim", "settle"})' = With(c, {"claim", "settle"})
        /\ With(c, {"stop"})' = With(c, {"stop"})
        /\ StopperAt(c)' = StopperAt(c)
    BY <2>f DEF With, StopperAt, Conn, Opening, Terminating
  <2>1. FreshAt(c)'
    BY <1>w, <2>f, <2>t DEF FreshAt
  <2>2. AnswersAt(c)'
    BY <1>w, <2>f, <2>t DEF ConnInv, AnswersAt
  <2>3. CleanerAt(c)'
    BY <1>w, <2>f, <2>t DEF ConnInv, CleanerAt, Exiting, Conn
  <2>4. OwnedAt(c)'
    BY <1>w, <2>f, <2>t DEF ConnInv, OwnedAt
  <2>5. ReportedAt(c)'
    BY <1>w, <2>f, <2>t DEF ConnInv, ReportedAt, Exiting
  <2>6. StoppingAt(c)'
    BY <1>w, <2>f, <2>t DEF ConnInv, StoppingAt, Exiting
  <2>7. ASSUME NEW j \in Threads, j = k \/ Conn(j)' = c
       PROVE  ThreadAt(j)' /\ OpenerAt(j)'
    <3>1. ThreadAt(j) /\ OpenerAt(j) /\ thread'[j] = thread[j] /\ Conn(j)' = Conn(j)
      BY <1>i, <2>t DEF ConnectionsInv
    <3>2. CASE Conn(j) = c
      <4>1. ThreadAt(j)'
        BY <1>w, <2>f, <2>t, <3>1, <3>2 DEF ConnInv, ThreadAt, AnswersAt, Established
      <4>2. OpenerAt(j)'
        BY <1>w, <2>f, <2>t, <3>1, <3>2, <1>e
          DEF ConnInv, OpenerAt, CleanerAt, Exiting, Opening, Threads
      <4> QED
        BY <4>1, <4>2
    <3>3. CASE Conn(j) # c
      <4>1. thread[j].pc = "idle" /\ thread[j].back = "idle"
        BY <2>7, <3>1, <3>3, <1>w, ChannelAssumption DEF ThreadAt, AtRest
      <4> QED
        BY <4>1, <3>1 DEF ThreadAt, OpenerAt, Established, Opening, AtRest
    <3> QED
      BY <3>2, <3>3
  <2> QED
    BY <1>w, <2>l, <2>1, <2>2, <2>3, <2>4, <2>5, <2>6, <2>7 DEF Here, ConnInv
<1>3. ASSUME ~tr[c].reported, reader' = [reader EXCEPT ![c] = "exit"],
            tr' = [tr EXCEPT ![c].reported = TRUE]
     PROVE  Local(c, k) /\ Here(c, k)'
  <2>f. /\ thread' = thread
        /\ tr'[c].connect = tr[c].connect /\ tr'[c].close = tr[c].close
           /\ tr'[c].established = tr[c].established /\ tr'[c].reported = TRUE
           /\ tr'[c].confirmed = tr[c].confirmed
        /\ entry'[c] = entry[c]
        /\ chan'[c] = chan[c]
        /\ run'[c] = run[c]
        /\ out'[c] = out[c]
        /\ reader'[c] = "exit"
        /\ (c \in ids') = (c \in ids)
        /\ (c \in spoiled) => (c \in spoiled')
        /\ tr[c].reported = FALSE /\ entry[c].alive = FALSE
        /\ reader[c] = "reading"
    BY <1>3, <1>u, <1>c, <1>e DEF Conn, ChannelTypeOK, Works, Transports, Entries, Ends
  <2>l. Local(c, k)
    BY <1>3, <1>u, <1>c, <1>w, <1>e, <2>f DEF Local, Conn, ChannelTypeOK
  <2>t. /\ \A j \in Threads : Conn(j)' = Conn(j) /\ thread'[j] = thread[j]
        /\ With(c, {"register", "superseded", "settle"})' = With(c, {"register", "superseded", "settle"})
        /\ With(c, {"await", "claim"})' = With(c, {"await", "claim"})
        /\ With(c, {"check"})' = With(c, {"check"})
        /\ With(c, Opening \cup Terminating)' = With(c, Opening \cup Terminating)
        /\ With(c, {"claim", "settle"})' = With(c, {"claim", "settle"})
        /\ With(c, {"stop"})' = With(c, {"stop"})
        /\ StopperAt(c)' = StopperAt(c)
    BY <2>f DEF With, StopperAt, Conn, Opening, Terminating
  <2>1. FreshAt(c)'
    BY <1>w, <2>f, <2>t DEF FreshAt
  <2>2. AnswersAt(c)'
    BY <1>w, <2>f, <2>t DEF ConnInv, AnswersAt
  <2>3. CleanerAt(c)'
    BY <1>w, <2>f, <2>t DEF ConnInv, CleanerAt, Exiting, Conn
  <2>4. OwnedAt(c)'
    BY <1>w, <2>f, <2>t DEF ConnInv, OwnedAt
  <2>5. ReportedAt(c)'
    BY <1>w, <2>f, <2>t DEF ConnInv, ReportedAt, Exiting
  <2>6. StoppingAt(c)'
    BY <1>w, <2>f, <2>t DEF ConnInv, StoppingAt, Exiting
  <2>7. ASSUME NEW j \in Threads, j = k \/ Conn(j)' = c
       PROVE  ThreadAt(j)' /\ OpenerAt(j)'
    <3>1. ThreadAt(j) /\ OpenerAt(j) /\ thread'[j] = thread[j] /\ Conn(j)' = Conn(j)
      BY <1>i, <2>t DEF ConnectionsInv
    <3>2. CASE Conn(j) = c
      <4>1. ThreadAt(j)'
        BY <1>w, <2>f, <2>t, <3>1, <3>2 DEF ConnInv, ThreadAt, AnswersAt, Established
      <4>2. OpenerAt(j)'
        BY <1>w, <2>f, <2>t, <3>1, <3>2, <1>e
          DEF ConnInv, OpenerAt, CleanerAt, Exiting, Opening, Threads
      <4> QED
        BY <4>1, <4>2
    <3>3. CASE Conn(j) # c
      <4>1. thread[j].pc = "idle" /\ thread[j].back = "idle"
        BY <2>7, <3>1, <3>3, <1>w, ChannelAssumption DEF ThreadAt, AtRest
      <4> QED
        BY <4>1, <3>1 DEF ThreadAt, OpenerAt, Established, Opening, AtRest
    <3> QED
      BY <3>2, <3>3
  <2> QED
    BY <1>w, <2>l, <2>1, <2>2, <2>3, <2>4, <2>5, <2>6, <2>7 DEF Here, ConnInv
<1> QED
  BY <1>c, <1>1, <1>2, <1>3, <1>u, <1>c DEF Abandon, Report

LEMMA NoteExitHere ==
    ASSUME ConnectionsInv, NEW c \in Conns, NoteExit(c)
    PROVE  Local(c, Cleaner(c)) /\ Here(c, Cleaner(c))'
<1>c. PICK k : k = Cleaner(c)
  OBVIOUS
<1>i. ConnectionsInv
  OBVIOUS
<1>e. ChannelTypeOK /\ c \in Conns /\ k \in Threads
  BY <1>c, CleanersDiffer DEF ConnectionsInv
<1>u. UNCHANGED <<ids, run, tr, entry, out, spoiled, thread>>
      /\ reader[c] = "exit" /\ chan' = [chan EXCEPT ![c].exit = TRUE]
      /\ reader' = [reader EXCEPT ![c] = "claim"]
  BY DEF NoteExit, registry, peer, rest
<1>x. /\ ConnInv(c) /\ ThreadAt(k) /\ OpenerAt(k)
  BY <1>e DEF ConnectionsInv
<1>w. /\ c \in Conns /\ c # None /\ reader[c] # "none" /\ k = Cleaner(c) /\ k \notin Callers
      /\ k \in Callers \cup {Stopper, Cleaner(c)} /\ Conn(k) \in {c, None}
      /\ ConnInv(c) /\ ThreadAt(k) /\ OpenerAt(k)
  BY <1>c, <1>e, <1>u, <1>x, CleanersDiffer, ChannelAssumption
    DEF ConnInv, CleanerAt, FreshAt, NoEntry
<1>f. /\ thread' = thread
      /\ tr'[c] = tr[c]
      /\ entry'[c] = entry[c]
      /\ chan'[c].exit = TRUE /\ chan'[c].ended = chan[c].ended
      /\ run'[c] = run[c]
      /\ out'[c] = out[c]
      /\ reader'[c] = "claim"
      /\ (c \in ids') = (c \in ids)
      /\ (c \in spoiled) => (c \in spoiled')
      /\ reader[c] = "exit"
  BY <1>u, <1>c, <1>e DEF Conn, ChannelTypeOK, Works, Transports, Entries, Ends
<1>l. Local(c, k)
  BY <1>u, <1>c, <1>w, <1>e, <1>f DEF Local, Conn, ChannelTypeOK
<1>row. /\ \A j \in Threads : Conn(j)' = Conn(j) /\ thread'[j] = thread[j]
      /\ With(c, {"register", "superseded", "settle"})' = With(c, {"register", "superseded", "settle"})
      /\ With(c, {"await", "claim"})' = With(c, {"await", "claim"})
      /\ With(c, {"check"})' = With(c, {"check"})
      /\ With(c, Opening \cup Terminating)' = With(c, Opening \cup Terminating)
      /\ With(c, {"claim", "settle"})' = With(c, {"claim", "settle"})
      /\ With(c, {"stop"})' = With(c, {"stop"})
      /\ StopperAt(c)' = StopperAt(c)
  BY <1>f DEF With, StopperAt, Conn, Opening, Terminating
<1>1. FreshAt(c)'
  BY <1>w, <1>f, <1>row DEF FreshAt
<1>2. AnswersAt(c)'
  BY <1>w, <1>f, <1>row DEF ConnInv, AnswersAt
<1>3. CleanerAt(c)'
  BY <1>w, <1>f, <1>row DEF ConnInv, CleanerAt, Exiting, Conn
<1>4. OwnedAt(c)'
  BY <1>w, <1>f, <1>row DEF ConnInv, OwnedAt
<1>5. ReportedAt(c)'
  BY <1>w, <1>f, <1>row DEF ConnInv, ReportedAt, Exiting
<1>6. StoppingAt(c)'
  BY <1>w, <1>f, <1>row DEF ConnInv, StoppingAt, Exiting
<1>7. ASSUME NEW j \in Threads, j = k \/ Conn(j)' = c
     PROVE  ThreadAt(j)' /\ OpenerAt(j)'
  <2>1. ThreadAt(j) /\ OpenerAt(j) /\ thread'[j] = thread[j] /\ Conn(j)' = Conn(j)
    BY <1>i, <1>row DEF ConnectionsInv
  <2>2. CASE Conn(j) = c
    <3>1. ThreadAt(j)'
      BY <1>w, <1>f, <1>row, <2>1, <2>2 DEF ConnInv, ThreadAt, AnswersAt, Established
    <3>2. OpenerAt(j)'
      BY <1>w, <1>f, <1>row, <2>1, <2>2, <1>e
        DEF ConnInv, OpenerAt, CleanerAt, Exiting, Opening, Threads
    <3> QED
      BY <3>1, <3>2
  <2>3. CASE Conn(j) # c
    <3>1. thread[j].pc = "idle" /\ thread[j].back = "idle"
      BY <1>7, <2>1, <2>3, <1>w, ChannelAssumption DEF ThreadAt, AtRest
    <3> QED
      BY <3>1, <2>1 DEF ThreadAt, OpenerAt, Established, Opening, AtRest
  <2> QED
    BY <2>2, <2>3
<1>9. Local(c, k) /\ Here(c, k)'
  BY <1>w, <1>l, <1>1, <1>2, <1>3, <1>4, <1>5, <1>6, <1>7 DEF Here, ConnInv
<1> QED
  BY <1>9, <1>c

LEMMA ClaimExitHere ==
    ASSUME ConnectionsInv, NEW c \in Conns, ClaimExit(c)
    PROVE  Local(c, Cleaner(c)) /\ Here(c, Cleaner(c))'
<1>c. PICK k : k = Cleaner(c)
  OBVIOUS
<1>i. ConnectionsInv
  OBVIOUS
<1>e. ChannelTypeOK /\ c \in Conns /\ k \in Threads
  BY <1>c, CleanersDiffer DEF ConnectionsInv
<1>u. UNCHANGED <<run, tr, entry, out, spoiled>> /\ reader[c] = "claim" /\ ids' = ids \ {c}
  BY DEF ClaimExit, registry, peer, rest, Unregister
<1>x. /\ ConnInv(c) /\ ThreadAt(k) /\ OpenerAt(k)
  BY <1>e DEF ConnectionsInv
<1>w. /\ c \in Conns /\ c # None /\ reader[c] # "none" /\ k = Cleaner(c) /\ k \notin Callers
      /\ k \in Callers \cup {Stopper, Cleaner(c)} /\ Conn(k) \in {c, None}
      /\ ConnInv(c) /\ ThreadAt(k) /\ OpenerAt(k)
  BY <1>c, <1>e, <1>u, <1>x, CleanersDiffer, ChannelAssumption
    DEF ConnInv, CleanerAt, FreshAt, NoEntry
<1>q. /\ thread[k].pc = "idle" /\ Conn(k) = None /\ tr[c].reported = TRUE
  BY <1>w, <1>u, <1>e
    DEF ConnInv, CleanerAt, ThreadAt, Exiting, AtRest, Conn, ChannelTypeOK, Transports
<1>1. ASSUME c \in ids, reader' = [reader EXCEPT ![c] = "settle"], UNCHANGED <<chan, thread>>
     PROVE  Local(c, k) /\ Here(c, k)'
  <2>f. /\ thread' = thread
        /\ tr'[c] = tr[c]
        /\ entry'[c] = entry[c]
        /\ chan'[c] = chan[c]
        /\ run'[c] = run[c]
        /\ out'[c] = out[c]
        /\ reader'[c] = "settle"
        /\ c \in ids /\ c \notin ids'
        /\ (c \in spoiled) => (c \in spoiled')
        /\ reader[c] = "claim" /\ tr[c].reported = TRUE
    BY <1>1, <1>u, <1>c, <1>q, <1>e
      DEF Conn, Unregister, ChannelTypeOK, Works, Transports, Entries, Ends
  <2>l. Local(c, k)
    BY <1>1, <1>u, <1>c, <1>q, <1>w, <1>e, <2>f DEF Local, Conn, Unregister, ChannelTypeOK
  <2>t. /\ \A j \in Threads : Conn(j)' = Conn(j) /\ thread'[j] = thread[j]
        /\ With(c, {"register", "superseded", "settle"})' = With(c, {"register", "superseded", "settle"})
        /\ With(c, {"await", "claim"})' = With(c, {"await", "claim"})
        /\ With(c, {"check"})' = With(c, {"check"})
        /\ With(c, Opening \cup Terminating)' = With(c, Opening \cup Terminating)
        /\ With(c, {"claim", "settle"})' = With(c, {"claim", "settle"})
        /\ With(c, {"stop"})' = With(c, {"stop"})
        /\ StopperAt(c)' = StopperAt(c)
    BY <2>f DEF With, StopperAt, Conn, Opening, Terminating
  <2>1. FreshAt(c)'
    BY <1>w, <2>f, <2>t DEF FreshAt
  <2>2. AnswersAt(c)'
    BY <1>w, <2>f, <2>t DEF ConnInv, AnswersAt
  <2>3. CleanerAt(c)'
    BY <1>w, <2>f, <2>t DEF ConnInv, CleanerAt, Exiting, Conn
  <2>4. OwnedAt(c)'
    BY <1>w, <2>f, <2>t DEF ConnInv, OwnedAt
  <2>5. ReportedAt(c)'
    BY <1>w, <2>f, <2>t DEF ConnInv, ReportedAt, Exiting
  <2>6. StoppingAt(c)'
    BY <1>w, <2>f, <2>t DEF ConnInv, StoppingAt, Exiting
  <2>7. ASSUME NEW j \in Threads, j = k \/ Conn(j)' = c
       PROVE  ThreadAt(j)' /\ OpenerAt(j)'
    <3>1. ThreadAt(j) /\ OpenerAt(j) /\ thread'[j] = thread[j] /\ Conn(j)' = Conn(j)
      BY <1>i, <2>t DEF ConnectionsInv
    <3>2. CASE Conn(j) = c
      <4>1. ThreadAt(j)'
        BY <1>w, <2>f, <2>t, <3>1, <3>2 DEF ConnInv, ThreadAt, AnswersAt, Established
      <4>2. OpenerAt(j)'
        BY <1>w, <2>f, <2>t, <3>1, <3>2, <1>e
          DEF ConnInv, OpenerAt, CleanerAt, Exiting, Opening, Threads
      <4> QED
        BY <4>1, <4>2
    <3>3. CASE Conn(j) # c
      <4>1. thread[j].pc = "idle" /\ thread[j].back = "idle"
        BY <2>7, <3>1, <3>3, <1>w, ChannelAssumption DEF ThreadAt, AtRest
      <4> QED
        BY <4>1, <3>1 DEF ThreadAt, OpenerAt, Established, Opening, AtRest
    <3> QED
      BY <3>2, <3>3
  <2> QED
    BY <1>w, <2>l, <2>1, <2>2, <2>3, <2>4, <2>5, <2>6, <2>7 DEF Here, ConnInv
<1>2. ASSUME c \notin ids, chan' = [chan EXCEPT ![c].ended = TRUE],
            reader' = [reader EXCEPT ![c] = "reading"],
            thread' = [thread EXCEPT ![Cleaner(c)] = [pc |-> "lock", conn |-> c, back |-> "idle"]]
     PROVE  Local(c, k) /\ Here(c, k)'
  <2>f. /\ thread'[k].pc = "lock" /\ thread'[k].conn = c /\ thread'[k].back = "idle"
        /\ tr'[c] = tr[c]
        /\ entry'[c] = entry[c]
        /\ chan'[c].exit = chan[c].exit /\ chan'[c].ended = TRUE
        /\ run'[c] = run[c]
        /\ out'[c] = out[c]
        /\ reader'[c] = "reading"
        /\ c \notin ids /\ c \notin ids'
        /\ (c \in spoiled) => (c \in spoiled')
        /\ reader[c] = "claim" /\ tr[c].reported = TRUE
    BY <1>2, <1>u, <1>c, <1>q, <1>e
      DEF Conn, Unregister, ChannelTypeOK, Works, Transports, Entries, Ends
  <2>l. Local(c, k)
    BY <1>2, <1>u, <1>c, <1>q, <1>w, <1>e, <2>f
      DEF Local, Conn, Unregister, ChannelTypeOK, AtRest
  <2>j. \A j \in Threads \ {k} : thread'[j] = thread[j]
    BY <2>l DEF Local
  <2>s. Stopper \in Threads /\ Cleaner(c) \in Threads
    BY <1>w, CleanersDiffer DEF Threads
  <2>k. /\ With(c, {"register", "superseded", "settle"}) => With(c, {"register", "superseded", "settle"})'
        /\ With(c, {"claim", "settle"})' => With(c, {"claim", "settle"})
        /\ With(c, {"stop"}) => With(c, {"stop"})'
        /\ With(c, {"await", "claim"}) => With(c, {"await", "claim"})'
        /\ With(c, Opening \cup Terminating)'
    BY <1>q, <1>e, <2>f, <2>j DEF With, Conn, Opening, Terminating
  <2>4. OwnedAt(c)'
    BY <1>w, <2>f, <2>j, <2>k DEF ConnInv, OwnedAt
  <2>6. StoppingAt(c)'
    BY <1>w, <2>f, <2>j, <2>k DEF ConnInv, StoppingAt
  <2>1. FreshAt(c)'
    BY <1>w, <2>f, <2>j, <2>k DEF FreshAt
  <2>2. AnswersAt(c)'
    BY <1>w, <2>f, <2>j, <2>k DEF ConnInv, AnswersAt
  <2>3. CleanerAt(c)'
    BY <1>w, <2>f, <2>j, <2>k, <2>s, CleanersDiffer
      DEF ConnInv, CleanerAt, ThreadAt, Exiting, Conn, AtRest, Opening, Terminating,
          Established
  <2>5. ReportedAt(c)'
    BY <1>w, <2>f, <2>j, <2>k
      DEF ConnInv, ReportedAt, StopperAt, ThreadAt, OpenerAt, With, Exiting, Conn, AtRest,
          Opening, Terminating, Established
  <2>7. ThreadAt(k)' /\ OpenerAt(k)'
    BY <1>w, <2>f, <2>j, <2>k, CleanersDiffer
      DEF ConnInv, ThreadAt, OpenerAt, AnswersAt, CleanerAt, Conn, AtRest, Threads, Opening,
          Terminating, Established
  <2>8. ASSUME NEW j \in Threads \ {k}, Conn(j)' = c
       PROVE  ThreadAt(j)' /\ OpenerAt(j)'
    <3>1. thread'[j] = thread[j] /\ Conn(j) = c /\ ThreadAt(j) /\ OpenerAt(j)
      BY <1>i, <2>j, <2>8 DEF Conn, ConnectionsInv
    <3>2. ThreadAt(j)'
      BY <3>1, <1>w, <2>f, <2>j, <2>k
        DEF ConnInv, ThreadAt, AnswersAt, Conn, Opening, Terminating, Established
    <3>3. OpenerAt(j)'
      BY <3>1, <1>w, <2>f, <2>j, <2>k, CleanersDiffer
        DEF ConnInv, ThreadAt, OpenerAt, CleanerAt, Conn, AtRest, Threads, Exiting, Opening,
            Terminating, Established
    <3> QED
      BY <3>2, <3>3
  <2> QED
    BY <1>w, <2>l, <2>1, <2>2, <2>3, <2>4, <2>5, <2>6, <2>7, <2>8 DEF Here, ConnInv
<1> QED
  BY <1>c, <1>1, <1>2, <1>u, <1>c, <1>q DEF ClaimExit, Registered, Leave, Finish

LEMMA SettleExitHere ==
    ASSUME ConnectionsInv, NEW c \in Conns, SettleExit(c)
    PROVE  Local(c, Cleaner(c)) /\ Here(c, Cleaner(c))'
<1>c. PICK k : k = Cleaner(c)
  OBVIOUS
<1>i. ConnectionsInv
  OBVIOUS
<1>e. ChannelTypeOK /\ c \in Conns /\ k \in Threads
  BY <1>c, CleanersDiffer DEF ConnectionsInv
<1>u. /\ UNCHANGED <<ids, tr, entry, out, spoiled>> /\ reader[c] = "settle"
      /\ run' = Ended(c, "failed")
      /\ chan' = [chan EXCEPT ![c].ended = TRUE] /\ reader' = [reader EXCEPT ![c] = "reading"]
      /\ thread' = [thread EXCEPT ![Cleaner(c)] = [pc |-> "lock", conn |-> c, back |-> "idle"]]
  BY DEF SettleExit, registry, peer, rest, Leave, Finish
<1>x. /\ ConnInv(c) /\ ThreadAt(k) /\ OpenerAt(k)
  BY <1>e DEF ConnectionsInv
<1>w. /\ c \in Conns /\ c # None /\ reader[c] # "none" /\ k = Cleaner(c) /\ k \notin Callers
      /\ k \in Callers \cup {Stopper, Cleaner(c)} /\ Conn(k) \in {c, None}
      /\ ConnInv(c) /\ ThreadAt(k) /\ OpenerAt(k)
  BY <1>c, <1>e, <1>u, <1>x, CleanersDiffer, ChannelAssumption
    DEF ConnInv, CleanerAt, FreshAt, NoEntry
<1>q. /\ thread[k].pc = "idle" /\ Conn(k) = None /\ tr[c].reported = TRUE
  BY <1>w, <1>u, <1>e
    DEF ConnInv, CleanerAt, ThreadAt, Exiting, AtRest, Conn, ChannelTypeOK, Transports
<1>f. /\ thread'[k].pc = "lock" /\ thread'[k].conn = c /\ thread'[k].back = "idle"
      /\ tr'[c] = tr[c]
      /\ entry'[c] = entry[c]
      /\ chan'[c].exit = chan[c].exit /\ chan'[c].ended = TRUE
      /\ run'[c] = IF run[c] = "active" THEN "failed" ELSE run[c]
      /\ out'[c] = out[c]
      /\ reader'[c] = "reading"
      /\ (c \in ids') = (c \in ids)
      /\ (c \in spoiled) => (c \in spoiled')
      /\ reader[c] = "settle" /\ tr[c].reported = TRUE
  BY <1>u, <1>c, <1>q, <1>e DEF Conn, Ended, ChannelTypeOK, Works, Transports, Entries, Ends
<1>l. Local(c, k)
  BY <1>u, <1>c, <1>q, <1>w, <1>e, <1>f DEF Local, Conn, Ended, ChannelTypeOK, AtRest
<1>j. \A j \in Threads \ {k} : thread'[j] = thread[j]
  BY <1>l DEF Local
<1>s. Stopper \in Threads /\ Cleaner(c) \in Threads
  BY <1>w, CleanersDiffer DEF Threads
<1>k. /\ With(c, {"register", "superseded", "settle"}) => With(c, {"register", "superseded", "settle"})'
      /\ With(c, {"claim", "settle"})' => With(c, {"claim", "settle"})
      /\ With(c, {"stop"}) => With(c, {"stop"})'
      /\ With(c, {"await", "claim"}) => With(c, {"await", "claim"})'
      /\ With(c, Opening \cup Terminating)'
  BY <1>q, <1>e, <1>f, <1>j DEF With, Conn, Opening, Terminating
<1>4. OwnedAt(c)'
  BY <1>w, <1>f, <1>j, <1>k DEF ConnInv, OwnedAt
<1>6. StoppingAt(c)'
  BY <1>w, <1>f, <1>j, <1>k DEF ConnInv, StoppingAt
<1>1. FreshAt(c)'
  BY <1>w, <1>f, <1>j, <1>k DEF FreshAt
<1>2. AnswersAt(c)'
  BY <1>w, <1>f, <1>j, <1>k DEF ConnInv, AnswersAt
<1>3. CleanerAt(c)'
  BY <1>w, <1>f, <1>j, <1>k, <1>s, CleanersDiffer
    DEF ConnInv, CleanerAt, ThreadAt, Exiting, Conn, AtRest, Opening, Terminating, Established
<1>5. ReportedAt(c)'
  BY <1>w, <1>f, <1>j, <1>k
    DEF ConnInv, ReportedAt, StopperAt, ThreadAt, OpenerAt, With, Exiting, Conn, AtRest,
        Opening, Terminating, Established
<1>7. ThreadAt(k)' /\ OpenerAt(k)'
  BY <1>w, <1>f, <1>j, <1>k, CleanersDiffer
    DEF ConnInv, ThreadAt, OpenerAt, AnswersAt, CleanerAt, Conn, AtRest, Threads, Opening,
        Terminating, Established
<1>8. ASSUME NEW j \in Threads \ {k}, Conn(j)' = c
     PROVE  ThreadAt(j)' /\ OpenerAt(j)'
  <2>1. thread'[j] = thread[j] /\ Conn(j) = c /\ ThreadAt(j) /\ OpenerAt(j)
    BY <1>i, <1>j, <1>8 DEF Conn, ConnectionsInv
  <2>2. ThreadAt(j)'
    BY <2>1, <1>w, <1>f, <1>j, <1>k
      DEF ConnInv, ThreadAt, AnswersAt, Conn, Opening, Terminating, Established
  <2>3. OpenerAt(j)'
    BY <2>1, <1>w, <1>f, <1>j, <1>k, CleanersDiffer
      DEF ConnInv, ThreadAt, OpenerAt, CleanerAt, Conn, AtRest, Threads, Exiting, Opening,
          Terminating, Established
  <2> QED
    BY <2>2, <2>3
<1>9. Local(c, k) /\ Here(c, k)'
  BY <1>w, <1>l, <1>1, <1>2, <1>3, <1>4, <1>5, <1>6, <1>7, <1>8 DEF Here, ConnInv
<1> QED
  BY <1>9, <1>c

LEMMA EntryConnectsHere ==
    ASSUME ConnectionsInv, NEW c \in Conns, EntryConnects(c)
    PROVE  Local(c, Cleaner(c)) /\ Here(c, Cleaner(c))'
<1>c. PICK k : k = Cleaner(c)
  OBVIOUS
<1>i. ConnectionsInv
  OBVIOUS
<1>e. ChannelTypeOK /\ c \in Conns /\ k \in Threads
  BY <1>c, CleanersDiffer DEF ConnectionsInv
<1>u. /\ UNCHANGED <<ids, chan, run, tr, reader, spoiled, thread>> /\ entry[c].alive
      /\ entry[c].todo = "connect"
  BY DEF EntryConnects, registry, peer, rest
<1>x. /\ ConnInv(c) /\ ThreadAt(k) /\ OpenerAt(k)
  BY <1>e DEF ConnectionsInv
<1>w. /\ c \in Conns /\ c # None /\ reader[c] # "none" /\ k = Cleaner(c) /\ k \notin Callers
      /\ k \in Callers \cup {Stopper, Cleaner(c)} /\ Conn(k) \in {c, None}
      /\ ConnInv(c) /\ ThreadAt(k) /\ OpenerAt(k)
  BY <1>c, <1>e, <1>u, <1>x, CleanersDiffer, ChannelAssumption
    DEF ConnInv, CleanerAt, FreshAt, NoEntry
<1>r. \A r \in Words : NoReply(out[c]) => OneReply(Append(out[c], r))
  <2>1. out[c] \in Seq(Words)
    BY <1>e DEF ChannelTypeOK, Words
  <2> QED
    BY <2>1, RepliesGrow
<1>1. ASSUME entry' = [entry EXCEPT ![c].todo = "none", ![c].harness = "alive"],
            out' = [out EXCEPT ![c] = Append(@, "ok")]
     PROVE  Local(c, k) /\ Here(c, k)'
  <2>f. /\ thread' = thread
        /\ tr'[c] = tr[c]
        /\ entry'[c].alive = entry[c].alive /\ entry'[c].todo = "none"
           /\ entry'[c].ended = entry[c].ended /\ entry'[c].harness = "alive"
        /\ chan'[c] = chan[c]
        /\ run'[c] = run[c]
        /\ out'[c] = Append(out[c], "ok")
        /\ reader'[c] = reader[c]
        /\ (c \in ids') = (c \in ids)
        /\ (c \in spoiled) => (c \in spoiled')
        /\ entry[c].todo = "connect" /\ entry[c].alive = TRUE
    BY <1>1, <1>u, <1>c, <1>r, <1>e DEF Conn, ChannelTypeOK, Works, Transports, Entries, Ends
  <2>l. Local(c, k)
    BY <1>1, <1>u, <1>c, <1>r, <1>w, <1>e, <2>f DEF Local, Conn, ChannelTypeOK
  <2>t. /\ \A j \in Threads : Conn(j)' = Conn(j) /\ thread'[j] = thread[j]
        /\ With(c, {"register", "superseded", "settle"})' = With(c, {"register", "superseded", "settle"})
        /\ With(c, {"await", "claim"})' = With(c, {"await", "claim"})
        /\ With(c, {"check"})' = With(c, {"check"})
        /\ With(c, Opening \cup Terminating)' = With(c, Opening \cup Terminating)
        /\ With(c, {"claim", "settle"})' = With(c, {"claim", "settle"})
        /\ With(c, {"stop"})' = With(c, {"stop"})
        /\ StopperAt(c)' = StopperAt(c)
    BY <2>f DEF With, StopperAt, Conn, Opening, Terminating
  <2>1. FreshAt(c)'
    BY <1>w, <2>f, <2>t DEF FreshAt
  <2>2. AnswersAt(c)'
    BY <1>w, <2>f, <2>t, <1>r DEF ConnInv, AnswersAt, Words
  <2>3. CleanerAt(c)'
    BY <1>w, <2>f, <2>t DEF ConnInv, CleanerAt, Exiting, Conn
  <2>4. OwnedAt(c)'
    BY <1>w, <2>f, <2>t DEF ConnInv, OwnedAt
  <2>5. ReportedAt(c)'
    BY <1>w, <2>f, <2>t DEF ConnInv, ReportedAt, Exiting
  <2>6. StoppingAt(c)'
    BY <1>w, <2>f, <2>t DEF ConnInv, StoppingAt, Exiting
  <2>7. ASSUME NEW j \in Threads, j = k \/ Conn(j)' = c
       PROVE  ThreadAt(j)' /\ OpenerAt(j)'
    <3>1. ThreadAt(j) /\ OpenerAt(j) /\ thread'[j] = thread[j] /\ Conn(j)' = Conn(j)
      BY <1>i, <2>t DEF ConnectionsInv
    <3>2. CASE Conn(j) = c
      <4>1. ThreadAt(j)'
        BY <1>w, <2>f, <2>t, <3>1, <3>2 DEF ConnInv, ThreadAt, AnswersAt, Established
      <4>2. OpenerAt(j)'
        BY <1>w, <2>f, <2>t, <3>1, <3>2, <1>e
          DEF ConnInv, OpenerAt, CleanerAt, Exiting, Opening, Threads
      <4> QED
        BY <4>1, <4>2
    <3>3. CASE Conn(j) # c
      <4>1. thread[j].pc = "idle" /\ thread[j].back = "idle"
        BY <2>7, <3>1, <3>3, <1>w, ChannelAssumption DEF ThreadAt, AtRest
      <4> QED
        BY <4>1, <3>1 DEF ThreadAt, OpenerAt, Established, Opening, AtRest
    <3> QED
      BY <3>2, <3>3
  <2> QED
    BY <1>w, <2>l, <2>1, <2>2, <2>3, <2>4, <2>5, <2>6, <2>7 DEF Here, ConnInv
<1>2. ASSUME entry' = [entry EXCEPT ![c].todo = "none"], out' = [out EXCEPT ![c] = Append(@, "refused")]
     PROVE  Local(c, k) /\ Here(c, k)'
  <2>f. /\ thread' = thread
        /\ tr'[c] = tr[c]
        /\ entry'[c].alive = entry[c].alive /\ entry'[c].todo = "none"
           /\ entry'[c].ended = entry[c].ended /\ entry'[c].harness = entry[c].harness
        /\ chan'[c] = chan[c]
        /\ run'[c] = run[c]
        /\ out'[c] = Append(out[c], "refused")
        /\ reader'[c] = reader[c]
        /\ (c \in ids') = (c \in ids)
        /\ (c \in spoiled) => (c \in spoiled')
        /\ entry[c].todo = "connect" /\ entry[c].alive = TRUE
    BY <1>2, <1>u, <1>c, <1>r, <1>e DEF Conn, ChannelTypeOK, Works, Transports, Entries, Ends
  <2>l. Local(c, k)
    BY <1>2, <1>u, <1>c, <1>r, <1>w, <1>e, <2>f DEF Local, Conn, ChannelTypeOK
  <2>t. /\ \A j \in Threads : Conn(j)' = Conn(j) /\ thread'[j] = thread[j]
        /\ With(c, {"register", "superseded", "settle"})' = With(c, {"register", "superseded", "settle"})
        /\ With(c, {"await", "claim"})' = With(c, {"await", "claim"})
        /\ With(c, {"check"})' = With(c, {"check"})
        /\ With(c, Opening \cup Terminating)' = With(c, Opening \cup Terminating)
        /\ With(c, {"claim", "settle"})' = With(c, {"claim", "settle"})
        /\ With(c, {"stop"})' = With(c, {"stop"})
        /\ StopperAt(c)' = StopperAt(c)
    BY <2>f DEF With, StopperAt, Conn, Opening, Terminating
  <2>1. FreshAt(c)'
    BY <1>w, <2>f, <2>t DEF FreshAt
  <2>2. AnswersAt(c)'
    BY <1>w, <2>f, <2>t, <1>r DEF ConnInv, AnswersAt, Words
  <2>3. CleanerAt(c)'
    BY <1>w, <2>f, <2>t DEF ConnInv, CleanerAt, Exiting, Conn
  <2>4. OwnedAt(c)'
    BY <1>w, <2>f, <2>t DEF ConnInv, OwnedAt
  <2>5. ReportedAt(c)'
    BY <1>w, <2>f, <2>t DEF ConnInv, ReportedAt, Exiting
  <2>6. StoppingAt(c)'
    BY <1>w, <2>f, <2>t DEF ConnInv, StoppingAt, Exiting
  <2>7. ASSUME NEW j \in Threads, j = k \/ Conn(j)' = c
       PROVE  ThreadAt(j)' /\ OpenerAt(j)'
    <3>1. ThreadAt(j) /\ OpenerAt(j) /\ thread'[j] = thread[j] /\ Conn(j)' = Conn(j)
      BY <1>i, <2>t DEF ConnectionsInv
    <3>2. CASE Conn(j) = c
      <4>1. ThreadAt(j)'
        BY <1>w, <2>f, <2>t, <3>1, <3>2 DEF ConnInv, ThreadAt, AnswersAt, Established
      <4>2. OpenerAt(j)'
        BY <1>w, <2>f, <2>t, <3>1, <3>2, <1>e
          DEF ConnInv, OpenerAt, CleanerAt, Exiting, Opening, Threads
      <4> QED
        BY <4>1, <4>2
    <3>3. CASE Conn(j) # c
      <4>1. thread[j].pc = "idle" /\ thread[j].back = "idle"
        BY <2>7, <3>1, <3>3, <1>w, ChannelAssumption DEF ThreadAt, AtRest
      <4> QED
        BY <4>1, <3>1 DEF ThreadAt, OpenerAt, Established, Opening, AtRest
    <3> QED
      BY <3>2, <3>3
  <2> QED
    BY <1>w, <2>l, <2>1, <2>2, <2>3, <2>4, <2>5, <2>6, <2>7 DEF Here, ConnInv
<1> QED
  BY <1>c, <1>1, <1>2, <1>u, <1>c, <1>r DEF EntryConnects

LEMMA HarnessExitsHere ==
    ASSUME ConnectionsInv, NEW c \in Conns, HarnessExits(c)
    PROVE  Local(c, Cleaner(c)) /\ Here(c, Cleaner(c))'
<1>c. PICK k : k = Cleaner(c)
  OBVIOUS
<1>i. ConnectionsInv
  OBVIOUS
<1>e. ChannelTypeOK /\ c \in Conns /\ k \in Threads
  BY <1>c, CleanersDiffer DEF ConnectionsInv
<1>u. /\ UNCHANGED <<ids, chan, run, tr, reader, spoiled, thread>> /\ entry[c].alive
      /\ entry[c].harness = "alive"
      /\ out' = [out EXCEPT ![c] = Append(@, "end")]
  BY DEF HarnessExits, registry, peer, rest
<1>x. /\ ConnInv(c) /\ ThreadAt(k) /\ OpenerAt(k)
  BY <1>e DEF ConnectionsInv
<1>w. /\ c \in Conns /\ c # None /\ reader[c] # "none" /\ k = Cleaner(c) /\ k \notin Callers
      /\ k \in Callers \cup {Stopper, Cleaner(c)} /\ Conn(k) \in {c, None}
      /\ ConnInv(c) /\ ThreadAt(k) /\ OpenerAt(k)
  BY <1>c, <1>e, <1>u, <1>x, CleanersDiffer, ChannelAssumption
    DEF ConnInv, CleanerAt, FreshAt, NoEntry
<1>r. /\ Append(out[c], "end") \in Seq(Words)
      /\ NoReply(out[c]) => OneReply(Append(out[c], "end"))
      /\ OneReply(out[c]) /\ "end" = "end" => OneReply(Append(out[c], "end"))
      /\ NoOk(out[c]) /\ "end" # "ok" => NoOk(Append(out[c], "end"))
  <2>1. out[c] \in Seq(Words) /\ "end" \in Words
    BY <1>e DEF ChannelTypeOK, Words
  <2> QED
    BY <2>1, RepliesGrow
<1>1. ASSUME NEW left \in {"alive", "dead"}, entry' = [entry EXCEPT ![c].ended = TRUE, ![c].harness = left]
     PROVE  Local(c, k) /\ Here(c, k)'
  <2>f. /\ thread' = thread
        /\ tr'[c] = tr[c]
        /\ entry'[c].alive = entry[c].alive /\ entry'[c].todo = entry[c].todo
           /\ entry'[c].ended = TRUE /\ entry'[c].harness = left
        /\ chan'[c] = chan[c]
        /\ run'[c] = run[c]
        /\ out'[c] = Append(out[c], "end")
        /\ reader'[c] = reader[c]
        /\ (c \in ids') = (c \in ids)
        /\ (c \in spoiled) => (c \in spoiled')
        /\ entry[c].harness = "alive" /\ entry[c].alive = TRUE
    BY <1>1, <1>u, <1>c, <1>r, <1>e DEF Conn, ChannelTypeOK, Works, Transports, Entries, Ends
  <2>l. Local(c, k)
    BY <1>1, <1>u, <1>c, <1>r, <1>w, <1>e, <2>f DEF Local, Conn, ChannelTypeOK
  <2>t. /\ \A j \in Threads : Conn(j)' = Conn(j) /\ thread'[j] = thread[j]
        /\ With(c, {"register", "superseded", "settle"})' = With(c, {"register", "superseded", "settle"})
        /\ With(c, {"await", "claim"})' = With(c, {"await", "claim"})
        /\ With(c, {"check"})' = With(c, {"check"})
        /\ With(c, Opening \cup Terminating)' = With(c, Opening \cup Terminating)
        /\ With(c, {"claim", "settle"})' = With(c, {"claim", "settle"})
        /\ With(c, {"stop"})' = With(c, {"stop"})
        /\ StopperAt(c)' = StopperAt(c)
    BY <2>f DEF With, StopperAt, Conn, Opening, Terminating
  <2>1. FreshAt(c)'
    BY <1>w, <2>f, <2>t DEF FreshAt
  <2>2. AnswersAt(c)'
    BY <1>w, <2>f, <2>t, <1>r DEF ConnInv, AnswersAt
  <2>3. CleanerAt(c)'
    BY <1>w, <2>f, <2>t DEF ConnInv, CleanerAt, Exiting, Conn
  <2>4. OwnedAt(c)'
    BY <1>w, <2>f, <2>t DEF ConnInv, OwnedAt
  <2>5. ReportedAt(c)'
    BY <1>w, <2>f, <2>t DEF ConnInv, ReportedAt, Exiting
  <2>6. StoppingAt(c)'
    BY <1>w, <2>f, <2>t DEF ConnInv, StoppingAt, Exiting
  <2>7. ASSUME NEW j \in Threads, j = k \/ Conn(j)' = c
       PROVE  ThreadAt(j)' /\ OpenerAt(j)'
    <3>1. ThreadAt(j) /\ OpenerAt(j) /\ thread'[j] = thread[j] /\ Conn(j)' = Conn(j)
      BY <1>i, <2>t DEF ConnectionsInv
    <3>2. CASE Conn(j) = c
      <4>1. ThreadAt(j)'
        BY <1>w, <2>f, <2>t, <3>1, <3>2 DEF ConnInv, ThreadAt, AnswersAt, Established
      <4>2. OpenerAt(j)'
        BY <1>w, <2>f, <2>t, <3>1, <3>2, <1>e
          DEF ConnInv, OpenerAt, CleanerAt, Exiting, Opening, Threads
      <4> QED
        BY <4>1, <4>2
    <3>3. CASE Conn(j) # c
      <4>1. thread[j].pc = "idle" /\ thread[j].back = "idle"
        BY <2>7, <3>1, <3>3, <1>w, ChannelAssumption DEF ThreadAt, AtRest
      <4> QED
        BY <4>1, <3>1 DEF ThreadAt, OpenerAt, Established, Opening, AtRest
    <3> QED
      BY <3>2, <3>3
  <2> QED
    BY <1>w, <2>l, <2>1, <2>2, <2>3, <2>4, <2>5, <2>6, <2>7 DEF Here, ConnInv
<1> QED
  BY <1>c, <1>1, <1>u, <1>c, <1>r DEF HarnessExits

LEMMA EntryClosesHere ==
    ASSUME ConnectionsInv, NEW c \in Conns, EntryCloses(c)
    PROVE  Local(c, Cleaner(c)) /\ Here(c, Cleaner(c))'
<1>c. PICK k : k = Cleaner(c)
  OBVIOUS
<1>i. ConnectionsInv
  OBVIOUS
<1>e. ChannelTypeOK /\ c \in Conns /\ k \in Threads
  BY <1>c, CleanersDiffer DEF ConnectionsInv
<1>u. /\ UNCHANGED <<ids, chan, run, tr, reader, spoiled, thread>> /\ entry[c].alive
      /\ entry[c].todo = "close"
  BY DEF EntryCloses, registry, peer, rest
<1>x. /\ ConnInv(c) /\ ThreadAt(k) /\ OpenerAt(k)
  BY <1>e DEF ConnectionsInv
<1>w. /\ c \in Conns /\ c # None /\ reader[c] # "none" /\ k = Cleaner(c) /\ k \notin Callers
      /\ k \in Callers \cup {Stopper, Cleaner(c)} /\ Conn(k) \in {c, None}
      /\ ConnInv(c) /\ ThreadAt(k) /\ OpenerAt(k)
  BY <1>c, <1>e, <1>u, <1>x, CleanersDiffer, ChannelAssumption
    DEF ConnInv, CleanerAt, FreshAt, NoEntry
<1>r. \A left \in {entry[c].harness, "dead"} :
         LET u == out[c] \o (IF entry[c].ended THEN <<>> ELSE <<"end">>)
                         \o <<IF left = "dead" THEN "ok" ELSE "kept">> IN
         u \in Seq(Words) /\ (NoOk(out[c]) /\ left # "dead" => NoOk(u))
  <2>1. out[c] \in Seq(Words) /\ entry[c].ended \in BOOLEAN
    BY <1>e DEF ChannelTypeOK, Words, Entries
  <2> SUFFICES ASSUME NEW left \in {entry[c].harness, "dead"}
               PROVE  LET u == out[c] \o (IF entry[c].ended THEN <<>> ELSE <<"end">>)
                                      \o <<IF left = "dead" THEN "ok" ELSE "kept">> IN
                      u \in Seq(Words) /\ (NoOk(out[c]) /\ left # "dead" => NoOk(u))
    OBVIOUS
  <2>2. PICK r \in Words : r = (IF left = "dead" THEN "ok" ELSE "kept")
    BY DEF Words
  <2> QED
    BY <2>1, <2>2, CloseIsWritten
<1>1. ASSUME NEW left \in {entry[c].harness, "dead"}, NEW u,
            entry' = [entry EXCEPT ![c].todo = "none", ![c].ended = TRUE, ![c].harness = left],
            u = out[c] \o (IF entry[c].ended THEN <<>> ELSE <<"end">>)
                       \o <<IF left = "dead" THEN "ok" ELSE "kept">>,
            u \in Seq(Words), NoOk(out[c]) /\ left # "dead" => NoOk(u),
            out' = [out EXCEPT ![c] = u]
     PROVE  Local(c, k) /\ Here(c, k)'
  <2>f. /\ thread' = thread
        /\ tr'[c] = tr[c]
        /\ entry'[c].alive = entry[c].alive /\ entry'[c].todo = "none"
           /\ entry'[c].ended = TRUE /\ entry'[c].harness = left
        /\ chan'[c] = chan[c]
        /\ run'[c] = run[c]
        /\ out'[c] = u
        /\ reader'[c] = reader[c]
        /\ (c \in ids') = (c \in ids)
        /\ (c \in spoiled) => (c \in spoiled')
        /\ entry[c].todo = "close" /\ entry[c].alive = TRUE
        /\ left \in {entry[c].harness, "dead"}
        /\ NoOk(out[c]) /\ left # "dead" => NoOk(u)
    BY <1>1, <1>u, <1>c, <1>r, <1>e DEF Conn, ChannelTypeOK, Works, Transports, Entries, Ends
  <2>l. Local(c, k)
    BY <1>1, <1>u, <1>c, <1>r, <1>w, <1>e, <2>f DEF Local, Conn, ChannelTypeOK
  <2>t. /\ \A j \in Threads : Conn(j)' = Conn(j) /\ thread'[j] = thread[j]
        /\ With(c, {"register", "superseded", "settle"})' = With(c, {"register", "superseded", "settle"})
        /\ With(c, {"await", "claim"})' = With(c, {"await", "claim"})
        /\ With(c, {"check"})' = With(c, {"check"})
        /\ With(c, Opening \cup Terminating)' = With(c, Opening \cup Terminating)
        /\ With(c, {"claim", "settle"})' = With(c, {"claim", "settle"})
        /\ With(c, {"stop"})' = With(c, {"stop"})
        /\ StopperAt(c)' = StopperAt(c)
    BY <2>f DEF With, StopperAt, Conn, Opening, Terminating
  <2>1. FreshAt(c)'
    BY <1>w, <2>f, <2>t DEF FreshAt
  <2>2. AnswersAt(c)'
    BY <1>w, <2>f, <2>t, <1>1 DEF ConnInv, AnswersAt
  <2>3. CleanerAt(c)'
    BY <1>w, <2>f, <2>t DEF ConnInv, CleanerAt, Exiting, Conn
  <2>4. OwnedAt(c)'
    BY <1>w, <2>f, <2>t DEF ConnInv, OwnedAt
  <2>5. ReportedAt(c)'
    BY <1>w, <2>f, <2>t DEF ConnInv, ReportedAt, Exiting
  <2>6. StoppingAt(c)'
    BY <1>w, <2>f, <2>t DEF ConnInv, StoppingAt, Exiting
  <2>7. ASSUME NEW j \in Threads, j = k \/ Conn(j)' = c
       PROVE  ThreadAt(j)' /\ OpenerAt(j)'
    <3>1. ThreadAt(j) /\ OpenerAt(j) /\ thread'[j] = thread[j] /\ Conn(j)' = Conn(j)
      BY <1>i, <2>t DEF ConnectionsInv
    <3>2. CASE Conn(j) = c
      <4>1. ThreadAt(j)'
        BY <1>w, <2>f, <2>t, <3>1, <3>2 DEF ConnInv, ThreadAt, AnswersAt, Established
      <4>2. OpenerAt(j)'
        BY <1>w, <2>f, <2>t, <3>1, <3>2, <1>e
          DEF ConnInv, OpenerAt, CleanerAt, Exiting, Opening, Threads
      <4> QED
        BY <4>1, <4>2
    <3>3. CASE Conn(j) # c
      <4>1. thread[j].pc = "idle" /\ thread[j].back = "idle"
        BY <2>7, <3>1, <3>3, <1>w, ChannelAssumption DEF ThreadAt, AtRest
      <4> QED
        BY <4>1, <3>1 DEF ThreadAt, OpenerAt, Established, Opening, AtRest
    <3> QED
      BY <3>2, <3>3
  <2> QED
    BY <1>w, <2>l, <2>1, <2>2, <2>3, <2>4, <2>5, <2>6, <2>7 DEF Here, ConnInv
<1> QED
  BY <1>c, <1>1, <1>u, <1>c, <1>r DEF EntryCloses

LEMMA EntryDiesHere ==
    ASSUME ConnectionsInv, NEW c \in Conns, EntryDies(c)
    PROVE  Local(c, Cleaner(c)) /\ Here(c, Cleaner(c))'
<1>c. PICK k : k = Cleaner(c)
  OBVIOUS
<1>i. ConnectionsInv
  OBVIOUS
<1>e. ChannelTypeOK /\ c \in Conns /\ k \in Threads
  BY <1>c, CleanersDiffer DEF ConnectionsInv
<1>u. /\ UNCHANGED <<ids, chan, run, tr, reader, spoiled, thread>> /\ out' = out
      /\ entry[c].alive /\ Stopped(c)
  BY DEF EntryDies, registry, peer, rest
<1>x. /\ ConnInv(c) /\ ThreadAt(k) /\ OpenerAt(k)
  BY <1>e DEF ConnectionsInv
<1>w. /\ c \in Conns /\ c # None /\ reader[c] # "none" /\ k = Cleaner(c) /\ k \notin Callers
      /\ k \in Callers \cup {Stopper, Cleaner(c)} /\ Conn(k) \in {c, None}
      /\ ConnInv(c) /\ ThreadAt(k) /\ OpenerAt(k)
  BY <1>c, <1>e, <1>u, <1>x, CleanersDiffer, ChannelAssumption
    DEF ConnInv, CleanerAt, FreshAt, NoEntry
<1>f. /\ thread' = thread
      /\ tr'[c] = tr[c]
      /\ entry'[c].alive = FALSE /\ entry'[c].todo = "none"
      /\ entry'[c].ended = entry[c].ended
      /\ entry'[c].harness \in {entry[c].harness, "dead"}
      /\ entry[c].harness = "none" => entry'[c].harness = "none"
      /\ chan'[c] = chan[c]
      /\ run'[c] = run[c]
      /\ out'[c] = out[c]
      /\ reader'[c] = reader[c]
      /\ (c \in ids') = (c \in ids)
      /\ (c \in spoiled) => (c \in spoiled')
      /\ entry[c].alive = TRUE
  BY <1>u, <1>c, <1>e DEF Conn, Stopped, ChannelTypeOK, Works, Transports, Entries, Ends
<1>l. Local(c, k)
  BY <1>u, <1>c, <1>w, <1>e, <1>f DEF Local, Conn, Stopped, ChannelTypeOK
<1>row. /\ \A j \in Threads : Conn(j)' = Conn(j) /\ thread'[j] = thread[j]
      /\ With(c, {"register", "superseded", "settle"})' = With(c, {"register", "superseded", "settle"})
      /\ With(c, {"await", "claim"})' = With(c, {"await", "claim"})
      /\ With(c, {"check"})' = With(c, {"check"})
      /\ With(c, Opening \cup Terminating)' = With(c, Opening \cup Terminating)
      /\ With(c, {"claim", "settle"})' = With(c, {"claim", "settle"})
      /\ With(c, {"stop"})' = With(c, {"stop"})
      /\ StopperAt(c)' = StopperAt(c)
  BY <1>f DEF With, StopperAt, Conn, Opening, Terminating
<1>1. FreshAt(c)'
  BY <1>w, <1>f, <1>row DEF FreshAt
<1>2. AnswersAt(c)'
  BY <1>w, <1>f, <1>row DEF ConnInv, AnswersAt
<1>3. CleanerAt(c)'
  BY <1>w, <1>f, <1>row DEF ConnInv, CleanerAt, Exiting, Conn
<1>4. OwnedAt(c)'
  BY <1>w, <1>f, <1>row DEF ConnInv, OwnedAt
<1>5. ReportedAt(c)'
  BY <1>w, <1>f, <1>row DEF ConnInv, ReportedAt, Exiting
<1>6. StoppingAt(c)'
  BY <1>w, <1>f, <1>row DEF ConnInv, StoppingAt, Exiting
<1>7. ASSUME NEW j \in Threads, j = k \/ Conn(j)' = c
     PROVE  ThreadAt(j)' /\ OpenerAt(j)'
  <2>1. ThreadAt(j) /\ OpenerAt(j) /\ thread'[j] = thread[j] /\ Conn(j)' = Conn(j)
    BY <1>i, <1>row DEF ConnectionsInv
  <2>2. CASE Conn(j) = c
    <3>1. ThreadAt(j)'
      BY <1>w, <1>f, <1>row, <2>1, <2>2 DEF ConnInv, ThreadAt, AnswersAt, Established
    <3>2. OpenerAt(j)'
      BY <1>w, <1>f, <1>row, <2>1, <2>2, <1>e
        DEF ConnInv, OpenerAt, CleanerAt, Exiting, Opening, Threads
    <3> QED
      BY <3>1, <3>2
  <2>3. CASE Conn(j) # c
    <3>1. thread[j].pc = "idle" /\ thread[j].back = "idle"
      BY <1>7, <2>1, <2>3, <1>w, ChannelAssumption DEF ThreadAt, AtRest
    <3> QED
      BY <3>1, <2>1 DEF ThreadAt, OpenerAt, Established, Opening, AtRest
  <2> QED
    BY <2>2, <2>3
<1>9. Local(c, k) /\ Here(c, k)'
  BY <1>w, <1>l, <1>1, <1>2, <1>3, <1>4, <1>5, <1>6, <1>7 DEF Here, ConnInv
<1> QED
  BY <1>9, <1>c

-----------------------------------------------------------------------------
(* The invariant as a whole *)

\* A socket that was accepted is of a connection.
Listening == \A s \in Sockets : socket[s].state # "none" => socket[s].conn \in Conns

\* What is not said of one connection.
Server == ShutDown /\ EndedIsTold /\ Listening

ChannelInv == ConnectionsInv /\ Server

LEMMA WorkHere ==
    ASSUME ConnectionsInv, NEW k \in Threads, Work(k)
    PROVE  \E c \in Conns : Local(c, k) /\ Here(c, k)'
BY ConnectedHere, OpenRunHere, RegisterHere, SupersededHere, CheckExitHere, AskHere, AwaitHere,
   ClaimHere, SettleHere, LastAskHere, LastWaitHere, StopEntryHere DEF Work

LEMMA ConnectionHere ==
    ASSUME ConnectionsInv, NEW c \in Conns,
           Reading(c) \/ EntryConnects(c) \/ HarnessExits(c) \/ EntryCloses(c) \/ EntryDies(c)
    PROVE  Local(c, Cleaner(c)) /\ Here(c, Cleaner(c))'
BY ReadHere, AbandonHere, NoteExitHere, ClaimExitHere, SettleExitHere, EntryConnectsHere,
   HarnessExitsHere, EntryClosesHere, EntryDiesHere DEF Reading

Kept == /\ \A d \in Conns : ConnInv(d)
        /\ \A j \in Threads : ThreadAt(j) /\ OpenerAt(j)

LEMMA SocketsKeep ==
    ASSUME ConnectionsInv, UNCHANGED <<pair, ids, chan, run, tr, entry, out, reader, thread>>,
           spoiled' = spoiled
    PROVE  Kept'
<1>1. /\ \A c \in Conns : ConnInv(c)' = ConnInv(c)
      /\ \A k \in Threads : ThreadAt(k)' = ThreadAt(k) /\ OpenerAt(k)' = OpenerAt(k)
  BY DEF ConnInv, FreshAt, AnswersAt, CleanerAt, OwnedAt, ReportedAt, StoppingAt, StopperAt,
         ThreadAt, OpenerAt, With, Exiting, Conn
<1> QED
  BY <1>1 DEF Kept, ConnectionsInv

LEMMA PartsKeep ==
    ASSUME ConnectionsInv, ShutDown, [ChannelNext]_channelVars
    PROVE  Kept'
<1>1. ASSUME NEW k \in Threads, NEW c \in Conns, Local(c, k), Here(c, k)'
      PROVE  Kept'
  BY <1>1, LocalInv DEF Kept
<1>2. ASSUME NEW k \in Callers, Call(k) PROVE Kept'
  <2>1. k \in Threads
    BY DEF Threads
  <2>2. CASE Acquire(k)
    BY <1>1, <2>1, <2>2, AcquireHere
  <2>3. CASE Release(k)
    <3>1. /\ thread[k].pc = "idle"
          /\ \E c \in ids : thread' = [thread EXCEPT ![k] = [pc |-> "ask", conn |-> c, back |-> "idle"]]
          /\ UNCHANGED <<pair, ids, chan, run, tr, entry, out, reader, spoiled>>
      BY <2>3 DEF Release, At, registry, peer, rest
    <3>2. PICK c \in ids : thread' = [thread EXCEPT ![k] = [pc |-> "ask", conn |-> c, back |-> "idle"]]
      BY <3>1
    <3>3. c \in Conns
      BY ChannelAssumption DEF ConnectionsInv, ChannelTypeOK
    <3> QED
      BY <1>1, <2>1, <3>1, <3>2, <3>3, ApproachHere
  <2> QED
    BY <1>2, <2>2, <2>3 DEF Call
<1>3. ASSUME NEW k \in Threads, Work(k) PROVE Kept'
  BY <1>1, <1>3, WorkHere
<1>4. ASSUME NEW c \in Conns,
             Reading(c) \/ EntryConnects(c) \/ HarnessExits(c) \/ EntryCloses(c) \/ EntryDies(c)
      PROVE  Kept'
  BY <1>1, <1>4, ConnectionHere, CleanersDiffer
<1>5. ASSUME NEW s \in Sockets, Admit(s) \/ Attach(s) \/ Detach(s) PROVE Kept'
  BY <1>5, SocketsKeep DEF Admit, Attach, Detach, registry, peer
<1>6. CASE StopServer
  BY <1>6, SocketsKeep DEF StopServer, registry, peer
<1>7. CASE StopNext
  <2>1. CASE ids = {} /\ server' = "stopped" /\ UNCHANGED thread
    BY <1>7, <2>1, SocketsKeep DEF StopNext, registry, peer
  <2>2. CASE \E c \in ids : thread' = [thread EXCEPT ![Stopper] = [pc |-> "ask", conn |-> c, back |-> "idle"]]
    <3>1. /\ thread[Stopper].pc = "idle" /\ Stopper \in Threads
          /\ UNCHANGED <<pair, ids, chan, run, tr, entry, out, reader, spoiled>>
      BY <1>7 DEF StopNext, At, registry, peer, Threads
    <3>2. PICK c \in ids : thread' = [thread EXCEPT ![Stopper] = [pc |-> "ask", conn |-> c, back |-> "idle"]]
      BY <2>2
    <3>3. c \in Conns
      BY ChannelAssumption DEF ConnectionsInv, ChannelTypeOK
    <3> QED
      BY <1>1, <3>1, <3>2, <3>3, ApproachHere
  <2> QED
    BY <1>7, <2>1, <2>2 DEF StopNext
<1>8. CASE UNCHANGED channelVars
  BY <1>8, SocketsKeep DEF channelVars
<1> QED
  BY <1>2, <1>3, <1>4, <1>5, <1>6, <1>7, <1>8 DEF ChannelNext

-----------------------------------------------------------------------------
(* Types *)

\* A step of thread k at its connection, with what it needs of the types.

LEMMA AtConn ==
    ASSUME ConnectionsInv, NEW k \in Threads, thread[k].pc # "idle"
    PROVE  Conn(k) \in Conns /\ thread[k] \in Works /\ tr[Conn(k)] \in Transports
           /\ entry[Conn(k)] \in Entries
<1>1. ChannelTypeOK /\ ThreadAt(k)
  BY DEF ConnectionsInv
<1>2. Conn(k) \in Conns
  BY <1>1 DEF ThreadAt
<1> QED
  BY <1>1, <1>2 DEF ChannelTypeOK

LEMMA MoveTypes ==
    ASSUME ChannelTypeOK, NEW k \in Threads, NEW pc \in Pcs, NEW back \in {"idle", "claim"}
    PROVE  /\ Goto(k, pc) => thread' \in [Threads -> Works]
           /\ Done(k) => thread' \in [Threads -> Works]
           /\ thread' = [thread EXCEPT ![k].pc = pc, ![k].back = back]
                => thread' \in [Threads -> Works]
           /\ \A c \in Conns : thread' = [thread EXCEPT ![k] = [pc |-> pc, conn |-> c, back |-> "idle"]]
                => thread' \in [Threads -> Works]
<1>1. thread \in [Threads -> Works] /\ thread[k] \in Works
  BY DEF ChannelTypeOK
<1>2. /\ [thread[k] EXCEPT !.pc = pc] \in Works
         /\ [thread[k] EXCEPT !.pc = pc, !.back = back] \in Works
      /\ \A c \in Conns : [pc |-> pc, conn |-> c, back |-> "idle"] \in Works
  BY <1>1 DEF Works
<1>3. AtRest \in Works
  BY DEF AtRest, Works, Pcs
<1>4. \A w \in Works : [thread EXCEPT ![k] = w] \in [Threads -> Works]
  BY <1>1
<1> QED
  BY <1>1, <1>2, <1>3, <1>4 DEF Goto, Done

LEMMA TransportTypes ==
    ASSUME ChannelTypeOK, NEW c \in Conns, NEW k \in Threads, NEW reply \in Replies
    PROVE  /\ [tr EXCEPT ![c] = OwnEnd(@)] \in [Conns -> Transports]
           /\ [tr EXCEPT ![c].lock = k] \in [Conns -> Transports]
           /\ [tr EXCEPT ![c] = Written(k, OwnEnd(@))] \in [Conns -> Transports]
           /\ [tr EXCEPT ![c] = Written(k, @)] \in [Conns -> Transports]
           /\ [tr EXCEPT ![c].established = TRUE] \in [Conns -> Transports]
           /\ [tr EXCEPT ![c] = Unlocked(@, reply)] \in [Conns -> Transports]
           /\ [tr EXCEPT ![c].connect = reply] \in [Conns -> Transports]
           /\ [tr EXCEPT ![c].close = reply] \in [Conns -> Transports]
<1>1. tr \in [Conns -> Transports] /\ tr[c] \in Transports
  BY DEF ChannelTypeOK
<1>2. "waiting" \in Replies
  BY DEF Replies
<1>3. OwnEnd(tr[c]) \in Transports
  BY <1>1 DEF OwnEnd, Transports
<1>4. \A t \in Transports : Written(k, t) \in Transports
  BY <1>2 DEF Written, Transports
<1>5. /\ [tr[c] EXCEPT !.lock = k] \in Transports
      /\ [tr[c] EXCEPT !.established = TRUE] \in Transports
  BY <1>1 DEF Transports
<1>6. Unlocked(tr[c], reply) \in Transports
  BY <1>1, UnlockedFields
<1>7. /\ [tr[c] EXCEPT !.connect = reply] \in Transports
      /\ [tr[c] EXCEPT !.close = reply] \in Transports
  BY <1>1 DEF Transports
<1>8. \A t \in Transports : [tr EXCEPT ![c] = t] \in [Conns -> Transports]
  BY <1>1
<1> QED
  BY <1>1, <1>3, <1>4, <1>5, <1>6, <1>7, <1>8

LEMMA EndTypes ==
    ASSUME ChannelTypeOK, NEW c \in Conns
    PROVE  /\ \A state \in {"cancelled", "failed"} :
                 Ended(c, state) \in [Conns -> {"none", "active", "cancelled", "failed"}]
           /\ Finish(c) => chan' \in [Conns -> Ends] /\ socket' \in [Sockets -> Relays]
           /\ Unregister(c) => pair' \in Conns \cup {None} /\ ids' = {pair'} \ {None}
<1>1. \A state \in {"cancelled", "failed"} :
         Ended(c, state) \in [Conns -> {"none", "active", "cancelled", "failed"}]
  BY DEF ChannelTypeOK, Ended
<1>2. Finish(c) => chan' \in [Conns -> Ends]
  BY ZenonT(60) DEF ChannelTypeOK, Finish, Ends
<1>3. Finish(c) => socket' \in [Sockets -> Relays]
  <2>1. Closed \in Relays
    BY DEF Closed, Relays
  <2> QED
    BY <2>1 DEF ChannelTypeOK, Finish
<1>4. Unregister(c) => pair' \in Conns \cup {None} /\ ids' = {pair'} \ {None}
  BY DEF ChannelTypeOK, Unregister
<1> QED
  BY <1>1, <1>2, <1>3, <1>4

LEMMA StoppedTypes ==
    ASSUME ChannelTypeOK, NEW c \in Conns, Stopped(c)
    PROVE  entry' \in [Conns -> Entries]
<1>1. entry[c] \in Entries /\ entry \in [Conns -> Entries]
  BY DEF ChannelTypeOK
<1>2. PICK left \in {entry[c].harness, IF entry[c].harness = "none" THEN "none" ELSE "dead"} :
         entry' = [entry EXCEPT ![c].alive = FALSE, ![c].todo = "none", ![c].harness = left]
  BY DEF Stopped
<1>3. left \in {"none", "alive", "dead"}
  BY <1>1 DEF Entries
<1> QED
  BY <1>1, <1>2, <1>3 DEF Entries

LEMMA NotReleasedTypes ==
    ASSUME ChannelTypeOK, NEW k \in Threads, Conn(k) \in Conns, NotReleased(k)
    PROVE  spoiled' \subseteq Conns /\ thread' \in [Threads -> Works]
<1>1. "lock" \in Pcs /\ "claim" \in {"idle", "claim"}
  BY DEF Pcs
<1> QED
  BY <1>1, MoveTypes DEF NotReleased, ChannelTypeOK

LEMMA AskEntryTypes ==
    ASSUME ChannelTypeOK, NEW c \in Conns, AskEntry(c)
    PROVE  entry' \in [Conns -> Entries]
BY DEF ChannelTypeOK, AskEntry, Entries

LEMMA WorkTypes ==
    ASSUME ConnectionsInv, NEW k \in Threads, Work(k)
    PROVE  ChannelTypeOK'
<1>1. thread[k].pc # "idle"
  BY DEF Work, At, Connected, OpenRun, Register, Superseded, CheckExit, Ask, Await, Claim,
         Settle, LastAsk, LastWait, StopEntry
<1>2. ChannelTypeOK /\ Conn(k) \in Conns
  BY <1>1, AtConn DEF ConnectionsInv
<1>c. PICK c \in Conns : c = Conn(k)
  BY <1>2
<1>row. ChannelTypeOK
  BY <1>2
<1>p. /\ {"open", "register", "superseded", "check", "lock", "await", "claim", "settle", "wait",
          "stop"} \subseteq Pcs
      /\ tr[c].close \in Replies
  BY <1>row, TrFields DEF Pcs
<1>m. /\ \A pc \in {"open", "register", "superseded", "check", "lock", "await", "claim", "settle",
                    "wait", "stop"} : Goto(k, pc) => thread' \in [Threads -> Works]
      /\ Done(k) => thread' \in [Threads -> Works]
      /\ \A back \in {"idle", "claim"} : Terminate(k, back) =>
            thread' \in [Threads -> Works] /\ tr' \in [Conns -> Transports]
  <2>1. \A pc \in Pcs : Goto(k, pc) => thread' \in [Threads -> Works]
    BY <1>row, MoveTypes
  <2>2. Done(k) => thread' \in [Threads -> Works]
    BY <1>row, <1>p, MoveTypes
  <2>3. ASSUME NEW back \in {"idle", "claim"}, Terminate(k, back)
        PROVE  thread' \in [Threads -> Works] /\ tr' \in [Conns -> Transports]
    <3>1. /\ tr' = [tr EXCEPT ![c] = OwnEnd(@)]
          /\ thread' = [thread EXCEPT ![k].pc = "lock", ![k].back = back]
      BY <2>3, <1>c DEF Terminate
    <3> QED
      BY <1>row, <1>p, <3>1, MoveTypes, TransportTypes
  <2> QED
    BY <1>p, <2>1, <2>2, <2>3
<1>3. CASE Connected(k)
  <2>1. thread' \in [Threads -> Works] /\ tr' \in [Conns -> Transports]
    <3>1. CASE tr' = [tr EXCEPT ![c].established = TRUE] /\ Goto(k, "open")
      BY <1>row, <1>p, <1>m, <3>1, TransportTypes
    <3>2. CASE Terminate(k, "idle")
      BY <1>m, <3>2
    <3> QED
      BY <1>c, <1>3, <3>1, <3>2 DEF Connected
  <2> QED
    BY <1>row, <1>3, <2>1 DEF Connected, registry, peer, rest, ChannelTypeOK
<1>4. CASE OpenRun(k)
  <2>1. thread' \in [Threads -> Works] /\ tr' \in [Conns -> Transports]
        /\ run' \in [Conns -> {"none", "active", "cancelled", "failed"}]
    BY <1>row, <1>c, <1>4, <1>m DEF OpenRun, ChannelTypeOK
  <2> QED
    BY <1>row, <1>4, <2>1 DEF OpenRun, registry, peer, rest, ChannelTypeOK
<1>5. CASE Register(k)
  <2>1. thread' \in [Threads -> Works]
    BY <1>5, <1>m DEF Register
  <2>2. pair' \in Conns \cup {None} /\ ids' = {pair'} \ {None}
    BY <1>row, <1>c, <1>5, ChannelAssumption DEF Register, registry, ChannelTypeOK
  <2> QED
    BY <1>row, <1>5, <2>1, <2>2 DEF Register, peer, rest, ChannelTypeOK
<1>6. CASE Superseded(k)
  <2>1. /\ run' = Ended(c, "cancelled") /\ Finish(c) /\ Terminate(k, "idle")
    BY <1>c, <1>6 DEF Superseded
  <2>2. /\ thread' \in [Threads -> Works] /\ tr' \in [Conns -> Transports]
        /\ run' \in [Conns -> {"none", "active", "cancelled", "failed"}]
        /\ chan' \in [Conns -> Ends] /\ socket' \in [Sockets -> Relays]
    BY <1>row, <1>m, <2>1, EndTypes
  <2> QED
    BY <1>row, <1>6, <2>2 DEF Superseded, registry, peer, ChannelTypeOK
<1>7. CASE CheckExit(k)
  <2>1. thread' \in [Threads -> Works]
    BY <1>7, <1>m DEF CheckExit
  <2>2. /\ run' \in [Conns -> {"none", "active", "cancelled", "failed"}]
        /\ chan' \in [Conns -> Ends] /\ socket' \in [Sockets -> Relays]
    BY <1>row, <1>c, <1>7, EndTypes DEF CheckExit, ChannelTypeOK
  <2> QED
    BY <1>row, <1>7, <2>1, <2>2 DEF CheckExit, registry, peer, ChannelTypeOK
<1>8. CASE Ask(k)
  <2>u. UNCHANGED <<pair, ids, chan, run, out, reader, socket, server, faults>>
    BY <1>8 DEF Ask, registry
  <2>1. CASE Goto(k, "claim") /\ UNCHANGED <<tr, entry, spoiled>>
    BY <1>row, <1>m, <2>u, <2>1 DEF ChannelTypeOK
  <2>2. CASE tr' = [tr EXCEPT ![c].lock = k] /\ Goto(k, "await") /\ UNCHANGED <<entry, spoiled>>
    <3>1. thread' \in [Threads -> Works] /\ tr' \in [Conns -> Transports]
      BY <1>row, <1>p, <1>m, <2>2, TransportTypes
    <3> QED
      BY <1>row, <2>u, <2>2, <3>1 DEF ChannelTypeOK
  <2>3. CASE /\ tr' = [tr EXCEPT ![c] = Written(k, OwnEnd(@))]
             /\ AskEntry(c) /\ Goto(k, "await") /\ UNCHANGED spoiled
    <3>1. /\ thread' \in [Threads -> Works] /\ tr' \in [Conns -> Transports]
          /\ entry' \in [Conns -> Entries]
      BY <1>row, <1>p, <1>m, <2>3, TransportTypes, AskEntryTypes
    <3> QED
      BY <1>row, <2>u, <2>3, <3>1 DEF ChannelTypeOK
  <2>4. CASE tr' = [tr EXCEPT ![c] = OwnEnd(@)] /\ NotReleased(k) /\ UNCHANGED entry
    <3>1. /\ thread' \in [Threads -> Works] /\ tr' \in [Conns -> Transports]
          /\ spoiled' \subseteq Conns
      BY <1>row, <1>c, <1>p, <1>m, <2>4, TransportTypes, NotReleasedTypes
    <3> QED
      BY <1>row, <2>u, <2>4, <3>1 DEF ChannelTypeOK
  <2> QED
    BY <1>c, <1>8, <2>1, <2>2, <2>3, <2>4 DEF Ask
<1>9. CASE Await(k)
  <2>u. UNCHANGED <<pair, ids, chan, run, out, reader, socket, server, faults>>
    BY <1>9 DEF Await, registry
  <2>1. tr' \in [Conns -> Transports]
    <3>1. tr' = [tr EXCEPT ![c] = Unlocked(@, tr[c].close)]
      BY <1>c, <1>9 DEF Await
    <3> QED
      BY <1>row, <1>p, <3>1, TransportTypes
  <2>2. /\ thread' \in [Threads -> Works] /\ entry' \in [Conns -> Entries]
           /\ spoiled' \subseteq Conns
    <3>1. CASE Goto(k, "claim") /\ UNCHANGED spoiled /\ Stopped(c)
      BY <1>row, <1>m, <3>1, StoppedTypes DEF ChannelTypeOK
    <3>2. CASE NotReleased(k) /\ UNCHANGED entry
      BY <1>row, <1>c, <3>2, NotReleasedTypes DEF ChannelTypeOK
    <3> QED
      BY <1>c, <1>9, <3>1, <3>2 DEF Await
  <2> QED
    BY <1>row, <2>u, <2>1, <2>2 DEF ChannelTypeOK
<1>10. CASE Claim(k)
  <2>1. Unregister(c)
    BY <1>c, <1>10 DEF Claim
  <2>2. /\ thread' \in [Threads -> Works] /\ chan' \in [Conns -> Ends]
        /\ socket' \in [Sockets -> Relays]
    BY <1>row, <1>c, <1>10, <1>m, EndTypes DEF Claim, ChannelTypeOK
  <2>3. pair' \in Conns \cup {None} /\ ids' = {pair'} \ {None}
    BY <1>row, <2>1, EndTypes
  <2> QED
    BY <1>row, <1>10, <2>2, <2>3 DEF Claim, peer, ChannelTypeOK
<1>11. CASE Settle(k)
  <2>1. run' = Ended(c, "cancelled") /\ Finish(c) /\ Done(k)
    BY <1>c, <1>11 DEF Settle
  <2>2. /\ thread' \in [Threads -> Works] /\ chan' \in [Conns -> Ends]
           /\ socket' \in [Sockets -> Relays]
        /\ run' \in [Conns -> {"none", "active", "cancelled", "failed"}]
    BY <1>row, <1>m, <2>1, EndTypes
  <2> QED
    BY <1>row, <1>11, <2>2 DEF Settle, registry, peer, ChannelTypeOK
<1>12. CASE LastAsk(k)
  <2>1. /\ thread' \in [Threads -> Works] /\ tr' \in [Conns -> Transports]
        /\ entry' \in [Conns -> Entries]
    <3>1. CASE tr' = [tr EXCEPT ![c].lock = k] /\ Goto(k, "wait") /\ UNCHANGED entry
      BY <1>row, <1>p, <1>m, <3>1, TransportTypes DEF ChannelTypeOK
    <3>2. CASE tr' = [tr EXCEPT ![c] = Written(k, @)] /\ AskEntry(c) /\ Goto(k, "wait")
      BY <1>row, <1>p, <1>m, <3>2, TransportTypes, AskEntryTypes
    <3>3. CASE Goto(k, "stop") /\ UNCHANGED <<tr, entry>>
      BY <1>row, <1>m, <3>3 DEF ChannelTypeOK
    <3> QED
      BY <1>c, <1>12, <3>1, <3>2, <3>3 DEF LastAsk
  <2> QED
    BY <1>row, <1>12, <2>1 DEF LastAsk, registry, rest, ChannelTypeOK
<1>13. CASE LastWait(k)
  <2>1. tr' = [tr EXCEPT ![c] = Unlocked(@, tr[c].close)] /\ Goto(k, "stop")
    BY <1>c, <1>13 DEF LastWait
  <2>2. thread' \in [Threads -> Works] /\ tr' \in [Conns -> Transports]
    BY <1>row, <1>p, <1>m, <2>1, TransportTypes
  <2> QED
    BY <1>row, <1>13, <2>2 DEF LastWait, registry, peer, rest, ChannelTypeOK
<1>14. CASE StopEntry(k)
  <2>1. thread' \in [Threads -> Works] /\ entry' \in [Conns -> Entries]
    BY <1>row, <1>c, <1>14, <1>m, StoppedTypes DEF StopEntry
  <2> QED
    BY <1>row, <1>14, <2>1 DEF StopEntry, registry, rest, ChannelTypeOK
<1> QED
  BY <1>3, <1>4, <1>5, <1>6, <1>7, <1>8, <1>9, <1>10, <1>11, <1>12, <1>13, <1>14 DEF Work

LEMMA ConnectionTypes ==
    ASSUME ConnectionsInv, NEW c \in Conns,
           Reading(c) \/ EntryConnects(c) \/ HarnessExits(c) \/ EntryCloses(c) \/ EntryDies(c)
    PROVE  ChannelTypeOK'
<1>row. /\ ChannelTypeOK /\ tr \in [Conns -> Transports] /\ tr[c] \in Transports
      /\ entry \in [Conns -> Entries] /\ entry[c] \in Entries
      /\ out \in [Conns -> Seq(Words)] /\ out[c] \in Seq(Words)
      /\ thread \in [Threads -> Works] /\ Cleaner(c) \in Threads /\ "lock" \in Pcs
  BY CleanersDiffer DEF ConnectionsInv, ChannelTypeOK, Words, Pcs
<1>f. Fault => faults' \in 0..MaxFaults
  BY <1>row, ChannelAssumption DEF Fault, ChannelTypeOK
<1>r. /\ \A state \in {"reading", "exit", "claim", "settle", "done"} :
            [reader EXCEPT ![c] = state] \in [Conns -> {"none", "reading", "exit", "claim", "settle", "done"}]
  BY <1>row DEF ChannelTypeOK
<1>o. [tr EXCEPT ![c].reported = TRUE] \in [Conns -> Transports]
  BY <1>row DEF Transports
<1>1. CASE Read(c)
  <2>1. out' = [out EXCEPT ![c] = Tail(@)] /\ Head(out[c]) \in Words /\ Tail(out[c]) \in Seq(Words)
    BY <1>1, <1>row DEF Read
  <2>2. out' \in [Conns -> Seq(Words)]
    BY <1>row, <2>1
  <2>3. Words \subseteq Replies \cup {"end"}
    BY DEF Words, Replies
  <2>4. CASE Report(c)
    <3>1. /\ tr' \in [Conns -> Transports]
          /\ reader' \in [Conns -> {"none", "reading", "exit", "claim", "settle", "done"}]
      BY <1>o, <1>r, <2>4 DEF Report
    <3> QED
      BY <1>1, <1>row, <2>2, <3>1 DEF Read, registry, rest, ChannelTypeOK, Words
  <2>5. CASE Head(out[c]) # "end" /\ tr' = [tr EXCEPT ![c] = Reply(@, Head(out[c]))] /\ UNCHANGED reader
    <3>1. Head(out[c]) \in Replies
      BY <2>1, <2>3, <2>5
    <3>2. PICK r \in Replies : r = Head(out[c])
      BY <3>1
    <3>3. Reply(tr[c], r) \in Transports
      BY <1>row DEF Reply, Transports
    <3>4. tr' \in [Conns -> Transports]
      BY <1>row, <2>5, <3>2, <3>3
    <3> QED
      BY <1>1, <1>row, <2>2, <2>5, <3>4 DEF Read, registry, rest, ChannelTypeOK, Words
  <2> QED
    BY <1>1, <2>4, <2>5 DEF Read
<1>2. CASE Abandon(c)
  <2>1. tr' \in [Conns -> Transports]
    <3>1. [tr[c] EXCEPT !.connect = IF @ = "waiting" THEN "gone" ELSE @,
                        !.close = IF @ = "waiting" THEN "gone" ELSE @] \in Transports
      BY <1>row DEF Transports, Replies
    <3>2. \A t \in Transports : [tr EXCEPT ![c] = t] \in [Conns -> Transports]
      BY <1>row
    <3>3. CASE tr' = [tr EXCEPT ![c].connect = IF @ = "waiting" THEN "gone" ELSE @,
                                ![c].close = IF @ = "waiting" THEN "gone" ELSE @]
      BY <1>row, <3>1, <3>2, <3>3
    <3> QED
      BY <1>2, <1>row, <1>o, <3>3 DEF Abandon, Report
  <2>2. reader' \in [Conns -> {"none", "reading", "exit", "claim", "settle", "done"}]
    BY <1>2, <1>row, <1>r DEF Abandon, Report, ChannelTypeOK
  <2> QED
    BY <1>2, <1>row, <2>1, <2>2 DEF Abandon, registry, peer, rest, ChannelTypeOK
<1>3. CASE NoteExit(c)
  <2>1. chan' \in [Conns -> Ends]
    BY <1>3, <1>row DEF NoteExit, ChannelTypeOK, Ends
  <2>2. reader' \in [Conns -> {"none", "reading", "exit", "claim", "settle", "done"}]
    BY <1>3, <1>r DEF NoteExit
  <2> QED
    BY <1>3, <1>row, <2>1, <2>2 DEF NoteExit, registry, peer, rest, ChannelTypeOK
<1>l. Leave(c) =>
        /\ thread' \in [Threads -> Works] /\ chan' \in [Conns -> Ends]
           /\ socket' \in [Sockets -> Relays]
        /\ reader' \in [Conns -> {"none", "reading", "exit", "claim", "settle", "done"}]
  <2> SUFFICES ASSUME Leave(c)
               PROVE  /\ thread' \in [Threads -> Works] /\ chan' \in [Conns -> Ends]
                      /\ socket' \in [Sockets -> Relays]
                      /\ reader' \in [Conns -> {"none", "reading", "exit", "claim", "settle", "done"}]
    OBVIOUS
  <2>1. PICK k \in Threads : k = Cleaner(c)
    BY <1>row
  <2>2. /\ thread' = [thread EXCEPT ![k] = [pc |-> "lock", conn |-> c, back |-> "idle"]]
        /\ Finish(c)
    BY <2>1 DEF Leave
  <2>3. thread' \in [Threads -> Works]
    BY <1>row, <2>2, MoveTypes
  <2>4. chan' \in [Conns -> Ends] /\ socket' \in [Sockets -> Relays]
    BY <1>row, <2>2, EndTypes
  <2> QED
    BY <1>r, <2>3, <2>4 DEF Leave
<1>4. CASE ClaimExit(c)
  <2>1. pair' \in Conns \cup {None} /\ ids' = {pair'} \ {None}
    BY <1>4, <1>row, EndTypes DEF ClaimExit
  <2>2. /\ thread' \in [Threads -> Works] /\ chan' \in [Conns -> Ends]
           /\ socket' \in [Sockets -> Relays]
        /\ reader' \in [Conns -> {"none", "reading", "exit", "claim", "settle", "done"}]
    BY <1>4, <1>row, <1>r, <1>l DEF ClaimExit, ChannelTypeOK
  <2> QED
    BY <1>4, <1>row, <2>1, <2>2 DEF ClaimExit, peer, ChannelTypeOK
<1>5. CASE SettleExit(c)
  <2>1. run' \in [Conns -> {"none", "active", "cancelled", "failed"}]
    BY <1>5, <1>row, EndTypes DEF SettleExit
  <2>2. /\ thread' \in [Threads -> Works] /\ chan' \in [Conns -> Ends]
           /\ socket' \in [Sockets -> Relays]
        /\ reader' \in [Conns -> {"none", "reading", "exit", "claim", "settle", "done"}]
    BY <1>5, <1>l DEF SettleExit
  <2> QED
    BY <1>5, <1>row, <2>1, <2>2 DEF SettleExit, registry, peer, ChannelTypeOK
<1>a. \A r \in Words : [out EXCEPT ![c] = Append(@, r)] \in [Conns -> Seq(Words)]
  BY <1>row, RepliesGrow
<1>6. CASE EntryConnects(c)
  <2>1. entry' \in [Conns -> Entries]
    <3>1. /\ [entry[c] EXCEPT !.todo = "none", !.harness = "alive"] \in Entries
          /\ [entry[c] EXCEPT !.todo = "none"] \in Entries
      BY <1>row DEF Entries
    <3>2. \A row \in Entries : [entry EXCEPT ![c] = row] \in [Conns -> Entries]
      BY <1>row
    <3>3. CASE entry' = [entry EXCEPT ![c].todo = "none", ![c].harness = "alive"]
      BY <1>row, <3>1, <3>2, <3>3
    <3>4. CASE entry' = [entry EXCEPT ![c].todo = "none"]
      BY <1>row, <3>1, <3>2, <3>4
    <3> QED
      BY <1>6, <3>3, <3>4 DEF EntryConnects
  <2>2. out' \in [Conns -> Seq(Words)]
    BY <1>6, <1>a DEF EntryConnects, Words
  <2>3. faults' \in 0..MaxFaults
    BY <1>6, <1>row, <1>f DEF EntryConnects, ChannelTypeOK
  <2> QED
    BY <1>6, <1>row, <2>1, <2>2, <2>3 DEF EntryConnects, registry, ChannelTypeOK, Words
<1>7. CASE HarnessExits(c)
  <2>1. entry' \in [Conns -> Entries]
    BY <1>7, <1>row, ZenonT(60) DEF HarnessExits, Entries
  <2>2. out' \in [Conns -> Seq(Words)]
    BY <1>7, <1>a DEF HarnessExits, Words
  <2> QED
    BY <1>7, <1>row, <1>f, <2>1, <2>2 DEF HarnessExits, registry, ChannelTypeOK, Words
<1>8. CASE EntryCloses(c)
  <2>1. PICK left \in {entry[c].harness, "dead"} :
          /\ entry' = [entry EXCEPT ![c].todo = "none", ![c].ended = TRUE, ![c].harness = left]
          /\ out' = [out EXCEPT ![c] = @ \o (IF entry[c].ended THEN <<>> ELSE <<"end">>)
                                         \o <<IF left = "dead" THEN "ok" ELSE "kept">>]
          /\ IF left = "dead" THEN UNCHANGED faults ELSE Fault
    BY <1>8 DEF EntryCloses
  <2>2. entry' \in [Conns -> Entries]
    BY <1>row, <2>1 DEF Entries
  <2>3. PICK r \in Words : r = (IF left = "dead" THEN "ok" ELSE "kept")
    BY DEF Words
  <2>4. entry[c].ended \in BOOLEAN
    BY <1>row DEF Entries
  <2>5. out[c] \o (IF entry[c].ended THEN <<>> ELSE <<"end">>) \o <<r>> \in Seq(Words)
    BY <1>row, <2>4, CloseIsWritten
  <2>6. out' \in [Conns -> Seq(Words)]
    BY <1>row, <2>1, <2>3, <2>5
  <2>7. faults' \in 0..MaxFaults
    BY <1>row, <1>f, <2>1 DEF ChannelTypeOK
  <2> QED
    BY <1>8, <1>row, <2>2, <2>6, <2>7 DEF EntryCloses, registry, ChannelTypeOK, Words
<1>9. CASE EntryDies(c)
  <2>1. entry' \in [Conns -> Entries]
    BY <1>9, <1>row, StoppedTypes DEF EntryDies
  <2> QED
    BY <1>9, <1>row, <1>f, <2>1 DEF EntryDies, registry, ChannelTypeOK
<1> QED
  BY <1>1, <1>2, <1>3, <1>4, <1>5, <1>6, <1>7, <1>8, <1>9 DEF Reading

LEMMA TypesKeep ==
    ASSUME ConnectionsInv, [ChannelNext]_channelVars
    PROVE  ChannelTypeOK'
<1>row. ChannelTypeOK /\ {"launched", "ask"} \subseteq Pcs /\ ids \subseteq Conns
  BY ChannelAssumption DEF ConnectionsInv, ChannelTypeOK, Pcs
<1>1. ASSUME NEW k \in Callers, Acquire(k) PROVE ChannelTypeOK'
  <2>1. PICK c \in Conns :
          /\ reader' = [reader EXCEPT ![c] = "reading"]
          /\ \/ /\ thread' = [thread EXCEPT ![k] = [pc |-> "launched", conn |-> c, back |-> "idle"]]
                /\ tr' = [tr EXCEPT ![c].connect = "waiting"]
                /\ entry' = [entry EXCEPT ![c].alive = TRUE, ![c].todo = "connect"]
             \/ UNCHANGED <<thread, tr, entry>>
    BY <1>1 DEF Acquire
  <2>2. k \in Threads /\ "waiting" \in Replies
    BY DEF Threads, Replies
  <2>3. reader' \in [Conns -> {"none", "reading", "exit", "claim", "settle", "done"}]
    BY <1>row, <2>1 DEF ChannelTypeOK
  <2>4. /\ thread' \in [Threads -> Works] /\ tr' \in [Conns -> Transports]
        /\ entry' \in [Conns -> Entries]
    <3>1. CASE /\ thread' = [thread EXCEPT ![k] = [pc |-> "launched", conn |-> c, back |-> "idle"]]
               /\ tr' = [tr EXCEPT ![c].connect = "waiting"]
               /\ entry' = [entry EXCEPT ![c].alive = TRUE, ![c].todo = "connect"]
      <4>1. entry' \in [Conns -> Entries]
        BY <1>row, <3>1 DEF ChannelTypeOK, Entries
      <4>2. tr' \in [Conns -> Transports]
        BY <1>row, <2>2, <3>1, TransportTypes
      <4>3. thread' \in [Threads -> Works]
        BY <1>row, <2>2, <3>1, MoveTypes
      <4> QED
        BY <4>1, <4>2, <4>3
    <3> QED
      BY <1>row, <2>1, <3>1 DEF ChannelTypeOK
  <2> QED
    BY <1>1, <1>row, <2>3, <2>4 DEF Acquire, registry, rest, ChannelTypeOK
<1>2. ASSUME NEW k \in Callers, Release(k) PROVE ChannelTypeOK'
  <2>1. k \in Threads
    BY DEF Threads
  <2>2. thread' \in [Threads -> Works]
    BY <1>2, <1>row, <2>1, MoveTypes DEF Release
  <2> QED
    BY <1>2, <1>row, <2>2 DEF Release, registry, peer, rest, ChannelTypeOK
<1>3. ASSUME NEW k \in Threads, Work(k) PROVE ChannelTypeOK'
  BY <1>3, WorkTypes
<1>4. ASSUME NEW c \in Conns,
             Reading(c) \/ EntryConnects(c) \/ HarnessExits(c) \/ EntryCloses(c) \/ EntryDies(c)
      PROVE  ChannelTypeOK'
  BY <1>4, ConnectionTypes
<1>5. ASSUME NEW s \in Sockets, Admit(s) \/ Attach(s) \/ Detach(s) PROVE ChannelTypeOK'
  <2>1. /\ Closed \in Relays /\ socket[s] \in Relays
           /\ [socket[s] EXCEPT !.state = "attached"] \in Relays
        /\ \A c \in ids : [state |-> "admitted", conn |-> c] \in Relays
    BY <1>row DEF Closed, Relays, ChannelTypeOK
  <2>2. socket' \in [Sockets -> Relays]
    BY <1>5, <1>row, <2>1 DEF Admit, Attach, Detach, ChannelTypeOK
  <2> QED
    BY <1>5, <1>row, <2>2 DEF Admit, Attach, Detach, registry, peer, ChannelTypeOK
<1>6. CASE StopServer
  BY <1>6, <1>row DEF StopServer, registry, peer, ChannelTypeOK
<1>7. CASE StopNext
  <2>1. Stopper \in Threads
    BY DEF Threads
  <2>2. thread' \in [Threads -> Works]
    BY <1>7, <1>row, <2>1, MoveTypes DEF StopNext, ChannelTypeOK
  <2> QED
    BY <1>7, <1>row, <2>2 DEF StopNext, registry, peer, ChannelTypeOK
<1>8. CASE UNCHANGED channelVars
  BY <1>8, <1>row DEF channelVars, ChannelTypeOK
<1> QED
  BY <1>1, <1>2, <1>3, <1>4, <1>5, <1>6, <1>7, <1>8 DEF ChannelNext, Call

-----------------------------------------------------------------------------
(* The sockets and the shutdown *)

LEMMA FinishTells ==
    ASSUME ChannelTypeOK, EndedIsTold, Listening, NEW c \in Conns, Finish(c)
    PROVE  EndedIsTold' /\ Listening'
<1>1. chan' = [chan EXCEPT ![c].ended = TRUE] /\ chan \in [Conns -> Ends]
  BY DEF Finish, ChannelTypeOK
<1>2. ASSUME NEW s \in Sockets
      PROVE  IF Told(s, c) THEN socket'[s].state = "none" ELSE socket'[s] = socket[s]
  BY DEF Finish, Closed
<1>3. ASSUME NEW s \in Sockets, socket'[s].state = "attached"
      PROVE  ~chan'[socket'[s].conn].ended
  <2>1. socket'[s] = socket[s] /\ ~Told(s, c) /\ socket[s].conn \in Conns
    BY <1>2, <1>3 DEF Listening
  <2>2. ~chan[socket[s].conn].ended
    BY <1>3, <2>1 DEF EndedIsTold
  <2>3. socket[s].conn # c
    BY <1>3, <2>1, <2>2 DEF Told
  <2> QED
    BY <1>1, <2>1, <2>2, <2>3
<1>4. \A s \in Sockets : socket'[s].state # "none" => socket'[s].conn \in Conns
  BY <1>2 DEF Listening
<1> QED
  BY <1>3, <1>4 DEF EndedIsTold, Listening

LEMMA OthersTell ==
    ASSUME ChannelTypeOK, EndedIsTold, Listening, socket' = socket,
           \A c \in Conns : chan'[c].ended = chan[c].ended
    PROVE  EndedIsTold' /\ Listening'
BY DEF EndedIsTold, Listening

LEMMA SocketsTold ==
    ASSUME ConnectionsInv, EndedIsTold, Listening, [ChannelNext]_channelVars
    PROVE  EndedIsTold' /\ Listening'
<1>row. ChannelTypeOK /\ ids \subseteq Conns
  BY ChannelAssumption DEF ConnectionsInv, ChannelTypeOK
<1>q. socket' = socket /\ chan' = chan => EndedIsTold' /\ Listening'
  BY <1>row, OthersTell
<1>1. ASSUME NEW k \in Callers, Call(k) PROVE EndedIsTold' /\ Listening'
  BY <1>1, <1>q DEF Call, Acquire, Release, registry, peer, rest
<1>2. ASSUME NEW k \in Threads, Work(k) PROVE EndedIsTold' /\ Listening'
  <2>1. CASE \/ Connected(k) \/ OpenRun(k) \/ Register(k) \/ Ask(k) \/ Await(k)
             \/ LastAsk(k) \/ LastWait(k) \/ StopEntry(k)
    BY <2>1, <1>q DEF Connected, OpenRun, Register, Ask, Await, LastAsk, LastWait, StopEntry, 
                      registry, peer, rest
  <2>2. CASE Superseded(k) \/ CheckExit(k) \/ Claim(k) \/ Settle(k)
    <3>1. Conn(k) \in Conns
      BY <2>2, AtConn DEF Superseded, CheckExit, Claim, Settle, At
    <3>2. PICK c \in Conns : c = Conn(k)
      BY <3>1
    <3>3. Finish(c) \/ (socket' = socket /\ chan' = chan)
      BY <2>2, <3>2 DEF Superseded, CheckExit, Claim, Settle
    <3> QED
      BY <1>row, <1>q, <3>3, FinishTells
  <2> QED
    BY <1>2, <2>1, <2>2 DEF Work
<1>3. ASSUME NEW c \in Conns,
             Reading(c) \/ EntryConnects(c) \/ HarnessExits(c) \/ EntryCloses(c) \/ EntryDies(c)
      PROVE  EndedIsTold' /\ Listening'
  <2>1. CASE \/ Read(c) \/ Abandon(c) \/ EntryConnects(c) \/ HarnessExits(c) \/ EntryCloses(c)
             \/ EntryDies(c)
    BY <2>1, <1>q DEF Read, Abandon, EntryConnects, HarnessExits, EntryCloses, EntryDies, 
                      registry, peer, rest
  <2>2. CASE NoteExit(c)
    <3>1. socket' = socket /\ chan' = [chan EXCEPT ![c].exit = TRUE]
      BY <2>2 DEF NoteExit, rest
    <3>2. \A d \in Conns : chan'[d].ended = chan[d].ended
      BY <1>row, <3>1 DEF ChannelTypeOK, Ends
    <3> QED
      BY <1>row, <3>1, <3>2, OthersTell
  <2>3. CASE ClaimExit(c) \/ SettleExit(c)
    <3>1. Finish(c) \/ (socket' = socket /\ chan' = chan)
      BY <2>3 DEF ClaimExit, SettleExit, Leave
    <3> QED
      BY <1>row, <1>q, <3>1, FinishTells
  <2> QED
    BY <1>3, <2>1, <2>2, <2>3 DEF Reading
<1>4. ASSUME NEW s \in Sockets, Admit(s) \/ Attach(s) \/ Detach(s)
      PROVE  EndedIsTold' /\ Listening'
  <2>1. chan' = chan /\ \A z \in Sockets \ {s} : socket'[z] = socket[z]
    BY <1>4, <1>row DEF Admit, Attach, Detach, ChannelTypeOK
  <2>2. /\ socket'[s].state # "none" => socket'[s].conn \in Conns
        /\ socket'[s].state = "attached" => ~chan[socket'[s].conn].ended
    <3>1. CASE Admit(s)
      BY <3>1, <1>row DEF Admit, ChannelTypeOK
    <3>2. CASE Attach(s)
      <4>1. CASE Attachable(socket[s].conn)
        <5>1. socket' = [socket EXCEPT ![s] = [@ EXCEPT !.state = "attached"]]
          BY <3>2, <4>1 DEF Attach
        <5>2. socket[s].state # "none" /\ socket[s] \in Relays
          BY <3>2, <1>row DEF Attach, ChannelTypeOK
        <5>3. socket'[s].conn = socket[s].conn
          BY <1>row, <5>1, <5>2 DEF ChannelTypeOK, Relays
        <5> QED
          BY <4>1, <5>2, <5>3 DEF Listening, Attachable
      <4>2. CASE ~Attachable(socket[s].conn)
        BY <3>2, <4>2, <1>row DEF Attach, Closed, ChannelTypeOK
      <4> QED
        BY <4>1, <4>2
    <3>3. CASE Detach(s)
      BY <3>3, <1>row DEF Detach, Closed, ChannelTypeOK
    <3> QED
      BY <1>4, <3>1, <3>2, <3>3
  <2> QED
    BY <2>1, <2>2 DEF EndedIsTold, Listening
<1>5. CASE StopServer \/ StopNext \/ UNCHANGED channelVars
  BY <1>5, <1>q DEF StopServer, StopNext, channelVars
<1> QED
  BY <1>1, <1>2, <1>3, <1>4, <1>5 DEF ChannelNext

LEMMA ShutDownKeeps ==
    ASSUME ConnectionsInv, ShutDown, [ChannelNext]_channelVars
    PROVE  ShutDown'
<1>row. /\ ChannelTypeOK /\ Stopper \in Threads /\ Stopper \notin Callers
      /\ Callers \subseteq Threads
  BY ChannelAssumption DEF ConnectionsInv, Threads
<1>1. ASSUME NEW k \in Callers, Call(k) PROVE ShutDown'
  <2>1. server = "up" /\ server' = server
    BY <1>1 DEF Call, Acquire, Release, rest
  <2> QED
    BY <2>1 DEF ShutDown
<1>2. ASSUME NEW k \in Threads, Work(k) PROVE ShutDown'
  <2>1. thread[k].pc # "idle" /\ server' = server
    BY <1>2 DEF Work, At, Connected, OpenRun, Register, Superseded, CheckExit, Ask, Await, 
                Claim, Settle, LastAsk, LastWait, StopEntry, rest
  <2>2. \A j \in Threads \ {k} : thread'[j] = thread[j]
    BY <1>2, WorkHere DEF Local
  <2>3. ThreadAt(k)
    BY DEF ConnectionsInv
  <2>4. k \notin Callers => ids' \subseteq ids
    BY <1>2, <2>3 DEF Work, Connected, OpenRun, Register, Superseded, CheckExit, Ask, Await, 
          Claim, Settle, LastAsk, LastWait, StopEntry, Unregister, registry, ThreadAt, Opening, At
  <2> QED
    BY <1>row, <2>1, <2>2, <2>4 DEF ShutDown
<1>3. ASSUME NEW c \in Conns,
             Reading(c) \/ EntryConnects(c) \/ HarnessExits(c) \/ EntryCloses(c) \/ EntryDies(c)
      PROVE  ShutDown'
  <2>1. server' = server /\ ids' \subseteq ids
    BY <1>3 DEF Reading, Read, Abandon, NoteExit, ClaimExit, SettleExit, EntryConnects, 
                HarnessExits, EntryCloses, EntryDies, Unregister, registry, rest
  <2>2. Cleaner(c) \in Threads \ (Callers \cup {Stopper})
    BY CleanersDiffer
  <2>3. \A j \in Threads \ {Cleaner(c)} : thread'[j] = thread[j]
    BY <1>3, ConnectionHere DEF Local
  <2> QED
    BY <1>row, <2>1, <2>2, <2>3 DEF ShutDown
<1>4. ASSUME NEW s \in Sockets, Admit(s) \/ Attach(s) \/ Detach(s) PROVE ShutDown'
  BY <1>4 DEF Admit, Attach, Detach, ShutDown, registry
<1>5. CASE StopServer
  BY <1>5 DEF StopServer, ShutDown, registry, At
<1>6. CASE StopNext
  <2>1. \A k \in Callers : thread'[k] = thread[k]
    BY <1>6, <1>row DEF StopNext, ChannelTypeOK
  <2> QED
    BY <1>6, <1>row, <2>1 DEF StopNext, ShutDown, registry, At
<1>7. CASE UNCHANGED channelVars
  BY <1>7 DEF channelVars, ShutDown
<1> QED
  BY <1>1, <1>2, <1>3, <1>4, <1>5, <1>6, <1>7 DEF ChannelNext

-----------------------------------------------------------------------------
(* Theorems *)

LEMMA ChannelStarts == ChannelInit => ChannelInv
<1> SUFFICES ASSUME ChannelInit PROVE ChannelInv
  OBVIOUS
<1>1. ChannelTypeOK
  <2>1. /\ Made \in Ends /\ Unstarted \in Transports /\ AtRest \in Works /\ Closed \in Relays
        /\ [alive |-> FALSE, todo |-> "none", ended |-> FALSE, harness |-> "none"] \in Entries
    BY DEF Made, Ends, Unstarted, Transports, Replies, AtRest, Works, Pcs, Closed, Relays,
       Entries
  <2>2. 0 \in 0..MaxFaults
    BY ChannelAssumption
  <2> QED
    BY <2>1, <2>2 DEF ChannelInit, ChannelTypeOK
<1>2. \A k \in Threads : thread[k] = AtRest /\ thread[k].pc = "idle" /\ Conn(k) = None
  BY DEF ChannelInit, AtRest, Conn
<1>3. ASSUME NEW c \in Conns PROVE ConnInv(c)
  <2>1. c # None /\ Cleaner(c) \in Threads /\ Stopper \in Threads /\ reader[c] = "none"
    BY ChannelAssumption, CleanersDiffer DEF ChannelInit, Threads
  <2>2. /\ entry[c] = NoEntry /\ tr[c] = Unstarted /\ out[c] = <<>> /\ run[c] = "none"
           /\ ids = {}
    BY DEF ChannelInit, NoEntry
  <2>3. FreshAt(c) /\ OwnedAt(c) /\ ReportedAt(c)
    BY <1>2, <2>1, <2>2 DEF FreshAt, OwnedAt, ReportedAt
  <2>4. AnswersAt(c)
    BY <2>2, NothingWritten DEF AnswersAt, NoEntry, Unstarted
  <2>5. CleanerAt(c)
    BY <1>2, <2>1, <2>2 DEF CleanerAt, Exiting
  <2>6. StoppingAt(c)
    BY <2>2 DEF StoppingAt, NoEntry
  <2> QED
    BY <2>3, <2>4, <2>5, <2>6 DEF ConnInv
<1>4. ASSUME NEW k \in Threads PROVE ThreadAt(k) /\ OpenerAt(k)
  BY <1>2 DEF ThreadAt, OpenerAt, AtRest, Established, Opening
<1>5. Server
  BY <1>2 DEF Server, ShutDown, EndedIsTold, Listening, ChannelInit, Closed
<1> QED
  BY <1>1, <1>3, <1>4, <1>5 DEF ChannelInv, ConnectionsInv

LEMMA ChannelKeeps == ChannelInv /\ [ChannelNext]_channelVars => ChannelInv'
<1> SUFFICES ASSUME ChannelInv, [ChannelNext]_channelVars PROVE ChannelInv'
  OBVIOUS
<1>1. ConnectionsInv /\ ShutDown /\ EndedIsTold /\ Listening
  BY DEF ChannelInv, Server
<1>2. ChannelTypeOK'
  BY <1>1, TypesKeep
<1>3. Kept'
  BY <1>1, PartsKeep
<1>4. ShutDown' /\ EndedIsTold' /\ Listening'
  BY <1>1, ShutDownKeeps, SocketsTold
<1> QED
  BY <1>2, <1>3, <1>4 DEF ChannelInv, ConnectionsInv, Kept, Server

LEMMA ChannelHolds == ChannelSpec => []ChannelInv
BY ChannelStarts, ChannelKeeps, PTL DEF ChannelSpec

\* The registry's tables agree with each other, and the connections, threads and sockets
\* keep their types (registry.py:111-118, 148-156).
THEOREM ChannelTypes == ChannelSpec => []ChannelTypeOK
<1>1. ChannelInv => ChannelTypeOK
  BY DEF ChannelInv, ConnectionsInv
<1> QED
  BY <1>1, ChannelHolds, PTL

\* For any number of callers and connections: `released` is answered, and a run is closed
\* as released, only when the Harness is proved gone (access_entry.py:196-219,
\* registry.py:200-214).
THEOREM NoUnprovedRelease == ChannelSpec => []ReleasesAreProved
<1>1. ChannelInv => ReleasesAreProved
  BY DEF ChannelInv, ConnectionsInv, ThreadAt, ReleasesAreProved
<1> QED
  BY <1>1, ChannelHolds, PTL

\* A socket that is attached listens to a channel that has not ended, however an attach
\* races the end (registry.py:55-64, 78-100).
THEOREM EverySocketIsTold == ChannelSpec => []EndedIsTold
<1>1. ChannelInv => EndedIsTold
  BY DEF ChannelInv, Server
<1> QED
  BY <1>1, ChannelHolds, PTL

\* Once stop_all is over no run is active but one whose reader is ending it, and no entry
\* runs but under its clean-up thread (registry.py:215-236, access_entry.py:310-317).
THEOREM StopIsComplete == ChannelSpec => []StopLeavesNothing
<1>1. ChannelInv => StopLeavesNothing
  <2> SUFFICES ASSUME ChannelInv, server = "stopped", NEW c \in Conns
               PROVE  /\ run[c] # "active" \/ Exiting(c)
                      /\ entry[c].alive => Exiting(c) \/ Conn(Cleaner(c)) = c
    BY DEF StopLeavesNothing
  <2>1. ConnInv(c) /\ ids = {} /\ c # None
    BY ChannelAssumption DEF ChannelInv, ConnectionsInv, Server, ShutDown
  <2>2. ASSUME NEW k \in Threads, Conn(k) = c, thread[k].pc # "idle"
        PROVE  k = Cleaner(c) /\ thread[k].pc \in Terminating
    <3>1. PICK d \in Conns : k = Cleaner(d)
      BY <2>2, CleanersDiffer DEF ChannelInv, Server, ShutDown
    <3>2. CleanerAt(d)
      BY DEF ChannelInv, ConnectionsInv, ConnInv
    <3> QED
      BY <2>1, <2>2, <3>1, <3>2 DEF CleanerAt
  <2>3. ~With(c, {"register", "superseded", "settle"})
    BY <2>2 DEF With, Terminating
  <2>4. With(c, Opening \cup Terminating) => Conn(Cleaner(c)) = c
    BY <2>2 DEF With, Opening, Terminating
  <2> QED
    BY <2>1, <2>3, <2>4 DEF ConnInv, OwnedAt, StoppingAt, Exiting
<1> QED
  BY <1>1, ChannelHolds, PTL

\* The end of an entry or of its Harness is on its way to its run as long as that is active
\* and no release of it was answered `not released`; after such an answer the end is not
\* reported, and the run is still in the registry for the next release or stop_all
\* (access_entry.py:142-143, 303-317, registry.py:164-168, 215-228, 246-265).
THEOREM NoDeathIsMissed == ChannelSpec => []DeathsAreNoticed
<1>1. ChannelInv => DeathsAreNoticed
  <2> SUFFICES ASSUME ChannelInv, NEW c \in Conns, run[c] = "active"
               PROVE  Working(c) \/ Exiting(c) \/ News(c) \/ Held(c)
    BY DEF DeathsAreNoticed, Over
  <2>1. ConnInv(c) /\ ChannelTypeOK
    BY DEF ChannelInv, ConnectionsInv
  <2>2. \A pcs : With(c, pcs) => Working(c)
    BY DEF With, Working
  <2>3. StopperAt(c) => Working(c)
    BY DEF StopperAt, Working, Threads
  <2>4. c \in ids \/ Working(c) \/ Exiting(c)
    BY <2>1, <2>2 DEF ConnInv, OwnedAt, Exiting
  <2>5. CASE c \in ids /\ tr[c].reported
    BY <2>1, <2>2, <2>3, <2>5 DEF ConnInv, ReportedAt, Held
  <2>6. CASE c \in ids /\ ~tr[c].reported
    BY <2>1, <2>6 DEF ConnInv, FreshAt, CleanerAt, Exiting, News, ChannelTypeOK
  <2> QED
    BY <2>4, <2>5, <2>6
<1> QED
  BY <1>1, ChannelHolds, PTL

=============================================================================
