------------------------- MODULE SessionLedger_proofs -------------------------
(***************************************************************************)
(* Safety of the session ledger for every set of sessions, profiles, turns, *)
(* items and keys.  The inductive invariant adds to the promises two facts  *)
(* about rows: what a row refers to exists, and a thread owes a Turn only   *)
(* what its state still lacks.  Items, roles and keys add three more, read  *)
(* from the shapes a step can have; with them every step of the rows is a   *)
(* step of SendPromise or invisible to it.                                  *)
(***************************************************************************)
EXTENDS SessionLedger, TLAPS

\* Every row that exists refers to a session and a profile that exist.
RowsAreLinked ==
    /\ \A t \in Turns : turn[t].state # "absent" =>
          /\ turn[t].session \in Sessions /\ turn[t].profile \in Profiles
          /\ session[turn[t].session].status # "absent"
    /\ \A s \in Sessions : session[s].status # "absent" => session[s].profile \in Profiles
    /\ \A i \in Items : item[i].state # "absent" =>
          /\ item[i].session \in Sessions /\ item[i].profile \in Profiles

\* A thread owes a step only to a Turn that has not taken it.
DutyMatches ==
    \A t \in Turns :
        /\ duty[t] \in {"file", "dispatch", "abandoned"} => turn[t].state = "accepted"
        /\ duty[t] = "complete" => turn[t].state = "running"

IInv == TypeOK /\ RowsAreLinked /\ DutyMatches /\ OneActiveTurn /\ ExclusiveHome
        /\ StatusTracksTurns


-----------------------------------------------------------------------------
(* Types *)

\* The two rewritings of the queue and the settling of a profile keep its rows'
\* type.
LEMMA QueueRewriteTypes ==
    ASSUME TypeOK, NEW t \in Turns, NEW s, NEW e \in {"completed", "failed", "cancelled"}
    PROVE  /\ MarkedTerminal(t, e) \in [Items -> ItemRow]
           /\ Paused(s, MarkedTerminal(t, e)) \in [Items -> ItemRow]
  BY DEF TypeOK, MarkedTerminal, Paused, Pending, ItemRow, EndedItem

LEMMA SettledTypes ==
    ASSUME TypeOK, NEW t \in Turns, NEW e \in BOOLEAN
    PROVE  Settled(t, e) \in [Profiles -> ProfileRow]
  BY DEF TypeOK, Settled, ProfileRow

LEMMA KeepEvidenceType ==
    ASSUME TypeOK, NEW t \in Turns, turn[t].profile \in Profiles
    PROVE  KeepEvidence(t) \in BOOLEAN
  BY DEF TypeOK, KeepEvidence, ProfileRow

LEMMA NewTurnType ==
    ASSUME NEW s \in Sessions, NEW p \in Profiles, NEW i \in Items \cup {NULL}
    PROVE  NewTurn(s, p, i) \in TurnRow
  BY DEF NewTurn, TurnRow, ActiveStates

LEMMA TypeInit == Init => TypeOK
<1> SUFFICES ASSUME Init PROVE TypeOK
  OBVIOUS
<1>1. session \in [Sessions -> SessionRow] /\ profile \in [Profiles -> ProfileRow]
  BY DEF Init, SessionRow, ProfileRow
<1>2. turn \in [Turns -> TurnRow]
  BY DEF Init, TurnRow, NewTurn
<1>3. item \in [Items -> ItemRow]
  BY DEF Init, ItemRow
<1>4. receipt \in [Keys -> Receipt \cup {NULL}] /\ duty \in [Turns -> Duty]
  BY DEF Init, Duty
<1>5. clock \in Nat /\ restarts \in 0..MaxRestarts /\ abandoned \in 0..MaxAbandoned
  BY LedgerAssumption DEF Init
<1> QED BY <1>1, <1>2, <1>3, <1>4, <1>5 DEF TypeOK

LEMMA TypeStep == TypeOK /\ RowsAreLinked /\ DutyMatches /\ [Next]_vars => TypeOK'
<1> SUFFICES ASSUME TypeOK, RowsAreLinked, DutyMatches, [Next]_vars PROVE TypeOK'
  OBVIOUS
<1> USE LedgerAssumption
<1>1. ASSUME NEW s \in Sessions, NEW p \in Profiles, CreateSession(s, p) PROVE TypeOK'
  BY <1>1 DEF CreateSession, TypeOK, SessionRow
<1>2. ASSUME NEW r \in SendIds, NEW s \in Sessions, NEW p \in Profiles, AcceptIntent(r, s, p)
      PROVE  TypeOK'
  <2>1. turn' \in [Turns -> TurnRow] /\ duty' \in [Turns -> Duty]
    BY <1>2, NewTurnType DEF AcceptIntent, TypeOK, Duty
  <2>2. session' \in [Sessions -> SessionRow]
    BY <1>2 DEF AcceptIntent, TypeOK, SessionRow
  <2>5. profile' \in [Profiles -> ProfileRow]
    BY <1>2 DEF AcceptIntent, TypeOK, ProfileRow
  <2>3. item' \in [Items -> ItemRow] /\ clock' \in Nat
    BY <1>2 DEF AcceptIntent, TypeOK, ItemRow
  <2>4. receipt' \in [Keys -> Receipt \cup {NULL}]
    BY <1>2 DEF AcceptIntent, TypeOK, Receipt, Keys
  <2> QED BY <1>2, <2>1, <2>2, <2>3, <2>4, <2>5 DEF AcceptIntent, TypeOK
<1>3. ASSUME NEW k \in TurnKeys, NEW s \in Sessions, CreateTurn(k, s) PROVE TypeOK'
  <2>1. session[s].profile \in Profiles
    BY <1>3 DEF CreateTurn, RowsAreLinked
  <2>2. turn' \in [Turns -> TurnRow] /\ duty' \in [Turns -> Duty]
    BY <1>3, <2>1, NewTurnType DEF CreateTurn, TypeOK, Duty
  <2>3. session' \in [Sessions -> SessionRow] /\ profile' \in [Profiles -> ProfileRow]
    BY <1>3, <2>1 DEF CreateTurn, TypeOK, SessionRow, ProfileRow
  <2>4. receipt' \in [Keys -> Receipt \cup {NULL}]
    BY <1>3 DEF CreateTurn, TypeOK, Receipt, Keys
  <2> QED BY <1>3, <2>2, <2>3, <2>4 DEF CreateTurn, TypeOK
<1>4. ASSUME NEW i \in Items, Withdraw(i) PROVE TypeOK'
  BY <1>4 DEF Withdraw, TypeOK, ItemRow
<1>5. ASSUME NEW s \in Sessions, NEW p \in Profiles, SwitchProfile(s, p) PROVE TypeOK'
  BY <1>5 DEF SwitchProfile, TypeOK, SessionRow
<1>6. ASSUME NEW s \in Sessions, ArchiveSession(s) PROVE TypeOK'
  BY <1>6 DEF ArchiveSession, TypeOK, SessionRow
<1>7. ASSUME NEW p \in Profiles, ArchiveProfile(p) PROVE TypeOK'
  BY <1>7 DEF ArchiveProfile, TypeOK, ProfileRow
<1>8. ASSUME NEW t \in Turns, FileCoreRecords(t) PROVE TypeOK'
  <2>1. turn' = [turn EXCEPT ![t] = [turn[t] EXCEPT !.filed = TRUE, !.state = "accepted"]]
    BY <1>8 DEF FileCoreRecords, TypeOK
  <2>2. [turn[t] EXCEPT !.filed = TRUE, !.state = "accepted"] \in TurnRow
    BY ZenonT(40) DEF TypeOK, TurnRow, ActiveStates
  <2>3. turn' \in [Turns -> TurnRow]
    BY <2>1, <2>2 DEF TypeOK
  <2> QED BY <1>8, <2>3 DEF FileCoreRecords, TypeOK, Duty
<1>9. ASSUME NEW t \in Turns, Abandon(t) PROVE TypeOK'
  BY <1>9 DEF Abandon, TypeOK, Duty
<1>10. ASSUME NEW t \in Turns, DispatchTurn(t) PROVE TypeOK'
  BY <1>10 DEF DispatchTurn, TypeOK, TurnRow, Duty, ActiveStates
<1>11. ASSUME NEW t \in Turns, CompleteTurn(t) PROVE TypeOK'
  <2> DEFINE s == turn[t].session
  <2>1. s \in Sessions /\ turn[t].profile \in Profiles
    BY <1>11 DEF CompleteTurn, RowsAreLinked
  <2>2. /\ MarkedTerminal(t, "completed") \in [Items -> ItemRow]
        /\ Settled(t, KeepEvidence(t)) \in [Profiles -> ProfileRow]
    <3>1. KeepEvidence(t) \in BOOLEAN
      BY <2>1, KeepEvidenceType
    <3> QED BY <3>1, QueueRewriteTypes, SettledTypes
  <2>3. [turn EXCEPT ![t].state = "completed"] \in [Turns -> TurnRow]
    BY DEF TypeOK, TurnRow, TerminalStates
  <2>4. CASE Pending(s) = {}
    BY <1>11, <2>2, <2>3, <2>4 DEF CompleteTurn, TypeOK, SessionRow, Duty
  <2>5. CASE Pending(s) # {}
    <3>1. PICK i \in Oldest(s), u \in Turns :
             /\ turn' = [[turn EXCEPT ![t].state = "completed"] EXCEPT
                            ![u] = NewTurn(s, item[i].profile, i)]
             /\ duty' = [duty EXCEPT ![t] = "none", ![u] = "file"]
             /\ item' = [MarkedTerminal(t, "completed") EXCEPT ![i].state = "dispatched"]
             /\ profile' = [Settled(t, KeepEvidence(t)) EXCEPT
                               ![item[i].profile].run_state = "active"]
      BY <1>11, <2>5 DEF CompleteTurn
    <3>2. i \in Items /\ item[i].profile \in Profiles
      BY DEF Oldest, Pending, RowsAreLinked
    <3>3. turn' \in [Turns -> TurnRow]
      BY <3>1, <3>2, <2>1, <2>3, NewTurnType
    <3>4. item' \in [Items -> ItemRow]
      BY <3>1, <3>2, <2>2 DEF ItemRow
    <3>5. profile' \in [Profiles -> ProfileRow]
      BY <3>1, <3>2, <2>2 DEF ProfileRow
    <3>6. session' \in [Sessions -> SessionRow]
      BY <1>11 DEF CompleteTurn, TypeOK, SessionRow
    <3>7. duty' \in [Turns -> Duty]
      BY <3>1 DEF TypeOK, Duty
    <3> QED BY <1>11, <3>3, <3>4, <3>5, <3>6, <3>7 DEF CompleteTurn, TypeOK
  <2> QED BY <2>4, <2>5
<1>12. ASSUME NEW t \in Turns, FinishCancelled(t) PROVE TypeOK'
  <2>1. turn[t].profile \in Profiles
    BY <1>12 DEF FinishCancelled, RowsAreLinked, DutyMatches
  <2>2. /\ Settled(t, KeepEvidence(t)) \in [Profiles -> ProfileRow]
        /\ Paused(turn[t].session, MarkedTerminal(t, "cancelled")) \in [Items -> ItemRow]
    <3>1. KeepEvidence(t) \in BOOLEAN
      BY <2>1, KeepEvidenceType
    <3> QED BY <3>1, QueueRewriteTypes, SettledTypes
  <2>3. turn' \in [Turns -> TurnRow] /\ duty' \in [Turns -> Duty]
    BY ZenonT(40), <1>12 DEF FinishCancelled, TypeOK, TurnRow, Duty, TerminalStates
  <2> QED BY <1>12, <2>2, <2>3 DEF FinishCancelled, TypeOK, SessionRow
<1>13. ASSUME NEW t \in Turns, NEW a \in BOOLEAN, FailTurn(t, a) PROVE TypeOK'
  <2> DEFINE r == a \/ turn[t].state \in {"running", "capturing"}
  <2>1. /\ Settled(t, r) \in [Profiles -> ProfileRow]
        /\ Paused(turn[t].session, MarkedTerminal(t, "failed")) \in [Items -> ItemRow]
    BY QueueRewriteTypes, SettledTypes
  <2>2. turn' \in [Turns -> TurnRow] /\ duty' \in [Turns -> Duty]
    BY <1>13 DEF FailTurn, TypeOK, TurnRow, Duty, TerminalStates
  <2>3. session' \in [Sessions -> SessionRow]
    BY ZenonT(40), <1>13 DEF FailTurn, TypeOK, SessionRow
  <2>4. profile' = Settled(t, r) /\ item' = Paused(turn[t].session, MarkedTerminal(t, "failed"))
    BY <1>13 DEF FailTurn
  <2>5. UNCHANGED <<receipt, clock, restarts, abandoned>>
    BY <1>13 DEF FailTurn
  <2> QED BY <2>1, <2>2, <2>3, <2>4, <2>5 DEF TypeOK
<1>14. ASSUME Restart PROVE TypeOK'
  <2>1. turn' \in [Turns -> TurnRow]
    BY ZenonT(40), <1>14 DEF Restart, TypeOK, TurnRow, TerminalStates
  <2>2. session' \in [Sessions -> SessionRow]
    BY <1>14 DEF Restart, TypeOK, SessionRow
  <2>3. profile' \in [Profiles -> ProfileRow]
    BY <1>14 DEF Restart, TypeOK, ProfileRow
  <2>4. duty' \in [Turns -> Duty]
    BY <1>14 DEF Restart, SurvivingDuty, Duty
  <2>5. restarts' \in 0..MaxRestarts
    <3>1. restarts < MaxRestarts /\ restarts' = restarts + 1
      BY <1>14 DEF Restart
    <3>2. restarts \in 0..MaxRestarts
      BY DEF TypeOK
    <3> QED BY <3>1, <3>2, LedgerAssumption
  <2> QED BY <1>14, <2>1, <2>2, <2>3, <2>4, <2>5 DEF Restart, TypeOK
<1>15. CASE UNCHANGED vars
  BY <1>15 DEF vars, TypeOK
<1> QED
  BY <1>1, <1>2, <1>3, <1>4, <1>5, <1>6, <1>7, <1>8, <1>9, <1>10, <1>11, <1>12, <1>13,
     <1>14, <1>15 DEF Next, Client, Worker

-----------------------------------------------------------------------------
(* Rows refer to rows, and threads to the turns that wait for them *)

LEMMA LinkInit == Init => RowsAreLinked /\ DutyMatches
  BY DEF Init, RowsAreLinked, DutyMatches, NewTurn

LEMMA LinkStep ==
    TypeOK /\ RowsAreLinked /\ DutyMatches /\ [Next]_vars => RowsAreLinked' /\ DutyMatches'
<1> SUFFICES ASSUME TypeOK, RowsAreLinked, DutyMatches, [Next]_vars
             PROVE  RowsAreLinked' /\ DutyMatches'
  OBVIOUS
<1>1. ASSUME NEW s \in Sessions, NEW p \in Profiles, CreateSession(s, p)
      PROVE  RowsAreLinked' /\ DutyMatches'
  BY <1>1 DEF CreateSession, TypeOK, SessionRow, RowsAreLinked, DutyMatches
<1>2. ASSUME NEW r \in SendIds, NEW s \in Sessions, NEW p \in Profiles, AcceptIntent(r, s, p)
      PROVE  RowsAreLinked' /\ DutyMatches'
  <2>1. CASE SessionBusy(s)
    BY <1>2, <2>1 DEF AcceptIntent, TypeOK, ItemRow, RowsAreLinked, DutyMatches
  <2>2. CASE ~SessionBusy(s)
    <3>1. PICK t \in Turns : /\ turn[t].state = "absent"
                             /\ turn' = [turn EXCEPT ![t] = NewTurn(s, p, NULL)]
                             /\ duty' = [duty EXCEPT ![t] = "file"]
      BY <1>2, <2>2 DEF AcceptIntent
    <3>2. /\ session'[s].status = "active" /\ session'[s].profile = p
          /\ \A o \in Sessions \ {s} : session'[o] = session[o]
          /\ item' = item
      BY <1>2, <2>2 DEF AcceptIntent, TypeOK, SessionRow
    <3>3. RowsAreLinked'
      BY <3>1, <3>2 DEF TypeOK, NewTurn, RowsAreLinked
    <3>4. DutyMatches'
      BY <3>1 DEF TypeOK, NewTurn, DutyMatches
    <3> QED BY <3>3, <3>4
  <2> QED BY <2>1, <2>2
<1>3. ASSUME NEW k \in TurnKeys, NEW s \in Sessions, CreateTurn(k, s)
      PROVE  RowsAreLinked' /\ DutyMatches'
  <2>1. PICK t \in Turns :
           /\ turn[t].state = "absent"
           /\ turn' = [turn EXCEPT ![t] = NewTurn(s, session[s].profile, NULL)]
           /\ duty' = [duty EXCEPT ![t] = "file"]
    BY <1>3 DEF CreateTurn
  <2>2. /\ session[s].profile \in Profiles /\ item' = item
        /\ session' = [session EXCEPT ![s].status = "active"]
    BY <1>3 DEF CreateTurn, RowsAreLinked
  <2>3. RowsAreLinked'
    BY <2>1, <2>2 DEF TypeOK, SessionRow, NewTurn, RowsAreLinked
  <2>4. DutyMatches'
    BY <2>1 DEF TypeOK, NewTurn, DutyMatches
  <2> QED BY <2>3, <2>4
<1>4. ASSUME NEW i \in Items, Withdraw(i) PROVE RowsAreLinked' /\ DutyMatches'
  BY <1>4 DEF Withdraw, TypeOK, ItemRow, RowsAreLinked, DutyMatches
<1>5. ASSUME NEW s \in Sessions, NEW p \in Profiles, SwitchProfile(s, p)
      PROVE  RowsAreLinked' /\ DutyMatches'
  BY <1>5 DEF SwitchProfile, TypeOK, SessionRow, RowsAreLinked, DutyMatches
<1>6. ASSUME NEW s \in Sessions, ArchiveSession(s) PROVE RowsAreLinked' /\ DutyMatches'
  BY <1>6 DEF ArchiveSession, TypeOK, SessionRow, RowsAreLinked, DutyMatches
<1>7. ASSUME NEW p \in Profiles, ArchiveProfile(p) PROVE RowsAreLinked' /\ DutyMatches'
  BY <1>7 DEF ArchiveProfile, RowsAreLinked, DutyMatches
<1>8. ASSUME NEW t \in Turns, FileCoreRecords(t) PROVE RowsAreLinked' /\ DutyMatches'
  BY <1>8 DEF FileCoreRecords, TypeOK, TurnRow, RowsAreLinked, DutyMatches
<1>9. ASSUME NEW t \in Turns, Abandon(t) PROVE RowsAreLinked' /\ DutyMatches'
  BY <1>9 DEF Abandon, TypeOK, RowsAreLinked, DutyMatches
<1>10. ASSUME NEW t \in Turns, DispatchTurn(t) PROVE RowsAreLinked' /\ DutyMatches'
  BY <1>10 DEF DispatchTurn, TypeOK, TurnRow, RowsAreLinked, DutyMatches
<1>11. ASSUME NEW t \in Turns, CompleteTurn(t) PROVE RowsAreLinked' /\ DutyMatches'
  <2> DEFINE s == turn[t].session
             done == [turn EXCEPT ![t].state = "completed"]
  <2>1. /\ s \in Sessions /\ duty[t] = "complete" /\ turn[t].state = "running"
        /\ session[s].status # "absent"
    BY <1>11 DEF CompleteTurn, RowsAreLinked, DutyMatches
  <2>2. \A i \in Items : /\ MarkedTerminal(t, "completed")[i].session = item[i].session
                         /\ MarkedTerminal(t, "completed")[i].profile = item[i].profile
                         /\ MarkedTerminal(t, "completed")[i].state # "absent" =>
                                item[i].state # "absent"
    BY DEF MarkedTerminal, TypeOK, ItemRow
  <2>3. \A u \in Turns : /\ done[u].session = turn[u].session
                         /\ done[u].profile = turn[u].profile
                         /\ u # t => done[u] = turn[u]
                         /\ done[t].state = "completed"
    BY DEF TypeOK, TurnRow
  <2>4. \A o \in Sessions : /\ session'[o].profile = session[o].profile
                            /\ o # s => session'[o] = session[o]
                            /\ session'[s].status # "absent"
    BY <1>11, <2>1 DEF CompleteTurn, TypeOK, SessionRow
  <2>5. CASE Pending(s) = {}
    <3>1. /\ turn' = done /\ item' = MarkedTerminal(t, "completed")
          /\ duty' = [duty EXCEPT ![t] = "none"]
      BY <1>11, <2>5 DEF CompleteTurn
    <3>2. RowsAreLinked'
      BY <2>1, <2>2, <2>3, <2>4, <3>1 DEF RowsAreLinked
    <3>3. DutyMatches'
      BY <2>3, <3>1 DEF DutyMatches, TypeOK
    <3> QED BY <3>2, <3>3
  <2>6. CASE Pending(s) # {}
    <3>1. PICK i \in Oldest(s), u \in Turns :
             /\ turn[u].state = "absent"
             /\ turn' = [done EXCEPT ![u] = NewTurn(s, item[i].profile, i)]
             /\ duty' = [duty EXCEPT ![t] = "none", ![u] = "file"]
             /\ item' = [MarkedTerminal(t, "completed") EXCEPT ![i].state = "dispatched"]
      BY <1>11, <2>6 DEF CompleteTurn
    <3>2. /\ i \in Items /\ item[i].profile \in Profiles /\ item[i].state = "pending"
          /\ item[i].session = s /\ u # t
      BY <2>1, <3>1 DEF Oldest, Pending, RowsAreLinked
    <3>3. /\ turn'[u] = NewTurn(s, item[i].profile, i)
          /\ \A v \in Turns \ {u} : turn'[v] = done[v]
      BY <3>1 DEF TypeOK
    <3>4. \A j \in Items : /\ item'[j].session = item[j].session
                           /\ item'[j].profile = item[j].profile
                           /\ item'[j].state # "absent" => item[j].state # "absent"
      <4>1. MarkedTerminal(t, "completed") \in [Items -> ItemRow]
        BY QueueRewriteTypes
      <4> QED BY <2>2, <3>1, <3>2, <4>1 DEF ItemRow
    <3>5. RowsAreLinked'
      <4>1. ASSUME NEW v \in Turns, turn'[v].state # "absent"
            PROVE  /\ turn'[v].session \in Sessions /\ turn'[v].profile \in Profiles
                   /\ session'[turn'[v].session].status # "absent"
        <5>1. CASE v = u
          BY <2>1, <2>4, <3>2, <3>3, <5>1 DEF NewTurn
        <5>2. CASE v # u
          <6>1. turn[v].state # "absent" /\ turn'[v] = done[v]
            BY <2>1, <2>3, <3>3, <4>1, <5>2
          <6> QED BY <2>3, <2>4, <6>1 DEF RowsAreLinked
        <5> QED BY <5>1, <5>2
      <4>2. \A o \in Sessions : session'[o].status # "absent" => session'[o].profile \in Profiles
        BY <2>1, <2>4 DEF RowsAreLinked
      <4>3. \A j \in Items : item'[j].state # "absent" =>
               item'[j].session \in Sessions /\ item'[j].profile \in Profiles
        BY <3>4 DEF RowsAreLinked
      <4> QED BY <4>1, <4>2, <4>3 DEF RowsAreLinked
    <3>6. DutyMatches'
      BY <2>3, <3>1, <3>2, <3>3 DEF DutyMatches, TypeOK, NewTurn
    <3> QED BY <3>5, <3>6
  <2> QED BY <2>5, <2>6
<1>12. ASSUME NEW t \in Turns, FinishCancelled(t) PROVE RowsAreLinked' /\ DutyMatches'
  <2>1. \A i \in Items : /\ item'[i].session = item[i].session
                         /\ item'[i].profile = item[i].profile
                         /\ item'[i].state # "absent" => item[i].state # "absent"
    BY <1>12 DEF FinishCancelled, Paused, MarkedTerminal, Pending, TypeOK, ItemRow
  <2>2. turn[t].session \in Sessions /\ turn[t].state # "absent"
    BY <1>12 DEF FinishCancelled, RowsAreLinked, DutyMatches
  <2>3. /\ \A u \in Turns : /\ turn'[u].session = turn[u].session
                            /\ turn'[u].profile = turn[u].profile
                            /\ u # t => turn'[u] = turn[u]
        /\ \A o \in Sessions : /\ session'[o].profile = session[o].profile
                               /\ session'[o].status = "absent" <=> session[o].status = "absent"
        /\ duty' = [duty EXCEPT ![t] = "none"]
    BY <1>12, <2>2 DEF FinishCancelled, TypeOK, TurnRow, SessionRow, RowsAreLinked
  <2> QED BY <2>1, <2>2, <2>3 DEF TypeOK, RowsAreLinked, DutyMatches
<1>13. ASSUME NEW t \in Turns, NEW a \in BOOLEAN, FailTurn(t, a)
       PROVE  RowsAreLinked' /\ DutyMatches'
  <2>1. \A i \in Items : /\ item'[i].session = item[i].session
                         /\ item'[i].profile = item[i].profile
                         /\ item'[i].state # "absent" => item[i].state # "absent"
    BY <1>13 DEF FailTurn, Paused, MarkedTerminal, Pending, TypeOK, ItemRow
  <2>2. turn[t].session \in Sessions /\ turn[t].state # "absent"
    BY <1>13 DEF FailTurn, RowsAreLinked, DutyMatches
  <2>3. /\ \A u \in Turns : /\ turn'[u].session = turn[u].session
                            /\ turn'[u].profile = turn[u].profile
                            /\ u # t => turn'[u] = turn[u]
        /\ \A o \in Sessions : /\ session'[o].profile = session[o].profile
                               /\ session'[o].status = "absent" <=> session[o].status = "absent"
        /\ duty' = [duty EXCEPT ![t] = "none"]
    BY <1>13, <2>2 DEF FailTurn, TypeOK, TurnRow, SessionRow, RowsAreLinked
  <2> QED BY <2>1, <2>2, <2>3 DEF TypeOK, RowsAreLinked, DutyMatches
<1>14. ASSUME Restart PROVE RowsAreLinked' /\ DutyMatches'
  <2>1. /\ \A u \in Turns : /\ turn'[u].session = turn[u].session
                            /\ turn'[u].profile = turn[u].profile
                            /\ turn'[u].state = "absent" <=> turn[u].state = "absent"
        /\ item' = item /\ duty' = [u \in Turns |-> "none"]
    BY <1>14 DEF Restart, SurvivingDuty, TypeOK, TurnRow, Active, ActiveStates
  <2>2. \A o \in Sessions : /\ session'[o].profile = session[o].profile
                            /\ session[o].status # "absent" => session'[o].status # "absent"
                            /\ session'[o].status # "absent" =>
                                  session[o].status # "absent" \/ SessionBusy(o)
    BY <1>14 DEF Restart, TypeOK, SessionRow
  <2>3. \A o \in Sessions : SessionBusy(o) => session[o].status # "absent"
    BY DEF SessionBusy, Active, ActiveStates, RowsAreLinked
  <2> QED BY <2>1, <2>2, <2>3 DEF RowsAreLinked, DutyMatches
<1>15. CASE UNCHANGED vars
  BY <1>15 DEF vars, RowsAreLinked, DutyMatches
<1> QED
  BY <1>1, <1>2, <1>3, <1>4, <1>5, <1>6, <1>7, <1>8, <1>9, <1>10, <1>11, <1>12, <1>13,
     <1>14, <1>15 DEF Next, Client, Worker

-----------------------------------------------------------------------------
(* What one step does to the active turns *)

\* No Turn becomes active.
NoneStarts ==
    \A t \in Turns : Active(t)' =>
        /\ Active(t)
        /\ turn'[t].session = turn[t].session /\ turn'[t].profile = turn[t].profile

\* One Turn starts, past the index and the home check, as the turns of `ended` end.
Starts(u, s, p, ended) ==
    /\ InsertAllowed(s, p, ended)
    /\ turn'[u].session = s /\ turn'[u].profile = p
    /\ \A t \in Turns \ {u} : Active(t)' =>
          /\ Active(t) /\ t \notin ended
          /\ turn'[t].session = turn[t].session
          /\ turn'[t].profile = turn[t].profile

OneStarts ==
    \E u \in Turns, s \in Sessions, p \in Profiles, ended \in SUBSET Turns :
        Starts(u, s, p, ended)

EndsAreKept ==
    \A t \in Turns : turn[t].state \in TerminalStates => turn'[t].state = turn[t].state

LEMMA StartStep ==
    TypeOK /\ RowsAreLinked /\ DutyMatches /\ [Next]_vars =>
        (NoneStarts \/ OneStarts) /\ EndsAreKept
<1> SUFFICES ASSUME TypeOK, RowsAreLinked, DutyMatches, [Next]_vars
             PROVE  (NoneStarts \/ OneStarts) /\ EndsAreKept
  OBVIOUS
<1>1. ASSUME UNCHANGED turn PROVE NoneStarts /\ EndsAreKept
  BY <1>1 DEF NoneStarts, EndsAreKept, Active
<1>2. ASSUME NEW t \in Turns, NEW s \in Sessions, NEW p \in Profiles,
             turn[t].state = "absent", InsertAllowed(s, p, {}),
             turn' = [turn EXCEPT ![t] = NewTurn(s, p, NULL)]
      PROVE  OneStarts /\ EndsAreKept
  <2>1. \A u \in Turns \ {t} : turn'[u] = turn[u]
    BY <1>2 DEF TypeOK
  <2>2. turn'[t].session = s /\ turn'[t].profile = p
    BY <1>2 DEF TypeOK, NewTurn
  <2>3. OneStarts
    <3>1. Starts(t, s, p, {})
      BY <1>2, <2>1, <2>2 DEF Starts, Active
    <3>2. {} \in SUBSET Turns
      OBVIOUS
    <3> QED BY <3>1, <3>2 DEF OneStarts
  <2>4. EndsAreKept
    BY <1>2, <2>1 DEF EndsAreKept, TerminalStates
  <2> QED BY <2>3, <2>4
<1>3. ASSUME NEW r \in SendIds, NEW s \in Sessions, NEW p \in Profiles, AcceptIntent(r, s, p)
      PROVE  (NoneStarts \/ OneStarts) /\ EndsAreKept
  BY <1>1, <1>2, <1>3 DEF AcceptIntent
<1>4. ASSUME NEW k \in TurnKeys, NEW s \in Sessions, CreateTurn(k, s)
      PROVE  OneStarts /\ EndsAreKept
  <2>1. session[s].profile \in Profiles
    BY <1>4 DEF CreateTurn, RowsAreLinked
  <2> QED BY <1>2, <1>4, <2>1 DEF CreateTurn
\* A step of t's own thread that leaves the other rows alone.
<1>5. ASSUME NEW t \in Turns, turn[t].state \notin TerminalStates,
             turn'[t].session = turn[t].session, turn'[t].profile = turn[t].profile,
             Active(t)' => Active(t), \A u \in Turns \ {t} : turn'[u] = turn[u]
      PROVE  NoneStarts /\ EndsAreKept
  BY <1>5 DEF NoneStarts, EndsAreKept, Active
<1>6. ASSUME NEW t \in Turns, FileCoreRecords(t) \/ DispatchTurn(t)
      PROVE  NoneStarts /\ EndsAreKept
  <2>1. turn[t].state = "accepted"
    BY <1>6 DEF FileCoreRecords, DispatchTurn, DutyMatches
  <2>2. /\ turn'[t].session = turn[t].session /\ turn'[t].profile = turn[t].profile
        /\ \A u \in Turns \ {t} : turn'[u] = turn[u]
    BY <1>6 DEF FileCoreRecords, DispatchTurn, TypeOK, TurnRow
  <2> QED BY <1>5, <2>1, <2>2 DEF Active, ActiveStates, TerminalStates
<1>7. ASSUME NEW t \in Turns, CompleteTurn(t) PROVE (NoneStarts \/ OneStarts) /\ EndsAreKept
  <2> DEFINE s == turn[t].session
             done == [turn EXCEPT ![t].state = "completed"]
  <2>1. s \in Sessions /\ turn[t].state = "running"
    BY <1>7 DEF CompleteTurn, RowsAreLinked, DutyMatches
  <2>2. /\ \A u \in Turns \ {t} : done[u] = turn[u]
        /\ done[t].state = "completed" /\ done[t].session = turn[t].session
        /\ done[t].profile = turn[t].profile
    BY DEF TypeOK, TurnRow
  <2>3. CASE Pending(s) = {}
    <3>1. turn' = done
      BY <1>7, <2>3 DEF CompleteTurn
    <3> QED BY <1>5, <2>1, <2>2, <3>1 DEF Active, ActiveStates, TerminalStates
  <2>4. CASE Pending(s) # {}
    <3>1. PICK i \in Oldest(s), u \in Turns :
             /\ InsertAllowed(s, item[i].profile, {t})
             /\ turn[u].state = "absent"
             /\ turn' = [done EXCEPT ![u] = NewTurn(s, item[i].profile, i)]
      BY <1>7, <2>4 DEF CompleteTurn
    <3>2. item[i].profile \in Profiles /\ u # t
      BY <2>1, <3>1 DEF Oldest, Pending, RowsAreLinked
    <3>3. turn'[u].session = s /\ turn'[u].profile = item[i].profile
      BY <3>1 DEF TypeOK, NewTurn
    <3>4. \A v \in Turns \ {u} : turn'[v] = done[v]
      BY <3>1 DEF TypeOK
    <3>5. \A v \in Turns \ {u} : Active(v)' =>
             /\ Active(v) /\ v \notin {t}
             /\ turn'[v].session = turn[v].session
             /\ turn'[v].profile = turn[v].profile
      BY <2>2, <3>4 DEF Active, ActiveStates
    <3>6. OneStarts
      <4>1. Starts(u, s, item[i].profile, {t})
        BY <3>1, <3>3, <3>5 DEF Starts
      <4>2. {t} \in SUBSET Turns
        OBVIOUS
      <4> QED BY <2>1, <3>2, <4>1, <4>2 DEF OneStarts
    <3>7. EndsAreKept
      BY <2>1, <2>2, <3>1, <3>4 DEF EndsAreKept, TerminalStates
    <3> QED BY <3>6, <3>7
  <2> QED BY <2>3, <2>4
<1>8. ASSUME NEW t \in Turns, FinishCancelled(t) \/ \E a \in BOOLEAN : FailTurn(t, a)
      PROVE  NoneStarts /\ EndsAreKept
  <2>1. /\ turn'[t].session = turn[t].session /\ turn'[t].profile = turn[t].profile
        /\ turn'[t].state \in {"cancelled", "failed", "unknown"}
        /\ \A u \in Turns \ {t} : turn'[u] = turn[u]
    <3>1. CASE FinishCancelled(t)
      BY <3>1 DEF FinishCancelled, TypeOK, TurnRow
    <3>2. ASSUME NEW a \in BOOLEAN, FailTurn(t, a)
          PROVE  /\ turn'[t].session = turn[t].session /\ turn'[t].profile = turn[t].profile
                 /\ turn'[t].state \in {"cancelled", "failed", "unknown"}
                 /\ \A u \in Turns \ {t} : turn'[u] = turn[u]
      BY <3>2 DEF FailTurn, TypeOK, TurnRow
    <3> QED BY <1>8, <3>1, <3>2
  <2>2. turn[t].state \notin TerminalStates
    BY <1>8 DEF FinishCancelled, FailTurn
  <2> QED BY <1>5, <2>1, <2>2 DEF Active, ActiveStates
<1>9. ASSUME Restart PROVE NoneStarts /\ EndsAreKept
  BY <1>9 DEF Restart, TypeOK, TurnRow, NoneStarts, EndsAreKept, Active, ActiveStates,
              TerminalStates
<1>10. QED
  BY <1>1, <1>3, <1>4, <1>6, <1>7, <1>8, <1>9
  DEF Next, Client, Worker, vars, CreateSession, Withdraw, SwitchProfile, ArchiveSession,
      ArchiveProfile, Abandon

LEMMA UniqueStep ==
    /\ OneActiveTurn /\ (NoneStarts \/ OneStarts) => OneActiveTurn'
    /\ ExclusiveHome /\ (NoneStarts \/ OneStarts) => ExclusiveHome'
<1>1. OneActiveTurn /\ (NoneStarts \/ OneStarts) => OneActiveTurn'
  BY DEF OneActiveTurn, NoneStarts, OneStarts, Starts, InsertAllowed
<1>2. ExclusiveHome /\ (NoneStarts \/ OneStarts) => ExclusiveHome'
  BY DEF ExclusiveHome, NoneStarts, OneStarts, Starts, InsertAllowed, Exclusive
<1> QED BY <1>1, <1>2

-----------------------------------------------------------------------------
(* The summary columns *)

\* What Settled leaves in run_state: busy exactly while a sibling runs.
LEMMA SettledStatus ==
    ASSUME TypeOK, RowsAreLinked, StatusTracksTurns, NEW t \in Turns, Active(t), NEW e
    PROVE  \A q \in Profiles : (Settled(t, e)[q].run_state = "active") <=>
              \E u \in Turns \ {t} : Active(u) /\ turn[u].profile = q
<1>1. turn[t].profile \in Profiles
  BY DEF RowsAreLinked, Active, ActiveStates
<1>2. CASE Sibling(t)
  BY <1>2 DEF Settled, Sibling, StatusTracksTurns, ProfileBusy
<1>3. CASE ~Sibling(t)
  <2>1. \A q \in Profiles : Settled(t, e)[q].run_state =
           IF q = turn[t].profile THEN "idle" ELSE profile[q].run_state
    BY <1>1, <1>3 DEF Settled, TypeOK, ProfileRow
  <2> QED BY <1>1, <1>3, <2>1 DEF Sibling, StatusTracksTurns, ProfileBusy
<1> QED BY <1>2, <1>3

\* A Turn ends and no other starts.
LEMMA EndingStatus ==
    ASSUME TypeOK, RowsAreLinked, OneActiveTurn, StatusTracksTurns,
           NEW t \in Turns, Active(t), NEW e,
           ~Active(t)', \A u \in Turns \ {t} : turn'[u] = turn[u],
           session'[turn[t].session].status # "active",
           \A o \in Sessions \ {turn[t].session} : session'[o] = session[o],
           profile' = Settled(t, e)
    PROVE  StatusTracksTurns'
<1>1. \A u \in Turns : Active(u)' <=> u # t /\ Active(u)
  BY DEF Active
<1>2. \A o \in Sessions : SessionBusy(o)' <=> o # turn[t].session /\ SessionBusy(o)
  BY <1>1 DEF SessionBusy, OneActiveTurn
<1>3. \A q \in Profiles : ProfileBusy(q)' <=>
         \E u \in Turns \ {t} : Active(u) /\ turn[u].profile = q
  BY <1>1 DEF ProfileBusy
<1> QED BY <1>2, <1>3, SettledStatus DEF StatusTracksTurns

\* A Turn starts and no other ends.
LEMMA StartingStatus ==
    ASSUME TypeOK, StatusTracksTurns, NEW t \in Turns, NEW s \in Sessions, NEW p \in Profiles,
           NEW i, turn[t].state = "absent", turn' = [turn EXCEPT ![t] = NewTurn(s, p, i)],
           session'[s].status = "active", \A o \in Sessions \ {s} : session'[o] = session[o],
           profile' = [profile EXCEPT ![p].run_state = "active"]
    PROVE  StatusTracksTurns'
<1>1. /\ \A u \in Turns \ {t} : turn'[u] = turn[u]
      /\ Active(t)' /\ turn'[t].session = s /\ turn'[t].profile = p /\ ~Active(t)
  BY DEF TypeOK, NewTurn, Active, ActiveStates
<1>2. \A o \in Sessions : SessionBusy(o)' <=> o = s \/ SessionBusy(o)
  BY <1>1 DEF SessionBusy, Active
<1>3. \A q \in Profiles : ProfileBusy(q)' <=> q = p \/ ProfileBusy(q)
  BY <1>1 DEF ProfileBusy, Active
<1>4. \A q \in Profiles : profile'[q].run_state =
         IF q = p THEN "active" ELSE profile[q].run_state
  BY DEF TypeOK, ProfileRow
<1> QED BY <1>2, <1>3, <1>4 DEF StatusTracksTurns

LEMMA StatusStep == IInv /\ [Next]_vars => StatusTracksTurns'
<1> SUFFICES ASSUME IInv, [Next]_vars PROVE StatusTracksTurns'
  OBVIOUS
<1> USE DEF IInv
<1>1. ASSUME UNCHANGED turn,
             \A o \in Sessions : session'[o].status = "active" <=> session[o].status = "active",
             \A q \in Profiles : profile'[q].run_state = profile[q].run_state
      PROVE  StatusTracksTurns'
  BY <1>1 DEF StatusTracksTurns, SessionBusy, ProfileBusy, Active
<1>2. ASSUME NEW s \in Sessions, NEW p \in Profiles, CreateSession(s, p)
      PROVE  StatusTracksTurns'
  BY <1>1, <1>2 DEF CreateSession, TypeOK, SessionRow
<1>3. ASSUME NEW s \in Sessions, NEW p \in Profiles, SwitchProfile(s, p)
      PROVE  StatusTracksTurns'
  BY <1>1, <1>3 DEF SwitchProfile, TypeOK, SessionRow
<1>4. ASSUME NEW s \in Sessions, ArchiveSession(s) PROVE StatusTracksTurns'
  BY <1>1, <1>4 DEF ArchiveSession, TypeOK, SessionRow
<1>5. ASSUME NEW p \in Profiles, ArchiveProfile(p) PROVE StatusTracksTurns'
  BY <1>1, <1>5 DEF ArchiveProfile, TypeOK, ProfileRow
<1>6. ASSUME NEW r \in SendIds, NEW s \in Sessions, NEW p \in Profiles, AcceptIntent(r, s, p)
      PROVE  StatusTracksTurns'
  <2>1. CASE SessionBusy(s)
    BY <1>1, <1>6, <2>1 DEF AcceptIntent
  <2>2. CASE ~SessionBusy(s)
    <3>1. PICK t \in Turns : /\ turn[t].state = "absent"
                             /\ turn' = [turn EXCEPT ![t] = NewTurn(s, p, NULL)]
      BY <1>6, <2>2 DEF AcceptIntent
    <3>2. /\ session'[s].status = "active"
          /\ \A o \in Sessions \ {s} : session'[o] = session[o]
          /\ profile' = [profile EXCEPT ![p].run_state = "active"]
      BY <1>6, <2>2 DEF AcceptIntent, TypeOK, SessionRow
    <3> QED BY <3>1, <3>2, StartingStatus
  <2> QED BY <2>1, <2>2
<1>7. ASSUME NEW k \in TurnKeys, NEW s \in Sessions, CreateTurn(k, s)
      PROVE  StatusTracksTurns'
  <2>1. PICK t \in Turns : /\ turn[t].state = "absent"
                           /\ turn' = [turn EXCEPT ![t] = NewTurn(s, session[s].profile, NULL)]
    BY <1>7 DEF CreateTurn
  <2>2. /\ session[s].profile \in Profiles
        /\ session'[s].status = "active"
        /\ \A o \in Sessions \ {s} : session'[o] = session[o]
        /\ profile' = [profile EXCEPT ![session[s].profile].run_state = "active"]
    BY <1>7 DEF CreateTurn, TypeOK, SessionRow, RowsAreLinked
  <2> QED BY <2>1, <2>2, StartingStatus
<1>8. ASSUME NEW t \in Turns, FileCoreRecords(t) \/ DispatchTurn(t)
      PROVE  StatusTracksTurns'
  <2>1. turn[t].state = "accepted" /\ UNCHANGED <<session, profile>>
    BY <1>8 DEF FileCoreRecords, DispatchTurn, DutyMatches
  <2>2. /\ turn'[t].session = turn[t].session /\ turn'[t].profile = turn[t].profile
        /\ turn'[t].state \in ActiveStates
        /\ \A u \in Turns \ {t} : turn'[u] = turn[u]
    BY <1>8 DEF FileCoreRecords, DispatchTurn, TypeOK, TurnRow, ActiveStates
  <2>3. \A u \in Turns : /\ Active(u)' <=> Active(u)
                         /\ turn'[u].session = turn[u].session
                         /\ turn'[u].profile = turn[u].profile
    BY <2>1, <2>2 DEF Active, ActiveStates
  <2> QED BY <2>1, <2>3 DEF StatusTracksTurns, SessionBusy, ProfileBusy
<1>9. ASSUME NEW t \in Turns, CompleteTurn(t) PROVE StatusTracksTurns'
  <2> DEFINE s == turn[t].session
             done == [turn EXCEPT ![t].state = "completed"]
             kept == Settled(t, KeepEvidence(t))
  <2>1. s \in Sessions /\ turn[t].state = "running" /\ Active(t)
    BY <1>9 DEF CompleteTurn, RowsAreLinked, DutyMatches, Active, ActiveStates
  <2>2. /\ \A u \in Turns \ {t} : done[u] = turn[u]
        /\ done[t].state = "completed" /\ done[t].session = turn[t].session
        /\ done[t].profile = turn[t].profile
    BY DEF TypeOK, TurnRow
  <2>3. \A o \in Sessions \ {s} : session'[o] = session[o]
    BY <1>9 DEF CompleteTurn, TypeOK
  <2>4. CASE Pending(s) = {}
    <3>1. turn' = done /\ profile' = kept /\ session'[s].status = "ready"
      BY <1>9, <2>1, <2>4 DEF CompleteTurn, TypeOK, SessionRow
    <3> QED BY <2>1, <2>2, <2>3, <3>1, EndingStatus DEF Active, ActiveStates
  <2>5. CASE Pending(s) # {}
    <3>1. PICK i \in Oldest(s), u \in Turns :
             /\ turn[u].state = "absent"
             /\ turn' = [done EXCEPT ![u] = NewTurn(s, item[i].profile, i)]
             /\ profile' = [kept EXCEPT ![item[i].profile].run_state = "active"]
      BY <1>9, <2>5 DEF CompleteTurn
    <3>2. item[i].profile \in Profiles /\ u # t
      BY <2>1, <3>1 DEF Oldest, Pending, RowsAreLinked
    <3>3. session'[s].status = "active"
      BY <1>9, <2>1, <2>5 DEF CompleteTurn, TypeOK, SessionRow
    <3>4. /\ turn'[u].session = s /\ turn'[u].profile = item[i].profile /\ Active(u)'
          /\ ~Active(t)' /\ \A v \in Turns \ {t, u} : turn'[v] = turn[v]
          /\ ~Active(u)
      BY <2>2, <3>1, <3>2 DEF TypeOK, NewTurn, Active, ActiveStates
    <3>5. \A o \in Sessions : SessionBusy(o)' <=> o = s \/ SessionBusy(o)
      BY <2>1, <3>4 DEF SessionBusy, Active
    <3>6. \A q \in Profiles : ProfileBusy(q)' <=>
             \/ q = item[i].profile
             \/ \E v \in Turns \ {t} : Active(v) /\ turn[v].profile = q
      BY <3>4 DEF ProfileBusy, Active
    <3>7. \A q \in Profiles : profile'[q].run_state =
             IF q = item[i].profile THEN "active" ELSE kept[q].run_state
      <4>1. kept \in [Profiles -> ProfileRow]
        BY <2>1, KeepEvidenceType, SettledTypes DEF RowsAreLinked
      <4> QED BY <3>1, <3>2, <4>1 DEF ProfileRow
    <3>8. \A q \in Profiles : (kept[q].run_state = "active") <=>
             \E v \in Turns \ {t} : Active(v) /\ turn[v].profile = q
      BY <2>1, SettledStatus
    <3>9. \A q \in Profiles : (profile'[q].run_state = "active") <=> ProfileBusy(q)'
      BY <3>6, <3>7, <3>8
    <3>10. \A o \in Sessions : (session'[o].status = "active") <=> SessionBusy(o)'
      BY <2>3, <3>3, <3>5 DEF StatusTracksTurns
    <3> QED BY <3>9, <3>10 DEF StatusTracksTurns
  <2> QED BY <2>4, <2>5
<1>10. ASSUME NEW t \in Turns, FinishCancelled(t) PROVE StatusTracksTurns'
  <2>1. /\ turn[t].session \in Sessions /\ Active(t)
        /\ profile' = Settled(t, KeepEvidence(t))
    BY <1>10 DEF FinishCancelled, RowsAreLinked, DutyMatches, Active, ActiveStates
  <2>2. /\ ~Active(t)' /\ \A u \in Turns \ {t} : turn'[u] = turn[u]
        /\ session'[turn[t].session].status = "ready"
        /\ \A o \in Sessions \ {turn[t].session} : session'[o] = session[o]
    BY <1>10, <2>1 DEF FinishCancelled, TypeOK, TurnRow, SessionRow, Active, ActiveStates
  <2> QED BY <2>1, <2>2, EndingStatus
<1>11. ASSUME NEW t \in Turns, NEW a \in BOOLEAN, FailTurn(t, a) PROVE StatusTracksTurns'
  <2>1. /\ turn[t].session \in Sessions /\ Active(t)
        /\ profile' = Settled(t, a \/ turn[t].state \in {"running", "capturing"})
    BY <1>11 DEF FailTurn, RowsAreLinked, DutyMatches, Active, ActiveStates
  <2>2. /\ ~Active(t)' /\ \A u \in Turns \ {t} : turn'[u] = turn[u]
        /\ session'[turn[t].session].status # "active"
        /\ \A o \in Sessions \ {turn[t].session} : session'[o] = session[o]
    BY <1>11, <2>1 DEF FailTurn, TypeOK, TurnRow, SessionRow, Active, ActiveStates
  <2> QED BY <2>1, <2>2, EndingStatus
<1>12. ASSUME Restart PROVE StatusTracksTurns'
  <2>1. \A u \in Turns : ~Active(u)'
    BY <1>12 DEF Restart, TypeOK, TurnRow, Active, ActiveStates
  <2>2. \A o \in Sessions : session'[o].status # "active"
    BY <1>12 DEF Restart, TypeOK, SessionRow, StatusTracksTurns
  <2>3. \A q \in Profiles : profile'[q].run_state # "active"
    BY <1>12 DEF Restart, TypeOK, ProfileRow, StatusTracksTurns
  <2> QED BY <2>1, <2>2, <2>3 DEF StatusTracksTurns, SessionBusy, ProfileBusy
<1> QED
  BY <1>1, <1>2, <1>3, <1>4, <1>5, <1>6, <1>7, <1>8, <1>9, <1>10, <1>11, <1>12
  DEF Next, Client, Worker, vars, Withdraw, Abandon

-----------------------------------------------------------------------------
(* What one step does to turns, items and receipts *)

TurnStays(t) ==
    /\ turn'[t].session = turn[t].session /\ turn'[t].profile = turn[t].profile
    /\ turn'[t].queue_item = turn[t].queue_item
ItemStays(i) ==
    /\ item'[i].session = item[i].session /\ item'[i].profile = item[i].profile
    /\ item'[i].submitted_at = item[i].submitted_at
KeysStay == receipt' = receipt /\ clock' = clock

\* What mark_terminal leaves of i's state when t ends.
MarkedState(i, t, end) ==
    IF i = turn[t].queue_item /\ item[i].state = "dispatched" THEN end ELSE item[i].state

Quiet == turn' = turn /\ item' = item /\ KeysStay

Opens(k, t, s, p) ==
    /\ Fresh(k) /\ ~SessionBusy(s) /\ turn[t].state = "absent"
    /\ turn' = [turn EXCEPT ![t] = NewTurn(s, p, NULL)]
    /\ receipt' = [receipt EXCEPT ![k] = [turn |-> t, item |-> NULL]]
    /\ session'[s].profile = p
    /\ item' = item /\ clock' = clock

Joins(k, i, s) ==
    /\ Fresh(k) /\ SessionBusy(s) /\ item[i].state = "absent"
    /\ item' = [item EXCEPT ![i] = [state |-> "pending", session |-> s, profile |-> session[s].profile,
                                    submitted_at |-> clock]]
    /\ receipt' = [receipt EXCEPT ![k] = [turn |-> NULL, item |-> i]]
    /\ turn' = turn /\ clock' = clock + 1

Withdraws(i) ==
    /\ item[i].state = "pending"
    /\ item' = [item EXCEPT ![i].state = "withdrawn"]
    /\ turn' = turn /\ KeysStay

Progresses(t) ==
    /\ Active(t) /\ Active(t)' /\ TurnStays(t) /\ turn'[t].sealed = turn[t].sealed
    /\ \A u \in Turns \ {t} : turn'[u] = turn[u]
    /\ item' = item /\ KeysStay

\* t ends as how, beside the turns of others.
Ends(t, how, others) ==
    /\ Active(t) /\ turn[t].session \in Sessions
    /\ turn'[t].state = how /\ TurnStays(t) /\ turn'[t].sealed = turn[t].sealed
    /\ \A u \in Turns \ ({t} \cup others) : turn'[u] = turn[u]
    /\ \A i \in Items : ItemStays(i)
    /\ KeysStay

Succeeds(t) ==
    /\ Ends(t, "completed", {}) /\ Pending(turn[t].session) = {}
    /\ \A i \in Items : item'[i].state = MarkedState(i, t, "completed")

Chains(t, u, i) ==
    /\ Ends(t, "completed", {u}) /\ i \in Oldest(turn[t].session)
    /\ turn[u].state = "absent" /\ turn'[u] = NewTurn(turn[t].session, item[i].profile, i)
    /\ \A j \in Items : item'[j].state = IF j = i THEN "dispatched" ELSE MarkedState(j, t, "completed")

Stops(t, how) ==
    /\ how \in {"cancelled", "failed", "unknown"} /\ Ends(t, how, {})
    /\ \A i \in Items : item'[i].state =
          IF i \in Pending(turn[t].session) THEN "paused"
          ELSE MarkedState(i, t, IF how = "cancelled" THEN "cancelled" ELSE "failed")

Dies ==
    /\ \A t \in Turns : /\ TurnStays(t)
                        /\ turn'[t].state = IF Active(t) THEN "unknown" ELSE turn[t].state
                        /\ turn'[t].sealed = (Active(t) \/ turn[t].sealed)
    /\ item' = item /\ KeysStay

RowSteps ==
    \/ Quiet \/ Dies
    \/ \E k \in Keys, t \in Turns, s \in Sessions, p \in Profiles : Opens(k, t, s, p)
    \/ \E k \in SendIds, i \in Items, s \in Sessions : Joins(k, i, s)
    \/ \E i \in Items : Withdraws(i)
    \/ \E t \in Turns : Progresses(t) \/ Succeeds(t)
    \/ \E t, u \in Turns, i \in Items : Chains(t, u, i)
    \/ \E t \in Turns, how \in {"cancelled", "failed", "unknown"} : Stops(t, how)

LEMMA BusyIsThere ==
    ASSUME RowsAreLinked, NEW s \in Sessions, SessionBusy(s)
    PROVE  session[s].status # "absent"
  BY DEF SessionBusy, Active, ActiveStates, RowsAreLinked

LEMMA MarkedItems ==
    ASSUME TypeOK, NEW t \in Turns, NEW end, NEW i \in Items
    PROVE  /\ MarkedTerminal(t, end)[i].state = MarkedState(i, t, end)
           /\ MarkedTerminal(t, end)[i].session = item[i].session
           /\ MarkedTerminal(t, end)[i].profile = item[i].profile
           /\ MarkedTerminal(t, end)[i].submitted_at = item[i].submitted_at
  BY DEF TypeOK, ItemRow, MarkedTerminal, MarkedState

LEMMA PausedItems ==
    ASSUME TypeOK, NEW t \in Turns, NEW end, NEW i \in Items, NEW s,
           item' = Paused(s, MarkedTerminal(t, end))
    PROVE  /\ item'[i].state = IF i \in Pending(s) THEN "paused" ELSE MarkedState(i, t, end)
           /\ ItemStays(i)
  BY DEF TypeOK, ItemRow, MarkedTerminal, MarkedState, Paused, ItemStays

LEMMA RowStepsAreAll ==
    ASSUME TypeOK, RowsAreLinked, DutyMatches, [Next]_vars
    PROVE  RowSteps
<1>1. ASSUME NEW r \in SendIds, NEW s \in Sessions, NEW p \in Profiles, AcceptIntent(r, s, p)
      PROVE  RowSteps
  <2>1. CASE SessionBusy(s)
    <3>1. session[s].profile = p
      BY <1>1, <2>1, BusyIsThere DEF AcceptIntent
    <3>2. \E i \in Items : Joins(r, i, s)
      BY <1>1, <2>1, <3>1 DEF AcceptIntent, Joins
    <3>. QED  BY <3>2 DEF RowSteps
  <2>2. CASE ~SessionBusy(s)
    <3>1. session'[s].profile = p
      BY <1>1, <2>2 DEF AcceptIntent, TypeOK, SessionRow
    <3>2. \E t \in Turns : Opens(r, t, s, p)
      BY <1>1, <2>2, <3>1 DEF AcceptIntent, Opens
    <3>. QED  BY <3>2 DEF RowSteps, Keys
  <2>. QED  BY <2>1, <2>2
<1>2. ASSUME NEW k \in TurnKeys, NEW s \in Sessions, CreateTurn(k, s) PROVE RowSteps
  <2>1. session[s].profile \in Profiles /\ ~SessionBusy(s)
    BY <1>2 DEF CreateTurn, RowsAreLinked, InsertAllowed, SessionBusy
  <2>2. session'[s].profile = session[s].profile
    BY <1>2 DEF CreateTurn, TypeOK, SessionRow
  <2>3. \E t \in Turns : Opens(k, t, s, session[s].profile)
    BY <1>2, <2>1, <2>2 DEF CreateTurn, Opens
  <2>. QED  BY <2>1, <2>3 DEF RowSteps, Keys
<1>3. ASSUME NEW i \in Items, Withdraw(i) PROVE RowSteps
  BY <1>3 DEF Withdraw, Withdraws, KeysStay, RowSteps
<1>4. ASSUME NEW t \in Turns, FileCoreRecords(t) \/ DispatchTurn(t) PROVE RowSteps
  <2>1. Progresses(t)
    BY <1>4 DEF FileCoreRecords, DispatchTurn, Progresses, DutyMatches, Active, ActiveStates, TypeOK, TurnRow,
                TurnStays, KeysStay
  <2>. QED  BY <2>1 DEF RowSteps
<1>5. ASSUME NEW t \in Turns, CompleteTurn(t) PROVE RowSteps
  <2>. DEFINE s == turn[t].session
              done == [turn EXCEPT ![t].state = "completed"]
              rest == MarkedTerminal(t, "completed")
  <2>1. s \in Sessions /\ Active(t) /\ turn[t].state = "running" /\ KeysStay
    BY <1>5 DEF CompleteTurn, RowsAreLinked, DutyMatches, Active, ActiveStates, KeysStay
  <2>2. /\ done \in [Turns -> TurnRow] /\ \A v \in Turns \ {t} : done[v] = turn[v]
        /\ done[t].state = "completed" /\ done[t].session = s /\ done[t].profile = turn[t].profile
        /\ done[t].queue_item = turn[t].queue_item /\ done[t].sealed = turn[t].sealed
    BY DEF TypeOK, TurnRow, TerminalStates
  <2>3. CASE Pending(s) = {} /\ turn' = done /\ item' = rest
    <3>1. Ends(t, "completed", {})
      BY <2>1, <2>2, <2>3, MarkedItems DEF Ends, TurnStays, ItemStays
    <3>2. Succeeds(t)
      BY <2>3, <3>1, MarkedItems DEF Succeeds
    <3>. QED  BY <3>2 DEF RowSteps
  <2>4. ASSUME NEW i \in Oldest(s), NEW u \in Turns, turn[u].state = "absent",
               turn' = [done EXCEPT ![u] = NewTurn(s, item[i].profile, i)],
               item' = [rest EXCEPT ![i].state = "dispatched"]
        PROVE  RowSteps
    <3>1. i \in Items /\ u # t
      BY <2>1, <2>4 DEF Oldest, Pending
    <3>2. /\ turn'[u] = NewTurn(s, item[i].profile, i)
          /\ \A v \in Turns \ {u} : turn'[v] = done[v]
      BY <2>2, <2>4
    <3>3. rest \in [Items -> ItemRow]
      BY QueueRewriteTypes
    <3>4. \A j \in Items : /\ item'[j].state = IF j = i THEN "dispatched" ELSE rest[j].state
                           /\ item'[j].session = rest[j].session /\ item'[j].profile = rest[j].profile
                           /\ item'[j].submitted_at = rest[j].submitted_at
      BY <2>4, <3>1, <3>3 DEF ItemRow
    <3>5. Ends(t, "completed", {u})
      <4>1. turn'[t] = done[t] /\ \A v \in Turns \ ({t} \cup {u}) : turn'[v] = turn[v]
        BY <2>2, <3>1, <3>2
      <4>2. turn'[t].state = "completed" /\ TurnStays(t) /\ turn'[t].sealed = turn[t].sealed
        BY <2>2, <4>1 DEF TurnStays
      <4>3. \A j \in Items : ItemStays(j)
        BY <3>4, MarkedItems DEF ItemStays
      <4>. QED  BY <2>1, <4>1, <4>2, <4>3 DEF Ends
    <3>6. Chains(t, u, i)
      BY <2>4, <3>2, <3>4, <3>5, MarkedItems DEF Chains
    <3>. QED  BY <3>1, <3>6 DEF RowSteps
  <2>. QED  BY <1>5, <2>3, <2>4 DEF CompleteTurn
<1>6. ASSUME NEW t \in Turns, FinishCancelled(t) PROVE RowSteps
  <2>1. /\ Active(t) /\ turn[t].session \in Sessions /\ KeysStay
        /\ item' = Paused(turn[t].session, MarkedTerminal(t, "cancelled"))
    BY <1>6 DEF FinishCancelled, RowsAreLinked, DutyMatches, Active, ActiveStates, KeysStay
  <2>2. /\ turn'[t].state = "cancelled" /\ TurnStays(t) /\ turn'[t].sealed = turn[t].sealed
        /\ \A u \in Turns \ {t} : turn'[u] = turn[u]
    BY <1>6 DEF FinishCancelled, TypeOK, TurnRow, TurnStays
  <2>3. Stops(t, "cancelled")
    BY <2>1, <2>2, PausedItems DEF Stops, Ends
  <2>. QED  BY <2>3 DEF RowSteps
<1>7. ASSUME NEW t \in Turns, NEW a \in BOOLEAN, FailTurn(t, a) PROVE RowSteps
  <2>. DEFINE how == IF a THEN "unknown" ELSE "failed"
  <2>1. /\ Active(t) /\ turn[t].session \in Sessions /\ KeysStay
        /\ item' = Paused(turn[t].session, MarkedTerminal(t, "failed"))
    BY <1>7 DEF FailTurn, RowsAreLinked, DutyMatches, Active, ActiveStates, KeysStay
  <2>2. /\ turn'[t].state = how /\ TurnStays(t) /\ turn'[t].sealed = turn[t].sealed
        /\ \A u \in Turns \ {t} : turn'[u] = turn[u]
    BY <1>7 DEF FailTurn, TypeOK, TurnRow, TurnStays
  <2>3. Stops(t, how)
    BY <2>1, <2>2, PausedItems DEF Stops, Ends
  <2>. QED  BY <2>3 DEF RowSteps
<1>8. ASSUME Restart PROVE RowSteps
  <2>1. Dies
    BY <1>8 DEF Restart, Dies, TypeOK, TurnRow, TurnStays, KeysStay
  <2>. QED  BY <2>1 DEF RowSteps
<1>9. CASE UNCHANGED <<turn, item, receipt, clock>>
  BY <1>9 DEF Quiet, KeysStay, RowSteps
<1>. QED
  BY <1>1, <1>2, <1>3, <1>4, <1>5, <1>6, <1>7, <1>8, <1>9
  DEF Next, Client, Worker, vars, CreateSession, SwitchProfile, ArchiveSession, ArchiveProfile, Abandon

-----------------------------------------------------------------------------
(* Items mirror the turns that were claimed from them *)

\* How far the item that t was claimed from has got.
MirrorOf(t) ==
    IF Active(t) \/ turn[t].sealed THEN "dispatched"
    ELSE IF turn[t].state \in {"completed", "cancelled"} THEN turn[t].state ELSE "failed"

Left == {"dispatched"} \cup EndedItem

\* A claim is the only way out of the queue into a turn, and it is made once.
ClaimsAreOne ==
    /\ \A t \in Turns : /\ turn[t].state = "absent" => turn[t].queue_item = NULL
                        /\ turn[t].sealed => turn[t].state = "unknown"
                        /\ turn[t].queue_item # NULL => item[turn[t].queue_item].state = MirrorOf(t)
    /\ \A t, u \in Turns : turn[t].queue_item # NULL /\ turn[t].queue_item = turn[u].queue_item => t = u
    /\ \A i \in Items : item[i].state \in Left => \E t \in Turns : turn[t].queue_item = i

LEMMA MirrorsFollow == TypeOK /\ ClaimsAreOne => ItemMirrorsTurn
<1>. SUFFICES ASSUME TypeOK, ClaimsAreOne PROVE ItemMirrorsTurn
  OBVIOUS
<1>1. ASSUME NEW i \in Items, item[i].state \in Left
      PROVE  \E t \in Turns :
             /\ turn[t].queue_item = i
             /\ \A u \in Turns : turn[u].queue_item = i => u = t
             /\ CASE Active(t) \/ turn[t].sealed      -> item[i].state = "dispatched"
                  [] turn[t].state = "completed"      -> item[i].state = "completed"
                  [] turn[t].state = "cancelled"      -> item[i].state = "cancelled"
                  [] OTHER                            -> item[i].state = "failed"
  <2>1. PICK t \in Turns : turn[t].queue_item = i
    BY <1>1 DEF ClaimsAreOne
  <2>2. i # NULL
    BY LedgerAssumption
  <2>3. item[i].state = MirrorOf(t) /\ \A u \in Turns : turn[u].queue_item = i => u = t
    BY <2>1, <2>2 DEF ClaimsAreOne
  <2>4. (CASE Active(t) \/ turn[t].sealed      -> item[i].state = "dispatched"
           [] turn[t].state = "completed"      -> item[i].state = "completed"
           [] turn[t].state = "cancelled"      -> item[i].state = "cancelled"
           [] OTHER                            -> item[i].state = "failed")
    BY <2>3 DEF MirrorOf, ClaimsAreOne, Active, ActiveStates
  <2>. QED  BY <2>1, <2>3, <2>4
<1>2. \A t \in Turns : turn[t].queue_item # NULL => item[turn[t].queue_item].state \in Left
  BY DEF ClaimsAreOne, MirrorOf, Left, EndedItem
<1>. QED  BY <1>1, <1>2 DEF ItemMirrorsTurn, Left

LEMMA ClaimsInit == Init => ClaimsAreOne
  BY DEF Init, NewTurn, ClaimsAreOne, Left, EndedItem

\* No item takes or leaves a turn.
LEMMA ClaimsKept ==
    ASSUME TypeOK, ClaimsAreOne,
           \A t \in Turns : /\ turn'[t].queue_item = turn[t].queue_item
                            /\ turn'[t].state = "absent" => turn[t].state = "absent"
                            /\ turn'[t].sealed => turn'[t].state = "unknown"
                            /\ turn[t].queue_item # NULL =>
                                  item'[turn[t].queue_item].state = MirrorOf(t)',
           \A i \in Items : item'[i].state \in Left => item[i].state \in Left
    PROVE  ClaimsAreOne'
<1>1. \A t \in Turns : turn'[t].queue_item # NULL => item'[turn'[t].queue_item].state = MirrorOf(t)'
  OBVIOUS
<1>. QED  BY <1>1 DEF ClaimsAreOne

LEMMA EndClaims ==
    ASSUME TypeOK, ClaimsAreOne, NEW t \in Turns, NEW how \in {"completed", "cancelled", "failed", "unknown"},
           Ends(t, how, {}),
           \A i \in Items : item'[i].state =
              IF how # "completed" /\ i \in Pending(turn[t].session) THEN "paused"
              ELSE MarkedState(i, t, IF how = "unknown" THEN "failed" ELSE how)
    PROVE  ClaimsAreOne'
<1>0. turn \in [Turns -> TurnRow]
  BY DEF TypeOK
<1>1. ~turn[t].sealed
  BY DEF ClaimsAreOne, Ends, Active, ActiveStates
<1>2. \A i \in Items : item'[i].state \in Left => item[i].state \in Left
  BY DEF MarkedState, Left, EndedItem
<1>3. ASSUME NEW u \in Turns, turn[u].queue_item # NULL
      PROVE  item'[turn[u].queue_item].state = MirrorOf(u)'
  <2>1. turn[u].queue_item \in Items /\ item[turn[u].queue_item].state = MirrorOf(u)
    BY <1>0, <1>3 DEF ClaimsAreOne, TurnRow
  <2>2. item[turn[u].queue_item].state # "pending"
    BY <2>1 DEF MirrorOf
  <2>3. CASE u = t
    <3>1. item[turn[t].queue_item].state = "dispatched"
      BY <2>1, <2>3 DEF MirrorOf, Ends, Active
    <3>2. item'[turn[t].queue_item].state = IF how = "unknown" THEN "failed" ELSE how
      BY <2>1, <2>2, <2>3, <3>1 DEF MarkedState, Pending
    <3>3. turn'[t].state = how /\ ~turn'[t].sealed
      BY <1>1 DEF Ends
    <3>. QED  BY <2>3, <3>2, <3>3 DEF MirrorOf, Active, ActiveStates
  <2>4. CASE u # t
    <3>1. turn'[u] = turn[u] /\ turn[u].queue_item # turn[t].queue_item
      BY <1>3, <2>4 DEF Ends, ClaimsAreOne
    <3>2. item'[turn[u].queue_item].state = item[turn[u].queue_item].state
      BY <2>1, <2>2, <3>1 DEF MarkedState, Pending
    <3>. QED  BY <2>1, <3>1, <3>2 DEF MirrorOf, Active
  <2>. QED  BY <2>3, <2>4
<1>4. \A u \in Turns : /\ turn'[u].queue_item = turn[u].queue_item
                       /\ turn'[u].state = "absent" => turn[u].state = "absent"
                       /\ turn'[u].sealed => turn'[u].state = "unknown"
  BY <1>1 DEF Ends, TurnStays, ClaimsAreOne
<1>. QED  BY <1>2, <1>3, <1>4, ClaimsKept

LEMMA ChainClaims ==
    ASSUME TypeOK, ClaimsAreOne, NEW t \in Turns, NEW u \in Turns, NEW i \in Items, Chains(t, u, i)
    PROVE  ClaimsAreOne'
<1>0. turn \in [Turns -> TurnRow] /\ item[i].state = "pending" /\ i # NULL
  BY LedgerAssumption DEF TypeOK, Chains, Oldest, Pending
<1>1. ~turn[t].sealed /\ t # u /\ turn[u].queue_item = NULL
  BY DEF ClaimsAreOne, Chains, Ends, Active, ActiveStates
<1>2. \A v \in Turns : turn[v].queue_item # i
  BY <1>0 DEF ClaimsAreOne, MirrorOf
<1>3. /\ turn'[u].queue_item = i /\ turn'[u].state = "accepted" /\ ~turn'[u].sealed
      /\ \A v \in Turns \ {u} : turn'[v].queue_item = turn[v].queue_item
  BY DEF Chains, NewTurn, Ends, TurnStays
<1>4. ASSUME NEW v \in Turns, v # u, turn[v].queue_item # NULL
      PROVE  item'[turn[v].queue_item].state = MirrorOf(v)'
  <2>1. /\ turn[v].queue_item \in Items /\ item[turn[v].queue_item].state = MirrorOf(v)
        /\ turn[v].queue_item # i
    BY <1>0, <1>2, <1>4 DEF ClaimsAreOne, TurnRow
  <2>2. item'[turn[v].queue_item].state = MarkedState(turn[v].queue_item, t, "completed")
    BY <2>1 DEF Chains
  <2>3. CASE v = t
    <3>1. item[turn[t].queue_item].state = "dispatched"
      BY <2>1, <2>3 DEF MirrorOf, Chains, Ends, Active
    <3>2. item'[turn[t].queue_item].state = "completed"
      BY <2>2, <2>3, <3>1 DEF MarkedState
    <3>3. turn'[t].state = "completed" /\ ~turn'[t].sealed
      BY <1>1 DEF Chains, Ends
    <3>. QED  BY <2>3, <3>2, <3>3 DEF MirrorOf, Active, ActiveStates
  <2>4. CASE v # t
    <3>1. turn'[v] = turn[v] /\ turn[v].queue_item # turn[t].queue_item
      BY <1>4, <2>4 DEF Chains, Ends, ClaimsAreOne
    <3>. QED  BY <2>1, <2>2, <3>1 DEF MirrorOf, MarkedState, Active
  <2>. QED  BY <2>3, <2>4
<1>5. item'[i].state = "dispatched" /\ MirrorOf(u)' = "dispatched"
  BY <1>3 DEF Chains, MirrorOf, Active, ActiveStates
<1>6. \A v \in Turns : /\ turn'[v].state = "absent" => turn'[v].queue_item = NULL
                       /\ turn'[v].sealed => turn'[v].state = "unknown"
                       /\ turn'[v].queue_item # NULL => item'[turn'[v].queue_item].state = MirrorOf(v)'
  <2>. SUFFICES ASSUME NEW v \in Turns
                PROVE  /\ turn'[v].state = "absent" => turn'[v].queue_item = NULL
                       /\ turn'[v].sealed => turn'[v].state = "unknown"
                       /\ turn'[v].queue_item # NULL => item'[turn'[v].queue_item].state = MirrorOf(v)'
    OBVIOUS
  <2>1. CASE v = u
    BY <1>3, <1>5, <2>1
  <2>2. CASE v # u
    <3>1. v = t => turn'[v].state = "completed" /\ ~turn'[v].sealed
      BY <1>1 DEF Chains, Ends
    <3>2. v # t => turn'[v] = turn[v]
      BY <2>2 DEF Chains, Ends
    <3>. QED  BY <1>3, <1>4, <2>2, <3>1, <3>2 DEF ClaimsAreOne
  <2>. QED  BY <2>1, <2>2
<1>7. \A v, w \in Turns : turn'[v].queue_item # NULL /\ turn'[v].queue_item = turn'[w].queue_item => v = w
  BY <1>2, <1>3 DEF ClaimsAreOne
<1>8. ASSUME NEW j \in Items, item'[j].state \in Left PROVE \E v \in Turns : turn'[v].queue_item = j
  <2>1. CASE j = i
    BY <1>3, <2>1
  <2>2. CASE j # i
    <3>1. item[j].state \in Left
      BY <1>8, <2>2 DEF Chains, MarkedState, Left, EndedItem
    <3>2. PICK v \in Turns : turn[v].queue_item = j
      BY <3>1 DEF ClaimsAreOne
    <3>3. v # u
      BY <1>1, <3>2, LedgerAssumption
    <3>. QED  BY <1>3, <3>2, <3>3
  <2>. QED  BY <2>1, <2>2
<1>. QED  BY <1>6, <1>7, <1>8 DEF ClaimsAreOne

LEMMA ClaimsStep ==
    ASSUME TypeOK, ClaimsAreOne, RowSteps
    PROVE  ClaimsAreOne'
<1>0. turn \in [Turns -> TurnRow] /\ item \in [Items -> ItemRow]
      /\ \A t \in Turns : turn[t].queue_item # NULL => turn[t].queue_item \in Items
  BY DEF TypeOK, TurnRow
<1>1. CASE Quiet
  BY <1>1 DEF Quiet, ClaimsAreOne, MirrorOf, Active
<1>2. CASE Dies
  <2>1. \A t \in Turns : turn[t].queue_item # NULL => item'[turn[t].queue_item].state = MirrorOf(t)'
    BY <1>2 DEF Dies, ClaimsAreOne, MirrorOf, Active, ActiveStates
  <2>2. \A t \in Turns : /\ turn'[t].queue_item = turn[t].queue_item
                         /\ turn'[t].state = "absent" => turn[t].state = "absent"
                         /\ turn'[t].sealed => turn'[t].state = "unknown"
    BY <1>2 DEF Dies, TurnStays, ClaimsAreOne
  <2>. QED  BY <1>2, <2>1, <2>2, ClaimsKept DEF Dies
<1>3. ASSUME NEW k \in Keys, NEW t \in Turns, NEW s \in Sessions, NEW p \in Profiles, Opens(k, t, s, p)
      PROVE  ClaimsAreOne'
  <2>1. /\ turn'[t].queue_item = NULL /\ turn'[t].state = "accepted" /\ ~turn'[t].sealed
        /\ \A u \in Turns \ {t} : turn'[u] = turn[u]
        /\ item' = item /\ turn[t].queue_item = NULL
    BY <1>0, <1>3 DEF Opens, NewTurn, ClaimsAreOne
  <2>2. ASSUME NEW u \in Turns, turn[u].queue_item # NULL PROVE item'[turn[u].queue_item].state = MirrorOf(u)'
    <3>1. turn'[u] = turn[u]
      BY <2>1, <2>2
    <3>. QED  BY <2>1, <2>2, <3>1 DEF ClaimsAreOne, MirrorOf, Active
  <2>3. \A u \in Turns : /\ turn'[u].queue_item = turn[u].queue_item
                         /\ turn'[u].state = "absent" => turn[u].state = "absent"
                         /\ turn'[u].sealed => turn'[u].state = "unknown"
    BY <2>1 DEF ClaimsAreOne
  <2>. QED  BY <2>1, <2>2, <2>3, ClaimsKept
<1>4. ASSUME turn' = turn, \A i \in Items : item'[i].state = item[i].state
                                       \/ (item[i].state \notin Left /\ item'[i].state \notin Left)
      PROVE  ClaimsAreOne'
  <2>1. \A t \in Turns : MirrorOf(t)' = MirrorOf(t) /\ MirrorOf(t) \in Left
    BY <1>4 DEF MirrorOf, Active, Left, EndedItem
  <2>2. \A t \in Turns : turn[t].queue_item # NULL => item'[turn[t].queue_item].state = MirrorOf(t)'
    BY <1>0, <1>4, <2>1 DEF ClaimsAreOne
  <2>. QED  BY <1>4, <2>2, ClaimsKept DEF ClaimsAreOne
<1>5. ASSUME NEW k \in SendIds, NEW i \in Items, NEW s \in Sessions, Joins(k, i, s) PROVE ClaimsAreOne'
  <2>1. turn' = turn /\ item[i].state = "absent" /\ item'[i].state = "pending"
        /\ \A j \in Items \ {i} : item'[j] = item[j]
    BY <1>0, <1>5 DEF Joins
  <2>2. \A j \in Items : item'[j].state = item[j].state \/ (item[j].state \notin Left /\ item'[j].state \notin Left)
    BY <2>1 DEF Left, EndedItem
  <2>. QED  BY <1>4, <2>1, <2>2
<1>6. ASSUME NEW i \in Items, Withdraws(i) PROVE ClaimsAreOne'
  <2>1. turn' = turn /\ item[i].state = "pending" /\ item'[i].state = "withdrawn"
        /\ \A j \in Items \ {i} : item'[j] = item[j]
    BY <1>0, <1>6 DEF Withdraws, ItemRow
  <2>2. \A j \in Items : item'[j].state = item[j].state \/ (item[j].state \notin Left /\ item'[j].state \notin Left)
    BY <2>1 DEF Left, EndedItem
  <2>. QED  BY <1>4, <2>1, <2>2
<1>7. ASSUME NEW t \in Turns, Progresses(t) PROVE ClaimsAreOne'
  <2>1. ASSUME NEW u \in Turns, turn[u].queue_item # NULL PROVE item'[turn[u].queue_item].state = MirrorOf(u)'
    <3>1. u # t => turn'[u] = turn[u]
      BY <1>7 DEF Progresses
    <3>2. MirrorOf(u)' = MirrorOf(u)
      <4>1. CASE u = t
        <5>1. MirrorOf(t) = "dispatched"
          BY <1>7 DEF Progresses, MirrorOf, Active
        <5>2. MirrorOf(t)' = "dispatched"
          BY <1>7 DEF Progresses, MirrorOf, Active
        <5>. QED  BY <4>1, <5>1, <5>2
      <4>2. CASE u # t
        BY <3>1, <4>2 DEF MirrorOf, Active
      <4>. QED  BY <4>1, <4>2
    <3>. QED  BY <1>7, <2>1, <3>2 DEF Progresses, ClaimsAreOne
  <2>2. \A u \in Turns : /\ turn'[u].queue_item = turn[u].queue_item
                         /\ turn'[u].state = "absent" => turn[u].state = "absent"
                         /\ turn'[u].sealed => turn'[u].state = "unknown"
    BY <1>7 DEF Progresses, TurnStays, ClaimsAreOne, Active, ActiveStates
  <2>. QED  BY <1>7, <2>1, <2>2, ClaimsKept DEF Progresses
<1>8. ASSUME NEW t \in Turns, Succeeds(t) PROVE ClaimsAreOne'
  BY <1>8, EndClaims DEF Succeeds
<1>9. ASSUME NEW t \in Turns, NEW how \in {"cancelled", "failed", "unknown"}, Stops(t, how) PROVE ClaimsAreOne'
  BY <1>9, EndClaims DEF Stops
<1>10. ASSUME NEW t \in Turns, NEW u \in Turns, NEW i \in Items, Chains(t, u, i) PROVE ClaimsAreOne'
  BY <1>10, ChainClaims
<1>. QED  BY <1>1, <1>2, <1>3, <1>5, <1>6, <1>7, <1>8, <1>9, <1>10 DEF RowSteps

-----------------------------------------------------------------------------
(* What waits in a session is of the role that runs there *)

\* In a session no restart has sealed.
RolesMatch ==
    \A s \in Sessions : ~Sealed(s) =>
        /\ \A t \in Turns : Active(t) /\ turn[t].session = s => turn[t].profile = session[s].profile
        /\ \A i \in Pending(s) : SessionBusy(s) /\ item[i].profile = session[s].profile

LEMMA RolesInit == Init => RolesMatch
  BY DEF Init, NewTurn, RolesMatch, Active, ActiveStates, Pending

\* A session keeps its role while a turn of it is active.
LEMMA RoleStays ==
    ASSUME TypeOK, RowsAreLinked, [Next]_vars, NEW s \in Sessions, SessionBusy(s)
    PROVE  session'[s].profile = session[s].profile
<1>0. session \in [Sessions -> SessionRow] /\ session[s].status # "absent"
  BY BusyIsThere DEF TypeOK
<1>1. ASSUME NEW o \in Sessions, NEW p \in Profiles, CreateSession(o, p) \/ SwitchProfile(o, p)
      PROVE  session'[s].profile = session[s].profile
  <2>1. o # s /\ \A q \in Sessions \ {o} : session'[q] = session[q]
    BY <1>0, <1>1 DEF CreateSession, SwitchProfile, SwitchAllowed
  <2>. QED  BY <2>1
<1>2. ASSUME NEW o \in Sessions, ArchiveSession(o) PROVE session'[s].profile = session[s].profile
  BY <1>0, <1>2 DEF ArchiveSession, SessionRow
<1>3. ASSUME NEW r \in SendIds, NEW o \in Sessions, NEW p \in Profiles, AcceptIntent(r, o, p)
      PROVE  session'[s].profile = session[s].profile
  BY <1>0, <1>3 DEF AcceptIntent, SessionRow
<1>4. ASSUME NEW k \in TurnKeys, NEW o \in Sessions, CreateTurn(k, o)
      PROVE  session'[s].profile = session[s].profile
  BY <1>0, <1>4 DEF CreateTurn, SessionRow
<1>5. ASSUME NEW t \in Turns, CompleteTurn(t) \/ FinishCancelled(t) \/ \E a \in BOOLEAN : FailTurn(t, a)
      PROVE  session'[s].profile = session[s].profile
  <2>1. PICK text : session' = [session EXCEPT ![turn[t].session].status = text]
    <3>1. CASE CompleteTurn(t)
      BY <3>1 DEF CompleteTurn
    <3>2. CASE FinishCancelled(t)
      BY <3>2 DEF FinishCancelled
    <3>3. ASSUME NEW a \in BOOLEAN, FailTurn(t, a)
          PROVE  \E text : session' = [session EXCEPT ![turn[t].session].status = text]
      BY <3>3 DEF FailTurn
    <3>. QED  BY <1>5, <3>1, <3>2, <3>3
  <2>. QED  BY <1>0, <2>1 DEF SessionRow
<1>6. ASSUME Restart PROVE session'[s].profile = session[s].profile
  BY <1>0, <1>6 DEF Restart, SessionRow
<1>7. CASE UNCHANGED session
  BY <1>7
<1>. QED
  BY <1>1, <1>2, <1>3, <1>4, <1>5, <1>6, <1>7
  DEF Next, Client, Worker, vars, Withdraw, ArchiveProfile, FileCoreRecords, Abandon, DispatchTurn

LEMMA SealsStay ==
    ASSUME TypeOK, ClaimsAreOne, RowSteps, NEW s \in Sessions, Sealed(s)
    PROVE  Sealed(s)'
<1>1. PICK t \in Turns : turn[t].sealed /\ turn[t].session = s /\ turn[t].state = "unknown"
  BY DEF Sealed, ClaimsAreOne
<1>2. turn'[t].sealed /\ turn'[t].session = s
  BY <1>1 DEF RowSteps, Quiet, Dies, Opens, Joins, Withdraws, Progresses, Succeeds, Chains, Stops, Ends, TurnStays, TypeOK
<1>. QED  BY <1>2 DEF Sealed

\* An end in a session, and what was pending there pauses, or the turn had nobody behind it.
LEMMA EndRoles ==
    ASSUME TypeOK, RolesMatch, OneActiveTurn, NEW t \in Turns, NEW how \in TerminalStates, Ends(t, how, {}),
           \A s \in Sessions : SessionBusy(s) => session'[s].profile = session[s].profile,
           \A s \in Sessions : Sealed(s) => Sealed(s)',
           \A i \in Items : item'[i].state = "pending" =>
              item[i].state = "pending" /\ item[i].session # turn[t].session
    PROVE  RolesMatch'
<1>1. \A u \in Turns : Active(u)' => Active(u) /\ turn'[u] = turn[u]
  BY DEF Ends, Active, ActiveStates, TerminalStates
<1>2. ASSUME NEW s \in Sessions, ~Sealed(s)'
      PROVE  /\ \A u \in Turns : Active(u)' /\ turn'[u].session = s => turn'[u].profile = session'[s].profile
             /\ \A i \in Pending(s)' : SessionBusy(s)' /\ item'[i].profile = session'[s].profile
  <2>1. /\ \A u \in Turns : Active(u) /\ turn[u].session = s => turn[u].profile = session[s].profile
        /\ \A i \in Pending(s) : SessionBusy(s) /\ item[i].profile = session[s].profile
    BY <1>2 DEF RolesMatch
  <2>2. \A u \in Turns : Active(u)' /\ turn'[u].session = s => turn'[u].profile = session'[s].profile
    BY <1>1, <2>1 DEF SessionBusy
  <2>3. ASSUME NEW i \in Pending(s)' PROVE SessionBusy(s)' /\ item'[i].profile = session'[s].profile
    <3>1. i \in Pending(s) /\ s # turn[t].session /\ item'[i].profile = item[i].profile
      BY <2>3 DEF Pending, Ends, ItemStays
    <3>2. PICK u \in Turns : Active(u) /\ turn[u].session = s
      BY <2>1, <3>1 DEF SessionBusy
    <3>3. Active(u)' /\ turn'[u].session = s
      BY <3>1, <3>2 DEF Ends, Active
    <3>. QED  BY <2>1, <3>1, <3>3 DEF SessionBusy
  <2>. QED  BY <2>2, <2>3
<1>. QED  BY <1>2 DEF RolesMatch

LEMMA RolesStep ==
    ASSUME TypeOK, RowsAreLinked, OneActiveTurn, ClaimsAreOne, RolesMatch, [Next]_vars, RowSteps
    PROVE  RolesMatch'
<1>0. /\ turn \in [Turns -> TurnRow] /\ item \in [Items -> ItemRow]
      /\ \A s \in Sessions : SessionBusy(s) => session'[s].profile = session[s].profile
      /\ \A s \in Sessions : Sealed(s) => Sealed(s)'
  BY RoleStays, SealsStay DEF TypeOK
\* Turns stay active, and what is pending was.
<1>1. ASSUME \A t \in Turns : TurnStays(t) /\ (Active(t)' <=> Active(t)),
             \A i \in Items : ItemStays(i) /\ (item'[i].state = "pending" => item[i].state = "pending")
      PROVE  RolesMatch'
  <2>1. ASSUME NEW s \in Sessions, ~Sealed(s)'
        PROVE  /\ \A u \in Turns : Active(u)' /\ turn'[u].session = s => turn'[u].profile = session'[s].profile
               /\ \A i \in Pending(s)' : SessionBusy(s)' /\ item'[i].profile = session'[s].profile
    <3>1. SessionBusy(s)' <=> SessionBusy(s)
      BY <1>1 DEF SessionBusy, TurnStays
    <3>2. \A i \in Pending(s)' : i \in Pending(s) /\ item'[i].profile = item[i].profile
      BY <1>1 DEF Pending, ItemStays
    <3>3. \A u \in Turns : Active(u)' /\ turn'[u].session = s =>
             SessionBusy(s) /\ turn'[u].profile = turn[u].profile /\ Active(u) /\ turn[u].session = s
      BY <1>1 DEF SessionBusy, TurnStays
    <3>. QED  BY <1>0, <2>1, <3>1, <3>2, <3>3 DEF RolesMatch
  <2>. QED  BY <2>1 DEF RolesMatch
<1>2. CASE Quiet
  BY <1>1, <1>2 DEF Quiet, TurnStays, ItemStays, Active
<1>3. ASSUME NEW t \in Turns, Progresses(t) PROVE RolesMatch'
  <2>1. \A u \in Turns : TurnStays(u) /\ (Active(u)' <=> Active(u))
    BY <1>3 DEF Progresses, TurnStays, Active
  <2>. QED  BY <1>1, <1>3, <2>1 DEF Progresses, ItemStays
<1>4. ASSUME NEW i \in Items, Withdraws(i) PROVE RolesMatch'
  <2>1. \A j \in Items : ItemStays(j) /\ (item'[j].state = "pending" => item[j].state = "pending")
    BY <1>0, <1>4 DEF Withdraws, ItemStays, ItemRow
  <2>. QED  BY <1>1, <1>4, <2>1 DEF Withdraws, TurnStays, Active
<1>5. CASE Dies
  <2>1. \A u \in Turns : ~Active(u)'
    BY <1>5 DEF Dies, Active, ActiveStates
  <2>2. ASSUME NEW s \in Sessions, ~Sealed(s)' PROVE Pending(s)' = {}
    <3>1. ~Sealed(s) /\ ~SessionBusy(s)
      BY <1>0, <1>5, <2>2 DEF Dies, Sealed, SessionBusy, TurnStays
    <3>2. Pending(s) = {}
      BY <3>1 DEF RolesMatch
    <3>. QED  BY <1>5, <3>2 DEF Dies, Pending
  <2>. QED  BY <2>1, <2>2 DEF RolesMatch
<1>6. ASSUME NEW k \in Keys, NEW t \in Turns, NEW s \in Sessions, NEW p \in Profiles, Opens(k, t, s, p)
      PROVE  RolesMatch'
  <2>1. /\ turn'[t].session = s /\ turn'[t].profile = p /\ Active(t)' /\ session'[s].profile = p
        /\ \A u \in Turns \ {t} : turn'[u] = turn[u]
        /\ item' = item /\ ~Active(t)
    BY <1>0, <1>6 DEF Opens, NewTurn, Active, ActiveStates
  <2>2. ASSUME NEW o \in Sessions, ~Sealed(o)'
        PROVE  /\ \A u \in Turns : Active(u)' /\ turn'[u].session = o => turn'[u].profile = session'[o].profile
               /\ \A i \in Pending(o)' : SessionBusy(o)' /\ item'[i].profile = session'[o].profile
    <3>1. ~Sealed(o) /\ Pending(o)' = Pending(o)
      BY <1>0, <2>1, <2>2 DEF Pending
    <3>2. CASE o = s
      <4>1. ~SessionBusy(s)
        BY <1>6 DEF Opens
      <4>2. Pending(s) = {} /\ \A u \in Turns \ {t} : ~(Active(u) /\ turn[u].session = s)
        BY <3>1, <3>2, <4>1 DEF RolesMatch, SessionBusy
      <4>. QED  BY <2>1, <3>1, <3>2, <4>2 DEF Active
    <3>3. CASE o # s
      <4>1. \A u \in Turns : Active(u)' /\ turn'[u].session = o =>
               u # t /\ Active(u) /\ turn[u].session = o /\ turn'[u] = turn[u] /\ SessionBusy(o)
        BY <2>1, <3>3 DEF Active, SessionBusy
      <4>2. SessionBusy(o) => SessionBusy(o)'
        BY <2>1, <3>3 DEF Active, SessionBusy
      <4>. QED  BY <1>0, <2>1, <3>1, <4>1, <4>2 DEF RolesMatch
    <3>. QED  BY <3>2, <3>3
  <2>. QED  BY <2>2 DEF RolesMatch
<1>7. ASSUME NEW k \in SendIds, NEW i \in Items, NEW s \in Sessions, Joins(k, i, s) PROVE RolesMatch'
  <2>1. /\ item'[i].state = "pending" /\ item'[i].session = s /\ item'[i].profile = session[s].profile
        /\ \A j \in Items \ {i} : item'[j] = item[j]
        /\ turn' = turn /\ SessionBusy(s)
    BY <1>0, <1>7 DEF Joins
  <2>2. ASSUME NEW o \in Sessions, ~Sealed(o)'
        PROVE  /\ \A u \in Turns : Active(u)' /\ turn'[u].session = o => turn'[u].profile = session'[o].profile
               /\ \A j \in Pending(o)' : SessionBusy(o)' /\ item'[j].profile = session'[o].profile
    <3>1. ~Sealed(o) /\ (SessionBusy(o)' <=> SessionBusy(o)) /\ \A u \in Turns : Active(u)' <=> Active(u)
      BY <1>0, <2>1, <2>2 DEF SessionBusy, Active
    <3>2. ASSUME NEW j \in Pending(o)' PROVE SessionBusy(o)' /\ item'[j].profile = session'[o].profile
      <4>1. CASE j = i
        BY <1>0, <2>1, <3>1, <3>2, <4>1 DEF Pending
      <4>2. CASE j # i
        <5>1. j \in Pending(o) /\ item'[j] = item[j]
          BY <2>1, <3>2, <4>2 DEF Pending
        <5>. QED  BY <1>0, <3>1, <5>1 DEF RolesMatch
      <4>. QED  BY <4>1, <4>2
    <3>3. \A u \in Turns : Active(u) /\ turn[u].session = o => SessionBusy(o)
      BY DEF SessionBusy
    <3>. QED  BY <1>0, <2>1, <3>1, <3>2, <3>3 DEF RolesMatch
  <2>. QED  BY <2>2 DEF RolesMatch
<1>8. ASSUME NEW t \in Turns, Succeeds(t) PROVE RolesMatch'
  <2>1. \A j \in Items : item'[j].state = "pending" => item[j].state = "pending" /\ item[j].session # turn[t].session
    BY <1>8 DEF Succeeds, MarkedState, Pending
  <2>. QED  BY <1>0, <1>8, <2>1, EndRoles DEF Succeeds, TerminalStates
<1>9. ASSUME NEW t \in Turns, NEW how \in {"cancelled", "failed", "unknown"}, Stops(t, how) PROVE RolesMatch'
  <2>1. \A j \in Items : item'[j].state = "pending" => item[j].state = "pending" /\ item[j].session # turn[t].session
    BY <1>9 DEF Stops, MarkedState, Pending
  <2>. QED  BY <1>0, <1>9, <2>1, EndRoles DEF Stops, TerminalStates
<1>10. ASSUME NEW t \in Turns, NEW u \in Turns, NEW i \in Items, Chains(t, u, i) PROVE RolesMatch'
  <2>. DEFINE s == turn[t].session
  <2>1. /\ Active(t) /\ s \in Sessions /\ u # t /\ i \in Pending(s) /\ ~Active(t)'
        /\ \A v \in Turns \ {t, u} : turn'[v] = turn[v]
        /\ turn'[u].session = s /\ turn'[u].profile = item[i].profile /\ Active(u)' /\ ~Active(u)
    BY <1>10 DEF Chains, Ends, Oldest, NewTurn, Active, ActiveStates
  <2>2. SessionBusy(s) /\ \A v \in Turns \ {t} : ~(Active(v) /\ turn[v].session = s)
    BY <2>1 DEF SessionBusy, OneActiveTurn
  <2>3. \A o \in Sessions : Pending(o)' \subseteq Pending(o)
    BY <1>10 DEF Chains, Ends, Pending, ItemStays, MarkedState
  <2>4. \A j \in Items : item'[j].profile = item[j].profile
    BY <1>10 DEF Chains, Ends, ItemStays
  <2>5. \A o \in Sessions : SessionBusy(o) => SessionBusy(o)'
    BY <2>1 DEF SessionBusy, Active
  <2>6. ASSUME NEW o \in Sessions, ~Sealed(o)'
        PROVE  /\ \A v \in Turns : Active(v)' /\ turn'[v].session = o => turn'[v].profile = session'[o].profile
               /\ \A j \in Pending(o)' : SessionBusy(o)' /\ item'[j].profile = session'[o].profile
    <3>1. /\ \A v \in Turns : Active(v) /\ turn[v].session = o => turn[v].profile = session[o].profile
          /\ \A j \in Pending(o) : SessionBusy(o) /\ item[j].profile = session[o].profile
      BY <1>0, <2>6 DEF RolesMatch
    <3>2. \A j \in Pending(o)' : j \in Items /\ SessionBusy(o)' /\ item'[j].profile = session'[o].profile
      BY <1>0, <2>3, <2>4, <2>5, <3>1 DEF Pending
    <3>3. ASSUME NEW v \in Turns, Active(v)', turn'[v].session = o PROVE turn'[v].profile = session'[o].profile
      <4>1. CASE v = u
        BY <1>0, <2>1, <2>2, <3>1, <3>3, <4>1
      <4>2. CASE v # u
        <5>1. Active(v) /\ turn'[v] = turn[v]
          BY <2>1, <3>3, <4>2 DEF Active
        <5>. QED  BY <1>0, <3>1, <3>3, <5>1 DEF SessionBusy
      <4>. QED  BY <4>1, <4>2
    <3>. QED  BY <3>2, <3>3
  <2>. QED  BY <2>6 DEF RolesMatch
<1>. QED  BY <1>2, <1>3, <1>4, <1>5, <1>6, <1>7, <1>8, <1>9, <1>10 DEF RowSteps

LEMMA SuccessorFits ==
    TypeOK /\ RowsAreLinked /\ OneActiveTurn /\ ExclusiveHome /\ RolesMatch => CompletionNotRefused
<1>. SUFFICES ASSUME TypeOK, RowsAreLinked, OneActiveTurn, ExclusiveHome, RolesMatch,
                     NEW t \in Turns, turn[t].state = "running", ~Sealed(turn[t].session),
                     NEW i \in Oldest(turn[t].session)
              PROVE  InsertAllowed(turn[t].session, item[i].profile, {t})
  BY DEF CompletionNotRefused
<1>1. turn[t].session \in Sessions /\ Active(t) /\ i \in Pending(turn[t].session)
  BY DEF RowsAreLinked, Active, ActiveStates, Oldest
<1>2. item[i].profile = turn[t].profile
  BY <1>1 DEF RolesMatch
<1>. QED  BY <1>1, <1>2 DEF InsertAllowed, OneActiveTurn, ExclusiveHome

-----------------------------------------------------------------------------
(* Which key a turn and an item answer to *)

OwnTurn(k, t) == receipt[k] # NULL /\ receipt[k].item = NULL /\ receipt[k].turn = t
OwnItem(k, i) == receipt[k] # NULL /\ receipt[k].item # NULL /\ receipt[k].item = i

\* The key whose message t runs: accepted as t, or waiting in the item t was claimed from.
Runs(k, t) == OwnTurn(k, t) \/ OwnItem(k, turn[t].queue_item)

KeysName ==
    /\ \A k \in Keys : receipt[k] # NULL =>
          \/ \E t \in Turns : OwnTurn(k, t) /\ turn[t].state # "absent" /\ turn[t].queue_item = NULL
          \/ \E i \in Items : OwnItem(k, i) /\ item[i].state # "absent"
    /\ \A k, l \in Keys, t \in Turns : OwnTurn(k, t) /\ OwnTurn(l, t) => k = l
    /\ \A k, l \in Keys, i \in Items : OwnItem(k, i) /\ OwnItem(l, i) => k = l
    /\ \A t \in Turns : turn[t].state # "absent" =>
          turn[t].queue_item # NULL \/ \E k \in Keys : OwnTurn(k, t)
    /\ \A i \in Items : item[i].state # "absent" => \E k \in Keys : OwnItem(k, i)
    /\ \A t \in Turns : turn[t].queue_item # NULL => turn[t].session = item[turn[t].queue_item].session

LEMMA NamesInit == Init => KeysName
  BY LedgerAssumption DEF Init, NewTurn, KeysName, OwnTurn, OwnItem

LEMMA NamesKept ==
    ASSUME TypeOK, KeysName, receipt' = receipt,
           \A t \in Turns : turn[t].state # "absent" => TurnStays(t) /\ turn'[t].state # "absent",
           \A t \in Turns : turn[t].state = "absent" =>
              \/ TurnStays(t) /\ turn'[t].state = "absent"
              \/ turn'[t].queue_item \in Items /\ turn'[t].session = item[turn'[t].queue_item].session,
           \A i \in Items : ItemStays(i) /\ (item'[i].state = "absent" <=> item[i].state = "absent")
    PROVE  KeysName'
<1>0. /\ \A t \in Turns : turn[t].queue_item \in Items \cup {NULL}
      /\ \A k \in Keys, t \in Turns : OwnTurn(k, t)' <=> OwnTurn(k, t)
      /\ \A k \in Keys, i \in Items : OwnItem(k, i)' <=> OwnItem(k, i)
  BY DEF TypeOK, TurnRow, OwnTurn, OwnItem
<1>1. ASSUME NEW k \in Keys, receipt'[k] # NULL
      PROVE  \/ \E t \in Turns : OwnTurn(k, t)' /\ turn'[t].state # "absent" /\ turn'[t].queue_item = NULL
             \/ \E i \in Items : OwnItem(k, i)' /\ item'[i].state # "absent"
  <2>1. CASE \E t \in Turns : OwnTurn(k, t) /\ turn[t].state # "absent" /\ turn[t].queue_item = NULL
    BY <1>0, <2>1 DEF TurnStays
  <2>2. CASE \E i \in Items : OwnItem(k, i) /\ item[i].state # "absent"
    BY <1>0, <2>2
  <2>. QED  BY <1>1, <2>1, <2>2 DEF KeysName
<1>2. ASSUME NEW t \in Turns, turn'[t].state # "absent"
      PROVE  turn'[t].queue_item # NULL \/ \E k \in Keys : OwnTurn(k, t)'
  <2>1. CASE turn[t].state # "absent"
    BY <1>0, <2>1 DEF TurnStays, KeysName
  <2>2. CASE turn[t].state = "absent"
    BY <1>2, <2>2, LedgerAssumption
  <2>. QED  BY <2>1, <2>2
<1>3. ASSUME NEW t \in Turns, turn'[t].queue_item # NULL
      PROVE  turn'[t].session = item'[turn'[t].queue_item].session
  <2>1. CASE turn[t].state # "absent"
    BY <1>0, <1>3, <2>1 DEF TurnStays, ItemStays, KeysName
  <2>2. CASE turn[t].state = "absent"
    BY <1>0, <1>3, <2>2 DEF TurnStays, ItemStays, KeysName
  <2>. QED  BY <2>1, <2>2
<1>4. \A i \in Items : item'[i].state # "absent" => \E k \in Keys : OwnItem(k, i)'
  BY <1>0 DEF KeysName
<1>5. /\ \A k, l \in Keys, t \in Turns : OwnTurn(k, t)' /\ OwnTurn(l, t)' => k = l
      /\ \A k, l \in Keys, i \in Items : OwnItem(k, i)' /\ OwnItem(l, i)' => k = l
  BY <1>0 DEF KeysName
<1>. QED  BY <1>1, <1>2, <1>3, <1>4, <1>5 DEF KeysName

LEMMA OpensNames ==
    ASSUME TypeOK, ClaimsAreOne, KeysName,
           NEW k \in Keys, NEW t \in Turns, NEW s \in Sessions, NEW p \in Profiles, Opens(k, t, s, p)
    PROVE  KeysName'
<1>0. /\ receipt'[k] = [turn |-> t, item |-> NULL] /\ \A l \in Keys \ {k} : receipt'[l] = receipt[l]
      /\ receipt'[k] # NULL /\ receipt[k] = NULL
  BY ReceiptAssumption DEF Opens, TypeOK, Fresh, Receipt
<1>1. /\ turn'[t] = NewTurn(s, p, NULL) /\ \A u \in Turns \ {t} : turn'[u] = turn[u]
      /\ turn[t].state = "absent" /\ item' = item
  BY DEF Opens, TypeOK
<1>2. /\ OwnTurn(k, t)' /\ \A u \in Turns : OwnTurn(k, u)' => u = t
      /\ \A i \in Items : ~OwnItem(k, i)'
  BY <1>0 DEF OwnTurn, OwnItem
<1>3. \A l \in Keys \ {k} : /\ \A u \in Turns : OwnTurn(l, u)' <=> OwnTurn(l, u)
                            /\ \A i \in Items : OwnItem(l, i)' <=> OwnItem(l, i)
  BY <1>0 DEF OwnTurn, OwnItem
<1>4. \A l \in Keys : /\ \A u \in Turns : OwnTurn(l, u) => l # k
                      /\ \A i \in Items : OwnItem(l, i) => l # k
  BY <1>0 DEF OwnTurn, OwnItem
<1>5. \A l \in Keys : ~OwnTurn(l, t)
  <2>1. ASSUME NEW l \in Keys, OwnTurn(l, t) PROVE FALSE
    <3>1. receipt[l] # NULL /\ receipt[l].item = NULL /\ receipt[l].turn = t
      BY <2>1 DEF OwnTurn
    <3>2. PICK u \in Turns : OwnTurn(l, u) /\ turn[u].state # "absent"
      BY <3>1, LedgerAssumption DEF KeysName, OwnItem
    <3>. QED  BY <1>1, <3>1, <3>2 DEF OwnTurn
  <2>. QED  BY <2>1
<1>6. turn'[t].queue_item = NULL /\ turn'[t].state # "absent"
  BY <1>1 DEF NewTurn
<1>7. ASSUME NEW l \in Keys, receipt'[l] # NULL
      PROVE  \/ \E u \in Turns : OwnTurn(l, u)' /\ turn'[u].state # "absent" /\ turn'[u].queue_item = NULL
             \/ \E i \in Items : OwnItem(l, i)' /\ item'[i].state # "absent"
  <2>1. CASE l = k
    BY <1>2, <1>6, <2>1
  <2>2. CASE l # k
    <3>1. CASE \E u \in Turns : OwnTurn(l, u) /\ turn[u].state # "absent" /\ turn[u].queue_item = NULL
      BY <1>1, <1>3, <1>5, <2>2, <3>1
    <3>2. CASE \E i \in Items : OwnItem(l, i) /\ item[i].state # "absent"
      BY <1>1, <1>3, <2>2, <3>2
    <3>. QED  BY <1>0, <1>7, <2>2, <3>1, <3>2 DEF KeysName
  <2>. QED  BY <2>1, <2>2
<1>8. ASSUME NEW u \in Turns, turn'[u].state # "absent"
      PROVE  turn'[u].queue_item # NULL \/ \E l \in Keys : OwnTurn(l, u)'
  BY <1>1, <1>2, <1>3, <1>4, <1>8 DEF KeysName
<1>9. \A i \in Items : item'[i].state # "absent" => \E l \in Keys : OwnItem(l, i)'
  BY <1>1, <1>3, <1>4 DEF KeysName
<1>10. \A u \in Turns : turn'[u].queue_item # NULL => turn'[u].session = item'[turn'[u].queue_item].session
  BY <1>1, <1>6 DEF KeysName
<1>11. /\ \A l, m \in Keys, u \in Turns : OwnTurn(l, u)' /\ OwnTurn(m, u)' => l = m
       /\ \A l, m \in Keys, i \in Items : OwnItem(l, i)' /\ OwnItem(m, i)' => l = m
  BY <1>2, <1>3, <1>5 DEF KeysName
<1>. QED  BY <1>7, <1>8, <1>9, <1>10, <1>11 DEF KeysName

LEMMA JoinsNames ==
    ASSUME TypeOK, ClaimsAreOne, KeysName,
           NEW k \in Keys, NEW i \in Items, NEW s \in Sessions, Joins(k, i, s)
    PROVE  KeysName'
<1>0. /\ receipt'[k] = [turn |-> NULL, item |-> i] /\ \A l \in Keys \ {k} : receipt'[l] = receipt[l]
      /\ receipt'[k] # NULL /\ receipt[k] = NULL
  BY ReceiptAssumption DEF Joins, TypeOK, Fresh, Receipt
<1>1. /\ \A j \in Items \ {i} : item'[j] = item[j]
      /\ item'[i].state = "pending" /\ item[i].state = "absent" /\ turn' = turn
  BY DEF Joins, TypeOK
<1>2. /\ OwnItem(k, i)' /\ \A j \in Items : OwnItem(k, j)' => j = i
      /\ \A u \in Turns : ~OwnTurn(k, u)'
  BY <1>0, LedgerAssumption DEF OwnTurn, OwnItem
<1>3. \A l \in Keys \ {k} : /\ \A u \in Turns : OwnTurn(l, u)' <=> OwnTurn(l, u)
                            /\ \A j \in Items : OwnItem(l, j)' <=> OwnItem(l, j)
  BY <1>0 DEF OwnTurn, OwnItem
<1>4. \A l \in Keys : /\ \A u \in Turns : OwnTurn(l, u) => l # k
                      /\ \A j \in Items : OwnItem(l, j) => l # k
  BY <1>0 DEF OwnTurn, OwnItem
<1>5. \A l \in Keys : ~OwnItem(l, i)
  <2>1. ASSUME NEW l \in Keys, OwnItem(l, i) PROVE FALSE
    <3>1. receipt[l] # NULL /\ receipt[l].item # NULL /\ receipt[l].item = i
      BY <2>1 DEF OwnItem
    <3>2. PICK j \in Items : OwnItem(l, j) /\ item[j].state # "absent"
      BY <3>1 DEF KeysName, OwnTurn
    <3>. QED  BY <1>1, <3>1, <3>2 DEF OwnItem
  <2>. QED  BY <2>1
<1>6. \A t \in Turns : turn[t].queue_item # NULL => turn[t].queue_item \in Items \ {i}
  BY <1>1 DEF ClaimsAreOne, MirrorOf, TypeOK, TurnRow
<1>7. ASSUME NEW l \in Keys, receipt'[l] # NULL
      PROVE  \/ \E u \in Turns : OwnTurn(l, u)' /\ turn'[u].state # "absent" /\ turn'[u].queue_item = NULL
             \/ \E j \in Items : OwnItem(l, j)' /\ item'[j].state # "absent"
  <2>1. CASE l = k
    BY <1>1, <1>2, <2>1
  <2>2. CASE l # k
    <3>1. CASE \E u \in Turns : OwnTurn(l, u) /\ turn[u].state # "absent" /\ turn[u].queue_item = NULL
      BY <1>1, <1>3, <2>2, <3>1
    <3>2. CASE \E j \in Items : OwnItem(l, j) /\ item[j].state # "absent"
      BY <1>1, <1>3, <1>5, <2>2, <3>2
    <3>. QED  BY <1>0, <1>7, <2>2, <3>1, <3>2 DEF KeysName
  <2>. QED  BY <2>1, <2>2
<1>8. ASSUME NEW u \in Turns, turn'[u].state # "absent"
      PROVE  turn'[u].queue_item # NULL \/ \E l \in Keys : OwnTurn(l, u)'
  BY <1>1, <1>3, <1>4, <1>8 DEF KeysName
<1>9. \A j \in Items : item'[j].state # "absent" => \E l \in Keys : OwnItem(l, j)'
  BY <1>1, <1>2, <1>3, <1>4 DEF KeysName
<1>10. \A u \in Turns : turn'[u].queue_item # NULL => turn'[u].session = item'[turn'[u].queue_item].session
  BY <1>1, <1>6 DEF KeysName
<1>11. /\ \A l, m \in Keys, u \in Turns : OwnTurn(l, u)' /\ OwnTurn(m, u)' => l = m
       /\ \A l, m \in Keys, j \in Items : OwnItem(l, j)' /\ OwnItem(m, j)' => l = m
  BY <1>2, <1>3, <1>5 DEF KeysName
<1>. QED  BY <1>7, <1>8, <1>9, <1>10, <1>11 DEF KeysName

LEMMA NamesStep ==
    ASSUME TypeOK, ClaimsAreOne, KeysName, RowSteps
    PROVE  KeysName'
<1>0. \A t \in Turns : Active(t) => turn[t].state # "absent"
  BY DEF Active, ActiveStates
<1>1. CASE Quiet
  BY <1>1, NamesKept DEF Quiet, KeysStay, TurnStays, ItemStays
<1>2. CASE Dies
  <2>1. \A t \in Turns : (turn'[t].state = "absent" <=> turn[t].state = "absent") /\ TurnStays(t)
    BY <1>0, <1>2 DEF Dies
  <2>3. \A i \in Items : ItemStays(i) /\ (item'[i].state = "absent" <=> item[i].state = "absent")
    BY <1>2 DEF Dies, ItemStays
  <2>. QED  BY <1>2, <2>1, <2>3, NamesKept DEF Dies, KeysStay
<1>3. ASSUME NEW k \in Keys, NEW t \in Turns, NEW s \in Sessions, NEW p \in Profiles, Opens(k, t, s, p) PROVE KeysName'
  BY <1>3, OpensNames
<1>4. ASSUME NEW k \in SendIds, NEW i \in Items, NEW s \in Sessions, Joins(k, i, s) PROVE KeysName'
  BY <1>4, JoinsNames DEF Keys
<1>5. ASSUME NEW i \in Items, Withdraws(i) PROVE KeysName'
  <2>1. \A j \in Items : ItemStays(j) /\ (item'[j].state = "absent" <=> item[j].state = "absent")
    BY <1>5 DEF Withdraws, ItemStays, TypeOK, ItemRow
  <2>. QED  BY <1>5, <2>1, NamesKept DEF Withdraws, KeysStay, TurnStays
<1>6. ASSUME NEW t \in Turns, Progresses(t) PROVE KeysName'
  <2>1. \A u \in Turns : turn[u].state # "absent" => TurnStays(u) /\ turn'[u].state # "absent"
    BY <1>6 DEF Progresses, TurnStays, Active, ActiveStates
  <2>2. \A u \in Turns : turn[u].state = "absent" => turn'[u] = turn[u]
    BY <1>0, <1>6 DEF Progresses
  <2>. QED  BY <1>6, <2>1, <2>2, NamesKept DEF Progresses, KeysStay, ItemStays, TurnStays
<1>7. ASSUME NEW t \in Turns, NEW how \in TerminalStates, Ends(t, how, {}),
             \A j \in Items : item'[j].state = "absent" <=> item[j].state = "absent"
      PROVE  KeysName'
  <2>1. \A u \in Turns : turn[u].state # "absent" => TurnStays(u) /\ turn'[u].state # "absent"
    BY <1>7 DEF Ends, TurnStays, TerminalStates
  <2>2. \A u \in Turns : turn[u].state = "absent" => turn'[u] = turn[u]
    BY <1>0, <1>7 DEF Ends
  <2>. QED  BY <1>7, <2>1, <2>2, NamesKept DEF Ends, KeysStay, TurnStays
<1>8. ASSUME NEW t \in Turns, Succeeds(t) PROVE KeysName'
  <2>1. \A j \in Items : item'[j].state = "absent" <=> item[j].state = "absent"
    BY <1>8 DEF Succeeds, MarkedState
  <2>. QED  BY <1>7, <1>8, <2>1 DEF Succeeds, TerminalStates
<1>9. ASSUME NEW t \in Turns, NEW how \in {"cancelled", "failed", "unknown"}, Stops(t, how) PROVE KeysName'
  <2>1. \A j \in Items : item'[j].state = "absent" <=> item[j].state = "absent"
    BY <1>9 DEF Stops, MarkedState, Pending
  <2>. QED  BY <1>7, <1>9, <2>1 DEF Stops, TerminalStates
<1>10. ASSUME NEW t \in Turns, NEW u \in Turns, NEW i \in Items, Chains(t, u, i) PROVE KeysName'
  <2>1. \A j \in Items : ItemStays(j) /\ (item'[j].state = "absent" <=> item[j].state = "absent")
    BY <1>10 DEF Chains, Ends, MarkedState, Oldest, Pending
  <2>2. \A v \in Turns : turn[v].state # "absent" => TurnStays(v) /\ turn'[v].state # "absent"
    BY <1>10 DEF Chains, Ends, TurnStays
  <2>3. turn'[u].queue_item = i /\ turn'[u].session = item[i].session
    BY <1>10 DEF Chains, NewTurn, Oldest, Pending
  <2>4. \A v \in Turns \ {u} : turn[v].state = "absent" => turn'[v] = turn[v]
    BY <1>0, <1>10 DEF Chains, Ends
  <2>. QED  BY <1>10, <2>1, <2>2, <2>3, <2>4, NamesKept DEF Chains, Ends, KeysStay, TurnStays
<1>. QED  BY <1>1, <1>2, <1>3, <1>4, <1>5, <1>6, <1>8, <1>9, <1>10 DEF RowSteps

-----------------------------------------------------------------------------
(* What a sender sees *)

Waits(k, i) == OwnItem(k, i) /\ item[i].state \in {"pending", "paused", "withdrawn"}

FateOfItem(i) == IF item[i].state = "pending" THEN "waiting"
                 ELSE IF item[i].state = "paused" THEN "held" ELSE "withdrawn"

Rows == TypeOK /\ ClaimsAreOne /\ KeysName

\* A key has no receipt, or one turn runs it, or its item waits or was taken out.
LEMMA KeyIsSomewhere ==
    Rows => \A k \in Keys : receipt[k] = NULL \/ (\E t \in Turns : Runs(k, t)) \/ (\E i \in Items : Waits(k, i))
<1>. SUFFICES ASSUME Rows, NEW k \in Keys, receipt[k] # NULL
              PROVE  (\E t \in Turns : Runs(k, t)) \/ (\E i \in Items : Waits(k, i))
  OBVIOUS
<1>1. CASE \E t \in Turns : OwnTurn(k, t)
  BY <1>1 DEF Runs
<1>2. ASSUME NEW i \in Items, OwnItem(k, i), item[i].state # "absent"
      PROVE  (\E t \in Turns : Runs(k, t)) \/ (\E j \in Items : Waits(k, j))
  <2>1. CASE item[i].state \in Left
    BY <1>2, <2>1 DEF Rows, ClaimsAreOne, Runs
  <2>2. CASE item[i].state \notin Left
    BY <1>2, <2>2 DEF Rows, TypeOK, ItemRow, Left, EndedItem, Waits
  <2>. QED  BY <2>1, <2>2
<1>. QED  BY <1>1, <1>2 DEF Rows, KeysName

LEMMA KeysDiffer ==
    Rows => /\ \A k, l \in Keys, t \in Turns : Runs(k, t) /\ Runs(l, t) => k = l
            /\ \A k, l \in Keys, i \in Items : Waits(k, i) /\ Waits(l, i) => k = l
            /\ \A t \in Turns : turn[t].state # "absent" => \E k \in Keys : Runs(k, t)
            /\ \A i \in Items : item[i].state \in {"pending", "paused", "withdrawn"} => \E k \in Keys : Waits(k, i)
            /\ \A k \in Keys, t \in Turns : Runs(k, t) => turn[t].state # "absent"
<1>. SUFFICES ASSUME Rows PROVE
            /\ \A k, l \in Keys, t \in Turns : Runs(k, t) /\ Runs(l, t) => k = l
            /\ \A k, l \in Keys, i \in Items : Waits(k, i) /\ Waits(l, i) => k = l
            /\ \A t \in Turns : turn[t].state # "absent" => \E k \in Keys : Runs(k, t)
            /\ \A i \in Items : item[i].state \in {"pending", "paused", "withdrawn"} => \E k \in Keys : Waits(k, i)
            /\ \A k \in Keys, t \in Turns : Runs(k, t) => turn[t].state # "absent"
  OBVIOUS
<1>1. \A t \in Turns : turn[t].queue_item \in Items \cup {NULL}
  BY DEF Rows, TypeOK, TurnRow
<1>2. ASSUME NEW k \in Keys, NEW t \in Turns, Runs(k, t)
      PROVE  /\ turn[t].state # "absent"
             /\ OwnTurn(k, t) => turn[t].queue_item = NULL
             /\ OwnItem(k, turn[t].queue_item) => turn[t].queue_item \in Items
  <2>1. CASE OwnTurn(k, t)
    <3>1. PICK u \in Turns : OwnTurn(k, u) /\ turn[u].state # "absent" /\ turn[u].queue_item = NULL
      BY <2>1 DEF Rows, KeysName, OwnTurn, OwnItem
    <3>. QED  BY <2>1, <3>1 DEF OwnTurn, OwnItem
  <2>2. CASE OwnItem(k, turn[t].queue_item)
    BY <1>1, <2>2 DEF OwnItem, OwnTurn, Rows, ClaimsAreOne
  <2>. QED  BY <1>2, <2>1, <2>2 DEF Runs
<1>3. \A k, l \in Keys, t \in Turns : Runs(k, t) /\ Runs(l, t) => k = l
  <2>1. ASSUME NEW k \in Keys, NEW l \in Keys, NEW t \in Turns, Runs(k, t), Runs(l, t) PROVE k = l
    <3>1. CASE turn[t].queue_item = NULL
      BY <1>2, <2>1, <3>1 DEF Runs, OwnItem, Rows, KeysName
    <3>2. CASE turn[t].queue_item # NULL
      BY <1>1, <1>2, <2>1, <3>2 DEF Runs, Rows, KeysName
    <3>. QED  BY <3>1, <3>2
  <2>. QED  BY <2>1
<1>4. \A k, l \in Keys, i \in Items : Waits(k, i) /\ Waits(l, i) => k = l
  BY DEF Waits, Rows, KeysName
<1>5. \A t \in Turns : turn[t].state # "absent" => \E k \in Keys : Runs(k, t)
  <2>1. ASSUME NEW t \in Turns, turn[t].queue_item # NULL PROVE \E k \in Keys : Runs(k, t)
    <3>1. item[turn[t].queue_item].state = MirrorOf(t) /\ turn[t].queue_item \in Items
      BY <1>1, <2>1 DEF Rows, ClaimsAreOne
    <3>2. MirrorOf(t) # "absent"
      BY DEF MirrorOf
    <3>. QED  BY <3>1, <3>2 DEF Rows, KeysName, Runs
  <2>. QED  BY <2>1 DEF Rows, KeysName, Runs
<1>6. \A i \in Items : item[i].state \in {"pending", "paused", "withdrawn"} => \E k \in Keys : Waits(k, i)
  BY DEF Waits, Rows, KeysName
<1>. QED  BY <1>2, <1>3, <1>4, <1>5, <1>6

\* The three readings of a key, by where it is.
LEMMA UnsentReads ==
    \A k \in Keys : receipt[k] = NULL => Fate(k) = "unsent" /\ HomeOf(k) = NULL /\ RankOf(k) = 0
  BY DEF Fate, HomeOf, RankOf

LEMMA RunReads ==
    Rows => \A k \in Keys, t \in Turns : Runs(k, t) => Fate(k) = FateOfTurn(t) /\ HomeOf(k) = turn[t].session
<1>. SUFFICES ASSUME Rows, NEW k \in Keys, NEW t \in Turns, Runs(k, t)
              PROVE  Fate(k) = FateOfTurn(t) /\ HomeOf(k) = turn[t].session
  OBVIOUS
<1>1. CASE OwnTurn(k, t)
  BY <1>1 DEF OwnTurn, Fate, HomeOf
<1>2. CASE OwnItem(k, turn[t].queue_item)
  <2>. DEFINE i == turn[t].queue_item
  <2>1. /\ receipt[k] # NULL /\ receipt[k].item = i /\ i # NULL /\ i \in Items
        /\ item[i].state = MirrorOf(t) /\ \A u \in Turns : turn[u].queue_item = i => u = t
        /\ turn[t].session = item[i].session
    BY <1>2 DEF OwnItem, Rows, TypeOK, TurnRow, ClaimsAreOne, KeysName
  <2>2. TurnOf(k) = t
    BY <2>1 DEF TurnOf
  <2>3. item[i].state \notin {"pending", "paused", "withdrawn"}
    BY <2>1 DEF MirrorOf
  <2>. QED  BY <2>1, <2>2, <2>3 DEF Fate, HomeOf
<1>. QED  BY <1>1, <1>2 DEF Runs

LEMMA WaitReads ==
    Rows => \A k \in Keys, i \in Items : Waits(k, i) =>
               Fate(k) = FateOfItem(i) /\ HomeOf(k) = item[i].session /\ RankOf(k) = item[i].submitted_at
  BY DEF Waits, OwnItem, Fate, FateOfItem, HomeOf, RankOf

\* The fate, home and rank of a key by where it is, and the promise's two sets.
Reads ==
    /\ \A k \in Keys : receipt[k] = NULL \/ (\E t \in Turns : Runs(k, t)) \/ (\E i \in Items : Waits(k, i))
    /\ \A k \in Keys : receipt[k] = NULL => Fate(k) = "unsent" /\ HomeOf(k) = NULL /\ RankOf(k) = 0
    /\ \A k \in Keys, t \in Turns : Runs(k, t) => Fate(k) = FateOfTurn(t) /\ HomeOf(k) = turn[t].session
    /\ \A k \in Keys, i \in Items : Waits(k, i) =>
          Fate(k) = FateOfItem(i) /\ HomeOf(k) = item[i].session /\ RankOf(k) = item[i].submitted_at
    /\ \A s \in Sessions : Promise!Waiting(s) = {k \in Keys : \E i \in Pending(s) : Waits(k, i)}
    /\ \A s \in Sessions : Promise!Running(s) =
          {k \in Keys : \E t \in Turns : Runs(k, t) /\ Active(t) /\ turn[t].session = s}

LEMMA RowsRead == Rows => Reads
<1>. SUFFICES ASSUME Rows PROVE Reads
  OBVIOUS
<1>1. \A k \in Keys : receipt[k] = NULL \/ (\E t \in Turns : Runs(k, t)) \/ (\E i \in Items : Waits(k, i))
  BY KeyIsSomewhere
<1>2. \A t \in Turns : turn[t].state # "absent" =>
         /\ FateOfTurn(t) \notin {"unsent", "waiting", "held", "withdrawn"}
         /\ FateOfTurn(t) = "running" <=> Active(t)
  BY DEF FateOfTurn, Rows, TypeOK, TurnRow, Active, ActiveStates, TerminalStates
<1>3. \A k \in Keys, t \in Turns : Runs(k, t) => turn[t].state # "absent" /\ Fate(k) = FateOfTurn(t)
                                                 /\ HomeOf(k) = turn[t].session
  BY KeysDiffer, RunReads
<1>4. \A k \in Keys, i \in Items : Waits(k, i) =>
         /\ Fate(k) = FateOfItem(i) /\ HomeOf(k) = item[i].session
         /\ Fate(k) # "running" /\ (Fate(k) = "waiting" <=> item[i].state = "pending")
  BY WaitReads DEF FateOfItem
<1>5. ASSUME NEW s \in Sessions
      PROVE  Promise!Waiting(s) = {k \in Keys : \E i \in Pending(s) : Waits(k, i)}
  <2>1. Promise!Waiting(s) = {k \in Keys : Fate(k) = "waiting" /\ HomeOf(k) = s}
    BY DEF Promise!Waiting, Promise!Keys, Keys
  <2>2. \A k \in Keys : (Fate(k) = "waiting" /\ HomeOf(k) = s) <=> \E i \in Pending(s) : Waits(k, i)
    BY <1>1, <1>2, <1>3, <1>4, UnsentReads DEF Pending
  <2>. QED  BY <2>1, <2>2
<1>6. ASSUME NEW s \in Sessions
      PROVE  Promise!Running(s) = {k \in Keys : \E t \in Turns : Runs(k, t) /\ Active(t) /\ turn[t].session = s}
  <2>1. Promise!Running(s) = {k \in Keys : Fate(k) = "running" /\ HomeOf(k) = s}
    BY DEF Promise!Running, Promise!Keys, Keys
  <2>2. \A k \in Keys : (Fate(k) = "running" /\ HomeOf(k) = s)
                          <=> \E t \in Turns : Runs(k, t) /\ Active(t) /\ turn[t].session = s
    BY <1>1, <1>2, <1>3, <1>4, UnsentReads
  <2>. QED  BY <2>1, <2>2
<1>. QED  BY <1>1, <1>5, <1>6, UnsentReads, RunReads, WaitReads DEF Reads

-----------------------------------------------------------------------------
(* Every shape of a step is a step of the promise *)

LEMMA Unseen ==
    ASSUME \A k \in Keys : Fate(k)' = Fate(k) /\ HomeOf(k)' = HomeOf(k) /\ RankOf(k)' = RankOf(k), clock' = clock
    PROVE  UNCHANGED Promise!vars
<1>1. /\ [k \in Keys |-> Fate(k)]' = [k \in Keys |-> Fate(k)]
      /\ [k \in Keys |-> HomeOf(k)]' = [k \in Keys |-> HomeOf(k)]
      /\ [k \in Keys |-> RankOf(k)]' = [k \in Keys |-> RankOf(k)]
  OBVIOUS
<1>. QED  BY <1>1 DEF Promise!vars

\* While no receipt is written, a key keeps its turn or its item, its home and its rank.
LEMMA HomesStay ==
    ASSUME Rows, KeysStay, \A t \in Turns : turn[t].state # "absent" => TurnStays(t), \A i \in Items : ItemStays(i)
    PROVE  /\ \A k \in Keys : HomeOf(k)' = HomeOf(k) /\ RankOf(k)' = RankOf(k)
           /\ \A k \in Keys, t \in Turns : Runs(k, t) => Runs(k, t)' /\ turn[t].state # "absent"
           /\ \A k \in Keys, i \in Items : OwnItem(k, i)' <=> OwnItem(k, i)
<1>1. \A k \in Keys, t \in Turns : Runs(k, t) => Runs(k, t)' /\ turn[t].state # "absent"
  BY KeysDiffer DEF Runs, OwnTurn, OwnItem, KeysStay, TurnStays
<1>2. \A k \in Keys, i \in Items : OwnItem(k, i)' <=> OwnItem(k, i)
  BY DEF OwnItem, KeysStay
<1>3. ASSUME NEW k \in Keys PROVE HomeOf(k)' = HomeOf(k) /\ RankOf(k)' = RankOf(k)
  <2>1. CASE receipt[k] = NULL
    BY <2>1 DEF HomeOf, RankOf, KeysStay
  <2>2. ASSUME NEW t \in Turns, OwnTurn(k, t), turn[t].state # "absent" PROVE HomeOf(k)' = HomeOf(k) /\ RankOf(k)' = RankOf(k)
    BY <2>2 DEF HomeOf, RankOf, KeysStay, OwnTurn, TurnStays
  <2>3. ASSUME NEW i \in Items, OwnItem(k, i) PROVE HomeOf(k)' = HomeOf(k) /\ RankOf(k)' = RankOf(k)
    BY <2>3 DEF HomeOf, RankOf, KeysStay, OwnItem, ItemStays
  <2>. QED  BY <2>1, <2>2, <2>3 DEF Rows, KeysName
<1>. QED  BY <1>1, <1>2, <1>3

LEMMA QuietKeeps ==
    ASSUME Quiet PROVE UNCHANGED Promise!vars
<1>1. \A k \in Keys : Fate(k)' = Fate(k) /\ HomeOf(k)' = HomeOf(k) /\ RankOf(k)' = RankOf(k)
  BY DEF Quiet, KeysStay, Fate, FateOfTurn, TurnOf, Active, HomeOf, RankOf
<1>. QED  BY <1>1, Unseen DEF Quiet, KeysStay

LEMMA ProgressKeeps ==
    ASSUME Rows, Reads, Reads', NEW t \in Turns, Progresses(t) PROVE UNCHANGED Promise!vars
<1>1. \A u \in Turns : /\ TurnStays(u) /\ FateOfTurn(u)' = FateOfTurn(u)
  BY DEF Progresses, TurnStays, FateOfTurn, Active
<1>2. item' = item /\ KeysStay /\ \A i \in Items : ItemStays(i) /\ FateOfItem(i)' = FateOfItem(i)
  BY DEF Progresses, ItemStays, FateOfItem
<1>3. /\ \A k \in Keys : HomeOf(k)' = HomeOf(k) /\ RankOf(k)' = RankOf(k)
      /\ \A k \in Keys, u \in Turns : Runs(k, u) => Runs(k, u)'
      /\ \A k \in Keys, i \in Items : Waits(k, i) => Waits(k, i)'
  BY <1>1, <1>2, HomesStay DEF Waits
<1>4. ASSUME NEW k \in Keys PROVE Fate(k)' = Fate(k)
  BY <1>1, <1>2, <1>3 DEF Reads, KeysStay
<1>. QED  BY <1>2, <1>3, <1>4, Unseen DEF KeysStay

LEMMA DieKeeps ==
    ASSUME Rows, Reads, Reads', Dies PROVE Promise!Crash
<1>1. \A u \in Turns : turn[u].state # "absent" =>
         /\ TurnStays(u) 
         /\ FateOfTurn(u)' = IF FateOfTurn(u) = "running" THEN "unknown" ELSE FateOfTurn(u)
  BY DEF Dies, FateOfTurn, Active, ActiveStates
<1>2. item' = item /\ KeysStay /\ \A i \in Items : ItemStays(i) /\ FateOfItem(i)' = FateOfItem(i)
                   /\ FateOfItem(i) # "running"
  BY DEF Dies, ItemStays, FateOfItem
<1>3. /\ \A k \in Keys : HomeOf(k)' = HomeOf(k) /\ RankOf(k)' = RankOf(k)
      /\ \A k \in Keys, u \in Turns : Runs(k, u) => Runs(k, u)' /\ turn[u].state # "absent"
      /\ \A k \in Keys, i \in Items : Waits(k, i) => Waits(k, i)'
  BY <1>1, <1>2, HomesStay DEF Waits
<1>4. ASSUME NEW k \in Keys PROVE Fate(k)' = IF Fate(k) = "running" THEN "unknown" ELSE Fate(k)
  <2>1. ASSUME NEW u \in Turns, Runs(k, u) PROVE Fate(k)' = IF Fate(k) = "running" THEN "unknown" ELSE Fate(k)
    BY <1>1, <1>3, <2>1 DEF Reads
  <2>2. ASSUME NEW i \in Items, Waits(k, i) PROVE Fate(k)' = IF Fate(k) = "running" THEN "unknown" ELSE Fate(k)
    BY <1>2, <1>3, <2>2 DEF Reads
  <2>. QED  BY <1>2, <2>1, <2>2 DEF Reads, KeysStay
<1>5. /\ [k \in Keys |-> Fate(k)]' = [k \in Keys |-> IF Fate(k) = "running" THEN "unknown" ELSE Fate(k)]
      /\ [k \in Keys |-> HomeOf(k)]' = [k \in Keys |-> HomeOf(k)]
      /\ [k \in Keys |-> RankOf(k)]' = [k \in Keys |-> RankOf(k)]
  BY <1>3, <1>4
<1>. QED  BY <1>2, <1>5 DEF Promise!Crash, Promise!Keys, Keys, KeysStay

LEMMA EndFates ==
    ASSUME Rows, Reads, Reads', NEW t \in Turns, NEW how \in TerminalStates,
           NEW others \in SUBSET Turns, \A v \in others : turn[v].state = "absent",
           Ends(t, how, others), NEW k \in Keys, Runs(k, t)
    PROVE  /\ \A l \in Keys : HomeOf(l)' = HomeOf(l) /\ RankOf(l)' = RankOf(l)
           /\ Fate(k) = "running" /\ Fate(k)' = how /\ HomeOf(k) = turn[t].session
           /\ \A l \in Keys \ {k} : Fate(l)' = Fate(l) \/ \E j \in Items : Waits(l, j)
           /\ \A l \in Keys, j \in Items : Waits(l, j) =>
                 /\ OwnItem(l, j)' /\ l # k
                 /\ item'[j].state \in {"pending", "paused", "withdrawn"} => Waits(l, j)'
<1>1. /\ Active(t) /\ turn[t].state # "absent" /\ turn'[t].state = how /\ KeysStay
      /\ \A i \in Items : ItemStays(i)
      /\ \A v \in Turns \ {t} : turn[v].state # "absent" => turn'[v] = turn[v]
      /\ \A v \in Turns : turn[v].state # "absent" => TurnStays(v)
  BY DEF Ends, Active, ActiveStates, TurnStays
<1>2. /\ \A l \in Keys : HomeOf(l)' = HomeOf(l) /\ RankOf(l)' = RankOf(l)
      /\ \A l \in Keys, v \in Turns : Runs(l, v) => Runs(l, v)' /\ turn[v].state # "absent"
      /\ \A l \in Keys, i \in Items : OwnItem(l, i)' <=> OwnItem(l, i)
  BY <1>1, HomesStay
<1>3. FateOfTurn(t) = "running" /\ FateOfTurn(t)' = how
  BY <1>1 DEF FateOfTurn, Active, ActiveStates, TerminalStates
<1>4. Fate(k) = "running" /\ Fate(k)' = how /\ HomeOf(k) = turn[t].session
  BY <1>2, <1>3 DEF Reads
<1>5. ASSUME NEW l \in Keys \ {k} PROVE Fate(l)' = Fate(l) \/ \E j \in Items : Waits(l, j)
  <2>1. ASSUME NEW v \in Turns, Runs(l, v) PROVE Fate(l)' = Fate(l)
    <3>1. v # t
      BY <2>1, KeysDiffer
    <3>2. FateOfTurn(v)' = FateOfTurn(v)
      BY <1>1, <1>2, <2>1, <3>1 DEF FateOfTurn, Active
    <3>. QED  BY <1>2, <2>1, <3>2 DEF Reads
  <2>2. CASE receipt[l] = NULL
    BY <1>1, <2>2 DEF Reads, KeysStay
  <2>. QED  BY <2>1, <2>2 DEF Reads
<1>6. \A l \in Keys, j \in Items : Waits(l, j) =>
         /\ OwnItem(l, j)' /\ l # k
         /\ item'[j].state \in {"pending", "paused", "withdrawn"} => Waits(l, j)'
  BY <1>2, <1>4 DEF Waits, Reads, FateOfItem
<1>. QED  BY <1>2, <1>4, <1>5, <1>6

LEMMA StopKeeps ==
    ASSUME Rows, Reads, Reads', NEW t \in Turns, NEW how \in {"cancelled", "failed", "unknown"}, Stops(t, how)
    PROVE  \E k \in Keys : Promise!End(k, how)
<1>1. PICK k \in Keys : Runs(k, t)
  BY KeysDiffer DEF Stops, Ends, Active, ActiveStates
<1>2. /\ \A l \in Keys : HomeOf(l)' = HomeOf(l) /\ RankOf(l)' = RankOf(l)
      /\ Fate(k) = "running" /\ Fate(k)' = how /\ HomeOf(k) = turn[t].session
      /\ \A l \in Keys \ {k} : Fate(l)' = Fate(l) \/ \E j \in Items : Waits(l, j)
      /\ \A l \in Keys, j \in Items : Waits(l, j) =>
            /\ OwnItem(l, j)' /\ l # k
            /\ item'[j].state \in {"pending", "paused", "withdrawn"} => Waits(l, j)'
  BY <1>1, EndFates DEF Stops, TerminalStates
<1>3. ASSUME NEW l \in Keys \ {k}
      PROVE  Fate(l)' = IF \E j \in Pending(turn[t].session) : Waits(l, j) THEN "held" ELSE Fate(l)
  <2>1. ASSUME NEW j \in Items, Waits(l, j)
        PROVE  Fate(l)' = IF \E i \in Pending(turn[t].session) : Waits(l, i) THEN "held" ELSE Fate(l)
    <3>1. item'[j].state = IF j \in Pending(turn[t].session) THEN "paused" ELSE item[j].state
      BY <2>1 DEF Stops, MarkedState, Waits
    <3>2. Waits(l, j)' /\ \A i \in Items : Waits(l, i) => i = j
      BY <1>2, <2>1, <3>1 DEF Waits, OwnItem
    <3>3. Fate(l)' = FateOfItem(j)' /\ Fate(l) = FateOfItem(j)
      BY <2>1, <3>2 DEF Reads
    <3>. QED  BY <2>1, <3>1, <3>2, <3>3 DEF FateOfItem, Pending
  <2>2. CASE ~\E j \in Items : Waits(l, j)
    BY <1>2, <2>2 DEF Pending
  <2>. QED  BY <2>1, <2>2
<1>4. turn[t].session \in Sessions
  BY DEF Stops, Ends
<1>5. [l \in Keys |-> Fate(l)]' =
         [l \in Keys |-> IF l = k THEN how
                         ELSE IF l \in Promise!Waiting(turn[t].session) THEN "held" ELSE Fate(l)]
  BY <1>2, <1>3, <1>4 DEF Reads
<1>6. /\ [l \in Keys |-> HomeOf(l)]' = [l \in Keys |-> HomeOf(l)]
      /\ [l \in Keys |-> RankOf(l)]' = [l \in Keys |-> RankOf(l)] /\ clock' = clock
  BY <1>2 DEF Stops, Ends, KeysStay
<1>. QED  BY <1>2, <1>5, <1>6 DEF Promise!End, Promise!Ended, Promise!Keys, Keys

LEMMA SucceedKeeps ==
    ASSUME Rows, Reads, Reads', NEW t \in Turns, Succeeds(t)
    PROVE  \E k \in Keys : Promise!Succeed(k)
<1>1. PICK k \in Keys : Runs(k, t)
  BY KeysDiffer DEF Succeeds, Ends, Active, ActiveStates
<1>2. /\ \A l \in Keys : HomeOf(l)' = HomeOf(l) /\ RankOf(l)' = RankOf(l)
      /\ Fate(k) = "running" /\ Fate(k)' = "completed" /\ HomeOf(k) = turn[t].session
      /\ \A l \in Keys \ {k} : Fate(l)' = Fate(l) \/ \E j \in Items : Waits(l, j)
      /\ \A l \in Keys, j \in Items : Waits(l, j) =>
            /\ OwnItem(l, j)' /\ l # k
            /\ item'[j].state \in {"pending", "paused", "withdrawn"} => Waits(l, j)'
  BY <1>1, EndFates DEF Succeeds, TerminalStates
<1>3. ASSUME NEW l \in Keys \ {k} PROVE Fate(l)' = Fate(l)
  <2>1. ASSUME NEW j \in Items, Waits(l, j) PROVE Fate(l)' = Fate(l)
    <3>1. item'[j].state = item[j].state
      BY <2>1 DEF Succeeds, MarkedState, Waits
    <3>2. Waits(l, j)'
      BY <1>2, <2>1, <3>1 DEF Waits
    <3>. QED  BY <2>1, <3>1, <3>2 DEF Reads, FateOfItem
  <2>. QED  BY <1>2, <2>1
<1>4. Promise!Waiting(HomeOf(k)) = {}
  BY <1>2 DEF Succeeds, Ends, Reads
<1>5. [l \in Keys |-> Fate(l)]' = [[l \in Keys |-> Fate(l)] EXCEPT ![k] = "completed"]
  BY <1>2, <1>3
<1>6. /\ [l \in Keys |-> HomeOf(l)]' = [l \in Keys |-> HomeOf(l)]
      /\ [l \in Keys |-> RankOf(l)]' = [l \in Keys |-> RankOf(l)] /\ clock' = clock
  BY <1>2 DEF Succeeds, Ends, KeysStay
<1>. QED  BY <1>2, <1>4, <1>5, <1>6 DEF Promise!Succeed, Promise!Keys, Keys

LEMMA ChainKeeps ==
    ASSUME Rows, Reads, Reads', NEW t \in Turns, NEW u \in Turns, NEW i \in Items, Chains(t, u, i)
    PROVE  \E k \in Keys : Promise!Succeed(k)
<1>1. PICK k \in Keys : Runs(k, t)
  BY KeysDiffer DEF Chains, Ends, Active, ActiveStates
<1>2. /\ \A l \in Keys : HomeOf(l)' = HomeOf(l) /\ RankOf(l)' = RankOf(l)
      /\ Fate(k) = "running" /\ Fate(k)' = "completed" /\ HomeOf(k) = turn[t].session
      /\ \A l \in Keys \ {k} : Fate(l)' = Fate(l) \/ \E j \in Items : Waits(l, j)
      /\ \A l \in Keys, j \in Items : Waits(l, j) =>
            /\ OwnItem(l, j)' /\ l # k
            /\ item'[j].state \in {"pending", "paused", "withdrawn"} => Waits(l, j)'
  BY <1>1, EndFates DEF Chains, TerminalStates
<1>3. /\ i \in Pending(turn[t].session) /\ turn[t].session \in Sessions
      /\ \A j \in Pending(turn[t].session) : item[i].submitted_at <= item[j].submitted_at
  BY DEF Chains, Ends, Oldest
<1>4. PICK w \in Keys : Waits(w, i)
  BY <1>3, KeysDiffer DEF Pending
<1>5. Fate(w)' = "running" /\ w # k
  <2>1. Runs(w, u)'
    BY <1>2, <1>4 DEF Runs, Chains, NewTurn
  <2>2. FateOfTurn(u)' = "running"
    BY DEF Chains, NewTurn, FateOfTurn, Active, ActiveStates
  <2>. QED  BY <1>2, <1>4, <2>1, <2>2 DEF Reads
<1>6. ASSUME NEW l \in Keys \ {k, w} PROVE Fate(l)' = Fate(l)
  <2>1. ASSUME NEW j \in Items, Waits(l, j) PROVE Fate(l)' = Fate(l)
    <3>0. j # i
      BY <1>4, <2>1, KeysDiffer
    <3>1. item'[j].state = item[j].state
      BY <2>1, <3>0 DEF Chains, MarkedState, Waits
    <3>2. Waits(l, j)'
      BY <1>2, <2>1, <3>1 DEF Waits
    <3>. QED  BY <2>1, <3>1, <3>2 DEF Reads, FateOfItem
  <2>. QED  BY <1>2, <2>1
<1>7. w \in Promise!First(HomeOf(k))
  <2>1. w \in Promise!Waiting(HomeOf(k)) /\ RankOf(w) = item[i].submitted_at
    BY <1>2, <1>3, <1>4 DEF Reads
  <2>2. \A l \in Promise!Waiting(HomeOf(k)) : l \in Keys /\ RankOf(w) <= RankOf(l)
    BY <1>2, <1>3, <2>1 DEF Reads, Pending
  <2>. QED  BY <2>1, <2>2 DEF Promise!First
<1>8. [l \in Keys |-> Fate(l)]' = [[l \in Keys |-> Fate(l)] EXCEPT ![k] = "completed", ![w] = "running"]
  BY <1>2, <1>5, <1>6
<1>9. /\ [l \in Keys |-> HomeOf(l)]' = [l \in Keys |-> HomeOf(l)]
      /\ [l \in Keys |-> RankOf(l)]' = [l \in Keys |-> RankOf(l)] /\ clock' = clock
  BY <1>2 DEF Chains, Ends, KeysStay
<1>. QED  BY <1>2, <1>7, <1>8, <1>9 DEF Promise!Succeed, Promise!Keys, Keys

LEMMA WithdrawKeeps ==
    ASSUME Rows, Reads, Reads', NEW i \in Items, Withdraws(i)
    PROVE  \E k \in Keys : Promise!Withdraw(k)
<1>1. /\ item[i].state = "pending" /\ item'[i].state = "withdrawn" /\ turn' = turn /\ KeysStay
      /\ \A j \in Items \ {i} : item'[j] = item[j]
      /\ \A j \in Items : ItemStays(j)
  BY DEF Withdraws, ItemStays, Rows, TypeOK, ItemRow
<1>2. PICK k \in Keys : Waits(k, i)
  BY <1>1, KeysDiffer
<1>3. /\ \A l \in Keys : HomeOf(l)' = HomeOf(l) /\ RankOf(l)' = RankOf(l)
      /\ \A l \in Keys, v \in Turns : Runs(l, v) => Runs(l, v)'
      /\ \A l \in Keys, j \in Items : OwnItem(l, j)' <=> OwnItem(l, j)
  BY <1>1, HomesStay DEF TurnStays
<1>4. Fate(k) = "waiting" /\ Fate(k)' = "withdrawn"
  BY <1>1, <1>2, <1>3 DEF Reads, Waits, FateOfItem
<1>5. ASSUME NEW l \in Keys \ {k} PROVE Fate(l)' = Fate(l)
  <2>1. ASSUME NEW j \in Items, Waits(l, j) PROVE Fate(l)' = Fate(l)
    <3>1. j # i
      BY <1>2, <2>1, KeysDiffer
    <3>2. Waits(l, j)' /\ FateOfItem(j)' = FateOfItem(j)
      BY <1>1, <1>3, <2>1, <3>1 DEF Waits, FateOfItem
    <3>. QED  BY <2>1, <3>2 DEF Reads
  <2>2. ASSUME NEW v \in Turns, Runs(l, v) PROVE Fate(l)' = Fate(l)
    <3>1. FateOfTurn(v)' = FateOfTurn(v)
      BY <1>1 DEF FateOfTurn, Active
    <3>. QED  BY <1>3, <2>2, <3>1 DEF Reads
  <2>3. CASE receipt[l] = NULL
    BY <1>1, <2>3 DEF Reads, KeysStay
  <2>. QED  BY <2>1, <2>2, <2>3 DEF Reads
<1>6. [l \in Keys |-> Fate(l)]' = [[l \in Keys |-> Fate(l)] EXCEPT ![k] = "withdrawn"]
  BY <1>4, <1>5
<1>7. /\ [l \in Keys |-> HomeOf(l)]' = [l \in Keys |-> HomeOf(l)]
      /\ [l \in Keys |-> RankOf(l)]' = [l \in Keys |-> RankOf(l)] /\ clock' = clock
  BY <1>1, <1>3 DEF KeysStay
<1>. QED  BY <1>4, <1>6, <1>7 DEF Promise!Withdraw, Promise!Keys, Keys

\* The keys that have a receipt keep all that their sender sees.
LEMMA OthersStay ==
    ASSUME Rows, Reads, Reads', NEW k \in Keys, \A l \in Keys \ {k} : receipt'[l] = receipt[l],
           \A v \in Turns : turn[v].state # "absent" => turn'[v] = turn[v],
           \A j \in Items : item[j].state # "absent" => item'[j] = item[j]
    PROVE  \A l \in Keys \ {k} : Fate(l)' = Fate(l) /\ HomeOf(l)' = HomeOf(l) /\ RankOf(l)' = RankOf(l)
<1>. SUFFICES ASSUME NEW l \in Keys \ {k}
              PROVE  Fate(l)' = Fate(l) /\ HomeOf(l)' = HomeOf(l) /\ RankOf(l)' = RankOf(l)
  OBVIOUS
<1>1. CASE receipt[l] = NULL
  BY <1>1 DEF Reads
<1>2. RankOf(l)' = RankOf(l)
  <2>1. receipt[l] = NULL \/ receipt[l].item = NULL \/ \E j \in Items : receipt[l].item = j /\ item[j].state # "absent"
    BY DEF Rows, KeysName, OwnTurn, OwnItem
  <2>. QED  BY <2>1 DEF RankOf
<1>3. ASSUME NEW v \in Turns, Runs(l, v) PROVE Fate(l)' = Fate(l) /\ HomeOf(l)' = HomeOf(l)
  <2>1. turn'[v] = turn[v] /\ Runs(l, v)'
    BY <1>3, KeysDiffer DEF Runs, OwnTurn, OwnItem
  <2>2. FateOfTurn(v)' = FateOfTurn(v)
    BY <2>1 DEF FateOfTurn, Active
  <2>. QED  BY <1>3, <2>1, <2>2 DEF Reads
<1>4. ASSUME NEW j \in Items, Waits(l, j) PROVE Fate(l)' = Fate(l) /\ HomeOf(l)' = HomeOf(l)
  <2>1. item'[j] = item[j] /\ Waits(l, j)'
    BY <1>4 DEF Waits, OwnItem
  <2>. QED  BY <1>4, <2>1 DEF Reads, FateOfItem
<1>. QED  BY <1>1, <1>2, <1>3, <1>4 DEF Reads

LEMMA OpenKeeps ==
    ASSUME Rows, Reads, Reads', NEW k \in Keys, NEW t \in Turns, NEW s \in Sessions, NEW p \in Profiles, Opens(k, t, s, p)
    PROVE  Promise!Start(k, s)
<1>1. /\ receipt'[k] = [turn |-> t, item |-> NULL] /\ \A l \in Keys \ {k} : receipt'[l] = receipt[l]
      /\ receipt'[k] # NULL /\ receipt[k] = NULL
  BY ReceiptAssumption DEF Opens, Rows, TypeOK, Fresh, Receipt
<1>2. /\ turn'[t] = NewTurn(s, p, NULL) /\ item' = item /\ clock' = clock
      /\ \A v \in Turns : turn[v].state # "absent" => turn'[v] = turn[v]
  BY DEF Opens, Rows, TypeOK
<1>3. \A l \in Keys \ {k} : Fate(l)' = Fate(l) /\ HomeOf(l)' = HomeOf(l) /\ RankOf(l)' = RankOf(l)
  BY <1>1, <1>2, OthersStay
<1>4. Fate(k)' = "running" /\ HomeOf(k)' = s /\ RankOf(k)' = 0
  <2>1. Runs(k, t)'
    BY <1>1 DEF Runs, OwnTurn
  <2>2. FateOfTurn(t)' = "running" /\ turn'[t].session = s
    BY <1>2 DEF NewTurn, FateOfTurn, Active, ActiveStates
  <2>3. RankOf(k)' = 0
    BY <1>1 DEF RankOf
  <2>. QED  BY <2>1, <2>2, <2>3 DEF Reads
<1>5. Fate(k) = "unsent" /\ RankOf(k) = 0
  BY <1>1 DEF Reads
<1>6. Promise!Running(s) = {}
  BY DEF Reads, Opens, SessionBusy
<1>7. /\ [l \in Keys |-> Fate(l)]' = [[l \in Keys |-> Fate(l)] EXCEPT ![k] = "running"]
      /\ [l \in Keys |-> HomeOf(l)]' = [[l \in Keys |-> HomeOf(l)] EXCEPT ![k] = s]
      /\ [l \in Keys |-> RankOf(l)]' = [l \in Keys |-> RankOf(l)]
  BY <1>3, <1>4, <1>5
<1>. QED  BY <1>2, <1>5, <1>6, <1>7 DEF Promise!Start, Promise!Keys, Keys

LEMMA JoinKeeps ==
    ASSUME Rows, Reads, Reads', NEW k \in Keys, NEW i \in Items, NEW s \in Sessions, Joins(k, i, s)
    PROVE  Promise!Join(k, s)
<1>1. /\ receipt'[k] = [turn |-> NULL, item |-> i] /\ \A l \in Keys \ {k} : receipt'[l] = receipt[l]
      /\ receipt'[k] # NULL /\ receipt[k] = NULL
  BY ReceiptAssumption DEF Joins, Rows, TypeOK, Fresh, Receipt
<1>2. /\ item'[i].state = "pending" /\ item'[i].session = s /\ item'[i].submitted_at = clock
      /\ turn' = turn /\ clock' = clock + 1
      /\ \A j \in Items : item[j].state # "absent" => item'[j] = item[j]
  BY DEF Joins, Rows, TypeOK
<1>3. \A l \in Keys \ {k} : Fate(l)' = Fate(l) /\ HomeOf(l)' = HomeOf(l) /\ RankOf(l)' = RankOf(l)
  BY <1>1, <1>2, OthersStay
<1>4. Fate(k)' = "waiting" /\ HomeOf(k)' = s /\ RankOf(k)' = clock
  <2>1. Waits(k, i)' /\ FateOfItem(i)' = "waiting"
    BY <1>1, <1>2, LedgerAssumption DEF Waits, OwnItem, FateOfItem
  <2>. QED  BY <1>2, <2>1 DEF Reads
<1>5. Fate(k) = "unsent"
  BY <1>1 DEF Reads
<1>6. Promise!Running(s) # {}
  <2>1. PICK t \in Turns : Active(t) /\ turn[t].session = s
    BY DEF Joins, SessionBusy
  <2>2. PICK l \in Keys : Runs(l, t)
    BY <2>1, KeysDiffer DEF Active, ActiveStates
  <2>. QED  BY <2>1, <2>2 DEF Reads
<1>7. /\ [l \in Keys |-> Fate(l)]' = [[l \in Keys |-> Fate(l)] EXCEPT ![k] = "waiting"]
      /\ [l \in Keys |-> HomeOf(l)]' = [[l \in Keys |-> HomeOf(l)] EXCEPT ![k] = s]
      /\ [l \in Keys |-> RankOf(l)]' = [[l \in Keys |-> RankOf(l)] EXCEPT ![k] = clock]
  BY <1>3, <1>4
<1>. QED  BY <1>2, <1>5, <1>6, <1>7 DEF Promise!Join, Promise!Keys, Keys

LEMMA PromiseInit == Init => Promise!Init
<1>. SUFFICES ASSUME Init PROVE Promise!Init
  OBVIOUS
<1>1. \A k \in Keys : Fate(k) = "unsent" /\ HomeOf(k) = NULL /\ RankOf(k) = 0
  BY UnsentReads DEF Init
<1>. QED  BY <1>1 DEF Init, Promise!Init, Promise!Keys, Keys

LEMMA PromiseStep ==
    ASSUME Rows, Rows', Reads', RowSteps
    PROVE  [Promise!Next]_(Promise!vars)
<1>0. Reads
  BY RowsRead
<1>1. CASE Quiet
  BY <1>1, QuietKeeps
<1>2. CASE Dies
  BY <1>0, <1>2, DieKeeps DEF Promise!Next
<1>3. ASSUME NEW k \in Keys, NEW t \in Turns, NEW s \in Sessions, NEW p \in Profiles, Opens(k, t, s, p)
      PROVE  Promise!Next
  BY <1>0, <1>3, OpenKeeps DEF Promise!Next, Promise!Keys, Keys
<1>4. ASSUME NEW k \in SendIds, NEW i \in Items, NEW s \in Sessions, Joins(k, i, s) PROVE Promise!Next
  <2>1. Promise!Join(k, s)
    BY <1>0, <1>4, JoinKeeps DEF Keys
  <2>. QED  BY <2>1 DEF Promise!Next
<1>5. ASSUME NEW i \in Items, Withdraws(i) PROVE Promise!Next
  BY <1>0, <1>5, WithdrawKeeps DEF Promise!Next, Promise!Keys, Keys
<1>6. ASSUME NEW t \in Turns, Progresses(t) PROVE UNCHANGED Promise!vars
  BY <1>0, <1>6, ProgressKeeps
<1>7. ASSUME NEW t \in Turns, Succeeds(t) PROVE Promise!Next
  BY <1>0, <1>7, SucceedKeeps DEF Promise!Next, Promise!Keys, Keys
<1>8. ASSUME NEW t \in Turns, NEW u \in Turns, NEW i \in Items, Chains(t, u, i) PROVE Promise!Next
  BY <1>0, <1>8, ChainKeeps DEF Promise!Next, Promise!Keys, Keys
<1>9. ASSUME NEW t \in Turns, NEW how \in {"cancelled", "failed", "unknown"}, Stops(t, how) PROVE Promise!Next
  <2>1. PICK k \in Keys : Promise!End(k, how)
    BY <1>0, <1>9, StopKeeps
  <2>. QED  BY <2>1 DEF Promise!Next, Promise!Ended, Promise!Keys, Keys
<1>. QED  BY <1>1, <1>2, <1>3, <1>4, <1>5, <1>6, <1>7, <1>8, <1>9 DEF RowSteps

-----------------------------------------------------------------------------
(* The theorems *)

LEMMA InvInit == Init => IInv
<1> SUFFICES ASSUME Init PROVE IInv
  OBVIOUS
<1>1. \A t \in Turns : ~Active(t)
  BY DEF Init, NewTurn, Active, ActiveStates
<1>2. OneActiveTurn /\ ExclusiveHome
  BY <1>1 DEF OneActiveTurn, ExclusiveHome
<1>3. StatusTracksTurns
  BY <1>1 DEF Init, StatusTracksTurns, SessionBusy, ProfileBusy
<1> QED BY <1>2, <1>3, TypeInit, LinkInit DEF IInv

LEMMA InvStep == IInv /\ [Next]_vars => IInv'
  BY TypeStep, LinkStep, StartStep, UniqueStep, StatusStep DEF IInv

\* Every reachable row is well typed.
THEOREM LedgerTypes == Spec => []TypeOK
<1>1. IInv => TypeOK
  BY DEF IInv
<1> QED BY <1>1, InvInit, InvStep, PTL DEF Spec

\* No session ever has two active turns, whichever entries raced to start them.
THEOREM OneTurnPerSession == Spec => []OneActiveTurn
<1>1. IInv => OneActiveTurn
  BY DEF IInv
<1> QED BY <1>1, InvInit, InvStep, PTL DEF Spec

\* No exclusive home ever serves two turns, the queue's successors included.
THEOREM ExclusiveHomeHeld == Spec => []ExclusiveHome
<1>1. IInv => ExclusiveHome
  BY DEF IInv
<1> QED BY <1>1, InvInit, InvStep, PTL DEF Spec

\* The summary columns of sessions and profiles never drift from their turns.
THEOREM SummariesAgree == Spec => []StatusTracksTurns
<1>1. IInv => StatusTracksTurns
  BY DEF IInv
<1> QED BY <1>1, InvInit, InvStep, PTL DEF Spec

\* A Turn's end is never rewritten: not by a late failure, a cancel or a restart.
THEOREM EndsAreFinal == Spec => TerminalIsFinal
<1>1. IInv /\ [Next]_vars =>
         [\A t \in Turns : turn[t].state \in TerminalStates =>
             turn'[t].state = turn[t].state]_vars
  BY StartStep DEF IInv, EndsAreKept
<1> QED BY <1>1, InvInit, InvStep, PTL DEF Spec, TerminalIsFinal

LEMMA RowsInit == Init => ClaimsAreOne /\ RolesMatch
  BY ClaimsInit, RolesInit

LEMMA RowsStep ==
    IInv /\ ClaimsAreOne /\ RolesMatch /\ [Next]_vars => ClaimsAreOne' /\ RolesMatch'
  BY RowStepsAreAll, ClaimsStep, RolesStep DEF IInv

\* A message that left the queue has exactly one Turn, whose state and end it shows:
\* no end is told to the wrong item, and none is claimed twice.
THEOREM ItemsMirrorTurns == Spec => []ItemMirrorsTurn
<1>1. IInv /\ ClaimsAreOne => ItemMirrorsTurn
  BY MirrorsFollow DEF IInv
<1> QED BY <1>1, InvInit, InvStep, RowsInit, RowsStep, PTL DEF Spec

\* A finished run is never rolled back because its successor does not fit: the role
\* of a session cannot change while anything of it runs or waits.
THEOREM SuccessorsFit == Spec => []CompletionNotRefused
<1>1. IInv /\ RolesMatch => CompletionNotRefused
  BY SuccessorFits DEF IInv
<1> QED BY <1>1, InvInit, InvStep, RowsInit, RowsStep, PTL DEF Spec

\* No message stays pending in a session where nothing runs: entries, ends of turns,
\* withdrawals and the successors of completions always leave it behind a running turn.
THEOREM QueueIsDriven == Spec => []PendingIsDriven
<1>1. RolesMatch => PendingIsDriven
  BY DEF RolesMatch, PendingIsDriven
<1> QED BY <1>1, InvInit, InvStep, RowsInit, RowsStep, PTL DEF Spec

LEMMA RowsInv == Spec => []Rows
<1>1. Init => IInv /\ Rows
  BY InvInit, RowsInit, NamesInit DEF IInv, Rows
<1>2. IInv /\ Rows /\ RolesMatch /\ [Next]_vars => Rows'
  BY InvStep, RowsStep, RowStepsAreAll, NamesStep DEF IInv, Rows
<1>3. IInv /\ Rows /\ RolesMatch /\ [Next]_vars => IInv' /\ RolesMatch'
  BY InvStep, RowsStep DEF Rows
<1>. QED  BY <1>1, <1>2, <1>3, RowsInit, PTL DEF Spec

\* The rows implement what senders were promised, for any sets of keys, sessions and turns:
\* one message at a time, the oldest next, the queue held by an end that is no success,
\* nothing lost and nothing run twice.
THEOREM LedgerKeepsPromise == Spec => KeepsPromise
<1>1. IInv /\ Rows /\ Rows' /\ Reads' /\ [Next]_vars => [Promise!Next]_(Promise!vars)
  BY RowStepsAreAll, PromiseStep DEF IInv
<1>2. Spec => []IInv
  BY InvInit, InvStep, PTL DEF Spec
<1>. QED  BY <1>1, <1>2, RowsInv, RowsRead, PromiseInit, PTL DEF Spec, KeepsPromise, Promise!Spec

=============================================================================
