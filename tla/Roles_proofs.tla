------------------------------- MODULE Roles_proofs -------------------------------
(***************************************************************************)
(* What turns freeze, what their children may do, what an archived         *)
(* provider leaves behind and what a launch projects, for any roles,       *)
(* providers, definitions, edits and crashes.  The second part is about    *)
(* EventFeed: any number of sessions, events and readers, any page size.   *)
(***************************************************************************)
EXTENDS Roles, EventFeed, WellFoundedInduction, TLAPS

-----------------------------------------------------------------------------
(* Types *)

\* A row that was inserted says something: Now(r) is one of its revisions.
RowsSpeak == \A r \in Roles : role[r] # "absent" => Len(past[r]) > 0

\* Rows that are not there were never written, and what is there names rows that are.
TurnsNameRoles ==
    \A t \in Turns :
       /\ turn[t].state # "absent" => turn[t].is.role \in Roles /\ role[turn[t].is.role] # "absent"
       /\ turn[t].state = "absent" => turn[t].parent = NULL
       /\ turn[t].parent # NULL => turn[turn[t].parent].state # "absent"
PostNamesRole == post.pc # "idle" => post.is.role \in Roles /\ role[post.is.role] # "absent"

Linked == TypeOK /\ RowsSpeak /\ TurnsNameRoles /\ PostNamesRole

LEMMA NowIsConfig ==
    ASSUME TypeOK, RowsSpeak, NEW r \in Roles, role[r] # "absent"
    PROVE  /\ Revision(r) \in Nat \ {0} /\ Now(r) \in Config
           /\ Now(r).ref \in Providers \cup {NULL, LOST} /\ Now(r).deny \in SUBSET Tools
<1>1. past[r] \in Seq(Config) /\ Len(past[r]) > 0
  BY DEF TypeOK, RowsSpeak
<1>2. Len(past[r]) \in Nat /\ past[r][Len(past[r])] \in Config
  BY <1>1
<1>. QED  BY <1>1, <1>2 DEF Revision, Now, Config

LEMMA NothingIsFrozen == Nothing \in Frozen
  BY DEF Nothing, Frozen

LEMMA InitLinked == Init => Linked
<1>. SUFFICES ASSUME Init PROVE Linked
  OBVIOUS
<1>0. turn \in [Turns -> TurnRow]
  BY NothingIsFrozen DEF Init, Absent, TurnRow
<1>1. \A t \in Turns : /\ turn[t].state = "absent" /\ turn[t].is = Nothing /\ turn[t].parent = NULL
                       /\ turn[t].pin = 0 /\ turn[t].digest = NULL /\ turn[t].got = NULL
  BY DEF Init, Absent
<1>2. /\ role \in [Roles -> {"absent", "active", "archived"}]
      /\ past \in [Roles -> Seq(Config)]
      /\ provider \in [Providers -> {"usable", "unavailable", "removed", "archived"}]
  BY DEF Init
<1>3. /\ post.pc = "idle" /\ post \in Post
      /\ disk \in [Revisions -> Contents \cup {NULL}]
      /\ asset \in [latest : Revisions \cup {0}, digest : Contents \cup {NULL}]
      /\ bound \in [Roles -> Revisions \cup {0}] /\ loop = Idle
      /\ published \subseteq Contents /\ dangling \subseteq Roles
      /\ edits \in 0..MaxEdits /\ crashes \in 0..MaxCrashes
  BY NothingIsFrozen, RolesAssumption DEF Init, Post
<1>4. TypeOK
  BY <1>0, <1>2, <1>3 DEF TypeOK
<1>5. RowsSpeak /\ TurnsNameRoles /\ PostNamesRole
  BY <1>1, <1>3 DEF RowsSpeak, TurnsNameRoles, PostNamesRole, Init
<1>. QED  BY <1>4, <1>5 DEF Linked

\* A row's new revision leaves everything typed.
LEMMA RevisedLinked ==
    ASSUME Linked, NEW r \in Roles, role[r] # "absent", NEW c \in Config, Revised(r, c)
    PROVE  /\ past' \in [Roles -> Seq(Config)]
           /\ \A s \in Roles : role[s] # "absent" => Len(past'[s]) > 0
<1>1. past \in [Roles -> Seq(Config)] /\ past' = [past EXCEPT ![r] = Append(past[r], c)]
  BY DEF Linked, TypeOK, Revised
<1>2. Append(past[r], c) \in Seq(Config) /\ Len(Append(past[r], c)) = Len(past[r]) + 1 /\ Len(past[r]) \in Nat
  BY <1>1
<1>3. past' \in [Roles -> Seq(Config)]
  BY <1>1, <1>2
<1>4. ASSUME NEW s \in Roles, role[s] # "absent" PROVE Len(past'[s]) > 0
  BY <1>1, <1>2, <1>4 DEF Linked, RowsSpeak
<1>. QED  BY <1>3, <1>4

\* So does an inserted row.
LEMMA InsertedLinked ==
    ASSUME Linked, NEW r \in Roles, role[r] = "absent", NEW c \in Config, Inserted(r, c)
    PROVE  /\ role' \in [Roles -> {"absent", "active", "archived"}]
           /\ role' = [role EXCEPT ![r] = "active"]
           /\ past' \in [Roles -> Seq(Config)]
           /\ \A s \in Roles : role'[s] # "absent" => Len(past'[s]) > 0
           /\ dangling' \subseteq Roles
<1>. DEFINE first == <<c>>
<1>1. past \in [Roles -> Seq(Config)] /\ past' = [past EXCEPT ![r] = first]
  BY DEF Linked, TypeOK, Inserted
<1>2. first \in Seq(Config) /\ Len(first) = 1
  OBVIOUS
<1>. HIDE DEF first
<1>3. past' \in [Roles -> Seq(Config)] /\ past'[r] = first /\ \A s \in Roles \ {r} : past'[s] = past[s]
  BY <1>1, <1>2
<1>4. role' \in [Roles -> {"absent", "active", "archived"}] /\ role' = [role EXCEPT ![r] = "active"]
  BY DEF Linked, TypeOK, Inserted
<1>5. ASSUME NEW s \in Roles, role'[s] # "absent" PROVE Len(past'[s]) > 0
  <2>1. CASE s = r
    <3>1. Len(past'[s]) = 1
      BY <1>2, <1>3, <2>1, Zenon
    <3>. QED  BY <3>1
  <2>2. CASE s # r
    BY <1>3, <1>4, <1>5, <2>2 DEF Linked, RowsSpeak, TypeOK
  <2>. QED  BY <2>1, <2>2
<1>6. dangling' \subseteq Roles
  BY DEF Linked, TypeOK, Inserted
<1>. QED  BY <1>3, <1>4, <1>5, <1>6

\* Turns and requests stay linked while no row disappears.
LEMMA LinksStay ==
    ASSUME Linked, turn' = turn, post' = post, \A r \in Roles : role[r] # "absent" => role'[r] # "absent"
    PROVE  TurnsNameRoles' /\ PostNamesRole'
<1>1. TurnsNameRoles'
  BY DEF Linked, TurnsNameRoles
<1>2. PostNamesRole'
  BY DEF Linked, PostNamesRole
<1>. QED  BY <1>1, <1>2

LEMMA EditTypes == ASSUME TypeOK, Edit PROVE edits' \in 0..MaxEdits
  BY RolesAssumption DEF TypeOK, Edit

LEMMA RoleStepLinked ==
    ASSUME Linked, NEW r \in Roles, NEW m \in Providers \cup {NULL}, NEW deny \in SUBSET Tools,
           NEW s \in Roles, NEW v \in Revisions \cup {0},
           \/ Create(r, m) \/ Configure(r, m) \/ SetPermissions(r, deny) \/ Archive(r)
           \/ Clone(r, s) \/ Bind(r, v)
    PROVE  Linked'
<1>. USE DEF Linked
<1>1. ASSUME Create(r, m) PROVE Linked'
  <2>. DEFINE c == [ref |-> m, deny |-> {}]
  <2>1. c \in Config /\ role[r] = "absent" /\ Inserted(r, c) /\ turn' = turn /\ post' = post
    BY <1>1 DEF Create, UnusedRole, Config
  <2>. HIDE DEF c
  <2>2. TypeOK'
    BY <1>1, <2>1, InsertedLinked, EditTypes DEF Create, TypeOK, assets
  <2>3. RowsSpeak'
    BY <2>1, InsertedLinked DEF RowsSpeak
  <2>4. \A q \in Roles : role[q] # "absent" => role'[q] # "absent"
    BY <2>1, InsertedLinked DEF TypeOK
  <2>. QED  BY <2>1, <2>2, <2>3, <2>4, LinksStay
<1>2. ASSUME Clone(r, s) PROVE Linked'
  <2>1. PICK same \in BOOLEAN : Inserted(s, Cloned(r, same))
    BY <1>2 DEF Clone
  <2>. DEFINE c == Cloned(r, same)
  <2>2. c \in Config /\ role[s] = "absent" /\ Inserted(s, c) /\ turn' = turn /\ post' = post
    BY <1>2, <2>1, NowIsConfig DEF Clone, UnusedRole, Config, Cloned
  <2>. HIDE DEF c
  <2>3. TypeOK'
    BY <1>2, <2>2, InsertedLinked, EditTypes DEF Clone, TypeOK, assets
  <2>4. RowsSpeak'
    BY <2>2, InsertedLinked DEF RowsSpeak
  <2>5. \A q \in Roles : role[q] # "absent" => role'[q] # "absent"
    BY <2>2, InsertedLinked DEF TypeOK
  <2>. QED  BY <2>2, <2>3, <2>4, <2>5, LinksStay
<1>3. ASSUME Configure(r, m) PROVE Linked'
  <2>. DEFINE c == [Now(r) EXCEPT !.ref = m]
  <2>1. c \in Config /\ role[r] # "absent" /\ Revised(r, c) /\ turn' = turn /\ post' = post /\ role' = role
    BY <1>3, NowIsConfig DEF Configure, Config
  <2>. HIDE DEF c
  <2>2. TypeOK'
    BY <1>3, <2>1, RevisedLinked, EditTypes DEF Configure, TypeOK, assets
  <2>. QED  BY <2>1, <2>2, RevisedLinked, LinksStay DEF RowsSpeak
<1>4. ASSUME SetPermissions(r, deny) PROVE Linked'
  <2>. DEFINE c == [Now(r) EXCEPT !.deny = deny]
  <2>1. c \in Config /\ role[r] # "absent" /\ Revised(r, c) /\ turn' = turn /\ post' = post /\ role' = role
    BY <1>4, NowIsConfig DEF SetPermissions, Config
  <2>. HIDE DEF c
  <2>2. TypeOK'
    BY <1>4, <2>1, RevisedLinked, EditTypes DEF SetPermissions, TypeOK, assets
  <2>. QED  BY <2>1, <2>2, RevisedLinked, LinksStay DEF RowsSpeak
<1>5. ASSUME Archive(r) PROVE Linked'
  <2>1. TypeOK'
    BY <1>5, EditTypes DEF Archive, TypeOK, assets
  <2>2. RowsSpeak'
    BY <1>5 DEF Archive, TypeOK, RowsSpeak
  <2>3. \A q \in Roles : role[q] # "absent" => role'[q] # "absent"
    BY <1>5 DEF Archive, TypeOK
  <2>. QED  BY <1>5, <2>1, <2>2, <2>3, LinksStay DEF Archive
<1>6. ASSUME Bind(r, v) PROVE Linked'
  <2>1. TypeOK'
    BY <1>6, EditTypes DEF Bind, TypeOK, rows
  <2>. QED  BY <1>6, <2>1, LinksStay DEF Bind, rows, RowsSpeak
<1>. QED  BY <1>1, <1>2, <1>3, <1>4, <1>5, <1>6

LEMMA LoopStepLinked ==
    ASSUME Linked,
           \/ CopyBindings \/ EditProvider \/ ArchiveProvider \/ Publish
           \/ \E v \in Revisions, c \in Contents : Install(v, c)
    PROVE  Linked'
<1>1. TypeOK'
  <2>1. CASE CopyBindings
    <3>1. loop.from \in Roles /\ loop.to \in Roles
      BY <2>1 DEF CopyBindings, Linked, TypeOK, Idle
    <3>2. bound' \in [Roles -> Revisions \cup {0}]
      <4>1. bound' = bound \/ bound' = [bound EXCEPT ![loop.to] = bound[loop.from]]
        BY <2>1 DEF CopyBindings
      <4>. QED  BY <3>1, <4>1 DEF Linked, TypeOK
    <3>. QED  BY <2>1, <3>2 DEF CopyBindings, Linked, TypeOK, rows, Idle
  <2>2. ASSUME NEW m \in Providers, NEW offer \in {"usable", "unavailable", "removed"},
               UpdateProvider(m, offer) PROVE TypeOK'
    BY <2>2, EditTypes DEF UpdateProvider, Linked, TypeOK, rows, assets
  <2>3. ASSUME NEW m \in Providers, CheckReferences(m) PROVE TypeOK'
    BY <2>3, EditTypes DEF CheckReferences, Linked, TypeOK, rows, assets
  <2>4. CASE ArchiveProvider
    BY <2>4 DEF ArchiveProvider, Linked, TypeOK, rows, assets, Idle
  <2>5. ASSUME NEW v \in Revisions, NEW c \in Contents, Install(v, c) PROVE TypeOK'
    BY <2>5, EditTypes DEF Install, Linked, TypeOK, rows
  <2>6. CASE Publish
    BY <2>6 DEF Publish, Linked, TypeOK, rows, Idle
  <2>. QED  BY <2>1, <2>2, <2>3, <2>4, <2>5, <2>6 DEF EditProvider
<1>2. UNCHANGED <<role, past, turn, post>>
  BY DEF EditProvider, CopyBindings, UpdateProvider, CheckReferences, ArchiveProvider, Install, Publish, rows
<1>3. RowsSpeak'
  BY <1>2 DEF Linked, RowsSpeak
<1>. QED  BY <1>1, <1>2, <1>3, LinksStay DEF Linked

\* A turn that is accepted, under a role and a parent that are there.
LEMMA AcceptedLinked ==
    ASSUME Linked, NEW t \in Turns, turn[t].state = "absent", NEW is \in Frozen, is.role \in Roles,
           role[is.role] # "absent", NEW p \in Turns \cup {NULL}, p = NULL \/ turn[p].state # "absent",
           Accepted(t, is, p), UNCHANGED role
    PROVE  /\ turn' \in [Turns -> TurnRow]
           /\ TurnsNameRoles'
           /\ turn'[t].is = is /\ turn'[t].parent = p /\ turn'[t].state = "accepted"
           /\ turn'[t].digest = NULL /\ turn'[t].got = NULL
           /\ \A u \in Turns \ {t} : turn'[u] = turn[u]
<1>. DEFINE new == [Absent EXCEPT !.state = "accepted", !.is = is, !.parent = p]
<1>1. /\ new.state = "accepted" /\ new.is = is /\ new.parent = p /\ new.pin = 0 /\ new.digest = NULL /\ new.got = NULL
      /\ new \in TurnRow
  BY NothingIsFrozen DEF Absent, TurnRow
<1>2. turn' = [turn EXCEPT ![t] = new]
  BY DEF Accepted
<1>. HIDE DEF new
<1>3. /\ turn' \in [Turns -> TurnRow]
      /\ turn'[t] = new /\ \A u \in Turns \ {t} : turn'[u] = turn[u]
  BY <1>1, <1>2 DEF Linked, TypeOK
<1>4. ASSUME NEW u \in Turns
      PROVE  /\ turn'[u].state # "absent" => turn'[u].is.role \in Roles /\ role'[turn'[u].is.role] # "absent"
             /\ turn'[u].state = "absent" => turn'[u].parent = NULL
             /\ turn'[u].parent # NULL => turn'[turn'[u].parent].state # "absent"
  <2>1. CASE u = t
    BY <1>1, <1>3, <2>1
  <2>2. CASE u # t
    <3>1. turn[u] \in TurnRow /\ turn[u].parent \in Turns \cup {NULL}
      BY DEF Linked, TypeOK, TurnRow
    <3>2. turn[u].parent # NULL => turn'[turn[u].parent].state # "absent"
      BY <1>1, <1>3, <3>1 DEF Linked, TurnsNameRoles
    <3>. QED  BY <1>3, <2>2, <3>2 DEF Linked, TurnsNameRoles
  <2>. QED  BY <2>1, <2>2
<1>5. TurnsNameRoles'
  BY <1>4 DEF TurnsNameRoles
<1>. QED  BY <1>1, <1>3, <1>5

\* What a new turn freezes is typed.
LEMMA ObjectIsFrozen ==
    ASSUME Linked, NEW r \in Roles, role[r] # "absent", NEW deny \in SUBSET Tools
    PROVE  /\ Object(r, deny) \in Frozen /\ [Object(r, deny) EXCEPT !.permissions = FALSE] \in Frozen
           /\ Object(r, deny).role = r
  BY NowIsConfig DEF Linked, Object, Frozen

\* The steps of a POST /turns.
PostStep == (\E r \in Roles : PostTurn(r)) \/ ReadConfiguration \/ ReadPermissions \/ InsertTurn

LEMMA PostIsFrozen ==
    ASSUME Linked, PostStep
    PROVE  post' \in Post /\ PostNamesRole'
<1>1. ASSUME NEW r \in Roles, PostTurn(r) PROVE post' \in Post /\ PostNamesRole'
  <2>1. Revision(r) \in Nat
    BY <1>1, NowIsConfig DEF Linked, PostTurn
  <2>. DEFINE is == [Nothing EXCEPT !.role = r, !.rev = Revision(r)]
  <2>2. is \in Frozen /\ is.role = r
    BY <2>1, NothingIsFrozen DEF Frozen, Nothing
  <2>3. post' = [pc |-> "read", is |-> is] /\ role' = role /\ role[r] # "absent"
    BY <1>1 DEF PostTurn, rows
  <2>. HIDE DEF is
  <2>. QED  BY <2>2, <2>3 DEF PostNamesRole, Post
<1>2. CASE ReadConfiguration
  <2>1. /\ post.pc = "read" /\ post.is \in Frozen /\ post.is.role \in Roles /\ role[post.is.role] # "absent"
        /\ Now(post.is.role).ref \in Providers \cup {NULL, LOST} /\ role' = role
    BY <1>2, NowIsConfig DEF Linked, TypeOK, PostNamesRole, ReadConfiguration, rows, Post
  <2>. DEFINE is == [post.is EXCEPT !.ref = Now(post.is.role).ref]
  <2>2. is \in Frozen /\ is.role = post.is.role
    BY <2>1 DEF Frozen
  <2>3. post' = [pc |-> "configured", is |-> is] \/ post' = NoPost
    BY <1>2 DEF ReadConfiguration
  <2>. HIDE DEF is
  <2>. QED  BY <2>1, <2>2, <2>3, NothingIsFrozen DEF PostNamesRole, NoPost, Post
<1>3. CASE ReadPermissions
  <2>1. /\ post.pc = "configured" /\ post.is \in Frozen /\ post.is.role \in Roles /\ role[post.is.role] # "absent"
        /\ Now(post.is.role).deny \in SUBSET Tools /\ role' = role
    BY <1>3, NowIsConfig DEF Linked, TypeOK, PostNamesRole, ReadPermissions, rows, Post
  <2>. DEFINE is == [post.is EXCEPT !.permissions = TRUE, !.deny = Now(post.is.role).deny]
  <2>2. is \in Frozen /\ is.role = post.is.role
    BY <2>1 DEF Frozen
  <2>3. post' = [pc |-> "frozen", is |-> is]
    BY <1>3 DEF ReadPermissions
  <2>. HIDE DEF is
  <2>. QED  BY <2>1, <2>2, <2>3 DEF PostNamesRole, Post
<1>4. CASE InsertTurn
  BY <1>4, NothingIsFrozen DEF InsertTurn, NoPost, PostNamesRole, Post
<1>. QED  BY <1>1, <1>2, <1>3, <1>4 DEF PostStep

TurnStep ==
    \/ \E t \in Turns, r \in Roles : Send(t, r) \/ Open(t, r) \/ \E p \in Turns : Delegate(t, p, r)
    \/ PostStep

LEMMA TurnStepLinked ==
    ASSUME Linked, TurnStep PROVE Linked'
<1>0. UNCHANGED <<role, past, provider, asset, disk, bound, loop, published, dangling, edits, crashes>>
  BY DEF TurnStep, PostStep, Send, Open, Delegate, PostTurn, ReadConfiguration, ReadPermissions, InsertTurn,
     rows, assets
<1>1. RowsSpeak'
  BY <1>0 DEF Linked, RowsSpeak
<1>2. ASSUME turn' \in [Turns -> TurnRow],
             post' \in Post
      PROVE  TypeOK'
  BY <1>0, <1>2 DEF Linked, TypeOK
<1>3. ASSUME NEW t \in Turns, NEW r \in Roles, Send(t, r) PROVE Linked'
  <2>1. role[r] # "absent" /\ turn[t].state = "absent" /\ Now(r).deny \in SUBSET Tools /\ post' = post
        /\ Accepted(t, Object(r, Now(r).deny), NULL)
    BY <1>3, NowIsConfig DEF Send, UnusedTurn, Linked
  <2>2. PostNamesRole' /\ post' \in Post
    BY <1>0, <2>1 DEF Linked, PostNamesRole, TypeOK
  <2>. QED  BY <1>0, <1>1, <1>2, <2>1, <2>2, ObjectIsFrozen, AcceptedLinked DEF Linked
<1>4. ASSUME NEW t \in Turns, NEW r \in Roles, Open(t, r) PROVE Linked'
  <2>1. role[r] # "absent" /\ turn[t].state = "absent" /\ post' = post
        /\ Accepted(t, [Object(r, {}) EXCEPT !.permissions = FALSE], NULL)
        /\ [Object(r, {}) EXCEPT !.permissions = FALSE].role = r
    BY <1>4 DEF Open, UnusedTurn, Object
  <2>2. PostNamesRole' /\ post' \in Post
    BY <1>0, <2>1 DEF Linked, PostNamesRole, TypeOK
  <2>. QED  BY <1>0, <1>1, <1>2, <2>1, <2>2, ObjectIsFrozen, AcceptedLinked DEF Linked
<1>5. ASSUME NEW t \in Turns, NEW r \in Roles, NEW p \in Turns, Delegate(t, p, r) PROVE Linked'
  <2>1. role[r] # "absent" /\ turn[t].state = "absent" /\ Narrowed(p, r) \in SUBSET Tools /\ post' = post
        /\ turn[p].state # "absent" /\ Accepted(t, Object(r, Narrowed(p, r)), p)
    BY <1>5, NowIsConfig DEF Delegate, UnusedTurn, Linked, Narrowed, TypeOK, TurnRow, Frozen
  <2>2. PostNamesRole' /\ post' \in Post
    BY <1>0, <2>1 DEF Linked, PostNamesRole, TypeOK
  <2>. QED  BY <1>0, <1>1, <1>2, <2>1, <2>2, ObjectIsFrozen, AcceptedLinked DEF Linked
<1>6. CASE (\E r \in Roles : PostTurn(r)) \/ ReadConfiguration \/ ReadPermissions
  <2>1. turn' = turn
    BY <1>6 DEF PostTurn, ReadConfiguration, ReadPermissions
  <2>2. TurnsNameRoles'
    BY <1>0, <2>1 DEF Linked, TurnsNameRoles
  <2>. QED  BY <1>1, <1>2, <1>6, <2>1, <2>2, PostIsFrozen DEF Linked, TypeOK, PostStep
<1>7. CASE InsertTurn
  <2>1. post' \in Post /\ PostNamesRole'
    BY <1>7, PostIsFrozen DEF PostStep
  <2>2. CASE turn' = turn
    <3>1. TurnsNameRoles'
      BY <1>0, <2>2 DEF Linked, TurnsNameRoles
    <3>. QED  BY <1>1, <1>2, <2>1, <2>2, <3>1 DEF Linked, TypeOK
  <2>3. CASE turn' # turn
    <3>1. PICK u \in Turns : turn[u].state = "absent" /\ Accepted(u, post.is, NULL)
      BY <1>7, <2>3 DEF InsertTurn, UnusedTurn
    <3>2. post.is \in Frozen /\ post.is.role \in Roles /\ role[post.is.role] # "absent"
      BY <1>7 DEF InsertTurn, Linked, TypeOK, PostNamesRole, Post
    <3>. QED  BY <1>0, <1>1, <1>2, <2>1, <3>1, <3>2, AcceptedLinked DEF Linked
  <2>. QED  BY <2>2, <2>3
<1>. QED  BY <1>3, <1>4, <1>5, <1>6, <1>7 DEF TurnStep, PostStep

\* A launch and a crash keep who a turn runs as.
SameTurns == \A t \in Turns : /\ turn'[t].is = turn[t].is /\ turn'[t].parent = turn[t].parent
                              /\ turn[t].state = "absent" <=> turn'[t].state = "absent"

LEMMA LaunchTurns ==
    ASSUME Linked, NEW t \in Turns, ReadBindings(t) \/ Project(t)
    PROVE  turn' \in [Turns -> TurnRow] /\ SameTurns
<1>1. PICK new : turn' = [turn EXCEPT ![t] = new] /\ new \in TurnRow
                 /\ new.is = turn[t].is /\ new.parent = turn[t].parent /\ new.state # "absent"
  <2>1. turn[t] \in TurnRow /\ turn[t].is.role \in Roles
    BY DEF Linked, TypeOK, TurnsNameRoles, ReadBindings, Project
  <2>2. CASE ReadBindings(t)
    <3>. DEFINE new == [turn[t] EXCEPT !.state = "reading", !.pin = bound[turn[t].is.role],
                                       !.digest = asset.digest]
    <3>1. turn' = [turn EXCEPT ![t] = new]
      BY <2>2 DEF ReadBindings
    <3>2. bound[turn[t].is.role] \in Revisions \cup {0} /\ asset.digest \in Contents \cup {NULL}
      BY <2>1 DEF Linked, TypeOK
    <3>3. new \in TurnRow /\ new.is = turn[t].is /\ new.parent = turn[t].parent /\ new.state # "absent"
      BY <2>1, <3>2 DEF TurnRow
    <3>. QED  BY <3>1, <3>3
  <2>3. CASE Project(t)
    <3>1. ASSUME NEW state \in {"running", "failed"}
          PROVE  /\ Ended(t, state) \in TurnRow /\ Ended(t, state).is = turn[t].is
                 /\ Ended(t, state).parent = turn[t].parent /\ Ended(t, state).state = state
      BY <2>1 DEF Ended, TurnRow
    <3>2. CASE turn' = [turn EXCEPT ![t] = Ended(t, "running")] \/ turn' = [turn EXCEPT ![t] = Ended(t, "failed")]
      BY <3>1, <3>2
    <3>3. CASE turn[t].pin # 0 /\ turn' = [turn EXCEPT ![t] = [Ended(t, "running") EXCEPT !.got = disk[turn[t].pin]]]
      <4>. DEFINE new == [Ended(t, "running") EXCEPT !.got = disk[turn[t].pin]]
      <4>1. disk[turn[t].pin] \in Contents \cup {NULL}
        BY <2>1, <3>3 DEF Linked, TypeOK, TurnRow
      <4>2. new \in TurnRow /\ new.is = turn[t].is /\ new.parent = turn[t].parent /\ new.state # "absent"
        BY <3>1, <4>1 DEF TurnRow
      <4>. QED  BY <3>3, <4>2
    <3>. QED  BY <2>3, <3>2, <3>3 DEF Project
  <2>. QED  BY <2>2, <2>3
<1>2. turn' \in [Turns -> TurnRow]
      /\ SameTurns
  BY <1>1 DEF SameTurns, Linked, TypeOK, ReadBindings, Project
<1>. QED  BY <1>2

LEMMA LaunchLinked == ASSUME Linked, NEW t \in Turns, ReadBindings(t) \/ Project(t) PROVE Linked'
<1>0. UNCHANGED <<role, past, provider, post, asset, disk, bound, loop, published, dangling, edits, crashes>>
  BY DEF ReadBindings, Project, rows, assets
<1>2. turn' \in [Turns -> TurnRow] /\ SameTurns
  BY LaunchTurns
<1>3. TypeOK'
  BY <1>0, <1>2 DEF Linked, TypeOK
<1>4. TurnsNameRoles'
  BY <1>0, <1>2, RolesAssumption DEF Linked, TurnsNameRoles, TypeOK, TurnRow, SameTurns
<1>. QED  BY <1>0, <1>3, <1>4 DEF Linked, RowsSpeak, PostNamesRole

LEMMA CrashLinked == ASSUME Linked, Crash PROVE Linked'
<1>0. UNCHANGED <<role, past, provider, asset, disk, bound, published, dangling, edits>>
  BY DEF Crash, rows, assets
<1>1. ASSUME NEW t \in Turns
      PROVE  /\ turn'[t] \in TurnRow
             /\ turn'[t].is = turn[t].is /\ turn'[t].parent = turn[t].parent
             /\ turn[t].state = "absent" <=> turn'[t].state = "absent"
  BY <1>1, ZenonT(60) DEF Crash, Ended, Linked, TypeOK, TurnRow
<1>2. turn' = [t \in Turns |-> turn'[t]]
  BY DEF Crash
<1>3. TypeOK'
  BY <1>0, <1>1, <1>2, NothingIsFrozen, RolesAssumption DEF Crash, Linked, TypeOK, NoPost, Idle, Post
<1>4. TurnsNameRoles'
  BY <1>0, <1>1, RolesAssumption DEF Linked, TurnsNameRoles, TypeOK, TurnRow
<1>. QED  BY <1>0, <1>3, <1>4 DEF Crash, NoPost, Linked, RowsSpeak, PostNamesRole

LEMMA StepLinked == Linked /\ [Next]_vars => Linked'
<1>. SUFFICES ASSUME Linked, [Next]_vars PROVE Linked'
  OBVIOUS
<1>1. CASE UNCHANGED vars
  BY <1>1 DEF vars, Linked, TypeOK, RowsSpeak, TurnsNameRoles, PostNamesRole
<1>2. CASE EditRole
  BY <1>2, RoleStepLinked DEF EditRole
<1>. QED  BY <1>1, <1>2, LoopStepLinked, TurnStepLinked, LaunchLinked, CrashLinked DEF Next, TurnStep, PostStep

\* The rows keep their types and their links, whatever is edited, accepted, launched and cut off.
THEOREM RoleTypes == Spec => []TypeOK
<1>1. Spec => []Linked
  BY InitLinked, StepLinked, PTL DEF Spec
<1>. QED  BY <1>1, PTL DEF Linked

-----------------------------------------------------------------------------
(* Archived providers *)

\* Whoever refers to a provider that is archived, or past the check that precedes it, was
\* inserted so: an archive under way finds the roles as its check left them, because only
\* inserted rows come in between.
ClosedIsDangling == \A r \in Roles : role[r] = "active" /\ Closing(Now(r).ref) => r \in dangling

LEMMA ArchiveHolds == Linked /\ ClosedIsDangling => ArchivedIsUnused
  BY DEF ClosedIsDangling, ArchivedIsUnused, Closing

LEMMA NowStays ==
    ASSUME Linked, NEW r \in Roles, past'[r] = past[r] PROVE Now(r)' = Now(r) /\ Revision(r)' = Revision(r)
  BY DEF Now, Revision

LEMMA NowIsRevised ==
    ASSUME Linked, NEW r \in Roles, role[r] # "absent", NEW c \in Config, Revised(r, c)
    PROVE  /\ Now(r)' = c /\ Revision(r)' = Revision(r) + 1
           /\ \A n \in 1..Revision(r) : past'[r][n] = past[r][n]
           /\ \A s \in Roles \ {r} : past'[s] = past[s]
<1>1. past[r] \in Seq(Config) /\ past' = [past EXCEPT ![r] = Append(past[r], c)]
  BY DEF Linked, TypeOK, Revised
<1>2. past'[r] = Append(past[r], c) /\ \A s \in Roles \ {r} : past'[s] = past[s]
  BY <1>1 DEF Linked, TypeOK
<1>3. /\ Len(Append(past[r], c)) = Len(past[r]) + 1
      /\ Append(past[r], c)[Len(past[r]) + 1] = c
      /\ \A n \in 1..Len(past[r]) : Append(past[r], c)[n] = past[r][n]
  BY <1>1
<1>. QED  BY <1>2, <1>3 DEF Now, Revision

LEMMA NowIsInserted ==
    ASSUME Linked, NEW r \in Roles, role[r] = "absent", NEW c \in Config, Inserted(r, c)
    PROVE  /\ Now(r)' = c /\ Revision(r)' = 1
           /\ \A s \in Roles \ {r} : past'[s] = past[s] /\ role'[s] = role[s]
<1>. DEFINE first == <<c>>
<1>1. past'[r] = first /\ \A s \in Roles \ {r} : past'[s] = past[s] /\ role'[s] = role[s]
  BY DEF Linked, TypeOK, Inserted
<1>2. Len(first) = 1 /\ first[1] = c
  OBVIOUS
<1>. HIDE DEF first
<1>3. Revision(r)' = 1
  BY <1>1, <1>2, Zenon DEF Revision
<1>4. Now(r)' = past'[r][1]
  BY <1>3 DEF Now
<1>. QED  BY <1>1, <1>2, <1>3, <1>4

LEMMA StepArchive == Linked /\ ClosedIsDangling /\ [Next]_vars => ClosedIsDangling'
<1>. SUFFICES ASSUME Linked, ClosedIsDangling, [Next]_vars,
                     NEW s \in Roles, role'[s] = "active", NEW m \in Providers, Now(s)'.ref = m,
                     provider'[m] = "archived" \/ (loop'.pc = "archive" /\ loop'.provider = m)
              PROVE  s \in dangling'
  BY DEF ClosedIsDangling, Closing
<1>0. ASSUME role[s] = "active", Now(s).ref = m,
             provider[m] = "archived" \/ (loop.pc = "archive" /\ loop.provider = m)
      PROVE  s \in dangling
  BY <1>0 DEF ClosedIsDangling, Closing
<1>1. ASSUME UNCHANGED <<rows, provider>>, loop' = loop \/ loop' = Idle \/ loop'.pc # "archive" PROVE s \in dangling'
  BY <1>0, <1>1, NowStays DEF rows, Idle
<1>2. ASSUME NEW r \in Roles, role[r] = "absent", NEW c \in Config, Inserted(r, c), provider' = provider,
             loop' = loop \/ loop'.pc = "copy"
      PROVE  s \in dangling'
  <2>1. CASE s = r
    <3>1. c.ref = m
      BY <1>2, <2>1, NowIsInserted
    <3>2. Closing(c.ref)
      BY <1>2, <3>1 DEF Closing
    <3>. QED  BY <1>2, <2>1, <3>2 DEF Inserted
  <2>2. CASE s # r
    <3>1. role[s] = "active" /\ Now(s).ref = m
      BY <1>2, <2>2, NowIsInserted, NowStays
    <3>. QED  BY <1>0, <1>2, <3>1 DEF Inserted
  <2>. QED  BY <2>1, <2>2
<1>3. ASSUME NEW r \in Roles, NEW n \in Providers \cup {NULL}, Configure(r, n) PROVE s \in dangling'
  <2>. DEFINE c == [Now(r) EXCEPT !.ref = n]
  <2>1. c \in Config /\ c.ref = n /\ role[r] # "absent" /\ Revised(r, c)
    BY <1>3, NowIsConfig DEF Linked, Configure, Config
  <2>. HIDE DEF c
  <2>2. CASE s = r
    <3>1. n = m
      BY <2>1, <2>2, NowIsRevised
    <3>. QED  BY <1>3, <3>1, RolesAssumption DEF Configure, Selectable, Idle
  <2>3. CASE s # r
    BY <1>0, <1>3, <2>1, <2>3, NowIsRevised, NowStays DEF Configure
  <2>. QED  BY <2>2, <2>3
<1>4. ASSUME NEW r \in Roles, NEW deny \in SUBSET Tools, SetPermissions(r, deny) PROVE s \in dangling'
  <2>. DEFINE c == [Now(r) EXCEPT !.deny = deny]
  <2>1. c \in Config /\ c.ref = Now(r).ref /\ role[r] # "absent" /\ Revised(r, c)
    BY <1>4, NowIsConfig DEF Linked, SetPermissions, Config
  <2>. HIDE DEF c
  <2>2. Now(s).ref = m
    BY <2>1, NowIsRevised, NowStays
  <2>. QED  BY <1>0, <1>4, <2>2 DEF SetPermissions
<1>5. ASSUME NEW r \in Roles, Archive(r) PROVE s \in dangling'
  BY <1>0, <1>5, NowStays DEF Archive, Linked, TypeOK
<1>6. CASE EditRole
  <2>1. ASSUME NEW r \in Roles, NEW n \in Providers \cup {NULL}, Create(r, n) PROVE s \in dangling'
    BY <1>2, <2>1 DEF Create, UnusedRole, Config
  <2>2. ASSUME NEW r \in Roles, NEW q \in Roles, Clone(r, q) PROVE s \in dangling'
    <3>1. PICK same \in BOOLEAN : Inserted(q, Cloned(r, same))
      BY <2>2 DEF Clone
    <3>2. Cloned(r, same) \in Config
      BY <2>2, NowIsConfig DEF Linked, Clone, Cloned, Config
    <3>. QED  BY <1>2, <2>2, <3>1, <3>2 DEF Clone, UnusedRole
  <2>3. ASSUME NEW r \in Roles, NEW v \in Revisions \cup {0}, Bind(r, v) PROVE s \in dangling'
    BY <1>1, <2>3 DEF Bind
  <2>. QED  BY <1>3, <1>4, <1>5, <1>6, <2>1, <2>2, <2>3 DEF EditRole
<1>7. CASE EditProvider
  <2>1. ASSUME NEW n \in Providers, CheckReferences(n) PROVE s \in dangling'
    <3>1. role[s] = "active" /\ Now(s).ref = m /\ References(n) = {}
      BY <2>1, NowStays DEF CheckReferences, rows
    <3>2. m # n
      BY <3>1 DEF References
    <3>. QED  BY <1>0, <2>1, <3>1, <3>2 DEF CheckReferences, rows
  <2>2. ASSUME NEW n \in Providers, NEW offer \in {"usable", "unavailable", "removed"}, UpdateProvider(n, offer)
        PROVE  s \in dangling'
    BY <1>0, <2>2, NowStays DEF UpdateProvider, rows, Linked, TypeOK, Idle
  <2>. QED  BY <1>7, <2>1, <2>2 DEF EditProvider
<1>8. CASE ArchiveProvider
  BY <1>0, <1>8, NowStays DEF ArchiveProvider, rows, Linked, TypeOK, Idle
<1>9. CASE CopyBindings \/ Publish \/ (\E v \in Revisions, c \in Contents : Install(v, c)) \/ Crash
  BY <1>1, <1>9 DEF CopyBindings, Publish, Install, Crash
<1>10. CASE TurnStep
  BY <1>1, <1>10 DEF TurnStep, PostStep, Send, Open, Delegate, PostTurn, ReadConfiguration, ReadPermissions, InsertTurn
<1>11. CASE \E t \in Turns : ReadBindings(t) \/ Project(t)
  BY <1>1, <1>11 DEF ReadBindings, Project
<1>12. CASE UNCHANGED vars
  BY <1>1, <1>12 DEF vars, rows
<1>. QED  BY <1>6, <1>7, <1>8, <1>9, <1>10, <1>11, <1>12 DEF Next, TurnStep, PostStep

\* No active role selects an archived provider, unless its row was inserted so.
THEOREM ArchivedStaysUnused == Spec => []ArchivedIsUnused
<1>1. Init => Linked /\ ClosedIsDangling
  BY InitLinked DEF Init, ClosedIsDangling
<1>2. Spec => [](Linked /\ ClosedIsDangling)
  BY <1>1, StepLinked, StepArchive, PTL DEF Spec
<1>. QED  BY <1>2, ArchiveHolds, PTL

-----------------------------------------------------------------------------
(* What turns froze *)

\* A row's revision as a turn or a request read it: it is still in the past, and while it
\* is the last one, the row says what was read.
Said(is) == is.rev \in 1..Revision(is.role)
Faithful(t) ==
    LET is == turn[t].is  said == past[is.role][is.rev] IN
    /\ Said(is)
    /\ is.ref = said.ref
    /\ is.permissions => IF turn[t].parent = NULL THEN is.deny = said.deny
                         ELSE said.deny \subseteq is.deny
TurnsFroze == \A t \in Turns : turn[t].state # "absent" => Faithful(t)

PostReads ==
    post.pc # "idle" =>
       LET is == post.is  now == Now(is.role) IN
       /\ Said(is)
       /\ is.rev = Revision(is.role) /\ post.pc \in {"configured", "frozen"} => is.ref = now.ref
       /\ post.pc = "frozen" => is.permissions /\ (is.rev = Revision(is.role) => is.deny = now.deny)

LEMMA FrozenHolds == TurnsFroze => FrozenIsOneRevision
  BY DEF TurnsFroze, Faithful, FrozenIsOneRevision

\* Rows only gain revisions, which leave what turns and requests read as it was.
LEMMA RevisionsStay ==
    ASSUME Linked, [Next]_vars, NEW r \in Roles, role[r] # "absent"
    PROVE  /\ Revision(r)' \in Nat /\ Revision(r) \in Nat /\ Revision(r)' >= Revision(r)
           /\ \A n \in 1..Revision(r) : past'[r][n] = past[r][n]
           /\ Revision(r)' = Revision(r) => Now(r)' = Now(r)
<1>. DEFINE Goal == /\ Revision(r)' \in Nat /\ Revision(r) \in Nat /\ Revision(r)' >= Revision(r)
                    /\ \A n \in 1..Revision(r) : past'[r][n] = past[r][n]
                    /\ Revision(r)' = Revision(r) => Now(r)' = Now(r)
<1>0. Revision(r) \in Nat
  BY NowIsConfig DEF Linked
<1>1. ASSUME past'[r] = past[r] PROVE Goal
  BY <1>0, <1>1, NowStays
<1>2. ASSUME NEW q \in Roles, role[q] = "absent", NEW c \in Config, Inserted(q, c) PROVE Goal
  BY <1>1, <1>2, NowIsInserted
<1>3. ASSUME NEW q \in Roles, role[q] # "absent", NEW c \in Config, Revised(q, c) PROVE Goal
  BY <1>0, <1>1, <1>3, NowIsRevised
<1>4. CASE EditRole
  <2>1. ASSUME NEW q \in Roles, NEW m \in Providers \cup {NULL}, Create(q, m) PROVE Goal
    BY <1>2, <2>1 DEF Create, UnusedRole, Config
  <2>2. ASSUME NEW q \in Roles, NEW s \in Roles, Clone(q, s) PROVE Goal
    <3>1. PICK same \in BOOLEAN : Inserted(s, Cloned(q, same))
      BY <2>2 DEF Clone
    <3>2. Cloned(q, same) \in Config
      BY <2>2, NowIsConfig DEF Linked, Clone, Cloned, Config
    <3>. QED  BY <1>2, <2>2, <3>1, <3>2 DEF Clone, UnusedRole
  <2>3. ASSUME NEW q \in Roles, NEW m \in Providers \cup {NULL}, Configure(q, m) PROVE Goal
    BY <1>3, <2>3, NowIsConfig DEF Linked, Configure, Config
  <2>4. ASSUME NEW q \in Roles, NEW deny \in SUBSET Tools, SetPermissions(q, deny) PROVE Goal
    BY <1>3, <2>4, NowIsConfig DEF Linked, SetPermissions, Config
  <2>5. ASSUME NEW q \in Roles, NEW v \in Revisions \cup {0}, Bind(q, v) PROVE Goal
    BY <1>1, <2>5 DEF Bind, rows
  <2>6. ASSUME NEW q \in Roles, Archive(q) PROVE Goal
    BY <1>1, <2>6 DEF Archive
  <2>. QED  BY <1>4, <2>1, <2>2, <2>3, <2>4, <2>5, <2>6 DEF EditRole
<1>5. CASE TurnStep
  BY <1>1, <1>5 DEF TurnStep, PostStep, Send, Open, Delegate, PostTurn, ReadConfiguration, ReadPermissions,
     InsertTurn, rows
<1>6. CASE \/ EditProvider \/ CopyBindings \/ ArchiveProvider \/ Publish \/ Crash
           \/ \E v \in Revisions, c \in Contents : Install(v, c)
           \/ \E t \in Turns : ReadBindings(t) \/ Project(t)
  BY <1>1, <1>6 DEF EditProvider, CheckReferences, UpdateProvider, CopyBindings, ArchiveProvider, Publish, Crash,
     Install, ReadBindings, Project, rows
<1>7. CASE UNCHANGED vars
  BY <1>1, <1>7 DEF vars
<1>. QED  BY <1>4, <1>5, <1>6, <1>7 DEF Next, TurnStep, PostStep

\* A step that accepts no turn and no request leaves both as they were, or drops the
\* request.
LEMMA OtherSteps ==
    ASSUME Linked, [Next]_vars, ~TurnStep
    PROVE  SameTurns /\ (post' = post \/ post' = NoPost)
<1>1. CASE turn' = turn /\ (post' = post \/ post' = NoPost)
  BY <1>1 DEF SameTurns
<1>2. CASE EditRole
  BY <1>1, <1>2 DEF EditRole, Create, Configure, SetPermissions, Archive, Clone, Bind
<1>3. CASE \/ EditProvider \/ CopyBindings \/ ArchiveProvider \/ Publish
           \/ \E v \in Revisions, c \in Contents : Install(v, c)
  BY <1>1, <1>3 DEF EditProvider, CheckReferences, UpdateProvider, CopyBindings, ArchiveProvider, Publish, Install
<1>4. ASSUME NEW t \in Turns, ReadBindings(t) \/ Project(t) PROVE SameTurns /\ post' = post
  BY <1>4, LaunchTurns DEF ReadBindings, Project
<1>5. CASE Crash
  BY <1>5 DEF Crash, SameTurns, Ended, Linked, TypeOK, TurnRow
<1>6. CASE UNCHANGED vars
  BY <1>1, <1>6 DEF vars
<1>. QED  BY <1>2, <1>3, <1>4, <1>5, <1>6 DEF Next, TurnStep, PostStep

LEMMA KeptFroze ==
    ASSUME Linked, TurnsFroze, [Next]_vars, NEW t \in Turns, turn[t].state # "absent",
           turn'[t].is = turn[t].is, turn'[t].parent = turn[t].parent
    PROVE  Faithful(t)'
<1>. DEFINE r == turn[t].is.role  rev == turn[t].is.rev
<1>1. r \in Roles /\ role[r] # "absent" /\ Faithful(t)
  BY DEF Linked, TurnsNameRoles, TurnsFroze
<1>2. rev \in 1..Revision(r) /\ rev \in 1..Revision(r)' /\ past'[r][rev] = past[r][rev]
  BY <1>1, RevisionsStay DEF Faithful, Said
<1>. QED  BY <1>1, <1>2 DEF Faithful, Said, Revision

\* A row that is there says at its last revision what it says.
LEMMA NowIsSaid ==
    ASSUME Linked, NEW r \in Roles, role[r] # "absent", UNCHANGED past
    PROVE  /\ Revision(r) \in 1..Revision(r) /\ Now(r) = past[r][Revision(r)]
           /\ Revision(r)' = Revision(r) /\ Now(r)' = Now(r)
  BY NowIsConfig, NowStays DEF Linked, Now

LEMMA AcceptFroze ==
    ASSUME Linked, TurnsFroze, PostReads, TurnStep, [Next]_vars
    PROVE  TurnsFroze'
<1>0. UNCHANGED <<role, past>>
  BY DEF TurnStep, PostStep, Send, Open, Delegate, PostTurn, ReadConfiguration, ReadPermissions, InsertTurn, rows
<1>1. CASE turn' = turn
  BY <1>1, KeptFroze DEF TurnsFroze
<1>2. ASSUME NEW t \in Turns, turn[t].state = "absent", NEW is \in Frozen, is.role \in Roles,
             role[is.role] # "absent", NEW p \in Turns \cup {NULL}, p = NULL \/ turn[p].state # "absent",
             Accepted(t, is, p), is.rev \in 1..Revision(is.role), is.ref = past[is.role][is.rev].ref,
             is.permissions => IF p = NULL THEN is.deny = past[is.role][is.rev].deny
                               ELSE past[is.role][is.rev].deny \subseteq is.deny
      PROVE  TurnsFroze'
  <2>1. turn'[t].is = is /\ turn'[t].parent = p /\ \A u \in Turns \ {t} : turn'[u] = turn[u]
    BY <1>0, <1>2, AcceptedLinked
  <2>2. Faithful(t)'
    BY <1>0, <1>2, <2>1 DEF Faithful, Said, Revision
  <2>3. ASSUME NEW u \in Turns \ {t}, turn'[u].state # "absent" PROVE Faithful(u)'
    BY <2>1, <2>3, KeptFroze
  <2>. QED  BY <2>2, <2>3 DEF TurnsFroze
<1>3. ASSUME NEW t \in Turns, NEW r \in Roles, Send(t, r) PROVE TurnsFroze'
  <2>. DEFINE is == Object(r, Now(r).deny)
  <2>1. role[r] # "absent" /\ turn[t].state = "absent" /\ Now(r).deny \in SUBSET Tools /\ Accepted(t, is, NULL)
    BY <1>3, NowIsConfig DEF Send, UnusedTurn, Linked
  <2>2. is \in Frozen /\ is.role = r /\ is.rev = Revision(r) /\ is.ref = Now(r).ref /\ is.deny = Now(r).deny
    BY <2>1, ObjectIsFrozen DEF Object
  <2>. HIDE DEF is
  <2>. QED  BY <1>0, <1>2, <2>1, <2>2, NowIsSaid
<1>4. ASSUME NEW t \in Turns, NEW r \in Roles, Open(t, r) PROVE TurnsFroze'
  <2>. DEFINE is == [Object(r, {}) EXCEPT !.permissions = FALSE]
  <2>1. role[r] # "absent" /\ turn[t].state = "absent" /\ Accepted(t, is, NULL)
    BY <1>4 DEF Open, UnusedTurn
  <2>2. is \in Frozen /\ is.role = r /\ is.rev = Revision(r) /\ is.ref = Now(r).ref /\ ~is.permissions
    BY <2>1, ObjectIsFrozen DEF Object
  <2>. HIDE DEF is
  <2>. QED  BY <1>0, <1>2, <2>1, <2>2, NowIsSaid
<1>5. ASSUME NEW t \in Turns, NEW r \in Roles, NEW p \in Turns, Delegate(t, p, r) PROVE TurnsFroze'
  <2>. DEFINE is == Object(r, Narrowed(p, r))
  <2>1. role[r] # "absent" /\ turn[t].state = "absent" /\ Narrowed(p, r) \in SUBSET Tools
        /\ Now(r).deny \subseteq Narrowed(p, r) /\ turn[p].state # "absent" /\ Accepted(t, is, p)
    BY <1>5, NowIsConfig DEF Delegate, UnusedTurn, Linked, Narrowed, TypeOK, TurnRow, Frozen
  <2>2. is \in Frozen /\ is.role = r /\ is.rev = Revision(r) /\ is.ref = Now(r).ref /\ is.deny = Narrowed(p, r)
    BY <2>1, ObjectIsFrozen DEF Object
  <2>3. p # NULL
    BY RolesAssumption
  <2>. HIDE DEF is
  <2>. QED  BY <1>0, <1>2, <2>1, <2>2, <2>3, NowIsSaid
<1>6. CASE InsertTurn /\ turn' # turn
  <2>1. PICK t \in Turns : /\ turn[t].state = "absent" /\ Accepted(t, post.is, NULL)
                           /\ StillAt(post.is.role, post.is.rev)
    BY <1>6 DEF InsertTurn, UnusedTurn
  <2>2. post.pc = "frozen" /\ post.is \in Frozen /\ post.is.role \in Roles /\ role[post.is.role] # "absent"
    BY <1>6 DEF InsertTurn, Linked, TypeOK, PostNamesRole, Post
  <2>3. post.is.rev = Revision(post.is.role) /\ post.is.ref = Now(post.is.role).ref
        /\ post.is.deny = Now(post.is.role).deny
    BY <2>1, <2>2 DEF PostReads, StillAt
  <2>. QED  BY <1>0, <1>2, <2>1, <2>2, <2>3, NowIsSaid
<1>. QED  BY <1>1, <1>3, <1>4, <1>5, <1>6 DEF TurnStep, PostStep, PostTurn, ReadConfiguration, ReadPermissions

LEMMA PostStays ==
    ASSUME Linked, PostReads, [Next]_vars, post' = post \/ post' = NoPost
    PROVE  PostReads'
<1>1. CASE post'.pc # "idle"
  <2>. DEFINE r == post.is.role  rev == post.is.rev
  <2>1. post' = post /\ post.pc # "idle"
    BY <1>1 DEF NoPost
  <2>2. r \in Roles /\ role[r] # "absent" /\ rev \in 1..Revision(r)
    BY <2>1 DEF Linked, PostNamesRole, PostReads, Said
  <2>3. ASSUME NEW q \in Roles, q = r, NEW n \in 1..Revision(q), n = rev
        PROVE  n \in 1..Revision(q)' /\ (n = Revision(q)' => n = Revision(q) /\ Now(q)' = Now(q))
    BY <2>2, <2>3, RevisionsStay
  <2>. QED  BY <2>1, <2>2, <2>3 DEF PostReads, Said, Revision, Now
<1>. QED  BY <1>1 DEF PostReads

LEMMA PostReadsOn == ASSUME Linked, PostReads, TurnStep, [Next]_vars PROVE PostReads'
<1>0. UNCHANGED <<role, past>>
  BY DEF TurnStep, PostStep, Send, Open, Delegate, PostTurn, ReadConfiguration, ReadPermissions, InsertTurn, rows
<1>1. ASSUME NEW r \in Roles, PostTurn(r) PROVE PostReads'
  <2>1. /\ role[r] # "absent" /\ post'.pc = "read" /\ post'.is.role = r /\ post'.is.rev = Revision(r)
    BY <1>1 DEF PostTurn, Nothing
  <2>. QED  BY <1>0, <2>1, NowIsSaid DEF PostReads, Said, Revision
<1>. DEFINE r == post.is.role
<1>2. CASE ReadConfiguration
  <2>1. CASE post' = NoPost
    BY <2>1, PostStays
  <2>2. CASE post' # NoPost
    <3>1. /\ post'.pc = "configured" /\ post'.is.role = r /\ post'.is.rev = post.is.rev /\ post'.is.ref = Now(r).ref
          /\ post.is.rev \in 1..Revision(r) /\ r \in Roles /\ role[r] # "absent"
      BY <1>2, <2>2 DEF ReadConfiguration, Linked, PostNamesRole, TypeOK, Post, Frozen, PostReads, Said
    <3>. QED  BY <1>0, <3>1, NowIsSaid DEF PostReads, Said, Revision, Now
  <2>. QED  BY <2>1, <2>2
<1>3. CASE ReadPermissions
  <2>1. /\ post'.pc = "frozen" /\ post'.is.role = r /\ post'.is.rev = post.is.rev /\ post'.is.ref = post.is.ref
        /\ post'.is.permissions /\ post'.is.deny = Now(r).deny
        /\ post.is.rev \in 1..Revision(r) /\ r \in Roles /\ role[r] # "absent"
        /\ (post.is.rev = Revision(r) => post.is.ref = Now(r).ref)
    BY <1>3 DEF ReadPermissions, Linked, PostNamesRole, TypeOK, Post, Frozen, PostReads, Said
  <2>. QED  BY <1>0, <2>1, NowIsSaid DEF PostReads, Said, Revision, Now
<1>4. CASE post' = post \/ post' = NoPost
  BY <1>4, PostStays
<1>. QED  BY <1>1, <1>2, <1>3, <1>4 DEF TurnStep, PostStep, Send, Open, Delegate, InsertTurn

LEMMA StepFroze == Linked /\ TurnsFroze /\ PostReads /\ [Next]_vars => TurnsFroze' /\ PostReads'
<1>. SUFFICES ASSUME Linked, TurnsFroze, PostReads, [Next]_vars PROVE TurnsFroze' /\ PostReads'
  OBVIOUS
<1>1. CASE TurnStep
  BY <1>1, AcceptFroze, PostReadsOn
<1>2. CASE ~TurnStep
  <2>1. SameTurns /\ (post' = post \/ post' = NoPost)
    BY <1>2, OtherSteps
  <2>. QED  BY <2>1, KeptFroze, PostStays DEF TurnsFroze, SameTurns
<1>. QED  BY <1>1, <1>2

\* A turn froze one revision of its role, also where a request read it in three steps
\* while the event loop edited it.
THEOREM OneRevisionIsFrozen == Spec => []FrozenIsOneRevision
<1>1. Init => Linked /\ TurnsFroze /\ PostReads
  BY InitLinked DEF Init, TurnsFroze, PostReads, Absent
<1>2. Spec => [](Linked /\ TurnsFroze /\ PostReads)
  BY <1>1, StepLinked, StepFroze, PTL DEF Spec
<1>. QED  BY <1>2, FrozenHolds, PTL

-----------------------------------------------------------------------------
(* What children may do *)

LEMMA StepNarrower == Linked /\ ChildrenAreNarrower /\ [Next]_vars => ChildrenAreNarrower'
<1>. SUFFICES ASSUME Linked, ChildrenAreNarrower, [Next]_vars PROVE ChildrenAreNarrower'
  OBVIOUS
<1>1. CASE SameTurns
  BY <1>1 DEF SameTurns, ChildrenAreNarrower, Linked, TypeOK, TurnRow
<1>2. ASSUME NEW t \in Turns, turn[t].state = "absent", NEW p \in Turns \cup {NULL},
             p # NULL => p \in Turns /\ turn[p].state # "absent" /\ turn[p].is.deny \subseteq turn'[t].is.deny,
             turn'[t].parent = p, \A u \in Turns \ {t} : turn'[u] = turn[u]
      PROVE  ChildrenAreNarrower'
  <2>1. ASSUME NEW u \in Turns, turn'[u].parent # NULL PROVE turn'[turn'[u].parent].is.deny \subseteq turn'[u].is.deny
    <3>1. CASE u = t
      BY <1>2, <2>1, <3>1
    <3>2. CASE u # t
      BY <1>2, <2>1, <3>2, SMTT(30) DEF ChildrenAreNarrower, Linked, TypeOK, TurnRow, TurnsNameRoles
    <3>. QED  BY <3>1, <3>2
  <2>. QED  BY <2>1 DEF ChildrenAreNarrower
<1>3. ASSUME NEW t \in Turns, turn[t].state = "absent", NEW is \in Frozen, is.role \in Roles,
             role[is.role] # "absent", Accepted(t, is, NULL), UNCHANGED role
      PROVE  ChildrenAreNarrower'
  BY <1>2, <1>3, AcceptedLinked
<1>4. ASSUME NEW t \in Turns, NEW r \in Roles, Send(t, r) PROVE ChildrenAreNarrower'
  <2>1. role[r] # "absent" /\ turn[t].state = "absent" /\ Now(r).deny \in SUBSET Tools /\ role' = role
        /\ Accepted(t, Object(r, Now(r).deny), NULL)
    BY <1>4, NowIsConfig DEF Send, UnusedTurn, Linked, rows
  <2>. QED  BY <1>3, <2>1, ObjectIsFrozen
<1>5. ASSUME NEW t \in Turns, NEW r \in Roles, Open(t, r) PROVE ChildrenAreNarrower'
  <2>1. role[r] # "absent" /\ turn[t].state = "absent" /\ role' = role
        /\ Accepted(t, [Object(r, {}) EXCEPT !.permissions = FALSE], NULL)
        /\ [Object(r, {}) EXCEPT !.permissions = FALSE].role = r
    BY <1>5 DEF Open, UnusedTurn, Object, rows
  <2>. QED  BY <1>3, <2>1, ObjectIsFrozen
<1>6. ASSUME NEW t \in Turns, NEW r \in Roles, NEW p \in Turns, Delegate(t, p, r) PROVE ChildrenAreNarrower'
  <2>. DEFINE is == Object(r, Narrowed(p, r))
  <2>1. role[r] # "absent" /\ turn[t].state = "absent" /\ Narrowed(p, r) \in SUBSET Tools /\ role' = role
        /\ turn[p].is.deny \subseteq Narrowed(p, r) /\ turn[p].state # "absent" /\ Accepted(t, is, p)
    BY <1>6, NowIsConfig DEF Delegate, UnusedTurn, Linked, Narrowed, TypeOK, TurnRow, Frozen, rows
  <2>2. is \in Frozen /\ is.role = r /\ is.deny = Narrowed(p, r)
    BY <2>1, ObjectIsFrozen DEF Object
  <2>. HIDE DEF is
  <2>3. turn'[t].is = is /\ turn'[t].parent = p /\ \A u \in Turns \ {t} : turn'[u] = turn[u]
    BY <2>1, <2>2, AcceptedLinked
  <2>. QED  BY <1>2, <2>1, <2>2, <2>3
<1>7. CASE InsertTurn /\ turn' # turn
  <2>1. PICK t \in Turns : turn[t].state = "absent" /\ Accepted(t, post.is, NULL)
    BY <1>7 DEF InsertTurn, UnusedTurn
  <2>2. post.is \in Frozen /\ post.is.role \in Roles /\ role[post.is.role] # "absent" /\ role' = role
    BY <1>7 DEF InsertTurn, Linked, TypeOK, PostNamesRole, Post, rows
  <2>. QED  BY <1>3, <2>1, <2>2
<1>8. CASE turn' = turn
  BY <1>8 DEF ChildrenAreNarrower
<1>. QED  BY <1>1, <1>4, <1>5, <1>6, <1>7, <1>8, OtherSteps
          DEF TurnStep, PostStep, PostTurn, ReadConfiguration, ReadPermissions

\* Whatever a chain of delegations and edits looks like, a child is denied what its parent
\* was denied when it was accepted.
THEOREM DelegationNarrows == Spec => []ChildrenAreNarrower
<1>1. Init => ChildrenAreNarrower
  BY DEF Init, ChildrenAreNarrower, Absent
<1>. QED  BY <1>1, InitLinked, StepLinked, StepNarrower, PTL DEF Spec

-----------------------------------------------------------------------------
(* What launches project *)

\* The asset's row, and what a launch has read of it, are in the catalogue.
Catalogued ==
    /\ asset.digest \in published \cup {NULL}
    /\ \A t \in Turns : turn[t].digest \in published \cup {NULL} /\ turn[t].got \in published \cup {NULL}

LEMMA StepCatalogued == Linked /\ Catalogued /\ [Next]_vars => Catalogued'
<1>. SUFFICES ASSUME Linked, Catalogued, [Next]_vars PROVE Catalogued'
  OBVIOUS
<1>1. CASE UNCHANGED <<asset, published, turn>>
  BY <1>1 DEF Catalogued
<1>2. CASE Publish
  <2>1. CASE UNCHANGED <<asset, published>>
    BY <1>1, <1>2, <2>1 DEF Publish
  <2>2. CASE asset' = [latest |-> loop.rev, digest |-> loop.content] /\ published' = published \cup {loop.content}
    BY <1>2, <2>2 DEF Publish, Catalogued
  <2>. QED  BY <1>2, <2>1, <2>2 DEF Publish
<1>3. CASE EditRole
  BY <1>1, <1>3 DEF EditRole, Create, Configure, SetPermissions, Archive, Clone, Bind, assets
<1>4. CASE EditProvider \/ CopyBindings \/ ArchiveProvider \/ \E v \in Revisions, c \in Contents : Install(v, c)
  BY <1>1, <1>4 DEF EditProvider, CheckReferences, UpdateProvider, CopyBindings, ArchiveProvider, Install, assets
<1>5. ASSUME NEW t \in Turns, NEW is, NEW p, Accepted(t, is, p), UNCHANGED <<asset, published>> PROVE Catalogued'
  <2>. DEFINE new == [Absent EXCEPT !.state = "accepted", !.is = is, !.parent = p]
  <2>1. new.digest = NULL /\ new.got = NULL /\ turn' = [turn EXCEPT ![t] = new]
    BY <1>5 DEF Absent, Accepted
  <2>. HIDE DEF new
  <2>. QED  BY <1>5, <2>1 DEF Catalogued, Linked, TypeOK
<1>6. CASE TurnStep
  <2>1. UNCHANGED <<asset, published>>
    BY <1>6 DEF TurnStep, PostStep, Send, Open, Delegate, PostTurn, ReadConfiguration, ReadPermissions,
       InsertTurn, assets
  <2>. QED  BY <1>1, <1>5, <1>6, <2>1 DEF TurnStep, PostStep, Send, Open, Delegate, PostTurn, ReadConfiguration,
            ReadPermissions, InsertTurn
<1>7. ASSUME NEW t \in Turns, ReadBindings(t) PROVE Catalogued'
  <2>1. /\ \A u \in Turns : turn'[u].got = turn[u].got /\ turn'[u].digest \in {turn[u].digest, asset.digest}
        /\ UNCHANGED <<asset, published>>
    BY <1>7 DEF ReadBindings, Linked, TypeOK, TurnRow, assets
  <2>. QED  BY <2>1 DEF Catalogued
<1>8. ASSUME NEW t \in Turns, Project(t) PROVE Catalogued'
  <2>0. turn[t] \in TurnRow /\ UNCHANGED <<asset, published>>
    BY <1>8 DEF Linked, TypeOK, Project, assets
  <2>1. ASSUME NEW new, turn' = [turn EXCEPT ![t] = new], new.digest = NULL,
               new.got \in {turn[t].got, turn[t].digest}
        PROVE  Catalogued'
    BY <2>0, <2>1 DEF Catalogued, Linked, TypeOK
  <2>2. ASSUME NEW state
        PROVE  /\ Ended(t, state).digest = NULL /\ Ended(t, state).got = turn[t].got
               /\ [Ended(t, state) EXCEPT !.got = disk[turn[t].pin]].digest = NULL
               /\ [Ended(t, state) EXCEPT !.got = disk[turn[t].pin]].got = disk[turn[t].pin]
    BY <2>0 DEF Ended, TurnRow
  <2>3. CASE turn' = [turn EXCEPT ![t] = Ended(t, "running")] \/ turn' = [turn EXCEPT ![t] = Ended(t, "failed")]
    BY <2>1, <2>2, <2>3
  <2>4. CASE Verified(t) /\ turn' = [turn EXCEPT ![t] = [Ended(t, "running") EXCEPT !.got = disk[turn[t].pin]]]
    BY <2>1, <2>2, <2>4 DEF Verified
  <2>. QED  BY <1>8, <2>3, <2>4 DEF Project
<1>9. CASE Crash
  <2>1. /\ \A u \in Turns : turn'[u].got = turn[u].got /\ turn'[u].digest \in {turn[u].digest, NULL}
        /\ UNCHANGED <<asset, published>>
    BY <1>9 DEF Crash, Ended, Linked, TypeOK, TurnRow, assets
  <2>. QED  BY <2>1 DEF Catalogued
<1>10. CASE UNCHANGED vars
  BY <1>1, <1>10 DEF vars, assets
<1>. QED  BY <1>2, <1>3, <1>4, <1>6, <1>7, <1>8, <1>9, <1>10 DEF Next, TurnStep, PostStep

\* A launch projects what was once published, whatever was installed, bound and cut off.
THEOREM PublishedIsProjected == Spec => []OnlyPublishedIsProjected
<1>1. Init => Catalogued
  BY DEF Init, Catalogued, Absent
<1>2. Spec => []Catalogued
  BY <1>1, InitLinked, StepLinked, StepCatalogued, PTL DEF Spec
<1>3. Catalogued => OnlyPublishedIsProjected
  BY DEF Catalogued, OnlyPublishedIsProjected
<1>. QED  BY <1>2, <1>3, PTL
-----------------------------------------------------------------------------
(***************************************************************************)
(* Part 2, EventFeed.  What the stream that continues the page of an exact *)
(* session has on its way there, in the socket and in flight, is a chain:  *)
(* each frame is the next one after the row before it, the first after the *)
(* cursor of what is shown, and nothing is left out between the last one   *)
(* and the cursor of the socket.  A frame that is read, sent on or shown   *)
(* moves along the chain; Load breaks it, and Serve begins it anew where   *)
(* the page ended.  A page is a set of rows listed in order; that such a   *)
(* list exists is the only induction.                                      *)
(***************************************************************************)

-----------------------------------------------------------------------------
(* Pages *)

\* Induction, for a set instead of an operator: a number outside it that is the least one.
LEMMA NatSet ==
    ASSUME NEW S, 0 \in S, \A n \in Nat : n \in S => n + 1 \in S
    PROVE  \A n \in Nat : n \in S
<1> SUFFICES ASSUME Nat \ S # {} PROVE FALSE
  OBVIOUS
<1>1. IsWellFoundedOn(OpToRel(<, Nat), Nat)
  BY NatLessThanWellFounded
<1>2. \E n \in Nat \ S : \A m \in Nat \ S : ~(<<m, n>> \in OpToRel(<, Nat))
  BY <1>1, WFMin
<1>3. PICK n \in Nat \ S : \A m \in Nat \ S : ~(m < n)
  BY <1>2 DEF OpToRel
<1>4. n - 1 \in Nat /\ n - 1 < n /\ (n - 1) + 1 = n
  OBVIOUS
<1> QED
  BY <1>3, <1>4

\* The least of two numbers is one of them and bounds both.
LEMMA MinOfTwo ==
    \A a, b \in Nat : Min({a, b}) \in {a, b} /\ Min({a, b}) <= a /\ Min({a, b}) <= b
  BY DEF Min

\* The greatest, for integers: a page may begin before the first row.
LEMMA MaxOfTwo ==
    \A a, b \in Int : Max({a, b}) \in {a, b} /\ a <= Max({a, b}) /\ b <= Max({a, b})
  BY DEF Max

(* A number above all of a list's goes at its end: the list still grows.   *)
LEMMA AppendLists ==
    ASSUME NEW n \in Nat, NEW f \in Seq(0..n), Increasing(f), NEW m \in Nat, n < m
    PROVE  ToSet(Append(f, m)) = ToSet(f) \cup {m} /\ Increasing(Append(f, m))
<1>1. /\ Len(f) \in Nat /\ DOMAIN f = 1..Len(f)
      /\ Append(f, m) \in Seq(Nat) /\ Len(Append(f, m)) = Len(f) + 1
      /\ DOMAIN Append(f, m) = 1..Len(f) + 1
      /\ \A i \in 1..Len(f) : Append(f, m)[i] = f[i] /\ f[i] \in 0..n
      /\ Append(f, m)[Len(f) + 1] = m
  OBVIOUS
<1>2. ToSet(Append(f, m)) = ToSet(f) \cup {m}
  <2>1. ASSUME NEW x \in ToSet(f) PROVE x \in ToSet(Append(f, m))
    BY <1>1 DEF ToSet
  <2>2. m \in ToSet(Append(f, m))
    BY <1>1, SMTT(30) DEF ToSet
  <2>3. ASSUME NEW i \in 1..Len(f) + 1 PROVE Append(f, m)[i] \in ToSet(f) \cup {m}
    BY <1>1 DEF ToSet
  <2> QED
    BY <1>1, <2>1, <2>2, <2>3 DEF ToSet
<1>3. Increasing(Append(f, m))
  <2> SUFFICES ASSUME NEW i \in 1..Len(f) + 1, NEW j \in 1..Len(f) + 1, i < j
               PROVE  Append(f, m)[i] < Append(f, m)[j]
    BY <1>1 DEF Increasing
  <2>1. CASE j = Len(f) + 1
    <3>1. i \in 1..Len(f) /\ f[i] \in 0..n
      BY <1>1, <2>1
    <3>2. Append(f, m)[i] = f[i] /\ Append(f, m)[j] = m
      BY <1>1, <2>1, <3>1
    <3> QED
      BY <3>1, <3>2
  <2>2. CASE j # Len(f) + 1
    <3>1. i \in 1..Len(f) /\ j \in 1..Len(f)
      BY <1>1, <2>2
    <3>2. f[i] < f[j]
      BY <1>1, <3>1 DEF Increasing
    <3> QED
      BY <1>1, <3>1, <3>2
  <2> QED
    BY <2>1, <2>2
<1> QED
  BY <1>2, <1>3

\* Some increasing list holds the frames of k rows: by induction over k.
LEMMA FramesExist ==
    ASSUME NEW s, NEW lo \in Nat
    PROVE  \A k \in Nat : \E f \in BoundedSeq(Framed(s, lo, lo + k), k) :
              ToSet(f) = Framed(s, lo, lo + k) /\ Increasing(f)
<1> DEFINE Holds(k, f) == /\ f \in Seq(Framed(s, lo, lo + k)) /\ Len(f) <= k
                          /\ ToSet(f) = Framed(s, lo, lo + k) /\ Increasing(f)
           S == {k \in Nat : \E f : Holds(k, f)}
<1>1. 0 \in S
  <2>1. Framed(s, lo, lo + 0) = {}
    BY DEF Framed
  <2>2. /\ <<>> \in Seq(Framed(s, lo, lo + 0)) /\ Len(<<>>) = 0 /\ DOMAIN <<>> = {}
    OBVIOUS
  <2>3. Holds(0, <<>>)
    BY <2>1, <2>2 DEF ToSet, Increasing
  <2> QED
    BY <2>3
<1>2. ASSUME NEW k \in Nat, k \in S PROVE k + 1 \in S
  <2> DEFINE F == Framed(s, lo, lo + k)
             m == lo + k + 1
  <2>1. PICK f : Holds(k, f)
    BY <1>2
  <2>2. (\A x \in F : x \in Nat /\ x <= lo + k) /\ m \in Nat /\ lo + k < m /\ lo + k \in Nat
    BY DEF Framed
  <2>3. CASE log[s][m] = 0
    <3>1. Framed(s, lo, lo + (k + 1)) = F
      BY <2>3 DEF Framed
    <3>2. Holds(k + 1, f)
      BY <2>1, <3>1
    <3> QED
      BY <3>2
  <2>4. CASE log[s][m] # 0
    <3>1. Framed(s, lo, lo + (k + 1)) = F \cup {m}
      BY <2>4 DEF Framed
    <3>2. /\ ToSet(Append(f, m)) = F \cup {m} /\ Increasing(Append(f, m))
          /\ Append(f, m) \in Seq(F \cup {m})
      <4>1. f \in Seq(0..lo + k) /\ f \in Seq(F \cup {m}) /\ ToSet(f) = F /\ Increasing(f)
        BY <2>1, <2>2
      <4> QED
        BY <2>2, <4>1, AppendLists
    <3>3. Len(Append(f, m)) <= k + 1
      BY <2>1
    <3>4. Holds(k + 1, Append(f, m))
      BY <3>1, <3>2, <3>3
    <3>5. \E g : Holds(k + 1, g)
      <4> HIDE DEF Holds
      <4> QED
        BY <3>4
    <3> QED
      BY <3>5
  <2> QED
    BY <2>3, <2>4
<1>3. \A k \in Nat : k \in S
  <2> HIDE DEF S
  <2> QED
    BY <1>1, <1>2, NatSet
<1> SUFFICES ASSUME NEW k \in Nat
             PROVE  \E f \in BoundedSeq(Framed(s, lo, lo + k), k) :
                        ToSet(f) = Framed(s, lo, lo + k) /\ Increasing(f)
  OBVIOUS
<1>4. PICK f : Holds(k, f)
  BY <1>3
<1>5. f \in [1..Len(f) -> Framed(s, lo, lo + k)] /\ Len(f) \in 0..k
  BY <1>4
<1>6. f \in BoundedSeq(Framed(s, lo, lo + k), k)
  BY <1>5 DEF BoundedSeq, SeqOf
<1> QED
  BY <1>4, <1>6

\* A page lists the rows that make a frame, each once, in order.
LEMMA FramesAre ==
    ASSUME NEW s, NEW page, page.lo \in Nat, page.hi \in Nat, page.lo <= page.hi
    PROVE  /\ Frames(s, page) \in Seq(Framed(s, page.lo, page.hi))
           /\ Frames(s, page) \in Seq(Nat)
           /\ ToSet(Frames(s, page)) = Framed(s, page.lo, page.hi)
           /\ Increasing(Frames(s, page))
<1> DEFINE framed == Framed(s, page.lo, page.hi)
           k    == page.hi - page.lo
<1>1. k \in Nat /\ page.lo + k = page.hi
  OBVIOUS
<1>2. \E f \in BoundedSeq(framed, k) : ToSet(f) = framed /\ Increasing(f)
  BY <1>1, FramesExist
<1>3. /\ Frames(s, page) \in BoundedSeq(framed, k) /\ ToSet(Frames(s, page)) = framed
      /\ Increasing(Frames(s, page))
  BY <1>2 DEF Frames
<1>4. PICK n \in 0..k : Frames(s, page) \in [1..n -> framed]
  BY <1>3 DEF BoundedSeq, SeqOf
<1>5. Frames(s, page) \in Seq(framed)
  BY <1>1, <1>4
<1>6. framed \subseteq Nat
  BY DEF Framed
<1> QED
  BY <1>3, <1>5, <1>6

-----------------------------------------------------------------------------
(* What is on its way to the renderer *)

Pending(s) == IF socket[s].own THEN socket[s].frames ELSE <<>>
Underway(s) == flight[s] \o Pending(s)
Quiet(s, a, b) == \A n \in a + 1..b : log[s][n] = 0

\* The next frame after row a is the one of row b.
Follows(s, a, b) == a < b /\ b <= Head0(s) /\ log[s][b] # 0 /\ Quiet(s, a, b - 1)

\* Each frame follows the one before, the first one row a; 0 says that the stream is down.
Unbroken(s, a, q) ==
    \A i \in 1..Len(q) : q[i] # 0 => Follows(s, IF i = 1 THEN a ELSE q[i - 1], q[i])
End(a, q) == IF q = <<>> THEN a ELSE q[Len(q)]

\* Sequences of numbers with the same places are the same.
LEMMA SameSequence ==
    ASSUME NEW q \in Seq(Nat), NEW r \in Seq(Nat), Len(q) = Len(r),
           \A i \in 1..Len(q) : q[i] = r[i]
    PROVE  q = r
OBVIOUS

\* Sending a frame on, or showing it, moves the head of what is under way only.
LEMMA HeadMoves ==
    ASSUME NEW f \in Seq(Nat), NEW g \in Seq(Nat)
    PROVE  /\ f # <<>> => Append(g, Head(f)) \o Tail(f) = g \o f
           /\ g # <<>> => Tail(g) \o f = Tail(g \o f)
<1>1. ASSUME f # <<>> PROVE Append(g, Head(f)) \o Tail(f) = g \o f
  <2> DEFINE q == Append(g, Head(f)) \o Tail(f)
             r == g \o f
  <2>1. /\ Append(g, Head(f)) \in Seq(Nat) /\ Tail(f) \in Seq(Nat) /\ Len(Tail(f)) = Len(f) - 1
        /\ Len(Append(g, Head(f))) = Len(g) + 1 /\ Len(f) \in Nat \ {0} /\ Len(g) \in Nat
        /\ \A i \in 1..Len(g) : Append(g, Head(f))[i] = g[i]
        /\ Append(g, Head(f))[Len(g) + 1] = f[1]
        /\ \A i \in 1..Len(f) - 1 : Tail(f)[i] = f[i + 1]
    BY <1>1
  <2>2. q \in Seq(Nat) /\ r \in Seq(Nat) /\ Len(q) = Len(g) + Len(f) /\ Len(r) = Len(g) + Len(f)
    BY <2>1
  <2>3. ASSUME NEW i \in 1..Len(g) + Len(f) PROVE q[i] = r[i]
    <3>1. CASE i <= Len(g)
      BY <2>1, <3>1
    <3>2. CASE i = Len(g) + 1
      BY <2>1, <3>2
    <3>3. CASE i > Len(g) + 1
      <4>1. q[i] = Tail(f)[i - (Len(g) + 1)] /\ i - (Len(g) + 1) \in 1..Len(f) - 1
        BY <2>1, <3>3
      <4>2. r[i] = f[i - Len(g)]
        BY <2>1, <3>3
      <4> QED
        BY <2>1, <4>1, <4>2
    <3> QED
      BY <2>1, <3>1, <3>2, <3>3, SMTT(30)
  <2> HIDE DEF q, r
  <2>4. q = r
    BY <2>2, <2>3, SameSequence
  <2> QED
    BY <2>4 DEF q, r
<1>2. ASSUME g # <<>> PROVE Tail(g) \o f = Tail(g \o f)
  <2> DEFINE q == Tail(g) \o f
             r == Tail(g \o f)
  <2>1. /\ Tail(g) \in Seq(Nat) /\ Len(Tail(g)) = Len(g) - 1 /\ Len(g) \in Nat \ {0}
        /\ Len(f) \in Nat /\ \A i \in 1..Len(g) - 1 : Tail(g)[i] = g[i + 1]
    BY <1>2
  <2>2. /\ g \o f \in Seq(Nat) /\ g \o f # <<>> /\ Len(g \o f) = Len(g) + Len(f)
        /\ \A i \in 1..Len(g) : (g \o f)[i] = g[i]
        /\ \A i \in Len(g) + 1..Len(g) + Len(f) : (g \o f)[i] = f[i - Len(g)]
    BY <2>1
  <2>3. /\ r \in Seq(Nat) /\ Len(r) = (Len(g) + Len(f)) - 1
        /\ \A i \in 1..(Len(g) + Len(f)) - 1 : r[i] = (g \o f)[i + 1]
    <3>1. \A u \in Seq(Nat) : u # <<>> =>
             Tail(u) \in Seq(Nat) /\ Len(Tail(u)) = Len(u) - 1
             /\ \A i \in 1..Len(u) - 1 : Tail(u)[i] = u[i + 1]
      OBVIOUS
    <3> QED
      BY <2>2, <3>1
  <2>4. q \in Seq(Nat) /\ Len(q) = (Len(g) + Len(f)) - 1
    BY <2>1
  <2>5. ASSUME NEW i \in 1..(Len(g) + Len(f)) - 1 PROVE q[i] = r[i]
    <3>1. CASE i <= Len(g) - 1
      BY <2>1, <2>2, <2>3, <3>1
    <3>2. CASE i > Len(g) - 1
      <4>1. q[i] = f[i - (Len(g) - 1)]
        BY <2>1, <3>2
      <4>2. r[i] = f[(i + 1) - Len(g)] /\ (i + 1) - Len(g) = i - (Len(g) - 1)
        BY <2>1, <2>2, <2>3, <3>2
      <4> QED
        BY <4>1, <4>2
    <3> QED
      BY <2>1, <3>1, <3>2
  <2> HIDE DEF q, r
  <2>6. q = r
    BY <2>3, <2>4, <2>5, SameSequence
  <2> QED
    BY <2>6 DEF q, r
<1> QED
  BY <1>1, <1>2

\* Without its first frame, what is under way follows that one.
LEMMA UnbrokenTail ==
    ASSUME NEW s, NEW a \in Nat, NEW q \in Seq(Nat), q # <<>>, q[1] # 0, Unbroken(s, a, q)
    PROVE  Unbroken(s, q[1], Tail(q)) /\ End(q[1], Tail(q)) = End(a, q) /\ Follows(s, a, q[1])
<1>1. /\ Len(q) \in Nat /\ Len(q) >= 1 /\ Len(Tail(q)) = Len(q) - 1
      /\ \A i \in 1..Len(Tail(q)) : Tail(q)[i] = q[i + 1]
      /\ Len(q) = 1 <=> Tail(q) = <<>>
  <2>1. Len(q) \in Nat /\ Len(q) >= 1 /\ Len(Tail(q)) = Len(q) - 1 /\ Tail(q) \in Seq(Nat)
    OBVIOUS
  <2>2. \A i \in 1..Len(Tail(q)) : Tail(q)[i] = q[i + 1]
    OBVIOUS
  <2>3. Len(Tail(q)) = 0 <=> Tail(q) = <<>>
    <3>1. \A t \in Seq(Nat) : Len(t) = 0 <=> t = <<>>
      OBVIOUS
    <3> QED
      BY <2>1, <3>1
  <2> QED
    BY <2>1, <2>2, <2>3, SMTT(30)
<1>2. Unbroken(s, q[1], Tail(q))
  <2> SUFFICES ASSUME NEW i \in 1..Len(Tail(q)), Tail(q)[i] # 0
               PROVE  Follows(s, IF i = 1 THEN q[1] ELSE Tail(q)[i - 1], Tail(q)[i])
    BY DEF Unbroken
  <2>1. i + 1 \in 1..Len(q) /\ i + 1 # 1 /\ (i + 1) - 1 = i /\ Tail(q)[i] = q[i + 1]
    BY <1>1
  <2>2. Follows(s, q[i], q[i + 1])
    BY <2>1 DEF Unbroken
  <2>3. (IF i = 1 THEN q[1] ELSE Tail(q)[i - 1]) = q[i]
    BY <1>1
  <2> QED
    BY <2>1, <2>2, <2>3
<1>3. End(q[1], Tail(q)) = End(a, q)
  BY <1>1 DEF End
<1>4. Follows(s, a, q[1])
  BY <1>1 DEF Unbroken
<1> QED
  BY <1>2, <1>3, <1>4

\* What comes first under way is a chain of its own (the socket closes).
LEMMA UnbrokenPrefix ==
    ASSUME NEW s, NEW a, NEW q \in Seq(Nat), NEW r \in Seq(Nat), Unbroken(s, a, q \o r)
    PROVE  Unbroken(s, a, q)
<1>1. /\ Len(q) \in Nat /\ Len(r) \in Nat /\ Len(q \o r) = Len(q) + Len(r)
      /\ \A i \in 1..Len(q) : (q \o r)[i] = q[i]
  OBVIOUS
<1> SUFFICES ASSUME NEW i \in 1..Len(q), q[i] # 0
             PROVE  Follows(s, IF i = 1 THEN a ELSE q[i - 1], q[i])
  BY DEF Unbroken
<1>2. i \in 1..Len(q \o r) /\ (i # 1 => i - 1 \in 1..Len(q))
  BY <1>1
<1>3. Follows(s, IF i = 1 THEN a ELSE (q \o r)[i - 1], (q \o r)[i])
  BY <1>1, <1>2 DEF Unbroken
<1> QED
  BY <1>1, <1>2, <1>3

\* The statement that the stream is down ends a chain.
LEMMA UnbrokenDown ==
    ASSUME NEW s, NEW a, NEW q \in Seq(Nat), Unbroken(s, a, q)
    PROVE  Unbroken(s, a, Append(q, 0))
<1>1. /\ Len(q) \in Nat /\ Len(Append(q, 0)) = Len(q) + 1 /\ Append(q, 0)[Len(q) + 1] = 0
      /\ \A i \in 1..Len(q) : Append(q, 0)[i] = q[i]
  OBVIOUS
<1> SUFFICES ASSUME NEW i \in 1..Len(q) + 1, Append(q, 0)[i] # 0
             PROVE  Follows(s, IF i = 1 THEN a ELSE Append(q, 0)[i - 1], Append(q, 0)[i])
  BY <1>1 DEF Unbroken
<1>2. i \in 1..Len(q) /\ (i # 1 => i - 1 \in 1..Len(q))
  BY <1>1
<1> QED
  BY <1>1, <1>2 DEF Unbroken

\* A batch of the rows after what is on its way continues it.
LEMMA UnbrokenBatch ==
    ASSUME NEW s, NEW a \in Nat, NEW q \in Seq(Nat), NEW c \in Nat, NEW h \in Nat,
           Unbroken(s, a, q), \A i \in 1..Len(q) : q[i] # 0,
           End(a, q) <= c, Quiet(s, End(a, q), c), c <= h, h <= Head0(s), Head0(s) \in Nat,
           NEW f \in Seq(Framed(s, c, h)), ToSet(f) = Framed(s, c, h), Increasing(f)
    PROVE  /\ Unbroken(s, a, q \o f) /\ \A i \in 1..Len(q \o f) : (q \o f)[i] # 0
           /\ End(a, q \o f) <= h /\ Quiet(s, End(a, q \o f), h)
<1> DEFINE n == Len(q)
           k == Len(f)
           e == End(a, q)
<1>1. /\ n \in Nat /\ k \in Nat /\ Len(q \o f) = n + k
      /\ \A i \in 1..n : (q \o f)[i] = q[i] /\ q[i] \in Nat
      /\ \A i \in n + 1..n + k : (q \o f)[i] = f[i - n] /\ i - n \in 1..k
      /\ DOMAIN f = 1..k
      /\ n = 0 <=> q = <<>>
      /\ k = 0 <=> f = <<>>
  <2>1. Framed(s, c, h) \subseteq Nat
    BY DEF Framed
  <2>2. f \in Seq(Nat)
    BY <2>1
  <2> QED
    BY <2>2
<1>2. \A j \in 1..k : f[j] \in Nat /\ c < f[j] /\ f[j] <= h /\ log[s][f[j]] # 0
  BY <1>1 DEF Framed
<1>3. ASSUME NEW r \in c + 1..h, log[s][r] # 0
      PROVE  \E j \in 1..k : f[j] = r
  <2>1. r \in ToSet(f)
    BY <1>3 DEF Framed
  <2> QED
    BY <1>1, <2>1 DEF ToSet
<1>4. \A i, j \in 1..k : i < j => f[i] < f[j]
  BY <1>1 DEF Increasing
<1>5. e \in Nat
  BY <1>1 DEF End
<1>6. \A r \in e + 1..c : log[s][r] = 0
  BY DEF Quiet
<1>7. ASSUME NEW j \in 1..k
      PROVE  Follows(s, IF j = 1 THEN e ELSE f[j - 1], f[j])
  <2> DEFINE b == IF j = 1 THEN e ELSE f[j - 1]
  <2>1. j # 1 => j - 1 \in 1..k /\ j - 1 < j
    BY <1>1, <1>7
  <2>2. b \in Nat /\ b < f[j] /\ (j # 1 => c < b)
    BY <1>2, <1>4, <1>5, <1>7, <2>1
  <2>b. (j = 1 => b = e) /\ (j # 1 => b = f[j - 1])
    OBVIOUS
  <2>c. ASSUME Follows(s, b, f[j]) PROVE Follows(s, IF j = 1 THEN e ELSE f[j - 1], f[j])
    BY <2>c
  <2> HIDE DEF b
  <2>3. ASSUME NEW r \in b + 1..f[j] - 1, log[s][r] # 0 PROVE FALSE
    <3>1. r \in Nat /\ b < r /\ r < f[j] /\ f[j] <= h
      BY <1>2, <1>7, <2>2, <2>3
    <3>2. c < r
      BY <1>5, <1>6, <2>2, <2>3, <2>b, <3>1
    <3>3. PICK i \in 1..k : f[i] = r
      <4>1. r \in c + 1..h /\ log[s][r] # 0
        BY <1>2, <1>7, <2>3, <3>1, <3>2
      <4> QED
        BY <1>3, <4>1
    <3>4. i < j
      BY <1>1, <1>2, <1>4, <1>7, <3>1, <3>3
    <3>5. i # j - 1 => i < j - 1
      BY <1>1, <1>7, <3>4
    <3> QED
      <4>1. CASE j = 1
        BY <1>1, <3>4, <4>1
      <4>2. CASE j # 1
        <5>1. j - 1 \in 1..k /\ b = f[j - 1] /\ (i < j - 1 => f[i] < f[j - 1])
          BY <1>4, <2>1, <2>b, <4>2
        <5>2. f[i] <= f[j - 1]
          BY <1>2, <3>3, <3>5, <5>1
        <5> QED
          BY <2>2, <3>1, <3>3, <5>1, <5>2
      <4> QED
        BY <4>1, <4>2
  <2>4. Follows(s, b, f[j])
    <3>1. f[j] <= Head0(s) /\ log[s][f[j]] # 0 /\ b < f[j]
      BY <1>2, <1>7, <2>2
    <3> QED
      BY <2>3, <3>1 DEF Follows, Quiet
  <2> QED
    BY <2>4, <2>c
<1>8. Unbroken(s, a, q \o f)
  <2> SUFFICES ASSUME NEW i \in 1..n + k, (q \o f)[i] # 0
               PROVE  Follows(s, IF i = 1 THEN a ELSE (q \o f)[i - 1], (q \o f)[i])
    BY <1>1 DEF Unbroken
  <2>1. CASE i <= n
    BY <1>1, <2>1 DEF Unbroken
  <2>2. CASE i = n + 1
    <3>1. (q \o f)[i] = f[1] /\ 1 \in 1..k
      BY <1>1, <2>2
    <3>2. (IF i = 1 THEN a ELSE (q \o f)[i - 1]) = e
      BY <1>1, <2>2 DEF End
    <3> QED
      BY <1>7, <3>1, <3>2
  <2>3. CASE i > n + 1
    <3>1. /\ (q \o f)[i] = f[i - n] /\ i - n \in 1..k /\ i - n # 1 /\ i # 1
          /\ (q \o f)[i - 1] = f[(i - n) - 1]
      BY <1>1, <2>3
    <3> QED
      BY <1>7, <3>1
  <2> QED
    BY <1>1, <2>1, <2>2, <2>3
<1>9. \A i \in 1..Len(q \o f) : (q \o f)[i] # 0
  <2> SUFFICES ASSUME NEW i \in 1..n + k PROVE (q \o f)[i] # 0
    BY <1>1
  <2>1. CASE i <= n
    BY <1>1, <2>1
  <2>2. CASE i > n
    BY <1>1, <1>2, <2>2
  <2> QED
    BY <1>1, <2>1, <2>2
<1>10. CASE k = 0
  <2>1. End(a, q \o f) = e
    BY <1>1, <1>10 DEF End
  <2>2. \A r \in c + 1..h : log[s][r] = 0
    BY <1>3, <1>10
  <2> QED
    BY <1>5, <1>6, <1>8, <1>9, <2>1, <2>2 DEF Quiet
<1>11. CASE k # 0
  <2>1. End(a, q \o f) = f[k] /\ k \in 1..k
    BY <1>1, <1>11 DEF End
  <2>2. ASSUME NEW r \in f[k] + 1..h PROVE log[s][r] = 0
    <3>1. r \in c + 1..h /\ f[k] < r
      BY <1>2, <2>1, <2>2
    <3>2. ASSUME NEW i \in 1..k, f[i] = r PROVE FALSE
      <4>0. k \in Nat
        BY <1>1
      <4>1. i = k \/ i < k
        BY <3>2, <4>0
      <4>2. i < k => f[i] < f[k]
        BY <1>4, <2>1, <3>2
      <4>3. f[i] \in Nat /\ f[k] \in Nat
        BY <1>2, <2>1, <3>2
      <4> QED
        BY <3>1, <3>2, <4>1, <4>2, <4>3
    <3> QED
      BY <1>3, <3>1, <3>2
  <2> QED
    BY <1>2, <1>8, <1>9, <2>1, <2>2 DEF Quiet
<1> QED
  BY <1>1, <1>10, <1>11

-----------------------------------------------------------------------------
(* The invariant *)

\* The numbers of the rows: those of the frames ascend without a gap.
LogAt(s) ==
    /\ \E m \in Nat : {0} \cup ToSet(log[s]) = 0..m
    /\ \A i, j \in 1..Head0(s) : i < j /\ log[s][j] # 0 => log[s][i] < log[s][j]

\* What an exact session shows and what is on its way there, of the stream that continues
\* its page, are the rows from where the page began to the cursor of that stream.
StreamAt(s) == tab[s].exact =>
    /\ tab[s].from <= tab[s].resume /\ tab[s].resume <= Head0(s)
    /\ Lists(tab[s].shown, s, tab[s].from, tab[s].resume)
    /\ Unbroken(s, tab[s].resume, Underway(s))
    /\ \A i \in 1..Len(Underway(s)) :
          Underway(s)[i] = 0 => i = Len(Underway(s)) /\ ~socket[s].own
    /\ socket[s].own => /\ End(tab[s].resume, Underway(s)) <= socket[s].cursor
                        /\ socket[s].cursor <= Head0(s)
                        /\ Quiet(s, End(tab[s].resume, Underway(s)), socket[s].cursor)
SocketAt(s) == (~socket[s].up => socket[s].frames = <<>>) /\ (socket[s].own => socket[s].up)

\* Until the call that loaded an exact session has its stream, that stream sends nothing.
Unserved == {"closing", "closed", "opening"}
OpeningAt(s) == tab[s].exact =>
    \A c \in Calls : c = tab[s].by /\ call[c].session = s /\ call[c].pc \in Unserved =>
        ~socket[s].own /\ flight[s] = <<>> /\ call[c].hi = tab[s].resume

CallAt(c) ==
    /\ call[c].pc # "idle" => call[c].session \in Sessions
    /\ call[c].pc = "closing" => call[c].other \in Sessions
    /\ call[c].pc = "answered" =>
          call[c].lo <= call[c].hi /\ call[c].hi <= Head0(call[c].session)

PagerAt ==
    pager.session # Nowhere =>
        /\ pager.lo <= pager.hi /\ pager.hi <= Head0(pager.session)
        /\ Lists(pager.seen, pager.session, pager.lo, pager.hi)

SseAt ==
    /\ sse.pc # "off" => sse.session \in Sessions
    /\ sse.generation <= notifier.generation
    /\ \A s \in Sessions : notifier.told[s] <= Head0(s)
    /\ NoWakeupIsLost

FeedInv ==
    /\ FeedTypeOK
    /\ \A s \in Sessions : LogAt(s) /\ StreamAt(s) /\ SocketAt(s) /\ OpeningAt(s)
    /\ \A c \in Calls : CallAt(c)
    /\ PagerAt /\ SseAt

-----------------------------------------------------------------------------
(* Steps *)

\* It holds of FeedInit.
LEMMA FeedStarts == FeedInit => FeedInv
<1> SUFFICES ASSUME FeedInit PROVE FeedInv
  OBVIOUS
<1>0. <<>> \in Seq(Nat) /\ <<>> \in Seq(Calls) /\ DOMAIN <<>> = {} /\ Len(<<>>) = 0
  OBVIOUS
<1>1. FeedTypeOK
  BY <1>0, FeedAssumption
    DEF FeedInit, FeedTypeOK, Rows, Maybe, Closed, IdleCall
<1>2. ASSUME NEW s \in Sessions PROVE LogAt(s) /\ StreamAt(s) /\ SocketAt(s) /\ OpeningAt(s)
  <2>1. ToSet(log[s]) = {} /\ Head0(s) = 0
    BY <1>0 DEF FeedInit, ToSet, Head0
  <2>2. {0} \cup ToSet(log[s]) = 0..0
    BY <2>1
  <2>3. LogAt(s)
    BY <2>1, <2>2 DEF LogAt
  <2> QED
    BY <2>3 DEF FeedInit, StreamAt, SocketAt, OpeningAt, Closed
<1>3. ASSUME NEW c \in Calls PROVE CallAt(c)
  BY DEF FeedInit, CallAt, IdleCall
<1>4. PagerAt /\ SseAt
  BY <1>0 DEF FeedInit, PagerAt, SseAt, NoWakeupIsLost, Head0
<1> QED
  BY <1>1, <1>2, <1>3, <1>4 DEF FeedInv

\* What is said of the stream of a session looks at its part of the state only, and at its
\* socket when the page is continued there.
LEMMA StreamStays ==
    ASSUME NEW s, log' = log, flight'[s] = flight[s], tab'[s] = tab[s],
           socket'[s].own = socket[s].own, socket[s].own => socket'[s] = socket[s]
    PROVE  /\ LogAt(s) => LogAt(s)'
           /\ StreamAt(s) => StreamAt(s)'
           /\ socket'[s] = socket[s] /\ SocketAt(s) => SocketAt(s)'
<1>1. Underway(s)' = Underway(s) /\ Head0(s)' = Head0(s)
  BY DEF Underway, Pending, Head0
<1>2. \A a, b : Framed(s, a, b)' = Framed(s, a, b) /\ Quiet(s, a, b)' = Quiet(s, a, b)
  BY DEF Framed, Quiet
<1>3. \A a, q : Unbroken(s, a, q)' = Unbroken(s, a, q)
  BY DEF Unbroken, Follows, Quiet, Head0
<1>4. StreamAt(s) => StreamAt(s)'
  BY <1>1, <1>2, <1>3 DEF StreamAt, Lists
<1> QED
  BY <1>1, <1>4 DEF LogAt, SocketAt

\* The readers share the log alone.
LEMMA LogStays ==
    ASSUME log' = log
    PROVE  /\ UNCHANGED call => \A c \in Calls : CallAt(c)' = CallAt(c)
           /\ UNCHANGED pager => PagerAt' = PagerAt
           /\ UNCHANGED <<sse, notifier>> => SseAt' = SseAt
           /\ UNCHANGED desk => \A s \in Sessions : 
                 /\ LogAt(s) => LogAt(s)'
                 /\ StreamAt(s) => StreamAt(s)'
                 /\ SocketAt(s) => SocketAt(s)'
                 /\ OpeningAt(s) => OpeningAt(s)'
<1>1. UNCHANGED call => \A c \in Calls : CallAt(c)' = CallAt(c)
  BY DEF CallAt, Head0
<1>2. UNCHANGED pager => PagerAt' = PagerAt
  BY DEF PagerAt, Lists, Framed, Head0
<1>3. UNCHANGED <<sse, notifier>> => SseAt' = SseAt
  BY DEF SseAt, NoWakeupIsLost, Head0
<1>4. UNCHANGED desk => \A s \in Sessions : OpeningAt(s) => OpeningAt(s)'
  BY DEF desk, OpeningAt
<1> QED
  BY <1>1, <1>2, <1>3, <1>4, StreamStays DEF desk

\* A row that is appended changes nothing of the rows that are read.
LEMMA AppendEventKeeps ==
    ASSUME FeedInv, NEW s \in Sessions, AppendEvent(s)
    PROVE  FeedInv'
<1>t. FeedTypeOK /\ log \in [Sessions -> Seq(Nat)]
  BY DEF FeedInv, FeedTypeOK, Rows
<1>1. PICK g \in Seq(Nat), h \in Nat : g = log[s] /\ h = Head0(s) /\ h = Len(g) /\ DOMAIN g = 1..h
  BY <1>t DEF Head0
<1>2. PICK m \in Nat : {0} \cup ToSet(g) = 0..m
  <2>1. LogAt(s)
    BY DEF FeedInv
  <2> QED
    BY <1>1, <2>1 DEF LogAt
<1>3. WireSeq(s) = m + 1
  <2>1. Max(0..m) = m
    BY DEF Max
  <2> QED
    BY <1>1, <1>2, <2>1 DEF WireSeq
<1>4. PICK x \in Nat : x \in {0, m + 1} /\ log' = [log EXCEPT ![s] = Append(@, x)]
  <2>1. PICK framed \in BOOLEAN :
           log' = [log EXCEPT ![s] = Append(@, IF framed THEN WireSeq(s) ELSE 0)]
    BY DEF AppendEvent
  <2>2. CASE framed
    <3>1. log' = [log EXCEPT ![s] = Append(@, WireSeq(s))]
      BY <2>1, <2>2
    <3>2. log' = [log EXCEPT ![s] = Append(@, m + 1)]
      BY <1>3, <3>1
    <3>3. m + 1 \in Nat
      OBVIOUS
    <3> QED
      BY <3>2, <3>3
  <2>3. CASE ~framed
    BY <2>1, <2>3
  <2> QED
    BY <2>2, <2>3
<1>5. /\ log' \in [Sessions -> Seq(Nat)] /\ Head0(s)' = h + 1
      /\ log'[s][h + 1] = x /\ DOMAIN log'[s] = 1..h + 1
      /\ \A i \in 1..h : log'[s][i] = g[i] /\ g[i] \in Nat
      /\ \A t \in Sessions : t # s => log'[t] = log[t]
  <2>1. Append(g, x) \in Seq(Nat) /\ Len(Append(g, x)) = h + 1 /\ DOMAIN Append(g, x) = 1..h + 1
        /\ Append(g, x)[h + 1] = x /\ \A i \in 1..h : Append(g, x)[i] = g[i] /\ g[i] \in Nat
    BY <1>1
  <2>2. log'[s] = Append(g, x) /\ \A t \in Sessions : t # s => log'[t] = log[t]
    BY <1>t, <1>1, <1>4
  <2> QED
    BY <1>t, <1>4, <2>1, <2>2 DEF Head0
<1>6. ASSUME NEW t \in Sessions
      PROVE  /\ Head0(t) \in Nat /\ Head0(t)' \in Nat /\ Head0(t) <= Head0(t)'
             /\ \A i \in 1..Head0(t) : log'[t][i] = log[t][i]
  <2>1. CASE t = s
    <3>1. Head0(t) = h /\ Head0(t)' = h + 1 /\ \A i \in 1..h : log'[t][i] = log[t][i]
      BY <1>1, <1>5, <2>1
    <3> QED
      BY <3>1
  <2>2. CASE t # s
    BY <1>t, <1>5, <2>2 DEF Head0
  <2> QED
    BY <2>1, <2>2
<1>7. /\ UNCHANGED <<reader, desk, sse, pager>>
      /\ notifier' \in [generation : Nat, due : Nat, told : [Sessions -> Nat]]
      /\ notifier'.generation = notifier.generation /\ notifier'.told = notifier.told
  <2>1. notifier \in [generation : Nat, due : Nat, told : [Sessions -> Nat]]
    BY <1>t DEF FeedTypeOK, Rows
  <2>2. UNCHANGED <<reader, desk, sse, pager>>
    BY DEF AppendEvent
  <2>3. PICK due \in {0, 1} : notifier' = [notifier EXCEPT !.due = @ + due]
    BY DEF AppendEvent
  <2> QED
    BY <2>1, <2>2, <2>3, SMTT(30)
<1>8. FeedTypeOK'
  BY <1>t, <1>5, <1>7 DEF FeedTypeOK, Rows, desk
<1>9. \A t \in Sessions : \A a \in Nat, b \in Nat : b <= Head0(t) =>
          Framed(t, a, b)' = Framed(t, a, b) /\ (Quiet(t, a, b) => Quiet(t, a, b)')
  <2> SUFFICES ASSUME NEW t \in Sessions, NEW a \in Nat, NEW b \in Nat, b <= Head0(t)
               PROVE  Framed(t, a, b)' = Framed(t, a, b) /\ (Quiet(t, a, b) => Quiet(t, a, b)')
    OBVIOUS
  <2>1. \A n \in a + 1..b : n \in 1..Head0(t) /\ log'[t][n] = log[t][n]
    BY <1>6
  <2> QED
    BY <2>1 DEF Framed, Quiet
<1>10. LogAt(s)'
  <2>1. ToSet(log'[s]) = ToSet(g) \cup {x}
    <3>1. DOMAIN g = 1..h /\ DOMAIN log'[s] = 1..h + 1
      BY <1>1, <1>5
    <3>2. ASSUME NEW i \in 1..h PROVE g[i] \in ToSet(log'[s])
      <4>1. i \in 1..h + 1 /\ log'[s][i] = g[i]
        BY <1>5, <3>2
      <4> QED
        BY <3>1, <4>1 DEF ToSet
    <3>3. x \in ToSet(log'[s])
      <4>1. h + 1 \in 1..h + 1
        OBVIOUS
      <4> QED
        BY <1>5, <3>1, <4>1 DEF ToSet
    <3>4. ASSUME NEW i \in 1..h + 1 PROVE log'[s][i] \in ToSet(g) \cup {x}
      <4>1. i \in 1..h \/ i = h + 1
        BY <1>1
      <4> QED
        BY <1>5, <3>1, <4>1 DEF ToSet
    <3> QED
      BY <3>1, <3>2, <3>3, <3>4 DEF ToSet
  <2>2. {0} \cup ToSet(log'[s]) = 0..(IF x = 0 THEN m ELSE m + 1)
    <3>1. 0..m \cup {m + 1} = 0..m + 1
      OBVIOUS
    <3> QED
      <4>1. {0} \cup ToSet(log'[s]) = 0..m \cup {x}
        BY <1>1, <1>2, <2>1
      <4>2. CASE x = 0
        BY <4>1, <4>2
      <4>3. CASE x # 0
        BY <1>4, <3>1, <4>1, <4>3
      <4> QED
        BY <4>2, <4>3
  <2>3. ASSUME NEW i \in 1..h + 1, NEW j \in 1..h + 1, i < j, log'[s][j] # 0
        PROVE  log'[s][i] < log'[s][j]
    <3>1. i \in 1..h
      BY <1>1, <2>3
    <3>2. CASE j \in 1..h
      <4>1. \A u, v \in 1..h : u < v /\ g[v] # 0 => g[u] < g[v]
        BY <1>1 DEF FeedInv, LogAt
      <4> QED
        BY <1>5, <2>3, <3>1, <3>2, <4>1
    <3>3. CASE j = h + 1
      <4>1. g[i] \in ToSet(g)
        BY <1>1, <3>1 DEF ToSet
      <4>2. g[i] \in 0..m
        BY <1>1, <1>2, <4>1
      <4>3. log'[s][j] = m + 1 /\ log'[s][i] = g[i]
        BY <1>4, <1>5, <2>3, <3>1, <3>3
      <4> QED
        BY <4>2, <4>3
    <3> QED
      BY <1>1, <3>2, <3>3
  <2> QED
    <3>1. \E n \in Nat : {0} \cup ToSet(log'[s]) = 0..n
      BY <2>2
    <3> QED
      BY <1>5, <2>3, <3>1 DEF LogAt
<1>11. ASSUME NEW t \in Sessions, t # s PROVE LogAt(t)'
  BY <1>5, <1>11 DEF FeedInv, LogAt, Head0
<1>12. ASSUME NEW t \in Sessions PROVE StreamAt(t)' /\ SocketAt(t)' /\ OpeningAt(t)'
  <2> DEFINE q == Underway(t)
             a == tab[t].resume
  <2>1. /\ a \in Nat /\ tab[t].from \in Nat /\ socket[t].cursor \in Nat /\ q \in Seq(Nat)
        /\ Len(q) \in Nat /\ End(a, q) \in Nat
    <3>1. /\ a \in Nat /\ tab[t].from \in Nat /\ socket[t].cursor \in Nat
          /\ flight[t] \in Seq(Nat) /\ socket[t].frames \in Seq(Nat)
      BY <1>t DEF FeedTypeOK, Rows
    <3>2. q \in Seq(Nat)
      BY <3>1 DEF Underway, Pending
    <3>3. \A u \in Nat, r \in Seq(Nat) : Len(r) \in Nat /\ End(u, r) \in Nat
      BY DEF End
    <3> QED
      BY <3>1, <3>2, <3>3
  <2>2. UNCHANGED <<tab, socket, flight, call>> /\ Underway(t)' = q
    BY <1>7 DEF desk, Underway, Pending
  <2>3. Unbroken(t, a, q) => Unbroken(t, a, q)'
    <3> SUFFICES ASSUME Unbroken(t, a, q), NEW i \in 1..Len(q), q[i] # 0
                 PROVE  Follows(t, IF i = 1 THEN a ELSE q[i - 1], q[i])'
      BY <2>2 DEF Unbroken
    <3>1. Follows(t, IF i = 1 THEN a ELSE q[i - 1], q[i])
      BY DEF Unbroken
    <3>2. q[i] \in Nat /\ (IF i = 1 THEN a ELSE q[i - 1]) \in Nat
      BY <2>1
    <3>3. ASSUME NEW u \in Nat, NEW v \in Nat, Follows(t, u, v)
          PROVE  u < v /\ v <= Head0(t)' /\ log'[t][v] # 0 /\ \A n \in u + 1..v - 1 : log'[t][n] = 0
      <4>1. u < v /\ v <= Head0(t) /\ log[t][v] # 0 /\ \A n \in u + 1..v - 1 : log[t][n] = 0
        BY <3>3 DEF Follows, Quiet
      <4>2. v \in 1..Head0(t) /\ \A n \in u + 1..v - 1 : n \in 1..Head0(t)
        BY <1>6, <4>1
      <4> QED
        BY <1>6, <4>1, <4>2, SMTT(30)
    <3>4. \A u \in Nat, v \in Nat : Follows(t, u, v) =>
             u < v /\ v <= Head0(t)' /\ log'[t][v] # 0 /\ \A n \in u + 1..v - 1 : log'[t][n] = 0
      BY <3>3
    <3>5. tab' = tab /\ Underway(t)' = q
      BY <2>2
    <3>6. \A u \in Nat, v \in Nat : Follows(t, u, v) => Follows(t, u, v)'
      BY <3>4 DEF Follows, Quiet
    <3>7. PICK u \in Nat, v \in Nat : u = (IF i = 1 THEN a ELSE q[i - 1]) /\ v = q[i]
      BY <3>2
    <3>8. Follows(t, u, v)'
      BY <3>1, <3>6, <3>7
    <3>9. u = (IF i = 1 THEN a ELSE q[i - 1])' /\ v = q[i]'
      BY <3>5, <3>7
    <3> QED
      BY <3>8, <3>9
  <2>4. StreamAt(t)'
    <3> SUFFICES ASSUME tab[t].exact PROVE StreamAt(t)'
      BY <2>2 DEF StreamAt
    <3>1. StreamAt(t)
      BY DEF FeedInv
    <3>2. a <= Head0(t)' /\ Framed(t, tab[t].from, a)' = Framed(t, tab[t].from, a)
      <4>1. a <= Head0(t)
        BY <3>1 DEF StreamAt
      <4> QED
        <5>1. PICK u \in Nat, v \in Nat : u = tab[t].from /\ v = a
          BY <2>1
        <5>2. u = tab'[t].from /\ v = tab'[t].resume
          BY <2>2, <5>1
        <5>3. Framed(t, u, v)' = Framed(t, u, v) /\ v <= Head0(t)'
          BY <1>6, <1>9, <4>1, <5>1
        <5> QED
          BY <5>1, <5>2, <5>3
    <3>3. socket[t].own => socket[t].cursor <= Head0(t)' /\ Quiet(t, End(a, q), socket[t].cursor)'
      <4> SUFFICES ASSUME socket[t].own
                   PROVE  socket[t].cursor <= Head0(t)' /\ Quiet(t, End(a, q), socket[t].cursor)'
        OBVIOUS
      <4>1. socket[t].cursor <= Head0(t) /\ Quiet(t, End(a, q), socket[t].cursor)
        BY <3>1 DEF StreamAt
      <4>2. socket[t].cursor <= Head0(t)'
        BY <1>6, <2>1, <4>1
      <4>3. \A u \in Nat, v \in Nat : v <= Head0(t) /\ Quiet(t, u, v) => \A n \in u + 1..v : log'[t][n] = 0
        BY <1>9 DEF Quiet
      <4>4. UNCHANGED <<tab, socket>> /\ Underway(t)' = q
        BY <2>2
      <4> QED
        BY <2>1, <4>1, <4>2, <4>3, <4>4, ZenonT(60) DEF Quiet, End
    <3> HIDE DEF q, a
    <3> QED
      BY <2>2, <2>3, <3>1, <3>2, <3>3 DEF StreamAt, Lists, q, a
  <2> QED
    BY <2>2, <2>4 DEF FeedInv, SocketAt, OpeningAt
<1>13. ASSUME NEW c \in Calls PROVE CallAt(c)'
  <2>1. call[c].lo \in Nat /\ call[c].hi \in Nat
    BY <1>t DEF FeedTypeOK, Rows
  <2> QED
    BY <1>6, <1>7, <2>1, SMTT(30) DEF FeedInv, CallAt, desk
<1>14. PagerAt'
  <2>1. pager.lo \in Nat /\ pager.hi \in Nat /\ (pager.session # Nowhere => pager.session \in Sessions)
    BY <1>t DEF FeedTypeOK, Rows, Maybe
  <2> QED
    BY <1>6, <1>7, <1>9, <2>1 DEF FeedInv, PagerAt, Lists
<1>15. SseAt'
  <2>1. \A t \in Sessions : notifier.told[t] \in Nat
    BY <1>t DEF FeedTypeOK, Rows
  <2> QED
    BY <1>6, <1>7, <2>1 DEF FeedInv, SseAt, NoWakeupIsLost
<1> QED
  BY <1>8, <1>10, <1>11, <1>12, <1>13, <1>14, <1>15 DEF FeedInv

\* What the invariant says of the kinds of the state, at hand.
LEMMA FeedFacts ==
    ASSUME FeedInv
    PROVE  /\ \A s \in Sessions :
                 /\ log[s] \in Seq(Nat) /\ Head0(s) \in Nat
                 /\ flight[s] \in Seq(Nat) /\ socket[s].frames \in Seq(Nat)
                 /\ socket[s].cursor \in Nat /\ socket[s].own \in BOOLEAN
                 /\ tab[s].from \in Nat /\ tab[s].resume \in Nat /\ tab[s].shown \in Seq(Nat)
                 /\ Underway(s) \in Seq(Nat)
                 /\ LogAt(s) /\ StreamAt(s) /\ SocketAt(s) /\ OpeningAt(s)
           /\ \A c \in Calls : CallAt(c) /\ call[c].lo \in Nat /\ call[c].hi \in Nat
           /\ PagerAt /\ SseAt
           /\ FeedTypeOK
<1>1. FeedTypeOK
  BY DEF FeedInv
<1>2. ASSUME NEW s \in Sessions
      PROVE  /\ log[s] \in Seq(Nat) /\ Head0(s) \in Nat
             /\ flight[s] \in Seq(Nat) /\ socket[s].frames \in Seq(Nat)
             /\ socket[s].cursor \in Nat /\ socket[s].own \in BOOLEAN
             /\ tab[s].from \in Nat /\ tab[s].resume \in Nat /\ tab[s].shown \in Seq(Nat)
  BY <1>1 DEF FeedTypeOK, Rows, Head0
<1>3. \A s \in Sessions : Underway(s) \in Seq(Nat)
  BY <1>2 DEF Underway, Pending
<1>4. \A c \in Calls : call[c].lo \in Nat /\ call[c].hi \in Nat
  BY <1>1 DEF FeedTypeOK, Rows
<1> QED
  BY <1>1, <1>2, <1>3, <1>4 DEF FeedInv

\* notify (notifier.py:12-15).
LEMMA NotifyKeeps == ASSUME FeedInv, Notify PROVE FeedInv'
<1>1. /\ notifier \in [generation : Nat, due : Nat, told : [Sessions -> Nat]]
      /\ sse.generation \in Nat
  BY DEF FeedInv, FeedTypeOK, Rows
<1>2. /\ UNCHANGED <<reader, log, desk, sse, pager, call>>
      /\ notifier'.generation = notifier.generation + 1 /\ notifier'.due = notifier.due - 1
      /\ notifier'.told = [s \in Sessions |-> Head0(s)] /\ notifier.due > 0
      /\ notifier' \in [generation : Nat, due : Nat, told : [Sessions -> Nat]]
  <2>1. \A s \in Sessions : Head0(s) \in Nat
    BY FeedFacts
  <2> QED
    BY <1>1, <2>1 DEF Notify, desk
<1>3. FeedTypeOK'
  BY <1>2 DEF FeedInv, FeedTypeOK, Rows, desk
<1>4. SseAt'
  <2>1. SseAt /\ \A s \in Sessions : Head0(s) \in Nat /\ Head0(s)' = Head0(s)
    BY <1>2, FeedFacts DEF Head0
  <2>2. sse'.generation < notifier'.generation
    BY <1>1, <1>2, <2>1 DEF SseAt
  <2> QED
    BY <1>1, <1>2, <2>1, <2>2 DEF SseAt, NoWakeupIsLost
<1> QED
  BY <1>2, <1>3, <1>4, LogStays DEF FeedInv

\* A page after a cursor begins there, and is empty at the head of the log only.
LEMMA PageAfter ==
    ASSUME NEW s, NEW cursor \in Nat, Head0(s) \in Nat, cursor <= Head0(s), NEW limit \in Nat \ {0}
    PROVE  LET page == After(s, cursor, limit)
           IN  /\ page.lo = cursor /\ page.lo \in Nat /\ page.hi \in Nat
               /\ page.lo <= page.hi /\ page.hi <= Head0(s)
               /\ page.hi = page.lo => Head0(s) = cursor
  BY MinOfTwo DEF After

\* A page before a row ends just before it.
LEMMA PageBefore ==
    ASSUME NEW row \in Nat \ {0}, NEW limit \in Nat \ {0}
    PROVE  LET page == Before(row, limit)
           IN  /\ page.hi = row - 1 /\ page.lo \in Nat /\ page.hi \in Nat /\ page.lo <= page.hi
  BY MaxOfTwo DEF Before

\* The SSE route (app.py:328-348): it sleeps on the generation it read before the log.
LEMMA SseKeeps ==
    ASSUME FeedInv, (\E s \in Sessions : SseConnect(s)) \/ Sse
    PROVE  FeedInv'
<1>0. BatchLimit \in Nat \ {0}
  BY FeedAssumption
<1>1. /\ sse.pc \in {"off", "history", "list", "again", "waiting"} /\ sse.session \in Maybe
      /\ sse.cursor \in Nat /\ sse.generation \in Nat
      /\ sse \in [pc : {"off", "history", "list", "again", "waiting"}, session : Maybe,
                  cursor : Nat, generation : Nat]
      /\ notifier.generation \in Nat /\ \A s \in Sessions : notifier.told[s] \in Nat
  BY DEF FeedInv, FeedTypeOK, Rows
<1>2. SseAt /\ \A s \in Sessions : Head0(s) \in Nat
  BY FeedFacts
<1>3. UNCHANGED <<reader, log, notifier, desk, pager, call>>
  BY DEF SseConnect, Sse, SseHistory, SseList, SseAgain, SseWake, SseGoes, desk
<1>4. ASSUME NEW s \in Sessions, SseConnect(s)
      PROVE  /\ sse' \in [pc : {"off", "history", "list", "again", "waiting"}, session : Maybe,
                          cursor : Nat, generation : Nat]
             /\ SseAt'
  BY <1>1, <1>2, <1>3, <1>4 DEF SseConnect, SseAt, NoWakeupIsLost, Maybe, Head0
<1>5. \A c \in Nat : \A s \in Sessions :
          /\ After(s, c, BatchLimit).lo = c /\ After(s, c, BatchLimit).hi \in Nat
          /\ After(s, c, BatchLimit).hi = c => Head0(s) = c
  BY <1>0, <1>2, MinOfTwo DEF After
<1>6. CASE SseHistory
  <2>1. sse.session \in Sessions
    BY <1>2, <1>6 DEF SseHistory, SseAt
  <2>2. sse' = [sse EXCEPT !.pc = "list", !.cursor = After(sse.session, sse.cursor, BatchLimit).hi]
    BY <1>6 DEF SseHistory
  <2>3. After(sse.session, sse.cursor, BatchLimit).hi \in Nat
    BY <1>1, <1>5, <2>1
  <2> QED
    BY <1>1, <1>2, <1>3, <2>1, <2>2, <2>3, LogStays
      DEF FeedInv, FeedTypeOK, Rows, SseAt, NoWakeupIsLost, Head0, desk
<1>7. CASE SseList
  <2>1. sse.session \in Sessions /\ sse.pc = "list"
    BY <1>2, <1>7 DEF SseList, SseAt
  <2> DEFINE page == After(sse.session, sse.cursor, BatchLimit)
  <2>2. page.lo = sse.cursor /\ page.hi \in Nat /\ (page.hi = sse.cursor => Head0(sse.session) = sse.cursor)
    BY <1>1, <1>5, <2>1
  <2>3. IF page.hi = page.lo THEN SseGoes("waiting")
        ELSE sse' = [sse EXCEPT !.pc = "again", !.cursor = page.hi]
    BY <1>7 DEF SseList
  <2> HIDE DEF page
  <2>4. CASE page.hi = page.lo
    <3>1. sse' = [sse EXCEPT !.pc = "waiting"] /\ Head0(sse.session) = sse.cursor
      BY <2>2, <2>3, <2>4 DEF SseGoes
    <3> QED
      BY <1>1, <1>2, <1>3, <2>1, <3>1, LogStays
        DEF FeedInv, FeedTypeOK, Rows, SseAt, NoWakeupIsLost, Head0, desk
  <2>5. CASE page.hi # page.lo
    BY <1>1, <1>2, <1>3, <2>1, <2>2, <2>3, <2>5, LogStays
      DEF FeedInv, FeedTypeOK, Rows, SseAt, NoWakeupIsLost, Head0, desk
  <2> QED
    BY <2>4, <2>5
<1>8. CASE SseAgain \/ SseWake
  <2>1. /\ sse' = [sse EXCEPT !.pc = "list", !.generation = notifier.generation]
        /\ sse.pc # "off"
    BY <1>8 DEF SseAgain, SseWake
  <2>2. /\ sse' \in [pc : {"off", "history", "list", "again", "waiting"}, session : Maybe,
                      cursor : Nat, generation : Nat]
        /\ sse'.pc = "list" /\ sse'.session \in Sessions
        /\ sse'.generation = notifier.generation
    BY <1>1, <1>2, <2>1 DEF SseAt
  <2>3. SseAt'
    BY <1>1, <1>2, <1>3, <2>2 DEF SseAt, NoWakeupIsLost, Head0
  <2> QED
    BY <1>3, <2>2, <2>3, LogStays DEF FeedInv, FeedTypeOK, Rows, desk
<1>9. CASE \E s \in Sessions : SseConnect(s)
  BY <1>3, <1>4, <1>9, LogStays DEF FeedInv, FeedTypeOK, Rows, desk
<1> QED
  BY <1>6, <1>7, <1>8, <1>9 DEF Sse

\* Two pages side by side, the one before first, list what both do.
LEMMA ListsJoin ==
    ASSUME NEW s, NEW a \in Nat, NEW b \in Nat, NEW c \in Nat, a <= b, b <= c,
           NEW f \in Seq(Nat), NEW g \in Seq(Nat), Lists(f, s, a, b), Lists(g, s, b, c)
    PROVE  Lists(f \o g, s, a, c) /\ f \o g \in Seq(Nat)
<1>1. /\ Len(f) \in Nat /\ Len(g) \in Nat /\ f \o g \in Seq(Nat) /\ Len(f \o g) = Len(f) + Len(g)
      /\ DOMAIN f = 1..Len(f) /\ DOMAIN g = 1..Len(g) /\ DOMAIN (f \o g) = 1..Len(f) + Len(g)
      /\ \A i \in 1..Len(f) : (f \o g)[i] = f[i]
      /\ \A i \in Len(f) + 1..Len(f) + Len(g) : (f \o g)[i] = g[i - Len(f)] /\ i - Len(f) \in 1..Len(g)
      /\ \A i \in 1..Len(g) : (f \o g)[i + Len(f)] = g[i] /\ i + Len(f) \in 1..Len(f) + Len(g)
  OBVIOUS
<1>2. Framed(s, a, c) = Framed(s, a, b) \cup Framed(s, b, c)
  BY DEF Framed
<1>3. ToSet(f \o g) = ToSet(f) \cup ToSet(g)
  <2>0. /\ DOMAIN f = 1..Len(f) /\ DOMAIN g = 1..Len(g)
        /\ DOMAIN (f \o g) = 1..Len(f) + Len(g)
    BY <1>1
  <2>1. ASSUME NEW i \in 1..Len(f) PROVE f[i] \in ToSet(f \o g)
    <3>1. i \in 1..Len(f) + Len(g) /\ (f \o g)[i] = f[i]
      BY <1>1
    <3> QED
      BY <2>0, <3>1 DEF ToSet
  <2>2. ASSUME NEW i \in 1..Len(g) PROVE g[i] \in ToSet(f \o g)
    <3>1. i + Len(f) \in 1..Len(f) + Len(g) /\ (f \o g)[i + Len(f)] = g[i]
      BY <1>1
    <3> QED
      BY <2>0, <3>1 DEF ToSet
  <2>3. ASSUME NEW i \in 1..Len(f) + Len(g) PROVE (f \o g)[i] \in ToSet(f) \cup ToSet(g)
    <3>1. CASE i <= Len(f)
      <4>1. (f \o g)[i] = f[i] /\ i \in 1..Len(f)
        BY <1>1, <3>1
      <4> QED
        BY <2>0, <4>1 DEF ToSet
    <3>2. CASE i > Len(f)
      <4>1. (f \o g)[i] = g[i - Len(f)] /\ i - Len(f) \in 1..Len(g)
        BY <1>1, <3>2
      <4> QED
        BY <2>0, <4>1 DEF ToSet
    <3> QED
      BY <1>1, <3>1, <3>2
  <2> QED
    BY <2>0, <2>1, <2>2, <2>3 DEF ToSet
<1>4. Increasing(f \o g)
  <2> SUFFICES ASSUME NEW i \in 1..Len(f) + Len(g), NEW j \in 1..Len(f) + Len(g), i < j
               PROVE  (f \o g)[i] < (f \o g)[j]
    BY <1>1 DEF Increasing
  <2>1. CASE j <= Len(f)
    <3>1. i \in 1..Len(f) /\ j \in 1..Len(f)
      BY <1>1, <2>1
    <3>2. f[i] < f[j]
      BY <1>1, <3>1 DEF Lists, Increasing
    <3> QED
      BY <1>1, <3>1, <3>2
  <2>2. CASE i > Len(f)
    <3>1. /\ (f \o g)[i] = g[i - Len(f)] /\ i - Len(f) \in 1..Len(g)
          /\ (f \o g)[j] = g[j - Len(f)] /\ j - Len(f) \in 1..Len(g) /\ i - Len(f) < j - Len(f)
      BY <1>1, <2>2
    <3>2. g[i - Len(f)] < g[j - Len(f)]
      BY <1>1, <3>1 DEF Lists, Increasing
    <3> QED
      BY <3>1, <3>2
  <2>3. CASE i <= Len(f) /\ j > Len(f)
    <3>1. /\ (f \o g)[i] = f[i] /\ i \in 1..Len(f)
          /\ (f \o g)[j] = g[j - Len(f)] /\ j - Len(f) \in 1..Len(g)
      BY <1>1, <2>3
    <3>2. f[i] \in Framed(s, a, b) /\ g[j - Len(f)] \in Framed(s, b, c)
      BY <1>1, <3>1 DEF Lists, ToSet
    <3>3. \A x \in Framed(s, a, b), y \in Framed(s, b, c) : x < y
      BY DEF Framed
    <3> QED
      BY <3>1, <3>2, <3>3
  <2> QED
    BY <1>1, <2>1, <2>2, <2>3
<1> QED
  BY <1>1, <1>2, <1>3, <1>4 DEF Lists

\* history.snapshot (handlers.py:2302-2352): a page begins where another ends.
LEMMA PagerKeeps ==
    ASSUME FeedInv, (\E s \in Sessions : PageLatest(s)) \/ PageOlder \/ PageForward
    PROVE  FeedInv'
<1>0. PageLimit \in Nat \ {0}
  BY FeedAssumption
<1>1. /\ pager \in [session : Maybe, seen : Seq(Nat), lo : Nat, hi : Nat]
      /\ pager.lo \in Nat /\ pager.hi \in Nat /\ pager.seen \in Seq(Nat)
      /\ (pager.session # Nowhere => pager.session \in Sessions)
  BY DEF FeedInv, FeedTypeOK, Rows, Maybe
<1>2. PagerAt /\ FeedTypeOK /\ \A s \in Sessions : Head0(s) \in Nat
  BY FeedFacts
<1>3. UNCHANGED <<reader, log, notifier, desk, sse, call>>
  BY DEF PageLatest, PageOlder, PageForward, desk
<1>4. SUFFICES /\ pager' \in [session : Maybe, seen : Seq(Nat), lo : Nat, hi : Nat]
               /\ PagerAt'
  BY <1>2, <1>3, LogStays DEF FeedInv, FeedTypeOK, Rows, desk
<1>5. \A s, lo, hi : Framed(s, lo, hi)' = Framed(s, lo, hi) /\ Head0(s)' = Head0(s)
  BY <1>3 DEF Framed, Head0
<1>8. CASE \E s \in Sessions : PageLatest(s)
  <2>1. PICK s \in Sessions : PageLatest(s)
    BY <1>8
  <2> DEFINE page == Latest(s)
  <2>2. page.hi = Head0(s) /\ page.lo \in Nat /\ page.hi \in Nat /\ page.lo <= page.hi
    BY <1>0, <1>2, PageBefore DEF Latest
  <2>3. Lists(Frames(s, page), s, page.lo, page.hi) /\ Frames(s, page) \in Seq(Nat)
    BY <2>2, FramesAre DEF Lists
  <2>4. pager' = [session |-> s, seen |-> Frames(s, page), lo |-> page.lo, hi |-> page.hi]
    BY <2>1 DEF PageLatest
  <2> HIDE DEF page
  <2>5. /\ pager'.session = s /\ pager'.lo = page.lo /\ pager'.hi = page.hi
        /\ pager'.seen = Frames(s, page)
        /\ pager' \in [session : Maybe, seen : Seq(Nat), lo : Nat, hi : Nat]
    BY <2>2, <2>3, <2>4 DEF Maybe
  <2> QED
    BY <1>5, <2>2, <2>3, <2>5 DEF PagerAt, Lists
<1>9. CASE PageOlder
  <2> DEFINE page == Before(pager.lo + 1, PageLimit)
  <2>1. pager.session \in Sessions /\ pager.lo > 0
    BY <1>1, <1>9 DEF PageOlder
  <2>2. page.hi = pager.lo /\ page.lo \in Nat /\ page.hi \in Nat /\ page.lo <= page.hi
    <3>1. pager.lo + 1 \in Nat \ {0} /\ (pager.lo + 1) - 1 = pager.lo
      BY <1>1
    <3> QED
      BY <1>0, <3>1, PageBefore
  <2>3. Lists(Frames(pager.session, page), pager.session, page.lo, page.hi)
        /\ Frames(pager.session, page) \in Seq(Nat)
    BY <2>2, FramesAre DEF Lists
  <2>4. pager' = [pager EXCEPT !.seen = Frames(pager.session, page) \o pager.seen, !.lo = page.lo]
    BY <1>9 DEF PageOlder
  <2> HIDE DEF page
  <2>5. pager.lo <= pager.hi /\ pager.hi <= Head0(pager.session)
        /\ Lists(pager.seen, pager.session, pager.lo, pager.hi)
    BY <1>1, <1>2, <2>1, FeedAssumption DEF PagerAt
  <2>6. Lists(Frames(pager.session, page) \o pager.seen, pager.session, page.lo, pager.hi)
        /\ Frames(pager.session, page) \o pager.seen \in Seq(Nat)
    BY <1>1, <2>2, <2>3, <2>5, ListsJoin
  <2>7. /\ pager'.session = pager.session /\ pager'.lo = page.lo /\ pager'.hi = pager.hi
        /\ pager'.seen = Frames(pager.session, page) \o pager.seen
        /\ pager' \in [session : Maybe, seen : Seq(Nat), lo : Nat, hi : Nat]
    BY <1>1, <2>2, <2>4, <2>6
  <2> QED
    BY <1>1, <1>5, <2>1, <2>2, <2>5, <2>6, <2>7, FeedAssumption DEF PagerAt, Lists
<1>10. CASE PageForward
  <2> DEFINE page == After(pager.session, pager.hi, PageLimit)
  <2>1. pager.session \in Sessions /\ pager.hi < Head0(pager.session)
    BY <1>1, <1>10 DEF PageForward
  <2>2. /\ page.lo = pager.hi /\ page.lo \in Nat /\ page.hi \in Nat /\ page.lo <= page.hi
        /\ page.hi <= Head0(pager.session)
    <3>1. pager.hi \in Nat /\ Head0(pager.session) \in Nat /\ pager.hi <= Head0(pager.session)
      BY <1>1, <1>2, <2>1
    <3> QED
      BY <1>0, <3>1, PageAfter
  <2>3. Lists(Frames(pager.session, page), pager.session, page.lo, page.hi)
        /\ Frames(pager.session, page) \in Seq(Nat)
    BY <2>2, FramesAre DEF Lists
  <2>4. pager' = [pager EXCEPT !.seen = pager.seen \o Frames(pager.session, page), !.hi = page.hi]
    BY <1>10 DEF PageForward, NextCursor
  <2> HIDE DEF page
  <2>5. pager.lo <= pager.hi /\ pager.hi <= Head0(pager.session)
        /\ Lists(pager.seen, pager.session, pager.lo, pager.hi)
    BY <1>1, <1>2, <2>1, FeedAssumption DEF PagerAt
  <2>6. Lists(pager.seen \o Frames(pager.session, page), pager.session, pager.lo, page.hi)
        /\ pager.seen \o Frames(pager.session, page) \in Seq(Nat)
    BY <1>1, <2>2, <2>3, <2>5, ListsJoin
  <2>7. /\ pager'.session = pager.session /\ pager'.lo = pager.lo /\ pager'.hi = page.hi
        /\ pager'.seen = pager.seen \o Frames(pager.session, page)
        /\ pager' \in [session : Maybe, seen : Seq(Nat), lo : Nat, hi : Nat]
    BY <1>1, <2>2, <2>4, <2>6
  <2> QED
    BY <1>1, <1>5, <2>1, <2>2, <2>5, <2>6, <2>7, FeedAssumption DEF PagerAt, Lists
<1> QED
  BY <1>8, <1>9, <1>10

CallRows == [pc : {"idle", "asked", "answered", "closing", "closed", "opening", "opened"},
             session : Maybe, other : Maybe, lo : Nat, hi : Nat]
Sockets  == [up : BOOLEAN, own : BOOLEAN, cursor : Nat, frames : Seq(Nat)]
Tabs     == [shown : Seq(Nat), from : Nat, resume : Nat, by : Calls \cup {Nowhere}, exact : BOOLEAN]

\* What the invariant says of the calls and of what they act on, at hand.
LEMMA CallsAreRows ==
    ASSUME FeedInv
    PROVE  /\ call \in [Calls -> CallRows] /\ bridge \in Seq(Calls) /\ opens \in 0..MaxOpens
           /\ streamed \in Maybe /\ tab \in [Sessions -> Tabs]
           /\ socket \in [Sessions -> Sockets]
           /\ flight \in [Sessions -> Seq(Nat)] /\ wake \in [Sessions -> Seq(Nat)]
           /\ \A c \in Calls : call[c].session \in Maybe /\ call[c].other \in Maybe
BY DEF FeedInv, FeedTypeOK, CallRows, Sockets, Tabs, Rows

\* A call that goes on, where nothing happens to what the sessions show.
LEMMA CallKeeps ==
    ASSUME FeedInv, UNCHANGED <<reader, log, notifier, socket, wake, flight, tab, sse, pager>>,
           streamed' \in Maybe, bridge' \in Seq(Calls), opens' \in 0..MaxOpens,
           NEW c \in Calls, NEW r \in CallRows, call' = [call EXCEPT ![c] = r],
           r.pc # "idle" => r.session \in Sessions,
           r.pc = "closing" => r.other \in Sessions,
           r.pc = "answered" => r.lo <= r.hi /\ r.hi <= Head0(r.session),
           r.pc \in Unserved \cup {"opened"} =>
               /\ r.session = call[c].session /\ call[c].pc \in Unserved \cup {"opened"}
               /\ r.pc \in Unserved =>
                     call[c].pc \in Unserved /\ r.hi \in {call[c].hi, tab[r.session].resume}
    PROVE  FeedInv'
<1>1. call \in [Calls -> CallRows] /\ FeedTypeOK
  BY CallsAreRows DEF FeedInv
<1>2. call' \in [Calls -> CallRows] /\ call'[c] = r /\ \A d \in Calls \ {c} : call'[d] = call[d]
  BY <1>1
<1>3. FeedTypeOK'
  BY <1>1, <1>2 DEF FeedTypeOK, CallRows, Rows
<1>4. ASSUME NEW d \in Calls PROVE CallAt(d)'
  <2>1. \A s : Head0(s)' = Head0(s)
    BY DEF Head0
  <2> QED
    BY <1>2, <2>1 DEF FeedInv, CallAt
<1>5. ASSUME NEW s \in Sessions PROVE OpeningAt(s)'
  <2>1. OpeningAt(s)
    BY DEF FeedInv
  <2> QED
    BY <1>2, <2>1 DEF OpeningAt, Unserved
<1> QED
  BY <1>3, <1>4, <1>5, StreamStays, LogStays DEF FeedInv

\* openSession begins (client.ts:322-329).
LEMMA OpenSessionKeeps ==
    ASSUME FeedInv, NEW c \in Calls, NEW s \in Sessions, OpenSession(c, s)
    PROVE  FeedInv'
<1> DEFINE r == [IdleCall EXCEPT !.pc = "asked", !.session = s]
<1>1. r \in CallRows /\ r.pc = "asked" /\ r.session = s
  BY DEF IdleCall, CallRows, Maybe
<1>2. opens' \in 0..MaxOpens
  BY FeedAssumption, CallsAreRows DEF OpenSession
<1>3. call' = [call EXCEPT ![c] = r] /\ UNCHANGED <<reader, log, notifier, socket, wake, flight, tab, sse, pager, streamed, bridge>>
  BY DEF OpenSession
<1> HIDE DEF r
<1> QED
  BY <1>1, <1>2, <1>3, CallsAreRows, CallKeeps DEF Unserved

\* The page is read (handlers.py:2302-2338): it ends at the head of the log.
LEMMA HistoryReadKeeps ==
    ASSUME FeedInv, NEW c \in Calls, HistoryRead(c)
    PROVE  FeedInv'
<1> DEFINE page == Latest(call[c].session)
           r == [call[c] EXCEPT !.pc = "answered", !.lo = page.lo, !.hi = page.hi]
<1>1. call[c] \in CallRows /\ call[c].pc = "asked" /\ call[c].session \in Sessions
  BY CallsAreRows DEF HistoryRead, FeedInv, CallAt
<1>2. page.hi = Head0(call[c].session) /\ page.lo \in Nat /\ page.hi \in Nat /\ page.lo <= page.hi
  BY <1>1, FeedFacts, FeedAssumption, PageBefore DEF Latest
<1>3. call' = [call EXCEPT ![c] = r]
  <2>1. call' = [call EXCEPT ![c].pc = "answered", ![c].lo = page.lo, ![c].hi = page.hi]
    BY DEF HistoryRead
  <2> HIDE DEF page
  <2> QED
    BY <1>1, <2>1, CallsAreRows DEF CallRows
<1>4. /\ r \in CallRows /\ r.pc = "answered" /\ r.session = call[c].session
      /\ r.lo = page.lo /\ r.hi = page.hi
  <2> HIDE DEF page
  <2> QED
    BY <1>1, <1>2 DEF CallRows
<1>5. UNCHANGED <<reader, log, notifier, socket, wake, flight, tab, sse, pager, streamed, bridge, opens>>
  BY DEF HistoryRead
<1> HIDE DEF r, page
<1>6. r.lo <= r.hi /\ r.hi <= Head0(r.session)
  BY <1>2, <1>4
<1> QED
  BY <1>1, <1>3, <1>4, <1>5, <1>6, CallsAreRows, CallKeeps DEF Unserved

\* The page does not come (native.ts:234-244).
LEMMA HistoryFailsKeeps ==
    ASSUME FeedInv, NEW c \in Calls, HistoryFails(c)
    PROVE  FeedInv'
<1>1. IdleCall \in CallRows /\ IdleCall.pc = "idle"
  BY DEF IdleCall, CallRows, Maybe
<1>2. /\ UNCHANGED <<reader, log, notifier, socket, wake, flight, tab, sse, pager, streamed, bridge, opens>>
      /\ call' = [call EXCEPT ![c] = IdleCall]
  BY DEF HistoryFails
<1> QED
  BY <1>1, <1>2, CallsAreRows, CallKeeps DEF Unserved

\* The other stream is closed (client.ts:346-352): the cursor is the one events left.
LEMMA SubscribeKeeps ==
    ASSUME FeedInv, NEW c \in Calls, Subscribe(c)
    PROVE  FeedInv'
<1> DEFINE hi == tab[call[c].session].resume
           r == [call[c] EXCEPT !.pc = "opening", !.hi = hi]
<1>1. call[c] \in CallRows /\ call[c].pc = "closed" /\ call[c].session \in Sessions
  BY CallsAreRows DEF Subscribe, FeedInv, CallAt
<1>2. hi \in Nat
  BY <1>1, FeedFacts
<1>3. call' = [call EXCEPT ![c] = r]
  <2>1. call' = [call EXCEPT ![c].pc = "opening", ![c].hi = hi]
    BY DEF Subscribe
  <2> HIDE DEF hi
  <2> QED
    BY <1>1, <2>1, CallsAreRows DEF CallRows
<1>4. r \in CallRows /\ r.pc = "opening" /\ r.session = call[c].session /\ r.hi = hi
  <2> HIDE DEF hi
  <2> QED
    BY <1>1, <1>2 DEF CallRows
<1>5. /\ UNCHANGED <<reader, log, notifier, socket, wake, flight, tab, sse, pager, opens>>
      /\ streamed' \in Maybe /\ bridge' \in Seq(Calls)
  BY CallsAreRows DEF Subscribe, Maybe
<1>6. r.hi = tab[r.session].resume
  <2> HIDE DEF r
  <2> QED
    BY <1>4
<1> HIDE DEF r, hi
<1> QED
  BY <1>1, <1>3, <1>4, <1>5, <1>6, CallsAreRows, CallKeeps DEF Unserved

\* The stream is open (client.ts:352-354).
LEMMA SubscribedKeeps ==
    ASSUME FeedInv, NEW c \in Calls, Subscribed(c)
    PROVE  FeedInv'
<1>1. IdleCall \in CallRows /\ IdleCall.pc = "idle"
  BY DEF IdleCall, CallRows, Maybe
<1>2. /\ UNCHANGED <<reader, log, notifier, socket, wake, flight, tab, sse, pager, bridge, opens>>
      /\ call' = [call EXCEPT ![c] = IdleCall] /\ streamed' \in Maybe
  BY CallsAreRows DEF Subscribed
<1> QED
  BY <1>1, <1>2, CallsAreRows, CallKeeps DEF Unserved

\* The page replaces what was shown, and nothing on its way continues it.
LEMMA LoadKeeps ==
    ASSUME FeedInv, NEW c \in Calls, Load(c)
    PROVE  FeedInv'
<1>1. PICK s \in Sessions : s = call[c].session
  BY DEF Load, FeedInv, CallAt
<1>2. PICK lo \in Nat, hi \in Nat :
         /\ lo = call[c].lo /\ hi = call[c].hi /\ lo <= hi /\ hi <= Head0(s)
         /\ call[c] \in CallRows /\ call[c].pc = "answered"
  BY <1>1, CallsAreRows, FeedFacts DEF Load, CallAt
<1>3. PICK f \in Seq(Nat) : /\ f = Frames(s, call[c]) /\ ToSet(f) = Framed(s, lo, hi)
                            /\ Increasing(f)
  BY <1>2, FramesAre
<1> DEFINE pc == IF streamed \in {Nowhere, s} THEN "opening" ELSE "closing"
           r  == [call[c] EXCEPT !.pc = pc, !.other = streamed]
           w  == [shown |-> f, from |-> lo, resume |-> hi, by |-> c, exact |-> TRUE]
<1>4. tab' = [tab EXCEPT ![s] = w]
  BY <1>1, <1>2, <1>3 DEF Load, Resume
<1>5. call' = [call EXCEPT ![c] = r]
  <2>1. call' = [call EXCEPT ![c].pc = pc, ![c].other = streamed, ![c].hi = hi]
    BY <1>1, <1>2 DEF Load, Resume
  <2> HIDE DEF pc
  <2> QED
    BY <1>2, <2>1, CallsAreRows DEF CallRows
<1>6. /\ UNCHANGED <<reader, log, notifier, streamed, opens, sse, pager>>
      /\ bridge' \in Seq(Calls)
      /\ socket' = [socket EXCEPT ![s].own = FALSE]
      /\ wake' = [wake EXCEPT ![s] = wake[s] \o flight[s]]
      /\ flight' = [flight EXCEPT ![s] = <<>>]
  BY <1>1, CallsAreRows DEF Load, Disown
<1>7. /\ r \in CallRows /\ r.pc = pc /\ r.session = s /\ r.other = streamed /\ r.hi = hi
      /\ pc \in {"opening", "closing"} /\ (pc = "closing" => streamed \in Sessions)
  <2>1. pc \in {"opening", "closing"} /\ (pc = "closing" => streamed \in Sessions)
    BY CallsAreRows DEF Maybe
  <2> HIDE DEF pc
  <2> QED
    BY <1>1, <1>2, <2>1, CallsAreRows DEF CallRows
<1> HIDE DEF r, pc
<1>9. /\ w \in Tabs /\ w.shown = f /\ w.from = lo /\ w.resume = hi /\ w.by = c /\ w.exact
  BY <1>2, <1>3 DEF Tabs
<1> HIDE DEF w
<1>8. /\ socket' \in [Sessions -> Sockets] /\ ~socket'[s].own
      /\ socket'[s].up = socket[s].up /\ socket'[s].frames = socket[s].frames
      /\ \A t \in Sessions \ {s} : socket'[t] = socket[t]
      /\ wake' \in [Sessions -> Seq(Nat)]
      /\ flight' \in [Sessions -> Seq(Nat)] /\ flight'[s] = <<>>
      /\ \A t \in Sessions \ {s} : flight'[t] = flight[t]
  <2>1. wake[s] \o flight[s] \in Seq(Nat) /\ <<>> \in Seq(Nat)
    BY CallsAreRows
  <2> QED
    BY <1>6, <2>1, CallsAreRows DEF Sockets
<1>10. /\ tab'[s] = w /\ \A t \in Sessions \ {s} : tab'[t] = tab[t]
       /\ tab' \in [Sessions -> Tabs]
       /\ call'[c] = r /\ \A d \in Calls \ {c} : call'[d] = call[d]
       /\ call' \in [Calls -> CallRows]
  BY <1>4, <1>5, <1>7, <1>9, CallsAreRows
<1>11. FeedTypeOK'
  BY <1>6, <1>8, <1>10 DEF FeedInv, FeedTypeOK, CallRows, Sockets, Tabs, Rows
<1>12. ASSUME NEW d \in Calls PROVE CallAt(d)'
  <2>1. \A t : Head0(t)' = Head0(t)
    BY <1>6 DEF Head0
  <2> QED
    BY <1>7, <1>10, <2>1 DEF FeedInv, CallAt
<1>13. ASSUME NEW t \in Sessions, t # s
       PROVE  LogAt(t)' /\ StreamAt(t)' /\ SocketAt(t)' /\ OpeningAt(t)'
  <2>1. OpeningAt(t)'
    <3>1. OpeningAt(t)
      BY DEF FeedInv
    <3>2. /\ tab'[t] = tab[t] /\ socket'[t] = socket[t] /\ flight'[t] = flight[t]
          /\ \A d \in Calls : call'[d].session = t => call'[d] = call[d]
      BY <1>7, <1>8, <1>10, <1>13
    <3> QED
      BY <3>1, <3>2 DEF OpeningAt
  <2> QED
    BY <1>6, <1>8, <1>10, <1>13, <2>1, StreamStays DEF FeedInv
<1>14. LogAt(s)' /\ SocketAt(s)'
  BY <1>6, <1>8 DEF FeedInv, LogAt, SocketAt, Head0
<1>15. OpeningAt(s)'
  BY <1>7, <1>8, <1>9, <1>10 DEF OpeningAt
<1>16. StreamAt(s)'
  <2>1. Underway(s)' = <<>> /\ Len(<<>>) = 0
    BY <1>8 DEF Underway, Pending
  <2>2. Framed(s, lo, hi)' = Framed(s, lo, hi) /\ Head0(s)' = Head0(s)
    BY <1>6 DEF Framed, Head0
  <2>3. /\ tab'[s].from = lo /\ tab'[s].resume = hi /\ tab'[s].shown = f
    BY <1>9, <1>10
  <2>4. Lists(tab[s].shown, s, tab[s].from, tab[s].resume)'
    BY <1>3, <1>6, <2>3 DEF Framed, Lists
  <2>5. Unbroken(s, tab[s].resume, Underway(s))'
    BY <2>1 DEF Unbroken
  <2> QED
    BY <1>2, <1>8, <2>1, <2>2, <2>3, <2>4, <2>5 DEF StreamAt
<1> QED
  BY <1>6, <1>11, <1>12, <1>13, <1>14, <1>15, <1>16, LogStays DEF FeedInv

\* A stream that sends no more to the page: what is on its way still arrives, and then
\* perhaps word of it; or it counts for one of before.
LEMMA StreamDown ==
    ASSUME FeedInv, NEW s \in Sessions, log' = log, tab'[s] = tab[s],
           ~socket'[s].own, ~socket'[s].up => socket'[s].frames = <<>>,
           \/ flight'[s] = flight[s]
           \/ socket[s].own /\ flight'[s] = Append(flight[s], 0)
           \/ flight'[s] = <<>>
    PROVE  LogAt(s)' /\ StreamAt(s)' /\ SocketAt(s)'
<1> DEFINE a == tab[s].resume
           g == flight[s]
           q == Underway(s)
<1>1. /\ g \in Seq(Nat) /\ Pending(s) \in Seq(Nat) /\ q = g \o Pending(s)
      /\ Len(g) \in Nat /\ Len(q) \in Nat /\ Len(g) <= Len(q)
      /\ \A i \in 1..Len(g) : q[i] = g[i]
  <2>1. \A u, v \in Seq(Nat) : /\ Len(u) \in Nat /\ Len(u \o v) \in Nat /\ Len(u) <= Len(u \o v)
                               /\ \A i \in 1..Len(u) : (u \o v)[i] = u[i]
    OBVIOUS
  <2>2. g \in Seq(Nat) /\ Pending(s) \in Seq(Nat)
    BY FeedFacts DEF Pending
  <2> QED
    BY <2>1, <2>2 DEF Underway
<1>2. LogAt(s)' /\ SocketAt(s)' /\ Head0(s)' = Head0(s)
  BY DEF FeedInv, LogAt, SocketAt, Head0
<1>3. Underway(s)' = flight'[s] /\ flight'[s] \in Seq(Nat)
  <2>1. flight'[s] \in Seq(Nat)
    <3>1. Append(g, 0) \in Seq(Nat)
      BY <1>1
    <3>2. <<>> \in Seq(Nat)
      OBVIOUS
    <3> QED
      BY <1>1, <3>1, <3>2
  <2>2. \A u \in Seq(Nat) : u \o <<>> = u
    OBVIOUS
  <2> QED
    BY <2>1, <2>2 DEF Underway, Pending
<1> SUFFICES ASSUME tab[s].exact PROVE StreamAt(s)'
  BY <1>2 DEF StreamAt
<1>4. StreamAt(s)
  BY DEF FeedInv
<1>5. Unbroken(s, a, g)
  BY <1>1, <1>4, UnbrokenPrefix DEF StreamAt
<1>6. \A i \in 1..Len(g) : g[i] = 0 => i = Len(g) /\ ~socket[s].own
  <2>1. \A i \in 1..Len(q) : q[i] = 0 => i = Len(q) /\ ~socket[s].own
    BY <1>4 DEF StreamAt
  <2> HIDE DEF q, g
  <2> QED
    BY <1>1, <2>1
<1>7. /\ Unbroken(s, a, flight'[s])
      /\ \A i \in 1..Len(flight'[s]) : flight'[s][i] = 0 => i = Len(flight'[s])
  <2>1. CASE flight'[s] = g
    BY <1>5, <1>6, <2>1
  <2>2. CASE socket[s].own /\ flight'[s] = Append(g, 0)
    <3>1. Unbroken(s, a, Append(g, 0))
      BY <1>1, <1>5, UnbrokenDown, FeedFacts
    <3>2. Len(Append(g, 0)) = Len(g) + 1 /\ \A i \in 1..Len(g) : Append(g, 0)[i] = g[i]
      BY <1>1
    <3> QED
      BY <1>1, <1>6, <2>2, <3>1, <3>2
  <2>3. CASE flight'[s] = <<>>
    <3>1. Len(<<>>) = 0
      OBVIOUS
    <3> QED
      BY <2>3, <3>1 DEF Unbroken
  <2> QED
    BY <2>1, <2>2, <2>3
<1>8. /\ tab'[s] = tab[s]
      /\ Framed(s, tab[s].from, tab[s].resume)' = Framed(s, tab[s].from, tab[s].resume)
      /\ Unbroken(s, tab[s].resume, Underway(s))'
  BY <1>3, <1>7 DEF Framed, Unbroken, Follows, Quiet, Head0
<1> QED
  BY <1>2, <1>3, <1>4, <1>7, <1>8 DEF StreamAt, Lists

\* closeStream or stream (native.ts:167-175): a stream begins where its page ended.
LEMMA ServeKeeps ==
    ASSUME FeedInv, NEW c \in Calls, Serve(c)
    PROVE  FeedInv'
<1>1. /\ UNCHANGED <<reader, log, notifier, tab, streamed, opens, sse, pager>>
      /\ bridge' \in Seq(Calls)
  BY CallsAreRows DEF Serve
<1>2. CASE call[c].pc = "closing"
  <2>1. PICK o \in Sessions : o = call[c].other
    BY <1>2 DEF FeedInv, CallAt
  <2> DEFINE r == [call[c] EXCEPT !.pc = "closed"]
  <2>2. /\ socket' = [socket EXCEPT ![o] = Closed] /\ call' = [call EXCEPT ![c] = r]
        /\ UNCHANGED <<wake, flight>>
    <3>1. /\ socket' = [socket EXCEPT ![o] = Closed] /\ call' = [call EXCEPT ![c].pc = "closed"]
          /\ UNCHANGED <<wake, flight>>
      BY <1>2, <2>1 DEF Serve, CallGoes
    <3> QED
      BY <3>1, CallsAreRows DEF CallRows
  <2>3. call[c] \in CallRows
    BY CallsAreRows
  <2>4. r \in CallRows /\ r.pc = "closed" /\ r.session = call[c].session /\ r.hi = call[c].hi
    BY <2>3 DEF CallRows
  <2> HIDE DEF r
  <2>5. /\ call'[c] = r /\ \A d \in Calls \ {c} : call'[d] = call[d]
        /\ call' \in [Calls -> CallRows]
        /\ socket'[o] = Closed /\ \A t \in Sessions \ {o} : socket'[t] = socket[t]
        /\ socket' \in [Sessions -> Sockets]
    BY <2>2, <2>4, CallsAreRows DEF Closed, Sockets
  <2>6. FeedTypeOK'
    BY <1>1, <2>2, <2>5 DEF FeedInv, FeedTypeOK, CallRows, Sockets, Tabs, Rows
  <2>7. ASSUME NEW d \in Calls PROVE CallAt(d)'
    <3>1. \A t : Head0(t)' = Head0(t)
      BY <1>1 DEF Head0
    <3> QED
      BY <1>2, <2>4, <2>5, <3>1 DEF FeedInv, CallAt
  <2>8. ASSUME NEW t \in Sessions PROVE OpeningAt(t)'
    <3>1. OpeningAt(t)
      BY DEF FeedInv
    <3>2. ~socket[t].own => ~socket'[t].own
      BY <2>5, SMTT(30) DEF Closed
    <3>3. \A d \in Calls : /\ call'[d].session = call[d].session /\ call'[d].hi = call[d].hi
                           /\ call'[d].pc \in Unserved => call[d].pc \in Unserved
      BY <1>2, <2>4, <2>5 DEF Unserved
    <3> QED
      BY <1>1, <2>2, <3>1, <3>2, <3>3 DEF OpeningAt
  <2>9. ASSUME NEW t \in Sessions PROVE LogAt(t)' /\ StreamAt(t)' /\ SocketAt(t)'
    <3>1. CASE t # o
      BY <1>1, <2>2, <2>5, <3>1, StreamStays DEF FeedInv
    <3>2. CASE t = o
      BY <1>1, <2>2, <2>5, <3>2, StreamDown DEF Closed
    <3> QED
      BY <3>1, <3>2
  <2> QED
    BY <1>1, <2>2, <2>6, <2>7, <2>8, <2>9, LogStays DEF FeedInv
<1>3. CASE call[c].pc = "opening"
  <2>1. PICK s \in Sessions : s = call[c].session
    BY <1>3 DEF FeedInv, CallAt
  <2> DEFINE r == [call[c] EXCEPT !.pc = "opened"]
             w == [up |-> TRUE, own |-> tab[s].by = c, cursor |-> call[c].hi, frames |-> <<>>]
  <2>2. /\ socket' = [socket EXCEPT ![s] = w] /\ call' = [call EXCEPT ![c] = r]
        /\ IF tab[s].by = c THEN UNCHANGED <<wake, flight>> ELSE Disown(s)
    <3>1. /\ socket' = [socket EXCEPT ![s] = w] /\ call' = [call EXCEPT ![c].pc = "opened"]
          /\ IF tab[s].by = c THEN UNCHANGED <<wake, flight>> ELSE Disown(s)
      BY <1>3, <2>1 DEF Serve, CallGoes
    <3> QED
      BY <3>1, CallsAreRows DEF CallRows
  <2>3. call[c] \in CallRows /\ call[c].hi \in Nat
    BY CallsAreRows, FeedFacts
  <2>4. /\ r \in CallRows /\ r.pc = "opened" /\ r.session = s
        /\ w \in Sockets /\ w.own = (tab[s].by = c)
        /\ w.up = TRUE /\ w.cursor = call[c].hi /\ w.frames = <<>>
    BY <2>1, <2>3 DEF CallRows, Sockets
  <2> HIDE DEF r, w
  <2>5. /\ call'[c] = r /\ \A d \in Calls \ {c} : call'[d] = call[d]
        /\ call' \in [Calls -> CallRows]
        /\ socket'[s] = w /\ \A t \in Sessions \ {s} : socket'[t] = socket[t]
        /\ socket' \in [Sessions -> Sockets]
    BY <2>2, <2>4, CallsAreRows
  <2>f. /\ wake' \in [Sessions -> Seq(Nat)] /\ flight' \in [Sessions -> Seq(Nat)]
        /\ \A t \in Sessions \ {s} : flight'[t] = flight[t]
        /\ tab[s].by = c => flight'[s] = flight[s]
        /\ tab[s].by # c => flight'[s] = <<>>
    <3>1. wake[s] \o flight[s] \in Seq(Nat) /\ <<>> \in Seq(Nat)
      BY CallsAreRows
    <3> QED
      BY <2>2, <3>1, CallsAreRows DEF Disown
  <2>6. FeedTypeOK'
    BY <1>1, <2>f, <2>5 DEF FeedInv, FeedTypeOK, CallRows, Sockets, Tabs, Rows
  <2>7. ASSUME NEW d \in Calls PROVE CallAt(d)'
    <3>1. \A t : Head0(t)' = Head0(t)
      BY <1>1 DEF Head0
    <3> QED
      BY <2>4, <2>5, <3>1 DEF FeedInv, CallAt
  <2>8. ASSUME NEW t \in Sessions, t # s
        PROVE  LogAt(t)' /\ StreamAt(t)' /\ SocketAt(t)' /\ OpeningAt(t)'
    <3>1. OpeningAt(t)
      BY DEF FeedInv
    <3>2. \A d \in Calls : call'[d].session = t => call'[d] = call[d]
      BY <2>4, <2>5, <2>8
    <3>3. /\ tab'[t] = tab[t] /\ socket'[t] = socket[t] /\ flight'[t] = flight[t]
          /\ \A d \in Calls : call'[d].session = t => call[d].session = t
      BY <1>1, <2>5, <2>f, <2>8, <3>2
    <3>4. OpeningAt(t)'
      <4> SUFFICES ASSUME tab[t].exact PROVE OpeningAt(t)'
        BY <3>3 DEF OpeningAt
      <4>2. ASSUME NEW d \in Calls, d = tab'[t].by, call'[d].session = t, call'[d].pc \in Unserved
            PROVE  ~socket'[t].own /\ flight'[t] = <<>> /\ call'[d].hi = tab'[t].resume
        <5>1. call'[d] = call[d]
          BY <3>2, <4>2
        <5> QED
          BY <3>1, <3>3, <4>2, <5>1 DEF OpeningAt
      <4> QED
        BY <4>2 DEF OpeningAt
    <3> QED
      BY <1>1, <2>5, <2>f, <2>8, <3>4, StreamStays DEF FeedInv
  <2>9. ASSUME tab[s].by # c PROVE LogAt(s)' /\ StreamAt(s)' /\ SocketAt(s)' /\ OpeningAt(s)'
    <3>1. ~socket'[s].own /\ socket'[s].frames = <<>> /\ flight'[s] = <<>>
      BY <2>4, <2>5, <2>f, <2>9
    <3>2. OpeningAt(s)
      BY DEF FeedInv
    <3>3. OpeningAt(s)'
      <4>1. \A d \in Calls : d = tab'[s].by => call'[d] = call[d]
        BY <1>1, <2>5, <2>9
      <4> QED
        BY <1>1, <3>1, <3>2, <4>1 DEF OpeningAt
    <3> QED
      BY <1>1, <3>1, <3>3, StreamDown
  <2>10. ASSUME tab[s].by = c PROVE LogAt(s)' /\ StreamAt(s)' /\ SocketAt(s)' /\ OpeningAt(s)'
    <3>1. LogAt(s)' /\ SocketAt(s)'
      BY <1>1, <2>4, <2>5, ZenonT(60) DEF FeedInv, LogAt, SocketAt, Head0
    <3>2. OpeningAt(s)'
      <4>1. call'[c].pc \notin Unserved /\ tab'[s].by = c
        BY <1>1, <2>4, <2>5, <2>10 DEF Unserved
      <4> QED
        BY <4>1 DEF OpeningAt
    <3>3. StreamAt(s)'
      <4> SUFFICES ASSUME tab[s].exact PROVE StreamAt(s)'
        BY <1>1 DEF StreamAt
      <4>1. OpeningAt(s) /\ StreamAt(s) /\ tab[s].resume \in Nat /\ Head0(s) \in Nat
        BY FeedFacts
      <4>2. flight[s] = <<>> /\ call[c].hi = tab[s].resume
        <5>1. c = tab[s].by /\ call[c].session = s /\ call[c].pc \in Unserved
          BY <1>3, <2>1, <2>10 DEF Unserved
        <5> QED
          BY <4>1, <5>1 DEF OpeningAt
      <4>3. Underway(s)' = <<>> /\ Len(<<>>) = 0
        BY <2>4, <2>5, <2>f, <2>10, <4>2 DEF Underway, Pending
      <4>4. Unbroken(s, tab[s].resume, Underway(s))'
        BY <4>3 DEF Unbroken
      <4>5. /\ Lists(tab[s].shown, s, tab[s].from, tab[s].resume)'
            /\ tab'[s] = tab[s] /\ Head0(s)' = Head0(s)
        BY <1>1, <4>1 DEF Framed, Head0, Lists, StreamAt
      <4>6. /\ socket'[s].cursor = tab[s].resume /\ tab[s].resume <= Head0(s)
            /\ End(tab[s].resume, Underway(s))' = tab[s].resume
        BY <1>1, <2>4, <2>5, <4>1, <4>2, <4>3 DEF End, StreamAt
      <4>7. Quiet(s, End(tab[s].resume, Underway(s)), socket[s].cursor)'
        BY <4>1, <4>6 DEF Quiet
      <4> QED
        BY <4>1, <4>3, <4>4, <4>5, <4>6, <4>7 DEF StreamAt
    <3> QED
      BY <3>1, <3>2, <3>3
  <2> QED
    BY <1>1, <2>f, <2>6, <2>7, <2>8, <2>9, <2>10, LogStays DEF FeedInv
<1> QED
  BY <1>2, <1>3 DEF Serve

\* Where only the streams of a session move.
LEMMA SocketKeeps ==
    ASSUME FeedInv, NEW s \in Sessions,
           UNCHANGED <<reader, log, notifier, call, bridge, opens, sse, pager>>,
           streamed' \in Maybe,
           socket' \in [Sessions -> Sockets],
           flight' \in [Sessions -> Seq(Nat)], wake' \in [Sessions -> Seq(Nat)],
           tab' \in [Sessions -> Tabs],
           \A t \in Sessions \ {s} :
              socket'[t] = socket[t] /\ flight'[t] = flight[t] /\ tab'[t] = tab[t],
           tab'[s].exact => /\ tab[s].exact /\ tab'[s].by = tab[s].by
                            /\ \/ socket[s].own \/ flight[s] # <<>>
                               \/ /\ ~socket'[s].own /\ flight'[s] = flight[s]
                                  /\ tab'[s].resume = tab[s].resume,
           StreamAt(s)', SocketAt(s)'
    PROVE  FeedInv'
<1>1. FeedTypeOK'
  BY DEF FeedInv, FeedTypeOK, Sockets, Tabs, Rows
<1>2. ASSUME NEW t \in Sessions, t # s
      PROVE  LogAt(t)' /\ StreamAt(t)' /\ SocketAt(t)' /\ OpeningAt(t)'
  <2>1. OpeningAt(t)'
    <3>1. OpeningAt(t)
      BY DEF FeedInv
    <3> QED
      BY <1>2, <3>1 DEF OpeningAt
  <2> QED
    BY <1>2, <2>1, StreamStays DEF FeedInv
<1>3. LogAt(s)'
  BY DEF FeedInv, LogAt, Head0
<1>4. OpeningAt(s)'
  BY DEF FeedInv, OpeningAt
<1> QED
  BY <1>1, <1>2, <1>3, <1>4, LogStays DEF FeedInv

\* A batch is read (handlers.py:2354-2369): its frames follow those under way.
LEMMA ReadBatchKeeps ==
    ASSUME FeedInv, NEW s \in Sessions, ReadBatch(s)
    PROVE  FeedInv'
<1>1. PICK c \in Nat, a \in Nat, g \in Seq(Nat) :
         /\ c = socket[s].cursor /\ a = tab[s].resume /\ g = flight[s]
         /\ socket[s].up /\ socket[s].frames = <<>> /\ c < Head0(s) /\ Head0(s) \in Nat
  BY FeedFacts DEF ReadBatch
<1>2. PICK h \in Nat : /\ h = After(s, c, BatchLimit).hi /\ c = After(s, c, BatchLimit).lo
                       /\ c <= h /\ h <= Head0(s)
  <2>1. BatchLimit \in Nat \ {0} /\ c <= Head0(s)
    BY <1>1, FeedAssumption
  <2> QED
    BY <1>1, <2>1, PageAfter
<1>3. PICK f \in Seq(Framed(s, c, h)) :
         /\ f = Frames(s, After(s, c, BatchLimit)) /\ f \in Seq(Nat)
         /\ ToSet(f) = Framed(s, c, h) /\ Increasing(f)
  BY <1>2, FramesAre
<1>4. socket' = [socket EXCEPT ![s].frames = f, ![s].cursor = h]
  BY <1>1, <1>2, <1>3 DEF ReadBatch, NextCursor
<1>5. UNCHANGED <<reader, log, notifier, wake, flight, tab, streamed, call, bridge, opens, sse, pager>>
  BY DEF ReadBatch
<1>6. /\ socket' \in [Sessions -> Sockets]
      /\ \A t \in Sessions \ {s} : socket'[t] = socket[t]
      /\ socket'[s].up = socket[s].up /\ socket'[s].own = socket[s].own
      /\ socket'[s].cursor = h /\ socket'[s].frames = f
  BY <1>3, <1>4, CallsAreRows DEF Sockets
<1>8. SocketAt(s)'
  BY <1>1, <1>6 DEF FeedInv, SocketAt
<1>n. CASE ~socket[s].own
  <2>1. StreamAt(s)'
    BY <1>5, <1>6, <1>n, StreamStays DEF FeedInv
  <2> QED
    BY <1>1, <1>5, <1>6, <1>8, <1>n, <2>1, SocketKeeps, CallsAreRows
<1>o. SUFFICES ASSUME socket[s].own PROVE FeedInv'
  BY <1>n
<1>7. Underway(s) = g /\ Underway(s)' = g \o f /\ Head0(s)' = Head0(s)
  BY <1>1, <1>5, <1>6, <1>o DEF Underway, Pending, Head0
<1>9. StreamAt(s)'
  <2> SUFFICES ASSUME tab[s].exact PROVE StreamAt(s)'
    BY <1>5 DEF StreamAt
  <2>1. StreamAt(s)
    BY DEF FeedInv
  <2>2. /\ Unbroken(s, a, g) /\ \A i \in 1..Len(g) : g[i] # 0
        /\ End(a, g) <= c /\ Quiet(s, End(a, g), c)
    BY <1>1, <1>7, <1>o, <2>1 DEF StreamAt
  <2>3. /\ Unbroken(s, a, g \o f) /\ \A i \in 1..Len(g \o f) : (g \o f)[i] # 0
        /\ End(a, g \o f) <= h /\ Quiet(s, End(a, g \o f), h)
    <3>1. Framed(s, c, h) = ToSet(f) /\ f \in Seq(Framed(s, c, h)) /\ Increasing(f)
      BY <1>3
    <3>2. c \in Nat /\ a \in Nat /\ h \in Nat /\ c <= h /\ h <= Head0(s) /\ Head0(s) \in Nat
      BY <1>1, <1>2
    <3> QED
      BY <2>2, <3>1, <3>2, UnbrokenBatch
  <2>4. /\ tab' = tab /\ a = tab'[s].resume
        /\ Framed(s, tab[s].from, tab[s].resume)' = Framed(s, tab[s].from, tab[s].resume)
    BY <1>1, <1>5 DEF Framed
  <2>5. /\ Unbroken(s, tab[s].resume, Underway(s))'
        /\ End(tab[s].resume, Underway(s))' = End(a, g \o f)
        /\ Quiet(s, End(tab[s].resume, Underway(s)), socket[s].cursor)'
    <3>1. \A x, y : Unbroken(s, x, y)' = Unbroken(s, x, y) /\ Quiet(s, x, y)' = Quiet(s, x, y)
      BY <1>5 DEF Unbroken, Follows, Quiet, Head0
    <3>2. End(tab[s].resume, Underway(s))' = End(a, g \o f)
      BY <1>7, <2>4 DEF End
    <3>3. Unbroken(s, tab[s].resume, Underway(s))'
      BY <1>5, <1>7, <2>3, <2>4, <3>1, ZenonT(60) DEF Unbroken, Follows, Quiet, Head0
    <3>4. Quiet(s, End(tab[s].resume, Underway(s)), socket[s].cursor)'
      BY <1>5, <1>6, <2>3, <3>2 DEF Quiet
    <3> QED
      BY <3>2, <3>3, <3>4
  <2> QED
    BY <1>2, <1>5, <1>6, <1>7, <2>1, <2>3, <2>4, <2>5 DEF StreamAt, Lists
<1> QED
  BY <1>1, <1>5, <1>6, <1>8, <1>9, <1>o, SocketKeeps, CallsAreRows

\* A frame is sent on (app.py:382-403).
LEMMA SendFrameKeeps ==
    ASSUME FeedInv, NEW s \in Sessions, SendFrame(s)
    PROVE  FeedInv'
<1>1. PICK f \in Seq(Nat), g \in Seq(Nat) :
         f = socket[s].frames /\ g = flight[s] /\ f # <<>>
  BY FeedFacts DEF SendFrame
<1>2. Tail(f) \in Seq(Nat) /\ Head(f) \in Nat
  BY <1>1
<1>3. /\ socket' = [socket EXCEPT ![s].frames = Tail(f)] /\ SentOn(s, Head(f))
      /\ UNCHANGED <<reader, log, notifier, tab, streamed, call, bridge, opens, sse, pager>>
  BY <1>1 DEF SendFrame
<1>4. /\ socket' \in [Sessions -> Sockets]
      /\ \A t \in Sessions \ {s} : socket'[t] = socket[t]
      /\ socket'[s].up = socket[s].up /\ socket'[s].cursor = socket[s].cursor
      /\ socket'[s].own = socket[s].own /\ socket'[s].frames = Tail(f)
  BY <1>2, <1>3, CallsAreRows DEF Sockets
<1>5. socket[s].up /\ SocketAt(s)'
  BY <1>1, <1>4 DEF FeedInv, SocketAt
<1>6. CASE ~socket[s].own
  <2>1. wake' = [wake EXCEPT ![s] = Append(wake[s], Head(f))] /\ flight' = flight
    BY <1>3, <1>6 DEF SentOn
  <2>2. wake' \in [Sessions -> Seq(Nat)] /\ flight' \in [Sessions -> Seq(Nat)]
    <3>1. Append(wake[s], Head(f)) \in Seq(Nat)
      BY <1>2, CallsAreRows
    <3> QED
      BY <2>1, <3>1, CallsAreRows
  <2>3. StreamAt(s)'
    BY <1>3, <1>4, <1>6, <2>1, StreamStays DEF FeedInv
  <2> QED
    BY <1>3, <1>4, <1>5, <1>6, <2>1, <2>2, <2>3, SocketKeeps, CallsAreRows
<1>7. CASE socket[s].own
  <2>1. /\ flight' = [flight EXCEPT ![s] = Append(g, Head(f))] /\ wake' = wake
        /\ Append(g, Head(f)) \in Seq(Nat)
    BY <1>1, <1>2, <1>3, <1>7 DEF SentOn
  <2>2. /\ wake' \in [Sessions -> Seq(Nat)] /\ flight' \in [Sessions -> Seq(Nat)]
        /\ flight'[s] = Append(g, Head(f))
        /\ \A t \in Sessions \ {s} : flight'[t] = flight[t]
    BY <2>1, CallsAreRows
  <2>3. Underway(s)' = Underway(s)
    <3>1. Append(g, Head(f)) \o Tail(f) = g \o f
      BY <1>1, HeadMoves
    <3> QED
      BY <1>1, <1>4, <1>7, <2>2, <3>1 DEF Underway, Pending
  <2>4. StreamAt(s)'
    <3>1. StreamAt(s) /\ Head0(s)' = Head0(s)
      BY <1>3 DEF FeedInv, Head0
    <3>2. \A b, c : Framed(s, b, c)' = Framed(s, b, c) /\ Quiet(s, b, c)' = Quiet(s, b, c)
      BY <1>3 DEF Framed, Quiet
    <3>3. \A b, q : Unbroken(s, b, q)' = Unbroken(s, b, q)
      BY <1>3 DEF Unbroken, Follows, Quiet, Head0
    <3> QED
      BY <1>3, <1>4, <2>3, <3>1, <3>2, <3>3 DEF StreamAt, Lists
  <2> QED
    BY <1>3, <1>4, <1>5, <1>7, <2>2, <2>4, SocketKeeps, CallsAreRows
<1> QED
  BY <1>6, <1>7

\* The socket closes (wire.ts:98-109): what was not sent on is lost with it.
LEMMA DropKeeps ==
    ASSUME FeedInv, NEW s \in Sessions, Drop(s)
    PROVE  FeedInv'
<1>1. /\ socket[s].up /\ socket' = [socket EXCEPT ![s] = Closed] /\ SentOn(s, 0)
      /\ UNCHANGED <<reader, log, notifier, tab, streamed, call, bridge, opens, sse, pager>>
  BY DEF Drop
<1>2. Append(flight[s], 0) \in Seq(Nat) /\ Append(wake[s], 0) \in Seq(Nat)
  BY CallsAreRows
<1>3. /\ socket' \in [Sessions -> Sockets]
      /\ \A t \in Sessions \ {s} : socket'[t] = socket[t]
      /\ ~socket'[s].up /\ ~socket'[s].own /\ socket'[s].frames = <<>>
  BY <1>1, CallsAreRows DEF Closed, Sockets
<1>4. /\ wake' \in [Sessions -> Seq(Nat)] /\ flight' \in [Sessions -> Seq(Nat)]
      /\ \A t \in Sessions \ {s} : flight'[t] = flight[t]
      /\ socket[s].own => flight'[s] = Append(flight[s], 0)
      /\ ~socket[s].own => flight'[s] = flight[s]
  <2>1. CASE socket[s].own
    BY <1>1, <1>2, <2>1, CallsAreRows DEF SentOn
  <2>2. CASE ~socket[s].own
    BY <1>1, <1>2, <2>2, CallsAreRows DEF SentOn
  <2> QED
    BY <2>1, <2>2
<1>5. StreamAt(s)' /\ SocketAt(s)'
  BY <1>1, <1>3, <1>4, StreamDown
<1> QED
  BY <1>1, <1>3, <1>4, <1>5, SocketKeeps, CallsAreRows

\* A frame of a stream of before may have been shown, and ends what is said of the page.
LEMMA StrayKeeps ==
    ASSUME FeedInv, NEW s \in Sessions, Receive(s), wake[s] # <<>>
    PROVE  FeedInv'
<1>1. PICK n \in Nat : n = Head(wake[s])
  BY CallsAreRows
<1>2. /\ Shown(s, n, FALSE) /\ wake' = [wake EXCEPT ![s] = Tail(@)]
      /\ UNCHANGED <<reader, log, notifier, socket, flight, call, bridge, opens, sse, pager>>
  BY <1>1 DEF Receive
<1>3. Tail(wake[s]) \in Seq(Nat)
  BY CallsAreRows
<1>4. wake' \in [Sessions -> Seq(Nat)] /\ SocketAt(s)'
  BY <1>2, <1>3, CallsAreRows DEF FeedInv, SocketAt
<1>5. CASE n = 0
  <2>1. streamed' = Nowhere /\ tab' = tab
    BY <1>2, <1>5 DEF Shown
  <2>2. StreamAt(s)'
    BY <1>2, <2>1, StreamStays DEF FeedInv
  <2>3. tab[s].exact => socket[s].own \/ (~socket'[s].own /\ flight'[s] = flight[s])
    BY <1>2
  <2> QED
    BY <1>2, <1>4, <2>1, <2>2, <2>3, SocketKeeps, CallsAreRows DEF Maybe
<1>6. CASE n # 0
  <2>1. /\ tab' = [tab EXCEPT ![s].shown = Append(tab[s].shown, n), ![s].resume = n,
                              ![s].exact = FALSE]
        /\ streamed' = streamed
    BY <1>2, <1>6 DEF Shown
  <2>2. Append(tab[s].shown, n) \in Seq(Nat)
    BY FeedFacts
  <2>3. /\ tab' \in [Sessions -> Tabs] /\ ~tab'[s].exact
        /\ \A t \in Sessions \ {s} : tab'[t] = tab[t]
    BY <2>1, <2>2, CallsAreRows DEF Tabs
  <2>4. StreamAt(s)'
    BY <2>3 DEF StreamAt
  <2> QED
    BY <1>2, <1>4, <2>1, <2>3, <2>4, SocketKeeps, CallsAreRows
<1> QED
  BY <1>5, <1>6

\* The next frame is the one after the cursor.
LEMMA ReceiveKeeps ==
    ASSUME FeedInv, NEW s \in Sessions, Receive(s)
    PROVE  FeedInv'
<1>w. SUFFICES ASSUME wake[s] = <<>> PROVE FeedInv'
  BY StrayKeeps
<1>1. PICK g \in Seq(Nat), a \in Nat, v \in Seq(Nat), lo \in Nat :
         /\ g = flight[s] /\ g # <<>> /\ a = tab[s].resume /\ v = tab[s].shown
         /\ lo = tab[s].from
  BY <1>w, FeedFacts DEF Receive
<1>2. PICK n \in Nat : n = g[1] /\ n = Head(g)
  BY <1>1
<1>3. /\ flight' = [flight EXCEPT ![s] = Tail(g)]
      /\ UNCHANGED <<reader, log, notifier, socket, wake, call, bridge, opens, sse, pager>>
      /\ Shown(s, n, TRUE)
  BY <1>1, <1>2, <1>w DEF Receive
<1>4. Tail(g) \in Seq(Nat) /\ Append(v, n) \in Seq(Nat)
  BY <1>1
<1>5. /\ flight' \in [Sessions -> Seq(Nat)] /\ flight'[s] = Tail(g)
      /\ \A t \in Sessions \ {s} : flight'[t] = flight[t]
  BY <1>3, <1>4, CallsAreRows
<1>6. PICK f \in Seq(Nat) : f = Pending(s)
  <2>1. Pending(s) \in Seq(Nat)
    BY FeedFacts DEF Pending
  <2> QED
    BY <2>1
<1>7. PICK q \in Seq(Nat) : /\ q = Underway(s) /\ q # <<>> /\ q[1] = n
                            /\ Underway(s)' = Tail(q)
  <2>1. g \o f \in Seq(Nat) /\ g \o f # <<>> /\ (g \o f)[1] = g[1] /\ Tail(g) \o f = Tail(g \o f)
    <3>1. \A u \in Seq(Nat), w \in Seq(Nat) : u # <<>> =>
             u \o w \in Seq(Nat) /\ u \o w # <<>> /\ (u \o w)[1] = u[1]
      OBVIOUS
    <3>2. Tail(g) \o f = Tail(g \o f)
      BY <1>1, HeadMoves
    <3> QED
      BY <1>1, <3>1, <3>2
  <2> QED
    BY <1>1, <1>2, <1>3, <1>5, <1>6, <2>1 DEF Underway, Pending
<1>8. SocketAt(s)'
  BY <1>3 DEF FeedInv, SocketAt
<1>9. \A x, y : Framed(s, x, y)' = Framed(s, x, y) /\ Quiet(s, x, y)' = Quiet(s, x, y)
  BY <1>3 DEF Framed, Quiet
<1>10. \A x, y : Unbroken(s, x, y)' = Unbroken(s, x, y)
  BY <1>3 DEF Unbroken, Follows, Quiet, Head0
<1>11. Head0(s)' = Head0(s) /\ Head0(s) \in Nat
  BY <1>3, FeedFacts DEF Head0
<1>12. CASE n = 0
  <2>1. streamed' = Nowhere /\ tab' = tab
    BY <1>3, <1>12 DEF Shown
  <2>2. StreamAt(s)'
    <3> SUFFICES ASSUME tab[s].exact PROVE StreamAt(s)'
      BY <2>1 DEF StreamAt
    <3>1. StreamAt(s)
      BY DEF FeedInv
    <3>2. Len(q) = 1 /\ ~socket[s].own
      <4>1. \A i \in 1..Len(q) : q[i] = 0 => i = Len(q) /\ ~socket[s].own
        BY <1>7, <3>1 DEF StreamAt
      <4>2. 1 \in 1..Len(q) /\ q[1] = 0
        BY <1>7, <1>12
      <4> QED
        BY <4>1, <4>2
    <3>3. Tail(q) = <<>> /\ Len(<<>>) = 0
      <4>1. Tail(q) \in Seq(Nat) /\ Len(Tail(q)) = 0
        BY <1>7, <3>2
      <4>2. \A u \in Seq(Nat) : Len(u) = 0 => u = <<>>
        OBVIOUS
      <4> QED
        BY <4>1, <4>2
    <3>4. Underway(s)' = <<>> /\ Unbroken(s, tab[s].resume, Underway(s))'
      <4>1. Underway(s)' = <<>>
        BY <1>7, <3>3
      <4>2. \A i \in 1..0 : FALSE
        OBVIOUS
      <4> QED
        BY <3>3, <4>1, <4>2 DEF Unbroken
    <3>5. /\ tab'[s] = tab[s] /\ socket'[s] = socket[s]
          /\ Lists(tab[s].shown, s, tab[s].from, tab[s].resume)'
      BY <1>3, <2>1, <3>1 DEF Framed, Lists, StreamAt
    <3> QED
      BY <1>11, <3>1, <3>2, <3>3, <3>4, <3>5 DEF StreamAt
  <2> QED
    BY <1>1, <1>3, <1>5, <1>8, <2>1, <2>2, SocketKeeps, CallsAreRows DEF Maybe
<1>13. CASE n # 0
  <2>1. tab' = [tab EXCEPT ![s].shown = Append(v, n), ![s].resume = n, ![s].exact = @ /\ TRUE] /\ UNCHANGED streamed
    BY <1>1, <1>3, <1>13 DEF Shown
  <2>2. /\ tab' \in [Sessions -> Tabs]
        /\ \A t \in Sessions \ {s} : tab'[t] = tab[t]
        /\ tab'[s].shown = Append(v, n) /\ tab'[s].resume = n /\ tab'[s].from = lo
        /\ tab'[s].exact = tab[s].exact /\ tab'[s].by = tab[s].by
    BY <1>1, <1>4, <2>1, CallsAreRows DEF Tabs
  <2>3. StreamAt(s)'
    <3> SUFFICES ASSUME tab[s].exact PROVE StreamAt(s)'
      BY <2>2 DEF StreamAt
    <3>1. StreamAt(s)
      BY DEF FeedInv
    <3>2. /\ lo <= a /\ a <= Head0(s) /\ ToSet(v) = Framed(s, lo, a) /\ Increasing(v)
          /\ Unbroken(s, a, q)
          /\ \A i \in 1..Len(q) : q[i] = 0 => i = Len(q) /\ ~socket[s].own
          /\ socket[s].own => /\ End(a, q) <= socket[s].cursor
                             /\ socket[s].cursor <= Head0(s)
                             /\ Quiet(s, End(a, q), socket[s].cursor)
      BY <1>1, <1>7, <3>1 DEF StreamAt, Lists
    <3>3. /\ Unbroken(s, n, Tail(q)) /\ End(n, Tail(q)) = End(a, q)
          /\ a < n /\ n <= Head0(s) /\ log[s][n] # 0 /\ \A x \in a + 1..n - 1 : log[s][x] = 0
      BY <1>7, <1>13, <3>2, UnbrokenTail DEF Follows, Quiet
    <3>4. Framed(s, lo, n) = Framed(s, lo, a) \cup {n}
      <4>1. \A x \in lo + 1..n : x \in lo + 1..a \/ x \in a + 1..n - 1 \/ x = n
        BY <3>2, <3>3
      <4>2. n \in lo + 1..n /\ \A x \in lo + 1..a : x \in lo + 1..n
        BY <3>2, <3>3
      <4>3. \A x \in a + 1..n - 1 : log[s][x] = 0
        BY <3>3
      <4> QED
        BY <3>3, <4>1, <4>2, <4>3 DEF Framed
    <3>5. v \in Seq(Framed(s, lo, a))
      BY <3>2 DEF ToSet
    <3>6. ToSet(Append(v, n)) = Framed(s, lo, n) /\ Increasing(Append(v, n))
      <4>1. \A x \in Framed(s, lo, a) : x \in Nat /\ x <= a
        BY DEF Framed
      <4> QED
        <5>1. v \in Seq(0..a) /\ a < n
          BY <3>3, <3>5, <4>1
        <5> QED
          BY <3>2, <3>4, <5>1, AppendLists
    <3>7. \A i \in 1..Len(Tail(q)) : Tail(q)[i] = 0 => i = Len(Tail(q)) /\ ~socket[s].own
      <4>1. Len(Tail(q)) = Len(q) - 1 /\ \A i \in 1..Len(q) - 1 : Tail(q)[i] = q[i + 1]
        BY <1>7
      <4>2. Len(q) \in Nat
        OBVIOUS
      <4> QED
        BY <3>2, <4>1, <4>2
    <3>8. lo <= n
      BY <3>2, <3>3
    <3>9. /\ Framed(s, tab[s].from, tab[s].resume)' = Framed(s, lo, n)
          /\ Unbroken(s, tab[s].resume, Underway(s))'
          /\ End(tab[s].resume, Underway(s))' = End(a, q)
      <4>1. \A x, y : Unbroken(s, x, y)' = Unbroken(s, x, y)
        BY <1>10
      <4>2. Framed(s, tab[s].from, tab[s].resume)' = Framed(s, lo, n)
        BY <1>3, <2>2 DEF Framed
      <4>3. Unbroken(s, tab[s].resume, Underway(s))'
        <5>1. \A b, c : Follows(s, b, c)' = Follows(s, b, c)
          BY <1>3 DEF Follows, Quiet, Head0
        <5>2. \A i \in 1..Len(Tail(q)) : Tail(q)[i] # 0 =>
                 Follows(s, IF i = 1 THEN n ELSE Tail(q)[i - 1], Tail(q)[i])'
          BY <1>3, <3>3 DEF Unbroken, Follows, Quiet, Head0
        <5> QED
          BY <1>7, <2>2, <5>2 DEF Unbroken
      <4>4. End(tab[s].resume, Underway(s))' = End(n, Tail(q))
        BY <1>7, <2>2 DEF End
      <4> QED
        BY <3>3, <4>2, <4>3, <4>4
    <3>10. socket'[s] = socket[s] /\ (socket[s].own => Quiet(s, End(tab[s].resume, Underway(s)), socket[s].cursor)')
      BY <1>3, <3>2, <3>9 DEF Quiet
    <3> QED
      BY <1>7, <1>11, <2>2, <3>2, <3>3, <3>6, <3>7, <3>8, <3>9, <3>10 DEF StreamAt, Lists
  <2> QED
    BY <1>1, <1>3, <1>5, <1>8, <2>1, <2>2, <2>3, SocketKeeps, CallsAreRows
<1> QED
  BY <1>12, <1>13

-----------------------------------------------------------------------------
(* Theorems *)

\* Every step keeps the invariant.
LEMMA FeedKeeps == FeedInv /\ [FeedNext]_feedVars => FeedInv'
<1> SUFFICES ASSUME FeedInv, [FeedNext]_feedVars PROVE FeedInv'
  OBVIOUS
<1>1. CASE UNCHANGED feedVars
  BY <1>1, LogStays DEF feedVars, FeedInv, FeedTypeOK, desk
<1>2. ASSUME NEW s \in Sessions,
             AppendEvent(s) \/ ReadBatch(s) \/ SendFrame(s) \/ Drop(s) \/ Receive(s)
      PROVE  FeedInv'
  BY <1>2, AppendEventKeeps, ReadBatchKeeps, SendFrameKeeps, DropKeeps, ReceiveKeeps
<1>3. ASSUME NEW s \in Sessions, NEW c \in Calls, OpenSession(c, s)
      PROVE  FeedInv'
  BY <1>3, OpenSessionKeeps
<1>4. ASSUME NEW c \in Calls, CallStep(c) \/ HistoryFails(c)
      PROVE  FeedInv'
  BY <1>4, HistoryReadKeeps, HistoryFailsKeeps, LoadKeeps, ServeKeeps, SubscribeKeeps,
     SubscribedKeeps DEF CallStep
<1>5. CASE Notify \/ Sse \/ PageOlder \/ PageForward
           \/ \E s \in Sessions : SseConnect(s) \/ PageLatest(s)
  BY <1>5, NotifyKeeps, SseKeeps, PagerKeeps
<1> QED
  BY <1>1, <1>2, <1>3, <1>4, <1>5 DEF FeedNext

\* So it holds always.
LEMMA FeedHolds == FeedSpec => []FeedInv
BY FeedStarts, FeedKeeps, PTL DEF FeedSpec

\* Every variable of the event log and its readers has its type, for any number of sessions,
\* calls, rows, and any page and batch size.
THEOREM FeedTypes == FeedSpec => []FeedTypeOK
<1>1. FeedInv => FeedTypeOK
  BY DEF FeedInv
<1> QED
  BY <1>1, FeedHolds, PTL

\* The SSE route reads the generation before the log (app.py:331-348, notifier.py:12-24), so
\* it never sleeps on one whose events it has not seen: no wakeup is lost.
THEOREM WakeupsAreKept == FeedSpec => []NoWakeupIsLost
<1>1. FeedInv => NoWakeupIsLost
  BY DEF FeedInv, SseAt
<1> QED
  BY <1>1, FeedHolds, PTL

\* The page a client reads ends where its stream begins, and a batch where the next one does
\* (client.ts:341-342, handlers.py:2340-2342 and 2368-2369): a reader is shown every frame
\* between where it began and its cursor, once, in order and with no number left out; the
\* desktop from each page until it is handed a frame of a stream the page does not end in,
\* one that was there before and not yet replaced, or of an openSession that overlaps.
THEOREM FeedLosesNothing == FeedSpec => []FeedIsExact
<1>1. FeedInv => FeedIsExact
  <2> SUFFICES ASSUME FeedInv PROVE FeedIsExact
    OBVIOUS
  <2>1. ASSUME NEW s \in Sessions, tab[s].exact
        PROVE  /\ Lists(tab[s].shown, s, tab[s].from, tab[s].resume)
               /\ \A i \in 1..Len(tab[s].shown) - 1 :
                     log[s][tab[s].shown[i + 1]] = log[s][tab[s].shown[i]] + 1
    <3>1. PICK g \in Seq(Nat), v \in Seq(Nat), lo \in Nat, hi \in Nat :
             /\ g = log[s] /\ v = tab[s].shown /\ lo = tab[s].from /\ hi = tab[s].resume
             /\ hi <= Len(g) /\ ToSet(v) = Framed(s, lo, hi) /\ Increasing(v)
      BY <2>1, FeedFacts DEF StreamAt, Lists, Head0
    <3>2. PICK m \in Nat : {0} \cup ToSet(g) = 0..m
      BY <3>1, FeedFacts DEF LogAt
    <3>3. \A i, j \in 1..Len(g) : i < j /\ g[j] # 0 => g[i] < g[j]
      BY <3>1, FeedFacts DEF LogAt, Head0
    <3>4. /\ DOMAIN v = 1..Len(v) /\ Len(v) \in Nat /\ DOMAIN g = 1..Len(g) /\ Len(g) \in Nat
          /\ \A i \in 1..Len(g) : g[i] \in Nat
      OBVIOUS
    <3>5. ASSUME NEW i \in 1..Len(v) - 1 PROVE g[v[i + 1]] = g[v[i]] + 1
      <4>1. i \in 1..Len(v) /\ i + 1 \in 1..Len(v) /\ i < i + 1
        BY <3>4
      <4>2. PICK a \in Nat, b \in Nat : a = v[i] /\ b = v[i + 1]
        BY <4>1
      <4>3. a \in Framed(s, lo, hi) /\ b \in Framed(s, lo, hi)
        BY <3>1, <3>4, <4>1, <4>2 DEF ToSet
      <4>4. /\ a \in 1..Len(g) /\ b \in 1..Len(g) /\ lo < a /\ b <= hi /\ g[a] # 0 /\ g[b] # 0
        <5>1. a \in lo + 1..hi /\ b \in lo + 1..hi /\ g[a] # 0 /\ g[b] # 0
          BY <3>1, <4>3 DEF Framed
        <5>2. hi <= Len(g) /\ Len(g) \in Nat
          BY <3>1, <3>4
        <5> QED
          BY <5>1, <5>2
      <4>5. a < b /\ g[a] < g[b]
        BY <3>1, <3>3, <3>4, <4>1, <4>2, <4>4 DEF Increasing
      <4>6. g[b] \in 0..m
        BY <3>2, <3>4, <4>4 DEF ToSet
      <4>7. PICK r \in 1..Len(g) : g[r] = g[a] + 1
        <5>1. g[a] + 1 \in 0..m /\ g[a] + 1 # 0
          BY <3>4, <4>4, <4>5, <4>6
        <5>2. g[a] + 1 \in ToSet(g)
          BY <3>2, <5>1
        <5> QED
          BY <3>4, <5>2 DEF ToSet
      <4>8. a < r /\ r <= b
        <5>1. g[a] \in Nat /\ g[b] \in Nat /\ g[r] # 0 /\ g[a] < g[r] /\ g[r] <= g[b]
          BY <3>4, <4>4, <4>5, <4>7, SMTT(30)
        <5>2. ~(r < a) /\ r # a
          <6>1. r < a => g[r] < g[a]
            BY <3>3, <4>4, <4>7
          <6> QED
            BY <5>1, <6>1
        <5>3. ~(b < r)
          <6>1. b < r => g[b] < g[r]
            BY <3>3, <4>4, <4>7, <5>1
          <6> QED
            BY <5>1, <6>1
        <5> QED
          BY <3>4, <4>4, <4>7, <5>2, <5>3
      <4>9. r \in Framed(s, lo, hi)
        <5>1. r \in lo + 1..hi
          BY <3>4, <4>4, <4>8
        <5>2. g[r] # 0
          BY <3>4, <4>4, <4>7
        <5> QED
          BY <3>1, <5>1, <5>2 DEF Framed
      <4>10. PICK j \in 1..Len(v) : v[j] = r
        BY <3>1, <3>4, <4>9 DEF ToSet
      <4>11. \A x, y \in 1..Len(v) : x < y => v[x] < v[y]
        BY <3>1, <3>4 DEF Increasing
      <4>12. j = i + 1
        <5>1. ~(j < i) /\ j # i
          <6>1. j < i => v[j] < v[i]
            BY <4>1, <4>11
          <6> QED
            BY <4>2, <4>8, <4>10, <6>1
        <5>2. ~(i + 1 < j)
          <6>1. i + 1 < j => v[i + 1] < v[j]
            BY <4>1, <4>11
          <6> QED
            BY <4>2, <4>8, <4>10, <6>1
        <5> QED
          BY <4>1, <5>1, <5>2
      <4> QED
        BY <4>2, <4>7, <4>10, <4>12
    <3> QED
      BY <3>1, <3>5 DEF Lists
  <2>2. pager.session # Nowhere => Lists(pager.seen, pager.session, pager.lo, pager.hi)
    BY FeedFacts DEF PagerAt
  <2> QED
    BY <2>1, <2>2 DEF FeedIsExact
<1> QED
  BY <1>1, FeedHolds, PTL
=============================================================================
