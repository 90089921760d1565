---------------------------------- MODULE Roles ----------------------------------
(***************************************************************************)
(* What a turn is accepted under: the configuration and the permissions of *)
(* its role, the provider they refer to, and the MCP definitions bound to  *)
(* the role, all of which are edited while turns are accepted, handed on   *)
(* to subagents and launched.                                              *)
(*                                                                         *)
(* Wire methods and delegations run one after the other on the event loop; *)
(* POST /profiles and POST /turns run on threads, and so do the launches   *)
(* of turns.  A row shares no transaction with a provider, an asset or the *)
(* object a turn freezes, and the process may die between any two steps.   *)
(*                                                                         *)
(* An edit that is repeated, or made of an older version than the row's,   *)
(* changes nothing and is left out.  Sessions, queues and the recovery of  *)
(* a role are in SessionLedger: here every turn is admitted.               *)
(***************************************************************************)
EXTENDS Integers, Sequences, FiniteSets

CONSTANTS
    Roles, Turns,
    Providers,      \* a configuration is known by the provider it selects
    Tools,          \* the tool keys of the permissions
    Contents,       \* MCP definitions; a content stands for its digest
    Revisions,
    NULL,           \* no provider is selected
    LOST,           \* there is no configuration object
    MaxEdits,       \* bound: edits of roles, providers and assets
    MaxCrashes      \* bound

ASSUME RolesAssumption ==
    /\ NULL \notin Roles \cup Turns \cup Providers \cup Contents
    /\ LOST \notin Providers \cup {NULL}
    /\ Revisions \subseteq Nat \ {0}
    /\ MaxEdits \in Nat /\ MaxCrashes \in Nat

VARIABLES
    role,       \* the profile's row: absent, active or archived
    past,       \* what the row said at each config_revision; the last is the row
    provider,   \* the provider's row, and whether it still offers the model
    turn,       \* turns, with what they froze
    post,       \* a POST /turns under way, and what it has read
    disk,       \* the assets root: the definition installed as each revision
    asset,      \* the asset's row
    bound,      \* the bindings: the revision a role pins, or 0
    loop,       \* what the event loop is in the middle of
    published,  \* history: the contents that the asset's row has ever named
    dangling,   \* history: roles inserted when their provider was archived, or about to be
    edits, crashes

vars == <<role, past, provider, turn, post, disk, asset, bound, loop, published, dangling,
          edits, crashes>>
rows == <<role, past, dangling>>
assets == <<disk, asset, bound, published>>

Config == [ref : Providers \cup {NULL, LOST}, deny : SUBSET Tools]
Frozen == [role : Roles \cup {NULL}, rev : Nat, ref : Providers \cup {NULL, LOST},
           permissions : BOOLEAN, deny : SUBSET Tools]   \* whether it has any, and the denied
Nothing == [role |-> NULL, rev |-> 0, ref |-> NULL, permissions |-> FALSE, deny |-> {}]
Absent == [state |-> "absent", is |-> Nothing, parent |-> NULL,
           pin |-> 0, digest |-> NULL, got |-> NULL]
Idle == [pc |-> "idle"]

TurnRow == [state : {"absent", "accepted", "reading", "running", "failed", "unknown"},
            is : Frozen, parent : Turns \cup {NULL}, pin : Revisions \cup {0},
            digest : Contents \cup {NULL}, got : Contents \cup {NULL}]
Post == [pc : {"idle", "read", "configured", "frozen"}, is : Frozen]

TypeOK ==
    /\ role \in [Roles -> {"absent", "active", "archived"}]
    /\ past \in [Roles -> Seq(Config)]
    /\ provider \in [Providers -> {"usable", "unavailable", "removed", "archived"}]
    /\ turn \in [Turns -> TurnRow] /\ post \in Post
    /\ disk \in [Revisions -> Contents \cup {NULL}]
    /\ asset \in [latest : Revisions \cup {0}, digest : Contents \cup {NULL}]
    /\ bound \in [Roles -> Revisions \cup {0}]
    /\ loop \in {Idle} \cup [pc : {"copy"}, from : Roles, to : Roles]
                       \cup [pc : {"archive"}, provider : Providers]
                       \cup [pc : {"publish"}, rev : Revisions, content : Contents]
    /\ published \subseteq Contents /\ dangling \subseteq Roles
    /\ edits \in 0..MaxEdits /\ crashes \in 0..MaxCrashes

Init ==
    /\ role = [r \in Roles |-> "absent"] /\ past = [r \in Roles |-> <<>>]
    /\ provider = [m \in Providers |-> "usable"]
    /\ turn = [t \in Turns |-> Absent] /\ post = [pc |-> "idle", is |-> Nothing]
    /\ disk = [v \in Revisions |-> NULL] /\ asset = [latest |-> 0, digest |-> NULL]
    /\ bound = [r \in Roles |-> 0] /\ loop = Idle
    /\ published = {} /\ dangling = {} /\ edits = 0 /\ crashes = 0

Edit == edits < MaxEdits /\ edits' = edits + 1

-----------------------------------------------------------------------------
(* Roles *)

Revision(r) == Len(past[r])
Now(r) == past[r][Revision(r)]

\* Identifiers are opaque: which of the unused ones a row gets is all the same.
UnusedRole(r) == role[r] = "absent" /\ r = CHOOSE s \in Roles : role[s] = "absent"

\* What a new row refers to is not looked at: the provider may be archived, or be past
\* the check that precedes its archiving.
Closing(m) == m \in Providers /\ (provider[m] = "archived"
                                  \/ (loop.pc = "archive" /\ loop.provider = m))
Inserted(r, config) ==
    /\ role' = [role EXCEPT ![r] = "active"]
    /\ past' = [past EXCEPT ![r] = <<config>>]
    /\ dangling' = IF Closing(config.ref) THEN dangling \cup {r} ELSE dangling

\* POST /profiles with a configuration; profiles.create of the wire has an empty one.
Create(r, m) ==
    /\ Edit /\ UnusedRole(r)
    /\ Inserted(r, [ref |-> m, deny |-> {}])
    /\ UNCHANGED <<provider, turn, post, assets, loop, crashes>>

\* _mutate with bump_config.
Revised(r, config) == past' = [past EXCEPT ![r] = Append(@, config)]

\* validate_references asks less than a turn will: a model that is listed as unavailable
\* may be selected.
Selectable(m) == m # NULL => provider[m] \in {"usable", "unavailable"}

Configure(r, m) ==
    /\ loop = Idle /\ Edit
    /\ role[r] = "active" /\ Selectable(m)
    /\ Revised(r, [Now(r) EXCEPT !.ref = m])
    /\ dangling' = dangling \ {r}
    /\ UNCHANGED <<role, provider, turn, post, assets, loop, crashes>>

\* The permissions of an archived role may be set too.
SetPermissions(r, deny) ==
    /\ loop = Idle /\ Edit
    /\ role[r] # "absent"
    /\ Revised(r, [Now(r) EXCEPT !.deny = deny])
    /\ UNCHANGED <<role, dangling, provider, turn, post, assets, loop, crashes>>

Archive(r) ==
    /\ loop = Idle /\ Edit
    /\ role[r] = "active"
    /\ role' = [role EXCEPT ![r] = "archived"]
    /\ UNCHANGED <<past, dangling, provider, turn, post, assets, loop, crashes>>

\* plan_migration: to another family the configuration does not travel, and the row's
\* digest is the empty string, which no object has; the permissions travel either way.
Cloned(r, same) == IF same THEN Now(r) ELSE [Now(r) EXCEPT !.ref = LOST]

\* clone_from, in one transaction.
Clone(r, s) ==
    /\ loop = Idle /\ Edit
    /\ role[r] # "absent" /\ UnusedRole(s)
    /\ \E same \in BOOLEAN : Inserted(s, Cloned(r, same))
    /\ loop' = [pc |-> "copy", from |-> r, to |-> s]
    /\ UNCHANGED <<provider, turn, post, assets, crashes>>

\* copy_bindings, in another one: a target family without the slot takes no binding.
CopyBindings ==
    /\ loop.pc = "copy"
    /\ bound' \in {bound, [bound EXCEPT ![loop.to] = bound[loop.from]]}
    /\ loop' = Idle
    /\ UNCHANGED <<rows, provider, turn, post, disk, asset, published, edits, crashes>>

-----------------------------------------------------------------------------
(* Providers *)

\* The references of roles are no matter here, and an archived row stays archived.
UpdateProvider(m, offer) ==
    /\ loop = Idle /\ Edit
    /\ provider[m] # "archived" /\ provider[m] # offer
    /\ provider' = [provider EXCEPT ![m] = offer]
    /\ UNCHANGED <<rows, turn, post, assets, loop, crashes>>

\* profile_references reads the configuration of every active role, and raises when one
\* has none; the transaction comes after it.
References(m) == {r \in Roles : role[r] = "active" /\ Now(r).ref = m}

CheckReferences(m) ==
    /\ loop = Idle /\ Edit
    /\ References(m) \cup References(LOST) = {}
    /\ loop' = [pc |-> "archive", provider |-> m]
    /\ UNCHANGED <<rows, provider, turn, post, assets, crashes>>

ArchiveProvider ==
    /\ loop.pc = "archive"
    /\ provider' = [provider EXCEPT ![loop.provider] = "archived"]
    /\ loop' = Idle
    /\ UNCHANGED <<rows, turn, post, assets, edits, crashes>>

-----------------------------------------------------------------------------
(* Accepting a turn *)

UnusedTurn(t) == turn[t].state = "absent" /\ t = CHOOSE u \in Turns : turn[u].state = "absent"

Accepted(t, frozen, parent) ==
    turn' = [turn EXCEPT ![t] = [Absent EXCEPT !.state = "accepted", !.is = frozen,
                                               !.parent = parent]]

Object(r, deny) == [role |-> r, rev |-> Revision(r), ref |-> Now(r).ref,
                    permissions |-> TRUE, deny |-> deny]

\* freeze_execution_configuration: without a model that is there and available, no turn.
Resolves(m) == m \in Providers /\ provider[m] = "usable"

\* accept_intent reads the role three times, and runs on the loop.
Send(t, r) ==
    /\ loop = Idle /\ UnusedTurn(t)
    /\ role[r] = "active" /\ Resolves(Now(r).ref)
    /\ Accepted(t, Object(r, Now(r).deny), NULL)
    /\ UNCHANGED <<rows, provider, post, assets, loop, edits, crashes>>

\* A run of the managed ACP channel freezes the role's own object, in which there are no
\* permissions.
Open(t, r) ==
    /\ loop = Idle /\ UnusedTurn(t)
    /\ role[r] # "absent"
    /\ Accepted(t, [Object(r, {}) EXCEPT !.permissions = FALSE], NULL)
    /\ UNCHANGED <<rows, provider, post, assets, loop, edits, crashes>>

\* create_turn of the REST service, on a thread: each of its reads is a read of its own.
\* A request made of another revision, or a model that does not resolve, ends it.
PostTurn(r) ==
    /\ post.pc = "idle" /\ role[r] # "absent"
    /\ \E t \in Turns : turn[t].state = "absent"
    /\ post' = [pc |-> "read", is |-> [Nothing EXCEPT !.role = r, !.rev = Revision(r)]]
    /\ UNCHANGED <<rows, provider, turn, assets, loop, edits, crashes>>

NoPost == [pc |-> "idle", is |-> Nothing]

ReadConfiguration ==
    LET m == Now(post.is.role).ref IN
    /\ post.pc = "read"
    /\ post' = IF Resolves(m) THEN [pc |-> "configured", is |-> [post.is EXCEPT !.ref = m]]
               ELSE NoPost
    /\ UNCHANGED <<rows, provider, turn, assets, loop, edits, crashes>>

ReadPermissions ==
    /\ post.pc = "configured"
    /\ post' = [pc |-> "frozen", is |-> [post.is EXCEPT !.permissions = TRUE,
                                                     !.deny = Now(post.is.role).deny]]
    /\ UNCHANGED <<rows, provider, turn, assets, loop, edits, crashes>>

\* The transaction asks for the revision again, though not whether the role is archived.
StillAt_Unchecked(r, rev) == TRUE
StillAt(r, rev) == Revision(r) = rev

InsertTurn ==
    /\ post.pc = "frozen"
    /\ post' = NoPost
    /\ \E t \in Turns :
          /\ UnusedTurn(t)
          /\ IF StillAt(post.is.role, post.is.rev) THEN Accepted(t, post.is, NULL)
             ELSE UNCHANGED turn
    /\ UNCHANGED <<rows, provider, assets, loop, edits, crashes>>

-----------------------------------------------------------------------------
(* Delegation *)

\* turn_ancestry_profile_ids, for check_cycle.
Chain(p) ==
    LET up[n \in 0..Cardinality(Turns)] ==
          IF n = 0 THEN {p} ELSE up[n - 1] \cup ({turn[u].parent : u \in up[n - 1]} \ {NULL})
    IN {turn[u].is.role : u \in up[Cardinality(Turns)]}

\* The parent's denials come from what its turn froze, the child's from its row.
Narrowed_Live(p, r) == Now(turn[p].is.role).deny \cup Now(r).deny
Narrowed(p, r) == turn[p].is.deny \cup Now(r).deny

\* run() to _create_child_turn, on the loop; the parent's state is not asked.  A parent
\* without frozen permissions may not hand on its work.  The child's configuration is
\* the row's object, which has to be there: the model it selects is not looked up.
\* Grants are left out: a role may call any other.
Delegate(t, p, r) ==
    /\ loop = Idle /\ UnusedTurn(t)
    /\ turn[p].state # "absent" /\ turn[p].is.permissions
    /\ role[r] = "active" /\ r \notin Chain(p) /\ Now(r).ref # LOST
    /\ Accepted(t, Object(r, Narrowed(p, r)), p)
    /\ UNCHANGED <<rows, provider, post, assets, loop, edits, crashes>>

-----------------------------------------------------------------------------
(* Assets *)

\* A publication installs the definition as a revision, which happens once, and then
\* updates the row; the receipt is looked for only then, and may refuse it.
Install(v, c) ==
    /\ loop = Idle /\ Edit
    /\ disk[v] = NULL
    /\ disk' = [disk EXCEPT ![v] = c]
    /\ loop' = [pc |-> "publish", rev |-> v, content |-> c]
    /\ UNCHANGED <<rows, provider, turn, post, asset, bound, published, crashes>>

Publish ==
    /\ loop.pc = "publish"
    /\ \/ /\ asset' = [latest |-> loop.rev, digest |-> loop.content]
          /\ published' = published \cup {loop.content}
       \/ UNCHANGED <<asset, published>>
    /\ loop' = Idle
    /\ UNCHANGED <<rows, provider, turn, post, disk, bound, edits, crashes>>

\* Any revision up to the latest, also one that was never published; and unbind.
Bind(r, v) ==
    /\ loop = Idle /\ Edit
    /\ role[r] # "absent" /\ v <= asset.latest /\ v # bound[r]
    /\ bound' = [bound EXCEPT ![r] = v]
    /\ UNCHANGED <<rows, provider, turn, post, disk, asset, published, loop, crashes>>

\* A launch reads the bindings joined with the asset's row: the pinned revision and the
\* digest of the latest one.
ReadBindings(t) ==
    /\ turn[t].state = "accepted"
    /\ turn' = [turn EXCEPT ![t].state = "reading", ![t].pin = bound[turn[t].is.role],
                            ![t].digest = asset.digest]
    /\ UNCHANGED <<rows, provider, post, assets, loop, edits, crashes>>

\* read and verify: a definition that is not there, or of another digest, fails the turn.
\* What else fails a launch is in SidecarRun.
Verified_Present(t) == disk[turn[t].pin] # NULL
Verified(t) == disk[turn[t].pin] = turn[t].digest

Ended(t, state) == [turn[t] EXCEPT !.state = state, !.pin = 0, !.digest = NULL]

Project(t) ==
    /\ turn[t].state = "reading"
    /\ turn' = [turn EXCEPT ![t] =
                  IF turn[t].pin = 0 THEN Ended(t, "running")
                  ELSE IF Verified(t) THEN [Ended(t, "running") EXCEPT !.got = disk[turn[t].pin]]
                  ELSE Ended(t, "failed")]
    /\ UNCHANGED <<rows, provider, post, assets, loop, edits, crashes>>

-----------------------------------------------------------------------------
\* The process dies; a turn that was active is sealed when it is back.
Crash ==
    /\ crashes < MaxCrashes
    /\ crashes' = crashes + 1
    /\ loop' = Idle /\ post' = NoPost
    /\ turn' = [t \in Turns |->
                  IF turn[t].state \in {"accepted", "reading", "running"}
                  THEN Ended(t, "unknown") ELSE turn[t]]
    /\ UNCHANGED <<rows, provider, assets, edits>>

EditRole ==
    \E r \in Roles :
       \/ \E m \in Providers \cup {NULL} : Create(r, m) \/ Configure(r, m)
       \/ \E deny \in SUBSET Tools : SetPermissions(r, deny)
       \/ Archive(r)
       \/ \E s \in Roles : Clone(r, s)
       \/ \E v \in Revisions \cup {0} : Bind(r, v)

EditProvider ==
    \E m \in Providers : \/ CheckReferences(m)
                         \/ \E offer \in {"usable", "unavailable", "removed"} : UpdateProvider(m, offer)

Next ==
    \/ EditRole \/ EditProvider \/ CopyBindings \/ ArchiveProvider
    \/ \E v \in Revisions, c \in Contents : Install(v, c)
    \/ Publish
    \/ \E r \in Roles : \/ PostTurn(r)
                        \/ \E t \in Turns : \/ Send(t, r) \/ Open(t, r)
                                            \/ \E p \in Turns : Delegate(t, p, r)
    \/ ReadConfiguration \/ ReadPermissions \/ InsertTurn
    \/ \E t \in Turns : ReadBindings(t) \/ Project(t)
    \/ Crash

Spec == Init /\ [][Next]_vars

-----------------------------------------------------------------------------
(* Properties *)

\* What a turn froze is what its role said at the revision the turn records, and not a
\* mixture of two, whoever edited the role between the reads (service.py:204-243,
\* repository.py:604-609, delegation.py:486-500).  A child may be denied more.
FrozenIsOneRevision ==
    \A t \in Turns : turn[t].state # "absent" =>
        LET is == turn[t].is  said == past[is.role][is.rev] IN
        /\ is.ref = said.ref
        /\ is.permissions => IF turn[t].parent = NULL THEN is.deny = said.deny
                             ELSE said.deny \subseteq is.deny

\* Delegation only narrows: what a turn was denied when it was accepted is denied to
\* whatever runs on its behalf, though its role may have been permitted it since
\* (delegation.py:384-403).
ChildrenAreNarrower ==
    \A t \in Turns : turn[t].parent # NULL => turn[turn[t].parent].is.deny \subseteq turn[t].is.deny

\* No active role selects an archived provider, over edits, clones and archives of both,
\* unless its row was inserted with one: neither POST /profiles nor a clone looks, and the
\* former may come between the check of an archive and its transaction (model_configs/
\* service.py:108-117).
ArchivedIsUnused ==
    \A r \in Roles : role[r] = "active" /\ Now(r).ref \in Providers
        => provider[Now(r).ref] # "archived" \/ r \in dangling

\* A launch hands a Harness only definitions that the catalogue has recorded, wherever a
\* publication was cut off and whichever revision a role was bound to (records.py:3-8).
OnlyPublishedIsProjected == \A t \in Turns : turn[t].got \in published \cup {NULL}
=============================================================================
