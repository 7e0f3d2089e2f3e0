------------------------------- MODULE Teams -------------------------------
(***************************************************************************)
(* POST /teams, POST /teams/{id}/invite and PATCH /teams/{id}/members/{id}:*)
(* CreateTeam, InviteMember and ChangeMemberRole of internal/service with  *)
(* the statements of internal/store, one action for every call to MySQL.   *)
(* CreateTeam runs in a transaction; the other two read roles, decide, and *)
(* then write with a single statement that repeats no part of the check.   *)
(***************************************************************************)
EXTENDS Integers

CONSTANTS
    Procs,          \* the goroutines that serve requests
    Users,          \* the registered users
    NULL,
    BadEmail,       \* what an invite may give for an email address
    MaxTeams        \* the last id that AUTO_INCREMENT hands out

TeamIds == 1..MaxTeams

ASSUME TeamBoundAssumption == MaxTeams \in Nat

VARIABLES
    creator,    \* table teams: creator[t] is created_by, NULL without a row
    member,     \* table team_members: member[t][u] is a role or NULL
    nextTeam,   \* AUTO_INCREMENT of teams
    pc,         \* pc[p]: the call that p makes next
    req,        \* req[p]: the request that p serves, or NULL
    actor,      \* actor[p]: the actor's role as p read it, or NULL
    target,     \* target[p]: the target's role as p read it, or NULL
    tx,         \* tx[p]: the open transaction [team, owner] of p, or NULL
    reply       \* reply[p]: the outcome of the last request of p

tableVars == <<creator, member, nextTeam>>
requestVars == <<pc, req, actor, target, tx, reply>>
vars == <<tableVars, requestVars>>

Roles == {"owner", "admin", "member"}
RequestedRoles == Roles \cup {"", "boss"}

Valid(role) == role \in Roles
Assignable(role) == role \in {"admin", "member"}
CanManageMembers(role) == role \in {"owner", "admin"}

NoMembers == [t \in TeamIds |-> [u \in Users |-> NULL]]

Table == INSTANCE TeamRoles WITH Teams <- TeamIds, InitialMembers <- NoMembers

-----------------------------------------------------------------------------
Codes == {"ok", "validation_error", "not_found", "forbidden", "conflict",
          "internal_error"}

Steps == {"idle", "insertTeam", "insertOwner", "commit", "inviter", "invitee", "add",
          "actor", "target", "set", "recheck"}

\* An invite names its user by id or by email; NULL stands for a name that
\* nobody has registered, BadEmail for an address that is not well-formed.
Requests ==
    [kind : {"create"}, actor : Users]
      \cup [kind : {"invite"}, actor : Users, team : TeamIds,
            user : Users \cup {NULL, BadEmail}, role : RequestedRoles]
      \cup [kind : {"role"}, actor : Users, team : TeamIds, user : Users,
            role : RequestedRoles]

Transactions == [team : TeamIds, owner : Users \cup {NULL}]

\* NULL is nobody, no role, no answer and no record; a bad address nobody's.
ASSUME NullAssumption ==
    /\ NULL \notin Users \cup Roles \cup Codes \cup Requests \cup Transactions
    /\ BadEmail \notin Users \cup {NULL}

TypeOK ==
    /\ creator \in [TeamIds -> Users \cup {NULL}]
    /\ member \in [TeamIds -> [Users -> Roles \cup {NULL}]]
    /\ nextTeam \in 1..(MaxTeams + 1)
    /\ pc \in [Procs -> Steps]
    /\ req \in [Procs -> Requests \cup {NULL}]
    /\ actor \in [Procs -> Roles \cup {NULL}]
    /\ target \in [Procs -> Roles \cup {NULL}]
    /\ tx \in [Procs -> Transactions \cup {NULL}]
    /\ reply \in [Procs -> Codes \cup {NULL}]

Init ==
    /\ creator = [t \in TeamIds |-> NULL]
    /\ member = NoMembers
    /\ nextTeam = 1
    /\ pc = [p \in Procs |-> "idle"]
    /\ req = [p \in Procs |-> NULL]
    /\ actor = [p \in Procs |-> NULL]
    /\ target = [p \in Procs |-> NULL]
    /\ tx = [p \in Procs |-> NULL]
    /\ reply = [p \in Procs |-> NULL]

-----------------------------------------------------------------------------
\* The request ends with an answer; an open transaction is rolled back.
Answer(p, code) ==
    /\ pc' = [pc EXCEPT ![p] = "idle"]
    /\ req' = [req EXCEPT ![p] = NULL]
    /\ actor' = [actor EXCEPT ![p] = NULL]
    /\ target' = [target EXCEPT ![p] = NULL]
    /\ tx' = [tx EXCEPT ![p] = NULL]
    /\ reply' = [reply EXCEPT ![p] = code]

GoTo(p, step) == pc' = [pc EXCEPT ![p] = step]

\* An invite without a role is one for a member; the handlers know no other
\* default.
WithDefaultRole(r) ==
    IF r.kind = "invite" /\ r.role = "" THEN [r EXCEPT !.role = "member"] ELSE r

FirstStep(r) ==
    CASE r.kind = "create" -> "insertTeam"
      [] r.kind = "invite" -> "inviter"
      [] r.kind = "role" -> "actor"

Accepted(r) == IF r.kind = "create" THEN TRUE ELSE Valid(WithDefaultRole(r).role)

\* A team whose name is not valid is refused like a role that is not.
Accept(p, r) ==
    /\ pc[p] = "idle"
    /\ Accepted(r)
    /\ GoTo(p, FirstStep(r))
    /\ req' = [req EXCEPT ![p] = WithDefaultRole(r)]
    /\ reply' = [reply EXCEPT ![p] = NULL]
    /\ UNCHANGED <<tableVars, actor, target, tx>>

Refuse(p, r) ==
    /\ pc[p] = "idle"
    /\ ~Accepted(r)
    /\ Answer(p, "validation_error")
    /\ UNCHANGED tableVars

Role(p, u) == member[req[p].team][u]

-----------------------------------------------------------------------------
(* Store.CreateTeam. *)

\* Mutant: the new id is computed from the teams that are committed.
InsertTeamNext(p) ==
    /\ pc[p] = "insertTeam"
    /\ IF nextTeam > MaxTeams
       THEN Answer(p, "internal_error")
       ELSE /\ tx' = [tx EXCEPT ![p] = [team |-> nextTeam, owner |-> NULL]]
            /\ GoTo(p, "insertOwner")
            /\ UNCHANGED <<req, actor, target, reply>>
    /\ UNCHANGED tableVars

InsertTeam(p) ==
    /\ pc[p] = "insertTeam"
    /\ IF nextTeam > MaxTeams
       THEN Answer(p, "internal_error") /\ UNCHANGED nextTeam
       ELSE /\ nextTeam' = nextTeam + 1
            /\ tx' = [tx EXCEPT ![p] = [team |-> nextTeam, owner |-> NULL]]
            /\ GoTo(p, "insertOwner")
            /\ UNCHANGED <<req, actor, target, reply>>
    /\ UNCHANGED <<creator, member>>

\* The owner's row, and the SELECT of the new team in the same transaction.
InsertOwner(p) ==
    /\ pc[p] = "insertOwner"
    /\ tx' = [tx EXCEPT ![p].owner = req[p].actor]
    /\ GoTo(p, "commit")
    /\ UNCHANGED <<tableVars, req, actor, target, reply>>

\* Mutant: the owner's row is not part of the transaction, and is lost.
PublishTeamOnly(p) ==
    /\ creator' = [creator EXCEPT ![tx[p].team] = req[p].actor]
    /\ UNCHANGED <<member, nextTeam>>

Publish(p) ==
    /\ creator' = [creator EXCEPT ![tx[p].team] = req[p].actor]
    /\ member' = [member EXCEPT ![tx[p].team][tx[p].owner] = "owner"]
    /\ UNCHANGED nextTeam

\* The commit, acknowledged or, for the client, lost.
CommitTeam(p) ==
    /\ pc[p] = "commit"
    /\ Publish(p)
    /\ Answer(p, "ok")

CommitUnacknowledged(p) ==
    /\ pc[p] = "commit"
    /\ Publish(p)
    /\ Answer(p, "internal_error")

-----------------------------------------------------------------------------
(* Service.InviteMember. *)

\* Mutant: an invite may hand out every role there is.
AnyRole(role) == role \in Roles

Invitable(role) == Assignable(role)

\* Mutant: every member may invite.
MembersMayInvite(p, role) ==
    IF role = NULL THEN "not_found"
    ELSE IF ~Invitable(req[p].role) THEN "validation_error"
    ELSE NULL

\* domain.AuthorizeInvite: the answer with which the invite ends, or NULL.
InviteVerdict(p, role) ==
    IF role = NULL THEN "not_found"
    ELSE IF ~CanManageMembers(role) THEN "forbidden"
    ELSE IF ~Invitable(req[p].role) THEN "validation_error"
    ELSE NULL

LoadInviter(p) ==
    /\ pc[p] = "inviter"
    /\ LET role == Role(p, req[p].actor)
           verdict == InviteVerdict(p, role)
       IN  IF verdict # NULL
           THEN Answer(p, verdict)
           ELSE /\ actor' = [actor EXCEPT ![p] = role]
                /\ GoTo(p, "invitee")
                /\ UNCHANGED <<req, target, tx, reply>>
    /\ UNCHANGED tableVars

ResolveInvitee(p) ==
    /\ pc[p] = "invitee"
    /\ CASE req[p].user = NULL -> Answer(p, "not_found")
         [] req[p].user = BadEmail -> Answer(p, "validation_error")
         [] OTHER -> GoTo(p, "add") /\ UNCHANGED <<req, actor, target, tx, reply>>
    /\ UNCHANGED tableVars

SetMember(p, role) == member' = [member EXCEPT ![req[p].team][req[p].user] = role]

\* Mutant: INSERT ... ON DUPLICATE KEY UPDATE.
Upsert(p, applied, failed) ==
    /\ SetMember(p, req[p].role)
    /\ Answer(p, applied)

\* INSERT INTO team_members: the primary key admits a user once.
InsertMember(p, applied, failed) ==
    IF Role(p, req[p].user) # NULL
    THEN Answer(p, failed) /\ UNCHANGED member
    ELSE SetMember(p, req[p].role) /\ Answer(p, applied)

AddMember(p) ==
    /\ pc[p] = "add"
    /\ InsertMember(p, "ok", "conflict")
    /\ UNCHANGED <<creator, nextTeam>>

\* The statement takes effect but its result does not arrive.
AddMemberUnacknowledged(p) ==
    /\ pc[p] = "add"
    /\ InsertMember(p, "internal_error", "internal_error")
    /\ UNCHANGED <<creator, nextTeam>>

-----------------------------------------------------------------------------
(* Service.ChangeMemberRole. *)

LoadActor(p) ==
    /\ pc[p] = "actor"
    /\ IF Role(p, req[p].actor) = NULL
       THEN Answer(p, "not_found")
       ELSE /\ actor' = [actor EXCEPT ![p] = Role(p, req[p].actor)]
            /\ GoTo(p, "target")
            /\ UNCHANGED <<req, target, tx, reply>>
    /\ UNCHANGED tableVars

\* Mutant: admins may change roles as well.
AdminMayChangeRoles(p, role) ==
    IF ~CanManageMembers(actor[p]) THEN "forbidden"
    ELSE IF role = "owner" THEN "forbidden"
    ELSE IF ~Assignable(req[p].role) THEN "validation_error"
    ELSE NULL

\* Mutant: an admin's role cannot be changed either.
AdminsProtected(p, role) ==
    IF actor[p] # "owner" THEN "forbidden"
    ELSE IF CanManageMembers(role) THEN "forbidden"
    ELSE IF ~Assignable(req[p].role) THEN "validation_error"
    ELSE NULL

\* domain.AuthorizeRoleChange, for a target that has the given role.
RoleChangeVerdict(p, role) ==
    IF actor[p] # "owner" THEN "forbidden"
    ELSE IF role = "owner" THEN "forbidden"
    ELSE IF ~Assignable(req[p].role) THEN "validation_error"
    ELSE NULL

\* Mutant: ErrNotFound is dropped, and the zero member has no role.
LoadTargetLax(p) ==
    /\ pc[p] = "target"
    /\ LET verdict == RoleChangeVerdict(p, Role(p, req[p].user))
       IN  IF verdict # NULL
           THEN Answer(p, verdict)
           ELSE GoTo(p, "set") /\ UNCHANGED <<req, actor, target, tx, reply>>
    /\ UNCHANGED tableVars

LoadTarget(p) ==
    /\ pc[p] = "target"
    /\ LET role == Role(p, req[p].user)
           verdict == IF role = NULL THEN "not_found" ELSE RoleChangeVerdict(p, role)
       IN  IF verdict # NULL
           THEN Answer(p, verdict)
           ELSE /\ target' = [target EXCEPT ![p] = role]
                /\ GoTo(p, "set")
                /\ UNCHANGED <<req, actor, tx, reply>>
    /\ UNCHANGED tableVars

\* UPDATE team_members SET role = ?: MySQL counts the rows it changed, so a
\* role that is there already looks like a missing row and is looked up.
UpdateMemberRole(p) ==
    /\ pc[p] = "set"
    /\ IF Role(p, req[p].user) \in {NULL, req[p].role}
       THEN /\ GoTo(p, "recheck")
            /\ UNCHANGED <<member, req, actor, target, tx, reply>>
       ELSE /\ SetMember(p, req[p].role)
            /\ Answer(p, "ok")
    /\ UNCHANGED <<creator, nextTeam>>

UpdateUnacknowledged(p) ==
    /\ pc[p] = "set"
    /\ Role(p, req[p].user) # NULL
    /\ SetMember(p, req[p].role)
    /\ Answer(p, "internal_error")
    /\ UNCHANGED <<creator, nextTeam>>

Recheck(p) ==
    /\ pc[p] = "recheck"
    /\ Answer(p, IF Role(p, req[p].user) = NULL THEN "internal_error" ELSE "ok")
    /\ UNCHANGED tableVars

-----------------------------------------------------------------------------
(* Failures. *)

\* A call to MySQL fails without effect.
DbError(p) ==
    /\ pc[p] # "idle"
    /\ Answer(p, "internal_error")
    /\ UNCHANGED tableVars

\* The server dies: what was committed stays.
Crash ==
    /\ \E p \in Procs : pc[p] # "idle"
    /\ pc' = [p \in Procs |-> "idle"]
    /\ req' = [p \in Procs |-> NULL]
    /\ actor' = [p \in Procs |-> NULL]
    /\ target' = [p \in Procs |-> NULL]
    /\ tx' = [p \in Procs |-> NULL]
    /\ reply' = [p \in Procs |-> NULL]
    /\ UNCHANGED tableVars

Serve(p) ==
    \/ InsertTeam(p)
    \/ InsertOwner(p)
    \/ CommitTeam(p)
    \/ LoadInviter(p)
    \/ ResolveInvitee(p)
    \/ AddMember(p)
    \/ LoadActor(p)
    \/ LoadTarget(p)
    \/ UpdateMemberRole(p)
    \/ Recheck(p)

Fail(p) ==
    \/ CommitUnacknowledged(p)
    \/ AddMemberUnacknowledged(p)
    \/ UpdateUnacknowledged(p)
    \/ DbError(p)

Next ==
    \/ \E p \in Procs, r \in Requests : Accept(p, r) \/ Refuse(p, r)
    \/ \E p \in Procs : Serve(p) \/ Fail(p)
    \/ Crash

Spec == Init /\ [][Next]_vars

-----------------------------------------------------------------------------
(* Properties. *)

\* A team and its owner come into being together: there is a row in teams
\* exactly when there is an owner, who is its creator, and only one.
OwnerIsCreator ==
    \A t \in TeamIds :
      /\ \A u \in Users : member[t][u] = "owner" <=> (creator[t] = u)
      /\ creator[t] = NULL => \A u \in Users : member[t][u] = NULL

\* The requests together do nothing to the table but create teams, add
\* members and set roles, each at once and each within its limits.
ImplementsTable == Table!Spec

\* A role once given changes by a request of the owner only: no invite, late
\* or repeated, touches it, however long ago the owner was looked up.
RolesChangeByOwner ==
    [][\A t \in TeamIds, u \in Users :
         (member[t][u] # NULL /\ member'[t][u] # member[t][u]) =>
           \E p \in Procs :
             /\ pc[p] = "set"
             /\ req[p].team = t /\ req[p].user = u
             /\ member[t][req[p].actor] = "owner"]_vars

\* Nobody without rights in a team adds to it: whoever joins was invited by a
\* member whom the request found to be its owner or an admin.
JoinByInvitation ==
    [][\A t \in TeamIds, u \in Users :
         (member[t][u] = NULL /\ member'[t][u] # NULL) =>
           \E p \in Procs :
             \/ pc[p] = "commit" /\ tx[p].team = t /\ req[p].actor = u
             \/ /\ pc[p] = "add" /\ req[p].team = t /\ req[p].user = u
                /\ CanManageMembers(actor[p])
                /\ member[t][req[p].actor] # NULL]_vars

\* The row that UpdateMemberRole looks up after an update without effect is
\* there: a role change that was allowed never ends in a 500 by itself.
RecheckFindsMember ==
    \A p \in Procs : pc[p] = "recheck" => Role(p, req[p].user) # NULL

\* A refusal of a role change is still right when it is given, though the
\* actor's role was read by an earlier query than the target's (README,
\* "Роли": 403 is for members who lack the right).
ForbiddenIsDeserved ==
    [][\A p \in Procs :
         (pc[p] = "target" /\ reply'[p] = "forbidden") =>
           /\ Role(p, req[p].actor) # NULL
           /\ \/ Role(p, req[p].actor) # "owner"
              \/ Role(p, req[p].user) = "owner"]_vars

-----------------------------------------------------------------------------
(* The inductive invariant behind these properties. *)

\* What a request has established when it comes to each of its steps.  What
\* it established stays true, whatever other requests do, because owners and
\* members stay.
Stage(p) ==
    /\ pc[p] = "idle" <=> req[p] = NULL
    /\ pc[p] \in {"insertTeam", "insertOwner", "commit"} => req[p].kind = "create"
    /\ pc[p] \in {"inviter", "invitee", "add"} => req[p].kind = "invite"
    /\ pc[p] \in {"actor", "target", "set", "recheck"} => req[p].kind = "role"
    /\ pc[p] \in {"invitee", "add"} =>
         /\ Role(p, req[p].actor) # NULL
         /\ CanManageMembers(actor[p])
         /\ Assignable(req[p].role)
    /\ pc[p] = "add" => req[p].user \in Users
    /\ pc[p] \in {"target", "set", "recheck"} =>
         /\ Role(p, req[p].actor) # NULL
         /\ actor[p] # NULL
         /\ actor[p] = "owner" <=> Role(p, req[p].actor) = "owner"
    /\ pc[p] \in {"set", "recheck"} =>
         /\ actor[p] = "owner"
         /\ Role(p, req[p].user) \in {"admin", "member"}
         /\ Assignable(req[p].role)

\* An open transaction has an id that it shares with nobody.
Created(p) ==
    /\ tx[p] # NULL <=> pc[p] \in {"insertOwner", "commit"}
    /\ tx[p] # NULL => /\ tx[p].team < nextTeam
                       /\ creator[tx[p].team] = NULL
    /\ pc[p] = "commit" => tx[p].owner = req[p].actor

IdsDistinct ==
    \A p, q \in Procs :
      (tx[p] # NULL /\ tx[q] # NULL /\ tx[p].team = tx[q].team) => p = q

IdsFresh == \A t \in TeamIds : t >= nextTeam => creator[t] = NULL

IInv ==
    /\ TypeOK
    /\ \A p \in Procs : Stage(p) /\ Created(p)
    /\ IdsDistinct
    /\ IdsFresh
    /\ OwnerIsCreator
=============================================================================
