---------------------------- MODULE TeamsProofs ----------------------------
(***************************************************************************)
(* Proofs about Teams: its invariant IInv is inductive, and its requests   *)
(* together implement TeamRoles, whatever interleavings, lost answers and  *)
(* crashes there are.                                                      *)
(***************************************************************************)
EXTENDS Teams, TLAPS

TableTypes ==
    /\ creator \in [TeamIds -> Users \cup {NULL}]
    /\ member \in [TeamIds -> [Users -> Roles \cup {NULL}]]
    /\ nextTeam \in 1..(MaxTeams + 1)

RequestTypes ==
    /\ pc \in [Procs -> Steps]
    /\ req \in [Procs -> Requests \cup {NULL}]
    /\ actor \in [Procs -> Roles \cup {NULL}]
    /\ target \in [Procs -> Roles \cup {NULL}]
    /\ tx \in [Procs -> Transactions \cup {NULL}]
    /\ reply \in [Procs -> Codes \cup {NULL}]

\* What a step of one process leaves to the others.
OthersUntouched(p) ==
    \A q \in Procs \ {p} :
      pc'[q] = pc[q] /\ req'[q] = req[q] /\ actor'[q] = actor[q] /\ tx'[q] = tx[q]

\* What no step does to the table of members.
MembersKept ==
    \A t \in TeamIds, u \in Users :
      member[t][u] # NULL =>
        /\ member'[t][u] # NULL
        /\ member[t][u] = "owner" <=> member'[t][u] = "owner"

-----------------------------------------------------------------------------
\* The invariant holds of empty tables and idle processes.
LEMMA InitIInv == Init => IInv
<1> SUFFICES ASSUME Init PROVE IInv
  OBVIOUS
<1> USE DEF Init
<1>1. TypeOK
  BY TeamBoundAssumption DEF TypeOK, Steps, TeamIds, NoMembers
<1>2. ASSUME NEW p \in Procs PROVE Stage(p) /\ Created(p)
  BY DEF Stage, Created
<1>3. IdsDistinct /\ IdsFresh
  BY DEF IdsDistinct, IdsFresh
<1>4. OwnerIsCreator
  BY NullAssumption DEF OwnerIsCreator, NoMembers, Roles
<1> QED
  BY <1>1, <1>2, <1>3, <1>4 DEF IInv

\* The types of what a busy process holds.
LEMMA Shapes ==
    ASSUME TypeOK, NEW p \in Procs, Stage(p), pc[p] # "idle"
    PROVE  /\ req[p] \in Requests /\ req[p].actor \in Users
           /\ req[p].kind \in {"invite", "role"} => req[p].team \in TeamIds
           /\ req[p].kind = "role" => req[p].user \in Users
           /\ tx[p] # NULL => tx[p] \in Transactions
<1>1. req[p] \in Requests
  BY DEF TypeOK, Stage
<1> QED
  BY <1>1 DEF Requests, TypeOK

\* The answer to a request keeps the types, leaves the other requests alone
\* and leaves its process with nothing.
LEMMA AnswerKeeps ==
    ASSUME TypeOK, NEW p \in Procs, NEW code \in Codes, Answer(p, code)
    PROVE  /\ RequestTypes' /\ OthersUntouched(p)
           /\ Stage(p)' /\ Created(p)' /\ tx'[p] = NULL
<1> USE DEF Answer, TypeOK
<1>1. RequestTypes'
  BY DEF RequestTypes, Steps
<1>2. OthersUntouched(p)
  BY DEF OthersUntouched
<1>3. pc'[p] = "idle" /\ req'[p] = NULL /\ tx'[p] = NULL
  OBVIOUS
<1> QED
  BY <1>1, <1>2, <1>3 DEF Stage, Created

\* A process that does not move keeps its part of the invariant while members
\* stay and the ids of others are used up.
LEMMA OthersKeep ==
    ASSUME IInv, NEW p \in Procs, OthersUntouched(p), MembersKept, TypeOK',
           nextTeam <= nextTeam',
           \A t \in TeamIds : creator'[t] = creator[t]
                               \/ (tx[p] # NULL /\ t = tx[p].team),
           NEW q \in Procs \ {p}
    PROVE  Stage(q)' /\ Created(q)'
<1>1. Stage(q) /\ Created(q) /\ TypeOK /\ TypeOK'
  BY DEF IInv
<1>2. pc'[q] = pc[q] /\ req'[q] = req[q] /\ actor'[q] = actor[q] /\ tx'[q] = tx[q]
  BY DEF OthersUntouched
<1>3. Stage(q)'
  <2>1. CASE pc[q] = "idle"
    BY <1>1, <1>2, <2>1 DEF Stage
  <2>2. CASE pc[q] \in {"insertTeam", "insertOwner", "commit", "inviter", "actor"}
    BY <1>1, <1>2, <2>2 DEF Stage
  <2>3. CASE pc[q] \in {"invitee", "add"}
    <3>1. Role(q, req[q].actor)' # NULL
      BY <1>1, <1>2, <2>3, Shapes DEF Stage, Role, MembersKept
    <3> QED
      BY <1>1, <1>2, <2>3, <3>1 DEF Stage
  <2>4. CASE pc[q] \in {"target", "set", "recheck"}
    <3>1. req[q].team \in TeamIds /\ req[q].actor \in Users /\ req[q].user \in Users
      BY <1>1, <2>4, Shapes DEF Stage
    <3>2. /\ Role(q, req[q].actor)' # NULL
          /\ Role(q, req[q].actor)' = "owner" <=> Role(q, req[q].actor) = "owner"
      BY <1>1, <1>2, <2>4, <3>1 DEF Stage, Role, MembersKept
    <3>3. pc[q] # "target" => Role(q, req[q].user)' \in {"admin", "member"}
      BY <1>1, <1>2, <2>4, <3>1, NullAssumption DEF Stage, Role, MembersKept, TypeOK, Roles
    <3> QED
      BY <1>1, <1>2, <2>4, <3>2, <3>3 DEF Stage
  <2> QED
    BY <1>1, <2>1, <2>2, <2>3, <2>4 DEF TypeOK, Steps
<1>4. Created(q)'
  <2>1. tx[q] # NULL => tx[q].team \in TeamIds
    BY <1>1 DEF TypeOK, Transactions
  <2>2. tx[q] # NULL => creator'[tx[q].team] = creator[tx[q].team]
    BY <2>1 DEF IInv, IdsDistinct
  <2>3. tx[q] # NULL => tx[q].team < nextTeam'
    BY <1>1, <2>1 DEF Created, TypeOK, TeamIds
  <2> QED
    BY <1>1, <1>2, <2>2, <2>3 DEF Created
<1> QED
  BY <1>3, <1>4

\* A step that leaves the tables alone keeps the invariant if it keeps the
\* part of its own process.
LEMMA RequestStepKeeps ==
    ASSUME IInv, NEW p \in Procs, UNCHANGED tableVars, OthersUntouched(p),
           RequestTypes', Stage(p)', Created(p)',
           tx'[p] # NULL => tx[p] # NULL /\ tx'[p].team = tx[p].team
    PROVE  IInv'
<1>1. TypeOK'
  BY DEF IInv, TypeOK, RequestTypes, tableVars
<1>2. MembersKept
  BY DEF MembersKept, tableVars
<1>3. nextTeam <= nextTeam'
  BY DEF IInv, TypeOK, tableVars
<1>4. ASSUME NEW q \in Procs PROVE Stage(q)' /\ Created(q)'
  BY <1>1, <1>2, <1>3, OthersKeep DEF tableVars
<1>5. IdsDistinct'
  BY DEF IInv, IdsDistinct, OthersUntouched
<1>6. IdsFresh' /\ OwnerIsCreator'
  BY DEF IInv, IdsFresh, OwnerIsCreator, tableVars
<1> QED
  BY <1>1, <1>4, <1>5, <1>6 DEF IInv

\* An answer without a write.
LEMMA AnswerOnly ==
    ASSUME IInv, NEW p \in Procs, NEW code \in Codes, Answer(p, code),
           UNCHANGED tableVars
    PROVE  IInv'
  BY AnswerKeeps, RequestStepKeeps DEF IInv

-----------------------------------------------------------------------------
(* The steps that write no table. *)

LEMMA CodesKnown ==
    {"ok", "validation_error", "not_found", "forbidden", "conflict", "internal_error"}
      \subseteq Codes
  BY DEF Codes

LEMMA AcceptKeeps ==
    ASSUME IInv, NEW p \in Procs, NEW r \in Requests, Accept(p, r)
    PROVE  IInv'
<1> DEFINE s == WithDefaultRole(r)
<1>1. s \in Requests /\ s.kind = r.kind /\ s # NULL
  <2>1. CASE r.kind = "invite" /\ r.role = ""
    <3>1. s = [r EXCEPT !.role = "member"]
      BY <2>1 DEF WithDefaultRole
    <3>2. r \in [kind : {"invite"}, actor : Users, team : TeamIds,
                 user : Users \cup {NULL, BadEmail}, role : RequestedRoles]
      BY <2>1 DEF Requests
    <3>3. s \in Requests /\ s.kind = r.kind
      BY <3>1, <3>2 DEF Requests, RequestedRoles, Roles
    <3> QED
      BY <3>3, NullAssumption
  <2>2. CASE ~(r.kind = "invite" /\ r.role = "")
    BY <2>2, NullAssumption DEF WithDefaultRole
  <2> QED
    BY <2>1, <2>2
<1>2. /\ FirstStep(r) \in Steps /\ FirstStep(r) # "idle"
      /\ r.kind = "create" => FirstStep(r) = "insertTeam"
      /\ r.kind = "invite" => FirstStep(r) = "inviter"
      /\ r.kind = "role" => FirstStep(r) = "actor"
      /\ r.kind \in {"create", "invite", "role"}
  BY DEF FirstStep, Steps, Requests
<1>3. /\ pc' = [pc EXCEPT ![p] = FirstStep(r)]
      /\ req' = [req EXCEPT ![p] = s]
      /\ reply' = [reply EXCEPT ![p] = NULL]
      /\ UNCHANGED <<tableVars, actor, target, tx>> /\ pc[p] = "idle"
  BY DEF Accept, GoTo
<1> HIDE DEF s
<1>4. RequestTypes'
  BY <1>1, <1>2, <1>3 DEF IInv, TypeOK, RequestTypes
<1>5. OthersUntouched(p)
  BY <1>3 DEF OthersUntouched, IInv, TypeOK
<1>6. pc'[p] = FirstStep(r) /\ req'[p] = s /\ tx'[p] = tx[p]
  BY <1>3 DEF IInv, TypeOK
<1>7. Stage(p)'
  BY <1>1, <1>2, <1>6 DEF Stage
<1>8. Created(p)'
  BY <1>2, <1>3, <1>6 DEF Created, IInv
<1> QED
  BY <1>3, <1>4, <1>5, <1>6, <1>7, <1>8, RequestStepKeeps

LEMMA RefuseKeeps ==
    ASSUME IInv, NEW p \in Procs, NEW r \in Requests, Refuse(p, r)
    PROVE  IInv'
  BY AnswerOnly, CodesKnown DEF Refuse

\* A step within a request: it moves on with what it read.
LEMMA MoveKeeps ==
    ASSUME IInv, NEW p \in Procs, UNCHANGED <<tableVars, req, tx, reply>>,
           NEW step \in Steps \ {"idle"}, GoTo(p, step),
           NEW a \in Roles \cup {NULL}, actor' = [actor EXCEPT ![p] = a],
           target' \in [Procs -> Roles \cup {NULL}],
           Stage(p)', Created(p)'
    PROVE  IInv'
<1>1. RequestTypes'
  BY DEF GoTo, IInv, TypeOK, RequestTypes
<1>2. OthersUntouched(p)
  BY DEF OthersUntouched, GoTo, IInv, TypeOK
<1> QED
  BY <1>1, <1>2, RequestStepKeeps

LEMMA LoadInviterKeeps ==
    ASSUME IInv, NEW p \in Procs, LoadInviter(p)
    PROVE  IInv'
<1> DEFINE r == Role(p, req[p].actor)
           v == InviteVerdict(p, r)
<1>1. Stage(p) /\ Created(p) /\ TypeOK /\ pc[p] = "inviter"
  BY DEF IInv, LoadInviter
<1>2. req[p].kind = "invite" /\ req[p].team \in TeamIds /\ req[p].actor \in Users
  BY <1>1, Shapes DEF Stage
<1>3. r \in Roles \cup {NULL}
  BY <1>1, <1>2 DEF Role, TypeOK
<1>4. CASE v # NULL
  <2>1. v \in Codes
    BY <1>4, CodesKnown DEF InviteVerdict
  <2> QED
    BY <1>4, <2>1, AnswerOnly DEF LoadInviter
<1>5. CASE v = NULL
  <2>1. r # NULL /\ CanManageMembers(r) /\ Assignable(req[p].role)
    BY <1>5, CodesKnown, NullAssumption DEF InviteVerdict, Invitable
  <2>2. /\ actor' = [actor EXCEPT ![p] = r] /\ GoTo(p, "invitee")
        /\ UNCHANGED <<tableVars, req, target, tx, reply>>
    BY <1>5 DEF LoadInviter
  <2>3. pc'[p] = "invitee" /\ req'[p] = req[p] /\ actor'[p] = r /\ tx'[p] = tx[p]
    BY <1>1, <2>2 DEF GoTo, TypeOK
  <2>4. Stage(p)'
    BY <1>1, <1>2, <2>1, <2>2, <2>3 DEF Stage, Role, tableVars
  <2>5. Created(p)'
    BY <1>1, <2>2, <2>3 DEF Created, tableVars
  <2> HIDE DEF r, v
  <2> QED
    BY <1>1, <1>3, <2>2, <2>4, <2>5, MoveKeeps DEF Steps, TypeOK
<1> QED
  BY <1>4, <1>5

LEMMA ResolveInviteeKeeps ==
    ASSUME IInv, NEW p \in Procs, ResolveInvitee(p)
    PROVE  IInv'
<1>1. Stage(p) /\ Created(p) /\ TypeOK /\ pc[p] = "invitee"
  BY DEF IInv, ResolveInvitee
<1>2. CASE req[p].user = NULL
  BY <1>2, AnswerOnly, CodesKnown DEF ResolveInvitee
<1>3. CASE req[p].user = BadEmail
  BY <1>3, NullAssumption, AnswerOnly, CodesKnown DEF ResolveInvitee
<1>4. CASE req[p].user \notin {NULL, BadEmail}
  <2>1. GoTo(p, "add") /\ UNCHANGED <<tableVars, req, actor, target, tx, reply>>
    BY <1>4 DEF ResolveInvitee
  <2>2. req[p].user \in Users
    BY <1>1, <1>4, Shapes DEF Requests, Stage
  <2>3. pc'[p] = "add" /\ req'[p] = req[p] /\ actor'[p] = actor[p] /\ tx'[p] = tx[p]
    BY <1>1, <2>1 DEF GoTo, TypeOK
  <2>4. Stage(p)'
    BY <1>1, <2>1, <2>2, <2>3 DEF Stage, Role, tableVars
  <2>5. Created(p)'
    BY <1>1, <2>1, <2>3 DEF Created, tableVars
  <2>6. actor' = [actor EXCEPT ![p] = actor[p]] /\ actor[p] \in Roles \cup {NULL}
    BY <1>1, <2>1 DEF TypeOK
  <2> QED
    BY <1>1, <2>1, <2>4, <2>5, <2>6, MoveKeeps DEF Steps, TypeOK
<1> QED
  BY <1>2, <1>3, <1>4

LEMMA LoadActorKeeps ==
    ASSUME IInv, NEW p \in Procs, LoadActor(p)
    PROVE  IInv'
<1> DEFINE r == Role(p, req[p].actor)
<1>1. Stage(p) /\ Created(p) /\ TypeOK /\ pc[p] = "actor"
  BY DEF IInv, LoadActor
<1>2. req[p].kind = "role" /\ req[p].team \in TeamIds /\ req[p].actor \in Users
  BY <1>1, Shapes DEF Stage
<1>3. r \in Roles \cup {NULL}
  BY <1>1, <1>2 DEF Role, TypeOK
<1>4. CASE r = NULL
  BY <1>4, AnswerOnly, CodesKnown DEF LoadActor
<1>5. CASE r # NULL
  <2>1. /\ actor' = [actor EXCEPT ![p] = r] /\ GoTo(p, "target")
        /\ UNCHANGED <<tableVars, req, target, tx, reply>>
    BY <1>5 DEF LoadActor
  <2>2. pc'[p] = "target" /\ req'[p] = req[p] /\ actor'[p] = r /\ tx'[p] = tx[p]
    BY <1>1, <2>1 DEF GoTo, TypeOK
  <2>3. Stage(p)'
    BY <1>1, <1>2, <1>5, <2>1, <2>2 DEF Stage, Role, tableVars
  <2>4. Created(p)'
    BY <1>1, <2>1, <2>2 DEF Created, tableVars
  <2> HIDE DEF r
  <2> QED
    BY <1>1, <1>3, <2>1, <2>3, <2>4, MoveKeeps DEF Steps, TypeOK
<1> QED
  BY <1>4, <1>5

LEMMA LoadTargetKeeps ==
    ASSUME IInv, NEW p \in Procs, LoadTarget(p)
    PROVE  IInv'
<1> DEFINE r == Role(p, req[p].user)
           v == IF r = NULL THEN "not_found" ELSE RoleChangeVerdict(p, r)
<1>1. Stage(p) /\ Created(p) /\ TypeOK /\ pc[p] = "target"
  BY DEF IInv, LoadTarget
<1>2. req[p].kind = "role" /\ req[p].team \in TeamIds /\ req[p].user \in Users
  BY <1>1, Shapes DEF Stage
<1>3. r \in Roles \cup {NULL}
  BY <1>1, <1>2 DEF Role, TypeOK
<1>4. CASE v # NULL
  <2>1. v \in Codes
    BY <1>4, CodesKnown DEF RoleChangeVerdict
  <2> QED
    BY <1>4, <2>1, AnswerOnly DEF LoadTarget
<1>5. CASE v = NULL
  <2>1. actor[p] = "owner" /\ r \in {"admin", "member"} /\ Assignable(req[p].role)
    BY <1>3, <1>5, CodesKnown, NullAssumption DEF RoleChangeVerdict, Roles
  <2>2. /\ target' = [target EXCEPT ![p] = r] /\ GoTo(p, "set")
        /\ UNCHANGED <<tableVars, req, actor, tx, reply>>
    BY <1>5 DEF LoadTarget
  <2>3. pc'[p] = "set" /\ req'[p] = req[p] /\ actor'[p] = actor[p] /\ tx'[p] = tx[p]
    BY <1>1, <2>2 DEF GoTo, TypeOK
  <2>4. Stage(p)'
    BY <1>1, <1>2, <2>1, <2>2, <2>3 DEF Stage, Role, tableVars
  <2>5. Created(p)'
    BY <1>1, <2>2, <2>3 DEF Created, tableVars
  <2>6. /\ actor' = [actor EXCEPT ![p] = actor[p]] /\ actor[p] \in Roles \cup {NULL}
        /\ target' \in [Procs -> Roles \cup {NULL}]
    BY <1>1, <1>3, <2>2 DEF TypeOK
  <2> HIDE DEF r, v
  <2> QED
    BY <2>2, <2>4, <2>5, <2>6, MoveKeeps DEF Steps
<1> QED
  BY <1>4, <1>5

LEMMA RecheckKeeps ==
    ASSUME IInv, NEW p \in Procs, Recheck(p)
    PROVE  IInv'
  BY AnswerOnly, CodesKnown DEF Recheck

LEMMA DbErrorKeeps ==
    ASSUME IInv, NEW p \in Procs, DbError(p)
    PROVE  IInv'
  BY AnswerOnly, CodesKnown DEF DbError

LEMMA InsertOwnerKeeps ==
    ASSUME IInv, NEW p \in Procs, InsertOwner(p)
    PROVE  IInv'
<1>1. Stage(p) /\ Created(p) /\ TypeOK /\ pc[p] = "insertOwner"
  BY DEF IInv, InsertOwner
<1>2. req[p].actor \in Users /\ tx[p] \in Transactions
  BY <1>1, Shapes DEF Created
<1>3. /\ tx' = [tx EXCEPT ![p].owner = req[p].actor] /\ GoTo(p, "commit")
      /\ UNCHANGED <<tableVars, req, actor, target, reply>>
  BY DEF InsertOwner
<1>4. tx'[p] \in Transactions /\ tx'[p].team = tx[p].team /\ tx'[p].owner = req[p].actor
  BY <1>1, <1>2, <1>3 DEF TypeOK, Transactions
<1>5. RequestTypes'
  <2>1. tx' \in [Procs -> Transactions \cup {NULL}]
    BY <1>1, <1>3, <1>4 DEF TypeOK
  <2> QED
    BY <1>1, <1>3, <2>1 DEF RequestTypes, TypeOK, GoTo, Steps
<1>6. OthersUntouched(p)
  BY <1>1, <1>3 DEF OthersUntouched, GoTo, TypeOK
<1>7. pc'[p] = "commit" /\ req'[p] = req[p]
  BY <1>1, <1>3 DEF GoTo, TypeOK
<1>8. Stage(p)'
  BY <1>1, <1>7 DEF Stage
<1>9. tx[p] # NULL /\ tx'[p] # NULL
  BY <1>1, <1>4, NullAssumption DEF Created
<1>10. Created(p)'
  BY <1>1, <1>3, <1>4, <1>7, <1>9 DEF Created, tableVars
<1> QED
  BY <1>3, <1>4, <1>5, <1>6, <1>8, <1>9, <1>10, RequestStepKeeps

-----------------------------------------------------------------------------
(* The steps that write. *)

LEMMA InsertTeamKeeps ==
    ASSUME IInv, NEW p \in Procs, InsertTeam(p)
    PROVE  IInv'
<1>1. Stage(p) /\ Created(p) /\ TypeOK /\ pc[p] = "insertTeam"
  BY DEF IInv, InsertTeam
<1>2. CASE nextTeam > MaxTeams
  <2>1. Answer(p, "internal_error") /\ UNCHANGED tableVars
    BY <1>2 DEF InsertTeam, tableVars
  <2> QED
    BY <2>1, AnswerOnly, CodesKnown
<1>3. CASE ~(nextTeam > MaxTeams)
  <2> DEFINE new == [team |-> nextTeam, owner |-> NULL]
  <2>1. /\ nextTeam' = nextTeam + 1 /\ tx' = [tx EXCEPT ![p] = new]
        /\ GoTo(p, "insertOwner")
        /\ UNCHANGED <<creator, member, req, actor, target, reply>>
    BY <1>3 DEF InsertTeam
  <2>2. nextTeam \in TeamIds /\ nextTeam \in Nat /\ nextTeam' \in 1..(MaxTeams + 1)
    BY <1>1, <1>3, <2>1, TeamBoundAssumption DEF TypeOK, TeamIds
  <2>3. new \in Transactions /\ new # NULL /\ new.team = nextTeam
    BY <2>2, NullAssumption DEF Transactions
  <2> HIDE DEF new
  <2>4. TypeOK'
    BY <1>1, <2>1, <2>2, <2>3 DEF TypeOK, GoTo, Steps
  <2>5. pc'[p] = "insertOwner" /\ req'[p] = req[p] /\ tx'[p] = new
    BY <1>1, <2>1 DEF GoTo, TypeOK
  <2>6. Stage(p)'
    BY <1>1, <2>5 DEF Stage
  <2>7. creator'[nextTeam] = NULL
    BY <2>1, <2>2 DEF IInv, IdsFresh
  <2>8. Created(p)'
    BY <2>1, <2>2, <2>3, <2>5, <2>7 DEF Created
  <2>9. OthersUntouched(p)
    BY <1>1, <2>1 DEF OthersUntouched, GoTo, TypeOK
  <2>10. ASSUME NEW q \in Procs PROVE Stage(q)' /\ Created(q)'
    BY <2>1, <2>2, <2>4, <2>6, <2>8, <2>9, OthersKeep DEF MembersKept
  <2>11. IdsDistinct'
    <3>1. ASSUME NEW q \in Procs \ {p}, tx'[q] # NULL
          PROVE  tx'[q].team # nextTeam
      <4>1. tx'[q] = tx[q] /\ Created(q) /\ tx[q] \in Transactions
        BY <1>1, <2>9, <3>1 DEF OthersUntouched, IInv, TypeOK
      <4> QED
        BY <2>2, <3>1, <4>1 DEF Created, Transactions, TeamIds
    <3> QED
      BY <2>3, <2>5, <2>9, <3>1 DEF IInv, IdsDistinct, OthersUntouched
  <2>12. IdsFresh' /\ OwnerIsCreator'
    BY <2>1, <2>2 DEF IInv, IdsFresh, OwnerIsCreator, TeamIds
  <2> QED
    BY <2>4, <2>10, <2>11, <2>12 DEF IInv
<1> QED
  BY <1>2, <1>3

\* A write to the tables together with the answer.
LEMMA WriteAndAnswerKeeps ==
    ASSUME IInv, NEW p \in Procs, NEW code \in Codes, Answer(p, code),
           TableTypes', MembersKept, OwnerIsCreator', nextTeam' = nextTeam,
           \A t \in TeamIds : creator'[t] = creator[t]
                               \/ (tx[p] # NULL /\ t = tx[p].team)
    PROVE  IInv'
<1>1. /\ RequestTypes' /\ OthersUntouched(p)
      /\ Stage(p)' /\ Created(p)' /\ tx'[p] = NULL
  BY AnswerKeeps DEF IInv
<1>2. TypeOK'
  BY <1>1 DEF TypeOK, TableTypes, RequestTypes
<1>3. nextTeam <= nextTeam'
  BY DEF IInv, TypeOK
<1>4. ASSUME NEW q \in Procs PROVE Stage(q)' /\ Created(q)'
  BY <1>1, <1>2, <1>3, OthersKeep
<1>5. IdsDistinct'
  BY <1>1 DEF IInv, IdsDistinct, OthersUntouched
<1>6. IdsFresh'
  <2>1. tx[p] # NULL => tx[p].team < nextTeam /\ tx[p].team \in TeamIds
    BY DEF IInv, TypeOK, Created, Transactions
  <2> QED
    BY <2>1 DEF IInv, IdsFresh, TypeOK, TeamIds
<1> QED
  BY <1>2, <1>4, <1>5, <1>6 DEF IInv

\* The commit of a team: the row, its owner and nobody else.
LEMMA PublishTables ==
    ASSUME IInv, NEW p \in Procs, pc[p] = "commit", Publish(p)
    PROVE  /\ TableTypes' /\ MembersKept /\ OwnerIsCreator'
           /\ \A t \in TeamIds : creator'[t] = creator[t]
                                  \/ (tx[p] # NULL /\ t = tx[p].team)
           /\ Table!CreateTeam(tx[p].team, req[p].actor)
           /\ tx[p].team \in TeamIds /\ req[p].actor \in Users
<1> DEFINE t == tx[p].team
           u == req[p].actor
<1>1. Stage(p) /\ Created(p) /\ TypeOK
  BY DEF IInv
<1>2. u \in Users /\ tx[p] # NULL /\ tx[p] \in Transactions
  BY <1>1, Shapes DEF Created
<1>3. t \in TeamIds /\ creator[t] = NULL /\ tx[p].owner = u
  BY <1>1, <1>2 DEF Created, Transactions
<1>4. creator' = [creator EXCEPT ![t] = u] /\ member' = [member EXCEPT ![t][u] = "owner"]
      /\ nextTeam' = nextTeam
  BY <1>3 DEF Publish
<1> HIDE DEF t, u
<1>5. \A w \in Users : member[t][w] = NULL
  BY <1>3 DEF IInv, OwnerIsCreator
<1>6. TableTypes'
  BY <1>1, <1>2, <1>3, <1>4 DEF TypeOK, TableTypes, Roles
<1>7. /\ \A w \in Users : member'[t][w] = IF w = u THEN "owner" ELSE NULL
      /\ \A s \in TeamIds \ {t} : member'[s] = member[s] /\ creator'[s] = creator[s]
      /\ creator'[t] = u
  BY <1>1, <1>2, <1>3, <1>4, <1>5 DEF TypeOK
<1>8. MembersKept
  BY <1>5, <1>7 DEF MembersKept
<1>9. OwnerIsCreator'
  <2>1. u # NULL /\ NULL # "owner"
    BY <1>2, NullAssumption DEF Roles
  <2> QED
    BY <1>7, <2>1 DEF IInv, OwnerIsCreator
<1>10. Table!CreateTeam(t, u)
  BY <1>4, <1>5 DEF Table!CreateTeam
<1> QED
  BY <1>2, <1>3, <1>6, <1>7, <1>8, <1>9, <1>10 DEF t, u

\* A team that someone belongs to has an owner.
LEMMA MembersHaveOwner ==
    ASSUME IInv, NEW t \in TeamIds, NEW u \in Users, member[t][u] # NULL
    PROVE  Table!Exists(t)
  BY DEF IInv, OwnerIsCreator, TypeOK, Table!Exists

\* A role that an owner may hand out, for someone who is not the owner.
LEMMA SetMemberTables ==
    ASSUME IInv, NEW p \in Procs, NEW role \in {"admin", "member"},
           req[p].team \in TeamIds, req[p].user \in Users, req[p].actor \in Users,
           Role(p, req[p].actor) # NULL, Role(p, req[p].user) # "owner",
           SetMember(p, role), UNCHANGED <<creator, nextTeam>>
    PROVE  TableTypes' /\ MembersKept /\ OwnerIsCreator'
<1> DEFINE t == req[p].team
           u == req[p].user
<1>1. TypeOK /\ t \in TeamIds /\ u \in Users /\ member[t][u] # "owner"
      /\ member' = [member EXCEPT ![t][u] = role]
  BY DEF IInv, Role, SetMember
<1>2. Table!Exists(t)
  BY MembersHaveOwner DEF Role
<1> HIDE DEF t, u
<1>3. TableTypes'
  BY <1>1 DEF TypeOK, TableTypes, Roles
<1>4. /\ member'[t][u] = role
      /\ \A s \in TeamIds, w \in Users :
           ~(s = t /\ w = u) => member'[s][w] = member[s][w]
  BY <1>1 DEF TypeOK
<1>5. MembersKept
  BY <1>1, <1>4, NullAssumption DEF MembersKept, Roles
<1>6. creator[t] # NULL
  BY <1>1, <1>2, NullAssumption DEF IInv, OwnerIsCreator, Table!Exists
<1>7. OwnerIsCreator'
  <2>1. ASSUME NEW s \in TeamIds, NEW w \in Users
        PROVE  member'[s][w] = "owner" <=> member[s][w] = "owner"
    BY <1>1, <1>4
  <2>2. ASSUME NEW s \in TeamIds, creator[s] = NULL, NEW w \in Users
        PROVE  member'[s][w] = member[s][w]
    BY <1>4, <1>6, <2>2
  <2> QED
    BY <2>1, <2>2 DEF IInv, OwnerIsCreator
<1> QED
  BY <1>3, <1>5, <1>7

LEMMA CommitKeeps ==
    ASSUME IInv, NEW p \in Procs, CommitTeam(p) \/ CommitUnacknowledged(p)
    PROVE  /\ IInv'
           /\ Table!CreateTeam(tx[p].team, req[p].actor)
           /\ tx[p].team \in TeamIds /\ req[p].actor \in Users
<1>1. pc[p] = "commit" /\ Publish(p)
  BY DEF CommitTeam, CommitUnacknowledged
<1>2. PICK code \in Codes : Answer(p, code)
  BY CodesKnown DEF CommitTeam, CommitUnacknowledged
<1>3. nextTeam' = nextTeam
  BY <1>1 DEF Publish
<1> QED
  BY <1>1, <1>2, <1>3, PublishTables, WriteAndAnswerKeeps

\* Either a new member joins, or the statement had no effect.
LEMMA AddMemberKeeps ==
    ASSUME IInv, NEW p \in Procs, AddMember(p) \/ AddMemberUnacknowledged(p)
    PROVE  /\ IInv'
           /\ \/ member' = member
              \/ /\ req[p].team \in TeamIds /\ req[p].user \in Users
                 /\ req[p].role \in Roles
                 /\ Table!Join(req[p].team, req[p].user, req[p].role)
<1>1. Stage(p) /\ TypeOK /\ pc[p] = "add" /\ UNCHANGED <<creator, nextTeam>>
  BY DEF IInv, AddMember, AddMemberUnacknowledged
<1>2. /\ req[p].team \in TeamIds /\ req[p].user \in Users /\ req[p].actor \in Users
      /\ Role(p, req[p].actor) # NULL /\ req[p].role \in {"admin", "member"}
  BY <1>1, Shapes DEF Stage, Assignable
<1>3. PICK code \in Codes :
        /\ Answer(p, code)
        /\ IF Role(p, req[p].user) # NULL THEN UNCHANGED member
           ELSE SetMember(p, req[p].role)
  BY CodesKnown DEF AddMember, AddMemberUnacknowledged, InsertMember
<1>4. CASE Role(p, req[p].user) # NULL
  BY <1>1, <1>3, <1>4, AnswerOnly DEF tableVars
<1>5. CASE Role(p, req[p].user) = NULL
  <2>1. TableTypes' /\ MembersKept /\ OwnerIsCreator'
    BY <1>1, <1>2, <1>3, <1>5, NullAssumption, SetMemberTables DEF Roles
  <2>2. IInv'
    BY <1>1, <1>3, <2>1, WriteAndAnswerKeeps
  <2>3. Table!Exists(req[p].team)
    BY <1>2, MembersHaveOwner DEF Role
  <2>4. Table!Join(req[p].team, req[p].user, req[p].role)
    BY <1>2, <1>3, <1>5, <2>3 DEF Table!Join, Table!Assignable, SetMember, Role
  <2> QED
    BY <1>2, <2>2, <2>4 DEF Roles
<1> QED
  BY <1>4, <1>5

\* Either the role becomes the one asked for, or it already was.
LEMMA UpdateKeeps ==
    ASSUME IInv, NEW p \in Procs, UpdateMemberRole(p) \/ UpdateUnacknowledged(p)
    PROVE  /\ IInv'
           /\ \/ member' = member
              \/ /\ req[p].team \in TeamIds /\ req[p].user \in Users
                 /\ req[p].role \in Roles
                 /\ Table!SetRole(req[p].team, req[p].user, req[p].role)
<1>1. /\ Stage(p) /\ Created(p) /\ TypeOK /\ pc[p] = "set"
      /\ UNCHANGED <<creator, nextTeam>>
  BY DEF IInv, UpdateMemberRole, UpdateUnacknowledged
<1>2. /\ req[p].team \in TeamIds /\ req[p].user \in Users /\ req[p].actor \in Users
      /\ Role(p, req[p].actor) # NULL
      /\ Role(p, req[p].user) \in {"admin", "member"}
      /\ req[p].role \in {"admin", "member"}
  BY <1>1, Shapes DEF Stage, Assignable
<1>3. CASE \E code \in Codes : Answer(p, code) /\ SetMember(p, req[p].role)
  <2>1. PICK code \in Codes : Answer(p, code)
    BY <1>3
  <2>2. SetMember(p, req[p].role)
    BY <1>3
  <2>3. TableTypes' /\ MembersKept /\ OwnerIsCreator'
    BY <1>1, <1>2, <2>2, SetMemberTables
  <2>4. IInv'
    BY <1>1, <2>1, <2>3, WriteAndAnswerKeeps
  <2>5. CASE Role(p, req[p].user) = req[p].role
    <3>1. member' = member
      BY <1>1, <1>2, <2>2, <2>5 DEF SetMember, Role, TypeOK
    <3> QED
      BY <2>4, <3>1
  <2>6. CASE Role(p, req[p].user) # req[p].role
    <3>1. Table!SetRole(req[p].team, req[p].user, req[p].role)
      BY <1>2, <2>2, <2>6 DEF Table!SetRole, Table!Assignable, SetMember, Role
    <3> QED
      BY <1>2, <2>4, <3>1 DEF Roles
  <2> QED
    BY <2>5, <2>6
<1>4. CASE GoTo(p, "recheck") /\ UNCHANGED <<member, req, actor, target, tx, reply>>
  <2>1. pc'[p] = "recheck" /\ req'[p] = req[p] /\ actor'[p] = actor[p] /\ tx'[p] = tx[p]
    BY <1>1, <1>4 DEF GoTo, TypeOK
  <2>2. Stage(p)'
    BY <1>1, <1>4, <2>1 DEF Stage, Role
  <2>3. Created(p)'
    BY <1>1, <1>4, <2>1 DEF Created
  <2>4. /\ actor' = [actor EXCEPT ![p] = actor[p]] /\ actor[p] \in Roles \cup {NULL}
        /\ target' \in [Procs -> Roles \cup {NULL}]
    BY <1>1, <1>4 DEF TypeOK
  <2> QED
    BY <1>1, <1>4, <2>2, <2>3, <2>4, MoveKeeps DEF Steps, tableVars
<1> QED
  BY <1>3, <1>4, CodesKnown DEF UpdateMemberRole, UpdateUnacknowledged

LEMMA CrashKeeps ==
    ASSUME IInv, Crash
    PROVE  IInv'
<1> USE DEF Crash
<1>1. TypeOK'
  BY DEF IInv, TypeOK, Steps, tableVars
<1>2. ASSUME NEW p \in Procs PROVE Stage(p)' /\ Created(p)'
  BY DEF Stage, Created
<1>3. IdsDistinct' /\ IdsFresh' /\ OwnerIsCreator'
  BY DEF IInv, IdsDistinct, IdsFresh, OwnerIsCreator, tableVars
<1> QED
  BY <1>1, <1>2, <1>3 DEF IInv

-----------------------------------------------------------------------------
(* All steps. *)

\* The actions that write no row of team_members.
Quiet(p) ==
    \/ \E r \in Requests : Accept(p, r) \/ Refuse(p, r)
    \/ InsertTeam(p) \/ InsertOwner(p) \/ LoadInviter(p) \/ ResolveInvitee(p)
    \/ LoadActor(p) \/ LoadTarget(p) \/ Recheck(p) \/ DbError(p)

LEMMA QuietKeeps ==
    ASSUME IInv, NEW p \in Procs, Quiet(p)
    PROVE  IInv' /\ member' = member
<1>1. IInv'
  BY AcceptKeeps, RefuseKeeps, InsertTeamKeeps, InsertOwnerKeeps, LoadInviterKeeps,
     ResolveInviteeKeeps, LoadActorKeeps, LoadTargetKeeps, RecheckKeeps, DbErrorKeeps
     DEF Quiet
<1>2. member' = member
  BY DEF Quiet, Accept, Refuse, InsertTeam, InsertOwner, LoadInviter, ResolveInvitee,
         LoadActor, LoadTarget, Recheck, DbError, tableVars
<1> QED
  BY <1>1, <1>2

\* Every step keeps the invariant and is a step of the table or none.
LEMMA NextKeeps == IInv /\ [Next]_vars => IInv' /\ [Table!Next]_member
<1> SUFFICES ASSUME IInv, [Next]_vars PROVE IInv' /\ [Table!Next]_member
  OBVIOUS
<1>1. CASE UNCHANGED vars
  <2>1. UNCHANGED <<tableVars, pc, req, actor, target, tx, reply>>
    BY <1>1 DEF vars, requestVars
  <2>2. TypeOK'
    BY <2>1 DEF IInv, TypeOK, tableVars
  <2>3. ASSUME NEW p \in Procs PROVE Stage(p)' /\ Created(p)'
    BY <2>1 DEF IInv, Stage, Created, Role, tableVars
  <2>4. IdsDistinct' /\ IdsFresh' /\ OwnerIsCreator' /\ member' = member
    BY <2>1 DEF IInv, IdsDistinct, IdsFresh, OwnerIsCreator, tableVars
  <2> QED
    BY <2>2, <2>3, <2>4 DEF IInv
<1>2. ASSUME NEW p \in Procs, Quiet(p)
      PROVE  IInv' /\ [Table!Next]_member
  BY <1>2, QuietKeeps
<1>3. ASSUME NEW p \in Procs, CommitTeam(p) \/ CommitUnacknowledged(p)
      PROVE  IInv' /\ [Table!Next]_member
  BY <1>3, CommitKeeps DEF Table!Next
<1>4. ASSUME NEW p \in Procs, AddMember(p) \/ AddMemberUnacknowledged(p)
      PROVE  IInv' /\ [Table!Next]_member
  BY <1>4, AddMemberKeeps DEF Table!Next, Table!Roles, Roles
<1>5. ASSUME NEW p \in Procs, UpdateMemberRole(p) \/ UpdateUnacknowledged(p)
      PROVE  IInv' /\ [Table!Next]_member
  BY <1>5, UpdateKeeps DEF Table!Next, Table!Roles, Roles
<1>6. CASE Crash
  BY <1>6, CrashKeeps DEF Crash, tableVars
<1> QED
  BY <1>1, <1>2, <1>3, <1>4, <1>5, <1>6 DEF Next, Serve, Fail, Quiet

\* The invariant that makes the late checks of Teams right: what a request
\* established about owners and members is still true when it writes.
THEOREM InvariantHolds == Spec => []IInv
  BY InitIInv, NextKeeps, PTL DEF Spec

\* The property TypeOK: tables and requests keep their types.
THEOREM TypesHold == Spec => []TypeOK
<1>1. IInv => TypeOK
  BY DEF IInv
<1> QED
  BY <1>1, InvariantHolds, PTL

\* The property OwnerIsCreator: CreateTeam writes a team and its owner, or
\* neither, and nothing ever parts them.
THEOREM OwnerAlwaysCreator == Spec => []OwnerIsCreator
<1>1. IInv => OwnerIsCreator
  BY DEF IInv
<1> QED
  BY <1>1, InvariantHolds, PTL

\* The property RecheckFindsMember: UpdateMemberRole never ends in a 500 only
\* because the member already had the role.
THEOREM RecheckAlwaysFinds == Spec => []RecheckFindsMember
<1>1. IInv => RecheckFindsMember
  BY NullAssumption DEF IInv, RecheckFindsMember, Stage, Roles
<1> QED
  BY <1>1, InvariantHolds, PTL

\* The property ImplementsTable: for any number of requests, users and teams,
\* CreateTeam, InviteMember and ChangeMemberRole do to team_members what
\* TeamRoles allows, and nothing else.
THEOREM TeamsImplementTeamRoles == Spec => ImplementsTable
<1>1. Init => Table!Init
  BY DEF Init, Table!Init
<1> QED
  BY <1>1, InitIInv, NextKeeps, PTL DEF Spec, ImplementsTable, Table!Spec

\* A change of a role that is there is an update by the owner.
LEMMA ChangeIsByOwner ==
    ASSUME IInv, [Next]_vars, NEW t \in TeamIds, NEW u \in Users,
           member[t][u] # NULL, member'[t][u] # member[t][u]
    PROVE  \E p \in Procs : /\ pc[p] = "set"
                            /\ req[p].team = t /\ req[p].user = u
                            /\ member[t][req[p].actor] = "owner"
<1>1. TypeOK /\ member' # member
  BY DEF IInv
<1>2. ASSUME NEW p \in Procs, UpdateMemberRole(p) \/ UpdateUnacknowledged(p)
      PROVE  /\ pc[p] = "set"
             /\ req[p].team = t /\ req[p].user = u
             /\ member[t][req[p].actor] = "owner"
  <2>1. pc[p] = "set" /\ Stage(p)
    BY <1>2 DEF IInv, UpdateMemberRole, UpdateUnacknowledged
  <2>2. Table!SetRole(req[p].team, req[p].user, req[p].role)
        /\ req[p].team \in TeamIds /\ req[p].user \in Users
    BY <1>1, <1>2, UpdateKeeps
  <2>3. req[p].team = t /\ req[p].user = u
    BY <1>1, <2>2 DEF Table!SetRole, TypeOK
  <2> QED
    BY <2>1, <2>3 DEF Stage, Role
<1>3. ASSUME NEW p \in Procs, AddMember(p) \/ AddMemberUnacknowledged(p)
      PROVE  FALSE
  <2>1. Table!Join(req[p].team, req[p].user, req[p].role)
        /\ req[p].team \in TeamIds /\ req[p].user \in Users
    BY <1>1, <1>3, AddMemberKeeps
  <2> QED
    BY <1>1, <2>1 DEF Table!Join, TypeOK
<1>4. ASSUME NEW p \in Procs, CommitTeam(p) \/ CommitUnacknowledged(p)
      PROVE  FALSE
  <2>1. Table!CreateTeam(tx[p].team, req[p].actor)
        /\ tx[p].team \in TeamIds /\ req[p].actor \in Users
    BY <1>4, CommitKeeps
  <2> QED
    BY <1>1, <2>1 DEF Table!CreateTeam, TypeOK
<1>5. ASSUME NEW p \in Procs, Quiet(p) PROVE FALSE
  BY <1>1, <1>5, QuietKeeps
<1>6. ~Crash /\ ~UNCHANGED vars
  BY <1>1 DEF Crash, tableVars, vars
<1> QED
  BY <1>2, <1>3, <1>4, <1>5, <1>6 DEF Next, Serve, Fail, Quiet

\* The property RolesChangeByOwner: no late or repeated invite and no request
\* of an admin changes a role, though UPDATE and INSERT repeat no check.
THEOREM RolesAlwaysChangeByOwner == Spec => RolesChangeByOwner
<1>1. IInv /\ [Next]_vars
        => [\A t \in TeamIds, u \in Users :
             (member[t][u] # NULL /\ member'[t][u] # member[t][u]) =>
               \E p \in Procs :
                 /\ pc[p] = "set"
                 /\ req[p].team = t /\ req[p].user = u
                 /\ member[t][req[p].actor] = "owner"]_vars
  BY ChangeIsByOwner
<1> QED
  BY <1>1, InvariantHolds, PTL DEF Spec, RolesChangeByOwner

\* A member who was none before founded the team or was invited to it.
LEMMA JoinIsByInvitation ==
    ASSUME IInv, [Next]_vars, NEW t \in TeamIds, NEW u \in Users,
           member[t][u] = NULL, member'[t][u] # NULL
    PROVE  \E p \in Procs :
             \/ pc[p] = "commit" /\ tx[p].team = t /\ req[p].actor = u
             \/ /\ pc[p] = "add" /\ req[p].team = t /\ req[p].user = u
                /\ CanManageMembers(actor[p])
                /\ member[t][req[p].actor] # NULL
<1>1. TypeOK /\ member' # member
  BY DEF IInv
<1>2. ASSUME NEW p \in Procs, CommitTeam(p) \/ CommitUnacknowledged(p)
      PROVE  pc[p] = "commit" /\ tx[p].team = t /\ req[p].actor = u
  <2>1. /\ Table!CreateTeam(tx[p].team, req[p].actor)
        /\ tx[p].team \in TeamIds /\ req[p].actor \in Users
    BY <1>2, CommitKeeps
  <2>2. tx[p].team = t /\ req[p].actor = u
    BY <1>1, <2>1 DEF Table!CreateTeam, TypeOK
  <2> QED
    BY <1>2, <2>2 DEF CommitTeam, CommitUnacknowledged
<1>3. ASSUME NEW p \in Procs, AddMember(p) \/ AddMemberUnacknowledged(p)
      PROVE  /\ pc[p] = "add" /\ req[p].team = t /\ req[p].user = u
             /\ CanManageMembers(actor[p])
             /\ member[t][req[p].actor] # NULL
  <2>1. pc[p] = "add" /\ Stage(p)
    BY <1>3 DEF IInv, AddMember, AddMemberUnacknowledged
  <2>2. /\ Table!Join(req[p].team, req[p].user, req[p].role)
        /\ req[p].team \in TeamIds /\ req[p].user \in Users
    BY <1>1, <1>3, AddMemberKeeps
  <2>3. req[p].team = t /\ req[p].user = u
    BY <1>1, <2>2 DEF Table!Join, TypeOK
  <2> QED
    BY <2>1, <2>3 DEF Stage, Role
<1>4. ASSUME NEW p \in Procs, UpdateMemberRole(p) \/ UpdateUnacknowledged(p)
      PROVE  FALSE
  <2>1. /\ Table!SetRole(req[p].team, req[p].user, req[p].role)
        /\ req[p].team \in TeamIds /\ req[p].user \in Users
    BY <1>1, <1>4, UpdateKeeps
  <2> QED
    BY <1>1, <2>1, NullAssumption DEF Table!SetRole, TypeOK, Roles
<1>5. ASSUME NEW p \in Procs, Quiet(p) PROVE FALSE
  BY <1>1, <1>5, QuietKeeps
<1>6. ~Crash /\ ~UNCHANGED vars
  BY <1>1 DEF Crash, tableVars, vars
<1> QED
  BY <1>2, <1>3, <1>4, <1>5, <1>6 DEF Next, Serve, Fail, Quiet

\* The property JoinByInvitation: nobody gets into a team but by founding it
\* or by an invite of a member who was read as owner or admin, though AddMember
\* asks for nobody's role (domain.AuthorizeInvite).
THEOREM MembersAlwaysJoinByInvitation == Spec => JoinByInvitation
<1>1. IInv /\ [Next]_vars
        => [\A t \in TeamIds, u \in Users :
             (member[t][u] = NULL /\ member'[t][u] # NULL) =>
               \E p \in Procs :
                 \/ pc[p] = "commit" /\ tx[p].team = t /\ req[p].actor = u
                 \/ /\ pc[p] = "add" /\ req[p].team = t /\ req[p].user = u
                    /\ CanManageMembers(actor[p])
                    /\ member[t][req[p].actor] # NULL]_vars
  BY JoinIsByInvitation
<1> QED
  BY <1>1, InvariantHolds, PTL DEF Spec, JoinByInvitation

-----------------------------------------------------------------------------
(* Refusals. *)

\* A request that is still being served has no answer yet.
Unanswered == \A p \in Procs : pc[p] # "idle" => reply[p] = NULL

\* What a step does to the answers: it answers its own request, or moves it
\* on without an answer, and leaves the others'.
Replies(p) ==
    /\ \A q \in Procs \ {p} : pc'[q] = pc[q] /\ reply'[q] = reply[q]
    /\ \/ pc'[p] = "idle"
       \/ reply'[p] = NULL
       \/ pc[p] # "idle" /\ reply'[p] = reply[p]

LEMMA StepReplies ==
    ASSUME TypeOK, NEW p \in Procs,
           \/ \E r \in Requests : Accept(p, r) \/ Refuse(p, r)
           \/ Serve(p) \/ Fail(p)
    PROVE  Replies(p)
<1>1. CASE \E code : Answer(p, code)
  BY <1>1 DEF Answer, Replies, TypeOK
<1>2. CASE pc[p] # "idle" /\ reply' = reply /\ \E step : GoTo(p, step)
  BY <1>2 DEF GoTo, Replies, TypeOK
<1>3. CASE \E r \in Requests : Accept(p, r)
  BY <1>3 DEF Accept, GoTo, Replies, TypeOK
<1>4. CASE Fail(p)
  BY <1>1, <1>4 DEF Fail, CommitUnacknowledged, AddMemberUnacknowledged, InsertMember,
                    UpdateUnacknowledged, DbError
<1>5. CASE InsertTeam(p) \/ InsertOwner(p) \/ CommitTeam(p)
  BY <1>1, <1>2, <1>5 DEF InsertTeam, InsertOwner, CommitTeam
<1>6. CASE LoadInviter(p) \/ ResolveInvitee(p) \/ AddMember(p)
  BY <1>1, <1>2, <1>6 DEF LoadInviter, ResolveInvitee, AddMember, InsertMember
<1>7. CASE LoadActor(p) \/ LoadTarget(p) \/ UpdateMemberRole(p) \/ Recheck(p)
  BY <1>1, <1>2, <1>7 DEF LoadActor, LoadTarget, UpdateMemberRole, Recheck
<1> QED
  BY <1>1, <1>3, <1>4, <1>5, <1>6, <1>7 DEF Refuse, Serve

LEMMA NextUnanswered == IInv /\ Unanswered /\ [Next]_vars => Unanswered'
<1> SUFFICES ASSUME IInv, Unanswered, [Next]_vars PROVE Unanswered'
  OBVIOUS
<1>1. ASSUME NEW p \in Procs, Replies(p) PROVE Unanswered'
  BY <1>1 DEF Unanswered, Replies
<1>2. CASE Crash
  BY <1>2 DEF Crash, Unanswered
<1>3. CASE UNCHANGED vars
  BY <1>3 DEF vars, requestVars, Unanswered
<1> QED
  BY <1>1, <1>2, <1>3, StepReplies DEF Next, IInv

\* Whoever is told "forbidden" after the second look was no owner at the first,
\* and is none now, or asks to change the owner.
LEMMA RefusalIsDeserved ==
    ASSUME IInv, Unanswered, [Next]_vars,
           NEW p \in Procs, pc[p] = "target", reply'[p] = "forbidden"
    PROVE  /\ Role(p, req[p].actor) # NULL
           /\ \/ Role(p, req[p].actor) # "owner"
              \/ Role(p, req[p].user) = "owner"
<1>1. /\ TypeOK /\ Stage(p) /\ reply[p] = NULL /\ NULL # "forbidden"
      /\ reply' # reply
  BY NullAssumption DEF IInv, Unanswered, Codes
<1>2. CASE LoadTarget(p)
  <2>1. Role(p, req[p].user) # NULL
        => RoleChangeVerdict(p, Role(p, req[p].user)) = "forbidden"
    BY <1>1, <1>2 DEF LoadTarget, Answer, TypeOK
  <2>2. Role(p, req[p].user) # NULL
    BY <1>1, <1>2 DEF LoadTarget, Answer, TypeOK
  <2> QED
    BY <1>1, <2>1, <2>2 DEF RoleChangeVerdict, Stage
<1>3. CASE DbError(p)
  BY <1>1, <1>3 DEF DbError, Answer, TypeOK
<1>4. ASSUME NEW q \in Procs, q # p, Replies(q) PROVE FALSE
  BY <1>1, <1>4 DEF Replies
<1>5. CASE Crash
  BY <1>1, <1>5 DEF Crash
<1>6. CASE UNCHANGED vars
  BY <1>1, <1>6 DEF vars, requestVars
<1>7. ASSUME \/ \E r \in Requests : Accept(p, r) \/ Refuse(p, r)
             \/ Serve(p) /\ ~LoadTarget(p)
             \/ Fail(p) /\ ~DbError(p)
      PROVE  FALSE
  BY <1>7 DEF Accept, Refuse, Serve, Fail, InsertTeam, InsertOwner, CommitTeam,
              LoadInviter, ResolveInvitee, AddMember, LoadActor, UpdateMemberRole,
              Recheck, CommitUnacknowledged, AddMemberUnacknowledged, UpdateUnacknowledged
<1> QED
  BY <1>1, <1>2, <1>3, <1>4, <1>5, <1>6, <1>7, StepReplies DEF Next, Serve, Fail

\* The property ForbiddenIsDeserved: ChangeMemberRole refuses on a role that it
\* read by an earlier query, and is right nevertheless.
THEOREM ForbiddenAlwaysDeserved == Spec => ForbiddenIsDeserved
<1>1. Init => Unanswered
  BY DEF Init, Unanswered
<1>2. IInv /\ Unanswered /\ [Next]_vars
        => [\A p \in Procs :
             (pc[p] = "target" /\ reply'[p] = "forbidden") =>
               /\ Role(p, req[p].actor) # NULL
               /\ \/ Role(p, req[p].actor) # "owner"
                  \/ Role(p, req[p].user) = "owner"]_vars
  BY RefusalIsDeserved
<1> QED
  BY <1>1, <1>2, NextUnanswered, InvariantHolds, PTL DEF Spec, ForbiddenIsDeserved
=============================================================================
