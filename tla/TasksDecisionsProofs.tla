------------------------ MODULE TasksDecisionsProofs ------------------------
(***************************************************************************)
(* Proofs about Tasks that rest on its invariant IInv: the row at a commit *)
(* is the snapshot on which the request decided.  Hence Tasks implements   *)
(* TaskBoard, commits only what the role that was read allows, closes      *)
(* tasks as their status says and gives them to members of their team.     *)
(***************************************************************************)
EXTENDS TasksProofs

\* What a step leaves to a process that does not move.
Unmoved(q) ==
    /\ pc'[q] = pc[q] /\ req'[q] = req[q] /\ snap'[q] = snap[q]
    /\ role'[q] = role[q] /\ next'[q] = next[q] /\ tx'[q] = tx[q]

ProcStep(p) == Receive(p) \/ Step(p) \/ CommitUnacknowledged(p) \/ DbError(p)

\* Nobody leaves a team, and its owner is its owner for good.
Staying ==
    \A t \in Teams, u \in Users :
      member[t][u] # NULL => /\ member'[t][u] # NULL
                             /\ member[t][u] = "owner" <=> member'[t][u] = "owner"

(***************************************************************************)
(* What a request has found and computed: conclusions about its own        *)
(* snapshot and the role it read, which nobody else changes, and about the *)
(* memberships of the table, which others do change but never take away.   *)
(* That the row is still the snapshot at the commit is IInv's part.        *)
(***************************************************************************)
Decided(p) ==
    /\ pc[p] \in {"assignee", "update", "insert", "history", "commit", "invalidate"} =>
         /\ Membership(TargetTeam(p), req[p].actor) # NULL
         /\ IsUpdate(p) =>
              /\ role[p] \in Roles
              /\ role[p] = "owner" <=> Membership(TargetTeam(p), req[p].actor) = "owner"
              /\ VersionMatches(p)
              /\ Authorized(p, role[p])
              /\ DOMAIN PatchChanges(p) # {}
    /\ pc[p] \in {"update", "insert", "history", "commit"} =>
         LET assignee == next[p].body["assignee_id"]
             status == next[p].body["status"]
         IN  /\ assignee # NULL => Membership(TargetTeam(p), assignee) # NULL
             /\ IF IsUpdate(p)
                THEN \E now \in Times :
                       next[p].closed_at = CloseTimestamp(snap[p], status, now)
                ELSE next[p].closed_at = NULL

WritesAreDecided == \A p \in Procs : Decided(p)

-----------------------------------------------------------------------------
\* A step of a request is one of that request alone, and changes no member.
LEMMA StepIsAlone ==
    ASSUME TypeOK, NEW p \in Procs, ProcStep(p)
    PROVE  member' = member /\ \A q \in Procs \ {p} : Unmoved(q)
<1> USE DEF TypeOK, Unmoved, Answer, Rollback, GoTo
<1>1. CASE Receive(p)
  BY <1>1 DEF Receive, Accept, Refuse
<1>2. CASE LoadTask(p) \/ LoadActor(p) \/ LoadMember(p)
  BY <1>2 DEF LoadTask, LoadActor, LoadMember
<1>3. CASE CheckAssignee(p)
  BY <1>3 DEF CheckAssignee
<1>4. CASE UpdateRow(p) \/ InsertTask(p)
  BY <1>4 DEF UpdateRow, InsertTask
<1>5. CASE WriteHistory(p) \/ Commit(p) \/ Invalidate(p) \/ CommitUnacknowledged(p)
  BY <1>5 DEF WriteHistory, Commit, Invalidate, CommitUnacknowledged
<1>6. CASE DbError(p)
  BY <1>6 DEF DbError
<1> QED
  BY <1>1, <1>2, <1>3, <1>4, <1>5, <1>6 DEF ProcStep, Step, Handle

\* The same, said of the steps of the role table.
LEMMA MembersStaying ==
    ASSUME TypeOK, Team!Next
    PROVE  Staying
<1> USE DEF TypeOK, Staying, Team!MemberTable, Team!Roles
<1>1. PICK t \in Teams, u \in Users :
        \/ Team!CreateTeam(t, u)
        \/ \E r \in Team!Roles : Team!Join(t, u, r)
        \/ \E r \in Team!Roles : Team!SetRole(t, u, r)
  BY DEF Team!Next
<1>2. NULL \notin {"owner", "admin", "member"}
  BY NullAssumption DEF Roles
<1>3. CASE Team!CreateTeam(t, u)
  BY <1>2, <1>3 DEF Team!CreateTeam
<1>4. CASE \E r \in Team!Roles : Team!Join(t, u, r)
  BY <1>2, <1>4 DEF Team!Join
<1>5. CASE \E r \in Team!Roles : Team!SetRole(t, u, r)
  BY <1>2, <1>5 DEF Team!SetRole, Team!Assignable
<1> QED
  BY <1>1, <1>3, <1>4, <1>5

\* Whatever happens, memberships that a request has seen are still there.
LEMMA MembershipStays ==
    ASSUME TypeOK, [Next]_vars, NEW t \in Teams, NEW u,
           Membership(t, u) # NULL
    PROVE  /\ Membership(t, u)' # NULL
           /\ Membership(t, u) = "owner" <=> Membership(t, u)' = "owner"
<1>1. Staying
  <2>1. CASE UNCHANGED member
    BY <2>1 DEF Staying
  <2>2. CASE ChangeMembers
    BY <2>2, MembersStaying DEF ChangeMembers
  <2>3. ASSUME NEW p \in Procs, ProcStep(p) PROVE UNCHANGED member
    BY <2>3, StepIsAlone
  <2> QED
    BY <2>1, <2>2, <2>3 DEF Next, ProcStep, Crash, Tick, vars
<1> QED
  BY <1>1 DEF Staying, Membership

\* The team that a request is about, once it is known.
LEMMA TargetTeamType ==
    ASSUME TypeOK, NEW p \in Procs, Good(p),
           pc[p] \in Steps \ {"idle", "load", "member"}
    PROVE  TargetTeam(p) \in Teams
<1>1. pc[p] # "idle"
  OBVIOUS
<1>2. CASE IsUpdate(p)
  <2>1. snap[p] # NULL
    BY <1>1, <1>2 DEF Good, Stage
  <2> QED
    BY <1>1, <1>2, <2>1, Shapes DEF TargetTeam, TaskRows, Rows
<1>3. CASE ~IsUpdate(p)
  BY <1>1, <1>3, Shapes DEF TargetTeam
<1> QED
  BY <1>2, <1>3

\* A request that changes none of what it keeps, but for its transaction,
\* and goes on to write or to commit, still has its decisions.
LEMMA DecidedKept ==
    ASSUME IInv, NEW p \in Procs, Decided(p), [Next]_vars,
           UNCHANGED <<req[p], snap[p], role[p], next[p]>>,
           \/ pc'[p] = pc[p]
           \/ pc[p] \in {"update", "insert", "history", "commit"}
    PROVE  Decided(p)'
<1> DEFINE late == {"assignee", "update", "insert", "history", "commit", "invalidate"}
           writing == {"update", "insert", "history", "commit"}
<1>1. TypeOK /\ Good(p) /\ pc[p] \in Steps
  BY DEF IInv, Good, TypeOK
<1>2. CASE pc'[p] \notin late
  BY <1>2 DEF Decided
<1>3. CASE pc'[p] \in late
  <2>1. pc[p] \in late
    BY <1>3
  <2>2. TargetTeam(p) \in Teams
    BY <1>1, <2>1, TargetTeamType DEF Steps
  <2>3. /\ IsUpdate(p)' = IsUpdate(p) /\ TargetTeam(p)' = TargetTeam(p)
        /\ PatchChanges(p)' = PatchChanges(p) /\ VersionMatches(p)' = VersionMatches(p)
        /\ Authorized(p, role[p])' = Authorized(p, role[p])
    BY DEF IsUpdate, TargetTeam, PatchChanges, VersionMatches, Authorized
  <2>4. /\ Membership(TargetTeam(p), req[p].actor)' # NULL
        /\ Membership(TargetTeam(p), req[p].actor) = "owner"
             <=> Membership(TargetTeam(p), req[p].actor)' = "owner"
    BY <1>1, <2>1, <2>2, <2>3, MembershipStays DEF Decided, Membership
  <2>5. CASE pc'[p] \notin writing
    BY <2>1, <2>3, <2>4, <2>5 DEF Decided
  <2>6. CASE pc'[p] \in writing
    <3>1. pc[p] \in writing
      BY <2>6
    <3>2. next[p].body["assignee_id"] # NULL =>
            Membership(TargetTeam(p), next[p].body["assignee_id"])' # NULL
      BY <1>1, <2>2, <2>3, <3>1, MembershipStays DEF Decided, Membership
    <3> QED
      BY <2>1, <2>3, <2>4, <3>1, <3>2 DEF Decided
  <2> QED
    BY <2>5, <2>6
<1> QED
  BY <1>2, <1>3

\* An idle process has decided nothing.
LEMMA IdleDecided ==
    ASSUME NEW p \in Procs, pc'[p] \in {"idle", "load", "actor", "member"}
    PROVE  Decided(p)'
BY DEF Decided

LEMMA LoadActorDecides ==
    ASSUME IInv, NEW p \in Procs, LoadActor(p)
    PROVE  Decided(p)'
<1> DEFINE r == Membership(snap[p].team, req[p].actor)
<1>0. pc[p] = "actor" /\ TypeOK /\ Good(p)
  BY DEF IInv, Good, LoadActor
<1>1. CASE Verdict(p, r) # NULL
  BY <1>0, <1>1, IdleDecided DEF LoadActor, Answer, TypeOK
<1>2. CASE Verdict(p, r) = NULL
  <2>1. IsUpdate(p) /\ snap[p] \in TaskRows
    BY <1>0, Shapes DEF Good, Stage
  <2>2. /\ r # NULL /\ VersionMatches(p) /\ Authorized(p, r)
        /\ DOMAIN PatchChanges(p) # {}
    BY <1>2, NoRecordAssumption DEF Verdict, Codes
  <2>3. r \in Roles
    BY <1>0, <2>1, <2>2, MembershipType DEF TaskRows, Rows
  <2>4. /\ role'[p] = r /\ pc'[p] = "assignee"
        /\ UNCHANGED <<req, snap, member>>
    BY <1>0, <1>2 DEF LoadActor, GoTo, TypeOK
  <2>5. /\ IsUpdate(p)' /\ TargetTeam(p)' = snap[p].team
        /\ Membership(TargetTeam(p), req[p].actor)' = r
        /\ VersionMatches(p)' = VersionMatches(p)
        /\ Authorized(p, role[p])' = Authorized(p, r)
        /\ PatchChanges(p)' = PatchChanges(p)
    BY <2>1, <2>4
       DEF IsUpdate, TargetTeam, Membership, VersionMatches, Authorized, PatchChanges
  <2> QED
    BY <2>2, <2>3, <2>4, <2>5 DEF Decided
<1> QED
  BY <1>1, <1>2

LEMMA LoadMemberDecides ==
    ASSUME IInv, NEW p \in Procs, LoadMember(p)
    PROVE  Decided(p)'
<1> DEFINE r == Membership(req[p].team, req[p].actor)
<1>0. pc[p] = "member" /\ TypeOK /\ Good(p)
  BY DEF IInv, Good, LoadMember
<1>1. CASE r = NULL
  BY <1>0, <1>1, IdleDecided DEF LoadMember, Answer, TypeOK
<1>2. CASE r # NULL
  <2>1. ~IsUpdate(p)
    BY <1>0 DEF Good, Stage
  <2>2. pc'[p] = "assignee" /\ UNCHANGED <<req, snap, member>>
    BY <1>0, <1>2 DEF LoadMember, GoTo, TypeOK
  <2>3. ~IsUpdate(p)' /\ Membership(TargetTeam(p), req[p].actor)' = r
    BY <2>1, <2>2 DEF IsUpdate, TargetTeam, Membership
  <2> QED
    BY <1>2, <2>2, <2>3 DEF Decided
<1> QED
  BY <1>1, <1>2

LEMMA CheckAssigneeDecides ==
    ASSUME IInv, NEW p \in Procs, Decided(p), CheckAssignee(p)
    PROVE  Decided(p)'
<1> DEFINE missing == TargetAssignee(p) # NULL
                      /\ Membership(TargetTeam(p), TargetAssignee(p)) = NULL
           write == [body |-> TargetBody(p), closed_at |-> TargetClosedAt(p)]
<1>0. pc[p] = "assignee" /\ TypeOK /\ Good(p)
  BY DEF IInv, Good, CheckAssignee
<1>1. CASE missing
  BY <1>0, <1>1, IdleDecided DEF CheckAssignee, Answer, TypeOK
<1>2. CASE ~missing
  <2>1. /\ next'[p] = write
        /\ pc'[p] = IF IsUpdate(p) THEN "update" ELSE "insert"
        /\ UNCHANGED <<req, snap, role, member>>
    BY <1>0, <1>2 DEF CheckAssignee, GoTo, TypeOK
  <2>2. /\ IsUpdate(p)' = IsUpdate(p) /\ TargetTeam(p)' = TargetTeam(p)
        /\ PatchChanges(p)' = PatchChanges(p) /\ VersionMatches(p)' = VersionMatches(p)
        /\ Authorized(p, role[p])' = Authorized(p, role[p])
        /\ \A u : Membership(TargetTeam(p), u)' = Membership(TargetTeam(p), u)
    BY <2>1
       DEF IsUpdate, TargetTeam, PatchChanges, VersionMatches, Authorized, Membership
  <2>3. /\ Membership(TargetTeam(p), req[p].actor)' # NULL
        /\ Membership(TargetTeam(p), req[p].actor)'
             = Membership(TargetTeam(p), req[p].actor)
    BY <1>0, <2>1, <2>2 DEF Decided, Membership
  <2>4. next'[p].body["assignee_id"] # NULL =>
          Membership(TargetTeam(p), next[p].body["assignee_id"])' # NULL
    BY <1>2, <2>1, <2>2 DEF TargetAssignee, Membership
  <2>5. IF IsUpdate(p)
        THEN \E now \in Times :
               next'[p].closed_at = CloseTimestamp(snap[p], next'[p].body["status"], now)
        ELSE next'[p].closed_at = NULL
    <3>1. clock \in Times
      BY <1>0 DEF TypeOK
    <3> QED
      BY <2>1, <3>1 DEF TargetClosedAt
  <2> HIDE DEF write, missing
  <2> QED
    BY <1>0, <2>1, <2>2, <2>3, <2>4, <2>5 DEF Decided
<1> QED
  BY <1>1, <1>2

LEMMA StepDecides ==
    ASSUME IInv, NEW p \in Procs, Decided(p), ProcStep(p), [Next]_vars
    PROVE  Decided(p)'
<1>0. TypeOK /\ Good(p)
  BY DEF IInv, Good
<1>1. CASE pc'[p] = "idle"
  BY <1>1, IdleDecided
<1>2. CASE Receive(p)
  BY <1>0, <1>2, IdleDecided DEF Receive, Accept, Refuse, Answer, GoTo, TypeOK
<1>3. CASE LoadTask(p)
  BY <1>0, <1>3, IdleDecided DEF LoadTask, Answer, GoTo, TypeOK
<1>4. CASE UpdateRow(p) /\ pc'[p] # "idle"
  <2>1. pc[p] = "update" /\ UNCHANGED <<req, snap, role, next>>
    BY <1>0, <1>4 DEF UpdateRow, Answer, TypeOK
  <2> QED
    BY <2>1, DecidedKept
<1>5. CASE InsertTask(p) /\ pc'[p] # "idle"
  <2>1. pc[p] = "insert" /\ UNCHANGED <<req, snap, role, next>>
    BY <1>0, <1>5 DEF InsertTask, Answer, TypeOK
  <2> QED
    BY <2>1, DecidedKept
<1>6. CASE WriteHistory(p) \/ Commit(p)
  <2>1. pc[p] \in {"history", "commit"} /\ UNCHANGED <<req, snap, role, next>>
    BY <1>6 DEF WriteHistory, Commit
  <2> QED
    BY <2>1, DecidedKept
<1>7. CASE Invalidate(p) \/ CommitUnacknowledged(p) \/ DbError(p)
  BY <1>0, <1>7, IdleDecided DEF Invalidate, CommitUnacknowledged, DbError, Answer, TypeOK
<1> QED
  BY <1>1, <1>2, <1>3, <1>4, <1>5, <1>6, <1>7, LoadActorDecides, LoadMemberDecides,
     CheckAssigneeDecides DEF ProcStep, Step, Handle

LEMMA NextDecided == IInv /\ WritesAreDecided /\ [Next]_vars => WritesAreDecided'
<1> SUFFICES ASSUME IInv, WritesAreDecided, [Next]_vars, NEW q \in Procs
             PROVE  Decided(q)'
  BY DEF WritesAreDecided
<1>0. TypeOK /\ Decided(q)
  BY DEF IInv, WritesAreDecided
<1>1. ASSUME NEW p \in Procs, ProcStep(p) PROVE Decided(q)'
  <2>1. CASE q = p
    BY <1>0, <1>1, <2>1, StepDecides
  <2>2. CASE q # p
    <3>1. Unmoved(q)
      BY <1>0, <1>1, <2>2, StepIsAlone
    <3> QED
      BY <1>0, <3>1, DecidedKept DEF Unmoved
  <2> QED
    BY <2>1, <2>2
<1>2. CASE Crash
  BY <1>2, IdleDecided DEF Crash
<1>3. CASE ChangeMembers \/ Tick \/ UNCHANGED vars
  <2>1. UNCHANGED <<pc, req, snap, role, next>>
    BY <1>3 DEF ChangeMembers, Tick, vars, requestVars
  <2> QED
    BY <1>0, <2>1, DecidedKept
<1> QED
  BY <1>1, <1>2, <1>3 DEF Next, ProcStep

-----------------------------------------------------------------------------
\* What the transaction of an update puts into the tables.
LEMMA UpdatePublished ==
    ASSUME IInv, NEW p \in Procs, pc[p] = "commit", Publish(p), IsUpdate(p)
    PROVE  LET id == req[p].id IN
           /\ id \in TaskIds /\ snap[p] \in TaskRows /\ snap[p] # NULL
           /\ tasks[id] = snap[p] /\ next[p] \in Writes
           /\ next[p].body = Apply(snap[p].body, PatchChanges(p))
           /\ tasks' = [tasks EXCEPT ![id] =
                          EditedRow(snap[p], next[p].body, next[p].closed_at)]
           /\ history' = [history EXCEPT ![id] =
                            Append(@, [by |-> req[p].actor, changes |-> PatchChanges(p)])]
<1>1. TypeOK /\ Good(p) /\ Open(p) /\ pc[p] # "idle"
  BY DEF IInv, Good, Stage
<1>2. /\ req[p].id \in TaskIds /\ snap[p] # NULL /\ snap[p] \in TaskRows
      /\ next[p] \in Writes /\ next[p].body = TargetBody(p)
  BY <1>1, Shapes DEF Good, Stage
<1>3. /\ tx[p].id = req[p].id /\ tasks[req[p].id] = snap[p]
      /\ tx[p].row = WrittenRow(p)
  BY <1>1 DEF Good, TransactionIsNext
<1>4. history[req[p].id] \o tx[p].log = Append(history[req[p].id], Entry(p))
  BY <1>3, PublishedRow
<1>5. Entry(p) = [by |-> req[p].actor, changes |-> PatchChanges(p)]
  BY DEF Entry
<1>6. TargetBody(p) = Apply(snap[p].body, PatchChanges(p))
  BY DEF TargetBody
<1>7. tasks' = [tasks EXCEPT ![req[p].id] =
                  EditedRow(snap[p], next[p].body, next[p].closed_at)]
  BY <1>3 DEF Publish, WrittenRow
<1>8. history' = [history EXCEPT ![req[p].id] = Append(@, Entry(p))]
  BY <1>3, <1>4 DEF Publish
<1> QED
  BY <1>2, <1>3, <1>5, <1>6, <1>7, <1>8

\* What the transaction of a creation puts into the tables.
LEMMA CreationPublished ==
    ASSUME IInv, WritesAreDecided, NEW p \in Procs, pc[p] = "commit", Publish(p),
           ~IsUpdate(p)
    PROVE  LET id == tx[p].id
               body == NewBody(req[p].task)
           IN
           /\ id \in TaskIds /\ tasks[id] = NULL /\ next[p].body = body
           /\ body \in Bodies
           /\ tasks' = [tasks EXCEPT ![id] =
                          CreatedRow(req[p].team, req[p].actor, body, NULL)]
           /\ history' = [history EXCEPT ![id] =
                            Append(@, [by |-> req[p].actor,
                                       changes |-> CreationChanges(body)])]
<1> DEFINE body == NewBody(req[p].task)
<1>1. TypeOK /\ Good(p) /\ Open(p) /\ pc[p] # "idle" /\ Decided(p)
  BY DEF IInv, Good, Stage, WritesAreDecided
<1>2. tx[p] \in Transactions /\ tx[p].id \in TaskIds /\ next[p] \in Writes
  BY <1>1, Shapes DEF Good, Stage, Transactions
<1>3. next[p].body = body /\ next[p].closed_at = NULL
  BY <1>1 DEF Good, Stage, TargetBody, Decided
<1>4. body \in Bodies
  BY <1>2, <1>3 DEF Writes
<1>5. tasks[tx[p].id] = NULL /\ tx[p].row = CreatedRow(req[p].team, req[p].actor, body, NULL)
  BY <1>1, <1>3 DEF Good, TransactionIsNext, InsertedRow
<1>6. tx[p].row.body = body
  BY <1>5 DEF CreatedRow
<1>7. Entry(p) = [by |-> req[p].actor, changes |-> CreationChanges(body)]
  BY <1>6 DEF Entry
<1>8. history' = [history EXCEPT ![tx[p].id] = Append(@, Entry(p))]
  BY PublishedRow DEF Publish
<1>9. tasks' = [tasks EXCEPT ![tx[p].id] =
                  CreatedRow(req[p].team, req[p].actor, body, NULL)]
  BY <1>5 DEF Publish
<1> QED
  BY <1>2, <1>3, <1>4, <1>5, <1>7, <1>8, <1>9

\* TaskBoard speaks of the same rules and rows as Tasks.
LEMMA SameRules ==
    /\ Board!Roles = Roles
    /\ \A patch : Board!Validate(patch) <=> Validate(patch)
    /\ \A task : Board!ValidateNewTask(task) <=> ValidateNewTask(task)
    /\ \A task : Board!NewBody(task) = NewBody(task)
    /\ \A body : Board!CreationChanges(body) = CreationChanges(body)
    /\ \A body, patch : Board!Diff(body, patch) = Diff(body, patch)
    /\ \A body, changes : Board!Apply(body, changes) = Apply(body, changes)
    /\ \A row, status, now :
         Board!CloseTimestamp(row, status, now) = CloseTimestamp(row, status, now)
    /\ \A actor, row, changes :
         Board!AuthorizeTaskUpdate(actor, row, changes) <=>
           AuthorizeTaskUpdate(actor, row, changes)
    /\ \A row, body, at : Board!EditedRow(row, body, at) = EditedRow(row, body, at)
    /\ \A team, user, body, at :
         Board!CreatedRow(team, user, body, at) = CreatedRow(team, user, body, at)
<1>1. Board!Roles = Roles
  BY DEF Board!Roles, Roles
<1>2. \A patch : Board!Validate(patch) <=> Validate(patch)
  BY DEF Board!Validate, Validate, Board!Sets, Sets, Board!ValidTitle, ValidTitle,
         Board!Statuses, Statuses
<1>3. \A task : Board!ValidateNewTask(task) <=> ValidateNewTask(task)
  BY DEF Board!ValidateNewTask, ValidateNewTask, Board!ValidTitle, ValidTitle
<1>4. \A task : Board!NewBody(task) = NewBody(task)
  BY DEF Board!NewBody, NewBody, Board!Fields, Fields
<1>5. \A body : Board!CreationChanges(body) = CreationChanges(body)
  BY DEF Board!CreationChanges, CreationChanges, Board!Fields, Fields
<1>6. \A body, patch : Board!Diff(body, patch) = Diff(body, patch)
  BY DEF Board!Diff, Diff, Board!Target, Target
<1>7. \A body, changes : Board!Apply(body, changes) = Apply(body, changes)
  BY DEF Board!Apply, Apply, Board!Fields, Fields
<1>8. \A row, status, now :
        Board!CloseTimestamp(row, status, now) = CloseTimestamp(row, status, now)
  BY DEF Board!CloseTimestamp, CloseTimestamp, Board!Terminal, Terminal
<1>9. \A actor, row, changes :
        Board!AuthorizeTaskUpdate(actor, row, changes) <=>
          AuthorizeTaskUpdate(actor, row, changes)
  BY DEF Board!AuthorizeTaskUpdate, AuthorizeTaskUpdate, Board!CanEditAnyTask,
         CanEditAnyTask, Board!CreatorFields, CreatorFields, Board!AssigneeFields,
         AssigneeFields, Board!Fields, Fields
<1>10. \A row, body, at : Board!EditedRow(row, body, at) = EditedRow(row, body, at)
  BY DEF Board!EditedRow, EditedRow
<1>11. \A team, user, body, at :
         Board!CreatedRow(team, user, body, at) = CreatedRow(team, user, body, at)
  BY DEF Board!CreatedRow, CreatedRow
<1> QED
  BY <1>1, <1>2, <1>3, <1>4, <1>5, <1>6, <1>7, <1>8, <1>9, <1>10, <1>11

\* A commit is one step of the board.
LEMMA PublishOnBoard ==
    ASSUME IInv, WritesAreDecided, NEW p \in Procs, pc[p] = "commit", Publish(p)
    PROVE  Board!Next
<1>1. TypeOK /\ Good(p) /\ pc[p] # "idle" /\ Decided(p)
  BY DEF IInv, Good, WritesAreDecided
<1>2. req[p] \in Requests /\ req[p].actor \in Users /\ Accepted(req[p])
  BY <1>1, Shapes
<1>3. CASE IsUpdate(p)
  <2> DEFINE id == req[p].id
             user == req[p].actor
             patch == req[p].patch
             row == tasks[id]
             changes == Diff(row.body, patch)
             body == Apply(row.body, changes)
  <2>1. /\ id \in TaskIds /\ row = snap[p] /\ row # NULL /\ next[p].body = body
        /\ changes = PatchChanges(p)
        /\ tasks' = [tasks EXCEPT ![id] = EditedRow(row, body, next[p].closed_at)]
        /\ history' = [history EXCEPT ![id] = Append(@, [by |-> user, changes |-> changes])]
    BY <1>3, UpdatePublished DEF PatchChanges
  <2>2. patch \in Patches /\ Validate(patch)
    BY <1>1, <1>3, Shapes
  <2>3. /\ role[p] \in Roles /\ patch.version \in {NULL, row.version}
        /\ DOMAIN changes # {}
        /\ AuthorizeTaskUpdate([user |-> user, role |-> role[p]], row, changes)
    BY <1>1, <1>3, <2>1 DEF Decided, VersionMatches, Authorized
  <2>4. PICK now \in Times :
          next[p].closed_at = CloseTimestamp(row, body["status"], now)
    BY <1>1, <1>3, <2>1 DEF Decided
  <2>5. Board!Member(row.team, user) /\ Board!MayHold(row.team, body["assignee_id"])
    BY <1>1, <1>2, <1>3, <2>1 DEF Decided, TargetTeam, Membership, Board!Member, Board!MayHold
  <2>6. Board!Edit(id, user, role[p], patch)
    <3>1. Board!Log(id, user, changes)
      BY <2>1 DEF Board!Log
    <3>2. \E at \in Times :
            tasks' = [tasks EXCEPT ![id] =
                        EditedRow(row, body, CloseTimestamp(row, body["status"], at))]
      BY <2>1, <2>4
    <3> HIDE DEF changes, body, row
    <3> QED
      BY <2>1, <2>2, <2>3, <2>5, <3>1, <3>2, SameRules DEF Board!Edit, changes, body, row
  <2> HIDE DEF id, user, patch
  <2> QED
    BY <1>2, <2>1, <2>2, <2>3, <2>6, SameRules DEF Board!Next, user
<1>4. CASE ~IsUpdate(p)
  <2> DEFINE id == tx[p].id
             body == NewBody(req[p].task)
  <2>1. req[p].team \in Teams /\ req[p].task \in NewTasks /\ ValidateNewTask(req[p].task)
    BY <1>1, <1>2, <1>4, Shapes DEF Requests, CreateRequests, UpdateRequests, IsUpdate
  <2>2. Board!Create(id, req[p].team, req[p].actor, req[p].task)
    <3>1. /\ next[p].body = body /\ body["assignee_id"] = req[p].task.assignee_id
          /\ TargetTeam(p) = req[p].team
      BY <1>4, CreationPublished DEF NewBody, Fields, TargetTeam
    <3>2. /\ Board!Member(req[p].team, req[p].actor)
          /\ Board!MayHold(req[p].team, req[p].task.assignee_id)
      BY <1>1, <3>1 DEF Decided, Membership, Board!Member, Board!MayHold
    <3> QED
      BY <1>4, <2>1, <3>2, CreationPublished, SameRules DEF Board!Create, Board!Log
  <2>3. id \in TaskIds
    BY <1>4, CreationPublished
  <2> HIDE DEF id
  <2> QED
    BY <1>2, <2>1, <2>2, <2>3 DEF Board!Next
<1> QED
  BY <1>3, <1>4

\* Only a commit touches the tables.
LEMMA OnlyCommitsWrite ==
    ASSUME [Next]_vars
    PROVE  \/ UNCHANGED <<tasks, history>>
           \/ \E p \in Procs : /\ Commit(p) \/ CommitUnacknowledged(p)
                               /\ pc[p] = "commit" /\ Publish(p)
<1> USE DEF tableVars
<1>1. ASSUME NEW p \in Procs, Receive(p) \/ DbError(p)
      PROVE  UNCHANGED <<tasks, history>>
  BY <1>1 DEF Receive, Accept, Refuse, DbError
<1>2. ASSUME NEW p \in Procs, Step(p), ~Commit(p)
      PROVE  UNCHANGED <<tasks, history>>
  BY <1>2 DEF Step, Handle, LoadTask, LoadActor, LoadMember, CheckAssignee, UpdateRow,
              InsertTask, WriteHistory, Invalidate
<1>3. ASSUME NEW p \in Procs, Commit(p) \/ CommitUnacknowledged(p)
      PROVE  pc[p] = "commit" /\ Publish(p)
  BY <1>3 DEF Commit, CommitUnacknowledged
<1>4. CASE Crash \/ ChangeMembers \/ Tick \/ UNCHANGED vars
  BY <1>4 DEF Crash, ChangeMembers, Tick, vars
<1> QED
  BY <1>1, <1>2, <1>3, <1>4 DEF Next

-----------------------------------------------------------------------------
\* A row that a commit puts into the table: the one that was there or a new
\* one, closed as its status says, of a team that its people belong to.
LEMMA PublishedIsSound ==
    ASSUME IInv, WritesAreDecided, AssigneeIsMember,
           NEW p \in Procs, pc[p] = "commit", Publish(p), member' = member
    PROVE  LET row == tx[p].row IN
           /\ row.closed_at # NULL <=> Terminal(row.body["status"])
           /\ \A u \in {row.created_by, row.body["assignee_id"]} \ {NULL} :
                member'[row.team][u] # NULL
<1> DEFINE row == tx[p].row
           assignee == next[p].body["assignee_id"]
           status == next[p].body["status"]
<1>1. TypeOK /\ Good(p) /\ Open(p) /\ pc[p] # "idle" /\ Decided(p)
  BY DEF IInv, Good, Stage, WritesAreDecided
<1>2. /\ next[p] \in Writes /\ assignee \in Users \cup {NULL}
      /\ req[p].actor \in Users
  BY <1>1, Shapes DEF Good, Stage, Writes, Bodies
<1>3. /\ Membership(TargetTeam(p), req[p].actor) # NULL
      /\ assignee # NULL => Membership(TargetTeam(p), assignee) # NULL
  BY <1>1 DEF Decided
<1>4. CASE IsUpdate(p)
  <2>1. /\ req[p].id \in TaskIds /\ tasks[req[p].id] = snap[p]
        /\ snap[p] \in TaskRows /\ snap[p] # NULL
    BY <1>4, UpdatePublished
  <2>2. row = EditedRow(snap[p], next[p].body, next[p].closed_at)
    BY <1>1, <1>4, <2>1 DEF Good, TransactionIsNext, WrittenRow
  <2>3. /\ row.team = snap[p].team /\ row.created_by = snap[p].created_by
        /\ row.body = next[p].body /\ row.closed_at = next[p].closed_at
    BY <2>2 DEF EditedRow
  <2>4. snap[p].created_by \in Users /\ member[snap[p].team][snap[p].created_by] # NULL
    BY <2>1, NullAssumption DEF AssigneeIsMember, TaskRows, Rows
  <2>5. PICK now \in Times : next[p].closed_at = CloseTimestamp(snap[p], status, now)
    BY <1>1, <1>4 DEF Decided
  <2>6. now # NULL
    BY BoundAssumption, NullAssumption
  <2>7. next[p].closed_at # NULL <=> Terminal(status)
    BY <2>5, <2>6 DEF CloseTimestamp
  <2>8. assignee # NULL => member[snap[p].team][assignee] # NULL
    BY <1>2, <1>3, <1>4 DEF Membership, TargetTeam
  <2> QED
    BY <2>3, <2>4, <2>7, <2>8
<1>5. CASE ~IsUpdate(p)
  <2>1. row = CreatedRow(req[p].team, req[p].actor, next[p].body, next[p].closed_at)
    BY <1>1, <1>5 DEF Good, TransactionIsNext, InsertedRow
  <2>2. /\ row.team = req[p].team /\ row.created_by = req[p].actor
        /\ row.body = next[p].body /\ row.closed_at = next[p].closed_at
    BY <2>1 DEF CreatedRow
  <2>3. next[p].closed_at = NULL
    BY <1>1, <1>5 DEF Decided
  <2>4. status = "todo"
    BY <1>5, CreationPublished DEF NewBody, Fields
  <2>5. ~Terminal(status)
    BY <2>4 DEF Terminal
  <2>6. /\ member[req[p].team][req[p].actor] # NULL
        /\ assignee # NULL => member[req[p].team][assignee] # NULL
    BY <1>2, <1>3, <1>5 DEF Membership, TargetTeam
  <2> QED
    BY <2>2, <2>3, <2>5, <2>6
<1> QED
  BY <1>4, <1>5

\* After a commit every row is the one that was there or the one published.
LEMMA PublishedOrKept ==
    ASSUME IInv, NEW p \in Procs, pc[p] = "commit", Publish(p), NEW id \in TaskIds
    PROVE  tasks'[id] = IF id = tx[p].id THEN tx[p].row ELSE tasks[id]
BY DEF Publish, IInv, TypeOK

\* Only processes commit, and a commit changes no member.
LEMMA CommitKeepsMembers ==
    ASSUME NEW p \in Procs, Commit(p) \/ CommitUnacknowledged(p)
    PROVE  member' = member
BY DEF Commit, CommitUnacknowledged

LEMMA NextAssigneeIsMember ==
    IInv /\ WritesAreDecided /\ AssigneeIsMember /\ [Next]_vars => AssigneeIsMember'
<1> SUFFICES ASSUME IInv, WritesAreDecided, AssigneeIsMember, [Next]_vars,
                    NEW id \in TaskIds, tasks'[id] # NULL,
                    NEW u \in {tasks'[id].created_by,
                               tasks'[id].body["assignee_id"]} \ {NULL}
             PROVE  member'[tasks'[id].team][u] # NULL
  BY DEF AssigneeIsMember
<1>0. TypeOK
  BY DEF IInv
<1>1. CASE tasks'[id] = tasks[id]
  <2>1. tasks[id] \in TaskRows
    BY <1>0, <1>1 DEF TypeOK
  <2>2. tasks[id].team \in Teams /\ u \in Users
    BY <1>1, <2>1 DEF TaskRows, Rows, Bodies
  <2>3. Membership(tasks[id].team, u) # NULL
    BY <1>1, <2>2 DEF AssigneeIsMember, Membership
  <2> QED
    BY <1>0, <1>1, <2>2, <2>3, MembershipStays DEF Membership
<1>2. CASE tasks'[id] # tasks[id]
  <2>1. PICK p \in Procs : /\ Commit(p) \/ CommitUnacknowledged(p)
                           /\ pc[p] = "commit" /\ Publish(p)
    BY <1>2, OnlyCommitsWrite
  <2>2. tasks'[id] = tx[p].row
    BY <1>2, <2>1, PublishedOrKept
  <2> QED
    BY <2>1, <2>2, CommitKeepsMembers, PublishedIsSound
<1> QED
  BY <1>1, <1>2

LEMMA NextClosedMatchesStatus ==
    IInv /\ WritesAreDecided /\ AssigneeIsMember /\ ClosedMatchesStatus /\ [Next]_vars
      => ClosedMatchesStatus'
<1> SUFFICES ASSUME IInv, WritesAreDecided, AssigneeIsMember, ClosedMatchesStatus,
                    [Next]_vars, NEW id \in TaskIds, tasks'[id] # NULL
             PROVE  tasks'[id].closed_at # NULL <=> Terminal(tasks'[id].body["status"])
  BY DEF ClosedMatchesStatus, Terminal
<1>1. CASE tasks'[id] = tasks[id]
  BY <1>1 DEF ClosedMatchesStatus
<1>2. CASE tasks'[id] # tasks[id]
  <2>1. PICK p \in Procs : /\ Commit(p) \/ CommitUnacknowledged(p)
                           /\ pc[p] = "commit" /\ Publish(p)
    BY <1>2, OnlyCommitsWrite
  <2>2. tasks'[id] = tx[p].row
    BY <1>2, <2>1, PublishedOrKept
  <2> QED
    BY <2>1, <2>2, CommitKeepsMembers, PublishedIsSound
<1> QED
  BY <1>1, <1>2

\* Histories only grow.
LEMMA HistoryGrows ==
    ASSUME IInv, [Next]_vars, NEW id \in TaskIds
    PROVE  /\ Len(history[id]) \in Nat /\ Len(history'[id]) \in Nat
           /\ Len(history[id]) <= Len(history'[id])
           /\ \A i \in 1..Len(history[id]) : history'[id][i] = history[id][i]
<1>1. history[id] \in Seq(Entries) /\ Len(history[id]) \in Nat
  BY DEF IInv, TypeOK
<1>2. CASE history'[id] = history[id]
  BY <1>1, <1>2
<1>3. CASE history'[id] # history[id]
  <2>1. PICK p \in Procs : pc[p] = "commit" /\ Publish(p)
    BY <1>3, OnlyCommitsWrite
  <2>2. id = tx[p].id /\ history'[id] = history[id] \o tx[p].log
    BY <1>3, <2>1 DEF Publish, IInv, TypeOK
  <2>3. history'[id] = Append(history[id], Entry(p)) /\ Entry(p) \in Entries
    BY <2>1, <2>2, PublishedRow
  <2> QED
    BY <1>1, <2>3
<1> QED
  BY <1>2, <1>3

LEMMA NextAcknowledgedIsLogged ==
    IInv /\ AcknowledgedEditIsLogged /\ [Next]_vars => AcknowledgedEditIsLogged'
<1> SUFFICES ASSUME IInv, AcknowledgedEditIsLogged, [Next]_vars,
                    NEW q \in Procs, pc'[q] = "invalidate", IsUpdate(q)'
             PROVE  LET id == req'[q].id
                        version == snap'[q].version
                    IN  /\ Len(history'[id]) > version
                        /\ history'[id][version + 1] =
                             [by |-> req'[q].actor, changes |-> PatchChanges(q)']
  BY DEF AcknowledgedEditIsLogged
<1>0. TypeOK /\ Good(q)
  BY DEF IInv, Good
<1>1. CASE Commit(q)
  <2>1. pc[q] = "commit" /\ Publish(q) /\ UNCHANGED <<req, snap>>
    BY <1>1 DEF Commit
  <2>2. IsUpdate(q) /\ PatchChanges(q)' = PatchChanges(q)
    BY <2>1 DEF IsUpdate, PatchChanges
  <2> DEFINE id == req[q].id
             entry == [by |-> req[q].actor, changes |-> PatchChanges(q)]
  <2>3. /\ id \in TaskIds /\ snap[q] \in TaskRows /\ tasks[id] = snap[q]
        /\ snap[q] # NULL /\ history' = [history EXCEPT ![id] = Append(@, entry)]
    BY <2>1, <2>2, UpdatePublished
  <2>4. history[id] \in Seq(Entries) /\ Len(history[id]) = snap[q].version
        /\ history'[id] = Append(history[id], entry)
    BY <1>0, <2>3 DEF IInv, VersionCountsHistory, TypeOK
  <2> HIDE DEF id, entry
  <2>5. Len(history'[id]) > snap[q].version /\ history'[id][snap[q].version + 1] = entry
    BY <2>4
  <2> QED
    BY <2>1, <2>2, <2>5 DEF id, entry
<1>2. CASE ~Commit(q)
  <2>1. pc[q] = "invalidate" /\ req'[q] = req[q] /\ snap'[q] = snap[q]
    <3>1. ASSUME NEW p \in Procs, ProcStep(p), p # q
          PROVE  pc'[q] = pc[q] /\ req'[q] = req[q] /\ snap'[q] = snap[q]
      BY <1>0, <3>1, StepIsAlone DEF Unmoved
    <3>2. ~Receive(q) /\ ~CommitUnacknowledged(q) /\ ~DbError(q) /\ ~Step(q)
      BY <1>0, <1>2 DEF Receive, Accept, Refuse, CommitUnacknowledged, DbError, Step, Handle,
         LoadTask, LoadActor, LoadMember, CheckAssignee, UpdateRow, InsertTask,
         WriteHistory, Invalidate, Answer, GoTo, TypeOK
    <3>3. CASE Crash
      BY <3>3 DEF Crash
    <3>4. CASE ChangeMembers \/ Tick \/ UNCHANGED vars
      BY <3>4 DEF ChangeMembers, Tick, vars, requestVars
    <3> QED
      BY <3>1, <3>2, <3>3, <3>4 DEF Next, ProcStep
  <2>2. IsUpdate(q) /\ PatchChanges(q)' = PatchChanges(q)
    BY <2>1 DEF IsUpdate, PatchChanges
  <2>3. req[q].id \in TaskIds /\ snap[q] \in TaskRows /\ snap[q].version \in Nat
    BY <1>0, <2>1, <2>2, Shapes DEF Good, Stage, TaskRows, Rows
  <2>4. /\ Len(history[req[q].id]) > snap[q].version
        /\ history[req[q].id][snap[q].version + 1] =
             [by |-> req[q].actor, changes |-> PatchChanges(q)]
    BY <2>1, <2>2 DEF AcknowledgedEditIsLogged
  <2>5. /\ Len(history[req[q].id]) \in Nat /\ Len(history'[req[q].id]) \in Nat
        /\ Len(history[req[q].id]) <= Len(history'[req[q].id])
        /\ \A i \in 1..Len(history[req[q].id]) :
             history'[req[q].id][i] = history[req[q].id][i]
    BY <2>3, HistoryGrows
  <2>6. snap[q].version + 1 \in 1..Len(history[req[q].id])
    BY <2>3, <2>4, <2>5
  <2> QED
    BY <2>1, <2>2, <2>3, <2>4, <2>5, <2>6
<1> QED
  BY <1>1, <1>2

\* A right of a member is one of every role but a demoted one.
LEMMA RightsGrow ==
    ASSUME NEW u, NEW r \in Roles, NEW now \in Roles, NEW row, NEW changes,
           AuthorizeTaskUpdate([user |-> u, role |-> r], row, changes),
           r = "owner" <=> now = "owner",
           ~(r = "admin" /\ now = "member")
    PROVE  AuthorizeTaskUpdate([user |-> u, role |-> now], row, changes)
BY DEF AuthorizeTaskUpdate, CanEditAnyTask, Roles

LEMMA CommitsAuthorized ==
    ASSUME IInv, WritesAreDecided, [Next]_vars,
           NEW p \in Procs, Commits(p), IsUpdate(p)
    PROVE  LET row == tasks[req[p].id]
               now == member[row.team][req[p].actor]
           IN  /\ now # NULL /\ now \in Roles /\ role[p] \in Roles
               /\ role[p] = "owner" <=> now = "owner"
               /\ AuthorizeTaskUpdate([user |-> req[p].actor, role |-> role[p]],
                                      row, Diff(row.body, req[p].patch))
<1>0. TypeOK /\ Good(p) /\ Decided(p) /\ pc[p] = "commit"
  BY DEF IInv, Good, WritesAreDecided, Commits
<1>1. Publish(p)
  <2>1. PICK q \in Procs : /\ Commit(q) \/ CommitUnacknowledged(q)
                           /\ pc[q] = "commit" /\ Publish(q)
    BY OnlyCommitsWrite DEF Commits
  <2>2. q = p
    BY <1>0, <2>1, StepIsAlone DEF Commits, ProcStep, Step, Handle, Unmoved
  <2> QED
    BY <2>1, <2>2
<1>2. tasks[req[p].id] = snap[p]
  BY <1>0, <1>1, UpdatePublished
<1>3. req[p].actor \in Users
  BY <1>0, Shapes
<1>4. /\ member[snap[p].team][req[p].actor] # NULL
      /\ role[p] \in Roles
      /\ role[p] = "owner" <=> member[snap[p].team][req[p].actor] = "owner"
  BY <1>0, <1>3 DEF Decided, Membership, TargetTeam
<1>6. member[snap[p].team][req[p].actor] \in Roles
  <2>1. snap[p].team \in Teams
    BY <1>0, <1>1, UpdatePublished DEF TaskRows, Rows
  <2> QED
    BY <1>0, <1>3, <1>4, <2>1, MembershipType DEF Membership
<1>5. AuthorizeTaskUpdate([user |-> req[p].actor, role |-> role[p]], snap[p],
                          Diff(snap[p].body, req[p].patch))
  BY <1>0 DEF Decided, Authorized, PatchChanges
<1> QED
  BY <1>2, <1>4, <1>5, <1>6

-----------------------------------------------------------------------------
\* Requests keep what they have found while they need it; the properties
\* below say what that is worth on the tables.
LEMMA DecisionsHold == Spec => []WritesAreDecided
<1>1. Init => WritesAreDecided
  BY DEF Init, WritesAreDecided, Decided
<1>2. IInv /\ WritesAreDecided /\ [Next]_vars => WritesAreDecided'
  BY NextDecided
<1> QED
  BY <1>1, <1>2, InvariantHolds, PTL DEF Spec

\* The property ImplementsBoard: requests with their snapshots, transactions,
\* failures and crashes amount to atomic edits of the board.
THEOREM TasksImplementTaskBoard == Spec => ImplementsBoard
<1>1. Init => Board!Init
  BY DEF Init
<1>2. IInv /\ WritesAreDecided /\ [Next]_vars => [Board!Next]_(Board!boardVars)
  <2> SUFFICES ASSUME IInv, WritesAreDecided, [Next]_vars
               PROVE  Board!Next \/ UNCHANGED Board!boardVars
    OBVIOUS
  <2> QED
    BY OnlyCommitsWrite, PublishOnBoard DEF Board!boardVars
<1> QED
  BY <1>1, <1>2, InvariantHolds, DecisionsHold, PTL DEF Spec, ImplementsBoard, Board!Spec

\* The property AssigneeIsMember: assigneeInTeam is right however early it
\* looked, for creators and assignees alike.
THEOREM AssigneeAlwaysMember == Spec => []AssigneeIsMember
<1>1. Init => AssigneeIsMember
  BY DEF Init, Board!Init, AssigneeIsMember
<1> QED
  BY <1>1, NextAssigneeIsMember, InvariantHolds, DecisionsHold, PTL DEF Spec

\* The property ClosedMatchesStatus: CloseTimestamp of an older copy of the
\* row is right for the row that is written.
THEOREM ClosedAlwaysMatches == Spec => []ClosedMatchesStatus
<1>1. Init => ClosedMatchesStatus
  BY DEF Init, Board!Init, ClosedMatchesStatus
<1> QED
  BY <1>1, NextClosedMatchesStatus, InvariantHolds, DecisionsHold, AssigneeAlwaysMember,
     PTL DEF Spec

\* The property AcknowledgedEditIsLogged: an update that is acknowledged is
\* in the history at its place, and stays there.
THEOREM AcknowledgedIsLogged == Spec => []AcknowledgedEditIsLogged
<1>1. Init => AcknowledgedEditIsLogged
  BY DEF Init, AcknowledgedEditIsLogged
<1> QED
  BY <1>1, NextAcknowledgedIsLogged, InvariantHolds, PTL DEF Spec

\* The property CommitAuthorized: what commits is allowed on the row as it
\* stands at the commit, though AuthorizeTaskUpdate looked at a snapshot.
THEOREM CommitsAlwaysAuthorized == Spec => CommitAuthorized
<1>1. IInv /\ WritesAreDecided /\ [Next]_vars =>
        [\A p \in Procs :
           (Commits(p) /\ IsUpdate(p)) =>
             LET row == tasks[req[p].id]
             IN  /\ member[row.team][req[p].actor] # NULL
                 /\ AuthorizeTaskUpdate([user |-> req[p].actor, role |-> role[p]],
                                        row, Diff(row.body, req[p].patch))]_vars
  BY CommitsAuthorized
<1> QED
  BY <1>1, InvariantHolds, DecisionsHold, PTL DEF Spec, CommitAuthorized

\* The property RightLostByDemotionOnly: a role that changes between the
\* decision and the commit takes away no right but a demoted admin's.
THEOREM RightsLostByDemotionOnly == Spec => RightLostByDemotionOnly
<1>1. IInv /\ WritesAreDecided /\ [Next]_vars =>
        [\A p \in Procs :
           (Commits(p) /\ IsUpdate(p)) =>
             LET row == tasks[req[p].id]
                 now == member[row.team][req[p].actor]
             IN  \/ role[p] = "admin" /\ now = "member"
                 \/ AuthorizeTaskUpdate([user |-> req[p].actor, role |-> now],
                                        row, Diff(row.body, req[p].patch))]_vars
  BY CommitsAuthorized, RightsGrow
<1> QED
  BY <1>1, InvariantHolds, DecisionsHold, PTL DEF Spec, RightLostByDemotionOnly
=============================================================================
