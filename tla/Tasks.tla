------------------------------- MODULE Tasks -------------------------------
(***************************************************************************)
(* POST /tasks and PUT /tasks/{task_id}: handlers of internal/httpapi,     *)
(* the operations CreateTask and UpdateTask of internal/service, and the   *)
(* transactions of internal/store, one action for every call that reaches  *)
(* MySQL or Redis.  Each process of Procs serves one request at a time;    *)
(* between its steps the other requests, role changes and failures run.    *)
(*                                                                         *)
(* UpdateTask takes no lock while it reads and decides: it compares the    *)
(* version of the row it read when it writes.  Row locks are InnoDB's: a   *)
(* transaction that has updated a row holds the row until it ends.         *)
(***************************************************************************)
EXTENDS TaskRules, FiniteSets

CONSTANTS
    Procs,              \* the goroutines that serve requests
    Teams, InitialMembers,
    NewTasks, Patches,  \* the request bodies that clients send
    Times,              \* the instants of the clock
    MaxTasks,           \* the last id that AUTO_INCREMENT hands out
    MaxVersion          \* the largest value of the column version

TaskIds == 1..MaxTasks

\* Decoding leaves a function from fields to values and a version or NULL.
ASSUME RequestAssumption ==
    /\ \A patch \in Patches : /\ DOMAIN patch.fields \subseteq Fields
                              /\ patch.version \in Int \cup {NULL}
    /\ \A task \in NewTasks : DOMAIN task = {"title", "description", "assignee_id"}

ASSUME BoundAssumption ==
    /\ Times \subseteq Nat /\ Times # {}
    /\ MaxTasks \in Nat
    /\ MaxVersion \in Nat \ {0}

VARIABLES
    tasks,      \* table tasks: tasks[id] is a row, or NULL
    history,    \* table task_history: history[id] is a log, oldest first
    nextId,     \* AUTO_INCREMENT of tasks
    member,     \* table team_members (module TeamRoles)
    clock,      \* time.Now
    pc,         \* pc[p]: the call that p makes next
    req,        \* req[p]: the request that p serves, or NULL
    snap,       \* snap[p]: the task as UpdateTask read it, or NULL
    role,       \* role[p]: the actor's role as p read it, or NULL
    next,       \* next[p]: the domain.TaskUpdate or NewTask to write, or NULL
    tx,         \* tx[p]: the open transaction of p, or NULL
    reply       \* reply[p]: the outcome of the last request of p

tableVars == <<tasks, history, nextId>>
requestVars == <<pc, req, snap, role, next, tx, reply>>
vars == <<tableVars, member, clock, requestVars>>

Board == INSTANCE TaskBoard
Team == INSTANCE TeamRoles

-----------------------------------------------------------------------------
Codes == {"ok", "validation_error", "not_found", "forbidden", "conflict",
          "internal_error"}

Steps == {"idle", "load", "actor", "member", "assignee", "update", "insert",
          "history", "commit", "invalidate"}

UpdateRequests == [kind : {"update"}, actor : Users, id : TaskIds, patch : Patches]
CreateRequests == [kind : {"create"}, actor : Users, team : Teams, task : NewTasks]
Requests == UpdateRequests \cup CreateRequests

TaskRows == Rows(Teams, Times)
Writes == [body : Bodies, closed_at : Times \cup {NULL}]
Entries == [by : Users,
            changes : {Diff(body, patch) : body \in Bodies, patch \in Patches}
                        \cup {CreationChanges(body) : body \in Bodies}]
Transactions == [id : TaskIds, row : TaskRows, log : Seq(Entries)]

\* NULL is no answer and no record.
ASSUME NoRecordAssumption ==
    NULL \notin Codes \cup Requests \cup TaskRows \cup Writes \cup Transactions

ASSUME MembersAssumption == InitialMembers \in Team!MemberTable

TypeOK ==
    /\ tasks \in [TaskIds -> TaskRows \cup {NULL}]
    /\ history \in [TaskIds -> Seq(Entries)]
    /\ nextId \in 1..(MaxTasks + 1)
    /\ member \in Team!MemberTable
    /\ clock \in Times
    /\ pc \in [Procs -> Steps]
    /\ req \in [Procs -> Requests \cup {NULL}]
    /\ snap \in [Procs -> TaskRows \cup {NULL}]
    /\ role \in [Procs -> Roles \cup {NULL}]
    /\ next \in [Procs -> Writes \cup {NULL}]
    /\ tx \in [Procs -> Transactions \cup {NULL}]
    /\ reply \in [Procs -> Codes \cup {NULL}]

Init ==
    /\ Board!Init
    /\ nextId = 1
    /\ Team!Init
    /\ clock \in Times
    /\ pc = [p \in Procs |-> "idle"]
    /\ req = [p \in Procs |-> NULL]
    /\ snap = [p \in Procs |-> NULL]
    /\ role = [p \in Procs |-> NULL]
    /\ next = [p \in Procs |-> NULL]
    /\ tx = [p \in Procs |-> NULL]
    /\ reply = [p \in Procs |-> NULL]

-----------------------------------------------------------------------------
IsUpdate(p) == req[p].kind = "update"

\* Store.Membership: the role of a user in a team, NULL when there is no row.
Membership(t, u) == IF u \in Users THEN member[t][u] ELSE NULL

\* The changes that UpdateTask computes from the task it read.
PatchChanges(p) == Diff(snap[p].body, req[p].patch)

\* Mutant: an error path without tx.Rollback.
RollbackForgotten(p) == UNCHANGED tx

Rollback(p) == tx' = [tx EXCEPT ![p] = NULL]

\* The request ends with an answer, and with it a transaction still open.
Answer(p, code) ==
    /\ pc' = [pc EXCEPT ![p] = "idle"]
    /\ req' = [req EXCEPT ![p] = NULL]
    /\ snap' = [snap EXCEPT ![p] = NULL]
    /\ role' = [role EXCEPT ![p] = NULL]
    /\ next' = [next EXCEPT ![p] = NULL]
    /\ Rollback(p)
    /\ reply' = [reply EXCEPT ![p] = code]

GoTo(p, step) == pc' = [pc EXCEPT ![p] = step]

\* Decoded without fault and past the checks that need no database.
Accepted(r) ==
    IF r.kind = "create"
    THEN ValidateNewTask(r.task)
    ELSE /\ ~(Empty(r.patch) /\ r.patch.version = NULL)
         /\ Validate(r.patch)

Accept(p, r) ==
    /\ pc[p] = "idle"
    /\ Accepted(r)
    /\ GoTo(p, IF r.kind = "create" THEN "member" ELSE "load")
    /\ req' = [req EXCEPT ![p] = r]
    /\ reply' = [reply EXCEPT ![p] = NULL]
    /\ UNCHANGED <<tableVars, member, clock, snap, role, next, tx>>

Refuse(p, r) ==
    /\ pc[p] = "idle"
    /\ ~Accepted(r)
    /\ Answer(p, "validation_error")
    /\ UNCHANGED <<tableVars, member, clock>>

-----------------------------------------------------------------------------
(* Reading and deciding, outside any transaction. *)

\* taskForMember, first half: Store.TaskByID.
LoadTask(p) ==
    /\ pc[p] = "load"
    /\ IF tasks[req[p].id] = NULL
       THEN Answer(p, "not_found")
       ELSE /\ snap' = [snap EXCEPT ![p] = tasks[req[p].id]]
            /\ GoTo(p, "actor")
            /\ UNCHANGED <<req, role, next, tx, reply>>
    /\ UNCHANGED <<tableVars, member, clock>>

\* Mutant: no comparison with the version that the client sent.
VersionUnchecked(p) == TRUE

VersionMatches(p) == req[p].patch.version \in {NULL, snap[p].version}

Authorized(p, r) ==
    AuthorizeTaskUpdate([user |-> req[p].actor, role |-> r], snap[p], PatchChanges(p))

\* What UpdateTask makes of the role r that it read: the answer with which
\* it returns, or NULL when it goes on to write.
Verdict(p, r) ==
    IF r = NULL THEN "not_found"
    ELSE IF ~VersionMatches(p) THEN "conflict"
    ELSE IF ~Authorized(p, r) THEN "forbidden"
    ELSE IF DOMAIN PatchChanges(p) = {} THEN "ok"
    ELSE NULL

\* taskForMember, second half: the actor's membership, then the decision.
LoadActor(p) ==
    /\ pc[p] = "actor"
    /\ LET r == Membership(snap[p].team, req[p].actor)
           verdict == Verdict(p, r)
       IN  IF verdict # NULL
           THEN Answer(p, verdict)
           ELSE /\ role' = [role EXCEPT ![p] = r]
                /\ GoTo(p, "assignee")
                /\ UNCHANGED <<req, snap, next, tx, reply>>
    /\ UNCHANGED <<tableVars, member, clock>>

\* CreateTask: the creator's membership.
LoadMember(p) ==
    /\ pc[p] = "member"
    /\ LET r == Membership(req[p].team, req[p].actor)
       IN  IF r = NULL
           THEN Answer(p, "not_found")
           ELSE /\ role' = [role EXCEPT ![p] = r]
                /\ GoTo(p, "assignee")
                /\ UNCHANGED <<req, snap, next, tx, reply>>
    /\ UNCHANGED <<tableVars, member, clock>>

TargetTeam(p) == IF IsUpdate(p) THEN snap[p].team ELSE req[p].team

TargetBody(p) ==
    IF IsUpdate(p) THEN Apply(snap[p].body, PatchChanges(p)) ELSE NewBody(req[p].task)

\* Mutants: every edit of a closed task stamps it anew; the assignee that
\* is checked is the one the task has had.
Restamped(p) ==
    IF Terminal(TargetBody(p)["status"]) THEN clock ELSE NULL
FormerAssignee(p) ==
    IF IsUpdate(p) THEN snap[p].body["assignee_id"] ELSE TargetBody(p)["assignee_id"]

TargetClosedAt(p) ==
    IF IsUpdate(p) THEN CloseTimestamp(snap[p], TargetBody(p)["status"], clock) ELSE NULL

TargetAssignee(p) == TargetBody(p)["assignee_id"]

\* assigneeInTeam; the time is taken before the store is called.
CheckAssignee(p) ==
    /\ pc[p] = "assignee"
    /\ IF TargetAssignee(p) # NULL /\ Membership(TargetTeam(p), TargetAssignee(p)) = NULL
       THEN Answer(p, "validation_error")
       ELSE /\ next' = [next EXCEPT ![p] = [body |-> TargetBody(p),
                                            closed_at |-> TargetClosedAt(p)]]
            /\ GoTo(p, IF IsUpdate(p) THEN "update" ELSE "insert")
            /\ UNCHANGED <<req, snap, role, tx, reply>>
    /\ UNCHANGED <<tableVars, member, clock>>

-----------------------------------------------------------------------------
(* The transactions of Store.UpdateTask and Store.CreateTask. *)

Open(p) == tx[p] # NULL

\* Mutants: no row lock, no "AND version = ?", no "version = version + 1".
NeverLocked(id) == FALSE
AnyVersion(p) == TRUE
RowWithOldVersion(p) ==
    [tasks[req[p].id] EXCEPT !.body = next[p].body, !.closed_at = next[p].closed_at]

Locked(id) == \E q \in Procs : Open(q) /\ tx[q].id = id

SameVersion(p) == tasks[req[p].id].version = snap[p].version

WrittenRow(p) == EditedRow(tasks[req[p].id], next[p].body, next[p].closed_at)

InsertedRow(p) ==
    CreatedRow(req[p].team, req[p].actor, next[p].body, next[p].closed_at)

\* UPDATE tasks ... WHERE id = ? AND version = ?, once no other transaction
\* holds the row.  A version past MaxVersion is out of the column's range.
UpdateRow(p) ==
    /\ pc[p] = "update"
    /\ ~Locked(req[p].id)
    /\ IF ~SameVersion(p)
       THEN Answer(p, "conflict")
       ELSE IF tasks[req[p].id].version = MaxVersion
       THEN Answer(p, "internal_error")
       ELSE /\ tx' = [tx EXCEPT ![p] = [id |-> req[p].id, row |-> WrittenRow(p),
                                        log |-> <<>>]]
            /\ GoTo(p, "history")
            /\ UNCHANGED <<req, snap, role, next, reply>>
    /\ UNCHANGED <<tableVars, member, clock>>

\* INSERT INTO tasks; an id is used up even if the transaction rolls back.
InsertTask(p) ==
    /\ pc[p] = "insert"
    /\ IF nextId > MaxTasks
       THEN Answer(p, "internal_error") /\ UNCHANGED nextId
       ELSE /\ nextId' = nextId + 1
            /\ tx' = [tx EXCEPT ![p] = [id |-> nextId, row |-> InsertedRow(p),
                                        log |-> <<>>]]
            /\ GoTo(p, "history")
            /\ UNCHANGED <<req, snap, role, next, reply>>
    /\ UNCHANGED <<tasks, history, member, clock>>

Entry(p) ==
    [by |-> req[p].actor,
     changes |-> IF IsUpdate(p) THEN PatchChanges(p) ELSE CreationChanges(tx[p].row.body)]

\* insertHistory, and the row read back inside the transaction.
WriteHistory(p) ==
    /\ pc[p] = "history"
    /\ tx' = [tx EXCEPT ![p].log = Append(@, Entry(p))]
    /\ GoTo(p, "commit")
    /\ UNCHANGED <<tableVars, member, clock, req, snap, role, next, reply>>

\* The writes of the transaction become visible together.
Publish(p) ==
    /\ tasks' = [tasks EXCEPT ![tx[p].id] = tx[p].row]
    /\ history' = [history EXCEPT ![tx[p].id] = @ \o tx[p].log]
    /\ UNCHANGED nextId

Commit(p) ==
    /\ pc[p] = "commit"
    /\ Publish(p)
    /\ tx' = [tx EXCEPT ![p] = NULL]
    /\ GoTo(p, "invalidate")
    /\ UNCHANGED <<member, clock, req, snap, role, next, reply>>

\* MySQL commits but the acknowledgement is lost: the driver reports an
\* error, and the service returns without invalidating the cache.
CommitUnacknowledged(p) ==
    /\ pc[p] = "commit"
    /\ Publish(p)
    /\ Answer(p, "internal_error")
    /\ UNCHANGED <<member, clock>>

\* TaskCache.Invalidate, whose outcome the service ignores; TaskCache adds
\* what it does to Redis.
Invalidate(p) ==
    /\ pc[p] = "invalidate"
    /\ Answer(p, "ok")
    /\ UNCHANGED <<tableVars, member, clock>>

-----------------------------------------------------------------------------
(* Failures and the environment. *)

\* The calls to MySQL that p may be in.  assigneeInTeam makes none when the
\* task is to have no assignee.
InDatabase(p) ==
    \/ pc[p] \in {"load", "actor", "member", "update", "insert", "history", "commit"}
    \/ pc[p] = "assignee" /\ TargetAssignee(p) # NULL

\* A call fails: connection lost, context cancelled, lock wait timed out.
\* taskForMember answers 404 to every error of the membership query.
DbError(p) ==
    /\ InDatabase(p)
    /\ Answer(p, IF pc[p] = "actor" THEN "not_found" ELSE "internal_error")
    /\ UNCHANGED <<tableVars, member, clock>>

\* The process dies and starts again: requests are lost without an answer,
\* MySQL rolls back what they had open and keeps what they had committed.
Crash ==
    /\ \E p \in Procs : pc[p] # "idle"
    /\ pc' = [p \in Procs |-> "idle"]
    /\ req' = [p \in Procs |-> NULL]
    /\ snap' = [p \in Procs |-> NULL]
    /\ role' = [p \in Procs |-> NULL]
    /\ next' = [p \in Procs |-> NULL]
    /\ tx' = [p \in Procs |-> NULL]
    /\ reply' = [p \in Procs |-> NULL]
    /\ UNCHANGED <<tableVars, member, clock>>

ChangeMembers ==
    /\ Team!Next
    /\ UNCHANGED <<tableVars, clock, requestVars>>

Tick ==
    /\ \E now \in Times : now > clock /\ clock' = now
    /\ UNCHANGED <<tableVars, member, requestVars>>

-----------------------------------------------------------------------------
\* The steps of a request that concern MySQL only, when nothing fails.
Handle(p) ==
    \/ LoadTask(p)
    \/ LoadActor(p)
    \/ LoadMember(p)
    \/ CheckAssignee(p)
    \/ UpdateRow(p)
    \/ InsertTask(p)
    \/ WriteHistory(p)
    \/ Commit(p)

Step(p) == Handle(p) \/ Invalidate(p)

Receive(p) == \E r \in Requests : Accept(p, r) \/ Refuse(p, r)

Next ==
    \/ \E p \in Procs : Receive(p) \/ Step(p) \/ CommitUnacknowledged(p) \/ DbError(p)
    \/ Crash
    \/ ChangeMembers
    \/ Tick

Spec == Init /\ [][Next]_vars

\* A goroutine keeps running; InnoDB hands a row lock to a waiter in the end.
Fairness ==
    \A p \in Procs : WF_vars(Step(p)) /\ SF_vars(UpdateRow(p))

FairSpec == Spec /\ Fairness

-----------------------------------------------------------------------------
(* Properties. *)

\* task_history explains every task: replaying its entries from the first
\* gives the row, every entry starts from the values that the one before it
\* left, and none is empty-handed.  Store.UpdateTask writes the entry from a
\* snapshot read outside the transaction.
HistoryExplainsRow ==
    \A id \in TaskIds :
      tasks[id] # NULL => Explains(history[id], tasks[id].body)

\* The version of a task counts its history entries, across crashes, lost
\* acknowledgements and rolled-back transactions.
VersionCountsHistory ==
    \A id \in TaskIds :
      Len(history[id]) = IF tasks[id] = NULL THEN 0 ELSE tasks[id].version

\* A task is closed exactly while its status is terminal, though the time is
\* computed from a snapshot (domain.CloseTimestamp).
ClosedMatchesStatus ==
    \A id \in TaskIds :
      tasks[id] # NULL =>
        (tasks[id].closed_at # NULL <=> Terminal(tasks[id].body["status"]))

\* Creator and assignee belong to the team of the task, though assigneeInTeam
\* looks before the transaction and on the snapshot.
AssigneeIsMember ==
    \A id \in TaskIds :
      tasks[id] # NULL =>
        \A u \in {tasks[id].created_by, tasks[id].body["assignee_id"]} \ {NULL} :
          member[tasks[id].team][u] # NULL

\* A PUT that is about to be acknowledged owns the history entry that
\* follows the version it read, whatever was written after it.
AcknowledgedEditIsLogged ==
    \A p \in Procs :
      (pc[p] = "invalidate" /\ IsUpdate(p)) =>
        /\ Len(history[req[p].id]) > snap[p].version
        /\ history[req[p].id][snap[p].version + 1] =
             [by |-> req[p].actor, changes |-> PatchChanges(p)]

\* The step is one in which p commits.
Commits(p) == pc[p] = "commit" /\ pc'[p] # "commit" /\ tasks' # tasks

\* What p commits is allowed, on the task as it stands at the commit, to the
\* role that the actor was found to have (AuthorizeTaskUpdate looked at an
\* older copy), and the actor is a member of the team.
CommitAuthorized ==
    [][\A p \in Procs :
         (Commits(p) /\ IsUpdate(p)) =>
           LET row == tasks[req[p].id]
           IN  /\ member[row.team][req[p].actor] # NULL
               /\ AuthorizeTaskUpdate([user |-> req[p].actor, role |-> role[p]],
                                      row, Diff(row.body, req[p].patch))]_vars

\* Of the rights on which a PUT was decided one can be gone at its commit:
\* that of an admin made a member meanwhile (the window that UpdateTask leaves
\* open).  Otherwise the actor's role of now, too, allows all that the PUT
\* changes in the row of now.
RightLostByDemotionOnly ==
    [][\A p \in Procs :
         (Commits(p) /\ IsUpdate(p)) =>
           LET row == tasks[req[p].id]
               now == member[row.team][req[p].actor]
           IN  \/ role[p] = "admin" /\ now = "member"
               \/ AuthorizeTaskUpdate([user |-> req[p].actor, role |-> now],
                                      row, Diff(row.body, req[p].patch))]_vars

\* Requests, snapshots and transactions amount to atomic edits of the board:
\* no update is lost and no half of a transaction is seen.
ImplementsBoard == Board!Spec

\* Every request is answered, if only with an error.
EveryRequestAnswered ==
    \A p \in Procs : pc[p] # "idle" ~> pc[p] = "idle"

\* README, "Роли": 404 is for tasks that do not exist and tasks of a foreign
\* team.
NotFoundMeansForeign ==
    [][\A p \in Procs :
         (pc[p] = "actor" /\ reply'[p] = "not_found") =>
           Membership(snap[p].team, req[p].actor) = NULL]_vars

-----------------------------------------------------------------------------
(* The inductive invariant behind the properties of the tables. *)

\* What a process keeps at each step of its request.
Stage(p) ==
    /\ pc[p] = "idle" <=> req[p] = NULL
    /\ req[p] # NULL => Accepted(req[p])
    /\ pc[p] \in {"load", "actor", "update"} => IsUpdate(p)
    /\ pc[p] \in {"member", "insert"} => ~IsUpdate(p)
    /\ snap[p] # NULL => req[p] # NULL /\ IsUpdate(p)
    /\ (pc[p] \notin {"idle", "load"} /\ IsUpdate(p)) => snap[p] # NULL
    /\ pc[p] \in {"update", "insert", "history", "commit", "invalidate"} =>
         next[p] # NULL /\ next[p].body = TargetBody(p)
    /\ Open(p) <=> pc[p] \in {"history", "commit"}

\* A snapshot is an earlier state of its task, and the version tells which:
\* with the same version it is the same row.
SnapshotIsPast(p) ==
    snap[p] # NULL =>
      LET row == tasks[req[p].id]
      IN  /\ row # NULL
          /\ snap[p].version <= row.version
          /\ snap[p].version = row.version => snap[p] = row

\* An open transaction is one step ahead of its row, which still is what the
\* request read, or of an id that nobody else has.
TransactionIsNext(p) ==
    Open(p) =>
      /\ tx[p].log = IF pc[p] = "commit" THEN <<Entry(p)>> ELSE <<>>
      /\ IF IsUpdate(p)
         THEN /\ tx[p].id = req[p].id
              /\ tasks[tx[p].id] = snap[p]
              /\ tx[p].row = WrittenRow(p)
         ELSE /\ tx[p].id < nextId
              /\ tasks[tx[p].id] = NULL
              /\ tx[p].row = InsertedRow(p)

RowsHeldOnce ==
    \A p, q \in Procs : (Open(p) /\ Open(q) /\ tx[p].id = tx[q].id) => p = q

IdsFresh == \A id \in TaskIds : id >= nextId => tasks[id] = NULL

\* With it the version check and the row lock make the history right: what
\* a request computed from its snapshot is still true when it commits.
IInv ==
    /\ TypeOK
    /\ \A p \in Procs : Stage(p) /\ SnapshotIsPast(p) /\ TransactionIsNext(p)
    /\ RowsHeldOnce
    /\ IdsFresh
    /\ VersionCountsHistory
    /\ HistoryExplainsRow
=============================================================================
