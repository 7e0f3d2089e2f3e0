----------------------------- MODULE TaskBoard -----------------------------
(***************************************************************************)
(* What tasks and task_history promise together: every change of a task is *)
(* one atomic edit of the task as it is at that moment, made by a member   *)
(* of its team and logged with the values it replaced, and nothing else    *)
(* ever happens to a task.  Requests, snapshots, transactions and version  *)
(* checks are not to be seen here.                                         *)
(***************************************************************************)
EXTENDS TaskRules

CONSTANTS
    Teams, TaskIds,
    NewTasks, Patches,      \* what clients ask for
    Times                   \* the instants of the clock

VARIABLES
    member,     \* the table of members, which others change (TeamRoles)
    tasks,      \* tasks[id] is the row of task id, or NULL
    history     \* history[id] is the log of task id, oldest entry first

boardVars == <<tasks, history>>

Init ==
    /\ tasks = [id \in TaskIds |-> NULL]
    /\ history = [id \in TaskIds |-> <<>>]

Log(id, user, changes) ==
    history' = [history EXCEPT ![id] =
                  Append(@, [by |-> user, changes |-> changes])]

Member(team, user) == user \in Users /\ member[team][user] # NULL

\* A task is given to members of its team only.
MayHold(team, user) == user # NULL => Member(team, user)

Create(id, team, user, task) ==
    /\ tasks[id] = NULL
    /\ ValidateNewTask(task)
    /\ Member(team, user)
    /\ MayHold(team, task.assignee_id)
    /\ tasks' = [tasks EXCEPT ![id] = CreatedRow(team, user, NewBody(task), NULL)]
    /\ Log(id, user, CreationChanges(NewBody(task)))

\* The user edits the task under some role; the fields it may change are
\* decided on the task being edited, and so is the closing time.
Edit(id, user, role, patch) ==
    LET row == tasks[id]
        changes == Diff(row.body, patch)
        body == Apply(row.body, changes)
    IN  /\ row # NULL
        /\ Validate(patch)
        /\ Member(row.team, user)
        /\ MayHold(row.team, body["assignee_id"])
        /\ patch.version \in {NULL, row.version}
        /\ DOMAIN changes # {}
        /\ AuthorizeTaskUpdate([user |-> user, role |-> role], row, changes)
        /\ \E now \in Times :
             tasks' = [tasks EXCEPT ![id] =
                         EditedRow(row, body, CloseTimestamp(row, body["status"], now))]
        /\ Log(id, user, changes)

Next ==
    \E id \in TaskIds, user \in Users :
      \/ \E team \in Teams, task \in NewTasks : Create(id, team, user, task)
      \/ \E role \in Roles, patch \in Patches : Edit(id, user, role, patch)

Spec == Init /\ [][Next]_boardVars
=============================================================================
