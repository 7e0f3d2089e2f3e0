----------------------------- MODULE TaskRules -----------------------------
(***************************************************************************)
(* The pure rules of internal/domain: what a task holds, when a patch is   *)
(* valid, which fields it changes, who may make the change, and when a     *)
(* task is closed.  A body is the part of a task that users edit; a row is *)
(* a body with the columns that the store keeps beside it.                 *)
(***************************************************************************)
EXTENDS Integers, Sequences

CONSTANTS
    Users,              \* the positive user ids that requests and rows name
    NULL,               \* SQL NULL, JSON null and Go's nil
    RawTitles,          \* titles as requests carry them
    TrimSpace,          \* strings.TrimSpace on RawTitles
    GoodTitles,         \* trimmed titles of 1..255 characters
    GoodDescriptions    \* descriptions of at most 10000 characters

Statuses == {"todo", "in_progress", "done", "cancelled"}
Roles == {"owner", "admin", "member"}
Fields == {"title", "description", "status", "assignee_id"}

\* NULL is none of the values it stands beside, and trimming is what it is.
ASSUME NullAssumption ==
    /\ NULL \notin Users \cup Roles \cup Statuses \cup GoodTitles \cup GoodDescriptions
    /\ NULL \notin Int

ASSUME TitleAssumption ==
    /\ TrimSpace \in [RawTitles -> RawTitles]
    /\ \A t \in RawTitles : TrimSpace[TrimSpace[t]] = TrimSpace[t]
    /\ GoodTitles \subseteq {t \in RawTitles : TrimSpace[t] = t}

Terminal(status) == status \in {"done", "cancelled"}
Assignable(role) == role \in {"admin", "member"}
CanEditAnyTask(role) == role \in {"owner", "admin"}

\* The bodies that the tables may hold.
FieldValues == GoodTitles \cup GoodDescriptions \cup Statuses \cup Users \cup {NULL}

Bodies == {b \in [Fields -> FieldValues] :
             /\ b["title"] \in GoodTitles
             /\ b["description"] \in GoodDescriptions
             /\ b["status"] \in Statuses
             /\ b["assignee_id"] \in Users \cup {NULL}}

\* A row of the table tasks.
Rows(teams, times) == [team       : teams,
                       created_by : Users,
                       body       : Bodies,
                       closed_at  : times \cup {NULL},
                       version    : Nat]

\* UPDATE tasks SET ..., version = version + 1.
EditedRow(row, body, closedAt) ==
    [team |-> row.team, created_by |-> row.created_by, body |-> body,
     closed_at |-> closedAt, version |-> row.version + 1]

\* INSERT INTO tasks; the column version starts at 1.
CreatedRow(team, user, body, closedAt) ==
    [team |-> team, created_by |-> user, body |-> body,
     closed_at |-> closedAt, version |-> 1]

ValidTitle(title) == title \in RawTitles /\ TrimSpace[title] \in GoodTitles

-----------------------------------------------------------------------------
(***************************************************************************)
(* A new task is the decoded body of POST /tasks without its team: a       *)
(* record [title, description, assignee_id].  A patch is the decoded body  *)
(* of PUT /tasks/{task_id}: the fields it sets (Optional.Set), each with *)
(* a value or NULL, and the version it expects or NULL.                    *)
(***************************************************************************)
Sets(patch, f) == f \in DOMAIN patch.fields

Empty(patch) == DOMAIN patch.fields = {}

ValidateNewTask(task) ==
    ValidTitle(task.title) /\ task.description \in GoodDescriptions

\* The body of a task created over HTTP: the request names no status.
NewBody(task) ==
    [f \in Fields |-> CASE f = "title" -> TrimSpace[task.title]
                        [] f = "description" -> task.description
                        [] f = "status" -> "todo"
                        [] OTHER -> task.assignee_id]

Validate(patch) ==
    /\ Sets(patch, "title") => ValidTitle(patch.fields["title"])
    /\ Sets(patch, "description") => patch.fields["description"] \in GoodDescriptions
    /\ Sets(patch, "status") => patch.fields["status"] \in Statuses
    /\ Sets(patch, "assignee_id") => patch.fields["assignee_id"] \in Users \cup {NULL}
    /\ patch.version # NULL => patch.version > 0

\* Mutant: the title is stored as it was sent.
TargetUntrimmed(patch, f) == patch.fields[f]

\* The value that the patch asks field f to have.
Target(patch, f) ==
    IF f = "title" THEN TrimSpace[patch.fields[f]] ELSE patch.fields[f]

Diff(body, patch) ==
    [f \in {g \in DOMAIN patch.fields : Target(patch, g) # body[g]} |->
        [from |-> body[f], to |-> Target(patch, f)]]

Apply(body, changes) ==
    [f \in Fields |-> IF f \in DOMAIN changes THEN changes[f].to ELSE body[f]]

CreationChanges(body) ==
    [f \in {g \in Fields : g = "assignee_id" => body[g] # NULL} |->
        [from |-> NULL, to |-> body[f]]]

\* Mutant: a closed task keeps its closing time when it is reopened.
CloseTimestampKept(row, status, now) ==
    IF row.closed_at # NULL THEN row.closed_at
    ELSE IF ~Terminal(status) THEN NULL
    ELSE now

\* A task keeps the time at which it was first closed until it is reopened.
CloseTimestamp(row, status, now) ==
    IF ~Terminal(status) THEN NULL
    ELSE IF row.closed_at # NULL THEN row.closed_at
    ELSE now

CreatorFields == Fields
AssigneeFields == {"status"}

\* actor is [user, role]; the changes are those of Diff.
AuthorizeTaskUpdate(actor, row, changes) ==
    LET changed == DOMAIN changes
    IN  \/ changed = {}
        \/ CanEditAnyTask(actor.role)
        \/ /\ row.created_by = actor.user
           /\ changed \subseteq CreatorFields
        \/ /\ row.created_by # actor.user
           /\ row.body["assignee_id"] = actor.user
           /\ changed \subseteq AssigneeFields

-----------------------------------------------------------------------------
(***************************************************************************)
(* Reading a history: the entries of a task, oldest first, each a function *)
(* changes from the fields changed to [from, to].  Leaves(log, n, f, v)    *)
(* says that after the first n entries field f has the value v.            *)
(***************************************************************************)
Touches(entry, f) == f \in DOMAIN entry.changes

Leaves(log, n, f, v) ==
    \/ /\ v = NULL
       /\ \A i \in 1..n : ~Touches(log[i], f)
    \/ \E i \in 1..n :
         /\ Touches(log[i], f)
         /\ log[i].changes[f].to = v
         /\ \A j \in (i+1)..n : ~Touches(log[j], f)

\* The log tells how the body came about, without a gap and without an
\* entry that changes nothing.
Explains(log, body) ==
    /\ \A f \in Fields : Leaves(log, Len(log), f, body[f])
    /\ \A i \in DOMAIN log : \A f \in DOMAIN log[i].changes :
         /\ Leaves(log, i - 1, f, log[i].changes[f].from)
         /\ log[i].changes[f].from # log[i].changes[f].to
=============================================================================
