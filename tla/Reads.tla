------------------------------- MODULE Reads --------------------------------
(***************************************************************************)
(* What clients are shown: ListTeams, TaskHistory, ListComments and        *)
(* TeamStats, and AddComment, which is the one write among them.  Each is  *)
(* a look or two at who may ask, and then one statement on the tables,     *)
(* outside any transaction.  Tasks and teams change in between as the      *)
(* specifications of their writers, TaskBoard and TeamRoles, allow.        *)
(***************************************************************************)
EXTENDS TeamRoles, Naturals, Sequences, FiniteSetsExt, Functions

CONSTANTS
    Procs,
    TaskIds, NewTasks, Patches, Times,              \* see TaskBoard
    RawTitles, TrimSpace, GoodTitles, GoodDescriptions,
    NameOrder,      \* NameOrder[u] < NameOrder[w]: u comes before w by name
    TopSize,        \* LIMIT of the list of assignees
    MaxVersion, MaxComments     \* bounds of the columns version and id

VARIABLES
    tasks, history,     \* see TaskBoard
    comments,           \* comments[id]: [task, user]
    pc, req,            \* req[p]: the request that p carries out, or NULL
    reply               \* reply[p]: the answer, or NULL

Board == INSTANCE TaskBoard

tables == <<member, tasks, history, comments>>
readVars == <<tables, pc, req, reply>>

Rows == Board!Rows(Teams, Times)
Requests ==
    [op : {"teams"}, user : Users, about : Users, known : SUBSET Teams]
      \cup [op : {"stats"}, user : Users, about : Teams, known : SUBSET Nat]
      \cup [op : {"history", "comments", "addComment"},
            user : Users, about : TaskIds, known : SUBSET Nat]

\* AUTO_INCREMENT ends somewhere.
ASSUME TaskIdsAssumption == IsFiniteSet(TaskIds)

\* NULL is no value and no record.
ASSUME NothingAssumption == NULL \notin Users \cup Times \cup Rows \cup Requests

ReadsInit ==
    /\ Init
    /\ Board!Init
    /\ comments = <<>>
    /\ pc = [p \in Procs |-> "idle"]
    /\ req = [p \in Procs |-> NULL]
    /\ reply = [p \in Procs |-> NULL]

Member(t, u) == Board!Member(t, u)

CommentsOf(id) == {c \in DOMAIN comments : comments[c].task = id}
TasksOf(t) == {id \in TaskIds : tasks[id] # NULL /\ tasks[id].team = t}
CommentsIn(t) == UNION {CommentsOf(id) : id \in TasksOf(t)}
TeamsOf(u) == {t \in Teams : Member(t, u)}

-----------------------------------------------------------------------------
(* The tables under the readers. *)

WriteTask ==
    /\ \E id \in TaskIds, u \in Users :
         \/ \E t \in Teams, task \in NewTasks : Board!Create(id, t, u, task)
         \/ \E role \in Roles, patch \in Patches :
              /\ tasks[id] # NULL
              /\ tasks[id].version < MaxVersion
              /\ Board!Edit(id, u, role, patch)
    /\ UNCHANGED <<member, comments, pc, req, reply>>

WriteTeam ==
    /\ Next
    /\ UNCHANGED <<tasks, history, comments, pc, req, reply>>

-----------------------------------------------------------------------------
(* Requests. *)

Go(p, step) == pc' = [pc EXCEPT ![p] = step]

Answer(p, code, shown) ==
    /\ Go(p, "answered")
    /\ reply' = [reply EXCEPT ![p] = [code |-> code, shown |-> shown]]

Fail(p, code) ==
    /\ Answer(p, code, NULL)
    /\ UNCHANGED <<tables, req>>

\* A request of user u about x: a task, a team, or u's own teams.  known is
\* auxiliary: what there was when it came.
Take(p, op, u, x, step, known) ==
    /\ pc[p] = "idle"
    /\ Go(p, step)
    /\ req' = [req EXCEPT ![p] = [op |-> op, user |-> u, about |-> x, known |-> known]]
    /\ UNCHANGED <<tables, reply>>

AcceptListTeams(p, u) == Take(p, "teams", u, u, "query", TeamsOf(u))

AcceptTeamStats(p, u, t) == Take(p, "stats", u, t, "member", CommentsIn(t))

AcceptTaskHistory(p, u, id) == Take(p, "history", u, id, "task", DOMAIN history[id])

AcceptListComments(p, u, id) == Take(p, "comments", u, id, "task", CommentsOf(id))

\* ValidateComment has passed; the text is of no consequence.
AcceptAddComment(p, u, id) == Take(p, "addComment", u, id, "task", {})

RefuseAddComment(p) == pc[p] = "idle" /\ Fail(p, "invalid")

\* taskForMember: the task, then its team's entry for the user.
LoadTask(p) ==
    /\ pc[p] = "task"
    /\ IF tasks[req[p].about] = NULL
       THEN Fail(p, "notFound")
       ELSE /\ Go(p, "member")
            /\ UNCHANGED <<tables, req, reply>>

TeamAskedFor(p) ==
    IF req[p].op = "stats" THEN req[p].about ELSE tasks[req[p].about].team

Allowed(p) == Go(p, IF req[p].op = "addComment" THEN "insert" ELSE "query")

\* Mutant: the error of the membership query is dropped.
LoadActorUnchecked(p) ==
    /\ pc[p] = "member"
    /\ Allowed(p)
    /\ UNCHANGED <<tables, req, reply>>

\* membership, and for statistics AuthorizeStatsAccess.
LoadActor(p) ==
    LET role == member[TeamAskedFor(p)][req[p].user]
    IN  /\ pc[p] = "member"
        /\ IF role = NULL
           THEN Fail(p, "notFound")
           ELSE IF req[p].op = "stats" /\ role \notin {"owner", "admin"}
           THEN Fail(p, "forbidden")
           ELSE Allowed(p) /\ UNCHANGED <<tables, req, reply>>

\* The INSERT commits by itself.
InsertComment(p) ==
    /\ pc[p] = "insert"
    /\ Len(comments) < MaxComments
    /\ comments' = Append(comments, [task |-> req[p].about, user |-> req[p].user])
    /\ req' = [req EXCEPT ![p].known = {Len(comments')}]
    /\ Go(p, "readBack")
    /\ UNCHANGED <<member, tasks, history, reply>>

\* The comment is there, but the answer to the INSERT is lost: a 500.
InsertCommentUnacknowledged(p) ==
    /\ pc[p] = "insert"
    /\ Len(comments) < MaxComments
    /\ comments' = Append(comments, [task |-> req[p].about, user |-> req[p].user])
    /\ Answer(p, "internal", NULL)
    /\ UNCHANGED <<member, tasks, history, req>>

ReadBackComment(p) ==
    /\ pc[p] = "readBack"
    /\ Answer(p, "ok", req[p].known)
    /\ UNCHANGED <<tables, req>>

ListTeams(p) ==
    /\ pc[p] = "query" /\ req[p].op = "teams"
    /\ Answer(p, "ok", TeamsOf(req[p].user))
    /\ UNCHANGED <<tables, req>>

TaskHistory(p) ==
    /\ pc[p] = "query" /\ req[p].op = "history"
    /\ Answer(p, "ok", DOMAIN history[req[p].about])
    /\ UNCHANGED <<tables, req>>

\* Mutant: WHERE task_id = ? AND user_id = ?.
OwnComments(p) ==
    /\ pc[p] = "query" /\ req[p].op = "comments"
    /\ Answer(p, "ok", {c \in CommentsOf(req[p].about) : comments[c].user = req[p].user})
    /\ UNCHANGED <<tables, req>>

\* The order, ids descending, is left out here and in TaskHistory.
TaskComments(p) ==
    /\ pc[p] = "query" /\ req[p].op = "comments"
    /\ Answer(p, "ok", CommentsOf(req[p].about))
    /\ UNCHANGED <<tables, req>>

DbError(p) ==
    /\ pc[p] \in {"task", "member", "insert", "readBack", "query"}
    /\ Fail(p, IF pc[p] = "member" /\ req[p].op # "stats" THEN "notFound" ELSE "internal")

\* The answer has been sent, or the process is gone.
Finish(p) ==
    /\ pc[p] # "idle"
    /\ Go(p, "idle")
    /\ req' = [req EXCEPT ![p] = NULL]
    /\ reply' = [reply EXCEPT ![p] = NULL]
    /\ UNCHANGED tables

-----------------------------------------------------------------------------
(* statsQuery: four figures from one snapshot. *)

WithStatus(t, status) == {id \in TasksOf(t) : tasks[id].body["status"] = status}

StatusCounts(t) ==
    [status \in {tasks[id].body["status"] : id \in TasksOf(t)} |->
        Cardinality(WithStatus(t, status))]

\* closed_at is not NULL, and not before the time from.
Closed(t, from) ==
    {id \in TasksOf(t) : tasks[id].closed_at # NULL /\ tasks[id].closed_at >= from}

\* The assignees of tasks closed since the time from, the first TopSize by
\* count and then by name; MySQL chooses between equals.
IsTop(top, t, from) ==
    LET Count(u) ==
            Cardinality({id \in Closed(t, from) : tasks[id].body["assignee_id"] = u})
        candidates == {u \in Users : Count(u) > 0}
        Ahead(u, w) ==
            Count(u) > Count(w) \/ (Count(u) = Count(w) /\ NameOrder[u] < NameOrder[w])
        chosen == DOMAIN top
    IN  /\ chosen \subseteq candidates
        /\ Cardinality(chosen) = Min({TopSize, Cardinality(candidates)})
        /\ \A u \in candidates \ chosen, w \in chosen : ~Ahead(u, w)
        /\ \A u \in chosen : top[u] = Count(u)

Tops == UNION {[U -> 1..Cardinality(TaskIds)] : U \in SUBSET Users}

\* NOW() - INTERVAL 30 DAY is read off MySQL's clock, closed_at off Go's, so
\* any instant may divide the closed tasks.  Of the average it matters only
\* that there is one.
TeamStats(p) ==
    LET t == req[p].about
    IN  /\ pc[p] = "query" /\ req[p].op = "stats"
        /\ \E from \in Times \cup {now + 1 : now \in Times}, top \in Tops :
             /\ IsTop(top, t, from)
             /\ Answer(p, "ok",
                  [tasks_by_status   |-> StatusCounts(t),
                   top_assignees     |-> top,
                   has_average       |-> \E id \in TasksOf(t) : tasks[id].closed_at # NULL,
                   comments_total    |-> Cardinality(CommentsIn(t))])
        /\ UNCHANGED <<tables, req>>

-----------------------------------------------------------------------------
Arrive(p) ==
    \/ RefuseAddComment(p)
    \/ \E u \in Users :
         \/ AcceptListTeams(p, u)
         \/ \E t \in Teams : AcceptTeamStats(p, u, t)
         \/ \E id \in TaskIds :
              \/ AcceptTaskHistory(p, u, id)
              \/ AcceptListComments(p, u, id)
              \/ AcceptAddComment(p, u, id)

Step(p) ==
    \/ LoadTask(p)
    \/ LoadActor(p)
    \/ InsertComment(p)
    \/ InsertCommentUnacknowledged(p)
    \/ ReadBackComment(p)
    \/ ListTeams(p)
    \/ TaskHistory(p)
    \/ TaskComments(p)
    \/ TeamStats(p)
    \/ DbError(p)
    \/ Finish(p)

ReadsNext ==
    \/ WriteTask
    \/ WriteTeam
    \/ \E p \in Procs : Arrive(p) \/ Step(p)

ReadsSpec == ReadsInit /\ [][ReadsNext]_readVars

-----------------------------------------------------------------------------
(* Properties. *)

Shown(p) == reply[p].shown
Succeeded(p, ops) ==
    pc[p] = "answered" /\ req[p] # NULL /\ reply[p].code = "ok" /\ req[p].op \in ops

\* What was there when a request came is in its answer, whoever wrote it and
\* whether or not it was acknowledged: no list is older than the request, or
\* cut short, and comments_total counts every comment.
ReadsAreFresh ==
    \A p \in Procs :
      /\ Succeeded(p, {"teams", "history", "comments"}) => req[p].known \subseteq Shown(p)
      /\ Succeeded(p, {"stats"}) => Cardinality(req[p].known) <= Shown(p).comments_total

\* The figures of one report fit together, though they come from different
\* columns: there is an average exactly if a status says that a task is
\* closed, no more closings are credited than there are closed tasks, and
\* only members get credit.
FiguresAgree ==
    \A p \in Procs : Succeeded(p, {"stats"}) =>
      LET counts == Shown(p).tasks_by_status
          top == Shown(p).top_assignees
          closed == DOMAIN counts \cap {"done", "cancelled"}
      IN  /\ Shown(p).has_average <=> closed # {}
          /\ SumFunction(top) <= SumFunctionOnSet(counts, closed)
          /\ \A u \in DOMAIN top : Member(req[p].about, u)

\* Only members of a team are shown anything of it, or write comments in it,
\* though nobody looks again after the first check.
OnlyMembersSee ==
    /\ \A p \in Procs :
         /\ Succeeded(p, {"stats"}) => Member(req[p].about, req[p].user)
         /\ Succeeded(p, {"history", "comments", "addComment"}) =>
              Member(tasks[req[p].about].team, req[p].user)
    /\ \A c \in DOMAIN comments :
         Member(tasks[comments[c].task].team, comments[c].user)

-----------------------------------------------------------------------------
(* The inductive invariant behind the properties of the answers. *)

Entries ==
    [by : Users,
     changes : {Board!Diff(body, patch) : body \in Board!Bodies, patch \in Patches}
                 \cup {Board!CreationChanges(body) : body \in Board!Bodies}]

ReadsTypeOK ==
    /\ tasks \in [TaskIds -> Rows \cup {NULL}]
    /\ history \in [TaskIds -> Seq(Entries)]
    /\ comments \in Seq([task : TaskIds, user : Users])
    /\ pc \in [Procs -> {"idle", "task", "member", "insert", "readBack", "query", "answered"}]
    /\ req \in [Procs -> Requests \cup {NULL}]
    /\ DOMAIN reply = Procs

\* What was known when the request came is in the tables still.
KnownIsThere(r) ==
    /\ r.op = "teams" => r.known \subseteq TeamsOf(r.user)
    /\ r.op = "stats" => r.known \subseteq CommentsIn(r.about)
    /\ r.op = "history" => r.known \subseteq DOMAIN history[r.about]
    /\ r.op = "comments" => r.known \subseteq CommentsOf(r.about)

TaskOps == {"history", "comments", "addComment"}

\* The user is a member of the team that the request is about.
MayAsk(r) ==
    /\ r.op = "stats" => Member(r.about, r.user)
    /\ r.op \in TaskOps =>
         tasks[r.about] # NULL /\ Member(tasks[r.about].team, r.user)

\* How far a request has come and what its checks have found; an answer is
\* right when it is given and stays so.
Stage(p) ==
    /\ pc[p] \notin {"idle", "answered"} => req[p] # NULL
    /\ req[p] # NULL => KnownIsThere(req[p])
    /\ pc[p] = "task" => req[p].op \in TaskOps
    /\ pc[p] = "member" =>
         \/ req[p].op = "stats"
         \/ req[p].op \in TaskOps /\ tasks[req[p].about] # NULL
    /\ pc[p] \in {"insert", "readBack"} => req[p].op = "addComment"
    /\ (pc[p] \in {"insert", "readBack", "query"} \/ Succeeded(p, TaskOps \cup {"stats"})) =>
         MayAsk(req[p])

\* What FiguresAgree asks of the tables (ClosedMatchesStatus and
\* AssigneeIsMember of Tasks).
SoundRow(row) ==
    LET assignee == row.body["assignee_id"]
    IN  /\ row.closed_at # NULL <=> Board!Terminal(row.body["status"])
        /\ assignee # NULL => Member(row.team, assignee)

BoardIsSound == \A id \in TaskIds : tasks[id] # NULL => SoundRow(tasks[id])

WritersAreMembers ==
    \A c \in DOMAIN comments :
      LET row == tasks[comments[c].task]
      IN  row # NULL /\ Member(row.team, comments[c].user)

ReadsIInv ==
    /\ OneOwner
    /\ ReadsTypeOK
    /\ BoardIsSound
    /\ WritersAreMembers
    /\ \A p \in Procs : Stage(p)
    /\ ReadsAreFresh
    /\ FiguresAgree
=============================================================================
