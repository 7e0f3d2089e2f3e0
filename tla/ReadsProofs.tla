---------------------------- MODULE ReadsProofs ----------------------------
(***************************************************************************)
(* Proofs about Reads: nobody but members is shown anything of a team, and *)
(* nothing that was there when a request came is missing from its answer,  *)
(* for any number of teams, users, tasks and requests.  The argument: what *)
(* a request learns or is to show only grows, in every table.              *)
(***************************************************************************)
EXTENDS Reads, TeamRolesProofs, FiniteSetTheorems, SequenceTheorems,
        WellFoundedInduction

USE DEF Board!Member

-----------------------------------------------------------------------------
(* What the writers of tasks leave behind. *)

\* A valid patch turns a body into a body (domain.Diff, domain.Apply).
LEMMA EditedBody ==
    ASSUME NEW body \in Board!Bodies, NEW patch, Board!Validate(patch)
    PROVE  Board!Apply(body, Board!Diff(body, patch)) \in Board!Bodies
<1> DEFINE changes == Board!Diff(body, patch)
           after == Board!Apply(body, changes)
<1> USE DEF Board!Apply, Board!Diff, Board!Bodies, Board!Validate, Board!Sets, Board!Target,
            Board!Fields
<1>1. after = [f \in Board!Fields |-> after[f]]
  OBVIOUS
<1>2. after["title"] \in GoodTitles
  BY DEF Board!ValidTitle
<1>3. after["description"] \in GoodDescriptions
  OBVIOUS
<1>4. after["status"] \in Board!Statuses
  OBVIOUS
<1>5. after["assignee_id"] \in Users \cup {NULL}
  OBVIOUS
<1>6. \A f \in Board!Fields : after[f] \in Board!FieldValues
  BY <1>2, <1>3, <1>4, <1>5 DEF Board!FieldValues
<1> HIDE DEF after
<1> QED
  BY <1>1, <1>2, <1>3, <1>4, <1>5, <1>6 DEF after, changes

\* A valid new task whose assignee exists has a body.
LEMMA CreatedBody ==
    ASSUME NEW task, Board!ValidateNewTask(task), task.assignee_id \in Users \cup {NULL}
    PROVE  /\ Board!NewBody(task) \in Board!Bodies
           /\ Board!NewBody(task)["status"] = "todo"
           /\ Board!NewBody(task)["assignee_id"] = task.assignee_id
BY DEF Board!NewBody, Board!ValidateNewTask, Board!ValidTitle, Board!Bodies, Board!Fields,
   Board!FieldValues, Board!Statuses

\* The row id is written once more: it is a row of the team that it was in, if
\* it was in one, and logged.
Written(id, row, entry) ==
    /\ row \in Rows /\ entry \in Entries
    /\ tasks' = [tasks EXCEPT ![id] = row]
    /\ history' = [history EXCEPT ![id] = Append(@, entry)]
    /\ tasks[id] # NULL => row.team = tasks[id].team
    /\ SoundRow(row)

LEMMA CreateWrites ==
    ASSUME NEW id \in TaskIds, NEW t \in Teams, NEW u \in Users, NEW task \in NewTasks,
           Board!Create(id, t, u, task)
    PROVE  \E row, entry : Written(id, row, entry)
<1> DEFINE body == Board!NewBody(task)
           row == Board!CreatedRow(t, u, body, NULL)
           entry == [by |-> u, changes |-> Board!CreationChanges(body)]
<1>1. /\ body \in Board!Bodies /\ body["status"] = "todo"
      /\ body["assignee_id"] = task.assignee_id
  BY CreatedBody DEF Board!Create, Board!MayHold, Member
<1>2. row \in Rows
  BY <1>1 DEF Board!CreatedRow, Board!Rows, Rows
<1>3. entry \in Entries
  BY <1>1 DEF Entries
<1>4. ~Board!Terminal("todo")
  BY DEF Board!Terminal
<1>5. /\ tasks[id] = NULL /\ tasks' = [tasks EXCEPT ![id] = row]
      /\ history' = [history EXCEPT ![id] = Append(@, entry)]
      /\ task.assignee_id # NULL => Member(t, task.assignee_id)
  BY DEF Board!Create, Board!Log, Board!MayHold, Member
<1>6. row.team = t /\ row.body = body /\ row.closed_at = NULL
  BY DEF Board!CreatedRow
<1> HIDE DEF row, entry, body
<1> QED
  BY <1>1, <1>2, <1>3, <1>4, <1>5, <1>6 DEF Written, SoundRow

LEMMA EditWrites ==
    ASSUME ReadsTypeOK, BoardIsSound,
           NEW id \in TaskIds, NEW u \in Users, NEW role \in Roles, NEW patch \in Patches,
           Board!Edit(id, u, role, patch)
    PROVE  \E row, entry : Written(id, row, entry)
<1> DEFINE old == tasks[id]
           changes == Board!Diff(old.body, patch)
           body == Board!Apply(old.body, changes)
<1>1. old \in Rows /\ old.body \in Board!Bodies /\ Board!Validate(patch)
  BY DEF ReadsTypeOK, Rows, Board!Rows, Board!Edit
<1>2. body \in Board!Bodies
  BY <1>1, EditedBody
<1>3. PICK now \in Times :
        tasks' = [tasks EXCEPT ![id] =
                    Board!EditedRow(old, body, Board!CloseTimestamp(old, body["status"], now))]
  BY DEF Board!Edit
<1> DEFINE closed == Board!CloseTimestamp(old, body["status"], now)
           row == Board!EditedRow(old, body, closed)
           entry == [by |-> u, changes |-> changes]
<1>4. /\ closed \in Times \cup {NULL}
      /\ closed # NULL <=> Board!Terminal(body["status"])
  BY <1>1, NothingAssumption DEF Board!CloseTimestamp, Rows, Board!Rows
<1>5. entry \in Entries
  BY <1>1 DEF Entries
<1>6. /\ history' = [history EXCEPT ![id] = Append(@, entry)]
      /\ body["assignee_id"] # NULL => Member(old.team, body["assignee_id"])
  BY DEF Board!Edit, Board!Log, Board!MayHold, Member
<1> HIDE DEF body, closed
<1>7. row.team = old.team /\ row.body = body /\ row.closed_at = closed
  BY DEF Board!EditedRow
<1>8. row \in Rows
  BY <1>1, <1>2, <1>4 DEF Board!EditedRow, Rows, Board!Rows
<1> HIDE DEF row, entry
<1>9. tasks'[id] = row /\ tasks' = [tasks EXCEPT ![id] = row]
  BY <1>3 DEF ReadsTypeOK, row, closed, body
<1> QED
  BY <1>4, <1>5, <1>6, <1>7, <1>8, <1>9 DEF Written, SoundRow

-----------------------------------------------------------------------------
(* The tables only grow. *)

TablesGrow ==
    /\ \A t \in Teams, u \in Users : Member(t, u) => Member(t, u)'
    /\ \A id \in TaskIds :
         /\ tasks[id] # NULL => tasks'[id] # NULL /\ tasks'[id].team = tasks[id].team
         /\ DOMAIN history[id] \subseteq DOMAIN history'[id]
    /\ DOMAIN comments \subseteq DOMAIN comments'
    /\ \A c \in DOMAIN comments : comments'[c] = comments[c]

LEMMA UnchangedGrow ==
    ASSUME UNCHANGED tables
    PROVE  TablesGrow
BY DEF TablesGrow, tables, Member

LEMMA RowTeam ==
    ASSUME ReadsTypeOK, NEW id \in TaskIds, tasks[id] # NULL
    PROVE  tasks[id] \in Rows /\ tasks[id].team \in Teams
BY DEF ReadsTypeOK, Rows, Board!Rows

\* A write of a task keeps it in its team and adds to its history.
LEMMA WrittenGrows ==
    ASSUME ReadsTypeOK, BoardIsSound, NEW id \in TaskIds, NEW row, NEW entry,
           Written(id, row, entry), UNCHANGED <<member, comments, pc, req, reply>>
    PROVE  TablesGrow /\ ReadsTypeOK' /\ BoardIsSound'
<1>1. /\ row \in Rows /\ entry \in Entries /\ row # NULL
      /\ tasks \in [TaskIds -> Rows \cup {NULL}] /\ history \in [TaskIds -> Seq(Entries)]
  BY NothingAssumption DEF Written, ReadsTypeOK
<1>2. /\ \A i \in TaskIds : tasks'[i] = IF i = id THEN row ELSE tasks[i]
      /\ tasks' \in [TaskIds -> Rows \cup {NULL}]
  BY <1>1 DEF Written
<1>3. /\ Append(history[id], entry) \in Seq(Entries)
      /\ DOMAIN history[id] \subseteq DOMAIN Append(history[id], entry)
  BY <1>1
<1>4. /\ \A i \in TaskIds : history'[i] = IF i = id THEN Append(history[i], entry) ELSE history[i]
      /\ history' \in [TaskIds -> Seq(Entries)]
  BY <1>1, <1>3 DEF Written
<1>5. \A t, u : Member(t, u)' <=> Member(t, u)
  BY DEF Member
<1>6. TablesGrow
  BY <1>1, <1>2, <1>3, <1>4, <1>5 DEF TablesGrow, Written
<1>7. ReadsTypeOK'
  BY <1>2, <1>4 DEF ReadsTypeOK
<1>8. \A r : SoundRow(r)' <=> SoundRow(r)
  BY <1>5 DEF SoundRow
<1>9. ASSUME NEW i \in TaskIds, tasks'[i] # NULL
      PROVE  \E r : r = tasks'[i] /\ SoundRow(r)
  BY <1>2, <1>9 DEF BoardIsSound, Written
<1>10. BoardIsSound'
  BY <1>8, <1>9 DEF BoardIsSound, SoundRow
<1> QED
  BY <1>6, <1>7, <1>10

LEMMA WriteTaskGrows ==
    ASSUME ReadsTypeOK, BoardIsSound, WriteTask
    PROVE  TablesGrow /\ ReadsTypeOK' /\ BoardIsSound'
<1>1. PICK id \in TaskIds : \E row, entry : Written(id, row, entry)
  BY CreateWrites, EditWrites DEF WriteTask
<1>2. PICK row, entry : Written(id, row, entry)
  BY <1>1
<1> QED
  BY <1>2, WrittenGrows DEF WriteTask

LEMMA WriteTeamGrows ==
    ASSUME OneOwner, ReadsTypeOK, BoardIsSound, WriteTeam
    PROVE  TablesGrow /\ ReadsTypeOK' /\ BoardIsSound'
<1>1. ASSUME NEW t \in Teams, NEW u \in Users, Member(t, u) PROVE Member(t, u)'
  BY <1>1, NextMembersStay DEF Member, WriteTeam
<1>2. TablesGrow /\ ReadsTypeOK'
  BY <1>1 DEF TablesGrow, WriteTeam, ReadsTypeOK
<1>3. ASSUME NEW id \in TaskIds, tasks[id] # NULL
      PROVE  SoundRow(tasks[id])'
  <2>1. SoundRow(tasks[id]) /\ tasks[id].team \in Teams /\ tasks'[id] = tasks[id]
    BY <1>3, RowTeam DEF BoardIsSound, WriteTeam
  <2>2. \A u : Member(tasks[id].team, u) => u \in Users
    BY DEF Member
  <2>3. \A t : t = tasks[id].team =>
          \A u : Member(t, u) => Member(t, u)'
    BY <1>1, <2>1, <2>2
  <2> QED
    BY <2>1, <2>3 DEF SoundRow
<1>4. BoardIsSound'
  BY <1>3 DEF BoardIsSound, WriteTeam
<1> QED
  BY <1>2, <1>4

LEMMA RequestType ==
    ASSUME NEW r \in Requests
    PROVE  /\ r.user \in Users
           /\ r.op \in {"teams", "stats"} \cup TaskOps
           /\ r.op = "stats" => r.about \in Teams
           /\ r.op \in TaskOps => r.about \in TaskIds
           /\ r.op # "teams" => r.known \subseteq Nat
BY DEF Requests, TaskOps

\* Lists and counts grow with the tables.
LEMMA ListsGrow ==
    ASSUME ReadsTypeOK, TablesGrow
    PROVE  /\ \A u \in Users : TeamsOf(u) \subseteq TeamsOf(u)'
           /\ \A id \in TaskIds : CommentsOf(id) \subseteq CommentsOf(id)'
           /\ \A t \in Teams : CommentsIn(t) \subseteq CommentsIn(t)'
<1>1. \A u \in Users : TeamsOf(u) \subseteq TeamsOf(u)'
  BY DEF TablesGrow, TeamsOf
<1>2. \A id \in TaskIds : CommentsOf(id) \subseteq CommentsOf(id)'
  BY DEF TablesGrow, CommentsOf
<1>3. \A t \in Teams : TasksOf(t) \subseteq TasksOf(t)'
  BY DEF TablesGrow, TasksOf
<1>4. \A t \in Teams : TasksOf(t) \subseteq TaskIds
  BY DEF TasksOf
<1>5. \A t \in Teams : CommentsIn(t) \subseteq CommentsIn(t)'
  BY <1>2, <1>3, <1>4 DEF CommentsIn
<1> QED
  BY <1>1, <1>2, <1>5

LEMMA FactsStay ==
    ASSUME ReadsTypeOK, TablesGrow, NEW r \in Requests
    PROVE  /\ KnownIsThere(r) => KnownIsThere(r)'
           /\ MayAsk(r) => MayAsk(r)'
<1>1. KnownIsThere(r) => KnownIsThere(r)'
  BY RequestType, ListsGrow DEF KnownIsThere, TablesGrow, TaskOps
<1>2. ASSUME MayAsk(r), r.op \in TaskOps PROVE MayAsk(r)'
  <2>1. /\ r.about \in TaskIds /\ r.user \in Users /\ r.op # "stats"
        /\ tasks[r.about] # NULL /\ Member(tasks[r.about].team, r.user)
    BY <1>2, RequestType DEF MayAsk, TaskOps
  <2>2. PICK t \in Teams : t = tasks[r.about].team
    BY <2>1, RowTeam
  <2>3. tasks'[r.about] # NULL /\ tasks'[r.about].team = t /\ Member(t, r.user)'
    BY <2>1, <2>2 DEF TablesGrow
  <2> QED
    BY <2>1, <2>3 DEF MayAsk, Member
<1>3. ASSUME MayAsk(r), r.op \notin TaskOps PROVE MayAsk(r)'
  BY <1>3, RequestType DEF MayAsk, TablesGrow
<1> QED
  BY <1>1, <1>2, <1>3

-----------------------------------------------------------------------------
(* Requests, one by one. *)

\* The properties of the answers, for process p.
FreshFor(p) ==
    /\ Succeeded(p, {"teams", "history", "comments"}) => req[p].known \subseteq Shown(p)
    /\ Succeeded(p, {"stats"}) => Cardinality(req[p].known) <= Shown(p).comments_total

AgreesFor(p) ==
    Succeeded(p, {"stats"}) =>
      LET counts == Shown(p).tasks_by_status
          top == Shown(p).top_assignees
          closed == DOMAIN counts \cap {"done", "cancelled"}
      IN  /\ Shown(p).has_average <=> closed # {}
          /\ SumFunction(top) <= SumFunctionOnSet(counts, closed)
          /\ \A u \in DOMAIN top : Member(req[p].about, u)

Fine(p) == Stage(p) /\ FreshFor(p) /\ AgreesFor(p)

LEMMA AllFine ==
    ASSUME ReadsIInv, NEW p \in Procs
    PROVE  Fine(p) /\ (req[p] # NULL => req[p] \in Requests)
BY DEF ReadsIInv, Fine, FreshFor, AgreesFor, ReadsAreFresh, FiguresAgree, ReadsTypeOK

LEMMA InvariantAfter ==
    ASSUME OneOwner', ReadsTypeOK', BoardIsSound', WritersAreMembers',
           \A p \in Procs : Fine(p)'
    PROVE  ReadsIInv'
BY DEF ReadsIInv, Fine, FreshFor, AgreesFor, ReadsAreFresh, FiguresAgree

\* The request of p goes on unharmed while others work.
LEMMA FineStays ==
    ASSUME ReadsIInv, TablesGrow, NEW p \in Procs, UNCHANGED <<pc[p], req[p], reply[p]>>
    PROVE  Fine(p)'
<1>1. Fine(p) /\ ReadsTypeOK /\ (req[p] # NULL => req[p] \in Requests)
  BY AllFine DEF ReadsIInv
<1>2. \A ops : Succeeded(p, ops)' <=> Succeeded(p, ops)
  BY DEF Succeeded
<1>3. Shown(p)' = Shown(p)
  BY DEF Shown
<1>4. ASSUME NEW r \in Requests, r = req[p]
      PROVE  /\ KnownIsThere(r) => KnownIsThere(r)'
             /\ MayAsk(r) => MayAsk(r)'
  BY <1>1, FactsStay
<1>5. req[p] # NULL => /\ KnownIsThere(req[p]) => KnownIsThere(req[p])'
                       /\ MayAsk(req[p]) => MayAsk(req[p])'
  <2> SUFFICES ASSUME req[p] # NULL
               PROVE  /\ KnownIsThere(req[p]) => KnownIsThere(req[p])'
                      /\ MayAsk(req[p]) => MayAsk(req[p])'
    OBVIOUS
  <2>1. PICK r \in Requests : r = req[p]
    BY <1>1
  <2>2. r = req'[p]
    BY <2>1
  <2> QED
    BY <1>4, <2>1, <2>2 DEF KnownIsThere, MayAsk
<1>6. Stage(p)'
  <2>1. /\ pc[p] \notin {"idle", "answered"} => req[p] # NULL
        /\ (pc[p] \in {"insert", "readBack", "query"} \/ Succeeded(p, TaskOps \cup {"stats"})) =>
             req[p] # NULL /\ MayAsk(req[p])
    BY <1>1 DEF Fine, Stage, Succeeded
  <2>2. (pc[p] = "member" /\ req[p].op \in TaskOps) => req[p].about \in TaskIds
    BY <1>1, <2>1, RequestType
  <2>3. /\ pc[p] = "task" => req[p].op \in TaskOps
        /\ (pc[p] = "member" /\ req[p].op # "stats") =>
             req[p].op \in TaskOps /\ tasks'[req[p].about] # NULL
        /\ pc[p] \in {"insert", "readBack"} => req[p].op = "addComment"
    BY <1>1, <2>2 DEF Fine, Stage, TablesGrow
  <2>4. req[p] # NULL => KnownIsThere(req[p])'
    BY <1>1, <1>5 DEF Fine, Stage
  <2> QED
    BY <1>2, <1>5, <2>1, <2>3, <2>4 DEF Stage
<1>7. FreshFor(p)'
  BY <1>1, <1>2, <1>3 DEF Fine, FreshFor
<1>8. AgreesFor(p)'
  <2>1. ASSUME Succeeded(p, {"stats"}), NEW u, Member(req[p].about, u)
        PROVE  Member(req[p].about, u)'
    <3>1. req[p].about \in Teams /\ u \in Users
      BY <1>1, <2>1, RequestType DEF Succeeded, Member
    <3>2. PICK t \in Teams : t = req[p].about
      BY <3>1
    <3>3. Member(t, u)' /\ t = req'[p].about
      BY <2>1, <3>1, <3>2 DEF TablesGrow
    <3> QED
      BY <3>2, <3>3 DEF Member
  <2> QED
    BY <1>1, <1>2, <1>3, <2>1 DEF Fine, AgreesFor
<1> QED
  BY <1>6, <1>7, <1>8 DEF Fine

LEMMA WritersStay ==
    ASSUME ReadsIInv, TablesGrow, comments' = comments
    PROVE  WritersAreMembers'
<1>1. ASSUME NEW c \in DOMAIN comments
      PROVE  /\ tasks'[comments[c].task] # NULL
             /\ \E t : t = tasks'[comments[c].task].team /\ Member(t, comments[c].user)'
  <2> DEFINE Records == [task : TaskIds, user : Users]
  <2>0. comments \in Seq(Records)
    BY DEF ReadsIInv, ReadsTypeOK
  <2> HIDE DEF Records
  <2>1. comments[c] \in Records
    BY <2>0
  <2> USE DEF Records
  <2>2. /\ comments[c].task \in TaskIds /\ comments[c].user \in Users
        /\ tasks[comments[c].task] # NULL
        /\ Member(tasks[comments[c].task].team, comments[c].user)
    BY <2>1 DEF ReadsIInv, WritersAreMembers
  <2>3. PICK t \in Teams, u \in Users : t = tasks[comments[c].task].team /\ u = comments[c].user
    BY <2>2, RowTeam DEF ReadsIInv
  <2>4. Member(t, u)' /\ tasks'[comments[c].task] # NULL /\ tasks'[comments[c].task].team = t
    BY <2>2, <2>3 DEF TablesGrow
  <2>5. comments'[c].user = u
    BY <2>3
  <2> QED
    BY <2>4, <2>5 DEF Member
<1> QED
  BY <1>1 DEF WritersAreMembers, Member

\* A step of process p alone.
LEMMA ProcessStep ==
    ASSUME ReadsIInv, NEW p \in Procs, UNCHANGED <<member, tasks, history>>, TablesGrow,
           \A q \in Procs \ {p} : UNCHANGED <<pc[q], req[q], reply[q]>>,
           ReadsTypeOK', WritersAreMembers', Fine(p)'
    PROVE  ReadsIInv'
<1>1. OneOwner'
  BY DEF ReadsIInv, OneOwner, WellFormedMembers
<1>2. BoardIsSound'
  BY DEF ReadsIInv, BoardIsSound, SoundRow, Member
<1>3. \A q \in Procs : Fine(q)'
  BY FineStays
<1> QED
  BY <1>1, <1>2, <1>3, InvariantAfter

\* The part of ReadsTypeOK that answering and going on can disturb.
LEMMA MovedTypes ==
    ASSUME ReadsIInv, NEW p \in Procs,
           NEW step \in {"idle", "task", "member", "insert", "readBack", "query", "answered"},
           Go(p, step), UNCHANGED <<tasks, history>>
    PROVE  /\ pc'[p] = step
           /\ \A q \in Procs \ {p} : pc'[q] = pc[q]
           /\ pc' \in [Procs -> {"idle", "task", "member", "insert", "readBack", "query",
                                 "answered"}]
           /\ tasks' \in [TaskIds -> Rows \cup {NULL}]
           /\ history' \in [TaskIds -> Seq(Entries)]
BY DEF ReadsIInv, ReadsTypeOK, Go

LEMMA AnswerTypes ==
    ASSUME ReadsIInv, NEW p \in Procs, NEW code, NEW shown, Answer(p, code, shown)
    PROVE  /\ DOMAIN reply' = Procs
           /\ reply'[p].code = code /\ Shown(p)' = shown
           /\ \A q \in Procs \ {p} : reply'[q] = reply[q]
<1>1. reply' = [reply EXCEPT ![p] = [code |-> code, shown |-> shown]]
  BY DEF Answer
<1>2. DOMAIN reply = Procs
  BY DEF ReadsIInv, ReadsTypeOK
<1>3. reply'[p] = [code |-> code, shown |-> shown]
  BY <1>1, <1>2
<1> QED
  BY <1>1, <1>2, <1>3 DEF Shown

\* A step that touches no table and no request but its own place.
LEMMA GoesOn ==
    ASSUME ReadsIInv, NEW p \in Procs, NEW step \in {"member", "insert", "query"},
           Go(p, step), UNCHANGED <<tables, req, reply>>, req[p] # NULL,
           step = "member" => req[p].op \in TaskOps /\ tasks[req[p].about] # NULL,
           step \in {"insert", "query"} => MayAsk(req[p]),
           step = "insert" => req[p].op = "addComment"
    PROVE  ReadsIInv'
<1>1. /\ TablesGrow /\ UNCHANGED <<member, tasks, history, comments>>
  BY UnchangedGrow DEF tables
<1>2. Fine(p) /\ WritersAreMembers'
  BY <1>1, AllFine, WritersStay
<1>3. /\ pc'[p] = step /\ \A q \in Procs \ {p} : pc'[q] = pc[q]
      /\ ReadsTypeOK'
  BY <1>1, MovedTypes DEF ReadsIInv, ReadsTypeOK
<1>4. \A ops : ~Succeeded(p, ops)'
  BY <1>3 DEF Succeeded
<1>5. KnownIsThere(req[p])' /\ (MayAsk(req[p])' <=> MayAsk(req[p]))
  BY <1>1, <1>2 DEF Fine, Stage, KnownIsThere, TeamsOf, CommentsIn, TasksOf, CommentsOf, MayAsk,
     Member
<1>6. Stage(p)'
  BY <1>1, <1>3, <1>4, <1>5 DEF Stage
<1>7. Fine(p)'
  BY <1>4, <1>6 DEF Fine, FreshFor, AgreesFor
<1> QED
  BY <1>1, <1>2, <1>3, <1>7, ProcessStep

\* An answer that is an error shows nothing, so it cannot be wrong.
LEMMA FailStep ==
    ASSUME ReadsIInv, NEW p \in Procs, NEW code, code # "ok", Fail(p, code)
    PROVE  ReadsIInv'
<1>1. TablesGrow /\ UNCHANGED <<member, tasks, history, comments, req>> /\ Go(p, "answered")
  BY UnchangedGrow DEF Fail, Answer, tables
<1>2. Fine(p) /\ WritersAreMembers'
  BY <1>1, AllFine, WritersStay
<1>3. /\ DOMAIN reply' = Procs /\ reply'[p].code = code
      /\ \A q \in Procs \ {p} : reply'[q] = reply[q]
  BY AnswerTypes DEF Fail
<1>4. /\ pc'[p] = "answered" /\ \A q \in Procs \ {p} : pc'[q] = pc[q]
      /\ ReadsTypeOK'
  BY <1>1, <1>3, MovedTypes DEF ReadsIInv, ReadsTypeOK
<1>5. \A ops : ~Succeeded(p, ops)'
  BY <1>3 DEF Succeeded
<1>6. req[p] # NULL => KnownIsThere(req[p])'
  BY <1>1, <1>2 DEF Fine, Stage, KnownIsThere, TeamsOf, CommentsIn, TasksOf, CommentsOf, Member
<1>7. Stage(p)'
  BY <1>1, <1>4, <1>5, <1>6 DEF Stage
<1>8. Fine(p)'
  BY <1>5, <1>7 DEF Fine, FreshFor, AgreesFor
<1> QED
  BY <1>1, <1>2, <1>3, <1>4, <1>8, ProcessStep

\* An answer to a request that has passed its checks, and whose content is
\* as FreshFor and AgreesFor ask.
LEMMA SuccessStep ==
    ASSUME ReadsIInv, NEW p \in Procs, NEW shown, Answer(p, "ok", shown),
           UNCHANGED <<tables, req>>, pc[p] \in {"query", "readBack"},
           req[p].op \in {"teams", "history", "comments"} => req[p].known \subseteq shown,
           req[p].op = "stats" =>
             /\ Cardinality(req[p].known) <= shown.comments_total
             /\ shown.has_average <=> DOMAIN shown.tasks_by_status \cap {"done", "cancelled"} # {}
             /\ SumFunction(shown.top_assignees) <=
                  SumFunctionOnSet(shown.tasks_by_status,
                                   DOMAIN shown.tasks_by_status \cap {"done", "cancelled"})
             /\ \A u \in DOMAIN shown.top_assignees : Member(req[p].about, u)
    PROVE  ReadsIInv'
<1>1. /\ TablesGrow /\ UNCHANGED <<member, tasks, history, comments, req>> /\ Go(p, "answered")
  BY UnchangedGrow DEF Answer, tables
<1>2. Fine(p) /\ WritersAreMembers' /\ req[p] # NULL
  BY <1>1, AllFine, WritersStay DEF Fine, Stage
<1>3. /\ DOMAIN reply' = Procs /\ Shown(p)' = shown
      /\ \A q \in Procs \ {p} : reply'[q] = reply[q]
  BY AnswerTypes
<1>4. /\ pc'[p] = "answered" /\ \A q \in Procs \ {p} : pc'[q] = pc[q]
      /\ ReadsTypeOK'
  BY <1>1, <1>3, MovedTypes DEF ReadsIInv, ReadsTypeOK
<1>5. \A ops : Succeeded(p, ops)' => req[p].op \in ops
  BY <1>1 DEF Succeeded
<1>6. KnownIsThere(req[p])' /\ MayAsk(req[p])'
  BY <1>1, <1>2 DEF Fine, Stage, KnownIsThere, TeamsOf, CommentsIn, TasksOf, CommentsOf, MayAsk,
     Member
<1>7. Stage(p)'
  BY <1>1, <1>4, <1>6 DEF Stage
<1>8. \A u : Member(req[p].about, u) => Member(req[p].about, u)'
  BY <1>1 DEF Member
<1>9. FreshFor(p)' /\ AgreesFor(p)'
  BY <1>1, <1>3, <1>5, <1>8 DEF FreshFor, AgreesFor
<1>10. Fine(p)'
  BY <1>7, <1>9 DEF Fine
<1> QED
  BY <1>1, <1>2, <1>3, <1>4, <1>10, ProcessStep

-----------------------------------------------------------------------------
(* The actions. *)

LEMMA TakeStep ==
    ASSUME ReadsIInv, NEW p \in Procs, NEW r \in Requests,
           NEW step \in {"task", "member", "query"},
           Take(p, r.op, r.user, r.about, step, r.known),
           KnownIsThere(r),
           step = "task" => r.op \in TaskOps,
           step = "member" => r.op = "stats",
           step = "query" => r.op = "teams"
    PROVE  ReadsIInv'
<1>1. /\ TablesGrow /\ UNCHANGED <<member, tasks, history, comments, reply>> /\ Go(p, step)
  BY UnchangedGrow DEF Take, tables
<1>2. r = [op |-> r.op, user |-> r.user, about |-> r.about, known |-> r.known]
  BY DEF Requests
<1>3. req' = [req EXCEPT ![p] = r]
  BY <1>2 DEF Take
<1>4. /\ req' \in [Procs -> Requests \cup {NULL}] /\ req'[p] = r
      /\ \A q \in Procs \ {p} : req'[q] = req[q]
  BY <1>3 DEF ReadsIInv, ReadsTypeOK
<1>5. WritersAreMembers'
  BY <1>1, WritersStay
<1>6. /\ pc'[p] = step /\ \A q \in Procs \ {p} : pc'[q] = pc[q]
      /\ ReadsTypeOK'
  BY <1>1, <1>4, MovedTypes DEF ReadsIInv, ReadsTypeOK
<1>7. \A ops : ~Succeeded(p, ops)'
  BY <1>6 DEF Succeeded
<1>8. KnownIsThere(r)'
  BY <1>1 DEF KnownIsThere, TeamsOf, CommentsIn, TasksOf, CommentsOf, Member
<1>9. r # NULL /\ (step = "query" => MayAsk(r)')
  BY NothingAssumption DEF MayAsk, TaskOps
<1>10. \E x \in Requests : x = r /\ x = req'[p] /\ KnownIsThere(x)' /\ (step = "query" => MayAsk(x)')
  BY <1>4, <1>8, <1>9
<1>11. KnownIsThere(req[p])' /\ (step = "query" => MayAsk(req[p])')
  BY <1>10 DEF KnownIsThere, MayAsk
<1>12. Stage(p)'
  BY <1>4, <1>6, <1>7, <1>9, <1>11 DEF Stage
<1>13. Fine(p)'
  BY <1>7, <1>12 DEF Fine, FreshFor, AgreesFor
<1> QED
  BY <1>1, <1>4, <1>5, <1>6, <1>13, ProcessStep

\* The comments of a task and of a team are ids of comments.
LEMMA CommentIds ==
    ASSUME ReadsTypeOK
    PROVE  /\ IsFiniteSet(DOMAIN comments) /\ DOMAIN comments \subseteq Nat
           /\ \A id : CommentsOf(id) \subseteq DOMAIN comments
           /\ \A t : CommentsIn(t) \subseteq DOMAIN comments
<1>1. Len(comments) \in Nat /\ DOMAIN comments = 1..Len(comments)
  BY DEF ReadsTypeOK
<1>2. IsFiniteSet(1..Len(comments))
  BY <1>1, FS_Interval
<1>3. \A id : CommentsOf(id) \subseteq DOMAIN comments
  BY DEF CommentsOf
<1>4. \A t : CommentsIn(t) \subseteq DOMAIN comments
  BY <1>3 DEF CommentsIn
<1> QED
  BY <1>1, <1>2, <1>3, <1>4

LEMMA ArriveStep ==
    ASSUME ReadsIInv, NEW p \in Procs, Arrive(p)
    PROVE  ReadsIInv'
<1>1. CASE RefuseAddComment(p)
  BY <1>1, FailStep DEF RefuseAddComment
<1>2. ASSUME NEW u \in Users, AcceptListTeams(p, u) PROVE ReadsIInv'
  <2> DEFINE r == [op |-> "teams", user |-> u, about |-> u, known |-> TeamsOf(u)]
  <2>1. r \in Requests
    BY DEF Requests, TeamsOf
  <2>2. PICK x \in Requests : x = r
    BY <2>1
  <2>3. KnownIsThere(x) /\ Take(p, x.op, x.user, x.about, "query", x.known)
    BY <1>2, <2>2 DEF KnownIsThere, AcceptListTeams
  <2> QED
    BY <2>2, <2>3, TakeStep
<1>3. ASSUME NEW u \in Users, NEW t \in Teams, AcceptTeamStats(p, u, t) PROVE ReadsIInv'
  <2> DEFINE r == [op |-> "stats", user |-> u, about |-> t, known |-> CommentsIn(t)]
  <2>1. r \in Requests
    BY CommentIds DEF Requests, ReadsIInv
  <2>2. PICK x \in Requests : x = r
    BY <2>1
  <2>3. KnownIsThere(x) /\ Take(p, x.op, x.user, x.about, "member", x.known)
    BY <1>3, <2>2 DEF KnownIsThere, AcceptTeamStats
  <2> QED
    BY <2>2, <2>3, TakeStep
<1>4. ASSUME NEW u \in Users, NEW id \in TaskIds,
             NEW op \in TaskOps, NEW known \in SUBSET Nat,
             op = "history" => known \subseteq DOMAIN history[id],
             op = "comments" => known \subseteq CommentsOf(id),
             Take(p, op, u, id, "task", known)
      PROVE  ReadsIInv'
  <2> DEFINE r == [op |-> op, user |-> u, about |-> id, known |-> known]
  <2>1. r \in Requests
    BY DEF Requests, TaskOps
  <2>2. PICK x \in Requests : x = r
    BY <2>1
  <2>3. KnownIsThere(x) /\ Take(p, x.op, x.user, x.about, "task", x.known) /\ x.op \in TaskOps
    BY <1>4, <2>2 DEF KnownIsThere, TaskOps
  <2> QED
    BY <2>3, TakeStep
<1>5. ASSUME NEW u \in Users, NEW id \in TaskIds,
             \/ AcceptTaskHistory(p, u, id)
             \/ AcceptListComments(p, u, id)
             \/ AcceptAddComment(p, u, id)
      PROVE  ReadsIInv'
  <2>1. DOMAIN history[id] \subseteq Nat /\ CommentsOf(id) \subseteq Nat
    BY CommentIds DEF ReadsIInv, ReadsTypeOK
  <2>2. {"history", "comments", "addComment"} \subseteq TaskOps
    BY DEF TaskOps
  <2>3. CASE AcceptTaskHistory(p, u, id)
    <3>1. PICK known \in SUBSET Nat : known = DOMAIN history[id]
      BY <2>1
    <3> QED
      BY <1>4, <2>2, <2>3, <3>1 DEF AcceptTaskHistory
  <2>4. CASE AcceptListComments(p, u, id)
    <3>1. PICK known \in SUBSET Nat : known = CommentsOf(id)
      BY <2>1
    <3> QED
      BY <1>4, <2>2, <2>4, <3>1 DEF AcceptListComments
  <2>5. CASE AcceptAddComment(p, u, id)
    <3>1. PICK known \in SUBSET Nat : known = {}
      OBVIOUS
    <3> QED
      BY <1>4, <2>2, <2>5, <3>1 DEF AcceptAddComment
  <2> QED
    BY <1>5, <2>3, <2>4, <2>5
<1> QED
  BY <1>1, <1>2, <1>3, <1>5 DEF Arrive

LEMMA LoadTaskStep ==
    ASSUME ReadsIInv, NEW p \in Procs, LoadTask(p)
    PROVE  ReadsIInv'
<1>1. Fine(p) /\ pc[p] = "task"
  BY AllFine DEF LoadTask
<1>2. CASE Fail(p, "notFound")
  BY <1>2, FailStep
<1>3. CASE tasks[req[p].about] # NULL /\ Go(p, "member") /\ UNCHANGED <<tables, req, reply>>
  BY <1>1, <1>3, GoesOn DEF Fine, Stage
<1> QED
  BY <1>2, <1>3 DEF LoadTask

\* The check of the membership is what MayAsk remembers.
LEMMA LoadActorStep ==
    ASSUME ReadsIInv, NEW p \in Procs, LoadActor(p)
    PROVE  ReadsIInv'
<1> DEFINE role == member[TeamAskedFor(p)][req[p].user]
<1>1. Fine(p) /\ pc[p] = "member" /\ req[p] # NULL /\ req[p] \in Requests
  BY AllFine DEF LoadActor, Fine, Stage
<1>2. CASE Fail(p, "notFound") \/ Fail(p, "forbidden")
  BY <1>2, FailStep
<1>3. CASE role # NULL /\ Allowed(p) /\ UNCHANGED <<tables, req, reply>>
  <2>1. MayAsk(req[p])
    BY <1>1, <1>3, RequestType DEF MayAsk, TeamAskedFor, Member, Fine, Stage, TaskOps
  <2> QED
    BY <1>1, <1>3, <2>1, GoesOn DEF Allowed
<1> QED
  BY <1>2, <1>3 DEF LoadActor

\* A new comment is by a member, and takes no other comment's place.
LEMMA CommentAdded ==
    ASSUME ReadsIInv, NEW p \in Procs, pc[p] = "insert", UNCHANGED <<member, tasks, history>>,
           comments' = Append(comments, [task |-> req[p].about, user |-> req[p].user])
    PROVE  /\ TablesGrow /\ WritersAreMembers' /\ Len(comments') \in Nat
           /\ comments' \in Seq([task : TaskIds, user : Users])
           /\ req[p] \in Requests /\ req[p] # NULL /\ req[p].op = "addComment"
           /\ MayAsk(req[p])
<1> DEFINE Records == [task : TaskIds, user : Users]
           new == [task |-> req[p].about, user |-> req[p].user]
<1>1. /\ req[p] \in Requests /\ req[p] # NULL /\ req[p].op = "addComment"
      /\ MayAsk(req[p])
  BY AllFine DEF Fine, Stage
<1>2. /\ new \in Records /\ tasks[new.task] # NULL /\ Member(tasks[new.task].team, new.user)
  BY <1>1, RequestType DEF MayAsk, TaskOps
<1>3. comments \in Seq(Records)
  BY DEF ReadsIInv, ReadsTypeOK
<1> HIDE DEF Records, new
<1>4. /\ comments' \in Seq(Records) /\ Len(comments') = Len(comments) + 1 /\ Len(comments) \in Nat
      /\ DOMAIN comments = 1..Len(comments) /\ DOMAIN comments' = 1..(Len(comments) + 1)
      /\ \A c \in DOMAIN comments : comments'[c] = comments[c]
      /\ comments'[Len(comments) + 1] = new
  BY <1>2, <1>3, AppendProperties DEF new
<1>5. TablesGrow
  BY <1>4 DEF TablesGrow, Member
<1>6. ASSUME NEW c \in DOMAIN comments'
      PROVE  /\ tasks[comments'[c].task] # NULL
             /\ Member(tasks[comments'[c].task].team, comments'[c].user)
  BY <1>2, <1>4 DEF ReadsIInv, WritersAreMembers
<1>7. WritersAreMembers'
  BY <1>6 DEF WritersAreMembers, Member
<1> QED
  BY <1>1, <1>4, <1>5, <1>7 DEF Records

LEMMA InsertCommentStep ==
    ASSUME ReadsIInv, NEW p \in Procs, InsertComment(p)
    PROVE  ReadsIInv'
<1> DEFINE old == req[p]
           new == [req[p] EXCEPT !.known = {Len(comments')}]
<1>1. /\ TablesGrow /\ WritersAreMembers' /\ Len(comments') \in Nat
      /\ comments' \in Seq([task : TaskIds, user : Users])
      /\ old \in Requests /\ old.op = "addComment" /\ MayAsk(old)
      /\ UNCHANGED <<member, tasks, history, reply>> /\ Go(p, "readBack")
  BY CommentAdded DEF InsertComment
<1>2. /\ new \in Requests /\ new.op = "addComment"
      /\ new.about = old.about /\ new.user = old.user
  BY <1>1 DEF Requests
<1>3. /\ req' \in [Procs -> Requests \cup {NULL}] /\ req'[p] = new
      /\ \A q \in Procs \ {p} : req'[q] = req[q]
  BY <1>2 DEF InsertComment, ReadsIInv, ReadsTypeOK
<1> HIDE DEF old, new
<1>4. /\ pc'[p] = "readBack" /\ \A q \in Procs \ {p} : pc'[q] = pc[q]
      /\ ReadsTypeOK'
  BY <1>1, <1>3, MovedTypes DEF ReadsIInv, ReadsTypeOK
<1>5. MayAsk(req[p])'
  BY <1>1, <1>2, <1>3 DEF MayAsk, Member, TaskOps
<1>6. KnownIsThere(req[p])'
  BY <1>2, <1>3 DEF KnownIsThere
<1>7. \A ops : ~Succeeded(p, ops)'
  BY <1>4 DEF Succeeded
<1>8. Stage(p)'
  BY <1>2, <1>3, <1>4, <1>5, <1>6, NothingAssumption DEF Stage
<1>9. Fine(p)'
  BY <1>7, <1>8 DEF Fine, FreshFor, AgreesFor
<1> QED
  BY <1>1, <1>3, <1>4, <1>9, ProcessStep

LEMMA InsertCommentUnacknowledgedStep ==
    ASSUME ReadsIInv, NEW p \in Procs, InsertCommentUnacknowledged(p)
    PROVE  ReadsIInv'
<1>1. /\ TablesGrow /\ WritersAreMembers'
      /\ comments' \in Seq([task : TaskIds, user : Users])
      /\ req[p].op = "addComment"
      /\ UNCHANGED <<member, tasks, history, req>> /\ Go(p, "answered")
  BY CommentAdded DEF InsertCommentUnacknowledged, Answer
<1>2. /\ DOMAIN reply' = Procs /\ reply'[p].code = "internal"
      /\ \A q \in Procs \ {p} : reply'[q] = reply[q]
  BY AnswerTypes DEF InsertCommentUnacknowledged
<1>3. /\ pc'[p] = "answered" /\ \A q \in Procs \ {p} : pc'[q] = pc[q]
      /\ ReadsTypeOK'
  BY <1>1, <1>2, MovedTypes DEF ReadsIInv, ReadsTypeOK
<1>4. \A ops : ~Succeeded(p, ops)'
  BY <1>2 DEF Succeeded
<1>5. KnownIsThere(req[p])'
  BY <1>1 DEF KnownIsThere
<1>6. Stage(p)'
  BY <1>3, <1>4, <1>5 DEF Stage
<1>7. Fine(p)'
  BY <1>4, <1>6 DEF Fine, FreshFor, AgreesFor
<1> QED
  BY <1>1, <1>2, <1>3, <1>7, ProcessStep

LEMMA ListStep ==
    ASSUME ReadsIInv, NEW p \in Procs,
           ListTeams(p) \/ TaskHistory(p) \/ TaskComments(p) \/ ReadBackComment(p)
    PROVE  ReadsIInv'
<1>1. Fine(p) /\ pc[p] \in {"query", "readBack"} /\ req[p] # NULL
  BY AllFine DEF ListTeams, TaskHistory, TaskComments, ReadBackComment, Fine, Stage
<1>2. KnownIsThere(req[p]) /\ (pc[p] = "readBack" => req[p].op = "addComment")
  BY <1>1 DEF Fine, Stage
<1>3. CASE ListTeams(p)
  BY <1>1, <1>2, <1>3, SuccessStep DEF ListTeams, KnownIsThere
<1>4. CASE TaskHistory(p)
  BY <1>1, <1>2, <1>4, SuccessStep DEF TaskHistory, KnownIsThere
<1>5. CASE TaskComments(p)
  BY <1>1, <1>2, <1>5, SuccessStep DEF TaskComments, KnownIsThere
<1>6. CASE ReadBackComment(p)
  BY <1>1, <1>2, <1>6, SuccessStep DEF ReadBackComment
<1> QED
  BY <1>3, <1>4, <1>5, <1>6

\* A status is counted exactly if a task has it.
LEMMA StatusesOfClosed ==
    ASSUME ReadsIInv, NEW t \in Teams
    PROVE  (\E id \in TasksOf(t) : tasks[id].closed_at # NULL) <=>
             DOMAIN StatusCounts(t) \cap {"done", "cancelled"} # {}
<1>1. \A id \in TasksOf(t) :
        tasks[id].closed_at # NULL <=> tasks[id].body["status"] \in {"done", "cancelled"}
  BY DEF ReadsIInv, BoardIsSound, SoundRow, TasksOf, Board!Terminal
<1>2. DOMAIN StatusCounts(t) = {tasks[id].body["status"] : id \in TasksOf(t)}
  BY DEF StatusCounts
<1> QED
  BY <1>1, <1>2

\* Whoever is credited with a closed task is its assignee, hence a member.
LEMMA CreditedAreMembers ==
    ASSUME ReadsIInv, NEW t \in Teams, NEW top, NEW from, IsTop(top, t, from),
           NEW u \in DOMAIN top
    PROVE  Member(t, u)
<1> DEFINE closings == {id \in Closed(t, from) : tasks[id].body["assignee_id"] = u}
<1>1. u \in Users /\ Cardinality(closings) > 0
  BY DEF IsTop
<1> HIDE DEF closings
<1>2. closings # {}
  <2>1. Cardinality({}) = 0
    BY FS_EmptySet
  <2> QED
    BY <1>1, <2>1
<1>3. PICK id \in TasksOf(t) : tasks[id].body["assignee_id"] = u
  BY <1>2 DEF Closed, closings
<1> QED
  BY <1>1, <1>3, NothingAssumption DEF ReadsIInv, BoardIsSound, SoundRow, TasksOf

\* A function on the subsets of S that adds up f as SumFunctionOnSet does.
AddsUp(sum, f, S) ==
    sum = [s \in SUBSET S |->
             IF s = {} THEN 0
             ELSE LET x == CHOOSE x \in s : TRUE IN f[x] + sum[s \ {x}]]

LEMMA SumIsAddingUp ==
    ASSUME NEW f, NEW S, NEW witness, AddsUp(witness, f, S)
    PROVE  \E sum : AddsUp(sum, f, S) /\ SumFunctionOnSet(f, S) = sum[S]
<1> DEFINE iter == CHOOSE sum : AddsUp(sum, f, S)
<1>1. AddsUp(iter, f, S)
  BY DEF AddsUp
<1>2. SumFunctionOnSet(f, S) = iter[S]
  BY DEF SumFunctionOnSet, FoldFunctionOnSet, MapThenFoldSet, AddsUp
<1> QED
  BY <1>1, <1>2

\* Two functions that add up f are one: a smallest set on which they differ
\* would be neither empty nor one more element than another.
LEMMA AddingUpIsUnique ==
    ASSUME NEW f, NEW S, IsFiniteSet(S), NEW g, NEW h, AddsUp(g, f, S), AddsUp(h, f, S)
    PROVE  g[S] = h[S]
<1> SUFFICES ASSUME g[S] # h[S] PROVE FALSE
  OBVIOUS
<1> DEFINE T == {s \in SUBSET S : g[s] # h[s]}
<1>1. /\ T \subseteq FiniteSubsetsOf(S)
      /\ T # {}
  BY FS_FiniteSubsetsOfFinite
<1>2. PICK s \in T : \A r \in T : <<r, s>> \notin StrictSubsetOrdering(S)
  <2>1. IsWellFoundedOn(StrictSubsetOrdering(S), FiniteSubsetsOf(S))
    BY FS_StrictSubsetOrderingWellFounded
  <2> HIDE DEF T
  <2> QED
    BY <1>1, <2>1, WFMin
<1>3. s # {}
  BY DEF AddsUp
<1> DEFINE x == CHOOSE x \in s : TRUE
<1>4. x \in s
  BY <1>3
<1>5. g[s] = f[x] + g[s \ {x}] /\ h[s] = f[x] + h[s \ {x}]
  BY <1>3 DEF AddsUp
<1>6. s \ {x} \in SUBSET S /\ <<s \ {x}, s>> \in StrictSubsetOrdering(S)
  BY <1>4 DEF StrictSubsetOrdering
<1> QED
  BY <1>2, <1>5, <1>6

\* The sum of GROUP BY counts is the count of the rows in these groups.
LEMMA SumOfCounts ==
    ASSUME NEW T, IsFiniteSet(T), NEW group, NEW S, IsFiniteSet(S), NEW f,
           \A x \in S : f[x] = Cardinality({id \in T : group[id] = x})
    PROVE  SumFunctionOnSet(f, S) = Cardinality({id \in T : group[id] \in S})
<1> DEFINE In(s) == {id \in T : group[id] \in s}
           count == [s \in SUBSET S |-> Cardinality(In(s))]
<1>1. ASSUME NEW s \in SUBSET S, s # {}, NEW x \in s
      PROVE  count[s] = f[x] + count[s \ {x}]
  <2> DEFINE Of == {id \in T : group[id] = x}
  <2>1. In(s) = In(s \ {x}) \cup Of /\ In(s \ {x}) \cap Of = {}
    OBVIOUS
  <2>2. IsFiniteSet(In(s \ {x})) /\ IsFiniteSet(Of)
    BY FS_Subset
  <2>3. /\ Cardinality({}) = 0 /\ Cardinality(In(s \ {x})) \in Nat /\ Cardinality(Of) \in Nat
    BY <2>2, FS_EmptySet, FS_CardinalityType
  <2>4. f[x] = Cardinality(Of) /\ s \ {x} \in SUBSET S
    OBVIOUS
  <2> HIDE DEF Of, In
  <2>5. Cardinality(In(s \ {x}) \cup Of) =
          Cardinality(In(s \ {x})) + Cardinality(Of) - Cardinality(In(s \ {x}) \cap Of)
    BY <2>2, FS_Union
  <2>6. /\ Cardinality(In(s)) = Cardinality(In(s \ {x}) \cup Of)
        /\ Cardinality(In(s \ {x}) \cap Of) = 0
    BY <2>1, <2>3, Zenon
  <2>7. Cardinality(In(s)) = Cardinality(In(s \ {x})) + Cardinality(Of)
    BY <2>3, <2>5, <2>6
  <2> QED
    BY <2>3, <2>4, <2>7
<1>2. count[{}] = 0
  BY FS_EmptySet
<1>3. AddsUp(count, f, S)
  <2>1. ASSUME NEW s \in SUBSET S
        PROVE  count[s] = IF s = {} THEN 0
                          ELSE LET x == CHOOSE x \in s : TRUE IN f[x] + count[s \ {x}]
    BY <1>1, <1>2
  <2> QED
    BY <2>1 DEF AddsUp
<1>4. PICK sum : AddsUp(sum, f, S) /\ SumFunctionOnSet(f, S) = sum[S]
  BY <1>3, SumIsAddingUp
<1>5. sum[S] = count[S]
  BY <1>3, <1>4, AddingUpIsUnique
<1> QED
  BY <1>4, <1>5

\* What assignees are credited with is closed, and every closed task is
\* counted under its status.
LEMMA CreditIsCovered ==
    ASSUME ReadsIInv, NEW t \in Teams, NEW top, NEW from, IsTop(top, t, from)
    PROVE  SumFunction(top) <=
             SumFunctionOnSet(StatusCounts(t),
                              DOMAIN StatusCounts(t) \cap {"done", "cancelled"})
<1> DEFINE assignee == [id \in TaskIds |-> tasks[id].body["assignee_id"]]
           status == [id \in TaskIds |-> tasks[id].body["status"]]
           finals == DOMAIN StatusCounts(t) \cap {"done", "cancelled"}
           credited == {id \in Closed(t, from) : assignee[id] \in DOMAIN top}
           counted == {id \in TasksOf(t) : status[id] \in finals}
<1>1. /\ TasksOf(t) \subseteq TaskIds /\ Closed(t, from) \subseteq TaskIds
      /\ IsFiniteSet(TasksOf(t)) /\ IsFiniteSet(Closed(t, from))
  BY TaskIdsAssumption, FS_Subset DEF TasksOf, Closed
<1>2. /\ DOMAIN StatusCounts(t) = {status[id] : id \in TasksOf(t)}
      /\ \A x \in DOMAIN StatusCounts(t) :
           StatusCounts(t)[x] = Cardinality({id \in TasksOf(t) : status[id] = x})
  BY <1>1 DEF StatusCounts, WithStatus
<1>3. ASSUME NEW u \in DOMAIN top
      PROVE  /\ top[u] = Cardinality({id \in Closed(t, from) : assignee[id] = u})
             /\ top[u] > 0
  BY <1>1 DEF IsTop
<1>4. IsFiniteSet(DOMAIN top)
  <2> DEFINE Holders == {assignee[id] : id \in Closed(t, from)}
  <2>1. ASSUME NEW u \in DOMAIN top PROVE u \in Holders
    <3>1. {id \in Closed(t, from) : assignee[id] = u} # {}
      BY <1>3, FS_EmptySet
    <3> QED
      BY <3>1
  <2>2. [id \in Closed(t, from) |-> assignee[id]] \in Surjection(Closed(t, from), Holders)
    BY DEF Surjection
  <2>3. IsFiniteSet(Holders)
    BY <1>1, <2>2, FS_Surjection
  <2> QED
    BY <2>1, <2>3, FS_Subset
<1>5. SumFunction(top) = Cardinality(credited)
  <2> HIDE DEF assignee
  <2>1. \A u \in DOMAIN top : top[u] = Cardinality({id \in Closed(t, from) : assignee[id] = u})
    BY <1>3
  <2>2. SumFunctionOnSet(top, DOMAIN top) = Cardinality(credited)
    BY <1>1, <1>4, <2>1, SumOfCounts
  <2> QED
    BY <2>2 DEF SumFunction
<1>6. SumFunctionOnSet(StatusCounts(t), finals) = Cardinality(counted)
  <2>1. IsFiniteSet({"done", "cancelled"})
    <3>1. IsFiniteSet({"done"} \cup {"cancelled"})
      BY FS_Singleton, FS_Union
    <3>2. {"done", "cancelled"} = {"done"} \cup {"cancelled"}
      OBVIOUS
    <3> QED
      BY <3>1, <3>2, Zenon
  <2>2. IsFiniteSet(finals)
    BY <2>1, FS_Subset
  <2>3. \A x \in finals :
          StatusCounts(t)[x] = Cardinality({id \in TasksOf(t) : status[id] = x})
    BY <1>2
  <2> HIDE DEF status, finals
  <2> QED
    BY <1>1, <2>2, <2>3, SumOfCounts
<1>7. credited \subseteq counted
  BY <1>1, <1>2 DEF Closed, ReadsIInv, BoardIsSound, SoundRow, TasksOf, Board!Terminal
<1> QED
  BY <1>1, <1>5, <1>6, <1>7, FS_Subset

LEMMA TeamStatsStep ==
    ASSUME ReadsIInv, NEW p \in Procs, TeamStats(p)
    PROVE  ReadsIInv'
<1>1. /\ Fine(p) /\ pc[p] = "query" /\ req[p].op = "stats" /\ req[p] # NULL
      /\ req[p] \in Requests
  BY AllFine DEF TeamStats, Fine, Stage
<1>2. PICK t \in Teams : t = req[p].about
  BY <1>1, RequestType
<1>3. PICK from, top :
        /\ IsTop(top, t, from)
        /\ Answer(p, "ok",
             [tasks_by_status   |-> StatusCounts(t),
              top_assignees     |-> top,
              has_average       |-> \E id \in TasksOf(t) : tasks[id].closed_at # NULL,
              comments_total    |-> Cardinality(CommentsIn(t))])
  BY <1>2 DEF TeamStats
<1> DEFINE average == \E id \in TasksOf(t) : tasks[id].closed_at # NULL
           shown == [tasks_by_status |-> StatusCounts(t), top_assignees |-> top,
                     has_average |-> average, comments_total |-> Cardinality(CommentsIn(t))]
<1>4. /\ shown.tasks_by_status = StatusCounts(t) /\ shown.top_assignees = top
      /\ shown.has_average = average /\ shown.comments_total = Cardinality(CommentsIn(t))
  OBVIOUS
<1>5. Answer(p, "ok", shown) /\ UNCHANGED <<tables, req>>
  BY <1>3 DEF TeamStats
<1>6. Cardinality(req[p].known) <= Cardinality(CommentsIn(t))
  <2>1. req[p].known \subseteq CommentsIn(t)
    BY <1>1, <1>2 DEF Fine, Stage, KnownIsThere
  <2>2. IsFiniteSet(CommentsIn(t))
    BY CommentIds, FS_Subset DEF ReadsIInv
  <2> QED
    BY <2>1, <2>2, FS_Subset
<1>7. average <=> DOMAIN StatusCounts(t) \cap {"done", "cancelled"} # {}
  BY StatusesOfClosed
<1>8. \A u \in DOMAIN top : Member(req[p].about, u)
  BY <1>2, <1>3, CreditedAreMembers
<1>9. SumFunction(top) <=
        SumFunctionOnSet(StatusCounts(t), DOMAIN StatusCounts(t) \cap {"done", "cancelled"})
  BY <1>3, CreditIsCovered
<1> HIDE DEF shown
<1> QED
  BY <1>1, <1>4, <1>5, <1>6, <1>7, <1>8, <1>9, SuccessStep

LEMMA FinishStep ==
    ASSUME ReadsIInv, NEW p \in Procs, Finish(p)
    PROVE  ReadsIInv'
<1>1. /\ TablesGrow /\ UNCHANGED <<member, tasks, history, comments>> /\ Go(p, "idle")
  BY UnchangedGrow DEF Finish, tables
<1>2. WritersAreMembers'
  BY <1>1, WritersStay
<1>3. /\ req' = [req EXCEPT ![p] = NULL] /\ reply' = [reply EXCEPT ![p] = NULL]
      /\ req \in [Procs -> Requests \cup {NULL}] /\ DOMAIN reply = Procs
  BY DEF Finish, ReadsIInv, ReadsTypeOK
<1>4. /\ req' \in [Procs -> Requests \cup {NULL}] /\ DOMAIN reply' = Procs /\ req'[p] = NULL
      /\ \A q \in Procs \ {p} : req'[q] = req[q] /\ reply'[q] = reply[q]
  BY <1>3
<1>5. /\ pc'[p] = "idle" /\ \A q \in Procs \ {p} : pc'[q] = pc[q]
      /\ ReadsTypeOK'
  BY <1>1, <1>4, MovedTypes DEF ReadsIInv, ReadsTypeOK
<1>6. \A ops : ~Succeeded(p, ops)'
  BY <1>4 DEF Succeeded
<1>7. Stage(p)'
  BY <1>4, <1>5, <1>6 DEF Stage
<1>8. Fine(p)'
  BY <1>6, <1>7 DEF Fine, FreshFor, AgreesFor
<1> QED
  BY <1>1, <1>2, <1>4, <1>5, <1>8, ProcessStep

LEMMA DbErrorStep ==
    ASSUME ReadsIInv, NEW p \in Procs, DbError(p)
    PROVE  ReadsIInv'
<1>1. PICK code \in {"notFound", "internal"} : Fail(p, code)
  BY DEF DbError
<1> QED
  BY <1>1, FailStep

LEMMA StepStep ==
    ASSUME ReadsIInv, NEW p \in Procs, Step(p)
    PROVE  ReadsIInv'
BY LoadTaskStep, LoadActorStep, InsertCommentStep, InsertCommentUnacknowledgedStep, ListStep,
   TeamStatsStep, DbErrorStep, FinishStep DEF Step

\* The writers of tasks and of teams disturb no request.
LEMMA WriterStep ==
    ASSUME ReadsIInv, WriteTask \/ WriteTeam
    PROVE  ReadsIInv'
<1>1. OneOwner /\ ReadsTypeOK /\ BoardIsSound
  BY DEF ReadsIInv
<1>2. TablesGrow /\ ReadsTypeOK' /\ BoardIsSound' /\ UNCHANGED <<comments, pc, req, reply>>
  BY <1>1, WriteTaskGrows, WriteTeamGrows DEF WriteTask, WriteTeam
<1>3. OneOwner'
  <2>1. CASE WriteTask
    BY <1>1, <2>1 DEF WriteTask, OneOwner, WellFormedMembers
  <2>2. CASE WriteTeam
    BY <1>1, <2>2, NextOneOwner DEF WriteTeam
  <2> QED
    BY <2>1, <2>2
<1>4. WritersAreMembers'
  BY <1>2, WritersStay
<1>5. \A p \in Procs : Fine(p)'
  BY <1>2, FineStays
<1> QED
  BY <1>2, <1>3, <1>4, <1>5, InvariantAfter

LEMMA NextReadsIInv == ReadsIInv /\ [ReadsNext]_readVars => ReadsIInv'
<1> SUFFICES ASSUME ReadsIInv, [ReadsNext]_readVars PROVE ReadsIInv'
  OBVIOUS
<1>1. CASE WriteTask \/ WriteTeam
  BY <1>1, WriterStep
<1>2. ASSUME NEW p \in Procs, Arrive(p) \/ Step(p) PROVE ReadsIInv'
  BY <1>2, ArriveStep, StepStep
<1>3. CASE UNCHANGED readVars
  <2>1. UNCHANGED <<member, tasks, history, comments, pc, req, reply>>
    BY <1>3 DEF readVars, tables
  <2>2. TablesGrow
    BY <1>3, UnchangedGrow DEF readVars
  <2>3. OneOwner' /\ ReadsTypeOK' /\ BoardIsSound'
    BY <2>1 DEF ReadsIInv, OneOwner, WellFormedMembers, ReadsTypeOK, BoardIsSound, SoundRow,
       Member
  <2>4. WritersAreMembers' /\ \A p \in Procs : Fine(p)'
    BY <2>1, <2>2, WritersStay, FineStays
  <2> QED
    BY <2>3, <2>4, InvariantAfter
<1> QED
  BY <1>1, <1>2, <1>3 DEF ReadsNext

LEMMA InitReadsIInv == ReadsInit => ReadsIInv
<1> SUFFICES ASSUME ReadsInit PROVE ReadsIInv
  OBVIOUS
<1>1. OneOwner
  BY InitOneOwner DEF ReadsInit
<1>2. ReadsTypeOK
  <2>1. <<>> \in Seq(Entries) /\ <<>> \in Seq([task : TaskIds, user : Users])
    OBVIOUS
  <2> QED
    BY <2>1 DEF ReadsInit, Board!Init, ReadsTypeOK
<1>3. BoardIsSound /\ WritersAreMembers
  BY DEF ReadsInit, Board!Init, BoardIsSound, WritersAreMembers
<1>4. ASSUME NEW p \in Procs PROVE pc[p] = "idle" /\ req[p] = NULL
  BY DEF ReadsInit
<1>5. \A p \in Procs : Stage(p) /\ \A ops : ~Succeeded(p, ops)
  BY <1>4 DEF Stage, Succeeded
<1>6. ReadsAreFresh /\ FiguresAgree
  BY <1>5 DEF ReadsAreFresh, FiguresAgree
<1> QED
  BY <1>1, <1>2, <1>3, <1>5, <1>6 DEF ReadsIInv

-----------------------------------------------------------------------------
(* Theorems. *)

\* The invariant: what a request knew and what its checks found is still so
\* when it is answered.
THEOREM ReadsInvariantHolds == ReadsSpec => []ReadsIInv
<1> QED
  BY InitReadsIInv, NextReadsIInv, PTL DEF ReadsSpec

\* No list is older than its request, or cut short, and comments_total counts
\* every comment that was there (Store.TaskHistory, TaskComments, TeamsForUser,
\* TeamStats).
THEOREM ReadsAlwaysFresh == ReadsSpec => []ReadsAreFresh
<1>1. ReadsIInv => ReadsAreFresh
  BY DEF ReadsIInv
<1> QED
  BY <1>1, ReadsInvariantHolds, PTL

\* taskForMember and Membership look once, before the query or the INSERT:
\* still only members are shown a team's data or comment on its tasks.
THEOREM OnlyMembersEverSee == ReadsSpec => []OnlyMembersSee
<1>1. ReadsIInv => OnlyMembersSee
  <2> SUFFICES ASSUME ReadsIInv PROVE OnlyMembersSee
    OBVIOUS
  <2>1. ASSUME NEW p \in Procs, Succeeded(p, TaskOps \cup {"stats"})
        PROVE  MayAsk(req[p])
    BY <2>1 DEF ReadsIInv, Stage
  <2>2. ASSUME NEW p \in Procs
        PROVE  /\ Succeeded(p, {"stats"}) => Member(req[p].about, req[p].user)
               /\ Succeeded(p, {"history", "comments", "addComment"}) =>
                    Member(tasks[req[p].about].team, req[p].user)
    BY <2>1 DEF Succeeded, MayAsk, TaskOps
  <2> QED
    BY <2>2 DEF OnlyMembersSee, ReadsIInv, WritersAreMembers
<1> QED
  BY <1>1, ReadsInvariantHolds, PTL

\* The columns status and closed_at, which statsQuery reads for different
\* figures, tell one story, and credit for closed tasks goes to members and
\* adds up to no more than there are.
THEOREM FiguresAlwaysAgree == ReadsSpec => []FiguresAgree
<1>1. ReadsIInv => FiguresAgree
  BY DEF ReadsIInv
<1> QED
  BY <1>1, ReadsInvariantHolds, PTL

\* Under the readers, too, the table of members keeps the promise of
\* TeamRoles.
THEOREM ReadsImplementTeamRoles == ReadsSpec => Spec
<1>1. ReadsInit => Init
  BY DEF ReadsInit
<1>2. [ReadsNext]_readVars => [Next]_member
  <2>1. ASSUME NEW p \in Procs, Arrive(p) \/ Step(p) PROVE UNCHANGED member
    BY <2>1 DEF Arrive, RefuseAddComment, AcceptListTeams, AcceptTeamStats, AcceptTaskHistory,
       AcceptListComments, AcceptAddComment, Take, Step, LoadTask, LoadActor, InsertComment,
       InsertCommentUnacknowledged, ReadBackComment, ListTeams, TaskHistory, TaskComments,
       TeamStats, DbError, Finish, Fail, tables
  <2>2. CASE WriteTask
    BY <2>2 DEF WriteTask
  <2>3. CASE WriteTeam
    BY <2>3 DEF WriteTeam
  <2>4. CASE UNCHANGED readVars
    BY <2>4 DEF readVars, tables
  <2> QED
    BY <2>1, <2>2, <2>3, <2>4 DEF ReadsNext
<1> QED
  BY <1>1, <1>2, PTL DEF ReadsSpec, Spec
=============================================================================
