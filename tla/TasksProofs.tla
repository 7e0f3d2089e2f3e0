---------------------------- MODULE TasksProofs ----------------------------
(***************************************************************************)
(* Proofs about Tasks: its invariant IInv is inductive, and the history of *)
(* a task explains it, whatever requests, failures and crashes interleave. *)
(* They rest on facts about the rules of internal/domain, which come first:*)
(* what Diff, Apply, NewBody and CreationChanges return, and how a history *)
(* grows.                                                                  *)
(***************************************************************************)
EXTENDS Tasks, SequenceTheorems, TLAPS

IsPatch(patch) ==
    DOMAIN patch.fields \subseteq Fields /\ patch.version \in Int \cup {NULL}

IsEntry(entry) == DOMAIN entry.changes \subseteq Fields

-----------------------------------------------------------------------------
\* A valid patch turns a body into a body (domain.Diff, domain.Apply).
LEMMA ApplyType ==
    ASSUME NEW body \in Bodies, NEW patch, IsPatch(patch), Validate(patch)
    PROVE  Apply(body, Diff(body, patch)) \in Bodies
<1> DEFINE changes == Diff(body, patch)
           after == Apply(body, changes)
<1>1. after = [f \in Fields |-> after[f]]
  BY DEF Apply
<1>2. after["title"] \in GoodTitles
  BY DEF Apply, Diff, Bodies, Validate, Sets, ValidTitle, Target, Fields
<1>3. after["description"] \in GoodDescriptions
  BY DEF Apply, Diff, Bodies, Validate, Sets, Target, Fields
<1>4. after["status"] \in Statuses
  BY DEF Apply, Diff, Bodies, Validate, Sets, Target, Fields
<1>5. after["assignee_id"] \in Users \cup {NULL}
  BY DEF Apply, Diff, Bodies, Validate, Sets, Target, Fields
<1>6. \A f \in Fields : after[f] \in FieldValues
  BY <1>2, <1>3, <1>4, <1>5 DEF Fields, FieldValues
<1> HIDE DEF after
<1> QED
  BY <1>1, <1>2, <1>3, <1>4, <1>5, <1>6 DEF Bodies, after, changes

\* A valid new task has a body once its assignee is known to exist.
LEMMA NewBodyType ==
    ASSUME NEW task, ValidateNewTask(task), task.assignee_id \in Users \cup {NULL}
    PROVE  /\ NewBody(task) \in Bodies
           /\ NewBody(task)["status"] = "todo"
BY DEF NewBody, ValidateNewTask, ValidTitle, Bodies, Fields, FieldValues, Statuses

\* Diff names fields of a task only, takes "from" from the body and never
\* proposes a value that is there already.
LEMMA DiffFromBody ==
    ASSUME NEW body \in Bodies, NEW patch, IsPatch(patch)
    PROVE  /\ DOMAIN Diff(body, patch) \subseteq Fields
           /\ \A f \in DOMAIN Diff(body, patch) :
                /\ Diff(body, patch)[f].from = body[f]
                /\ Diff(body, patch)[f].from # Diff(body, patch)[f].to
BY DEF Diff, IsPatch

\* The first entry of a history takes every field that is set from NULL.
LEMMA CreationFromNull ==
    ASSUME NEW body \in Bodies
    PROVE  /\ DOMAIN CreationChanges(body) \subseteq Fields
           /\ \A f \in DOMAIN CreationChanges(body) :
                /\ CreationChanges(body)[f].from = NULL
                /\ CreationChanges(body)[f].to = body[f]
                /\ body[f] # NULL
           /\ \A f \in Fields \ DOMAIN CreationChanges(body) : body[f] = NULL
<1>1. \A f \in Fields \ {"assignee_id"} : body[f] # NULL
  BY NullAssumption DEF Fields, Bodies
<1> QED
  BY <1>1 DEF CreationChanges

-----------------------------------------------------------------------------
\* What a log says about its first entries does not change as it grows.
LEMMA LeavesStable ==
    ASSUME NEW S, NEW log \in Seq(S), NEW entry \in S,
           NEW n \in 0..Len(log), NEW f, NEW v
    PROVE  Leaves(Append(log, entry), n, f, v) <=> Leaves(log, n, f, v)
<1>1. \A i \in 1..n : Append(log, entry)[i] = log[i]
  OBVIOUS
<1> QED
  BY <1>1 DEF Leaves

\* The last entry decides on the fields that it touches and leaves the others.
LEMMA LeavesAppend ==
    ASSUME NEW S, NEW log \in Seq(S), NEW entry \in S, NEW f, NEW v
    PROVE  Leaves(Append(log, entry), Len(log) + 1, f, v) <=>
             IF Touches(entry, f) THEN v = entry.changes[f].to
                                  ELSE Leaves(log, Len(log), f, v)
<1> DEFINE longer == Append(log, entry)
           n == Len(log)
<1>1. n \in Nat /\ longer[n + 1] = entry /\ \A i \in 1..n : longer[i] = log[i]
  OBVIOUS
<1>2. CASE Touches(entry, f)
  <2>1. Leaves(longer, n + 1, f, v) => v = entry.changes[f].to
    <3>1. ~(\A i \in 1..(n+1) : ~Touches(longer[i], f))
      BY <1>1, <1>2
    <3>2. \A i \in 1..n : n + 1 \in (i+1)..(n+1)
      BY <1>1
    <3> QED
      BY <1>1, <1>2, <3>1, <3>2 DEF Leaves
  <2>2. v = entry.changes[f].to => Leaves(longer, n + 1, f, v)
    <3>1. n + 1 \in 1..(n+1) /\ ((n+1)+1)..(n+1) = {}
      BY <1>1
    <3> QED
      BY <1>1, <1>2, <3>1 DEF Leaves
  <2> QED
    BY <1>2, <2>1, <2>2
<1>3. CASE ~Touches(entry, f)
  <2>1. (\A i \in 1..(n+1) : ~Touches(longer[i], f)) <=> (\A i \in 1..n : ~Touches(log[i], f))
    BY <1>1, <1>3
  <2>2. ASSUME NEW i \in 1..n
        PROVE (\A j \in (i+1)..(n+1) : ~Touches(longer[j], f)) <=>
              (\A j \in (i+1)..n : ~Touches(log[j], f))
    BY <1>1, <1>3
  <2>3. 1..(n+1) = 1..n \cup {n + 1}
    BY <1>1
  <2> QED
    BY <1>1, <1>3, <2>1, <2>2, <2>3 DEF Leaves
<1> QED
  BY <1>2, <1>3

\* A history that explains a body explains what an edit makes of it, once the
\* entry of the edit is appended.
LEMMA ExplainsEdit ==
    ASSUME NEW S, NEW log \in Seq(S), NEW entry \in S,
           NEW body \in Bodies,
           Explains(log, body),
           DOMAIN entry.changes \subseteq Fields,
           \A f \in DOMAIN entry.changes :
             /\ entry.changes[f].from = body[f]
             /\ entry.changes[f].from # entry.changes[f].to
    PROVE  Explains(Append(log, entry), Apply(body, entry.changes))
<1> DEFINE longer == Append(log, entry)
           n == Len(log)
<1>1. /\ n \in Nat /\ Len(longer) = n + 1 /\ DOMAIN longer = 1..(n+1)
      /\ DOMAIN log = 1..n
      /\ longer[n + 1] = entry /\ \A i \in 1..n : longer[i] = log[i]
  OBVIOUS
<1>2. ASSUME NEW f \in Fields
      PROVE Leaves(longer, n + 1, f, Apply(body, entry.changes)[f])
  BY LeavesAppend DEF Touches, Apply, Explains
<1>3. ASSUME NEW i \in 1..n, NEW f \in DOMAIN longer[i].changes
      PROVE /\ Leaves(longer, i - 1, f, longer[i].changes[f].from)
            /\ longer[i].changes[f].from # longer[i].changes[f].to
  <2>1. i - 1 \in 0..n
    BY <1>1
  <2> QED
    BY <1>1, <2>1, LeavesStable DEF Explains
<1>4. ASSUME NEW f \in DOMAIN entry.changes
      PROVE /\ Leaves(longer, n, f, entry.changes[f].from)
            /\ entry.changes[f].from # entry.changes[f].to
  <2>1. n \in 0..n
    BY <1>1
  <2> QED
    BY <2>1, LeavesStable DEF Explains
<1>5. \A i \in 1..(n+1) : i \in 1..n \/ (i = n + 1 /\ i - 1 = n)
  BY <1>1
<1> HIDE DEF longer, n
<1> QED
  BY <1>1, <1>2, <1>3, <1>4, <1>5 DEF Explains, longer, n

\* The creation entry alone explains the body it was made from.
LEMMA ExplainsCreation ==
    ASSUME NEW entry, NEW body \in Bodies,
           entry.changes = CreationChanges(body)
    PROVE  Explains(<<entry>>, body)
<1>1. Len(<<entry>>) = 1 /\ DOMAIN <<entry>> = {1} /\ <<entry>>[1] = entry
  OBVIOUS
<1>2. ASSUME NEW f \in Fields PROVE Leaves(<<entry>>, 1, f, body[f])
  <2>1. 1..1 = {1} /\ (1+1)..1 = {}
    OBVIOUS
  <2> QED
    BY <1>1, <2>1, CreationFromNull DEF Leaves, Touches
<1>3. ASSUME NEW f \in DOMAIN entry.changes
      PROVE /\ Leaves(<<entry>>, 0, f, entry.changes[f].from)
            /\ entry.changes[f].from # entry.changes[f].to
  <2>1. 1..0 = {}
    OBVIOUS
  <2> QED
    BY <2>1, CreationFromNull DEF Leaves
<1> QED
  BY <1>1, <1>2, <1>3 DEF Explains

-----------------------------------------------------------------------------
(* Requests, step by step. *)

Good(p) == Stage(p) /\ SnapshotIsPast(p) /\ TransactionIsNext(p)

\* What a step of one process leaves to the others.
OthersUntouched(p) ==
    \A q \in Procs \ {p} :
      /\ pc'[q] = pc[q] /\ req'[q] = req[q] /\ snap'[q] = snap[q]
      /\ next'[q] = next[q] /\ tx'[q] = tx[q]

-----------------------------------------------------------------------------
\* The invariant holds of empty tables and idle processes.
LEMMA InitIInv == Init => IInv
<1> SUFFICES ASSUME Init PROVE IInv
  OBVIOUS
<1> USE DEF Init, Board!Init, Team!Init
<1>1. TypeOK
  BY MembersAssumption, BoundAssumption DEF TypeOK, Steps, TaskIds
<1>2. ASSUME NEW p \in Procs PROVE Stage(p) /\ SnapshotIsPast(p) /\ TransactionIsNext(p)
  BY DEF Stage, SnapshotIsPast, TransactionIsNext, Open
<1>3. RowsHeldOnce /\ IdsFresh
  BY DEF RowsHeldOnce, IdsFresh, Open
<1>4. VersionCountsHistory /\ HistoryExplainsRow
  BY DEF VersionCountsHistory, HistoryExplainsRow
<1> QED
  BY <1>1, <1>2, <1>3, <1>4 DEF IInv

\* The types of what a busy process holds.
LEMMA Shapes ==
    ASSUME TypeOK, NEW p \in Procs, Good(p), pc[p] # "idle"
    PROVE  /\ req[p] \in Requests /\ Accepted(req[p]) /\ req[p].actor \in Users
           /\ IsUpdate(p) =>
                /\ req[p].id \in TaskIds
                /\ req[p].patch \in Patches
                /\ IsPatch(req[p].patch) /\ Validate(req[p].patch)
           /\ ~IsUpdate(p) =>
                /\ req[p].team \in Teams
                /\ ValidateNewTask(req[p].task)
           /\ snap[p] # NULL => snap[p] \in TaskRows
           /\ next[p] # NULL => next[p] \in Writes
           /\ Open(p) => tx[p] \in Transactions
BY RequestAssumption
   DEF TypeOK, Good, Stage, Requests, UpdateRequests, CreateRequests, IsUpdate,
       Accepted, IsPatch, Open

\* A process that does not move keeps its part of the invariant while the
\* rows stay as they are.
LEMMA OthersKeep ==
    ASSUME NEW p \in Procs, OthersUntouched(p), tasks' = tasks,
           nextId \in Nat, nextId' \in Nat, nextId <= nextId',
           tx \in [Procs -> Transactions \cup {NULL}],
           NEW q \in Procs \ {p}, Good(q)
    PROVE  Good(q)'
<1> USE DEF OthersUntouched
<1>1. Stage(q)'
  BY DEF Good, Stage, IsUpdate, Open, TargetBody, PatchChanges
<1>2. SnapshotIsPast(q)'
  BY DEF Good, SnapshotIsPast
<1>3. TransactionIsNext(q)'
  BY DEF Good, TransactionIsNext, Open, Entry, IsUpdate, PatchChanges, WrittenRow,
         InsertedRow, Transactions, TaskIds
<1> QED
  BY <1>1, <1>2, <1>3 DEF Good

\* A step of one process that leaves rows and histories alone keeps the
\* invariant if that process keeps its part and takes no row that is held.
LEMMA LocalStep ==
    ASSUME IInv, NEW p \in Procs, OthersUntouched(p),
           tasks' = tasks, history' = history, nextId <= nextId',
           TypeOK', Good(p)',
           \A q \in Procs \ {p} : (tx'[p] # NULL /\ Open(q)) => tx'[p].id # tx[q].id
    PROVE  IInv'
<1>1. \A q \in Procs : Good(q)'
  <2>1. nextId \in Nat /\ nextId' \in Nat /\ tx \in [Procs -> Transactions \cup {NULL}]
    BY BoundAssumption DEF IInv, TypeOK
  <2> QED
    BY <2>1, OthersKeep DEF IInv, Good
<1>2. RowsHeldOnce'
  BY DEF IInv, RowsHeldOnce, Open, OthersUntouched
<1>3. IdsFresh'
  BY BoundAssumption DEF IInv, IdsFresh, TypeOK, TaskIds
<1>4. VersionCountsHistory' /\ HistoryExplainsRow'
  BY DEF IInv, VersionCountsHistory, HistoryExplainsRow
<1> QED
  BY <1>1, <1>2, <1>3, <1>4 DEF IInv, Good

\* An answer that writes nothing keeps the invariant.
LEMMA AnswerStep ==
    ASSUME IInv, NEW p \in Procs, NEW code \in Codes, Answer(p, code),
           UNCHANGED <<tableVars, member, clock>>
    PROVE  IInv'
<1> USE DEF Answer, Rollback, tableVars
<1>1. TypeOK'
  BY DEF IInv, TypeOK, Steps
<1>2. OthersUntouched(p)
  BY DEF IInv, TypeOK, OthersUntouched
<1>3. Good(p)'
  BY DEF IInv, TypeOK, Good, Stage, SnapshotIsPast, TransactionIsNext, Open
<1>4. tx'[p] = NULL /\ nextId <= nextId'
  BY BoundAssumption DEF IInv, TypeOK
<1> QED
  BY <1>1, <1>2, <1>3, <1>4, LocalStep

LEMMA AcceptStep ==
    ASSUME IInv, NEW p \in Procs, NEW r \in Requests, Accept(p, r)
    PROVE  IInv'
<1> USE DEF Accept, GoTo, tableVars
<1>1. TypeOK'
  BY DEF IInv, TypeOK, Steps
<1>2. OthersUntouched(p)
  BY DEF IInv, TypeOK, OthersUntouched
<1>3. snap'[p] = NULL /\ tx'[p] = NULL /\ req'[p] = r /\ r # NULL
      /\ pc'[p] = IF r.kind = "create" THEN "member" ELSE "load"
  BY NoRecordAssumption DEF IInv, TypeOK, Stage, Open
<1>4. r.kind \in {"create", "update"}
  BY DEF Requests, CreateRequests, UpdateRequests
<1>5. Good(p)'
  BY <1>3, <1>4 DEF Good, Stage, SnapshotIsPast, TransactionIsNext, Open, IsUpdate
<1>6. nextId <= nextId'
  BY BoundAssumption DEF IInv, TypeOK
<1> QED
  BY <1>1, <1>2, <1>3, <1>5, <1>6, LocalStep

LEMMA LoadTaskStep ==
    ASSUME IInv, NEW p \in Procs, LoadTask(p)
    PROVE  IInv'
<1>1. CASE tasks[req[p].id] = NULL
  BY <1>1, AnswerStep DEF LoadTask, Codes
<1>2. CASE tasks[req[p].id] # NULL
  <2> USE <1>2 DEF LoadTask, GoTo, tableVars
  <2>1. /\ pc[p] = "load" /\ IsUpdate(p) /\ req[p] # NULL /\ tx[p] = NULL
        /\ req[p].id \in TaskIds
    <3>1. TypeOK /\ Good(p) /\ pc[p] # "idle"
      BY DEF IInv, Good
    <3> QED
      BY <3>1, Shapes DEF Good, Stage, Open
  <2>2. tasks[req[p].id] \in TaskRows
    BY <2>1 DEF IInv, TypeOK
  <2>3. TypeOK'
    BY <2>1, <2>2 DEF IInv, TypeOK, Steps
  <2>4. OthersUntouched(p)
    BY DEF IInv, TypeOK, OthersUntouched
  <2>5. pc'[p] = "actor" /\ snap'[p] = tasks[req[p].id] /\ tx'[p] = NULL /\ req'[p] = req[p]
    BY <2>1 DEF IInv, TypeOK
  <2>6. Good(p)'
    <3>1. tasks[req[p].id].version <= tasks[req[p].id].version
      BY <2>2 DEF TaskRows, Rows
    <3> QED
      BY <2>1, <2>5, <3>1 DEF IInv, Good, Stage, SnapshotIsPast, TransactionIsNext, Open, IsUpdate
  <2>7. nextId <= nextId'
    BY BoundAssumption DEF IInv, TypeOK
  <2> QED
    BY <2>3, <2>4, <2>5, <2>6, <2>7, LocalStep
<1> QED
  BY <1>1, <1>2

\* Membership is a role or NULL.
LEMMA MembershipType ==
    ASSUME TypeOK, NEW t \in Teams, NEW u
    PROVE  Membership(t, u) \in Roles \cup {NULL}
BY DEF Membership, TypeOK, Team!MemberTable, Team!Roles, Roles

LEMMA LoadActorStep ==
    ASSUME IInv, NEW p \in Procs, LoadActor(p)
    PROVE  IInv'
<1> DEFINE r == Membership(snap[p].team, req[p].actor)
           verdict == Verdict(p, r)
<1>0. /\ pc[p] = "actor" /\ TypeOK /\ Good(p)
  BY DEF IInv, Good, LoadActor
<1>1. IsUpdate(p) /\ req[p] # NULL /\ tx[p] = NULL /\ snap[p] # NULL /\ snap[p] \in TaskRows
  BY <1>0, Shapes DEF Good, Stage, Open
<1>2. r \in Roles \cup {NULL}
  BY <1>0, <1>1, MembershipType DEF TaskRows, Rows
<1>3. CASE verdict # NULL
  <2>1. verdict \in Codes
    BY <1>3 DEF Verdict, Codes
  <2> QED
    BY <1>3, <2>1, AnswerStep DEF LoadActor
<1>4. CASE verdict = NULL
  <2>1. r # NULL
    BY <1>4, NoRecordAssumption DEF Verdict, Codes
  <2> USE <1>0, <1>1, <1>4 DEF LoadActor, GoTo, tableVars
  <2>2. TypeOK'
    BY <1>2, <2>1 DEF TypeOK, Steps
  <2>3. OthersUntouched(p)
    BY DEF TypeOK, OthersUntouched
  <2>4. pc'[p] = "assignee" /\ UNCHANGED <<req, snap, next, tx, tasks>>
    BY DEF TypeOK
  <2>5. Good(p)'
    BY <2>4 DEF Good, Stage, SnapshotIsPast, TransactionIsNext, Open, IsUpdate
  <2>6. nextId <= nextId'
    BY BoundAssumption DEF TypeOK
  <2> QED
    BY <2>2, <2>3, <2>4, <2>5, <2>6, LocalStep
<1> QED
  BY <1>3, <1>4

LEMMA LoadMemberStep ==
    ASSUME IInv, NEW p \in Procs, LoadMember(p)
    PROVE  IInv'
<1> DEFINE r == Membership(req[p].team, req[p].actor)
<1>0. /\ pc[p] = "member" /\ TypeOK /\ Good(p)
  BY DEF IInv, Good, LoadMember
<1>1. ~IsUpdate(p) /\ req[p] # NULL /\ tx[p] = NULL /\ snap[p] = NULL /\ req[p].team \in Teams
  BY <1>0, Shapes DEF Good, Stage, Open
<1>2. r \in Roles \cup {NULL}
  BY <1>0, <1>1, MembershipType
<1>3. CASE r = NULL
  BY <1>3, AnswerStep DEF LoadMember, Codes
<1>4. CASE r # NULL
  <2> USE <1>0, <1>1, <1>4 DEF LoadMember, GoTo, tableVars
  <2>2. TypeOK'
    BY <1>2 DEF TypeOK, Steps
  <2>3. OthersUntouched(p)
    BY DEF TypeOK, OthersUntouched
  <2>4. pc'[p] = "assignee" /\ UNCHANGED <<req, snap, next, tx, tasks>>
    BY DEF TypeOK
  <2>5. Good(p)'
    BY <2>4 DEF Good, Stage, SnapshotIsPast, TransactionIsNext, Open, IsUpdate
  <2>6. nextId <= nextId'
    BY BoundAssumption DEF TypeOK
  <2> QED
    BY <2>2, <2>3, <2>4, <2>5, <2>6, LocalStep
<1> QED
  BY <1>3, <1>4

\* What is to be written is a body, once the assignee has been checked.
LEMMA TargetType ==
    ASSUME TypeOK, NEW p \in Procs, Good(p), pc[p] = "assignee",
           TargetAssignee(p) = NULL \/ Membership(TargetTeam(p), TargetAssignee(p)) # NULL
    PROVE  /\ TargetBody(p) \in Bodies
           /\ TargetClosedAt(p) \in Times \cup {NULL}
<1>0. pc[p] # "idle"
  OBVIOUS
<1>1. CASE IsUpdate(p)
  <2>1. snap[p] \in TaskRows /\ snap[p].body \in Bodies /\ snap[p].closed_at \in Times \cup {NULL}
    BY <1>0, <1>1, Shapes DEF Good, Stage, TaskRows, Rows
  <2>2. TargetBody(p) \in Bodies
    BY <1>0, <1>1, <2>1, Shapes, ApplyType DEF TargetBody, PatchChanges
  <2>3. TargetClosedAt(p) \in Times \cup {NULL}
    BY <1>1, <2>1 DEF TargetClosedAt, CloseTimestamp, TypeOK
  <2> QED
    BY <2>2, <2>3
<1>2. CASE ~IsUpdate(p)
  <2>1. TargetAssignee(p) = req[p].task.assignee_id
    BY <1>2 DEF TargetAssignee, TargetBody, NewBody, Fields
  <2>2. req[p].task.assignee_id \in Users \cup {NULL}
    BY <2>1 DEF Membership
  <2> QED
    BY <1>0, <1>2, <2>2, Shapes, NewBodyType DEF TargetBody, TargetClosedAt
<1> QED
  BY <1>1, <1>2

LEMMA CheckAssigneeStep ==
    ASSUME IInv, NEW p \in Procs, CheckAssignee(p)
    PROVE  IInv'
<1> DEFINE missing == TargetAssignee(p) # NULL
                      /\ Membership(TargetTeam(p), TargetAssignee(p)) = NULL
<1>0. pc[p] = "assignee" /\ TypeOK /\ Good(p)
  BY DEF IInv, Good, CheckAssignee
<1>1. CASE missing
  BY <1>1, AnswerStep DEF CheckAssignee, Codes
<1>2. CASE ~missing
  <2> DEFINE write == [body |-> TargetBody(p), closed_at |-> TargetClosedAt(p)]
  <2>1. write \in Writes /\ write # NULL
    BY <1>0, <1>2, TargetType, NoRecordAssumption DEF Writes
  <2>2. tx[p] = NULL /\ req[p] # NULL
    BY <1>0 DEF Good, Stage, Open
  <2> HIDE DEF write
  <2>3. /\ next' = [next EXCEPT ![p] = write]
        /\ pc' = [pc EXCEPT ![p] = IF IsUpdate(p) THEN "update" ELSE "insert"]
        /\ UNCHANGED <<tasks, history, nextId, member, clock, req, snap, role, tx, reply>>
    BY <1>2 DEF CheckAssignee, GoTo, tableVars, write
  <2>4. TypeOK'
    BY <1>0, <2>1, <2>3 DEF TypeOK, Steps
  <2>5. OthersUntouched(p)
    BY <1>0, <2>3 DEF TypeOK, OthersUntouched
  <2>6. next'[p] = write /\ pc'[p] = IF IsUpdate(p) THEN "update" ELSE "insert"
    BY <1>0, <2>3 DEF TypeOK
  <2>7. TargetBody(p)' = TargetBody(p) /\ write.body = TargetBody(p) /\ IsUpdate(p)' = IsUpdate(p)
    BY <2>3 DEF TargetBody, IsUpdate, PatchChanges, write
  <2>8. Good(p)'
    BY <1>0, <2>1, <2>2, <2>3, <2>6, <2>7
       DEF Good, Stage, SnapshotIsPast, TransactionIsNext, Open, IsUpdate
  <2>9. nextId <= nextId'
    BY <1>0, <2>3, BoundAssumption DEF TypeOK
  <2> QED
    BY <2>2, <2>3, <2>4, <2>5, <2>8, <2>9, LocalStep
<1> QED
  BY <1>1, <1>2

\* A transaction that has written a row and no history yet.
LEMMA NewTransaction ==
    ASSUME NEW id \in TaskIds, NEW row \in TaskRows
    PROVE  LET t == [id |-> id, row |-> row, log |-> <<>>]
           IN  t \in Transactions /\ t # NULL
<1>1. <<>> \in Seq(Entries)
  OBVIOUS
<1>2. ASSUME NEW log \in Seq(Entries)
      PROVE  [id |-> id, row |-> row, log |-> log] \in Transactions
  BY DEF Transactions
<1> QED
  BY <1>1, <1>2, NoRecordAssumption

LEMMA UpdateRowStep ==
    ASSUME IInv, NEW p \in Procs, UpdateRow(p)
    PROVE  IInv'
<1> DEFINE id == req[p].id
<1>0. pc[p] = "update" /\ TypeOK /\ Good(p) /\ ~Locked(id)
  BY DEF IInv, Good, UpdateRow
<1>1. CASE ~SameVersion(p) \/ tasks[id].version = MaxVersion
  BY <1>1, AnswerStep DEF UpdateRow, Codes
<1>2. CASE SameVersion(p) /\ tasks[id].version # MaxVersion
  <2> DEFINE t == [id |-> id, row |-> WrittenRow(p), log |-> <<>>]
  <2>1. /\ IsUpdate(p) /\ id \in TaskIds /\ tx[p] = NULL /\ next[p] \in Writes
        /\ snap[p] # NULL /\ req[p] # NULL
    BY <1>0, Shapes DEF Good, Stage, Open
  <2>2. tasks[id] = snap[p] /\ tasks[id] \in TaskRows
    BY <1>0, <1>2, <2>1 DEF Good, SnapshotIsPast, SameVersion, TypeOK
  <2>3. WrittenRow(p) \in TaskRows
    BY <2>1, <2>2 DEF WrittenRow, EditedRow, TaskRows, Rows, Writes
  <2>4. t \in Transactions /\ t # NULL
    BY <2>1, <2>3, NewTransaction
  <2>5. t.id = id /\ t.row = WrittenRow(p) /\ t.log = <<>>
    OBVIOUS
  <2> HIDE DEF t
  <2>6. /\ tx' = [tx EXCEPT ![p] = t]
        /\ pc' = [pc EXCEPT ![p] = "history"]
        /\ UNCHANGED <<tasks, history, nextId, member, clock, req, snap, role, next, reply>>
    BY <1>2 DEF UpdateRow, GoTo, tableVars, t
  <2>7. TypeOK'
    BY <1>0, <2>4, <2>6 DEF TypeOK, Steps
  <2>8. OthersUntouched(p)
    BY <1>0, <2>6 DEF TypeOK, OthersUntouched
  <2>9. tx'[p] = t /\ pc'[p] = "history"
    BY <1>0, <2>6 DEF TypeOK
  <2>10. WrittenRow(p)' = WrittenRow(p) /\ IsUpdate(p)' = IsUpdate(p) /\ TargetBody(p)' = TargetBody(p)
    BY <2>6 DEF WrittenRow, IsUpdate, TargetBody, PatchChanges
  <2>11. Good(p)'
    <3>1. Stage(p)'
      BY <1>0, <2>1, <2>4, <2>6, <2>9, <2>10 DEF Good, Stage, Open
    <3>2. SnapshotIsPast(p)'
      BY <1>0, <2>6 DEF Good, SnapshotIsPast
    <3>3. TransactionIsNext(p)'
      BY <2>1, <2>2, <2>5, <2>6, <2>9, <2>10 DEF TransactionIsNext, Open
    <3> QED
      BY <3>1, <3>2, <3>3 DEF Good
  <2>12. \A q \in Procs \ {p} : Open(q) => t.id # tx[q].id
    BY <1>0, <2>5 DEF Locked
  <2>13. nextId <= nextId'
    BY <1>0, <2>6, BoundAssumption DEF TypeOK
  <2> QED
    BY <2>6, <2>7, <2>8, <2>9, <2>11, <2>12, <2>13, LocalStep
<1> QED
  BY <1>1, <1>2

LEMMA InsertTaskStep ==
    ASSUME IInv, NEW p \in Procs, InsertTask(p)
    PROVE  IInv'
<1>0. pc[p] = "insert" /\ TypeOK /\ Good(p)
  BY DEF IInv, Good, InsertTask
<1>1. CASE nextId > MaxTasks
  BY <1>1, AnswerStep DEF InsertTask, Codes, tableVars
<1>2. CASE ~(nextId > MaxTasks)
  <2> DEFINE t == [id |-> nextId, row |-> InsertedRow(p), log |-> <<>>]
  <2>1. /\ ~IsUpdate(p) /\ tx[p] = NULL /\ next[p] \in Writes /\ snap[p] = NULL
        /\ req[p] # NULL /\ req[p].team \in Teams /\ req[p].actor \in Users
    BY <1>0, Shapes DEF Good, Stage, Open
  <2>2. nextId \in TaskIds /\ nextId \in Nat /\ tasks[nextId] = NULL
    BY <1>0, <1>2, BoundAssumption DEF TypeOK, TaskIds, IInv, IdsFresh
  <2>3. InsertedRow(p) \in TaskRows
    BY <2>1 DEF InsertedRow, CreatedRow, TaskRows, Rows, Writes
  <2>4. t \in Transactions /\ t # NULL
    BY <2>2, <2>3, NewTransaction
  <2>5. t.id = nextId /\ t.row = InsertedRow(p) /\ t.log = <<>>
    OBVIOUS
  <2> HIDE DEF t
  <2>6. /\ tx' = [tx EXCEPT ![p] = t] /\ nextId' = nextId + 1
        /\ pc' = [pc EXCEPT ![p] = "history"]
        /\ UNCHANGED <<tasks, history, member, clock, req, snap, role, next, reply>>
    BY <1>2 DEF InsertTask, GoTo, t
  <2>7. TypeOK'
    BY <1>0, <1>2, <2>2, <2>4, <2>6, BoundAssumption DEF TypeOK, Steps
  <2>8. OthersUntouched(p)
    BY <1>0, <2>6 DEF TypeOK, OthersUntouched
  <2>9. tx'[p] = t /\ pc'[p] = "history"
    BY <1>0, <2>6 DEF TypeOK
  <2>10. InsertedRow(p)' = InsertedRow(p) /\ IsUpdate(p)' = IsUpdate(p) /\ TargetBody(p)' = TargetBody(p)
    BY <2>6 DEF InsertedRow, IsUpdate, TargetBody, PatchChanges
  <2>11. Good(p)'
    <3>1. Stage(p)'
      BY <1>0, <2>1, <2>4, <2>6, <2>9, <2>10 DEF Good, Stage, Open
    <3>2. SnapshotIsPast(p)'
      BY <1>0, <2>6 DEF Good, SnapshotIsPast
    <3>3. TransactionIsNext(p)'
      BY <2>1, <2>2, <2>5, <2>6, <2>9, <2>10 DEF TransactionIsNext, Open
    <3> QED
      BY <3>1, <3>2, <3>3 DEF Good
  <2>12. ASSUME NEW q \in Procs \ {p}, Open(q) PROVE t.id # tx[q].id
    <3>1. Good(q) /\ pc[q] # "idle"
      BY <2>12 DEF IInv, Good, Stage
    <3>2. tx[q] \in Transactions
      BY <1>0, <2>12, <3>1, Shapes
    <3>3. CASE IsUpdate(q)
      <4>1. snap[q] # NULL
        BY <2>12, <3>1, <3>3 DEF Good, Stage
      <4>2. tasks[tx[q].id] # NULL
        BY <2>12, <3>1, <3>3, <4>1 DEF Good, TransactionIsNext
      <4> QED
        BY <2>2, <2>5, <4>2
    <3>4. CASE ~IsUpdate(q)
      BY <2>12, <2>2, <2>5, <3>1, <3>2, <3>4 DEF Good, TransactionIsNext, Transactions, TaskIds
    <3> QED
      BY <3>3, <3>4
  <2>13. nextId <= nextId'
    BY <2>2, <2>6
  <2> QED
    BY <2>6, <2>7, <2>8, <2>9, <2>11, <2>12, <2>13, LocalStep
<1> QED
  BY <1>1, <1>2

\* The entry that a transaction writes is one that the table may hold.
LEMMA EntryType ==
    ASSUME TypeOK, NEW p \in Procs, Good(p), Open(p)
    PROVE  Entry(p) \in Entries
<1>1. pc[p] \in {"history", "commit"} /\ pc[p] # "idle"
  BY DEF Good, Stage
<1>2. tx[p].row.body \in Bodies
  BY <1>1, Shapes DEF Transactions, TaskRows, Rows
<1>3. CASE IsUpdate(p)
  <2>1. snap[p].body \in Bodies /\ req[p].patch \in Patches /\ req[p].actor \in Users
    BY <1>1, <1>3, Shapes DEF Good, Stage, TaskRows, Rows
  <2> QED
    BY <1>3, <2>1 DEF Entry, Entries, PatchChanges
<1>4. CASE ~IsUpdate(p)
  BY <1>1, <1>2, <1>4, Shapes DEF Entry, Entries
<1> QED
  BY <1>3, <1>4

LEMMA WriteHistoryStep ==
    ASSUME IInv, NEW p \in Procs, WriteHistory(p)
    PROVE  IInv'
<1> DEFINE t == [id |-> tx[p].id, row |-> tx[p].row, log |-> <<Entry(p)>>]
<1>0. pc[p] = "history" /\ TypeOK /\ Good(p)
  BY DEF IInv, Good, WriteHistory
<1>1. Open(p) /\ tx[p] \in Transactions /\ tx[p].log = <<>> /\ req[p] # NULL
  BY <1>0, Shapes DEF Good, Stage, TransactionIsNext
<1>2. Entry(p) \in Entries
  BY <1>0, <1>1, EntryType
<1>3. /\ t \in Transactions /\ t.id = tx[p].id /\ t.row = tx[p].row
      /\ t.log = <<Entry(p)>>
  <2>1. tx[p].id \in TaskIds /\ tx[p].row \in TaskRows
    BY <1>1 DEF Transactions
  <2>2. <<Entry(p)>> \in Seq(Entries)
    BY <1>2
  <2> QED
    BY <2>1, <2>2 DEF Transactions
<1>4. t # NULL
  BY <1>3, NoRecordAssumption
<1>5. tx' = [tx EXCEPT ![p] = t]
  <2>1. Append(tx[p].log, Entry(p)) = <<Entry(p)>>
    BY <1>1
  <2>2. [tx[p] EXCEPT !.log = Append(tx[p].log, Entry(p))] = t
    BY <1>1, <2>1 DEF Transactions
  <2> QED
    BY <2>2 DEF WriteHistory
<1> HIDE DEF t
<1>6. /\ pc' = [pc EXCEPT ![p] = "commit"]
      /\ UNCHANGED <<tasks, history, nextId, member, clock, req, snap, role, next, reply>>
  BY DEF WriteHistory, GoTo, tableVars
<1>7. TypeOK'
  BY <1>0, <1>3, <1>5, <1>6 DEF TypeOK, Steps
<1>8. OthersUntouched(p)
  BY <1>0, <1>5, <1>6 DEF TypeOK, OthersUntouched
<1>9. tx'[p] = t /\ pc'[p] = "commit"
  BY <1>0, <1>5, <1>6 DEF TypeOK
<1>10. /\ WrittenRow(p)' = WrittenRow(p) /\ InsertedRow(p)' = InsertedRow(p)
       /\ IsUpdate(p)' = IsUpdate(p) /\ TargetBody(p)' = TargetBody(p)
  BY <1>6 DEF WrittenRow, InsertedRow, IsUpdate, TargetBody, PatchChanges
<1>11. Entry(p)' = Entry(p)
  BY <1>3, <1>6, <1>9, <1>10 DEF Entry, PatchChanges
<1>12. Stage(p)'
  BY <1>0, <1>1, <1>4, <1>6, <1>9, <1>10 DEF Good, Stage, Open
<1>13. SnapshotIsPast(p)'
  BY <1>0, <1>6 DEF Good, SnapshotIsPast
<1>14. TransactionIsNext(p)'
  BY <1>0, <1>1, <1>3, <1>6, <1>9, <1>10, <1>11 DEF Good, TransactionIsNext, Open
<1>15. \A q \in Procs \ {p} : Open(q) => t.id # tx[q].id
  BY <1>1, <1>3 DEF IInv, RowsHeldOnce
<1>16. nextId <= nextId'
  BY <1>0, <1>6, BoundAssumption DEF TypeOK
<1> QED
  BY <1>6, <1>7, <1>8, <1>9, <1>12, <1>13, <1>14, <1>15, <1>16, LocalStep DEF Good

\* What a commit puts into the tables: the next version of the row, and a
\* history that explains it.
LEMMA PublishedRow ==
    ASSUME IInv, NEW p \in Procs, pc[p] = "commit"
    PROVE  LET id == tx[p].id IN
           /\ tx[p] \in Transactions
           /\ history[id] \o tx[p].log = Append(history[id], Entry(p))
           /\ history[id] \in Seq(Entries) /\ Entry(p) \in Entries
           /\ tx[p].row.version = Len(history[id]) + 1
           /\ Explains(history[id] \o tx[p].log, tx[p].row.body)
           /\ tasks[id] # NULL => tasks[id].version < tx[p].row.version
<1> DEFINE id == tx[p].id
<1>1. TypeOK /\ Good(p) /\ Open(p) /\ pc[p] # "idle"
  BY DEF IInv, Good, Stage
<1>2. /\ tx[p] \in Transactions /\ id \in TaskIds /\ tx[p].row \in TaskRows
      /\ tx[p].log = <<Entry(p)>> /\ next[p] \in Writes /\ next[p].body = TargetBody(p)
  BY <1>1, Shapes DEF Good, Stage, TransactionIsNext, Transactions
<1>3. Entry(p) \in Entries
  BY <1>1, EntryType
<1>4. history[id] \in Seq(Entries)
  BY <1>1, <1>2 DEF TypeOK
<1>5. history[id] \o tx[p].log = Append(history[id], Entry(p))
  BY <1>2, <1>3, <1>4
<1>6. CASE IsUpdate(p)
  <2>1. /\ id = req[p].id /\ snap[p] # NULL /\ tasks[id] = snap[p]
        /\ tx[p].row = EditedRow(snap[p], TargetBody(p), next[p].closed_at)
    BY <1>1, <1>2, <1>6 DEF Good, Stage, TransactionIsNext, WrittenRow
  <2>2. snap[p] \in TaskRows /\ snap[p].body \in Bodies /\ snap[p].version \in Nat
        /\ IsPatch(req[p].patch)
    BY <1>1, <1>6, <2>1, Shapes DEF TaskRows, Rows
  <2>3. /\ tx[p].row.body = Apply(snap[p].body, Entry(p).changes)
        /\ Entry(p).changes = Diff(snap[p].body, req[p].patch)
        /\ tx[p].row.version = snap[p].version + 1
    BY <1>6, <2>1 DEF EditedRow, TargetBody, Entry, PatchChanges
  <2>4. Explains(history[id], snap[p].body) /\ Len(history[id]) = snap[p].version
    BY <1>2, <2>1 DEF IInv, HistoryExplainsRow, VersionCountsHistory
  <2>5. Explains(Append(history[id], Entry(p)), tx[p].row.body)
    BY <1>3, <1>4, <2>2, <2>3, <2>4, DiffFromBody, ExplainsEdit
  <2>6. tx[p].row.version = Len(history[id]) + 1 /\ tasks[id].version < tx[p].row.version
    BY <2>1, <2>2, <2>3, <2>4
  <2> QED
    BY <1>2, <1>3, <1>4, <1>5, <2>5, <2>6
<1>7. CASE ~IsUpdate(p)
  <2>1. tasks[id] = NULL
        /\ tx[p].row = CreatedRow(req[p].team, req[p].actor, next[p].body, next[p].closed_at)
    BY <1>1, <1>7 DEF Good, TransactionIsNext, InsertedRow
  <2>2. history[id] = <<>> /\ Len(history[id]) = 0
    BY <1>2, <1>4, <2>1 DEF IInv, VersionCountsHistory
  <2>3. tx[p].row.version = 1 /\ Entry(p).changes = CreationChanges(tx[p].row.body)
        /\ tx[p].row.body \in Bodies
    BY <1>2, <1>7, <2>1 DEF CreatedRow, Entry, TaskRows, Rows
  <2>4. Append(history[id], Entry(p)) = <<Entry(p)>>
    BY <2>2
  <2> QED
    BY <1>2, <1>3, <1>4, <1>5, <2>1, <2>2, <2>3, <2>4, ExplainsCreation
<1> QED
  BY <1>6, <1>7

\* A commit keeps the invariant, whatever answer follows it: the snapshots
\* of the others fall behind, and nobody else held the row.
LEMMA PublishStep ==
    ASSUME IInv, NEW p \in Procs, pc[p] = "commit", Publish(p),
           OthersUntouched(p), tx'[p] = NULL, TypeOK', Stage(p)',
           snap'[p] # NULL => snap'[p] = snap[p] /\ req'[p] = req[p]
    PROVE  IInv'
<1> DEFINE id == tx[p].id
           row == tx[p].row
<1>0. TypeOK /\ Good(p) /\ Open(p) /\ pc[p] # "idle"
  BY DEF IInv, Good, Stage
<1>1. /\ id \in TaskIds /\ row \in TaskRows /\ row.version \in Nat /\ row # NULL
      /\ tx[p] \in Transactions
  BY <1>0, Shapes, NoRecordAssumption DEF Transactions, TaskRows, Rows
<1>2. /\ tasks'[id] = row /\ history'[id] = history[id] \o tx[p].log
      /\ \A i \in TaskIds \ {id} : tasks'[i] = tasks[i] /\ history'[i] = history[i]
      /\ nextId' = nextId
  BY <1>0, <1>1 DEF Publish, TypeOK
<1>3. /\ row.version = Len(history[id]) + 1
      /\ Len(history'[id]) = Len(history[id]) + 1
      /\ Explains(history'[id], row.body)
      /\ tasks[id] # NULL => tasks[id].version < row.version
  <2>1. /\ history'[id] = Append(history[id], Entry(p))
        /\ history[id] \in Seq(Entries) /\ Entry(p) \in Entries
    BY <1>2, PublishedRow
  <2>2. Len(history'[id]) = Len(history[id]) + 1
    <3> HIDE DEF id
    <3> QED BY <2>1
  <2>3. Explains(history'[id], row.body)
    BY <1>2, PublishedRow
  <2> QED
    BY <2>2, <2>3, PublishedRow
<1> HIDE DEF id, row
<1>4. ASSUME NEW q \in Procs, snap[q] # NULL,
             snap'[q] = snap[q], req'[q] = req[q]
      PROVE  SnapshotIsPast(q)'
  <2>1. /\ Good(q) /\ pc[q] # "idle" /\ tasks[req[q].id] # NULL
        /\ req[q].id \in TaskIds /\ snap[q] \in TaskRows /\ snap[q].version \in Nat
    BY <1>0, <1>4, Shapes DEF IInv, Good, Stage, SnapshotIsPast, TaskRows, Rows
  <2>2. CASE req[q].id = id
    <3>1. snap[q].version < row.version
      <4>1. snap[q].version <= tasks[id].version /\ tasks[id].version < row.version
        BY <1>3, <1>4, <2>1, <2>2 DEF Good, SnapshotIsPast
      <4>2. tasks[id].version \in Nat
        BY <1>0, <1>1, <2>1, <2>2 DEF TypeOK, TaskRows, Rows
      <4> QED
        BY <1>1, <2>1, <4>1, <4>2 DEF row
    <3> QED
      BY <1>1, <1>2, <1>4, <2>1, <2>2, <3>1 DEF SnapshotIsPast, row
  <2>3. CASE req[q].id # id
    BY <1>2, <1>4, <2>1, <2>3 DEF Good, SnapshotIsPast
  <2> QED
    BY <2>2, <2>3
<1>5. ASSUME NEW q \in Procs \ {p} PROVE Good(q)'
  <2>1. Good(q)
    BY DEF IInv, Good
  <2>2. Stage(q)'
    BY <2>1 DEF Good, Stage, IsUpdate, Open, TargetBody, PatchChanges, OthersUntouched
  <2>3. SnapshotIsPast(q)'
    <3>1. CASE snap[q] = NULL
      BY <3>1 DEF SnapshotIsPast, OthersUntouched
    <3>2. CASE snap[q] # NULL
      BY <1>4, <3>2 DEF OthersUntouched
    <3> QED
      BY <3>1, <3>2
  <2>4. TransactionIsNext(q)'
    <3>1. CASE ~Open(q)
      BY <3>1 DEF TransactionIsNext, Open, OthersUntouched
    <3>2. CASE Open(q)
      <4>1. tx[q].id \in TaskIds /\ tx[q].id # id
        BY <1>0, <2>1, <3>2, Shapes DEF Good, Stage, Transactions, IInv, RowsHeldOnce, id
      <4>2. tasks'[tx[q].id] = tasks[tx[q].id]
        BY <1>2, <4>1
      <4> QED
        BY <1>2, <2>1, <3>2, <4>2
           DEF Good, TransactionIsNext, Open, OthersUntouched, Entry, IsUpdate,
               PatchChanges, WrittenRow, InsertedRow
    <3> QED
      BY <3>1, <3>2
  <2> QED
    BY <2>2, <2>3, <2>4 DEF Good
<1>6. Good(p)'
  <2>1. SnapshotIsPast(p)'
    <3>1. CASE snap'[p] = NULL
      BY <3>1 DEF SnapshotIsPast
    <3>2. CASE snap'[p] # NULL
      BY <1>4, <3>2
    <3> QED
      BY <3>1, <3>2
  <2>2. TransactionIsNext(p)'
    BY DEF TransactionIsNext, Open
  <2> QED
    BY <2>1, <2>2 DEF Good
<1>7. RowsHeldOnce'
  BY DEF IInv, RowsHeldOnce, Open, OthersUntouched
<1>8. IdsFresh'
  <2>1. id < nextId
    <3>1. CASE IsUpdate(p)
      <4>1. tasks[id] # NULL
        BY <1>0, <3>1 DEF Good, Stage, TransactionIsNext, id
      <4> QED
        BY <1>0, <1>1, <4>1, BoundAssumption DEF IInv, IdsFresh, TypeOK, TaskIds, id
    <3>2. CASE ~IsUpdate(p)
      BY <1>0, <3>2 DEF Good, TransactionIsNext, id
    <3> QED
      BY <3>1, <3>2
  <2>2. id \in Int /\ nextId \in Int
    BY <1>0, <1>1, BoundAssumption DEF TypeOK, TaskIds, id
  <2>3. ASSUME NEW i \in TaskIds, i >= nextId PROVE tasks'[i] = NULL
    <3>1. i # id
      BY <2>1, <2>2, <2>3
    <3> QED
      BY <1>2, <2>3, <3>1 DEF IInv, IdsFresh
  <2> QED
    BY <1>2, <2>3 DEF IdsFresh
<1>9. VersionCountsHistory'
  <2>1. ASSUME NEW i \in TaskIds
        PROVE  Len(history'[i]) = IF tasks'[i] = NULL THEN 0 ELSE tasks'[i].version
    <3>1. CASE i = id
      BY <1>1, <1>2, <1>3, <3>1 DEF row
    <3>2. CASE i # id
      BY <1>2, <3>2 DEF IInv, VersionCountsHistory
    <3> QED
      BY <3>1, <3>2
  <2> QED
    BY <2>1 DEF VersionCountsHistory
<1>10. HistoryExplainsRow'
  <2>1. ASSUME NEW i \in TaskIds, tasks'[i] # NULL
        PROVE  Explains(history'[i], tasks'[i].body)
    <3>1. CASE i = id
      BY <1>2, <1>3, <3>1
    <3>2. CASE i # id
      BY <1>2, <2>1, <3>2 DEF IInv, HistoryExplainsRow
    <3> QED
      BY <3>1, <3>2
  <2> QED
    BY <2>1 DEF HistoryExplainsRow
<1> QED
  BY <1>5, <1>6, <1>7, <1>8, <1>9, <1>10 DEF IInv, Good

\* The types after a commit.
LEMMA PublishType ==
    ASSUME IInv, NEW p \in Procs, pc[p] = "commit", Publish(p)
    PROVE  /\ tasks' \in [TaskIds -> TaskRows \cup {NULL}]
           /\ history' \in [TaskIds -> Seq(Entries)]
           /\ nextId' \in 1..(MaxTasks + 1)
<1>1. TypeOK /\ tx[p].id \in TaskIds /\ tx[p].row \in TaskRows
  BY PublishedRow DEF IInv, Transactions
<1>2. history[tx[p].id] \o tx[p].log \in Seq(Entries)
  <2>1. /\ history[tx[p].id] \o tx[p].log = Append(history[tx[p].id], Entry(p))
        /\ history[tx[p].id] \in Seq(Entries) /\ Entry(p) \in Entries
    BY PublishedRow
  <2>2. Append(history[tx[p].id], Entry(p)) \in Seq(Entries)
    BY <2>1
  <2> QED
    BY <2>1, <2>2
<1> QED
  BY <1>1, <1>2 DEF Publish, TypeOK

LEMMA CommitStep ==
    ASSUME IInv, NEW p \in Procs, Commit(p)
    PROVE  IInv'
<1>0. TypeOK /\ Good(p) /\ pc[p] = "commit" /\ Publish(p)
  BY DEF IInv, Good, Commit
<1>1. TypeOK'
  BY <1>0, PublishType DEF Commit, GoTo, TypeOK, Steps
<1>2. OthersUntouched(p)
  BY <1>0 DEF Commit, GoTo, TypeOK, OthersUntouched
<1>3. tx'[p] = NULL /\ pc'[p] = "invalidate" /\ UNCHANGED <<req, snap, next>>
  BY <1>0 DEF Commit, GoTo, TypeOK
<1>4. Stage(p)'
  BY <1>0, <1>3 DEF Good, Stage, Open, IsUpdate, TargetBody, PatchChanges
<1> QED
  BY <1>0, <1>1, <1>2, <1>3, <1>4, PublishStep

LEMMA CommitUnacknowledgedStep ==
    ASSUME IInv, NEW p \in Procs, CommitUnacknowledged(p)
    PROVE  IInv'
<1>0. TypeOK /\ Good(p) /\ pc[p] = "commit" /\ Publish(p)
  BY DEF IInv, Good, CommitUnacknowledged
<1> USE DEF CommitUnacknowledged, Answer, Rollback
<1>1. TypeOK'
  BY <1>0, PublishType DEF TypeOK, Steps, Codes
<1>2. OthersUntouched(p)
  BY <1>0 DEF TypeOK, OthersUntouched
<1>3. tx'[p] = NULL /\ pc'[p] = "idle" /\ snap'[p] = NULL /\ req'[p] = NULL
  BY <1>0 DEF TypeOK
<1>4. Stage(p)'
  BY <1>3 DEF Stage, Open
<1> QED
  BY <1>0, <1>1, <1>2, <1>3, <1>4, PublishStep

LEMMA CrashStep ==
    ASSUME IInv, Crash
    PROVE  IInv'
<1> USE DEF Crash, tableVars
<1>1. TypeOK'
  BY DEF IInv, TypeOK, Steps
<1>2. ASSUME NEW p \in Procs PROVE Good(p)'
  BY DEF Good, Stage, SnapshotIsPast, TransactionIsNext, Open
<1>3. RowsHeldOnce'
  BY DEF RowsHeldOnce, Open
<1>4. IdsFresh' /\ VersionCountsHistory' /\ HistoryExplainsRow'
  BY DEF IInv, IdsFresh, VersionCountsHistory, HistoryExplainsRow
<1> QED
  BY <1>1, <1>2, <1>3, <1>4 DEF IInv, Good

\* Nothing in the invariant but the types speaks of members or of the clock.
LEMMA EnvironmentStep ==
    ASSUME IInv, UNCHANGED <<tableVars, requestVars>>, TypeOK'
    PROVE  IInv'
<1> USE DEF tableVars, requestVars
<1>1. ASSUME NEW p \in Procs PROVE Good(p)'
  <2>1. Good(p)
    BY DEF IInv, Good
  <2>2. Stage(p)' /\ SnapshotIsPast(p)'
    BY <2>1 DEF Good, Stage, SnapshotIsPast, IsUpdate, Open, TargetBody, PatchChanges
  <2>3. TransactionIsNext(p)'
    BY <2>1 DEF Good, TransactionIsNext, Open, Entry, IsUpdate, PatchChanges, WrittenRow,
                InsertedRow
  <2> QED
    BY <2>2, <2>3 DEF Good
<1>2. RowsHeldOnce' /\ IdsFresh' /\ VersionCountsHistory' /\ HistoryExplainsRow'
  BY DEF IInv, RowsHeldOnce, Open, IdsFresh, VersionCountsHistory, HistoryExplainsRow
<1> QED
  BY <1>1, <1>2 DEF IInv, Good

\* No step of the role table leaves its type.
LEMMA MembersType ==
    ASSUME member \in Team!MemberTable, Team!Next
    PROVE  member' \in Team!MemberTable
<1>1. PICK t \in Teams, u \in Users :
        \/ Team!CreateTeam(t, u)
        \/ \E r \in Team!Roles : Team!Join(t, u, r)
        \/ \E r \in Team!Roles : Team!SetRole(t, u, r)
  BY DEF Team!Next
<1>2. CASE Team!CreateTeam(t, u)
  BY <1>2 DEF Team!CreateTeam, Team!MemberTable, Team!Roles
<1>3. CASE \E r \in Team!Roles : Team!Join(t, u, r)
  BY <1>3 DEF Team!Join, Team!MemberTable, Team!Roles
<1>4. CASE \E r \in Team!Roles : Team!SetRole(t, u, r)
  BY <1>4 DEF Team!SetRole, Team!MemberTable, Team!Roles
<1> QED
  BY <1>1, <1>2, <1>3, <1>4

\* The invariant is inductive.
LEMMA NextIInv == IInv /\ [Next]_vars => IInv'
<1> SUFFICES ASSUME IInv, [Next]_vars PROVE IInv'
  OBVIOUS
<1>1. ASSUME NEW p \in Procs, Receive(p) PROVE IInv'
  <2>1. PICK r \in Requests : Accept(p, r) \/ Refuse(p, r)
    BY <1>1 DEF Receive
  <2>2. CASE Accept(p, r)
    BY <2>2, AcceptStep
  <2>3. CASE Refuse(p, r)
    BY <2>3, AnswerStep DEF Refuse, Codes
  <2> QED
    BY <2>1, <2>2, <2>3
<1>2. ASSUME NEW p \in Procs, Step(p) PROVE IInv'
  <2>1. CASE Invalidate(p)
    BY <2>1, AnswerStep DEF Invalidate, Codes
  <2> QED
    BY <1>2, <2>1, LoadTaskStep, LoadActorStep, LoadMemberStep, CheckAssigneeStep,
       UpdateRowStep, InsertTaskStep, WriteHistoryStep, CommitStep DEF Step, Handle
<1>3. ASSUME NEW p \in Procs, DbError(p) PROVE IInv'
  BY <1>3, AnswerStep DEF DbError, Codes
<1>4. CASE ChangeMembers
  <2>1. TypeOK'
    BY <1>4, MembersType DEF IInv, TypeOK, ChangeMembers, tableVars, requestVars
  <2> QED
    BY <1>4, <2>1, EnvironmentStep DEF ChangeMembers
<1>5. CASE Tick
  <2>1. TypeOK'
    BY <1>5 DEF IInv, TypeOK, Tick, tableVars, requestVars
  <2> QED
    BY <1>5, <2>1, EnvironmentStep DEF Tick
<1>6. CASE UNCHANGED vars
  <2>1. TypeOK'
    BY <1>6 DEF IInv, TypeOK, vars, tableVars, requestVars
  <2> QED
    BY <1>6, <2>1, EnvironmentStep DEF vars
<1> QED
  BY <1>1, <1>2, <1>3, <1>4, <1>5, <1>6, CommitUnacknowledgedStep, CrashStep DEF Next

-----------------------------------------------------------------------------
\* The inductive invariant holds of every behaviour of the handlers, for any
\* number of processes, users, teams, tasks, versions and kinds of patch.
THEOREM InvariantHolds == Spec => []IInv
<1>1. Init => IInv
  BY InitIInv
<1>2. IInv /\ [Next]_vars => IInv'
  BY NextIInv
<1> QED
  BY <1>1, <1>2, PTL DEF Spec

\* Every variable has its type: in particular what the tables hold has been
\* validated and trimmed (domain.TaskPatch.Validate, Diff, Apply).
THEOREM TypesHold == Spec => []TypeOK
<1>1. IInv => TypeOK
  BY DEF IInv
<1> QED
  BY <1>1, InvariantHolds, PTL

\* The history of every task explains it (Store.UpdateTask, insertHistory).
THEOREM HistoryIsFaithful == Spec => []HistoryExplainsRow
<1>1. IInv => HistoryExplainsRow
  BY DEF IInv
<1> QED
  BY <1>1, InvariantHolds, PTL

\* The version of every task counts its history (Store.UpdateTask,
\* Store.CreateTask).
THEOREM VersionIsFaithful == Spec => []VersionCountsHistory
<1>1. IInv => VersionCountsHistory
  BY DEF IInv
<1> QED
  BY <1>1, InvariantHolds, PTL
=============================================================================
