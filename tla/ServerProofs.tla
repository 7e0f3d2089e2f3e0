---------------------------- MODULE ServerProofs ----------------------------
(***************************************************************************)
(* For every number of servers, migrations, statements and requests: the   *)
(* schema stays in order, requests meet it whole, and what clients are     *)
(* told of accounts is true.                                               *)
(***************************************************************************)
EXTENDS Server, TLAPS

USE MigrationAssumption, AccountAssumption, HomeAssumption

(* The servers. *)

LEMMA LifeInitIInv == LifeInit => LifeIInv
<1> SUFFICES ASSUME LifeInit PROVE LifeIInv
  OBVIOUS
<1>1. LifeTypeOK
  <2>1. 0 \in 0..LastMigration /\ 0 \in Nat
    OBVIOUS
  <2> QED
    BY <2>1 DEF LifeInit, LifeTypeOK, Phases
<1>2. SchemaInOrder
  BY DEF LifeInit, SchemaInOrder, Migrations
<1> QED
  BY <1>1, <1>2 DEF LifeInit, LifeIInv, Up

\* A process that ends frees the lock and touches no table.
LEMMA EndKeepsLifeIInv ==
  ASSUME LifeIInv, NEW s \in Servers, End(s), UNCHANGED schemaVars
  PROVE  LifeIInv'
<1> USE DEF End, schemaVars
<1>1. LifeTypeOK'
  BY DEF LifeIInv, LifeTypeOK, Phases
<1>2. /\ phase'[s] = "down" /\ ran'[s] = 0
      /\ \A r \in Servers \ {s} : /\ phase'[r] = phase[r] /\ at'[r] = at[r]
                                  /\ ran'[r] = ran[r] /\ (lock = r => lock' = r)
  BY DEF LifeIInv, LifeTypeOK
<1>3. SchemaInOrder'
  BY <1>2 DEF LifeIInv, SchemaInOrder, Whole
<1> QED
  BY <1>1, <1>2, <1>3 DEF LifeIInv, Up

\* A step that takes nobody into or out of a migration keeps the invariant.
LEMMA QuietKeepsLifeIInv ==
  ASSUME LifeIInv, NEW s \in Servers, NEW next \in Phases,
         UNCHANGED <<upVars, lock, schemaVars>>,
         GoOn(s, next),
         next \notin {"locked", "step", "run"}, phase[s] # "run",
         next \in Up => phase[s] \in Up \/ s \notin AutoMigrate,
         signalled' \in [Servers -> BOOLEAN]
  PROVE  LifeIInv'
<1> USE DEF GoOn, upVars, schemaVars
<1>1. LifeTypeOK'
  BY DEF LifeIInv, LifeTypeOK
<1>2. /\ phase'[s] = next
      /\ \A r \in Servers \ {s} : phase'[r] = phase[r]
  BY DEF LifeIInv, LifeTypeOK
<1>3. SchemaInOrder'
  BY <1>2 DEF LifeIInv, SchemaInOrder, Whole
<1> QED
  BY <1>1, <1>2, <1>3 DEF LifeIInv

LEMMA TakeLockKeeps ==
  ASSUME LifeIInv, NEW s \in Servers, TakeLock(s)
  PROVE  LifeIInv'
<1> USE DEF TakeLock, GoOn, upVars, schemaVars
<1>1. LifeTypeOK'
  BY DEF LifeIInv, LifeTypeOK, Phases
<1>2. /\ phase'[s] = "locked" /\ phase[s] = "migrate"
      /\ \A r \in Servers \ {s} : phase'[r] = phase[r]
  BY DEF LifeIInv, LifeTypeOK
<1>3. \A r \in Servers : phase[r] \notin {"locked", "step", "run"}
  BY DEF LifeIInv
<1>4. SchemaInOrder'
  BY <1>2, <1>3 DEF LifeIInv, SchemaInOrder, Whole
<1> QED
  BY <1>1, <1>2, <1>3, <1>4 DEF LifeIInv, Up

LEMMA ReadVersionKeeps ==
  ASSUME LifeIInv, NEW s \in Servers, ReadVersion(s)
  PROVE  LifeIInv'
<1> USE DEF ReadVersion, GoOn, schemaVars
<1>1. CASE dirty
  BY <1>1, EndKeepsLifeIInv
<1>2. CASE ~dirty
  <2>1. LifeTypeOK'
    BY <1>2 DEF LifeIInv, LifeTypeOK, Phases
  <2>2. /\ phase'[s] = "step" /\ at'[s] = version /\ lock = s
        /\ \A r \in Servers \ {s} : phase'[r] = phase[r] /\ at'[r] = at[r]
    BY <1>2 DEF LifeIInv, LifeTypeOK
  <2>3. SchemaInOrder'
    BY <1>2, <2>2 DEF LifeIInv, SchemaInOrder, Whole
  <2> QED
    BY <1>2, <2>1, <2>2, <2>3 DEF LifeIInv, Up
<1> QED
  BY <1>1, <1>2

\* In the middle of Up there is nobody else.
LEMMA OneMigrates ==
  ASSUME LifeIInv, NEW s \in Servers, phase[s] \in {"step", "run"}
  PROVE  \A r \in Servers \ {s} : phase[r] \notin {"locked", "step", "run"}
  BY DEF LifeIInv

LEMMA MarkDirtyKeeps ==
  ASSUME LifeIInv, NEW s \in Servers, MarkDirty(s)
  PROVE  LifeIInv'
<1> USE DEF MarkDirty, GoOn, upVars
<1>1. LifeTypeOK'
  BY DEF LifeIInv, LifeTypeOK, Phases
<1>2. /\ phase'[s] = "run" /\ lock' = s /\ ~dirty /\ version = at[s] /\ ran[s] = 0
      /\ \A r \in Servers \ {s} : phase'[r] = phase[r]
  BY DEF LifeIInv, LifeTypeOK
<1>3. version' = version + 1 /\ version' \in Migrations /\ version \in Nat
  BY <1>2 DEF LifeIInv, LifeTypeOK, Migrations
<1>4. \A r \in Servers \ {s} : phase[r] \notin {"locked", "step", "run"}
  BY OneMigrates
<1>5. \A r \in Servers \cap AutoMigrate : phase[r] \notin Up
  BY <1>2, <1>3 DEF LifeIInv, LifeTypeOK, Migrations
<1>6. SchemaInOrder'
  BY <1>2, <1>3, <1>4 DEF LifeIInv, SchemaInOrder, Whole, Migrations
<1> QED
  BY <1>1, <1>2, <1>3, <1>4, <1>5, <1>6 DEF LifeIInv, Up

LEMMA RunStatementKeeps ==
  ASSUME LifeIInv, NEW s \in Servers, RunStatement(s)
  PROVE  LifeIInv'
<1> USE DEF RunStatement
<1>1. version = at[s] + 1 /\ dirty /\ lock = s /\ version \in Migrations
  BY DEF LifeIInv, LifeTypeOK, SchemaInOrder, Migrations
<1>2. LifeTypeOK'
  BY <1>1 DEF LifeIInv, LifeTypeOK, Phases
<1>3. /\ ran'[s] = ran[s] + 1 /\ built'[version] = built[version] + 1
      /\ \A v \in Migrations \ {version} : built'[v] = built[v]
      /\ \A r \in Servers \ {s} : ran'[r] = ran[r]
  BY <1>1 DEF LifeIInv, LifeTypeOK
<1>4. \A r \in Servers \ {s} : phase[r] \notin {"locked", "step", "run"}
  BY OneMigrates
<1>5. SchemaInOrder'
  BY <1>1, <1>3, <1>4 DEF LifeIInv, LifeTypeOK, SchemaInOrder, Whole, Migrations
<1> QED
  BY <1>1, <1>2, <1>3, <1>4, <1>5 DEF LifeIInv, Up

LEMMA MarkCleanKeeps ==
  ASSUME LifeIInv, NEW s \in Servers, MarkClean(s)
  PROVE  LifeIInv'
<1> USE DEF MarkClean, GoOn
<1>1. version = at[s] + 1 /\ dirty /\ lock = s /\ version \in Migrations
  BY DEF LifeIInv, LifeTypeOK, SchemaInOrder, Migrations
<1>2. LifeTypeOK'
  BY <1>1 DEF LifeIInv, LifeTypeOK, Phases, Migrations
<1>3. /\ phase'[s] = "step" /\ at'[s] = version /\ version' = version /\ ran'[s] = 0
      /\ \A r \in Servers \ {s} : phase'[r] = phase[r] /\ at'[r] = at[r] /\ ran'[r] = ran[r]
  BY <1>1 DEF LifeIInv, LifeTypeOK
<1>4. \A r \in Servers \ {s} : phase[r] \notin {"locked", "step", "run"}
  BY OneMigrates
<1>5. Whole(version)
  BY <1>1 DEF LifeIInv, SchemaInOrder, Whole
<1>6. SchemaInOrder'
  BY <1>1, <1>3, <1>4, <1>5 DEF LifeIInv, LifeTypeOK, SchemaInOrder, Whole, Migrations
<1> QED
  BY <1>1, <1>2, <1>3, <1>4, <1>6 DEF LifeIInv, Up

LEMMA MigratedKeeps ==
  ASSUME LifeIInv, NEW s \in Servers, Migrated(s)
  PROVE  LifeIInv'
<1> USE DEF Migrated, GoOn, upVars, schemaVars
<1>1. LifeTypeOK'
  BY DEF LifeIInv, LifeTypeOK, Phases
<1>2. /\ phase'[s] = "open" /\ ~dirty /\ version = LastMigration /\ ran[s] = 0
      /\ \A r \in Servers \ {s} : phase'[r] = phase[r]
  BY DEF LifeIInv, LifeTypeOK
<1>3. \A r \in Servers \ {s} : phase[r] \notin {"locked", "step", "run"}
  BY OneMigrates
<1>4. SchemaInOrder'
  BY <1>2, <1>3 DEF LifeIInv, SchemaInOrder, Whole
<1> QED
  BY <1>1, <1>2, <1>3, <1>4 DEF LifeIInv, Up

LEMMA StartKeeps ==
  ASSUME LifeIInv, NEW s \in Servers, Start(s)
  PROVE  LifeIInv'
  BY QuietKeepsLifeIInv DEF Start, LifeIInv, LifeTypeOK, Phases, Up

\* Signal, and what happens between Migrated and the end.
LEMMA ServeKeeps ==
  ASSUME LifeIInv, NEW s \in Servers,
         \/ Open(s) \/ Listen(s) \/ Signal(s) \/ Shutdown(s) \/ Deadline(s) \/ CloseStore(s)
  PROVE  LifeIInv'
<1>1. CASE Signal(s)
  <2>1. LifeTypeOK'
    BY <1>1 DEF Signal, upVars, schemaVars, LifeIInv, LifeTypeOK
  <2> QED
    BY <1>1, <2>1 DEF Signal, upVars, schemaVars, LifeIInv, SchemaInOrder, Whole
<1>2. CASE Listen(s)
  BY <1>2, QuietKeepsLifeIInv DEF Listen, LifeIInv, LifeTypeOK, Phases, Up
<1>3. CASE Open(s)
  BY <1>3, QuietKeepsLifeIInv DEF Open, LifeIInv, LifeTypeOK, Phases, Up
<1>4. CASE Shutdown(s)
  BY <1>4, QuietKeepsLifeIInv DEF Shutdown, LifeIInv, LifeTypeOK, Phases, Up
<1>5. CASE Deadline(s)
  BY <1>5, QuietKeepsLifeIInv DEF Deadline, LifeIInv, LifeTypeOK, Phases, Up
<1>6. CASE CloseStore(s)
  BY <1>6, QuietKeepsLifeIInv DEF CloseStore, LifeIInv, LifeTypeOK, Phases, Up
<1> QED
  BY <1>1, <1>2, <1>3, <1>4, <1>5, <1>6

LEMMA LifeStepKeeps ==
  ASSUME LifeIInv, [LifeNext]_lifeVars
  PROVE  LifeIInv'
<1>1. ASSUME NEW s \in Servers, Proceed(s) PROVE LifeIInv'
  <2>1. CASE LockTimeout(s) \/ Interrupted(s)
    BY <2>1, EndKeepsLifeIInv DEF LockTimeout, Interrupted
  <2> QED
    BY <1>1, <2>1, TakeLockKeeps, ReadVersionKeeps, MarkDirtyKeeps, RunStatementKeeps,
       MarkCleanKeeps, MigratedKeeps, ServeKeeps DEF Proceed
<1>2. ASSUME NEW s \in Servers, FailToStart(s) \/ Drained(s) \/ Exit(s) \/ Die(s)
      PROVE  LifeIInv'
  BY <1>2, EndKeepsLifeIInv DEF FailToStart, Drained, Exit, Die
<1>3. ASSUME NEW s \in Servers, Start(s) \/ Signal(s) PROVE LifeIInv'
  BY <1>3, StartKeeps, ServeKeeps
<1>4. CASE UNCHANGED lifeVars
  BY <1>4 DEF lifeVars, upVars, schemaVars, LifeIInv, LifeTypeOK, SchemaInOrder, Whole
<1> QED
  BY <1>1, <1>2, <1>3, <1>4 DEF LifeNext, Advance

-----------------------------------------------------------------------------
(* The requests. *)

Keys == {BcryptKey[w] : w \in Passwords}
UserRows == [email : Emails, hash : Keys]

\* A new account changes nothing about the others.
LEMMA Appended ==
  ASSUME users \in Seq(UserRows), NEW x \in UserRows, users' = Append(users, x)
  PROVE  /\ users' \in Seq(UserRows)
         /\ Len(users') = Len(users) + 1
         /\ DOMAIN users' = DOMAIN users \cup {Len(users) + 1}
         /\ Len(users) + 1 \notin DOMAIN users
         /\ \A id \in DOMAIN users : users'[id] = users[id]
         /\ users'[Len(users) + 1] = x
  OBVIOUS

LEMMA AccountInitIInv == AccountInit => AccountIInv
<1> SUFFICES ASSUME AccountInit PROVE AccountIInv
  OBVIOUS
<1>1. AccountTypeOK
  BY DEF AccountInit, AccountTypeOK, Steps
<1>2. OneAccountPerAddress /\ AnswersAreTrue
  BY DEF AccountInit, OneAccountPerAddress, AnswersAreTrue
<1>3. \A p \in Procs : Stage(p)
  BY DEF AccountInit, Stage, Replies
<1> QED
  BY <1>1, <1>2, <1>3 DEF AccountInit, AccountIInv

\* What AnswersAreTrue says of one request.
TrueFor(p) ==
  LET mine == AccountsOf(req[p].email)
      key == BcryptKey[req[p].password]
  IN  pc[p] = "answered" /\ req[p] # NULL =>
        /\ reply[p] = "created" => users[found[p]] = [email |-> req[p].email, hash |-> key]
        /\ reply[p] = "conflict" => mine # {}
        /\ reply[p] = "session" => found[p] \in mine /\ users[found[p]].hash = key
        /\ reply[p] = "unauthorized" => \A id \in req[p].known : users[id].hash # key

LEMMA TrueForEach == AnswersAreTrue <=> \A p \in Procs : TrueFor(p)
  BY DEF AnswersAreTrue, TrueFor

Grows ==
  /\ users' \in Seq(UserRows)
  /\ DOMAIN users \subseteq DOMAIN users'
  /\ \A id \in DOMAIN users : users'[id] = users[id]

LEMMA SameGrows == ASSUME AccountIInv, UNCHANGED users PROVE Grows
  BY DEF AccountIInv, AccountTypeOK, Grows, UserRows, Keys

Same(q) ==
  /\ pc'[q] = pc[q] /\ req'[q] = req[q]
  /\ found'[q] = found[q] /\ reply'[q] = reply[q] /\ made'[q] = made[q]

\* What requests have inserted, where only p may have.
MadeBy(p) ==
  /\ made' \in [Procs -> 0..MaxUsers]
  /\ \A q \in Procs \ {p} : made'[q] = made[q]

LEMMA NoneMade == ASSUME AccountIInv, UNCHANGED made PROVE \A p \in Procs : MadeBy(p)
  BY DEF AccountIInv, AccountTypeOK, MadeBy

LEMMA OneMade ==
  ASSUME AccountIInv, NEW p \in Procs, Len(users') \in 0..MaxUsers,
         made' = [made EXCEPT ![p] = Len(users')]
  PROVE  MadeBy(p) /\ made'[p] = Len(users')
<1> DEFINE n == Len(users')
<1>1. n \in 0..MaxUsers /\ made' = [made EXCEPT ![p] = n]
  OBVIOUS
<1>2. made \in [Procs -> 0..MaxUsers]
  BY DEF AccountIInv, AccountTypeOK
<1> HIDE DEF n
<1>3. MadeBy(p) /\ made'[p] = n
  BY <1>1, <1>2 DEF MadeBy
<1> QED
  BY <1>3 DEF n

\* What holds of a request holds until its next step, whatever others do.
LEMMA OthersKeep ==
  ASSUME AccountIInv, NEW q \in Procs, Grows, Same(q),
         pc[q] = "readBack" => found[q] \notin acked'
  PROVE  Stage(q)' /\ TrueFor(q)'
<1>1. Stage(q) /\ TrueFor(q)
  BY TrueForEach DEF AccountIInv
<1>2. AccountsOf(req[q].email) \subseteq AccountsOf(req[q].email)'
  BY DEF Grows, Same, AccountsOf
<1>3. AccountsOf(req[q].email) \subseteq DOMAIN users
  BY DEF AccountsOf
<1>4. Stage(q)'
  BY <1>1, <1>2, <1>3 DEF Stage, Same, Grows, NewUser
<1>5. TrueFor(q)'
  <2>1. reply[q] = "created" => found[q] \in DOMAIN users
    BY <1>1 DEF Stage
  <2>2. req[q] # NULL => req[q].known \subseteq DOMAIN users
    BY <1>1, <1>3 DEF Stage
  <2> QED
    BY <1>1, <1>2, <1>3, <2>1, <2>2 DEF TrueFor, Same, Grows
<1> QED
  BY <1>4, <1>5

\* What is left to show of a step of request p.
LEMMA StepKeeps ==
  ASSUME AccountIInv, NEW p \in Procs,
         Grows, AccountTypeOK', OneAccountPerAddress',
         \A q \in Procs \ {p} : Same(q),
         acked' = acked \/ (pc[p] = "readBack" /\ acked' = acked \cup {found[p]}),
         Stage(p)', TrueFor(p)',
         pc'[p] = "readBack" => found'[p] \notin DOMAIN users
  PROVE  AccountIInv'
<1>1. ASSUME NEW q \in Procs \ {p} PROVE Stage(q)' /\ TrueFor(q)'
  <2>1. pc[q] = "readBack" => found[q] \notin acked'
    BY DEF AccountIInv, Stage
  <2> QED
    BY <2>1, OthersKeep
<1>2. AnswersAreTrue'
  <2>1. \A q \in Procs : TrueFor(q)'
    BY <1>1
  <2> QED
    BY <2>1 DEF TrueFor, AnswersAreTrue
<1>3. \A q \in Procs : Stage(q)'
  BY <1>1
<1>4. \A q, r \in Procs :
        q # r /\ pc'[q] = "readBack" /\ pc'[r] = "readBack" => found'[q] # found'[r]
  <2>1. \A q \in Procs \ {p} : pc'[q] = "readBack" =>
          pc[q] = "readBack" /\ found'[q] = found[q] /\ found[q] \in DOMAIN users
    BY DEF Same, AccountIInv, Stage
  <2> QED
    BY <2>1 DEF AccountIInv
<1> QED
  BY <1>2, <1>3, <1>4 DEF AccountIInv

-----------------------------------------------------------------------------
(* The steps of a request. *)

LEMMA NoNull ==
  /\ NULL \notin Requests /\ NULL \notin Replies /\ NULL \notin Emails
  /\ NULL # "created" /\ NULL # "conflict" /\ NULL # "session" /\ NULL # "unauthorized"
  BY DEF Replies

\* The request of p gets an answer that says what is there.
LEMMA AnswerKeeps ==
  ASSUME AccountIInv, NEW p \in Procs, NEW answer \in Replies, Answer(p, answer),
         Grows, Len(users') <= MaxUsers, OneAccountPerAddress', UNCHANGED <<req, found>>,
         acked' = acked \/ (pc[p] = "readBack" /\ acked' = acked \cup {found[p]}),
         answer \notin {"created", "session"} \/ found[p] \in DOMAIN users,
         MadeBy(p), TrueFor(p)'
  PROVE  AccountIInv'
<1> USE DEF Answer, Go
<1>1. /\ \A q \in Procs \ {p} : Same(q)
      /\ pc'[p] = "answered" /\ reply'[p] = answer
  BY DEF AccountIInv, AccountTypeOK, Same, MadeBy
<1>2. AccountTypeOK'
  <2>1. pc' \in [Procs -> Steps] /\ reply' \in [Procs -> Replies \cup {NULL}]
    BY DEF AccountIInv, AccountTypeOK, Steps
  <2>2. found' \in [Procs -> 0..Len(users')] /\ Len(users') \in Nat
    BY DEF AccountIInv, AccountTypeOK, Grows
  <2>3. acked' \subseteq DOMAIN users'
    BY DEF AccountIInv, AccountTypeOK, Grows, Stage
  <2> QED
    BY <2>1, <2>2, <2>3 DEF AccountIInv, AccountTypeOK, Grows, UserRows, Keys, MadeBy
<1>3. AccountsOf(req[p].email) \subseteq AccountsOf(req[p].email)'
  BY DEF Grows, AccountsOf
<1>4. Stage(p)'
  BY <1>1, <1>3 DEF AccountIInv, Stage, Grows
<1> QED
  BY <1>1, <1>2, <1>4, StepKeeps

LEMMA TakeKeeps ==
  ASSUME AccountIInv, NEW p \in Procs, NEW step \in {"insert", "lookup"},
         NEW email \in Emails, NEW password \in Passwords,
         Take(p, step, email, password)
  PROVE  AccountIInv'
<1> DEFINE request == [email |-> email, password |-> password,
                       known |-> acked \cap AccountsOf(email)]
<1> USE DEF Take, Go
<1>1. Grows
  BY SameGrows
<1>2. /\ \A q \in Procs \ {p} : Same(q)
      /\ pc'[p] = step /\ req'[p] = request /\ reply'[p] = reply[p]
  BY DEF AccountIInv, AccountTypeOK, Same
<1>3. request \in Requests
  <2>1. acked \cap AccountsOf(email) \subseteq 1..MaxUsers
    BY DEF AccountIInv, AccountTypeOK
  <2> QED
    BY <2>1 DEF Requests
<1>4. AccountTypeOK'
  BY <1>3 DEF AccountIInv, AccountTypeOK, Steps
<1>5. OneAccountPerAddress'
  BY DEF AccountIInv, OneAccountPerAddress
<1>6. Stage(p)'
  <2>1. reply[p] = NULL
    BY DEF AccountIInv, Stage
  <2>2. /\ req'[p] # NULL
        /\ req'[p].email = email /\ req'[p].known = acked \cap AccountsOf(email)
    <3>1. request # NULL
      BY <1>3, NoNull
    <3>2. request.email = email /\ request.known = acked \cap AccountsOf(email)
      OBVIOUS
    <3> HIDE DEF request
    <3> QED
      BY <1>2, <3>1, <3>2
  <2>3. req'[p].known \subseteq AccountsOf(req[p].email)'
    BY <2>2 DEF AccountsOf
  <2> QED
    BY <1>2, <2>1, <2>2, <2>3, NoNull DEF Stage
<1>7. TrueFor(p)'
  BY <1>2 DEF TrueFor
<1> QED
  BY <1>1, <1>2, <1>4, <1>5, <1>6, <1>7, StepKeeps

LEMMA ArriveKeeps ==
  ASSUME AccountIInv, NEW p \in Procs, Arrive(p)
  PROVE  AccountIInv'
<1>1. ASSUME NEW raw \in RawEmails, NEW password \in Passwords,
             AcceptRegister(p, raw, password) \/ AcceptLogin(p, raw, password)
      PROVE  AccountIInv'
  <2>1. NormalizeEmail[raw] \in Emails
    BY <1>1 DEF AcceptRegister, AcceptLogin
  <2> QED
    BY <1>1, <2>1, TakeKeeps DEF AcceptRegister, AcceptLogin
<1>2. ASSUME NEW answer \in {"invalid", "unauthorized"}, Refuse(p, answer)
      PROVE  AccountIInv'
  <2>1. req[p] = NULL
    BY <1>2 DEF Refuse, AccountIInv, Stage
  <2>2. Grows /\ OneAccountPerAddress' /\ Len(users') <= MaxUsers
    BY <1>2, SameGrows DEF Refuse, AccountIInv, AccountTypeOK, OneAccountPerAddress
  <2>3. TrueFor(p)'
    BY <1>2, <2>1 DEF Refuse, TrueFor
  <2>4. MadeBy(p)
    BY <1>2, NoneMade DEF Refuse
  <2> QED
    BY <1>2, <2>2, <2>3, <2>4, AnswerKeeps DEF Refuse, Replies
<1> QED
  BY <1>1, <1>2 DEF Arrive, RefuseRegister, RefuseLogin

\* The account of p's request, inserted.
LEMMA InsertGrows ==
  ASSUME AccountIInv, NEW p \in Procs, CanInsert(p),
         AccountsOf(req[p].email) = {}, users' = Append(users, NewUser(p))
  PROVE  /\ Grows /\ OneAccountPerAddress'
         /\ Len(users') = Len(users) + 1 /\ Len(users') <= MaxUsers
         /\ Len(users') \in DOMAIN users' \ DOMAIN users
         /\ users'[Len(users')] = NewUser(p)
<1>1. NewUser(p) \in UserRows /\ NewUser(p).email = req[p].email
  <2>1. req[p] \in Requests
    BY DEF CanInsert, AccountIInv, AccountTypeOK, Stage
  <2> QED
    BY <2>1 DEF NewUser, UserRows, Keys, Requests
<1>2. users \in Seq(UserRows) /\ Len(users) < MaxUsers /\ Len(users) \in Nat
  BY DEF CanInsert, AccountIInv, AccountTypeOK, UserRows, Keys
<1>3. /\ users' \in Seq(UserRows)
      /\ Len(users') = Len(users) + 1
      /\ DOMAIN users' = DOMAIN users \cup {Len(users) + 1}
      /\ Len(users) + 1 \notin DOMAIN users
      /\ \A id \in DOMAIN users : users'[id] = users[id]
      /\ users'[Len(users) + 1] = NewUser(p)
  BY <1>1, <1>2, Appended
<1>4. OneAccountPerAddress'
  BY <1>1, <1>3 DEF AccountIInv, OneAccountPerAddress, AccountsOf
<1> QED
  BY <1>2, <1>3, <1>4 DEF Grows

LEMMA InsertUserKeeps ==
  ASSUME AccountIInv, NEW p \in Procs, InsertUser(p)
  PROVE  AccountIInv'
<1> USE DEF InsertUser, Go
<1>1. /\ Grows /\ OneAccountPerAddress'
      /\ Len(users') = Len(users) + 1 /\ Len(users') <= MaxUsers
      /\ Len(users') \in DOMAIN users' \ DOMAIN users
      /\ users'[Len(users')] = NewUser(p)
  BY InsertGrows
<1>2. /\ \A q \in Procs \ {p} : Same(q)
      /\ pc'[p] = "readBack" /\ found'[p] = Len(users') /\ made'[p] = Len(users')
      /\ MadeBy(p)
  <2>1. MadeBy(p) /\ made'[p] = Len(users')
    <3>1. Len(users') \in 0..MaxUsers
      BY <1>1 DEF AccountIInv, AccountTypeOK
    <3> QED
      BY <3>1, OneMade
  <2> QED
    BY <2>1 DEF AccountIInv, AccountTypeOK, Same, MadeBy
<1>3. AccountTypeOK'
  <2>1. /\ Len(users) \in Nat /\ pc' \in [Procs -> Steps]
        /\ found' \in [Procs -> 0..Len(users')]
    BY <1>1 DEF AccountIInv, AccountTypeOK, Steps
  <2> QED
    BY <1>1, <1>2, <2>1 DEF AccountIInv, AccountTypeOK, Grows, UserRows, Keys, MadeBy
<1>4. Stage(p)'
  <2>1. AccountsOf(req[p].email) \subseteq AccountsOf(req[p].email)'
    BY <1>1 DEF Grows, AccountsOf
  <2>2. Len(users') \notin acked
    BY <1>1 DEF AccountIInv, AccountTypeOK
  <2> QED
    BY <1>1, <1>2, <2>1, <2>2, NoNull DEF AccountIInv, Stage, CanInsert, NewUser
<1>5. TrueFor(p)'
  BY <1>2 DEF TrueFor
<1> QED
  BY <1>1, <1>2, <1>3, <1>4, <1>5, StepKeeps

LEMMA InsertUnacknowledgedKeeps ==
  ASSUME AccountIInv, NEW p \in Procs, InsertUserUnacknowledged(p)
  PROVE  AccountIInv'
<1> USE DEF InsertUserUnacknowledged
<1>1. Grows /\ OneAccountPerAddress' /\ Len(users') <= MaxUsers
  BY InsertGrows
<1>2. reply'[p] = "internal"
  BY DEF Answer, AccountIInv, AccountTypeOK
<1>3. TrueFor(p)'
  BY <1>2 DEF TrueFor
<1>4. MadeBy(p)
  <2>1. Len(users') \in 0..MaxUsers
    BY <1>1, InsertGrows DEF AccountIInv, AccountTypeOK
  <2> QED
    BY <2>1, OneMade
<1> QED
  BY <1>1, <1>3, <1>4, AnswerKeeps DEF Replies

\* The answers that change no account.
LEMMA ReplyKeeps ==
  ASSUME AccountIInv, NEW p \in Procs,
         InsertConflict(p) \/ ReadBackUser(p) \/ LookUpNobody(p) \/ Verify(p) \/ DbError(p)
  PROVE  AccountIInv'
<1>1. /\ UNCHANGED <<users, req, found>> /\ MadeBy(p)
      /\ Grows /\ OneAccountPerAddress' /\ Len(users') <= MaxUsers
  <2>1. UNCHANGED <<users, req, found, made>>
    BY DEF InsertConflict, ReadBackUser, LookUpNobody, Verify, DbError
  <2> QED
    BY <2>1, SameGrows, NoneMade DEF AccountIInv, AccountTypeOK, OneAccountPerAddress
<1>2. AccountsOf(req[p].email)' = AccountsOf(req[p].email)
  BY <1>1 DEF AccountsOf
<1>3. \A answer : Answer(p, answer) => reply'[p] = answer
  BY DEF Answer, AccountIInv, AccountTypeOK
<1>4. Stage(p)
  BY DEF AccountIInv
<1>5. CASE InsertConflict(p)
  <2>1. TrueFor(p)'
    BY <1>1, <1>2, <1>3, <1>5 DEF InsertConflict, TrueFor
  <2> QED
    BY <1>1, <1>5, <2>1, AnswerKeeps DEF InsertConflict, Replies
<1>6. CASE ReadBackUser(p)
  <2>1. TrueFor(p)'
    BY <1>1, <1>3, <1>4, <1>6 DEF ReadBackUser, TrueFor, Stage, NewUser
  <2> QED
    BY <1>1, <1>4, <1>6, <2>1, AnswerKeeps DEF ReadBackUser, Replies, Stage
<1>7. CASE LookUpNobody(p)
  <2>1. TrueFor(p)'
    BY <1>1, <1>3, <1>4, <1>7 DEF LookUpNobody, TrueFor, Stage
  <2> QED
    BY <1>1, <1>7, <2>1, AnswerKeeps DEF LookUpNobody, Replies
<1>8. CASE Verify(p)
  <2>1. found[p] \in AccountsOf(req[p].email) /\ req[p] # NULL
    BY <1>4, <1>8 DEF Verify, Stage
  <2>2. \A id \in req[p].known : id = found[p]
    BY <1>4, <2>1 DEF AccountIInv, OneAccountPerAddress, AccountsOf, Stage
  <2>3. TrueFor(p)'
    BY <1>1, <1>2, <1>3, <1>8, <2>1, <2>2 DEF Verify, TrueFor
  <2>4. found[p] \in DOMAIN users
    BY <2>1 DEF AccountsOf
  <2> QED
    BY <1>1, <1>8, <2>3, <2>4, AnswerKeeps DEF Verify, Replies
<1>9. CASE DbError(p)
  <2>1. TrueFor(p)'
    BY <1>3, <1>9 DEF DbError, TrueFor
  <2> QED
    BY <1>1, <1>9, <2>1, AnswerKeeps DEF DbError, Replies
<1> QED
  BY <1>5, <1>6, <1>7, <1>8, <1>9

LEMMA LookUpKeeps ==
  ASSUME AccountIInv, NEW p \in Procs, LookUpUser(p)
  PROVE  AccountIInv'
<1> USE DEF LookUpUser, Go
<1>1. Grows /\ OneAccountPerAddress'
  BY SameGrows DEF AccountIInv, OneAccountPerAddress
<1>2. PICK id \in AccountsOf(req[p].email) : found' = [found EXCEPT ![p] = id]
  OBVIOUS
<1>3. /\ \A q \in Procs \ {p} : Same(q)
      /\ pc'[p] = "verify" /\ found'[p] = id
  BY <1>2 DEF AccountIInv, AccountTypeOK, Same
<1>4. id \in DOMAIN users /\ id \in 0..Len(users)
  BY DEF AccountsOf, AccountIInv, AccountTypeOK
<1>5. AccountTypeOK'
  BY <1>2, <1>4 DEF AccountIInv, AccountTypeOK, Steps
<1>6. Stage(p)'
  <2>1. AccountsOf(req[p].email)' = AccountsOf(req[p].email)
    BY DEF AccountsOf
  <2> QED
    BY <1>2, <1>3, <1>4, <2>1 DEF AccountIInv, Stage
<1>7. TrueFor(p)'
  BY <1>3 DEF TrueFor
<1> QED
  BY <1>1, <1>3, <1>5, <1>6, <1>7, StepKeeps

\* A finished request and a broken one are forgotten; accounts stay.
LEMMA ForgetKeeps ==
  ASSUME AccountIInv, NEW P \in SUBSET Procs, Forget(P)
  PROVE  AccountIInv'
<1> USE DEF Forget
<1>1. Grows /\ OneAccountPerAddress'
  BY SameGrows DEF AccountIInv, OneAccountPerAddress
<1>2. AccountTypeOK'
  BY DEF AccountIInv, AccountTypeOK, Steps
<1>3. \A q \in Procs \ P : Same(q)
  BY DEF AccountIInv, AccountTypeOK, Same
<1>4. \A p \in P : pc'[p] = "idle" /\ req'[p] = NULL /\ reply'[p] = NULL
  OBVIOUS
<1>5. ASSUME NEW q \in Procs PROVE Stage(q)' /\ TrueFor(q)'
  <2>1. CASE q \in P
    BY <1>4, <2>1, NoNull DEF Stage, TrueFor
  <2>2. CASE q \notin P
    <3>1. pc[q] = "readBack" => found[q] \notin acked'
      BY DEF AccountIInv, Stage
    <3> QED
      BY <1>1, <1>3, <2>2, <3>1, OthersKeep
  <2> QED
    BY <2>1, <2>2
<1>6. AnswersAreTrue'
  BY <1>5 DEF TrueFor, AnswersAreTrue
<1>7. \A q, r \in Procs :
        q # r /\ pc'[q] = "readBack" /\ pc'[r] = "readBack" => found'[q] # found'[r]
  BY <1>3, <1>4 DEF AccountIInv, Same
<1> QED
  BY <1>1, <1>2, <1>5, <1>6, <1>7 DEF AccountIInv

LEMMA RequestKeeps ==
  ASSUME AccountIInv, NEW p \in Procs,
         Arrive(p) \/ Query(p) \/ Verify(p) \/ DbError(p) \/ Finish(p)
  PROVE  AccountIInv'
<1>1. CASE Query(p)
  BY <1>1, InsertUserKeeps, InsertUnacknowledgedKeeps, ReplyKeeps, LookUpKeeps DEF Query
<1>2. CASE Finish(p)
  BY <1>2, ForgetKeeps DEF Finish
<1> QED
  BY <1>1, <1>2, ArriveKeeps, ReplyKeeps

LEMMA AccountStutter ==
  ASSUME AccountIInv, UNCHANGED accountVars PROVE AccountIInv'
<1>1. AccountTypeOK' /\ OneAccountPerAddress'
  BY DEF accountVars, AccountIInv, AccountTypeOK, OneAccountPerAddress
<1>2. Grows /\ \A q \in Procs : Same(q)
  BY SameGrows DEF accountVars, Same
<1>3. \A q \in Procs : Stage(q)' /\ TrueFor(q)'
  BY <1>2, OthersKeep DEF accountVars, AccountIInv, Stage
<1>4. AnswersAreTrue'
  BY <1>3 DEF TrueFor, AnswersAreTrue
<1> QED
  BY <1>1, <1>3, <1>4 DEF accountVars, AccountIInv

-----------------------------------------------------------------------------
(* Together. *)

\* A step of the system is a step of the servers, and for the requests a step
\* of one, or the end of those on a server, or none.
LEMMA StepOfBoth ==
  ASSUME [Next]_vars
  PROVE  /\ [LifeNext]_lifeVars
         /\ \/ \E p \in Procs :
                 Arrive(p) \/ Query(p) \/ Verify(p) \/ DbError(p) \/ Finish(p)
            \/ \E P \in SUBSET Procs : Forget(P)
            \/ UNCHANGED accountVars
<1>1. ASSUME NEW p \in Procs, Request(p)
      PROVE  /\ UNCHANGED lifeVars
             /\ Arrive(p) \/ Query(p) \/ Verify(p) \/ DbError(p) \/ Finish(p)
  BY <1>1 DEF Request
<1>2. ASSUME NEW s \in Servers, Alone(s) \/ Stop(s)
      PROVE  LifeNext /\ UNCHANGED accountVars
  BY <1>2 DEF Alone, Stop, LifeNext
<1>3. ASSUME NEW s \in Servers, Break(s)
      PROVE  LifeNext /\ \E P \in SUBSET Procs : Forget(P)
  BY <1>3 DEF Break, LifeNext, On
<1>4. CASE UNCHANGED vars
  BY <1>4 DEF vars
<1> QED
  BY <1>1, <1>2, <1>3, <1>4 DEF Next

\* The invariant of the proofs, from which the other theorems follow.
THEOREM InvariantHolds == Spec => []IInv
<1>1. Init => IInv
  BY LifeInitIInv, AccountInitIInv DEF Init, IInv
<1>2. IInv /\ [Next]_vars => IInv'
  BY StepOfBoth, LifeStepKeeps, RequestKeeps, ForgetKeeps, AccountStutter DEF IInv
<1> QED
  BY <1>1, <1>2, PTL DEF Spec

\* The property SchemaInOrder.
THEOREM SchemaAlwaysInOrder == Spec => []SchemaInOrder
<1>1. IInv => SchemaInOrder
  BY DEF IInv, LifeIInv
<1> QED
  BY <1>1, InvariantHolds, PTL

\* The property ServesWholeSchema: the version is the last one and clean, so
\* SchemaInOrder says that every migration has run.
THEOREM WholeSchemaAlwaysServed == Spec => []ServesWholeSchema
<1>1. IInv => ServesWholeSchema
  <2> SUFFICES ASSUME IInv, NEW s \in AutoMigrate, phase[s] \in Up, NEW v \in Migrations
               PROVE  Whole(v)
    BY DEF ServesWholeSchema
  <2>1. s \in Servers /\ ~dirty /\ version = LastMigration
    BY DEF IInv, LifeIInv
  <2>2. v < version \/ v = version
    BY <2>1 DEF Migrations
  <2> QED
    BY <2>1, <2>2 DEF IInv, LifeIInv, SchemaInOrder
<1> QED
  BY <1>1, InvariantHolds, PTL

\* The property AnswersAreTrue.
THEOREM AnswersAlwaysTrue == Spec => []AnswersAreTrue
<1>1. IInv => AnswersAreTrue
  BY DEF IInv, AccountIInv
<1> QED
  BY <1>1, InvariantHolds, PTL

\* The property RegisteredOnce: only a read-back answers "created", and what
\* it reads back is the row that the same request has inserted, which has not
\* been acknowledged.
THEOREM AlwaysRegisteredOnce == Spec => RegisteredOnce
<1>1. IInv /\ [Next]_vars =>
        [\A p \in Procs :
           reply'[p] = "created" /\ reply[p] # "created" =>
             found[p] = made[p] /\ found[p] \notin acked]_accountVars
  <2> SUFFICES ASSUME IInv, [Next]_vars, NEW q \in Procs,
                      reply'[q] = "created", reply[q] # "created"
               PROVE  found[q] = made[q] /\ found[q] \notin acked
    OBVIOUS
  <2>1. ASSUME NEW p \in Procs, NEW answer, Answer(p, answer)
        PROVE  /\ q # p => reply'[q] = reply[q]
               /\ reply'[p] = answer
    BY <2>1 DEF Answer, IInv, AccountIInv, AccountTypeOK
  <2>2. ASSUME NEW p \in Procs, ReadBackUser(p)
        PROVE  found[q] = made[q] /\ found[q] \notin acked
    <3>1. q = p
      BY <2>1, <2>2 DEF ReadBackUser
    <3> QED
      BY <2>2, <3>1 DEF ReadBackUser, IInv, AccountIInv, Stage
  <2>3. ASSUME NEW p \in Procs,
               \/ Refuse(p, "invalid") \/ Refuse(p, "unauthorized")
               \/ InsertUserUnacknowledged(p) \/ InsertConflict(p)
               \/ LookUpNobody(p) \/ Verify(p) \/ DbError(p)
        PROVE  FALSE
    BY <2>1, <2>3 DEF Refuse, InsertUserUnacknowledged, InsertConflict, LookUpNobody,
       Verify, DbError
  <2>4. ASSUME NEW p \in Procs, InsertUser(p) \/ LookUpUser(p) PROVE FALSE
    BY <2>4 DEF InsertUser, LookUpUser
  <2>5. ASSUME NEW p \in Procs, Arrive(p) PROVE FALSE
    BY <2>3, <2>5 DEF Arrive, RefuseRegister, RefuseLogin, AcceptRegister, AcceptLogin, Take
  <2>6. ASSUME NEW P \in SUBSET Procs, Forget(P) PROVE FALSE
    BY <2>6, NoNull DEF Forget
  <2>7. CASE UNCHANGED accountVars
    BY <2>7 DEF accountVars
  <2> QED
    BY <2>2, <2>3, <2>4, <2>5, <2>6, <2>7, StepOfBoth DEF Query, Finish
<1> QED
  BY <1>1, InvariantHolds, PTL DEF Spec, RegisteredOnce
=============================================================================
