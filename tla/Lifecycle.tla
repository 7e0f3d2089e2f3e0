----------------------------- MODULE Lifecycle -----------------------------
(***************************************************************************)
(* The life of a server (cmd/api/main.go) from its start to its exit, with *)
(* the migrations of internal/store.  Servers start, stop and die beside   *)
(* each other and share one MySQL, where golang-migrate keeps the version  *)
(* of the schema, a flag that says that a migration is under way, and a    *)
(* lock.  MySQL commits every CREATE TABLE of a migration by itself.       *)
(*                                                                         *)
(* What the server does for its clients is not to be seen here: module     *)
(* Server adds it.                                                         *)
(***************************************************************************)
EXTENDS Integers

CONSTANTS
    Servers,
    Free,           \* the lock is held by nobody
    AutoMigrate,    \* the servers with MYSQL_AUTO_MIGRATE
    LastMigration,  \* the migrations are 1..LastMigration
    Statements      \* Statements[v]: the statements of migration v

Migrations == 1..LastMigration

ASSUME MigrationAssumption ==
    /\ LastMigration \in Nat \ {0}
    /\ Statements \in [Migrations -> Nat \ {0}]
    /\ AutoMigrate \subseteq Servers
    /\ Free \notin Servers

VARIABLES
    phase,      \* phase[s]: how far main has come
    signalled,  \* signalled[s]: SIGTERM has come, ctx is cancelled
    at,         \* at[s]: the version that Up has reached
    ran,        \* ran[s]: the statements it has run of the next migration
    lock,       \* GET_LOCK: the server that holds it, or Free
    version,    \* schema_migrations.version, 0 without a row
    dirty,      \* schema_migrations.dirty
    built       \* built[v]: how many statements of migration v have run

schemaVars == <<version, dirty, built>>
upVars == <<at, ran>>
lifeVars == <<phase, signalled, upVars, lock, schemaVars>>

Phases == {"down", "migrate", "locked", "step", "run", "open", "ready",
           "serving", "draining", "late", "closed"}

LifeTypeOK ==
    /\ phase \in [Servers -> Phases]
    /\ signalled \in [Servers -> BOOLEAN]
    /\ at \in [Servers -> 0..LastMigration]
    /\ ran \in [Servers -> Nat]
    /\ lock \in Servers \cup {Free}
    /\ version \in 0..LastMigration
    /\ dirty \in BOOLEAN
    /\ built \in [Migrations -> Nat]

LifeInit ==
    /\ phase = [s \in Servers |-> "down"]
    /\ signalled = [s \in Servers |-> FALSE]
    /\ at = [s \in Servers |-> 0]
    /\ ran = [s \in Servers |-> 0]
    /\ lock = Free
    /\ version = 0
    /\ dirty = FALSE
    /\ built = [v \in Migrations |-> 0]

-----------------------------------------------------------------------------
GoOn(s, next) == phase' = [phase EXCEPT ![s] = next]

\* The process ends, and with its connections the lock it may hold.
End(s) ==
    /\ phase' = [phase EXCEPT ![s] = "down"]
    /\ signalled' = [signalled EXCEPT ![s] = FALSE]
    /\ at' = [at EXCEPT ![s] = 0]
    /\ ran' = [ran EXCEPT ![s] = 0]
    /\ lock' = IF lock = s THEN Free ELSE lock

\* docker compose starts the container, again after every exit
\* (restart: unless-stopped).
Start(s) ==
    /\ phase[s] = "down"
    /\ GoOn(s, IF s \in AutoMigrate THEN "migrate" ELSE "open")
    /\ UNCHANGED <<signalled, upVars, lock, schemaVars>>

-----------------------------------------------------------------------------
(* Store.Migrate and migrate.Up. *)

\* Mutant: the lock is not waited for.
TakeLockAnyhow(s) ==
    /\ phase[s] = "migrate"
    /\ lock' = s
    /\ GoOn(s, "locked")
    /\ UNCHANGED <<signalled, upVars, schemaVars>>

TakeLock(s) ==
    /\ phase[s] = "migrate"
    /\ lock = Free
    /\ lock' = s
    /\ GoOn(s, "locked")
    /\ UNCHANGED <<signalled, upVars, schemaVars>>

\* The version is read once; a dirty one is an error, and main exits.
ReadVersion(s) ==
    /\ phase[s] = "locked"
    /\ IF dirty
       THEN End(s)
       ELSE /\ at' = [at EXCEPT ![s] = version]
            /\ GoOn(s, "step")
            /\ UNCHANGED <<signalled, ran, lock>>
    /\ UNCHANGED schemaVars

\* SetVersion(v, true) before the migration, SetVersion(v, false) after it.
MarkDirty(s) ==
    /\ phase[s] = "step"
    /\ at[s] < LastMigration
    /\ version' = at[s] + 1
    /\ dirty' = TRUE
    /\ GoOn(s, "run")
    /\ UNCHANGED <<signalled, upVars, lock, built>>

\* The next statement of the migration.  It creates a table, so it fails, and
\* the start with it, where somebody else has run it.
RunStatement(s) ==
    LET v == at[s] + 1
    IN  /\ phase[s] = "run"
        /\ ran[s] < Statements[v]
        /\ built[v] = ran[s]
        /\ built' = [built EXCEPT ![v] = @ + 1]
        /\ ran' = [ran EXCEPT ![s] = @ + 1]
        /\ UNCHANGED <<phase, signalled, at, lock, version, dirty>>

MarkClean(s) ==
    /\ phase[s] = "run"
    /\ ran[s] = Statements[at[s] + 1]
    /\ version' = at[s] + 1
    /\ dirty' = FALSE
    /\ at' = [at EXCEPT ![s] = @ + 1]
    /\ ran' = [ran EXCEPT ![s] = 0]
    /\ GoOn(s, "step")
    /\ UNCHANGED <<signalled, lock, built>>

\* Up has come to the last version, or found it there: ErrNoChange.
Migrated(s) ==
    /\ phase[s] = "step"
    /\ at[s] = LastMigration
    /\ lock' = Free
    /\ GoOn(s, "open")
    /\ UNCHANGED <<signalled, upVars, schemaVars>>

\* GET_LOCK gives up after ten seconds.
LockTimeout(s) ==
    /\ phase[s] = "migrate"
    /\ lock # Free
    /\ End(s)
    /\ UNCHANGED schemaVars

\* Mutant: main logs it and goes on.
GoOnAnyhow(s) ==
    /\ phase[s] \in {"migrate", "locked", "step", "run", "open"}
    /\ GoOn(s, "open")
    /\ lock' = IF lock = s THEN Free ELSE lock
    /\ ran' = [ran EXCEPT ![s] = 0]
    /\ UNCHANGED <<signalled, at, schemaVars>>

\* A ping fails, or a call to MySQL, or a migration: main logs it and exits.
FailToStart(s) ==
    /\ phase[s] \in {"migrate", "locked", "step", "run", "open"}
    /\ End(s)
    /\ UNCHANGED schemaVars

-----------------------------------------------------------------------------
(* Serving and stopping. *)

\* The ping of store.Open fails when ctx is cancelled, and main exits.
Interrupted(s) ==
    /\ phase[s] = "open"
    /\ signalled[s]
    /\ End(s)
    /\ UNCHANGED schemaVars

\* Nothing after it can keep the server from starting: Redis may be down.
Open(s) ==
    /\ phase[s] = "open"
    /\ ~signalled[s]
    /\ GoOn(s, "ready")
    /\ UNCHANGED <<signalled, upVars, lock, schemaVars>>

\* ListenAndServe, in a goroutine, while main waits for a signal.
Listen(s) ==
    /\ phase[s] = "ready"
    /\ GoOn(s, "serving")
    /\ UNCHANGED <<signalled, upVars, lock, schemaVars>>

\* SIGTERM.  Up does not look at ctx, and a second signal changes nothing.
Signal(s) ==
    /\ phase[s] # "down"
    /\ ~signalled[s]
    /\ signalled' = [signalled EXCEPT ![s] = TRUE]
    /\ UNCHANGED <<phase, upVars, lock, schemaVars>>

\* Shutdown closes the listener and waits for the requests.
Shutdown(s) ==
    /\ phase[s] = "serving"
    /\ signalled[s]
    /\ GoOn(s, "draining")
    /\ UNCHANGED <<signalled, upVars, lock, schemaVars>>

\* All requests are answered; main returns.
Drained(s) ==
    /\ phase[s] = "draining"
    /\ End(s)
    /\ UNCHANGED schemaVars

\* Mutant: Shutdown(context.Background()).
NoDeadline(s) == FALSE /\ UNCHANGED lifeVars

\* Ten seconds have passed: rdb.Close, while requests are still running.
Deadline(s) ==
    /\ phase[s] = "draining"
    /\ GoOn(s, "late")
    /\ UNCHANGED <<signalled, upVars, lock, schemaVars>>

\* db.Close: no new query starts.
CloseStore(s) ==
    /\ phase[s] = "late"
    /\ GoOn(s, "closed")
    /\ UNCHANGED <<signalled, upVars, lock, schemaVars>>

Exit(s) ==
    /\ phase[s] = "closed"
    /\ End(s)
    /\ UNCHANGED schemaVars

\* Killed, crashed, or left by os.Exit because the port is taken.
Die(s) ==
    /\ phase[s] # "down"
    /\ End(s)
    /\ UNCHANGED schemaVars

\* What main does by itself, when nothing goes wrong.
Proceed(s) ==
    \/ TakeLock(s)
    \/ ReadVersion(s)
    \/ MarkDirty(s)
    \/ RunStatement(s)
    \/ MarkClean(s)
    \/ Migrated(s)
    \/ LockTimeout(s)
    \/ Interrupted(s)
    \/ Open(s)
    \/ Listen(s)
    \/ Shutdown(s)
    \/ Deadline(s)
    \/ CloseStore(s)

\* The steps that leave the requests that run alone.
Advance(s) == Start(s) \/ Proceed(s) \/ FailToStart(s) \/ Signal(s)

LifeNext == \E s \in Servers : Advance(s) \/ Drained(s) \/ Exit(s) \/ Die(s)

LifeSpec == LifeInit /\ [][LifeNext]_lifeVars

-----------------------------------------------------------------------------
(* Properties. *)

Whole(v) == built[v] = Statements[v]

\* The version and the flag tell the truth about the tables, however many
\* servers start and die: up to the version, or the one before it when the
\* flag is set, every migration has run as a whole and once, and after it
\* none has begun (README, on repeated starts).  The server in the middle of
\* a migration is the only one, and knows how far it is.
SchemaInOrder ==
    /\ \A v \in Migrations :
         /\ v < version \/ (v = version /\ ~dirty) => Whole(v)
         /\ v > version => built[v] = 0
    /\ \A s \in Servers :
         phase[s] = "run" => /\ lock = s /\ dirty
                             /\ version = at[s] + 1
                             /\ built[version] = ran[s]

Up == {"open", "ready", "serving", "draining", "late", "closed"}

\* Requests never meet a schema that is not whole, however many times the
\* migrations were begun and broken off before.
ServesWholeSchema ==
    \A s \in AutoMigrate : phase[s] \in Up => \A v \in Migrations : Whole(v)

\* SIGTERM ends the process in the end, at whatever moment of its life it
\* comes, and even when requests hang.
SignalEnds == \A s \in Servers : signalled[s] ~> phase[s] = "down"

\* The inductive invariant behind the first two: who is between TakeLock and
\* Migrated holds the lock, what it has read of the version is still so, and
\* who has got past it has seen the last version clean.
LifeIInv ==
    /\ LifeTypeOK
    /\ SchemaInOrder
    /\ \A s \in Servers :
         /\ phase[s] \in {"locked", "step", "run"} => lock = s
         /\ phase[s] = "step" => ~dirty /\ version = at[s]
         /\ phase[s] # "run" => ran[s] = 0
         /\ s \in AutoMigrate /\ phase[s] \in Up => ~dirty /\ version = LastMigration
=============================================================================
