# TLA+ model of the task API

This directory holds a formal model of the task-tracking server in this
repository: TLA+ modules translated from the Go source, TLC configurations that
model-check them on small instances, and theorems whose proofs TLAPS checks.
`PROJECT.json` lists the components, the runs, the lines that each definition
models, the hazards and the theorems.

    tlc -config MCTasks.cfg MCTasks.tla      # a run; the other cfgs alike
    tlapm TasksProofs.tla                    # the proofs

## The system

A stateless Go server in front of MySQL (InnoDB) and Redis. Every HTTP request
is a goroutine: `httpapi` decodes it, `service` decides, `store` runs SQL,
`cache` talks to Redis. Requests share no memory except the rate limiter's
table; they meet in MySQL and Redis, and between any two calls of one request
other requests may run, a call may fail, or the process may die. Several servers
may run on one database.

| component | state | operations | what is hard | what makes it correct |
| --- | --- | --- | --- | --- |
| task rules (`domain/task*.go`, `role.go`) | none | validate, diff, apply, authorise, close | null against absent fields, trimming | what a patch stores is what it asked for; `closed_at` is set exactly while the status is terminal |
| tasks and history (`service/task.go`, `store/task.go`) | tables `tasks`, `task_history`; one transaction per request | `CreateTask`, `UpdateTask` | decisions taken on a snapshot outside the transaction; versions; row locks; lost acknowledgements; crashes | every change is one atomic edit of the current row, logged with the values it replaced; the version counts the log; only permitted changes are committed |
| task list and cache (`cache/task.go`, `ListTasks`) | Redis: a generation per team, a page per key | `Get`, `Set`, `Invalidate` | Redis fails, restarts empty, evicts; increments are lost; `Set` reads the generation again | a page fits the filter it is found for; it is stale only for a known cause and not for ever |
| teams and roles (`service/teams.go`, `store/team.go`) | tables `teams`, `team_members`; one transaction for creation | `CreateTeam`, `InviteMember`, `ChangeMemberRole` | check, then write without repeating the check; racing invites; 0 affected rows | one owner per team, for good; nobody leaves; roles change by the owner only |
| reads, comments (`service/task.go`, `store/comment.go`) | table `task_comments` | `TaskHistory`, `ListComments`, `AddComment`, `ListTeams` | insert, then read back without a transaction; membership checked in an earlier query | lists are complete; only members see and write |
| statistics (`store/stats.go`) | none | `TeamStats` | figures from different columns; Go's clock writes `closed_at`, MySQL's is compared with it | the figures of one report fit together |
| accounts (`service/auth.go`, `store/user.go`) | table `users` | `Register`, `Login` | racing and repeated registrations; two spellings of one address | one account per address; what clients are told is so |
| rate limiter (`httpapi/ratelimit.go`) | a token bucket per address, under a mutex | `allow`, `collect` | collection of idle buckets; clock readings that are old when used | no address exceeds its rate, none is wrongly refused, and the table does not grow for ever |
| life cycle (`cmd/api/main.go`, `docker-compose.yml`) and migrations (`store.Migrate`) | how far `main` is; the schema, its version, the dirty flag and the lock | start, migrate, serve, shut down, crash, restart | a death between two statements of a migration; two servers migrating; requests that outlast the deadline | no request meets half a schema; a signal ends the process |
| tokens (`auth`), HTTP layer (`httpapi`), configuration (`config`) | none between requests | sign and check, route, decode, log | - | - |

Components interact by calls downwards (`httpapi` to `service` to `store` and
`cache`), by the tables (`team_members` is written by the team operations and
read by every other one) and by the generation in Redis, which the writers of
tasks increment and the readers of lists compare.

## Modules

    TaskRules <-- TaskBoard                  abstract board of tasks
        ^             ^ ImplementsBoard
        +--------- Tasks <-- TaskCache       requests; lists and Redis
                      ^          ^
              TasksProofs   TaskCacheProofs
                      ^
              TasksDecisionsProofs

    TeamRoles  <-- ImplementsTable -- Teams  abstract table; requests
        ^   ^                           ^
        |   TeamRolesProofs         TeamsProofs
        environment of Tasks (its variable member)

    Reads <-- ReadsProofs                    readers over TaskBoard and TeamRoles

    TokenBucket <-- ImplementsTokenBucket -- RateLimiter <-- RateLimiterProofs

    Lifecycle, Accounts <-- Server <-- ServerProofs

**TaskRules** holds the pure functions of `internal/domain` as operators under
their Go names. A *body* is the part of a task that users edit, a function from
the four field names to values; a *row* is a body with team, creator, `closed_at`
and `version`. Texts are elements of the constants `RawTitles` and
`GoodDescriptions`; trimming is the function `TrimSpace`, of which only
idempotence is assumed. JSON `null` and Go's `nil` are `NULL`; a patch is a
function on the fields it sets, so "absent" and "null" stay apart as in
`Optional`.

**TaskBoard** is the specification of the task tables: a member of a team creates
a task with its first history entry, or edits a task of the team atomically as
it is at that moment, and gives it to members only. The table of members is a
variable of it that it never changes.

**Tasks** has one action per call that `CreateTask` and `UpdateTask` make:

| action | code |
| --- | --- |
| `Accept`, `Refuse` | decoding, `ValidateNewTask`, `TaskPatch.Validate`, the empty-patch check |
| `LoadTask`, `LoadActor` | the two queries of `taskForMember`; after the second: version check, `Diff`, `AuthorizeTaskUpdate`, early return of an empty diff |
| `LoadMember` | `membership` in `CreateTask` |
| `CheckAssignee` | `assigneeInTeam`, then `Apply`, `CloseTimestamp` and `time.Now` |
| `UpdateRow`, `InsertTask` | begin of the transaction and its first statement; `UpdateRow` waits for the row lock |
| `WriteHistory` | `insertHistory` and the read-back inside the transaction |
| `Commit`, `CommitUnacknowledged` | commit; commit whose acknowledgement is lost |
| `Invalidate` | the call into the cache and the reply |
| `DbError` | any database call fails; the transaction is rolled back |
| `Crash`, `ChangeMembers`, `Tick` | death and restart, a team request elsewhere (one step of `TeamRoles`), the clock |

A transaction's writes are kept in `tx[p]` and become visible together at the
commit; `Locked` is InnoDB's row lock. An HTTP create carries no status, so a
new task is always `todo` and never closed. The foreign keys take shared locks
on `teams` and `users` rows that no request updates, so they block nobody. In
`CreateTask` the row is read back before the history entry is written, in
`UpdateTask` after; both reads see the transaction's own row and have no effect,
so they are part of the neighbouring action.

**TaskCache** extends `Tasks` by readers and Redis. Pages are kept with the key
they were stored under. Two auxiliary variables tell history: `clean`, that the
generation has not changed since the page was read from MySQL, and `missed`, that
a committed write's increment will never come. A Redis call that takes effect
after the client's 200 ms timeout is a request that was paused before its step;
a disabled cache is one in which every Redis call fails. `Keys` bounds the
generations in the fairness condition by the number of commits that `MaxTasks`
and `MaxVersion` allow.

**TeamRoles** is what `team_members` promises: `CreateTeam`, `Join`, `SetRole`.
`Tasks` uses its next-state relation as environment; **Teams** implements it.
`Teams` has one action per database call of the three operations, including the
commit and the single statements whose result is lost, and the second look of
`UpdateMemberRole` when MySQL reports no changed row. Users exist before the
behaviour starts and are never deleted, as in the code.

**Reads** composes the two abstract specifications: tasks change by `TaskBoard`,
teams by `TeamRoles`. These are proved to be all that can happen there:
`TasksImplementTaskBoard` and `TeamsImplementTeamRoles` say that what requests
commit is a step of the one or the other,
and between any two of their steps requests read, each query a step of its own.
`AddComment`, the one write, has the three steps of its insert and its read-back,
and the insert whose answer is lost. `TeamStats` is one statement, hence one
step. `closed_at` comes from Go's clock and `NOW(6) - INTERVAL 30 DAY` from
MySQL's, so the model lets any instant divide the closed tasks; `IsTop` says what
`ORDER BY ... LIMIT` may return, with any choice among equals. Request fields
named `known` only serve the properties.

**TokenBucket** is what a client may expect of the limiter: a bucket of its own
that fills steadily and is never forgotten. **RateLimiter** is the code:

| action | code |
| --- | --- |
| `Enter` | `allow` up to `lastSeen = time.Now()`, with the mutex |
| `Admit`, `Refuse` | `limiter.Allow()` with its own look at the clock, and the end of `allow` |
| `Sweep` | `collect` for one tick, with the mutex |
| `Stop` | `collect` returns on SIGTERM, while requests are still served |
| `Tick` | time goes on; the ticker's channel holds one tick and drops others |
| `Watch` | an observer begins to count what an address is granted |

A waiter for the mutex has changed nothing yet, so only its holder is in the
state. Tokens are counted in units of time: a request costs `Cost`, the time
between tokens, and a full bucket holds `Capacity`, the time it takes to fill.
Floating-point rounding of `x/time/rate` is left out.

**Lifecycle** is `main` from start to exit. A migration is a number of statements
that MySQL commits one by one; `schema_migrations` holds the version and the dirty
flag, and `GET_LOCK` the lock, which dies with the connection.

| action | code |
| --- | --- |
| `Start` | the container is started; `config.Load`, `NotifyContext` |
| `TakeLock`, `LockTimeout`, `ReadVersion`, `MarkDirty`, `RunStatement`, `MarkClean`, `Migrated` | `store.Migrate` down to the calls of golang-migrate |
| `FailToStart`, `Interrupted` | each `os.Exit(1)` before the server listens; the ping on a cancelled context |
| `Open`, `Listen` | `store.Open` and the rest up to `ListenAndServe` |
| `Signal`, `Shutdown`, `Drained`, `Deadline` | SIGTERM and `srv.Shutdown` with 10 s |
| `CloseStore`, `Exit` | the deferred `Close` calls, and the end of `main` |
| `Die` | kill, crash, a port that is taken |

**Accounts** has one action per statement of `Register` and `Login`: `InsertUser`,
the same insert with a lost answer or with error 1062, `ReadBackUser`, `LookUpUser`
and `LookUpNobody`, `Verify`, `DbError`. Addresses are normalised by
`NormalizeEmail` and compared by `Collate`, under which MySQL's
`utf8mb4_0900_ai_ci` takes different spellings, such as with and without an
accent, for one. `acked` and `known` only serve the properties.

**Server** puts the two together: requests arrive while their server serves, go
on while it drains, may still query until `db.Close`, and are gone with the
process. What they wrote stays.

The `MC...` modules give the constants of the runs.

## Runs

| run | states | question |
| --- | --- | --- |
| `MCTasks` | 136 000 | Two requests race on one task (versions up to 3; close, reopen conditionally, unassign), with role changes, failures and crashes at every step. Is an update ever lost (`ImplementsBoard`, `AcknowledgedEditIsLogged`), the history or version wrong (`HistoryExplainsRow`, `VersionCountsHistory`), a change committed that the actor may not make (`CommitAuthorized`), or that the actor's role of that moment would not allow, though it is no demoted admin (`RightLostByDemotionOnly`)? Is the invariant of the proofs true (`IInv`)? |
| `MCTasksRules` | 87 000 | One request at a time of every kind by owner, assignee and outsider, with a clock of two instants: `TypeOK`, `ClosedMatchesStatus`, `AssigneeIsMember`; and does each do to the board what the rules say, up to the time of closing (`ImplementsBoard`)? |
| `MCTasksLive` | 13 000 | Is every request answered (`EveryRequestAnswered`), though two wait for one lock and every call may fail? |
| `MCTasksNotFound` | violation | Is 404 said of missing and foreign tasks only (`NotFoundMeansForeign`)? No, see below. |
| `MCTaskCache` | 220 000 | One writer, two readers: `StaleOnlyForCause`, and the invariant of the proofs, `CacheIInv`, of which the type invariant is a part. |
| `MCTaskCacheFilters` | 1 289 000 | Two tasks, five requests of which four differ after normalisation: one from the next by status alone, limit alone, offset alone. Is a request answered with the page of another filter (`PageFitsFilter`)? |
| `MCTaskCacheLive` | 39 000 | Is every page in reach true once writes end (`EventuallyFresh`)? |
| `MCTeams` | 61 000 | Two requests of three users: `OwnerIsCreator`, `ImplementsTable`, `RolesChangeByOwner`, `JoinByInvitation`, `RecheckFindsMember`, `ForbiddenIsDeserved`. |
| `MCTeamsTwo` | 302 000 | Two teams, two users: is the invariant of the proofs, with the types in it, true when two creations overlap (`IInv`)? |
| `MCReads` | 666 000 | One reader while a team of two and two tasks come about and change in every way, with a comment: are lists complete (`ReadsAreFresh`), do the figures of a report fit together (`FiguresAgree`), do only members see and comment (`OnlyMembersSee`)? Is the invariant of the proofs true (`ReadsIInv`)? |
| `MCRateLimiter` | 836 000 | Two addresses, bursts of two, a collector that may be late, a mutex held while time passes: `RateNeverExceeded`, `RetryAfterSuffices`, `IdleBucketsGo`, `ImplementsTokenBucket`, and the invariant of the proofs. |
| `MCServer` | 400 000 | Two servers and two migrations, the second of two statements, with deaths anywhere; clients that register and log in under two spellings of one address: `SchemaInOrder`, `ServesWholeSchema`, `AnswersAreTrue`, `RegisteredOnce`, `SignalEnds`, and the invariant of the proofs. |

*Why the bounds are enough.* The conflicts are between two requests on one task
or one membership row; a third process adds nothing that two in turn do not show,
since requests keep no state after their answer. Three versions allow an edit to
be overtaken and the overtaking edit to be overtaken itself. `MaxVersion` and
`MaxTasks` are the limits of the column `version` and of `AUTO_INCREMENT`, with
the error of MySQL when they are reached, so they bound the state space by
something that the program can do. `OnePageAtATime` keeps `MCTaskCacheFilters`
to one page in Redis: a page and a request for another filter are all that a wrong
answer takes, and pages do not affect each other. Symmetry is used in safety runs only; in
`MCReads` the two users have one name, so that it is sound.

One reader is enough in `MCReads`: readers do not affect each other, except by
comments, and another one's comment is one of an earlier request of the same
process. `MaxVersion` 3 and `MaxComments` 1 are limits of the model there; a
closing and a reopening fit into three versions. The clock
of `MCRateLimiter` stops at `MaxTime`, after two ticks and time for a bucket to be
deleted, made anew and drained. In `MCServer` a request is kept by each server, so
two race; `MaxUsers` is `AUTO_INCREMENT` again. `BcryptKey` tells every two
passwords apart there; that bcrypt reads 72 bytes only matters to a login with a
longer password, which `Register` refuses.

*Fairness.* `Fairness` of `Tasks` says that a goroutine keeps running (weak
fairness of `Step(p)`) and that InnoDB hands a row lock to a waiter in the end
(strong fairness of `UpdateRow(p)`, because the lock may be taken and released
while the waiter stands in the queue; InnoDB's lock queue does not starve a
waiter, and `innodb_lock_wait_timeout`, a `DbError`, ends the wait in any case).
Failures and crashes are not fair: nothing relies on them. `ExpiringSpec` of
`TaskCache` assumes only that Redis drops a page when its time to live ends.
`EventuallyFresh` holds because tasks change finitely often in the model: it
says what happens when writes pause. `FairSpec` of `Server` assumes of `main` only
that it goes on: MySQL answers the statements of `Up` or fails them, the timer of
`Shutdown` fires, and deferred calls return. Nothing is assumed of requests, which
may hang for ever: `SignalEnds` is about them.

## The disagreement found

`README.md:80` promises 404 for a foreign team or task. `taskForMember`
(`service/task.go:173-175`) turns *every* error of the membership query into
"not found": a member is told 404 for a task of its own team when the query
fails, where the other operations answer 500. `MCTasksNotFound` shows it in a
few steps: accept, load the task, fail.

Of `README.md:53`, which calls a repeated start safe, `SchemaInOrder` and
`ServesWholeSchema` show what holds: no start runs a migration twice or serves
half a schema. What it does not say is that a server that died within a
migration leaves the schema dirty; every later start then ends in
`ReadVersion`, until somebody repairs it by hand.

## What is proved

Every invariant and every action property of the passing runs is also a
theorem, for every value of the constants that meets the assumptions of the
modules. The names of the theorems follow.

`TasksProofs` begins with lemmas on the rules: `Diff` and `Apply` keep types, a
history that explains a body still explains the edited body after the entry of
`Diff` is appended (`ExplainsEdit`), and the first entry explains a new task
(`ExplainsCreation`). It proves

- `InvariantHolds`: `Spec => []IInv`, and from it
- `TypesHold`: `Spec => []TypeOK`,
- `HistoryIsFaithful`: `Spec => []HistoryExplainsRow`,
- `VersionIsFaithful`: `Spec => []VersionCountsHistory`.

*The argument for Tasks.* `HistoryExplainsRow` is not inductive: the entry that
a commit appends was computed from the snapshot, not from the row. `IInv` adds why they
agree. `SnapshotIsPast`: a snapshot is an earlier state of its row, and equal to
it when the versions are equal, because every commit raises the version by one.
So the comparison in the UPDATE finds the row equal to the snapshot, and from
then on `RowsHeldOnce`, the row lock, keeps it so: `TransactionIsNext` says that
until the commit the row still is the snapshot, and the transaction holds its
successor. For creations, `IdsFresh` says that an id handed out belongs to nobody
else. `Stage` ties what a request keeps to the step it is at. The commit then
appends to a log that explains the row the entry of a `Diff` of that very row,
which is `ExplainsEdit`.

`TasksDecisionsProofs` goes on from there:

- `TasksImplementTaskBoard`: `Spec => ImplementsBoard`, the refinement,
- `CommitsAlwaysAuthorized`: `Spec => CommitAuthorized`,
- `RightsLostByDemotionOnly`: `Spec => RightLostByDemotionOnly`,
- `AcknowledgedIsLogged`, `ClosedAlwaysMatches`, `AssigneeAlwaysMember`:
  `AcknowledgedEditIsLogged`, `ClosedMatchesStatus` and `AssigneeIsMember` always
  hold.

*The argument.* A second invariant, `WritesAreDecided`, stays within the module
of the proofs. It ties what a request keeps to the checks it has passed: the
version matches the snapshot, the changes are allowed by the role that was read,
the closing time follows from the snapshot. So far that says nothing about the
tables, and no other request disturbs it. About the table of members it says two
things that stay true: the people of the request are members, and its actor is the owner
exactly if read as the owner. `IInv` says that at the commit the row is the
snapshot, so what was decided on one is right for the other: the commit is `Edit`
or `Create` of the board (`PublishOnBoard`), and every other step leaves the
tables alone (`OnlyCommitsWrite`). The role may be another by then. Owners neither come nor
go, so it can only have turned from admin into member or from member into admin,
and the second takes no right away (`RightsGrow`): this is
`RightLostByDemotionOnly`. An admin who is made a member between the decision and
the commit does commit an edit that it would no longer be allowed; the code leaves
that open, and so does the property.

`TeamRolesProofs` has lemmas on the steps of the role table: each keeps one owner
to a team (`NextOneOwner`), and the members of it (`NextMembersStay`).
`TeamsProofs` proves of the requests, for any number of processes, users and
teams:

- `InvariantHolds`: `Spec => []IInv`, and from it `TypesHold` (`TypeOK`),
  `OwnerAlwaysCreator` (`OwnerIsCreator`), `RecheckAlwaysFinds`
  (`RecheckFindsMember`);
- `TeamsImplementTeamRoles`: `Spec => ImplementsTable`, the refinement;
- `RolesAlwaysChangeByOwner`: `Spec => RolesChangeByOwner`,
  `MembersAlwaysJoinByInvitation`: `Spec => JoinByInvitation`,
  `ForbiddenAlwaysDeserved`: `Spec => ForbiddenIsDeserved`.

*The argument for Teams.* The writes repeat none of the checks that allowed
them, so a check must stay right however late the write is. `Stage` says which
parts do: an inviter who was a member still is one, an actor who was read as
owner still is the owner (and one who was not still is not), a target that was
read as admin or member still is one of the two. They stay because no step takes
a member out or touches an owner (`NextMembersStay`). For
creations, `Created` and `IdsDistinct` keep every open transaction on a team id
that nobody else holds and whose row does not exist yet, so that its commit is a
`CreateTeam` of the table. What `Stage` does not say is as telling: that the
inviter still may invite, or that the target still has the role that was read,
does not hold in the code. `ForbiddenIsDeserved` needs one more fact, that a
request has no answer while it is being served (`Unanswered`): then the answer
"forbidden" comes from the very step that looked at the target. That step goes
by the actor's role as it was read before, and is right because owners neither
come nor go.

`TaskCacheProofs` proves of the list and its cache, for any number of readers,
writers, filters and pages:

- `CacheImplementsTasks`: `CacheSpec => Spec`, so that all theorems on `Tasks` hold
  under the cache,
- `CacheInvariantHolds`: `CacheSpec => []CacheIInv`, and from it `CacheTypesHold`
  (`CacheTypeOK`), `StaleAlwaysForCause` (`StaleOnlyForCause`) and
  `PagesAlwaysFitFilter` (`PageFitsFilter`).

*The argument for TaskCache.* A page is `clean` while the generation stands where
it was when the page was read. `StaleOnlyForCause` speaks of the pages in reach now;
a page out of reach may come back when Redis restarts and counts from zero, or
when a reader stores it late. So `CleanPagesExcused` says the same of every clean
page under any generation, and `ReaderStage` of a page in a reader's hands: it is
what MySQL would answer, or a committed write owes its increment, or an increment
was lost. A commit brings an excuse for its whole team (`CommitExcuses`) and
leaves the answers of other teams as they are (`WriteOfOneTeam`, `QueryKept`); the
increment that takes the excuse away soils every page of the team, and one that
fails leaves `missed`. For `PageFitsFilter`, `KeysTellApart` says that a key
determines its normalised filter, and `QueryFits` that a query answers its filter.
What it says of the offset has to be true of stale pages too, so it counts the newer
tasks of the whole team rather than those that match the filter: tasks may stop matching,
but they stay in their team (`TasksStay`), so that a page goes on fitting
(`PagesStillFit`).
`Query` picks tasks by their rank in the list: `WindowIsPage` shows that those whose
rank lies in the window of offset and limit make a page in order.

`ReadsProofs` proves of the readers, for any number of them and of teams, users
and tasks:

- `ReadsInvariantHolds`: `ReadsSpec => []ReadsIInv`, and from it `ReadsAlwaysFresh`
  (`ReadsAreFresh`), `OnlyMembersEverSee` (`OnlyMembersSee`) and
  `FiguresAlwaysAgree` (`FiguresAgree`),
- `ReadsImplementTeamRoles`: the table of members there changes as that of
  `TeamRoles` does, which the requests of `Teams` implement.

*The argument for Reads.* Requests look twice and hold nothing in between, which is
safe because the tables only grow (`TablesGrow`): members stay, tasks stay in
their team, histories and comments get longer. So what was known when a request
came is there when it looks (`KnownIsThere`), and whoever was a member when
checked is one when shown the answer (`MayAsk`). `FiguresAgree` rests on
`BoardIsSound`: `closed_at` is set exactly on final statuses, and assignees are
members. That the credits add up to no more than the closed tasks
(`CreditIsCovered`) is a matter of sums: `SumOfCounts` says that counts by group
add up to the count of the whole, whatever order `SumFunctionOnSet` adds them in.
The sum is a recursive function on subsets, so the lemma shows that counting
satisfies its equation and that, by a smallest counterexample, nothing else does.

`RateLimiterProofs` proves of the limiter, for any number of clients and any
rate, burst, period and stall that meet `TimeAssumption`: `InvariantHolds`
(`IInv`), `RateIsNeverExceeded` (`RateNeverExceeded`), `RetryAfterAlwaysSuffices`
(`RetryAfterSuffices`), `IdleBucketsAlwaysGo` (`IdleBucketsGo`), and the refinement
`LimiterImplementsTokenBucket` (`ImplementsTokenBucket`).

*The argument for RateLimiter.* The level that the code computes when asked
(`Level`) is the level that a steady flow would have left, so a tick of the clock
is the `Flow` of the abstract bucket, for all addresses at once. What is left is
deletion: a bucket that goes must be full. `InOrder` says that a bucket was last
used at most `MaxStall` after `lastSeen`, and `Expired` that it was last seen more
than `TTL` before; as `Capacity + MaxStall <= TTL` it is full, and nobody can tell
it from a new one. `WindowPaid` adds what has been granted to what could be
granted at once: the sum grows by no more than time does, which is
`RateNeverExceeded`. For `IdleBucketsGo`, `TickerInOrder` says that no tick is
lost, because the one before is handled within `MaxStall`, and `SweptLately` that
each sweep took what was idle then.

`ServerProofs` proves of servers and accounts, for any number of each:
`InvariantHolds` (`IInv`), `SchemaAlwaysInOrder` (`SchemaInOrder`),
`WholeSchemaAlwaysServed` (`ServesWholeSchema`), `AnswersAlwaysTrue` (`AnswersAreTrue`) and
`AlwaysRegisteredOnce` (`RegisteredOnce`).

*The argument for Server.* `LifeIInv` says that only the holder of the lock is
between `TakeLock` and `Migrated`, and that the version which it read once is
still the version: so the statement it runs next is the next one of the schema,
and nobody has run it. A death frees the lock but leaves the dirty flag, and
`ReadVersion` turns everybody away from then on; this is why `dirty` and the
lock together, and neither alone, keep the schema in order. `AccountIInv` says
that rows never change and never go, that the unique key keeps addresses apart,
and that two requests past their insert hold different rows, each the one that the
request has inserted (`made`, an auxiliary variable) and none of them
acknowledged: the last part makes `RegisteredOnce` a property of single steps.

*Assumptions.* `NULL` is not a user, role, status, text, number, reply or
record; trimming is idempotent and good titles are trimmed; clients send patches
on the four fields; the clock has an instant; the initial table of members is
well-formed. In Teams, `NULL` and `BadEmail` are not users, and `NULL` is no
role, reply or record. In TaskCache, filters are records of the five fields, limit and
offset are integers, and `NULL` is no request. In Reads, `NULL` is no time, row or request, and there are finitely many
task ids. In RateLimiter, `TimeAssumption`: a bucket fills, and a
token comes back, within the period of the ticker and within `Retry-After`, with
`MaxStall` to spare for a goroutine that holds or awaits the mutex (in the code 2 s
and 50 ms, against 10 min and 1 s). In Server: at least one migration, each of at
least one statement; normalised addresses and the good passwords are of the
right kind; every process of requests has a server.

*Only model-checked.* Liveness: `EveryRequestAnswered`, `EventuallyFresh` and
`SignalEnds`, which need fairness and are beyond the prover. `NotFoundMeansForeign`
does not hold, which is for TLC to show. Little needs induction over data: a
history is read by `Leaves` and `Explains`, which quantify over its entries, a
page by ranks, and the one sum is dealt with as said above.

## Not modelled

- Tokens (`auth.Tokens`, `authenticate`), routing, JSON, request ids, logging:
  nothing in the server remembers them. Every module takes the user of a request
  from its token as given.
- Texts, the order of lists, display names; hashes beyond what bcrypt tells apart.
- Configuration, of which only `MYSQL_AUTO_MIGRATE` is a constant of `Lifecycle`. A
  server that does not migrate at its start may be up on any schema, which is why
  `ServesWholeSchema` is about `AutoMigrate`.
- The average time to close: `created_at` is not modelled, so of the average only
  whether there is one.
- The down migrations, which nothing in the server runs, and the repair of a
  dirty schema.
- The rate limiter across restarts and servers: each process has a table of its
  own, so a client may get as many bursts as there are processes and restarts.
- Requests other than those of `Accounts` under the deadline of `Shutdown`: what it
  does to them is `DbError` or `Crash` of their modules.
- `created_at` and `updated_at`, which no decision reads.
- Authority read before a write and revoked in between stays in force for that
  one write: `LoadActor` and `LoadInviter` act on the role as it was.
  `CommitAuthorized` and `JoinByInvitation` say what remains true.
- The 401 of `CreateTeam` for a user whom the token names and the database does not
  know (`service/teams.go:23-25`): users are never deleted. Like the `DbError` of
  `Teams` it would leave the tables as they are.
- A repeated POST creates a second task, comment or team: no request carries a
  key by which a repetition could be recognised.

## Plan

Done: all components with state between requests are modelled and run; every
invariant and action property of the passing runs is proved, with the
refinements `ImplementsBoard`, `ImplementsTable`, `ImplementsTokenBucket`,
`CacheImplementsTasks` and `ReadsImplementTeamRoles`.

Next, in this order:

1. The safety half of the liveness properties, as invariants with proofs: a
   request that waits for a row lock waits for a transaction that can go on
   (`EveryRequestAnswered`); a page that is false has a time to live
   (`EventuallyFresh`); a process that got its signal has its timer
   (`SignalEnds`).
2. That `Reads` refines `TaskBoard`, as a theorem of its own.
