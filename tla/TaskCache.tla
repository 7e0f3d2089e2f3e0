----------------------------- MODULE TaskCache -----------------------------
(***************************************************************************)
(* GET /tasks and internal/cache: lists of tasks kept in Redis under a key *)
(* that holds the team's generation, which every write increments, beside  *)
(* the requests of Tasks that do the writing.                              *)
(*                                                                         *)
(* Service.ListTasks reads the generation, then the page; on a miss it     *)
(* reads MySQL, and TaskCache.Set reads the generation AGAIN before it     *)
(* stores the page.  Every call to Redis may fail, and the list is then    *)
(* answered from MySQL.                                                    *)
(***************************************************************************)
EXTENDS Tasks

CONSTANTS
    Readers,                    \* the goroutines that serve lists
    Filters,                    \* the filters that clients send
    DefaultLimit, MaxLimit

ASSUME FilterAssumption ==
    /\ DefaultLimit \in Nat /\ MaxLimit \in Nat
    /\ \A f \in Filters :
         /\ DOMAIN f = {"team", "status", "assignee", "limit", "offset"}
         /\ f.team \in Teams /\ f.limit \in Int /\ f.offset \in Int

VARIABLES
    generation, \* generation[t]: the key tasks:gen:<t>, 0 when it is absent
    entries,    \* the pages in Redis, records [key, page, clean]
    lpc,        \* lpc[r]: the call that reader r makes next
    list,       \* list[r]: its request [actor, filter], or NULL
    lgen,       \* lgen[r]: the generation it read last, or NULL
    lpage,      \* lpage[r]: the page it read from MySQL, or NULL
    lclean,     \* lclean[r]: auxiliary, see below
    missed      \* missed[t]: auxiliary, see below

(***************************************************************************)
(* Two auxiliary variables tell stories that no state of the program does: *)
(* clean, of a page, that the generation of its team has not changed since *)
(* the page was read from MySQL; missed, of a team, that a write to it was *)
(* committed whose increment will never come, since the generation changed *)
(* last.                                                                   *)
(***************************************************************************)
readerVars == <<lpc, list, lgen, lpage, lclean>>
cacheVars == <<generation, entries, readerVars, missed>>
allVars == <<vars, cacheVars>>

-----------------------------------------------------------------------------
NormalizeLimit(limit) ==
    IF limit <= 0 THEN DefaultLimit
    ELSE IF limit > MaxLimit THEN MaxLimit
    ELSE limit

NormalizeOffset(offset) == IF offset < 0 THEN 0 ELSE offset

Normalize(f) == [f EXCEPT !.limit = NormalizeLimit(@), !.offset = NormalizeOffset(@)]

ValidFilter(f) == f.status \in Statuses \cup {NULL}

NormalFilters == {Normalize(f) : f \in {g \in Filters : ValidFilter(g)}}

ListRequests == [actor : Users, filter : NormalFilters]

ASSUME NoListAssumption == NULL \notin ListRequests

Matches(row, f) ==
    /\ row.team = f.team
    /\ f.status # NULL => row.body["status"] = f.status
    /\ f.assignee # NULL => row.body["assignee_id"] = f.assignee

\* Store.ListTasks: WHERE ... ORDER BY id DESC LIMIT ? OFFSET ?
Query(f) ==
    LET found == {id \in TaskIds : tasks[id] # NULL /\ Matches(tasks[id], f)}
        above(id) == Cardinality({other \in found : other > id})
        chosen == {id \in found : above(id) >= f.offset /\ above(id) < f.offset + f.limit}
    IN  [n \in 1..Cardinality(chosen) |->
           LET id == CHOOSE i \in chosen : above(i) = f.offset + n - 1
           IN  [id |-> id, row |-> tasks[id]]]

\* Mutants: the key of a page forgets the status, the limit or the offset.
KeyWithoutStatus(f, gen) == <<f.team, gen, NULL, f.assignee, f.limit, f.offset>>
KeyWithoutLimit(f, gen) == <<f.team, gen, f.status, f.assignee, NULL, f.offset>>
KeyWithoutOffset(f, gen) == <<f.team, gen, f.status, f.assignee, f.limit, NULL>>

\* listKey: the components of the key, of which the string is a faithful
\* rendering once the status is known to be valid.
Key(f, gen) == <<f.team, gen, f.status, f.assignee, f.limit, f.offset>>

TeamOf(key) == key[1]

InitCache ==
    /\ generation = [t \in Teams |-> 0]
    /\ entries = {}
    /\ lpc = [r \in Readers |-> "idle"]
    /\ list = [r \in Readers |-> NULL]
    /\ lgen = [r \in Readers |-> NULL]
    /\ lpage = [r \in Readers |-> NULL]
    /\ lclean = [r \in Readers |-> FALSE]
    /\ missed = [t \in Teams |-> FALSE]

CacheInit == Init /\ InitCache

-----------------------------------------------------------------------------
(* The list request, one action for every call. *)

FilterOf(r) == list[r].filter

LGoTo(r, step) == lpc' = [lpc EXCEPT ![r] = step]

\* The reader answers; what it knew is gone.
LAnswer(r) ==
    /\ LGoTo(r, "idle")
    /\ list' = [list EXCEPT ![r] = NULL]
    /\ lgen' = [lgen EXCEPT ![r] = NULL]
    /\ lpage' = [lpage EXCEPT ![r] = NULL]
    /\ lclean' = [lclean EXCEPT ![r] = FALSE]

\* A list request with an unknown status is refused at once and leaves no
\* trace; any other is normalised.
StartList(r, actor, f) ==
    /\ lpc[r] = "idle"
    /\ ValidFilter(f)
    /\ LGoTo(r, "member")
    /\ list' = [list EXCEPT ![r] = [actor |-> actor, filter |-> Normalize(f)]]
    /\ UNCHANGED <<vars, generation, entries, lgen, lpage, lclean, missed>>

ListMembership(r) ==
    /\ lpc[r] = "member"
    /\ IF Membership(FilterOf(r).team, list[r].actor) = NULL
       THEN LAnswer(r)
       ELSE LGoTo(r, "generation") /\ UNCHANGED <<list, lgen, lpage, lclean>>
    /\ UNCHANGED <<vars, generation, entries, missed>>

\* TaskCache.Get, first call.
GetGeneration(r) ==
    /\ lpc[r] = "generation"
    /\ lgen' = [lgen EXCEPT ![r] = generation[FilterOf(r).team]]
    /\ LGoTo(r, "page")
    /\ UNCHANGED <<vars, generation, entries, list, lpage, lclean, missed>>

\* TaskCache.Get, second call: a hit answers the request.
GetPage(r) ==
    /\ lpc[r] = "page"
    /\ IF \E e \in entries : e.key = Key(FilterOf(r), lgen[r])
       THEN LAnswer(r)
       ELSE LGoTo(r, "select") /\ UNCHANGED <<list, lgen, lpage, lclean>>
    /\ UNCHANGED <<vars, generation, entries, missed>>

\* Get gives up on an error of Redis: the request goes on as after a miss.
GetFails(r) ==
    /\ lpc[r] \in {"generation", "page"}
    /\ LGoTo(r, "select")
    /\ UNCHANGED <<vars, generation, entries, list, lgen, lpage, lclean, missed>>

SelectTasks(r) ==
    /\ lpc[r] = "select"
    /\ lpage' = [lpage EXCEPT ![r] = Query(FilterOf(r))]
    /\ lclean' = [lclean EXCEPT ![r] = TRUE]
    /\ lgen' = [lgen EXCEPT ![r] = NULL]
    /\ LGoTo(r, "regeneration")
    /\ UNCHANGED <<vars, generation, entries, list, missed>>

\* TaskCache.Set, first call.
GetGenerationAgain(r) ==
    /\ lpc[r] = "regeneration"
    /\ lgen' = [lgen EXCEPT ![r] = generation[FilterOf(r).team]]
    /\ LGoTo(r, "set")
    /\ UNCHANGED <<vars, generation, entries, list, lpage, lclean, missed>>

\* TaskCache.Set, second call.
SetPage(r) ==
    /\ lpc[r] = "set"
    /\ LET key == Key(FilterOf(r), lgen[r])
       IN  entries' = {e \in entries : e.key # key}
                        \cup {[key |-> key, page |-> lpage[r], clean |-> lclean[r]]}
    /\ LAnswer(r)
    /\ UNCHANGED <<vars, generation, missed>>

\* Set gives up on an error of Redis; the page is answered all the same.
SetFails(r) ==
    /\ lpc[r] \in {"regeneration", "set"}
    /\ LAnswer(r)
    /\ UNCHANGED <<vars, generation, entries, missed>>

\* Mutant: a failed query is taken for a page, and stored.
ErrorIsPage(r) ==
    /\ lpc[r] = "select"
    /\ LGoTo(r, "regeneration")
    /\ UNCHANGED <<vars, generation, entries, list, lgen, lpage, lclean, missed>>

ListDbError(r) ==
    /\ lpc[r] \in {"member", "select"}
    /\ LAnswer(r)
    /\ UNCHANGED <<vars, generation, entries, missed>>

-----------------------------------------------------------------------------
(* Redis, and the writers' side of the cache. *)

\* The generation of team t changes: no page of it is clean any longer.
NewGeneration(t, gen) ==
    /\ generation' = [generation EXCEPT ![t] = gen]
    /\ lclean' = [r \in Readers |->
                    lclean[r] /\ ~(list[r] # NULL /\ FilterOf(r).team = t)]
    /\ missed' = [missed EXCEPT ![t] = FALSE]

Soiled(es, t) ==
    {[e EXCEPT !.clean = @ /\ TeamOf(e.key) # t] : e \in es}

\* Mutant: an update invalidates nothing.
InvalidateNothing(p) == Invalidate(p) /\ UNCHANGED cacheVars

\* TaskCache.Invalidate after a commit: INCR tasks:gen:<team>.
InvalidateCache(p) ==
    LET t == TargetTeam(p)
    IN  /\ Invalidate(p)
        /\ NewGeneration(t, generation[t] + 1)
        /\ entries' = Soiled(entries, t)
        /\ UNCHANGED <<lpc, list, lgen, lpage>>

Miss(lost) == missed' = [t \in Teams |-> missed[t] \/ t \in lost]

\* INCR fails, or the context of the request is cancelled before it is sent.
InvalidateFails(p) ==
    /\ Invalidate(p)
    /\ Miss({TargetTeam(p)})
    /\ UNCHANGED <<generation, entries, readerVars>>

CommitWithoutInvalidate(p) ==
    /\ CommitUnacknowledged(p)
    /\ Miss({TargetTeam(p)})
    /\ UNCHANGED <<generation, entries, readerVars>>

\* The server dies between a commit and its increment, or elsewhere.
CrashAll ==
    /\ \/ Crash
       \/ /\ \A p \in Procs : pc[p] = "idle"
          /\ \E r \in Readers : lpc[r] # "idle"
          /\ UNCHANGED vars
    /\ Miss({TargetTeam(p) : p \in {q \in Procs : pc[q] = "invalidate" /\ pc'[q] = "idle"}})
    /\ lpc' = [r \in Readers |-> "idle"]
    /\ list' = [r \in Readers |-> NULL]
    /\ lgen' = [r \in Readers |-> NULL]
    /\ lpage' = [r \in Readers |-> NULL]
    /\ lclean' = [r \in Readers |-> FALSE]
    /\ UNCHANGED <<generation, entries>>

\* Mutant: SET without an expiry.
NeverExpire(key) == FALSE

\* The time to live of a page ends, or Redis evicts it.
Expire(key) ==
    /\ \E e \in entries : e.key = key
    /\ entries' = {e \in entries : e.key # key}
    /\ UNCHANGED <<vars, generation, readerVars, missed>>

\* Redis keeps nothing on disk (docker-compose.yml: --save "" --appendonly no).
RedisRestart ==
    /\ entries # {} \/ \E t \in Teams : generation[t] # 0
    /\ generation' = [t \in Teams |-> 0]
    /\ entries' = {}
    /\ lclean' = [r \in Readers |-> FALSE]
    /\ missed' = [t \in Teams |-> FALSE]
    /\ UNCHANGED <<vars, lpc, list, lgen, lpage>>

-----------------------------------------------------------------------------
Read(r) ==
    \/ ListMembership(r)
    \/ GetGeneration(r)
    \/ GetPage(r)
    \/ SelectTasks(r)
    \/ GetGenerationAgain(r)
    \/ SetPage(r)

ReaderNext(r) ==
    \/ \E actor \in Users, f \in Filters : StartList(r, actor, f)
    \/ Read(r)
    \/ GetFails(r)
    \/ SetFails(r)
    \/ ListDbError(r)

WriterNext(p) ==
    \/ (Receive(p) \/ Handle(p) \/ DbError(p)) /\ UNCHANGED cacheVars
    \/ CommitWithoutInvalidate(p)
    \/ InvalidateCache(p)
    \/ InvalidateFails(p)

CacheNext ==
    \/ \E p \in Procs : WriterNext(p)
    \/ \E r \in Readers : ReaderNext(r)
    \/ (ChangeMembers \/ Tick) /\ UNCHANGED cacheVars
    \/ CrashAll
    \/ \E key \in {e.key : e \in entries} : Expire(key)
    \/ RedisRestart

CacheSpec == CacheInit /\ [][CacheNext]_allVars

\* The keys under which pages can be stored while tasks change a bounded
\* number of times.
Keys == {Key(f, gen) : f \in NormalFilters, gen \in 0..(MaxTasks * MaxVersion)}

\* Nobody need make a move, but Redis drops a page in the end.
ExpiringSpec == CacheSpec /\ \A key \in Keys : WF_allVars(Expire(key))

-----------------------------------------------------------------------------
(* Properties. *)

Pages == Seq([id : TaskIds, row : TaskRows])

LSteps == {"idle", "member", "generation", "page", "select", "regeneration", "set"}

CacheTypeOK ==
    /\ generation \in [Teams -> Nat]
    /\ \A e \in entries :
         /\ DOMAIN e = {"key", "page", "clean"}
         /\ \E f \in NormalFilters : e.key = Key(f, e.key[2])
         /\ e.key[2] \in Nat
         /\ e.page \in Pages
         /\ e.clean \in BOOLEAN
    /\ lpc \in [Readers -> LSteps]
    /\ list \in [Readers -> ListRequests \cup {NULL}]
    /\ lgen \in [Readers -> Nat \cup {NULL}]
    /\ lpage \in [Readers -> Pages \cup {NULL}]
    /\ lclean \in [Readers -> BOOLEAN]
    /\ missed \in [Teams -> BOOLEAN]

\* A write to team t is committed and its increment is still to come.
Owed(t) == \E p \in Procs : pc[p] = "invalidate" /\ TargetTeam(p) = t

\* The page is what MySQL would answer, or there is a cause that it is not.
Excused(page, f) ==
    \/ page = Query(f)
    \/ Owed(f.team)
    \/ missed[f.team]

\* A page that a request would be answered with now differs from the
\* database for one of three reasons only: a write has yet to increment the
\* generation, an increment was lost, or the page was read from MySQL before
\* the generation changed and stored after it, because TaskCache.Set reads
\* the generation again.
StaleOnlyForCause ==
    \A f \in NormalFilters : \A e \in entries :
      (e.key = Key(f, generation[f.team]) /\ e.clean) => Excused(e.page, f)

\* The tasks of a team that are newer than task id; they only ever get more.
Newer(id, team) ==
    {n \in TaskIds : n > id /\ tasks[n] # NULL /\ tasks[n].team = team}

\* The page answers filter f, be it of today or of old: it holds no more rows
\* than the limit, all as the filter asks, newest first, and the team has
\* enough newer tasks for the ones that the offset skips.
Fits(page, f) ==
    /\ Len(page) <= f.limit
    /\ \A i \in DOMAIN page :
         /\ Matches(page[i].row, f)
         /\ Cardinality(Newer(page[i].id, f.team)) >= f.offset + i - 1
    /\ \A i, j \in DOMAIN page : i < j => page[i].id > page[j].id

\* A page answers no request but those for the filter it was made for, even
\* when it is stale: listKey tells filters apart by their status, limit and
\* offset, once they are normalised.
PageFitsFilter ==
    \A f \in NormalFilters : \A e \in entries :
      e.key = Key(f, e.key[2]) => Fits(e.page, f)

\* Once tasks no longer change, every page that requests are answered with is
\* true in the end: whatever was lost or raced, the time to live mends it.
EventuallyFresh ==
    <>[](\A f \in NormalFilters : \A e \in entries :
           e.key = Key(f, generation[f.team]) => e.page = Query(f))

-----------------------------------------------------------------------------
(* The inductive invariant behind the properties of the pages. *)

\* What a reader keeps at each call of its request, and that a page it read
\* has an excuse as long as the generation has not moved.
ReaderStage(r) ==
    /\ lpc[r] # "idle" => list[r] # NULL
    /\ lpc[r] \in {"page", "set"} => lgen[r] \in Nat
    /\ lpc[r] \in {"regeneration", "set"} =>
         lpage[r] \in Pages /\ Fits(lpage[r], FilterOf(r))
    /\ lclean[r] => /\ lpc[r] \in {"regeneration", "set"}
                    /\ Excused(lpage[r], FilterOf(r))

\* Whatever generation a page is stored under: a clean page may come into
\* reach, by a restart of Redis or a late increment, only if it is gone or
\* soiled by then.
CleanPagesExcused ==
    \A f \in NormalFilters : \A e \in entries :
      (e.key = Key(f, e.key[2]) /\ e.clean) => Excused(e.page, f)

CacheIInv ==
    /\ IInv
    /\ CacheTypeOK
    /\ \A r \in Readers : ReaderStage(r)
    /\ PageFitsFilter
    /\ CleanPagesExcused
=============================================================================
