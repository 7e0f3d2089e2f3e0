-------------------------- MODULE TaskCacheProofs --------------------------
(***************************************************************************)
(* Proofs about TaskCache: its invariant CacheIInv is inductive, so a page *)
(* is stale only for a known cause and answers only the filter that it was *)
(* read for, whatever calls to Redis fail, race or are lost.  First what   *)
(* the SELECT of Store.ListTasks returns.                                  *)
(***************************************************************************)
EXTENDS TaskCache, TasksDecisionsProofs, FiniteSetTheorems, FunctionTheorems

Found(f) == {id \in TaskIds : tasks[id] # NULL /\ Matches(tasks[id], f)}
Above(S, id) == Cardinality({other \in S : other > id})
Window(S, offset, limit) ==
    {id \in S : Above(S, id) >= offset /\ Above(S, id) < offset + limit}

-----------------------------------------------------------------------------
(* ORDER BY id DESC LIMIT ? OFFSET ? *)

\* Counting the greater ids numbers the ids of a set, the greatest first.
LEMMA AboveIsRank ==
    ASSUME NEW S \in SUBSET TaskIds
    PROVE  /\ IsFiniteSet(S)
           /\ \A id \in S : Above(S, id) \in 0..(Cardinality(S) - 1)
           /\ \A i, j \in S : i < j => Above(S, j) < Above(S, i)
           /\ \A n \in 0..(Cardinality(S) - 1) : \E id \in S : Above(S, id) = n
<1> DEFINE Greater(id) == {other \in S : other > id}
           N == Cardinality(S)
           rank == [id \in S |-> Above(S, id)]
<1>1. S \subseteq Int /\ IsFiniteSet(S) /\ N \in Nat
  <2>1. IsFiniteSet(TaskIds) /\ TaskIds \subseteq Int
    BY BoundAssumption, FS_Interval DEF TaskIds
  <2> QED
    BY <2>1, FS_Subset, FS_CardinalityType
<1>2. ASSUME NEW T \in SUBSET S
      PROVE  IsFiniteSet(T) /\ Cardinality(T) \in Nat
  BY <1>1, FS_Subset, FS_CardinalityType
<1>3. ASSUME NEW T \in SUBSET S, NEW U \in SUBSET T, U # T
      PROVE  Cardinality(U) < Cardinality(T)
  <2>1. Cardinality(U) <= Cardinality(T) /\ Cardinality(U) # Cardinality(T)
    BY <1>2, <1>3, FS_Subset
  <2> QED
    BY <1>2, <2>1
<1>4. ASSUME NEW id \in S PROVE Above(S, id) \in 0..(N - 1)
  <2>1. Greater(id) \in SUBSET S /\ Greater(id) # S
    BY <1>1
  <2>2. Cardinality(Greater(id)) \in Nat /\ Cardinality(Greater(id)) < N
    BY <1>2, <1>3, <2>1
  <2> QED
    BY <1>1, <2>2 DEF Above
<1>5. ASSUME NEW i \in S, NEW j \in S, i < j PROVE Above(S, j) < Above(S, i)
  <2>1. Greater(i) \in SUBSET S
    OBVIOUS
  <2>2. Greater(j) \in SUBSET Greater(i)
    <3>1. ASSUME NEW o \in S, o > j PROVE o > i
      <4>1. o \in Int /\ i \in Int /\ j \in Int
        BY <1>1
      <4> QED
        BY <1>5, <3>1, <4>1
    <3> QED
      BY <3>1
  <2>3. j \in Greater(i) /\ j \notin Greater(j)
    BY <1>1, <1>5
  <2>4. Cardinality(Greater(j)) < Cardinality(Greater(i))
    BY <1>3, <2>1, <2>2, <2>3
  <2> QED
    BY <2>4 DEF Above
<1>6. IsFiniteSet(0..(N - 1)) /\ Cardinality(0..(N - 1)) = N
  BY <1>1, FS_Interval
<1>7. rank \in Injection(S, 0..(N - 1))
  <2>1. rank \in [S -> 0..(N - 1)]
    BY <1>4
  <2>2. ASSUME NEW i \in S, NEW j \in S, rank[i] = rank[j] PROVE i = j
    <3>1. ~(i < j) /\ ~(j < i)
      BY <1>1, <1>4, <1>5, <2>2
    <3> QED
      BY <1>1, <3>1
  <2> QED
    BY <2>1, <2>2, Fun_IsInj
<1>8. rank \in Surjection(S, 0..(N - 1))
  BY <1>1, <1>6, <1>7, FS_Injection
<1>9. ASSUME NEW n \in 0..(N - 1) PROVE \E id \in S : Above(S, id) = n
  <2>1. PICK id \in S : rank[id] = n
    BY <1>8, <1>9 DEF Surjection
  <2> QED
    BY <2>1
<1> QED
  BY <1>1, <1>4, <1>5, <1>9

\* A window of the numbered ids is full to its last place or ends with them.
LEMMA WindowIsPage ==
    ASSUME NEW S \in SUBSET TaskIds, NEW offset \in Nat, NEW limit \in Nat
    PROVE  LET W == Window(S, offset, limit) IN
           /\ Cardinality(W) \in Nat /\ Cardinality(W) <= limit
           /\ \A n \in 1..Cardinality(W) :
                \E id \in W : Above(S, id) = offset + n - 1
<1> DEFINE W == Window(S, offset, limit)
           N == Cardinality(S)
           last == IF offset + limit <= N THEN offset + limit - 1 ELSE N - 1
           T == offset..last
           rank == [id \in W |-> Above(S, id)]
<1>1. /\ N \in Nat /\ last \in Int /\ last < offset + limit /\ last <= N - 1
      /\ \A n \in 0..(N - 1) : n < offset + limit => n <= last
  <2>1. N \in Nat
    BY AboveIsRank, FS_CardinalityType
  <2> QED
    BY <2>1
<1>2. W \subseteq S /\ S \subseteq Int /\ IsFiniteSet(W) /\ Cardinality(W) \in Nat
  <2>1. W \subseteq S /\ S \subseteq Int
    BY BoundAssumption DEF Window, TaskIds
  <2> QED
    BY <2>1, AboveIsRank, FS_Subset, FS_CardinalityType
<1> HIDE DEF last
<1>3. IsFiniteSet(T) /\ Cardinality(T) = IF offset > last THEN 0 ELSE last - offset + 1
  <2>1. offset \in Int /\ last \in Int
    BY <1>1
  <2> QED
    BY <2>1, FS_Interval
<1>4. rank \in [W -> T]
  <2>1. ASSUME NEW id \in W PROVE Above(S, id) \in T
    <3>1. Above(S, id) \in 0..(N - 1) /\ Above(S, id) >= offset /\ Above(S, id) < offset + limit
      BY AboveIsRank DEF Window
    <3> QED
      BY <1>1, <3>1
  <2> QED
    BY <2>1
<1>5. rank \in Injection(W, T)
  <2>1. ASSUME NEW i \in W, NEW j \in W, rank[i] = rank[j] PROVE i = j
    <3>1. i \in S /\ j \in S /\ i \in Int /\ j \in Int
      BY <1>2
    <3>2. Above(S, i) = Above(S, j) /\ Above(S, i) \in Int
      BY <2>1, <3>1, AboveIsRank
    <3> QED
      BY <3>1, <3>2, AboveIsRank
  <2> QED
    BY <1>4, <2>1, Fun_IsInj
<1>6. rank \in Surjection(W, T)
  <2>1. ASSUME NEW n \in T PROVE \E id \in W : rank[id] = n
    <3>1. n \in 0..(N - 1) /\ n >= offset /\ n < offset + limit
      BY <1>1
    <3>2. PICK id \in S : Above(S, id) = n
      BY <3>1, AboveIsRank
    <3> QED
      BY <3>1, <3>2 DEF Window
  <2> QED
    BY <1>4, <2>1, Fun_IsSurj
<1>7. Cardinality(W) = Cardinality(T)
  BY <1>3, <1>5, <1>6, FS_Injection
<1>8. Cardinality(W) <= limit
  BY <1>1, <1>3, <1>7
<1>9. ASSUME NEW n \in 1..Cardinality(W)
      PROVE  \E id \in W : Above(S, id) = offset + n - 1
  <2>1. offset + n - 1 \in T
    BY <1>1, <1>2, <1>3, <1>7, <1>9
  <2>2. PICK id \in W : rank[id] = offset + n - 1
    BY <1>6, <2>1 DEF Surjection
  <2> QED
    BY <2>2
<1> QED
  BY <1>2, <1>8, <1>9

-----------------------------------------------------------------------------
(* Filters, keys and pages. *)

\* A filter once normalised selects a window of the tasks of a team.
LEMMA FilterType ==
    ASSUME NEW f \in NormalFilters
    PROVE  /\ DOMAIN f = {"team", "status", "assignee", "limit", "offset"}
           /\ f = [x \in DOMAIN f |-> f[x]]
           /\ f.team \in Teams /\ f.limit \in Nat /\ f.offset \in Nat
<1>1. PICK g \in Filters : f = Normalize(g)
  BY DEF NormalFilters
<1>2. /\ DOMAIN g = {"team", "status", "assignee", "limit", "offset"}
      /\ g.team \in Teams /\ g.limit \in Int /\ g.offset \in Int
      /\ DefaultLimit \in Nat /\ MaxLimit \in Nat
  BY FilterAssumption
<1>3. NormalizeLimit(g.limit) \in Nat /\ NormalizeOffset(g.offset) \in Nat
  BY <1>2 DEF NormalizeLimit, NormalizeOffset
<1>4. f = [g EXCEPT !.limit = NormalizeLimit(g.limit), !.offset = NormalizeOffset(g.offset)]
  BY <1>1 DEF Normalize
<1>5. DOMAIN f = DOMAIN g /\ f = [x \in DOMAIN f |-> f[x]]
  BY <1>4
<1>6. f.team = g.team /\ f.limit = NormalizeLimit(g.limit) /\ f.offset = NormalizeOffset(g.offset)
  BY <1>2, <1>4
<1> QED
  BY <1>2, <1>3, <1>5, <1>6

\* listKey tells filters and generations apart.
LEMMA KeysTellApart ==
    ASSUME NEW f \in NormalFilters, NEW g \in NormalFilters, NEW m, NEW n,
           Key(f, m) = Key(g, n)
    PROVE  f = g /\ m = n
<1>1. /\ f.team = g.team /\ m = n /\ f.status = g.status /\ f.assignee = g.assignee
      /\ f.limit = g.limit /\ f.offset = g.offset
  BY DEF Key
<1>2. DOMAIN f = DOMAIN g /\ \A x \in DOMAIN f : f[x] = g[x]
  BY <1>1, FilterType
<1> QED
  BY <1>1, <1>2, FilterType

\* The task that Query lists at place n.
Listed(f, n) ==
    LET W == Window(Found(f), f.offset, f.limit)
    IN  CHOOSE i \in W : Above(Found(f), i) = f.offset + n - 1

PageLength(f) == Cardinality(Window(Found(f), f.offset, f.limit))

LEMMA QueryLists ==
    ASSUME NEW f
    PROVE  Query(f) = [n \in 1..PageLength(f) |->
                         [id |-> Listed(f, n), row |-> tasks[Listed(f, n)]]]
BY DEF Query, Listed, PageLength, Found, Window, Above

LEMMA ListedIsFound ==
    ASSUME NEW f \in NormalFilters
    PROVE  /\ PageLength(f) \in Nat /\ PageLength(f) <= f.limit
           /\ \A n \in 1..PageLength(f) :
                /\ Listed(f, n) \in Found(f)
                /\ Above(Found(f), Listed(f, n)) = f.offset + n - 1
<1> DEFINE W == Window(Found(f), f.offset, f.limit)
<1>1. Found(f) \in SUBSET TaskIds /\ f.offset \in Nat /\ f.limit \in Nat
  BY FilterType DEF Found
<1>2. /\ PageLength(f) \in Nat /\ PageLength(f) <= f.limit
      /\ \A n \in 1..PageLength(f) :
           \E id \in W : Above(Found(f), id) = f.offset + n - 1
  BY <1>1, WindowIsPage DEF PageLength
<1>3. W \subseteq Found(f)
  BY DEF Window
<1> QED
  BY <1>2, <1>3 DEF Listed

\* The newer tasks of a team are finitely many, and no fewer than those of
\* them that a filter finds.
LEMMA NewerIsFinite ==
    ASSUME NEW id, NEW t
    PROVE  IsFiniteSet(Newer(id, t)) /\ Cardinality(Newer(id, t)) \in Nat
<1>1. IsFiniteSet(TaskIds)
  BY BoundAssumption, FS_Interval DEF TaskIds
<1>2. Newer(id, t) \in SUBSET TaskIds
  BY DEF Newer
<1> QED
  BY <1>1, <1>2, FS_Subset, FS_CardinalityType

LEMMA FoundAreNewer ==
    ASSUME NEW f, NEW id
    PROVE  Cardinality(Newer(id, f.team)) >= Above(Found(f), id)
<1>1. {other \in Found(f) : other > id} \in SUBSET Newer(id, f.team)
  BY DEF Found, Newer, Matches
<1> QED
  BY <1>1, NewerIsFinite, FS_Subset, FS_CardinalityType DEF Above

\* Store.ListTasks returns no more rows than the limit, all as the filter
\* asks, with descending ids, from the place that the offset says.
LEMMA QueryFits ==
    ASSUME TypeOK, NEW f \in NormalFilters
    PROVE  Query(f) \in Pages /\ Fits(Query(f), f)
<1> DEFINE page == Query(f)
<1>1. /\ PageLength(f) \in Nat /\ PageLength(f) <= f.limit
      /\ page = [n \in 1..PageLength(f) |->
                   [id |-> Listed(f, n), row |-> tasks[Listed(f, n)]]]
  BY QueryLists, ListedIsFound
<1>2. ASSUME NEW n \in 1..PageLength(f)
      PROVE  /\ Listed(f, n) \in TaskIds
             /\ tasks[Listed(f, n)] \in TaskRows
             /\ Matches(tasks[Listed(f, n)], f)
  BY ListedIsFound DEF Found, TypeOK
<1> HIDE DEF page
<1>3. page \in Pages
  <2> DEFINE Items == [id : TaskIds, row : TaskRows]
  <2>1. ASSUME NEW n \in 1..PageLength(f) PROVE page[n] \in Items
    BY <1>1, <1>2
  <2>2. page \in [1..PageLength(f) -> Items]
    BY <1>1, <2>1
  <2> HIDE DEF Items
  <2>3. page \in Seq(Items)
    BY <1>1, <2>2
  <2> QED
    BY <2>3 DEF Pages, Items
<1>4. Len(page) = PageLength(f) /\ DOMAIN page = 1..PageLength(f)
  BY <1>1
<1>5. ASSUME NEW i \in DOMAIN page
      PROVE  /\ Matches(page[i].row, f)
             /\ Cardinality(Newer(page[i].id, f.team)) >= f.offset + i - 1
  <2>1. page[i].id = Listed(f, i) /\ page[i].row = tasks[Listed(f, i)]
    BY <1>1, <1>4
  <2>2. Above(Found(f), Listed(f, i)) = f.offset + i - 1
    BY <1>4, ListedIsFound
  <2>3. Cardinality(Newer(Listed(f, i), f.team)) >= Above(Found(f), Listed(f, i))
    BY FoundAreNewer
  <2> QED
    BY <1>2, <1>4, <2>1, <2>2, <2>3
<1>6. ASSUME NEW i \in DOMAIN page, NEW j \in DOMAIN page, i < j
      PROVE  page[i].id > page[j].id
  <2>1. page[i].id = Listed(f, i) /\ page[j].id = Listed(f, j) /\ i \in Int /\ j \in Int
    BY <1>1, <1>4
  <2>2. /\ Listed(f, i) \in Found(f) /\ Listed(f, j) \in Found(f)
        /\ Above(Found(f), Listed(f, i)) = f.offset + i - 1
        /\ Above(Found(f), Listed(f, j)) = f.offset + j - 1
    BY <1>4, ListedIsFound
  <2>3. Above(Found(f), Listed(f, i)) < Above(Found(f), Listed(f, j))
    BY <1>6, <2>1, <2>2, FilterType
  <2>4. /\ Found(f) \in SUBSET TaskIds
        /\ Listed(f, i) \in Int /\ Listed(f, j) \in Int
    BY <2>2, BoundAssumption DEF Found, TaskIds
  <2>5. /\ Listed(f, i) < Listed(f, j) =>
             Above(Found(f), Listed(f, j)) < Above(Found(f), Listed(f, i))
        /\ Above(Found(f), Listed(f, i)) \in Int /\ Above(Found(f), Listed(f, j)) \in Int
    <3>1. /\ \A a, b \in Found(f) : a < b => Above(Found(f), b) < Above(Found(f), a)
          /\ \A a \in Found(f) : Above(Found(f), a) \in 0..(Cardinality(Found(f)) - 1)
      BY <2>4, AboveIsRank
    <3> QED
      BY <2>2, <3>1
  <2>6. ~(Listed(f, i) < Listed(f, j)) /\ Listed(f, i) # Listed(f, j)
    BY <2>3, <2>5
  <2> QED
    BY <2>1, <2>4, <2>6
<1> QED
  BY <1>1, <1>3, <1>4, <1>5, <1>6 DEF Fits, page

\* A write that touches no task of the filter changes nothing in its list.
LEMMA QueryKept ==
    ASSUME NEW f \in NormalFilters, Found(f)' = Found(f),
           \A id \in Found(f) : tasks'[id] = tasks[id]
    PROVE  Query(f)' = Query(f)
<1>1. PageLength(f)' = PageLength(f) /\ \A n : Listed(f, n)' = Listed(f, n)
  BY DEF PageLength, Listed
<1>2. \A n \in 1..PageLength(f) : tasks'[Listed(f, n)] = tasks[Listed(f, n)]
  BY ListedIsFound
<1>3. Query(f) = [n \in 1..PageLength(f) |->
                    [id |-> Listed(f, n), row |-> tasks[Listed(f, n)]]]
  BY QueryLists
<1>4. Query(f)' = [n \in 1..PageLength(f)' |->
                     [id |-> Listed(f, n)', row |-> tasks'[Listed(f, n)']]]
  BY DEF Query, Listed, PageLength, Found, Window, Above
<1> QED
  BY <1>1, <1>2, <1>3, <1>4

-----------------------------------------------------------------------------
(* Excuses. *)

\* What a step may do to the pages of the teams T: a page that is true, or
\* has an excuse, still is or has; and every page still fits its filter.
ExcusesStay(T) ==
    \A f \in NormalFilters, page \in Pages :
      /\ f.team \in T => (Excused(page, f) => Excused(page, f)')
      /\ Fits(page, f) => Fits(page, f)'

\* No task vanishes or changes its team.
TasksStay ==
    \A id \in TaskIds :
      tasks[id] # NULL => tasks'[id] # NULL /\ tasks'[id].team = tasks[id].team

LEMMA PagesStillFit ==
    ASSUME TasksStay, NEW f \in NormalFilters, NEW page \in Pages, Fits(page, f)
    PROVE  Fits(page, f)'
<1>1. ASSUME NEW i \in DOMAIN page
      PROVE  Cardinality(Newer(page[i].id, f.team))' >= f.offset + i - 1
  <2> DEFINE id == page[i].id
  <2>1. Newer(id, f.team) \in SUBSET Newer(id, f.team)'
    BY DEF Newer, TasksStay
  <2>2. /\ IsFiniteSet(Newer(id, f.team)') /\ Cardinality(Newer(id, f.team)') \in Nat
        /\ Cardinality(Newer(id, f.team)) \in Nat
    <3>1. IsFiniteSet(TaskIds)
      BY BoundAssumption, FS_Interval DEF TaskIds
    <3>2. Newer(id, f.team)' \in SUBSET TaskIds
      BY DEF Newer
    <3> QED
      BY <3>1, <3>2, NewerIsFinite, FS_Subset, FS_CardinalityType
  <2>3. Cardinality(Newer(id, f.team)) <= Cardinality(Newer(id, f.team)')
    BY <2>1, <2>2, FS_Subset
  <2>4. Cardinality(Newer(id, f.team)) >= f.offset + i - 1
    BY DEF Fits
  <2>5. f.offset \in Int /\ i \in Int
    BY FilterType DEF Pages
  <2> HIDE DEF id
  <2>6. Cardinality(Newer(id, f.team)') >= f.offset + i - 1
    BY <2>2, <2>3, <2>4, <2>5 DEF id
  <2> QED
    BY <2>6 DEF id
<1> QED
  BY <1>1 DEF Fits

LEMMA OwedAlike ==
    ASSUME NEW p \in Procs, pc'[p] = "invalidate", req'[p] = req[p], snap'[p] = snap[p],
           NEW t, t = TargetTeam(p)
    PROVE  Owed(t)'
<1>1. TargetTeam(p)' = t
  BY DEF TargetTeam, IsUpdate
<1> QED
  BY <1>1 DEF Owed

\* What is owed to a team stays owed while its request waits to invalidate.
LEMMA OwedStays ==
    ASSUME NEW t, Owed(t),
           \A q \in Procs : pc[q] = "invalidate" => UNCHANGED <<pc[q], req[q], snap[q]>>
    PROVE  Owed(t)'
<1>1. PICK q \in Procs : pc[q] = "invalidate" /\ TargetTeam(q) = t
  BY DEF Owed
<1>2. pc'[q] = "invalidate" /\ TargetTeam(q)' = t
  BY <1>1 DEF TargetTeam, IsUpdate
<1> QED
  BY <1>2 DEF Owed

\* A step that writes no task excuses the pages of a team as before, unless
\* an increment owed to it is lost and not noted.
LEMMA NoWriteStep ==
    ASSUME tasks' = tasks, NEW T \in SUBSET Teams,
           \A t \in T : missed[t] => missed'[t],
           \A t \in T : Owed(t) => Owed(t)' \/ missed'[t]
    PROVE  ExcusesStay(T)
<1>0. TasksStay
  BY DEF TasksStay
<1> SUFFICES ASSUME NEW f \in NormalFilters, f.team \in T, NEW page \in Pages,
                    Excused(page, f)
             PROVE  Excused(page, f)'
  BY <1>0, PagesStillFit DEF ExcusesStay
<1>1. Found(f)' = Found(f) /\ \A id \in Found(f) : tasks'[id] = tasks[id]
  BY DEF Found
<1>2. Query(f)' = Query(f)
  BY <1>1, QueryKept
<1>3. Owed(f.team) => Owed(f.team)' \/ missed'[f.team]
  OBVIOUS
<1> QED
  BY <1>2, <1>3 DEF Excused

\* A step that writes no task and loses no increment.
LEMMA QuietStep ==
    ASSUME tasks' = tasks,
           \A t \in Teams : missed[t] => missed'[t],
           \A q \in Procs : pc[q] = "invalidate" => UNCHANGED <<pc[q], req[q], snap[q]>>
    PROVE  ExcusesStay(Teams)
<1>1. \A t \in Teams : Owed(t) => Owed(t)'
  BY OwedStays
<1> QED
  BY <1>1, NoWriteStep

\* A commit writes one row, of the team that its request is going to
\* invalidate; a row that was there before had that team, too.
LEMMA CommitOfOneTeam ==
    ASSUME IInv, NEW p \in Procs, pc[p] = "commit", Publish(p)
    PROVE  LET id == tx[p].id IN
           /\ id \in TaskIds /\ tx[p].row # NULL
           /\ \A i \in TaskIds : tasks'[i] = IF i = id THEN tx[p].row ELSE tasks[i]
           /\ tx[p].row.team = TargetTeam(p)
           /\ tasks[id] # NULL => tasks[id].team = TargetTeam(p)
<1> DEFINE id == tx[p].id
<1>1. TypeOK /\ Good(p)
  BY DEF IInv, Good
<1>2. Open(p) /\ req[p] \in Requests
  BY <1>1, Shapes DEF Good, Stage
<1>3. /\ tx[p] \in Transactions /\ id \in TaskIds
      /\ \A i \in TaskIds : tasks'[i] = IF i = id THEN tx[p].row ELSE tasks[i]
  BY <1>1, <1>2, Shapes, PublishedOrKept DEF Transactions
<1>4. tx[p].row.team = TargetTeam(p) /\ (tasks[id] # NULL => tasks[id].team = TargetTeam(p))
  <2>1. CASE IsUpdate(p)
    <3>1. tasks[id] = snap[p] /\ tx[p].row = WrittenRow(p) /\ id = req[p].id
      BY <1>1, <1>2, <2>1 DEF Good, TransactionIsNext
    <3>2. snap[p] \in TaskRows
      BY <1>1, <1>2, <2>1, Shapes DEF Good, Stage
    <3>3. tx[p].row.team = snap[p].team
      BY <3>1, <3>2 DEF WrittenRow, EditedRow, TaskRows, Rows
    <3> QED
      BY <2>1, <3>1, <3>3 DEF TargetTeam
  <2>2. CASE ~IsUpdate(p)
    <3>1. tasks[id] = NULL /\ tx[p].row = InsertedRow(p)
      BY <1>1, <1>2, <2>2 DEF Good, TransactionIsNext
    <3> QED
      BY <2>2, <3>1 DEF TargetTeam, InsertedRow, CreatedRow
  <2> QED
    BY <2>1, <2>2
<1>5. tx[p].row # NULL
  BY <1>3, NoRecordAssumption DEF Transactions
<1> QED
  BY <1>3, <1>4, <1>5

\* It changes the lists of no other team.
LEMMA WriteOfOneTeam ==
    ASSUME IInv, NEW p \in Procs, pc[p] = "commit", Publish(p),
           NEW f \in NormalFilters, f.team # TargetTeam(p)
    PROVE  Query(f)' = Query(f)
<1> DEFINE id == tx[p].id
<1>1. id \notin Found(f) /\ id \notin Found(f)'
  BY CommitOfOneTeam DEF Found, Matches
<1>2. \A i \in TaskIds : i # id => tasks'[i] = tasks[i]
  BY CommitOfOneTeam
<1> HIDE DEF id
<1>3. Found(f)' = Found(f) /\ \A i \in Found(f) : tasks'[i] = tasks[i]
  BY <1>1, <1>2 DEF Found
<1> QED
  BY <1>3, QueryKept

\* After a commit its team is owed an increment, or has missed one.
LEMMA CommitExcuses ==
    ASSUME IInv, NEW p \in Procs, pc[p] = "commit", Publish(p),
           \A t \in Teams : missed[t] => missed'[t],
           \A q \in Procs : pc[q] = "invalidate" => UNCHANGED <<pc[q], req[q], snap[q]>>,
           \A t \in Teams : t = TargetTeam(p) => Owed(t)' \/ missed'[t]
    PROVE  ExcusesStay(Teams)
<1>0. TasksStay
  BY CommitOfOneTeam DEF TasksStay
<1> SUFFICES ASSUME NEW f \in NormalFilters, NEW page \in Pages, Excused(page, f)
             PROVE  Excused(page, f)'
  BY <1>0, PagesStillFit DEF ExcusesStay
<1>1. f.team \in Teams
  BY FilterType
<1>2. CASE f.team = TargetTeam(p)
  BY <1>1, <1>2 DEF Excused
<1>3. CASE f.team # TargetTeam(p)
  <2>1. Query(f)' = Query(f)
    BY <1>3, WriteOfOneTeam
  <2>2. Owed(f.team) => Owed(f.team)'
    BY OwedStays
  <2> QED
    BY <1>1, <2>1, <2>2 DEF Excused
<1> QED
  BY <1>2, <1>3

-----------------------------------------------------------------------------
(* The invariant, page by page and reader by reader. *)

\* A page of Redis as it should be.
RightPage(e) ==
    /\ DOMAIN e = {"key", "page", "clean"}
    /\ e.page \in Pages
    /\ e.clean \in BOOLEAN
    /\ \E f \in NormalFilters, gen \in Nat :
         /\ e.key = Key(f, gen)
         /\ Fits(e.page, f)
         /\ e.clean => Excused(e.page, f)

ReadersTyped ==
    /\ lpc \in [Readers -> LSteps]
    /\ list \in [Readers -> ListRequests \cup {NULL}]
    /\ lgen \in [Readers -> Nat \cup {NULL}]
    /\ lpage \in [Readers -> Pages \cup {NULL}]
    /\ lclean \in [Readers -> BOOLEAN]

LEMMA PagesAreRight ==
    ASSUME CacheIInv, NEW e \in entries
    PROVE  RightPage(e)
<1>1. /\ DOMAIN e = {"key", "page", "clean"} /\ e.page \in Pages
      /\ e.clean \in BOOLEAN /\ e.key[2] \in Nat
  BY DEF CacheIInv, CacheTypeOK
<1>2. PICK f \in NormalFilters : e.key = Key(f, e.key[2])
  BY DEF CacheIInv, CacheTypeOK
<1>3. Fits(e.page, f) /\ (e.clean => Excused(e.page, f))
  BY <1>2 DEF CacheIInv, PageFitsFilter, CleanPagesExcused
<1> QED
  BY <1>1, <1>2, <1>3 DEF RightPage

LEMMA InvariantAfter ==
    ASSUME IInv', generation' \in [Teams -> Nat], missed' \in [Teams -> BOOLEAN],
           ReadersTyped', \A r \in Readers : ReaderStage(r)',
           \A e \in entries' : RightPage(e)'
    PROVE  CacheIInv'
<1>1. ASSUME NEW e \in entries'
      PROVE  /\ DOMAIN e = {"key", "page", "clean"} /\ e.page \in Pages
             /\ e.clean \in BOOLEAN /\ e.key[2] \in Nat
             /\ \E f \in NormalFilters : e.key = Key(f, e.key[2])
  <2>1. PICK f \in NormalFilters, gen \in Nat : e.key = Key(f, gen)
    BY DEF RightPage
  <2>2. e.key[2] = gen
    BY <2>1 DEF Key
  <2> QED
    BY <2>1, <2>2 DEF RightPage
<1>2. ASSUME NEW f \in NormalFilters, NEW e \in entries', e.key = Key(f, e.key[2])
      PROVE  Fits(e.page, f)' /\ (e.clean => Excused(e.page, f)')
  <2>1. PICK g \in NormalFilters, gen \in Nat :
          /\ e.key = Key(g, gen) /\ Fits(e.page, g)'
          /\ e.clean => Excused(e.page, g)'
    BY DEF RightPage
  <2>2. f = g
    BY <1>2, <2>1, KeysTellApart
  <2> QED
    BY <2>1, <2>2
<1>3. CacheTypeOK'
  BY <1>1 DEF CacheTypeOK, ReadersTyped
<1>4. PageFitsFilter' /\ CleanPagesExcused'
  BY <1>2 DEF PageFitsFilter, CleanPagesExcused
<1> QED
  BY <1>3, <1>4 DEF CacheIInv

LEMMA PageKept ==
    ASSUME NEW T, ExcusesStay(T), NEW e, RightPage(e), TeamOf(e.key) \in T \/ ~e.clean
    PROVE  RightPage(e)'
<1>1. PICK f \in NormalFilters, gen \in Nat :
        /\ e.key = Key(f, gen) /\ Fits(e.page, f)
        /\ e.clean => Excused(e.page, f)
  BY DEF RightPage
<1>2. TeamOf(e.key) = f.team
  BY <1>1 DEF TeamOf, Key
<1>3. Fits(e.page, f)' /\ (e.clean => Excused(e.page, f)')
  BY <1>1, <1>2 DEF ExcusesStay, RightPage
<1> QED
  BY <1>1, <1>3 DEF RightPage

LEMMA AllPagesKept ==
    ASSUME CacheIInv, ExcusesStay(Teams), NEW e \in entries
    PROVE  RightPage(e)'
<1>1. RightPage(e)
  BY PagesAreRight
<1>2. PICK f \in NormalFilters, gen \in Nat : e.key = Key(f, gen)
  BY <1>1 DEF RightPage
<1>3. TeamOf(e.key) \in Teams
  BY <1>2, FilterType DEF TeamOf, Key
<1> QED
  BY <1>1, <1>3, PageKept

LEMMA FilterOfType ==
    ASSUME ReadersTyped, NEW r \in Readers, list[r] # NULL
    PROVE  list[r] \in ListRequests /\ FilterOf(r) \in NormalFilters /\ FilterOf(r).team \in Teams
<1>1. list[r] \in ListRequests
  BY DEF ReadersTyped
<1>2. FilterOf(r) \in NormalFilters
  BY <1>1 DEF FilterOf, ListRequests
<1> QED
  BY <1>1, <1>2, FilterType

LEMMA StageKept ==
    ASSUME ReadersTyped, NEW r \in Readers, ReaderStage(r),
           NEW T, ExcusesStay(T),
           UNCHANGED <<lpc[r], list[r], lgen[r], lpage[r]>>,
           lclean'[r] => lclean[r] /\ FilterOf(r).team \in T
    PROVE  ReaderStage(r)'
<1>1. FilterOf(r)' = FilterOf(r)
  BY DEF FilterOf
<1>2. CASE lpc[r] \notin {"regeneration", "set"}
  BY <1>1, <1>2 DEF ReaderStage
<1>3. CASE lpc[r] \in {"regeneration", "set"}
  <2>1. list[r] # NULL /\ lpage[r] \in Pages /\ Fits(lpage[r], FilterOf(r))
    BY <1>3 DEF ReaderStage
  <2>2. PICK f \in NormalFilters, page \in Pages : f = FilterOf(r) /\ page = lpage[r]
    BY <2>1, FilterOfType
  <2>3. Fits(page, f)'
    BY <2>1, <2>2 DEF ExcusesStay
  <2>4. lclean'[r] => Excused(page, f)'
    BY <2>2 DEF ExcusesStay, ReaderStage
  <2>5. page = lpage'[r] /\ f = FilterOf(r)'
    BY <1>1, <2>2
  <2>6. Fits(lpage[r], FilterOf(r))' /\ (lclean[r]' => Excused(lpage[r], FilterOf(r))')
    BY <2>3, <2>4, <2>5 DEF Fits, Excused
  <2> QED
    BY <1>1, <2>6 DEF ReaderStage
<1> QED
  BY <1>2, <1>3

-----------------------------------------------------------------------------
(* The steps of the readers. *)

\* A step of reader r alone, that stores at most pages as they should be.
LEMMA ReaderStep ==
    ASSUME CacheIInv, NEW r \in Readers, UNCHANGED <<vars, generation, missed>>,
           ReadersTyped', ReaderStage(r)',
           \A q \in Readers \ {r} :
             UNCHANGED <<lpc[q], list[q], lgen[q], lpage[q], lclean[q]>>,
           \A e \in entries' : e \in entries \/ RightPage(e)'
    PROVE  CacheIInv'
<1>1. IInv'
  BY NextIInv DEF CacheIInv
<1>2. ExcusesStay(Teams)
  BY QuietStep DEF vars, tableVars, requestVars
<1>3. \A e \in entries' : RightPage(e)'
  BY <1>2, AllPagesKept
<1>4. ASSUME NEW q \in Readers PROVE ReaderStage(q)'
  <2>1. CASE q = r
    BY <2>1
  <2>2. CASE q # r
    <3>1. ReadersTyped /\ ReaderStage(q)
      BY DEF CacheIInv, CacheTypeOK, ReadersTyped
    <3>2. lclean[q] => FilterOf(q).team \in Teams
      BY <3>1, FilterOfType DEF ReaderStage
    <3> QED
      BY <1>2, <2>2, <3>1, <3>2, StageKept
  <2> QED
    BY <2>1, <2>2
<1>5. generation' \in [Teams -> Nat] /\ missed' \in [Teams -> BOOLEAN]
  BY DEF CacheIInv, CacheTypeOK
<1> QED
  BY <1>1, <1>3, <1>4, <1>5, InvariantAfter

\* A reader that answers forgets its request.
LEMMA ReaderAnswers ==
    ASSUME CacheIInv, NEW r \in Readers, LAnswer(r), UNCHANGED <<vars, generation, missed>>,
           \A e \in entries' : e \in entries \/ RightPage(e)'
    PROVE  CacheIInv'
<1>1. ReadersTyped
  BY DEF CacheIInv, CacheTypeOK, ReadersTyped
<1>2. ReadersTyped'
  BY <1>1 DEF ReadersTyped, LAnswer, LGoTo, LSteps
<1>3. lpc'[r] = "idle" /\ ~lclean'[r]
  BY <1>1 DEF ReadersTyped, LAnswer, LGoTo
<1>4. ReaderStage(r)'
  BY <1>3 DEF ReaderStage
<1>5. \A q \in Readers \ {r} : UNCHANGED <<lpc[q], list[q], lgen[q], lpage[q], lclean[q]>>
  BY <1>1 DEF ReadersTyped, LAnswer, LGoTo
<1> QED
  BY <1>2, <1>4, <1>5, ReaderStep

\* A reader that goes on with the same request and page.
LEMMA ReaderGoesOn ==
    ASSUME CacheIInv, NEW r \in Readers, NEW step \in LSteps, LGoTo(r, step),
           UNCHANGED <<vars, generation, entries, list, lpage, lclean, missed>>,
           lgen' \in [Readers -> Nat \cup {NULL}],
           \A q \in Readers \ {r} : lgen'[q] = lgen[q],
           list[r] # NULL,
           step \in {"page", "set"} => lgen'[r] \in Nat,
           step \in {"regeneration", "set"} => lpc[r] \in {"regeneration", "set"},
           lclean[r] => step \in {"regeneration", "set"}
    PROVE  CacheIInv'
<1>1. ReadersTyped /\ ReaderStage(r)
  BY DEF CacheIInv, CacheTypeOK, ReadersTyped
<1>2. ReadersTyped'
  BY <1>1 DEF ReadersTyped, LGoTo
<1>3. lpc'[r] = step
  BY <1>1 DEF ReadersTyped, LGoTo
<1>4. FilterOf(r)' = FilterOf(r) /\ lpage'[r] = lpage[r] /\ lclean'[r] = lclean[r]
      /\ list'[r] = list[r]
  BY DEF FilterOf
<1>5. lpc[r] \in {"regeneration", "set"} =>
        /\ lpage[r]' \in Pages /\ Fits(lpage[r], FilterOf(r))'
        /\ lclean[r] => Excused(lpage[r], FilterOf(r))'
  <2>1. ExcusesStay(Teams)
    BY QuietStep DEF vars, tableVars, requestVars
  <2> SUFFICES ASSUME lpc[r] \in {"regeneration", "set"}
               PROVE  /\ lpage[r]' \in Pages /\ Fits(lpage[r], FilterOf(r))'
                      /\ lclean[r] => Excused(lpage[r], FilterOf(r))'
    OBVIOUS
  <2>2. PICK f \in NormalFilters, page \in Pages :
          f = FilterOf(r) /\ page = lpage[r] /\ f.team \in Teams
    BY <1>1, FilterOfType DEF ReaderStage
  <2>3. Fits(page, f)' /\ (lclean[r] => Excused(page, f)')
    BY <1>1, <2>1, <2>2 DEF ExcusesStay, ReaderStage
  <2> QED
    BY <1>4, <2>2, <2>3 DEF Fits, Excused
<1>6. ReaderStage(r)'
  BY <1>1, <1>3, <1>4, <1>5 DEF ReaderStage
<1>7. \A q \in Readers \ {r} : UNCHANGED <<lpc[q], list[q], lgen[q], lpage[q], lclean[q]>>
  BY <1>1 DEF ReadersTyped, LGoTo
<1> QED
  BY <1>2, <1>6, <1>7, ReaderStep

LEMMA StartListStep ==
    ASSUME CacheIInv, NEW r \in Readers, NEW actor \in Users, NEW f \in Filters,
           StartList(r, actor, f)
    PROVE  CacheIInv'
<1>1. ReadersTyped /\ ReaderStage(r)
  BY DEF CacheIInv, CacheTypeOK, ReadersTyped
<1>2. [actor |-> actor, filter |-> Normalize(f)] \in ListRequests
  BY DEF StartList, ListRequests, NormalFilters
<1>3. ReadersTyped' /\ lpc'[r] = "member" /\ list'[r] # NULL /\ lclean'[r] = lclean[r]
  BY <1>1, <1>2, NoListAssumption DEF ReadersTyped, StartList, LGoTo, LSteps
<1>4. ReaderStage(r)'
  BY <1>1, <1>3 DEF ReaderStage, StartList
<1>5. \A q \in Readers \ {r} : UNCHANGED <<lpc[q], list[q], lgen[q], lpage[q], lclean[q]>>
  BY <1>1 DEF ReadersTyped, StartList, LGoTo
<1> QED
  BY <1>3, <1>4, <1>5, ReaderStep DEF StartList

LEMMA ListMembershipStep ==
    ASSUME CacheIInv, NEW r \in Readers, ListMembership(r)
    PROVE  CacheIInv'
<1>1. ReadersTyped /\ ReaderStage(r) /\ lpc[r] = "member"
  BY DEF CacheIInv, CacheTypeOK, ReadersTyped, ListMembership
<1>2. CASE LAnswer(r)
  BY <1>2, ReaderAnswers DEF ListMembership
<1>3. CASE LGoTo(r, "generation") /\ UNCHANGED <<list, lgen, lpage, lclean>>
  BY <1>1, <1>3, ReaderGoesOn DEF ListMembership, ReadersTyped, ReaderStage, LSteps
<1> QED
  BY <1>2, <1>3 DEF ListMembership

\* Reading a generation tells nothing of the page that is to be stored.
LEMMA GenerationRead ==
    ASSUME CacheIInv, NEW r \in Readers, list[r] # NULL,
           lgen' = [lgen EXCEPT ![r] = generation[FilterOf(r).team]]
    PROVE  /\ lgen' \in [Readers -> Nat \cup {NULL}] /\ lgen'[r] \in Nat
           /\ \A q \in Readers \ {r} : lgen'[q] = lgen[q]
<1>1. ReadersTyped /\ generation \in [Teams -> Nat]
  BY DEF CacheIInv, CacheTypeOK, ReadersTyped
<1>2. generation[FilterOf(r).team] \in Nat
  BY <1>1, FilterOfType
<1> QED
  BY <1>1, <1>2 DEF ReadersTyped

LEMMA GetGenerationStep ==
    ASSUME CacheIInv, NEW r \in Readers, GetGeneration(r)
    PROVE  CacheIInv'
<1>1. ReaderStage(r) /\ lpc[r] = "generation" /\ list[r] # NULL
  BY DEF CacheIInv, GetGeneration, ReaderStage
<1>2. /\ lgen' \in [Readers -> Nat \cup {NULL}] /\ lgen'[r] \in Nat
      /\ \A q \in Readers \ {r} : lgen'[q] = lgen[q]
  BY <1>1, GenerationRead DEF GetGeneration
<1> QED
  BY <1>1, <1>2, ReaderGoesOn DEF GetGeneration, ReaderStage, LSteps

LEMMA GetPageStep ==
    ASSUME CacheIInv, NEW r \in Readers, GetPage(r)
    PROVE  CacheIInv'
<1>1. ReadersTyped /\ ReaderStage(r) /\ lpc[r] = "page"
  BY DEF CacheIInv, CacheTypeOK, ReadersTyped, GetPage
<1>2. CASE LAnswer(r)
  BY <1>2, ReaderAnswers DEF GetPage
<1>3. CASE LGoTo(r, "select") /\ UNCHANGED <<list, lgen, lpage, lclean>>
  BY <1>1, <1>3, ReaderGoesOn DEF GetPage, ReadersTyped, ReaderStage, LSteps
<1> QED
  BY <1>2, <1>3 DEF GetPage

LEMMA GetFailsStep ==
    ASSUME CacheIInv, NEW r \in Readers, GetFails(r)
    PROVE  CacheIInv'
<1>1. ReadersTyped /\ ReaderStage(r) /\ lpc[r] \in {"generation", "page"}
  BY DEF CacheIInv, CacheTypeOK, ReadersTyped, GetFails
<1> QED
  BY <1>1, ReaderGoesOn DEF GetFails, ReadersTyped, ReaderStage, LSteps

\* The page just read from MySQL is true and answers its filter.
LEMMA SelectTasksStep ==
    ASSUME CacheIInv, NEW r \in Readers, SelectTasks(r)
    PROVE  CacheIInv'
<1>1. /\ ReadersTyped /\ ReaderStage(r) /\ lpc[r] = "select" /\ list[r] # NULL /\ TypeOK
  BY DEF CacheIInv, CacheTypeOK, ReadersTyped, SelectTasks, ReaderStage, IInv
<1>2. PICK f \in NormalFilters : f = FilterOf(r)
  BY <1>1, FilterOfType
<1>3. Query(f) \in Pages /\ Fits(Query(f), f)
  BY <1>1, QueryFits
<1>4. Query(f)' = Query(f) /\ Fits(Query(f), f)'
  <2>1. tasks' = tasks
    BY DEF SelectTasks, vars, tableVars
  <2>2. Query(f)' = Query(f)
    BY <2>1 DEF Query
  <2>3. \A id : Newer(id, f.team)' = Newer(id, f.team)
    BY <2>1 DEF Newer
  <2> QED
    BY <1>3, <2>2, <2>3 DEF Fits
<1>5. /\ lpage' = [lpage EXCEPT ![r] = Query(f)]
      /\ lclean' = [lclean EXCEPT ![r] = TRUE]
      /\ lgen' = [lgen EXCEPT ![r] = NULL]
      /\ lpc' = [lpc EXCEPT ![r] = "regeneration"]
      /\ list' = list
  BY <1>2 DEF SelectTasks, LGoTo
<1>6. ReadersTyped'
  BY <1>1, <1>3, <1>5 DEF ReadersTyped, LSteps
<1>7. lpc'[r] = "regeneration" /\ list'[r] # NULL /\ lpage'[r] = Query(f) /\ FilterOf(r)' = f
  BY <1>1, <1>2, <1>5 DEF ReadersTyped, FilterOf
<1>8. Excused(lpage[r], FilterOf(r))'
  BY <1>4, <1>7 DEF Excused
<1>9. ReaderStage(r)'
  BY <1>3, <1>4, <1>7, <1>8 DEF ReaderStage, Fits
<1>10. \A q \in Readers \ {r} : UNCHANGED <<lpc[q], list[q], lgen[q], lpage[q], lclean[q]>>
  BY <1>1, <1>5 DEF ReadersTyped
<1> QED
  BY <1>6, <1>9, <1>10, ReaderStep DEF SelectTasks

LEMMA GetGenerationAgainStep ==
    ASSUME CacheIInv, NEW r \in Readers, GetGenerationAgain(r)
    PROVE  CacheIInv'
<1>1. ReaderStage(r) /\ lpc[r] = "regeneration" /\ list[r] # NULL
  BY DEF CacheIInv, GetGenerationAgain, ReaderStage
<1>2. /\ lgen' \in [Readers -> Nat \cup {NULL}] /\ lgen'[r] \in Nat
      /\ \A q \in Readers \ {r} : lgen'[q] = lgen[q]
  BY <1>1, GenerationRead DEF GetGenerationAgain
<1> QED
  BY <1>1, <1>2, ReaderGoesOn DEF GetGenerationAgain, ReaderStage, LSteps

\* The page goes under the generation read last, with the story it has.
LEMMA SetPageStep ==
    ASSUME CacheIInv, NEW r \in Readers, SetPage(r)
    PROVE  CacheIInv'
<1> DEFINE stored == [key |-> Key(FilterOf(r), lgen[r]), page |-> lpage[r], clean |-> lclean[r]]
<1>1. ReadersTyped /\ ReaderStage(r) /\ lpc[r] = "set" /\ list[r] # NULL /\ lgen[r] \in Nat
  BY DEF CacheIInv, CacheTypeOK, ReadersTyped, SetPage, ReaderStage
<1>2. FilterOf(r) \in NormalFilters
  BY <1>1, FilterOfType
<1>3. /\ lpage[r] \in Pages /\ Fits(lpage[r], FilterOf(r)) /\ lclean[r] \in BOOLEAN
      /\ lclean[r] => Excused(lpage[r], FilterOf(r))
  BY <1>1 DEF ReaderStage, ReadersTyped
<1>4. RightPage(stored)
  BY <1>1, <1>2, <1>3 DEF RightPage
<1>5. ExcusesStay(Teams)
  BY QuietStep DEF SetPage, vars, tableVars, requestVars
<1>6. ASSUME NEW e, e = stored PROVE RightPage(e)'
  <2>1. RightPage(e)
    BY <1>4, <1>6
  <2>2. PICK f \in NormalFilters, gen \in Nat : e.key = Key(f, gen)
    BY <2>1 DEF RightPage
  <2>3. TeamOf(e.key) \in Teams
    BY <2>2, FilterType DEF TeamOf, Key
  <2> QED
    BY <1>5, <2>1, <2>3, PageKept
<1>7. \A e \in entries' : e \in entries \/ RightPage(e)'
  BY <1>6 DEF SetPage
<1> QED
  BY <1>7, ReaderAnswers DEF SetPage

LEMMA ReaderNextStep ==
    ASSUME CacheIInv, NEW r \in Readers, ReaderNext(r)
    PROVE  CacheIInv'
<1>1. ASSUME NEW actor \in Users, NEW f \in Filters, StartList(r, actor, f) PROVE CacheIInv'
  BY <1>1, StartListStep
<1>2. CASE Read(r)
  BY <1>2, ListMembershipStep, GetGenerationStep, GetPageStep, SelectTasksStep,
     GetGenerationAgainStep, SetPageStep DEF Read
<1>3. CASE GetFails(r)
  BY <1>3, GetFailsStep
<1>4. CASE SetFails(r)
  BY <1>4, ReaderAnswers DEF SetFails
<1>5. CASE ListDbError(r)
  BY <1>5, ReaderAnswers DEF ListDbError
<1> QED
  BY <1>1, <1>2, <1>3, <1>4, <1>5 DEF ReaderNext

-----------------------------------------------------------------------------
(* The steps of the writers, of Redis and of the environment. *)

LEMMA CacheNextIsNext ==
    ASSUME [CacheNext]_allVars
    PROVE  [Next]_vars
<1>1. ASSUME NEW p \in Procs, WriterNext(p) PROVE Next
  BY <1>1 DEF WriterNext, Next, Step, CommitWithoutInvalidate, InvalidateCache, InvalidateFails
<1>2. ASSUME NEW r \in Readers, ReaderNext(r) PROVE UNCHANGED vars
  BY <1>2 DEF ReaderNext, Read, StartList, ListMembership, GetGeneration, GetPage, SelectTasks,
     GetGenerationAgain, SetPage, GetFails, SetFails, ListDbError
<1>3. CASE (ChangeMembers \/ Tick) /\ UNCHANGED cacheVars
  BY <1>3 DEF Next
<1>4. CASE CrashAll
  BY <1>4 DEF CrashAll, Next
<1>5. ASSUME NEW key, Expire(key) PROVE UNCHANGED vars
  BY <1>5 DEF Expire
<1>6. CASE RedisRestart
  BY <1>6 DEF RedisRestart
<1>7. CASE UNCHANGED allVars
  BY <1>7 DEF allVars
<1> QED
  BY <1>1, <1>2, <1>3, <1>4, <1>5, <1>6, <1>7 DEF CacheNext

\* A step that leaves Redis and the readers alone.
LEMMA ServerStep ==
    ASSUME CacheIInv, IInv', ExcusesStay(Teams), missed' \in [Teams -> BOOLEAN],
           UNCHANGED <<generation, entries, readerVars>>
    PROVE  CacheIInv'
<1>1. ReadersTyped /\ ReadersTyped' /\ generation' \in [Teams -> Nat]
  BY DEF CacheIInv, CacheTypeOK, ReadersTyped, readerVars
<1>2. \A e \in entries' : RightPage(e)'
  BY AllPagesKept
<1>3. ASSUME NEW r \in Readers PROVE ReaderStage(r)'
  <2>1. ReaderStage(r) /\ (lclean[r] => FilterOf(r).team \in Teams)
    BY <1>1, FilterOfType DEF CacheIInv, ReaderStage
  <2> QED
    BY <1>1, <2>1, StageKept DEF readerVars
<1> QED
  BY <1>1, <1>2, <1>3, InvariantAfter

\* Other requests than p do not lose the increment that they are to make.
LEMMA OthersStillOwe ==
    ASSUME CacheIInv, NEW p \in Procs, ProcStep(p), pc[p] # "invalidate"
    PROVE  \A q \in Procs : pc[q] = "invalidate" => UNCHANGED <<pc[q], req[q], snap[q]>>
BY StepIsAlone DEF CacheIInv, IInv, Unmoved

LEMMA CommitCacheStep ==
    ASSUME CacheIInv, IInv', NEW p \in Procs, Commit(p), UNCHANGED cacheVars
    PROVE  CacheIInv'
<1>1. pc[p] = "commit" /\ Publish(p) /\ pc'[p] = "invalidate"
      /\ req'[p] = req[p] /\ snap'[p] = snap[p]
  BY DEF Commit, GoTo, CacheIInv, IInv, TypeOK
<1>2. \A q \in Procs : pc[q] = "invalidate" => UNCHANGED <<pc[q], req[q], snap[q]>>
  BY <1>1, OthersStillOwe DEF ProcStep, Step, Handle
<1>3. \A t : t = TargetTeam(p) => Owed(t)'
  BY <1>1, OwedAlike
<1>4. ExcusesStay(Teams)
  BY <1>1, <1>2, <1>3, CommitExcuses DEF cacheVars, CacheIInv
<1> QED
  BY <1>4, ServerStep DEF cacheVars, CacheIInv, CacheTypeOK

LEMMA MissType ==
    ASSUME CacheIInv, NEW lost, Miss(lost)
    PROVE  /\ missed' \in [Teams -> BOOLEAN]
           /\ \A t \in Teams : missed'[t] <=> missed[t] \/ t \in lost
BY DEF Miss, CacheIInv, CacheTypeOK

LEMMA CommitWithoutInvalidateStep ==
    ASSUME CacheIInv, IInv', NEW p \in Procs, CommitWithoutInvalidate(p)
    PROVE  CacheIInv'
<1>1. pc[p] = "commit" /\ Publish(p)
  BY DEF CommitWithoutInvalidate, CommitUnacknowledged
<1>2. \A q \in Procs : pc[q] = "invalidate" => UNCHANGED <<pc[q], req[q], snap[q]>>
  BY <1>1, OthersStillOwe DEF ProcStep, CommitWithoutInvalidate
<1>3. /\ missed' \in [Teams -> BOOLEAN]
      /\ \A t \in Teams : missed'[t] <=> missed[t] \/ t = TargetTeam(p)
  BY MissType DEF CommitWithoutInvalidate
<1>4. ExcusesStay(Teams)
  BY <1>1, <1>2, <1>3, CommitExcuses DEF CacheIInv
<1> QED
  BY <1>3, <1>4, ServerStep DEF CommitWithoutInvalidate

\* The steps of a request before its commit.
LEMMA BeforeCommitStep ==
    ASSUME CacheIInv, IInv', NEW p \in Procs, Receive(p) \/ Handle(p) \/ DbError(p), ~Commit(p),
           UNCHANGED cacheVars
    PROVE  CacheIInv'
<1>1. pc[p] # "invalidate" /\ tasks' = tasks
  <2>1. CASE Receive(p)
    BY <2>1 DEF Receive, Accept, Refuse, tableVars
  <2>2. CASE Handle(p)
    BY <2>2 DEF Handle, LoadTask, LoadActor, LoadMember, CheckAssignee, UpdateRow, InsertTask,
       WriteHistory, tableVars
  <2>3. CASE DbError(p)
    BY <2>3 DEF DbError, InDatabase, tableVars
  <2> QED
    BY <2>1, <2>2, <2>3
<1>2. \A q \in Procs : pc[q] = "invalidate" => UNCHANGED <<pc[q], req[q], snap[q]>>
  BY <1>1, OthersStillOwe DEF ProcStep, Step
<1>3. missed' = missed /\ missed \in [Teams -> BOOLEAN]
  BY DEF cacheVars, CacheIInv, CacheTypeOK
<1>4. ExcusesStay(Teams)
  BY <1>1, <1>2, <1>3, QuietStep
<1> QED
  BY <1>3, <1>4, ServerStep DEF cacheVars

\* A failed increment is missed.
LEMMA InvalidateFailsStep ==
    ASSUME CacheIInv, IInv', NEW p \in Procs, InvalidateFails(p)
    PROVE  CacheIInv'
<1>1. /\ missed' \in [Teams -> BOOLEAN]
      /\ \A t \in Teams : missed'[t] <=> missed[t] \/ t = TargetTeam(p)
  BY MissType DEF InvalidateFails
<1>2. \A q \in Procs \ {p} : Unmoved(q)
  BY StepIsAlone DEF InvalidateFails, ProcStep, Step, CacheIInv, IInv
<1>3. ASSUME NEW t \in Teams, Owed(t) PROVE Owed(t)' \/ missed'[t]
  <2>1. PICK q \in Procs : pc[q] = "invalidate" /\ TargetTeam(q) = t
    BY <1>3 DEF Owed
  <2>2. CASE q = p
    BY <1>1, <2>1, <2>2
  <2>3. CASE q # p
    BY <1>2, <2>1, <2>3, OwedAlike DEF Unmoved
  <2> QED
    BY <2>2, <2>3
<1>4. ExcusesStay(Teams)
  BY <1>1, <1>3, NoWriteStep DEF InvalidateFails, Invalidate, tableVars
<1> QED
  BY <1>1, <1>4, ServerStep DEF InvalidateFails

LEMMA SoiledPage ==
    ASSUME NEW e, RightPage(e), NEW t, NEW x \in Soiled({e}, t)
    PROVE  RightPage(x) /\ (TeamOf(x.key) # t \/ ~x.clean) /\ x.key = e.key
<1>1. /\ DOMAIN x = {"key", "page", "clean"} /\ x.key = e.key /\ x.page = e.page
      /\ x.clean = (e.clean /\ TeamOf(e.key) # t)
  BY DEF Soiled, RightPage
<1>2. x.clean \in BOOLEAN /\ (x.clean => e.clean)
  BY <1>1
<1> QED
  BY <1>1, <1>2 DEF RightPage

\* After the increment nothing of the team is clean, in Redis or with a
\* reader; the other teams notice nothing.
LEMMA InvalidateCacheStep ==
    ASSUME CacheIInv, IInv', NEW p \in Procs, InvalidateCache(p)
    PROVE  CacheIInv'
<1> DEFINE team == TargetTeam(p)
           T == Teams \ {team}
<1>1. ReadersTyped /\ generation \in [Teams -> Nat] /\ missed \in [Teams -> BOOLEAN]
  BY DEF CacheIInv, CacheTypeOK, ReadersTyped
<1>2. team \in Teams
  <2>1. TypeOK /\ Good(p) /\ pc[p] = "invalidate"
    BY DEF CacheIInv, IInv, Good, InvalidateCache, Invalidate
  <2> QED
    BY <2>1, TargetTeamType DEF Steps
<1> HIDE DEF team
<1>3. /\ generation' = [generation EXCEPT ![team] = generation[team] + 1]
      /\ missed' = [missed EXCEPT ![team] = FALSE]
      /\ entries' = Soiled(entries, team)
      /\ lclean' = [r \in Readers |-> lclean[r] /\ ~(list[r] # NULL /\ FilterOf(r).team = team)]
      /\ UNCHANGED <<lpc, list, lgen, lpage>>
  BY DEF InvalidateCache, NewGeneration, team
<1>4. \A q \in Procs \ {p} : Unmoved(q)
  BY StepIsAlone DEF InvalidateCache, ProcStep, Step, CacheIInv, IInv
<1>5. ExcusesStay(T)
  <2>1. ASSUME NEW t \in T, Owed(t) PROVE Owed(t)'
    <3>1. PICK q \in Procs : pc[q] = "invalidate" /\ TargetTeam(q) = t
      BY <2>1 DEF Owed
    <3>2. q # p
      BY <3>1 DEF team
    <3> QED
      BY <1>4, <3>1, <3>2, OwedAlike DEF Unmoved
  <2>2. \A t \in T : missed'[t] = missed[t]
    BY <1>1, <1>3
  <2> QED
    BY <2>1, <2>2, NoWriteStep DEF InvalidateCache, Invalidate, tableVars
<1>6. ASSUME NEW x \in entries' PROVE RightPage(x)'
  <2>1. PICK e \in entries : x \in Soiled({e}, team)
    BY <1>3 DEF Soiled
  <2>2. RightPage(e)
    BY PagesAreRight
  <2>3. PICK f \in NormalFilters, gen \in Nat : e.key = Key(f, gen)
    BY <2>2 DEF RightPage
  <2>4. TeamOf(e.key) \in Teams
    BY <2>3, FilterType DEF TeamOf, Key
  <2>5. RightPage(x) /\ (TeamOf(x.key) \in T \/ ~x.clean)
    BY <2>1, <2>2, <2>4, SoiledPage
  <2> QED
    BY <1>5, <2>5, PageKept
<1>7. ASSUME NEW r \in Readers PROVE ReaderStage(r)'
  <2>1. ReaderStage(r)
    BY DEF CacheIInv
  <2>2. lclean'[r] => lclean[r] /\ FilterOf(r).team \in T
    BY <1>1, <1>3, <2>1, FilterOfType DEF ReaderStage
  <2> QED
    BY <1>1, <1>3, <1>5, <2>1, <2>2, StageKept
<1>8. generation' \in [Teams -> Nat] /\ missed' \in [Teams -> BOOLEAN]
  BY <1>1, <1>2, <1>3
<1>9. ReadersTyped'
  BY <1>1, <1>3 DEF ReadersTyped
<1> QED
  BY <1>6, <1>7, <1>8, <1>9, InvariantAfter

\* A dying server misses the increments that it still owed.
LEMMA CrashAllStep ==
    ASSUME CacheIInv, IInv', CrashAll
    PROVE  CacheIInv'
<1> DEFINE lost == {TargetTeam(q) : q \in {o \in Procs : pc[o] = "invalidate" /\ pc'[o] = "idle"}}
<1>1. Miss(lost) /\ tasks' = tasks /\ UNCHANGED <<generation, entries>>
  BY DEF CrashAll, Crash, vars, tableVars
<1>2. /\ missed' \in [Teams -> BOOLEAN]
      /\ \A t \in Teams : missed'[t] <=> missed[t] \/ t \in lost
  BY <1>1, MissType
<1>3. ASSUME NEW t \in Teams, Owed(t) PROVE Owed(t)' \/ missed'[t]
  <2>1. PICK q \in Procs : pc[q] = "invalidate" /\ TargetTeam(q) = t
    BY <1>3 DEF Owed
  <2>2. pc'[q] = "idle"
    BY <2>1 DEF CrashAll, Crash
  <2> QED
    BY <1>2, <2>1, <2>2
<1>4. ExcusesStay(Teams)
  BY <1>1, <1>2, <1>3, NoWriteStep
<1>5. \A e \in entries' : RightPage(e)'
  BY <1>1, <1>4, AllPagesKept
<1>6. ReadersTyped'
  BY DEF ReadersTyped, CrashAll, LSteps
<1>7. \A r \in Readers : ReaderStage(r)'
  BY DEF ReaderStage, CrashAll
<1>8. generation' \in [Teams -> Nat]
  BY <1>1 DEF CacheIInv, CacheTypeOK
<1> QED
  BY <1>2, <1>5, <1>6, <1>7, <1>8, InvariantAfter

LEMMA ExpireStep ==
    ASSUME CacheIInv, IInv', NEW key, Expire(key)
    PROVE  CacheIInv'
<1>1. ExcusesStay(Teams)
  BY QuietStep DEF Expire, vars, tableVars, requestVars
<1>2. \A e \in entries' : RightPage(e)'
  BY <1>1, AllPagesKept DEF Expire
<1>3. ReadersTyped /\ ReadersTyped'
  BY DEF CacheIInv, CacheTypeOK, ReadersTyped, Expire, readerVars
<1>4. ASSUME NEW r \in Readers PROVE ReaderStage(r)'
  <2>1. ReaderStage(r) /\ (lclean[r] => FilterOf(r).team \in Teams)
    BY <1>3, FilterOfType DEF CacheIInv, ReaderStage
  <2> QED
    BY <1>1, <1>3, <2>1, StageKept DEF Expire, readerVars
<1>5. generation' \in [Teams -> Nat] /\ missed' \in [Teams -> BOOLEAN]
  BY DEF CacheIInv, CacheTypeOK, Expire
<1> QED
  BY <1>2, <1>3, <1>4, <1>5, InvariantAfter

\* Redis comes back empty, and the generations start again from 0: the pages
\* that readers are still going to store are no longer clean.
LEMMA RedisRestartStep ==
    ASSUME CacheIInv, IInv', RedisRestart
    PROVE  CacheIInv'
<1>1. ReadersTyped /\ \A r \in Readers : ReaderStage(r)
  BY DEF CacheIInv, CacheTypeOK, ReadersTyped
<1>2. ReadersTyped'
  BY <1>1 DEF ReadersTyped, RedisRestart
<1>3. ASSUME NEW r \in Readers PROVE ReaderStage(r)'
  <2>1. ExcusesStay({})
    BY NoWriteStep DEF RedisRestart, vars, tableVars
  <2> QED
    BY <1>1, <2>1, StageKept DEF RedisRestart
<1>4. /\ \A e \in entries' : RightPage(e)'
      /\ generation' \in [Teams -> Nat] /\ missed' \in [Teams -> BOOLEAN]
  BY DEF RedisRestart
<1> QED
  BY <1>2, <1>3, <1>4, InvariantAfter

\* Members come, roles change, time passes.
LEMMA EnvironmentCacheStep ==
    ASSUME CacheIInv, IInv', UNCHANGED <<tableVars, requestVars>>, UNCHANGED cacheVars
    PROVE  CacheIInv'
<1>1. missed' = missed /\ missed \in [Teams -> BOOLEAN]
  BY DEF cacheVars, CacheIInv, CacheTypeOK
<1>2. ExcusesStay(Teams)
  BY <1>1, QuietStep DEF tableVars, requestVars
<1> QED
  BY <1>1, <1>2, ServerStep DEF cacheVars

LEMMA NextCacheIInv == CacheIInv /\ [CacheNext]_allVars => CacheIInv'
<1> SUFFICES ASSUME CacheIInv, [CacheNext]_allVars
             PROVE  CacheIInv'
  OBVIOUS
<1>1. IInv'
  BY CacheNextIsNext, NextIInv DEF CacheIInv
<1>2. ASSUME NEW p \in Procs, WriterNext(p) PROVE CacheIInv'
  <2>1. CASE (Receive(p) \/ Handle(p) \/ DbError(p)) /\ UNCHANGED cacheVars
    BY <1>1, <2>1, CommitCacheStep, BeforeCommitStep
  <2>2. CASE CommitWithoutInvalidate(p)
    BY <1>1, <2>2, CommitWithoutInvalidateStep
  <2>3. CASE InvalidateCache(p)
    BY <1>1, <2>3, InvalidateCacheStep
  <2>4. CASE InvalidateFails(p)
    BY <1>1, <2>4, InvalidateFailsStep
  <2> QED
    BY <1>2, <2>1, <2>2, <2>3, <2>4 DEF WriterNext
<1>3. ASSUME NEW r \in Readers, ReaderNext(r) PROVE CacheIInv'
  BY <1>3, ReaderNextStep
<1>4. CASE (ChangeMembers \/ Tick) /\ UNCHANGED cacheVars
  BY <1>1, <1>4, EnvironmentCacheStep DEF ChangeMembers, Tick
<1>5. CASE CrashAll
  BY <1>1, <1>5, CrashAllStep
<1>6. ASSUME NEW key, Expire(key) PROVE CacheIInv'
  BY <1>1, <1>6, ExpireStep
<1>7. CASE RedisRestart
  BY <1>1, <1>7, RedisRestartStep
<1>8. CASE UNCHANGED allVars
  BY <1>1, <1>8, EnvironmentCacheStep DEF allVars, vars
<1> QED
  BY <1>2, <1>3, <1>4, <1>5, <1>6, <1>7, <1>8 DEF CacheNext

LEMMA InitCacheIInv == CacheInit => CacheIInv
<1> SUFFICES ASSUME CacheInit PROVE CacheIInv
  OBVIOUS
<1>1. IInv
  BY InitIInv DEF CacheInit
<1>2. CacheTypeOK
  BY DEF CacheInit, InitCache, CacheTypeOK, LSteps
<1>3. ASSUME NEW r \in Readers PROVE ReaderStage(r)
  BY DEF CacheInit, InitCache, ReaderStage
<1>4. PageFitsFilter /\ CleanPagesExcused
  BY DEF CacheInit, InitCache, PageFitsFilter, CleanPagesExcused
<1> QED
  BY <1>1, <1>2, <1>3, <1>4 DEF CacheIInv

-----------------------------------------------------------------------------
(* Theorems. *)

\* Whatever the readers and Redis do, the requests of Tasks run as they do
\* without a cache (ListTasks writes nothing, the service ignores the outcome
\* of TaskCache.Invalidate): what is proved of Tasks holds here.
THEOREM CacheImplementsTasks == CacheSpec => Spec
<1>1. CacheInit => Init
  BY DEF CacheInit
<1>2. [CacheNext]_allVars => [Next]_vars
  BY CacheNextIsNext
<1> QED
  BY <1>1, <1>2, PTL DEF CacheSpec, Spec

\* The invariant: pages in Redis and in the hands of the readers answer the
\* filter they were read for, and while the generation stands they are true
\* or the team is owed, or has missed, an increment.
THEOREM CacheInvariantHolds == CacheSpec => []CacheIInv
<1> QED
  BY InitCacheIInv, NextCacheIInv, PTL DEF CacheSpec

\* Redis and the readers' calls keep to their types.
THEOREM CacheTypesHold == CacheSpec => []CacheTypeOK
<1>1. CacheIInv => CacheTypeOK
  BY DEF CacheIInv
<1> QED
  BY <1>1, CacheInvariantHolds, PTL

\* A page that GET /tasks would be answered with now is stale for one of
\* three reasons only: a write is about to increment the generation, an
\* increment was lost, or TaskCache.Set stored the page under a generation
\* that it read after the page.
THEOREM StaleAlwaysForCause == CacheSpec => []StaleOnlyForCause
<1>1. CacheIInv => StaleOnlyForCause
  <2> SUFFICES ASSUME CacheIInv, NEW f \in NormalFilters, NEW e \in entries,
                      e.key = Key(f, generation[f.team]), e.clean
               PROVE  Excused(e.page, f)
    BY DEF StaleOnlyForCause
  <2>1. e.key = Key(f, e.key[2])
    BY DEF Key
  <2> QED
    BY <2>1 DEF CacheIInv, CleanPagesExcused
<1> QED
  BY <1>1, CacheInvariantHolds, PTL

\* Even a stale page answers its own filter: no more rows than the limit, of
\* the team, status and assignee asked for, by descending id.
THEOREM PagesAlwaysFitFilter == CacheSpec => []PageFitsFilter
<1>1. CacheIInv => PageFitsFilter
  BY DEF CacheIInv
<1> QED
  BY <1>1, CacheInvariantHolds, PTL
=============================================================================
