------------------------------ MODULE MCTasks ------------------------------
(***************************************************************************)
(* Instances of Tasks for TLC.  MCTasks.cfg lets two requests race on one  *)
(* task; MCTasksRules.cfg runs one request at a time, of every kind; and   *)
(* MCTasksLive.cfg is the instance for liveness.                           *)
(***************************************************************************)
EXTENDS Tasks, TLC

CONSTANTS p1, p2, ann, bob, eve, t1

OneProc == {p1}
TwoProcs == {p1, p2}
Symmetry == Permutations(TwoProcs)
MCTeams == {t1}

\* ann owns the team, bob is a member of it, and eve is not.
TwoUsers == {ann, bob}
TwoMembers == [t \in MCTeams |-> ann :> "owner" @@ bob :> "member"]
ThreeUsers == {ann, bob, eve}
ThreeMembers == [t \in MCTeams |-> ann :> "owner" @@ bob :> "member" @@ eve :> NULL]

MCRawTitles == {"", "a", " a", "b"}
MCTrimSpace == ("" :> "" @@ "a" :> "a" @@ " a" :> "a" @@ "b" :> "b")
MCGoodTitles == {"a", "b"}
MCDescriptions == {"d"}

Patch(fields, version) == [fields |-> fields, version |-> version]

\* A task of bob's is closed, reopened as it was read, and taken from him.
RacingPatches == {
    Patch("status" :> "done", NULL),
    Patch("status" :> "todo" @@ "title" :> "b", 2),
    Patch("assignee_id" :> NULL, NULL)}

LivePatches == {Patch("status" :> "done", NULL), Patch("status" :> "todo", 1)}

PlainTask == [title |-> "a", description |-> "d", assignee_id |-> NULL]
RacingTasks == {[PlainTask EXCEPT !.assignee_id = bob]}

\* Every kind of request: valid and refused, conditional on a version,
\* without effect, within and beyond what an assignee may touch.
AllPatches == {
    Patch("status" :> "done", NULL),
    Patch("status" :> "cancelled" @@ "assignee_id" :> eve, NULL),
    Patch("status" :> "todo" @@ "title" :> " a", 2),
    Patch("status" :> "archived", NULL),
    Patch(<<>>, 1),
    Patch(<<>>, NULL)}

AllTasks == {
    [PlainTask EXCEPT !.title = " a", !.assignee_id = bob],
    [PlainTask EXCEPT !.title = ""]}
=============================================================================
