------------------------------ MODULE MCReads -------------------------------
(* An instance of Reads for TLC: a team that does not exist yet, two tasks *)
(* that are closed and opened again, one request of every kind at a time.  *)
EXTENDS Reads, TLC

CONSTANTS p1, red, ann, bob, first, second

MCProcs == {p1}
MCTeams == {red}
MCUsers == {ann, bob}
MCTaskIds == {first, second}
Symmetry == Permutations(MCTaskIds) \cup Permutations(MCUsers)

MCInitialMembers == [t \in MCTeams |-> [u \in MCUsers |-> NULL]]

MCTexts == {"a"}
MCTrimSpace == [text \in MCTexts |-> text]

\* Two users of one name: MySQL may put either first.
MCNameOrder == [u \in MCUsers |-> 1]

MCNewTasks ==
    {[title |-> "a", description |-> "a", assignee_id |-> u] : u \in {ann, bob}}

Patch(fields) == [fields |-> fields, version |-> NULL]
MCPatches == {Patch("status" :> "done"), Patch("status" :> "todo")}
=============================================================================
