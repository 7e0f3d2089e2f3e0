---------------------------- MODULE MCTaskCache ----------------------------
(***************************************************************************)
(* Instances of TaskCache for TLC: writers and readers of one team whose   *)
(* owner is ann.                                                           *)
(***************************************************************************)
EXTENDS TaskCache, TLC

CONSTANTS p1, r1, r2, ann, t1

MCProcs == {p1}
OneReader == {r1}
TwoReaders == {r1, r2}
ReaderSymmetry == Permutations(TwoReaders)
MCUsers == {ann}
MCTeams == {t1}
MCMembers == t1 :> (ann :> "owner")

MCTitles == {"a"}
MCTrimSpace == "a" :> "a"
MCDescriptions == {"d"}

MCNewTasks == {[title |-> "a", description |-> "d", assignee_id |-> NULL]}
MCPatches == {[fields |-> ("status" :> "done"), version |-> NULL]}

Filter(status, limit, offset) ==
    [team |-> t1, status |-> status, assignee |-> NULL, limit |-> limit, offset |-> offset]

AllOpen == {Filter(NULL, 0, 0)}

\* Two filters at a time that differ, once normalised, in the status, in the
\* limit and in the offset alone, beside one that is refused.
Several == {Filter(NULL, 0, 0), Filter("done", 0, -1), Filter(NULL, 3, 0),
            Filter(NULL, 1, 1), Filter("archived", 1, 0)}

\* Bound: a page under the wrong key needs no other page beside it.
OnePageAtATime == Cardinality(entries) <= 1
=============================================================================
