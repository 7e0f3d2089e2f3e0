------------------------------ MODULE MCTeams ------------------------------
(***************************************************************************)
(* Instances of Teams for TLC, with two requests at a time: of three users *)
(* about one team, and of two users about two teams.                       *)
(***************************************************************************)
EXTENDS Teams, TLC

CONSTANTS p1, p2, ann, bob, eve

MCProcs == {p1, p2}
MCUsers == {ann, bob, eve}
Symmetry == Permutations(MCProcs) \cup Permutations(MCUsers)

TwoUsers == {ann, bob}
TwoSymmetry == Permutations(MCProcs) \cup Permutations(TwoUsers)
=============================================================================
