----------------------------- MODULE TeamRoles -----------------------------
(***************************************************************************)
(* What the table team_members promises to the rest of the system: a team  *)
(* comes into being with its owner, members join it with a role that an    *)
(* owner may hand out, the owner keeps its role, and nobody leaves.        *)
(*                                                                         *)
(* Teams implements this specification; Tasks takes its steps as the       *)
(* environment in which task requests run.                                 *)
(***************************************************************************)
CONSTANTS Teams, Users, NULL, InitialMembers

VARIABLE member         \* member[t][u] is the role of u in t, or NULL

Roles == {"owner", "admin", "member"}
Assignable(role) == role \in {"admin", "member"}

MemberTable == [Teams -> [Users -> Roles \cup {NULL}]]

\* SQL NULL is not in the ENUM of the column role.
ASSUME RoleAssumption == NULL \notin Roles

Exists(t) == \E u \in Users : member[t][u] = "owner"

\* A table that the program can have reached: a team has one owner, and
\* a team without an owner does not exist and has no members.
WellFormedMembers(m) ==
    \A t \in Teams :
      \/ \A u \in Users : m[t][u] = NULL
      \/ \E o \in Users : \A u \in Users : (m[t][u] = "owner") <=> (u = o)

ASSUME InitialMembersAssumption ==
    InitialMembers \in MemberTable /\ WellFormedMembers(InitialMembers)

Init == member = InitialMembers

CreateTeam(t, u) ==
    /\ \A w \in Users : member[t][w] = NULL
    /\ member' = [member EXCEPT ![t][u] = "owner"]

Join(t, u, role) ==
    /\ Exists(t)
    /\ member[t][u] = NULL
    /\ Assignable(role)
    /\ member' = [member EXCEPT ![t][u] = role]

SetRole(t, u, role) ==
    /\ member[t][u] \in {"admin", "member"} \ {role}
    /\ Assignable(role)
    /\ member' = [member EXCEPT ![t][u] = role]

Next ==
    \E t \in Teams, u \in Users :
      \/ CreateTeam(t, u)
      \/ \E role \in Roles : Join(t, u, role)
      \/ \E role \in Roles : SetRole(t, u, role)

Spec == Init /\ [][Next]_member

\* A team never has two owners and never has members without an owner.
OneOwner == member \in MemberTable /\ WellFormedMembers(member)
=============================================================================
