-------------------------- MODULE TeamRolesProofs --------------------------
(***************************************************************************)
(* Lemmas about the steps of TeamRoles, for any number of teams and users: *)
(* they keep one owner per team, and its members.                          *)
(***************************************************************************)
EXTENDS TeamRoles, TLAPS

USE DEF Roles, Assignable

LEMMA InitOneOwner == Init => OneOwner
  BY InitialMembersAssumption DEF Init, OneOwner

LEMMA CreateTeamKeepsOneOwner ==
  ASSUME OneOwner, NEW t \in Teams, NEW u \in Users, CreateTeam(t, u)
  PROVE  OneOwner'
<1>1. member' \in MemberTable
  BY DEF OneOwner, CreateTeam, MemberTable
<1>2. ASSUME NEW s \in Teams, s # t  PROVE member'[s] = member[s]
  BY <1>2 DEF OneOwner, CreateTeam, MemberTable
<1>3. \A w \in Users : (member'[t][w] = "owner") <=> (w = u)
  BY RoleAssumption DEF OneOwner, CreateTeam, MemberTable
<1> QED
  BY <1>1, <1>2, <1>3 DEF OneOwner, WellFormedMembers

\* A role that is not the owner's, given to someone who does not own the team.
LEMMA SubordinateKeepsOneOwner ==
  ASSUME OneOwner, NEW t \in Teams, NEW u \in Users,
         NEW role \in {"admin", "member"},
         Exists(t), member[t][u] # "owner",
         member' = [member EXCEPT ![t][u] = role]
  PROVE  OneOwner'
<1>1. member' \in MemberTable
  BY DEF OneOwner, MemberTable
<1>2. ASSUME NEW s \in Teams, s # t  PROVE member'[s] = member[s]
  BY <1>2 DEF OneOwner, MemberTable
<1>3. \A w \in Users : (member'[t][w] = "owner") <=> (member[t][w] = "owner")
  BY DEF OneOwner, MemberTable
<1>4. PICK o \in Users : \A w \in Users : (member[t][w] = "owner") <=> (w = o)
  BY DEF OneOwner, WellFormedMembers, Exists
<1> QED
  BY <1>1, <1>2, <1>3, <1>4 DEF OneOwner, WellFormedMembers

\* Every step keeps one owner to a team.
LEMMA NextOneOwner == OneOwner /\ [Next]_member => OneOwner'
<1> SUFFICES ASSUME OneOwner, [Next]_member PROVE OneOwner'
  OBVIOUS
<1>1. CASE UNCHANGED member
  BY <1>1 DEF OneOwner, WellFormedMembers
<1>2. ASSUME NEW t \in Teams, NEW u \in Users, CreateTeam(t, u)
      PROVE  OneOwner'
  BY <1>2, CreateTeamKeepsOneOwner
<1>3. ASSUME NEW t \in Teams, NEW u \in Users, NEW role \in Roles, Join(t, u, role)
      PROVE  OneOwner'
  BY <1>3, RoleAssumption, SubordinateKeepsOneOwner DEF Join
<1>4. ASSUME NEW t \in Teams, NEW u \in Users, NEW role \in Roles, SetRole(t, u, role)
      PROVE  OneOwner'
  <2>1. member[t][u] \in {"admin", "member"}
    BY <1>4 DEF SetRole
  <2>2. Exists(t)
    BY <2>1, RoleAssumption DEF OneOwner, WellFormedMembers, Exists
  <2> QED
    BY <1>4, <2>1, <2>2, SubordinateKeepsOneOwner DEF SetRole
<1> QED
  BY <1>1, <1>2, <1>3, <1>4 DEF Next

\* A step takes nobody out of a team and nobody out of its ownership.
LEMMA NextMembersStay ==
  ASSUME OneOwner, [Next]_member,
         NEW t \in Teams, NEW u \in Users, member[t][u] # NULL
  PROVE  member'[t][u] # NULL /\ (member[t][u] = "owner" <=> member'[t][u] = "owner")
<1>1. CASE UNCHANGED member
  BY <1>1
<1>2. ASSUME NEW s \in Teams, NEW w \in Users, CreateTeam(s, w)
      PROVE  member'[t][u] = member[t][u]
  <2>1. s # t
    BY <1>2 DEF CreateTeam
  <2> QED
    BY <1>2, <2>1 DEF CreateTeam, OneOwner, MemberTable
<1>3. ASSUME NEW s \in Teams, NEW w \in Users, NEW role \in Roles, Join(s, w, role)
      PROVE  member'[t][u] = member[t][u]
  <2>1. s # t \/ w # u
    BY <1>3 DEF Join
  <2> QED
    BY <1>3, <2>1 DEF Join, OneOwner, MemberTable
<1>4. ASSUME NEW s \in Teams, NEW w \in Users, NEW role \in Roles, SetRole(s, w, role)
      PROVE  member'[t][u] # NULL /\ (member[t][u] = "owner" <=> member'[t][u] = "owner")
  <2>1. CASE s = t /\ w = u
    BY <1>4, <2>1, RoleAssumption DEF SetRole, OneOwner, MemberTable
  <2>2. CASE ~(s = t /\ w = u)
    <3>1. member'[t][u] = member[t][u]
      BY <1>4, <2>2 DEF SetRole, OneOwner, MemberTable
    <3> QED
      BY <3>1
  <2> QED
    BY <2>1, <2>2
<1> QED
  BY <1>1, <1>2, <1>3, <1>4 DEF Next
=============================================================================
