--------------------------- MODULE ProjectMembers ---------------------------
(***************************************************************************)
(* The project itself and its members.                                     *)
(***************************************************************************)
EXTENDS ApiRequests

CONSTANTS
  GivenRoles   \* bound: the roles that requests give

ASSUME MembersAssumption == GivenRoles \subseteq Roles

VARIABLES
  orgMembers,  \* the members of the organization
  personas,    \* personas[u]: the personas of u's membership
  everMember   \* history: who has been a member of the project

memberVars == <<orgMembers, personas, everMember>>

\* What the personas of a member allow.
Personas == {"none", "developer", "stakeholder"}

Owners  == {u \in Users : role[u] = "owner"}
Members == {u \in Users : role[u] # None}

MembersInit ==
  /\ orgMembers \in {S \in SUBSET Users : Members \subseteq S}
  /\ personas = [u \in Users |-> "none"]
  /\ everMember = Members

MembersTypeOK ==
  /\ orgMembers \subseteq Users
  /\ personas \in [Users -> Personas]
  /\ Members \subseteq orgMembers \cap everMember

-----------------------------------------------------------------------------
(* Requests.                                                               *)

AcceptMemberRequest(r) ==
  /\ area = "members"
  /\ \E u, v \in Users :
       \/ \E g \in GivenRoles, p \in Personas \cup {None} :
            Accept(r, u, Managers, "addMember", [user |-> v, given |-> g, personas |-> p])
       \/ \E g \in GivenRoles :
            Accept(r, u, Managers, "updateRole", [user |-> v, given |-> g])
       \/ \E p \in Personas :
            Accept(r, u, Everybody, "updatePersonas", [user |-> v, given |-> p])
  /\ UNCHANGED memberVars

\* Members may leave and the project may be removed under any other request.
AcceptRemoval(r) ==
  /\ area # "linear"
  /\ \E u, v \in Users : Accept(r, u, Managers, "removeMember", [user |-> v])
  /\ UNCHANGED memberVars

AcceptProjectRequest(r) ==
  /\ \E u \in Users :
       \/ area = "project" /\ project = "none" /\ Enters(r, u, "createProject", None)
       \/ area = "project" /\ Accept(r, u, Managers, "updateProject", None)
       \/ area # "linear" /\ Accept(r, u, {"owner"}, "removeProject", None)
  /\ UNCHANGED memberVars

\* Handlers of members and projects look up the project first.
EnsureProject(r) ==
  /\ at[r] = "accepted"
  /\ ctx[r].op \in {"addMember", "updateRole", "updatePersonas", "removeMember",
                    "updateProject", "removeProject"}
  /\ project = "live"
  /\ Goto(r, "ensured", None)
  /\ UNCHANGED <<projectVars, memberVars>>

-----------------------------------------------------------------------------
(* The project.                                                            *)

\* A project is created together with its first owner.
CreateProject(r) ==
  /\ On(r, "createProject", "accepted")
  /\ project = "none"   \* bound: one project
  /\ ctx[r].by \in orgMembers
  /\ project' = "live"
  /\ role' = [role EXCEPT ![ctx[r].by] = "owner"]
  /\ everMember' = {ctx[r].by}
  /\ Write(r, "log")
  /\ UNCHANGED <<area, activity, orgMembers, personas>>

UpdateProject(r) ==
  /\ On(r, "updateProject", "ensured")
  /\ project = "live"
  /\ Write(r, "log")
  /\ UNCHANGED <<projectVars, memberVars>>

LogRemoval(r) ==
  /\ On(r, "removeProject", "ensured")
  /\ project = "live"
  /\ activity' = activity \cup {"removeProject"}
  /\ Goto(r, "delete", None)
  /\ UNCHANGED <<area, project, role, memberVars>>

\* The database removes the members and the activity with the project; for the rows
\* of the other modules see Workspace.
RemoveProject(r) ==
  /\ On(r, "removeProject", "delete")
  /\ project = "live"
  /\ project' = "removed"
  /\ role' = [u \in Users |-> None]
  /\ activity' = {}
  /\ personas' = [u \in Users |-> "none"]
  /\ Write(r, "done")
  /\ UNCHANGED <<area, orgMembers, everMember>>

-----------------------------------------------------------------------------
(* Its members.                                                            *)

\* A user who is added becomes a member of the organization first.
JoinOrganization(r) ==
  /\ On(r, "addMember", "ensured")
  /\ ctx[r].what.user \notin orgMembers
  /\ orgMembers' = orgMembers \cup {ctx[r].what.user}
  /\ Write(r, "joined")
  /\ UNCHANGED <<projectVars, personas, everMember>>

\* Adding a member again gives that member the role, and the personas if the
\* request names some; a new member has none but those.
AddMember(r) ==
  /\ \/ On(r, "addMember", "joined")
     \/ On(r, "addMember", "ensured") /\ ctx[r].what.user \in orgMembers
  /\ project = "live"
  /\ role' = [role EXCEPT ![ctx[r].what.user] = ctx[r].what.given]
  /\ personas' = [personas EXCEPT ![ctx[r].what.user] =
                    IF ctx[r].what.personas = None THEN @ ELSE ctx[r].what.personas]
  /\ everMember' = everMember \cup {ctx[r].what.user}
  /\ Write(r, "done")
  /\ UNCHANGED <<area, project, activity, orgMembers>>

UpdateRole(r) ==
  /\ On(r, "updateRole", "ensured")
  /\ ctx[r].what.user \in Members
  /\ role' = [role EXCEPT ![ctx[r].what.user] = ctx[r].what.given]
  /\ Write(r, "done")
  /\ UNCHANGED <<area, project, activity, memberVars>>

UpdatePersonas(r) ==
  /\ On(r, "updatePersonas", "ensured")
  /\ ctx[r].what.user \in Members
  /\ personas' = [personas EXCEPT ![ctx[r].what.user] = ctx[r].what.given]
  /\ Write(r, "done")
  /\ UNCHANGED <<projectVars, orgMembers, everMember>>

CountOwners(r) ==
  /\ On(r, "removeMember", "ensured")
  /\ Goto(r, "counted", Cardinality(Owners))
  /\ UNCHANGED <<projectVars, memberVars>>

\* Mutant: the count includes the owner who is to go, and one more is not asked.
MayGoAtOne(v, owners) == role[v] = "owner" => owners >= 1

\* The last owner stays.
MayGo(v, owners) == role[v] = "owner" => owners > 1

CheckOwner(r) ==
  /\ On(r, "removeMember", "counted")
  /\ ctx[r].what.user \in Members
  /\ MayGo(ctx[r].what.user, ctx[r].seen)
  /\ Goto(r, "delete", None)
  /\ UNCHANGED <<projectVars, memberVars>>

RemoveMember(r) ==
  /\ On(r, "removeMember", "delete")
  /\ ctx[r].what.user \in Members
  /\ role' = [role EXCEPT ![ctx[r].what.user] = None]
  /\ personas' = [personas EXCEPT ![ctx[r].what.user] = "none"]
  /\ Write(r, "done")
  /\ UNCHANGED <<area, project, activity, orgMembers, everMember>>

\* Everything but the removal of the project.
MembersStep(r) ==
  \/ AcceptMemberRequest(r) \/ AcceptRemoval(r) \/ AcceptProjectRequest(r)
  \/ EnsureProject(r) \/ CreateProject(r) \/ UpdateProject(r) \/ LogRemoval(r)
  \/ JoinOrganization(r) \/ AddMember(r) \/ UpdateRole(r) \/ UpdatePersonas(r)
  \/ CountOwners(r) \/ CheckOwner(r) \/ RemoveMember(r)
=============================================================================
