--------------------------- MODULE WorkspaceProofs ---------------------------
(***************************************************************************)
(* What the API keeps of a project, for any number of users and requests:  *)
(* the invariants and the properties of steps of Workspace.                *)
(*                                                                         *)
(* Owners.  A removal of a member counts the owners in one call and        *)
(* deletes in a later one.  As long as it is quiet nobody has written      *)
(* since it came in, so what it counted is still true; and every step that *)
(* changes a role ends the quiet of all other requests under way.          *)
(*                                                                         *)
(* Types.  A request fits the part of the API that its operation belongs   *)
(* to: its argument and what its handler has read have the types that the  *)
(* writes of that part need.                                               *)
(*                                                                         *)
(* Outsiders, answers, handlers alone.  Each has an invariant that says    *)
(* what a handler knows between the call that checks or reads and the one  *)
(* that writes.  A step leaves its request with an operation of its own    *)
(* part, so one part at a time has to be looked at.                        *)
(***************************************************************************)
EXTENDS Workspace, FiniteSetTheorems, SequenceTheorems, WellFoundedInduction,
        NaturalsInduction, TLAPS

\* A removal that has looked at the owners.
Looked(r) == ctx[r].op = "removeMember" /\ at[r] \in {"counted", "delete"}

\* What it knows of them.
Knows(r) ==
  /\ at[r] = "counted" => ctx[r].seen = Cardinality(Owners)
  /\ at[r] = "delete" => (role[ctx[r].what.user] = "owner" => Cardinality(Owners) > 1)

\* The roles are a function, and so is what is known of the requests.
Tables ==
  /\ role = [u \in Users |-> role[u]]
  /\ at = [q \in Requests |-> at[q]]
  /\ ctx = [q \in Requests |-> ctx[q]]

\* The invariant of the owners: what a quiet removal knows of them is true.
OInv ==
  /\ Tables
  /\ \A r \in Requests : Looked(r) /\ ctx[r].quiet => Knows(r)

-----------------------------------------------------------------------------
(* What a step of request r does to what the invariant speaks of.          *)

\* The other requests are where they were, with what they knew.
Others(r) ==
  /\ at' = [q \in Requests |-> at'[q]]
  /\ ctx' = [q \in Requests |-> ctx'[q]]
  /\ \A q \in Requests : q # r =>
       /\ at'[q] = at[q]
       /\ ctx'[q].op = ctx[q].op /\ ctx'[q].by = ctx[q].by
       /\ ctx'[q].what = ctx[q].what
       /\ ctx'[q].seen = ctx[q].seen
       /\ ctx'[q].quiet => ctx[q].quiet
       /\ ctx[q].quiet \in BOOLEAN => ctx'[q].quiet \in BOOLEAN

\* And r has not just looked at the owners.
Frame(r) == Others(r) /\ ~Looked(r)'

\* r is the last to have written.
Disturbs(r) == \A q \in Requests : q # r /\ Started(q) => ~ctx'[q].quiet

\* A step of r that changes no role.
KeepsRoles(r) == Frame(r) /\ role' = role

\* A step of r that writes roles.
ChangesRoles(r) == Frame(r) /\ Disturbs(r) /\ role' = [u \in Users |-> role'[u]]

\* A step that changes no role leaves the invariant as it was.
LEMMA KeepsInvariant ==
  ASSUME OInv, NEW r \in Requests, KeepsRoles(r)
  PROVE  OInv'
<1>1. Owners' = Owners
  BY DEF KeepsRoles, Owners
<1>2. Tables'
  BY DEF OInv, Tables, KeepsRoles, Frame, Others
<1>3. ASSUME NEW q \in Requests, Looked(q)', ctx'[q].quiet
      PROVE  Knows(q)'
  <2>1. q # r
    BY <1>3 DEF KeepsRoles, Frame, Others
  <2>2. /\ at'[q] = at[q] /\ ctx'[q].op = ctx[q].op /\ ctx'[q].what = ctx[q].what
        /\ ctx'[q].seen = ctx[q].seen /\ ctx[q].quiet
    BY <1>3, <2>1 DEF KeepsRoles, Frame, Others
  <2>3. Knows(q)
    BY <1>3, <2>2 DEF OInv, Looked
  <2> QED
    BY <1>1, <2>2, <2>3 DEF Knows, KeepsRoles
<1> QED
  BY <1>2, <1>3 DEF OInv

\* A step that changes roles keeps the invariant: no other removal stays quiet.
LEMMA ChangesKeepInvariant ==
  ASSUME OInv, NEW r \in Requests, ChangesRoles(r)
  PROVE  OInv'
<1>1. Tables'
  BY DEF OInv, Tables, ChangesRoles, Frame, Others
<1>2. ASSUME NEW q \in Requests, Looked(q)', ctx'[q].quiet
      PROVE  FALSE
  <2>1. q # r
    BY <1>2 DEF ChangesRoles, Frame, Others
  <2>2. at[q] \in {"counted", "delete"}
    BY <1>2, <2>1 DEF ChangesRoles, Frame, Others, Looked
  <2> QED
    BY <1>2, <2>1, <2>2 DEF ChangesRoles, Disturbs, Started
<1> QED
  BY <1>1, <1>2 DEF OInv

-----------------------------------------------------------------------------
(* The steps that handlers are made of.                                    *)

\* A request that comes in leaves the other requests alone.
LEMMA EntersLeaves ==
  ASSUME Tables, NEW r \in Requests, NEW u, NEW o, NEW x, Enters(r, u, o, x)
  PROVE  Others(r)
BY DEF Tables, Others, Enters, Context

\* A step without a write leaves the other requests alone.
LEMMA GotoLeaves ==
  ASSUME Tables, NEW r \in Requests, NEW s, NEW x, Goto(r, s, x)
  PROVE  Others(r)
BY DEF Tables, Others, Goto, Context

\* A request that ends leaves the other requests alone.
LEMMA EndLeaves ==
  ASSUME Tables, NEW r \in Requests, End(r)
  PROVE  Others(r)
BY DEF Tables, Others, End

\* A write leaves the other requests where they are and ends their quiet.
LEMMA WriteLeaves ==
  ASSUME Tables, NEW r \in Requests, NEW s, Write(r, s)
  PROVE  Others(r) /\ Disturbs(r)
<1>1. at' = [q \in Requests |-> at'[q]] /\ ctx' = [q \in Requests |-> ctx'[q]]
  BY DEF Tables, Write
<1>2. ASSUME NEW q \in Requests, q # r
      PROVE  /\ at'[q] = at[q]
             /\ ctx'[q] = Context(ctx[q].op, ctx[q].by, ctx[q].what, ctx[q].seen,
                                  ctx[q].quiet /\ ~Started(q))
  BY <1>2 DEF Tables, Write
<1>3. ASSUME NEW q \in Requests, q # r
      PROVE  /\ at'[q] = at[q] /\ ctx'[q].op = ctx[q].op /\ ctx'[q].what = ctx[q].what
             /\ ctx'[q].seen = ctx[q].seen /\ ctx'[q].by = ctx[q].by
             /\ ctx'[q].quiet => ctx[q].quiet
             /\ ctx'[q].quiet \in BOOLEAN
             /\ Started(q) => ~ctx'[q].quiet
  <2> DEFINE next == Context(ctx[q].op, ctx[q].by, ctx[q].what, ctx[q].seen,
                             ctx[q].quiet /\ ~Started(q))
  <2>1. at'[q] = at[q] /\ ctx'[q] = next
    BY <1>2, <1>3
  <2>2. /\ next.op = ctx[q].op /\ next.what = ctx[q].what /\ next.seen = ctx[q].seen
        /\ next.by = ctx[q].by
    BY DEF Context
  <2>3. (next.quiet <=> ctx[q].quiet /\ ~Started(q)) /\ next.quiet \in BOOLEAN
    BY DEF Context
  <2> HIDE DEF next
  <2> QED
    BY <2>1, <2>2, <2>3
<1> QED
  BY <1>1, <1>3 DEF Others, Disturbs

\* A request that comes in changes no role.
LEMMA EntersKeeps ==
  ASSUME OInv, NEW r \in Requests, NEW u, NEW o, NEW x, Enters(r, u, o, x)
  PROVE  KeepsRoles(r)
<1>1. ~Looked(r)'
  BY DEF OInv, Tables, Looked, Enters
<1> QED
  BY <1>1, EntersLeaves DEF OInv, KeepsRoles, Frame, Enters, projectVars

\* A request that is accepted changes no role.
LEMMA AcceptKeeps ==
  ASSUME OInv, NEW r \in Requests, NEW u, NEW s, NEW o, NEW x, Accept(r, u, s, o, x)
  PROVE  KeepsRoles(r)
BY EntersKeeps DEF Accept

\* A handler that goes on elsewhere has not looked at the owners.
LEMMA GotoFrames ==
  ASSUME OInv, NEW r \in Requests, NEW s, NEW x, Goto(r, s, x),
         ctx[r].op = "removeMember" => s \notin {"counted", "delete"}
  PROVE  Frame(r)
<1>1. ~Looked(r)'
  BY DEF OInv, Tables, Looked, Goto, Context
<1> QED
  BY <1>1, GotoLeaves DEF OInv, Frame

\* A request that is over has not looked at the owners.
LEMMA EndFrames ==
  ASSUME OInv, NEW r \in Requests, End(r)
  PROVE  Frame(r)
<1>1. ~Looked(r)'
  BY DEF OInv, Tables, Looked, End
<1> QED
  BY <1>1, EndLeaves DEF OInv, Frame

\* Nor has one that has just written.
LEMMA WriteFrames ==
  ASSUME OInv, NEW r \in Requests, NEW s, Write(r, s), s \notin {"counted", "delete"}
  PROVE  Frame(r) /\ Disturbs(r)
<1>1. ~Looked(r)'
  BY DEF OInv, Tables, Write, Looked
<1> QED
  BY <1>1, WriteLeaves DEF OInv, Frame

-----------------------------------------------------------------------------
(* The parts of the API; only requests to members and to the project change *)
(* roles.                                                                  *)

\* No step of a request to a task changes a role.
LEMMA TaskKeeps ==
  ASSUME OInv, NEW r \in Requests, TaskStep(r)
  PROVE  KeepsRoles(r)
<1>1. CASE AcceptTaskRequest(r)
  BY <1>1, AcceptKeeps DEF AcceptTaskRequest
<1>2. CASE FindTask(r)
  BY <1>2, GotoFrames DEF FindTask, KeepsRoles, projectVars
<1>3. CASE CheckAssignee(r)
  BY <1>3, GotoFrames DEF CheckAssignee, KeepsRoles, projectVars, On
<1>4. CASE PlaceTask(r)
  BY <1>4, GotoFrames DEF PlaceTask, KeepsRoles, projectVars, On
<1>5. CASE CreateTask(r)
  BY <1>5, WriteFrames DEF CreateTask, KeepsRoles, projectVars
<1>6. CASE UpdateTask(r)
  BY <1>6, WriteFrames DEF UpdateTask, KeepsRoles, projectVars
<1>7. CASE FindTasks(r)
  BY <1>7, GotoFrames DEF FindTasks, KeepsRoles, projectVars, On
<1>8. CASE ReorderTasks(r)
  BY <1>8, WriteFrames DEF ReorderTasks, KeepsRoles, projectVars
<1>9. CASE RemoveTask(r)
  BY <1>9, WriteFrames DEF RemoveTask, KeepsRoles, projectVars
<1> QED
  BY <1>1, <1>2, <1>3, <1>4, <1>5, <1>6, <1>7, <1>8, <1>9 DEF TaskStep

\* No step of a request to the project's keys, or of one that comes with a key,
\* changes a role.
LEMMA KeyKeeps ==
  ASSUME OInv, NEW r \in Requests, KeyStep(r)
  PROVE  KeepsRoles(r)
<1>1. CASE AcceptKeyRequest(r)
  BY <1>1, AcceptKeeps DEF AcceptKeyRequest
<1>2. CASE CheckName(r)
  BY <1>2, GotoFrames DEF CheckName, KeepsRoles, projectVars, On
<1>3. CASE CreateKey(r)
  BY <1>3, WriteFrames DEF CreateKey, KeepsRoles, projectVars
<1>4. CASE FindKey(r)
  BY <1>4, GotoFrames DEF FindKey, KeepsRoles, projectVars
<1>5. CASE RevokeKey(r)
  BY <1>5, WriteFrames DEF RevokeKey, KeepsRoles, projectVars
<1>6. CASE FindsKey(r)
  BY <1>6, EntersKeeps DEF FindsKey, OInv, Tables, Frame, Others, Looked, Context, KeepsRoles, projectVars
<1>7. CASE TouchKey(r)
  BY <1>7, WriteFrames DEF TouchKey, KeepsRoles, projectVars
<1>8. CASE MarkTaskComplete(r)
  BY <1>8, WriteFrames DEF MarkTaskComplete, KeepsRoles, projectVars
<1> QED
  BY <1>1, <1>2, <1>3, <1>4, <1>5, <1>6, <1>7, <1>8 DEF KeyStep

\* No step of a request to a document changes a role.
LEMMA DocKeeps ==
  ASSUME OInv, NEW r \in Requests, DocStep(r)
  PROVE  KeepsRoles(r)
<1>1. CASE AcceptDocRequest(r)
  BY <1>1, AcceptKeeps DEF AcceptDocRequest
<1>2. CASE AgentWritesDoc(r)
  BY <1>2, EntersKeeps DEF AgentWritesDoc
<1>3. CASE CreateDoc(r)
  BY <1>3, WriteFrames DEF CreateDoc, KeepsRoles, projectVars
<1>4. CASE ReadDoc(r)
  BY <1>4, GotoFrames DEF ReadDoc, KeepsRoles, projectVars
<1>5. CASE WriteDoc(r)
  BY <1>5, WriteFrames DEF WriteDoc, KeepsRoles, projectVars
<1>6. CASE RemoveDoc(r)
  BY <1>6, WriteFrames DEF RemoveDoc, KeepsRoles, projectVars
<1> QED
  BY <1>1, <1>2, <1>3, <1>4, <1>5, <1>6 DEF DocStep

\* No step of a request to a requirement or a skill changes a role.
LEMMA RowKeeps ==
  ASSUME OInv, NEW r \in Requests, RowStep(r)
  PROVE  KeepsRoles(r)
<1>1. CASE AcceptRowRequest(r)
  BY <1>1, AcceptKeeps DEF AcceptRowRequest
<1>2. CASE CreateRequirement(r)
  BY <1>2, WriteFrames DEF CreateRequirement, KeepsRoles, projectVars
<1>3. CASE FindRow(r)
  BY <1>3, GotoFrames DEF FindRow, KeepsRoles, projectVars
<1>4. CASE UpdateRequirement(r)
  BY <1>4, WriteFrames DEF UpdateRequirement, KeepsRoles, projectVars
<1>5. CASE RemoveRequirement(r)
  BY <1>5, WriteFrames DEF RemoveRequirement, KeepsRoles, projectVars
<1>6. CASE CreateSkill(r)
  BY <1>6, WriteFrames DEF CreateSkill, KeepsRoles, projectVars
<1>7. CASE UpdateSkill(r)
  BY <1>7, WriteFrames DEF UpdateSkill, KeepsRoles, projectVars
<1>8. CASE RemoveSkill(r)
  BY <1>8, WriteFrames DEF RemoveSkill, KeepsRoles, projectVars
<1> QED
  BY <1>1, <1>2, <1>3, <1>4, <1>5, <1>6, <1>7, <1>8 DEF RowStep

\* No step of a request to the connection to Linear changes a role.
LEMMA LinearKeeps ==
  ASSUME OInv, NEW r \in Requests, LinearStep(r)
  PROVE  KeepsRoles(r)
<1>1. CASE AcceptLinearRequest(r)
  BY <1>1, EntersKeeps DEF AcceptLinearRequest
<1>2. CASE VerifyNewToken(r)
  BY <1>2, GotoFrames DEF VerifyNewToken, KeepsRoles, projectVars
<1>3. CASE Connect(r)
  BY <1>3, WriteFrames DEF Connect, KeepsRoles, projectVars
<1>4. CASE FindConnection(r)
  BY <1>4, GotoFrames DEF FindConnection, KeepsRoles, projectVars
<1>5. CASE Disconnect(r)
  BY <1>5, WriteFrames DEF Disconnect, KeepsRoles, projectVars
<1>6. CASE AskLinear(r)
  BY <1>6, GotoFrames DEF AskLinear, KeepsRoles, projectVars
<1>7. CASE CannotDecrypt(r)
  BY <1>7, GotoFrames DEF CannotDecrypt, KeepsRoles, projectVars
<1>8. CASE SaveVerification(r)
  BY <1>8, WriteFrames DEF SaveVerification, KeepsRoles, projectVars
<1> QED
  BY <1>1, <1>2, <1>3, <1>4, <1>5, <1>6, <1>7, <1>8 DEF LinearStep

\* No step of a request to the linked repositories changes a role.
LEMMA RepositoryKeeps ==
  ASSUME OInv, NEW r \in Requests, RepositoryStep(r)
  PROVE  KeepsRoles(r)
<1>1. CASE AcceptRepositoryRequest(r)
  BY <1>1, AcceptKeeps DEF AcceptRepositoryRequest
<1>2. CASE EnsureLinkedRow(r)
  BY <1>2, GotoFrames DEF EnsureLinkedRow, KeepsRoles, projectVars
<1>3. CASE CreateOctokitForUser(r)
  BY <1>3, GotoFrames DEF CreateOctokitForUser, KeepsRoles, projectVars
<1>4. CASE GetFromGithub(r)
  BY <1>4, GotoFrames DEF GetFromGithub, KeepsRoles, projectVars
<1>5. CASE LinkRepository(r)
  BY <1>5, WriteFrames DEF LinkRepository, KeepsRoles, projectVars
<1>6. CASE UnlinkRepository(r)
  BY <1>6, WriteFrames DEF UnlinkRepository, KeepsRoles, projectVars
<1>7. CASE RefreshRepository(r)
  BY <1>7, WriteFrames DEF RefreshRepository, KeepsRoles, projectVars
<1>8. CASE Serve(r)
  BY <1>8, EndFrames DEF Serve, KeepsRoles, projectVars
<1>9. CASE Fetch(r)
  BY <1>9, GotoFrames DEF Fetch, KeepsRoles, projectVars
<1>10. CASE Keep(r)
  BY <1>10, EndFrames DEF Keep, KeepsRoles, projectVars
<1> QED
  BY <1>1, <1>2, <1>3, <1>4, <1>5, <1>6, <1>7, <1>8, <1>9, <1>10 DEF RepositoryStep

\* No step of a request to the chat sessions and their rooms changes a role.
LEMMA RoomKeeps ==
  ASSUME OInv, NEW r \in Requests, RoomStep(r)
  PROVE  KeepsRoles(r)
<1>1. CASE AcceptRoomRequest(r)
  BY <1>1, AcceptKeeps, EntersKeeps DEF AcceptRoomRequest
<1>2. CASE CreateSession(r)
  BY <1>2, WriteFrames DEF CreateSession, KeepsRoles, projectVars
<1>3. CASE FindSession(r)
  BY <1>3, GotoFrames DEF FindSession, KeepsRoles, projectVars
<1>4. CASE CheckMembership(r)
  BY <1>4, GotoFrames DEF CheckMembership, KeepsRoles, projectVars
<1>5. CASE Join(r)
  BY <1>5, EndFrames DEF Join, KeepsRoles, projectVars
<1>6. CASE StoreMessage(r)
  BY <1>6, WriteFrames DEF StoreMessage, KeepsRoles, projectVars
<1> QED
  BY <1>1, <1>2, <1>3, <1>4, <1>5, <1>6 DEF RoomStep

\* No step of a request to Ragnarock's chat changes a role.
LEMMA RagnarockKeeps ==
  ASSUME OInv, NEW r \in Requests, RagnarockStep(r)
  PROVE  KeepsRoles(r)
<1>1. CASE AcceptRagnarockRequest(r)
  BY <1>1, AcceptKeeps DEF AcceptRagnarockRequest
<1>2. CASE CreateChat(r)
  BY <1>2, WriteFrames DEF CreateChat, KeepsRoles, projectVars
<1>3. CASE FindChat(r)
  BY <1>3, GotoFrames DEF FindChat, KeepsRoles, projectVars
<1>4. CASE StoreQuestion(r)
  BY <1>4, WriteFrames DEF StoreQuestion, KeepsRoles, projectVars
<1>5. CASE QueueQuestion(r)
  BY <1>5, WriteFrames DEF QueueQuestion, KeepsRoles, projectVars
<1> QED
  BY <1>1, <1>2, <1>3, <1>4, <1>5 DEF RagnarockStep

\* The check that the caller may change the project changes no role.
LEMMA ContributorKeeps ==
  ASSUME OInv, NEW r \in Requests, NEW p, CheckContributor(r, p)
  PROVE  KeepsRoles(r)
BY GotoFrames DEF CheckContributor, KeepsRoles, projectVars

\* Giving up, and writing the activity log, change no role.
LEMMA EndKeeps ==
  ASSUME OInv, NEW r \in Requests, Stops(r) \/ Log(r)
  PROVE  KeepsRoles(r)
BY EndFrames DEF Stops, Log, KeepsRoles, projectVars

\* The steps of members and of the project that leave the roles alone.
LEMMA MembersKeep ==
  ASSUME OInv, NEW r \in Requests, MembersStep(r)
  PROVE  \/ KeepsRoles(r)
         \/ CreateProject(r) \/ AddMember(r) \/ UpdateRole(r) \/ RemoveMember(r)
         \/ CountOwners(r) \/ CheckOwner(r)
<1>1. CASE AcceptMemberRequest(r)
  BY <1>1, AcceptKeeps DEF AcceptMemberRequest
<1>2. CASE AcceptRemoval(r)
  BY <1>2, AcceptKeeps DEF AcceptRemoval
<1>3. CASE AcceptProjectRequest(r)
  BY <1>3, AcceptKeeps, EntersKeeps DEF AcceptProjectRequest
<1>4. CASE EnsureProject(r)
  BY <1>4, GotoFrames DEF EnsureProject, KeepsRoles, projectVars
<1>5. CASE UpdateProject(r)
  BY <1>5, WriteFrames DEF UpdateProject, KeepsRoles, projectVars
<1>6. CASE LogRemoval(r)
  BY <1>6, GotoFrames DEF LogRemoval, KeepsRoles, projectVars, On
<1>7. CASE JoinOrganization(r)
  BY <1>7, WriteFrames DEF JoinOrganization, KeepsRoles, projectVars
<1>8. CASE UpdatePersonas(r)
  BY <1>8, WriteFrames DEF UpdatePersonas, KeepsRoles, projectVars
<1> QED
  BY <1>1, <1>2, <1>3, <1>4, <1>5, <1>6, <1>7, <1>8 DEF MembersStep

\* The steps that change roles.
LEMMA RolesChange ==
  ASSUME OInv, NEW r \in Requests,
         \/ CreateProject(r) \/ AddMember(r) \/ UpdateRole(r) \/ RemoveMember(r)
         \/ RemoveProject(r)
  PROVE  ChangesRoles(r)
<1>1. CASE CreateProject(r)
  BY <1>1, WriteFrames DEF CreateProject, ChangesRoles, OInv, Tables
<1>2. CASE AddMember(r)
  BY <1>2, WriteFrames DEF AddMember, ChangesRoles, OInv, Tables
<1>3. CASE UpdateRole(r)
  BY <1>3, WriteFrames DEF UpdateRole, ChangesRoles, OInv, Tables
<1>4. CASE RemoveMember(r)
  BY <1>4, WriteFrames DEF RemoveMember, ChangesRoles, OInv, Tables
<1>5. CASE RemoveProject(r)
  BY <1>5, WriteFrames DEF RemoveProject, ChangesRoles, OInv, Tables
<1> QED
  BY <1>1, <1>2, <1>3, <1>4, <1>5

\* A removal that counts the owners, or checks what it counted, knows the number.
LEMMA LookingKeeps ==
  ASSUME OInv, NEW r \in Requests, CountOwners(r) \/ CheckOwner(r)
  PROVE  OInv' /\ role' = role
<1>1. role' = role /\ Owners' = Owners
  BY DEF CountOwners, CheckOwner, projectVars, Owners
<1>2. PICK s, x : Goto(r, s, x)
  BY DEF CountOwners, CheckOwner
<1>3. Tables'
  BY <1>1, <1>2 DEF OInv, Tables, Goto
<1>4. ASSUME NEW q \in Requests, q # r, Looked(q)', ctx'[q].quiet
      PROVE  Knows(q)'
  <2>1. at'[q] = at[q] /\ ctx'[q] = ctx[q]
    BY <1>2, <1>4 DEF OInv, Tables, Goto
  <2>2. Knows(q)
    BY <1>4, <2>1 DEF OInv, Looked
  <2> QED
    BY <1>1, <2>1, <2>2 DEF Knows
<1>5. ASSUME CountOwners(r)
      PROVE  Knows(r)'
  <2>1. at'[r] = "counted" /\ ctx'[r].seen = Cardinality(Owners)
    BY <1>5 DEF CountOwners, Goto, OInv, Tables, Context
  <2> QED
    BY <1>1, <2>1 DEF Knows
<1>6. ASSUME CheckOwner(r), ctx'[r].quiet
      PROVE  Knows(r)'
  <2>1. /\ at[r] = "counted" /\ ctx[r].op = "removeMember"
        /\ MayGo(ctx[r].what.user, ctx[r].seen)
    BY <1>6 DEF CheckOwner, On
  <2>2. /\ at'[r] = "delete"
        /\ ctx'[r] = Context(ctx[r].op, ctx[r].by, ctx[r].what, None, ctx[r].quiet)
    BY <1>6 DEF CheckOwner, Goto, OInv, Tables
  <2>3. ctx'[r].what = ctx[r].what /\ ctx[r].quiet
    BY <1>6, <2>2 DEF Context
  <2>4. ctx[r].seen = Cardinality(Owners)
    BY <2>1, <2>3 DEF OInv, Looked, Knows
  <2> QED
    BY <1>1, <2>1, <2>2, <2>3, <2>4 DEF Knows, MayGo
<1> QED
  BY <1>1, <1>3, <1>4, <1>5, <1>6 DEF OInv

-----------------------------------------------------------------------------
(* The composition.                                                        *)

\* Every step of a request is one of these.
LEMMA RequestSteps ==
  ASSUME OInv, NEW r \in Requests, RequestStep(r)
  PROVE  \/ KeepsRoles(r)
         \/ CreateProject(r) \/ AddMember(r) \/ UpdateRole(r) \/ RemoveMember(r)
         \/ RemoveProject(r)
         \/ CountOwners(r) \/ CheckOwner(r)
<1>1. CASE ContentStep(r)
  BY <1>1, TaskKeeps, KeyKeeps, DocKeeps, RowKeeps DEF ContentStep
<1>2. CASE RoomStep(r) \/ CheckContributor(r, personas[ctx[r].by])
  BY <1>2, RoomKeeps, ContributorKeeps
<1> QED
  BY <1>1, <1>2, MembersKeep, LinearKeeps, RepositoryKeeps, RagnarockKeeps, EndKeeps
  DEF RequestStep, OtherRequests

\* Time, Linear, GitHub and the sockets reach neither roles nor requests.
LEMMA NothingElse ==
  ASSUME Environment \/ UNCHANGED vars
  PROVE  UNCHANGED <<role, at, ctx>>
BY DEF Environment, vars, baseVars, projectVars, requestVars, KeyExpires, RevokeToken,
       Tick, DeleteOnGithub, Leave, Emit, HandleAnswer

\* No removal has looked at the owners when the API starts.
LEMMA InvariantAtFirst ==
  ASSUME Init
  PROVE  OInv
<1>1. Tables
  BY WorkspaceAssumption DEF Init, ApiInit, Tables
<1>2. \A r \in Requests : ~Looked(r)
  BY DEF Init, ApiInit, Looked
<1> QED
  BY <1>1, <1>2 DEF OInv

\* The invariant is inductive.
LEMMA InvariantKept ==
  ASSUME OInv, [Next]_vars
  PROVE  OInv'
<1>1. CASE Environment \/ UNCHANGED vars
  <2>1. UNCHANGED <<role, at, ctx>>
    BY <1>1, NothingElse
  <2> QED
    BY <2>1 DEF OInv, Tables, Looked, Knows, Owners
<1>2. ASSUME NEW r \in Requests, RequestStep(r)
      PROVE  OInv'
  BY <1>2, RequestSteps, RolesChange, LookingKeeps, KeepsInvariant, ChangesKeepInvariant
<1> QED
  BY <1>1, <1>2 DEF Next

\* A quiet removal leaves an owner.
LEMMA QuietRemovals ==
  ASSUME OInv, NEW r \in Requests, RemoveMember(r), ctx[r].quiet, Owners # {}
  PROVE  Owners' # {}
<1> DEFINE v == ctx[r].what.user
<1>1. /\ at[r] = "delete" /\ ctx[r].op = "removeMember"
      /\ role' = [role EXCEPT ![v] = None]
  BY DEF RemoveMember, On
<1>2. role[v] = "owner" => Cardinality(Owners) > 1
  BY <1>1 DEF OInv, Looked, Knows
<1>3. \A u \in Users : u # v => role'[u] = role[u]
  BY <1>1 DEF OInv, Tables
<1>4. PICK u \in Owners : u # v
  <2>1. CASE role[v] = "owner"
    <3>1. Cardinality(Owners) > 1
      BY <1>2, <2>1
    <3>2. SUFFICES ASSUME \A u \in Owners : u = v
                   PROVE  FALSE
      OBVIOUS
    <3>3. Owners = {v}
      BY <3>2
    <3>4. Cardinality({v}) = 1
      BY FS_Singleton
    <3> QED
      BY <3>1, <3>3, <3>4
  <2>2. CASE role[v] # "owner"
    BY <2>2 DEF Owners
  <2> QED
    BY <2>1, <2>2
<1> QED
  BY <1>3, <1>4 DEF Owners

\* What OwnersKept says of a step follows from the invariant.
LEMMA OwnersStayStep ==
  ASSUME OInv, [Next]_vars
  PROVE  [OwnersStay]_vars
<1>1. CASE Environment \/ UNCHANGED vars
  BY <1>1, NothingElse DEF OwnersStay, Owners
<1>2. ASSUME NEW r \in Requests, RequestStep(r)
      PROVE  OwnersStay
  <2>1. CASE role' = role
    BY <2>1 DEF OwnersStay, Owners
  <2>2. CASE CreateProject(r)
    <3>1. role' = [role EXCEPT ![ctx[r].by] = "owner"]
      BY <2>2 DEF CreateProject
    <3>2. \A u \in Owners : u \in Owners'
      BY <3>1 DEF OInv, Tables, Owners
    <3> QED
      BY <3>2 DEF OwnersStay
  <2>3. CASE AddMember(r) \/ UpdateRole(r)
    BY <2>3 DEF OwnersStay
  <2>4. CASE RemoveMember(r)
    BY <2>4, QuietRemovals DEF OwnersStay
  <2>5. CASE RemoveProject(r)
    BY <2>5 DEF OwnersStay, RemoveProject
  <2> QED
    BY <1>2, RequestSteps, LookingKeeps, <2>1, <2>2, <2>3, <2>4, <2>5 DEF KeepsRoles
<1> QED
  BY <1>1, <1>2 DEF Next

\* A project loses its last owner only by a change of role, by overlapping removals
\* or with the project itself, however many users and requests there are
\* (project-members.service.ts, remove).
THEOREM OwnersAreKept == Spec => OwnersKept
<1>1. Init => OInv
  BY InvariantAtFirst
<1>2. OInv /\ [Next]_vars => OInv'
  BY InvariantKept
<1>3. OInv /\ [Next]_vars => [OwnersStay]_vars
  BY OwnersStayStep
<1> QED
  BY <1>1, <1>2, <1>3, PTL DEF Spec, OwnersKept

-----------------------------------------------------------------------------
(* Types.                                                                  *)

\* What a verification reads of the connection.
Connections == [id : Rows, token : Tokens, status : {"active", "error"}]

\* What a request asks for and what its handler has read, in each part of the API.
MembersFit(r) ==
  /\ ctx[r].op \in {"addMember", "updateRole"} =>
       What(r).user \in Users /\ What(r).given \in Roles
  /\ ctx[r].op = "addMember" => What(r).personas \in Personas \cup {None}
  /\ ctx[r].op = "updatePersonas" => What(r).given \in Personas
  /\ ctx[r].op = "addMember" /\ at[r] = "joined" => What(r).user \in orgMembers

TasksFit(r) ==
  /\ ctx[r].op = "createTask" =>
       What(r).col \in Columns /\ What(r).pos \in {None, 0} /\ What(r).who \in Users \cup {None}
  /\ ctx[r].op = "updateTask" =>
       /\ What(r).col \in Columns \cup {None} /\ What(r).pos \in {None, 0}
       /\ What(r).who \in Users \cup {None, Unnamed}
  /\ ctx[r].op = "createTask" /\ at[r] = "placed" => ctx[r].seen \in Nat
  /\ ctx[r].op = "reorderTasks" =>
       \A i \in DOMAIN What(r) :
         What(r)[i].pos \in Positions /\ What(r)[i].col \in Columns \cup {None}

KeysFit(r) == ctx[r].op = "createKey" => What(r).name \in Names

DocsFit(r) ==
  /\ ctx[r].op \in {"createDoc", "updateDoc", "agentDoc"} => What(r).text \in Texts
  /\ ctx[r].op \in {"updateDoc", "agentDoc"} /\ at[r] = "read" => ctx[r].seen.version \in Nat

RowsFit(r) == ctx[r].op = "createSkill" => What(r) \in Names

LinearFit(r) ==
  /\ ctx[r].op = "connect" => What(r) \in Tokens
  /\ ctx[r].op = "verify" /\ at[r] \in {"found", "answered"} => ctx[r].seen \in Connections

RepositoriesFit(r) ==
  /\ ctx[r].op = "linkRepository" =>
       /\ What(r) \in GithubRepos
       /\ at[r] \in {"octokit", "got"} => ctx[r].seen \in GithubRepos
  /\ ctx[r].op = "readRepository" =>
       What(r) \in Rows

RoomsFit(r) ==
  /\ ctx[r].op = "createSession" => What(r) \in Agents
  /\ ctx[r].op \in {"joinProject", "joinSession"} => What(r) \in Rows \cup {Whole}
  /\ ctx[r].op \in {"joinProject", "joinSession", "submitTurn"} => ctx[r].by \in Users
  /\ at[r] = "member" => ctx[r].op \in {"joinProject", "joinSession"}

RagnarockFit(r) ==
  /\ ctx[r].op = "createChat" => ctx[r].by \in Users
  /\ ctx[r].op = "sendMessage" =>
       /\ What(r) \in Rows
       /\ at[r] \in {"found", "stored"} => Range(ctx[r].seen) \subseteq Message

\* A request fits when it fits every part.
Fits(r) ==
  /\ MembersFit(r) /\ TasksFit(r) /\ KeysFit(r) /\ DocsFit(r) /\ RowsFit(r)
  /\ LinearFit(r) /\ RepositoriesFit(r) /\ RoomsFit(r) /\ RagnarockFit(r)

\* Positions have a bound: there is a last task.
Bounded == \E n \in Nat : \A i \in DOMAIN tasks : tasks[i].pos <= n

\* The invariant of the types.
TypeInv ==
  /\ Tables
  /\ TypeOK
  /\ project = "none" => everMember = {}
  /\ Bounded
  /\ \A r \in Requests : Fits(r)

-----------------------------------------------------------------------------
(* The steps that handlers are made of.                                    *)

\* Where a request that comes in starts.
LEMMA Entered ==
  ASSUME Tables, NEW r \in Requests, NEW u, NEW o, NEW x, Enters(r, u, o, x)
  PROVE  /\ at[r] = "new" /\ at'[r] = "accepted"
         /\ ctx'[r].op = o /\ ctx'[r].by = u /\ ctx'[r].what = x
         /\ ctx'[r].quiet \in BOOLEAN
BY DEF Tables, Enters, MayStart, Context

\* Where a handler goes on.
LEMMA WentOn ==
  ASSUME Tables, NEW r \in Requests, NEW s, NEW x, Goto(r, s, x)
  PROVE  /\ at'[r] = s
         /\ ctx'[r].op = ctx[r].op /\ ctx'[r].by = ctx[r].by
         /\ ctx'[r].what = ctx[r].what /\ ctx'[r].seen = x
         /\ ctx'[r].quiet = ctx[r].quiet
BY DEF Tables, Goto, Context

\* What a handler knows after a write that is not its last.
LEMMA WroteOn ==
  ASSUME Tables, NEW r \in Requests, NEW s, s # "done", Write(r, s)
  PROVE  at'[r] = s /\ ctx'[r] = ctx[r]
BY DEF Tables, Write

\* A request that is over knows nothing.
LEMMA Finished ==
  ASSUME Tables, NEW r \in Requests, End(r) \/ Write(r, "done")
  PROVE  at'[r] = "done" /\ ctx'[r] = Idle
<1>1. CASE End(r)
  BY <1>1 DEF Tables, End
<1>2. CASE Write(r, "done")
  BY <1>2 DEF Tables, Write
<1> QED
  BY <1>1, <1>2

\* An idle request fits.
LEMMA IdleFits ==
  ASSUME NEW r, ctx[r] = Idle, at[r] # "member"
  PROVE  Fits(r)
<1>1. ctx[r].op = "none"
  BY DEF Idle, Context
<1> QED
  BY <1>1 DEF Fits, MembersFit, TasksFit, KeysFit, DocsFit, RowsFit, LinearFit,
              RepositoriesFit, RoomsFit, RagnarockFit

\* A set of integers from -1 to n that -1 belongs to has a greatest element.
LEMMA Greatest ==
  ASSUME NEW S, S \subseteq Int, -1 \in S, NEW n \in Nat,
         \A y \in S : -1 <= y /\ y <= n
  PROVE  Max(S) \in S /\ \A y \in S : y <= Max(S)
<1> DEFINE T == {k \in Nat : n - k \in S}
<1>1. n + 1 \in T
  <2>1. n - (n + 1) = -1
    OBVIOUS
  <2> QED
    BY <2>1
<1>2. T \in SUBSET Nat /\ T # {}
  BY <1>1
<1> HIDE DEF T
<1>3. PICK m \in T : \A k \in T : <<k, m>> \notin OpToRel(<, Nat)
  BY <1>2, WFMin, NatLessThanWellFounded, Zenon
<1>4. \A k \in T : m <= k
  <2>1. \A k \in T : ~(k < m)
    BY <1>2, <1>3 DEF OpToRel
  <2> QED
    BY <1>2, <2>1
<1>5. n - m \in S
  BY DEF T
<1>6. ASSUME NEW y \in S PROVE n - m >= y
  <2>1. y \in Int /\ n - y \in Nat /\ n - (n - y) = y
    OBVIOUS
  <2>2. n - y \in T
    BY <2>1 DEF T
  <2>3. m <= n - y /\ m \in Nat
    BY <1>2, <1>4, <2>2
  <2> QED
    BY <2>1, <2>3
<1>7. \E x \in S : \A y \in S : x >= y
  BY <1>5, <1>6
<1>8. Max(S) \in S /\ \A y \in S : Max(S) >= y
  BY <1>7 DEF Max
<1> QED
  BY <1>8

\* The rows of a table after a row was put in, taken out or written.
LEMMA PutRows ==
  ASSUME NEW f, NEW S, RowsOf(f, S), NEW r \in Rows, NEW x \in S
  PROVE  RowsOf(Put(f, r, x), S)
BY DEF RowsOf, Put

\* A row that is taken out leaves rows.
LEMMA DropRows ==
  ASSUME NEW f, NEW S, RowsOf(f, S), NEW i
  PROVE  RowsOf(Drop(f, i), S)
BY DEF RowsOf, Drop, Restrict

\* A row that is written anew is a row.
LEMMA WriteRows ==
  ASSUME NEW f, NEW S, RowsOf(f, S), NEW i, NEW x, i \in DOMAIN f => x \in S
  PROVE  RowsOf([f EXCEPT ![i] = x], S)
BY DEF RowsOf

\* A table without rows holds rows of any kind.
LEMMA NoRows ==
  ASSUME NEW f, NEW S
  PROVE  RowsOf(Restrict(f, {}), S)
BY DEF RowsOf, Restrict

-----------------------------------------------------------------------------
(* What a step of request r does to the types.                             *)

\* The step leaves the other requests alone, and r fits after it.
Typed(r) ==
  /\ Others(r)
  /\ ctx'[r].by \in Users \cup {None} /\ ctx'[r].quiet \in BOOLEAN
  /\ Fits(r)'

\* A request that comes in is of a user, or of nobody.
LEMMA EntersTypes ==
  ASSUME TypeInv, NEW r \in Requests, NEW u \in Users \cup {None}, NEW o, NEW x,
         Enters(r, u, o, x)
  PROVE  Others(r) /\ ctx'[r].by \in Users \cup {None} /\ ctx'[r].quiet \in BOOLEAN
<1>1. Tables
  BY DEF TypeInv
<1> QED
  BY <1>1, Entered, EntersLeaves

\* A handler that goes on stays with the user of its request.
LEMMA GotoTypes ==
  ASSUME TypeInv, NEW r \in Requests, NEW s, NEW x, Goto(r, s, x)
  PROVE  Others(r) /\ ctx'[r].by \in Users \cup {None} /\ ctx'[r].quiet \in BOOLEAN
BY GotoLeaves, WentOn DEF TypeInv, TypeOK, ApiTypeOK

\* A request that is over fits.
LEMMA OverTypes ==
  ASSUME TypeInv, NEW r \in Requests, End(r) \/ Write(r, "done")
  PROVE  Typed(r)
<1>1. at'[r] = "done" /\ ctx'[r] = Idle
  BY Finished DEF TypeInv
<1>2. ctx'[r].by = None /\ ctx'[r].quiet = TRUE /\ ctx'[r].op = "none"
  BY <1>1 DEF Idle, Context
<1>3. Fits(r)'
  BY <1>1, <1>2 DEF Fits, MembersFit, TasksFit, KeysFit, DocsFit, RowsFit, LinearFit,
                    RepositoriesFit, RoomsFit, RagnarockFit
<1> QED
  BY <1>2, <1>3, EndLeaves, WriteLeaves DEF TypeInv, Typed

\* A write that is not the last stays with the user of the request.
LEMMA WriteTypes ==
  ASSUME TypeInv, NEW r \in Requests, NEW s, s # "done", Write(r, s)
  PROVE  Others(r) /\ ctx'[r].by \in Users \cup {None} /\ ctx'[r].quiet \in BOOLEAN
BY WriteLeaves, WroteOn DEF TypeInv, TypeOK, ApiTypeOK

\* The operations of each part.
MemberOps == {"addMember", "updateRole", "updatePersonas", "removeMember",
              "createProject", "updateProject", "removeProject"}
TaskOps == {"createTask", "updateTask", "reorderTasks", "removeTask", "completeTask"}
KeyOps == {"createKey", "revokeKey"}
DocOps == {"createDoc", "updateDoc", "removeDoc", "agentDoc"}
RowOps == {"createRequirement", "updateRequirement", "removeRequirement",
           "createSkill", "updateSkill", "removeSkill"}
LinearOps == {"connect", "disconnect", "verify"}
RepositoryOps == {"linkRepository", "unlinkRepository", "refreshRepository",
                  "readRepository"}
RoomOps == {"createSession", "joinProject", "joinSession", "submitTurn"}
RagnarockOps == {"createChat", "sendMessage"}

\* A request fits when it fits the part that its operation belongs to.
LEMMA PartsFit ==
  ASSUME NEW r, at'[r] # "member" \/ ctx'[r].op \in RoomOps,
         \/ ctx'[r].op \in MemberOps /\ MembersFit(r)'
         \/ ctx'[r].op \in TaskOps /\ TasksFit(r)'
         \/ ctx'[r].op \in KeyOps /\ KeysFit(r)'
         \/ ctx'[r].op \in DocOps /\ DocsFit(r)'
         \/ ctx'[r].op \in RowOps /\ RowsFit(r)'
         \/ ctx'[r].op \in LinearOps /\ LinearFit(r)'
         \/ ctx'[r].op \in RepositoryOps /\ RepositoriesFit(r)'
         \/ ctx'[r].op \in RoomOps /\ RoomsFit(r)'
         \/ ctx'[r].op \in RagnarockOps /\ RagnarockFit(r)'
  PROVE  Fits(r)'
<1> USE DEF Fits, MembersFit, TasksFit, KeysFit, DocsFit, RowsFit, LinearFit,
            RepositoriesFit, RoomsFit, RagnarockFit
<1>1. CASE ctx'[r].op \in MemberOps /\ MembersFit(r)'
  BY <1>1 DEF MemberOps, RoomOps
<1>2. CASE ctx'[r].op \in TaskOps /\ TasksFit(r)'
  BY <1>2 DEF TaskOps, RoomOps
<1>3. CASE ctx'[r].op \in KeyOps /\ KeysFit(r)'
  BY <1>3 DEF KeyOps, RoomOps
<1>4. CASE ctx'[r].op \in DocOps /\ DocsFit(r)'
  BY <1>4 DEF DocOps, RoomOps
<1>5. CASE ctx'[r].op \in RowOps /\ RowsFit(r)'
  BY <1>5 DEF RowOps, RoomOps
<1>6. CASE ctx'[r].op \in LinearOps /\ LinearFit(r)'
  BY <1>6 DEF LinearOps, RoomOps
<1>7. CASE ctx'[r].op \in RepositoryOps /\ RepositoriesFit(r)'
  BY <1>7 DEF RepositoryOps, RoomOps
<1>8. CASE ctx'[r].op \in RoomOps /\ RoomsFit(r)'
  BY <1>8 DEF RoomOps
<1>9. CASE ctx'[r].op \in RagnarockOps /\ RagnarockFit(r)'
  BY <1>9 DEF RagnarockOps, RoomOps
<1> QED
  BY <1>1, <1>2, <1>3, <1>4, <1>5, <1>6, <1>7, <1>8, <1>9

\* A write that is the last of a request, or the last but for the activity.
LEMMA EndsTyped ==
  ASSUME TypeInv, NEW r \in Requests, NEW s \in {"log", "done"}, Write(r, s)
  PROVE  Typed(r)
<1>1. CASE s = "done"
  BY <1>1, OverTypes
<1>2. CASE s = "log"
  <2>1. at'[r] = "log" /\ ctx'[r] = ctx[r]
    BY <1>2, WroteOn DEF TypeInv
  <2>2. Fits(r)
    BY DEF TypeInv
  <2>3. Fits(r)'
    BY <2>1, <2>2 DEF Fits, MembersFit, TasksFit, KeysFit, DocsFit, RowsFit, LinearFit,
                      RepositoriesFit, RoomsFit, RagnarockFit, What
  <2> QED
    BY <1>2, <2>3, WriteTypes DEF Typed
<1> QED
  BY <1>1, <1>2

\* A request that the guards let in starts with what it asks for.
LEMMA AcceptTypes ==
  ASSUME TypeInv, NEW r \in Requests, NEW u \in Users, NEW s, NEW o, NEW x,
         Accept(r, u, s, o, x)
  PROVE  /\ Others(r) /\ ctx'[r].by \in Users \cup {None} /\ ctx'[r].quiet \in BOOLEAN
         /\ at'[r] = "accepted" /\ ctx'[r].op = o /\ ctx'[r].what = x /\ ctx'[r].by = u
<1>1. Enters(r, u, o, x) /\ u \in Users \cup {None}
  BY DEF Accept
<1>2. Others(r) /\ ctx'[r].by \in Users \cup {None} /\ ctx'[r].quiet \in BOOLEAN
  BY <1>1, EntersTypes
<1>3. at'[r] = "accepted" /\ ctx'[r].op = o /\ ctx'[r].what = x /\ ctx'[r].by = u
  <2>1. Tables
    BY DEF TypeInv
  <2> QED
    BY <1>1, <2>1, Entered
<1> QED
  BY <1>2, <1>3

-----------------------------------------------------------------------------
(* Tasks.                                                                  *)

\* The rows of tasks.
Task == [col : Columns, pos : Nat, who : Users \cup {None}]

\* Requests to tasks fit when they come in: they give columns, positions and
\* assignees.
LEMMA TaskComes ==
  ASSUME TypeInv, NEW r \in Requests, AcceptTaskRequest(r)
  PROVE  Typed(r)
<1>1. ASSUME NEW u \in Users, NEW s, NEW o \in TaskOps, NEW x, Accept(r, u, s, o, x),
             o = "createTask" =>
               x.col \in Columns /\ x.pos \in {None, 0} /\ x.who \in Users \cup {None},
             o = "updateTask" =>
               /\ x.col \in Columns \cup {None} /\ x.pos \in {None, 0}
               /\ x.who \in Users \cup {None, Unnamed},
             o = "reorderTasks" => \A i \in DOMAIN x :
               x[i].pos \in Positions /\ x[i].col \in Columns \cup {None}
      PROVE  Typed(r)
  <2>1. at'[r] = "accepted" /\ ctx'[r].op = o /\ ctx'[r].what = x
    BY <1>1, AcceptTypes
  <2>2. TasksFit(r)'
    BY <1>1, <2>1 DEF TasksFit, What
  <2> QED
    BY <1>1, <2>1, <2>2, AcceptTypes, PartsFit DEF Typed
<1>2. PICK u \in Users :
       \/ \E c \in Columns, p \in {None, 0}, v \in Users \cup {None} :
            Accept(r, u, Contributors, "createTask", [col |-> c, pos |-> p, who |-> v])
       \/ \E i \in DOMAIN tasks, c \in Columns \cup {None}, p \in {None, 0},
             v \in Users \cup {None, Unnamed} :
            Accept(r, u, Contributors, "updateTask",
                   [row |-> i, col |-> c, pos |-> p, who |-> v])
       \/ \E f \in [DOMAIN tasks -> [pos : Positions, col : Columns \cup {None}]] :
            Accept(r, u, Contributors, "reorderTasks", f)
       \/ \E i \in DOMAIN tasks : Accept(r, u, Managers, "removeTask", [row |-> i])
  BY DEF AcceptTaskRequest
<1>3. ASSUME NEW c \in Columns, NEW p \in {None, 0}, NEW v \in Users \cup {None},
             Accept(r, u, Contributors, "createTask", [col |-> c, pos |-> p, who |-> v])
      PROVE  Typed(r)
  BY <1>1, <1>3 DEF TaskOps
<1>4. ASSUME NEW i, NEW c \in Columns \cup {None}, NEW p \in {None, 0},
             NEW v \in Users \cup {None, Unnamed},
             Accept(r, u, Contributors, "updateTask",
                    [row |-> i, col |-> c, pos |-> p, who |-> v])
      PROVE  Typed(r)
  BY <1>1, <1>4 DEF TaskOps
<1>5. ASSUME NEW f \in [DOMAIN tasks -> [pos : Positions, col : Columns \cup {None}]],
             Accept(r, u, Contributors, "reorderTasks", f)
      PROVE  Typed(r)
  BY <1>1, <1>5 DEF TaskOps
<1>6. ASSUME NEW i, Accept(r, u, Managers, "removeTask", [row |-> i])
      PROVE  Typed(r)
  BY <1>1, <1>6 DEF TaskOps
<1> QED
  BY <1>2, <1>3, <1>4, <1>5, <1>6

\* They still fit when their handlers go on: what is placed has a position.
LEMMA TaskGoes ==
  ASSUME TypeInv, NEW r \in Requests, ctx[r].op \in TaskOps, NEW s, NEW x, Goto(r, s, x),
         s # "member", s = "placed" => x \in Nat
  PROVE  Typed(r)
<1>1. /\ at'[r] = s /\ ctx'[r].op = ctx[r].op /\ ctx'[r].what = ctx[r].what
      /\ ctx'[r].seen = x
  BY WentOn DEF TypeInv
<1>2. TasksFit(r)
  BY DEF TypeInv, Fits
<1>3. TasksFit(r)'
  BY <1>1, <1>2 DEF TasksFit, What
<1> QED
  BY <1>1, <1>3, GotoTypes, PartsFit DEF Typed

\* The first free position of a column is a number, and after all its tasks.
LEMMA NextPosition ==
  ASSUME TypeInv, NEW c
  PROVE  /\ NextSortOrder(c) \in Nat
         /\ \A i \in DOMAIN tasks : tasks[i].col = c => tasks[i].pos < NextSortOrder(c)
<1> DEFINE S == Positioned(c) \cup {-1}
<1>1. PICK n \in Nat : \A i \in DOMAIN tasks : tasks[i].pos <= n
  BY DEF TypeInv, Bounded
<1>2. \A i \in DOMAIN tasks : tasks[i].pos \in Nat
  BY DEF TypeInv, TypeOK, ContentTypeOK, RowsOf
<1>3. \A y \in S : y \in Int /\ -1 <= y /\ y <= n
  BY <1>1, <1>2 DEF Positioned
<1>4. -1 \in S
  OBVIOUS
<1>5. \A i \in DOMAIN tasks : tasks[i].col = c => tasks[i].pos \in S
  BY DEF Positioned
<1> HIDE DEF S
<1>6. Max(S) \in S /\ \A y \in S : y <= Max(S)
  BY <1>3, <1>4, Greatest
<1>7. Max(S) \in Int /\ -1 <= Max(S)
  BY <1>3, <1>6
<1>8. NextSortOrder(c) = Max(S) + 1
  BY DEF NextSortOrder, S
<1>9. ASSUME NEW i \in DOMAIN tasks, tasks[i].col = c
      PROVE  tasks[i].pos < NextSortOrder(c)
  <2>1. tasks[i].pos <= Max(S) /\ tasks[i].pos \in Nat
    BY <1>2, <1>5, <1>6, <1>9
  <2> QED
    BY <1>7, <1>8, <2>1
<1> QED
  BY <1>7, <1>8, <1>9

\* A table of tasks that another one replaces has a last task, too.
LEMMA BoundKept ==
  ASSUME Bounded, \A i \in DOMAIN tasks : tasks[i].pos \in Nat, NEW p \in Nat,
         \A i \in DOMAIN tasks' :
           \/ tasks'[i].pos = p \/ tasks'[i].pos \in Positions
           \/ i \in DOMAIN tasks /\ tasks'[i].pos = tasks[i].pos
  PROVE  Bounded'
<1>1. PICK n \in Nat : \A i \in DOMAIN tasks : tasks[i].pos <= n
  BY DEF Bounded
<1>2. \A i \in DOMAIN tasks' : tasks'[i].pos <= n + p + 1
  <2> TAKE i \in DOMAIN tasks'
  <2>1. CASE tasks'[i].pos = p
    BY <2>1
  <2>2. CASE tasks'[i].pos \in Positions
    BY <2>2 DEF Positions
  <2>3. CASE i \in DOMAIN tasks /\ tasks'[i].pos = tasks[i].pos
    <3>1. tasks[i].pos \in Nat /\ tasks[i].pos <= n
      BY <1>1, <2>3
    <3> QED
      BY <2>3, <3>1
  <2> QED
    BY <2>1, <2>2, <2>3
<1>3. n + p + 1 \in Nat
  OBVIOUS
<1> QED
  BY <1>2, <1>3 DEF Bounded

\* The steps of requests to tasks keep the types of the content.
LEMMA TaskTypes ==
  ASSUME TypeInv, NEW r \in Requests, TaskStep(r)
  PROVE  Typed(r) /\ ContentTypeOK' /\ Bounded'
<1>0. /\ TasksFit(r) /\ RowsOf(tasks, Task) /\ Bounded /\ r \in Rows
      /\ ContentTypeOK
  BY DEF TypeInv, TypeOK, Fits, ContentTypeOK, Rows, Task
<1>a. \A i \in DOMAIN tasks : tasks[i] \in Task /\ tasks[i].pos \in Nat
  BY <1>0 DEF RowsOf, Task
<1>b. ASSUME UNCHANGED contentVars PROVE ContentTypeOK' /\ Bounded'
  BY <1>b, <1>0 DEF contentVars, ContentTypeOK, Bounded
<1>c. ASSUME UNCHANGED <<docs, requirements, skills, keys>>, RowsOf(tasks', Task)
      PROVE  ContentTypeOK'
  BY <1>c, <1>0 DEF ContentTypeOK, Task
<1>1. CASE AcceptTaskRequest(r)
  BY <1>1, <1>b, TaskComes DEF AcceptTaskRequest
<1>2. CASE FindTask(r)
  <2>1. ctx[r].op \in TaskOps /\ Goto(r, "found", None) /\ UNCHANGED contentVars
    BY <1>2 DEF FindTask, TaskOps
  <2> QED
    BY <2>1, <1>b, TaskGoes
<1>3. CASE CheckAssignee(r)
  <2>1. ctx[r].op \in TaskOps /\ Goto(r, "checked", None) /\ UNCHANGED contentVars
    BY <1>3 DEF CheckAssignee, On, TaskOps
  <2> QED
    BY <2>1, <1>b, TaskGoes
<1>4. CASE PlaceTask(r)
  <2>1. /\ ctx[r].op = "createTask" /\ UNCHANGED contentVars
        /\ Goto(r, "placed",
                IF What(r).pos = None THEN NextSortOrder(What(r).col) ELSE What(r).pos)
    BY <1>4 DEF PlaceTask, On
  <2>2. What(r).pos \in {None, 0}
    BY <1>0, <2>1 DEF TasksFit
  <2>3. (IF What(r).pos = None THEN NextSortOrder(What(r).col) ELSE What(r).pos) \in Nat
    BY <2>2, NextPosition
  <2>4. ctx[r].op \in TaskOps
    BY <2>1 DEF TaskOps
  <2> QED
    BY <2>1, <2>3, <2>4, <1>b, TaskGoes
<1>5. CASE CreateTask(r)
  <2> DEFINE t == [col |-> What(r).col, pos |-> ctx[r].seen, who |-> What(r).who]
  <2>1. /\ ctx[r].op = "createTask" /\ at[r] = "placed" /\ tasks' = Put(tasks, r, t)
        /\ Write(r, "log") /\ UNCHANGED <<docs, requirements, skills, keys>>
    BY <1>5 DEF CreateTask, On
  <2>2. t \in Task /\ ctx[r].seen \in Nat
    BY <1>0, <2>1 DEF TasksFit, Task
  <2>3. RowsOf(tasks', Task)
    BY <1>0, <2>1, <2>2, PutRows
  <2>4. \A i \in DOMAIN tasks' : \/ tasks'[i].pos = ctx[r].seen
                                 \/ i \in DOMAIN tasks /\ tasks'[i].pos = tasks[i].pos
    BY <2>1 DEF Put
  <2>5. Bounded'
    BY <1>0, <1>a, <2>2, <2>4, BoundKept
  <2> QED
    BY <2>1, <2>3, <2>5, <1>c, EndsTyped
<1>6. CASE UpdateTask(r)
  <2> DEFINE i == What(r).row
  <2> DEFINE t == Updated(tasks[i], What(r))
  <2>1. /\ ctx[r].op = "updateTask" /\ i \in DOMAIN tasks /\ tasks' = [tasks EXCEPT ![i] = t]
        /\ Write(r, "log") /\ UNCHANGED <<docs, requirements, skills, keys>>
    BY <1>6 DEF UpdateTask, On, Found
  <2>2. t \in Task /\ (t.pos = tasks[i].pos \/ t.pos \in Positions)
    <3>1. /\ What(r).col \in Columns \cup {None} /\ What(r).pos \in {None, 0}
          /\ What(r).who \in Users \cup {None, Unnamed} /\ tasks[i] \in Task
      BY <1>0, <1>a, <2>1 DEF TasksFit
    <3>2. tasks[i].col \in Columns /\ tasks[i].pos \in Nat /\ tasks[i].who \in Users \cup {None}
      BY <3>1 DEF Task
    <3>3. Given(What(r).col, tasks[i].col) \in Columns
      BY <3>1, <3>2 DEF Given
    <3>4. /\ Given(What(r).pos, tasks[i].pos) \in Nat
          /\ \/ Given(What(r).pos, tasks[i].pos) = tasks[i].pos
             \/ Given(What(r).pos, tasks[i].pos) \in Positions
      BY <3>1, <3>2 DEF Given, Positions
    <3>5. (IF What(r).who = Unnamed THEN tasks[i].who ELSE What(r).who) \in Users \cup {None}
      BY <3>1, <3>2
    <3> QED
      BY <3>3, <3>4, <3>5 DEF Updated, Task
  <2>3. RowsOf(tasks', Task)
    BY <1>0, <2>1, <2>2, WriteRows
  <2>4. \A k \in DOMAIN tasks' : \/ tasks'[k].pos \in Positions
                                 \/ k \in DOMAIN tasks /\ tasks'[k].pos = tasks[k].pos
    BY <2>1, <2>2
  <2>5. Bounded'
    BY <1>0, <1>a, <2>4, BoundKept
  <2> QED
    BY <2>1, <2>3, <2>5, <1>c, EndsTyped
<1>7. CASE FindTasks(r)
  <2>1. ctx[r].op \in TaskOps /\ Goto(r, "found", None) /\ UNCHANGED contentVars
    BY <1>7 DEF FindTasks, On, TaskOps
  <2> QED
    BY <2>1, <1>b, TaskGoes
<1>8. CASE ReorderTasks(r)
  <2>1. /\ ctx[r].op = "reorderTasks" /\ Write(r, "log")
        /\ tasks' = [i \in DOMAIN tasks |->
                       IF i \in DOMAIN What(r) THEN Moved(tasks[i], What(r)[i]) ELSE tasks[i]]
        /\ UNCHANGED <<docs, requirements, skills, keys>>
    BY <1>8 DEF ReorderTasks, On
  <2>2. ASSUME NEW i \in DOMAIN tasks, i \in DOMAIN What(r)
        PROVE  /\ Moved(tasks[i], What(r)[i]) \in Task
               /\ Moved(tasks[i], What(r)[i]).pos \in Positions
    <3>1. What(r)[i].pos \in Positions /\ What(r)[i].col \in Columns \cup {None}
      BY <1>0, <2>1, <2>2 DEF TasksFit
    <3>2. What(r)[i].pos \in Nat
      BY <3>1 DEF Positions
    <3>3. tasks[i].col \in Columns /\ tasks[i].who \in Users \cup {None}
      BY <1>a DEF Task
    <3> QED
      BY <3>1, <3>2, <3>3 DEF Moved, Given, Task
  <2>3. RowsOf(tasks', Task)
    BY <1>0, <1>a, <2>1, <2>2 DEF RowsOf
  <2>4. \A i \in DOMAIN tasks' : \/ tasks'[i].pos \in Positions
                                 \/ i \in DOMAIN tasks /\ tasks'[i].pos = tasks[i].pos
    BY <2>1, <2>2
  <2>5. Bounded'
    BY <1>0, <1>a, <2>4, BoundKept
  <2> QED
    BY <2>1, <2>3, <2>5, <1>c, EndsTyped
<1>9. CASE RemoveTask(r)
  <2>1. /\ tasks' = Drop(tasks, What(r).row)
        /\ Write(r, "log") /\ UNCHANGED <<docs, requirements, skills, keys>>
    BY <1>9 DEF RemoveTask
  <2>2. RowsOf(tasks', Task)
    BY <1>0, <2>1, DropRows
  <2>3. \A k \in DOMAIN tasks' : k \in DOMAIN tasks /\ tasks'[k].pos = tasks[k].pos
    BY <2>1 DEF Drop, Restrict
  <2>4. Bounded'
    BY <1>0, <1>a, <2>3, BoundKept
  <2> QED
    BY <2>1, <2>2, <2>4, <1>c, EndsTyped
<1> QED
  BY <1>1, <1>2, <1>3, <1>4, <1>5, <1>6, <1>7, <1>8, <1>9 DEF TaskStep

-----------------------------------------------------------------------------
(* Members and the project.                                                *)

\* What the types say of the project and its members.
MembersOK ==
  /\ project \in {"none", "live", "removed"}
  /\ role \in [Users -> Roles \cup {None}]
  /\ MembersTypeOK
  /\ project = "none" => everMember = {}

\* Requests to members and to the project fit when they come in.
LEMMA MembersCome ==
  ASSUME TypeInv, NEW r \in Requests,
         AcceptMemberRequest(r) \/ AcceptRemoval(r) \/ AcceptProjectRequest(r)
  PROVE  Typed(r)
<1>1. ASSUME NEW u \in Users, NEW o \in MemberOps, NEW x, Enters(r, u, o, x),
             o \in {"addMember", "updateRole"} => x.user \in Users /\ x.given \in Roles,
             o = "addMember" => x.personas \in Personas \cup {None},
             o = "updatePersonas" => x.given \in Personas
      PROVE  Typed(r)
  <2>1. at'[r] = "accepted" /\ ctx'[r].op = o /\ ctx'[r].what = x
    <3>1. Tables
      BY DEF TypeInv
    <3> QED
      BY <1>1, <3>1, Entered
  <2>2. MembersFit(r)'
    BY <1>1, <2>1 DEF MembersFit, What
  <2>3. u \in Users \cup {None}
    OBVIOUS
  <2> QED
    BY <1>1, <2>1, <2>2, <2>3, EntersTypes, PartsFit DEF Typed
<1>2. CASE AcceptMemberRequest(r)
  <2>1. PICK u \in Users, v \in Users :
       \/ \E g \in GivenRoles, p \in Personas \cup {None} :
            Accept(r, u, Managers, "addMember", [user |-> v, given |-> g, personas |-> p])
       \/ \E g \in GivenRoles :
            Accept(r, u, Managers, "updateRole", [user |-> v, given |-> g])
       \/ \E p \in Personas :
            Accept(r, u, Everybody, "updatePersonas", [user |-> v, given |-> p])
    BY <1>2 DEF AcceptMemberRequest
  <2>2. ASSUME NEW g \in GivenRoles, NEW p \in Personas \cup {None},
               Accept(r, u, Managers, "addMember", [user |-> v, given |-> g, personas |-> p])
        PROVE  Typed(r)
    <3>1. g \in Roles /\ "addMember" \in MemberOps
      BY MembersAssumption DEF MemberOps
    <3> QED
      BY <1>1, <2>2, <3>1 DEF Accept
  <2>4. ASSUME NEW g \in GivenRoles,
               Accept(r, u, Managers, "updateRole", [user |-> v, given |-> g])
        PROVE  Typed(r)
    <3>1. g \in Roles /\ "updateRole" \in MemberOps
      BY MembersAssumption DEF MemberOps
    <3> QED
      BY <1>1, <2>4, <3>1 DEF Accept
  <2>3. ASSUME NEW p \in Personas,
               Accept(r, u, Everybody, "updatePersonas", [user |-> v, given |-> p])
        PROVE  Typed(r)
    BY <1>1, <2>3 DEF Accept, MemberOps
  <2> QED
    BY <2>1, <2>2, <2>3, <2>4
<1>3. CASE AcceptRemoval(r)
  <2>1. PICK u \in Users, v \in Users :
          Accept(r, u, Managers, "removeMember", [user |-> v])
    BY <1>3 DEF AcceptRemoval
  <2> QED
    BY <1>1, <2>1 DEF Accept, MemberOps
<1>4. CASE AcceptProjectRequest(r)
  <2>1. PICK u \in Users :
          \/ Enters(r, u, "createProject", None) \/ Enters(r, u, "updateProject", None)
          \/ Enters(r, u, "removeProject", None)
    BY <1>4 DEF AcceptProjectRequest, Accept
  <2> QED
    BY <1>1, <2>1 DEF MemberOps
<1> QED
  BY <1>2, <1>3, <1>4

\* They still fit when their handlers go on.
LEMMA MemberGoes ==
  ASSUME TypeInv, NEW r \in Requests, ctx[r].op \in MemberOps, NEW s, NEW x, Goto(r, s, x),
         s \notin {"member", "joined"}
  PROVE  Typed(r)
<1>1. at'[r] = s /\ ctx'[r].op = ctx[r].op /\ ctx'[r].what = ctx[r].what
  BY WentOn DEF TypeInv
<1>2. MembersFit(r)
  BY DEF TypeInv, Fits
<1>3. MembersFit(r)'
  BY <1>1, <1>2 DEF MembersFit, What
<1> QED
  BY <1>1, <1>3, GotoTypes, PartsFit DEF Typed

\* The steps of requests to members keep the types of members; nobody leaves the
\* organization.
LEMMA MemberTypes ==
  ASSUME TypeInv, NEW r \in Requests, MembersStep(r)
  PROVE  Typed(r) /\ MembersOK' /\ orgMembers \subseteq orgMembers'
<1>0. MembersFit(r) /\ MembersOK
  BY DEF TypeInv, TypeOK, ApiTypeOK, Fits, MembersOK
<1>a. ASSUME UNCHANGED <<projectVars, memberVars>>
      PROVE  MembersOK' /\ orgMembers \subseteq orgMembers'
  BY <1>a, <1>0 DEF projectVars, memberVars, MembersOK, MembersTypeOK, Members
<1>b. role \in [Users -> Roles \cup {None}]
  BY <1>0 DEF MembersOK
<1>c. \A u \in Users : role[u] # None => u \in orgMembers \cap everMember
  BY <1>0 DEF MembersOK, MembersTypeOK, Members
<1>d. orgMembers \subseteq Users /\ personas \in [Users -> Personas]
  BY <1>0 DEF MembersOK, MembersTypeOK
<1>1. CASE AcceptMemberRequest(r) \/ AcceptRemoval(r) \/ AcceptProjectRequest(r)
  <2>1. UNCHANGED <<projectVars, memberVars>>
    BY <1>1 DEF AcceptMemberRequest, AcceptRemoval, AcceptProjectRequest, Accept, Enters
  <2> QED
    BY <1>1, <1>a, <2>1, MembersCome
<1>2. CASE EnsureProject(r)
  <2>1. /\ ctx[r].op \in MemberOps /\ Goto(r, "ensured", None)
        /\ UNCHANGED <<projectVars, memberVars>>
    BY <1>2 DEF EnsureProject, MemberOps
  <2> QED
    BY <1>a, <2>1, MemberGoes
<1>3. CASE CreateProject(r)
  <2> DEFINE v == ctx[r].by
  <2>1. /\ project = "none" /\ v \in orgMembers /\ project' = "live"
        /\ role' = [role EXCEPT ![v] = "owner"] /\ everMember' = {v}
        /\ orgMembers' = orgMembers /\ personas' = personas /\ Write(r, "log")
    BY <1>3 DEF CreateProject
  <2>2. \A u \in Users : role[u] = None
    BY <1>0, <1>c, <2>1 DEF MembersOK
  <2>3. role' \in [Users -> Roles \cup {None}] /\ \A u \in Users : u # v => role'[u] = None
    BY <1>b, <2>1, <2>2 DEF Roles
  <2>4. Members' \subseteq orgMembers' \cap everMember'
    BY <2>1, <2>3 DEF Members
  <2>5. MembersOK'
    BY <1>d, <2>1, <2>3, <2>4 DEF MembersOK, MembersTypeOK
  <2> QED
    BY <2>1, <2>5, EndsTyped
<1>4. CASE UpdateProject(r)
  BY <1>4, <1>a, EndsTyped DEF UpdateProject
<1>5. CASE LogRemoval(r)
  <2>1. /\ ctx[r].op \in MemberOps /\ Goto(r, "delete", None)
        /\ UNCHANGED <<project, role, memberVars>>
    BY <1>5 DEF LogRemoval, On, MemberOps
  <2>2. MembersOK'
    BY <1>0, <2>1 DEF memberVars, MembersOK, MembersTypeOK, Members
  <2> QED
    BY <2>1, <2>2, MemberGoes DEF memberVars
<1>6. CASE JoinOrganization(r)
  <2>1. /\ ctx[r].op = "addMember" /\ orgMembers' = orgMembers \cup {What(r).user}
        /\ Write(r, "joined") /\ UNCHANGED <<projectVars, personas, everMember>>
    BY <1>6 DEF JoinOrganization, On, What
  <2>2. /\ What(r).user \in Users /\ What(r).given \in Roles
        /\ What(r).personas \in Personas \cup {None}
    BY <1>0, <2>1 DEF MembersFit
  <2>3. at'[r] = "joined" /\ ctx'[r] = ctx[r]
    BY <2>1, WroteOn DEF TypeInv
  <2>4. MembersFit(r)' /\ ctx'[r].op \in MemberOps
    BY <2>1, <2>2, <2>3 DEF MembersFit, What, MemberOps
  <2>5. Typed(r)
    BY <2>1, <2>3, <2>4, WriteTypes, PartsFit DEF Typed
  <2>6. Members' \subseteq orgMembers' \cap everMember'
    BY <1>c, <2>1 DEF Members, projectVars
  <2>7. MembersOK'
    BY <1>0, <1>d, <2>1, <2>2, <2>6 DEF MembersOK, MembersTypeOK, projectVars
  <2> QED
    BY <2>1, <2>5, <2>7
<1>7. CASE AddMember(r)
  <2> DEFINE v == What(r).user
  <2>1. /\ ctx[r].op = "addMember" /\ project = "live" /\ project' = project
        /\ at[r] = "joined" \/ v \in orgMembers
        /\ role' = [role EXCEPT ![v] = What(r).given]
        /\ personas' = [personas EXCEPT ![v] =
                          IF What(r).personas = None THEN @ ELSE What(r).personas]
        /\ everMember' = everMember \cup {v}
        /\ orgMembers' = orgMembers /\ Write(r, "done")
    BY <1>7 DEF AddMember, On, What
  <2>2. /\ v \in Users /\ What(r).given \in Roles /\ v \in orgMembers
        /\ What(r).personas \in Personas \cup {None}
    BY <1>0, <2>1 DEF MembersFit
  <2>6. personas' \in [Users -> Personas]
    BY <1>d, <2>1, <2>2
  <2>3. role' \in [Users -> Roles \cup {None}] /\ \A u \in Users : u # v => role'[u] = role[u]
    BY <1>b, <2>1, <2>2
  <2>4. Members' \subseteq orgMembers' \cap everMember'
    BY <1>c, <2>1, <2>2, <2>3 DEF Members
  <2>5. MembersOK'
    BY <1>d, <2>1, <2>3, <2>4, <2>6 DEF MembersOK, MembersTypeOK
  <2> QED
    BY <2>1, <2>5, EndsTyped
<1>8. CASE UpdateRole(r)
  <2> DEFINE v == What(r).user
  <2>1. /\ ctx[r].op = "updateRole" /\ v \in Members /\ project' = project
        /\ role' = [role EXCEPT ![v] = What(r).given]
        /\ UNCHANGED memberVars /\ Write(r, "done")
    BY <1>8 DEF UpdateRole, On, What
  <2>2. v \in Users /\ What(r).given \in Roles /\ role[v] # None
    BY <1>0, <2>1 DEF MembersFit, Members
  <2>3. role' \in [Users -> Roles \cup {None}] /\ \A u \in Users : u # v => role'[u] = role[u]
    BY <1>b, <2>1, <2>2
  <2>4. Members' \subseteq orgMembers' \cap everMember'
    BY <1>c, <2>1, <2>2, <2>3 DEF Members, memberVars
  <2>5. MembersOK'
    BY <1>0, <1>d, <2>1, <2>3, <2>4 DEF MembersOK, MembersTypeOK, memberVars
  <2> QED
    BY <2>1, <2>5, EndsTyped DEF memberVars
<1>9. CASE UpdatePersonas(r)
  <2>1. /\ ctx[r].op = "updatePersonas"
        /\ personas' = [personas EXCEPT ![What(r).user] = What(r).given]
        /\ UNCHANGED <<projectVars, orgMembers, everMember>> /\ Write(r, "done")
    BY <1>9 DEF UpdatePersonas, On, What
  <2>2. What(r).given \in Personas
    BY <1>0, <2>1 DEF MembersFit
  <2>3. personas' \in [Users -> Personas]
    BY <1>d, <2>1, <2>2
  <2>4. MembersOK'
    BY <1>0, <2>1, <2>3 DEF MembersOK, MembersTypeOK, Members, projectVars
  <2> QED
    BY <2>1, <2>4, EndsTyped
<1>10. CASE CountOwners(r)
  <2>1. /\ ctx[r].op \in MemberOps /\ Goto(r, "counted", Cardinality(Owners))
        /\ UNCHANGED <<projectVars, memberVars>>
    BY <1>10 DEF CountOwners, On, MemberOps
  <2> QED
    BY <1>a, <2>1, MemberGoes
<1>11. CASE CheckOwner(r)
  <2>1. /\ ctx[r].op \in MemberOps /\ Goto(r, "delete", None)
        /\ UNCHANGED <<projectVars, memberVars>>
    BY <1>11 DEF CheckOwner, On, MemberOps
  <2> QED
    BY <1>a, <2>1, MemberGoes
<1>12. CASE RemoveMember(r)
  <2> DEFINE v == What(r).user
  <2>1. /\ role' = [role EXCEPT ![v] = None] /\ personas' = [personas EXCEPT ![v] = "none"]
        /\ UNCHANGED <<project, orgMembers, everMember>> /\ Write(r, "done")
    BY <1>12 DEF RemoveMember, What
  <2>2. /\ role' \in [Users -> Roles \cup {None}] /\ personas' \in [Users -> Personas]
        /\ \A u \in Users : role'[u] # None => role[u] # None
    BY <1>b, <1>d, <2>1 DEF Personas
  <2>3. Members' \subseteq orgMembers' \cap everMember'
    BY <1>c, <2>1, <2>2 DEF Members
  <2>4. MembersOK'
    BY <1>0, <2>1, <2>2, <2>3 DEF MembersOK, MembersTypeOK
  <2> QED
    BY <2>1, <2>4, EndsTyped
<1> QED
  BY <1>1, <1>2, <1>3, <1>4, <1>5, <1>6, <1>7, <1>8, <1>9, <1>10, <1>11, <1>12
  DEF MembersStep

-----------------------------------------------------------------------------
(* Keys, documents, requirements and skills.                               *)

\* The rows of keys.
KeyRow == [name : Names, expired : BOOLEAN]

\* Requests to keys still fit when their handlers go on.
LEMMA KeyGoes ==
  ASSUME TypeInv, NEW r \in Requests, ctx[r].op \in KeyOps, NEW s, NEW x, Goto(r, s, x),
         s # "member"
  PROVE  Typed(r)
<1>1. at'[r] = s /\ ctx'[r].op = ctx[r].op /\ ctx'[r].what = ctx[r].what
  BY WentOn DEF TypeInv
<1>2. KeysFit(r)
  BY DEF TypeInv, Fits
<1>3. KeysFit(r)'
  BY <1>1, <1>2 DEF KeysFit, What
<1> QED
  BY <1>1, <1>3, GotoTypes, PartsFit DEF Typed

\* The steps of requests to keys, or with a key, keep the types of the content.
LEMMA KeyTypes ==
  ASSUME TypeInv, NEW r \in Requests, KeyStep(r)
  PROVE  Typed(r) /\ ContentTypeOK' /\ Bounded'
<1>0. /\ KeysFit(r) /\ RowsOf(keys, KeyRow) /\ Bounded /\ r \in Rows
      /\ ContentTypeOK /\ RowsOf(tasks, Task)
  BY DEF TypeInv, TypeOK, Fits, ContentTypeOK, Rows, Task, KeyRow
<1>a. ASSUME UNCHANGED contentVars PROVE ContentTypeOK' /\ Bounded'
  BY <1>a, <1>0 DEF contentVars, ContentTypeOK, Bounded
<1>b. ASSUME UNCHANGED <<tasks, docs, requirements, skills>>, RowsOf(keys', KeyRow)
      PROVE  ContentTypeOK' /\ Bounded'
  BY <1>b, <1>0 DEF ContentTypeOK, KeyRow, Bounded
<1>c. ASSUME NEW u \in Users, NEW o \in KeyOps, NEW x, NEW s, Accept(r, u, s, o, x),
             o = "createKey" => x.name \in Names
      PROVE  Typed(r)
  <2>1. at'[r] = "accepted" /\ ctx'[r].op = o /\ ctx'[r].what = x
    BY <1>c, AcceptTypes
  <2>2. KeysFit(r)'
    BY <1>c, <2>1 DEF KeysFit, What
  <2> QED
    BY <1>c, <2>1, <2>2, AcceptTypes, PartsFit DEF Typed
<1>1. CASE AcceptKeyRequest(r)
  <2>1. PICK u \in Users : \/ \E n \in Names : Accept(r, u, Managers, "createKey", [name |-> n])
                           \/ \E i : Accept(r, u, Managers, "revokeKey", [row |-> i])
    BY <1>1 DEF AcceptKeyRequest
  <2>2. Typed(r)
    BY <2>1, <1>c DEF KeyOps
  <2> QED
    BY <1>1, <1>a, <2>2 DEF AcceptKeyRequest
<1>2. CASE CheckName(r)
  <2>1. ctx[r].op \in KeyOps /\ Goto(r, "free", None) /\ UNCHANGED contentVars
    BY <1>2 DEF CheckName, On, KeyOps
  <2> QED
    BY <2>1, <1>a, KeyGoes
<1>3. CASE CreateKey(r)
  <2>1. /\ ctx[r].op = "createKey" /\ UNCHANGED <<tasks, docs, requirements, skills>>
        /\ keys' = Put(keys, r, [name |-> What(r).name, expired |-> FALSE])
        /\ Write(r, "done")
    BY <1>3 DEF CreateKey, On
  <2>2. [name |-> What(r).name, expired |-> FALSE] \in KeyRow
    BY <1>0, <2>1 DEF KeysFit, KeyRow
  <2>3. RowsOf(keys', KeyRow)
    BY <1>0, <2>1, <2>2, PutRows
  <2> QED
    BY <2>1, <2>3, <1>b, EndsTyped
<1>4. CASE FindKey(r)
  <2>1. ctx[r].op \in KeyOps /\ Goto(r, "found", None) /\ UNCHANGED contentVars
    BY <1>4 DEF FindKey, On, KeyOps
  <2> QED
    BY <2>1, <1>a, KeyGoes
<1>5. CASE RevokeKey(r)
  <2>1. /\ UNCHANGED <<tasks, docs, requirements, skills>>
        /\ keys' = Drop(keys, What(r).row) /\ Write(r, "done")
    BY <1>5 DEF RevokeKey
  <2>2. RowsOf(keys', KeyRow)
    BY <1>0, <2>1, DropRows
  <2> QED
    BY <2>1, <2>2, <1>b, EndsTyped
<1>6. CASE FindsKey(r)
  <2>1. PICK k, i :
          /\ at' = [at EXCEPT ![r] = "touch"]
          /\ ctx' = [ctx EXCEPT ![r] = Context("completeTask", None, [row |-> i], k, TRUE)]
          /\ UNCHANGED contentVars
    BY <1>6 DEF FindsKey
  <2>2. Tables
    BY DEF TypeInv
  <2>3. /\ at'[r] = "touch" /\ ctx'[r].op = "completeTask" /\ ctx'[r].by = None
        /\ ctx'[r].quiet \in BOOLEAN
    BY <2>1, <2>2 DEF Tables, Context
  <2>4. Others(r)
    BY <2>1, <2>2 DEF Tables, Others, Context
  <2>5. TasksFit(r)' /\ ctx'[r].op \in TaskOps
    BY <2>3 DEF TasksFit, TaskOps
  <2>6. Typed(r)
    BY <2>3, <2>4, <2>5, PartsFit DEF Typed
  <2> QED
    BY <2>1, <2>6, <1>a
<1>7. CASE TouchKey(r)
  <2>1. /\ ctx[r].op = "completeTask" /\ Write(r, "accepted") /\ UNCHANGED contentVars
    BY <1>7 DEF TouchKey, On
  <2>2. at'[r] = "accepted" /\ ctx'[r] = ctx[r]
    BY <2>1, WroteOn DEF TypeInv
  <2>3. TasksFit(r)' /\ ctx'[r].op \in TaskOps
    BY <2>1, <2>2 DEF TasksFit, TaskOps
  <2>4. Typed(r)
    BY <2>1, <2>2, <2>3, WriteTypes, PartsFit DEF Typed
  <2> QED
    BY <2>1, <2>4, <1>a
<1>8. CASE MarkTaskComplete(r)
  <2> DEFINE i == What(r).row
  <2>1. /\ i \in DOMAIN tasks /\ tasks' = [tasks EXCEPT ![i].col = "done"]
        /\ Write(r, "done") /\ UNCHANGED <<docs, requirements, skills, keys>>
    BY <1>8 DEF MarkTaskComplete, Found
  <2>2. \A k \in DOMAIN tasks : tasks[k] \in Task /\ tasks[k].pos \in Nat
    BY <1>0 DEF RowsOf, Task
  <2>3. /\ DOMAIN tasks' = DOMAIN tasks
        /\ \A k \in DOMAIN tasks : tasks'[k] \in Task /\ tasks'[k].pos = tasks[k].pos
    BY <2>1, <2>2 DEF Task, Columns
  <2>4. ContentTypeOK'
    BY <1>0, <2>1, <2>3 DEF ContentTypeOK, RowsOf, Task
  <2>5. Bounded'
    BY <1>0, <2>2, <2>3, BoundKept
  <2> QED
    BY <2>1, <2>4, <2>5, EndsTyped
<1> QED
  BY <1>1, <1>2, <1>3, <1>4, <1>5, <1>6, <1>7, <1>8 DEF KeyStep

\* The rows of documents.
Doc == [text : Texts, version : Nat]

\* Requests to documents still fit when their handlers go on.
LEMMA DocGoes ==
  ASSUME TypeInv, NEW r \in Requests, ctx[r].op \in DocOps, NEW s, NEW x, Goto(r, s, x),
         s # "member", s = "read" => x \in Doc
  PROVE  Typed(r)
<1>1. /\ at'[r] = s /\ ctx'[r].op = ctx[r].op /\ ctx'[r].what = ctx[r].what
      /\ ctx'[r].seen = x
  BY WentOn DEF TypeInv
<1>2. DocsFit(r)
  BY DEF TypeInv, Fits
<1>3. DocsFit(r)'
  BY <1>1, <1>2 DEF DocsFit, What, Doc
<1> QED
  BY <1>1, <1>3, GotoTypes, PartsFit DEF Typed

\* The steps of requests to documents keep the types of the content.
LEMMA DocTypes ==
  ASSUME TypeInv, NEW r \in Requests, DocStep(r)
  PROVE  Typed(r) /\ ContentTypeOK' /\ Bounded'
<1>0. /\ DocsFit(r) /\ RowsOf(docs, Doc) /\ Bounded /\ r \in Rows
      /\ ContentTypeOK
  BY DEF TypeInv, TypeOK, Fits, ContentTypeOK, Rows, Doc
<1>a. ASSUME UNCHANGED contentVars PROVE ContentTypeOK' /\ Bounded'
  BY <1>a, <1>0 DEF contentVars, ContentTypeOK, Bounded
<1>b. ASSUME UNCHANGED <<tasks, requirements, skills, keys>>, RowsOf(docs', Doc)
      PROVE  ContentTypeOK' /\ Bounded'
  BY <1>b, <1>0 DEF ContentTypeOK, Doc, Bounded
<1>c. ASSUME NEW u \in Users \cup {None}, NEW o \in DocOps, NEW x, Enters(r, u, o, x),
             o # "removeDoc" => x.text \in Texts
      PROVE  Typed(r)
  <2>1. Tables
    BY DEF TypeInv
  <2>2. at'[r] = "accepted" /\ ctx'[r].op = o /\ ctx'[r].what = x
    BY <1>c, <2>1, Entered
  <2>3. DocsFit(r)'
    BY <1>c, <2>2 DEF DocsFit, What
  <2> QED
    BY <1>c, <2>2, <2>3, EntersTypes, PartsFit DEF Typed
<1>1. CASE AcceptDocRequest(r)
  <2>1. PICK u \in Users, t \in Texts :
          \/ Enters(r, u, "createDoc", [text |-> t])
          \/ \E i : \/ Enters(r, u, "updateDoc", [row |-> i, text |-> t])
                    \/ Enters(r, u, "removeDoc", [row |-> i])
    BY <1>1 DEF AcceptDocRequest, Accept
  <2>2. Typed(r)
    BY <2>1, <1>c DEF DocOps
  <2> QED
    BY <1>1, <2>2, <1>a DEF AcceptDocRequest
<1>2. CASE AgentWritesDoc(r)
  <2>1. PICK i \in DOMAIN docs, t \in Texts : Enters(r, None, "agentDoc", [row |-> i, text |-> t])
    BY <1>2 DEF AgentWritesDoc
  <2>2. Typed(r)
    BY <2>1, <1>c DEF DocOps
  <2> QED
    BY <1>2, <2>2, <1>a DEF AgentWritesDoc
<1>3. CASE CreateDoc(r)
  <2>1. /\ ctx[r].op = "createDoc" /\ UNCHANGED <<tasks, requirements, skills, keys>>
        /\ docs' = Put(docs, r, [text |-> What(r).text, version |-> 1])
        /\ Write(r, "log")
    BY <1>3 DEF CreateDoc, On
  <2>2. [text |-> What(r).text, version |-> 1] \in Doc
    BY <1>0, <2>1 DEF DocsFit, Doc
  <2>3. RowsOf(docs', Doc)
    BY <1>0, <2>1, <2>2, PutRows
  <2> QED
    BY <2>1, <2>3, <1>b, EndsTyped
<1>4. CASE ReadDoc(r)
  <2>1. /\ ctx[r].op \in DocOps /\ Goto(r, "read", docs[What(r).row]) /\ UNCHANGED contentVars
        /\ What(r).row \in DOMAIN docs
    BY <1>4 DEF ReadDoc, Found, DocOps
  <2>2. docs[What(r).row] \in Doc
    BY <1>0, <2>1 DEF RowsOf
  <2> QED
    BY <2>1, <2>2, <1>a, DocGoes
<1>5. CASE WriteDoc(r)
  <2> DEFINE d == [text |-> What(r).text, version |-> NextVersion(r)]
  <2>1. /\ ctx[r].op \in {"updateDoc", "agentDoc"} /\ at[r] = "read"
        /\ What(r).row \in DOMAIN docs
        /\ docs' = [docs EXCEPT ![What(r).row] = d]
        /\ Write(r, IF ctx[r].op = "updateDoc" THEN "log" ELSE "done")
        /\ UNCHANGED <<tasks, requirements, skills, keys>>
    BY <1>5 DEF WriteDoc, Found
  <2>2. ctx[r].seen.version \in Nat /\ docs[What(r).row].version \in Nat
    BY <1>0, <2>1 DEF DocsFit, RowsOf, Doc
  <2>3. NextVersion(r) \in Nat
    BY <2>2 DEF NextVersion
  <2>4. What(r).text \in Texts
    BY <1>0, <2>1 DEF DocsFit
  <2>5. d \in Doc
    BY <2>3, <2>4 DEF Doc
  <2>6. RowsOf(docs', Doc)
    BY <1>0, <2>1, <2>5, WriteRows
  <2>7. (IF ctx[r].op = "updateDoc" THEN "log" ELSE "done") \in {"log", "done"}
    OBVIOUS
  <2> QED
    BY <2>1, <2>6, <2>7, <1>b, EndsTyped
<1>6. CASE RemoveDoc(r)
  <2>1. /\ UNCHANGED <<tasks, requirements, skills, keys>>
        /\ docs' = Drop(docs, What(r).row) /\ Write(r, "log")
    BY <1>6 DEF RemoveDoc
  <2>2. RowsOf(docs', Doc)
    BY <1>0, <2>1, DropRows
  <2> QED
    BY <2>1, <2>2, <1>b, EndsTyped
<1> QED
  BY <1>1, <1>2, <1>3, <1>4, <1>5, <1>6 DEF DocStep

\* Requests to requirements and skills still fit when their handlers go on.
LEMMA RowGoes ==
  ASSUME TypeInv, NEW r \in Requests, ctx[r].op \in RowOps, NEW s, NEW x, Goto(r, s, x),
         s # "member"
  PROVE  Typed(r)
<1>1. at'[r] = s /\ ctx'[r].op = ctx[r].op /\ ctx'[r].what = ctx[r].what
  BY WentOn DEF TypeInv
<1>2. RowsFit(r)
  BY DEF TypeInv, Fits
<1>3. RowsFit(r)'
  BY <1>1, <1>2 DEF RowsFit, What
<1> QED
  BY <1>1, <1>3, GotoTypes, PartsFit DEF Typed

\* The steps of requests to requirements and skills keep the types of the content.
LEMMA RowTypes ==
  ASSUME TypeInv, NEW r \in Requests, RowStep(r)
  PROVE  Typed(r) /\ ContentTypeOK' /\ Bounded'
<1>0. /\ RowsFit(r) /\ RowsOf(skills, Names) /\ requirements \subseteq Rows
      /\ Bounded /\ r \in Rows /\ ContentTypeOK
  BY DEF TypeInv, TypeOK, Fits, ContentTypeOK, Rows
<1>a. ASSUME UNCHANGED contentVars PROVE ContentTypeOK' /\ Bounded'
  BY <1>a, <1>0 DEF contentVars, ContentTypeOK, Bounded
<1>b. ASSUME UNCHANGED <<tasks, docs, keys>>, requirements' \subseteq Rows,
             RowsOf(skills', Names)
      PROVE  ContentTypeOK' /\ Bounded'
  BY <1>b, <1>0 DEF ContentTypeOK, Bounded
<1>c. ASSUME NEW u \in Users, NEW o \in RowOps, NEW x, NEW s, Accept(r, u, s, o, x),
             o = "createSkill" => x \in Names
      PROVE  Typed(r)
  <2>2. at'[r] = "accepted" /\ ctx'[r].op = o /\ ctx'[r].what = x
    BY <1>c, AcceptTypes
  <2>3. RowsFit(r)'
    BY <1>c, <2>2 DEF RowsFit, What
  <2> QED
    BY <1>c, <2>2, <2>3, AcceptTypes, PartsFit DEF Typed
<1>1. CASE AcceptRowRequest(r)
  <2>1. PICK u \in Users :
       \/ Accept(r, u, Contributors, "createRequirement", None)
       \/ \E n \in Names : Accept(r, u, Contributors, "createSkill", n)
       \/ \E i \in requirements :
            \/ Accept(r, u, Contributors, "updateRequirement", [row |-> i])
            \/ Accept(r, u, Managers, "removeRequirement", [row |-> i])
       \/ \E i \in DOMAIN skills :
            \/ Accept(r, u, Contributors, "updateSkill", [row |-> i])
            \/ Accept(r, u, Managers, "removeSkill", [row |-> i])
    BY <1>1 DEF AcceptRowRequest
  <2>2. Typed(r)
    BY <2>1, <1>c DEF RowOps
  <2> QED
    BY <1>1, <2>2, <1>a DEF AcceptRowRequest
<1>2. CASE CreateRequirement(r)
  <2>1. /\ UNCHANGED <<tasks, docs, skills, keys>> /\ requirements' = requirements \cup {r}
        /\ Write(r, "log")
    BY <1>2 DEF CreateRequirement
  <2>2. requirements' \subseteq Rows
    BY <1>0, <2>1
  <2> QED
    BY <1>0, <2>1, <2>2, <1>b, EndsTyped
<1>3. CASE FindRow(r)
  <2>1. ctx[r].op \in RowOps /\ Goto(r, "found", None) /\ UNCHANGED contentVars
    BY <1>3 DEF FindRow, RowOps
  <2> QED
    BY <2>1, <1>a, RowGoes
<1>4. CASE UpdateRequirement(r)
  BY <1>4, <1>a, EndsTyped DEF UpdateRequirement
<1>5. CASE RemoveRequirement(r)
  <2>1. /\ UNCHANGED <<tasks, docs, skills, keys>>
        /\ requirements' = requirements \ {What(r).row} /\ Write(r, "log")
    BY <1>5 DEF RemoveRequirement
  <2>2. requirements' \subseteq Rows
    BY <1>0, <2>1
  <2> QED
    BY <1>0, <2>1, <2>2, <1>b, EndsTyped
<1>6. CASE CreateSkill(r)
  <2>1. /\ ctx[r].op = "createSkill" /\ UNCHANGED <<tasks, docs, requirements, keys>>
        /\ skills' = Put(skills, r, What(r)) /\ Write(r, "done")
    BY <1>6 DEF CreateSkill, On
  <2>2. What(r) \in Names
    BY <1>0, <2>1 DEF RowsFit
  <2>3. RowsOf(skills', Names)
    BY <1>0, <2>1, <2>2, PutRows
  <2> QED
    BY <1>0, <2>1, <2>3, <1>b, EndsTyped
<1>7. CASE UpdateSkill(r)
  BY <1>7, <1>a, EndsTyped DEF UpdateSkill
<1>8. CASE RemoveSkill(r)
  <2>1. /\ UNCHANGED <<tasks, docs, requirements, keys>>
        /\ skills' = Drop(skills, What(r).row) /\ Write(r, "done")
    BY <1>8 DEF RemoveSkill
  <2>2. RowsOf(skills', Names)
    BY <1>0, <2>1, DropRows
  <2> QED
    BY <1>0, <2>1, <2>2, <1>b, EndsTyped
<1> QED
  BY <1>1, <1>2, <1>3, <1>4, <1>5, <1>6, <1>7, <1>8 DEF RowStep

-----------------------------------------------------------------------------
(* The connection to Linear and the repositories.                          *)

\* Requests to the connection still fit when their handlers go on.
LEMMA LinearGoes ==
  ASSUME TypeInv, NEW r \in Requests, ctx[r].op \in LinearOps, NEW s, NEW x, Goto(r, s, x),
         s # "member", s \in {"found", "answered"} => x \in Connections
  PROVE  Typed(r)
<1>1. /\ at'[r] = s /\ ctx'[r].op = ctx[r].op /\ ctx'[r].what = ctx[r].what
      /\ ctx'[r].seen = x
  BY WentOn DEF TypeInv
<1>2. LinearFit(r)
  BY DEF TypeInv, Fits
<1>3. LinearFit(r)'
  BY <1>1, <1>2 DEF LinearFit, What
<1> QED
  BY <1>1, <1>3, GotoTypes, PartsFit DEF Typed

\* The steps of requests to the connection keep its type.
LEMMA LinearTypes ==
  ASSUME TypeInv, NEW r \in Requests, LinearStep(r)
  PROVE  Typed(r) /\ LinearTypeOK'
<1>0. LinearFit(r) /\ r \in Rows /\ LinearTypeOK
  BY DEF TypeInv, TypeOK, Fits, Rows
<1>a. ASSUME UNCHANGED linearVars PROVE LinearTypeOK'
  BY <1>a, <1>0 DEF linearVars, LinearTypeOK
<1>b. connection = None \/ connection \in Connections
  BY <1>0 DEF LinearTypeOK, Connections
<1>c. ASSUME UNCHANGED refused, connection' = None \/ connection' \in Connections
      PROVE  LinearTypeOK'
  BY <1>c, <1>0 DEF LinearTypeOK, Connections
<1>1. CASE AcceptLinearRequest(r)
  <2>1. PICK u \in OrgAdmins :
       \/ \E t \in Tokens : Enters(r, u, "connect", t)
       \/ \E o \in {"disconnect", "verify"} : Enters(r, u, o, None)
    BY <1>1 DEF AcceptLinearRequest
  <2>2. u \in Users \cup {None}
    BY LinearAssumption
  <2>3. ASSUME NEW o \in LinearOps, NEW x, Enters(r, u, o, x), o = "connect" => x \in Tokens
        PROVE  Typed(r)
    <3>1. Tables
      BY DEF TypeInv
    <3>2. at'[r] = "accepted" /\ ctx'[r].op = o /\ ctx'[r].what = x
      BY <2>3, <3>1, Entered
    <3>3. LinearFit(r)'
      BY <2>3, <3>2 DEF LinearFit, What
    <3> QED
      BY <2>2, <2>3, <3>2, <3>3, EntersTypes, PartsFit DEF Typed
  <2>4. Typed(r)
    BY <2>1, <2>3 DEF LinearOps
  <2> QED
    BY <1>1, <1>a, <2>4 DEF AcceptLinearRequest
<1>2. CASE VerifyNewToken(r)
  <2>1. ctx[r].op \in LinearOps /\ Goto(r, "verified", None) /\ UNCHANGED linearVars
    BY <1>2 DEF VerifyNewToken, On, LinearOps
  <2> QED
    BY <2>1, <1>a, LinearGoes
<1>3. CASE Connect(r)
  <2>1. /\ ctx[r].op = "connect" /\ refused' = refused /\ Write(r, "done")
        /\ connection' = [id |-> IF connection = None THEN r ELSE connection.id,
                          token |-> What(r), status |-> "active"]
    BY <1>3 DEF Connect, On, What
  <2>2. What(r) \in Tokens
    BY <1>0, <2>1 DEF LinearFit
  <2>3. (IF connection = None THEN r ELSE connection.id) \in Rows
    BY <1>0, <1>b DEF Connections
  <2>4. connection' \in Connections
    BY <2>1, <2>2, <2>3 DEF Connections
  <2> QED
    BY <2>1, <2>4, <1>c, EndsTyped
<1>4. CASE FindConnection(r)
  <2>1. /\ ctx[r].op \in LinearOps /\ Goto(r, "found", connection) /\ UNCHANGED linearVars
        /\ connection # None
    BY <1>4 DEF FindConnection, LinearOps
  <2> QED
    BY <2>1, <1>a, <1>b, LinearGoes
<1>5. CASE Disconnect(r)
  BY <1>5, <1>c, EndsTyped DEF Disconnect
<1>6. CASE AskLinear(r)
  <2>1. PICK s \in VerifyLinearPat(ctx[r].seen.token) :
          /\ ctx[r].op = "verify" /\ at[r] = "found" /\ UNCHANGED linearVars
          /\ Goto(r, "answered", [id |-> ctx[r].seen.id, token |-> ctx[r].seen.token,
                                  status |-> s])
    BY <1>6 DEF AskLinear, On
  <2>2. ctx[r].seen \in Connections /\ s \in {"active", "error"}
    BY <1>0, <2>1 DEF LinearFit, VerifyLinearPat
  <2>3. [id |-> ctx[r].seen.id, token |-> ctx[r].seen.token, status |-> s] \in Connections
    BY <2>2 DEF Connections
  <2>4. ctx[r].op \in LinearOps
    BY <2>1 DEF LinearOps
  <2> QED
    BY <2>1, <2>3, <2>4, <1>a, LinearGoes
<1>7. CASE CannotDecrypt(r)
  <2> DEFINE x == [ctx[r].seen EXCEPT !.status = "error"]
  <2>1. /\ ctx[r].op = "verify" /\ at[r] = "found" /\ Goto(r, "answered", x)
        /\ UNCHANGED linearVars
    BY <1>7 DEF CannotDecrypt, On
  <2>2. ctx[r].seen \in Connections
    BY <1>0, <2>1 DEF LinearFit
  <2>3. x \in Connections
    BY <2>2 DEF Connections
  <2>4. ctx[r].op \in LinearOps
    BY <2>1 DEF LinearOps
  <2> QED
    BY <2>1, <2>3, <2>4, <1>a, LinearGoes
<1>8. CASE SaveVerification(r)
  <2>1. /\ ctx[r].op = "verify" /\ at[r] = "answered" /\ connection # None
        /\ connection' = [connection EXCEPT !.status = ctx[r].seen.status]
        /\ Write(r, "done") /\ refused' = refused
    BY <1>8 DEF SaveVerification, On, HasId
  <2>2. ctx[r].seen \in Connections /\ connection \in Connections
    BY <1>0, <1>b, <2>1 DEF LinearFit
  <2>3. connection' \in Connections
    BY <2>1, <2>2 DEF Connections
  <2> QED
    BY <2>1, <2>3, <1>c, EndsTyped
<1> QED
  BY <1>1, <1>2, <1>3, <1>4, <1>5, <1>6, <1>7, <1>8 DEF LinearStep

\* Requests to repositories still fit when their handlers go on.
LEMMA RepositoryGoes ==
  ASSUME TypeInv, NEW r \in Requests, ctx[r].op \in RepositoryOps, NEW s, NEW x,
         Goto(r, s, x), s # "member", UNCHANGED clock,
         ctx[r].op = "linkRepository" => x \in GithubRepos
  PROVE  Typed(r)
<1>1. /\ at'[r] = s /\ ctx'[r].op = ctx[r].op /\ ctx'[r].what = ctx[r].what
      /\ ctx'[r].seen = x
  BY WentOn DEF TypeInv
<1>2. RepositoriesFit(r)
  BY DEF TypeInv, Fits
<1>3. RepositoriesFit(r)'
  BY <1>1, <1>2 DEF RepositoriesFit, What
<1> QED
  BY <1>1, <1>3, GotoTypes, PartsFit DEF Typed

\* The steps of requests to repositories keep the types of links and answers.
LEMMA RepositoryTypes ==
  ASSUME TypeInv, NEW r \in Requests, RepositoryStep(r)
  PROVE  Typed(r) /\ RepositoriesTypeOK' /\ clock' = clock
<1>0. RepositoriesFit(r) /\ r \in Rows /\ RepositoriesTypeOK
  BY DEF TypeInv, TypeOK, Fits, Rows
<1>a. ASSUME UNCHANGED repositoryVars PROVE RepositoriesTypeOK' /\ clock' = clock
  BY <1>a, <1>0 DEF repositoryVars, RepositoriesTypeOK
<1>b. /\ RowsOf(linked, GithubRepos) /\ RowsOf(cache, Nat)
      /\ clock \in 0 .. MaxTime /\ MaxTime \in Nat /\ Ttl \in Nat
  BY <1>0, RepositoriesAssumption DEF RepositoriesTypeOK
<1>c. ASSUME UNCHANGED <<onGithub, clock>>, RowsOf(linked', GithubRepos), RowsOf(cache', Nat)
      PROVE  RepositoriesTypeOK' /\ clock' = clock
  BY <1>c, <1>0 DEF RepositoriesTypeOK
<1>1. CASE AcceptRepositoryRequest(r)
  <2>1. PICK u \in Users :
       \/ \E g \in GithubRepos : Accept(r, u, Managers, "linkRepository", g)
       \/ \E i \in DOMAIN linked, o \in {"unlinkRepository", "refreshRepository"} :
            Accept(r, u, Managers, o, i)
       \/ \E i \in DOMAIN linked : Accept(r, u, Everybody, "readRepository", i)
    BY <1>1 DEF AcceptRepositoryRequest
  <2>2. ASSUME NEW o \in RepositoryOps, NEW x, NEW s, Accept(r, u, s, o, x),
               o = "linkRepository" => x \in GithubRepos,
               o = "readRepository" => x \in Rows
        PROVE  Typed(r)
    <3>1. at'[r] = "accepted" /\ ctx'[r].op = o /\ ctx'[r].what = x
      BY <2>2, AcceptTypes
    <3>2. RepositoriesFit(r)'
      BY <2>2, <3>1 DEF RepositoriesFit, What
    <3> QED
      BY <2>2, <3>1, <3>2, AcceptTypes, PartsFit DEF Typed
  <2>3. DOMAIN linked \subseteq Rows
    BY <1>b DEF RowsOf
  <2>4. Typed(r)
    BY <2>1, <2>2, <2>3 DEF RepositoryOps
  <2> QED
    BY <1>1, <1>a, <2>4 DEF AcceptRepositoryRequest
<1>2. CASE EnsureLinkedRow(r)
  <2>1. /\ ctx[r].op \in RepositoryOps \ {"linkRepository"}
        /\ Goto(r, "row", linked[ctx[r].what]) /\ UNCHANGED repositoryVars
    BY <1>2 DEF EnsureLinkedRow, RepositoryOps
  <2> QED
    BY <2>1, <1>a, RepositoryGoes
<1>3. CASE CreateOctokitForUser(r)
  <2>1. /\ ctx[r].op \in RepositoryOps /\ UNCHANGED repositoryVars
        /\ Goto(r, "octokit", IF ctx[r].op = "linkRepository" THEN ctx[r].what ELSE ctx[r].seen)
    BY <1>3 DEF CreateOctokitForUser, On, RepositoryOps
  <2>2. ctx[r].op = "linkRepository" => ctx[r].what \in GithubRepos
    BY <1>0 DEF RepositoriesFit, What
  <2> QED
    BY <2>1, <2>2, <1>a, RepositoryGoes
<1>4. CASE GetFromGithub(r)
  <2>1. /\ ctx[r].op \in RepositoryOps /\ UNCHANGED repositoryVars
        /\ Goto(r, "got", ctx[r].seen) /\ ctx[r].seen \in onGithub
    BY <1>4 DEF GetFromGithub, RepositoryOps
  <2>2. ctx[r].seen \in GithubRepos
    BY <1>0, <2>1 DEF RepositoriesTypeOK
  <2> QED
    BY <2>1, <2>2, <1>a, RepositoryGoes
<1>5. CASE LinkRepository(r)
  <2>1. /\ ctx[r].op = "linkRepository" /\ at[r] = "got" /\ Write(r, "done")
        /\ linked' = Put(linked, r, ctx[r].seen)
        /\ UNCHANGED <<onGithub, cache, clock>>
    BY <1>5 DEF LinkRepository, On
  <2>2. ctx[r].seen \in GithubRepos
    BY <1>0, <2>1 DEF RepositoriesFit
  <2>3. RowsOf(linked', GithubRepos)
    BY <1>0, <1>b, <2>1, <2>2, PutRows
  <2> QED
    BY <2>1, <2>3, <1>b, <1>c, EndsTyped
<1>6. CASE UnlinkRepository(r)
  <2>1. /\ Write(r, "done") /\ linked' = Drop(linked, ctx[r].what)
        /\ UNCHANGED <<onGithub, cache, clock>>
    BY <1>6 DEF UnlinkRepository
  <2>2. RowsOf(linked', GithubRepos)
    BY <1>b, <2>1, DropRows
  <2> QED
    BY <2>1, <2>2, <1>b, <1>c, EndsTyped
<1>7. CASE RefreshRepository(r)
  BY <1>7, <1>a, EndsTyped DEF RefreshRepository
<1>8. CASE Serve(r)
  BY <1>8, <1>a, OverTypes DEF Serve
<1>9. CASE Fetch(r)
  <2>1. /\ ctx[r].op = "readRepository" /\ Goto(r, "fetched", None)
        /\ cache' = Drop(cache, ctx[r].what)
        /\ UNCHANGED <<linked, onGithub, clock>>
    BY <1>9 DEF Fetch, On
  <2>2. RowsOf(cache', Nat)
    BY <1>b, <2>1, DropRows
  <2>3. ctx[r].op \in RepositoryOps
    BY <2>1 DEF RepositoryOps
  <2>4. Typed(r)
    BY <2>1, <2>3, RepositoryGoes
  <2> QED
    BY <2>1, <2>2, <2>4, <1>b, <1>c
<1>10. CASE Keep(r)
  <2>1. /\ ctx[r].op = "readRepository" /\ End(r)
        /\ cache' = Put(cache, What(r), clock + Ttl)
        /\ UNCHANGED <<linked, onGithub, clock>>
    BY <1>10 DEF Keep, On, What
  <2>2. What(r) \in Rows /\ clock + Ttl \in Nat
    BY <1>0, <1>b, <2>1 DEF RepositoriesFit
  <2>3. RowsOf(cache', Nat)
    BY <1>b, <2>1, <2>2, PutRows
  <2> QED
    BY <2>1, <2>3, <1>b, <1>c, OverTypes
<1> QED
  BY <1>1, <1>2, <1>3, <1>4, <1>5, <1>6, <1>7, <1>8, <1>9, <1>10 DEF RepositoryStep

-----------------------------------------------------------------------------
(* Rooms and Ragnarock.                                                    *)

\* Requests to rooms and sessions still fit when their handlers go on.
LEMMA RoomGoes ==
  ASSUME TypeInv, NEW r \in Requests, ctx[r].op \in RoomOps, NEW s, NEW x, Goto(r, s, x),
         s = "member" => ctx[r].op \in {"joinProject", "joinSession"}
  PROVE  Typed(r)
<1>1. /\ at'[r] = s /\ ctx'[r].op = ctx[r].op /\ ctx'[r].what = ctx[r].what
      /\ ctx'[r].by = ctx[r].by
  BY WentOn DEF TypeInv
<1>2. RoomsFit(r)
  BY DEF TypeInv, Fits
<1>3. RoomsFit(r)'
  BY <1>1, <1>2 DEF RoomsFit, What
<1> QED
  BY <1>1, <1>3, GotoTypes, PartsFit DEF Typed

\* The steps of requests to rooms and sessions keep their types.
LEMMA RoomTypes ==
  ASSUME TypeInv, NEW r \in Requests, RoomStep(r) \/ \E p : CheckContributor(r, p)
  PROVE  Typed(r) /\ RoomsTypeOK'
<1>0. RoomsFit(r) /\ r \in Rows /\ RoomsTypeOK
  BY DEF TypeInv, TypeOK, Fits, Rows
<1>a. ASSUME UNCHANGED roomVars PROVE RoomsTypeOK'
  BY <1>a, <1>0 DEF roomVars, RoomsTypeOK
<1>b. /\ rooms \in [Users -> SUBSET (Rows \cup {Whole})] /\ RowsOf(sessions, Agents)
      /\ asked \subseteq Users /\ received \subseteq Users
  BY <1>0 DEF RoomsTypeOK
<1>1. CASE AcceptRoomRequest(r)
  <2>1. PICK u \in Users :
       \/ \E a \in Agents : Enters(r, u, "createSession", a)
       \/ Enters(r, u, "joinProject", Whole)
       \/ \E i \in DOMAIN sessions, o \in {"joinSession", "submitTurn"} : Enters(r, u, o, i)
    BY <1>1 DEF AcceptRoomRequest, Accept
  <2>2. ASSUME NEW o \in RoomOps, NEW x, Enters(r, u, o, x),
               o = "createSession" => x \in Agents,
               o \in {"joinProject", "joinSession"} => x \in Rows \cup {Whole}
        PROVE  Typed(r)
    <3>1. Tables
      BY DEF TypeInv
    <3>2. at'[r] = "accepted" /\ ctx'[r].op = o /\ ctx'[r].what = x /\ ctx'[r].by = u
      BY <2>2, <3>1, Entered
    <3>3. RoomsFit(r)'
      BY <2>2, <3>2 DEF RoomsFit, What
    <3>4. u \in Users \cup {None}
      OBVIOUS
    <3> QED
      BY <2>2, <3>2, <3>3, <3>4, EntersTypes, PartsFit DEF Typed
  <2>3. DOMAIN sessions \subseteq Rows
    BY <1>b DEF RowsOf
  <2>4. Typed(r)
    BY <2>1, <2>2, <2>3 DEF RoomOps
  <2> QED
    BY <1>1, <1>a, <2>4 DEF AcceptRoomRequest
<1>2. CASE CreateSession(r)
  <2>1. /\ ctx[r].op = "createSession" /\ Write(r, "done")
        /\ sessions' = Put(sessions, r, What(r)) /\ UNCHANGED <<rooms, asked, received>>
    BY <1>2 DEF CreateSession, On, What
  <2>2. What(r) \in Agents
    BY <1>0, <2>1 DEF RoomsFit
  <2>3. RowsOf(sessions', Agents)
    BY <1>0, <1>b, <2>1, <2>2, PutRows
  <2>4. RoomsTypeOK'
    BY <1>0, <2>1, <2>3 DEF RoomsTypeOK
  <2> QED
    BY <2>1, <2>4, EndsTyped
<1>3. CASE FindSession(r)
  <2>1. ctx[r].op \in RoomOps /\ Goto(r, "found", None) /\ UNCHANGED roomVars
    BY <1>3 DEF FindSession, RoomOps
  <2> QED
    BY <2>1, <1>a, RoomGoes
<1>4. CASE CheckMembership(r)
  <2>1. /\ ctx[r].op \in {"joinProject", "joinSession"} /\ Goto(r, "member", None)
        /\ UNCHANGED roomVars
    BY <1>4 DEF CheckMembership, On
  <2>2. ctx[r].op \in RoomOps
    BY <2>1 DEF RoomOps
  <2> QED
    BY <2>1, <2>2, <1>a, RoomGoes
<1>5. CASE Join(r)
  <2>1. /\ at[r] = "member" /\ End(r) /\ UNCHANGED <<sessions, asked, received>>
        /\ rooms' = [rooms EXCEPT ![ctx[r].by] = @ \cup {What(r)}]
    BY <1>5 DEF Join, What
  <2>2. What(r) \in Rows \cup {Whole}
    BY <1>0, <2>1 DEF RoomsFit
  <2>3. rooms' \in [Users -> SUBSET (Rows \cup {Whole})]
    BY <1>b, <2>1, <2>2
  <2>4. RoomsTypeOK'
    BY <1>0, <2>1, <2>3 DEF RoomsTypeOK
  <2> QED
    BY <2>1, <2>4, OverTypes
<1>6. CASE StoreMessage(r)
  <2>1. /\ ctx[r].op = "submitTurn" /\ asked' = asked \cup {ctx[r].by}
        /\ Write(r, "done") /\ UNCHANGED <<rooms, sessions, received>>
    BY <1>6 DEF StoreMessage, On
  <2>2. ctx[r].by \in Users
    BY <1>0, <2>1 DEF RoomsFit
  <2>3. RoomsTypeOK'
    BY <1>0, <2>1, <2>2 DEF RoomsTypeOK
  <2> QED
    BY <2>1, <2>3, EndsTyped
<1>7. ASSUME NEW p, CheckContributor(r, p)
      PROVE  Typed(r) /\ RoomsTypeOK'
  <2>1. ctx[r].op \in RoomOps /\ Goto(r, "contributor", None) /\ UNCHANGED roomVars
    BY <1>7 DEF CheckContributor, On, RoomOps
  <2> QED
    BY <2>1, <1>a, RoomGoes
<1> QED
  BY <1>1, <1>2, <1>3, <1>4, <1>5, <1>6, <1>7 DEF RoomStep

\* Requests to the chats still fit when their handlers go on.
LEMMA RagnarockGoes ==
  ASSUME TypeInv, NEW r \in Requests, ctx[r].op \in RagnarockOps, NEW s, NEW x, Goto(r, s, x),
         s # "member", s \in {"found", "stored"} => Range(x) \subseteq Message
  PROVE  Typed(r)
<1>1. /\ at'[r] = s /\ ctx'[r].op = ctx[r].op /\ ctx'[r].what = ctx[r].what
      /\ ctx'[r].by = ctx[r].by /\ ctx'[r].seen = x
  BY WentOn DEF TypeInv
<1>2. RagnarockFit(r)
  BY DEF TypeInv, Fits
<1>3. RagnarockFit(r)'
  BY <1>1, <1>2 DEF RagnarockFit, What
<1> QED
  BY <1>1, <1>3, GotoTypes, PartsFit DEF Typed

\* The history of a question consists of messages.
LEMMA HistoryTypes ==
  ASSUME messages \in Seq(Message), NEW i
  PROVE  Range(History(i)) \subseteq Message
<1>1. \A k \in 1 .. Len(messages) : messages[k] \in Message
  OBVIOUS
<1>2. \A k \in DOMAIN History(i) : k \in 1 .. Len(messages) /\ History(i)[k] = messages[k]
  BY DEF History, Restrict, Conversation
<1> QED
  BY <1>1, <1>2 DEF Range

\* The steps of requests to the chats keep the types of chats and messages.
LEMMA RagnarockTypes ==
  ASSUME TypeInv, NEW r \in Requests, RagnarockStep(r)
  PROVE  Typed(r) /\ RagnarockTypeOK'
<1>0. RagnarockFit(r) /\ r \in Rows /\ RagnarockTypeOK
  BY DEF TypeInv, TypeOK, Fits, Rows
<1>a. ASSUME UNCHANGED ragnarockVars PROVE RagnarockTypeOK'
  BY <1>a, <1>0 DEF ragnarockVars, RagnarockTypeOK
<1>b. /\ RowsOf(chats, Users) /\ messages \in Seq(Message)
      /\ deliveries \in 0 .. MaxDeliveries
      /\ \A q \in questions : /\ q.id \in Requests /\ q.chat \in Rows
                              /\ Range(q.history) \subseteq Message
  BY <1>0 DEF RagnarockTypeOK
<1>1. CASE AcceptRagnarockRequest(r)
  <2>1. PICK u \in Users :
       \/ Accept(r, u, Everybody, "createChat", None)
       \/ \E i \in DOMAIN chats : Accept(r, u, Everybody, "sendMessage", i)
    BY <1>1 DEF AcceptRagnarockRequest
  <2>2. ASSUME NEW o \in RagnarockOps, NEW x, NEW s, Accept(r, u, s, o, x),
               o = "sendMessage" => x \in Rows
        PROVE  Typed(r)
    <3>1. at'[r] = "accepted" /\ ctx'[r].op = o /\ ctx'[r].what = x /\ ctx'[r].by = u
      BY <2>2, AcceptTypes
    <3>2. RagnarockFit(r)'
      BY <2>2, <3>1 DEF RagnarockFit, What
    <3> QED
      BY <2>2, <3>1, <3>2, AcceptTypes, PartsFit DEF Typed
  <2>3. DOMAIN chats \subseteq Rows
    BY <1>b DEF RowsOf
  <2>4. Typed(r)
    BY <2>1, <2>2, <2>3 DEF RagnarockOps
  <2> QED
    BY <1>1, <1>a, <2>4 DEF AcceptRagnarockRequest
<1>2. CASE CreateChat(r)
  <2>1. /\ ctx[r].op = "createChat" /\ chats' = Put(chats, r, ctx[r].by) /\ Write(r, "done")
        /\ UNCHANGED <<messages, questions, deliveries>>
    BY <1>2 DEF CreateChat, On
  <2>2. ctx[r].by \in Users
    BY <1>0, <2>1 DEF RagnarockFit
  <2>3. RowsOf(chats', Users)
    BY <1>0, <1>b, <2>1, <2>2, PutRows
  <2>4. RagnarockTypeOK'
    BY <1>0, <2>1, <2>3 DEF RagnarockTypeOK
  <2> QED
    BY <2>1, <2>4, EndsTyped
<1>3. CASE FindChat(r)
  <2>1. /\ ctx[r].op \in RagnarockOps /\ Goto(r, "found", History(ctx[r].what))
        /\ UNCHANGED ragnarockVars
    BY <1>3 DEF FindChat, On, RagnarockOps
  <2>2. Range(History(ctx[r].what)) \subseteq Message
    BY <1>b, HistoryTypes
  <2> QED
    BY <2>1, <2>2, <1>a, RagnarockGoes
<1>4. CASE StoreQuestion(r)
  <2> DEFINE m == [chat |-> What(r), by |-> "user", question |-> r]
  <2>1. /\ ctx[r].op = "sendMessage" /\ at[r] = "found" /\ messages' = Append(messages, m)
        /\ Write(r, "stored") /\ UNCHANGED <<chats, questions, deliveries>>
    BY <1>4 DEF StoreQuestion, On, What
  <2>2. What(r) \in Rows /\ Range(ctx[r].seen) \subseteq Message
    BY <1>0, <2>1 DEF RagnarockFit
  <2>3. m \in Message
    BY <2>2 DEF Message
  <2>4. messages' \in Seq(Message)
    <3> HIDE DEF m
    <3> QED
      BY <1>b, <2>1, <2>3
  <2>5. RagnarockTypeOK'
    BY <1>0, <2>1, <2>4 DEF RagnarockTypeOK
  <2>6. at'[r] = "stored" /\ ctx'[r] = ctx[r]
    BY <2>1, WroteOn DEF TypeInv
  <2>7. RagnarockFit(r)' /\ ctx'[r].op \in RagnarockOps
    BY <2>1, <2>2, <2>6 DEF RagnarockFit, What, RagnarockOps
  <2>8. Typed(r)
    BY <2>1, <2>6, <2>7, WriteTypes, PartsFit DEF Typed
  <2> QED
    BY <2>5, <2>8
<1>5. CASE QueueQuestion(r)
  <2> DEFINE q == [id |-> r, chat |-> What(r), history |-> ctx[r].seen]
  <2>1. /\ ctx[r].op = "sendMessage" /\ at[r] = "stored" /\ Write(r, "done")
        /\ questions' = questions \cup {q}
        /\ UNCHANGED <<chats, messages, deliveries>>
    BY <1>5 DEF QueueQuestion, QuestionStored, What
  <2>2. What(r) \in Rows /\ Range(ctx[r].seen) \subseteq Message
    BY <1>0, <2>1 DEF RagnarockFit
  <2>3. q.id \in Requests /\ q.chat \in Rows /\ Range(q.history) \subseteq Message
    BY <2>2
  <2>4. RagnarockTypeOK'
    <3> HIDE DEF q
    <3> QED
      BY <1>b, <1>0, <2>1, <2>3 DEF RagnarockTypeOK
  <2> QED
    BY <2>1, <2>4, EndsTyped
<1> QED
  BY <1>1, <1>2, <1>3, <1>4, <1>5 DEF RagnarockStep

-----------------------------------------------------------------------------
(* The composition.                                                        *)

\* Only requests to members and to the project reach the project.
LEMMA ProjectStays ==
  ASSUME NEW r \in Requests,
         \/ ContentStep(r) \/ LinearStep(r) \/ RepositoryStep(r) \/ RagnarockStep(r)
         \/ RoomStep(r) \/ \E p : CheckContributor(r, p)
         \/ Stops(r) \/ Log(r)
  PROVE  UNCHANGED <<project, role>>
<1> USE DEF projectVars, Accept, Enters
<1>1. CASE TaskStep(r)
  BY <1>1 DEF TaskStep, AcceptTaskRequest, FindTask, CheckAssignee, PlaceTask, CreateTask,
              UpdateTask, FindTasks, ReorderTasks, RemoveTask
<1>2. CASE KeyStep(r)
  BY <1>2 DEF KeyStep, AcceptKeyRequest, CheckName, CreateKey, FindKey, RevokeKey, FindsKey,
              TouchKey, MarkTaskComplete
<1>3. CASE DocStep(r)
  BY <1>3 DEF DocStep, AcceptDocRequest, AgentWritesDoc, CreateDoc, ReadDoc, WriteDoc,
              RemoveDoc
<1>4. CASE RowStep(r)
  BY <1>4 DEF RowStep, AcceptRowRequest, CreateRequirement, FindRow, UpdateRequirement,
              RemoveRequirement, CreateSkill, UpdateSkill, RemoveSkill
<1>5. CASE LinearStep(r)
  BY <1>5 DEF LinearStep, AcceptLinearRequest, VerifyNewToken, Connect, FindConnection,
              Disconnect, AskLinear, CannotDecrypt, SaveVerification
<1>6. CASE RepositoryStep(r)
  BY <1>6 DEF RepositoryStep, AcceptRepositoryRequest, EnsureLinkedRow,
              CreateOctokitForUser, GetFromGithub, LinkRepository, UnlinkRepository,
              RefreshRepository, Serve, Fetch, Keep
<1>7. CASE RagnarockStep(r)
  BY <1>7 DEF RagnarockStep, AcceptRagnarockRequest, CreateChat, FindChat, StoreQuestion,
              QueueQuestion
<1>8. CASE RoomStep(r)
  BY <1>8 DEF RoomStep, AcceptRoomRequest, CreateSession, FindSession, CheckMembership,
              Join, StoreMessage
<1>9. CASE \E p : CheckContributor(r, p)
  BY <1>9 DEF CheckContributor
<1>10. CASE Stops(r) \/ Log(r)
  BY <1>10 DEF Stops, Log
<1> QED
  BY <1>1, <1>2, <1>3, <1>4, <1>5, <1>6, <1>7, <1>8, <1>9, <1>10 DEF ContentStep

\* What the types say of the data of all parts.
DataOK ==
  /\ MembersOK /\ ContentTypeOK /\ Bounded /\ LinearTypeOK /\ RepositoriesTypeOK
  /\ RoomsTypeOK /\ RagnarockTypeOK

\* The data of all parts is of its types.
LEMMA DataTypes ==
  ASSUME TypeInv
  PROVE  DataOK
BY DEF TypeInv, TypeOK, ApiTypeOK, DataOK, MembersOK

\* What the other requests know still fits.
LEMMA OthersFit ==
  ASSUME TypeInv, NEW r \in Requests, Typed(r), orgMembers \subseteq orgMembers',
         clock' = clock
  PROVE  /\ \A q \in Requests : Fits(q)'
         /\ \A q \in Requests : ctx'[q].by \in Users \cup {None} /\ ctx'[q].quiet \in BOOLEAN
<1>1. ASSUME NEW q \in Requests, q # r
      PROVE  Fits(q)'
  <2>1. /\ at'[q] = at[q]
        /\ ctx'[q].op = ctx[q].op /\ ctx'[q].by = ctx[q].by
        /\ ctx'[q].what = ctx[q].what /\ ctx'[q].seen = ctx[q].seen
    BY <1>1 DEF Typed, Others
  <2>2. Fits(q)
    BY DEF TypeInv
  <2>3. MembersFit(q)' /\ TasksFit(q)' /\ KeysFit(q)' /\ DocsFit(q)' /\ RowsFit(q)'
    BY <2>1, <2>2 DEF Fits, MembersFit, TasksFit, KeysFit, DocsFit, RowsFit, What
  <2>4. LinearFit(q)' /\ RepositoriesFit(q)' /\ RoomsFit(q)' /\ RagnarockFit(q)'
    BY <2>1, <2>2 DEF Fits, LinearFit, RepositoriesFit, RoomsFit, RagnarockFit, What
  <2> QED
    BY <2>3, <2>4 DEF Fits
<1>2. ASSUME NEW q \in Requests, q # r
      PROVE  ctx'[q].by \in Users \cup {None} /\ ctx'[q].quiet \in BOOLEAN
  <2>1. ctx[q].by \in Users \cup {None} /\ ctx[q].quiet \in BOOLEAN
    BY DEF TypeInv, TypeOK, ApiTypeOK
  <2> QED
    BY <1>2, <2>1 DEF Typed, Others
<1> QED
  BY <1>1, <1>2 DEF Typed

\* A step of a request that fits, on data of its types, keeps the invariant.
LEMMA StepTypes ==
  ASSUME TypeInv, NEW r \in Requests, Typed(r), DataOK',
         orgMembers \subseteq orgMembers', clock' = clock
  PROVE  TypeInv'
<1>1. /\ \A q \in Requests : Fits(q)'
      /\ \A q \in Requests : ctx'[q].by \in Users \cup {None} /\ ctx'[q].quiet \in BOOLEAN
  BY OthersFit
<1>2. /\ at' = [q \in Requests |-> at'[q]] /\ ctx' = [q \in Requests |-> ctx'[q]]
  BY DEF Typed, Others
<1>3. role' = [u \in Users |-> role'[u]]
  BY DEF DataOK, MembersOK
<1>4. TypeOK'
  BY <1>1 DEF DataOK, MembersOK, TypeOK, ApiTypeOK
<1> QED
  BY <1>1, <1>2, <1>3, <1>4 DEF TypeInv, Tables, DataOK, MembersOK

\* The removal of the project leaves empty tables.
LEMMA CascadeTypes ==
  ASSUME TypeInv, NEW r \in Requests, RemoveProject(r), Cascade
  PROVE  TypeInv'
<1>1. DataOK
  BY DataTypes
<1>2. Typed(r)
  BY OverTypes DEF RemoveProject
<1>3. MembersOK'
  <2>1. /\ project' = "removed" /\ role' = [u \in Users |-> None]
        /\ personas' = [u \in Users |-> "none"] /\ UNCHANGED <<orgMembers, everMember>>
    BY DEF RemoveProject
  <2>2. Members' = {}
    BY <2>1 DEF Members
  <2> QED
    BY <1>1, <2>1, <2>2 DEF DataOK, MembersOK, MembersTypeOK, Personas
<1>4. ContentTypeOK' /\ Bounded'
  <2>1. /\ tasks' = Restrict(tasks, {}) /\ docs' = Restrict(docs, {})
        /\ requirements' = {} /\ skills' = Restrict(skills, {})
        /\ keys' = Restrict(keys, {})
    BY DEF Cascade
  <2>2. ContentTypeOK'
    BY <2>1, NoRows DEF ContentTypeOK
  <2>3. DOMAIN tasks' = {}
    BY <2>1 DEF Restrict
  <2> QED
    BY <2>2, <2>3 DEF Bounded
<1>5. LinearTypeOK' /\ RepositoriesTypeOK' /\ clock' = clock
  <2>1. /\ linked' = Restrict(linked, {})
        /\ UNCHANGED <<linearVars, onGithub, cache, clock>>
    BY DEF Cascade
  <2> QED
    BY <1>1, <2>1, NoRows DEF DataOK, LinearTypeOK, RepositoriesTypeOK, linearVars
<1>6. RoomsTypeOK' /\ RagnarockTypeOK'
  <2>1. /\ sessions' = Restrict(sessions, {}) /\ chats' = Restrict(chats, {})
        /\ messages' = <<>> /\ UNCHANGED <<rooms, asked, received, questions, deliveries>>
    BY DEF Cascade
  <2>2. RoomsTypeOK'
    BY <1>1, <2>1, NoRows DEF DataOK, RoomsTypeOK
  <2>3. <<>> \in Seq(Message)
    BY EmptySeq
  <2>4. RowsOf(chats', Users)
    BY <2>1, NoRows
  <2>5. RagnarockTypeOK'
    BY <1>1, <2>1, <2>3, <2>4 DEF DataOK, RagnarockTypeOK
  <2> QED
    BY <2>2, <2>5
<1> QED
  BY <1>2, <1>3, <1>4, <1>5, <1>6, StepTypes DEF DataOK, RemoveProject

\* Every step of a request keeps the types.
LEMMA RequestTypes ==
  ASSUME TypeInv, NEW r \in Requests, RequestStep(r)
  PROVE  TypeInv'
<1>0. DataOK
  BY DataTypes
<1>a. ASSUME UNCHANGED <<project, role, memberVars>>
      PROVE  MembersOK' /\ orgMembers \subseteq orgMembers'
  BY <1>a, <1>0 DEF DataOK, MembersOK, MembersTypeOK, memberVars, Members
<1>b. ASSUME UNCHANGED contentVars PROVE ContentTypeOK' /\ Bounded'
  BY <1>b, <1>0 DEF DataOK, contentVars, ContentTypeOK, Bounded
<1>c. ASSUME UNCHANGED linearVars PROVE LinearTypeOK'
  BY <1>c, <1>0 DEF DataOK, linearVars, LinearTypeOK
<1>d. ASSUME UNCHANGED repositoryVars PROVE RepositoriesTypeOK' /\ clock' = clock
  BY <1>d, <1>0 DEF DataOK, repositoryVars, RepositoriesTypeOK
<1>e. ASSUME UNCHANGED roomVars PROVE RoomsTypeOK'
  BY <1>e, <1>0 DEF DataOK, roomVars, RoomsTypeOK
<1>f. ASSUME UNCHANGED ragnarockVars PROVE RagnarockTypeOK'
  BY <1>f, <1>0 DEF DataOK, ragnarockVars, RagnarockTypeOK
<1>1. CASE /\ MembersStep(r)
           /\ UNCHANGED <<contentVars, linearVars, repositoryVars, roomVars, ragnarockVars>>
  BY <1>1, <1>b, <1>c, <1>d, <1>e, <1>f, MemberTypes, StepTypes DEF DataOK
<1>2. CASE /\ ContentStep(r)
           /\ UNCHANGED <<memberVars, linearVars, repositoryVars, roomVars, ragnarockVars>>
  <2>1. Typed(r) /\ ContentTypeOK' /\ Bounded'
    BY <1>2, TaskTypes, KeyTypes, DocTypes, RowTypes DEF ContentStep
  <2> QED
    BY <1>2, <2>1, <1>a, <1>c, <1>d, <1>e, <1>f, ProjectStays, StepTypes DEF DataOK
<1>3. CASE /\ LinearStep(r)
           /\ UNCHANGED <<memberVars, contentVars, repositoryVars, roomVars, ragnarockVars>>
  BY <1>3, <1>a, <1>b, <1>d, <1>e, <1>f, LinearTypes, ProjectStays, StepTypes DEF DataOK
<1>4. CASE /\ RepositoryStep(r)
           /\ UNCHANGED <<memberVars, contentVars, linearVars, roomVars, ragnarockVars>>
  BY <1>4, <1>a, <1>b, <1>c, <1>e, <1>f, RepositoryTypes, ProjectStays, StepTypes DEF DataOK
<1>5. CASE /\ RoomStep(r) \/ CheckContributor(r, personas[ctx[r].by])
           /\ UNCHANGED <<memberVars, contentVars, linearVars, repositoryVars, ragnarockVars>>
  BY <1>5, <1>a, <1>b, <1>c, <1>d, <1>f, RoomTypes, ProjectStays, StepTypes DEF DataOK
<1>6. CASE /\ RagnarockStep(r)
           /\ UNCHANGED <<memberVars, contentVars, linearVars, repositoryVars, roomVars>>
  BY <1>6, <1>a, <1>b, <1>c, <1>d, <1>e, RagnarockTypes, ProjectStays, StepTypes DEF DataOK
<1>7. CASE RemoveProject(r) /\ Cascade
  BY <1>7, CascadeTypes
<1>8. CASE /\ Stops(r) \/ Log(r)
           /\ UNCHANGED <<memberVars, contentVars, linearVars, repositoryVars, roomVars,
                          ragnarockVars>>
  <2>1. Typed(r)
    BY <1>8, OverTypes DEF Stops, Log
  <2> QED
    BY <1>8, <2>1, <1>a, <1>b, <1>c, <1>d, <1>e, <1>f, ProjectStays, StepTypes DEF DataOK
<1> QED
  BY <1>1, <1>2, <1>3, <1>4, <1>5, <1>6, <1>7, <1>8 DEF RequestStep, OtherRequests

\* What happens without a request keeps the types.
LEMMA EnvironmentTypes ==
  ASSUME TypeInv, Environment \/ UNCHANGED vars
  PROVE  TypeInv'
<1>0. DataOK
  BY DataTypes
<1>1. UNCHANGED <<project, role, at, ctx>>
  BY DEF Environment, vars, baseVars, projectVars, requestVars, KeyExpires, RevokeToken,
         Tick, DeleteOnGithub, Leave, Emit, HandleAnswer
<1>2. UNCHANGED memberVars
  BY DEF Environment, vars
<1>3. clock \in Nat /\ clock' \in Nat /\ clock <= clock'
  <2>1. clock \in Nat
    BY <1>0, RepositoriesAssumption DEF DataOK, RepositoriesTypeOK
  <2>2. clock' = clock \/ clock' = clock + 1
    BY DEF Environment, vars, repositoryVars, Tick, DeleteOnGithub
  <2> QED
    BY <2>1, <2>2
<1>4. \A q \in Requests : Fits(q)'
  <2> SUFFICES ASSUME NEW q \in Requests PROVE Fits(q)'
    OBVIOUS
  <2>1. Fits(q) /\ at'[q] = at[q] /\ ctx'[q] = ctx[q] /\ orgMembers' = orgMembers
    BY <1>1, <1>2 DEF TypeInv, memberVars
  <2>2. MembersFit(q)' /\ TasksFit(q)' /\ KeysFit(q)' /\ DocsFit(q)' /\ RowsFit(q)'
    BY <2>1 DEF Fits, MembersFit, TasksFit, KeysFit, DocsFit, RowsFit, What
  <2>3. LinearFit(q)' /\ RoomsFit(q)' /\ RagnarockFit(q)'
    BY <2>1 DEF Fits, LinearFit, RoomsFit, RagnarockFit, What
  <2>4. RepositoriesFit(q)'
    <3>1. ctx[q].seen \in 0 .. clock => ctx[q].seen \in 0 .. clock'
      BY <1>3
    <3> QED
      BY <2>1, <3>1 DEF Fits, RepositoriesFit, What
  <2> QED
    BY <2>2, <2>3, <2>4 DEF Fits
<1>5. ContentTypeOK' /\ Bounded'
  <2>1. CASE UNCHANGED contentVars
    BY <1>0, <2>1 DEF DataOK, ContentTypeOK, Bounded, contentVars
  <2>2. ASSUME NEW i \in DOMAIN keys, KeyExpires(i)
        PROVE  ContentTypeOK' /\ Bounded'
    <3>1. /\ keys' = [keys EXCEPT ![i].expired = TRUE]
          /\ UNCHANGED <<tasks, docs, requirements, skills>>
      BY <2>2 DEF KeyExpires
    <3>2. RowsOf(keys, KeyRow)
      BY <1>0 DEF DataOK, ContentTypeOK, KeyRow
    <3>3. \A k \in DOMAIN keys : keys[k] \in KeyRow
      BY <3>2 DEF RowsOf
    <3>4. DOMAIN keys' = DOMAIN keys /\ \A k \in DOMAIN keys : keys'[k] \in KeyRow
      BY <3>1, <3>3 DEF KeyRow
    <3>5. RowsOf(keys', KeyRow)
      BY <3>2, <3>4 DEF RowsOf
    <3> QED
      BY <1>0, <3>1, <3>5 DEF DataOK, ContentTypeOK, Bounded, KeyRow
  <2> QED
    BY <2>1, <2>2 DEF Environment, vars
<1>6. LinearTypeOK'
  <2>1. CASE UNCHANGED linearVars
    BY <1>0, <2>1 DEF DataOK, LinearTypeOK, linearVars
  <2>2. ASSUME NEW t \in Tokens, RevokeToken(t)
        PROVE  LinearTypeOK'
    BY <1>0, <2>2 DEF DataOK, LinearTypeOK, RevokeToken
  <2> QED
    BY <2>1, <2>2 DEF Environment, vars
<1>7. RepositoriesTypeOK'
  <2>1. CASE UNCHANGED repositoryVars
    BY <1>0, <2>1 DEF DataOK, RepositoriesTypeOK, repositoryVars
  <2>2. CASE Tick
    <3>1. clock' \in 0 .. MaxTime
      BY <1>0, <2>2, RepositoriesAssumption DEF DataOK, RepositoriesTypeOK, Tick
    <3> QED
      BY <1>0, <2>2, <3>1 DEF DataOK, RepositoriesTypeOK, Tick
  <2>3. ASSUME NEW g \in GithubRepos, DeleteOnGithub(g)
        PROVE  RepositoriesTypeOK'
    BY <1>0, <2>3 DEF DataOK, RepositoriesTypeOK, DeleteOnGithub
  <2> QED
    BY <2>1, <2>2, <2>3 DEF Environment, vars
<1>8. RoomsTypeOK'
  <2>0. rooms \in [Users -> SUBSET (Rows \cup {Whole})]
    BY <1>0 DEF DataOK, RoomsTypeOK
  <2>1. CASE UNCHANGED roomVars
    BY <1>0, <2>1 DEF DataOK, RoomsTypeOK, roomVars
  <2>2. ASSUME NEW u \in Users, Leave(u)
        PROVE  RoomsTypeOK'
    <3>1. PICK R : rooms' = [rooms EXCEPT ![u] = @ \ R]
      BY <2>2 DEF Leave
    <3>2. rooms' \in [Users -> SUBSET (Rows \cup {Whole})]
      BY <2>0, <3>1
    <3> QED
      BY <1>0, <2>2, <3>2 DEF DataOK, RoomsTypeOK, Leave
  <2>3. ASSUME NEW room, Emit(room)
        PROVE  RoomsTypeOK'
    BY <1>0, <2>3 DEF DataOK, RoomsTypeOK, Emit
  <2> QED
    BY <2>1, <2>2, <2>3 DEF Environment, vars
<1>9. RagnarockTypeOK'
  <2>1. CASE UNCHANGED ragnarockVars
    BY <1>0, <2>1 DEF DataOK, RagnarockTypeOK, ragnarockVars
  <2>2. ASSUME NEW q \in questions, HandleAnswer(q)
        PROVE  RagnarockTypeOK'
    <3> DEFINE m == [chat |-> q.chat, by |-> "assistant", question |-> q.id]
    <3>1. /\ deliveries < MaxDeliveries /\ messages' = Append(messages, m)
          /\ deliveries' = deliveries + 1 /\ questions' \in {questions, questions \ {q}}
          /\ chats' = chats
      BY <2>2 DEF HandleAnswer
    <3>2. /\ q.id \in Requests /\ q.chat \in Rows /\ messages \in Seq(Message)
          /\ deliveries \in 0 .. MaxDeliveries /\ MaxDeliveries \in Nat
      BY <1>0, RagnarockAssumption DEF DataOK, RagnarockTypeOK
    <3>3. m \in Message
      BY <3>2 DEF Message
    <3>4. messages' \in Seq(Message)
      <4> HIDE DEF m
      <4> QED
        BY <3>1, <3>2, <3>3
    <3>5. deliveries' \in 0 .. MaxDeliveries
      BY <3>1, <3>2
    <3>6. questions' \subseteq questions
      BY <3>1
    <3> QED
      BY <1>0, <3>1, <3>4, <3>5, <3>6 DEF DataOK, RagnarockTypeOK
  <2> QED
    BY <2>1, <2>2 DEF Environment, vars
<1>10. MembersOK'
  BY <1>0, <1>1, <1>2 DEF DataOK, MembersOK, MembersTypeOK, Members, memberVars
<1>11. Tables'
  BY <1>1 DEF TypeInv, Tables
<1>12. ApiTypeOK'
  BY <1>1, <1>10 DEF TypeInv, TypeOK, ApiTypeOK, MembersOK
<1> QED
  BY <1>4, <1>5, <1>6, <1>7, <1>8, <1>9, <1>10, <1>11, <1>12
  DEF TypeInv, TypeOK, MembersOK

\* The types hold when the API starts.
LEMMA TypesAtFirst ==
  ASSUME Init
  PROVE  TypeInv
<1>1. Tables
  BY InvariantAtFirst DEF OInv
<1>2. \A r \in Requests : Fits(r)
  BY IdleFits DEF Init, ApiInit
<1>3. /\ project \in {"none", "live", "removed"} /\ role \in [Users -> Roles \cup {None}]
      /\ project = "none" => role = [u \in Users |-> None]
  BY WorkspaceAssumption DEF Init, ApiInit
<1>4. ApiTypeOK
  <2>1. \A r \in Requests : ctx[r].by = None /\ ctx[r].quiet = TRUE
    BY DEF Init, ApiInit, Idle, Context
  <2> QED
    BY <1>3, <2>1 DEF ApiTypeOK
<1>5. MembersTypeOK /\ (project = "none" => everMember = {})
  BY <1>3 DEF Init, MembersInit, MembersTypeOK, Personas, Members
<1>6. \A A : FirstRow(A) \subseteq Rows
  BY DEF FirstRow, Rows
<1>7. ContentTypeOK /\ Bounded
  <2>1. /\ RowsOf(tasks, Task) /\ \A i \in DOMAIN tasks : tasks[i].pos <= 0
    BY <1>6 DEF Init, ContentInit, RowsOf, Task, Columns
  <2>2. RowsOf(docs, Doc)
    BY <1>6 DEF Init, ContentInit, RowsOf, Doc, Texts
  <2>3. requirements \subseteq Rows /\ RowsOf(skills, Names)
    BY <1>6 DEF Init, ContentInit, RowsOf, Names
  <2>4. RowsOf(keys, KeyRow)
    BY <1>6 DEF Init, ContentInit, RowsOf, KeyRow, Names
  <2> QED
    BY <2>1, <2>2, <2>3, <2>4 DEF ContentTypeOK, Bounded, Task, Doc, KeyRow
<1>8. LinearTypeOK
  BY <1>6 DEF Init, LinearInit, LinearTypeOK
<1>9. RepositoriesTypeOK
  BY <1>6, RepositoriesAssumption DEF Init, RepositoriesInit, RepositoriesTypeOK, RowsOf
<1>10. RoomsTypeOK
  BY <1>6 DEF Init, RoomsInit, RoomsTypeOK, RowsOf, Agents
<1>11. RagnarockTypeOK
  <2>1. messages = <<>> /\ questions = {} /\ deliveries = 0
    BY DEF Init, RagnarockInit
  <2>2. RowsOf(chats, Users)
    BY <1>6 DEF Init, RagnarockInit, RowsOf
  <2>3. messages \in Seq(Message)
    BY <2>1, EmptySeq
  <2> QED
    BY <2>1, <2>2, <2>3, RagnarockAssumption DEF RagnarockTypeOK
<1> QED
  BY <1>1, <1>2, <1>4, <1>5, <1>7, <1>8, <1>9, <1>10, <1>11 DEF TypeInv, TypeOK

\* Every table, room, cache and queue of the API holds what its type says, for any
\* number of users and requests and whatever happens between the calls of a handler
\* (the services under src/apps/main/src).
THEOREM TypeCorrect == Spec => []TypeOK
<1>1. Init => TypeInv
  BY TypesAtFirst
<1>2. TypeInv /\ [Next]_vars => TypeInv'
  BY RequestTypes, EnvironmentTypes DEF Next
<1>3. TypeInv => TypeOK
  BY DEF TypeInv
<1> QED
  BY <1>1, <1>2, <1>3, PTL DEF Spec

-----------------------------------------------------------------------------
(* Operations.  A handler's step leaves its request with an operation of its *)
(* part of the API, or with none.                                          *)

\* A request that comes in has the operation it came with.
LEMMA AcceptOp ==
  ASSUME Tables, NEW r \in Requests, NEW u, NEW s, NEW o, NEW x, Accept(r, u, s, o, x)
  PROVE  ctx'[r].op = o
BY Entered DEF Accept

\* A handler that writes keeps its operation, unless it is over.
LEMMA WriteOp ==
  ASSUME Tables, NEW r \in Requests, NEW s, Write(r, s)
  PROVE  ctx'[r].op \in {ctx[r].op, "none"}
<1>1. CASE s = "done"
  BY <1>1, Finished DEF Idle, Context
<1>2. CASE s # "done"
  BY <1>2, WroteOn
<1> QED
  BY <1>1, <1>2

\* A request that is over has no operation.
LEMMA EndOp ==
  ASSUME Tables, NEW r \in Requests, End(r)
  PROVE  at'[r] = "done" /\ ctx'[r].op = "none"
BY Finished DEF Idle, Context

\* The operations of the part for tasks.
LEMMA TaskOp ==
  ASSUME Tables, NEW r \in Requests, TaskStep(r)
  PROVE  ctx'[r].op \in TaskOps \cup {"none"}
<1> USE DEF TaskOps
<1>1. CASE AcceptTaskRequest(r)
  BY <1>1, AcceptOp DEF AcceptTaskRequest
<1>2. CASE FindTask(r)
  BY <1>2, WentOn DEF FindTask
<1>3. CASE CheckAssignee(r) \/ PlaceTask(r) \/ FindTasks(r)
  BY <1>3, WentOn DEF CheckAssignee, PlaceTask, FindTasks, On
<1>4. CASE CreateTask(r) \/ UpdateTask(r) \/ ReorderTasks(r) \/ RemoveTask(r)
  BY <1>4, WriteOp DEF CreateTask, UpdateTask, ReorderTasks, RemoveTask, On
<1> QED
  BY <1>1, <1>2, <1>3, <1>4 DEF TaskStep

\* The operations of the part for keys.
LEMMA KeyOp ==
  ASSUME Tables, NEW r \in Requests, KeyStep(r)
  PROVE  ctx'[r].op \in KeyOps \cup {"completeTask", "none"}
<1> USE DEF KeyOps
<1>1. CASE AcceptKeyRequest(r)
  BY <1>1, AcceptOp DEF AcceptKeyRequest
<1>2. CASE CheckName(r) \/ FindKey(r)
  BY <1>2, WentOn DEF CheckName, FindKey, On
<1>3. CASE CreateKey(r) \/ RevokeKey(r) \/ TouchKey(r) \/ MarkTaskComplete(r)
  BY <1>3, WriteOp DEF CreateKey, RevokeKey, TouchKey, MarkTaskComplete, On
<1>4. CASE FindsKey(r)
  BY <1>4 DEF FindsKey, Tables, Context
<1> QED
  BY <1>1, <1>2, <1>3, <1>4 DEF KeyStep

\* The operations of the part for documents.
LEMMA DocOp ==
  ASSUME Tables, NEW r \in Requests, DocStep(r)
  PROVE  ctx'[r].op \in DocOps \cup {"none"}
<1> USE DEF DocOps
<1>1. CASE AcceptDocRequest(r)
  BY <1>1, AcceptOp DEF AcceptDocRequest
<1>2. CASE AgentWritesDoc(r)
  BY <1>2, Entered DEF AgentWritesDoc
<1>3. CASE ReadDoc(r)
  BY <1>3, WentOn DEF ReadDoc
<1>4. CASE CreateDoc(r) \/ RemoveDoc(r)
  BY <1>4, WriteOp DEF CreateDoc, RemoveDoc, On
<1>5. CASE WriteDoc(r)
  BY <1>5, WriteOp DEF WriteDoc
<1> QED
  BY <1>1, <1>2, <1>3, <1>4, <1>5 DEF DocStep

\* The operations of the part for requirements and skills.
LEMMA RowOp ==
  ASSUME Tables, NEW r \in Requests, RowStep(r)
  PROVE  ctx'[r].op \in RowOps \cup {"none"}
<1> USE DEF RowOps
<1>1. CASE AcceptRowRequest(r)
  BY <1>1, AcceptOp DEF AcceptRowRequest
<1>2. CASE FindRow(r)
  BY <1>2, WentOn DEF FindRow
<1>3. CASE \/ CreateRequirement(r) \/ UpdateRequirement(r) \/ RemoveRequirement(r)
           \/ CreateSkill(r) \/ UpdateSkill(r) \/ RemoveSkill(r)
  BY <1>3, WriteOp DEF CreateRequirement, UpdateRequirement, RemoveRequirement, CreateSkill,
                       UpdateSkill, RemoveSkill, On
<1> QED
  BY <1>1, <1>2, <1>3 DEF RowStep

\* The operations of the part for the connection to Linear.
LEMMA LinearOp ==
  ASSUME Tables, NEW r \in Requests, LinearStep(r)
  PROVE  ctx'[r].op \in LinearOps \cup {"none"}
<1> USE DEF LinearOps
<1>1. CASE AcceptLinearRequest(r)
  BY <1>1, Entered DEF AcceptLinearRequest
<1>2. CASE VerifyNewToken(r) \/ FindConnection(r) \/ AskLinear(r) \/ CannotDecrypt(r)
  BY <1>2, WentOn DEF VerifyNewToken, FindConnection, AskLinear, CannotDecrypt, On
<1>3. CASE Connect(r) \/ Disconnect(r) \/ SaveVerification(r)
  BY <1>3, WriteOp DEF Connect, Disconnect, SaveVerification, On
<1> QED
  BY <1>1, <1>2, <1>3 DEF LinearStep

\* The operations of the part for repositories.
LEMMA RepositoryOp ==
  ASSUME Tables, NEW r \in Requests, RepositoryStep(r)
  PROVE  ctx'[r].op \in RepositoryOps \cup {"none"}
<1> USE DEF RepositoryOps
<1>1. CASE AcceptRepositoryRequest(r)
  BY <1>1, AcceptOp DEF AcceptRepositoryRequest
<1>2. CASE EnsureLinkedRow(r) \/ CreateOctokitForUser(r) \/ GetFromGithub(r) \/ Fetch(r)
  BY <1>2, WentOn DEF EnsureLinkedRow, CreateOctokitForUser, GetFromGithub, Fetch, On
<1>3. CASE LinkRepository(r) \/ UnlinkRepository(r) \/ RefreshRepository(r)
  BY <1>3, WriteOp DEF LinkRepository, UnlinkRepository, RefreshRepository, On
<1>4. CASE Serve(r) \/ Keep(r)
  BY <1>4, EndOp DEF Serve, Keep
<1> QED
  BY <1>1, <1>2, <1>3, <1>4 DEF RepositoryStep

\* The operations of the part for rooms and sessions.
LEMMA RoomOp ==
  ASSUME Tables, NEW r \in Requests, RoomStep(r) \/ \E p : CheckContributor(r, p)
  PROVE  ctx'[r].op \in RoomOps \cup {"none"}
<1> USE DEF RoomOps
<1>1. CASE AcceptRoomRequest(r)
  BY <1>1, AcceptOp, Entered DEF AcceptRoomRequest
<1>2. CASE FindSession(r) \/ CheckMembership(r) \/ \E p : CheckContributor(r, p)
  BY <1>2, WentOn DEF FindSession, CheckMembership, CheckContributor, On
<1>3. CASE CreateSession(r) \/ StoreMessage(r)
  BY <1>3, WriteOp DEF CreateSession, StoreMessage, On
<1>4. CASE Join(r)
  BY <1>4, EndOp DEF Join
<1> QED
  BY <1>1, <1>2, <1>3, <1>4 DEF RoomStep

\* The operations of the part for chats with Ragnarock.
LEMMA RagnarockOp ==
  ASSUME Tables, NEW r \in Requests, RagnarockStep(r)
  PROVE  ctx'[r].op \in RagnarockOps \cup {"none"}
<1> USE DEF RagnarockOps
<1>1. CASE AcceptRagnarockRequest(r)
  BY <1>1, AcceptOp DEF AcceptRagnarockRequest
<1>2. CASE FindChat(r)
  BY <1>2, WentOn DEF FindChat, On
<1>3. CASE CreateChat(r) \/ StoreQuestion(r) \/ QueueQuestion(r)
  BY <1>3, WriteOp DEF CreateChat, StoreQuestion, QueueQuestion, On
<1> QED
  BY <1>1, <1>2, <1>3 DEF RagnarockStep

\* The operations of the part for the project and its members.
LEMMA MemberOp ==
  ASSUME Tables, NEW r \in Requests, MembersStep(r)
  PROVE  ctx'[r].op \in MemberOps \cup {"none"}
<1> USE DEF MemberOps
<1>1. CASE AcceptMemberRequest(r)
  BY <1>1, AcceptOp DEF AcceptMemberRequest
<1>4. CASE AcceptRemoval(r)
  BY <1>4, AcceptOp DEF AcceptRemoval
<1>5. CASE AcceptProjectRequest(r)
  BY <1>5, AcceptOp, Entered DEF AcceptProjectRequest
<1>2. CASE EnsureProject(r) \/ LogRemoval(r) \/ CountOwners(r) \/ CheckOwner(r)
  BY <1>2, WentOn DEF EnsureProject, LogRemoval, CountOwners, CheckOwner, On
<1>3. CASE \/ CreateProject(r) \/ UpdateProject(r) \/ JoinOrganization(r) \/ AddMember(r)
           \/ UpdateRole(r) \/ UpdatePersonas(r) \/ RemoveMember(r)
  BY <1>3, WriteOp DEF CreateProject, UpdateProject, JoinOrganization, AddMember, UpdateRole,
                       UpdatePersonas, RemoveMember, On
<1> QED
  BY <1>1, <1>2, <1>3, <1>4, <1>5 DEF MembersStep

-----------------------------------------------------------------------------
(* Outsiders.                                                              *)

\* A handler that has found out that somebody is, or is to be, a member of the
\* project: who it was has been a member.
Known(r) ==
  /\ \/ ctx[r].op = "createTask" /\ at[r] \in {"checked", "placed"}
     \/ ctx[r].op = "updateTask" /\ at[r] = "checked" /\ ctx[r].what.who # Unnamed
     => ctx[r].what.who \in everMember \cup {None}
  /\ \/ ctx[r].op \in {"joinProject", "joinSession"} /\ at[r] = "member"
     \/ ctx[r].op = "submitTurn" /\ at[r] = "contributor"
     \/ ctx[r].op = "createChat" /\ at[r] = "accepted"
     => ctx[r].by \in everMember

\* Who a task is assigned to, is in a room, has heard, has asked or has a chat has
\* been a member.
TasksIn == \A i \in DOMAIN tasks : tasks[i].who \in everMember \cup {None}
RoomsIn == /\ \A u \in Users : rooms[u] # {} => u \in everMember
           /\ received \cup asked \subseteq everMember
ChatsIn == Range(chats) \subseteq everMember

InsideInv == TasksIn /\ RoomsIn /\ ChatsIn /\ \A r \in Requests : Known(r)

\* A request with an operation that the invariant does not speak of.
LEMMA NothingKnown ==
  ASSUME NEW r,
         ctx'[r].op \notin {"createTask", "updateTask", "joinProject", "joinSession",
                            "submitTurn", "createChat"}
  PROVE  Known(r)'
BY DEF Known

\* The other requests still know what they knew.
LEMMA OthersKnow ==
  ASSUME NEW r \in Requests, NEW q \in Requests, q # r, Others(r), Known(q),
         everMember \subseteq everMember'
  PROVE  Known(q)'
<1>1. /\ at'[q] = at[q] /\ ctx'[q].op = ctx[q].op /\ ctx'[q].by = ctx[q].by
      /\ ctx'[q].what = ctx[q].what
  BY DEF Others
<1> QED
  BY <1>1 DEF Known

\* Those who have a role have been members.
LEMMA MembersWere ==
  ASSUME TypeInv, NEW u \in Users, role[u] # None
  PROVE  u \in everMember
BY DEF TypeInv, TypeOK, MembersTypeOK, Members

\* Tasks are for those who have been members.
LEMMA TasksInside ==
  ASSUME TypeInv, NEW r \in Requests, Known(r), TasksIn, TaskStep(r),
         everMember' = everMember
  PROVE  TasksIn' /\ Known(r)'
<1>0. Tables
  BY DEF TypeInv
<1>a. ctx'[r].op \in TaskOps \cup {"none"}
  BY <1>0, TaskOp
<1>b. ASSUME \/ at'[r] \notin {"checked", "placed"}
             \/ ctx'[r].op \notin {"createTask", "updateTask"}
             \/ ctx'[r].what.who \in everMember \cup {None}
      PROVE  Known(r)'
  BY <1>a, <1>b DEF Known, TaskOps
<1>c. ASSUME NEW s \in {"log", "done"}, Write(r, s)
      PROVE  Known(r)'
  <2>1. at'[r] = s
    BY <1>c, <1>0 DEF Write, Tables
  <2> QED
    BY <2>1, <1>b
<1>d. ASSUME UNCHANGED tasks PROVE TasksIn'
  BY <1>d DEF TasksIn
<1>1. CASE AcceptTaskRequest(r)
  <2>1. at'[r] = "accepted"
    BY <1>1, <1>0 DEF AcceptTaskRequest, Accept, Enters, Tables
  <2> QED
    BY <1>1, <2>1, <1>b, <1>d DEF AcceptTaskRequest, contentVars
<1>2. CASE FindTask(r) \/ FindTasks(r)
  <2>1. at'[r] = "found"
    BY <1>2, <1>0, WentOn DEF FindTask, FindTasks
  <2> QED
    BY <1>2, <2>1, <1>b, <1>d DEF FindTask, FindTasks, contentVars
<1>3. CASE CheckAssignee(r)
  <2>1. /\ ctx'[r].what = ctx[r].what
        /\ ctx'[r].op = ctx[r].op
        /\ What(r).who \in {None, Unnamed} \cup {u \in Users : role[u] # None}
    BY <1>3, <1>0, WentOn DEF CheckAssignee, EnsureAssigneeIsProjectMember
  <2>2. ctx'[r].what.who \in everMember \cup {None, Unnamed}
    BY <2>1, MembersWere DEF What
  <2>3. ctx[r].op = "createTask" => ctx'[r].what.who # Unnamed
    BY <2>1, ContentAssumption, ApiAssumption DEF TypeInv, Fits, TasksFit, What
  <2>4. Known(r)'
    BY <1>3, <2>1, <2>2, <2>3 DEF CheckAssignee, On, Known
  <2> QED
    BY <1>3, <2>4, <1>d DEF CheckAssignee, contentVars
<1>4. CASE PlaceTask(r)
  <2>1. /\ ctx'[r].what = ctx[r].what
        /\ ctx[r].op = "createTask" /\ at[r] = "checked"
    BY <1>4, <1>0, WentOn DEF PlaceTask, On
  <2>2. ctx'[r].what.who \in everMember \cup {None}
    BY <2>1 DEF Known
  <2> QED
    BY <1>4, <2>2, <1>b, <1>d DEF PlaceTask, contentVars
<1>5. CASE CreateTask(r)
  <2>1. What(r).who \in everMember \cup {None}
    BY <1>5 DEF CreateTask, On, Known, What
  <2>2. TasksIn'
    BY <1>5, <2>1 DEF CreateTask, TasksIn, Put
  <2> QED
    BY <1>5, <2>2, <1>c DEF CreateTask
<1>6. CASE UpdateTask(r)
  <2>1. What(r).who \in everMember \cup {None, Unnamed}
    BY <1>6 DEF UpdateTask, On, Known, What
  <2>2. TasksIn'
    BY <1>6, <2>1 DEF UpdateTask, Updated, Found, TasksIn
  <2> QED
    BY <1>6, <2>2, <1>c DEF UpdateTask
<1>7. CASE ReorderTasks(r)
  <2>1. TasksIn'
    BY <1>7 DEF ReorderTasks, TasksIn, Moved
  <2> QED
    BY <1>7, <2>1, <1>c DEF ReorderTasks
<1>8. CASE RemoveTask(r)
  <2>1. TasksIn'
    BY <1>8 DEF RemoveTask, TasksIn, Drop, Restrict
  <2> QED
    BY <1>8, <2>1, <1>c DEF RemoveTask
<1> QED
  BY <1>1, <1>2, <1>3, <1>4, <1>5, <1>6, <1>7, <1>8 DEF TaskStep

\* A client with a key completes tasks; they stay with their assignees.
LEMMA KeysInside ==
  ASSUME TypeInv, NEW r \in Requests, TasksIn, KeyStep(r), everMember' = everMember
  PROVE  TasksIn' /\ Known(r)'
<1>1. ctx'[r].op \in KeyOps \cup {"completeTask", "none"}
  BY KeyOp DEF TypeInv
<1>2. Known(r)'
  BY <1>1, NothingKnown DEF KeyOps
<1>3. CASE MarkTaskComplete(r)
  <2>1. What(r).row \in DOMAIN tasks /\ tasks' = [tasks EXCEPT ![What(r).row].col = "done"]
    BY <1>3 DEF MarkTaskComplete, Found
  <2>2. DOMAIN tasks' = DOMAIN tasks
    BY <2>1
  <2>3. ASSUME NEW i \in DOMAIN tasks PROVE tasks'[i].who = tasks[i].who
    <3>1. tasks[i] \in [col : Columns, pos : Nat, who : Users \cup {None}]
      BY DEF TypeInv, TypeOK, ContentTypeOK, RowsOf
    <3> QED
      BY <2>1, <3>1
  <2>4. TasksIn'
    BY <2>2, <2>3 DEF TasksIn
  <2> QED
    BY <1>2, <2>4
<1>4. CASE ~MarkTaskComplete(r)
  <2>1. tasks' = tasks
    BY <1>4 DEF KeyStep, AcceptKeyRequest, CheckName, CreateKey, FindKey, RevokeKey,
                FindsKey, TouchKey, contentVars
  <2> QED
    BY <1>2, <2>1 DEF TasksIn
<1> QED
  BY <1>3, <1>4

\* Rooms are for those who have been members, and so are turns.
LEMMA RoomsInside ==
  ASSUME TypeInv, NEW r \in Requests, Known(r), RoomsIn, everMember' = everMember,
         RoomStep(r) \/ \E p : CheckContributor(r, p)
  PROVE  RoomsIn' /\ Known(r)'
<1>0. Tables /\ RoomsFit(r) /\ rooms \in [Users -> SUBSET (Rows \cup {Whole})]
      /\ role \in [Users -> Roles \cup {None}]
  BY DEF TypeInv, Fits, TypeOK, RoomsTypeOK, ApiTypeOK
<1>a. ctx'[r].op \in RoomOps \cup {"none"}
  BY <1>0, RoomOp
<1>b. ASSUME at'[r] \notin {"member", "contributor"} \/ ctx'[r].by \in everMember
      PROVE  Known(r)'
  BY <1>a, <1>b DEF Known, RoomOps
<1>c. ASSUME UNCHANGED roomVars PROVE RoomsIn'
  BY <1>c DEF RoomsIn, roomVars
<1>1. CASE AcceptRoomRequest(r)
  <2>1. at'[r] = "accepted"
    BY <1>1, <1>0 DEF AcceptRoomRequest, Accept, Enters, Tables
  <2> QED
    BY <1>1, <2>1, <1>b, <1>c DEF AcceptRoomRequest
<1>2. CASE CreateSession(r)
  <2>1. at'[r] = "done"
    BY <1>2, <1>0, Finished DEF CreateSession
  <2> QED
    BY <1>2, <2>1, <1>b DEF CreateSession, RoomsIn
<1>3. CASE FindSession(r)
  <2>1. at'[r] = "found"
    BY <1>3, <1>0, WentOn DEF FindSession
  <2> QED
    BY <1>3, <2>1, <1>b, <1>c DEF FindSession
<1>4. CASE CheckMembership(r)
  <2>1. ctx'[r].by = ctx[r].by /\ role[ctx[r].by] # None
    BY <1>4, <1>0, WentOn DEF CheckMembership, ValidateProjectMembership
  <2>2. ctx[r].by \in Users
    BY <1>4, <1>0 DEF CheckMembership, On, RoomsFit
  <2> QED
    BY <1>4, <2>1, <2>2, <1>b, <1>c, MembersWere DEF CheckMembership
<1>5. CASE Join(r)
  <2>1. at'[r] = "done"
    BY <1>5, <1>0, Finished DEF Join
  <2>2. ctx[r].by \in everMember
    BY <1>5, <1>0 DEF Join, RoomsFit, Known
  <2>3. RoomsIn'
    BY <1>0, <1>5, <2>2 DEF Join, RoomsIn
  <2> QED
    BY <2>1, <2>3, <1>b
<1>6. CASE StoreMessage(r)
  <2>1. at'[r] = "done"
    BY <1>6, <1>0, Finished DEF StoreMessage
  <2>2. ctx[r].by \in everMember
    BY <1>6 DEF StoreMessage, On, Known
  <2>3. RoomsIn'
    BY <1>6, <2>2 DEF StoreMessage, RoomsIn
  <2> QED
    BY <2>1, <2>3, <1>b
<1>7. CASE \E p : CheckContributor(r, p)
  <2>1. ctx'[r].by = ctx[r].by /\ role[ctx[r].by] \in Contributors
    BY <1>7, <1>0, WentOn DEF CheckContributor
  <2>2. ctx[r].by \in Users
    BY <1>7, <1>0 DEF CheckContributor, On, RoomsFit
  <2> QED
    BY <1>7, <2>1, <2>2, <1>b, <1>c, MembersWere, ApiAssumption
    DEF CheckContributor, Contributors
<1> QED
  BY <1>1, <1>2, <1>3, <1>4, <1>5, <1>6, <1>7 DEF RoomStep

\* Chats are for those who have been members.
LEMMA ChatsInside ==
  ASSUME TypeInv, NEW r \in Requests, Known(r), ChatsIn, RagnarockStep(r),
         everMember' = everMember
  PROVE  ChatsIn' /\ Known(r)'
<1>0. Tables
  BY DEF TypeInv
<1>a. ctx'[r].op \in RagnarockOps \cup {"none"}
  BY <1>0, RagnarockOp
<1>b. ASSUME at'[r] # "accepted" \/ ctx'[r].op # "createChat" \/ ctx'[r].by \in everMember
      PROVE  Known(r)'
  BY <1>a, <1>b DEF Known, RagnarockOps
<1>1. CASE AcceptRagnarockRequest(r)
  <2>1. PICK u \in Users : \E o, x : Accept(r, u, Everybody, o, x)
    BY <1>1 DEF AcceptRagnarockRequest
  <2>2. ctx'[r].by = u /\ role[u] \in Everybody
    BY <2>1, <1>0, Entered DEF Accept
  <2>3. u \in everMember
    BY <2>2, MembersWere, ApiAssumption DEF Everybody
  <2> QED
    BY <1>1, <2>2, <2>3, <1>b DEF AcceptRagnarockRequest, ragnarockVars, ChatsIn
<1>2. CASE CreateChat(r)
  <2>1. at'[r] = "done"
    BY <1>2, <1>0, Finished DEF CreateChat
  <2>2. ctx[r].by \in everMember
    BY <1>2 DEF CreateChat, On, Known
  <2>3. Range(chats') \subseteq everMember
    BY <1>2, <2>2 DEF CreateChat, Put, Range, ChatsIn
  <2> QED
    BY <2>1, <2>3, <1>b DEF ChatsIn
<1>3. CASE FindChat(r)
  <2>1. at'[r] = "found"
    BY <1>3, <1>0, WentOn DEF FindChat
  <2> QED
    BY <1>3, <2>1, <1>b DEF FindChat, ragnarockVars, ChatsIn
<1>4. CASE StoreQuestion(r)
  <2>1. at'[r] = "stored"
    BY <1>4, <1>0, WroteOn DEF StoreQuestion
  <2> QED
    BY <1>4, <2>1, <1>b DEF StoreQuestion, ChatsIn
<1>5. CASE QueueQuestion(r)
  <2>1. at'[r] = "done"
    BY <1>5, <1>0, Finished DEF QueueQuestion
  <2> QED
    BY <1>5, <2>1, <1>b DEF QueueQuestion, ChatsIn
<1> QED
  BY <1>1, <1>2, <1>3, <1>4, <1>5 DEF RagnarockStep

\* Who has been a member stays one who has been.
LEMMA EverGrows ==
  ASSUME TypeInv, NEW r \in Requests, MembersStep(r) \/ RemoveProject(r)
  PROVE  everMember \subseteq everMember'
<1>1. CASE CreateProject(r)
  BY <1>1 DEF CreateProject, TypeInv
<1>2. CASE AddMember(r)
  BY <1>2 DEF AddMember
<1> QED
  BY <1>1, <1>2 DEF MembersStep, RemoveProject, AcceptMemberRequest, AcceptRemoval,
     AcceptProjectRequest, EnsureProject, UpdateProject, LogRemoval, JoinOrganization,
     UpdateRole, UpdatePersonas, CountOwners, CheckOwner, RemoveMember, memberVars

\* A step that leaves tasks, rooms and chats alone lets no outsider in.
LEMMA NobodyEnters ==
  ASSUME TasksIn, RoomsIn, ChatsIn, everMember \subseteq everMember',
         UNCHANGED <<tasks, rooms, received, asked, chats>>
  PROVE  TasksIn' /\ RoomsIn' /\ ChatsIn'
BY DEF TasksIn, RoomsIn, ChatsIn

\* No step of a request lets an outsider in.
LEMMA RequestsInside ==
  ASSUME TypeInv, InsideInv, NEW r \in Requests, RequestStep(r)
  PROVE  InsideInv'
<1>0. Tables /\ Known(r) /\ TasksIn /\ RoomsIn /\ ChatsIn
  BY DEF TypeInv, InsideInv
<1>a. ASSUME Others(r), Known(r)', everMember \subseteq everMember'
      PROVE  \A q \in Requests : Known(q)'
  BY <1>a, OthersKnow DEF InsideInv
<1>b. ASSUME UNCHANGED <<tasks, rooms, received, asked, chats>>,
             everMember \subseteq everMember', Others(r), Known(r)'
      PROVE  InsideInv'
  BY <1>0, <1>a, <1>b, NobodyEnters DEF InsideInv
<1>1. CASE /\ MembersStep(r)
           /\ UNCHANGED <<contentVars, linearVars, repositoryVars, roomVars, ragnarockVars>>
  <2>1. Known(r)'
    BY <1>0, <1>1, MemberOp, NothingKnown DEF MemberOps
  <2> QED
    BY <1>1, <2>1, <1>b, MemberTypes, EverGrows
    DEF Typed, contentVars, roomVars, ragnarockVars
<1>2. CASE /\ ContentStep(r)
           /\ UNCHANGED <<memberVars, linearVars, repositoryVars, roomVars, ragnarockVars>>
  <2>1. everMember' = everMember /\ UNCHANGED <<rooms, received, asked, chats>>
    BY <1>2 DEF memberVars, roomVars, ragnarockVars
  <2>2. Others(r)
    BY <1>2, TaskTypes, KeyTypes, DocTypes, RowTypes DEF ContentStep, Typed
  <2>3. TasksIn' /\ Known(r)'
    <3>1. CASE TaskStep(r)
      BY <1>0, <2>1, <3>1, TasksInside
    <3>2. CASE KeyStep(r)
      BY <1>0, <2>1, <3>2, KeysInside
    <3>3. CASE DocStep(r)
      <4>1. tasks' = tasks
        BY <3>3 DEF DocStep, AcceptDocRequest, AgentWritesDoc, CreateDoc, ReadDoc, WriteDoc,
                    RemoveDoc, contentVars
      <4>2. Known(r)'
        BY <1>0, <3>3, DocOp, NothingKnown DEF DocOps
      <4> QED
        BY <1>0, <2>1, <4>1, <4>2 DEF TasksIn
    <3>4. CASE RowStep(r)
      <4>1. tasks' = tasks
        BY <3>4 DEF RowStep, AcceptRowRequest, CreateRequirement, FindRow, UpdateRequirement,
                    RemoveRequirement, CreateSkill, UpdateSkill, RemoveSkill, contentVars
      <4>2. Known(r)'
        BY <1>0, <3>4, RowOp, NothingKnown DEF RowOps
      <4> QED
        BY <1>0, <2>1, <4>1, <4>2 DEF TasksIn
    <3> QED
      BY <1>2, <3>1, <3>2, <3>3, <3>4 DEF ContentStep
  <2>4. RoomsIn' /\ ChatsIn'
    BY <1>0, <2>1 DEF RoomsIn, ChatsIn
  <2> QED
    BY <2>1, <2>2, <2>3, <2>4, <1>a DEF InsideInv
<1>3. CASE /\ LinearStep(r)
           /\ UNCHANGED <<memberVars, contentVars, repositoryVars, roomVars, ragnarockVars>>
  <2>1. Known(r)'
    BY <1>0, <1>3, LinearOp, NothingKnown DEF LinearOps
  <2> QED
    BY <1>3, <2>1, <1>b, LinearTypes DEF Typed, memberVars, contentVars, roomVars, ragnarockVars
<1>4. CASE /\ RepositoryStep(r)
           /\ UNCHANGED <<memberVars, contentVars, linearVars, roomVars, ragnarockVars>>
  <2>1. Known(r)'
    BY <1>0, <1>4, RepositoryOp, NothingKnown DEF RepositoryOps
  <2> QED
    BY <1>4, <2>1, <1>b, RepositoryTypes
    DEF Typed, memberVars, contentVars, roomVars, ragnarockVars
<1>5. CASE /\ RoomStep(r) \/ CheckContributor(r, personas[ctx[r].by])
           /\ UNCHANGED <<memberVars, contentVars, linearVars, repositoryVars, ragnarockVars>>
  <2>1. RoomsIn' /\ Known(r)' /\ everMember' = everMember
    BY <1>0, <1>5, RoomsInside DEF memberVars
  <2>2. Others(r)
    BY <1>5, RoomTypes DEF Typed
  <2>3. TasksIn' /\ ChatsIn'
    BY <1>0, <1>5 DEF TasksIn, ChatsIn, memberVars, contentVars, ragnarockVars
  <2> QED
    BY <2>1, <2>2, <2>3, <1>a DEF InsideInv
<1>6. CASE /\ RagnarockStep(r)
           /\ UNCHANGED <<memberVars, contentVars, linearVars, repositoryVars, roomVars>>
  <2>1. ChatsIn' /\ Known(r)' /\ everMember' = everMember
    BY <1>0, <1>6, ChatsInside DEF memberVars
  <2>2. Others(r)
    BY <1>6, RagnarockTypes DEF Typed
  <2>3. TasksIn' /\ RoomsIn'
    BY <1>0, <1>6 DEF TasksIn, RoomsIn, memberVars, contentVars, roomVars
  <2> QED
    BY <2>1, <2>2, <2>3, <1>a DEF InsideInv
<1>7. CASE RemoveProject(r) /\ Cascade
  <2>1. Others(r) /\ ctx'[r] = Idle
    BY <1>0, <1>7, Finished, WriteLeaves DEF RemoveProject
  <2>2. Known(r)'
    BY <2>1, NothingKnown DEF Idle, Context
  <2>3. everMember' = everMember /\ UNCHANGED <<rooms, asked, received>>
    BY <1>7 DEF RemoveProject, Cascade
  <2>4. DOMAIN tasks' = {} /\ DOMAIN chats' = {}
    BY <1>7 DEF Cascade, Restrict
  <2>5. TasksIn' /\ RoomsIn' /\ ChatsIn'
    BY <1>0, <2>3, <2>4 DEF TasksIn, RoomsIn, ChatsIn, Range
  <2> QED
    BY <2>1, <2>2, <2>3, <2>5, <1>a DEF InsideInv
<1>8. CASE /\ Stops(r) \/ Log(r)
           /\ UNCHANGED <<memberVars, contentVars, linearVars, repositoryVars, roomVars,
                          ragnarockVars>>
  <2>1. Others(r) /\ ctx'[r].op = "none"
    BY <1>0, <1>8, EndOp, EndLeaves DEF Stops, Log
  <2>2. Known(r)'
    BY <2>1, NothingKnown
  <2> QED
    BY <1>8, <2>1, <2>2, <1>b DEF memberVars, contentVars, roomVars, ragnarockVars
<1> QED
  BY <1>1, <1>2, <1>3, <1>4, <1>5, <1>6, <1>7, <1>8 DEF RequestStep, OtherRequests

\* Nor does anything else: an event reaches who is in the room.
LEMMA EnvironmentInside ==
  ASSUME TypeInv, InsideInv, Environment \/ UNCHANGED vars
  PROVE  InsideInv'
<1>1. UNCHANGED <<at, ctx>>
  BY NothingElse
<1>2. everMember' = everMember
  BY DEF Environment, vars, memberVars
<1>3. \A q \in Requests : Known(q)'
  BY <1>1, <1>2 DEF InsideInv, Known
<1>4. TasksIn' /\ ChatsIn'
  <2>1. UNCHANGED <<tasks, chats>>
    BY DEF Environment, vars, contentVars, ragnarockVars, KeyExpires, Leave, Emit,
           HandleAnswer
  <2> QED
    BY <1>2, <2>1 DEF InsideInv, TasksIn, ChatsIn
<1>5. RoomsIn'
  <2>1. CASE UNCHANGED <<rooms, received, asked>>
    BY <1>2, <2>1 DEF InsideInv, RoomsIn
  <2>2. CASE \E u \in Users : Leave(u)
    <3>1. PICK u \in Users :
            \E R : rooms' = [rooms EXCEPT ![u] = @ \ R] /\ UNCHANGED <<asked, received>>
      BY <2>2 DEF Leave
    <3>2. rooms \in [Users -> SUBSET (Rows \cup {Whole})]
      BY DEF TypeInv, TypeOK, RoomsTypeOK
    <3>3. \A v \in Users : rooms'[v] # {} => rooms[v] # {}
      BY <3>1, <3>2
    <3> QED
      BY <1>2, <3>1, <3>3 DEF InsideInv, RoomsIn
  <2>3. CASE \E room : Emit(room)
    BY <1>2, <2>3 DEF InsideInv, RoomsIn, Emit
  <2> QED
    BY <2>1, <2>2, <2>3 DEF Environment, vars, roomVars
<1> QED
  BY <1>3, <1>4, <1>5 DEF InsideInv

\* There are no outsiders inside when the API starts.
LEMMA InsideAtFirst ==
  ASSUME Init
  PROVE  InsideInv
<1>1. \A r \in Requests : ctx[r].op = "none"
  BY DEF Init, ApiInit, Idle, Context
<1>2. \A r \in Requests : Known(r)
  BY <1>1 DEF Known
<1>3. TasksIn
  BY DEF Init, ContentInit, TasksIn
<1>4. RoomsIn
  BY DEF Init, RoomsInit, RoomsIn
<1>5. ChatsIn
  BY DEF Init, RagnarockInit, MembersInit, Members, ChatsIn, Range
<1> QED
  BY <1>2, <1>3, <1>4, <1>5 DEF InsideInv

\* Who has never been a member of the project gets no task of it, is in no room of
\* it, has no chat about it and hears nothing of it, however the checks of
\* memberships and the writes that rest on them interleave with removals
\* (project-tasks.service.ts, ai-chat.gateway.ts, ragnarock-chat.service.ts).
THEOREM OutsidersStayOut == Spec => []OutsidersNeverIn
<1>1. Init => TypeInv /\ InsideInv
  BY TypesAtFirst, InsideAtFirst
<1>2. TypeInv /\ InsideInv /\ [Next]_vars => (TypeInv /\ InsideInv)'
  BY RequestTypes, EnvironmentTypes, RequestsInside, EnvironmentInside DEF Next
<1>3. InsideInv => OutsidersNeverIn
  BY DEF InsideInv, TasksIn, RoomsIn, ChatsIn, OutsidersNeverIn
<1> QED
  BY <1>1, <1>2, <1>3, PTL DEF Spec

-----------------------------------------------------------------------------
(* Answers.                                                                *)

\* The question q stands in the chat i.
AskedIn(q, i) ==
  \E k \in 1 .. Len(messages) : /\ messages[k].by = "user" /\ messages[k].question = q
                                /\ messages[k].chat = i

\* A removed project has no chats, so nothing is stored for it; in any other, a
\* question that is queued or about to be stands in its chat.
AnswersInv ==
  /\ AnswersFollowQuestions
  /\ project = "removed" => DOMAIN chats = {}
  /\ project # "removed" =>
       /\ \A q \in questions : AskedIn(q.id, q.chat)
       /\ \A r \in Requests : On(r, "sendMessage", "stored") => AskedIn(r, What(r))

\* What a message added at the end does.
LEMMA Added ==
  ASSUME messages \in Seq(Message), NEW m \in Message, messages' = Append(messages, m)
  PROVE  /\ Len(messages') = Len(messages) + 1 /\ Len(messages) \in Nat
         /\ \A k \in 1 .. Len(messages) : messages'[k] = messages[k]
         /\ messages'[Len(messages) + 1] = m
OBVIOUS

\* A question stays where it stands.
LEMMA AskedStays ==
  ASSUME messages \in Seq(Message), NEW m \in Message, messages' = Append(messages, m),
         NEW q, NEW i, AskedIn(q, i)
  PROVE  AskedIn(q, i)'
<1>1. PICK k \in 1 .. Len(messages) :
        messages[k].by = "user" /\ messages[k].question = q /\ messages[k].chat = i
  BY DEF AskedIn
<1>2. k \in 1 .. Len(messages') /\ messages'[k] = messages[k]
  BY <1>1, Added
<1> QED
  BY <1>1, <1>2 DEF AskedIn

\* A message at the end that is no answer, or answers a question that stands.
LEMMA FollowStays ==
  ASSUME messages \in Seq(Message), NEW m \in Message, messages' = Append(messages, m),
         AnswersFollowQuestions, m.by = "assistant" => AskedIn(m.question, m.chat)
  PROVE  AnswersFollowQuestions'
<1>1. /\ Len(messages') = Len(messages) + 1 /\ Len(messages) \in Nat
      /\ \A k \in 1 .. Len(messages) : messages'[k] = messages[k]
      /\ messages'[Len(messages) + 1] = m
  BY Added
<1>2. SUFFICES ASSUME NEW i \in 1 .. Len(messages'), messages'[i].by = "assistant"
               PROVE  \E k \in 1 .. i - 1 : /\ messages'[k].by = "user"
                                            /\ messages'[k].question = messages'[i].question
                                            /\ messages'[k].chat = messages'[i].chat
  BY DEF AnswersFollowQuestions
<1>3. CASE i \in 1 .. Len(messages)
  <2>1. PICK k \in 1 .. i - 1 : /\ messages[k].by = "user"
                                /\ messages[k].question = messages[i].question
                                /\ messages[k].chat = messages[i].chat
    BY <1>1, <1>2, <1>3 DEF AnswersFollowQuestions
  <2>2. messages'[k] = messages[k] /\ messages'[i] = messages[i]
    BY <1>1, <1>3
  <2> QED
    BY <2>1, <2>2
<1>4. CASE i = Len(messages) + 1
  <2>1. messages'[i] = m
    BY <1>1, <1>4
  <2>2. PICK k \in 1 .. Len(messages) : /\ messages[k].by = "user"
                                        /\ messages[k].question = m.question
                                        /\ messages[k].chat = m.chat
    BY <1>2, <2>1 DEF AskedIn
  <2>3. messages'[k] = messages[k] /\ k \in 1 .. i - 1
    BY <1>1, <1>4, <2>2
  <2> QED
    BY <2>1, <2>2, <2>3
<1> QED
  BY <1>1, <1>3, <1>4

\* What the other requests have stored.
StoredBut(r) ==
  project # "removed" =>
    \A q \in Requests : q # r /\ On(q, "sendMessage", "stored")' => AskedIn(q, What(q))'

\* The questions of the other requests stay where they stand.
LEMMA OthersStored ==
  ASSUME AnswersInv, NEW r \in Requests, Others(r),
         \A q, i : AskedIn(q, i) => AskedIn(q, i)'
  PROVE  StoredBut(r)
<1>1. SUFFICES ASSUME project # "removed", NEW q \in Requests, q # r,
                      On(q, "sendMessage", "stored")'
               PROVE  AskedIn(q, What(q))'
  BY DEF StoredBut
<1>2. at'[q] = at[q] /\ ctx'[q].op = ctx[q].op /\ ctx'[q].what = ctx[q].what
  BY <1>1 DEF Others
<1>3. AskedIn(q, What(q))
  BY <1>1, <1>2 DEF On, AnswersInv
<1>4. What(q)' = What(q)
  BY <1>2 DEF What
<1> QED
  BY <1>3, <1>4 DEF AskedIn

\* A step that leaves the chats alone.
LEMMA ChatsAlone ==
  ASSUME AnswersInv, NEW r \in Requests, Others(r), UNCHANGED ragnarockVars,
         ctx'[r].op # "sendMessage", project' = "removed" <=> project = "removed"
  PROVE  AnswersInv'
<1>1. StoredBut(r)
  BY OthersStored DEF AskedIn, ragnarockVars
<1>2. AnswersFollowQuestions'
  BY DEF AnswersInv, AnswersFollowQuestions, ragnarockVars
<1>3. project # "removed" => \A q \in questions' : AskedIn(q.id, q.chat)'
  BY DEF AnswersInv, AskedIn, ragnarockVars
<1>4. ~On(r, "sendMessage", "stored")'
  BY DEF On
<1>5. project # "removed" =>
        \A q \in Requests : On(q, "sendMessage", "stored")' => AskedIn(q, What(q))'
  BY <1>1, <1>4 DEF StoredBut
<1>6. project' = "removed" => DOMAIN chats' = {}
  BY DEF AnswersInv, ragnarockVars
<1> QED
  BY <1>2, <1>3, <1>5, <1>6 DEF AnswersInv

\* The steps of a request to the chats.
LEMMA ChatsAnswered ==
  ASSUME TypeInv, AnswersInv, NEW r \in Requests, RagnarockStep(r)
  PROVE  AnswersInv'
<1>0. /\ Tables /\ RagnarockFit(r) /\ messages \in Seq(Message)
      /\ Others(r) /\ project' = project
  BY RagnarockTypes, ProjectStays DEF TypeInv, Fits, TypeOK, RagnarockTypeOK, Typed
<1>a. ASSUME messages' = messages
      PROVE  /\ \A q, i : AskedIn(q, i)' <=> AskedIn(q, i)
             /\ AnswersFollowQuestions' /\ StoredBut(r)
  <2>1. \A q, i : AskedIn(q, i)' <=> AskedIn(q, i)
    BY <1>a DEF AskedIn
  <2>2. AnswersFollowQuestions'
    BY <1>a DEF AnswersInv, AnswersFollowQuestions
  <2> QED
    BY <1>0, <2>1, <2>2, OthersStored
<1>b. ASSUME messages' = messages, questions' = questions, at'[r] # "stored",
             project = "removed" => DOMAIN chats' = {}
      PROVE  AnswersInv'
  <2>1. ~On(r, "sendMessage", "stored")'
    BY <1>b DEF On
  <2> QED
    BY <1>0, <1>a, <1>b, <2>1 DEF AnswersInv, StoredBut
<1>1. CASE AcceptRagnarockRequest(r)
  <2>1. at'[r] = "accepted"
    BY <1>1, <1>0 DEF AcceptRagnarockRequest, Accept, Enters, Tables
  <2> QED
    BY <1>1, <2>1, <1>b DEF AcceptRagnarockRequest, ragnarockVars, AnswersInv
<1>2. CASE CreateChat(r)
  <2>1. at'[r] = "done"
    BY <1>2, <1>0, Finished DEF CreateChat
  <2> QED
    BY <1>2, <2>1, <1>b DEF CreateChat
<1>3. CASE FindChat(r)
  <2>1. at'[r] = "found"
    BY <1>3, <1>0, WentOn DEF FindChat
  <2> QED
    BY <1>3, <2>1, <1>b DEF FindChat, ragnarockVars, AnswersInv
<1>4. CASE StoreQuestion(r)
  <2> DEFINE m == [chat |-> What(r), by |-> "user", question |-> r]
  <2>1. /\ messages' = Append(messages, m) /\ What(r) \in DOMAIN chats
        /\ UNCHANGED <<chats, questions>>
    BY <1>4 DEF StoreQuestion, What
  <2>2. m \in Message
    BY <1>0, <1>4 DEF StoreQuestion, On, RagnarockFit, Message
  <2>3. AnswersFollowQuestions'
    BY <1>0, <2>1, <2>2, FollowStays DEF AnswersInv
  <2>4. \A q, i : AskedIn(q, i) => AskedIn(q, i)'
    BY <1>0, <2>1, <2>2, AskedStays
  <2>5. StoredBut(r)
    BY <1>0, <2>4, OthersStored
  <2>6. What(r)' = What(r)
    BY <1>0, <1>4, WroteOn DEF StoreQuestion, What
  <2>7. AskedIn(r, What(r))'
    <3>1. /\ Len(messages') = Len(messages) + 1 /\ Len(messages) \in Nat
          /\ messages'[Len(messages) + 1] = m
      BY <1>0, <2>1, <2>2, Added
    <3>2. m.by = "user" /\ m.question = r /\ m.chat = What(r)
      OBVIOUS
    <3> HIDE DEF m
    <3> QED
      BY <2>6, <3>1, <3>2 DEF AskedIn
  <2>8. project # "removed"
    BY <2>1 DEF AnswersInv
  <2> QED
    BY <1>0, <2>1, <2>3, <2>4, <2>5, <2>7, <2>8 DEF AnswersInv, StoredBut
<1>5. CASE QueueQuestion(r)
  <2>1. at'[r] = "done" /\ messages' = messages /\ chats' = chats
    BY <1>5, <1>0, Finished DEF QueueQuestion
  <2>2. PICK h : questions' = questions \cup {[id |-> r, chat |-> What(r), history |-> h]}
    BY <1>5 DEF QueueQuestion, What
  <2>3. project # "removed" => AskedIn(r, What(r))
    BY <1>5 DEF QueueQuestion, QuestionStored, On, AnswersInv
  <2>4. project # "removed" => \A q \in questions' : AskedIn(q.id, q.chat)
    BY <2>2, <2>3 DEF AnswersInv
  <2>5. ~On(r, "sendMessage", "stored")'
    BY <2>1 DEF On
  <2> QED
    BY <1>0, <1>a, <2>1, <2>4, <2>5 DEF AnswersInv, StoredBut
<1> QED
  BY <1>1, <1>2, <1>3, <1>4, <1>5 DEF RagnarockStep

\* The answers follow their questions after a step of a request.
LEMMA RequestsAnswered ==
  ASSUME TypeInv, AnswersInv, NEW r \in Requests, RequestStep(r)
  PROVE  AnswersInv'
<1>0. Tables
  BY DEF TypeInv
<1>1. CASE MembersStep(r) /\ UNCHANGED ragnarockVars
  <2>1. project' = "removed" <=> project = "removed"
    BY <1>1 DEF MembersStep, AcceptMemberRequest, AcceptRemoval, AcceptProjectRequest, Accept,
       Enters, EnsureProject, CreateProject, UpdateProject, LogRemoval, JoinOrganization,
       AddMember, UpdateRole, UpdatePersonas, CountOwners, CheckOwner, RemoveMember,
       projectVars
  <2>2. ctx'[r].op # "sendMessage"
    BY <1>0, <1>1, MemberOp DEF MemberOps
  <2> QED
    BY <1>1, <2>1, <2>2, MemberTypes, ChatsAlone DEF Typed
<1>2. CASE ContentStep(r) /\ UNCHANGED ragnarockVars
  <2>1. ctx'[r].op # "sendMessage"
    BY <1>0, <1>2, TaskOp, KeyOp, DocOp, RowOp
    DEF ContentStep, TaskOps, KeyOps, DocOps, RowOps
  <2>2. Others(r)
    BY <1>2, TaskTypes, KeyTypes, DocTypes, RowTypes DEF ContentStep, Typed
  <2> QED
    BY <1>2, <2>1, <2>2, ProjectStays, ChatsAlone
<1>3. CASE LinearStep(r) /\ UNCHANGED ragnarockVars
  <2>1. ctx'[r].op # "sendMessage"
    BY <1>0, <1>3, LinearOp DEF LinearOps
  <2> QED
    BY <1>3, <2>1, LinearTypes, ProjectStays, ChatsAlone DEF Typed
<1>4. CASE RepositoryStep(r) /\ UNCHANGED ragnarockVars
  <2>1. ctx'[r].op # "sendMessage"
    BY <1>0, <1>4, RepositoryOp DEF RepositoryOps
  <2> QED
    BY <1>4, <2>1, RepositoryTypes, ProjectStays, ChatsAlone DEF Typed
<1>5. CASE /\ RoomStep(r) \/ CheckContributor(r, personas[ctx[r].by])
           /\ UNCHANGED ragnarockVars
  <2>1. ctx'[r].op # "sendMessage"
    BY <1>0, <1>5, RoomOp DEF RoomOps
  <2> QED
    BY <1>5, <2>1, RoomTypes, ProjectStays, ChatsAlone DEF Typed
<1>6. CASE RagnarockStep(r)
  BY <1>6, ChatsAnswered
<1>7. CASE RemoveProject(r) /\ Cascade
  <2>1. project' = "removed" /\ messages' = <<>> /\ DOMAIN chats' = {}
    BY <1>7 DEF RemoveProject, Cascade, Restrict
  <2>2. AnswersFollowQuestions'
    BY <2>1 DEF AnswersFollowQuestions
  <2> QED
    BY <2>1, <2>2 DEF AnswersInv
<1>8. CASE (Stops(r) \/ Log(r)) /\ UNCHANGED ragnarockVars
  <2>1. Others(r) /\ ctx'[r].op = "none"
    BY <1>0, <1>8, EndOp, EndLeaves DEF Stops, Log
  <2> QED
    BY <1>8, <2>1, ProjectStays, ChatsAlone
<1> QED
  BY <1>1, <1>2, <1>3, <1>4, <1>5, <1>6, <1>7, <1>8 DEF RequestStep, OtherRequests

\* And after a result was delivered: its question is queued, so it stands in the
\* chat, unless the chat went with the project.
LEMMA ResultsAnswered ==
  ASSUME TypeInv, AnswersInv, NEW q \in questions, HandleAnswer(q)
  PROVE  AnswersInv'
<1> DEFINE m == [chat |-> q.chat, by |-> "assistant", question |-> q.id]
<1>1. /\ messages \in Seq(Message) /\ q.id \in Requests /\ q.chat \in Rows
  BY DEF TypeInv, TypeOK, RagnarockTypeOK
<1>2. /\ messages' = Append(messages, m) /\ q.chat \in DOMAIN chats
      /\ questions' \subseteq questions /\ UNCHANGED <<project, at, ctx, chats>>
  BY DEF HandleAnswer, baseVars, projectVars, requestVars
<1>3. m \in Message /\ m.by = "assistant" /\ m.question = q.id /\ m.chat = q.chat
  BY <1>1 DEF Message
<1>4. project # "removed" /\ AskedIn(q.id, q.chat)
  BY <1>2 DEF AnswersInv
<1> HIDE DEF m
<1>5. AnswersFollowQuestions'
  BY <1>1, <1>2, <1>3, <1>4, FollowStays DEF AnswersInv
<1>6. \A p, i : AskedIn(p, i) => AskedIn(p, i)'
  BY <1>1, <1>2, <1>3, AskedStays
<1>7. \A r \in Requests : On(r, "sendMessage", "stored")' => AskedIn(r, What(r))'
  <2> TAKE r \in Requests
  <2>1. (On(r, "sendMessage", "stored")' <=> On(r, "sendMessage", "stored"))
        /\ What(r)' = What(r)
    BY <1>2 DEF On, What
  <2>2. On(r, "sendMessage", "stored") => AskedIn(r, What(r))
    BY <1>4 DEF AnswersInv
  <2> QED
    BY <1>6, <2>1, <2>2 DEF AskedIn
<1>8. \A p \in questions' : AskedIn(p.id, p.chat)'
  BY <1>2, <1>4, <1>6 DEF AnswersInv
<1> QED
  BY <1>2, <1>4, <1>5, <1>7, <1>8 DEF AnswersInv

\* Nothing else reaches the chats.
LEMMA EnvironmentAnswered ==
  ASSUME TypeInv, AnswersInv, Environment \/ UNCHANGED vars
  PROVE  AnswersInv'
<1>1. CASE \E q \in questions : HandleAnswer(q)
  BY <1>1, ResultsAnswered
<1>2. CASE ~\E q \in questions : HandleAnswer(q)
  <2>1. UNCHANGED ragnarockVars /\ UNCHANGED <<project, at, ctx>>
    BY <1>2 DEF Environment, vars, baseVars, projectVars, requestVars, KeyExpires,
       RevokeToken, Tick, DeleteOnGithub, Leave, Emit
  <2> QED
    BY <2>1 DEF AnswersInv, AnswersFollowQuestions, AskedIn, On, What, ragnarockVars
<1> QED
  BY <1>1, <1>2

\* Nothing has been asked when the API starts.
LEMMA NothingAsked ==
  ASSUME Init
  PROVE  AnswersInv
<1>1. project # "removed" /\ messages = <<>> /\ questions = {}
  BY DEF Init, ApiInit, RagnarockInit
<1>2. \A r \in Requests : ~On(r, "sendMessage", "stored")
  BY DEF Init, ApiInit, On
<1> QED
  BY <1>1, <1>2 DEF AnswersInv, AnswersFollowQuestions

\* In every chat with Ragnarock an answer stands below its question, however often
\* results are delivered and whatever happens to the project meanwhile
\* (ragnarock-chat.service.ts, sendMessage and the handler of its results).
THEOREM AnswersComeAfter == Spec => []AnswersFollowQuestions
<1>1. Init => TypeInv /\ AnswersInv
  BY TypesAtFirst, NothingAsked
<1>2. TypeInv /\ AnswersInv /\ [Next]_vars => (TypeInv /\ AnswersInv)'
  BY RequestTypes, EnvironmentTypes, RequestsAnswered, EnvironmentAnswered DEF Next
<1>3. AnswersInv => AnswersFollowQuestions
  BY DEF AnswersInv
<1> QED
  BY <1>1, <1>2, <1>3, PTL DEF Spec

-----------------------------------------------------------------------------
(* Handlers alone.                                                         *)

\* What a handler has read to fit its write to is still so.
Current(r) ==
  /\ On(r, "createKey", "free") => NameFree(What(r).name)
  /\ On(r, "createTask", "placed") /\ What(r).pos = None =>
       \A i \in DOMAIN tasks : tasks[i].col = What(r).col => tasks[i].pos < ctx[r].seen
  /\ at[r] = "read" /\ ctx[r].op \in {"updateDoc", "agentDoc"}
     /\ What(r).row \in DOMAIN docs => ctx[r].seen = docs[What(r).row]
  /\ at[r] \in {"found", "answered"} /\ ctx[r].op = "verify" /\ connection # None =>
       ctx[r].seen.token = connection.token

QuietInv == \A r \in Requests : ctx[r].quiet => Current(r)

\* A request with an operation that the invariant does not speak of.
LEMMA NothingRead ==
  ASSUME NEW r,
         ctx'[r].op \notin {"createKey", "createTask", "updateDoc", "agentDoc", "verify"}
  PROVE  Current(r)'
BY DEF Current, On

\* Nobody has read anything quietly after a write.
LEMMA OthersDisturbed ==
  ASSUME TypeInv, NEW r \in Requests, NEW s, Write(r, s),
         s \notin {"free", "placed", "read", "found", "answered"}
  PROVE  QuietInv'
<1>1. Others(r) /\ Disturbs(r) /\ at'[r] = s
  <2>1. Others(r) /\ Disturbs(r)
    BY WriteLeaves DEF TypeInv
  <2>2. at'[r] = s
    BY DEF Write, TypeInv, Tables
  <2> QED
    BY <2>1, <2>2
<1>2. Current(r)'
  BY <1>1 DEF Current, On
<1>3. ASSUME NEW q \in Requests, q # r, ctx'[q].quiet
      PROVE  Current(q)'
  <2>1. at'[q] = at[q] /\ ~Started(q)
    BY <1>1, <1>3 DEF Others, Disturbs
  <2> QED
    BY <2>1 DEF Current, On, Started
<1> QED
  BY <1>2, <1>3 DEF QuietInv

\* A step that reads, for what it has read, or does nothing the invariant speaks of.
LEMMA ReadsOrWrites ==
  ASSUME TypeInv, QuietInv, NEW r \in Requests, Others(r),
         \/ /\ UNCHANGED <<tasks, docs, keys, connection>>
            /\ ctx'[r].quiet => Current(r)'
         \/ \E s : Write(r, s) /\ s \notin {"free", "placed", "read", "found", "answered"}
  PROVE  QuietInv'
<1>1. CASE \E s : Write(r, s) /\ s \notin {"free", "placed", "read", "found", "answered"}
  BY <1>1, OthersDisturbed
<1>2. CASE /\ UNCHANGED <<tasks, docs, keys, connection>>
           /\ ctx'[r].quiet => Current(r)'
  <2>1. ASSUME NEW q \in Requests, q # r, ctx'[q].quiet
        PROVE  Current(q)'
    <3>1. /\ at'[q] = at[q] /\ ctx'[q].op = ctx[q].op /\ ctx'[q].what = ctx[q].what
          /\ ctx'[q].seen = ctx[q].seen /\ ctx[q].quiet
      BY <2>1 DEF Others
    <3>2. Current(q)
      BY <3>1 DEF QuietInv
    <3> QED
      BY <1>2, <3>1, <3>2 DEF Current, On, What, NameFree
  <2> QED
    BY <1>2, <2>1 DEF QuietInv
<1> QED
  BY <1>1, <1>2

\* A request whose handler is not where the invariant speaks of it.
LEMMA NotReading ==
  ASSUME NEW r, at'[r] \notin {"free", "placed", "read"},
         at'[r] \notin {"found", "answered"} \/ ctx'[r].op # "verify"
  PROVE  Current(r)'
BY DEF Current, On

\* A new task goes to a position after all tasks of its column.
LEMMA TasksRead ==
  ASSUME TypeInv, QuietInv, NEW r \in Requests, TaskStep(r), connection' = connection
  PROVE  QuietInv'
<1>0. Tables /\ Others(r) /\ ctx'[r].op \in TaskOps \cup {"none"}
  BY TaskTypes, TaskOp DEF TypeInv, Typed
<1>a. ASSUME UNCHANGED contentVars, Current(r)' PROVE QuietInv'
  BY <1>0, <1>a, ReadsOrWrites DEF contentVars
<1>b. ASSUME at'[r] \notin {"free", "placed", "read"} PROVE Current(r)'
  BY <1>0, <1>b, NotReading DEF TaskOps
<1>1. CASE AcceptTaskRequest(r)
  <2>1. at'[r] = "accepted"
    BY <1>1, <1>0 DEF AcceptTaskRequest, Accept, Enters, Tables
  <2> QED
    BY <1>1, <2>1, <1>a, <1>b DEF AcceptTaskRequest
<1>2. CASE FindTask(r) \/ CheckAssignee(r) \/ FindTasks(r)
  <2>1. at'[r] \in {"found", "checked"}
    BY <1>2, <1>0, WentOn DEF FindTask, CheckAssignee, FindTasks
  <2> QED
    BY <1>2, <2>1, <1>a, <1>b DEF FindTask, CheckAssignee, FindTasks
<1>3. CASE PlaceTask(r)
  <2>1. /\ at'[r] = "placed" /\ ctx'[r].op = "createTask" /\ What(r)' = What(r)
        /\ What(r).pos = None => ctx'[r].seen = NextSortOrder(What(r).col)
    BY <1>3, <1>0, WentOn DEF PlaceTask, On, What
  <2>2. UNCHANGED contentVars
    BY <1>3 DEF PlaceTask
  <2>3. What(r).pos = None => \A i \in DOMAIN tasks' :
          tasks'[i].col = What(r).col => tasks'[i].pos < ctx'[r].seen
    BY <2>1, <2>2, NextPosition DEF contentVars
  <2>4. Current(r)'
    BY <2>1, <2>3 DEF Current, On
  <2> QED
    BY <2>2, <2>4, <1>a
<1>4. CASE CreateTask(r) \/ UpdateTask(r) \/ ReorderTasks(r) \/ RemoveTask(r)
  BY <1>4, OthersDisturbed DEF CreateTask, UpdateTask, ReorderTasks, RemoveTask
<1> QED
  BY <1>1, <1>2, <1>3, <1>4 DEF TaskStep

\* A new key has a name that was free.
LEMMA KeysRead ==
  ASSUME TypeInv, QuietInv, NEW r \in Requests, KeyStep(r), connection' = connection
  PROVE  QuietInv'
<1>0. Tables /\ Others(r) /\ ctx'[r].op \in KeyOps \cup {"completeTask", "none"}
  BY KeyTypes, KeyOp DEF TypeInv, Typed
<1>a. ASSUME UNCHANGED contentVars, Current(r)' PROVE QuietInv'
  BY <1>0, <1>a, ReadsOrWrites DEF contentVars
<1>b. ASSUME at'[r] \notin {"free", "placed", "read"} PROVE Current(r)'
  BY <1>0, <1>b, NotReading DEF KeyOps
<1>1. CASE AcceptKeyRequest(r)
  <2>1. at'[r] = "accepted"
    BY <1>1, <1>0 DEF AcceptKeyRequest, Accept, Enters, Tables
  <2> QED
    BY <1>1, <2>1, <1>a, <1>b DEF AcceptKeyRequest
<1>2. CASE CheckName(r)
  <2>1. /\ at'[r] = "free" /\ ctx'[r].op = "createKey" /\ What(r)' = What(r)
        /\ NameFree(What(r).name)
    BY <1>2, <1>0, WentOn DEF CheckName, On, What
  <2>2. UNCHANGED contentVars
    BY <1>2 DEF CheckName
  <2>3. Current(r)'
    BY <2>1, <2>2 DEF Current, On, NameFree, contentVars
  <2> QED
    BY <2>2, <2>3, <1>a
<1>3. CASE FindKey(r)
  <2>1. at'[r] = "found"
    BY <1>3, <1>0, WentOn DEF FindKey
  <2> QED
    BY <1>3, <2>1, <1>a, <1>b DEF FindKey
<1>4. CASE FindsKey(r)
  <2>1. at'[r] = "touch"
    BY <1>4, <1>0 DEF FindsKey, Tables
  <2> QED
    BY <1>4, <2>1, <1>a, <1>b DEF FindsKey
<1>5. CASE CreateKey(r) \/ RevokeKey(r) \/ TouchKey(r) \/ MarkTaskComplete(r)
  BY <1>5, OthersDisturbed DEF CreateKey, RevokeKey, TouchKey, MarkTaskComplete
<1> QED
  BY <1>1, <1>2, <1>3, <1>4, <1>5 DEF KeyStep

\* A document is written by who has read it.
LEMMA DocsRead ==
  ASSUME TypeInv, QuietInv, NEW r \in Requests, DocStep(r), connection' = connection
  PROVE  QuietInv'
<1>0. Tables /\ Others(r) /\ ctx'[r].op \in DocOps \cup {"none"}
  BY DocTypes, DocOp DEF TypeInv, Typed
<1>a. ASSUME UNCHANGED contentVars, Current(r)' PROVE QuietInv'
  BY <1>0, <1>a, ReadsOrWrites DEF contentVars
<1>b. ASSUME at'[r] \notin {"free", "placed", "read"} PROVE Current(r)'
  BY <1>0, <1>b, NotReading DEF DocOps
<1>1. CASE AcceptDocRequest(r) \/ AgentWritesDoc(r)
  <2>1. at'[r] = "accepted"
    BY <1>1, <1>0 DEF AcceptDocRequest, AgentWritesDoc, Accept, Enters, Tables
  <2> QED
    BY <1>1, <2>1, <1>a, <1>b DEF AcceptDocRequest, AgentWritesDoc
<1>2. CASE ReadDoc(r)
  <2>1. /\ at'[r] = "read" /\ What(r)' = What(r) /\ ctx'[r].seen = docs[What(r).row]
    BY <1>2, <1>0, WentOn DEF ReadDoc, What
  <2>2. UNCHANGED contentVars
    BY <1>2 DEF ReadDoc
  <2>3. Current(r)'
    BY <1>0, <2>1, <2>2 DEF Current, On, contentVars, DocOps
  <2> QED
    BY <2>2, <2>3, <1>a
<1>3. CASE CreateDoc(r) \/ RemoveDoc(r)
  BY <1>3, OthersDisturbed DEF CreateDoc, RemoveDoc
<1>4. CASE WriteDoc(r)
  BY <1>4, OthersDisturbed DEF WriteDoc
<1> QED
  BY <1>1, <1>2, <1>3, <1>4 DEF DocStep

\* A verification keeps to the token that it found.
LEMMA LinearRead ==
  ASSUME TypeInv, QuietInv, NEW r \in Requests, LinearStep(r), UNCHANGED contentVars
  PROVE  QuietInv'
<1>0. Tables /\ Others(r) /\ ctx'[r].op \in LinearOps \cup {"none"} /\ LinearFit(r)
  BY LinearTypes, LinearOp DEF TypeInv, Typed, Fits
<1>a. ASSUME UNCHANGED connection, ctx'[r].quiet => Current(r)' PROVE QuietInv'
  BY <1>0, <1>a, ReadsOrWrites DEF contentVars
<1>b. ASSUME at'[r] \notin {"free", "placed", "read"},
             at'[r] \notin {"found", "answered"} \/ ctx'[r].op # "verify"
      PROVE  Current(r)'
  BY <1>b, NotReading
<1>c. ASSUME at'[r] \in {"found", "answered"},
             connection' # None => ctx'[r].seen.token = connection'.token
      PROVE  Current(r)'
  BY <1>c DEF Current, On
<1>1. CASE AcceptLinearRequest(r)
  <2>1. at'[r] = "accepted"
    BY <1>1, <1>0 DEF AcceptLinearRequest, Enters, Tables
  <2> QED
    BY <1>1, <2>1, <1>a, <1>b DEF AcceptLinearRequest, linearVars
<1>2. CASE VerifyNewToken(r)
  <2>1. at'[r] = "verified"
    BY <1>2, <1>0, WentOn DEF VerifyNewToken
  <2> QED
    BY <1>2, <2>1, <1>a, <1>b DEF VerifyNewToken, linearVars
<1>3. CASE FindConnection(r)
  <2>1. at'[r] = "found" /\ ctx'[r].seen = connection
    BY <1>3, <1>0, WentOn DEF FindConnection
  <2> QED
    BY <1>3, <2>1, <1>a, <1>c DEF FindConnection, linearVars
<1>4. CASE AskLinear(r) \/ CannotDecrypt(r)
  <2>1. /\ at[r] = "found" /\ ctx[r].op = "verify" /\ connection' = connection
        /\ ctx[r].seen \in Connections
    BY <1>0, <1>4 DEF AskLinear, CannotDecrypt, On, linearVars, LinearFit
  <2>2. \E x : Goto(r, "answered", x) /\ x.token = ctx[r].seen.token
    <3>1. CASE AskLinear(r)
      BY <3>1 DEF AskLinear
    <3>2. CASE CannotDecrypt(r)
      BY <2>1, <3>2 DEF CannotDecrypt, Connections
    <3> QED
      BY <1>4, <3>1, <3>2
  <2>3. /\ at'[r] = "answered" /\ ctx'[r].seen.token = ctx[r].seen.token
        /\ ctx'[r].quiet = ctx[r].quiet
    BY <1>0, <2>2, WentOn
  <2>4. ctx[r].quiet /\ connection # None => ctx[r].seen.token = connection.token
    BY <2>1 DEF QuietInv, Current
  <2> QED
    BY <2>1, <2>3, <2>4, <1>a, <1>c
<1>5. CASE Connect(r) \/ Disconnect(r) \/ SaveVerification(r)
  BY <1>5, OthersDisturbed DEF Connect, Disconnect, SaveVerification
<1> QED
  BY <1>1, <1>2, <1>3, <1>4, <1>5 DEF LinearStep

\* What quiet handlers have read stays so when a request takes a step.
LEMMA RequestsRead ==
  ASSUME TypeInv, QuietInv, NEW r \in Requests, RequestStep(r)
  PROVE  QuietInv'
<1>0. Tables
  BY DEF TypeInv
<1>a. ASSUME UNCHANGED <<contentVars, linearVars>>, Others(r),
             ctx'[r].op \notin {"createKey", "createTask", "updateDoc", "agentDoc", "verify"}
      PROVE  QuietInv'
  BY <1>a, NothingRead, ReadsOrWrites DEF contentVars, linearVars
<1>1. CASE MembersStep(r) /\ UNCHANGED <<contentVars, linearVars>>
  BY <1>0, <1>1, <1>a, MemberTypes, MemberOp DEF Typed, MemberOps
<1>2. CASE ContentStep(r) /\ UNCHANGED linearVars
  <2>1. CASE TaskStep(r)
    BY <1>2, <2>1, TasksRead DEF linearVars
  <2>2. CASE KeyStep(r)
    BY <1>2, <2>2, KeysRead DEF linearVars
  <2>3. CASE DocStep(r)
    BY <1>2, <2>3, DocsRead DEF linearVars
  <2>4. CASE RowStep(r)
    <3>1. UNCHANGED <<tasks, docs, keys, connection>>
      BY <1>2, <2>4 DEF linearVars, RowStep, AcceptRowRequest, CreateRequirement, FindRow,
         UpdateRequirement, RemoveRequirement, CreateSkill, UpdateSkill, RemoveSkill,
         contentVars
    <3>2. Current(r)' /\ Others(r)
      BY <1>0, <2>4, RowTypes, RowOp, NothingRead DEF Typed, RowOps
    <3> QED
      BY <3>1, <3>2, ReadsOrWrites
  <2> QED
    BY <1>2, <2>1, <2>2, <2>3, <2>4 DEF ContentStep
<1>3. CASE LinearStep(r) /\ UNCHANGED contentVars
  BY <1>3, LinearRead
<1>4. CASE RepositoryStep(r) /\ UNCHANGED <<contentVars, linearVars>>
  BY <1>0, <1>4, <1>a, RepositoryTypes, RepositoryOp DEF Typed, RepositoryOps
<1>5. CASE /\ RoomStep(r) \/ CheckContributor(r, personas[ctx[r].by])
           /\ UNCHANGED <<contentVars, linearVars>>
  BY <1>0, <1>5, <1>a, RoomTypes, RoomOp DEF Typed, RoomOps
<1>6. CASE RagnarockStep(r) /\ UNCHANGED <<contentVars, linearVars>>
  BY <1>0, <1>6, <1>a, RagnarockTypes, RagnarockOp DEF Typed, RagnarockOps
<1>7. CASE RemoveProject(r)
  BY <1>7, OthersDisturbed DEF RemoveProject
<1>8. CASE (Stops(r) \/ Log(r)) /\ UNCHANGED <<contentVars, linearVars>>
  <2>1. Others(r) /\ ctx'[r].op = "none"
    BY <1>0, <1>8, EndOp, EndLeaves DEF Stops, Log
  <2> QED
    BY <1>8, <2>1, <1>a
<1> QED
  BY <1>1, <1>2, <1>3, <1>4, <1>5, <1>6, <1>7, <1>8 DEF RequestStep, OtherRequests

\* Without a request a key may expire; it keeps its name.
LEMMA EnvironmentRead ==
  ASSUME TypeInv, QuietInv, Environment \/ UNCHANGED vars
  PROVE  QuietInv'
<1>1. UNCHANGED <<at, ctx>>
  BY NothingElse
<1>2. UNCHANGED <<tasks, docs, connection>>
  BY DEF Environment, vars, contentVars, linearVars, KeyExpires, RevokeToken
<1>3. \A n : NameFree(n)' <=> NameFree(n)
  <2>1. CASE keys' = keys
    BY <2>1 DEF NameFree
  <2>2. CASE \E i \in DOMAIN keys : KeyExpires(i)
    <3>1. PICK i \in DOMAIN keys : keys' = [keys EXCEPT ![i].expired = TRUE]
      BY <2>2 DEF KeyExpires
    <3>2. keys[i] \in [name : Names, expired : BOOLEAN]
      BY DEF TypeInv, TypeOK, ContentTypeOK, RowsOf
    <3>3. DOMAIN keys' = DOMAIN keys /\ \A k \in DOMAIN keys : keys'[k].name = keys[k].name
      BY <3>1, <3>2
    <3> QED
      BY <3>3 DEF NameFree
  <2> QED
    BY <2>1, <2>2 DEF Environment, vars, contentVars
<1>4. ASSUME NEW r \in Requests, ctx'[r].quiet
      PROVE  Current(r)'
  <2>1. Current(r)
    BY <1>1, <1>4 DEF QuietInv
  <2> QED
    BY <1>1, <1>2, <1>3, <2>1 DEF Current, On, What
<1> QED
  BY <1>4 DEF QuietInv

\* What SerialWhenAlone says of the handlers of r.
Fitting(r) ==
  /\ CreateKey(r) => \A i \in DOMAIN keys : keys[i].name # What(r).name
  /\ CreateTask(r) /\ What(r).pos = None =>
       \A i \in DOMAIN tasks : tasks[i].col = What(r).col => tasks[i].pos < tasks'[r].pos
  /\ WriteDoc(r) =>
       LET i == What(r).row
           new == What(r).text # docs[i].text \/ ctx[r].op = "agentDoc"
       IN docs'[i].version = docs[i].version + (IF new THEN 1 ELSE 0)
  /\ SaveVerification(r) => ctx[r].seen.token = connection.token

\* It follows from the invariant.
LEMMA QuietWritesFit ==
  ASSUME TypeInv, QuietInv, NEW r \in Requests, ctx[r].quiet
  PROVE  Fitting(r)
<1>0. Current(r)
  BY DEF QuietInv
<1>1. ASSUME CreateKey(r), NEW i \in DOMAIN keys
      PROVE  keys[i].name # What(r).name
  BY <1>0, <1>1 DEF CreateKey, Current, NameFree
<1>2. ASSUME CreateTask(r), What(r).pos = None, NEW i \in DOMAIN tasks,
             tasks[i].col = What(r).col
      PROVE  tasks[i].pos < tasks'[r].pos
  <2>1. tasks'[r].pos = ctx[r].seen
    BY <1>2 DEF CreateTask, Put
  <2>2. tasks[i].pos < ctx[r].seen
    BY <1>0, <1>2 DEF CreateTask, Current
  <2> QED
    BY <2>1, <2>2
<1>3. ASSUME WriteDoc(r)
      PROVE  LET i == What(r).row
                 new == What(r).text # docs[i].text \/ ctx[r].op = "agentDoc"
             IN docs'[i].version = docs[i].version + (IF new THEN 1 ELSE 0)
  <2> DEFINE i == What(r).row
  <2>1. /\ i \in DOMAIN docs /\ at[r] = "read" /\ ctx[r].op \in {"updateDoc", "agentDoc"}
        /\ docs' = [docs EXCEPT ![i] = [text |-> What(r).text, version |-> NextVersion(r)]]
    BY <1>3 DEF WriteDoc, Found
  <2>2. ctx[r].seen = docs[i]
    BY <1>0, <2>1 DEF Current
  <2>3. docs[i].version \in Nat
    BY <2>1 DEF TypeInv, TypeOK, ContentTypeOK, RowsOf
  <2>4. docs'[i].version = NextVersion(r)
    BY <2>1
  <2> QED
    BY <2>2, <2>3, <2>4 DEF NextVersion
<1>4. ASSUME SaveVerification(r)
      PROVE  ctx[r].seen.token = connection.token
  BY <1>0, <1>4 DEF SaveVerification, On, HasId, Current
<1> QED
  BY <1>1, <1>2, <1>3, <1>4 DEF Fitting

\* What a handler writes fits the rows it finds as long as no other request has
\* written since it came in, for any number of requests (api-keys.service.ts,
\* project-tasks.service.ts, project-documentation.service.ts,
\* integrations.service.ts).
THEOREM AloneIsSerial == Spec => SerialWhenAlone
<1> DEFINE Serial == \A r \in Requests : ctx[r].quiet => Fitting(r)
<1>1. Init => TypeInv /\ QuietInv
  <2>1. Init => \A r \in Requests : at[r] = "new"
    BY DEF Init, ApiInit
  <2> QED
    BY <2>1, TypesAtFirst DEF QuietInv, Current, On
<1>2. TypeInv /\ QuietInv /\ [Next]_vars => (TypeInv /\ QuietInv)'
  BY RequestTypes, EnvironmentTypes, RequestsRead, EnvironmentRead DEF Next
<1>3. TypeInv /\ QuietInv => Serial
  BY QuietWritesFit
<1>4. Spec => [][Serial]_vars
  <2> HIDE DEF Serial
  <2> QED
    BY <1>1, <1>2, <1>3, PTL DEF Spec
<1> QED
  BY <1>4 DEF SerialWhenAlone, Fitting
=============================================================================
