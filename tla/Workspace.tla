----------------------------- MODULE Workspace -----------------------------
(***************************************************************************)
(* A project as its members use it through the API: the parts of the API   *)
(* together.  They share the project and its members, and every row that   *)
(* the other parts keep goes with the project.                             *)
(***************************************************************************)
EXTENDS ProjectMembers, ProjectContent, LinearConnection, LinkedRepositories,
        ProjectRooms, RagnarockChat

CONSTANTS
  Teams   \* the roles that the members of a project may have at first

ASSUME WorkspaceAssumption == Teams \subseteq [Users -> Roles \cup {None}]

vars == <<baseVars, memberVars, contentVars, linearVars, repositoryVars, roomVars,
          ragnarockVars>>

TypeOK ==
  /\ ApiTypeOK /\ MembersTypeOK /\ ContentTypeOK /\ LinearTypeOK
  /\ RepositoriesTypeOK /\ RoomsTypeOK /\ RagnarockTypeOK

Init ==
  /\ ApiInit(Teams)
  /\ MembersInit /\ ContentInit /\ LinearInit /\ RepositoriesInit /\ RoomsInit
  /\ RagnarockInit

\* The database removes what refers to the project.  Sockets stay in their
\* rooms, answers in the cache, and jobs in their queue.
Cascade ==
  /\ tasks' = Restrict(tasks, {})
  /\ docs' = Restrict(docs, {})
  /\ requirements' = {}
  /\ skills' = Restrict(skills, {})
  /\ keys' = Restrict(keys, {})
  /\ linked' = Restrict(linked, {})
  /\ sessions' = Restrict(sessions, {})
  /\ chats' = Restrict(chats, {})
  /\ messages' = <<>>
  /\ UNCHANGED <<linearVars, onGithub, cache, clock, rooms, asked, received,
                 questions, deliveries>>

OtherRequests(r) ==
  \/ /\ MembersStep(r)
     /\ UNCHANGED <<contentVars, linearVars, repositoryVars, roomVars, ragnarockVars>>
  \/ /\ ContentStep(r)
     /\ UNCHANGED <<memberVars, linearVars, repositoryVars, roomVars, ragnarockVars>>
  \/ /\ LinearStep(r)
     /\ UNCHANGED <<memberVars, contentVars, repositoryVars, roomVars, ragnarockVars>>
  \/ /\ RepositoryStep(r)
     /\ UNCHANGED <<memberVars, contentVars, linearVars, roomVars, ragnarockVars>>
  \/ /\ RoomStep(r) \/ CheckContributor(r, personas[ctx[r].by])
     /\ UNCHANGED <<memberVars, contentVars, linearVars, repositoryVars, ragnarockVars>>
  \/ /\ RagnarockStep(r)
     /\ UNCHANGED <<memberVars, contentVars, linearVars, repositoryVars, roomVars>>

RequestStep(r) ==
  \/ OtherRequests(r)
  \/ RemoveProject(r) /\ Cascade
  \/ /\ Stops(r) \/ Log(r)
     /\ UNCHANGED <<memberVars, contentVars, linearVars, repositoryVars, roomVars,
                    ragnarockVars>>

\* What happens without a request.
Environment ==
  \/ /\ \E i \in DOMAIN keys : KeyExpires(i)
     /\ UNCHANGED <<memberVars, linearVars, repositoryVars, roomVars, ragnarockVars>>
  \/ /\ \E t \in Tokens : RevokeToken(t)
     /\ UNCHANGED <<memberVars, contentVars, repositoryVars, roomVars, ragnarockVars>>
  \/ /\ Tick \/ \E g \in GithubRepos : DeleteOnGithub(g)
     /\ UNCHANGED <<memberVars, contentVars, linearVars, roomVars, ragnarockVars>>
  \/ /\ \/ \E u \in Users : Leave(u)
        \/ \E room \in DOMAIN sessions \cup {Whole} : Emit(room)
     /\ UNCHANGED <<memberVars, contentVars, linearVars, repositoryVars, ragnarockVars>>
  \/ /\ \E q \in questions : HandleAnswer(q)
     /\ UNCHANGED <<memberVars, contentVars, linearVars, repositoryVars, roomVars>>

Next == (\E r \in Requests : RequestStep(r)) \/ Environment

Spec == Init /\ [][Next]_vars

-----------------------------------------------------------------------------

\* What OwnersKept says of one step.
OwnersStay ==
  Owners # {} /\ Owners' = {} =>
    \/ project' = "removed"
    \/ \E r \in Requests :
         AddMember(r) \/ UpdateRole(r) \/ (RemoveMember(r) /\ ~ctx[r].quiet)

\* A project loses its last owner only when a manager gives that owner another
\* role, when removals of owners overlap, or with the project: remove counts the
\* owners in one call and deletes the member in a later one
\* (project-members.service.ts).
OwnersKept == [][OwnersStay]_vars

\* What a handler writes fits the rows it finds, as long as no other request has
\* written since it came in: a key has a name of its own, a task without a
\* position goes to the end of its column, a document's version counts its
\* contents, and a verification speaks of the token in the row.  Every one of
\* these handlers reads in one call and writes in a later one.
SerialWhenAlone ==
  [][\A r \in Requests : ctx[r].quiet =>
       /\ CreateKey(r) => \A i \in DOMAIN keys : keys[i].name # What(r).name
       /\ CreateTask(r) /\ What(r).pos = None =>
            \A i \in DOMAIN tasks : tasks[i].col = What(r).col
                                    => tasks[i].pos < tasks'[r].pos
       /\ WriteDoc(r) =>
            LET i == What(r).row
                new == What(r).text # docs[i].text \/ ctx[r].op = "agentDoc"
            IN docs'[i].version = docs[i].version + (IF new THEN 1 ELSE 0)
       /\ SaveVerification(r) => ctx[r].seen.token = connection.token]_vars

\* A user who has never been a member of the project gets none of its tasks,
\* joins none of its rooms, hears of none of its events, asks no agent and has no
\* chat: memberships are checked in a call before the one that acts on them.
OutsidersNeverIn ==
  /\ \A i \in DOMAIN tasks : tasks[i].who \in everMember \cup {None}
  /\ \A u \in Users : rooms[u] # {} => u \in everMember
  /\ received \cup asked \cup Range(chats) \subseteq everMember

\* In a chat with Ragnarock an answer stands below its question, however often
\* its result is delivered (sendMessage stores before it queues).
AnswersFollowQuestions ==
  \A i \in 1 .. Len(messages) : messages[i].by = "assistant" =>
    \E k \in 1 .. i - 1 : /\ messages[k].by = "user"
                          /\ messages[k].question = messages[i].question
                          /\ messages[k].chat = messages[i].chat
=============================================================================
