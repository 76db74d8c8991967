---------------------------- MODULE ProjectRooms ----------------------------
(***************************************************************************)
(* The sockets of users and the rooms they join: one room for all that     *)
(* happens in a project and one for an AI chat session, whose turns are    *)
(* submitted over the socket too.                                          *)
(***************************************************************************)
EXTENDS ApiRequests

VARIABLES
  rooms,     \* rooms[u]: the rooms that u's socket is in
  sessions,  \* ProjectAiChatSession rows: the agent of each
  asked,     \* the users who have submitted a turn
  received   \* history: the users who have received an event

roomVars == <<rooms, sessions, asked, received>>

Agents == {"requirements", "developer_intelligence"}

\* The room of the whole project, or of a session.
Whole == "project"

RoomsInit ==
  /\ rooms = [u \in Users |-> {}]
  /\ sessions = [i \in FirstRow({"rooms"}) |-> "requirements"]
  /\ asked = {}
  /\ received = {}

RoomsTypeOK ==
  /\ rooms \in [Users -> SUBSET (Rows \cup {Whole})]
  /\ RowsOf(sessions, Agents)
  /\ asked \cup received \subseteq Users

\* A session is created by HTTP; the socket has signed in when it connects, and
\* what it asks for is decided by the handlers.
AcceptRoomRequest(r) ==
  /\ area = "rooms"
  /\ \E u \in Users :
       \/ \E a \in Agents : Accept(r, u, Contributors, "createSession", a)
       \/ Enters(r, u, "joinProject", Whole)
       \/ \E i \in DOMAIN sessions, o \in {"joinSession", "submitTurn"} : Enters(r, u, o, i)
  /\ UNCHANGED roomVars

CreateSession(r) ==
  /\ On(r, "createSession", "accepted")
  /\ project = "live"
  /\ sessions' = Put(sessions, r, ctx[r].what)
  /\ Write(r, "done")
  /\ UNCHANGED <<projectVars, rooms, asked, received>>

FindSession(r) ==
  /\ at[r] = "accepted" /\ ctx[r].op \in {"joinSession", "submitTurn"}
  /\ ctx[r].what \in DOMAIN sessions
  /\ Goto(r, "found", None)
  /\ UNCHANGED <<projectVars, roomVars>>

ValidateProjectMembership(u) == project = "live" /\ role[u] # None

CheckMembership(r) ==
  /\ On(r, "joinProject", "accepted") \/ On(r, "joinSession", "found")
  /\ ValidateProjectMembership(ctx[r].by)
  /\ Goto(r, "member", None)
  /\ UNCHANGED <<projectVars, roomVars>>

Join(r) ==
  /\ at[r] = "member"
  /\ rooms' = [rooms EXCEPT ![ctx[r].by] = @ \cup {ctx[r].what}]
  /\ End(r)
  /\ UNCHANGED <<projectVars, sessions, asked, received>>

\* A socket leaves the room of a session; one that disconnects leaves them all.
Leave(u) ==
  /\ area = "rooms"
  /\ \E R \in {rooms[u]} \cup {{s} : s \in rooms[u] \ {Whole}} :
       rooms' = [rooms EXCEPT ![u] = @ \ R]
  /\ UNCHANGED <<baseVars, sessions, asked, received>>

\* What a session's agent asks of the personas of the user.
Suits(agent, p) == /\ p # "stakeholder"
                   /\ agent = "developer_intelligence" => p = "developer"

\* ensureSessionAndContributor; p: the personas of the user's membership.
CheckContributor(r, p) ==
  /\ On(r, "submitTurn", "found")
  /\ ctx[r].what \in DOMAIN sessions
  /\ role[ctx[r].by] \in Contributors
  /\ Suits(sessions[ctx[r].what], p)
  /\ Goto(r, "contributor", None)
  /\ UNCHANGED <<projectVars, roomVars>>

\* The message of the user is stored; what becomes of the turn: ProjectArtifacts.
StoreMessage(r) ==
  /\ On(r, "submitTurn", "contributor")
  /\ ctx[r].what \in DOMAIN sessions
  /\ asked' = asked \cup {ctx[r].by}
  /\ Write(r, "done")
  /\ UNCHANGED <<projectVars, rooms, sessions, received>>

\* A handler of the API tells a room of an event: the sockets in it receive it.
Emit(room) ==
  /\ area = "rooms"
  /\ received' = received \cup {u \in Users : room \in rooms[u]}
  /\ UNCHANGED <<baseVars, rooms, sessions, asked>>

RoomStep(r) ==
  \/ AcceptRoomRequest(r) \/ CreateSession(r) \/ FindSession(r) \/ CheckMembership(r)
  \/ Join(r) \/ StoreMessage(r)
=============================================================================
