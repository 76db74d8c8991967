---------------------------- MODULE ApiRequests ----------------------------
(***************************************************************************)
(* Requests to the API about one project.  Guards let a request in by the  *)
(* role its user has at that moment; then a handler makes one database     *)
(* call after the other, without a transaction around them, while other    *)
(* requests do the same.  Each module that extends this one adds the       *)
(* handlers of one part of the API; Workspace puts the parts together.     *)
(***************************************************************************)
EXTENDS Integers, FiniteSets, Functions

CONSTANTS
  Users,
  Requests,   \* bound: each request is made once
  RequestsOf, \* bound: RequestsOf[a]: how many requests a behaviour about the
              \* part a of the API has
  None        \* no user, no role, no value

Roles == {"owner", "admin", "member", "viewer"}

ASSUME ApiAssumption ==
  /\ IsFiniteSet(Users)
  /\ None \notin Users \cup Requests \cup Roles

\* Who may do what: everybody in the project, who writes its content, who
\* manages it.
Everybody    == Roles
Contributors == Roles \ {"viewer"}
Managers     == {"owner", "admin"}

VARIABLES
  area,      \* bound: the part of the API that the requests are about
  project,   \* "none", "live" or "removed"
  role,      \* role[u]: the role of u in the project
  activity,  \* the operations that the project's activity tells of
  at,        \* at[r]: how far the handler of r has come
  ctx        \* ctx[r]: the operation of r, its user, its argument, what its
             \* handler has read, and whether no other request has written
             \* since r came in

requestVars == <<at, ctx>>
projectVars == <<area, project, role, activity>>
baseVars    == <<projectVars, requestVars>>

\* A row is named after the request that created it.
First == "first"
Rows  == Requests \cup {First}

Context(o, u, x, s, q) == [op |-> o, by |-> u, what |-> x, seen |-> s, quiet |-> q]

Idle == Context("none", None, None, None, TRUE)

Put(f, i, x) == [j \in DOMAIN f \cup {i} |-> IF j = i THEN x ELSE f[j]]
Drop(f, i)   == Restrict(f, DOMAIN f \ {i})

\* f maps some rows to values in S.
RowsOf(f, S) == DOMAIN f \subseteq Rows /\ \A i \in DOMAIN f : f[i] \in S

Started(r) == at[r] \notin {"new", "done"}
On(r, o, s) == at[r] = s /\ ctx[r].op = o

-----------------------------------------------------------------------------

MayStart(r) ==
  /\ at[r] = "new"
  /\ Cardinality({q \in Requests : at[q] # "new"}) < RequestsOf[area]

Enters(r, u, o, x) ==
  /\ MayStart(r)
  /\ at' = [at EXCEPT ![r] = "accepted"]
  /\ ctx' = [ctx EXCEPT ![r] = Context(o, u, x, None, TRUE)]
  /\ UNCHANGED projectVars

\* ProjectMemberGuard and ProjectRoleGuard.
Accept(r, u, needed, o, x) ==
  /\ project = "live"
  /\ role[u] \in needed
  /\ Enters(r, u, o, x)

\* The handler of r goes on, knowing x.
Goto(r, s, x) ==
  /\ at' = [at EXCEPT ![r] = s]
  /\ ctx' = [ctx EXCEPT ![r] = Context(@.op, @.by, @.what, x, @.quiet)]

\* The handler of r writes; the requests under way are no longer alone.
Write(r, s) ==
  /\ at' = [at EXCEPT ![r] = s]
  /\ ctx' = [q \in Requests |->
              IF q = r THEN (IF s = "done" THEN Idle ELSE ctx[r])
              ELSE Context(ctx[q].op, ctx[q].by, ctx[q].what, ctx[q].seen,
                           ctx[q].quiet /\ ~Started(q))]

End(r) ==
  /\ at' = [at EXCEPT ![r] = "done"]
  /\ ctx' = [ctx EXCEPT ![r] = Idle]

\* A request ends early: the service refuses it, a row that it needs is not
\* there, a constraint stops its write, or a call fails.  What it wrote before
\* stays.
Stops(r) ==
  /\ Started(r)
  /\ End(r)
  /\ UNCHANGED projectVars

\* The last call of many handlers tells the activity of the project what was
\* done.
Log(r) ==
  /\ at[r] = "log"
  /\ project = "live"
  /\ activity' = activity \cup {ctx[r].op}
  /\ End(r)
  /\ UNCHANGED <<area, project, role>>

\* The rows that a behaviour starts with, in the areas A that look at them.
FirstRow(A) == IF area \in A THEN {First} ELSE {}

ApiInit(teams) ==
  /\ area \in DOMAIN RequestsOf
  /\ \/ area = "project" /\ project = "none" /\ role = [u \in Users |-> None]
     \/ area # "project" /\ project = "live" /\ role \in teams
  /\ activity = {}
  /\ at = [r \in Requests |-> "new"]
  /\ ctx = [r \in Requests |-> Idle]

ApiTypeOK ==
  /\ project \in {"none", "live", "removed"}
  /\ role \in [Users -> Roles \cup {None}]
  /\ \A r \in Requests : ctx[r].by \in Users \cup {None} /\ ctx[r].quiet \in BOOLEAN
=============================================================================
