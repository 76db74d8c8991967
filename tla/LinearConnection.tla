-------------------------- MODULE LinearConnection --------------------------
(***************************************************************************)
(* The organization's connection to Linear: an access token, which Linear  *)
(* is asked about before it is stored and whenever an administrator wants  *)
(* it verified.                                                            *)
(***************************************************************************)
EXTENDS ApiRequests

CONSTANTS
  Tokens,
  OrgAdmins   \* owners and administrators of the organization

ASSUME LinearAssumption == OrgAdmins \subseteq Users

VARIABLES
  connection,  \* the IntegrationConnection row: id, token and status, or None
  refused      \* the tokens that Linear refuses

linearVars == <<connection, refused>>

LinearInit ==
  /\ connection \in {None} \cup
       [id : FirstRow({"linear"}), token : Tokens, status : {"active"}]
  /\ refused = {}

LinearTypeOK ==
  /\ connection \in [id : Rows, token : Tokens, status : {"active", "error"}] \cup {None}
  /\ refused \subseteq Tokens

\* OrganizationAdminGuard; the connection belongs to no project.
AcceptLinearRequest(r) ==
  /\ area = "linear"
  /\ \E u \in OrgAdmins :
       \/ \E t \in Tokens : Enters(r, u, "connect", t)
       \/ \E o \in {"disconnect", "verify"} : Enters(r, u, o, None)
  /\ UNCHANGED linearVars

\* A user of Linear revokes a token.
RevokeToken(t) ==
  /\ area = "linear"
  /\ refused' = refused \cup {t}
  /\ UNCHANGED <<baseVars, connection>>

\* What Linear may say of a token: a token that it knows is as good as refused
\* when its answer is an error for another reason.
VerifyLinearPat(token) == {"error"} \cup (IF token \in refused THEN {} ELSE {"active"})

\* Linear knows the token that is to be connected.
VerifyNewToken(r) ==
  /\ On(r, "connect", "accepted")
  /\ "active" \in VerifyLinearPat(ctx[r].what)
  /\ Goto(r, "verified", None)
  /\ UNCHANGED <<projectVars, linearVars>>

\* Connecting again replaces the token in the row.
Connect(r) ==
  /\ On(r, "connect", "verified")
  /\ connection' = [id |-> IF connection = None THEN r ELSE connection.id,
                    token |-> ctx[r].what, status |-> "active"]
  /\ Write(r, "done")
  /\ UNCHANGED <<projectVars, refused>>

FindConnection(r) ==
  /\ at[r] = "accepted" /\ ctx[r].op \in {"disconnect", "verify"}
  /\ connection # None
  /\ Goto(r, "found", connection)
  /\ UNCHANGED <<projectVars, linearVars>>

HasId(id) == connection # None /\ connection.id = id

Disconnect(r) ==
  /\ On(r, "disconnect", "found")
  /\ HasId(ctx[r].seen.id)
  /\ connection' = None
  /\ Write(r, "done")
  /\ UNCHANGED <<projectVars, refused>>

\* Linear is asked about the stored token.
AskLinear(r) ==
  /\ On(r, "verify", "found")
  /\ \E s \in VerifyLinearPat(ctx[r].seen.token) :
       Goto(r, "answered", [id |-> ctx[r].seen.id, token |-> ctx[r].seen.token, status |-> s])
  /\ UNCHANGED <<projectVars, linearVars>>

\* The stored payload cannot be decrypted, or holds no token.
CannotDecrypt(r) ==
  /\ On(r, "verify", "found")
  /\ Goto(r, "answered", [ctx[r].seen EXCEPT !.status = "error"])
  /\ UNCHANGED <<projectVars, linearVars>>

\* The answer goes to the row by its id, whatever token it holds by then.
SaveVerification(r) ==
  /\ On(r, "verify", "answered")
  /\ HasId(ctx[r].seen.id)
  /\ connection' = [connection EXCEPT !.status = ctx[r].seen.status]
  /\ Write(r, "done")
  /\ UNCHANGED <<projectVars, refused>>

LinearStep(r) ==
  \/ AcceptLinearRequest(r) \/ VerifyNewToken(r) \/ Connect(r) \/ FindConnection(r)
  \/ Disconnect(r) \/ AskLinear(r) \/ CannotDecrypt(r) \/ SaveVerification(r)
=============================================================================
