--------------------------- MODULE RagnarockChat ---------------------------
(***************************************************************************)
(* The chat of a user with Ragnarock about a project: a question is stored *)
(* and queued with what was said before; the answer is stored when its     *)
(* result comes back, once for each delivery of the result.                *)
(***************************************************************************)
EXTENDS ApiRequests, Sequences

CONSTANTS
  HistoryLimit,   \* how many earlier messages go with a question
  MaxDeliveries   \* bound: deliveries of results

ASSUME RagnarockAssumption == HistoryLimit \in Nat /\ MaxDeliveries \in Nat

VARIABLES
  chats,       \* RagnarockChatSession rows: the user of each
  messages,    \* RagnarockChatMessage rows, oldest first
  questions,   \* questions queued and not answered for good: see JobPipeline
  deliveries

ragnarockVars == <<chats, messages, questions, deliveries>>

\* A message by its chat, its author and the question it is or answers.
Message == [chat : Rows, by : {"user", "assistant"}, question : Requests]

RagnarockInit ==
  /\ chats \in [FirstRow({"ragnarock"}) -> {u \in Users : role[u] # None}]
  /\ messages = <<>>
  /\ questions = {}
  /\ deliveries = 0

RagnarockTypeOK ==
  /\ RowsOf(chats, Users)
  /\ messages \in Seq(Message)
  /\ \A q \in questions : q.id \in Requests /\ q.chat \in Rows /\ Range(q.history) \subseteq Message
  /\ deliveries \in 0 .. MaxDeliveries

AcceptRagnarockRequest(r) ==
  /\ area = "ragnarock"
  /\ \E u \in Users :
       \/ Accept(r, u, Everybody, "createChat", None)
       \/ \E i \in DOMAIN chats : Accept(r, u, Everybody, "sendMessage", i)
  /\ UNCHANGED ragnarockVars

CreateChat(r) ==
  /\ On(r, "createChat", "accepted")
  /\ project = "live"
  /\ chats' = Put(chats, r, ctx[r].by)
  /\ Write(r, "done")
  /\ UNCHANGED <<projectVars, messages, questions, deliveries>>

\* Where the messages of a chat stand.
Conversation(i) == {k \in 1 .. Len(messages) : messages[k].chat = i}

\* The oldest messages of the chat, by their places.
History(i) ==
  Restrict(messages, {k \in Conversation(i) :
                        Cardinality({j \in Conversation(i) : j <= k}) <= HistoryLimit})

\* A chat is open to its own user only.
FindChat(r) ==
  /\ On(r, "sendMessage", "accepted")
  /\ project = "live"
  /\ ctx[r].what \in DOMAIN chats
  /\ chats[ctx[r].what] = ctx[r].by
  /\ Goto(r, "found", History(ctx[r].what))
  /\ UNCHANGED <<projectVars, ragnarockVars>>

StoreQuestion(r) ==
  /\ On(r, "sendMessage", "found")
  /\ ctx[r].what \in DOMAIN chats
  /\ messages' = Append(messages, [chat |-> ctx[r].what, by |-> "user", question |-> r])
  /\ Write(r, "stored")
  /\ UNCHANGED <<projectVars, chats, questions, deliveries>>

\* Mutant: the question is queued before it is stored.
AtOnce(r) == at[r] \in {"found", "stored"}

QuestionStored(r) == at[r] = "stored"

QueueQuestion(r) ==
  /\ ctx[r].op = "sendMessage"
  /\ QuestionStored(r)
  /\ questions' = questions \cup {[id |-> r, chat |-> ctx[r].what, history |-> ctx[r].seen]}
  /\ Write(r, "done")
  /\ UNCHANGED <<projectVars, chats, messages, deliveries>>

\* A result is delivered and its answer stored; the consumer acknowledges it, or
\* fails and the result comes again.
HandleAnswer(q) ==
  /\ deliveries < MaxDeliveries
  /\ q.chat \in DOMAIN chats
  /\ messages' = Append(messages, [chat |-> q.chat, by |-> "assistant", question |-> q.id])
  /\ deliveries' = deliveries + 1
  /\ questions' \in {questions, questions \ {q}}
  /\ UNCHANGED <<baseVars, chats>>

RagnarockStep(r) ==
  \/ AcceptRagnarockRequest(r) \/ CreateChat(r) \/ FindChat(r) \/ StoreQuestion(r)
  \/ QueueQuestion(r)
=============================================================================
