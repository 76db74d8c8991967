-------------------------- MODULE ProjectArtifacts --------------------------
(***************************************************************************)
(* What the AI features keep of one project, and how requests and results  *)
(* change it: the shared draft of its SRS, the completed specification     *)
(* with its document, features and requirements, the architecture          *)
(* documents, the test plan with its test cases, and the planned tasks.    *)
(*                                                                         *)
(* A request takes a snapshot of the project and queues it with a job; the *)
(* agent answers from the snapshot; a result consumer writes the answer,   *)
(* one database call after the other.  How jobs and results travel is the  *)
(* subject of JobPipeline: here a result stays available until a consumer  *)
(* acknowledges it, in no particular order.                                *)
(***************************************************************************)
EXTENDS Sequences, Integers, FiniteSets

CONSTANTS
  Turns,        \* chat turns
  Plans,        \* requests to plan tasks
  Suites,       \* requests for a test plan
  Bare,         \* those for which the agent answers without a test case
  Archs,        \* requests for an architecture document
  Layers,       \* the layers that such a document may be about
  Wanted,       \* Wanted[r]: type and layer of the document r asks for
  Consumers,    \* result consumers, one in each API process
  MaxRequests,  \* bound: requests made in one behaviour
  Together,     \* requests that may all be made in one behaviour
  MaxFaults,    \* bound: failed calls and crashes
  MaxRemovals   \* bound: documents removed by users

Requests == Turns \cup Plans \cup Suites \cup Archs

NoLayer   == "no layer"
ArchTypes == {"sad", "hld", "lld", "adr"}

ASSUME ArtifactsAssumption ==
  /\ MaxRequests \in Nat /\ MaxFaults \in Nat /\ MaxRemovals \in Nat
  /\ Turns \cap (Plans \cup Suites \cup Archs) = {}
  /\ Plans \cap (Suites \cup Archs) = {} /\ Suites \cap Archs = {}
  /\ Bare \subseteq Suites
  /\ NoLayer \notin Layers
  /\ Wanted \in [Archs -> [type : ArchTypes, layer : Layers \cup {NoLayer}]]

VARIABLES
  stage,     \* stage[r]: how far request r has come
  base,      \* base[r]: the snapshot r was queued with
  results,   \* answers the consumers are still to handle
  at,        \* at[c]: what consumer c does next
  hand,      \* hand[c]: the answer c is handling
  found,     \* found[c]: the documents that c looked up, by position
  fresh,     \* fresh[c]: c looked up a specification and found none
  todo,      \* todo[c]: parallel writes, or features, c has not finished
  bad,       \* bad[c]: one of c's parallel writes failed
  draft,     \* project.draftSrs
  specs,     \* ProjectSpecification rows, oldest first
  docs,      \* ProjectDocumentation rows of the agents, oldest first
  rows,      \* rows[f]: the answer that feature f's requirements come from
  cases,     \* the suite that the test case rows come from
  tasks,     \* tasks[p]: how often the tasks of plan p were created
  drafted,   \* turns whose answer was written to the draft
  crossed,   \* a turn was asked while another was unanswered
  shelved,   \* requests whose result was given up
  removals, faults

requestVars  == <<stage, base, crossed>>
memoryVars   == <<hand, found, fresh, todo, bad>>
artifactVars == <<draft, specs, docs, rows, cases, tasks, drafted>>
consumerVars == <<at, memoryVars>>
vars == <<requestVars, results, consumerVars, artifactVars, shelved,
          removals, faults>>

\* An SRS is the set of the turns whose content it holds; each turn brings one
\* feature.
Srs == SUBSET Turns
Missing == {}

\* What a document is looked up by: its type, and the layer that the title of
\* an architecture document names.
Key == [type : ArchTypes \cup {"srs", "stp", "removed"}, layer : Layers \cup {NoLayer}]

Unlayered(type) == [type |-> type, layer |-> NoLayer]
Removed == Unlayered("removed")

Doc == [key : Key, of : Srs, from : Requests]

Answers == [from : Requests, status : {"clarify", "complete", "answer", "ok"},
            of : Srs]

NoSuite == "no suite"

TypeOK ==
  /\ stage \in [Requests -> {"new", "asking", "refused", "queued", "failed",
                             "answered", "applied"}]
  /\ base \in [Requests -> Srs]
  /\ crossed \in BOOLEAN
  /\ results \subseteq Answers
  /\ at \in [Consumers -> {"idle", "lookup", "write", "clear", "fill", "tasks",
                           "cases", "documents", "save", "addCases", "log", "ack"}]
  /\ \A c \in Consumers : at[c] # "idle" => hand[c] \in Answers
  /\ found \in [Consumers -> SUBSET (1 .. Len(docs))]
  /\ fresh \in [Consumers -> BOOLEAN]
  /\ bad \in [Consumers -> BOOLEAN]
  /\ draft \in Srs
  /\ specs \in Seq(Srs)
  /\ docs \in Seq(Doc)
  /\ rows \in [Turns -> Srs]
  /\ cases \in Suites \cup {NoSuite}
  /\ tasks \in [Plans -> Nat]
  /\ drafted \subseteq Turns
  /\ shelved \subseteq Requests
  /\ removals \in Nat /\ faults \in Nat

Init ==
  /\ stage = [r \in Requests |-> "new"]
  /\ base = [r \in Requests |-> Missing]
  /\ crossed = FALSE
  /\ results = {}
  /\ at = [c \in Consumers |-> "idle"]
  /\ hand = [c \in Consumers |-> <<>>]
  /\ found = [c \in Consumers |-> {}]
  /\ fresh = [c \in Consumers |-> FALSE]
  /\ todo = [c \in Consumers |-> {}]
  /\ bad = [c \in Consumers |-> FALSE]
  /\ draft = Missing
  /\ specs = <<>>
  /\ docs = <<>>
  /\ rows = [f \in Turns |-> Missing]
  /\ cases = NoSuite
  /\ tasks = [p \in Plans |-> 0]
  /\ drafted = {}
  /\ shelved = {}
  /\ removals = 0 /\ faults = 0

Fault == faults < MaxFaults /\ faults' = faults + 1

DocsOf(key) == {i \in 1 .. Len(docs) : docs[i].key = key}

Oldest(S) == {i \in S : \A k \in S : i <= k}

-----------------------------------------------------------------------------
(* Requests and the agent.                                                 *)

LatestSpec == IF specs = <<>> THEN Missing ELSE specs[Len(specs)]

\* Mutant: the draft is ignored.
DraftIgnored == LatestSpec

\* The draft, or the latest specification when the project has no draft.
GetProjectDraftSrs == IF draft # Missing THEN draft ELSE LatestSpec

\* What must exist before a job is queued: a high-level design needs an
\* architecture document, a low-level design a high-level design, of its layer
\* if it names one.
Gate(r) ==
  /\ r \notin Turns => specs # <<>>
  /\ r \in Archs /\ Wanted[r].type = "hld" =>
       \E i \in 1 .. Len(docs) : docs[i].key.type = "sad"
  /\ r \in Archs /\ Wanted[r].type = "lld" =>
       \E i \in 1 .. Len(docs) : /\ docs[i].key.type = "hld"
                                 /\ Wanted[r].layer \in {NoLayer, docs[i].key.layer}

Open(r) == stage[r] \in {"asking", "queued", "answered"}

\* The request checks its gate and reads its snapshot.
Ask(r) ==
  /\ stage[r] = "new"
  /\ LET asked == {q \in Requests : stage[q] # "new"}
     IN Cardinality(asked) < MaxRequests \/ asked \cup {r} \subseteq Together
  /\ Gate(r)
  /\ stage' = [stage EXCEPT ![r] = "asking"]
  /\ base' = [base EXCEPT ![r] = IF r \in Turns THEN GetProjectDraftSrs
                                                ELSE LatestSpec]
  /\ crossed' = (crossed \/ (r \in Turns /\ \E t \in Turns : Open(t)))
  /\ UNCHANGED <<results, consumerVars, artifactVars, shelved, removals, faults>>

Enqueue(r) ==
  /\ stage[r] = "asking"
  /\ stage' = [stage EXCEPT ![r] = "queued"]
  /\ UNCHANGED <<base, crossed, results, consumerVars, artifactVars, shelved,
                 removals, faults>>

EnqueueFails(r) ==
  /\ stage[r] = "asking"
  /\ stage' = [stage EXCEPT ![r] = "refused"]
  /\ Fault
  /\ UNCHANGED <<base, crossed, results, consumerVars, artifactVars, shelved,
                 removals>>

\* A turn may be answered without an SRS, by the developer agent; otherwise the
\* answer carries everything of the snapshot and what the turn adds.
Answer(r) ==
  /\ stage[r] = "queued"
  /\ stage' = [stage EXCEPT ![r] = "answered"]
  /\ \E status \in IF r \in Turns THEN {"clarify", "complete", "answer"} ELSE {"ok"} :
       results' = results \cup
         {[from |-> r, status |-> status,
           of |-> IF r \in Turns THEN base[r] \cup {r} ELSE base[r]]}
  /\ UNCHANGED <<base, crossed, consumerVars, artifactVars, shelved, removals, faults>>

\* The agent gives up; the failed result changes nothing in the project.
AgentFails(r) ==
  /\ stage[r] = "queued"
  /\ stage' = [stage EXCEPT ![r] = "failed"]
  /\ UNCHANGED <<base, crossed, results, consumerVars, artifactVars, shelved,
                 removals, faults>>

-----------------------------------------------------------------------------
(* The result consumer: one database call per step.                        *)

Goto(c, s) == at' = [at EXCEPT ![c] = s]

Keep(c, s) == Goto(c, s) /\ UNCHANGED memoryVars

Step(c, s) == at[c] = s

\* The first call of the handler of answer a; the message of a turn, which is
\* written before, is not part of these artifacts.
FirstStep(a) ==
  CASE a.status = "clarify"  -> "write"
    [] a.status = "complete" -> "lookup"
    [] a.status = "answer"   -> "ack"
    [] a.from \in Plans      -> "tasks"
    [] OTHER                 -> "lookup"

Take(c, a) ==
  /\ Step(c, "idle")
  /\ hand' = [hand EXCEPT ![c] = a]
  /\ todo' = [todo EXCEPT ![c] = IF a.status = "clarify" THEN {"session", "draft"} ELSE {}]
  /\ bad' = [bad EXCEPT ![c] = FALSE]
  /\ Goto(c, FirstStep(a))
  /\ UNCHANGED <<requestVars, results, found, fresh, artifactVars, shelved,
                 removals, faults>>

DocKey(r) ==
  CASE r \in Turns  -> Unlayered("srs")
    [] r \in Suites -> Unlayered("stp")
    [] r \in Archs  -> Wanted[r]

\* Mutant: the lookup goes by the type alone.
FoundByType(r) ==
  LET matching == {i \in 1 .. Len(docs) : docs[i].key.type = DocKey(r).type} IN
  IF r \in Suites \/ matching = {} THEN {matching} ELSE {{i} : i \in matching}

\* Mutant: the lookup leaves out the layer that the creation writes.
FoundUnlayered(r) ==
  LET matching == DocsOf(Unlayered(DocKey(r).type)) IN
  IF r \in Suites \/ matching = {} THEN {matching} ELSE {{i} : i \in matching}

\* What the answer will replace: a completed SRS the oldest one, a suite every
\* test plan, an architecture document any one of its type and layer.
Found(r) ==
  LET matching == DocsOf(DocKey(r)) IN
  CASE r \in Turns  -> {Oldest(matching)}
    [] r \in Suites -> {matching}
    [] r \in Archs  -> IF matching = {} THEN {{}} ELSE {{i} : i \in matching}

Lookup(c) ==
  LET r == hand[c].from
      matching == DocsOf(DocKey(r))
  IN
  /\ Step(c, "lookup")
  /\ \E S \in Found(r) : found' = [found EXCEPT ![c] = S]
  /\ fresh' = [fresh EXCEPT ![c] = (specs = <<>>)]
  /\ todo' = [todo EXCEPT ![c] = IF r \in Turns THEN {"session", "draft", "spec", "doc"}
                                              ELSE {}]
  /\ Goto(c, IF r \in Turns THEN "write" ELSE IF r \in Suites /\ matching # {}
             THEN "cases" ELSE "save")
  /\ UNCHANGED <<requestVars, results, hand, bad, artifactVars, shelved,
                 removals, faults>>

\* Mutant: a document gets the answer's status for its type.
NewDocOfStatus(a) == [key |-> Unlayered(a.status), of |-> a.of, from |-> a.from]

NewDoc(a) == [key |-> DocKey(a.from), of |-> a.of, from |-> a.from]

\* The looked up document may have been removed since: the update throws.
MaySave(c) == \A i \in found[c] : docs[i].key # Removed

SaveDoc(c) ==
  LET a == hand[c] IN
  IF found[c] = {} \/ a.from \in Suites THEN docs' = Append(docs, NewDoc(a))
  ELSE \E i \in found[c] : docs' = [docs EXCEPT ![i] = NewDoc(a)]

SaveSpec(c) ==
  specs' = IF fresh[c] THEN Append(specs, hand[c].of)
           ELSE [specs EXCEPT ![1] = hand[c].of]

SaveDraft(c) ==
  /\ draft' = hand[c].of
  /\ drafted' = drafted \cup {hand[c].from}

\* The writes of Promise.all land in any order.  The session's own copy of the
\* draft is only displayed.
Land(c, w) ==
  /\ Step(c, "write")
  /\ w \in todo[c]
  /\ todo' = [todo EXCEPT ![c] = @ \ {w}]
  /\ \/ w = "session" /\ UNCHANGED artifactVars
     \/ w = "draft" /\ SaveDraft(c) /\ UNCHANGED <<specs, docs, rows, cases, tasks>>
     \/ w = "spec" /\ SaveSpec(c) /\ UNCHANGED <<draft, docs, rows, cases, tasks, drafted>>
     \/ /\ w = "doc" /\ MaySave(c) /\ SaveDoc(c)
        /\ UNCHANGED <<draft, specs, rows, cases, tasks, drafted>>
  /\ UNCHANGED <<requestVars, results, at, hand, found, fresh, bad, shelved,
                 removals, faults>>

\* Promise.all rejects at once; the writes still running are taken to end
\* before the consumer handles its next result.
LandFails(c, w) ==
  /\ Step(c, "write")
  /\ w \in todo[c]
  /\ todo' = [todo EXCEPT ![c] = @ \ {w}]
  /\ bad' = [bad EXCEPT ![c] = TRUE]
  /\ \/ w = "doc" /\ ~MaySave(c) /\ UNCHANGED faults
     \/ Fault
  /\ UNCHANGED <<requestVars, results, at, hand, found, fresh, artifactVars,
                 shelved, removals>>

AllLanded(c) ==
  /\ Step(c, "write")
  /\ todo[c] = {}
  /\ ~bad[c]
  /\ LET complete == hand[c].status = "complete" IN
     /\ Goto(c, IF complete THEN "clear" ELSE "ack")
     /\ todo' = [todo EXCEPT ![c] = IF complete THEN hand[c].of ELSE {}]
  /\ UNCHANGED <<requestVars, results, hand, found, fresh, bad, artifactVars,
                 shelved, removals, faults>>

\* Mutant: the old requirements of a feature are not removed.
ClearNothing(c) ==
  /\ Step(c, "clear")
  /\ Keep(c, "fill")
  /\ UNCHANGED <<requestVars, results, artifactVars, shelved, removals, faults>>

\* decomposeFeatures, one feature at a time: its row and the removal of its old
\* requirements, then the new requirements.
Clear(c) ==
  /\ Step(c, "clear")
  /\ LET f == CHOOSE f \in todo[c] : TRUE IN rows' = [rows EXCEPT ![f] = Missing]
  /\ Keep(c, "fill")
  /\ UNCHANGED <<requestVars, results, draft, specs, docs, cases, tasks, drafted,
                 shelved, removals, faults>>

\* skipDuplicates: rows that another process has just written stay.
Fill(c) ==
  /\ Step(c, "fill")
  /\ LET f == CHOOSE f \in todo[c] : TRUE IN
     /\ rows' = [rows EXCEPT ![f] = IF @ = Missing THEN hand[c].of ELSE @]
     /\ todo' = [todo EXCEPT ![c] = @ \ {f}]
     /\ Goto(c, IF todo[c] = {f} THEN "ack" ELSE "clear")
  /\ UNCHANGED <<requestVars, results, hand, found, fresh, bad, draft, specs,
                 docs, cases, tasks, drafted, shelved, removals, faults>>

CreateTasks(c) ==
  /\ Step(c, "tasks")
  /\ tasks' = [tasks EXCEPT ![hand[c].from] = @ + 1]
  /\ Keep(c, "log")
  /\ UNCHANGED <<requestVars, results, draft, specs, docs, rows, cases, drafted,
                 shelved, removals, faults>>

\* Mutant: the old test cases are not removed.
DeleteNoCases(c) ==
  /\ Step(c, "cases")
  /\ Keep(c, "documents")
  /\ UNCHANGED <<requestVars, results, artifactVars, shelved, removals, faults>>

DeleteCases(c) ==
  /\ Step(c, "cases")
  /\ cases' = NoSuite
  /\ Keep(c, "documents")
  /\ UNCHANGED <<requestVars, results, draft, specs, docs, rows, tasks, drafted,
                 shelved, removals, faults>>

DeleteDocs(c) ==
  /\ Step(c, "documents")
  /\ docs' = [i \in 1 .. Len(docs) |->
                IF i \in found[c] THEN [docs[i] EXCEPT !.key = Removed] ELSE docs[i]]
  /\ Keep(c, "save")
  /\ UNCHANGED <<requestVars, results, draft, specs, rows, cases, tasks, drafted,
                 shelved, removals, faults>>

Save(c) ==
  /\ Step(c, "save")
  /\ hand[c].from \in Suites \/ MaySave(c)
  /\ SaveDoc(c)
  /\ Keep(c, IF hand[c].from \in Suites THEN "addCases" ELSE "ack")
  /\ UNCHANGED <<requestVars, results, draft, specs, rows, cases, tasks, drafted,
                 shelved, removals, faults>>

\* The suite that the test case rows of suite q name.
CasesOf(q) == IF q \in Bare THEN NoSuite ELSE q

\* skipDuplicates: the suites number their cases alike, so rows that are still
\* there stay.
CreateCases(c) ==
  /\ Step(c, "addCases")
  /\ cases' = IF cases = NoSuite THEN CasesOf(hand[c].from) ELSE cases
  /\ Keep(c, "log")
  /\ UNCHANGED <<requestVars, results, draft, specs, docs, rows, tasks, drafted,
                 shelved, removals, faults>>

\* The entry in the project's activity.
LogActivity(c) ==
  /\ Step(c, "log")
  /\ Keep(c, "ack")
  /\ UNCHANGED <<requestVars, results, artifactVars, shelved, removals, faults>>

Drop(c) ==
  /\ Goto(c, "idle")
  /\ hand' = [hand EXCEPT ![c] = <<>>]
  /\ found' = [found EXCEPT ![c] = {}]
  /\ fresh' = [fresh EXCEPT ![c] = FALSE]
  /\ todo' = [todo EXCEPT ![c] = {}]
  /\ bad' = [bad EXCEPT ![c] = FALSE]

\* Mutant: the entry of a handled result is not acknowledged.
AckNothing(c) ==
  /\ Step(c, "ack")
  /\ Drop(c)
  /\ UNCHANGED <<requestVars, results, artifactVars, shelved, removals, faults>>

Ack(c) ==
  /\ Step(c, "ack")
  /\ results' = results \ {hand[c]}
  /\ stage' = [stage EXCEPT ![hand[c].from] = "applied"]
  /\ Drop(c)
  /\ UNCHANGED <<base, crossed, artifactVars, shelved, removals, faults>>

\* The result is handled again later, or shelved; JobPipeline counts the
\* attempts.
GiveUp(c) ==
  /\ Drop(c)
  /\ \/ /\ results' = results \cup {hand[c]}
        /\ stage' = [stage EXCEPT ![hand[c].from] = "answered"]
        /\ UNCHANGED shelved
     \/ /\ results' = results \ {hand[c]}
        /\ stage' = [stage EXCEPT ![hand[c].from] = "failed"]
        /\ shelved' = shelved \cup {hand[c].from}

\* A handler ends with an error that no fault of its own step caused.
HandlerThrows(c) ==
  /\ \/ Step(c, "write") /\ todo[c] = {} /\ bad[c]
     \/ Step(c, "save") /\ hand[c].from \notin Suites /\ ~MaySave(c)
  /\ GiveUp(c)
  /\ UNCHANGED <<base, crossed, artifactVars, removals, faults>>

\* A database call or the acknowledgement fails, or the process crashes.
Interrupted(c) ==
  /\ at[c] # "idle"
  /\ GiveUp(c)
  /\ Fault
  /\ UNCHANGED <<base, crossed, artifactVars, removals>>

-----------------------------------------------------------------------------
\* A user removes a document.
Remove(i) ==
  /\ docs[i].key # Removed
  /\ removals < MaxRemovals
  /\ removals' = removals + 1
  /\ docs' = [docs EXCEPT ![i].key = Removed]
  /\ UNCHANGED <<requestVars, results, consumerVars, draft, specs, rows, cases,
                 tasks, drafted, shelved, faults>>

ConsumerStep(c) ==
  \/ \E a \in results : Take(c, a)
  \/ Lookup(c)
  \/ \E w \in todo[c] : Land(c, w)
  \/ AllLanded(c) \/ Clear(c) \/ Fill(c)
  \/ CreateTasks(c) \/ DeleteCases(c) \/ DeleteDocs(c) \/ Save(c)
  \/ CreateCases(c) \/ LogActivity(c) \/ Ack(c) \/ HandlerThrows(c)

Next ==
  \/ \E r \in Requests :
       Ask(r) \/ Enqueue(r) \/ EnqueueFails(r) \/ Answer(r) \/ AgentFails(r)
  \/ \E c \in Consumers :
       \/ ConsumerStep(c)
       \/ \E w \in todo[c] : LandFails(c, w)
       \/ Interrupted(c)
  \/ \E i \in 1 .. Len(docs) : Remove(i)

Spec == Init /\ [][Next]_vars

-----------------------------------------------------------------------------
(* Properties.                                                             *)

\* No answer is being handled or waits to be.
Quiet == results = {} /\ \A c \in Consumers : at[c] = "idle"

(***************************************************************************)
(* The completed SRS is kept in four places that are written one after the *)
(* other.  Once nothing is being handled the specification, its document   *)
(* (unless a user removed it) and the requirements of its features come    *)
(* from the same answer, after any failure that was retried and whatever   *)
(* the order of the answers.                                               *)
(***************************************************************************)
ArtifactsAgree ==
  Quiet /\ shelved = {} /\ specs # <<>> =>
    /\ \A i \in DocsOf(Unlayered("srs")) : docs[i].of = LatestSpec
    /\ \A f \in LatestSpec : rows[f] = LatestSpec

(***************************************************************************)
(* "We upsert rather than accumulate", "One doc per (project, docType,     *)
(* layer) combination", "so we never accumulate duplicates": with one API  *)
(* process there is one specification, and one document of each type and   *)
(* layer, whatever is repeated, interrupted or removed.                    *)
(***************************************************************************)
OneOfEach ==
  /\ Len(specs) <= 1
  /\ \A i, k \in 1 .. Len(docs) :
       docs[i].key = docs[k].key /\ i # k => docs[i].key = Removed

(***************************************************************************)
(* Every architecture document that was generated is there until a user    *)
(* removes it, replaced at most by a later one of its type and layer:      *)
(* interrupted and repeated handlers write over no other document.         *)
(***************************************************************************)
LayersApart ==
  removals = 0 =>
    \A r \in Archs : stage[r] = "applied" => DocsOf(Wanted[r]) # {}

(***************************************************************************)
(* The tasks of a plan are created twice only after a fault: the creation  *)
(* is a transaction, but a failure after it repeats the whole handler.     *)
(***************************************************************************)
PlanRepeatsNeedFaults == \A p \in Plans : tasks[p] <= 1 + faults

(***************************************************************************)
(* As long as a turn is asked only when every earlier turn has been        *)
(* answered, what a turn brought to the draft stays there: later turns,    *)
(* repeated results and failed writes drop nothing.                        *)
(***************************************************************************)
SequentialTurnsKept == ~crossed => drafted \subseteq draft

(***************************************************************************)
(* "Every turn updates it.  [...]  Any team member can continue a session  *)
(* from where another left off": what a turn brought to the shared draft   *)
(* stays there, also when two sessions are active.                         *)
(***************************************************************************)
TurnsKept == drafted \subseteq draft

(***************************************************************************)
(* The test cases that the MCP server reads belong to the test plan that   *)
(* the users read, once nothing is being handled, unless a test plan was   *)
(* removed by a user: its cases stay, and keep out those of the next one.  *)
(***************************************************************************)
CasesOfTestPlan ==
  Quiet /\ shelved = {} /\ removals = 0 =>
    \A i \in DocsOf(Unlayered("stp")) : cases = CasesOf(docs[i].from)
=============================================================================
