-------------------------- MODULE ArtifactsProofs --------------------------
(***************************************************************************)
(* Theorems about ProjectArtifacts: the types, for any number of API       *)
(* processes, and, with one of them, what requests, repeated results and   *)
(* failed writes leave of a project.                                       *)
(***************************************************************************)
EXTENDS ProjectArtifacts, FiniteSetTheorems, SequenceTheorems, TLAPS

Stages == {"new", "asking", "refused", "queued", "failed", "answered", "applied"}
Places == {"idle", "lookup", "write", "clear", "fill", "tasks", "cases", "documents",
           "save", "addCases", "log", "ack"}
Writes == {"session", "draft", "spec", "doc"}

\* An answer to a turn has a status of its own and brings the turn's feature.
Proper(a) ==
  /\ a \in Answers
  /\ a.from \in Turns => a.status # "ok" /\ a.from \in a.of
  /\ a.from \notin Turns => a.status = "ok"

\* A consumer is where the handler of its answer can be.
Fits(c) ==
  /\ at[c] # "idle" => Proper(hand[c])
  /\ at[c] = "write" =>
       /\ hand[c].status \in {"clarify", "complete"}
       /\ todo[c] \subseteq IF hand[c].status = "complete" THEN Writes
                            ELSE {"session", "draft"}
  /\ at[c] = "lookup" => hand[c].status \in {"complete", "ok"} /\ hand[c].from \notin Plans
  /\ at[c] \in {"clear", "fill"} =>
       hand[c].status = "complete" /\ todo[c] \subseteq hand[c].of /\ todo[c] # {}
  /\ at[c] = "tasks" => hand[c].from \in Plans
  /\ at[c] \in {"cases", "documents", "addCases"} => hand[c].from \in Suites
  /\ at[c] = "save" => hand[c].from \in Suites \cup Archs
  /\ at[c] = "log" => hand[c].from \in Plans \cup Suites

TypeInv ==
  /\ TypeOK
  /\ hand \in [Consumers -> Answers \cup {<<>>}]
  /\ todo \in [Consumers -> SUBSET (Turns \cup Writes)]
  /\ \A a \in results : Proper(a)
  /\ \A c \in Consumers : Fits(c)

-----------------------------------------------------------------------------
(* Types.                                                                  *)

\* What consumer c holds.
LEMMA HandFacts ==
  ASSUME TypeInv, ArtifactsAssumption, NEW c \in Consumers, at[c] # "idle"
  PROVE  /\ Proper(hand[c]) /\ hand[c].from \in Requests /\ hand[c].of \in Srs
         /\ hand[c].status \in {"clarify", "complete", "answer", "ok"}
         /\ hand[c].status # "ok" <=> hand[c].from \in Turns
BY DEF TypeInv, Fits, Proper, Answers

\* The kinds of requests differ.
LEMMA Kinds ==
  ASSUME ArtifactsAssumption, NEW r \in Requests
  PROVE  /\ r \in Turns => r \notin Plans /\ r \notin Suites /\ r \notin Archs
         /\ r \in Plans => r \notin Suites /\ r \notin Archs
         /\ r \in Suites => r \notin Archs
BY DEF ArtifactsAssumption, Requests

\* The keys of documents that are still there.
Keys == Key \ {Removed}

\* Every artifact with a document has a key; those of turns and suites are
\* their own.
LEMMA DocKeys ==
  ASSUME ArtifactsAssumption, NEW r \in Requests, r \notin Plans
  PROVE  /\ DocKey(r) \in Keys
         /\ r \in Turns <=> DocKey(r) = Unlayered("srs")
         /\ r \in Suites <=> DocKey(r) = Unlayered("stp")
<1>1. \A type \in {"srs", "stp", "removed"} : Unlayered(type) \in Key /\ Unlayered(type).type = type
  BY DEF Unlayered, Key
<1>2. CASE r \in Turns
  BY <1>1, <1>2, Kinds DEF DocKey, Keys, Removed
<1>3. CASE r \in Suites
  BY <1>1, <1>3, Kinds DEF DocKey, Keys, Removed
<1>4. CASE r \in Archs
  <2>1. Wanted[r] \in Key /\ Wanted[r].type \in ArchTypes
    BY <1>4 DEF ArtifactsAssumption, Key
  <2>2. Wanted[r].type \notin {"srs", "stp", "removed"}
    BY <2>1 DEF ArchTypes
  <2>3. DocKey(r) = Wanted[r] /\ r \notin Turns /\ r \notin Suites
    BY <1>4, Kinds DEF DocKey
  <2> QED
    BY <1>1, <2>1, <2>2, <2>3 DEF Keys, Removed
<1> QED
  BY <1>2, <1>3, <1>4 DEF Requests

\* Removed documents have a key as well, which is no other document's.
LEMMA RemovedKey ==
  /\ Removed \in Key /\ Unlayered("srs") \in Key /\ Unlayered("stp") \in Key
  /\ Removed # Unlayered("srs") /\ Removed # Unlayered("stp")
<1>1. Removed.type = "removed" /\ Unlayered("srs").type = "srs" /\ Unlayered("stp").type = "stp"
  BY DEF Removed, Unlayered
<1> QED
  BY <1>1 DEF Removed, Unlayered, Key

\* The latest specification, and the draft, are sets of turns.
LEMMA SnapshotTypes ==
  ASSUME TypeOK
  PROVE  LatestSpec \in Srs /\ GetProjectDraftSrs \in Srs
<1>1. LatestSpec \in Srs
  BY DEF TypeOK, LatestSpec, Missing, Srs
<1> QED
  BY <1>1 DEF TypeOK, GetProjectDraftSrs

\* Requests keep the types.
LEMMA RequestTypes ==
  ASSUME TypeInv, NEW r \in Requests,
         Ask(r) \/ Enqueue(r) \/ EnqueueFails(r) \/ Answer(r) \/ AgentFails(r)
  PROVE  TypeInv'
<1> USE DEF consumerVars, memoryVars, artifactVars
<1>0. TypeOK
  BY DEF TypeInv
<1>1. /\ UNCHANGED consumerVars /\ UNCHANGED artifactVars /\ UNCHANGED <<shelved, removals>>
  BY DEF Ask, Enqueue, EnqueueFails, Answer, AgentFails
<1>2. stage' \in [Requests -> Stages] /\ base' \in [Requests -> Srs] /\ crossed' \in BOOLEAN
  <2>1. stage \in [Requests -> Stages] /\ base \in [Requests -> Srs] /\ crossed \in BOOLEAN
    BY <1>0 DEF TypeOK, Stages
  <2>2. CASE Ask(r)
    <3> DEFINE s == IF r \in Turns THEN GetProjectDraftSrs ELSE LatestSpec
    <3>1. s \in Srs
      BY <1>0, SnapshotTypes
    <3>2. stage' = [stage EXCEPT ![r] = "asking"] /\ base' = [base EXCEPT ![r] = s]
      BY <2>2 DEF Ask
    <3>3. crossed' \in BOOLEAN
      BY <2>1, <2>2 DEF Ask
    <3> HIDE DEF s
    <3> QED
      BY <2>1, <3>1, <3>2, <3>3 DEF Stages
  <2>3. CASE ~Ask(r)
    BY <2>1, <2>3 DEF Enqueue, EnqueueFails, Answer, AgentFails, Stages
  <2> QED
    BY <2>2, <2>3
<1>3. results' \subseteq Answers /\ \A a \in results' : Proper(a)
  <2>1. CASE Answer(r)
    <3>1. PICK status \in IF r \in Turns THEN {"clarify", "complete", "answer"} ELSE {"ok"} :
             results' = results \cup
               {[from |-> r, status |-> status,
                 of |-> IF r \in Turns THEN base[r] \cup {r} ELSE base[r]]}
      BY <2>1 DEF Answer
    <3> DEFINE a == [from |-> r, status |-> status,
                     of |-> IF r \in Turns THEN base[r] \cup {r} ELSE base[r]]
    <3>2. base[r] \in Srs /\ (r \in Turns => base[r] \cup {r} \in Srs)
      BY <1>0 DEF TypeOK, Srs
    <3>3. a \in Answers
      BY <3>2 DEF Answers
    <3>4. Proper(a)
      BY <3>3 DEF Proper
    <3> QED
      BY <3>1, <3>3, <3>4 DEF TypeInv, TypeOK
  <2>2. CASE ~Answer(r)
    BY <2>2 DEF Ask, Enqueue, EnqueueFails, AgentFails, TypeInv, TypeOK
  <2> QED
    BY <2>1, <2>2
<1>4. faults' \in Nat
  BY <1>0 DEF TypeOK, Ask, Enqueue, EnqueueFails, Answer, AgentFails, Fault
<1>5. \A c \in Consumers : Fits(c)'
  BY <1>1 DEF TypeInv, Fits
<1>6. TypeOK'
  BY <1>0, <1>1, <1>2, <1>3, <1>4 DEF TypeOK, Stages
<1> QED
  BY <1>1, <1>3, <1>5, <1>6 DEF TypeInv

\* The handlers write or replace one document, and remove others by their type.
LEMMA NewDocKey ==
  ASSUME TypeInv, ArtifactsAssumption, NEW c \in Consumers, at[c] # "idle",
         hand[c].from \notin Plans
  PROVE  /\ NewDoc(hand[c]) \in Doc /\ NewDoc(hand[c]).key = DocKey(hand[c].from)
         /\ NewDoc(hand[c]).of = hand[c].of /\ NewDoc(hand[c]).from = hand[c].from
<1>1. hand[c].from \in Requests /\ hand[c].of \in Srs
  BY HandFacts
<1>2. DocKey(hand[c].from) \in Keys
  BY <1>1, DocKeys
<1> QED
  BY <1>1, <1>2 DEF NewDoc, Doc, Keys

Added(c) ==
  /\ Len(docs') = Len(docs) + 1 /\ docs'[Len(docs) + 1] = NewDoc(hand[c])
  /\ \A k \in 1 .. Len(docs) : docs'[k] = docs[k]

Replaced(c, i) ==
  /\ Len(docs') = Len(docs) /\ docs'[i] = NewDoc(hand[c])
  /\ \A k \in 1 .. Len(docs) : k # i => docs'[k] = docs[k]

LEMMA SaveDocFacts ==
  ASSUME TypeInv, ArtifactsAssumption, NEW c \in Consumers, at[c] # "idle",
         hand[c].from \notin Plans, SaveDoc(c)
  PROVE  /\ docs' \in Seq(Doc) /\ Len(docs) \in Nat /\ Len(docs') >= Len(docs)
         /\ \/ (found[c] = {} \/ hand[c].from \in Suites) /\ Added(c)
            \/ /\ hand[c].from \notin Suites
               /\ \E i \in found[c] : i \in 1 .. Len(docs) /\ Replaced(c, i)
<1> DEFINE new == NewDoc(hand[c])
<1>1. new \in Doc
  BY NewDocKey
<1>2. docs \in Seq(Doc) /\ found[c] \subseteq 1 .. Len(docs) /\ Len(docs) \in Nat
  BY DEF TypeInv, TypeOK
<1>3. CASE found[c] = {} \/ hand[c].from \in Suites
  <2>1. docs' = Append(docs, new)
    BY <1>3 DEF SaveDoc
  <2> HIDE DEF new
  <2>2. /\ docs' \in Seq(Doc) /\ Len(docs') = Len(docs) + 1 /\ docs'[Len(docs) + 1] = new
        /\ \A k \in 1 .. Len(docs) : docs'[k] = docs[k]
    BY <1>1, <1>2, <2>1, AppendProperties
  <2> USE DEF new
  <2> QED
    BY <1>2, <1>3, <2>2 DEF Added
<1>4. CASE ~(found[c] = {} \/ hand[c].from \in Suites)
  <2>1. PICK i \in found[c] : docs' = [docs EXCEPT ![i] = new]
    BY <1>4 DEF SaveDoc
  <2>2. i \in 1 .. Len(docs)
    BY <1>2
  <2> HIDE DEF new
  <2>3. /\ docs' \in Seq(Doc) /\ Len(docs') = Len(docs) /\ docs'[i] = new
        /\ \A k \in 1 .. Len(docs) : k # i => docs'[k] = docs[k]
    BY <1>1, <1>2, <2>1, <2>2, ExceptSeq
  <2> USE DEF new
  <2> QED
    BY <1>2, <1>4, <2>2, <2>3 DEF Replaced
<1> QED
  BY <1>3, <1>4

\* The specification is written or replaced.
LEMMA SaveSpecFacts ==
  ASSUME TypeInv, ArtifactsAssumption, NEW c \in Consumers, at[c] # "idle", SaveSpec(c)
  PROVE  /\ specs' \in Seq(Srs)
         /\ fresh[c] /\ specs = <<>> => specs' = <<hand[c].of>>
         /\ ~fresh[c] /\ Len(specs) = 1 => specs' = <<hand[c].of>>
<1> DEFINE x == hand[c].of
<1>1. x \in Srs /\ specs \in Seq(Srs)
  BY HandFacts DEF TypeInv, TypeOK
<1>2. specs' = IF fresh[c] THEN Append(specs, x) ELSE [specs EXCEPT ![1] = x]
  BY DEF SaveSpec
<1> HIDE DEF x
<1> SUFFICES /\ specs' \in Seq(Srs)
             /\ fresh[c] /\ specs = <<>> => specs' = <<x>>
             /\ ~fresh[c] /\ Len(specs) = 1 => specs' = <<x>>
  BY DEF x
<1>a. <<x>> \in Seq(Srs) /\ Len(<<x>>) = 1 /\ <<x>>[1] = x
  BY <1>1
<1>3. CASE fresh[c]
  <2>1. /\ Append(specs, x) \in Seq(Srs) /\ Len(Append(specs, x)) = Len(specs) + 1
        /\ Append(specs, x)[Len(specs) + 1] = x
    BY <1>1, AppendProperties
  <2>2. CASE specs = <<>>
    <3> DEFINE s == Append(specs, x)
    <3>1. s \in Seq(Srs) /\ Len(s) = 1 /\ s[1] = x
      BY <2>1, <2>2
    <3>2. specs' = s
      BY <1>2, <1>3
    <3> HIDE DEF s
    <3>3. s = <<x>>
      BY <1>a, <3>1, SeqEqual
    <3> QED
      BY <1>3, <3>1, <3>2, <3>3
  <2> QED
    BY <1>2, <1>3, <2>1, <2>2
<1>4. CASE ~fresh[c]
  <2>1. specs' = [specs EXCEPT ![1] = x] /\ Len(specs) \in Nat
    BY <1>1, <1>2, <1>4
  <2>2. CASE 1 \in 1 .. Len(specs)
    <3>1. specs' \in Seq(Srs) /\ Len(specs') = Len(specs) /\ specs'[1] = x
      BY <1>1, <2>1, <2>2, ExceptSeq
    <3>2. Len(specs) = 1 => specs' = <<x>>
      BY <1>a, <3>1, SeqEqual
    <3> QED
      BY <1>4, <3>1, <3>2
  <2>3. CASE 1 \notin 1 .. Len(specs)
    <3>1. Len(specs) = 0 /\ DOMAIN specs = 1 .. 0
      BY <1>1, <2>1, <2>3
    <3>2. specs' = specs
      BY <1>1, <2>1, <3>1
    <3> QED
      BY <1>1, <1>4, <3>1, <3>2
  <2> QED
    BY <2>2, <2>3
<1> QED
  BY <1>3, <1>4

\* What a step of consumer c leaves of the other consumers.
Alone(c) ==
  \A d \in Consumers : d # c =>
    /\ at'[d] = at[d] /\ hand'[d] = hand[d] /\ todo'[d] = todo[d]
    /\ found'[d] = found[d] /\ fresh'[d] = fresh[d] /\ bad'[d] = bad[d]

\* The variables of the consumers have their types.
ConsumerTypes ==
  /\ at \in [Consumers -> Places]
  /\ hand \in [Consumers -> Answers \cup {<<>>}]
  /\ todo \in [Consumers -> SUBSET (Turns \cup Writes)]
  /\ found \in [Consumers -> SUBSET (1 .. Len(docs))]
  /\ fresh \in [Consumers -> BOOLEAN] /\ bad \in [Consumers -> BOOLEAN]

LEMMA ConsumerTypesHold ==
  ASSUME TypeInv
  PROVE  ConsumerTypes
BY DEF TypeInv, TypeOK, ConsumerTypes, Places

\* The variables of the project have their types.
ArtifactTypes ==
  /\ draft \in Srs /\ specs \in Seq(Srs) /\ docs \in Seq(Doc)
  /\ rows \in [Turns -> Srs] /\ cases \in Suites \cup {NoSuite}
  /\ tasks \in [Plans -> Nat] /\ drafted \subseteq Turns

RequestTypesOK ==
  /\ stage \in [Requests -> Stages] /\ base \in [Requests -> Srs] /\ crossed \in BOOLEAN
  /\ shelved \subseteq Requests /\ removals \in Nat /\ faults \in Nat
  /\ results \subseteq Answers /\ \A a \in results : Proper(a)

LEMMA PartsMakeTypes ==
  ASSUME TypeInv, NEW c \in Consumers, Alone(c), Fits(c)',
         ConsumerTypes', ArtifactTypes', RequestTypesOK'
  PROVE  TypeInv'
<1>1. \A d \in Consumers : Fits(d)'
  BY DEF TypeInv, Alone, Fits
<1>2. \A d \in Consumers : at'[d] # "idle" => hand'[d] \in Answers
  BY <1>1 DEF Fits, Proper
<1> QED
  BY <1>1, <1>2 DEF TypeInv, TypeOK, ConsumerTypes, ArtifactTypes, RequestTypesOK, Places, Stages

LEMMA PartsBefore ==
  ASSUME TypeInv
  PROVE  ConsumerTypes /\ ArtifactTypes /\ RequestTypesOK
BY DEF TypeInv, TypeOK, ConsumerTypes, ArtifactTypes, RequestTypesOK, Places, Stages

\* A consumer that stays at its answer.
LEMMA GotoFacts ==
  ASSUME TypeInv, NEW c \in Consumers, NEW s \in Places, Goto(c, s)
  PROVE  at' \in [Consumers -> Places] /\ at'[c] = s /\ \A d \in Consumers : d # c => at'[d] = at[d]
BY ConsumerTypesHold DEF ConsumerTypes, Goto

LEMMA KeepFacts ==
  ASSUME TypeInv, NEW c \in Consumers, NEW s \in Places, Keep(c, s), Len(docs') >= Len(docs),
         Len(docs') \in Nat
  PROVE  /\ Alone(c) /\ at'[c] = s /\ ConsumerTypes'
         /\ UNCHANGED <<hand, found, fresh, todo, bad>>
<1>1. UNCHANGED <<hand, found, fresh, todo, bad>>
  BY DEF Keep, memoryVars
<1>2. Goto(c, s)
  BY DEF Keep
<1>3. Len(docs) \in Nat
  BY DEF TypeInv, TypeOK
<1>4. found' \in [Consumers -> SUBSET (1 .. Len(docs'))]
  BY <1>1, <1>3, ConsumerTypesHold DEF ConsumerTypes
<1> QED
  BY <1>1, <1>2, <1>4, GotoFacts, ConsumerTypesHold DEF ConsumerTypes, Alone

\* A consumer that lets go of its answer.
LEMMA DropFacts ==
  ASSUME TypeInv, NEW c \in Consumers, Drop(c), docs' = docs
  PROVE  Alone(c) /\ at'[c] = "idle" /\ ConsumerTypes' /\ Fits(c)'
<1>1. ConsumerTypes
  BY ConsumerTypesHold
<1>2. at'[c] = "idle" /\ at' = [at EXCEPT ![c] = "idle"]
  BY <1>1 DEF ConsumerTypes, Drop, Goto
<1>3. Alone(c)
  BY <1>1 DEF ConsumerTypes, Drop, Goto, Alone
<1>4. ConsumerTypes'
  BY <1>1 DEF ConsumerTypes, Drop, Goto, Places
<1> QED
  BY <1>2, <1>3, <1>4 DEF Fits

\* Taking an answer.
LEMMA TakeTypes ==
  ASSUME TypeInv, ArtifactsAssumption, NEW c \in Consumers, NEW a \in results, Take(c, a)
  PROVE  /\ TypeInv' /\ Alone(c) /\ at'[c] = FirstStep(a) /\ hand'[c] = a
         /\ at'[c] \in {"write", "lookup", "ack", "tasks"} /\ todo'[c] \subseteq {"session", "draft"}
         /\ at'[c] = "write" => a.status = "clarify"
         /\ at'[c] = "ack" => a.status = "answer"
<1> USE DEF requestVars, artifactVars
<1>1. ConsumerTypes /\ ArtifactTypes /\ RequestTypesOK
  BY PartsBefore
<1>2. Proper(a) /\ a \in Answers /\ a.from \in Requests
  BY DEF TypeInv, Proper, Answers
<1>3. /\ FirstStep(a) \in {"write", "lookup", "ack", "tasks"}
      /\ FirstStep(a) = "write" => a.status = "clarify"
      /\ FirstStep(a) = "lookup" => a.status \in {"complete", "ok"} /\ a.from \notin Plans
      /\ FirstStep(a) = "tasks" => a.from \in Plans
      /\ FirstStep(a) = "ack" => a.status = "answer"
  <2>1. a.status \in {"clarify", "complete", "answer", "ok"}
    BY <1>2 DEF Answers
  <2>2. a.status = "clarify" => FirstStep(a) = "write"
    BY <1>2, Kinds DEF FirstStep, Proper
  <2>3. a.status = "complete" => FirstStep(a) = "lookup" /\ a.from \notin Plans
    BY <1>2, Kinds DEF FirstStep, Proper
  <2>4. a.status = "answer" => FirstStep(a) = "ack"
    BY <1>2, Kinds DEF FirstStep, Proper
  <2>5. a.status = "ok" => IF a.from \in Plans THEN FirstStep(a) = "tasks"
                           ELSE FirstStep(a) = "lookup"
    BY DEF FirstStep
  <2> QED
    BY <2>1, <2>2, <2>3, <2>4, <2>5
<1> DEFINE s == FirstStep(a)
           t == IF a.status = "clarify" THEN {"session", "draft"} ELSE {}
<1>4. /\ at' = [at EXCEPT ![c] = s] /\ hand' = [hand EXCEPT ![c] = a]
      /\ todo' = [todo EXCEPT ![c] = t] /\ bad' = [bad EXCEPT ![c] = FALSE]
      /\ UNCHANGED <<found, fresh, docs>>
  BY DEF Take, Goto
<1>5. t \in SUBSET (Turns \cup Writes) /\ s \in Places
  BY <1>3 DEF Writes, Places
<1>5a. t \subseteq {"session", "draft"}
  OBVIOUS
<1> HIDE DEF s, t
<1>6. Alone(c) /\ ConsumerTypes' /\ at'[c] = s /\ hand'[c] = a /\ todo'[c] = t
  BY <1>1, <1>2, <1>4, <1>5 DEF Alone, ConsumerTypes
<1>7. Fits(c)'
  BY <1>2, <1>3, <1>5a, <1>6 DEF Fits, s
<1>8. ArtifactTypes' /\ RequestTypesOK'
  BY <1>1 DEF Take, ArtifactTypes, RequestTypesOK
<1>9. TypeInv'
  BY <1>6, <1>7, <1>8, PartsMakeTypes
<1> QED
  BY <1>3, <1>5a, <1>6, <1>9 DEF s

\* Looking up what the answer will replace.
LEMMA FoundFacts ==
  ASSUME ArtifactsAssumption, NEW r \in Requests, r \notin Plans, NEW S \in Found(r)
  PROVE  /\ S \subseteq DocsOf(DocKey(r))
         /\ \/ S = DocsOf(DocKey(r)) \/ S = Oldest(DocsOf(DocKey(r)))
            \/ r \notin Suites /\ \E i \in DocsOf(DocKey(r)) : S = {i}
<1> DEFINE matching == DocsOf(DocKey(r))
<1>1. Oldest(matching) \subseteq matching
  BY DEF Oldest
<1> HIDE DEF matching
<1>2. CASE r \in Turns
  <2>1. S = Oldest(matching)
    BY <1>2, Kinds DEF Found, matching
  <2> QED
    BY <1>1, <2>1 DEF matching
<1>3. CASE r \in Suites
  <2>1. S = matching
    BY <1>3, Kinds DEF Found, matching
  <2> QED
    BY <2>1 DEF matching
<1>4. CASE r \in Archs
  <2>1. S \in IF matching = {} THEN {{}} ELSE {{i} : i \in matching}
    BY <1>4, Kinds DEF Found, matching
  <2>2. r \notin Suites
    BY <1>4, Kinds
  <2> QED
    BY <2>1, <2>2 DEF matching
<1> QED
  BY <1>2, <1>3, <1>4 DEF Requests

LEMMA LookupTypes ==
  ASSUME TypeInv, ArtifactsAssumption, NEW c \in Consumers, Lookup(c)
  PROVE  TypeInv' /\ Alone(c) /\ hand'[c] = hand[c]
         /\ LET r == hand[c].from
                matching == DocsOf(DocKey(r))
            IN  /\ found'[c] \in Found(r)
                /\ fresh'[c] = (specs = <<>>)
                /\ at'[c] = IF r \in Turns THEN "write"
                            ELSE IF r \in Suites /\ matching # {} THEN "cases" ELSE "save"
                /\ todo'[c] = IF r \in Turns THEN {"session", "draft", "spec", "doc"} ELSE {}
<1> USE DEF requestVars, artifactVars
<1>1. ConsumerTypes /\ ArtifactTypes /\ RequestTypesOK
  BY PartsBefore
<1> DEFINE r == hand[c].from
           matching == DocsOf(DocKey(r))
           n == (specs = <<>>)
           t == IF r \in Turns THEN {"session", "draft", "spec", "doc"} ELSE {}
           s == IF r \in Turns THEN "write" ELSE IF r \in Suites /\ matching # {}
                THEN "cases" ELSE "save"
<1>0. PICK f \in Found(r) : found' = [found EXCEPT ![c] = f]
  BY DEF Lookup
<1>2. /\ at' = [at EXCEPT ![c] = s] /\ found' = [found EXCEPT ![c] = f]
      /\ fresh' = [fresh EXCEPT ![c] = n] /\ todo' = [todo EXCEPT ![c] = t]
      /\ UNCHANGED <<hand, bad, docs>>
  BY <1>0 DEF Lookup, Goto
<1>3. at[c] = "lookup" /\ r \in Requests /\ r \notin Plans /\ Proper(hand[c])
      /\ hand[c].status \in {"complete", "ok"}
  BY HandFacts DEF Lookup, Step, TypeInv, Fits
<1>4. f \subseteq 1 .. Len(docs)
  BY <1>0, <1>3, FoundFacts DEF DocsOf
<1>5. n \in BOOLEAN /\ t \subseteq Turns \cup Writes /\ s \in Places
  BY DEF Writes, Places
<1>6. /\ s \in {"write", "cases", "save"}
      /\ s = "write" => r \in Turns /\ hand[c].status = "complete"
      /\ s = "cases" => r \in Suites
      /\ s = "save" => r \in Suites \cup Archs
  BY <1>3 DEF Proper, Requests
<1>7. s = "write" => t \subseteq Writes
  BY DEF Writes
<1> HIDE DEF n, t, s
<1>8. /\ Alone(c) /\ ConsumerTypes' /\ at'[c] = s /\ hand'[c] = hand[c] /\ todo'[c] = t
      /\ found'[c] = f /\ fresh'[c] = n
  BY <1>1, <1>2, <1>4, <1>5 DEF Alone, ConsumerTypes
<1>9. Fits(c)'
  BY <1>3, <1>6, <1>7, <1>8 DEF Fits
<1>10. ArtifactTypes' /\ RequestTypesOK'
  BY <1>1 DEF Lookup, ArtifactTypes, RequestTypesOK
<1>11. TypeInv'
  BY <1>8, <1>9, <1>10, PartsMakeTypes
<1> QED
  BY <1>0, <1>8, <1>11 DEF n, t, s

\* One of the parallel writes lands or fails.
LandsOne(c, w) ==
  /\ at[c] = "write" /\ w \in todo[c] /\ at' = at /\ UNCHANGED <<hand, found, fresh>>
  /\ todo' = [todo EXCEPT ![c] = @ \ {w}]
  /\ UNCHANGED <<requestVars, results, shelved, removals>>

LEMMA LandTypes ==
  ASSUME TypeInv, ArtifactsAssumption, NEW c \in Consumers, NEW w \in todo[c],
         Land(c, w) \/ LandFails(c, w)
  PROVE  /\ TypeInv' /\ Alone(c) /\ LandsOne(c, w)
         /\ at'[c] = "write" /\ hand'[c] = hand[c] /\ found'[c] = found[c]
         /\ fresh'[c] = fresh[c] /\ todo'[c] = todo[c] \ {w}
<1> USE DEF requestVars, artifactVars
<1>1. ConsumerTypes /\ ArtifactTypes /\ RequestTypesOK
  BY PartsBefore
<1>2. LandsOne(c, w)
  BY DEF Land, LandFails, LandsOne, Step
<1>3. /\ at[c] = "write" /\ Proper(hand[c]) /\ hand[c].of \in Srs /\ hand[c].from \in Turns
      /\ Fits(c) /\ hand[c].from \notin Plans
  BY <1>2, HandFacts, Kinds DEF LandsOne, TypeInv, Fits
<1>4. ArtifactTypes' /\ Len(docs') >= Len(docs) /\ Len(docs') \in Nat
  <2>1. Len(docs) \in Nat
    BY <1>1 DEF ArtifactTypes
  <2>2. CASE UNCHANGED artifactVars
    BY <1>1, <2>1, <2>2 DEF ArtifactTypes
  <2>3. CASE SaveDraft(c) /\ UNCHANGED <<specs, docs, rows, cases, tasks>>
    BY <1>1, <1>3, <2>1, <2>3 DEF ArtifactTypes, SaveDraft
  <2>4. CASE SaveSpec(c) /\ UNCHANGED <<draft, docs, rows, cases, tasks, drafted>>
    BY <1>1, <1>3, <2>1, <2>4, SaveSpecFacts DEF ArtifactTypes
  <2>5. CASE SaveDoc(c) /\ UNCHANGED <<draft, specs, rows, cases, tasks, drafted>>
    BY <1>1, <1>3, <2>1, <2>5, SaveDocFacts DEF ArtifactTypes
  <2> QED
    BY <2>2, <2>3, <2>4, <2>5 DEF Land, LandFails
<1>5. RequestTypesOK'
  <2>1. faults' \in Nat
    BY <1>1 DEF Land, LandFails, Fault, RequestTypesOK
  <2> QED
    BY <1>1, <1>2, <2>1 DEF LandsOne, RequestTypesOK
<1>6. /\ Alone(c) /\ at'[c] = "write" /\ hand'[c] = hand[c] /\ todo'[c] = todo[c] \ {w}
      /\ found'[c] = found[c] /\ fresh'[c] = fresh[c]
  <2>1. \A d \in Consumers : d # c => bad'[d] = bad[d]
    BY <1>1 DEF Land, LandFails, ConsumerTypes
  <2> QED
    BY <1>1, <1>2, <2>1 DEF LandsOne, Alone, ConsumerTypes
<1>7. ConsumerTypes'
  <2>1. bad' \in [Consumers -> BOOLEAN]
    BY <1>1 DEF Land, LandFails, ConsumerTypes
  <2>2. todo' \in [Consumers -> SUBSET (Turns \cup Writes)]
    BY <1>1, <1>2 DEF LandsOne, ConsumerTypes
  <2>3. found' \in [Consumers -> SUBSET (1 .. Len(docs'))]
    <3>1. Len(docs) \in Nat
      BY <1>1 DEF ArtifactTypes
    <3>2. 1 .. Len(docs) \subseteq 1 .. Len(docs')
      BY <1>4, <3>1
    <3> QED
      BY <1>1, <1>2, <3>2 DEF LandsOne, ConsumerTypes
  <2> QED
    BY <1>1, <1>2, <2>1, <2>2, <2>3 DEF LandsOne, ConsumerTypes
<1>8. Fits(c)'
  BY <1>3, <1>6 DEF Fits
<1> QED
  BY <1>2, <1>4, <1>5, <1>6, <1>7, <1>8, PartsMakeTypes

\* All writes have landed.
LEMMA AllLandedTypes ==
  ASSUME TypeInv, ArtifactsAssumption, NEW c \in Consumers, AllLanded(c)
  PROVE  /\ TypeInv' /\ Alone(c) /\ hand'[c] = hand[c]
         /\ hand[c].status = "complete" => at'[c] = "clear" /\ todo'[c] = hand[c].of
         /\ hand[c].status # "complete" => at'[c] = "ack"
<1> USE DEF requestVars, artifactVars
<1>1. ConsumerTypes /\ ArtifactTypes /\ RequestTypesOK
  BY PartsBefore
<1>2. /\ at[c] = "write" /\ Proper(hand[c]) /\ hand[c].of \in Srs /\ hand[c].from \in Turns
  BY HandFacts DEF AllLanded, Step, TypeInv, Fits
<1> DEFINE complete == hand[c].status = "complete"
           s == IF complete THEN "clear" ELSE "ack"
           t == IF complete THEN hand[c].of ELSE {}
<1>3. /\ at' = [at EXCEPT ![c] = s] /\ todo' = [todo EXCEPT ![c] = t]
      /\ UNCHANGED <<hand, found, fresh, bad, docs>>
  BY DEF AllLanded, Goto
<1>4. s \in Places /\ t \subseteq Turns \cup Writes
  BY <1>2 DEF Places, Srs
<1>5. s = "clear" => complete /\ t \subseteq hand[c].of /\ t # {}
  BY <1>2 DEF Proper
<1>5a. s \in {"clear", "ack"} /\ (complete => s = "clear" /\ t = hand[c].of)
       /\ (~complete => s = "ack")
  OBVIOUS
<1> HIDE DEF s, t
<1>6. Alone(c) /\ ConsumerTypes' /\ at'[c] = s /\ hand'[c] = hand[c] /\ todo'[c] = t
  BY <1>1, <1>3, <1>4 DEF Alone, ConsumerTypes
<1>7. Fits(c)'
  BY <1>2, <1>5, <1>5a, <1>6 DEF Fits
<1>8. ArtifactTypes' /\ RequestTypesOK'
  BY <1>1 DEF AllLanded, ArtifactTypes, RequestTypesOK
<1>9. TypeInv'
  BY <1>6, <1>7, <1>8, PartsMakeTypes
<1> QED
  BY <1>5a, <1>6, <1>9

\* The feature whose requirements are written next.
Next1(c) == CHOOSE f \in todo[c] : TRUE

LEMMA FeatureFacts ==
  ASSUME TypeInv, ArtifactsAssumption, NEW c \in Consumers, at[c] \in {"clear", "fill"}
  PROVE  Next1(c) \in todo[c] /\ Next1(c) \in Turns /\ todo[c] \subseteq Turns
         /\ todo[c] \subseteq hand[c].of /\ hand[c].status = "complete"
<1>1. /\ todo[c] # {} /\ todo[c] \subseteq hand[c].of /\ hand[c].of \in Srs
      /\ hand[c].status = "complete"
  BY HandFacts DEF TypeInv, Fits
<1> QED
  BY <1>1 DEF Next1, Srs

\* The requirements of a feature are removed.
LEMMA ClearTypes ==
  ASSUME TypeInv, ArtifactsAssumption, NEW c \in Consumers, Clear(c)
  PROVE  /\ TypeInv' /\ Alone(c) /\ hand'[c] = hand[c] /\ todo' = todo /\ at'[c] = "fill"
         /\ rows' = [rows EXCEPT ![Next1(c)] = Missing]
<1> USE DEF requestVars, artifactVars
<1>1. ConsumerTypes /\ ArtifactTypes /\ RequestTypesOK
  BY PartsBefore
<1>2. at[c] = "clear" /\ Fits(c) /\ Next1(c) \in Turns
  BY FeatureFacts DEF Clear, Step, TypeInv
<1>3. rows' = [rows EXCEPT ![Next1(c)] = Missing]
  BY DEF Clear, Next1
<1>4. Keep(c, "fill") /\ docs' = docs /\ Len(docs) \in Nat
  BY <1>1 DEF Clear, ArtifactTypes
<1>5. /\ Alone(c) /\ at'[c] = "fill" /\ ConsumerTypes'
      /\ UNCHANGED <<hand, found, fresh, todo, bad>>
  BY <1>4, KeepFacts DEF Places
<1>6. Fits(c)'
  BY <1>2, <1>5 DEF Fits
<1>7. ArtifactTypes' /\ RequestTypesOK'
  BY <1>1, <1>2, <1>3 DEF Clear, ArtifactTypes, RequestTypesOK, Missing, Srs
<1> QED
  BY <1>3, <1>5, <1>6, <1>7, PartsMakeTypes

\* The requirements of a feature are written.
LEMMA FillTypes ==
  ASSUME TypeInv, ArtifactsAssumption, NEW c \in Consumers, Fill(c)
  PROVE  /\ TypeInv' /\ Alone(c) /\ hand'[c] = hand[c] /\ todo'[c] = todo[c] \ {Next1(c)}
         /\ at'[c] = IF todo[c] = {Next1(c)} THEN "ack" ELSE "clear"
         /\ rows' = [rows EXCEPT ![Next1(c)] = IF @ = Missing THEN hand[c].of ELSE @]
<1> USE DEF requestVars, artifactVars
<1>1. ConsumerTypes /\ ArtifactTypes /\ RequestTypesOK
  BY PartsBefore
<1>2. /\ at[c] = "fill" /\ Fits(c) /\ Next1(c) \in Turns /\ Next1(c) \in todo[c]
      /\ hand[c].of \in Srs
  BY FeatureFacts, HandFacts DEF Fill, Step, TypeInv
<1> DEFINE s == IF todo[c] = {Next1(c)} THEN "ack" ELSE "clear"
<1>3. /\ rows' = [rows EXCEPT ![Next1(c)] = IF @ = Missing THEN hand[c].of ELSE @]
      /\ todo' = [todo EXCEPT ![c] = @ \ {Next1(c)}]
      /\ at' = [at EXCEPT ![c] = s]
      /\ UNCHANGED <<hand, found, fresh, bad, docs>>
  BY DEF Fill, Next1, Goto
<1>4. s \in Places /\ s \in {"ack", "clear"} /\ (s = "clear" => todo[c] \ {Next1(c)} # {})
  BY <1>2 DEF Places
<1> HIDE DEF s
<1>5. /\ Alone(c) /\ at'[c] = s /\ ConsumerTypes' /\ hand'[c] = hand[c]
      /\ todo'[c] = todo[c] \ {Next1(c)}
  BY <1>1, <1>3, <1>4 DEF Alone, ConsumerTypes
<1>6. Fits(c)'
  BY <1>2, <1>4, <1>5 DEF Fits
<1>7. ArtifactTypes' /\ RequestTypesOK'
  BY <1>1, <1>2, <1>3 DEF Fill, ArtifactTypes, RequestTypesOK
<1>8. TypeInv'
  BY <1>5, <1>6, <1>7, PartsMakeTypes
<1> QED
  BY <1>3, <1>5, <1>8 DEF s

\* A step of a handler that is one call.
Onward(c, s) ==
  /\ Keep(c, s) /\ UNCHANGED <<requestVars, results, shelved, removals, faults>>
  /\ Len(docs') >= Len(docs) /\ Len(docs') \in Nat

LEMMA OnwardTypes ==
  ASSUME TypeInv, ArtifactsAssumption, NEW c \in Consumers,
         \/ CreateTasks(c) \/ DeleteCases(c) \/ DeleteDocs(c) \/ Save(c)
         \/ CreateCases(c) \/ LogActivity(c)
  PROVE  /\ TypeInv' /\ Alone(c) /\ UNCHANGED <<hand, found, fresh, todo, bad>>
         /\ UNCHANGED <<requestVars, results, shelved, removals, faults>>
         /\ CreateTasks(c) => at'[c] = "log"
         /\ DeleteCases(c) => at'[c] = "documents"
         /\ DeleteDocs(c) => at'[c] = "save"
         /\ Save(c) => at'[c] = IF hand[c].from \in Suites THEN "addCases" ELSE "ack"
         /\ CreateCases(c) => at'[c] = "log"
         /\ LogActivity(c) => at'[c] = "ack"
<1> USE DEF requestVars, artifactVars
<1>1. ConsumerTypes /\ ArtifactTypes /\ RequestTypesOK
  BY PartsBefore
<1>2. Len(docs) \in Nat
  BY <1>1 DEF ArtifactTypes
<1>3. Fits(c) /\ at[c] # "idle" /\ Proper(hand[c]) /\ hand[c].from \in Requests
  BY HandFacts DEF CreateTasks, DeleteCases, DeleteDocs, Save, CreateCases, LogActivity,
     Step, TypeInv
<1>4. UNCHANGED <<requestVars, results, shelved, removals, faults>>
  BY DEF CreateTasks, DeleteCases, DeleteDocs, Save, CreateCases, LogActivity
<1>5. RequestTypesOK'
  BY <1>1, <1>4 DEF RequestTypesOK
<1>6. ASSUME NEW s \in Places, Keep(c, s), ArtifactTypes', Len(docs') >= Len(docs),
             s = "log" => hand[c].from \in Plans \cup Suites,
             s \in {"documents", "addCases"} => hand[c].from \in Suites,
             s = "save" => hand[c].from \in Suites,
             s \in {"log", "documents", "addCases", "save", "ack"}
      PROVE  TypeInv' /\ Alone(c) /\ UNCHANGED <<hand, found, fresh, todo, bad>> /\ at'[c] = s
  <2>1. Len(docs') \in Nat
    BY <1>6 DEF ArtifactTypes
  <2>2. /\ Alone(c) /\ at'[c] = s /\ ConsumerTypes'
        /\ UNCHANGED <<hand, found, fresh, todo, bad>>
    BY <1>6, <2>1, KeepFacts
  <2>3. Fits(c)'
    BY <1>3, <1>6, <2>2 DEF Fits
  <2> QED
    BY <1>5, <1>6, <2>2, <2>3, PartsMakeTypes
<1>7. ASSUME docs' = docs PROVE Len(docs') >= Len(docs)
  BY <1>2, <1>7
<1>8. CASE CreateTasks(c)
  <2>1. hand[c].from \in Plans
    BY <1>3, <1>8 DEF CreateTasks, Step, Fits
  <2>2. ArtifactTypes'
    BY <1>1, <1>8, <2>1 DEF CreateTasks, ArtifactTypes
  <2>3. Keep(c, "log") /\ docs' = docs /\ "log" \in Places /\ at[c] = "tasks"
    BY <1>8 DEF CreateTasks, Places, Step
  <2>4. TypeInv' /\ Alone(c) /\ UNCHANGED <<hand, found, fresh, todo, bad>> /\ at'[c] = "log"
    BY <1>6, <1>7, <2>1, <2>2, <2>3
  <2> QED
    BY <1>4, <2>3, <2>4 DEF CreateTasks, DeleteCases, DeleteDocs, Save, CreateCases, LogActivity, Step
<1>9. CASE DeleteCases(c)
  <2>1. ArtifactTypes'
    BY <1>1, <1>9 DEF DeleteCases, ArtifactTypes
  <2>2. hand[c].from \in Suites
    BY <1>3, <1>9 DEF DeleteCases, Step, Fits
  <2>3. Keep(c, "documents") /\ docs' = docs /\ "documents" \in Places /\ at[c] = "cases"
    BY <1>9 DEF DeleteCases, Places, Step
  <2>4. TypeInv' /\ Alone(c) /\ UNCHANGED <<hand, found, fresh, todo, bad>>
        /\ at'[c] = "documents"
    BY <1>6, <1>7, <2>1, <2>2, <2>3
  <2> QED
    BY <1>4, <2>3, <2>4 DEF CreateTasks, DeleteCases, DeleteDocs, Save, CreateCases, LogActivity, Step
<1>10. CASE DeleteDocs(c)
  <2>1. docs' \in Seq(Doc) /\ Len(docs') = Len(docs)
    <3> DEFINE d(i) == IF i \in found[c] THEN [docs[i] EXCEPT !.key = Removed] ELSE docs[i]
    <3>1. \A i \in 1 .. Len(docs) : d(i) \in Doc
      <4> SUFFICES ASSUME NEW i \in 1 .. Len(docs) PROVE d(i) \in Doc
        OBVIOUS
      <4>1. docs[i] \in Doc
        BY <1>1 DEF ArtifactTypes
      <4> QED
        BY <4>1, RemovedKey DEF Doc
    <3>2. docs' = [i \in 1 .. Len(docs) |-> d(i)]
      BY <1>10 DEF DeleteDocs
    <3> HIDE DEF d
    <3> QED
      BY <1>2, <3>1, <3>2
  <2>2. ArtifactTypes'
    BY <1>1, <1>10, <2>1 DEF DeleteDocs, ArtifactTypes
  <2>3. hand[c].from \in Suites
    BY <1>3, <1>10 DEF DeleteDocs, Step, Fits
  <2>4. Keep(c, "save") /\ "save" \in Places /\ at[c] = "documents"
    BY <1>10 DEF DeleteDocs, Places, Step
  <2>5. Len(docs') >= Len(docs)
    BY <1>2, <2>1
  <2>6. TypeInv' /\ Alone(c) /\ UNCHANGED <<hand, found, fresh, todo, bad>> /\ at'[c] = "save"
    BY <1>6, <2>2, <2>3, <2>4, <2>5
  <2> QED
    BY <1>4, <2>4, <2>6 DEF CreateTasks, DeleteCases, DeleteDocs, Save, CreateCases, LogActivity, Step
<1>11. CASE Save(c)
  <2>1. hand[c].from \in Suites \cup Archs /\ hand[c].from \notin Plans
    BY <1>3, <1>11, Kinds DEF Save, Step, Fits
  <2>2. docs' \in Seq(Doc) /\ Len(docs') >= Len(docs)
    BY <1>3, <1>11, <2>1, SaveDocFacts DEF Save
  <2>3. ArtifactTypes'
    BY <1>1, <1>11, <2>2 DEF Save, ArtifactTypes
  <2> DEFINE s == IF hand[c].from \in Suites THEN "addCases" ELSE "ack"
  <2>4. Keep(c, s) /\ at[c] = "save"
    BY <1>11 DEF Save, Step
  <2>5. s \in Places /\ s \in {"addCases", "ack"} /\ (s = "addCases" => hand[c].from \in Suites)
    BY DEF Places
  <2> HIDE DEF s
  <2>6. TypeInv' /\ Alone(c) /\ UNCHANGED <<hand, found, fresh, todo, bad>> /\ at'[c] = s
    BY <1>6, <2>2, <2>3, <2>4, <2>5
  <2> QED
    BY <1>4, <2>4, <2>6 DEF CreateTasks, DeleteCases, DeleteDocs, Save, CreateCases, LogActivity, Step, s
<1>12. CASE CreateCases(c)
  <2>1. hand[c].from \in Suites
    BY <1>3, <1>12 DEF CreateCases, Step, Fits
  <2>2. ArtifactTypes'
    BY <1>1, <1>12, <2>1 DEF CreateCases, CasesOf, ArtifactTypes
  <2>3. Keep(c, "log") /\ docs' = docs /\ "log" \in Places /\ at[c] = "addCases"
    BY <1>12 DEF CreateCases, Places, Step
  <2>4. TypeInv' /\ Alone(c) /\ UNCHANGED <<hand, found, fresh, todo, bad>> /\ at'[c] = "log"
    BY <1>6, <1>7, <2>1, <2>2, <2>3
  <2> QED
    BY <1>4, <2>3, <2>4 DEF CreateTasks, DeleteCases, DeleteDocs, Save, CreateCases, LogActivity, Step
<1>13. CASE LogActivity(c)
  <2>1. ArtifactTypes'
    BY <1>1, <1>13 DEF LogActivity, ArtifactTypes
  <2>2. Keep(c, "ack") /\ docs' = docs /\ "ack" \in Places /\ at[c] = "log"
    BY <1>13 DEF LogActivity, Places, Step
  <2>3. TypeInv' /\ Alone(c) /\ UNCHANGED <<hand, found, fresh, todo, bad>> /\ at'[c] = "ack"
    BY <1>6, <1>7, <2>1, <2>2
  <2> QED
    BY <1>4, <2>2, <2>3 DEF CreateTasks, DeleteCases, DeleteDocs, Save, CreateCases, LogActivity, Step
<1> QED
  BY <1>8, <1>9, <1>10, <1>11, <1>12, <1>13

\* A consumer is done with its answer, or gives it up.
Acked(c) ==
  /\ results' = results \ {hand[c]} /\ stage' = [stage EXCEPT ![hand[c].from] = "applied"]
  /\ shelved' = shelved /\ faults' = faults

GaveUp(c) ==
  \/ /\ results' = results \cup {hand[c]}
     /\ stage' = [stage EXCEPT ![hand[c].from] = "answered"]
     /\ shelved' = shelved
  \/ /\ results' = results \ {hand[c]}
     /\ stage' = [stage EXCEPT ![hand[c].from] = "failed"]
     /\ shelved' = shelved \cup {hand[c].from}

LEMMA EndTypes ==
  ASSUME TypeInv, ArtifactsAssumption, NEW c \in Consumers,
         Ack(c) \/ HandlerThrows(c) \/ Interrupted(c)
  PROVE  /\ TypeInv' /\ Alone(c) /\ at[c] # "idle" /\ at'[c] = "idle"
         /\ UNCHANGED artifactVars /\ base' = base /\ crossed' = crossed /\ removals' = removals
         /\ Ack(c) => at[c] = "ack" /\ Acked(c)
         /\ HandlerThrows(c) => at[c] \in {"write", "save"} /\ GaveUp(c) /\ faults' = faults
         /\ Interrupted(c) => GaveUp(c) /\ faults' = faults + 1
<1> USE DEF requestVars, artifactVars
<1>1. ConsumerTypes /\ ArtifactTypes /\ RequestTypesOK
  BY PartsBefore
<1>2. /\ Drop(c) /\ UNCHANGED artifactVars /\ at[c] # "idle"
      /\ base' = base /\ crossed' = crossed /\ removals' = removals
  BY DEF Ack, HandlerThrows, Interrupted, GiveUp, Step
<1>3. Proper(hand[c]) /\ hand[c] \in Answers /\ hand[c].from \in Requests
  BY <1>2, HandFacts DEF Proper
<1>4. /\ Ack(c) => at[c] = "ack" /\ Acked(c)
      /\ HandlerThrows(c) => at[c] \in {"write", "save"} /\ GaveUp(c) /\ faults' = faults
      /\ Interrupted(c) => GaveUp(c) /\ faults' = faults + 1
  BY DEF Ack, HandlerThrows, Interrupted, GiveUp, Step, Fault, Acked, GaveUp
<1>5. Alone(c) /\ at'[c] = "idle" /\ ConsumerTypes' /\ Fits(c)'
  BY <1>2, DropFacts
<1>6. ArtifactTypes'
  BY <1>1, <1>2 DEF ArtifactTypes
<1>7. RequestTypesOK'
  <2>1. Acked(c) \/ GaveUp(c)
    BY <1>4
  <2>2. stage' \in [Requests -> Stages]
    BY <1>1, <1>3, <2>1 DEF Acked, GaveUp, RequestTypesOK, Stages
  <2>3. results' \subseteq results \cup {hand[c]} /\ shelved' \subseteq shelved \cup {hand[c].from}
    BY <2>1 DEF Acked, GaveUp
  <2>4. faults' \in Nat
    BY <1>1, <1>4 DEF RequestTypesOK, Acked
  <2> QED
    BY <1>1, <1>2, <1>3, <2>2, <2>3, <2>4 DEF RequestTypesOK
<1> QED
  BY <1>2, <1>4, <1>5, <1>6, <1>7, PartsMakeTypes

\* The steps of a consumer, one by one.
ConsumerActs(c) ==
  \/ \E a \in results : Take(c, a)
  \/ Lookup(c)
  \/ \E w \in todo[c] : Land(c, w) \/ LandFails(c, w)
  \/ AllLanded(c) \/ Clear(c) \/ Fill(c)
  \/ CreateTasks(c) \/ DeleteCases(c) \/ DeleteDocs(c) \/ Save(c)
  \/ CreateCases(c) \/ LogActivity(c)
  \/ Ack(c) \/ HandlerThrows(c) \/ Interrupted(c)

\* A step is a request's, a consumer's, or a user's who removes a document.
Asks(r) == Ask(r) \/ Enqueue(r) \/ EnqueueFails(r) \/ Answer(r) \/ AgentFails(r)

LEMMA Steps ==
  ASSUME Next
  PROVE  \/ \E r \in Requests : Asks(r)
         \/ \E c \in Consumers : ConsumerActs(c)
         \/ \E i \in 1 .. Len(docs) : Remove(i)
BY DEF Next, ConsumerStep, ConsumerActs, Asks

\* A consumer's step keeps the types.
LEMMA ConsumerKeepsTypes ==
  ASSUME TypeInv, ArtifactsAssumption, NEW c \in Consumers, ConsumerActs(c)
  PROVE  TypeInv' /\ Alone(c)
<1>1. ASSUME NEW a \in results, Take(c, a) PROVE TypeInv' /\ Alone(c)
  BY <1>1, TakeTypes
<1>2. ASSUME NEW w \in todo[c], Land(c, w) \/ LandFails(c, w) PROVE TypeInv' /\ Alone(c)
  BY <1>2, LandTypes
<1>3. CASE Lookup(c)
  BY <1>3, LookupTypes
<1>4. CASE AllLanded(c)
  BY <1>4, AllLandedTypes
<1>5. CASE Clear(c)
  BY <1>5, ClearTypes
<1>6. CASE Fill(c)
  BY <1>6, FillTypes
<1>7. CASE \/ CreateTasks(c) \/ DeleteCases(c) \/ DeleteDocs(c) \/ Save(c)
           \/ CreateCases(c) \/ LogActivity(c)
  BY <1>7, OnwardTypes
<1>8. CASE Ack(c) \/ HandlerThrows(c) \/ Interrupted(c)
  BY <1>8, EndTypes
<1> QED
  BY <1>1, <1>2, <1>3, <1>4, <1>5, <1>6, <1>7, <1>8 DEF ConsumerActs

\* A user's removal of a document changes its type.
LEMMA RemoveFacts ==
  ASSUME TypeInv, NEW i \in 1 .. Len(docs), Remove(i)
  PROVE  /\ TypeInv' /\ Len(docs') = Len(docs) /\ removals' = removals + 1
         /\ docs'[i].key = Removed /\ docs[i].key # Removed
         /\ \A k \in 1 .. Len(docs) : k # i => docs'[k] = docs[k]
         /\ UNCHANGED <<requestVars, results, consumerVars, draft, specs, rows, cases,
                        tasks, drafted, shelved, faults>>
<1>1. docs \in Seq(Doc) /\ Len(docs) \in Nat /\ docs[i] \in Doc
  BY DEF TypeInv, TypeOK
<1> DEFINE d == [docs[i] EXCEPT !.key = Removed]
<1>2. d \in Doc /\ d.key = Removed
  BY <1>1, RemovedKey DEF Doc
<1>3. docs' = [docs EXCEPT ![i] = d]
  BY DEF Remove
<1> HIDE DEF d
<1>4. /\ docs' \in Seq(Doc) /\ Len(docs') = Len(docs) /\ docs'[i] = d
      /\ \A k \in 1 .. Len(docs) : k # i => docs'[k] = docs[k]
  BY <1>1, <1>2, <1>3, ExceptSeq
<1>5. /\ UNCHANGED <<requestVars, results, consumerVars, draft, specs, rows, cases,
                     tasks, drafted, shelved, faults>>
      /\ removals' = removals + 1 /\ docs[i].key # Removed
  BY DEF Remove
<1>6. TypeInv'
  <2>1. removals' \in Nat
    BY <1>5 DEF TypeInv, TypeOK
  <2>2. found' \in [Consumers -> SUBSET (1 .. Len(docs'))]
    BY <1>4, <1>5 DEF TypeInv, TypeOK, consumerVars, memoryVars
  <2>3. \A c \in Consumers : Fits(c)'
    BY <1>5 DEF TypeInv, Fits, consumerVars, memoryVars
  <2> QED
    BY <1>4, <1>5, <2>1, <2>2, <2>3
    DEF TypeInv, TypeOK, consumerVars, memoryVars, requestVars
<1> QED
  BY <1>2, <1>4, <1>5, <1>6

LEMMA TypesFirst ==
  ASSUME ArtifactsAssumption, Init
  PROVE  TypeInv
<1>1. <<>> \in Seq(Srs) /\ <<>> \in Seq(Doc) /\ Len(<<>>) = 0
  OBVIOUS
<1>2. TypeOK
  BY <1>1 DEF Init, TypeOK, Missing, Srs
<1> QED
  BY <1>2 DEF Init, TypeInv, Fits

\* Every step keeps the types.
LEMMA TypesNext ==
  ASSUME TypeInv, ArtifactsAssumption, [Next]_vars
  PROVE  TypeInv'
<1>1. ASSUME NEW r \in Requests, Asks(r) PROVE TypeInv'
  BY <1>1, RequestTypes DEF Asks
<1>2. ASSUME NEW c \in Consumers, ConsumerActs(c) PROVE TypeInv'
  BY <1>2, ConsumerKeepsTypes
<1>3. ASSUME NEW i \in 1 .. Len(docs), Remove(i) PROVE TypeInv'
  BY <1>3, RemoveFacts
<1>4. CASE UNCHANGED vars
  BY <1>4 DEF vars, requestVars, consumerVars, memoryVars, artifactVars, TypeInv, TypeOK, Fits
<1> QED
  BY <1>1, <1>2, <1>3, <1>4, Steps

\* The variables always have their types, with any number of API processes: in
\* particular no handler writes a document, a test case or a requirement that
\* is not of its kind.
THEOREM TypeCorrect == Spec => []TypeOK
<1>1. TypeInv => TypeOK
  BY DEF TypeInv
<1>2. Init => TypeInv
  BY ArtifactsAssumption, TypesFirst
<1>3. TypeInv /\ [Next]_vars => TypeInv'
  BY ArtifactsAssumption, TypesNext
<1> QED
  BY <1>1, <1>2, <1>3, PTL DEF Spec

-----------------------------------------------------------------------------
(* One API process: a result stays where it is until its handler is done.   *)

\* The answers that wait are those of answered requests, each has one, and the
\* one that the consumer handles is among them.
Serial(c) ==
  /\ \A a \in results : /\ stage[a.from] = "answered"
                        /\ a.from \in Turns => a.of = base[a.from] \cup {a.from}
  /\ \A a, b \in results : a.from = b.from => a = b
  /\ at[c] # "idle" => hand[c] \in results

\* The consumer goes on with its answer.
Goes(c) ==
  /\ at[c] # "idle" /\ hand'[c] = hand[c]
  /\ UNCHANGED <<requestVars, results, shelved, removals>> /\ faults' >= faults

\* The handler's steps between taking an answer and letting go of it.
Handles(c) ==
  \/ Lookup(c)
  \/ \E w \in todo[c] : Land(c, w) \/ LandFails(c, w)
  \/ AllLanded(c) \/ Clear(c) \/ Fill(c)
  \/ CreateTasks(c) \/ DeleteCases(c) \/ DeleteDocs(c) \/ Save(c)
  \/ CreateCases(c) \/ LogActivity(c)

LEMMA HandlesGoes ==
  ASSUME TypeInv, ArtifactsAssumption, NEW c \in Consumers, Handles(c)
  PROVE  Goes(c)
<1> USE DEF requestVars
<1>0. faults \in Nat
  BY DEF TypeInv, TypeOK
<1>1. CASE Lookup(c)
  BY <1>0, <1>1, LookupTypes DEF Goes, Lookup, Step
<1>2. ASSUME NEW w \in todo[c], Land(c, w) \/ LandFails(c, w) PROVE Goes(c)
  <2>1. faults' >= faults
    BY <1>0, <1>2 DEF Land, LandFails, Fault
  <2> QED
    BY <1>2, <2>1, LandTypes DEF LandsOne, Goes
<1>3. CASE AllLanded(c)
  BY <1>0, <1>3, AllLandedTypes DEF Goes, AllLanded, Step
<1>4. CASE Clear(c)
  <2>1. /\ at[c] = "clear"
        /\ UNCHANGED <<stage, base, crossed, results, shelved, removals, faults>>
    BY <1>4 DEF Clear, Step
  <2>2. hand'[c] = hand[c]
    BY <1>4, ClearTypes
  <2> QED
    BY <1>0, <2>1, <2>2 DEF Goes
<1>5. CASE Fill(c)
  BY <1>0, <1>5, FillTypes DEF Goes, Fill, Step
<1>6. CASE \/ CreateTasks(c) \/ DeleteCases(c) \/ DeleteDocs(c) \/ Save(c)
           \/ CreateCases(c) \/ LogActivity(c)
  <2>1. at[c] # "idle"
    BY <1>6 DEF CreateTasks, DeleteCases, DeleteDocs, Save, CreateCases, LogActivity, Step
  <2> QED
    BY <1>0, <1>6, <2>1, OnwardTypes DEF Goes
<1> QED
  BY <1>1, <1>2, <1>3, <1>4, <1>5, <1>6 DEF Handles

LEMMA ActsMoves ==
  ASSUME NEW c \in Consumers, ConsumerActs(c)
  PROVE  \/ \E a \in results : Take(c, a)
         \/ Handles(c)
         \/ Ack(c) \/ HandlerThrows(c) \/ Interrupted(c)
BY DEF ConsumerActs, Handles

\* What the consumer handles waits, and its request was answered.
LEMMA HandWaits ==
  ASSUME TypeInv, ArtifactsAssumption, NEW c \in Consumers, Serial(c), at[c] # "idle"
  PROVE  /\ hand[c] \in results /\ hand[c].from \in Requests
         /\ stage[hand[c].from] = "answered"
         /\ hand[c].from \in Turns => hand[c].of = base[hand[c].from] \cup {hand[c].from}
         /\ \A a \in results : a.from = hand[c].from => a = hand[c]
BY HandFacts DEF Serial

\* An answer that is given up waits again, as before, or is shelved.
LEMMA EndFacts ==
  ASSUME TypeInv, ArtifactsAssumption, NEW c \in Consumers, Serial(c),
         Ack(c) \/ HandlerThrows(c) \/ Interrupted(c)
  PROVE  \/ /\ ~Ack(c) /\ results' = results /\ stage' = stage /\ shelved' = shelved
         \/ /\ results' = results \ {hand[c]}
            /\ \/ /\ Ack(c) /\ shelved' = shelved /\ at[c] = "ack"
                  /\ stage' = [stage EXCEPT ![hand[c].from] = "applied"]
               \/ /\ ~Ack(c) /\ shelved' # {}
                  /\ stage' = [stage EXCEPT ![hand[c].from] = "failed"]
<1>1. /\ at[c] # "idle"
      /\ Ack(c) => at[c] = "ack" /\ Acked(c)
      /\ HandlerThrows(c) => at[c] \in {"write", "save"} /\ GaveUp(c)
      /\ Interrupted(c) => GaveUp(c)
  BY EndTypes
<1>2. hand[c] \in results /\ stage[hand[c].from] = "answered" /\ stage \in [Requests -> Stages]
  BY <1>1, HandWaits DEF TypeInv, TypeOK, Stages
<1>3. CASE Ack(c)
  BY <1>1, <1>3 DEF Acked
<1>4. CASE ~Ack(c)
  <2>1. GaveUp(c)
    BY <1>1, <1>4
  <2>2. results \cup {hand[c]} = results
    BY <1>2
  <2>3. [stage EXCEPT ![hand[c].from] = "answered"] = stage
    BY <1>2
  <2> QED
    BY <1>4, <2>1, <2>2, <2>3 DEF GaveUp
<1> QED
  BY <1>3, <1>4

\* Every step keeps the answers that wait serial.
LEMMA SerialNext ==
  ASSUME TypeInv, ArtifactsAssumption, NEW c, Consumers = {c}, Serial(c), [Next]_vars
  PROVE  Serial(c)'
<1> USE DEF requestVars, consumerVars, memoryVars, artifactVars
<1>0. /\ stage \in [Requests -> Stages] /\ base \in [Requests -> Srs]
      /\ \A a \in results : a.from \in Requests
      /\ at \in [Consumers -> Places]
      /\ hand \in [Consumers -> Answers \cup {<<>>}] /\ c \in Consumers
  BY DEF TypeInv, TypeOK, Stages, Answers, Places
<1>1. ASSUME NEW r \in Requests, Asks(r) PROVE Serial(c)'
  <2>1. UNCHANGED <<at, hand>>
    BY <1>1 DEF Asks, Ask, Enqueue, EnqueueFails, Answer, AgentFails
  <2>2. /\ stage[r] # "answered" /\ \A q \in Requests : q # r => stage'[q] = stage[q] /\ base'[q] = base[q]
    BY <1>0, <1>1 DEF Asks, Ask, Enqueue, EnqueueFails, Answer, AgentFails
  <2>3. \A a \in results : a.from # r
    BY <2>2 DEF Serial
  <2>4. CASE Answer(r)
    <3>1. PICK status \in IF r \in Turns THEN {"clarify", "complete", "answer"} ELSE {"ok"} :
             results' = results \cup
               {[from |-> r, status |-> status,
                 of |-> IF r \in Turns THEN base[r] \cup {r} ELSE base[r]]}
      BY <2>4 DEF Answer
    <3> DEFINE a == [from |-> r, status |-> status,
                     of |-> IF r \in Turns THEN base[r] \cup {r} ELSE base[r]]
    <3>2. a.from = r /\ (r \in Turns => a.of = base[r] \cup {r}) /\ results' = results \cup {a}
      BY <3>1
    <3>3. stage'[r] = "answered" /\ base' = base
      BY <1>0, <2>4 DEF Answer
    <3> HIDE DEF a
    <3> QED
      BY <1>0, <2>1, <2>2, <2>3, <3>2, <3>3 DEF Serial
  <2>5. CASE ~Answer(r)
    <3>1. results' = results
      BY <1>1, <2>5 DEF Asks, Ask, Enqueue, EnqueueFails, AgentFails
    <3> QED
      BY <1>0, <2>1, <2>2, <2>3, <3>1 DEF Serial
  <2> QED
    BY <2>4, <2>5
<1>2. ASSUME NEW d \in Consumers, ConsumerActs(d) PROVE Serial(c)'
  <2>1. ConsumerActs(c)
    BY <1>2
  <2>2. ASSUME NEW a \in results, Take(c, a) PROVE Serial(c)'
    <3>1. hand'[c] = a /\ UNCHANGED <<stage, base, results>>
      BY <1>0, <2>2, TakeTypes DEF Take
    <3> QED
      BY <3>1 DEF Serial
  <2>3. CASE Handles(c)
    BY <1>0, <2>3, HandlesGoes DEF Goes, Serial
  <2>4. CASE Ack(c) \/ HandlerThrows(c) \/ Interrupted(c)
    <3>1. at'[c] = "idle" /\ base' = base /\ at[c] # "idle"
      BY <1>0, <2>4, EndTypes
    <3>2. \A a \in results \ {hand[c]} : a.from # hand[c].from
      BY <1>0, <3>1, HandWaits
    <3> QED
      BY <1>0, <2>4, <3>1, <3>2, EndFacts DEF Serial
  <2> QED
    BY <1>0, <2>1, <2>2, <2>3, <2>4, ActsMoves
<1>3. ASSUME NEW i \in 1 .. Len(docs), Remove(i) PROVE Serial(c)'
  BY <1>3 DEF Remove, Serial
<1>4. CASE UNCHANGED vars
  BY <1>4 DEF vars, Serial
<1> QED
  BY <1>1, <1>2, <1>3, <1>4, Steps

\* Nothing waits at first.
LEMMA SerialFirst ==
  ASSUME Init, NEW c, Consumers = {c}
  PROVE  Serial(c)
BY DEF Init, Serial

-----------------------------------------------------------------------------
(* The shared draft.                                                       *)

\* While turns follow one another the open turn knows all that was drafted.
DraftInv ==
  ~crossed =>
    /\ drafted \subseteq draft
    /\ \A r \in Turns : Open(r) => drafted \subseteq base[r] \cup {r}
    /\ \A r, t \in Turns : Open(r) /\ Open(t) => r = t

LEMMA DraftNext ==
  ASSUME TypeInv, ArtifactsAssumption, NEW c, Consumers = {c}, Serial(c), DraftInv, [Next]_vars
  PROVE  DraftInv'
<1> USE DEF requestVars, consumerVars, memoryVars, artifactVars
<1>0. /\ stage \in [Requests -> Stages] /\ base \in [Requests -> Srs] /\ c \in Consumers
      /\ Turns \subseteq Requests
  BY DEF TypeInv, TypeOK, Stages, Requests
<1>1. ASSUME NEW r \in Requests, Asks(r) PROVE DraftInv'
  <2>1. UNCHANGED <<draft, drafted>>
    BY <1>1 DEF Asks, Ask, Enqueue, EnqueueFails, Answer, AgentFails
  <2>2. CASE Ask(r)
    <3> SUFFICES ASSUME ~crossed' PROVE DraftInv'
      BY DEF DraftInv
    <3>1. ~crossed /\ (r \in Turns => \A t \in Turns : ~Open(t))
      BY <2>2 DEF Ask
    <3>2. /\ base' = [base EXCEPT ![r] = IF r \in Turns THEN GetProjectDraftSrs ELSE LatestSpec]
          /\ stage' = [stage EXCEPT ![r] = "asking"]
      BY <2>2 DEF Ask
    <3>3. drafted \subseteq GetProjectDraftSrs
      BY <3>1 DEF DraftInv, GetProjectDraftSrs, Missing
    <3>4. \A t \in Turns : t # r => (Open(t)' => Open(t)) /\ base'[t] = base[t]
      BY <1>0, <3>2 DEF Open
    <3>5. r \in Turns => base'[r] = GetProjectDraftSrs
      BY <1>0, <3>2
    <3> QED
      BY <2>1, <3>1, <3>3, <3>4, <3>5 DEF DraftInv
  <2>3. CASE ~Ask(r)
    <3>1. base' = base /\ crossed' = crossed /\ \A t \in Turns : Open(t)' => Open(t)
      BY <1>0, <1>1, <2>3 DEF Asks, Enqueue, EnqueueFails, Answer, AgentFails, Open
    <3> QED
      BY <2>1, <3>1 DEF DraftInv
  <2> QED
    BY <2>2, <2>3
<1>2. ASSUME UNCHANGED <<base, crossed, draft, drafted>>,
             \A t \in Turns : Open(t)' => Open(t)
      PROVE  DraftInv'
  BY <1>2 DEF DraftInv
<1>3. ASSUME NEW d \in Consumers, ConsumerActs(d) PROVE DraftInv'
  <2>1. ConsumerActs(c)
    BY <1>3
  <2>2. ASSUME NEW a \in results, Take(c, a) PROVE DraftInv'
    BY <1>2, <2>2 DEF Take, Open
  <2>3. CASE Ack(c) \/ HandlerThrows(c) \/ Interrupted(c)
    <3>1. UNCHANGED <<base, crossed, draft, drafted>> /\ at[c] # "idle"
      BY <1>0, <2>3, EndTypes
    <3>2. \A q \in Requests : stage'[q] = stage[q] \/ stage'[q] \in {"applied", "failed"}
      <4>1. hand[c].from \in Requests
        BY <1>0, <3>1, HandWaits
      <4> QED
        BY <1>0, <2>3, <4>1, EndFacts
    <3>3. \A t \in Turns : Open(t)' => Open(t)
      BY <1>0, <3>2 DEF Open
    <3> QED
      BY <1>2, <3>1, <3>3
  <2>4. CASE Handles(c)
    <3>1. UNCHANGED <<stage, base, crossed>> /\ at[c] # "idle"
      BY <1>0, <2>4, HandlesGoes DEF Goes
    <3>2. CASE UNCHANGED <<draft, drafted>>
      BY <1>2, <3>1, <3>2 DEF Open
    <3>3. CASE ~UNCHANGED <<draft, drafted>>
      <4>1. PICK w \in todo[c] : Land(c, w)
        BY <2>4, <3>3
        DEF Handles, Lookup, LandFails, AllLanded, Clear, Fill, CreateTasks, DeleteCases,
            DeleteDocs, Save, CreateCases, LogActivity
      <4>2. at[c] = "write" /\ SaveDraft(c)
        BY <3>3, <4>1 DEF Land, Step
      <4> DEFINE r == hand[c].from
      <4>3. r \in Turns /\ stage[r] = "answered" /\ hand[c].of = base[r] \cup {r}
        <5>1. hand[c].status \in {"clarify", "complete"}
          BY <1>0, <4>2 DEF TypeInv, Fits
        <5> QED
          BY <1>0, <3>1, <5>1, HandFacts, HandWaits
      <4>4. Open(r)
        BY <4>3 DEF Open
      <4>5. draft' = base[r] \cup {r} /\ drafted' = drafted \cup {r}
        BY <4>2, <4>3 DEF SaveDraft
      <4> HIDE DEF r
      <4> QED
        BY <3>1, <4>3, <4>4, <4>5 DEF DraftInv, Open
    <3> QED
      BY <3>2, <3>3
  <2> QED
    BY <1>0, <2>1, <2>2, <2>3, <2>4, ActsMoves
<1>4. ASSUME NEW i \in 1 .. Len(docs), Remove(i) PROVE DraftInv'
  BY <1>2, <1>4 DEF Remove, Open
<1>5. CASE UNCHANGED vars
  BY <1>2, <1>5 DEF vars, Open
<1> QED
  BY <1>1, <1>3, <1>4, <1>5, Steps

\* With one API process, what a turn brought to the draft stays there as long as
\* each turn is asked after the earlier ones were answered: no repeated result
\* and no failed write takes anything out of it.
THEOREM SequentialTurnsAreKept ==
  ASSUME NEW c, Consumers = {c}
  PROVE  Spec => []SequentialTurnsKept
<1> DEFINE IInv == TypeInv /\ Serial(c) /\ DraftInv
<1>1. Init => IInv
  <2>1. Init => DraftInv
    BY DEF Init, DraftInv, Open, Requests
  <2> QED
    BY <2>1, ArtifactsAssumption, TypesFirst, SerialFirst
<1>2. IInv /\ [Next]_vars => IInv'
  BY ArtifactsAssumption, TypesNext, SerialNext, DraftNext
<1>3. IInv => SequentialTurnsKept
  BY DEF DraftInv, SequentialTurnsKept
<1> QED
  BY <1>1, <1>2, <1>3, PTL DEF Spec

-----------------------------------------------------------------------------
(* The tasks of a plan.                                                    *)

\* The tasks of plan p are still to be created: not when the consumer has
\* created them and is about to acknowledge its result.
Created(c, p) == at[c] \in {"log", "ack"} /\ hand[c].from = p

Pending(c, p) ==
  \/ stage[p] \in {"new", "asking", "queued"}
  \/ stage[p] = "answered" /\ ~Created(c, p)

PlanInv(c) ==
  \A p \in Plans : tasks[p] + (IF Pending(c, p) THEN 1 ELSE 0) <= 1 + faults

LEMMA PlanNext ==
  ASSUME TypeInv, ArtifactsAssumption, NEW c, Consumers = {c}, Serial(c), PlanInv(c), [Next]_vars
  PROVE  PlanInv(c)'
<1> USE DEF requestVars, consumerVars, memoryVars, artifactVars
<1>0. /\ stage \in [Requests -> Stages] /\ c \in Consumers /\ Plans \subseteq Requests
      /\ tasks \in [Plans -> Nat] /\ faults \in Nat
  BY DEF TypeInv, TypeOK, Stages, Requests
<1>1. TypeInv' /\ tasks' \in [Plans -> Nat] /\ faults' \in Nat
  BY TypesNext DEF TypeInv, TypeOK
<1>2. ASSUME tasks' = tasks, faults' >= faults, \A p \in Plans : Pending(c, p)' => Pending(c, p)
      PROVE  PlanInv(c)'
  <2> SUFFICES ASSUME NEW p \in Plans
               PROVE  tasks'[p] + (IF Pending(c, p)' THEN 1 ELSE 0) <= 1 + faults'
    BY DEF PlanInv
  <2>1. tasks[p] \in Nat /\ tasks'[p] = tasks[p] /\ (Pending(c, p)' => Pending(c, p))
        /\ tasks[p] + (IF Pending(c, p) THEN 1 ELSE 0) <= 1 + faults
    BY <1>0, <1>2 DEF PlanInv
  <2> QED
    BY <1>0, <1>1, <1>2, <2>1
<1>3. ASSUME NEW r \in Requests, Asks(r) PROVE PlanInv(c)'
  <2>1. UNCHANGED <<at, hand, tasks>> /\ faults' >= faults
    BY <1>0, <1>3 DEF Asks, Ask, Enqueue, EnqueueFails, Answer, AgentFails, Fault
  <2>2. stage[r] \in {"new", "asking", "queued"} /\ \A q \in Requests : q # r => stage'[q] = stage[q]
    BY <1>0, <1>3 DEF Asks, Ask, Enqueue, EnqueueFails, Answer, AgentFails
  <2>3. \A p \in Plans : Pending(c, p)' => Pending(c, p)
    BY <1>0, <2>1, <2>2 DEF Pending, Created
  <2> QED
    BY <1>2, <2>1, <2>3
<1>4. ASSUME NEW d \in Consumers, ConsumerActs(d) PROVE PlanInv(c)'
  <2>1. ConsumerActs(c)
    BY <1>4
  <2>2. ASSUME NEW a \in results, Take(c, a) PROVE PlanInv(c)'
    <3>1. at[c] = "idle" /\ UNCHANGED <<stage, tasks, faults>>
      BY <2>2 DEF Take, Step
    <3>2. \A p \in Plans : Pending(c, p)' => Pending(c, p)
      BY <3>1 DEF Pending, Created
    <3> QED
      BY <1>0, <1>2, <3>1, <3>2
  <2>3. CASE CreateTasks(c)
    <3> PICK q : q = hand[c].from
      OBVIOUS
    <3>1. /\ at[c] = "tasks" /\ tasks' = [tasks EXCEPT ![q] = @ + 1]
          /\ q \in Plans /\ stage[q] = "answered"
      BY <1>0, <2>3, HandWaits DEF CreateTasks, Step, TypeInv, Fits
    <3>2. at'[c] = "log" /\ hand' = hand /\ stage' = stage /\ faults' = faults
      BY <1>0, <2>3, OnwardTypes
    <3>3. hand'[c].from = q
      BY <3>2
    <3>4. Pending(c, q) /\ ~Pending(c, q)'
      BY <3>1, <3>2, <3>3 DEF Pending, Created
    <3>5. \A p \in Plans : p # q => (Pending(c, p)' => Pending(c, p))
      BY <3>1, <3>2 DEF Pending, Created
    <3> SUFFICES ASSUME NEW p \in Plans
                 PROVE  tasks'[p] + (IF Pending(c, p)' THEN 1 ELSE 0) <= 1 + faults'
      BY DEF PlanInv
    <3>6. tasks[p] \in Nat /\ tasks[p] + (IF Pending(c, p) THEN 1 ELSE 0) <= 1 + faults
      BY <1>0 DEF PlanInv
    <3>7. CASE p = q
      <4>1. tasks'[p] = tasks[p] + 1
        BY <1>0, <3>1, <3>7
      <4> QED
        BY <1>0, <3>2, <3>4, <3>6, <3>7, <4>1
    <3>8. CASE p # q
      <4>1. tasks'[p] = tasks[p]
        BY <1>0, <3>1, <3>8
      <4> QED
        BY <1>0, <3>2, <3>5, <3>6, <3>8, <4>1
    <3> QED
      BY <3>7, <3>8
  <2>4. CASE Handles(c) /\ ~CreateTasks(c)
    <3>1. hand'[c] = hand[c] /\ stage' = stage /\ faults' >= faults
      BY <1>0, <2>4, HandlesGoes DEF Goes
    <3>2. tasks' = tasks
      BY <2>4 DEF Handles, Lookup, Land, LandFails, AllLanded, Clear, Fill, DeleteCases,
         DeleteDocs, Save, CreateCases, LogActivity, SaveDraft, SaveSpec, SaveDoc
    <3>3. at[c] \in {"log", "ack"} => at'[c] \in {"log", "ack"}
      <4>1. CASE LogActivity(c)
        BY <1>0, <4>1, OnwardTypes
      <4> QED
        BY <2>4, <4>1 DEF Handles, Lookup, Land, LandFails, AllLanded, Clear, Fill, DeleteCases,
           DeleteDocs, Save, CreateCases, Step
    <3>4. \A p \in Plans : Pending(c, p)' => Pending(c, p)
      BY <3>1, <3>3 DEF Pending, Created
    <3> QED
      BY <1>2, <3>1, <3>2, <3>4
  <2>5. CASE Ack(c) \/ HandlerThrows(c)
    <3>1. tasks' = tasks /\ faults' = faults /\ at[c] # "idle"
      BY <1>0, <2>5, EndTypes DEF Acked
    <3>2. hand[c].from \in Requests
      BY <1>0, <3>1, HandWaits
    <3>3. ASSUME NEW p \in Plans, Pending(c, p)' PROVE Pending(c, p)
      <4>1. CASE p # hand[c].from
        <5>1. stage'[p] = stage[p]
          BY <1>0, <2>5, <3>2, <4>1, EndFacts
        <5> QED
          BY <3>3, <4>1, <5>1 DEF Pending, Created
      <4>2. CASE p = hand[c].from
        <5>1. CASE Ack(c)
          <6>1. stage'[p] = "applied"
            BY <1>0, <3>2, <4>2, <5>1, EndTypes DEF Acked
          <6> QED
            BY <3>3, <6>1 DEF Pending
        <5>2. CASE HandlerThrows(c)
          <6>1. at[c] \in {"write", "save"}
            BY <1>0, <5>2, EndTypes
          <6>2. p \notin Plans
            <7>1. hand[c].status \in {"clarify", "complete"} => p \in Turns
              BY <1>0, <3>1, <4>2, HandFacts
            <7>2. p \in Turns \cup Suites \cup Archs
              BY <1>0, <4>2, <6>1, <7>1 DEF TypeInv, Fits
            <7> QED
              BY <1>0, <7>2, Kinds
          <6> QED
            BY <6>2
        <5> QED
          BY <2>5, <5>1, <5>2
      <4> QED
        BY <4>1, <4>2
    <3> QED
      BY <1>0, <1>2, <3>1, <3>3
  <2>6. CASE Interrupted(c)
    <3>1. tasks' = tasks /\ faults' = faults + 1
      BY <1>0, <2>6, EndTypes
    <3> SUFFICES ASSUME NEW p \in Plans
                 PROVE  tasks'[p] + (IF Pending(c, p)' THEN 1 ELSE 0) <= 1 + faults'
      BY DEF PlanInv
    <3>2. tasks[p] \in Nat /\ tasks[p] + (IF Pending(c, p) THEN 1 ELSE 0) <= 1 + faults
      BY <1>0 DEF PlanInv
    <3> QED
      BY <1>0, <3>1, <3>2
  <2> QED
    BY <1>0, <2>1, <2>2, <2>3, <2>4, <2>5, <2>6, ActsMoves
<1>5. ASSUME NEW i \in 1 .. Len(docs), Remove(i) PROVE PlanInv(c)'
  BY <1>0, <1>2, <1>5 DEF Remove, Pending, Created
<1>6. CASE UNCHANGED vars
  BY <1>0, <1>2, <1>6 DEF vars, Pending, Created
<1> QED
  BY <1>3, <1>4, <1>5, <1>6, Steps

\* With one API process the tasks of a plan are created again only after a
\* failure that came between their creation and the acknowledgement.
THEOREM PlansRepeatOnlyAfterFaults ==
  ASSUME NEW c, Consumers = {c}
  PROVE  Spec => []PlanRepeatsNeedFaults
<1> DEFINE IInv == TypeInv /\ Serial(c) /\ PlanInv(c)
<1>1. Init => IInv
  <2>1. Init => PlanInv(c)
    BY DEF Init, PlanInv
  <2> QED
    BY <2>1, ArtifactsAssumption, TypesFirst, SerialFirst
<1>2. IInv /\ [Next]_vars => IInv'
  BY ArtifactsAssumption, TypesNext, SerialNext, PlanNext
<1>3. IInv => PlanRepeatsNeedFaults
  <2> SUFFICES ASSUME TypeInv, PlanInv(c), NEW p \in Plans PROVE tasks[p] <= 1 + faults
    BY DEF PlanRepeatsNeedFaults
  <2>1. /\ tasks[p] \in Nat /\ faults \in Nat
        /\ tasks[p] + (IF Pending(c, p) THEN 1 ELSE 0) <= 1 + faults
    BY DEF TypeInv, TypeOK, PlanInv
  <2> QED
    BY <2>1
<1> QED
  BY <1>1, <1>2, <1>3, PTL DEF Spec

-----------------------------------------------------------------------------
(* One specification and one document of each type.                        *)

UniqueDocs ==
  \A i, k \in 1 .. Len(docs) :
    docs[i].key \in Keys /\ docs[k].key = docs[i].key => i = k

NoneOf(key) == \A i \in 1 .. Len(docs) : docs[i].key # key

\* Consumer c has looked up all documents of this type that are still there.
Holds(c, type) ==
  /\ \A i \in 1 .. Len(docs) : docs[i].key = type => i \in found[c]
  /\ \A i \in found[c] : docs[i].key \in {type, Removed}

\* What c has looked up is still to be replaced or removed.
Replaces(c) ==
  \/ at[c] = "write" /\ "doc" \in todo[c]
  \/ at[c] = "save" /\ hand[c].from \notin Suites
  \/ at[c] \in {"cases", "documents"}

OneInv(c) ==
  /\ Len(specs) <= 1 /\ UniqueDocs
  /\ at[c] = "write" /\ "spec" \in todo[c] => (fresh[c] <=> specs = <<>>)
  /\ Replaces(c) => Holds(c, DocKey(hand[c].from))
  /\ at[c] = "save" /\ hand[c].from \in Suites => NoneOf(Unlayered("stp"))

\* The handler's document is the only one of its type, the others are kept.
Wrote(c) ==
  \E j \in 1 .. Len(docs') :
    /\ docs'[j] = NewDoc(hand[c])
    /\ \A i \in 1 .. Len(docs') : i # j =>
         /\ i \in 1 .. Len(docs) /\ docs'[i] = docs[i]
         /\ docs[i].key # DocKey(hand[c].from)
    /\ \A i \in 1 .. Len(docs) : docs[i].key \in Keys \ {DocKey(hand[c].from)} =>
         i \in 1 .. Len(docs') /\ docs'[i] = docs[i]

\* The test plans are removed, the other documents are kept.
Emptied ==
  /\ Len(docs') = Len(docs)
  /\ \A i \in 1 .. Len(docs) :
       IF docs[i].key = Unlayered("stp") THEN docs'[i].key = Removed ELSE docs'[i] = docs[i]

\* A document is written where the one that was looked up is.
LEMMA SaveWrites ==
  ASSUME TypeInv, ArtifactsAssumption, NEW c \in Consumers, OneInv(c), at[c] # "idle",
         hand[c].from \notin Plans, SaveDoc(c),
         \/ MaySave(c) /\ Replaces(c) /\ hand[c].from \notin Suites
         \/ at[c] = "save" /\ hand[c].from \in Suites
  PROVE  Wrote(c)
<1>1. PICK T : T = DocKey(hand[c].from)
  OBVIOUS
<1>2. hand[c].from \in Requests /\ T \in Keys /\ (hand[c].from \in Suites <=> T = Unlayered("stp"))
  BY <1>1, HandFacts, DocKeys
<1>3. /\ docs' \in Seq(Doc) /\ Len(docs) \in Nat /\ Len(docs') >= Len(docs)
      /\ \/ (found[c] = {} \/ hand[c].from \in Suites) /\ Added(c)
         \/ /\ hand[c].from \notin Suites
            /\ \E i \in found[c] : i \in 1 .. Len(docs) /\ Replaced(c, i)
  BY SaveDocFacts
<1>4. Len(docs') \in Nat
  BY <1>3
<1>5. CASE (found[c] = {} \/ hand[c].from \in Suites) /\ Added(c)
  <2>1. \A i \in 1 .. Len(docs) : docs[i].key # T
    BY <1>1, <1>2, <1>5 DEF OneInv, Holds, NoneOf
  <2>2. PICK j : j = Len(docs) + 1
    OBVIOUS
  <2>3. /\ j \in 1 .. Len(docs') /\ docs'[j] = NewDoc(hand[c])
        /\ \A i \in 1 .. Len(docs') : i # j => i \in 1 .. Len(docs)
        /\ \A i \in 1 .. Len(docs) : i \in 1 .. Len(docs') /\ docs'[i] = docs[i]
    BY <1>3, <1>4, <1>5, <2>2 DEF Added
  <2> QED
    BY <1>1, <2>1, <2>3 DEF Wrote
<1>6. ASSUME NEW j \in found[c], j \in 1 .. Len(docs), Replaced(c, j), hand[c].from \notin Suites
      PROVE  Wrote(c)
  <2>1. docs[j].key # Removed /\ Holds(c, T)
    BY <1>1, <1>6 DEF MaySave, OneInv
  <2>2. docs[j].key = T
    BY <1>6, <2>1 DEF Holds
  <2>3. \A i \in 1 .. Len(docs) : i # j => docs[i].key # T
    BY <1>2, <1>6, <2>2 DEF OneInv, UniqueDocs
  <2>4. /\ 1 .. Len(docs') = 1 .. Len(docs) /\ docs'[j] = NewDoc(hand[c])
        /\ \A i \in 1 .. Len(docs) : i # j => docs'[i] = docs[i]
    BY <1>6 DEF Replaced
  <2> QED
    BY <1>1, <1>6, <2>2, <2>3, <2>4 DEF Wrote
<1> QED
  BY <1>3, <1>5, <1>6

\* How a handler changes the documents.
LEMMA DocsSteps ==
  ASSUME TypeInv, ArtifactsAssumption, NEW c \in Consumers, OneInv(c), Handles(c)
  PROVE  \/ docs' = docs
         \/ /\ Wrote(c) /\ hand[c].from \notin Plans
            /\ Save(c) \/ ("doc" \in todo[c] /\ Land(c, "doc"))
         \/ DeleteDocs(c) /\ Emptied
<1> USE DEF artifactVars
<1>1. ASSUME NEW w \in todo[c], Land(c, w), docs' # docs
      PROVE  Wrote(c) /\ hand[c].from \notin Plans /\ w = "doc"
  <2>1. w = "doc" /\ MaySave(c) /\ SaveDoc(c) /\ at[c] = "write"
    BY <1>1 DEF Land, Step
  <2>2. hand[c].from \in Requests /\ hand[c].from \in Turns
    BY <2>1, HandFacts DEF TypeInv, Fits
  <2>3. hand[c].from \notin Plans /\ hand[c].from \notin Suites
    BY <2>2, Kinds
  <2> QED
    BY <1>1, <2>1, <2>3, SaveWrites DEF Replaces
<1>2. ASSUME Save(c) PROVE Wrote(c) /\ hand[c].from \notin Plans
  <2>1. at[c] = "save" /\ SaveDoc(c) /\ (hand[c].from \in Suites \/ MaySave(c))
    BY <1>2 DEF Save, Step
  <2>2. hand[c].from \in Requests /\ hand[c].from \in Suites \cup Archs
    BY <2>1, HandFacts DEF TypeInv, Fits
  <2>3. hand[c].from \notin Plans
    BY <2>2, Kinds
  <2> QED
    BY <2>1, <2>3, SaveWrites DEF Replaces
<1>3. ASSUME DeleteDocs(c) PROVE Emptied
  <2>1. at[c] = "documents" /\ hand[c].from \in Suites
    BY <1>3 DEF DeleteDocs, Step, TypeInv, Fits
  <2>2. hand[c].from \in Requests /\ hand[c].from \notin Plans
    BY <2>1, Kinds DEF Requests
  <2>3. Holds(c, Unlayered("stp"))
    BY <2>1, <2>2, DocKeys DEF OneInv, Replaces
  <2>4. docs \in Seq(Doc) /\ Len(docs) \in Nat
    BY DEF TypeInv, TypeOK
  <2> DEFINE d(i) == IF i \in found[c] THEN [docs[i] EXCEPT !.key = Removed] ELSE docs[i]
  <2>5. docs' = [i \in 1 .. Len(docs) |-> d(i)]
    BY <1>3 DEF DeleteDocs
  <2>6. \A i \in 1 .. Len(docs) : d(i) \in Doc
    <3> SUFFICES ASSUME NEW i \in 1 .. Len(docs) PROVE d(i) \in Doc
      OBVIOUS
    <3>1. docs[i] \in Doc
      BY <2>4
    <3> QED
      BY <3>1, RemovedKey DEF Doc
  <2>7. \A i \in 1 .. Len(docs) : IF docs[i].key = Unlayered("stp") THEN d(i).key = Removed ELSE d(i) = docs[i]
    <3> SUFFICES ASSUME NEW i \in 1 .. Len(docs)
                 PROVE  IF docs[i].key = Unlayered("stp") THEN d(i).key = Removed ELSE d(i) = docs[i]
      OBVIOUS
    <3>1. docs[i] \in Doc
      BY <2>4
    <3>2. docs[i].key = Unlayered("stp") => i \in found[c]
      BY <2>3 DEF Holds
    <3>3. i \in found[c] /\ docs[i].key # Unlayered("stp") => docs[i].key = Removed
      BY <2>3 DEF Holds
    <3> QED
      BY <3>1, <3>2, <3>3 DEF Doc
  <2> HIDE DEF d
  <2>8. Len(docs') = Len(docs) /\ \A i \in 1 .. Len(docs) : docs'[i] = d(i)
    BY <2>4, <2>5, <2>6
  <2> QED
    BY <2>7, <2>8 DEF Emptied
<1>4. docs' # docs => \/ \E w \in todo[c] : Land(c, w)
                      \/ Save(c) \/ DeleteDocs(c)
  BY DEF Handles, Lookup, LandFails, AllLanded, Clear, Fill, CreateTasks, DeleteCases,
     CreateCases, LogActivity
<1> QED
  BY <1>1, <1>2, <1>3, <1>4

\* The specification that lands is the only one.
LEMMA LandsSpec ==
  ASSUME TypeInv, ArtifactsAssumption, NEW c \in Consumers, OneInv(c),
         "spec" \in todo[c], Land(c, "spec")
  PROVE  specs' = <<hand[c].of>> /\ docs' = docs /\ rows' = rows
<1>1. SaveSpec(c) /\ at[c] = "write" /\ docs' = docs /\ rows' = rows
  BY DEF Land, Step
<1>2. (fresh[c] <=> specs = <<>>) /\ fresh[c] \in BOOLEAN
  BY <1>1 DEF OneInv, TypeInv, TypeOK
<1>3. specs # <<>> => Len(specs) = 1
  <2>1. specs \in Seq(Srs) /\ Len(specs) \in Nat /\ Len(specs) <= 1
    BY DEF TypeInv, TypeOK, OneInv
  <2>2. Len(specs) = 0 => specs = <<>>
    BY <2>1, EmptySeq
  <2>3. PICK n \in Nat : n = Len(specs) /\ n <= 1
    BY <2>1
  <2>4. n = 0 \/ n = 1
    BY <2>3
  <2> QED
    BY <2>2, <2>3, <2>4
<1>4. /\ fresh[c] /\ specs = <<>> => specs' = <<hand[c].of>>
      /\ ~fresh[c] /\ Len(specs) = 1 => specs' = <<hand[c].of>>
  BY <1>1, SaveSpecFacts
<1> QED
  BY <1>1, <1>2, <1>3, <1>4

\* How a handler changes the specification.
LEMMA SpecsSteps ==
  ASSUME TypeInv, ArtifactsAssumption, NEW c \in Consumers, OneInv(c), Handles(c)
  PROVE  \/ specs' = specs
         \/ "spec" \in todo[c] /\ Land(c, "spec") /\ specs' = <<hand[c].of>>
<1>1. specs' # specs => \E w \in todo[c] : Land(c, w)
  BY DEF Handles, Lookup, LandFails, AllLanded, Clear, Fill, CreateTasks, DeleteCases,
     DeleteDocs, Save, CreateCases, LogActivity, artifactVars
<1>2. \A w \in todo[c] : Land(c, w) /\ specs' # specs => w = "spec"
  BY DEF Land, artifactVars
<1> QED
  BY <1>1, <1>2, LandsSpec

\* A document that is written, removed or kept leaves one of each type.
LEMMA UniqueKept ==
  ASSUME TypeInv, ArtifactsAssumption, NEW c \in Consumers, OneInv(c), Handles(c)
  PROVE  UniqueDocs'
<1>1. UniqueDocs /\ at[c] # "idle"
  BY HandlesGoes DEF OneInv, Goes
<1>2. CASE docs' = docs
  BY <1>1, <1>2 DEF UniqueDocs
<1>3. CASE Wrote(c) /\ hand[c].from \notin Plans
  <2>1. NewDoc(hand[c]).key = DocKey(hand[c].from)
    BY <1>1, <1>3, NewDocKey
  <2>2. PICK T : T = DocKey(hand[c].from)
    OBVIOUS
  <2>3. PICK j \in 1 .. Len(docs') :
          /\ docs'[j].key = T
          /\ \A i \in 1 .. Len(docs') : i # j =>
               i \in 1 .. Len(docs) /\ docs'[i] = docs[i] /\ docs[i].key # T
    BY <1>3, <2>1, <2>2 DEF Wrote
  <2> QED
    BY <1>1, <2>3 DEF UniqueDocs
<1>4. CASE Emptied
  <2>1. Removed \notin Keys
    BY DEF Keys
  <2> QED
    BY <1>1, <1>4, <2>1 DEF UniqueDocs, Emptied
<1> QED
  BY <1>2, <1>3, <1>4, DocsSteps

LEMMA OneHandles ==
  ASSUME TypeInv, ArtifactsAssumption, NEW c \in Consumers, OneInv(c), Handles(c)
  PROVE  OneInv(c)'
<1>1. UniqueDocs' /\ Len(specs') <= 1
  <2>1. Len(specs) <= 1
    BY DEF OneInv
  <2>2. specs' = specs \/ specs' = <<hand[c].of>>
    BY SpecsSteps
  <2>3. CASE specs' = specs
    BY <2>1, <2>3, UniqueKept
  <2>4. CASE specs' = <<hand[c].of>>
    <3>1. Len(specs') = 1
      BY <2>4
    <3> QED
      BY <3>1, UniqueKept
  <2> QED
    BY <2>2, <2>3, <2>4
<1>2. at[c] # "idle" /\ hand'[c] = hand[c]
  BY HandlesGoes DEF Goes
<1>3. PICK T : T = DocKey(hand[c].from)
  OBVIOUS
<1>4. T = DocKey(hand'[c].from)
  BY <1>2, <1>3
<1>5. ASSUME docs' = docs, found'[c] = found[c], Holds(c, T) PROVE Holds(c, T)'
  BY <1>5 DEF Holds
<1>6. CASE Lookup(c)
  <2>1. hand[c].from \in Requests /\ hand[c].from \notin Plans /\ at[c] = "lookup"
    BY <1>6, HandFacts DEF Lookup, Step, TypeInv, Fits
  <2>2. docs' = docs /\ specs' = specs
    BY <1>6 DEF Lookup, artifactVars
  <2>3. fresh'[c] = (specs = <<>>) /\ at'[c] \in {"write", "cases", "save"}
        /\ found'[c] \in Found(hand[c].from)
        /\ (at'[c] = "save" => DocsOf(T) = {} \/ hand[c].from \notin Suites)
    BY <1>3, <1>6, LookupTypes
  <2>4. found'[c] = DocsOf(T)
    <3>1. \A i, k \in DocsOf(T) : i = k
      BY <1>3, <2>1, DocKeys DEF DocsOf, OneInv, UniqueDocs
    <3>2. \A i \in DocsOf(T) : i \in Int
      BY DEF DocsOf
    <3>3. Oldest(DocsOf(T)) = DocsOf(T)
      BY <3>1, <3>2 DEF Oldest
    <3>4. \A i \in DocsOf(T) : {i} = DocsOf(T)
      BY <3>1
    <3> QED
      <4>1. \/ found'[c] = DocsOf(T) \/ found'[c] = Oldest(DocsOf(T))
            \/ \E i \in DocsOf(T) : found'[c] = {i}
        BY <1>3, <2>1, <2>3, FoundFacts
      <4> QED
        BY <3>3, <3>4, <4>1
  <2>5. Holds(c, T)'
    BY <2>2, <2>3, <2>4 DEF Holds, DocsOf
  <2>6. at'[c] = "save" /\ hand[c].from \in Suites => NoneOf(Unlayered("stp"))'
    <3>1. hand[c].from \in Suites => T = Unlayered("stp")
      BY <1>3, <2>1, DocKeys
    <3> QED
      BY <2>2, <2>3, <3>1 DEF NoneOf, DocsOf
  <2> QED
    BY <1>1, <1>2, <1>4, <2>2, <2>3, <2>5, <2>6 DEF OneInv
<1>7. ASSUME NEW w \in todo[c], Land(c, w) \/ LandFails(c, w) PROVE OneInv(c)'
  <2>1. /\ at[c] = "write" /\ at'[c] = "write" /\ found'[c] = found[c]
        /\ fresh'[c] = fresh[c] /\ todo'[c] = todo[c] \ {w}
    BY <1>7, LandTypes DEF LandsOne
  <2>2. "spec" \in todo'[c] => specs' = specs
    <3>1. ASSUME "spec" \in todo[c], Land(c, "spec") PROVE "spec" \notin todo'[c]
      BY <3>1, LandTypes
    <3> QED
      BY <3>1, SpecsSteps
  <2>3. "doc" \in todo'[c] => docs' = docs
    <3>1. ASSUME "doc" \in todo[c], Land(c, "doc") PROVE "doc" \notin todo'[c]
      BY <3>1, LandTypes
    <3>2. ~Save(c) /\ ~DeleteDocs(c)
      BY <2>1 DEF Save, DeleteDocs, Step
    <3> QED
      BY <3>1, <3>2, DocsSteps
  <2>4. "doc" \in todo'[c] => Holds(c, T)'
    BY <1>3, <1>5, <2>1, <2>3 DEF OneInv, Replaces
  <2> QED
    BY <1>1, <1>2, <1>4, <2>1, <2>2, <2>4 DEF OneInv, Replaces
<1>8. CASE AllLanded(c) \/ Clear(c) \/ Fill(c) \/ CreateTasks(c) \/ CreateCases(c) \/ LogActivity(c)
  <2>1. at'[c] \in {"clear", "ack", "fill", "log"}
    BY <1>8, AllLandedTypes, ClearTypes, FillTypes, OnwardTypes
  <2> QED
    BY <1>1, <2>1 DEF OneInv, Replaces
<1>9. CASE DeleteCases(c)
  <2>1. at[c] = "cases" /\ at'[c] = "documents" /\ docs' = docs /\ found' = found
    BY <1>9, OnwardTypes DEF DeleteCases, Step
  <2>2. Holds(c, T)'
    BY <1>3, <1>5, <2>1 DEF OneInv, Replaces
  <2> QED
    BY <1>1, <1>4, <2>1, <2>2 DEF OneInv, Replaces
<1>10. CASE DeleteDocs(c)
  <2>1. at[c] = "documents" /\ at'[c] = "save" /\ hand[c].from \in Suites
    BY <1>10, OnwardTypes DEF DeleteDocs, Step, TypeInv, Fits
  <2>2. ~Save(c) /\ ~Land(c, "doc")
    BY <2>1 DEF Save, Land, Step
  <2>3. NoneOf(Unlayered("stp"))'
    <3>1. Emptied \/ docs' = docs
      BY <2>2, DocsSteps
    <3>2. CASE Emptied
      BY <3>2, RemovedKey DEF Emptied, NoneOf
    <3>3. CASE docs' = docs
      <4>1. Holds(c, Unlayered("stp"))
        <5>1. hand[c].from \in Requests /\ hand[c].from \notin Plans
          BY <2>1, Kinds DEF Requests
        <5> QED
          BY <2>1, <5>1, DocKeys DEF OneInv, Replaces
      <4>2. \A i \in found[c] : docs'[i].key = Removed
        <5>1. docs \in Seq(Doc) /\ found[c] \subseteq 1 .. Len(docs)
          BY DEF TypeInv, TypeOK
        <5>2. \A i \in found[c] : docs'[i] = [docs[i] EXCEPT !.key = Removed] /\ docs[i] \in Doc
          BY <1>10, <5>1 DEF DeleteDocs
        <5> QED
          BY <5>2 DEF Doc
      <4> QED
        BY <3>3, <4>1, <4>2, RemovedKey DEF Holds, NoneOf
    <3> QED
      BY <3>1, <3>2, <3>3
  <2> QED
    BY <1>1, <1>2, <2>1, <2>3 DEF OneInv, Replaces
<1>11. CASE Save(c)
  <2>1. at'[c] \in {"addCases", "ack"}
    BY <1>11, OnwardTypes
  <2> QED
    BY <1>1, <2>1 DEF OneInv, Replaces
<1> QED
  BY <1>6, <1>7, <1>8, <1>9, <1>10, <1>11 DEF Handles

\* Every step leaves one of each.
LEMMA OneNext ==
  ASSUME TypeInv, ArtifactsAssumption, NEW c, Consumers = {c}, OneInv(c), [Next]_vars
  PROVE  OneInv(c)'
<1> USE DEF requestVars, consumerVars, memoryVars, artifactVars
<1>0. c \in Consumers
  OBVIOUS
<1>1. ASSUME UNCHANGED <<specs, docs>>,
             \/ UNCHANGED <<at, hand, found, fresh, todo>>
             \/ at'[c] = "idle"
             \/ /\ at'[c] \in {"write", "lookup", "ack", "tasks"}
                /\ todo'[c] \subseteq {"session", "draft"}
      PROVE  OneInv(c)'
  <2>1. UniqueDocs' /\ Len(specs') <= 1
    BY <1>1 DEF OneInv, UniqueDocs
  <2>2. CASE UNCHANGED <<at, hand, found, fresh, todo>>
    BY <1>1, <2>1, <2>2 DEF OneInv, Replaces, Holds, NoneOf
  <2>3. CASE at'[c] = "idle" \/ (at'[c] \in {"write", "lookup", "ack", "tasks"}
                                 /\ todo'[c] \subseteq {"session", "draft"})
    <3>1. ~Replaces(c)' /\ at'[c] # "save" /\ ~(at'[c] = "write" /\ "spec" \in todo'[c])
      BY <2>3 DEF Replaces
    <3> QED
      BY <2>1, <3>1 DEF OneInv
  <2> QED
    BY <1>1, <2>2, <2>3
<1>2. ASSUME NEW r \in Requests, Asks(r) PROVE OneInv(c)'
  BY <1>1, <1>2 DEF Asks, Ask, Enqueue, EnqueueFails, Answer, AgentFails
<1>3. ASSUME NEW d \in Consumers, ConsumerActs(d) PROVE OneInv(c)'
  <2>1. ConsumerActs(c)
    BY <1>3
  <2>2. ASSUME NEW a \in results, Take(c, a) PROVE OneInv(c)'
    <3>1. UNCHANGED <<specs, docs>>
      BY <2>2 DEF Take
    <3> QED
      BY <1>0, <1>1, <2>2, <3>1, TakeTypes
  <2>3. CASE Ack(c) \/ HandlerThrows(c) \/ Interrupted(c)
    BY <1>0, <1>1, <2>3, EndTypes
  <2> QED
    BY <1>0, <2>1, <2>2, <2>3, ActsMoves, OneHandles
<1>4. ASSUME NEW i \in 1 .. Len(docs), Remove(i) PROVE OneInv(c)'
  <2>1. /\ 1 .. Len(docs') = 1 .. Len(docs) /\ docs'[i].key = Removed
        /\ \A k \in 1 .. Len(docs) : k # i => docs'[k] = docs[k]
        /\ UNCHANGED <<at, hand, found, fresh, todo, specs>>
    BY <1>4, RemoveFacts
  <2>2. found[c] \subseteq 1 .. Len(docs) /\ Removed \notin Keys
    BY <1>0 DEF TypeInv, TypeOK, Keys
  <2>3. UniqueDocs'
    BY <2>1, <2>2 DEF OneInv, UniqueDocs
  <2>4. NoneOf(Unlayered("stp")) => NoneOf(Unlayered("stp"))'
    BY <2>1, RemovedKey DEF NoneOf
  <2>5. PICK T : T = DocKey(hand[c].from)
    OBVIOUS
  <2>6. T = DocKey(hand'[c].from) /\ (Replaces(c)' => Replaces(c))
    BY <2>1, <2>5 DEF Replaces
  <2>7. Replaces(c) => Holds(c, T)'
    <3>1. Replaces(c) => Holds(c, T)
      BY <2>5 DEF OneInv
    <3>2. T # Removed => (Holds(c, T) => Holds(c, T)')
      BY <2>1, <2>2 DEF Holds
    <3>3. Replaces(c) => T # Removed
      <4>1. ASSUME Replaces(c) PROVE T \in Keys
        <5>1. at[c] # "idle" /\ hand[c].from \in Turns \cup Suites \cup Archs
          <6>1. at[c] \in {"write", "save", "cases", "documents"}
            BY <4>1 DEF Replaces
          <6> QED
            BY <1>0, <6>1, HandFacts DEF TypeInv, Fits
        <5> QED
          BY <2>5, <5>1, Kinds, DocKeys DEF Requests
      <4> QED
        BY <2>2, <4>1
    <3> QED
      BY <3>1, <3>2, <3>3
  <2> QED
    BY <2>1, <2>3, <2>4, <2>6, <2>7 DEF OneInv
<1>5. CASE UNCHANGED vars
  BY <1>1, <1>5 DEF vars
<1> QED
  BY <1>2, <1>3, <1>4, <1>5, Steps

LEMMA OneFirst ==
  ASSUME Init, NEW c, Consumers = {c}
  PROVE  OneInv(c)
<1>1. Len(specs) = 0 /\ Len(docs) = 0 /\ at[c] = "idle"
  BY DEF Init
<1> QED
  BY <1>1 DEF OneInv, UniqueDocs, Replaces

\* With one API process there is one specification and one document of each
\* type and layer, for any number of answers, repetitions and failures.
THEOREM OneIsKeptOfEach ==
  ASSUME NEW c, Consumers = {c}
  PROVE  Spec => []OneOfEach
<1> DEFINE IInv == TypeInv /\ OneInv(c)
<1>1. Init => IInv
  BY ArtifactsAssumption, TypesFirst, OneFirst
<1>2. IInv /\ [Next]_vars => IInv'
  BY ArtifactsAssumption, TypesNext, OneNext
<1>3. IInv => OneOfEach
  <2>1. ASSUME OneInv(c), TypeOK, NEW i \in 1 .. Len(docs), NEW k \in 1 .. Len(docs),
               docs[i].key = docs[k].key, i # k
        PROVE  docs[i].key = Removed
    <3>1. docs[i] \in Doc
      BY <2>1 DEF TypeOK
    <3>2. docs[i].key \notin Keys
      BY <2>1 DEF OneInv, UniqueDocs
    <3> QED
      BY <3>1, <3>2 DEF Doc, Keys
  <2> QED
    BY <2>1 DEF OneOfEach, OneInv, TypeInv
<1> QED
  BY <1>1, <1>2, <1>3, PTL DEF Spec

-----------------------------------------------------------------------------
(* Any number of API processes: what was generated stays.                  *)

\* What c looked up is the document it answers for, or was removed since.
Looked(c) ==
  Replaces(c) => \A i \in found[c] : docs[i].key \in {DocKey(hand[c].from), Removed}

\* The document of request r was written.
Delivered(r) ==
  stage[r] = "applied" \/ \E c \in Consumers : at[c] = "ack" /\ hand[c].from = r

KeptInv ==
  /\ \A c \in Consumers : Looked(c)
  /\ removals = 0 => \A r \in Archs : Delivered(r) => ~NoneOf(Wanted[r])

\* Documents keep their keys; only test plans are removed.
KeysStay ==
  /\ Len(docs) \in Nat /\ Len(docs') \in Nat /\ Len(docs') >= Len(docs)
  /\ \A i \in 1 .. Len(docs) :
       \/ docs'[i].key = docs[i].key
       \/ docs[i].key \in {Unlayered("stp"), Removed} /\ docs'[i].key = Removed

\* A document that is saved gets the key it was looked up by.
LEMMA SavedKeys ==
  ASSUME TypeInv, ArtifactsAssumption, NEW c \in Consumers, Looked(c), at[c] # "idle",
         hand[c].from \notin Plans, SaveDoc(c),
         hand[c].from \notin Suites => MaySave(c) /\ Replaces(c)
  PROVE  KeysStay /\ \E i \in 1 .. Len(docs') : docs'[i].key = DocKey(hand[c].from)
<1>1. PICK T : T = DocKey(hand[c].from)
  OBVIOUS
<1>2. NewDoc(hand[c]).key = T
  BY <1>1, NewDocKey
<1>3. /\ docs' \in Seq(Doc) /\ Len(docs) \in Nat /\ Len(docs') >= Len(docs)
      /\ \/ (found[c] = {} \/ hand[c].from \in Suites) /\ Added(c)
         \/ /\ hand[c].from \notin Suites
            /\ \E i \in found[c] : i \in 1 .. Len(docs) /\ Replaced(c, i)
  BY SaveDocFacts
<1>4. Len(docs') \in Nat
  BY <1>3
<1>5. CASE Added(c)
  <2>1. /\ Len(docs) + 1 \in 1 .. Len(docs') /\ docs'[Len(docs) + 1].key = T
        /\ \A k \in 1 .. Len(docs) : docs'[k] = docs[k]
    BY <1>2, <1>3, <1>4, <1>5 DEF Added
  <2> QED
    BY <1>1, <1>3, <1>4, <2>1 DEF KeysStay
<1>6. ASSUME NEW j \in found[c], j \in 1 .. Len(docs), Replaced(c, j), hand[c].from \notin Suites
      PROVE  KeysStay /\ \E i \in 1 .. Len(docs') : docs'[i].key = DocKey(hand[c].from)
  <2>1. docs[j].key = T
    BY <1>1, <1>6 DEF MaySave, Looked
  <2>2. /\ Len(docs') = Len(docs) /\ docs'[j].key = T
        /\ \A k \in 1 .. Len(docs) : k # j => docs'[k] = docs[k]
    BY <1>2, <1>6 DEF Replaced
  <2> QED
    BY <1>1, <1>3, <1>4, <1>6, <2>1, <2>2 DEF KeysStay
<1> QED
  BY <1>3, <1>5, <1>6

\* Every step of a handler keeps the keys.
LEMMA HandlesKeys ==
  ASSUME TypeInv, ArtifactsAssumption, NEW c \in Consumers, Looked(c), Handles(c)
  PROVE  KeysStay
<1> USE DEF artifactVars
<1>0. docs \in Seq(Doc) /\ Len(docs) \in Nat /\ found[c] \subseteq 1 .. Len(docs)
  BY DEF TypeInv, TypeOK
<1>1. CASE docs' = docs
  BY <1>0, <1>1 DEF KeysStay
<1>2. ASSUME NEW w \in todo[c], Land(c, w), docs' # docs PROVE KeysStay
  <2>1. w = "doc" /\ MaySave(c) /\ SaveDoc(c) /\ at[c] = "write"
    BY <1>2 DEF Land, Step
  <2>2. hand[c].from \in Requests /\ hand[c].from \in Turns
    BY <2>1, HandFacts DEF TypeInv, Fits
  <2>3. hand[c].from \notin Plans
    BY <2>2, Kinds
  <2> QED
    BY <1>2, <2>1, <2>3, SavedKeys DEF Replaces
<1>3. CASE Save(c)
  <2>1. at[c] = "save" /\ SaveDoc(c) /\ (hand[c].from \in Suites \/ MaySave(c))
    BY <1>3 DEF Save, Step
  <2>2. hand[c].from \in Requests /\ hand[c].from \in Suites \cup Archs
    BY <2>1, HandFacts DEF TypeInv, Fits
  <2>3. hand[c].from \notin Plans
    BY <2>2, Kinds
  <2> QED
    BY <2>1, <2>3, SavedKeys DEF Replaces
<1>4. CASE DeleteDocs(c)
  <2>1. at[c] = "documents" /\ hand[c].from \in Suites
    BY <1>4 DEF DeleteDocs, Step, TypeInv, Fits
  <2>2. hand[c].from \in Requests /\ hand[c].from \notin Plans
    BY <2>1, Kinds DEF Requests
  <2>3. \A i \in found[c] : docs[i].key \in {Unlayered("stp"), Removed}
    BY <2>1, <2>2, DocKeys DEF Looked, Replaces
  <2> DEFINE d(i) == IF i \in found[c] THEN [docs[i] EXCEPT !.key = Removed] ELSE docs[i]
  <2>4. docs' = [i \in 1 .. Len(docs) |-> d(i)]
    BY <1>4 DEF DeleteDocs
  <2>5. Len(docs') = Len(docs)
    BY <1>0, <2>4
  <2>6. \A i \in 1 .. Len(docs) : IF i \in found[c] THEN docs'[i].key = Removed ELSE docs'[i] = docs[i]
    <3> SUFFICES ASSUME NEW i \in 1 .. Len(docs)
                 PROVE  IF i \in found[c] THEN docs'[i].key = Removed ELSE docs'[i] = docs[i]
      OBVIOUS
    <3>1. docs'[i] = d(i) /\ docs[i] \in Doc
      BY <1>0, <2>4
    <3> QED
      BY <3>1 DEF Doc
  <2> QED
    BY <1>0, <2>3, <2>5, <2>6 DEF KeysStay
<1> QED
  BY <1>1, <1>2, <1>3, <1>4
  DEF Handles, Lookup, LandFails, AllLanded, Clear, Fill, CreateTasks, DeleteCases,
      CreateCases, LogActivity

\* A consumer's steps keep what it looked up.
LEMMA LookedNext ==
  ASSUME TypeInv, ArtifactsAssumption, NEW c \in Consumers, Looked(c), Handles(c), KeysStay
  PROVE  Looked(c)'
<1>0. found[c] \subseteq 1 .. Len(docs) /\ hand'[c] = hand[c]
  BY HandlesGoes DEF TypeInv, TypeOK, Goes
<1>1. ASSUME found'[c] = found[c], Replaces(c)' => Replaces(c) PROVE Looked(c)'
  BY <1>0, <1>1 DEF Looked, KeysStay
<1>2. CASE Lookup(c)
  <2>1. hand[c].from \in Requests /\ hand[c].from \notin Plans
    BY <1>2, HandFacts DEF Lookup, Step, TypeInv, Fits
  <2>2. found'[c] \subseteq DocsOf(DocKey(hand[c].from)) /\ docs' = docs
    BY <1>2, <2>1, LookupTypes, FoundFacts DEF Lookup, artifactVars
  <2> QED
    BY <1>0, <2>2 DEF Looked, DocsOf
<1>3. ASSUME NEW w \in todo[c], Land(c, w) \/ LandFails(c, w) PROVE Looked(c)'
  <2>1. /\ at'[c] = "write" /\ found'[c] = found[c] /\ todo'[c] = todo[c] \ {w}
        /\ at[c] = "write"
    BY <1>3, LandTypes DEF Land, LandFails, Step
  <2> QED
    BY <1>1, <2>1 DEF Replaces
<1>4. CASE AllLanded(c) \/ Clear(c) \/ Fill(c) \/ CreateTasks(c) \/ CreateCases(c) \/ LogActivity(c)
  <2>1. at'[c] \in {"clear", "fill", "ack", "log"}
    BY <1>4, AllLandedTypes, ClearTypes, FillTypes, OnwardTypes
  <2> QED
    BY <2>1 DEF Looked, Replaces
<1>5. CASE DeleteCases(c)
  <2>1. at[c] = "cases" /\ at'[c] = "documents" /\ found'[c] = found[c]
    BY <1>5, OnwardTypes DEF DeleteCases, Step
  <2> QED
    BY <1>1, <2>1 DEF Replaces
<1>6. CASE DeleteDocs(c)
  <2>1. at'[c] = "save" /\ hand[c].from \in Suites
    BY <1>6, OnwardTypes DEF DeleteDocs, Step, TypeInv, Fits
  <2> QED
    BY <1>0, <2>1 DEF Looked, Replaces
<1>7. CASE Save(c)
  <2>1. at'[c] \in {"addCases", "ack"}
    BY <1>7, OnwardTypes
  <2> QED
    BY <2>1 DEF Looked, Replaces
<1> QED
  BY <1>2, <1>3, <1>4, <1>5, <1>6, <1>7 DEF Handles

\* Before a handler acknowledges an architecture document it has written it.
LEMMA HandlesDelivers ==
  ASSUME TypeInv, ArtifactsAssumption, NEW c \in Consumers, Looked(c), Handles(c),
         at'[c] = "ack", hand[c].from \in Archs
  PROVE  \E i \in 1 .. Len(docs') : docs'[i].key = Wanted[hand[c].from]
<1>1. hand[c].from \in Requests /\ hand[c].from \notin Turns \cup Plans \cup Suites
  BY Kinds DEF Requests
<1>2. DocKey(hand[c].from) = Wanted[hand[c].from]
  BY <1>1 DEF DocKey
<1>3. CASE Save(c)
  <2>1. at[c] = "save" /\ SaveDoc(c) /\ MaySave(c)
    BY <1>1, <1>3 DEF Save, Step
  <2> QED
    BY <1>1, <1>2, <2>1, SavedKeys DEF Replaces
<1>4. ~\E w \in todo[c] : Land(c, w) \/ LandFails(c, w)
  BY LandTypes
<1>5. ~AllLanded(c) /\ ~Clear(c) /\ ~Fill(c) /\ ~LogActivity(c)
  <2>1. at[c] \in {"write", "clear", "fill"} => hand[c].from \in Turns
    BY HandFacts DEF TypeInv, Fits
  <2>2. at[c] = "log" => hand[c].from \in Plans \cup Suites
    BY DEF TypeInv, Fits
  <2> QED
    BY <1>1, <2>1, <2>2 DEF AllLanded, Clear, Fill, LogActivity, Step
<1>6. ~Lookup(c)
  BY LookupTypes
<1>7. ~CreateTasks(c) /\ ~DeleteCases(c) /\ ~DeleteDocs(c) /\ ~CreateCases(c)
  BY OnwardTypes
<1> QED
  BY <1>3, <1>4, <1>5, <1>6, <1>7 DEF Handles

\* Where the keys stay, so do the documents that were delivered.
LEMMA DeliveredStay ==
  ASSUME ArtifactsAssumption, KeysStay, NEW r \in Archs, ~NoneOf(Wanted[r])
  PROVE  ~NoneOf(Wanted[r])'
<1>1. r \in Requests /\ r \notin Turns \cup Plans \cup Suites
  BY Kinds DEF Requests
<1>2. Wanted[r] = DocKey(r)
  BY <1>1 DEF DocKey
<1>3. Wanted[r] \notin {Unlayered("stp"), Removed}
  BY <1>1, <1>2, DocKeys DEF Keys
<1>4. PICK i \in 1 .. Len(docs) : docs[i].key = Wanted[r]
  BY DEF NoneOf
<1>5. i \in 1 .. Len(docs') /\ docs'[i].key = Wanted[r]
  BY <1>3, <1>4 DEF KeysStay
<1> QED
  BY <1>5 DEF NoneOf

LEMMA KeptConsumer ==
  ASSUME TypeInv, ArtifactsAssumption, KeptInv, NEW c \in Consumers, ConsumerActs(c)
  PROVE  KeptInv'
<1>0. /\ Alone(c) /\ docs \in Seq(Doc) /\ Len(docs) \in Nat /\ Looked(c)
      /\ \A d \in Consumers : found[d] \subseteq 1 .. Len(docs)
      /\ stage \in [Requests -> Stages]
  BY ConsumerKeepsTypes DEF TypeInv, TypeOK, KeptInv, Stages
<1>1. ASSUME KeysStay, Looked(c)', removals' = removals,
             \A r \in Archs : Delivered(r)' => Delivered(r) \/ ~NoneOf(Wanted[r])'
      PROVE  KeptInv'
  <2>1. ASSUME NEW d \in Consumers, d # c PROVE Looked(d)'
    <3>1. /\ at'[d] = at[d] /\ hand'[d] = hand[d] /\ todo'[d] = todo[d] /\ found'[d] = found[d]
          /\ Looked(d)
      BY <1>0, <2>1 DEF Alone, KeptInv
    <3> QED
      BY <1>0, <1>1, <3>1 DEF Looked, Replaces, KeysStay
  <2> QED
    BY <1>1, <2>1, DeliveredStay DEF KeptInv
<1>2. docs' = docs => KeysStay
  BY <1>0 DEF KeysStay
<1>3. ASSUME NEW a \in results, Take(c, a) PROVE KeptInv'
  <2>1. /\ at'[c] \in {"write", "lookup", "ack", "tasks"} /\ todo'[c] \subseteq {"session", "draft"}
        /\ hand'[c] = a /\ (at'[c] = "ack" => a.status = "answer")
    BY <1>3, TakeTypes
  <2>2. docs' = docs /\ stage' = stage /\ removals' = removals
    BY <1>3 DEF Take, artifactVars, requestVars
  <2>3. at'[c] = "ack" => hand'[c].from \in Turns
    BY <2>1 DEF TypeInv, Proper, Answers
  <2>4. \A r \in Archs : r \notin Turns
    BY Kinds DEF Requests
  <2>5. \A r \in Archs : Delivered(r)' => Delivered(r)
    BY <1>0, <2>2, <2>3, <2>4 DEF Delivered, Alone
  <2>6. Looked(c)'
    BY <2>1 DEF Looked, Replaces
  <2> QED
    BY <1>1, <1>2, <2>2, <2>5, <2>6
<1>4. CASE Handles(c)
  <2>1. KeysStay /\ Looked(c)'
    BY <1>0, <1>4, HandlesKeys, LookedNext
  <2>2. stage' = stage /\ removals' = removals /\ hand'[c] = hand[c]
    BY <1>4, HandlesGoes DEF Goes, requestVars
  <2>3. \A r \in Archs : Delivered(r)' => Delivered(r) \/ ~NoneOf(Wanted[r])'
    <3> SUFFICES ASSUME NEW r \in Archs, Delivered(r)', ~Delivered(r)
                 PROVE  ~NoneOf(Wanted[r])'
      OBVIOUS
    <3>1. at'[c] = "ack" /\ hand[c].from = r
      BY <1>0, <2>2 DEF Delivered, Alone
    <3>2. PICK i \in 1 .. Len(docs') : docs'[i].key = Wanted[r]
      BY <1>0, <1>4, <3>1, HandlesDelivers
    <3> QED
      BY <3>2 DEF NoneOf
  <2> QED
    BY <1>1, <2>1, <2>2, <2>3
<1>5. CASE Ack(c) \/ HandlerThrows(c) \/ Interrupted(c)
  <2>1. /\ at[c] # "idle" /\ at'[c] = "idle" /\ docs' = docs /\ removals' = removals
        /\ Ack(c) => at[c] = "ack" /\ Acked(c)
        /\ ~Ack(c) => GaveUp(c)
    BY <1>5, EndTypes DEF artifactVars
  <2>2. hand[c].from \in Requests
    BY <2>1, HandFacts
  <2>3. \A r \in Archs : stage'[r] = "applied" => stage[r] = "applied" \/ (at[c] = "ack" /\ hand[c].from = r)
    BY <1>0, <1>5, <2>1, <2>2 DEF Acked, GaveUp, Requests
  <2>4. \A r \in Archs : Delivered(r)' => Delivered(r)
    BY <1>0, <2>1, <2>3 DEF Delivered, Alone
  <2>5. Looked(c)'
    BY <2>1 DEF Looked, Replaces
  <2> QED
    BY <1>1, <1>2, <2>1, <2>4, <2>5
<1> QED
  BY <1>3, <1>4, <1>5, ActsMoves

LEMMA KeptNext ==
  ASSUME TypeInv, ArtifactsAssumption, KeptInv, [Next]_vars
  PROVE  KeptInv'
<1> USE DEF consumerVars, memoryVars
<1>1. ASSUME NEW r \in Requests, Asks(r) PROVE KeptInv'
  <2>1. UNCHANGED <<at, hand, found, todo, docs, removals>>
    BY <1>1 DEF Asks, Ask, Enqueue, EnqueueFails, Answer, AgentFails, artifactVars
  <2>2. \A q \in Archs : stage'[q] = "applied" => stage[q] = "applied"
    BY <1>1 DEF Asks, Ask, Enqueue, EnqueueFails, Answer, AgentFails, TypeInv, TypeOK, Requests
  <2> QED
    BY <2>1, <2>2 DEF KeptInv, Looked, Replaces, Delivered, NoneOf
<1>2. ASSUME NEW c \in Consumers, ConsumerActs(c) PROVE KeptInv'
  BY <1>2, KeptConsumer
<1>3. ASSUME NEW i \in 1 .. Len(docs), Remove(i) PROVE KeptInv'
  <2>1. /\ docs'[i].key = Removed /\ removals' = removals + 1 /\ removals \in Nat
        /\ \A k \in 1 .. Len(docs) : k # i => docs'[k] = docs[k]
        /\ UNCHANGED <<at, hand, found, todo>>
    BY <1>3, RemoveFacts DEF TypeInv, TypeOK
  <2>2. \A c \in Consumers : found[c] \subseteq 1 .. Len(docs)
    BY DEF TypeInv, TypeOK
  <2> QED
    BY <2>1, <2>2 DEF KeptInv, Looked, Replaces
<1>4. CASE UNCHANGED vars
  BY <1>4 DEF vars, requestVars, artifactVars, KeptInv, Looked, Replaces, Delivered, NoneOf
<1> QED
  BY <1>1, <1>2, <1>3, <1>4, Steps

\* With any number of API processes, and whatever fails or is repeated, a
\* generated architecture document is there until a user removes one: no
\* handler writes over the document of another type or layer.
THEOREM LayersStayApart == Spec => []LayersApart
<1> DEFINE IInv == TypeInv /\ KeptInv
<1>1. Init => IInv
  <2>1. Init => KeptInv
    BY DEF Init, KeptInv, Looked, Replaces, Delivered, Requests
  <2> QED
    BY <2>1, ArtifactsAssumption, TypesFirst
<1>2. IInv /\ [Next]_vars => IInv'
  BY ArtifactsAssumption, TypesNext, KeptNext
<1>3. IInv => LayersApart
  BY DEF KeptInv, Delivered, LayersApart, NoneOf, DocsOf
<1> QED
  BY <1>1, <1>2, <1>3, PTL DEF Spec

-----------------------------------------------------------------------------
(* The test cases and the test plan.                                       *)

CasesAgree ==
  \A i \in 1 .. Len(docs) : docs[i].key = Unlayered("stp") => cases = CasesOf(docs[i].from)

\* As long as no document was removed by a user: an agreement is only lost
\* while an answer waits that will restore it, cases are never left without a
\* test plan, and the handler of a suite writes its own to an empty table.
CasesInv(c) ==
  removals = 0 =>
    /\ shelved = {} => CasesAgree \/ \E a \in results : a.from \in Suites
    /\ cases # NoSuite => ~NoneOf(Unlayered("stp"))
    /\ at[c] \in {"documents", "addCases"} => cases = NoSuite
    /\ at[c] = "save" /\ hand[c].from \in Suites => cases = NoSuite
    /\ at[c] = "addCases" =>
         /\ ~NoneOf(Unlayered("stp"))
         /\ \A i \in 1 .. Len(docs) : docs[i].key = Unlayered("stp") => docs[i].from = hand[c].from
    /\ at[c] \in {"log", "ack"} /\ hand[c].from \in Suites => CasesAgree

\* Answers that are not of a suite leave the cases and the test plan alone.
LEMMA PlanKept ==
  ASSUME TypeInv, ArtifactsAssumption, NEW c \in Consumers, OneInv(c), Handles(c),
         hand[c].from \notin Suites
  PROVE  /\ cases' = cases /\ (CasesAgree => CasesAgree') /\ (~NoneOf(Unlayered("stp")) => ~NoneOf(Unlayered("stp"))')
         /\ at'[c] \notin {"documents", "addCases"} /\ hand'[c] = hand[c]
<1>1. at[c] # "idle" /\ hand'[c] = hand[c] /\ hand[c].from \in Requests
  BY HandlesGoes, HandFacts DEF Goes
<1>2. at'[c] \notin {"documents", "addCases"}
  <2>1. TypeInv'
    BY ConsumerKeepsTypes DEF ConsumerActs, Handles
  <2> QED
    BY <1>1, <2>1 DEF TypeInv, Fits
<1>3. ~DeleteCases(c) /\ ~DeleteDocs(c) /\ ~CreateCases(c)
  BY DEF DeleteCases, DeleteDocs, CreateCases, Step, TypeInv, Fits
<1>4. cases' = cases
  BY <1>3 DEF Handles, Lookup, Land, LandFails, AllLanded, Clear, Fill, CreateTasks, Save,
     LogActivity, artifactVars
<1>5. CASE docs' = docs
  BY <1>1, <1>2, <1>4, <1>5 DEF CasesAgree, NoneOf
<1>6. CASE Wrote(c) /\ hand[c].from \notin Plans
  <2>1. PICK T : T = DocKey(hand[c].from)
    OBVIOUS
  <2>2. T # Unlayered("stp") /\ NewDoc(hand[c]).key = T
    BY <1>1, <1>6, <2>1, DocKeys, NewDocKey
  <2>3. /\ \A i \in 1 .. Len(docs') : docs'[i].key = Unlayered("stp") => i \in 1 .. Len(docs) /\ docs'[i] = docs[i]
        /\ \A i \in 1 .. Len(docs) : docs[i].key = Unlayered("stp") => i \in 1 .. Len(docs') /\ docs'[i] = docs[i]
    BY <1>6, <2>1, <2>2, RemovedKey DEF Wrote, Keys
  <2> QED
    BY <1>1, <1>2, <1>4, <2>3 DEF CasesAgree, NoneOf
<1> QED
  BY <1>3, <1>5, <1>6, DocsSteps

LEMMA CasesHandles ==
  ASSUME TypeInv, ArtifactsAssumption, NEW c, Consumers = {c}, Serial(c), OneInv(c),
         CasesInv(c), Handles(c)
  PROVE  CasesInv(c)'
<1>0. c \in Consumers
  OBVIOUS
<1>1. /\ at[c] # "idle" /\ hand'[c] = hand[c] /\ results' = results /\ shelved' = shelved
      /\ removals' = removals
  BY <1>0, HandlesGoes DEF Goes
<1>2. hand[c] \in results /\ hand[c].from \in Requests
  BY <1>0, <1>1, HandWaits
<1> SUFFICES ASSUME removals = 0 PROVE CasesInv(c)'
  BY <1>1 DEF CasesInv
<1>3. CASE hand[c].from \notin Suites
  BY <1>0, <1>1, <1>3, PlanKept DEF CasesInv
<1>4. CASE hand[c].from \in Suites
  <2>1. \E a \in results' : a.from \in Suites
    BY <1>1, <1>2, <1>4
  <2>2. hand[c].from \notin Turns /\ hand[c].from \notin Plans /\ hand[c].status = "ok"
    BY <1>0, <1>1, <1>2, <1>4, Kinds, HandFacts
  <2>3. at[c] \notin {"write", "clear", "fill", "tasks"}
    BY <1>0, <2>2 DEF TypeInv, Fits
  <2>4. DocKey(hand[c].from) = Unlayered("stp")
    BY <1>2, <1>4, <2>2, DocKeys
  <2>5. CASE Lookup(c)
    <3>1. /\ at'[c] = IF DocsOf(Unlayered("stp")) # {} THEN "cases" ELSE "save"
          /\ docs' = docs /\ cases' = cases
      BY <1>0, <1>4, <2>2, <2>4, <2>5, LookupTypes DEF Lookup, artifactVars
    <3>2. at'[c] = "save" => NoneOf(Unlayered("stp"))
      BY <3>1 DEF NoneOf, DocsOf
    <3> QED
      BY <2>1, <3>1, <3>2 DEF CasesInv, NoneOf
  <2>6. CASE DeleteCases(c)
    <3>1. at'[c] = "documents" /\ cases' = NoSuite
      BY <1>0, <2>6, OnwardTypes DEF DeleteCases
    <3> QED
      BY <2>1, <3>1 DEF CasesInv
  <2>7. CASE DeleteDocs(c)
    <3>1. at[c] = "documents" /\ at'[c] = "save" /\ cases' = cases
      BY <1>0, <2>7, OnwardTypes DEF DeleteDocs, Step
    <3> QED
      BY <2>1, <3>1 DEF CasesInv
  <2>8. CASE Save(c)
    <3>1. at[c] = "save" /\ at'[c] = "addCases" /\ cases' = cases /\ SaveDoc(c)
      BY <1>0, <1>4, <2>8, OnwardTypes DEF Save, Step
    <3>2. Wrote(c) /\ NewDoc(hand[c]).key = Unlayered("stp") /\ NewDoc(hand[c]).from = hand[c].from
      BY <1>0, <1>1, <1>4, <2>2, <2>4, <3>1, SaveWrites, NewDocKey
    <3>3. PICK x : x = NewDoc(hand[c])
      OBVIOUS
    <3>4. PICK j \in 1 .. Len(docs') :
            /\ docs'[j] = x
            /\ \A i \in 1 .. Len(docs') : i # j => docs'[i] = docs[i] /\ docs[i].key # Unlayered("stp")
      BY <2>4, <3>2, <3>3 DEF Wrote
    <3>5. \A i \in 1 .. Len(docs') : docs'[i].key = Unlayered("stp") => docs'[i].from = hand[c].from
      BY <3>2, <3>3, <3>4
    <3>6. ~NoneOf(Unlayered("stp"))'
      BY <3>2, <3>3, <3>4 DEF NoneOf
    <3> QED
      BY <1>1, <1>4, <2>1, <3>1, <3>5, <3>6 DEF CasesInv
  <2>9. CASE CreateCases(c)
    <3>1. at[c] = "addCases" /\ at'[c] = "log" /\ docs' = docs
          /\ cases' = IF cases = NoSuite THEN CasesOf(hand[c].from) ELSE cases
      BY <1>0, <2>9, OnwardTypes DEF CreateCases, Step
    <3>2. cases' = CasesOf(hand[c].from)
      BY <3>1 DEF CasesInv
    <3>3. CasesAgree' /\ ~NoneOf(Unlayered("stp"))'
      BY <3>1, <3>2 DEF CasesInv, CasesAgree, NoneOf
    <3> QED
      BY <2>1, <3>1, <3>3 DEF CasesInv
  <2>10. CASE LogActivity(c)
    <3>1. at[c] = "log" /\ at'[c] = "ack" /\ docs' = docs /\ cases' = cases
      BY <1>0, <2>10, OnwardTypes DEF LogActivity, Step, artifactVars
    <3>2. CasesAgree'
      BY <1>4, <3>1 DEF CasesInv, CasesAgree
    <3> QED
      BY <2>1, <3>1, <3>2 DEF CasesInv, NoneOf
  <2> QED
    BY <2>3, <2>5, <2>6, <2>7, <2>8, <2>9, <2>10
    DEF Handles, Land, LandFails, AllLanded, Clear, Fill, CreateTasks, Step
<1> QED
  BY <1>3, <1>4

LEMMA CasesNext ==
  ASSUME TypeInv, ArtifactsAssumption, NEW c, Consumers = {c}, Serial(c), OneInv(c),
         CasesInv(c), [Next]_vars
  PROVE  CasesInv(c)'
<1> USE DEF requestVars, consumerVars, memoryVars, artifactVars
<1>0. c \in Consumers
  OBVIOUS
<1>1. ASSUME UNCHANGED <<docs, cases, removals, shelved>>,
             results \subseteq results',
             \/ at'[c] = at[c] /\ hand'[c] = hand[c]
             \/ at'[c] \in {"idle", "write", "lookup", "tasks"}
             \/ at'[c] = "ack" /\ hand'[c].from \notin Suites
      PROVE  CasesInv(c)'
  BY <1>1 DEF CasesInv, CasesAgree, NoneOf
<1>2. ASSUME NEW r \in Requests, Asks(r) PROVE CasesInv(c)'
  BY <1>1, <1>2 DEF Asks, Ask, Enqueue, EnqueueFails, Answer, AgentFails
<1>3. ASSUME NEW d \in Consumers, ConsumerActs(d) PROVE CasesInv(c)'
  <2>1. ConsumerActs(c)
    BY <1>3
  <2>2. ASSUME NEW a \in results, Take(c, a) PROVE CasesInv(c)'
    <3>1. UNCHANGED <<docs, cases, removals, shelved, results>>
      BY <2>2 DEF Take
    <3>2. /\ hand'[c] = a /\ at'[c] \in {"write", "lookup", "ack", "tasks"}
          /\ at'[c] = "ack" => a.status = "answer"
      BY <1>0, <2>2, TakeTypes
    <3>3. a.status = "answer" => a.from \notin Suites
      <4>1. Proper(a) /\ a.from \in Requests
        BY DEF TypeInv, Proper, Answers
      <4> QED
        BY <4>1, Kinds DEF Proper
    <3> QED
      BY <1>1, <3>1, <3>2, <3>3
  <2>3. CASE Ack(c) \/ HandlerThrows(c) \/ Interrupted(c)
    <3>1. at'[c] = "idle" /\ UNCHANGED <<docs, cases, removals>>
      BY <1>0, <2>3, EndTypes
    <3>2. CASE results' = results /\ shelved' = shelved
      BY <1>1, <3>1, <3>2
    <3>3. CASE shelved' # {}
      BY <3>1, <3>3 DEF CasesInv, NoneOf
    <3>4. CASE results' = results \ {hand[c]} /\ shelved' = shelved /\ at[c] = "ack"
      <4>1. CASE hand[c].from \in Suites
        BY <3>1, <3>4, <4>1 DEF CasesInv, CasesAgree, NoneOf
      <4>2. CASE hand[c].from \notin Suites
        BY <3>1, <3>4, <4>2 DEF CasesInv, CasesAgree, NoneOf
      <4> QED
        BY <4>1, <4>2
    <3> QED
      BY <1>0, <2>3, <3>2, <3>3, <3>4, EndFacts
  <2> QED
    BY <2>1, <2>2, <2>3, ActsMoves, CasesHandles
<1>4. ASSUME NEW i \in 1 .. Len(docs), Remove(i) PROVE CasesInv(c)'
  <2>1. removals \in Nat /\ removals' = removals + 1
    BY <1>4, RemoveFacts DEF TypeInv, TypeOK
  <2>2. removals' # 0
    BY <2>1
  <2> QED
    BY <2>2 DEF CasesInv
<1>5. CASE UNCHANGED vars
  BY <1>1, <1>5 DEF vars
<1> QED
  BY <1>2, <1>3, <1>4, <1>5, Steps

\* With one API process, and as long as no user removes a document, the test
\* cases are those of the test plan whenever nothing is being handled and no
\* answer was shelved.
THEOREM CasesFollowThePlan ==
  ASSUME NEW c, Consumers = {c}
  PROVE  Spec => []CasesOfTestPlan
<1> DEFINE IInv == TypeInv /\ Serial(c) /\ OneInv(c) /\ CasesInv(c)
<1>1. Init => IInv
  <2>1. Init => CasesInv(c)
    <3> SUFFICES ASSUME Init PROVE CasesInv(c)
      OBVIOUS
    <3>1. Len(docs) = 0 /\ cases = NoSuite /\ at[c] = "idle"
      BY DEF Init
    <3> QED
      BY <3>1 DEF CasesInv, CasesAgree
  <2> QED
    BY <2>1, ArtifactsAssumption, TypesFirst, SerialFirst, OneFirst
<1>2. IInv /\ [Next]_vars => IInv'
  BY ArtifactsAssumption, TypesNext, SerialNext, OneNext, CasesNext
<1>3. IInv => CasesOfTestPlan
  BY DEF CasesOfTestPlan, CasesInv, CasesAgree, Quiet, DocsOf
<1> QED
  BY <1>1, <1>2, <1>3, PTL DEF Spec

-----------------------------------------------------------------------------
(* The specification, its document and its requirements.                   *)

SrsDocsHold(x) == \A i \in 1 .. Len(docs) : docs[i].key = Unlayered("srs") => docs[i].of = x

SpecAgrees ==
  specs # <<>> => /\ SrsDocsHold(LatestSpec)
                  /\ \A f \in LatestSpec : rows[f] = LatestSpec

\* Consumer c handles a completed SRS.
Completes(c) == at[c] # "idle" /\ hand[c].status = "complete"

\* An agreement is only lost while an answer waits that will restore it; what
\* its handler has written agrees with the answer.
AgreeInv(c) ==
  /\ shelved = {} => SpecAgrees \/ \E a \in results : a.status = "complete"
  /\ Completes(c) =>
       /\ at[c] = "write" /\ ~bad[c] =>
            /\ "spec" \notin todo[c] => specs = <<hand[c].of>>
            /\ "doc" \notin todo[c] => SrsDocsHold(hand[c].of)
       /\ at[c] \in {"clear", "fill", "ack"} =>
            /\ specs = <<hand[c].of>> /\ SrsDocsHold(hand[c].of)
            /\ \A f \in hand[c].of : f \notin todo[c] \/ at[c] = "ack" => rows[f] = hand[c].of
       /\ at[c] = "fill" => rows[Next1(c)] = Missing

\* Other answers leave the completed SRS alone.
LEMMA SrsKept ==
  ASSUME TypeInv, ArtifactsAssumption, NEW c \in Consumers, OneInv(c), Handles(c),
         hand[c].status # "complete"
  PROVE  /\ SpecAgrees => SpecAgrees'
         /\ hand'[c] = hand[c]
<1>1. at[c] # "idle" /\ hand'[c] = hand[c] /\ hand[c].from \in Requests
  BY HandlesGoes, HandFacts DEF Goes
<1>2. at[c] \notin {"clear", "fill"} /\ (at[c] = "write" => todo[c] \subseteq {"session", "draft"})
  BY <1>1 DEF TypeInv, Fits
<1>3. ~Clear(c) /\ ~Fill(c)
  BY <1>2 DEF Clear, Fill, Step
<1>4. \A w \in todo[c] : Land(c, w) => w \in {"session", "draft"}
  BY <1>2 DEF Land, Step
<1>5. specs' = specs
  BY <1>4, SpecsSteps
<1>6. rows' = rows
  BY <1>3 DEF Handles, Lookup, Land, LandFails, AllLanded, CreateTasks, DeleteCases, DeleteDocs,
     Save, CreateCases, LogActivity, artifactVars
<1>7. ASSUME NEW x, SrsDocsHold(x) PROVE SrsDocsHold(x)'
  <2>1. CASE docs' = docs
    BY <1>7, <2>1 DEF SrsDocsHold
  <2>2. CASE Wrote(c) /\ Save(c) /\ hand[c].from \notin Plans
    <3>1. hand[c].from \notin Turns
      <4>1. hand[c].from \in Suites \cup Archs
        BY <2>2 DEF Save, Step, TypeInv, Fits
      <4> QED
        BY <1>1, <4>1, Kinds
    <3>2. NewDoc(hand[c]).key # Unlayered("srs")
      BY <1>1, <2>2, <3>1, NewDocKey, DocKeys
    <3>3. \A i \in 1 .. Len(docs') : docs'[i].key = Unlayered("srs") => i \in 1 .. Len(docs) /\ docs'[i] = docs[i]
      BY <2>2, <3>2 DEF Wrote
    <3> QED
      BY <1>7, <3>3 DEF SrsDocsHold
  <2>3. CASE Emptied
    <3>1. \A i \in 1 .. Len(docs') : docs'[i].key = Unlayered("srs") => i \in 1 .. Len(docs) /\ docs'[i] = docs[i]
      BY <2>3, RemovedKey DEF Emptied
    <3> QED
      BY <1>7, <3>1 DEF SrsDocsHold
  <2>4. ~("doc" \in todo[c] /\ Land(c, "doc"))
    BY <1>4
  <2> QED
    BY <2>1, <2>2, <2>3, <2>4, DocsSteps
<1>8. LatestSpec' = LatestSpec
  BY <1>5 DEF LatestSpec
<1>9. PICK x : x = LatestSpec
  OBVIOUS
<1>10. x = LatestSpec'
  BY <1>8, <1>9
<1>11. SrsDocsHold(x) => SrsDocsHold(x)'
  BY <1>7
<1> QED
  BY <1>1, <1>5, <1>6, <1>9, <1>10, <1>11 DEF SpecAgrees

\* The handler of a completed SRS keeps what it has written.
LEMMA AgreeHandles ==
  ASSUME TypeInv, ArtifactsAssumption, NEW c, Consumers = {c}, Serial(c), OneInv(c),
         AgreeInv(c), Handles(c)
  PROVE  AgreeInv(c)'
<1>0. c \in Consumers
  OBVIOUS
<1>1. /\ at[c] # "idle" /\ hand'[c] = hand[c] /\ results' = results /\ shelved' = shelved
  BY <1>0, HandlesGoes DEF Goes
<1>2. hand[c] \in results /\ hand[c].from \in Requests /\ hand[c].of \in Srs
  BY <1>0, <1>1, HandWaits, HandFacts
<1>3. CASE hand[c].status # "complete"
  BY <1>0, <1>1, <1>3, SrsKept DEF AgreeInv, Completes
<1>4. CASE hand[c].status = "complete"
  <2>1. \E a \in results' : a.status = "complete"
    BY <1>1, <1>2, <1>4
  <2>2. hand[c].from \in Turns
    BY <1>0, <1>1, <1>4, HandFacts
  <2>3. hand[c].from \notin Plans /\ hand[c].from \notin Suites /\ hand[c].from \notin Archs
    BY <1>2, <2>2, Kinds
  <2>4. at[c] \notin {"tasks", "cases", "documents", "addCases", "save", "log"}
    BY <1>0, <2>3 DEF TypeInv, Fits
  <2>5. PICK x : x = hand[c].of
    OBVIOUS
  <2>6. Completes(c) /\ x = hand'[c].of
    BY <1>1, <1>4, <2>5 DEF Completes
  <2>7. CASE Lookup(c)
    <3>1. at'[c] = "write" /\ todo'[c] = {"session", "draft", "spec", "doc"}
      BY <1>0, <2>2, <2>7, LookupTypes
    <3> QED
      BY <2>1, <3>1 DEF AgreeInv
  <2>8. ASSUME NEW w \in todo[c], Land(c, w) PROVE AgreeInv(c)'
    <3>1. at[c] = "write" /\ at'[c] = "write" /\ todo'[c] = todo[c] \ {w} /\ bad' = bad
      BY <1>0, <2>8, LandTypes DEF LandsOne, Land
    <3>2. w \in {"session", "draft", "spec", "doc"}
      BY <2>8 DEF Land
    <3>3. CASE w = "spec"
      <4>1. SaveSpec(c) /\ docs' = docs
        BY <2>8, <3>3 DEF Land
      <4>2. specs' = <<x>>
        BY <1>0, <2>5, <2>8, <3>3, LandsSpec
      <4>3. SrsDocsHold(x) => SrsDocsHold(x)'
        BY <4>1 DEF SrsDocsHold
      <4> QED
        BY <2>1, <2>5, <2>6, <3>1, <3>3, <4>2, <4>3 DEF AgreeInv
    <3>4. CASE w = "doc"
      <4>1. MaySave(c) /\ SaveDoc(c) /\ specs' = specs
        BY <2>8, <3>4 DEF Land
      <4>2. Replaces(c)
        BY <3>1, <3>4 DEF Replaces
      <4>3. Wrote(c) /\ NewDoc(hand[c]).key = Unlayered("srs") /\ NewDoc(hand[c]).of = x
            /\ DocKey(hand[c].from) = Unlayered("srs")
        BY <1>0, <1>1, <1>2, <2>2, <2>3, <2>5, <4>1, <4>2, SaveWrites, NewDocKey, DocKeys
      <4>4. SrsDocsHold(x)'
        <5>1. PICK d : d = NewDoc(hand[c])
          OBVIOUS
        <5>2. PICK j \in 1 .. Len(docs') :
                /\ docs'[j] = d
                /\ \A i \in 1 .. Len(docs') : i # j => docs'[i] = docs[i] /\ docs[i].key # Unlayered("srs")
          BY <4>3, <5>1 DEF Wrote
        <5> QED
          BY <4>3, <5>1, <5>2 DEF SrsDocsHold
      <4> QED
        BY <2>1, <2>5, <2>6, <3>1, <3>4, <4>1, <4>4 DEF AgreeInv
    <3>5. CASE w \in {"session", "draft"}
      <4>1. specs' = specs /\ docs' = docs
        BY <2>8, <3>5 DEF Land, artifactVars
      <4>2. SrsDocsHold(x) => SrsDocsHold(x)'
        BY <4>1 DEF SrsDocsHold
      <4> QED
        BY <2>1, <2>5, <2>6, <3>1, <3>5, <4>1, <4>2 DEF AgreeInv
    <3> QED
      BY <3>2, <3>3, <3>4, <3>5
  <2>9. ASSUME NEW w \in todo[c], LandFails(c, w) PROVE AgreeInv(c)'
    <3>1. at'[c] = "write" /\ bad'[c] = TRUE
      <4>1. bad \in [Consumers -> BOOLEAN]
        BY DEF TypeInv, TypeOK
      <4> QED
        BY <1>0, <2>9, <4>1, LandTypes DEF LandFails
    <3> QED
      BY <2>1, <3>1 DEF AgreeInv
  <2>10. CASE AllLanded(c)
    <3>1. /\ at[c] = "write" /\ todo[c] = {} /\ ~bad[c] /\ specs' = specs /\ docs' = docs
          /\ at'[c] = "clear" /\ todo'[c] = x
      BY <1>0, <1>4, <2>5, <2>10, AllLandedTypes DEF AllLanded, Step, artifactVars
    <3>2. specs' = <<x>> /\ SrsDocsHold(x)'
      BY <2>5, <2>6, <3>1 DEF AgreeInv, SrsDocsHold
    <3> QED
      BY <2>1, <2>6, <3>1, <3>2 DEF AgreeInv
  <2>11. CASE Clear(c) \/ Fill(c)
    <3>1. PICK f : f = Next1(c)
      OBVIOUS
    <3>2. at[c] \in {"clear", "fill"} /\ f \in todo[c] /\ f \in Turns /\ specs' = specs /\ docs' = docs
      BY <1>0, <2>11, <3>1, FeatureFacts DEF Clear, Fill, Step
    <3>3. specs' = <<x>> /\ SrsDocsHold(x)' /\ \A g \in x : g \notin todo[c] => rows[g] = x
      BY <2>5, <2>6, <3>2 DEF AgreeInv, SrsDocsHold
    <3>4. rows \in [Turns -> Srs] /\ x \subseteq Turns
      BY <1>2, <2>5 DEF TypeInv, TypeOK, Srs
    <3>5. CASE Clear(c)
      <4>1. at'[c] = "fill" /\ todo' = todo /\ rows' = [rows EXCEPT ![f] = Missing]
        BY <1>0, <3>1, <3>5, ClearTypes
      <4>2. rows'[f] = Missing /\ \A g \in x : g \notin todo[c] => rows'[g] = x
        BY <3>2, <3>3, <3>4, <4>1
      <4>3. f = Next1(c)'
        BY <3>1, <4>1 DEF Next1
      <4> QED
        BY <2>1, <2>6, <3>3, <4>1, <4>2, <4>3 DEF AgreeInv
    <3>6. CASE Fill(c)
      <4>1. /\ at[c] = "fill" /\ todo'[c] = todo[c] \ {f}
            /\ at'[c] = IF todo[c] = {f} THEN "ack" ELSE "clear"
            /\ rows' = [rows EXCEPT ![f] = IF @ = Missing THEN x ELSE @]
        BY <1>0, <2>5, <3>1, <3>6, FillTypes DEF Fill, Step
      <4>2. rows[f] = Missing
        BY <2>6, <3>1, <4>1 DEF AgreeInv
      <4>3. \A g \in x : g \notin todo'[c] => rows'[g] = x
        BY <3>2, <3>3, <3>4, <4>1, <4>2
      <4>4. at'[c] = "ack" => todo'[c] = {}
        BY <4>1
      <4> QED
        BY <2>1, <2>6, <3>3, <4>1, <4>3, <4>4 DEF AgreeInv
    <3> QED
      BY <2>11, <3>5, <3>6
  <2> QED
    BY <2>4, <2>7, <2>8, <2>9, <2>10, <2>11
    DEF Handles, CreateTasks, DeleteCases, DeleteDocs, Save, CreateCases, LogActivity, Step
<1> QED
  BY <1>3, <1>4

LEMMA AgreeNext ==
  ASSUME TypeInv, ArtifactsAssumption, NEW c, Consumers = {c}, Serial(c), OneInv(c),
         AgreeInv(c), [Next]_vars
  PROVE  AgreeInv(c)'
<1> USE DEF requestVars, consumerVars, memoryVars, artifactVars
<1>0. c \in Consumers
  OBVIOUS
<1>1. ASSUME UNCHANGED <<docs, specs, rows, shelved>>, results \subseteq results',
             \/ UNCHANGED <<at, hand, todo, bad>>
             \/ at'[c] \in {"idle", "lookup", "tasks"}
             \/ hand'[c].status # "complete"
      PROVE  AgreeInv(c)'
  BY <1>1 DEF AgreeInv, Completes, SpecAgrees, SrsDocsHold, LatestSpec, Next1
<1>2. ASSUME NEW r \in Requests, Asks(r) PROVE AgreeInv(c)'
  BY <1>1, <1>2 DEF Asks, Ask, Enqueue, EnqueueFails, Answer, AgentFails
<1>3. ASSUME NEW d \in Consumers, ConsumerActs(d) PROVE AgreeInv(c)'
  <2>1. ConsumerActs(c)
    BY <1>3
  <2>2. ASSUME NEW a \in results, Take(c, a) PROVE AgreeInv(c)'
    <3>1. UNCHANGED <<docs, specs, rows, shelved, results>>
      BY <2>2 DEF Take
    <3>2. /\ hand'[c] = a /\ at'[c] \in {"write", "lookup", "ack", "tasks"}
          /\ at'[c] = "ack" => a.status = "answer"
          /\ at'[c] = "write" => a.status = "clarify"
      BY <1>0, <2>2, TakeTypes
    <3> QED
      BY <1>1, <3>1, <3>2
  <2>3. CASE Ack(c) \/ HandlerThrows(c) \/ Interrupted(c)
    <3>1. at[c] # "idle" /\ at'[c] = "idle" /\ UNCHANGED <<docs, specs, rows>>
      BY <1>0, <2>3, EndTypes
    <3>2. CASE results' = results /\ shelved' = shelved
      BY <1>1, <3>1, <3>2
    <3>3. CASE shelved' # {}
      BY <3>1, <3>3 DEF AgreeInv, Completes
    <3>4. CASE results' = results \ {hand[c]} /\ shelved' = shelved /\ at[c] = "ack"
      <4>1. SpecAgrees => SpecAgrees'
        BY <3>1 DEF SpecAgrees, SrsDocsHold, LatestSpec
      <4>2. CASE hand[c].status = "complete"
        <5>1. PICK x : x = hand[c].of
          OBVIOUS
        <5>2. specs = <<x>> /\ SrsDocsHold(x) /\ \A f \in x : rows[f] = x
          BY <3>1, <3>4, <4>2, <5>1 DEF AgreeInv, Completes
        <5>3. LatestSpec = x
          BY <5>2 DEF LatestSpec
        <5>4. SpecAgrees
          BY <5>2, <5>3 DEF SpecAgrees
        <5> QED
          BY <3>1, <4>1, <5>4 DEF AgreeInv, Completes
      <4>3. CASE hand[c].status # "complete"
        <5>1. \A a \in results : a.status = "complete" => a \in results'
          BY <3>4, <4>3
        <5> QED
          BY <3>1, <3>4, <4>1, <5>1 DEF AgreeInv, Completes
      <4> QED
        BY <4>2, <4>3
    <3> QED
      BY <1>0, <2>3, <3>2, <3>3, <3>4, EndFacts
  <2> QED
    BY <2>1, <2>2, <2>3, ActsMoves, AgreeHandles
<1>4. ASSUME NEW i \in 1 .. Len(docs), Remove(i) PROVE AgreeInv(c)'
  <2>1. /\ 1 .. Len(docs') = 1 .. Len(docs) /\ docs'[i].key = Removed
        /\ \A k \in 1 .. Len(docs) : k # i => docs'[k] = docs[k]
        /\ UNCHANGED <<at, hand, todo, bad, specs, rows, shelved, results>>
    BY <1>4, RemoveFacts
  <2>2. ASSUME NEW x, SrsDocsHold(x) PROVE SrsDocsHold(x)'
    BY <2>1, <2>2, RemovedKey DEF SrsDocsHold
  <2>3. PICK x, y : x = LatestSpec /\ y = hand[c].of
    OBVIOUS
  <2>4. x = LatestSpec' /\ y = hand'[c].of
    BY <2>1, <2>3 DEF LatestSpec
  <2>5. SpecAgrees => SpecAgrees'
    BY <2>1, <2>2, <2>3, <2>4 DEF SpecAgrees
  <2>6. (SrsDocsHold(y) => SrsDocsHold(y)') /\ (Completes(c)' <=> Completes(c)) /\ Next1(c)' = Next1(c)
    BY <2>1, <2>2 DEF Completes, Next1
  <2> QED
    BY <2>1, <2>3, <2>4, <2>5, <2>6 DEF AgreeInv
<1>5. CASE UNCHANGED vars
  BY <1>1, <1>5 DEF vars
<1> QED
  BY <1>2, <1>3, <1>4, <1>5, Steps

\* With one API process the completed specification, its document and the
\* requirements of its features come from the same answer whenever nothing is
\* being handled and no answer was shelved.
THEOREM ArtifactsComeTogether ==
  ASSUME NEW c, Consumers = {c}
  PROVE  Spec => []ArtifactsAgree
<1> DEFINE IInv == TypeInv /\ Serial(c) /\ OneInv(c) /\ AgreeInv(c)
<1>1. Init => IInv
  <2>1. Init => AgreeInv(c)
    <3> SUFFICES ASSUME Init PROVE AgreeInv(c)
      OBVIOUS
    <3>1. specs = <<>> /\ at[c] = "idle"
      BY DEF Init
    <3> QED
      BY <3>1 DEF AgreeInv, SpecAgrees, Completes
  <2> QED
    BY <2>1, ArtifactsAssumption, TypesFirst, SerialFirst, OneFirst
<1>2. IInv /\ [Next]_vars => IInv'
  BY ArtifactsAssumption, TypesNext, SerialNext, OneNext, AgreeNext
<1>3. IInv => ArtifactsAgree
  BY DEF ArtifactsAgree, AgreeInv, SpecAgrees, SrsDocsHold, Quiet, DocsOf
<1> QED
  BY <1>1, <1>2, <1>3, PTL DEF Spec
=============================================================================
