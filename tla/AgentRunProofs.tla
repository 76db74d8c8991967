--------------------------- MODULE AgentRunProofs ---------------------------
(***************************************************************************)
(* Theorems about AgentRun, for any workers, jobs, kinds, sessions, drafts *)
(* and bounds: the types, what the memory holds, how often the LLM is      *)
(* asked, and why a job fails.                                             *)
(***************************************************************************)
EXTENDS AgentRun, FiniteSetTheorems, SequenceTheorems, TLAPS

Ats     == {"idle", "extract", "recall", "ask", "store_srs", "store_pairs", "publish"}
Results == {"clarify", "complete", "answer", "plan", "suites", "text"}
Calls   == [at : Ats, entry : Entry, tries : 0 .. 2, result : {"none"} \cup Results,
            pairs : SUBSET (1 .. MaxMessages)]
Stages  == {"new", "asked", "returned", "answered", "failed"}

JobOf(w)  == run[w].entry.job
Busy(w)   == run[w].at # "idle"
Begun     == {j \in Jobs : stage[j] # "new"}
Answered  == {j \in Jobs : stage[j] = "answered"}

\* The session has room for two messages of each job.
SessionBounded == Len(said) <= 4 + Cardinality(Begun) + Cardinality(Answered)

\* What is queued or worked on was asked for; a job that was not has left no trace.
Origin ==
  /\ \A e \in queue : stage[e.job] # "new"
  /\ \A w \in Workers : Busy(w) => stage[JobOf(w)] # "new"
  /\ \A j \in Jobs : stage[j] = "new" =>
       memory[SrsOf(j)] = 0 /\ asked[j] = 0 /\ answers[j] = {}
  /\ \A j \in Jobs : job[j].history <= Len(said)

\* A call has a try left until it has its answer, and then something to publish.
UnderWay(w) ==
  /\ Busy(w) => run[w].tries < Tries(job[JobOf(w)].kind)
  /\ run[w].at \in {"store_srs", "store_pairs", "publish"} => run[w].result \in Results

CoreInv == TypeOK /\ SessionBounded /\ Origin /\ \A w \in Workers : UnderWay(w)

-----------------------------------------------------------------------------
(* The effects of the parts that actions share.                            *)

\* The number of jobs, and of messages, is a number.
LEMMA Bounds ==
  ASSUME AgentAssumption
  PROVE  /\ NumJobs \in Nat /\ NumJobs >= 1 /\ MaxMessages \in Nat /\ MaxMessages = 2 * NumJobs + 4
         /\ IsFiniteSet(Jobs) /\ Cardinality(Jobs) = NumJobs /\ 1 \in Jobs /\ Jobs \subseteq Nat
<1>1. NumJobs \in Nat /\ NumJobs >= 1
  BY DEF AgentAssumption
<1>2. IsFiniteSet(1 .. NumJobs) /\ Cardinality(1 .. NumJobs) = NumJobs
  BY <1>1, FS_Interval
<1> QED
  BY <1>1, <1>2 DEF Jobs, MaxMessages

\* A worker's call is a call.
LEMMA CallType ==
  ASSUME TypeOK, NEW w \in Workers
  PROVE  /\ run \in [Workers -> Calls] /\ run[w] \in Calls
         /\ run[w].at \in Ats /\ run[w].tries \in 0 .. 2
         /\ run[w].pairs \in SUBSET (1 .. MaxMessages)
         /\ run[w].result \in {"none"} \cup Results
         /\ run[w].entry \in Entry /\ JobOf(w) \in Jobs /\ run[w].entry.attempts \in Nat
<1>1. run \in [Workers -> Calls]
  BY DEF TypeOK, Calls, Ats, Results
<1> QED
  BY <1>1 DEF Calls, Entry, JobOf

\* The idle call is a call.
LEMMA IdleType ==
  ASSUME AgentAssumption PROVE Idle \in Calls
BY Bounds DEF Idle, Calls, Entry, Ats

\* Every kind of job has at least one try and at most three.
LEMMA TriesType ==
  ASSUME NEW k PROVE Tries(k) \in 1 .. 3
BY DEF Tries

\* A repeat adds one to the repeats of a job.
LEMMA RepeatFacts ==
  ASSUME TypeOK, NEW j \in Jobs, Repeat(j)
  PROVE  /\ repeats' = [repeats EXCEPT ![j] = @ + 1]
         /\ repeats' \in [Jobs -> Nat]
<1>1. repeats' = [repeats EXCEPT ![j] = @ + 1]
  BY Zenon DEF Repeat
<1> QED
  BY <1>1 DEF TypeOK

\* The entry of worker w as it is written again, with one attempt more.
Again(w) == [run[w].entry EXCEPT !.attempts = @ + 1]

Chat(j) == job[j].kind \in ChatTurns

\* A retry is an entry of the same job.
LEMMA AgainType ==
  ASSUME TypeOK, NEW w \in Workers
  PROVE  /\ Again(w) \in Entry /\ Again(w).job = JobOf(w)
         /\ Again(w).attempts = run[w].entry.attempts + 1
<1>1. run[w].entry \in Entry
  BY CallType
<1> QED
  BY <1>1 DEF Again, Entry, JobOf

\* The two ways in which an error ends a call.
Retried(w, isQuota) ==
  /\ Chat(JobOf(w)) /\ (isQuota \/ run[w].entry.attempts + 1 <= MaxRetries)
  /\ queue' = queue \cup {Again(w)} /\ stage' = stage

GivenUp(w, isQuota) ==
  /\ Chat(JobOf(w)) => ~isQuota /\ run[w].entry.attempts + 1 > MaxRetries
  /\ queue' = queue
  /\ stage' = IF stage[JobOf(w)] = "asked"
              THEN [stage EXCEPT ![JobOf(w)] = "failed"] ELSE stage

\* An error ends the call of its worker with a retry or with a failure.
LEMMA RaiseFacts ==
  ASSUME TypeOK, AgentAssumption, NEW w \in Workers, NEW isQuota \in BOOLEAN,
         Raise(w, isQuota)
  PROVE  /\ run' = [run EXCEPT ![w] = Idle] /\ run' \in [Workers -> Calls]
         /\ quota' = (IF isQuota THEN quota + 1 ELSE quota)
         /\ quota \in Nat /\ quota' \in Nat /\ quota' >= quota
         /\ (Retried(w, isQuota) \/ GivenUp(w, isQuota))
         /\ queue' \subseteq Entry /\ stage' \in [Jobs -> Stages]
<1>1. /\ run' = [run EXCEPT ![w] = Idle]
      /\ quota' = (IF isQuota THEN quota + 1 ELSE quota)
  BY DEF Raise
<1>2. run' \in [Workers -> Calls]
  BY <1>1, CallType, IdleType
<1>3. quota \in Nat /\ quota' \in Nat /\ quota' >= quota
  BY <1>1 DEF TypeOK
<1>4. run[w].entry.attempts \in Nat /\ MaxRetries \in Nat /\ JobOf(w) \in Jobs
  BY CallType DEF AgentAssumption
<1>5. Retried(w, isQuota) \/ GivenUp(w, isQuota)
  <2> DEFINE retried == /\ Chat(JobOf(w))
                        /\ isQuota \/ run[w].entry.attempts + 1 <= MaxRetries
  <2>1. /\ queue' = IF retried THEN queue \cup {Again(w)} ELSE queue
        /\ stage' = IF ~retried /\ stage[JobOf(w)] = "asked"
                    THEN [stage EXCEPT ![JobOf(w)] = "failed"] ELSE stage
    BY DEF Raise, Chat, JobOf, Again
  <2>2. CASE retried
    BY <2>1, <2>2 DEF Retried
  <2>3. CASE ~retried
    BY <1>4, <2>1, <2>3 DEF GivenUp
  <2> QED
    BY <2>2, <2>3
<1>6. queue \subseteq Entry /\ stage \in [Jobs -> Stages]
  BY DEF TypeOK, Stages
<1>7. queue' \subseteq Entry /\ stage' \in [Jobs -> Stages]
  BY <1>4, <1>5, <1>6, AgainType DEF Retried, GivenUp, Stages
<1> QED
  BY <1>1, <1>2, <1>3, <1>5, <1>7

\* A worker goes on to another part of its call.
LEMMA GoToFacts ==
  ASSUME TypeOK, NEW w \in Workers, NEW at \in Ats, GoTo(w, at)
  PROVE  /\ run' \in [Workers -> Calls]
         /\ run' = [run EXCEPT ![w] = [run[w] EXCEPT !.at = at]]
<1>1. run' = [run EXCEPT ![w] = [run[w] EXCEPT !.at = at]]
  BY DEF GoTo
<1>2. run[w] \in Calls /\ run \in [Workers -> Calls]
  BY CallType
<1>3. [run[w] EXCEPT !.at = at] \in Calls
  BY <1>2 DEF Calls
<1> QED
  BY <1>1, <1>2, <1>3

\* What is kept of an accepted reply.
LEMMA ResultType ==
  ASSUME NEW kind, NEW r \in Replies, Accepts(kind, r)
  PROVE  Result(kind, r) \in Results
BY DEF Replies, Accepts, Result, Results, UsableTurn, UsableAnswer, UsablePlan, UsableSuites

\* The questions that a history has answers to have places in it.
LEMMA PairsType ==
  ASSUME AgentAssumption, TypeOK, NEW j \in Jobs
  PROVE  /\ job[j].history \in 0 .. MaxMessages
         /\ QaPairs(job[j].history) \subseteq 1 .. MaxMessages
         /\ QaPairs(job[j].history) \subseteq 1 .. job[j].history - 1
<1>1. job[j].history \in 0 .. MaxMessages /\ MaxMessages \in Nat
  BY Bounds DEF TypeOK, Job, NoJob
<1> QED
  BY <1>1 DEF QaPairs

\* What is left to do after an answer is a call.
LEMMA AfterAnswerType ==
  ASSUME AgentAssumption, TypeOK, NEW w \in Workers, NEW res \in Results
  PROVE  AfterAnswer(run[w], res) \in Calls
<1>1. run[w] \in Calls /\ JobOf(w) \in Jobs
  BY CallType
<1> DEFINE p == QaPairs(job[JobOf(w)].history)
<1>2. p \in SUBSET (1 .. MaxMessages)
  BY <1>1, PairsType
<1> DEFINE q == IF res = "clarify" /\ MemoryEnabled THEN p ELSE {}
           a == IF res = "complete" /\ MemoryEnabled THEN "store_srs"
                ELSE IF res = "clarify" /\ MemoryEnabled /\ p # {}
                THEN "store_pairs" ELSE "publish"
<1>3. q \in SUBSET (1 .. MaxMessages) /\ a \in Ats
  BY <1>2 DEF Ats
<1>4. AfterAnswer(run[w], res) = [run[w] EXCEPT !.result = res, !.pairs = q, !.at = a]
  BY DEF AfterAnswer, JobOf
<1> HIDE DEF q, a, p
<1> QED
  BY <1>1, <1>3, <1>4 DEF Calls

-----------------------------------------------------------------------------
(* Types.                                                                  *)

\* The steps of a worker, one by one.
WorkerActs(w) ==
  \/ \E e \in queue : Take(w, e)
  \/ \E isQuota \in BOOLEAN : ExtractFails(w, isQuota) \/ LlmFails(w, isQuota)
  \/ Extract(w) \/ Recall(w) \/ LlmAnswers(w) \/ LlmUnusable(w)
  \/ StoreSrs(w) \/ StorePair(w) \/ Publish(w) \/ PublishFails(w)
  \/ Crash(w) \/ Claim(w)

\* A step is a question, an answer that is stored, or a worker's.
LEMMA Steps ==
  ASSUME Next
  PROVE  \/ \E j \in Jobs, kind \in Kinds, draft \in Drafts \cup {<<>>} : Ask(j, kind, draft)
         \/ \E j \in Jobs : SaveAnswer(j)
         \/ \E w \in Workers : WorkerActs(w)
BY DEF Next, WorkerStep, WorkerActs

\* What the drafts' features are called in a prompt is a sequence of numbers.
LEMMA PromptIdsType ==
  ASSUME AgentAssumption, TypeOK, NEW j \in Jobs
  PROVE  PromptIds(job[j]) \in Seq(Nat)
<1>0. Drafts \cup {<<>>} \subseteq Seq(Nat \ {0})
  <2>1. Drafts \subseteq Seq(Nat \ {0}) /\ <<>> \in Seq(Nat \ {0})
    BY EmptySeq DEF AgentAssumption
  <2> QED
    BY <2>1
<1>1. job[j].draft \in Seq(Nat \ {0})
  <2>1. job[j] \in Job \cup {NoJob}
    BY DEF TypeOK
  <2>2. job[j].draft \in Drafts \cup {<<>>}
    BY <2>1 DEF Job, NoJob
  <2> QED
    BY <1>0, <2>2
<1> DEFINE d == job[j].draft
<1>2. DOMAIN d = 1 .. Len(d) /\ Len(d) \in Nat
  BY <1>1
<1>3. [i \in DOMAIN d |-> i] \in Seq(Nat)
  BY <1>2
<1> QED
  BY <1>3 DEF PromptIds

\* A store adds a row or changes nothing.
LEMMA StoreType ==
  ASSUME TypeOK, NEW w \in Workers, NEW c, Store(c) \/ Forget(w), AgentAssumption
  PROVE  /\ memory' \in [Chunks -> Nat] /\ forgot' \subseteq Jobs /\ faults' \in Nat
         /\ forgot \subseteq forgot'
         /\ \A d \in Chunks : memory'[d] >= memory[d] /\ memory[d] \in Nat
<1>1. CASE Store(c)
  <2>1. memory \in [Chunks -> Nat] /\ memory' = [memory EXCEPT ![c] = memory[c] + 1]
    BY <1>1 DEF Store, TypeOK
  <2>2. \A d \in Chunks : memory'[d] = IF d = c THEN memory[d] + 1 ELSE memory[d]
    BY <2>1
  <2>3. \A d \in Chunks : memory'[d] \in Nat /\ memory'[d] >= memory[d]
    BY <2>1, <2>2
  <2>4. memory' \in [Chunks -> Nat]
    BY <2>1, <2>3
  <2> QED
    BY <1>1, <2>1, <2>3, <2>4 DEF Store, TypeOK
<1>2. CASE Forget(w)
  <2>1. JobOf(w) \in Jobs
    BY CallType
  <2> QED
    BY <1>2, <2>1 DEF Forget, MemoryFault, TypeOK, JobOf
<1> QED
  BY <1>1, <1>2

\* What is left to store is fewer.
LEMMA PairsLeftType ==
  ASSUME TypeOK, NEW w \in Workers, NEW i, NEW at \in Ats
  PROVE  [run EXCEPT ![w].pairs = run[w].pairs \ {i}, ![w].at = at] \in [Workers -> Calls]
<1>1. run[w] \in Calls /\ run \in [Workers -> Calls]
  BY CallType
<1>2. [run[w] EXCEPT !.pairs = run[w].pairs \ {i}, !.at = at] \in Calls
  BY <1>1 DEF Calls
<1>3. [run EXCEPT ![w].pairs = run[w].pairs \ {i}, ![w].at = at]
        = [run EXCEPT ![w] = [run[w] EXCEPT !.pairs = run[w].pairs \ {i}, !.at = at]]
  BY <1>1
<1> QED
  BY <1>1, <1>2, <1>3

\* A call of the LLM and a failure are counted for the job of the worker.
LEMMA CountFacts ==
  ASSUME TypeOK, NEW w \in Workers
  PROVE  /\ Miss(w) => /\ misses' = [misses EXCEPT ![JobOf(w)] = @ + 1]
                       /\ misses' \in [Jobs -> Nat]
         /\ Asks(w) => /\ run[w].at = "ask"
                       /\ asked' = [asked EXCEPT ![JobOf(w)] = @ + 1]
                       /\ asked' \in [Jobs -> Nat]
<1>1. JobOf(w) \in Jobs
  BY CallType
<1>2. ASSUME Miss(w)
      PROVE  misses' = [misses EXCEPT ![JobOf(w)] = @ + 1] /\ misses' \in [Jobs -> Nat]
  BY <1>1, <1>2 DEF TypeOK, Miss, JobOf
<1>3. ASSUME Asks(w)
      PROVE  /\ run[w].at = "ask" /\ asked' = [asked EXCEPT ![JobOf(w)] = @ + 1]
             /\ asked' \in [Jobs -> Nat]
  BY <1>1, <1>3 DEF TypeOK, Asks, JobOf
<1> QED
  BY <1>2, <1>3

\* The first pair, or question, that is left to store.
FirstPair(w) == CHOOSE x \in run[w].pairs : \A y \in run[w].pairs : x <= y
PairsLeft(w) == run[w].pairs \ {FirstPair(w)}

\* The two outcomes of storing a pair.
LEMMA StorePairFacts ==
  ASSUME TypeOK, NEW w \in Workers, StorePair(w)
  PROVE  /\ run[w].at = "store_pairs"
         /\ \/ /\ Store(PairAt(FirstPair(w)))
               /\ run' = [run EXCEPT ![w].pairs = PairsLeft(w),
                            ![w].at = IF PairsLeft(w) = {} THEN "publish" ELSE "store_pairs"]
            \/ Forget(w) /\ GoTo(w, "publish")
         /\ UNCHANGED <<mode, platformVars, stage, queue, resultVars, countVars, repeats, quota>>
<1>1. run \in [Workers -> Calls]
  BY CallType
<1> QED
  BY <1>1 DEF StorePair, FirstPair, PairsLeft

\* The types of a question.
LEMMA AskType ==
  ASSUME TypeOK, AgentAssumption, Len(said) <= MaxMessages,
         NEW j \in Jobs, NEW kind \in Kinds, NEW draft \in Drafts \cup {<<>>},
         Ask(j, kind, draft)
  PROVE  TypeOK'
<1> DEFINE p == [kind |-> kind, draft |-> draft,
                 history |-> IF kind = "requirements" THEN Len(said) ELSE 0]
<1>1. said \in Seq({"user", "assistant"}) /\ Len(said) \in Nat
  BY DEF TypeOK
<1>2. p \in Job
  BY <1>1, Bounds DEF Job
<1>3. job' = [job EXCEPT ![j] = p]
  BY DEF Ask
<1>4. job' \in [Jobs -> Job \cup {NoJob}]
  BY <1>2, <1>3 DEF TypeOK
<1>5. said' \in Seq({"user", "assistant"})
  BY <1>1 DEF Ask
<1>6. queue' \subseteq Entry
  BY DEF Ask, TypeOK, Entry
<1>7. stage' \in [Jobs -> {"new", "asked", "returned", "answered", "failed"}]
  BY DEF Ask, TypeOK
<1> QED
  BY <1>4, <1>5, <1>6, <1>7 DEF Ask, memoryVars, resultVars, countVars, TypeOK

\* The types of an answer that is stored.
LEMMA SaveAnswerType ==
  ASSUME TypeOK, NEW j \in Jobs, SaveAnswer(j)
  PROVE  TypeOK'
<1>1. said' \in Seq({"user", "assistant"})
  BY DEF SaveAnswer, TypeOK
<1>2. stage' \in [Jobs -> {"new", "asked", "returned", "answered", "failed"}]
  BY DEF SaveAnswer, TypeOK
<1> QED
  BY <1>1, <1>2 DEF SaveAnswer, memoryVars, resultVars, countVars, TypeOK

\* The types that a worker's step leaves alone.
WorkerFrame == UNCHANGED <<mode, platformVars>>

\* The types of what a worker's step changes.
WorkerTypes ==
  /\ stage' \in [Jobs -> Stages]
  /\ queue' \subseteq Entry
  /\ run' \in [Workers -> Calls]
  /\ memory' \in [Chunks -> Nat]
  /\ answers' \in [Jobs -> SUBSET Results]
  /\ labelled' \in [Jobs -> Seq(Nat)]
  /\ asked' \in [Jobs -> Nat] /\ misses' \in [Jobs -> Nat]
  /\ forgot' \subseteq Jobs
  /\ repeats' \in [Jobs -> Nat]
  /\ quota' \in Nat /\ faults' \in Nat

\* The type invariant in terms of what a worker's step changes.
LEMMA WorkerTypesSuffice ==
  ASSUME TypeOK, WorkerFrame, WorkerTypes PROVE TypeOK'
BY DEF TypeOK, WorkerFrame, WorkerTypes, Stages, Calls, Results, Ats, platformVars

\* Before the step, too.
LEMMA WorkerTypesBefore ==
  ASSUME TypeOK
  PROVE  /\ stage \in [Jobs -> Stages]
         /\ queue \subseteq Entry
         /\ run \in [Workers -> Calls]
         /\ memory \in [Chunks -> Nat]
         /\ answers \in [Jobs -> SUBSET Results]
         /\ labelled \in [Jobs -> Seq(Nat)]
         /\ asked \in [Jobs -> Nat] /\ misses \in [Jobs -> Nat]
         /\ forgot \subseteq Jobs
         /\ repeats \in [Jobs -> Nat]
         /\ quota \in Nat /\ faults \in Nat
BY DEF TypeOK, Stages, Calls, Results, Ats

\* The types of a worker's step.
LEMMA WorkerType ==
  ASSUME TypeOK, AgentAssumption, NEW w \in Workers, WorkerActs(w),
         run[w].at = "publish" => run[w].result \in Results
  PROVE  TypeOK'
<1> USE DEF memoryVars, resultVars, countVars, WorkerFrame, WorkerTypes
<1>0. JobOf(w) \in Jobs /\ run[w] \in Calls /\ run \in [Workers -> Calls]
  BY CallType
<1>a. run[w].entry \in Entry
  BY CallType
<1>1. ASSUME NEW e \in queue, Take(w, e) PROVE TypeOK'
  <2> DEFINE a == IF job[e.job].kind \in ChatTurns THEN "extract" ELSE "ask"
  <2>1. run' = [run EXCEPT ![w] = [Idle EXCEPT !.entry = e, !.at = a]]
    BY <1>1 DEF Take
  <2>2. e \in Entry /\ a \in Ats
    BY DEF TypeOK, Ats
  <2> HIDE DEF a
  <2>3. [Idle EXCEPT !.entry = e, !.at = a] \in Calls
    BY <2>2, IdleType DEF Calls
  <2>4. run' \in [Workers -> Calls]
    BY <1>0, <2>1, <2>3
  <2>5. WorkerFrame /\ WorkerTypes
    BY <1>1, <2>4, WorkerTypesBefore DEF Take
  <2> QED
    BY <2>5, WorkerTypesSuffice
<1>2. ASSUME NEW isQuota \in BOOLEAN, ExtractFails(w, isQuota) \/ LlmFails(w, isQuota)
      PROVE  TypeOK'
  <2>1. Raise(w, isQuota)
    BY <1>2 DEF ExtractFails, LlmFails
  <2>2. /\ run' \in [Workers -> Calls] /\ quota' \in Nat
        /\ queue' \subseteq Entry /\ stage' \in [Jobs -> Stages]
    BY <2>1, RaiseFacts
  <2>3. asked' \in [Jobs -> Nat] /\ misses' \in [Jobs -> Nat]
    BY <1>2, CountFacts, WorkerTypesBefore DEF ExtractFails, LlmFails
  <2>4. WorkerFrame /\ WorkerTypes
    BY <1>2, <2>2, <2>3, WorkerTypesBefore DEF ExtractFails, LlmFails
  <2> QED
    BY <2>4, WorkerTypesSuffice
<1>3. CASE Extract(w) \/ Recall(w)
  <2>1. PICK at \in Ats : GoTo(w, at)
    BY <1>3 DEF Extract, Recall, Ats
  <2>2. faults' \in Nat
    BY <1>3 DEF Extract, Recall, MemoryFault, TypeOK
  <2>3. WorkerFrame /\ WorkerTypes
    BY <1>3, <2>1, <2>2, GoToFacts, WorkerTypesBefore DEF Extract, Recall
  <2> QED
    BY <2>3, WorkerTypesSuffice
<1>4. CASE LlmAnswers(w)
  <2>1. PICK res \in Results : run' = [run EXCEPT ![w] = AfterAnswer(@, res)]
    BY <1>4, ResultType DEF LlmAnswers
  <2>2. run' \in [Workers -> Calls]
    BY <1>0, <2>1, AfterAnswerType
  <2>3. WorkerFrame /\ WorkerTypes
    BY <1>0, <1>4, <2>2, WorkerTypesBefore DEF LlmAnswers, Asks, JobOf
  <2> QED
    BY <2>3, WorkerTypesSuffice
<1>5. CASE LlmUnusable(w)
  <2>1. run[w].tries + 1 \in 0 .. 2
    BY <1>5, CallType, TriesType DEF LlmUnusable
  <2>2. [run[w] EXCEPT !.tries = run[w].tries + 1] \in Calls
    BY <1>0, <2>1 DEF Calls
  <2>3. run' = [run EXCEPT ![w] = [run[w] EXCEPT !.tries = run[w].tries + 1]]
    BY <1>0, <1>5 DEF LlmUnusable
  <2>4. run' \in [Workers -> Calls]
    BY <1>0, <2>2, <2>3
  <2>5. asked' \in [Jobs -> Nat]
    BY <1>0, <1>5, WorkerTypesBefore DEF LlmUnusable, Asks, JobOf
  <2>6. WorkerFrame /\ WorkerTypes
    BY <1>5, <2>4, <2>5, WorkerTypesBefore DEF LlmUnusable
  <2> QED
    BY <2>6, WorkerTypesSuffice
<1>6. CASE StoreSrs(w)
  <2>1. /\ GoTo(w, "publish") /\ "publish" \in Ats
        /\ Store(SrsOf(JobOf(w))) \/ Forget(w)
    BY <1>6 DEF StoreSrs, Ats, JobOf
  <2>2. WorkerFrame /\ WorkerTypes
    BY <1>6, <2>1, GoToFacts, StoreType, WorkerTypesBefore DEF StoreSrs
  <2> QED
    BY <2>2, WorkerTypesSuffice
<1>7. CASE StorePair(w)
  <2>1. Store(PairAt(FirstPair(w))) \/ Forget(w)
    BY <1>7, StorePairFacts
  <2>2. /\ memory' \in [Chunks -> Nat] /\ forgot' \subseteq Jobs /\ faults' \in Nat
    BY <2>1, StoreType
  <2>3. run' \in [Workers -> Calls]
    <3>1. CASE GoTo(w, "publish")
      BY <3>1, GoToFacts DEF Ats
    <3> DEFINE a == IF PairsLeft(w) = {} THEN "publish" ELSE "store_pairs"
    <3>2. a \in Ats
      BY DEF Ats
    <3>3. CASE run' = [run EXCEPT ![w].pairs = PairsLeft(w), ![w].at = a]
      <4> HIDE DEF a
      <4> QED
        BY <3>2, <3>3, PairsLeftType DEF PairsLeft
    <3> QED
      BY <1>7, <3>1, <3>3, StorePairFacts
  <2>4. WorkerFrame /\ WorkerTypes
    BY <1>7, <2>2, <2>3, StorePairFacts, WorkerTypesBefore
  <2> QED
    BY <2>4, WorkerTypesSuffice
<1>8. CASE Publish(w)
  <2>1. run[w].result \in Results
    BY <1>8 DEF Publish
  <2>2. labelled' \in [Jobs -> Seq(Nat)]
    BY <1>0, <1>8, PromptIdsType, WorkerTypesBefore DEF Publish, JobOf
  <2>3. run' \in [Workers -> Calls]
    BY <1>0, <1>8, IdleType DEF Publish
  <2>4. stage' \in [Jobs -> Stages]
    BY <1>8, WorkerTypesBefore DEF Publish, Stages
  <2>5. answers' \in [Jobs -> SUBSET Results]
    BY <1>0, <1>8, <2>1, WorkerTypesBefore DEF Publish, JobOf
  <2>6. WorkerFrame /\ WorkerTypes
    BY <1>8, <2>2, <2>3, <2>4, <2>5, WorkerTypesBefore DEF Publish
  <2> QED
    BY <2>6, WorkerTypesSuffice
<1>9. CASE PublishFails(w)
  <2>1. Raise(w, FALSE) /\ Repeat(JobOf(w))
    BY <1>9 DEF PublishFails, JobOf
  <2>2. /\ run' \in [Workers -> Calls] /\ quota' \in Nat
        /\ queue' \subseteq Entry /\ stage' \in [Jobs -> Stages]
    BY <2>1, RaiseFacts
  <2>3. misses' \in [Jobs -> Nat] /\ repeats' \in [Jobs -> Nat]
    BY <1>0, <1>9, <2>1, RepeatFacts, WorkerTypesBefore DEF PublishFails, Miss, JobOf
  <2>4. WorkerFrame /\ WorkerTypes
    BY <1>9, <2>2, <2>3, WorkerTypesBefore DEF PublishFails
  <2> QED
    BY <2>4, WorkerTypesSuffice
<1>10. CASE Crash(w) \/ Claim(w)
  <2>1. Repeat(JobOf(w))
    BY <1>10 DEF Crash, Claim, JobOf
  <2>2. run' \in [Workers -> Calls]
    BY <1>0, <1>10, IdleType DEF Crash, Claim
  <2>3. WorkerFrame /\ WorkerTypes
    BY <1>0, <1>a, <1>10, <2>1, <2>2, RepeatFacts, WorkerTypesBefore DEF Crash, Claim
  <2> QED
    BY <2>3, WorkerTypesSuffice
<1> QED
  BY <1>1, <1>2, <1>3, <1>4, <1>5, <1>6, <1>7, <1>8, <1>9, <1>10 DEF WorkerActs

-----------------------------------------------------------------------------
(* The effect of a worker's step.                                          *)

\* Worker w's step is about the job of its call, or takes an entry.
WorkerEffect(w) ==
  /\ \A v \in Workers : v # w => run'[v] = run[v]
  /\ job' = job /\ said' = said /\ mode' = mode
  /\ \A k \in Jobs : stage'[k] = "new" <=> stage[k] = "new"
  /\ \A k \in Jobs : stage'[k] = "answered" <=> stage[k] = "answered"
  /\ \A k \in Jobs : k # JobOf(w) \/ ~Busy(w) =>
       asked'[k] = asked[k] /\ answers'[k] = answers[k] /\ memory'[SrsOf(k)] = memory[SrsOf(k)]
  /\ \A e \in queue' : e \in queue \/ (Busy(w) /\ e.job = JobOf(w))
  /\ Busy(w)' => \/ run'[w].entry \in queue
                 \/ Busy(w) /\ run'[w].entry = run[w].entry
  /\ UnderWay(w)'

\* A call that has ended is not under way.
LEMMA IdleIsNotUnderWay ==
  ASSUME NEW w \in Workers, run'[w] = Idle
  PROVE  ~Busy(w)' /\ UnderWay(w)'
BY DEF Busy, UnderWay, Idle

\* An error's effect.
LEMMA RaiseEffect ==
  ASSUME TypeOK, AgentAssumption, NEW w \in Workers, Busy(w), NEW isQuota \in BOOLEAN,
         Raise(w, isQuota), UNCHANGED <<mode, said, job, answers, memory>>,
         UNCHANGED asked \/ Asks(w)
  PROVE  WorkerEffect(w)
<1>1. /\ run' = [run EXCEPT ![w] = Idle] /\ (Retried(w, isQuota) \/ GivenUp(w, isQuota))
  BY RaiseFacts
<1>2. run \in [Workers -> Calls] /\ JobOf(w) \in Jobs
  BY CallType
<1>3. run'[w] = Idle /\ \A v \in Workers : v # w => run'[v] = run[v]
  BY <1>1, <1>2
<1>4. /\ \A k \in Jobs : stage'[k] = "new" <=> stage[k] = "new"
      /\ \A k \in Jobs : stage'[k] = "answered" <=> stage[k] = "answered"
      /\ \A e \in queue' : e \in queue \/ (Busy(w) /\ e.job = JobOf(w))
  BY <1>1, <1>2, AgainType DEF Retried, GivenUp, TypeOK
<1>5. \A k \in Jobs : k # JobOf(w) \/ ~Busy(w) => asked'[k] = asked[k]
  BY <1>2, CountFacts DEF TypeOK
<1>6. ~Busy(w)' /\ UnderWay(w)'
  BY <1>3, IdleIsNotUnderWay
<1> QED
  BY <1>3, <1>4, <1>5, <1>6 DEF WorkerEffect

\* The effect of going on to another part of the call with the same result.
LEMMA GoToEffect ==
  ASSUME TypeOK, AgentAssumption, NEW w \in Workers, Busy(w), UnderWay(w),
         UNCHANGED <<mode, said, job, stage, queue, asked, answers>>,
         \A v \in Workers : v # w => run'[v] = run[v],
         run'[w].entry = run[w].entry, run'[w].tries = run[w].tries,
         run'[w].at \in {"store_srs", "store_pairs", "publish"} => run'[w].result \in Results,
         \A k \in Jobs : k # JobOf(w) => memory'[SrsOf(k)] = memory[SrsOf(k)]
  PROVE  WorkerEffect(w)
<1>1. UnderWay(w)'
  BY DEF UnderWay, JobOf, Busy
<1> QED
  BY <1>1 DEF WorkerEffect

\* A store touches the SRS of no other job.
LEMMA StoreEffect ==
  ASSUME TypeOK, NEW w \in Workers,
         \/ Store(SrsOf(JobOf(w)))
         \/ \E i : Store(PairAt(i))
         \/ Forget(w)
  PROVE  \A k \in Jobs : k # JobOf(w) => memory'[SrsOf(k)] = memory[SrsOf(k)]
<1> SUFFICES ASSUME NEW k \in Jobs, k # JobOf(w)
             PROVE  memory'[SrsOf(k)] = memory[SrsOf(k)]
  OBVIOUS
<1>1. SrsOf(k) # SrsOf(JobOf(w)) /\ SrsOf(k) \in Chunks /\ \A i : SrsOf(k) # PairAt(i)
  BY DEF SrsOf, PairAt, Chunks
<1> QED
  BY <1>1 DEF Store, Forget, TypeOK

\* Every worker's step has the effect of a worker's step.
LEMMA WorkerSteps ==
  ASSUME TypeOK, AgentAssumption, NEW w \in Workers, WorkerActs(w), UnderWay(w)
  PROVE  WorkerEffect(w)
<1> USE DEF platformVars, memoryVars, resultVars, countVars
<1>0. JobOf(w) \in Jobs /\ run[w] \in Calls /\ run \in [Workers -> Calls]
  BY CallType
<1>1. ASSUME NEW e \in queue, Take(w, e) PROVE WorkerEffect(w)
  <2> DEFINE a == IF job[e.job].kind \in ChatTurns THEN "extract" ELSE "ask"
  <2>1. /\ \A v \in Workers : v # w => run'[v] = run[v]
        /\ run'[w] = [Idle EXCEPT !.entry = e, !.at = a]
    BY <1>0, <1>1 DEF Take
  <2>2. run'[w].entry = e /\ run'[w].tries = 0 /\ run'[w].at \in {"extract", "ask"}
    BY <2>1 DEF Idle
  <2>3. UnderWay(w)'
    BY <2>2, TriesType DEF UnderWay
  <2> QED
    BY <1>1, <2>1, <2>2, <2>3 DEF Take, WorkerEffect
<1>2. ASSUME NEW isQuota \in BOOLEAN, ExtractFails(w, isQuota) \/ LlmFails(w, isQuota)
      PROVE  WorkerEffect(w)
  <2>1. Raise(w, isQuota) /\ Busy(w) /\ (UNCHANGED asked \/ Asks(w))
    BY <1>2, CountFacts DEF ExtractFails, LlmFails, Busy
  <2> QED
    BY <1>2, <2>1, RaiseEffect DEF ExtractFails, LlmFails
<1>3. CASE Extract(w) \/ Recall(w)
  <2>1. PICK at \in {"recall", "ask"} : GoTo(w, at)
    BY <1>3 DEF Extract, Recall
  <2>2. run' = [run EXCEPT ![w] = [run[w] EXCEPT !.at = at]]
    BY <2>1, GoToFacts DEF Ats
  <2>3. /\ \A v \in Workers : v # w => run'[v] = run[v]
        /\ run'[w].entry = run[w].entry /\ run'[w].tries = run[w].tries /\ run'[w].at = at
    BY <1>0, <2>2 DEF Calls
  <2> QED
    BY <1>3, <2>3, GoToEffect DEF Extract, Recall, Busy
<1>4. CASE LlmAnswers(w)
  <2>1. PICK res \in Results : run' = [run EXCEPT ![w] = AfterAnswer(@, res)]
    BY <1>4, ResultType DEF LlmAnswers
  <2>2. /\ \A v \in Workers : v # w => run'[v] = run[v]
        /\ run'[w] = AfterAnswer(run[w], res)
    BY <1>0, <2>1
  <2>3. run'[w].entry = run[w].entry /\ run'[w].tries = run[w].tries /\ run'[w].result = res
    BY <1>0, <2>2 DEF AfterAnswer, Calls
  <2>4. \A k \in Jobs : k # JobOf(w) => asked'[k] = asked[k]
    BY <1>4, CountFacts DEF LlmAnswers, TypeOK
  <2>5. Busy(w) /\ run'[w].tries < Tries(job[JobOf(w)].kind) /\ run'[w].result \in Results
    BY <1>4, <2>3, CountFacts DEF LlmAnswers, UnderWay, Busy
  <2>6. UnderWay(w)'
    BY <1>4, <2>3, <2>5 DEF UnderWay, JobOf, LlmAnswers
  <2> QED
    BY <1>4, <2>2, <2>3, <2>4, <2>5, <2>6 DEF LlmAnswers, WorkerEffect
<1>5. CASE LlmUnusable(w)
  <2>1. run' = [run EXCEPT ![w] = [run[w] EXCEPT !.tries = run[w].tries + 1]]
    BY <1>0, <1>5 DEF LlmUnusable
  <2>2. /\ \A v \in Workers : v # w => run'[v] = run[v]
        /\ run'[w].entry = run[w].entry /\ run'[w].tries = run[w].tries + 1
        /\ run'[w].at = run[w].at
    BY <1>0, <2>1 DEF Calls
  <2>3. run[w].at = "ask" /\ \A k \in Jobs : k # JobOf(w) => asked'[k] = asked[k]
    BY <1>5, CountFacts DEF LlmUnusable, TypeOK
  <2>4. UnderWay(w)'
    BY <1>5, <2>2, <2>3 DEF UnderWay, JobOf, LlmUnusable
  <2> QED
    BY <1>5, <2>2, <2>3, <2>4 DEF LlmUnusable, WorkerEffect, Busy
<1>6. CASE StoreSrs(w)
  <2>1. /\ GoTo(w, "publish") /\ (Store(SrsOf(JobOf(w))) \/ Forget(w))
    BY <1>6 DEF StoreSrs, JobOf
  <2>2. run' = [run EXCEPT ![w] = [run[w] EXCEPT !.at = "publish"]]
    BY <2>1, GoToFacts DEF Ats
  <2>3. /\ \A v \in Workers : v # w => run'[v] = run[v]
        /\ run'[w].entry = run[w].entry /\ run'[w].tries = run[w].tries
        /\ run'[w].result = run[w].result
    BY <1>0, <2>2 DEF Calls
  <2>4. run'[w].result \in Results
    BY <1>6, <2>3 DEF StoreSrs, UnderWay
  <2> QED
    BY <1>6, <2>1, <2>3, <2>4, GoToEffect, StoreEffect DEF StoreSrs, Busy
<1>7. CASE StorePair(w)
  <2>1. /\ run[w].at = "store_pairs"
        /\ \E i : Store(PairAt(i)) \/ Forget(w)
        /\ UNCHANGED <<mode, said, job, stage, queue, asked, answers>>
    BY <1>7, StorePairFacts
  <2>2. PICK r \in Calls : /\ run' = [run EXCEPT ![w] = r]
                           /\ r.entry = run[w].entry /\ r.tries = run[w].tries
                           /\ r.result = run[w].result
    <3>1. CASE GoTo(w, "publish")
      <4>1. run' = [run EXCEPT ![w] = [run[w] EXCEPT !.at = "publish"]] /\ run' \in [Workers -> Calls]
        BY <3>1, GoToFacts DEF Ats
      <4>2. [run[w] EXCEPT !.at = "publish"] \in Calls
        BY <1>0, <4>1
      <4> QED
        BY <1>0, <4>1, <4>2 DEF Calls
    <3> DEFINE a == IF PairsLeft(w) = {} THEN "publish" ELSE "store_pairs"
               r == [run[w] EXCEPT !.pairs = PairsLeft(w), !.at = a]
    <3>2. CASE run' = [run EXCEPT ![w].pairs = PairsLeft(w), ![w].at = a]
      <4>1. run' = [run EXCEPT ![w] = r]
        BY <1>0, <3>2
      <4>2. r \in Calls /\ r.entry = run[w].entry /\ r.tries = run[w].tries
            /\ r.result = run[w].result
        BY <1>0 DEF Calls, PairsLeft, Ats
      <4> HIDE DEF r
      <4> QED
        BY <4>1, <4>2
    <3> QED
      BY <1>7, <3>1, <3>2, StorePairFacts
  <2>3. /\ \A v \in Workers : v # w => run'[v] = run[v]
        /\ run'[w].entry = run[w].entry /\ run'[w].tries = run[w].tries
        /\ run'[w].result = run[w].result
    BY <1>0, <2>2
  <2>4. run'[w].result \in Results
    BY <2>1, <2>3 DEF UnderWay
  <2> QED
    BY <2>1, <2>3, <2>4, GoToEffect, StoreEffect DEF Busy
<1>8. CASE Publish(w)
  <2>1. run'[w] = Idle /\ \A v \in Workers : v # w => run'[v] = run[v]
    BY <1>0, <1>8 DEF Publish
  <2>2. /\ \A k \in Jobs : stage'[k] = "new" <=> stage[k] = "new"
        /\ \A k \in Jobs : stage'[k] = "answered" <=> stage[k] = "answered"
    BY <1>8 DEF Publish, TypeOK
  <2>3. \A k \in Jobs : k # JobOf(w) => answers'[k] = answers[k]
    BY <1>8 DEF Publish, TypeOK, JobOf
  <2> QED
    BY <1>8, <2>1, <2>2, <2>3, IdleIsNotUnderWay DEF Publish, WorkerEffect, Busy
<1>9. CASE PublishFails(w)
  BY <1>9, RaiseEffect DEF PublishFails, Busy
<1>10. CASE Crash(w)
  <2>1. run'[w] = Idle /\ \A v \in Workers : v # w => run'[v] = run[v]
    BY <1>0, <1>10 DEF Crash
  <2> QED
    BY <1>10, <2>1, IdleIsNotUnderWay DEF Crash, WorkerEffect, Busy, JobOf
<1>11. CASE Claim(w)
  BY <1>11 DEF Claim, WorkerEffect, Busy, JobOf, UnderWay
<1> QED
  BY <1>1, <1>2, <1>3, <1>4, <1>5, <1>6, <1>7, <1>8, <1>9, <1>10, <1>11 DEF WorkerActs

-----------------------------------------------------------------------------
(* The core invariant.                                                     *)

\* The session has no more messages than its bound.
LEMMA SessionFits ==
  ASSUME AgentAssumption, SessionBounded, TypeOK
  PROVE  /\ Len(said) \in Nat /\ Len(said) <= MaxMessages
         /\ IsFiniteSet(Begun) /\ Cardinality(Begun) \in Nat
         /\ IsFiniteSet(Answered) /\ Cardinality(Answered) \in Nat
<1>1. Begun \subseteq Jobs /\ Answered \subseteq Jobs
  BY DEF Begun, Answered
<1>2. /\ IsFiniteSet(Begun) /\ Cardinality(Begun) <= NumJobs /\ Cardinality(Begun) \in Nat
      /\ IsFiniteSet(Answered) /\ Cardinality(Answered) <= NumJobs
      /\ Cardinality(Answered) \in Nat
  BY <1>1, Bounds, FS_Subset, FS_CardinalityType
<1>3. Len(said) \in Nat
  BY DEF TypeOK
<1> QED
  BY <1>2, <1>3, Bounds DEF SessionBounded

\* Init establishes the core invariant.
LEMMA CoreInit == AgentAssumption /\ Init => CoreInv
<1> SUFFICES ASSUME AgentAssumption, Init PROVE CoreInv
  OBVIOUS
<1>1. TypeOK
  <2>1. said \in Seq({"user", "assistant"})
    BY DEF Init, AgentAssumption
  <2>2. run \in [Workers -> Calls]
    BY IdleType DEF Init
  <2>3. labelled \in [Jobs -> Seq(Nat)]
    BY EmptySeq DEF Init
  <2> QED
    BY <2>1, <2>2, <2>3 DEF Init, TypeOK, Calls, Ats, Results
<1>2. SessionBounded
  <2>1. Begun = {} /\ Answered = {}
    BY DEF Init, Begun, Answered
  <2>2. Len(said) <= 4 /\ Len(said) \in Nat
    BY DEF Init, AgentAssumption
  <2> QED
    BY <2>1, <2>2, FS_EmptySet DEF SessionBounded
<1>3. Origin
  <2>1. \A j \in Jobs : SrsOf(j) \in Chunks
    BY DEF Chunks
  <2>2. Len(said) \in Nat
    BY DEF Init, AgentAssumption
  <2> QED
    BY <2>1, <2>2 DEF Init, Origin, NoJob, Busy, Idle
<1>4. \A w \in Workers : UnderWay(w)
  BY DEF Init, UnderWay, Idle, Busy
<1> QED
  BY <1>1, <1>2, <1>3, <1>4 DEF CoreInv

\* A question keeps the core invariant.
LEMMA AskKeepsCore ==
  ASSUME AgentAssumption, CoreInv,
         NEW j \in Jobs, NEW kind \in Kinds, NEW draft \in Drafts \cup {<<>>},
         Ask(j, kind, draft)
  PROVE  CoreInv'
<1> USE DEF memoryVars, resultVars, countVars
<1>0. TypeOK /\ SessionBounded /\ Origin
  BY DEF CoreInv
<1>1. TypeOK'
  BY <1>0, AskType, SessionFits
<1>2. Len(said') <= Len(said) + 1 /\ Len(said') >= Len(said) /\ Len(said') \in Nat /\ Len(said) \in Nat
  BY <1>0 DEF Ask, TypeOK
<1>3. SessionBounded'
  <2>1. Begun' = Begun \cup {j} /\ j \notin Begun /\ Answered' = Answered
    BY <1>0 DEF Ask, Begun, Answered, TypeOK
  <2>2. Cardinality(Begun') = Cardinality(Begun) + 1
    BY <1>0, <2>1, SessionFits, FS_AddElement
  <2> QED
    BY <1>0, <1>2, <2>1, <2>2, SessionFits DEF SessionBounded
<1>4. Origin'
  <2>1. \A k \in Jobs : k # j => stage'[k] = stage[k] /\ job'[k] = job[k]
    BY DEF Ask
  <2>2. stage'[j] = "asked" /\ job'[j].history <= Len(said)
    BY <1>0, <1>2 DEF Ask, TypeOK
  <2>3. \A e \in queue : e.job \in Jobs
    BY <1>0 DEF TypeOK, Entry
  <2>4. \A w \in Workers : JobOf(w) \in Jobs
    BY <1>0, CallType
  <2>5. run' = run /\ memory' = memory /\ asked' = asked /\ answers' = answers
    BY DEF Ask
  <2>6. \A e \in queue' : stage'[e.job] # "new"
    BY <1>0, <2>1, <2>2, <2>3 DEF Ask, Origin
  <2>7. \A k \in Jobs : job'[k].history <= Len(said')
    <3>1. \A k \in Jobs : job[k].history \in Nat
      BY <1>0, PairsType
    <3> SUFFICES ASSUME NEW k \in Jobs PROVE job'[k].history <= Len(said')
      OBVIOUS
    <3>2. CASE k = j
      <4>1. job'[k].history \in Nat
        BY <1>1, <3>2 DEF TypeOK, Job, NoJob
      <4> QED
        BY <1>2, <2>2, <3>2, <4>1
    <3>3. CASE k # j
      BY <1>0, <1>2, <2>1, <3>1, <3>3 DEF Origin
    <3> QED
      BY <3>2, <3>3
  <2>8. \A w \in Workers : Busy(w)' => stage'[JobOf(w)'] # "new"
    BY <1>0, <2>1, <2>2, <2>4, <2>5 DEF Origin, Busy, JobOf
  <2> QED
    BY <1>0, <2>1, <2>2, <2>5, <2>6, <2>7, <2>8 DEF Origin
<1>5. \A w \in Workers : UnderWay(w)'
  <2> SUFFICES ASSUME NEW w \in Workers PROVE UnderWay(w)'
    OBVIOUS
  <2>1. run' = run /\ UnderWay(w)
    BY DEF Ask, CoreInv
  <2>2. Busy(w) => JobOf(w) # j /\ JobOf(w) \in Jobs
    BY <1>0, CallType DEF Ask, Origin
  <2>3. Busy(w) => job'[JobOf(w)] = job[JobOf(w)]
    BY <2>2 DEF Ask
  <2> QED
    BY <2>1, <2>3 DEF UnderWay, Busy, JobOf
<1> QED
  BY <1>1, <1>3, <1>4, <1>5 DEF CoreInv

\* An answer that is stored keeps the core invariant.
LEMMA SaveAnswerKeepsCore ==
  ASSUME AgentAssumption, CoreInv, NEW j \in Jobs, SaveAnswer(j)
  PROVE  CoreInv'
<1> USE DEF memoryVars, resultVars, countVars
<1>0. TypeOK /\ SessionBounded /\ Origin
  BY DEF CoreInv
<1>1. TypeOK'
  BY <1>0, SaveAnswerType
<1>2. Len(said') <= Len(said) + 1 /\ Len(said') >= Len(said) /\ Len(said') \in Nat /\ Len(said) \in Nat
  BY <1>0 DEF SaveAnswer, TypeOK
<1>3. SessionBounded'
  <2>1. Answered' = Answered \cup {j} /\ j \notin Answered /\ Begun' = Begun
    BY <1>0 DEF SaveAnswer, Begun, Answered, TypeOK
  <2>2. Cardinality(Answered') = Cardinality(Answered) + 1
    BY <1>0, <2>1, SessionFits, FS_AddElement
  <2> QED
    BY <1>0, <1>2, <2>1, <2>2, SessionFits DEF SessionBounded
<1>4. Origin'
  <2>1. \A k \in Jobs : stage'[k] = "new" <=> stage[k] = "new"
    BY <1>0 DEF SaveAnswer, TypeOK
  <2>3. \A e \in queue : e.job \in Jobs
    BY <1>0 DEF TypeOK, Entry
  <2>4. \A w \in Workers : JobOf(w) \in Jobs
    BY <1>0, CallType
  <2>5. /\ run' = run /\ memory' = memory /\ asked' = asked /\ answers' = answers
        /\ job' = job /\ queue' = queue
    BY DEF SaveAnswer
  <2>6. \A k \in Jobs : job'[k].history <= Len(said')
    <3>1. \A k \in Jobs : job[k].history \in Nat
      BY <1>0, PairsType
    <3> QED
      BY <1>0, <1>2, <2>5, <3>1 DEF Origin
  <2>7. \A w \in Workers : Busy(w)' => stage'[JobOf(w)'] # "new"
    BY <1>0, <2>1, <2>4, <2>5 DEF Origin, Busy, JobOf
  <2> QED
    BY <1>0, <2>1, <2>3, <2>5, <2>6, <2>7 DEF Origin
<1>5. \A w \in Workers : UnderWay(w)'
  BY DEF SaveAnswer, CoreInv, UnderWay, Busy, JobOf
<1> QED
  BY <1>1, <1>3, <1>4, <1>5 DEF CoreInv

\* A worker's step keeps the core invariant.
LEMMA WorkerKeepsCore ==
  ASSUME AgentAssumption, CoreInv, NEW w \in Workers, WorkerActs(w)
  PROVE  CoreInv'
<1>0. TypeOK /\ SessionBounded /\ Origin /\ UnderWay(w)
  BY DEF CoreInv
<1>1. WorkerEffect(w)
  BY <1>0, WorkerSteps
<1>2. TypeOK'
  BY <1>0, WorkerType DEF UnderWay
<1>3. SessionBounded'
  BY <1>0, <1>1 DEF WorkerEffect, SessionBounded, Begun, Answered
<1>4. Origin'
  <2>1. JobOf(w) \in Jobs /\ (Busy(w) => stage[JobOf(w)] # "new")
    BY <1>0, CallType DEF Origin
  <2>2. \A e \in queue : e.job \in Jobs
    BY <1>0 DEF TypeOK, Entry
  <2>3. \A e \in queue' : stage'[e.job] # "new"
    BY <1>0, <1>1, <2>1, <2>2 DEF WorkerEffect, Origin
  <2>4. \A v \in Workers : Busy(v)' => stage'[JobOf(v)'] # "new"
    <3> SUFFICES ASSUME NEW v \in Workers, Busy(v)' PROVE stage'[JobOf(v)'] # "new"
      OBVIOUS
    <3>1. CASE v # w
      <4>1. JobOf(v) \in Jobs /\ JobOf(v)' = JobOf(v) /\ Busy(v)
        BY <1>0, <1>1, <3>1, CallType DEF WorkerEffect, JobOf, Busy
      <4> QED
        BY <1>0, <1>1, <4>1 DEF WorkerEffect, Origin
    <3>2. CASE v = w
      BY <1>0, <1>1, <2>1, <2>2, <3>2 DEF WorkerEffect, Origin, JobOf
    <3> QED
      BY <3>1, <3>2
  <2>5. \A k \in Jobs : stage'[k] = "new" =>
          memory'[SrsOf(k)] = 0 /\ asked'[k] = 0 /\ answers'[k] = {}
    BY <1>0, <1>1, <2>1 DEF WorkerEffect, Origin
  <2> QED
    BY <1>0, <1>1, <2>3, <2>4, <2>5 DEF Origin, WorkerEffect
<1>5. \A v \in Workers : UnderWay(v)'
  BY <1>1 DEF CoreInv, WorkerEffect, UnderWay, Busy, JobOf
<1> QED
  BY <1>2, <1>3, <1>4, <1>5 DEF CoreInv

\* Every step keeps the core invariant.
LEMMA CoreNext == AgentAssumption /\ CoreInv /\ [Next]_vars => CoreInv'
<1> SUFFICES ASSUME AgentAssumption, CoreInv, [Next]_vars PROVE CoreInv'
  OBVIOUS
<1>1. CASE Next
  BY <1>1, Steps, AskKeepsCore, SaveAnswerKeepsCore, WorkerKeepsCore
<1>2. CASE UNCHANGED vars
  BY <1>2 DEF vars, platformVars, memoryVars, resultVars, countVars, CoreInv, TypeOK,
     SessionBounded, Begun, Answered, Origin, UnderWay, Busy, JobOf
<1> QED
  BY <1>1, <1>2

\* The variables always have their types: in particular no session grows
\* beyond two messages for each job, and a call never counts a third retry.
THEOREM TypeCorrect == Spec => []TypeOK
<1>1. CoreInv => TypeOK
  BY DEF CoreInv
<1> QED
  BY <1>1, CoreInit, CoreNext, AgentAssumption, PTL DEF Spec

-----------------------------------------------------------------------------
(* Jobs fail for a reason.                                                 *)

\* No entry counts more attempts than runs of its job have failed.
AttemptsMissed ==
  /\ \A e \in queue : e.attempts <= misses[e.job]
  /\ \A w \in Workers : Busy(w) => run[w].entry.attempts <= misses[JobOf(w)]

\* The attempts that a failed job must have had.
Due(k) == IF Chat(k) THEN MaxRetries + 1 ELSE 1

\* What a worker's step does to attempts, failed runs and failed jobs.
MissEffect(w) ==
  /\ \A k \in Jobs : misses'[k] >= misses[k]
  /\ \A e \in queue' : \/ e \in queue
                       \/ Busy(w) /\ e = run[w].entry
                       \/ Busy(w) /\ e = Again(w) /\ misses'[JobOf(w)] = misses[JobOf(w)] + 1
  /\ \A k \in Jobs : stage'[k] = "failed" =>
       \/ stage[k] = "failed"
       \/ /\ k = JobOf(w) /\ Busy(w) /\ misses'[k] = misses[k] + 1
          /\ Chat(k) => run[w].entry.attempts + 1 > MaxRetries

\* An error is counted, and it fails a job only when no retry is left.
LEMMA RaiseMisses ==
  ASSUME TypeOK, AgentAssumption, NEW w \in Workers, Busy(w), NEW isQuota \in BOOLEAN,
         Raise(w, isQuota), Miss(w)
  PROVE  MissEffect(w)
<1>1. Retried(w, isQuota) \/ GivenUp(w, isQuota)
  BY RaiseFacts
<1>2. JobOf(w) \in Jobs /\ misses \in [Jobs -> Nat]
  BY CallType DEF TypeOK
<1>3. /\ misses'[JobOf(w)] = misses[JobOf(w)] + 1
      /\ \A k \in Jobs : misses'[k] >= misses[k]
  BY <1>2, CountFacts
<1>4. CASE Retried(w, isQuota)
  BY <1>3, <1>4 DEF Retried, MissEffect
<1>5. CASE GivenUp(w, isQuota)
  <2>1. \A k \in Jobs : stage'[k] = "failed" => stage[k] = "failed" \/ k = JobOf(w)
    BY <1>2, <1>5 DEF GivenUp, TypeOK
  <2> QED
    BY <1>3, <1>5, <2>1 DEF GivenUp, MissEffect
<1> QED
  BY <1>1, <1>4, <1>5

\* The other steps fail no job.
LEMMA WorkerMisses ==
  ASSUME TypeOK, AgentAssumption, NEW w \in Workers, WorkerActs(w)
  PROVE  MissEffect(w)
<1> USE DEF platformVars, memoryVars, resultVars, countVars
<1>0. \A k \in Jobs : misses[k] \in Nat
  BY DEF TypeOK
<1>1. ASSUME NEW isQuota \in BOOLEAN, ExtractFails(w, isQuota) \/ LlmFails(w, isQuota)
      PROVE  MissEffect(w)
  BY <1>1, CountFacts, RaiseMisses DEF ExtractFails, LlmFails, Busy
<1>2. CASE PublishFails(w)
  BY <1>2, RaiseMisses DEF PublishFails, Busy
<1>3. CASE Publish(w)
  <2>1. misses' = misses /\ queue' = queue
    BY <1>3 DEF Publish
  <2>2. \A k \in Jobs : stage'[k] = "failed" => stage[k] = "failed"
    BY <1>3 DEF Publish, TypeOK
  <2> QED
    BY <1>0, <2>1, <2>2 DEF MissEffect
<1>4. ASSUME misses' = misses, stage' = stage,
             queue' \subseteq queue \/ (Busy(w) /\ queue' = queue \cup {run[w].entry})
      PROVE  MissEffect(w)
  BY <1>0, <1>4 DEF MissEffect
<1>5. ASSUME NEW e \in queue, Take(w, e) PROVE MissEffect(w)
  BY <1>4, <1>5 DEF Take
<1>6. CASE Extract(w) \/ Recall(w) \/ LlmAnswers(w) \/ LlmUnusable(w) \/ StoreSrs(w)
  BY <1>4, <1>6 DEF Extract, Recall, LlmAnswers, LlmUnusable, StoreSrs
<1>7. CASE StorePair(w)
  BY <1>4, <1>7, StorePairFacts
<1>8. CASE Crash(w) \/ Claim(w)
  BY <1>4, <1>8 DEF Crash, Claim, Busy
<1> QED
  BY <1>1, <1>2, <1>3, <1>5, <1>6, <1>7, <1>8 DEF WorkerActs

\* A question and an answer fail no job, and change the kind of none that did.
LEMMA PlatformMisses ==
  ASSUME CoreInv, AttemptsMissed, FailedForAReason,
         \/ \E j \in Jobs, kind \in Kinds, draft \in Drafts \cup {<<>>} : Ask(j, kind, draft)
         \/ \E j \in Jobs : SaveAnswer(j)
  PROVE  AttemptsMissed' /\ FailedForAReason'
<1> USE DEF memoryVars, resultVars, countVars
<1>1. misses' = misses /\ run' = run
  BY DEF Ask, SaveAnswer
<1>2. \A e \in queue' : e \in queue \/ (e.job \in Jobs /\ e.attempts = 0)
  BY DEF Ask, SaveAnswer
<1>3. \A k \in Jobs : misses[k] \in Nat
  BY DEF CoreInv, TypeOK
<1>4. AttemptsMissed'
  BY <1>1, <1>2, <1>3 DEF AttemptsMissed, Busy, JobOf
<1>5. \A k \in Jobs : stage'[k] = "failed" => stage[k] = "failed" /\ job'[k] = job[k]
  BY DEF Ask, SaveAnswer, CoreInv, TypeOK
<1> QED
  BY <1>1, <1>4, <1>5 DEF FailedForAReason

\* A worker's step fails no job before its time.
LEMMA WorkerKeepsReasons ==
  ASSUME AgentAssumption, CoreInv, AttemptsMissed, FailedForAReason,
         NEW w \in Workers, WorkerActs(w)
  PROVE  AttemptsMissed' /\ FailedForAReason'
<1>0. TypeOK /\ CoreInv'
  BY WorkerKeepsCore DEF CoreInv
<1>1. WorkerEffect(w) /\ MissEffect(w)
  BY <1>0, WorkerSteps, WorkerMisses DEF CoreInv
<1>2. \A k \in Jobs : misses[k] \in Nat /\ misses'[k] \in Nat
  BY <1>0 DEF CoreInv, TypeOK
<1>3. /\ JobOf(w) \in Jobs /\ run[w].entry.attempts \in Nat /\ run[w].entry.job = JobOf(w)
      /\ Again(w).job = JobOf(w) /\ Again(w).attempts = run[w].entry.attempts + 1
      /\ Busy(w) => run[w].entry.attempts <= misses[JobOf(w)]
      /\ MaxRetries \in Nat
  BY <1>0, CallType, AgainType DEF JobOf, AttemptsMissed, AgentAssumption
<1>4. \A e \in queue : e.job \in Jobs /\ e.attempts \in Nat /\ e.attempts <= misses[e.job]
  BY <1>0 DEF TypeOK, Entry, AttemptsMissed
<1>5. \A e \in queue' : e.attempts <= misses'[e.job]
  BY <1>1, <1>2, <1>3, <1>4 DEF MissEffect
<1>6. \A v \in Workers : Busy(v)' => run'[v].entry.attempts <= misses'[JobOf(v)']
  <2> SUFFICES ASSUME NEW v \in Workers, Busy(v)'
               PROVE  run'[v].entry.attempts <= misses'[JobOf(v)']
    OBVIOUS
  <2>1. CASE v # w
    <3>1. /\ JobOf(v) \in Jobs /\ run[v].entry.attempts \in Nat
          /\ JobOf(v)' = JobOf(v) /\ run'[v] = run[v] /\ Busy(v)
      BY <1>0, <1>1, <2>1, CallType DEF WorkerEffect, JobOf, Busy
    <3> QED
      BY <1>1, <1>2, <3>1 DEF MissEffect, AttemptsMissed
  <2>2. CASE v = w
    <3>1. run'[w].entry \in queue \/ (Busy(w) /\ run'[w].entry = run[w].entry)
      BY <1>1, <2>2 DEF WorkerEffect
    <3> QED
      BY <1>1, <1>2, <1>3, <1>4, <2>2, <3>1 DEF MissEffect, JobOf
  <2> QED
    BY <2>1, <2>2
<1>7. FailedForAReason'
  <2> SUFFICES ASSUME NEW k \in Jobs, stage'[k] = "failed"
               PROVE  misses'[k] >= Due(k)
    BY <1>1 DEF FailedForAReason, Due, Chat, WorkerEffect
  <2>1. CASE stage[k] = "failed"
    BY <1>1, <1>2, <1>3, <2>1 DEF FailedForAReason, Due, Chat, MissEffect
  <2>2. CASE /\ k = JobOf(w) /\ Busy(w) /\ misses'[k] = misses[k] + 1
             /\ Chat(k) => run[w].entry.attempts + 1 > MaxRetries
    BY <1>2, <1>3, <2>2 DEF Due
  <2> QED
    BY <1>1, <2>1, <2>2 DEF MissEffect
<1> QED
  BY <1>5, <1>6, <1>7 DEF AttemptsMissed

\* A job is reported as failed only after its input, the LLM or Redis ended as
\* many of its runs as its kind has: a failure of the memory costs it none.
THEOREM JobsFailForAReason == Spec => []FailedForAReason
<1> DEFINE Inv == CoreInv /\ AttemptsMissed /\ FailedForAReason
<1>1. AgentAssumption /\ Init => Inv
  <2>1. Init => AttemptsMissed /\ FailedForAReason
    BY DEF Init, AttemptsMissed, FailedForAReason, Busy, Idle
  <2> QED
    BY <2>1, CoreInit
<1>2. AgentAssumption /\ Inv /\ [Next]_vars => Inv'
  <2> SUFFICES ASSUME AgentAssumption, Inv, [Next]_vars PROVE Inv'
    OBVIOUS
  <2>1. CoreInv'
    BY CoreNext
  <2>2. CASE Next
    BY <2>1, <2>2, Steps, PlatformMisses, WorkerKeepsReasons
  <2>3. CASE UNCHANGED vars
    BY <2>1, <2>3 DEF vars, platformVars, countVars, AttemptsMissed, FailedForAReason, Busy,
       JobOf
  <2> QED
    BY <2>2, <2>3
<1> HIDE DEF Inv
<1>3. Inv => FailedForAReason
  BY DEF Inv
<1> QED
  BY <1>1, <1>2, <1>3, AgentAssumption, PTL DEF Spec

-----------------------------------------------------------------------------
(* Answers leave in the memory what later turns will need.                 *)

\* The answered questions that the history of job k has.
Questions(k) == QaPairs(job[k].history)

\* Every question of job k is remembered, except those in rest.
RememberedBut(k, rest) == \A i \in Questions(k) : i \in rest \/ memory[PairAt(i)] > 0

\* What a call has stored by the time it has come to a place.
Stored(w) ==
  mode = "ready" /\ JobOf(w) \notin forgot =>
    /\ run[w].at = "store_srs" => run[w].result = "complete"
    /\ run[w].at = "store_pairs" =>
         run[w].result = "clarify" /\ RememberedBut(JobOf(w), run[w].pairs)
    /\ run[w].at = "publish" /\ run[w].result = "complete" => memory[SrsOf(JobOf(w))] > 0
    /\ run[w].at = "publish" /\ run[w].result = "clarify" => RememberedBut(JobOf(w), {})

RememberInv == AnswersRemembered /\ \A w \in Workers : Stored(w)

\* The memory forgets nothing.
MemoryGrows ==
  /\ mode' = mode /\ forgot \subseteq forgot'
  /\ \A c \in Chunks : memory'[c] >= memory[c] /\ memory[c] \in Nat /\ memory'[c] \in Nat

\* The pairs and the SRS of a job have rows of the memory.
LEMMA ChunksOf ==
  ASSUME AgentAssumption, TypeOK, NEW k \in Jobs
  PROVE  SrsOf(k) \in Chunks /\ \A i \in Questions(k) : PairAt(i) \in Chunks
BY PairsType DEF Chunks, Questions

\* What was said before a job stays what it was.
LEMMA QuestionsKept ==
  ASSUME TypeOK, Origin, AgentAssumption, NEW k \in Jobs, job'[k] = job[k],
         \/ said' = said
         \/ \E x : said' = Append(said, x)
  PROVE  Questions(k)' = Questions(k)
<1>1. /\ said \in Seq({"user", "assistant"}) /\ Len(said) \in Nat
      /\ job[k].history \in Nat /\ job[k].history <= Len(said)
  BY PairsType DEF TypeOK, Origin
<1>2. \A i \in 1 .. Len(said) : said'[i] = said[i]
  BY <1>1
<1>3. \A i \in 1 .. job[k].history - 1 : said'[i] = said[i] /\ said'[i + 1] = said[i + 1]
  BY <1>1, <1>2
<1> QED
  BY <1>3 DEF Questions, QaPairs

\* What is remembered stays so.
LEMMA RememberedKept ==
  ASSUME TypeOK, AgentAssumption, MemoryGrows, NEW k \in Jobs, Questions(k)' = Questions(k)
  PROVE  /\ memory[SrsOf(k)] > 0 => memory'[SrsOf(k)] > 0
         /\ \A i \in Questions(k) : memory[PairAt(i)] > 0 => memory'[PairAt(i)] > 0
BY ChunksOf DEF MemoryGrows

\* A call that does not move has stored what it had.
LEMMA StoredKept ==
  ASSUME TypeOK, AgentAssumption, MemoryGrows, NEW v \in Workers, run'[v] = run[v],
         Busy(v) => Questions(JobOf(v))' = Questions(JobOf(v)),
         Stored(v)
  PROVE  Stored(v)'
<1>1. JobOf(v) \in Jobs /\ JobOf(v)' = JobOf(v)
  BY CallType DEF JobOf
<1>2. CASE ~Busy(v)
  BY <1>2 DEF Stored, Busy
<1>3. CASE Busy(v)
  <2>1. /\ memory[SrsOf(JobOf(v))] > 0 => memory'[SrsOf(JobOf(v))] > 0
        /\ RememberedBut(JobOf(v), {}) => RememberedBut(JobOf(v), {})'
        /\ RememberedBut(JobOf(v), run[v].pairs) => RememberedBut(JobOf(v), run[v].pairs)'
    BY <1>1, <1>3, RememberedKept DEF RememberedBut
  <2> QED
    BY <1>1, <2>1 DEF Stored, MemoryGrows
<1> QED
  BY <1>2, <1>3

\* An answer that the platform has stays remembered.
LEMMA AnswerKept ==
  ASSUME TypeOK, AgentAssumption, MemoryGrows, AnswersRemembered, NEW k \in Jobs,
         answers'[k] = answers[k], Questions(k)' = Questions(k),
         mode' = "ready", k \notin forgot'
  PROVE  /\ "complete" \in answers'[k] => memory'[SrsOf(k)] > 0
         /\ "clarify" \in answers'[k] => \A i \in Questions(k)' : memory'[PairAt(i)] > 0
<1>1. /\ "complete" \in answers[k] => memory[SrsOf(k)] > 0
      /\ "clarify" \in answers[k] => \A i \in Questions(k) : memory[PairAt(i)] > 0
  BY DEF AnswersRemembered, MemoryGrows, Questions
<1> QED
  BY <1>1, RememberedKept

\* No step forgets a row.
LEMMA WorkerRemembers ==
  ASSUME TypeOK, AgentAssumption, NEW w \in Workers, WorkerActs(w)
  PROVE  MemoryGrows
<1> USE DEF platformVars, memoryVars, resultVars, countVars
<1>0. memory \in [Chunks -> Nat]
  BY DEF TypeOK
<1>1. CASE StoreSrs(w)
  <2>1. Store(SrsOf(JobOf(w))) \/ Forget(w)
    BY <1>1 DEF StoreSrs, JobOf
  <2> QED
    BY <1>1, <2>1, StoreType DEF StoreSrs, MemoryGrows
<1>2. CASE StorePair(w)
  <2>1. Store(PairAt(FirstPair(w))) \/ Forget(w)
    BY <1>2, StorePairFacts
  <2> QED
    BY <1>2, <2>1, StorePairFacts, StoreType DEF MemoryGrows
<1>3. ASSUME mode' = mode, memory' = memory, forgot' = forgot PROVE MemoryGrows
  BY <1>0, <1>3 DEF MemoryGrows
<1> QED
  BY <1>1, <1>2, <1>3 DEF WorkerActs, Take, ExtractFails, LlmFails, Extract, Recall,
     LlmAnswers, LlmUnusable, Publish, PublishFails, Crash, Claim

\* What worker w publishes, if anything, is remembered.
PublishedOnly(w) ==
  \/ answers' = answers
  \/ /\ run[w].at = "publish"
     /\ answers' = [answers EXCEPT ![JobOf(w)] = @ \cup {run[w].result}]

\* A new row is of the chunk that was to be stored, unless the store failed.
LEMMA StoreRemembers ==
  ASSUME TypeOK, AgentAssumption, NEW w \in Workers, NEW c \in Chunks,
         Store(c) \/ Forget(w), JobOf(w) \notin forgot'
  PROVE  memory'[c] > 0
<1>1. Store(c)
  BY DEF Forget, JobOf
<1> QED
  BY <1>1 DEF Store, TypeOK

\* A worker's call stores before it publishes.
LEMMA WorkerStores ==
  ASSUME TypeOK, AgentAssumption, NEW w \in Workers, WorkerActs(w), Stored(w), Origin,
         MemoryGrows
  PROVE  Stored(w)' /\ PublishedOnly(w)
<1> USE DEF platformVars, memoryVars, resultVars, countVars
<1>0. JobOf(w) \in Jobs /\ run[w] \in Calls /\ run \in [Workers -> Calls]
  BY CallType
<1>a. ASSUME run'[w].at \in {"idle", "extract", "recall", "ask"} PROVE Stored(w)'
  BY <1>a DEF Stored
<1>b. Idle.at = "idle"
  BY DEF Idle
<1>1. ASSUME NEW e \in queue, Take(w, e) PROVE Stored(w)' /\ PublishedOnly(w)
  <2>1. run'[w].at \in {"extract", "ask"}
    BY <1>0, <1>1 DEF Take, Idle
  <2> QED
    BY <1>1, <1>a, <2>1 DEF Take, PublishedOnly
<1>2. ASSUME NEW isQuota \in BOOLEAN,
             ExtractFails(w, isQuota) \/ LlmFails(w, isQuota) \/ PublishFails(w)
      PROVE  Stored(w)' /\ PublishedOnly(w)
  <2>1. run'[w] = Idle
    BY <1>0, <1>2, RaiseFacts DEF ExtractFails, LlmFails, PublishFails
  <2> QED
    BY <1>2, <1>a, <1>b, <2>1 DEF ExtractFails, LlmFails, PublishFails, PublishedOnly
<1>3. CASE Extract(w) \/ Recall(w)
  <2>1. run'[w].at \in {"recall", "ask"}
    BY <1>0, <1>3 DEF Extract, Recall, GoTo, Calls
  <2> QED
    BY <1>3, <1>a, <2>1 DEF Extract, Recall, PublishedOnly
<1>4. CASE LlmAnswers(w)
  <2>1. PICK res \in Results : run' = [run EXCEPT ![w] = AfterAnswer(@, res)]
    BY <1>4, ResultType DEF LlmAnswers
  <2> DEFINE pairs == Questions(JobOf(w))
             q == IF res = "clarify" /\ MemoryEnabled THEN pairs ELSE {}
             a == IF res = "complete" /\ MemoryEnabled THEN "store_srs"
                  ELSE IF res = "clarify" /\ MemoryEnabled /\ pairs # {}
                  THEN "store_pairs" ELSE "publish"
  <2>2. run'[w] = [run[w] EXCEPT !.result = res, !.pairs = q, !.at = a]
    BY <1>0, <2>1 DEF AfterAnswer, Questions, JobOf
  <2>3. /\ run'[w].result = res /\ run'[w].pairs = q /\ run'[w].at = a
        /\ run'[w].entry = run[w].entry
    BY <1>0, <2>2 DEF Calls
  <2>4. JobOf(w)' = JobOf(w) /\ Questions(JobOf(w))' = Questions(JobOf(w))
    BY <1>0, <1>4, <2>3, QuestionsKept DEF LlmAnswers, JobOf
  <2>5. ASSUME mode' = "ready" PROVE Stored(w)'
    <3>1. MemoryEnabled
      BY <2>5 DEF MemoryEnabled, MemoryGrows
    <3> QED
      BY <2>3, <2>4, <3>1 DEF Stored, RememberedBut
  <2>6. Stored(w)'
    BY <2>5 DEF Stored
  <2> QED
    BY <1>4, <2>6 DEF LlmAnswers, PublishedOnly
<1>5. CASE LlmUnusable(w)
  <2>1. run'[w].at = "ask"
    BY <1>0, <1>5, CountFacts DEF LlmUnusable, Calls
  <2> QED
    BY <1>5, <1>a, <2>1 DEF LlmUnusable, PublishedOnly
<1>6. CASE StoreSrs(w)
  <2>1. /\ GoTo(w, "publish") /\ (Store(SrsOf(JobOf(w))) \/ Forget(w))
        /\ run[w].at = "store_srs"
    BY <1>6 DEF StoreSrs, JobOf
  <2>2. /\ run'[w].at = "publish" /\ run'[w].result = run[w].result
        /\ JobOf(w)' = JobOf(w)
    BY <1>0, <2>1 DEF GoTo, Calls, JobOf
  <2>3. ASSUME mode' = "ready", JobOf(w) \notin forgot' PROVE Stored(w)'
    <3>1. memory'[SrsOf(JobOf(w))] > 0
      BY <1>0, <2>1, <2>3, StoreRemembers, ChunksOf
    <3>2. run[w].result = "complete"
      BY <2>1, <2>3 DEF Stored, MemoryGrows
    <3> QED
      BY <2>2, <3>1, <3>2 DEF Stored
  <2>4. Stored(w)'
    BY <2>2, <2>3 DEF Stored
  <2> QED
    BY <1>6, <2>4 DEF StoreSrs, PublishedOnly
<1>7. CASE StorePair(w)
  <2>1. /\ run[w].at = "store_pairs" /\ answers' = answers
        /\ said' = said /\ job' = job
        /\ Store(PairAt(FirstPair(w))) \/ Forget(w)
    BY <1>7, StorePairFacts
  <2>2. /\ run'[w].entry = run[w].entry /\ run'[w].result = run[w].result
        /\ run'[w].at \in {"store_pairs", "publish"}
        /\ \/ Forget(w)
           \/ /\ run'[w].pairs = PairsLeft(w)
              /\ run'[w].at = "publish" => PairsLeft(w) = {}
    <3>1. CASE GoTo(w, "publish") /\ Forget(w)
      BY <1>0, <3>1 DEF GoTo, Calls
    <3> DEFINE a == IF PairsLeft(w) = {} THEN "publish" ELSE "store_pairs"
               r == [run[w] EXCEPT !.pairs = PairsLeft(w), !.at = a]
    <3>2. CASE run' = [run EXCEPT ![w].pairs = PairsLeft(w), ![w].at = a]
      <4>1. run'[w] = r
        BY <1>0, <3>2
      <4>2. /\ r.entry = run[w].entry /\ r.result = run[w].result
            /\ r.pairs = PairsLeft(w) /\ r.at = a
        BY <1>0 DEF Calls
      <4> QED
        BY <4>1, <4>2
    <3> QED
      BY <1>7, <3>1, <3>2, StorePairFacts
  <2>3. JobOf(w)' = JobOf(w) /\ Questions(JobOf(w))' = Questions(JobOf(w))
    BY <1>0, <2>1, <2>2, QuestionsKept DEF JobOf
  <2>4. ASSUME mode' = "ready", JobOf(w) \notin forgot' PROVE Stored(w)'
    <3>1. ~Forget(w) /\ Store(PairAt(FirstPair(w)))
      BY <2>1, <2>4 DEF Forget, JobOf
    <3>2. run[w].result = "clarify" /\ RememberedBut(JobOf(w), run[w].pairs)
      BY <2>1, <2>4 DEF Stored, MemoryGrows
    <3>3. \A i \in Questions(JobOf(w)) : i \in PairsLeft(w) \/ memory'[PairAt(i)] > 0
      <4> SUFFICES ASSUME NEW i \in Questions(JobOf(w)), i \notin PairsLeft(w)
                   PROVE  memory'[PairAt(i)] > 0
        OBVIOUS
      <4>1. PairAt(i) \in Chunks
        BY <1>0, ChunksOf
      <4>2. CASE i = FirstPair(w)
        BY <2>4, <3>1, <4>1, <4>2, StoreRemembers
      <4>3. CASE i \notin run[w].pairs
        BY <3>2, <4>1, <4>3 DEF RememberedBut, MemoryGrows
      <4> QED
        BY <4>2, <4>3 DEF PairsLeft
    <3> QED
      BY <2>2, <2>3, <3>1, <3>2, <3>3 DEF Stored, RememberedBut
  <2>5. Stored(w)'
    BY <2>3, <2>4 DEF Stored
  <2> QED
    BY <2>1, <2>5 DEF PublishedOnly
<1>8. CASE Publish(w)
  <2>1. run'[w] = Idle
    BY <1>0, <1>8 DEF Publish
  <2> QED
    BY <1>8, <1>a, <1>b, <2>1 DEF Publish, PublishedOnly, JobOf
<1>9. CASE Crash(w)
  <2>1. run'[w] = Idle
    BY <1>0, <1>9 DEF Crash
  <2> QED
    BY <1>9, <1>a, <1>b, <2>1 DEF Crash, PublishedOnly
<1>10. CASE Claim(w)
  BY <1>10 DEF Claim, PublishedOnly, Stored, JobOf, RememberedBut, Questions, QaPairs
<1> QED
  BY <1>1, <1>2, <1>3, <1>4, <1>5, <1>6, <1>7, <1>8, <1>9, <1>10 DEF WorkerActs

\* A worker's step keeps what answers leave behind.
LEMMA WorkerKeepsAnswers ==
  ASSUME AgentAssumption, CoreInv, RememberInv, NEW w \in Workers, WorkerActs(w)
  PROVE  RememberInv'
<1>0. TypeOK /\ Origin /\ UnderWay(w)
  BY DEF CoreInv
<1>1. WorkerEffect(w) /\ MemoryGrows
  BY <1>0, WorkerSteps, WorkerRemembers
<1>2. Stored(w)' /\ PublishedOnly(w)
  BY <1>0, <1>1, WorkerStores DEF RememberInv
<1>3. \A k \in Jobs : Questions(k)' = Questions(k)
  BY <1>0, <1>1, QuestionsKept DEF WorkerEffect
<1>4. \A v \in Workers : Stored(v)'
  <2> SUFFICES ASSUME NEW v \in Workers, v # w PROVE Stored(v)'
    BY <1>2
  <2>1. run'[v] = run[v] /\ JobOf(v) \in Jobs /\ JobOf(v)' = JobOf(v) /\ Stored(v)
    BY <1>0, <1>1, CallType DEF WorkerEffect, JobOf, RememberInv
  <2>2. Questions(JobOf(v))' = Questions(JobOf(v))
    BY <1>3, <2>1 DEF Questions, QaPairs
  <2> QED
    BY <1>0, <1>1, <2>1, <2>2, StoredKept
<1>5. AnswersRemembered'
  <2> SUFFICES ASSUME NEW k \in Jobs, mode' = "ready", k \notin forgot'
               PROVE  /\ "complete" \in answers'[k] => memory'[SrsOf(k)] > 0
                      /\ "clarify" \in answers'[k] =>
                           \A i \in Questions(k)' : memory'[PairAt(i)] > 0
    BY DEF AnswersRemembered, Questions
  <2>1. CASE answers'[k] = answers[k]
    BY <1>0, <1>1, <1>3, <2>1, AnswerKept DEF RememberInv
  <2>2. CASE /\ run[w].at = "publish" /\ k = JobOf(w)
             /\ answers'[k] = answers[k] \cup {run[w].result}
    <3>1. mode = "ready" /\ k \notin forgot
      BY <1>1 DEF MemoryGrows
    <3>2. /\ run[w].result = "complete" => memory[SrsOf(k)] > 0
          /\ run[w].result = "clarify" => \A i \in Questions(k) : memory[PairAt(i)] > 0
      BY <2>2, <3>1 DEF RememberInv, Stored, RememberedBut
    <3>3. /\ "complete" \in answers[k] => memory[SrsOf(k)] > 0
          /\ "clarify" \in answers[k] => \A i \in Questions(k) : memory[PairAt(i)] > 0
      BY <3>1 DEF RememberInv, AnswersRemembered, Questions
    <3>4. /\ "complete" \in answers'[k] => memory[SrsOf(k)] > 0
          /\ "clarify" \in answers'[k] => \A i \in Questions(k) : memory[PairAt(i)] > 0
      BY <2>2, <3>2, <3>3
    <3> QED
      BY <1>0, <1>1, <1>3, <3>4, RememberedKept
  <2> QED
    BY <1>0, <1>2, <2>1, <2>2 DEF PublishedOnly, TypeOK
<1> QED
  BY <1>4, <1>5 DEF RememberInv

\* A question and an answer keep what answers leave behind.
LEMMA PlatformKeepsAnswers ==
  ASSUME AgentAssumption, CoreInv, RememberInv,
         \/ \E j \in Jobs, kind \in Kinds, draft \in Drafts \cup {<<>>} : Ask(j, kind, draft)
         \/ \E j \in Jobs : SaveAnswer(j)
  PROVE  RememberInv'
<1> USE DEF memoryVars, resultVars, countVars
<1>0. TypeOK /\ Origin
  BY DEF CoreInv
<1>1. MemoryGrows /\ run' = run /\ answers' = answers
  BY <1>0 DEF Ask, SaveAnswer, MemoryGrows, TypeOK
<1>2. said' = said \/ \E x : said' = Append(said, x)
  BY DEF Ask, SaveAnswer
<1>3. \A k \in Jobs : stage[k] # "new" => job'[k] = job[k]
  BY <1>0 DEF Ask, SaveAnswer, TypeOK
<1>4. \A k \in Jobs : stage[k] # "new" => Questions(k)' = Questions(k)
  BY <1>0, <1>2, <1>3, QuestionsKept
<1>5. \A v \in Workers : Stored(v)'
  <2> SUFFICES ASSUME NEW v \in Workers PROVE Stored(v)'
    OBVIOUS
  <2>1. run'[v] = run[v] /\ JobOf(v) \in Jobs /\ JobOf(v)' = JobOf(v) /\ Stored(v)
    BY <1>0, <1>1, CallType DEF JobOf, RememberInv
  <2>2. Busy(v) => Questions(JobOf(v))' = Questions(JobOf(v))
    BY <1>0, <1>4, <2>1 DEF Origin, Questions, QaPairs
  <2> QED
    BY <1>0, <1>1, <2>1, <2>2, StoredKept
<1>6. AnswersRemembered'
  <2> SUFFICES ASSUME NEW k \in Jobs, mode' = "ready", k \notin forgot'
               PROVE  /\ "complete" \in answers'[k] => memory'[SrsOf(k)] > 0
                      /\ "clarify" \in answers'[k] =>
                           \A i \in Questions(k)' : memory'[PairAt(i)] > 0
    BY DEF AnswersRemembered, Questions
  <2>1. CASE stage[k] = "new"
    BY <1>0, <1>1, <2>1 DEF Origin
  <2>2. CASE stage[k] # "new"
    BY <1>0, <1>1, <1>4, <2>2, AnswerKept DEF RememberInv
  <2> QED
    BY <2>1, <2>2
<1> QED
  BY <1>5, <1>6 DEF RememberInv

\* With a memory that works, an answer that reached the platform left the SRS it
\* completed, or every answered question before it, in the memory, unless one
\* of the job's stores failed.
THEOREM AnswersAreRemembered == Spec => []AnswersRemembered
<1> DEFINE Inv == CoreInv /\ RememberInv
<1>1. AgentAssumption /\ Init => Inv
  <2>1. Init => RememberInv
    BY DEF Init, RememberInv, AnswersRemembered, Stored, Idle
  <2> QED
    BY <2>1, CoreInit
<1>2. AgentAssumption /\ Inv /\ [Next]_vars => Inv'
  <2> SUFFICES ASSUME AgentAssumption, Inv, [Next]_vars PROVE Inv'
    OBVIOUS
  <2>1. CoreInv'
    BY CoreNext
  <2>2. CASE Next
    BY <2>1, <2>2, Steps, PlatformKeepsAnswers, WorkerKeepsAnswers
  <2>3. CASE UNCHANGED vars
    BY <2>1, <2>3 DEF vars, platformVars, memoryVars, resultVars, RememberInv,
       AnswersRemembered, Stored, RememberedBut, Questions, QaPairs, JobOf
  <2> QED
    BY <2>2, <2>3
<1> HIDE DEF Inv
<1>3. Inv => AnswersRemembered
  BY DEF Inv, RememberInv
<1> QED
  BY <1>1, <1>2, <1>3, AgentAssumption, PTL DEF Spec

-----------------------------------------------------------------------------
(* Counting with weights: each element of a domain has as many tokens as a *)
(* function says.                                                          *)

Tokens(f) == {p \in (DOMAIN f) \X Nat : p[2] \in 1 .. f[p[1]]}
Total(f)  == Cardinality(Tokens(f))

\* A column of n tokens has n elements.
LEMMA Column ==
  ASSUME NEW x, NEW n \in Nat
  PROVE  IsFiniteSet({x} \X (1 .. n)) /\ Cardinality({x} \X (1 .. n)) = n
<1> DEFINE C == {x} \X (1 .. n)
           h == [i \in 1 .. n |-> <<x, i>>]
<1>1. h \in [1 .. n -> C]
  OBVIOUS
<1>2. IsInjective(h)
  BY DEF IsInjective
<1>3. \A c \in C : \E i \in 1 .. n : h[i] = c
  OBVIOUS
<1>4. h \in Bijection(1 .. n, C)
  BY <1>1, <1>2, <1>3 DEF Bijection, Injection, Surjection
<1>5. IsFiniteSet(1 .. n) /\ Cardinality(1 .. n) = n
  BY FS_Interval
<1>6. ExistsBijection(1 .. n, C)
  BY <1>4 DEF ExistsBijection
<1> HIDE DEF C, h
<1>7. IsFiniteSet(C) /\ Cardinality(C) = n
  BY <1>5, <1>6, FS_Bijection
<1> QED
  BY <1>7 DEF C

\* When one weight changes, the total changes by the difference.
LEMMA OneWeight ==
  ASSUME NEW D, NEW f \in [D -> Nat], NEW g \in [D -> Nat], NEW x \in D,
         \A y \in D : y # x => g[y] = f[y], IsFiniteSet(Tokens(f))
  PROVE  /\ IsFiniteSet(Tokens(g)) /\ Total(f) \in Nat /\ Total(g) \in Nat
         /\ Total(g) + f[x] = Total(f) + g[x]
<1> DEFINE R == {p \in Tokens(f) : p[1] # x}
           F == {x} \X (1 .. f[x])
           G == {x} \X (1 .. g[x])
<1>1. f[x] \in Nat /\ g[x] \in Nat
  OBVIOUS
<1>2. Tokens(f) = R \cup F /\ R \cap F = {}
  BY DEF Tokens
<1>3. Tokens(g) = R \cup G /\ R \cap G = {}
  BY DEF Tokens
<1>4. /\ IsFiniteSet(F) /\ Cardinality(F) = f[x]
      /\ IsFiniteSet(G) /\ Cardinality(G) = g[x]
  BY <1>1, Column
<1>5. IsFiniteSet(R) /\ Cardinality(R) \in Nat
  BY <1>2, FS_Subset, FS_CardinalityType
<1> HIDE DEF R, F, G
<1>6. /\ IsFiniteSet(R \cup F)
      /\ Cardinality(R \cup F) = Cardinality(R) + Cardinality(F) - Cardinality(R \cap F)
  BY <1>4, <1>5, FS_Union
<1>7. /\ IsFiniteSet(R \cup G)
      /\ Cardinality(R \cup G) = Cardinality(R) + Cardinality(G) - Cardinality(R \cap G)
  BY <1>4, <1>5, FS_Union
<1>8. Cardinality({}) = 0
  BY FS_EmptySet
<1>9. Total(f) = Cardinality(R) + f[x]
  <2>1. Total(f) = Cardinality(R \cup F) /\ Cardinality(R \cap F) = 0
    BY <1>2, <1>8, Zenon DEF Total
  <2> QED
    BY <1>1, <1>4, <1>5, <1>6, <2>1
<1>10. Total(g) = Cardinality(R) + g[x] /\ IsFiniteSet(Tokens(g))
  <2>1. /\ Total(g) = Cardinality(R \cup G) /\ Cardinality(R \cap G) = 0
        /\ IsFiniteSet(Tokens(g))
    BY <1>3, <1>7, <1>8, Zenon DEF Total
  <2> QED
    BY <1>1, <1>4, <1>5, <1>7, <2>1
<1> QED
  BY <1>1, <1>5, <1>9, <1>10

\* Nothing weighs nothing.
LEMMA NoWeight ==
  ASSUME NEW D, NEW f \in [D -> Nat], \A x \in D : f[x] = 0
  PROVE  IsFiniteSet(Tokens(f)) /\ Total(f) = 0
<1>1. Tokens(f) = {}
  BY DEF Tokens
<1> QED
  BY <1>1, FS_EmptySet DEF Total

\* The budget b of what was spent, a, and of what waits, f, and is being worked
\* on, g, is kept by a step that pays for the entry and the worker it is about.
Affordable(a, f, g, b) ==
  /\ IsFiniteSet(Tokens(f)) /\ IsFiniteSet(Tokens(g))
  /\ a + Total(f) + Total(g) <= b

\* Only the weights of x and z change, from f and g to f1 and g1, and what was
\* spent and the budget change accordingly.
Pays(D, f, f1, x, E, g, g1, z, a, a1, b, b1) ==
  /\ f \in [D -> Nat] /\ f1 \in [D -> Nat] /\ x \in D
  /\ \A y \in D : y # x => f1[y] = f[y]
  /\ g \in [E -> Nat] /\ g1 \in [E -> Nat] /\ z \in E
  /\ \A y \in E : y # z => g1[y] = g[y]
  /\ a \in Nat /\ a1 \in Nat /\ b \in Nat /\ b1 \in Nat
  /\ Affordable(a, f, g, b)
  /\ a1 + f1[x] + g1[z] + b <= a + f[x] + g[z] + b1

\* A step that pays keeps the budget.
LEMMA Paid ==
  ASSUME NEW D, NEW f, NEW f1, NEW x, NEW E, NEW g, NEW g1, NEW z,
         NEW a, NEW a1, NEW b, NEW b1, Pays(D, f, f1, x, E, g, g1, z, a, a1, b, b1)
  PROVE  Affordable(a1, f1, g1, b1)
<1> USE DEF Pays
<1>1. /\ IsFiniteSet(Tokens(f1)) /\ Total(f) \in Nat /\ Total(f1) \in Nat
      /\ Total(f1) + f[x] = Total(f) + f1[x]
  BY OneWeight DEF Affordable
<1>2. /\ IsFiniteSet(Tokens(g1)) /\ Total(g) \in Nat /\ Total(g1) \in Nat
      /\ Total(g1) + g[z] = Total(g) + g1[z]
  BY OneWeight DEF Affordable
<1>3. f[x] \in Nat /\ f1[x] \in Nat /\ g[z] \in Nat /\ g1[z] \in Nat
  OBVIOUS
<1> QED
  BY <1>1, <1>2, <1>3 DEF Affordable

-----------------------------------------------------------------------------
(* How entries and calls move.                                             *)

Asking == {"extract", "recall", "ask"}
Early  == Asking \cup {"store_srs"}

\* Worker w takes entry e.
Takes(w, e) ==
  /\ ~Busy(w) /\ e \in queue /\ queue' = queue \ {e}
  /\ run'[w].entry = e /\ run'[w].at \in {"extract", "ask"} /\ run'[w].tries = 0
  /\ UNCHANGED <<stage, memory, asked, repeats, quota>>

\* Worker w's call goes on: before the LLM answers, with its answer, with an
\* answer that is no use, or after it.
GoesOn(w) ==
  /\ Busy(w) /\ Busy(w)' /\ run'[w].entry = run[w].entry
  /\ UNCHANGED <<queue, stage, repeats, quota>>
  /\ \/ /\ run[w].at \in Asking /\ run'[w].at \in Asking
        /\ run'[w].tries = run[w].tries
        /\ UNCHANGED <<asked, memory>>
     \/ /\ run[w].at = "ask" /\ run'[w].at \notin Asking
        /\ Asks(w) /\ UNCHANGED memory
     \/ /\ run[w].at = "ask" /\ run'[w].at = "ask"
        /\ run'[w].tries = run[w].tries + 1
        /\ Asks(w) /\ UNCHANGED memory
     \/ /\ run[w].at = "store_srs" /\ run'[w].at = "publish"
        /\ Store(SrsOf(JobOf(w))) \/ UNCHANGED memory
        /\ UNCHANGED asked
     \/ /\ run[w].at = "store_pairs" /\ run'[w].at \notin Early
        /\ memory'[SrsOf(JobOf(w))] = memory[SrsOf(JobOf(w))]
        /\ UNCHANGED asked

\* Worker w's call ends with an error, which may follow a lost result.
Errs(w, isQuota) ==
  /\ Busy(w) /\ run'[w] = Idle /\ UNCHANGED memory
  /\ Retried(w, isQuota) \/ GivenUp(w, isQuota)
  /\ quota' = IF isQuota THEN quota + 1 ELSE quota
  /\ \/ /\ run[w].at \in Asking /\ UNCHANGED repeats
        /\ UNCHANGED asked \/ Asks(w)
     \/ /\ run[w].at = "publish" /\ Repeat(JobOf(w)) /\ UNCHANGED asked

\* Worker w's call ends with its result.
Ends(w) ==
  /\ run[w].at = "publish" /\ run'[w] = Idle
  /\ UNCHANGED <<queue, memory, asked, repeats, quota>>
  /\ stage' = IF stage[JobOf(w)] \in {"asked", "failed"}
              THEN [stage EXCEPT ![JobOf(w)] = "returned"] ELSE stage

\* The entry of worker w is delivered again.
Redelivers(w) ==
  /\ Busy(w) /\ queue' = queue \cup {run[w].entry} /\ Repeat(JobOf(w))
  /\ UNCHANGED <<stage, memory, asked, quota>>
  /\ run'[w] = Idle \/ (run'[w] = run[w] /\ run[w].entry \notin queue)

\* Every worker's step is one of these moves.
LEMMA Moves ==
  ASSUME TypeOK, AgentAssumption, NEW w \in Workers, WorkerActs(w)
  PROVE  \/ \E e \in queue : Takes(w, e)
         \/ GoesOn(w)
         \/ \E isQuota \in BOOLEAN : Errs(w, isQuota)
         \/ Ends(w)
         \/ Redelivers(w)
<1> USE DEF platformVars, memoryVars, resultVars, countVars
<1>0. JobOf(w) \in Jobs /\ run[w] \in Calls /\ run \in [Workers -> Calls]
  BY CallType
<1>1. ASSUME NEW e \in queue, Take(w, e) PROVE Takes(w, e)
  <2> DEFINE a == IF job[e.job].kind \in ChatTurns THEN "extract" ELSE "ask"
  <2>1. run'[w] = [Idle EXCEPT !.entry = e, !.at = a] /\ a \in {"extract", "ask"}
    BY <1>0, <1>1 DEF Take
  <2> HIDE DEF a
  <2>2. run'[w].entry = e /\ run'[w].at = a /\ run'[w].tries = 0
    BY <2>1 DEF Idle
  <2> QED
    BY <1>1, <2>1, <2>2 DEF Take, Takes, Busy
<1>2. ASSUME NEW isQuota \in BOOLEAN, ExtractFails(w, isQuota) \/ LlmFails(w, isQuota)
      PROVE  Errs(w, isQuota)
  <2>1. /\ Raise(w, isQuota) /\ run[w].at \in Asking
        /\ UNCHANGED <<memory, repeats>> /\ (UNCHANGED asked \/ Asks(w))
    BY <1>2, CountFacts DEF ExtractFails, LlmFails, Asking
  <2>2. run'[w] = Idle
    BY <1>0, <2>1, RaiseFacts
  <2> QED
    BY <2>1, <2>2, RaiseFacts DEF Errs, Busy, Asking
<1>3. CASE PublishFails(w)
  <2>1. /\ Raise(w, FALSE) /\ run[w].at = "publish" /\ Repeat(JobOf(w))
        /\ UNCHANGED <<memory, asked>>
    BY <1>3 DEF PublishFails, JobOf
  <2>2. run'[w] = Idle
    BY <1>0, <2>1, RaiseFacts
  <2>3. Errs(w, FALSE)
    BY <2>1, <2>2, RaiseFacts DEF Errs, Busy
  <2> QED
    BY <2>3
<1>4. CASE Extract(w) \/ Recall(w)
  <2>1. PICK at \in {"recall", "ask"} : run' = [run EXCEPT ![w].at = at]
    BY <1>4 DEF Extract, Recall, GoTo
  <2>2. /\ run'[w].at = at /\ run'[w].entry = run[w].entry /\ run'[w].tries = run[w].tries
    BY <1>0, <2>1 DEF Calls
  <2> QED
    BY <1>4, <2>2 DEF Extract, Recall, GoesOn, Busy, Asking
<1>5. CASE LlmAnswers(w)
  <2>1. PICK res \in Results : run' = [run EXCEPT ![w] = AfterAnswer(@, res)]
    BY <1>5, ResultType DEF LlmAnswers
  <2>2. /\ run'[w].entry = run[w].entry
        /\ run'[w].at \in {"store_srs", "store_pairs", "publish"}
    BY <1>0, <2>1 DEF AfterAnswer, Calls
  <2> QED
    BY <1>5, <2>2, CountFacts DEF LlmAnswers, GoesOn, Busy, Asking
<1>6. CASE LlmUnusable(w)
  <2>1. run' = [run EXCEPT ![w].tries = @ + 1] /\ run[w].at = "ask"
    BY <1>6, CountFacts DEF LlmUnusable
  <2>2. /\ run'[w].entry = run[w].entry /\ run'[w].tries = run[w].tries + 1
        /\ run'[w].at = "ask"
    BY <1>0, <2>1 DEF Calls
  <2> QED
    BY <1>6, <2>1, <2>2 DEF LlmUnusable, GoesOn, Busy
<1>7. CASE StoreSrs(w)
  <2>1. /\ run[w].at = "store_srs" /\ run' = [run EXCEPT ![w].at = "publish"]
        /\ Store(SrsOf(JobOf(w))) \/ UNCHANGED memory
    BY <1>7 DEF StoreSrs, Forget, JobOf, GoTo
  <2>2. run'[w].at = "publish" /\ run'[w].entry = run[w].entry
    BY <1>0, <2>1 DEF Calls
  <2> QED
    BY <1>7, <2>1, <2>2 DEF StoreSrs, GoesOn, Busy
<1>8. CASE StorePair(w)
  <2>1. /\ run[w].at = "store_pairs" /\ asked' = asked
        /\ UNCHANGED <<queue, stage, repeats, quota>>
    BY <1>8, StorePairFacts
  <2>2. run'[w].entry = run[w].entry /\ run'[w].at \in {"store_pairs", "publish"}
    <3>1. CASE GoTo(w, "publish")
      BY <1>0, <3>1 DEF GoTo, Calls
    <3> DEFINE a == IF PairsLeft(w) = {} THEN "publish" ELSE "store_pairs"
               r == [run[w] EXCEPT !.pairs = PairsLeft(w), !.at = a]
    <3>2. CASE run' = [run EXCEPT ![w].pairs = PairsLeft(w), ![w].at = a]
      <4>1. run'[w] = r
        BY <1>0, <3>2
      <4>2. r.entry = run[w].entry /\ r.at \in {"store_pairs", "publish"}
        BY <1>0 DEF Calls
      <4> QED
        BY <4>1, <4>2
    <3> QED
      BY <1>8, <3>1, <3>2, StorePairFacts
  <2>3. memory'[SrsOf(JobOf(w))] = memory[SrsOf(JobOf(w))]
    <3>1. SrsOf(JobOf(w)) \in Chunks /\ SrsOf(JobOf(w)) # PairAt(FirstPair(w))
      BY <1>0 DEF SrsOf, PairAt, Chunks
    <3>2. Store(PairAt(FirstPair(w))) \/ Forget(w)
      BY <1>8, StorePairFacts
    <3> DEFINE c == PairAt(FirstPair(w))
    <3>3. memory' = [memory EXCEPT ![c] = @ + 1] \/ memory' = memory
      BY <3>2 DEF Store, Forget
    <3> HIDE DEF c
    <3> QED
      BY <3>1, <3>3 DEF TypeOK, c
  <2> QED
    BY <2>1, <2>2, <2>3 DEF GoesOn, Busy, Early, Asking
<1>9. CASE Publish(w)
  BY <1>0, <1>9 DEF Publish, Ends, JobOf
<1>10. CASE Crash(w) \/ Claim(w)
  BY <1>0, <1>10 DEF Crash, Claim, Redelivers, Busy, JobOf
<1> QED
  BY <1>1, <1>2, <1>3, <1>4, <1>5, <1>6, <1>7, <1>8, <1>9, <1>10 DEF WorkerActs

-----------------------------------------------------------------------------
(* The LLM is asked a bounded number of times.                             *)

\* The runs that job k has, those that entry e still has, and the calls of the
\* LLM that they come to.
Full(k)  == IF Chat(k) THEN MaxRetries + 1 ELSE 1
Left(e)  == IF Chat(e.job) /\ e.attempts <= MaxRetries
            THEN MaxRetries + 1 - e.attempts ELSE 1
Worth(e) == Tries(job[e.job].kind) * Left(e)

\* What entry e, as it waits, and the call of worker w may still cost job k.
WaitWorth(k, e) == IF e \in queue /\ e.job = k THEN Worth(e) ELSE 0
CallWorth(k, w) ==
  IF ~Busy(w) \/ JobOf(w) # k THEN 0
  ELSE IF run[w].at \in Asking THEN Worth(run[w].entry) - run[w].tries
  ELSE Worth(run[w].entry) - Tries(job[k].kind)

Waiting(k) == [e \in Entry |-> WaitWorth(k, e)]
Calling(k) == [w \in Workers |-> CallWorth(k, w)]

\* The runs that job k was granted, and the calls of the LLM that they come to.
Runs(k) == IF job[k].kind \in ChatTurns THEN (repeats[k] + 1) * (MaxRetries + 1) + quota
                                        ELSE repeats[k] + 1
CallBudget(k) == Tries(job[k].kind) * Runs(k)

CallsInv ==
  \A k \in Jobs : stage[k] # "new" =>
    Affordable(asked[k], Waiting(k), Calling(k), CallBudget(k))

\* A number of tries times a number.
LEMMA Times ==
  ASSUME NEW t \in 1 .. 3, NEW x \in Nat, NEW y \in Nat
  PROVE  t * x \in Nat /\ t * (x + y) = t * x + t * y /\ t * 1 = t
<1>1. t = 1 \/ t = 2 \/ t = 3
  OBVIOUS
<1> QED
  BY <1>1

\* An entry is worth one run at least, and as many as its job has at most; a
\* retry of it is worth no more, and one run less unless it was for nothing.
LEMMA WorthFacts ==
  ASSUME AgentAssumption, NEW e \in Entry, NEW d \in Entry, d.job = e.job,
         d.attempts = e.attempts + 1
  PROVE  LET t == Tries(job[e.job].kind)
         IN  /\ t \in 1 .. 3 /\ Worth(e) \in Nat /\ Worth(d) \in Nat
             /\ t <= Worth(e) /\ Worth(e) <= t * Full(e.job)
             /\ t * Full(e.job) \in Nat /\ Full(e.job) \in Nat
             /\ Worth(d) <= Worth(e)
             /\ Chat(e.job) /\ d.attempts <= MaxRetries => Worth(d) + t <= Worth(e)
<1> DEFINE t == Tries(job[e.job].kind)
<1>1. t = 1 \/ t = 2 \/ t = 3
  BY TriesType
<1>2. e.attempts \in Nat /\ d.attempts \in Nat /\ MaxRetries \in Nat
  BY DEF Entry, AgentAssumption
<1>3. /\ Left(e) \in Nat /\ Left(d) \in Nat /\ Full(e.job) \in Nat
      /\ 1 <= Left(e) /\ Left(e) <= Full(e.job) /\ Left(d) <= Left(e)
      /\ Chat(e.job) /\ d.attempts <= MaxRetries => Left(d) + 1 <= Left(e)
  BY <1>2 DEF Left, Full
<1>4. Worth(e) = t * Left(e) /\ Worth(d) = t * Left(d)
  BY DEF Worth
<1> HIDE DEF t
<1> SUFFICES /\ t \in 1 .. 3 /\ Worth(e) \in Nat /\ Worth(d) \in Nat
             /\ t <= Worth(e) /\ Worth(e) <= t * Full(e.job)
             /\ t * Full(e.job) \in Nat /\ Full(e.job) \in Nat
             /\ Worth(d) <= Worth(e)
             /\ Chat(e.job) /\ d.attempts <= MaxRetries => Worth(d) + t <= Worth(e)
  BY DEF t
<1> QED
  BY <1>1, <1>2, <1>3, <1>4

\* The budget of a job grows with its repeats and with the quota errors.
LEMMA BudgetFacts ==
  ASSUME CoreInv, TypeOK', AgentAssumption, NEW k \in Jobs, job' = job
  PROVE  LET t == Tries(job[k].kind)
         IN  /\ CallBudget(k) \in Nat /\ CallBudget(k)' \in Nat
             /\ (repeats'[k] = repeats[k] /\ quota' >= quota)
                  => CallBudget(k)' >= CallBudget(k)
             /\ (repeats'[k] = repeats[k] + 1 /\ quota' >= quota)
                  => CallBudget(k)' >= CallBudget(k) + t * Full(k)
             /\ (repeats'[k] = repeats[k] /\ quota' = quota + 1 /\ Chat(k))
                  => CallBudget(k)' >= CallBudget(k) + t
<1> DEFINE t == Tries(job[k].kind)
<1>1. t = 1 \/ t = 2 \/ t = 3
  BY TriesType
<1>2. /\ repeats[k] \in Nat /\ quota \in Nat /\ repeats'[k] \in Nat /\ quota' \in Nat
      /\ MaxRetries \in Nat
  BY DEF CoreInv, TypeOK, AgentAssumption
<1> DEFINE r == repeats[k]  r1 == repeats'[k]  n == MaxRetries + 1
<1>3. (r + 1) * n \in Nat /\ (r1 + 1) * n \in Nat
  <2>1. \A x, y \in Nat : x * y \in Nat
    OBVIOUS
  <2>2. r + 1 \in Nat /\ r1 + 1 \in Nat /\ n \in Nat
    BY <1>2
  <2> QED
    BY <2>1, <2>2
<1>4. r1 = r + 1 => (r1 + 1) * n = (r + 1) * n + n
  <2>1. \A x, y \in Int : (x + 1) * y = x * y + y
    OBVIOUS
  <2>2. r + 1 \in Int /\ n \in Int
    BY <1>2
  <2>3. ((r + 1) + 1) * n = (r + 1) * n + n
    BY <2>1, <2>2
  <2> QED
    BY <2>3
<1>5. /\ CallBudget(k) = t * (IF Chat(k) THEN (r + 1) * n + quota ELSE r + 1)
      /\ CallBudget(k)' = t * (IF Chat(k) THEN (r1 + 1) * n + quota' ELSE r1 + 1)
  BY DEF CallBudget, Runs, Chat
<1>6. Full(k) = IF Chat(k) THEN n ELSE 1
  BY DEF Full
<1> DEFINE m == (r + 1) * n  m1 == (r1 + 1) * n
<1>7. /\ m \in Nat /\ m1 \in Nat /\ n \in Nat /\ (r1 = r + 1 => m1 = m + n) /\ (r1 = r => m1 = m)
      /\ r \in Nat /\ r1 \in Nat
      /\ CallBudget(k) = t * (IF Chat(k) THEN m + quota ELSE r + 1)
      /\ CallBudget(k)' = t * (IF Chat(k) THEN m1 + quota' ELSE r1 + 1)
  <2>1. m \in Nat /\ m1 \in Nat
    BY <1>3
  <2>2. n \in Nat /\ r \in Nat /\ r1 \in Nat
    BY <1>2
  <2>3. r1 = r + 1 => m1 = m + n
    BY <1>4
  <2>4. r1 = r => m1 = m
    OBVIOUS
  <2>5. /\ CallBudget(k) = t * (IF Chat(k) THEN m + quota ELSE r + 1)
        /\ CallBudget(k)' = t * (IF Chat(k) THEN m1 + quota' ELSE r1 + 1)
    BY <1>5
  <2> QED
    BY <2>1, <2>2, <2>3, <2>4, <2>5
<1> HIDE DEF m, m1, n, t
<1> SUFFICES /\ CallBudget(k) \in Nat /\ CallBudget(k)' \in Nat
             /\ (r1 = r /\ quota' >= quota) => CallBudget(k)' >= CallBudget(k)
             /\ (r1 = r + 1 /\ quota' >= quota)
                  => CallBudget(k)' >= CallBudget(k) + t * Full(k)
             /\ (r1 = r /\ quota' = quota + 1 /\ Chat(k))
                  => CallBudget(k)' >= CallBudget(k) + t
  BY DEF t
<1> HIDE DEF r, r1
<1>8. CASE Chat(k)
  BY <1>1, <1>2, <1>6, <1>7, <1>8
<1>9. CASE ~Chat(k)
  BY <1>1, <1>2, <1>6, <1>7, <1>9
<1> QED
  BY <1>8, <1>9

\* An entry is worth one run at least.
LEMMA EntryWorth ==
  ASSUME AgentAssumption, NEW e \in Entry
  PROVE  /\ Worth(e) \in Nat /\ Tries(job[e.job].kind) \in 1 .. 3
         /\ Tries(job[e.job].kind) <= Worth(e)
<1> DEFINE d == [e EXCEPT !.attempts = @ + 1]
<1>1. d \in Entry /\ d.job = e.job /\ d.attempts = e.attempts + 1
  BY DEF Entry
<1> HIDE DEF d
<1> QED
  BY <1>1, WorthFacts

\* What waits and what is called have weights.
LEMMA WeightTypes ==
  ASSUME CoreInv, AgentAssumption, NEW k \in Jobs
  PROVE  /\ \A e \in Entry : WaitWorth(k, e) \in Nat
         /\ \A w \in Workers : CallWorth(k, w) \in Nat
         /\ Waiting(k) \in [Entry -> Nat] /\ Calling(k) \in [Workers -> Nat]
<1>1. \A e \in Entry : /\ Worth(e) \in Nat /\ Tries(job[e.job].kind) \in 1 .. 3
                     /\ Tries(job[e.job].kind) <= Worth(e)
  BY EntryWorth
<1>2. \A e \in Entry : WaitWorth(k, e) \in Nat
  BY <1>1 DEF WaitWorth
<1>3. \A w \in Workers : CallWorth(k, w) \in Nat
  <2> SUFFICES ASSUME NEW w \in Workers PROVE CallWorth(k, w) \in Nat
    OBVIOUS
  <2>1. /\ run[w].entry \in Entry /\ run[w].entry.job = JobOf(w) /\ run[w].tries \in 0 .. 2
        /\ Busy(w) => run[w].tries < Tries(job[JobOf(w)].kind)
    BY CallType DEF CoreInv, UnderWay, JobOf
  <2> QED
    BY <1>1, <2>1 DEF CallWorth
<1> QED
  BY <1>2, <1>3 DEF Waiting, Calling

\* A step of worker w that is about entry e keeps every budget of calls if it
\* pays what it asks of the job of that entry.
LEMMA CallsPaid ==
  ASSUME AgentAssumption, CoreInv, CoreInv', CallsInv, NEW w \in Workers, WorkerEffect(w),
         NEW e \in Entry, \A d \in Entry : d # e => (d \in queue' <=> d \in queue),
         Busy(w) => JobOf(w) = e.job, Busy(w)' => JobOf(w)' = e.job,
         ~Busy(w) => asked' = asked,
         \A k \in Jobs : repeats'[k] = repeats[k] \/ repeats'[k] = repeats[k] + 1,
         quota' >= quota,
         LET k == e.job
         IN  asked'[k] + WaitWorth(k, e)' + CallWorth(k, w)' + CallBudget(k)
               <= asked[k] + WaitWorth(k, e) + CallWorth(k, w) + CallBudget(k)'
  PROVE  CallsInv'
<1> SUFFICES ASSUME NEW k \in Jobs, stage'[k] # "new"
             PROVE  Affordable(asked[k], Waiting(k), Calling(k), CallBudget(k))'
  BY DEF CallsInv
<1>1. Affordable(asked[k], Waiting(k), Calling(k), CallBudget(k))
  BY DEF CallsInv, WorkerEffect
<1>2. job' = job /\ TypeOK' /\ TypeOK
  BY DEF WorkerEffect, CoreInv
<1>3. /\ CallBudget(k) \in Nat /\ CallBudget(k)' \in Nat
      /\ CallBudget(k)' >= CallBudget(k)
  <2>1. Full(k) \in Nat /\ Tries(job[k].kind) * Full(k) \in Nat
    <3>1. Full(k) \in Nat
      BY DEF Full, AgentAssumption
    <3>2. Tries(job[k].kind) \in 1 .. 3
      BY TriesType
    <3> QED
      BY <3>1, <3>2, Times
  <2> QED
    BY <1>2, <2>1, BudgetFacts
<1>4. asked[k] \in Nat /\ asked'[k] \in Nat
  BY <1>2 DEF TypeOK
<1>5. /\ Waiting(k) \in [Entry -> Nat] /\ Calling(k) \in [Workers -> Nat]
      /\ WaitWorth(k, e) \in Nat /\ CallWorth(k, w) \in Nat
  BY WeightTypes
<1>6. /\ Waiting(k)' \in [Entry -> Nat] /\ Calling(k)' \in [Workers -> Nat]
      /\ WaitWorth(k, e)' \in Nat /\ CallWorth(k, w)' \in Nat
  <2>1. \A d \in Entry : Worth(d)' = Worth(d)
    BY <1>2 DEF Worth, Left, Chat
  <2>2. \A d \in Entry : WaitWorth(k, d)' \in Nat
    BY <2>1, EntryWorth DEF WaitWorth
  <2>3. \A v \in Workers : CallWorth(k, v)' \in Nat
    <3> SUFFICES ASSUME NEW v \in Workers PROVE CallWorth(k, v)' \in Nat
      OBVIOUS
    <3>1. /\ run'[v].entry \in Entry /\ run'[v].tries \in 0 .. 2
          /\ JobOf(v)' = run'[v].entry.job
          /\ Busy(v)' => run'[v].tries < Tries(job[JobOf(v)'].kind)
      BY <1>2 DEF CoreInv, UnderWay, JobOf, TypeOK
    <3>2. /\ Worth(run[v].entry)' = Worth(run'[v].entry)
          /\ Worth(run'[v].entry) \in Nat
          /\ Tries(job[run'[v].entry.job].kind) \in 1 .. 3
          /\ Tries(job[run'[v].entry.job].kind) <= Worth(run'[v].entry)
      BY <1>2, <3>1, EntryWorth DEF Worth, Left, Chat
    <3> QED
      BY <1>2, <3>1, <3>2 DEF CallWorth
  <2> QED
    BY <2>2, <2>3 DEF Waiting, Calling
<1>7. \A d \in Entry : d # e => Waiting(k)'[d] = Waiting(k)[d]
  BY <1>2 DEF Waiting, WaitWorth, Worth, Left, Chat
<1>8. \A v \in Workers : v # w => Calling(k)'[v] = Calling(k)[v]
  BY <1>2 DEF Calling, CallWorth, Worth, Left, Chat, WorkerEffect, JobOf, Busy
<1>9. asked'[k] + WaitWorth(k, e)' + CallWorth(k, w)' + CallBudget(k)
        <= asked[k] + WaitWorth(k, e) + CallWorth(k, w) + CallBudget(k)'
  <2>1. CASE k # e.job
    <3>1. WaitWorth(k, e) = 0 /\ WaitWorth(k, e)' = 0
      BY <2>1 DEF WaitWorth
    <3>2. CallWorth(k, w) = 0 /\ CallWorth(k, w)' = 0
      BY <2>1 DEF CallWorth
    <3>3. asked'[k] = asked[k]
      BY <2>1 DEF WorkerEffect
    <3> QED
      BY <1>3, <1>4, <3>1, <3>2, <3>3
  <2>2. CASE k = e.job
    BY <2>2
  <2> QED
    BY <2>1, <2>2
<1>10. /\ Waiting(k)[e] = WaitWorth(k, e) /\ Waiting(k)'[e] = WaitWorth(k, e)'
       /\ Calling(k)[w] = CallWorth(k, w) /\ Calling(k)'[w] = CallWorth(k, w)'
  BY DEF Waiting, Calling
<1> DEFINE f == Waiting(k)  f1 == Waiting(k)'  g == Calling(k)  g1 == Calling(k)'
           b == CallBudget(k)  b1 == CallBudget(k)'
<1>11. asked'[k] + f1[e] + g1[w] + b <= asked[k] + f[e] + g[w] + b1
  BY <1>9, <1>10
<1>12. /\ f \in [Entry -> Nat] /\ f1 \in [Entry -> Nat]
       /\ g \in [Workers -> Nat] /\ g1 \in [Workers -> Nat]
       /\ \A d \in Entry : d # e => f1[d] = f[d]
       /\ \A v \in Workers : v # w => g1[v] = g[v]
       /\ b \in Nat /\ b1 \in Nat /\ Affordable(asked[k], f, g, b)
  BY <1>1, <1>3, <1>5, <1>6, <1>7, <1>8
<1>13. Affordable(asked'[k], f1, g1, b1)
  <2> HIDE DEF f, f1, g, g1, b, b1
  <2>1. Pays(Entry, f, f1, e, Workers, g, g1, w, asked[k], asked'[k], b, b1)
    BY <1>4, <1>11, <1>12 DEF Pays
  <2> QED
    BY <2>1, Paid
<1> QED
  BY <1>13 DEF Affordable, Total, Tokens

\* The numbers of a busy worker's call: what its entry e, and a retry d of it, are
\* worth to its job k.
LEMMA CallNumbers ==
  ASSUME CoreInv, CoreInv', AgentAssumption, NEW w \in Workers, Busy(w), WorkerEffect(w),
         NEW k, k = JobOf(w), NEW e, e = run[w].entry, NEW d, d = Again(w),
         NEW t, t = Tries(job[k].kind)
  PROVE  /\ k \in Jobs /\ e \in Entry /\ e.job = k /\ d \in Entry /\ d.job = k
         /\ t \in 1 .. 3 /\ run[w].tries \in Nat /\ run[w].tries < t
         /\ asked[k] \in Nat /\ asked'[k] \in Nat
         /\ Asks(w) => asked'[k] = asked[k] + 1
         /\ Worth(e) \in Nat /\ Worth(d) \in Nat /\ t <= Worth(e)
         /\ Worth(e) <= t * Full(k) /\ t * Full(k) \in Nat
         /\ Worth(d) <= Worth(e)
         /\ Chat(k) /\ e.attempts + 1 <= MaxRetries => Worth(d) + t <= Worth(e)
         /\ CallBudget(k) \in Nat /\ CallBudget(k)' \in Nat
         /\ Worth(e)' = Worth(e) /\ Worth(d)' = Worth(d)
         /\ CallWorth(k, w) \in Nat
         /\ CallWorth(k, w) = IF run[w].at \in Asking THEN Worth(e) - run[w].tries
                              ELSE Worth(e) - t
<1>1. TypeOK /\ TypeOK' /\ job' = job
  BY DEF CoreInv, WorkerEffect
<1>2. /\ k \in Jobs /\ e \in Entry /\ e.job = k /\ run[w].tries \in Nat
      /\ d \in Entry /\ d.job = k /\ d.attempts = e.attempts + 1
  BY <1>1, CallType, AgainType DEF JobOf
<1>3. run[w].tries < t
  BY DEF CoreInv, UnderWay
<1>4. /\ asked[k] \in Nat /\ asked'[k] \in Nat
      /\ Asks(w) => asked'[k] = asked[k] + 1
  <2>1. asked \in [Jobs -> Nat] /\ asked' \in [Jobs -> Nat]
    BY <1>1 DEF TypeOK
  <2>2. Asks(w) => asked' = [asked EXCEPT ![k] = @ + 1]
    BY <1>1, CountFacts
  <2> QED
    BY <1>2, <2>1, <2>2
<1>5. /\ t \in 1 .. 3
      /\ Worth(e) \in Nat /\ Worth(d) \in Nat /\ t <= Worth(e)
      /\ Worth(e) <= t * Full(k) /\ t * Full(k) \in Nat
      /\ Worth(d) <= Worth(e)
      /\ Chat(k) /\ e.attempts + 1 <= MaxRetries => Worth(d) + t <= Worth(e)
  BY <1>2, WorthFacts
<1>6. CallBudget(k) \in Nat /\ CallBudget(k)' \in Nat
  BY <1>1, <1>2, BudgetFacts
<1>7. Worth(e)' = Worth(e) /\ Worth(d)' = Worth(d)
  BY <1>1, <1>2 DEF Worth, Left, Chat
<1>8. CallWorth(k, w) = IF run[w].at \in Asking THEN Worth(e) - run[w].tries
                        ELSE Worth(e) - t
  BY DEF CallWorth
<1>9. CallWorth(k, w) \in Nat
  <2>1. Worth(e) - run[w].tries \in Nat /\ Worth(e) - t \in Nat
    BY <1>2, <1>3, <1>5
  <2> QED
    BY <1>8, <2>1
<1> QED
  BY <1>2, <1>3, <1>4, <1>5, <1>6, <1>7, <1>8, <1>9

\* A worker's step keeps the budgets of calls.
LEMMA WorkerKeepsCalls ==
  ASSUME CoreInv, CallsInv, NEW w \in Workers, WorkerActs(w)
  PROVE  CallsInv'
<1>1. TypeOK /\ CoreInv' /\ TypeOK'
  BY AgentAssumption, WorkerKeepsCore DEF CoreInv
<1>2. WorkerEffect(w)
  BY <1>1, AgentAssumption, WorkerSteps DEF CoreInv
<1>3. ASSUME NEW e \in queue, Takes(w, e) PROVE CallsInv'
  <2> DEFINE k == e.job
  <2>1. /\ e \in Entry /\ k \in Jobs /\ Worth(e) \in Nat /\ Worth(e)' = Worth(e)
    BY <1>1, <1>2, AgentAssumption, EntryWorth DEF TypeOK, Entry, WorkerEffect, Worth, Left, Chat
  <2>2. /\ WaitWorth(k, e) = Worth(e) /\ CallWorth(k, w) = 0
        /\ WaitWorth(k, e)' = 0 /\ CallWorth(k, w)' = Worth(e)
    <3>1. WaitWorth(k, e) = Worth(e) /\ CallWorth(k, w) = 0 /\ WaitWorth(k, e)' = 0
      BY <1>3 DEF Takes, WaitWorth, CallWorth
    <3>2. /\ Busy(w)' /\ JobOf(w)' = k /\ run'[w].at \in Asking /\ run'[w].tries = 0
          /\ Worth(run[w].entry)' = Worth(e)
      BY <1>2, <1>3 DEF Takes, Busy, JobOf, Asking, WorkerEffect, Worth, Left, Chat
    <3>3. CallWorth(k, w)' = Worth(e) - 0
      BY <3>2 DEF CallWorth
    <3> QED
      BY <2>1, <3>1, <3>3
  <2>3. /\ CallBudget(k) \in Nat /\ CallBudget(k)' = CallBudget(k) /\ asked'[k] = asked[k]
        /\ asked[k] \in Nat
    BY <1>1, <1>2, <1>3, <2>1, AgentAssumption, BudgetFacts DEF Takes, CallBudget, Runs, WorkerEffect, TypeOK
  <2>4. asked'[k] + WaitWorth(k, e)' + CallWorth(k, w)' + CallBudget(k)
          <= asked[k] + WaitWorth(k, e) + CallWorth(k, w) + CallBudget(k)'
    BY <2>1, <2>2, <2>3
  <2>5. quota' >= quota
    BY <1>1, <1>3 DEF Takes, TypeOK
  <2> QED
    BY <1>1, <1>2, <1>3, <2>1, <2>4, <2>5, AgentAssumption, CallsPaid DEF Takes, JobOf
<1>4. ASSUME Busy(w), NEW x \in Entry, x.job = JobOf(w),
             \A d \in Entry : d # x => (d \in queue' <=> d \in queue),
             Busy(w)' => run'[w].entry = run[w].entry,
             \A k \in Jobs : repeats'[k] = repeats[k] \/ repeats'[k] = repeats[k] + 1,
             quota' >= quota,
             asked'[x.job] + WaitWorth(x.job, x)' + CallWorth(x.job, w)' + CallBudget(x.job)
               <= asked[x.job] + WaitWorth(x.job, x) + CallWorth(x.job, w) + CallBudget(x.job)'
      PROVE  CallsInv'
  BY <1>1, <1>2, <1>4, AgentAssumption, CallsPaid DEF JobOf
<1>5. repeats' = repeats => \A k \in Jobs : repeats'[k] = repeats[k] \/ repeats'[k] = repeats[k] + 1
  OBVIOUS
<1>6. Repeat(JobOf(w)) =>
        /\ \A k \in Jobs : repeats'[k] = repeats[k] \/ repeats'[k] = repeats[k] + 1
        /\ repeats'[JobOf(w)] = repeats[JobOf(w)] + 1
  <2> SUFFICES ASSUME Repeat(JobOf(w))
               PROVE  /\ \A k \in Jobs : repeats'[k] = repeats[k] \/ repeats'[k] = repeats[k] + 1
                      /\ repeats'[JobOf(w)] = repeats[JobOf(w)] + 1
    OBVIOUS
  <2>1. JobOf(w) \in Jobs /\ repeats \in [Jobs -> Nat]
    BY <1>1, CallType DEF TypeOK
  <2>2. repeats' = [repeats EXCEPT ![JobOf(w)] = @ + 1]
    BY <1>1, <2>1, RepeatFacts
  <2> QED
    BY <2>1, <2>2
<1>7. quota \in Nat
  BY <1>1 DEF TypeOK
<1> SUFFICES ASSUME Busy(w),
                    \/ GoesOn(w)
                    \/ \E isQuota \in BOOLEAN : Errs(w, isQuota)
                    \/ Ends(w)
                    \/ Redelivers(w)
             PROVE  CallsInv'
  BY <1>1, <1>3, AgentAssumption, Moves DEF GoesOn, Errs, Ends, Redelivers, Busy
<1> DEFINE k0 == JobOf(w)  e0 == run[w].entry  d0 == Again(w)  t0 == Tries(job[k0].kind)
<1>8. PICK k, e, d, t : k = k0 /\ e = e0 /\ d = d0 /\ t = t0
  OBVIOUS
<1> HIDE DEF k0, e0, d0, t0
<1>9. k = JobOf(w) /\ e = run[w].entry /\ d = Again(w) /\ t = Tries(job[k].kind)
  BY <1>8 DEF k0, e0, d0, t0
<1> DEFINE m == t * Full(k)
<1>10. /\ k \in Jobs /\ e \in Entry /\ e.job = k /\ d \in Entry /\ d.job = k
       /\ t \in 1 .. 3 /\ run[w].tries \in Nat /\ run[w].tries < t
       /\ asked[k] \in Nat /\ asked'[k] \in Nat
       /\ Asks(w) => asked'[k] = asked[k] + 1
       /\ Worth(e) \in Nat /\ Worth(d) \in Nat /\ t <= Worth(e)
       /\ Worth(e) <= m /\ m \in Nat
       /\ Worth(d) <= Worth(e)
       /\ Chat(k) /\ e.attempts + 1 <= MaxRetries => Worth(d) + t <= Worth(e)
       /\ CallBudget(k) \in Nat /\ CallBudget(k)' \in Nat
       /\ Worth(e)' = Worth(e) /\ Worth(d)' = Worth(d)
       /\ CallWorth(k, w) \in Nat
       /\ CallWorth(k, w) = IF run[w].at \in Asking THEN Worth(e) - run[w].tries
                            ELSE Worth(e) - t
  BY <1>1, <1>2, <1>9, AgentAssumption, CallNumbers
<1>11. /\ (repeats'[k] = repeats[k] /\ quota' >= quota) => CallBudget(k)' >= CallBudget(k)
       /\ (repeats'[k] = repeats[k] + 1 /\ quota' >= quota)
            => CallBudget(k)' >= CallBudget(k) + m
       /\ (repeats'[k] = repeats[k] /\ quota' = quota + 1 /\ Chat(k))
            => CallBudget(k)' >= CallBudget(k) + t
  BY <1>1, <1>2, <1>9, <1>10, AgentAssumption, BudgetFacts DEF WorkerEffect
<1> HIDE DEF m
<1>a. /\ t \in Nat /\ m \in Nat /\ run[w].tries \in Nat /\ run[w].tries + 1 <= t
      /\ asked[k] \in Nat /\ asked'[k] \in Nat
      /\ Worth(e) \in Nat /\ Worth(d) \in Nat /\ t <= Worth(e)
      /\ Worth(e) <= m /\ Worth(d) <= Worth(e)
      /\ CallBudget(k) \in Nat /\ CallBudget(k)' \in Nat /\ CallWorth(k, w) \in Nat
  BY <1>10
<1>d. /\ t \in Nat /\ run[w].tries \in Nat /\ run[w].tries + 1 <= t
      /\ asked[k] \in Nat /\ Worth(e) \in Nat /\ t <= Worth(e)
  BY <1>a
<1>b. run[w].at \in Asking => CallWorth(k, w) = Worth(e) - run[w].tries
  BY <1>10
<1>c. run[w].at \notin Asking => CallWorth(k, w) = Worth(e) - t
  BY <1>10
<1>12. run'[w] = Idle => CallWorth(k, w)' = 0 /\ ~Busy(w)'
  BY DEF CallWorth, Busy, Idle
<1>13. CASE GoesOn(w)
  <2>1. /\ WaitWorth(k, e)' = WaitWorth(k, e) /\ WaitWorth(k, e) \in Nat
        /\ CallBudget(k)' >= CallBudget(k) /\ quota' >= quota
    BY <1>7, <1>10, <1>11, <1>13 DEF GoesOn, WaitWorth
  <2>2. CallWorth(k, w)' = IF run'[w].at \in Asking THEN Worth(e) - run'[w].tries
                           ELSE Worth(e) - t
    BY <1>2, <1>9, <1>10, <1>13 DEF GoesOn, CallWorth, JobOf, WorkerEffect
  <2>3. asked'[k] + CallWorth(k, w)' <= asked[k] + CallWorth(k, w)
    <3>1. CASE run[w].at \in Asking /\ run'[w].at \in Asking /\ run'[w].tries = run[w].tries
               /\ asked' = asked
      BY <1>10, <2>2, <3>1
    <3>2. CASE run[w].at = "ask" /\ run'[w].at \notin Asking /\ Asks(w)
      <4>1. /\ CallWorth(k, w) = Worth(e) - run[w].tries /\ CallWorth(k, w)' = Worth(e) - t
            /\ asked'[k] = asked[k] + 1
        BY <1>10, <1>b, <2>2, <3>2 DEF Asking
      <4> QED
        BY <1>d, <4>1
    <3>3. CASE run[w].at = "ask" /\ run'[w].at = "ask" /\ run'[w].tries = run[w].tries + 1
               /\ Asks(w)
      <4>1. /\ CallWorth(k, w) = Worth(e) - run[w].tries
            /\ CallWorth(k, w)' = Worth(e) - (run[w].tries + 1)
            /\ asked'[k] = asked[k] + 1
        BY <1>10, <1>b, <2>2, <3>3 DEF Asking
      <4> QED
        BY <1>d, <4>1
    <3>4. CASE run[w].at \notin Asking /\ run'[w].at \notin Asking /\ asked' = asked
      BY <1>10, <2>2, <3>4
    <3> QED
      BY <1>13, <3>1, <3>2, <3>3, <3>4 DEF GoesOn, Early, Asking
  <2>4. CallWorth(k, w)' \in Int
    <3>1. run'[w].tries \in Int
      BY <1>1 DEF TypeOK
    <3> QED
      BY <1>10, <2>2, <3>1
  <2>5. asked'[k] + WaitWorth(k, e)' + CallWorth(k, w)' + CallBudget(k)
          <= asked[k] + WaitWorth(k, e) + CallWorth(k, w) + CallBudget(k)'
    <3>1. /\ asked[k] \in Nat /\ asked'[k] \in Nat /\ CallWorth(k, w) \in Nat
          /\ CallBudget(k) \in Nat /\ CallBudget(k)' \in Nat
      BY <1>a
    <3> QED
      BY <2>1, <2>3, <2>4, <3>1
  <2> QED
    BY <1>4, <1>5, <1>9, <1>10, <1>13, <2>1, <2>5 DEF GoesOn
<1>14. ASSUME NEW isQuota \in BOOLEAN, Errs(w, isQuota) PROVE CallsInv'
  <2>1. quota' >= quota /\ CallWorth(k, w)' = 0 /\ ~Busy(w)'
    BY <1>7, <1>12, <1>14 DEF Errs
  <2>2. /\ \A q \in Jobs : repeats'[q] = repeats[q] \/ repeats'[q] = repeats[q] + 1
        /\ CallBudget(k)' >= CallBudget(k)
        /\ run[w].at \in Asking /\ isQuota /\ Chat(k) => CallBudget(k)' >= CallBudget(k) + t
        /\ run[w].at \notin Asking => CallBudget(k)' >= CallBudget(k) + m
    BY <1>5, <1>6, <1>9, <1>10, <1>11, <1>14, <2>1 DEF Errs, Asking
  <2>3. /\ run[w].at \in Asking => asked'[k] <= asked[k] + 1
        /\ run[w].at \notin Asking => asked'[k] = asked[k]
    BY <1>10, <1>14 DEF Errs, Asking
  <2>4. CASE Retried(w, isQuota)
    <3>1. /\ \A q \in Entry : q # d => (q \in queue' <=> q \in queue)
          /\ WaitWorth(k, d)' = Worth(d) /\ WaitWorth(k, d) \in Nat
      BY <1>9, <1>10, <2>4 DEF Retried, WaitWorth
    <3>2. Chat(k) /\ (isQuota \/ e.attempts + 1 <= MaxRetries)
      BY <1>9, <2>4 DEF Retried
    <3>3. asked'[k] + WaitWorth(k, d)' + CallWorth(k, w)' + CallBudget(k)
            <= asked[k] + WaitWorth(k, d) + CallWorth(k, w) + CallBudget(k)'
      <4>1. CASE run[w].at \in Asking
        <5>1. (Worth(d) + t <= Worth(e)) \/ (CallBudget(k)' >= CallBudget(k) + t)
          BY <1>10, <2>2, <3>2, <4>1
        <5>2. asked'[k] <= asked[k] + 1 /\ CallWorth(k, w) = Worth(e) - run[w].tries
          BY <1>b, <2>3, <4>1
        <5>3. CallBudget(k)' >= CallBudget(k) /\ CallWorth(k, w)' = 0
          BY <2>1, <2>2
        <5>4. asked'[k] + Worth(d) + CallBudget(k) <= asked[k] + CallWorth(k, w) + CallBudget(k)'
          <6>1. CallBudget(k) \in Nat /\ CallBudget(k)' \in Nat /\ Worth(d) \in Nat /\ asked'[k] \in Nat
            BY <1>a
          <6>2. CASE Worth(d) + t <= Worth(e)
            <7>1. asked'[k] + Worth(d) <= asked[k] + CallWorth(k, w)
              BY <1>d, <5>2, <6>1, <6>2
            <7> QED
              BY <1>d, <5>2, <5>3, <6>1, <7>1
          <6>3. CASE CallBudget(k)' >= CallBudget(k) + t
            <7>1. Worth(d) <= Worth(e)
              BY <1>a
            <7> QED
              <8>1. asked'[k] + Worth(d) <= asked[k] + CallWorth(k, w) + t
                BY <1>d, <5>2, <6>1, <7>1
              <8> QED
                BY <1>d, <5>2, <6>1, <6>3, <8>1
          <6> QED
            BY <5>1, <6>2, <6>3
        <5> QED
          <6>1. /\ CallBudget(k) \in Nat /\ CallBudget(k)' \in Nat /\ Worth(d) \in Nat
                /\ asked'[k] \in Nat /\ asked[k] \in Nat /\ CallWorth(k, w) \in Nat
            BY <1>a
          <6> QED
            BY <3>1, <5>3, <5>4, <6>1
      <4>2. CASE run[w].at \notin Asking
        BY <1>a, <2>1, <2>2, <2>3, <3>1, <4>2
      <4> QED
        BY <4>1, <4>2
    <3> QED
      BY <1>4, <1>9, <1>10, <2>1, <2>2, <3>1, <3>3
  <2>5. CASE GivenUp(w, isQuota)
    <3>1. /\ queue' = queue /\ WaitWorth(k, e)' = WaitWorth(k, e) /\ WaitWorth(k, e) \in Nat
      BY <1>10, <2>5 DEF GivenUp, WaitWorth
    <3>2. asked'[k] + WaitWorth(k, e)' + CallWorth(k, w)' + CallBudget(k)
            <= asked[k] + WaitWorth(k, e) + CallWorth(k, w) + CallBudget(k)'
      <4>1. asked'[k] <= asked[k] + CallWorth(k, w)
        <5>1. CASE run[w].at \in Asking
          <6>1. asked'[k] <= asked[k] + 1 /\ CallWorth(k, w) = Worth(e) - run[w].tries
            BY <1>b, <2>3, <5>1
          <6>2. asked'[k] \in Nat
            BY <1>a
          <6> QED
            BY <1>d, <6>1, <6>2
        <5>2. CASE run[w].at \notin Asking
          BY <1>a, <2>3, <5>2
        <5> QED
          BY <5>1, <5>2
      <4> QED
        BY <1>a, <2>1, <2>2, <3>1, <4>1
    <3> QED
      BY <1>4, <1>9, <1>10, <2>1, <2>2, <3>1, <3>2
  <2> QED
    BY <1>14, <2>4, <2>5 DEF Errs
<1>15. CASE Ends(w)
  <2>1. /\ queue' = queue /\ WaitWorth(k, e)' = WaitWorth(k, e) /\ WaitWorth(k, e) \in Nat
        /\ CallBudget(k)' >= CallBudget(k) /\ quota' >= quota /\ asked' = asked
        /\ CallWorth(k, w)' = 0 /\ ~Busy(w)' /\ CallWorth(k, w) \in Nat
    BY <1>7, <1>10, <1>11, <1>12, <1>15 DEF Ends, WaitWorth, Asking
  <2>2. asked'[k] + WaitWorth(k, e)' + CallWorth(k, w)' + CallBudget(k)
          <= asked[k] + WaitWorth(k, e) + CallWorth(k, w) + CallBudget(k)'
    BY <1>a, <2>1
  <2> QED
    BY <1>4, <1>5, <1>9, <1>10, <1>15, <2>1, <2>2 DEF Ends
<1>16. CASE Redelivers(w)
  <2>1. /\ \A q \in Entry : q # e => (q \in queue' <=> q \in queue)
        /\ WaitWorth(k, e)' = Worth(e) /\ WaitWorth(k, e) \in Nat
        /\ asked' = asked /\ quota' >= quota
    BY <1>7, <1>9, <1>10, <1>16 DEF Redelivers, WaitWorth
  <2>2. CallBudget(k)' >= CallBudget(k) + m
    BY <1>6, <1>9, <1>10, <1>11, <1>16, <2>1 DEF Redelivers
  <2>3. CallWorth(k, w)' \in Nat /\ CallWorth(k, w)' <= CallWorth(k, w) /\ CallWorth(k, w) \in Nat
    <3>1. CallWorth(k, w) \in Nat
      BY <1>10
    <3>2. CASE run'[w] = Idle
      BY <1>12, <3>1, <3>2
    <3>3. CASE run'[w] = run[w]
      BY <1>2, <3>1, <3>3 DEF CallWorth, Busy, JobOf, Worth, Left, Chat, WorkerEffect
    <3> QED
      BY <1>16, <3>2, <3>3 DEF Redelivers
  <2>4. asked'[k] + WaitWorth(k, e)' + CallWorth(k, w)' + CallBudget(k)
          <= asked[k] + WaitWorth(k, e) + CallWorth(k, w) + CallBudget(k)'
    BY <1>a, <2>1, <2>2, <2>3
  <2>5. Busy(w)' => run'[w].entry = run[w].entry
    BY <1>12, <1>16 DEF Redelivers
  <2> QED
    BY <1>4, <1>6, <1>9, <1>10, <1>16, <2>1, <2>4, <2>5 DEF Redelivers
<1> QED
  BY <1>13, <1>14, <1>15, <1>16

\* A new question is within the budget of its job, which nothing was spent of.
LEMMA FirstRun ==
  ASSUME NEW t \in 1 .. 3, NEW n \in Nat, NEW r \in Nat, NEW q \in Nat
  PROVE  t * (n + 1) <= t * ((r + 1) * (n + 1) + q) /\ t * 1 <= t * (r + 1)
<1>1. t = 1 \/ t = 2 \/ t = 3
  OBVIOUS
<1>2. (r + 1) * (n + 1) = r * (n + 1) + (n + 1) /\ r * (n + 1) \in Nat
  <2>1. \A x, y \in Int : (x + 1) * y = x * y + y
    OBVIOUS
  <2>2. \A x, y \in Nat : x * y \in Nat
    OBVIOUS
  <2> QED
    BY <2>1, <2>2
<1> DEFINE m == r * (n + 1)
<1>3. (r + 1) * (n + 1) = m + (n + 1) /\ m \in Nat
  BY <1>2
<1> HIDE DEF m
<1>4. t * (n + 1) <= t * (m + (n + 1) + q)
  BY <1>1, <1>3
<1>5. t * 1 <= t * (r + 1)
  BY <1>1
<1> QED
  BY <1>3, <1>4, <1>5

\* A question keeps the budgets of calls.
LEMMA AskKeepsCalls ==
  ASSUME CoreInv, CallsInv, AgentAssumption,
         NEW j \in Jobs, NEW kind \in Kinds, NEW draft \in Drafts \cup {<<>>},
         Ask(j, kind, draft)
  PROVE  CallsInv'
<1> USE DEF memoryVars, resultVars, countVars
<1>1. TypeOK /\ TypeOK' /\ Origin /\ CoreInv'
  BY AskKeepsCore DEF CoreInv
<1> DEFINE new == [job |-> j, attempts |-> 0]
<1>2. /\ run' = run /\ asked' = asked /\ repeats' = repeats /\ quota' = quota
      /\ queue' = queue \cup {new} /\ stage[j] = "new"
      /\ \A k \in Jobs : k # j => stage'[k] = stage[k] /\ job'[k] = job[k]
  BY DEF Ask
<1>3. new \in Entry /\ new.job = j /\ new.attempts = 0
  BY DEF Entry
<1>4. \A e \in Entry : e.job \in Jobs
  BY DEF Entry
<1>5. \A w \in Workers : JobOf(w) \in Jobs /\ run[w].entry \in Entry
  BY <1>1, CallType
<1> HIDE DEF new
<1> SUFFICES ASSUME NEW k \in Jobs, stage'[k] # "new"
             PROVE  Affordable(asked[k], Waiting(k), Calling(k), CallBudget(k))'
  BY DEF CallsInv
<1>6. CASE k # j
  <2>1. Affordable(asked[k], Waiting(k), Calling(k), CallBudget(k))
    BY <1>2, <1>6 DEF CallsInv
  <2>2. \A e \in Entry : e.job = k => Worth(e)' = Worth(e)
    BY <1>2, <1>6 DEF Worth, Left, Chat
  <2>3. \A e \in Entry : WaitWorth(k, e)' = WaitWorth(k, e)
    BY <1>2, <1>3, <1>6, <2>2 DEF WaitWorth
  <2>4. \A w \in Workers : CallWorth(k, w)' = CallWorth(k, w)
    <3> SUFFICES ASSUME NEW w \in Workers PROVE CallWorth(k, w)' = CallWorth(k, w)
      OBVIOUS
    <3>1. JobOf(w)' = JobOf(w) /\ Busy(w)' = Busy(w)
      BY <1>2 DEF JobOf, Busy
    <3>2. JobOf(w) = k => Worth(run[w].entry)' = Worth(run[w].entry)
      BY <1>2, <1>6 DEF JobOf, Worth, Left, Chat
    <3> QED
      BY <1>2, <1>6, <3>1, <3>2 DEF CallWorth
  <2>5. Waiting(k)' = Waiting(k) /\ Calling(k)' = Calling(k)
    BY <2>3, <2>4 DEF Waiting, Calling
  <2>6. CallBudget(k)' = CallBudget(k)
    BY <1>2, <1>6 DEF CallBudget, Runs
  <2> QED
    BY <1>2, <2>1, <2>5, <2>6 DEF Affordable, Total, Tokens
<1>7. CASE k = j
  <2>1. \A e \in Entry : WaitWorth(k, e) = 0 /\ (e # new => WaitWorth(k, e)' = 0)
    BY <1>1, <1>2, <1>7 DEF WaitWorth, Origin
  <2>2. \A w \in Workers : CallWorth(k, w)' = 0
    BY <1>1, <1>2, <1>7 DEF CallWorth, Origin, Busy, JobOf
  <2> DEFINE t == Tries(job'[k].kind)
  <2>3. t \in 1 .. 3
    BY TriesType
  <2>4. WaitWorth(k, new)' = t * (IF Chat(k)' THEN MaxRetries + 1 ELSE 1)
    BY <1>2, <1>3, <1>7, <2>3, AgentAssumption DEF WaitWorth, Worth, Left, Chat
  <2>5. /\ CallBudget(k)' = t * (IF Chat(k)' THEN (repeats[k] + 1) * (MaxRetries + 1) + quota
                                 ELSE repeats[k] + 1)
    BY <1>2 DEF CallBudget, Runs, Chat
  <2> HIDE DEF t
  <2>6. repeats[k] \in Nat /\ quota \in Nat /\ MaxRetries \in Nat
    BY <1>1 DEF TypeOK, AgentAssumption
  <2>7. WaitWorth(k, new)' <= CallBudget(k)' /\ WaitWorth(k, new)' \in Nat
    <3>1. /\ t * (MaxRetries + 1) <= t * ((repeats[k] + 1) * (MaxRetries + 1) + quota)
          /\ t * 1 <= t * (repeats[k] + 1)
      BY <2>3, <2>6, FirstRun
    <3>2. t * (MaxRetries + 1) \in Nat /\ t * 1 \in Nat
      BY <2>3, <2>6, Times
    <3> QED
      BY <2>4, <2>5, <3>1, <3>2
  <2>8. asked'[k] = 0
    BY <1>1, <1>2, <1>7 DEF Origin
  <2> DEFINE f == Waiting(k)  f1 == Waiting(k)'  g1 == Calling(k)'
  <2>9. /\ f \in [Entry -> Nat] /\ \A e \in Entry : f[e] = 0
        /\ f1 \in [Entry -> Nat] /\ f1[new] = WaitWorth(k, new)'
        /\ \A e \in Entry : e # new => f1[e] = f[e]
    BY <1>3, <2>1, <2>7 DEF Waiting
  <2>10. g1 \in [Workers -> Nat] /\ \A w \in Workers : g1[w] = 0
    BY <2>2 DEF Calling
  <2>11. IsFiniteSet(Tokens(f1)) /\ Total(f1) = WaitWorth(k, new)'
    <3> HIDE DEF f, f1
    <3>1. IsFiniteSet(Tokens(f)) /\ Total(f) = 0
      BY <2>9, NoWeight
    <3>2. /\ IsFiniteSet(Tokens(f1)) /\ Total(f1) \in Nat
          /\ Total(f1) + f[new] = Total(f) + f1[new]
      BY <1>3, <2>9, <3>1, OneWeight
    <3> QED
      BY <1>3, <2>7, <2>9, <3>1, <3>2
  <2>12. IsFiniteSet(Tokens(g1)) /\ Total(g1) = 0
    <3> HIDE DEF g1
    <3> QED
      BY <2>10, NoWeight
  <2>13. asked'[k] + Total(f1) + Total(g1) <= CallBudget(k)'
    BY <2>7, <2>8, <2>11, <2>12
  <2> QED
    BY <2>11, <2>12, <2>13 DEF Affordable, Total, Tokens
<1> QED
  BY <1>6, <1>7

\* An answer that is stored keeps the budgets of calls, and so does a step that
\* changes nothing.
LEMMA OthersKeepCalls ==
  ASSUME CoreInv, CallsInv, AgentAssumption,
         (\E j \in Jobs : SaveAnswer(j)) \/ UNCHANGED vars
  PROVE  CallsInv'
<1> USE DEF memoryVars, resultVars, countVars
<1>1. /\ run' = run /\ asked' = asked /\ repeats' = repeats /\ quota' = quota
      /\ queue' = queue /\ job' = job
  BY DEF SaveAnswer, vars, platformVars
<1>2. \A k \in Jobs : stage'[k] # "new" => stage[k] # "new"
  BY DEF SaveAnswer, vars, CoreInv, TypeOK
<1> SUFFICES ASSUME NEW k \in Jobs, stage'[k] # "new"
             PROVE  Affordable(asked[k], Waiting(k), Calling(k), CallBudget(k))'
  BY DEF CallsInv
<1>3. Affordable(asked[k], Waiting(k), Calling(k), CallBudget(k))
  BY <1>2 DEF CallsInv
<1>4. \A e \in Entry : Worth(e)' = Worth(e)
  BY <1>1 DEF Worth, Left, Chat
<1>5. \A e \in Entry : WaitWorth(k, e)' = WaitWorth(k, e)
  BY <1>1, <1>4 DEF WaitWorth
<1>6. \A w \in Workers : CallWorth(k, w)' = CallWorth(k, w)
  BY <1>1 DEF CallWorth, Worth, Left, Chat, JobOf, Busy
<1>7. Waiting(k)' = Waiting(k) /\ Calling(k)' = Calling(k)
  BY <1>5, <1>6 DEF Waiting, Calling
<1>8. CallBudget(k)' = CallBudget(k)
  BY <1>1 DEF CallBudget, Runs
<1> QED
  BY <1>1, <1>3, <1>7, <1>8 DEF Affordable, Total, Tokens

\* The LLM is asked no more often than the retries inside a run, the retries of
\* the job, its repeats and the quota errors account for: the two kinds of
\* retries multiply, and nothing else adds to them.
THEOREM CallsAreBounded == Spec => []CallsBounded
<1>1. CoreInv /\ CallsInv => CallsBounded
  <2> SUFFICES ASSUME CoreInv, CallsInv, NEW k \in Jobs PROVE asked[k] <= CallBudget(k)
    BY DEF CallsBounded, CallBudget, Runs
  <2>1. asked[k] \in Nat /\ CallBudget(k) \in Nat
    <3>1. /\ asked[k] \in Nat /\ repeats[k] \in Nat /\ quota \in Nat
          /\ MaxRetries + 1 \in Nat /\ repeats[k] + 1 \in Nat
      BY AgentAssumption DEF CoreInv, TypeOK, AgentAssumption
    <3>2. \A x, y \in Nat : x * y \in Nat
      OBVIOUS
    <3>3. (repeats[k] + 1) * (MaxRetries + 1) \in Nat
      BY <3>1, <3>2
    <3>4. Runs(k) \in Nat
      BY <3>1, <3>3 DEF Runs
    <3>5. Tries(job[k].kind) \in 1 .. 3
      BY TriesType
    <3> QED
      BY <3>1, <3>4, <3>5, Times DEF CallBudget
  <2>2. CASE stage[k] = "new"
    BY <2>1, <2>2 DEF CoreInv, Origin
  <2>3. CASE stage[k] # "new"
    <3>1. Affordable(asked[k], Waiting(k), Calling(k), CallBudget(k))
      BY <2>3 DEF CallsInv
    <3>2. Total(Waiting(k)) \in Nat /\ Total(Calling(k)) \in Nat
      BY <3>1, FS_CardinalityType DEF Affordable, Total
    <3> QED
      BY <2>1, <3>1, <3>2 DEF Affordable
  <2> QED
    BY <2>2, <2>3
<1>2. Init => CallsInv
  BY DEF Init, CallsInv
<1>3. CoreInv /\ CallsInv /\ [Next]_vars => CallsInv'
  <2> SUFFICES ASSUME CoreInv, CallsInv, [Next]_vars PROVE CallsInv'
    OBVIOUS
  <2>1. CASE Next
    BY <2>1, Steps, AgentAssumption, AskKeepsCalls, OthersKeepCalls, WorkerKeepsCalls
  <2> QED
    BY <2>1, AgentAssumption, OthersKeepCalls
<1> QED
  BY <1>1, <1>2, <1>3, CoreInit, CoreNext, AgentAssumption, PTL DEF Spec

-----------------------------------------------------------------------------
(* A completed SRS is remembered once for each run.                        *)

\* The rows that an entry, as it waits, and a call before its store may add for
\* job k, and the rows that k may have.
WaitRow(k, e) == IF e \in queue /\ e.job = k THEN 1 ELSE 0
CallRow(k, w) == IF JobOf(w) = k /\ run[w].at \in Early THEN 1 ELSE 0

WaitRows(k)  == [e \in Entry |-> WaitRow(k, e)]
CallRows(k)  == [w \in Workers |-> CallRow(k, w)]
RowBudget(k) == repeats[k] + (IF stage[k] = "failed" THEN 0 ELSE 1)

RowsInv ==
  \A k \in Jobs : stage[k] # "new" =>
    Affordable(memory[SrsOf(k)], WaitRows(k), CallRows(k), RowBudget(k))

\* A step of worker w that is about entry e keeps every budget of rows if it pays
\* for the rows that it adds for the job of that entry.
LEMMA RowsPaid ==
  ASSUME CoreInv, CoreInv', RowsInv, NEW w \in Workers, WorkerEffect(w),
         NEW e \in Entry, \A d \in Entry : d # e => (d \in queue' <=> d \in queue),
         Busy(w) => JobOf(w) = e.job, Busy(w)' => JobOf(w)' = e.job,
         ~Busy(w) => memory' = memory,
         \A k \in Jobs : k # e.job => repeats'[k] = repeats[k] /\ stage'[k] = stage[k],
         LET k == e.job
         IN  memory'[SrsOf(k)] + WaitRow(k, e)' + CallRow(k, w)' + RowBudget(k)
               <= memory[SrsOf(k)] + WaitRow(k, e) + CallRow(k, w) + RowBudget(k)'
  PROVE  RowsInv'
<1> SUFFICES ASSUME NEW k \in Jobs, stage'[k] # "new"
             PROVE  Affordable(memory[SrsOf(k)], WaitRows(k), CallRows(k), RowBudget(k))'
  BY DEF RowsInv
<1>1. Affordable(memory[SrsOf(k)], WaitRows(k), CallRows(k), RowBudget(k))
  BY DEF RowsInv, WorkerEffect
<1>2. TypeOK' /\ TypeOK /\ SrsOf(k) \in Chunks
  BY DEF CoreInv, Chunks
<1>3. RowBudget(k) \in Nat /\ RowBudget(k)' \in Nat
  <2>1. repeats[k] \in Nat /\ repeats'[k] \in Nat
    BY <1>2 DEF TypeOK
  <2> QED
    BY <2>1 DEF RowBudget
<1>4. memory[SrsOf(k)] \in Nat /\ memory'[SrsOf(k)] \in Nat
  BY <1>2 DEF TypeOK
<1>5. /\ WaitRow(k, e) \in Nat /\ CallRow(k, w) \in Nat
      /\ WaitRow(k, e)' \in Nat /\ CallRow(k, w)' \in Nat
  BY DEF WaitRow, CallRow
<1>6. /\ WaitRows(k) \in [Entry -> Nat] /\ CallRows(k) \in [Workers -> Nat]
      /\ WaitRows(k)' \in [Entry -> Nat] /\ CallRows(k)' \in [Workers -> Nat]
  BY DEF WaitRows, WaitRow, CallRows, CallRow
<1>7. \A d \in Entry : d # e => WaitRows(k)'[d] = WaitRows(k)[d]
  BY DEF WaitRows, WaitRow
<1>8. \A v \in Workers : v # w => CallRows(k)'[v] = CallRows(k)[v]
  BY DEF CallRows, CallRow, WorkerEffect, JobOf
<1>9. memory'[SrsOf(k)] + WaitRow(k, e)' + CallRow(k, w)' + RowBudget(k)
        <= memory[SrsOf(k)] + WaitRow(k, e) + CallRow(k, w) + RowBudget(k)'
  <2>1. CASE k # e.job
    <3>1. WaitRow(k, e) = 0 /\ WaitRow(k, e)' = 0
      BY <2>1 DEF WaitRow
    <3>2. CallRow(k, w) = 0 /\ CallRow(k, w)' = 0
      BY <2>1 DEF CallRow, Busy, Early, Asking
    <3>3. memory'[SrsOf(k)] = memory[SrsOf(k)] /\ RowBudget(k)' = RowBudget(k)
      BY <2>1 DEF WorkerEffect, RowBudget
    <3> QED
      BY <1>3, <1>4, <3>1, <3>2, <3>3
  <2>2. CASE k = e.job
    BY <2>2
  <2> QED
    BY <2>1, <2>2
<1>10. /\ WaitRows(k)[e] = WaitRow(k, e) /\ WaitRows(k)'[e] = WaitRow(k, e)'
       /\ CallRows(k)[w] = CallRow(k, w) /\ CallRows(k)'[w] = CallRow(k, w)'
  BY DEF WaitRows, CallRows
<1> DEFINE f == WaitRows(k)  f1 == WaitRows(k)'  g == CallRows(k)  g1 == CallRows(k)'
           b == RowBudget(k)  b1 == RowBudget(k)'
           a == memory[SrsOf(k)]  a1 == memory'[SrsOf(k)]
<1>11. a1 + f1[e] + g1[w] + b <= a + f[e] + g[w] + b1
  BY <1>9, <1>10
<1>12. /\ f \in [Entry -> Nat] /\ f1 \in [Entry -> Nat]
       /\ g \in [Workers -> Nat] /\ g1 \in [Workers -> Nat]
       /\ \A d \in Entry : d # e => f1[d] = f[d]
       /\ \A v \in Workers : v # w => g1[v] = g[v]
       /\ a \in Nat /\ a1 \in Nat /\ b \in Nat /\ b1 \in Nat /\ Affordable(a, f, g, b)
  BY <1>1, <1>3, <1>4, <1>6, <1>7, <1>8
<1>13. Affordable(a1, f1, g1, b1)
  <2> HIDE DEF f, f1, g, g1, b, b1, a, a1
  <2>1. Pays(Entry, f, f1, e, Workers, g, g1, w, a, a1, b, b1)
    BY <1>11, <1>12 DEF Pays
  <2> QED
    BY <2>1, Paid
<1> QED
  BY <1>13 DEF Affordable, Total, Tokens

\* A worker's step keeps the budgets of rows.
LEMMA WorkerKeepsRows ==
  ASSUME CoreInv, RowsInv, NEW w \in Workers, WorkerActs(w)
  PROVE  RowsInv'
<1>1. TypeOK /\ CoreInv' /\ TypeOK'
  BY AgentAssumption, WorkerKeepsCore DEF CoreInv
<1>2. WorkerEffect(w)
  BY <1>1, AgentAssumption, WorkerSteps DEF CoreInv
<1>3. ASSUME NEW e \in queue, Takes(w, e) PROVE RowsInv'
  <2> DEFINE k == e.job
  <2>1. e \in Entry /\ k \in Jobs /\ SrsOf(k) \in Chunks
    BY <1>1 DEF TypeOK, Entry, Chunks
  <2>2. WaitRow(k, e) = 1 /\ WaitRow(k, e)' = 0 /\ CallRow(k, w) = 0 /\ CallRow(k, w)' = 1
    BY <1>3 DEF Takes, WaitRow, CallRow, JobOf, Busy, Early, Asking
  <2>3. /\ RowBudget(k)' = RowBudget(k) /\ RowBudget(k) \in Nat
        /\ memory'[SrsOf(k)] = memory[SrsOf(k)] /\ memory[SrsOf(k)] \in Nat
    BY <1>1, <1>3, <2>1 DEF Takes, RowBudget, TypeOK
  <2>4. memory'[SrsOf(k)] + WaitRow(k, e)' + CallRow(k, w)' + RowBudget(k)
          <= memory[SrsOf(k)] + WaitRow(k, e) + CallRow(k, w) + RowBudget(k)'
    BY <2>2, <2>3
  <2> QED
    BY <1>1, <1>2, <1>3, <2>1, <2>4, RowsPaid DEF Takes, JobOf
<1> SUFFICES ASSUME Busy(w),
                    \/ GoesOn(w)
                    \/ \E isQuota \in BOOLEAN : Errs(w, isQuota)
                    \/ Ends(w)
                    \/ Redelivers(w)
             PROVE  RowsInv'
  BY <1>1, <1>3, AgentAssumption, Moves DEF GoesOn, Errs, Ends, Redelivers, Busy
<1> DEFINE k0 == JobOf(w)  e0 == run[w].entry  d0 == Again(w)
<1>4. PICK k, e, d : k = k0 /\ e = e0 /\ d = d0
  OBVIOUS
<1> HIDE DEF k0, e0, d0
<1>5. k = JobOf(w) /\ e = run[w].entry /\ d = Again(w)
  BY <1>4 DEF k0, e0, d0
<1>6. /\ k \in Jobs /\ e \in Entry /\ e.job = k /\ d \in Entry /\ d.job = k
      /\ SrsOf(k) \in Chunks
  BY <1>1, <1>5, CallType, AgainType DEF JobOf, Chunks
<1> DEFINE Fine(q) == repeats'[q] = repeats[q] /\ stage'[q] = stage[q]
           Charged(x) == memory'[SrsOf(k)] + WaitRow(k, x)' + CallRow(k, w)' + RowBudget(k)
                           <= memory[SrsOf(k)] + WaitRow(k, x) + CallRow(k, w) + RowBudget(k)'
<1>7. ASSUME NEW x \in Entry, x.job = k,
             \A y \in Entry : y # x => (y \in queue' <=> y \in queue),
             Busy(w)' => run'[w].entry = run[w].entry,
             \A q \in Jobs : q # k => Fine(q), Charged(x)
      PROVE  RowsInv'
  <2>1. Busy(w)' => JobOf(w)' = x.job
    BY <1>5, <1>6, <1>7 DEF JobOf
  <2> QED
    BY <1>1, <1>2, <1>5, <1>7, <2>1, RowsPaid
<1>8. /\ repeats' = repeats \/ Repeat(k) => \A q \in Jobs : q # k => repeats'[q] = repeats[q]
      /\ Repeat(k) => repeats'[k] = repeats[k] + 1
  <2>1. repeats \in [Jobs -> Nat]
    BY <1>1 DEF TypeOK
  <2>2. Repeat(k) => repeats' = [repeats EXCEPT ![k] = @ + 1]
    BY <1>1, <1>6, RepeatFacts
  <2> QED
    BY <1>6, <2>1, <2>2
<1>9. /\ repeats[k] \in Nat /\ repeats'[k] \in Nat
      /\ memory[SrsOf(k)] \in Nat /\ memory'[SrsOf(k)] \in Nat
      /\ \A x : WaitRow(k, x) \in 0 .. 1
      /\ CallRow(k, w) = IF run[w].at \in Early THEN 1 ELSE 0
  BY <1>1, <1>5, <1>6 DEF TypeOK, WaitRow, CallRow
<1>10. run'[w] = Idle => CallRow(k, w)' = 0 /\ ~Busy(w)'
  BY DEF CallRow, Idle, Early, Asking, Busy
<1>11. stage \in [Jobs -> Stages]
  BY <1>1 DEF TypeOK, Stages
<1>12. CASE GoesOn(w)
  <2>1. /\ WaitRow(k, e)' = WaitRow(k, e) /\ RowBudget(k)' = RowBudget(k)
        /\ \A q \in Jobs : q # k => Fine(q)
    BY <1>12 DEF GoesOn, WaitRow, RowBudget
  <2>2. CallRow(k, w)' = IF run'[w].at \in Early THEN 1 ELSE 0
    BY <1>5, <1>12 DEF GoesOn, CallRow, JobOf
  <2>3. memory'[SrsOf(k)] + CallRow(k, w)' <= memory[SrsOf(k)] + CallRow(k, w)
    <3>1. CASE run[w].at \in Asking /\ memory' = memory
      BY <1>9, <2>2, <3>1 DEF Early
    <3>2. CASE /\ run[w].at = "store_srs" /\ run'[w].at = "publish"
               /\ Store(SrsOf(k)) \/ UNCHANGED memory
      <4>1. CallRow(k, w) = 1 /\ CallRow(k, w)' = 0
        BY <1>9, <2>2, <3>2 DEF Early, Asking
      <4>2. memory'[SrsOf(k)] <= memory[SrsOf(k)] + 1
        <5>1. memory \in [Chunks -> Nat]
          BY <1>1 DEF TypeOK
        <5> QED
          BY <1>6, <1>9, <3>2, <5>1 DEF Store
      <4> QED
        BY <1>9, <4>1, <4>2
    <3>3. CASE /\ run[w].at = "store_pairs" /\ run'[w].at \notin Early
               /\ memory'[SrsOf(k)] = memory[SrsOf(k)]
      BY <1>9, <2>2, <3>3 DEF Early, Asking
    <3> QED
      BY <1>5, <1>12, <3>1, <3>2, <3>3 DEF GoesOn, Asking
  <2>4. Charged(e)
    BY <1>9, <2>1, <2>2, <2>3 DEF RowBudget
  <2> QED
    BY <1>6, <1>7, <1>12, <2>1, <2>4 DEF GoesOn
<1>13. ASSUME NEW isQuota \in BOOLEAN, Errs(w, isQuota) PROVE RowsInv'
  <2>1. /\ CallRow(k, w)' = 0 /\ ~Busy(w)' /\ memory' = memory
        /\ \/ CallRow(k, w) = 1 /\ repeats' = repeats
           \/ CallRow(k, w) = 0 /\ Repeat(k)
    BY <1>5, <1>9, <1>10, <1>13 DEF Errs, Early, Asking
  <2>2. /\ \A q \in Jobs : q # k => repeats'[q] = repeats[q]
        /\ repeats'[k] + CallRow(k, w) = repeats[k] + 1
    BY <1>8, <1>9, <2>1
  <2>3. CASE Retried(w, isQuota)
    <3>1. /\ \A q \in Entry : q # d => (q \in queue' <=> q \in queue)
          /\ stage' = stage /\ WaitRow(k, d)' = 1
      BY <1>5, <1>6, <2>3 DEF Retried, WaitRow
    <3>2. WaitRow(k, d) \in 0 .. 1
      BY <1>9
    <3>3. Charged(d)
      BY <1>9, <2>1, <2>2, <3>1, <3>2 DEF RowBudget
    <3> QED
      BY <1>6, <1>7, <2>1, <2>2, <3>1, <3>3
  <2>4. CASE GivenUp(w, isQuota)
    <3>1. /\ queue' = queue /\ WaitRow(k, e)' = WaitRow(k, e) /\ WaitRow(k, e) \in 0 .. 1
      BY <1>9, <2>4 DEF GivenUp, WaitRow
    <3>2. \A q \in Jobs : q # k => stage'[q] = stage[q]
      BY <1>5, <1>6, <1>11, <2>4 DEF GivenUp
    <3>3. Charged(e)
      <4>1. /\ RowBudget(k)' \in {repeats'[k], repeats'[k] + 1}
            /\ RowBudget(k) \in {repeats[k], repeats[k] + 1}
        BY <1>9 DEF RowBudget
      <4>2. RowBudget(k) <= repeats[k] + 1 /\ RowBudget(k)' >= repeats'[k]
        BY <1>9, <4>1
      <4>3. RowBudget(k) \in Nat /\ RowBudget(k)' \in Nat
        BY <1>9, <4>1
      <4>4. CallRow(k, w) \in 0 .. 1
        BY <1>9
      <4> QED
        BY <1>9, <2>1, <2>2, <3>1, <4>2, <4>3, <4>4
    <3> QED
      BY <1>6, <1>7, <2>1, <2>2, <3>1, <3>2, <3>3
  <2> QED
    BY <1>13, <2>3, <2>4 DEF Errs
<1>14. CASE Ends(w)
  <2>1. /\ queue' = queue /\ WaitRow(k, e)' = WaitRow(k, e) /\ WaitRow(k, e) \in 0 .. 1
        /\ CallRow(k, w) = 0 /\ CallRow(k, w)' = 0 /\ ~Busy(w)'
        /\ memory' = memory /\ repeats' = repeats
    BY <1>9, <1>10, <1>14 DEF Ends, WaitRow, Early, Asking
  <2>2. /\ \A q \in Jobs : q # k => stage'[q] = stage[q]
        /\ stage'[k] = stage[k] \/ stage'[k] = "returned"
    BY <1>5, <1>6, <1>11, <1>14 DEF Ends
  <2>3. RowBudget(k) <= RowBudget(k)' /\ RowBudget(k) \in Nat /\ RowBudget(k)' \in Nat
    BY <1>9, <2>1, <2>2 DEF RowBudget
  <2>4. Charged(e)
    BY <1>9, <2>1, <2>3
  <2> QED
    BY <1>6, <1>7, <2>1, <2>2, <2>4
<1>15. CASE Redelivers(w)
  <2>1. /\ \A q \in Entry : q # e => (q \in queue' <=> q \in queue)
        /\ stage' = stage /\ memory' = memory
        /\ WaitRow(k, e)' = 1 /\ WaitRow(k, e) \in 0 .. 1
        /\ Repeat(k)
    BY <1>5, <1>6, <1>9, <1>15 DEF Redelivers, WaitRow
  <2>2. RowBudget(k)' = RowBudget(k) + 1 /\ RowBudget(k) \in Nat
    BY <1>8, <1>9, <2>1 DEF RowBudget
  <2>3. CallRow(k, w)' <= CallRow(k, w) /\ CallRow(k, w)' \in 0 .. 1 /\ CallRow(k, w) \in 0 .. 1
    <3>1. CallRow(k, w) \in 0 .. 1
      BY <1>9
    <3>2. CallRow(k, w)' \in 0 .. 1
      BY DEF CallRow
    <3>3. run'[w] = run[w] => CallRow(k, w)' = CallRow(k, w)
      BY DEF CallRow, JobOf
    <3>4. CallRow(k, w)' = 0 \/ CallRow(k, w)' = CallRow(k, w)
      BY <1>10, <1>15, <3>3 DEF Redelivers
    <3> QED
      BY <3>1, <3>2, <3>4
  <2>4. Charged(e)
    BY <1>9, <2>1, <2>2, <2>3
  <2>5. Busy(w)' => run'[w].entry = run[w].entry
    BY <1>10, <1>15 DEF Redelivers
  <2> QED
    BY <1>6, <1>7, <1>8, <2>1, <2>4, <2>5
<1> QED
  BY <1>12, <1>13, <1>14, <1>15

\* A question keeps the budgets of rows.
LEMMA AskKeepsRows ==
  ASSUME CoreInv, RowsInv,
         NEW j \in Jobs, NEW kind \in Kinds, NEW draft \in Drafts \cup {<<>>},
         Ask(j, kind, draft)
  PROVE  RowsInv'
<1> USE DEF memoryVars, resultVars, countVars
<1>1. TypeOK /\ Origin
  BY DEF CoreInv
<1> DEFINE new == [job |-> j, attempts |-> 0]
<1>2. /\ run' = run /\ memory' = memory /\ repeats' = repeats
      /\ queue' = queue \cup {new} /\ stage[j] = "new" /\ stage'[j] = "asked"
      /\ \A k \in Jobs : k # j => stage'[k] = stage[k]
  BY <1>1 DEF Ask, TypeOK
<1>3. new \in Entry /\ new.job = j
  BY DEF Entry
<1> HIDE DEF new
<1> SUFFICES ASSUME NEW k \in Jobs, stage'[k] # "new"
             PROVE  Affordable(memory[SrsOf(k)], WaitRows(k), CallRows(k), RowBudget(k))'
  BY DEF RowsInv
<1>4. CallRows(k)' = CallRows(k)
  BY <1>2 DEF CallRows, CallRow, JobOf
<1>5. CASE k # j
  <2>1. Affordable(memory[SrsOf(k)], WaitRows(k), CallRows(k), RowBudget(k))
    BY <1>2, <1>5 DEF RowsInv
  <2>2. WaitRows(k)' = WaitRows(k)
    BY <1>2, <1>3, <1>5 DEF WaitRows, WaitRow
  <2>3. RowBudget(k)' = RowBudget(k)
    BY <1>2, <1>5 DEF RowBudget
  <2> QED
    BY <1>2, <1>4, <2>1, <2>2, <2>3 DEF Affordable, Total, Tokens
<1>6. CASE k = j
  <2>1. \A e \in Entry : WaitRow(k, e) = 0 /\ (e # new => WaitRow(k, e)' = 0)
    BY <1>1, <1>2, <1>6 DEF WaitRow, Origin
  <2>2. \A w \in Workers : CallRow(k, w)' = 0
    BY <1>1, <1>2, <1>6 DEF CallRow, Origin, Busy, JobOf, Early, Asking
  <2>3. WaitRow(k, new)' = 1
    BY <1>2, <1>3, <1>6 DEF WaitRow
  <2>4. memory'[SrsOf(k)] = 0
    BY <1>1, <1>2, <1>6 DEF Origin
  <2>5. RowBudget(k)' >= 1 /\ RowBudget(k)' \in Nat
    BY <1>1, <1>2, <1>6 DEF RowBudget, TypeOK
  <2> DEFINE f == WaitRows(k)  f1 == WaitRows(k)'  g1 == CallRows(k)'
  <2>6. /\ f \in [Entry -> Nat] /\ \A e \in Entry : f[e] = 0
        /\ f1 \in [Entry -> Nat] /\ f1[new] = 1
        /\ \A e \in Entry : e # new => f1[e] = f[e]
    BY <1>3, <2>1, <2>3 DEF WaitRows
  <2>7. g1 \in [Workers -> Nat] /\ \A w \in Workers : g1[w] = 0
    BY <2>2 DEF CallRows
  <2>8. IsFiniteSet(Tokens(f1)) /\ Total(f1) = 1
    <3> HIDE DEF f, f1
    <3>1. IsFiniteSet(Tokens(f)) /\ Total(f) = 0
      BY <2>6, NoWeight
    <3>2. /\ IsFiniteSet(Tokens(f1)) /\ Total(f1) \in Nat
          /\ Total(f1) + f[new] = Total(f) + f1[new]
      BY <1>3, <2>6, <3>1, OneWeight
    <3> QED
      BY <1>3, <2>6, <3>1, <3>2
  <2>9. IsFiniteSet(Tokens(g1)) /\ Total(g1) = 0
    <3> HIDE DEF g1
    <3> QED
      BY <2>7, NoWeight
  <2>10. memory'[SrsOf(k)] + Total(f1) + Total(g1) <= RowBudget(k)'
    BY <2>4, <2>5, <2>8, <2>9
  <2> QED
    BY <2>8, <2>9, <2>10 DEF Affordable, Total, Tokens
<1> QED
  BY <1>5, <1>6

\* An answer that is stored keeps the budgets of rows, and so does a step that
\* changes nothing.
LEMMA OthersKeepRows ==
  ASSUME CoreInv, RowsInv, (\E j \in Jobs : SaveAnswer(j)) \/ UNCHANGED vars
  PROVE  RowsInv'
<1> USE DEF memoryVars, resultVars, countVars
<1>1. run' = run /\ memory' = memory /\ repeats' = repeats /\ queue' = queue
  BY DEF SaveAnswer, vars, platformVars
<1>2. \A k \in Jobs : /\ stage'[k] # "new" => stage[k] # "new"
                      /\ stage'[k] = "failed" <=> stage[k] = "failed"
  BY DEF SaveAnswer, vars, CoreInv, TypeOK
<1> SUFFICES ASSUME NEW k \in Jobs, stage'[k] # "new"
             PROVE  Affordable(memory[SrsOf(k)], WaitRows(k), CallRows(k), RowBudget(k))'
  BY DEF RowsInv
<1>3. Affordable(memory[SrsOf(k)], WaitRows(k), CallRows(k), RowBudget(k))
  BY <1>2 DEF RowsInv
<1>4. WaitRows(k)' = WaitRows(k) /\ CallRows(k)' = CallRows(k)
  BY <1>1 DEF WaitRows, WaitRow, CallRows, CallRow, JobOf
<1>5. RowBudget(k)' = RowBudget(k)
  BY <1>1, <1>2 DEF RowBudget
<1> QED
  BY <1>1, <1>3, <1>4, <1>5 DEF Affordable, Total, Tokens

\* A completed SRS has one row in the memory, and none when its job failed, but
\* for the runs of the job that were cut short or claimed by another worker.
THEOREM SrsRowsNeedReruns == Spec => []SrsRepeatsNeedReruns
<1>1. CoreInv /\ RowsInv => SrsRepeatsNeedReruns
  <2> SUFFICES ASSUME CoreInv, RowsInv, NEW k \in Jobs
               PROVE  memory[SrsOf(k)] <= RowBudget(k)
    BY DEF SrsRepeatsNeedReruns, RowBudget
  <2>1. memory[SrsOf(k)] \in Nat /\ RowBudget(k) \in Nat
    <3>1. SrsOf(k) \in Chunks
      BY DEF Chunks
    <3> QED
      BY <3>1 DEF CoreInv, TypeOK, RowBudget
  <2>2. CASE stage[k] = "new"
    BY <2>1, <2>2 DEF CoreInv, Origin
  <2>3. CASE stage[k] # "new"
    <3>1. Affordable(memory[SrsOf(k)], WaitRows(k), CallRows(k), RowBudget(k))
      BY <2>3 DEF RowsInv
    <3>2. Total(WaitRows(k)) \in Nat /\ Total(CallRows(k)) \in Nat
      BY <3>1, FS_CardinalityType DEF Affordable, Total
    <3> QED
      BY <2>1, <3>1, <3>2 DEF Affordable
  <2> QED
    BY <2>2, <2>3
<1>2. Init => RowsInv
  BY DEF Init, RowsInv
<1>3. CoreInv /\ RowsInv /\ [Next]_vars => RowsInv'
  <2> SUFFICES ASSUME CoreInv, RowsInv, [Next]_vars PROVE RowsInv'
    OBVIOUS
  <2>1. CASE Next
    BY <2>1, Steps, AskKeepsRows, OthersKeepRows, WorkerKeepsRows
  <2> QED
    BY <2>1, OthersKeepRows
<1> QED
  BY <1>1, <1>2, <1>3, CoreInit, CoreNext, AgentAssumption, PTL DEF Spec
=============================================================================
