------------------------------ MODULE AgentRun ------------------------------
(***************************************************************************)
(* One call of process_job in the agent, from the job a worker took to the *)
(* result or the error it hands back, with the memory of the project that  *)
(* it reads and writes on the way.                                         *)
(*                                                                         *)
(* JobPipeline has this call as one step (LlmSucceeds, LlmFails,           *)
(* LlmQuotaError) and models how entries are read, acknowledged, retried   *)
(* and claimed; here a job that is delivered again, for whatever reason,   *)
(* is simply queued again.  What is modelled instead is what the pipeline  *)
(* cannot see: which errors count as quota errors, how often the LLM is    *)
(* asked, what is stored before the result leaves the agent, and which ids *)
(* the features of an SRS have in the answers to one-shot jobs.            *)
(***************************************************************************)
EXTENDS Sequences, Integers, FiniteSets, Functions

CONSTANTS
  Workers,      \* agent processes
  NumJobs,      \* bound: jobs of one project
  Kinds,        \* the kinds of jobs a run looks at, a subset of AllKinds
  Sessions,     \* how far the requirements session may have come at the start
  Drafts,       \* drafts of the SRS that jobs come with: the ids of its features
  MaxRetries,   \* AI_REQUIREMENTS_QUEUE_MAX_RETRIES
  MaxQuota,     \* bound: errors that count as quota errors
  MaxRepeats,   \* bound: deliveries of a job that ran, or runs, already
  MaxFaults     \* bound: failed calls to the memory

ChatTurns == {"requirements", "developer_intelligence"}
AllKinds  == ChatTurns \cup {"planner", "qa_intelligence", "arch_doc", "ragnarock_chat"}

Jobs == 1 .. NumJobs

ASSUME AgentAssumption ==
  /\ Kinds \subseteq AllKinds
  /\ Sessions \subseteq Seq({"user", "assistant"}) /\ \A s \in Sessions : Len(s) <= 4
  /\ Drafts \subseteq Seq(Nat \ {0})
  /\ NumJobs \in Nat \ {0}
  /\ MaxRetries \in Nat /\ MaxQuota \in Nat /\ MaxRepeats \in Nat /\ MaxFaults \in Nat

VARIABLES
  mode,       \* the memory: "off", "ready", or "broken" when its table is missing
  said,       \* who spoke, message by message, in the requirements session
  job,        \* job[j]: the payload of job j
  stage,      \* stage[j]: how far j has come
  queue,      \* entries to be delivered, with the attempts their payload counts
  run,        \* run[w]: the call of process_job that worker w is in
  memory,     \* memory[c]: how many rows of project_memory hold chunk c
  answers,    \* answers[j]: the statuses of the results published for j
  labelled,   \* labelled[j]: the ids that the last result of j has for the features
  asked,      \* asked[j]: how often the LLM was called for j
  misses,     \* misses[j]: runs of j that failed for its input, the LLM or Redis
  forgot,     \* jobs one of whose stores failed
  repeats,    \* repeats[j]: runs of j that ended, or may end, without an effect
  quota, faults

platformVars == <<said, job>>
resultVars   == <<answers, labelled>>
countVars    == <<asked, misses>>
memoryVars   == <<memory, forgot>>
vars == <<mode, platformVars, stage, queue, run, memoryVars, resultVars, countVars,
          repeats, quota, faults>>

MaxMessages == 2 * NumJobs + 4

NoJob == [kind |-> "none", history |-> 0, draft |-> <<>>]
Job   == [kind : Kinds, history : 0 .. MaxMessages, draft : Drafts \cup {<<>>}]
Entry == [job : Jobs, attempts : Nat]

\* A chunk is the SRS that the answer to a job completed, or a question of the
\* session, named by the place of its message, with the answer that followed.
SrsOf(j)  == [type |-> "srs", of |-> j]
PairAt(i) == [type |-> "clarification", of |-> i]
Chunks    == {SrsOf(j) : j \in Jobs} \cup {PairAt(i) : i \in 1 .. MaxMessages}

Idle == [at |-> "idle", entry |-> [job |-> 1, attempts |-> 0], tries |-> 0,
         result |-> "none", pairs |-> {}]

TypeOK ==
  /\ mode \in {"off", "ready", "broken"}
  /\ said \in Seq({"user", "assistant"})
  /\ job \in [Jobs -> Job \cup {NoJob}]
  /\ stage \in [Jobs -> {"new", "asked", "returned", "answered", "failed"}]
  /\ queue \subseteq Entry
  /\ run \in [Workers ->
       [at : {"idle", "extract", "recall", "ask", "store_srs", "store_pairs", "publish"},
        entry : Entry, tries : 0 .. 2,
        result : {"none", "clarify", "complete", "answer", "plan", "suites", "text"},
        pairs : SUBSET (1 .. MaxMessages)]]
  /\ memory \in [Chunks -> Nat]
  /\ answers \in [Jobs -> SUBSET {"clarify", "complete", "answer", "plan", "suites", "text"}]
  /\ labelled \in [Jobs -> Seq(Nat)]
  /\ asked \in [Jobs -> Nat] /\ misses \in [Jobs -> Nat]
  /\ forgot \subseteq Jobs
  /\ repeats \in [Jobs -> Nat]
  /\ quota \in Nat /\ faults \in Nat

\* The service starts without a memory, with one, or, when ensure_table failed,
\* with one that fails at every call: the start goes on regardless.
Init ==
  /\ mode \in {"off", "ready", "broken"}
  /\ said \in Sessions
  /\ job = [j \in Jobs |-> NoJob]
  /\ stage = [j \in Jobs |-> "new"]
  /\ queue = {}
  /\ run = [w \in Workers |-> Idle]
  /\ memory = [c \in Chunks |-> 0]
  /\ answers = [j \in Jobs |-> {}]
  /\ labelled = [j \in Jobs |-> <<>>]
  /\ asked = [j \in Jobs |-> 0] /\ misses = [j \in Jobs |-> 0]
  /\ forgot = {}
  /\ repeats = [j \in Jobs |-> 0]
  /\ quota = 0 /\ faults = 0

MemoryEnabled == mode # "off"

-----------------------------------------------------------------------------
(* What the agents do with an input and a reply.                            *)

OneShotOfSrs == {"planner", "qa_intelligence"}

\* How often one run asks the LLM before it gives up on unusable replies.
Tries(kind) == CASE kind = "requirements" -> 3
                 [] kind \in {"developer_intelligence"} \cup OneShotOfSrs -> 2
                 [] OTHER -> 1

\* A reply is JSON with a status and a shape, in a markdown fence or not, or
\* something that is neither; documents and chat answers are taken as they are.
Replies == [status : {"clarify", "complete", "answer", "plan", "suites", "junk"},
            fenced : BOOLEAN]

UsableTurn(r)   == r.status \in {"clarify", "complete"}
UsableAnswer(r) == r.status = "answer" /\ ~r.fenced
UsablePlan(r)   == r.status = "plan"
UsableSuites(r) == r.status = "suites"

Accepts(kind, r) ==
  \/ kind = "requirements" /\ UsableTurn(r)
  \/ kind = "developer_intelligence" /\ UsableAnswer(r)
  \/ kind = "planner" /\ UsablePlan(r)
  \/ kind = "qa_intelligence" /\ UsableSuites(r)
  \/ kind \in {"arch_doc", "ragnarock_chat"}

Result(kind, r) == IF kind \in {"arch_doc", "ragnarock_chat"} THEN "text" ELSE r.status

\* The messages of the assistant that a message of the user follows.
QaPairs(history) ==
  {i \in 1 .. history - 1 : said[i] = "assistant" /\ said[i + 1] = "user"}

\* The prompts of the planner and of the QA agent number the features of the
\* draft, whose own ids are left out; an answer names features by those numbers.
PromptIds(p) == IF p.kind \in OneShotOfSrs THEN [i \in DOMAIN p.draft |-> i] ELSE <<>>

-----------------------------------------------------------------------------
(* The platform queues jobs and stores the answers of the session.          *)

\* A turn of the requirements session takes the messages before it as its
\* history; the sessions of other agents have messages of their own.
Ask(j, kind, draft) ==
  /\ stage[j] = "new" /\ (\A i \in 1 .. j - 1 : stage[i] # "new")
  /\ kind \in OneShotOfSrs \/ draft = <<>>
  /\ job' = [job EXCEPT ![j] =
               [kind |-> kind, draft |-> draft,
                history |-> IF kind = "requirements" THEN Len(said) ELSE 0]]
  /\ said' = IF kind = "requirements" THEN Append(said, "user") ELSE said
  /\ stage' = [stage EXCEPT ![j] = "asked"]
  /\ queue' = queue \cup {[job |-> j, attempts |-> 0]}
  /\ UNCHANGED <<mode, run, memoryVars, resultVars, countVars, repeats, quota, faults>>

\* The result consumer stores the answer to a chat turn as a message.
SaveAnswer(j) ==
  /\ stage[j] = "returned"
  /\ said' = IF job[j].kind = "requirements" THEN Append(said, "assistant") ELSE said
  /\ stage' = [stage EXCEPT ![j] = "answered"]
  /\ UNCHANGED <<mode, job, queue, run, memoryVars, resultVars, countVars, repeats,
                 quota, faults>>

-----------------------------------------------------------------------------
(* The worker's side of a call.                                             *)

Miss(w) == LET j == run[w].entry.job IN misses' = [misses EXCEPT ![j] = @ + 1]
GoTo(w, at) == run' = [run EXCEPT ![w].at = at]

Take(w, e) ==
  /\ run[w].at = "idle"
  /\ queue' = queue \ {e}
  /\ run' = [run EXCEPT ![w] =
               [Idle EXCEPT !.entry = e,
                            !.at = IF job[e.job].kind \in ChatTurns THEN "extract" ELSE "ask"]]
  /\ UNCHANGED <<mode, platformVars, stage, memoryVars, resultVars, countVars, repeats,
                 quota, faults>>

\* Mutants: one retry more, one retry less, and a failure nobody is told of.
RaiseWith(w, isQuota, limit, told) ==
  LET e == run[w].entry
      retried == job[e.job].kind \in ChatTurns /\ (isQuota \/ e.attempts + 1 <= limit)
  IN /\ isQuota => quota < MaxQuota
     /\ quota' = IF isQuota THEN quota + 1 ELSE quota
     /\ run' = [run EXCEPT ![w] = Idle]
     /\ queue' = IF retried THEN queue \cup {[e EXCEPT !.attempts = @ + 1]} ELSE queue
     /\ stage' = IF ~retried /\ told /\ stage[e.job] = "asked"
                 THEN [stage EXCEPT ![e.job] = "failed"] ELSE stage
RaiseOnceMore(w, isQuota) == RaiseWith(w, isQuota, MaxRetries + 1, TRUE)
RaiseEarly(w, isQuota)    == RaiseWith(w, isQuota, MaxRetries - 1, TRUE)
RaiseQuietly(w, isQuota)  == RaiseWith(w, isQuota, MaxRetries, FALSE)

\* process_job raised an error: a chat turn is written again with one more
\* attempt, without a limit when the error's text has "quota" or "429" in it;
\* everything else is reported as failed.
Raise(w, isQuota) ==
  LET e == run[w].entry
      retried == /\ job[e.job].kind \in ChatTurns
                 /\ isQuota \/ e.attempts + 1 <= MaxRetries
  IN /\ isQuota => quota < MaxQuota
     /\ quota' = IF isQuota THEN quota + 1 ELSE quota
     /\ run' = [run EXCEPT ![w] = Idle]
     /\ queue' = IF retried
                 THEN queue \cup {[e EXCEPT !.attempts = @ + 1]}
                 ELSE queue
     /\ stage' = IF ~retried /\ stage[e.job] = "asked"
                 THEN [stage EXCEPT ![e.job] = "failed"]
                 ELSE stage

\* Mutant: the entry is not acknowledged, and delivered again.
PublishUnacked(w) ==
  LET j == run[w].entry.job
  IN /\ run[w].at = "publish"
     /\ stage' = [stage EXCEPT ![j] = "returned"]
     /\ answers' = [answers EXCEPT ![j] = @ \cup {run[w].result}]
     /\ labelled' = [labelled EXCEPT ![j] = PromptIds(job[j])]
     /\ run' = [run EXCEPT ![w] = Idle]
     /\ queue' = queue \cup {run[w].entry}
     /\ UNCHANGED <<mode, platformVars, memoryVars, countVars, repeats, quota, faults>>

\* The result is published and the entry acknowledged.
Publish(w) ==
  LET j == run[w].entry.job
  IN /\ run[w].at = "publish"
     /\ stage' = IF stage[j] \in {"asked", "failed"}
                 THEN [stage EXCEPT ![j] = "returned"] ELSE stage
     /\ answers' = [answers EXCEPT ![j] = @ \cup {run[w].result}]
     /\ labelled' = [labelled EXCEPT ![j] = PromptIds(job[j])]
     /\ run' = [run EXCEPT ![w] = Idle]
     /\ UNCHANGED <<mode, platformVars, queue, memoryVars, countVars, repeats,
                    quota, faults>>

Repeat(j) ==
  /\ FoldFunction(+, 0, repeats) < MaxRepeats
  /\ repeats' = [repeats EXCEPT ![j] = @ + 1]

\* The write to the result stream fails inside the handler's try block.
PublishFails(w) ==
  /\ run[w].at = "publish"
  /\ Repeat(run[w].entry.job)
  /\ Raise(w, FALSE) /\ Miss(w)
  /\ UNCHANGED <<mode, platformVars, memoryVars, resultVars, asked, faults>>

\* A crash ends the call; the entry stays pending and is delivered again.
Crash(w) ==
  /\ run[w].at # "idle"
  /\ Repeat(run[w].entry.job)
  /\ queue' = queue \cup {run[w].entry}
  /\ run' = [run EXCEPT ![w] = Idle]
  /\ UNCHANGED <<mode, platformVars, stage, memoryVars, resultVars, countVars, quota,
                 faults>>

\* Another worker claims the entry although the call goes on.
Claim(w) ==
  /\ run[w].at # "idle"
  /\ run[w].entry \notin queue
  /\ Repeat(run[w].entry.job)
  /\ queue' = queue \cup {run[w].entry}
  /\ UNCHANGED <<mode, platformVars, stage, run, memoryVars, resultVars, countVars,
                 quota, faults>>

-----------------------------------------------------------------------------
(* The call.                                                                *)

\* The text, the page behind a URL or an uploaded file becomes the content.
Extract(w) ==
  /\ run[w].at = "extract"
  /\ GoTo(w, IF MemoryEnabled THEN "recall" ELSE "ask")
  /\ UNCHANGED <<mode, platformVars, stage, queue, memoryVars, resultVars, countVars,
                 repeats, quota, faults>>

\* Nothing is left of it, it cannot be loaded, its type or size is refused; the
\* error about a page that answers 429 counts as a quota error.
ExtractFails(w, isQuota) ==
  /\ run[w].at = "extract"
  /\ Raise(w, isQuota) /\ Miss(w)
  /\ UNCHANGED <<mode, platformVars, memoryVars, resultVars, asked, repeats, faults>>

MemoryFault == IF mode = "broken" THEN UNCHANGED faults
               ELSE faults < MaxFaults /\ faults' = faults + 1

\* The memory is read in full; without it the agent goes on.
Recall(w) ==
  /\ run[w].at = "recall"
  /\ (mode = "ready" /\ UNCHANGED faults) \/ MemoryFault
  /\ GoTo(w, "ask")
  /\ UNCHANGED <<mode, platformVars, stage, queue, memoryVars, resultVars, countVars,
                 repeats, quota>>

Asks(w) == LET j == run[w].entry.job
           IN run[w].at = "ask" /\ asked' = [asked EXCEPT ![j] = @ + 1]

\* Mutant: a completed SRS is not stored.
AfterAnswerForgets(r, result) ==
  LET pairs == IF result = "clarify" /\ MemoryEnabled
               THEN QaPairs(job[r.entry.job].history) ELSE {}
  IN [r EXCEPT !.result = result, !.pairs = pairs,
               !.at = IF pairs # {} THEN "store_pairs" ELSE "publish"]

\* What is left to do with an answer before it is published.
AfterAnswer(r, result) ==
  LET pairs == QaPairs(job[r.entry.job].history)
  IN [r EXCEPT !.result = result,
               !.pairs = IF result = "clarify" /\ MemoryEnabled THEN pairs ELSE {},
               !.at = IF result = "complete" /\ MemoryEnabled THEN "store_srs"
                      ELSE IF result = "clarify" /\ MemoryEnabled /\ pairs # {}
                      THEN "store_pairs" ELSE "publish"]

LlmAnswers(w) ==
  LET kind == job[run[w].entry.job].kind
  IN /\ Asks(w)
     /\ \E r \in Replies :
          /\ Accepts(kind, r)
          /\ run' = [run EXCEPT ![w] = AfterAnswer(@, Result(kind, r))]
     /\ UNCHANGED <<mode, platformVars, stage, queue, memoryVars, resultVars, misses,
                    repeats, quota, faults>>

\* Mutant: one unusable reply too many is waited for.
LlmUnusableOnceMore(w) ==
  LET kind == job[run[w].entry.job].kind
  IN /\ Asks(w)
     /\ \E r \in Replies : ~Accepts(kind, r)
     /\ run[w].tries + 1 <= Tries(kind)
     /\ run' = [run EXCEPT ![w].tries = @ + 1]
     /\ UNCHANGED <<mode, platformVars, stage, queue, memoryVars, resultVars, misses,
                    repeats, quota, faults>>

\* An unusable reply: the LLM is asked again, with the same prompt.
LlmUnusable(w) ==
  LET kind == job[run[w].entry.job].kind
  IN /\ Asks(w)
     /\ \E r \in Replies : ~Accepts(kind, r)
     /\ run[w].tries + 1 < Tries(kind)
     /\ run' = [run EXCEPT ![w].tries = @ + 1]
     /\ UNCHANGED <<mode, platformVars, stage, queue, memoryVars, resultVars, misses,
                    repeats, quota, faults>>

\* The last try was unusable too, or the provider raised an error.
LlmFails(w, isQuota) ==
  /\ Asks(w)
  /\ Raise(w, isQuota) /\ Miss(w)
  /\ UNCHANGED <<mode, platformVars, memoryVars, resultVars, repeats, faults>>

Store(c) == mode = "ready" /\ memory' = [memory EXCEPT ![c] = @ + 1]
                           /\ UNCHANGED <<forgot, faults>>
Forget(w) == MemoryFault /\ forgot' = forgot \cup {run[w].entry.job} /\ UNCHANGED memory

StoreSrs(w) ==
  /\ run[w].at = "store_srs"
  /\ Store(SrsOf(run[w].entry.job)) \/ Forget(w)
  /\ GoTo(w, "publish")
  /\ UNCHANGED <<mode, platformVars, stage, queue, resultVars, countVars, repeats, quota>>

\* One pair after the other; the first that fails ends the loop.
StorePair(w) ==
  LET i    == CHOOSE x \in run[w].pairs : \A y \in run[w].pairs : x <= y
      left == run[w].pairs \ {i}
  IN /\ run[w].at = "store_pairs"
     /\ \/ /\ Store(PairAt(i))
           /\ run' = [run EXCEPT ![w].pairs = left,
                                 ![w].at = IF left = {} THEN "publish" ELSE @]
        \/ Forget(w) /\ GoTo(w, "publish")
     /\ UNCHANGED <<mode, platformVars, stage, queue, resultVars, countVars, repeats, quota>>

WorkerStep(w) ==
  \/ \E e \in queue : Take(w, e)
  \/ Extract(w) \/ Recall(w) \/ LlmAnswers(w) \/ LlmUnusable(w)
  \/ StoreSrs(w) \/ StorePair(w) \/ Publish(w) \/ PublishFails(w)
  \/ \E isQuota \in BOOLEAN : ExtractFails(w, isQuota) \/ LlmFails(w, isQuota)

Next ==
  \/ \E j \in Jobs, kind \in Kinds, draft \in Drafts \cup {<<>>} : Ask(j, kind, draft)
  \/ \E j \in Jobs : SaveAnswer(j)
  \/ \E w \in Workers : WorkerStep(w) \/ Crash(w) \/ Claim(w)

Spec == Init /\ [][Next]_vars

\* Every call of a provider, of the memory and of Redis ends: a worker's loop
\* goes on.  Nothing is assumed of crashes or of users.
FairSpec == Spec /\ \A w \in Workers : WF_vars(WorkerStep(w))

-----------------------------------------------------------------------------
(* Properties.                                                              *)

\* A completed SRS is remembered once for each run that got as far as its
\* answer, and a run that is retried because of an error did not: more rows than
\* one, or a row of a job that failed, needs a crash, a claim or a lost result.
\* (requirement_node stores before the result leaves the agent.)
SrsRepeatsNeedReruns ==
  \A j \in Jobs :
    memory[SrsOf(j)] <= repeats[j] + (IF stage[j] = "failed" THEN 0 ELSE 1)

\* Unless a store failed, an answer that the platform received left in the memory
\* what later turns will need: the SRS it completed, or every question of the
\* session that was answered before it.
AnswersRemembered ==
  \A j \in Jobs : mode = "ready" /\ j \notin forgot =>
    /\ "complete" \in answers[j] => memory[SrsOf(j)] > 0
    /\ "clarify" \in answers[j] =>
         \A i \in QaPairs(job[j].history) : memory[PairAt(i)] > 0

\* The retries inside a run and the retries of jobs multiply: one delivery of a
\* chat turn asks the LLM at most Tries * (MaxRetries + 1) times, and Tries more
\* for each quota error.
CallsBounded ==
  \A j \in Jobs :
    LET runs == IF job[j].kind \in ChatTurns
                THEN (repeats[j] + 1) * (MaxRetries + 1) + quota
                ELSE repeats[j] + 1
    IN asked[j] <= Tries(job[j].kind) * runs

\* The memory decides no job's fate: a job fails only after as many runs as its
\* kind has were ended by its input, the LLM or Redis, however often the memory
\* failed in them.
FailedForAReason ==
  \A j \in Jobs :
    stage[j] = "failed" =>
      misses[j] >= IF job[j].kind \in ChatTurns THEN MaxRetries + 1 ELSE 1

\* What a plan or a test plan says of a feature of the SRS has that feature's id:
\* "a stable identifier [...] carried through every downstream artifact".
FeatureIdsCarried ==
  \A j \in Jobs : answers[j] \cap {"plan", "suites"} # {} => labelled[j] = job[j].draft

\* Every job that was asked for is decided.
EveryJobDecided ==
  \A j \in Jobs : stage[j] = "asked" ~> stage[j] \in {"returned", "answered", "failed"}
=============================================================================
