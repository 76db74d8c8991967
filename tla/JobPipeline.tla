---------------------------- MODULE JobPipeline ----------------------------
(***************************************************************************)
(* The AI job pipeline: the API writes a job to the jobs stream, a Python  *)
(* worker runs it and writes a result to the results stream, and a result  *)
(* consumer inside an API instance applies the result to the database and  *)
(* broadcasts the outcome to the project room.                             *)
(*                                                                         *)
(* Every Redis call, database write and broadcast is a step of its own.    *)
(* Between two steps other processes run, the process may crash, and the   *)
(* call itself may fail, with or without having taken effect.              *)
(*                                                                         *)
(* A chat turn (jobType chat_turn) is retried by the worker; the other     *)
(* four kinds (arch_doc, planner, qa_intelligence, ragnarock_chat) are not.*)
(***************************************************************************)
EXTENDS RedisStreams

CONSTANTS
  Jobs,        \* jobs, each submitted once (jobId is a fresh UUID)
  ChatTurns,   \* the jobs of type chat_turn
  Plans,       \* the jobs of type planner
  Malformed,   \* the jobs whose payload the worker's schema rejects
  Workers,     \* consumers of the jobs stream (agent processes)
  Consumers,   \* consumers of the results stream (API instances)
  MaxRetries,  \* AI_REQUIREMENTS_QUEUE_MAX_RETRIES, read by both sides
  BatchSize,   \* COUNT of XREADGROUP and XAUTOCLAIM
  MaxFaults,   \* bound: failed calls and crashes in a behaviour
  MaxQuota     \* bound: LLM quota errors in a behaviour

ASSUME PipelineAssumption ==
  /\ ChatTurns \subseteq Jobs
  /\ Plans \subseteq Jobs \ ChatTurns
  /\ Malformed \subseteq Jobs
  /\ Workers \cap Consumers = {}
  /\ MaxRetries \in Nat
  /\ BatchSize \in Nat \ {0}
  /\ MaxFaults \in Nat
  /\ MaxQuota \in Nat

VARIABLES
  request,     \* request[j]: how far the API call that submits j has come
  jobs,        \* the jobs stream
  results,     \* the results stream
  jobsDlq,     \* jobs with an entry in the jobs dead letter stream
  resultsDlq,  \* jobs with an entry in the results dead letter stream
  stage,       \* stage[p]: what process p does next
  hand,        \* hand[p]: entries p was given and has not finished
  loop,        \* loop[p]: the call p makes when its hand is empty
  effects,     \* effects[j]: times a result of j was written to the database
  outcome,     \* outcome[j]: how the results of j ended so far
  faults,      \* failed calls and crashes so far
  quota        \* quota errors so far

streamVars  == <<jobs, results, jobsDlq, resultsDlq>>
processVars == <<stage, hand, loop>>
effectVars  == <<effects, outcome>>
vars == <<request, streamVars, processVars, effectVars, faults, quota>>

Processes == Workers \cup Consumers

JobEntry    == [job : Jobs, attempts : Nat]
ResultEntry == [job : Jobs, ok : BOOLEAN, attempts : Nat]

\* "completed" and "failed" are broadcast to the project room; "nothing", the
\* end of a plan without tasks, is only logged.
Outcomes == {"completed", "failed", "nothing"}

WorkerStages   == {"poll", "start", "publish", "requeue", "publishFailed",
                   "dlq", "ack", "done", "down"}
ConsumerStages == {"poll", "start", "settle", "retry", "dlq", "report",
                   "ack", "done", "down"}

TypeOK ==
  /\ request \in [Jobs -> {"new", "saved", "queued", "refused"}]
  /\ jobs \in StreamOf(JobEntry)
  /\ results \in StreamOf(ResultEntry)
  /\ jobsDlq \subseteq Jobs
  /\ resultsDlq \subseteq Jobs
  /\ stage \in [Processes -> WorkerStages \cup ConsumerStages]
  /\ \A w \in Workers : stage[w] \in WorkerStages
  /\ \A c \in Consumers : stage[c] \in ConsumerStages
  /\ hand \in [Processes -> SUBSET Nat]
  /\ \A w \in Workers : hand[w] \subseteq Entries(jobs)
  /\ \A c \in Consumers : hand[c] \subseteq Entries(results)
  /\ loop \in [Processes -> {"claim", "read"}]
  /\ effects \in [Jobs -> Nat]
  /\ outcome \in [Jobs -> SUBSET Outcomes]
  /\ faults \in Nat
  /\ quota \in Nat

Init ==
  /\ request = [j \in Jobs |-> "new"]
  /\ jobs = EmptyStream
  /\ results = EmptyStream
  /\ jobsDlq = {}
  /\ resultsDlq = {}
  /\ stage = [p \in Processes |-> "poll"]
  /\ hand = [p \in Processes |-> {}]
  /\ loop = [p \in Processes |-> "claim"]
  /\ effects = [j \in Jobs |-> 0]
  /\ outcome = [j \in Jobs |-> {}]
  /\ faults = 0
  /\ quota = 0

Fault == faults < MaxFaults /\ faults' = faults + 1

-----------------------------------------------------------------------------
(* Submission, in the API.                                                 *)

\* The user message is stored, and "processing" broadcast, before the job is
\* queued (the one-shot kinds store nothing and only check their gates).
SaveRequest(j) ==
  /\ request[j] = "new"
  /\ request' = [request EXCEPT ![j] = "saved"]
  /\ UNCHANGED <<streamVars, processVars, effectVars, faults, quota>>

Push(j) == jobs' = XAdd(jobs, [job |-> j, attempts |-> 0])

Enqueue(j) ==
  /\ request[j] = "saved"
  /\ Push(j)
  /\ request' = [request EXCEPT ![j] = "queued"]
  /\ UNCHANGED <<results, jobsDlq, resultsDlq, processVars, effectVars,
                 faults, quota>>

\* Mutant: a failed submission is also broadcast as a failed turn.
EnqueueFailsLoudly(j) ==
  /\ request[j] = "saved"
  /\ Push(j) \/ UNCHANGED jobs
  /\ request' = [request EXCEPT ![j] = "refused"]
  /\ outcome' = [outcome EXCEPT ![j] = @ \cup {"failed"}]
  /\ Fault
  /\ UNCHANGED <<results, jobsDlq, resultsDlq, processVars, effects, quota>>

\* XADD throws (the client gets an error, the user message stays), or the API
\* instance dies; the entry may or may not have been written.
EnqueueFails(j) ==
  /\ request[j] = "saved"
  /\ Push(j) \/ UNCHANGED jobs
  /\ request' = [request EXCEPT ![j] = "refused"]
  /\ Fault
  /\ UNCHANGED <<results, jobsDlq, resultsDlq, processVars, effectVars, quota>>

-----------------------------------------------------------------------------
(* The loop that workers and result consumers share.                       *)

\* Messages are handled one at a time, in the order of their ids.
First(p, m) == m \in hand[p] /\ \A n \in hand[p] : m <= n

GoTo(p, s) == stage' = [stage EXCEPT ![p] = s] /\ UNCHANGED <<hand, loop>>

\* The loop got the entries ids from call c: handle them, then make the other.
TakeBatch(p, c, ids) ==
  /\ stage[p] = "poll"
  /\ loop[p] = c
  /\ hand' = [hand EXCEPT ![p] = ids]
  /\ stage' = [stage EXCEPT ![p] = IF ids = {} THEN "poll" ELSE "start"]
  /\ loop' = [loop EXCEPT ![p] = IF c = "claim" THEN "read" ELSE "claim"]

FinishEntry(p, m) ==
  /\ hand' = [hand EXCEPT ![p] = @ \ {m}]
  /\ stage' = [stage EXCEPT ![p] = IF hand[p] = {m} THEN "poll" ELSE "start"]
  /\ UNCHANGED loop

\* An error nobody caught below the loop.  A worker's loop catches it, sleeps
\* and starts over; a result consumer's has no catch, so the loop promise is
\* rejected and the process ends.  Either way the batch in memory is dropped.
Escape(p) ==
  /\ hand' = [hand EXCEPT ![p] = {}]
  /\ loop' = [loop EXCEPT ![p] = "claim"]
  /\ stage' = [stage EXCEPT ![p] = IF p \in Workers THEN "poll" ELSE "down"]

-----------------------------------------------------------------------------
(* The worker.                                                             *)

\* Mutant: stale entries are never claimed.
WorkerNeverClaims(w) ==
  /\ TakeBatch(w, "claim", {})
  /\ UNCHANGED <<request, streamVars, effectVars, faults, quota>>

WorkerClaims(w) ==
  /\ TakeBatch(w, "claim", IdleEntries(jobs, BatchSize))
  /\ jobs' = XAutoClaim(jobs, BatchSize)
  /\ UNCHANGED <<request, results, jobsDlq, resultsDlq, effectVars,
                 faults, quota>>

WorkerReads(w) ==
  /\ TakeBatch(w, "read", NewEntries(jobs, BatchSize))
  /\ jobs' = XReadGroup(jobs, BatchSize)
  /\ UNCHANGED <<request, results, jobsDlq, resultsDlq, effectVars,
                 faults, quota>>

\* Mutants: one retry too many; a job that met a quota error is dropped.
WorkerRetriesOnceMore(w, m, isQuota) ==
  LET e == jobs.log[m] IN
  GoTo(w, IF e.job \in ChatTurns /\ (isQuota \/ e.attempts <= MaxRetries)
          THEN "requeue" ELSE "publishFailed")

WorkerDropsOnQuota(w, m, isQuota) ==
  LET e == jobs.log[m] IN
  GoTo(w, IF isQuota THEN "done"
          ELSE IF e.job \in ChatTurns /\ e.attempts + 1 <= MaxRetries
          THEN "requeue" ELSE "publishFailed")

\* What the worker does with entry m when running it throws.
WorkerHandlesError(w, m, isQuota) ==
  LET e == jobs.log[m] IN
  GoTo(w, IF e.job \in ChatTurns /\ (isQuota \/ e.attempts + 1 <= MaxRetries)
          THEN "requeue" ELSE "publishFailed")

LlmSucceeds(w, m) ==
  /\ stage[w] = "start"
  /\ jobs.log[m].job \notin Malformed
  /\ GoTo(w, "publish")
  /\ UNCHANGED <<request, streamVars, effectVars, faults, quota>>

\* Mutant: the error of a run is swallowed, and its job acknowledged.
LlmFailsQuietly(w, m) ==
  /\ stage[w] = "start"
  /\ jobs.log[m].job \notin Malformed
  /\ GoTo(w, "ack")
  /\ UNCHANGED <<request, streamVars, effectVars, faults, quota>>

LlmFails(w, m) ==
  /\ stage[w] = "start"
  /\ jobs.log[m].job \notin Malformed
  /\ WorkerHandlesError(w, m, FALSE)
  /\ UNCHANGED <<request, streamVars, effectVars, faults, quota>>

LlmQuotaError(w, m) ==
  /\ stage[w] = "start"
  /\ jobs.log[m].job \notin Malformed
  /\ quota < MaxQuota
  /\ quota' = quota + 1
  /\ WorkerHandlesError(w, m, TRUE)
  /\ UNCHANGED <<request, streamVars, effectVars, faults>>

\* Mutant: the dead letter entry is not written.
SendNothingToJobsDlq(j) == j \in Jobs /\ UNCHANGED streamVars

\* The Redis call that each worker stage makes, its effect only.
SendToJobsDlq(j) ==
  jobsDlq' = jobsDlq \cup {j} /\ UNCHANGED <<jobs, results, resultsDlq>>

PublishResult(e, ok, attempts) ==
  /\ results' = XAdd(results, [job |-> e.job, ok |-> ok, attempts |-> attempts])
  /\ UNCHANGED <<jobs, jobsDlq, resultsDlq>>

RequeueJob(e) ==
  /\ jobs' = XAdd(jobs, [job |-> e.job, attempts |-> e.attempts + 1])
  /\ UNCHANGED <<results, jobsDlq, resultsDlq>>

AckJob(m) == jobs' = XAck(jobs, m) /\ UNCHANGED <<results, jobsDlq, resultsDlq>>

\* Only a chat turn's result carries the attempts made so far.
ReportedAttempts(e, n) == IF e.job \in ChatTurns THEN n ELSE 0

WorkerCall(w, m) ==
  LET e == jobs.log[m] IN
  \/ stage[w] = "start" /\ e.job \in Malformed /\ SendToJobsDlq(e.job)
  \/ stage[w] = "publish" /\ PublishResult(e, TRUE, ReportedAttempts(e, e.attempts))
  \/ stage[w] = "requeue" /\ RequeueJob(e)
  \/ /\ stage[w] = "publishFailed"
     /\ PublishResult(e, FALSE, ReportedAttempts(e, e.attempts + 1))
  \/ stage[w] = "dlq" /\ SendToJobsDlq(e.job)
  \/ stage[w] \in {"ack", "done"} /\ AckJob(m)

\* Mutant: a failure is published but its job not shelved.
AfterWorkerCallUnshelved(w, m) ==
  IF stage[w] \in {"ack", "done"} THEN FinishEntry(w, m)
  ELSE GoTo(w, IF stage[w] = "publish" THEN "ack" ELSE "done")

\* The stage after the call returned.
AfterWorkerCall(w, m) ==
  IF stage[w] \in {"ack", "done"} THEN FinishEntry(w, m)
  ELSE GoTo(w, CASE stage[w] = "publish" -> "ack"
                 [] stage[w] = "publishFailed" -> "dlq"
                 [] OTHER -> "done")

WorkerCalls(w, m) ==
  /\ WorkerCall(w, m)
  /\ AfterWorkerCall(w, m)
  /\ UNCHANGED <<request, effectVars, faults, quota>>

\* The call throws.  Publishing a success and acknowledging it are inside the
\* try block of the handler, everything else is outside it.
WorkerCallFails(w, m) ==
  /\ stage[w] # "start" \/ jobs.log[m].job \in Malformed
  /\ WorkerCall(w, m) \/ UNCHANGED streamVars
  /\ IF stage[w] \in {"publish", "ack"}
     THEN WorkerHandlesError(w, m, FALSE) ELSE Escape(w)
  /\ Fault
  /\ UNCHANGED <<request, effectVars, quota>>

WorkerStep(w) ==
  \/ WorkerClaims(w)
  \/ WorkerReads(w)
  \/ \E m \in hand[w] : /\ First(w, m)
                        /\ \/ LlmSucceeds(w, m)
                           \/ LlmFails(w, m)
                           \/ LlmQuotaError(w, m)
                           \/ WorkerCalls(w, m)

-----------------------------------------------------------------------------
(* The result consumer.                                                    *)

\* Mutant: the entries are looked up in the wrong stream.
ConsumerReadsJobs(c) ==
  /\ TakeBatch(c, "read", NewEntries(jobs, BatchSize))
  /\ results' = XReadGroup(results, BatchSize)
  /\ UNCHANGED <<request, jobs, jobsDlq, resultsDlq, effectVars, faults, quota>>

ConsumerReads(c) ==
  /\ TakeBatch(c, "read", NewEntries(results, BatchSize))
  /\ results' = XReadGroup(results, BatchSize)
  /\ UNCHANGED <<request, jobs, jobsDlq, resultsDlq, effectVars, faults, quota>>

ConsumerClaims(c) ==
  /\ TakeBatch(c, "claim", IdleEntries(results, BatchSize))
  /\ results' = XAutoClaim(results, BatchSize)
  /\ UNCHANGED <<request, jobs, jobsDlq, resultsDlq, effectVars, faults, quota>>

EndsWith(j, o) == outcome' = [outcome EXCEPT ![j] = @ \cup {o}]

\* handleProcessingFailure, reached when the handler or the ack after it throws.
ConsumerHandlesError(c, m) ==
  GoTo(c, IF results.log[m].attempts + 1 > MaxRetries THEN "dlq" ELSE "retry")

\* The first write of a result handler: the assistant message, the planner's
\* task rows, the document.  It is not conditional on an earlier write.
ApplyResult(c, m) ==
  /\ stage[c] = "start"
  /\ results.log[m].ok
  /\ effects' = [effects EXCEPT ![results.log[m].job] = @ + 1]
  /\ GoTo(c, "settle")
  /\ UNCHANGED <<request, streamVars, outcome, faults, quota>>

\* A plan without tasks writes nothing and tells nobody.
EmptyPlan(c, m) ==
  /\ stage[c] = "start"
  /\ results.log[m].ok
  /\ results.log[m].job \in Plans
  /\ EndsWith(results.log[m].job, "nothing")
  /\ GoTo(c, "ack")
  /\ UNCHANGED <<request, streamVars, effects, faults, quota>>

\* The remaining writes, then the broadcast that ends the handler.
SettleResult(c, m) ==
  /\ stage[c] = "settle"
  /\ EndsWith(results.log[m].job, "completed")
  /\ GoTo(c, "ack")
  /\ UNCHANGED <<request, streamVars, effects, faults, quota>>

ReportFailedResult(c, m) ==
  /\ stage[c] = "start"
  /\ ~results.log[m].ok
  /\ EndsWith(results.log[m].job, "failed")
  /\ GoTo(c, "ack")
  /\ UNCHANGED <<request, streamVars, effects, faults, quota>>

\* Mutants: the response is parsed only after the first write; a failure is
\* broadcast although the result will be retried.
HandlerRejectsLate(c, m) ==
  /\ stage[c] = "settle"
  /\ ConsumerHandlesError(c, m)
  /\ UNCHANGED <<request, streamVars, effectVars, faults, quota>>

HandlerRejectsLoudly(c, m) ==
  /\ stage[c] = "start"
  /\ results.log[m].ok
  /\ EndsWith(results.log[m].job, "failed")
  /\ ConsumerHandlesError(c, m)
  /\ UNCHANGED <<request, streamVars, effects, faults, quota>>

\* The handler throws before its first write: an agent response it cannot
\* parse, or a row the result refers to that is gone.
HandlerRejects(c, m) ==
  /\ stage[c] = "start"
  /\ results.log[m].ok
  /\ ConsumerHandlesError(c, m)
  /\ UNCHANGED <<request, streamVars, effectVars, faults, quota>>

\* A write fails part-way through the handler, after the first one.
HandlerFails(c, m) ==
  /\ stage[c] = "settle"
  /\ ConsumerHandlesError(c, m)
  /\ Fault
  /\ UNCHANGED <<request, streamVars, effectVars, quota>>

AckResult(m) ==
  results' = XAck(results, m) /\ UNCHANGED <<jobs, jobsDlq, resultsDlq>>

RetryResult(m) ==
  LET r == results.log[m] IN
  /\ results' = XAdd(results, [job |-> r.job, ok |-> r.ok,
                                attempts |-> r.attempts + 1])
  /\ UNCHANGED <<jobs, jobsDlq, resultsDlq>>

SendToResultsDlq(j) ==
  resultsDlq' = resultsDlq \cup {j} /\ UNCHANGED <<jobs, results, jobsDlq>>

ConsumerCall(c, m) ==
  \/ stage[c] = "retry" /\ RetryResult(m)
  \/ stage[c] = "dlq" /\ SendToResultsDlq(results.log[m].job)
  \/ stage[c] \in {"ack", "done"} /\ AckResult(m)

ConsumerCalls(c, m) ==
  /\ ConsumerCall(c, m)
  /\ IF stage[c] \in {"ack", "done"} THEN FinishEntry(c, m)
     ELSE GoTo(c, IF stage[c] = "dlq" THEN "report" ELSE "done")
  /\ UNCHANGED <<request, effectVars, faults, quota>>

\* A shelved chat result is reported to the user; the other kinds are not.
ReportExhausted(c, m) ==
  LET r == results.log[m] IN
  /\ stage[c] = "report"
  /\ IF r.ok /\ r.job \in ChatTurns THEN EndsWith(r.job, "failed")
                                    ELSE UNCHANGED outcome
  /\ GoTo(c, "done")
  /\ UNCHANGED <<request, streamVars, effects, faults, quota>>

ConsumerCallFails(c, m) ==
  /\ stage[c] \in {"retry", "dlq", "ack", "done"}
  /\ ConsumerCall(c, m) \/ UNCHANGED streamVars
  /\ IF stage[c] = "ack" THEN ConsumerHandlesError(c, m) ELSE Escape(c)
  /\ Fault
  /\ UNCHANGED <<request, effectVars, quota>>

ConsumerStep(c) ==
  \/ ConsumerClaims(c)
  \/ ConsumerReads(c)
  \/ \E m \in hand[c] : /\ First(c, m)
                        /\ \/ ApplyResult(c, m)
                           \/ SettleResult(c, m)
                           \/ EmptyPlan(c, m)
                           \/ ReportFailedResult(c, m)
                           \/ HandlerRejects(c, m)
                           \/ ConsumerCalls(c, m)
                           \/ ReportExhausted(c, m)

-----------------------------------------------------------------------------
(* Time, lost replies and crashes.                                         *)

JobTurnsIdle(i) ==
  /\ i \in jobs.pending \ jobs.idle
  /\ jobs' = TurnsIdle(jobs, i)
  /\ UNCHANGED <<request, results, jobsDlq, resultsDlq, processVars, effectVars,
                 faults, quota>>

ResultTurnsIdle(i) ==
  /\ i \in results.pending \ results.idle
  /\ results' = TurnsIdle(results, i)
  /\ UNCHANGED <<request, jobs, jobsDlq, resultsDlq, processVars, effectVars,
                 faults, quota>>

\* The claim or the read throws; Redis may have delivered the entries already.
PollFails(p) ==
  /\ stage[p] = "poll"
  /\ \/ UNCHANGED streamVars
     \/ /\ p \in Workers
        /\ jobs' = IF loop[p] = "claim" THEN XAutoClaim(jobs, BatchSize)
                                        ELSE XReadGroup(jobs, BatchSize)
        /\ UNCHANGED <<results, jobsDlq, resultsDlq>>
     \/ /\ p \in Consumers
        /\ results' = IF loop[p] = "claim" THEN XAutoClaim(results, BatchSize)
                                           ELSE XReadGroup(results, BatchSize)
        /\ UNCHANGED <<jobs, jobsDlq, resultsDlq>>
  /\ Escape(p)
  /\ Fault
  /\ UNCHANGED <<request, effectVars, quota>>

Crash(p) ==
  /\ stage[p] # "down"
  /\ stage' = [stage EXCEPT ![p] = "down"]
  /\ hand' = [hand EXCEPT ![p] = {}]
  /\ loop' = [loop EXCEPT ![p] = "claim"]
  /\ Fault
  /\ UNCHANGED <<request, streamVars, effectVars, quota>>

\* The container is restarted; its consumer group exists already.
Restart(p) ==
  /\ stage[p] = "down"
  /\ GoTo(p, "poll")
  /\ UNCHANGED <<request, streamVars, effectVars, faults, quota>>

Next ==
  \/ \E j \in Jobs : SaveRequest(j) \/ Enqueue(j) \/ EnqueueFails(j)
  \/ \E w \in Workers : \/ WorkerStep(w)
                        \/ \E m \in hand[w] : First(w, m) /\ WorkerCallFails(w, m)
  \/ \E c \in Consumers : \/ ConsumerStep(c)
                          \/ \E m \in hand[c] :
                               /\ First(c, m)
                               /\ HandlerFails(c, m) \/ ConsumerCallFails(c, m)
  \/ \E i \in jobs.pending : JobTurnsIdle(i)
  \/ \E i \in results.pending : ResultTurnsIdle(i)
  \/ \E p \in Processes : PollFails(p) \/ Crash(p) \/ Restart(p)

Spec == Init /\ [][Next]_vars

(***************************************************************************)
(* Fairness: a process that runs keeps running its loop, an entry nobody   *)
(* touches becomes claimable, and a stopped container is restarted.        *)
(* Nothing obliges a user to submit, or a fault or a quota error to occur. *)
(***************************************************************************)
FairSpec ==
  /\ Spec
  /\ \A w \in Workers : WF_vars(WorkerStep(w))
  /\ \A c \in Consumers : WF_vars(ConsumerStep(c))
  /\ \A p \in Processes : WF_vars(Restart(p))
  /\ WF_vars(\E i \in jobs.pending : JobTurnsIdle(i))
  /\ WF_vars(\E i \in results.pending : ResultTurnsIdle(i))

-----------------------------------------------------------------------------
(* Properties.                                                             *)

\* Job j waits in a stream: somebody still has to acknowledge an entry of it.
Carried(j) ==
  \/ \E i \in Unacked(jobs) : jobs.log[i].job = j
  \/ \E i \in Unacked(results) : results.log[i].job = j

\* Job j has its outcome.  Only a broadcast settles a well-formed chat turn; a
\* job of another kind may also end in the dead letter stream of results, a
\* plan in a logged "nothing", and a job the worker cannot parse in the dead
\* letter stream of jobs.
Settled(j) ==
  \/ outcome[j] # {}
  \/ j \in resultsDlq \ ChatTurns
  \/ j \in jobsDlq \cap Malformed

(***************************************************************************)
(* No job is lost: whatever crashes and whichever calls fail, a job that   *)
(* reached the jobs stream is held by an unacknowledged entry of one of    *)
(* the two streams until it is settled.  This is what the order "publish,  *)
(* then acknowledge" in every handler is for.                              *)
(***************************************************************************)
NoJobLost ==
  \A i \in Entries(jobs) : Carried(jobs.log[i].job) \/ Settled(jobs.log[i].job)

(***************************************************************************)
(* Why no job is lost.  A worker acknowledges entry m only when the job is *)
(* already passed on: requeued in a later entry, published as a result, or *)
(* settled.  Later, not merely other: two workers that hold copies of one  *)
(* job would otherwise rely on each other's entry and both acknowledge.    *)
(* The consumer's obligation for a result is of the same form.             *)
(***************************************************************************)
PassedOn(m) ==
  LET j == jobs.log[m].job IN
  \/ \E i \in Unacked(jobs) : i > m /\ jobs.log[i].job = j
  \/ \E i \in Unacked(results) : results.log[i].job = j
  \/ Settled(j)

ResultPassedOn(m) ==
  LET j == results.log[m].job IN
  \/ \E i \in Unacked(results) : i > m /\ results.log[i].job = j
  \/ Settled(j)

WorkerDuty(w) ==
  \A m \in hand[w] :
    First(w, m) /\ stage[w] \in {"dlq", "ack", "done"} => PassedOn(m)

ConsumerDuty(c) ==
  \A m \in hand[c] :
    LET r == results.log[m] IN
    First(c, m) =>
      /\ stage[c] = "settle" => r.ok
      /\ stage[c] = "ack" => outcome[r.job] # {}
      /\ stage[c] = "done" => ResultPassedOn(m)
      /\ stage[c] = "report" => r.job \in resultsDlq
      /\ stage[c] \in {"retry", "dlq", "report"} /\ ~r.ok => outcome[r.job] # {}

WorkerPassesOn == \A w \in Workers : WorkerDuty(w)

ConsumerPassesOn == \A c \in Consumers : ConsumerDuty(c)

IInv == TypeOK /\ WorkerPassesOn /\ ConsumerPassesOn /\ NoJobLost

(***************************************************************************)
(* A job that ended with nothing but a failure broadcast can be inspected  *)
(* in a dead letter stream: the worker shelves it after publishing the     *)
(* failure, and the consumer before broadcasting it, on every path.        *)
(***************************************************************************)
FailedJobsAreShelved ==
  \A j \in Jobs :
    outcome[j] = {"failed"} /\ ~Carried(j) => j \in jobsDlq \cup resultsDlq

(***************************************************************************)
(* The retry budget is one budget for worker and consumer together: no     *)
(* entry of either stream carries more attempts than MaxRetries allows,    *)
(* quota errors (retried without limit) aside.                             *)
(***************************************************************************)
AttemptsBounded ==
  /\ \A i \in Entries(jobs) : jobs.log[i].attempts <= MaxRetries + quota
  /\ \A i \in Entries(results) : results.log[i].attempts <= MaxRetries + 1 + quota

(***************************************************************************)
(* With one worker and one API instance, each failed call or crash costs   *)
(* at most one repeated write of a job's result: retries after LLM errors  *)
(* and rejected results repeat nothing.                                    *)
(***************************************************************************)
DuplicatesNeedFaults == \A j \in Jobs : effects[j] <= 1 + faults

(***************************************************************************)
(* With one worker and one API instance, a job is not reported both        *)
(* completed and failed unless a call failed or a process crashed.         *)
(***************************************************************************)
VerdictsAgree ==
  \A j \in Jobs : faults = 0 => ~({"completed", "failed"} \subseteq outcome[j])

(***************************************************************************)
(* MVP_FINAL.md:898, "Invalid job payload: move to DLQ immediately,        *)
(* publish failed result": a job the worker cannot parse is reported once  *)
(* it is shelved.  The worker publishes nothing for it.                    *)
(***************************************************************************)
InvalidPayloadReported ==
  \A j \in jobsDlq \cap Malformed : ~Carried(j) => "failed" \in outcome[j]

(***************************************************************************)
(* The pipeline implements the delivery promise: acceptance is the write   *)
(* to the jobs stream, and under FairSpec every accepted job is settled    *)
(* once faults stop.                                                       *)
(***************************************************************************)
Delivery == INSTANCE JobDelivery WITH
  accepted <- { jobs.log[i].job : i \in Entries(jobs) },
  settled  <- { j \in Jobs : Settled(j) }

DeliverySafety == Delivery!Safety
EveryJobSettled == Delivery!Spec
=============================================================================
