------------------------- MODULE JobPipelineProofs -------------------------
(***************************************************************************)
(* Proofs about the AI job pipeline, for any set of jobs, workers and      *)
(* result consumers, any retry limit and batch size, and any number of     *)
(* failed calls, crashes and quota errors.                                 *)
(*                                                                         *)
(* The argument has three layers.  StreamsStep and Kept say what a step    *)
(* does to the four streams; with them every step is typed; and with the   *)
(* obligations of the acting process every step keeps each job carried by  *)
(* an entry or settled.                                                    *)
(***************************************************************************)
EXTENDS JobPipeline, RedisStreamsProofs

DataOK ==
  /\ request \in [Jobs -> {"new", "saved", "queued", "refused"}]
  /\ effects \in [Jobs -> Nat]
  /\ outcome \in [Jobs -> SUBSET Outcomes]
  /\ faults \in Nat
  /\ quota \in Nat

StreamsOK ==
  /\ jobs \in StreamOf(JobEntry)
  /\ results \in StreamOf(ResultEntry)
  /\ jobsDlq \subseteq Jobs
  /\ resultsDlq \subseteq Jobs

ProcessOK ==
  /\ stage \in [Processes -> WorkerStages \cup ConsumerStages]
  /\ \A w \in Workers : stage[w] \in WorkerStages
  /\ \A c \in Consumers : stage[c] \in ConsumerStages
  /\ hand \in [Processes -> SUBSET Nat]
  /\ \A w \in Workers : hand[w] \subseteq Entries(jobs)
  /\ \A c \in Consumers : hand[c] \subseteq Entries(results)
  /\ loop \in [Processes -> {"claim", "read"}]

\* No step takes anything out of a stream.
StreamsStep ==
  /\ Extends(jobs, jobs')
  /\ Extends(results, results')
  /\ jobsDlq \subseteq jobsDlq'
  /\ resultsDlq \subseteq resultsDlq'

\* A step that acknowledges at most job entry a and result entry b (0: none).
Kept(a, b) ==
  /\ StreamsOK'
  /\ StreamsStep
  /\ Unacked(jobs) \ {a} \subseteq Unacked(jobs')
  /\ Unacked(results) \ {b} \subseteq Unacked(results')

\* The type invariant is the conjunction of its three parts.
LEMMA TypeParts == TypeOK <=> StreamsOK /\ DataOK /\ ProcessOK
BY DEF TypeOK, StreamsOK, DataOK, ProcessOK

-----------------------------------------------------------------------------
(* What each Redis call does to the streams.                               *)

\* A step that touches no stream.
LEMMA StreamsIdle ==
  ASSUME StreamsOK, UNCHANGED streamVars PROVE Kept(0, 0)
BY DEF StreamsOK, streamVars, Kept, StreamsStep, Extends

\* Writing, or requeueing, a job.
LEMMA AddJob ==
  ASSUME StreamsOK, NEW x \in JobEntry, jobs' = XAdd(jobs, x),
         UNCHANGED <<results, jobsDlq, resultsDlq>>
  PROVE  /\ Kept(0, 0)
         /\ \E i \in Unacked(jobs') :
              jobs'.log[i] = x /\ \A m \in Entries(jobs) : i > m
<1>1. /\ jobs' \in StreamOf(JobEntry) /\ Extends(jobs, jobs')
      /\ Unacked(jobs') = Unacked(jobs) \cup {Len(jobs.log) + 1}
      /\ jobs'.log[Len(jobs.log) + 1] = x
  BY XAddFacts DEF StreamsOK
<1>2. \A m \in Entries(jobs) : Len(jobs.log) + 1 > m
  BY StreamFields DEF Entries, StreamsOK
<1> QED
  BY <1>1, <1>2 DEF StreamsOK, Kept, StreamsStep, Extends

\* Publishing, or retrying, a result.
LEMMA AddResult ==
  ASSUME StreamsOK, NEW x \in ResultEntry, results' = XAdd(results, x),
         UNCHANGED <<jobs, jobsDlq, resultsDlq>>
  PROVE  /\ Kept(0, 0)
         /\ \E i \in Unacked(results') :
              results'.log[i] = x /\ \A m \in Entries(results) : i > m
<1>1. /\ results' \in StreamOf(ResultEntry) /\ Extends(results, results')
      /\ Unacked(results') = Unacked(results) \cup {Len(results.log) + 1}
      /\ results'.log[Len(results.log) + 1] = x
  BY XAddFacts DEF StreamsOK
<1>2. \A m \in Entries(results) : Len(results.log) + 1 > m
  BY StreamFields DEF Entries, StreamsOK
<1> QED
  BY <1>1, <1>2 DEF StreamsOK, Kept, StreamsStep, Extends

\* Shelving an entry acknowledges nothing.
LEMMA Shelve ==
  ASSUME StreamsOK, NEW j \in Jobs, SendToJobsDlq(j) \/ SendToResultsDlq(j)
  PROVE  Kept(0, 0)
BY DEF StreamsOK, Kept, StreamsStep, Extends, SendToJobsDlq, SendToResultsDlq

\* Acknowledging a job entry.
LEMMA AckJobKeeps ==
  ASSUME StreamsOK, NEW m, AckJob(m) PROVE Kept(m, 0)
<1>1. /\ jobs' \in StreamOf(JobEntry) /\ Extends(jobs, jobs')
      /\ Unacked(jobs) \ {m} \subseteq Unacked(jobs')
  BY XAckFacts DEF StreamsOK, AckJob
<1> QED
  BY <1>1 DEF StreamsOK, Kept, StreamsStep, Extends, AckJob

\* Acknowledging a result entry.
LEMMA AckResultKeeps ==
  ASSUME StreamsOK, NEW m, AckResult(m) PROVE Kept(0, m)
<1>1. /\ results' \in StreamOf(ResultEntry) /\ Extends(results, results')
      /\ Unacked(results) \ {m} \subseteq Unacked(results')
  BY XAckFacts DEF StreamsOK, AckResult
<1> QED
  BY <1>1 DEF StreamsOK, Kept, StreamsStep, Extends, AckResult

\* Reading, claiming and waiting leave the jobs stream's obligations alone.
LEMMA PollJobs ==
  ASSUME StreamsOK, PipelineAssumption,
         \/ jobs' = XAutoClaim(jobs, BatchSize)
         \/ jobs' = XReadGroup(jobs, BatchSize)
         \/ \E i \in jobs.pending : jobs' = TurnsIdle(jobs, i),
         UNCHANGED <<results, jobsDlq, resultsDlq>>
  PROVE  Kept(0, 0)
<1>1. BatchSize \in Nat
  BY DEF PipelineAssumption
<1>2. /\ jobs' \in StreamOf(JobEntry) /\ Extends(jobs, jobs')
      /\ Unacked(jobs') = Unacked(jobs)
  BY <1>1, XAutoClaimFacts, XReadGroupFacts, TurnsIdleFacts DEF StreamsOK
<1> QED
  BY <1>2 DEF StreamsOK, Kept, StreamsStep, Extends

\* The same for the results stream.
LEMMA PollResults ==
  ASSUME StreamsOK, PipelineAssumption,
         \/ results' = XAutoClaim(results, BatchSize)
         \/ results' = XReadGroup(results, BatchSize)
         \/ \E i \in results.pending : results' = TurnsIdle(results, i),
         UNCHANGED <<jobs, jobsDlq, resultsDlq>>
  PROVE  Kept(0, 0)
<1>1. BatchSize \in Nat
  BY DEF PipelineAssumption
<1>2. /\ results' \in StreamOf(ResultEntry) /\ Extends(results, results')
      /\ Unacked(results') = Unacked(results)
  BY <1>1, XAutoClaimFacts, XReadGroupFacts, TurnsIdleFacts DEF StreamsOK
<1> QED
  BY <1>2 DEF StreamsOK, Kept, StreamsStep, Extends

-----------------------------------------------------------------------------
(* What each kind of control step does to the processes.                   *)

\* A process that only moves to another stage of its own.
LEMMA GoToTyped ==
  ASSUME ProcessOK, StreamsStep, NEW p \in Processes, NEW s, GoTo(p, s),
         p \in Workers => s \in WorkerStages,
         p \in Consumers => s \in ConsumerStages
  PROVE  ProcessOK'
<1>1. s \in WorkerStages \cup ConsumerStages
  BY DEF Processes
<1>2. stage' \in [Processes -> WorkerStages \cup ConsumerStages]
  BY <1>1 DEF GoTo, ProcessOK
<1>3. /\ \A w \in Workers : stage'[w] \in WorkerStages
      /\ \A c \in Consumers : stage'[c] \in ConsumerStages
  BY DEF GoTo, ProcessOK, Processes
<1> QED
  BY <1>2, <1>3 DEF GoTo, ProcessOK, StreamsStep, Extends

\* A process whose hand only shrinks, and which polls, starts or is down.
LEMMA DropTyped ==
  ASSUME ProcessOK, StreamsStep, NEW p \in Processes, NEW h, NEW s, NEW l,
         h \subseteq hand[p], s \in {"poll", "start", "down"}, l \in {"claim", "read"},
         hand' = [hand EXCEPT ![p] = h],
         stage' = [stage EXCEPT ![p] = s],
         loop' = [loop EXCEPT ![p] = l]
  PROVE  ProcessOK'
<1>1. s \in WorkerStages /\ s \in ConsumerStages
  BY DEF WorkerStages, ConsumerStages
<1>2. /\ stage' \in [Processes -> WorkerStages \cup ConsumerStages]
      /\ \A w \in Workers : stage'[w] \in WorkerStages
      /\ \A c \in Consumers : stage'[c] \in ConsumerStages
      /\ loop' \in [Processes -> {"claim", "read"}]
  BY <1>1 DEF ProcessOK, Processes
<1>3. h \in SUBSET Nat /\ hand' \in [Processes -> SUBSET Nat]
  BY DEF ProcessOK
<1>4. \A q \in Processes : hand'[q] \subseteq hand[q]
  BY DEF ProcessOK
<1> QED
  BY <1>2, <1>3, <1>4 DEF ProcessOK, StreamsStep, Extends, Processes

\* A worker that takes a batch of entries of the jobs stream.
LEMMA WorkerBatchTyped ==
  ASSUME ProcessOK, StreamsStep, StreamsOK', Workers \cap Consumers = {},
         NEW w \in Workers, NEW c \in {"claim", "read"}, NEW ids, TakeBatch(w, c, ids),
         ids \subseteq Entries(jobs')
  PROVE  ProcessOK'
<1>1. w \in Processes /\ w \notin Consumers
  BY DEF Processes
<1>2. /\ stage' \in [Processes -> WorkerStages \cup ConsumerStages]
      /\ \A q \in Workers : stage'[q] \in WorkerStages
      /\ \A q \in Consumers : stage'[q] \in ConsumerStages
      /\ loop' \in [Processes -> {"claim", "read"}]
  BY <1>1 DEF ProcessOK, Processes, TakeBatch, WorkerStages, ConsumerStages
<1>3. ids \in SUBSET Nat
  BY StreamFields DEF StreamsOK
<1>4. hand' \in [Processes -> SUBSET Nat]
  BY <1>1, <1>3 DEF ProcessOK, TakeBatch
<1>5. /\ \A q \in Workers : hand'[q] \subseteq Entries(jobs')
      /\ \A q \in Consumers : hand'[q] \subseteq Entries(results')
  BY <1>1 DEF ProcessOK, TakeBatch, StreamsStep, Extends, Processes
<1> QED
  BY <1>2, <1>4, <1>5 DEF ProcessOK

\* A result consumer that takes a batch of entries of the results stream.
LEMMA ConsumerBatchTyped ==
  ASSUME ProcessOK, StreamsStep, StreamsOK', Workers \cap Consumers = {},
         NEW c \in Consumers, NEW l \in {"claim", "read"}, NEW ids, TakeBatch(c, l, ids),
         ids \subseteq Entries(results')
  PROVE  ProcessOK'
<1>1. c \in Processes /\ c \notin Workers
  BY DEF Processes
<1>2. /\ stage' \in [Processes -> WorkerStages \cup ConsumerStages]
      /\ \A q \in Workers : stage'[q] \in WorkerStages
      /\ \A q \in Consumers : stage'[q] \in ConsumerStages
      /\ loop' \in [Processes -> {"claim", "read"}]
  BY <1>1 DEF ProcessOK, Processes, TakeBatch, WorkerStages, ConsumerStages
<1>3. ids \in SUBSET Nat
  BY StreamFields DEF StreamsOK
<1>4. hand' \in [Processes -> SUBSET Nat]
  BY <1>1, <1>3 DEF ProcessOK, TakeBatch
<1>5. /\ \A q \in Workers : hand'[q] \subseteq Entries(jobs')
      /\ \A q \in Consumers : hand'[q] \subseteq Entries(results')
  BY <1>1 DEF ProcessOK, TakeBatch, StreamsStep, Extends, Processes
<1> QED
  BY <1>2, <1>4, <1>5 DEF ProcessOK

\* A process that finishes the entry at hand.
LEMMA FinishTyped ==
  ASSUME ProcessOK, StreamsStep, NEW p \in Processes, NEW m, FinishEntry(p, m)
  PROVE  ProcessOK'
<1>1. PICK s \in {"poll", "start"} : stage' = [stage EXCEPT ![p] = s]
  BY DEF FinishEntry
<1>2. /\ hand' = [hand EXCEPT ![p] = hand[p] \ {m}]
      /\ loop' = [loop EXCEPT ![p] = loop[p]]
      /\ loop[p] \in {"claim", "read"}
  BY DEF FinishEntry, ProcessOK
<1>3. hand[p] \ {m} \subseteq hand[p]
  OBVIOUS
<1> QED
  BY <1>1, <1>2, <1>3, DropTyped

\* An error that escapes to the loop.
LEMMA EscapeTyped ==
  ASSUME ProcessOK, StreamsStep, NEW p \in Processes, Escape(p)
  PROVE  ProcessOK'
<1>1. PICK s \in {"poll", "start", "down"} : stage' = [stage EXCEPT ![p] = s]
  BY DEF Escape
<1>2. hand' = [hand EXCEPT ![p] = hand[p] \cap {}]
  BY DEF Escape
<1>3. /\ loop' = [loop EXCEPT ![p] = "claim"]
      /\ hand[p] \cap {} \subseteq hand[p]
  BY DEF Escape
<1> QED
  BY <1>1, <1>2, <1>3, DropTyped

\* A process at rest while another part of the system moves.
LEMMA RestTyped ==
  ASSUME ProcessOK, StreamsStep, UNCHANGED processVars
  PROVE  ProcessOK'
BY DEF ProcessOK, StreamsStep, Extends, processVars

-----------------------------------------------------------------------------
(* Every step is typed, acknowledges only at the end of a handler, and     *)
(* withdraws no outcome.                                                   *)

JobAcked(a) ==
  a = 0 \/ \E w \in Workers : First(w, a) /\ stage[w] \in {"ack", "done"}

ResultAcked(b) ==
  b = 0 \/ \E c \in Consumers : First(c, b) /\ stage[c] \in {"ack", "done"}

OutcomesGrow == \A j \in Jobs : outcome[j] \subseteq outcome'[j]

GoodStep ==
  /\ TypeOK'
  /\ OutcomesGrow
  /\ \E a, b : JobAcked(a) /\ ResultAcked(b) /\ Kept(a, b)

\* A good step from its parts; all steps but broadcasts keep the outcomes.
LEMMA GoodStepParts ==
  ASSUME ProcessOK', DataOK', OutcomesGrow,
         NEW a, NEW b, JobAcked(a), ResultAcked(b), Kept(a, b)
  PROVE  GoodStep
BY DEF GoodStep, Kept, TypeOK, StreamsOK, DataOK, ProcessOK

\* A step that changes no database row, broadcast or counter but the faults.
LEMMA DataRests ==
  ASSUME DataOK, UNCHANGED <<request, effectVars, quota>>,
         faults' = faults \/ faults' = faults + 1
  PROVE  DataOK' /\ OutcomesGrow
BY DEF DataOK, OutcomesGrow, effectVars

\* The entry a worker handles is an entry of the jobs stream.
LEMMA JobAtHand ==
  ASSUME TypeOK, NEW w \in Workers, NEW m \in hand[w]
  PROVE  /\ m \in Entries(jobs) /\ m \in Nat /\ m # 0
         /\ jobs.log[m] \in JobEntry
         /\ jobs.log[m].job \in Jobs /\ jobs.log[m].attempts \in Nat
<1>1. jobs \in StreamOf(JobEntry) /\ m \in Entries(jobs)
  BY DEF TypeOK
<1>2. m \in Nat /\ jobs.log[m] \in JobEntry /\ Len(jobs.log) \in Nat
  BY <1>1, StreamFields
<1> QED
  BY <1>1, <1>2 DEF Entries, JobEntry

\* The entry a result consumer handles is an entry of the results stream.
LEMMA ResultAtHand ==
  ASSUME TypeOK, NEW c \in Consumers, NEW m \in hand[c]
  PROVE  /\ m \in Entries(results) /\ m \in Nat /\ m # 0
         /\ results.log[m] \in ResultEntry
         /\ results.log[m].job \in Jobs /\ results.log[m].attempts \in Nat
         /\ results.log[m].ok \in BOOLEAN
<1>1. results \in StreamOf(ResultEntry) /\ m \in Entries(results)
  BY DEF TypeOK
<1>2. m \in Nat /\ results.log[m] \in ResultEntry /\ Len(results.log) \in Nat
  BY <1>1, StreamFields
<1> QED
  BY <1>1, <1>2 DEF Entries, ResultEntry

\* What the worker's Redis call does to the streams, completed or not.
LEMMA WorkerCallKept ==
  ASSUME TypeOK, NEW w \in Workers, NEW m \in hand[w], First(w, m),
         WorkerCall(w, m) \/ UNCHANGED streamVars
  PROVE  \E a : JobAcked(a) /\ Kept(a, 0)
<1>1. StreamsOK /\ jobs.log[m].job \in Jobs /\ jobs.log[m].attempts \in Nat
  BY TypeParts, JobAtHand
<1> DEFINE e == jobs.log[m]
<1>2. CASE UNCHANGED streamVars
  BY <1>1, <1>2, StreamsIdle DEF JobAcked
<1>3. CASE SendToJobsDlq(e.job)
  BY <1>1, <1>3, Shelve DEF JobAcked
<1>4. ASSUME NEW ok \in BOOLEAN, NEW n \in Nat, PublishResult(e, ok, n)
      PROVE  Kept(0, 0)
  <2>1. [job |-> e.job, ok |-> ok, attempts |-> n] \in ResultEntry
    BY <1>1 DEF ResultEntry
  <2> QED
    BY <1>1, <1>4, <2>1, AddResult DEF PublishResult
<1>5. ReportedAttempts(e, e.attempts) \in Nat /\ ReportedAttempts(e, e.attempts + 1) \in Nat
  BY <1>1 DEF ReportedAttempts
<1>6. CASE RequeueJob(e)
  <2>1. [job |-> e.job, attempts |-> e.attempts + 1] \in JobEntry
    BY <1>1 DEF JobEntry
  <2> QED
    BY <1>1, <1>6, <2>1, AddJob DEF RequeueJob, JobAcked
<1>7. CASE stage[w] \in {"ack", "done"} /\ AckJob(m)
  BY <1>1, <1>7, AckJobKeeps DEF JobAcked
<1> QED
  <2>1. JobAcked(0)
    BY DEF JobAcked
  <2> QED
    BY <1>2, <1>3, <1>4, <1>5, <1>6, <1>7, <2>1 DEF WorkerCall

\* The stage a worker enters after an error it handles is one of a worker's.
LEMMA WorkerHandlesErrorTyped ==
  ASSUME ProcessOK, StreamsStep, PipelineAssumption, NEW w \in Workers, NEW m,
         NEW q, WorkerHandlesError(w, m, q)
  PROVE  /\ ProcessOK'
         /\ \E s \in {"requeue", "publishFailed"} : GoTo(w, s)
<1>1. PICK s \in {"requeue", "publishFailed"} : GoTo(w, s)
  BY DEF WorkerHandlesError
<1>2. w \in Processes /\ w \notin Consumers /\ s \in WorkerStages
  BY DEF Processes, PipelineAssumption, WorkerStages
<1> QED
  BY <1>1, <1>2, GoToTyped

\* The same for a result consumer.
LEMMA ConsumerHandlesErrorTyped ==
  ASSUME ProcessOK, StreamsStep, PipelineAssumption, NEW c \in Consumers, NEW m,
         ConsumerHandlesError(c, m)
  PROVE  /\ ProcessOK'
         /\ \E s \in {"dlq", "retry"} : GoTo(c, s)
<1>1. PICK s \in {"dlq", "retry"} : GoTo(c, s)
  BY DEF ConsumerHandlesError
<1>2. c \in Processes /\ c \notin Workers /\ s \in ConsumerStages
  BY DEF Processes, PipelineAssumption, ConsumerStages
<1> QED
  BY <1>1, <1>2, GoToTyped

\* What the consumer's Redis call does to the streams, completed or not.
LEMMA ConsumerCallKept ==
  ASSUME TypeOK, NEW c \in Consumers, NEW m \in hand[c], First(c, m),
         ConsumerCall(c, m) \/ UNCHANGED streamVars
  PROVE  \E b : ResultAcked(b) /\ Kept(0, b)
<1> DEFINE r == results.log[m]
<1>1. /\ StreamsOK /\ r.job \in Jobs /\ r.attempts \in Nat /\ r.ok \in BOOLEAN
      /\ ResultAcked(0)
  BY TypeParts, ResultAtHand DEF ResultAcked
<1>2. CASE UNCHANGED streamVars
  BY <1>1, <1>2, StreamsIdle
<1>3. CASE SendToResultsDlq(r.job)
  BY <1>1, <1>3, Shelve
<1>4. CASE RetryResult(m)
  <2>1. [job |-> r.job, ok |-> r.ok, attempts |-> r.attempts + 1] \in ResultEntry
    BY <1>1 DEF ResultEntry
  <2> QED
    BY <1>1, <1>4, <2>1, AddResult DEF RetryResult
<1>5. CASE stage[c] \in {"ack", "done"} /\ AckResult(m)
  BY <1>1, <1>5, AckResultKeeps DEF ResultAcked
<1> QED
  BY <1>2, <1>3, <1>4, <1>5 DEF ConsumerCall

\* Submitting a job.
LEMMA SubmissionGood ==
  ASSUME TypeOK, NEW j \in Jobs, SaveRequest(j) \/ Enqueue(j) \/ EnqueueFails(j)
  PROVE  GoodStep
<1>1. StreamsOK /\ DataOK /\ ProcessOK /\ JobAcked(0) /\ ResultAcked(0)
  BY TypeParts DEF JobAcked, ResultAcked
<1>2. DataOK' /\ OutcomesGrow
  BY <1>1 DEF DataOK, OutcomesGrow, SaveRequest, Enqueue, EnqueueFails, effectVars, Fault
<1>3. Kept(0, 0)
  <2>1. [job |-> j, attempts |-> 0] \in JobEntry
    BY DEF JobEntry
  <2>2. CASE Push(j) /\ UNCHANGED <<results, jobsDlq, resultsDlq>>
    BY <1>1, <2>1, <2>2, AddJob DEF Push
  <2>3. CASE UNCHANGED streamVars
    BY <1>1, <2>3, StreamsIdle
  <2> QED
    BY <2>2, <2>3 DEF SaveRequest, Enqueue, EnqueueFails, streamVars
<1>4. UNCHANGED processVars
  BY DEF SaveRequest, Enqueue, EnqueueFails
<1>5. ProcessOK'
  BY <1>1, <1>3, <1>4, RestTyped DEF Kept
<1> QED
  BY <1>1, <1>2, <1>3, <1>5, GoodStepParts

\* Claiming and reading by a worker.
LEMMA WorkerPollGood ==
  ASSUME TypeOK, PipelineAssumption, NEW w \in Workers,
         WorkerClaims(w) \/ WorkerReads(w)
  PROVE  GoodStep
<1>1. StreamsOK /\ DataOK /\ ProcessOK /\ JobAcked(0) /\ ResultAcked(0)
  BY TypeParts DEF JobAcked, ResultAcked
<1>2. DataOK' /\ OutcomesGrow
  BY <1>1, DataRests DEF WorkerClaims, WorkerReads
<1>3. Kept(0, 0)
  BY <1>1, PollJobs DEF WorkerClaims, WorkerReads
<1>4. BatchSize \in Nat /\ Workers \cap Consumers = {}
  BY DEF PipelineAssumption
<1>5. \E k \in {"claim", "read"}, ids \in SUBSET Entries(jobs') : TakeBatch(w, k, ids)
  <2>1. CASE WorkerClaims(w)
    <3>1. IdleEntries(jobs, BatchSize) \subseteq Entries(jobs')
      BY <1>1, <2>1, XAutoClaimFacts DEF WorkerClaims, StreamsOK
    <3> QED
      BY <2>1, <3>1 DEF WorkerClaims
  <2>2. CASE WorkerReads(w)
    <3>1. NewEntries(jobs, BatchSize) \subseteq Entries(jobs')
      BY <1>1, <1>4, <2>2, XReadGroupFacts DEF WorkerReads, StreamsOK
    <3> QED
      BY <2>2, <3>1 DEF WorkerReads
  <2> QED
    BY <2>1, <2>2
<1>6. ProcessOK'
  BY <1>1, <1>3, <1>4, <1>5, WorkerBatchTyped DEF Kept
<1> QED
  BY <1>1, <1>2, <1>3, <1>6, GoodStepParts

\* Claiming and reading by a result consumer.
LEMMA ConsumerPollGood ==
  ASSUME TypeOK, PipelineAssumption, NEW c \in Consumers,
         ConsumerClaims(c) \/ ConsumerReads(c)
  PROVE  GoodStep
<1>1. StreamsOK /\ DataOK /\ ProcessOK /\ JobAcked(0) /\ ResultAcked(0)
  BY TypeParts DEF JobAcked, ResultAcked
<1>2. DataOK' /\ OutcomesGrow
  BY <1>1, DataRests DEF ConsumerClaims, ConsumerReads
<1>3. Kept(0, 0)
  BY <1>1, PollResults DEF ConsumerClaims, ConsumerReads
<1>4. BatchSize \in Nat /\ Workers \cap Consumers = {}
  BY DEF PipelineAssumption
<1>5. \E k \in {"claim", "read"}, ids \in SUBSET Entries(results') : TakeBatch(c, k, ids)
  <2>1. CASE ConsumerClaims(c)
    <3>1. IdleEntries(results, BatchSize) \subseteq Entries(results')
      BY <1>1, <2>1, XAutoClaimFacts DEF ConsumerClaims, StreamsOK
    <3> QED
      BY <2>1, <3>1 DEF ConsumerClaims
  <2>2. CASE ConsumerReads(c)
    <3>1. NewEntries(results, BatchSize) \subseteq Entries(results')
      BY <1>1, <1>4, <2>2, XReadGroupFacts DEF ConsumerReads, StreamsOK
    <3> QED
      BY <2>2, <3>1 DEF ConsumerReads
  <2> QED
    BY <2>1, <2>2
<1>6. ProcessOK'
  BY <1>1, <1>3, <1>4, <1>5, ConsumerBatchTyped DEF Kept
<1> QED
  BY <1>1, <1>2, <1>3, <1>6, GoodStepParts

\* A worker's LLM step ends in a stage from which nothing was acknowledged.
LEMMA WorkerLlm ==
  ASSUME TypeOK, PipelineAssumption, NEW w \in Workers, NEW m \in hand[w],
         LlmSucceeds(w, m) \/ LlmFails(w, m) \/ LlmQuotaError(w, m)
  PROVE  /\ GoodStep
         /\ \E s \in {"publish", "requeue", "publishFailed"} : GoTo(w, s)
<1>1. StreamsOK /\ DataOK /\ ProcessOK /\ JobAcked(0) /\ ResultAcked(0)
  BY TypeParts DEF JobAcked, ResultAcked
<1>2. DataOK' /\ OutcomesGrow
  <2>1. /\ UNCHANGED <<request, effects, outcome, faults>>
        /\ quota' = quota \/ quota' = quota + 1
    BY DEF effectVars, LlmSucceeds, LlmFails, LlmQuotaError
  <2> QED
    BY <1>1, <2>1 DEF DataOK, OutcomesGrow
<1>3. Kept(0, 0)
  BY <1>1, StreamsIdle DEF LlmSucceeds, LlmFails, LlmQuotaError
<1>4. w \in Processes /\ w \notin Consumers /\ "publish" \in WorkerStages
  BY DEF Processes, PipelineAssumption, WorkerStages
<1>5. /\ ProcessOK'
      /\ \E s \in {"publish", "requeue", "publishFailed"} : GoTo(w, s)
  <2>1. CASE LlmSucceeds(w, m)
    BY <1>1, <1>3, <1>4, <2>1, GoToTyped DEF Kept, LlmSucceeds
  <2>2. CASE LlmFails(w, m) \/ LlmQuotaError(w, m)
    BY <1>1, <1>3, <2>2, WorkerHandlesErrorTyped DEF Kept, LlmFails, LlmQuotaError
  <2> QED
    BY <2>1, <2>2
<1> QED
  BY <1>1, <1>2, <1>3, <1>5, GoodStepParts

\* A worker's Redis call that returns.
LEMMA WorkerCallsGood ==
  ASSUME TypeOK, PipelineAssumption, NEW w \in Workers, NEW m \in hand[w],
         First(w, m), WorkerCalls(w, m)
  PROVE  GoodStep
<1>1. StreamsOK /\ DataOK /\ ProcessOK /\ ResultAcked(0)
  BY TypeParts DEF ResultAcked
<1>2. DataOK' /\ OutcomesGrow
  BY <1>1, DataRests DEF WorkerCalls
<1>3. PICK a : JobAcked(a) /\ Kept(a, 0)
  BY WorkerCallKept DEF WorkerCalls
<1>4. w \in Processes /\ w \notin Consumers /\ {"ack", "dlq", "done"} \subseteq WorkerStages
  BY DEF Processes, PipelineAssumption, WorkerStages
<1>5. ProcessOK'
  <2>1. CASE FinishEntry(w, m)
    BY <1>1, <1>3, <1>4, <2>1, FinishTyped DEF Kept
  <2>2. ASSUME NEW s \in {"ack", "dlq", "done"}, GoTo(w, s) PROVE ProcessOK'
    BY <1>1, <1>3, <1>4, <2>2, GoToTyped DEF Kept
  <2> QED
    BY <2>1, <2>2 DEF WorkerCalls, AfterWorkerCall
<1> QED
  BY <1>1, <1>2, <1>3, <1>5, GoodStepParts

\* A worker's Redis call that throws: no stage with an obligation is entered.
LEMMA WorkerCallFailsGood ==
  ASSUME TypeOK, PipelineAssumption, NEW w \in Workers, NEW m \in hand[w],
         First(w, m), WorkerCallFails(w, m)
  PROVE  /\ GoodStep
         /\ \/ \E s \in {"requeue", "publishFailed"} : GoTo(w, s)
            \/ Escape(w)
<1>1. StreamsOK /\ DataOK /\ ProcessOK /\ ResultAcked(0) /\ w \in Processes
  BY TypeParts DEF ResultAcked, Processes
<1>2. DataOK' /\ OutcomesGrow
  BY <1>1, DataRests DEF WorkerCallFails, Fault
<1>3. PICK a : JobAcked(a) /\ Kept(a, 0)
  BY WorkerCallKept DEF WorkerCallFails
<1>4. /\ ProcessOK'
      /\ \/ \E s \in {"requeue", "publishFailed"} : GoTo(w, s)
         \/ Escape(w)
  <2>1. CASE WorkerHandlesError(w, m, FALSE)
    BY <1>1, <1>3, <2>1, WorkerHandlesErrorTyped DEF Kept
  <2>2. CASE Escape(w)
    BY <1>1, <1>3, <2>2, EscapeTyped DEF Kept
  <2> QED
    BY <2>1, <2>2 DEF WorkerCallFails
<1> QED
  BY <1>1, <1>2, <1>3, <1>4, GoodStepParts

\* The steps of a result handler and of handleProcessingFailure that touch no
\* stream.
LEMMA HandlerGood ==
  ASSUME TypeOK, PipelineAssumption, NEW c \in Consumers, NEW m \in hand[c],
         \/ ApplyResult(c, m) \/ SettleResult(c, m) \/ EmptyPlan(c, m)
         \/ ReportFailedResult(c, m) \/ HandlerRejects(c, m)
         \/ HandlerFails(c, m) \/ ReportExhausted(c, m)
  PROVE  GoodStep
<1> DEFINE j == results.log[m].job
<1>1. /\ StreamsOK /\ DataOK /\ ProcessOK /\ JobAcked(0) /\ ResultAcked(0)
      /\ j \in Jobs
  BY TypeParts, ResultAtHand DEF JobAcked, ResultAcked
<1>2. Kept(0, 0)
  BY <1>1, StreamsIdle DEF ApplyResult, SettleResult, EmptyPlan, ReportFailedResult,
     HandlerRejects, HandlerFails, ReportExhausted
<1>3. effects' = effects \/ effects' = [effects EXCEPT ![j] = @ + 1]
  BY DEF ApplyResult, SettleResult, EmptyPlan, ReportFailedResult,
     HandlerRejects, HandlerFails, ReportExhausted, effectVars
<1>4. \/ outcome' = outcome
      \/ \E o \in Outcomes :
           outcome' = [outcome EXCEPT ![j] = @ \cup {o}]
  BY DEF ApplyResult, SettleResult, EmptyPlan, ReportFailedResult,
     HandlerRejects, HandlerFails, ReportExhausted, effectVars, EndsWith, Outcomes
<1>5. /\ request' = request /\ quota' = quota
      /\ faults' = faults \/ faults' = faults + 1
  BY DEF ApplyResult, SettleResult, EmptyPlan, ReportFailedResult,
     HandlerRejects, HandlerFails, ReportExhausted, Fault
<1>6. effects' \in [Jobs -> Nat]
  BY <1>1, <1>3 DEF DataOK
<1>7. outcome' \in [Jobs -> SUBSET Outcomes] /\ OutcomesGrow
  <2>1. outcome \in [Jobs -> SUBSET Outcomes]
    BY <1>1 DEF DataOK
  <2>2. CASE outcome' = outcome
    BY <2>1, <2>2 DEF OutcomesGrow
  <2>3. ASSUME NEW o \in Outcomes,
               outcome' = [outcome EXCEPT ![j] = @ \cup {o}]
        PROVE  outcome' \in [Jobs -> SUBSET Outcomes] /\ OutcomesGrow
    BY <1>1, <2>1, <2>3 DEF OutcomesGrow
  <2> QED
    BY <1>4, <2>2, <2>3
<1>8. DataOK'
  BY <1>1, <1>5, <1>6, <1>7 DEF DataOK
<1>9. ProcessOK'
  <2>1. CASE ConsumerHandlesError(c, m)
    BY <1>1, <1>2, <2>1, ConsumerHandlesErrorTyped DEF Kept
  <2>2. ASSUME NEW s \in {"settle", "ack", "done"}, GoTo(c, s) PROVE ProcessOK'
    <3>1. c \in Processes /\ c \notin Workers /\ s \in ConsumerStages
      BY DEF Processes, PipelineAssumption, ConsumerStages
    <3> QED
      BY <1>1, <1>2, <2>2, <3>1, GoToTyped DEF Kept
  <2> QED
    BY <2>1, <2>2 DEF ApplyResult, SettleResult, EmptyPlan, ReportFailedResult,
       HandlerRejects, HandlerFails, ReportExhausted
<1> QED
  BY <1>1, <1>2, <1>7, <1>8, <1>9, GoodStepParts

\* A result consumer's Redis call that returns.
LEMMA ConsumerCallsGood ==
  ASSUME TypeOK, PipelineAssumption, NEW c \in Consumers, NEW m \in hand[c],
         First(c, m), ConsumerCalls(c, m)
  PROVE  GoodStep
<1>1. StreamsOK /\ DataOK /\ ProcessOK /\ JobAcked(0)
  BY TypeParts DEF JobAcked
<1>2. DataOK' /\ OutcomesGrow
  BY <1>1, DataRests DEF ConsumerCalls
<1>3. PICK b : ResultAcked(b) /\ Kept(0, b)
  BY ConsumerCallKept DEF ConsumerCalls
<1>4. c \in Processes /\ c \notin Workers /\ {"report", "done"} \subseteq ConsumerStages
  BY DEF Processes, PipelineAssumption, ConsumerStages
<1>5. ProcessOK'
  <2>1. CASE FinishEntry(c, m)
    BY <1>1, <1>3, <1>4, <2>1, FinishTyped DEF Kept
  <2>2. ASSUME NEW s \in {"report", "done"}, GoTo(c, s) PROVE ProcessOK'
    BY <1>1, <1>3, <1>4, <2>2, GoToTyped DEF Kept
  <2> QED
    BY <2>1, <2>2 DEF ConsumerCalls
<1> QED
  BY <1>1, <1>2, <1>3, <1>5, GoodStepParts

\* A result consumer's Redis call that throws.
LEMMA ConsumerCallFailsGood ==
  ASSUME TypeOK, PipelineAssumption, NEW c \in Consumers, NEW m \in hand[c],
         First(c, m), ConsumerCallFails(c, m)
  PROVE  GoodStep
<1>1. StreamsOK /\ DataOK /\ ProcessOK /\ JobAcked(0) /\ c \in Processes
  BY TypeParts DEF JobAcked, Processes
<1>2. DataOK' /\ OutcomesGrow
  BY <1>1, DataRests DEF ConsumerCallFails, Fault
<1>3. PICK b : ResultAcked(b) /\ Kept(0, b)
  BY ConsumerCallKept DEF ConsumerCallFails
<1>4. ProcessOK'
  <2>1. CASE ConsumerHandlesError(c, m)
    BY <1>1, <1>3, <2>1, ConsumerHandlesErrorTyped DEF Kept
  <2>2. CASE Escape(c)
    BY <1>1, <1>3, <2>2, EscapeTyped DEF Kept
  <2> QED
    BY <2>1, <2>2 DEF ConsumerCallFails
<1> QED
  BY <1>1, <1>2, <1>3, <1>4, GoodStepParts

\* Time, failed polls, crashes and restarts.
LEMMA EnvironmentGood ==
  ASSUME TypeOK, PipelineAssumption,
         \/ \E i \in jobs.pending : JobTurnsIdle(i)
         \/ \E i \in results.pending : ResultTurnsIdle(i)
         \/ \E p \in Processes : PollFails(p) \/ Crash(p) \/ Restart(p)
  PROVE  /\ GoodStep
         /\ \/ UNCHANGED <<stage, hand>>
            \/ \E p \in Processes : \/ Escape(p)
                                    \/ /\ stage' = [stage EXCEPT ![p] = "down"]
                                       /\ hand' = [hand EXCEPT ![p] = {}]
                                    \/ GoTo(p, "poll")
<1>1. StreamsOK /\ DataOK /\ ProcessOK /\ JobAcked(0) /\ ResultAcked(0)
  BY TypeParts DEF JobAcked, ResultAcked
<1>2. DataOK' /\ OutcomesGrow
  BY <1>1, DataRests DEF JobTurnsIdle, ResultTurnsIdle, PollFails, Crash, Restart, Fault
<1>3. Kept(0, 0)
  <2>1. CASE UNCHANGED streamVars
    BY <1>1, <2>1, StreamsIdle
  <2>2. CASE /\ \/ jobs' = XAutoClaim(jobs, BatchSize)
                \/ jobs' = XReadGroup(jobs, BatchSize)
                \/ \E i \in jobs.pending : jobs' = TurnsIdle(jobs, i)
             /\ UNCHANGED <<results, jobsDlq, resultsDlq>>
    BY <1>1, <2>2, PollJobs
  <2>3. CASE /\ \/ results' = XAutoClaim(results, BatchSize)
                \/ results' = XReadGroup(results, BatchSize)
                \/ \E i \in results.pending : results' = TurnsIdle(results, i)
             /\ UNCHANGED <<jobs, jobsDlq, resultsDlq>>
    BY <1>1, <2>3, PollResults
  <2> QED
    BY <2>1, <2>2, <2>3 DEF JobTurnsIdle, ResultTurnsIdle, PollFails, Crash, Restart
<1>4. CASE UNCHANGED processVars
  <2>1. ProcessOK'
    BY <1>1, <1>3, <1>4, RestTyped DEF Kept
  <2> QED
    BY <1>1, <1>2, <1>3, <1>4, <2>1, GoodStepParts DEF processVars
<1>5. ASSUME NEW p \in Processes, Escape(p)
      PROVE  GoodStep
  BY <1>1, <1>2, <1>3, <1>5, EscapeTyped, GoodStepParts DEF Kept
<1>6. ASSUME NEW p \in Processes, Crash(p)
      PROVE  /\ GoodStep
             /\ stage' = [stage EXCEPT ![p] = "down"]
             /\ hand' = [hand EXCEPT ![p] = {}]
  <2>1. /\ stage' = [stage EXCEPT ![p] = "down"]
        /\ hand' = [hand EXCEPT ![p] = hand[p] \cap {}]
        /\ loop' = [loop EXCEPT ![p] = "claim"]
        /\ hand[p] \cap {} \subseteq hand[p]
    BY <1>6 DEF Crash
  <2>2. ProcessOK'
    BY <1>1, <1>3, <2>1, DropTyped DEF Kept
  <2> QED
    BY <1>1, <1>2, <1>3, <1>6, <2>2, GoodStepParts DEF Crash
<1>7. ASSUME NEW p \in Processes, GoTo(p, "poll")
      PROVE  GoodStep
  <2>1. "poll" \in WorkerStages /\ "poll" \in ConsumerStages
    BY DEF WorkerStages, ConsumerStages
  <2>2. ProcessOK'
    BY <1>1, <1>3, <1>7, <2>1, GoToTyped DEF Kept
  <2> QED
    BY <1>1, <1>2, <1>3, <2>2, GoodStepParts
<1> QED
  BY <1>4, <1>5, <1>6, <1>7 DEF JobTurnsIdle, ResultTurnsIdle, PollFails, Restart

\* Every step is a good one.
LEMMA NextGood ==
  ASSUME TypeOK, PipelineAssumption, Next
  PROVE  GoodStep
<1>1. ASSUME NEW j \in Jobs, SaveRequest(j) \/ Enqueue(j) \/ EnqueueFails(j)
      PROVE  GoodStep
  BY <1>1, SubmissionGood
<1>2. ASSUME NEW w \in Workers, WorkerStep(w)
      PROVE  GoodStep
  BY <1>2, WorkerPollGood, WorkerLlm, WorkerCallsGood DEF WorkerStep
<1>3. ASSUME NEW w \in Workers, NEW m \in hand[w], First(w, m), WorkerCallFails(w, m)
      PROVE  GoodStep
  BY <1>3, WorkerCallFailsGood
<1>4. ASSUME NEW c \in Consumers, ConsumerStep(c)
      PROVE  GoodStep
  BY <1>4, ConsumerPollGood, HandlerGood, ConsumerCallsGood DEF ConsumerStep
<1>5. ASSUME NEW c \in Consumers, NEW m \in hand[c], First(c, m),
             HandlerFails(c, m) \/ ConsumerCallFails(c, m)
      PROVE  GoodStep
  BY <1>5, HandlerGood, ConsumerCallFailsGood
<1> QED
  BY <1>1, <1>2, <1>3, <1>4, <1>5, EnvironmentGood DEF Next

\* The initial state is typed.
LEMMA InitTyped == Init => TypeOK
<1> SUFFICES ASSUME Init PROVE TypeOK
  OBVIOUS
<1>1. StreamsOK
  BY EmptyStreamType DEF Init, StreamsOK
<1>2. DataOK
  BY DEF Init, DataOK
<1>3. ProcessOK
  BY DEF Init, ProcessOK, Processes, WorkerStages, ConsumerStages
<1> QED
  BY <1>1, <1>2, <1>3, TypeParts

\* A step that changes no variable keeps the types.
LEMMA StutterTyped == TypeOK /\ UNCHANGED vars => TypeOK'
BY DEF TypeOK, vars, streamVars, processVars, effectVars

(***************************************************************************)
(* Type correctness: both streams stay well formed, and every entry a      *)
(* process holds in memory is an entry of the stream it consumes.          *)
(***************************************************************************)
THEOREM TypeCorrect == Spec => []TypeOK
<1>1. TypeOK /\ [Next]_vars => TypeOK'
  BY NextGood, StutterTyped, PipelineAssumption DEF GoodStep
<1> QED
  BY InitTyped, <1>1, PTL DEF Spec

-----------------------------------------------------------------------------
(* No job is lost.                                                         *)

\* What keeps a job passed on in the state before a good step keeps it passed
\* on after the step, whichever entries the step acknowledges.
LEMMA PassedOnKept ==
  ASSUME TypeOK, WorkerPassesOn, ConsumerPassesOn, OutcomesGrow,
         NEW a, NEW b, JobAcked(a), ResultAcked(b), Kept(a, b)
  PROVE  /\ \A j \in Jobs : Settled(j) => Settled(j)'
         /\ \A m \in Entries(jobs) : PassedOn(m) => PassedOn(m)'
         /\ \A m \in Entries(results) : ResultPassedOn(m) => ResultPassedOn(m)'
         /\ \A j \in Jobs : Carried(j) => Carried(j)' \/ Settled(j)'
<1>1. /\ \A i \in Entries(jobs) : i \in Nat /\ jobs.log[i].job \in Jobs
      /\ \A i \in Entries(results) : i \in Nat /\ results.log[i].job \in Jobs
  <2>1. jobs \in StreamOf(JobEntry) /\ results \in StreamOf(ResultEntry)
    BY DEF TypeOK
  <2>2. /\ \A i \in Entries(jobs) : i \in Nat /\ jobs.log[i] \in JobEntry
        /\ \A i \in Entries(results) : i \in Nat /\ results.log[i] \in ResultEntry
    BY <2>1, StreamFields
  <2> QED
    BY <2>2 DEF JobEntry, ResultEntry
<1>2. ASSUME NEW j \in Jobs, Settled(j) PROVE Settled(j)'
  <2>1. /\ jobsDlq \subseteq jobsDlq' /\ resultsDlq \subseteq resultsDlq'
        /\ outcome[j] \subseteq outcome'[j]
    BY DEF OutcomesGrow, Kept, StreamsStep
  <2> QED
    BY <1>2, <2>1 DEF Settled
<1>3. a # 0 => a \in Entries(jobs) /\ PassedOn(a)
  BY DEF JobAcked, WorkerPassesOn, WorkerDuty, First, TypeOK
<1>4. b # 0 => b \in Entries(results) /\ ResultPassedOn(b)
  BY DEF ResultAcked, ConsumerPassesOn, ConsumerDuty, First, TypeOK,
         ResultPassedOn, Settled
<1>5. /\ Unacked(jobs) \subseteq Entries(jobs)
      /\ Unacked(results) \subseteq Entries(results)
  BY DEF Unacked
<1>0. /\ \A k \in Unacked(jobs') : k \in Nat
      /\ \A k \in Unacked(results') : k \in Nat
  BY DEF Unacked, Entries
<1>6. /\ \A i \in Entries(jobs) : jobs'.log[i] = jobs.log[i]
      /\ \A i \in Entries(results) : results'.log[i] = results.log[i]
      /\ Unacked(jobs) \ {a} \subseteq Unacked(jobs')
      /\ Unacked(results) \ {b} \subseteq Unacked(results')
  BY DEF Kept, StreamsStep, Extends
<1>7. ASSUME NEW i \in Unacked(results)
      PROVE  \/ \E k \in Unacked(results') :
                  k >= i /\ results'.log[k].job = results.log[i].job
             \/ Settled(results.log[i].job)'
  <2>1. CASE i # b
    BY <1>1, <1>5, <1>6, <2>1
  <2>2. CASE i = b
    <3>1. b # 0 \/ Settled(results.log[i].job)
      BY <1>1, <1>5, <2>2, StreamFields DEF Entries, TypeOK
    <3> QED
      BY <1>1, <1>2, <1>4, <1>5, <1>6, <2>2, <3>1 DEF ResultPassedOn
  <2> QED
    BY <2>1, <2>2
<1>8. ASSUME NEW i \in Unacked(jobs)
      PROVE  \/ \E k \in Unacked(jobs') :
                  k >= i /\ jobs'.log[k].job = jobs.log[i].job
             \/ \E k \in Unacked(results') : results'.log[k].job = jobs.log[i].job
             \/ Settled(jobs.log[i].job)'
  <2>1. CASE i # a
    BY <1>1, <1>5, <1>6, <2>1
  <2>2. CASE i = a
    <3>1. a # 0
      BY <1>5, <2>2, StreamFields DEF Entries, TypeOK
    <3> QED
      BY <1>1, <1>2, <1>3, <1>5, <1>6, <1>7, <2>2, <3>1 DEF PassedOn
  <2> QED
    BY <2>1, <2>2
<1>9. ASSUME NEW m \in Entries(results), ResultPassedOn(m) PROVE ResultPassedOn(m)'
  <2>1. results'.log[m].job = results.log[m].job
    BY <1>6
  <2>2. CASE Settled(results.log[m].job)
    BY <1>1, <1>2, <2>1, <2>2 DEF ResultPassedOn
  <2>3. ASSUME NEW i \in Unacked(results), i > m,
               results.log[i].job = results.log[m].job
        PROVE  ResultPassedOn(m)'
    <3>1. CASE Settled(results.log[i].job)'
      BY <1>5, <1>6, <2>1, <2>3, <3>1 DEF ResultPassedOn
    <3>2. ASSUME NEW k \in Unacked(results'), k >= i,
                 results'.log[k].job = results.log[i].job
          PROVE  ResultPassedOn(m)'
      <4>1. k > m
        BY <1>0, <1>1, <1>5, <2>3, <3>2
      <4> QED
        BY <2>1, <2>3, <3>2, <4>1 DEF ResultPassedOn
    <3> QED
      BY <1>7, <3>1, <3>2
  <2> QED
    BY <1>9, <2>2, <2>3 DEF ResultPassedOn
<1>10. ASSUME NEW m \in Entries(jobs), PassedOn(m) PROVE PassedOn(m)'
  <2>1. jobs'.log[m].job = jobs.log[m].job
    BY <1>6
  <2>2. CASE Settled(jobs.log[m].job)
    BY <1>1, <1>2, <2>1, <2>2 DEF PassedOn
  <2>3. ASSUME NEW i \in Unacked(results), results.log[i].job = jobs.log[m].job
        PROVE  PassedOn(m)'
    BY <1>5, <1>6, <1>7, <2>1, <2>3 DEF PassedOn
  <2>4. ASSUME NEW i \in Unacked(jobs), i > m, jobs.log[i].job = jobs.log[m].job
        PROVE  PassedOn(m)'
    <3>1. CASE \/ \E k \in Unacked(results') : results'.log[k].job = jobs.log[i].job
               \/ Settled(jobs.log[i].job)'
      BY <1>5, <1>6, <2>1, <2>4, <3>1 DEF PassedOn
    <3>2. ASSUME NEW k \in Unacked(jobs'), k >= i, jobs'.log[k].job = jobs.log[i].job
          PROVE  PassedOn(m)'
      <4>1. k > m
        BY <1>0, <1>1, <1>5, <2>4, <3>2
      <4> QED
        BY <2>1, <2>4, <3>2, <4>1 DEF PassedOn
    <3> QED
      BY <1>8, <3>1, <3>2
  <2> QED
    BY <1>10, <2>2, <2>3, <2>4 DEF PassedOn
<1>11. ASSUME NEW j \in Jobs, Carried(j) PROVE Carried(j)' \/ Settled(j)'
  <2>1. CASE \E i \in Unacked(jobs) : jobs.log[i].job = j
    BY <1>5, <1>6, <1>8, <2>1 DEF Carried
  <2>2. CASE \E i \in Unacked(results) : results.log[i].job = j
    BY <1>5, <1>6, <1>7, <2>2 DEF Carried
  <2> QED
    BY <1>11, <2>1, <2>2 DEF Carried
<1> QED
  BY <1>2, <1>9, <1>10, <1>11

\* Only process p moves.
OnlyMoves(p) ==
  \A q \in Processes \ {p} : stage'[q] = stage[q] /\ hand'[q] = hand[q]

\* The obligations of a process that does not move survive a good step.
LEMMA QuietKept ==
  ASSUME IInv, GoodStep, NEW q \in Processes, stage'[q] = stage[q], hand'[q] = hand[q]
  PROVE  /\ q \in Workers => WorkerDuty(q)'
         /\ q \in Consumers => ConsumerDuty(q)'
<1>1. PICK a, b : JobAcked(a) /\ ResultAcked(b) /\ Kept(a, b)
  BY DEF GoodStep
<1>2. TypeOK /\ WorkerPassesOn /\ ConsumerPassesOn /\ OutcomesGrow
  BY DEF IInv, GoodStep
<1>3. /\ \A m \in Entries(jobs) : PassedOn(m) => PassedOn(m)'
      /\ \A m \in Entries(results) : ResultPassedOn(m) => ResultPassedOn(m)'
  BY <1>1, <1>2, PassedOnKept
<1>4. ASSUME q \in Workers PROVE WorkerDuty(q)'
  <2>1. hand[q] \subseteq Entries(jobs) /\ WorkerDuty(q)
    BY <1>2, <1>4 DEF TypeOK, WorkerPassesOn
  <2> QED
    BY <1>3, <2>1 DEF WorkerDuty, First
<1>5. ASSUME q \in Consumers PROVE ConsumerDuty(q)'
  <2>1. hand[q] \subseteq Entries(results) /\ ConsumerDuty(q)
    BY <1>2, <1>5 DEF TypeOK, ConsumerPassesOn
  <2>2. \A m \in Entries(results) : /\ results'.log[m] = results.log[m]
                                    /\ results.log[m].job \in Jobs
    <3>1. results \in StreamOf(ResultEntry)
      BY <1>2 DEF TypeOK
    <3>2. \A m \in Entries(results) : results.log[m] \in ResultEntry
      BY <3>1, StreamFields
    <3> QED
      BY <1>1, <3>2 DEF Kept, StreamsStep, Extends, ResultEntry
  <2>3. resultsDlq \subseteq resultsDlq' /\ \A j \in Jobs : outcome[j] \subseteq outcome'[j]
    BY <1>1, <1>2 DEF Kept, StreamsStep, OutcomesGrow
  <2>4. SUFFICES ASSUME NEW m \in hand[q], First(q, m)
        PROVE  LET r == results.log[m] IN
               /\ stage[q] = "settle" => r.ok
               /\ stage[q] = "ack" => outcome'[r.job] # {}
               /\ stage[q] = "done" => ResultPassedOn(m)'
               /\ stage[q] = "report" => r.job \in resultsDlq'
               /\ stage[q] \in {"retry", "dlq", "report"} /\ ~r.ok
                    => outcome'[r.job] # {}
    BY <2>1, <2>2 DEF ConsumerDuty, First
  <2> QED
    BY <1>3, <2>1, <2>2, <2>3, <2>4 DEF ConsumerDuty
<1> QED
  BY <1>4, <1>5

\* A process that polls, starts on an entry or is down has no obligation.
LEMMA FreshDuty ==
  ASSUME NEW p \in Processes
  PROVE  /\ stage'[p] \notin {"dlq", "ack", "done"} => WorkerDuty(p)'
         /\ stage'[p] \in {"poll", "start", "down"} => ConsumerDuty(p)'
BY DEF WorkerDuty, ConsumerDuty

\* It is enough to look at the process that moves.
LEMMA ActorSuffices ==
  ASSUME IInv, GoodStep, NEW p \in Processes, OnlyMoves(p),
         p \in Workers => WorkerDuty(p)', p \in Consumers => ConsumerDuty(p)'
  PROVE  WorkerPassesOn' /\ ConsumerPassesOn'
<1>1. \A q \in Processes \ {p} : /\ q \in Workers => WorkerDuty(q)'
                                 /\ q \in Consumers => ConsumerDuty(q)'
  BY QuietKept DEF OnlyMoves
<1> QED
  BY <1>1 DEF WorkerPassesOn, ConsumerPassesOn, Processes

\* The control steps move one process.
LEMMA OneMoves ==
  ASSUME ProcessOK, NEW p \in Processes,
         \/ \E s : GoTo(p, s)
         \/ \E c, ids : TakeBatch(p, c, ids)
         \/ \E m : FinishEntry(p, m)
         \/ Escape(p)
         \/ \E s, h : /\ stage' = [stage EXCEPT ![p] = s]
                      /\ hand' = [hand EXCEPT ![p] = h]
  PROVE  OnlyMoves(p)
BY DEF OnlyMoves, ProcessOK, GoTo, TakeBatch, FinishEntry, Escape

\* A batch, or the end of an entry, leaves the process without obligation.
LEMMA BatchDuty ==
  ASSUME ProcessOK, NEW p \in Processes,
         \/ \E c, ids : TakeBatch(p, c, ids)
         \/ \E m : FinishEntry(p, m)
         \/ Escape(p)
  PROVE  OnlyMoves(p) /\ WorkerDuty(p)' /\ ConsumerDuty(p)'
<1>1. stage'[p] \in {"poll", "start", "down"}
  BY DEF ProcessOK, TakeBatch, FinishEntry, Escape
<1>2. OnlyMoves(p)
  BY OneMoves
<1> QED
  BY <1>1, <1>2, FreshDuty

\* A worker whose new stage follows a job passed on keeps its obligation.
LEMMA PassedDuty ==
  ASSUME TypeOK, NEW w \in Workers, NEW m \in hand[w], First(w, m), NEW s, GoTo(w, s),
         PassedOn(m)'
  PROVE  WorkerDuty(w)'
<1>1. hand'[w] = hand[w] /\ hand[w] \subseteq Nat
  BY DEF GoTo, TypeOK, Processes
<1>2. \A n \in hand'[w] : First(w, n)' => n = m
  BY <1>1 DEF First
<1> QED
  BY <1>2 DEF WorkerDuty

\* A worker passes a job on before it moves to a stage that relies on it.
LEMMA WorkerCallsDuty ==
  ASSUME IInv, PipelineAssumption, GoodStep, NEW w \in Workers, NEW m \in hand[w],
         First(w, m), WorkerCalls(w, m)
  PROVE  OnlyMoves(w) /\ WorkerDuty(w)'
<1> DEFINE e == jobs.log[m]
<1>1. /\ TypeOK /\ WorkerPassesOn /\ ConsumerPassesOn /\ OutcomesGrow
      /\ StreamsOK /\ ProcessOK /\ w \in Processes
  BY TypeParts DEF IInv, GoodStep, Processes
<1>2. PICK a, b : JobAcked(a) /\ ResultAcked(b) /\ Kept(a, b)
  BY DEF GoodStep
<1>3. /\ m \in Entries(jobs) /\ e.job \in Jobs /\ e.attempts \in Nat
      /\ jobs'.log[m] = e
  BY <1>1, <1>2, JobAtHand DEF Kept, StreamsStep, Extends
<1>4. CASE stage[w] \in {"ack", "done"}
  BY <1>1, <1>4, BatchDuty DEF WorkerCalls, AfterWorkerCall
<1>5. ASSUME NEW s, GoTo(w, s), PassedOn(m)'
      PROVE  OnlyMoves(w) /\ WorkerDuty(w)'
  BY <1>1, <1>5, OneMoves, PassedDuty
<1>6. CASE stage[w] = "start"
  <2>1. e.job \in Malformed /\ e.job \in jobsDlq'
    BY <1>6 DEF WorkerCalls, WorkerCall, SendToJobsDlq
  <2>2. PassedOn(m)'
    BY <1>3, <2>1 DEF PassedOn, Settled
  <2> QED
    BY <1>5, <1>6, <2>2 DEF WorkerCalls, AfterWorkerCall
<1>7. CASE stage[w] \in {"publish", "publishFailed"}
  <2>1. PICK ok \in BOOLEAN, n \in Nat : PublishResult(e, ok, n)
    <3>1. /\ ReportedAttempts(e, e.attempts) \in Nat
          /\ ReportedAttempts(e, e.attempts + 1) \in Nat
      BY <1>3 DEF ReportedAttempts
    <3>2. \/ PublishResult(e, TRUE, ReportedAttempts(e, e.attempts))
          \/ PublishResult(e, FALSE, ReportedAttempts(e, e.attempts + 1))
      BY <1>7 DEF WorkerCalls, WorkerCall
    <3> HIDE DEF e
    <3> QED
      BY <3>1, <3>2, Zenon
  <2>2. [job |-> e.job, ok |-> ok, attempts |-> n] \in ResultEntry
    BY <1>3 DEF ResultEntry
  <2>3. \E i \in Unacked(results') : results'.log[i].job = e.job
    BY <1>1, <2>1, <2>2, AddResult DEF PublishResult
  <2>4. PassedOn(m)'
    BY <1>3, <2>3 DEF PassedOn
  <2> QED
    BY <1>5, <1>7, <2>4 DEF WorkerCalls, AfterWorkerCall
<1>8. CASE stage[w] = "requeue"
  <2>1. [job |-> e.job, attempts |-> e.attempts + 1] \in JobEntry
    BY <1>3 DEF JobEntry
  <2>2. RequeueJob(e)
    BY <1>8 DEF WorkerCalls, WorkerCall
  <2>3. \E i \in Unacked(jobs') : i > m /\ jobs'.log[i].job = e.job
    BY <1>1, <1>3, <2>1, <2>2, AddJob DEF RequeueJob
  <2>4. PassedOn(m)'
    BY <1>3, <2>3 DEF PassedOn
  <2> QED
    BY <1>5, <1>8, <2>4 DEF WorkerCalls, AfterWorkerCall
<1>9. CASE stage[w] = "dlq"
  <2>1. PassedOn(m)
    BY <1>1, <1>9 DEF WorkerPassesOn, WorkerDuty
  <2>2. PassedOn(m)'
    BY <1>1, <1>2, <1>3, <2>1, PassedOnKept
  <2> QED
    BY <1>5, <1>9, <2>2 DEF WorkerCalls, AfterWorkerCall
<1> QED
  BY <1>4, <1>6, <1>7, <1>8, <1>9 DEF WorkerCalls, WorkerCall

\* Every step of a worker meets its obligation.
LEMMA WorkerDutyKept ==
  ASSUME IInv, PipelineAssumption, GoodStep, NEW w \in Workers,
         \/ WorkerStep(w)
         \/ \E m \in hand[w] : First(w, m) /\ WorkerCallFails(w, m)
  PROVE  OnlyMoves(w) /\ WorkerDuty(w)'
<1>1. TypeOK /\ ProcessOK /\ w \in Processes
  BY TypeParts DEF IInv, Processes
<1>2. CASE WorkerClaims(w) \/ WorkerReads(w)
  BY <1>1, <1>2, BatchDuty DEF WorkerClaims, WorkerReads
<1>3. ASSUME NEW s \in {"publish", "requeue", "publishFailed"}, GoTo(w, s)
      PROVE  OnlyMoves(w) /\ WorkerDuty(w)'
  <2>1. stage'[w] = s
    BY <1>1, <1>3 DEF GoTo, ProcessOK
  <2> QED
    BY <1>1, <1>3, <2>1, OneMoves, FreshDuty
<1>4. ASSUME NEW m \in hand[w], First(w, m),
             LlmSucceeds(w, m) \/ LlmFails(w, m) \/ LlmQuotaError(w, m)
      PROVE  OnlyMoves(w) /\ WorkerDuty(w)'
  BY <1>1, <1>3, <1>4, WorkerLlm
<1>5. ASSUME NEW m \in hand[w], First(w, m), WorkerCalls(w, m)
      PROVE  OnlyMoves(w) /\ WorkerDuty(w)'
  BY <1>5, WorkerCallsDuty
<1>6. ASSUME NEW m \in hand[w], First(w, m), WorkerCallFails(w, m)
      PROVE  OnlyMoves(w) /\ WorkerDuty(w)'
  BY <1>1, <1>3, <1>6, WorkerCallFailsGood, BatchDuty
<1> QED
  BY <1>2, <1>4, <1>5, <1>6 DEF WorkerStep

\* What a result consumer owes at the stage it moves to.
LEMMA ConsumerGoToDuty ==
  ASSUME TypeOK, NEW c \in Consumers, NEW m \in hand[c], First(c, m), NEW s, GoTo(c, s),
         results'.log[m] = results.log[m],
         s = "settle" => results.log[m].ok,
         s = "ack" => outcome'[results.log[m].job] # {},
         s = "done" => ResultPassedOn(m)',
         s = "report" => results.log[m].job \in resultsDlq',
         s \in {"retry", "dlq", "report"} /\ ~results.log[m].ok
           => outcome'[results.log[m].job] # {}
  PROVE  OnlyMoves(c) /\ ConsumerDuty(c)'
<1>1. /\ hand'[c] = hand[c] /\ hand[c] \subseteq Nat /\ stage'[c] = s
      /\ OnlyMoves(c)
  BY OneMoves, TypeParts DEF GoTo, TypeOK, Processes
<1>2. \A n \in hand'[c] : First(c, n)' => n = m
  BY <1>1 DEF First
<1> QED
  BY <1>1, <1>2 DEF ConsumerDuty

\* The steps of a result handler and of handleProcessingFailure that touch no
\* stream meet the consumer's obligation.
LEMMA HandlerDuty ==
  ASSUME IInv, PipelineAssumption, GoodStep, NEW c \in Consumers, NEW m \in hand[c],
         First(c, m),
         \/ ApplyResult(c, m) \/ SettleResult(c, m) \/ EmptyPlan(c, m)
         \/ ReportFailedResult(c, m) \/ HandlerRejects(c, m)
         \/ HandlerFails(c, m) \/ ReportExhausted(c, m)
  PROVE  OnlyMoves(c) /\ ConsumerDuty(c)'
<1> DEFINE r == results.log[m]
<1>1. /\ TypeOK /\ ConsumerDuty(c) /\ r.job \in Jobs /\ r.ok \in BOOLEAN
      /\ outcome \in [Jobs -> SUBSET Outcomes]
  BY ResultAtHand DEF IInv, TypeOK, ConsumerPassesOn
<1>2. UNCHANGED <<results, resultsDlq>>
  BY DEF streamVars, ApplyResult, SettleResult, EmptyPlan, ReportFailedResult,
     HandlerRejects, HandlerFails, ReportExhausted
<1>3. results'.log[m] = r
  BY <1>2
<1>4. ASSUME r.ok, ConsumerHandlesError(c, m)
      PROVE  OnlyMoves(c) /\ ConsumerDuty(c)'
  <2>1. PICK s \in {"dlq", "retry"} : GoTo(c, s)
    BY <1>4 DEF ConsumerHandlesError
  <2> QED
    BY <1>1, <1>3, <1>4, <2>1, ConsumerGoToDuty
<1>5. ASSUME NEW o \in Outcomes, EndsWith(r.job, o)
      PROVE  outcome'[r.job] # {}
  BY <1>1, <1>5 DEF EndsWith
<1>6. CASE ApplyResult(c, m)
  BY <1>1, <1>3, <1>6, ConsumerGoToDuty DEF ApplyResult
<1>7. CASE SettleResult(c, m) \/ EmptyPlan(c, m) \/ ReportFailedResult(c, m)
  <2>1. GoTo(c, "ack") /\ outcome'[r.job] # {}
    BY <1>5, <1>7 DEF SettleResult, EmptyPlan, ReportFailedResult, Outcomes
  <2> QED
    BY <1>1, <1>3, <2>1, ConsumerGoToDuty
<1>8. CASE HandlerRejects(c, m)
  BY <1>4, <1>8 DEF HandlerRejects
<1>9. CASE HandlerFails(c, m)
  <2>1. r.ok
    BY <1>1, <1>9 DEF HandlerFails, ConsumerDuty
  <2> QED
    BY <1>4, <1>9, <2>1 DEF HandlerFails
<1>10. CASE ReportExhausted(c, m)
  <2>1. /\ r.job \in resultsDlq
        /\ ~r.ok => outcome[r.job] # {}
        /\ GoTo(c, "done")
    BY <1>1, <1>10 DEF ReportExhausted, ConsumerDuty
  <2>2. outcome'[r.job] # {} \/ r.job \in resultsDlq' \ ChatTurns
    <3>1. CASE r.ok /\ r.job \in ChatTurns
      BY <1>5, <1>10, <3>1 DEF ReportExhausted, Outcomes
    <3>2. CASE ~(r.ok /\ r.job \in ChatTurns)
      <4>1. outcome' = outcome /\ resultsDlq' = resultsDlq
        BY <1>2, <1>10, <3>2 DEF ReportExhausted
      <4> QED
        BY <2>1, <3>2, <4>1
    <3> QED
      BY <3>1, <3>2
  <2>3. ResultPassedOn(m)'
    BY <1>3, <2>2 DEF ResultPassedOn, Settled
  <2> QED
    BY <1>1, <1>3, <2>1, <2>3, ConsumerGoToDuty
<1> QED
  BY <1>6, <1>7, <1>8, <1>9, <1>10

\* So do its Redis calls.
LEMMA ConsumerCallsDuty ==
  ASSUME IInv, PipelineAssumption, GoodStep, NEW c \in Consumers, NEW m \in hand[c],
         First(c, m), ConsumerCalls(c, m) \/ ConsumerCallFails(c, m)
  PROVE  OnlyMoves(c) /\ ConsumerDuty(c)'
<1> DEFINE r == results.log[m]
<1>1. /\ TypeOK /\ ConsumerDuty(c) /\ StreamsOK /\ ProcessOK /\ c \in Processes
      /\ m \in Entries(results) /\ r.job \in Jobs /\ r.ok \in BOOLEAN
      /\ r.attempts \in Nat
  BY TypeParts, ResultAtHand DEF IInv, ConsumerPassesOn, Processes
<1>2. PICK a, b : JobAcked(a) /\ ResultAcked(b) /\ Kept(a, b)
  BY DEF GoodStep
<1>3. results'.log[m] = r
  BY <1>1, <1>2 DEF Kept, StreamsStep, Extends
<1>4. outcome' = outcome
  BY DEF ConsumerCalls, ConsumerCallFails, effectVars
<1>5. CASE FinishEntry(c, m) \/ Escape(c)
  BY <1>1, <1>5, BatchDuty
<1>6. CASE stage[c] = "ack" /\ ConsumerHandlesError(c, m)
  <2>1. PICK s \in {"dlq", "retry"} : GoTo(c, s)
    BY <1>6 DEF ConsumerHandlesError
  <2>2. outcome'[r.job] # {}
    BY <1>1, <1>4, <1>6 DEF ConsumerDuty
  <2> QED
    BY <1>1, <1>3, <2>1, <2>2, ConsumerGoToDuty
<1>7. CASE ConsumerCalls(c, m) /\ stage[c] = "retry"
  <2>1. [job |-> r.job, ok |-> r.ok, attempts |-> r.attempts + 1] \in ResultEntry
    BY <1>1 DEF ResultEntry
  <2>2. RetryResult(m) /\ GoTo(c, "done")
    BY <1>7 DEF ConsumerCalls, ConsumerCall
  <2>3. \E i \in Unacked(results') : i > m /\ results'.log[i].job = r.job
    BY <1>1, <2>1, <2>2, AddResult DEF RetryResult
  <2>4. ResultPassedOn(m)'
    BY <1>3, <2>3 DEF ResultPassedOn
  <2> QED
    BY <1>1, <1>3, <2>2, <2>4, ConsumerGoToDuty
<1>8. CASE ConsumerCalls(c, m) /\ stage[c] = "dlq"
  <2>1. SendToResultsDlq(r.job) /\ GoTo(c, "report")
    BY <1>8 DEF ConsumerCalls, ConsumerCall
  <2>2. r.job \in resultsDlq'
    BY <2>1 DEF SendToResultsDlq
  <2>3. ~r.ok => outcome'[r.job] # {}
    BY <1>1, <1>4, <1>8 DEF ConsumerDuty
  <2> QED
    BY <1>1, <1>3, <2>1, <2>2, <2>3, ConsumerGoToDuty
<1> QED
  BY <1>5, <1>6, <1>7, <1>8 DEF ConsumerCalls, ConsumerCallFails, ConsumerCall

\* Every step of a result consumer meets its obligation.
LEMMA ConsumerDutyKept ==
  ASSUME IInv, PipelineAssumption, GoodStep, NEW c \in Consumers,
         \/ ConsumerStep(c)
         \/ \E m \in hand[c] : /\ First(c, m)
                               /\ HandlerFails(c, m) \/ ConsumerCallFails(c, m)
  PROVE  OnlyMoves(c) /\ ConsumerDuty(c)'
<1>1. TypeOK /\ ProcessOK /\ c \in Processes
  BY TypeParts DEF IInv, Processes
<1>2. CASE ConsumerClaims(c) \/ ConsumerReads(c)
  BY <1>1, <1>2, BatchDuty DEF ConsumerClaims, ConsumerReads
<1> QED
  BY <1>2, HandlerDuty, ConsumerCallsDuty DEF ConsumerStep

\* Every step keeps the obligations of all processes.
LEMMA DutiesKept ==
  ASSUME IInv, PipelineAssumption, GoodStep, Next
  PROVE  WorkerPassesOn' /\ ConsumerPassesOn'
<1>1. ProcessOK /\ Workers \cap Consumers = {}
  BY TypeParts DEF IInv, PipelineAssumption
<1>2. ASSUME UNCHANGED <<stage, hand>> PROVE WorkerPassesOn' /\ ConsumerPassesOn'
  <2>1. \A q \in Processes : /\ q \in Workers => WorkerDuty(q)'
                             /\ q \in Consumers => ConsumerDuty(q)'
    BY <1>2, QuietKept
  <2> QED
    BY <2>1 DEF WorkerPassesOn, ConsumerPassesOn, Processes
<1>3. ASSUME NEW w \in Workers, OnlyMoves(w), WorkerDuty(w)'
      PROVE  WorkerPassesOn' /\ ConsumerPassesOn'
  BY <1>1, <1>3, ActorSuffices DEF Processes
<1>4. ASSUME NEW c \in Consumers, OnlyMoves(c), ConsumerDuty(c)'
      PROVE  WorkerPassesOn' /\ ConsumerPassesOn'
  BY <1>1, <1>4, ActorSuffices DEF Processes
<1>5. ASSUME NEW j \in Jobs, SaveRequest(j) \/ Enqueue(j) \/ EnqueueFails(j)
      PROVE  WorkerPassesOn' /\ ConsumerPassesOn'
  BY <1>2, <1>5 DEF SaveRequest, Enqueue, EnqueueFails, processVars
<1>6. ASSUME NEW w \in Workers,
             \/ WorkerStep(w)
             \/ \E m \in hand[w] : First(w, m) /\ WorkerCallFails(w, m)
      PROVE  WorkerPassesOn' /\ ConsumerPassesOn'
  BY <1>3, <1>6, WorkerDutyKept
<1>7. ASSUME NEW c \in Consumers,
             \/ ConsumerStep(c)
             \/ \E m \in hand[c] : /\ First(c, m)
                                   /\ HandlerFails(c, m) \/ ConsumerCallFails(c, m)
      PROVE  WorkerPassesOn' /\ ConsumerPassesOn'
  BY <1>4, <1>7, ConsumerDutyKept
<1>8. ASSUME NEW p \in Processes, OnlyMoves(p), stage'[p] \in {"poll", "down"}
      PROVE  WorkerPassesOn' /\ ConsumerPassesOn'
  <2>1. WorkerDuty(p)' /\ ConsumerDuty(p)'
    BY <1>8, FreshDuty
  <2> QED
    BY <1>8, <2>1, ActorSuffices
<1>9. ASSUME \/ \E i \in jobs.pending : JobTurnsIdle(i)
             \/ \E i \in results.pending : ResultTurnsIdle(i)
             \/ \E p \in Processes : PollFails(p) \/ Crash(p) \/ Restart(p)
      PROVE  WorkerPassesOn' /\ ConsumerPassesOn'
  <2>1. CASE UNCHANGED <<stage, hand>>
    BY <1>2, <2>1
  <2>2. ASSUME NEW p \in Processes,
               \/ Escape(p)
               \/ /\ stage' = [stage EXCEPT ![p] = "down"]
                  /\ hand' = [hand EXCEPT ![p] = {}]
               \/ GoTo(p, "poll")
        PROVE  WorkerPassesOn' /\ ConsumerPassesOn'
    <3>1. stage'[p] \in {"poll", "down"}
      BY <1>1, <2>2 DEF ProcessOK, Escape, GoTo
    <3>2. OnlyMoves(p)
      BY <1>1, <2>2 DEF ProcessOK, OnlyMoves, Escape, GoTo
    <3> QED
      BY <1>8, <3>1, <3>2
  <2> QED
    BY <1>9, <2>1, <2>2, EnvironmentGood DEF IInv
<1> QED
  BY <1>5, <1>6, <1>7, <1>9 DEF Next

\* A good step loses no job: one that was carried is carried or settled, and
\* one that has just been queued has an unacknowledged entry.
LEMMA NoJobLostKept ==
  ASSUME IInv, GoodStep PROVE NoJobLost'
<1>1. PICK a, b : JobAcked(a) /\ ResultAcked(b) /\ Kept(a, b)
  BY DEF GoodStep
<1>2. TypeOK /\ WorkerPassesOn /\ ConsumerPassesOn /\ OutcomesGrow /\ NoJobLost
  BY DEF IInv, GoodStep
<1>3. \A j \in Jobs : Carried(j) \/ Settled(j) => Carried(j)' \/ Settled(j)'
  BY <1>1, <1>2, PassedOnKept
<1>4. \A i \in Entries(jobs) : /\ jobs.log[i].job \in Jobs
                               /\ jobs'.log[i] = jobs.log[i]
  <2>1. jobs \in StreamOf(JobEntry)
    BY <1>2 DEF TypeOK
  <2>2. \A i \in Entries(jobs) : jobs.log[i] \in JobEntry
    BY <2>1, StreamFields
  <2> QED
    BY <1>1, <2>2 DEF JobEntry, Kept, StreamsStep, Extends
<1>5. Entries(jobs') \ Entries(jobs) \subseteq Unacked(jobs')
  BY <1>1 DEF Kept, StreamsStep, Extends
<1>6. ASSUME NEW i \in Entries(jobs'), NEW j, j = jobs'.log[i].job
      PROVE  Carried(j)' \/ Settled(j)'
  <2>1. CASE i \in Entries(jobs)
    BY <1>2, <1>3, <1>4, <1>6, <2>1 DEF NoJobLost
  <2>2. CASE i \in Unacked(jobs')
    BY <1>6, <2>2 DEF Carried
  <2> QED
    BY <1>5, <2>1, <2>2
<1> QED
  BY <1>6 DEF NoJobLost, Carried, Settled

\* The invariant holds initially.
LEMMA InitSafe == Init => IInv
<1> SUFFICES ASSUME Init PROVE IInv
  OBVIOUS
<1>1. \A p \in Processes : hand[p] = {}
  BY DEF Init
<1>2. Entries(jobs) = {}
  BY DEF Init, Entries, EmptyStream
<1> QED
  BY <1>1, <1>2, InitTyped DEF IInv, WorkerPassesOn, ConsumerPassesOn, NoJobLost,
     WorkerDuty, ConsumerDuty, Processes

(***************************************************************************)
(* The inductive invariant of the pipeline: with the types, every process  *)
(* that is about to acknowledge has passed its job on, and so no job is    *)
(* lost.                                                                   *)
(***************************************************************************)
THEOREM InvariantHolds == Spec => []IInv
<1>1. IInv /\ Next => IInv'
  <2> SUFFICES ASSUME IInv, Next PROVE IInv'
    OBVIOUS
  <2>1. GoodStep
    BY NextGood, PipelineAssumption DEF IInv
  <2>2. TypeOK'
    BY <2>1 DEF GoodStep
  <2>3. WorkerPassesOn' /\ ConsumerPassesOn'
    BY <2>1, DutiesKept, PipelineAssumption
  <2>4. NoJobLost'
    BY <2>1, NoJobLostKept
  <2> QED
    BY <2>2, <2>3, <2>4 DEF IInv
<1>2. IInv /\ UNCHANGED vars => IInv'
  BY StutterTyped DEF IInv, vars, streamVars, processVars, effectVars,
     WorkerPassesOn, ConsumerPassesOn, WorkerDuty, ConsumerDuty, First, PassedOn,
     ResultPassedOn, NoJobLost, Carried, Settled
<1> QED
  BY InitSafe, <1>1, <1>2, PTL DEF Spec

(***************************************************************************)
(* No job is lost: every job that reached the jobs stream is carried by an *)
(* unacknowledged entry or settled, whatever crashes and whichever calls   *)
(* fail.  This is the order "publish, then acknowledge" of every handler.  *)
(***************************************************************************)
THEOREM JobsAreNeverLost == Spec => []NoJobLost
BY InvariantHolds, PTL DEF IInv
=============================================================================
