-------------------------- MODULE JobOutcomeProofs --------------------------
(***************************************************************************)
(* Proofs about how jobs end: the retry budget, the delivery promise, and  *)
(* what becomes of the jobs that failed, and, with one worker and one API  *)
(* process, how often a result is written.  They rest on the invariant of  *)
(* JobPipelineProofs and on the anatomy of a step: what it adds to the     *)
(* streams, the dead letter streams and the outcomes, and on whose behalf. *)
(***************************************************************************)
EXTENDS JobPipelineProofs

-----------------------------------------------------------------------------
(* The anatomy of a step.                                                  *)

\* At most one entry is added to the jobs stream: a new job or a retry.
JobsGrow ==
  \/ jobs'.log = jobs.log
  \/ \E j \in Jobs : Push(j)
  \/ \E w \in Workers : \E m \in hand[w] :
       First(w, m) /\ stage[w] = "requeue" /\ RequeueJob(jobs.log[m])

WorkerPublishes(w, m) ==
  LET e == jobs.log[m] IN
  \/ stage[w] = "publish" /\ PublishResult(e, TRUE, ReportedAttempts(e, e.attempts))
  \/ /\ stage[w] = "publishFailed"
     /\ PublishResult(e, FALSE, ReportedAttempts(e, e.attempts + 1))

\* At most one entry is added to the results stream: a result or a retry.
ResultsGrow ==
  \/ results'.log = results.log
  \/ \E w \in Workers : \E m \in hand[w] : First(w, m) /\ WorkerPublishes(w, m)
  \/ \E c \in Consumers : \E m \in hand[c] :
       First(c, m) /\ stage[c] = "retry" /\ RetryResult(m)

\* At most one job gets an outcome or is shelved, and then no job is queued.
VerdictsGrow ==
  \/ UNCHANGED <<jobsDlq, resultsDlq, outcome>>
  \/ /\ UNCHANGED <<resultsDlq, outcome>>
     /\ \E w \in Workers : \E m \in hand[w] : SendToJobsDlq(jobs.log[m].job)
  \/ /\ UNCHANGED <<jobsDlq, outcome>>
     /\ \E c \in Consumers : \E m \in hand[c] : SendToResultsDlq(results.log[m].job)
  \/ /\ UNCHANGED streamVars
     /\ \E c \in Consumers : \E m \in hand[c] : \E o \in Outcomes :
          EndsWith(results.log[m].job, o)

\* Steps that only deliver entries or let time pass.
LEMMA Polled ==
  ASSUME \/ jobs' = XAutoClaim(jobs, BatchSize)
         \/ jobs' = XReadGroup(jobs, BatchSize)
         \/ \E i \in jobs.pending : jobs' = TurnsIdle(jobs, i)
         \/ \E m : jobs' = XAck(jobs, m)
         \/ UNCHANGED jobs,
         \/ results' = XAutoClaim(results, BatchSize)
         \/ results' = XReadGroup(results, BatchSize)
         \/ \E i \in results.pending : results' = TurnsIdle(results, i)
         \/ \E m : results' = XAck(results, m)
         \/ UNCHANGED results,
         UNCHANGED <<jobsDlq, resultsDlq, outcome>>
  PROVE  JobsGrow /\ ResultsGrow /\ VerdictsGrow
BY DEF JobsGrow, ResultsGrow, VerdictsGrow, XAutoClaim, XReadGroup, TurnsIdle, XAck

\* The anatomy of a worker's step.
LEMMA WorkerAnatomy ==
  ASSUME NEW w \in Workers,
         \/ WorkerStep(w)
         \/ \E m \in hand[w] : First(w, m) /\ WorkerCallFails(w, m)
  PROVE  JobsGrow /\ ResultsGrow /\ VerdictsGrow
<1>1. CASE WorkerClaims(w) \/ WorkerReads(w)
  BY <1>1, Polled DEF WorkerClaims, WorkerReads, effectVars
<1>2. ASSUME NEW m \in hand[w], First(w, m),
             LlmSucceeds(w, m) \/ LlmFails(w, m) \/ LlmQuotaError(w, m)
      PROVE  JobsGrow /\ ResultsGrow /\ VerdictsGrow
  BY <1>2, Polled DEF LlmSucceeds, LlmFails, LlmQuotaError, effectVars, streamVars
<1>3. ASSUME NEW m \in hand[w], First(w, m),
             WorkerCall(w, m) \/ UNCHANGED streamVars, UNCHANGED outcome
      PROVE  JobsGrow /\ ResultsGrow /\ VerdictsGrow
  <2>1. CASE UNCHANGED streamVars \/ AckJob(m)
    BY <1>3, <2>1, Polled DEF streamVars, AckJob
  <2>2. CASE SendToJobsDlq(jobs.log[m].job)
    BY <1>3, <2>2 DEF SendToJobsDlq, JobsGrow, ResultsGrow, VerdictsGrow
  <2>3. CASE WorkerPublishes(w, m)
    BY <1>3, <2>3 DEF WorkerPublishes, PublishResult, JobsGrow, ResultsGrow, VerdictsGrow
  <2>4. CASE stage[w] = "requeue" /\ RequeueJob(jobs.log[m])
    BY <1>3, <2>4 DEF RequeueJob, JobsGrow, ResultsGrow, VerdictsGrow
  <2> QED
    BY <1>3, <2>1, <2>2, <2>3, <2>4 DEF WorkerCall, WorkerPublishes
<1> QED
  BY <1>1, <1>2, <1>3 DEF WorkerStep, WorkerCalls, WorkerCallFails, effectVars

\* The anatomy of a result consumer's step.
LEMMA ConsumerAnatomy ==
  ASSUME NEW c \in Consumers,
         \/ ConsumerStep(c)
         \/ \E m \in hand[c] : /\ First(c, m)
                               /\ HandlerFails(c, m) \/ ConsumerCallFails(c, m)
  PROVE  JobsGrow /\ ResultsGrow /\ VerdictsGrow
<1>1. CASE ConsumerClaims(c) \/ ConsumerReads(c)
  BY <1>1, Polled DEF ConsumerClaims, ConsumerReads, effectVars
<1>2. ASSUME NEW m \in hand[c], UNCHANGED streamVars,
             \/ UNCHANGED outcome
             \/ \E o \in Outcomes : EndsWith(results.log[m].job, o)
      PROVE  JobsGrow /\ ResultsGrow /\ VerdictsGrow
  BY <1>2 DEF JobsGrow, ResultsGrow, VerdictsGrow, streamVars
<1>3. ASSUME NEW m \in hand[c], First(c, m),
             \/ ApplyResult(c, m) \/ SettleResult(c, m) \/ EmptyPlan(c, m)
             \/ ReportFailedResult(c, m) \/ HandlerRejects(c, m)
             \/ HandlerFails(c, m) \/ ReportExhausted(c, m)
      PROVE  JobsGrow /\ ResultsGrow /\ VerdictsGrow
  BY <1>2, <1>3 DEF ApplyResult, SettleResult, EmptyPlan, ReportFailedResult,
     HandlerRejects, HandlerFails, ReportExhausted, effectVars, Outcomes
<1>4. ASSUME NEW m \in hand[c], First(c, m),
             ConsumerCall(c, m) \/ UNCHANGED streamVars, UNCHANGED outcome
      PROVE  JobsGrow /\ ResultsGrow /\ VerdictsGrow
  <2>1. CASE UNCHANGED streamVars \/ AckResult(m)
    BY <1>4, <2>1, Polled DEF streamVars, AckResult
  <2>2. CASE SendToResultsDlq(results.log[m].job)
    BY <1>4, <2>2 DEF SendToResultsDlq, JobsGrow, ResultsGrow, VerdictsGrow
  <2>3. CASE stage[c] = "retry" /\ RetryResult(m)
    BY <1>4, <2>3 DEF RetryResult, JobsGrow, ResultsGrow, VerdictsGrow
  <2> QED
    BY <1>4, <2>1, <2>2, <2>3 DEF ConsumerCall
<1> QED
  BY <1>1, <1>3, <1>4 DEF ConsumerStep, ConsumerCalls, ConsumerCallFails, effectVars

\* The anatomy of every step.
LEMMA Anatomy ==
  ASSUME Next PROVE JobsGrow /\ ResultsGrow /\ VerdictsGrow
<1>1. ASSUME NEW j \in Jobs, SaveRequest(j) \/ Enqueue(j) \/ EnqueueFails(j)
      PROVE  JobsGrow /\ ResultsGrow /\ VerdictsGrow
  BY <1>1 DEF SaveRequest, Enqueue, EnqueueFails, Push, streamVars, effectVars,
     JobsGrow, ResultsGrow, VerdictsGrow
<1>2. ASSUME \/ \E i \in jobs.pending : JobTurnsIdle(i)
             \/ \E i \in results.pending : ResultTurnsIdle(i)
             \/ \E p \in Processes : PollFails(p) \/ Crash(p) \/ Restart(p)
      PROVE  JobsGrow /\ ResultsGrow /\ VerdictsGrow
  <2>1. UNCHANGED <<jobsDlq, resultsDlq, outcome>>
    BY <1>2 DEF JobTurnsIdle, ResultTurnsIdle, PollFails, Crash, Restart, streamVars,
       effectVars
  <2>2. /\ \/ jobs' = XAutoClaim(jobs, BatchSize)
           \/ jobs' = XReadGroup(jobs, BatchSize)
           \/ \E i \in jobs.pending : jobs' = TurnsIdle(jobs, i)
           \/ UNCHANGED jobs
        /\ \/ results' = XAutoClaim(results, BatchSize)
           \/ results' = XReadGroup(results, BatchSize)
           \/ \E i \in results.pending : results' = TurnsIdle(results, i)
           \/ UNCHANGED results
    BY <1>2 DEF JobTurnsIdle, ResultTurnsIdle, PollFails, Crash, Restart, streamVars
  <2> QED
    BY <2>1, <2>2, Polled
<1> QED
  BY <1>1, <1>2, WorkerAnatomy, ConsumerAnatomy DEF Next

\* What XADD adds, in terms of the new entry alone.
LEMMA JobAdded ==
  ASSUME StreamsOK, NEW x \in JobEntry, jobs' = XAdd(jobs, x)
  PROVE  \E k : /\ Entries(jobs') = Entries(jobs) \cup {k} /\ k \in Unacked(jobs')
                /\ jobs'.log[k] = x
                /\ \A i \in Entries(jobs) : jobs'.log[i] = jobs.log[i] /\ k > i
<1>1. /\ Extends(jobs, jobs')
      /\ Entries(jobs') = Entries(jobs) \cup {Len(jobs.log) + 1}
      /\ Unacked(jobs') = Unacked(jobs) \cup {Len(jobs.log) + 1}
      /\ jobs'.log[Len(jobs.log) + 1] = x
  BY XAddFacts DEF StreamsOK
<1>2. \A i \in Entries(jobs) : Len(jobs.log) + 1 > i
  BY StreamFields DEF Entries, StreamsOK
<1> QED
  BY <1>1, <1>2 DEF Extends

\* The same for the results stream.
LEMMA ResultAdded ==
  ASSUME StreamsOK, NEW x \in ResultEntry, results' = XAdd(results, x)
  PROVE  \E k : /\ Entries(results') = Entries(results) \cup {k} /\ k \in Unacked(results')
                /\ results'.log[k] = x
                /\ \A i \in Entries(results) : results'.log[i] = results.log[i] /\ k > i
<1>1. /\ Extends(results, results')
      /\ Entries(results') = Entries(results) \cup {Len(results.log) + 1}
      /\ Unacked(results') = Unacked(results) \cup {Len(results.log) + 1}
      /\ results'.log[Len(results.log) + 1] = x
  BY XAddFacts DEF StreamsOK
<1>2. \A i \in Entries(results) : Len(results.log) + 1 > i
  BY StreamFields DEF Entries, StreamsOK
<1> QED
  BY <1>1, <1>2 DEF Extends

\* The entry that a step adds to the results stream, if any.
LEMMA ResultsGrowBy ==
  ASSUME TypeOK, ResultsGrow
  PROVE  \/ results'.log = results.log
         \/ \E x \in ResultEntry :
              /\ results' = XAdd(results, x)
              /\ \/ \E w \in Workers : \E m \in hand[w] :
                      /\ x.job = jobs.log[m].job
                      /\ \/ x.attempts = ReportedAttempts(jobs.log[m], jobs.log[m].attempts)
                         \/ x.attempts = ReportedAttempts(jobs.log[m], jobs.log[m].attempts + 1)
                 \/ \E c \in Consumers : \E m \in hand[c] :
                      /\ First(c, m) /\ stage[c] = "retry"
                      /\ x.job = results.log[m].job
                      /\ x.attempts = results.log[m].attempts + 1
<1>1. ASSUME NEW w \in Workers, NEW m \in hand[w], WorkerPublishes(w, m)
      PROVE  \E x \in ResultEntry :
              /\ results' = XAdd(results, x)
              /\ x.job = jobs.log[m].job
              /\ \/ x.attempts = ReportedAttempts(jobs.log[m], jobs.log[m].attempts)
                 \/ x.attempts = ReportedAttempts(jobs.log[m], jobs.log[m].attempts + 1)
  <2> DEFINE e == jobs.log[m]
  <2> DEFINE n == ReportedAttempts(e, e.attempts)
  <2> DEFINE f == ReportedAttempts(e, e.attempts + 1)
  <2>1. e.job \in Jobs /\ n \in Nat /\ f \in Nat
    BY JobAtHand DEF ReportedAttempts
  <2>2. \/ results' = XAdd(results, [job |-> e.job, ok |-> TRUE, attempts |-> n])
        \/ results' = XAdd(results, [job |-> e.job, ok |-> FALSE, attempts |-> f])
    BY <1>1 DEF WorkerPublishes, PublishResult
  <2> HIDE DEF e, n, f
  <2>3. /\ [job |-> e.job, ok |-> TRUE, attempts |-> n] \in ResultEntry
        /\ [job |-> e.job, ok |-> FALSE, attempts |-> f] \in ResultEntry
    BY <2>1 DEF ResultEntry
  <2>4. \E x \in ResultEntry : /\ results' = XAdd(results, x)
                               /\ x.job = e.job /\ (x.attempts = n \/ x.attempts = f)
    BY <2>2, <2>3
  <2> QED
    BY <2>4 DEF e, n, f
<1>2. ASSUME NEW c \in Consumers, NEW m \in hand[c], RetryResult(m)
      PROVE  \E x \in ResultEntry :
              /\ results' = XAdd(results, x)
              /\ x.job = results.log[m].job
              /\ x.attempts = results.log[m].attempts + 1
  <2> DEFINE r == results.log[m]
  <2> DEFINE x == [job |-> r.job, ok |-> r.ok, attempts |-> r.attempts + 1]
  <2>1. x \in ResultEntry
    BY ResultAtHand DEF ResultEntry
  <2>2. results' = XAdd(results, x)
    BY <1>2 DEF RetryResult
  <2> QED
    BY <2>1, <2>2
<1> QED
  BY <1>1, <1>2 DEF ResultsGrow

\* The entry that a step adds to the jobs stream, if any.
LEMMA JobsGrowBy ==
  ASSUME TypeOK, JobsGrow
  PROVE  \/ jobs'.log = jobs.log
         \/ \E x \in JobEntry :
              /\ jobs' = XAdd(jobs, x)
              /\ \/ x.attempts = 0
                 \/ \E w \in Workers : \E m \in hand[w] :
                      /\ First(w, m) /\ stage[w] = "requeue"
                      /\ x.job = jobs.log[m].job
                      /\ x.attempts = jobs.log[m].attempts + 1
<1>1. ASSUME NEW j \in Jobs, Push(j)
      PROVE  \E x \in JobEntry : jobs' = XAdd(jobs, x) /\ x.attempts = 0
  <2> DEFINE x == [job |-> j, attempts |-> 0]
  <2>1. x \in JobEntry /\ jobs' = XAdd(jobs, x)
    BY <1>1 DEF JobEntry, Push
  <2> QED
    BY <2>1
<1>2. ASSUME NEW w \in Workers, NEW m \in hand[w], RequeueJob(jobs.log[m])
      PROVE  \E x \in JobEntry :
              /\ jobs' = XAdd(jobs, x)
              /\ x.job = jobs.log[m].job
              /\ x.attempts = jobs.log[m].attempts + 1
  <2> DEFINE e == jobs.log[m]
  <2> DEFINE x == [job |-> e.job, attempts |-> e.attempts + 1]
  <2>1. x \in JobEntry
    BY JobAtHand DEF JobEntry
  <2>2. jobs' = XAdd(jobs, x)
    BY <1>2 DEF RequeueJob
  <2> QED
    BY <2>1, <2>2
<1> QED
  BY <1>1, <1>2 DEF JobsGrow

-----------------------------------------------------------------------------
(* The pipeline implements the delivery promise.                           *)

accepted == { jobs.log[i].job : i \in Entries(jobs) }
settled  == { j \in Jobs : Settled(j) }

\* A result is about a job that was queued.
Origin == \A i \in Entries(results) : results.log[i].job \in accepted

\* The entries a process holds are about jobs that were queued.
LEMMA AtHandAccepted ==
  ASSUME TypeOK, Origin
  PROVE  /\ accepted \subseteq Jobs
         /\ \A w \in Workers : \A m \in hand[w] : jobs.log[m].job \in accepted
         /\ \A c \in Consumers : \A m \in hand[c] : results.log[m].job \in accepted
<1>1. jobs \in StreamOf(JobEntry)
  BY DEF TypeOK
<1>2. \A i \in Entries(jobs) : jobs.log[i] \in JobEntry
  BY <1>1, StreamFields
<1> QED
  BY <1>2 DEF accepted, Origin, TypeOK, JobEntry

\* A step accepts at most one job.
LEMMA AcceptedGrows ==
  ASSUME TypeOK, JobsGrow
  PROVE  accepted' = accepted \/ \E j \in Jobs : accepted' = accepted \cup {j}
<1>1. CASE jobs'.log = jobs.log
  BY <1>1 DEF accepted, Entries
<1>2. ASSUME NEW x \in JobEntry, jobs' = XAdd(jobs, x)
      PROVE  accepted' = accepted \cup {x.job} /\ x.job \in Jobs
  <2>1. PICK k : /\ Entries(jobs') = Entries(jobs) \cup {k}
                 /\ jobs'.log[k] = x
                 /\ \A i \in Entries(jobs) : jobs'.log[i] = jobs.log[i]
    BY <1>2, JobAdded, TypeParts
  <2>2. x.job \in Jobs
    BY DEF JobEntry
  <2> QED
    BY <2>1, <2>2 DEF accepted
<1> QED
  BY <1>1, <1>2, JobsGrowBy

\* The origin of the results is kept.
LEMMA OriginKept ==
  ASSUME TypeOK, Origin, Next PROVE Origin'
<1>1. accepted \subseteq accepted'
  BY Anatomy, AcceptedGrows
<1>2. CASE results'.log = results.log
  BY <1>1, <1>2 DEF Origin, Entries
<1>3. ASSUME NEW x \in ResultEntry, results' = XAdd(results, x), x.job \in accepted
      PROVE  Origin'
  <2>1. PICK k : /\ Entries(results') = Entries(results) \cup {k}
                 /\ results'.log[k] = x
                 /\ \A i \in Entries(results) : results'.log[i] = results.log[i]
    BY <1>3, ResultAdded, TypeParts
  <2> QED
    BY <1>1, <1>3, <2>1 DEF Origin
<1> QED
  BY <1>2, <1>3, Anatomy, ResultsGrowBy, AtHandAccepted

\* Every step accepts a job, settles an accepted job, or does neither.
LEMMA StepIsPromised ==
  ASSUME TypeOK, Origin, [Next]_vars
  PROVE  [Delivery!Next]_(Delivery!vars)
<1>1. ASSUME accepted' = accepted, settled' = settled
      PROVE  [Delivery!Next]_(Delivery!vars)
  BY <1>1 DEF Delivery!vars, accepted, settled
<1>2. ASSUME NEW j \in Jobs, accepted' = accepted \cup {j}, settled' = settled
      PROVE  [Delivery!Next]_(Delivery!vars)
  <2>1. CASE j \in accepted
    BY <1>1, <1>2, <2>1
  <2>2. CASE j \notin accepted
    BY <1>2, <2>2 DEF Delivery!Next, Delivery!Accept, accepted, settled
  <2> QED
    BY <2>1, <2>2
<1>3. ASSUME NEW j \in accepted, accepted' = accepted,
             settled' = settled \/ settled' = settled \cup {j}
      PROVE  [Delivery!Next]_(Delivery!vars)
  <2>1. j \in Jobs
    BY AtHandAccepted
  <2>2. CASE settled' = settled
    BY <1>1, <1>3, <2>2
  <2>3. CASE j \notin settled /\ settled' = settled \cup {j}
    BY <1>3, <2>1, <2>3 DEF Delivery!Next, Delivery!Settle, accepted, settled
  <2> QED
    BY <1>1, <1>3, <2>2, <2>3
<1>4. CASE UNCHANGED vars
  <2>1. accepted' = accepted /\ settled' = settled
    BY <1>4 DEF vars, streamVars, effectVars, accepted, settled, Settled
  <2> QED
    BY <1>1, <2>1
<1>5. CASE Next
  <2>1. JobsGrow /\ VerdictsGrow
    BY <1>5, Anatomy
  <2>2. CASE UNCHANGED <<jobsDlq, resultsDlq, outcome>>
    <3>1. settled' = settled
      BY <2>2 DEF settled, Settled
    <3> QED
      BY <1>1, <1>2, <2>1, <3>1, AcceptedGrows
  <2>3. ASSUME NEW w \in Workers, NEW m \in hand[w], SendToJobsDlq(jobs.log[m].job),
               UNCHANGED <<resultsDlq, outcome>>
        PROVE  [Delivery!Next]_(Delivery!vars)
    <3> DEFINE j == jobs.log[m].job
    <3>1. j \in accepted /\ j \in Jobs /\ accepted' = accepted
      BY <2>3, AtHandAccepted DEF SendToJobsDlq, accepted
    <3>2. jobsDlq' = jobsDlq \cup {j}
      BY <2>3 DEF SendToJobsDlq
    <3>3. settled' = settled \/ settled' = settled \cup {j}
      BY <2>3, <3>1, <3>2 DEF settled, Settled
    <3> QED
      BY <1>3, <3>1, <3>3
  <2>4. ASSUME NEW c \in Consumers, NEW m \in hand[c], SendToResultsDlq(results.log[m].job),
               UNCHANGED <<jobsDlq, outcome>>
        PROVE  [Delivery!Next]_(Delivery!vars)
    <3> DEFINE j == results.log[m].job
    <3>1. j \in accepted /\ j \in Jobs /\ accepted' = accepted
      BY <2>4, AtHandAccepted DEF SendToResultsDlq, accepted
    <3>2. resultsDlq' = resultsDlq \cup {j}
      BY <2>4 DEF SendToResultsDlq
    <3>3. settled' = settled \/ settled' = settled \cup {j}
      BY <2>4, <3>1, <3>2 DEF settled, Settled
    <3> QED
      BY <1>3, <3>1, <3>3
  <2>5. ASSUME NEW c \in Consumers, NEW m \in hand[c], NEW o \in Outcomes,
               EndsWith(results.log[m].job, o), UNCHANGED streamVars
        PROVE  [Delivery!Next]_(Delivery!vars)
    <3> DEFINE j == results.log[m].job
    <3>1. j \in accepted /\ j \in Jobs /\ accepted' = accepted
      BY <2>5, AtHandAccepted DEF streamVars, accepted
    <3>2. /\ outcome'[j] = outcome[j] \cup {o}
          /\ \A k \in Jobs \ {j} : outcome'[k] = outcome[k]
      BY <2>5, <3>1 DEF EndsWith, TypeOK
    <3>3. settled' = settled \cup {j}
      BY <2>5, <3>1, <3>2 DEF settled, Settled, streamVars
    <3> QED
      BY <1>3, <3>1, <3>3
  <2> QED
    BY <2>1, <2>2, <2>3, <2>4, <2>5 DEF VerdictsGrow
<1> QED
  BY <1>4, <1>5

(***************************************************************************)
(* The pipeline implements the safety part of the delivery promise: a job  *)
(* is settled once and for all, one job at a time, and only after it was   *)
(* queued, for any number of processes and any faults.                     *)
(***************************************************************************)
THEOREM PipelineImplementsDelivery == Spec => DeliverySafety
<1>1. Init => Delivery!Init /\ Origin
  <2> SUFFICES ASSUME Init PROVE accepted = {} /\ settled = {} /\ Origin
    BY DEF Delivery!Init, accepted, settled
  <2>1. Entries(jobs) = {} /\ Entries(results) = {}
    BY DEF Init, Entries, EmptyStream
  <2> QED
    BY <2>1 DEF Init, accepted, settled, Settled, Origin
<1>2. TypeOK /\ Origin /\ [Next]_vars => Origin'
  <2>1. Origin /\ UNCHANGED vars => Origin'
    BY DEF Origin, accepted, vars, streamVars
  <2> QED
    BY <2>1, OriginKept
<1>3. TypeOK /\ Origin /\ [Next]_vars => [Delivery!Next]_(Delivery!vars)
  BY StepIsPromised
<1> QED
  BY <1>1, <1>2, <1>3, TypeCorrect, PTL DEF Spec, DeliverySafety, Delivery!Safety

-----------------------------------------------------------------------------
(* The retry budget.                                                       *)

\* How process p comes to retry an entry: by counting its attempts.
CountedRetry(p) ==
  \/ stage'[p] = stage[p] /\ hand'[p] = hand[p]
  \/ stage'[p] \notin {"requeue", "retry"}
  \/ \E m \in hand[p], q \in BOOLEAN :
       /\ p \in Workers /\ First(p, m) /\ WorkerHandlesError(p, m, q)
       /\ q => quota' = quota + 1
  \/ \E m \in hand[p] : p \in Consumers /\ First(p, m) /\ ConsumerHandlesError(p, m)

\* The others do not move when process p does.
LEMMA OthersStand ==
  ASSUME NEW p \in Processes, OnlyMoves(p), CountedRetry(p)
  PROVE  \A q \in Processes : CountedRetry(q)
BY DEF OnlyMoves, CountedRetry

\* A step to a stage that is not a retry.
LEMMA OtherStage ==
  ASSUME ProcessOK, NEW p \in Processes,
         \/ \E s : GoTo(p, s) /\ s \notin {"requeue", "retry"}
         \/ \E c, ids : TakeBatch(p, c, ids)
         \/ \E m : FinishEntry(p, m)
         \/ Escape(p)
         \/ /\ stage' = [stage EXCEPT ![p] = "down"]
            /\ hand' = [hand EXCEPT ![p] = {}]
  PROVE  \A q \in Processes : CountedRetry(q)
<1>1. stage'[p] \notin {"requeue", "retry"}
  BY DEF ProcessOK, GoTo, TakeBatch, FinishEntry, Escape
<1>2. OnlyMoves(p)
  BY OneMoves
<1> QED
  BY <1>1, <1>2, OthersStand DEF CountedRetry

\* A step of error handling.
LEMMA ErrorStage ==
  ASSUME ProcessOK, NEW p \in Processes, NEW m \in hand[p], First(p, m),
         \/ /\ p \in Workers
            /\ \E q \in BOOLEAN : WorkerHandlesError(p, m, q) /\ (q => quota' = quota + 1)
         \/ p \in Consumers /\ ConsumerHandlesError(p, m)
  PROVE  \A q \in Processes : CountedRetry(q)
<1>1. \E s : GoTo(p, s)
  BY DEF WorkerHandlesError, ConsumerHandlesError
<1>2. OnlyMoves(p)
  BY <1>1, OneMoves
<1> QED
  BY <1>2, OthersStand DEF CountedRetry

\* Every step counts its retries.
LEMMA RetriesCounted ==
  ASSUME TypeOK, PipelineAssumption, Next
  PROVE  \A p \in Processes : CountedRetry(p)
<1>1. ProcessOK
  BY TypeParts
<1>2. ASSUME NEW j \in Jobs, SaveRequest(j) \/ Enqueue(j) \/ EnqueueFails(j)
      PROVE  \A p \in Processes : CountedRetry(p)
  BY <1>2 DEF SaveRequest, Enqueue, EnqueueFails, processVars, CountedRetry
<1>3. ASSUME NEW w \in Workers,
             \/ WorkerStep(w)
             \/ \E m \in hand[w] : First(w, m) /\ WorkerCallFails(w, m)
      PROVE  \A p \in Processes : CountedRetry(p)
  <2>1. w \in Processes
    BY DEF Processes
  <2>2. CASE WorkerClaims(w) \/ WorkerReads(w)
    BY <1>1, <2>1, <2>2, OtherStage DEF WorkerClaims, WorkerReads
  <2>3. ASSUME NEW m \in hand[w], First(w, m),
               LlmSucceeds(w, m) \/ LlmFails(w, m) \/ LlmQuotaError(w, m)
        PROVE  \A p \in Processes : CountedRetry(p)
    <3>1. CASE LlmSucceeds(w, m)
      BY <1>1, <2>1, <3>1, OtherStage DEF LlmSucceeds
    <3>2. CASE LlmFails(w, m)
      BY <1>1, <2>1, <2>3, <3>2, ErrorStage DEF LlmFails
    <3>3. CASE LlmQuotaError(w, m)
      BY <1>1, <2>1, <2>3, <3>3, ErrorStage DEF LlmQuotaError
    <3> QED
      BY <2>3, <3>1, <3>2, <3>3
  <2>4. ASSUME NEW m \in hand[w], AfterWorkerCall(w, m)
        PROVE  \A p \in Processes : CountedRetry(p)
    <3>1. \/ FinishEntry(w, m)
          \/ \E s \in {"ack", "dlq", "done"} : GoTo(w, s)
      BY <2>4 DEF AfterWorkerCall
    <3> QED
      BY <1>1, <2>1, <3>1, OtherStage
  <2>5. ASSUME NEW m \in hand[w], First(w, m), WorkerCallFails(w, m)
        PROVE  \A p \in Processes : CountedRetry(p)
    BY <1>1, <2>1, <2>5, ErrorStage, OtherStage DEF WorkerCallFails
  <2> QED
    BY <1>3, <2>2, <2>3, <2>4, <2>5 DEF WorkerStep, WorkerCalls
<1>4. ASSUME NEW c \in Consumers,
             \/ ConsumerStep(c)
             \/ \E m \in hand[c] : /\ First(c, m)
                                   /\ HandlerFails(c, m) \/ ConsumerCallFails(c, m)
      PROVE  \A p \in Processes : CountedRetry(p)
  <2>1. c \in Processes
    BY DEF Processes
  <2>2. CASE ConsumerClaims(c) \/ ConsumerReads(c)
    BY <1>1, <2>1, <2>2, OtherStage DEF ConsumerClaims, ConsumerReads
  <2>3. ASSUME NEW m \in hand[c], First(c, m),
               \/ ApplyResult(c, m) \/ SettleResult(c, m) \/ EmptyPlan(c, m)
               \/ ReportFailedResult(c, m) \/ ReportExhausted(c, m)
        PROVE  \A p \in Processes : CountedRetry(p)
    <3>1. \E s \in {"settle", "ack", "done"} : GoTo(c, s)
      BY <2>3 DEF ApplyResult, SettleResult, EmptyPlan, ReportFailedResult, ReportExhausted
    <3> QED
      BY <1>1, <2>1, <3>1, OtherStage
  <2>4. ASSUME NEW m \in hand[c], First(c, m), HandlerRejects(c, m) \/ HandlerFails(c, m)
        PROVE  \A p \in Processes : CountedRetry(p)
    BY <1>1, <2>1, <2>4, ErrorStage DEF HandlerRejects, HandlerFails
  <2>5. ASSUME NEW m \in hand[c], First(c, m), ConsumerCalls(c, m)
        PROVE  \A p \in Processes : CountedRetry(p)
    <3>1. \/ FinishEntry(c, m)
          \/ \E s \in {"report", "done"} : GoTo(c, s)
      BY <2>5 DEF ConsumerCalls
    <3> QED
      BY <1>1, <2>1, <3>1, OtherStage
  <2>6. ASSUME NEW m \in hand[c], First(c, m), ConsumerCallFails(c, m)
        PROVE  \A p \in Processes : CountedRetry(p)
    BY <1>1, <2>1, <2>6, ErrorStage, OtherStage DEF ConsumerCallFails
  <2> QED
    BY <1>4, <2>2, <2>3, <2>4, <2>5, <2>6 DEF ConsumerStep
<1>5. ASSUME \/ \E i \in jobs.pending : JobTurnsIdle(i)
             \/ \E i \in results.pending : ResultTurnsIdle(i)
             \/ \E p \in Processes : PollFails(p) \/ Crash(p) \/ Restart(p)
      PROVE  \A p \in Processes : CountedRetry(p)
  <2>1. CASE UNCHANGED <<stage, hand>>
    BY <2>1 DEF CountedRetry
  <2>2. CASE \E p \in Processes : \/ Escape(p)
                                  \/ /\ stage' = [stage EXCEPT ![p] = "down"]
                                     /\ hand' = [hand EXCEPT ![p] = {}]
                                  \/ GoTo(p, "poll")
    BY <1>1, <2>2, OtherStage
  <2> QED
    BY <1>5, <2>1, <2>2, EnvironmentGood
<1> QED
  BY <1>2, <1>3, <1>4, <1>5 DEF Next

\* A process about to write a retry has the attempt left.
RetryDuty(p) ==
  \A m \in hand[p] : First(p, m) =>
    /\ p \in Workers /\ stage[p] = "requeue"
         => jobs.log[m].attempts + 1 <= MaxRetries + quota
    /\ p \in Consumers /\ stage[p] = "retry" => results.log[m].attempts + 1 <= MaxRetries

RetryInv == AttemptsBounded /\ \A p \in Processes : RetryDuty(p)

\* Quota errors are counted, never forgotten.
LEMMA QuotaGrows ==
  ASSUME TypeOK, PipelineAssumption, Next
  PROVE  /\ MaxRetries \in Nat /\ quota \in Nat /\ quota' \in Nat /\ quota' >= quota
         /\ 0 <= MaxRetries + quota'
<1>1. quota' \in Nat
  BY NextGood DEF GoodStep, TypeOK
<1>2. quota' = quota \/ quota' = quota + 1
  BY DEF Next, SaveRequest, Enqueue, EnqueueFails, WorkerStep, WorkerClaims, WorkerReads,
     LlmSucceeds, LlmFails, LlmQuotaError, WorkerCalls, WorkerCallFails, ConsumerStep,
     ConsumerClaims, ConsumerReads, ApplyResult, SettleResult, EmptyPlan,
     ReportFailedResult, HandlerRejects, HandlerFails, ConsumerCalls, ConsumerCallFails,
     ReportExhausted, JobTurnsIdle, ResultTurnsIdle, PollFails, Crash, Restart
<1>3. MaxRetries \in Nat /\ quota \in Nat
  BY DEF TypeOK, PipelineAssumption
<1>4. quota' >= quota
  BY <1>1, <1>2, <1>3
<1>5. 0 <= MaxRetries + quota'
  <2>1. \A a, b \in Nat : 0 <= a + b
    OBVIOUS
  <2> QED
    BY <1>1, <1>3, <2>1
<1> QED
  BY <1>1, <1>3, <1>4, <1>5

\* The bounds survive a step, because each added entry counts one attempt more
\* than an entry whose retry was granted.
LEMMA BoundsKept ==
  ASSUME TypeOK, PipelineAssumption, RetryInv, Next
  PROVE  AttemptsBounded'
<1>1. JobsGrow /\ ResultsGrow /\ StreamsOK
  BY Anatomy, TypeParts
<1>2. /\ MaxRetries \in Nat /\ quota \in Nat /\ quota' \in Nat /\ quota' >= quota
      /\ 0 <= MaxRetries + quota'
  BY QuotaGrows
<1>3. /\ \A i \in Entries(jobs) : jobs.log[i].attempts \in Nat
      /\ \A i \in Entries(results) : results.log[i].attempts \in Nat
  <2>1. /\ \A i \in Entries(jobs) : jobs.log[i] \in JobEntry
        /\ \A i \in Entries(results) : results.log[i] \in ResultEntry
    BY <1>1, StreamFields DEF StreamsOK
  <2> QED
    BY <2>1 DEF JobEntry, ResultEntry
<1>4. \A i \in Entries(jobs') : jobs'.log[i].attempts <= MaxRetries + quota'
  <2>1. CASE jobs'.log = jobs.log
    BY <1>2, <1>3, <2>1 DEF RetryInv, AttemptsBounded, Entries
  <2>2. ASSUME NEW x \in JobEntry, jobs' = XAdd(jobs, x),
               x.attempts <= MaxRetries + quota'
        PROVE  \A i \in Entries(jobs') : jobs'.log[i].attempts <= MaxRetries + quota'
    <3>1. PICK k : /\ Entries(jobs') = Entries(jobs) \cup {k}
                   /\ jobs'.log[k] = x
                   /\ \A i \in Entries(jobs) : jobs'.log[i] = jobs.log[i]
      BY <1>1, <2>2, JobAdded
    <3>2. \A i \in Entries(jobs) : jobs.log[i].attempts <= MaxRetries + quota'
      BY <1>2, <1>3 DEF RetryInv, AttemptsBounded
    <3> QED
      BY <2>2, <3>1, <3>2
  <2>3. ASSUME NEW w \in Workers, NEW m \in hand[w], First(w, m), stage[w] = "requeue"
        PROVE  jobs.log[m].attempts + 1 <= MaxRetries + quota'
    <3>1. jobs.log[m].attempts + 1 <= MaxRetries + quota /\ jobs.log[m].attempts \in Nat
      BY <2>3, JobAtHand DEF RetryInv, RetryDuty, Processes
    <3> QED
      BY <1>2, <3>1
  <2> QED
    BY <1>1, <1>2, <2>1, <2>2, <2>3, JobsGrowBy
<1>5. \A i \in Entries(results') : results'.log[i].attempts <= MaxRetries + 1 + quota'
  <2>1. CASE results'.log = results.log
    BY <1>2, <1>3, <2>1 DEF RetryInv, AttemptsBounded, Entries
  <2>2. ASSUME NEW x \in ResultEntry, results' = XAdd(results, x),
               x.attempts <= MaxRetries + 1 + quota'
        PROVE  \A i \in Entries(results') : results'.log[i].attempts <= MaxRetries + 1 + quota'
    <3>1. PICK k : /\ Entries(results') = Entries(results) \cup {k}
                   /\ results'.log[k] = x
                   /\ \A i \in Entries(results) : results'.log[i] = results.log[i]
      BY <1>1, <2>2, ResultAdded
    <3>2. \A i \in Entries(results) : results.log[i].attempts <= MaxRetries + 1 + quota'
      BY <1>2, <1>3 DEF RetryInv, AttemptsBounded
    <3> QED
      BY <2>2, <3>1, <3>2
  <2>3. ASSUME NEW w \in Workers, NEW m \in hand[w]
        PROVE  /\ ReportedAttempts(jobs.log[m], jobs.log[m].attempts) <= MaxRetries + 1 + quota'
               /\ ReportedAttempts(jobs.log[m], jobs.log[m].attempts + 1)
                    <= MaxRetries + 1 + quota'
    <3>1. jobs.log[m].attempts <= MaxRetries + quota /\ jobs.log[m].attempts \in Nat
      BY <2>3, JobAtHand DEF RetryInv, AttemptsBounded
    <3> QED
      BY <1>2, <3>1 DEF ReportedAttempts
  <2>4. ASSUME NEW c \in Consumers, NEW m \in hand[c], First(c, m), stage[c] = "retry"
        PROVE  results.log[m].attempts + 1 <= MaxRetries + 1 + quota'
    <3>1. results.log[m].attempts + 1 <= MaxRetries /\ results.log[m].attempts \in Nat
      BY <2>4, ResultAtHand DEF RetryInv, RetryDuty, Processes
    <3> QED
      BY <1>2, <3>1
  <2> QED
    BY <1>1, <2>1, <2>2, <2>3, <2>4, ResultsGrowBy
<1> QED
  BY <1>4, <1>5 DEF AttemptsBounded

\* A step grants a retry only to an entry that has an attempt left.
LEMMA RetryDutyKept ==
  ASSUME TypeOK, PipelineAssumption, RetryInv, Next, NEW p \in Processes
  PROVE  RetryDuty(p)'
<1>1. PICK a, b : JobAcked(a) /\ ResultAcked(b) /\ Kept(a, b)
  BY NextGood DEF GoodStep
<1>2. /\ \A i \in Entries(jobs) : jobs'.log[i] = jobs.log[i] /\ i \in Nat
      /\ \A i \in Entries(results) : results'.log[i] = results.log[i] /\ i \in Nat
  BY <1>1 DEF Kept, StreamsStep, Extends, Entries
<1>3. MaxRetries \in Nat /\ quota \in Nat /\ quota' \in Nat /\ quota' >= quota
  BY QuotaGrows
<1>4. /\ p \in Workers => hand[p] \subseteq Entries(jobs)
      /\ p \in Consumers => hand[p] \subseteq Entries(results)
      /\ Workers \cap Consumers = {}
      /\ stage \in [Processes -> WorkerStages \cup ConsumerStages]
      /\ hand[p] \subseteq Nat
  BY DEF TypeOK, PipelineAssumption
<1>5. CASE stage'[p] = stage[p] /\ hand'[p] = hand[p]
  <2> SUFFICES ASSUME NEW m \in hand[p], First(p, m)
               PROVE  /\ p \in Workers /\ stage[p] = "requeue"
                           => jobs'.log[m].attempts + 1 <= MaxRetries + quota'
                      /\ p \in Consumers /\ stage[p] = "retry"
                           => results'.log[m].attempts + 1 <= MaxRetries
    BY <1>5 DEF RetryDuty, First
  <2>1. RetryDuty(p)
    BY DEF RetryInv
  <2>2. ASSUME p \in Workers, stage[p] = "requeue"
        PROVE  jobs'.log[m].attempts + 1 <= MaxRetries + quota'
    <3>1. jobs.log[m].attempts + 1 <= MaxRetries + quota /\ jobs.log[m].attempts \in Nat
      BY <2>1, <2>2, JobAtHand DEF RetryDuty
    <3> QED
      BY <1>2, <1>3, <1>4, <2>2, <3>1
  <2>3. ASSUME p \in Consumers, stage[p] = "retry"
        PROVE  results'.log[m].attempts + 1 <= MaxRetries
    BY <1>2, <1>4, <2>1, <2>3 DEF RetryDuty
  <2> QED
    BY <2>2, <2>3
<1>6. CASE stage'[p] \notin {"requeue", "retry"}
  BY <1>6 DEF RetryDuty
<1>7. ASSUME NEW m \in hand[p], NEW q \in BOOLEAN, p \in Workers, First(p, m),
             WorkerHandlesError(p, m, q), q => quota' = quota + 1
      PROVE  RetryDuty(p)'
  <2>1. /\ hand' = hand /\ p \notin Consumers
        /\ stage'[p] = "requeue" => q \/ jobs.log[m].attempts + 1 <= MaxRetries
    BY <1>4, <1>7 DEF WorkerHandlesError, GoTo
  <2>2. \A n \in hand'[p] : First(p, n)' => n = m
    BY <1>4, <1>7, <2>1 DEF First
  <2>3. jobs.log[m].attempts \in Nat /\ jobs.log[m].attempts <= MaxRetries + quota
    BY <1>7, JobAtHand DEF RetryInv, AttemptsBounded
  <2>4. stage'[p] = "requeue" => jobs'.log[m].attempts + 1 <= MaxRetries + quota'
    <3>1. jobs'.log[m].attempts = jobs.log[m].attempts
      BY <1>2, <1>4, <1>7
    <3> QED
      BY <1>3, <1>7, <2>1, <2>3, <3>1
  <2> QED
    BY <2>1, <2>2, <2>4 DEF RetryDuty
<1>8. ASSUME NEW m \in hand[p], p \in Consumers, First(p, m), ConsumerHandlesError(p, m)
      PROVE  RetryDuty(p)'
  <2>1. /\ hand' = hand /\ p \notin Workers
        /\ stage'[p] = "retry" => ~(results.log[m].attempts + 1 > MaxRetries)
    BY <1>4, <1>8 DEF ConsumerHandlesError, GoTo
  <2>2. \A n \in hand'[p] : First(p, n)' => n = m
    BY <1>4, <1>8, <2>1 DEF First
  <2>3. results.log[m].attempts \in Nat
    BY <1>8, ResultAtHand
  <2>4. results'.log[m] = results.log[m]
    BY <1>2, <1>4, <1>8
  <2>5. stage'[p] = "retry" => results'.log[m].attempts + 1 <= MaxRetries
    BY <1>3, <2>1, <2>3, <2>4
  <2> QED
    BY <2>1, <2>2, <2>5 DEF RetryDuty
<1> QED
  BY <1>5, <1>6, <1>7, <1>8, RetriesCounted DEF CountedRetry

(***************************************************************************)
(* The retry budget is one budget for worker and consumer together: no     *)
(* entry of either stream ever carries more attempts than MaxRetries and   *)
(* the quota errors allow, however the entries are claimed and repeated.   *)
(***************************************************************************)
THEOREM AttemptsAreBounded == Spec => []AttemptsBounded
<1>1. Init => RetryInv
  BY DEF Init, RetryInv, AttemptsBounded, RetryDuty, Entries, EmptyStream
<1>2. TypeOK /\ RetryInv /\ [Next]_vars => RetryInv'
  <2>1. TypeOK /\ RetryInv /\ Next => RetryInv'
    BY BoundsKept, RetryDutyKept, PipelineAssumption DEF RetryInv
  <2>2. RetryInv /\ UNCHANGED vars => RetryInv'
    BY DEF RetryInv, AttemptsBounded, RetryDuty, First, vars, streamVars, processVars
  <2> QED
    BY <2>1, <2>2
<1>3. RetryInv => AttemptsBounded
  BY DEF RetryInv
<1> QED
  BY <1>1, <1>2, <1>3, TypeCorrect, PTL DEF Spec

-----------------------------------------------------------------------------
(* What becomes of the jobs that failed.                                   *)

\* Job j can be found again: it ended well somewhere, or it is shelved.
Fine(j) == ~(outcome[j] \subseteq {"failed"}) \/ j \in jobsDlq \cup resultsDlq

\* A result that reports no failure and has not been acknowledged.
Hopeful(i) == i \in Unacked(results) /\ results.log[i].ok

\* Apart from entry m, job j can still end well, or be found again.
JobTold(m) ==
  LET j == jobs.log[m].job IN
  \/ \E i \in Unacked(jobs) : i > m /\ jobs.log[i].job = j
  \/ \E i \in Entries(results) : Hopeful(i) /\ results.log[i].job = j
  \/ Fine(j)

ResultTold(m) ==
  LET j == results.log[m].job IN
  \/ \E i \in Entries(results) : i > m /\ Hopeful(i) /\ results.log[i].job = j
  \/ Fine(j)

Told(j) ==
  \/ \E i \in Unacked(jobs) : jobs.log[i].job = j
  \/ \E i \in Entries(results) : Hopeful(i) /\ results.log[i].job = j
  \/ Fine(j)

\* Nobody acknowledges the last entry of a job that failed and is not shelved;
\* the result that reports the failure itself carries nothing.
TellDuty(p) ==
  \A m \in hand[p] : First(p, m) =>
    /\ p \in Workers /\ stage[p] \in {"ack", "done"} => JobTold(m)
    /\ p \in Consumers /\ results.log[m].ok =>
         /\ stage[p] \in {"ack", "report"} => Fine(results.log[m].job)
         /\ stage[p] = "done" => ResultTold(m)

ToldInv ==
  /\ Origin
  /\ \A p \in Processes : TellDuty(p)
  /\ \A j \in accepted : Told(j)
  /\ \A j \in Jobs : outcome[j] # {} => j \in accepted

\* What was fine stays fine.
LEMMA FineKept ==
  ASSUME OutcomesGrow, jobsDlq \subseteq jobsDlq', resultsDlq \subseteq resultsDlq',
         NEW j \in Jobs, Fine(j)
  PROVE  Fine(j)'
BY DEF OutcomesGrow, Fine

\* The carriers of a job survive a step, whichever entries it acknowledges.
LEMMA ToldKept ==
  ASSUME TypeOK, OutcomesGrow, \A p \in Processes : TellDuty(p),
         NEW a, NEW b, JobAcked(a), ResultAcked(b), Kept(a, b)
  PROVE  /\ \A j \in Jobs : Fine(j) => Fine(j)'
         /\ \A m \in Entries(jobs) : JobTold(m) => JobTold(m)'
         /\ \A m \in Entries(results) : ResultTold(m) => ResultTold(m)'
         /\ \A j \in Jobs : Told(j) => Told(j)'
<1>1. /\ \A i \in Entries(jobs) : i \in Nat /\ jobs.log[i].job \in Jobs
      /\ \A i \in Entries(results) : i \in Nat /\ results.log[i].job \in Jobs
  <2>1. jobs \in StreamOf(JobEntry) /\ results \in StreamOf(ResultEntry)
    BY DEF TypeOK
  <2>2. /\ \A i \in Entries(jobs) : i \in Nat /\ jobs.log[i] \in JobEntry
        /\ \A i \in Entries(results) : i \in Nat /\ results.log[i] \in ResultEntry
    BY <2>1, StreamFields
  <2> QED
    BY <2>2 DEF JobEntry, ResultEntry
<1>2. ASSUME NEW j \in Jobs, Fine(j) PROVE Fine(j)'
  BY <1>2, FineKept DEF Kept, StreamsStep
<1>3. a # 0 => a \in Entries(jobs) /\ JobTold(a)
  BY DEF JobAcked, TellDuty, First, TypeOK, Processes
<1>4. b # 0 => b \in Entries(results) /\ (results.log[b].ok => ResultTold(b))
  BY DEF ResultAcked, TellDuty, First, TypeOK, Processes, ResultTold
<1>5. /\ Unacked(jobs) \subseteq Entries(jobs)
      /\ \A i : Hopeful(i) => i \in Entries(results) /\ results.log[i].ok
      /\ 0 \notin Entries(jobs) /\ 0 \notin Entries(results)
  BY DEF Unacked, Hopeful, Entries
<1>6. /\ \A k \in Unacked(jobs') : k \in Nat
      /\ \A k \in Entries(results') : k \in Nat
  BY DEF Unacked, Entries
<1>7. /\ \A i \in Entries(jobs) : jobs'.log[i] = jobs.log[i]
      /\ \A i \in Entries(results) : i \in Entries(results') /\ results'.log[i] = results.log[i]
      /\ Unacked(jobs) \ {a} \subseteq Unacked(jobs')
      /\ \A i \in Entries(results) \ {b} : Hopeful(i) => Hopeful(i)'
  BY DEF Kept, StreamsStep, Extends, Hopeful
<1>8. ASSUME NEW i \in Entries(results), Hopeful(i)
      PROVE  \/ \E k \in Entries(results') :
                  k >= i /\ Hopeful(k)' /\ results'.log[k].job = results.log[i].job
             \/ Fine(results.log[i].job)'
  <2>1. CASE i # b
    BY <1>1, <1>7, <1>8, <2>1
  <2>2. CASE i = b
    <3>1. ResultTold(i)
      BY <1>4, <1>5, <1>8, <2>2
    <3>2. CASE Fine(results.log[i].job)
      BY <1>1, <1>2, <1>7, <3>2
    <3>3. ASSUME NEW k \in Entries(results), k > i, Hopeful(k),
                 results.log[k].job = results.log[i].job
          PROVE  \E n \in Entries(results') :
                   n >= i /\ Hopeful(n)' /\ results'.log[n].job = results.log[i].job
      <4>1. k # b /\ k >= i
        BY <1>1, <2>2, <3>3
      <4> QED
        BY <1>7, <3>3, <4>1
    <3> QED
      BY <3>1, <3>2, <3>3 DEF ResultTold
  <2> QED
    BY <2>1, <2>2
<1>9. ASSUME NEW i \in Unacked(jobs)
      PROVE  \/ \E k \in Unacked(jobs') :
                  k >= i /\ jobs'.log[k].job = jobs.log[i].job
             \/ \E k \in Entries(results') :
                  Hopeful(k)' /\ results'.log[k].job = jobs.log[i].job
             \/ Fine(jobs.log[i].job)'
  <2>1. CASE i # a
    BY <1>1, <1>5, <1>7, <2>1
  <2>2. CASE i = a
    <3>1. JobTold(i)
      BY <1>3, <1>5, <2>2
    <3>2. CASE Fine(jobs.log[i].job)
      BY <1>1, <1>2, <1>5, <1>7, <3>2
    <3>3. CASE \E k \in Entries(results) : Hopeful(k) /\ results.log[k].job = jobs.log[i].job
      BY <1>5, <1>7, <1>8, <3>3
    <3>4. ASSUME NEW k \in Unacked(jobs), k > i, jobs.log[k].job = jobs.log[i].job
          PROVE  \E n \in Unacked(jobs') :
                   n >= i /\ jobs'.log[n].job = jobs.log[i].job
      <4>1. k # a /\ k >= i
        BY <1>1, <1>5, <2>2, <3>4
      <4> QED
        BY <1>5, <1>7, <3>4, <4>1
    <3> QED
      BY <3>1, <3>2, <3>3, <3>4 DEF JobTold
  <2> QED
    BY <2>1, <2>2
<1>10. ASSUME NEW m \in Entries(results), ResultTold(m) PROVE ResultTold(m)'
  <2>1. results'.log[m].job = results.log[m].job
    BY <1>7
  <2>2. CASE Fine(results.log[m].job)
    BY <1>1, <1>2, <2>1, <2>2 DEF ResultTold
  <2>3. ASSUME NEW i \in Entries(results), i > m, Hopeful(i),
               results.log[i].job = results.log[m].job
        PROVE  ResultTold(m)'
    <3>1. CASE Fine(results.log[i].job)'
      BY <1>7, <2>1, <2>3, <3>1 DEF ResultTold
    <3>2. ASSUME NEW k \in Entries(results'), k >= i, Hopeful(k)',
                 results'.log[k].job = results.log[i].job
          PROVE  ResultTold(m)'
      <4>1. k > m
        BY <1>1, <1>6, <2>3, <3>2
      <4> QED
        BY <2>1, <2>3, <3>2, <4>1 DEF ResultTold
    <3> QED
      BY <1>8, <2>3, <3>1, <3>2
  <2> QED
    BY <1>10, <2>2, <2>3 DEF ResultTold
<1>11. ASSUME NEW m \in Entries(jobs), JobTold(m) PROVE JobTold(m)'
  <2>1. jobs'.log[m].job = jobs.log[m].job
    BY <1>7
  <2>2. CASE Fine(jobs.log[m].job)
    BY <1>1, <1>2, <2>1, <2>2 DEF JobTold
  <2>3. ASSUME NEW i \in Entries(results), Hopeful(i), results.log[i].job = jobs.log[m].job
        PROVE  JobTold(m)'
    BY <1>7, <1>8, <2>1, <2>3 DEF JobTold
  <2>4. ASSUME NEW i \in Unacked(jobs), i > m, jobs.log[i].job = jobs.log[m].job
        PROVE  JobTold(m)'
    <3>1. CASE \/ \E k \in Entries(results') :
                    Hopeful(k)' /\ results'.log[k].job = jobs.log[i].job
               \/ Fine(jobs.log[i].job)'
      BY <1>5, <1>7, <2>1, <2>4, <3>1 DEF JobTold
    <3>2. ASSUME NEW k \in Unacked(jobs'), k >= i, jobs'.log[k].job = jobs.log[i].job
          PROVE  JobTold(m)'
      <4>1. k > m
        BY <1>1, <1>5, <1>6, <2>4, <3>2
      <4> QED
        BY <2>1, <2>4, <3>2, <4>1 DEF JobTold
    <3> QED
      BY <1>9, <3>1, <3>2
  <2> QED
    BY <1>11, <2>2, <2>3, <2>4 DEF JobTold
<1>12. ASSUME NEW j \in Jobs, Told(j) PROVE Told(j)'
  BY <1>2, <1>5, <1>7, <1>8, <1>9, <1>12 DEF Told
<1> QED
  BY <1>2, <1>10, <1>11, <1>12

\* How a process comes to a stage at which it relies on another carrier.
WorkerTells(w, m) ==
  LET e == jobs.log[m] IN
  \/ PublishResult(e, TRUE, ReportedAttempts(e, e.attempts))
  \/ RequeueJob(e)
  \/ SendToJobsDlq(e.job)

ConsumerTells(c, m) ==
  LET r == results.log[m] IN
  \/ ~r.ok
  \/ \E o \in {"completed", "nothing"} : EndsWith(r.job, o)
  \/ RetryResult(m) /\ stage'[c] = "done"
  \/ SendToResultsDlq(r.job)
  \/ stage[c] = "report"

Tells(p) ==
  \/ stage'[p] = stage[p] /\ hand'[p] = hand[p]
  \/ stage'[p] \notin {"ack", "report", "done"}
  \/ \E m \in hand[p] :
       /\ First(p, m) /\ hand'[p] = hand[p]
       /\ p \in Workers => WorkerTells(p, m)
       /\ p \in Consumers => ConsumerTells(p, m)

\* The others do not move when process p does.
LEMMA OthersTell ==
  ASSUME NEW p \in Processes, OnlyMoves(p), Tells(p)
  PROVE  \A q \in Processes : Tells(q)
BY DEF OnlyMoves, Tells

\* A step to a stage at which a process relies on nothing.
LEMMA NothingToTell ==
  ASSUME ProcessOK, NEW p \in Processes,
         \/ \E s : GoTo(p, s) /\ s \notin {"ack", "report", "done"}
         \/ \E c, ids : TakeBatch(p, c, ids)
         \/ \E m : FinishEntry(p, m)
         \/ Escape(p)
         \/ /\ stage' = [stage EXCEPT ![p] = "down"]
            /\ hand' = [hand EXCEPT ![p] = {}]
  PROVE  \A q \in Processes : Tells(q)
<1>1. stage'[p] \notin {"ack", "report", "done"}
  BY DEF ProcessOK, GoTo, TakeBatch, FinishEntry, Escape
<1>2. OnlyMoves(p)
  BY OneMoves
<1> QED
  BY <1>1, <1>2, OthersTell DEF Tells

\* A step that provides the carrier that the new stage relies on.
LEMMA SomethingToTell ==
  ASSUME ProcessOK, PipelineAssumption, NEW p \in Processes, NEW m \in hand[p],
         First(p, m), \E s : GoTo(p, s),
         p \in Workers => WorkerTells(p, m), p \in Consumers => ConsumerTells(p, m)
  PROVE  \A q \in Processes : Tells(q)
<1>1. OnlyMoves(p) /\ hand'[p] = hand[p]
  BY OneMoves DEF GoTo
<1>2. Tells(p)
  BY <1>1 DEF Tells
<1> QED
  BY <1>1, <1>2, OthersTell

\* Every worker's step provides what its next stage relies on.
LEMMA WorkersTell ==
  ASSUME TypeOK, PipelineAssumption, NEW w \in Workers,
         \/ WorkerStep(w)
         \/ \E m \in hand[w] : First(w, m) /\ WorkerCallFails(w, m)
  PROVE  \A p \in Processes : Tells(p)
<1>1. ProcessOK /\ w \in Processes /\ w \notin Consumers
  BY TypeParts DEF Processes, PipelineAssumption
<1>2. CASE WorkerClaims(w) \/ WorkerReads(w)
  BY <1>1, <1>2, NothingToTell DEF WorkerClaims, WorkerReads
<1>3. ASSUME NEW m \in hand[w], First(w, m),
             LlmSucceeds(w, m) \/ LlmFails(w, m) \/ LlmQuotaError(w, m)
      PROVE  \A p \in Processes : Tells(p)
  <2>1. \E s \in {"publish", "requeue", "publishFailed"} : GoTo(w, s)
    BY <1>3, WorkerLlm
  <2> QED
    BY <1>1, <2>1, NothingToTell
<1>4. ASSUME NEW m \in hand[w], First(w, m), WorkerCalls(w, m)
      PROVE  \A p \in Processes : Tells(p)
  <2>1. CASE stage[w] \in {"ack", "done"}
    BY <1>1, <1>4, <2>1, NothingToTell DEF WorkerCalls, AfterWorkerCall
  <2>2. CASE stage[w] = "publishFailed"
    BY <1>1, <1>4, <2>2, NothingToTell DEF WorkerCalls, AfterWorkerCall
  <2>3. CASE stage[w] \in {"start", "publish", "requeue", "dlq"}
    <3>1. \E s : GoTo(w, s)
      BY <1>4, <2>3 DEF WorkerCalls, AfterWorkerCall
    <3>2. WorkerTells(w, m)
      BY <1>4, <2>3 DEF WorkerCalls, WorkerCall, WorkerTells
    <3> QED
      BY <1>1, <1>4, <3>1, <3>2, SomethingToTell
  <2> QED
    BY <1>4, <2>1, <2>2, <2>3 DEF WorkerCalls, WorkerCall
<1>5. ASSUME NEW m \in hand[w], First(w, m), WorkerCallFails(w, m)
      PROVE  \A p \in Processes : Tells(p)
  <2>1. \/ \E s \in {"requeue", "publishFailed"} : GoTo(w, s)
        \/ Escape(w)
    BY <1>5, WorkerCallFailsGood
  <2> QED
    BY <1>1, <2>1, NothingToTell
<1> QED
  BY <1>2, <1>3, <1>4, <1>5 DEF WorkerStep

\* So does every step of a result consumer.
LEMMA ConsumersTell ==
  ASSUME TypeOK, PipelineAssumption, NEW c \in Consumers,
         \/ ConsumerStep(c)
         \/ \E m \in hand[c] : /\ First(c, m)
                               /\ HandlerFails(c, m) \/ ConsumerCallFails(c, m)
  PROVE  \A p \in Processes : Tells(p)
<1>1. ProcessOK /\ c \in Processes /\ c \notin Workers
  BY TypeParts DEF Processes, PipelineAssumption
<1>2. CASE ConsumerClaims(c) \/ ConsumerReads(c)
  BY <1>1, <1>2, NothingToTell DEF ConsumerClaims, ConsumerReads
<1>3. ASSUME NEW m \in hand[c], ConsumerHandlesError(c, m)
      PROVE  \A p \in Processes : Tells(p)
  <2>1. \E s \in {"dlq", "retry"} : GoTo(c, s)
    BY <1>3 DEF ConsumerHandlesError
  <2> QED
    BY <1>1, <2>1, NothingToTell
<1>4. ASSUME NEW m \in hand[c], First(c, m), ApplyResult(c, m)
      PROVE  \A p \in Processes : Tells(p)
  BY <1>1, <1>4, NothingToTell DEF ApplyResult
<1>5. ASSUME NEW m \in hand[c], First(c, m),
             \/ SettleResult(c, m) \/ EmptyPlan(c, m) \/ ReportFailedResult(c, m)
             \/ ReportExhausted(c, m)
      PROVE  \A p \in Processes : Tells(p)
  <2>1. (\E s : GoTo(c, s)) /\ ConsumerTells(c, m)
    BY <1>5 DEF SettleResult, EmptyPlan, ReportFailedResult, ReportExhausted, ConsumerTells
  <2> QED
    BY <1>1, <1>5, <2>1, SomethingToTell
<1>6. ASSUME NEW m \in hand[c], First(c, m), ConsumerCalls(c, m)
      PROVE  \A p \in Processes : Tells(p)
  <2>1. CASE stage[c] \in {"ack", "done"}
    BY <1>1, <1>6, <2>1, NothingToTell DEF ConsumerCalls
  <2>2. CASE stage[c] = "retry"
    <3>1. GoTo(c, "done") /\ RetryResult(m)
      BY <1>6, <2>2 DEF ConsumerCalls, ConsumerCall
    <3>2. ConsumerTells(c, m)
      BY <1>1, <3>1 DEF ProcessOK, GoTo, ConsumerTells
    <3> QED
      BY <1>1, <1>6, <3>1, <3>2, SomethingToTell
  <2>3. CASE stage[c] = "dlq"
    <3>1. GoTo(c, "report") /\ ConsumerTells(c, m)
      BY <1>6, <2>3 DEF ConsumerCalls, ConsumerCall, ConsumerTells
    <3> QED
      BY <1>1, <1>6, <3>1, SomethingToTell
  <2> QED
    BY <1>6, <2>1, <2>2, <2>3 DEF ConsumerCalls, ConsumerCall
<1>7. ASSUME NEW m \in hand[c], First(c, m), ConsumerCallFails(c, m)
      PROVE  \A p \in Processes : Tells(p)
  BY <1>1, <1>3, <1>7, NothingToTell DEF ConsumerCallFails
<1> QED
  BY <1>2, <1>3, <1>4, <1>5, <1>6, <1>7 DEF ConsumerStep, HandlerRejects, HandlerFails

\* Every step does.
LEMMA EveryoneTells ==
  ASSUME TypeOK, PipelineAssumption, Next
  PROVE  \A p \in Processes : Tells(p)
<1>1. ProcessOK
  BY TypeParts
<1>2. ASSUME NEW j \in Jobs, SaveRequest(j) \/ Enqueue(j) \/ EnqueueFails(j)
      PROVE  \A p \in Processes : Tells(p)
  BY <1>2 DEF SaveRequest, Enqueue, EnqueueFails, processVars, Tells
<1>3. ASSUME \/ \E i \in jobs.pending : JobTurnsIdle(i)
             \/ \E i \in results.pending : ResultTurnsIdle(i)
             \/ \E p \in Processes : PollFails(p) \/ Crash(p) \/ Restart(p)
      PROVE  \A p \in Processes : Tells(p)
  <2>1. CASE UNCHANGED <<stage, hand>>
    BY <2>1 DEF Tells
  <2>2. CASE \E p \in Processes : \/ Escape(p)
                                  \/ /\ stage' = [stage EXCEPT ![p] = "down"]
                                     /\ hand' = [hand EXCEPT ![p] = {}]
                                  \/ GoTo(p, "poll")
    BY <1>1, <2>2, NothingToTell
  <2> QED
    BY <1>3, <2>1, <2>2, EnvironmentGood
<1> QED
  BY <1>2, <1>3, WorkersTell, ConsumersTell DEF Next

\* What a worker relies on after its step is there.
LEMMA WorkerToldKept ==
  ASSUME TypeOK, GoodStep, NEW w \in Workers, NEW m \in hand[w], WorkerTells(w, m)
  PROVE  JobTold(m)'
<1> DEFINE e == jobs.log[m]
<1>1. /\ StreamsOK /\ m \in Entries(jobs) /\ e.job \in Jobs /\ e.attempts \in Nat
  BY TypeParts, JobAtHand
<1>2. jobs'.log[m] = e
  BY <1>1 DEF GoodStep, Kept, StreamsStep, Extends
<1>3. CASE PublishResult(e, TRUE, ReportedAttempts(e, e.attempts))
  <2> DEFINE n == ReportedAttempts(e, e.attempts)
  <2>1. n \in Nat
    BY <1>1 DEF ReportedAttempts
  <2> HIDE DEF n
  <2>2. [job |-> e.job, ok |-> TRUE, attempts |-> n] \in ResultEntry
    BY <1>1, <2>1 DEF ResultEntry
  <2>3. PICK i \in Unacked(results') :
          results'.log[i] = [job |-> e.job, ok |-> TRUE, attempts |-> n]
    BY <1>1, <1>3, <2>2, AddResult DEF PublishResult, n
  <2>4. i \in Entries(results') /\ Hopeful(i)' /\ results'.log[i].job = e.job
    BY <2>3 DEF Hopeful, Unacked
  <2> QED
    BY <1>2, <2>4 DEF JobTold
<1>4. CASE RequeueJob(e)
  <2>1. [job |-> e.job, attempts |-> e.attempts + 1] \in JobEntry
    BY <1>1 DEF JobEntry
  <2>2. \E i \in Unacked(jobs') : i > m /\ jobs'.log[i].job = e.job
    BY <1>1, <1>4, <2>1, AddJob DEF RequeueJob
  <2> QED
    BY <1>2, <2>2 DEF JobTold
<1>5. CASE SendToJobsDlq(e.job)
  <2>1. Fine(jobs.log[m].job)'
    BY <1>2, <1>5 DEF SendToJobsDlq, Fine
  <2> QED
    BY <1>2, <2>1 DEF JobTold
<1> QED
  BY <1>3, <1>4, <1>5 DEF WorkerTells

\* What a result consumer relies on after its step is there.
LEMMA ConsumerToldKept ==
  ASSUME TypeOK, GoodStep, NEW c \in Consumers, NEW m \in hand[c], First(c, m),
         TellDuty(c), results.log[m].ok, ConsumerTells(c, m)
  PROVE  \/ Fine(results.log[m].job)'
         \/ stage'[c] = "done" /\ ResultTold(m)'
<1> DEFINE r == results.log[m]
<1>1. /\ StreamsOK /\ m \in Entries(results) /\ r.job \in Jobs /\ r.attempts \in Nat
      /\ r.ok \in BOOLEAN /\ outcome \in [Jobs -> SUBSET Outcomes]
  BY TypeParts, ResultAtHand DEF TypeOK
<1>2. /\ results'.log[m] = r /\ OutcomesGrow
      /\ jobsDlq \subseteq jobsDlq' /\ resultsDlq \subseteq resultsDlq'
  BY <1>1 DEF GoodStep, Kept, StreamsStep, Extends
<1>3. ASSUME NEW o \in {"completed", "nothing"}, EndsWith(r.job, o)
      PROVE  Fine(results.log[m].job)'
  <2>1. o \in outcome'[r.job] /\ o # "failed"
    BY <1>1, <1>3 DEF EndsWith
  <2> QED
    BY <1>2, <2>1 DEF Fine
<1>4. CASE RetryResult(m) /\ stage'[c] = "done"
  <2> DEFINE x == [job |-> r.job, ok |-> r.ok, attempts |-> r.attempts + 1]
  <2>1. x \in ResultEntry
    BY <1>1 DEF ResultEntry
  <2>2. PICK i \in Unacked(results') : results'.log[i] = x /\ i > m
    BY <1>1, <1>4, <2>1, AddResult DEF RetryResult
  <2>3. i \in Entries(results') /\ Hopeful(i)' /\ results'.log[i].job = r.job
    BY <2>2 DEF Hopeful, Unacked
  <2> QED
    BY <1>2, <1>4, <2>2, <2>3 DEF ResultTold
<1>5. CASE SendToResultsDlq(r.job)
  BY <1>2, <1>5 DEF SendToResultsDlq, Fine
<1>6. CASE stage[c] = "report"
  <2>1. Fine(r.job)
    BY <1>6 DEF TellDuty
  <2> QED
    BY <1>1, <1>2, <2>1, FineKept
<1> QED
  BY <1>3, <1>4, <1>5, <1>6 DEF ConsumerTells

\* A step leaves every process with its obligation met.
LEMMA TellDutyKept ==
  ASSUME TypeOK, PipelineAssumption, ToldInv, Next, NEW p \in Processes
  PROVE  TellDuty(p)'
<1>1. GoodStep /\ OutcomesGrow
  BY NextGood DEF GoodStep
<1>2. PICK a, b : JobAcked(a) /\ ResultAcked(b) /\ Kept(a, b)
  BY <1>1 DEF GoodStep
<1>3. /\ \A j \in Jobs : Fine(j) => Fine(j)'
      /\ \A m \in Entries(jobs) : JobTold(m) => JobTold(m)'
      /\ \A m \in Entries(results) : ResultTold(m) => ResultTold(m)'
  BY <1>1, <1>2, ToldKept DEF ToldInv
<1>4. /\ p \in Workers => hand[p] \subseteq Entries(jobs)
      /\ p \in Consumers => hand[p] \subseteq Entries(results)
      /\ hand[p] \subseteq Nat
  BY DEF TypeOK
<1>5. \A m \in Entries(results) : results'.log[m] = results.log[m]
  BY <1>2 DEF Kept, StreamsStep, Extends
<1>6. CASE stage'[p] = stage[p] /\ hand'[p] = hand[p]
  <2> SUFFICES ASSUME NEW m \in hand[p], First(p, m)
               PROVE  /\ p \in Workers /\ stage[p] \in {"ack", "done"} => JobTold(m)'
                      /\ p \in Consumers /\ results'.log[m].ok =>
                           /\ stage[p] \in {"ack", "report"} => Fine(results.log[m].job)'
                           /\ stage[p] = "done" => ResultTold(m)'
    BY <1>6 DEF TellDuty, First
  <2>1. TellDuty(p)
    BY DEF ToldInv
  <2>2. ASSUME p \in Workers, stage[p] \in {"ack", "done"} PROVE JobTold(m)'
    BY <1>3, <1>4, <2>1, <2>2 DEF TellDuty
  <2>3. ASSUME p \in Consumers, results'.log[m].ok
        PROVE  /\ stage[p] \in {"ack", "report"} => Fine(results.log[m].job)'
               /\ stage[p] = "done" => ResultTold(m)'
    <3>1. /\ results'.log[m] = results.log[m] /\ results.log[m].job \in Jobs
          /\ m \in Entries(results)
      BY <1>4, <1>5, <2>3, ResultAtHand
    <3>2. /\ stage[p] \in {"ack", "report"} => Fine(results.log[m].job)
          /\ stage[p] = "done" => ResultTold(m)
      BY <2>1, <2>3, <3>1 DEF TellDuty
    <3> QED
      BY <1>3, <3>1, <3>2
  <2> QED
    BY <2>2, <2>3
<1>7. CASE stage'[p] \notin {"ack", "report", "done"}
  BY <1>7 DEF TellDuty
<1>8. ASSUME NEW m \in hand[p], First(p, m), hand'[p] = hand[p],
             p \in Workers => WorkerTells(p, m), p \in Consumers => ConsumerTells(p, m)
      PROVE  TellDuty(p)'
  <2>1. \A n \in hand'[p] : First(p, n)' => n = m
    BY <1>4, <1>8 DEF First
  <2>2. p \in Workers => JobTold(m)'
    BY <1>1, <1>8, WorkerToldKept
  <2>3. ASSUME p \in Consumers, results'.log[m].ok
        PROVE  /\ stage'[p] \in {"ack", "report"} => Fine(results.log[m].job)'
               /\ stage'[p] = "done" => ResultTold(m)'
    <3>1. results.log[m].ok /\ TellDuty(p)
      BY <1>4, <1>5, <1>8, <2>3 DEF ToldInv
    <3>2. \/ Fine(results.log[m].job)'
          \/ stage'[p] = "done" /\ ResultTold(m)'
      BY <1>1, <1>8, <2>3, <3>1, ConsumerToldKept
    <3> QED
      BY <3>2 DEF ResultTold
  <2> QED
    BY <2>1, <2>2, <2>3 DEF TellDuty
<1> QED
  BY <1>6, <1>7, <1>8, EveryoneTells DEF Tells

\* A job that has just been queued is carried by its entry, and an outcome is
\* written only for a job that was queued.
LEMMA ToldInvKept ==
  ASSUME TypeOK, PipelineAssumption, ToldInv, Next
  PROVE  ToldInv'
<1>1. JobsGrow /\ VerdictsGrow /\ Origin'
  BY Anatomy, OriginKept DEF ToldInv
<1>2. GoodStep /\ OutcomesGrow
  BY NextGood DEF GoodStep
<1>3. PICK a, b : JobAcked(a) /\ ResultAcked(b) /\ Kept(a, b)
  BY <1>2 DEF GoodStep
<1>4. \A p \in Processes : TellDuty(p)'
  BY TellDutyKept
<1>5. accepted \subseteq Jobs /\ accepted \subseteq accepted'
  BY <1>1, AtHandAccepted, AcceptedGrows DEF ToldInv
<1>6. \A j \in Jobs : Told(j) => Told(j)'
  BY <1>2, <1>3, ToldKept DEF ToldInv
<1>7. ASSUME NEW j \in accepted' PROVE Told(j)'
  <2>1. PICK i \in Entries(jobs') : j = jobs'.log[i].job
    BY DEF accepted
  <2>2. CASE i \in Entries(jobs)
    <3>1. j \in accepted
      BY <1>3, <2>1, <2>2 DEF accepted, Kept, StreamsStep, Extends
    <3> QED
      BY <1>5, <1>6, <3>1 DEF ToldInv
  <2>3. CASE i \in Unacked(jobs')
    BY <2>1, <2>3 DEF Told
  <2>4. Entries(jobs') \ Entries(jobs) \subseteq Unacked(jobs')
    BY <1>3 DEF Kept, StreamsStep, Extends
  <2> QED
    BY <2>2, <2>3, <2>4
<1>8. ASSUME NEW j \in Jobs, outcome'[j] # {} PROVE j \in accepted'
  <2>1. CASE outcome' = outcome
    BY <1>5, <1>8, <2>1 DEF ToldInv
  <2>2. ASSUME NEW c \in Consumers, NEW m \in hand[c], NEW o \in Outcomes,
               EndsWith(results.log[m].job, o)
        PROVE  j \in accepted'
    <3>1. results.log[m].job \in accepted
      BY AtHandAccepted DEF ToldInv
    <3>2. j # results.log[m].job => outcome'[j] = outcome[j]
      BY <2>2 DEF EndsWith, TypeOK
    <3> QED
      BY <1>5, <1>8, <3>1, <3>2 DEF ToldInv
  <2> QED
    BY <1>1, <2>1, <2>2 DEF VerdictsGrow
<1> QED
  BY <1>1, <1>4, <1>7, <1>8 DEF ToldInv

(***************************************************************************)
(* A job that ended with nothing but a failure broadcast can be inspected  *)
(* in a dead letter stream once nobody owes it anything, however many      *)
(* workers and API instances handle copies of it.                          *)
(***************************************************************************)
THEOREM FailuresAreShelved == Spec => []FailedJobsAreShelved
<1>1. Init => ToldInv
  <2> SUFFICES ASSUME Init PROVE ToldInv
    OBVIOUS
  <2>1. Entries(jobs) = {} /\ Entries(results) = {} /\ \A p \in Processes : hand[p] = {}
    BY DEF Init, Entries, EmptyStream
  <2>2. \A j \in Jobs : outcome[j] = {}
    BY DEF Init
  <2> QED
    BY <2>1, <2>2 DEF ToldInv, Origin, TellDuty, accepted
<1>2. TypeOK /\ ToldInv /\ [Next]_vars => ToldInv'
  <2>1. TypeOK /\ ToldInv /\ Next => ToldInv'
    BY ToldInvKept, PipelineAssumption
  <2>2. ToldInv /\ UNCHANGED vars => ToldInv'
    BY DEF ToldInv, Origin, TellDuty, First, JobTold, ResultTold, Told, Hopeful, Fine,
       accepted, vars, streamVars, processVars, effectVars
  <2> QED
    BY <2>1, <2>2
<1>3. ToldInv => FailedJobsAreShelved
  <2> SUFFICES ASSUME ToldInv, NEW j \in Jobs, outcome[j] = {"failed"}, ~Carried(j)
               PROVE  j \in jobsDlq \cup resultsDlq
    BY DEF FailedJobsAreShelved
  <2>1. Told(j)
    BY DEF ToldInv
  <2> QED
    BY <2>1 DEF Told, Fine, Hopeful, Carried
<1> QED
  BY <1>1, <1>2, <1>3, TypeCorrect, PTL DEF Spec

-----------------------------------------------------------------------------
(* One worker and one API instance: what may still be written.             *)

\* The stages of a loop in which it has no entry under way.
Between == {"poll", "start", "down"}

\* The entry under way in a loop with these entries in hand.
Under(hd) == {i \in hd : \A k \in hd : i <= k}

\* The entries of stream s that may still have an effect, when the only process
\* that reads it is at stage st with the entries hd in hand: those that are owed,
\* but the one under way from the stages "spent" on, and that one before them
\* even when it is acknowledged.
Live(st, hd, s, spent) ==
  IF st \in Between THEN Unacked(s)
  ELSE IF st \in spent THEN Unacked(s) \ Under(hd)
  ELSE Unacked(s) \cup Under(hd)

\* The only reader of stream s was given each entry by the group and
\* acknowledges none before its turn.
HandOK(st, hd, s) ==
  /\ hd \subseteq Nat
  /\ st \in {"poll", "down"} => hd = {}
  /\ \A i \in hd : /\ i <= s.cursor
                   /\ st = "start" \/ i \notin Under(hd) => i \in s.pending

\* The first entry is the one under way.
LEMMA UnderFirst ==
  ASSUME NEW p, NEW m \in hand[p], First(p, m), hand[p] \subseteq Nat
  PROVE  Under(hand[p]) = {m}
BY DEF First, Under

\* A loop that takes no part in a step, which may add the entries X.
LEMMA LoopRests ==
  ASSUME NEW s, NEW t, NEW st, NEW hd, NEW spent,
         HandOK(st, hd, s), NEW X, Unacked(t) \subseteq Unacked(s) \cup X,
         t.cursor = s.cursor, t.pending = s.pending
  PROVE  /\ HandOK(st, hd, t)
         /\ Live(st, hd, t, spent) \subseteq Live(st, hd, s, spent) \cup X
BY DEF HandOK, Live

\* A loop that polls.
LEMMA LoopPolls ==
  ASSUME NEW P, NEW s \in StreamOf(P), NEW n \in Nat, NEW st, NEW hd, NEW spent,
         NEW t,
         \/ t = XAutoClaim(s, n) /\ hd = IdleEntries(s, n)
         \/ t = XReadGroup(s, n) /\ hd = NewEntries(s, n),
         st = IF hd = {} THEN "poll" ELSE "start"
  PROVE  HandOK(st, hd, t) /\ Live(st, hd, t, spent) = Unacked(s)
<1>1. /\ Unacked(t) = Unacked(s)
      /\ \A i \in hd : i \in t.pending /\ i <= t.cursor
  BY GivenIsPending, XAutoClaimFacts, XReadGroupFacts
<1>2. hd \subseteq Nat
  BY StreamFields DEF IdleEntries, NewEntries, Entries
<1> QED
  BY <1>1, <1>2 DEF HandOK, Live, Between

\* A loop that goes on with the entry m to a later stage.
LEMMA LoopGoesOn ==
  ASSUME NEW s, NEW t, NEW st, NEW hd, NEW spent,
         HandOK(st, hd, s), NEW m \in hd, Under(hd) = {m}, NEW to, to \notin Between,
         t.cursor = s.cursor, s.pending \ {m} \subseteq t.pending
  PROVE  /\ HandOK(to, hd, t)
         /\ to \in spent => Live(to, hd, t, spent) = Unacked(t) \ {m}
         /\ to \notin spent => Live(to, hd, t, spent) = Unacked(t) \cup {m}
BY DEF HandOK, Live, Between

\* Which entries are live while the entry m is under way.
LEMMA LiveUnderWay ==
  ASSUME NEW P, NEW s \in StreamOf(P), NEW st, NEW hd, NEW spent, spent \cap Between = {},
         HandOK(st, hd, s), NEW m \in hd, Under(hd) = {m}
  PROVE  /\ st \in spent => Live(st, hd, s, spent) = Unacked(s) \ {m}
         /\ st \notin spent => Live(st, hd, s, spent) = Unacked(s) \cup {m}
         /\ st = "start" => m \in Unacked(s)
<1>1. st \in Between => st = "start"
  BY DEF HandOK, Between
<1>2. st = "start" => m \in Unacked(s)
  BY PendingIsOwed DEF HandOK
<1> QED
  BY <1>1, <1>2 DEF Live, Between

\* A loop that has acknowledged the entry m and goes on to the next.
LEMMA LoopFinishes ==
  ASSUME NEW s, NEW t, NEW st, NEW hd, NEW spent,
         HandOK(st, hd, s), NEW m \in hd, Under(hd) = {m},
         t.cursor = s.cursor, t.pending = s.pending \ {m},
         NEW to, hd = {m} => to = "poll", hd # {m} => to = "start"
  PROVE  HandOK(to, hd \ {m}, t) /\ Live(to, hd \ {m}, t, spent) = Unacked(t)
BY DEF HandOK, Live, Between

\* A loop that drops what it has in hand.
LEMMA LoopDrops ==
  ASSUME NEW s, NEW st \in {"poll", "down"}, NEW spent
  PROVE  HandOK(st, {}, s) /\ Live(st, {}, s, spent) = Unacked(s)
BY DEF HandOK, Live, Between

\* The stages from which on an entry has no effect left: the worker's, the
\* consumer's when writes are counted, and the consumer's when ends are.
WorkerSpent == {"dlq", "ack", "done"}
Applied     == {"settle", "ack", "done"}
Ended       == {"ack", "done"}

\* How often a result of job j was written, or in how many ways j has ended.
Count(spent, j) == IF spent = Applied THEN effects[j] ELSE Cardinality(outcome[j])

LiveJobs(w)           == Live(stage[w], hand[w], jobs, WorkerSpent)
LiveResults(c, spent) == Live(stage[c], hand[c], results, spent)

\* What may still become a write or an end: a job that is not queued yet, a live
\* job entry, a live result; and the job that it is about.
Tokens(w, c, spent) ==
  ({"request"} \X {j \in Jobs : request[j] \in {"new", "saved"}})
  \cup ({"job"} \X LiveJobs(w)) \cup ({"result"} \X LiveResults(c, spent))

About(t) == IF t[1] = "request" THEN t[2]
            ELSE IF t[1] = "job" THEN jobs.log[t[2]].job ELSE results.log[t[2]].job

TokensOf(w, c, spent, j) == {t \in Tokens(w, c, spent) : About(t) = j}

\* What was done for a job and what may still be done come to one, and one more
\* for each fault.
Budget(w, c, spent) ==
  \A j \in Jobs : Count(spent, j) + Cardinality(TokensOf(w, c, spent, j)) <= 1 + faults

LoopsOK(w, c) ==
  HandOK(stage[w], hand[w], jobs) /\ HandOK(stage[c], hand[c], results)

AloneInv(w, c, spent) == TypeOK /\ LoopsOK(w, c) /\ Budget(w, c, spent)

\* What every step leaves in place, for counting: old entries are about the same
\* job as before, and faults are not forgotten.
Steady ==
  /\ TypeOK /\ TypeOK' /\ Extends(jobs, jobs') /\ Extends(results, results')
  /\ faults' >= faults

\* Live entries are entries.
LEMMA LiveEntries ==
  ASSUME TypeOK, NEW w \in Workers, NEW c \in Consumers, NEW spent
  PROVE  LiveJobs(w) \subseteq Entries(jobs) /\ LiveResults(c, spent) \subseteq Entries(results)
BY DEF LiveJobs, LiveResults, Live, Under, Unacked, TypeOK

\* The tokens of a job are finitely many.
LEMMA TokensFinite ==
  ASSUME TypeOK, NEW w \in Workers, NEW c \in Consumers, NEW spent, NEW j \in Jobs
  PROVE  IsFiniteSet(TokensOf(w, c, spent, j))
<1> DEFINE A == {"request"} \X {j}
<1> DEFINE B == {"job"} \X Entries(jobs)
<1> DEFINE C == {"result"} \X Entries(results)
<1>1. IsFiniteSet(Entries(jobs)) /\ IsFiniteSet(Entries(results))
  BY EntriesFinite DEF TypeOK
<1>2. IsFiniteSet({"request"}) /\ IsFiniteSet({"job"}) /\ IsFiniteSet({"result"}) /\ IsFiniteSet({j})
  BY FS_Singleton
<1>3. IsFiniteSet(A) /\ IsFiniteSet(B) /\ IsFiniteSet(C)
  BY <1>1, <1>2, FS_Product
<1>4. IsFiniteSet(A \cup B \cup C)
  <2> HIDE DEF A, B, C
  <2> QED
    BY <1>3, FS_Union
<1>5. TokensOf(w, c, spent, j) \subseteq A \cup B \cup C
  BY LiveEntries DEF TokensOf, Tokens, About
<1> QED
  BY <1>4, <1>5, FS_Subset

\* Counts are numbers.
LEMMA CountType ==
  ASSUME TypeOK, NEW spent, NEW j \in Jobs
  PROVE  Count(spent, j) \in Nat
<1>1. IsFiniteSet(Outcomes) /\ outcome[j] \subseteq Outcomes /\ effects[j] \in Nat
  <2>1. IsFiniteSet({"completed"}) /\ IsFiniteSet({"failed"}) /\ IsFiniteSet({"nothing"})
    BY FS_Singleton
  <2>2. Outcomes = {"completed"} \cup {"failed"} \cup {"nothing"}
    BY DEF Outcomes
  <2>3. IsFiniteSet(Outcomes)
    BY <2>1, <2>2, FS_Union
  <2> QED
    BY <2>3 DEF TypeOK
<1>2. Cardinality(outcome[j]) \in Nat
  BY <1>1, FS_Subset, FS_CardinalityType
<1> QED
  BY <1>1, <1>2 DEF Count

\* A token that stays is about the job it was about.
LEMMA AboutKept ==
  ASSUME Steady, NEW w \in Workers, NEW c \in Consumers, NEW spent,
         NEW t \in Tokens(w, c, spent)
  PROVE  About(t)' = About(t) /\ About(t) \in Jobs
<1>1. CASE t[1] = "request"
  BY <1>1 DEF Tokens, About
<1>2. CASE t[1] = "job"
  <2>1. t[2] \in Entries(jobs) /\ jobs \in StreamOf(JobEntry)
    BY <1>2, LiveEntries DEF Tokens, Steady, TypeOK
  <2>2. jobs.log[t[2]] \in JobEntry /\ jobs'.log[t[2]] = jobs.log[t[2]]
    BY <2>1, StreamFields DEF Steady, Extends
  <2> QED
    BY <1>2, <2>2 DEF About, JobEntry
<1>3. CASE t[1] = "result"
  <2>1. t[2] \in Entries(results) /\ results \in StreamOf(ResultEntry)
    BY <1>3, LiveEntries DEF Tokens, Steady, TypeOK
  <2>2. results.log[t[2]] \in ResultEntry /\ results'.log[t[2]] = results.log[t[2]]
    BY <2>1, StreamFields DEF Steady, Extends
  <2> QED
    BY <1>3, <2>2 DEF About, ResultEntry
<1> QED
  BY <1>1, <1>2, <1>3 DEF Tokens

\* The ways in which a step may change what was and what may be done for job j.
Paid(w, c, spent, j) ==
  LET S == TokensOf(w, c, spent, j)
      n == Count(spent, j)
  IN
  \/ n' = n /\ S' \subseteq S
  \/ n' = n /\ \E a \in S : \E b : S' \subseteq (S \ {a}) \cup {b}
  \/ n' \in {n, n + 1} /\ \E a \in S : S' \subseteq S \ {a}
  \/ n' = n /\ faults' > faults /\ \E b : S' \subseteq S \cup {b}

\* A step that changes each job in one of these ways stays in the budget.
LEMMA PaidKeepsBudget ==
  ASSUME Steady, NEW w \in Workers, NEW c \in Consumers, NEW spent, Budget(w, c, spent),
         \A j \in Jobs : Paid(w, c, spent, j)
  PROVE  Budget(w, c, spent)'
<1> SUFFICES ASSUME NEW j \in Jobs
             PROVE  Count(spent, j)' + Cardinality(TokensOf(w, c, spent, j)') <= 1 + faults'
  BY DEF Budget
<1> DEFINE S == TokensOf(w, c, spent, j)
<1> DEFINE T == TokensOf(w, c, spent, j)'
<1> DEFINE n == Count(spent, j)
<1> DEFINE m == Count(spent, j)'
<1>1. IsFiniteSet(S)
  BY TokensFinite DEF Steady
<1>2. n \in Nat /\ faults \in Nat /\ faults' \in Nat /\ faults' >= faults
  BY CountType DEF Steady, TypeOK
<1>3. n + Cardinality(S) <= 1 + faults
  BY DEF Budget
<1>4. \/ m = n /\ T \subseteq S
      \/ m = n /\ \E a \in S : \E b : T \subseteq (S \ {a}) \cup {b}
      \/ m \in {n, n + 1} /\ \E a \in S : T \subseteq S \ {a}
      \/ m = n /\ faults' > faults /\ \E b : T \subseteq S \cup {b}
  BY DEF Paid
<1> HIDE DEF S, T, n, m
<1>5. /\ Cardinality(S) \in Nat
      /\ T \subseteq S => Cardinality(T) \in Nat /\ Cardinality(T) <= Cardinality(S)
      /\ \A b : T \subseteq S \cup {b} =>
           Cardinality(T) \in Nat /\ Cardinality(T) <= Cardinality(S) + 1
      /\ \A a \in S : T \subseteq S \ {a} =>
           Cardinality(T) \in Nat /\ Cardinality(T) + 1 <= Cardinality(S)
      /\ \A a \in S : \A b : T \subseteq (S \ {a}) \cup {b} =>
           Cardinality(T) \in Nat /\ Cardinality(T) <= Cardinality(S)
  BY <1>1, Tally
<1>6. m + Cardinality(T) <= 1 + faults'
  <2>1. CASE m = n /\ T \subseteq S
    BY <1>2, <1>3, <1>5, <2>1
  <2>2. CASE m = n /\ \E a \in S : \E b : T \subseteq (S \ {a}) \cup {b}
    BY <1>2, <1>3, <1>5, <2>2
  <2>3. CASE m \in {n, n + 1} /\ \E a \in S : T \subseteq S \ {a}
    BY <1>2, <1>3, <1>5, <2>3
  <2>4. CASE m = n /\ faults' > faults /\ \E b : T \subseteq S \cup {b}
    <3>1. Cardinality(T) \in Nat /\ Cardinality(T) <= Cardinality(S) + 1
      BY <1>5, <2>4
    <3> QED
      BY <1>2, <1>3, <1>5, <2>4, <3>1
  <2> QED
    BY <1>4, <2>1, <2>2, <2>3, <2>4
<1> QED
  BY <1>6 DEF T, m

\* A step that adds no token.
LEMMA QuietBudget ==
  ASSUME Steady, NEW w \in Workers, NEW c \in Consumers, NEW spent, Budget(w, c, spent),
         \A j \in Jobs : Count(spent, j)' = Count(spent, j),
         Tokens(w, c, spent)' \subseteq Tokens(w, c, spent)
  PROVE  Budget(w, c, spent)'
<1>1. \A j \in Jobs : TokensOf(w, c, spent, j)' \subseteq TokensOf(w, c, spent, j)
  BY AboutKept DEF TokensOf
<1> QED
  BY <1>1, PaidKeepsBudget DEF Paid

\* A step that replaces the token a by the token b of the same job.
LEMMA SwapBudget ==
  ASSUME Steady, NEW w \in Workers, NEW c \in Consumers, NEW spent, Budget(w, c, spent),
         \A j \in Jobs : Count(spent, j)' = Count(spent, j),
         NEW a \in Tokens(w, c, spent), NEW b, About(b)' = About(a),
         Tokens(w, c, spent)' \subseteq (Tokens(w, c, spent) \ {a}) \cup {b}
  PROVE  Budget(w, c, spent)'
<1> SUFFICES ASSUME NEW j \in Jobs PROVE Paid(w, c, spent, j)
  BY PaidKeepsBudget
<1>1. CASE j = About(a)
  <2>1. /\ a \in TokensOf(w, c, spent, j)
        /\ TokensOf(w, c, spent, j)' \subseteq (TokensOf(w, c, spent, j) \ {a}) \cup {b}
    BY <1>1, AboutKept DEF TokensOf
  <2> QED
    BY <2>1 DEF Paid
<1>2. CASE j # About(a)
  <2>1. TokensOf(w, c, spent, j)' \subseteq TokensOf(w, c, spent, j)
    BY <1>2, AboutKept DEF TokensOf
  <2> QED
    BY <2>1 DEF Paid
<1> QED
  BY <1>1, <1>2

\* A step that spends the token a, on one write or end of its job at most.
LEMMA SpendBudget ==
  ASSUME Steady, NEW w \in Workers, NEW c \in Consumers, NEW spent, Budget(w, c, spent),
         NEW a \in Tokens(w, c, spent),
         \A j \in Jobs : \/ Count(spent, j)' = Count(spent, j)
                         \/ j = About(a) /\ Count(spent, j)' = Count(spent, j) + 1,
         Tokens(w, c, spent)' \subseteq Tokens(w, c, spent) \ {a}
  PROVE  Budget(w, c, spent)'
<1> SUFFICES ASSUME NEW j \in Jobs PROVE Paid(w, c, spent, j)
  BY PaidKeepsBudget
<1>1. CASE j = About(a)
  <2>1. /\ a \in TokensOf(w, c, spent, j)
        /\ TokensOf(w, c, spent, j)' \subseteq TokensOf(w, c, spent, j) \ {a}
    BY <1>1, AboutKept DEF TokensOf
  <2> QED
    BY <2>1 DEF Paid
<1>2. CASE j # About(a)
  <2>1. TokensOf(w, c, spent, j)' \subseteq TokensOf(w, c, spent, j)
    BY AboutKept DEF TokensOf
  <2> QED
    BY <1>2, <2>1 DEF Paid
<1> QED
  BY <1>1, <1>2

\* A fault that adds one token, of whatever job.
LEMMA FaultBudget ==
  ASSUME Steady, NEW w \in Workers, NEW c \in Consumers, NEW spent, Budget(w, c, spent),
         \A j \in Jobs : Count(spent, j)' = Count(spent, j), Fault,
         NEW b, Tokens(w, c, spent)' \subseteq Tokens(w, c, spent) \cup {b}
  PROVE  Budget(w, c, spent)'
<1>1. faults' > faults
  BY DEF Fault, Steady, TypeOK
<1>2. \A j \in Jobs : TokensOf(w, c, spent, j)' \subseteq TokensOf(w, c, spent, j) \cup {b}
  BY AboutKept DEF TokensOf
<1> QED
  BY <1>1, <1>2, PaidKeepsBudget DEF Paid

-----------------------------------------------------------------------------
(* The same, told of what happens to the entries of the two streams.        *)

\* No request is about to be queued that was not before.
RequestsKept ==
  \A j \in Jobs : request'[j] \in {"new", "saved"} => request[j] \in {"new", "saved"}

Uncounted(spent) == \A j \in Jobs : Count(spent, j)' = Count(spent, j)

\* A loop forgets entries, or goes on with them.
LEMMA SameLive ==
  ASSUME Steady, NEW w \in Workers, NEW c \in Consumers, NEW spent, Budget(w, c, spent),
         RequestsKept, Uncounted(spent),
         LiveJobs(w)' \subseteq LiveJobs(w),
         LiveResults(c, spent)' \subseteq LiveResults(c, spent)
  PROVE  Budget(w, c, spent)'
<1>1. Tokens(w, c, spent)' \subseteq Tokens(w, c, spent)
  BY DEF Tokens, RequestsKept
<1> QED
  BY <1>1, QuietBudget DEF Uncounted

\* A worker passes the job of entry m on, to job entry k.
LEMMA JobToJob ==
  ASSUME Steady, NEW w \in Workers, NEW c \in Consumers, NEW spent, Budget(w, c, spent),
         RequestsKept, Uncounted(spent), NEW m \in LiveJobs(w), NEW k,
         jobs'.log[k].job = jobs.log[m].job,
         LiveJobs(w)' \subseteq (LiveJobs(w) \ {m}) \cup {k},
         LiveResults(c, spent)' \subseteq LiveResults(c, spent)
  PROVE  Budget(w, c, spent)'
<1>1. /\ <<"job", m>> \in Tokens(w, c, spent)
      /\ About(<<"job", k>>)' = About(<<"job", m>>)
      /\ Tokens(w, c, spent)' \subseteq (Tokens(w, c, spent) \ {<<"job", m>>}) \cup {<<"job", k>>}
  BY DEF Tokens, RequestsKept, About
<1> QED
  BY <1>1, SwapBudget DEF Uncounted

\* A worker passes the job of entry m on, to result k.
LEMMA JobToResult ==
  ASSUME Steady, NEW w \in Workers, NEW c \in Consumers, NEW spent, Budget(w, c, spent),
         RequestsKept, Uncounted(spent), NEW m \in LiveJobs(w), NEW k,
         results'.log[k].job = jobs.log[m].job,
         LiveJobs(w)' \subseteq LiveJobs(w) \ {m},
         LiveResults(c, spent)' \subseteq LiveResults(c, spent) \cup {k}
  PROVE  Budget(w, c, spent)'
<1>1. /\ <<"job", m>> \in Tokens(w, c, spent)
      /\ About(<<"result", k>>)' = About(<<"job", m>>)
      /\ Tokens(w, c, spent)' \subseteq (Tokens(w, c, spent) \ {<<"job", m>>}) \cup {<<"result", k>>}
  BY DEF Tokens, RequestsKept, About
<1> QED
  BY <1>1, SwapBudget DEF Uncounted

\* A result m is retried as result k.
LEMMA ResultToResult ==
  ASSUME Steady, NEW w \in Workers, NEW c \in Consumers, NEW spent, Budget(w, c, spent),
         RequestsKept, Uncounted(spent), NEW m \in LiveResults(c, spent), NEW k,
         results'.log[k].job = results.log[m].job,
         LiveJobs(w)' \subseteq LiveJobs(w),
         LiveResults(c, spent)' \subseteq (LiveResults(c, spent) \ {m}) \cup {k}
  PROVE  Budget(w, c, spent)'
<1>1. /\ <<"result", m>> \in Tokens(w, c, spent)
      /\ About(<<"result", k>>)' = About(<<"result", m>>)
      /\ Tokens(w, c, spent)' \subseteq (Tokens(w, c, spent) \ {<<"result", m>>}) \cup {<<"result", k>>}
  BY DEF Tokens, RequestsKept, About
<1> QED
  BY <1>1, SwapBudget DEF Uncounted

\* A job that was to be queued is, as entry k.
LEMMA RequestToJob ==
  ASSUME Steady, NEW w \in Workers, NEW c \in Consumers, NEW spent, Budget(w, c, spent),
         NEW j \in Jobs, request[j] = "saved", Uncounted(spent), NEW k,
         \A i \in Jobs : request'[i] \in {"new", "saved"}
                           => i # j /\ request[i] \in {"new", "saved"},
         jobs'.log[k].job = j,
         LiveJobs(w)' \subseteq LiveJobs(w) \cup {k},
         LiveResults(c, spent)' \subseteq LiveResults(c, spent)
  PROVE  Budget(w, c, spent)'
<1>1. /\ <<"request", j>> \in Tokens(w, c, spent)
      /\ About(<<"job", k>>)' = About(<<"request", j>>)
      /\ Tokens(w, c, spent)' \subseteq (Tokens(w, c, spent) \ {<<"request", j>>}) \cup {<<"job", k>>}
  BY DEF Tokens, About
<1> QED
  BY <1>1, SwapBudget DEF Uncounted

\* A result m is handled, to one write or one end of its job.
LEMMA ResultSpent ==
  ASSUME Steady, NEW w \in Workers, NEW c \in Consumers, NEW spent, Budget(w, c, spent),
         RequestsKept, NEW m \in LiveResults(c, spent),
         \A j \in Jobs :
           \/ Count(spent, j)' = Count(spent, j)
           \/ j = results.log[m].job /\ Count(spent, j)' = Count(spent, j) + 1,
         LiveJobs(w)' \subseteq LiveJobs(w),
         LiveResults(c, spent)' \subseteq LiveResults(c, spent) \ {m}
  PROVE  Budget(w, c, spent)'
<1>1. /\ <<"result", m>> \in Tokens(w, c, spent)
      /\ About(<<"result", m>>) = results.log[m].job
      /\ Tokens(w, c, spent)' \subseteq Tokens(w, c, spent) \ {<<"result", m>>}
  BY DEF Tokens, RequestsKept, About
<1> QED
  BY <1>1, SpendBudget

\* A fault brings one entry back, or adds one.
LEMMA FaultPaid ==
  ASSUME Steady, NEW w \in Workers, NEW c \in Consumers, NEW spent, Budget(w, c, spent),
         RequestsKept, Uncounted(spent), Fault, NEW k,
         \/ /\ LiveJobs(w)' \subseteq LiveJobs(w) \cup {k}
            /\ LiveResults(c, spent)' \subseteq LiveResults(c, spent)
         \/ /\ LiveJobs(w)' \subseteq LiveJobs(w)
            /\ LiveResults(c, spent)' \subseteq LiveResults(c, spent) \cup {k}
  PROVE  Budget(w, c, spent)'
<1>1. \E b : Tokens(w, c, spent)' \subseteq Tokens(w, c, spent) \cup {b}
  <2>1. \/ Tokens(w, c, spent)' \subseteq Tokens(w, c, spent) \cup {<<"job", k>>}
        \/ Tokens(w, c, spent)' \subseteq Tokens(w, c, spent) \cup {<<"result", k>>}
    BY DEF Tokens, RequestsKept
  <2> QED
    BY <2>1
<1> QED
  BY <1>1, FaultBudget DEF Uncounted

-----------------------------------------------------------------------------
(* Each step of a pipeline with one worker and one consumer pays.           *)

Setting(w, c, spent) ==
  /\ Steady /\ LoopsOK(w, c) /\ Budget(w, c, spent)
  /\ w \in Workers /\ c \in Consumers /\ w # c /\ w \in Processes /\ c \in Processes
  /\ spent \in {Applied, Ended} /\ BatchSize \in Nat

\* What is added to a stream is owed, and delivered to nobody yet.
LEMMA OneAdded ==
  ASSUME NEW P, NEW s \in StreamOf(P), NEW x \in P
  PROVE  /\ \E k : /\ Unacked(XAdd(s, x)) = Unacked(s) \cup {k}
                   /\ XAdd(s, x).log[k] = x
         /\ XAdd(s, x).cursor = s.cursor /\ XAdd(s, x).pending = s.pending
BY XAddFacts DEF XAdd

\* The worker has no part in a step.
LEMMA WorkerRests ==
  ASSUME NEW w, NEW c, NEW spent, Setting(w, c, spent),
         stage'[w] = stage[w], hand'[w] = hand[w],
         NEW X, Unacked(jobs') \subseteq Unacked(jobs) \cup X,
         jobs'.cursor = jobs.cursor, jobs'.pending = jobs.pending
  PROVE  /\ HandOK(stage'[w], hand'[w], jobs')
         /\ LiveJobs(w)' \subseteq LiveJobs(w) \cup X
<1>1. /\ jobs \in StreamOf(JobEntry) /\ jobs' \in StreamOf(JobEntry)
      /\ HandOK(stage[w], hand[w], jobs)
  BY DEF Setting, LoopsOK, Steady, TypeOK
<1>2. /\ HandOK(stage[w], hand[w], jobs')
      /\ Live(stage[w], hand[w], jobs', WorkerSpent)
           \subseteq Live(stage[w], hand[w], jobs, WorkerSpent) \cup X
  BY <1>1, LoopRests
<1> QED
  BY <1>2 DEF LiveJobs

\* The consumer has none.
LEMMA ConsumerRests ==
  ASSUME NEW w, NEW c, NEW spent, Setting(w, c, spent),
         stage'[c] = stage[c], hand'[c] = hand[c],
         NEW X, Unacked(results') \subseteq Unacked(results) \cup X,
         results'.cursor = results.cursor, results'.pending = results.pending
  PROVE  /\ HandOK(stage'[c], hand'[c], results')
         /\ LiveResults(c, spent)' \subseteq LiveResults(c, spent) \cup X
<1>1. /\ results \in StreamOf(ResultEntry) /\ results' \in StreamOf(ResultEntry)
      /\ HandOK(stage[c], hand[c], results)
  BY DEF Setting, LoopsOK, Steady, TypeOK
<1>2. /\ HandOK(stage[c], hand[c], results')
      /\ Live(stage[c], hand[c], results', spent)
           \subseteq Live(stage[c], hand[c], results, spent) \cup X
  BY <1>1, LoopRests
<1> QED
  BY <1>2 DEF LiveResults

\* Nothing was written, and no job ended.
LEMMA EffectsRest ==
  ASSUME NEW spent, UNCHANGED effectVars PROVE Uncounted(spent)
BY DEF Uncounted, Count, effectVars

\* A request that is saved, queued or refused.
LEMMA SubmissionPaid ==
  ASSUME NEW w, NEW c, NEW spent, Setting(w, c, spent), NEW j \in Jobs,
         SaveRequest(j) \/ Enqueue(j) \/ EnqueueFails(j)
  PROVE  LoopsOK(w, c)' /\ Budget(w, c, spent)'
<1>1. /\ Steady /\ Budget(w, c, spent) /\ w \in Workers /\ c \in Consumers
      /\ stage' = stage /\ hand' = hand /\ results' = results
      /\ request \in [Jobs -> {"new", "saved", "queued", "refused"}]
  BY DEF Setting, Steady, TypeOK, SaveRequest, Enqueue, EnqueueFails, processVars, streamVars
<1>2. Uncounted(spent)
  BY EffectsRest DEF SaveRequest, Enqueue, EnqueueFails
<1>3. /\ HandOK(stage'[c], hand'[c], results')
      /\ LiveResults(c, spent)' \subseteq LiveResults(c, spent)
  BY <1>1, ConsumerRests
<1>4. CASE jobs' = jobs
  <2>1. /\ HandOK(stage'[w], hand'[w], jobs')
        /\ LiveJobs(w)' \subseteq LiveJobs(w)
    BY <1>1, <1>4, WorkerRests
  <2>2. RequestsKept
    BY <1>1 DEF RequestsKept, SaveRequest, Enqueue, EnqueueFails
  <2> QED
    BY <1>1, <1>2, <1>3, <2>1, <2>2, SameLive DEF LoopsOK
<1>5. CASE Push(j) /\ request[j] = "saved"
  <2>1. jobs \in StreamOf(JobEntry) /\ [job |-> j, attempts |-> 0] \in JobEntry
    BY <1>1 DEF Steady, TypeOK, JobEntry
  <2>2. PICK k : /\ Unacked(jobs') = Unacked(jobs) \cup {k}
                 /\ jobs'.log[k] = [job |-> j, attempts |-> 0]
    BY <1>5, <2>1, OneAdded DEF Push
  <2>3. /\ HandOK(stage'[w], hand'[w], jobs')
        /\ LiveJobs(w)' \subseteq LiveJobs(w) \cup {k}
    <3>1. jobs'.cursor = jobs.cursor /\ jobs'.pending = jobs.pending
      BY <1>5 DEF Push, XAdd
    <3> QED
      BY <1>1, <2>2, <3>1, WorkerRests
  <2>4. \A i \in Jobs : request'[i] \in {"new", "saved"}
                          => i # j /\ request[i] \in {"new", "saved"}
    BY <1>1, <1>5 DEF SaveRequest, Enqueue, EnqueueFails
  <2> QED
    BY <1>1, <1>2, <1>3, <1>5, <2>2, <2>3, <2>4, RequestToJob DEF LoopsOK
<1> QED
  BY <1>4, <1>5 DEF SaveRequest, Enqueue, EnqueueFails, streamVars

\* The worker at an entry, and what is live then.
LEMMA WorkerAt ==
  ASSUME NEW w, NEW c, NEW spent, Setting(w, c, spent), NEW m \in hand[w], First(w, m)
  PROVE  /\ Under(hand[w]) = {m} /\ m \in Nat /\ m \in Entries(jobs)
         /\ jobs.log[m] \in JobEntry /\ jobs.log[m].job \in Jobs /\ jobs.log[m].attempts \in Nat
         /\ m <= jobs.cursor
         /\ stage[w] \in WorkerSpent => LiveJobs(w) = Unacked(jobs) \ {m}
         /\ stage[w] \notin WorkerSpent => LiveJobs(w) = Unacked(jobs) \cup {m}
         /\ stage[w] = "start" => m \in Unacked(jobs)
<1>1. /\ TypeOK /\ w \in Workers /\ jobs \in StreamOf(JobEntry) /\ hand[w] \subseteq Nat
      /\ HandOK(stage[w], hand[w], jobs)
  BY DEF Setting, LoopsOK, Steady, TypeOK, HandOK
<1>2. Under(hand[w]) = {m}
  BY <1>1, UnderFirst
<1>3. WorkerSpent \cap Between = {}
  BY DEF WorkerSpent, Between
<1>4. /\ stage[w] \in WorkerSpent => LiveJobs(w) = Unacked(jobs) \ {m}
      /\ stage[w] \notin WorkerSpent => LiveJobs(w) = Unacked(jobs) \cup {m}
      /\ stage[w] = "start" => m \in Unacked(jobs)
  BY <1>1, <1>2, <1>3, LiveUnderWay DEF LiveJobs
<1>5. m <= jobs.cursor
  BY <1>1 DEF HandOK
<1> QED
  BY <1>1, <1>2, <1>4, <1>5, JobAtHand

\* The worker goes on with an entry.
LEMMA WorkerGoes ==
  ASSUME NEW w, NEW c, NEW spent, Setting(w, c, spent), NEW m \in hand[w], First(w, m),
         NEW to, GoTo(w, to), to \notin Between,
         jobs'.cursor = jobs.cursor, jobs.pending \ {m} \subseteq jobs'.pending
  PROVE  /\ HandOK(stage'[w], hand'[w], jobs')
         /\ to \in WorkerSpent => LiveJobs(w)' = Unacked(jobs') \ {m}
         /\ to \notin WorkerSpent => LiveJobs(w)' = Unacked(jobs') \cup {m}
         /\ stage'[c] = stage[c] /\ hand'[c] = hand[c]
<1>1. /\ stage'[w] = to /\ hand'[w] = hand[w] /\ stage'[c] = stage[c] /\ hand'[c] = hand[c]
      /\ jobs \in StreamOf(JobEntry) /\ jobs' \in StreamOf(JobEntry)
      /\ HandOK(stage[w], hand[w], jobs)
  BY DEF GoTo, Setting, Steady, TypeOK, LoopsOK
<1>2. Under(hand[w]) = {m}
  BY WorkerAt
<1>3. /\ HandOK(to, hand[w], jobs')
      /\ to \in WorkerSpent => Live(to, hand[w], jobs', WorkerSpent) = Unacked(jobs') \ {m}
      /\ to \notin WorkerSpent => Live(to, hand[w], jobs', WorkerSpent) = Unacked(jobs') \cup {m}
  <2>1. \A st, hd : HandOK(st, hd, jobs) /\ m \in hd /\ Under(hd) = {m} =>
          /\ HandOK(to, hd, jobs')
          /\ to \in WorkerSpent => Live(to, hd, jobs', WorkerSpent) = Unacked(jobs') \ {m}
          /\ to \notin WorkerSpent => Live(to, hd, jobs', WorkerSpent) = Unacked(jobs') \cup {m}
    BY LoopGoesOn
  <2> QED
    BY <1>1, <1>2, <2>1
<1> QED
  BY <1>1, <1>3 DEF LiveJobs

\* The worker drops what it has in hand.
LEMMA WorkerDrops ==
  ASSUME NEW w, NEW c, NEW spent, Setting(w, c, spent),
         \/ Escape(w)
         \/ /\ stage' = [stage EXCEPT ![w] = "down"]
            /\ hand' = [hand EXCEPT ![w] = {}]
  PROVE  /\ HandOK(stage'[w], hand'[w], jobs') /\ LiveJobs(w)' = Unacked(jobs')
         /\ stage'[c] = stage[c] /\ hand'[c] = hand[c]
<1>1. /\ stage'[w] \in {"poll", "down"} /\ hand'[w] = {}
      /\ stage'[c] = stage[c] /\ hand'[c] = hand[c]
  BY DEF Escape, Setting, Steady, TypeOK
<1> QED
  BY <1>1, LoopDrops DEF LiveJobs

\* The worker polls.
LEMMA WorkerPollPaid ==
  ASSUME NEW w, NEW c, NEW spent, Setting(w, c, spent), WorkerClaims(w) \/ WorkerReads(w)
  PROVE  LoopsOK(w, c)' /\ Budget(w, c, spent)'
<1>1. /\ Steady /\ Budget(w, c, spent) /\ w \in Workers /\ c \in Consumers
      /\ stage'[c] = stage[c] /\ hand'[c] = hand[c] /\ results' = results
      /\ stage[w] = "poll" /\ jobs \in StreamOf(JobEntry) /\ BatchSize \in Nat
      /\ RequestsKept /\ Uncounted(spent)
  <2>1. UNCHANGED <<request, results, effectVars>>
    BY DEF WorkerClaims, WorkerReads
  <2> QED
    BY <2>1, EffectsRest DEF Setting, Steady, TypeOK, WorkerClaims, WorkerReads, TakeBatch,
       RequestsKept
<1>2. /\ HandOK(stage'[c], hand'[c], results')
      /\ LiveResults(c, spent)' \subseteq LiveResults(c, spent)
  BY <1>1, ConsumerRests
<1>3. /\ \/ jobs' = XAutoClaim(jobs, BatchSize) /\ hand'[w] = IdleEntries(jobs, BatchSize)
         \/ jobs' = XReadGroup(jobs, BatchSize) /\ hand'[w] = NewEntries(jobs, BatchSize)
      /\ stage'[w] = IF hand'[w] = {} THEN "poll" ELSE "start"
  BY <1>1 DEF WorkerClaims, WorkerReads, TakeBatch, Setting, Steady, TypeOK
<1>4. /\ HandOK(stage'[w], hand'[w], jobs')
      /\ Live(stage'[w], hand'[w], jobs', WorkerSpent) = Unacked(jobs)
  BY <1>1, <1>3, LoopPolls
<1>5. LiveJobs(w)' = LiveJobs(w)
  BY <1>1, <1>4 DEF LiveJobs, Live, Between
<1> QED
  BY <1>1, <1>2, <1>4, <1>5, SameLive DEF LoopsOK

\* A run of the LLM, and what the worker makes of its end.
LEMMA LlmPaid ==
  ASSUME NEW w, NEW c, NEW spent, Setting(w, c, spent), NEW m \in hand[w], First(w, m),
         LlmSucceeds(w, m) \/ LlmFails(w, m) \/ LlmQuotaError(w, m)
  PROVE  LoopsOK(w, c)' /\ Budget(w, c, spent)'
<1>1. PICK to \in {"publish", "requeue", "publishFailed"} : GoTo(w, to)
  BY DEF LlmSucceeds, LlmFails, LlmQuotaError, WorkerHandlesError
<1>2. /\ Steady /\ Budget(w, c, spent) /\ w \in Workers /\ c \in Consumers
      /\ UNCHANGED <<request, jobs, results, effectVars>> /\ stage[w] = "start"
  BY DEF Setting, LlmSucceeds, LlmFails, LlmQuotaError, streamVars
<1>3. RequestsKept /\ Uncounted(spent)
  BY <1>2, EffectsRest DEF RequestsKept
<1>4. to \notin Between /\ to \notin WorkerSpent /\ stage[w] \notin WorkerSpent
  BY <1>1, <1>2 DEF Between, WorkerSpent
<1>5. /\ HandOK(stage'[w], hand'[w], jobs') /\ LiveJobs(w)' = Unacked(jobs') \cup {m}
      /\ stage'[c] = stage[c] /\ hand'[c] = hand[c]
  BY <1>1, <1>2, <1>4, WorkerGoes
<1>6. LiveJobs(w)' = LiveJobs(w)
  BY <1>2, <1>4, <1>5, WorkerAt
<1>7. /\ HandOK(stage'[c], hand'[c], results')
      /\ LiveResults(c, spent)' \subseteq LiveResults(c, spent)
  BY <1>2, <1>5, ConsumerRests
<1> QED
  BY <1>2, <1>3, <1>5, <1>6, <1>7, SameLive DEF LoopsOK

\* What a Redis call of the worker does, completed or not: the entry stays owed
\* unless it is acknowledged, and one entry of its job is added at most.
LEMMA WorkerCallTally ==
  ASSUME NEW w, NEW c, NEW spent, Setting(w, c, spent), NEW m \in hand[w], First(w, m),
         WorkerCall(w, m) \/ UNCHANGED streamVars
  PROVE  /\ jobs'.cursor = jobs.cursor /\ jobs.pending \ {m} \subseteq jobs'.pending
         /\ results'.cursor = results.cursor /\ results'.pending = results.pending
         /\ \E k : /\ Unacked(results') \subseteq Unacked(results) \cup {k}
                   /\ stage[w] \notin {"publish", "publishFailed"} => results' = results
                   /\ \/ results' = results
                      \/ results'.log[k].job = jobs.log[m].job
         /\ \E k : /\ Unacked(jobs') \subseteq Unacked(jobs) \cup {k}
                   /\ stage[w] # "requeue" => Unacked(jobs') \subseteq Unacked(jobs)
                   /\ stage[w] \in {"ack", "done"} /\ WorkerCall(w, m) => jobs' = XAck(jobs, m)
                   /\ \/ Unacked(jobs') \subseteq Unacked(jobs)
                      \/ jobs'.log[k].job = jobs.log[m].job
<1>1. /\ jobs \in StreamOf(JobEntry) /\ results \in StreamOf(ResultEntry)
      /\ m \in Nat /\ m <= jobs.cursor
      /\ jobs.log[m].job \in Jobs /\ jobs.log[m].attempts \in Nat
  BY WorkerAt DEF Setting, Steady, TypeOK
<1>2. CASE UNCHANGED <<jobs, results>> /\ ~(stage[w] \in {"ack", "done"} /\ WorkerCall(w, m))
  BY <1>2
<1>3. CASE stage[w] \in {"ack", "done"} /\ AckJob(m)
  <2>1. /\ jobs' = XAck(jobs, m) /\ results' = results
        /\ Unacked(jobs') = Unacked(jobs) \ {m}
        /\ jobs'.cursor = jobs.cursor /\ jobs'.pending = jobs.pending \ {m}
    BY <1>1, <1>3, XAckSettles DEF AckJob
  <2> QED
    BY <1>3, <2>1
<1>4. CASE stage[w] = "requeue" /\ RequeueJob(jobs.log[m])
  <2> DEFINE x == [job |-> jobs.log[m].job, attempts |-> jobs.log[m].attempts + 1]
  <2>1. x \in JobEntry /\ x.job = jobs.log[m].job
    BY <1>1 DEF JobEntry
  <2>2. jobs' = XAdd(jobs, x) /\ results' = results
    BY <1>4 DEF RequeueJob
  <2> HIDE DEF x
  <2>3. /\ \E k : Unacked(jobs') = Unacked(jobs) \cup {k} /\ jobs'.log[k] = x
        /\ jobs'.cursor = jobs.cursor /\ jobs'.pending = jobs.pending
    BY <1>1, <2>1, <2>2, OneAdded
  <2> QED
    BY <1>4, <2>1, <2>2, <2>3
<1>5. CASE WorkerPublishes(w, m)
  <2>1. \E ok \in BOOLEAN, n \in Nat : PublishResult(jobs.log[m], ok, n)
    <3>1. \A n \in Nat : ReportedAttempts(jobs.log[m], n) \in Nat
      BY DEF ReportedAttempts
    <3>2. jobs.log[m].attempts + 1 \in Nat
      BY <1>1
    <3> QED
      BY <1>1, <1>5, <3>1, <3>2 DEF WorkerPublishes
  <2>2. PICK ok \in BOOLEAN, n \in Nat : PublishResult(jobs.log[m], ok, n)
    BY <2>1
  <2> DEFINE x == [job |-> jobs.log[m].job, ok |-> ok, attempts |-> n]
  <2>3. x \in ResultEntry /\ x.job = jobs.log[m].job
    BY <1>1 DEF ResultEntry
  <2>4. results' = XAdd(results, x) /\ jobs' = jobs
    BY <2>2 DEF PublishResult
  <2> HIDE DEF x
  <2>5. /\ \E k : Unacked(results') = Unacked(results) \cup {k} /\ results'.log[k] = x
        /\ results'.cursor = results.cursor /\ results'.pending = results.pending
    BY <1>1, <2>3, <2>4, OneAdded
  <2>6. stage[w] \in {"publish", "publishFailed"}
    BY <1>5 DEF WorkerPublishes
  <2> QED
    BY <2>3, <2>4, <2>5, <2>6
<1> QED
  BY <1>2, <1>3, <1>4, <1>5 DEF WorkerCall, WorkerPublishes, SendToJobsDlq, streamVars

\* A call of the worker that returns.
LEMMA WorkerCallsPaid ==
  ASSUME NEW w, NEW c, NEW spent, Setting(w, c, spent), NEW m \in hand[w], First(w, m),
         WorkerCalls(w, m)
  PROVE  LoopsOK(w, c)' /\ Budget(w, c, spent)'
<1>1. /\ Steady /\ Budget(w, c, spent) /\ w \in Workers /\ c \in Consumers
      /\ WorkerCall(w, m) /\ AfterWorkerCall(w, m)
      /\ RequestsKept /\ Uncounted(spent)
  BY EffectsRest DEF Setting, WorkerCalls, RequestsKept
<1>2. /\ jobs'.cursor = jobs.cursor /\ jobs.pending \ {m} \subseteq jobs'.pending
      /\ results'.cursor = results.cursor /\ results'.pending = results.pending
  BY <1>1, WorkerCallTally
<1>3. PICK k : /\ Unacked(jobs') \subseteq Unacked(jobs) \cup {k}
               /\ stage[w] # "requeue" => Unacked(jobs') \subseteq Unacked(jobs)
               /\ stage[w] \in {"ack", "done"} => jobs' = XAck(jobs, m)
               /\ \/ Unacked(jobs') \subseteq Unacked(jobs)
                  \/ jobs'.log[k].job = jobs.log[m].job
  BY <1>1, WorkerCallTally
<1>4. PICK r : /\ Unacked(results') \subseteq Unacked(results) \cup {r}
               /\ stage[w] \notin {"publish", "publishFailed"} => results' = results
               /\ \/ results' = results
                  \/ results'.log[r].job = jobs.log[m].job
  BY <1>1, WorkerCallTally
<1>5. ASSUME stage'[c] = stage[c], hand'[c] = hand[c]
      PROVE  /\ HandOK(stage'[c], hand'[c], results')
             /\ LiveResults(c, spent)' \subseteq LiveResults(c, spent) \cup {r}
             /\ results' = results => LiveResults(c, spent)' \subseteq LiveResults(c, spent)
  <2>1. /\ HandOK(stage'[c], hand'[c], results')
        /\ LiveResults(c, spent)' \subseteq LiveResults(c, spent) \cup {r}
    BY <1>2, <1>4, <1>5, ConsumerRests
  <2>2. results' = results => LiveResults(c, spent)' \subseteq LiveResults(c, spent)
    BY <1>5 DEF LiveResults
  <2> QED
    BY <2>1, <2>2
<1>6. CASE stage[w] \in {"ack", "done"}
  <2>1. FinishEntry(w, m) /\ jobs' = XAck(jobs, m) /\ stage[w] \in WorkerSpent
    BY <1>1, <1>3, <1>6 DEF AfterWorkerCall, WorkerSpent
  <2>2. /\ hand'[w] = hand[w] \ {m} /\ stage'[w] = IF hand[w] = {m} THEN "poll" ELSE "start"
        /\ stage'[c] = stage[c] /\ hand'[c] = hand[c]
        /\ jobs \in StreamOf(JobEntry) /\ HandOK(stage[w], hand[w], jobs)
    BY <2>1 DEF FinishEntry, Setting, LoopsOK, Steady, TypeOK
  <2>3. Under(hand[w]) = {m}
    BY WorkerAt
  <2>4. /\ HandOK(stage'[w], hand'[w], jobs')
        /\ Live(stage'[w], hand'[w], jobs', WorkerSpent) = Unacked(jobs) \ {m}
    <3>1. \A st, hd, to :
            /\ HandOK(st, hd, jobs) /\ m \in hd /\ Under(hd) = {m}
            /\ hd = {m} => to = "poll"
            /\ hd # {m} => to = "start"
            => HandOK(to, hd \ {m}, jobs') /\ Live(to, hd \ {m}, jobs', WorkerSpent) = Unacked(jobs')
      <4>1. jobs'.cursor = jobs.cursor /\ jobs'.pending = jobs.pending \ {m}
        BY <2>1 DEF XAck
      <4> QED
        BY <4>1, LoopFinishes
    <3>2. Unacked(jobs') = Unacked(jobs) \ {m}
      BY <2>1, <2>2, WorkerAt, XAckSettles
    <3>3. /\ hand[w] = {m} => stage'[w] = "poll"
          /\ hand[w] # {m} => stage'[w] = "start"
          /\ HandOK(stage[w], hand[w], jobs) /\ hand'[w] = hand[w] \ {m}
      BY <2>2
    <3>4. /\ HandOK(stage'[w], hand[w] \ {m}, jobs')
          /\ Live(stage'[w], hand[w] \ {m}, jobs', WorkerSpent) = Unacked(jobs')
      BY <2>3, <3>1, <3>3
    <3> QED
      BY <3>2, <3>3, <3>4
  <2>5. LiveJobs(w)' = LiveJobs(w)
    BY <2>1, <2>4, WorkerAt DEF LiveJobs
  <2>6. results' = results
    BY <1>4, <1>6
  <2> QED
    BY <1>1, <1>5, <2>2, <2>4, <2>5, <2>6, SameLive DEF LoopsOK
<1>7. ASSUME NEW to \in {"ack", "dlq", "done"}, GoTo(w, to)
      PROVE  /\ HandOK(stage'[w], hand'[w], jobs') /\ LiveJobs(w)' = Unacked(jobs') \ {m}
             /\ stage'[c] = stage[c] /\ hand'[c] = hand[c]
             /\ HandOK(stage'[c], hand'[c], results')
  <2>1. to \notin Between /\ to \in WorkerSpent
    BY DEF Between, WorkerSpent
  <2>2. /\ HandOK(stage'[w], hand'[w], jobs') /\ LiveJobs(w)' = Unacked(jobs') \ {m}
        /\ stage'[c] = stage[c] /\ hand'[c] = hand[c]
    BY <1>2, <1>7, <2>1, WorkerGoes
  <2> QED
    BY <1>5, <2>2
<1>8. CASE stage[w] \in {"publish", "publishFailed"}
  <2>1. PICK to \in {"ack", "dlq", "done"} : GoTo(w, to)
    BY <1>1, <1>8 DEF AfterWorkerCall
  <2>2. LiveJobs(w) = Unacked(jobs) \cup {m}
    BY <1>8, WorkerAt DEF WorkerSpent
  <2>3. m \in LiveJobs(w) /\ LiveJobs(w)' \subseteq LiveJobs(w) \ {m}
    BY <1>3, <1>7, <1>8, <2>1, <2>2
  <2>4. CASE results' = results
    BY <1>1, <1>5, <1>7, <2>1, <2>3, <2>4, SameLive DEF LoopsOK
  <2>5. CASE results'.log[r].job = jobs.log[m].job
    BY <1>1, <1>5, <1>7, <2>1, <2>3, <2>5, JobToResult DEF LoopsOK
  <2> QED
    BY <1>4, <2>4, <2>5
<1>9. CASE stage[w] \in {"requeue", "dlq", "start"}
  <2>1. GoTo(w, "done") /\ results' = results
    BY <1>1, <1>4, <1>9 DEF AfterWorkerCall
  <2>2. CASE stage[w] = "requeue"
    <3>1. LiveJobs(w) = Unacked(jobs) \cup {m}
      BY <2>2, WorkerAt DEF WorkerSpent
    <3>2. m \in LiveJobs(w) /\ LiveJobs(w)' \subseteq (LiveJobs(w) \ {m}) \cup {k}
      BY <1>3, <1>7, <2>1, <3>1
    <3>3. CASE Unacked(jobs') \subseteq Unacked(jobs)
      BY <1>1, <1>5, <1>7, <2>1, <3>1, <3>3, SameLive DEF LoopsOK
    <3>4. CASE jobs'.log[k].job = jobs.log[m].job
      BY <1>1, <1>5, <1>7, <2>1, <3>2, <3>4, JobToJob DEF LoopsOK
    <3> QED
      BY <1>3, <3>3, <3>4
  <2>3. CASE stage[w] \in {"dlq", "start"}
    <3>1. LiveJobs(w)' \subseteq LiveJobs(w)
      BY <1>3, <1>7, <2>1, <2>3, WorkerAt
    <3> QED
      BY <1>1, <1>5, <1>7, <2>1, <3>1, SameLive DEF LoopsOK
  <2> QED
    BY <1>9, <2>2, <2>3
<1> QED
  BY <1>1, <1>6, <1>8, <1>9 DEF WorkerCall

\* A call of the worker that fails, with or without effect.
LEMMA WorkerCallFailsPaid ==
  ASSUME NEW w, NEW c, NEW spent, Setting(w, c, spent), NEW m \in hand[w], First(w, m),
         WorkerCallFails(w, m)
  PROVE  LoopsOK(w, c)' /\ Budget(w, c, spent)'
<1>1. /\ Steady /\ Budget(w, c, spent) /\ w \in Workers /\ c \in Consumers /\ Fault
      /\ WorkerCall(w, m) \/ UNCHANGED streamVars
      /\ RequestsKept /\ Uncounted(spent)
  BY EffectsRest DEF Setting, WorkerCallFails, RequestsKept
<1>2. /\ jobs'.cursor = jobs.cursor /\ jobs.pending \ {m} \subseteq jobs'.pending
      /\ results'.cursor = results.cursor /\ results'.pending = results.pending
  BY <1>1, WorkerCallTally
<1>3. PICK k : /\ Unacked(jobs') \subseteq Unacked(jobs) \cup {k}
               /\ stage[w] # "requeue" => Unacked(jobs') \subseteq Unacked(jobs)
  BY <1>1, WorkerCallTally
<1>4. PICK r : /\ Unacked(results') \subseteq Unacked(results) \cup {r}
               /\ stage[w] \notin {"publish", "publishFailed"} => results' = results
  BY <1>1, WorkerCallTally
<1>5. ASSUME stage'[c] = stage[c], hand'[c] = hand[c]
      PROVE  /\ HandOK(stage'[c], hand'[c], results')
             /\ LiveResults(c, spent)' \subseteq LiveResults(c, spent) \cup {r}
             /\ results' = results => LiveResults(c, spent)' \subseteq LiveResults(c, spent)
  <2>1. /\ HandOK(stage'[c], hand'[c], results')
        /\ LiveResults(c, spent)' \subseteq LiveResults(c, spent) \cup {r}
    BY <1>2, <1>4, <1>5, ConsumerRests
  <2>2. results' = results => LiveResults(c, spent)' \subseteq LiveResults(c, spent)
    BY <1>5 DEF LiveResults
  <2> QED
    BY <2>1, <2>2
<1>6. /\ HandOK(stage'[w], hand'[w], jobs') /\ stage'[c] = stage[c] /\ hand'[c] = hand[c]
      /\ LiveJobs(w)' \subseteq Unacked(jobs') \cup {m}
      /\ stage[w] \notin {"publish", "ack"} => LiveJobs(w)' = Unacked(jobs')
  <2>1. CASE stage[w] \in {"publish", "ack"}
    <3>1. PICK to \in {"requeue", "publishFailed"} : GoTo(w, to)
      BY <2>1 DEF WorkerCallFails, WorkerHandlesError
    <3>2. to \notin Between /\ to \notin WorkerSpent
      BY <3>1 DEF Between, WorkerSpent
    <3> QED
      BY <1>2, <2>1, <3>1, <3>2, WorkerGoes
  <2>2. CASE stage[w] \notin {"publish", "ack"}
    BY <2>2, WorkerDrops DEF WorkerCallFails
  <2> QED
    BY <2>1, <2>2
<1>7. CASE stage[w] \in WorkerSpent
  <2>1. LiveJobs(w) = Unacked(jobs) \ {m} /\ results' = results
        /\ Unacked(jobs') \subseteq Unacked(jobs)
    BY <1>3, <1>4, <1>7, WorkerAt DEF WorkerSpent
  <2>2. LiveJobs(w)' \subseteq LiveJobs(w) \cup {m}
    BY <1>6, <2>1
  <2> QED
    BY <1>1, <1>5, <1>6, <2>1, <2>2, FaultPaid DEF LoopsOK
<1>8. CASE stage[w] \notin WorkerSpent
  <2>1. LiveJobs(w) = Unacked(jobs) \cup {m}
    BY <1>8, WorkerAt
  <2>2. CASE stage[w] = "requeue"
    <3>1. results' = results /\ LiveJobs(w)' \subseteq LiveJobs(w) \cup {k}
      BY <1>3, <1>4, <1>6, <2>1, <2>2
    <3> QED
      BY <1>1, <1>5, <1>6, <3>1, FaultPaid DEF LoopsOK
  <2>3. CASE stage[w] # "requeue"
    <3>1. LiveJobs(w)' \subseteq LiveJobs(w)
      BY <1>3, <1>6, <2>1, <2>3
    <3> QED
      BY <1>1, <1>5, <1>6, <3>1, FaultPaid DEF LoopsOK
  <2> QED
    BY <2>2, <2>3
<1> QED
  BY <1>7, <1>8

-----------------------------------------------------------------------------
(* The consumer's steps.                                                    *)

\* The consumer at an entry, and what is live then.
LEMMA ConsumerAt ==
  ASSUME NEW w, NEW c, NEW spent, Setting(w, c, spent), NEW m \in hand[c], First(c, m)
  PROVE  /\ Under(hand[c]) = {m} /\ m \in Nat /\ m \in Entries(results)
         /\ results.log[m] \in ResultEntry /\ results.log[m].job \in Jobs
         /\ results.log[m].attempts \in Nat /\ m <= results.cursor
         /\ stage[c] \in spent => LiveResults(c, spent) = Unacked(results) \ {m}
         /\ stage[c] \notin spent => LiveResults(c, spent) = Unacked(results) \cup {m}
         /\ stage[c] = "start" => m \in Unacked(results)
<1>1. /\ TypeOK /\ c \in Consumers /\ results \in StreamOf(ResultEntry) /\ hand[c] \subseteq Nat
      /\ HandOK(stage[c], hand[c], results)
  BY DEF Setting, LoopsOK, Steady, TypeOK, HandOK
<1>2. Under(hand[c]) = {m}
  BY <1>1, UnderFirst
<1>3. spent \cap Between = {}
  BY DEF Setting, Applied, Ended, Between
<1>4. /\ stage[c] \in spent => LiveResults(c, spent) = Unacked(results) \ {m}
      /\ stage[c] \notin spent => LiveResults(c, spent) = Unacked(results) \cup {m}
      /\ stage[c] = "start" => m \in Unacked(results)
  BY <1>1, <1>2, <1>3, LiveUnderWay DEF LiveResults
<1>5. m <= results.cursor
  BY <1>1 DEF HandOK
<1> QED
  BY <1>1, <1>2, <1>4, <1>5, ResultAtHand

\* The consumer goes on with an entry.
LEMMA ConsumerGoes ==
  ASSUME NEW w, NEW c, NEW spent, Setting(w, c, spent), NEW m \in hand[c], First(c, m),
         NEW to, GoTo(c, to), to \notin Between,
         results'.cursor = results.cursor, results.pending \ {m} \subseteq results'.pending
  PROVE  /\ HandOK(stage'[c], hand'[c], results')
         /\ to \in spent => LiveResults(c, spent)' = Unacked(results') \ {m}
         /\ to \notin spent => LiveResults(c, spent)' = Unacked(results') \cup {m}
         /\ stage'[w] = stage[w] /\ hand'[w] = hand[w]
<1>1. /\ stage'[c] = to /\ hand'[c] = hand[c] /\ stage'[w] = stage[w] /\ hand'[w] = hand[w]
      /\ HandOK(stage[c], hand[c], results)
  BY DEF GoTo, Setting, Steady, TypeOK, LoopsOK
<1>2. Under(hand[c]) = {m}
  BY ConsumerAt
<1>3. /\ HandOK(to, hand[c], results')
      /\ to \in spent => Live(to, hand[c], results', spent) = Unacked(results') \ {m}
      /\ to \notin spent => Live(to, hand[c], results', spent) = Unacked(results') \cup {m}
  <2>1. \A st, hd : HandOK(st, hd, results) /\ m \in hd /\ Under(hd) = {m} =>
          /\ HandOK(to, hd, results')
          /\ to \in spent => Live(to, hd, results', spent) = Unacked(results') \ {m}
          /\ to \notin spent => Live(to, hd, results', spent) = Unacked(results') \cup {m}
    BY LoopGoesOn
  <2> QED
    BY <1>1, <1>2, <2>1
<1> QED
  BY <1>1, <1>3 DEF LiveResults

\* The consumer drops what it has in hand.
LEMMA ConsumerDrops ==
  ASSUME NEW w, NEW c, NEW spent, Setting(w, c, spent),
         \/ Escape(c)
         \/ /\ stage' = [stage EXCEPT ![c] = "down"]
            /\ hand' = [hand EXCEPT ![c] = {}]
  PROVE  /\ HandOK(stage'[c], hand'[c], results')
         /\ LiveResults(c, spent)' = Unacked(results')
         /\ stage'[w] = stage[w] /\ hand'[w] = hand[w]
<1>1. /\ stage'[c] \in {"poll", "down"} /\ hand'[c] = {}
      /\ stage'[w] = stage[w] /\ hand'[w] = hand[w]
  BY DEF Escape, Setting, Steady, TypeOK
<1> QED
  BY <1>1, LoopDrops DEF LiveResults

\* The consumer polls.
LEMMA ConsumerPollPaid ==
  ASSUME NEW w, NEW c, NEW spent, Setting(w, c, spent), ConsumerClaims(c) \/ ConsumerReads(c)
  PROVE  LoopsOK(w, c)' /\ Budget(w, c, spent)'
<1>1. /\ Steady /\ Budget(w, c, spent) /\ w \in Workers /\ c \in Consumers
      /\ stage'[w] = stage[w] /\ hand'[w] = hand[w] /\ jobs' = jobs
      /\ stage[c] = "poll" /\ results \in StreamOf(ResultEntry) /\ BatchSize \in Nat
      /\ RequestsKept /\ Uncounted(spent)
  <2>1. UNCHANGED <<request, jobs, effectVars>>
    BY DEF ConsumerClaims, ConsumerReads
  <2> QED
    BY <2>1, EffectsRest DEF Setting, Steady, TypeOK, ConsumerClaims, ConsumerReads,
       TakeBatch, RequestsKept
<1>2. HandOK(stage'[w], hand'[w], jobs') /\ LiveJobs(w)' \subseteq LiveJobs(w)
  BY <1>1, WorkerRests
<1>3. /\ \/ results' = XAutoClaim(results, BatchSize) /\ hand'[c] = IdleEntries(results, BatchSize)
         \/ results' = XReadGroup(results, BatchSize) /\ hand'[c] = NewEntries(results, BatchSize)
      /\ stage'[c] = IF hand'[c] = {} THEN "poll" ELSE "start"
  BY <1>1 DEF ConsumerClaims, ConsumerReads, TakeBatch, Setting, Steady, TypeOK
<1>4. /\ HandOK(stage'[c], hand'[c], results')
      /\ Live(stage'[c], hand'[c], results', spent) = Unacked(results)
  BY <1>1, <1>3, LoopPolls
<1>5. LiveResults(c, spent)' = LiveResults(c, spent)
  BY <1>1, <1>4 DEF LiveResults, Live, Between
<1> QED
  BY <1>1, <1>2, <1>4, <1>5, SameLive DEF LoopsOK

\* A new end of a job is one more at most.
LEMMA OneMoreEnd ==
  ASSUME TypeOK, NEW j \in Jobs, NEW o \in Outcomes, EndsWith(j, o), UNCHANGED effects,
         NEW spent
  PROVE  \A i \in Jobs : \/ Count(spent, i)' = Count(spent, i)
                         \/ /\ i = j /\ spent # Applied
                            /\ Count(spent, i)' = Count(spent, i) + 1
<1> SUFFICES ASSUME NEW i \in Jobs, spent # Applied
             PROVE  \/ Count(spent, i)' = Count(spent, i)
                    \/ i = j /\ Count(spent, i)' = Count(spent, i) + 1
  BY DEF Count
<1>1. outcome'[i] = IF i = j THEN outcome[i] \cup {o} ELSE outcome[i]
  BY DEF EndsWith, TypeOK
<1>2. IsFiniteSet(outcome[i])
  <2>1. IsFiniteSet({"completed"}) /\ IsFiniteSet({"failed"}) /\ IsFiniteSet({"nothing"})
    BY FS_Singleton
  <2>2. Outcomes = {"completed"} \cup {"failed"} \cup {"nothing"}
    BY DEF Outcomes
  <2>3. IsFiniteSet(Outcomes)
    BY <2>1, <2>2, FS_Union
  <2> QED
    BY <2>3, FS_Subset DEF TypeOK
<1>3. Cardinality(outcome[i] \cup {o}) \in {Cardinality(outcome[i]), Cardinality(outcome[i]) + 1}
  BY <1>2, FS_AddElement
<1> QED
  BY <1>1, <1>3 DEF Count

\* The parts of a result handler, its end among them.
LEMMA HandlerPaid ==
  ASSUME NEW w, NEW c, NEW spent, Setting(w, c, spent), NEW m \in hand[c], First(c, m),
         \/ ApplyResult(c, m) \/ SettleResult(c, m) \/ EmptyPlan(c, m)
         \/ ReportFailedResult(c, m) \/ HandlerRejects(c, m)
         \/ HandlerFails(c, m) \/ ReportExhausted(c, m)
  PROVE  LoopsOK(w, c)' /\ Budget(w, c, spent)'
<1> DEFINE from == stage[c]
<1> DEFINE j == results.log[m].job
<1>1. /\ Steady /\ Budget(w, c, spent) /\ w \in Workers /\ c \in Consumers /\ TypeOK
      /\ UNCHANGED <<request, jobs, results>> /\ RequestsKept
      /\ spent \in {Applied, Ended} /\ j \in Jobs
  BY ConsumerAt DEF Setting, Steady, RequestsKept, ApplyResult, SettleResult, EmptyPlan,
     ReportFailedResult, HandlerRejects, HandlerFails, ReportExhausted, streamVars
<1>2. PICK to \in {"settle", "ack", "retry", "dlq", "done"} :
        /\ GoTo(c, to)
        /\ \/ from = "start" /\ to = "settle" /\ UNCHANGED outcome
              /\ effects' = [effects EXCEPT ![j] = @ + 1]
           \/ /\ from \in {"start", "settle"} /\ to = "ack" /\ UNCHANGED effects
              /\ \E o \in Outcomes : EndsWith(j, o)
           \/ from = "start" /\ to \in {"retry", "dlq"} /\ UNCHANGED effectVars
           \/ from = "settle" /\ to \in {"retry", "dlq"} /\ UNCHANGED effectVars /\ Fault
           \/ /\ from = "report" /\ to = "done" /\ UNCHANGED effects
              /\ UNCHANGED outcome \/ \E o \in Outcomes : EndsWith(j, o)
  BY DEF ApplyResult, SettleResult, EmptyPlan, ReportFailedResult, HandlerRejects,
     HandlerFails, ReportExhausted, ConsumerHandlesError, Outcomes
<1>3. to \notin Between
  BY DEF Between
<1>4. /\ HandOK(stage'[c], hand'[c], results')
      /\ to \in spent => LiveResults(c, spent)' = Unacked(results) \ {m}
      /\ to \notin spent => LiveResults(c, spent)' = Unacked(results) \cup {m}
      /\ stage'[w] = stage[w] /\ hand'[w] = hand[w]
  BY <1>1, <1>2, <1>3, ConsumerGoes
<1>5. /\ from \in spent => LiveResults(c, spent) = Unacked(results) \ {m}
      /\ from \notin spent => LiveResults(c, spent) = Unacked(results) \cup {m}
  BY ConsumerAt
<1>6. HandOK(stage'[w], hand'[w], jobs') /\ LiveJobs(w)' \subseteq LiveJobs(w)
  BY <1>1, <1>4, WorkerRests
<1>7. /\ "ack" \in spent /\ "done" \in spent
      /\ "start" \notin spent /\ "retry" \notin spent /\ "dlq" \notin spent /\ "report" \notin spent
      /\ "settle" \in spent <=> spent = Applied
  BY <1>1 DEF Applied, Ended
<1> HIDE DEF from, j
<1>8. ASSUME from \notin spent, to \in spent,
             \A i \in Jobs : \/ Count(spent, i)' = Count(spent, i)
                             \/ i = j /\ Count(spent, i)' = Count(spent, i) + 1
      PROVE  Budget(w, c, spent)'
  <2>1. m \in LiveResults(c, spent) /\ LiveResults(c, spent)' \subseteq LiveResults(c, spent) \ {m}
    BY <1>4, <1>5, <1>8
  <2> QED
    BY <1>1, <1>6, <1>8, <2>1, ResultSpent DEF j
<1>9. ASSUME from \in spent => to \in spent, Uncounted(spent)
      PROVE  Budget(w, c, spent)'
  <2>1. LiveResults(c, spent)' \subseteq LiveResults(c, spent)
    BY <1>4, <1>5, <1>9
  <2> QED
    BY <1>1, <1>6, <1>9, <2>1, SameLive
<1> SUFFICES Budget(w, c, spent)'
  BY <1>4, <1>6 DEF LoopsOK
<1>10. CASE from = "start" /\ to = "settle" /\ UNCHANGED outcome
              /\ effects' = [effects EXCEPT ![j] = @ + 1]
  <2>1. CASE spent = Applied
    <3>1. \A i \in Jobs : \/ Count(spent, i)' = Count(spent, i)
                          \/ i = j /\ Count(spent, i)' = Count(spent, i) + 1
      BY <1>1, <1>10, <2>1 DEF Count, TypeOK
    <3> QED
      BY <1>7, <1>8, <1>10, <2>1, <3>1
  <2>2. CASE spent # Applied
    <3>1. Uncounted(spent)
      BY <1>10, <2>2 DEF Uncounted, Count
    <3> QED
      BY <1>7, <1>9, <1>10, <3>1
  <2> QED
    BY <2>1, <2>2
<1>11. CASE /\ from \in {"start", "settle"} /\ to = "ack" /\ UNCHANGED effects
            /\ \E o \in Outcomes : EndsWith(j, o)
  <2>1. \A i \in Jobs : \/ Count(spent, i)' = Count(spent, i)
                        \/ /\ i = j /\ spent # Applied
                           /\ Count(spent, i)' = Count(spent, i) + 1
    BY <1>1, <1>11, OneMoreEnd DEF j
  <2>2. CASE from \notin spent
    BY <1>7, <1>8, <1>11, <2>1, <2>2
  <2>3. CASE from \in spent
    <3>1. spent = Applied
      BY <1>7, <1>11, <2>3
    <3> QED
      BY <1>7, <1>9, <1>11, <2>1, <3>1 DEF Uncounted
  <2> QED
    BY <2>2, <2>3
<1>12. CASE from = "start" /\ to \in {"retry", "dlq"} /\ UNCHANGED effectVars
  BY <1>7, <1>9, <1>12, EffectsRest
<1>13. CASE from = "settle" /\ to \in {"retry", "dlq"} /\ UNCHANGED effectVars /\ Fault
  <2>1. LiveResults(c, spent)' \subseteq LiveResults(c, spent) \cup {m}
    BY <1>4, <1>5
  <2> QED
    BY <1>1, <1>6, <1>13, <2>1, EffectsRest, FaultPaid
<1>14. CASE /\ from = "report" /\ to = "done" /\ UNCHANGED effects
            /\ UNCHANGED outcome \/ \E o \in Outcomes : EndsWith(j, o)
  <2>1. CASE UNCHANGED outcome
    <3>1. Uncounted(spent)
      BY <1>14, <2>1 DEF Uncounted, Count
    <3> QED
      BY <1>7, <1>9, <1>14, <3>1
  <2>2. CASE \E o \in Outcomes : EndsWith(j, o)
    <3>1. \A i \in Jobs : \/ Count(spent, i)' = Count(spent, i)
                          \/ i = j /\ Count(spent, i)' = Count(spent, i) + 1
      BY <1>1, <1>14, <2>2, OneMoreEnd DEF j
    <3> QED
      BY <1>7, <1>8, <1>14, <3>1
  <2> QED
    BY <1>14, <2>1, <2>2
<1> QED
  BY <1>2, <1>10, <1>11, <1>12, <1>13, <1>14

\* What a Redis call of the consumer does, completed or not.
LEMMA ConsumerCallTally ==
  ASSUME NEW w, NEW c, NEW spent, Setting(w, c, spent), NEW m \in hand[c], First(c, m),
         ConsumerCall(c, m) \/ UNCHANGED streamVars
  PROVE  /\ results'.cursor = results.cursor /\ results.pending \ {m} \subseteq results'.pending
         /\ jobs' = jobs
         /\ \E k : /\ Unacked(results') \subseteq Unacked(results) \cup {k}
                   /\ stage[c] # "retry" => Unacked(results') \subseteq Unacked(results)
                   /\ stage[c] \in {"ack", "done"} /\ ConsumerCall(c, m)
                        => results' = XAck(results, m)
                   /\ \/ Unacked(results') \subseteq Unacked(results)
                      \/ results'.log[k].job = results.log[m].job
<1>1. /\ results \in StreamOf(ResultEntry) /\ m \in Nat /\ m <= results.cursor
      /\ results.log[m] \in ResultEntry /\ results.log[m].attempts \in Nat
  BY ConsumerAt DEF Setting, Steady, TypeOK
<1>2. CASE UNCHANGED <<jobs, results>> /\ ~(stage[c] \in {"ack", "done"} /\ ConsumerCall(c, m))
  BY <1>2
<1>3. CASE stage[c] \in {"ack", "done"} /\ AckResult(m)
  <2>1. /\ results' = XAck(results, m) /\ jobs' = jobs
        /\ Unacked(results') = Unacked(results) \ {m}
        /\ results'.cursor = results.cursor /\ results'.pending = results.pending \ {m}
    BY <1>1, <1>3, XAckSettles DEF AckResult
  <2> QED
    BY <1>3, <2>1
<1>4. CASE stage[c] = "retry" /\ RetryResult(m)
  <2> DEFINE r == results.log[m]
  <2> DEFINE x == [job |-> r.job, ok |-> r.ok, attempts |-> r.attempts + 1]
  <2>1. x \in ResultEntry /\ x.job = results.log[m].job
    BY <1>1 DEF ResultEntry
  <2>2. results' = XAdd(results, x) /\ jobs' = jobs
    BY <1>4 DEF RetryResult
  <2> HIDE DEF x
  <2>3. /\ \E k : Unacked(results') = Unacked(results) \cup {k} /\ results'.log[k] = x
        /\ results'.cursor = results.cursor /\ results'.pending = results.pending
    BY <1>1, <2>1, <2>2, OneAdded
  <2> QED
    BY <1>4, <2>1, <2>2, <2>3
<1> QED
  BY <1>2, <1>3, <1>4 DEF ConsumerCall, SendToResultsDlq, streamVars

\* A call of the consumer that returns.
LEMMA ConsumerCallsPaid ==
  ASSUME NEW w, NEW c, NEW spent, Setting(w, c, spent), NEW m \in hand[c], First(c, m),
         ConsumerCalls(c, m)
  PROVE  LoopsOK(w, c)' /\ Budget(w, c, spent)'
<1>1. /\ Steady /\ Budget(w, c, spent) /\ w \in Workers /\ c \in Consumers
      /\ ConsumerCall(c, m) /\ RequestsKept /\ Uncounted(spent)
      /\ {"ack", "done"} \subseteq spent /\ "retry" \notin spent /\ "dlq" \notin spent
      /\ "report" \notin spent
  BY EffectsRest DEF Setting, ConsumerCalls, RequestsKept, Applied, Ended
<1>2. /\ results'.cursor = results.cursor /\ results.pending \ {m} \subseteq results'.pending
      /\ jobs' = jobs
  BY <1>1, ConsumerCallTally
<1>3. PICK k : /\ Unacked(results') \subseteq Unacked(results) \cup {k}
               /\ stage[c] # "retry" => Unacked(results') \subseteq Unacked(results)
               /\ stage[c] \in {"ack", "done"} => results' = XAck(results, m)
               /\ \/ Unacked(results') \subseteq Unacked(results)
                  \/ results'.log[k].job = results.log[m].job
  BY <1>1, ConsumerCallTally
<1>4. ASSUME stage'[w] = stage[w], hand'[w] = hand[w]
      PROVE  HandOK(stage'[w], hand'[w], jobs') /\ LiveJobs(w)' \subseteq LiveJobs(w)
  BY <1>2, <1>4, WorkerRests
<1>5. CASE stage[c] \in {"ack", "done"}
  <2>1. FinishEntry(c, m) /\ results' = XAck(results, m) /\ stage[c] \in spent
    BY <1>1, <1>3, <1>5 DEF ConsumerCalls
  <2>2. /\ hand'[c] = hand[c] \ {m}
        /\ hand[c] = {m} => stage'[c] = "poll"
        /\ hand[c] # {m} => stage'[c] = "start"
        /\ stage'[w] = stage[w] /\ hand'[w] = hand[w]
        /\ results \in StreamOf(ResultEntry) /\ HandOK(stage[c], hand[c], results)
    BY <2>1 DEF FinishEntry, Setting, LoopsOK, Steady, TypeOK
  <2>3. Under(hand[c]) = {m} /\ LiveResults(c, spent) = Unacked(results) \ {m}
    BY <2>1, ConsumerAt
  <2>4. /\ HandOK(stage'[c], hand'[c], results')
        /\ Live(stage'[c], hand'[c], results', spent) = Unacked(results) \ {m}
    <3>1. \A st, hd, to :
            /\ HandOK(st, hd, results) /\ m \in hd /\ Under(hd) = {m}
            /\ hd = {m} => to = "poll"
            /\ hd # {m} => to = "start"
            => HandOK(to, hd \ {m}, results') /\ Live(to, hd \ {m}, results', spent) = Unacked(results')
      <4>1. results'.cursor = results.cursor /\ results'.pending = results.pending \ {m}
        BY <2>1 DEF XAck
      <4> QED
        BY <4>1, LoopFinishes
    <3>2. Unacked(results') = Unacked(results) \ {m}
      BY <2>1, <2>2, ConsumerAt, XAckSettles
    <3>3. /\ HandOK(stage'[c], hand[c] \ {m}, results')
          /\ Live(stage'[c], hand[c] \ {m}, results', spent) = Unacked(results')
      BY <2>2, <2>3, <3>1
    <3> QED
      BY <2>2, <3>2, <3>3
  <2>5. LiveResults(c, spent)' = LiveResults(c, spent)
    BY <2>3, <2>4 DEF LiveResults
  <2> QED
    BY <1>1, <1>4, <2>2, <2>4, <2>5, SameLive DEF LoopsOK
<1>6. CASE stage[c] = "retry"
  <2>1. GoTo(c, "done") /\ "done" \notin Between /\ "done" \in spent /\ stage[c] \notin spent
    BY <1>1, <1>6 DEF ConsumerCalls, Between
  <2>2. /\ HandOK(stage'[c], hand'[c], results')
        /\ LiveResults(c, spent)' = Unacked(results') \ {m}
        /\ stage'[w] = stage[w] /\ hand'[w] = hand[w]
    BY <1>2, <2>1, ConsumerGoes
  <2>3. LiveResults(c, spent) = Unacked(results) \cup {m}
    BY <2>1, ConsumerAt
  <2>4. CASE Unacked(results') \subseteq Unacked(results)
    <3>1. LiveResults(c, spent)' \subseteq LiveResults(c, spent)
      BY <2>2, <2>3, <2>4
    <3> QED
      BY <1>1, <1>4, <2>2, <3>1, SameLive DEF LoopsOK
  <2>5. CASE results'.log[k].job = results.log[m].job
    <3>1. /\ m \in LiveResults(c, spent)
          /\ LiveResults(c, spent)' \subseteq (LiveResults(c, spent) \ {m}) \cup {k}
      BY <1>3, <2>2, <2>3
    <3> QED
      BY <1>1, <1>4, <2>2, <2>5, <3>1, ResultToResult DEF LoopsOK
  <2> QED
    BY <1>3, <2>4, <2>5
<1>7. CASE stage[c] = "dlq"
  <2>1. GoTo(c, "report") /\ "report" \notin Between /\ "report" \notin spent
        /\ stage[c] \notin spent
    BY <1>1, <1>7 DEF ConsumerCalls, Between
  <2>2. /\ HandOK(stage'[c], hand'[c], results')
        /\ LiveResults(c, spent)' = Unacked(results') \cup {m}
        /\ stage'[w] = stage[w] /\ hand'[w] = hand[w]
    BY <1>2, <2>1, ConsumerGoes
  <2>3. LiveResults(c, spent)' \subseteq LiveResults(c, spent)
    BY <1>3, <1>7, <2>1, <2>2, ConsumerAt
  <2> QED
    BY <1>1, <1>4, <2>2, <2>3, SameLive DEF LoopsOK
<1> QED
  BY <1>1, <1>5, <1>6, <1>7 DEF ConsumerCall

\* A call of the consumer that fails, with or without effect.
LEMMA ConsumerCallFailsPaid ==
  ASSUME NEW w, NEW c, NEW spent, Setting(w, c, spent), NEW m \in hand[c], First(c, m),
         ConsumerCallFails(c, m)
  PROVE  LoopsOK(w, c)' /\ Budget(w, c, spent)'
<1>1. /\ Steady /\ Budget(w, c, spent) /\ w \in Workers /\ c \in Consumers /\ Fault
      /\ ConsumerCall(c, m) \/ UNCHANGED streamVars
      /\ RequestsKept /\ Uncounted(spent) /\ stage[c] \in {"retry", "dlq", "ack", "done"}
      /\ {"ack", "done"} \subseteq spent /\ "retry" \notin spent /\ "dlq" \notin spent
  BY EffectsRest DEF Setting, ConsumerCallFails, RequestsKept, Applied, Ended
<1>2. /\ results'.cursor = results.cursor /\ results.pending \ {m} \subseteq results'.pending
      /\ jobs' = jobs
  BY <1>1, ConsumerCallTally
<1>3. PICK k : /\ Unacked(results') \subseteq Unacked(results) \cup {k}
               /\ stage[c] # "retry" => Unacked(results') \subseteq Unacked(results)
  BY <1>1, ConsumerCallTally
<1>4. /\ HandOK(stage'[c], hand'[c], results') /\ stage'[w] = stage[w] /\ hand'[w] = hand[w]
      /\ LiveResults(c, spent)' \subseteq Unacked(results') \cup {m}
  <2>1. CASE stage[c] = "ack"
    <3>1. PICK to \in {"retry", "dlq"} : GoTo(c, to)
      BY <2>1 DEF ConsumerCallFails, ConsumerHandlesError
    <3>2. to \notin Between /\ to \notin spent
      BY <1>1, <3>1 DEF Between
    <3> QED
      BY <1>2, <2>1, <3>1, <3>2, ConsumerGoes
  <2>2. CASE stage[c] # "ack"
    BY <2>2, ConsumerDrops DEF ConsumerCallFails
  <2> QED
    BY <2>1, <2>2
<1>5. HandOK(stage'[w], hand'[w], jobs') /\ LiveJobs(w)' \subseteq LiveJobs(w)
  BY <1>2, <1>4, WorkerRests
<1>6. \E b : LiveResults(c, spent)' \subseteq LiveResults(c, spent) \cup {b}
  <2>1. CASE stage[c] = "retry"
    <3>1. LiveResults(c, spent)' \subseteq LiveResults(c, spent) \cup {k}
      BY <1>1, <1>3, <1>4, <2>1, ConsumerAt
    <3> QED
      BY <3>1
  <2>2. CASE stage[c] # "retry"
    <3>1. LiveResults(c, spent)' \subseteq LiveResults(c, spent) \cup {m}
      BY <1>1, <1>3, <1>4, <2>2, ConsumerAt
    <3> QED
      BY <3>1
  <2> QED
    BY <2>1, <2>2
<1> QED
  BY <1>1, <1>4, <1>5, <1>6, FaultPaid DEF LoopsOK

\* All that is owed is live, but for the entry under way.
LEMMA OwedIsLive ==
  ASSUME NEW st, NEW hd, NEW s, NEW spent, HandOK(st, hd, s)
  PROVE  \E k : Unacked(s) \subseteq Live(st, hd, s, spent) \cup {k}
<1>1. \A i, k \in Under(hd) : i = k
  BY DEF HandOK, Under
<1>2. Unacked(s) \subseteq Live(st, hd, s, spent) \cup Under(hd)
  BY DEF Live
<1>3. CASE Under(hd) = {}
  BY <1>2, <1>3
<1>4. ASSUME NEW k \in Under(hd) PROVE Unacked(s) \subseteq Live(st, hd, s, spent) \cup {k}
  BY <1>1, <1>2
<1> QED
  BY <1>3, <1>4

\* Polls that fail, and time, leave what is owed as it is.
LEMMA PolledTally ==
  ASSUME NEW P, NEW s \in StreamOf(P), NEW n \in Nat, NEW t,
         \/ t = s
         \/ t = XAutoClaim(s, n)
         \/ t = XReadGroup(s, n)
         \/ \E i \in s.pending : t = TurnsIdle(s, i)
  PROVE  Unacked(t) = Unacked(s)
BY XAutoClaimFacts, XReadGroupFacts, TurnsIdleFacts

\* A process that stops, between two entries or in the middle of one.
LEMMA StopPaid ==
  ASSUME NEW w, NEW c, NEW spent, Setting(w, c, spent), NEW p \in {w, c},
         w \notin Consumers, c \notin Workers, PollFails(p) \/ Crash(p)
  PROVE  LoopsOK(w, c)' /\ Budget(w, c, spent)'
<1>1. /\ Steady /\ Budget(w, c, spent) /\ w \in Workers /\ c \in Consumers /\ Fault
      /\ RequestsKept /\ Uncounted(spent) /\ BatchSize \in Nat
      /\ jobs \in StreamOf(JobEntry) /\ results \in StreamOf(ResultEntry)
      /\ HandOK(stage[w], hand[w], jobs) /\ HandOK(stage[c], hand[c], results)
      /\ \/ Escape(p)
         \/ /\ stage' = [stage EXCEPT ![p] = "down"]
            /\ hand' = [hand EXCEPT ![p] = {}]
  BY EffectsRest DEF Setting, LoopsOK, Steady, TypeOK, PollFails, Crash, RequestsKept
<1>2. /\ Unacked(jobs') = Unacked(jobs) /\ Unacked(results') = Unacked(results)
      /\ p = w => results' = results
      /\ p = c => jobs' = jobs
  <2>1. /\ \/ jobs' = jobs
           \/ jobs' = XAutoClaim(jobs, BatchSize)
           \/ jobs' = XReadGroup(jobs, BatchSize)
        /\ \/ results' = results
           \/ results' = XAutoClaim(results, BatchSize)
           \/ results' = XReadGroup(results, BatchSize)
        /\ p = w => results' = results
        /\ p = c => jobs' = jobs
    BY <1>1 DEF PollFails, Crash, streamVars
  <2> QED
    BY <1>1, <2>1, PolledTally
<1>3. CASE p = w
  <2>1. /\ HandOK(stage'[w], hand'[w], jobs') /\ LiveJobs(w)' = Unacked(jobs)
        /\ stage'[c] = stage[c] /\ hand'[c] = hand[c]
    BY <1>1, <1>2, <1>3, WorkerDrops
  <2>2. PICK k : Unacked(jobs) \subseteq LiveJobs(w) \cup {k}
    BY <1>1, OwedIsLive DEF LiveJobs
  <2>3. /\ HandOK(stage'[c], hand'[c], results')
        /\ LiveResults(c, spent)' \subseteq LiveResults(c, spent)
    BY <1>2, <1>3, <2>1, ConsumerRests
  <2> QED
    BY <1>1, <2>1, <2>2, <2>3, FaultPaid DEF LoopsOK
<1>4. CASE p = c
  <2>1. /\ HandOK(stage'[c], hand'[c], results') /\ LiveResults(c, spent)' = Unacked(results)
        /\ stage'[w] = stage[w] /\ hand'[w] = hand[w]
    BY <1>1, <1>2, <1>4, ConsumerDrops
  <2>2. PICK k : Unacked(results) \subseteq LiveResults(c, spent) \cup {k}
    BY <1>1, OwedIsLive DEF LiveResults
  <2>3. HandOK(stage'[w], hand'[w], jobs') /\ LiveJobs(w)' \subseteq LiveJobs(w)
    BY <1>2, <1>4, <2>1, WorkerRests
  <2> QED
    BY <1>1, <2>1, <2>2, <2>3, FaultPaid DEF LoopsOK
<1> QED
  BY <1>3, <1>4

\* A process that starts again, time that passes, and a step of nobody.
LEMMA ElsePaid ==
  ASSUME NEW w, NEW c, NEW spent, Setting(w, c, spent),
         \/ \E p \in {w, c} : Restart(p)
         \/ \E i \in jobs.pending : JobTurnsIdle(i)
         \/ \E i \in results.pending : ResultTurnsIdle(i)
         \/ UNCHANGED vars
  PROVE  LoopsOK(w, c)' /\ Budget(w, c, spent)'
<1>1. /\ Steady /\ Budget(w, c, spent) /\ w \in Workers /\ c \in Consumers
      /\ RequestsKept /\ Uncounted(spent) /\ BatchSize \in Nat
      /\ jobs \in StreamOf(JobEntry) /\ results \in StreamOf(ResultEntry)
      /\ HandOK(stage[w], hand[w], jobs) /\ HandOK(stage[c], hand[c], results)
  <2>1. UNCHANGED <<request, effectVars>>
    BY DEF Restart, JobTurnsIdle, ResultTurnsIdle, vars
  <2> QED
    BY <2>1, EffectsRest DEF Setting, LoopsOK, Steady, TypeOK, RequestsKept
<1>2. CASE UNCHANGED <<stage, hand>>
  <2>1. /\ \/ jobs' = jobs
           \/ \E i \in jobs.pending : jobs' = TurnsIdle(jobs, i)
        /\ \/ results' = results
           \/ \E i \in results.pending : results' = TurnsIdle(results, i)
    BY DEF Restart, JobTurnsIdle, ResultTurnsIdle, vars, streamVars
  <2>2. /\ Unacked(jobs') = Unacked(jobs) /\ Unacked(results') = Unacked(results)
        /\ jobs'.cursor = jobs.cursor /\ jobs'.pending = jobs.pending
        /\ results'.cursor = results.cursor /\ results'.pending = results.pending
    BY <1>1, <2>1, PolledTally DEF TurnsIdle
  <2>3. HandOK(stage'[w], hand'[w], jobs') /\ LiveJobs(w)' \subseteq LiveJobs(w)
    BY <1>2, <2>2, WorkerRests
  <2>4. /\ HandOK(stage'[c], hand'[c], results')
        /\ LiveResults(c, spent)' \subseteq LiveResults(c, spent)
    BY <1>2, <2>2, ConsumerRests
  <2> QED
    BY <1>1, <2>3, <2>4, SameLive DEF LoopsOK
<1>3. ASSUME NEW p \in {w, c}, Restart(p)
      PROVE  LoopsOK(w, c)' /\ Budget(w, c, spent)'
  <2>1. /\ stage[p] = "down" /\ stage' = [stage EXCEPT ![p] = "poll"] /\ hand' = hand
        /\ jobs' = jobs /\ results' = results /\ w # c
        /\ stage \in [Processes -> WorkerStages \cup ConsumerStages]
        /\ w \in Processes /\ c \in Processes
    BY <1>3 DEF Restart, GoTo, streamVars, Setting, Steady, TypeOK
  <2>2. \A q \in {w, c} : /\ stage'[q] = IF q = p THEN "poll" ELSE stage[q]
                          /\ hand'[q] = hand[q]
    BY <2>1
  <2>3. LoopsOK(w, c)'
    BY <1>1, <2>1, <2>2 DEF LoopsOK, HandOK
  <2>4. LiveJobs(w)' = LiveJobs(w) /\ LiveResults(c, spent)' = LiveResults(c, spent)
    BY <2>1, <2>2 DEF LiveJobs, LiveResults, Live, Between
  <2> QED
    BY <1>1, <2>3, <2>4, SameLive
<1> QED
  BY <1>2, <1>3 DEF JobTurnsIdle, ResultTurnsIdle, vars, processVars

\* Every step of one worker and one consumer pays.
LEMMA AlonePays ==
  ASSUME PipelineAssumption, NEW w, Workers = {w}, NEW c, Consumers = {c},
         NEW spent \in {Applied, Ended}, AloneInv(w, c, spent), TypeOK', [Next]_vars
  PROVE  AloneInv(w, c, spent)'
<1>1. /\ TypeOK /\ w \in Workers /\ c \in Consumers /\ w \notin Consumers /\ c \notin Workers
      /\ Processes = {w, c} /\ w # c
  BY DEF PipelineAssumption, AloneInv, Processes
<1>2. Extends(jobs, jobs') /\ Extends(results, results')
  <2>1. CASE Next
    BY <1>1, <2>1, NextGood DEF GoodStep, Kept, StreamsStep
  <2>2. CASE UNCHANGED vars
    BY <2>2 DEF vars, streamVars, Extends
  <2> QED
    BY <2>1, <2>2
<1>3. faults' >= faults
  <2>1. faults' = faults \/ Fault
    BY DEF Next, SaveRequest, Enqueue, EnqueueFails, WorkerStep, WorkerClaims, WorkerReads,
       LlmSucceeds, LlmFails, LlmQuotaError, WorkerCalls, WorkerCallFails, ConsumerStep,
       ConsumerClaims, ConsumerReads, ApplyResult, SettleResult, EmptyPlan,
       ReportFailedResult, HandlerRejects, ConsumerCalls, ReportExhausted, HandlerFails,
       ConsumerCallFails, JobTurnsIdle, ResultTurnsIdle, PollFails, Crash, Restart, vars
  <2>2. faults \in Nat
    BY <1>1 DEF TypeOK
  <2> QED
    BY <2>1, <2>2 DEF Fault
<1>4. Setting(w, c, spent)
  BY <1>1, <1>2, <1>3 DEF Setting, Steady, AloneInv, PipelineAssumption
<1>5. LoopsOK(w, c)' /\ Budget(w, c, spent)'
  BY <1>1, <1>4, SubmissionPaid, WorkerPollPaid, LlmPaid, WorkerCallsPaid, WorkerCallFailsPaid,
     ConsumerPollPaid, HandlerPaid, ConsumerCallsPaid, ConsumerCallFailsPaid, StopPaid, ElsePaid
     DEF Next, WorkerStep, ConsumerStep
<1> QED
  BY <1>5 DEF AloneInv

\* Nothing is queued at first, and each request is one token.
LEMMA AloneAtFirst ==
  ASSUME Init, NEW w \in Workers, NEW c \in Consumers, NEW spent
  PROVE  AloneInv(w, c, spent)
<1>1. TypeOK
  BY InitTyped
<1>2. /\ stage[w] = "poll" /\ hand[w] = {} /\ stage[c] = "poll" /\ hand[c] = {}
      /\ Entries(jobs) = {} /\ Entries(results) = {}
  BY DEF Init, Processes, Entries, EmptyStream
<1>3. LoopsOK(w, c)
  BY <1>2 DEF LoopsOK, HandOK
<1>4. ASSUME NEW j \in Jobs
      PROVE  Count(spent, j) = 0 /\ TokensOf(w, c, spent, j) \subseteq {<<"request", j>>}
  <2>1. Count(spent, j) = 0
    BY FS_EmptySet DEF Count, Init
  <2>2. LiveJobs(w) = {} /\ LiveResults(c, spent) = {}
    BY <1>1, <1>2, LiveEntries
  <2> QED
    BY <2>1, <2>2 DEF TokensOf, Tokens, About
<1>5. ASSUME NEW j \in Jobs
      PROVE  Count(spent, j) + Cardinality(TokensOf(w, c, spent, j)) <= 1 + faults
  <2>1. IsFiniteSet({<<"request", j>>}) /\ Cardinality({<<"request", j>>}) = 1
    BY FS_Singleton
  <2>2. /\ Cardinality(TokensOf(w, c, spent, j)) \in Nat
        /\ Cardinality(TokensOf(w, c, spent, j)) <= 1
    BY <1>4, <2>1, FS_Subset, FS_CardinalityType
  <2>3. faults = 0
    BY DEF Init
  <2> QED
    BY <1>4, <2>2, <2>3
<1> QED
  BY <1>1, <1>3, <1>5 DEF AloneInv, Budget

\* The budget bounds what was done.
LEMMA CountBounded ==
  ASSUME NEW w \in Workers, NEW c \in Consumers, NEW spent, AloneInv(w, c, spent),
         NEW j \in Jobs
  PROVE  Count(spent, j) <= 1 + faults
<1>1. Cardinality(TokensOf(w, c, spent, j)) \in Nat
  BY TokensFinite, FS_CardinalityType DEF AloneInv
<1>2. Count(spent, j) \in Nat /\ faults \in Nat
  BY CountType DEF AloneInv, TypeOK
<1>3. Count(spent, j) + Cardinality(TokensOf(w, c, spent, j)) <= 1 + faults
  BY DEF AloneInv, Budget
<1> QED
  BY <1>1, <1>2, <1>3

(***************************************************************************)
(* With one worker and one API instance, a failed call or a crash causes   *)
(* at most one repeated write of a job's result: retries, rejected results *)
(* and claims repeat nothing, whatever the batches and the jobs are.       *)
(***************************************************************************)
THEOREM OneOfEachRepeatsNeedFaults ==
  ASSUME NEW w, Workers = {w}, NEW c, Consumers = {c}
  PROVE  Spec => []DuplicatesNeedFaults
<1>1. Init => AloneInv(w, c, Applied)
  BY AloneAtFirst
<1>2. AloneInv(w, c, Applied) /\ TypeOK' /\ [Next]_vars => AloneInv(w, c, Applied)'
  BY AlonePays, PipelineAssumption
<1>3. AloneInv(w, c, Applied) => DuplicatesNeedFaults
  BY CountBounded DEF DuplicatesNeedFaults, Count
<1> QED
  BY <1>1, <1>2, <1>3, TypeCorrect, PTL DEF Spec

(***************************************************************************)
(* With one worker and one API instance, and no failed call and no crash,  *)
(* a job is not reported both completed and failed: it ends once.          *)
(***************************************************************************)
THEOREM OneOfEachVerdictsAgree ==
  ASSUME NEW w, Workers = {w}, NEW c, Consumers = {c}
  PROVE  Spec => []VerdictsAgree
<1>1. Init => AloneInv(w, c, Ended)
  BY AloneAtFirst
<1>2. AloneInv(w, c, Ended) /\ TypeOK' /\ [Next]_vars => AloneInv(w, c, Ended)'
  BY AlonePays, PipelineAssumption
<1>3. AloneInv(w, c, Ended) => VerdictsAgree
  <2> SUFFICES ASSUME AloneInv(w, c, Ended), NEW j \in Jobs, faults = 0,
                      "completed" \in outcome[j], "failed" \in outcome[j]
               PROVE  FALSE
    BY DEF VerdictsAgree
  <2>1. Count(Ended, j) <= 1 /\ Count(Ended, j) = Cardinality(outcome[j])
    BY CountBounded DEF Count, Applied, Ended
  <2>2. IsFiniteSet(outcome[j])
    <3>1. IsFiniteSet({"completed"}) /\ IsFiniteSet({"failed"}) /\ IsFiniteSet({"nothing"})
      BY FS_Singleton
    <3>2. Outcomes = {"completed"} \cup {"failed"} \cup {"nothing"}
      BY DEF Outcomes
    <3>3. IsFiniteSet(Outcomes)
      BY <3>1, <3>2, FS_Union
    <3> QED
      BY <3>3, FS_Subset DEF AloneInv, TypeOK
  <2>3. /\ {"completed", "failed"} \subseteq outcome[j]
        /\ Cardinality({"completed", "failed"}) = 2
    <3>1. "completed" # "failed"
      OBVIOUS
    <3>2. Cardinality({"completed"} \cup {"failed"}) = 2
      <4>1. IsFiniteSet({"completed"}) /\ Cardinality({"completed"}) = 1
        BY FS_Singleton
      <4> QED
        BY <3>1, <4>1, FS_AddElement
    <3>3. {"completed", "failed"} = {"completed"} \cup {"failed"}
      OBVIOUS
    <3> QED
      BY <3>2, <3>3
  <2>4. Cardinality({"completed", "failed"}) <= Cardinality(outcome[j])
    BY <2>2, <2>3, FS_Subset
  <2> QED
    BY <2>1, <2>2, <2>3, <2>4, FS_CardinalityType
<1> QED
  BY <1>1, <1>2, <1>3, TypeCorrect, PTL DEF Spec

=============================================================================
