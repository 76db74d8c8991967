# A verification project for the Ragnarock backend

Ragnarock is a NestJS backend (`apps/main`, `apps/mcp`, `apps/admin`, shared code in
`libs/`) with a Python agent service (`agent/`) that runs LLM pipelines. This
directory holds TLA+ modules translated from that code, TLC runs that check them
on small instances, and TLAPS proofs that hold for every instance.

The code is the reference. Where a document, a comment or a test says something
else, the module follows the code, and the sentence is stated as a property that
a run refutes (section 6). `PROJECT.json` lists for every definition the lines it
stands for; paths below are relative to `src/`.

To check a run: `tlc -config PipelineOneTurn.cfg MCJobPipeline.tla`. To check the
proofs: `tlapm JobPipelineProofs.tla`.

## 1. Inventory

### Components

| Component | State | Operations | Talks to |
| --- | --- | --- | --- |
| AI job pipeline (`apps/main/src/ai-requirements/*queue*`, `*consumer*`; `agent/app/queue`) | jobs and results stream with one consumer group each, two dead letter streams; in every process the batch it was given | submit, claim, read, run, publish, requeue, apply, retry, shelve, acknowledge | Redis Streams, PostgreSQL, project rooms |
| Result handlers and AI requests (`ai-chat-turn`, `ai-planner`, `ai-qa-intelligence`, `arch-doc`) | shared SRS draft, specification, documents, features with requirements, test cases, planned tasks | ask (gate and snapshot), one handler per result kind | PostgreSQL rows also written by the REST API |
| Ragnarock project chat | chats and their messages; a read-only snapshot of the project | create a chat, ask, answer | the pipeline |
| AI chat gateway, sessions | sockets in project and session rooms, session rows | join, message | chat turns, broadcasts |
| Linear synchronisation (`linear-sync`) | mapping with status and cursor, issue links, runs; the issues in Linear | link, unlink, import, export, sync, scheduled sync | Linear GraphQL, PostgreSQL, tasks |
| E-mail queue (`libs/mailer`) | e-mail stream, dead letter stream, batch in memory | enqueue, claim, read, send, retry, shelve | Redis Streams, SMTP or Brevo |
| Projects, members, tasks, requirements, documentation, skills, API keys, activity | rows, some with unique keys | create, update, reorder, remove behind a membership check | PostgreSQL, Linear sync (tasks), AI handlers (documents) |
| Integrations, repositories | connection rows, linked repositories, an in-memory cache with a time to live | connect, verify, disconnect, link, refresh | GitHub and Linear APIs |
| Agent graph, LLM providers, memory, tools | per-call graph state, a table of remembered texts with their vectors | run one job: extract, recall, ask, remember, hand back | LLM providers, PostgreSQL |
| Authentication, users and search | sessions of the Better Auth library, an external search index | sign up, sign in, search | PostgreSQL, Redis, Typesense |
| MCP server, admin application | `lastUsedAt` of a key | tools behind an API key: all read but one, which completes a task; a stub | PostgreSQL |
| Infrastructure libraries (config, logger, prisma, uploader, common, docs) | none | adapters | |

### What is hard

* **Between processes.** Workers and API instances share consumer groups, and an
  entry idle for `claimIdleMs` may be claimed while its first reader still works
  on it. Two result consumers may handle two results of one project at once. Two
  Linear requests may run for the same mapping.
* **Between two calls of one handler.** Nothing spans more than one call except
  two small transactions. Every handler reads, awaits, writes, awaits: a failed
  call or a crash leaves a prefix behind, and what was read may be old when it is
  used (the draft of a chat turn, the task of an import, the cursor of a sync).
* **Between a call and its reply.** A Redis write, a Linear mutation or a mail may
  take effect although the caller sees an error.
* **Between two systems.** The Linear sync compares clocks of rows that users of
  two systems edit while it runs.

`PROJECT.json` lists each hazard at the line where it bites and the properties
that would catch it going wrong.

### What makes each component correct

* Pipeline: no queued job is lost; every queued job gets an outcome; results are
  repeated only when something failed; the retry budget holds; a failed job can be
  found in a dead letter stream.
* Artifacts: specification, document and requirements agree; there is one of each, and of
  the architecture documents one of each type and layer;
  a turn's content does not vanish from the draft; test cases belong to the test
  plan.
* Linear: the lock is given back; runs are closed; pairs that count as synced are
  equal as far as an export can make them; nothing gets a second counterpart; a full import misses nothing.
* E-mail: no mail is lost, sent twice without a fault, or given up early.
* Agent: a failing memory fails no job; what was answered is remembered; a run asks
  the LLM a bounded number of times.
* Workspace: a project keeps an owner; positions, versions and names fit the rows
  they are computed from; who was never a member gets in nowhere.

## 2. Modules

| Module | Models | Extends |
| --- | --- | --- |
| `RedisStreams` | XADD, XREADGROUP, XAUTOCLAIM, XACK on a stream with one group (external code, from how both sides call it) | |
| `JobDelivery` | abstract promise of a queue: settled only what was accepted, for good, and in the end everything | |
| `JobPipeline` | submission, agent worker, result consumer, time, crashes | `RedisStreams`, instance of `JobDelivery` |
| `MCJobPipeline` | the pipeline for TLC, with the symmetry of its processes (used by `pipeline_two_workers`; not by the run with liveness) | `JobPipeline` |
| `EmailQueue` | the e-mail queue | `RedisStreams`, instance of `JobDelivery` |
| `ProjectArtifacts`, `MCArtifacts` | what requests read and result handlers write, per project | |
| `AgentRun`, `MCAgentRun` | one call of `process_job` in the agent: the detail behind the pipeline's LLM steps | |
| `ApiRequests` | what all requests to the API share: guards, calls one after the other, early ends, activity | |
| `ProjectMembers` | the project, its members, roles and personas | `ApiRequests` |
| `ProjectContent` | tasks, documents, requirements, skills, API keys and the MCP client | `ApiRequests` |
| `LinearConnection` | connecting, verifying and disconnecting Linear | `ApiRequests` |
| `LinkedRepositories` | linked repositories and the cache of GitHub's answers | `ApiRequests` |
| `ProjectRooms` | sockets, rooms, AI chat sessions, submitted turns, events | `ApiRequests` |
| `RagnarockChat` | chats with Ragnarock, questions, answers | `ApiRequests` |
| `Workspace`, `MCWorkspace` | the composition: the parts share the project and its members, and their rows go with it | the six modules above |
| `LinearSync` | mapping, links, import, export, sync with both systems' users | |
| `RedisStreamsProofs`, `JobPipelineProofs`, `EmailQueueProofs`, `ArtifactsProofs`, `AgentRunProofs`, `LinearSyncProofs`, `WorkspaceProofs` | theorems and proofs | the module they are about |
| `JobOutcomeProofs` | what becomes of a job: the refinement, the retry budget, the dead letters, repeats | `JobPipelineProofs` |

Operators marked "Mutant" are variants of the definition that follows them, each
with one plausible mistake. `PROJECT.json` pairs every property of a passing run
with one of them: put in place of the definition, TLC finds the property violated.

### JobPipeline

One step is one Redis call, one database write or one broadcast. A process is a
loop (`loop` alternates claim and read), the entries it was handed (`hand`, handled
in the order of their ids) and the next call (`stage`).

| Code | Model |
| --- | --- |
| `ai-chat-turn.service` request, queue producer `push` | `SaveRequest`, `Enqueue`, `EnqueueFails` |
| `requirements_worker.py` `_read_messages`, `_claim_stale_messages` | `WorkerReads`, `WorkerClaims` |
| `_handle_message`, the LLM call | `LlmSucceeds`, `LlmFails`, `LlmQuotaError`; a payload the schema rejects goes to the dead letter stream |
| `_handle_processing_failure` and the one-shot handlers' except blocks | `WorkerHandlesError`, then the stages `requeue`, or `publishFailed`, `dlq`, `done` |
| `ai-requirements-result.consumer.ts` loop | `ConsumerReads`, `ConsumerClaims` |
| the result handlers, seen from outside | `ApplyResult` (first write), `SettleResult` (the rest and the broadcast), `EmptyPlan`, `ReportFailedResult`, `HandlerRejects`, `HandlerFails` |
| `handleProcessingFailure` | `ConsumerHandlesError`, then `retry`, or `dlq`, `report` |
| container restart policy, `claimIdleMs` | `Restart`, `JobTurnsIdle`, `ResultTurnsIdle` |

Two details decide most properties. The worker's loop catches what its handlers let
through; the consumer's loop does not, so one failed Redis call ends the process.
And publishing a result and acknowledging its job are in one `try` block: a lost
acknowledgement counts as a failed run.

### EmailQueue

The same shape with one actor. `attempts` is compared after adding one, so a mail
is tried `maxRetries + 1` times; an acknowledgement that fails counts as a failed
send. `tries` and `sent` are history variables: calls of the mail server and
deliveries it accepted.

### ProjectArtifacts

An SRS is the set of the turns whose content it holds, and each turn brings one
feature. A request checks its gate and reads its snapshot (`Ask`), and is queued in
a later step. The agent's answer carries the whole snapshot on. A consumer then
makes one database call per step: the lookup of the rows to replace, the four
writes of `Promise.all` in any order (`Land`), the requirements of each feature
removed and created (`Clear`, `Fill`), a test plan's cases and documents removed
and created. Transport is reduced to "a result stays available until it is
acknowledged", in any order; how often it is repeated is the pipeline's concern.

A document has a key: its type, and for an architecture document the layer that its
title names (`DocKey`). `Found` is the lookup, which differs by kind of answer: a completed SRS
takes the oldest document of its type, a test plan all of them, an architecture document any one with
its type and title. `Gate` has the dependencies between architecture documents: a high-level design
needs an architecture document, a low-level one a high-level design, of its layer when it names
one. The code looks for a title that contains the layer's name; layers are taken not to contain one another's.
A suite in `Bare` is answered without a test case, and then no row is created.

### LinearSync

A request walks through the calls of `importProject`, `exportProject` or `syncProject`
(`pc`), with its local variables in `ctx`. The check "a sync is already in
progress" and the lock are two calls. `links` are the rows with the times the last
exchange saw. Users of both systems edit between any two calls, and one clock dates
both systems. `run` is the audit row of the last operation. `ctx[r].quiet` is a
history variable: nobody edited since the request began.

A task has a `title` and a `note`. The title stands for the fields that every export sends: title,
priority, status (as the Linear state for it). The note stands for those that `buildIssueMutationInput` sends only when they have a value:
description, due date, labels. An empty note is left out of the mutation (`Sent`), so an issue keeps its own; an
import writes whatever the issue says. Linking again may choose another Linear project, and a request
goes on with the one it read. An export reads the `TaskLimit` tasks written last (500 in the code), takes the
dirty ones, and of these a batch.

### AgentRun

A worker takes a job (`Take`), extracts the text of a link or a file (`Extract`), reads the
memory (`Recall`), asks the LLM (`LlmAnswers`, `LlmUnusable`, `LlmFails`), stores what it
learned (`StoreSrs`, `StorePair`) and publishes (`Publish`). `Tries` is the number of calls that a graph
makes when the answer cannot be parsed; `Raise` is `_handle_processing_failure`, which puts a chat
turn back while its attempts last. `memory` counts the rows that hold a chunk. A job that runs
again, after a crash or in a second worker, is another delivery of the same payload
(`repeats`). What each answer says about features is the sequence of their ids
(`labelled`).

### Workspace

Every request is in one of the modules of its part and goes the same way: a guard reads the role
of its user (`Accept`), and then the handler makes one database call per step, with
what it has read in `ctx[r].seen`. It may end before any call (`Stops`): a row is gone, the service
refuses, a constraint or a call fails; what was written stays, which is what the code
does without transactions. `Workspace` composes the parts: a step of one leaves the variables of the
others alone, except that removing the project takes its rows everywhere (`Cascade`). Sockets in rooms,
answers in the cache and queued questions stay, as in the code.

`ctx[r].quiet` is a history variable: no other request has written since `r` came in. The
handlers are free of locks, so most invariants hold only for such requests;
`SerialWhenAlone` says so for four of them, and `OwnersKept` says exactly which steps may take
the last owner away. `OutsidersNeverIn` needs no such condition: its checks go through
however requests interleave, but they speak of users who have *ever* been members,
because nothing is taken back from a user whose membership ends.

Requests leave out what the code lets them leave out: an update of a task may name no column, position or
assignee (`Updated`), adding a member may name no personas. Linear may refuse a good token's question with an error of its own
(`VerifyLinearPat`).

| Code | Model |
| --- | --- |
| `project-member.guard`, `project-role.guard`, `organization-admin.guard`, `api-key.guard` | `Accept`, `AcceptLinearRequest`, `FindsKey`, `TouchKey` |
| `projects.service`, `project-members.service` | `CreateProject`, `UpdateProject`, `LogRemoval`, `RemoveProject`; `JoinOrganization`, `AddMember`, `UpdateRole`, `UpdatePersonas`, `CountOwners`, `CheckOwner`, `RemoveMember` |
| `project-tasks.service` | `CheckAssignee`, `PlaceTask`, `CreateTask`, `UpdateTask`, `FindTasks`, `ReorderTasks`, `RemoveTask` |
| `project-api-keys.service`, `apps/mcp` | `CheckName`, `CreateKey`, `RevokeKey`, `KeyExpires`, `MarkTaskComplete` |
| `project-documentations.service`, and the document that a chat turn writes | `ReadDoc`, `WriteDoc`, `NextVersion`, `AgentWritesDoc` |
| `integrations.service`, `linear-api` | `VerifyNewToken`, `Connect`, `AskLinear`, `CannotDecrypt`, `SaveVerification` |
| `repositories.service` | `LinkRepository`, `RefreshRepository`, and `Serve`, `Fetch`, `Keep` for all reads through the cache |
| `ai-chat.gateway`, `ai-chat-session.service`, `ai-chat-broadcast.service` | `CheckMembership`, `Join`, `Leave`, `CheckContributor`, `StoreMessage`, `Emit` |
| `ragnarock-chat.service` | `FindChat`, `StoreQuestion`, `QueueQuestion`, `HandleAnswer` |

## 3. Runs

Twelve runs, eight that pass and four that find what section 6 describes.

| Run | Instance | Question |
| --- | --- | --- |
| `pipeline_one_turn` | one chat turn, one worker, one API instance, one retry, two faults, one quota error, fairness | what may be repeated, how often, and does every queued job get its outcome |
| `pipeline_two_workers` | a plan and a payload the worker rejects in one batch, two workers that claim from each other, one fault | does the inductive invariant hold, is no job lost, and does the pipeline implement `JobDelivery` |
| `linear_one` | two operations one after the other, two edits, two Linear projects, a link and another or an unlink, one crash, failed query or lost reply | do the two systems agree, as far as an export can make them |
| `linear_two` | two operations at once, link, unlink, link again, one edit, fairness | is the lock given back and the audit log closed |
| `email_queue` | two mails in a batch, one retry, one fault, fairness | is every mail settled, none lost, repeated or given up early |
| `artifacts` | three requests out of two turns, a plan, two test plans (one without a case) and five architecture documents, or one turn with all five; two layers, one design asked for twice; one fault, one removed document | do the artifacts of a project agree, is there one of each, and does none replace another |
| `agent_run` | one job of each of the six kinds in turn, two workers, one retry, one quota error, one repeat, one failed call to the memory, fairness | what does the agent store, ask and answer, and is every job decided |
| `workspace` | two users (two owners, an owner and a member, or an owner alone), two requests to any one part, three where the parts are small, and the removal of members or of the project among them | what do checks in earlier calls still guarantee |

### Bounds and why they are enough

* `MaxRetries` is 0 or 1. The code compares a counter with it in one place per
  side; one retry exercises both branches, and the retry after a retry repeats them.
* `MaxFaults` counts failed calls, lost replies and crashes together. One fault
  already interrupts every pair of calls of every handler. Two are used where a
  repeat of the repeat could differ (`pipeline_one_turn`).
* One or two jobs, two workers: jobs meet only in a batch, which `pipeline_two_workers`
  has; claiming needs two workers and one entry.
* `MaxRounds = 2`: each Linear property relates an operation to the one before it or
  beside it. Two edits give a task and a later
  edit of it or of its issue. `BatchSize = 1` makes two items need two pages or batches.
* `MaxRequests = 3`: every defect of `ProjectArtifacts` that came up needs two
  requests of a kind, and a document of another kind needs a specification first. `Together` are requests
  that may meet in any number: a turn and five designs, which the gates put in a row of four.
* In `workspace` a behaviour is about one part of the API (`area`), and requests to
  members and the project may be among its requests: parts meet only through the project and its
  members. Two requests show every race between two calls; `RequestsOf` is three where a third
  matters (a project has to be created first; a token replaced twice; a key made, used and
  revoked). Two users suffice to have an actor and the member acted on, one of them
  an outsider; one tick past `Ttl` lets an answer expire. Requests are symmetric.
* In `agent_run` one job at a time: jobs share the memory, which only grows, and the session
  under way stands for the earlier ones.
* What the bounds leave out, the proofs cover for the invariants they are about: they
  assume no bound on jobs, processes, retries, faults or requests.

`CHECK_DEADLOCK FALSE` is set where a behaviour comes to rest: once the
bounded operations, edits and requests of `LinearSync` and `ProjectArtifacts` are
used up nobody has anything to do; the same holds for `AgentRun` and `Workspace`. The queues poll forever and are checked for
deadlock.

### Fairness

Liveness is claimed under weak fairness of each process's own loop, of the restart of
a stopped process, and of the passing of `claimIdleMs`. The worker and the consumers are
`while` loops around blocking reads with a timeout, so an iteration always comes; the
containers have a restart policy (`docker/staging/docker-compose.yml:61,85,103`,
`agent/docker-compose.yml:11`); time passes. Weak
fairness suffices because a step of a process is disabled only by that process or by
its own crash. A Linear request that was started is carried on, and so is a run of the agent, whose calls to providers,
to the memory and to Redis all end. Nothing obliges a
user to submit or edit, an LLM to succeed, or a fault to occur.

## 4. Proofs

| Theorem | Says |
| --- | --- |
| `JobPipelineProofs!TypeCorrect`, `InvariantHolds` | `Spec => []TypeOK`, `Spec => []IInv` |
| `JobPipelineProofs!JobsAreNeverLost` | `Spec => []NoJobLost` |
| `JobOutcomeProofs!PipelineImplementsDelivery` | `Spec => DeliverySafety`, the safety part of `JobDelivery` |
| `JobOutcomeProofs!AttemptsAreBounded` | `Spec => []AttemptsBounded` |
| `JobOutcomeProofs!FailuresAreShelved` | `Spec => []FailedJobsAreShelved` |
| `JobOutcomeProofs!OneOfEachRepeatsNeedFaults` | with one worker and one consumer, `Spec => []DuplicatesNeedFaults` |
| `JobOutcomeProofs!OneOfEachVerdictsAgree` | with one worker and one consumer, `Spec => []VerdictsAgree` |
| `EmailQueueProofs!TypeCorrect` | `Spec => []TypeOK` |
| `EmailQueueProofs!MailsAreNeverLost` | `Spec => []NoMailLost` |
| `EmailQueueProofs!MailsAreTriedBeforeShelving` | `Spec => []ShelvedAfterAllTries` |
| `EmailQueueProofs!EmailQueueImplementsDelivery` | `Spec =>` the safety part of `JobDelivery` |
| `EmailQueueProofs!OneConsumerRepeatsNeedFaults` | `Consumers = {c}` implies `Spec => []RepeatsNeedFaults` |
| `ArtifactsProofs!TypeCorrect` | `Spec => []TypeOK` |
| `ArtifactsProofs!SequentialTurnsAreKept` | with one consumer, `Spec => []SequentialTurnsKept` |
| `ArtifactsProofs!PlansRepeatOnlyAfterFaults` | with one consumer, `Spec => []PlanRepeatsNeedFaults` |
| `ArtifactsProofs!OneIsKeptOfEach` | with one consumer, `Spec => []OneOfEach` |
| `ArtifactsProofs!LayersStayApart` | `Spec => []LayersApart`, for any number of consumers |
| `ArtifactsProofs!CasesFollowThePlan` | with one consumer, `Spec => []CasesOfTestPlan` |
| `ArtifactsProofs!ArtifactsComeTogether` | with one consumer, `Spec => []ArtifactsAgree` |
| `AgentRunProofs!TypeCorrect` | `Spec => []TypeOK` |
| `AgentRunProofs!JobsFailForAReason` | `Spec => []FailedForAReason` |
| `AgentRunProofs!AnswersAreRemembered` | `Spec => []AnswersRemembered` |
| `AgentRunProofs!CallsAreBounded` | `Spec => []CallsBounded` |
| `AgentRunProofs!SrsRowsNeedReruns` | `Spec => []SrsRepeatsNeedReruns` |
| `LinearSyncProofs!LockInvariant`, `LockIsReleased` | `Spec => []IInv`, `Spec => []LockReleased` |
| `LinearSyncProofs!TypeCorrect` | `Spec => []TypeOK` |
| `LinearSyncProofs!SyncRunsAreClosed` | `Spec => []SyncRunsClosed` |
| `LinearSyncProofs!SynchronisedPairsAgree` | `Spec => []CleanMeansSynced` |
| `LinearSyncProofs!FullImportsCatchUp` | `Requests = {q}` implies `Spec => []FullImportCatchesUp` |
| `LinearSyncProofs!CounterpartsAreUnique` | `Requests = {q}` implies `Spec => []OneCounterpart` |
| `WorkspaceProofs!TypeCorrect` | `Spec => []TypeOK` |
| `WorkspaceProofs!OwnersAreKept` | `Spec => OwnersKept` |
| `WorkspaceProofs!OutsidersStayOut` | `Spec => []OutsidersNeverIn` |
| `WorkspaceProofs!AnswersComeAfter` | `Spec => []AnswersFollowQuestions` |
| `WorkspaceProofs!AloneIsSerial` | `Spec => SerialWhenAlone` |

Assumed of the constants, and evaluated by TLC in every run of their module:
`PipelineAssumption` (chat turns and plans are different jobs, workers and consumers different
processes, bounds are numbers), `EmailAssumption` (bounds), `ArtifactsAssumption` (a result is of
one kind, an architecture document has a type and perhaps a layer), `AgentAssumption` (a session has at most four messages, and a draft is a sequence of
feature ids), `SyncAssumption` (bounds, kinds of requests, "app" is no Linear project), and for the workspace `ApiAssumption`
(finitely many users, none of whom is "nobody"), `MembersAssumption` (a role that is given is a role),
`ContentAssumption` (no user is "unnamed"),
`LinearAssumption` (administrators of the organization are users), `RepositoriesAssumption` (times
are numbers) and `WorkspaceAssumption` (a team gives each user a role or none).

**One process.** Some theorems take one API process, or one Linear request at a time, as a
hypothesis, and say so. One API process is the deployment of the repository (one container, `docker/staging/docker-compose.yml`),
and the runs use it too. One Linear request at a time is what the lock intends but does not guarantee (section 6): those theorems say what a
request does when no other runs. Two processes break what these properties rest on: both handlers look up the old rows
and both write new ones. Two theorems about the pipeline also take one worker, as `agent/Dockerfile` starts it; the staging
image (`docker/staging/Dockerfile.agent:21`) starts two, and there a claimed entry may repeat a job
without any fault (section 6). The hypothesis is a set of one element, so each theorem still holds for any
number of jobs, mails, turns, tasks, issues, retries and faults.

**No job is lost.** `NoJobLost` alone is not inductive: a worker at its acknowledgement
may hold the only entry of a job. The invariant adds what each process owes. A worker
that is about to acknowledge entry `m` has passed its job on (`PassedOn`): a *later*
unacknowledged job entry, an unacknowledged result, or an outcome. "Later" matters:
with any other entry in its place two workers that hold two copies of a job could rely
on each other's and both acknowledge. The consumer's duty (`ConsumerDuty`) has the
same form. The proof has three layers:

1. `RedisStreamsProofs`: what each command does to the entries, the unacknowledged
   entries and the type of a stream.
2. Types: every action is a `GoodStep`, one lemma per group of actions: it keeps `TypeOK`,
   acknowledges at most the entry of a process at the end of its handler, removes nothing
   else from what is unacknowledged, and withdraws no outcome.
3. Duties: `PassedOnKept` shows that a duty survives each step of another process. The only
   step that can endanger it is an acknowledgement, whose own duty then supplies a
   later entry. `QuietKept` covers the processes that do not move, `WorkerDutyKept` and
   `ConsumerDutyKept` those that do.

**What becomes of a job.** The refinement maps what was pushed to `accepted` and what has an
outcome to `settled`. Only accepted jobs are settled because every result is about an
accepted job (`Origin`), and nothing takes an outcome back. `RetryDuty` says that an entry with more
attempts than the budget exists only after a quota error that was counted. For the dead letters,
`ToldInv` says of every accepted job that it is shelved or has more than a failure, or that
an entry or a result carries it that may still lead there (`Told`), and that no process acknowledges the last of these
(`TellDuty`). With one worker and one consumer, writes are counted with tokens: a request not yet queued, a job
entry that may still be published, a result that may still be written. For each job the writes made and
its tokens are at most one more than the faults (`Budget`): a step without a fault passes a token on or spends it,
a fault adds at most one. `HandOK` says why no entry is worked on twice: the only process of its group holds
only entries that are pending and acknowledges none before its turn. The same budget with ends of a job in place
of writes gives `VerdictsAgree`.

**E-mail.** The argument of the pipeline with one actor: types, a duty for the first entry of each
consumer, `NoMailLost`; `AttemptsMade` (the counter in an entry is at most the tries made) adds
`ShelvedAfterAllTries`. `RepeatsNeedFaults` is not inductive: the invariant is a budget. An entry is
live while it may still cause a delivery, and for each mail `sent` plus its live entries is at most one more than
the faults. A step without a fault moves or spends a live entry; a fault adds one at most.

**Artifacts.** `TypeInv` says which answers bring a handler to which call. `Serial` says that waiting
answers belong to answered requests, one each. On top stands one invariant per property: what the draft holds
(`DraftInv`), what a plan's faults have paid for (`PlanInv`), that what a handler has looked up is
all there is of its key until it writes (`OneInv`), that a waiting or handled answer restores the cases and the agreement that are
missing at the moment (`CasesInv`, `AgreeInv`). `LayersApart` needs no single process (`KeptInv`): what any handler has looked up is of the key it
will write, so a write never changes the key of a row, and only a removal does.

**The agent.** `CoreInv` bounds the length of a session's history by the question it
carries and ties a worker's place to the kind of its job. Each bound is then a budget: what was spent
(runs failed, calls made, rows written) together with what entries that wait and runs under way may still
spend never exceeds what the retries and quota errors allow. The budgets are counted as finite sets of
tokens, so that a step is an injection of one set into another.

**Linear.** `AgreeInv`: the two sides of a link whose rows were not written after its times carry the same title and, unless the task's is empty, the same note, and a
request's copy of a row is what the row still says, or is older than the row. Every write takes a time of its own
from the clock, so a write never makes a copy untrue, it only makes it old. For the theorems about one
request the invariants follow the walk of `importProject` and `exportProject` through the pages:
`CatchInv` has every issue up to the last one handled settled, and every later one on this page or a later
one; `OnceInv` has whatever was created from a row of the other system linked to it, or about to be, and what a
request takes for unlinked still unlinked.

**The lock.** `LockReleased` is not inductive because a request that ends after its mapping was
unlinked leaves the status alone. `IInv` adds that an absent mapping is never "syncing". Each action
of a request either keeps it inside its critical stages, or writes the status, or finds
no mapping.

**The owners.** `OwnersKept` speaks of steps: when the owners are gone, the project is gone, or a
manager changed a role, or a removal went through that another request had written
beside. The invariant `OInv` says why a removal that nobody wrote beside (`quiet`) leaves an
owner: once it has counted, what it counted is the number of owners; once it has
decided to delete an owner, there are two. Each action of the composition
leaves the roles alone (`KeepsRoles`), counts them, or writes them and ends the quiet of all other
requests under way (`ChangesRoles`), which is the one thing that keeps the invariant when
somebody else's write changes the count.

**The rest of the workspace.** `TypeInv` couples the tables (without a project nobody is a member; positions
and versions are numbers of rows) with the requests: what each asks for fits its part (`Fits`), and one lemma per
part shows that a step leaves a request in its part. `OutsidersNeverIn` follows from `InsideInv`: a handler
past its check knows that its user was a member once (`Known`), and `everMember` only grows.
`AnswersFollowQuestions` from `AnswersInv`: a question that is queued or about to be stands in its chat, unless the project and
all its chats are gone, and then nothing is stored any more.
`SerialWhenAlone` from `QuietInv`: what a quiet handler has read is the current value of the rows, because every
action that writes such rows ends the quiet of all other requests under way.

**Only model-checked.** `EveryJobSettled`, `EveryMailSettled`, `SyncEnds` and `EveryJobDecided` are liveness
properties: they rest on fairness and ENABLED, which the prover does not handle. The theorems
with a one-process hypothesis claim nothing for several processes.

## 5. Abstractions

* LLM calls answer, give an answer that cannot be parsed, fail or meet a quota. What a model
  writes is left out, except which turns an SRS contains and which ids its features have.
* Streams are not trimmed (`MAXLEN ~ 10000`); messages' wording, templates and logs are
  left out; ids are fresh.
* A failing submission may have written its entry (the reply was lost).
* Linear: titles and notes as said in section 2; both systems share a clock;
  tasks and issues are not deleted; issues do not move to another Linear project. Every status of a task has a
  Linear state (a task without one fails, which `ExportUnitFails` includes), and labels that the team does not have are not
  attached to tasks. Assignees are left out: an export never sends one, and an import sets the issue's or none, so
  the two sides agree about them only by chance, and no property speaks of them.
* Artifacts: chat messages and uploads are left out; versions
  and documents of users are in `ProjectContent`, and no user's document has the type and title of an agent's. When one of `Promise.all`'s writes fails,
  the others are taken to end before the consumer handles its next result.
* Agent: prompts, similarity search, the choice between providers; a chunk is identified by what it
  was stored for.
* Workspace: texts are one of two values; listings, overviews, exports and searches read only and are left out; of an answer
  of GitHub only the time until which it is kept is modelled, and nothing is claimed about its age. One organization:
  its other members, invitations and removal are the Better Auth library's.
* The consumer of the pipeline counts a plan without tasks as settled: the code only logs it.

## 6. Where documents and code disagree

| Run | Sentence | What the code does |
| --- | --- | --- |
| `pipeline_invalid_payload` | "Invalid job payload: move to DLQ immediately, publish failed result" (`agent/MVP_FINAL.md:898`) | shelves it and publishes nothing |
| `linear_quiet` | "continuous bi-directional sync" (`agent/PROJECT_OVERVIEW.md:303`) | the import skips the issues the export wrote and moves the cursor past edits made in between |
| `artifacts_two_sessions` | "Every turn updates it. [...] Any team member can continue a session from where another left off" (`agent/PROJECT_OVERVIEW.md:237`) | overwrites the draft with an answer to an older snapshot |
| `agent_feature_ids` | "A stable identifier (`feat_001`) assigned to each SRS feature and carried through every downstream artifact" (`agent/MVP_FINAL.md:962`) | planner and QA prompts number the features of the draft anew by position (`planner_agent.py:79`, `qa_intelligence_agent.py:77`), and the API looks the numbers up among the rows of the project's features |

Seen while modelling, and without a run of its own:

* Quota errors are retried without a limit (`requirements_worker.py:248`), although
  `agent/MVP_FINAL.md:825` has jobs shelved "after maximum retries (5)". `AttemptsBounded`
  therefore adds `quota`.
* "A sync is already in progress" (`linear-mapping.service.ts:173`) is checked before the lock is
  taken: two requests may both run. `linear_two` includes that.
* A process that dies in a Linear request leaves its mapping "syncing"; the scheduler
  skips it and requests are refused until someone links the project again. `LockReleased` excludes it
  by `used.faults > 0`.
* The run row of a sync stores the counts of its import only (`linear-import.service.ts:121`).
* A test plan that replaces one the user removed keeps the removed one's cases
  (`ai-qa-intelligence.service.ts:113`); `CasesOfTestPlan` excludes it by `removals = 0`.
* A completed SRS overwrites the oldest document of type `srs`, an architecture document one of its type and title, also a user's.
* "Multiple workers [...] without duplicating work" (`agent/MVP_FINAL.md:978`): an entry is claimed from a
  worker that waits longer than `claimIdleMs` for the LLM, and both results are written.
* A cleared description, due date or list of labels is left out of the mutation (`linear-graphql.service.ts:109`), and the
  pair stamped as synchronised with the old value in Linear: `CleanMeansSynced` allows it for an empty note, although tasks are said to
  be "kept in continuous bi-directional sync" (`agent/PROJECT_OVERVIEW.md:303`).
* An import decides on the task it read and overwrites it in a later query (`linear-import.service.ts:196`), so what a user wrote
  in between is lost, although an import "keeps local when both changed but local is newer"
  (`linear-field.mapper.spec.ts:108`).
* "Upsert: one doc per (project, docType, layer) combination" (`ai-arch-doc.service.ts:117`): lookup and creation are two calls
  without a unique key, so two API processes may create two. `OneOfEach` is about one.
* "At least one owner must remain" (`project-members.service.ts:119`) is not checked at all when a role is
  changed or a member added again, and two removals at a time may each count two owners and leave none: `OwnersKept` excludes these steps.
* The name of a key "already exists for this project" (`project-api-keys.service.ts:56`) only if the lookup finds it: two requests at a time create
  two keys of one name. `SerialWhenAlone` is about a request that nobody wrote beside.
* Several reads may fetch the same answer of GitHub at once and keep an older one over a newer (`repositories.service.ts:114`).
* "Any member can update their own personas; admins/owners can update anyone's" (`project-members.controller.ts:61`):
  the handler does not compare the users.
* The activity entry of a removed project (`projects.service.ts:171`) goes with the project.
* The branch for rate limits in `rethrowOctokit` (`repositories.service.ts:758`) is behind one that takes every 403.
* `emitToProject` is said to reach "all sockets subscribed to any session in the project"
  (`ai-chat-broadcast.service.ts:17`); it reaches those that joined the project's own room.
* A question to Ragnarock goes with the oldest 40 messages of its chat (`ragnarock-chat.service.ts:70`), not the latest.
* "Malformed outputs are rejected and retried" (`agent/MVP_FINAL.md:869`): architecture documents and Ragnarock's answers accept any text.

## 7. Plan

Done in this order because the job pipeline carries every AI feature: the pipeline and its
proofs, Linear synchronisation and the proof about its lock, the e-mail queue, the artifacts, the
agent's runs, the workspace with integrations, repositories, rooms and Ragnarock, the proof
about its owners, and then the proofs of all safety properties, component by component.

Next, in this order:

1. Chat messages in `ProjectArtifacts`: the message stored before its job is queued,
   the message that a repeated handler writes again.
2. Weaker properties of two result consumers in `ProjectArtifacts` (`OneOfEach` fails) and
   two e-mail consumers.
3. `AgentRun` as a refinement of the worker's part of `JobPipeline`.

Theorems worth proving next: that `AgentRun` refines the worker's part of the pipeline, once item 3 states it, and
for two consumers the weaker bounds that item 2 finds to hold. Every invariant and action property that a passing
run checks now is a theorem; liveness stays with TLC.

### Not modelled

Agent definitions (a table of texts written at start), the Linear webhook (a stub that stores nothing) and the
credentials resolver (reads one row), searches over users and the external index, authentication (configuration of the
Better Auth library, whose state is not part of the repository), the admin application (a stub), and the infrastructure
libraries, which keep no state of their own.
