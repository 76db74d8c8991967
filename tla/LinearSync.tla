----------------------------- MODULE LinearSync -----------------------------
(***************************************************************************)
(* Synchronisation of a project's tasks with the issues of a Linear        *)
(* project: import, export, and sync (export, then incremental import).    *)
(*                                                                         *)
(* A request is a sequence of database and Linear calls; each call is a    *)
(* step, and other requests, users of both systems, and crashes come in    *)
(* between.  Tasks and issues carry a title (the fields every export       *)
(* sends: title, priority, status) and a note (the fields an export sends  *)
(* only when they have a value: description, due date, labels), named by   *)
(* the edit they come from, and the time of their last write.  One clock   *)
(* dates both systems.                                                     *)
(***************************************************************************)
EXTENDS Naturals, Sequences, FiniteSets

CONSTANTS
  Requests,    \* concurrent callers: HTTP requests and the scheduler
  Kinds,       \* the operations they may ask for
  LinearProjects, \* the Linear projects the project may be linked to
  BatchSize,   \* linear.syncBatchSize: tasks per export, issues per page
  TaskLimit,   \* an export reads the tasks written last, so many of them
  MaxRounds,   \* bound: operations in a behaviour
  MaxEdits,    \* bound: edits by users of either system
  MaxLinks,    \* bound: link and unlink operations
  MaxFaults    \* bound: crashes, failed queries, lost replies of Linear

ASSUME SyncAssumption ==
  /\ Kinds \subseteq {"import", "export", "sync"}
  /\ "app" \notin LinearProjects
  /\ {BatchSize, TaskLimit} \subseteq Nat \ {0}
  /\ {MaxRounds, MaxEdits, MaxLinks, MaxFaults} \subseteq Nat

VARIABLES
  tasks,    \* the project's tasks; an id is a position
  issues,   \* the issues of all Linear projects
  links,    \* linearIssueLink rows
  linked,   \* a linearProjectMapping row exists
  project,  \* its linearProjectId, "app" for none
  status,   \* its syncStatus
  cursor,   \* its lastSyncCursor, 0 for null
  pc,       \* pc[r]: the call request r makes next
  ctx,      \* ctx[r]: the local variables of request r
  run,      \* run[r]: status of the linearSyncRun row of r's last operation
  clock,    \* time of the last write
  used      \* how much of the bounds is used up

dataVars    == <<tasks, issues, links, clock>>
mappingVars == <<linked, project, status, cursor>>
vars == <<dataVars, mappingVars, pc, ctx, run, used>>

\* Where an item lives: a Linear project, or the application for a task.
Homes == LinearProjects \cup {"app"}

\* note: 0 for empty; origin: the id in the other system that the row was
\* created from, 0 for none.
Item == [title : Nat, note : Nat, at : Nat, origin : Nat, home : Homes]

Link == [task : Nat, issue : Nat, local : Nat, linear : Nat]

\* One unit of work: a dirty task with the issue it is linked to (0 for none),
\* or an issue of a page with the task it is linked to.
Unit == [task : Nat, issue : Nat, title : Nat, note : Nat, at : Nat]

Context == [kind : {"none", "import", "export", "sync"}, home : Homes,
            work : SUBSET Unit, target : Nat, stamp : Nat, skip : SUBSET Nat,
            after : Nat, more : BOOLEAN, since : Nat, seen : Nat,
            failures : BOOLEAN, exportFailures : BOOLEAN, quiet : BOOLEAN]

ExportStages == {"exportRead", "exportItem", "exportLink", "exportDone",
                 "exportFail"}
ImportStages == {"fetch", "importItem", "createTask", "linkTask", "writeTask",
                 "writeLink", "importDone", "importFail"}
Stages == ExportStages \cup ImportStages
          \cup {"idle", "createRun", "exportCheck", "exportLock", "exportRun",
                "runFailed", "importCheck", "importLock", "finishRun",
                "importRunFailed", "runPartial"}

TypeOK ==
  /\ tasks \in Seq(Item)
  /\ issues \in Seq(Item)
  /\ links \subseteq Link
  /\ linked \in BOOLEAN
  /\ project \in Homes
  /\ status \in {"idle", "syncing", "error"}
  /\ cursor \in Nat
  /\ pc \in [Requests -> Stages]
  /\ ctx \in [Requests -> Context]
  /\ run \in [Requests -> {"none", "running", "completed", "partial", "failed"}]
  /\ clock \in Nat
  /\ used \in [rounds : Nat, edits : Nat, links : Nat, faults : Nat]

NoContext == [kind |-> "none", home |-> "app", work |-> {}, target |-> 0, stamp |-> 0, skip |-> {},
              after |-> 0, more |-> FALSE, since |-> 0, seen |-> 0,
              failures |-> FALSE, exportFailures |-> FALSE, quiet |-> FALSE]

Init ==
  /\ tasks = << >>
  /\ issues = << >>
  /\ links = {}
  /\ linked = FALSE
  /\ project = "app"
  /\ status = "idle"
  /\ cursor = 0
  /\ pc = [r \in Requests |-> "idle"]
  /\ ctx = [r \in Requests |-> NoContext]
  /\ run = [r \in Requests |-> "none"]
  /\ clock = 0
  /\ used = [rounds |-> 0, edits |-> 0, links |-> 0, faults |-> 0]

-----------------------------------------------------------------------------
(* Users of the application and of Linear.                                 *)

Edit ==
  /\ used.edits < MaxEdits
  /\ used' = [used EXCEPT !.edits = @ + 1]
  /\ clock' = clock + 1
  /\ ctx' = [r \in Requests |-> [ctx[r] EXCEPT !.quiet = FALSE]]
  /\ UNCHANGED <<links, mappingVars, pc, run>>

\* The note of an edited item: empty, or what the edit says.
Notes == {0, clock + 1}

NewItem(home, note) ==
  [title |-> clock + 1, note |-> note, at |-> clock + 1, origin |-> 0, home |-> home]

Edited(item, note) ==
  [item EXCEPT !.title = clock + 1, !.note = note, !.at = clock + 1]

AddTask(note) ==
  tasks' = Append(tasks, NewItem("app", note)) /\ Edit /\ UNCHANGED issues

AddIssue(home, note) ==
  issues' = Append(issues, NewItem(home, note)) /\ Edit /\ UNCHANGED tasks

EditTask(t, note) ==
  tasks' = [tasks EXCEPT ![t] = Edited(@, note)] /\ Edit /\ UNCHANGED issues

EditIssue(i, note) ==
  issues' = [issues EXCEPT ![i] = Edited(@, note)] /\ Edit /\ UNCHANGED tasks

UserStep ==
  \E note \in Notes :
    \/ AddTask(note)
    \/ \E home \in LinearProjects : AddIssue(home, note)
    \/ \E t \in DOMAIN tasks : EditTask(t, note)
    \/ \E i \in DOMAIN issues : EditIssue(i, note)

CountLink ==
  /\ used.links < MaxLinks
  /\ used' = [used EXCEPT !.links = @ + 1]
  /\ UNCHANGED <<tasks, issues, clock, pc, ctx, run>>

\* An upsert: linking again, to whichever Linear project, resets the status
\* but keeps cursor and links.
LinkProject(p) ==
  /\ linked' = TRUE
  /\ project' = p
  /\ status' = "idle"
  /\ CountLink
  /\ UNCHANGED <<cursor, links>>

UnlinkProject ==
  /\ linked
  /\ linked' = FALSE
  /\ project' = "app"
  /\ status' = "idle"
  /\ cursor' = 0
  /\ links' = {}
  /\ CountLink

-----------------------------------------------------------------------------
(* Requests.                                                               *)

Goto(r, s) == pc' = [pc EXCEPT ![r] = s]

\* The thrown error reaches the caller of importProject or exportProject.
ThrowFromExport(r) ==
  Goto(r, IF ctx[r].kind = "sync" THEN "runFailed" ELSE "idle")

ThrowFromImport(r) ==
  Goto(r, IF ctx[r].kind = "sync" THEN "runPartial" ELSE "idle")

MayStart == linked /\ status # "syncing"

\* sync checks the mapping before it creates its run, import does not; export
\* creates its run when it is over.  The scheduler is a caller of sync.
Begin(r, kind) ==
  /\ pc[r] = "idle"
  /\ kind = "sync" => MayStart
  /\ used.rounds < MaxRounds
  /\ used' = [used EXCEPT !.rounds = @ + 1]
  /\ ctx' = [ctx EXCEPT ![r] = [NoContext EXCEPT !.kind = kind, !.quiet = TRUE]]
  /\ run' = [run EXCEPT ![r] = "none"]
  /\ Goto(r, IF kind = "export" THEN "exportCheck" ELSE "createRun")
  /\ UNCHANGED <<dataVars, mappingVars>>

\* Mutant: the row keeps the default status of its column.
CreatePendingRun(r) ==
  /\ pc[r] = "createRun"
  /\ run' = [run EXCEPT ![r] = "pending"]
  /\ Goto(r, IF ctx[r].kind = "sync" THEN "exportCheck" ELSE "importCheck")
  /\ UNCHANGED <<dataVars, mappingVars, ctx, used>>

CreateRun(r) ==
  /\ pc[r] = "createRun"
  /\ run' = [run EXCEPT ![r] = "running"]
  /\ Goto(r, IF ctx[r].kind = "sync" THEN "exportCheck" ELSE "importCheck")
  /\ UNCHANGED <<dataVars, mappingVars, ctx, used>>

-----------------------------------------------------------------------------
(* Export.                                                                 *)

\* requireMapping, whose row says where new issues go, then resolvePat, which
\* throws when Linear is not connected.
ExportCheck(r) ==
  /\ pc[r] = "exportCheck"
  /\ \/ /\ MayStart
        /\ ctx' = [ctx EXCEPT ![r].home = project]
        /\ Goto(r, "exportLock")
     \/ ThrowFromExport(r) /\ UNCHANGED ctx
  /\ UNCHANGED <<dataVars, mappingVars, run, used>>

\* setSyncStatus(syncing): an update, which throws when the row is gone.
SetSyncing(r, next) ==
  /\ linked
  /\ status' = "syncing"
  /\ Goto(r, next)
  /\ UNCHANGED <<linked, project, cursor>>

ExportLock(r) ==
  /\ pc[r] = "exportLock"
  /\ \/ SetSyncing(r, "exportRead")
     \/ ~linked /\ ThrowFromExport(r) /\ UNCHANGED mappingVars
  /\ UNCHANGED <<dataVars, ctx, run, used>>

LinkOf(t) == { l \in links : l.task = t }

IsDirty(t) == \A l \in LinkOf(t) : tasks[t].at > l.local

\* The n members of a set of tasks that were written last.
Latest(n, S) ==
  { t \in S : Cardinality({ u \in S : tasks[u].at > tasks[t].at }) < n }

\* The dirty ones among the tasks that are read, cut to the batch size.
DirtyBatch ==
  Latest(BatchSize, { t \in Latest(TaskLimit, DOMAIN tasks) : IsDirty(t) })

\* Mutant: the tasks are read without their links.
ExportUnitUnlinked(t) ==
  [task |-> t, title |-> tasks[t].title, note |-> tasks[t].note,
   at |-> tasks[t].at, issue |-> 0]

ExportUnit(t) ==
  [task |-> t, title |-> tasks[t].title, note |-> tasks[t].note, at |-> tasks[t].at,
   issue |-> IF LinkOf(t) = {} THEN 0 ELSE (CHOOSE l \in LinkOf(t) : TRUE).issue]

\* The lists of states and labels are fetched before the tasks are read.
ExportRead(r) ==
  /\ pc[r] = "exportRead"
  /\ \/ /\ ctx' = [ctx EXCEPT ![r].work = { ExportUnit(t) : t \in DirtyBatch }]
        /\ Goto(r, IF DirtyBatch = {} THEN "exportDone" ELSE "exportItem")
     \/ Goto(r, "exportFail") /\ UNCHANGED ctx
  /\ UNCHANGED <<dataVars, mappingVars, run, used>>

\* The order of the loop over the batch.
Current(r, u) == u \in ctx[r].work /\ \A v \in ctx[r].work : v.at <= u.at

NextUnit(r, u, c) ==
  /\ ctx' = [ctx EXCEPT ![r] = [c EXCEPT !.work = @ \ {u}]]
  /\ Goto(r, IF ctx[r].work = {u} THEN "exportDone" ELSE "exportItem")

\* The catch block around a unit.  It notes the error in the link, an update
\* that throws out of the loop when the link is gone.
ExportUnitFails(r, u) ==
  IF u.issue # 0 /\ ~\E l \in links : l.task = u.task /\ l.issue = u.issue
  THEN Goto(r, "exportFail") /\ UNCHANGED ctx
  ELSE NextUnit(r, u, [ctx[r] EXCEPT !.exportFailures = TRUE])

\* buildIssueMutationInput leaves an empty note out of the mutation, so that an
\* issue that is there keeps its own.
Sent(u) == IF u.note = 0 THEN issues[u.issue].note ELSE u.note

\* createIssue or updateIssue; the stamp is the issue's new updatedAt.
WriteIssue(r, u) ==
  /\ clock' = clock + 1
  /\ issues' =
       IF u.issue = 0
       THEN Append(issues, [title |-> u.title, note |-> u.note, at |-> clock + 1,
                            origin |-> u.task, home |-> ctx[r].home])
       ELSE [issues EXCEPT ![u.issue] =
              [@ EXCEPT !.title = u.title, !.note = Sent(u), !.at = clock + 1]]
  /\ UNCHANGED <<tasks, links>>

ExportItem(r, u) ==
  /\ pc[r] = "exportItem"
  /\ \/ /\ WriteIssue(r, u)
        /\ ctx' = [ctx EXCEPT ![r].stamp = clock + 1,
                              ![r].target = IF u.issue = 0 THEN Len(issues) + 1
                                            ELSE u.issue]
        /\ Goto(r, "exportLink")
     \/ ExportUnitFails(r, u) /\ UNCHANGED dataVars
  /\ UNCHANGED <<mappingVars, run, used>>

\* Linear applied the write but its reply was lost: the call is retried after
\* a 429 or 5xx reply, and given up otherwise.
ExportReplyLost(r, u) ==
  /\ pc[r] = "exportItem"
  /\ used.faults < MaxFaults
  /\ used' = [used EXCEPT !.faults = @ + 1]
  /\ WriteIssue(r, u)
  /\ UNCHANGED <<pc, ctx>> \/ ExportUnitFails(r, u)
  /\ UNCHANGED <<mappingVars, run>>

\* Unique keys of linearIssueLink: the task, and the issue in the project.
MayLink(t, i) == \A l \in links : l.task # t /\ l.issue # i

Rows(l) == { k \in links : k.task = l.task /\ k.issue = l.issue }

\* The row can be created, or is there to be updated.
MaySave(isNew, l) == IF isNew THEN MayLink(l.task, l.issue) ELSE Rows(l) # {}

SaveLink(l) == links' = (links \ Rows(l)) \cup {l}

\* The link gets the time the task was read at and the issue was written at.
LinkExported(r, u, local) ==
  /\ pc[r] = "exportLink"
  /\ LET l == [task |-> u.task, issue |-> ctx[r].target, local |-> local,
               linear |-> ctx[r].stamp]
     IN \/ /\ MaySave(u.issue = 0, l)
           /\ SaveLink(l)
           /\ NextUnit(r, u, [ctx[r] EXCEPT !.skip = @ \cup {l.issue}])
        \/ /\ ~MaySave(u.issue = 0, l)
           /\ ExportUnitFails(r, u)
           /\ UNCHANGED links
  /\ UNCHANGED <<tasks, issues, clock, mappingVars, run, used>>

\* Mutant: the task counts as exported up to the time of the write.
ExportLinkStampsNow(r, u) == LinkExported(r, u, clock)

ExportLink(r, u) == LinkExported(r, u, u.at)

\* The row of the mapping is updated; that throws when it is gone.
ExportDone(r) ==
  /\ pc[r] = "exportDone"
  /\ IF linked
     THEN /\ status' = "idle"
          /\ Goto(r, IF ctx[r].kind = "sync" THEN "importCheck" ELSE "exportRun")
     ELSE Goto(r, "exportFail") /\ UNCHANGED status
  /\ UNCHANGED <<dataVars, linked, project, cursor, ctx, run, used>>

\* Mutant: the error is passed on without a word in the mapping.
ExportFailKeepsLock(r) ==
  /\ pc[r] = "exportFail"
  /\ ThrowFromExport(r)
  /\ UNCHANGED <<dataVars, mappingVars, ctx, run, used>>

\* setSyncStatus(error), whose own error replaces the one it reports.
SetError == status' = IF linked THEN "error" ELSE status

ExportFail(r) ==
  /\ pc[r] = "exportFail"
  /\ SetError
  /\ ThrowFromExport(r)
  /\ UNCHANGED <<dataVars, linked, project, cursor, ctx, run, used>>

\* Writes the last status of the operation's run.
EndRun(r, stage, s) ==
  /\ pc[r] = stage
  /\ run' = [run EXCEPT ![r] = s]
  /\ UNCHANGED <<dataVars, mappingVars, ctx, used>>

ExportRun(r) ==
  /\ EndRun(r, "exportRun", IF ctx[r].exportFailures THEN "partial" ELSE "completed")
  /\ Goto(r, "idle")

\* The first catch block of sync.
SyncRunFailed(r) == EndRun(r, "runFailed", "failed") /\ Goto(r, "idle")

-----------------------------------------------------------------------------
(* Import.                                                                 *)

\* Mutant: the error of a refused import leaves sync uncaught.
ImportCheckUncaught(r) ==
  /\ pc[r] = "importCheck"
  /\ \/ /\ MayStart
        /\ ctx' = [ctx EXCEPT ![r].home = project,
                              ![r].since = IF ctx[r].kind = "import"
                                           THEN 0 ELSE cursor,
                              ![r].seen = cursor,
                              ![r].after = 0]
        /\ Goto(r, "importLock")
     \/ Goto(r, "idle") /\ UNCHANGED ctx
  /\ UNCHANGED <<dataVars, mappingVars, run, used>>

\* requireMapping once more; its row also gives the Linear project to read and
\* the cursor to start from.
ImportCheck(r) ==
  /\ pc[r] = "importCheck"
  /\ \/ /\ MayStart
        /\ ctx' = [ctx EXCEPT ![r].home = project,
                              ![r].since = IF ctx[r].kind = "import"
                                           THEN 0 ELSE cursor,
                              ![r].seen = cursor,
                              ![r].after = 0]
        /\ Goto(r, "importLock")
     \/ ThrowFromImport(r) /\ UNCHANGED ctx
  /\ UNCHANGED <<dataVars, mappingVars, run, used>>

ImportLock(r) ==
  /\ pc[r] = "importLock"
  /\ \/ SetSyncing(r, "fetch")
     \/ ~linked /\ ThrowFromImport(r) /\ UNCHANGED mappingVars
  /\ UNCHANGED <<dataVars, ctx, run, used>>

\* Issues left for the page after the last one fetched, oldest first.
Rest(r) ==
  { i \in DOMAIN issues : /\ issues[i].home = ctx[r].home
                          /\ i > ctx[r].after /\ issues[i].at > ctx[r].since }

Page(r) == { i \in Rest(r) : Cardinality({ j \in Rest(r) : j < i }) < BatchSize }

ImportUnit(i) ==
  [task |-> 0, issue |-> i, title |-> issues[i].title, note |-> issues[i].note,
   at |-> issues[i].at]

\* Mutant: only the first page is fetched.
FetchOnePage(r) ==
  /\ pc[r] = "fetch"
  /\ \/ /\ Page(r) # {}
        /\ ctx' = [ctx EXCEPT ![r].work = { ImportUnit(i) : i \in Page(r) }]
        /\ Goto(r, "importItem")
     \/ Page(r) = {} /\ Goto(r, "importDone") /\ UNCHANGED ctx
  /\ UNCHANGED <<dataVars, mappingVars, run, used>>

\* fetchIssuesPage; an issue the schema rejects fails the whole page.
Fetch(r) ==
  /\ pc[r] = "fetch"
  /\ \/ /\ Page(r) # {}
        /\ ctx' = [ctx EXCEPT ![r].work = { ImportUnit(i) : i \in Page(r) },
                              ![r].more = Page(r) # Rest(r)]
        /\ Goto(r, "importItem")
     \/ Page(r) = {} /\ Goto(r, "importDone") /\ UNCHANGED ctx
     \/ Goto(r, "importFail") /\ UNCHANGED ctx
  /\ UNCHANGED <<dataVars, mappingVars, run, used>>

\* The issues of a page are handled in order; each page moves "after" along.
First(r, u) == u \in ctx[r].work /\ \A v \in ctx[r].work : u.issue <= v.issue

NextIssue(r, u, c) ==
  /\ ctx' = [ctx EXCEPT ![r] = [c EXCEPT !.work = @ \ {u}, !.after = u.issue]]
  /\ Goto(r, IF ctx[r].work # {u} THEN "importItem"
             ELSE IF ctx[r].more THEN "fetch" ELSE "importDone")

\* Only an issue that was handled without an error moves the cursor.
Seen(r, u) == [ctx[r] EXCEPT !.seen = IF u.at > @ THEN u.at ELSE @]

ImportUnitFails(r, u) == NextIssue(r, u, [ctx[r] EXCEPT !.failures = TRUE])

\* shouldApplyLinearImport for the page's copy of an issue and its link.
ShouldApply(u, l) ==
  /\ u.at > l.linear
  /\ ~(tasks[l.task].at > l.local /\ tasks[l.task].at >= u.at)

LinksTo(i) == { l \in links : l.issue = i }

\* The head of upsertIssueFromLinear: read link and task, then decide.
ImportItem(r, u) ==
  /\ pc[r] = "importItem"
  /\ \/ /\ u.issue \in ctx[r].skip
        /\ NextIssue(r, u, Seen(r, u))
     \/ /\ u.issue \notin ctx[r].skip
        /\ LinksTo(u.issue) = {}
        /\ Goto(r, "createTask") /\ UNCHANGED ctx
     \/ /\ u.issue \notin ctx[r].skip
        /\ \E l \in LinksTo(u.issue) :
             IF ShouldApply(u, l)
             THEN /\ ctx' = [ctx EXCEPT ![r].target = l.task]
                  /\ Goto(r, "writeTask")
             ELSE NextIssue(r, u, Seen(r, u))
  /\ UNCHANGED <<dataVars, mappingVars, run, used>>

CreateTask(r, u) ==
  /\ pc[r] = "createTask"
  /\ clock' = clock + 1
  /\ tasks' = Append(tasks, [title |-> u.title, note |-> u.note, at |-> clock + 1,
                             origin |-> u.issue, home |-> "app"])
  /\ ctx' = [ctx EXCEPT ![r].target = Len(tasks) + 1, ![r].stamp = clock + 1]
  /\ Goto(r, "linkTask")
  /\ UNCHANGED <<issues, links, mappingVars, run, used>>

WriteTask(r, u) ==
  /\ pc[r] = "writeTask"
  /\ clock' = clock + 1
  /\ tasks' = [tasks EXCEPT ![ctx[r].target] =
                 [@ EXCEPT !.title = u.title, !.note = u.note, !.at = clock + 1]]
  /\ ctx' = [ctx EXCEPT ![r].stamp = clock + 1]
  /\ Goto(r, "writeLink")
  /\ UNCHANGED <<issues, links, mappingVars, run, used>>

\* The link gets the times of the task's write and of the page's copy.
LinkImported(r, u, local) ==
  /\ pc[r] \in {"linkTask", "writeLink"}
  /\ LET l == [task |-> ctx[r].target, issue |-> u.issue, local |-> local,
               linear |-> u.at]
     IN \/ /\ MaySave(pc[r] = "linkTask", l)
           /\ SaveLink(l)
           /\ NextIssue(r, u, Seen(r, u))
        \/ /\ ~MaySave(pc[r] = "linkTask", l)
           /\ ImportUnitFails(r, u)
           /\ UNCHANGED links
  /\ UNCHANGED <<tasks, issues, clock, mappingVars, run, used>>

SaveImportedLink(r, u) == LinkImported(r, u, ctx[r].stamp)

ImportDone(r) ==
  /\ pc[r] = "importDone"
  /\ IF linked
     THEN status' = "idle" /\ cursor' = ctx[r].seen /\ Goto(r, "finishRun")
     ELSE Goto(r, "importFail") /\ UNCHANGED <<status, cursor>>
  /\ UNCHANGED <<dataVars, linked, project, ctx, run, used>>

FinishRun(r) ==
  /\ EndRun(r, "finishRun", IF ctx[r].failures THEN "partial" ELSE "completed")
  /\ Goto(r, "idle")

\* Mutant: the error is passed on without a word in the mapping.
ImportFailKeepsLock(r) ==
  /\ pc[r] = "importFail"
  /\ IF linked THEN Goto(r, "importRunFailed") ELSE ThrowFromImport(r)
  /\ UNCHANGED <<dataVars, mappingVars, ctx, run, used>>

\* setSyncStatus(error) comes before the run is closed, and throws without a
\* mapping, so that the run is then left to the caller.
ImportFail(r) ==
  /\ pc[r] = "importFail"
  /\ SetError
  /\ IF linked THEN Goto(r, "importRunFailed") ELSE ThrowFromImport(r)
  /\ UNCHANGED <<dataVars, linked, project, cursor, ctx, run, used>>

ImportRunFailed(r) == EndRun(r, "importRunFailed", "failed") /\ ThrowFromImport(r)

\* The second catch block of sync.
SyncRunPartial(r) == EndRun(r, "runPartial", "partial") /\ Goto(r, "idle")

\* The process of the request dies, or a query outside the loops fails and so
\* do the ones that would clean up.
Crash(r) ==
  /\ pc[r] # "idle"
  /\ used.faults < MaxFaults
  /\ used' = [used EXCEPT !.faults = @ + 1]
  /\ Goto(r, "idle")
  /\ UNCHANGED <<dataVars, mappingVars, ctx, run>>

\* A query about a unit fails: the unit is counted as failed.
QueryFails(r, u) ==
  /\ \/ pc[r] = "exportLink" /\ Current(r, u) /\ ExportUnitFails(r, u)
     \/ /\ pc[r] \in {"importItem", "createTask", "linkTask", "writeTask",
                      "writeLink"}
        /\ First(r, u)
        /\ ImportUnitFails(r, u)
  /\ used.faults < MaxFaults
  /\ used' = [used EXCEPT !.faults = @ + 1]
  /\ UNCHANGED <<dataVars, mappingVars, run>>

ExportStep(r) ==
  \/ ExportCheck(r) \/ ExportLock(r) \/ ExportRead(r)
  \/ \E u \in ctx[r].work : Current(r, u) /\ (ExportItem(r, u) \/ ExportLink(r, u))
  \/ ExportDone(r) \/ ExportFail(r) \/ ExportRun(r) \/ SyncRunFailed(r)

ImportStep(r) ==
  \/ ImportCheck(r) \/ ImportLock(r) \/ Fetch(r)
  \/ \E u \in ctx[r].work :
       /\ First(r, u)
       /\ \/ ImportItem(r, u) \/ CreateTask(r, u) \/ WriteTask(r, u)
          \/ SaveImportedLink(r, u)
  \/ ImportDone(r) \/ FinishRun(r)
  \/ ImportFail(r) \/ ImportRunFailed(r) \/ SyncRunPartial(r)

RequestStep(r) == CreateRun(r) \/ ExportStep(r) \/ ImportStep(r)

Next ==
  \/ UserStep
  \/ \E p \in LinearProjects : LinkProject(p)
  \/ UnlinkProject
  \/ \E r \in Requests :
       \/ \E kind \in Kinds : Begin(r, kind)
       \/ RequestStep(r)
       \/ Crash(r)
       \/ \E u \in ctx[r].work : \/ Current(r, u) /\ ExportReplyLost(r, u)
                                \/ QueryFails(r, u)

Spec == Init /\ [][Next]_vars

\* A request that was started goes on; nothing else has to happen.
FairSpec == Spec /\ \A r \in Requests : WF_vars(RequestStep(r))

-----------------------------------------------------------------------------
(* Properties.                                                             *)

Holding(r) == pc[r] \in ExportStages \cup ImportStages

(***************************************************************************)
(* The mapping does not stay locked: its status is "syncing" only while a  *)
(* request is between setSyncStatus(syncing) and the end of its try or     *)
(* catch block, or after a crash, whatever is linked and unlinked          *)
(* meanwhile and however many requests run into each other.                *)
(***************************************************************************)
LockReleased == status = "syncing" => (\E r \in Requests : Holding(r)) \/ used.faults > 0

(***************************************************************************)
(* Without the mapping row there is no lock: what makes LockReleased       *)
(* inductive, since a request that ends after an unlink leaves the status  *)
(* alone.                                                                  *)
(***************************************************************************)
IInv ==
  /\ pc \in [Requests -> Stages]
  /\ used \in [rounds : Nat, edits : Nat, links : Nat, faults : Nat]
  /\ LockReleased
  /\ ~linked => status # "syncing"

Clean(l) == tasks[l.task].at <= l.local /\ issues[l.issue].at <= l.linear

(***************************************************************************)
(* A pair that both systems consider synchronised is, as far as an export  *)
(* can make it so: when neither the task nor the issue was written after   *)
(* the times in their link, they carry the same title, and the same note   *)
(* unless the task's is empty: a note that was cleared in the application  *)
(* stays in Linear.  But for that, concurrent syncs and edits in the       *)
(* middle of one may make a pair dirty, never silently different.          *)
(***************************************************************************)
CleanMeansSynced ==
  \A l \in links : Clean(l) =>
    /\ tasks[l.task].title = issues[l.issue].title
    /\ tasks[l.task].note \in {0, issues[l.issue].note}

(***************************************************************************)
(* With one request at a time, no lost reply and no unlinking, no task or  *)
(* issue gets a second counterpart, and nothing that was exported comes    *)
(* back as a new task.                                                     *)
(***************************************************************************)
OneCounterpart ==
  used.faults = 0 /\ used.links <= 1 =>
    /\ \A i, j \in DOMAIN issues :
         issues[i].origin = issues[j].origin /\ i # j => issues[i].origin = 0
    /\ \A t, s \in DOMAIN tasks :
         tasks[t].origin = tasks[s].origin /\ t # s => tasks[t].origin = 0
    /\ \A t \in DOMAIN tasks :
         tasks[t].origin # 0 => issues[tasks[t].origin].origin = 0

(***************************************************************************)
(* The audit log of sync ends: a sync that is over without a crash has     *)
(* closed its run, on each of the paths that throw.                        *)
(***************************************************************************)
SyncRunsClosed ==
  \A r \in Requests :
    pc[r] = "idle" /\ ctx[r].kind = "sync" /\ used.faults = 0
      => run[r] \in {"completed", "partial", "failed"}

Completed(r, kind) ==
  pc[r] = "idle" /\ ctx[r].kind = kind /\ run[r] = "completed" /\ ctx[r].quiet

(***************************************************************************)
(* A full import that completes while nobody edits leaves no issue of the  *)
(* Linear project behind: each one is linked, and applied unless its task  *)
(* is dirty and newer.                                                     *)
(***************************************************************************)
FullImportCatchesUp ==
  used.links <= 1 =>
    \A r \in Requests : Completed(r, "import") =>
      \A i \in DOMAIN issues : issues[i].home = ctx[r].home =>
        \E l \in LinksTo(i) :
          \/ issues[i].at <= l.linear
          \/ tasks[l.task].at > l.local /\ tasks[l.task].at >= issues[i].at

(***************************************************************************)
(* A sync gives the lock back: without crashes the mapping leaves status   *)
(* "syncing" after every request that runs is carried on.                  *)
(***************************************************************************)
SyncEnds == status = "syncing" ~> status # "syncing"

(***************************************************************************)
(* PROJECT_OVERVIEW.md:303, "continuous bi-directional sync": after a sync *)
(* that completes without a failure while nobody edits, every linked pair  *)
(* agrees.  An earlier sync that skipped the issue it had just exported    *)
(* moved the cursor past an edit made in Linear in between.                *)
(***************************************************************************)
QuietSyncConverges ==
  \A r \in Requests :
    Completed(r, "sync") /\ ~ctx[r].exportFailures =>
      \A l \in links : tasks[l.task].title = issues[l.issue].title
=============================================================================
