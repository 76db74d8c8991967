-------------------------- MODULE LinearSyncProofs --------------------------
(***************************************************************************)
(* Theorems about LinearSync.  For any number of concurrent requests: the  *)
(* lock of the mapping is given back, the types are right, syncs close     *)
(* their runs, and pairs that count as synchronised agree.  For requests   *)
(* that come one at a time: quiet imports keep newer tasks, full imports   *)
(* leave no issue behind, and nothing gets a second counterpart.           *)
(***************************************************************************)
EXTENDS LinearSync, SequenceTheorems, FiniteSetTheorems, WellFoundedInduction,
        TLAPS

HoldStages == ExportStages \cup ImportStages

\* What a step of request r may do to the lock: take it, or leave the status
\* alone if r does not give up a lock it holds, or set a status that is free.
LockStep(r, s) ==
  /\ s \in Stages
  /\ pc' = [pc EXCEPT ![r] = s]
  /\ linked' = linked
  /\ used' \in [rounds : Nat, edits : Nat, links : Nat, faults : Nat]
  /\ used'.faults >= used.faults
  /\ \/ status' # "syncing"
     \/ status' = "syncing" /\ linked /\ s \in HoldStages
     \/ status' = status /\ (s \in HoldStages \/ pc[r] \notin HoldStages \/ ~linked
                             \/ used'.faults > 0)

(***************************************************************************)
(* A step of that form preserves the invariant: another request that holds *)
(* the lock is not touched, and r keeps it or frees the status.            *)
(***************************************************************************)
LEMMA LockStepKeeps ==
  ASSUME IInv, NEW r \in Requests, NEW s, LockStep(r, s)
  PROVE  IInv'
<1> USE DEF LockStep
<1>1. pc' \in [Requests -> Stages]
  BY DEF IInv
<1>2. used' \in [rounds : Nat, edits : Nat, links : Nat, faults : Nat]
  OBVIOUS
<1>3. ~linked' => status' # "syncing"
  BY DEF IInv
<1>4. LockReleased'
  <2> SUFFICES ASSUME status' = "syncing", ~(used'.faults > 0)
               PROVE  \E q \in Requests : Holding(q)'
    BY DEF LockReleased
  <2>1. used.faults \in Nat /\ used'.faults \in Nat
    BY DEF IInv
  <2>2. ~(used.faults > 0)
    BY <2>1
  <2>3. CASE s \in HoldStages
    <3>1. pc'[r] = s
      BY DEF IInv
    <3>2. Holding(r)'
      BY <2>3, <3>1 DEF Holding, HoldStages
    <3> QED
      BY <3>2
  <2>4. CASE s \notin HoldStages
    <3>1. status = "syncing" /\ linked /\ pc[r] \notin HoldStages
      BY <2>4 DEF IInv
    <3>2. PICK q \in Requests : Holding(q)
      BY <2>2, <3>1 DEF IInv, LockReleased
    <3>3. q # r
      BY <3>1, <3>2 DEF Holding, HoldStages
    <3>4. pc'[q] = pc[q]
      BY <3>3 DEF IInv
    <3>5. Holding(q)'
      BY <3>2, <3>4 DEF Holding
    <3> QED
      BY <3>5
  <2> QED
    BY <2>3, <2>4
<1> QED
  BY <1>1, <1>2, <1>3, <1>4 DEF IInv

(***************************************************************************)
(* Every step of a request's own code has that form.                       *)
(***************************************************************************)
LEMMA ExportUnitKeepsLock ==
  ASSUME IInv, NEW r \in Requests, NEW u \in ctx[r].work,
         \/ ExportItem(r, u)
         \/ ExportLink(r, u)
         \/ ExportReplyLost(r, u)
         \/ QueryFails(r, u)
  PROVE  \E s : LockStep(r, s)
<1> USE DEF HoldStages, ExportStages, ImportStages, Stages, Goto, mappingVars
<1>1. used.faults \in Nat
  BY DEF IInv
<1>2. CASE ExportItem(r, u)
  <2>1. used' = used /\ linked' = linked /\ status' = status
    BY <1>2 DEF ExportItem
  <2>2. \/ pc' = [pc EXCEPT ![r] = "exportLink"]
        \/ pc' = [pc EXCEPT ![r] = "exportFail"]
        \/ pc' = [pc EXCEPT ![r] = "exportDone"]
        \/ pc' = [pc EXCEPT ![r] = "exportItem"]
    BY <1>2 DEF ExportItem, ExportUnitFails, NextUnit
  <2> QED
    BY <1>1, <2>1, <2>2 DEF IInv, LockStep
<1>3. CASE ExportLink(r, u)
  <2>1. used' = used /\ linked' = linked /\ status' = status
    BY <1>3 DEF ExportLink, LinkExported
  <2>2. \/ pc' = [pc EXCEPT ![r] = "exportFail"]
        \/ pc' = [pc EXCEPT ![r] = "exportDone"]
        \/ pc' = [pc EXCEPT ![r] = "exportItem"]
    BY <1>3 DEF ExportLink, LinkExported, ExportUnitFails, NextUnit
  <2> QED
    BY <1>1, <2>1, <2>2 DEF IInv, LockStep
<1>4. CASE ExportReplyLost(r, u)
  <2>1. linked' = linked /\ status' = status
    BY <1>4 DEF ExportReplyLost
  <2>2. /\ used' \in [rounds : Nat, edits : Nat, links : Nat, faults : Nat]
        /\ used'.faults >= used.faults
    BY <1>4 DEF ExportReplyLost, IInv
  <2>3. pc[r] = "exportItem"
    BY <1>4 DEF ExportReplyLost
  <2>4. \/ pc' = [pc EXCEPT ![r] = "exportFail"]
        \/ pc' = [pc EXCEPT ![r] = "exportDone"]
        \/ pc' = [pc EXCEPT ![r] = "exportItem"]
    BY <1>4, <2>3 DEF ExportReplyLost, ExportUnitFails, NextUnit, IInv
  <2> QED
    BY <2>1, <2>2, <2>4 DEF LockStep
<1>5. CASE QueryFails(r, u)
  <2>1. linked' = linked /\ status' = status
    BY <1>5 DEF QueryFails
  <2>2. /\ used' \in [rounds : Nat, edits : Nat, links : Nat, faults : Nat]
        /\ used'.faults >= used.faults
    BY <1>5 DEF QueryFails, IInv
  <2>3. \/ pc' = [pc EXCEPT ![r] = "exportFail"]
        \/ pc' = [pc EXCEPT ![r] = "exportDone"]
        \/ pc' = [pc EXCEPT ![r] = "exportItem"]
        \/ pc' = [pc EXCEPT ![r] = "importItem"]
        \/ pc' = [pc EXCEPT ![r] = "fetch"]
        \/ pc' = [pc EXCEPT ![r] = "importDone"]
    BY <1>5 DEF QueryFails, ExportUnitFails, NextUnit, ImportUnitFails, NextIssue
  <2> QED
    BY <2>1, <2>2, <2>3 DEF LockStep
<1> QED
  BY <1>2, <1>3, <1>4, <1>5

(***************************************************************************)
(* The other steps of an export, among them the two that end it: they free *)
(* the status, or find the mapping gone.                                   *)
(***************************************************************************)
LEMMA ExportKeepsLock ==
  ASSUME IInv, NEW r \in Requests,
         \/ CreateRun(r) \/ ExportCheck(r) \/ ExportLock(r) \/ ExportRead(r)
         \/ ExportDone(r) \/ ExportFail(r) \/ ExportRun(r) \/ SyncRunFailed(r)
  PROVE  \E s : LockStep(r, s)
<1> USE DEF HoldStages, ExportStages, ImportStages, Stages, Goto,
            ThrowFromExport, mappingVars
<1>1. used.faults \in Nat /\ used' = used
  BY DEF IInv, CreateRun, ExportCheck, ExportLock, ExportRead, ExportDone,
         ExportFail, ExportRun, SyncRunFailed, EndRun
<1>2. CASE CreateRun(r)
  <2>1. \/ pc' = [pc EXCEPT ![r] = "exportCheck"]
        \/ pc' = [pc EXCEPT ![r] = "importCheck"]
    BY <1>2 DEF CreateRun
  <2>2. pc[r] = "createRun" /\ status' = status /\ linked' = linked
    BY <1>2 DEF CreateRun, IInv
  <2>3. \/ LockStep(r, "exportCheck")
        \/ LockStep(r, "importCheck")
    BY <1>1, <2>1, <2>2 DEF IInv, LockStep
  <2> QED
    BY <2>3
<1>3. CASE ExportCheck(r)
  <2>1. \/ LockStep(r, "exportLock")
        \/ LockStep(r, "runFailed")
        \/ LockStep(r, "idle")
    BY <1>1, <1>3 DEF ExportCheck, IInv, LockStep
  <2> QED
    BY <2>1
<1>4. CASE ExportLock(r)
  <2>1. \/ LockStep(r, "exportRead")
        \/ LockStep(r, "runFailed")
        \/ LockStep(r, "idle")
    BY <1>1, <1>4 DEF ExportLock, SetSyncing, IInv, LockStep
  <2> QED
    BY <2>1
<1>5. CASE ExportRead(r)
  <2>1. \/ LockStep(r, "exportDone")
        \/ LockStep(r, "exportItem")
        \/ LockStep(r, "exportFail")
    BY <1>1, <1>5 DEF ExportRead, IInv, LockStep
  <2> QED
    BY <2>1
<1>6. CASE ExportDone(r)
  <2>1. \/ LockStep(r, "importCheck")
        \/ LockStep(r, "exportRun")
        \/ LockStep(r, "exportFail")
    BY <1>1, <1>6 DEF ExportDone, IInv, LockStep
  <2> QED
    BY <2>1
<1>7. CASE ExportFail(r)
  <2>1. \/ pc' = [pc EXCEPT ![r] = "runFailed"]
        \/ pc' = [pc EXCEPT ![r] = "idle"]
    BY <1>7 DEF ExportFail, SetError
  <2>2. linked' = linked /\ (status' # "syncing" \/ (status' = status /\ ~linked))
    <3>1. linked' = linked /\ status' = IF linked THEN "error" ELSE status
      BY <1>7 DEF ExportFail, SetError
    <3>2. CASE linked
      BY <3>1, <3>2
    <3>3. CASE ~linked
      BY <3>1, <3>3
    <3> QED
      BY <3>2, <3>3
  <2>3. \/ LockStep(r, "runFailed")
        \/ LockStep(r, "idle")
    BY <1>1, <2>1, <2>2 DEF IInv, LockStep
  <2> QED
    BY <2>3
<1>8. CASE ExportRun(r)
  <2>1. LockStep(r, "idle")
    BY <1>1, <1>8 DEF ExportRun, EndRun, IInv, LockStep
  <2> QED
    BY <2>1
<1>9. CASE SyncRunFailed(r)
  <2>1. LockStep(r, "idle")
    BY <1>1, <1>9 DEF SyncRunFailed, EndRun, IInv, LockStep
  <2> QED
    BY <2>1
<1> QED
  BY <1>2, <1>3, <1>4, <1>5, <1>6, <1>7, <1>8, <1>9

(***************************************************************************)
(* The steps that handle one issue of a page keep the lock.                *)
(***************************************************************************)
LEMMA ImportUnitKeepsLock ==
  ASSUME IInv, NEW r \in Requests, NEW u \in ctx[r].work,
         \/ ImportItem(r, u) \/ CreateTask(r, u) \/ WriteTask(r, u)
         \/ SaveImportedLink(r, u)
  PROVE  \E s : LockStep(r, s)
<1> USE DEF HoldStages, ExportStages, ImportStages, Stages, Goto, mappingVars
<1>1. used.faults \in Nat /\ used' = used /\ linked' = linked /\ status' = status
  BY DEF IInv, ImportItem, CreateTask, WriteTask, SaveImportedLink, LinkImported
<1>2. CASE ImportItem(r, u)
  <2>1. \/ pc' = [pc EXCEPT ![r] = "createTask"]
        \/ pc' = [pc EXCEPT ![r] = "writeTask"]
        \/ pc' = [pc EXCEPT ![r] = "importItem"]
        \/ pc' = [pc EXCEPT ![r] = "fetch"]
        \/ pc' = [pc EXCEPT ![r] = "importDone"]
    BY <1>2 DEF ImportItem, NextIssue
  <2> QED
    BY <1>1, <2>1 DEF IInv, LockStep
<1>3. CASE CreateTask(r, u)
  <2>1. LockStep(r, "linkTask")
    BY <1>1, <1>3 DEF CreateTask, IInv, LockStep
  <2> QED
    BY <2>1
<1>4. CASE WriteTask(r, u)
  <2>1. LockStep(r, "writeLink")
    BY <1>1, <1>4 DEF WriteTask, IInv, LockStep
  <2> QED
    BY <2>1
<1>5. CASE SaveImportedLink(r, u)
  <2>1. \/ pc' = [pc EXCEPT ![r] = "importItem"]
        \/ pc' = [pc EXCEPT ![r] = "fetch"]
        \/ pc' = [pc EXCEPT ![r] = "importDone"]
    BY <1>5 DEF SaveImportedLink, LinkImported, ImportUnitFails, NextIssue
  <2> QED
    BY <1>1, <2>1 DEF IInv, LockStep
<1> QED
  BY <1>2, <1>3, <1>4, <1>5

(***************************************************************************)
(* The other steps of an import.                                           *)
(***************************************************************************)
LEMMA ImportKeepsLock ==
  ASSUME IInv, NEW r \in Requests,
         \/ ImportCheck(r) \/ ImportLock(r) \/ Fetch(r) \/ ImportDone(r)
         \/ FinishRun(r) \/ ImportFail(r) \/ ImportRunFailed(r) \/ SyncRunPartial(r)
  PROVE  \E s : LockStep(r, s)
<1> USE DEF HoldStages, ExportStages, ImportStages, Stages, Goto,
            ThrowFromImport, mappingVars
<1>1. used.faults \in Nat /\ used' = used
  BY DEF IInv, ImportCheck, ImportLock, Fetch, ImportDone, FinishRun, ImportFail,
         ImportRunFailed, SyncRunPartial, EndRun
<1>2. CASE ImportCheck(r)
  <2>1. \/ LockStep(r, "importLock")
        \/ LockStep(r, "runPartial")
        \/ LockStep(r, "idle")
    BY <1>1, <1>2 DEF ImportCheck, IInv, LockStep
  <2> QED
    BY <2>1
<1>3. CASE ImportLock(r)
  <2>1. \/ LockStep(r, "fetch")
        \/ LockStep(r, "runPartial")
        \/ LockStep(r, "idle")
    BY <1>1, <1>3 DEF ImportLock, SetSyncing, IInv, LockStep
  <2> QED
    BY <2>1
<1>4. CASE Fetch(r)
  <2>1. \/ LockStep(r, "importItem")
        \/ LockStep(r, "importDone")
        \/ LockStep(r, "importFail")
    BY <1>1, <1>4 DEF Fetch, IInv, LockStep
  <2> QED
    BY <2>1
<1>5. CASE ImportDone(r)
  <2>1. \/ LockStep(r, "finishRun")
        \/ LockStep(r, "importFail")
    BY <1>1, <1>5 DEF ImportDone, IInv, LockStep
  <2> QED
    BY <2>1
<1>6. CASE FinishRun(r)
  <2>1. LockStep(r, "idle")
    BY <1>1, <1>6 DEF FinishRun, EndRun, IInv, LockStep
  <2> QED
    BY <2>1
<1>7. CASE ImportFail(r)
  <2>1. \/ pc' = [pc EXCEPT ![r] = "importRunFailed"]
        \/ pc' = [pc EXCEPT ![r] = "runPartial"]
        \/ pc' = [pc EXCEPT ![r] = "idle"]
    BY <1>7 DEF ImportFail, SetError
  <2>2. linked' = linked /\ (status' # "syncing" \/ (status' = status /\ ~linked))
    <3>1. linked' = linked /\ status' = IF linked THEN "error" ELSE status
      BY <1>7 DEF ImportFail, SetError
    <3>2. CASE linked
      BY <3>1, <3>2
    <3>3. CASE ~linked
      BY <3>1, <3>3
    <3> QED
      BY <3>2, <3>3
  <2>3. \/ LockStep(r, "importRunFailed")
        \/ LockStep(r, "runPartial")
        \/ LockStep(r, "idle")
    BY <1>1, <2>1, <2>2 DEF IInv, LockStep
  <2> QED
    BY <2>3
<1>8. CASE ImportRunFailed(r)
  <2>1. \/ pc' = [pc EXCEPT ![r] = "runPartial"]
        \/ pc' = [pc EXCEPT ![r] = "idle"]
    BY <1>8 DEF ImportRunFailed
  <2>2. pc[r] = "importRunFailed" /\ status' = status /\ linked' = linked
    BY <1>8 DEF ImportRunFailed, EndRun
  <2>3. LockStep(r, "runPartial") \/ LockStep(r, "idle")
    BY <1>1, <2>1, <2>2 DEF IInv, LockStep
  <2> QED
    BY <2>3
<1>9. CASE SyncRunPartial(r)
  <2>1. LockStep(r, "idle")
    BY <1>1, <1>9 DEF SyncRunPartial, EndRun, IInv, LockStep
  <2> QED
    BY <2>1
<1> QED
  BY <1>2, <1>3, <1>4, <1>5, <1>6, <1>7, <1>8, <1>9

(***************************************************************************)
(* The lock invariant holds in every reachable state: a mapping is         *)
(* "syncing" only while a request holds it or after a crash, and never     *)
(* without a mapping row (setSyncStatus and its callers).                  *)
(***************************************************************************)
THEOREM LockInvariant == Spec => []IInv
<1>1. Init => IInv
  BY DEF Init, IInv, LockReleased, Stages
<1>2. IInv /\ [Next]_vars => IInv'
  <2> SUFFICES ASSUME IInv, [Next]_vars
               PROVE  IInv'
    OBVIOUS
  <2>1. CASE UNCHANGED vars
    BY <2>1 DEF vars, dataVars, mappingVars, IInv, LockReleased, Holding
  <2>2. CASE UserStep
    <3>1. UNCHANGED <<pc, linked, status>>
      BY <2>2 DEF UserStep, AddTask, AddIssue, EditTask, EditIssue, Edit, mappingVars
    <3>2. used' = [used EXCEPT !.edits = @ + 1]
      BY <2>2 DEF UserStep, AddTask, AddIssue, EditTask, EditIssue, Edit
    <3> QED
      BY <3>1, <3>2 DEF IInv, LockReleased, Holding
  <2>3. CASE (\E p \in LinearProjects : LinkProject(p)) \/ UnlinkProject
    BY <2>3 DEF LinkProject, UnlinkProject, CountLink, IInv, LockReleased
  <2>4. ASSUME NEW r \in Requests, NEW kind \in Kinds, Begin(r, kind)
        PROVE  IInv'
    <3>1. \/ pc' = [pc EXCEPT ![r] = "exportCheck"]
          \/ pc' = [pc EXCEPT ![r] = "createRun"]
      BY <2>4 DEF Begin, Goto
    <3>2. pc[r] = "idle" /\ status' = status /\ linked' = linked
      BY <2>4 DEF Begin, mappingVars
    <3>3. /\ used' \in [rounds : Nat, edits : Nat, links : Nat, faults : Nat]
          /\ used'.faults >= used.faults
      BY <2>4 DEF Begin, IInv
    <3>4. LockStep(r, "exportCheck") \/ LockStep(r, "createRun")
      BY <3>1, <3>2, <3>3
         DEF LockStep, HoldStages, ExportStages, ImportStages, Stages
    <3> QED
      BY <3>4, LockStepKeeps
  <2>5. ASSUME NEW r \in Requests, Crash(r)
        PROVE  IInv'
    <3>1. LockStep(r, "idle")
      BY <2>5 DEF Crash, Goto, LockStep, Stages, mappingVars, IInv
    <3> QED
      BY <3>1, LockStepKeeps
  <2>6. ASSUME NEW r \in Requests, RequestStep(r)
        PROVE  IInv'
    <3>1. \E s : LockStep(r, s)
      BY <2>6, ExportUnitKeepsLock, ExportKeepsLock, ImportUnitKeepsLock,
         ImportKeepsLock DEF RequestStep, ExportStep, ImportStep
    <3> QED
      BY <3>1, LockStepKeeps
  <2>7. ASSUME NEW r \in Requests, NEW u \in ctx[r].work,
               ExportReplyLost(r, u) \/ QueryFails(r, u)
        PROVE  IInv'
    <3>1. \E s : LockStep(r, s)
      BY <2>7, ExportUnitKeepsLock
    <3> QED
      BY <3>1, LockStepKeeps
  <2> QED
    BY <2>1, <2>2, <2>3, <2>4, <2>5, <2>6, <2>7 DEF Next
<1> QED
  BY <1>1, <1>2, PTL DEF Spec

(***************************************************************************)
(* Without a crash the mapping is "syncing" only while a request works on  *)
(* it, whatever the requests, users, links and unlinks interleave to.      *)
(***************************************************************************)
THEOREM LockIsReleased == Spec => []LockReleased
<1>1. IInv => LockReleased
  BY DEF IInv
<1> QED
  BY <1>1, LockInvariant, PTL

-----------------------------------------------------------------------------
(* Types.                                                                  *)

\* The part of TypeOK that the lock invariant does not cover.
DataOK ==
  /\ tasks \in Seq(Item)
  /\ issues \in Seq(Item)
  /\ links \subseteq Link
  /\ linked \in BOOLEAN
  /\ project \in Homes
  /\ status \in {"idle", "syncing", "error"}
  /\ cursor \in Nat
  /\ ctx \in [Requests -> Context]
  /\ run \in [Requests -> {"none", "running", "completed", "partial", "failed"}]
  /\ clock \in Nat

\* The updates a request makes to its local variables keep their types.
LEMMA ContextUpdates ==
  ASSUME NEW c \in Context
  PROVE  /\ \A W \in SUBSET Unit : [c EXCEPT !.work = W] \in Context
         /\ \A W \in SUBSET Unit, b \in BOOLEAN :
              [c EXCEPT !.work = W, !.more = b] \in Context
         /\ \A W \in SUBSET Unit, n \in Nat :
              [c EXCEPT !.work = W, !.after = n] \in Context
         /\ \A n, k \in Nat : [c EXCEPT !.stamp = n, !.target = k] \in Context
         /\ \A n, k \in Nat : [c EXCEPT !.target = n, !.stamp = k] \in Context
         /\ \A n \in Nat : [c EXCEPT !.target = n] \in Context
         /\ \A n \in Nat : [c EXCEPT !.stamp = n] \in Context
         /\ \A n \in Nat : [c EXCEPT !.seen = n] \in Context
         /\ \A h \in Homes : [c EXCEPT !.home = h] \in Context
         /\ \A h \in Homes, n, k, m \in Nat :
              [c EXCEPT !.home = h, !.since = n, !.seen = k, !.after = m] \in Context
         /\ \A S \in SUBSET Nat : [c EXCEPT !.skip = S] \in Context
         /\ [c EXCEPT !.failures = TRUE] \in Context
         /\ [c EXCEPT !.exportFailures = TRUE] \in Context
         /\ [c EXCEPT !.quiet = FALSE] \in Context
BY DEF Context


-----------------------------------------------------------------------------
(* Writes to tasks and issues.                                             *)

\* At most one item is written, at time now.
Wrote(old, new, now) ==
  \/ new = old
  \/ \E x \in Item : /\ x.at = now
                     /\ \/ new = Append(old, x)
                        \/ \E i \in DOMAIN old : new = [old EXCEPT ![i] = x]

\* Nothing disappears, and what is written is dated now.
LEMMA WroteFacts ==
  ASSUME NEW old \in Seq(Item), NEW new, NEW now, Wrote(old, new, now)
  PROVE  /\ new \in Seq(Item)
         /\ DOMAIN old \subseteq DOMAIN new
         /\ \A i \in DOMAIN new : (i \in DOMAIN old /\ new[i] = old[i]) \/ new[i].at = now
         /\ \A i, j \in DOMAIN new : i # j =>
              \/ i \in DOMAIN old /\ new[i] = old[i]
              \/ j \in DOMAIN old /\ new[j] = old[j]
<1>1. CASE new = old
  BY <1>1
<1>2. ASSUME NEW x \in Item, x.at = now, new = Append(old, x)
      PROVE  /\ new \in Seq(Item)
             /\ DOMAIN old \subseteq DOMAIN new
             /\ \A i \in DOMAIN new : (i \in DOMAIN old /\ new[i] = old[i]) \/ new[i].at = now
             /\ \A i, j \in DOMAIN new : i # j =>
                  \/ i \in DOMAIN old /\ new[i] = old[i]
                  \/ j \in DOMAIN old /\ new[j] = old[j]
  <2>1. /\ new \in Seq(Item) /\ Len(new) = Len(old) + 1 /\ new[Len(old) + 1] = x
        /\ \A i \in 1 .. Len(old) : new[i] = old[i]
    BY <1>2, AppendProperties
  <2>2. DOMAIN old = 1 .. Len(old) /\ DOMAIN new = 1 .. (Len(old) + 1) /\ Len(old) \in Nat
    BY <2>1, LenProperties
  <2>3. \A i \in DOMAIN new : i \in DOMAIN old \/ i = Len(old) + 1
    BY <2>2
  <2> QED
    BY <1>2, <2>1, <2>2, <2>3
<1>3. ASSUME NEW x \in Item, x.at = now, NEW k \in DOMAIN old, new = [old EXCEPT ![k] = x]
      PROVE  /\ new \in Seq(Item)
             /\ DOMAIN old \subseteq DOMAIN new
             /\ \A i \in DOMAIN new : (i \in DOMAIN old /\ new[i] = old[i]) \/ new[i].at = now
             /\ \A i, j \in DOMAIN new : i # j =>
                  \/ i \in DOMAIN old /\ new[i] = old[i]
                  \/ j \in DOMAIN old /\ new[j] = old[j]
  <2>1. k \in 1 .. Len(old)
    BY LenProperties
  <2>2. /\ new \in Seq(Item)
        /\ DOMAIN new = DOMAIN old
        /\ \A i \in DOMAIN old : new[i] = IF i = k THEN x ELSE old[i]
    BY <1>3, <2>1, ExceptSeq
  <2> QED
    BY <1>3, <2>2
<1> QED
  BY <1>1, <1>2, <1>3 DEF Wrote

\* An update of item i, whether i exists or not.
LEMMA Updated ==
  ASSUME NEW s \in Seq(Item), NEW i, NEW x, NEW now,
         i \in DOMAIN s => x \in Item /\ x.at = now
  PROVE  Wrote(s, [s EXCEPT ![i] = x], now)
<1>1. CASE i \in DOMAIN s
  BY <1>1 DEF Wrote
<1>2. CASE i \notin DOMAIN s
  <2>1. [s EXCEPT ![i] = x] = s
    BY <1>2
  <2> QED
    BY <2>1 DEF Wrote
<1> QED
  BY <1>1, <1>2

\* The fields of an item.
LEMMA ItemFields ==
  ASSUME NEW s \in Seq(Item)
  PROVE  /\ \A i \in DOMAIN s : s[i] \in Item /\ s[i].title \in Nat /\ s[i].note \in Nat
                                /\ s[i].at \in Nat /\ s[i].origin \in Nat
         /\ DOMAIN s \subseteq Nat /\ Len(s) \in Nat
<1>1. DOMAIN s = 1 .. Len(s) /\ Len(s) \in Nat
  BY LenProperties
<1>2. \A i \in DOMAIN s : s[i] \in Item
  BY <1>1, ElementOfSeq
<1> QED
  BY <1>1, <1>2 DEF Item

\* What a step does to the tasks and issues.
DataStep ==
  /\ clock' \in {clock, clock + 1}
  /\ Wrote(tasks, tasks', clock + 1)
  /\ Wrote(issues, issues', clock + 1)
  /\ clock' = clock => UNCHANGED <<tasks, issues>>

\* Edits by users write one item, and leave the origin of the others alone.
LEMMA NewItems ==
  ASSUME DataOK, NEW note \in Notes, NEW home \in Homes
  PROVE  /\ NewItem(home, note) \in Item /\ NewItem(home, note).at = clock + 1
         /\ NewItem(home, note).origin = 0
         /\ \A item \in Item : /\ Edited(item, note) \in Item
                               /\ Edited(item, note).at = clock + 1
                               /\ Edited(item, note).origin = item.origin
<1>1. clock + 1 \in Nat /\ note \in Nat
  BY DEF Notes, DataOK
<1>2. ASSUME NEW item \in Item
      PROVE  /\ Edited(item, note) \in Item /\ Edited(item, note).at = clock + 1
             /\ Edited(item, note).origin = item.origin
  <2>1. Edited(item, note) = [item EXCEPT !.title = clock + 1, !.note = note, !.at = clock + 1]
    BY DEF Edited
  <2> QED
    BY <1>1, <2>1 DEF Item
<1> QED
  BY <1>1, <1>2 DEF NewItem, Item

LEMMA EditWrites ==
  ASSUME DataOK, UserStep
  PROVE  DataStep
<1>1. PICK note \in Notes :
        \/ AddTask(note)
        \/ \E home \in LinearProjects : AddIssue(home, note)
        \/ \E t \in DOMAIN tasks : EditTask(t, note)
        \/ \E i \in DOMAIN issues : EditIssue(i, note)
  BY DEF UserStep
<1>2. clock' = clock + 1 /\ clock \in Nat
  BY <1>1 DEF AddTask, AddIssue, EditTask, EditIssue, Edit, DataOK
<1>3. CASE AddTask(note)
  BY <1>2, <1>3, NewItems DEF AddTask, DataStep, Wrote, Homes
<1>4. ASSUME NEW home \in LinearProjects, AddIssue(home, note) PROVE DataStep
  BY <1>2, <1>4, NewItems DEF AddIssue, DataStep, Wrote, Homes
<1>5. ASSUME NEW t \in DOMAIN tasks, EditTask(t, note) PROVE DataStep
  <2>1. Edited(tasks[t], note) \in Item /\ Edited(tasks[t], note).at = clock + 1
    BY NewItems, ItemFields DEF DataOK, Homes
  <2>2. tasks' = [tasks EXCEPT ![t] = Edited(tasks[t], note)] /\ issues' = issues
    BY <1>5 DEF EditTask
  <2>3. Wrote(tasks, tasks', clock + 1)
    BY <2>1, <2>2 DEF Wrote
  <2>4. Wrote(issues, issues', clock + 1)
    BY <2>2 DEF Wrote
  <2> QED
    BY <1>2, <2>2, <2>3, <2>4 DEF DataStep
<1>6. ASSUME NEW i \in DOMAIN issues, EditIssue(i, note) PROVE DataStep
  <2>1. Edited(issues[i], note) \in Item /\ Edited(issues[i], note).at = clock + 1
    BY NewItems, ItemFields DEF DataOK, Homes
  <2>2. issues' = [issues EXCEPT ![i] = Edited(issues[i], note)] /\ tasks' = tasks
    BY <1>6 DEF EditIssue
  <2>3. Wrote(issues, issues', clock + 1)
    BY <2>1, <2>2 DEF Wrote
  <2>4. Wrote(tasks, tasks', clock + 1)
    BY <2>2 DEF Wrote
  <2> QED
    BY <1>2, <2>2, <2>3, <2>4 DEF DataStep
<1> QED
  BY <1>1, <1>3, <1>4, <1>5, <1>6

\* The row an export of unit u by request r writes: a new issue, or the old one
\* with what the mutation says.
Created(r, u) ==
  [title |-> u.title, note |-> u.note, at |-> clock + 1, origin |-> u.task,
   home |-> ctx[r].home]

Rewritten(u) ==
  [issues[u.issue] EXCEPT !.title = u.title, !.note = Sent(u), !.at = clock + 1]

LEMMA IssueWritten ==
  ASSUME DataOK, NEW r \in Requests, NEW u \in Unit, WriteIssue(r, u)
  PROVE  /\ clock' = clock + 1 /\ clock \in Nat /\ tasks' = tasks /\ links' = links
         /\ issues' = IF u.issue = 0 THEN Append(issues, Created(r, u))
                      ELSE [issues EXCEPT ![u.issue] = Rewritten(u)]
         /\ Created(r, u) \in Item /\ Created(r, u).at = clock + 1
         /\ Created(r, u).title = u.title /\ Created(r, u).note = u.note
         /\ Created(r, u).origin = u.task
         /\ u.issue \in DOMAIN issues =>
              /\ Rewritten(u) \in Item /\ Rewritten(u).at = clock + 1
              /\ Rewritten(u).title = u.title /\ Rewritten(u).note = Sent(u)
              /\ Rewritten(u).origin = issues[u.issue].origin
<1>1. clock' = clock + 1 /\ clock \in Nat /\ tasks' = tasks /\ links' = links
  BY DEF WriteIssue, DataOK
<1>2. issues' = IF u.issue = 0 THEN Append(issues, Created(r, u))
                ELSE [issues EXCEPT ![u.issue] = Rewritten(u)]
  BY DEF WriteIssue, Created, Rewritten, Sent
<1>3. ctx[r].home \in Homes
  BY DEF DataOK, Context
<1>4. /\ Created(r, u) \in Item /\ Created(r, u).at = clock + 1
      /\ Created(r, u).title = u.title /\ Created(r, u).note = u.note
      /\ Created(r, u).origin = u.task
  BY <1>1, <1>3 DEF Created, Unit, Item
<1>5. ASSUME u.issue \in DOMAIN issues
      PROVE  /\ Rewritten(u) \in Item /\ Rewritten(u).at = clock + 1
             /\ Rewritten(u).title = u.title /\ Rewritten(u).note = Sent(u)
             /\ Rewritten(u).origin = issues[u.issue].origin
  <2>1. issues[u.issue] \in Item /\ issues[u.issue].note \in Nat
    BY <1>5, ItemFields DEF DataOK
  <2>2. Sent(u) \in Nat /\ u.title \in Nat /\ clock + 1 \in Nat
    BY <1>1, <2>1 DEF Sent, Unit
  <2> QED
    BY <2>1, <2>2 DEF Rewritten, Item
<1> QED
  BY <1>1, <1>2, <1>4, <1>5

\* So does the export of a unit.
LEMMA ExportWrites ==
  ASSUME DataOK, NEW r \in Requests, NEW u \in Unit, WriteIssue(r, u)
  PROVE  DataStep
<1>1. Wrote(issues, issues', clock + 1)
  <2>1. CASE u.issue = 0
    BY <2>1, IssueWritten DEF Wrote
  <2>2. CASE u.issue # 0
    <3>1. /\ issues' = [issues EXCEPT ![u.issue] = Rewritten(u)]
          /\ u.issue \in DOMAIN issues => Rewritten(u) \in Item /\ Rewritten(u).at = clock + 1
      BY <2>2, IssueWritten
    <3> QED
      BY <3>1, Updated DEF DataOK
  <2> QED
    BY <2>1, <2>2
<1> QED
  BY <1>1, IssueWritten DEF DataStep, Wrote

\* The row an import of unit u writes: a new task, or the target written over.
NewTask(u) ==
  [title |-> u.title, note |-> u.note, at |-> clock + 1, origin |-> u.issue, home |-> "app"]

Overwritten(t, u) ==
  [tasks[t] EXCEPT !.title = u.title, !.note = u.note, !.at = clock + 1]

LEMMA TaskWritten ==
  ASSUME DataOK, NEW r \in Requests, NEW u \in Unit, CreateTask(r, u) \/ WriteTask(r, u)
  PROVE  /\ clock' = clock + 1 /\ clock \in Nat /\ issues' = issues /\ links' = links
         /\ CreateTask(r, u) => tasks' = Append(tasks, NewTask(u))
         /\ WriteTask(r, u) =>
              tasks' = [tasks EXCEPT ![ctx[r].target] = Overwritten(ctx[r].target, u)]
         /\ NewTask(u) \in Item /\ NewTask(u).at = clock + 1
         /\ NewTask(u).title = u.title /\ NewTask(u).note = u.note
         /\ NewTask(u).origin = u.issue
         /\ \A t \in DOMAIN tasks :
              /\ Overwritten(t, u) \in Item /\ Overwritten(t, u).at = clock + 1
              /\ Overwritten(t, u).title = u.title /\ Overwritten(t, u).note = u.note
              /\ Overwritten(t, u).origin = tasks[t].origin
<1>1. clock' = clock + 1 /\ clock \in Nat /\ issues' = issues /\ links' = links
  BY DEF CreateTask, WriteTask, DataOK
<1>2. /\ CreateTask(r, u) => tasks' = Append(tasks, NewTask(u))
      /\ WriteTask(r, u) =>
           tasks' = [tasks EXCEPT ![ctx[r].target] = Overwritten(ctx[r].target, u)]
  BY DEF CreateTask, WriteTask, NewTask, Overwritten
<1>3. /\ NewTask(u) \in Item /\ NewTask(u).at = clock + 1
      /\ NewTask(u).title = u.title /\ NewTask(u).note = u.note
      /\ NewTask(u).origin = u.issue
  BY <1>1 DEF NewTask, Unit, Item, Homes
<1>4. ASSUME NEW t \in DOMAIN tasks
      PROVE  /\ Overwritten(t, u) \in Item /\ Overwritten(t, u).at = clock + 1
             /\ Overwritten(t, u).title = u.title /\ Overwritten(t, u).note = u.note
             /\ Overwritten(t, u).origin = tasks[t].origin
  <2>1. tasks[t] \in Item
    BY ItemFields DEF DataOK
  <2>2. u.title \in Nat /\ u.note \in Nat /\ clock + 1 \in Nat
    BY <1>1 DEF Unit
  <2> QED
    BY <2>1, <2>2 DEF Overwritten, Item
<1> QED
  BY <1>1, <1>2, <1>3, <1>4

\* And the import of an issue.
LEMMA ImportWrites ==
  ASSUME DataOK, NEW r \in Requests, NEW u \in Unit, CreateTask(r, u) \/ WriteTask(r, u)
  PROVE  DataStep
<1>1. Wrote(tasks, tasks', clock + 1)
  <2>1. CASE CreateTask(r, u)
    BY <2>1, TaskWritten DEF Wrote
  <2>2. CASE WriteTask(r, u)
    BY <2>2, TaskWritten, Updated DEF DataOK
  <2> QED
    BY <2>1, <2>2
<1> QED
  BY <1>1, TaskWritten DEF DataStep, Wrote

-----------------------------------------------------------------------------
(* Type correctness.                                                       *)

\* A step that changes local variables changes those of request r, and not
\* the operation it runs.
ContextStep(r) ==
  \E c \in Context : c.kind = ctx[r].kind /\ ctx' = [ctx EXCEPT ![r] = c]

\* No change is a change of that form.
LEMMA SameContext ==
  ASSUME DataOK, NEW r \in Requests, UNCHANGED ctx
  PROVE  ContextStep(r)
<1>1. ctx[r] \in Context /\ ctx' = [ctx EXCEPT ![r] = ctx[r]]
  BY DEF DataOK
<1> QED
  BY <1>1 DEF ContextStep

\* The end of a unit of an export, successful or not.
LEMMA UnitContext ==
  ASSUME DataOK, NEW r \in Requests, NEW u,
         \/ ExportUnitFails(r, u)
         \/ ImportUnitFails(r, u) /\ u \in Unit
         \/ NextUnit(r, u, ctx[r])
         \/ NextIssue(r, u, Seen(r, u)) /\ u \in Unit
         \/ \E n \in Nat : NextUnit(r, u, [ctx[r] EXCEPT !.skip = @ \cup {n}])
  PROVE  ContextStep(r)
<1>1. ctx[r] \in Context /\ ctx[r].skip \subseteq Nat /\ ctx[r].seen \in Nat
  BY DEF DataOK, Context
<1>2. ASSUME NEW c \in Context, c.kind = ctx[r].kind, NextUnit(r, u, c) PROVE ContextStep(r)
  <2>1. c.work \ {u} \in SUBSET Unit
    BY <1>2 DEF Context
  <2>2. [c EXCEPT !.work = c.work \ {u}] \in Context
    BY <1>2, <2>1, ContextUpdates
  <2>3. [c EXCEPT !.work = c.work \ {u}].kind = ctx[r].kind
    BY <1>2 DEF Context
  <2>4. ctx' = [ctx EXCEPT ![r] = [c EXCEPT !.work = c.work \ {u}]]
    BY <1>2 DEF NextUnit
  <2> QED
    BY <2>2, <2>3, <2>4 DEF ContextStep
<1>3. ASSUME NEW c \in Context, c.kind = ctx[r].kind, NextIssue(r, u, c), u \in Unit
      PROVE  ContextStep(r)
  <2>1. c.work \ {u} \in SUBSET Unit /\ u.issue \in Nat
    BY <1>3 DEF Context, Unit
  <2>2. [c EXCEPT !.work = c.work \ {u}, !.after = u.issue] \in Context
    BY <1>3, <2>1, ContextUpdates
  <2>3. [c EXCEPT !.work = c.work \ {u}, !.after = u.issue].kind = ctx[r].kind
    BY <1>3 DEF Context
  <2>4. ctx' = [ctx EXCEPT ![r] = [c EXCEPT !.work = c.work \ {u}, !.after = u.issue]]
    BY <1>3 DEF NextIssue
  <2> QED
    BY <2>2, <2>3, <2>4 DEF ContextStep
<1>4. /\ [ctx[r] EXCEPT !.exportFailures = TRUE] \in Context
      /\ [ctx[r] EXCEPT !.failures = TRUE] \in Context
  BY <1>1, ContextUpdates
<1>5. ASSUME NEW n \in Nat
      PROVE  [ctx[r] EXCEPT !.skip = @ \cup {n}] \in Context
  <2>1. ctx[r].skip \cup {n} \in SUBSET Nat
    BY <1>1
  <2>2. [ctx[r] EXCEPT !.skip = ctx[r].skip \cup {n}] \in Context
    BY <1>1, <2>1, ContextUpdates
  <2> QED
    BY <2>2
<1>6. u \in Unit => Seen(r, u) \in Context
  <2>1. u \in Unit => u.at \in Nat
    BY DEF Unit
  <2>2. u \in Unit =>
          (IF u.at > ctx[r].seen THEN u.at ELSE ctx[r].seen) \in Nat
    BY <1>1, <2>1
  <2> QED
    BY <1>1, <2>2, ContextUpdates DEF Seen
<1>9. /\ [ctx[r] EXCEPT !.exportFailures = TRUE].kind = ctx[r].kind
      /\ [ctx[r] EXCEPT !.failures = TRUE].kind = ctx[r].kind
      /\ \A n : [ctx[r] EXCEPT !.skip = @ \cup {n}].kind = ctx[r].kind
      /\ Seen(r, u).kind = ctx[r].kind
  BY <1>1 DEF Context, Seen
<1>7. CASE ExportUnitFails(r, u)
  BY <1>2, <1>4, <1>7, <1>9, SameContext DEF ExportUnitFails
<1>8. CASE ImportUnitFails(r, u) /\ u \in Unit
  BY <1>3, <1>4, <1>8, <1>9 DEF ImportUnitFails
<1> QED
  BY <1>1, <1>2, <1>3, <1>5, <1>6, <1>7, <1>8, <1>9

\* The rows of the database besides tasks and issues.
RowsOK ==
  /\ links \subseteq Link
  /\ linked \in BOOLEAN
  /\ project \in Homes
  /\ status \in {"idle", "syncing", "error"}
  /\ cursor \in Nat
  /\ run \in [Requests -> {"none", "running", "completed", "partial", "failed"}]

\* A step of request r that keeps the types.
TypedStep(r) == DataStep /\ ContextStep(r) /\ RowsOK'

\* Such a step keeps DataOK.
LEMMA TypedStepKeeps ==
  ASSUME DataOK, NEW r \in Requests, TypedStep(r)
  PROVE  DataOK'
<1>1. clock' \in Nat
  BY DEF TypedStep, DataStep, DataOK
<1>2. tasks' \in Seq(Item) /\ issues' \in Seq(Item)
  BY WroteFacts DEF TypedStep, DataStep, DataOK
<1>3. ctx' \in [Requests -> Context]
  BY DEF TypedStep, ContextStep, DataOK
<1> QED
  BY <1>1, <1>2, <1>3 DEF TypedStep, RowsOK, DataOK

\* A step that writes neither tasks nor issues.
LEMMA NoWrite == ASSUME UNCHANGED <<tasks, issues, clock>> PROVE DataStep
BY DEF DataStep, Wrote

\* The steps of an export that handle a unit.
LEMMA ExportUnitTyped ==
  ASSUME DataOK, NEW r \in Requests, NEW u \in ctx[r].work,
         \/ ExportItem(r, u) \/ ExportLink(r, u)
         \/ ExportReplyLost(r, u) \/ QueryFails(r, u)
  PROVE  TypedStep(r)
<1>1. /\ ctx[r] \in Context /\ u \in Unit /\ RowsOK /\ clock \in Nat
      /\ u.task \in Nat /\ u.issue \in Nat /\ u.at \in Nat
      /\ ctx[r].target \in Nat /\ ctx[r].stamp \in Nat
  BY DEF DataOK, Context, Unit, RowsOK
<1>2. /\ UNCHANGED <<linked, project, status, cursor, run>>
  BY DEF ExportItem, ExportLink, LinkExported, ExportReplyLost, QueryFails, mappingVars
<1>3. CASE ExportItem(r, u)
  <2>1. CASE ExportUnitFails(r, u) /\ UNCHANGED dataVars
    BY <1>1, <1>2, <2>1, UnitContext, NoWrite DEF TypedStep, RowsOK, dataVars
  <2>2. CASE /\ WriteIssue(r, u)
             /\ ctx' = [ctx EXCEPT ![r].stamp = clock + 1,
                                   ![r].target = IF u.issue = 0 THEN Len(issues) + 1
                                                 ELSE u.issue]
    <3> DEFINE k == IF u.issue = 0 THEN Len(issues) + 1 ELSE u.issue
    <3>1. k \in Nat /\ clock + 1 \in Nat
      BY <1>1, ItemFields DEF DataOK
    <3> HIDE DEF k
    <3>2. [ctx[r] EXCEPT !.stamp = clock + 1, !.target = k] \in Context
      BY <1>1, <3>1, ContextUpdates
    <3>3. [ctx[r] EXCEPT !.stamp = clock + 1, !.target = k].kind = ctx[r].kind
      BY <1>1 DEF Context
    <3>4. ctx' = [ctx EXCEPT ![r] = [ctx[r] EXCEPT !.stamp = clock + 1, !.target = k]]
      BY <2>2 DEF k
    <3>5. ContextStep(r)
      BY <3>2, <3>3, <3>4 DEF ContextStep
    <3>6. DataStep /\ links' = links
      BY <1>1, <2>2, ExportWrites DEF WriteIssue
    <3> QED
      BY <1>1, <1>2, <3>5, <3>6 DEF TypedStep, RowsOK
  <2> QED
    BY <1>3, <2>1, <2>2 DEF ExportItem
<1>4. CASE ExportLink(r, u)
  <2> DEFINE l == [task |-> u.task, issue |-> ctx[r].target, local |-> u.at,
                   linear |-> ctx[r].stamp]
  <2>1. l \in Link /\ l.issue \in Nat
    BY <1>1 DEF Link
  <2>2. links' = links \/ links' = (links \ Rows(l)) \cup {l}
    BY <1>4 DEF ExportLink, LinkExported, SaveLink
  <2>3. /\ UNCHANGED <<tasks, issues, clock>>
        /\ \/ NextUnit(r, u, [ctx[r] EXCEPT !.skip = @ \cup {l.issue}])
           \/ ExportUnitFails(r, u)
    BY <1>4 DEF ExportLink, LinkExported
  <2> HIDE DEF l
  <2>4. links' \subseteq Link
    BY <1>1, <2>1, <2>2 DEF RowsOK
  <2>5. ContextStep(r)
    BY <2>1, <2>3, UnitContext
  <2> QED
    BY <1>1, <1>2, <2>3, <2>4, <2>5, NoWrite DEF TypedStep, RowsOK
<1>5. CASE ExportReplyLost(r, u)
  <2>1. ContextStep(r)
    BY <1>5, SameContext, UnitContext DEF ExportReplyLost
  <2>2. DataStep /\ links' = links
    BY <1>1, <1>5, ExportWrites DEF ExportReplyLost, WriteIssue
  <2> QED
    BY <1>1, <1>2, <2>1, <2>2 DEF TypedStep, RowsOK
<1>6. CASE QueryFails(r, u)
  <2>1. ContextStep(r)
    BY <1>1, <1>6, UnitContext DEF QueryFails
  <2>2. DataStep /\ links' = links
    BY <1>6, NoWrite DEF QueryFails, dataVars
  <2> QED
    BY <1>1, <1>2, <2>1, <2>2 DEF TypedStep, RowsOK
<1> QED
  BY <1>3, <1>4, <1>5, <1>6

\* The steps of an import that handle an issue.
LEMMA ImportUnitTyped ==
  ASSUME DataOK, NEW r \in Requests, NEW u \in ctx[r].work,
         \/ ImportItem(r, u) \/ CreateTask(r, u) \/ WriteTask(r, u)
         \/ SaveImportedLink(r, u)
  PROVE  TypedStep(r)
<1>1. /\ ctx[r] \in Context /\ u \in Unit /\ RowsOK /\ clock \in Nat
      /\ u.task \in Nat /\ u.issue \in Nat /\ u.at \in Nat
      /\ ctx[r].target \in Nat /\ ctx[r].stamp \in Nat
  BY DEF DataOK, Context, Unit, RowsOK
<1>2. UNCHANGED <<linked, project, status, cursor, run>>
  BY DEF ImportItem, CreateTask, WriteTask, SaveImportedLink, LinkImported, mappingVars
<1>3. ASSUME NEW n \in Nat, ctx' = [ctx EXCEPT ![r].target = n] PROVE ContextStep(r)
  <2>1. [ctx[r] EXCEPT !.target = n] \in Context
    BY <1>1, <1>3, ContextUpdates
  <2>2. [ctx[r] EXCEPT !.target = n].kind = ctx[r].kind
    BY <1>1 DEF Context
  <2>3. ctx' = [ctx EXCEPT ![r] = [ctx[r] EXCEPT !.target = n]]
    BY <1>3
  <2> QED
    BY <2>1, <2>2, <2>3 DEF ContextStep
<1>4. CASE ImportItem(r, u)
  <2>1. \/ ContextStep(r)
        \/ UNCHANGED ctx
        \/ \E l \in links : ctx' = [ctx EXCEPT ![r].target = l.task]
    BY <1>1, <1>4, UnitContext DEF ImportItem, LinksTo
  <2>2. \A l \in links : l.task \in Nat
    BY <1>1 DEF RowsOK, Link
  <2>3. ContextStep(r)
    BY <1>3, <2>1, <2>2, SameContext
  <2>4. DataStep /\ links' = links
    BY <1>4, NoWrite DEF ImportItem, dataVars
  <2> QED
    BY <1>1, <1>2, <2>3, <2>4 DEF TypedStep, RowsOK
<1>5. CASE CreateTask(r, u)
  <2>1. Len(tasks) + 1 \in Nat /\ clock + 1 \in Nat
    BY <1>1, ItemFields DEF DataOK
  <2>2. /\ [ctx[r] EXCEPT !.target = Len(tasks) + 1, !.stamp = clock + 1] \in Context
        /\ [ctx[r] EXCEPT !.target = Len(tasks) + 1, !.stamp = clock + 1].kind = ctx[r].kind
    <3>1. [ctx[r] EXCEPT !.target = Len(tasks) + 1, !.stamp = clock + 1] \in Context
      BY <1>1, <2>1, ContextUpdates
    <3> QED
      BY <1>1, <3>1 DEF Context
  <2>3. ctx' = [ctx EXCEPT ![r] = [ctx[r] EXCEPT !.target = Len(tasks) + 1,
                                                 !.stamp = clock + 1]]
    BY <1>5 DEF CreateTask
  <2>4. ContextStep(r)
    BY <2>2, <2>3 DEF ContextStep
  <2>5. DataStep /\ links' = links
    BY <1>1, <1>5, ImportWrites DEF CreateTask
  <2> QED
    BY <1>1, <1>2, <2>4, <2>5 DEF TypedStep, RowsOK
<1>6. CASE WriteTask(r, u)
  <2>1. clock + 1 \in Nat
    BY <1>1
  <2>2. [ctx[r] EXCEPT !.stamp = clock + 1] \in Context
    BY <1>1, <2>1, ContextUpdates
  <2>3. [ctx[r] EXCEPT !.stamp = clock + 1].kind = ctx[r].kind
    BY <1>1 DEF Context
  <2>4. ctx' = [ctx EXCEPT ![r] = [ctx[r] EXCEPT !.stamp = clock + 1]]
    BY <1>6 DEF WriteTask
  <2>5. ContextStep(r)
    BY <2>2, <2>3, <2>4 DEF ContextStep
  <2>6. DataStep /\ links' = links
    BY <1>1, <1>6, ImportWrites DEF WriteTask
  <2> QED
    BY <1>1, <1>2, <2>5, <2>6 DEF TypedStep, RowsOK
<1>7. CASE SaveImportedLink(r, u)
  <2> DEFINE l == [task |-> ctx[r].target, issue |-> u.issue, local |-> ctx[r].stamp,
                   linear |-> u.at]
  <2>1. l \in Link
    BY <1>1 DEF Link
  <2>2. links' = links \/ links' = (links \ Rows(l)) \cup {l}
    BY <1>7 DEF SaveImportedLink, LinkImported, SaveLink
  <2>3. /\ UNCHANGED <<tasks, issues, clock>>
        /\ NextIssue(r, u, Seen(r, u)) \/ ImportUnitFails(r, u)
    BY <1>7 DEF SaveImportedLink, LinkImported
  <2> HIDE DEF l
  <2>4. links' \subseteq Link
    BY <1>1, <2>1, <2>2 DEF RowsOK
  <2>5. ContextStep(r)
    BY <1>1, <2>3, UnitContext
  <2> QED
    BY <1>1, <1>2, <2>3, <2>4, <2>5, NoWrite DEF TypedStep, RowsOK
<1> QED
  BY <1>4, <1>5, <1>6, <1>7

\* A task or an issue read as a unit of work.
LEMMA UnitsTyped ==
  ASSUME DataOK
  PROVE  /\ \A t \in DOMAIN tasks : ExportUnit(t) \in Unit
         /\ \A i \in DOMAIN issues : ImportUnit(i) \in Unit
<1>1. /\ \A t \in DOMAIN tasks : t \in Nat /\ tasks[t].title \in Nat /\ tasks[t].note \in Nat
                                /\ tasks[t].at \in Nat
      /\ \A i \in DOMAIN issues : i \in Nat /\ issues[i].title \in Nat /\ issues[i].note \in Nat
                                 /\ issues[i].at \in Nat
  BY ItemFields DEF DataOK
<1>2. ASSUME NEW t \in DOMAIN tasks PROVE ExportUnit(t) \in Unit
  <2> DEFINE n == IF LinkOf(t) = {} THEN 0 ELSE (CHOOSE l \in LinkOf(t) : TRUE).issue
  <2>1. \A l \in LinkOf(t) : l.issue \in Nat
    BY DEF LinkOf, DataOK, Link
  <2>2. n \in Nat
    BY <2>1
  <2>3. ExportUnit(t) = [task |-> t, title |-> tasks[t].title, note |-> tasks[t].note,
                         at |-> tasks[t].at, issue |-> n]
    BY DEF ExportUnit
  <2> HIDE DEF n
  <2> QED
    BY <1>1, <2>2, <2>3 DEF Unit
<1>3. ASSUME NEW i \in DOMAIN issues PROVE ImportUnit(i) \in Unit
  BY <1>1, <1>3 DEF ImportUnit, Unit
<1> QED
  BY <1>2, <1>3

\* A step that writes only a status, the cursor, or a run.
LEMMA StatusTyped ==
  ASSUME DataOK, NEW r \in Requests, UNCHANGED <<dataVars, linked, project, ctx>>,
         status' \in {status, "idle", "syncing", "error"},
         cursor' \in {cursor, ctx[r].seen},
         \/ run' = run
         \/ \E s \in {"running", "completed", "partial", "failed"} :
              run' = [run EXCEPT ![r] = s]
  PROVE  TypedStep(r)
<1>1. RowsOK /\ ctx[r].seen \in Nat
  BY DEF DataOK, RowsOK, Context
<1>2. DataStep /\ ContextStep(r) /\ links' = links
  BY NoWrite, SameContext DEF dataVars
<1> QED
  BY <1>1, <1>2 DEF TypedStep, RowsOK

\* The steps of a request outside the loops over its units.
LEMMA OtherTyped ==
  ASSUME DataOK, NEW r \in Requests,
         \/ CreateRun(r)
         \/ ExportCheck(r) \/ ExportLock(r) \/ ExportRead(r)
         \/ ExportDone(r) \/ ExportFail(r) \/ ExportRun(r) \/ SyncRunFailed(r)
         \/ ImportCheck(r) \/ ImportLock(r) \/ Fetch(r) \/ ImportDone(r)
         \/ FinishRun(r) \/ ImportFail(r) \/ ImportRunFailed(r) \/ SyncRunPartial(r)
         \/ Crash(r)
  PROVE  TypedStep(r)
<1>1. ctx[r] \in Context /\ RowsOK /\ cursor \in Nat
  BY DEF DataOK, RowsOK
<1>2. ASSUME UNCHANGED <<dataVars, mappingVars, run>>, ContextStep(r) PROVE TypedStep(r)
  BY <1>1, <1>2, NoWrite DEF TypedStep, RowsOK, dataVars, mappingVars
<1>3. CASE Crash(r)
  BY <1>2, <1>3, SameContext DEF Crash
<1>13. CASE ExportCheck(r)
  <2>1. project \in Homes
    BY DEF DataOK
  <2>2. [ctx[r] EXCEPT !.home = project] \in Context
    BY <1>1, <2>1, ContextUpdates
  <2>3. [ctx[r] EXCEPT !.home = project].kind = ctx[r].kind
    BY <1>1 DEF Context
  <2>4. UNCHANGED ctx \/ ctx' = [ctx EXCEPT ![r] = [ctx[r] EXCEPT !.home = project]]
    BY <1>13 DEF ExportCheck
  <2>5. ContextStep(r)
    BY <2>2, <2>3, <2>4, SameContext DEF ContextStep
  <2> QED
    BY <1>2, <1>13, <2>5 DEF ExportCheck
<1>4. CASE ExportLock(r) \/ ImportLock(r)
  BY <1>4, StatusTyped DEF ExportLock, ImportLock, SetSyncing, mappingVars
<1>5. CASE ExportDone(r) \/ ImportDone(r)
  BY <1>5, StatusTyped DEF ExportDone, ImportDone
<1>6. CASE ExportFail(r) \/ ImportFail(r)
  BY <1>6, StatusTyped DEF ExportFail, ImportFail, SetError
<1>7. CASE CreateRun(r)
  BY <1>7, StatusTyped DEF CreateRun, mappingVars
<1>8. ASSUME NEW stage, NEW s \in {"completed", "partial", "failed"}, EndRun(r, stage, s)
      PROVE  TypedStep(r)
  BY <1>8, StatusTyped DEF EndRun, mappingVars
<1>9. CASE ExportRun(r) \/ SyncRunFailed(r) \/ FinishRun(r) \/ ImportRunFailed(r)
           \/ SyncRunPartial(r)
  BY <1>8, <1>9 DEF ExportRun, SyncRunFailed, FinishRun, ImportRunFailed, SyncRunPartial
<1>10. CASE ExportRead(r)
  <2> DEFINE W == { ExportUnit(t) : t \in DirtyBatch }
  <2>1. W \in SUBSET Unit
    BY UnitsTyped DEF DirtyBatch, Latest
  <2> HIDE DEF W
  <2>2. [ctx[r] EXCEPT !.work = W] \in Context /\ [ctx[r] EXCEPT !.work = W].kind = ctx[r].kind
    <3>1. [ctx[r] EXCEPT !.work = W] \in Context
      BY <1>1, <2>1, ContextUpdates
    <3> QED
      BY <1>1, <3>1 DEF Context
  <2>3. UNCHANGED ctx \/ ctx' = [ctx EXCEPT ![r] = [ctx[r] EXCEPT !.work = W]]
    BY <1>10 DEF ExportRead, W
  <2>4. ContextStep(r)
    BY <2>2, <2>3, SameContext DEF ContextStep
  <2> QED
    BY <1>2, <1>10, <2>4 DEF ExportRead
<1>11. CASE ImportCheck(r)
  <2> DEFINE n == IF ctx[r].kind = "import" THEN 0 ELSE cursor
  <2>1. n \in Nat /\ project \in Homes
    BY <1>1 DEF DataOK
  <2> HIDE DEF n
  <2> DEFINE c == [ctx[r] EXCEPT !.home = project, !.since = n, !.seen = cursor, !.after = 0]
  <2>2. c \in Context
    BY <1>1, <2>1, ContextUpdates
  <2>3. c.kind = ctx[r].kind
    BY <1>1 DEF Context
  <2>4. UNCHANGED ctx \/ ctx' = [ctx EXCEPT ![r] = c]
    BY <1>11 DEF ImportCheck, n
  <2> HIDE DEF c
  <2>5. ContextStep(r)
    BY <2>2, <2>3, <2>4, SameContext DEF ContextStep
  <2> QED
    BY <1>2, <1>11, <2>5 DEF ImportCheck
<1>12. CASE Fetch(r)
  <2> DEFINE W == { ImportUnit(i) : i \in Page(r) }
  <2> DEFINE b == Page(r) # Rest(r)
  <2>1. W \in SUBSET Unit /\ b \in BOOLEAN
    BY UnitsTyped DEF Page, Rest
  <2> HIDE DEF W, b
  <2> DEFINE c == [ctx[r] EXCEPT !.work = W, !.more = b]
  <2>2. c \in Context
    BY <1>1, <2>1, ContextUpdates
  <2>3. c.kind = ctx[r].kind
    BY <1>1 DEF Context
  <2>4. UNCHANGED ctx \/ ctx' = [ctx EXCEPT ![r] = c]
    BY <1>12 DEF Fetch, W, b
  <2> HIDE DEF c
  <2>5. ContextStep(r)
    BY <2>2, <2>3, <2>4, SameContext DEF ContextStep
  <2> QED
    BY <1>2, <1>12, <2>5 DEF Fetch
<1> QED
  BY <1>3, <1>4, <1>5, <1>6, <1>7, <1>9, <1>10, <1>11, <1>12, <1>13

\* Every step keeps the types.
LEMMA DataKept == ASSUME DataOK, Next PROVE DataOK'
<1>1. ASSUME NEW r \in Requests, TypedStep(r) PROVE DataOK'
  BY <1>1, TypedStepKeeps
<1>2. CASE UserStep
  <2>1. DataStep /\ UNCHANGED <<links, mappingVars, run>>
    BY <1>2, EditWrites DEF UserStep, AddTask, AddIssue, EditTask, EditIssue, Edit
  <2>2. ctx' = [r \in Requests |-> [ctx[r] EXCEPT !.quiet = FALSE]]
    BY <1>2 DEF UserStep, AddTask, AddIssue, EditTask, EditIssue, Edit
  <2>3. ctx' \in [Requests -> Context]
    BY <2>2, ContextUpdates DEF DataOK
  <2>4. tasks' \in Seq(Item) /\ issues' \in Seq(Item) /\ clock' \in Nat
    BY <2>1, WroteFacts DEF DataStep, DataOK
  <2> QED
    BY <2>1, <2>3, <2>4 DEF DataOK, mappingVars
<1>3. CASE (\E p \in LinearProjects : LinkProject(p)) \/ UnlinkProject
  <2>1. UNCHANGED <<tasks, issues, clock, ctx, run>>
    BY <1>3 DEF LinkProject, UnlinkProject, CountLink
  <2>2. /\ linked' \in BOOLEAN /\ project' \in Homes /\ status' \in {"idle", "syncing", "error"}
        /\ cursor' \in Nat /\ links' \subseteq Link
    <3>1. CASE \E p \in LinearProjects : LinkProject(p)
      BY <3>1 DEF LinkProject, DataOK, Homes
    <3>2. CASE UnlinkProject
      BY <3>2 DEF UnlinkProject, DataOK, Homes
    <3> QED
      BY <1>3, <3>1, <3>2
  <2> QED
    BY <2>1, <2>2 DEF DataOK
<1>4. ASSUME NEW r \in Requests, NEW kind \in Kinds, Begin(r, kind)
      PROVE  DataOK'
  <2>1. [NoContext EXCEPT !.kind = kind, !.quiet = TRUE] \in Context
    BY SyncAssumption DEF NoContext, Context, Homes
  <2>2. UNCHANGED <<tasks, issues, links, clock, linked, project, status, cursor>>
    BY <1>4 DEF Begin, dataVars, mappingVars
  <2>3. /\ ctx' = [ctx EXCEPT ![r] = [NoContext EXCEPT !.kind = kind, !.quiet = TRUE]]
        /\ run' = [run EXCEPT ![r] = "none"]
    BY <1>4 DEF Begin
  <2> QED
    BY <2>1, <2>2, <2>3 DEF DataOK
<1> QED
  BY <1>1, <1>2, <1>3, <1>4, ExportUnitTyped, ImportUnitTyped, OtherTyped
     DEF Next, RequestStep, ExportStep, ImportStep

(***************************************************************************)
(* Type correctness: whatever is edited, linked and synchronised at the    *)
(* same time, tasks, issues and links stay well formed, and a request's    *)
(* units of work are tasks and issues that it read.                        *)
(***************************************************************************)
THEOREM TypeCorrect == Spec => []TypeOK
<1>1. Init => DataOK
  <2> SUFFICES ASSUME Init PROVE DataOK
    OBVIOUS
  <2>1. NoContext \in Context
    BY DEF NoContext, Context, Homes
  <2>2. tasks \in Seq(Item) /\ issues \in Seq(Item)
    BY EmptySeq DEF Init
  <2>3. /\ run \in [Requests -> {"none", "running", "completed", "partial", "failed"}]
        /\ ctx \in [Requests -> Context]
    BY <2>1 DEF Init
  <2>4. /\ links \subseteq Link /\ linked \in BOOLEAN /\ cursor \in Nat /\ clock \in Nat
        /\ project \in Homes /\ status \in {"idle", "syncing", "error"}
    BY DEF Init, Homes
  <2> QED
    BY <2>2, <2>3, <2>4 DEF DataOK
<1>2. DataOK /\ [Next]_vars => DataOK'
  <2>1. DataOK /\ UNCHANGED vars => DataOK'
    BY DEF DataOK, vars, dataVars, mappingVars
  <2> QED
    BY <2>1, DataKept
<1>3. DataOK /\ IInv => TypeOK
  BY DEF DataOK, IInv, TypeOK
<1> QED
  BY <1>1, <1>2, <1>3, LockInvariant, PTL DEF Spec

-----------------------------------------------------------------------------
(* The runs of sync are closed.                                            *)

Closed == {"completed", "partial", "failed"}

\* Request r goes to stage s; if that ends a sync, its run is closed.
ClosingStep(r, s) ==
  /\ pc' = [pc EXCEPT ![r] = s]
  /\ \A q \in Requests \ {r} : run'[q] = run[q]
  /\ used'.faults >= used.faults /\ used'.faults \in Nat
  /\ s = "idle" /\ ctx[r].kind = "sync" /\ used'.faults = 0 => run'[r] \in Closed

\* Such a step keeps the runs closed.
LEMMA ClosingStepKeeps ==
  ASSUME TypeOK, SyncRunsClosed, NEW r \in Requests, NEW s, ClosingStep(r, s),
         ContextStep(r)
  PROVE  SyncRunsClosed'
<1>1. \A q \in Requests : ctx'[q].kind = ctx[q].kind
  BY DEF ContextStep, TypeOK
<1>2. /\ pc'[r] = s /\ \A q \in Requests \ {r} : pc'[q] = pc[q]
      /\ used'.faults = 0 => used.faults = 0
  BY DEF ClosingStep, TypeOK
<1> QED
  BY <1>1, <1>2 DEF ClosingStep, SyncRunsClosed, Closed

\* A step to another stage than idle closes no run.
LEMMA GoesOn ==
  ASSUME TypeOK, NEW r \in Requests, NEW s, s # "idle", Goto(r, s), UNCHANGED used,
         \/ UNCHANGED run
         \/ \E x : run' = [run EXCEPT ![r] = x]
  PROVE  ClosingStep(r, s)
BY DEF ClosingStep, Goto, TypeOK

\* The steps that handle a unit of work.
LEMMA UnitClosing ==
  ASSUME TypeOK, NEW r \in Requests, NEW u \in ctx[r].work,
         \/ ExportItem(r, u) \/ ExportLink(r, u)
         \/ ExportReplyLost(r, u) \/ QueryFails(r, u)
         \/ ImportItem(r, u) \/ CreateTask(r, u) \/ WriteTask(r, u)
         \/ SaveImportedLink(r, u)
  PROVE  \E s : ClosingStep(r, s)
<1>1. /\ UNCHANGED run
      /\ UNCHANGED used \/ used' = [used EXCEPT !.faults = @ + 1]
  BY DEF ExportItem, ExportLink, LinkExported, ExportReplyLost, QueryFails, ImportItem,
     CreateTask, WriteTask, SaveImportedLink, LinkImported
<1>2. \/ \E s : s # "idle" /\ Goto(r, s)
      \/ UNCHANGED pc /\ ExportReplyLost(r, u)
  <2>1. \A c : NextUnit(r, u, c) => \E s : s # "idle" /\ Goto(r, s)
    BY DEF NextUnit
  <2>2. ExportUnitFails(r, u) => \E s : s # "idle" /\ Goto(r, s)
    BY <2>1 DEF ExportUnitFails
  <2>3. \A c : NextIssue(r, u, c) => \E s : s # "idle" /\ Goto(r, s)
    <3> SUFFICES ASSUME NEW c, NextIssue(r, u, c) PROVE \E s : s # "idle" /\ Goto(r, s)
      OBVIOUS
    <3>1. Goto(r, "importItem") \/ Goto(r, "fetch") \/ Goto(r, "importDone")
      BY DEF NextIssue
    <3> QED
      BY <3>1
  <2>4. CASE ExportItem(r, u) \/ ExportLink(r, u) \/ ExportReplyLost(r, u)
    BY <2>1, <2>2, <2>4 DEF ExportItem, ExportLink, LinkExported, ExportReplyLost
  <2>5. CASE QueryFails(r, u)
    BY <2>2, <2>3, <2>5 DEF QueryFails, ImportUnitFails
  <2>6. CASE ImportItem(r, u) \/ CreateTask(r, u) \/ WriteTask(r, u)
             \/ SaveImportedLink(r, u)
    BY <2>3, <2>6 DEF ImportItem, CreateTask, WriteTask, SaveImportedLink, LinkImported,
       ImportUnitFails
  <2> QED
    BY <2>4, <2>5, <2>6
<1>3. used'.faults \in Nat /\ used'.faults >= used.faults
  BY <1>1 DEF TypeOK
<1>4. ASSUME NEW s, s # "idle", Goto(r, s) PROVE ClosingStep(r, s)
  BY <1>1, <1>3, <1>4 DEF ClosingStep, Goto
<1>5. ASSUME UNCHANGED pc, ExportReplyLost(r, u) PROVE ClosingStep(r, "exportItem")
  <2>1. pc' = [pc EXCEPT ![r] = "exportItem"]
    BY <1>5 DEF ExportReplyLost, TypeOK
  <2> QED
    BY <1>1, <1>3, <2>1 DEF ClosingStep
<1> QED
  BY <1>2, <1>4, <1>5

\* The other steps, the ones that end a request among them.
LEMMA OtherClosing ==
  ASSUME TypeOK, NEW r \in Requests,
         \/ CreateRun(r)
         \/ ExportCheck(r) \/ ExportLock(r) \/ ExportRead(r)
         \/ ExportDone(r) \/ ExportFail(r) \/ ExportRun(r) \/ SyncRunFailed(r)
         \/ ImportCheck(r) \/ ImportLock(r) \/ Fetch(r) \/ ImportDone(r)
         \/ FinishRun(r) \/ ImportFail(r) \/ ImportRunFailed(r) \/ SyncRunPartial(r)
         \/ Crash(r)
  PROVE  \E s : ClosingStep(r, s)
<1>1. ASSUME ThrowFromExport(r) \/ ThrowFromImport(r), UNCHANGED used,
             UNCHANGED run \/ \E x : run' = [run EXCEPT ![r] = x]
      PROVE  \E s : ClosingStep(r, s)
  <2>1. PICK s : Goto(r, s) /\ (s = "idle" => ctx[r].kind # "sync")
    BY <1>1 DEF ThrowFromExport, ThrowFromImport
  <2>2. used'.faults >= used.faults /\ used'.faults \in Nat
    BY <1>1 DEF TypeOK
  <2>3. \A q \in Requests \ {r} : run'[q] = run[q]
    BY <1>1 DEF TypeOK
  <2> QED
    BY <2>1, <2>2, <2>3 DEF ClosingStep, Goto
<1>2. ASSUME NEW stage, NEW x \in Closed, EndRun(r, stage, x), Goto(r, "idle")
      PROVE  ClosingStep(r, "idle")
  BY <1>2 DEF ClosingStep, EndRun, Goto, TypeOK
<1>3. CASE Crash(r)
  <2>1. used'.faults = used.faults + 1 /\ used.faults \in Nat
    BY <1>3 DEF Crash, TypeOK
  <2>2. used'.faults >= used.faults /\ used'.faults \in Nat /\ used'.faults # 0
    BY <2>1
  <2> QED
    BY <1>3, <2>2 DEF Crash, ClosingStep, Goto
<1>4. CASE ExportRun(r) \/ SyncRunFailed(r) \/ FinishRun(r) \/ SyncRunPartial(r)
  BY <1>2, <1>4 DEF ExportRun, SyncRunFailed, FinishRun, SyncRunPartial, Closed
<1>5. CASE ImportRunFailed(r)
  BY <1>1, <1>5 DEF ImportRunFailed, EndRun
<1>6. CASE CreateRun(r)
  <2>1. /\ UNCHANGED used
        /\ \E x : run' = [run EXCEPT ![r] = x]
        /\ \E s : s # "idle" /\ Goto(r, s)
    BY <1>6 DEF CreateRun
  <2> QED
    BY <2>1, GoesOn
<1>7. CASE ExportCheck(r) \/ ExportLock(r) \/ ExportRead(r) \/ ExportDone(r) \/ ExportFail(r)
  <2>1. UNCHANGED <<used, run>>
    BY <1>7 DEF ExportCheck, ExportLock, ExportRead, ExportDone, ExportFail
  <2>2. ThrowFromExport(r) \/ \E s : s # "idle" /\ Goto(r, s)
    BY <1>7 DEF ExportCheck, ExportLock, ExportRead, ExportDone, ExportFail, SetSyncing
  <2> QED
    BY <1>1, <2>1, <2>2, GoesOn
<1>8. CASE ImportCheck(r) \/ ImportLock(r) \/ Fetch(r) \/ ImportDone(r) \/ ImportFail(r)
  <2>1. UNCHANGED <<used, run>>
    BY <1>8 DEF ImportCheck, ImportLock, Fetch, ImportDone, ImportFail
  <2>2. ThrowFromImport(r) \/ \E s : s # "idle" /\ Goto(r, s)
    BY <1>8 DEF ImportCheck, ImportLock, Fetch, ImportDone, ImportFail, SetSyncing
  <2> QED
    BY <1>1, <2>1, <2>2, GoesOn
<1> QED
  BY <1>3, <1>4, <1>5, <1>6, <1>7, <1>8

(***************************************************************************)
(* The audit log of sync ends: without a crash every sync that is over has *)
(* closed its run, on each path that throws and however the requests, the  *)
(* edits and the links interleave.                                         *)
(***************************************************************************)
THEOREM SyncRunsAreClosed == Spec => []SyncRunsClosed
<1>1. Init => SyncRunsClosed
  BY DEF Init, SyncRunsClosed, NoContext
<1>2. ASSUME TypeOK, SyncRunsClosed, [Next]_vars PROVE SyncRunsClosed'
  <2>1. DataOK
    BY <1>2 DEF TypeOK, DataOK
  <2>2. CASE UNCHANGED vars
    BY <1>2, <2>2 DEF vars, SyncRunsClosed
  <2>3. CASE UserStep
    <3>1. /\ ctx' = [r \in Requests |-> [ctx[r] EXCEPT !.quiet = FALSE]]
          /\ UNCHANGED <<pc, run>> /\ used'.faults = used.faults
      BY <1>2, <2>3 DEF UserStep, AddTask, AddIssue, EditTask, EditIssue, Edit, TypeOK
    <3>2. \A r \in Requests : ctx'[r].kind = ctx[r].kind
      BY <1>2, <3>1 DEF TypeOK, Context
    <3> QED
      BY <1>2, <3>1, <3>2 DEF SyncRunsClosed
  <2>4. CASE (\E p \in LinearProjects : LinkProject(p)) \/ UnlinkProject
    BY <1>2, <2>4 DEF LinkProject, UnlinkProject, CountLink, SyncRunsClosed, TypeOK
  <2>5. ASSUME NEW r \in Requests, NEW kind \in Kinds, Begin(r, kind)
        PROVE  SyncRunsClosed'
    <3>1. /\ \E s : s # "idle" /\ pc' = [pc EXCEPT ![r] = s]
          /\ \E c : ctx' = [ctx EXCEPT ![r] = c]
          /\ \E x : run' = [run EXCEPT ![r] = x]
          /\ used'.faults = used.faults
      BY <1>2, <2>5 DEF Begin, Goto, TypeOK
    <3> QED
      BY <1>2, <3>1 DEF SyncRunsClosed, TypeOK
  <2>6. ASSUME NEW r \in Requests, TypedStep(r), \E s : ClosingStep(r, s)
        PROVE  SyncRunsClosed'
    BY <1>2, <2>6, ClosingStepKeeps DEF TypedStep
  <2> QED
    BY <1>2, <2>1, <2>2, <2>3, <2>4, <2>5, <2>6, UnitClosing, OtherClosing,
       ExportUnitTyped, ImportUnitTyped, OtherTyped
       DEF Next, RequestStep, ExportStep, ImportStep
<1> QED
  BY <1>1, <1>2, TypeCorrect, PTL DEF Spec

-----------------------------------------------------------------------------
(* Pairs that count as synchronised agree.                                 *)

\* Item i of items was read or written at the given time with that title and
\* one of these notes; it may have been written since, at a later time than
\* now was then.
Fresh(items, now, i, at, title, notes) ==
  /\ i \in DOMAIN items
  /\ at <= now
  /\ items[i].at >= at
  /\ items[i].at = at => items[i].title = title /\ items[i].note \in notes

\* The notes of an issue after an export of a task with this note: the mutation
\* leaves an empty note out.
Carrying(note) == IF note = 0 THEN Nat ELSE {note}

\* Link l joins two items and tells no lie about them.
Honest(T, I, now, l) ==
  /\ l.task \in DOMAIN T /\ l.issue \in DOMAIN I
  /\ l.local <= now /\ l.linear <= now
  /\ T[l.task].at <= l.local /\ I[l.issue].at <= l.linear
       => /\ T[l.task].title = I[l.issue].title
          /\ T[l.task].note \in {0, I[l.issue].note}

\* The stages of export and import that handle the units of ctx.work.
ExportLoop == {"exportItem", "exportLink"}
ImportLoop == {"importItem", "createTask", "linkTask", "writeTask", "writeLink"}

\* The loops take the newest task and the first issue.
NewestOf(W, u) == u \in W /\ \A v \in W : v.at <= u.at
FirstOf(W, u) == u \in W /\ \A v \in W : u.issue <= v.issue

\* The copies in the local variables c of a request at stage s are still what
\* was read, or are older than the item is by now.
ExportTrue(T, I, now, s, c) ==
  /\ s \in ExportLoop =>
       \A u \in c.work : /\ Fresh(T, now, u.task, u.at, u.title, {u.note})
                         /\ u.issue # 0 => u.issue \in DOMAIN I
                         /\ \A v \in c.work : v.at = u.at => v = u
  /\ s = "exportLink" =>
       \A u : NewestOf(c.work, u) =>
         Fresh(I, now, c.target, c.stamp, u.title, Carrying(u.note))

ImportTrue(T, I, now, s, c) ==
  /\ s \in ImportLoop =>
       \A u \in c.work : /\ Fresh(I, now, u.issue, u.at, u.title, {u.note})
                         /\ \A v \in c.work : v.issue = u.issue => v = u
  /\ s = "writeTask" => c.target \in DOMAIN T
  /\ s \in {"linkTask", "writeLink"} =>
       \A u : FirstOf(c.work, u) => Fresh(T, now, c.target, c.stamp, u.title, {u.note})

CopiesTrue(T, I, now, s, c) == ExportTrue(T, I, now, s, c) /\ ImportTrue(T, I, now, s, c)

\* No two tasks have the same time, none is dated in the future.
Dated(items, now) == \A i \in DOMAIN items : items[i].at <= now
Distinct(items) == \A i, j \in DOMAIN items : items[i].at = items[j].at => i = j

AgreeInv ==
  /\ Dated(tasks, clock) /\ Dated(issues, clock) /\ Distinct(tasks)
  /\ \A l \in links : Honest(tasks, issues, clock, l)
  /\ \A r \in Requests : CopiesTrue(tasks, issues, clock, pc[r], ctx[r])

\* A write does not make a copy untrue: it dates the item later than all copies.
LEMMA FreshStays ==
  ASSUME NEW old \in Seq(Item), NEW new, NEW now \in Nat, NEW later \in {now, now + 1},
         Wrote(old, new, now + 1), later = now => new = old,
         NEW i, NEW at \in Nat, NEW title, NEW notes, Fresh(old, now, i, at, title, notes)
  PROVE  Fresh(new, later, i, at, title, notes)
<1>1. i \in DOMAIN old /\ i \in DOMAIN new /\ old[i].at \in Nat
  BY WroteFacts, ItemFields DEF Fresh
<1>2. new[i] = old[i] \/ new[i].at = now + 1
  BY <1>1, WroteFacts
<1> QED
  BY <1>1, <1>2 DEF Fresh

\* The times stay in the past and, among the tasks, apart.
LEMMA DatesStay ==
  ASSUME NEW old \in Seq(Item), NEW new, NEW now \in Nat, NEW later \in {now, now + 1},
         Wrote(old, new, now + 1), later = now => new = old, Dated(old, now)
  PROVE  Dated(new, later) /\ (Distinct(old) => Distinct(new))
<1>1. CASE later = now
  BY <1>1
<1>2. CASE later = now + 1
  <2>1. \A i \in DOMAIN old : old[i].at \in Nat /\ old[i].at <= now
    BY ItemFields DEF Dated
  <2>2. Dated(new, later)
    BY <1>2, <2>1, WroteFacts DEF Dated
  <2>3. ASSUME Distinct(old) PROVE Distinct(new)
    <3> SUFFICES ASSUME NEW i \in DOMAIN new, NEW j \in DOMAIN new, i # j,
                        new[i].at = new[j].at
                 PROVE  FALSE
      BY DEF Distinct
    <3>1. \/ i \in DOMAIN old /\ new[i] = old[i]
          \/ j \in DOMAIN old /\ new[j] = old[j]
      BY WroteFacts
    <3>2. /\ (i \in DOMAIN old /\ new[i] = old[i]) \/ new[i].at = now + 1
          /\ (j \in DOMAIN old /\ new[j] = old[j]) \/ new[j].at = now + 1
      BY WroteFacts
    <3>3. ~(i \in DOMAIN old /\ new[i] = old[i] /\ j \in DOMAIN old /\ new[j] = old[j])
      BY <2>3 DEF Distinct
    <3> QED
      BY <2>1, <3>1, <3>2, <3>3
  <2> QED
    BY <2>2, <2>3
<1> QED
  BY <1>1, <1>2

\* Nor does it turn a link into a lie.
LEMMA LinksStayHonest ==
  ASSUME DataOK, DataStep, NEW l \in Link, Honest(tasks, issues, clock, l)
  PROVE  Honest(tasks', issues', clock', l)
<1>1. /\ l.local \in Nat /\ l.linear \in Nat /\ clock \in Nat
      /\ l.task \in DOMAIN tasks /\ l.issue \in DOMAIN issues
      /\ l.local <= clock /\ l.linear <= clock
  BY DEF Link, Honest, DataOK
<1>2. CASE clock' = clock
  BY <1>2 DEF DataStep
<1>3. CASE clock' = clock + 1
  <2>1. /\ l.task \in DOMAIN tasks' /\ l.issue \in DOMAIN issues'
        /\ tasks'[l.task] = tasks[l.task] \/ tasks'[l.task].at = clock + 1
        /\ issues'[l.issue] = issues[l.issue] \/ issues'[l.issue].at = clock + 1
    BY <1>1, WroteFacts DEF DataOK, DataStep
  <2> QED
    BY <1>1, <1>3, <2>1 DEF Honest
<1> QED
  BY <1>2, <1>3 DEF DataStep

\* Nor the copies of a request.
LEMMA CopiesStayTrue ==
  ASSUME DataOK, DataStep, NEW s, NEW c \in Context,
         CopiesTrue(tasks, issues, clock, s, c)
  PROVE  CopiesTrue(tasks', issues', clock', s, c)
<1>1. /\ c.work \subseteq Unit /\ c.stamp \in Nat /\ c.target \in Nat /\ clock \in Nat
      /\ \A u \in c.work : u.at \in Nat
  BY DEF DataOK, Context, Unit
<1>2. /\ tasks \in Seq(Item) /\ issues \in Seq(Item) /\ clock' \in {clock, clock + 1}
      /\ Wrote(tasks, tasks', clock + 1) /\ Wrote(issues, issues', clock + 1)
      /\ clock' = clock => tasks' = tasks /\ issues' = issues
  BY DEF DataOK, DataStep
<1>3. DOMAIN tasks \subseteq DOMAIN tasks' /\ DOMAIN issues \subseteq DOMAIN issues'
  BY <1>2, WroteFacts
<1>4. \A i, title, notes : \A at \in Nat : Fresh(tasks, clock, i, at, title, notes)
        => Fresh(tasks', clock', i, at, title, notes)
  BY <1>1, <1>2, FreshStays
<1>5. \A i, title, notes : \A at \in Nat : Fresh(issues, clock, i, at, title, notes)
        => Fresh(issues', clock', i, at, title, notes)
  BY <1>1, <1>2, FreshStays
<1>6. ExportTrue(tasks', issues', clock', s, c)
  BY <1>1, <1>3, <1>4, <1>5 DEF CopiesTrue, ExportTrue
<1>7. ImportTrue(tasks', issues', clock', s, c)
  BY <1>1, <1>3, <1>4, <1>5 DEF CopiesTrue, ImportTrue
<1> QED
  BY <1>6, <1>7 DEF CopiesTrue

\* Outside the loops there are no copies.
LEMMA NoCopies ==
  ASSUME NEW T, NEW I, NEW now, NEW s, s \notin ExportLoop \cup ImportLoop, NEW c
  PROVE  CopiesTrue(T, I, now, s, c)
BY DEF CopiesTrue, ExportTrue, ImportTrue, ExportLoop, ImportLoop

\* The next unit of a loop: its copies are among those of this one.
LEMMA FewerCopies ==
  ASSUME NEW T, NEW I, NEW now, NEW s, NEW c, NEW d, d.work \subseteq c.work,
         CopiesTrue(T, I, now, s, c)
  PROVE  /\ s \in ExportLoop => CopiesTrue(T, I, now, "exportItem", d)
         /\ s \in ImportLoop => CopiesTrue(T, I, now, "importItem", d)
BY DEF CopiesTrue, ExportTrue, ImportTrue, ExportLoop, ImportLoop

-----------------------------------------------------------------------------
(* Steps that keep the agreement.                                          *)

\* A step of request r to stage s whose new link, if any, is honest and whose
\* copies are true.
AgreeStep(r, s) ==
  /\ pc' = [pc EXCEPT ![r] = s]
  /\ \A l \in links' : l \in links \/ Honest(tasks', issues', clock', l)
  /\ CopiesTrue(tasks', issues', clock', s, ctx'[r])

\* Such a step keeps the invariant.
LEMMA AgreeStepKeeps ==
  ASSUME TypeOK, AgreeInv, NEW r \in Requests, NEW s, AgreeStep(r, s), TypedStep(r)
  PROVE  AgreeInv'
<1>1. DataOK /\ DataStep
  BY DEF TypeOK, DataOK, TypedStep
<1>2. Dated(tasks', clock') /\ Dated(issues', clock') /\ Distinct(tasks')
  BY <1>1, DatesStay DEF AgreeInv, DataOK, DataStep
<1>3. \A l \in links' : Honest(tasks', issues', clock', l)
  BY <1>1, LinksStayHonest DEF AgreeStep, AgreeInv, DataOK
<1>4. ASSUME NEW q \in Requests
      PROVE  CopiesTrue(tasks', issues', clock', pc'[q], ctx'[q])
  <2>1. CASE q = r
    <3>1. pc'[r] = s
      BY DEF AgreeStep, TypeOK
    <3> QED
      BY <2>1, <3>1 DEF AgreeStep
  <2>2. CASE q # r
    <3>1. pc'[q] = pc[q] /\ ctx'[q] = ctx[q] /\ ctx[q] \in Context
      BY <2>2 DEF AgreeStep, TypedStep, ContextStep, TypeOK
    <3>2. CopiesTrue(tasks', issues', clock', pc[q], ctx[q])
      BY <1>1, <3>1, CopiesStayTrue DEF AgreeInv
    <3> QED
      BY <3>1, <3>2
  <2> QED
    BY <2>1, <2>2
<1> QED
  BY <1>2, <1>3, <1>4 DEF AgreeInv

\* A step that writes no link and ends outside the loops is of that form.
LEMMA PlainStep ==
  ASSUME NEW r \in Requests, NEW s, Goto(r, s), s \notin ExportLoop \cup ImportLoop,
         links' \subseteq links
  PROVE  AgreeStep(r, s)
BY NoCopies DEF AgreeStep, Goto

\* So is the end of a unit that writes no link.
LEMMA UnitEnds ==
  ASSUME TypeOK, AgreeInv, NEW r \in Requests, NEW u, DataStep,
         \A l \in links' : l \in links \/ Honest(tasks', issues', clock', l),
         \/ pc[r] \in ExportLoop /\ \E c \in Context : c.work = ctx[r].work /\ NextUnit(r, u, c)
         \/ pc[r] \in ImportLoop /\ \E c \in Context : c.work = ctx[r].work /\ NextIssue(r, u, c)
  PROVE  \E s : AgreeStep(r, s)
<1>1. DataOK /\ ctx[r] \in Context
  BY DEF TypeOK, DataOK
<1>2. CopiesTrue(tasks', issues', clock', pc[r], ctx[r])
  BY <1>1, CopiesStayTrue DEF AgreeInv
<1>3. ASSUME NEW c \in Context, c.work = ctx[r].work, NextUnit(r, u, c), pc[r] \in ExportLoop
      PROVE  \E s : AgreeStep(r, s)
  <2>1. ctx'[r] = [c EXCEPT !.work = c.work \ {u}]
    BY <1>3 DEF NextUnit, TypeOK
  <2>2. ctx'[r].work \subseteq ctx[r].work
    BY <1>3, <2>1 DEF Context
  <2>3. CopiesTrue(tasks', issues', clock', "exportItem", ctx'[r])
    BY <1>2, <1>3, <2>2, FewerCopies
  <2>4. CopiesTrue(tasks', issues', clock', "exportDone", ctx'[r])
    BY NoCopies DEF ExportLoop, ImportLoop
  <2> QED
    BY <1>3, <2>3, <2>4 DEF NextUnit, Goto, AgreeStep
<1>4. ASSUME NEW c \in Context, c.work = ctx[r].work, NextIssue(r, u, c), pc[r] \in ImportLoop
      PROVE  \E s : AgreeStep(r, s)
  <2>1. ctx'[r] = [c EXCEPT !.work = c.work \ {u}, !.after = u.issue]
    BY <1>4 DEF NextIssue, TypeOK
  <2>2. ctx'[r].work \subseteq ctx[r].work
    BY <1>4, <2>1 DEF Context
  <2>3. CopiesTrue(tasks', issues', clock', "importItem", ctx'[r])
    BY <1>2, <1>4, <2>2, FewerCopies
  <2>4. /\ CopiesTrue(tasks', issues', clock', "fetch", ctx'[r])
        /\ CopiesTrue(tasks', issues', clock', "importDone", ctx'[r])
    BY NoCopies DEF ExportLoop, ImportLoop
  <2>5. Goto(r, "importItem") \/ Goto(r, "fetch") \/ Goto(r, "importDone")
    BY <1>4 DEF NextIssue
  <2> QED
    BY <2>3, <2>4, <2>5 DEF Goto, AgreeStep
<1> QED
  BY <1>3, <1>4

\* A unit that fails.
LEMMA UnitFails ==
  ASSUME TypeOK, AgreeInv, NEW r \in Requests, NEW u, DataStep, links' = links,
         \/ pc[r] \in ExportLoop /\ ExportUnitFails(r, u)
         \/ pc[r] \in ImportLoop /\ ImportUnitFails(r, u)
  PROVE  \E s : AgreeStep(r, s)
<1>1. /\ ctx[r] \in Context
      /\ [ctx[r] EXCEPT !.exportFailures = TRUE] \in Context
      /\ [ctx[r] EXCEPT !.failures = TRUE] \in Context
  BY ContextUpdates DEF TypeOK
<1>2. /\ [ctx[r] EXCEPT !.exportFailures = TRUE].work = ctx[r].work
      /\ [ctx[r] EXCEPT !.failures = TRUE].work = ctx[r].work
  BY <1>1 DEF Context
<1>3. CASE pc[r] \in ImportLoop /\ ImportUnitFails(r, u)
  BY <1>1, <1>2, <1>3, UnitEnds DEF ImportUnitFails
<1>4. CASE pc[r] \in ExportLoop /\ NextUnit(r, u, [ctx[r] EXCEPT !.exportFailures = TRUE])
  BY <1>1, <1>2, <1>4, UnitEnds
<1>5. CASE Goto(r, "exportFail")
  BY <1>5, PlainStep DEF ExportLoop, ImportLoop
<1> QED
  BY <1>3, <1>4, <1>5 DEF ExportUnitFails

\* The end of a unit that saves a link.
LEMMA LinkSaved ==
  ASSUME TypeOK, AgreeInv, NEW r \in Requests, NEW u, DataStep, NEW l,
         SaveLink(l), Honest(tasks', issues', clock', l),
         \/ pc[r] \in ExportLoop /\ \E c \in Context : c.work = ctx[r].work /\ NextUnit(r, u, c)
         \/ pc[r] \in ImportLoop /\ \E c \in Context : c.work = ctx[r].work /\ NextIssue(r, u, c)
  PROVE  \E s : AgreeStep(r, s)
<1>1. \A k \in links' : k \in links \/ Honest(tasks', issues', clock', k)
  BY DEF SaveLink
<1> QED
  BY <1>1, UnitEnds

\* Reading the batch of an export.
LEMMA ExportReadAgrees ==
  ASSUME TypeOK, AgreeInv, NEW r \in Requests, ExportRead(r)
  PROVE  \E s : AgreeStep(r, s)
<1>1. UNCHANGED <<tasks, issues, links, clock>>
  BY DEF ExportRead, dataVars
<1>2. CASE Goto(r, "exportFail") \/ Goto(r, "exportDone")
  BY <1>1, <1>2, PlainStep DEF ExportLoop, ImportLoop
<1>3. CASE /\ ctx' = [ctx EXCEPT ![r].work = { ExportUnit(t) : t \in DirtyBatch }]
           /\ Goto(r, "exportItem")
  <2> DEFINE W == { ExportUnit(t) : t \in DirtyBatch }
  <2>1. ctx'[r].work = W
    <3>1. ctx[r] \in Context /\ ctx'[r] = [ctx[r] EXCEPT !.work = W]
      BY <1>3 DEF TypeOK
    <3> HIDE DEF W
    <3> QED
      BY <3>1 DEF Context
  <2>2. \A t \in DirtyBatch : /\ ExportUnit(t).task = t /\ ExportUnit(t).title = tasks[t].title
                              /\ ExportUnit(t).note = tasks[t].note
                              /\ ExportUnit(t).at = tasks[t].at
                              /\ ExportUnit(t).issue # 0 => ExportUnit(t).issue \in DOMAIN issues
    <3> SUFFICES ASSUME NEW t \in DirtyBatch
                 PROVE  /\ ExportUnit(t).task = t /\ ExportUnit(t).title = tasks[t].title
                        /\ ExportUnit(t).note = tasks[t].note
                        /\ ExportUnit(t).at = tasks[t].at
                        /\ ExportUnit(t).issue # 0 => ExportUnit(t).issue \in DOMAIN issues
      OBVIOUS
    <3>1. \A l \in LinkOf(t) : l.issue \in DOMAIN issues
      BY DEF LinkOf, AgreeInv, Honest
    <3>2. LinkOf(t) # {} => (CHOOSE l \in LinkOf(t) : TRUE) \in LinkOf(t)
      OBVIOUS
    <3> QED
      BY <3>1, <3>2 DEF ExportUnit
  <2>3. DirtyBatch \subseteq DOMAIN tasks
    BY DEF DirtyBatch, Latest
  <2>4. \A t \in DOMAIN tasks : tasks[t].at \in Nat /\ tasks[t].at <= clock
    BY ItemFields DEF TypeOK, AgreeInv, Dated
  <2>5. \A t \in DirtyBatch : 
          Fresh(tasks, clock, t, tasks[t].at, tasks[t].title, {tasks[t].note})
    BY <2>3, <2>4 DEF Fresh
  <2>6. \A u, v \in W : v.at = u.at => v = u
    <3> SUFFICES ASSUME NEW t \in DirtyBatch, NEW s \in DirtyBatch,
                        ExportUnit(t).at = ExportUnit(s).at
                 PROVE  t = s
      OBVIOUS
    <3> QED
      BY <2>2, <2>3 DEF AgreeInv, Distinct
  <2>7. ExportTrue(tasks, issues, clock, "exportItem", ctx'[r])
    <3>1. \A u \in W :
            /\ Fresh(tasks, clock, u.task, u.at, u.title, {u.note})
            /\ u.issue # 0 => u.issue \in DOMAIN issues
      <4> SUFFICES ASSUME NEW t \in DirtyBatch, NEW u, u = ExportUnit(t)
                   PROVE  /\ Fresh(tasks, clock, u.task, u.at, u.title, {u.note})
                          /\ u.issue # 0 => u.issue \in DOMAIN issues
        OBVIOUS
      <4>1. /\ u.task = t /\ u.title = tasks[t].title /\ u.note = tasks[t].note
            /\ u.at = tasks[t].at
            /\ u.issue # 0 => u.issue \in DOMAIN issues
        BY <2>2
      <4> QED
        BY <2>5, <4>1
    <3>2. \A u, v \in W : v.at = u.at => v = u
      BY <2>6
    <3> HIDE DEF W
    <3>3. \A u \in ctx'[r].work :
            /\ Fresh(tasks, clock, u.task, u.at, u.title, {u.note})
            /\ u.issue # 0 => u.issue \in DOMAIN issues
            /\ \A v \in ctx'[r].work : v.at = u.at => v = u
      BY <2>1, <3>1, <3>2
    <3> QED
      BY <3>3, "exportItem" # "exportLink" DEF ExportTrue
  <2>8. ImportTrue(tasks, issues, clock, "exportItem", ctx'[r])
    BY DEF ImportTrue, ImportLoop
  <2> QED
    BY <1>1, <1>3, <2>7, <2>8 DEF AgreeStep, CopiesTrue, Goto
<1> QED
  BY <1>2, <1>3 DEF ExportRead

\* Fetching a page of an import.
LEMMA FetchAgrees ==
  ASSUME TypeOK, AgreeInv, NEW r \in Requests, Fetch(r)
  PROVE  \E s : AgreeStep(r, s)
<1>1. UNCHANGED <<tasks, issues, links, clock>>
  BY DEF Fetch, dataVars
<1>2. CASE Goto(r, "importFail") \/ Goto(r, "importDone")
  BY <1>1, <1>2, PlainStep DEF ExportLoop, ImportLoop
<1>3. CASE /\ ctx' = [ctx EXCEPT ![r].work = { ImportUnit(i) : i \in Page(r) },
                                 ![r].more = Page(r) # Rest(r)]
           /\ Goto(r, "importItem")
  <2> DEFINE W == { ImportUnit(i) : i \in Page(r) }
  <2> DEFINE b == Page(r) # Rest(r)
  <2>1. ctx'[r].work = W
    <3>1. ctx[r] \in Context /\ ctx'[r] = [ctx[r] EXCEPT !.work = W, !.more = b]
      BY <1>3 DEF TypeOK
    <3> HIDE DEF W, b
    <3> QED
      BY <3>1 DEF Context
  <2>2. \A i \in Page(r) : i \in DOMAIN issues /\ issues[i].at \in Nat /\ issues[i].at <= clock
    BY ItemFields DEF Page, Rest, TypeOK, AgreeInv, Dated
  <2>3. \A i \in Page(r) : 
          Fresh(issues, clock, i, issues[i].at, issues[i].title, {issues[i].note})
    BY <2>2 DEF Fresh
  <2>4. \A u \in W : Fresh(issues, clock, u.issue, u.at, u.title, {u.note})
    BY <2>3 DEF ImportUnit
  <2>5. \A u, v \in W : v.issue = u.issue => v = u
    BY DEF ImportUnit
  <2>6. ImportTrue(tasks, issues, clock, "importItem", ctx'[r])
    <3> HIDE DEF W
    <3> QED
      BY <2>1, <2>4, <2>5 DEF ImportTrue
  <2>7. ExportTrue(tasks, issues, clock, "importItem", ctx'[r])
    BY DEF ExportTrue, ExportLoop
  <2> QED
    BY <1>1, <1>3, <2>6, <2>7 DEF AgreeStep, CopiesTrue, Goto
<1> QED
  BY <1>2, <1>3 DEF Fetch

\* Writing an issue gives it the title of the unit, at the time noted, and its
\* note unless that is empty.
LEMMA WrittenIssue ==
  ASSUME TypeOK, AgreeInv, NEW r \in Requests, NEW u \in Unit, WriteIssue(r, u),
         u.issue # 0 => u.issue \in DOMAIN issues
  PROVE  Fresh(issues', clock', IF u.issue = 0 THEN Len(issues) + 1 ELSE u.issue,
               clock + 1, u.title, Carrying(u.note))
<1>1. DataOK /\ u.note \in Nat
  BY DEF TypeOK, DataOK, Unit
<1>2. clock' = clock + 1 /\ clock \in Nat
  BY <1>1, IssueWritten
<1>3. CASE u.issue = 0
  <2>1. /\ issues' = Append(issues, Created(r, u)) /\ Len(issues) \in Nat
        /\ Created(r, u) \in Item /\ issues' \in Seq(Item)
    <3>1. issues' = Append(issues, Created(r, u)) /\ Created(r, u) \in Item
      BY <1>1, <1>3, IssueWritten
    <3>2. issues \in Seq(Item)
      BY DEF TypeOK
    <3> QED
      BY <3>1, <3>2, ItemFields, AppendProperties
  <2>2. Len(issues') = Len(issues) + 1 /\ issues'[Len(issues) + 1] = Created(r, u)
    BY <2>1, AppendProperties DEF TypeOK
  <2>3. DOMAIN issues' = 1 .. (Len(issues) + 1)
    BY <2>1, <2>2, LenProperties
  <2>4. Len(issues) + 1 \in DOMAIN issues'
    BY <2>1, <2>3
  <2>5. /\ Created(r, u).at = clock + 1 /\ Created(r, u).title = u.title
        /\ Created(r, u).note \in Carrying(u.note)
    BY <1>1, IssueWritten DEF Carrying
  <2> QED
    BY <1>2, <1>3, <2>2, <2>4, <2>5 DEF Fresh
<1>4. CASE u.issue # 0
  <2>1. u.issue \in DOMAIN issues /\ issues[u.issue].note \in Nat
    BY <1>4, ItemFields DEF TypeOK
  <2>2. issues' = [issues EXCEPT ![u.issue] = Rewritten(u)]
    BY <1>1, <1>4, IssueWritten
  <2>3. u.issue \in DOMAIN issues' /\ issues'[u.issue] = Rewritten(u)
    BY <2>1, <2>2
  <2>4. /\ Rewritten(u).at = clock + 1 /\ Rewritten(u).title = u.title
        /\ Rewritten(u).note = Sent(u)
    BY <1>1, <2>1, IssueWritten
  <2>5. Sent(u) \in Carrying(u.note)
    BY <2>1 DEF Sent, Carrying
  <2> QED
    BY <1>2, <1>4, <2>3, <2>4, <2>5 DEF Fresh
<1> QED
  BY <1>3, <1>4

\* The steps of an export that handle a unit.
LEMMA ExportUnitAgrees ==
  ASSUME TypeOK, AgreeInv, NEW r \in Requests, NEW u \in ctx[r].work,
         \/ Current(r, u) /\ (ExportItem(r, u) \/ ExportLink(r, u) \/ ExportReplyLost(r, u))
         \/ QueryFails(r, u)
  PROVE  \E s : AgreeStep(r, s)
<1>1. ctx[r] \in Context /\ u \in Unit /\ DataOK
  BY DEF TypeOK, DataOK, Context
<1>2. DataStep
  BY <1>1, ExportUnitTyped DEF TypedStep
<1>3. CopiesTrue(tasks, issues, clock, pc[r], ctx[r])
  BY DEF AgreeInv
<1>4. CopiesTrue(tasks', issues', clock', pc[r], ctx[r])
  BY <1>1, <1>2, <1>3, CopiesStayTrue
<1>5. CASE QueryFails(r, u)
  BY <1>2, <1>5, UnitFails DEF QueryFails, dataVars, ExportLoop, ImportLoop
<1>6. CASE Current(r, u) /\ ExportReplyLost(r, u)
  <2>1. pc[r] = "exportItem" /\ links' = links
    BY <1>6 DEF ExportReplyLost, WriteIssue
  <2>2. CASE UNCHANGED <<pc, ctx>>
    <3>1. pc' = [pc EXCEPT ![r] = pc[r]]
      BY <2>2 DEF TypeOK
    <3> QED
      BY <1>4, <2>1, <2>2, <3>1 DEF AgreeStep
  <2>3. CASE ExportUnitFails(r, u)
    BY <1>2, <2>1, <2>3, UnitFails DEF ExportLoop
  <2> QED
    BY <1>6, <2>2, <2>3 DEF ExportReplyLost
<1>7. CASE Current(r, u) /\ ExportItem(r, u)
  <2>1. pc[r] = "exportItem" /\ links' = links
    BY <1>7 DEF ExportItem, WriteIssue, ExportUnitFails, dataVars
  <2>2. CASE ExportUnitFails(r, u)
    BY <1>2, <2>1, <2>2, UnitFails DEF ExportLoop
  <2>3. CASE /\ WriteIssue(r, u)
             /\ ctx' = [ctx EXCEPT ![r].stamp = clock + 1,
                                   ![r].target = IF u.issue = 0 THEN Len(issues) + 1
                                                 ELSE u.issue]
             /\ Goto(r, "exportLink")
    <3> DEFINE k == IF u.issue = 0 THEN Len(issues) + 1 ELSE u.issue
    <3>1. u.issue # 0 => u.issue \in DOMAIN issues
      BY <1>3, <2>1 DEF CopiesTrue, ExportTrue, ExportLoop
    <3>2. Fresh(issues', clock', k, clock + 1, u.title, Carrying(u.note))
      BY <1>1, <2>3, <3>1, WrittenIssue
    <3>3. ctx'[r] = [ctx[r] EXCEPT !.stamp = clock + 1, !.target = k]
      BY <2>3 DEF TypeOK
    <3> HIDE DEF k
    <3>4. ctx'[r].stamp = clock + 1 /\ ctx'[r].target = k /\ ctx'[r].work = ctx[r].work
      BY <1>1, <3>3 DEF Context
    <3>5. \A v : NewestOf(ctx[r].work, v) => v = u
      <4> SUFFICES ASSUME NEW v \in ctx[r].work, \A w \in ctx[r].work : w.at <= v.at
                   PROVE  v = u
        BY DEF NewestOf
      <4>1. v.at \in Nat /\ u.at \in Nat
        BY <1>1 DEF Context, Unit
      <4>2. v.at = u.at
        BY <1>7, <4>1 DEF Current
      <4> QED
        BY <1>3, <2>1, <4>2 DEF CopiesTrue, ExportTrue, ExportLoop
    <3>6. ExportTrue(tasks', issues', clock', "exportLink", ctx'[r])
      BY <1>4, <2>1, <3>2, <3>4, <3>5 DEF CopiesTrue, ExportTrue, ExportLoop
    <3>7. ImportTrue(tasks', issues', clock', "exportLink", ctx'[r])
      BY DEF ImportTrue, ImportLoop
    <3> QED
      BY <2>1, <2>3, <3>6, <3>7 DEF AgreeStep, CopiesTrue, Goto
  <2> QED
    BY <1>7, <2>2, <2>3 DEF ExportItem
<1>8. CASE Current(r, u) /\ ExportLink(r, u)
  <2> DEFINE l == [task |-> u.task, issue |-> ctx[r].target, local |-> u.at,
                   linear |-> ctx[r].stamp]
  <2>1. pc[r] = "exportLink" /\ UNCHANGED <<tasks, issues, clock>>
    BY <1>8 DEF ExportLink, LinkExported
  <2>2. /\ Fresh(tasks', clock', u.task, u.at, u.title, {u.note})
        /\ Fresh(issues', clock', ctx[r].target, ctx[r].stamp, u.title, Carrying(u.note))
    BY <1>4, <1>8, <2>1 DEF CopiesTrue, ExportTrue, ExportLoop, Current, NewestOf
  <2>3. /\ u.at \in Nat /\ ctx[r].stamp \in Nat
        /\ u.task \in DOMAIN tasks' => tasks'[u.task].at \in Nat
        /\ ctx[r].target \in DOMAIN issues' => issues'[ctx[r].target].at \in Nat
    BY <1>1, <2>1, ItemFields DEF Context, Unit, TypeOK
  <2>4. Honest(tasks', issues', clock', l)
    BY <2>2, <2>3 DEF Honest, Fresh, Carrying
  <2>5. CASE SaveLink(l) /\ NextUnit(r, u, [ctx[r] EXCEPT !.skip = @ \cup {l.issue}])
    <3>1. l.issue = ctx[r].target /\ ctx[r].target \in Nat /\ ctx[r].skip \subseteq Nat
      BY <1>1 DEF Context
    <3>2. ctx[r].skip \cup {l.issue} \in SUBSET Nat
      BY <3>1
    <3>3. NextUnit(r, u, [ctx[r] EXCEPT !.skip = ctx[r].skip \cup {l.issue}])
      BY <2>5
    <3> HIDE DEF l
    <3>4. [ctx[r] EXCEPT !.skip = ctx[r].skip \cup {l.issue}] \in Context
      BY <1>1, <3>2, ContextUpdates
    <3>5. [ctx[r] EXCEPT !.skip = ctx[r].skip \cup {l.issue}].work = ctx[r].work
      BY <1>1 DEF Context
    <3>6. pc[r] \in ExportLoop
      BY <2>1 DEF ExportLoop
    <3>7. \E c \in Context : c.work = ctx[r].work /\ NextUnit(r, u, c)
      BY <3>3, <3>4, <3>5
    <3> QED
      BY <1>2, <2>4, <2>5, <3>6, <3>7, LinkSaved
  <2>6. CASE ExportUnitFails(r, u) /\ UNCHANGED links
    BY <1>2, <2>1, <2>6, UnitFails DEF ExportLoop
  <2> QED
    BY <1>8, <2>5, <2>6 DEF ExportLink, LinkExported
<1> QED
  BY <1>5, <1>6, <1>7, <1>8

\* An issue becomes a new task.
LEMMA CreateTaskAgrees ==
  ASSUME TypeOK, AgreeInv, NEW r \in Requests, NEW u, First(r, u), CreateTask(r, u)
  PROVE  AgreeStep(r, "linkTask")
<1> DEFINE n == NewTask(u)
<1>1. ctx[r] \in Context /\ u \in Unit /\ DataOK /\ pc[r] = "createTask" /\ links' = links
  BY DEF TypeOK, DataOK, Context, First, CreateTask
<1>2. DataStep
  BY <1>1, ImportWrites
<1>3. CopiesTrue(tasks', issues', clock', pc[r], ctx[r])
  BY <1>1, <1>2, CopiesStayTrue DEF AgreeInv
<1>4. tasks' = Append(tasks, n) /\ clock' = clock + 1 /\ clock \in Nat
  BY <1>1, TaskWritten
<1>5. n \in Item /\ n.at = clock + 1 /\ n.title = u.title /\ n.note = u.note
  BY <1>1, TaskWritten
<1> HIDE DEF n
<1>6. Len(tasks) \in Nat /\ tasks' \in Seq(Item)
  BY <1>4, <1>5, ItemFields, AppendProperties DEF TypeOK
<1>7. Len(tasks') = Len(tasks) + 1 /\ tasks'[Len(tasks) + 1] = n
  BY <1>4, <1>5, AppendProperties DEF TypeOK
<1>8. Len(tasks) + 1 \in DOMAIN tasks'
  BY <1>6, <1>7, LenProperties
<1>9. Fresh(tasks', clock', Len(tasks) + 1, clock + 1, u.title, {u.note})
  BY <1>4, <1>5, <1>7, <1>8 DEF Fresh
<1>10. /\ ctx'[r].target = Len(tasks) + 1 /\ ctx'[r].stamp = clock + 1
       /\ ctx'[r].work = ctx[r].work
  <2>1. ctx'[r] = [ctx[r] EXCEPT !.target = Len(tasks) + 1, !.stamp = clock + 1]
    BY DEF CreateTask, TypeOK
  <2> QED
    BY <1>1, <2>1 DEF Context
<1>11. \A v : FirstOf(ctx[r].work, v) => v = u
  <2> SUFFICES ASSUME NEW v \in ctx[r].work, \A w \in ctx[r].work : v.issue <= w.issue
               PROVE  v = u
    BY DEF FirstOf
  <2>1. v.issue \in Nat /\ u.issue \in Nat
    BY <1>1 DEF Context, Unit
  <2>2. v.issue = u.issue
    BY <2>1 DEF First
  <2> QED
    BY <1>1, <1>3, <2>2 DEF CopiesTrue, ImportTrue, ImportLoop, First
<1>12. ImportTrue(tasks', issues', clock', "linkTask", ctx'[r])
  BY <1>1, <1>3, <1>9, <1>10, <1>11 DEF CopiesTrue, ImportTrue, ImportLoop
<1>13. ExportTrue(tasks', issues', clock', "linkTask", ctx'[r])
  BY DEF ExportTrue, ExportLoop
<1> QED
  BY <1>1, <1>12, <1>13 DEF AgreeStep, CopiesTrue, CreateTask, Goto

\* An issue overwrites its task.
LEMMA WriteTaskAgrees ==
  ASSUME TypeOK, AgreeInv, NEW r \in Requests, NEW u, First(r, u), WriteTask(r, u)
  PROVE  AgreeStep(r, "writeLink")
<1> DEFINE k == ctx[r].target
<1> DEFINE x == Overwritten(k, u)
<1>1. ctx[r] \in Context /\ u \in Unit /\ DataOK /\ pc[r] = "writeTask" /\ links' = links
  BY DEF TypeOK, DataOK, Context, First, WriteTask
<1>2. DataStep
  BY <1>1, ImportWrites
<1>3. CopiesTrue(tasks', issues', clock', pc[r], ctx[r])
  BY <1>1, <1>2, CopiesStayTrue DEF AgreeInv
<1>4. tasks' = [tasks EXCEPT ![k] = x] /\ clock' = clock + 1 /\ clock \in Nat
  BY <1>1, TaskWritten
<1>6. k \in DOMAIN tasks /\ k \in 1 .. Len(tasks)
  <2>1. CopiesTrue(tasks, issues, clock, pc[r], ctx[r])
    BY DEF AgreeInv
  <2> QED
    BY <1>1, <2>1, LenProperties DEF CopiesTrue, ImportTrue, TypeOK
<1>5. x.at = clock + 1 /\ x.title = u.title /\ x.note = u.note
  BY <1>1, <1>6, TaskWritten
<1> HIDE DEF k, x
<1>7. k \in DOMAIN tasks' /\ tasks'[k] = x
  BY <1>4, <1>6
<1>8. Fresh(tasks', clock', k, clock + 1, u.title, {u.note})
  BY <1>4, <1>5, <1>7 DEF Fresh
<1>9. ctx'[r].target = k /\ ctx'[r].stamp = clock + 1 /\ ctx'[r].work = ctx[r].work
  <2>1. ctx'[r] = [ctx[r] EXCEPT !.stamp = clock + 1]
    BY DEF WriteTask, TypeOK
  <2> QED
    BY <1>1, <2>1 DEF Context, k
<1>10. \A v : FirstOf(ctx[r].work, v) => v = u
  <2> SUFFICES ASSUME NEW v \in ctx[r].work, \A w \in ctx[r].work : v.issue <= w.issue
               PROVE  v = u
    BY DEF FirstOf
  <2>1. v.issue \in Nat /\ u.issue \in Nat
    BY <1>1 DEF Context, Unit
  <2>2. v.issue = u.issue
    BY <2>1 DEF First
  <2> QED
    BY <1>1, <1>3, <2>2 DEF CopiesTrue, ImportTrue, ImportLoop, First
<1>11. ImportTrue(tasks', issues', clock', "writeLink", ctx'[r])
  BY <1>1, <1>3, <1>8, <1>9, <1>10 DEF CopiesTrue, ImportTrue, ImportLoop
<1>12. ExportTrue(tasks', issues', clock', "writeLink", ctx'[r])
  BY DEF ExportTrue, ExportLoop
<1> QED
  BY <1>1, <1>11, <1>12 DEF AgreeStep, CopiesTrue, WriteTask, Goto

\* The steps of an import that handle an issue.
LEMMA ImportUnitAgrees ==
  ASSUME TypeOK, AgreeInv, NEW r \in Requests, NEW u, First(r, u),
         \/ ImportItem(r, u) \/ CreateTask(r, u) \/ WriteTask(r, u)
         \/ SaveImportedLink(r, u)
  PROVE  \E s : AgreeStep(r, s)
<1>1. ctx[r] \in Context /\ u \in Unit /\ u \in ctx[r].work /\ DataOK
  BY DEF TypeOK, DataOK, Context, First
<1>2. DataStep
  BY <1>1, ImportUnitTyped DEF TypedStep
<1>3. CopiesTrue(tasks', issues', clock', pc[r], ctx[r])
  BY <1>1, <1>2, CopiesStayTrue DEF AgreeInv
<1>4. Seen(r, u) \in Context /\ Seen(r, u).work = ctx[r].work
  <2> DEFINE n == IF u.at > ctx[r].seen THEN u.at ELSE ctx[r].seen
  <2>1. n \in Nat
    BY <1>1 DEF Unit, Context
  <2> HIDE DEF n
  <2>2. [ctx[r] EXCEPT !.seen = n] \in Context
    BY <1>1, <2>1, ContextUpdates
  <2>3. [ctx[r] EXCEPT !.seen = n].work = ctx[r].work
    BY <1>1 DEF Context
  <2> QED
    BY <2>2, <2>3 DEF Seen, n
<1>5. CASE ImportItem(r, u)
  <2>1. pc[r] = "importItem" /\ UNCHANGED <<tasks, issues, links, clock>>
    BY <1>5 DEF ImportItem, dataVars
  <2>2. CASE NextIssue(r, u, Seen(r, u))
    BY <1>2, <1>4, <2>1, <2>2, UnitEnds DEF ImportLoop
  <2>3. CASE Goto(r, "createTask") /\ UNCHANGED ctx
    <3>1. CopiesTrue(tasks', issues', clock', "createTask", ctx'[r])
      BY <1>3, <2>1, <2>3 DEF CopiesTrue, ImportTrue, ExportTrue, ImportLoop, ExportLoop
    <3> QED
      BY <2>1, <2>3, <3>1 DEF AgreeStep, Goto
  <2>4. ASSUME NEW l \in LinksTo(u.issue), ctx' = [ctx EXCEPT ![r].target = l.task],
               Goto(r, "writeTask")
        PROVE  \E s : AgreeStep(r, s)
    <3>1. l.task \in DOMAIN tasks
      BY DEF LinksTo, AgreeInv, Honest
    <3>2. ctx'[r].work = ctx[r].work /\ ctx'[r].target = l.task
      <4>1. ctx'[r] = [ctx[r] EXCEPT !.target = l.task]
        BY <2>4 DEF TypeOK
      <4> QED
        BY <1>1, <4>1 DEF Context
    <3>3. CopiesTrue(tasks', issues', clock', "writeTask", ctx'[r])
      BY <1>3, <2>1, <3>1, <3>2 DEF CopiesTrue, ImportTrue, ExportTrue, ImportLoop, ExportLoop
    <3> QED
      BY <2>1, <2>4, <3>3 DEF AgreeStep, Goto
  <2> QED
    BY <1>5, <2>2, <2>3, <2>4 DEF ImportItem
<1>6. CASE CreateTask(r, u)
  BY <1>6, CreateTaskAgrees
<1>7. CASE WriteTask(r, u)
  BY <1>7, WriteTaskAgrees
<1>8. CASE SaveImportedLink(r, u)
  <2> DEFINE l == [task |-> ctx[r].target, issue |-> u.issue, local |-> ctx[r].stamp,
                   linear |-> u.at]
  <2>1. pc[r] \in {"linkTask", "writeLink"} /\ UNCHANGED <<tasks, issues, clock>>
    BY <1>8 DEF SaveImportedLink, LinkImported
  <2>2. /\ Fresh(tasks', clock', ctx[r].target, ctx[r].stamp, u.title, {u.note})
        /\ Fresh(issues', clock', u.issue, u.at, u.title, {u.note})
    BY <1>1, <1>3, <2>1 DEF CopiesTrue, ImportTrue, ImportLoop, First, FirstOf
  <2>3. /\ u.at \in Nat /\ ctx[r].stamp \in Nat
        /\ u.issue \in DOMAIN issues' => issues'[u.issue].at \in Nat
        /\ ctx[r].target \in DOMAIN tasks' => tasks'[ctx[r].target].at \in Nat
    BY <1>1, <2>1, ItemFields DEF Context, Unit, TypeOK
  <2>4. Honest(tasks', issues', clock', l)
    BY <2>2, <2>3 DEF Honest, Fresh
  <2>5. pc[r] \in ImportLoop
    BY <2>1 DEF ImportLoop
  <2>6. CASE SaveLink(l) /\ NextIssue(r, u, Seen(r, u))
    <3> HIDE DEF l
    <3> QED
      BY <1>2, <1>4, <2>4, <2>5, <2>6, LinkSaved
  <2>7. CASE ImportUnitFails(r, u) /\ UNCHANGED links
    BY <1>2, <2>5, <2>7, UnitFails
  <2> QED
    BY <1>8, <2>6, <2>7 DEF SaveImportedLink, LinkImported
<1> QED
  BY <1>5, <1>6, <1>7, <1>8

\* The steps that handle no unit.
LEMMA OtherAgrees ==
  ASSUME TypeOK, AgreeInv, NEW r \in Requests,
         \/ CreateRun(r)
         \/ ExportCheck(r) \/ ExportLock(r)
         \/ ExportDone(r) \/ ExportFail(r) \/ ExportRun(r) \/ SyncRunFailed(r)
         \/ ImportCheck(r) \/ ImportLock(r) \/ ImportDone(r)
         \/ FinishRun(r) \/ ImportFail(r) \/ ImportRunFailed(r) \/ SyncRunPartial(r)
         \/ Crash(r)
  PROVE  \E s : AgreeStep(r, s)
<1>1. links' = links
  BY DEF CreateRun, ExportCheck, ExportLock, ExportDone, ExportFail, ExportRun,
     SyncRunFailed, ImportCheck, ImportLock, ImportDone, FinishRun, ImportFail,
     ImportRunFailed, SyncRunPartial, Crash, EndRun, dataVars
<1>2. \E s : s \notin ExportLoop \cup ImportLoop /\ Goto(r, s)
  BY DEF CreateRun, ExportCheck, ExportLock, ExportDone, ExportFail, ExportRun,
     SyncRunFailed, ImportCheck, ImportLock, ImportDone, FinishRun, ImportFail,
     ImportRunFailed, SyncRunPartial, Crash, ThrowFromExport, ThrowFromImport,
     SetSyncing, ExportLoop, ImportLoop
<1> QED
  BY <1>1, <1>2, PlainStep

\* Users of the two systems.
LEMMA UsersAgree ==
  ASSUME TypeOK, AgreeInv,
         \/ UserStep
  PROVE  AgreeInv'
<1>1. DataOK
  BY DEF TypeOK, DataOK
<1>2. DataStep /\ tasks \in Seq(Item) /\ issues \in Seq(Item) /\ clock \in Nat
  BY <1>1, EditWrites DEF DataOK
<1>3. /\ links' = links /\ pc' = pc
      /\ ctx' = [r \in Requests |-> [ctx[r] EXCEPT !.quiet = FALSE]]
  BY DEF UserStep, AddTask, AddIssue, EditTask, EditIssue, Edit
<1>4. Dated(tasks', clock') /\ Dated(issues', clock') /\ Distinct(tasks')
  BY <1>2, DatesStay DEF AgreeInv, DataStep
<1>5. \A l \in links' : Honest(tasks', issues', clock', l)
  BY <1>1, <1>2, <1>3, LinksStayHonest DEF AgreeInv, DataOK
<1>6. ASSUME NEW r \in Requests
      PROVE  CopiesTrue(tasks', issues', clock', pc'[r], ctx'[r])
  <2>1. CopiesTrue(tasks', issues', clock', pc[r], ctx[r])
    BY <1>1, <1>2, CopiesStayTrue DEF AgreeInv, TypeOK
  <2>2. /\ ctx'[r].work = ctx[r].work /\ ctx'[r].target = ctx[r].target
        /\ ctx'[r].stamp = ctx[r].stamp
    <3>1. ctx[r] \in Context /\ ctx'[r] = [ctx[r] EXCEPT !.quiet = FALSE]
      BY <1>3 DEF TypeOK
    <3> QED
      BY <3>1 DEF Context
  <2> QED
    BY <1>3, <2>1, <2>2 DEF CopiesTrue, ImportTrue, ExportTrue
<1> QED
  BY <1>4, <1>5, <1>6 DEF AgreeInv

\* Initially there is nothing to agree on.
LEMMA AgreeInit == Init => AgreeInv
<1> SUFFICES ASSUME Init PROVE AgreeInv
  OBVIOUS
<1>1. DOMAIN tasks = {} /\ DOMAIN issues = {} /\ links = {}
  BY DEF Init
<1>2. \A r \in Requests : pc[r] = "idle"
  BY DEF Init
<1>3. \A r \in Requests : CopiesTrue(tasks, issues, clock, pc[r], ctx[r])
  BY <1>2, NoCopies DEF ExportLoop, ImportLoop
<1> QED
  BY <1>1, <1>3 DEF AgreeInv, Dated, Distinct

\* The invariant is preserved.
LEMMA AgreeNext == ASSUME TypeOK, AgreeInv, [Next]_vars PROVE AgreeInv'
<1>1. DataOK
  BY DEF TypeOK, DataOK
<1>2. CASE UNCHANGED vars
  BY <1>2 DEF vars, dataVars, AgreeInv
<1>3. CASE (\E p \in LinearProjects : LinkProject(p)) \/ UnlinkProject
  <2>1. UNCHANGED <<tasks, issues, clock, pc, ctx>> /\ links' \subseteq links
    BY <1>3 DEF LinkProject, UnlinkProject, CountLink
  <2> QED
    BY <2>1 DEF AgreeInv
<1>4. ASSUME NEW r \in Requests, TypedStep(r), \E s : AgreeStep(r, s)
      PROVE  AgreeInv'
  BY <1>4, AgreeStepKeeps
<1>5. ASSUME NEW r \in Requests, NEW kind \in Kinds, Begin(r, kind)
      PROVE  AgreeInv'
  <2>1. UNCHANGED <<tasks, issues, clock, links>>
    BY <1>5 DEF Begin, dataVars
  <2>2. \A q \in Requests : \/ pc'[q] = pc[q] /\ ctx'[q] = ctx[q]
                            \/ pc'[q] \notin ExportLoop \cup ImportLoop
    BY <1>5 DEF Begin, Goto, TypeOK, ExportLoop, ImportLoop
  <2>3. \A q \in Requests : CopiesTrue(tasks', issues', clock', pc'[q], ctx'[q])
    BY <2>1, <2>2, NoCopies DEF AgreeInv
  <2> QED
    BY <2>1, <2>3 DEF AgreeInv
<1>6. ASSUME NEW r \in Requests, RequestStep(r) PROVE AgreeInv'
  <2>1. CASE \E u \in ctx[r].work : Current(r, u) /\ (ExportItem(r, u) \/ ExportLink(r, u))
    BY <1>1, <1>4, <2>1, ExportUnitTyped, ExportUnitAgrees
  <2>2. CASE \E u \in ctx[r].work :
               /\ First(r, u)
               /\ \/ ImportItem(r, u) \/ CreateTask(r, u) \/ WriteTask(r, u)
                  \/ SaveImportedLink(r, u)
    BY <1>1, <1>4, <2>2, ImportUnitTyped, ImportUnitAgrees
  <2>3. CASE ExportRead(r) \/ Fetch(r)
    BY <1>1, <1>4, <2>3, OtherTyped, ExportReadAgrees, FetchAgrees
  <2>4. CASE \/ CreateRun(r)
             \/ ExportCheck(r) \/ ExportLock(r)
             \/ ExportDone(r) \/ ExportFail(r) \/ ExportRun(r) \/ SyncRunFailed(r)
             \/ ImportCheck(r) \/ ImportLock(r) \/ ImportDone(r)
             \/ FinishRun(r) \/ ImportFail(r) \/ ImportRunFailed(r) \/ SyncRunPartial(r)
    BY <1>1, <1>4, <2>4, OtherTyped, OtherAgrees
  <2> QED
    BY <1>6, <2>1, <2>2, <2>3, <2>4 DEF RequestStep, ExportStep, ImportStep
<1>7. ASSUME NEW r \in Requests, NEW u \in ctx[r].work,
             (Current(r, u) /\ ExportReplyLost(r, u)) \/ QueryFails(r, u)
      PROVE  AgreeInv'
  BY <1>1, <1>4, <1>7, ExportUnitTyped, ExportUnitAgrees
<1>8. ASSUME NEW r \in Requests, Crash(r) PROVE AgreeInv'
  BY <1>1, <1>4, <1>8, OtherTyped, OtherAgrees
<1> QED
  BY <1>2, <1>3, <1>5, <1>6, <1>7, <1>8, UsersAgree DEF Next

(***************************************************************************)
(* A task and an issue that both count as synchronised carry the same      *)
(* title, and the same note unless the task's was cleared, however many    *)
(* imports, exports and syncs of a project run at the same time, users     *)
(* edit between their queries, queries fail and processes die.             *)
(***************************************************************************)
THEOREM SynchronisedPairsAgree == Spec => []CleanMeansSynced
<1>1. ASSUME TypeOK, AgreeInv PROVE CleanMeansSynced
  BY <1>1 DEF AgreeInv, Honest, CleanMeansSynced, Clean
<1> QED
  BY <1>1, AgreeInit, AgreeNext, TypeCorrect, PTL DEF Spec

-----------------------------------------------------------------------------
(* A full import leaves no issue behind.                                   *)

\* Issue i is linked, and applied unless its task is dirty and newer.
Settled(T, I, L, i) ==
  \E l \in L : /\ l.issue = i
               /\ \/ I[i].at <= l.linear
                  \/ T[l.task].at > l.local /\ T[l.task].at >= I[i].at

\* The issues of Linear project h.
Listed(I, h) == { i \in DOMAIN I : I[i].home = h }

\* The stages of an import before and after it has the lock.
Prelude == {"createRun", "importCheck", "importLock"}
Running == ImportLoop \cup {"fetch", "importDone", "finishRun"}

\* What an import that is not part of a sync keeps to.
ImportShape(r) ==
  ctx[r].kind = "import" =>
    /\ pc[r] \in Prelude \cup Running \cup {"idle", "importFail", "importRunFailed"}
    /\ ctx[r].since = 0 /\ ctx[r].skip = {}
    /\ pc[r] \in Prelude => ctx[r].after = 0
    /\ run[r] = "completed" => pc[r] = "idle"

\* The units of the page are up to date, and every issue after the last one
\* handled is on this page or on a later one.
PageCovers(c, I) ==
  /\ \A u \in c.work : u.issue \in Listed(I, c.home) /\ u.at = I[u.issue].at /\ u.issue > c.after
  /\ \A i \in Listed(I, c.home) : i > c.after =>
       \/ \E u \in c.work : u.issue = i
       \/ c.more /\ \A u \in c.work : u.issue < i

\* How far an import has come at stage s with local variables c.
Progress(T, I, L, s, c) ==
  /\ \A i \in Listed(I, c.home) : i <= c.after => Settled(T, I, L, i)
  /\ s \in ImportLoop => PageCovers(c, I)
  /\ s \in {"importDone", "finishRun"} => \A i \in Listed(I, c.home) : i <= c.after

\* An import that nobody disturbs: no edit, no unlink, no failed issue.
Undisturbed(c) == used.links <= 1 /\ c.kind = "import" /\ c.quiet

ProgressMade(r) ==
  Undisturbed(ctx[r]) /\ pc[r] \in Running /\ ~ctx[r].failures
    => Progress(tasks, issues, links, pc[r], ctx[r])

AllSettled(r) ==
  Undisturbed(ctx[r]) /\ run[r] = "completed"
    => \A i \in Listed(issues, ctx[r].home) : Settled(tasks, issues, links, i)

CatchInv(r) ==
  /\ used.links = 0 => ~linked
  /\ \A i \in DOMAIN issues : issues[i].at > 0
  /\ ImportShape(r) /\ ProgressMade(r) /\ AllSettled(r)

\* A page is the beginning of what is left, and empty only if nothing is left.
LEMMA PageIsPrefix ==
  ASSUME TypeOK, NEW r \in Requests
  PROVE  /\ \A i \in Rest(r), j \in Page(r) : i < j => i \in Page(r)
         /\ Page(r) = {} => Rest(r) = {}
<1>1. /\ Rest(r) \subseteq 1 .. Len(issues) /\ Len(issues) \in Nat
      /\ Rest(r) \in SUBSET Nat
  BY LenProperties DEF Rest, TypeOK
<1>2. IsFiniteSet(1 .. Len(issues))
  BY <1>1, FS_Interval
<1>3. IsFiniteSet(Rest(r))
  BY <1>1, <1>2, FS_Subset
<1>4. BatchSize \in Nat \ {0}
  BY SyncAssumption
<1>5. ASSUME NEW i \in Rest(r), NEW j \in Page(r), i < j PROVE i \in Page(r)
  <2> DEFINE A == { k \in Rest(r) : k < i }
  <2> DEFINE B == { k \in Rest(r) : k < j }
  <2>1. j \in Rest(r) /\ Cardinality(B) < BatchSize
    BY DEF Page
  <2>2. A \in SUBSET B /\ B \in SUBSET Rest(r)
    BY <1>1, <1>5, <2>1
  <2>3. IsFiniteSet(B)
    BY <1>3, <2>2, FS_Subset
  <2>4. IsFiniteSet(A) /\ Cardinality(A) <= Cardinality(B)
    BY <2>2, <2>3, FS_Subset
  <2>5. Cardinality(A) \in Nat /\ Cardinality(B) \in Nat
    BY <2>3, <2>4, FS_CardinalityType
  <2>6. Cardinality(A) < BatchSize
    BY <1>4, <2>1, <2>4, <2>5
  <2> QED
    BY <2>6 DEF Page
<1>6. ASSUME Rest(r) # {} PROVE Page(r) # {}
  <2>1. PICK m \in Rest(r) : \A k \in Rest(r) : <<k, m>> \notin OpToRel(<, Nat)
    BY <1>1, <1>6, WFMin, NatLessThanWellFounded, Zenon
  <2>2. \A k \in Rest(r) : ~(k < m)
    BY <1>1, <2>1 DEF OpToRel
  <2>3. { k \in Rest(r) : k < m } = {}
    BY <2>2
  <2>4. Cardinality({ k \in Rest(r) : k < m }) = 0
    BY <2>3, FS_EmptySet
  <2>5. m \in Page(r)
    BY <1>4, <2>4 DEF Page
  <2> QED
    BY <2>5
<1> QED
  BY <1>5, <1>6

\* A task that is written stays newer than an issue.
LEMMA SettledStays ==
  ASSUME TypeOK, AgreeInv, NEW new, Wrote(tasks, new, clock + 1),
         NEW i \in DOMAIN issues, Settled(tasks, issues, links, i)
  PROVE  Settled(new, issues, links, i)
<1>1. PICK l \in links : /\ l.issue = i
                         /\ \/ issues[i].at <= l.linear
                            \/ tasks[l.task].at > l.local /\ tasks[l.task].at >= issues[i].at
  BY DEF Settled
<1>2. /\ l.task \in DOMAIN tasks /\ l.local \in Nat /\ l.local <= clock /\ clock \in Nat
      /\ tasks[l.task].at \in Nat /\ issues[i].at \in Nat /\ issues[i].at <= clock
  BY ItemFields DEF AgreeInv, Honest, Dated, TypeOK, Link
<1>3. new[l.task] = tasks[l.task] \/ new[l.task].at = clock + 1
  BY <1>2, WroteFacts DEF TypeOK
<1> QED
  BY <1>1, <1>2, <1>3 DEF Settled

\* An issue that is handled without an error: the import moves on behind it.
LEMMA MovesOn ==
  ASSUME TypeOK, NEW c \in Context, NEW d \in Context, NEW u \in c.work, NEW s, NEW L,
         PageCovers(c, issues), FirstOf(c.work, u),
         \A v \in c.work : v.issue = u.issue => v = u,
         \A i \in Listed(issues, c.home) : i <= c.after => Settled(tasks, issues, L, i),
         Settled(tasks, issues, L, u.issue),
         d.work = c.work \ {u}, d.after = u.issue, d.more = c.more, d.home = c.home,
         s = IF c.work # {u} THEN "importItem" ELSE IF c.more THEN "fetch" ELSE "importDone"
  PROVE  Progress(tasks, issues, L, s, d)
<1>1. /\ u.issue \in Nat /\ c.after \in Nat /\ c.more \in BOOLEAN
      /\ \A v \in c.work : v.issue \in Nat
      /\ Listed(issues, c.home) \subseteq Nat
  BY ItemFields DEF Context, Unit, TypeOK, Listed
<1>2. \A v \in c.work \ {u} : v.issue > u.issue
  BY <1>1 DEF FirstOf
<1>3. ASSUME NEW i \in Listed(issues, c.home), i > c.after, i <= u.issue PROVE i = u.issue
  <2>1. CASE \E v \in c.work : v.issue = i
    BY <1>1, <1>3, <2>1 DEF FirstOf
  <2>2. CASE u.issue < i
    BY <1>1, <1>3, <2>2
  <2> QED
    BY <1>3, <2>1, <2>2 DEF PageCovers
<1>4. \A i \in Listed(issues, c.home) : i <= d.after => Settled(tasks, issues, L, i)
  BY <1>1, <1>3
<1>5. \A i \in Listed(issues, c.home) : i > d.after =>
        \/ \E v \in d.work : v.issue = i
        \/ d.more /\ \A v \in d.work : v.issue < i
  <2> SUFFICES ASSUME NEW i \in Listed(issues, c.home), i > u.issue
               PROVE  \/ \E v \in d.work : v.issue = i
                      \/ d.more /\ \A v \in d.work : v.issue < i
    OBVIOUS
  <2>1. i > c.after
    BY <1>1 DEF PageCovers
  <2>2. CASE \E v \in c.work : v.issue = i
    BY <1>1, <2>2
  <2>3. CASE c.more /\ \A v \in c.work : v.issue < i
    BY <2>3
  <2> QED
    BY <2>1, <2>2, <2>3 DEF PageCovers
<1>6. PageCovers(d, issues)
  <2>1. \A v \in d.work : v.issue \in Listed(issues, c.home) /\ v.at = issues[v.issue].at
                          /\ v.issue > d.after
    BY <1>2 DEF PageCovers
  <2> QED
    BY <1>5, <2>1 DEF PageCovers
<1>7. ASSUME s = "importDone" PROVE \A i \in Listed(issues, c.home) : i <= d.after
  <2>1. d.work = {} /\ ~d.more
    BY <1>7
  <2> QED
    BY <1>1, <1>5, <2>1
<1>8. s # "finishRun"
  OBVIOUS
<1> QED
  BY <1>4, <1>6, <1>7, <1>8 DEF Progress

\* The steps of an import between its pages.
LEMMA ImportAdvances ==
  ASSUME TypeOK, NEW r \in Requests, CatchInv(r), ctx[r].kind = "import",
         used'.links = used.links,
         \/ CreateRun(r) \/ ImportCheck(r) \/ ImportLock(r) \/ ImportDone(r)
         \/ FinishRun(r) \/ ImportFail(r) \/ ImportRunFailed(r) \/ Crash(r)
  PROVE  ImportShape(r)' /\ ProgressMade(r)' /\ AllSettled(r)'
<1>1. ctx[r] \in Context /\ pc[r] # "idle" /\ run[r] # "completed"
  BY DEF CatchInv, ImportShape, TypeOK, CreateRun, ImportCheck, ImportLock, ImportDone,
     FinishRun, ImportFail, ImportRunFailed, Crash, EndRun
<1>2. UNCHANGED <<tasks, issues, links>>
  BY DEF CreateRun, ImportCheck, ImportLock, ImportDone, FinishRun, ImportFail,
     ImportRunFailed, Crash, EndRun, dataVars
<1>3. ASSUME UNCHANGED ctx, run'[r] # "completed",
             Goto(r, "idle") \/ Goto(r, "importFail") \/ Goto(r, "importRunFailed")
      PROVE  ImportShape(r)' /\ ProgressMade(r)' /\ AllSettled(r)'
  <2>1. pc'[r] \in {"idle", "importFail", "importRunFailed"}
    BY <1>3 DEF Goto, TypeOK
  <2> QED
    BY <1>3, <2>1 DEF CatchInv, ImportShape, ProgressMade, AllSettled, Prelude, Running,
       ImportLoop
<1>4. CASE CreateRun(r)
  <2>1. pc'[r] = "importCheck" /\ run'[r] = "running" /\ UNCHANGED ctx /\ ctx[r].after = 0
    BY <1>4 DEF CreateRun, Goto, TypeOK, CatchInv, ImportShape, Prelude
  <2> QED
    BY <2>1 DEF CatchInv, ImportShape, ProgressMade, AllSettled, Prelude, Running, ImportLoop
<1>5. CASE ImportCheck(r)
  <2>1. run' = run
    BY <1>5 DEF ImportCheck
  <2>2. CASE ThrowFromImport(r) /\ UNCHANGED ctx
    BY <1>1, <1>3, <2>1, <2>2 DEF ThrowFromImport
  <2>3. CASE /\ ctx' = [ctx EXCEPT ![r].home = project,
                                   ![r].since = IF ctx[r].kind = "import"
                                                THEN 0 ELSE cursor,
                                   ![r].seen = cursor,
                                   ![r].after = 0]
             /\ Goto(r, "importLock")
    <3>1. ctx'[r] = [ctx[r] EXCEPT !.home = project, !.since = 0, !.seen = cursor, !.after = 0]
      BY <2>3 DEF TypeOK
    <3>2. /\ ctx'[r].kind = "import" /\ ctx'[r].since = 0 /\ ctx'[r].after = 0
          /\ ctx'[r].skip = ctx[r].skip
      BY <1>1, <3>1 DEF Context
    <3>3. pc'[r] = "importLock"
      BY <2>3 DEF Goto, TypeOK
    <3> QED
      BY <1>1, <2>1, <3>2, <3>3 DEF CatchInv, ImportShape, ProgressMade, AllSettled,
         Prelude, Running, ImportLoop
  <2> QED
    BY <1>5, <2>2, <2>3 DEF ImportCheck
<1>6. CASE ImportLock(r)
  <2>1. UNCHANGED <<ctx, run>>
    BY <1>6 DEF ImportLock
  <2>2. CASE ThrowFromImport(r)
    BY <1>1, <1>3, <2>1, <2>2 DEF ThrowFromImport
  <2>3. CASE Goto(r, "fetch")
    <3>1. pc'[r] = "fetch" /\ ctx[r].after = 0
      BY <1>6, <2>3 DEF Goto, TypeOK, ImportLock, CatchInv, ImportShape, Prelude
    <3>2. \A i \in Listed(issues, ctx[r].home) : ~(i <= ctx[r].after)
      BY <3>1, LenProperties DEF TypeOK, Listed
    <3> QED
      BY <1>1, <1>2, <2>1, <3>1, <3>2 DEF CatchInv, ImportShape, ProgressMade, AllSettled,
         Progress, Prelude, Running, ImportLoop
  <2> QED
    BY <1>6, <2>2, <2>3 DEF ImportLock, SetSyncing
<1>7. CASE ImportDone(r)
  <2>1. UNCHANGED <<ctx, run>>
    BY <1>7 DEF ImportDone
  <2>2. CASE Goto(r, "importFail")
    BY <1>1, <1>3, <2>1, <2>2
  <2>3. CASE Goto(r, "finishRun")
    <3>1. pc[r] = "importDone" /\ pc'[r] = "finishRun"
      BY <1>7, <2>3 DEF ImportDone, Goto, TypeOK
    <3>2. ProgressMade(r)'
      BY <1>2, <2>1, <3>1 DEF CatchInv, ProgressMade, Undisturbed, Progress, Running,
         ImportLoop
    <3> QED
      BY <1>1, <2>1, <3>1, <3>2 DEF CatchInv, ImportShape, AllSettled, Prelude, Running
  <2> QED
    BY <1>7, <2>2, <2>3 DEF ImportDone
<1>8. CASE FinishRun(r)
  <2>1. /\ pc[r] = "finishRun" /\ pc'[r] = "idle" /\ UNCHANGED ctx
        /\ run'[r] = IF ctx[r].failures THEN "partial" ELSE "completed"
    BY <1>8 DEF FinishRun, EndRun, Goto, TypeOK
  <2>2. AllSettled(r)'
    BY <1>2, <2>1 DEF CatchInv, ProgressMade, AllSettled, Undisturbed, Progress, Running
  <2> QED
    BY <2>1, <2>2 DEF CatchInv, ImportShape, ProgressMade, Prelude, Running, ImportLoop
<1>9. CASE ImportFail(r)
  BY <1>1, <1>3, <1>9 DEF ImportFail, ThrowFromImport
<1>10. CASE ImportRunFailed(r)
  <2>1. run'[r] # "completed" /\ UNCHANGED ctx /\ Goto(r, "idle")
    BY <1>10 DEF ImportRunFailed, EndRun, ThrowFromImport, TypeOK
  <2> QED
    BY <1>3, <2>1
<1>11. CASE Crash(r)
  BY <1>1, <1>3, <1>11 DEF Crash
<1> QED
  BY <1>4, <1>5, <1>6, <1>7, <1>8, <1>9, <1>10, <1>11

\* Fetching a page.
LEMMA FetchAdvances ==
  ASSUME TypeOK, NEW r \in Requests, CatchInv(r), ctx[r].kind = "import", Fetch(r)
  PROVE  ImportShape(r)' /\ ProgressMade(r)' /\ AllSettled(r)'
<1>1. /\ ctx[r] \in Context /\ run[r] # "completed" /\ pc[r] = "fetch"
      /\ UNCHANGED <<tasks, issues, links, run, used>>
  BY DEF CatchInv, ImportShape, TypeOK, Fetch, dataVars
<1>2. /\ DOMAIN issues \subseteq Nat /\ ctx[r].after \in Nat
      /\ Listed(issues, ctx[r].home) \subseteq DOMAIN issues
      /\ Rest(r) = { i \in Listed(issues, ctx[r].home) : i > ctx[r].after }
  BY <1>1, ItemFields DEF Rest, Listed, CatchInv, ImportShape, Context, TypeOK
<1>3. CASE Goto(r, "importFail") /\ UNCHANGED ctx
  <2>1. pc'[r] = "importFail"
    BY <1>3 DEF Goto, TypeOK
  <2> QED
    BY <1>1, <1>3, <2>1 DEF CatchInv, ImportShape, ProgressMade, AllSettled, Prelude,
       Running, ImportLoop
<1>4. CASE Page(r) = {} /\ Goto(r, "importDone") /\ UNCHANGED ctx
  <2>1. pc'[r] = "importDone" /\ Rest(r) = {}
    BY <1>4, PageIsPrefix DEF Goto, TypeOK
  <2>2. \A i \in Listed(issues, ctx[r].home) : i <= ctx[r].after
    BY <1>2, <2>1
  <2>3. ProgressMade(r)'
    BY <1>1, <1>4, <2>1, <2>2 DEF CatchInv, ProgressMade, Undisturbed, Progress, Running,
       ImportLoop
  <2> QED
    BY <1>1, <1>4, <2>1, <2>3 DEF CatchInv, ImportShape, AllSettled, Prelude, Running
<1>5. CASE /\ ctx' = [ctx EXCEPT ![r].work = { ImportUnit(i) : i \in Page(r) },
                                 ![r].more = Page(r) # Rest(r)]
           /\ Goto(r, "importItem")
  <2> DEFINE W == { ImportUnit(i) : i \in Page(r) }
  <2> DEFINE b == Page(r) # Rest(r)
  <2>1. pc'[r] = "importItem" /\ ctx'[r] = [ctx[r] EXCEPT !.work = W, !.more = b]
    BY <1>5 DEF Goto, TypeOK
  <2>2. \A i \in Page(r) : /\ i \in Rest(r)
                           /\ ImportUnit(i).issue = i /\ ImportUnit(i).at = issues[i].at
    BY DEF Page, ImportUnit
  <2>3. \A u \in W : u.issue \in Page(r) /\ u.at = issues[u.issue].at
    BY <2>2
  <2>4. \A i \in Page(r) : \E u \in W : u.issue = i
    BY <2>2
  <2> HIDE DEF W, b
  <2>5. /\ ctx'[r].work = W /\ ctx'[r].more = b
        /\ ctx'[r].kind = "import" /\ ctx'[r].home = ctx[r].home
        /\ ctx'[r].since = ctx[r].since /\ ctx'[r].skip = ctx[r].skip /\ ctx'[r].after = ctx[r].after
        /\ ctx'[r].quiet = ctx[r].quiet /\ ctx'[r].failures = ctx[r].failures
    BY <1>1, <2>1 DEF Context
  <2>6. \A u \in W : u.issue \in Listed(issues, ctx[r].home) /\ u.issue > ctx[r].after
    BY <1>2, <2>2, <2>3
  <2>7. ASSUME NEW i \in Listed(issues, ctx[r].home), i > ctx[r].after, i \notin Page(r)
        PROVE  b /\ \A u \in W : u.issue < i
    <3>1. i \in Rest(r) /\ b
      BY <1>2, <2>7 DEF b
    <3>2. ASSUME NEW u \in W PROVE u.issue < i
      <4>1. u.issue \in Page(r) /\ u.issue \in Nat /\ i \in Nat
        BY <1>2, <2>3, <2>6
      <4>2. ~(i < u.issue)
        BY <2>7, <3>1, <4>1, PageIsPrefix
      <4>3. i # u.issue
        BY <2>7, <4>1
      <4> QED
        BY <4>1, <4>2, <4>3
    <3> QED
      BY <3>1, <3>2
  <2>8. PageCovers(ctx'[r], issues)
    BY <2>3, <2>4, <2>5, <2>6, <2>7 DEF PageCovers
  <2>9. ProgressMade(r)'
    BY <1>1, <2>1, <2>5, <2>8 DEF CatchInv, ProgressMade, Undisturbed, Progress, Running,
       ImportLoop
  <2> QED
    BY <1>1, <2>1, <2>5, <2>9 DEF CatchInv, ImportShape, AllSettled, Prelude, Running,
       ImportLoop
<1> QED
  BY <1>3, <1>4, <1>5 DEF Fetch

\* The end of a failed issue: this import will not count as completed.
LEMMA FailedIssueAdvances ==
  ASSUME TypeOK, NEW r \in Requests, CatchInv(r), ctx[r].kind = "import",
         NEW u \in ctx[r].work, pc[r] \in ImportLoop, ImportUnitFails(r, u), UNCHANGED run
  PROVE  ImportShape(r)' /\ ProgressMade(r)' /\ AllSettled(r)'
<1>1. ctx[r] \in Context /\ run[r] # "completed"
  BY DEF CatchInv, ImportShape, TypeOK, ImportLoop
<1>2. ctx'[r] = [[ctx[r] EXCEPT !.failures = TRUE] EXCEPT !.work = @ \ {u}, !.after = u.issue]
  BY DEF ImportUnitFails, NextIssue, TypeOK
<1>3. /\ ctx'[r].failures = TRUE /\ ctx'[r].kind = "import"
      /\ ctx'[r].since = ctx[r].since /\ ctx'[r].skip = ctx[r].skip
  BY <1>1, <1>2 DEF Context
<1>4. pc'[r] \in {"importItem", "fetch", "importDone"}
  BY DEF ImportUnitFails, NextIssue, Goto, TypeOK
<1> QED
  BY <1>1, <1>3, <1>4 DEF CatchInv, ImportShape, ProgressMade, AllSettled, Prelude, Running,
     ImportLoop

\* The end of an issue that is settled.
LEMMA SettledIssueAdvances ==
  ASSUME TypeOK, AgreeInv, NEW r \in Requests, CatchInv(r), ctx[r].kind = "import",
         NEW u, First(r, u), pc[r] \in ImportLoop, NextIssue(r, u, Seen(r, u)),
         UNCHANGED <<tasks, issues, run>>, used'.links = used.links,
         PageCovers(ctx[r], issues) => Settled(tasks, issues, links', u.issue),
         PageCovers(ctx[r], issues) =>
           \A i \in Listed(issues, ctx[r].home) : i <= ctx[r].after /\ Settled(tasks, issues, links, i)
             => Settled(tasks, issues, links', i)
  PROVE  ImportShape(r)' /\ ProgressMade(r)' /\ AllSettled(r)'
<1>1. ctx[r] \in Context /\ run[r] # "completed" /\ u \in ctx[r].work /\ u \in Unit
  BY DEF CatchInv, ImportShape, TypeOK, ImportLoop, First, Context
<1> DEFINE n == IF u.at > ctx[r].seen THEN u.at ELSE ctx[r].seen
<1> DEFINE d == [[ctx[r] EXCEPT !.seen = n] EXCEPT !.work = @ \ {u}, !.after = u.issue]
<1> DEFINE s == IF ctx[r].work # {u} THEN "importItem"
                ELSE IF ctx[r].more THEN "fetch" ELSE "importDone"
<1>2. ctx'[r] = d /\ pc'[r] = s
  BY DEF NextIssue, Seen, Goto, TypeOK
<1>3. n \in Nat /\ u.issue \in Nat /\ ctx[r].work \ {u} \in SUBSET Unit
  BY <1>1 DEF Unit, Context
<1> HIDE DEF n
<1>4. d = [ctx[r] EXCEPT !.seen = n, !.work = ctx[r].work \ {u}, !.after = u.issue]
  BY <1>1 DEF Context
<1>5. d \in Context
  <2>1. [ctx[r] EXCEPT !.seen = n] \in Context
    BY <1>1, <1>3, ContextUpdates
  <2>2. [ctx[r] EXCEPT !.seen = n].work = ctx[r].work
    BY <1>1 DEF Context
  <2> QED
    BY <1>3, <2>1, <2>2, ContextUpdates
<1>6. /\ d.work = ctx[r].work \ {u} /\ d.after = u.issue /\ d.more = ctx[r].more
      /\ d.home = ctx[r].home /\ d.kind = ctx[r].kind /\ d.since = ctx[r].since /\ d.skip = ctx[r].skip
      /\ d.quiet = ctx[r].quiet /\ d.failures = ctx[r].failures
  BY <1>1, <1>4 DEF Context
<1> HIDE DEF d
<1>7. s \in {"importItem", "fetch", "importDone"}
  OBVIOUS
<1>8. ProgressMade(r)'
  <2> SUFFICES ASSUME Undisturbed(ctx[r]), ~ctx[r].failures
               PROVE  Progress(tasks, issues, links', s, d)
    BY <1>2, <1>6 DEF ProgressMade, Undisturbed
  <2>1. Progress(tasks, issues, links, pc[r], ctx[r])
    BY DEF CatchInv, ProgressMade, Running
  <2>2. PageCovers(ctx[r], issues)
    BY <2>1 DEF Progress
  <2>3. \A i \in Listed(issues, ctx[r].home) : i <= ctx[r].after => Settled(tasks, issues, links', i)
    BY <2>1, <2>2 DEF Progress
  <2>4. \A v \in ctx[r].work : v.issue = u.issue => v = u
    <3>1. CopiesTrue(tasks, issues, clock, pc[r], ctx[r])
      BY DEF AgreeInv
    <3> QED
      BY <1>1, <3>1 DEF CopiesTrue, ImportTrue
  <2>5. FirstOf(ctx[r].work, u)
    BY DEF First, FirstOf
  <2>6. Settled(tasks, issues, links', u.issue)
    BY <2>2
  <2> HIDE DEF s
  <2>7. s = IF ctx[r].work # {u} THEN "importItem"
            ELSE IF ctx[r].more THEN "fetch" ELSE "importDone"
    BY DEF s
  <2> QED
    BY <1>1, <1>5, <1>6, <2>2, <2>3, <2>4, <2>5, <2>6, <2>7, MovesOn
<1>9. ImportShape(r)' /\ AllSettled(r)'
  BY <1>1, <1>2, <1>6, <1>7 DEF CatchInv, ImportShape, AllSettled, Prelude, Running, ImportLoop
<1> QED
  BY <1>8, <1>9

\* A step within the handling of an issue.
LEMMA WithinIssueAdvances ==
  ASSUME TypeOK, AgreeInv, NEW r \in Requests, CatchInv(r), ctx[r].kind = "import",
         pc[r] \in ImportLoop, NEW s \in ImportLoop, Goto(r, s),
         Wrote(tasks, tasks', clock + 1),
         UNCHANGED <<issues, links, run>>, used'.links = used.links,
         \E n, k : ctx'[r] = [ctx[r] EXCEPT !.target = n, !.stamp = k]
  PROVE  ImportShape(r)' /\ ProgressMade(r)' /\ AllSettled(r)'
<1>1. ctx[r] \in Context /\ run[r] # "completed" /\ pc'[r] = s
  BY DEF CatchInv, ImportShape, TypeOK, ImportLoop, Goto
<1>2. /\ ctx'[r].work = ctx[r].work /\ ctx'[r].after = ctx[r].after
      /\ ctx'[r].home = ctx[r].home
      /\ ctx'[r].more = ctx[r].more /\ ctx'[r].kind = ctx[r].kind
      /\ ctx'[r].since = ctx[r].since /\ ctx'[r].skip = ctx[r].skip
      /\ ctx'[r].quiet = ctx[r].quiet /\ ctx'[r].failures = ctx[r].failures
  BY <1>1 DEF Context
<1>3. ProgressMade(r)'
  <2> SUFFICES ASSUME Undisturbed(ctx[r]), ~ctx[r].failures
               PROVE  Progress(tasks', issues, links, s, ctx'[r])
    BY <1>1, <1>2 DEF ProgressMade, Undisturbed
  <2>1. Progress(tasks, issues, links, pc[r], ctx[r])
    BY DEF CatchInv, ProgressMade, Running
  <2>2. \A i \in Listed(issues, ctx[r].home) : i <= ctx[r].after => Settled(tasks', issues, links, i)
    BY <2>1, SettledStays DEF Progress, Listed
  <2>3. PageCovers(ctx'[r], issues)
    BY <1>2, <2>1 DEF Progress, PageCovers
  <2>4. s \notin {"importDone", "finishRun"}
    BY DEF ImportLoop
  <2> QED
    BY <1>2, <2>2, <2>3, <2>4 DEF Progress
<1>4. ImportShape(r)' /\ AllSettled(r)'
  BY <1>1, <1>2 DEF CatchInv, ImportShape, AllSettled, Prelude, Running, ImportLoop
<1> QED
  BY <1>3, <1>4

\* The steps that handle an issue.
LEMMA IssueAdvances ==
  ASSUME TypeOK, AgreeInv, NEW r \in Requests, CatchInv(r), ctx[r].kind = "import",
         used'.links = used.links, NEW u, First(r, u),
         \/ ImportItem(r, u) \/ CreateTask(r, u) \/ WriteTask(r, u)
         \/ SaveImportedLink(r, u)
  PROVE  ImportShape(r)' /\ ProgressMade(r)' /\ AllSettled(r)'
<1>1. ctx[r] \in Context /\ u \in ctx[r].work /\ u \in Unit /\ DataOK
  BY DEF TypeOK, DataOK, Context, First
<1>2. /\ pc[r] \in ImportLoop /\ UNCHANGED <<issues, run>>
      /\ Wrote(tasks, tasks', clock + 1)
  <2>1. DataStep
    BY <1>1, ImportUnitTyped DEF TypedStep
  <2> QED
    BY <2>1 DEF ImportItem, CreateTask, WriteTask, SaveImportedLink, LinkImported, dataVars,
       DataStep, ImportLoop
<1>3. CASE ImportItem(r, u)
  <2>1. UNCHANGED <<tasks, issues, links, run>> /\ ctx[r].skip = {}
    BY <1>3 DEF ImportItem, dataVars, CatchInv, ImportShape
  <2>2. CASE LinksTo(u.issue) = {} /\ Goto(r, "createTask") /\ UNCHANGED ctx
    <3>1. ctx'[r] = [ctx[r] EXCEPT !.target = ctx[r].target, !.stamp = ctx[r].stamp]
      BY <1>1, <2>2 DEF Context
    <3>2. "createTask" \in ImportLoop
      BY DEF ImportLoop
    <3> QED
      BY <1>2, <2>1, <2>2, <3>1, <3>2, WithinIssueAdvances
  <2>3. ASSUME NEW l \in LinksTo(u.issue), ctx' = [ctx EXCEPT ![r].target = l.task],
               Goto(r, "writeTask")
        PROVE  ImportShape(r)' /\ ProgressMade(r)' /\ AllSettled(r)'
    <3>1. ctx'[r] = [ctx[r] EXCEPT !.target = l.task, !.stamp = ctx[r].stamp]
      <4>1. ctx'[r] = [ctx[r] EXCEPT !.target = l.task]
        BY <2>3 DEF TypeOK
      <4> QED
        BY <1>1, <4>1 DEF Context
    <3>2. "writeTask" \in ImportLoop
      BY DEF ImportLoop
    <3> QED
      BY <1>2, <2>1, <2>3, <3>1, <3>2, WithinIssueAdvances
  <2>4. ASSUME NEW l \in LinksTo(u.issue), ~ShouldApply(u, l), NextIssue(r, u, Seen(r, u))
        PROVE  ImportShape(r)' /\ ProgressMade(r)' /\ AllSettled(r)'
    <3>1. ASSUME PageCovers(ctx[r], issues) PROVE Settled(tasks, issues, links', u.issue)
      <4>1. u.at = issues[u.issue].at
        BY <1>1, <3>1 DEF PageCovers
      <4>2. u.at \in Nat /\ l.linear \in Nat /\ l \in links /\ l.issue = u.issue
        BY <1>1 DEF Unit, LinksTo, Link, TypeOK
      <4> QED
        BY <2>1, <2>4, <4>1, <4>2 DEF ShouldApply, Settled
    <3> QED
      BY <1>2, <2>1, <2>4, <3>1, SettledIssueAdvances
  <2> QED
    BY <1>3, <2>1, <2>2, <2>3, <2>4 DEF ImportItem
<1>4. CASE CreateTask(r, u)
  <2>1. /\ ctx'[r] = [ctx[r] EXCEPT !.target = Len(tasks) + 1, !.stamp = clock + 1]
        /\ Goto(r, "linkTask") /\ links' = links
    BY <1>4 DEF CreateTask, TypeOK
  <2>2. "linkTask" \in ImportLoop
    BY DEF ImportLoop
  <2> QED
    BY <1>2, <2>1, <2>2, WithinIssueAdvances
<1>5. CASE WriteTask(r, u)
  <2>1. /\ ctx'[r] = [ctx[r] EXCEPT !.target = ctx[r].target, !.stamp = clock + 1]
        /\ Goto(r, "writeLink") /\ links' = links
    <3>1. ctx'[r] = [ctx[r] EXCEPT !.stamp = clock + 1]
      BY <1>5 DEF WriteTask, TypeOK
    <3> QED
      BY <1>1, <1>5, <3>1 DEF WriteTask, Context
  <2>2. "writeLink" \in ImportLoop
    BY DEF ImportLoop
  <2> QED
    BY <1>2, <2>1, <2>2, WithinIssueAdvances
<1>6. CASE SaveImportedLink(r, u)
  <2> DEFINE l == [task |-> ctx[r].target, issue |-> u.issue, local |-> ctx[r].stamp,
                   linear |-> u.at]
  <2>1. UNCHANGED <<tasks, issues, run>>
    BY <1>6 DEF SaveImportedLink, LinkImported
  <2>2. CASE ImportUnitFails(r, u)
    BY <1>1, <1>2, <2>2, FailedIssueAdvances
  <2>3. CASE SaveLink(l) /\ NextIssue(r, u, Seen(r, u))
    <3>1. l \in links' /\ l.issue = u.issue /\ l.linear = u.at
      BY <2>3 DEF SaveLink
    <3>2. \A k \in links : k.issue # u.issue => k \in links'
      BY <2>3 DEF SaveLink, Rows
    <3> HIDE DEF l
    <3>3. ASSUME PageCovers(ctx[r], issues) PROVE Settled(tasks, issues, links', u.issue)
      <4>1. u.at = issues[u.issue].at /\ u.at \in Nat
        BY <1>1, <3>3 DEF PageCovers, Unit
      <4> QED
        BY <3>1, <4>1 DEF Settled
    <3>4. ASSUME PageCovers(ctx[r], issues), NEW i \in Listed(issues, ctx[r].home), i <= ctx[r].after,
                 Settled(tasks, issues, links, i)
          PROVE  Settled(tasks, issues, links', i)
      <4>1. i # u.issue
        <5>1. u.issue > ctx[r].after /\ u.issue \in Nat /\ ctx[r].after \in Nat
          BY <1>1, <3>4 DEF PageCovers, Unit, Context
        <5> QED
          BY <3>4, <5>1
      <4> QED
        BY <3>2, <3>4, <4>1 DEF Settled
    <3> QED
      BY <1>2, <2>1, <2>3, <3>3, <3>4, SettledIssueAdvances
  <2> QED
    BY <1>6, <2>2, <2>3 DEF SaveImportedLink, LinkImported
<1> QED
  BY <1>3, <1>4, <1>5, <1>6

\* Requests neither link nor unlink a project.
LEMMA RequestsKeepLinked ==
  ASSUME TypeOK, NEW r \in Requests,
         \/ RequestStep(r) \/ Crash(r) \/ (\E kind \in Kinds : Begin(r, kind))
         \/ \E u \in ctx[r].work : (Current(r, u) /\ ExportReplyLost(r, u)) \/ QueryFails(r, u)
  PROVE  linked' = linked /\ used'.links = used.links
<1>1. CASE \/ CreateRun(r)
           \/ ExportCheck(r) \/ ExportLock(r) \/ ExportRead(r)
           \/ ExportDone(r) \/ ExportFail(r) \/ ExportRun(r) \/ SyncRunFailed(r)
           \/ ImportCheck(r) \/ ImportLock(r) \/ Fetch(r) \/ ImportDone(r)
           \/ FinishRun(r) \/ ImportFail(r) \/ ImportRunFailed(r) \/ SyncRunPartial(r)
  BY <1>1 DEF CreateRun, ExportCheck, ExportLock, ExportRead, ExportDone, ExportFail,
     ExportRun, SyncRunFailed, ImportCheck, ImportLock, Fetch, ImportDone, FinishRun,
     ImportFail, ImportRunFailed, SyncRunPartial, EndRun, SetSyncing, mappingVars
<1>2. ASSUME NEW u, \/ ExportItem(r, u) \/ ExportLink(r, u)
                    \/ ImportItem(r, u) \/ CreateTask(r, u) \/ WriteTask(r, u)
                    \/ SaveImportedLink(r, u)
      PROVE  linked' = linked /\ used'.links = used.links
  BY <1>2 DEF ExportItem, ExportLink, LinkExported, ImportItem, CreateTask, WriteTask,
     SaveImportedLink, LinkImported, mappingVars
<1>3. ASSUME NEW u, ExportReplyLost(r, u) \/ QueryFails(r, u)
      PROVE  linked' = linked /\ used'.links = used.links
  BY <1>3 DEF ExportReplyLost, QueryFails, mappingVars, TypeOK
<1>4. CASE Crash(r) \/ (\E kind \in Kinds : Begin(r, kind))
  BY <1>4 DEF Crash, Begin, mappingVars, TypeOK
<1>5. RequestStep(r) => linked' = linked /\ used'.links = used.links
  BY <1>1, <1>2 DEF RequestStep, ExportStep, ImportStep
<1> QED
  BY <1>3, <1>4, <1>5

\* Issues are dated from 1 on.
LEMMA IssuesDated ==
  ASSUME TypeOK, DataStep, \A i \in DOMAIN issues : issues[i].at > 0
  PROVE  \A i \in DOMAIN issues' : issues'[i].at > 0
<1>1. \A i \in DOMAIN issues' :
        (i \in DOMAIN issues /\ issues'[i] = issues[i]) \/ issues'[i].at = clock + 1
  BY WroteFacts DEF DataStep, TypeOK
<1>2. clock \in Nat
  BY DEF TypeOK
<1> QED
  BY <1>1, <1>2

\* A step of a request that does not import alone says nothing about imports.
LEMMA NotAnImport ==
  ASSUME NEW r \in Requests, ctx'[r].kind # "import"
  PROVE  ImportShape(r)' /\ ProgressMade(r)' /\ AllSettled(r)'
BY DEF ImportShape, ProgressMade, AllSettled, Undisturbed

\* All steps of a request that is under way.
LEMMA RequestAdvances ==
  ASSUME TypeOK, AgreeInv, NEW r \in Requests, CatchInv(r),
         \/ RequestStep(r) \/ Crash(r)
         \/ \E u \in ctx[r].work : (Current(r, u) /\ ExportReplyLost(r, u)) \/ QueryFails(r, u)
  PROVE  CatchInv(r)'
<1>1. DataOK
  BY DEF TypeOK, DataOK
<1>2. TypedStep(r)
  BY <1>1, ExportUnitTyped, ImportUnitTyped, OtherTyped DEF RequestStep, ExportStep, ImportStep
<1>3. linked' = linked /\ used'.links = used.links
  BY RequestsKeepLinked
<1>4. \A i \in DOMAIN issues' : issues'[i].at > 0
  BY <1>2, IssuesDated DEF TypedStep, CatchInv
<1>5. ctx'[r].kind = ctx[r].kind
  BY <1>2 DEF TypedStep, ContextStep, TypeOK
<1>6. ASSUME ctx[r].kind = "import"
      PROVE  ImportShape(r)' /\ ProgressMade(r)' /\ AllSettled(r)'
  <2>1. pc[r] \in Prelude \cup Running \cup {"idle", "importFail", "importRunFailed"}
    BY <1>6 DEF CatchInv, ImportShape
  <2>2. ~(\/ ExportCheck(r) \/ ExportLock(r) \/ ExportRead(r)
          \/ (\E u \in ctx[r].work : ExportItem(r, u) \/ ExportLink(r, u)
                                     \/ ExportReplyLost(r, u))
          \/ ExportDone(r) \/ ExportFail(r) \/ ExportRun(r) \/ SyncRunFailed(r)
          \/ SyncRunPartial(r))
    BY <2>1 DEF ExportCheck, ExportLock, ExportRead, ExportItem, ExportLink, LinkExported,
       ExportReplyLost, ExportDone, ExportFail, ExportRun, SyncRunFailed, SyncRunPartial,
       EndRun, Prelude, Running, ImportLoop
  <2>3. CASE \/ CreateRun(r) \/ ImportCheck(r) \/ ImportLock(r) \/ ImportDone(r)
             \/ FinishRun(r) \/ ImportFail(r) \/ ImportRunFailed(r) \/ Crash(r)
    BY <1>3, <1>6, <2>3, ImportAdvances
  <2>4. CASE Fetch(r)
    BY <1>6, <2>4, FetchAdvances
  <2>5. CASE \E u \in ctx[r].work :
               /\ First(r, u)
               /\ \/ ImportItem(r, u) \/ CreateTask(r, u) \/ WriteTask(r, u)
                  \/ SaveImportedLink(r, u)
    BY <1>3, <1>6, <2>5, IssueAdvances
  <2>6. ASSUME NEW u \in ctx[r].work, QueryFails(r, u)
        PROVE  ImportShape(r)' /\ ProgressMade(r)' /\ AllSettled(r)'
    <3>1. pc[r] \in ImportLoop /\ ImportUnitFails(r, u) /\ UNCHANGED run
      BY <2>1, <2>6 DEF QueryFails, Prelude, Running, ImportLoop
    <3> QED
      BY <1>6, <3>1, FailedIssueAdvances
  <2> QED
    BY <2>2, <2>3, <2>4, <2>5, <2>6 DEF RequestStep, ExportStep, ImportStep
<1>7. ImportShape(r)' /\ ProgressMade(r)' /\ AllSettled(r)'
  BY <1>5, <1>6, NotAnImport
<1> QED
  BY <1>3, <1>4, <1>7 DEF CatchInv

\* A request begins.
LEMMA BeginAdvances ==
  ASSUME TypeOK, NEW r \in Requests, CatchInv(r), NEW kind \in Kinds, Begin(r, kind)
  PROVE  CatchInv(r)'
<1>1. linked' = linked /\ used'.links = used.links
  BY RequestsKeepLinked
<1>2. /\ ctx'[r] = [NoContext EXCEPT !.kind = kind, !.quiet = TRUE]
      /\ run'[r] = "none" /\ issues' = issues
      /\ pc'[r] = IF kind = "export" THEN "exportCheck" ELSE "createRun"
  BY DEF Begin, Goto, TypeOK, dataVars
<1>3. ctx'[r].kind = kind /\ ctx'[r].since = 0 /\ ctx'[r].skip = {} /\ ctx'[r].after = 0
  BY <1>2 DEF NoContext
<1>4. ImportShape(r)' /\ ProgressMade(r)' /\ AllSettled(r)'
  BY <1>2, <1>3 DEF ImportShape, ProgressMade, AllSettled, Undisturbed, Prelude, Running,
     ImportLoop
<1> QED
  BY <1>1, <1>2, <1>4 DEF CatchInv

\* Users: an edit disturbs every import, a link none, an unlink all from then on.
LEMMA UsersAdvance ==
  ASSUME TypeOK, NEW r \in Requests, CatchInv(r),
         \/ UserStep
         \/ (\E p \in LinearProjects : LinkProject(p)) \/ UnlinkProject \/ UNCHANGED vars
  PROVE  CatchInv(r)'
<1>1. CASE \/ UserStep
  <2>1. DataStep
    BY <1>1, EditWrites DEF TypeOK, DataOK
  <2>2. \A i \in DOMAIN issues' : issues'[i].at > 0
    BY <2>1, IssuesDated DEF CatchInv
  <2>3. /\ UNCHANGED <<linked, pc, run>> /\ used'.links = used.links
        /\ ctx'[r] = [ctx[r] EXCEPT !.quiet = FALSE] /\ ctx[r] \in Context
    BY <1>1 DEF UserStep, AddTask, AddIssue, EditTask, EditIssue, Edit, TypeOK, mappingVars
  <2>4. /\ ~ctx'[r].quiet /\ ctx'[r].kind = ctx[r].kind /\ ctx'[r].since = ctx[r].since
        /\ ctx'[r].skip = ctx[r].skip /\ ctx'[r].after = ctx[r].after
    BY <2>3 DEF Context
  <2> QED
    BY <2>2, <2>3, <2>4 DEF CatchInv, ImportShape, ProgressMade, AllSettled, Undisturbed
<1>2. CASE \E p \in LinearProjects : LinkProject(p)
  <2>1. /\ UNCHANGED <<tasks, issues, links, pc, ctx, run>>
        /\ used.links \in Nat /\ used'.links = used.links + 1
    BY <1>2 DEF LinkProject, CountLink, TypeOK
  <2>2. used'.links # 0 /\ (used'.links <= 1 => used.links <= 1)
    BY <2>1
  <2> QED
    BY <2>1, <2>2 DEF CatchInv, ImportShape, ProgressMade, AllSettled, Undisturbed
<1>3. CASE UnlinkProject
  <2>1. /\ UNCHANGED <<issues, pc, ctx, run>> /\ linked
        /\ used.links \in Nat /\ used'.links = used.links + 1
    BY <1>3 DEF UnlinkProject, CountLink, TypeOK
  <2>2. used'.links # 0 /\ ~(used'.links <= 1)
    BY <2>1 DEF CatchInv
  <2> QED
    BY <2>1, <2>2 DEF CatchInv, ImportShape, ProgressMade, AllSettled, Undisturbed
<1>4. CASE UNCHANGED vars
  BY <1>4 DEF vars, dataVars, mappingVars, CatchInv, ImportShape, ProgressMade, AllSettled,
     Undisturbed
<1> QED
  BY <1>1, <1>2, <1>3, <1>4

(***************************************************************************)
(* For one request at a time: a full import that completes without a user  *)
(* editing meanwhile, in a project that was linked once, has applied every *)
(* issue or left it to a task that is dirty and newer, for every number of *)
(* issues, every size of a page and every history of edits and failures    *)
(* before it.                                                              *)
(***************************************************************************)
THEOREM FullImportsCatchUp ==
  ASSUME NEW q, Requests = {q}
  PROVE  Spec => []FullImportCatchesUp
<1>1. ASSUME Init PROVE CatchInv(q)
  <2>1. /\ linked = FALSE /\ DOMAIN issues = {} /\ pc[q] = "idle" /\ run[q] = "none"
        /\ ctx[q].kind = "none"
    BY <1>1 DEF Init, NoContext
  <2> QED
    BY <2>1 DEF CatchInv, ImportShape, ProgressMade, AllSettled, Undisturbed
<1>2. ASSUME TypeOK, AgreeInv, CatchInv(q), [Next]_vars PROVE CatchInv(q)'
  BY <1>2, RequestAdvances, BeginAdvances, UsersAdvance DEF Next
<1>3. ASSUME TypeOK, CatchInv(q) PROVE FullImportCatchesUp
  <2> SUFFICES ASSUME used.links <= 1, Completed(q, "import"), NEW i \in DOMAIN issues,
                      issues[i].home = ctx[q].home
               PROVE  \E l \in LinksTo(i) :
                        \/ issues[i].at <= l.linear
                        \/ tasks[l.task].at > l.local /\ tasks[l.task].at >= issues[i].at
    BY DEF FullImportCatchesUp
  <2>1. Settled(tasks, issues, links, i)
    BY <1>3 DEF CatchInv, AllSettled, Undisturbed, Completed, Listed
  <2> QED
    BY <2>1 DEF Settled, LinksTo
<1> QED
  BY <1>1, <1>2, <1>3, AgreeInit, AgreeNext, TypeCorrect, PTL DEF Spec

-----------------------------------------------------------------------------
(* No task or issue gets a second counterpart.                             *)

Paired(L, t, i) == \E l \in L : l.task = t /\ l.issue = i

\* An issue, or task, that was just created and whose link comes next.
AwaitsExportLink(s, c, t, i) ==
  s = "exportLink" /\ c.target = i /\ \E u : NewestOf(c.work, u) /\ u.issue = 0 /\ u.task = t

AwaitsImportLink(s, c, t, i) ==
  s = "linkTask" /\ c.target = t /\ \E u : FirstOf(c.work, u) /\ u.issue = i

\* What was created from a row of the other system is linked to it, or will be.
Counted(T, I, L, s, c) ==
  /\ \A i \in DOMAIN I : I[i].origin # 0 =>
       Paired(L, I[i].origin, i) \/ AwaitsExportLink(s, c, I[i].origin, i)
  /\ \A t \in DOMAIN T : T[t].origin # 0 =>
       Paired(L, t, T[t].origin) \/ AwaitsImportLink(s, c, t, T[t].origin)

AllPaired(T, I, L) ==
  /\ \A i \in DOMAIN I : I[i].origin # 0 => Paired(L, I[i].origin, i)
  /\ \A t \in DOMAIN T : T[t].origin # 0 => Paired(L, t, T[t].origin)

\* What a request takes for not linked is not linked.
StillFree(L, s, c) ==
  /\ s \in ExportLoop =>
       \A u \in c.work : /\ u.issue = 0 => \A l \in L : l.task # u.task
                         /\ \A v \in c.work : v.task = u.task => v = u
  /\ s = "exportLink" =>
       \A u : NewestOf(c.work, u) /\ u.issue = 0 => \A l \in L : l.issue # c.target
  /\ s \in {"createTask", "linkTask"} =>
       \A u : FirstOf(c.work, u) => \A l \in L : l.issue # u.issue
  /\ s = "linkTask" => \A l \in L : l.task # c.target

\* OneCounterpart, of the tasks T and the issues I.
Single(T, I) ==
  /\ \A i, j \in DOMAIN I : I[i].origin = I[j].origin /\ i # j => I[i].origin = 0
  /\ \A t, s \in DOMAIN T : T[t].origin = T[s].origin /\ t # s => T[t].origin = 0
  /\ \A t \in DOMAIN T : T[t].origin # 0 => I[T[t].origin].origin = 0

OnceInv(r) ==
  used.faults = 0 /\ used.links <= 1 =>
    /\ Counted(tasks, issues, links, pc[r], ctx[r])
    /\ StillFree(links, pc[r], ctx[r])
    /\ Single(tasks, issues)

\* Old items keep their origin, new ones have none.
OriginsKept(old, new) ==
  /\ DOMAIN old \subseteq DOMAIN new
  /\ \A i \in DOMAIN new : new[i].origin = 0 \/ (i \in DOMAIN old /\ new[i].origin = old[i].origin)
  /\ \A i \in DOMAIN old : new[i].origin = old[i].origin

\* An update that copies the origin, and an item without one.
LEMMA OriginsUpdated ==
  ASSUME NEW s \in Seq(Item), NEW i, NEW x, i \in DOMAIN s => x.origin = s[i].origin
  PROVE  OriginsKept(s, [s EXCEPT ![i] = x])
BY DEF OriginsKept

LEMMA OriginsAppended ==
  ASSUME NEW s \in Seq(Item), NEW x \in Item
  PROVE  /\ DOMAIN Append(s, x) = DOMAIN s \cup {Len(s) + 1}
         /\ \A i \in DOMAIN s : Append(s, x)[i] = s[i]
         /\ Append(s, x)[Len(s) + 1] = x
         /\ Len(s) + 1 \notin DOMAIN s /\ Len(s) + 1 # 0
         /\ x.origin = 0 => OriginsKept(s, Append(s, x))
<1>1. /\ Append(s, x) \in Seq(Item) /\ Len(Append(s, x)) = Len(s) + 1
      /\ Append(s, x)[Len(s) + 1] = x
      /\ \A i \in 1 .. Len(s) : Append(s, x)[i] = s[i]
  BY AppendProperties
<1>2. /\ DOMAIN s = 1 .. Len(s) /\ Len(s) \in Nat
      /\ DOMAIN Append(s, x) = 1 .. (Len(s) + 1)
  BY <1>1, LenProperties
<1>3. 1 .. (Len(s) + 1) = (1 .. Len(s)) \cup {Len(s) + 1}
  BY <1>2
<1>4. /\ DOMAIN Append(s, x) = DOMAIN s \cup {Len(s) + 1}
      /\ \A i \in DOMAIN s : Append(s, x)[i] = s[i]
      /\ Len(s) + 1 \notin DOMAIN s /\ Len(s) + 1 # 0
  BY <1>1, <1>2, <1>3
<1>5. ASSUME x.origin = 0 PROVE OriginsKept(s, Append(s, x))
  <2> DEFINE a == Append(s, x)
  <2>1. /\ DOMAIN s \subseteq DOMAIN a
        /\ \A i \in DOMAIN s : a[i] = s[i]
        /\ \A i \in DOMAIN a : i \in DOMAIN s \/ a[i] = x
    BY <1>1, <1>4
  <2> HIDE DEF a
  <2>4. OriginsKept(s, a)
    BY <1>5, <2>1 DEF OriginsKept
  <2> QED
    BY <2>4 DEF a
<1> QED
  BY <1>1, <1>4, <1>5

\* When nothing is created and all that was is linked, nothing is lost.
LEMMA NothingCreated ==
  ASSUME AgreeInv, AllPaired(tasks, issues, links), Single(tasks, issues),
         OriginsKept(tasks, tasks'), OriginsKept(issues, issues'),
         \A t, i : Paired(links, t, i) => Paired(links', t, i),
         NEW s, NEW c
  PROVE  Counted(tasks', issues', links', s, c) /\ Single(tasks', issues')
<1>1. Counted(tasks', issues', links', s, c)
  BY DEF AllPaired, Counted, OriginsKept
<1>2. \A t \in DOMAIN tasks : tasks[t].origin # 0 => tasks[t].origin \in DOMAIN issues
  BY DEF AllPaired, Paired, AgreeInv, Honest
<1>3. Single(tasks', issues')
  BY <1>2 DEF Single, OriginsKept
<1> QED
  BY <1>1, <1>3

\* A link that is saved adds one pair and drops none.
LEMMA PairSaved ==
  ASSUME NEW l, SaveLink(l)
  PROVE  /\ \A t, i : Paired(links, t, i) => Paired(links', t, i)
         /\ Paired(links', l.task, l.issue)
         /\ \A k \in links' : k \in links \/ k = l
BY DEF SaveLink, Rows, Paired

\* Except between the creation of a row and of its link, all is linked.
LEMMA NothingAwaited ==
  ASSUME NEW T, NEW I, NEW L, NEW s, NEW c, Counted(T, I, L, s, c),
         s = "exportLink" => \A u : NewestOf(c.work, u) => u.issue # 0,
         s # "linkTask"
  PROVE  AllPaired(T, I, L)
BY DEF Counted, AllPaired, AwaitsExportLink, AwaitsImportLink

\* Outside the loops nothing is taken for free.
LEMMA NothingTaken ==
  ASSUME NEW L, NEW s, NEW c,
         s \notin ExportLoop \cup {"createTask", "linkTask"}
  PROVE  StillFree(L, s, c)
BY DEF StillFree, ExportLoop

\* The same holds for fewer units.
LEMMA FewerTaken ==
  ASSUME NEW L, NEW s \in ExportLoop, NEW c, NEW d, d.work \subseteq c.work,
         StillFree(L, s, c)
  PROVE  StillFree(L, "exportItem", d)
BY DEF StillFree, ExportLoop

\* The unit the loops take is the only one of its kind.
LEMMA OneUnit ==
  ASSUME TypeOK, AgreeInv, NEW r \in Requests
  PROVE  /\ pc[r] \in ExportLoop =>
              \A u, v : NewestOf(ctx[r].work, u) /\ NewestOf(ctx[r].work, v) => u = v
         /\ pc[r] \in ImportLoop =>
              \A u, v : FirstOf(ctx[r].work, u) /\ FirstOf(ctx[r].work, v) => u = v
<1>1. CopiesTrue(tasks, issues, clock, pc[r], ctx[r])
  BY DEF AgreeInv
<1>2. \A u \in ctx[r].work : u.at \in Nat /\ u.issue \in Nat
  BY DEF TypeOK, Context, Unit
<1>3. ASSUME pc[r] \in ExportLoop, NEW u, NEW v,
             NewestOf(ctx[r].work, u), NewestOf(ctx[r].work, v)
      PROVE  u = v
  <2>1. u.at = v.at /\ u \in ctx[r].work /\ v \in ctx[r].work
    BY <1>2, <1>3 DEF NewestOf
  <2> QED
    BY <1>1, <1>3, <2>1 DEF CopiesTrue, ExportTrue
<1>4. ASSUME pc[r] \in ImportLoop, NEW u, NEW v,
             FirstOf(ctx[r].work, u), FirstOf(ctx[r].work, v)
      PROVE  u = v
  <2>1. u.issue = v.issue /\ u \in ctx[r].work /\ v \in ctx[r].work
    BY <1>2, <1>4 DEF FirstOf
  <2> QED
    BY <1>1, <1>4, <2>1 DEF CopiesTrue, ImportTrue
<1> QED
  BY <1>3, <1>4

\* What a step of request r to stage s has to show.
OnceStep(r, s) ==
  /\ pc'[r] = s
  /\ Counted(tasks', issues', links', s, ctx'[r])
  /\ StillFree(links', s, ctx'[r])
  /\ Single(tasks', issues')

\* The steps that end a unit, or stand outside the loops.
LEMMA OnceUnitEnds ==
  ASSUME TypeOK, AgreeInv, NEW r \in Requests, NEW u,
         pc[r] \in ExportLoop =>
           StillFree(links', "exportItem", [ctx[r] EXCEPT !.work = @ \ {u}]),
         AllPaired(tasks, issues, links'), Single(tasks, issues), UNCHANGED <<tasks, issues>>,
         \/ pc[r] \in ExportLoop /\ \E c \in Context : c.work = ctx[r].work /\ NextUnit(r, u, c)
         \/ pc[r] \in ImportLoop /\ \E c \in Context : c.work = ctx[r].work /\ NextIssue(r, u, c)
  PROVE  \E s : OnceStep(r, s)
<1>1. \A s, c : Counted(tasks', issues', links', s, c)
  BY DEF Counted, AllPaired
<1>2. ASSUME NEW c \in Context, c.work = ctx[r].work, NextUnit(r, u, c), pc[r] \in ExportLoop
      PROVE  \E s : OnceStep(r, s)
  <2>1. ctx'[r] = [c EXCEPT !.work = c.work \ {u}] /\ ctx[r] \in Context
    BY <1>2 DEF NextUnit, TypeOK
  <2>2. ctx'[r].work = [ctx[r] EXCEPT !.work = @ \ {u}].work
    BY <1>2, <2>1 DEF Context
  <2>4. StillFree(links', "exportItem", ctx'[r])
    BY <1>2, <2>2, FewerTaken DEF ExportLoop
  <2>5. StillFree(links', "exportDone", ctx'[r])
    BY NothingTaken DEF ExportLoop
  <2>6. pc'[r] = "exportItem" \/ pc'[r] = "exportDone"
    BY <1>2 DEF NextUnit, Goto, TypeOK
  <2> QED
    BY <1>1, <2>4, <2>5, <2>6 DEF OnceStep
<1>3. ASSUME NEW c \in Context, NextIssue(r, u, c)
      PROVE  \E s : OnceStep(r, s)
  <2>1. pc'[r] \in {"importItem", "fetch", "importDone"}
    BY <1>3 DEF NextIssue, Goto, TypeOK
  <2>2. StillFree(links', pc'[r], ctx'[r])
    BY <2>1, NothingTaken DEF ExportLoop
  <2> QED
    BY <1>1, <2>2 DEF OnceStep
<1> QED
  BY <1>2, <1>3

\* A step outside the loops.
LEMMA OncePlain ==
  ASSUME TypeOK, AgreeInv, NEW r \in Requests, NEW s, Goto(r, s),
         s \notin ExportLoop \cup {"createTask", "linkTask"},
         AllPaired(tasks, issues, links), Single(tasks, issues),
         UNCHANGED <<tasks, issues, links>>
  PROVE  OnceStep(r, s)
<1>1. Counted(tasks', issues', links', s, ctx'[r])
  BY DEF Counted, AllPaired
<1>2. StillFree(links', s, ctx'[r])
  BY NothingTaken
<1>3. pc'[r] = s
  BY DEF Goto, TypeOK
<1> QED
  BY <1>1, <1>2, <1>3 DEF OnceStep

\* A unit that fails.
LEMMA OnceUnitFails ==
  ASSUME TypeOK, AgreeInv, NEW r \in Requests, NEW u,
         AllPaired(tasks, issues, links), Single(tasks, issues),
         StillFree(links, pc[r], ctx[r]), UNCHANGED <<tasks, issues, links>>,
         \/ pc[r] \in ExportLoop /\ ExportUnitFails(r, u)
         \/ pc[r] \in ImportLoop /\ ImportUnitFails(r, u)
  PROVE  \E s : OnceStep(r, s)
<1>1. /\ ctx[r] \in Context
      /\ [ctx[r] EXCEPT !.exportFailures = TRUE] \in Context
      /\ [ctx[r] EXCEPT !.failures = TRUE] \in Context
  BY ContextUpdates DEF TypeOK
<1>2. /\ [ctx[r] EXCEPT !.exportFailures = TRUE].work = ctx[r].work
      /\ [ctx[r] EXCEPT !.failures = TRUE].work = ctx[r].work
  BY <1>1 DEF Context
<1>3. CASE pc[r] \in ImportLoop /\ ImportUnitFails(r, u)
  <2>1. pc[r] \notin ExportLoop
    BY <1>3 DEF ExportLoop, ImportLoop
  <2> QED
    BY <1>1, <1>2, <1>3, <2>1, OnceUnitEnds DEF ImportUnitFails
<1>4. CASE pc[r] \in ExportLoop /\ NextUnit(r, u, [ctx[r] EXCEPT !.exportFailures = TRUE])
  <2>1. StillFree(links', "exportItem", [ctx[r] EXCEPT !.work = @ \ {u}])
    <3>1. [ctx[r] EXCEPT !.work = ctx[r].work \ {u}].work \subseteq ctx[r].work
      BY <1>1 DEF Context
    <3> QED
      BY <1>4, <3>1, FewerTaken
  <2> QED
    BY <1>1, <1>2, <1>4, <2>1, OnceUnitEnds
<1>5. CASE Goto(r, "exportFail")
  BY <1>5, OncePlain DEF ExportLoop
<1> QED
  BY <1>3, <1>4, <1>5 DEF ExportUnitFails

\* Reading the batch of an export.
LEMMA OnceExportRead ==
  ASSUME TypeOK, AgreeInv, NEW r \in Requests, ExportRead(r),
         AllPaired(tasks, issues, links), Single(tasks, issues)
  PROVE  \E s : OnceStep(r, s)
<1>1. UNCHANGED <<tasks, issues, links>>
  BY DEF ExportRead, dataVars
<1>2. CASE Goto(r, "exportFail") \/ Goto(r, "exportDone")
  BY <1>1, <1>2, OncePlain DEF ExportLoop
<1>3. CASE /\ ctx' = [ctx EXCEPT ![r].work = { ExportUnit(t) : t \in DirtyBatch }]
           /\ Goto(r, "exportItem")
  <2> DEFINE W == { ExportUnit(t) : t \in DirtyBatch }
  <2>1. ctx'[r].work = W /\ pc'[r] = "exportItem"
    <3>1. /\ ctx[r] \in Context /\ ctx'[r] = [ctx[r] EXCEPT !.work = W]
          /\ pc'[r] = "exportItem"
      BY <1>3 DEF TypeOK, Goto
    <3> HIDE DEF W
    <3> QED
      BY <3>1 DEF Context
  <2>2. \A t \in DirtyBatch : /\ ExportUnit(t).task = t
                              /\ ExportUnit(t).issue = 0 => LinkOf(t) = {}
    <3> SUFFICES ASSUME NEW t \in DirtyBatch, ExportUnit(t).issue = 0, LinkOf(t) # {}
                 PROVE  FALSE
      BY DEF ExportUnit
    <3>1. (CHOOSE l \in LinkOf(t) : TRUE) \in links
      BY DEF LinkOf
    <3>2. (CHOOSE l \in LinkOf(t) : TRUE).issue \in DOMAIN issues
      BY <3>1 DEF AgreeInv, Honest
    <3>3. 0 \notin DOMAIN issues
      BY LenProperties DEF TypeOK
    <3> QED
      BY <3>2, <3>3 DEF ExportUnit
  <2>3. \A u \in W : /\ u.issue = 0 => \A l \in links : l.task # u.task
                     /\ \A v \in W : v.task = u.task => v = u
    BY <2>2 DEF LinkOf
  <2> HIDE DEF W
  <2>4. StillFree(links', "exportItem", ctx'[r])
    BY <1>1, <2>1, <2>3 DEF StillFree
  <2>5. Counted(tasks', issues', links', "exportItem", ctx'[r])
    BY <1>1 DEF Counted, AllPaired
  <2> QED
    BY <1>1, <2>1, <2>4, <2>5 DEF OnceStep
<1> QED
  BY <1>2, <1>3 DEF ExportRead

\* A task becomes a new issue, or is written to the one it is linked to.
LEMMA OnceWriteIssue ==
  ASSUME TypeOK, AgreeInv, NEW r \in Requests, NEW u, Current(r, u),
         pc[r] = "exportItem", WriteIssue(r, u), Goto(r, "exportLink"),
         ctx' = [ctx EXCEPT ![r].stamp = clock + 1,
                            ![r].target = IF u.issue = 0 THEN Len(issues) + 1
                                          ELSE u.issue],
         AllPaired(tasks, issues, links), Single(tasks, issues),
         StillFree(links, pc[r], ctx[r])
  PROVE  OnceStep(r, "exportLink")
<1> DEFINE k == IF u.issue = 0 THEN Len(issues) + 1 ELSE u.issue
<1> DEFINE n == Created(r, u)
<1> DEFINE x == Rewritten(u)
<1>1. /\ ctx[r] \in Context /\ u \in Unit /\ u \in ctx[r].work /\ NewestOf(ctx[r].work, u)
      /\ DataOK
  BY DEF TypeOK, DataOK, Context, Current, NewestOf
<1>2. /\ ctx'[r].work = ctx[r].work /\ ctx'[r].target = k /\ pc'[r] = "exportLink"
  <2>1. ctx'[r] = [ctx[r] EXCEPT !.stamp = clock + 1, !.target = k]
    BY DEF TypeOK
  <2> HIDE DEF k
  <2> QED
    BY <1>1, <2>1 DEF Context, Goto, TypeOK
<1>3. /\ tasks' = tasks /\ links' = links
      /\ issues' = IF u.issue = 0 THEN Append(issues, n) ELSE [issues EXCEPT ![u.issue] = x]
  BY <1>1, IssueWritten
<1>4. n \in Item /\ n.origin = u.task
  BY <1>1, IssueWritten
<1>5. u.issue \in DOMAIN issues => x.origin = issues[u.issue].origin
  BY <1>1, IssueWritten
<1>6. \A v : NewestOf(ctx[r].work, v) => v = u
  BY <1>1, OneUnit DEF ExportLoop
<1>7. \A l \in links : l.issue \in DOMAIN issues
  BY DEF AgreeInv, Honest
<1> HIDE DEF n, x
<1>8. StillFree(links', "exportLink", ctx'[r])
  <2>1. u.issue = 0 => \A l \in links : l.issue # k
    BY <1>4, <1>7, OriginsAppended DEF TypeOK
  <2> HIDE DEF k
  <2> QED
    BY <1>2, <1>3, <1>6, <2>1 DEF StillFree, ExportLoop
<1>9. CASE u.issue # 0
  <2>1. OriginsKept(issues, issues')
    BY <1>3, <1>5, <1>9, OriginsUpdated DEF TypeOK
  <2>2. OriginsKept(tasks, tasks')
    BY <1>3 DEF OriginsKept
  <2>3. Counted(tasks', issues', links', "exportLink", ctx'[r]) /\ Single(tasks', issues')
    BY <1>3, <2>1, <2>2, NothingCreated
  <2> QED
    BY <1>2, <1>8, <2>3 DEF OnceStep
<1>10. CASE u.issue = 0
  <2>1. /\ DOMAIN issues' = DOMAIN issues \cup {k} /\ k \notin DOMAIN issues
        /\ issues'[k] = n
        /\ \A i \in DOMAIN issues : issues'[i] = issues[i]
    BY <1>3, <1>4, <1>10, OriginsAppended DEF TypeOK
  <2> HIDE DEF k
  <2>2. \A i \in DOMAIN issues' : i \in DOMAIN issues \/ i = k
    BY <2>1
  <2>3. \A i \in DOMAIN issues : issues[i].origin # u.task \/ u.task = 0
    <3>1. \A l \in links : l.task # u.task
      BY <1>1, <1>10 DEF StillFree, ExportLoop
    <3> QED
      BY <3>1 DEF AllPaired, Paired
  <2>4. AwaitsExportLink("exportLink", ctx'[r], u.task, k)
    BY <1>1, <1>2, <1>10 DEF AwaitsExportLink
  <2>5. Counted(tasks', issues', links', "exportLink", ctx'[r])
    <3>1. ASSUME NEW i \in DOMAIN issues', issues'[i].origin # 0
          PROVE  Paired(links', issues'[i].origin, i)
                 \/ AwaitsExportLink("exportLink", ctx'[r], issues'[i].origin, i)
      <4>1. CASE i \in DOMAIN issues
        BY <1>3, <2>1, <3>1, <4>1 DEF AllPaired
      <4>2. CASE i = k
        BY <1>4, <2>1, <2>4, <4>2
      <4> QED
        BY <2>2, <3>1, <4>1, <4>2
    <3> QED
      BY <1>3, <3>1 DEF Counted, AllPaired
  <2>6. Single(tasks', issues')
    <3>1. \A t \in DOMAIN tasks : tasks[t].origin # 0 =>
            tasks[t].origin \in DOMAIN issues /\ issues[tasks[t].origin].origin = 0
      BY <1>7 DEF AllPaired, Paired, Single
    <3>2. \A t \in DOMAIN tasks : tasks[t].origin # 0 => issues'[tasks[t].origin].origin = 0
      BY <2>1, <3>1
    <3>3. ASSUME NEW i \in DOMAIN issues', NEW j \in DOMAIN issues', i # j,
                 issues'[i].origin = issues'[j].origin
          PROVE  issues'[i].origin = 0
      <4>1. CASE i \in DOMAIN issues /\ j \in DOMAIN issues
        BY <2>1, <3>3, <4>1 DEF Single
      <4>2. CASE i = k
        <5>1. j \in DOMAIN issues /\ issues'[j] = issues[j] /\ issues'[i].origin = u.task
          BY <1>4, <2>1, <2>2, <3>3, <4>2
        <5> QED
          BY <2>3, <3>3, <5>1
      <4>3. CASE j = k
        <5>1. i \in DOMAIN issues /\ issues'[i] = issues[i] /\ issues'[j].origin = u.task
          BY <1>4, <2>1, <2>2, <3>3, <4>3
        <5> QED
          BY <2>3, <3>3, <5>1
      <4> QED
        BY <2>2, <4>1, <4>2, <4>3
    <3> QED
      BY <1>3, <3>2, <3>3 DEF Single
  <2> QED
    BY <1>2, <1>8, <2>5, <2>6 DEF OnceStep
<1> QED
  BY <1>9, <1>10

\* The link of an exported unit.
LEMMA OnceExportLink ==
  ASSUME TypeOK, AgreeInv, NEW r \in Requests, NEW u, Current(r, u), ExportLink(r, u),
         Counted(tasks, issues, links, pc[r], ctx[r]), Single(tasks, issues),
         StillFree(links, pc[r], ctx[r])
  PROVE  \E s : OnceStep(r, s)
<1> DEFINE l == [task |-> u.task, issue |-> ctx[r].target, local |-> u.at,
                 linear |-> ctx[r].stamp]
<1>1. /\ ctx[r] \in Context /\ u \in Unit /\ u \in ctx[r].work /\ NewestOf(ctx[r].work, u)
      /\ pc[r] = "exportLink" /\ UNCHANGED <<tasks, issues>> /\ pc[r] \in ExportLoop
  BY DEF TypeOK, Context, Current, NewestOf, ExportLink, LinkExported, ExportLoop
<1>2. \A v : NewestOf(ctx[r].work, v) => v = u
  BY <1>1, OneUnit
<1>3. l.task = u.task /\ l.issue = ctx[r].target
  OBVIOUS
<1>4. u.issue = 0 => MaySave(TRUE, l)
  BY <1>1, <1>3 DEF StillFree, MaySave, MayLink
<1>5. \/ /\ SaveLink(l)
         /\ NextUnit(r, u, [ctx[r] EXCEPT !.skip = @ \cup {l.issue}])
      \/ /\ ~MaySave(u.issue = 0, l)
         /\ ExportUnitFails(r, u)
         /\ UNCHANGED links
  BY DEF ExportLink, LinkExported
<1> HIDE DEF l
<1>6. CASE SaveLink(l) /\ NextUnit(r, u, [ctx[r] EXCEPT !.skip = @ \cup {l.issue}])
  <2>1. AllPaired(tasks, issues, links')
    <3>1. ASSUME NEW i \in DOMAIN issues, issues[i].origin # 0
          PROVE  Paired(links', issues[i].origin, i)
      <4>1. CASE Paired(links, issues[i].origin, i)
        BY <1>6, <4>1, PairSaved
      <4>2. CASE AwaitsExportLink(pc[r], ctx[r], issues[i].origin, i)
        BY <1>2, <1>3, <1>6, <4>2, PairSaved DEF AwaitsExportLink
      <4> QED
        BY <3>1, <4>1, <4>2 DEF Counted
    <3>2. \A t \in DOMAIN tasks : tasks[t].origin # 0 => Paired(links, t, tasks[t].origin)
      BY <1>1 DEF Counted, AwaitsImportLink
    <3> QED
      BY <1>6, <3>1, <3>2, PairSaved DEF AllPaired
  <2>2. ctx[r].skip \cup {l.issue} \in SUBSET Nat
    BY <1>1, <1>3 DEF Context
  <2>3. [ctx[r] EXCEPT !.skip = ctx[r].skip \cup {l.issue}] \in Context
    BY <1>1, <2>2, ContextUpdates
  <2>4. [ctx[r] EXCEPT !.skip = ctx[r].skip \cup {l.issue}].work = ctx[r].work
    BY <1>1 DEF Context
  <2>5. \E c \in Context : c.work = ctx[r].work /\ NextUnit(r, u, c)
    BY <1>6, <2>3, <2>4
  <2>6. StillFree(links', "exportItem", [ctx[r] EXCEPT !.work = @ \ {u}])
    <3>1. [ctx[r] EXCEPT !.work = ctx[r].work \ {u}].work = ctx[r].work \ {u}
      BY <1>1 DEF Context
    <3>2. \A v \in ctx[r].work \ {u} : v.task # l.task
      BY <1>1, <1>3 DEF StillFree
    <3>3. \A k \in links' : k \in links \/ k = l
      BY <1>6, PairSaved
    <3>4. \A v \in ctx[r].work \ {u} :
            /\ v.issue = 0 => \A k \in links' : k.task # v.task
            /\ \A w \in ctx[r].work \ {u} : w.task = v.task => w = v
      BY <1>1, <3>2, <3>3 DEF StillFree
    <3> QED
      BY <3>1, <3>4 DEF StillFree
  <2> QED
    BY <1>1, <2>1, <2>5, <2>6, OnceUnitEnds
<1>7. CASE ~MaySave(u.issue = 0, l) /\ ExportUnitFails(r, u) /\ UNCHANGED links
  <2>1. u.issue # 0
    <3> SUFFICES ASSUME u.issue = 0 PROVE FALSE
      OBVIOUS
    <3>1. MaySave(u.issue = 0, l)
      BY <1>4 DEF MaySave
    <3> QED
      BY <1>7, <3>1
  <2>2. AllPaired(tasks, issues, links)
    BY <1>1, <1>2, <2>1, NothingAwaited
  <2> QED
    BY <1>1, <1>7, <2>2, OnceUnitFails
<1> QED
  BY <1>5, <1>6, <1>7

\* Deciding what to do with an issue.
LEMMA OnceImportItem ==
  ASSUME TypeOK, AgreeInv, NEW r \in Requests, NEW u, First(r, u), ImportItem(r, u),
         AllPaired(tasks, issues, links), Single(tasks, issues)
  PROVE  \E s : OnceStep(r, s)
<1>1. /\ ctx[r] \in Context /\ u \in Unit /\ FirstOf(ctx[r].work, u)
      /\ pc[r] = "importItem" /\ UNCHANGED <<tasks, issues, links>> /\ pc[r] \in ImportLoop
  BY DEF TypeOK, Context, First, FirstOf, ImportItem, dataVars, ImportLoop
<1>2. \A s, c : Counted(tasks', issues', links', s, c)
  BY <1>1 DEF Counted, AllPaired
<1>3. CASE NextIssue(r, u, Seen(r, u))
  <2>1. pc'[r] \in {"importItem", "fetch", "importDone"}
    BY <1>3 DEF NextIssue, Goto, TypeOK
  <2>2. StillFree(links', pc'[r], ctx'[r])
    BY <2>1, NothingTaken DEF ExportLoop
  <2> QED
    BY <1>1, <1>2, <2>2 DEF OnceStep
<1>4. CASE LinksTo(u.issue) = {} /\ Goto(r, "createTask") /\ UNCHANGED ctx
  <2>1. pc'[r] = "createTask"
    BY <1>4 DEF Goto, TypeOK
  <2>2. \A v : FirstOf(ctx[r].work, v) => v = u
    BY <1>1, OneUnit
  <2>3. StillFree(links', "createTask", ctx'[r])
    BY <1>1, <1>4, <2>2 DEF StillFree, ExportLoop, LinksTo
  <2> QED
    BY <1>1, <1>2, <2>1, <2>3 DEF OnceStep
<1>5. CASE Goto(r, "writeTask")
  BY <1>1, <1>5, OncePlain DEF ExportLoop
<1> QED
  BY <1>3, <1>4, <1>5 DEF ImportItem

\* An issue becomes a new task.
LEMMA OnceCreateTask ==
  ASSUME TypeOK, AgreeInv, NEW r \in Requests, NEW u, First(r, u), CreateTask(r, u),
         AllPaired(tasks, issues, links), Single(tasks, issues),
         StillFree(links, pc[r], ctx[r])
  PROVE  OnceStep(r, "linkTask")
<1> DEFINE k == Len(tasks) + 1
<1> DEFINE n == NewTask(u)
<1>1. /\ ctx[r] \in Context /\ u \in Unit /\ FirstOf(ctx[r].work, u) /\ u \in ctx[r].work
      /\ pc[r] = "createTask" /\ pc'[r] = "linkTask" /\ pc[r] \in ImportLoop
      /\ UNCHANGED <<issues, links>> /\ tasks' = Append(tasks, n) /\ DataOK
  BY DEF TypeOK, DataOK, Context, First, FirstOf, CreateTask, NewTask, Goto, ImportLoop
<1>2. ctx'[r].work = ctx[r].work /\ ctx'[r].target = k
  <2>1. ctx'[r] = [ctx[r] EXCEPT !.target = k, !.stamp = clock + 1]
    BY DEF CreateTask, TypeOK
  <2> HIDE DEF k
  <2> QED
    BY <1>1, <2>1 DEF Context
<1>3. n \in Item /\ n.origin = u.issue
  BY <1>1, TaskWritten
<1> HIDE DEF n
<1>4. /\ DOMAIN tasks' = DOMAIN tasks \cup {k} /\ k \notin DOMAIN tasks
      /\ tasks'[k] = n
      /\ \A t \in DOMAIN tasks : tasks'[t] = tasks[t]
  BY <1>1, <1>3, OriginsAppended DEF TypeOK
<1> HIDE DEF k
<1>5. \A v : FirstOf(ctx[r].work, v) => v = u
  BY <1>1, OneUnit
<1>6. \A l \in links : l.task \in DOMAIN tasks /\ l.issue \in DOMAIN issues
  BY DEF AgreeInv, Honest
<1>7. \A l \in links : l.issue # u.issue /\ l.task # k
  BY <1>1, <1>4, <1>6 DEF StillFree
<1>8. StillFree(links', "linkTask", ctx'[r])
  BY <1>1, <1>2, <1>5, <1>7 DEF StillFree, ExportLoop
<1>9. \A t \in DOMAIN tasks' : t \in DOMAIN tasks \/ t = k
  BY <1>4
<1>10. /\ \A t \in DOMAIN tasks : tasks[t].origin # u.issue \/ u.issue = 0
       /\ u.issue \in DOMAIN issues /\ issues[u.issue].origin = 0
  <2>1. CopiesTrue(tasks, issues, clock, pc[r], ctx[r])
    BY DEF AgreeInv
  <2>2. u.issue \in DOMAIN issues
    BY <1>1, <2>1 DEF CopiesTrue, ImportTrue, Fresh
  <2> QED
    BY <1>7, <2>2 DEF AllPaired, Paired
<1>11. Counted(tasks', issues', links', "linkTask", ctx'[r])
  <2>1. AwaitsImportLink("linkTask", ctx'[r], k, u.issue)
    BY <1>1, <1>2 DEF AwaitsImportLink
  <2>2. ASSUME NEW t \in DOMAIN tasks', tasks'[t].origin # 0
        PROVE  Paired(links', t, tasks'[t].origin)
               \/ AwaitsImportLink("linkTask", ctx'[r], t, tasks'[t].origin)
    <3>1. CASE t \in DOMAIN tasks
      BY <1>1, <1>4, <2>2, <3>1 DEF AllPaired
    <3>2. CASE t = k
      BY <1>3, <1>4, <2>1, <3>2
    <3> QED
      BY <1>9, <2>2, <3>1, <3>2
  <2> QED
    BY <1>1, <2>2 DEF Counted, AllPaired
<1>12. Single(tasks', issues')
  <2>1. ASSUME NEW t \in DOMAIN tasks', NEW s \in DOMAIN tasks', t # s,
               tasks'[t].origin = tasks'[s].origin
        PROVE  tasks'[t].origin = 0
    <3>1. CASE t \in DOMAIN tasks /\ s \in DOMAIN tasks
      BY <1>4, <2>1, <3>1 DEF Single
    <3>2. CASE t = k
      <4>1. s \in DOMAIN tasks /\ tasks'[s] = tasks[s] /\ tasks'[t].origin = u.issue
        BY <1>3, <1>4, <1>9, <2>1, <3>2
      <4> QED
        BY <1>10, <2>1, <4>1
    <3>3. CASE s = k
      <4>1. t \in DOMAIN tasks /\ tasks'[t] = tasks[t] /\ tasks'[s].origin = u.issue
        BY <1>3, <1>4, <1>9, <2>1, <3>3
      <4> QED
        BY <1>10, <2>1, <4>1
    <3> QED
      BY <1>9, <3>1, <3>2, <3>3
  <2>2. ASSUME NEW t \in DOMAIN tasks', tasks'[t].origin # 0
        PROVE  issues[tasks'[t].origin].origin = 0
    <3>1. CASE t \in DOMAIN tasks
      BY <1>4, <2>2, <3>1 DEF Single
    <3>2. CASE t = k
      BY <1>3, <1>4, <1>10, <3>2
    <3> QED
      BY <1>9, <3>1, <3>2
  <2> QED
    BY <1>1, <2>1, <2>2 DEF Single
<1> QED
  BY <1>1, <1>8, <1>11, <1>12 DEF OnceStep

\* An issue overwrites its task.
LEMMA OnceWriteTask ==
  ASSUME TypeOK, AgreeInv, NEW r \in Requests, NEW u \in Unit, WriteTask(r, u),
         AllPaired(tasks, issues, links), Single(tasks, issues)
  PROVE  OnceStep(r, "writeLink")
<1> DEFINE k == ctx[r].target
<1> DEFINE x == Overwritten(k, u)
<1>1. pc'[r] = "writeLink" /\ UNCHANGED <<issues, links>> /\ tasks' = [tasks EXCEPT ![k] = x]
  BY DEF TypeOK, WriteTask, Overwritten, Goto
<1>2. k \in DOMAIN tasks => x.origin = tasks[k].origin
  BY TaskWritten DEF TypeOK, DataOK
<1> HIDE DEF k, x
<1>3. OriginsKept(tasks, tasks')
  BY <1>1, <1>2, OriginsUpdated DEF TypeOK
<1>4. OriginsKept(issues, issues')
  BY <1>1 DEF OriginsKept
<1>5. Counted(tasks', issues', links', "writeLink", ctx'[r]) /\ Single(tasks', issues')
  BY <1>1, <1>3, <1>4, NothingCreated
<1>6. StillFree(links', "writeLink", ctx'[r])
  BY NothingTaken DEF ExportLoop
<1> QED
  BY <1>1, <1>5, <1>6 DEF OnceStep

\* The link of an imported issue.
LEMMA OnceSaveLink ==
  ASSUME TypeOK, AgreeInv, NEW r \in Requests, NEW u, First(r, u), SaveImportedLink(r, u),
         Counted(tasks, issues, links, pc[r], ctx[r]), Single(tasks, issues),
         StillFree(links, pc[r], ctx[r])
  PROVE  \E s : OnceStep(r, s)
<1> DEFINE l == [task |-> ctx[r].target, issue |-> u.issue, local |-> ctx[r].stamp,
                 linear |-> u.at]
<1>1. /\ ctx[r] \in Context /\ u \in Unit /\ FirstOf(ctx[r].work, u)
      /\ pc[r] \in {"linkTask", "writeLink"} /\ UNCHANGED <<tasks, issues>>
      /\ pc[r] \in ImportLoop /\ pc[r] \notin ExportLoop
  BY DEF TypeOK, Context, First, FirstOf, SaveImportedLink, LinkImported, ImportLoop, ExportLoop
<1>2. \A v : FirstOf(ctx[r].work, v) => v = u
  BY <1>1, OneUnit
<1>3. l.task = ctx[r].target /\ l.issue = u.issue
  OBVIOUS
<1>4. \/ SaveLink(l) /\ NextIssue(r, u, Seen(r, u))
      \/ ~MaySave(pc[r] = "linkTask", l) /\ ImportUnitFails(r, u) /\ UNCHANGED links
  BY DEF SaveImportedLink, LinkImported
<1> HIDE DEF l
<1>5. pc[r] = "linkTask" => MaySave(pc[r] = "linkTask", l)
  BY <1>1, <1>3 DEF StillFree, MaySave, MayLink
<1>6. CASE SaveLink(l) /\ NextIssue(r, u, Seen(r, u))
  <2>1. AllPaired(tasks, issues, links')
    <3>1. ASSUME NEW t \in DOMAIN tasks, tasks[t].origin # 0
          PROVE  Paired(links', t, tasks[t].origin)
      <4>1. CASE Paired(links, t, tasks[t].origin)
        BY <1>6, <4>1, PairSaved
      <4>2. CASE AwaitsImportLink(pc[r], ctx[r], t, tasks[t].origin)
        BY <1>2, <1>3, <1>6, <4>2, PairSaved DEF AwaitsImportLink
      <4> QED
        BY <3>1, <4>1, <4>2 DEF Counted
    <3>2. \A i \in DOMAIN issues : issues[i].origin # 0 => Paired(links, issues[i].origin, i)
      BY <1>1 DEF Counted, AwaitsExportLink
    <3> QED
      BY <1>6, <3>1, <3>2, PairSaved DEF AllPaired
  <2>2. \A s, c : Counted(tasks', issues', links', s, c)
    BY <1>1, <2>1 DEF Counted, AllPaired
  <2>3. pc'[r] \in {"importItem", "fetch", "importDone"}
    BY <1>6 DEF NextIssue, Goto, TypeOK
  <2>4. StillFree(links', pc'[r], ctx'[r])
    BY <2>3, NothingTaken DEF ExportLoop
  <2> QED
    BY <1>1, <2>2, <2>4 DEF OnceStep
<1>7. CASE ~MaySave(pc[r] = "linkTask", l) /\ ImportUnitFails(r, u) /\ UNCHANGED links
  <2>1. pc[r] # "linkTask" /\ pc[r] # "exportLink"
    BY <1>1, <1>5, <1>7
  <2>2. AllPaired(tasks, issues, links)
    BY <2>1, NothingAwaited
  <2> QED
    BY <1>1, <1>7, <2>2, OnceUnitFails
<1> QED
  BY <1>4, <1>6, <1>7

\* The steps that handle no unit.
LEMMA OnceOther ==
  ASSUME TypeOK, AgreeInv, NEW r \in Requests,
         AllPaired(tasks, issues, links), Single(tasks, issues),
         \/ CreateRun(r)
         \/ ExportCheck(r) \/ ExportLock(r)
         \/ ExportDone(r) \/ ExportFail(r) \/ ExportRun(r) \/ SyncRunFailed(r)
         \/ ImportCheck(r) \/ ImportLock(r) \/ Fetch(r) \/ ImportDone(r)
         \/ FinishRun(r) \/ ImportFail(r) \/ ImportRunFailed(r) \/ SyncRunPartial(r)
  PROVE  \E s : OnceStep(r, s)
<1>1. UNCHANGED <<tasks, issues, links>>
  BY DEF CreateRun, ExportCheck, ExportLock, ExportDone, ExportFail, ExportRun,
     SyncRunFailed, ImportCheck, ImportLock, Fetch, ImportDone, FinishRun, ImportFail,
     ImportRunFailed, SyncRunPartial, EndRun, dataVars
<1>2. \E s : s \notin ExportLoop \cup {"createTask", "linkTask"} /\ Goto(r, s)
  BY DEF CreateRun, ExportCheck, ExportLock, ExportDone, ExportFail, ExportRun,
     SyncRunFailed, ImportCheck, ImportLock, Fetch, ImportDone, FinishRun, ImportFail,
     ImportRunFailed, SyncRunPartial, ThrowFromExport, ThrowFromImport,
     SetSyncing, ExportLoop
<1> QED
  BY <1>1, <1>2, OncePlain

\* All steps of a request that meets no fault.
LEMMA OnceRequest ==
  ASSUME TypeOK, AgreeInv, NEW r \in Requests, RequestStep(r),
         Counted(tasks, issues, links, pc[r], ctx[r]), Single(tasks, issues),
         StillFree(links, pc[r], ctx[r])
  PROVE  \E s : OnceStep(r, s)
<1>1. pc[r] \notin {"exportLink", "linkTask"} => AllPaired(tasks, issues, links)
  BY NothingAwaited
<1>2. CASE \E u \in ctx[r].work : Current(r, u) /\ ExportItem(r, u)
  <2>1. PICK u \in ctx[r].work : Current(r, u) /\ ExportItem(r, u)
    BY <1>2
  <2>2. pc[r] = "exportItem" /\ AllPaired(tasks, issues, links) /\ pc[r] \in ExportLoop
    BY <1>1, <2>1 DEF ExportItem, ExportLoop
  <2>3. CASE ExportUnitFails(r, u) /\ UNCHANGED dataVars
    BY <2>2, <2>3, OnceUnitFails DEF dataVars
  <2>4. CASE /\ WriteIssue(r, u)
             /\ ctx' = [ctx EXCEPT ![r].stamp = clock + 1,
                                   ![r].target = IF u.issue = 0 THEN Len(issues) + 1
                                                 ELSE u.issue]
             /\ Goto(r, "exportLink")
    BY <2>1, <2>2, <2>4, OnceWriteIssue
  <2> QED
    BY <2>1, <2>3, <2>4 DEF ExportItem
<1>3. CASE \E u \in ctx[r].work : Current(r, u) /\ ExportLink(r, u)
  BY <1>3, OnceExportLink
<1>4. CASE \E u \in ctx[r].work : First(r, u) /\ (ImportItem(r, u) \/ WriteTask(r, u))
  <2>1. PICK u \in ctx[r].work : First(r, u) /\ (ImportItem(r, u) \/ WriteTask(r, u))
    BY <1>4
  <2>2. AllPaired(tasks, issues, links)
    BY <1>1, <2>1 DEF ImportItem, WriteTask
  <2>3. u \in Unit
    BY <2>1 DEF TypeOK, Context
  <2> QED
    BY <2>1, <2>2, <2>3, OnceImportItem, OnceWriteTask
<1>5. CASE \E u \in ctx[r].work : First(r, u) /\ CreateTask(r, u)
  <2>1. AllPaired(tasks, issues, links)
    BY <1>1, <1>5 DEF CreateTask
  <2> QED
    BY <1>5, <2>1, OnceCreateTask
<1>6. CASE \E u \in ctx[r].work : First(r, u) /\ SaveImportedLink(r, u)
  BY <1>6, OnceSaveLink
<1>7. CASE ExportRead(r)
  <2>1. AllPaired(tasks, issues, links)
    BY <1>1, <1>7 DEF ExportRead
  <2> QED
    BY <1>7, <2>1, OnceExportRead
<1>8. CASE \/ CreateRun(r)
           \/ ExportCheck(r) \/ ExportLock(r)
           \/ ExportDone(r) \/ ExportFail(r) \/ ExportRun(r) \/ SyncRunFailed(r)
           \/ ImportCheck(r) \/ ImportLock(r) \/ Fetch(r) \/ ImportDone(r)
           \/ FinishRun(r) \/ ImportFail(r) \/ ImportRunFailed(r) \/ SyncRunPartial(r)
  <2>1. AllPaired(tasks, issues, links)
    BY <1>1, <1>8 DEF CreateRun, ExportCheck, ExportLock, ExportDone, ExportFail, ExportRun,
       SyncRunFailed, ImportCheck, ImportLock, Fetch, ImportDone, FinishRun, ImportFail,
       ImportRunFailed, SyncRunPartial, EndRun
  <2> QED
    BY <1>8, <2>1, OnceOther
<1> QED
  BY <1>2, <1>3, <1>4, <1>5, <1>6, <1>7, <1>8 DEF RequestStep, ExportStep, ImportStep

\* Users give nothing a counterpart.
LEMMA OnceUsers ==
  ASSUME TypeOK, AgreeInv, NEW r \in Requests,
         Counted(tasks, issues, links, pc[r], ctx[r]), Single(tasks, issues),
         StillFree(links, pc[r], ctx[r]),
         \/ UserStep
  PROVE  OnceStep(r, pc[r])
<1>1. /\ links' = links /\ pc' = pc /\ ctx[r] \in Context
      /\ ctx'[r] = [ctx[r] EXCEPT !.quiet = FALSE]
  BY DEF UserStep, AddTask, AddIssue, EditTask, EditIssue, Edit, TypeOK
<1>2. ctx'[r].work = ctx[r].work /\ ctx'[r].target = ctx[r].target
  BY <1>1 DEF Context
<1>3. OriginsKept(tasks, tasks') /\ OriginsKept(issues, issues')
  <2>1. DataOK
    BY DEF TypeOK, DataOK
  <2>2. PICK note \in Notes :
          \/ AddTask(note)
          \/ \E home \in LinearProjects : AddIssue(home, note)
          \/ \E t \in DOMAIN tasks : EditTask(t, note)
          \/ \E i \in DOMAIN issues : EditIssue(i, note)
    BY DEF UserStep
  <2>3. UNCHANGED tasks => OriginsKept(tasks, tasks')
    BY DEF OriginsKept
  <2>4. UNCHANGED issues => OriginsKept(issues, issues')
    BY DEF OriginsKept
  <2>5. CASE AddTask(note)
    <3>1. NewItem("app", note) \in Item /\ NewItem("app", note).origin = 0
      BY <2>1, NewItems DEF Homes
    <3> QED
      BY <2>4, <2>5, <3>1, OriginsAppended DEF AddTask, TypeOK
  <2>6. ASSUME NEW home \in LinearProjects, AddIssue(home, note)
        PROVE  OriginsKept(tasks, tasks') /\ OriginsKept(issues, issues')
    <3>1. NewItem(home, note) \in Item /\ NewItem(home, note).origin = 0
      BY <2>1, NewItems DEF Homes
    <3> QED
      BY <2>3, <2>6, <3>1, OriginsAppended DEF AddIssue, TypeOK
  <2>7. ASSUME NEW t \in DOMAIN tasks, EditTask(t, note)
        PROVE  OriginsKept(tasks, tasks') /\ OriginsKept(issues, issues')
    <3>1. tasks[t] \in Item
      BY ItemFields DEF TypeOK
    <3>2. Edited(tasks[t], note).origin = tasks[t].origin
      BY <2>1, <3>1, NewItems DEF Homes
    <3> QED
      BY <2>4, <2>7, <3>2, OriginsUpdated DEF EditTask, TypeOK
  <2>8. ASSUME NEW i \in DOMAIN issues, EditIssue(i, note)
        PROVE  OriginsKept(tasks, tasks') /\ OriginsKept(issues, issues')
    <3>1. issues[i] \in Item
      BY ItemFields DEF TypeOK
    <3>2. Edited(issues[i], note).origin = issues[i].origin
      BY <2>1, <3>1, NewItems DEF Homes
    <3> QED
      BY <2>3, <2>8, <3>2, OriginsUpdated DEF EditIssue, TypeOK
  <2> QED
    BY <2>2, <2>5, <2>6, <2>7, <2>8
<1>4. StillFree(links', pc[r], ctx'[r])
  BY <1>1, <1>2 DEF StillFree
<1>5. Counted(tasks', issues', links', pc[r], ctx'[r])
  BY <1>1, <1>2, <1>3 DEF Counted, OriginsKept, AwaitsExportLink, AwaitsImportLink
<1>6. Single(tasks', issues')
  <2>1. \A t \in DOMAIN tasks : tasks[t].origin # 0 => tasks[t].origin \in DOMAIN issues
    <3> SUFFICES ASSUME NEW t \in DOMAIN tasks, tasks[t].origin # 0
                 PROVE  tasks[t].origin \in DOMAIN issues
      OBVIOUS
    <3>1. CASE Paired(links, t, tasks[t].origin)
      BY <3>1 DEF Paired, AgreeInv, Honest
    <3>2. CASE AwaitsImportLink(pc[r], ctx[r], t, tasks[t].origin)
      <4>1. PICK u \in ctx[r].work : u.issue = tasks[t].origin
        BY <3>2 DEF AwaitsImportLink, FirstOf
      <4>2. CopiesTrue(tasks, issues, clock, "linkTask", ctx[r])
        BY <3>2 DEF AgreeInv, AwaitsImportLink
      <4> QED
        BY <4>1, <4>2 DEF CopiesTrue, ImportTrue, ImportLoop, Fresh
    <3> QED
      BY <3>1, <3>2 DEF Counted
  <2> QED
    BY <1>3, <2>1 DEF Single, OriginsKept
<1> QED
  BY <1>1, <1>4, <1>5, <1>6 DEF OnceStep

\* The invariant is preserved.
LEMMA OnceNext ==
  ASSUME TypeOK, AgreeInv, NEW q, Requests = {q}, used.links = 0 => ~linked,
         OnceInv(q), [Next]_vars
  PROVE  OnceInv(q)'
<1>1. used.links \in Nat /\ used.faults \in Nat
  BY DEF TypeOK
<1>2. ASSUME \E s : OnceStep(q, s) PROVE OnceInv(q)'
  BY <1>2 DEF OnceStep, OnceInv
<1>3. CASE \/ UserStep
  <2>1. used'.links = used.links /\ used'.faults = used.faults
    BY <1>3 DEF UserStep, AddTask, AddIssue, EditTask, EditIssue, Edit, TypeOK
  <2> QED
    BY <1>2, <1>3, <2>1, OnceUsers DEF OnceInv
<1>4. CASE \E p \in LinearProjects : LinkProject(p)
  <2>1. /\ UNCHANGED <<tasks, issues, links, pc, ctx>>
        /\ used'.links = used.links + 1 /\ used'.faults = used.faults
    BY <1>4 DEF LinkProject, CountLink, TypeOK
  <2>2. used'.links <= 1 => used.links <= 1
    BY <1>1, <2>1
  <2> QED
    BY <2>1, <2>2 DEF OnceInv
<1>5. CASE UnlinkProject
  <2>1. used'.links = used.links + 1 /\ used.links # 0
    BY <1>5 DEF UnlinkProject, CountLink, TypeOK
  <2>2. ~(used'.links <= 1)
    BY <1>1, <2>1
  <2> QED
    BY <2>2 DEF OnceInv
<1>6. ASSUME NEW u, ExportReplyLost(q, u) \/ QueryFails(q, u) \/ Crash(q)
      PROVE  OnceInv(q)'
  <2>1. used'.faults = used.faults + 1
    BY <1>6 DEF ExportReplyLost, QueryFails, Crash, TypeOK
  <2>2. used'.faults # 0
    BY <1>1, <2>1
  <2> QED
    BY <2>2 DEF OnceInv
<1>7. ASSUME NEW kind \in Kinds, Begin(q, kind)
      PROVE  OnceInv(q)'
  <2>1. /\ UNCHANGED <<tasks, issues, links>> /\ pc[q] = "idle"
        /\ used'.links = used.links /\ used'.faults = used.faults
    BY <1>7 DEF Begin, dataVars, TypeOK
  <2>2. Goto(q, "exportCheck") \/ Goto(q, "createRun")
    BY <1>7 DEF Begin
  <2> SUFFICES ASSUME used.faults = 0, used.links <= 1 PROVE OnceInv(q)'
    BY <2>1 DEF OnceInv
  <2>3. AllPaired(tasks, issues, links)
    BY <2>1, NothingAwaited DEF OnceInv
  <2>4. \E s : OnceStep(q, s)
    BY <2>1, <2>2, <2>3, OncePlain DEF OnceInv, ExportLoop
  <2> QED
    BY <1>2, <2>4
<1>8. CASE RequestStep(q)
  <2>1. used'.links = used.links
    BY <1>8, RequestsKeepLinked
  <2>2. used' = used
    BY <1>8 DEF RequestStep, ExportStep, ImportStep, CreateRun, ExportCheck, ExportLock,
       ExportRead, ExportItem, ExportLink, LinkExported, ExportDone, ExportFail, ExportRun,
       SyncRunFailed, ImportCheck, ImportLock, Fetch, ImportItem, CreateTask, WriteTask,
       SaveImportedLink, LinkImported, ImportDone, FinishRun, ImportFail, ImportRunFailed,
       SyncRunPartial, EndRun
  <2> QED
    BY <1>2, <1>8, <2>2, OnceRequest DEF OnceInv
<1>9. CASE UNCHANGED vars
  BY <1>9 DEF vars, dataVars, OnceInv
<1> QED
  BY <1>3, <1>4, <1>5, <1>6, <1>7, <1>8, <1>9 DEF Next

(***************************************************************************)
(* With one request at a time, no fault and no unlinking, no task or issue *)
(* gets a second counterpart, and what was exported does not come back as  *)
(* a new task: whatever users edit meanwhile, whatever requests fail, and  *)
(* for every batch size.                                                   *)
(***************************************************************************)
THEOREM CounterpartsAreUnique ==
  ASSUME NEW q, Requests = {q}
  PROVE  Spec => []OneCounterpart
<1>1. ASSUME Init PROVE CatchInv(q) /\ OnceInv(q)
  <2>1. /\ linked = FALSE /\ DOMAIN issues = {} /\ pc[q] = "idle" /\ run[q] = "none"
        /\ DOMAIN tasks = {} /\ ctx[q].kind = "none"
    BY <1>1 DEF Init, NoContext
  <2>2. Counted(tasks, issues, links, pc[q], ctx[q]) /\ Single(tasks, issues)
    BY <2>1 DEF Counted, Single
  <2>3. StillFree(links, pc[q], ctx[q])
    BY <2>1, NothingTaken DEF ExportLoop
  <2> QED
    BY <2>1, <2>2, <2>3 DEF CatchInv, ImportShape, ProgressMade, AllSettled, Undisturbed,
       OnceInv
<1>2. ASSUME TypeOK, AgreeInv, CatchInv(q), [Next]_vars PROVE CatchInv(q)'
  BY <1>2, RequestAdvances, BeginAdvances, UsersAdvance DEF Next
<1>3. ASSUME TypeOK, AgreeInv, CatchInv(q), OnceInv(q), [Next]_vars PROVE OnceInv(q)'
  BY <1>3, OnceNext DEF CatchInv
<1>4. OnceInv(q) => OneCounterpart
  BY DEF OnceInv, OneCounterpart, Single
<1> QED
  BY <1>1, <1>2, <1>3, <1>4, AgreeInit, AgreeNext, TypeCorrect, PTL DEF Spec
=============================================================================
