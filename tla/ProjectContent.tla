--------------------------- MODULE ProjectContent ---------------------------
(***************************************************************************)
(* What the members of a project write: its tasks, documents, requirements *)
(* and skills, and the keys by which an MCP client may read the project    *)
(* and complete its tasks.                                                 *)
(***************************************************************************)
EXTENDS ApiRequests, FiniteSetsExt

\* A request to update a task names no assignee.
Unnamed == "unnamed"

ASSUME ContentAssumption == Unnamed \notin Users \cup {None}

VARIABLES
  tasks,         \* ProjectTask rows: column, position and assignee
  docs,          \* ProjectDocumentation rows: content and version
  requirements,  \* ProjectRequirement rows
  skills,        \* Skill rows: their slugs
  keys           \* ProjectApiKey rows: name, and whether the key has expired

contentVars == <<tasks, docs, requirements, skills, keys>>

Columns   == {"todo", "done"}
Positions == 0 .. 1   \* bound: positions that requests give
Texts     == {"a", "b"}
Names     == {"a", "b"}   \* of keys, and slugs of skills

ContentInit ==
  /\ tasks = [i \in FirstRow({"tasks", "keys"}) |->
                [col |-> "todo", pos |-> 0, who |-> None]]
  /\ docs = [i \in FirstRow({"docs"}) |-> [text |-> "a", version |-> 1]]
  /\ requirements = FirstRow({"rows"})
  /\ skills = [i \in FirstRow({"rows"}) |-> "a"]
  /\ keys = [i \in FirstRow({"keys"}) |-> [name |-> "a", expired |-> FALSE]]

ContentTypeOK ==
  /\ RowsOf(tasks, [col : Columns, pos : Nat, who : Users \cup {None}])
  /\ RowsOf(docs, [text : Texts, version : Nat])
  /\ requirements \subseteq Rows
  /\ RowsOf(skills, Names)
  /\ RowsOf(keys, [name : Names, expired : BOOLEAN])

What(r) == ctx[r].what
Found(r, rows) == What(r).row \in rows

-----------------------------------------------------------------------------
(* Tasks.  None for a position or a column: the request gives none; None   *)
(* for an assignee: nobody.  A client asks for rows that it has seen; each  *)
(* may be gone when its turn comes.                                        *)

AcceptTaskRequest(r) ==
  /\ area = "tasks"
  /\ \E u \in Users :
       \/ \E c \in Columns, p \in {None, 0}, v \in Users \cup {None} :
            Accept(r, u, Contributors, "createTask", [col |-> c, pos |-> p, who |-> v])
       \/ \E i \in DOMAIN tasks, c \in Columns \cup {None}, p \in {None, 0},
             v \in Users \cup {None, Unnamed} :
            Accept(r, u, Contributors, "updateTask",
                   [row |-> i, col |-> c, pos |-> p, who |-> v])
       \/ \E f \in [DOMAIN tasks -> [pos : Positions, col : Columns \cup {None}]] :
            Accept(r, u, Contributors, "reorderTasks", f)
       \/ \E i \in DOMAIN tasks : Accept(r, u, Managers, "removeTask", [row |-> i])
  /\ UNCHANGED contentVars

FindTask(r) ==
  /\ at[r] = "accepted"
  /\ ctx[r].op \in {"updateTask", "removeTask", "completeTask"}
  /\ Found(r, DOMAIN tasks)
  /\ Goto(r, "found", None)
  /\ UNCHANGED <<projectVars, contentVars>>

\* Mutant: the assignee is not looked up.
AnyAssignee(v) == TRUE

EnsureAssigneeIsProjectMember(v) ==
  v \in {None, Unnamed} \cup {u \in Users : role[u] # None}

CheckAssignee(r) ==
  /\ On(r, "createTask", "accepted") \/ On(r, "updateTask", "found")
  /\ EnsureAssigneeIsProjectMember(What(r).who)
  /\ Goto(r, "checked", None)
  /\ UNCHANGED <<projectVars, contentVars>>

Positioned(c) == {tasks[i].pos : i \in {k \in DOMAIN tasks : tasks[k].col = c}}

\* Mutant: the position of the last task.
LastSortOrder(c) == Max(Positioned(c) \cup {-1})

\* The first position after all tasks of column c.
NextSortOrder(c) == Max(Positioned(c) \cup {-1}) + 1

PlaceTask(r) ==
  /\ On(r, "createTask", "checked")
  /\ Goto(r, "placed",
          IF What(r).pos = None THEN NextSortOrder(What(r).col) ELSE What(r).pos)
  /\ UNCHANGED <<projectVars, contentVars>>

CreateTask(r) ==
  /\ On(r, "createTask", "placed")
  /\ project = "live"
  /\ tasks' = Put(tasks, r, [col |-> What(r).col, pos |-> ctx[r].seen,
                             who |-> What(r).who])
  /\ Write(r, "log")
  /\ UNCHANGED <<projectVars, docs, requirements, skills, keys>>

Given(x, old) == IF x = None THEN old ELSE x

\* Task t with what the request x names.
Updated(t, x) == [col |-> Given(x.col, t.col), pos |-> Given(x.pos, t.pos),
                  who |-> IF x.who = Unnamed THEN t.who ELSE x.who]

\* A column given alone keeps the position that the task had in its old one.
UpdateTask(r) ==
  /\ On(r, "updateTask", "checked")
  /\ Found(r, DOMAIN tasks)
  /\ tasks' = [tasks EXCEPT ![What(r).row] = Updated(@, What(r))]
  /\ Write(r, "log")
  /\ UNCHANGED <<projectVars, docs, requirements, skills, keys>>

FindTasks(r) ==
  /\ On(r, "reorderTasks", "accepted")
  /\ DOMAIN What(r) # {}
  /\ DOMAIN What(r) \subseteq DOMAIN tasks
  /\ Goto(r, "found", None)
  /\ UNCHANGED <<projectVars, contentVars>>

\* Task t at the place p, in its column if p names none.
Moved(t, p) == [col |-> Given(p.col, t.col), pos |-> p.pos, who |-> t.who]

\* All the tasks of the request move in one transaction, or none.
ReorderTasks(r) ==
  /\ On(r, "reorderTasks", "found")
  /\ DOMAIN What(r) \subseteq DOMAIN tasks
  /\ tasks' = [i \in DOMAIN tasks |->
                 IF i \in DOMAIN What(r) THEN Moved(tasks[i], What(r)[i]) ELSE tasks[i]]
  /\ Write(r, "log")
  /\ UNCHANGED <<projectVars, docs, requirements, skills, keys>>

RemoveTask(r) ==
  /\ On(r, "removeTask", "found")
  /\ Found(r, DOMAIN tasks)
  /\ tasks' = Drop(tasks, What(r).row)
  /\ Write(r, "log")
  /\ UNCHANGED <<projectVars, docs, requirements, skills, keys>>

TaskStep(r) ==
  \/ AcceptTaskRequest(r) \/ FindTask(r) \/ CheckAssignee(r) \/ PlaceTask(r)
  \/ CreateTask(r) \/ UpdateTask(r) \/ FindTasks(r) \/ ReorderTasks(r) \/ RemoveTask(r)

-----------------------------------------------------------------------------
(* Keys, and the MCP client that uses one.                                 *)

AcceptKeyRequest(r) ==
  /\ area = "keys"
  /\ \E u \in Users :
       \/ \E n \in Names : Accept(r, u, Managers, "createKey", [name |-> n])
       \/ \E i \in DOMAIN keys : Accept(r, u, Managers, "revokeKey", [row |-> i])
  /\ UNCHANGED contentVars

\* Mutant: names are not compared.
AnyName(n) == TRUE

NameFree(n) == \A i \in DOMAIN keys : keys[i].name # n

CheckName(r) ==
  /\ On(r, "createKey", "accepted")
  /\ project = "live"
  /\ NameFree(What(r).name)
  /\ Goto(r, "free", None)
  /\ UNCHANGED <<projectVars, contentVars>>

CreateKey(r) ==
  /\ On(r, "createKey", "free")
  /\ project = "live"
  /\ keys' = Put(keys, r, [name |-> What(r).name, expired |-> FALSE])
  /\ Write(r, "done")
  /\ UNCHANGED <<projectVars, tasks, docs, requirements, skills>>

FindKey(r) ==
  /\ On(r, "revokeKey", "accepted")
  /\ Found(r, DOMAIN keys)
  /\ Goto(r, "found", None)
  /\ UNCHANGED <<projectVars, contentVars>>

RevokeKey(r) ==
  /\ On(r, "revokeKey", "found")
  /\ Found(r, DOMAIN keys)
  /\ keys' = Drop(keys, What(r).row)
  /\ Write(r, "done")
  /\ UNCHANGED <<projectVars, tasks, docs, requirements, skills>>

\* A key reaches its date.
KeyExpires(i) ==
  /\ area = "keys"
  /\ keys' = [keys EXCEPT ![i].expired = TRUE]
  /\ UNCHANGED <<baseVars, tasks, docs, requirements, skills>>

\* ApiKeyGuard looks up the key k of a client, which wants to complete task i.
FindsKey(r) ==
  /\ area = "keys"
  /\ \E k \in DOMAIN keys, i \in DOMAIN tasks :
       /\ ~keys[k].expired
       /\ MayStart(r)
       /\ at' = [at EXCEPT ![r] = "touch"]
       /\ ctx' = [ctx EXCEPT ![r] = Context("completeTask", None, [row |-> i], k, TRUE)]
  /\ UNCHANGED <<projectVars, contentVars>>

\* The guard notes the use of the key.
TouchKey(r) ==
  /\ On(r, "completeTask", "touch")
  /\ ctx[r].seen \in DOMAIN keys
  /\ Write(r, "accepted")
  /\ UNCHANGED <<projectVars, contentVars>>

\* A completed task keeps its position.
MarkTaskComplete(r) ==
  /\ On(r, "completeTask", "found")
  /\ Found(r, DOMAIN tasks)
  /\ tasks' = [tasks EXCEPT ![What(r).row].col = "done"]
  /\ Write(r, "done")
  /\ UNCHANGED <<projectVars, docs, requirements, skills, keys>>

KeyStep(r) ==
  \/ AcceptKeyRequest(r) \/ CheckName(r) \/ CreateKey(r) \/ FindKey(r) \/ RevokeKey(r)
  \/ FindsKey(r) \/ TouchKey(r) \/ MarkTaskComplete(r)

-----------------------------------------------------------------------------
(* Documents.                                                              *)

AcceptDocRequest(r) ==
  /\ area = "docs"
  /\ \E u \in Users, t \in Texts :
       \/ Accept(r, u, Contributors, "createDoc", [text |-> t])
       \/ \E i \in DOMAIN docs :
            \/ Accept(r, u, Contributors, "updateDoc", [row |-> i, text |-> t])
            \/ Accept(r, u, Managers, "removeDoc", [row |-> i])
  /\ UNCHANGED contentVars

\* The agents' SRS replaces the document that the project already has.
AgentWritesDoc(r) ==
  /\ area = "docs"
  /\ \E i \in DOMAIN docs, t \in Texts :
       Enters(r, None, "agentDoc", [row |-> i, text |-> t])
  /\ UNCHANGED contentVars

CreateDoc(r) ==
  /\ On(r, "createDoc", "accepted")
  /\ project = "live"
  /\ docs' = Put(docs, r, [text |-> What(r).text, version |-> 1])
  /\ Write(r, "log")
  /\ UNCHANGED <<projectVars, tasks, requirements, skills, keys>>

ReadDoc(r) ==
  /\ at[r] = "accepted"
  /\ ctx[r].op \in {"updateDoc", "removeDoc", "agentDoc"}
  /\ Found(r, DOMAIN docs)
  /\ Goto(r, "read", docs[What(r).row])
  /\ UNCHANGED <<projectVars, contentVars>>

\* Users number a version when they change the content, the agents always.
NextVersion(r) ==
  IF ctx[r].op = "agentDoc" \/ What(r).text # ctx[r].seen.text
  THEN ctx[r].seen.version + 1 ELSE docs[What(r).row].version

WriteDoc(r) ==
  /\ at[r] = "read" /\ ctx[r].op \in {"updateDoc", "agentDoc"}
  /\ Found(r, DOMAIN docs)
  /\ docs' = [docs EXCEPT ![What(r).row] =
                [text |-> What(r).text, version |-> NextVersion(r)]]
  /\ Write(r, IF ctx[r].op = "updateDoc" THEN "log" ELSE "done")
  /\ UNCHANGED <<projectVars, tasks, requirements, skills, keys>>

RemoveDoc(r) ==
  /\ On(r, "removeDoc", "read")
  /\ Found(r, DOMAIN docs)
  /\ docs' = Drop(docs, What(r).row)
  /\ Write(r, "log")
  /\ UNCHANGED <<projectVars, tasks, requirements, skills, keys>>

DocStep(r) ==
  \/ AcceptDocRequest(r) \/ AgentWritesDoc(r) \/ CreateDoc(r) \/ ReadDoc(r)
  \/ WriteDoc(r) \/ RemoveDoc(r)

-----------------------------------------------------------------------------
(* Requirements and skills.                                                *)

AcceptRowRequest(r) ==
  /\ area = "rows"
  /\ \E u \in Users :
       \/ Accept(r, u, Contributors, "createRequirement", None)
       \/ \E n \in Names : Accept(r, u, Contributors, "createSkill", n)
       \/ \E i \in requirements :
            \/ Accept(r, u, Contributors, "updateRequirement", [row |-> i])
            \/ Accept(r, u, Managers, "removeRequirement", [row |-> i])
       \/ \E i \in DOMAIN skills :
            \/ Accept(r, u, Contributors, "updateSkill", [row |-> i])
            \/ Accept(r, u, Managers, "removeSkill", [row |-> i])
  /\ UNCHANGED contentVars

CreateRequirement(r) ==
  /\ On(r, "createRequirement", "accepted")
  /\ project = "live"
  /\ requirements' = requirements \cup {r}
  /\ Write(r, "log")
  /\ UNCHANGED <<projectVars, tasks, docs, skills, keys>>

FindRow(r) ==
  /\ at[r] = "accepted"
  /\ \/ ctx[r].op \in {"updateRequirement", "removeRequirement"} /\ Found(r, requirements)
     \/ ctx[r].op \in {"updateSkill", "removeSkill"} /\ Found(r, DOMAIN skills)
  /\ Goto(r, "found", None)
  /\ UNCHANGED <<projectVars, contentVars>>

UpdateRequirement(r) ==
  /\ On(r, "updateRequirement", "found")
  /\ Found(r, requirements)
  /\ Write(r, "log")
  /\ UNCHANGED <<projectVars, contentVars>>

RemoveRequirement(r) ==
  /\ On(r, "removeRequirement", "found")
  /\ Found(r, requirements)
  /\ requirements' = requirements \ {What(r).row}
  /\ Write(r, "log")
  /\ UNCHANGED <<projectVars, tasks, docs, skills, keys>>

\* The database keeps the slugs of a project apart.
CreateSkill(r) ==
  /\ On(r, "createSkill", "accepted")
  /\ project = "live"
  /\ What(r) \notin Range(skills)
  /\ skills' = Put(skills, r, What(r))
  /\ Write(r, "done")
  /\ UNCHANGED <<projectVars, tasks, docs, requirements, keys>>

\* The slug stays.
UpdateSkill(r) ==
  /\ On(r, "updateSkill", "found")
  /\ Found(r, DOMAIN skills)
  /\ Write(r, "done")
  /\ UNCHANGED <<projectVars, contentVars>>

RemoveSkill(r) ==
  /\ On(r, "removeSkill", "found")
  /\ Found(r, DOMAIN skills)
  /\ skills' = Drop(skills, What(r).row)
  /\ Write(r, "done")
  /\ UNCHANGED <<projectVars, tasks, docs, requirements, keys>>

RowStep(r) ==
  \/ AcceptRowRequest(r) \/ CreateRequirement(r) \/ FindRow(r) \/ UpdateRequirement(r)
  \/ RemoveRequirement(r) \/ CreateSkill(r) \/ UpdateSkill(r) \/ RemoveSkill(r)

ContentStep(r) == TaskStep(r) \/ KeyStep(r) \/ DocStep(r) \/ RowStep(r)
=============================================================================
