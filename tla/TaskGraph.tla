------------------------------ MODULE TaskGraph ------------------------------
(***************************************************************************)
(* The tasks of one project, their dependencies, the default task and the  *)
(* timecards recorded under task names: imports/api/tasks/server/methods.js*)
(* (DDP), taskLifecycle.js behind server/APIroutes.js (REST), and          *)
(* setDefaultTaskForProject and updateProject of projects/server/methods.js*)
(*                                                                         *)
(* Every request interleaves with the others at each await.  The fence is  *)
(* reduced to what its clients see of it, the set of writers and the task  *)
(* graph lock of this project; module ProjectChildFence has the rest.      *)
(***************************************************************************)
EXTENDS Naturals

CONSTANTS
    Tasks,      \* project task ids
    Names,      \* task names
    Timecards,  \* timecards of this project
    Requests,   \* request slots
    None,       \* absent field
    Failures    \* processes crash and MongoDB calls reject

Document == [name: Names, dependencies: SUBSET Tasks, isDefaultTask: BOOLEAN]

ASSUME TaskGraphAssumption ==
    /\ None \notin Tasks \union Names \union Requests
    /\ \A D \in SUBSET Tasks : D # None
    /\ None \notin Document
    /\ Failures \in BOOLEAN

VARIABLES
    task,         \* task[t]: the stored document of t, or None
    defaultTask,  \* project.defaultTask: a name, or None
    recordedAs,   \* recordedAs[c]: the task name of timecard c, or None
    writers,      \* requests with a lifecycleWriters reservation
    graphLock,    \* the request that holds taskGraphLock, or None
    pc,           \* pc[r]: where request r is
    req,          \* req[r]: its arguments
    seen,         \* seen[r]: the task document as r read it
    stale,        \* requests whose task has a newer projectTaskRevision than they saw
    inspected,    \* inspected[r]: what a delete has read under its lock
    stage         \* stage[r]: which of the writes of setDefault comes next

graph == <<task, defaultTask, recordedAs>>
fence == <<writers, graphLock>>
vars == <<graph, fence, pc, req, seen, stale, inspected, stage>>

EditKinds == {"update", "edit"}      \* DDP updateTask, PATCH /project/task/details
DeleteKinds == {"remove", "delete"}  \* DDP removeProjectTask, DELETE /project/task/delete
WriterKinds == EditKinds \union {"insert", "setDefault", "record"}

\* An edit sets the name or the dependencies and leaves the other (None) alone.
Request == [kind: WriterKinds \union DeleteKinds,
            target: Tasks \union Timecards,
            name: Names \union {None},
            dependencies: (SUBSET Tasks) \union {None},
            acknowledged: BOOLEAN]

Pcs == {"idle", "started", "admitted", "reserved", "checked", "writing", "releasing",
        "inspecting", "unlocking",
        "lost",    \* the caller is gone and its write is still in flight
        "stuck"}   \* the caller is gone and left its reservation or lock

Facts == {"currentTask", "currentProject", "dependentTaskCount", "recordCount"}

TypeOK ==
    /\ task \in [Tasks -> Document \union {None}]
    /\ defaultTask \in Names \union {None}
    /\ recordedAs \in [Timecards -> Names \union {None}]
    /\ writers \subseteq Requests
    /\ graphLock \in Requests \union {None}
    /\ pc \in [Requests -> Pcs]
    /\ req \in [Requests -> Request \union {None}]
    /\ \A r \in Requests : pc[r] # "idle" => req[r] \in Request
    /\ seen \in [Requests -> Document \union {None}]
    /\ stale \subseteq Requests
    /\ inspected \in [Requests -> SUBSET Facts]
    /\ stage \in [Requests -> 1..3]

Init ==
    /\ task = [t \in Tasks |-> None]
    /\ defaultTask = None
    /\ recordedAs = [c \in Timecards |-> None]
    /\ writers = {}
    /\ graphLock = None
    /\ pc = [r \in Requests |-> "idle"]
    /\ req = [r \in Requests |-> None]
    /\ seen = [r \in Requests |-> None]
    /\ stale = {}
    /\ inspected = [r \in Requests |-> {}]
    /\ stage = [r \in Requests |-> 1]

Stored == {t \in Tasks : task[t] # None}

Goto(r, label) == pc' = [pc EXCEPT ![r] = label]

\* The request is answered and its slot is free again.
Answer(r) ==
    /\ Goto(r, "idle")
    /\ req' = [req EXCEPT ![r] = None]
    /\ seen' = [seen EXCEPT ![r] = None]
    /\ stale' = stale \ {r}
    /\ inspected' = [inspected EXCEPT ![r] = {}]
    /\ stage' = [stage EXCEPT ![r] = 1]

request == <<req, seen, stale, inspected, stage>>

------------------------------------------------------------------------------
\* Requests arrive.  The task a request is about is read before any fence.

Begin(r, label, arguments, document) ==
    /\ pc[r] = "idle"
    /\ Goto(r, label)
    /\ req' = [req EXCEPT ![r] = arguments]
    /\ seen' = [seen EXCEPT ![r] = document]
    /\ UNCHANGED <<graph, fence, stale, inspected, stage>>

Arguments(kind, target, name, dependencies, acknowledged) ==
    [kind |-> kind, target |-> target, name |-> name, dependencies |-> dependencies,
     acknowledged |-> acknowledged]

\* The id is fresh: Random.id() or randomUUID().
StartInsert(r, t, name, D) ==
    /\ task[t] = None
    /\ \A q \in Requests : pc[q] # "idle" => req[q].target # t
    /\ t \notin D
    /\ Begin(r, "admitted", Arguments("insert", t, name, D, FALSE), None)

\* One field is edited at a time, and it changes: to a new name, or to another
\* list of other tasks.
StartEdit(r, kind, t, name, D) ==
    /\ task[t] # None
    /\ (name = None) # (D = None)
    /\ name # task[t].name /\ D # task[t].dependencies
    /\ D # None => t \notin D
    /\ Begin(r, "started", Arguments(kind, t, name, D, FALSE), task[t])

StartSetDefault(r, t) ==
    Begin(r, "admitted", Arguments("setDefault", t, None, None, FALSE), None)

\* The DDP method never asks about recorded time.
StartDelete(r, kind, t, acknowledged) ==
    /\ task[t] # None
    /\ kind = "remove" => acknowledged
    /\ Begin(r, "admitted", Arguments(kind, t, None, None, acknowledged), task[t])

\* A timecard is created under, or its task changed to, any name.
StartRecord(r, c, name) ==
    Begin(r, "admitted", Arguments("record", c, name, None, FALSE), None)

------------------------------------------------------------------------------
\* Writers

\* isDefaultProjectTask, with the project read now and the task read earlier.
RenamesDefault(r) ==
    /\ req[r].name \notin {None, seen[r].name}
    /\ seen[r].isDefaultTask \/ defaultTask = seen[r].name

CheckDefault(r) ==
    /\ pc[r] = "started"
    /\ IF RenamesDefault(r)
       THEN Answer(r)
       ELSE Goto(r, "admitted") /\ UNCHANGED request
    /\ UNCHANGED <<graph, fence>>

AcquireWriter(r) ==
    /\ pc[r] = "admitted"
    /\ req[r].kind \in WriterKinds
    /\ IF graphLock = None
       THEN /\ writers' = writers \union {r}
            /\ Goto(r, "reserved")
            /\ UNCHANGED request
       ELSE /\ Answer(r)
            /\ UNCHANGED writers
    /\ UNCHANGED <<graph, graphLock>>

\* Only the DDP method reads the project again under its reservation.
RecheckDefault(r) ==
    /\ pc[r] = "reserved"
    /\ req[r].kind = "update"
    /\ Goto(r, IF RenamesDefault(r) THEN "releasing" ELSE "checked")
    /\ UNCHANGED <<graph, fence, request>>

\* The dependencies a write would store: an edit over REST validates the whole
\* candidate document, the DDP method only the list it was given.
Dependencies(r) ==
    CASE req[r].dependencies # None -> req[r].dependencies
      [] req[r].dependencies = None /\ req[r].kind = "edit" -> seen[r].dependencies
      [] OTHER -> {}

ValidateDependencies(r) ==
    /\ \/ pc[r] = "reserved" /\ req[r].kind \in {"insert", "edit"}
       \/ pc[r] = "checked" /\ req[r].kind = "update"
    /\ Goto(r, IF Dependencies(r) \subseteq Stored THEN "writing" ELSE "releasing")
    /\ UNCHANGED <<graph, fence, request>>

\* Access to the project and the time entry rules were checked by now.
DispatchRecord(r) ==
    /\ pc[r] = "reserved"
    /\ req[r].kind = "record"
    /\ Goto(r, "writing")
    /\ UNCHANGED <<graph, fence, request>>

ReadDefaultTask(r) ==
    /\ pc[r] = "reserved"
    /\ req[r].kind = "setDefault"
    /\ seen' = [seen EXCEPT ![r] = task[req[r].target]]
    /\ Goto(r, IF task[req[r].target] = None THEN "releasing" ELSE "writing")
    /\ UNCHANGED <<graph, fence, req, stale, inspected, stage>>

\* The revision of every task in T moves on.
Touch(T) == stale' = stale \union {q \in Requests : seen[q] # None /\ req[q].target \in T}

\* projectTaskSnapshotSelector: the fields and the revision as they were read.
Unchanged(r) == task[req[r].target] = seen[r] /\ r \notin stale

InsertTask(r) ==
    /\ task' = [task EXCEPT ![req[r].target] =
                    [name |-> req[r].name, dependencies |-> req[r].dependencies,
                     isDefaultTask |-> FALSE]]
    /\ UNCHANGED <<defaultTask, recordedAs, stale>>

\* Mutant: a field the edit does not mention is stored as undefined.
EditedWhole(r, document) ==
    [document EXCEPT !.name = req[r].name,
                     !.dependencies =
                         IF req[r].dependencies # None THEN req[r].dependencies ELSE @]

Edited(r, document) ==
    [document EXCEPT !.name = IF req[r].name # None THEN req[r].name ELSE @,
                     !.dependencies =
                         IF req[r].dependencies # None THEN req[r].dependencies ELSE @]

\* updateTask writes by id alone, editProjectTask by its snapshot.
EditTask(r) ==
    LET t == req[r].target
        matches == task[t] # None /\ (req[r].kind = "edit" => Unchanged(r))
    IN  /\ IF matches
           THEN /\ task' = [task EXCEPT ![t] = Edited(r, @)]
                /\ Touch({t})
           ELSE UNCHANGED <<task, stale>>
        /\ UNCHANGED <<defaultTask, recordedAs>>

RecordTime(r) ==
    /\ recordedAs' = [recordedAs EXCEPT ![req[r].target] = req[r].name]
    /\ UNCHANGED <<task, defaultTask, stale>>

Flag(T, value) ==
    task' = [t \in Tasks |-> IF t \in T THEN [task[t] EXCEPT !.isDefaultTask = value]
                                        ELSE task[t]]

\* The writes of setDefaultTaskForProject, each with an await of its own: two to
\* clear a default, three to set one.
SetDefault(r) ==
    LET t == req[r].target
        clears == seen[r].isDefaultTask
        others == {u \in Stored \ {t} : task[u].isDefaultTask}
    IN  \/ /\ stage[r] = 1
           /\ defaultTask' = IF clears THEN None ELSE seen[r].name
           /\ UNCHANGED <<task, stale>>
        \/ /\ stage[r] = 2 /\ ~clears
           /\ Flag(others, FALSE)
           /\ Touch(others)
           /\ UNCHANGED defaultTask
        \/ /\ stage[r] = (IF clears THEN 2 ELSE 3)
           /\ Flag({t} \intersect Stored, ~clears)
           /\ Touch({t})
           /\ UNCHANGED defaultTask

LastWrite(r) == \/ req[r].kind # "setDefault"
                \/ stage[r] = (IF seen[r].isDefaultTask THEN 2 ELSE 3)

LandWrite(r) ==
    /\ pc[r] \in {"writing", "lost"}
    /\ CASE req[r].kind = "insert" -> InsertTask(r)
         [] req[r].kind \in EditKinds -> EditTask(r)
         [] req[r].kind = "record" -> RecordTime(r)
         [] req[r].kind = "setDefault" -> SetDefault(r) /\ UNCHANGED recordedAs
         [] OTHER -> FALSE
    /\ CASE pc[r] = "lost" -> Goto(r, "stuck") /\ UNCHANGED stage
         [] pc[r] = "writing" /\ LastWrite(r) -> Goto(r, "releasing") /\ UNCHANGED stage
         [] OTHER -> stage' = [stage EXCEPT ![r] = @ + 1] /\ UNCHANGED pc
    /\ UNCHANGED <<fence, req, seen, inspected>>

ReleaseWriter(r) ==
    /\ pc[r] = "releasing"
    /\ writers' = writers \ {r}
    /\ Answer(r)
    /\ UNCHANGED <<graph, graphLock>>

------------------------------------------------------------------------------
\* Deletes: deleteProjectTaskWithFence and the two inspectLockedState.

\* Mutant: the lock is taken beside writers that are under way.
AcquireGraphLockOverWriters(r) ==
    /\ pc[r] = "admitted"
    /\ req[r].kind \in DeleteKinds
    /\ IF graphLock = None
       THEN /\ graphLock' = r
            /\ Goto(r, "inspecting")
            /\ UNCHANGED request
       ELSE /\ Answer(r)
            /\ UNCHANGED graphLock
    /\ UNCHANGED <<graph, writers>>

AcquireGraphLock(r) ==
    /\ pc[r] = "admitted"
    /\ req[r].kind \in DeleteKinds
    /\ IF graphLock = None /\ writers = {}
       THEN /\ graphLock' = r
            /\ Goto(r, "inspecting")
            /\ UNCHANGED request
       ELSE /\ Answer(r)
            /\ UNCHANGED graphLock
    /\ UNCHANGED <<graph, writers>>

\* The document deleteTask and inspectLockedState select: by id and name over
\* DDP, by snapshot over REST.
StillTheTask(r) ==
    /\ task[req[r].target] # None
    /\ IF req[r].kind = "delete" THEN Unchanged(r)
                                 ELSE task[req[r].target].name = seen[r].name

\* Mutants of Refuses: the flag is not looked at, or an acknowledgement is
\* taken for granted.
RefusesByNameOnly(r, fact) ==
    CASE fact = "currentTask" -> ~StillTheTask(r)
      [] fact = "currentProject" -> defaultTask = seen[r].name
      [] fact = "dependentTaskCount" ->
             \E t \in Stored : req[r].target \in task[t].dependencies
      [] fact = "recordCount" ->
             ~req[r].acknowledged /\ \E c \in Timecards : recordedAs[c] = seen[r].name

RefusesNoRecords(r, fact) ==
    CASE fact = "currentTask" -> ~StillTheTask(r) \/ task[req[r].target].isDefaultTask
      [] fact = "currentProject" -> defaultTask = seen[r].name
      [] fact = "dependentTaskCount" ->
             \E t \in Stored : req[r].target \in task[t].dependencies
      [] fact = "recordCount" -> FALSE

\* What makes the delete answer conflict, default, dependent or recorded.
Refuses(r, fact) ==
    CASE fact = "currentTask" -> ~StillTheTask(r) \/ task[req[r].target].isDefaultTask
      [] fact = "currentProject" -> defaultTask = seen[r].name
      [] fact = "dependentTaskCount" ->
             \E t \in Stored : req[r].target \in task[t].dependencies
      [] fact = "recordCount" ->
             ~req[r].acknowledged /\ \E c \in Timecards : recordedAs[c] = seen[r].name

Inspect(r, fact) ==
    /\ pc[r] = "inspecting"
    /\ fact \notin inspected[r]
    /\ IF Refuses(r, fact)
       THEN /\ Goto(r, "unlocking")
            /\ UNCHANGED inspected
       ELSE /\ inspected' = [inspected EXCEPT ![r] = @ \union {fact}]
            /\ UNCHANGED pc
    /\ UNCHANGED <<graph, fence, req, seen, stale, stage>>

DispatchDelete(r) ==
    /\ pc[r] = "inspecting"
    /\ inspected[r] = Facts
    /\ Goto(r, "writing")
    /\ UNCHANGED <<graph, fence, request>>

LandDelete(r) ==
    /\ pc[r] \in {"writing", "lost"}
    /\ req[r].kind \in DeleteKinds
    /\ task' = IF StillTheTask(r) THEN [task EXCEPT ![req[r].target] = None] ELSE task
    /\ Goto(r, IF pc[r] = "lost" THEN "stuck" ELSE "unlocking")
    /\ UNCHANGED <<defaultTask, recordedAs, fence, request>>

ReleaseGraphLock(r) ==
    /\ pc[r] = "unlocking"
    /\ graphLock' = None
    /\ Answer(r)
    /\ UNCHANGED <<graph, writers>>

------------------------------------------------------------------------------
\* The DDP project form writes its default task field outside the fence.
UpdateProject(name) ==
    /\ defaultTask' = name
    /\ UNCHANGED <<task, recordedAs, fence, pc, request>>

DeleteTimecard(c) ==
    /\ recordedAs[c] # None
    /\ recordedAs' = [recordedAs EXCEPT ![c] = None]
    /\ UNCHANGED <<task, defaultTask, fence, pc, request>>

\* A crash, or a driver call that rejects: the reservation or lock stays, and
\* the write that was sent may still take effect.
Throw(r) ==
    /\ Failures
    /\ pc[r] \notin {"idle", "started", "admitted", "lost", "stuck"}
    /\ Goto(r, IF pc[r] = "writing" THEN "lost" ELSE "stuck")
    /\ UNCHANGED <<graph, fence, request>>

Vanish(r) ==
    /\ pc[r] = "lost"
    /\ Goto(r, "stuck")
    /\ UNCHANGED <<graph, fence, request>>

\* Stale recovery; a lock only while its task is gone or as it was.
Recover(r) ==
    /\ pc[r] = "stuck"
    /\ r = graphLock => task[req[r].target] = None \/ Unchanged(r)
    /\ writers' = writers \ {r}
    /\ graphLock' = IF graphLock = r THEN None ELSE graphLock
    /\ Answer(r)
    /\ UNCHANGED graph

------------------------------------------------------------------------------
Arrive(r) ==
    \/ \E t \in Tasks :
           \/ \E name \in Names, D \in SUBSET Tasks : StartInsert(r, t, name, D)
           \/ \E kind \in EditKinds, name \in Names \union {None},
                 D \in (SUBSET Tasks) \union {None} : StartEdit(r, kind, t, name, D)
           \/ StartSetDefault(r, t)
           \/ \E kind \in DeleteKinds, acknowledged \in BOOLEAN :
                  StartDelete(r, kind, t, acknowledged)
    \/ \E c \in Timecards, name \in Names : StartRecord(r, c, name)

Progress(r) ==
    \/ CheckDefault(r)
    \/ AcquireWriter(r)
    \/ RecheckDefault(r)
    \/ ValidateDependencies(r)
    \/ DispatchRecord(r)
    \/ ReadDefaultTask(r)
    \/ LandWrite(r)
    \/ ReleaseWriter(r)
    \/ AcquireGraphLock(r)
    \/ \E fact \in Facts : Inspect(r, fact)
    \/ DispatchDelete(r)
    \/ LandDelete(r)
    \/ ReleaseGraphLock(r)

Arrivals == \E r \in Requests : Arrive(r)

Steps ==
    \/ \E r \in Requests : Progress(r) \/ Throw(r) \/ Vanish(r) \/ Recover(r)
    \/ \E name \in Names \union {None} : UpdateProject(name)
    \/ \E c \in Timecards : DeleteTimecard(c)

Next == Arrivals \/ Steps

Spec == Init /\ [][Next]_vars

------------------------------------------------------------------------------
\* Every dependency names a stored task of the project, although it is checked
\* by a count and written later, and the task it names can be deleted by others.
DependenciesExist == \A t \in Stored : task[t].dependencies \subseteq Stored

\* A task leaves the project only while no timecard is recorded under its name,
\* unless the caller acknowledged that the history keeps the name
\* (the 'recorded' refusal of deleteProjectTaskWithFence).
RecordedGuard ==
    [][\A t \in Stored :
           task'[t] = None
               => \/ \A c \in Timecards : recordedAs[c] # task[t].name
                  \/ \E r \in Requests : /\ graphLock = r
                                         /\ req[r].target = t /\ req[r].acknowledged]_vars

\* A task that carries the default flag is not deleted, even by a delete that
\* read it before the flag was set.
FlaggedTaskStays ==
    [][\A t \in Stored : task[t].isDefaultTask => task'[t] # None]_vars

\* "legacy project.defaultTask and the task flag both protect renames"
\* (ddpMutationGuards.test.mjs:51): the project's default task keeps its name.
DefaultKeepsItsName ==
    [][\A t \in Stored :
           /\ task[t].isDefaultTask \/ defaultTask = task[t].name
           /\ task'[t] # None
           => task'[t].name = task[t].name]_vars
==============================================================================
