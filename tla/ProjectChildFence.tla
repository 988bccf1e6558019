-------------------------- MODULE ProjectChildFence --------------------------
(***************************************************************************)
(* The fence of imports/api/projects/server/projectChildFence.js, the task *)
(* graph lock of imports/api/tasks/server/taskGraphFence.js that shares the*)
(* project document with it, and server/projectFenceRecovery.js, which     *)
(* clears what crashed requests leave behind.                              *)
(*                                                                         *)
(* Every request is a sequence of steps with an await between any two, so  *)
(* requests interleave at each MongoDB call.  A step that changes a        *)
(* project document is one findOneAndUpdate/updateOne and is atomic.  The  *)
(* write of a child document is split into its dispatch, the moment it     *)
(* takes effect and its acknowledgement: the acknowledgement can be lost,  *)
(* the process can die, and the write may then still take effect later.    *)
(***************************************************************************)
EXTENDS FiniteSets, Naturals

CONSTANTS
    Projects,         \* project ids
    Timecards,        \* timecard ids
    Tasks,            \* project task ids
    Requests,         \* request slots; a slot in use names its reservationId or lockId
    Instances,        \* server processes; a restart gives a process a new bootId
    None,             \* absent field
    MaxWriters,       \* MAX_PROJECT_CHILD_WRITERS
    RecoveryEnabled,  \* TITRA_FENCE_RECOVERY_MODE = single-instance
    Failures          \* processes crash and MongoDB calls reject

Children == Timecards \union Tasks

ASSUME FenceAssumption ==
    /\ None \notin Projects \union Requests
    /\ Timecards \intersect Tasks = {}
    /\ MaxWriters \in Nat \ {0}
    /\ {RecoveryEnabled, Failures} \subseteq BOOLEAN

\* The deployments docs/api-v2.md:63-65 allows stale recovery for.
SafeDeployment == RecoveryEnabled => \A i, j \in Instances : i = j

VARIABLES
    alive,             \* the stored project documents
    lifecycleLock,     \* lifecycleLock[p]: the request deleting project p, or None
    taskGraphLock,     \* taskGraphLock[p]: the request deleting a task of p, or None
    lifecycleWriters,  \* lifecycleWriters[p]: reservations (with their metadata) on p
    childOf,           \* childOf[c]: the projectId field of child c, or None
    pc,                \* pc[r]: where request r is
    req,               \* req[r]: its arguments, see Request
    wrote,             \* wrote[r]: its child write took effect
    counted,           \* counted[r]: the child collections a project delete found empty
    staleBoot,         \* requests whose bootId is not the current one of their process
    aged,              \* requests whose acquiredAt is old enough to recover
    candidate          \* candidate[i]: the reservation or lock that i found recoverable

projectVars == <<alive, lifecycleLock, taskGraphLock, lifecycleWriters>>
recoveryVars == <<staleBoot, aged, candidate>>
vars == <<projectVars, childOf, pc, req, wrote, counted, recoveryVars>>

WriterKinds == {"create", "run"}
Kinds == WriterKinds \union {"deleteProject", "deleteTask"}
Collections == {"timecards", "projecttasks"}

\* kind: the operation; target: the project it reserves or locks; child: the
\* document it writes; origin: the project that child was in when it was read;
\* instance: the process that runs it.
Request == [kind: Kinds, target: Projects, child: Children \union {None},
            origin: Projects \union {None}, instance: Instances]

NoRequest == [kind |-> None, target |-> None, child |-> None, origin |-> None,
              instance |-> None]

Pcs == {"idle",        \* the slot is free
        "started",     \* arguments resolved, nothing reserved
        "reserved",    \* the writer reservation is on the project document
        "inspecting",  \* a task delete holds taskGraphLock
        "counting",    \* a project delete holds lifecycleLock
        "writing",     \* the child write (or the document delete) is in flight
        "landed",      \* it took effect, or matched nothing; the caller awaits it
        "undoing",     \* removeCreatedChild is due
        "releasing",   \* $pull of the reservation, then success
        "aborting",    \* $pull of the reservation, then the error is rethrown
        "unlocking",   \* $unset of the lock is due
        "lost",        \* the caller is gone and its write is still in flight
        "stuck",       \* the caller is gone and left its reservation or lock
        "returned", "failed"}

Gone == {"lost", "stuck"}
Finished == {"returned", "failed"}
InFlight == {"writing", "lost"}

TypeOK ==
    /\ alive \subseteq Projects
    /\ lifecycleLock \in [Projects -> Requests \union {None}]
    /\ taskGraphLock \in [Projects -> Requests \union {None}]
    /\ lifecycleWriters \in [Projects -> SUBSET Requests]
    /\ childOf \in [Children -> Projects \union {None}]
    /\ pc \in [Requests -> Pcs]
    /\ req \in [Requests -> Request \union {NoRequest}]
    /\ \A r \in Requests : pc[r] # "idle" => req[r] \in Request
    /\ wrote \in [Requests -> BOOLEAN]
    /\ counted \in [Requests -> SUBSET Collections]
    /\ staleBoot \subseteq Requests
    /\ aged \subseteq Requests
    /\ candidate \in [Instances -> Requests \union {None}]

Init ==
    /\ alive = Projects
    /\ lifecycleLock = [p \in Projects |-> None]
    /\ taskGraphLock = [p \in Projects |-> None]
    /\ lifecycleWriters = [p \in Projects |-> {}]
    /\ childOf = [c \in Children |-> None]
    /\ pc = [r \in Requests |-> "idle"]
    /\ req = [r \in Requests |-> NoRequest]
    /\ wrote = [r \in Requests |-> FALSE]
    /\ counted = [r \in Requests |-> {}]
    /\ staleBoot = {}
    /\ aged = {}
    /\ candidate = [i \in Instances |-> None]

Collection(name) == IF name = "timecards" THEN Timecards ELSE Tasks

Unfenced(p) == lifecycleLock[p] = None /\ taskGraphLock[p] = None

\* The request is known to the fence fields of some project document.
Held(r) == \E p \in Projects : \/ r \in lifecycleWriters[p]
                               \/ lifecycleLock[p] = r
                               \/ taskGraphLock[p] = r

Goto(r, label) == pc' = [pc EXCEPT ![r] = label]

------------------------------------------------------------------------------
\* Requests arrive.  A create uses a fresh random child id; a run edits or
\* moves a child that was read, together with its project, before the fence;
\* only a timecard moves to another project.

FreshChild(c) ==
    /\ childOf[c] = None
    /\ \A r \in Requests : req[r].child = c => pc[r] \in {"idle"} \union Finished

Start(r, arguments) ==
    /\ pc[r] = "idle"
    /\ req' = [req EXCEPT ![r] = arguments]
    /\ Goto(r, "started")
    /\ UNCHANGED <<projectVars, childOf, wrote, counted, recoveryVars>>

StartCreate(r, p, c, i) ==
    /\ FreshChild(c)
    /\ Start(r, [kind |-> "create", target |-> p, child |-> c, origin |-> None,
                 instance |-> i])

StartRun(r, p, c, i) ==
    /\ childOf[c] # None
    /\ c \in Tasks => p = childOf[c]
    /\ Start(r, [kind |-> "run", target |-> p, child |-> c, origin |-> childOf[c],
                 instance |-> i])

StartTaskDelete(r, c, i) ==
    /\ childOf[c] \in alive
    /\ Start(r, [kind |-> "deleteTask", target |-> childOf[c], child |-> c,
                 origin |-> childOf[c], instance |-> i])

StartProjectDelete(r, p, i) ==
    /\ p \in alive
    /\ Start(r, [kind |-> "deleteProject", target |-> p, child |-> None, origin |-> None,
                 instance |-> i])

\* A slot whose request is over and holds nothing serves a new request, under
\* a new reservationId.
Retire(r) ==
    /\ pc[r] \in Finished \union {"stuck"}
    /\ ~Held(r)
    /\ \A i \in Instances : candidate[i] # r
    /\ Goto(r, "idle")
    /\ req' = [req EXCEPT ![r] = NoRequest]
    /\ wrote' = [wrote EXCEPT ![r] = FALSE]
    /\ counted' = [counted EXCEPT ![r] = {}]
    /\ staleBoot' = staleBoot \ {r}
    /\ aged' = aged \ {r}
    /\ UNCHANGED <<projectVars, childOf, candidate>>

------------------------------------------------------------------------------
\* Writers: createProjectChildWithFence and runWithProjectChildWriter.

\* Mutants of CanAcquire: a selector that forgets one of the two locks, or
\* compares the number of writers with the wrong operator.
CanAcquireDuringDelete(p) == /\ p \in alive
                             /\ taskGraphLock[p] = None
                             /\ Cardinality(lifecycleWriters[p]) < MaxWriters

CanAcquireDuringTaskDelete(p) == /\ p \in alive
                                 /\ lifecycleLock[p] = None
                                 /\ Cardinality(lifecycleWriters[p]) < MaxWriters

CanAcquireOneMore(p) == /\ p \in alive
                        /\ Unfenced(p)
                        /\ Cardinality(lifecycleWriters[p]) <= MaxWriters

CanAcquire(p) == /\ p \in alive
                 /\ Unfenced(p)
                 /\ Cardinality(lifecycleWriters[p]) < MaxWriters

AcquireProjectChildWriter(r) ==
    /\ pc[r] = "started"
    /\ req[r].kind \in WriterKinds
    /\ IF CanAcquire(req[r].target)
       THEN /\ lifecycleWriters' = [lifecycleWriters EXCEPT ![req[r].target] = @ \union {r}]
            /\ Goto(r, "reserved")
       ELSE /\ Goto(r, "failed")
            /\ UNCHANGED lifecycleWriters
    /\ UNCHANGED <<alive, lifecycleLock, taskGraphLock, childOf, req, wrote,
                   counted, recoveryVars>>

\* ProjectChildNoWriteError: validation under the reservation failed.
NoWrite(r) ==
    /\ pc[r] = "reserved"
    /\ Goto(r, "aborting")
    /\ UNCHANGED <<projectVars, childOf, req, wrote, counted, recoveryVars>>

DispatchChildWrite(r) ==
    /\ pc[r] = "reserved"
    /\ Goto(r, "writing")
    /\ UNCHANGED <<projectVars, childOf, req, wrote, counted, recoveryVars>>

\* The effect of r's write on the child documents: an insert of a fresh id, or
\* a compare-and-swap on the child as it was read.  Either may match nothing:
\* an upsert that finds a row, a revision that moved on.
ChildWrite(r) ==
    \/ /\ req[r].kind = "create" => childOf[req[r].child] = None
       /\ req[r].kind = "run" => childOf[req[r].child] = req[r].origin /\ req[r].origin # None
       /\ childOf' = [childOf EXCEPT ![req[r].child] = req[r].target]
       /\ wrote' = [wrote EXCEPT ![r] = TRUE]
    \/ UNCHANGED <<childOf, wrote>>

Landed(r) == Goto(r, IF pc[r] = "lost" THEN "stuck" ELSE "landed")

LandChildWrite(r) ==
    /\ pc[r] \in InFlight
    /\ req[r].kind \in WriterKinds
    /\ ChildWrite(r)
    /\ Landed(r)
    /\ UNCHANGED <<projectVars, req, counted, recoveryVars>>

\* verifyProjectChildWriter: one read of the project document.
WriterVerified(r) == /\ req[r].target \in alive
                     /\ lifecycleLock[req[r].target] = None
                     /\ r \in lifecycleWriters[req[r].target]

\* Mutant: an acknowledged write is reported as a success although the
\* reservation no longer covers it.
VerifyTrustingWrite(r) ==
    /\ pc[r] = "landed"
    /\ req[r].kind \in WriterKinds
    /\ Goto(r, CASE WriterVerified(r) -> "releasing"
                 [] ~WriterVerified(r) -> IF wrote[r] THEN "returned" ELSE "aborting")
    /\ UNCHANGED <<projectVars, childOf, req, wrote, counted, recoveryVars>>

VerifyProjectChildWriter(r) ==
    /\ pc[r] = "landed"
    /\ req[r].kind \in WriterKinds
    /\ Goto(r, CASE WriterVerified(r) -> "releasing"
                 [] ~WriterVerified(r) /\ req[r].kind = "run" -> "stuck"
                 [] ~WriterVerified(r) /\ req[r].kind = "create" ->
                        IF wrote[r] THEN "undoing" ELSE "aborting")
    /\ UNCHANGED <<projectVars, childOf, req, wrote, counted, recoveryVars>>

RemoveCreatedChild(r) ==
    /\ pc[r] = "undoing"
    /\ childOf' = [childOf EXCEPT ![req[r].child] = IF @ = req[r].target THEN None ELSE @]
    /\ Goto(r, "aborting")
    /\ UNCHANGED <<projectVars, req, wrote, counted, recoveryVars>>

Unreserve(r) ==
    lifecycleWriters' = [lifecycleWriters EXCEPT ![req[r].target] = @ \ {r}]

\* A success whose reservation cannot be matched any more is reported as an
\* unknown outcome; an error is rethrown whether or not the $pull matched.
ReleaseProjectChildWriter(r) ==
    /\ pc[r] \in {"releasing", "aborting"}
    /\ Unreserve(r)
    /\ Goto(r, IF pc[r] = "releasing" /\ r \in lifecycleWriters[req[r].target]
               THEN "returned" ELSE "failed")
    /\ UNCHANGED <<alive, lifecycleLock, taskGraphLock, childOf, req, wrote,
                   counted, recoveryVars>>

------------------------------------------------------------------------------
\* deleteEmptyProjectWithFence

\* Mutant: a lock that does not wait for the writers.
CanLockOverWriters(p) == p \in alive /\ Unfenced(p)

CanLock(p) == p \in alive /\ Unfenced(p) /\ lifecycleWriters[p] = {}

AcquireLifecycleLock(r) ==
    /\ pc[r] = "started"
    /\ req[r].kind = "deleteProject"
    /\ IF CanLock(req[r].target)
       THEN /\ lifecycleLock' = [lifecycleLock EXCEPT ![req[r].target] = r]
            /\ Goto(r, "counting")
       ELSE /\ Goto(r, "failed")
            /\ UNCHANGED lifecycleLock
    /\ UNCHANGED <<alive, taskGraphLock, lifecycleWriters, childOf, req, wrote,
                   counted, recoveryVars>>

\* countTimecards and countProjectTasks run side by side; any document in
\* either collection makes the request answer not-empty.
CountChildren(r, name) ==
    /\ pc[r] = "counting"
    /\ name \notin counted[r]
    /\ IF \A c \in Collection(name) : childOf[c] # req[r].target
       THEN /\ counted' = [counted EXCEPT ![r] = @ \union {name}]
            /\ UNCHANGED pc
       ELSE /\ Goto(r, "unlocking")
            /\ UNCHANGED counted
    /\ UNCHANGED <<projectVars, childOf, req, wrote, recoveryVars>>

\* Mutant: the delete goes ahead on the first of the two counts.
DispatchAfterOneCount(r) ==
    /\ pc[r] = "counting"
    /\ counted[r] # {}
    /\ Goto(r, "writing")
    /\ UNCHANGED <<projectVars, childOf, req, wrote, counted, recoveryVars>>

DispatchProjectDelete(r) ==
    /\ pc[r] = "counting"
    /\ counted[r] = Collections
    /\ Goto(r, "writing")
    /\ UNCHANGED <<projectVars, childOf, req, wrote, counted, recoveryVars>>

\* deleteOne(lockSelector): the document goes with its fence fields.
LandProjectDelete(r) ==
    /\ pc[r] \in InFlight
    /\ req[r].kind = "deleteProject"
    /\ LET p == req[r].target
       IN  IF p \in alive /\ lifecycleLock[p] = r
           THEN /\ alive' = alive \ {p}
                /\ lifecycleLock' = [lifecycleLock EXCEPT ![p] = None]
                /\ taskGraphLock' = [taskGraphLock EXCEPT ![p] = None]
                /\ lifecycleWriters' = [lifecycleWriters EXCEPT ![p] = {}]
                /\ wrote' = [wrote EXCEPT ![r] = TRUE]
           ELSE UNCHANGED <<projectVars, wrote>>
    /\ Landed(r)
    /\ UNCHANGED <<childOf, req, counted, recoveryVars>>

\* Deleted, or conflict with the lock kept when nothing matched.
FinishProjectDelete(r) ==
    /\ pc[r] = "landed"
    /\ req[r].kind = "deleteProject"
    /\ Goto(r, IF wrote[r] THEN "returned" ELSE "stuck")
    /\ UNCHANGED <<projectVars, childOf, req, wrote, counted, recoveryVars>>

------------------------------------------------------------------------------
\* deleteProjectTaskWithFence.  What inspectLockedState decides on is in
\* module TaskGraph; here the inspection may refuse or go ahead.

AcquireTaskGraphLock(r) ==
    /\ pc[r] = "started"
    /\ req[r].kind = "deleteTask"
    /\ IF CanLock(req[r].target)
       THEN /\ taskGraphLock' = [taskGraphLock EXCEPT ![req[r].target] = r]
            /\ Goto(r, "inspecting")
       ELSE /\ Goto(r, "failed")
            /\ UNCHANGED taskGraphLock
    /\ UNCHANGED <<alive, lifecycleLock, lifecycleWriters, childOf, req, wrote,
                   counted, recoveryVars>>

InspectLockedState(r) ==
    /\ pc[r] = "inspecting"
    /\ \E label \in {"unlocking", "writing"} : Goto(r, label)
    /\ UNCHANGED <<projectVars, childOf, req, wrote, counted, recoveryVars>>

LandTaskDelete(r) ==
    /\ pc[r] \in InFlight
    /\ req[r].kind = "deleteTask"
    /\ \/ /\ childOf[req[r].child] = req[r].target
          /\ childOf' = [childOf EXCEPT ![req[r].child] = None]
          /\ wrote' = [wrote EXCEPT ![r] = TRUE]
       \/ UNCHANGED <<childOf, wrote>>
    /\ Landed(r)
    /\ UNCHANGED <<projectVars, req, counted, recoveryVars>>

FinishTaskDelete(r) ==
    /\ pc[r] = "landed"
    /\ req[r].kind = "deleteTask"
    /\ Goto(r, "unlocking")
    /\ UNCHANGED <<projectVars, childOf, req, wrote, counted, recoveryVars>>

\* The finally clause of both deletions: $unset guarded by the exact lock.
\* Mutant: the field is set to null where it has to be unset.
UnlockToNull(lock, r) == [p \in Projects |-> IF p = req[r].target /\ lock[p] = r THEN "null" ELSE lock[p]]

Unlock(lock, r) == [p \in Projects |-> IF p = req[r].target /\ lock[p] = r THEN None ELSE lock[p]]

\* Mutant: the finally clause of the task delete is missing.
ReleaseProjectLockOnly(r) ==
    /\ pc[r] = "unlocking"
    /\ lifecycleLock' = Unlock(lifecycleLock, r)
    /\ Goto(r, IF wrote[r] THEN "returned" ELSE "failed")
    /\ UNCHANGED <<alive, taskGraphLock, lifecycleWriters, childOf, req, wrote, counted,
                   recoveryVars>>

ReleaseLock(r) ==
    /\ pc[r] = "unlocking"
    /\ lifecycleLock' = Unlock(lifecycleLock, r)
    /\ taskGraphLock' = Unlock(taskGraphLock, r)
    /\ Goto(r, IF wrote[r] THEN "returned" ELSE "failed")
    /\ UNCHANGED <<alive, lifecycleWriters, childOf, req, wrote, counted,
                   recoveryVars>>

------------------------------------------------------------------------------
\* deleteOwnedTimeCard and the week delete take no reservation.

DeleteTimecard(c) ==
    /\ childOf[c] # None
    /\ childOf' = [childOf EXCEPT ![c] = None]
    /\ UNCHANGED <<projectVars, pc, req, wrote, counted, recoveryVars>>

------------------------------------------------------------------------------
\* Failures.  A rejected driver promise leaves the outcome open: the request
\* gives up where it is and keeps its reservation or lock.
\*
\* The age a recovery asks for stands for two things: acquiredAt is old, and
\* no write the dead process sent is still on its way to MongoDB.  So a request
\* that leaves a write in flight has to age afresh.
GivesUp(r) == IF pc[r] \in InFlight THEN "lost" ELSE "stuck"

Settling(R) == aged \ {r \in R : pc[r] \in InFlight}

Throw(r) ==
    /\ Failures
    /\ pc[r] \notin {"idle", "started"} \union Gone \union Finished
    /\ Goto(r, GivesUp(r))
    /\ aged' = Settling({r})
    /\ UNCHANGED <<projectVars, childOf, req, wrote, counted, staleBoot, candidate>>

\* An unacknowledged write that never took effect.
Vanish(r) ==
    /\ pc[r] = "lost"
    /\ Goto(r, "stuck")
    /\ UNCHANGED <<projectVars, childOf, req, wrote, counted, recoveryVars>>

Running(i) == {r \in Requests : req[r].instance = i /\ pc[r] \notin {"idle"} \union Finished}

\* Process i dies and comes back with a new projectChildFenceBootId.
Restart(i) ==
    /\ Failures
    /\ Running(i) # {}
    /\ pc' = [r \in Requests |-> IF r \in Running(i)
                                 THEN GivesUp(r) ELSE pc[r]]
    /\ staleBoot' = staleBoot \union Running(i)
    /\ aged' = Settling(Running(i))
    /\ candidate' = [candidate EXCEPT ![i] = None]
    /\ UNCHANGED <<projectVars, childOf, req, wrote, counted>>

\* MINIMUM_FENCE_RECOVERY_AGE_MS passes since r acquired its fence.
Age(r) ==
    /\ Held(r)
    /\ pc[r] # "lost"
    /\ r \notin aged
    /\ aged' = aged \union {r}
    /\ UNCHANGED <<projectVars, childOf, pc, req, wrote, counted, staleBoot, candidate>>

------------------------------------------------------------------------------
\* Stale recovery: analyze*Recovery, then a compare-and-swap on the fence.  The
\* analysis reads the project and then the child; the two reads are one step,
\* for the compare-and-swap checks again what the first one decided on.

\* Mutant: a process may recover the reservations of its own boot.
AnyBoot(i, r) == TRUE

OtherBoot(i, r) == r \in staleBoot \/ req[r].instance # i

\* resourceStatus of the writer's child: absent or present in this project.
ResourceExpected(r) == childOf[req[r].child] \in {None, req[r].target}

WriterClearable(r) == /\ Unfenced(req[r].target)
                      /\ req[r].target \in alive
                      /\ r \in lifecycleWriters[req[r].target]

TaskLockClearable(r) == /\ taskGraphLock[req[r].target] = r
                        /\ req[r].target \in alive
                        /\ lifecycleLock[req[r].target] = None
                        /\ lifecycleWriters[req[r].target] = {}

AnalyzeRecovery(i, r) ==
    /\ RecoveryEnabled
    /\ candidate[i] = None
    /\ req[r] # NoRequest
    /\ \/ WriterClearable(r) /\ ResourceExpected(r)
       \/ TaskLockClearable(r)
    /\ OtherBoot(i, r)
    /\ r \in aged
    /\ candidate' = [candidate EXCEPT ![i] = r]
    /\ UNCHANGED <<projectVars, childOf, pc, req, wrote, counted, staleBoot, aged>>

\* recoverProjectChildWriter and recoverTaskGraphLock: cleared or conflict.
ClearRecovered(i) ==
    /\ candidate[i] # None
    /\ LET r == candidate[i]
       IN  /\ IF WriterClearable(r) THEN Unreserve(r) ELSE UNCHANGED lifecycleWriters
           /\ IF TaskLockClearable(r)
              THEN taskGraphLock' = Unlock(taskGraphLock, r) ELSE UNCHANGED taskGraphLock
    /\ candidate' = [candidate EXCEPT ![i] = None]
    /\ UNCHANGED <<alive, lifecycleLock, childOf, pc, req, wrote, counted, staleBoot,
                   aged>>

------------------------------------------------------------------------------
Progress(r) ==
    \/ AcquireProjectChildWriter(r)
    \/ NoWrite(r)
    \/ DispatchChildWrite(r)
    \/ LandChildWrite(r)
    \/ VerifyProjectChildWriter(r)
    \/ RemoveCreatedChild(r)
    \/ ReleaseProjectChildWriter(r)
    \/ AcquireLifecycleLock(r)
    \/ \E name \in Collections : CountChildren(r, name)
    \/ DispatchProjectDelete(r)
    \/ LandProjectDelete(r)
    \/ FinishProjectDelete(r)
    \/ AcquireTaskGraphLock(r)
    \/ InspectLockedState(r)
    \/ LandTaskDelete(r)
    \/ FinishTaskDelete(r)
    \/ ReleaseLock(r)

Next ==
    \/ \E r \in Requests, i \in Instances :
           \/ \E c \in Children, p \in Projects : StartCreate(r, p, c, i) \/ StartRun(r, p, c, i)
           \/ \E c \in Tasks : StartTaskDelete(r, c, i)
           \/ \E p \in Projects : StartProjectDelete(r, p, i)
    \/ \E r \in Requests : Progress(r) \/ Retire(r) \/ Throw(r) \/ Vanish(r) \/ Age(r)
    \/ \E c \in Timecards : DeleteTimecard(c)
    \/ \E i \in Instances : Restart(i) \/ ClearRecovered(i)
    \/ \E i \in Instances, r \in Requests : AnalyzeRecovery(i, r)

Spec == Init /\ [][Next]_vars

\* A request that is not interrupted runs to its end: each step is the
\* continuation of a promise that settles.
FairSpec == Spec /\ \A r \in Requests : WF_vars(Progress(r))

------------------------------------------------------------------------------
\* A child never outlives its project, whatever interleaving of creates, moves,
\* deletions, crashes, late writes and recoveries (docs/api-v2.md:59-61).
NoOrphan == \A c \in Children : childOf[c] # None => childOf[c] \in alive

\* Writers, a project delete and a task delete exclude one another on every
\* project document (the selectors of the three findOneAndUpdate calls).
FenceExclusion ==
    \A p \in Projects :
        /\ lifecycleLock[p] # None => lifecycleWriters[p] = {} /\ taskGraphLock[p] = None
        /\ taskGraphLock[p] # None => lifecycleWriters[p] = {}

\* At most MAX_PROJECT_CHILD_WRITERS reservations pile up on a project.
BoundedWriters == \A p \in Projects : Cardinality(lifecycleWriters[p]) <= MaxWriters

\* A reservation protects its write to the end: no $pull, deletion or recovery
\* takes it off the project while the write may still take effect.
ReservationCoversWrite ==
    \A r \in Requests :
        pc[r] \in {"reserved"} \union InFlight /\ req[r].kind \in WriterKinds
            => r \in lifecycleWriters[req[r].target]

\* No child enters a project, not even by a write left in flight by a dead
\* process, while that project is being deleted or has a task being deleted.
NoJoinUnderLock ==
    [][\A c \in Children :
           childOf'[c] # childOf[c] /\ childOf'[c] # None
               => childOf'[c] \in alive /\ Unfenced(childOf'[c])]_vars

\* A create or move reports success only while the project its child joined is still
\* stored and nobody is deleting it, even where recovery races a live writer.
SuccessIsNotOrphan ==
    [][\A r \in Requests :
           /\ pc[r] \notin Finished /\ pc'[r] = "returned"
           /\ req[r].kind \in WriterKinds
           => req[r].target \in alive /\ Unfenced(req[r].target)]_vars

\* Without failures no reservation and no lock is held for ever.
FencesDrain == \A r \in Requests : Held(r) ~> ~Held(r)

\* docs/api-v2.md:54,61: a stale lifecycle fence can be recovered once it has
\* reached the minimum age.  Stated for the locks of the two deletions.
StaleLockIsRecoverable ==
    \A r \in staleBoot \intersect aged, p \in Projects :
        r \in {lifecycleLock[p], taskGraphLock[p]} => TaskLockClearable(r)

\* Seen from the timecards, tasks and projects alone, joining a project and
\* deleting an empty one are single steps.
Promise == INSTANCE ProjectChildren

ImplementsPromise == Promise!Spec
==============================================================================
