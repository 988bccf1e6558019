--------------------------- MODULE TaskGraphProofs ---------------------------
(***************************************************************************)
(* Machine-checked proofs about TaskGraph: the dependencies, the recorded  *)
(* time and the flagged default task survive every interleaving, for any   *)
(* number of tasks, names, timecards and requests.                         *)
(***************************************************************************)
EXTENDS TaskGraph, TLAPS

------------------------------------------------------------------------------
(* The inductive invariant, part by part. *)

Writing == {"writing", "lost"}

\* A delete holds the lock alone.
LockExcludes == graphLock # None => writers = {}

\* Where a request is says which operation it runs.
KindOfStep ==
    \A r \in Requests :
        /\ pc[r] \in {"reserved", "checked", "releasing"} => req[r].kind \in WriterKinds
        /\ pc[r] \in {"inspecting", "unlocking"} => req[r].kind \in DeleteKinds
        /\ pc[r] # "idle" /\ req[r].kind = "insert"
               => req[r].name \in Names /\ req[r].dependencies \in SUBSET Tasks
        /\ pc[r] # "idle" /\ req[r].kind = "record"
               => req[r].name \in Names /\ req[r].target \in Timecards
        /\ pc[r] # "idle" /\ req[r].kind # "record" => req[r].target \in Tasks
        /\ pc[r] # "idle" /\ req[r].kind \in EditKinds \union DeleteKinds => seen[r] \in Document
        /\ pc[r] \in Writing /\ req[r].kind = "setDefault" => seen[r] \in Document
        /\ pc[r] \in {"started", "admitted"} => inspected[r] = {}
        /\ pc[r] = "idle" => inspected[r] = {}
        /\ pc[r] \in {"idle", "started", "admitted", "reserved"} => stage[r] = 1
        /\ pc[r] \in Writing /\ req[r].kind = "setDefault" /\ seen[r].isDefaultTask
               => stage[r] \in 1..2
        /\ pc[r] # "idle" /\ req[r].kind \in WriterKinds => inspected[r] = {}

\* A request past its acquisition is in the fence until it lets go.
FenceHeld ==
    \A r \in Requests :
        /\ pc[r] \in Writing \union {"reserved", "checked", "releasing", "stuck"}
           /\ req[r].kind \in WriterKinds => r \in writers
        /\ pc[r] \in Writing \union {"inspecting", "unlocking", "stuck"}
           /\ req[r].kind \in DeleteKinds => graphLock = r

\* What a writer is about to store was validated and still holds.
Validated ==
    \A r \in Requests :
        /\ pc[r] \in Writing
        /\ req[r].kind \in EditKinds \union {"insert"}
        /\ req[r].dependencies # None
        => req[r].dependencies \subseteq Stored

\* What a delete has read under its lock still holds.
StillTrue(r) ==
    /\ "dependentTaskCount" \in inspected[r]
           => \A t \in Stored : req[r].target \notin task[t].dependencies
    /\ "recordCount" \in inspected[r] /\ ~req[r].acknowledged
           => \A c \in Timecards : recordedAs[c] # seen[r].name
    /\ "currentTask" \in inspected[r] /\ req[r].target \in Stored
           => ~task[req[r].target].isDefaultTask

Inspected ==
    \A r \in Requests :
        pc[r] \in Writing \union {"inspecting"} /\ req[r].kind \in DeleteKinds
            => /\ pc[r] \in Writing => inspected[r] = Facts
               /\ StillTrue(r)

IInv == /\ TypeOK
        /\ LockExcludes
        /\ KindOfStep
        /\ FenceHeld
        /\ Validated
        /\ Inspected
        /\ DependenciesExist
------------------------------------------------------------------------------
\* A freshly created project satisfies the inductive invariant.
LEMMA InitIInv == Init => IInv
  BY TaskGraphAssumption
  DEF Init, IInv, TypeOK, LockExcludes, KindOfStep, FenceHeld, Validated, Inspected,
      DependenciesExist, Stored, Pcs, Writing, Document, Facts

\* The write of a reservation holder keeps every stored task, and stores no
\* dependency that is not stored.
LEMMA LandWriteGraph ==
    ASSUME IInv, NEW r \in Requests, LandWrite(r)
    PROVE  /\ task' \in [Tasks -> Document \union {None}]
           /\ defaultTask' \in Names \union {None}
           /\ recordedAs' \in [Timecards -> Names \union {None}]
           /\ stale' \subseteq Requests
           /\ Stored \subseteq Stored'
           /\ \A t \in Stored' :
                  \/ t \in Stored /\ task'[t].dependencies = task[t].dependencies
                  \/ task'[t].dependencies \subseteq Stored
<1> USE TaskGraphAssumption
    DEF IInv, TypeOK, KindOfStep, Validated, Stored, Writing, Document, Touch,
        EditKinds, DeleteKinds
<1>1. CASE req[r].kind = "insert"
  <2>1. /\ req[r].target \in Tasks /\ req[r].name \in Names
        /\ req[r].dependencies \subseteq Stored /\ req[r].dependencies \in SUBSET Tasks
    BY <1>1 DEF LandWrite
  <2> DEFINE document == [name |-> req[r].name, dependencies |-> req[r].dependencies,
                          isDefaultTask |-> FALSE]
  <2>2. document \in Document /\ document.dependencies \subseteq Stored
    BY <2>1
  <2>3. /\ task' = [task EXCEPT ![req[r].target] = document]
        /\ UNCHANGED <<defaultTask, recordedAs, stale>>
    BY <1>1 DEF LandWrite, InsertTask
  <2> HIDE DEF document
  <2> QED
    BY <2>1, <2>2, <2>3
<1>2. CASE req[r].kind \in EditKinds
  <2> DEFINE t == req[r].target
  <2>1. t \in Tasks /\ pc[r] \in Writing /\ UNCHANGED <<defaultTask, recordedAs>>
    BY <1>2 DEF LandWrite, EditTask
  <2>2. CASE UNCHANGED <<task, stale>>
    BY <2>1, <2>2
  <2>3. CASE task[t] # None /\ task' = [task EXCEPT ![t] = Edited(r, @)] /\ Touch({t})
    <3> DEFINE document == Edited(r, task[t])
    <3>1. /\ task[t] \in Document /\ req[r] \in Request
          /\ req[r].name \in Names \union {None}
          /\ req[r].dependencies \in (SUBSET Tasks) \union {None}
      BY <2>1, <2>3 DEF Request
    <3>2. document \in Document
      BY <3>1 DEF Edited
    <3>3. document.dependencies = task[t].dependencies \/ document.dependencies \subseteq Stored
      BY <1>2, <2>1, <3>1 DEF Edited
    <3>4. task' = [task EXCEPT ![t] = document] /\ stale' \subseteq Requests
      BY <2>3
    <3> HIDE DEF document
    <3> QED
      BY <2>1, <2>3, <3>2, <3>3, <3>4
  <2> QED
    BY <1>2, <2>2, <2>3 DEF LandWrite, EditTask
<1>3. CASE req[r].kind = "record"
  BY <1>3 DEF LandWrite, RecordTime
<1>4. CASE req[r].kind = "setDefault"
  <2>1. /\ SetDefault(r) /\ UNCHANGED recordedAs
        /\ req[r].target \in Tasks /\ seen[r] \in Document
    BY <1>4 DEF LandWrite
  <2>2. stale' \subseteq Requests
    <3> DEFINE t == req[r].target
               others == {u \in Stored \ {t} : task[u].isDefaultTask}
    <3>1. stale \subseteq Requests
      OBVIOUS
    <3>2. CASE UNCHANGED stale
      BY <3>1, <3>2
    <3>3. ASSUME NEW T, Touch(T)
          PROVE  stale' \subseteq Requests
      BY <3>1, <3>3 DEF Touch
    <3> HIDE DEF Touch
    <3>4. UNCHANGED stale \/ Touch(others) \/ Touch({t})
      BY <2>1 DEF SetDefault
    <3> HIDE DEF t, others
    <3> QED
      BY <3>2, <3>3, <3>4
  <2>3. defaultTask' \in Names \union {None}
    BY <2>1 DEF SetDefault
  <2>5. UNCHANGED task \/ \E T \in SUBSET Stored, value \in BOOLEAN : Flag(T, value)
    <3> DEFINE t == req[r].target
               others == {u \in Stored \ {t} : task[u].isDefaultTask}
    <3>1. others \in SUBSET Stored /\ {t} \intersect Stored \in SUBSET Stored
      OBVIOUS
    <3>2. \/ UNCHANGED task
          \/ Flag(others, FALSE)
          \/ Flag({t} \intersect Stored, ~seen[r].isDefaultTask)
      BY <2>1 DEF SetDefault
    <3>3. seen[r].isDefaultTask \in BOOLEAN
      BY <2>1
    <3> QED
      BY <3>1, <3>2, <3>3
  <2>4. ASSUME NEW T \in SUBSET Stored, NEW value \in BOOLEAN, Flag(T, value)
        PROVE  /\ task' \in [Tasks -> Document \union {None}]
               /\ \A t \in Tasks : /\ task[t] # None <=> task'[t] # None
                                   /\ task[t] # None =>
                                          task'[t].dependencies = task[t].dependencies
    <3>1. \A t \in T : [task[t] EXCEPT !.isDefaultTask = value] \in Document
      OBVIOUS
    <3> QED
      BY <2>4, <3>1 DEF Flag
  <2>6. /\ task' \in [Tasks -> Document \union {None}]
        /\ \A t \in Tasks : /\ task[t] # None <=> task'[t] # None
                            /\ task[t] # None => task'[t].dependencies = task[t].dependencies
    <3>1. CASE UNCHANGED task
      BY <3>1
    <3>2. CASE \E T \in SUBSET Stored, value \in BOOLEAN : Flag(T, value)
      <4>1. PICK T \in SUBSET Stored, value \in BOOLEAN : Flag(T, value)
        BY <3>2
      <4> QED
        BY ZenonT(60), <2>4, <4>1
    <3> QED
      BY <2>5, <3>1, <3>2
  <2> QED
    BY <2>1, <2>2, <2>3, <2>6
<1> QED
  BY <1>1, <1>2, <1>3, <1>4 DEF LandWrite

\* Every step keeps the inductive invariant.
LEMMA StepIInv == IInv /\ [Next]_vars => IInv'
<1> SUFFICES ASSUME IInv, [Next]_vars
             PROVE  IInv'
  OBVIOUS
<1> USE TaskGraphAssumption
    DEF IInv, TypeOK, LockExcludes, KindOfStep, FenceHeld, Validated, Inspected, StillTrue,
        DependenciesExist, Stored, Pcs, Writing, Goto, Answer, request, graph, fence,
        EditKinds, DeleteKinds, WriterKinds
<1>1. ASSUME NEW r \in Requests, NEW t \in Tasks, NEW name \in Names, NEW D \in SUBSET Tasks, StartInsert(r, t, name, D)
      PROVE  IInv'
  <2>1. TypeOK'
    BY <1>1 DEF StartInsert, Begin, Arguments, Request
  <2>2. LockExcludes'
    BY <1>1 DEF StartInsert, Begin, Arguments, Request
  <2>3. KindOfStep'
    BY <1>1 DEF StartInsert, Begin, Arguments, Request
  <2>4. FenceHeld'
    BY <1>1 DEF StartInsert, Begin, Arguments, Request
  <2>5. Validated'
    BY <1>1 DEF StartInsert, Begin, Arguments, Request
  <2>6. Inspected'
    BY <1>1 DEF StartInsert, Begin, Arguments, Request
  <2>7. DependenciesExist'
    BY <1>1 DEF StartInsert, Begin, Arguments, Request
  <2> QED
    BY <2>1, <2>2, <2>3, <2>4, <2>5, <2>6, <2>7
<1>2. ASSUME NEW r \in Requests, NEW kind \in EditKinds, NEW t \in Tasks, NEW name \in Names \union {None}, NEW D \in (SUBSET Tasks) \union {None}, StartEdit(r, kind, t, name, D)
      PROVE  IInv'
  <2>1. TypeOK'
    BY <1>2 DEF StartEdit, Begin, Arguments, Request
  <2>2. LockExcludes'
    BY <1>2 DEF StartEdit, Begin, Arguments, Request
  <2>3. KindOfStep'
    BY <1>2 DEF StartEdit, Begin, Arguments, Request
  <2>4. FenceHeld'
    BY <1>2 DEF StartEdit, Begin, Arguments, Request
  <2>5. Validated'
    BY <1>2 DEF StartEdit, Begin, Arguments, Request
  <2>6. Inspected'
    BY <1>2 DEF StartEdit, Begin, Arguments, Request
  <2>7. DependenciesExist'
    BY <1>2 DEF StartEdit, Begin, Arguments, Request
  <2> QED
    BY <2>1, <2>2, <2>3, <2>4, <2>5, <2>6, <2>7
<1>3. ASSUME NEW r \in Requests, NEW t \in Tasks, StartSetDefault(r, t)
      PROVE  IInv'
  <2>1. TypeOK'
    BY <1>3 DEF StartSetDefault, Begin, Arguments, Request
  <2>2. LockExcludes'
    BY <1>3 DEF StartSetDefault, Begin, Arguments, Request
  <2>3. KindOfStep'
    BY <1>3 DEF StartSetDefault, Begin, Arguments, Request
  <2>4. FenceHeld'
    BY <1>3 DEF StartSetDefault, Begin, Arguments, Request
  <2>5. Validated'
    BY <1>3 DEF StartSetDefault, Begin, Arguments, Request
  <2>6. Inspected'
    BY <1>3 DEF StartSetDefault, Begin, Arguments, Request
  <2>7. DependenciesExist'
    BY <1>3 DEF StartSetDefault, Begin, Arguments, Request
  <2> QED
    BY <2>1, <2>2, <2>3, <2>4, <2>5, <2>6, <2>7
<1>4. ASSUME NEW r \in Requests, NEW kind \in DeleteKinds, NEW t \in Tasks, NEW acknowledged \in BOOLEAN, StartDelete(r, kind, t, acknowledged)
      PROVE  IInv'
  <2>1. TypeOK'
    BY <1>4 DEF StartDelete, Begin, Arguments, Request
  <2>2. LockExcludes'
    BY <1>4 DEF StartDelete, Begin, Arguments, Request
  <2>3. KindOfStep'
    BY <1>4 DEF StartDelete, Begin, Arguments, Request
  <2>4. FenceHeld'
    BY <1>4 DEF StartDelete, Begin, Arguments, Request
  <2>5. Validated'
    BY <1>4 DEF StartDelete, Begin, Arguments, Request
  <2>6. Inspected'
    BY <1>4 DEF StartDelete, Begin, Arguments, Request
  <2>7. DependenciesExist'
    BY <1>4 DEF StartDelete, Begin, Arguments, Request
  <2> QED
    BY <2>1, <2>2, <2>3, <2>4, <2>5, <2>6, <2>7
<1>5. ASSUME NEW r \in Requests, NEW c \in Timecards, NEW name \in Names, StartRecord(r, c, name)
      PROVE  IInv'
  <2>1. TypeOK'
    BY <1>5 DEF StartRecord, Begin, Arguments, Request
  <2>2. LockExcludes'
    BY <1>5 DEF StartRecord, Begin, Arguments, Request
  <2>3. KindOfStep'
    BY <1>5 DEF StartRecord, Begin, Arguments, Request
  <2>4. FenceHeld'
    BY <1>5 DEF StartRecord, Begin, Arguments, Request
  <2>5. Validated'
    BY <1>5 DEF StartRecord, Begin, Arguments, Request
  <2>6. Inspected'
    BY <1>5 DEF StartRecord, Begin, Arguments, Request
  <2>7. DependenciesExist'
    BY <1>5 DEF StartRecord, Begin, Arguments, Request
  <2> QED
    BY <2>1, <2>2, <2>3, <2>4, <2>5, <2>6, <2>7
<1>6. ASSUME NEW r \in Requests, CheckDefault(r)
      PROVE  IInv'
  <2>1. TypeOK'
    BY <1>6 DEF CheckDefault
  <2>2. LockExcludes'
    BY <1>6 DEF CheckDefault
  <2>3. KindOfStep'
    BY <1>6 DEF CheckDefault
  <2>4. FenceHeld'
    BY <1>6 DEF CheckDefault
  <2>5. Validated'
    BY <1>6 DEF CheckDefault
  <2>6. Inspected'
    BY <1>6 DEF CheckDefault
  <2>7. DependenciesExist'
    BY <1>6 DEF CheckDefault
  <2> QED
    BY <2>1, <2>2, <2>3, <2>4, <2>5, <2>6, <2>7
<1>7. ASSUME NEW r \in Requests, AcquireWriter(r)
      PROVE  IInv'
  <2>1. TypeOK'
    BY <1>7, SMTT(30) DEF AcquireWriter
  <2>2. LockExcludes'
    BY <1>7, SMTT(30) DEF AcquireWriter
  <2>3. KindOfStep'
    BY <1>7, SMTT(30) DEF AcquireWriter
  <2>4. FenceHeld'
    BY <1>7, SMTT(30) DEF AcquireWriter
  <2>5. Validated'
    BY <1>7, SMTT(30) DEF AcquireWriter
  <2>6. Inspected'
    BY <1>7, SMTT(30) DEF AcquireWriter
  <2>7. DependenciesExist'
    BY <1>7, SMTT(30) DEF AcquireWriter
  <2> QED
    BY <2>1, <2>2, <2>3, <2>4, <2>5, <2>6, <2>7
<1>8. ASSUME NEW r \in Requests, RecheckDefault(r)
      PROVE  IInv'
  <2>1. TypeOK'
    BY <1>8 DEF RecheckDefault
  <2>2. LockExcludes'
    BY <1>8 DEF RecheckDefault
  <2>3. KindOfStep'
    BY <1>8 DEF RecheckDefault
  <2>4. FenceHeld'
    BY <1>8 DEF RecheckDefault
  <2>5. Validated'
    BY <1>8 DEF RecheckDefault
  <2>6. Inspected'
    BY <1>8 DEF RecheckDefault
  <2>7. DependenciesExist'
    BY <1>8 DEF RecheckDefault
  <2> QED
    BY <2>1, <2>2, <2>3, <2>4, <2>5, <2>6, <2>7
<1>9. ASSUME NEW r \in Requests, ValidateDependencies(r)
      PROVE  IInv'
  BY <1>9 DEF ValidateDependencies, Dependencies
<1>10. ASSUME NEW r \in Requests, DispatchRecord(r)
      PROVE  IInv'
  BY <1>10 DEF DispatchRecord
<1>11. ASSUME NEW r \in Requests, ReadDefaultTask(r)
      PROVE  IInv'
  BY <1>11 DEF ReadDefaultTask
<1>12. ASSUME NEW r \in Requests, LandWrite(r)
       PROVE  IInv'
  <2>1. /\ graphLock = None /\ req[r].kind \in WriterKinds /\ pc[r] \in Writing
        /\ UNCHANGED <<fence, req, seen, inspected>>
    BY <1>12 DEF LandWrite
  <2>8. /\ pc' = [pc EXCEPT ![r] = pc'[r]]
        /\ \/ pc[r] = "lost" /\ pc'[r] = "stuck"
           \/ pc[r] = "writing" /\ pc'[r] \in {"writing", "releasing"}
    BY <1>12 DEF LandWrite
  <2>9. /\ stage' \in [Requests -> 1..3]
        /\ \A q \in Requests \ {r} : stage'[q] = stage[q]
        /\ pc'[r] \in Writing /\ req[r].kind = "setDefault" /\ seen[r].isDefaultTask
               => stage'[r] \in 1..2
    <3>1. CASE UNCHANGED stage
      BY <2>1, <3>1, <2>8
    <3>2. CASE stage' = [stage EXCEPT ![r] = @ + 1] /\ ~LastWrite(r)
      BY <2>1, <3>2 DEF LastWrite
    <3> QED
      BY <1>12, <3>1, <3>2 DEF LandWrite
  <2>2. /\ task' \in [Tasks -> Document \union {None}]
        /\ defaultTask' \in Names \union {None}
        /\ recordedAs' \in [Timecards -> Names \union {None}]
        /\ stale' \subseteq Requests
        /\ Stored \subseteq Stored'
        /\ \A t \in Stored' :
               \/ t \in Stored /\ task'[t].dependencies = task[t].dependencies
               \/ task'[t].dependencies \subseteq Stored
    BY <1>12, LandWriteGraph
  <2>3. TypeOK'
    <3>1. pc' \in [Requests -> Pcs]
      BY <2>8
    <3>2. \A q \in Requests : pc'[q] # "idle" => req'[q] \in Request
      BY <2>1, <2>8
    <3> QED
      BY <2>1, <2>2, <2>9, <3>1, <3>2
  <2>4. LockExcludes' /\ Inspected'
    BY <2>1, <2>8
  <2>5. KindOfStep'
    BY <2>1, <2>8, <2>9
  <2>6. FenceHeld'
    BY <2>1, <2>8
  <2>7. Validated' /\ DependenciesExist'
    BY <2>1, <2>2, <2>8
  <2> QED
    BY <2>3, <2>4, <2>5, <2>6, <2>7
<1>13. ASSUME NEW r \in Requests, ReleaseWriter(r)
      PROVE  IInv'
  BY <1>13, SMTT(30) DEF ReleaseWriter
<1>14. ASSUME NEW r \in Requests, AcquireGraphLock(r)
      PROVE  IInv'
  BY <1>14 DEF AcquireGraphLock
<1>15. ASSUME NEW r \in Requests, NEW fact \in Facts, Inspect(r, fact)
       PROVE  IInv'
  <2>1. TypeOK'
    BY <1>15 DEF Inspect
  <2>2. LockExcludes' /\ Validated' /\ DependenciesExist'
    BY <1>15 DEF Inspect
  <2>3. KindOfStep'
    BY <1>15 DEF Inspect
  <2>4. FenceHeld'
    BY <1>15 DEF Inspect
  <2>5. Inspected'
    <3>1. CASE Refuses(r, fact)
      BY <1>15, <3>1 DEF Inspect
    <3>2. CASE ~Refuses(r, fact)
      <4>1. CASE fact = "currentTask"
        BY <1>15, <3>2, <4>1 DEF Inspect, Refuses
      <4>2. CASE fact = "currentProject"
        BY <1>15, <3>2, <4>2 DEF Inspect, Refuses
      <4>3. CASE fact = "dependentTaskCount"
        BY <1>15, <3>2, <4>3 DEF Inspect, Refuses
      <4>4. CASE fact = "recordCount"
        BY <1>15, <3>2, <4>4 DEF Inspect, Refuses
      <4> QED
        BY <4>1, <4>2, <4>3, <4>4 DEF Facts
    <3> QED
      BY <3>1, <3>2
  <2> QED
    BY <2>1, <2>2, <2>3, <2>4, <2>5
<1>16. ASSUME NEW r \in Requests, DispatchDelete(r)
      PROVE  IInv'
  <2>1. TypeOK'
    BY <1>16 DEF DispatchDelete, Facts
  <2>2. LockExcludes'
    BY <1>16 DEF DispatchDelete, Facts
  <2>3. KindOfStep'
    BY <1>16 DEF DispatchDelete, Facts
  <2>4. FenceHeld'
    BY <1>16 DEF DispatchDelete, Facts
  <2>5. Validated'
    BY <1>16 DEF DispatchDelete, Facts
  <2>6. Inspected'
    BY <1>16 DEF DispatchDelete, Facts
  <2>7. DependenciesExist'
    BY <1>16 DEF DispatchDelete, Facts
  <2> QED
    BY <2>1, <2>2, <2>3, <2>4, <2>5, <2>6, <2>7
<1>17. ASSUME NEW r \in Requests, LandDelete(r)
      PROVE  IInv'
  <2>1. TypeOK'
    BY <1>17 DEF LandDelete, StillTheTask, Facts
  <2>2. LockExcludes'
    BY <1>17 DEF LandDelete, StillTheTask, Facts
  <2>3. KindOfStep'
    BY <1>17 DEF LandDelete, StillTheTask, Facts
  <2>4. FenceHeld'
    BY <1>17 DEF LandDelete, StillTheTask, Facts
  <2>5. Validated'
    BY <1>17 DEF LandDelete, StillTheTask, Facts
  <2>6. Inspected'
    BY <1>17 DEF LandDelete, StillTheTask, Facts
  <2>7. DependenciesExist'
    BY <1>17 DEF LandDelete, StillTheTask, Facts
  <2> QED
    BY <2>1, <2>2, <2>3, <2>4, <2>5, <2>6, <2>7
<1>18. ASSUME NEW r \in Requests, ReleaseGraphLock(r)
      PROVE  IInv'
  BY <1>18 DEF ReleaseGraphLock
<1>19. ASSUME NEW r \in Requests, Throw(r)
      PROVE  IInv'
  BY <1>19 DEF Throw
<1>20. ASSUME NEW r \in Requests, Vanish(r)
      PROVE  IInv'
  BY <1>20 DEF Vanish
<1>21. ASSUME NEW r \in Requests, Recover(r)
      PROVE  IInv'
  BY <1>21 DEF Recover
<1>22. ASSUME NEW name \in Names \union {None}, UpdateProject(name)
      PROVE  IInv'
  BY <1>22 DEF UpdateProject
<1>23. ASSUME NEW c \in Timecards, DeleteTimecard(c)
      PROVE  IInv'
  BY <1>23 DEF DeleteTimecard, Document
<1>24. CASE UNCHANGED vars
  BY <1>24 DEF vars
<1> HIDE DEF IInv
<1> QED
  BY <1>1, <1>2, <1>3, <1>4, <1>5, <1>6, <1>7, <1>8, <1>9, <1>10, <1>11, <1>12, <1>13, <1>14, <1>15, <1>16, <1>17, <1>18, <1>19, <1>20, <1>21, <1>22, <1>23, <1>24
  DEF Next, Arrivals, Steps, Arrive, Progress

------------------------------------------------------------------------------
\* The inductive invariant holds in every reachable state.
THEOREM Invariance == Spec => []IInv
  BY InitIInv, StepIInv, PTL DEF Spec

\* Every field keeps the shape the code gives it.
THEOREM TypeCorrect == Spec => []TypeOK
<1>1. IInv => TypeOK
  BY DEF IInv
<1> QED
  BY <1>1, Invariance, PTL

\* Validated under a reservation and written later, a dependency still names a
\* stored task, and no delete takes that task away.
THEOREM DependenciesStay == Spec => []DependenciesExist
<1>1. IInv => DependenciesExist
  BY DEF IInv
<1> QED
  BY <1>1, Invariance, PTL

\* A task leaves the store only by the delete that holds the lock, which has read
\* everything it decides on, and all of it still holds.
LEMMA OnlyDeletesRemove ==
    ASSUME IInv, [Next]_vars, NEW t \in Stored, task'[t] = None
    PROVE  \E r \in Requests : /\ graphLock = r
                               /\ req[r].target = t /\ req[r].acknowledged \in BOOLEAN
                               /\ inspected[r] = Facts /\ StillTrue(r)
                               /\ task[t].name = seen[r].name
<1> USE TaskGraphAssumption DEF Stored
<1>1. t \in Tasks /\ task[t] # None
  OBVIOUS
<1>2. ~UNCHANGED task
  BY <1>1
<1>3. ASSUME NEW r \in Requests, Arrive(r)
      PROVE  FALSE
  BY <1>2, <1>3 DEF Arrive, Begin, graph, StartInsert, StartEdit, StartSetDefault,
     StartDelete, StartRecord
<1>4. ASSUME NEW r \in Requests,
             CheckDefault(r) \/ AcquireWriter(r) \/ RecheckDefault(r)
                 \/ ValidateDependencies(r) \/ DispatchRecord(r) \/ ReadDefaultTask(r)
      PROVE  FALSE
  BY <1>2, <1>4 DEF graph, CheckDefault, AcquireWriter, RecheckDefault,
     ValidateDependencies, DispatchRecord, ReadDefaultTask
<1>5. ASSUME NEW r \in Requests,
             ReleaseWriter(r) \/ AcquireGraphLock(r) \/ DispatchDelete(r)
                 \/ ReleaseGraphLock(r) \/ Throw(r) \/ Vanish(r) \/ Recover(r)
      PROVE  FALSE
  BY <1>2, <1>5 DEF graph, ReleaseWriter, AcquireGraphLock, DispatchDelete,
     ReleaseGraphLock, Throw, Vanish, Recover
<1>6. ASSUME NEW r \in Requests, NEW fact \in Facts, Inspect(r, fact)
      PROVE  FALSE
  BY <1>2, <1>6 DEF graph, Inspect
<1>7. ~UNCHANGED vars
  BY <1>2 DEF vars, graph
<1>8. (\E r \in Requests : LandDelete(r)) \/ (\E r \in Requests : LandWrite(r))
  BY <1>2, <1>3, <1>4, <1>5, <1>6, <1>7
  DEF Next, Arrivals, Steps, Progress, UpdateProject, DeleteTimecard
<1>9. ASSUME NEW r \in Requests, LandWrite(r)
      PROVE  FALSE
  BY <1>1, <1>9, LandWriteGraph
<1>10. PICK r \in Requests : LandDelete(r)
  BY <1>8, <1>9
<1>11. /\ pc[r] \in Writing /\ req[r].kind \in DeleteKinds
       /\ req[r] \in Request /\ req[r].target \in Tasks
  BY <1>10 DEF LandDelete, IInv, TypeOK, KindOfStep, DeleteKinds, Writing
<1>12. req[r].target = t /\ StillTheTask(r)
  BY <1>1, <1>10, <1>11 DEF LandDelete, IInv, TypeOK
<1>13. task[t].name = seen[r].name
  BY <1>12 DEF StillTheTask, Unchanged
<1> QED
  BY <1>11, <1>12, <1>13 DEF IInv, FenceHeld, Inspected, Writing, Request

\* A task is deleted under a recorded name only by a caller who acknowledged it.
THEOREM RecordsGuarded == Spec => RecordedGuard
<1>1. IInv /\ [Next]_vars =>
          [\A t \in Stored :
               task'[t] = None
                   => \/ \A c \in Timecards : recordedAs[c] # task[t].name
                      \/ \E r \in Requests : /\ graphLock = r
                                             /\ req[r].target = t /\ req[r].acknowledged]_vars
  BY OnlyDeletesRemove DEF StillTrue, Facts
<1> QED
  BY <1>1, Invariance, PTL DEF Spec, RecordedGuard

\* No task that carries the default flag is deleted.
THEOREM FlaggedStays == Spec => FlaggedTaskStays
<1>1. IInv /\ [Next]_vars =>
          [\A t \in Stored : task[t].isDefaultTask => task'[t] # None]_vars
  BY OnlyDeletesRemove DEF StillTrue, Facts
<1> QED
  BY <1>1, Invariance, PTL DEF Spec, FlaggedTaskStays
==============================================================================
