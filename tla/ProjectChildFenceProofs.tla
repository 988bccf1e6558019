----------------------- MODULE ProjectChildFenceProofs -----------------------
(***************************************************************************)
(* Machine-checked proofs about ProjectChildFence, for every set of        *)
(* projects, children and requests and any number of failures.             *)
(***************************************************************************)
EXTENDS ProjectChildFence, FiniteSetTheorems, TLAPS

------------------------------------------------------------------------------
(* The inductive invariant, part by part. *)

\* Only stored projects carry fence fields.
FencesStored ==
    \A p \in Projects :
        p \notin alive => lifecycleWriters[p] = {} /\ lifecycleLock[p] = None

\* Where a request is says which operation it runs.
KindOfStep ==
    \A r \in Requests :
        /\ pc[r] \in {"reserved", "undoing", "releasing", "aborting"}
               => req[r].kind \in WriterKinds
        /\ pc[r] = "counting" => req[r].kind = "deleteProject"
        /\ pc[r] = "inspecting" => req[r].kind = "deleteTask"
        /\ pc[r] \in {"idle", "started"} => counted[r] = {}

\* A project delete that is counting, or whose deleteOne may still take effect,
\* holds the lock, and the collections it found empty are still empty.
DeleteCovered ==
    \A r \in Requests :
        pc[r] \in {"counting"} \union InFlight /\ req[r].kind = "deleteProject"
            => /\ lifecycleLock[req[r].target] = r
               /\ \A name \in counted[r] : \A c \in Collection(name) :
                      childOf[c] # req[r].target
               /\ pc[r] \in InFlight => counted[r] = Collections

\* Recovery aims only at requests of a dead process with nothing in flight.
RecoverySettled ==
    /\ \A r \in staleBoot : pc[r] \in Gone
    /\ \A r \in aged : pc[r] # "lost"
    /\ \A i \in Instances : candidate[i] # None => candidate[i] \in staleBoot \intersect aged

IInv == /\ TypeOK
        /\ FenceExclusion
        /\ ReservationCoversWrite
        /\ FencesStored
        /\ KindOfStep
        /\ DeleteCovered
        /\ RecoverySettled
        /\ NoOrphan
------------------------------------------------------------------------------
\* A freshly started system satisfies the inductive invariant.
LEMMA InitIInv == Init => IInv
  BY FenceAssumption
  DEF Init, IInv, TypeOK, FenceExclusion, ReservationCoversWrite, FencesStored, KindOfStep,
      DeleteCovered, RecoverySettled, NoOrphan, Pcs, InFlight, WriterKinds, Children
\* A slot in use holds well-formed arguments.
LEMMA RequestTyped ==
    ASSUME TypeOK, NEW r \in Requests, pc[r] # "idle"
    PROVE  /\ req[r].target \in Projects
           /\ req[r].target # None
           /\ req[r].kind \in Kinds
           /\ req[r].instance \in Instances
           /\ req[r].child \in Children \union {None}
  BY FenceAssumption DEF TypeOK, Request

\* The two collections hold nothing but children.
LEMMA CollectionTyped ==
    ASSUME NEW name \in Collections
    PROVE  Collection(name) \subseteq Children
  BY DEF Collection, Collections, Children

\* Every child is in one of the two collections a project delete counts.
LEMMA CollectionsCover ==
    ASSUME NEW c \in Children
    PROVE  \E name \in Collections : c \in Collection(name)
  BY DEF Collection, Collections, Children

\* Every step keeps the inductive invariant: one case per action.
LEMMA StepIInv ==
    ASSUME SafeDeployment
    PROVE  IInv /\ [Next]_vars => IInv'
<1> SUFFICES ASSUME IInv, [Next]_vars
             PROVE  IInv'
  OBVIOUS
<1> USE FenceAssumption
<1>1. ASSUME NEW r \in Requests, NEW i \in Instances, NEW c \in Children, NEW p \in Projects, StartCreate(r, p, c, i)
      PROVE  IInv'
  BY <1>1
  DEF StartCreate, Start, Request, Kinds, FreshChild,
      IInv, TypeOK, FenceExclusion, ReservationCoversWrite, FencesStored, KindOfStep, DeleteCovered,
      RecoverySettled, NoOrphan,
      Pcs, Gone, Finished, InFlight, WriterKinds, Goto, projectVars, recoveryVars
<1>2. ASSUME NEW r \in Requests, NEW i \in Instances, NEW c \in Children, NEW p \in Projects, StartRun(r, p, c, i)
      PROVE  IInv'
  BY <1>2
  DEF StartRun, Start, Request, Kinds,
      IInv, TypeOK, FenceExclusion, ReservationCoversWrite, FencesStored, KindOfStep, DeleteCovered,
      RecoverySettled, NoOrphan,
      Pcs, Gone, Finished, InFlight, WriterKinds, Goto, projectVars, recoveryVars
<1>3. ASSUME NEW r \in Requests, NEW i \in Instances, NEW c \in Tasks, StartTaskDelete(r, c, i)
      PROVE  IInv'
  BY <1>3
  DEF StartTaskDelete, Start, Request, Kinds, Children,
      IInv, TypeOK, FenceExclusion, ReservationCoversWrite, FencesStored, KindOfStep, DeleteCovered,
      RecoverySettled, NoOrphan,
      Pcs, Gone, Finished, InFlight, WriterKinds, Goto, projectVars, recoveryVars
<1>4. ASSUME NEW r \in Requests, NEW i \in Instances, NEW p \in Projects, StartProjectDelete(r, p, i)
      PROVE  IInv'
  BY <1>4
  DEF StartProjectDelete, Start, Request, Kinds,
      IInv, TypeOK, FenceExclusion, ReservationCoversWrite, FencesStored, KindOfStep, DeleteCovered,
      RecoverySettled, NoOrphan,
      Pcs, Gone, Finished, InFlight, WriterKinds, Goto, projectVars, recoveryVars
<1>5. ASSUME NEW r \in Requests, Retire(r)
      PROVE  IInv'
  BY <1>5
  DEF Retire, Held,
      IInv, TypeOK, FenceExclusion, ReservationCoversWrite, FencesStored, KindOfStep, DeleteCovered,
      RecoverySettled, NoOrphan,
      Pcs, Gone, Finished, InFlight, WriterKinds, Goto, projectVars, recoveryVars
<1>6. ASSUME NEW r \in Requests, AcquireProjectChildWriter(r)
      PROVE  IInv'
  <2>1. TypeOK'
    BY SMTT(30), <1>6
    DEF AcquireProjectChildWriter, CanAcquire, Unfenced, Request, IInv, TypeOK, FenceExclusion, ReservationCoversWrite, FencesStored, KindOfStep,
        DeleteCovered, RecoverySettled, NoOrphan, Pcs, Gone, Finished, InFlight, WriterKinds, Goto,
        projectVars, recoveryVars
  <2>2. FenceExclusion'
    <3>1. req[r].target \in Projects
      BY <1>6, RequestTyped DEF IInv, AcquireProjectChildWriter
    <3>2. QED
      BY <1>6, <3>1 DEF AcquireProjectChildWriter, CanAcquire, Unfenced, IInv, TypeOK, FenceExclusion
  <2>3. ReservationCoversWrite'
    BY <1>6
    DEF AcquireProjectChildWriter, CanAcquire, Unfenced, Request, IInv, TypeOK, FenceExclusion, ReservationCoversWrite, FencesStored, KindOfStep,
        DeleteCovered, RecoverySettled, NoOrphan, Pcs, Gone, Finished, InFlight, WriterKinds, Goto,
        projectVars, recoveryVars
  <2>4. FencesStored'
    BY <1>6
    DEF AcquireProjectChildWriter, CanAcquire, Unfenced, Request, IInv, TypeOK, FenceExclusion, ReservationCoversWrite, FencesStored, KindOfStep,
        DeleteCovered, RecoverySettled, NoOrphan, Pcs, Gone, Finished, InFlight, WriterKinds, Goto,
        projectVars, recoveryVars
  <2>5. KindOfStep'
    BY <1>6
    DEF AcquireProjectChildWriter, CanAcquire, Unfenced, Request, IInv, TypeOK, FenceExclusion, ReservationCoversWrite, FencesStored, KindOfStep,
        DeleteCovered, RecoverySettled, NoOrphan, Pcs, Gone, Finished, InFlight, WriterKinds, Goto,
        projectVars, recoveryVars
  <2>6. DeleteCovered'
    BY <1>6
    DEF AcquireProjectChildWriter, CanAcquire, Unfenced, Request, IInv, TypeOK, FenceExclusion, ReservationCoversWrite, FencesStored, KindOfStep,
        DeleteCovered, RecoverySettled, NoOrphan, Pcs, Gone, Finished, InFlight, WriterKinds, Goto,
        projectVars, recoveryVars
  <2>7. RecoverySettled'
    BY <1>6
    DEF AcquireProjectChildWriter, CanAcquire, Unfenced, Request, IInv, TypeOK, FenceExclusion, ReservationCoversWrite, FencesStored, KindOfStep,
        DeleteCovered, RecoverySettled, NoOrphan, Pcs, Gone, Finished, InFlight, WriterKinds, Goto,
        projectVars, recoveryVars
  <2>8. NoOrphan'
    BY <1>6
    DEF AcquireProjectChildWriter, CanAcquire, Unfenced, Request, IInv, TypeOK, FenceExclusion, ReservationCoversWrite, FencesStored, KindOfStep,
        DeleteCovered, RecoverySettled, NoOrphan, Pcs, Gone, Finished, InFlight, WriterKinds, Goto,
        projectVars, recoveryVars
  <2>9. QED
    BY <2>1, <2>2, <2>3, <2>4, <2>5, <2>6, <2>7, <2>8 DEF IInv
<1>7. ASSUME NEW r \in Requests, NoWrite(r)
      PROVE  IInv'
  BY <1>7
  DEF NoWrite,
      IInv, TypeOK, FenceExclusion, ReservationCoversWrite, FencesStored, KindOfStep, DeleteCovered,
      RecoverySettled, NoOrphan,
      Pcs, Gone, Finished, InFlight, WriterKinds, Goto, projectVars, recoveryVars
<1>8. ASSUME NEW r \in Requests, DispatchChildWrite(r)
      PROVE  IInv'
  BY <1>8
  DEF DispatchChildWrite, Request,
      IInv, TypeOK, FenceExclusion, ReservationCoversWrite, FencesStored, KindOfStep, DeleteCovered,
      RecoverySettled, NoOrphan,
      Pcs, Gone, Finished, InFlight, WriterKinds, Goto, projectVars, recoveryVars
<1>9. ASSUME NEW r \in Requests, LandChildWrite(r)
      PROVE  IInv'
  <2>1. TypeOK'
    <3>1. req[r].target \in Projects
      BY <1>9, RequestTyped DEF IInv, LandChildWrite, InFlight
    <3>2. QED
      BY <1>9, <3>1 DEF LandChildWrite, ChildWrite, Landed, IInv, TypeOK, Pcs, Gone, InFlight, Goto, projectVars, recoveryVars
  <2>2. FenceExclusion'
    BY <1>9
    DEF LandChildWrite, ChildWrite, Landed, Request, Kinds, IInv, TypeOK, FenceExclusion, ReservationCoversWrite, FencesStored, KindOfStep,
        DeleteCovered, RecoverySettled, NoOrphan, Pcs, Gone, Finished, InFlight, WriterKinds, Goto,
        projectVars, recoveryVars
  <2>3. ReservationCoversWrite'
    BY <1>9
    DEF LandChildWrite, ChildWrite, Landed, Request, Kinds, IInv, TypeOK, FenceExclusion, ReservationCoversWrite, FencesStored, KindOfStep,
        DeleteCovered, RecoverySettled, NoOrphan, Pcs, Gone, Finished, InFlight, WriterKinds, Goto,
        projectVars, recoveryVars
  <2>4. FencesStored'
    BY <1>9
    DEF LandChildWrite, ChildWrite, Landed, Request, Kinds, IInv, TypeOK, FenceExclusion, ReservationCoversWrite, FencesStored, KindOfStep,
        DeleteCovered, RecoverySettled, NoOrphan, Pcs, Gone, Finished, InFlight, WriterKinds, Goto,
        projectVars, recoveryVars
  <2>5. KindOfStep'
    BY <1>9
    DEF LandChildWrite, ChildWrite, Landed, Request, Kinds, IInv, TypeOK, FenceExclusion, ReservationCoversWrite, FencesStored, KindOfStep,
        DeleteCovered, RecoverySettled, NoOrphan, Pcs, Gone, Finished, InFlight, WriterKinds, Goto,
        projectVars, recoveryVars
  <2>6. DeleteCovered'
    <3> SUFFICES ASSUME NEW q \in Requests,
                        pc'[q] \in {"counting"} \union InFlight, req'[q].kind = "deleteProject"
                 PROVE  /\ lifecycleLock'[req'[q].target] = q
                        /\ \A name \in counted'[q] : \A c \in Collection(name) :
                               childOf'[c] # req'[q].target
                        /\ pc'[q] \in InFlight => counted'[q] = Collections
      BY DEF DeleteCovered, InFlight
    <3>1. /\ UNCHANGED <<lifecycleLock, req, counted>>
          /\ pc[q] = pc'[q]
      BY <1>9 DEF LandChildWrite, Landed, IInv, TypeOK, InFlight, Goto, projectVars, recoveryVars, WriterKinds
    <3>2. /\ lifecycleLock[req[q].target] = q
          /\ \A name \in counted[q] : \A c \in Collection(name) : childOf[c] # req[q].target
          /\ pc[q] \in InFlight => counted[q] = Collections
      BY <3>1 DEF IInv, DeleteCovered
    <3>3. req[q].target \in Projects /\ req[q].target # None
      BY <3>1, RequestTyped DEF IInv, InFlight
    <3>4. ASSUME NEW name \in counted[q], NEW c1 \in Collection(name)
          PROVE  childOf'[c1] # req[q].target
      <4>1. c1 \in Children
        BY CollectionTyped DEF IInv, TypeOK
      <4>2. req[r].target # req[q].target
        <5>1. r \in lifecycleWriters[req[r].target]
          BY <1>9 DEF LandChildWrite, IInv, ReservationCoversWrite, InFlight
        <5>2. lifecycleWriters[req[q].target] = {}
          BY <3>2, <3>3, FenceAssumption DEF IInv, FenceExclusion
        <5>3. QED
          BY <5>1, <5>2
      <4>3. QED
        BY <1>9, <3>2, <4>1, <4>2 DEF LandChildWrite, ChildWrite, IInv, TypeOK
    <3>5. QED
      BY <3>1, <3>2, <3>4
  <2>7. RecoverySettled'
    BY <1>9
    DEF LandChildWrite, ChildWrite, Landed, Request, Kinds, IInv, TypeOK, FenceExclusion, ReservationCoversWrite, FencesStored, KindOfStep,
        DeleteCovered, RecoverySettled, NoOrphan, Pcs, Gone, Finished, InFlight, WriterKinds, Goto,
        projectVars, recoveryVars
  <2>8. NoOrphan'
    BY <1>9
    DEF LandChildWrite, ChildWrite, Landed, Request, Kinds, IInv, TypeOK, FenceExclusion, ReservationCoversWrite, FencesStored, KindOfStep,
        DeleteCovered, RecoverySettled, NoOrphan, Pcs, Gone, Finished, InFlight, WriterKinds, Goto,
        projectVars, recoveryVars
  <2>9. QED
    BY <2>1, <2>2, <2>3, <2>4, <2>5, <2>6, <2>7, <2>8 DEF IInv
<1>10. ASSUME NEW r \in Requests, VerifyProjectChildWriter(r)
      PROVE  IInv'
  <2>1. /\ pc[r] = "landed" /\ req[r].kind \in WriterKinds
        /\ pc' = [pc EXCEPT ![r] = pc'[r]]
        /\ pc'[r] \in {"releasing", "aborting", "undoing", "stuck"}
        /\ UNCHANGED <<projectVars, childOf, req, wrote, counted, recoveryVars>>
    BY <1>10 DEF VerifyProjectChildWriter, Goto, IInv, TypeOK, WriterKinds
  <2>2. TypeOK'
    BY <2>1 DEF IInv, TypeOK, Pcs, projectVars, recoveryVars
  <2>3. FenceExclusion' /\ FencesStored' /\ NoOrphan'
    BY <2>1 DEF IInv, FenceExclusion, FencesStored, NoOrphan, projectVars
  <2>4. ReservationCoversWrite' /\ DeleteCovered'
    BY <2>1 DEF IInv, TypeOK, ReservationCoversWrite, DeleteCovered, InFlight, WriterKinds,
                projectVars
  <2>5. KindOfStep'
    BY <2>1 DEF IInv, TypeOK, KindOfStep
  <2>6. RecoverySettled'
    BY <2>1 DEF IInv, TypeOK, RecoverySettled, Gone, recoveryVars
  <2> QED
    BY <2>2, <2>3, <2>4, <2>5, <2>6 DEF IInv
<1>11. ASSUME NEW r \in Requests, RemoveCreatedChild(r)
      PROVE  IInv'
  <2>1. TypeOK'
    <3>1. req[r].target \in Projects
      BY <1>11, RequestTyped DEF IInv, RemoveCreatedChild
    <3>2. QED
      BY <1>11, <3>1 DEF RemoveCreatedChild, IInv, TypeOK, Pcs, Gone, InFlight, Goto, projectVars, recoveryVars
  <2>2. FenceExclusion'
    BY <1>11
    DEF RemoveCreatedChild, Request, IInv, TypeOK, FenceExclusion, ReservationCoversWrite, FencesStored, KindOfStep,
        DeleteCovered, RecoverySettled, NoOrphan, Pcs, Gone, Finished, InFlight, WriterKinds, Goto,
        projectVars, recoveryVars
  <2>3. ReservationCoversWrite'
    BY <1>11
    DEF RemoveCreatedChild, Request, IInv, TypeOK, FenceExclusion, ReservationCoversWrite, FencesStored, KindOfStep,
        DeleteCovered, RecoverySettled, NoOrphan, Pcs, Gone, Finished, InFlight, WriterKinds, Goto,
        projectVars, recoveryVars
  <2>4. FencesStored'
    BY <1>11
    DEF RemoveCreatedChild, Request, IInv, TypeOK, FenceExclusion, ReservationCoversWrite, FencesStored, KindOfStep,
        DeleteCovered, RecoverySettled, NoOrphan, Pcs, Gone, Finished, InFlight, WriterKinds, Goto,
        projectVars, recoveryVars
  <2>5. KindOfStep'
    BY <1>11
    DEF RemoveCreatedChild, Request, IInv, TypeOK, FenceExclusion, ReservationCoversWrite, FencesStored, KindOfStep,
        DeleteCovered, RecoverySettled, NoOrphan, Pcs, Gone, Finished, InFlight, WriterKinds, Goto,
        projectVars, recoveryVars
  <2>6. DeleteCovered'
    BY <1>11
    DEF RemoveCreatedChild, Request, IInv, TypeOK, FenceExclusion, ReservationCoversWrite, FencesStored, KindOfStep,
        DeleteCovered, RecoverySettled, NoOrphan, Pcs, Gone, Finished, InFlight, WriterKinds, Goto,
        projectVars, recoveryVars
  <2>7. RecoverySettled'
    BY <1>11
    DEF RemoveCreatedChild, Request, IInv, TypeOK, FenceExclusion, ReservationCoversWrite, FencesStored, KindOfStep,
        DeleteCovered, RecoverySettled, NoOrphan, Pcs, Gone, Finished, InFlight, WriterKinds, Goto,
        projectVars, recoveryVars
  <2>8. NoOrphan'
    BY <1>11
    DEF RemoveCreatedChild, Request, IInv, TypeOK, FenceExclusion, ReservationCoversWrite, FencesStored, KindOfStep,
        DeleteCovered, RecoverySettled, NoOrphan, Pcs, Gone, Finished, InFlight, WriterKinds, Goto,
        projectVars, recoveryVars
  <2>9. QED
    BY <2>1, <2>2, <2>3, <2>4, <2>5, <2>6, <2>7, <2>8 DEF IInv
<1>12. ASSUME NEW r \in Requests, ReleaseProjectChildWriter(r)
      PROVE  IInv'
  BY <1>12
  DEF ReleaseProjectChildWriter, Unreserve, Request,
      IInv, TypeOK, FenceExclusion, ReservationCoversWrite, FencesStored, KindOfStep, DeleteCovered,
      RecoverySettled, NoOrphan,
      Pcs, Gone, Finished, InFlight, WriterKinds, Goto, projectVars, recoveryVars
<1>13. ASSUME NEW r \in Requests, AcquireLifecycleLock(r)
      PROVE  IInv'
  BY <1>13
  DEF AcquireLifecycleLock, CanLock, Unfenced, Request,
      IInv, TypeOK, FenceExclusion, ReservationCoversWrite, FencesStored, KindOfStep, DeleteCovered,
      RecoverySettled, NoOrphan,
      Pcs, Gone, Finished, InFlight, WriterKinds, Goto, projectVars, recoveryVars
<1>14. ASSUME NEW r \in Requests, NEW name \in Collections, CountChildren(r, name)
      PROVE  IInv'
  BY <1>14
  DEF CountChildren, Collections,
      IInv, TypeOK, FenceExclusion, ReservationCoversWrite, FencesStored, KindOfStep, DeleteCovered,
      RecoverySettled, NoOrphan,
      Pcs, Gone, Finished, InFlight, WriterKinds, Goto, projectVars, recoveryVars
<1>15. ASSUME NEW r \in Requests, DispatchProjectDelete(r)
      PROVE  IInv'
  BY <1>15
  DEF DispatchProjectDelete,
      IInv, TypeOK, FenceExclusion, ReservationCoversWrite, FencesStored, KindOfStep, DeleteCovered,
      RecoverySettled, NoOrphan,
      Pcs, Gone, Finished, InFlight, WriterKinds, Goto, projectVars, recoveryVars
<1>16. ASSUME NEW r \in Requests, LandProjectDelete(r)
      PROVE  IInv'
  <2>1. TypeOK'
    <3>1. req[r].target \in Projects
      BY <1>16, RequestTyped DEF IInv, LandProjectDelete, InFlight
    <3>2. QED
      BY ZenonT(60), <1>16, <3>1 DEF LandProjectDelete, Landed, IInv, TypeOK, Pcs, Gone, InFlight, Goto, projectVars, recoveryVars
  <2>2. FenceExclusion'
    BY <1>16
    DEF LandProjectDelete, Landed, Request, Collections, Collection, Children, IInv, TypeOK, FenceExclusion, ReservationCoversWrite, FencesStored, KindOfStep,
        DeleteCovered, RecoverySettled, NoOrphan, Pcs, Gone, Finished, InFlight, WriterKinds, Goto,
        projectVars, recoveryVars
  <2>3. ReservationCoversWrite'
    BY <1>16
    DEF LandProjectDelete, Landed, Request, Collections, Collection, Children, IInv, TypeOK, FenceExclusion, ReservationCoversWrite, FencesStored, KindOfStep,
        DeleteCovered, RecoverySettled, NoOrphan, Pcs, Gone, Finished, InFlight, WriterKinds, Goto,
        projectVars, recoveryVars
  <2>4. FencesStored'
    BY <1>16
    DEF LandProjectDelete, Landed, Request, Collections, Collection, Children, IInv, TypeOK, FenceExclusion, ReservationCoversWrite, FencesStored, KindOfStep,
        DeleteCovered, RecoverySettled, NoOrphan, Pcs, Gone, Finished, InFlight, WriterKinds, Goto,
        projectVars, recoveryVars
  <2>5. KindOfStep'
    BY <1>16
    DEF LandProjectDelete, Landed, Request, Collections, Collection, Children, IInv, TypeOK, FenceExclusion, ReservationCoversWrite, FencesStored, KindOfStep,
        DeleteCovered, RecoverySettled, NoOrphan, Pcs, Gone, Finished, InFlight, WriterKinds, Goto,
        projectVars, recoveryVars
  <2>6. DeleteCovered'
    BY <1>16
    DEF LandProjectDelete, Landed, Request, Collections, Collection, Children, IInv, TypeOK, FenceExclusion, ReservationCoversWrite, FencesStored, KindOfStep,
        DeleteCovered, RecoverySettled, NoOrphan, Pcs, Gone, Finished, InFlight, WriterKinds, Goto,
        projectVars, recoveryVars
  <2>7. RecoverySettled'
    BY <1>16
    DEF LandProjectDelete, Landed, Request, Collections, Collection, Children, IInv, TypeOK, FenceExclusion, ReservationCoversWrite, FencesStored, KindOfStep,
        DeleteCovered, RecoverySettled, NoOrphan, Pcs, Gone, Finished, InFlight, WriterKinds, Goto,
        projectVars, recoveryVars
  <2>8. NoOrphan'
    <3>1. ASSUME lifecycleLock[req[r].target] = r
          PROVE  \A x \in Children : childOf[x] # req[r].target
      <4>1. counted[r] = Collections
        BY <1>16 DEF LandProjectDelete, IInv, DeleteCovered, InFlight
      <4>2. \A name \in Collections : \A x \in Collection(name) : childOf[x] # req[r].target
        BY <1>16, <4>1 DEF LandProjectDelete, IInv, DeleteCovered, InFlight
      <4>3. QED
        BY <4>2, CollectionsCover
    <3>2. QED
      BY <1>16, <3>1 DEF LandProjectDelete, IInv, NoOrphan, projectVars
  <2>9. QED
    BY <2>1, <2>2, <2>3, <2>4, <2>5, <2>6, <2>7, <2>8 DEF IInv
<1>17. ASSUME NEW r \in Requests, FinishProjectDelete(r)
      PROVE  IInv'
  BY <1>17
  DEF FinishProjectDelete,
      IInv, TypeOK, FenceExclusion, ReservationCoversWrite, FencesStored, KindOfStep, DeleteCovered,
      RecoverySettled, NoOrphan,
      Pcs, Gone, Finished, InFlight, WriterKinds, Goto, projectVars, recoveryVars
<1>18. ASSUME NEW r \in Requests, AcquireTaskGraphLock(r)
      PROVE  IInv'
  BY <1>18
  DEF AcquireTaskGraphLock, CanLock, Unfenced, Request,
      IInv, TypeOK, FenceExclusion, ReservationCoversWrite, FencesStored, KindOfStep, DeleteCovered,
      RecoverySettled, NoOrphan,
      Pcs, Gone, Finished, InFlight, WriterKinds, Goto, projectVars, recoveryVars
<1>19. ASSUME NEW r \in Requests, InspectLockedState(r)
      PROVE  IInv'
  BY <1>19
  DEF InspectLockedState,
      IInv, TypeOK, FenceExclusion, ReservationCoversWrite, FencesStored, KindOfStep, DeleteCovered,
      RecoverySettled, NoOrphan,
      Pcs, Gone, Finished, InFlight, WriterKinds, Goto, projectVars, recoveryVars
<1>20. ASSUME NEW r \in Requests, LandTaskDelete(r)
      PROVE  IInv'
  <2>1. TypeOK'
    <3>1. req[r].target \in Projects
      BY <1>20, RequestTyped DEF IInv, LandTaskDelete, InFlight
    <3>2. QED
      BY <1>20, <3>1 DEF LandTaskDelete, Landed, IInv, TypeOK, Pcs, Gone, InFlight, Goto, projectVars, recoveryVars
  <2>2. FenceExclusion'
    BY <1>20
    DEF LandTaskDelete, Landed, Request, Collections, Collection, IInv, TypeOK, FenceExclusion, ReservationCoversWrite, FencesStored, KindOfStep,
        DeleteCovered, RecoverySettled, NoOrphan, Pcs, Gone, Finished, InFlight, WriterKinds, Goto,
        projectVars, recoveryVars
  <2>3. ReservationCoversWrite'
    BY <1>20
    DEF LandTaskDelete, Landed, Request, Collections, Collection, IInv, TypeOK, FenceExclusion, ReservationCoversWrite, FencesStored, KindOfStep,
        DeleteCovered, RecoverySettled, NoOrphan, Pcs, Gone, Finished, InFlight, WriterKinds, Goto,
        projectVars, recoveryVars
  <2>4. FencesStored'
    BY <1>20
    DEF LandTaskDelete, Landed, Request, Collections, Collection, IInv, TypeOK, FenceExclusion, ReservationCoversWrite, FencesStored, KindOfStep,
        DeleteCovered, RecoverySettled, NoOrphan, Pcs, Gone, Finished, InFlight, WriterKinds, Goto,
        projectVars, recoveryVars
  <2>5. KindOfStep'
    BY <1>20
    DEF LandTaskDelete, Landed, Request, Collections, Collection, IInv, TypeOK, FenceExclusion, ReservationCoversWrite, FencesStored, KindOfStep,
        DeleteCovered, RecoverySettled, NoOrphan, Pcs, Gone, Finished, InFlight, WriterKinds, Goto,
        projectVars, recoveryVars
  <2>6. DeleteCovered'
    <3> SUFFICES ASSUME NEW q \in Requests,
                        pc'[q] \in {"counting"} \union InFlight, req'[q].kind = "deleteProject"
                 PROVE  /\ lifecycleLock'[req'[q].target] = q
                        /\ \A name \in counted'[q] : \A c \in Collection(name) :
                               childOf'[c] # req'[q].target
                        /\ pc'[q] \in InFlight => counted'[q] = Collections
      BY DEF DeleteCovered, InFlight
    <3>1. /\ UNCHANGED <<lifecycleLock, req, counted>>
          /\ pc[q] = pc'[q]
      BY <1>20 DEF LandTaskDelete, Landed, IInv, TypeOK, InFlight, Goto, projectVars, recoveryVars, WriterKinds
    <3>2. /\ lifecycleLock[req[q].target] = q
          /\ \A name \in counted[q] : \A c \in Collection(name) : childOf[c] # req[q].target
          /\ pc[q] \in InFlight => counted[q] = Collections
      BY <3>1 DEF IInv, DeleteCovered
    <3>3. req[q].target \in Projects /\ req[q].target # None
      BY <3>1, RequestTyped DEF IInv, InFlight
    <3>4. ASSUME NEW name \in counted[q], NEW c1 \in Collection(name)
          PROVE  childOf'[c1] # req[q].target
      BY <1>20, <3>2, <3>3, CollectionTyped DEF LandTaskDelete, IInv, TypeOK
    <3>5. QED
      BY <3>1, <3>2, <3>4
  <2>7. RecoverySettled'
    BY <1>20
    DEF LandTaskDelete, Landed, Request, Collections, Collection, IInv, TypeOK, FenceExclusion, ReservationCoversWrite, FencesStored, KindOfStep,
        DeleteCovered, RecoverySettled, NoOrphan, Pcs, Gone, Finished, InFlight, WriterKinds, Goto,
        projectVars, recoveryVars
  <2>8. NoOrphan'
    BY <1>20
    DEF LandTaskDelete, Landed, Request, Collections, Collection, IInv, TypeOK, FenceExclusion, ReservationCoversWrite, FencesStored, KindOfStep,
        DeleteCovered, RecoverySettled, NoOrphan, Pcs, Gone, Finished, InFlight, WriterKinds, Goto,
        projectVars, recoveryVars
  <2>9. QED
    BY <2>1, <2>2, <2>3, <2>4, <2>5, <2>6, <2>7, <2>8 DEF IInv
<1>21. ASSUME NEW r \in Requests, FinishTaskDelete(r)
      PROVE  IInv'
  BY <1>21
  DEF FinishTaskDelete,
      IInv, TypeOK, FenceExclusion, ReservationCoversWrite, FencesStored, KindOfStep, DeleteCovered,
      RecoverySettled, NoOrphan,
      Pcs, Gone, Finished, InFlight, WriterKinds, Goto, projectVars, recoveryVars
<1>22. ASSUME NEW r \in Requests, ReleaseLock(r)
      PROVE  IInv'
  BY <1>22
  DEF ReleaseLock, Unlock, Request,
      IInv, TypeOK, FenceExclusion, ReservationCoversWrite, FencesStored, KindOfStep, DeleteCovered,
      RecoverySettled, NoOrphan,
      Pcs, Gone, Finished, InFlight, WriterKinds, Goto, projectVars, recoveryVars
<1>23. ASSUME NEW c \in Timecards, DeleteTimecard(c)
      PROVE  IInv'
  <2>1. TypeOK'
    BY <1>23
    DEF DeleteTimecard, Children, Collection, IInv, TypeOK, FenceExclusion, ReservationCoversWrite, FencesStored, KindOfStep,
        DeleteCovered, RecoverySettled, NoOrphan, Pcs, Gone, Finished, InFlight, WriterKinds, Goto,
        projectVars, recoveryVars
  <2>2. FenceExclusion'
    BY <1>23
    DEF DeleteTimecard, Children, Collection, IInv, TypeOK, FenceExclusion, ReservationCoversWrite, FencesStored, KindOfStep,
        DeleteCovered, RecoverySettled, NoOrphan, Pcs, Gone, Finished, InFlight, WriterKinds, Goto,
        projectVars, recoveryVars
  <2>3. ReservationCoversWrite'
    BY <1>23
    DEF DeleteTimecard, Children, Collection, IInv, TypeOK, FenceExclusion, ReservationCoversWrite, FencesStored, KindOfStep,
        DeleteCovered, RecoverySettled, NoOrphan, Pcs, Gone, Finished, InFlight, WriterKinds, Goto,
        projectVars, recoveryVars
  <2>4. FencesStored'
    BY <1>23
    DEF DeleteTimecard, Children, Collection, IInv, TypeOK, FenceExclusion, ReservationCoversWrite, FencesStored, KindOfStep,
        DeleteCovered, RecoverySettled, NoOrphan, Pcs, Gone, Finished, InFlight, WriterKinds, Goto,
        projectVars, recoveryVars
  <2>5. KindOfStep'
    BY <1>23
    DEF DeleteTimecard, Children, Collection, IInv, TypeOK, FenceExclusion, ReservationCoversWrite, FencesStored, KindOfStep,
        DeleteCovered, RecoverySettled, NoOrphan, Pcs, Gone, Finished, InFlight, WriterKinds, Goto,
        projectVars, recoveryVars
  <2>6. DeleteCovered'
    <3> SUFFICES ASSUME NEW q \in Requests,
                        pc'[q] \in {"counting"} \union InFlight, req'[q].kind = "deleteProject"
                 PROVE  /\ lifecycleLock'[req'[q].target] = q
                        /\ \A name \in counted'[q] : \A d \in Collection(name) :
                               childOf'[d] # req'[q].target
                        /\ pc'[q] \in InFlight => counted'[q] = Collections
      BY DEF DeleteCovered, InFlight
    <3>1. /\ UNCHANGED <<lifecycleLock, req, counted>>
          /\ pc[q] = pc'[q]
      BY <1>23 DEF DeleteTimecard, IInv, TypeOK, InFlight, Goto, projectVars, recoveryVars, WriterKinds
    <3>2. /\ lifecycleLock[req[q].target] = q
          /\ \A name \in counted[q] : \A d \in Collection(name) : childOf[d] # req[q].target
          /\ pc[q] \in InFlight => counted[q] = Collections
      BY <3>1 DEF IInv, DeleteCovered
    <3>3. req[q].target \in Projects /\ req[q].target # None
      BY <3>1, RequestTyped DEF IInv, InFlight
    <3>4. ASSUME NEW name \in counted[q], NEW c1 \in Collection(name)
          PROVE  childOf'[c1] # req[q].target
      BY <1>23, <3>2, <3>3, CollectionTyped DEF DeleteTimecard, IInv, TypeOK, Children
    <3>5. QED
      BY <3>1, <3>2, <3>4
  <2>7. RecoverySettled'
    BY <1>23
    DEF DeleteTimecard, Children, Collection, IInv, TypeOK, FenceExclusion, ReservationCoversWrite, FencesStored, KindOfStep,
        DeleteCovered, RecoverySettled, NoOrphan, Pcs, Gone, Finished, InFlight, WriterKinds, Goto,
        projectVars, recoveryVars
  <2>8. NoOrphan'
    BY <1>23
    DEF DeleteTimecard, Children, Collection, IInv, TypeOK, FenceExclusion, ReservationCoversWrite, FencesStored, KindOfStep,
        DeleteCovered, RecoverySettled, NoOrphan, Pcs, Gone, Finished, InFlight, WriterKinds, Goto,
        projectVars, recoveryVars
  <2>9. QED
    BY <2>1, <2>2, <2>3, <2>4, <2>5, <2>6, <2>7, <2>8 DEF IInv
<1>24. ASSUME NEW r \in Requests, Throw(r)
      PROVE  IInv'
  BY <1>24
  DEF Throw, GivesUp, Settling,
      IInv, TypeOK, FenceExclusion, ReservationCoversWrite, FencesStored, KindOfStep, DeleteCovered,
      RecoverySettled, NoOrphan,
      Pcs, Gone, Finished, InFlight, WriterKinds, Goto, projectVars, recoveryVars
<1>25. ASSUME NEW r \in Requests, Vanish(r)
      PROVE  IInv'
  BY <1>25
  DEF Vanish,
      IInv, TypeOK, FenceExclusion, ReservationCoversWrite, FencesStored, KindOfStep, DeleteCovered,
      RecoverySettled, NoOrphan,
      Pcs, Gone, Finished, InFlight, WriterKinds, Goto, projectVars, recoveryVars
<1>26. ASSUME NEW i \in Instances, Restart(i)
      PROVE  IInv'
  BY <1>26
  DEF Restart, Running, GivesUp, Settling,
      IInv, TypeOK, FenceExclusion, ReservationCoversWrite, FencesStored, KindOfStep, DeleteCovered,
      RecoverySettled, NoOrphan,
      Pcs, Gone, Finished, InFlight, WriterKinds, Goto, projectVars, recoveryVars
<1>27. ASSUME NEW r \in Requests, Age(r)
      PROVE  IInv'
  BY <1>27
  DEF Age,
      IInv, TypeOK, FenceExclusion, ReservationCoversWrite, FencesStored, KindOfStep, DeleteCovered,
      RecoverySettled, NoOrphan,
      Pcs, Gone, Finished, InFlight, WriterKinds, Goto, projectVars, recoveryVars
<1>28. ASSUME NEW i \in Instances, NEW r \in Requests, AnalyzeRecovery(i, r)
      PROVE  IInv'
  BY <1>28
  DEF AnalyzeRecovery, OtherBoot, SafeDeployment, Request,
      IInv, TypeOK, FenceExclusion, ReservationCoversWrite, FencesStored, KindOfStep, DeleteCovered,
      RecoverySettled, NoOrphan,
      Pcs, Gone, Finished, InFlight, WriterKinds, Goto, projectVars, recoveryVars
<1>29. ASSUME NEW i \in Instances, ClearRecovered(i)
      PROVE  IInv'
  <2>1. TypeOK'
    BY <1>29
    DEF ClearRecovered, WriterClearable, TaskLockClearable, Unreserve, Unlock, Unfenced, Request, IInv, TypeOK, FenceExclusion, ReservationCoversWrite, FencesStored, KindOfStep,
        DeleteCovered, RecoverySettled, NoOrphan, Pcs, Gone, Finished, InFlight, WriterKinds, Goto,
        projectVars, recoveryVars
  <2>2. FenceExclusion'
    BY <1>29
    DEF ClearRecovered, WriterClearable, TaskLockClearable, Unreserve, Unlock, Unfenced, Request, IInv, TypeOK, FenceExclusion, ReservationCoversWrite, FencesStored, KindOfStep,
        DeleteCovered, RecoverySettled, NoOrphan, Pcs, Gone, Finished, InFlight, WriterKinds, Goto,
        projectVars, recoveryVars
  <2>3. ReservationCoversWrite'
    BY <1>29
    DEF ClearRecovered, WriterClearable, TaskLockClearable, Unreserve, Unlock, Unfenced, Request, IInv, TypeOK, FenceExclusion, ReservationCoversWrite, FencesStored, KindOfStep,
        DeleteCovered, RecoverySettled, NoOrphan, Pcs, Gone, Finished, InFlight, WriterKinds, Goto,
        projectVars, recoveryVars
  <2>4. FencesStored'
    BY <1>29
    DEF ClearRecovered, WriterClearable, TaskLockClearable, Unreserve, Unlock, Unfenced, Request, IInv, TypeOK, FenceExclusion, ReservationCoversWrite, FencesStored, KindOfStep,
        DeleteCovered, RecoverySettled, NoOrphan, Pcs, Gone, Finished, InFlight, WriterKinds, Goto,
        projectVars, recoveryVars
  <2>5. KindOfStep'
    BY <1>29
    DEF ClearRecovered, WriterClearable, TaskLockClearable, Unreserve, Unlock, Unfenced, Request, IInv, TypeOK, FenceExclusion, ReservationCoversWrite, FencesStored, KindOfStep,
        DeleteCovered, RecoverySettled, NoOrphan, Pcs, Gone, Finished, InFlight, WriterKinds, Goto,
        projectVars, recoveryVars
  <2>6. DeleteCovered'
    BY <1>29
    DEF ClearRecovered, WriterClearable, TaskLockClearable, Unreserve, Unlock, Unfenced, Request, IInv, TypeOK, FenceExclusion, ReservationCoversWrite, FencesStored, KindOfStep,
        DeleteCovered, RecoverySettled, NoOrphan, Pcs, Gone, Finished, InFlight, WriterKinds, Goto,
        projectVars, recoveryVars
  <2>7. RecoverySettled'
    BY <1>29
    DEF ClearRecovered, WriterClearable, TaskLockClearable, Unreserve, Unlock, Unfenced, Request, IInv, TypeOK, FenceExclusion, ReservationCoversWrite, FencesStored, KindOfStep,
        DeleteCovered, RecoverySettled, NoOrphan, Pcs, Gone, Finished, InFlight, WriterKinds, Goto,
        projectVars, recoveryVars
  <2>8. NoOrphan'
    BY <1>29
    DEF ClearRecovered, WriterClearable, TaskLockClearable, Unreserve, Unlock, Unfenced, Request, IInv, TypeOK, FenceExclusion, ReservationCoversWrite, FencesStored, KindOfStep,
        DeleteCovered, RecoverySettled, NoOrphan, Pcs, Gone, Finished, InFlight, WriterKinds, Goto,
        projectVars, recoveryVars
  <2>9. QED
    BY <2>1, <2>2, <2>3, <2>4, <2>5, <2>6, <2>7, <2>8 DEF IInv
<1>30. CASE UNCHANGED vars
  BY <1>30
  DEF vars, Held, IInv, TypeOK, FenceExclusion, ReservationCoversWrite, FencesStored, KindOfStep, DeleteCovered,
      RecoverySettled, NoOrphan,
      Pcs, Gone, Finished, InFlight, WriterKinds, Goto, projectVars, recoveryVars
<1>31. QED
  BY <1>1, <1>2, <1>3, <1>4, <1>5, <1>6, <1>7, <1>8, <1>9, <1>10, <1>11, <1>12, <1>13, <1>14, <1>15, <1>16, <1>17, <1>18, <1>19, <1>20, <1>21, <1>22, <1>23, <1>24, <1>25, <1>26, <1>27, <1>28, <1>29, <1>30
  DEF Next, Progress
------------------------------------------------------------------------------
\* The inductive invariant holds in every reachable state.
THEOREM Invariance ==
    ASSUME SafeDeployment
    PROVE  Spec => []IInv
<1>1. IInv /\ [Next]_vars => IInv'
  BY StepIInv
<1>2. QED
  BY <1>1, InitIInv, PTL DEF Spec

\* No interleaving of creates, moves, deletions, crashes, late writes and
\* recoveries leaves a timecard or a task without its project.
THEOREM NoOrphans ==
    ASSUME SafeDeployment
    PROVE  Spec => []NoOrphan
<1>1. IInv => NoOrphan
  BY DEF IInv
<1>2. QED
  BY <1>1, Invariance, PTL

\* No reservation disappears while the write it protects may take effect.
THEOREM ReservationsCover ==
    ASSUME SafeDeployment
    PROVE  Spec => []ReservationCoversWrite
<1>1. IInv => ReservationCoversWrite
  BY DEF IInv
<1>2. QED
  BY <1>1, Invariance, PTL

------------------------------------------------------------------------------
\* Only the landing of a writer's own write puts a child into a project.
LEMMA OnlyWritersJoin ==
    ASSUME IInv, [Next]_vars, NEW c \in Children,
           childOf'[c] # childOf[c], childOf'[c] # None
    PROVE  \E r \in Requests : /\ LandChildWrite(r)
                               /\ req[r].child = c
                               /\ childOf' = [childOf EXCEPT ![c] = req[r].target]
<1>1. childOf \in [Children -> Projects \union {None}]
  BY DEF IInv, TypeOK
<1>2. ASSUME NEW r \in Requests, LandChildWrite(r)
      PROVE  req[r].child = c /\ childOf' = [childOf EXCEPT ![c] = req[r].target]
  BY <1>1, <1>2 DEF LandChildWrite, ChildWrite
<1>3. ASSUME NEW r \in Requests, RemoveCreatedChild(r)
      PROVE  FALSE
  BY <1>1, <1>3 DEF RemoveCreatedChild
<1>4. ASSUME NEW r \in Requests, LandTaskDelete(r)
      PROVE  FALSE
  BY <1>1, <1>4 DEF LandTaskDelete
<1>5. ASSUME NEW x \in Timecards, DeleteTimecard(x)
      PROVE  FALSE
  BY <1>1, <1>5 DEF DeleteTimecard
<1>6. ASSUME UNCHANGED childOf
      PROVE  FALSE
  BY <1>6
<1>7. QED
  BY ZenonT(60), <1>2, <1>3, <1>4, <1>5, <1>6
  DEF Next, Progress, vars, projectVars, recoveryVars, StartCreate, StartRun, StartTaskDelete,
      StartProjectDelete, Start, Retire, AcquireProjectChildWriter, NoWrite,
      DispatchChildWrite, VerifyProjectChildWriter, ReleaseProjectChildWriter,
      AcquireLifecycleLock, CountChildren, DispatchProjectDelete, LandProjectDelete,
      FinishProjectDelete, AcquireTaskGraphLock, InspectLockedState, FinishTaskDelete,
      ReleaseLock, Throw, Vanish, Restart, Age, AnalyzeRecovery, ClearRecovered

\* A project that a writer is still writing into is stored and unlocked.
LEMMA JoinedProject ==
    ASSUME IInv, NEW r \in Requests, LandChildWrite(r)
    PROVE  /\ req[r].target \in Projects
           /\ req[r].target \in alive
           /\ Unfenced(req[r].target)
           /\ UNCHANGED projectVars
<1>1. req[r].target \in Projects
  BY RequestTyped DEF IInv, LandChildWrite, InFlight
<1>2. r \in lifecycleWriters[req[r].target]
  BY DEF IInv, ReservationCoversWrite, LandChildWrite, InFlight
<1>3. QED
  BY <1>1, <1>2 DEF IInv, FenceExclusion, FencesStored, Unfenced, LandChildWrite

\* The step form of NoJoinUnderLock.
LEMMA StepNoJoin ==
    ASSUME IInv, [Next]_vars
    PROVE  \A c \in Children :
               childOf'[c] # childOf[c] /\ childOf'[c] # None
                   => childOf'[c] \in alive /\ Unfenced(childOf'[c])
<1> SUFFICES ASSUME NEW c \in Children, childOf'[c] # childOf[c], childOf'[c] # None
             PROVE  childOf'[c] \in alive /\ Unfenced(childOf'[c])
  OBVIOUS
<1>1. PICK r \in Requests : /\ LandChildWrite(r)
                            /\ childOf' = [childOf EXCEPT ![c] = req[r].target]
  BY OnlyWritersJoin
<1>2. childOf'[c] = req[r].target
  BY <1>1 DEF IInv, TypeOK
<1>3. QED
  BY <1>1, <1>2, JoinedProject

\* No child enters a project that is being deleted or whose task is.
THEOREM NoJoins ==
    ASSUME SafeDeployment
    PROVE  Spec => NoJoinUnderLock
<1>1. IInv /\ [Next]_vars =>
          [\A c \in Children :
               childOf'[c] # childOf[c] /\ childOf'[c] # None
                   => childOf'[c] \in alive /\ Unfenced(childOf'[c])]_vars
  BY StepNoJoin
<1>2. QED
  BY <1>1, Invariance, PTL DEF Spec, NoJoinUnderLock

------------------------------------------------------------------------------
(* The fence implements ProjectChildren. *)

\* The delete of a project document happens while the project is stored and empty.
LEMMA DeletedProject ==
    ASSUME IInv, NEW r \in Requests, LandProjectDelete(r), alive' # alive
    PROVE  Promise!DeleteEmpty(req[r].target)
<1>1. req[r].target \in alive /\ alive' = alive \ {req[r].target} /\ UNCHANGED childOf
  BY DEF LandProjectDelete, projectVars
<1>2. counted[r] = Collections
  BY DEF IInv, DeleteCovered, LandProjectDelete
<1>3. ASSUME NEW c \in Children
      PROVE  childOf[c] # req[r].target
  <2>1. PICK name \in Collections : c \in Collection(name)
    BY CollectionsCover
  <2>2. QED
    BY <1>2, <2>1 DEF IInv, DeleteCovered, LandProjectDelete
<1>4. QED
  BY <1>1, <1>3 DEF Promise!DeleteEmpty, Promise!Empty

\* The landing of a writer's write is a join, or it matched nothing.
LEMMA WrittenChild ==
    ASSUME IInv, NEW r \in Requests, LandChildWrite(r)
    PROVE  \/ UNCHANGED <<alive, childOf>>
           \/ \E c \in Children, p \in Projects : Promise!Join(c, p)
<1>1. req[r].target \in Projects /\ req[r].target \in alive /\ UNCHANGED alive
  BY JoinedProject DEF projectVars
<1>2. childOf \in [Children -> Projects \union {None}]
  BY DEF IInv, TypeOK
<1>3. CASE childOf' = childOf
  BY <1>1, <1>3
<1>4. CASE childOf' # childOf
  <2>1. childOf' = [childOf EXCEPT ![req[r].child] = req[r].target]
    BY <1>4 DEF LandChildWrite, ChildWrite
  <2>2. req[r].child \in Children
    BY <1>2, <1>4, <2>1
  <2>3. QED
    BY <1>1, <2>1, <2>2 DEF Promise!Join
<1>5. QED
  BY <1>3, <1>4

\* What takes a child off its project is a leave, or it matched nothing.
LEMMA RemovedChild ==
    ASSUME TypeOK, NEW c, childOf' = [childOf EXCEPT ![c] = None], UNCHANGED alive
    PROVE  \/ UNCHANGED <<alive, childOf>>
           \/ \E x \in Children : Promise!Leave(x)
<1>1. childOf \in [Children -> Projects \union {None}]
  BY DEF TypeOK
<1>2. CASE c \in Children
  BY <1>2 DEF Promise!Leave
<1>3. CASE c \notin Children
  BY <1>1, <1>3
<1>4. QED
  BY <1>2, <1>3

\* Every step of the fence is a step of the promise or leaves its variables alone.
LEMMA StepPromise ==
    ASSUME IInv, [Next]_vars
    PROVE  [Promise!Next]_(Promise!vars)
<1>1. ASSUME NEW r \in Requests, LandChildWrite(r)
      PROVE  [Promise!Next]_(Promise!vars)
  BY <1>1, WrittenChild DEF Promise!Next, Promise!vars
<1>2. ASSUME NEW r \in Requests, LandProjectDelete(r)
      PROVE  [Promise!Next]_(Promise!vars)
  <2>1. CASE alive' = alive
    BY <1>2, <2>1 DEF LandProjectDelete, Promise!vars
  <2>2. CASE alive' # alive
    <3>1. req[r].target \in Projects
      BY <1>2, RequestTyped DEF IInv, LandProjectDelete, InFlight
    <3>2. QED
      BY <1>2, <2>2, <3>1, DeletedProject DEF Promise!Next
  <2>3. QED
    BY <2>1, <2>2
<1>3. ASSUME NEW r \in Requests, RemoveCreatedChild(r)
      PROVE  [Promise!Next]_(Promise!vars)
  <2>1. UNCHANGED alive
    BY <1>3 DEF RemoveCreatedChild, projectVars
  <2>2. CASE childOf[req[r].child] = req[r].target
    <3>1. childOf' = [childOf EXCEPT ![req[r].child] = None]
      BY <1>3, <2>2 DEF RemoveCreatedChild
    <3>2. QED
      BY <2>1, <3>1, RemovedChild DEF IInv, Promise!Next, Promise!vars
  <2>3. CASE childOf[req[r].child] # req[r].target
    <3>1. childOf' = childOf
      BY <1>3, <2>3 DEF RemoveCreatedChild, IInv, TypeOK
    <3>2. QED
      BY <2>1, <3>1 DEF Promise!vars
  <2>4. QED
    BY <2>2, <2>3
<1>4. ASSUME NEW r \in Requests, LandTaskDelete(r)
      PROVE  [Promise!Next]_(Promise!vars)
  <2>1. UNCHANGED alive
    BY <1>4 DEF LandTaskDelete, projectVars
  <2>2. QED
    BY <1>4, <2>1, RemovedChild DEF LandTaskDelete, IInv, Promise!Next, Promise!vars
<1>5. ASSUME NEW c \in Timecards, DeleteTimecard(c)
      PROVE  [Promise!Next]_(Promise!vars)
  <2>1. UNCHANGED alive
    BY <1>5 DEF DeleteTimecard, projectVars
  <2>2. QED
    BY <1>5, <2>1, RemovedChild DEF DeleteTimecard, IInv, Promise!Next, Promise!vars
<1>6. ASSUME UNCHANGED <<alive, childOf>>
      PROVE  [Promise!Next]_(Promise!vars)
  BY <1>6 DEF Promise!vars
<1>7. QED
  BY ZenonT(60), <1>1, <1>2, <1>3, <1>4, <1>5, <1>6
  DEF Next, Progress, vars, projectVars, recoveryVars, StartCreate, StartRun, StartTaskDelete,
      StartProjectDelete, Start, Retire, AcquireProjectChildWriter, NoWrite,
      DispatchChildWrite, VerifyProjectChildWriter, ReleaseProjectChildWriter,
      AcquireLifecycleLock, CountChildren, DispatchProjectDelete,
      FinishProjectDelete, AcquireTaskGraphLock, InspectLockedState, FinishTaskDelete,
      ReleaseLock, Throw, Vanish, Restart, Age, AnalyzeRecovery, ClearRecovered

\* Seen from the timecards, tasks and projects alone, joining a project and deleting
\* an empty one are single steps: the fence implements ProjectChildren.
THEOREM Implements ==
    ASSUME SafeDeployment
    PROVE  Spec => ImplementsPromise
<1>1. Init => Promise!Init
  BY DEF Init, Promise!Init
<1>2. IInv /\ [Next]_vars => [Promise!Next]_(Promise!vars)
  BY StepPromise
<1>3. QED
  BY <1>1, <1>2, Invariance, PTL DEF Spec, ImplementsPromise, Promise!Spec

------------------------------------------------------------------------------
(* What holds in every deployment, also where one process recovers what another still *)
(* uses: the locks, the types and the number of writers do not depend on the recovery. *)

\* A request that unlocks is not a writer.
UnlocksItsLock ==
    \A r \in Requests : pc[r] = "unlocking" => req[r].kind \notin WriterKinds

WritersFinite == \A p \in Projects : IsFiniteSet(lifecycleWriters[p])

StoredInv == /\ TypeOK
             /\ FenceExclusion
             /\ FencesStored
             /\ KindOfStep
             /\ UnlocksItsLock

LEMMA StepStored == StoredInv /\ [Next]_vars => StoredInv'
<1> SUFFICES ASSUME StoredInv, [Next]_vars
             PROVE  StoredInv'
  OBVIOUS
<1> USE FenceAssumption
<1>0. \A r \in Requests : pc[r] # "idle" => req[r].target \in Projects /\ req[r].kind \in Kinds
  BY RequestTyped DEF StoredInv
<1>1. ASSUME NEW r \in Requests, NEW i \in Instances, NEW c \in Children, NEW p \in Projects, StartCreate(r, p, c, i)
      PROVE  StoredInv'
  BY <1>0, <1>1
  DEF StartCreate, Start, Request, Kinds, StoredInv, TypeOK, FenceExclusion, FencesStored, KindOfStep,
      UnlocksItsLock, Pcs, Gone, Finished, InFlight, WriterKinds, Goto, projectVars, recoveryVars
<1>2. ASSUME NEW r \in Requests, NEW i \in Instances, NEW c \in Children, NEW p \in Projects, StartRun(r, p, c, i)
      PROVE  StoredInv'
  BY <1>0, <1>2
  DEF StartRun, Start, Request, Kinds, StoredInv, TypeOK, FenceExclusion, FencesStored, KindOfStep,
      UnlocksItsLock, Pcs, Gone, Finished, InFlight, WriterKinds, Goto, projectVars, recoveryVars
<1>3. ASSUME NEW r \in Requests, NEW i \in Instances, NEW c \in Tasks, StartTaskDelete(r, c, i)
      PROVE  StoredInv'
  BY <1>0, <1>3
  DEF StartTaskDelete, Start, Request, Kinds, Children, StoredInv, TypeOK, FenceExclusion, FencesStored, KindOfStep,
      UnlocksItsLock, Pcs, Gone, Finished, InFlight, WriterKinds, Goto, projectVars, recoveryVars
<1>4. ASSUME NEW r \in Requests, NEW i \in Instances, NEW p \in Projects, StartProjectDelete(r, p, i)
      PROVE  StoredInv'
  BY <1>0, <1>4
  DEF StartProjectDelete, Start, Request, Kinds, StoredInv, TypeOK, FenceExclusion, FencesStored, KindOfStep,
      UnlocksItsLock, Pcs, Gone, Finished, InFlight, WriterKinds, Goto, projectVars, recoveryVars
<1>5. ASSUME NEW r \in Requests, Retire(r)
      PROVE  StoredInv'
  BY <1>0, <1>5
  DEF Retire, StoredInv, TypeOK, FenceExclusion, FencesStored, KindOfStep,
      UnlocksItsLock, Pcs, Gone, Finished, InFlight, WriterKinds, Goto, projectVars, recoveryVars
<1>6. ASSUME NEW r \in Requests, AcquireProjectChildWriter(r)
      PROVE  StoredInv'
  BY <1>0, <1>6
  DEF AcquireProjectChildWriter, CanAcquire, Unfenced, StoredInv, TypeOK, FenceExclusion, FencesStored, KindOfStep,
      UnlocksItsLock, Pcs, Gone, Finished, InFlight, WriterKinds, Goto, projectVars, recoveryVars
<1>7. ASSUME NEW r \in Requests, NoWrite(r)
      PROVE  StoredInv'
  BY <1>0, <1>7
  DEF NoWrite, StoredInv, TypeOK, FenceExclusion, FencesStored, KindOfStep,
      UnlocksItsLock, Pcs, Gone, Finished, InFlight, WriterKinds, Goto, projectVars, recoveryVars
<1>8. ASSUME NEW r \in Requests, DispatchChildWrite(r)
      PROVE  StoredInv'
  BY <1>0, <1>8
  DEF DispatchChildWrite, StoredInv, TypeOK, FenceExclusion, FencesStored, KindOfStep,
      UnlocksItsLock, Pcs, Gone, Finished, InFlight, WriterKinds, Goto, projectVars, recoveryVars
<1>9. ASSUME NEW r \in Requests, LandChildWrite(r)
      PROVE  StoredInv'
  BY <1>0, <1>9
  DEF LandChildWrite, ChildWrite, Landed, StoredInv, TypeOK, FenceExclusion, FencesStored, KindOfStep,
      UnlocksItsLock, Pcs, Gone, Finished, InFlight, WriterKinds, Goto, projectVars, recoveryVars
<1>10. ASSUME NEW r \in Requests, VerifyProjectChildWriter(r)
      PROVE  StoredInv'
  BY <1>0, <1>10
  DEF VerifyProjectChildWriter, WriterVerified, StoredInv, TypeOK, FenceExclusion, FencesStored, KindOfStep,
      UnlocksItsLock, Pcs, Gone, Finished, InFlight, WriterKinds, Goto, projectVars, recoveryVars
<1>11. ASSUME NEW r \in Requests, RemoveCreatedChild(r)
      PROVE  StoredInv'
  BY <1>0, <1>11
  DEF RemoveCreatedChild, StoredInv, TypeOK, FenceExclusion, FencesStored, KindOfStep,
      UnlocksItsLock, Pcs, Gone, Finished, InFlight, WriterKinds, Goto, projectVars, recoveryVars
<1>12. ASSUME NEW r \in Requests, ReleaseProjectChildWriter(r)
      PROVE  StoredInv'
  BY <1>0, <1>12
  DEF ReleaseProjectChildWriter, Unreserve, StoredInv, TypeOK, FenceExclusion, FencesStored, KindOfStep,
      UnlocksItsLock, Pcs, Gone, Finished, InFlight, WriterKinds, Goto, projectVars, recoveryVars
<1>13. ASSUME NEW r \in Requests, AcquireLifecycleLock(r)
      PROVE  StoredInv'
  BY <1>0, <1>13
  DEF AcquireLifecycleLock, CanLock, Unfenced, StoredInv, TypeOK, FenceExclusion, FencesStored, KindOfStep,
      UnlocksItsLock, Pcs, Gone, Finished, InFlight, WriterKinds, Goto, projectVars, recoveryVars
<1>14. ASSUME NEW r \in Requests, NEW name \in Collections, CountChildren(r, name)
      PROVE  StoredInv'
  BY <1>0, <1>14
  DEF CountChildren, Collections, StoredInv, TypeOK, FenceExclusion, FencesStored, KindOfStep,
      UnlocksItsLock, Pcs, Gone, Finished, InFlight, WriterKinds, Goto, projectVars, recoveryVars
<1>15. ASSUME NEW r \in Requests, DispatchProjectDelete(r)
      PROVE  StoredInv'
  BY <1>0, <1>15
  DEF DispatchProjectDelete, StoredInv, TypeOK, FenceExclusion, FencesStored, KindOfStep,
      UnlocksItsLock, Pcs, Gone, Finished, InFlight, WriterKinds, Goto, projectVars, recoveryVars
<1>16. ASSUME NEW r \in Requests, LandProjectDelete(r)
      PROVE  StoredInv'
  <2>1. TypeOK'
    BY ZenonT(60), <1>0, <1>16
    DEF LandProjectDelete, Landed, StoredInv, TypeOK, FenceExclusion, FencesStored, KindOfStep,
        UnlocksItsLock, Pcs, InFlight, WriterKinds, Goto, projectVars, recoveryVars
  <2>2. FenceExclusion'
    BY <1>0, <1>16
    DEF LandProjectDelete, Landed, StoredInv, TypeOK, FenceExclusion, FencesStored, KindOfStep,
        UnlocksItsLock, Pcs, InFlight, WriterKinds, Goto, projectVars, recoveryVars
  <2>3. FencesStored'
    BY <1>0, <1>16
    DEF LandProjectDelete, Landed, StoredInv, TypeOK, FenceExclusion, FencesStored, KindOfStep,
        UnlocksItsLock, Pcs, InFlight, WriterKinds, Goto, projectVars, recoveryVars
  <2>4. KindOfStep'
    BY <1>0, <1>16
    DEF LandProjectDelete, Landed, StoredInv, TypeOK, FenceExclusion, FencesStored, KindOfStep,
        UnlocksItsLock, Pcs, InFlight, WriterKinds, Goto, projectVars, recoveryVars
  <2>5. UnlocksItsLock'
    BY <1>0, <1>16
    DEF LandProjectDelete, Landed, StoredInv, TypeOK, FenceExclusion, FencesStored, KindOfStep,
        UnlocksItsLock, Pcs, InFlight, WriterKinds, Goto, projectVars, recoveryVars
  <2>6. QED
    BY <2>1, <2>2, <2>3, <2>4, <2>5 DEF StoredInv
<1>17. ASSUME NEW r \in Requests, FinishProjectDelete(r)
      PROVE  StoredInv'
  BY <1>0, <1>17
  DEF FinishProjectDelete, StoredInv, TypeOK, FenceExclusion, FencesStored, KindOfStep,
      UnlocksItsLock, Pcs, Gone, Finished, InFlight, WriterKinds, Goto, projectVars, recoveryVars
<1>18. ASSUME NEW r \in Requests, AcquireTaskGraphLock(r)
      PROVE  StoredInv'
  BY <1>0, <1>18
  DEF AcquireTaskGraphLock, CanLock, Unfenced, StoredInv, TypeOK, FenceExclusion, FencesStored, KindOfStep,
      UnlocksItsLock, Pcs, Gone, Finished, InFlight, WriterKinds, Goto, projectVars, recoveryVars
<1>19. ASSUME NEW r \in Requests, InspectLockedState(r)
      PROVE  StoredInv'
  BY <1>0, <1>19
  DEF InspectLockedState, StoredInv, TypeOK, FenceExclusion, FencesStored, KindOfStep,
      UnlocksItsLock, Pcs, Gone, Finished, InFlight, WriterKinds, Goto, projectVars, recoveryVars
<1>20. ASSUME NEW r \in Requests, LandTaskDelete(r)
      PROVE  StoredInv'
  BY <1>0, <1>20
  DEF LandTaskDelete, Landed, StoredInv, TypeOK, FenceExclusion, FencesStored, KindOfStep,
      UnlocksItsLock, Pcs, Gone, Finished, InFlight, WriterKinds, Goto, projectVars, recoveryVars
<1>21. ASSUME NEW r \in Requests, FinishTaskDelete(r)
      PROVE  StoredInv'
  BY <1>0, <1>21
  DEF FinishTaskDelete, StoredInv, TypeOK, FenceExclusion, FencesStored, KindOfStep,
      UnlocksItsLock, Pcs, Gone, Finished, InFlight, WriterKinds, Goto, projectVars, recoveryVars
<1>22. ASSUME NEW r \in Requests, ReleaseLock(r)
      PROVE  StoredInv'
  BY <1>0, <1>22
  DEF ReleaseLock, Unlock, StoredInv, TypeOK, FenceExclusion, FencesStored, KindOfStep,
      UnlocksItsLock, Pcs, Gone, Finished, InFlight, WriterKinds, Goto, projectVars, recoveryVars
<1>23. ASSUME NEW r \in Requests, Throw(r)
      PROVE  StoredInv'
  BY <1>0, <1>23
  DEF Throw, GivesUp, Settling, StoredInv, TypeOK, FenceExclusion, FencesStored, KindOfStep,
      UnlocksItsLock, Pcs, Gone, Finished, InFlight, WriterKinds, Goto, projectVars, recoveryVars
<1>24. ASSUME NEW r \in Requests, Vanish(r)
      PROVE  StoredInv'
  BY <1>0, <1>24
  DEF Vanish, StoredInv, TypeOK, FenceExclusion, FencesStored, KindOfStep,
      UnlocksItsLock, Pcs, Gone, Finished, InFlight, WriterKinds, Goto, projectVars, recoveryVars
<1>25. ASSUME NEW c \in Timecards, DeleteTimecard(c)
      PROVE  StoredInv'
  BY <1>0, <1>25
  DEF DeleteTimecard, StoredInv, TypeOK, FenceExclusion, FencesStored, KindOfStep,
      UnlocksItsLock, Pcs, Gone, Finished, InFlight, WriterKinds, Goto, projectVars, recoveryVars
<1>26. ASSUME NEW i \in Instances, Restart(i)
      PROVE  StoredInv'
  BY <1>0, <1>26
  DEF Restart, Running, GivesUp, Settling, StoredInv, TypeOK, FenceExclusion, FencesStored, KindOfStep,
      UnlocksItsLock, Pcs, Gone, Finished, InFlight, WriterKinds, Goto, projectVars, recoveryVars
<1>27. ASSUME NEW r \in Requests, Age(r)
      PROVE  StoredInv'
  BY <1>0, <1>27
  DEF Age, StoredInv, TypeOK, FenceExclusion, FencesStored, KindOfStep,
      UnlocksItsLock, Pcs, Gone, Finished, InFlight, WriterKinds, Goto, projectVars, recoveryVars
<1>28. ASSUME NEW i \in Instances, NEW r \in Requests, AnalyzeRecovery(i, r)
      PROVE  StoredInv'
  BY <1>0, <1>28
  DEF AnalyzeRecovery, StoredInv, TypeOK, FenceExclusion, FencesStored, KindOfStep,
      UnlocksItsLock, Pcs, Gone, Finished, InFlight, WriterKinds, Goto, projectVars, recoveryVars
<1>29. ASSUME NEW i \in Instances, ClearRecovered(i)
      PROVE  StoredInv'
  BY <1>0, <1>29
  DEF ClearRecovered, Unreserve, Unlock, StoredInv, TypeOK, FenceExclusion, FencesStored, KindOfStep,
      UnlocksItsLock, Pcs, Gone, Finished, InFlight, WriterKinds, Goto, projectVars, recoveryVars
<1>30. CASE UNCHANGED vars
  BY <1>30
  DEF vars, StoredInv, TypeOK, FenceExclusion, FencesStored, KindOfStep, UnlocksItsLock,
      projectVars, recoveryVars
<1>31. QED
  BY <1>1, <1>2, <1>3, <1>4, <1>5, <1>6, <1>7, <1>8, <1>9, <1>10, <1>11, <1>12, <1>13, <1>14, <1>15, <1>16, <1>17, <1>18, <1>19, <1>20, <1>21, <1>22, <1>23, <1>24, <1>25, <1>26, <1>27, <1>28, <1>29, <1>30
  DEF Next, Progress

\* The reservations of a project stay few enough for MAX_PROJECT_CHILD_WRITERS.
LEMMA StepBounded ==
    ASSUME TypeOK, WritersFinite, BoundedWriters, [Next]_vars
    PROVE  WritersFinite' /\ BoundedWriters'
<1> USE FenceAssumption
<1> DEFINE Kept(W) == IsFiniteSet(W) /\ Cardinality(W) <= MaxWriters
<1>0. \A p \in Projects : Kept(lifecycleWriters[p])
  BY DEF WritersFinite, BoundedWriters
<1> SUFFICES \A p \in Projects : Kept(lifecycleWriters'[p])
  BY DEF WritersFinite, BoundedWriters
<1>1. \A W, r : Kept(W) => Kept(W \ {r})
  <2> SUFFICES ASSUME NEW W, NEW r, Kept(W)
               PROVE  Kept(W \ {r})
    OBVIOUS
  <2>1. IsFiniteSet(W \ {r}) /\ Cardinality(W \ {r}) <= Cardinality(W)
    BY FS_Subset
  <2>2. Cardinality(W) \in Nat /\ Cardinality(W \ {r}) \in Nat
    BY <2>1, FS_CardinalityType
  <2>3. QED
    BY <2>1, <2>2
<1>2. \A W, r : IsFiniteSet(W) /\ Cardinality(W) < MaxWriters => Kept(W \union {r})
  <2> SUFFICES ASSUME NEW W, NEW r, IsFiniteSet(W), Cardinality(W) < MaxWriters
               PROVE  Kept(W \union {r})
    OBVIOUS
  <2>1. IsFiniteSet(W \union {r})
    BY FS_AddElement
  <2>2. Cardinality(W \union {r}) \in {Cardinality(W), Cardinality(W) + 1}
    BY FS_AddElement
  <2>3. Cardinality(W) \in Nat
    BY FS_CardinalityType
  <2>4. QED
    BY <2>1, <2>2, <2>3
<1>3. Kept({})
  BY FS_EmptySet
<1> HIDE DEF Kept
<1>4. ASSUME NEW p \in Projects, NEW q, NEW W, Kept(W),
             lifecycleWriters' = [lifecycleWriters EXCEPT ![q] = W]
      PROVE  Kept(lifecycleWriters'[p])
  BY <1>0, <1>4 DEF TypeOK
<1>5. ASSUME NEW p \in Projects, NEW r \in Requests, Unreserve(r), req[r].target \in Projects
      PROVE  Kept(lifecycleWriters'[p])
  BY <1>0, <1>1, <1>5 DEF Unreserve, TypeOK
<1>6. ASSUME NEW p \in Projects, NEW r \in Requests, AcquireProjectChildWriter(r)
      PROVE  Kept(lifecycleWriters'[p])
  <2>1. req[r].target \in Projects
    BY <1>6, RequestTyped DEF AcquireProjectChildWriter
  <2>2. CASE CanAcquire(req[r].target)
    <3>1. Kept(lifecycleWriters[req[r].target] \union {r})
      BY <1>2, <2>1, <2>2 DEF CanAcquire, WritersFinite
    <3>2. QED
      BY <1>4, <1>6, <2>2, <3>1 DEF AcquireProjectChildWriter
  <2>3. CASE ~CanAcquire(req[r].target)
    BY <1>0, <1>6, <2>3 DEF AcquireProjectChildWriter
  <2>4. QED
    BY <2>2, <2>3
<1>7. ASSUME NEW p \in Projects, NEW r \in Requests, ReleaseProjectChildWriter(r)
      PROVE  Kept(lifecycleWriters'[p])
  BY <1>5, <1>7, RequestTyped DEF ReleaseProjectChildWriter
<1>8. ASSUME NEW p \in Projects, NEW r \in Requests, LandProjectDelete(r)
      PROVE  Kept(lifecycleWriters'[p])
  BY <1>0, <1>3, <1>4, <1>8 DEF LandProjectDelete, projectVars
<1>9. ASSUME NEW p \in Projects, NEW i \in Instances, ClearRecovered(i)
      PROVE  Kept(lifecycleWriters'[p])
  <2>1. candidate[i] \in Requests
    BY <1>9 DEF ClearRecovered, TypeOK
  <2>2. CASE WriterClearable(candidate[i])
    <3>1. Unreserve(candidate[i]) /\ req[candidate[i]].target \in Projects
      BY <1>9, <2>2 DEF ClearRecovered, WriterClearable, TypeOK
    <3>2. QED
      BY <1>5, <2>1, <3>1
  <2>3. CASE ~WriterClearable(candidate[i])
    BY <1>0, <1>9, <2>3 DEF ClearRecovered
  <2>4. QED
    BY <2>2, <2>3
<1>10. ASSUME NEW p \in Projects, UNCHANGED lifecycleWriters
       PROVE  Kept(lifecycleWriters'[p])
  BY <1>0, <1>10
<1>11. QED
  BY ZenonT(60), <1>6, <1>7, <1>8, <1>9, <1>10
  DEF Next, Progress, vars, projectVars, recoveryVars, StartCreate, StartRun, StartTaskDelete,
      StartProjectDelete, Start, Retire, NoWrite, DispatchChildWrite, LandChildWrite,
      VerifyProjectChildWriter, RemoveCreatedChild, AcquireLifecycleLock, CountChildren,
      DispatchProjectDelete, FinishProjectDelete, AcquireTaskGraphLock, InspectLockedState,
      LandTaskDelete, FinishTaskDelete, ReleaseLock, Throw, Vanish, DeleteTimecard, Restart,
      Age, AnalyzeRecovery

\* The invariant of every deployment holds in every reachable state.
THEOREM StoredInvariance == Spec => [](StoredInv /\ WritersFinite /\ BoundedWriters)
<1>1. Init => StoredInv
  BY InitIInv DEF Init, IInv, StoredInv, UnlocksItsLock
<1>2. Init => WritersFinite /\ BoundedWriters
  BY FS_EmptySet, FenceAssumption DEF Init, WritersFinite, BoundedWriters
<1>3. StoredInv /\ WritersFinite /\ BoundedWriters /\ [Next]_vars
          => (StoredInv /\ WritersFinite /\ BoundedWriters)'
  BY StepStored, StepBounded DEF StoredInv
<1>4. QED
  BY <1>1, <1>2, <1>3, PTL DEF Spec

\* Every field keeps the shape the code gives it.
THEOREM TypeCorrect == Spec => []TypeOK
<1>1. StoredInv => TypeOK
  BY DEF StoredInv
<1>2. QED
  BY <1>1, StoredInvariance, PTL

\* Never more than MAX_PROJECT_CHILD_WRITERS reservations on a project.
THEOREM WritersBounded == Spec => []BoundedWriters
  BY StoredInvariance, PTL

\* Writers, project deletes and task deletes exclude one another in every deployment:
\* a recovery that comes too early breaks other promises, but not this one.
THEOREM FencesExclude == Spec => []FenceExclusion
<1>1. StoredInv => FenceExclusion
  BY DEF StoredInv
<1>2. QED
  BY <1>1, StoredInvariance, PTL

\* The only step with which a writer succeeds is the release of its reservation.
LEMMA OnlyReleaseSucceeds ==
    ASSUME StoredInv, [Next]_vars, NEW r \in Requests,
           pc[r] \notin Finished, pc'[r] = "returned", req[r].kind \in WriterKinds
    PROVE  ReleaseProjectChildWriter(r) /\ r \in lifecycleWriters[req[r].target]
<1>1. pc \in [Requests -> Pcs]
  BY DEF StoredInv, TypeOK
<1>2. ASSUME UNCHANGED pc
      PROVE  FALSE
  BY <1>2 DEF Finished
<1>3. ASSUME NEW q \in Requests, ReleaseProjectChildWriter(q)
      PROVE  ReleaseProjectChildWriter(r) /\ r \in lifecycleWriters[req[r].target]
  BY <1>1, <1>3 DEF ReleaseProjectChildWriter, Goto, Finished
<1>4. ASSUME NEW q \in Requests, \/ FinishProjectDelete(q)
                                 \/ ReleaseLock(q)
      PROVE  FALSE
  BY <1>1, <1>4
  DEF FinishProjectDelete, ReleaseLock, Goto, Finished, StoredInv, UnlocksItsLock, WriterKinds
<1>5. ASSUME NEW i \in Instances, Restart(i)
      PROVE  FALSE
  BY <1>1, <1>5 DEF Restart, Running, GivesUp, Finished
<1>6. ASSUME NEW q \in Requests, \/ AcquireProjectChildWriter(q)
                                 \/ VerifyProjectChildWriter(q)
                                 \/ \E name \in Collections : CountChildren(q, name)
                                 \/ LandChildWrite(q) \/ LandProjectDelete(q)
                                 \/ LandTaskDelete(q)
                                 \/ AcquireLifecycleLock(q) \/ AcquireTaskGraphLock(q)
                                 \/ Throw(q)
      PROVE  FALSE
  BY <1>1, <1>6
  DEF AcquireProjectChildWriter, VerifyProjectChildWriter, CountChildren, LandChildWrite,
      LandProjectDelete, LandTaskDelete, Landed, AcquireLifecycleLock, AcquireTaskGraphLock,
      Throw, GivesUp, Goto, Finished, WriterKinds
<1>7. ASSUME NEW q \in Requests, \/ NoWrite(q) \/ DispatchChildWrite(q)
                                 \/ RemoveCreatedChild(q) \/ DispatchProjectDelete(q)
                                 \/ InspectLockedState(q) \/ FinishTaskDelete(q)
                                 \/ Retire(q) \/ Vanish(q)
                                 \/ \E arguments : Start(q, arguments)
      PROVE  FALSE
  BY <1>1, <1>7
  DEF NoWrite, DispatchChildWrite, RemoveCreatedChild, DispatchProjectDelete,
      InspectLockedState, FinishTaskDelete, Retire, Vanish, Start, Goto, Finished
<1>8. QED
  BY ZenonT(60), <1>2, <1>3, <1>4, <1>5, <1>6, <1>7
  DEF Next, Progress, vars, StartCreate, StartRun, StartTaskDelete, StartProjectDelete,
      DeleteTimecard, Age, AnalyzeRecovery, ClearRecovered

\* A create or move reports success only for a project that is stored and unlocked, in
\* every deployment: what the recovery took away is found missing at the release.
THEOREM SuccessesAreStored == Spec => SuccessIsNotOrphan
<1>1. ASSUME StoredInv, [Next]_vars
      PROVE  \A r \in Requests :
                 /\ pc[r] \notin Finished /\ pc'[r] = "returned"
                 /\ req[r].kind \in WriterKinds
                 => req[r].target \in alive /\ Unfenced(req[r].target)
  <2> SUFFICES ASSUME NEW r \in Requests,
                      pc[r] \notin Finished, pc'[r] = "returned", req[r].kind \in WriterKinds
               PROVE  req[r].target \in alive /\ Unfenced(req[r].target)
    OBVIOUS
  <2>1. ReleaseProjectChildWriter(r) /\ r \in lifecycleWriters[req[r].target]
    BY <1>1, OnlyReleaseSucceeds
  <2>2. req[r].target \in Projects
    BY <1>1, <2>1, RequestTyped DEF StoredInv, ReleaseProjectChildWriter
  <2>3. QED
    BY <1>1, <2>1, <2>2 DEF StoredInv, FencesStored, FenceExclusion, Unfenced
<1>2. StoredInv /\ [Next]_vars =>
          [\A r \in Requests :
               /\ pc[r] \notin Finished /\ pc'[r] = "returned"
               /\ req[r].kind \in WriterKinds
               => req[r].target \in alive /\ Unfenced(req[r].target)]_vars
  BY <1>1
<1>3. QED
  BY <1>2, StoredInvariance, PTL DEF Spec, SuccessIsNotOrphan
==============================================================================
