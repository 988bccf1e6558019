------------------------- MODULE DateMigrationTypes --------------------------
(***************************************************************************)
(* Proofs about DateMigration, first part: the types of its state, its     *)
(* two kinds of lease, the fences that tell its calls apart, the ways in   *)
(* which runs and calls change, and that a run freezes once.               *)
(* DateMigrationProofs builds on them.                                     *)
(***************************************************************************)
EXTENDS DateMigration, FiniteSetTheorems, TLAPS

-----------------------------------------------------------------------------
(* Types.                                                                  *)

BatchPcs == {"acquire", "stamp", "renew", "enter", "next", "claim", "read", "write", "reread",
             "recheck", "journal", "finish", "complete", "stall", "park", "parked",
             "claimPause", "stampPause", "finalizePause", "abort", "release"}

PcsOf ==
    [none |-> {"idle"},
     freeze |-> {"acquire", "stamp", "renew", "snapshot", "preview", "abort", "release"},
     resume |-> {"acquire", "stamp", "reopen", "renew", "reopened", "release"},
     cancel |-> {"acquire", "stamp", "weigh", "renew", "cancelled", "release"},
     verify |-> {"acquire", "stamp", "compare", "renew", "verified", "release"},
     pause |-> {"claimPause", "stampPause", "finalizePause", "release"},
     recover |-> {"claimPause", "stampPause", "finalizePause", "release", "clear", "sweep"},
     apply |-> BatchPcs,
     restore |-> BatchPcs]

RenewsFor ==
    [none |-> {}, pause |-> {}, recover |-> {},
     freeze |-> {"snapshot", "preview"}, resume |-> {"reopened"}, cancel |-> {"cancelled"},
     verify |-> {"verified"}, apply |-> {"enter", "claim", "write", "complete", "stall"},
     restore |-> {"enter", "claim", "write", "complete", "stall"}]

AboutTo(j, pc) == j.pc = pc \/ (j.pc = "renew" /\ j.then = pc)
Handling(j) == j.pc \in {"read", "reread", "recheck", "journal"} \/ AboutTo(j, "write")

JobFits(j) ==
    /\ j.pc \in PcsOf[j.kind]
    /\ j.pc = "idle" => j = NoJob
    /\ j.pc = "renew" => j.then \in RenewsFor[j.kind]
    /\ j.pc \notin {"idle", "clear", "sweep"} => j.run \in Runs
    /\ j.kind \in Batches => j.phase = j.kind
    /\ j.kind = "pause" => j.phase \in Batches
    /\ j.kind = "recover" =>
          /\ j.pc \in {"claimPause", "stampPause", "finalizePause"} =>
                 j.phase \in Batches /\ j.then = "clear"
          /\ j.pc = "release" => j.then \in {"clear", "sweep"}
    /\ j.kind \in Batches /\ j.pc # "release" => j.seen \in Admitted[j.kind]
    /\ AboutTo(j, "reopened") => j.seen \in Batches
    /\ AboutTo(j, "cancelled") => j.seen \in Admitted["cancel"]
    /\ AboutTo(j, "verified") => j.seen \in Admitted["verify"] /\ j.outcome \in Admitted["verify"]
    /\ AboutTo(j, "complete") =>
          j.outcome \in {Phase[j.phase].complete, Phase[j.phase].incomplete}
    /\ j.pc = "journal" =>
          /\ j.outcome \in {Phase[j.phase].done, Phase[j.phase].conflict, Phase[j.phase].failed}
          /\ ~j.recovering
    /\ Handling(j) => j.card \in Timecards

JobsFit == \A w \in Workers : JobFits(job[w])

Frozen(r) == {t \in Timecards : backup[r][t].status # "none"}

BackupsFit ==
    \A r \in Runs, t \in Timecards :
       IF t \in Frozen(r) THEN backup[r][t].revision \in Nat
       ELSE backup[r][t] = [status |-> "none", revision |-> None, fence |-> 0]

CardsFit(j) == /\ j.kind \in Batches => j.todo \subseteq Frozen(j.run)
               /\ Handling(j) => j.card \in Frozen(j.run)

CardsFrozen == /\ \A w \in Workers : CardsFit(job[w])
               /\ \A l \in late : l.card \in Frozen(l.run)

TypeInv == TypeOK /\ JobsFit /\ BackupsFit /\ CardsFrozen


\* A call moves on: its new record fits, and nobody else's changes.
Moves(w) == \E j \in Job : JobFits(j) /\ CardsFit(j) /\ job' = [job EXCEPT ![w] = j]

Recording == {"enter", "next", "claim", "read", "write", "reread", "recheck", "journal",
              "finish", "complete", "stall", "park", "parked"}

\* Who may be at which step.
LEMMA KindsKnown == ASSUME NEW j \in Job, JobFits(j)
  PROVE /\ j.pc = "stamp" => j.kind \in Calls \union {"freeze"}
        /\ j.pc = "abort" => j.kind \in Batches \union {"freeze"}
        /\ j.pc \in Recording => j.kind \in Batches
        /\ Handling(j) => j.kind \in Batches
        /\ j.kind \in Batches => j.phase \in Batches
        /\ j.pc \in {"claimPause", "stampPause", "finalizePause"} =>
               j.kind \in Batches \union {"pause", "recover"} /\ j.phase \in Batches
        /\ j.pc \in {"snapshot", "preview"} => j.kind = "freeze"
        /\ j.pc \in {"reopen", "reopened"} => j.kind = "resume"
        /\ j.pc \in {"weigh", "cancelled"} => j.kind = "cancel"
        /\ j.pc \in {"compare", "verified"} => j.kind = "verify"
        /\ j.pc \in {"clear", "sweep"} => j.kind = "recover"
        /\ j.pc = "acquire" => j.kind \in Calls \union {"freeze"}
        /\ j.pc = "renew" => j.kind \in Calls \union {"freeze"}
  BY DEF JobFits, PcsOf, RenewsFor, Job, Batches, Phase, Calls, Admitted, BatchPcs, Recording,
         Handling, AboutTo

\* The facts about the moving call that every step starts from.
LEMMA OwnJob == ASSUME TypeInv, NEW w \in Workers
  PROVE /\ job \in [Workers -> Job] /\ job[w] \in Job /\ JobFits(job[w]) /\ CardsFit(job[w])
  BY DEF TypeInv, TypeOK, JobsFit, CardsFrozen

\* A record of a call whose fields are replaced by others of their types.
LEMMA JobPart ==
    ASSUME NEW j \in Job, NEW pc \in Pcs, NEW r \in Runs \union {None},
           NEW kind \in Calls \union {"none", "freeze", "pause", "recover"}
    PROVE  [j EXCEPT !.pc = pc, !.kind = kind, !.run = r] \in Job
  BY DEF Job

LEMMA JobRest ==
    ASSUME NEW j \in Job, NEW fence \in Nat, NEW phase \in Batches \union {"none"},
           NEW seen \in RunStatuses \union Batches, NEW then \in Pcs
    PROVE  [j EXCEPT !.fence = fence, !.phase = phase, !.seen = seen, !.then = then] \in Job
  BY DEF Job

LEMMA NoJobFits == NoJob \in Job /\ JobFits(NoJob) /\ CardsFit(NoJob)
<1>1. NoJob \in Job
  BY DEF NoJob, Job, Pcs, RunStatuses, BackupStatuses
<1>2. JobFits(NoJob) /\ CardsFit(NoJob)
  BY DEF NoJob, JobFits, CardsFit, PcsOf, Batches, Phase, AboutTo, Handling
<1> QED
  BY <1>1, <1>2

LEMMA ReturnMoves == ASSUME NEW w \in Workers, Return(w) PROVE Moves(w)
  BY NoJobFits DEF Moves, Return

LEMMA LeaveMoves ==
    ASSUME TypeInv, NEW w \in Workers, NEW pc \in {"release", "abort"}, Leave(w, pc),
           pc \in PcsOf[job[w].kind], job[w].pc \notin {"idle", "clear", "sweep"},
           job[w].kind = "recover" => job[w].then = "clear",
           job[w].kind \in Batches => job[w].pc # "release"
    PROVE  Moves(w)
<1>1. job[w] \in Job /\ JobFits(job[w])
  BY OwnJob
<1> DEFINE j == [NoJob EXCEPT !.pc = pc, !.kind = job[w].kind,
               !.run = runOf(w), !.fence = job[w].fence, !.phase = job[w].phase,
               !.seen = IF pc = "abort" THEN job[w].seen ELSE "none",
               !.then = IF job[w].kind = "recover" THEN job[w].then ELSE "idle"]
<1>2. j \in Job
  <2>1. "none" \in RunStatuses \union BackupStatuses /\ "none" \in RunStatuses \union Batches
    BY DEF RunStatuses
  <2>2. "release" \in Pcs /\ "abort" \in Pcs /\ "idle" \in Pcs
    BY DEF Pcs
  <2> DEFINE seen == IF pc = "abort" THEN job[w].seen ELSE "none"
             then == IF job[w].kind = "recover" THEN job[w].then ELSE "idle"
  <2>3. seen \in RunStatuses \union Batches /\ then \in Pcs
    BY <1>1, <2>1, <2>2 DEF Job
  <2>4. NoJob \in Job
    BY NoJobFits
  <2> HIDE DEF seen, then
  <2>5. job[w].kind \in Calls \union {"none", "freeze", "pause", "recover"}
        /\ job[w].run \in Runs \union {None} /\ job[w].fence \in Nat
        /\ job[w].phase \in Batches \union {"none"}
    BY <1>1 DEF Job
  <2>6. pc \in Pcs
    BY <2>2
  <2>7. [NoJob EXCEPT !.pc = pc, !.kind = job[w].kind, !.run = job[w].run] \in Job
    BY <2>4, <2>5, <2>6, JobPart
  <2>8. [[NoJob EXCEPT !.pc = pc, !.kind = job[w].kind, !.run = job[w].run]
            EXCEPT !.fence = job[w].fence, !.phase = job[w].phase, !.seen = seen,
                   !.then = then] \in Job
    BY <2>3, <2>5, <2>7, JobRest
  <2> QED
    BY <2>8 DEF runOf, seen, then
<1>3. JobFits(j)
  BY <1>1 DEF NoJob, Job, JobFits, runOf, AboutTo, Handling
<1>4. CardsFit(j)
  BY DEF NoJob, CardsFit, AboutTo, Handling
<1> QED
  BY <1>2, <1>3, <1>4 DEF Moves, Leave

LEMMA JournalMoves ==
    ASSUME TypeInv, NEW w \in Workers, Handling(job[w]),
           NEW outcome \in {phaseOf(w).done, phaseOf(w).conflict, phaseOf(w).failed},
           ToJournal(w, outcome)
    PROVE  Moves(w)
<1>1. job[w] \in Job /\ JobFits(job[w]) /\ CardsFit(job[w]) /\ job \in [Workers -> Job]
  BY OwnJob
<1>2. job[w].kind \in Batches /\ job[w].phase \in Batches
  BY <1>1, KindsKnown
<1> DEFINE j == [job[w] EXCEPT !.pc = "journal", !.outcome = outcome, !.then = "idle",
                               !.recovering = FALSE]
<1>3. job' = [job EXCEPT ![w] = j]
  BY <1>1 DEF ToJournal
<1>4. j \in Job
  <2>1. outcome \in BackupStatuses
    BY <1>2 DEF phaseOf, Phase, Batches, BackupStatuses, Applied
  <2> QED
    BY ZenonT(60), <1>1, <2>1 DEF Job, Pcs
<1>5. JobFits(j)
  BY <1>1, <1>2 DEF Job, JobFits, phaseOf, AboutTo, Handling, PcsOf, BatchPcs, Batches, Phase
<1>6. CardsFit(j)
  BY <1>1 DEF Job, CardsFit, AboutTo, Handling
<1> QED
  BY <1>3, <1>4, <1>5, <1>6 DEF Moves

LEMMA NextMoves == ASSUME TypeInv, NEW w \in Workers, job[w].pc \in Recording, NextInBatch(w)
                   PROVE  Moves(w)
<1>1. job[w] \in Job /\ JobFits(job[w]) /\ CardsFit(job[w]) /\ job \in [Workers -> Job]
  BY OwnJob
<1>2. job[w].kind \in Batches
  BY <1>1, KindsKnown
<1> DEFINE j == [job[w] EXCEPT !.pc = "next", !.card = None, !.outcome = "none",
                               !.recovering = FALSE]
<1>3. job' = [job EXCEPT ![w] = j]
  BY <1>1 DEF NextInBatch
<1>4. j \in Job
  BY ZenonT(60), <1>1, <1>2 DEF Job, Pcs, RunStatuses
<1>5. JobFits(j)
  BY <1>1, <1>2 DEF Job, JobFits, AboutTo, Handling, PcsOf, BatchPcs, Batches, Phase, Recording
<1>6. CardsFit(j)
  BY <1>1, <1>2 DEF Job, CardsFit, AboutTo, Handling
<1> QED
  BY <1>3, <1>4, <1>5, <1>6 DEF Moves

\* A step to a plain program counter, or to a renewal before one.
LEMMA GotoMoves ==
    ASSUME TypeInv, NEW w \in Workers, job[w].pc \notin {"idle", "clear", "sweep", "release"},
           NEW pc \in PcsOf[job[w].kind] \ {"idle", "renew", "journal", "clear", "sweep",
                          "complete", "reopened", "cancelled", "verified"},
           Goto(w, pc),
           pc \in {"read", "write", "reread", "recheck"} => Handling(job[w]),
           job[w].kind = "recover" => job[w].then = "clear"
    PROVE  Moves(w)
<1>1. job[w] \in Job /\ JobFits(job[w]) /\ CardsFit(job[w]) /\ job \in [Workers -> Job]
  BY OwnJob
<1> DEFINE j == [job[w] EXCEPT !.pc = pc]
<1>2. job' = [job EXCEPT ![w] = j]
  BY <1>1 DEF Goto
<1>3. j \in Job
  <2>1. pc \in Pcs
    BY <1>1 DEF PcsOf, BatchPcs, Job, Pcs, Calls, Admitted
  <2> QED
    BY <1>1, <2>1 DEF Job
<1>4. JobFits(j)
  BY <1>1 DEF Job, JobFits, AboutTo, Handling, PcsOf, BatchPcs, Batches, Phase, Calls, Admitted
<1>5. CardsFit(j)
  BY <1>1 DEF Job, CardsFit, AboutTo, Handling
<1> QED
  BY <1>2, <1>3, <1>4, <1>5 DEF Moves

LEMMA RenewMoves ==
    ASSUME TypeInv, NEW w \in Workers, job[w].pc \notin {"idle", "clear", "sweep", "release"},
           job[w].kind \in Batches \union {"freeze"},
           NEW pc \in RenewsFor[job[w].kind] \ {"complete"}, RenewThen(w, pc),
           pc = "write" => Handling(job[w])
    PROVE  Moves(w)
<1>1. job[w] \in Job /\ JobFits(job[w]) /\ CardsFit(job[w]) /\ job \in [Workers -> Job]
  BY OwnJob
<1> DEFINE j == [job[w] EXCEPT !.pc = "renew", !.then = pc]
<1>2. job' = [job EXCEPT ![w] = j]
  BY <1>1 DEF RenewThen
<1>3. j \in Job
  <2>1. pc \in Pcs /\ "renew" \in Pcs
    BY <1>1 DEF RenewsFor, Pcs, Batches, Phase
  <2> QED
    BY <1>1, <2>1 DEF Job
<1>4. JobFits(j)
  BY <1>1 DEF Job, JobFits, AboutTo, Handling, PcsOf, RenewsFor, BatchPcs, Batches, Phase
<1>5. CardsFit(j)
  BY <1>1 DEF Job, CardsFit, AboutTo, Handling
<1> QED
  BY <1>2, <1>3, <1>4, <1>5 DEF Moves

------------------------------------------------------------------------------
(* Every step of a call moves it as it should. *)

LEMMA BeginMoves == ASSUME TypeInv, NEW w \in Workers, NEW r \in Runs, NEW kind \in Calls,
                           Begin(w, r, kind)
                    PROVE  Moves(w)
<1> DEFINE seen == IF kind \in Batches THEN run[r].status ELSE "none"
           phase == IF kind \in Batches THEN kind ELSE "none"
           j == [NoJob EXCEPT !.pc = "acquire", !.kind = kind, !.run = r, !.seen = seen,
                              !.phase = phase]
<1>1. job' = [job EXCEPT ![w] = j]
  BY DEF Begin
<1>2. seen \in RunStatuses \union Batches /\ phase \in Batches \union {"none"}
  <2>1. run[r].status \in RunStatuses
    BY DEF TypeInv, TypeOK, Run
  <2> QED
    BY <2>1 DEF RunStatuses
<1>3. kind \in Batches => seen \in Admitted[kind]
  BY DEF Begin
<1> HIDE DEF seen, phase
<1>4. j \in Job
  <2>1. "acquire" \in Pcs
    BY DEF Pcs
  <2> QED
    BY <1>2, <2>1, NoJobFits DEF Job
<1>5. JobFits(j)
  BY <1>3 DEF phase, NoJob, JobFits, AboutTo, Handling, PcsOf, BatchPcs, Batches, Phase, Calls,
              Admitted
<1>6. CardsFit(j)
  BY DEF NoJob, CardsFit, AboutTo, Handling
<1> QED
  BY <1>1, <1>4, <1>5, <1>6 DEF Moves

LEMMA CreateMoves == ASSUME TypeInv, NEW w \in Workers, NEW r \in Runs, createPreviewRun(w, r)
                     PROVE  Moves(w)
<1> DEFINE j == [NoJob EXCEPT !.pc = "acquire", !.kind = "freeze", !.run = r]
<1>1. job' = [job EXCEPT ![w] = j]
  BY DEF createPreviewRun
<1>2. j \in Job
  BY ZenonT(60), NoJobFits DEF Job, Pcs
<1>3. JobFits(j)
  BY DEF NoJob, JobFits, AboutTo, Handling, PcsOf, Batches, Phase
<1>4. CardsFit(j)
  BY DEF NoJob, CardsFit, AboutTo, Handling
<1> QED
  BY <1>1, <1>2, <1>3, <1>4 DEF Moves

LEMMA PauseMoves == ASSUME TypeInv, NEW w \in Workers, NEW r \in Runs, pause(w, r)
                    PROVE  Moves(w)
<1>1. PICK p \in Batches : job' = [job EXCEPT ![w] =
              [NoJob EXCEPT !.pc = "claimPause", !.kind = "pause", !.run = r, !.phase = p]]
  BY DEF pause
<1> DEFINE j == [NoJob EXCEPT !.pc = "claimPause", !.kind = "pause", !.run = r, !.phase = p]
<1>2. j \in Job
  <2>1. "claimPause" \in Pcs
    BY DEF Pcs
  <2> QED
    BY <2>1, NoJobFits DEF Job
<1>3. JobFits(j)
  BY DEF NoJob, JobFits, AboutTo, Handling, PcsOf, Batches, Phase
<1>4. CardsFit(j)
  BY DEF NoJob, CardsFit, AboutTo, Handling, Batches, Phase
<1> QED
  BY <1>1, <1>2, <1>3, <1>4 DEF Moves

LEMMA RecoverMoves == ASSUME TypeInv, NEW w \in Workers, recoverStaleRuns(w)
                      PROVE  Moves(w)
<1> DEFINE owner == IF lock.live THEN lock.owner ELSE None
           pausing == owner # None /\ ~lock.busy /\ run[owner].pauseRequested
           pc == IF pausing THEN "claimPause" ELSE IF owner # None THEN "sweep" ELSE "clear"
           fence == IF pausing THEN lock.fence ELSE 0
           then == IF pausing THEN "clear" ELSE "idle"
           phase == IF ~pausing THEN "none"
                    ELSE IF run[owner].status = "restoring" THEN "restore" ELSE "apply"
           j == [NoJob EXCEPT !.pc = pc, !.kind = "recover", !.run = owner, !.fence = fence,
                              !.then = then, !.phase = phase]
<1>1. job' = [job EXCEPT ![w] = j]
  BY DEF recoverStaleRuns
<1>2. /\ owner \in Runs \union {None} /\ fence \in Nat /\ then \in Pcs
      /\ phase \in Batches \union {"none"} /\ pc \in Pcs
  BY DEF TypeInv, TypeOK, LeaseTypeOK, Lock, Pcs, Batches, Phase
<1>3. /\ pc \in {"claimPause", "clear", "sweep"}
      /\ pc = "claimPause" => owner \in Runs /\ phase \in Batches /\ then = "clear"
  BY <1>2 DEF Batches, Phase
<1> HIDE DEF owner, pc, fence, then, phase
<1>4. j \in Job
  BY <1>2, NoJobFits DEF Job
<1>5. JobFits(j)
  BY <1>3 DEF NoJob, JobFits, AboutTo, Handling, PcsOf, Batches, Phase
<1>6. CardsFit(j)
  BY <1>3 DEF NoJob, CardsFit, AboutTo, Handling, Batches, Phase
<1> QED
  BY <1>1, <1>4, <1>5, <1>6 DEF Moves

\* A call that takes a lease goes on under its fence.
LEMMA TakeMoves ==
    ASSUME TypeInv, NEW w \in Workers, NEW pc \in {"stamp", "stampPause"},
           \/ job[w].pc = "acquire" /\ pc = "stamp"
           \/ job[w].pc = "claimPause" /\ pc = "stampPause",
           job' = [job EXCEPT ![w].pc = pc, ![w].fence = lock.fence + 1]
    PROVE  Moves(w)
<1>1. job[w] \in Job /\ JobFits(job[w]) /\ CardsFit(job[w]) /\ job \in [Workers -> Job]
  BY OwnJob
<1> DEFINE j == [job[w] EXCEPT !.pc = pc, !.fence = lock.fence + 1]
<1>2. job' = [job EXCEPT ![w] = j]
  BY <1>1
<1>3. j \in Job
  <2>1. pc \in Pcs /\ lock.fence + 1 \in Nat
    BY DEF Pcs, TypeInv, TypeOK, LeaseTypeOK, Lock
  <2> QED
    BY <1>1, <2>1 DEF Job
<1>4. JobFits(j)
  BY <1>1 DEF Job, JobFits, AboutTo, Handling, PcsOf, BatchPcs, Batches, Phase, Calls, Admitted
<1>5. CardsFit(j)
  BY <1>1 DEF Job, CardsFit, AboutTo, Handling
<1> QED
  BY <1>2, <1>3, <1>4, <1>5 DEF Moves

LEMMA AcquireMoves == ASSUME TypeInv, NEW w \in Workers, acquireLease(w) PROVE Moves(w)
<1>1. CASE Return(w)
  BY <1>1, ReturnMoves
<1>2. CASE job' = [job EXCEPT ![w].pc = "stamp", ![w].fence = lock.fence + 1]
  BY <1>2, TakeMoves DEF acquireLease, At
<1> QED
  BY <1>1, <1>2 DEF acquireLease

LEMMA StampMoves == ASSUME TypeInv, NEW w \in Workers, stampLease(w) PROVE Moves(w)
<1>1. job[w] \in Job /\ JobFits(job[w]) /\ job[w].pc = "stamp"
  BY OwnJob DEF stampLease, At
<1>2. job[w].kind \in Calls \union {"freeze"}
  BY <1>1, KindsKnown
<1>3. CASE job[w].kind \in Batches
  <2>1. job[w].kind \in {"apply", "restore"}
    BY <1>3 DEF Batches, Phase
  <2>2. "enter" \in RenewsFor[job[w].kind]
    BY <2>1 DEF RenewsFor
  <2>3. RenewThen(w, "enter")
    BY <1>3, <2>1 DEF stampLease
  <2> QED
    BY <1>1, <1>3, <2>2, <2>3, RenewMoves
<1>4. CASE job[w].kind = "freeze"
  <2>1. RenewThen(w, "snapshot") /\ "snapshot" \in RenewsFor[job[w].kind]
    BY <1>4 DEF stampLease, Batches, Phase, RenewsFor
  <2> QED
    BY <1>1, <1>4, <2>1, RenewMoves
<1>5. CASE job[w].kind = "resume"
  <2>1. Goto(w, "reopen") /\ "reopen" \in PcsOf[job[w].kind]
    BY <1>5 DEF stampLease, Batches, Phase, PcsOf
  <2> QED
    BY <1>1, <1>5, <2>1, GotoMoves
<1>6. CASE job[w].kind = "cancel"
  <2>1. Goto(w, "weigh") /\ "weigh" \in PcsOf[job[w].kind]
    BY <1>6 DEF stampLease, Batches, Phase, PcsOf
  <2> QED
    BY <1>1, <1>6, <2>1, GotoMoves
<1>7. CASE job[w].kind = "verify"
  <2>1. Goto(w, "compare") /\ "compare" \in PcsOf[job[w].kind]
    BY <1>7 DEF stampLease, Batches, Phase, PcsOf
  <2> QED
    BY <1>1, <1>7, <2>1, GotoMoves
<1> QED
  BY <1>2, <1>3, <1>4, <1>5, <1>6, <1>7 DEF Calls, Admitted, Batches, Phase

\* The way out by the catch or the finally of the call.
LEMMA CatchMoves ==
    ASSUME TypeInv, NEW w \in Workers, Leave(w, Catch(w)),
           job[w].pc \in Recording \union {"renew", "reopen", "reopened", "weigh", "cancelled",
                              "compare", "verified", "snapshot", "preview"}
    PROVE  Moves(w)
<1>1. job[w] \in Job /\ JobFits(job[w])
  BY OwnJob
<1>2. job[w].kind \in Calls \union {"freeze"}
  BY <1>1, KindsKnown DEF Recording, Calls, Admitted, Batches, Phase
<1>3. Catch(w) \in {"release", "abort"} /\ Catch(w) \in PcsOf[job[w].kind]
  BY <1>2 DEF Catch, PcsOf, BatchPcs, Calls, Admitted, Batches, Phase
<1>4. /\ job[w].pc \notin {"idle", "clear", "sweep", "release"} /\ job[w].kind # "recover"
  BY <1>2 DEF Recording, Calls, Admitted
<1> QED
  BY <1>3, <1>4, LeaveMoves

LEMMA RenewalMoves == ASSUME TypeInv, NEW w \in Workers, Renew(w) PROVE Moves(w)
<1>1. job[w] \in Job /\ JobFits(job[w]) /\ CardsFit(job[w]) /\ job[w].pc = "renew"
      /\ job \in [Workers -> Job]
  BY OwnJob DEF Renew, At
<1>2. CASE job' = [job EXCEPT ![w].pc = job[w].then, ![w].then = "idle"]
  <2> DEFINE j == [job[w] EXCEPT !.pc = job[w].then, !.then = "idle"]
  <2>1. job' = [job EXCEPT ![w] = j]
    BY <1>1, <1>2
  <2>2. job[w].kind \in Calls \union {"freeze"}
    BY <1>1, KindsKnown
  <2>3. j \in Job
    <3>1. "idle" \in Pcs /\ job[w].then \in Pcs
      BY <1>1 DEF Pcs, Job
    <3> QED
      BY <1>1, <3>1 DEF Job
  <2>4. JobFits(j)
    BY <1>1, <2>2 DEF Job, JobFits, AboutTo, Handling, PcsOf, RenewsFor, BatchPcs, Batches, Phase,
                      Calls, Admitted
  <2>5. CardsFit(j)
    BY <1>1, <2>2 DEF Job, JobFits, CardsFit, AboutTo, Handling, RenewsFor, Calls, Admitted
  <2> QED
    BY <2>1, <2>3, <2>4, <2>5 DEF Moves
<1>3. CASE job[w].then = "write" /\ ToJournal(w, phaseOf(w).failed)
  BY <1>1, <1>3, JournalMoves DEF Handling, AboutTo
<1>4. CASE Leave(w, Catch(w))
  BY <1>1, <1>4, CatchMoves
<1> QED
  BY <1>2, <1>3, <1>4 DEF Renew

LEMMA ReleaseMoves == ASSUME TypeInv, NEW w \in Workers, Release(w) PROVE Moves(w)
<1>1. job[w] \in Job /\ JobFits(job[w]) /\ job[w].pc = "release"
  BY OwnJob DEF Release, At
<1>2. CASE job[w].kind = "recover"
  <2> DEFINE r == IF job[w].then = "clear" THEN None ELSE runOf(w)
             j == [NoJob EXCEPT !.pc = job[w].then, !.kind = "recover", !.run = r]
  <2>1. job' = [job EXCEPT ![w] = j]
    BY <1>2 DEF Release
  <2>2. r \in Runs \union {None} /\ job[w].then \in {"clear", "sweep"}
    BY <1>1, <1>2 DEF JobFits, Job, runOf
  <2> HIDE DEF r
  <2>3. j \in Job
    <3>1. job[w].then \in Pcs
      BY <2>2 DEF Pcs
    <3> QED
      BY <2>2, <3>1, NoJobFits DEF Job
  <2>4. JobFits(j)
    BY <2>2 DEF NoJob, JobFits, AboutTo, Handling, PcsOf, Batches, Phase
  <2>5. CardsFit(j)
    BY <2>2 DEF NoJob, CardsFit, AboutTo, Handling, Batches, Phase
  <2> QED
    BY <2>1, <2>3, <2>4, <2>5 DEF Moves
<1>3. CASE job[w].kind # "recover"
  BY <1>3, ReturnMoves DEF Release
<1> QED
  BY <1>2, <1>3

LEMMA ClaimPauseMoves == ASSUME TypeInv, NEW w \in Workers, claimPauseLease(w) PROVE Moves(w)
<1>1. job[w] \in Job /\ JobFits(job[w]) /\ job[w].pc = "claimPause" /\ runOf(w) \in Runs
  BY OwnJob DEF claimPauseLease, At, JobFits, runOf
<1>2. CASE job' = [job EXCEPT ![w].pc = "stampPause", ![w].fence = lock.fence + 1]
  BY <1>1, <1>2, TakeMoves
<1> DEFINE j == [NoJob EXCEPT !.pc = "sweep", !.kind = "recover", !.run = runOf(w)]
<1>3. CASE job' = [job EXCEPT ![w] = j]
  <2>1. j \in Job
    <3>1. "sweep" \in Pcs
      BY DEF Pcs
    <3> QED
      BY ZenonT(60), <1>1, <3>1, NoJobFits DEF Job
  <2>2. JobFits(j)
    BY DEF NoJob, JobFits, AboutTo, Handling, PcsOf, Batches, Phase
  <2>3. CardsFit(j)
    BY DEF NoJob, CardsFit, AboutTo, Handling, Batches, Phase
  <2> QED
    BY <1>3, <2>1, <2>2, <2>3 DEF Moves
<1>4. CASE Return(w)
  BY <1>4, ReturnMoves
<1> QED
  BY <1>2, <1>3, <1>4 DEF claimPauseLease

LEMMA StampPauseMoves == ASSUME TypeInv, NEW w \in Workers, stampPause(w) PROVE Moves(w)
<1>1. /\ job[w] \in Job /\ JobFits(job[w]) /\ CardsFit(job[w]) /\ job[w].pc = "stampPause"
      /\ job \in [Workers -> Job]
  BY OwnJob DEF stampPause, At
<1>2. job[w].kind \in Batches \union {"pause", "recover"}
  BY <1>1, KindsKnown
<1>3. CASE Goto(w, "finalizePause")
  BY <1>1, <1>2, <1>3, GotoMoves DEF PcsOf, BatchPcs, Batches, Phase, JobFits
<1> DEFINE j == [job[w] EXCEPT !.pc = "release", !.then = "sweep"]
<1>4. CASE job' = [job EXCEPT ![w].pc = "release", ![w].then = "sweep"]
  <2>1. job' = [job EXCEPT ![w] = j]
    BY <1>1, <1>4
  <2>2. j \in Job
    <3>1. "release" \in Pcs /\ "sweep" \in Pcs
      BY DEF Pcs
    <3> QED
      BY <1>1, <3>1 DEF Job
  <2>3. JobFits(j)
    BY <1>1, <1>2 DEF Job, JobFits, AboutTo, Handling, PcsOf, BatchPcs, Batches, Phase
  <2>4. CardsFit(j)
    BY <1>1 DEF Job, CardsFit, AboutTo, Handling
  <2> QED
    BY <2>1, <2>2, <2>3, <2>4 DEF Moves
<1> QED
  BY <1>3, <1>4 DEF stampPause

LEMMA FinalizeMoves == ASSUME TypeInv, NEW w \in Workers, finalizePauseWithLease(w) PROVE Moves(w)
<1>1. job[w] \in Job /\ JobFits(job[w]) /\ job[w].pc = "finalizePause" /\ Leave(w, "release")
  BY OwnJob DEF finalizePauseWithLease, At
<1>2. job[w].kind \in Batches \union {"pause", "recover"}
  BY <1>1, KindsKnown
<1>3. "release" \in PcsOf[job[w].kind]
  BY <1>2 DEF PcsOf, BatchPcs, Batches, Phase
<1>4. job[w].kind = "recover" => job[w].then = "clear"
  BY <1>1 DEF JobFits
<1> QED
  BY <1>1, <1>3, <1>4, LeaveMoves

LEMMA ClearMoves == ASSUME TypeInv, NEW w \in Workers, clearExpiredLock(w) PROVE Moves(w)
<1>1. /\ job[w] \in Job /\ JobFits(job[w]) /\ job[w].pc = "clear" /\ Goto(w, "sweep")
      /\ job[w].kind = "recover" /\ job \in [Workers -> Job]
  BY OwnJob, KindsKnown DEF clearExpiredLock, At
<1> DEFINE j == [job[w] EXCEPT !.pc = "sweep"]
<1>2. job' = [job EXCEPT ![w] = j]
  BY <1>1 DEF Goto
<1>3. j \in Job
  <2>1. "sweep" \in Pcs
    BY DEF Pcs
  <2> QED
    BY <1>1, <2>1 DEF Job
<1>4. JobFits(j)
  BY <1>1 DEF Job, JobFits, AboutTo, Handling, PcsOf, Batches, Phase
<1>5. CardsFit(j)
  BY <1>1 DEF Job, CardsFit, AboutTo, Handling, Batches, Phase
<1> QED
  BY <1>2, <1>3, <1>4, <1>5 DEF Moves

\* A batch lists no more than its size, and only records of the run.
LEMMA ListFits == ASSUME NEW S \in SUBSET Timecards
                  PROVE  Min({BatchSize, Cardinality(S)}) \in Nat
<1>1. Cardinality(S) \in Nat
  BY FS_Subset, FS_CardinalityType, DateMigrationAssumption
<1> DEFINE n == Cardinality(S)
           m == IF BatchSize <= n THEN BatchSize ELSE n
<1>2. m \in {BatchSize, n} /\ \A y \in {BatchSize, n} : m <= y
  BY <1>1, DateMigrationAssumption
<1>3. Min({BatchSize, n}) \in {BatchSize, n}
  BY <1>2 DEF Min
<1> QED
  BY <1>1, <1>3, DateMigrationAssumption

LEMMA EnterMoves == ASSUME TypeInv, NEW w \in Workers, EnterBatch(w) PROVE Moves(w)
<1>1. /\ job[w] \in Job /\ JobFits(job[w]) /\ CardsFit(job[w]) /\ job[w].pc = "enter"
      /\ job \in [Workers -> Job]
  BY OwnJob DEF EnterBatch, At
<1>2. job[w].kind \in Batches /\ job[w].phase \in Batches /\ runOf(w) \in Runs
  BY <1>1, KindsKnown DEF Recording, JobFits, runOf
<1>3. CASE Leave(w, "abort")
  <2>1. "abort" \in PcsOf[job[w].kind]
    BY <1>2 DEF PcsOf, BatchPcs, Batches, Phase
  <2> QED
    BY <1>1, <1>2, <1>3, <2>1, LeaveMoves DEF Batches, Phase
<1> DEFINE found == Statuses(runOf(w), {phaseOf(w).open, phaseOf(w).intent})
           size == Min({BatchSize, Cardinality(found)})
<1>4. CASE \E listed \in kSubset(size, found) :
              job' = [job EXCEPT ![w].pc = "next", ![w].todo = listed, ![w].listed = size]
  <2>1. found \subseteq Timecards /\ found \subseteq Frozen(runOf(w))
    BY <1>2 DEF Statuses, Frozen, phaseOf, Phase, Batches
  <2>2. size \in Nat
    BY <2>1, ListFits
  <2>3. PICK listed \in SUBSET found :
              job' = [job EXCEPT ![w].pc = "next", ![w].todo = listed, ![w].listed = size]
    BY <1>4 DEF kSubset
  <2> HIDE DEF found, size
  <2> DEFINE j == [job[w] EXCEPT !.pc = "next", !.todo = listed, !.listed = size]
  <2>4. job' = [job EXCEPT ![w] = j]
    BY <1>1, <2>3
  <2>5. j \in Job
    <3>1. "next" \in Pcs /\ listed \in SUBSET Timecards
      BY <2>1 DEF Pcs
    <3> QED
      BY <1>1, <2>2, <3>1 DEF Job
  <2>6. JobFits(j)
    BY <1>1, <1>2 DEF Job, JobFits, AboutTo, Handling, PcsOf, BatchPcs, Batches, Phase
  <2>7. CardsFit(j)
    BY <1>1, <2>1 DEF Job, CardsFit, AboutTo, Handling, runOf
  <2> QED
    BY <2>4, <2>5, <2>6, <2>7 DEF Moves
<1> QED
  BY <1>3, <1>4 DEF EnterBatch

LEMMA NextRecordMoves == ASSUME TypeInv, NEW w \in Workers, NextRecord(w) PROVE Moves(w)
<1>1. job[w] \in Job /\ JobFits(job[w]) /\ job[w].pc = "next"
  BY OwnJob DEF NextRecord, At
<1>2. job[w].kind \in Batches
  BY <1>1, KindsKnown DEF Recording
<1>3. /\ {"release", "finish"} \subseteq PcsOf[job[w].kind]
      /\ "claim" \in RenewsFor[job[w].kind] /\ job[w].kind # "recover"
  BY <1>2 DEF PcsOf, RenewsFor, BatchPcs, Batches, Phase
<1>4. CASE Leave(w, "release")
  BY <1>1, <1>3, <1>4, LeaveMoves
<1>5. CASE Goto(w, "finish")
  BY <1>1, <1>3, <1>5, GotoMoves
<1>6. CASE RenewThen(w, "claim")
  BY <1>1, <1>2, <1>3, <1>6, RenewMoves
<1> QED
  BY <1>4, <1>5, <1>6 DEF NextRecord

LEMMA ClaimMoves == ASSUME TypeInv, NEW w \in Workers, ClaimRecord(w) PROVE Moves(w)
<1>1. /\ job[w] \in Job /\ JobFits(job[w]) /\ CardsFit(job[w]) /\ job[w].pc = "claim"
      /\ job \in [Workers -> Job]
  BY OwnJob DEF ClaimRecord, At
<1>2. job[w].kind \in Batches
  BY <1>1, KindsKnown DEF Recording
<1>3. CASE Leave(w, "abort")
  <2>1. "abort" \in PcsOf[job[w].kind] /\ job[w].kind # "recover"
    BY <1>2 DEF PcsOf, BatchPcs, Batches, Phase
  <2> QED
    BY <1>1, <1>3, <2>1, LeaveMoves
<1>4. ASSUME NEW t \in job[w].todo, NEW b \in BOOLEAN,
             job' = [job EXCEPT ![w].pc = "read", ![w].card = t, ![w].todo = @ \ {t},
                                ![w].recovering = b]
      PROVE  Moves(w)
  <2> DEFINE j == [job[w] EXCEPT !.pc = "read", !.card = t, !.todo = @ \ {t},
                                 !.recovering = b]
  <2>1. job' = [job EXCEPT ![w] = j]
    BY <1>1, <1>4
  <2>2. t \in Timecards /\ t \in Frozen(job[w].run)
    BY <1>1, <1>2 DEF Job, CardsFit
  <2>3. j \in Job
    <3>1. "read" \in Pcs /\ job[w].todo \ {t} \in SUBSET Timecards
      BY <1>1 DEF Pcs, Job
    <3> QED
      BY <1>1, <2>2, <3>1 DEF Job
  <2>4. JobFits(j)
    BY <1>1, <1>2, <2>2 DEF Job, JobFits, AboutTo, Handling, PcsOf, BatchPcs, Batches, Phase
  <2>5. CardsFit(j)
    BY <1>1, <2>2 DEF Job, CardsFit, AboutTo, Handling
  <2> QED
    BY <2>1, <2>3, <2>4, <2>5 DEF Moves
<1>5. ASSUME NEW t \in job[w].todo,
             job' = [job EXCEPT ![w].pc = "next", ![w].todo = @ \ {t}]
      PROVE  Moves(w)
  <2> DEFINE j == [job[w] EXCEPT !.pc = "next", !.todo = @ \ {t}]
  <2>1. job' = [job EXCEPT ![w] = j]
    BY <1>1, <1>5
  <2>3. j \in Job
    <3>1. "next" \in Pcs /\ job[w].todo \ {t} \in SUBSET Timecards
      BY <1>1 DEF Pcs, Job
    <3> QED
      BY <1>1, <3>1 DEF Job
  <2>4. JobFits(j)
    BY <1>1, <1>2 DEF Job, JobFits, AboutTo, Handling, PcsOf, BatchPcs, Batches, Phase
  <2>5. CardsFit(j)
    BY SMTT(40), <1>1 DEF Job, CardsFit, AboutTo, Handling
  <2> QED
    BY <2>1, <2>3, <2>4, <2>5 DEF Moves
<1>6. PICK t \in job[w].todo :
          \/ Leave(w, "abort")
          \/ \E b \in BOOLEAN :
                job' = [job EXCEPT ![w].pc = "read", ![w].card = t, ![w].todo = @ \ {t},
                                   ![w].recovering = b]
          \/ job' = [job EXCEPT ![w].pc = "next", ![w].todo = @ \ {t}]
  BY DEF ClaimRecord
<1> QED
  BY <1>3, <1>4, <1>5, <1>6

LEMMA ReadMoves == ASSUME TypeInv, NEW w \in Workers, ReadRecord(w) PROVE Moves(w)
<1>1. job[w] \in Job /\ JobFits(job[w]) /\ job[w].pc = "read" /\ Handling(job[w])
  BY OwnJob DEF ReadRecord, At, Handling
<1>2. job[w].kind \in Batches /\ "write" \in RenewsFor[job[w].kind]
  BY <1>1, KindsKnown DEF Recording, RenewsFor, Batches, Phase
<1>3. CASE ToJournal(w, phaseOf(w).done)
  BY <1>1, <1>3, JournalMoves
<1>4. CASE ToJournal(w, phaseOf(w).conflict)
  BY <1>1, <1>4, JournalMoves
<1>5. CASE RenewThen(w, "write")
  BY <1>1, <1>2, <1>5, RenewMoves
<1> QED
  BY <1>3, <1>4, <1>5 DEF ReadRecord

LEMMA ReadFailsMoves == ASSUME TypeInv, NEW w \in Workers, ReadFails(w) PROVE Moves(w)
  BY JournalMoves DEF ReadFails, At, Handling, AboutTo

LEMMA WriteMoves == ASSUME TypeInv, NEW w \in Workers, WriteRecord(w) PROVE Moves(w)
<1>1. job[w] \in Job /\ JobFits(job[w]) /\ job[w].pc = "write" /\ Handling(job[w])
  BY OwnJob DEF WriteRecord, At, Handling, AboutTo
<1>2. "reread" \in PcsOf[job[w].kind] /\ job[w].kind # "recover"
  BY <1>1, KindsKnown DEF Recording, PcsOf, BatchPcs, Batches, Phase
<1>3. CASE ToJournal(w, phaseOf(w).done)
  BY <1>1, <1>3, JournalMoves
<1>4. CASE Goto(w, "reread")
  BY <1>1, <1>2, <1>4, GotoMoves
<1> QED
  BY <1>3, <1>4 DEF WriteRecord

LEMMA WriteFailsMoves == ASSUME TypeInv, NEW w \in Workers, WriteFails(w) PROVE Moves(w)
<1>1. job[w] \in Job /\ JobFits(job[w]) /\ job[w].pc = "write" /\ Handling(job[w])
  BY OwnJob DEF WriteFails, At, Handling, AboutTo
<1>2. "recheck" \in PcsOf[job[w].kind] /\ job[w].kind # "recover"
  BY <1>1, KindsKnown DEF Recording, PcsOf, BatchPcs, Batches, Phase
<1> QED
  BY <1>1, <1>2, GotoMoves DEF WriteFails

LEMMA RereadMoves == ASSUME TypeInv, NEW w \in Workers, RereadRecord(w) PROVE Moves(w)
<1>1. job[w].pc \in Recording /\ Handling(job[w])
  BY DEF RereadRecord, At, Handling, Recording
<1>2. CASE ToJournal(w, phaseOf(w).done)
  BY <1>1, <1>2, JournalMoves
<1>3. CASE ToJournal(w, phaseOf(w).conflict)
  BY <1>1, <1>3, JournalMoves
<1>4. CASE NextInBatch(w)
  BY <1>1, <1>4, NextMoves
<1> QED
  BY <1>2, <1>3, <1>4 DEF RereadRecord

LEMMA JournalRecordMoves == ASSUME TypeInv, NEW w \in Workers, JournalRecord(w) PROVE Moves(w)
  BY NextMoves DEF JournalRecord, At, Recording

\* A guarded update of a call that is at work, and the way out it leads to.
LEMMA GuardedMoves ==
    ASSUME TypeInv, NEW w \in Workers,
           job[w].pc \in Recording \union {"reopened", "cancelled", "verified", "preview"},
           NEW pc \in {"release", "abort"}, Leave(w, pc),
           pc = "abort" => job[w].kind \in Batches \union {"freeze"}
    PROVE  Moves(w)
<1>1. job[w] \in Job /\ JobFits(job[w])
  BY OwnJob
<1>2. job[w].kind \in Calls \union {"freeze"}
  BY <1>1, KindsKnown DEF Recording, Calls, Admitted, Batches, Phase
<1>3. pc \in PcsOf[job[w].kind]
  BY <1>2 DEF PcsOf, BatchPcs, Calls, Admitted, Batches, Phase
<1>4. /\ job[w].pc \notin {"idle", "clear", "sweep", "release"} /\ job[w].kind # "recover"
  BY <1>2 DEF Recording, Calls, Admitted
<1> QED
  BY <1>3, <1>4, LeaveMoves

LEMMA FinishMoves == ASSUME TypeInv, NEW w \in Workers, FinishBatch(w) PROVE Moves(w)
<1>1. /\ job[w] \in Job /\ JobFits(job[w]) /\ CardsFit(job[w]) /\ job[w].pc = "finish"
      /\ job \in [Workers -> Job]
  BY OwnJob DEF FinishBatch, At
<1>2. job[w].kind \in Batches /\ job[w].phase \in Batches
  BY <1>1, KindsKnown DEF Recording
<1> DEFINE outcome == IF Conflicts(w) = {} THEN phaseOf(w).complete ELSE phaseOf(w).incomplete
           j == [job[w] EXCEPT !.pc = "renew", !.then = "complete", !.listed = 0,
                               !.outcome = outcome]
           k == [job[w] EXCEPT !.pc = "park", !.listed = 0]
<1>3. CASE job' = [job EXCEPT ![w].pc = "renew", ![w].then = "complete", ![w].listed = 0,
                              ![w].outcome = outcome]
  <2>1. job' = [job EXCEPT ![w] = j]
    BY <1>1, <1>3
  <2>2. outcome \in {Phase[job[w].phase].complete, Phase[job[w].phase].incomplete}
    BY DEF phaseOf
  <2>3. outcome \in RunStatuses
    BY <1>2, <2>2 DEF Phase, Batches, RunStatuses, Calls, Admitted
  <2> HIDE DEF outcome
  <2>4. j \in Job
    <3>1. "renew" \in Pcs /\ "complete" \in Pcs
      BY DEF Pcs
    <3> QED
      BY <1>1, <2>3, <3>1 DEF Job
  <2>5. JobFits(j)
    BY <1>1, <1>2, <2>2 DEF Job, JobFits, AboutTo, Handling, PcsOf, RenewsFor, BatchPcs, Batches,
                            Phase
  <2>6. CardsFit(j)
    BY <1>1 DEF Job, CardsFit, AboutTo, Handling
  <2> QED
    BY <2>1, <2>4, <2>5, <2>6 DEF Moves
<1>4. CASE RenewThen(w, "stall")
  <2>1. "stall" \in RenewsFor[job[w].kind]
    BY <1>2 DEF RenewsFor, Batches, Phase
  <2> QED
    BY <1>1, <1>2, <1>4, <2>1, RenewMoves
<1>5. CASE job' = [job EXCEPT ![w].pc = "park", ![w].listed = 0]
  <2>1. job' = [job EXCEPT ![w] = k]
    BY <1>1, <1>5
  <2>2. k \in Job
    <3>1. "park" \in Pcs
      BY DEF Pcs
    <3> QED
      BY <1>1, <3>1 DEF Job
  <2>3. JobFits(k)
    BY <1>1, <1>2 DEF Job, JobFits, AboutTo, Handling, PcsOf, BatchPcs, Batches, Phase
  <2>4. CardsFit(k)
    BY <1>1 DEF Job, CardsFit, AboutTo, Handling
  <2> QED
    BY <2>1, <2>2, <2>3, <2>4 DEF Moves
<1> QED
  BY <1>3, <1>4, <1>5 DEF FinishBatch

LEMMA CompleteMoves == ASSUME TypeInv, NEW w \in Workers, CompletePhase(w) PROVE Moves(w)
<1>1. job[w] \in Job /\ JobFits(job[w]) /\ job[w].pc = "complete" /\ job[w].kind \in Batches
  BY OwnJob, KindsKnown DEF CompletePhase, At, Recording
<1>2. Leave(w, "release") \/ Leave(w, "abort")
  BY DEF CompletePhase, Guarded
<1> QED
  BY <1>1, <1>2, GuardedMoves DEF Recording

LEMMA StallMoves == ASSUME TypeInv, NEW w \in Workers, StallPhase(w) PROVE Moves(w)
<1>1. job[w] \in Job /\ JobFits(job[w]) /\ job[w].pc = "stall" /\ job[w].kind \in Batches
  BY OwnJob, KindsKnown DEF StallPhase, At, Recording
<1>2. Leave(w, "release") \/ Leave(w, "abort")
  BY DEF StallPhase, Guarded
<1> QED
  BY <1>1, <1>2, GuardedMoves DEF Recording

LEMMA ParkMoves == ASSUME TypeInv, NEW w \in Workers, parkLease(w) PROVE Moves(w)
<1>1. job[w] \in Job /\ JobFits(job[w]) /\ job[w].pc = "park" /\ job[w].kind \in Batches
  BY OwnJob, KindsKnown DEF parkLease, At, Recording
<1>2. "parked" \in PcsOf[job[w].kind] /\ job[w].kind # "recover"
  BY <1>1 DEF PcsOf, BatchPcs, Batches, Phase
<1>3. CASE Goto(w, "parked")
  BY <1>1, <1>2, <1>3, GotoMoves
<1>4. CASE Leave(w, "abort")
  BY <1>1, <1>4, GuardedMoves DEF Recording
<1> QED
  BY <1>3, <1>4 DEF parkLease

LEMMA ParkedMoves == ASSUME TypeInv, NEW w \in Workers, CheckParked(w) PROVE Moves(w)
<1>1. job[w] \in Job /\ JobFits(job[w]) /\ job[w].pc = "parked" /\ job[w].kind \in Batches
  BY OwnJob, KindsKnown DEF CheckParked, At, Recording
<1>2. "claimPause" \in PcsOf[job[w].kind] /\ job[w].kind # "recover"
  BY <1>1 DEF PcsOf, BatchPcs, Batches, Phase
<1>3. CASE Goto(w, "claimPause")
  BY <1>1, <1>2, <1>3, GotoMoves
<1>4. CASE Return(w)
  BY <1>4, ReturnMoves
<1> QED
  BY <1>3, <1>4 DEF CheckParked

LEMMA AbortMoves == ASSUME TypeInv, NEW w \in Workers, Abort(w) PROVE Moves(w)
<1>1. /\ job[w] \in Job /\ JobFits(job[w]) /\ job[w].pc = "abort" /\ Leave(w, "release")
      /\ job[w].kind \in Batches \union {"freeze"}
  BY OwnJob, KindsKnown DEF Abort, At
<1>2. "release" \in PcsOf[job[w].kind] /\ job[w].kind # "recover"
  BY <1>1 DEF PcsOf, BatchPcs, Batches, Phase
<1> QED
  BY <1>1, <1>2, LeaveMoves

LEMMA SnapshotMoves == ASSUME TypeInv, NEW w \in Workers, FreezeSnapshot(w) PROVE Moves(w)
<1>1. job[w] \in Job /\ JobFits(job[w]) /\ job[w].pc = "snapshot" /\ job[w].kind = "freeze"
  BY OwnJob, KindsKnown DEF FreezeSnapshot, At
<1>2. /\ "preview" \in RenewsFor[job[w].kind] /\ "abort" \in PcsOf[job[w].kind]
      /\ job[w].kind \notin Batches
  BY <1>1 DEF RenewsFor, PcsOf, Batches, Phase
<1>3. CASE RenewThen(w, "preview")
  BY <1>1, <1>2, <1>3, RenewMoves
<1>4. CASE Leave(w, "abort")
  BY <1>1, <1>2, <1>4, LeaveMoves
<1> QED
  BY <1>3, <1>4 DEF FreezeSnapshot

LEMMA PreviewMoves == ASSUME TypeInv, NEW w \in Workers, FinishPreview(w) PROVE Moves(w)
<1>1. job[w] \in Job /\ JobFits(job[w]) /\ job[w].pc = "preview" /\ job[w].kind = "freeze"
  BY OwnJob, KindsKnown DEF FinishPreview, At
<1>2. Leave(w, "release") \/ Leave(w, "abort")
  BY DEF FinishPreview, Guarded
<1> QED
  BY <1>1, <1>2, GuardedMoves

\* The calls that renew their lease between what they have read and what they write.
LEMMA SeenMoves ==
    ASSUME TypeInv, NEW w \in Workers,
           NEW pc \in {"reopened", "cancelled", "verified"},
           NEW seen \in RunStatuses \union Batches, NEW outcome \in RunStatuses \union BackupStatuses,
           job' = [job EXCEPT ![w].pc = "renew", ![w].then = pc, ![w].seen = seen,
                              ![w].outcome = outcome],
           \/ job[w].pc = "reopen" /\ pc = "reopened" /\ seen \in Batches
           \/ job[w].pc = "weigh" /\ pc = "cancelled" /\ seen \in Admitted["cancel"]
           \/ /\ job[w].pc = "compare" /\ pc = "verified"
              /\ seen \in Admitted["verify"] /\ outcome \in Admitted["verify"]
    PROVE  Moves(w)
<1>1. /\ job[w] \in Job /\ JobFits(job[w]) /\ CardsFit(job[w]) /\ job \in [Workers -> Job]
  BY OwnJob
<1> DEFINE j == [job[w] EXCEPT !.pc = "renew", !.then = pc, !.seen = seen, !.outcome = outcome]
<1>2. job' = [job EXCEPT ![w] = j]
  BY <1>1
<1>3. j \in Job
  <2>1. "renew" \in Pcs /\ pc \in Pcs
    BY DEF Pcs
  <2> QED
    BY <1>1, <2>1 DEF Job
<1>4. JobFits(j)
  <2>1. /\ job[w].pc = "reopen" => job[w].kind = "resume"
        /\ job[w].pc = "weigh" => job[w].kind = "cancel"
        /\ job[w].pc = "compare" => job[w].kind = "verify"
    BY <1>1, KindsKnown
  <2> QED
    BY <1>1, <2>1 DEF Job, JobFits, AboutTo, Handling, PcsOf, RenewsFor, Batches, Phase
<1>5. CardsFit(j)
  BY <1>1 DEF Job, CardsFit, AboutTo, Handling
<1> QED
  BY <1>2, <1>3, <1>4, <1>5 DEF Moves

LEMMA ReopenMoves == ASSUME TypeInv, NEW w \in Workers, ReopenFailed(w) PROVE Moves(w)
<1>1. /\ job[w] \in Job /\ JobFits(job[w]) /\ job[w].pc = "reopen" /\ job[w].kind = "resume"
      /\ job \in [Workers -> Job]
  BY OwnJob, KindsKnown DEF ReopenFailed, At
<1>2. CASE Leave(w, "release")
  <2>1. "release" \in PcsOf[job[w].kind] /\ job[w].kind \notin Batches
    BY <1>1 DEF PcsOf, Batches, Phase
  <2> QED
    BY <1>1, <1>2, <2>1, LeaveMoves
<1>3. ASSUME NEW p \in Batches,
             job' = [job EXCEPT ![w].pc = "renew", ![w].then = "reopened", ![w].seen = p]
      PROVE  Moves(w)
  <2>1. job' = [job EXCEPT ![w].pc = "renew", ![w].then = "reopened", ![w].seen = p,
                           ![w].outcome = job[w].outcome]
    BY <1>1, <1>3 DEF Job
  <2>2. job[w].outcome \in RunStatuses \union BackupStatuses
    BY <1>1 DEF Job
  <2> QED
    BY <1>1, <2>1, <2>2, SeenMoves
<1>4. {"apply", "restore"} \subseteq Batches
  BY DEF Batches, Phase
<1> QED
  BY <1>2, <1>3, <1>4 DEF ReopenFailed

LEMMA ResumeMoves == ASSUME TypeInv, NEW w \in Workers, FinishResume(w) PROVE Moves(w)
<1>1. job[w].pc = "reopened" /\ Leave(w, "release")
  BY DEF FinishResume, Guarded, At
<1> QED
  BY <1>1, GuardedMoves

LEMMA WeighMoves == ASSUME TypeInv, NEW w \in Workers, WeighCancel(w) PROVE Moves(w)
<1>1. /\ job[w] \in Job /\ JobFits(job[w]) /\ job[w].pc = "weigh" /\ job[w].kind = "cancel"
      /\ job \in [Workers -> Job]
  BY OwnJob, KindsKnown DEF WeighCancel, At
<1>2. CASE Leave(w, "release")
  <2>1. "release" \in PcsOf[job[w].kind] /\ job[w].kind \notin Batches
    BY <1>1 DEF PcsOf, Batches, Phase
  <2> QED
    BY <1>1, <1>2, <2>1, LeaveMoves
<1>3. ASSUME NEW seen \in Admitted["cancel"],
             job' = [job EXCEPT ![w].pc = "renew", ![w].then = "cancelled", ![w].seen = seen]
      PROVE  Moves(w)
  <2>1. job' = [job EXCEPT ![w].pc = "renew", ![w].then = "cancelled", ![w].seen = seen,
                           ![w].outcome = job[w].outcome]
    BY <1>1, <1>3 DEF Job
  <2>2. job[w].outcome \in RunStatuses \union BackupStatuses
    BY <1>1 DEF Job
  <2>3. seen \in RunStatuses \union Batches
    BY DEF Admitted, RunStatuses, Calls
  <2> QED
    BY <1>1, <2>1, <2>2, <2>3, SeenMoves
<1> QED
  BY <1>2, <1>3 DEF WeighCancel

LEMMA CancelMoves == ASSUME TypeInv, NEW w \in Workers, FinishCancel(w) PROVE Moves(w)
<1>1. job[w].pc = "cancelled" /\ Leave(w, "release")
  BY DEF FinishCancel, Guarded, At
<1> QED
  BY <1>1, GuardedMoves

LEMMA CompareMoves == ASSUME TypeInv, NEW w \in Workers, CompareRecords(w) PROVE Moves(w)
<1>1. /\ job[w] \in Job /\ JobFits(job[w]) /\ job[w].pc = "compare" /\ job[w].kind = "verify"
      /\ job \in [Workers -> Job]
  BY OwnJob, KindsKnown DEF CompareRecords, At
<1>2. CASE Leave(w, "release")
  <2>1. "release" \in PcsOf[job[w].kind] /\ job[w].kind \notin Batches
    BY <1>1 DEF PcsOf, Batches, Phase
  <2> QED
    BY <1>1, <1>2, <2>1, LeaveMoves
<1>3. ASSUME NEW seen \in Admitted["verify"], NEW outcome \in Admitted["verify"],
             job' = [job EXCEPT ![w].pc = "renew", ![w].then = "verified", ![w].seen = seen,
                                ![w].outcome = outcome]
      PROVE  Moves(w)
  <2>1. seen \in RunStatuses \union Batches /\ outcome \in RunStatuses \union BackupStatuses
    BY DEF Admitted, RunStatuses, Calls
  <2> QED
    BY <1>1, <1>3, <2>1, SeenMoves
<1> DEFINE status == run[runOf(w)].status
           ok == ReportOK(runOf(w), status)
           restoring == status \in {"restored", "restored-with-conflicts"}
           next == IF ok /\ ~restoring THEN "verified"
                   ELSE IF ~ok /\ status = "verified"
                        THEN IF Statuses(runOf(w), {"conflict"}) # {}
                             THEN "applied-with-conflicts" ELSE "applied"
                   ELSE IF ~ok /\ restoring THEN "restored-with-conflicts"
                   ELSE status
<1>4. CASE /\ status \in Admitted["verify"]
           /\ job' = [job EXCEPT ![w].pc = "renew", ![w].then = "verified", ![w].seen = status,
                                 ![w].outcome = next]
  <2>1. next \in Admitted["verify"]
    BY <1>4 DEF Admitted
  <2> HIDE DEF status, next
  <2> QED
    BY <1>3, <1>4, <2>1
<1> QED
  BY <1>2, <1>4 DEF CompareRecords

LEMMA VerifyMoves == ASSUME TypeInv, NEW w \in Workers, FinishVerify(w) PROVE Moves(w)
<1>1. job[w].pc = "verified" /\ Leave(w, "release")
  BY DEF FinishVerify, Guarded, At
<1> QED
  BY <1>1, GuardedMoves

LEMMA FailsMoves == ASSUME TypeInv, NEW w \in Workers, Fails(w) PROVE Moves(w)
  BY CatchMoves DEF Fails, Recording

\* Every step of a call is a move of it.
LEMMA StepMoves == ASSUME TypeInv, NEW w \in Workers, Call(w) \/ Step(w) \/ Failure(w)
                   PROVE  Moves(w)
<1>1. CASE Call(w)
  BY <1>1, BeginMoves, CreateMoves, PauseMoves, RecoverMoves DEF Call
<1>2. CASE Batch(w)
  BY <1>2, EnterMoves, NextRecordMoves, ClaimMoves, ReadMoves, WriteMoves, RereadMoves,
     JournalRecordMoves, FinishMoves, CompleteMoves, StallMoves, ParkMoves, ParkedMoves
  DEF Batch
<1>3. CASE acquireLease(w) \/ stampLease(w) \/ Renew(w) \/ Release(w) \/ Abort(w)
  BY <1>3, AcquireMoves, StampMoves, RenewalMoves, ReleaseMoves, AbortMoves
<1>4. CASE \/ claimPauseLease(w) \/ stampPause(w) \/ finalizePauseWithLease(w)
           \/ clearExpiredLock(w) \/ sweepRuns(w)
  BY <1>4, ClaimPauseMoves, StampPauseMoves, FinalizeMoves, ClearMoves, ReturnMoves
  DEF sweepRuns
<1>5. CASE \/ FreezeSnapshot(w) \/ FinishPreview(w) \/ ReopenFailed(w) \/ FinishResume(w)
           \/ WeighCancel(w) \/ FinishCancel(w) \/ CompareRecords(w) \/ FinishVerify(w)
  BY <1>5, SnapshotMoves, PreviewMoves, ReopenMoves, ResumeMoves, WeighMoves, CancelMoves,
     CompareMoves, VerifyMoves
<1>6. CASE Failure(w)
  BY <1>6, ReadFailsMoves, WriteFailsMoves, ReturnMoves, FailsMoves DEF Failure, Crash
<1> QED
  BY <1>1, <1>2, <1>3, <1>4, <1>5, <1>6 DEF Step

------------------------------------------------------------------------------
(* Types. *)

LEMMA TakeKept == ASSUME lock \in Lock, NEW r \in Runs, NEW op \in Operations, TakeLease(r, op)
                  PROVE  lock' \in Lock
<1>1. lock.fence + 1 \in Nat
  BY DEF Lock
<1> QED
  BY <1>1 DEF TakeLease, Lock

LEMMA LockKept == ASSUME TypeInv, Next PROVE lock' \in Lock
<1>1. /\ lock \in Lock /\ \A w \in Workers : JobFits(job[w]) /\ job[w] \in Job
  BY DEF TypeInv, TypeOK, LeaseTypeOK, JobsFit
<1>2. ASSUME NEW w \in Workers, acquireLease(w) PROVE lock' \in Lock
  <2>1. runOf(w) \in Runs /\ job[w].kind \in Operations
    <3>1. job[w].pc = "acquire"
      BY <1>2 DEF acquireLease, At
    <3>2. job[w].kind \in Calls \union {"freeze"}
      BY <1>1, <3>1, KindsKnown
    <3> QED
      BY <1>1, <3>1, <3>2 DEF JobFits, runOf, Operations, Calls, Admitted
  <2> QED
    BY <1>1, <1>2, <2>1, TakeKept DEF acquireLease
<1>3. ASSUME NEW w \in Workers, claimPauseLease(w) PROVE lock' \in Lock
  <2>1. runOf(w) \in Runs /\ job[w].phase \in Operations
    <3>1. job[w].pc = "claimPause"
      BY <1>3 DEF claimPauseLease, At
    <3>2. job[w].phase \in Batches
      BY <1>1, <3>1, KindsKnown
    <3> QED
      BY <1>1, <3>1, <3>2 DEF JobFits, runOf, Operations, Batches, Phase
  <2> QED
    BY <1>1, <1>3, <2>1, TakeKept DEF claimPauseLease
<1>4. ASSUME NEW w \in Workers, Release(w) \/ parkLease(w) \/ clearExpiredLock(w)
      PROVE  lock' \in Lock
  BY ZenonT(60), <1>1, <1>4 DEF Release, releaseLease, parkLease, ParkLease, clearExpiredLock, ClearExpired,
                    Lock
<1>5. ASSUME NEW w \in Workers, Call(w) \/ Failure(w) PROVE lock' \in Lock
  BY <1>1, <1>5 DEF Call, Failure, createPreviewRun, pause, Begin, recoverStaleRuns, ReadFails,
                    WriteFails, Crash, Fails
<1>6. ASSUME NEW w \in Workers,
             \/ stampLease(w) \/ Renew(w) \/ Abort(w) \/ stampPause(w)
             \/ finalizePauseWithLease(w) \/ sweepRuns(w)
             \/ FreezeSnapshot(w) \/ FinishPreview(w) \/ ReopenFailed(w) \/ FinishResume(w)
             \/ WeighCancel(w) \/ FinishCancel(w) \/ CompareRecords(w) \/ FinishVerify(w)
      PROVE  UNCHANGED lock
  BY ZenonT(60), <1>6 DEF stampLease, Renew, Abort, stampPause, finalizePauseWithLease, sweepRuns,
     FreezeSnapshot, FinishPreview, ReopenFailed, FinishResume, WeighCancel, FinishCancel,
     CompareRecords, FinishVerify
<1>7. ASSUME NEW w \in Workers,
             \/ EnterBatch(w) \/ NextRecord(w) \/ ClaimRecord(w) \/ ReadRecord(w)
             \/ WriteRecord(w) \/ RereadRecord(w) \/ JournalRecord(w) \/ FinishBatch(w)
             \/ CompletePhase(w) \/ StallPhase(w) \/ CheckParked(w)
      PROVE  UNCHANGED lock
  BY <1>7 DEF EnterBatch, NextRecord, ClaimRecord, ReadRecord, WriteRecord, RereadRecord,
     JournalRecord, FinishBatch, CompletePhase, StallPhase, CheckParked
<1>8. ASSUME NEW u \in Writers, Writer(u) PROVE lock' \in Lock
  <2>1. CASE AcquireWriterLease(u)
    <3>1. lock.writers \union {u} \in SUBSET Writers /\ lock.fence + 1 \in Nat
      BY <1>1 DEF Lock
    <3> QED
      BY <1>1, <2>1, <3>1 DEF AcquireWriterLease, Lock
  <2>2. CASE ReleaseWriterLease(u)
    BY <1>1, <2>2 DEF ReleaseWriterLease, Lock
  <2>3. CASE UNCHANGED lock
    BY <1>1, <2>3
  <2> QED
    BY <1>8, <2>1, <2>2, <2>3 DEF Writer, StartEdit, RenewEdit, ReleaseEdit,
       editOwnedTimecardTask, updateTimeCard, deleteOwnedTimeCard, SaveEdit
<1>9. CASE Expire
  BY <1>1, <1>9 DEF Expire, ExpireLease, ExpireWriter, Lock
<1> QED
  BY <1>1, <1>2, <1>3, <1>4, <1>5, <1>6, <1>7, <1>8, <1>9
  DEF Next, Step, Batch, prepareBackup, LandLate

LEMMA EditKept == ASSUME TypeInv, Next PROVE edit' \in [Writers -> Edit]
<1>1. edit \in [Writers -> Edit] /\ entry \in [Timecards -> Entry]
  BY DEF TypeInv, TypeOK
<1>2. ASSUME NEW u \in Writers, Writer(u) PROVE edit' \in [Writers -> Edit]
  <2>1. CASE \E t \in Timecards : StartEdit(u, t)
    BY <1>1, <2>1 DEF StartEdit, Edit, Entry
  <2>2. CASE RenewEdit(u)
    BY <1>1, <2>2 DEF RenewEdit, Edit
  <2>3. CASE ReleaseEdit(u)
    BY <1>1, <2>3 DEF ReleaseEdit, NoEdit, Edit
  <2>4. ASSUME NEW v, SaveEdit(u, v) PROVE edit' \in [Writers -> Edit]
    BY ZenonT(60), <1>1, <2>4 DEF SaveEdit, Edit
  <2> QED
    BY <1>2, <2>1, <2>2, <2>3, <2>4 DEF Writer, editOwnedTimecardTask, updateTimeCard,
       deleteOwnedTimeCard
<1>3. ASSUME NEW w \in Workers, Call(w) \/ Failure(w) PROVE UNCHANGED edit
  BY <1>3 DEF Call, Failure, createPreviewRun, pause, Begin, recoverStaleRuns, ReadFails,
              WriteFails, Crash, Fails, others
<1>4. ASSUME NEW w \in Workers, Step(w) PROVE UNCHANGED edit
  BY <1>4 DEF Step, Batch, acquireLease, stampLease, Renew, Release, Abort, claimPauseLease,
     stampPause, finalizePauseWithLease, clearExpiredLock, sweepRuns,
     FreezeSnapshot, FinishPreview, ReopenFailed, FinishResume, WeighCancel, FinishCancel,
     CompareRecords, FinishVerify, EnterBatch, NextRecord, ClaimRecord, ReadRecord, WriteRecord,
     RereadRecord, JournalRecord, FinishBatch, CompletePhase, StallPhase, parkLease, CheckParked,
     others
<1> QED
  BY <1>1, <1>2, <1>3, <1>4 DEF Next, prepareBackup, LandLate, Expire, others

LEMMA ConvertKept ==
    ASSUME TypeInv, NEW r \in Runs, NEW t \in Timecards, t \in Frozen(r), NEW p \in Batches,
           Convert(r, t, p)
    PROVE  entry' \in [Timecards -> Entry]
<1>1. /\ entry \in [Timecards -> Entry] /\ backup[r][t].revision \in Nat
  BY DEF TypeInv, TypeOK, BackupsFit
<1>2. After(r, t, p)[1] \in {"legacy", "canonical"} /\ After(r, t, p)[2] \in Nat
  BY <1>1 DEF After
<1> DEFINE by == IF p = "apply" THEN r ELSE None
           new == [value |-> After(r, t, p)[1], revision |-> After(r, t, p)[2], by |-> by]
<1>3. new \in Entry
  BY <1>2 DEF Entry
<1>4. entry' = [entry EXCEPT ![t] = new]
  BY DEF Convert
<1> QED
  BY <1>1, <1>3, <1>4

\* An update of the dates of an entry, and the one that a call is about to send.
Order(r, t, p) == [run |-> r, card |-> t, phase |-> p]
Sent(w) == [run |-> runOf(w), card |-> job[w].card, phase |-> job[w].phase]

\* An update that may take effect now: it is at its write, or late.
Landing(r, t, p) == \/ Order(r, t, p) \in late
                    \/ \E w \in Workers : At(w, "write") /\ Sent(w) = Order(r, t, p)

\* What the steps do that change an entry.
LEMMA EntrySteps ==
    ASSUME TypeInv, Next
    PROVE  \/ UNCHANGED entry
           \/ \E r \in Runs, t \in Timecards, p \in Batches :
                  t \in Frozen(r) /\ Convert(r, t, p) /\ Landing(r, t, p)
           \/ \E u \in Writers, v \in {"legacy", "canonical", "edited", "absent"} :
                  SaveEdit(u, v) /\ edit[u].card \in Timecards
<1>1. ASSUME NEW w \in Workers, Call(w) PROVE UNCHANGED entry
  BY <1>1 DEF Call, createPreviewRun, pause, Begin, recoverStaleRuns, data
<1>2. ASSUME NEW w \in Workers, WriteRecord(w) \/ WriteFails(w)
      PROVE  \/ UNCHANGED entry
             \/ \E r \in Runs, t \in Timecards, p \in Batches :
                  t \in Frozen(r) /\ Convert(r, t, p) /\ Landing(r, t, p)
  <2>1. /\ JobFits(job[w]) /\ job[w] \in Job /\ job[w].pc = "write" /\ Handling(job[w])
        /\ CardsFit(job[w])
    BY <1>2, OwnJob DEF WriteRecord, WriteFails, At, Handling, AboutTo
  <2>2. job[w].kind \in Batches /\ job[w].phase \in Batches
    BY <2>1, KindsKnown
  <2>3. runOf(w) \in Runs /\ job[w].card \in Timecards /\ job[w].card \in Frozen(runOf(w))
    BY <2>1 DEF JobFits, CardsFit, runOf
  <2>4. Landing(runOf(w), job[w].card, job[w].phase)
    BY SMTT(40), <2>1 DEF Landing, Sent, Order, At
  <2> QED
    BY <1>2, <2>2, <2>3, <2>4 DEF WriteRecord, WriteFails
<1>3. ASSUME NEW w \in Workers, Step(w), ~WriteRecord(w) PROVE UNCHANGED entry
  BY <1>3 DEF Step, Batch, acquireLease, stampLease, Renew, Release, Abort, claimPauseLease,
     stampPause, finalizePauseWithLease, clearExpiredLock, sweepRuns,
     FreezeSnapshot, FinishPreview, ReopenFailed, FinishResume, WeighCancel, FinishCancel,
     CompareRecords, FinishVerify, EnterBatch, NextRecord, ClaimRecord, ReadRecord,
     RereadRecord, JournalRecord, FinishBatch, CompletePhase, StallPhase, parkLease, CheckParked,
     data
<1>4. ASSUME NEW w \in Workers, Failure(w), ~WriteFails(w) PROVE UNCHANGED entry
  BY <1>4 DEF Failure, ReadFails, Crash, Fails, data
<1>5. ASSUME NEW l \in late, LandLate(l)
      PROVE  \/ UNCHANGED entry
             \/ \E r \in Runs, t \in Timecards, p \in Batches :
                  t \in Frozen(r) /\ Convert(r, t, p) /\ Landing(r, t, p)
  <2>1. l.run \in Runs /\ l.card \in Timecards /\ l.phase \in Batches /\ l.card \in Frozen(l.run)
    BY DEF TypeInv, TypeOK, CardsFrozen
  <2>2. Landing(l.run, l.card, l.phase)
    BY DEF TypeInv, TypeOK, Landing, Order
  <2> QED
    BY <1>5, <2>1, <2>2 DEF LandLate
<1>6. ASSUME NEW u \in Writers, Writer(u)
      PROVE  \/ UNCHANGED entry
             \/ \E v \in {"legacy", "canonical", "edited", "absent"} :
                    SaveEdit(u, v) /\ edit[u].card \in Timecards
  <2>1. ASSUME NEW v \in {"legacy", "canonical", "edited", "absent"}, SaveEdit(u, v)
        PROVE  UNCHANGED entry \/ edit[u].card \in Timecards
    <3>1. entry \in [Timecards -> Entry]
      BY DEF TypeInv, TypeOK
    <3> QED
      BY <2>1, <3>1 DEF SaveEdit
  <2>2. editOwnedTimecardTask(u) /\ edit[u].card \in Timecards
            => SaveEdit(u, entry[edit[u].card].value)
               /\ entry[edit[u].card].value \in {"legacy", "canonical", "edited", "absent"}
    BY DEF editOwnedTimecardTask, TypeInv, TypeOK, Entry
  <2>3. editOwnedTimecardTask(u) /\ edit[u].card \notin Timecards => UNCHANGED entry
    <3>1. entry \in [Timecards -> Entry]
      BY DEF TypeInv, TypeOK
    <3> QED
      BY <3>1 DEF editOwnedTimecardTask, SaveEdit
  <2>4. updateTimeCard(u) => \E v \in {"canonical", "edited"} : SaveEdit(u, v)
    BY DateMigrationAssumption DEF updateTimeCard
  <2>5. CASE (\E t \in Timecards : StartEdit(u, t)) \/ RenewEdit(u) \/ ReleaseEdit(u)
    BY <2>5 DEF StartEdit, RenewEdit, ReleaseEdit, data
  <2> QED
    BY <1>6, <2>1, <2>2, <2>3, <2>4, <2>5 DEF Writer, deleteOwnedTimeCard
<1>7. CASE Expire \/ \E r \in Runs : prepareBackup(r)
  BY <1>7 DEF Expire, prepareBackup, data
<1> QED
  BY SMTT(40), <1>1, <1>2, <1>3, <1>4, <1>5, <1>6, <1>7 DEF Next

LEMMA EntryKept == ASSUME TypeInv, Next PROVE entry' \in [Timecards -> Entry]
<1>1. entry \in [Timecards -> Entry]
  BY DEF TypeInv, TypeOK
<1>2. ASSUME NEW u \in Writers, NEW v \in {"legacy", "canonical", "edited", "absent"},
             SaveEdit(u, v), edit[u].card \in Timecards
      PROVE  entry' \in [Timecards -> Entry]
  <2> DEFINE t == edit[u].card
             new == [value |-> v, revision |-> entry[t].revision + 1, by |-> None]
  <2>1. new \in Entry
    BY <1>1, <1>2 DEF Entry
  <2>2. UNCHANGED entry \/ entry' = [entry EXCEPT ![t] = new]
    BY <1>1, <1>2 DEF SaveEdit
  <2> QED
    BY <1>1, <1>2, <2>1, <2>2
<1> QED
  BY <1>1, <1>2, ConvertKept, EntrySteps

\* What a change of the backups has to keep.
BackupsGrow == /\ backup' \in [Runs -> [Timecards -> Backup]]
               /\ BackupsFit'
               /\ \A r \in Runs : Frozen(r) \subseteq Frozen(r)'

LEMMA SnapshotGrows == ASSUME TypeInv, NEW w \in Workers, FreezeSnapshot(w) PROVE BackupsGrow
<1>1. /\ backup \in [Runs -> [Timecards -> Backup]] /\ BackupsFit
      /\ entry \in [Timecards -> Entry]
  BY DEF TypeInv, TypeOK
<1> DEFINE new(t) == IF entry[t].value = "legacy"
                     THEN [status |-> "pending", revision |-> entry[t].revision, fence |-> 0]
                     ELSE backup[runOf(w)][t]
<1>2. backup' = [backup EXCEPT ![runOf(w)] = [t \in Timecards |-> new(t)]]
  BY <1>1 DEF FreezeSnapshot
<1>3. runOf(w) \in Runs
  BY OwnJob DEF FreezeSnapshot, At, JobFits, runOf
<1>4. ASSUME NEW t \in Timecards
      PROVE  /\ new(t) \in Backup
             /\ \/ new(t).status # "none" /\ new(t).revision \in Nat
                \/ new(t) = backup[runOf(w)][t]
  BY <1>1, <1>3 DEF Backup, BackupStatuses, Entry
<1> HIDE DEF new
<1>5. backup' \in [Runs -> [Timecards -> Backup]]
  BY <1>1, <1>2, <1>3, <1>4
<1>6. \A r \in Runs, t \in Timecards :
          backup'[r][t] = IF r = runOf(w) THEN new(t) ELSE backup[r][t]
  BY <1>1, <1>2, <1>3
<1>7. BackupsFit'
  BY <1>1, <1>3, <1>4, <1>6 DEF BackupsFit, Frozen
<1>8. \A r \in Runs : Frozen(r) \subseteq Frozen(r)'
  BY <1>3, <1>4, <1>6 DEF Frozen
<1> QED
  BY <1>5, <1>7, <1>8 DEF BackupsGrow

\* One record gets another status, and perhaps a fence.
LEMMA RecordGrows ==
    ASSUME TypeInv, NEW r \in Runs, NEW t \in Timecards, t \in Frozen(r),
           NEW status \in BackupStatuses \ {"none"}, NEW fence \in Nat,
           backup' = [backup EXCEPT ![r][t].status = status, ![r][t].fence = fence]
    PROVE  BackupsGrow
<1>1. backup \in [Runs -> [Timecards -> Backup]] /\ BackupsFit
  BY DEF TypeInv, TypeOK
<1> DEFINE new == [backup[r][t] EXCEPT !.status = status, !.fence = fence]
<1>2. new \in Backup /\ new.status # "none" /\ new.revision = backup[r][t].revision
  <2>1. backup[r][t] \in Backup
    BY <1>1
  <2> QED
    BY <2>1 DEF Backup
<1>3. backup' = [backup EXCEPT ![r] = [@ EXCEPT ![t] = new]]
  BY <1>1
<1> HIDE DEF new
<1>4. backup' \in [Runs -> [Timecards -> Backup]]
  BY <1>1, <1>2, <1>3
<1>5. \A q \in Runs, c \in Timecards :
          backup'[q][c] = IF q = r /\ c = t THEN new ELSE backup[q][c]
  BY <1>1, <1>3
<1>6. BackupsFit'
  BY <1>1, <1>2, <1>5 DEF BackupsFit, Frozen
<1>7. \A q \in Runs : Frozen(q) \subseteq Frozen(q)'
  <2>1. \A q \in Runs, c \in Timecards :
            backup[q][c].status # "none" => backup'[q][c].status # "none"
    <3> TAKE q \in Runs, c \in Timecards
    <3>1. CASE q = r /\ c = t
      BY ZenonT(60), <1>2, <1>5, <3>1
    <3>2. CASE ~(q = r /\ c = t)
      BY <1>5, <3>2
    <3> QED
      BY <3>1, <3>2
  <2> QED
    BY <2>1 DEF Frozen
<1> QED
  BY <1>4, <1>6, <1>7 DEF BackupsGrow

LEMMA ReopenGrows == ASSUME TypeInv, NEW w \in Workers, ReopenFailed(w) PROVE BackupsGrow
<1>1. backup \in [Runs -> [Timecards -> Backup]] /\ BackupsFit
  BY SMTT(40) DEF TypeInv, TypeOK
<1>2. runOf(w) \in Runs
  BY OwnJob DEF ReopenFailed, At, JobFits, runOf
<1>3. CASE UNCHANGED backup
  BY <1>1, <1>3 DEF BackupsGrow, BackupsFit, Frozen
<1>4. ASSUME NEW p \in Batches,
             backup' = [backup EXCEPT ![runOf(w)] = [t \in Timecards |->
                  IF @[t].status = Phase[p].failed
                  THEN [@[t] EXCEPT !.status = Phase[p].open] ELSE @[t]]]
      PROVE  BackupsGrow
  <2> DEFINE new(t) == IF backup[runOf(w)][t].status = Phase[p].failed
                       THEN [backup[runOf(w)][t] EXCEPT !.status = Phase[p].open]
                       ELSE backup[runOf(w)][t]
  <2>1. backup' = [backup EXCEPT ![runOf(w)] = [t \in Timecards |-> new(t)]]
    BY <1>1, <1>4
  <2>2. Phase[p].open \in BackupStatuses \ {"none"} /\ Phase[p].failed # "none"
    BY DEF Batches, Phase, BackupStatuses, Applied
  <2>3. ASSUME NEW t \in Timecards
        PROVE  /\ new(t) \in Backup /\ new(t).revision = backup[runOf(w)][t].revision
               /\ \/ new(t).status # "none" /\ backup[runOf(w)][t].status # "none"
                  \/ new(t) = backup[runOf(w)][t]
    <3>1. backup[runOf(w)][t] \in Backup
      BY <1>1, <1>2
    <3> QED
      BY <2>2, <3>1 DEF Backup
  <2> HIDE DEF new
  <2>4. backup' \in [Runs -> [Timecards -> Backup]]
    BY <1>1, <1>2, <2>1, <2>3
  <2>5. \A r \in Runs, t \in Timecards :
            backup'[r][t] = IF r = runOf(w) THEN new(t) ELSE backup[r][t]
    BY <1>1, <1>2, <2>1
  <2>6. BackupsFit'
    BY <1>1, <1>2, <2>3, <2>5 DEF BackupsFit, Frozen
  <2>7. \A r \in Runs : Frozen(r) \subseteq Frozen(r)'
    BY <1>2, <2>3, <2>5 DEF Frozen
  <2> QED
    BY <2>4, <2>6, <2>7 DEF BackupsGrow
<1>5. {"apply", "restore"} \subseteq Batches
  BY DEF Batches, Phase
<1> QED
  BY <1>3, <1>4, <1>5 DEF ReopenFailed

LEMMA JournalGrows == ASSUME TypeInv, NEW w \in Workers, JournalRecord(w) PROVE BackupsGrow
<1>1. backup \in [Runs -> [Timecards -> Backup]] /\ BackupsFit
  BY DEF TypeInv, TypeOK
<1>2. /\ JobFits(job[w]) /\ job[w] \in Job /\ CardsFit(job[w])
      /\ job[w].pc = "journal" /\ Handling(job[w])
  BY OwnJob DEF JournalRecord, At, Handling
<1>3. /\ runOf(w) \in Runs /\ job[w].card \in Timecards /\ job[w].card \in Frozen(runOf(w))
      /\ job[w].phase \in Batches
  BY SMTT(40), <1>2, KindsKnown DEF JobFits, CardsFit, runOf
<1>4. CASE UNCHANGED backup
  BY <1>1, <1>4 DEF BackupsGrow, BackupsFit, Frozen
<1>5. CASE backup' = [backup EXCEPT ![runOf(w)][job[w].card] =
                         [@ EXCEPT !.status = job[w].outcome, !.fence = 0]]
  <2>1. job[w].outcome \in BackupStatuses \ {"none"}
    BY <1>2, <1>3 DEF JobFits, Batches, Phase, BackupStatuses, Applied
  <2>2. backup' = [backup EXCEPT ![runOf(w)][job[w].card].status = job[w].outcome,
                                 ![runOf(w)][job[w].card].fence = 0]
    BY <1>1, <1>3, <1>5 DEF Backup
  <2> QED
    BY <1>3, <2>1, <2>2, RecordGrows
<1>6. \/ backup' = [backup EXCEPT ![runOf(w)][job[w].card] = @]
      \/ backup' = [backup EXCEPT ![runOf(w)][job[w].card] =
                         [@ EXCEPT !.status = job[w].outcome, !.fence = 0]]
  BY DEF JournalRecord
<1>7. backup' = [backup EXCEPT ![runOf(w)][job[w].card] = @] => UNCHANGED backup
  BY <1>1, <1>3
<1> QED
  BY <1>4, <1>5, <1>6, <1>7

LEMMA ClaimGrows == ASSUME TypeInv, NEW w \in Workers, ClaimRecord(w) PROVE BackupsGrow
<1>1. backup \in [Runs -> [Timecards -> Backup]] /\ BackupsFit
  BY DEF TypeInv, TypeOK
<1>2. JobFits(job[w]) /\ job[w] \in Job /\ CardsFit(job[w]) /\ job[w].pc = "claim"
  BY OwnJob DEF ClaimRecord, At
<1>3. /\ runOf(w) \in Runs /\ job[w].kind \in Batches /\ job[w].phase \in Batches
      /\ job[w].fence \in Nat
  BY <1>2, KindsKnown DEF JobFits, Job, Recording, runOf
<1>4. CASE UNCHANGED backup
  BY <1>1, <1>4 DEF BackupsGrow, BackupsFit, Frozen
<1>5. ASSUME NEW t \in job[w].todo,
             backup' = [backup EXCEPT ![runOf(w)][t].status = phaseOf(w).intent,
                                      ![runOf(w)][t].fence = job[w].fence]
      PROVE  BackupsGrow
  <2>1. t \in Timecards /\ t \in Frozen(runOf(w))
    BY <1>2, <1>3 DEF Job, CardsFit, runOf
  <2>2. phaseOf(w).intent \in BackupStatuses \ {"none"}
    BY <1>3 DEF phaseOf, Batches, Phase, BackupStatuses, Applied
  <2> QED
    BY <1>3, <1>5, <2>1, <2>2, RecordGrows
<1> QED
  BY <1>4, <1>5 DEF ClaimRecord

\* No other step touches the backups.
LEMMA BackupSteps ==
    ASSUME Next
    PROVE  \/ UNCHANGED backup
           \/ \E w \in Workers : \/ FreezeSnapshot(w) \/ ReopenFailed(w) \/ JournalRecord(w)
                                 \/ ClaimRecord(w)
<1>1. ASSUME NEW w \in Workers, Call(w) \/ Failure(w) PROVE UNCHANGED backup
  BY ZenonT(60), <1>1 DEF Call, Failure, createPreviewRun, pause, Begin, recoverStaleRuns, ReadFails,
              WriteFails, Crash, Fails, data
<1>2. ASSUME NEW w \in Workers, Step(w), ~FreezeSnapshot(w), ~ReopenFailed(w),
             ~JournalRecord(w), ~ClaimRecord(w)
      PROVE  UNCHANGED backup
  BY <1>2 DEF Step, Batch, acquireLease, stampLease, Renew, Release, Abort, claimPauseLease,
     stampPause, finalizePauseWithLease, clearExpiredLock, sweepRuns,
     FinishPreview, FinishResume, WeighCancel, FinishCancel, CompareRecords, FinishVerify,
     EnterBatch, NextRecord, ReadRecord, WriteRecord, RereadRecord, FinishBatch, CompletePhase,
     StallPhase, parkLease, CheckParked, data
<1>3. ASSUME NEW u \in Writers, Writer(u) PROVE UNCHANGED backup
  BY <1>3 DEF Writer, StartEdit, RenewEdit, ReleaseEdit, editOwnedTimecardTask, updateTimeCard,
     deleteOwnedTimeCard, SaveEdit, data
<1>4. CASE Expire \/ (\E r \in Runs : prepareBackup(r)) \/ (\E l \in late : LandLate(l))
  BY <1>4 DEF Expire, prepareBackup, LandLate, data
<1> QED
  BY <1>1, <1>2, <1>3, <1>4 DEF Next

LEMMA BackupsKept == ASSUME TypeInv, Next PROVE BackupsGrow
<1>1. CASE UNCHANGED backup
  BY <1>1 DEF BackupsGrow, BackupsFit, Frozen, TypeInv, TypeOK
<1> QED
  BY <1>1, BackupSteps, SnapshotGrows, ReopenGrows, JournalGrows, ClaimGrows

Sends == [run: Runs, card: Timecards, phase: Batches]

\* A write is late only if a call was about to send it.
LEMMA LateSteps ==
    ASSUME Next
    PROVE  \/ late' \subseteq late
           \/ \E w \in Workers : /\ WriteFails(w) \/ Crash(w)
                                 /\ At(w, "write") /\ late' = late \union {Sent(w)}
<1>1. ASSUME NEW w \in Workers, Call(w) PROVE UNCHANGED late
  BY ZenonT(60), <1>1 DEF Call, createPreviewRun, pause, Begin, recoverStaleRuns, data
<1>2. ASSUME NEW w \in Workers, Step(w) PROVE UNCHANGED late
  BY <1>2 DEF Step, Batch, acquireLease, stampLease, Renew, Release, Abort, claimPauseLease,
     stampPause, finalizePauseWithLease, clearExpiredLock, sweepRuns, FreezeSnapshot,
     FinishPreview, ReopenFailed, FinishResume, WeighCancel, FinishCancel, CompareRecords,
     FinishVerify, EnterBatch, NextRecord, ClaimRecord, ReadRecord, WriteRecord, RereadRecord,
     JournalRecord, FinishBatch, CompletePhase, StallPhase, parkLease, CheckParked, data
<1>3. ASSUME NEW w \in Workers, Failure(w)
      PROVE  \/ late' \subseteq late
             \/ /\ WriteFails(w) \/ Crash(w)
                /\ At(w, "write") /\ late' = late \union {Sent(w)}
  BY SMTT(40), <1>3 DEF Failure, ReadFails, WriteFails, Crash, Fails, data, Sent
<1>4. ASSUME NEW u \in Writers, Writer(u) PROVE UNCHANGED late
  BY <1>4 DEF Writer, StartEdit, RenewEdit, ReleaseEdit, editOwnedTimecardTask, updateTimeCard,
     deleteOwnedTimeCard, SaveEdit, data
<1>5. CASE Expire \/ (\E r \in Runs : prepareBackup(r)) \/ (\E l \in late : LandLate(l))
  BY <1>5 DEF Expire, prepareBackup, LandLate, data
<1> QED
  BY <1>1, <1>2, <1>3, <1>4, <1>5 DEF Next

\* A call at its write is about a record that its run has frozen.
LEMMA SendFits == ASSUME TypeInv, NEW w \in Workers, Handling(job[w])
                  PROVE  /\ runOf(w) \in Runs /\ job[w].card \in Frozen(runOf(w))
                         /\ job[w].card \in Timecards /\ job[w].phase \in Batches
                         /\ job[w].kind \in Batches /\ job[w].phase = job[w].kind
                         /\ Sent(w) \in Sends
<1>1. JobFits(job[w]) /\ job[w] \in Job /\ CardsFit(job[w])
  BY OwnJob
<1>2. job[w].kind \in Batches /\ job[w].phase \in Batches
  BY <1>1, KindsKnown
<1>3. job[w].pc \notin {"idle", "clear", "sweep"}
  BY DEF Handling, AboutTo
<1> QED
  BY <1>1, <1>2, <1>3 DEF JobFits, CardsFit, runOf, Sent, Sends

LEMMA LateKept == ASSUME TypeInv, Next
                  PROVE  late' \subseteq Sends /\ \A l \in late' : l.card \in Frozen(l.run)
<1>1. late \subseteq Sends /\ \A l \in late : l.card \in Frozen(l.run)
  BY DEF TypeInv, TypeOK, CardsFrozen, Sends
<1>2. ASSUME NEW w \in Workers, At(w, "write")
      PROVE  Sent(w) \in Sends /\ Sent(w).card \in Frozen(Sent(w).run)
  <2>1. Handling(job[w])
    BY <1>2 DEF At, Handling, AboutTo
  <2> QED
    BY <2>1, SendFits DEF Sent
<1> QED
  BY <1>1, <1>2, LateSteps

\* The updates of a run's document.
LEMMA StatusKept == ASSUME run \in [Runs -> Run], NEW r \in Runs, NEW s \in RunStatuses
                    PROVE  [run EXCEPT ![r].status = s] \in [Runs -> Run]
  BY DEF Run

LEMMA RequestKept == ASSUME run \in [Runs -> Run], NEW r \in Runs, NEW b \in BOOLEAN
                     PROVE  [run EXCEPT ![r].pauseRequested = b] \in [Runs -> Run]
  BY DEF Run

LEMMA FenceKept == ASSUME run \in [Runs -> Run], NEW r \in Runs, NEW f \in Nat
                   PROVE  [run EXCEPT ![r].leaseFence = f] \in [Runs -> Run]
  BY DEF Run

LEMMA EndKept ==
    ASSUME run \in [Runs -> Run], NEW r \in Runs, NEW s \in RunStatuses
    PROVE  [run EXCEPT ![r].status = s, ![r].pausedPhase = "none", ![r].pauseRequested = FALSE]
               \in [Runs -> Run]
  BY DEF Run

LEMMA PauseKept == ASSUME TypeInv, NEW w \in Workers, runOf(w) \in Runs, job[w].phase \in Batches,
                          Pause(w) \/ FinalizePause(w)
                   PROVE  run' \in [Runs -> Run]
<1>1. "paused" \in RunStatuses /\ run \in [Runs -> Run]
  BY DEF RunStatuses, TypeInv, TypeOK
<1>2. CASE Pause(w)
  BY <1>1, <1>2 DEF Pause, Run
<1>3. CASE FinalizePause(w)
  BY ZenonT(60), <1>1, <1>3 DEF FinalizePause, Run
<1> QED
  BY <1>2, <1>3

LEMMA RunKept == ASSUME TypeInv, Next PROVE run' \in [Runs -> Run]
<1>1. /\ run \in [Runs -> Run]
      /\ \A w \in Workers : JobFits(job[w]) /\ job[w] \in Job
  BY DEF TypeInv, TypeOK, JobsFit
<1>2. /\ {"freezing", "failed", "preview", "paused", "applying", "restoring", "cancelled", "ready"}
             \subseteq RunStatuses
      /\ \A p \in Batches : {Phase[p].active, Phase[p].complete, Phase[p].incomplete,
                             Phase[p].resumed} \subseteq RunStatuses
      /\ Admitted["verify"] \subseteq RunStatuses
  BY DEF RunStatuses, Batches, Phase, Calls, Admitted
<1>3. \A w \in Workers :
          /\ job[w].pc \notin {"idle", "clear", "sweep"} => runOf(w) \in Runs
          /\ job[w].pc \in Recording \union {"claimPause", "stampPause", "finalizePause"}
                => job[w].phase \in Batches
          /\ job[w].fence \in Nat
  BY SMTT(40), <1>1, KindsKnown DEF JobFits, runOf, Recording, Job
<1>4. ASSUME NEW w \in Workers, Call(w) PROVE run' \in [Runs -> Run]
  <2>1. \/ UNCHANGED run
        \/ \E r \in Runs : \/ run' = [run EXCEPT ![r].status = "freezing"]
                          \/ run' = [run EXCEPT ![r].pauseRequested = TRUE]
    BY <1>4 DEF Call, createPreviewRun, pause, Begin, recoverStaleRuns
  <2>2. run \in [Runs -> Run] /\ "freezing" \in RunStatuses
    BY <1>1, <1>2
  <2>3. \A r \in Runs : [run EXCEPT ![r].status = "freezing"] \in [Runs -> Run]
    BY <2>2, StatusKept
  <2>4. \A r \in Runs : [run EXCEPT ![r].pauseRequested = TRUE] \in [Runs -> Run]
    BY <2>2, RequestKept
  <2> QED
    BY SMTT(40), <2>1, <2>2, <2>3, <2>4
<1>5. ASSUME NEW w \in Workers, Failure(w) PROVE UNCHANGED run
  BY SMTT(40), <1>5 DEF Failure, ReadFails, WriteFails, Crash, Fails
<1>6. ASSUME NEW w \in Workers,
             \/ Renew(w) \/ Release(w) \/ claimPauseLease(w) \/ clearExpiredLock(w)
             \/ FreezeSnapshot(w) \/ ReopenFailed(w) \/ WeighCancel(w) \/ CompareRecords(w)
             \/ ClaimRecord(w) \/ ReadRecord(w) \/ WriteRecord(w) \/ RereadRecord(w)
             \/ JournalRecord(w) \/ FinishBatch(w) \/ parkLease(w) \/ CheckParked(w)
      PROVE  UNCHANGED run
  BY <1>6 DEF Renew, Release, claimPauseLease, clearExpiredLock, FreezeSnapshot, ReopenFailed,
     WeighCancel, CompareRecords, ClaimRecord, ReadRecord, WriteRecord, RereadRecord,
     JournalRecord, FinishBatch, parkLease, CheckParked
<1>7. ASSUME NEW w \in Workers, acquireLease(w) \/ stampLease(w) PROVE run' \in [Runs -> Run]
  <2>1. runOf(w) \in Runs
    BY <1>3, <1>7 DEF acquireLease, stampLease, At
  <2> QED
    <3>1. \/ UNCHANGED run
          \/ run' = [run EXCEPT ![runOf(w)].status = "failed"]
          \/ run' = [run EXCEPT ![runOf(w)].leaseFence = job[w].fence]
      BY <1>7 DEF acquireLease, stampLease
    <3>2. "failed" \in RunStatuses /\ job[w].fence \in Nat
      BY <1>2, <1>3
    <3> QED
      BY <1>1, <2>1, <3>1, <3>2, StatusKept, FenceKept
<1>8. ASSUME NEW w \in Workers, stampPause(w) \/ finalizePauseWithLease(w)
      PROVE  run' \in [Runs -> Run]
  <2>1. runOf(w) \in Runs /\ job[w].phase \in Batches
    BY <1>3, <1>8 DEF stampPause, finalizePauseWithLease, At
  <2> QED
    <3>1. \/ UNCHANGED run
          \/ FinalizePause(w)
          \/ run' = [run EXCEPT ![runOf(w)].leaseFence = job[w].fence]
      BY <1>8 DEF stampPause, finalizePauseWithLease
    <3>2. job[w].fence \in Nat
      BY <1>3
    <3> QED
      BY <1>1, <2>1, <3>1, <3>2, FenceKept, PauseKept
<1>9. ASSUME NEW w \in Workers, sweepRuns(w) PROVE run' \in [Runs -> Run]
  <2>1. {"apply", "restore"} \subseteq Batches
    BY DEF Batches, Phase
  <2>2. \A r \in Runs : \/ run'[r] = run[r]
                        \/ \E p \in {"apply", "restore"} :
                              run'[r] = [run[r] EXCEPT !.status = "paused", !.pausedPhase = p]
                        \/ run'[r] = [run[r] EXCEPT !.status = "failed"]
    BY <1>9 DEF sweepRuns
  <2>3. ASSUME NEW r \in Runs PROVE run'[r] \in Run
    <3>1. run[r] \in Run /\ "paused" \in RunStatuses /\ "failed" \in RunStatuses
      BY <1>1, <1>2
    <3>2. \A p \in {"apply", "restore"} :
              [run[r] EXCEPT !.status = "paused", !.pausedPhase = p] \in Run
      BY <2>1, <3>1 DEF Run
    <3>3. [run[r] EXCEPT !.status = "failed"] \in Run
      BY <3>1 DEF Run
    <3> QED
      BY <2>2, <3>1, <3>2, <3>3
  <2>4. \E f : run' = [r \in Runs |-> f[r]]
    BY <1>9 DEF sweepRuns
  <2> QED
    BY <2>3, <2>4
<1>10. ASSUME NEW w \in Workers, EnterBatch(w) \/ NextRecord(w) \/ CompletePhase(w) \/ StallPhase(w)
       PROVE  run' \in [Runs -> Run]
  <2>1. runOf(w) \in Runs /\ job[w].phase \in Batches
    BY <1>3, <1>10 DEF EnterBatch, NextRecord, CompletePhase, StallPhase, At, Recording
  <2>2. CASE EnterBatch(w)
    <3>1. UNCHANGED run \/ run' = [run EXCEPT ![runOf(w)].status = Phase[job[w].phase].active]
      BY <2>2 DEF EnterBatch, SetStatus, phaseOf
    <3>2. Phase[job[w].phase].active \in RunStatuses
      BY <1>2, <2>1
    <3> QED
      BY <1>1, <2>1, <3>1, <3>2, StatusKept
  <2>3. CASE NextRecord(w)
    BY <1>1, <2>1, <2>3, PauseKept DEF NextRecord
  <2>4. CASE CompletePhase(w)
    <3>1. job[w].outcome \in RunStatuses
      BY <1>1, <1>2, <2>1, <2>4 DEF CompletePhase, At, JobFits, AboutTo
    <3>2. \/ UNCHANGED run
          \/ run' = [run EXCEPT ![runOf(w)].status = job[w].outcome,
                                ![runOf(w)].pausedPhase = "none",
                                ![runOf(w)].pauseRequested = FALSE]
      BY <2>4 DEF CompletePhase, Guarded
    <3>3. run \in [Runs -> Run]
      BY <1>1
    <3> DEFINE s == job[w].outcome
    <3>4. s \in RunStatuses
      BY SMTT(40), <3>1
    <3> HIDE DEF s
    <3>5. [run EXCEPT ![runOf(w)].status = s, ![runOf(w)].pausedPhase = "none",
                      ![runOf(w)].pauseRequested = FALSE] \in [Runs -> Run]
      BY <2>1, <3>3, <3>4, EndKept
    <3> QED
      BY <3>2, <3>3, <3>5 DEF s
  <2>5. CASE StallPhase(w)
    BY <1>1, <2>1, <2>5, PauseKept DEF StallPhase, Guarded
  <2> QED
    BY <1>10, <2>2, <2>3, <2>4, <2>5
<1>11. ASSUME NEW w \in Workers, Abort(w) PROVE run' \in [Runs -> Run]
  <2>1. /\ runOf(w) \in Runs
        /\ job[w].kind # "freeze" => job[w].phase \in Batches
    BY <1>1, <1>3, <1>11, KindsKnown DEF Abort, At
  <2>2. CASE job[w].kind = "freeze"
    <3> DEFINE s == IF Unchanged(w, {"freezing"}) THEN "failed" ELSE run[runOf(w)].status
    <3>1. run' = [run EXCEPT ![runOf(w)].status = s]
      BY <1>11, <2>2 DEF Abort
    <3>2. s \in RunStatuses
      BY <1>1, <1>2, <2>1 DEF Run
    <3> HIDE DEF s
    <3> QED
      BY <1>1, <2>1, <3>1, <3>2, StatusKept
  <2>3. CASE job[w].kind # "freeze"
    BY <1>1, <1>11, <2>1, <2>3, PauseKept DEF Abort
  <2> QED
    BY <2>2, <2>3
<1>12. ASSUME NEW w \in Workers,
              FinishPreview(w) \/ FinishResume(w) \/ FinishCancel(w) \/ FinishVerify(w)
       PROVE  run' \in [Runs -> Run]
  <2>1. runOf(w) \in Runs
    BY <1>3, <1>12 DEF FinishPreview, FinishResume, FinishCancel, FinishVerify, At
  <2>2. CASE FinishPreview(w) \/ FinishCancel(w)
    <3>1. \/ UNCHANGED run
          \/ run' = [run EXCEPT ![runOf(w)].status = "preview"]
          \/ run' = [run EXCEPT ![runOf(w)].status = "cancelled"]
      BY <2>2 DEF FinishPreview, FinishCancel, Guarded, SetStatus
    <3>2. "preview" \in RunStatuses /\ "cancelled" \in RunStatuses
      BY <1>2
    <3> QED
      BY <1>1, <2>1, <3>1, <3>2, StatusKept
  <2>3. CASE FinishVerify(w)
    <3>1. job[w].outcome \in RunStatuses
      BY <1>1, <1>2, <2>3 DEF FinishVerify, At, JobFits, AboutTo
    <3> QED
      <4>1. UNCHANGED run \/ run' = [run EXCEPT ![runOf(w)].status = job[w].outcome]
        BY <2>3 DEF FinishVerify, Guarded, SetStatus
      <4> QED
        BY <1>1, <2>1, <3>1, <4>1, StatusKept
  <2>4. CASE FinishResume(w)
    <3>1. Phase[job[w].seen].resumed \in RunStatuses
      BY <1>1, <1>2, <2>4 DEF FinishResume, At, JobFits, AboutTo
    <3>2. \/ UNCHANGED run
          \/ run' = [run EXCEPT ![runOf(w)].status = Phase[job[w].seen].resumed,
                                ![runOf(w)].pausedPhase = "none",
                                ![runOf(w)].pauseRequested = FALSE]
      BY <2>4 DEF FinishResume, Guarded
    <3>3. run \in [Runs -> Run]
      BY <1>1
    <3> DEFINE s == Phase[job[w].seen].resumed
    <3>4. s \in RunStatuses
      BY SMTT(40), <3>1
    <3> HIDE DEF s
    <3>5. [run EXCEPT ![runOf(w)].status = s, ![runOf(w)].pausedPhase = "none",
                      ![runOf(w)].pauseRequested = FALSE] \in [Runs -> Run]
      BY <2>1, <3>3, <3>4, EndKept
    <3> QED
      BY <3>2, <3>3, <3>5 DEF s
  <2> QED
    BY <1>12, <2>2, <2>3, <2>4
<1>13. ASSUME NEW r \in Runs, prepareBackup(r) PROVE run' \in [Runs -> Run]
  BY SMTT(40), <1>1, <1>2, <1>13, StatusKept DEF prepareBackup
<1>14. ASSUME NEW u \in Writers, Writer(u) PROVE UNCHANGED run
  BY <1>14 DEF Writer, StartEdit, RenewEdit, ReleaseEdit, editOwnedTimecardTask, updateTimeCard,
     deleteOwnedTimeCard, SaveEdit
<1> QED
  BY <1>1, <1>4, <1>5, <1>6, <1>7, <1>8, <1>9, <1>10, <1>11, <1>12, <1>13, <1>14
  DEF Next, Step, Batch, Expire, LandLate

\* The bounds of a behaviour are kept.
LEMMA BudgetKept ==
    ASSUME TypeInv, Next
    PROVE  budget' \in [legacy: SUBSET Timecards, faults: Nat, edits: Nat, fence: Nat,
                        faulted: Nat, edited: Nat]
<1>1. budget \in [legacy: SUBSET Timecards, faults: Nat, edits: Nat, fence: Nat,
                  faulted: Nat, edited: Nat]
  BY DEF TypeInv, TypeOK
<1>2. ASSUME NEW w \in Workers, Call(w) PROVE UNCHANGED budget
  BY ZenonT(60), <1>2 DEF Call, createPreviewRun, pause, Begin, recoverStaleRuns, others
<1>3. ASSUME NEW w \in Workers, Step(w) PROVE UNCHANGED budget \/ Fault
  BY <1>3 DEF Step, Batch, acquireLease, stampLease, Renew, Release, Abort, claimPauseLease,
     stampPause, finalizePauseWithLease, clearExpiredLock, sweepRuns, FreezeSnapshot,
     FinishPreview, ReopenFailed, FinishResume, WeighCancel, FinishCancel, CompareRecords,
     FinishVerify, EnterBatch, NextRecord, ClaimRecord, ReadRecord, WriteRecord, RereadRecord,
     JournalRecord, FinishBatch, CompletePhase, StallPhase, parkLease, CheckParked, others
<1>4. ASSUME NEW w \in Workers, Failure(w) PROVE Fault
  BY SMTT(40), <1>4 DEF Failure, ReadFails, WriteFails, Crash, Fails
<1>5. ASSUME NEW u \in Writers, Writer(u)
      PROVE  UNCHANGED budget \/ budget' = [budget EXCEPT !.edited = @ + 1]
  BY <1>5 DEF Writer, StartEdit, RenewEdit, ReleaseEdit, editOwnedTimecardTask, updateTimeCard,
     deleteOwnedTimeCard, SaveEdit
<1>6. CASE Expire \/ (\E r \in Runs : prepareBackup(r)) \/ (\E l \in late : LandLate(l))
  BY <1>1, <1>6 DEF Expire, prepareBackup, LandLate, others, Fault
<1>7. CASE Fault
  BY <1>1, <1>7 DEF Fault
<1>8. CASE budget' = [budget EXCEPT !.edited = @ + 1]
  BY <1>1, <1>8
<1> QED
  BY <1>1, <1>2, <1>3, <1>4, <1>5, <1>6, <1>7, <1>8 DEF Next

\* Steps of nobody's call leave the calls alone.
LEMMA OtherSteps == ASSUME Next
                    PROVE  \/ UNCHANGED job
                           \/ \E w \in Workers : Call(w) \/ Step(w) \/ Failure(w)
<1>1. ASSUME NEW u \in Writers, Writer(u) PROVE UNCHANGED job
  BY <1>1 DEF Writer, StartEdit, RenewEdit, ReleaseEdit, editOwnedTimecardTask, updateTimeCard,
     deleteOwnedTimeCard, SaveEdit
<1>2. CASE Expire \/ (\E r \in Runs : prepareBackup(r)) \/ (\E l \in late : LandLate(l))
  BY <1>2 DEF Expire, prepareBackup, LandLate
<1> QED
  BY <1>1, <1>2 DEF Next

LEMMA JobsKept == ASSUME TypeInv, Next
                  PROVE  /\ job' \in [Workers -> Job] /\ JobsFit'
                         /\ \A w \in Workers : CardsFit(job'[w])
<1>1. job \in [Workers -> Job] /\ \A w \in Workers : JobFits(job[w]) /\ CardsFit(job[w])
  BY DEF TypeInv, TypeOK, JobsFit, CardsFrozen
<1>2. CASE UNCHANGED job
  BY <1>1, <1>2 DEF JobsFit
<1>3. ASSUME NEW w \in Workers, Moves(w)
      PROVE  /\ job' \in [Workers -> Job] /\ JobsFit'
             /\ \A v \in Workers : CardsFit(job'[v])
  <2>1. PICK j \in Job : JobFits(j) /\ CardsFit(j) /\ job' = [job EXCEPT ![w] = j]
    BY <1>3 DEF Moves
  <2>2. \A v \in Workers : JobFits(job'[v])
    BY <1>1, <2>1
  <2> QED
    BY <1>1, <2>1, <2>2 DEF JobsFit
<1> QED
  BY <1>2, <1>3, OtherSteps, StepMoves

LEMMA CardsKept == ASSUME TypeInv, Next PROVE CardsFrozen'
<1>1. \A r \in Runs : Frozen(r) \subseteq Frozen(r)'
  BY BackupsKept DEF BackupsGrow
<1>2. ASSUME NEW w \in Workers PROVE CardsFit(job[w])'
  <2>1. /\ CardsFit(job'[w]) /\ JobFits(job[w])' /\ job'[w] \in Job
    BY JobsKept DEF JobsFit
  <2>2. CASE job'[w].kind \in Batches
    <3>1. job'[w].run \in Runs
      BY <2>1, <2>2 DEF JobFits, PcsOf, BatchPcs, Batches, Phase
    <3> QED
      BY <1>1, <2>1, <3>1 DEF CardsFit, Handling, AboutTo
  <2>3. CASE job'[w].kind \notin Batches
    <3>1. ~Handling(job'[w])
      BY <2>1, <2>3, KindsKnown DEF JobFits, JobsFit
    <3> QED
      BY <2>3, <3>1 DEF CardsFit, Handling, AboutTo
  <2> QED
    BY <2>2, <2>3
<1>3. \A l \in late' : l.card \in Frozen(l.run)'
  BY <1>1, LateKept DEF Sends, Frozen
<1> QED
  BY <1>2, <1>3 DEF CardsFrozen

LEMMA TypeInit == Init => TypeInv
<1> SUFFICES ASSUME Init PROVE TypeInv
  OBVIOUS
<1>1. lock \in Lock
  BY DEF Init, ensureLockDocument, Lock
<1>2. budget \in [legacy: SUBSET Timecards, faults: Nat, edits: Nat, fence: Nat,
                  faulted: Nat, edited: Nat]
  BY DateMigrationAssumption DEF Init
<1>3. entry \in [Timecards -> Entry]
  BY DEF Init, Entry
<1>4. run \in [Runs -> Run]
  BY DEF Init, Run, RunStatuses
<1>5. backup \in [Runs -> [Timecards -> Backup]]
  BY DEF Init, Backup, BackupStatuses
<1>6. job = [w \in Workers |-> NoJob] /\ edit \in [Writers -> Edit] /\ late = {}
  BY DEF Init, Edit, NoEdit
<1>7. BackupsFit
  BY DEF Init, BackupsFit, Frozen
<1> QED
  BY <1>1, <1>2, <1>3, <1>4, <1>5, <1>6, <1>7, NoJobFits
  DEF TypeInv, TypeOK, LeaseTypeOK, JobsFit, CardsFrozen

LEMMA TypeStep == TypeInv /\ [Next]_vars => TypeInv'
<1>1. ASSUME TypeInv, Next PROVE TypeInv'
  <2>1. lock' \in Lock /\ entry' \in [Timecards -> Entry] /\ run' \in [Runs -> Run]
    BY <1>1, LockKept, EntryKept, RunKept
  <2>2. backup' \in [Runs -> [Timecards -> Backup]] /\ BackupsFit'
    BY <1>1, BackupsKept DEF BackupsGrow
  <2>3. job' \in [Workers -> Job] /\ JobsFit' /\ edit' \in [Writers -> Edit]
    BY <1>1, JobsKept, EditKept
  <2>4. late' \subseteq [run: Runs, card: Timecards, phase: Batches]
    BY <1>1, LateKept DEF Sends
  <2> QED
    BY <1>1, <2>1, <2>2, <2>3, <2>4, BudgetKept, CardsKept
    DEF TypeInv, TypeOK, LeaseTypeOK
<1>2. CASE UNCHANGED vars
  BY <1>2 DEF vars, TypeInv, TypeOK, LeaseTypeOK, JobsFit, JobFits, BackupsFit, Frozen,
              CardsFrozen, CardsFit, Handling, AboutTo
<1> QED
  BY <1>1, <1>2

\* Every document of the migration and every call keeps its type, whatever the number
\* of runs, entries and calls: the intents, fences and statuses that the updates of
\* applyBatch, restoreBatch and the leases store are always ones the code expects.
THEOREM TypeCorrect == Spec => []TypeOK
<1>1. TypeInv => TypeOK
  BY DEF TypeInv
<1> QED
  BY <1>1, TypeInit, TypeStep, PTL DEF Spec

-----------------------------------------------------------------------------
(* The two kinds of lease.                                                 *)

LeaseInv ==
    /\ lock.writers # {} => migrationLeaseIsAvailable
    /\ budget.faulted = 0 =>
           \A u \in Writers : edit[u].pc \in {"renew", "write"} => u \in lock.writers

LEMMA LeaseTypes == ASSUME TypeInv
  PROVE /\ lock \in Lock /\ edit \in [Writers -> Edit]
        /\ budget \in [legacy: SUBSET Timecards, faults: Nat, edits: Nat, fence: Nat,
                       faulted: Nat, edited: Nat]
  BY DEF TypeInv, TypeOK, LeaseTypeOK

\* Without a fault the count of faults has not been raised.
LEMMA FaultsGrow == ASSUME TypeInv, Next
                    PROVE  /\ budget'.faulted = 0 => budget.faulted = 0
                           /\ Fault => budget'.faulted # 0
<1>1. budget \in [legacy: SUBSET Timecards, faults: Nat, edits: Nat, fence: Nat,
                  faulted: Nat, edited: Nat]
  BY LeaseTypes
<1>2. ASSUME NEW w \in Workers, Call(w) PROVE UNCHANGED budget
  BY <1>2 DEF Call, createPreviewRun, pause, Begin, recoverStaleRuns, others
<1>3. ASSUME NEW w \in Workers, Step(w) PROVE UNCHANGED budget \/ Fault
  BY <1>3 DEF Step, Batch, acquireLease, stampLease, Renew, Release, Abort, claimPauseLease,
     stampPause, finalizePauseWithLease, clearExpiredLock, sweepRuns, FreezeSnapshot,
     FinishPreview, ReopenFailed, FinishResume, WeighCancel, FinishCancel, CompareRecords,
     FinishVerify, EnterBatch, NextRecord, ClaimRecord, ReadRecord, WriteRecord, RereadRecord,
     JournalRecord, FinishBatch, CompletePhase, StallPhase, parkLease, CheckParked, others
<1>4. ASSUME NEW w \in Workers, Failure(w) PROVE Fault
  BY <1>4 DEF Failure, ReadFails, WriteFails, Crash, Fails
<1>5. ASSUME NEW u \in Writers, Writer(u)
      PROVE  UNCHANGED budget \/ budget' = [budget EXCEPT !.edited = @ + 1]
  BY <1>5 DEF Writer, StartEdit, RenewEdit, ReleaseEdit, editOwnedTimecardTask, updateTimeCard,
     deleteOwnedTimeCard, SaveEdit
<1>6. CASE Expire \/ (\E r \in Runs : prepareBackup(r)) \/ (\E l \in late : LandLate(l))
  BY <1>1, <1>6 DEF Expire, prepareBackup, LandLate, others, Fault
<1>7. Fault => budget'.faulted = budget.faulted + 1 /\ budget'.faulted # 0
  BY <1>1 DEF Fault
<1>8. UNCHANGED budget \/ Fault \/ budget' = [budget EXCEPT !.edited = @ + 1]
  BY <1>2, <1>3, <1>4, <1>5, <1>6 DEF Next, Expire, prepareBackup, LandLate, others
<1> QED
  BY <1>1, <1>7, <1>8

\* All that ever happens to the lock.
LEMMA LockSteps ==
    ASSUME TypeInv, Next
    PROVE  \/ UNCHANGED lock
           \/ /\ \E r \in Runs, op \in Operations : TakeLease(r, op)
              /\ lock.writers = {} /\ UNCHANGED edit
           \/ /\ \/ ParkLease \/ ClearExpired \/ ExpireLease
                 \/ \E r \in Runs, f \in Nat : releaseLease(r, f)
              /\ UNCHANGED edit
           \/ \E u \in Writers : /\ AcquireWriterLease(u)
                                 /\ \A x \in Writers \ {u} : edit'[x] = edit[x]
           \/ \E u \in Writers : /\ ReleaseWriterLease(u)
                                 /\ edit' = [edit EXCEPT ![u] = NoEdit]
           \/ \E u \in Writers : ExpireWriter(u) /\ Fault
<1>1. /\ \A w \in Workers : JobFits(job[w]) /\ job[w] \in Job
      /\ edit \in [Writers -> Edit]
  BY DEF TypeInv, TypeOK, JobsFit
<1>2. ASSUME NEW w \in Workers, acquireLease(w)
      PROVE  \/ UNCHANGED lock
             \/ /\ \E r \in Runs, op \in Operations : TakeLease(r, op)
                /\ lock.writers = {} /\ UNCHANGED edit
  <2>1. runOf(w) \in Runs /\ job[w].kind \in Operations
    <3>1. job[w].pc = "acquire"
      BY <1>2 DEF acquireLease, At
    <3>2. job[w].kind \in Calls \union {"freeze"}
      BY <1>1, <3>1, KindsKnown
    <3> QED
      BY <1>1, <3>1, <3>2 DEF JobFits, runOf, Operations, Calls, Admitted
  <2> QED
    BY <1>2, <2>1 DEF acquireLease, CanAcquire, others
<1>3. ASSUME NEW w \in Workers, claimPauseLease(w)
      PROVE  \/ UNCHANGED lock
             \/ /\ \E r \in Runs, op \in Operations : TakeLease(r, op)
                /\ lock.writers = {} /\ UNCHANGED edit
  <2>1. runOf(w) \in Runs /\ job[w].phase \in Operations
    <3>1. job[w].pc = "claimPause"
      BY <1>3 DEF claimPauseLease, At
    <3>2. job[w].phase \in Batches
      BY <1>1, <3>1, KindsKnown
    <3> QED
      BY <1>1, <3>1, <3>2 DEF JobFits, runOf, Operations, Batches, Phase
  <2> QED
    BY <1>3, <2>1 DEF claimPauseLease, PauseClaimable, CanClaimPause, CanClaimParked, others
<1>4. ASSUME NEW w \in Workers, Release(w) \/ parkLease(w) \/ clearExpiredLock(w)
      PROVE  \/ UNCHANGED lock
             \/ /\ \/ ParkLease \/ ClearExpired
                   \/ \E r \in Runs, f \in Nat : releaseLease(r, f)
                /\ UNCHANGED edit
  <2>1. CASE Release(w)
    <3>1. runOf(w) \in Runs /\ job[w].fence \in Nat
      BY SMTT(40), <1>1, <2>1 DEF Release, At, JobFits, runOf, Job
    <3> QED
      BY <2>1, <3>1 DEF Release, others
  <2> QED
    BY <1>4, <2>1 DEF parkLease, clearExpiredLock, others
<1>5. ASSUME NEW w \in Workers, Call(w) \/ Failure(w) PROVE UNCHANGED lock
  BY <1>5 DEF Call, Failure, createPreviewRun, pause, Begin, recoverStaleRuns, ReadFails,
              WriteFails, Crash, Fails
<1>6. ASSUME NEW w \in Workers,
             \/ stampLease(w) \/ Renew(w) \/ Abort(w) \/ stampPause(w)
             \/ finalizePauseWithLease(w) \/ sweepRuns(w)
             \/ FreezeSnapshot(w) \/ FinishPreview(w) \/ ReopenFailed(w) \/ FinishResume(w)
             \/ WeighCancel(w) \/ FinishCancel(w) \/ CompareRecords(w) \/ FinishVerify(w)
      PROVE  UNCHANGED lock
  BY <1>6 DEF stampLease, Renew, Abort, stampPause, finalizePauseWithLease, sweepRuns,
     FreezeSnapshot, FinishPreview, ReopenFailed, FinishResume, WeighCancel, FinishCancel,
     CompareRecords, FinishVerify
<1>7. ASSUME NEW w \in Workers,
             \/ EnterBatch(w) \/ NextRecord(w) \/ ClaimRecord(w) \/ ReadRecord(w)
             \/ WriteRecord(w) \/ RereadRecord(w) \/ JournalRecord(w) \/ FinishBatch(w)
             \/ CompletePhase(w) \/ StallPhase(w) \/ CheckParked(w)
      PROVE  UNCHANGED lock
  BY <1>7 DEF EnterBatch, NextRecord, ClaimRecord, ReadRecord, WriteRecord, RereadRecord,
     JournalRecord, FinishBatch, CompletePhase, StallPhase, CheckParked
<1>8. ASSUME NEW u \in Writers, Writer(u)
      PROVE  \/ UNCHANGED lock
             \/ AcquireWriterLease(u) /\ \A x \in Writers \ {u} : edit'[x] = edit[x]
             \/ ReleaseWriterLease(u) /\ edit' = [edit EXCEPT ![u] = NoEdit]
  BY <1>1, <1>8 DEF Writer, StartEdit, RenewEdit, ReleaseEdit,
     editOwnedTimecardTask, updateTimeCard, deleteOwnedTimeCard, SaveEdit
<1>9. CASE Expire
  BY <1>9 DEF Expire
<1> QED
  BY <1>2, <1>3, <1>4, <1>5, <1>6, <1>7, <1>8, <1>9
  DEF Next, Step, Batch, prepareBackup, LandLate

\* Only a writer that holds a lease comes to its write.
LEMMA EditSteps ==
    ASSUME TypeInv, Next, UNCHANGED lock, NEW u \in Writers,
           edit'[u].pc \in {"renew", "write"}
    PROVE  edit[u].pc \in {"renew", "write"}
<1>1. edit \in [Writers -> Edit] /\ lock \in Lock
  BY LeaseTypes
<1>2. ASSUME NEW w \in Workers, Call(w) \/ Failure(w) PROVE UNCHANGED edit
  BY <1>2 DEF Call, Failure, createPreviewRun, pause, Begin, recoverStaleRuns, ReadFails,
              WriteFails, Crash, Fails, others
<1>3. ASSUME NEW w \in Workers, Step(w) PROVE UNCHANGED edit
  BY <1>3 DEF Step, Batch, acquireLease, stampLease, Renew, Release, Abort, claimPauseLease,
     stampPause, finalizePauseWithLease, clearExpiredLock, sweepRuns, FreezeSnapshot,
     FinishPreview, ReopenFailed, FinishResume, WeighCancel, FinishCancel, CompareRecords,
     FinishVerify, EnterBatch, NextRecord, ClaimRecord, ReadRecord, WriteRecord, RereadRecord,
     JournalRecord, FinishBatch, CompletePhase, StallPhase, parkLease, CheckParked, others
<1>4. ASSUME NEW x \in Writers, Writer(x) PROVE edit[u].pc \in {"renew", "write"}
  <2>1. ~AcquireWriterLease(x)
    <3>1. lock.fence \in Nat /\ lock.fence + 1 # lock.fence
      BY <1>1 DEF Lock
    <3>2. ASSUME AcquireWriterLease(x) PROVE lock'.fence = lock.fence + 1
      BY <1>1, <3>2 DEF AcquireWriterLease, Lock
    <3> QED
      BY <3>1, <3>2
  <2>2. ASSUME NEW v, SaveEdit(x, v) PROVE edit[u].pc \in {"renew", "write"}
    BY <1>1, <2>2 DEF SaveEdit
  <2>3. CASE RenewEdit(x)
    BY <1>1, <2>3 DEF RenewEdit
  <2>4. CASE ReleaseEdit(x)
    BY <1>1, <2>4 DEF ReleaseEdit, NoEdit
  <2>5. ~(\E t \in Timecards : StartEdit(x, t))
    BY <2>1 DEF StartEdit
  <2>6. CASE editOwnedTimecardTask(x) \/ updateTimeCard(x) \/ deleteOwnedTimeCard(x)
    BY <2>2, <2>6 DEF editOwnedTimecardTask, updateTimeCard, deleteOwnedTimeCard
  <2> QED
    BY <1>4, <2>3, <2>4, <2>5, <2>6 DEF Writer
<1>5. CASE Expire \/ (\E r \in Runs : prepareBackup(r)) \/ (\E l \in late : LandLate(l))
  BY <1>5 DEF Expire, prepareBackup, LandLate, others
<1> QED
  BY <1>2, <1>3, <1>4, <1>5 DEF Next

LEMMA LeaseStep == TypeInv /\ LeaseInv /\ [Next]_vars => LeaseInv'
<1>1. ASSUME TypeInv, LeaseInv, Next PROVE LeaseInv'
  <2>1. /\ lock \in Lock /\ edit \in [Writers -> Edit]
        /\ budget'.faulted = 0 => budget.faulted = 0
    BY <1>1, LeaseTypes, FaultsGrow
  <2>2. CASE UNCHANGED lock
    BY <1>1, <2>1, <2>2, EditSteps DEF LeaseInv, migrationLeaseIsAvailable
  <2>3. ASSUME NEW r \in Runs, NEW op \in Operations, TakeLease(r, op), lock.writers = {},
               UNCHANGED edit
        PROVE  LeaseInv'
    BY <1>1, <2>1, <2>3 DEF LeaseInv, TakeLease
  <2>4. ASSUME ParkLease \/ ClearExpired \/ ExpireLease
                  \/ \E r \in Runs, f \in Nat : releaseLease(r, f),
               UNCHANGED edit
        PROVE  LeaseInv'
    BY <1>1, <2>1, <2>4 DEF LeaseInv, ParkLease, ClearExpired, ExpireLease, releaseLease, Lock,
                            migrationLeaseIsAvailable
  <2>5. ASSUME NEW u \in Writers, AcquireWriterLease(u),
               \A x \in Writers \ {u} : edit'[x] = edit[x]
        PROVE  LeaseInv'
    BY <1>1, <2>1, <2>5 DEF LeaseInv, AcquireWriterLease, Lock, migrationLeaseIsAvailable
  <2>6. ASSUME NEW u \in Writers, ReleaseWriterLease(u), edit' = [edit EXCEPT ![u] = NoEdit]
        PROVE  LeaseInv'
    BY <1>1, <2>1, <2>6 DEF LeaseInv, ReleaseWriterLease, NoEdit, Lock, migrationLeaseIsAvailable
  <2>7. ASSUME NEW u \in Writers, ExpireWriter(u), Fault PROVE LeaseInv'
    <3>1. budget'.faulted # 0
      BY <1>1, <2>7, FaultsGrow
    <3> QED
      BY <1>1, <2>1, <2>7, <3>1 DEF LeaseInv, ExpireWriter, Lock, migrationLeaseIsAvailable
  <2> QED
    BY <1>1, <2>2, <2>3, <2>4, <2>5, <2>6, <2>7, LockSteps
<1>2. CASE UNCHANGED vars
  BY <1>2 DEF vars, LeaseInv, migrationLeaseIsAvailable
<1> QED
  BY <1>1, <1>2

\* The lock never carries both kinds of lease, and as long as no call has failed and no
\* lease has run out, a time entry is written only while no run owns the data:
\* acquireLease and acquireTimecardDateWriteLease refuse each other in any order.
THEOREM WritersExclude == Spec => []WritersExcluded
<1>1. Init => LeaseInv
  BY DEF Init, LeaseInv, ensureLockDocument, NoEdit
<1>2. LeaseInv => WritersExcluded
  BY DEF LeaseInv, WritersExcluded
<1> QED
  BY <1>1, <1>2, TypeInit, TypeStep, LeaseStep, PTL DEF Spec

-----------------------------------------------------------------------------
(* Fences.                                                                 *)

\* A call that has taken its lease, or had to.
Issued(j) == j.pc \notin {"idle", "acquire", "claimPause", "clear", "sweep"}

FenceInv ==
    /\ \A w \in Workers : job[w].fence <= lock.fence
    /\ \A v, w \in Workers :
           Issued(job[v]) /\ Issued(job[w]) /\ job[v].fence = job[w].fence => v = w

\* A step of a call that has its fence keeps it.
KeepsFence(w) == job'[w].fence = job[w].fence /\ Issued(job[w])

LEMMA FenceGrows == ASSUME TypeInv, Next PROVE lock'.fence >= lock.fence
<1>1. lock \in Lock /\ lock.fence \in Nat
  BY LeaseTypes DEF Lock
<1>2. ASSUME NEW r, NEW op, TakeLease(r, op) PROVE lock'.fence = lock.fence + 1
  BY <1>1, <1>2 DEF TakeLease
<1>4. ASSUME NEW u, AcquireWriterLease(u) PROVE lock'.fence = lock.fence + 1
  BY <1>1, <1>4 DEF AcquireWriterLease, Lock
<1>3. ASSUME \/ UNCHANGED lock \/ ParkLease \/ ClearExpired \/ ExpireLease
             \/ \E r \in Runs, f \in Nat : releaseLease(r, f)
             \/ \E u \in Writers : ReleaseWriterLease(u) \/ ExpireWriter(u)
      PROVE  lock'.fence = lock.fence
  BY <1>1, <1>3 DEF ParkLease, ClearExpired, ExpireLease, releaseLease, ReleaseWriterLease,
                    ExpireWriter, Lock
<1> QED
  BY <1>1, <1>2, <1>3, <1>4, LockSteps

LEMMA OthersStay == ASSUME TypeInv, NEW w \in Workers, Call(w) \/ Step(w) \/ Failure(w)
                    PROVE  job' \in [Workers -> Job] /\ \A v \in Workers \ {w} : job'[v] = job[v]
<1>1. PICK j \in Job : job' = [job EXCEPT ![w] = j]
  BY StepMoves DEF Moves
<1> QED
  BY <1>1, OwnJob

LEMMA LeaveFence == ASSUME TypeInv, NEW w \in Workers, NEW pc, Leave(w, pc)
                    PROVE  job'[w].fence = job[w].fence
  BY OwnJob DEF Leave, NoJob, Job

LEMMA ReturnFence == ASSUME TypeInv, NEW w \in Workers, Return(w)
                     PROVE  ~Issued(job'[w]) /\ job'[w].fence = 0
  BY OwnJob DEF Return, NoJob, Issued

LEMMA CallFence == ASSUME TypeInv, NEW w \in Workers, Call(w)
                   PROVE  ~Issued(job'[w]) /\ job'[w].fence \in {0, lock.fence}
<1>1. job \in [Workers -> Job]
  BY OwnJob
<1>2. ASSUME NEW r \in Runs, NEW kind \in Calls, Begin(w, r, kind)
      PROVE  job'[w].pc = "acquire" /\ job'[w].fence = 0
  BY <1>1, <1>2 DEF Begin, NoJob
<1>3. ASSUME NEW r \in Runs, createPreviewRun(w, r)
      PROVE  job'[w].pc = "acquire" /\ job'[w].fence = 0
  BY <1>1, <1>3 DEF createPreviewRun, NoJob
<1>4. ASSUME NEW r \in Runs, pause(w, r) PROVE job'[w].pc = "claimPause" /\ job'[w].fence = 0
  BY <1>1, <1>4 DEF pause, NoJob
<1>5. CASE recoverStaleRuns(w)
  <2> DEFINE owner == IF lock.live THEN lock.owner ELSE None
             pausing == owner # None /\ ~lock.busy /\ run[owner].pauseRequested
  <2>1. /\ job'[w].pc = IF pausing THEN "claimPause"
                        ELSE IF owner # None THEN "sweep" ELSE "clear"
        /\ job'[w].fence = IF pausing THEN lock.fence ELSE 0
    BY <1>1, <1>5 DEF recoverStaleRuns, NoJob
  <2> HIDE DEF owner, pausing
  <2> QED
    BY <2>1 DEF Issued
<1> QED
  BY <1>2, <1>3, <1>4, <1>5 DEF Call, Issued

LEMMA FenceMoves ==
    ASSUME TypeInv, NEW w \in Workers, Call(w) \/ Step(w) \/ Failure(w)
    PROVE  \/ KeepsFence(w)
           \/ ~Issued(job'[w]) /\ job'[w].fence \in {0, lock.fence, job[w].fence}
           \/ job'[w].fence = lock.fence + 1 /\ lock'.fence = lock.fence + 1
<1>1. job \in [Workers -> Job] /\ job[w] \in Job
  BY OwnJob
<1>2. CASE Call(w)
  BY <1>2, CallFence
<1>3. CASE acquireLease(w) \/ claimPauseLease(w)
  <2>1. CASE Return(w)
    BY <2>1, ReturnFence
  <2>2. ASSUME NEW r, NEW op, NEW pc, TakeLease(r, op),
               job' = [job EXCEPT ![w].pc = pc, ![w].fence = lock.fence + 1]
        PROVE  job'[w].fence = lock.fence + 1 /\ lock'.fence = lock.fence + 1
    BY <1>1, <2>2 DEF TakeLease, Job
  <2>3. ASSUME job' = [job EXCEPT ![w] = [NoJob EXCEPT !.pc = "sweep", !.kind = "recover",
                                                      !.run = runOf(w)]]
        PROVE  ~Issued(job'[w]) /\ job'[w].fence = 0
    BY <1>1, <2>3 DEF NoJob, Issued
  <2> QED
    BY <1>3, <2>1, <2>2, <2>3 DEF acquireLease, claimPauseLease
<1>4. CASE stampLease(w)
  <2>1. job[w].kind \in Calls \union {"freeze"}
    BY <1>4, OwnJob, KindsKnown DEF stampLease, At
  <2>2. \E pc : RenewThen(w, pc) \/ Goto(w, pc)
    BY <1>4, <2>1 DEF stampLease, Calls, Admitted, Batches, Phase
  <2> QED
    BY <1>1, <1>4, <2>2 DEF stampLease, RenewThen, Goto, KeepsFence, Issued, At, Job
<1>5. CASE Renew(w)
  BY <1>1, <1>5, LeaveFence DEF Renew, ToJournal, KeepsFence, Issued, At, Job
<1>6. CASE Release(w)
  <2>1. CASE Return(w)
    BY <2>1, ReturnFence
  <2>2. CASE job[w].kind = "recover"
    <3>1. job[w].then \in {"clear", "sweep"}
      BY <1>6, <2>2, OwnJob DEF JobFits, Release, At
    <3>2. job'[w].pc = job[w].then /\ job'[w].fence = 0
      BY ZenonT(60), <1>1, <1>6, <2>2 DEF Release, NoJob
    <3> QED
      BY <3>1, <3>2 DEF Issued
  <2> QED
    BY <1>6, <2>1, <2>2 DEF Release
<1>7. CASE Abort(w) \/ FinishPreview(w) \/ FinishResume(w) \/ FinishCancel(w) \/ FinishVerify(w)
           \/ CompletePhase(w) \/ StallPhase(w) \/ finalizePauseWithLease(w) \/ Fails(w)
  BY <1>1, <1>7, LeaveFence DEF Abort, FinishPreview, FinishResume, FinishCancel, FinishVerify,
     CompletePhase, StallPhase, finalizePauseWithLease, Fails, Guarded, KeepsFence, Issued, At, Job
<1>8. CASE \/ stampPause(w) \/ clearExpiredLock(w) \/ sweepRuns(w) \/ CheckParked(w) \/ Crash(w)
  <2>1. CASE Return(w)
    BY <2>1, ReturnFence
  <2>2. CASE stampPause(w) \/ CheckParked(w)
    BY <1>1, <2>2, ReturnFence DEF stampPause, CheckParked, Goto, KeepsFence, Issued, At, Job
  <2>3. CASE clearExpiredLock(w)
    BY <1>1, <2>3 DEF clearExpiredLock, Goto, Issued, Job
  <2> QED
    BY <1>8, <2>1, <2>2, <2>3 DEF sweepRuns, Crash
<1>9. CASE FreezeSnapshot(w) \/ ReopenFailed(w) \/ WeighCancel(w) \/ CompareRecords(w)
  BY <1>1, <1>9, LeaveFence DEF FreezeSnapshot, ReopenFailed, WeighCancel, CompareRecords,
     RenewThen, KeepsFence, Issued, At, Job
<1>10. CASE EnterBatch(w) \/ NextRecord(w) \/ ClaimRecord(w) \/ parkLease(w) \/ FinishBatch(w)
  <2>1. CASE EnterBatch(w)
    <3>1. \/ Leave(w, "abort")
          \/ \E listed, size : job' = [job EXCEPT ![w].pc = "next", ![w].todo = listed,
                                                   ![w].listed = size]
      BY <2>1 DEF EnterBatch
    <3>2. ASSUME NEW listed, NEW size, job' = [job EXCEPT ![w].pc = "next", ![w].todo = listed,
                                                          ![w].listed = size]
          PROVE  job'[w].fence = job[w].fence
      BY <1>1, <3>2 DEF Job
    <3>3. job'[w].fence = job[w].fence
      BY <3>1, <3>2, LeaveFence
    <3> QED
      BY <2>1, <3>3 DEF EnterBatch, KeepsFence, Issued, At
  <2>2. CASE NextRecord(w) \/ parkLease(w)
    BY <1>1, <2>2, LeaveFence DEF NextRecord, parkLease, RenewThen, Goto, KeepsFence, Issued, At, Job
  <2>3. CASE ClaimRecord(w)
    BY <1>1, <2>3, LeaveFence DEF ClaimRecord, KeepsFence, Issued, At, Job
  <2>4. CASE FinishBatch(w)
    BY <1>1, <2>4 DEF FinishBatch, RenewThen, KeepsFence, Issued, At, Job
  <2> QED
    BY <1>10, <2>1, <2>2, <2>3, <2>4
<1>11. CASE \/ ReadRecord(w) \/ ReadFails(w) \/ WriteRecord(w) \/ WriteFails(w)
            \/ RereadRecord(w) \/ JournalRecord(w)
  BY <1>1, <1>11 DEF ReadRecord, ReadFails, WriteRecord, WriteFails, RereadRecord, JournalRecord,
     RenewThen, Goto, ToJournal, NextInBatch, KeepsFence, Issued, At, Job
<1> QED
  BY <1>2, <1>3, <1>4, <1>5, <1>6, <1>7, <1>8, <1>9, <1>10, <1>11 DEF Step, Batch, Failure

LEMMA FenceStep == TypeInv /\ FenceInv /\ [Next]_vars => FenceInv'
<1>1. ASSUME TypeInv, FenceInv, Next PROVE FenceInv'
  <2>1. /\ lock.fence \in Nat /\ lock'.fence \in Nat /\ lock'.fence >= lock.fence
        /\ \A w \in Workers : job[w].fence \in Nat /\ job'[w].fence \in Nat
    BY <1>1, LeaseTypes, LockKept, FenceGrows, JobsKept DEF Lock, Job, TypeInv, TypeOK
  <2>2. CASE UNCHANGED job
    BY <1>1, <2>1, <2>2 DEF FenceInv
  <2>3. ASSUME NEW w \in Workers, Call(w) \/ Step(w) \/ Failure(w) PROVE FenceInv'
    <3>1. \A v \in Workers \ {w} : job'[v] = job[v]
      BY <1>1, <2>3, OthersStay
    <3>2. CASE KeepsFence(w)
      BY <1>1, <2>1, <3>1, <3>2 DEF FenceInv, KeepsFence
    <3>3. CASE ~Issued(job'[w]) /\ job'[w].fence \in {0, lock.fence, job[w].fence}
      BY <1>1, <2>1, <3>1, <3>3 DEF FenceInv
    <3>4. CASE job'[w].fence = lock.fence + 1 /\ lock'.fence = lock.fence + 1
      <4>1. \A v \in Workers \ {w} : job'[v].fence < job'[w].fence
        BY <1>1, <2>1, <3>1, <3>4 DEF FenceInv
      <4> QED
        BY <1>1, <2>1, <3>1, <3>4, <4>1 DEF FenceInv
    <3> QED
      BY <1>1, <2>3, <3>2, <3>3, <3>4, FenceMoves
  <2> QED
    BY <1>1, <2>2, <2>3, OtherSteps
<1>2. CASE UNCHANGED vars
  BY <1>2 DEF vars, FenceInv
<1> QED
  BY <1>1, <1>2

LEMMA FenceInit == Init => FenceInv
  BY DEF Init, FenceInv, ensureLockDocument, NoJob, Issued

-----------------------------------------------------------------------------
(* How the status of a run changes.                                        *)

Finishes(w) == \/ EnterBatch(w) \/ CompletePhase(w) \/ StallPhase(w) \/ Abort(w)
               \/ FinishPreview(w) \/ FinishResume(w) \/ FinishCancel(w) \/ FinishVerify(w)

LEMMA RunTypes == ASSUME TypeInv
  PROVE /\ run \in [Runs -> Run]
        /\ \A w \in Workers : JobFits(job[w]) /\ job[w] \in Job /\ CardsFit(job[w])
        /\ \A w \in Workers :
              /\ job[w].pc \notin {"idle", "clear", "sweep"} => runOf(w) \in Runs
              /\ job[w].pc \in Recording \union {"claimPause", "stampPause", "finalizePause"}
                    => job[w].phase \in Batches
              /\ job[w].pc \in Recording => job[w].kind \in Batches /\ job[w].phase = job[w].kind
              /\ job[w].kind \in Batches => job[w].phase = job[w].kind
<1>1. /\ run \in [Runs -> Run]
      /\ \A w \in Workers : JobFits(job[w]) /\ job[w] \in Job /\ CardsFit(job[w])
  BY DEF TypeInv, TypeOK, JobsFit, CardsFrozen
<1> QED
  BY <1>1, KindsKnown DEF JobFits, runOf, Recording

\* Each way in which the status of a run changes.
LEMMA StatusSteps ==
    ASSUME TypeInv, Next, NEW r \in Runs, run'[r].status # run[r].status
    PROVE  \/ /\ run[r].status = "none" /\ run'[r].status = "freezing"
              /\ \E w \in Workers : createPreviewRun(w, r)
           \/ run[r].status = "freezing" /\ run'[r].status = "failed"
           \/ run[r].status = "preview" /\ run'[r].status = "ready"
           \/ run[r].status \in {"applying", "restoring"} /\ run'[r].status = "paused"
           \/ \E w \in Workers : runOf(w) = r /\ Finishes(w)
<1>1. run \in [Runs -> Run]
  BY RunTypes
<1>2. \A w \in Workers :
         job[w].pc \in Recording \union {"claimPause", "stampPause", "finalizePause"}
            => phaseOf(w).active \in {"applying", "restoring"}
  BY RunTypes DEF phaseOf, Batches, Phase
<1>3. ASSUME NEW w \in Workers, NEW q \in Runs, createPreviewRun(w, q)
      PROVE  /\ run[r].status = "none" /\ run'[r].status = "freezing"
             /\ createPreviewRun(w, r)
  BY <1>1, <1>3 DEF createPreviewRun, Run
<1>4. ASSUME NEW w \in Workers, Call(w), ~\E q \in Runs : createPreviewRun(w, q) PROVE FALSE
  BY ZenonT(60), <1>1, <1>4 DEF Call, pause, Begin, recoverStaleRuns, Run
<1>5. ASSUME NEW w \in Workers, Failure(w) PROVE FALSE
  BY <1>5 DEF Failure, ReadFails, WriteFails, Crash, Fails
<1>6. ASSUME NEW w \in Workers,
             \/ Renew(w) \/ Release(w) \/ claimPauseLease(w) \/ clearExpiredLock(w)
             \/ FreezeSnapshot(w) \/ ReopenFailed(w) \/ WeighCancel(w) \/ CompareRecords(w)
             \/ ClaimRecord(w) \/ ReadRecord(w) \/ WriteRecord(w) \/ RereadRecord(w)
             \/ JournalRecord(w) \/ FinishBatch(w) \/ parkLease(w) \/ CheckParked(w)
      PROVE  FALSE
  BY <1>6 DEF Renew, Release, claimPauseLease, clearExpiredLock, FreezeSnapshot, ReopenFailed,
     WeighCancel, CompareRecords, ClaimRecord, ReadRecord, WriteRecord, RereadRecord,
     JournalRecord, FinishBatch, parkLease, CheckParked
<1>7. ASSUME NEW w \in Workers, acquireLease(w) \/ stampLease(w)
      PROVE  run[r].status = "freezing" /\ run'[r].status = "failed"
  BY ZenonT(60), <1>1, <1>7 DEF acquireLease, stampLease, Run
<1>8. ASSUME NEW w \in Workers,
             stampPause(w) \/ finalizePauseWithLease(w) \/ NextRecord(w)
      PROVE  run[r].status \in {"applying", "restoring"} /\ run'[r].status = "paused"
  <2>1. phaseOf(w).active \in {"applying", "restoring"}
    BY <1>2, <1>8 DEF stampPause, finalizePauseWithLease, NextRecord, At, Recording
  <2>2. CASE FinalizePause(w)
    BY <1>1, <2>1, <2>2 DEF FinalizePause, Run
  <2>3. CASE run' = [run EXCEPT ![runOf(w)].leaseFence = job[w].fence]
    BY <1>1, <2>3 DEF Run
  <2> QED
    BY <1>8, <2>2, <2>3 DEF stampPause, finalizePauseWithLease, NextRecord
<1>9. ASSUME NEW w \in Workers, sweepRuns(w)
      PROVE  \/ run[r].status = "freezing" /\ run'[r].status = "failed"
             \/ run[r].status \in {"applying", "restoring"} /\ run'[r].status = "paused"
  <2>1. PICK stale \in SUBSET {q \in Runs : run[q].status = "freezing"} :
             run'[r] = IF r = runOf(w) THEN run[r]
                       ELSE IF run[r].status \in {"applying", "restoring"}
                            THEN [run[r] EXCEPT !.status = "paused",
                                     !.pausedPhase = IF run[r].status = "applying"
                                                     THEN "apply" ELSE "restore"]
                       ELSE IF r \in stale THEN [run[r] EXCEPT !.status = "failed"]
                       ELSE run[r]
    BY <1>9 DEF sweepRuns
  <2>2. run[r] \in Run
    BY <1>1
  <2>3. CASE run[r].status \in {"applying", "restoring"}
    BY <2>1, <2>2, <2>3 DEF Run
  <2>4. CASE run[r].status \notin {"applying", "restoring"}
    BY <2>1, <2>2, <2>4 DEF Run
  <2> QED
    BY <2>3, <2>4
<1>10. ASSUME NEW w \in Workers, Finishes(w) PROVE runOf(w) = r
  <2>1. CASE EnterBatch(w)
    BY <1>1, <2>1 DEF EnterBatch, SetStatus
  <2>2. CASE CompletePhase(w) \/ StallPhase(w) \/ Abort(w)
    BY <1>1, <2>2 DEF CompletePhase, StallPhase, Abort, Guarded, Pause
  <2>3. CASE FinishPreview(w) \/ FinishResume(w) \/ FinishCancel(w) \/ FinishVerify(w)
    BY <1>1, <2>3 DEF FinishPreview, FinishResume, FinishCancel, FinishVerify, Guarded, SetStatus
  <2> QED
    BY <1>10, <2>1, <2>2, <2>3 DEF Finishes
<1>11. ASSUME NEW q \in Runs, prepareBackup(q)
       PROVE  run[r].status = "preview" /\ run'[r].status = "ready"
  BY <1>1, <1>11 DEF prepareBackup, Run
<1>12. ASSUME NEW u \in Writers, Writer(u) PROVE FALSE
  BY <1>12 DEF Writer, StartEdit, RenewEdit, ReleaseEdit, editOwnedTimecardTask, updateTimeCard,
     deleteOwnedTimeCard, SaveEdit
<1>13. CASE Expire \/ (\E l \in late : LandLate(l))
  BY <1>13 DEF Expire, LandLate
<1> QED
  BY <1>3, <1>4, <1>5, <1>6, <1>7, <1>8, <1>9, <1>10, <1>11, <1>12, <1>13
  DEF Next, Step, Batch, Finishes

\* What each kind of call makes of the status of its run.
LEMMA FinishSteps ==
    ASSUME TypeInv, NEW w \in Workers, Finishes(w), NEW r \in Runs, runOf(w) = r,
           run'[r].status # run[r].status
    PROVE  /\ run[r].leaseFence = job[w].fence
           /\ run'[r].status \in RunStatuses
           /\ \/ /\ EnterBatch(w) /\ run[r].status = job[w].seen
                 /\ run'[r].status = phaseOf(w).active
              \/ /\ CompletePhase(w) /\ run[r].status = phaseOf(w).active
                 /\ run'[r].status = job[w].outcome
              \/ /\ StallPhase(w) /\ run[r].status = phaseOf(w).active
                 /\ run'[r].status = "paused" /\ run'[r].pausedPhase = job[w].phase
              \/ /\ Abort(w) /\ job[w].kind = "freeze"
                 /\ run[r].status = "freezing" /\ run'[r].status = "failed"
              \/ /\ Abort(w) /\ job[w].kind \in Batches
                 /\ run[r].status \in {job[w].seen, phaseOf(w).active}
                 /\ run'[r].status = "paused" /\ run'[r].pausedPhase = job[w].phase
              \/ /\ FinishPreview(w)
                 /\ run[r].status = "freezing" /\ run'[r].status = "preview"
              \/ /\ FinishResume(w) /\ run[r].status = "paused"
                 /\ run'[r].status = Phase[job[w].seen].resumed
              \/ /\ FinishCancel(w) /\ run[r].status = job[w].seen
                 /\ run'[r].status = "cancelled"
              \/ /\ FinishVerify(w) /\ run[r].status = job[w].seen
                 /\ run'[r].status = job[w].outcome
<1>1. run \in [Runs -> Run] /\ run[r] \in Run /\ JobFits(job[w]) /\ job[w] \in Job
  BY RunTypes
<1>2. run'[r].status \in RunStatuses
  <2>1. Next
    BY DEF Finishes, Next, Step, Batch
  <2> QED
    BY <2>1, RunKept DEF Run
<1>3. CASE EnterBatch(w)
  BY <1>1, <1>2, <1>3 DEF EnterBatch, SetStatus, Unchanged, Run
<1>4. CASE CompletePhase(w)
  BY <1>1, <1>2, <1>4 DEF CompletePhase, Guarded, Unchanged, Run
<1>5. CASE StallPhase(w)
  BY <1>1, <1>2, <1>5 DEF StallPhase, Pause, Guarded, Unchanged, Run
<1>6. CASE Abort(w)
  <2>1. job[w].kind \in Batches \/ job[w].kind = "freeze"
    BY <1>1, <1>6, KindsKnown DEF Abort, At
  <2>2. CASE job[w].kind = "freeze"
    BY <1>1, <1>2, <1>6, <2>2 DEF Abort, Unchanged, Run
  <2>3. CASE job[w].kind \in Batches
    <3>1. job[w].kind # "freeze"
      BY <2>3 DEF Batches, Phase
    <3> QED
      BY <1>1, <1>2, <1>6, <2>3, <3>1 DEF Abort, Unchanged, Pause, Run
  <2> QED
    BY <2>1, <2>2, <2>3
<1>7. CASE FinishPreview(w)
  BY <1>1, <1>2, <1>7 DEF FinishPreview, SetStatus, Guarded, Unchanged, Run
<1>8. CASE FinishResume(w)
  BY <1>1, <1>2, <1>8 DEF FinishResume, Guarded, Unchanged, Run
<1>9. CASE FinishCancel(w)
  BY <1>1, <1>2, <1>9 DEF FinishCancel, SetStatus, Guarded, Unchanged, Run
<1>10. CASE FinishVerify(w)
  BY <1>1, <1>2, <1>10 DEF FinishVerify, SetStatus, Guarded, Unchanged, Run
<1> QED
  BY <1>3, <1>4, <1>5, <1>6, <1>7, <1>8, <1>9, <1>10 DEF Finishes

-----------------------------------------------------------------------------
(* What stays the same of a call.                                          *)

\* It is still the same call.
SameCall(w) == /\ job'[w].kind = job[w].kind /\ job'[w].run = job[w].run
               /\ job'[w].phase = job[w].phase

LEMMA LeaveSame == ASSUME TypeInv, NEW w \in Workers, NEW pc, Leave(w, pc)
                   PROVE  SameCall(w) /\ job'[w].pc = pc /\ job'[w].fence = job[w].fence
  BY OwnJob DEF Leave, NoJob, Job, SameCall, runOf

LEMMA ReturnSame == ASSUME TypeInv, NEW w \in Workers, Return(w) PROVE job'[w] = NoJob
  BY OwnJob DEF Return

LEMMA SameMoves ==
    ASSUME TypeInv, NEW w \in Workers, Step(w) \/ Failure(w)
    PROVE  \/ SameCall(w)
           \/ job'[w] = NoJob
           \/ job'[w].kind = "recover" /\ job'[w].phase = "none"
<1>1. job \in [Workers -> Job] /\ job[w] \in Job
  BY OwnJob
<1>3. CASE acquireLease(w) \/ claimPauseLease(w)
  <2>1. CASE Return(w)
    BY <2>1, ReturnSame
  <2>2. ASSUME NEW pc, job' = [job EXCEPT ![w].pc = pc, ![w].fence = lock.fence + 1]
        PROVE  SameCall(w)
    BY <1>1, <2>2 DEF SameCall, Job
  <2>3. ASSUME job' = [job EXCEPT ![w] = [NoJob EXCEPT !.pc = "sweep", !.kind = "recover",
                                                      !.run = runOf(w)]]
        PROVE  job'[w].kind = "recover" /\ job'[w].phase = "none"
    BY <1>1, <2>3 DEF NoJob
  <2> QED
    BY <1>3, <2>1, <2>2, <2>3 DEF acquireLease, claimPauseLease
<1>4. CASE stampLease(w)
  <2>1. job[w].kind \in Calls \union {"freeze"}
    BY <1>4, OwnJob, KindsKnown DEF stampLease, At
  <2>2. \E pc : RenewThen(w, pc) \/ Goto(w, pc)
    BY <1>4, <2>1 DEF stampLease, Calls, Admitted, Batches, Phase
  <2> QED
    BY <1>1, <2>2 DEF RenewThen, Goto, SameCall, Job
<1>5. CASE Renew(w)
  BY <1>1, <1>5, LeaveSame DEF Renew, ToJournal, SameCall, Job
<1>6. CASE Release(w)
  <2>1. CASE Return(w)
    BY <2>1, ReturnSame
  <2>2. CASE job[w].kind = "recover"
    <3>1. PICK pc, q : job' = [job EXCEPT ![w] = [NoJob EXCEPT !.pc = pc, !.kind = "recover",
                                                             !.run = q]]
      BY <1>6, <2>2 DEF Release
    <3> QED
      BY <1>1, <3>1 DEF NoJob
  <2> QED
    BY <1>6, <2>1, <2>2 DEF Release
<1>7. CASE Abort(w) \/ FinishPreview(w) \/ FinishResume(w) \/ FinishCancel(w) \/ FinishVerify(w)
           \/ CompletePhase(w) \/ StallPhase(w) \/ finalizePauseWithLease(w) \/ Fails(w)
  BY <1>7, LeaveSame DEF Abort, FinishPreview, FinishResume, FinishCancel, FinishVerify,
     CompletePhase, StallPhase, finalizePauseWithLease, Fails, Guarded
<1>8. CASE \/ stampPause(w) \/ clearExpiredLock(w) \/ sweepRuns(w) \/ CheckParked(w) \/ Crash(w)
  <2>1. CASE Return(w)
    BY <2>1, ReturnSame
  <2>2. CASE stampPause(w) \/ CheckParked(w) \/ clearExpiredLock(w)
    BY <1>1, <2>2, ReturnSame DEF stampPause, CheckParked, clearExpiredLock, Goto, SameCall, Job
  <2> QED
    BY <1>8, <2>1, <2>2 DEF sweepRuns, Crash
<1>9. CASE FreezeSnapshot(w) \/ ReopenFailed(w) \/ WeighCancel(w) \/ CompareRecords(w)
  BY <1>1, <1>9, LeaveSame DEF FreezeSnapshot, ReopenFailed, WeighCancel, CompareRecords,
     RenewThen, SameCall, Job
<1>10. CASE EnterBatch(w) \/ NextRecord(w) \/ ClaimRecord(w) \/ parkLease(w) \/ FinishBatch(w)
  <2>1. CASE EnterBatch(w)
    <3>1. \/ Leave(w, "abort")
          \/ \E listed, size : job' = [job EXCEPT ![w].pc = "next", ![w].todo = listed,
                                                   ![w].listed = size]
      BY <2>1 DEF EnterBatch
    <3>2. ASSUME NEW listed, NEW size, job' = [job EXCEPT ![w].pc = "next", ![w].todo = listed,
                                                          ![w].listed = size]
          PROVE  SameCall(w)
      BY <1>1, <3>2 DEF Job, SameCall
    <3> QED
      BY <3>1, <3>2, LeaveSame
  <2>2. CASE NextRecord(w) \/ parkLease(w)
    BY <1>1, <2>2, LeaveSame DEF NextRecord, parkLease, RenewThen, Goto, SameCall, Job
  <2>3. CASE ClaimRecord(w)
    BY <1>1, <2>3, LeaveSame DEF ClaimRecord, SameCall, Job
  <2>4. CASE FinishBatch(w)
    BY <1>1, <2>4 DEF FinishBatch, RenewThen, SameCall, Job
  <2> QED
    BY <1>10, <2>1, <2>2, <2>3, <2>4
<1>11. CASE \/ ReadRecord(w) \/ ReadFails(w) \/ WriteRecord(w) \/ WriteFails(w)
            \/ RereadRecord(w) \/ JournalRecord(w)
  BY <1>1, <1>11 DEF ReadRecord, ReadFails, WriteRecord, WriteFails, RereadRecord, JournalRecord,
     RenewThen, Goto, ToJournal, NextInBatch, SameCall, Job
<1> QED
  BY <1>3, <1>4, <1>5, <1>6, <1>7, <1>8, <1>9, <1>10, <1>11 DEF Step, Batch, Failure

\* How a call begins.
LEMMA CallSteps ==
    ASSUME TypeInv, NEW w \in Workers, Call(w)
    PROVE  \/ \E r \in Runs : /\ createPreviewRun(w, r)
                              /\ job'[w].kind = "freeze" /\ job'[w].run = r
                              /\ job'[w].phase = "none" /\ job'[w].pc = "acquire"
           \/ \E r \in Runs, kind \in Calls :
                 /\ run[r].status \in Admitted[kind] /\ UNCHANGED run
                 /\ job'[w].kind = kind /\ job'[w].run = r /\ job'[w].pc = "acquire"
                 /\ job'[w].phase \in {kind, "none"}
                 /\ kind \in Batches => job'[w].phase = kind /\ job'[w].seen = run[r].status
           \/ \E r \in Runs, p \in Batches :
                 /\ run[r].status = Phase[p].active /\ run'[r].status = run[r].status
                 /\ job'[w].kind = "pause" /\ job'[w].run = r /\ job'[w].phase = p
                 /\ job'[w].pc = "claimPause"
           \/ /\ recoverStaleRuns(w) /\ job'[w].kind = "recover"
              /\ job'[w].pc \in {"claimPause", "sweep", "clear"}
              /\ job'[w].phase = "restore" => /\ job'[w].run \in Runs
                                              /\ run[job'[w].run].status = "restoring"
<1>1. job \in [Workers -> Job] /\ run \in [Runs -> Run] /\ lock \in Lock
  BY OwnJob, RunTypes, LeaseTypes
<1>2. ASSUME NEW r \in Runs, NEW kind \in Calls, Begin(w, r, kind)
      PROVE  /\ run[r].status \in Admitted[kind] /\ UNCHANGED run
             /\ job'[w].kind = kind /\ job'[w].run = r /\ job'[w].pc = "acquire"
             /\ job'[w].phase \in {kind, "none"}
             /\ kind \in Batches => job'[w].phase = kind /\ job'[w].seen = run[r].status
  BY <1>1, <1>2 DEF Begin, NoJob
<1>3. ASSUME NEW r \in Runs, createPreviewRun(w, r)
      PROVE  /\ job'[w].kind = "freeze" /\ job'[w].run = r
             /\ job'[w].phase = "none" /\ job'[w].pc = "acquire"
  BY <1>1, <1>3 DEF createPreviewRun, NoJob
<1>4. ASSUME NEW r \in Runs, pause(w, r)
      PROVE  \E p \in Batches :
                 /\ run[r].status = Phase[p].active /\ run'[r].status = run[r].status
                 /\ job'[w].kind = "pause" /\ job'[w].run = r /\ job'[w].phase = p
                 /\ job'[w].pc = "claimPause"
  BY <1>1, <1>4 DEF pause, NoJob, Run
<1>5. ASSUME recoverStaleRuns(w)
      PROVE  /\ job'[w].kind = "recover"
             /\ job'[w].pc \in {"claimPause", "sweep", "clear"}
             /\ job'[w].phase = "restore" => /\ job'[w].run \in Runs
                                             /\ run[job'[w].run].status = "restoring"
  <2> DEFINE owner == IF lock.live THEN lock.owner ELSE None
             pausing == owner # None /\ ~lock.busy /\ run[owner].pauseRequested
  <2>1. owner \in Runs \union {None}
    BY <1>1 DEF Lock
  <2>2. /\ job'[w].pc = IF pausing THEN "claimPause"
                        ELSE IF owner # None THEN "sweep" ELSE "clear"
        /\ job'[w].kind = "recover" /\ job'[w].run = owner
        /\ job'[w].phase = IF ~pausing THEN "none"
                           ELSE IF run[owner].status = "restoring" THEN "restore" ELSE "apply"
    BY <1>1, <1>5 DEF recoverStaleRuns, NoJob
  <2> QED
    BY <2>1, <2>2
<1> QED
  BY <1>2, <1>3, <1>4, <1>5 DEF Call

\* Which records have a backup changes with a snapshot only, and in its run.
LEMMA FrozenSteps ==
    ASSUME TypeInv, Next, NEW r \in Runs
    PROVE  \/ Frozen(r)' = Frozen(r)
           \/ \E w \in Workers : FreezeSnapshot(w) /\ runOf(w) = r
<1>1. /\ backup \in [Runs -> [Timecards -> Backup]]
      /\ \A q \in Runs : backup[q] \in [Timecards -> Backup]
  BY DEF TypeInv, TypeOK
<1>2. Frozen(r) \subseteq Frozen(r)'
  BY BackupsKept DEF BackupsGrow
<1>3. ASSUME NEW w \in Workers, FreezeSnapshot(w), runOf(w) # r
      PROVE  backup'[r] = backup[r]
  BY <1>1, <1>3 DEF FreezeSnapshot
<1>4. ASSUME NEW w \in Workers, NEW q, NEW t \in Timecards, NEW b,
             q = r => t \in Frozen(r), backup' = [backup EXCEPT ![q][t] = b]
      PROVE  Frozen(r)' \subseteq Frozen(r)
  BY <1>1, <1>4 DEF Frozen
<1>5. ASSUME NEW w \in Workers, JournalRecord(w) PROVE Frozen(r)' \subseteq Frozen(r)
  <2>1. job[w].card \in Frozen(runOf(w)) /\ job[w].card \in Timecards
    BY <1>5, SendFits DEF JournalRecord, At, Handling
  <2>2. \E b : backup' = [backup EXCEPT ![runOf(w)][job[w].card] = b]
    BY <1>5 DEF JournalRecord
  <2> QED
    BY <1>4, <2>1, <2>2
<1>6. ASSUME NEW w \in Workers, ClaimRecord(w) PROVE Frozen(r)' \subseteq Frozen(r)
  <2>1. runOf(w) \in Runs /\ job[w].todo \subseteq Frozen(runOf(w))
    BY <1>6, RunTypes DEF ClaimRecord, At, Recording, CardsFit, runOf
  <2>2. \/ UNCHANGED backup
        \/ \E t \in job[w].todo : \E s, f : backup' = [backup EXCEPT ![runOf(w)][t].status = s,
                                                           ![runOf(w)][t].fence = f]
    BY <1>6 DEF ClaimRecord
  <2>3. ASSUME NEW t \in job[w].todo, NEW s, NEW f,
               backup' = [backup EXCEPT ![runOf(w)][t].status = s, ![runOf(w)][t].fence = f]
        PROVE  Frozen(r)' \subseteq Frozen(r)
    <3>1. t \in Timecards /\ t \in Frozen(runOf(w))
      BY <2>1 DEF Frozen
    <3>2. \A x \in Timecards : x # t => backup'[r][x] = backup[r][x]
      BY <1>1, <2>1, <2>3, <3>1
    <3>3. runOf(w) # r => backup'[r] = backup[r]
      BY <1>1, <2>1, <2>3, <3>1
    <3> QED
      BY <3>1, <3>2, <3>3 DEF Frozen
  <2> QED
    BY <2>2, <2>3 DEF Frozen
<1>7. ASSUME NEW w \in Workers, ReopenFailed(w) PROVE Frozen(r)' \subseteq Frozen(r)
  <2>1. CASE UNCHANGED backup
    BY <2>1 DEF Frozen
  <2>2. ASSUME NEW p \in Batches,
               backup' = [backup EXCEPT ![runOf(w)] = [t \in Timecards |->
                  IF @[t].status = Phase[p].failed
                  THEN [@[t] EXCEPT !.status = Phase[p].open] ELSE @[t]]]
        PROVE  Frozen(r)' \subseteq Frozen(r)
    <3>1. Phase[p].failed # "none"
      BY DEF Batches, Phase
    <3> QED
      BY <1>1, <2>2, <3>1 DEF Frozen
  <2> QED
    BY <1>7, <2>1, <2>2 DEF ReopenFailed, Batches, Phase
<1> QED
  BY <1>2, <1>3, <1>5, <1>6, <1>7, BackupSteps DEF Frozen

-----------------------------------------------------------------------------
(* A run freezes once.                                                     *)

\* A freeze that has still to take its snapshot.
Snapshots(j) == j.kind = "freeze" /\ (j.pc \in {"acquire", "stamp"} \/ AboutTo(j, "snapshot"))

Early == {"none", "freezing", "failed"}

FreezeInv ==
    /\ \A r \in Runs : run[r].status = "none" =>
          Frozen(r) = {} /\ \A w \in Workers : job[w].kind = "freeze" => runOf(w) # r
    /\ \A v, w \in Workers :
          job[v].kind = "freeze" /\ job[w].kind = "freeze" /\ runOf(v) = runOf(w) => v = w
    /\ \A w \in Workers : Snapshots(job[w]) =>
          run[runOf(w)].status \in {"freezing", "failed"} /\ Frozen(runOf(w)) = {}
    /\ \A w \in Workers : job[w].kind \in Calls \union {"pause"} \/ job[w].phase = "restore" =>
          runOf(w) \in Runs /\ run[runOf(w)].status \notin Early

\* A snapshot is taken once.
LEMMA SnapshotOnce ==
    ASSUME TypeInv, NEW w \in Workers, Step(w) \/ Failure(w), job[w].kind = "freeze",
           ~Snapshots(job[w]) \/ FreezeSnapshot(w)
    PROVE  ~Snapshots(job'[w])
<1>1. /\ job \in [Workers -> Job] /\ job[w] \in Job /\ JobFits(job[w])
      /\ job[w].pc \in {"acquire", "stamp", "renew", "snapshot", "preview", "abort", "release"}
      /\ job[w].pc = "renew" => job[w].then \in {"snapshot", "preview"}
  BY OwnJob DEF JobFits, PcsOf, RenewsFor
<1>2. CASE FreezeSnapshot(w)
  <2>1. CASE RenewThen(w, "preview")
    BY <1>1, <2>1 DEF RenewThen, Job, Snapshots, AboutTo
  <2>2. CASE Leave(w, "abort")
    BY <1>1, <2>2, LeaveSame DEF Snapshots, AboutTo
  <2> QED
    BY <1>2, <2>1, <2>2 DEF FreezeSnapshot
<1>3. CASE Renew(w) /\ ~Snapshots(job[w])
  <2>1. job[w].pc = "renew" /\ job[w].then = "preview"
    BY <1>1, <1>3 DEF Renew, At, Snapshots, AboutTo
  <2>2. \/ job' = [job EXCEPT ![w].pc = job[w].then, ![w].then = "idle"]
        \/ Leave(w, Catch(w))
    BY <1>3, <2>1 DEF Renew
  <2>3. CASE job' = [job EXCEPT ![w].pc = job[w].then, ![w].then = "idle"]
    BY <1>1, <2>1, <2>3 DEF Job, Snapshots, AboutTo
  <2>4. CASE Leave(w, Catch(w))
    BY <2>4, LeaveSame DEF Catch, Snapshots, AboutTo
  <2> QED
    BY <2>2, <2>3, <2>4
<1>4. CASE FinishPreview(w) \/ Abort(w) \/ Fails(w)
  <2>1. \E pc \in {"release", "abort"} : Leave(w, pc)
    BY <1>4 DEF FinishPreview, Abort, Fails, Guarded, Catch
  <2> QED
    BY <2>1, LeaveSame DEF Snapshots, AboutTo
<1>5. CASE Release(w) \/ Crash(w)
  <2>1. Return(w)
    BY <1>5 DEF Release, Crash
  <2> QED
    BY <2>1, ReturnSame DEF NoJob, Snapshots
<1>6. CASE (acquireLease(w) \/ stampLease(w)) /\ ~Snapshots(job[w])
  BY SMTT(40), <1>6 DEF acquireLease, stampLease, At, Snapshots
<1>7. ASSUME Step(w), ~acquireLease(w), ~stampLease(w), ~Renew(w), ~Release(w), ~Abort(w),
             ~FreezeSnapshot(w), ~FinishPreview(w)
      PROVE  FALSE
  BY <1>1, <1>7 DEF Step, Batch, claimPauseLease, stampPause, finalizePauseWithLease,
     clearExpiredLock, sweepRuns, ReopenFailed, FinishResume, WeighCancel, FinishCancel,
     CompareRecords, FinishVerify, EnterBatch, NextRecord, ClaimRecord, ReadRecord, WriteRecord,
     RereadRecord, JournalRecord, FinishBatch, CompletePhase, StallPhase, parkLease, CheckParked,
     At
<1>8. CASE ReadFails(w) \/ WriteFails(w)
  BY <1>1, <1>8 DEF ReadFails, WriteFails, At
<1> QED
  BY <1>2, <1>3, <1>4, <1>5, <1>6, <1>7, <1>8 DEF Failure

\* A run that has got past its freeze stays so; only its freeze brings it there.
LEMMA EarlySteps ==
    ASSUME TypeInv, Next, NEW r \in Runs, run'[r].status # run[r].status
    PROVE  \/ /\ run[r].status = "none" /\ run'[r].status = "freezing"
              /\ \E w \in Workers : createPreviewRun(w, r)
           \/ run[r].status = "freezing" /\ run'[r].status = "failed"
           \/ /\ run'[r].status \notin Early
              /\ run[r].status \in Early =>
                    \E w \in Workers : /\ runOf(w) = r /\ Finishes(w)
                                       /\ \/ job[w].kind \in Calls
                                          \/ job[w].kind = "freeze" /\ At(w, "preview")
<1>1. ASSUME NEW w \in Workers, runOf(w) = r, Finishes(w)
      PROVE  \/ run[r].status = "freezing" /\ run'[r].status = "failed"
             \/ /\ run'[r].status \notin Early
                /\ job[w].kind \in Calls \/ (job[w].kind = "freeze" /\ At(w, "preview"))
  <2>1. JobFits(job[w]) /\ job[w] \in Job
    BY RunTypes
  <2>2. Batches \subseteq Calls /\ {"resume", "cancel", "verify"} \subseteq Calls
    BY DEF Batches, Phase, Calls, Admitted
  <2>3. CASE EnterBatch(w) \/ CompletePhase(w) \/ StallPhase(w)
    <3>1. job[w].kind \in Batches /\ job[w].phase \in Batches
      BY <2>3, RunTypes DEF EnterBatch, CompletePhase, StallPhase, At, Recording
    <3>2. phaseOf(w).active \notin Early
      BY <3>1 DEF phaseOf, Batches, Phase, Early
    <3>3. CompletePhase(w) => job[w].outcome \notin Early
      BY SMTT(40), <2>1, <3>1 DEF CompletePhase, At, JobFits, AboutTo, Batches, Phase, Early
    <3>4. run'[r].status \in {phaseOf(w).active, job[w].outcome, "paused"}
          /\ (run'[r].status \in {phaseOf(w).active, "paused"} \/ CompletePhase(w))
      BY ZenonT(60), <1>1, <2>3, FinishSteps DEF EnterBatch, CompletePhase, StallPhase, Abort, FinishPreview,
         FinishResume, FinishCancel, FinishVerify, At
    <3> QED
      BY <2>2, <3>1, <3>2, <3>3, <3>4 DEF Early
  <2>4. CASE Abort(w)
    <3>1. job[w].kind \in Batches \union {"freeze"} /\ job[w].pc = "abort"
      BY <2>1, <2>4, KindsKnown DEF Abort, At
    <3>2. \/ run[r].status = "freezing" /\ run'[r].status = "failed"
          \/ job[w].kind \in Batches /\ run'[r].status = "paused"
      BY ZenonT(60), <1>1, <3>1, FinishSteps DEF EnterBatch, CompletePhase, StallPhase, FinishPreview,
         FinishResume, FinishCancel, FinishVerify, At
    <3> QED
      BY <2>2, <3>2 DEF Early
  <2>5. CASE FinishPreview(w)
    <3>1. job[w].kind = "freeze" /\ job[w].pc = "preview"
      BY <2>1, <2>5, KindsKnown DEF FinishPreview, At
    <3>2. run'[r].status = "preview"
      BY <1>1, <3>1, FinishSteps DEF EnterBatch, CompletePhase, StallPhase, Abort,
         FinishResume, FinishCancel, FinishVerify, At
    <3> QED
      BY <3>1, <3>2 DEF Early, At
  <2>6. CASE FinishResume(w)
    <3>1. job[w].kind = "resume" /\ job[w].pc = "reopened" /\ job[w].seen \in Batches
      BY <2>1, <2>6, KindsKnown DEF FinishResume, At, JobFits, AboutTo
    <3>2. run'[r].status = Phase[job[w].seen].resumed
      BY <1>1, <3>1, FinishSteps DEF EnterBatch, CompletePhase, StallPhase, Abort,
         FinishPreview, FinishCancel, FinishVerify, At
    <3> QED
      BY SMTT(40), <2>2, <3>1, <3>2 DEF Early, Batches, Phase
  <2>7. CASE FinishCancel(w)
    <3>1. job[w].kind = "cancel" /\ job[w].pc = "cancelled"
      BY SMTT(40), <2>1, <2>7, KindsKnown DEF FinishCancel, At
    <3>2. run'[r].status = "cancelled"
      BY <1>1, <3>1, FinishSteps DEF EnterBatch, CompletePhase, StallPhase, Abort,
         FinishPreview, FinishResume, FinishVerify, At
    <3> QED
      BY <2>2, <3>1, <3>2 DEF Early
  <2>8. CASE FinishVerify(w)
    <3>1. /\ job[w].kind = "verify" /\ job[w].pc = "verified"
          /\ job[w].outcome \in Admitted["verify"]
      BY SMTT(40), <2>1, <2>8, KindsKnown DEF FinishVerify, At, JobFits, AboutTo
    <3>2. run'[r].status = job[w].outcome
      BY <1>1, <3>1, FinishSteps DEF EnterBatch, CompletePhase, StallPhase, Abort,
         FinishPreview, FinishResume, FinishCancel, At
    <3> QED
      BY <2>2, <3>1, <3>2 DEF Early, Admitted
  <2> QED
    BY <1>1, <2>3, <2>4, <2>5, <2>6, <2>7, <2>8 DEF Finishes
<1>2. {"ready", "paused"} \intersect Early = {} /\ {"preview", "applying", "restoring"} \intersect Early = {}
  BY DEF Early
<1>3. CASE \E w \in Workers : runOf(w) = r /\ Finishes(w)
  BY <1>1, <1>3
<1>4. CASE \/ run[r].status = "preview" /\ run'[r].status = "ready"
           \/ run[r].status \in {"applying", "restoring"} /\ run'[r].status = "paused"
  BY <1>2, <1>4
<1> QED
  BY <1>3, <1>4, StatusSteps

LEMMA FreezeStep == TypeInv /\ FreezeInv /\ [Next]_vars => FreezeInv'
<1>1. ASSUME TypeInv, FreezeInv, Next PROVE FreezeInv'
  <2>1. \A r \in Runs : run'[r].status = "none" => run[r].status = "none"
    BY <1>1, EarlySteps DEF Early
  <2>2. \A r \in Runs : run[r].status \notin Early => run'[r].status \notin Early
    BY <1>1, EarlySteps DEF Early
  <2>3. \A w \in Workers : \/ job'[w] = job[w] \/ Call(w) \/ Step(w) \/ Failure(w)
    BY <1>1, OtherSteps, OthersStay
  \* A freeze comes from a freeze or is the first call of its run.
  <2>4. ASSUME NEW w \in Workers, job'[w].kind = "freeze"
        PROVE  \/ job[w].kind = "freeze" /\ job'[w].run = job[w].run
               \/ job'[w].run \in Runs /\ createPreviewRun(w, job'[w].run)
    <3>1. CASE Call(w)
      BY <1>1, <2>4, <3>1, CallSteps DEF Calls, Admitted
    <3>2. CASE Step(w) \/ Failure(w)
      BY <1>1, <2>4, <3>2, SameMoves DEF SameCall, NoJob
    <3> QED
      BY <2>3, <2>4, <3>1, <3>2
  <2>5. ASSUME NEW w \in Workers, NEW r \in Runs, createPreviewRun(w, r)
        PROVE  /\ run[r].status = "none" /\ run'[r].status = "freezing"
               /\ \A v \in Workers \ {w} : job'[v] = job[v]
               /\ Frozen(r) = {} /\ Frozen(r)' = {}
    <3>1. run[r].status = "none" /\ run'[r].status = "freezing"
      BY <1>1, <2>5, RunTypes DEF createPreviewRun, Run
    <3>2. \A v \in Workers \ {w} : job'[v] = job[v]
      BY <1>1, <2>5, OthersStay DEF Call
    <3>3. Frozen(r) = {} /\ UNCHANGED backup
      BY <1>1, <2>5, <3>1 DEF FreezeInv, createPreviewRun, data
    <3> QED
      BY <3>1, <3>2, <3>3 DEF Frozen
  <2>6. ASSUME NEW r \in Runs, run'[r].status = "none"
        PROVE  Frozen(r)' = {} /\ \A w \in Workers : job'[w].kind = "freeze" => job'[w].run # r
    <3>1. Frozen(r) = {} /\ \A w \in Workers : job[w].kind = "freeze" => runOf(w) # r
      BY <1>1, <2>1, <2>6 DEF FreezeInv
    <3>2. ~\E w \in Workers : FreezeSnapshot(w) /\ runOf(w) = r
      BY <1>1, <3>1, RunTypes, KindsKnown DEF FreezeSnapshot, At
    <3> QED
      BY <1>1, <2>4, <2>5, <2>6, <3>1, <3>2, FrozenSteps DEF runOf
  <2>7. ASSUME NEW v \in Workers, NEW w \in Workers, job'[v].kind = "freeze",
               job'[w].kind = "freeze", job'[v].run = job'[w].run
        PROVE  v = w
    <3>1. CASE createPreviewRun(v, job'[v].run) /\ job'[v].run \in Runs
      BY <1>1, <2>4, <2>5, <2>7, <3>1 DEF FreezeInv, runOf
    <3>2. CASE createPreviewRun(w, job'[w].run) /\ job'[w].run \in Runs
      BY <1>1, <2>4, <2>5, <2>7, <3>2 DEF FreezeInv, runOf
    <3> QED
      BY <1>1, <2>4, <2>7, <3>1, <3>2 DEF FreezeInv, runOf
  <2>8. ASSUME NEW w \in Workers, NEW r \in Runs, Snapshots(job'[w]), job'[w].run = r
        PROVE  run'[r].status \in {"freezing", "failed"} /\ Frozen(r)' = {}
    <3>1. CASE createPreviewRun(w, r)
      BY <2>5, <3>1
    <3>2. CASE job[w].kind = "freeze" /\ job[w].run = r
      <4>1. Snapshots(job[w]) /\ ~FreezeSnapshot(w)
        <5>1. Call(w) => job[w].pc = "idle"
          BY DEF Call, createPreviewRun, pause, Begin, recoverStaleRuns, At
        <5>2. ~Call(w)
          BY <1>1, <3>2, <5>1, OwnJob DEF JobFits, PcsOf
        <5>3. FreezeSnapshot(w) => Step(w)
          BY DEF Step
        <5>4. CASE job'[w] = job[w] /\ ~Step(w)
          BY <2>8, <5>3, <5>4
        <5> QED
          BY SMTT(40), <1>1, <2>3, <2>8, <3>2, <5>2, <5>3, <5>4, SnapshotOnce
      <4>2. run[r].status \in {"freezing", "failed"} /\ Frozen(r) = {}
        BY <1>1, <3>2, <4>1 DEF FreezeInv, runOf
      <4>3. \A v \in Workers : job[v].kind = "freeze" /\ runOf(v) = r => v = w
        BY <1>1, <3>2 DEF FreezeInv, runOf
      <4>4. ~\E v \in Workers : FreezeSnapshot(v) /\ runOf(v) = r
        <5>1. \A v \in Workers : FreezeSnapshot(v) => job[v].kind = "freeze"
          BY <1>1, RunTypes, KindsKnown DEF FreezeSnapshot, At
        <5> QED
          BY <4>1, <4>3, <5>1
      <4>5. ~\E v \in Workers : /\ runOf(v) = r
                                /\ \/ job[v].kind \in Calls
                                   \/ job[v].kind = "freeze" /\ At(v, "preview")
        BY <1>1, <4>1, <4>2, <4>3 DEF FreezeInv, Snapshots, AboutTo, At, Early
      <4>6. run'[r].status \in {"freezing", "failed"}
        BY <1>1, <4>2, <4>5, EarlySteps DEF Early
      <4> QED
        BY <1>1, <4>2, <4>4, <4>6, FrozenSteps
    <3> QED
      BY <2>4, <2>8, <3>1, <3>2 DEF Snapshots
  <2>9. ASSUME NEW w \in Workers,
               job'[w].kind \in Calls \union {"pause"} \/ job'[w].phase = "restore"
        PROVE  job'[w].run \in Runs /\ run'[job'[w].run].status \notin Early
    <3>1. CASE Call(w)
      <4>1. \A kind \in Calls : Admitted[kind] \intersect Early = {}
        BY DEF Admitted, Calls, Early
      <4>2. \A p \in Batches : Phase[p].active \notin Early
        BY DEF Batches, Phase, Early
      <4>3. job'[w].run \in Runs /\ run[job'[w].run].status \notin Early
        BY <1>1, <2>9, <3>1, <4>1, <4>2, CallSteps DEF Calls, Admitted, Early
      <4> QED
        BY <2>2, <4>3
    <3>2. CASE SameCall(w) \/ job'[w] = job[w]
      BY <1>1, <2>2, <2>9, <3>2 DEF FreezeInv, SameCall, runOf
    <3> QED
      BY <1>1, <2>3, <2>9, <3>1, <3>2, SameMoves DEF NoJob, Calls, Admitted
  <2>10. \A w \in Workers : Snapshots(job'[w]) => job'[w].run \in Runs
    BY <1>1, JobsKept DEF JobsFit, JobFits, Snapshots, AboutTo
  <2> QED
    BY <2>6, <2>7, <2>8, <2>9, <2>10 DEF FreezeInv, runOf
<1>2. CASE UNCHANGED vars
  BY <1>2 DEF vars, FreezeInv, Snapshots, AboutTo, Frozen, runOf
<1> QED
  BY <1>1, <1>2

LEMMA FreezeInit == Init => FreezeInv
  BY DEF Init, FreezeInv, NoJob, Snapshots, Frozen, Calls, Admitted, AboutTo, runOf
=============================================================================
