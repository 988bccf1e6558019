---------------------------- MODULE DateMigration ----------------------------
(***************************************************************************)
(* The timecard date migration of src/imports/api/timecarddatemigrations   *)
(* together with the time entry writes it has to share the data with.      *)
(*                                                                         *)
(* A run freezes the legacy dates of the entries (backups), applies its    *)
(* conversion batch by batch, may be paused, resumed, cancelled, verified, *)
(* and restored batch by batch.  Every call of a migration method is a job *)
(* of a worker; each of its database operations is a step, and between two *)
(* steps its lease may expire, the process may die, another call may run.  *)
(* applyBatch and restoreBatch are the same program over other statuses    *)
(* (Phase).  The backups' checksums and the statistics are left out.       *)
(***************************************************************************)
EXTENDS MigrationLease, FiniteSets, FiniteSetsExt

CONSTANTS
    ModernDates,     \* date fields users write, beside keeping what is there
    Timecards,       \* time entries with legacy dates
    Workers,         \* slots for calls of the migration methods
    BatchSize,       \* records of a batch (batchSize)
    RecoveryErrors,  \* may a batch that recovers an intent fail before its own write?
    Budgets          \* the situations to start in, and their bounds: which entries have
                     \* legacy dates, how many faults and edits, how high a fence

ASSUME DateMigrationAssumption ==
    /\ BatchSize \in Nat \ {0}
    /\ RecoveryErrors \in BOOLEAN
    /\ Budgets \subseteq [legacy: SUBSET Timecards, faults: Nat, edits: Nat, fence: Nat]
    /\ None \notin Runs /\ None \notin Nat
    /\ IsFiniteSet(Timecards)
    /\ ModernDates \subseteq {"canonical", "edited"}

VARIABLES
    entry,     \* entry[t]: date fields, dateRevision; by is history: whose conversion it is
    run,       \* run[r]: the document of TimecardDateMigrationRuns
    backup,    \* backup[r][t]: the document of TimecardDateMigrationBackups
    job,       \* job[w]: the call worker w is executing
    edit,      \* edit[u]: the time entry write of writer u
    late,      \* conversions sent by calls that are gone or gave up on the answer
    budget     \* the bounds of this behaviour, and how much of them is spent

vars == <<lock, entry, run, backup, job, edit, late, budget>>

Phase ==
    [apply |-> [open |-> "pending", intent |-> "applying-record", done |-> "applied",
                conflict |-> "conflict", failed |-> "failed", active |-> "applying",
                complete |-> "applied", incomplete |-> "applied-with-conflicts",
                resumed |-> "ready"],
     restore |-> [open |-> "applied", intent |-> "restoring-record", done |-> "restored",
                conflict |-> "restore-conflict", failed |-> "restore-failed",
                active |-> "restoring", complete |-> "restored",
                incomplete |-> "restored-with-conflicts", resumed |-> "restore-ready"]]

\* Backup statuses that buildProgress counts as applied.
Applied == {"applied", "restoring-record", "restored", "restore-conflict", "restore-failed"}

BackupStatuses == {"none", "pending", "applying-record", "conflict", "failed"} \union Applied

\* The statuses assertRunStatus admits a call in.
Admitted ==
    [apply   |-> {"ready", "applying"},
     restore |-> {"applied", "applied-with-conflicts", "verified", "restore-ready", "restoring"},
     resume  |-> {"paused"},
     cancel  |-> {"preview", "ready", "paused"},
     verify  |-> {"applied", "applied-with-conflicts", "verified", "restored",
                  "restored-with-conflicts"}]

Calls == DOMAIN Admitted
Batches == DOMAIN Phase

RunStatuses == {"none", "freezing", "failed", "preview", "paused", "applying", "restoring",
                "cancelled"} \union UNION {Admitted[c] : c \in Calls}

Run == [status: RunStatuses, pausedPhase: Batches \union {"none"}, pauseRequested: BOOLEAN,
        leaseFence: Nat]

Backup == [status: BackupStatuses, revision: Nat \union {None}, fence: Nat]

Entry == [value: {"legacy", "canonical", "edited", "absent"}, revision: Nat,
          by: Runs \union {None}]

Pcs == {"idle", "acquire", "stamp", "renew", "enter", "next", "claim", "read", "write",
        "reread", "recheck", "journal", "finish", "complete", "stall", "park", "parked",
        "claimPause", "stampPause", "finalizePause", "release", "abort", "reopen",
        "reopened", "weigh", "cancelled", "compare", "verified", "snapshot", "preview",
        "clear", "sweep"}

\* then is the step after a renewal; seen the run's status, or the paused phase,
\* as the call has read it; outcome what it is about to write.
NoJob == [pc |-> "idle", kind |-> "none", run |-> None, fence |-> 0, phase |-> "none",
          then |-> "idle", seen |-> "none", outcome |-> "none", todo |-> {},
          listed |-> 0, card |-> None, recovering |-> FALSE]

Job == [pc: Pcs, kind: Calls \union {"none", "freeze", "pause", "recover"},
        run: Runs \union {None}, fence: Nat, phase: Batches \union {"none"}, then: Pcs,
        seen: RunStatuses \union Batches, outcome: RunStatuses \union BackupStatuses,
        todo: SUBSET Timecards, listed: Nat, card: Timecards \union {None},
        recovering: BOOLEAN]

NoEdit == [pc |-> "idle", card |-> None, revision |-> 0]

Edit == [pc: {"idle", "renew", "write", "release"},
         card: Timecards \union {None}, revision: Nat]

TypeOK == /\ LeaseTypeOK
          /\ entry \in [Timecards -> Entry]
          /\ run \in [Runs -> Run]
          /\ backup \in [Runs -> [Timecards -> Backup]]
          /\ job \in [Workers -> Job]
          /\ edit \in [Writers -> Edit]
          /\ late \subseteq [run: Runs, card: Timecards, phase: Batches]
          /\ budget \in [legacy: SUBSET Timecards, faults: Nat, edits: Nat, fence: Nat,
                         faulted: Nat, edited: Nat]

Init == /\ lock = ensureLockDocument
        /\ budget \in {[legacy |-> b.legacy, faults |-> b.faults, edits |-> b.edits,
                        fence |-> b.fence, faulted |-> 0, edited |-> 0] : b \in Budgets}
        /\ entry = [t \in Timecards |->
                       [value |-> IF t \in budget.legacy THEN "legacy" ELSE "absent",
                        revision |-> 0, by |-> None]]
        /\ run = [r \in Runs |-> [status |-> "none", pausedPhase |-> "none",
                                  pauseRequested |-> FALSE, leaseFence |-> 0]]
        /\ backup = [r \in Runs |-> [t \in Timecards |->
                        [status |-> "none", revision |-> None, fence |-> 0]]]
        /\ job = [w \in Workers |-> NoJob]
        /\ edit = [u \in Writers |-> NoEdit]
        /\ late = {}

data == <<entry, backup, late>>
others == <<edit, budget>>
-----------------------------------------------------------------------------
(* Helpers on jobs and on the run document.                                *)

runOf(w) == job[w].run
phaseOf(w) == Phase[job[w].phase]

\* One of the expiries, crashes and failed operations the budget allows.
Fault == /\ budget.faulted < budget.faults
         /\ budget' = [budget EXCEPT !.faulted = @ + 1]

At(w, pc) == job[w].pc = pc
Goto(w, pc) == job' = [job EXCEPT ![w].pc = pc]
\* The way out of a call, which needs no more than the lease to release.
Leave(w, pc) ==
    job' = [job EXCEPT ![w] = [NoJob EXCEPT !.pc = pc, !.kind = job[w].kind,
               !.run = runOf(w), !.fence = job[w].fence, !.phase = job[w].phase,
               !.seen = IF pc = "abort" THEN job[w].seen ELSE "none",
               !.then = IF job[w].kind = "recover" THEN job[w].then ELSE "idle"]]
RenewThen(w, pc) == job' = [job EXCEPT ![w].pc = "renew", ![w].then = pc]
Return(w) == job' = [job EXCEPT ![w] = NoJob]
ToJournal(w, outcome) ==
    job' = [job EXCEPT ![w].pc = "journal", ![w].outcome = outcome, ![w].then = "idle",
                       ![w].recovering = FALSE]
\* The record is dealt with; the next one, if any, follows.
NextInBatch(w) ==
    job' = [job EXCEPT ![w].pc = "next", ![w].card = None, ![w].outcome = "none",
                       ![w].recovering = FALSE]

Statuses(r, S) == {t \in Timecards : backup[r][t].status \in S}

\* The run's document as a guarded update of job w finds it.
Unchanged(w, statuses) == /\ run[runOf(w)].status \in statuses
                          /\ run[runOf(w)].leaseFence = job[w].fence

SetStatus(w, status) == run' = [run EXCEPT ![runOf(w)].status = status]

Pause(w) == run' = [run EXCEPT ![runOf(w)].status = "paused",
                               ![runOf(w)].pausedPhase = job[w].phase]

\* An update guarded by status and leaseFence, then the step that follows a match
\* or a mismatch.
Guarded(w, statuses, Update, matched, mismatched) ==
    \/ Unchanged(w, statuses) /\ Update /\ Leave(w, matched)
    \/ ~Unchanged(w, statuses) /\ UNCHANGED run /\ Leave(w, mismatched)

\* What a failed step leads to: the catch of applyBatch and restoreBatch pauses the
\* run, that of createPreviewRun fails it, the finally of the others releases.
Catch(w) == IF job[w].kind \in Batches \union {"freeze"} THEN "abort" ELSE "release"

\* The dates an update of run r replaces in entry t, and those it leaves.
Before(r, t, p) == IF p = "apply" THEN <<"legacy", backup[r][t].revision>>
                                  ELSE <<"canonical", backup[r][t].revision + 1>>
After(r, t, p) == IF p = "apply" THEN <<"canonical", backup[r][t].revision + 1>>
                                 ELSE <<"legacy", backup[r][t].revision + 2>>
Dates(t) == <<entry[t].value, entry[t].revision>>

\* Mutant of Convert: the selector names the date fields without their revision.
ConvertAnyRevision(r, t, p) ==
    /\ Dates(t)[1] = Before(r, t, p)[1]
    /\ entry' = [entry EXCEPT ![t] = [value |-> After(r, t, p)[1],
                                      revision |-> @.revision + 1,
                                      by |-> IF p = "apply" THEN r ELSE None]]

\* The compare-and-swap of a batch: sourceSelector and dateFieldsUpdate.
Convert(r, t, p) ==
    /\ Dates(t) = Before(r, t, p)
    /\ entry' = [entry EXCEPT ![t] = [value |-> After(r, t, p)[1],
                                      revision |-> After(r, t, p)[2],
                                      by |-> IF p = "apply" THEN r ELSE None]]
-----------------------------------------------------------------------------
(* Calls and their leases.                                                 *)

Begin(w, r, kind) ==
    /\ At(w, "idle")
    /\ run[r].status \in Admitted[kind]
    /\ job' = [job EXCEPT ![w] = [NoJob EXCEPT !.pc = "acquire", !.kind = kind, !.run = r,
                                    !.seen = IF kind \in Batches THEN run[r].status
                                             ELSE "none",
                                    !.phase = IF kind \in Batches THEN kind ELSE "none"]]
    /\ UNCHANGED <<lock, run, data, others>>

createPreviewRun(w, r) ==
    /\ At(w, "idle")
    /\ run[r].status = "none"
    /\ run' = [run EXCEPT ![r].status = "freezing"]
    /\ job' = [job EXCEPT ![w] = [NoJob EXCEPT !.pc = "acquire", !.kind = "freeze",
                                               !.run = r]]
    /\ UNCHANGED <<lock, data, others>>

\* A refused freeze fails its run; other refused calls leave everything alone.
acquireLease(w) ==
    /\ At(w, "acquire")
    /\ \/ /\ CanAcquire(runOf(w)) /\ lock.fence < budget.fence
          /\ TakeLease(runOf(w), job[w].kind)
          /\ job' = [job EXCEPT ![w].pc = "stamp", ![w].fence = lock.fence + 1]
          /\ UNCHANGED run
       \/ /\ ~CanAcquire(runOf(w))
          /\ run' = IF job[w].kind = "freeze" /\ run[runOf(w)].status = "freezing"
                    THEN [run EXCEPT ![runOf(w)].status = "failed"] ELSE run
          /\ Return(w)
          /\ UNCHANGED lock
    /\ UNCHANGED <<data, others>>

\* The second write of acquireLease, guarded by nothing.
stampLease(w) ==
    /\ At(w, "stamp")
    /\ run' = [run EXCEPT ![runOf(w)].leaseFence = job[w].fence]
    /\ CASE job[w].kind \in Batches -> RenewThen(w, "enter")
         [] job[w].kind = "freeze" -> RenewThen(w, "snapshot")
         [] job[w].kind = "resume" -> Goto(w, "reopen")
         [] job[w].kind = "cancel" -> Goto(w, "weigh")
         [] job[w].kind = "verify" -> Goto(w, "compare")
    /\ UNCHANGED <<lock, data, others>>

\* A batch that recovers an intent and loses its lease before its own write goes on
\* only if RecoveryErrors; otherwise it is as if its process had died there.
MayFail(w) == job[w].recovering => RecoveryErrors

Renew(w) ==
    /\ At(w, "renew")
    /\ \/ /\ renewLease(runOf(w), job[w].fence, job[w].kind)
          /\ job' = [job EXCEPT ![w].pc = job[w].then, ![w].then = "idle"]
       \/ /\ ~renewLease(runOf(w), job[w].fence, job[w].kind)
          /\ IF job[w].then = "write"
             THEN /\ MayFail(w)
                  /\ ToJournal(w, phaseOf(w).failed)
             ELSE Leave(w, Catch(w))
    /\ UNCHANGED <<lock, run, data, others>>

Release(w) ==
    /\ At(w, "release")
    /\ releaseLease(runOf(w), job[w].fence)
    /\ IF job[w].kind = "recover"
       THEN job' = [job EXCEPT ![w] = [NoJob EXCEPT !.pc = job[w].then, !.kind = "recover",
                        !.run = IF job[w].then = "clear" THEN None ELSE runOf(w)]]
       ELSE Return(w)
    /\ UNCHANGED <<run, data, others>>
-----------------------------------------------------------------------------
(* Pausing: by the pause method, at the end of a batch, by the recovery.   *)

\* Mutant of FinalizePause: the operation of the call is stored as the phase.
FinalizePauseOfCall(w) ==
    run' = [run EXCEPT ![runOf(w)].status = "paused", ![runOf(w)].pausedPhase = job[w].kind]

\* finalizePauseWithLease up to its release.
FinalizePause(w) ==
    run' = [run EXCEPT ![runOf(w)] =
        IF @.leaseFence # job[w].fence THEN @
        ELSE IF @.status \in {phaseOf(w).active, "paused"}
             THEN [@ EXCEPT !.status = "paused", !.pausedPhase = job[w].phase,
                            !.pauseRequested = FALSE]
             ELSE [@ EXCEPT !.pauseRequested = FALSE]]

pause(w, r) ==
    \E p \in Batches :
        /\ At(w, "idle")
        /\ run[r].status = Phase[p].active
        /\ run' = [run EXCEPT ![r].pauseRequested = TRUE]
        /\ job' = [job EXCEPT ![w] = [NoJob EXCEPT !.pc = "claimPause", !.kind = "pause",
                                                   !.run = r, !.phase = p]]
        /\ UNCHANGED <<lock, data, others>>

\* The fence a batch that parked, or the recovery that saw it parked, expects.
PauseClaimable(w) ==
    IF job[w].kind = "pause" THEN CanClaimPause(runOf(w), job[w].phase)
    ELSE CanClaimParked(runOf(w), job[w].phase, job[w].fence)

claimPauseLease(w) ==
    /\ At(w, "claimPause")
    /\ \/ /\ PauseClaimable(w) /\ lock.fence < budget.fence
          /\ TakeLease(runOf(w), job[w].phase)
          /\ job' = [job EXCEPT ![w].pc = "stampPause", ![w].fence = lock.fence + 1]
       \/ /\ ~PauseClaimable(w)
          /\ IF job[w].kind = "recover"
             THEN job' = [job EXCEPT ![w] = [NoJob EXCEPT !.pc = "sweep", !.kind = "recover",
                                                          !.run = runOf(w)]]
             ELSE Return(w)
          /\ UNCHANGED lock
    /\ UNCHANGED <<run, data, others>>

stampPause(w) ==
    /\ At(w, "stampPause")
    /\ IF run[runOf(w)].status \in {phaseOf(w).active, "paused"}
       THEN /\ run' = [run EXCEPT ![runOf(w)].leaseFence = job[w].fence]
            /\ Goto(w, "finalizePause")
       ELSE /\ job' = [job EXCEPT ![w].pc = "release", ![w].then = "sweep"]
            /\ UNCHANGED run
    /\ UNCHANGED <<lock, data, others>>

finalizePauseWithLease(w) ==
    /\ At(w, "finalizePause")
    /\ FinalizePause(w)
    /\ Leave(w, "release")
    /\ UNCHANGED <<lock, data, others>>

\* recoverStaleRuns: the lock is read once and acted upon in the steps that follow.
recoverStaleRuns(w) ==
    /\ At(w, "idle")
    /\ LET owner == IF lock.live THEN lock.owner ELSE None
           pausing == owner # None /\ ~lock.busy /\ run[owner].pauseRequested
       IN job' = [job EXCEPT ![w] = [NoJob EXCEPT
                    !.pc = IF pausing THEN "claimPause"
                           ELSE IF owner # None THEN "sweep" ELSE "clear",
                    !.kind = "recover", !.run = owner,
                    !.fence = IF pausing THEN lock.fence ELSE 0,
                    !.then = IF pausing THEN "clear" ELSE "idle",
                    !.phase = IF ~pausing THEN "none"
                              ELSE IF run[owner].status = "restoring"
                                   THEN "restore" ELSE "apply"]]
    /\ UNCHANGED <<lock, run, data, others>>

clearExpiredLock(w) ==
    /\ At(w, "clear")
    /\ ClearExpired
    /\ Goto(w, "sweep")
    /\ UNCHANGED <<run, data, others>>

\* Every run but the owner seen is taken for abandoned; a freeze only if its
\* heartbeat is old, which may be so of a slow one too.
sweepRuns(w) ==
    /\ At(w, "sweep")
    /\ \E stale \in SUBSET {r \in Runs : run[r].status = "freezing"} :
          run' = [r \in Runs |->
              IF r = runOf(w) THEN run[r]
              ELSE IF run[r].status \in {"applying", "restoring"}
                   THEN [run[r] EXCEPT !.status = "paused",
                            !.pausedPhase = IF run[r].status = "applying"
                                            THEN "apply" ELSE "restore"]
              ELSE IF r \in stale THEN [run[r] EXCEPT !.status = "failed"]
              ELSE run[r]]
    /\ Return(w)
    /\ UNCHANGED <<lock, data, others>>
-----------------------------------------------------------------------------
(* A batch of applyBatch or restoreBatch.                                  *)

\* The run becomes active and the batch lists its records.
EnterBatch(w) ==
    /\ At(w, "enter")
    /\ IF Unchanged(w, {job[w].seen})
       THEN /\ SetStatus(w, phaseOf(w).active)
            /\ LET found == Statuses(runOf(w), {phaseOf(w).open, phaseOf(w).intent})
                   size == Min({BatchSize, Cardinality(found)})
               IN \E listed \in kSubset(size, found) :
                      job' = [job EXCEPT ![w].pc = "next", ![w].todo = listed,
                                         ![w].listed = size]
       ELSE Leave(w, "abort") /\ UNCHANGED run
    /\ UNCHANGED <<lock, data, others>>

\* acknowledgePauseRequest, before each record and before the end.
NextRecord(w) ==
    /\ At(w, "next")
    /\ \/ /\ run[runOf(w)].pauseRequested
          /\ FinalizePause(w)
          /\ Leave(w, "release")
       \/ /\ ~run[runOf(w)].pauseRequested
          /\ UNCHANGED run
          /\ IF run[runOf(w)].status = "paused" THEN Leave(w, "release")
             ELSE IF job[w].todo = {} THEN Goto(w, "finish")
             ELSE RenewThen(w, "claim")
    /\ UNCHANGED <<lock, data, others>>

\* The intent is journaled before the entry is touched.  It is taken over from a
\* call with an older fence only.  A claim whose answer is lost ends the batch.
ClaimRecord(w) ==
    /\ At(w, "claim")
    /\ \E t \in job[w].todo :
          LET b == backup[runOf(w)][t]
              takeover == b.status = phaseOf(w).intent /\ b.fence < job[w].fence
          IN \/ /\ b.status = phaseOf(w).open \/ takeover
                /\ backup' = [backup EXCEPT ![runOf(w)][t].status = phaseOf(w).intent,
                                            ![runOf(w)][t].fence = job[w].fence]
                /\ \/ /\ job' = [job EXCEPT ![w].pc = "read", ![w].card = t,
                                            ![w].todo = @ \ {t}, ![w].recovering = takeover]
                      /\ UNCHANGED budget
                   \/ /\ Fault
                      /\ Leave(w, "abort")
             \/ /\ ~(b.status = phaseOf(w).open \/ takeover)
                /\ job' = [job EXCEPT ![w].pc = "next", ![w].todo = @ \ {t}]
                /\ UNCHANGED <<backup, budget>>
    /\ UNCHANGED <<lock, run, entry, late, edit>>

ReadRecord(w) ==
    /\ At(w, "read")
    /\ LET dates == Dates(job[w].card) IN
       \/ /\ job[w].recovering /\ dates = After(runOf(w), job[w].card, job[w].phase)
          /\ ToJournal(w, phaseOf(w).done)
       \/ /\ ~(job[w].recovering /\ dates = After(runOf(w), job[w].card, job[w].phase))
          /\ IF dates = Before(runOf(w), job[w].card, job[w].phase)
             THEN RenewThen(w, "write") ELSE ToJournal(w, phaseOf(w).conflict)
    /\ UNCHANGED <<lock, run, data, others>>

\* An error of the read, or of the renewal, with nothing written by this call.
ReadFails(w) ==
    /\ At(w, "read") \/ (At(w, "renew") /\ job[w].then = "write")
    /\ Fault
    /\ MayFail(w)
    /\ ToJournal(w, phaseOf(w).failed)
    /\ UNCHANGED <<lock, run, data, edit>>

WriteRecord(w) ==
    /\ At(w, "write")
    /\ LET t == job[w].card IN
       \/ /\ Convert(runOf(w), t, job[w].phase)
          /\ ToJournal(w, phaseOf(w).done)
       \/ /\ Dates(t) # Before(runOf(w), t, job[w].phase)
          /\ Goto(w, "reread")
          /\ UNCHANGED entry
    /\ UNCHANGED <<lock, run, backup, late, others>>

\* The write ends in an error although it has happened, or while it is on its way.
WriteFails(w) ==
    /\ At(w, "write")
    /\ Fault
    /\ \/ Convert(runOf(w), job[w].card, job[w].phase) /\ UNCHANGED late
       \/ /\ late' = late \union {[run |-> runOf(w), card |-> job[w].card,
                                   phase |-> job[w].phase]}
          /\ UNCHANGED entry
    /\ Goto(w, "recheck")
    /\ UNCHANGED <<lock, run, backup, edit>>

LandLate(l) ==
    /\ l \in late
    /\ late' = late \ {l}
    /\ Convert(l.run, l.card, l.phase) \/ (Dates(l.card) # Before(l.run, l.card, l.phase)
                                            /\ UNCHANGED entry)
    /\ UNCHANGED <<lock, run, backup, job, others>>

\* After a mismatch the entry decides between done and conflict; after an error it
\* decides between done and an intent that is kept for a later batch.
RereadRecord(w) ==
    /\ At(w, "reread") \/ At(w, "recheck")
    /\ IF Dates(job[w].card) = After(runOf(w), job[w].card, job[w].phase)
       THEN ToJournal(w, phaseOf(w).done)
       ELSE IF At(w, "reread") THEN ToJournal(w, phaseOf(w).conflict)
       ELSE NextInBatch(w)
    /\ UNCHANGED <<lock, run, data, others>>

\* Mutant of JournalRecord: the outcome is stored whoever has claimed the record since.
JournalUnguarded(w) ==
    /\ At(w, "journal")
    /\ backup' = [backup EXCEPT ![runOf(w)][job[w].card].status = job[w].outcome]
    /\ NextInBatch(w)
    /\ UNCHANGED <<lock, run, entry, late, others>>

\* The fence of a record is consulted while it is an intent only: elsewhere it is 0.
JournalRecord(w) ==
    /\ At(w, "journal")
    /\ backup' = [backup EXCEPT ![runOf(w)][job[w].card] =
          IF @.status = phaseOf(w).intent /\ @.fence = job[w].fence
          THEN [@ EXCEPT !.status = job[w].outcome, !.fence = 0] ELSE @]
    /\ NextInBatch(w)
    /\ UNCHANGED <<lock, run, entry, late, others>>

Conflicts(w) == Statuses(runOf(w), {phaseOf(w).conflict})
Failures(w) == Statuses(runOf(w), {phaseOf(w).failed})

\* Mutant of Remaining: intents whose outcome is uncertain are not counted.
RemainingCertain(w) == Statuses(runOf(w), {phaseOf(w).open, phaseOf(w).failed})

Remaining(w) == Statuses(runOf(w), {phaseOf(w).open, phaseOf(w).intent, phaseOf(w).failed})

FinishBatch(w) ==
    /\ At(w, "finish")
    /\ IF Remaining(w) = {}
       THEN job' = [job EXCEPT ![w].pc = "renew", ![w].then = "complete", ![w].listed = 0,
                        ![w].outcome = IF Conflicts(w) = {} THEN phaseOf(w).complete
                                       ELSE phaseOf(w).incomplete]
       ELSE IF job[w].listed = 0 /\ Failures(w) # {} THEN RenewThen(w, "stall")
       ELSE job' = [job EXCEPT ![w].pc = "park", ![w].listed = 0]
    /\ UNCHANGED <<lock, run, data, others>>

CompletePhase(w) ==
    /\ At(w, "complete")
    /\ Guarded(w, {phaseOf(w).active},
               run' = [run EXCEPT ![runOf(w)].status = job[w].outcome,
                                  ![runOf(w)].pausedPhase = "none",
                                  ![runOf(w)].pauseRequested = FALSE],
               "release", "abort")
    /\ UNCHANGED <<lock, data, others>>

\* Nothing is left to list but records that failed: the run waits for a resume.
StallPhase(w) ==
    /\ At(w, "stall")
    /\ Guarded(w, {phaseOf(w).active}, Pause(w), "release", "abort")
    /\ UNCHANGED <<lock, data, others>>

parkLease(w) ==
    /\ At(w, "park")
    /\ \/ Holds(runOf(w), job[w].fence) /\ ParkLease /\ Goto(w, "parked")
       \/ ~Holds(runOf(w), job[w].fence) /\ UNCHANGED lock /\ Leave(w, "abort")
    /\ UNCHANGED <<run, data, others>>

\* Mutant of CheckParked: the batch returns as soon as its lease is parked.
ReturnParked(w) == /\ At(w, "parked")
                   /\ Return(w)
                   /\ UNCHANGED <<lock, run, data, others>>

\* The batch looks once more for a pause that was requested while it still held
\* the lease, when the pause call could not take it.
CheckParked(w) ==
    /\ At(w, "parked")
    /\ IF run[runOf(w)].pauseRequested THEN Goto(w, "claimPause") ELSE Return(w)
    /\ UNCHANGED <<lock, run, data, others>>

\* The catch blocks of a batch and of createPreviewRun.
Abort(w) ==
    /\ At(w, "abort")
    /\ Leave(w, "release")
    /\ IF job[w].kind = "freeze"
       THEN run' = [run EXCEPT ![runOf(w)].status =
                        IF Unchanged(w, {"freezing"}) THEN "failed" ELSE @]
       ELSE IF Unchanged(w, {job[w].seen, phaseOf(w).active}) THEN Pause(w)
       ELSE UNCHANGED run
    /\ UNCHANGED <<lock, data, others>>
-----------------------------------------------------------------------------
(* The other methods.                                                      *)

\* The freeze reads the entries in one batch and inserts their backups.
FreezeSnapshot(w) ==
    /\ At(w, "snapshot")
    /\ backup' = [backup EXCEPT ![runOf(w)] = [t \in Timecards |->
          IF entry[t].value = "legacy"
          THEN [status |-> "pending", revision |-> entry[t].revision, fence |-> 0]
          ELSE @[t]]]
    /\ IF Unchanged(w, {"freezing"}) THEN RenewThen(w, "preview") ELSE Leave(w, "abort")
    /\ UNCHANGED <<lock, run, entry, late, others>>

FinishPreview(w) ==
    /\ At(w, "preview")
    /\ Guarded(w, {"freezing"}, SetStatus(w, "preview"), "release", "abort")
    /\ UNCHANGED <<lock, data, others>>

\* prepareBackup takes no lease: its update names the exact state it has read.
prepareBackup(r) ==
    /\ run[r].status = "preview"
    /\ run' = [run EXCEPT ![r].status = "ready"]
    /\ UNCHANGED <<lock, data, job, others>>

\* Failed records of the paused phase become open again.
ReopenFailed(w) ==
    /\ At(w, "reopen")
    /\ IF run[runOf(w)].status # "paused" THEN Leave(w, "release") /\ UNCHANGED backup
       ELSE LET p == IF run[runOf(w)].pausedPhase = "restore" THEN "restore" ELSE "apply" IN
            /\ backup' = [backup EXCEPT ![runOf(w)] = [t \in Timecards |->
                  IF @[t].status = Phase[p].failed
                  THEN [@[t] EXCEPT !.status = Phase[p].open] ELSE @[t]]]
            /\ job' = [job EXCEPT ![w].pc = "renew", ![w].then = "reopened", ![w].seen = p]
    /\ UNCHANGED <<lock, run, entry, late, others>>

FinishResume(w) ==
    /\ At(w, "reopened")
    /\ Guarded(w, {"paused"},
               run' = [run EXCEPT ![runOf(w)].status = Phase[job[w].seen].resumed,
                                  ![runOf(w)].pausedPhase = "none",
                                  ![runOf(w)].pauseRequested = FALSE],
               "release", "release")
    /\ UNCHANGED <<lock, data, others>>

\* Mutant of WeighCancel: intents whose outcome is uncertain are not weighed.
WeighApplied(w) ==
    /\ At(w, "weigh")
    /\ IF /\ run[runOf(w)].status \in Admitted["cancel"]
          /\ Statuses(runOf(w), Applied) = {}
       THEN job' = [job EXCEPT ![w].pc = "renew", ![w].then = "cancelled",
                               ![w].seen = run[runOf(w)].status]
       ELSE Leave(w, "release")
    /\ UNCHANGED <<lock, run, data, others>>

\* A cancel is refused while a record is applied or its outcome is uncertain.
WeighCancel(w) ==
    /\ At(w, "weigh")
    /\ IF /\ run[runOf(w)].status \in Admitted["cancel"]
          /\ Statuses(runOf(w), Applied \union {"applying-record"}) = {}
       THEN job' = [job EXCEPT ![w].pc = "renew", ![w].then = "cancelled",
                               ![w].seen = run[runOf(w)].status]
       ELSE Leave(w, "release")
    /\ UNCHANGED <<lock, run, data, others>>

FinishCancel(w) ==
    /\ At(w, "cancelled")
    /\ Guarded(w, {job[w].seen}, SetStatus(w, "cancelled"), "release", "release")
    /\ UNCHANGED <<lock, data, others>>

\* Mutant of ReportOK: the journal is believed, the entries are not compared.
ReportOfJournal(r, status) ==
    IF status \in {"restored", "restored-with-conflicts"}
    THEN Statuses(r, Applied \ {"restored"}) = {}
    ELSE \A t \in Timecards : backup[r][t].status \in {"none", "applied"}

\* The report of verify: every record of the phase done and still in force, no entry
\* gone, and after an apply no legacy date left anywhere.
ReportOK(r, status) ==
    /\ \A t \in Timecards : backup[r][t].status # "none" => entry[t].value # "absent"
    /\ IF status \in {"restored", "restored-with-conflicts"}
       THEN /\ Statuses(r, Applied \ {"restored"}) = {}
            /\ \A t \in Statuses(r, {"restored"}) : Dates(t) = After(r, t, "restore")
       ELSE /\ \A t \in Timecards : backup[r][t].status # "none" =>
                  /\ backup[r][t].status = "applied"
                  /\ Dates(t) = After(r, t, "apply")
            /\ \A t \in Timecards : entry[t].value # "legacy"

CompareRecords(w) ==
    /\ At(w, "compare")
    /\ LET status == run[runOf(w)].status
           ok == ReportOK(runOf(w), status)
           restoring == status \in {"restored", "restored-with-conflicts"}
           next == IF ok /\ ~restoring THEN "verified"
                   ELSE IF ~ok /\ status = "verified"
                        THEN IF Statuses(runOf(w), {"conflict"}) # {}
                             THEN "applied-with-conflicts" ELSE "applied"
                   ELSE IF ~ok /\ restoring THEN "restored-with-conflicts"
                   ELSE status
       IN IF status \in Admitted["verify"]
          THEN job' = [job EXCEPT ![w].pc = "renew", ![w].then = "verified",
                                  ![w].seen = status, ![w].outcome = next]
          ELSE Leave(w, "release")
    /\ UNCHANGED <<lock, run, data, others>>

FinishVerify(w) ==
    /\ At(w, "verified")
    /\ Guarded(w, {job[w].seen}, SetStatus(w, job[w].outcome), "release", "release")
    /\ UNCHANGED <<lock, data, others>>
-----------------------------------------------------------------------------
(* Time entry writes, and what may go wrong.                               *)

\* A user's edit, conversion or deletion takes a writer lease and reads the entry.
\* (A call that reads it earlier and finds it changed gives up, as RenewEdit may.)
StartEdit(u, t) ==
    /\ edit[u].pc = "idle" /\ budget.edited < budget.edits
    /\ Unlocked
    /\ entry[t].value # "absent"
    /\ lock.fence < budget.fence /\ AcquireWriterLease(u)
    /\ edit' = [edit EXCEPT ![u] = [pc |-> "renew", card |-> t,
                                    revision |-> entry[t].revision]]
    /\ budget' = [budget EXCEPT !.edited = @ + 1]
    /\ UNCHANGED <<run, data, job>>

\* assertWriterLease, right before the write.
RenewEdit(u) ==
    /\ edit[u].pc = "renew"
    /\ \/ /\ renewTimecardDateWriteLease(u)
          /\ edit' = [edit EXCEPT ![u].pc = "write"]
       \/ edit' = [edit EXCEPT ![u].pc = "release", ![u].card = None, ![u].revision = 0]
    /\ UNCHANGED <<lock, run, data, job, budget>>

\* The compare-and-swap on the date fields and revision the writer has read.
SaveEdit(u, v) ==
    LET t == edit[u].card IN
    /\ edit[u].pc = "write"
    /\ \/ /\ entry[t].value # "absent" /\ entry[t].revision = edit[u].revision
          /\ entry' = [entry EXCEPT ![t] = [value |-> v, revision |-> @.revision + 1,
                                            by |-> None]]
       \/ /\ entry[t].value = "absent" \/ entry[t].revision # edit[u].revision
          /\ UNCHANGED entry
    /\ edit' = [edit EXCEPT ![u].pc = "release", ![u].card = None, ![u].revision = 0]
    /\ UNCHANGED <<lock, run, backup, late, job, budget>>

\* A new task, or hours, or a project: the date fields stay, their revision is raised.
editOwnedTimecardTask(u) == edit[u].pc = "write" /\ SaveEdit(u, entry[edit[u].card].value)

\* Modern dates, which may be those a run proposes.
updateTimeCard(u) == \E v \in ModernDates : SaveEdit(u, v)

deleteOwnedTimeCard(u) == SaveEdit(u, "absent")

ReleaseEdit(u) ==
    /\ edit[u].pc = "release"
    /\ ReleaseWriterLease(u)
    /\ edit' = [edit EXCEPT ![u] = NoEdit]
    /\ UNCHANGED <<run, data, job, budget>>

\* A lease nobody will renew any more runs out in time; one that somebody still
\* relies on does so when its holder stalls, which counts as a fault.
Expire ==
    /\ \/ /\ ExpireLease
          /\ \/ /\ \A w \in Workers : job[w].fence # lock.fence
                /\ UNCHANGED budget
             \/ /\ \E w \in Workers : job[w].fence = lock.fence
                /\ Fault
       \/ /\ \E u \in Writers : ExpireWriter(u)
          /\ Fault
    /\ UNCHANGED <<run, data, job, edit>>

\* A process dies; a write it has sent may still land.
Crash(w) ==
    /\ ~At(w, "idle")
    /\ Fault
    /\ late' = late \union
          (IF At(w, "write")
           THEN {[run |-> runOf(w), card |-> job[w].card, phase |-> job[w].phase]} ELSE {})
    /\ Return(w)
    /\ UNCHANGED <<lock, run, entry, backup, edit>>

\* A database operation of a call fails; those on a record are ReadFails and WriteFails.
Fails(w) ==
    /\ job[w].pc \in {"enter", "next", "journal", "finish", "complete", "stall", "park",
                      "parked", "reopen", "reopened", "weigh", "cancelled", "compare",
                      "verified", "snapshot", "preview"}
    /\ Fault
    /\ Leave(w, Catch(w))
    /\ UNCHANGED <<lock, run, data, edit>>

Batch(w) == \/ EnterBatch(w) \/ NextRecord(w) \/ ClaimRecord(w) \/ ReadRecord(w)
            \/ WriteRecord(w) \/ RereadRecord(w) \/ JournalRecord(w) \/ FinishBatch(w)
            \/ CompletePhase(w) \/ StallPhase(w) \/ parkLease(w) \/ CheckParked(w)

Step(w) == \/ acquireLease(w) \/ stampLease(w) \/ Renew(w) \/ Release(w) \/ Abort(w)
           \/ claimPauseLease(w) \/ stampPause(w) \/ finalizePauseWithLease(w)
           \/ clearExpiredLock(w) \/ sweepRuns(w)
           \/ FreezeSnapshot(w) \/ FinishPreview(w) \/ ReopenFailed(w) \/ FinishResume(w)
           \/ WeighCancel(w) \/ FinishCancel(w) \/ CompareRecords(w) \/ FinishVerify(w)
           \/ Batch(w)

Failure(w) == ReadFails(w) \/ WriteFails(w) \/ Crash(w) \/ Fails(w)

Call(w) == \/ \E r \in Runs : \/ createPreviewRun(w, r) \/ pause(w, r)
                              \/ \E kind \in Calls : Begin(w, r, kind)
           \/ recoverStaleRuns(w)

Writer(u) == \/ \E t \in Timecards : StartEdit(u, t)
             \/ RenewEdit(u) \/ ReleaseEdit(u)
             \/ editOwnedTimecardTask(u) \/ updateTimeCard(u) \/ deleteOwnedTimeCard(u)

Next == \/ \E w \in Workers : Call(w) \/ Step(w) \/ Failure(w)
        \/ \E r \in Runs : prepareBackup(r)
        \/ \E l \in late : LandLate(l)
        \/ \E u \in Writers : Writer(u)
        \/ Expire

Spec == Init /\ [][Next]_vars
-----------------------------------------------------------------------------
\* The two kinds of lease exclude each other in whatever order they are asked for: the
\* lock never carries both, and as long as no call has failed and no lease has run out
\* under its holder, nobody writes a time entry while a run owns the data.
WritersExcluded ==
    /\ lock.writers # {} => migrationLeaseIsAvailable
    /\ budget.faulted = 0 /\ (\E u \in Writers : edit[u].pc \in {"renew", "write"})
           => migrationLeaseIsAvailable

\* No update of run r to entry t that is still on its way can take effect.
NothingLate(r, t, p) ==
    [run |-> r, card |-> t, phase |-> p] \in late => Dates(t) # Before(r, t, p)

\* The journal of a run is true of the entries, after any crash, lost answer or late
\* write: a record that is not journaled as converted is not, and never becomes so;
\* one journaled as applied was converted, one journaled as restored was taken back,
\* and what is there now is that or a later change.
JournalTrue ==
    \A r \in Runs, t \in Timecards :
        LET b == backup[r][t] IN
        /\ b.status \in {"none", "pending", "conflict", "failed"} =>
               entry[t].by # r /\ NothingLate(r, t, "apply")
        /\ b.status \in {"applied", "restore-conflict", "restore-failed"} =>
               /\ NothingLate(r, t, "restore")
               /\ entry[t].revision > b.revision
               /\ entry[t].revision = b.revision + 1 => Dates(t) = After(r, t, "apply")
        /\ b.status = "restored" =>
               /\ entry[t].revision >= b.revision + 2
               /\ entry[t].revision = b.revision + 2 => Dates(t) = After(r, t, "restore")

\* What the status of a run tells the administrator is true of its records: a phase
\* that is complete has none open, failed or uncertain, and a clean one no conflict.
StatusTrue ==
    \A r \in Runs :
        /\ run[r].status \in {"applied", "applied-with-conflicts", "verified"} =>
               Statuses(r, {"pending", "applying-record", "failed"}) = {}
        /\ run[r].status \in {"applied", "verified"} => Statuses(r, {"conflict"}) = {}
        /\ run[r].status \in {"restored", "restored-with-conflicts"} =>
               Statuses(r, {"applied", "restoring-record", "restore-failed"}) = {}
        /\ run[r].status = "restored" => Statuses(r, {"restore-conflict"}) = {}

\* Unless a call has failed, a pause that was requested while a batch held the lease
\* is seen: the run is not left parked and waiting for a batch, because the pause call
\* or the batch is still to look at it.
PauseIsSeen ==
    \A r \in Runs :
        budget.faulted = 0 /\ lock.owner = r /\ ~lock.busy /\ lock.live
            /\ run[r].pauseRequested
        => \E w \in Workers : runOf(w) = r /\ job[w].pc \in {"parked", "claimPause"}

\* As long as no call has failed and no lease has run out under its holder, a run becomes
\* verified only while every entry it converted has the converted dates: no edit slips in
\* after the comparison.
VerifiedIsTrue ==
    [][\A r \in Runs :
         budget.faulted = 0 /\ run[r].status # "verified" /\ run'[r].status = "verified"
         => \A t \in Timecards : backup[r][t].status # "none" =>
                Dates(t) = After(r, t, "apply")]_vars

\* "Restore the applied records instead of cancelling" (methods.js): no entry keeps the
\* dates of a run that was cancelled.
CancelLeavesNothing ==
    \A r \in Runs : run[r].status = "cancelled" => \A t \in Timecards : entry[t].by # r

\* What the migration promises to the owners of the entries holds of every
\* interleaving of batches, pauses, recoveries and edits: its leases, journals and
\* compare-and-swap updates implement MigratedEntries.
Promise == INSTANCE MigratedEntries WITH
    frozen <- [r \in Runs |-> [t \in Timecards |-> backup[r][t].revision]],
    cancelled <- {r \in Runs : run[r].status = "cancelled"}

KeepsPromise == Promise!Spec
=============================================================================
