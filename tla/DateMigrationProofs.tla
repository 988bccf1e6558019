------------------------ MODULE DateMigrationProofs --------------------------
(***************************************************************************)
(* Proofs about DateMigration, second part: its journal and the status of  *)
(* its runs are true, a cancelled run leaves nothing behind, and its       *)
(* steps keep what MigratedEntries promises.                               *)
(***************************************************************************)
EXTENDS DateMigrationTypes

-----------------------------------------------------------------------------
(* How entries and their backups change.                                   *)

\* The dates that an update is about are there, or they have passed.
Open(r, t, p) == Dates(t) = Before(r, t, p)
Past(r, t, p) == Dates(t) = After(r, t, p) \/ entry[t].revision > After(r, t, p)[2]

\* The claim of a record that its call still has.
Mine(w) == /\ backup[runOf(w)][job[w].card].status = phaseOf(w).intent
           /\ backup[runOf(w)][job[w].card].fence = job[w].fence

LEMMA DataTypes == ASSUME TypeInv
  PROVE /\ entry \in [Timecards -> Entry]
        /\ backup \in [Runs -> [Timecards -> Backup]]
        /\ \A r \in Runs : backup[r] \in [Timecards -> Backup]
        /\ \A t \in Timecards : entry[t].revision \in Nat
        /\ \A r \in Runs, t \in Timecards : t \in Frozen(r) => backup[r][t].revision \in Nat
        /\ \A r \in Runs : Frozen(r) \subseteq Timecards
  BY DEF TypeInv, TypeOK, BackupsFit, Frozen, Entry

\* An entry and a backup do not change in the same step.
LEMMA OneChanges == ASSUME Next PROVE UNCHANGED entry \/ UNCHANGED backup
<1>1. ASSUME NEW w \in Workers,
             FreezeSnapshot(w) \/ ReopenFailed(w) \/ JournalRecord(w) \/ ClaimRecord(w)
      PROVE  UNCHANGED entry
  BY <1>1 DEF FreezeSnapshot, ReopenFailed, JournalRecord, ClaimRecord
<1> QED
  BY SMTT(40), <1>1, BackupSteps

\* Each change of an entry raises its revision by one, and none but a conversion
\* that was open and on its way leaves the entry to a run.
LEMMA Forward ==
    ASSUME TypeInv, Next, NEW t \in Timecards, entry'[t] # entry[t]
    PROVE  /\ entry'[t].revision = entry[t].revision + 1
           /\ UNCHANGED backup
           /\ \/ entry'[t].by = None
              \/ \E r \in Runs : /\ t \in Frozen(r) /\ entry'[t].by = r
                                 /\ Open(r, t, "apply") /\ Landing(r, t, "apply")
                                 /\ Dates(t)' = After(r, t, "apply")
<1>1. UNCHANGED backup
  BY OneChanges
<1>2. /\ entry \in [Timecards -> Entry] /\ entry[t].revision \in Nat
      /\ \A r \in Runs, x \in Timecards : x \in Frozen(r) => backup[r][x].revision \in Nat
  BY DataTypes
<1>3. ASSUME NEW r \in Runs, NEW x \in Timecards, NEW p \in Batches, x \in Frozen(r),
             Convert(r, x, p), Landing(r, x, p)
      PROVE  /\ entry'[t].revision = entry[t].revision + 1
             /\ \/ entry'[t].by = None
                \/ /\ t \in Frozen(r) /\ entry'[t].by = r
                   /\ Open(r, t, "apply") /\ Landing(r, t, "apply")
                   /\ Dates(t)' = After(r, t, "apply")
  <2>1. x = t /\ p \in {"apply", "restore"}
    BY <1>2, <1>3 DEF Convert, Batches, Phase
  <2>2. entry'[t] = [value |-> After(r, t, p)[1], revision |-> After(r, t, p)[2],
                     by |-> IF p = "apply" THEN r ELSE None]
    BY <1>2, <1>3, <2>1 DEF Convert
  <2>3. backup[r][t].revision \in Nat /\ Dates(t) = Before(r, t, p)
    BY <1>2, <1>3, <2>1 DEF Convert
  <2>4. entry'[t].revision = entry[t].revision + 1
    BY <2>1, <2>2, <2>3 DEF Dates, Before, After
  <2>5. CASE p = "apply"
    <3>1. Dates(t)' = After(r, t, "apply")
      BY <2>2, <2>5 DEF Dates, After
    <3> QED
      BY <1>3, <2>1, <2>2, <2>3, <2>4, <2>5, <3>1 DEF Open
  <2>6. CASE p # "apply"
    BY <2>2, <2>4, <2>6
  <2> QED
    BY <2>5, <2>6
<1>4. ASSUME NEW u \in Writers, NEW v, SaveEdit(u, v)
      PROVE  entry'[t].revision = entry[t].revision + 1 /\ entry'[t].by = None
  BY <1>2, <1>4 DEF SaveEdit, Entry
<1>5. entry' # entry
  OBVIOUS
<1> QED
  BY <1>1, <1>3, <1>4, <1>5, EntrySteps

\* How the backup of a record changes once it is there.
LEMMA RecordSteps ==
    ASSUME TypeInv, FreezeInv, Next, NEW r \in Runs, NEW t \in Timecards, t \in Frozen(r),
           backup'[r][t] # backup[r][t]
    PROVE  /\ backup'[r][t].revision = backup[r][t].revision
           /\ \/ \E p \in Batches : /\ backup[r][t].status = Phase[p].failed
                                    /\ backup'[r][t].status = Phase[p].open
              \/ \E w \in Workers : /\ ClaimRecord(w) /\ runOf(w) = r /\ t \in job[w].todo
                                    /\ \/ backup[r][t].status = phaseOf(w).open
                                       \/ /\ backup[r][t].status = phaseOf(w).intent
                                          /\ backup[r][t].fence < job[w].fence
                                    /\ backup'[r][t].status = phaseOf(w).intent
                                    /\ backup'[r][t].fence = job[w].fence
              \/ \E w \in Workers : /\ JournalRecord(w) /\ runOf(w) = r /\ job[w].card = t
                                    /\ Mine(w) /\ backup'[r][t].status = job[w].outcome
<1>1. /\ backup \in [Runs -> [Timecards -> Backup]]
      /\ \A q \in Runs : backup[q] \in [Timecards -> Backup]
      /\ backup[r][t] \in Backup
  BY DataTypes
<1>2. ASSUME NEW w \in Workers, FreezeSnapshot(w) PROVE FALSE
  <2>1. job[w].kind = "freeze" /\ Snapshots(job[w])
    BY <1>2, RunTypes, KindsKnown DEF FreezeSnapshot, At, Snapshots, AboutTo
  <2>2. Frozen(runOf(w)) = {}
    BY <2>1 DEF FreezeInv
  <2>3. runOf(w) # r
    BY <2>2
  <2> QED
    BY <1>1, <1>2, <2>3 DEF FreezeSnapshot
<1>3. ASSUME NEW w \in Workers, ReopenFailed(w)
      PROVE  /\ backup'[r][t].revision = backup[r][t].revision
             /\ \E p \in Batches : /\ backup[r][t].status = Phase[p].failed
                                   /\ backup'[r][t].status = Phase[p].open
  <2>1. PICK p \in Batches :
             backup' = [backup EXCEPT ![runOf(w)] = [x \in Timecards |->
                  IF @[x].status = Phase[p].failed
                  THEN [@[x] EXCEPT !.status = Phase[p].open] ELSE @[x]]]
    BY <1>3 DEF ReopenFailed, Batches, Phase
  <2>2. runOf(w) = r
    BY <1>1, <2>1
  <2>3. backup'[r][t] = IF backup[r][t].status = Phase[p].failed
                        THEN [backup[r][t] EXCEPT !.status = Phase[p].open] ELSE backup[r][t]
    BY <1>1, <2>1, <2>2
  <2> QED
    BY <1>1, <2>3 DEF Backup
<1>4. ASSUME NEW w \in Workers, ClaimRecord(w)
      PROVE  /\ backup'[r][t].revision = backup[r][t].revision
             /\ runOf(w) = r /\ t \in job[w].todo
             /\ \/ backup[r][t].status = phaseOf(w).open
                \/ /\ backup[r][t].status = phaseOf(w).intent
                   /\ backup[r][t].fence < job[w].fence
             /\ backup'[r][t].status = phaseOf(w).intent
             /\ backup'[r][t].fence = job[w].fence
  <2>1. PICK x \in job[w].todo :
             /\ \/ backup[runOf(w)][x].status = phaseOf(w).open
                \/ /\ backup[runOf(w)][x].status = phaseOf(w).intent
                   /\ backup[runOf(w)][x].fence < job[w].fence
             /\ backup' = [backup EXCEPT ![runOf(w)][x].status = phaseOf(w).intent,
                                         ![runOf(w)][x].fence = job[w].fence]
    BY <1>4 DEF ClaimRecord
  <2>2. runOf(w) \in Runs /\ x \in Timecards
    BY <1>4, RunTypes DEF ClaimRecord, At, Job
  <2>3. runOf(w) = r /\ x = t
    BY <1>1, <2>1, <2>2
  <2>4. backup'[r][t] = [backup[r][t] EXCEPT !.status = phaseOf(w).intent, !.fence = job[w].fence]
    BY <1>1, <2>1, <2>3
  <2> QED
    BY <1>1, <2>1, <2>3, <2>4 DEF Backup
<1>5. ASSUME NEW w \in Workers, JournalRecord(w)
      PROVE  /\ backup'[r][t].revision = backup[r][t].revision
             /\ runOf(w) = r /\ job[w].card = t
             /\ Mine(w) /\ backup'[r][t].status = job[w].outcome
  <2>1. runOf(w) \in Runs /\ job[w].card \in Timecards
    BY <1>5, SendFits DEF JournalRecord, At, Handling
  <2>2. runOf(w) = r /\ job[w].card = t
    BY <1>1, <1>5, <2>1 DEF JournalRecord
  <2>3. backup'[r][t] = IF /\ backup[r][t].status = phaseOf(w).intent
                           /\ backup[r][t].fence = job[w].fence
                        THEN [backup[r][t] EXCEPT !.status = job[w].outcome, !.fence = 0]
                        ELSE backup[r][t]
    BY <1>1, <1>5, <2>2 DEF JournalRecord
  <2> QED
    BY <1>1, <2>2, <2>3 DEF Backup, Mine
<1> QED
  BY <1>2, <1>3, <1>4, <1>5, BackupSteps

\* A frozen revision does not change.
LEMMA RevisionKept ==
    ASSUME TypeInv, FreezeInv, Next, NEW r \in Runs, NEW t \in Timecards, t \in Frozen(r)
    PROVE  /\ t \in Frozen(r)' /\ backup'[r][t].revision = backup[r][t].revision
           /\ \A p : Before(r, t, p)' = Before(r, t, p) /\ After(r, t, p)' = After(r, t, p)
<1>1. t \in Frozen(r)'
  BY BackupsKept DEF BackupsGrow
<1>2. backup'[r][t].revision = backup[r][t].revision
  BY RecordSteps
<1> QED
  BY <1>1, <1>2 DEF Before, After

\* A record becomes frozen by the snapshot of its legacy dates.
LEMMA NewRecords ==
    ASSUME TypeInv, Next, NEW r \in Runs, NEW t \in Timecards, t \notin Frozen(r),
           t \in Frozen(r)'
    PROVE  /\ UNCHANGED entry /\ entry[t].value = "legacy"
           /\ backup'[r][t] = [status |-> "pending", revision |-> entry[t].revision, fence |-> 0]
<1>1. PICK w \in Workers : FreezeSnapshot(w) /\ runOf(w) = r
  BY FrozenSteps
<1>2. backup \in [Runs -> [Timecards -> Backup]]
  BY DataTypes
<1>3. backup'[r][t] = IF entry[t].value = "legacy"
             THEN [status |-> "pending", revision |-> entry[t].revision, fence |-> 0]
             ELSE backup[r][t]
  BY <1>1, <1>2 DEF FreezeSnapshot
<1> QED
  BY <1>1, <1>3 DEF FreezeSnapshot, Frozen

-----------------------------------------------------------------------------
(* The dates of the entries.                                               *)

Converted == Applied \ {"restored"}

DatesInv ==
    \A r \in Runs, t \in Timecards :
        /\ entry[t].by = r => t \in Frozen(r) /\ Dates(t) = After(r, t, "apply")
        /\ t \in Frozen(r) =>
             /\ Open(r, t, "apply") \/ entry[t].revision > backup[r][t].revision
             /\ backup[r][t].status \in Converted => Past(r, t, "apply")
             /\ backup[r][t].status = "restored" => Past(r, t, "restore")
             /\ backup[r][t].status \in {"pending", "conflict", "failed"} => entry[t].by # r

\* What has passed stays so, and dates that have been replaced do not come back.
LEMMA PastStays ==
    ASSUME TypeInv, FreezeInv, Next, NEW r \in Runs, NEW t \in Timecards, t \in Frozen(r),
           NEW p \in Batches, Past(r, t, p)
    PROVE  Past(r, t, p)'
<1>1. /\ After(r, t, p)' = After(r, t, p) /\ backup[r][t].revision \in Nat
      /\ entry[t].revision \in Nat
  BY RevisionKept, DataTypes
<1>2. CASE entry'[t] = entry[t]
  BY <1>1, <1>2 DEF Past, Dates
<1>3. CASE entry'[t] # entry[t]
  <2>1. entry'[t].revision = entry[t].revision + 1
    BY <1>3, Forward
  <2>2. entry[t].revision >= After(r, t, p)[2] /\ After(r, t, p)[2] \in Nat
    BY <1>1 DEF Past, Dates, After
  <2> QED
    BY <1>1, <2>1, <2>2 DEF Past
<1> QED
  BY <1>2, <1>3

LEMMA OpenShuts ==
    ASSUME TypeInv, FreezeInv, DatesInv, Next, NEW r \in Runs, NEW t \in Timecards,
           t \in Frozen(r), NEW p \in Batches, p = "restore" => Past(r, t, "apply"),
           Open(r, t, p)'
    PROVE  Open(r, t, p) /\ entry'[t] = entry[t]
<1>1. /\ Before(r, t, p)' = Before(r, t, p) /\ backup[r][t].revision \in Nat
      /\ entry[t].revision \in Nat
  BY RevisionKept, DataTypes
<1>2. CASE entry'[t] = entry[t]
  BY <1>1, <1>2 DEF Open, Dates
<1>3. CASE entry'[t] # entry[t]
  <2>1. entry'[t].revision = entry[t].revision + 1
    BY <1>3, Forward
  <2>2. Open(r, t, "apply") \/ entry[t].revision > backup[r][t].revision
    BY DEF DatesInv
  <2>3. entry'[t].revision = Before(r, t, p)[2]
    BY <1>1 DEF Open, Dates, Before
  <2>4. CASE p = "apply"
    BY <1>1, <2>1, <2>2, <2>3, <2>4 DEF Open, Dates, Before
  <2>5. CASE p = "restore"
    BY SMTT(40), <1>1, <2>1, <2>3, <2>5 DEF Past, Dates, Before, After
  <2> QED
    BY <2>4, <2>5 DEF Batches, Phase
<1> QED
  BY <1>2, <1>3

\* The same call is about the same record.
SameRecord(w) == /\ SameCall(w) /\ job'[w].card = job[w].card /\ job'[w].fence = job[w].fence
                 /\ Handling(job[w])

DoneStep(w) == /\ job'[w].pc = "journal" /\ job'[w].outcome = phaseOf(w).done
ConflictStep(w) == /\ job'[w].pc = "journal" /\ job'[w].outcome = phaseOf(w).conflict
FailedStep(w) == /\ job'[w].pc = "journal" /\ job'[w].outcome = phaseOf(w).failed

\* An intent that an older call has left.
Takeover(w, t) == /\ backup[runOf(w)][t].status = phaseOf(w).intent
                  /\ backup[runOf(w)][t].fence < job[w].fence

\* How a call comes to handle a record, and what it does with it.
LEMMA HandSteps ==
    ASSUME TypeInv, Next, NEW w \in Workers, Handling(job'[w])
    PROVE  \/ job'[w] = job[w]
           \/ /\ ClaimRecord(w) /\ SameCall(w) /\ job'[w].fence = job[w].fence
              /\ job'[w].pc = "read" /\ job'[w].card \in job[w].todo
              /\ \/ backup[runOf(w)][job'[w].card].status = phaseOf(w).open
                 \/ Takeover(w, job'[w].card)
              /\ job'[w].recovering = Takeover(w, job'[w].card)
              /\ backup'[runOf(w)][job'[w].card].status = phaseOf(w).intent
              /\ backup'[runOf(w)][job'[w].card].fence = job[w].fence
           \/ /\ SameRecord(w) /\ AboutTo(job[w], "write") /\ job'[w].pc = "write"
              /\ UNCHANGED data
           \/ /\ SameRecord(w) /\ job[w].pc \in {"read", "renew"} /\ FailedStep(w)
              /\ MayFail(w) /\ UNCHANGED data
           \/ /\ SameRecord(w) /\ ReadRecord(w) /\ job'[w].recovering = job[w].recovering
              /\ job'[w].pc = "renew" /\ job'[w].then = "write"
           \/ /\ SameRecord(w) /\ ReadRecord(w) /\ ConflictStep(w)
              /\ Dates(job[w].card) # Before(runOf(w), job[w].card, job[w].phase)
              /\ job[w].recovering =>
                    Dates(job[w].card) # After(runOf(w), job[w].card, job[w].phase)
           \/ /\ SameRecord(w) /\ DoneStep(w)
              /\ \/ /\ UNCHANGED entry
                    /\ Dates(job[w].card) = After(runOf(w), job[w].card, job[w].phase)
                 \/ Convert(runOf(w), job[w].card, job[w].phase)
              /\ UNCHANGED backup
           \/ /\ SameRecord(w) /\ At(w, "write") /\ job'[w].pc = "reread" /\ UNCHANGED data
              /\ Dates(job[w].card) # Before(runOf(w), job[w].card, job[w].phase)
           \/ SameRecord(w) /\ job'[w].pc = "recheck"
           \/ /\ SameRecord(w) /\ At(w, "reread") /\ ConflictStep(w) /\ UNCHANGED data
              /\ Dates(job[w].card) # After(runOf(w), job[w].card, job[w].phase)
<1>1. /\ job \in [Workers -> Job] /\ job[w] \in Job /\ JobFits(job[w])
      /\ entry \in [Timecards -> Entry]
  BY OwnJob, DataTypes
<1>2. CASE job'[w] # job[w] /\ Call(w)
  <2>1. job'[w].pc \in {"acquire", "claimPause", "sweep", "clear"}
    BY <1>2, CallSteps
  <2> QED
    BY <2>1 DEF Handling, AboutTo
<1>3. ASSUME NEW pc, Leave(w, pc), pc \in {"release", "abort"} PROVE FALSE
  BY <1>3, LeaveSame DEF Handling, AboutTo
<1>4. ASSUME Return(w) PROVE FALSE
  BY <1>4, ReturnSame DEF NoJob, Handling, AboutTo
<1>5. ASSUME NEW pc, Goto(w, pc), pc \notin {"read", "write", "reread", "recheck", "journal", "renew"}
      PROVE  FALSE
  BY <1>1, <1>5 DEF Goto, Job, Handling, AboutTo
<1>6. ASSUME NEW pc, RenewThen(w, pc), pc # "write" PROVE FALSE
  BY <1>1, <1>6 DEF RenewThen, Job, Handling, AboutTo
<1>7. ASSUME NEW pc, job'[w].pc = pc, pc \notin {"read", "write", "reread", "recheck", "journal", "renew"}
      PROVE  FALSE
  BY <1>7 DEF Handling, AboutTo
<1>8. ASSUME job'[w].pc = "renew", job'[w].then # "write" PROVE FALSE
  BY <1>8 DEF Handling, AboutTo
<1>9. CASE ClaimRecord(w)
  <2>1. PICK t \in job[w].todo :
          /\ backup[runOf(w)][t].status = phaseOf(w).open \/ Takeover(w, t)
          /\ backup' = [backup EXCEPT ![runOf(w)][t].status = phaseOf(w).intent,
                                      ![runOf(w)][t].fence = job[w].fence]
          /\ job' = [job EXCEPT ![w].pc = "read", ![w].card = t,
                                ![w].todo = @ \ {t}, ![w].recovering = Takeover(w, t)]
    <3>1. ASSUME NEW t, job' = [job EXCEPT ![w].pc = "next", ![w].todo = @ \ {t}]
          PROVE  FALSE
      BY <1>1, <1>7, <3>1 DEF Job
    <3> QED
      BY <1>3, <1>9, <3>1 DEF ClaimRecord, Takeover
  <2>2. /\ job'[w].pc = "read" /\ job'[w].card = t /\ job'[w].recovering = Takeover(w, t)
        /\ SameCall(w) /\ job'[w].fence = job[w].fence
    <3>1. job' = [job EXCEPT ![w].pc = "read", ![w].card = t,
                             ![w].todo = @ \ {t}, ![w].recovering = Takeover(w, t)]
      BY <2>1
    <3> QED
      BY <1>1, <3>1 DEF Job, SameCall
  <2>3. /\ backup'[runOf(w)][t].status = phaseOf(w).intent
        /\ backup'[runOf(w)][t].fence = job[w].fence
    <3>1. runOf(w) \in Runs /\ t \in Timecards
      BY <1>9, RunTypes DEF ClaimRecord, At, Job
    <3>2. backup \in [Runs -> [Timecards -> Backup]] /\ backup[runOf(w)][t] \in Backup
      BY <3>1, DataTypes
    <3>3. backup'[runOf(w)][t] = [backup[runOf(w)][t] EXCEPT !.status = phaseOf(w).intent,
                                                             !.fence = job[w].fence]
      BY <2>1, <3>1, <3>2
    <3> QED
      BY <3>2, <3>3 DEF Backup
  <2> QED
    BY <1>9, <2>1, <2>2, <2>3
<1>10. CASE Renew(w)
  <2>1. job[w].pc = "renew"
    BY <1>10 DEF Renew, At
  <2>2. CASE job' = [job EXCEPT ![w].pc = job[w].then, ![w].then = "idle"]
    <3>1. job'[w].pc = job[w].then
      BY <1>1, <2>2 DEF Job
    <3>2. job[w].then \in {"write", "enter", "claim", "complete", "stall", "snapshot", "preview",
                           "reopened", "cancelled", "verified"}
      BY <1>1, <2>1 DEF JobFits, RenewsFor, Job, Calls, Admitted
    <3>3. job[w].then = "write"
      BY <1>7, <3>1, <3>2
    <3> QED
      BY <1>1, <1>10, <2>1, <2>2, <3>1, <3>3 DEF Renew, SameRecord, SameCall, Job, Handling,
         AboutTo
  <2>3. CASE job[w].then = "write" /\ MayFail(w) /\ ToJournal(w, phaseOf(w).failed)
    BY <1>1, <1>10, <2>1, <2>3 DEF Renew, ToJournal, SameRecord, SameCall, FailedStep, Job,
       Handling, AboutTo
  <2>4. CASE Leave(w, Catch(w))
    BY <1>3, <2>4 DEF Catch
  <2> QED
    BY <1>10, <2>2, <2>3, <2>4 DEF Renew
<1>11. CASE ReadFails(w)
  BY <1>1, <1>11 DEF ReadFails, ToJournal, SameRecord, SameCall, FailedStep, Job, Handling,
     AboutTo, At
<1>12. CASE ReadRecord(w)
  <2>1. job[w].pc = "read" /\ Handling(job[w])
    BY <1>12 DEF ReadRecord, At, Handling
  <2>2. ASSUME NEW o, ToJournal(w, o)
        PROVE  SameRecord(w) /\ job'[w].pc = "journal" /\ job'[w].outcome = o
    BY <1>1, <2>1, <2>2 DEF ToJournal, SameRecord, SameCall, Job
  <2>3. ASSUME RenewThen(w, "write")
        PROVE  /\ SameRecord(w) /\ job'[w].recovering = job[w].recovering
               /\ job'[w].pc = "renew" /\ job'[w].then = "write"
    BY <1>1, <2>1, <2>3 DEF RenewThen, SameRecord, SameCall, Job
  <2>4. UNCHANGED data
    BY <1>12 DEF ReadRecord
  <2> QED
    BY <1>12, <2>2, <2>3, <2>4 DEF ReadRecord, DoneStep, ConflictStep, data
<1>13. CASE WriteRecord(w)
  <2>1. job[w].pc = "write" /\ Handling(job[w])
    BY <1>13 DEF WriteRecord, At, Handling, AboutTo
  <2>2. ASSUME NEW o, ToJournal(w, o)
        PROVE  SameRecord(w) /\ job'[w].pc = "journal" /\ job'[w].outcome = o
    BY <1>1, <2>1, <2>2 DEF ToJournal, SameRecord, SameCall, Job
  <2>3. ASSUME Goto(w, "reread") PROVE SameRecord(w) /\ job'[w].pc = "reread"
    BY <1>1, <2>1, <2>3 DEF Goto, SameRecord, SameCall, Job
  <2> QED
    BY <1>13, <2>1, <2>2, <2>3 DEF WriteRecord, DoneStep, At, data
<1>14. CASE WriteFails(w)
  BY <1>1, <1>14 DEF WriteFails, Goto, SameRecord, SameCall, Job, Handling, AboutTo, At
<1>15. CASE RereadRecord(w)
  <2>1. Handling(job[w]) /\ UNCHANGED data
    BY <1>15 DEF RereadRecord, At, Handling
  <2>2. ASSUME NEW o, ToJournal(w, o)
        PROVE  SameRecord(w) /\ job'[w].pc = "journal" /\ job'[w].outcome = o
    BY <1>1, <2>1, <2>2 DEF ToJournal, SameRecord, SameCall, Job
  <2>3. ~NextInBatch(w)
    BY <1>1, <1>7 DEF NextInBatch, Job
  <2> QED
    BY <1>15, <2>1, <2>2, <2>3 DEF RereadRecord, DoneStep, ConflictStep, data
<1>16. CASE JournalRecord(w)
  BY <1>1, <1>7, <1>16 DEF JournalRecord, NextInBatch, Job
<1>17. CASE \/ Abort(w) \/ FinishPreview(w) \/ FinishResume(w) \/ FinishCancel(w) \/ FinishVerify(w)
            \/ CompletePhase(w) \/ StallPhase(w) \/ finalizePauseWithLease(w)
  BY <1>3, <1>17 DEF Abort, FinishPreview, FinishResume, FinishCancel, FinishVerify,
     CompletePhase, StallPhase, finalizePauseWithLease, Guarded
<1>18. CASE Fails(w)
  BY <1>3, <1>18 DEF Fails, Catch
<1>19. CASE acquireLease(w) \/ claimPauseLease(w)
  <2>1. ASSUME NEW pc, pc \in {"stamp", "stampPause"},
               job' = [job EXCEPT ![w].pc = pc, ![w].fence = lock.fence + 1]
        PROVE  FALSE
    BY <1>1, <1>7, <2>1 DEF Job
  <2>2. ASSUME job' = [job EXCEPT ![w] = [NoJob EXCEPT !.pc = "sweep", !.kind = "recover",
                                                      !.run = runOf(w)]]
        PROVE  FALSE
    BY <1>1, <1>7, <2>2 DEF NoJob
  <2> QED
    BY <1>4, <1>19, <2>1, <2>2 DEF acquireLease, claimPauseLease
<1>20. CASE stampLease(w)
  <2>1. job[w].kind \in Calls \union {"freeze"}
    BY <1>20, OwnJob, KindsKnown DEF stampLease, At
  <2>2. \E pc \in {"enter", "snapshot", "reopen", "weigh", "compare"} : RenewThen(w, pc) \/ Goto(w, pc)
    BY <1>20, <2>1 DEF stampLease, Calls, Admitted, Batches, Phase
  <2> QED
    BY <1>5, <1>6, <2>2
<1>21. CASE Release(w)
  <2>1. CASE job[w].kind = "recover"
    <3>1. PICK q : job' = [job EXCEPT ![w] = [NoJob EXCEPT !.pc = job[w].then, !.kind = "recover",
                                                          !.run = q]]
      BY <1>21, <2>1 DEF Release
    <3>2. job'[w].pc = job[w].then /\ job[w].then \in {"clear", "sweep"}
      BY <1>1, <1>21, <2>1, <3>1 DEF NoJob, JobFits, Release, At
    <3> QED
      BY <1>7, <3>2
  <2> QED
    BY <1>4, <1>21, <2>1 DEF Release
<1>22. CASE stampPause(w)
  <2>1. ASSUME job' = [job EXCEPT ![w].pc = "release", ![w].then = "sweep"] PROVE FALSE
    BY <1>1, <1>7, <2>1 DEF Job
  <2> QED
    BY <1>5, <1>22, <2>1 DEF stampPause
<1>23. CASE clearExpiredLock(w) \/ sweepRuns(w) \/ CheckParked(w) \/ Crash(w) \/ parkLease(w)
  BY <1>3, <1>4, <1>5, <1>23 DEF clearExpiredLock, sweepRuns, CheckParked, Crash, parkLease
<1>24. CASE FreezeSnapshot(w) \/ WeighCancel(w) \/ CompareRecords(w) \/ ReopenFailed(w)
  <2>1. ASSUME NEW pc, pc \in {"cancelled", "verified", "reopened"}, NEW seen, NEW o,
               \/ job' = [job EXCEPT ![w].pc = "renew", ![w].then = pc, ![w].seen = seen]
               \/ job' = [job EXCEPT ![w].pc = "renew", ![w].then = pc, ![w].seen = seen,
                                     ![w].outcome = o]
        PROVE  FALSE
    BY <1>1, <1>8, <2>1 DEF Job
  <2>2. CASE FreezeSnapshot(w)
    BY <1>3, <1>6, <2>2 DEF FreezeSnapshot
  <2>3. CASE WeighCancel(w)
    BY <1>3, <2>1, <2>3 DEF WeighCancel
  <2>4. CASE CompareRecords(w)
    BY <1>3, <2>1, <2>4 DEF CompareRecords
  <2>5. CASE ReopenFailed(w)
    BY <1>3, <2>1, <2>5 DEF ReopenFailed
  <2> QED
    BY <1>24, <2>2, <2>3, <2>4, <2>5
<1>25. CASE EnterBatch(w)
  <2>1. ASSUME NEW listed, NEW size, job' = [job EXCEPT ![w].pc = "next", ![w].todo = listed,
                                                        ![w].listed = size]
        PROVE  FALSE
    BY <1>1, <1>7, <2>1 DEF Job
  <2> QED
    BY <1>3, <1>25, <2>1 DEF EnterBatch
<1>26. CASE NextRecord(w)
  BY <1>3, <1>5, <1>6, <1>26 DEF NextRecord
<1>27. CASE FinishBatch(w)
  <2>1. ASSUME NEW o, job' = [job EXCEPT ![w].pc = "renew", ![w].then = "complete",
                                         ![w].listed = 0, ![w].outcome = o]
        PROVE  FALSE
    BY <1>1, <1>8, <2>1 DEF Job
  <2>2. ~(job' = [job EXCEPT ![w].pc = "park", ![w].listed = 0])
    BY <1>1, <1>7 DEF Job
  <2> QED
    BY <1>6, <1>27, <2>1, <2>2 DEF FinishBatch
<1>28. \/ job'[w] = job[w]
       \/ Call(w) \/ Step(w) \/ Failure(w)
  BY OtherSteps, OthersStay
<1> QED
  BY <1>2, <1>9, <1>10, <1>11, <1>12, <1>13, <1>14, <1>15, <1>16, <1>17, <1>18, <1>19, <1>20,
     <1>21, <1>22, <1>23, <1>24, <1>25, <1>26, <1>27, <1>28 DEF Step, Batch, Failure

-----------------------------------------------------------------------------
(* Late writes.                                                            *)

\* A call that may still send its update.
Sending(j) == j.pc = "read" \/ AboutTo(j, "write")

\* An update that may still take effect.
Pending(r, t, p) == \/ Order(r, t, p) \in late
                    \/ \E w \in Workers : Sending(job[w]) /\ Sent(w) = Order(r, t, p)

LateInv ==
    \A l \in late :
        /\ l.phase = "restore" => Past(l.run, l.card, "apply")
        /\ Open(l.run, l.card, l.phase) => backup[l.run][l.card].status = Phase[l.phase].intent

\* No update but that of w can convert its record.
Alone(w) ==
    /\ job[w].phase = "apply" => entry[job[w].card].by # runOf(w)
    /\ Open(runOf(w), job[w].card, job[w].phase) =>
         /\ Sent(w) \notin late
         /\ \A v \in Workers \ {w} : ~(Sending(job[v]) /\ Sent(v) = Sent(w))

\* A call that has claimed its record itself, and has not sent its update.
Claimed(w) == /\ Mine(w) /\ ~job[w].recovering
              /\ \/ job[w].pc \in {"read", "renew"}
                 \/ At(w, "journal") /\ job[w].outcome = phaseOf(w).failed

Hand(w) ==
    /\ job[w].phase = "restore" => Past(runOf(w), job[w].card, "apply")
    /\ Sending(job[w]) /\ Open(runOf(w), job[w].card, job[w].phase) =>
          backup[runOf(w)][job[w].card].status = phaseOf(w).intent
    /\ At(w, "journal") /\ job[w].outcome = phaseOf(w).done =>
          Past(runOf(w), job[w].card, job[w].phase)
    /\ At(w, "reread") => ~Open(runOf(w), job[w].card, job[w].phase)
    /\ At(w, "journal") /\ job[w].outcome = phaseOf(w).conflict =>
          /\ ~Open(runOf(w), job[w].card, job[w].phase)
          /\ Mine(w) /\ job[w].phase = "apply" => entry[job[w].card].by # runOf(w)
    /\ Claimed(w) => Alone(w)

HandInv == \A w \in Workers : Handling(job[w]) => Hand(w)

JournalInv == TypeInv /\ FenceInv /\ FreezeInv /\ DatesInv /\ LateInv /\ HandInv

LEMMA PendingFits ==
    ASSUME TypeInv, NEW r \in Runs, NEW t \in Timecards, NEW p \in Batches, Pending(r, t, p)
    PROVE  /\ t \in Frozen(r)
           /\ LateInv /\ HandInv =>
                /\ p = "restore" => Past(r, t, "apply")
                /\ Open(r, t, p) => backup[r][t].status = Phase[p].intent
<1>1. CASE Order(r, t, p) \in late
  <2>1. t \in Frozen(r)
    BY <1>1 DEF TypeInv, CardsFrozen, Order
  <2> QED
    BY <1>1, <2>1 DEF LateInv, Order
<1>2. ASSUME NEW w \in Workers, Sending(job[w]), Sent(w) = Order(r, t, p)
      PROVE  /\ t \in Frozen(r)
             /\ HandInv =>
                  /\ p = "restore" => Past(r, t, "apply")
                  /\ Open(r, t, p) => backup[r][t].status = Phase[p].intent
  <2>1. Handling(job[w]) /\ runOf(w) = r /\ job[w].card = t /\ job[w].phase = p
    BY <1>2 DEF Sending, Handling, Sent, Order
  <2>2. t \in Frozen(r)
    BY <2>1, SendFits
  <2> QED
    BY <1>2, <2>1, <2>2 DEF HandInv, Hand, phaseOf
<1> QED
  BY <1>1, <1>2 DEF Pending

LEMMA LandingPends == ASSUME NEW r, NEW t, NEW p, Landing(r, t, p) PROVE Pending(r, t, p)
  BY DEF Landing, Pending, Sending, AboutTo, At

LEMMA PastNotOpen ==
    ASSUME TypeInv, NEW r \in Runs, NEW t \in Timecards, t \in Frozen(r), NEW p \in Batches,
           Past(r, t, p)
    PROVE  ~Open(r, t, p)
<1>1. backup[r][t].revision \in Nat /\ entry[t].revision \in Nat
  BY DataTypes
<1> QED
  BY <1>1 DEF Past, Open, Dates, Before, After

\* The outcomes of a record, and the kinds of status, are different ones.
LEMMA Distinct == ASSUME NEW p \in Batches, NEW q \in Batches
  PROVE /\ Phase[p].intent \notin {Phase[q].open, Phase[q].done, Phase[q].conflict, Phase[q].failed}
        /\ Phase[p].intent = Phase[q].intent => p = q
        /\ Phase[p].done # Phase[p].conflict /\ Phase[p].done # Phase[p].failed
        /\ Phase[p].conflict # Phase[p].failed
  BY DEF Batches, Phase

\* The intent of an update that may still take effect stays journaled.
LEMMA IntentKept ==
    ASSUME JournalInv, Next, NEW r \in Runs, NEW t \in Timecards, NEW p \in Batches,
           Pending(r, t, p), Open(r, t, p)
    PROVE  backup'[r][t].status = Phase[p].intent
<1>1. t \in Frozen(r) /\ backup[r][t].status = Phase[p].intent
  BY PendingFits DEF JournalInv
<1>2. ASSUME NEW w \in Workers, JournalRecord(w), runOf(w) = r, job[w].card = t, Mine(w)
      PROVE  FALSE
  <2>1. At(w, "journal") /\ Handling(job[w]) /\ JobFits(job[w]) /\ job[w].phase \in Batches
    BY <1>2, RunTypes DEF JournalRecord, At, Handling, JournalInv, Recording
  <2>2. job[w].phase = p /\ phaseOf(w) = Phase[p] /\ ~Sending(job[w])
    BY <1>1, <1>2, <2>1, Distinct DEF Mine, phaseOf, Sending, AboutTo, At
  <2>3. job[w].outcome \in {Phase[p].done, Phase[p].conflict, Phase[p].failed} /\ ~job[w].recovering
    BY <2>1, <2>2 DEF JobFits, At
  <2>4. Hand(w)
    BY <2>1 DEF JournalInv, HandInv
  <2>5. CASE job[w].outcome = Phase[p].done
    BY <1>1, <1>2, <2>1, <2>2, <2>4, <2>5, PastNotOpen DEF Hand, JournalInv
  <2>6. CASE job[w].outcome = Phase[p].conflict
    BY <1>2, <2>1, <2>2, <2>4, <2>6 DEF Hand
  <2>7. CASE job[w].outcome = Phase[p].failed
    <3>1. Alone(w)
      BY <1>2, <2>1, <2>2, <2>3, <2>4, <2>7 DEF Hand, Claimed
    <3>2. Sent(w) = Order(r, t, p)
      BY <1>2, <2>2 DEF Sent, Order
    <3> QED
      BY <1>2, <2>2, <3>1, <3>2 DEF Alone, Pending
  <2> QED
    BY <2>3, <2>5, <2>6, <2>7
<1>3. ASSUME NEW w \in Workers, ClaimRecord(w),
             backup[r][t].status \in {phaseOf(w).open, phaseOf(w).intent},
             backup'[r][t].status = phaseOf(w).intent
      PROVE  backup'[r][t].status = Phase[p].intent
  <2>1. job[w].phase \in Batches
    BY <1>3, RunTypes DEF ClaimRecord, At, Recording, JournalInv
  <2> QED
    BY <1>1, <1>3, <2>1, Distinct DEF phaseOf
<1>4. ~\E q \in Batches : backup[r][t].status = Phase[q].failed
  BY <1>1, Distinct
<1> QED
  BY <1>1, <1>2, <1>3, <1>4, RecordSteps DEF JournalInv

LEMMA PendingKept ==
    ASSUME JournalInv, Next, NEW r \in Runs, NEW t \in Timecards, NEW p \in Batches,
           Pending(r, t, p)
    PROVE  /\ p = "restore" => Past(r, t, "apply")'
           /\ Open(r, t, p)' => backup'[r][t].status = Phase[p].intent
<1>1. t \in Frozen(r) /\ (p = "restore" => Past(r, t, "apply"))
  BY PendingFits DEF JournalInv
<1>2. p = "restore" => Past(r, t, "apply")'
  BY <1>1, PastStays DEF JournalInv, Batches, Phase
<1>3. Open(r, t, p)' => Open(r, t, p)
  BY <1>1, OpenShuts DEF JournalInv
<1> QED
  BY <1>2, <1>3, IntentKept

\* No update becomes late that could not take effect already.
LEMMA LateStep == ASSUME JournalInv, Next PROVE LateInv'
<1>1. ASSUME NEW l \in late' PROVE /\ l.run \in Runs /\ l.card \in Timecards /\ l.phase \in Batches
                                   /\ Pending(l.run, l.card, l.phase)
  <2>1. l \in Sends
    BY <1>1, LateKept DEF JournalInv
  <2>2. l = Order(l.run, l.card, l.phase)
    BY <2>1 DEF Sends, Order
  <2>3. l \in late \/ \E w \in Workers : At(w, "write") /\ Sent(w) = l
    BY <1>1, LateSteps
  <2> QED
    BY <2>1, <2>2, <2>3 DEF Sends, Pending, Sending, AboutTo, At
<1> QED
  BY <1>1, PendingKept DEF LateInv

LEMMA DatesStep == ASSUME JournalInv, Next PROVE DatesInv'
<1> SUFFICES ASSUME NEW r \in Runs, NEW t \in Timecards
             PROVE  (/\ entry[t].by = r => t \in Frozen(r) /\ Dates(t) = After(r, t, "apply")
                     /\ t \in Frozen(r) =>
                          /\ Open(r, t, "apply") \/ entry[t].revision > backup[r][t].revision
                          /\ backup[r][t].status \in Converted => Past(r, t, "apply")
                          /\ backup[r][t].status = "restored" => Past(r, t, "restore")
                          /\ backup[r][t].status \in {"pending", "conflict", "failed"} =>
                                entry[t].by # r)'
  BY DEF DatesInv
<1>1. /\ entry[t].by = r => t \in Frozen(r) /\ Dates(t) = After(r, t, "apply")
      /\ t \in Frozen(r) =>
           /\ Open(r, t, "apply") \/ entry[t].revision > backup[r][t].revision
           /\ backup[r][t].status \in Converted => Past(r, t, "apply")
           /\ backup[r][t].status = "restored" => Past(r, t, "restore")
           /\ backup[r][t].status \in {"pending", "conflict", "failed"} => entry[t].by # r
  BY DEF DatesInv, JournalInv
<1>2. /\ entry[t].revision \in Nat /\ (t \in Frozen(r) => backup[r][t].revision \in Nat)
      /\ TypeInv /\ FreezeInv /\ DatesInv /\ "apply" \in Batches /\ "restore" \in Batches
  BY DataTypes DEF JournalInv, Batches, Phase
<1>3. t \in Frozen(r) => /\ Past(r, t, "apply") => Past(r, t, "apply")'
                         /\ Past(r, t, "restore") => Past(r, t, "restore")'
                         /\ t \in Frozen(r)' /\ backup'[r][t].revision = backup[r][t].revision
                         /\ After(r, t, "apply")' = After(r, t, "apply")
                         /\ Before(r, t, "apply")' = Before(r, t, "apply")
  BY <1>2, PastStays, RevisionKept
<1>4. CASE entry'[t] # entry[t]
  <2>1. /\ entry'[t].revision = entry[t].revision + 1 /\ UNCHANGED backup
        /\ entry'[t].by = r => /\ t \in Frozen(r) /\ Open(r, t, "apply") /\ Landing(r, t, "apply")
                               /\ Dates(t)' = After(r, t, "apply")
    BY <1>2, <1>4, Forward, DateMigrationAssumption
  <2>2. Frozen(r)' = Frozen(r)
    BY <2>1 DEF Frozen
  <2>3. entry'[t].by = r => backup[r][t].status = "applying-record"
    <3>1. Phase["apply"].intent = "applying-record"
      BY DEF Phase
    <3> QED
      BY <1>2, <2>1, <3>1, LandingPends, PendingFits DEF JournalInv
  <2>4. t \in Frozen(r) => entry'[t].revision > backup[r][t].revision
    BY <1>1, <1>2, <2>1 DEF Open, Dates, Before
  <2> QED
    BY <1>1, <1>3, <2>1, <2>2, <2>3, <2>4
<1>5. CASE entry'[t] = entry[t]
  <2>1. Dates(t)' = Dates(t)
    BY <1>5 DEF Dates
  <2>2. CASE t \notin Frozen(r) /\ t \in Frozen(r)'
    <3>1. /\ entry[t].value = "legacy" /\ entry[t].by # r
          /\ backup'[r][t] = [status |-> "pending", revision |-> entry[t].revision, fence |-> 0]
      BY <1>1, <1>2, <2>2, NewRecords
    <3>2. Open(r, t, "apply")'
      BY <1>5, <3>1 DEF Open, Dates, Before
    <3> QED
      BY <1>5, <3>1, <3>2 DEF Converted, Applied
  <2>3. CASE t \in Frozen(r) /\ backup'[r][t] = backup[r][t]
    BY <1>1, <1>3, <1>5, <2>1, <2>3 DEF Open
  <2>4. CASE t \in Frozen(r) /\ backup'[r][t] # backup[r][t]
    <3>1. \/ backup'[r][t].status \in Converted /\ Past(r, t, "apply")
          \/ backup'[r][t].status = "restored" /\ Past(r, t, "restore")
          \/ backup'[r][t].status \in {"pending", "conflict", "failed"} /\ entry[t].by # r
          \/ backup'[r][t].status = "applying-record"
      <4>1. ASSUME NEW p \in Batches, backup[r][t].status = Phase[p].failed,
                   backup'[r][t].status = Phase[p].open
            PROVE  \/ backup'[r][t].status \in Converted /\ Past(r, t, "apply")
                   \/ backup'[r][t].status = "pending" /\ entry[t].by # r
        BY <1>1, <2>4, <4>1 DEF Batches, Phase, Converted, Applied
      <4>2. ASSUME NEW w \in Workers, ClaimRecord(w),
                   backup[r][t].status \in {phaseOf(w).open, phaseOf(w).intent},
                   backup'[r][t].status = phaseOf(w).intent
            PROVE  \/ backup'[r][t].status \in Converted /\ Past(r, t, "apply")
                   \/ backup'[r][t].status = "applying-record"
        <5>1. job[w].phase \in Batches
          BY <1>2, <4>2, RunTypes DEF ClaimRecord, At, Recording
        <5> QED
          BY <1>1, <2>4, <4>2, <5>1 DEF phaseOf, Batches, Phase, Converted, Applied
      <4>3. ASSUME NEW w \in Workers, JournalRecord(w), runOf(w) = r, job[w].card = t, Mine(w),
                   backup'[r][t].status = job[w].outcome
            PROVE  \/ backup'[r][t].status \in Converted /\ Past(r, t, "apply")
                   \/ backup'[r][t].status = "restored" /\ Past(r, t, "restore")
                   \/ backup'[r][t].status \in {"conflict", "failed"} /\ entry[t].by # r
        <5>1. At(w, "journal") /\ Handling(job[w]) /\ JobFits(job[w]) /\ job[w].phase \in Batches
          BY <1>2, <4>3, RunTypes DEF JournalRecord, At, Handling, Recording
        <5>2. /\ job[w].outcome \in {phaseOf(w).done, phaseOf(w).conflict, phaseOf(w).failed}
              /\ ~job[w].recovering
          BY <5>1 DEF JobFits, At, phaseOf
        <5>3. Hand(w)
          BY <5>1 DEF JournalInv, HandInv
        <5>4. CASE job[w].phase = "apply"
          <6>1. /\ phaseOf(w).done = "applied" /\ phaseOf(w).conflict = "conflict"
                /\ phaseOf(w).failed = "failed"
            BY <5>4 DEF phaseOf, Phase
          <6>2. job[w].outcome = "failed" => Claimed(w)
            BY <4>3, <5>1, <5>2, <6>1 DEF Claimed
          <6>3. "applied" \in Converted
            BY DEF Converted, Applied
          <6> QED
            BY <4>3, <5>1, <5>2, <5>3, <5>4, <6>1, <6>2, <6>3 DEF Hand, Alone
        <5>5. CASE job[w].phase = "restore"
          <6>1. /\ phaseOf(w).done = "restored" /\ phaseOf(w).conflict = "restore-conflict"
                /\ phaseOf(w).failed = "restore-failed"
            BY <5>5 DEF phaseOf, Phase
          <6>2. {"restore-conflict", "restore-failed"} \subseteq Converted
            BY DEF Converted, Applied
          <6> QED
            BY <4>3, <5>1, <5>2, <5>3, <5>5, <6>1, <6>2 DEF Hand
        <5> QED
          BY <5>1, <5>4, <5>5 DEF Batches, Phase
      <4> QED
        BY <1>2, <2>4, <4>1, <4>2, <4>3, RecordSteps
    <3>2. Open(r, t, "apply")' \/ entry'[t].revision > backup'[r][t].revision
      BY <1>1, <1>3, <1>5, <2>1, <2>4 DEF Open
    <3>3. entry'[t].by = r => t \in Frozen(r)' /\ Dates(t)' = After(r, t, "apply")'
      BY <1>1, <1>3, <1>5, <2>1
    <3>4. /\ Converted \intersect {"restored", "pending", "conflict", "failed", "applying-record"} = {}
      BY DEF Converted, Applied
    <3> QED
      BY <1>3, <1>5, <2>4, <3>1, <3>2, <3>3, <3>4
  <2>5. CASE t \notin Frozen(r)'
    BY <1>1, <1>3, <1>5, <2>5
  <2> QED
    BY <2>2, <2>3, <2>4, <2>5
<1> QED
  BY <1>4, <1>5

-----------------------------------------------------------------------------
(* The calls that have a record in hand.                                   *)

\* A claim that is there was there before, unless it is made now.
LEMMA MineKept ==
    ASSUME JournalInv, Next, NEW w \in Workers, Handling(job[w]), job'[w] = job[w], Mine(w)'
    PROVE  Mine(w)
<1> DEFINE r == runOf(w)
           t == job[w].card
<1>1. /\ r \in Runs /\ t \in Timecards /\ t \in Frozen(r) /\ job[w].phase \in Batches
      /\ TypeInv /\ FreezeInv /\ FenceInv
  BY SendFits DEF JournalInv
<1>2. /\ backup'[r][t].status = phaseOf(w).intent /\ backup'[r][t].fence = job[w].fence
  BY DEF Mine, phaseOf, runOf
<1>3. CASE backup'[r][t] = backup[r][t]
  BY <1>2, <1>3 DEF Mine
<1>4. ASSUME backup'[r][t] # backup[r][t] PROVE FALSE
  <2>1. ASSUME NEW v \in Workers, ClaimRecord(v), backup'[r][t].fence = job[v].fence PROVE FALSE
    <3>1. v = w
      BY <1>1, <1>2, <2>1 DEF FenceInv, Issued, ClaimRecord, At, Handling, AboutTo
    <3> QED
      BY <2>1, <3>1 DEF ClaimRecord, At, Handling, AboutTo
  <2>2. ASSUME NEW v \in Workers, JournalRecord(v), backup'[r][t].status = job[v].outcome
        PROVE  FALSE
    <3>1. At(v, "journal") /\ JobFits(job[v]) /\ job[v].phase \in Batches
      BY <1>1, <2>2, RunTypes DEF JournalRecord, At, Recording
    <3>2. job[v].outcome \in {phaseOf(v).done, phaseOf(v).conflict, phaseOf(v).failed}
      BY <3>1 DEF JobFits, At, phaseOf
    <3> QED
      BY ZenonT(60), <1>1, <1>2, <2>2, <3>1, <3>2, Distinct DEF phaseOf
  <2>3. ASSUME NEW q \in Batches, backup'[r][t].status = Phase[q].open PROVE FALSE
    BY <1>1, <1>2, <2>3, Distinct DEF phaseOf
  <2> HIDE DEF r, t
  <2> QED
    BY <1>1, <1>4, <2>1, <2>2, <2>3, RecordSteps
<1> QED
  BY <1>3, <1>4

\* An update that may be sent now could be sent before, or is claimed now.
LEMMA SendSteps ==
    ASSUME TypeInv, Next, NEW v \in Workers, Sending(job'[v])
    PROVE  \/ Sending(job[v]) /\ Sent(v)' = Sent(v)
           \/ /\ ClaimRecord(v) /\ job'[v].card \in job[v].todo
              /\ job'[v].run = runOf(v) /\ job'[v].phase = job[v].phase
              /\ job'[v].pc = "read"
              /\ \/ backup[runOf(v)][job'[v].card].status = phaseOf(v).open
                 \/ Takeover(v, job'[v].card)
              /\ backup'[runOf(v)][job'[v].card].status = phaseOf(v).intent
              /\ backup'[runOf(v)][job'[v].card].fence = job[v].fence
<1>1. Handling(job'[v])
  BY DEF Sending, Handling
<1>2. job'[v].pc \in {"read", "write", "renew"} /\ (job'[v].pc = "renew" => job'[v].then = "write")
  BY DEF Sending, AboutTo
<1>3. CASE SameRecord(v) /\ AboutTo(job[v], "write")
  BY <1>3 DEF SameRecord, SameCall, Sending, Sent, runOf
<1>4. CASE SameRecord(v) /\ ReadRecord(v)
  BY <1>4 DEF SameRecord, SameCall, Sending, Sent, runOf, ReadRecord, At
<1>5. CASE job'[v] = job[v]
  BY SMTT(40), <1>5 DEF Sending, Sent, runOf
<1>6. CASE ClaimRecord(v) /\ SameCall(v)
  BY <1>1, <1>6, HandSteps DEF SameCall, runOf, SameRecord, ClaimRecord, At, Handling, AboutTo
<1> QED
  BY <1>1, <1>2, <1>3, <1>4, <1>5, <1>6, HandSteps DEF DoneStep, ConflictStep, FailedStep

\* While a claim stands, no other update of its record begins or takes effect.
LEMMA AloneStays ==
    ASSUME JournalInv, Next, NEW w \in Workers, Handling(job[w]), job'[w] = job[w], Claimed(w)'
    PROVE  Alone(w)'
<1>1. PICK r \in Runs, t \in Timecards, p \in Batches :
             r = job[w].run /\ t = job[w].card /\ p = job[w].phase /\ t \in Frozen(r)
  BY SendFits DEF JournalInv, runOf
<1>2. TypeInv /\ FreezeInv /\ FenceInv /\ DatesInv
  BY DEF JournalInv
<1>3. Mine(w) /\ Claimed(w) /\ Mine(w)'
  BY MineKept DEF Claimed, At, phaseOf
<1>4. Alone(w) /\ (p = "restore" => Past(r, t, "apply"))
  BY <1>1, <1>3 DEF JournalInv, HandInv, Hand, runOf
<1>5. Sent(w) = Order(r, t, p) /\ Sent(w)' = Order(r, t, p)
  BY <1>1 DEF Sent, Order, runOf
<1>6. /\ p = "apply" => entry[t].by # r
      /\ Open(r, t, p) =>
           /\ Order(r, t, p) \notin late
           /\ \A v \in Workers \ {w} : ~(Sending(job[v]) /\ Sent(v) = Order(r, t, p))
  BY <1>1, <1>4, <1>5 DEF Alone, runOf
<1>7. ~At(w, "write")
  BY <1>3 DEF Claimed, At
<1>8. p = "apply" => entry'[t].by # r
  <2>1. CASE entry'[t] = entry[t]
    BY <1>6, <2>1
  <2>2. CASE entry'[t] # entry[t]
    <3>1. ~(Open(r, t, p) /\ Landing(r, t, p))
      BY <1>6, <1>7 DEF Landing, Sending, AboutTo, At
    <3> QED
      BY <1>1, <1>2, <2>2, <3>1, Forward, DateMigrationAssumption
  <2> QED
    BY <2>1, <2>2
<1>9. ASSUME Open(r, t, p)'
      PROVE  /\ Order(r, t, p) \notin late'
             /\ \A v \in Workers \ {w} : ~(Sending(job'[v]) /\ Sent(v)' = Order(r, t, p))
  <2>1. Open(r, t, p)
    BY <1>1, <1>2, <1>4, <1>9, OpenShuts
  <2>2. Order(r, t, p) \notin late'
    BY <1>5, <1>6, <1>7, <2>1, LateSteps DEF Sending, AboutTo, At
  <2>3. ASSUME NEW v \in Workers, v # w, Sending(job'[v]), Sent(v)' = Order(r, t, p) PROVE FALSE
    <3>1. /\ ClaimRecord(v) /\ job'[v].run = runOf(v)
          /\ backup'[runOf(v)][job'[v].card].fence = job[v].fence
      BY <1>2, <1>6, <2>1, <2>3, SendSteps
    <3>2. runOf(v) = r /\ job'[v].card = t
      BY <2>3, <3>1 DEF Sent, Order, runOf
    <3>3. backup'[r][t].fence = job[w].fence
      BY <1>1, <1>3 DEF Mine, runOf
    <3>4. v = w
      BY <1>2, <3>1, <3>2, <3>3 DEF FenceInv, Issued, ClaimRecord, At, Handling, AboutTo
    <3> QED
      BY <2>3, <3>4
  <2> QED
    BY <2>2, <2>3
<1>10. runOf(w)' = r /\ job'[w].card = t /\ job'[w].phase = p
  BY <1>1 DEF runOf
<1> QED
  BY <1>5, <1>8, <1>9, <1>10 DEF Alone

\* A fresh claim is the only one.
LEMMA AloneBegins ==
    ASSUME JournalInv, Next, NEW w \in Workers, ClaimRecord(w), Handling(job'[w]),
           ~job'[w].recovering
    PROVE  Alone(w)'
<1>1. /\ TypeInv /\ FreezeInv /\ FenceInv /\ DatesInv
      /\ At(w, "claim") /\ entry' = entry /\ late' = late
  BY DEF JournalInv, ClaimRecord
<1>2. /\ SameCall(w) /\ job'[w].card \in job[w].todo
      /\ backup[runOf(w)][job'[w].card].status = phaseOf(w).open
  BY <1>1, HandSteps DEF SameRecord, Handling, AboutTo, At
<1>3. runOf(w) \in Runs /\ job[w].phase \in Batches /\ job[w].kind \in Batches
  BY <1>1, RunTypes DEF At, Recording
<1>4. job'[w].card \in Frozen(runOf(w)) /\ job'[w].card \in Timecards
  BY <1>1, <1>2, <1>3, DataTypes DEF CardsFit, TypeInv, CardsFrozen, Frozen, runOf
<1>5. PICK r \in Runs, t \in Timecards, p \in Batches :
             /\ r = job[w].run /\ t = job'[w].card /\ p = job[w].phase /\ t \in Frozen(r)
             /\ backup[r][t].status = Phase[p].open
  BY <1>2, <1>3, <1>4 DEF runOf, phaseOf
<1>6. \A v \in Workers \ {w} : job'[v] = job[v]
  <2>1. Step(w)
    BY DEF Step, Batch
  <2> QED
    BY <1>1, <2>1, OthersStay
<1>7. Sent(w)' = Order(r, t, p) /\ job'[w].run = r /\ job'[w].phase = p
  BY <1>2, <1>5 DEF Sent, Order, SameCall, runOf
<1>8. p = "apply" => entry'[t].by # r
  BY <1>1, <1>5 DEF DatesInv, Phase
<1>9. ~(Pending(r, t, p) /\ Open(r, t, p))
  <2>1. backup[r][t].status # Phase[p].intent
    BY <1>5, Distinct
  <2> QED
    BY <1>1, <2>1, PendingFits DEF JournalInv
<1>10. Open(r, t, p)' => Open(r, t, p)
  BY <1>1, <1>5, RevisionKept DEF Open, Dates
<1>11. ASSUME Open(r, t, p)'
       PROVE  /\ Order(r, t, p) \notin late'
              /\ \A v \in Workers \ {w} : ~(Sending(job'[v]) /\ Sent(v)' = Order(r, t, p))
  <2>1. ~Pending(r, t, p)
    BY <1>9, <1>10, <1>11
  <2> QED
    BY <1>1, <1>6, <2>1 DEF Pending, Sent, runOf
<1>12. runOf(w)' = r
  BY <1>7 DEF runOf
<1> QED
  BY <1>5, <1>7, <1>8, <1>11, <1>12 DEF Alone

\* Nothing changes about a claim whose call only moves on.
LEMMA AloneMoves ==
    ASSUME JournalInv, Next, NEW w \in Workers, SameRecord(w), UNCHANGED data,
           Alone(w), job'[w] # job[w]
    PROVE  Alone(w)'
<1>1. \A v \in Workers \ {w} : job'[v] = job[v]
  BY OtherSteps, OthersStay DEF JournalInv
<1>2. /\ runOf(w)' = runOf(w) /\ job'[w].card = job[w].card /\ job'[w].phase = job[w].phase
      /\ Sent(w)' = Sent(w) /\ entry' = entry /\ late' = late /\ backup' = backup
  BY DEF SameRecord, SameCall, runOf, Sent, data
<1>3. Open(runOf(w), job[w].card, job[w].phase)' = Open(runOf(w), job[w].card, job[w].phase)
  BY <1>2 DEF Open, Dates, Before
<1>4. \A v \in Workers \ {w} : Sent(v)' = Sent(v)
  BY <1>1 DEF Sent, runOf
<1> QED
  BY <1>1, <1>2, <1>3, <1>4 DEF Alone

-----------------------------------------------------------------------------
(* The record in hand.                                                     *)

\* What has to be shown of a call in the next state, in terms of its record.
LEMMA HandFrom ==
    ASSUME NEW w \in Workers, NEW r \in Runs, NEW t \in Timecards, NEW p \in Batches,
           job'[w].run = r, job'[w].card = t, job'[w].phase = p,
           p = "restore" => Past(r, t, "apply")',
           Sending(job'[w]) /\ Open(r, t, p)' => backup'[r][t].status = Phase[p].intent,
           job'[w].pc = "journal" /\ job'[w].outcome = Phase[p].done => Past(r, t, p)',
           job'[w].pc = "reread" => ~Open(r, t, p)',
           job'[w].pc = "journal" /\ job'[w].outcome = Phase[p].conflict => ~Open(r, t, p)',
           job'[w].pc = "journal" /\ job'[w].outcome = Phase[p].conflict /\ Mine(w)'
              /\ p = "apply" => entry'[t].by # r,
           Claimed(w)' => Alone(w)'
    PROVE  Hand(w)'
<1>1. runOf(w)' = r /\ phaseOf(w)' = Phase[p]
  BY DEF runOf, phaseOf
<1> QED
  BY <1>1 DEF Hand, At

\* A call that does not move keeps what it knows of its record.
LEMMA HandStays ==
    ASSUME JournalInv, Next, NEW w \in Workers, Handling(job[w]), job'[w] = job[w]
    PROVE  Hand(w)'
<1>1. PICK r \in Runs, t \in Timecards, p \in Batches :
             r = job[w].run /\ t = job[w].card /\ p = job[w].phase /\ t \in Frozen(r)
  BY SendFits DEF JournalInv, runOf
<1>2. TypeInv /\ FreezeInv /\ DatesInv /\ Hand(w)
  BY DEF JournalInv, HandInv
<1>3. runOf(w) = r /\ phaseOf(w) = Phase[p]
  BY <1>1 DEF runOf, phaseOf
<1>4. p = "restore" => Past(r, t, "apply")'
  BY <1>1, <1>2, <1>3, PastStays DEF Hand, Batches, Phase
<1>5. Sending(job[w]) /\ Open(r, t, p)' => backup'[r][t].status = Phase[p].intent
  BY <1>1, <1>3, PendingKept DEF Pending, Sent, Order
<1>6. ~Open(r, t, p) => ~Open(r, t, p)'
  BY <1>1, <1>2, <1>3, OpenShuts DEF Hand
<1>7. Past(r, t, p) => Past(r, t, p)'
  BY <1>1, <1>2, PastStays
<1>8. At(w, "journal") /\ job[w].outcome = Phase[p].conflict /\ Mine(w)' /\ p = "apply"
         => entry'[t].by # r
  <2> SUFFICES ASSUME At(w, "journal"), job[w].outcome = Phase[p].conflict, Mine(w)', p = "apply"
               PROVE  entry'[t].by # r
    OBVIOUS
  <2>1. Mine(w)
    BY MineKept
  <2>2. ~Open(r, t, "apply") /\ entry[t].by # r
    BY <1>1, <1>2, <1>3, <2>1 DEF Hand
  <2>3. CASE entry'[t] = entry[t]
    BY <2>2, <2>3
  <2>4. CASE entry'[t] # entry[t]
    BY <1>2, <2>2, <2>4, Forward, DateMigrationAssumption
  <2> QED
    BY <2>3, <2>4
<1>9. Claimed(w)' => Alone(w)'
  BY AloneStays
<1>10. /\ At(w, "journal") /\ job[w].outcome = Phase[p].done => Past(r, t, p)
       /\ At(w, "reread") => ~Open(r, t, p)
       /\ At(w, "journal") /\ job[w].outcome = Phase[p].conflict => ~Open(r, t, p)
  BY <1>1, <1>2, <1>3 DEF Hand
<1> QED
  BY <1>1, <1>4, <1>5, <1>6, <1>7, <1>8, <1>9, <1>10, HandFrom DEF At

\* A claim takes over, or is the first to hold, a record whose turn it is.
LEMMA HandBegins ==
    ASSUME JournalInv, Next, NEW w \in Workers, ClaimRecord(w), Handling(job'[w])
    PROVE  Hand(w)'
<1>1. /\ TypeInv /\ FreezeInv /\ DatesInv /\ At(w, "claim")
  BY DEF JournalInv, ClaimRecord
<1>2. /\ SameCall(w) /\ job'[w].card \in job[w].todo /\ job'[w].pc = "read"
      /\ backup[runOf(w)][job'[w].card].status \in {phaseOf(w).open, phaseOf(w).intent}
      /\ backup'[runOf(w)][job'[w].card].status = phaseOf(w).intent
  BY <1>1, HandSteps DEF SameRecord, Handling, AboutTo, At, Takeover
<1>3. runOf(w) \in Runs /\ job[w].phase \in Batches /\ job[w].kind \in Batches
  BY <1>1, RunTypes DEF At, Recording
<1>4. job'[w].card \in Frozen(runOf(w)) /\ job'[w].card \in Timecards
  BY <1>1, <1>2, <1>3, DataTypes DEF CardsFit, TypeInv, CardsFrozen, Frozen, runOf
<1>5. PICK r \in Runs, t \in Timecards, p \in Batches :
             /\ r = job'[w].run /\ t = job'[w].card /\ p = job'[w].phase /\ t \in Frozen(r)
             /\ backup[r][t].status \in {Phase[p].open, Phase[p].intent}
             /\ backup'[r][t].status = Phase[p].intent
  BY <1>2, <1>3, <1>4 DEF runOf, phaseOf, SameCall
<1>6. p = "restore" => Past(r, t, "apply")'
  <2>1. p = "restore" => backup[r][t].status \in Converted
    BY <1>5 DEF Phase, Converted, Applied
  <2>2. "apply" \in Batches
    BY DEF Batches, Phase
  <2>3. p = "restore" => Past(r, t, "apply")
    BY <1>1, <1>5, <2>1 DEF DatesInv
  <2> QED
    BY <1>1, <1>5, <2>2, <2>3, PastStays
<1>7. Claimed(w)' => Alone(w)'
  BY <1>2, AloneBegins DEF Claimed
<1> QED
  BY <1>2, <1>5, <1>6, <1>7, HandFrom

\* A call that deals with its record learns no more than is so.
LEMMA HandMoves ==
    ASSUME JournalInv, ~RecoveryErrors, Next, NEW w \in Workers, Handling(job'[w]),
           SameRecord(w), job'[w] # job[w]
    PROVE  Hand(w)'
<1>1. PICK r \in Runs, t \in Timecards, p \in Batches :
             r = job[w].run /\ t = job[w].card /\ p = job[w].phase /\ t \in Frozen(r)
  BY SendFits DEF JournalInv, runOf, SameRecord
<1>2. TypeInv /\ FreezeInv /\ DatesInv /\ Hand(w)
  BY DEF JournalInv, HandInv, SameRecord
<1>3. runOf(w) = r /\ phaseOf(w) = Phase[p] /\ Handling(job[w])
  BY <1>1 DEF runOf, phaseOf, SameRecord
<1>4. job'[w].run = r /\ job'[w].card = t /\ job'[w].phase = p /\ job'[w].fence = job[w].fence
  BY <1>1 DEF SameRecord, SameCall
<1>5. p = "restore" => Past(r, t, "apply")'
  BY <1>1, <1>2, <1>3, PastStays DEF Hand, Batches, Phase
<1>6. Sending(job[w]) /\ Open(r, t, p)' => backup'[r][t].status = Phase[p].intent
  BY <1>1, <1>3, PendingKept DEF Pending, Sent, Order
<1>7. UNCHANGED data => /\ Open(r, t, p)' = Open(r, t, p) /\ Past(r, t, p)' = Past(r, t, p)
                        /\ Mine(w)' = Mine(w) /\ entry' = entry
  BY <1>1, <1>4 DEF data, Open, Past, Dates, Before, After, Mine, runOf, phaseOf
<1>8. Claimed(w) => Alone(w)
  BY <1>2 DEF Hand
<1>9. CASE AboutTo(job[w], "write") /\ job'[w].pc = "write"
  <2>1. Sending(job[w]) /\ ~Claimed(w)'
    BY <1>9 DEF Sending, Claimed, At
  <2> QED
    BY <1>4, <1>5, <1>6, <1>9, <2>1, HandFrom
<1>10. CASE job[w].pc \in {"read", "renew"} /\ FailedStep(w) /\ MayFail(w) /\ UNCHANGED data
  <2>1. job'[w].pc = "journal" /\ job'[w].outcome = Phase[p].failed /\ ~job[w].recovering
    BY <1>3, <1>10 DEF FailedStep, MayFail
  <2>2. ~Sending(job'[w])
    BY <2>1 DEF Sending, AboutTo
  <2>3. ASSUME Claimed(w)' PROVE Alone(w)'
    <3>1. Mine(w)
      BY <1>7, <1>10, <2>3 DEF Claimed
    <3>2. Claimed(w)
      BY <1>10, <2>1, <3>1 DEF Claimed
    <3> QED
      BY <1>8, <1>10, <3>2, AloneMoves
  <2> QED
    BY <1>4, <1>5, <2>1, <2>2, <2>3, HandFrom, Distinct
<1>11. CASE ReadRecord(w) /\ job'[w].recovering = job[w].recovering /\ job'[w].pc = "renew"
  <2>1. At(w, "read") /\ UNCHANGED data /\ Sending(job[w])
    BY <1>11 DEF ReadRecord, At, Sending
  <2>2. ASSUME Claimed(w)' PROVE Alone(w)'
    <3>1. Mine(w) /\ ~job[w].recovering
      BY <1>7, <1>11, <2>1, <2>2 DEF Claimed
    <3>2. Claimed(w)
      BY <2>1, <3>1 DEF Claimed, At
    <3> QED
      BY <1>8, <2>1, <3>2, AloneMoves
  <2> QED
    BY <1>4, <1>5, <1>6, <1>11, <2>1, <2>2, HandFrom
<1>12. ASSUME ConflictStep(w), UNCHANGED data, ~Open(r, t, p),
              Mine(w) /\ p = "apply" => entry[t].by # r
       PROVE  Hand(w)'
  <2>1. job'[w].pc = "journal" /\ job'[w].outcome = Phase[p].conflict
    BY <1>3, <1>12 DEF ConflictStep
  <2>2. ~Sending(job'[w])
    BY <2>1 DEF Sending, AboutTo
  <2>3. ~Claimed(w)'
    BY <1>4, <2>1, Distinct DEF Claimed, At, phaseOf
  <2> QED
    BY <1>4, <1>5, <1>7, <1>12, <2>1, <2>2, <2>3, HandFrom, Distinct
<1>13. CASE /\ ReadRecord(w) /\ ConflictStep(w)
            /\ Dates(job[w].card) # Before(runOf(w), job[w].card, job[w].phase)
            /\ job[w].recovering =>
                  Dates(job[w].card) # After(runOf(w), job[w].card, job[w].phase)
  <2>1. At(w, "read") /\ UNCHANGED data /\ ~Open(r, t, p)
    BY <1>1, <1>3, <1>13 DEF ReadRecord, Open
  <2>2. ASSUME Mine(w), p = "apply", ~job[w].recovering PROVE entry[t].by # r
    BY <1>1, <1>3, <1>8, <2>1, <2>2 DEF Claimed, At, Alone
  <2>3. ASSUME p = "apply", job[w].recovering PROVE entry[t].by # r
    BY <1>1, <1>2, <1>3, <1>13, <2>3 DEF DatesInv
  <2> QED
    BY <1>12, <1>13, <2>1, <2>2, <2>3
<1>14. CASE /\ DoneStep(w)
            /\ \/ /\ UNCHANGED entry
                  /\ Dates(job[w].card) = After(runOf(w), job[w].card, job[w].phase)
               \/ Convert(runOf(w), job[w].card, job[w].phase)
            /\ UNCHANGED backup
  <2>1. job'[w].pc = "journal" /\ job'[w].outcome = Phase[p].done
    BY <1>3, <1>14 DEF DoneStep
  <2>2. ~Sending(job'[w])
    BY <2>1 DEF Sending, AboutTo
  <2>3. ~Claimed(w)'
    BY <1>4, <2>1, Distinct DEF Claimed, At, phaseOf
  <2>4. After(r, t, p)' = After(r, t, p)
    BY <1>14 DEF After
  <2>5. Dates(t)' = After(r, t, p)
    <3>1. CASE UNCHANGED entry /\ Dates(t) = After(r, t, p)
      BY <3>1 DEF Dates
    <3>2. CASE Convert(r, t, p)
      <4>1. entry \in [Timecards -> Entry]
        BY <1>2, DataTypes
      <4>2. entry'[t] = [value |-> After(r, t, p)[1], revision |-> After(r, t, p)[2],
                         by |-> IF p = "apply" THEN r ELSE None]
        BY <3>2, <4>1 DEF Convert
      <4> QED
        BY <4>2 DEF Dates, After
    <3> QED
      BY <1>1, <1>3, <1>14, <3>1, <3>2
  <2>6. Past(r, t, p)'
    BY <2>4, <2>5 DEF Past
  <2> QED
    BY <1>4, <1>5, <2>1, <2>2, <2>3, <2>6, HandFrom, Distinct
<1>15. CASE /\ At(w, "write") /\ job'[w].pc = "reread" /\ UNCHANGED data
            /\ Dates(job[w].card) # Before(runOf(w), job[w].card, job[w].phase)
  <2>1. ~Open(r, t, p)'
    BY <1>1, <1>3, <1>7, <1>15 DEF Open
  <2>2. ~Sending(job'[w]) /\ ~Claimed(w)'
    BY <1>15 DEF Sending, AboutTo, Claimed, At
  <2> QED
    BY <1>4, <1>5, <1>15, <2>1, <2>2, HandFrom
<1>16. CASE job'[w].pc = "recheck"
  <2>1. ~Sending(job'[w]) /\ ~Claimed(w)'
    BY <1>16 DEF Sending, AboutTo, Claimed, At
  <2> QED
    BY <1>4, <1>5, <1>16, <2>1, HandFrom
<1>17. CASE /\ At(w, "reread") /\ ConflictStep(w) /\ UNCHANGED data
            /\ Dates(job[w].card) # After(runOf(w), job[w].card, job[w].phase)
  <2>1. ~Open(r, t, p)
    BY <1>1, <1>2, <1>3, <1>17 DEF Hand
  <2>2. p = "apply" => entry[t].by # r
    BY <1>1, <1>2, <1>3, <1>17 DEF DatesInv
  <2> QED
    BY <1>12, <1>17, <2>1, <2>2
<1>18. CASE ClaimRecord(w)
  BY <1>3, <1>18 DEF ClaimRecord, At, Handling, AboutTo
<1> QED
  BY <1>2, <1>9, <1>10, <1>11, <1>13, <1>14, <1>15, <1>16, <1>17, <1>18, HandSteps

LEMMA HandStep == ASSUME JournalInv, ~RecoveryErrors, Next PROVE HandInv'
<1> SUFFICES ASSUME NEW w \in Workers, Handling(job'[w]) PROVE Hand(w)'
  BY DEF HandInv
<1>1. \/ job'[w] = job[w]
      \/ ClaimRecord(w)
      \/ SameRecord(w)
  BY HandSteps DEF JournalInv
<1>2. CASE job'[w] = job[w]
  BY <1>2, HandStays
<1>3. CASE ClaimRecord(w)
  BY <1>3, HandBegins
<1>4. CASE SameRecord(w) /\ job'[w] # job[w]
  BY <1>4, HandMoves
<1> QED
  BY <1>1, <1>2, <1>3, <1>4

-----------------------------------------------------------------------------
(* The journal.                                                            *)

LEMMA JournalInit == Init => JournalInv
<1> SUFFICES ASSUME Init PROVE JournalInv
  OBVIOUS
<1>1. /\ \A t \in Timecards : entry[t].by = None
      /\ \A r \in Runs, t \in Timecards : backup[r][t].status = "none"
      /\ \A w \in Workers : job[w].pc = "idle"
      /\ late = {} /\ None \notin Runs
  BY DateMigrationAssumption DEF Init, NoJob
<1>2. DatesInv
  BY <1>1 DEF DatesInv, Frozen
<1>3. LateInv /\ HandInv
  BY <1>1 DEF LateInv, HandInv, Handling, AboutTo
<1> QED
  BY <1>2, <1>3, TypeInit, FenceInit, FreezeInit DEF JournalInv

LEMMA JournalStep == ASSUME ~RecoveryErrors PROVE JournalInv /\ [Next]_vars => JournalInv'
<1>1. ASSUME JournalInv, Next PROVE JournalInv'
  <2>1. TypeInv' /\ FenceInv' /\ FreezeInv'
    BY <1>1, TypeStep, FenceStep, FreezeStep DEF JournalInv
  <2>2. DatesInv' /\ LateInv' /\ HandInv'
    BY <1>1, DatesStep, LateStep, HandStep
  <2> QED
    BY <2>1, <2>2 DEF JournalInv
<1>2. ASSUME JournalInv, UNCHANGED vars PROVE JournalInv'
  <2>1. TypeInv' /\ FenceInv' /\ FreezeInv'
    BY <1>2, TypeStep, FenceStep, FreezeStep DEF JournalInv
  <2>2. entry' = entry /\ backup' = backup /\ job' = job /\ late' = late
    BY <1>2 DEF vars
  <2>3. DatesInv'
    BY <1>2, <2>2 DEF JournalInv, DatesInv, Frozen, Dates, Open, Past, Before, After
  <2>4. LateInv'
    BY <1>2, <2>2 DEF JournalInv, LateInv, Dates, Open, Past, Before, After
  <2>5. ASSUME NEW w \in Workers PROVE Hand(w)' = Hand(w)
    BY <2>2 DEF Hand, Alone, Claimed, Mine, Dates, Open, Past, Before, After, Sent, phaseOf,
       runOf, At, Sending, AboutTo
  <2>6. HandInv'
    BY <1>2, <2>2, <2>5 DEF JournalInv, HandInv
  <2> QED
    BY <2>1, <2>3, <2>4, <2>6 DEF JournalInv
<1> QED
  BY <1>1, <1>2

LEMMA JournalTells == ASSUME JournalInv PROVE JournalTrue
<1> SUFFICES ASSUME NEW r \in Runs, NEW t \in Timecards
             PROVE  LET b == backup[r][t] IN
        /\ b.status \in {"none", "pending", "conflict", "failed"} =>
               entry[t].by # r /\ NothingLate(r, t, "apply")
        /\ b.status \in {"applied", "restore-conflict", "restore-failed"} =>
               /\ NothingLate(r, t, "restore")
               /\ entry[t].revision > b.revision
               /\ entry[t].revision = b.revision + 1 => Dates(t) = After(r, t, "apply")
        /\ b.status = "restored" =>
               /\ entry[t].revision >= b.revision + 2
               /\ entry[t].revision = b.revision + 2 => Dates(t) = After(r, t, "restore")
  BY DEF JournalTrue
<1>1. ASSUME NEW p \in Batches, Order(r, t, p) \in late, Open(r, t, p)
      PROVE  backup[r][t].status = Phase[p].intent
  BY <1>1 DEF JournalInv, LateInv, Order
<1>2. /\ "apply" \in Batches /\ "restore" \in Batches
      /\ Phase["apply"].intent = "applying-record" /\ Phase["restore"].intent = "restoring-record"
  BY DEF Batches, Phase
<1>3. /\ backup[r][t].status # "applying-record" => NothingLate(r, t, "apply")
      /\ backup[r][t].status # "restoring-record" => NothingLate(r, t, "restore")
  BY <1>1, <1>2 DEF NothingLate, Order, Open
<1>4. /\ entry[t].revision \in Nat
      /\ t \in Frozen(r) => backup[r][t].revision \in Nat
      /\ backup[r][t].status # "none" => t \in Frozen(r)
      /\ backup[r][t].status = "none" => t \notin Frozen(r)
  BY DataTypes DEF JournalInv, Frozen
<1>5. CASE backup[r][t].status \in {"none", "pending", "conflict", "failed"}
  BY <1>3, <1>4, <1>5 DEF JournalInv, DatesInv
<1>6. CASE backup[r][t].status \in {"applied", "restore-conflict", "restore-failed"}
  <2>1. backup[r][t].status \in Converted
    BY <1>6 DEF Converted, Applied
  <2>2. Past(r, t, "apply") /\ backup[r][t].revision \in Nat
    BY <1>4, <1>6, <2>1 DEF JournalInv, DatesInv
  <2> QED
    BY <1>3, <1>4, <1>6, <2>2 DEF Past, Dates, After
<1>7. CASE backup[r][t].status = "restored"
  <2>1. Past(r, t, "restore") /\ backup[r][t].revision \in Nat
    BY <1>4, <1>7 DEF JournalInv, DatesInv
  <2> QED
    BY <1>3, <1>4, <1>7, <2>1 DEF Past, Dates, After
<1> QED
  BY <1>5, <1>6, <1>7

\* The backups of a run are true of the entries after any crash, lost answer and late
\* write of applyBatch and restoreBatch, unless a batch that recovers an intent may fail
\* before its own write.
THEOREM JournalIsTrue == ASSUME ~RecoveryErrors PROVE Spec => []JournalTrue
<1>1. Init => JournalInv
  BY JournalInit
<1>2. JournalInv /\ [Next]_vars => JournalInv'
  BY JournalStep
<1>3. JournalInv => JournalTrue
  BY JournalTells
<1> QED
  BY <1>1, <1>2, <1>3, PTL DEF Spec

-----------------------------------------------------------------------------
(* How a call comes to where it is.                                        *)

\* Where a call is, or is about to be once its lease is renewed.
Spot(j) == IF j.pc = "renew" THEN j.then ELSE j.pc

RecordPcs == {"next", "claim", "read", "write", "reread", "recheck", "journal"}
Elsewhere == {"idle", "abort", "release", "clear", "sweep", "stamp", "stampPause",
              "finalizePause", "finish", "stall", "park", "parked", "claimPause", "preview"}

Keeps(w) == SameCall(w) /\ job'[w].fence = job[w].fence

\* How a call comes to where it is.
Renewed(w) == /\ Renew(w) /\ renewLease(runOf(w), job[w].fence, job[w].kind) /\ Keeps(w)
              /\ job'[w].pc = job[w].then /\ Spot(job'[w]) = Spot(job[w])
              /\ job'[w].seen = job[w].seen /\ job'[w].outcome = job[w].outcome

Recorded(w) == /\ Spot(job[w]) \in RecordPcs /\ Spot(job'[w]) \in RecordPcs
               /\ Keeps(w) /\ job[w].kind \in Batches

Entered(w) == /\ EnterBatch(w) /\ Unchanged(w, {job[w].seen}) /\ Keeps(w)
              /\ Spot(job'[w]) = "next"

Finished(w) == /\ FinishBatch(w) /\ Remaining(w) = {} /\ Keeps(w)
               /\ Spot(job'[w]) = "complete"
               /\ job'[w].outcome = IF Conflicts(w) = {} THEN phaseOf(w).complete
                                    ELSE phaseOf(w).incomplete

Reopened(w) == /\ ReopenFailed(w) /\ run[runOf(w)].status = "paused" /\ Keeps(w)
               /\ Spot(job'[w]) = "reopened"
               /\ job'[w].seen = "restore" => run[runOf(w)].pausedPhase = "restore"

Weighed(w) == /\ WeighCancel(w) /\ Keeps(w) /\ Spot(job'[w]) = "cancelled"
              /\ job'[w].pc = "renew"
              /\ Statuses(runOf(w), Applied \union {"applying-record"}) = {}

Compared(w) == /\ CompareRecords(w) /\ Keeps(w) /\ Spot(job'[w]) = "verified"
               /\ job'[w].pc = "renew"
               /\ LET status == run[runOf(w)].status IN
                  \/ /\ job'[w].outcome = "verified" /\ ReportOK(runOf(w), status)
                     /\ status \notin {"restored", "restored-with-conflicts"}
                  \/ /\ status = "verified"
                     /\ job'[w].outcome \in {"applied", "applied-with-conflicts"}
                  \/ /\ status \in {"restored", "restored-with-conflicts"}
                     /\ job'[w].outcome = "restored-with-conflicts"
                  \/ /\ job'[w].outcome = status
                     /\ status = "verified" => ReportOK(runOf(w), status)

LEMMA LeaveSpot == ASSUME TypeInv, NEW w \in Workers, NEW pc, pc \in Elsewhere, Leave(w, pc)
                   PROVE  Spot(job'[w]) \in Elsewhere
<1>1. job'[w].pc = pc /\ pc # "renew"
  BY LeaveSame DEF Elsewhere
<1> QED
  BY <1>1 DEF Spot

LEMMA ReturnSpot == ASSUME TypeInv, NEW w \in Workers, Return(w)
                    PROVE  Spot(job'[w]) \in Elsewhere
  BY ReturnSame DEF NoJob, Spot, Elsewhere

LEMMA GotoSpot == ASSUME TypeInv, NEW w \in Workers, NEW pc, Goto(w, pc), pc # "renew"
                  PROVE  Spot(job'[w]) = pc /\ Keeps(w)
  BY OwnJob DEF Goto, Job, Spot, Keeps, SameCall

LEMMA RenewSpot == ASSUME TypeInv, NEW w \in Workers, NEW pc, RenewThen(w, pc)
                   PROVE  Spot(job'[w]) = pc /\ Keeps(w)
  BY OwnJob DEF RenewThen, Job, Spot, Keeps, SameCall

LEMMA JournalSpot ==
    ASSUME TypeInv, NEW w \in Workers, (\E o : ToJournal(w, o)) \/ NextInBatch(w)
    PROVE  Spot(job'[w]) \in RecordPcs /\ Keeps(w)
<1>1. job \in [Workers -> Job] /\ job[w] \in Job
  BY OwnJob
<1>2. ASSUME NEW o, ToJournal(w, o) PROVE job'[w].pc = "journal" /\ Keeps(w)
  BY <1>1, <1>2 DEF ToJournal, Job, Keeps, SameCall
<1>3. ASSUME NextInBatch(w) PROVE job'[w].pc = "next" /\ Keeps(w)
  BY <1>1, <1>3 DEF NextInBatch, Job, Keeps, SameCall
<1> QED
  BY <1>2, <1>3 DEF Spot, RecordPcs

LEMMA Arrivals ==
    ASSUME TypeInv, NEW w \in Workers, Step(w) \/ Failure(w)
    PROVE  \/ Spot(job'[w]) \in Elsewhere
           \/ stampLease(w) /\ Keeps(w)
              /\ Spot(job'[w]) \in {"enter", "snapshot", "reopen", "weigh", "compare"}
           \/ Renewed(w) \/ Recorded(w) \/ Entered(w) \/ Finished(w)
           \/ Reopened(w) \/ Weighed(w) \/ Compared(w)
<1>1. job \in [Workers -> Job] /\ job[w] \in Job /\ JobFits(job[w])
  BY OwnJob
<1>2. job[w].pc \in Recording => job[w].kind \in Batches
  BY RunTypes
<1>3. CASE acquireLease(w) \/ claimPauseLease(w)
  <2>1. ASSUME NEW pc, pc \in {"stamp", "stampPause"},
               job' = [job EXCEPT ![w].pc = pc, ![w].fence = lock.fence + 1]
        PROVE  Spot(job'[w]) \in Elsewhere
    BY <1>1, <2>1 DEF Job, Spot, Elsewhere
  <2>2. ASSUME job' = [job EXCEPT ![w] = [NoJob EXCEPT !.pc = "sweep", !.kind = "recover",
                                                      !.run = runOf(w)]]
        PROVE  Spot(job'[w]) \in Elsewhere
    BY <1>1, <2>2 DEF NoJob, Spot, Elsewhere
  <2> QED
    BY <1>3, <2>1, <2>2, ReturnSpot DEF acquireLease, claimPauseLease
<1>4. CASE stampLease(w)
  <2>1. job[w].kind \in Calls \union {"freeze"}
    BY <1>4, OwnJob, KindsKnown DEF stampLease, At
  <2>2. \E pc \in {"enter", "snapshot", "reopen", "weigh", "compare"} : RenewThen(w, pc) \/ Goto(w, pc)
    BY <1>4, <2>1 DEF stampLease, Calls, Admitted, Batches, Phase
  <2> QED
    BY <1>4, <2>2, RenewSpot, GotoSpot
<1>5. CASE Renew(w)
  <2>1. job[w].pc = "renew"
    BY <1>5 DEF Renew, At
  <2>2. job[w].then # "renew"
    BY <1>1, <2>1 DEF JobFits, RenewsFor, Job, Calls, Admitted
  <2>3. CASE /\ renewLease(runOf(w), job[w].fence, job[w].kind)
             /\ job' = [job EXCEPT ![w].pc = job[w].then, ![w].then = "idle"]
    BY <1>1, <1>5, <2>1, <2>2, <2>3 DEF Renewed, Keeps, SameCall, Spot, Job
  <2>4. CASE job[w].then = "write" /\ ToJournal(w, phaseOf(w).failed)
    <3>1. job[w].kind \in Batches
      BY <1>1, <2>1, <2>4, KindsKnown DEF Handling, AboutTo
    <3> QED
      BY <2>1, <2>4, <3>1, JournalSpot DEF Recorded, Spot, RecordPcs
  <2>5. CASE Leave(w, Catch(w))
    BY <2>5, LeaveSpot DEF Catch, Elsewhere
  <2> QED
    BY <1>5, <2>3, <2>4, <2>5 DEF Renew
<1>6. CASE Release(w)
  <2>1. CASE job[w].kind = "recover"
    <3>1. PICK q : job' = [job EXCEPT ![w] = [NoJob EXCEPT !.pc = job[w].then, !.kind = "recover",
                                                          !.run = q]]
      BY <1>6, <2>1 DEF Release
    <3>2. job'[w].pc = job[w].then /\ job[w].then \in {"clear", "sweep"}
      BY <1>1, <1>6, <2>1, <3>1 DEF NoJob, JobFits, Release, At
    <3> QED
      BY <3>2 DEF Spot, Elsewhere
  <2> QED
    BY <1>6, <2>1, ReturnSpot DEF Release
<1>7. CASE \/ Abort(w) \/ FinishPreview(w) \/ FinishResume(w) \/ FinishCancel(w) \/ FinishVerify(w)
           \/ CompletePhase(w) \/ StallPhase(w) \/ finalizePauseWithLease(w)
  BY <1>7, LeaveSpot DEF Abort, FinishPreview, FinishResume, FinishCancel, FinishVerify,
     CompletePhase, StallPhase, finalizePauseWithLease, Guarded, Elsewhere
<1>8. CASE Fails(w)
  BY <1>8, LeaveSpot DEF Fails, Catch, Elsewhere
<1>9. CASE stampPause(w)
  <2>1. ASSUME job' = [job EXCEPT ![w].pc = "release", ![w].then = "sweep"]
        PROVE  Spot(job'[w]) \in Elsewhere
    BY <1>1, <2>1 DEF Job, Spot, Elsewhere
  <2> QED
    BY <1>9, <2>1, GotoSpot DEF stampPause, Elsewhere
<1>10. CASE clearExpiredLock(w) \/ sweepRuns(w) \/ CheckParked(w) \/ Crash(w) \/ parkLease(w)
  BY <1>10, LeaveSpot, GotoSpot, ReturnSpot DEF clearExpiredLock, sweepRuns, CheckParked, Crash,
     parkLease, Elsewhere
<1>11. CASE FreezeSnapshot(w)
  BY <1>11, LeaveSpot, RenewSpot DEF FreezeSnapshot, Elsewhere
<1>12. CASE WeighCancel(w)
  <2>1. ASSUME NEW s, job' = [job EXCEPT ![w].pc = "renew", ![w].then = "cancelled", ![w].seen = s]
        PROVE  Keeps(w) /\ Spot(job'[w]) = "cancelled" /\ job'[w].pc = "renew"
    BY <1>1, <2>1 DEF Job, Spot, Keeps, SameCall
  <2>2. CASE Leave(w, "release")
    BY <2>2, LeaveSpot DEF Elsewhere
  <2> QED
    BY <1>12, <2>1, <2>2 DEF WeighCancel, Weighed
<1>13. CASE ReopenFailed(w)
  <2>1. ASSUME NEW p, job' = [job EXCEPT ![w].pc = "renew", ![w].then = "reopened", ![w].seen = p]
        PROVE  Keeps(w) /\ Spot(job'[w]) = "reopened" /\ job'[w].seen = p
    BY <1>1, <2>1 DEF Job, Spot, Keeps, SameCall
  <2>2. CASE Leave(w, "release")
    BY <2>2, LeaveSpot DEF Elsewhere
  <2>3. CASE ~Leave(w, "release")
    <3> DEFINE p == IF run[runOf(w)].pausedPhase = "restore" THEN "restore" ELSE "apply"
    <3>1. /\ run[runOf(w)].status = "paused"
          /\ job' = [job EXCEPT ![w].pc = "renew", ![w].then = "reopened", ![w].seen = p]
      BY <1>13, <2>3 DEF ReopenFailed
    <3>2. p = "restore" => run[runOf(w)].pausedPhase = "restore"
      OBVIOUS
    <3> HIDE DEF p
    <3> QED
      BY <1>13, <2>1, <3>1, <3>2 DEF Reopened
  <2> QED
    BY <2>2, <2>3
<1>14. CASE CompareRecords(w)
  <2> DEFINE status == run[runOf(w)].status
             ok == ReportOK(runOf(w), status)
             restoring == status \in {"restored", "restored-with-conflicts"}
             next == IF ok /\ ~restoring THEN "verified"
                     ELSE IF ~ok /\ status = "verified"
                          THEN IF Statuses(runOf(w), {"conflict"}) # {}
                               THEN "applied-with-conflicts" ELSE "applied"
                     ELSE IF ~ok /\ restoring THEN "restored-with-conflicts"
                     ELSE status
  <2>1. \/ Leave(w, "release")
        \/ job' = [job EXCEPT ![w].pc = "renew", ![w].then = "verified",
                              ![w].seen = status, ![w].outcome = next]
    BY <1>14 DEF CompareRecords
  <2>2. \/ next = "verified" /\ ok /\ ~restoring
        \/ status = "verified" /\ next \in {"applied", "applied-with-conflicts"}
        \/ restoring /\ next = "restored-with-conflicts"
        \/ next = status /\ (status = "verified" => ok)
    OBVIOUS
  <2>3. ASSUME NEW s, NEW o, job' = [job EXCEPT ![w].pc = "renew", ![w].then = "verified",
                                                ![w].seen = s, ![w].outcome = o]
        PROVE  /\ Keeps(w) /\ Spot(job'[w]) = "verified" /\ job'[w].pc = "renew"
               /\ job'[w].outcome = o
    BY <1>1, <2>3 DEF Job, Spot, Keeps, SameCall
  <2>4. CASE Leave(w, "release")
    BY <2>4, LeaveSpot DEF Elsewhere
  <2> HIDE DEF next
  <2> QED
    BY <1>14, <2>1, <2>2, <2>3, <2>4 DEF Compared
<1>15. CASE EnterBatch(w)
  <2>1. ASSUME NEW listed, NEW size, job' = [job EXCEPT ![w].pc = "next", ![w].todo = listed,
                                                        ![w].listed = size]
        PROVE  Keeps(w) /\ Spot(job'[w]) = "next"
    BY <1>1, <2>1 DEF Job, Spot, Keeps, SameCall
  <2>2. CASE Leave(w, "abort")
    BY <2>2, LeaveSpot DEF Elsewhere
  <2>3. \/ Leave(w, "abort")
        \/ /\ Unchanged(w, {job[w].seen})
           /\ \E listed, size : job' = [job EXCEPT ![w].pc = "next", ![w].todo = listed,
                                                   ![w].listed = size]
    BY <1>15 DEF EnterBatch
  <2> QED
    BY <1>15, <2>1, <2>2, <2>3 DEF Entered
<1>16. CASE NextRecord(w)
  <2>1. CASE RenewThen(w, "claim")
    BY <1>2, <1>16, <2>1, RenewSpot DEF NextRecord, At, Recorded, Recording, RecordPcs, Spot
  <2> QED
    BY <1>16, <2>1, LeaveSpot, GotoSpot DEF NextRecord, Elsewhere
<1>17. CASE ClaimRecord(w)
  <2>1. ASSUME NEW t, NEW todo, NEW rec,
               job' = [job EXCEPT ![w].pc = "read", ![w].card = t, ![w].todo = todo,
                                  ![w].recovering = rec]
        PROVE  Keeps(w) /\ Spot(job'[w]) \in RecordPcs
    BY <1>1, <2>1 DEF Job, Spot, Keeps, SameCall, RecordPcs
  <2>2. ASSUME NEW todo, job' = [job EXCEPT ![w].pc = "next", ![w].todo = todo]
        PROVE  Keeps(w) /\ Spot(job'[w]) \in RecordPcs
    BY <1>1, <2>2 DEF Job, Spot, Keeps, SameCall, RecordPcs
  <2>3. CASE Leave(w, "abort")
    BY <2>3, LeaveSpot DEF Elsewhere
  <2>4. \/ Leave(w, "abort")
        \/ \E todo : job' = [job EXCEPT ![w].pc = "next", ![w].todo = todo]
        \/ \E t, todo, rec : job' = [job EXCEPT ![w].pc = "read", ![w].card = t,
                                                ![w].todo = todo, ![w].recovering = rec]
    <3>1. PICK t \in job[w].todo :
             \/ job' = [job EXCEPT ![w].pc = "next", ![w].todo = @ \ {t}]
             \/ Leave(w, "abort")
             \/ \E rec : job' = [job EXCEPT ![w].pc = "read", ![w].card = t,
                                            ![w].todo = @ \ {t}, ![w].recovering = rec]
      BY <1>17 DEF ClaimRecord
    <3>2. CASE Leave(w, "abort")
      BY <3>2
    <3>3. CASE job' = [job EXCEPT ![w].pc = "next", ![w].todo = @ \ {t}]
      <4>1. job' = [job EXCEPT ![w].pc = "next", ![w].todo = job[w].todo \ {t}]
        BY <1>1, <3>3 DEF Job
      <4> QED
        BY <4>1
    <3>4. ASSUME NEW rec, job' = [job EXCEPT ![w].pc = "read", ![w].card = t,
                                            ![w].todo = @ \ {t}, ![w].recovering = rec]
          PROVE  \E x, todo, y : job' = [job EXCEPT ![w].pc = "read", ![w].card = x,
                                                ![w].todo = todo, ![w].recovering = y]
      <4>1. job' = [job EXCEPT ![w].pc = "read", ![w].card = t,
                               ![w].todo = job[w].todo \ {t}, ![w].recovering = rec]
        BY <1>1, <3>4 DEF Job
      <4> QED
        BY <4>1
    <3> QED
      BY <3>1, <3>2, <3>3, <3>4
  <2>5. Spot(job[w]) \in RecordPcs /\ job[w].kind \in Batches
    BY <1>2, <1>17 DEF ClaimRecord, At, Spot, RecordPcs, Recording
  <2> QED
    BY <2>1, <2>2, <2>3, <2>4, <2>5 DEF Recorded
<1>18. CASE \/ ReadRecord(w) \/ ReadFails(w) \/ WriteRecord(w) \/ WriteFails(w)
            \/ RereadRecord(w) \/ JournalRecord(w)
  <2>1. Spot(job[w]) \in RecordPcs
    BY <1>18 DEF ReadRecord, ReadFails, WriteRecord, WriteFails, RereadRecord, JournalRecord, At,
       Spot, RecordPcs
  <2>2. Handling(job[w])
    BY <1>18 DEF ReadRecord, ReadFails, WriteRecord, WriteFails, RereadRecord, JournalRecord, At,
       Handling, AboutTo
  <2>3. job[w].kind \in Batches
    BY <1>1, <2>2, KindsKnown
  <2>4. \/ \E o : ToJournal(w, o)
        \/ NextInBatch(w)
        \/ RenewThen(w, "write")
        \/ \E pc \in {"reread", "recheck"} : Goto(w, pc)
    BY <1>18 DEF ReadRecord, ReadFails, WriteRecord, WriteFails, RereadRecord, JournalRecord
  <2>5. Spot(job'[w]) \in RecordPcs /\ Keeps(w)
    BY <2>4, JournalSpot, RenewSpot, GotoSpot DEF RecordPcs
  <2> QED
    BY <2>1, <2>3, <2>5 DEF Recorded
<1>19. CASE FinishBatch(w)
  <2> DEFINE outcome == IF Conflicts(w) = {} THEN phaseOf(w).complete ELSE phaseOf(w).incomplete
  <2>1. \/ /\ Remaining(w) = {}
           /\ job' = [job EXCEPT ![w].pc = "renew", ![w].then = "complete", ![w].listed = 0,
                                 ![w].outcome = outcome]
        \/ RenewThen(w, "stall")
        \/ job' = [job EXCEPT ![w].pc = "park", ![w].listed = 0]
    BY <1>19 DEF FinishBatch
  <2>2. ASSUME NEW o, job' = [job EXCEPT ![w].pc = "renew", ![w].then = "complete",
                                         ![w].listed = 0, ![w].outcome = o]
        PROVE  Keeps(w) /\ Spot(job'[w]) = "complete" /\ job'[w].outcome = o
    BY <1>1, <2>2 DEF Job, Spot, Keeps, SameCall
  <2>3. ASSUME job' = [job EXCEPT ![w].pc = "park", ![w].listed = 0]
        PROVE  Spot(job'[w]) \in Elsewhere
    BY <1>1, <2>3 DEF Job, Spot, Elsewhere
  <2>4. CASE RenewThen(w, "stall")
    BY <2>4, RenewSpot DEF Elsewhere
  <2> HIDE DEF outcome
  <2>5. CASE Remaining(w) = {} /\ job' = [job EXCEPT ![w].pc = "renew", ![w].then = "complete",
                                          ![w].listed = 0, ![w].outcome = outcome]
    BY <1>19, <2>2, <2>5 DEF Finished, outcome
  <2> QED
    BY <2>1, <2>3, <2>4, <2>5
<1> QED
  BY <1>3, <1>4, <1>5, <1>6, <1>7, <1>8, <1>9, <1>10, <1>11, <1>12, <1>13, <1>14, <1>15, <1>16,
     <1>17, <1>18, <1>19 DEF Step, Batch, Failure

-----------------------------------------------------------------------------
(* What the status of a run tells.                                         *)

OpenApplies == {"pending", "applying-record", "failed"}
OpenRestores == {"applied", "restoring-record", "restore-failed"}

\* The statuses that no record of a run has when the status of the run is as given.
Excluded(status) ==
    IF status \in {"applied", "verified"} THEN OpenApplies \union {"conflict"}
    ELSE IF status \in {"applied-with-conflicts", "restore-ready", "restoring"} THEN OpenApplies
    ELSE IF status = "restored" THEN OpenApplies \union OpenRestores \union {"restore-conflict"}
    ELSE IF status = "restored-with-conflicts" THEN OpenApplies \union OpenRestores
    ELSE {}

Tells(r, status) == Statuses(r, Excluded(status)) = {}
AppliedOut(r) == Statuses(r, OpenApplies) = {}

StatusInv ==
    /\ \A r \in Runs :
         /\ Tells(r, run[r].status)
         /\ run[r].status = "paused" /\ run[r].pausedPhase = "restore" => AppliedOut(r)
    /\ \A w \in Workers :
         /\ job[w].phase = "restore" => AppliedOut(runOf(w))
         /\ Spot(job[w]) \in {"complete", "verified"} => Tells(runOf(w), job[w].outcome)
         /\ Spot(job[w]) = "reopened" /\ job[w].seen = "restore" => AppliedOut(runOf(w))

\* Once no record of a run that is past its freeze has an open status, none gets one.
LEMMA OutStays ==
    ASSUME TypeInv, FreezeInv, Next, NEW r \in Runs, run[r].status \notin Early, NEW status,
           Tells(r, status)
    PROVE  Tells(r, status)'
<1> SUFFICES ASSUME NEW t \in Timecards, backup'[r][t].status \in Excluded(status)
             PROVE  FALSE
  BY DEF Tells, Statuses
<1>1. backup[r][t].status \notin Excluded(status)
  BY DEF Tells, Statuses
<1>2. t \in Frozen(r)'
  BY DEF Frozen, Excluded, OpenApplies, OpenRestores
<1>3. t \in Frozen(r)
  <2>1. ASSUME NEW w \in Workers, FreezeSnapshot(w), runOf(w) = r PROVE FALSE
    <3>1. Snapshots(job[w])
      BY <2>1, RunTypes, KindsKnown DEF FreezeSnapshot, At, Snapshots, AboutTo
    <3> QED
      BY <2>1, <3>1 DEF FreezeInv, Early
  <2> QED
    BY <1>2, <2>1, FrozenSteps
<1>4. backup'[r][t] # backup[r][t]
  BY <1>1
<1>5. ASSUME NEW p \in Batches, backup[r][t].status = Phase[p].failed,
             backup'[r][t].status = Phase[p].open
      PROVE  FALSE
  BY <1>1, <1>5 DEF Batches, Phase, Excluded, OpenApplies, OpenRestores
<1>6. ASSUME NEW w \in Workers, ClaimRecord(w),
             backup[r][t].status \in {phaseOf(w).open, phaseOf(w).intent},
             backup'[r][t].status = phaseOf(w).intent
      PROVE  FALSE
  <2>1. job[w].phase \in Batches
    BY <1>6, RunTypes DEF ClaimRecord, At, Recording
  <2> QED
    BY <1>1, <1>6, <2>1 DEF phaseOf, Batches, Phase, Excluded, OpenApplies, OpenRestores
<1>7. ASSUME NEW w \in Workers, JournalRecord(w), backup[r][t].status = phaseOf(w).intent,
             backup'[r][t].status = job[w].outcome
      PROVE  FALSE
  <2>1. At(w, "journal") /\ JobFits(job[w]) /\ job[w].phase \in Batches
    BY <1>7, RunTypes DEF JournalRecord, At, Recording
  <2>2. job[w].outcome \in {phaseOf(w).done, phaseOf(w).conflict, phaseOf(w).failed}
    BY <2>1 DEF JobFits, At, phaseOf
  <2> QED
    BY <1>1, <1>7, <2>1, <2>2 DEF phaseOf, Batches, Phase, Excluded, OpenApplies, OpenRestores
<1> QED
  BY <1>3, <1>4, <1>5, <1>6, <1>7, RecordSteps DEF Mine

LEMMA AppliedTells == ASSUME NEW r PROVE AppliedOut(r) = Tells(r, "restoring")
  BY DEF AppliedOut, Tells, Excluded

\* How a run comes to be paused in its restore phase.
LEMMA PauseSteps ==
    ASSUME TypeInv, Next, NEW r \in Runs, run'[r].status = "paused",
           run'[r].pausedPhase = "restore"
    PROVE  \/ run[r].status = "paused" /\ run[r].pausedPhase = "restore"
           \/ run[r].status = "restoring"
           \/ \E w \in Workers : runOf(w) = r /\ job[w].phase = "restore"
<1>1. run \in [Runs -> Run] /\ run[r] \in Run
  BY RunTypes
<1>2. CASE UNCHANGED run
  BY <1>2
<1>3. ASSUME NEW w \in Workers, Call(w)
      PROVE  run[r].status = "paused" /\ run[r].pausedPhase = "restore"
  <2>1. \/ UNCHANGED run
        \/ \E q \in Runs : run' = [run EXCEPT ![q].status = "freezing"]
        \/ \E q \in Runs : run' = [run EXCEPT ![q].pauseRequested = TRUE]
    BY <1>3 DEF Call, pause, createPreviewRun, Begin, recoverStaleRuns
  <2> QED
    BY SMTT(40), <1>1, <2>1 DEF Run
<1>4. ASSUME NEW w \in Workers, Failure(w) PROVE UNCHANGED run
  BY SMTT(40), <1>4 DEF Failure, ReadFails, WriteFails, Crash, Fails
<1>5. ASSUME NEW w \in Workers,
             \/ Renew(w) \/ Release(w) \/ claimPauseLease(w) \/ clearExpiredLock(w)
             \/ FreezeSnapshot(w) \/ ReopenFailed(w) \/ WeighCancel(w) \/ CompareRecords(w)
             \/ ClaimRecord(w) \/ ReadRecord(w) \/ WriteRecord(w) \/ RereadRecord(w)
             \/ JournalRecord(w) \/ FinishBatch(w) \/ parkLease(w) \/ CheckParked(w)
      PROVE  UNCHANGED run
  BY <1>5 DEF Renew, Release, claimPauseLease, clearExpiredLock, FreezeSnapshot, ReopenFailed,
     WeighCancel, CompareRecords, ClaimRecord, ReadRecord, WriteRecord, RereadRecord,
     JournalRecord, FinishBatch, parkLease, CheckParked
<1>6. ASSUME NEW w \in Workers, acquireLease(w) \/ stampLease(w) \/ stampPause(w)
      PROVE  run[r].status = "paused" /\ run[r].pausedPhase = "restore"
  <2>1. \/ UNCHANGED run
        \/ run' = [run EXCEPT ![runOf(w)].status = "failed"]
        \/ run' = [run EXCEPT ![runOf(w)].leaseFence = job[w].fence]
    BY <1>6 DEF acquireLease, stampLease, stampPause
  <2> QED
    BY <1>1, <2>1 DEF Run
<1>7. ASSUME NEW w \in Workers, FinalizePause(w)
      PROVE  \/ run[r].status = "paused" /\ run[r].pausedPhase = "restore"
             \/ runOf(w) = r /\ job[w].phase = "restore"
  BY <1>1, <1>7 DEF FinalizePause, Run
<1>8. ASSUME NEW w \in Workers, Pause(w)
      PROVE  \/ run[r].status = "paused" /\ run[r].pausedPhase = "restore"
             \/ runOf(w) = r /\ job[w].phase = "restore"
  BY <1>1, <1>8 DEF Pause, Run
<1>9. ASSUME NEW w \in Workers, NEW s, NEW p,
             \/ run' = [run EXCEPT ![runOf(w)].status = s]
             \/ run' = [run EXCEPT ![runOf(w)].status = s, ![runOf(w)].pausedPhase = "none",
                                   ![runOf(w)].pauseRequested = FALSE]
      PROVE  run[r].pausedPhase = "restore" /\ (runOf(w) = r => s = "paused")
             /\ (runOf(w) # r => run[r].status = "paused")
  BY <1>1, <1>9 DEF Run
<1>10. ASSUME NEW w \in Workers, sweepRuns(w)
       PROVE  \/ run[r].status = "paused" /\ run[r].pausedPhase = "restore"
              \/ run[r].status = "restoring"
  <2>1. PICK stale : run' = [q \in Runs |->
              IF q = runOf(w) THEN run[q]
              ELSE IF run[q].status \in {"applying", "restoring"}
                   THEN [run[q] EXCEPT !.status = "paused",
                            !.pausedPhase = IF run[q].status = "applying"
                                            THEN "apply" ELSE "restore"]
              ELSE IF q \in stale THEN [run[q] EXCEPT !.status = "failed"]
              ELSE run[q]]
    BY <1>10 DEF sweepRuns
  <2>2. run'[r] = IF r = runOf(w) THEN run[r]
              ELSE IF run[r].status \in {"applying", "restoring"}
                   THEN [run[r] EXCEPT !.status = "paused",
                            !.pausedPhase = IF run[r].status = "applying"
                                            THEN "apply" ELSE "restore"]
              ELSE IF r \in stale THEN [run[r] EXCEPT !.status = "failed"]
              ELSE run[r]
    BY <2>1
  <2>3. CASE run[r].status \in {"applying", "restoring"} /\ r # runOf(w)
    BY <1>1, <2>2, <2>3 DEF Run
  <2> QED
    BY <1>1, <2>2, <2>3 DEF Run
<1>11. ASSUME NEW w \in Workers, EnterBatch(w)
       PROVE  run[r].status = "paused" /\ run[r].pausedPhase = "restore"
  <2>1. phaseOf(w).active # "paused"
    <3>1. job[w].phase \in Batches
      BY <1>11, RunTypes DEF EnterBatch, At, Recording
    <3> QED
      BY <3>1 DEF phaseOf, Batches, Phase
  <2>2. UNCHANGED run \/ run' = [run EXCEPT ![runOf(w)].status = phaseOf(w).active]
    BY ZenonT(60), <1>11 DEF EnterBatch, SetStatus
  <2> QED
    BY <1>1, <2>1, <2>2 DEF Run
<1>12. ASSUME NEW w \in Workers, CompletePhase(w) \/ FinishResume(w) \/ FinishVerify(w)
       PROVE  run[r].status = "paused" /\ run[r].pausedPhase = "restore"
  <2>1. JobFits(job[w]) /\ (CompletePhase(w) => job[w].phase \in Batches)
    BY <1>12, RunTypes DEF CompletePhase, At, Recording
  <2>2. /\ CompletePhase(w) => job[w].outcome # "paused"
        /\ FinishResume(w) => Phase[job[w].seen].resumed # "paused"
        /\ FinishVerify(w) => job[w].outcome # "paused"
    BY <2>1 DEF CompletePhase, FinishResume, FinishVerify, At, JobFits, AboutTo, Batches, Phase,
       Admitted
  <2> QED
    BY <1>9, <1>12, <2>2 DEF CompletePhase, FinishResume, FinishVerify, Guarded, SetStatus
<1>13. ASSUME NEW w \in Workers, FinishPreview(w) \/ FinishCancel(w)
       PROVE  run[r].status = "paused" /\ run[r].pausedPhase = "restore"
  <2>1. \/ UNCHANGED run
        \/ \E s \in {"preview", "cancelled"} : run' = [run EXCEPT ![runOf(w)].status = s]
    BY <1>13 DEF FinishPreview, FinishCancel, Guarded, SetStatus
  <2> QED
    BY <1>1, <2>1 DEF Run
<1>14. ASSUME NEW w \in Workers, Abort(w)
       PROVE  \/ run[r].status = "paused" /\ run[r].pausedPhase = "restore"
              \/ runOf(w) = r /\ job[w].phase = "restore"
  BY <1>1, <1>8, <1>14 DEF Abort, Run
<1>15. ASSUME NEW w \in Workers, StallPhase(w) \/ finalizePauseWithLease(w) \/ NextRecord(w)
       PROVE  \/ run[r].status = "paused" /\ run[r].pausedPhase = "restore"
              \/ runOf(w) = r /\ job[w].phase = "restore"
  BY <1>7, <1>8, <1>15 DEF StallPhase, Guarded, finalizePauseWithLease, NextRecord
<1>16. ASSUME NEW q \in Runs, prepareBackup(q)
       PROVE  run[r].status = "paused" /\ run[r].pausedPhase = "restore"
  BY SMTT(40), <1>1, <1>16 DEF prepareBackup, Run
<1>17. \/ UNCHANGED run
       \/ \E q \in Runs : prepareBackup(q)
       \/ \E w \in Workers : Call(w) \/ Step(w) \/ Failure(w)
  BY DEF Next, LandLate, Writer, StartEdit, RenewEdit, ReleaseEdit, editOwnedTimecardTask,
     updateTimeCard, deleteOwnedTimeCard, SaveEdit, Expire
<1> QED
  BY <1>2, <1>3, <1>4, <1>5, <1>6, <1>10, <1>11, <1>12, <1>13, <1>14, <1>15, <1>16, <1>17
  DEF Step, Batch

-----------------------------------------------------------------------------
(* The status is true.                                                     *)

LEMMA TellsLess == ASSUME NEW r, NEW s, NEW status, Excluded(s) \subseteq Excluded(status),
                          Tells(r, status)
                   PROVE  Tells(r, s)
  BY DEF Tells, Statuses

LEMMA TellsNothing == ASSUME NEW r, NEW status, Excluded(status) = {} PROVE Tells(r, status)
  BY DEF Tells, Statuses

\* The runs of calls that may act on records are past their freeze.
LEMMA PastFreeze ==
    ASSUME FreezeInv, NEW w \in Workers,
           job[w].kind \in Calls \union {"pause"} \/ job[w].phase = "restore"
    PROVE  runOf(w) \in Runs /\ run[runOf(w)].status \notin Early
  BY DEF FreezeInv

\* What the last step of a phase is about to say of the run is so.
LEMMA FinishedTells == ASSUME TypeInv, StatusInv, NEW w \in Workers, Finished(w)
                       PROVE  Tells(runOf(w), job'[w].outcome)
<1>1. job[w].phase \in Batches
  BY RunTypes DEF Finished, FinishBatch, At, Recording
<1>2. /\ Statuses(runOf(w), {phaseOf(w).open, phaseOf(w).intent, phaseOf(w).failed}) = {}
      /\ \/ job'[w].outcome = phaseOf(w).complete /\ Statuses(runOf(w), {phaseOf(w).conflict}) = {}
         \/ job'[w].outcome = phaseOf(w).incomplete
  BY DEF Finished, Remaining, Conflicts
<1>3. CASE job[w].phase = "apply"
  <2>1. phaseOf(w) = Phase["apply"]
    BY <1>3 DEF phaseOf
  <2> QED
    BY <1>2, <2>1 DEF Phase, Tells, Excluded, OpenApplies, Statuses
<1>4. CASE job[w].phase = "restore"
  <2>1. phaseOf(w) = Phase["restore"] /\ Statuses(runOf(w), OpenApplies) = {}
    BY <1>4 DEF phaseOf, StatusInv, AppliedOut
  <2> QED
    BY <1>2, <2>1 DEF Phase, Tells, Excluded, OpenApplies, OpenRestores, Statuses
<1> QED
  BY <1>1, <1>3, <1>4 DEF Batches, Phase

LEMMA ComparedTells == ASSUME TypeInv, StatusInv, NEW w \in Workers, runOf(w) \in Runs, Compared(w)
                       PROVE  Tells(runOf(w), job'[w].outcome)
<1> DEFINE r == runOf(w)
           s == run[r].status
<1>1. Tells(r, s)
  BY DEF StatusInv
<1>2. CASE /\ job'[w].outcome = "verified" /\ ReportOK(r, s)
           /\ s \notin {"restored", "restored-with-conflicts"}
  <2>1. \A t \in Timecards : backup[r][t].status \in {"none", "applied"}
    BY <1>2 DEF ReportOK
  <2> HIDE DEF r
  <2> QED
    BY <1>2, <2>1 DEF Tells, Excluded, OpenApplies, Statuses, r
<1>3. CASE s = "verified" /\ job'[w].outcome \in {"applied", "applied-with-conflicts"}
  BY <1>1, <1>3, TellsLess DEF Excluded
<1>4. CASE /\ s \in {"restored", "restored-with-conflicts"}
           /\ job'[w].outcome = "restored-with-conflicts"
  BY <1>1, <1>4, TellsLess DEF Excluded
<1>5. CASE job'[w].outcome = s
  BY <1>1, <1>5
<1> QED
  BY <1>2, <1>3, <1>4, <1>5 DEF Compared

\* The statuses of a run change to what its records already bear out.
LEMMA RunTells ==
    ASSUME TypeInv, FreezeInv, StatusInv, Next, NEW r \in Runs PROVE Tells(r, run'[r].status)
<1>1. Tells(r, run[r].status)
  BY DEF StatusInv
<1>2. CASE run'[r].status = run[r].status
  BY <1>1, <1>2
<1>3. CASE run'[r].status \in {"freezing", "failed", "ready", "paused", "preview", "cancelled",
                               "applying"}
  BY <1>3, TellsNothing DEF Excluded
<1>4. ASSUME NEW w \in Workers, runOf(w) = r, Finishes(w), run'[r].status # run[r].status
      PROVE  Tells(r, run'[r].status)
  <2>1. /\ job[w].phase = "restore" => Tells(r, "restoring")
        /\ Spot(job[w]) \in {"complete", "verified"} => Tells(r, job[w].outcome)
        /\ Spot(job[w]) = "reopened" /\ job[w].seen = "restore" => Tells(r, "restoring")
    BY <1>4, AppliedTells DEF StatusInv
  <2>2. JobFits(job[w]) /\ job[w] \in Job
    BY RunTypes
  <2>3. CASE EnterBatch(w) /\ run'[r].status = phaseOf(w).active
    <3>1. job[w].phase \in Batches
      BY <2>3, RunTypes DEF EnterBatch, At, Recording
    <3> QED
      BY <1>3, <2>1, <2>3, <3>1 DEF phaseOf, Batches, Phase
  <2>4. CASE CompletePhase(w) /\ run'[r].status = job[w].outcome
    BY <2>1, <2>4 DEF CompletePhase, At, Spot
  <2>5. CASE FinishResume(w) /\ run'[r].status = Phase[job[w].seen].resumed
    <3>1. At(w, "reopened") /\ job[w].seen \in Batches
      BY <2>2, <2>5 DEF FinishResume, At, JobFits, AboutTo
    <3>2. CASE job[w].seen = "apply"
      BY <1>3, <2>5, <3>2 DEF Phase
    <3>3. CASE job[w].seen = "restore"
      <4>1. Tells(r, "restoring") /\ run'[r].status = "restore-ready"
        BY <2>1, <2>5, <3>1, <3>3 DEF Phase, At, Spot
      <4> QED
        BY <4>1, TellsLess DEF Excluded
    <3> QED
      BY <3>1, <3>2, <3>3 DEF Batches, Phase
  <2>6. CASE FinishVerify(w) /\ run'[r].status = job[w].outcome
    BY <2>1, <2>6 DEF FinishVerify, At, Spot
  <2> QED
    BY <1>3, <1>4, <2>3, <2>4, <2>5, <2>6, FinishSteps
<1> QED
  BY <1>2, <1>3, <1>4, StatusSteps

LEMMA RunTellsNext ==
    ASSUME TypeInv, FreezeInv, StatusInv, Next, NEW r \in Runs, NEW s, s = run'[r].status
    PROVE  Tells(r, s)'
<1>1. Tells(r, s)
  BY RunTells
<1>2. CASE run[r].status \notin Early
  BY <1>1, <1>2, OutStays
<1>3. CASE run[r].status \in Early
  <2>1. CASE Excluded(s) = {}
    BY <2>1 DEF Tells, Statuses
  <2>2. CASE Excluded(s) # {}
    <3>1. run'[r].status \notin {"none", "freezing", "failed", "ready", "preview", "paused"}
      BY <2>2 DEF Excluded
    <3>2. PICK w \in Workers : /\ runOf(w) = r /\ Finishes(w)
                               /\ job[w].kind \in Calls \/ At(w, "preview")
      BY <1>3, <3>1, EarlySteps DEF Early
    <3>3. At(w, "preview")
      BY <1>3, <3>2, PastFreeze
    <3>4. FinishPreview(w)
      BY <3>2, <3>3 DEF Finishes, EnterBatch, CompletePhase, StallPhase, Abort, FinishPreview,
         FinishResume, FinishCancel, FinishVerify, At
    <3>5. UNCHANGED run \/ run' = [run EXCEPT ![r].status = "preview"]
      BY <3>2, <3>4 DEF FinishPreview, Guarded, SetStatus
    <3>6. run \in [Runs -> Run]
      BY RunTypes
    <3> QED
      BY <1>3, <3>1, <3>5, <3>6 DEF Early, Run
  <2> QED
    BY <2>1, <2>2
<1> QED
  BY <1>2, <1>3

LEMMA PausedStep ==
    ASSUME TypeInv, FreezeInv, StatusInv, Next, NEW r \in Runs,
           run'[r].status = "paused", run'[r].pausedPhase = "restore"
    PROVE  AppliedOut(r)'
<1>1. run[r].status \notin Early /\ AppliedOut(r)
  <2>1. CASE run[r].status = "paused" /\ run[r].pausedPhase = "restore"
    BY <2>1 DEF StatusInv, Early
  <2>2. CASE run[r].status = "restoring"
    BY <2>2, AppliedTells DEF StatusInv, Early
  <2>3. ASSUME NEW w \in Workers, runOf(w) = r, job[w].phase = "restore"
        PROVE  run[r].status \notin Early /\ AppliedOut(r)
    BY <2>3, PastFreeze DEF StatusInv
  <2> QED
    BY <2>1, <2>2, <2>3, PauseSteps
<1>2. Tells(r, "restoring")'
  BY <1>1, AppliedTells, OutStays
<1> QED
  BY <1>2 DEF Tells, Excluded, AppliedOut

\* How a call comes to rely on what the records of its run say.
LEMMA JobTells ==
    ASSUME TypeInv, FreezeInv, StatusInv, Next, NEW w \in Workers
    PROVE  /\ job'[w].phase = "restore" =>
                /\ job'[w].run \in Runs /\ run[job'[w].run].status \notin Early
                /\ AppliedOut(job'[w].run)
           /\ Spot(job'[w]) \in {"complete", "verified"} =>
                /\ job'[w].run \in Runs /\ run[job'[w].run].status \notin Early
                /\ Tells(job'[w].run, job'[w].outcome)
           /\ Spot(job'[w]) = "reopened" /\ job'[w].seen = "restore" =>
                /\ job'[w].run \in Runs /\ run[job'[w].run].status \notin Early
                /\ AppliedOut(job'[w].run)
<1>1. /\ job[w].phase = "restore" => AppliedOut(job[w].run)
      /\ Spot(job[w]) \in {"complete", "verified"} => Tells(job[w].run, job[w].outcome)
      /\ Spot(job[w]) = "reopened" /\ job[w].seen = "restore" => AppliedOut(job[w].run)
  BY DEF StatusInv, runOf
<1>2. JobFits(job[w]) /\ job[w] \in Job
  BY RunTypes
<1>3. Spot(job[w]) \in {"complete", "verified", "reopened"} => job[w].kind \in Calls
  <2>1. \/ job[w].kind \notin {"none", "freeze", "pause", "recover"}
        \/ Spot(job[w]) \notin {"complete", "verified", "reopened"}
    BY <1>2 DEF JobFits, Spot, PcsOf, RenewsFor
  <2> QED
    BY <1>2, <2>1 DEF Job
<1>4. /\ job[w].phase = "restore" \/ job[w].kind \in Calls =>
           job[w].run \in Runs /\ run[job[w].run].status \notin Early
  BY PastFreeze DEF runOf
<1>5. CASE job'[w] = job[w]
  BY <1>1, <1>3, <1>4, <1>5
<1>6. CASE Call(w)
  <2>1. job'[w].pc \in {"acquire", "claimPause", "sweep", "clear"}
    BY <1>6, CallSteps
  <2>2. Spot(job'[w]) \notin {"complete", "verified", "reopened"}
    BY <2>1 DEF Spot
  <2>3. ASSUME NEW r \in Runs, run[r].status \in Admitted["restore"]
        PROVE  run[r].status \notin Early /\ AppliedOut(r)
    <3>1. run[r].status \notin Early /\ OpenApplies \subseteq Excluded(run[r].status)
      BY <2>3 DEF Admitted, Excluded, Early
    <3>2. Tells(r, run[r].status)
      BY DEF StatusInv
    <3>3. Excluded("restoring") = OpenApplies
      BY DEF Excluded
    <3> QED
      BY <3>1, <3>2, <3>3, TellsLess, AppliedTells
  <2>4. "restoring" \in Admitted["restore"] /\ Phase["restore"].active = "restoring"
    BY DEF Admitted, Phase
  <2>5. job'[w].phase = "restore" =>
           job'[w].run \in Runs /\ run[job'[w].run].status \in Admitted["restore"]
    BY <1>6, <2>4, CallSteps
  <2> QED
    BY <2>2, <2>3, <2>5
<1>7. CASE Step(w) \/ Failure(w)
  <2>1. job'[w].phase = "restore" => job[w].phase = "restore" /\ job'[w].run = job[w].run
    BY <1>7, SameMoves DEF SameCall, NoJob
  <2>2. CASE Renewed(w)
    BY <1>1, <1>3, <1>4, <2>1, <2>2 DEF Renewed, Keeps, SameCall
  <2>3. CASE Finished(w)
    <3>1. job[w].kind \in Calls /\ job'[w].run = job[w].run /\ Spot(job'[w]) = "complete"
      BY <2>3, RunTypes DEF Finished, FinishBatch, At, Recording, Keeps, SameCall, Batches, Phase,
         Calls, Admitted
    <3> QED
      BY <1>1, <1>4, <2>1, <2>3, <3>1, FinishedTells DEF runOf
  <2>4. CASE Compared(w)
    <3>1. At(w, "compare")
      BY <2>4 DEF Compared, CompareRecords
    <3>2. job[w].kind # "none" /\ job[w].kind # "freeze" /\ job[w].kind # "pause"
          /\ job[w].kind # "recover"
      BY <1>2, <3>1 DEF JobFits, PcsOf, At
    <3>3. job[w].kind \in Calls /\ job'[w].run = job[w].run /\ Spot(job'[w]) = "verified"
      BY <1>2, <2>4, <3>2 DEF Compared, Keeps, SameCall, Job
    <3> QED
      BY <1>1, <1>4, <2>1, <2>4, <3>3, ComparedTells DEF runOf
  <2>5. CASE Reopened(w)
    <3>1. At(w, "reopen")
      BY <2>5 DEF Reopened, ReopenFailed
    <3>2. job[w].kind # "none" /\ job[w].kind # "freeze" /\ job[w].kind # "pause"
          /\ job[w].kind # "recover"
      BY <1>2, <3>1 DEF JobFits, PcsOf, At
    <3>3. job[w].kind \in Calls /\ job'[w].run = job[w].run /\ Spot(job'[w]) = "reopened"
      BY <1>2, <2>5, <3>2 DEF Reopened, Keeps, SameCall, Job
    <3>4. job[w].run \in Runs
      BY <1>4, <3>3
    <3>5. job'[w].seen = "restore" => AppliedOut(job[w].run)
      BY <2>5, <3>4 DEF Reopened, StatusInv, runOf
    <3> QED
      BY <1>1, <1>4, <2>1, <3>3, <3>5
  <2>6. CASE Spot(job'[w]) \notin {"complete", "verified", "reopened"}
    BY <1>1, <1>4, <2>1, <2>6
  <2> QED
    BY <1>7, <2>2, <2>3, <2>4, <2>5, <2>6, Arrivals DEF Elsewhere, Recorded, RecordPcs, Entered,
       Weighed
<1> QED
  BY <1>5, <1>6, <1>7, OtherSteps, OthersStay

LEMMA StatusStep == ASSUME TypeInv, FreezeInv, StatusInv, Next PROVE StatusInv'
<1>1. ASSUME NEW r \in Runs
      PROVE  (/\ Tells(r, run[r].status)
              /\ run[r].status = "paused" /\ run[r].pausedPhase = "restore" => AppliedOut(r))'
  <2>1. PICK s : s = run'[r].status
    OBVIOUS
  <2>2. Tells(r, s)'
    BY <2>1, RunTellsNext
  <2>3. Tells(r, run[r].status)' = Tells(r, s)'
    BY <2>1
  <2> QED
    BY <2>2, <2>3, PausedStep
<1>2. ASSUME NEW w \in Workers
      PROVE  (/\ job[w].phase = "restore" => AppliedOut(runOf(w))
              /\ Spot(job[w]) \in {"complete", "verified"} => Tells(runOf(w), job[w].outcome)
              /\ Spot(job[w]) = "reopened" /\ job[w].seen = "restore" => AppliedOut(runOf(w)))'
  <2>1. PICK r, o : r = job'[w].run /\ o = job'[w].outcome
    OBVIOUS
  <2>2. ASSUME r \in Runs, run[r].status \notin Early PROVE AppliedOut(r) => AppliedOut(r)'
    <3>1. AppliedOut(r) => Tells(r, "restoring")'
      BY <2>2, AppliedTells, OutStays
    <3> QED
      BY <3>1 DEF Tells, Excluded, AppliedOut
  <2>3. ASSUME r \in Runs, run[r].status \notin Early PROVE Tells(r, o) => Tells(r, o)'
    BY <2>3, OutStays
  <2>4. runOf(w)' = r
    BY <2>1 DEF runOf
  <2>5. /\ job'[w].phase = "restore" =>
                r \in Runs /\ run[r].status \notin Early /\ AppliedOut(r)
        /\ Spot(job'[w]) \in {"complete", "verified"} =>
                r \in Runs /\ run[r].status \notin Early /\ Tells(r, o)
        /\ Spot(job'[w]) = "reopened" /\ job'[w].seen = "restore" =>
                r \in Runs /\ run[r].status \notin Early /\ AppliedOut(r)
    BY <2>1, JobTells
  <2>6. /\ job'[w].phase = "restore" => AppliedOut(r)'
        /\ Spot(job'[w]) \in {"complete", "verified"} => Tells(r, o)'
        /\ Spot(job'[w]) = "reopened" /\ job'[w].seen = "restore" => AppliedOut(r)'
    BY <2>2, <2>3, <2>5
  <2> QED
    BY <2>1, <2>4, <2>6
<1> QED
  BY <1>1, <1>2 DEF StatusInv

LEMMA StatusInit == Init => StatusInv
  BY DEF Init, NoJob, StatusInv, Tells, Statuses, Excluded, AppliedOut, Spot

LEMMA StatusKeeps == StatusInv /\ UNCHANGED vars => StatusInv'
  BY DEF vars, StatusInv, Tells, Statuses, Excluded, AppliedOut, Spot, runOf

\* A run that completeRun, resume or verify has taken to a status has no record that the
\* status denies, whatever calls of the run were still under way.
THEOREM StatusIsTrue == Spec => []StatusTrue
<1>1. Init => TypeInv /\ FreezeInv /\ StatusInv
  BY TypeInit, FreezeInit, StatusInit
<1>2. TypeInv /\ FreezeInv /\ StatusInv /\ [Next]_vars => (TypeInv /\ FreezeInv /\ StatusInv)'
  BY TypeStep, FreezeStep, StatusStep, StatusKeeps
<1>3. StatusInv => StatusTrue
  BY DEF StatusInv, StatusTrue, Tells, Excluded, Statuses, OpenApplies, OpenRestores
<1> QED
  BY <1>1, <1>2, <1>3, PTL DEF Spec

-----------------------------------------------------------------------------
(* Cancelling.                                                             *)

\* No conversion of run r is in force, and none that is on its way can take effect.
Quiet(r) == \A t \in Timecards :
    /\ entry[t].by # r
    /\ \A p \in Batches : ~(Open(r, t, p) /\ Landing(r, t, p))

\* A call that may still touch records, or is about to list some.
Records(j) == j.kind \in Batches /\ Spot(j) \in RecordPcs
Enters(j) == j.kind \in Batches /\ Spot(j) = "enter"

CancelInv ==
    /\ \A c \in Workers :
        /\ At(c, "renew") /\ job[c].then = "cancelled" /\ lock.fence = job[c].fence
              => Quiet(runOf(c))
        /\ At(c, "cancelled") /\ run[runOf(c)].leaseFence = job[c].fence =>
              /\ Quiet(runOf(c))
              /\ \A v \in Workers : (Records(job[v]) \/ Enters(job[v])) /\ runOf(v) = runOf(c)
                                       => job[v].fence < job[c].fence
    /\ \A r \in Runs : run[r].status = "cancelled" =>
          /\ Quiet(r)
          /\ \A v \in Workers : Records(job[v]) /\ runOf(v) = r => job[v].fence # lock.fence

\* Who changes the fence that a run was stamped with.
LEMMA StampSteps ==
    ASSUME TypeInv, Next, NEW r \in Runs, run'[r].leaseFence # run[r].leaseFence
    PROVE  \E x \in Workers : /\ stampLease(x) \/ stampPause(x)
                              /\ runOf(x) = r /\ run'[r].leaseFence = job[x].fence
<1>1. run \in [Runs -> Run] /\ run[r] \in Run
  BY RunTypes
<1>2. ASSUME UNCHANGED run PROVE FALSE
  BY <1>2
<1>3. ASSUME NEW q, NEW s, NEW p, NEW b,
             \/ run' = [run EXCEPT ![q].status = s]
             \/ run' = [run EXCEPT ![q].pauseRequested = TRUE]
             \/ run' = [run EXCEPT ![q].status = s, ![q].pausedPhase = p]
             \/ run' = [run EXCEPT ![q].status = s, ![q].pausedPhase = p, ![q].pauseRequested = b]
      PROVE  FALSE
  BY SMTT(40), <1>1, <1>3 DEF Run
<1>4. ASSUME NEW w \in Workers, Call(w) PROVE FALSE
  BY ZenonT(60), <1>2, <1>3, <1>4 DEF Call, pause, createPreviewRun, Begin, recoverStaleRuns
<1>5. ASSUME NEW w \in Workers,
             \/ Renew(w) \/ Release(w) \/ claimPauseLease(w) \/ clearExpiredLock(w)
             \/ FreezeSnapshot(w) \/ ReopenFailed(w) \/ WeighCancel(w) \/ CompareRecords(w)
             \/ ClaimRecord(w) \/ ReadRecord(w) \/ WriteRecord(w) \/ RereadRecord(w)
             \/ JournalRecord(w) \/ FinishBatch(w) \/ parkLease(w) \/ CheckParked(w)
             \/ Failure(w)
      PROVE  FALSE
  BY <1>5 DEF Renew, Release, claimPauseLease, clearExpiredLock, FreezeSnapshot, ReopenFailed,
     WeighCancel, CompareRecords, ClaimRecord, ReadRecord, WriteRecord, RereadRecord,
     JournalRecord, FinishBatch, parkLease, CheckParked, Failure, ReadFails, WriteFails, Crash,
     Fails
<1>6. ASSUME NEW w \in Workers, acquireLease(w) PROVE FALSE
  BY <1>2, <1>3, <1>6 DEF acquireLease
<1>7. ASSUME NEW w \in Workers, FinalizePause(w) PROVE FALSE
  BY <1>1, <1>7 DEF FinalizePause, Run
<1>8. ASSUME NEW w \in Workers, finalizePauseWithLease(w) \/ NextRecord(w) PROVE FALSE
  BY <1>2, <1>7, <1>8 DEF finalizePauseWithLease, NextRecord
<1>9. ASSUME NEW w \in Workers, sweepRuns(w) PROVE FALSE
  <2>1. PICK stale : run' = [q \in Runs |->
              IF q = runOf(w) THEN run[q]
              ELSE IF run[q].status \in {"applying", "restoring"}
                   THEN [run[q] EXCEPT !.status = "paused",
                            !.pausedPhase = IF run[q].status = "applying"
                                            THEN "apply" ELSE "restore"]
              ELSE IF q \in stale THEN [run[q] EXCEPT !.status = "failed"]
              ELSE run[q]]
    BY <1>9 DEF sweepRuns
  <2>2. PICK s, p : run'[r] \in {run[r], [run[r] EXCEPT !.status = s],
                                 [run[r] EXCEPT !.status = s, !.pausedPhase = p]}
    BY <2>1
  <2> QED
    BY <1>1, <2>2 DEF Run
<1>10. ASSUME NEW w \in Workers, Finishes(w) PROVE FALSE
  <2>1. ASSUME NEW s, SetStatus(w, s) PROVE FALSE
    BY <1>3, <2>1 DEF SetStatus
  <2>2. ASSUME Pause(w) PROVE FALSE
    BY <1>3, <2>2 DEF Pause
  <2>3. CASE CompletePhase(w) \/ FinishResume(w)
    <3>1. UNCHANGED run \/ \E s : run' = [run EXCEPT ![runOf(w)].status = s,
              ![runOf(w)].pausedPhase = "none", ![runOf(w)].pauseRequested = FALSE]
      BY <2>3 DEF CompletePhase, FinishResume, Guarded
    <3>2. ASSUME NEW s, run' = [run EXCEPT ![runOf(w)].status = s,
              ![runOf(w)].pausedPhase = "none", ![runOf(w)].pauseRequested = FALSE]
          PROVE  FALSE
      BY <1>3, <3>2
    <3> QED
      BY ZenonT(60), <1>2, <3>1, <3>2
  <2>4. CASE EnterBatch(w) \/ FinishPreview(w) \/ FinishCancel(w) \/ FinishVerify(w)
    BY <1>2, <2>1, <2>4 DEF EnterBatch, FinishPreview, FinishCancel, FinishVerify, Guarded
  <2>5. CASE StallPhase(w)
    BY <1>2, <2>2, <2>5 DEF StallPhase, Guarded
  <2>6. CASE Abort(w)
    BY <1>1, <1>2, <2>2, <2>6 DEF Abort, Run
  <2> QED
    BY <1>10, <2>3, <2>4, <2>5, <2>6 DEF Finishes
<1>11. ASSUME NEW q \in Runs, prepareBackup(q) PROVE FALSE
  BY ZenonT(60), <1>3, <1>11 DEF prepareBackup
<1>12. \/ UNCHANGED run
       \/ \E q \in Runs : prepareBackup(q)
       \/ \E w \in Workers : Call(w) \/ Step(w) \/ Failure(w)
  BY DEF Next, LandLate, Writer, StartEdit, RenewEdit, ReleaseEdit, editOwnedTimecardTask,
     updateTimeCard, deleteOwnedTimeCard, SaveEdit, Expire
<1>13. PICK w \in Workers : stampLease(w) \/ stampPause(w)
  BY <1>2, <1>4, <1>5, <1>6, <1>8, <1>9, <1>10, <1>11, <1>12 DEF Step, Batch, Finishes
<1>14. UNCHANGED run \/ run' = [run EXCEPT ![runOf(w)].leaseFence = job[w].fence]
  BY <1>13 DEF stampLease, stampPause
<1>15. runOf(w) = r /\ run'[r].leaseFence = job[w].fence
  BY <1>1, <1>2, <1>14 DEF Run
<1> QED
  BY <1>13, <1>15

LEMMA RecordsKeep ==
    ASSUME TypeInv, Next, NEW v \in Workers, Records(job'[v])
    PROVE  /\ Keeps(v)
           /\ Records(job[v]) \/ (Entered(v) /\ Enters(job[v]))
<1>1. CASE job'[v] = job[v]
  BY <1>1 DEF Keeps, SameCall
<1>2. CASE Call(v)
  BY <1>2, CallSteps DEF Records, Spot, RecordPcs
<1>3. CASE Step(v) \/ Failure(v)
  <2>1. Spot(job'[v]) \notin Elsewhere \union {"enter", "snapshot", "reopen", "weigh", "compare",
                                               "complete", "reopened", "cancelled", "verified"}
    BY DEF Records, RecordPcs, Elsewhere
  <2>2. Renewed(v) \/ Recorded(v) \/ Entered(v)
    BY <1>3, <2>1, Arrivals DEF Finished, Reopened, Weighed, Compared
  <2>3. CASE Renewed(v) \/ Recorded(v)
    BY <2>3 DEF Renewed, Recorded, Records, Keeps, SameCall
  <2>4. CASE Entered(v)
    BY <2>4 DEF Entered, EnterBatch, Records, Enters, Keeps, SameCall, At, Spot
  <2> QED
    BY <2>2, <2>3, <2>4
<1> QED
  BY <1>1, <1>2, <1>3, OtherSteps, OthersStay

LEMMA EntersKeep ==
    ASSUME TypeInv, Next, NEW v \in Workers, Enters(job'[v])
    PROVE  Keeps(v) /\ (Enters(job[v]) \/ stampLease(v))
<1>1. CASE job'[v] = job[v]
  BY <1>1 DEF Keeps, SameCall
<1>2. CASE Call(v)
  BY <1>2, CallSteps DEF Enters, Spot
<1>3. CASE Step(v) \/ Failure(v)
  <2>1. Renewed(v) \/ (stampLease(v) /\ Keeps(v))
    BY <1>3, Arrivals DEF Enters, Elsewhere, Recorded, RecordPcs, Entered, Finished, Reopened,
       Weighed, Compared
  <2> QED
    BY <2>1 DEF Renewed, Enters, Keeps, SameCall
<1> QED
  BY <1>1, <1>2, <1>3, OtherSteps, OthersStay

LEMMA CancelArrives ==
    ASSUME TypeInv, Next, NEW c \in Workers, Spot(job'[c]) = "cancelled"
    PROVE  job'[c] = job[c] \/ Renewed(c) \/ Weighed(c)
<1>1. CASE Call(c)
  BY <1>1, CallSteps DEF Spot
<1>2. CASE Step(c) \/ Failure(c)
  BY <1>2, Arrivals DEF Elsewhere, Recorded, RecordPcs, Entered, Finished, Reopened, Compared
<1> QED
  BY <1>1, <1>2, OtherSteps, OthersStay

LEMMA RecordsIssued == ASSUME TypeInv, NEW v \in Workers, Records(job[v]) \/ Enters(job[v])
                       PROVE  Issued(job[v])
<1>1. JobFits(job[v])
  BY RunTypes
<1> QED
  BY DEF Records, Enters, Spot, RecordPcs, Issued

\* Who goes on after a renewal.
LEMMA RenewAt == ASSUME NEW v \in Workers, At(v, "renew"), Step(v) \/ Failure(v)
                 PROVE  Renew(v) \/ ReadFails(v) \/ Crash(v)
  BY DEF Step, Batch, Failure, acquireLease, stampLease, Release, Abort, claimPauseLease,
     stampPause, finalizePauseWithLease, clearExpiredLock, sweepRuns,
     FreezeSnapshot, FinishPreview, ReopenFailed, FinishResume, WeighCancel, FinishCancel,
     CompareRecords, FinishVerify, EnterBatch, NextRecord, ClaimRecord, ReadRecord,
     WriteRecord, RereadRecord, JournalRecord, FinishBatch, CompletePhase, StallPhase, parkLease,
     CheckParked, WriteFails, Fails, At

\* A write is reached with the lease in hand.
LEMMA WriteArrives ==
    ASSUME TypeInv, Next, NEW v \in Workers, At(v, "write")', ~At(v, "write")
    PROVE  job[v].fence = lock.fence /\ Records(job[v]) /\ job'[v].run = runOf(v)
<1>1. Handling(job'[v]) /\ job'[v] # job[v]
  BY DEF At, Handling, AboutTo
<1>2. SameRecord(v) /\ AboutTo(job[v], "write")
  BY <1>1, HandSteps DEF DoneStep, ConflictStep, FailedStep, At
<1>3. At(v, "renew") /\ job[v].then = "write"
  BY <1>2 DEF AboutTo, At
<1>4. Call(v) \/ Step(v) \/ Failure(v)
  BY <1>1, OtherSteps, OthersStay
<1>5. ~Call(v)
  BY CallSteps DEF At
<1>6. Renew(v) \/ ReadFails(v) \/ Crash(v)
  BY <1>3, <1>4, <1>5, RenewAt
<1>7. job \in [Workers -> Job] /\ job[v] \in Job /\ JobFits(job[v])
  BY OwnJob
<1>8. ~ReadFails(v) /\ ~Crash(v)
  BY <1>7 DEF ReadFails, ToJournal, Crash, Return, NoJob, At, Job
<1>9. renewLease(runOf(v), job[v].fence, job[v].kind)
  <2>1. CASE ToJournal(v, phaseOf(v).failed)
    BY <1>7, <2>1 DEF ToJournal, At, Job
  <2> QED
    BY <1>3, <1>6, <1>8, <2>1 DEF Renew
<1>10. job[v].kind \in Batches
  BY <1>2, <1>7, KindsKnown DEF SameRecord
<1> QED
  BY <1>2, <1>3, <1>9, <1>10 DEF renewLease, Holds, Records, Spot, RecordPcs, At, SameRecord,
     SameCall, runOf

\* A quiet run stays quiet while none of its calls has the lease.
LEMMA QuietStays ==
    ASSUME JournalInv, Next, NEW r \in Runs, Quiet(r),
           \A v \in Workers : Records(job[v]) /\ runOf(v) = r => job[v].fence # lock.fence
    PROVE  Quiet(r)'
<1> SUFFICES ASSUME NEW t \in Timecards
             PROVE  /\ entry'[t].by # r
                    /\ \A p \in Batches : ~(Open(r, t, p)' /\ Landing(r, t, p)')
  BY DEF Quiet
<1>1. TypeInv /\ FreezeInv /\ DatesInv
  BY DEF JournalInv
<1>2. entry[t].by # r /\ \A p \in Batches : ~(Open(r, t, p) /\ Landing(r, t, p))
  BY DEF Quiet
<1>3. entry'[t].by # r
  <2>1. CASE entry'[t] = entry[t]
    BY <1>2, <2>1
  <2>2. CASE entry'[t] # entry[t]
    <3>1. "apply" \in Batches
      BY DEF Batches, Phase
    <3> QED
      BY <1>1, <1>2, <2>2, <3>1, Forward, DateMigrationAssumption
  <2> QED
    BY <2>1, <2>2
<1>4. ASSUME NEW p \in Batches, Open(r, t, p)', Landing(r, t, p)' PROVE FALSE
  <2>1. Landing(r, t, p)
    <3>1. CASE Order(r, t, p) \in late'
      BY <3>1, LateSteps DEF Landing
    <3>2. ASSUME NEW v \in Workers, At(v, "write")', Sent(v)' = Order(r, t, p)
          PROVE  Landing(r, t, p)
      <4>1. Sending(job'[v])
        BY <3>2 DEF Sending, AboutTo, At
      <4>2. Sent(v) = Order(r, t, p)
        BY <1>1, <3>2, <4>1, SendSteps DEF At
      <4>3. CASE At(v, "write")
        BY <4>2, <4>3 DEF Landing
      <4>4. CASE ~At(v, "write")
        BY <1>1, <3>2, <4>2, <4>4, WriteArrives DEF Sent, Order
      <4> QED
        BY <4>3, <4>4
    <3> QED
      BY <1>4, <3>1, <3>2 DEF Landing
  <2>2. t \in Frozen(r) /\ (p = "restore" => Past(r, t, "apply"))
    BY <1>1, <2>1, LandingPends, PendingFits DEF JournalInv
  <2>3. Open(r, t, p)
    BY <1>1, <1>4, <2>2, OpenShuts
  <2> QED
    BY <1>2, <2>1, <2>3
<1> QED
  BY <1>3, <1>4

\* A cancel weighs only runs that are quiet.
LEMMA WeighedQuiet == ASSUME JournalInv, NEW c \in Workers, runOf(c) \in Runs, Weighed(c)
                      PROVE  Quiet(runOf(c))
<1> SUFFICES ASSUME NEW r \in Runs, r = runOf(c) PROVE Quiet(r)
  OBVIOUS
<1>1. \A t \in Timecards : backup[r][t].status \notin Applied \union {"applying-record"}
  BY DEF Weighed, Statuses
<1>2. \A t \in Timecards : backup[r][t].status \in BackupStatuses
  BY DataTypes DEF JournalInv, Backup
<1>3. ASSUME NEW t \in Timecards PROVE entry[t].by # r
  <2>1. backup[r][t].status \in {"none", "pending", "conflict", "failed"}
    BY <1>1, <1>2 DEF BackupStatuses
  <2> QED
    BY <2>1 DEF JournalInv, DatesInv, Frozen
<1>4. ASSUME NEW t \in Timecards, NEW p \in Batches, Open(r, t, p), Landing(r, t, p) PROVE FALSE
  <2>1. backup[r][t].status = Phase[p].intent
    BY <1>4, LandingPends, PendingFits DEF JournalInv
  <2> QED
    BY <1>1, <2>1 DEF Batches, Phase, Applied
<1> QED
  BY <1>3, <1>4 DEF Quiet

-----------------------------------------------------------------------------
(* A cancelled run is quiet.                                               *)

LEMMA FenceTypes == ASSUME TypeInv, Next
  PROVE /\ lock.fence \in Nat /\ lock'.fence \in Nat /\ lock'.fence >= lock.fence
        /\ \A w \in Workers : job[w].fence \in Nat
  BY LeaseTypes, FenceGrows, LeaseTypes, RunTypes, TypeStep DEF Lock, Job, TypeInv, TypeOK, LeaseTypeOK

\* No other call of the run has the fence of an issued one.
LEMMA OneIssued == ASSUME JournalInv, NEW c \in Workers, NEW v \in Workers, Issued(job[c]),
                      Records(job[v]) \/ Enters(job[v]), job[v].fence = job[c].fence
               PROVE  v = c
<1>1. TypeInv /\ FenceInv
  BY DEF JournalInv
<1>2. Issued(job[v])
  BY <1>1, RecordsIssued
<1> QED
  BY <1>1, <1>2 DEF FenceInv

LEMMA CancelsDiffer == ASSUME NEW j, Spot(j) \in {"cancelled", "weigh"}
                       PROVE  ~Records(j) /\ ~Enters(j)
  BY DEF Records, Enters, RecordPcs

LEMMA CancelRenews ==
    ASSUME JournalInv, CancelInv, Next, NEW c \in Workers, NEW r \in Runs, runOf(c)' = r,
           At(c, "renew")', job'[c].then = "cancelled", lock'.fence = job'[c].fence
    PROVE  Quiet(r)'
<1>1. TypeInv /\ Spot(job'[c]) = "cancelled"
  BY DEF JournalInv, At, Spot
<1>2. ~Renewed(c)
  BY <1>1 DEF Renewed, Renew, At, Spot
<1>3. job'[c] = job[c] \/ Weighed(c)
  BY <1>1, <1>2, CancelArrives
<1>4. runOf(c) = r /\ job'[c].fence = job[c].fence
  BY <1>3 DEF Weighed, Keeps, SameCall, runOf
<1>5. Spot(job[c]) \in {"cancelled", "weigh"} /\ Issued(job[c])
  BY <1>1, <1>3 DEF Weighed, WeighCancel, At, Spot, Issued
<1>6. lock.fence = job[c].fence
  BY <1>1, <1>4, FenceTypes DEF JournalInv, FenceInv
<1>7. Quiet(r)
  BY <1>3, <1>4, <1>6, WeighedQuiet DEF CancelInv, At
<1>8. ASSUME NEW v \in Workers, Records(job[v]) PROVE job[v].fence # lock.fence
  <2>1. v # c
    BY <1>5, <1>8, CancelsDiffer
  <2> QED
    BY <1>5, <1>6, <1>8, <2>1, OneIssued
<1> QED
  BY <1>7, <1>8, QuietStays

LEMMA CancelStamp ==
    ASSUME JournalInv, Next, NEW c \in Workers, NEW r \in Runs, Spot(job[c]) = "cancelled",
           run'[r].leaseFence = job[c].fence, Issued(job[c])
    PROVE  run[r].leaseFence = job[c].fence
<1> SUFFICES ASSUME run'[r].leaseFence # run[r].leaseFence PROVE FALSE
  OBVIOUS
<1>1. PICK x \in Workers : /\ stampLease(x) \/ stampPause(x)
                           /\ runOf(x) = r /\ run'[r].leaseFence = job[x].fence
  BY StampSteps DEF JournalInv
<1>2. job[x].pc \in {"stamp", "stampPause"}
  BY <1>1 DEF stampLease, stampPause, At
<1>3. x = c
  BY <1>1, <1>2 DEF JournalInv, FenceInv, Issued
<1> QED
  BY <1>2, <1>3 DEF Spot

\* The calls of a run that were there when a call got or confirmed its lease are older.
LEMMA OlderStay ==
    ASSUME JournalInv, Next, NEW c \in Workers, NEW r \in Runs, Issued(job[c]),
           Spot(job[c]) = "cancelled", run'[r].leaseFence = job[c].fence,
           Spot(job'[c]) = "cancelled",
           \A v \in Workers \ {c} : (Records(job[v]) \/ Enters(job[v])) /\ runOf(v) = r
                                    => job[v].fence < job[c].fence,
           NEW v \in Workers, Records(job'[v]) \/ Enters(job'[v]), job'[v].run = r
    PROVE  job'[v].fence < job[c].fence
<1>1. TypeInv
  BY DEF JournalInv
<1>2. v # c
  BY CancelsDiffer
<1>3. /\ Keeps(v)
      /\ Records(job[v]) \/ Enters(job[v]) \/ stampLease(v)
  BY <1>1, RecordsKeep, EntersKeep
<1>4. runOf(v) = r /\ job'[v].fence = job[v].fence
  BY <1>3 DEF Keeps, SameCall, runOf
<1>5. CASE stampLease(v)
  <2>1. run' = [run EXCEPT ![r].leaseFence = job[v].fence] /\ Issued(job[v])
    BY <1>4, <1>5 DEF stampLease, At, Issued
  <2>2. run'[r].leaseFence = job[v].fence
    BY <1>1, <2>1, RunTypes DEF Run
  <2>3. v = c
    BY <2>1, <2>2 DEF JournalInv, FenceInv
  <2> QED
    BY <1>2, <2>3
<1> QED
  BY <1>2, <1>3, <1>4, <1>5

LEMMA CancelEnds ==
    ASSUME JournalInv, CancelInv, Next, NEW c \in Workers, NEW r \in Runs, runOf(c)' = r,
           At(c, "cancelled")', run'[r].leaseFence = job'[c].fence
    PROVE  /\ Quiet(r)'
           /\ \A v \in Workers : (Records(job'[v]) \/ Enters(job'[v])) /\ job'[v].run = r
                                    => job'[v].fence < job'[c].fence
<1>1. TypeInv /\ Spot(job'[c]) = "cancelled"
  BY DEF JournalInv, At, Spot
<1>2. job'[c] = job[c] \/ Renewed(c)
  BY <1>1, CancelArrives DEF Weighed, At
<1>3. runOf(c) = r /\ job'[c].fence = job[c].fence /\ Spot(job[c]) = "cancelled"
  BY <1>1, <1>2 DEF Renewed, Keeps, SameCall, runOf
<1>4. Issued(job[c])
  BY <1>3 DEF Spot, Issued
<1>5. run[r].leaseFence = job[c].fence
  BY <1>3, <1>4, CancelStamp
<1>6. /\ Quiet(r)
      /\ \A v \in Workers \ {c} : (Records(job[v]) \/ Enters(job[v])) /\ runOf(v) = r
                                      => job[v].fence < job[c].fence
  <2>1. CASE job'[c] = job[c]
    BY <1>3, <1>5, <2>1 DEF CancelInv, At
  <2>2. CASE Renewed(c)
    <3>1. lock.fence = job[c].fence /\ At(c, "renew") /\ job[c].then = "cancelled"
      BY <1>3, <2>2 DEF Renewed, Renew, renewLease, Holds, At, Spot
    <3>2. Quiet(r)
      BY <1>3, <3>1 DEF CancelInv
    <3>3. ASSUME NEW v \in Workers \ {c}, Records(job[v]) \/ Enters(job[v])
          PROVE  job[v].fence < job[c].fence
      <4>1. job[v].fence # job[c].fence
        BY <1>4, <3>3, OneIssued
      <4> QED
        BY <1>1, <3>1, <4>1, FenceTypes DEF JournalInv, FenceInv
    <3> QED
      BY <3>2, <3>3
  <2> QED
    BY <1>2, <2>1, <2>2
<1>7. Quiet(r)'
  <2>1. ASSUME NEW v \in Workers, Records(job[v]), runOf(v) = r PROVE job[v].fence # lock.fence
    <3>1. job[v].fence < job[c].fence
      BY <1>3, <1>6, <2>1, CancelsDiffer
    <3> QED
      BY <1>1, <3>1, FenceTypes DEF JournalInv, FenceInv
  <2> QED
    BY <1>6, <2>1, QuietStays
<1>8. ASSUME NEW v \in Workers, Records(job'[v]) \/ Enters(job'[v]), job'[v].run = r
      PROVE  job'[v].fence < job[c].fence
  BY <1>1, <1>3, <1>4, <1>6, <1>8, OlderStay
<1> QED
  BY <1>3, <1>7, <1>8

\* A run becomes cancelled by a cancel, and stays so.
LEMMA BecomesCancelled ==
    ASSUME TypeInv, Next, NEW r \in Runs, run'[r].status = "cancelled",
           run[r].status # "cancelled"
    PROVE  \E c \in Workers : /\ FinishCancel(c) /\ runOf(c) = r
                              /\ run[r].leaseFence = job[c].fence
<1>1. PICK w \in Workers : runOf(w) = r /\ Finishes(w)
  BY StatusSteps
<1>2. JobFits(job[w]) /\ (job[w].pc \in Recording => job[w].phase \in Batches)
  BY RunTypes
<1>3. EnterBatch(w) => phaseOf(w).active # "cancelled"
  <2>1. EnterBatch(w) => job[w].phase \in Batches
    BY <1>2 DEF EnterBatch, At, Recording
  <2> QED
    BY <2>1 DEF phaseOf, Batches, Phase
<1>4. CompletePhase(w) => job[w].outcome # "cancelled"
  BY <1>2 DEF CompletePhase, At, Recording, JobFits, AboutTo, Batches, Phase
<1>5. FinishResume(w) => Phase[job[w].seen].resumed # "cancelled"
  BY <1>2 DEF FinishResume, At, JobFits, AboutTo, Batches, Phase
<1>6. FinishVerify(w) => job[w].outcome # "cancelled"
  BY <1>2 DEF FinishVerify, At, JobFits, AboutTo, Admitted
<1> QED
  BY <1>1, <1>3, <1>4, <1>5, <1>6, FinishSteps

LEMMA StaysCancelled ==
    ASSUME TypeInv, Next, NEW r \in Runs, run[r].status = "cancelled"
    PROVE  run'[r].status = "cancelled"
<1> SUFFICES ASSUME run'[r].status # "cancelled" PROVE FALSE
  OBVIOUS
<1>1. PICK w \in Workers : runOf(w) = r /\ Finishes(w)
  BY StatusSteps
<1>2. JobFits(job[w]) /\ job[w] \in Job
      /\ (job[w].pc \in Recording => job[w].kind \in Batches /\ job[w].phase \in Batches)
  BY RunTypes
<1>3. job[w].phase \in Batches => phaseOf(w).active # "cancelled"
  BY DEF phaseOf, Batches, Phase
<1>4. "cancelled" \notin Admitted["apply"] \union Admitted["restore"] \union Admitted["cancel"]
                         \union Admitted["verify"]
  BY DEF Admitted
<1>5. EnterBatch(w) \/ CompletePhase(w) \/ StallPhase(w) => At(w, "enter") \/ At(w, "complete")
                                                            \/ At(w, "stall")
  BY DEF EnterBatch, CompletePhase, StallPhase
<1>6. job[w].kind \in Batches /\ job[w].pc # "release" => job[w].seen # "cancelled"
  BY <1>2, <1>4 DEF JobFits, Batches, Phase
<1>7. (FinishCancel(w) \/ FinishVerify(w)) => job[w].seen # "cancelled"
  BY <1>2, <1>4 DEF JobFits, FinishCancel, FinishVerify, At, AboutTo
<1>8. job[w].kind \in Batches => phaseOf(w).active # "cancelled"
  BY <1>2, <1>3 DEF JobFits
<1>9. At(w, "enter") \/ At(w, "complete") \/ At(w, "stall") => job[w].kind \in Batches
  BY <1>2 DEF At, Recording
<1> QED
  BY <1>1, <1>5, <1>6, <1>7, <1>8, <1>9, FinishSteps DEF EnterBatch, Abort, At

LEMMA CancelHolds ==
    ASSUME JournalInv, CancelInv, Next, NEW r \in Runs, run'[r].status = "cancelled"
    PROVE  /\ Quiet(r)'
           /\ \A v \in Workers : Records(job'[v]) /\ job'[v].run = r
                                    => job'[v].fence # lock'.fence
<1>1. TypeInv /\ \A v \in Workers : job[v].fence <= lock.fence
  BY DEF JournalInv, FenceInv
<1>2. ASSUME NEW v \in Workers, Records(job'[v]), job'[v].run = r
      PROVE  /\ runOf(v) = r /\ job'[v].fence = job[v].fence
             /\ Records(job[v]) \/ (Entered(v) /\ Enters(job[v]))
  BY <1>1, <1>2, RecordsKeep DEF Keeps, SameCall, runOf
<1>3. CASE run[r].status = "cancelled"
  <2>1. Quiet(r) /\ \A v \in Workers : Records(job[v]) /\ runOf(v) = r
                                          => job[v].fence # lock.fence
    BY <1>3 DEF CancelInv
  <2>2. ASSUME NEW v \in Workers, Records(job'[v]), job'[v].run = r
        PROVE  job'[v].fence # lock'.fence
    <3>1. CASE Records(job[v])
      BY <1>1, <1>2, <2>1, <2>2, <3>1, FenceTypes
    <3>2. CASE Entered(v) /\ Enters(job[v])
      <4>1. job[v].seen = "cancelled" /\ job[v].pc = "enter" /\ runOf(v) = r
        BY <1>2, <1>3, <2>2, <3>2 DEF Entered, EnterBatch, Unchanged, At
      <4>2. JobFits(job[v]) /\ job[v].kind \in {"apply", "restore"}
        BY <1>1, <3>2, RunTypes DEF Enters, Batches, Phase
      <4> QED
        BY <4>1, <4>2 DEF JobFits, Admitted, Batches, Phase
    <3> QED
      BY <1>2, <2>2, <3>1, <3>2
  <2> QED
    BY <2>1, <2>2, QuietStays
<1>4. CASE run[r].status # "cancelled"
  <2>1. PICK c \in Workers : FinishCancel(c) /\ runOf(c) = r /\ run[r].leaseFence = job[c].fence
    BY <1>1, <1>4, BecomesCancelled
  <2>2. /\ Quiet(r)
        /\ \A v \in Workers : (Records(job[v]) \/ Enters(job[v])) /\ runOf(v) = r
                                 => job[v].fence < job[c].fence
    BY <2>1 DEF CancelInv, FinishCancel
  <2>3. ASSUME NEW v \in Workers, Records(job[v]) \/ Enters(job[v]), runOf(v) = r
        PROVE  job[v].fence < lock.fence /\ job[v].fence < lock'.fence
    <3>1. job[v].fence < job[c].fence
      BY <2>2, <2>3
    <3> QED
      BY <1>1, <3>1, FenceTypes
  <2>4. Quiet(r)'
    <3>1. \A v \in Workers : Records(job[v]) /\ runOf(v) = r => job[v].fence # lock.fence
      BY <1>1, <2>3, FenceTypes
    <3> QED
      BY <2>2, <3>1, QuietStays
  <2> QED
    BY <1>1, <1>2, <2>3, <2>4, FenceTypes
<1> QED
  BY <1>3, <1>4

-----------------------------------------------------------------------------
(* No conversion is left.                                                  *)

LEMMA CancelStep == ASSUME JournalInv, CancelInv, Next PROVE CancelInv'
<1>1. ASSUME NEW c \in Workers
      PROVE  /\ At(c, "renew")' /\ job'[c].then = "cancelled" /\ lock'.fence = job'[c].fence
                   => Quiet(runOf(c))'
             /\ At(c, "cancelled")' /\ run'[runOf(c)'].leaseFence = job'[c].fence =>
                   /\ Quiet(runOf(c))'
                   /\ \A v \in Workers : (Records(job'[v]) \/ Enters(job'[v]))
                                         /\ runOf(v)' = runOf(c)'
                                            => job'[v].fence < job'[c].fence
  <2>1. PICK r : r = runOf(c)'
    OBVIOUS
  <2>2. ASSUME At(c, "renew")' \/ At(c, "cancelled")' PROVE r \in Runs
    <3>1. TypeInv'
      BY TypeStep DEF JournalInv
    <3>2. JobFits(job'[c])
      BY <3>1 DEF TypeInv, JobsFit
    <3> QED
      BY <2>1, <2>2, <3>2 DEF JobFits, At, runOf
  <2>3. ASSUME At(c, "renew")', job'[c].then = "cancelled", lock'.fence = job'[c].fence
        PROVE  Quiet(r)'
    BY <2>1, <2>2, <2>3, CancelRenews
  <2>4. ASSUME At(c, "cancelled")', run'[r].leaseFence = job'[c].fence
        PROVE  /\ Quiet(r)'
               /\ \A v \in Workers : (Records(job'[v]) \/ Enters(job'[v])) /\ job'[v].run = r
                                        => job'[v].fence < job'[c].fence
    BY <2>1, <2>2, <2>4, CancelEnds
  <2>5. \A v \in Workers : runOf(v)' = job'[v].run
    BY DEF runOf
  <2>6. Quiet(r)' => Quiet(runOf(c))'
    BY <2>1
  <2> QED
    BY <2>1, <2>3, <2>4, <2>5, <2>6
<1>2. ASSUME NEW r \in Runs, run'[r].status = "cancelled"
      PROVE  /\ Quiet(r)'
             /\ \A v \in Workers : Records(job'[v]) /\ runOf(v)' = r
                                      => job'[v].fence # lock'.fence
  BY <1>2, CancelHolds DEF runOf
<1> QED
  BY <1>1, <1>2 DEF CancelInv

LEMMA CancelInit == Init => CancelInv
  BY DEF Init, NoJob, CancelInv, At

LEMMA CancelKeeps == CancelInv /\ UNCHANGED vars => CancelInv'
  BY DEF vars, CancelInv, Quiet, Open, Landing, Order, Sent, Dates, Before, Records, Enters, At,
     Spot, runOf

\* No entry keeps the dates of a run that cancelRun has let go, and no write of its
\* calls that is still on its way takes effect, unless a batch that recovers an intent
\* may fail before its own write.
THEOREM CancelIsClean == ASSUME ~RecoveryErrors PROVE Spec => []CancelLeavesNothing
<1>1. Init => JournalInv /\ CancelInv
  BY JournalInit, CancelInit
<1>2. JournalInv /\ CancelInv /\ [Next]_vars => (JournalInv /\ CancelInv)'
  BY JournalStep, CancelStep, CancelKeeps
<1>3. CancelInv => CancelLeavesNothing
  BY DEF CancelInv, CancelLeavesNothing, Quiet
<1> QED
  BY <1>1, <1>2, <1>3, PTL DEF Spec

LEMMA CancelledSteps ==
    ASSUME TypeInv, Next
    PROVE  \/ {r \in Runs : run'[r].status = "cancelled"}
                  = {r \in Runs : run[r].status = "cancelled"}
           \/ \E c \in Workers :
                 /\ FinishCancel(c) /\ runOf(c) \in Runs
                 /\ run[runOf(c)].leaseFence = job[c].fence
                 /\ {r \in Runs : run'[r].status = "cancelled"}
                       = {r \in Runs : run[r].status = "cancelled"} \union {runOf(c)}
<1>1. ASSUME NEW r \in Runs, run'[r].status = "cancelled", run[r].status # "cancelled"
      PROVE  \E c \in Workers :
                 /\ FinishCancel(c) /\ runOf(c) = r
                 /\ run[r].leaseFence = job[c].fence
                 /\ \A q \in Runs : run'[q].status = "cancelled" => q = r \/ run[q].status = "cancelled"
  <2>1. PICK c \in Workers : FinishCancel(c) /\ runOf(c) = r /\ run[r].leaseFence = job[c].fence
    BY <1>1, BecomesCancelled
  <2>2. run' = [run EXCEPT ![r].status = "cancelled"] \/ UNCHANGED run
    BY <2>1 DEF FinishCancel, Guarded, SetStatus
  <2>3. \A q \in Runs \ {r} : run'[q] = run[q]
    BY <2>2, RunTypes
  <2> QED
    BY <2>1, <2>3
<1>2. \A r \in Runs : run[r].status = "cancelled" => run'[r].status = "cancelled"
  BY StaysCancelled
<1> QED
  BY <1>1, <1>2

LEMMA PromiseInit == Init => Promise!Init
<1> SUFFICES ASSUME Init PROVE Promise!Init
  OBVIOUS
<1>1. entry \in [Timecards -> [value: Promise!Values, revision: {0}, by: {None}]]
  BY DEF Init, Promise!Values
<1>2. [r \in Runs |-> [t \in Timecards |-> backup[r][t].revision]]
          = [r \in Runs |-> [t \in Timecards |-> None]]
  BY DEF Init
<1>3. {r \in Runs : run[r].status = "cancelled"} = {}
  BY DEF Init
<1> QED
  BY <1>1, <1>2, <1>3 DEF Promise!Init

-----------------------------------------------------------------------------
(* The promise.                                                            *)

\* What the promise is about, in the state of the migration.
Revisions == [r \in Runs |-> [t \in Timecards |-> backup[r][t].revision]]
CancelledRuns == {r \in Runs : run[r].status = "cancelled"}

LEMMA CancelledStay == ASSUME TypeInv, Next, entry' # entry \/ backup' # backup
                       PROVE  CancelledRuns' = CancelledRuns
<1>1. ASSUME NEW c \in Workers PROVE ~FinishCancel(c)
  BY DEF FinishCancel, data
<1> QED
  BY <1>1, CancelledSteps DEF CancelledRuns

\* A change of an entry is a user's, or it converts or takes back in time.
LEMMA PromisedEntry ==
    ASSUME JournalInv, CancelInv, Next, entry' # entry
    PROVE  Promise!Next
<1>1. TypeInv /\ UNCHANGED backup /\ CancelledRuns' = CancelledRuns
  BY OneChanges, CancelledStay DEF JournalInv
<1>2. Revisions' = Revisions
  BY <1>1 DEF Revisions
<1>3. entry \in [Timecards -> Entry]
  BY <1>1, DataTypes
<1>4. ASSUME NEW u \in Writers, NEW v \in {"legacy", "canonical", "edited", "absent"},
             SaveEdit(u, v), edit[u].card \in Timecards
      PROVE  Promise!UserEdit(edit[u].card)
  <2>1. /\ entry[edit[u].card].value # "absent"
        /\ entry' = [entry EXCEPT ![edit[u].card] = [value |-> v, revision |-> @.revision + 1,
                                                     by |-> None]]
    BY <1>4 DEF SaveEdit
  <2> QED
    BY <1>1, <1>2, <2>1 DEF Promise!UserEdit, Promise!Values, Revisions, CancelledRuns
<1>5. ASSUME NEW r \in Runs, NEW t \in Timecards, NEW p \in Batches, t \in Frozen(r),
             Convert(r, t, p), Landing(r, t, p)
      PROVE  Promise!Convert(r, t) \/ Promise!Restore(r, t)
  <2>1. Open(r, t, p) /\ backup[r][t].revision \in Nat /\ p \in {"apply", "restore"}
    BY <1>1, <1>5, DataTypes DEF Convert, Open, Batches, Phase
  <2>2. r \notin CancelledRuns
    BY <1>5, <2>1 DEF CancelInv, Quiet, CancelledRuns
  <2>3. Revisions[r][t] = backup[r][t].revision /\ backup[r][t].revision # None
    BY <2>1, DateMigrationAssumption DEF Revisions
  <2>4. CASE p = "apply"
    <3>1. entry[t].value = "legacy" /\ entry[t].revision = backup[r][t].revision
      BY <2>1, <2>4 DEF Open, Dates, Before
    <3>2. entry' = [entry EXCEPT ![t] = [value |-> "canonical",
                                         revision |-> backup[r][t].revision + 1, by |-> r]]
      BY <1>5, <2>4 DEF Convert, After
    <3>3. entry' = [entry EXCEPT ![t] = [value |-> "canonical", revision |-> @.revision + 1,
                                         by |-> r]]
      BY <3>1, <3>2
    <3> QED
      BY <1>1, <1>2, <2>2, <2>3, <3>1, <3>3 DEF Promise!Convert, Revisions, CancelledRuns
  <2>5. CASE p = "restore"
    <3>1. entry[t].value = "canonical" /\ entry[t].revision = backup[r][t].revision + 1
      BY <2>1, <2>5 DEF Open, Dates, Before
    <3>2. entry' = [entry EXCEPT ![t] = [value |-> "legacy",
                                         revision |-> backup[r][t].revision + 2, by |-> None]]
      BY <1>5, <2>5 DEF Convert, After
    <3>3. entry' = [entry EXCEPT ![t] = [value |-> "legacy", revision |-> @.revision + 1,
                                         by |-> None]]
      <4>1. backup[r][t].revision + 2 = entry[t].revision + 1
        BY <2>1, <3>1
      <4> QED
        BY <3>2, <4>1
    <3>4. Revisions[r][t] # None /\ entry[t].revision = Revisions[r][t] + 1
      BY <2>3, <3>1
    <3> QED
      BY <1>1, <1>2, <2>2, <3>1, <3>3, <3>4 DEF Promise!Restore, Revisions, CancelledRuns
  <2> QED
    BY <2>1, <2>4, <2>5
<1> QED
  BY <1>1, <1>4, <1>5, EntrySteps DEF Promise!Next

\* A run freezes once, and only before it can be cancelled.
LEMMA PromisedFreeze ==
    ASSUME JournalInv, Next, Revisions' # Revisions
    PROVE  Promise!Next
<1>1. backup' # backup
  BY DEF Revisions
<1>2. TypeInv /\ FreezeInv /\ UNCHANGED entry /\ CancelledRuns' = CancelledRuns
  BY <1>1, OneChanges, CancelledStay DEF JournalInv
<1>3. PICK r \in Runs, t \in Timecards : backup'[r][t].revision # backup[r][t].revision
  BY DEF Revisions
<1>4. t \notin Frozen(r)
  BY <1>2, <1>3, RevisionKept
<1>5. PICK w \in Workers : FreezeSnapshot(w) /\ runOf(w) = r
  <2>1. t \in Frozen(r)'
    <3>1. TypeInv'
      BY <1>2, TypeStep
    <3>2. t \notin Frozen(r)' => backup'[r][t].revision = None
      BY <3>1 DEF TypeInv, BackupsFit
    <3> QED
      BY <1>2, <1>3, <1>4, <3>2 DEF TypeInv, BackupsFit
  <2> QED
    BY <1>2, <1>4, <2>1, FrozenSteps
<1>6. r \notin CancelledRuns /\ Frozen(r) = {}
  <2>1. Snapshots(job[w])
    BY <1>2, <1>5, RunTypes, KindsKnown DEF FreezeSnapshot, At, Snapshots, AboutTo
  <2> QED
    BY <1>2, <1>5, <2>1 DEF FreezeInv, CancelledRuns
<1>7. \A x \in Timecards : Revisions[r][x] = None
  BY <1>2, <1>6 DEF TypeInv, BackupsFit, Revisions
<1>8. Revisions' = [Revisions EXCEPT ![r] = [x \in Timecards |->
                       IF entry[x].value = "legacy" THEN entry[x].revision ELSE None]]
  <2>1. backup \in [Runs -> [Timecards -> Backup]]
    BY <1>2, DataTypes
  <2>2. /\ \A q \in Runs \ {r} : backup'[q] = backup[q]
        /\ \A x \in Timecards :
              /\ entry[x].value = "legacy" => backup'[r][x] =
                     [status |-> "pending", revision |-> entry[x].revision, fence |-> 0]
              /\ entry[x].value # "legacy" => backup'[r][x] = backup[r][x]
    BY <1>5, <2>1 DEF FreezeSnapshot
  <2>3. \A x \in Timecards : backup'[r][x].revision =
               IF entry[x].value = "legacy" THEN entry[x].revision ELSE None
    <3>1. \A x \in Timecards : backup[r][x].revision = None
      BY <1>7 DEF Revisions
    <3>2. ASSUME NEW x \in Timecards
          PROVE  backup'[r][x].revision =
                     IF entry[x].value = "legacy" THEN entry[x].revision ELSE None
      <4>1. CASE entry[x].value = "legacy"
        <5>1. backup'[r][x] = [status |-> "pending", revision |-> entry[x].revision, fence |-> 0]
          BY <2>2, <4>1
        <5>2. backup'[r][x].revision = entry[x].revision
          BY <5>1
        <5> QED
          BY <4>1, <5>2
      <4>2. CASE entry[x].value # "legacy"
        BY <2>2, <3>1, <4>2
      <4> QED
        BY <4>1, <4>2
    <3> QED
      BY <3>2
  <2> DEFINE new == [x \in Timecards |->
                        IF entry[x].value = "legacy" THEN entry[x].revision ELSE None]
  <2>4. [x \in Timecards |-> backup'[r][x].revision] = new
    BY <2>3
  <2>5. ASSUME NEW q \in Runs \ {r}
        PROVE  [x \in Timecards |-> backup'[q][x].revision]
                   = [x \in Timecards |-> backup[q][x].revision]
    BY <2>2
  <2>6. \A q \in Runs : Revisions'[q] = IF q = r THEN new ELSE Revisions[q]
    BY <2>4, <2>5 DEF Revisions
  <2>7. Revisions' \in [Runs -> {Revisions'[q] : q \in Runs}]
    BY DEF Revisions
  <2> HIDE DEF new
  <2>8. DOMAIN Revisions = Runs /\ DOMAIN Revisions' = Runs
    BY DEF Revisions
  <2>9. Revisions' = [Revisions EXCEPT ![r] = new]
    BY <2>6, <2>7, <2>8
  <2> QED
    BY <2>9 DEF new
<1> QED
  BY <1>2, <1>6, <1>7, <1>8 DEF Promise!Next, Promise!Freeze, Revisions, CancelledRuns

\* A run is cancelled while none of its conversions is in force.
LEMMA PromisedCancel ==
    ASSUME JournalInv, CancelInv, Next, CancelledRuns' # CancelledRuns
    PROVE  Promise!Next
<1>1. PICK c \in Workers : /\ FinishCancel(c) /\ runOf(c) \in Runs
                           /\ run[runOf(c)].leaseFence = job[c].fence
                           /\ CancelledRuns' = CancelledRuns \union {runOf(c)}
  BY CancelledSteps DEF CancelledRuns, JournalInv
<1>2. \A t \in Timecards : entry[t].by # runOf(c)
  BY <1>1 DEF CancelInv, Quiet, FinishCancel
<1>3. UNCHANGED entry /\ Revisions' = Revisions
  BY <1>1 DEF FinishCancel, data, Revisions
<1> QED
  BY <1>1, <1>2, <1>3 DEF Promise!Next, Promise!Cancel, Revisions, CancelledRuns

\* The leases, journals and compare-and-swap updates implement what the migration
\* promises to the owners of the entries: MigratedEntries, step by step.
THEOREM PromiseKept == ASSUME ~RecoveryErrors PROVE Spec => KeepsPromise
<1>1. Init => JournalInv /\ CancelInv
  BY JournalInit, CancelInit
<1>2. JournalInv /\ CancelInv /\ [Next]_vars => (JournalInv /\ CancelInv)'
  BY JournalStep, CancelStep, CancelKeeps
<1>3. ASSUME JournalInv, CancelInv, [Next]_vars
      PROVE  [Promise!Next]_(Promise!vars)
  <2>1. CASE Next
    <3>1. CASE entry' = entry /\ Revisions' = Revisions /\ CancelledRuns' = CancelledRuns
      BY <3>1 DEF Promise!vars, Revisions, CancelledRuns
    <3> QED
      BY <1>3, <2>1, <3>1, PromisedEntry, PromisedFreeze, PromisedCancel
  <2>2. CASE UNCHANGED vars
    BY <2>2 DEF vars, Promise!vars
  <2> QED
    BY <1>3, <2>1, <2>2
<1> QED
  BY <1>1, <1>2, <1>3, PromiseInit, PTL DEF Spec, KeepsPromise, Promise!Spec

-----------------------------------------------------------------------------
(* Behaviours without a fault.                                             *)

\* A call that has been granted the lease and has not parked it.
Works(j) == Issued(j) /\ j.pc # "parked"

\* The operation it was granted for.
Operation(j) == IF j.pc \in {"stampPause", "finalizePause"} THEN j.phase ELSE j.kind

Holding(w) == /\ Holds(runOf(w), job[w].fence)
              /\ job[w].pc \notin {"release", "abort"} => lock.operation = Operation(job[w])

\* A batch that has made its run active.
Running(j) == /\ j.kind \in Batches
              /\ Spot(j) \in RecordPcs \union {"finish", "complete", "stall", "park"}

Active(r, op) == op \in Batches /\ run[r].status \in {Phase[op].active, "paused"}

Parked(r) == lock.owner = r /\ lock.live /\ ~lock.busy

\* Somebody is still to look at the pause that was requested of r.
Seen(r) ==
    \E w \in Workers : /\ runOf(w) = r
                       /\ \/ At(w, "parked") /\ job[w].fence = lock.fence
                          \/ At(w, "claimPause") /\ PauseClaimable(w)

\* The verdict of verify w is true of the entries.
Certain(w) ==
    Spot(job[w]) = "verified" /\ job[w].outcome = "verified"
        => \A t \in Frozen(runOf(w)) : Dates(t) = After(runOf(w), t, "apply")

\* Without a fault, whoever was granted the lease has it, and no write is late.
FaultlessInv ==
    budget.faulted = 0 =>
        /\ late = {}
        /\ \A w \in Workers :
             /\ Works(job[w]) => Holding(w)
             /\ Running(job[w]) => Active(runOf(w), job[w].kind)
             /\ At(w, "parked") /\ job[w].fence = lock.fence
                    => Parked(runOf(w)) /\ lock.operation = job[w].kind
             /\ Certain(w)
        /\ \A r \in Runs : Parked(r) =>
             /\ Active(r, lock.operation)
             /\ run[r].pauseRequested => Seen(r)

HeldInv == TypeInv /\ FenceInv /\ LeaseInv /\ FaultlessInv

LEMMA FaultlessInit == Init => FaultlessInv
  BY DEF Init, FaultlessInv, NoJob, Works, Issued, Running, Spot, RecordPcs, Certain, At, Parked,
     ensureLockDocument

\* Without a fault no call fails.
LEMMA NoFailure == ASSUME HeldInv, Next, budget'.faulted = 0
                   PROVE  /\ budget.faulted = 0 /\ ~Fault
                          /\ \A w \in Workers : ~Failure(w)
<1>1. budget.faulted = 0 /\ ~Fault
  BY FaultsGrow DEF HeldInv
<1> QED
  BY <1>1 DEF Failure, ReadFails, WriteFails, Crash, Fails

\* The lease has one holder.
LEMMA OneWorks ==
    ASSUME HeldInv, budget.faulted = 0, NEW v \in Workers, NEW w \in Workers,
           Works(job[v]), Works(job[w])
    PROVE  v = w
<1>1. job[v].fence = lock.fence /\ job[w].fence = lock.fence
  BY DEF HeldInv, FaultlessInv, Holding, Holds
<1> QED
  BY <1>1 DEF HeldInv, FenceInv, Works

\* A parked lease has none.
LEMMA NoneWorks ==
    ASSUME HeldInv, budget.faulted = 0, NEW r \in Runs, Parked(r), NEW w \in Workers
    PROVE  ~Works(job[w])
  BY DEF HeldInv, FaultlessInv, Holding, Holds, Parked

\* While a call has the lease, or has parked it, no time entry is written.
LEMMA NobodyWrites ==
    ASSUME HeldInv, budget.faulted = 0, lock.owner \in Runs, lock.live
    PROVE  /\ ~migrationLeaseIsAvailable /\ lock.writers = {}
           /\ \A u \in Writers : edit[u].pc \notin {"renew", "write"}
<1>1. ~migrationLeaseIsAvailable
  BY DateMigrationAssumption DEF migrationLeaseIsAvailable
<1> QED
  BY <1>1 DEF HeldInv, LeaseInv

\* Without a fault, whatever happens to the lock is done by a call that may do it.
LEMMA LockMoves ==
    ASSUME HeldInv, Next, budget'.faulted = 0
    PROVE  \/ lock' = [lock EXCEPT !.writers = lock'.writers] /\ lock'.writers \subseteq lock.writers
           \/ \E w \in Workers : /\ acquireLease(w) \/ claimPauseLease(w)
                                 /\ ~lock.live \/ ~lock.busy
                                 /\ \E r \in Runs, op \in Operations : TakeLease(r, op)
           \/ \E w \in Workers : /\ parkLease(w) /\ ParkLease /\ Holds(runOf(w), job[w].fence)
                                 /\ job'[w] = [job[w] EXCEPT !.pc = "parked"]
           \/ \E w \in Workers : /\ Release(w) /\ lock.owner = runOf(w)
                                 /\ lock'.owner = None
           \/ ~lock.live /\ ~lock'.live
           \/ ExpireLease /\ \A w \in Workers : job[w].fence # lock.fence
           \/ migrationLeaseIsAvailable /\ migrationLeaseIsAvailable'
<1>1. /\ lock \in Lock /\ job \in [Workers -> Job]
      /\ \A w \in Workers : JobFits(job[w]) /\ job[w] \in Job
  BY OwnJob, LeaseTypes DEF HeldInv, TypeInv, TypeOK
<1>2. ~Fault /\ \A w \in Workers : ~Failure(w)
  BY NoFailure
<1>3. CASE UNCHANGED lock
  BY <1>1, <1>3 DEF Lock
<1>4. ASSUME NEW w \in Workers, acquireLease(w), lock' # lock
      PROVE  /\ ~lock.live \/ ~lock.busy
             /\ \E r \in Runs, op \in Operations : TakeLease(r, op)
  <2>1. job[w].pc = "acquire"
    BY <1>4 DEF acquireLease, At
  <2>2. job[w].kind \in Calls \union {"freeze"}
    BY <1>1, <2>1, KindsKnown
  <2>3. runOf(w) \in Runs /\ job[w].kind \in Operations
    BY <1>1, <2>1, <2>2 DEF JobFits, runOf, Operations, Calls, Admitted
  <2> QED
    BY <1>4, <2>3 DEF acquireLease, CanAcquire, OwnsParked
<1>5. ASSUME NEW w \in Workers, claimPauseLease(w), lock' # lock
      PROVE  /\ ~lock.live \/ ~lock.busy
             /\ \E r \in Runs, op \in Operations : TakeLease(r, op)
  <2>1. job[w].pc = "claimPause"
    BY <1>5 DEF claimPauseLease, At
  <2>2. job[w].phase \in Batches
    BY <1>1, <2>1, KindsKnown
  <2>3. runOf(w) \in Runs /\ job[w].phase \in Operations
    BY <1>1, <2>1, <2>2 DEF JobFits, runOf, Operations, Batches, Phase
  <2> QED
    BY <1>5, <2>3 DEF claimPauseLease, PauseClaimable, CanClaimPause, CanClaimParked, OwnsParked
<1>6. ASSUME NEW w \in Workers, parkLease(w), lock' # lock
      PROVE  /\ ParkLease /\ Holds(runOf(w), job[w].fence)
             /\ job'[w] = [job[w] EXCEPT !.pc = "parked"]
  BY <1>1, <1>6 DEF parkLease, Goto
<1>7. ASSUME NEW w \in Workers, Release(w), lock' # lock
      PROVE  lock.owner = runOf(w) /\ lock'.owner = None
  BY <1>1, <1>7 DEF Release, releaseLease, Lock
<1>8. ASSUME NEW w \in Workers, clearExpiredLock(w), lock' # lock
      PROVE  ~lock.live /\ ~lock'.live
  BY SMTT(40), <1>1, <1>8 DEF clearExpiredLock, ClearExpired, Lock
<1>9. ASSUME NEW w \in Workers, Call(w) PROVE UNCHANGED lock
  BY ZenonT(60), <1>9 DEF Call, createPreviewRun, pause, Begin, recoverStaleRuns
<1>10. ASSUME NEW w \in Workers,
              \/ stampLease(w) \/ Renew(w) \/ Abort(w) \/ stampPause(w)
              \/ finalizePauseWithLease(w) \/ sweepRuns(w)
              \/ FreezeSnapshot(w) \/ FinishPreview(w) \/ ReopenFailed(w) \/ FinishResume(w)
              \/ WeighCancel(w) \/ FinishCancel(w) \/ CompareRecords(w) \/ FinishVerify(w)
       PROVE  UNCHANGED lock
  BY ZenonT(60), <1>10 DEF stampLease, Renew, Abort, stampPause, finalizePauseWithLease, sweepRuns,
     FreezeSnapshot, FinishPreview, ReopenFailed, FinishResume, WeighCancel, FinishCancel,
     CompareRecords, FinishVerify
<1>11. ASSUME NEW w \in Workers,
              \/ EnterBatch(w) \/ NextRecord(w) \/ ClaimRecord(w) \/ ReadRecord(w)
              \/ WriteRecord(w) \/ RereadRecord(w) \/ JournalRecord(w) \/ FinishBatch(w)
              \/ CompletePhase(w) \/ StallPhase(w) \/ CheckParked(w)
       PROVE  UNCHANGED lock
  BY <1>11 DEF EnterBatch, NextRecord, ClaimRecord, ReadRecord, WriteRecord, RereadRecord,
     JournalRecord, FinishBatch, CompletePhase, StallPhase, CheckParked
<1>12. ASSUME NEW u \in Writers, Writer(u)
       PROVE  \/ UNCHANGED lock
              \/ migrationLeaseIsAvailable /\ migrationLeaseIsAvailable'
              \/ ReleaseWriterLease(u)
  <2>1. CASE \E t \in Timecards : StartEdit(u, t)
    BY <1>1, <2>1 DEF StartEdit, AcquireWriterLease, migrationLeaseIsAvailable, Lock
  <2> QED
    BY <1>12, <2>1 DEF Writer, RenewEdit, ReleaseEdit,
       editOwnedTimecardTask, updateTimeCard, deleteOwnedTimeCard, SaveEdit
<1>13. ASSUME NEW u \in Writers, ReleaseWriterLease(u)
       PROVE  /\ lock' = [lock EXCEPT !.writers = lock'.writers]
              /\ lock'.writers \subseteq lock.writers
  BY <1>1, <1>13 DEF ReleaseWriterLease, Lock
<1>14. CASE Expire
  BY <1>2, <1>14 DEF Expire
<1> QED
  BY <1>2, <1>3, <1>4, <1>5, <1>6, <1>7, <1>8, <1>9, <1>10, <1>11, <1>12, <1>13, <1>14
  DEF Next, Step, Batch, prepareBackup, LandLate

-----------------------------------------------------------------------------
(* How a call comes to the lease.                                          *)

\* How a call comes to have the lease, or keeps it.
Takes(w) == /\ acquireLease(w) \/ claimPauseLease(w)
            /\ TakeLease(job'[w].run, Operation(job'[w]))
            /\ job'[w].fence = lock.fence + 1 /\ job'[w].run \in Runs
            /\ job'[w].pc \in {"stamp", "stampPause"}

GoesOn(w) == /\ Works(job[w]) /\ UNCHANGED lock
             /\ job'[w].run = job[w].run /\ job'[w].fence = job[w].fence
             /\ \/ job'[w].pc \in {"release", "abort"}
                \/ /\ job[w].pc \notin {"release", "abort"}
                   /\ Operation(job'[w]) = Operation(job[w])

LEMMA WorkSteps ==
    ASSUME TypeInv, NEW w \in Workers, Step(w), Works(job'[w])
    PROVE  Takes(w) \/ GoesOn(w)
<1>1. job \in [Workers -> Job] /\ job[w] \in Job /\ JobFits(job[w])
  BY OwnJob
<1>3. CASE acquireLease(w)
  <2>1. job[w].pc = "acquire"
    BY <1>3 DEF acquireLease, At
  <2>2. runOf(w) \in Runs
    BY <1>1, <2>1 DEF JobFits, runOf
  <2>3. ~Return(w)
    BY ReturnSame DEF NoJob, Works, Issued
  <2>4. /\ TakeLease(runOf(w), job[w].kind)
        /\ job'[w] = [job[w] EXCEPT !.pc = "stamp", !.fence = lock.fence + 1]
    BY <1>1, <1>3, <2>3 DEF acquireLease
  <2>5. /\ job'[w].run = runOf(w) /\ job'[w].pc = "stamp" /\ job'[w].kind = job[w].kind
        /\ job'[w].fence = lock.fence + 1
    BY <1>1, <2>4 DEF Job, runOf
  <2> QED
    BY <1>3, <2>2, <2>4, <2>5 DEF Takes, Operation
<1>4. CASE claimPauseLease(w)
  <2>1. job[w].pc = "claimPause"
    BY <1>4 DEF claimPauseLease, At
  <2>2. runOf(w) \in Runs
    BY <1>1, <2>1 DEF JobFits, runOf
  <2>3. ~Return(w)
    BY ReturnSame DEF NoJob, Works, Issued
  <2>4. ~(job' = [job EXCEPT ![w] = [NoJob EXCEPT !.pc = "sweep", !.kind = "recover",
                                                  !.run = runOf(w)]])
    BY <1>1 DEF NoJob, Works, Issued
  <2>5. /\ TakeLease(runOf(w), job[w].phase)
        /\ job'[w] = [job[w] EXCEPT !.pc = "stampPause", !.fence = lock.fence + 1]
    BY <1>1, <1>4, <2>3, <2>4 DEF claimPauseLease
  <2>6. /\ job'[w].run = runOf(w) /\ job'[w].pc = "stampPause" /\ job'[w].phase = job[w].phase
        /\ job'[w].fence = lock.fence + 1
    BY <1>1, <2>5 DEF Job, runOf
  <2> QED
    BY <1>4, <2>2, <2>5, <2>6 DEF Takes, Operation
<1>5. ASSUME NEW pc, pc \in {"release", "abort"}, Leave(w, pc), Works(job[w]), UNCHANGED lock
      PROVE  GoesOn(w)
  BY <1>5, LeaveSame DEF GoesOn, SameCall
<1>6. ASSUME NEW pc, pc \notin {"stampPause", "finalizePause"}, UNCHANGED lock, Works(job[w]),
             job[w].pc \notin {"stampPause", "finalizePause", "release", "abort"},
             job'[w].pc = pc, job'[w].kind = job[w].kind, job'[w].run = job[w].run,
             job'[w].fence = job[w].fence
      PROVE  GoesOn(w)
  BY <1>6 DEF GoesOn, Operation
<1>7. ASSUME NEW pc, pc \notin {"stampPause", "finalizePause"}, UNCHANGED lock, Works(job[w]),
             job[w].pc \notin {"stampPause", "finalizePause", "release", "abort"},
             Goto(w, pc)
      PROVE  GoesOn(w)
  <2>1. /\ job'[w].pc = pc /\ job'[w].kind = job[w].kind /\ job'[w].run = job[w].run
        /\ job'[w].fence = job[w].fence
    BY <1>1, <1>7 DEF Goto, Job
  <2> QED
    BY <1>6, <1>7, <2>1
<1>8. ASSUME NEW pc, UNCHANGED lock, Works(job[w]),
             job[w].pc \notin {"stampPause", "finalizePause", "release", "abort"},
             RenewThen(w, pc)
      PROVE  GoesOn(w)
  <2>1. /\ job'[w].pc = "renew" /\ job'[w].kind = job[w].kind /\ job'[w].run = job[w].run
        /\ job'[w].fence = job[w].fence
    BY <1>1, <1>8 DEF RenewThen, Job
  <2> QED
    BY <1>6, <1>8, <2>1
<1>9. ASSUME UNCHANGED lock, Works(job[w]),
             job[w].pc \notin {"stampPause", "finalizePause", "release", "abort"},
             (\E o : ToJournal(w, o)) \/ NextInBatch(w)
      PROVE  GoesOn(w)
  <2>1. job'[w].pc \in {"journal", "next"}
    <3>1. ASSUME NEW o, ToJournal(w, o) PROVE job'[w].pc = "journal"
      BY <1>1, <3>1 DEF ToJournal, Job
    <3>2. ASSUME NextInBatch(w) PROVE job'[w].pc = "next"
      BY <1>1, <3>2 DEF NextInBatch, Job
    <3> QED
      BY <1>9, <3>1, <3>2
  <2>2. Keeps(w)
    BY <1>9, JournalSpot
  <2> QED
    BY <1>6, <1>9, <2>1, <2>2 DEF Keeps, SameCall
<1>10. CASE stampLease(w)
  <2>1. job[w].pc = "stamp" /\ job[w].kind \in Calls \union {"freeze"}
    BY <1>10, <1>1, KindsKnown DEF stampLease, At
  <2>2. \E pc \in {"enter", "snapshot", "reopen", "weigh", "compare"} : RenewThen(w, pc) \/ Goto(w, pc)
    BY <1>10, <2>1 DEF stampLease, Calls, Admitted, Batches, Phase
  <2> QED
    BY <1>7, <1>8, <1>10, <2>1, <2>2 DEF stampLease, Works, Issued
<1>11. CASE Renew(w)
  <2>1. At(w, "renew") /\ UNCHANGED lock
    BY <1>11 DEF Renew
  <2>2. CASE job' = [job EXCEPT ![w].pc = job[w].then, ![w].then = "idle"]
    <3>1. job[w].then \notin {"stampPause", "finalizePause"}
      BY <1>1, <2>1 DEF JobFits, RenewsFor, At, Job, Calls, Admitted
    <3>2. /\ job'[w].pc = job[w].then /\ job'[w].kind = job[w].kind /\ job'[w].run = job[w].run
          /\ job'[w].fence = job[w].fence
      BY <1>1, <2>2 DEF Job
    <3> QED
      BY <1>6, <2>1, <3>1, <3>2 DEF At, Works, Issued
  <2> QED
    BY <1>5, <1>9, <1>11, <2>1, <2>2 DEF Renew, Catch, At, Works, Issued
<1>12. CASE Release(w)
  <2>1. job[w].pc = "release"
    BY <1>12 DEF Release, At
  <2>2. job[w].kind = "recover" => job[w].then \in {"clear", "sweep"}
    BY <1>1, <2>1 DEF JobFits
  <2>3. ~Return(w)
    BY ReturnSame DEF NoJob, Works, Issued
  <2> QED
    BY <1>1, <1>12, <2>2, <2>3 DEF Release, Works, Issued, NoJob
<1>13. CASE Abort(w) \/ finalizePauseWithLease(w)
  BY <1>5, <1>13 DEF Abort, finalizePauseWithLease, At, Works, Issued
<1>14. CASE stampPause(w)
  <2>1. At(w, "stampPause") /\ UNCHANGED lock /\ Works(job[w])
    BY <1>14 DEF stampPause, At, Works, Issued
  <2>2. CASE Goto(w, "finalizePause")
    <3>1. /\ job'[w].pc = "finalizePause" /\ job'[w].phase = job[w].phase
          /\ job'[w].run = job[w].run /\ job'[w].fence = job[w].fence
      BY <1>1, <2>2 DEF Goto, Job
    <3> QED
      BY <2>1, <3>1 DEF GoesOn, Operation, At
  <2>3. CASE job' = [job EXCEPT ![w].pc = "release", ![w].then = "sweep"]
    <3>1. job'[w].pc = "release" /\ job'[w].run = job[w].run /\ job'[w].fence = job[w].fence
      BY <1>1, <2>3 DEF Job
    <3> QED
      BY <2>1, <3>1 DEF GoesOn
  <2> QED
    BY <1>14, <2>2, <2>3 DEF stampPause
<1>15. CASE clearExpiredLock(w) \/ sweepRuns(w)
  <2>1. job'[w].pc = "sweep" \/ Return(w)
    BY ZenonT(60), <1>1, <1>15 DEF clearExpiredLock, sweepRuns, Goto, Job
  <2> QED
    BY <2>1, ReturnSame DEF NoJob, Works, Issued
<1>16. CASE FreezeSnapshot(w)
  BY <1>5, <1>8, <1>16 DEF FreezeSnapshot, At, Works, Issued
<1>17. CASE \/ FinishPreview(w) \/ FinishResume(w) \/ FinishCancel(w) \/ FinishVerify(w)
            \/ CompletePhase(w) \/ StallPhase(w)
  <2>1. UNCHANGED lock /\ Works(job[w])
    BY <1>17 DEF FinishPreview, FinishResume, FinishCancel, FinishVerify, CompletePhase,
       StallPhase, At, Works, Issued
  <2>2. Leave(w, "release") \/ Leave(w, "abort")
    BY <1>17 DEF FinishPreview, FinishResume, FinishCancel, FinishVerify, CompletePhase,
       StallPhase, Guarded
  <2> QED
    BY <1>5, <2>1, <2>2
<1>18. CASE ReopenFailed(w) \/ WeighCancel(w) \/ CompareRecords(w)
  <2>1. /\ UNCHANGED lock /\ Works(job[w])
        /\ job[w].pc \notin {"stampPause", "finalizePause", "release", "abort"}
    BY <1>18 DEF ReopenFailed, WeighCancel, CompareRecords, At, Works, Issued
  <2>2. CASE Leave(w, "release")
    BY <1>5, <2>1, <2>2
  <2>3. ASSUME NEW s, NEW o, NEW pc,
               \/ job' = [job EXCEPT ![w].pc = "renew", ![w].then = pc, ![w].seen = s]
               \/ job' = [job EXCEPT ![w].pc = "renew", ![w].then = pc, ![w].seen = s,
                                     ![w].outcome = o]
        PROVE  GoesOn(w)
    <3>1. /\ job'[w].pc = "renew" /\ job'[w].kind = job[w].kind /\ job'[w].run = job[w].run
          /\ job'[w].fence = job[w].fence
      BY <1>1, <2>3 DEF Job
    <3> QED
      BY <1>6, <2>1, <3>1
  <2> QED
    BY <1>18, <2>2, <2>3 DEF ReopenFailed, WeighCancel, CompareRecords
<1>19. CASE EnterBatch(w)
  <2>1. UNCHANGED lock /\ At(w, "enter")
    BY <1>19 DEF EnterBatch
  <2>2. CASE \E l, s : job' = [job EXCEPT ![w].pc = "next", ![w].todo = l, ![w].listed = s]
    <3>1. /\ job'[w].pc = "next" /\ job'[w].kind = job[w].kind /\ job'[w].run = job[w].run
          /\ job'[w].fence = job[w].fence
      BY <1>1, <2>2 DEF Job
    <3> QED
      BY <1>6, <2>1, <3>1 DEF At, Works, Issued
  <2>3. CASE Leave(w, "abort")
    BY <1>5, <2>1, <2>3 DEF At, Works, Issued
  <2> QED
    BY <1>19, <2>2, <2>3 DEF EnterBatch
<1>20. CASE NextRecord(w)
  BY <1>5, <1>7, <1>8, <1>20 DEF NextRecord, At, Works, Issued
<1>21. CASE ClaimRecord(w)
  <2>1. UNCHANGED lock /\ At(w, "claim")
    BY <1>21 DEF ClaimRecord
  <2>2. ASSUME NEW t, NEW T, NEW b,
               \/ job' = [job EXCEPT ![w].pc = "read", ![w].card = t, ![w].todo = T,
                                     ![w].recovering = b]
               \/ job' = [job EXCEPT ![w].pc = "next", ![w].todo = T]
        PROVE  GoesOn(w)
    <3>1. /\ job'[w].pc \in {"read", "next"} /\ job'[w].kind = job[w].kind
          /\ job'[w].run = job[w].run /\ job'[w].fence = job[w].fence
      BY <1>1, <2>2 DEF Job
    <3> QED
      BY <1>6, <2>1, <3>1 DEF At, Works, Issued
  <2>3. CASE Leave(w, "abort")
    BY SMTT(40), <1>5, <2>1, <2>3 DEF At, Works, Issued
  <2>4. PICK t \in job[w].todo :
          LET b == backup[runOf(w)][t]
              takeover == b.status = phaseOf(w).intent /\ b.fence < job[w].fence
          IN  \/ job' = [job EXCEPT ![w].pc = "read", ![w].card = t,
                         ![w].todo = job[w].todo \ {t}, ![w].recovering = takeover]
              \/ Leave(w, "abort")
              \/ job' = [job EXCEPT ![w].pc = "next", ![w].todo = job[w].todo \ {t}]
    BY <1>21 DEF ClaimRecord
  <2> QED
    BY <2>2, <2>3, <2>4
<1>22. CASE ReadRecord(w)
  BY <1>8, <1>9, <1>22 DEF ReadRecord, At, Works, Issued
<1>23. CASE WriteRecord(w) \/ RereadRecord(w) \/ JournalRecord(w)
  BY <1>7, <1>9, <1>23 DEF WriteRecord, RereadRecord, JournalRecord, At, Works, Issued
<1>24. CASE FinishBatch(w)
  <2>1. UNCHANGED lock /\ At(w, "finish")
    BY <1>24 DEF FinishBatch
  <2>2. CASE \/ \E o : job' = [job EXCEPT ![w].pc = "renew", ![w].then = "complete",
                                          ![w].listed = 0, ![w].outcome = o]
             \/ job' = [job EXCEPT ![w].pc = "park", ![w].listed = 0]
    <3>1. /\ job'[w].pc \in {"renew", "park"} /\ job'[w].kind = job[w].kind
          /\ job'[w].run = job[w].run /\ job'[w].fence = job[w].fence
      BY <1>1, <2>2 DEF Job
    <3> QED
      BY <1>6, <2>1, <3>1 DEF At, Works, Issued
  <2>3. CASE RenewThen(w, "stall")
    BY <1>8, <2>1, <2>3 DEF At, Works, Issued
  <2> QED
    BY <1>24, <2>2, <2>3 DEF FinishBatch
<1>25. CASE parkLease(w)
  <2>1. ~Goto(w, "parked")
    BY <1>1 DEF Goto, Job, Works
  <2> QED
    BY <1>5, <1>25, <2>1 DEF parkLease, At, Works, Issued
<1>26. CASE CheckParked(w)
  <2>1. ~Return(w)
    BY ReturnSame DEF NoJob, Works, Issued
  <2>2. ~Goto(w, "claimPause")
    BY <1>1 DEF Goto, Job, Works, Issued
  <2> QED
    BY <1>26, <2>1, <2>2 DEF CheckParked
<1> QED
  BY <1>3, <1>4, <1>10, <1>11, <1>12, <1>13, <1>14, <1>15, <1>16, <1>17, <1>18, <1>19, <1>20,
     <1>21, <1>22, <1>23, <1>24, <1>25, <1>26 DEF Step, Batch

-----------------------------------------------------------------------------
(* What a call keeps while it has the lease.                               *)

LEMMA WorksFits == ASSUME TypeInv, NEW w \in Workers, Works(job[w]) \/ At(w, "parked")
                   PROVE  runOf(w) \in Runs
<1>1. JobFits(job[w])
  BY OwnJob
<1> QED
  BY <1>1 DEF JobFits, Works, Issued, At, runOf

\* The lease of a call that does not move stays as it is.
LEMMA HolderKeeps ==
    ASSUME HeldInv, Next, budget'.faulted = 0, NEW w \in Workers, Works(job[w]), job'[w] = job[w]
    PROVE  lock' = [lock EXCEPT !.writers = lock'.writers]
<1>1. TypeInv /\ budget.faulted = 0
  BY NoFailure DEF HeldInv
<1>2. runOf(w) \in Runs
  BY <1>1, WorksFits
<1>3. Holds(runOf(w), job[w].fence)
  BY <1>1 DEF HeldInv, FaultlessInv, Holding
<1>4. lock.owner \in Runs /\ lock.live /\ lock.busy /\ lock.fence = job[w].fence
  BY <1>2, <1>3 DEF Holds
<1>5. ~migrationLeaseIsAvailable
  BY <1>1, <1>4, NobodyWrites
<1>6. ASSUME NEW v \in Workers, parkLease(v), job'[v] = [job[v] EXCEPT !.pc = "parked"]
      PROVE  FALSE
  <2>1. Works(job[v]) /\ job[v].pc = "park"
    BY <1>6 DEF parkLease, At, Works, Issued
  <2>2. v = w
    BY <1>1, <2>1, OneWorks
  <2>3. job[v] \in Job
    BY <1>1, OwnJob
  <2> QED
    BY <1>6, <2>1, <2>2, <2>3 DEF Job
<1>7. ASSUME NEW v \in Workers, Release(v) PROVE FALSE
  <2>1. Works(job[v]) /\ job[v].pc = "release"
    BY <1>7 DEF Release, At, Works, Issued
  <2>2. v = w
    BY <1>1, <2>1, OneWorks
  <2>3. job \in [Workers -> Job] /\ JobFits(job[v])
    BY <1>1, OwnJob
  <2>4. ~Return(v)
    BY <1>1, <2>1, <2>2, ReturnSame DEF NoJob
  <2>5. PICK q : job' = [job EXCEPT ![v] = [NoJob EXCEPT !.pc = job[v].then, !.kind = "recover",
                                                         !.run = q]]
    BY <1>7, <2>4 DEF Release
  <2>6. job[v].then # "release"
    BY <1>7, <2>1, <2>3, <2>4 DEF Release, JobFits
  <2>7. job'[v].pc = job[v].then
    BY <2>3, <2>5 DEF NoJob
  <2> QED
    BY <2>1, <2>2, <2>6, <2>7
<1> QED
  BY <1>4, <1>5, <1>6, <1>7, LockMoves

LEMMA HoldsStep ==
    ASSUME HeldInv, Next, budget'.faulted = 0, NEW w \in Workers, Works(job'[w])
    PROVE  Holding(w)'
<1>1. TypeInv /\ budget.faulted = 0 /\ ~Failure(w)
  BY NoFailure DEF HeldInv
<1>2. lock \in Lock
  BY <1>1, LeaseTypes
<1>3. CASE job'[w] = job[w]
  <2>1. Holding(w)
    BY <1>1, <1>3 DEF HeldInv, FaultlessInv
  <2>2. lock' = [lock EXCEPT !.writers = lock'.writers]
    BY <1>3, HolderKeeps
  <2>3. /\ lock'.owner = lock.owner /\ lock'.fence = lock.fence /\ lock'.busy = lock.busy
        /\ lock'.live = lock.live /\ lock'.operation = lock.operation
    BY <1>2, <2>2 DEF Lock
  <2> QED
    BY <1>3, <2>1, <2>3 DEF Holding, Holds, Operation, runOf
<1>4. CASE Takes(w)
  <2>1. job'[w].pc \notin {"release", "abort"}
    BY <1>4 DEF Takes
  <2> QED
    BY <1>4, <2>1 DEF Takes, TakeLease, Holding, Holds, Operation, runOf
<1>5. CASE GoesOn(w)
  <2>1. Holding(w)
    BY <1>1, <1>5 DEF HeldInv, FaultlessInv, GoesOn
  <2> QED
    BY <1>5, <2>1 DEF GoesOn, Holding, Holds, Operation, runOf
<1>6. CASE Call(w)
  BY <1>1, <1>6, CallFence DEF Works
<1> QED
  BY <1>1, <1>3, <1>4, <1>5, <1>6, WorkSteps, OtherSteps, OthersStay

\* A parked lease was parked before, or is parked by this step.
LEMMA ParkedKept ==
    ASSUME HeldInv, Next, budget'.faulted = 0, NEW r \in Runs, Parked(r)'
    PROVE  \/ /\ Parked(r) /\ lock' = [lock EXCEPT !.writers = lock'.writers]
              /\ lock'.writers \subseteq lock.writers
           \/ \E w \in Workers : /\ parkLease(w) /\ ParkLease /\ Holds(r, job[w].fence)
                                 /\ job'[w] = [job[w] EXCEPT !.pc = "parked"]
                                 /\ runOf(w) = r
<1>1. lock \in Lock
  BY LeaseTypes DEF HeldInv
<1>2. r # None
  BY DateMigrationAssumption
<1>3. ASSUME NEW q, NEW op, TakeLease(q, op) PROVE FALSE
  BY <1>3 DEF TakeLease, Parked
<1>4. lock'.owner # None /\ lock'.live /\ ~migrationLeaseIsAvailable'
  BY <1>2 DEF Parked, migrationLeaseIsAvailable
<1>5. ~ExpireLease
  BY <1>1, <1>4 DEF ExpireLease, Lock
<1>6. ASSUME lock' = [lock EXCEPT !.writers = lock'.writers] PROVE Parked(r)
  BY <1>1, <1>6 DEF Parked, Lock
<1>7. ASSUME NEW w \in Workers, ParkLease, Holds(runOf(w), job[w].fence)
      PROVE  runOf(w) = r
  BY <1>1, <1>7 DEF ParkLease, Holds, Parked, Lock
<1> QED
  BY <1>3, <1>4, <1>5, <1>6, <1>7, LockMoves

LEMMA FenceParked ==
    ASSUME HeldInv, Next, budget'.faulted = 0, NEW w \in Workers, job'[w] = job[w],
           At(w, "parked"), job[w].fence = lock'.fence
    PROVE  Parked(runOf(w))' /\ lock'.operation = job[w].kind
<1>1. TypeInv /\ budget.faulted = 0 /\ runOf(w) \in Runs
  BY NoFailure, WorksFits DEF HeldInv
<1>2. lock \in Lock
  BY <1>1, LeaseTypes
<1>3. lock.fence = lock'.fence
  <2>1. job[w].fence <= lock.fence
    BY DEF HeldInv, FenceInv
  <2> QED
    BY <1>1, <2>1, FenceTypes
<1>4. Parked(runOf(w)) /\ lock.operation = job[w].kind
  BY <1>1, <1>3 DEF HeldInv, FaultlessInv
<1>5. lock.owner \in Runs /\ lock.live /\ ~lock.busy
  BY <1>1, <1>4 DEF Parked
<1>6. ~migrationLeaseIsAvailable
  BY <1>1, <1>5, NobodyWrites
<1>7. ASSUME NEW q, NEW op, TakeLease(q, op) PROVE FALSE
  BY <1>1, <1>3, <1>7, FenceTypes DEF TakeLease
<1>8. ASSUME NEW v \in Workers, Release(v) PROVE FALSE
  <2>1. Works(job[v])
    BY <1>8 DEF Release, At, Works, Issued
  <2> QED
    BY <1>1, <1>4, <2>1, NoneWorks
<1>9. lock' = [lock EXCEPT !.writers = lock'.writers]
  BY <1>3, <1>5, <1>6, <1>7, <1>8, LockMoves DEF Holds
<1> QED
  BY <1>2, <1>4, <1>9 DEF Parked, Lock, runOf

-----------------------------------------------------------------------------
(* How a batch comes to its end.                                           *)

\* How a batch comes to its end.
LEMMA EndSteps ==
    ASSUME TypeInv, NEW w \in Workers, Step(w),
           Spot(job'[w]) \in {"finish", "stall", "park", "parked"}
    PROVE  /\ Keeps(w) /\ UNCHANGED run
           /\ \/ NextRecord(w) \/ FinishBatch(w) \/ Renewed(w)
              \/ parkLease(w) /\ job'[w].pc = "parked"
<1>1. job \in [Workers -> Job] /\ job[w] \in Job /\ JobFits(job[w])
  BY OwnJob
<1>2. ASSUME NEW pc, pc \in {"release", "abort"}, Leave(w, pc) PROVE FALSE
  BY <1>2, LeaveSame DEF Spot
<1>3. ~Return(w)
  BY ReturnSame DEF NoJob, Spot
<1>4. ASSUME (\E o : ToJournal(w, o)) \/ NextInBatch(w) PROVE FALSE
  BY <1>4, JournalSpot DEF RecordPcs
<1>5. ASSUME NEW pc, pc \notin {"renew", "finish", "stall", "park", "parked"},
             RenewThen(w, pc) \/ Goto(w, pc)
      PROVE  FALSE
  BY <1>5, RenewSpot, GotoSpot
<1>6. ASSUME NEW pc, job'[w].pc = pc, pc \notin {"renew", "finish", "stall", "park", "parked"}
      PROVE  FALSE
  BY <1>6 DEF Spot
<1>7. ASSUME acquireLease(w) \/ claimPauseLease(w) \/ Release(w) \/ stampPause(w)
             \/ clearExpiredLock(w) \/ sweepRuns(w)
      PROVE  FALSE
  <2>1. CASE acquireLease(w)
    <3>1. job' = [job EXCEPT ![w].pc = "stamp", ![w].fence = lock.fence + 1]
      BY <1>3, <2>1 DEF acquireLease
    <3> QED
      BY <1>1, <1>6, <3>1 DEF Job
  <2>2. CASE claimPauseLease(w)
    <3>1. \/ job' = [job EXCEPT ![w].pc = "stampPause", ![w].fence = lock.fence + 1]
          \/ job' = [job EXCEPT ![w] = [NoJob EXCEPT !.pc = "sweep", !.kind = "recover",
                                                     !.run = runOf(w)]]
      BY <1>3, <2>2 DEF claimPauseLease
    <3>2. job'[w].pc \in {"stampPause", "sweep"}
      BY ZenonT(60), <1>1, <3>1 DEF Job, NoJob
    <3> QED
      BY <1>6, <3>2
  <2>3. CASE Release(w)
    <3>1. PICK q : job' = [job EXCEPT ![w] = [NoJob EXCEPT !.pc = job[w].then, !.kind = "recover",
                                                           !.run = q]]
      BY <1>3, <2>3 DEF Release
    <3>2. job[w].then \in {"clear", "sweep"}
      BY <1>1, <1>3, <2>3 DEF Release, JobFits, At
    <3>3. job'[w].pc \in {"clear", "sweep"}
      BY <1>1, <3>1, <3>2 DEF NoJob
    <3> QED
      BY <1>6, <3>3
  <2>4. CASE stampPause(w)
    <3>1. CASE Goto(w, "finalizePause")
      BY <1>5, <3>1
    <3>2. CASE job' = [job EXCEPT ![w].pc = "release", ![w].then = "sweep"]
      BY <1>1, <1>6, <3>2 DEF Job
    <3> QED
      BY <2>4, <3>1, <3>2 DEF stampPause
  <2> QED
    BY <1>3, <1>5, <1>7, <2>1, <2>2, <2>3, <2>4 DEF clearExpiredLock, sweepRuns
<1>8. CASE stampLease(w)
  <2>1. job[w].kind \in Calls \union {"freeze"}
    BY <1>8, OwnJob, KindsKnown DEF stampLease, At
  <2>2. \E pc \in {"enter", "snapshot", "reopen", "weigh", "compare"} : RenewThen(w, pc) \/ Goto(w, pc)
    BY <1>8, <2>1 DEF stampLease, Calls, Admitted, Batches, Phase
  <2> QED
    BY <1>5, <2>2
<1>9. CASE Renew(w)
  <2>1. ~Leave(w, Catch(w))
    BY <1>2 DEF Catch
  <2>2. /\ renewLease(runOf(w), job[w].fence, job[w].kind)
        /\ job' = [job EXCEPT ![w].pc = job[w].then, ![w].then = "idle"]
    BY <1>4, <1>9, <2>1 DEF Renew
  <2>3. job[w].pc = "renew" /\ job[w].then # "renew" /\ UNCHANGED run
    BY <1>1, <1>9 DEF Renew, At, JobFits, RenewsFor, Job, Calls, Admitted
  <2>4. Renewed(w)
    BY <1>1, <1>9, <2>2, <2>3 DEF Renewed, Keeps, SameCall, Spot, Job
  <2> QED
    BY <2>3, <2>4 DEF Renewed
<1>10. ~(Abort(w) \/ finalizePauseWithLease(w) \/ FinishPreview(w) \/ FinishResume(w)
         \/ FinishCancel(w) \/ FinishVerify(w) \/ CompletePhase(w) \/ StallPhase(w))
  BY <1>2 DEF Abort, finalizePauseWithLease, FinishPreview, FinishResume, FinishCancel,
     FinishVerify, CompletePhase, StallPhase, Guarded
<1>11. ~FreezeSnapshot(w)
  BY <1>2, <1>5 DEF FreezeSnapshot
<1>12. ASSUME NEW pc \in {"reopened", "cancelled", "verified"}, NEW s, NEW o,
              \/ job' = [job EXCEPT ![w].pc = "renew", ![w].then = pc, ![w].seen = s]
              \/ job' = [job EXCEPT ![w].pc = "renew", ![w].then = pc, ![w].seen = s,
                                    ![w].outcome = o]
       PROVE  FALSE
  <2>1. Spot(job'[w]) = pc
    BY <1>1, <1>12 DEF Job, Spot
  <2> QED
    BY <2>1
<1>13. ~(ReopenFailed(w) \/ WeighCancel(w) \/ CompareRecords(w))
  BY <1>2, <1>12 DEF ReopenFailed, WeighCancel, CompareRecords
<1>14. ASSUME EnterBatch(w) \/ ClaimRecord(w) PROVE FALSE
  <2>1. ASSUME NEW l, NEW s,
               job' = [job EXCEPT ![w].pc = "next", ![w].todo = l, ![w].listed = s]
        PROVE  FALSE
    <3>1. job'[w].pc = "next"
      BY <1>1, <2>1 DEF Job
    <3> QED
      BY <1>6, <3>1
  <2>2. ASSUME ClaimRecord(w) PROVE FALSE
    <3>1. PICK t \in job[w].todo :
            LET b == backup[runOf(w)][t]
                takeover == b.status = phaseOf(w).intent /\ b.fence < job[w].fence
            IN  \/ job' = [job EXCEPT ![w].pc = "read", ![w].card = t,
                           ![w].todo = job[w].todo \ {t}, ![w].recovering = takeover]
                \/ Leave(w, "abort")
                \/ job' = [job EXCEPT ![w].pc = "next", ![w].todo = job[w].todo \ {t}]
      BY <2>2 DEF ClaimRecord
    <3>2. job'[w].pc \in {"read", "next"} \/ Leave(w, "abort")
      BY <1>1, <3>1 DEF Job
    <3> QED
      BY SMTT(40), <1>2, <1>6, <3>2
  <2>3. ~EnterBatch(w)
    BY <1>2, <2>1 DEF EnterBatch
  <2> QED
    BY <1>14, <2>2, <2>3
<1>15. CASE NextRecord(w)
  <2>1. UNCHANGED run /\ Goto(w, "finish")
    BY <1>2, <1>5, <1>15 DEF NextRecord
  <2> QED
    BY <1>15, <2>1, GotoSpot
<1>16. ~(ReadRecord(w) \/ WriteRecord(w) \/ RereadRecord(w) \/ JournalRecord(w))
  BY <1>4, <1>5 DEF ReadRecord, WriteRecord, RereadRecord, JournalRecord
<1>17. CASE FinishBatch(w)
  <2>1. \/ RenewThen(w, "stall")
        \/ \E o : job' = [job EXCEPT ![w].pc = "renew", ![w].then = "complete",
                                     ![w].listed = 0, ![w].outcome = o]
        \/ job' = [job EXCEPT ![w].pc = "park", ![w].listed = 0]
    BY <1>17 DEF FinishBatch
  <2>2. Keeps(w)
    BY <1>1, <2>1 DEF RenewThen, Keeps, SameCall, Job
  <2> QED
    BY <1>17, <2>2 DEF FinishBatch
<1>18. CASE parkLease(w)
  <2>1. Goto(w, "parked")
    BY <1>2, <1>18 DEF parkLease
  <2>2. job'[w].pc = "parked" /\ Keeps(w)
    BY <1>1, <2>1 DEF Goto, Keeps, SameCall, Job
  <2> QED
    BY <1>18, <2>2 DEF parkLease
<1>19. ~CheckParked(w)
  BY <1>3, <1>5 DEF CheckParked
<1> QED
  BY <1>7, <1>8, <1>9, <1>10, <1>11, <1>13, <1>14, <1>15, <1>16, <1>17, <1>18, <1>19
  DEF Step, Batch

\* A batch leaves the status of its run alone between its entry and its end.
LEMMA RunningSteps ==
    ASSUME TypeInv, NEW w \in Workers, Step(w), Running(job'[w])
    PROVE  /\ Keeps(w)
           /\ Entered(w) \/ (Running(job[w]) /\ UNCHANGED run)
<1>1. CASE Spot(job'[w]) \in {"finish", "stall", "park"}
  <2>1. Keeps(w) /\ UNCHANGED run
    BY <1>1, EndSteps
  <2>2. job[w].kind \in Batches
    BY SMTT(40), <2>1 DEF Keeps, SameCall, Running
  <2>3. Spot(job[w]) \in {"next", "finish"} \/ Spot(job[w]) = Spot(job'[w]) \/ job'[w].pc = "parked"
    BY <1>1, EndSteps DEF NextRecord, FinishBatch, Renewed, At, Spot
  <2>4. job'[w].pc # "parked"
    BY <1>1 DEF Spot
  <2> QED
    BY <1>1, <2>1, <2>2, <2>3, <2>4 DEF Running, RecordPcs
<1>2. CASE Spot(job'[w]) \in RecordPcs \union {"complete"}
  <2>1. Renewed(w) \/ Recorded(w) \/ Entered(w) \/ Finished(w)
    BY <1>2, Arrivals DEF Elsewhere, RecordPcs, Reopened, Weighed, Compared
  <2>2. CASE Renewed(w)
    BY <1>2, <2>2 DEF Renewed, Renew, Keeps, SameCall, Running
  <2>3. CASE Entered(w)
    BY <2>3 DEF Entered
  <2>4. CASE Finished(w)
    BY <2>4 DEF Finished, FinishBatch, At, Spot, Keeps, SameCall, Running
  <2>5. CASE Recorded(w)
    <3>1. Running(job[w]) /\ Keeps(w)
      BY <2>5 DEF Recorded, Running
    <3>2. CASE NextRecord(w)
      <4>1. ~Leave(w, "release")
        BY <1>2, LeaveSame DEF Spot, RecordPcs
      <4> QED
        BY <3>1, <3>2, <4>1 DEF NextRecord
    <3>3. CASE At(w, "renew")
      <4>1. Renew(w)
        BY SMTT(40), <3>3 DEF Step, Batch, acquireLease, stampLease, Release, Abort, claimPauseLease,
     stampPause, finalizePauseWithLease, clearExpiredLock, sweepRuns,
     FreezeSnapshot, FinishPreview, ReopenFailed, FinishResume, WeighCancel, FinishCancel,
     CompareRecords, FinishVerify, EnterBatch, NextRecord, ClaimRecord, ReadRecord,
     WriteRecord, RereadRecord, JournalRecord, FinishBatch, CompletePhase, StallPhase, parkLease,
     CheckParked, At
      <4> QED
        BY <3>1, <4>1 DEF Renew
    <3>4. CASE job[w].pc \in RecordPcs
      <4>1. \/ NextRecord(w) \/ ClaimRecord(w) \/ ReadRecord(w) \/ WriteRecord(w)
            \/ RereadRecord(w) \/ JournalRecord(w)
        BY ZenonT(60), <3>4 DEF Step, Batch, acquireLease, stampLease, Release, Abort, claimPauseLease,
     stampPause, finalizePauseWithLease, clearExpiredLock, sweepRuns, Renew,
     FreezeSnapshot, FinishPreview, ReopenFailed, FinishResume, WeighCancel, FinishCancel,
     CompareRecords, FinishVerify, EnterBatch, FinishBatch, CompletePhase, StallPhase, parkLease,
     CheckParked, At, RecordPcs
      <4> QED
        BY ZenonT(60), <3>1, <3>2, <4>1 DEF ClaimRecord, ReadRecord, WriteRecord, RereadRecord, JournalRecord
    <3> QED
      BY <2>5, <3>3, <3>4 DEF Recorded, Spot, At
  <2> QED
    BY <2>1, <2>2, <2>3, <2>4, <2>5
<1> QED
  BY <1>1, <1>2 DEF Running

\* What a parked batch and a pause do next.
LEMMA ParkedAt ==
    ASSUME NEW w \in Workers, Step(w)
    PROVE  /\ At(w, "parked") => CheckParked(w)
           /\ At(w, "claimPause") => claimPauseLease(w)
  BY DEF Step, Batch, acquireLease, stampLease, Release, Abort, Renew,
     stampPause, finalizePauseWithLease, clearExpiredLock, sweepRuns,
     FreezeSnapshot, FinishPreview, ReopenFailed, FinishResume, WeighCancel, FinishCancel,
     CompareRecords, FinishVerify, EnterBatch, NextRecord, ClaimRecord, ReadRecord,
     WriteRecord, RereadRecord, JournalRecord, FinishBatch, CompletePhase, StallPhase, parkLease,
     CheckParked, claimPauseLease, At

-----------------------------------------------------------------------------
(* How a run comes to its status.                                          *)

LEMMA FinishesMove == ASSUME TypeInv, NEW w \in Workers, Finishes(w)
                      PROVE  Works(job[w]) /\ job'[w] # job[w]
<1>1. job \in [Workers -> Job] /\ job[w] \in Job
  BY OwnJob
<1>2. job[w].pc \in {"enter", "complete", "stall", "abort", "preview", "reopened", "cancelled",
                     "verified"}
  BY DEF Finishes, EnterBatch, CompletePhase, StallPhase, Abort, FinishPreview, FinishResume,
     FinishCancel, FinishVerify, At
<1>3. CASE EnterBatch(w)
  <2>1. ASSUME NEW l, NEW s,
               job' = [job EXCEPT ![w].pc = "next", ![w].todo = l, ![w].listed = s]
        PROVE  job'[w].pc = "next"
    BY <1>1, <2>1 DEF Job
  <2>2. job'[w].pc \in {"abort", "next"}
    <3>1. \/ Leave(w, "abort")
          \/ \E l, s : job' = [job EXCEPT ![w].pc = "next", ![w].todo = l, ![w].listed = s]
      BY <1>3 DEF EnterBatch
    <3> QED
      BY <2>1, <3>1, LeaveSame
  <2> QED
    BY <1>2, <1>3, <2>2 DEF EnterBatch, At, Works, Issued
<1>4. CASE ~EnterBatch(w)
  <2>1. Leave(w, "release") \/ (Leave(w, "abort") /\ ~Abort(w))
    BY <1>4 DEF Finishes, CompletePhase, StallPhase, Abort, FinishPreview, FinishResume,
       FinishCancel, FinishVerify, Guarded, At
  <2>2. \/ job'[w].pc = "release"
        \/ job'[w].pc = "abort" /\ ~Abort(w)
    BY <2>1, LeaveSame
  <2>3. job[w].pc = "abort" => Abort(w)
    BY <1>4 DEF Finishes, EnterBatch, CompletePhase, StallPhase, FinishPreview, FinishResume,
       FinishCancel, FinishVerify, At
  <2> QED
    BY <1>2, <2>2, <2>3 DEF Works, Issued
<1> QED
  BY <1>3, <1>4

LEMMA ActiveKept ==
    ASSUME TypeInv, Next, NEW r \in Runs, NEW op, Active(r, op),
           \A x \in Workers : runOf(x) = r => ~Finishes(x)
    PROVE  Active(r, op)'
<1>1. op \in Batches /\ run[r].status \in {"applying", "restoring", "paused"}
  BY DEF Active, Batches, Phase
<1>2. CASE run'[r].status = run[r].status
  BY <1>2 DEF Active
<1>3. CASE run'[r].status # run[r].status
  BY <1>1, <1>3, StatusSteps DEF Active
<1> QED
  BY <1>2, <1>3

\* A batch finds its run active, or paused by a sweep.
LEMMA RunningStep ==
    ASSUME HeldInv, Next, budget'.faulted = 0, NEW w \in Workers, Running(job'[w])
    PROVE  Active(runOf(w), job[w].kind)'
<1>1. TypeInv /\ budget.faulted = 0 /\ ~Failure(w)
  BY NoFailure DEF HeldInv
<1>2. JobFits(job[w]) /\ run \in [Runs -> Run]
  BY <1>1, RunTypes
<1>3. CASE job'[w] = job[w]
  <2>1. Running(job[w]) /\ Works(job[w])
    BY <1>3 DEF Running, Works, Issued, Spot, RecordPcs
  <2>2. Active(runOf(w), job[w].kind) /\ runOf(w) \in Runs
    BY <1>1, <2>1, WorksFits DEF HeldInv, FaultlessInv
  <2>3. ASSUME NEW x \in Workers, Finishes(x) PROVE FALSE
    <3>1. Works(job[x]) /\ job'[x] # job[x]
      BY <1>1, <2>3, FinishesMove
    <3>2. x = w
      BY <1>1, <2>1, <3>1, OneWorks
    <3> QED
      BY <1>3, <3>1, <3>2
  <2>4. Active(runOf(w), job[w].kind)' = (/\ job'[w].kind \in Batches
                /\ run'[job'[w].run].status \in {Phase[job'[w].kind].active, "paused"})
    BY DEF Active, runOf
  <2>5. /\ job[w].kind \in Batches
        /\ run'[job[w].run].status \in {Phase[job[w].kind].active, "paused"}
    BY <1>1, <2>2, <2>3, ActiveKept DEF Active, runOf
  <2> QED
    BY <1>3, <2>4, <2>5
<1>4. CASE Step(w)
  <2>1. Keeps(w) /\ (Entered(w) \/ (Running(job[w]) /\ UNCHANGED run))
    BY <1>1, <1>4, RunningSteps
  <2>2. CASE Entered(w)
    <3>1. job[w].kind \in Batches /\ job[w].phase = job[w].kind /\ runOf(w) \in Runs
      BY <1>1, <2>1, <2>2, RunTypes DEF Entered, EnterBatch, At, Recording
    <3>2. run' = [run EXCEPT ![runOf(w)].status = phaseOf(w).active]
      BY <2>2 DEF Entered, EnterBatch, SetStatus
    <3>3. run'[runOf(w)].status = Phase[job[w].kind].active
      BY <1>2, <3>1, <3>2 DEF Run, phaseOf
    <3> QED
      BY <2>1, <3>1, <3>3 DEF Active, Keeps, SameCall, runOf
  <2>3. CASE Running(job[w]) /\ UNCHANGED run
    <3>1. Active(runOf(w), job[w].kind)
      BY <1>1, <2>3 DEF HeldInv, FaultlessInv
    <3> QED
      BY <2>1, <2>3, <3>1 DEF Active, Keeps, SameCall, runOf
  <2> QED
    BY <2>1, <2>2, <2>3
<1>5. CASE Call(w)
  <2>1. job'[w].pc \in {"acquire", "claimPause", "sweep", "clear"}
    BY <1>1, <1>5, CallSteps
  <2> QED
    BY <2>1 DEF Running, Spot, RecordPcs
<1> QED
  BY <1>1, <1>3, <1>4, <1>5, OtherSteps, OthersStay

\* Only the pause method requests a pause.
LEMMA RequestSteps ==
    ASSUME TypeInv, Next, NEW r \in Runs, run'[r].pauseRequested, ~run[r].pauseRequested
    PROVE  \E w \in Workers : pause(w, r)
<1>1. run \in [Runs -> Run] /\ run[r] \in Run
  BY RunTypes
<1>2. run'[r].pauseRequested # run[r].pauseRequested
  OBVIOUS
<1>3. run' # run
  BY <1>2
<1>4. ASSUME NEW q, NEW s, NEW p, NEW f,
             \/ run' = [run EXCEPT ![q].status = s]
             \/ run' = [run EXCEPT ![q].leaseFence = f]
             \/ run' = [run EXCEPT ![q].status = s, ![q].pausedPhase = p]
             \/ run' = [run EXCEPT ![q].status = s, ![q].pausedPhase = p, ![q].pauseRequested = FALSE]
      PROVE  FALSE
  BY <1>1, <1>2, <1>4 DEF Run
<1>5. ASSUME NEW w \in Workers, NEW q \in Runs, pause(w, q) PROVE q = r
  <2>1. run' = [run EXCEPT ![q].pauseRequested = TRUE]
    BY SMTT(40), <1>5 DEF pause
  <2> QED
    BY <1>1, <1>2, <2>1 DEF Run
<1>6. ASSUME NEW w \in Workers,
             \/ \E q \in Runs : createPreviewRun(w, q) \/ \E kind \in Calls : Begin(w, q, kind)
             \/ recoverStaleRuns(w)
      PROVE  FALSE
  BY ZenonT(60), <1>3, <1>4, <1>6 DEF createPreviewRun, Begin, recoverStaleRuns
<1>7. ASSUME NEW w \in Workers,
             \/ Renew(w) \/ Release(w) \/ claimPauseLease(w) \/ clearExpiredLock(w)
             \/ FreezeSnapshot(w) \/ ReopenFailed(w) \/ WeighCancel(w) \/ CompareRecords(w)
             \/ ClaimRecord(w) \/ ReadRecord(w) \/ WriteRecord(w) \/ RereadRecord(w)
             \/ JournalRecord(w) \/ FinishBatch(w) \/ parkLease(w) \/ CheckParked(w)
             \/ Failure(w)
      PROVE  FALSE
  BY ZenonT(60), <1>3, <1>7 DEF Renew, Release, claimPauseLease, clearExpiredLock, FreezeSnapshot, ReopenFailed,
     WeighCancel, CompareRecords, ClaimRecord, ReadRecord, WriteRecord, RereadRecord,
     JournalRecord, FinishBatch, parkLease, CheckParked, Failure, ReadFails, WriteFails, Crash, Fails
<1>8. ASSUME NEW w \in Workers, acquireLease(w) \/ stampLease(w) \/ stampPause(w) PROVE FALSE
  BY <1>3, <1>4, <1>8 DEF acquireLease, stampLease, stampPause
<1>9. ASSUME NEW w \in Workers, FinalizePause(w) PROVE FALSE
  BY <1>1, <1>2, <1>9 DEF FinalizePause, Run
<1>10. ASSUME NEW w \in Workers, Pause(w) PROVE FALSE
  BY <1>4, <1>10 DEF Pause
<1>11. ASSUME NEW w \in Workers, finalizePauseWithLease(w) \/ NextRecord(w) PROVE FALSE
  BY <1>3, <1>9, <1>11 DEF finalizePauseWithLease, NextRecord
<1>12. ASSUME NEW w \in Workers, sweepRuns(w) PROVE FALSE
  <2>1. PICK f : run'[r] \in {run[r], [run[r] EXCEPT !.status = "failed"],
                              [run[r] EXCEPT !.status = "paused", !.pausedPhase = f]}
    BY <1>12 DEF sweepRuns
  <2> QED
    BY <1>1, <1>2, <2>1 DEF Run
<1>13. ASSUME NEW w \in Workers, Abort(w) PROVE FALSE
  BY <1>3, <1>4, <1>10, <1>13 DEF Abort
<1>14. ASSUME NEW w \in Workers, EnterBatch(w) PROVE FALSE
  BY <1>3, <1>4, <1>14 DEF EnterBatch, SetStatus
<1>15. ASSUME NEW w \in Workers,
              \/ CompletePhase(w) \/ StallPhase(w) \/ FinishPreview(w) \/ FinishResume(w)
              \/ FinishCancel(w) \/ FinishVerify(w)
       PROVE  FALSE
  <2>1. ~StallPhase(w)
    BY <1>3, <1>10 DEF StallPhase, Guarded
  <2>2. ASSUME CompletePhase(w) PROVE FALSE
    <3>1. run' = [run EXCEPT ![runOf(w)].status = job[w].outcome,
                             ![runOf(w)].pausedPhase = "none",
                             ![runOf(w)].pauseRequested = FALSE]
      BY SMTT(40), <1>3, <2>2 DEF CompletePhase, Guarded
    <3> QED
      BY <1>1, <1>2, <3>1 DEF Run
  <2>3. ~FinishPreview(w) /\ ~FinishCancel(w) /\ ~FinishVerify(w)
    BY <1>3, <1>4 DEF FinishPreview, FinishCancel, FinishVerify, Guarded, SetStatus
  <2>4. ASSUME FinishResume(w) PROVE FALSE
    <3>1. run' = [run EXCEPT ![runOf(w)].status = Phase[job[w].seen].resumed,
                             ![runOf(w)].pausedPhase = "none",
                             ![runOf(w)].pauseRequested = FALSE]
      BY <1>3, <2>4 DEF FinishResume, Guarded
    <3> QED
      BY <1>1, <1>2, <3>1 DEF Run
  <2> QED
    BY <1>15, <2>1, <2>2, <2>3, <2>4
<1>16. ASSUME NEW q \in Runs, prepareBackup(q) PROVE FALSE
  BY <1>4, <1>16 DEF prepareBackup
<1>17. ASSUME NEW l \in late, LandLate(l) PROVE FALSE
  BY SMTT(40), <1>3, <1>17 DEF LandLate
<1>18. ASSUME NEW u \in Writers, Writer(u) PROVE FALSE
  BY <1>3, <1>18 DEF Writer, StartEdit, RenewEdit, ReleaseEdit,
     editOwnedTimecardTask, updateTimeCard, deleteOwnedTimeCard, SaveEdit
<1>19. ~Expire
  BY <1>3 DEF Expire
<1> QED
  BY <1>5, <1>6, <1>7, <1>8, <1>11, <1>12, <1>13, <1>14, <1>15, <1>16, <1>17, <1>18, <1>19
  DEF Next, Call, Step, Batch

-----------------------------------------------------------------------------
(* Pauses and verdicts.                                                    *)

\* A pause that was requested stays somebody's to look at while the lease stays parked.
LEMMA SeenStays ==
    ASSUME HeldInv, Next, budget'.faulted = 0, NEW r \in Runs, Parked(r), Parked(r)',
           lock' = [lock EXCEPT !.writers = lock'.writers], lock'.writers \subseteq lock.writers,
           run[r].pauseRequested
    PROVE  Seen(r)'
<1>1. TypeInv /\ budget.faulted = 0 /\ lock \in Lock
  BY NoFailure, LeaseTypes DEF HeldInv
<1>2. lock.owner = r /\ lock.live /\ ~lock.busy
  BY DEF Parked
<1>3. lock.writers = {} /\ lock'.writers = {}
  BY <1>1, <1>2, NobodyWrites
<1>4. /\ lock'.owner = lock.owner /\ lock'.fence = lock.fence /\ lock'.busy = lock.busy
      /\ lock'.live = lock.live /\ lock'.operation = lock.operation
  BY <1>1 DEF Lock
<1>5. Seen(r)
  BY <1>1 DEF HeldInv, FaultlessInv
<1>6. PICK w \in Workers : /\ runOf(w) = r
                           /\ \/ At(w, "parked") /\ job[w].fence = lock.fence
                              \/ At(w, "claimPause") /\ PauseClaimable(w)
  BY <1>5 DEF Seen
<1>7. job \in [Workers -> Job] /\ job[w] \in Job /\ JobFits(job[w])
  BY <1>1, OwnJob
<1>8. CASE job'[w] = job[w]
  <2>1. PauseClaimable(w) => PauseClaimable(w)'
    BY <1>3, <1>4, <1>8 DEF PauseClaimable, CanClaimPause, CanClaimParked, OwnsParked, runOf
  <2> QED
    BY <1>4, <1>6, <1>8, <2>1 DEF Seen, At, runOf
<1>9. CASE Step(w) /\ At(w, "parked") /\ job[w].fence = lock.fence
  <2>1. Goto(w, "claimPause")
    BY <1>6, <1>9, ParkedAt DEF CheckParked
  <2>2. /\ job'[w].pc = "claimPause" /\ job'[w].run = r /\ job'[w].kind = job[w].kind
        /\ job'[w].phase = job[w].phase /\ job'[w].fence = job[w].fence
    BY <1>6, <1>7, <2>1 DEF Goto, Job, runOf
  <2>3. job[w].kind \in Batches /\ job[w].phase = job[w].kind
    BY <1>1, <1>9, RunTypes DEF At, Recording
  <2>4. lock.operation = job[w].kind
    BY <1>1, <1>9 DEF HeldInv, FaultlessInv
  <2>5. PauseClaimable(w)'
    BY <1>2, <1>3, <1>4, <1>9, <2>2, <2>3, <2>4
    DEF PauseClaimable, CanClaimParked, OwnsParked, runOf, Batches, Phase
  <2> QED
    BY <2>2, <2>5 DEF Seen, At, runOf
<1>10. CASE Step(w) /\ At(w, "claimPause") /\ PauseClaimable(w)
  <2>1. \E q, op : TakeLease(q, op)
    BY ZenonT(60), <1>10, ParkedAt DEF claimPauseLease
  <2> QED
    BY <1>2, <1>4, <2>1 DEF TakeLease
<1>11. ~Call(w)
  BY <1>6 DEF Call, createPreviewRun, pause, Begin, recoverStaleRuns, At
<1>12. CASE Step(w)
  BY <1>6, <1>9, <1>10, <1>12
<1>13. ~Failure(w)
  BY NoFailure
<1> QED
  BY <1>1, <1>8, <1>11, <1>12, <1>13, OtherSteps, OthersStay

LEMMA ParkedStep ==
    ASSUME HeldInv, Next, budget'.faulted = 0, NEW r \in Runs, Parked(r)'
    PROVE  /\ Active(r, lock.operation)'
           /\ run'[r].pauseRequested => Seen(r)'
<1>1. TypeInv /\ budget.faulted = 0 /\ lock \in Lock
  BY NoFailure, LeaseTypes DEF HeldInv
<1>2. CASE /\ Parked(r) /\ lock' = [lock EXCEPT !.writers = lock'.writers]
           /\ lock'.writers \subseteq lock.writers
  <2>1. /\ lock'.owner = lock.owner /\ lock'.fence = lock.fence /\ lock'.busy = lock.busy
        /\ lock'.live = lock.live /\ lock'.operation = lock.operation
    BY <1>1, <1>2 DEF Lock
  <2>2. Active(r, lock.operation)
    BY <1>1, <1>2 DEF HeldInv, FaultlessInv
  <2>3. ASSUME NEW x \in Workers PROVE ~Finishes(x)
    BY <1>1, <1>2, FinishesMove, NoneWorks
  <2>4. Active(r, lock.operation)'
    <3>1. /\ lock.operation \in Batches
          /\ run'[r].status \in {Phase[lock.operation].active, "paused"}
      BY <1>1, <2>2, <2>3, ActiveKept DEF Active
    <3> QED
      BY <2>1, <3>1 DEF Active
  <2>5. ASSUME ~run[r].pauseRequested, run'[r].pauseRequested PROVE Seen(r)'
    <3>1. PICK w \in Workers : pause(w, r)
      BY <1>1, <2>5, RequestSteps
    <3>2. PICK p \in Batches :
              /\ run[r].status = Phase[p].active
              /\ job' = [job EXCEPT ![w] = [NoJob EXCEPT !.pc = "claimPause", !.kind = "pause",
                                                         !.run = r, !.phase = p]]
      BY <3>1 DEF pause
    <3>3. job \in [Workers -> Job]
      BY <1>1, OwnJob
    <3>4. /\ job'[w].pc = "claimPause" /\ job'[w].run = r /\ job'[w].kind = "pause"
          /\ job'[w].phase = p
      BY <3>2, <3>3 DEF NoJob
    <3>5. lock.operation = p
      BY <2>2, <3>2 DEF Active, Batches, Phase
    <3>6. lock.owner = r /\ ~lock.busy /\ lock.live
      BY <1>2 DEF Parked
    <3>7. lock'.writers = {}
      BY <1>1, <1>2, <3>6, NobodyWrites
    <3>8. PauseClaimable(w)'
      BY <2>1, <3>4, <3>5, <3>6, <3>7 DEF PauseClaimable, CanClaimPause, OwnsParked, runOf
    <3> QED
      BY <3>4, <3>8 DEF Seen, At, runOf
  <2> QED
    BY <1>2, <2>4, <2>5, SeenStays
<1>3. ASSUME NEW w \in Workers, parkLease(w), ParkLease, Holds(r, job[w].fence),
             job'[w] = [job[w] EXCEPT !.pc = "parked"], runOf(w) = r
      PROVE  Active(r, lock.operation)' /\ Seen(r)'
  <2>1. job[w] \in Job /\ At(w, "park") /\ UNCHANGED run
    BY <1>1, <1>3, OwnJob DEF parkLease
  <2>2. job[w].kind \in Batches
    BY <1>1, <2>1, RunTypes DEF At, Recording
  <2>3. Works(job[w]) /\ Running(job[w])
    BY <2>1, <2>2 DEF Works, Issued, Running, Spot, At
  <2>4. Holding(w) /\ Active(r, job[w].kind)
    BY <1>1, <1>3, <2>3 DEF HeldInv, FaultlessInv
  <2>5. lock.operation = job[w].kind
    BY <2>1, <2>4 DEF Holding, Operation, At
  <2>6. lock'.operation = lock.operation /\ lock'.fence = lock.fence
    BY <1>1, <1>3 DEF ParkLease, Lock
  <2>7. job'[w].pc = "parked" /\ job'[w].run = r /\ job'[w].fence = job[w].fence
    BY <1>3, <2>1 DEF Job, runOf
  <2>8. job[w].fence = lock.fence
    BY <1>3 DEF Holds
  <2> QED
    BY <2>1, <2>4, <2>5, <2>6, <2>7, <2>8 DEF Active, Seen, At, runOf
<1> QED
  BY <1>2, <1>3, ParkedKept

\* A verdict is checked while no entry can change, and stays true.
LEMMA CertainStep ==
    ASSUME HeldInv, Next, budget'.faulted = 0, NEW w \in Workers
    PROVE  Certain(w)'
<1>1. TypeInv /\ budget.faulted = 0 /\ ~Failure(w)
  BY NoFailure DEF HeldInv
<1>2. SUFFICES ASSUME Spot(job'[w]) = "verified", job'[w].outcome = "verified"
               PROVE  (\A t \in Frozen(runOf(w)) : Dates(t) = After(runOf(w), t, "apply"))'
  BY DEF Certain, Spot
<1>3. job'[w] = job[w] \/ Renewed(w) \/ Compared(w)
  <2>1. CASE Call(w)
    <3>1. job'[w].pc \in {"acquire", "claimPause", "sweep", "clear"}
      BY <1>1, <2>1, CallSteps
    <3> QED
      BY <1>2, <3>1 DEF Spot
  <2>2. CASE Step(w)
    BY <1>1, <1>2, <2>2, Arrivals DEF Elsewhere, Recorded, RecordPcs, Entered, Finished,
       Reopened, Weighed
  <2> QED
    BY <1>1, <2>1, <2>2, OtherSteps, OthersStay
<1>4. CASE UNCHANGED <<entry, backup>>
  <2>1. job'[w].run = job[w].run
    BY <1>3 DEF Renewed, Compared, Keeps, SameCall
  <2>3. ASSUME NEW t \in Frozen(runOf(w)) PROVE Dates(t) = After(runOf(w), t, "apply")
    <3>1. CASE Compared(w)
      <4>1. ReportOK(runOf(w), run[runOf(w)].status)
            /\ run[runOf(w)].status \notin {"restored", "restored-with-conflicts"}
        BY <1>2, <3>1 DEF Compared
      <4> QED
        BY <4>1 DEF ReportOK, Frozen
    <3>2. CASE job'[w] = job[w] \/ Renewed(w)
      <4>1. Spot(job[w]) = "verified" /\ job[w].outcome = "verified"
        BY <1>2, <3>2 DEF Renewed
      <4> QED
        BY <1>1, <4>1 DEF HeldInv, FaultlessInv, Certain
    <3> QED
      BY <1>3, <3>1, <3>2
  <2> QED
    BY <1>4, <2>1, <2>3 DEF Dates, After, Frozen, runOf
<1>5. CASE job'[w] = job[w]
  <2>1. Spot(job[w]) = "verified" /\ Works(job[w])
    BY <1>2, <1>5 DEF Spot, Works, Issued
  <2>2. job[w].pc \in {"renew", "verified"}
    BY <2>1 DEF Spot
  <2>3. ASSUME NEW v \in Workers, job[v].pc \in {"snapshot", "reopen", "journal", "claim", "write"}
        PROVE  FALSE
    BY SMTT(40), <1>1, <2>1, <2>2, <2>3, OneWorks DEF Works, Issued
  <2>4. UNCHANGED backup
    BY ZenonT(60), <2>3, BackupSteps DEF FreezeSnapshot, ReopenFailed, JournalRecord, ClaimRecord, At
  <2>5. late = {} /\ Holding(w) /\ runOf(w) \in Runs
    BY <1>1, <2>1, WorksFits DEF HeldInv, FaultlessInv
  <2>6. \A u \in Writers : edit[u].pc # "write"
    BY <1>1, <2>5, NobodyWrites DEF Holding, Holds
  <2>7. UNCHANGED entry
    BY <1>1, <2>3, <2>5, <2>6, EntrySteps DEF Landing, SaveEdit, At
  <2> QED
    BY <1>4, <2>4, <2>7
<1>6. CASE Renewed(w) \/ Compared(w)
  BY <1>4, <1>6 DEF Renewed, Renew, Compared, CompareRecords, data
<1> QED
  BY <1>3, <1>5, <1>6

LEMMA FaultlessStep == ASSUME HeldInv, Next PROVE FaultlessInv'
<1> SUFFICES ASSUME budget'.faulted = 0
             PROVE  /\ late' = {}
                    /\ \A w \in Workers :
                         /\ Works(job'[w]) => Holding(w)'
                         /\ Running(job'[w]) => Active(runOf(w), job[w].kind)'
                         /\ job'[w].pc = "parked" /\ job'[w].fence = lock'.fence
                                => Parked(runOf(w))' /\ lock'.operation = job'[w].kind
                         /\ Certain(w)'
                    /\ \A r \in Runs : Parked(r)' =>
                         /\ Active(r, lock.operation)'
                         /\ run'[r].pauseRequested => Seen(r)'
  BY DEF FaultlessInv, At
<1>1. TypeInv /\ budget.faulted = 0 /\ \A w \in Workers : ~Failure(w)
  BY NoFailure DEF HeldInv
<1>2. late' = {}
  <2>1. late = {}
    BY <1>1 DEF HeldInv, FaultlessInv
  <2> QED
    BY <1>1, <2>1, LateSteps DEF Failure
<1>3. ASSUME NEW w \in Workers, job'[w].pc = "parked", job'[w].fence = lock'.fence
      PROVE  Parked(runOf(w))' /\ lock'.operation = job'[w].kind
  <2>1. CASE job'[w] = job[w]
    BY <1>3, <2>1, FenceParked DEF At
  <2>2. CASE Step(w)
    <3>1. job \in [Workers -> Job] /\ job[w] \in Job /\ JobFits(job[w])
      BY <1>1, OwnJob
    <3>2. ~NextRecord(w)
      BY <1>1, <1>3, <3>1, LeaveSame DEF NextRecord, Goto, RenewThen, Job
    <3>3. ~FinishBatch(w)
      BY <1>3, <3>1 DEF FinishBatch, RenewThen, Job
    <3>4. ~Renewed(w)
      BY <1>3, <3>1 DEF Renewed, Renew, At, JobFits, RenewsFor, Job, Calls, Admitted
    <3>5. Keeps(w) /\ parkLease(w)
      BY <1>1, <1>3, <2>2, <3>2, <3>3, <3>4, EndSteps DEF Spot
    <3>6. ~Leave(w, "abort")
      BY <1>1, <1>3, LeaveSame
    <3>7. Holds(runOf(w), job[w].fence) /\ ParkLease /\ At(w, "park")
      BY <3>5, <3>6 DEF parkLease
    <3>8. Holding(w) /\ lock \in Lock
      BY <1>1, <3>7, LeaseTypes DEF HeldInv, FaultlessInv, Works, Issued, At
    <3>9. lock.operation = job[w].kind
      BY <3>7, <3>8 DEF Holding, Operation, At
    <3>10. /\ lock'.owner = lock.owner /\ lock'.live = lock.live /\ ~lock'.busy
           /\ lock'.operation = lock.operation
      BY <3>7, <3>8 DEF ParkLease, Lock
    <3> QED
      BY <3>5, <3>7, <3>9, <3>10 DEF Holds, Parked, Keeps, SameCall, runOf
  <2>3. CASE Call(w)
    <3>1. job'[w].pc \in {"acquire", "claimPause", "sweep", "clear"}
      BY <1>1, <2>3, CallSteps
    <3> QED
      BY <1>3, <3>1
  <2> QED
    BY <1>1, <2>1, <2>2, <2>3, OtherSteps, OthersStay
<1> QED
  BY <1>2, <1>3, HoldsStep, RunningStep, CertainStep, ParkedStep

LEMMA LeaseInit == Init => LeaseInv
  BY DEF Init, LeaseInv, ensureLockDocument, NoEdit

LEMMA HeldInit == Init => HeldInv
  BY TypeInit, FenceInit, LeaseInit, FaultlessInit DEF HeldInv

LEMMA FaultlessKeeps == FaultlessInv /\ UNCHANGED vars => FaultlessInv'
  BY DEF FaultlessInv, vars, Works, Running, Holding, Holds, Active, Parked, Seen, Certain, At,
     runOf, Frozen, Dates, After, PauseClaimable, CanClaimPause, CanClaimParked, OwnsParked

LEMMA HeldStep == HeldInv /\ [Next]_vars => HeldInv'
<1>1. HeldInv /\ [Next]_vars => TypeInv' /\ FenceInv' /\ LeaseInv'
  BY TypeStep, FenceStep, LeaseStep DEF HeldInv
<1>2. HeldInv /\ [Next]_vars => FaultlessInv'
  BY FaultlessStep, FaultlessKeeps DEF HeldInv
<1> QED
  BY <1>1, <1>2 DEF HeldInv

\* Unless a call has failed or a lease has run out, a pause that was requested while a
\* batch held the lease is seen by the pause call or by the batch when it parks.
THEOREM PauseSeen == Spec => []PauseIsSeen
<1>1. HeldInv => PauseIsSeen
  BY DEF HeldInv, FaultlessInv, PauseIsSeen, Parked, Seen, At
<1> QED
  BY <1>1, HeldInit, HeldStep, PTL DEF Spec

\* Unless a call has failed or a lease has run out, verify finds the converted dates
\* still there when it stores its verdict: no edit slips in after the comparison.
THEOREM VerifyIsTrue == Spec => VerifiedIsTrue
<1>1. ASSUME HeldInv, Next, NEW r \in Runs, budget.faulted = 0, run[r].status # "verified",
             run'[r].status = "verified", NEW t \in Timecards, backup[r][t].status # "none"
      PROVE  Dates(t) = After(r, t, "apply")
  <2>1. TypeInv
    BY <1>1 DEF HeldInv
  <2>2. PICK w \in Workers : runOf(w) = r /\ Finishes(w)
    BY <1>1, <2>1, StatusSteps
  <2>3. JobFits(job[w])
    BY <2>1, OwnJob
  <2>4. FinishVerify(w) /\ job[w].outcome = "verified"
    <3>1. CASE EnterBatch(w) /\ run'[r].status = phaseOf(w).active
      <4>1. job[w].phase \in Batches
        BY <2>1, <3>1, RunTypes DEF EnterBatch, At, Recording
      <4> QED
        BY <1>1, <3>1, <4>1 DEF phaseOf, Batches, Phase
    <3>2. CASE CompletePhase(w) /\ run'[r].status = job[w].outcome
      <4>1. At(w, "complete") /\ job[w].phase \in Batches
        BY <2>1, <3>2, RunTypes DEF CompletePhase, At, Recording
      <4>2. job[w].outcome \in {phaseOf(w).complete, phaseOf(w).incomplete}
        BY <2>3, <4>1 DEF JobFits, AboutTo, At, phaseOf
      <4> QED
        BY <1>1, <3>2, <4>1, <4>2 DEF phaseOf, Batches, Phase
    <3>3. CASE FinishResume(w) /\ run'[r].status = Phase[job[w].seen].resumed
      <4>1. job[w].seen \in Batches
        BY <2>3, <3>3 DEF FinishResume, At, JobFits, AboutTo
      <4> QED
        BY <1>1, <3>3, <4>1 DEF Batches, Phase
    <3> QED
      BY <1>1, <2>1, <2>2, <3>1, <3>2, <3>3, FinishSteps
  <2>5. Certain(w) /\ Spot(job[w]) = "verified"
    BY <1>1, <2>4 DEF HeldInv, FaultlessInv, FinishVerify, At, Spot
  <2> QED
    BY <1>1, <2>2, <2>4, <2>5 DEF Certain, Frozen
<1>2. HeldInv /\ [Next]_vars =>
          [\A r \in Runs :
               budget.faulted = 0 /\ run[r].status # "verified" /\ run'[r].status = "verified"
               => \A t \in Timecards : backup[r][t].status # "none" =>
                      Dates(t) = After(r, t, "apply")]_vars
  BY <1>1
<1> QED
  BY <1>2, HeldInit, HeldStep, PTL DEF Spec, VerifiedIsTrue
=============================================================================
