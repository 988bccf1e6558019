# A TLA+ model of titra

titra is a Meteor application for time tracking: browsers talk to it over DDP, other
programs over a REST API, and it keeps everything in MongoDB. This directory models the parts
of it that have to stay correct while requests interleave, fail and repeat, and the command line
client's side of one of them. The modules are
specifications in TLA+; TLC checks them on small instances and TLAPS proves their safety
properties for every value of the constants.

    tlc -config fence_single.cfg MCProjectChildFence
    tlapm ProjectChildFenceProofs.tla

Paths below are those of the repository. `PROJECT.json` maps each definition to the lines it
models.

## The system

### One fact behind most of the design

The server uses no multi-document transactions. One `updateOne` or `findOneAndUpdate` on one
document is atomic, and nothing else is. Every JavaScript function gives way to the others at
each `await`; there may be several server processes; a process may stop anywhere; and a call to
the database may be rejected although it takes effect, at once or later. Each component below
builds something larger than one update out of single updates, and the models are about whether
that works.

### Components

**Project child fence** (`imports/api/projects/server/projectChildFence.js`,
`server/projectFenceRecovery.js`).
State: three fields of a project document: `lifecycleWriters` (at most 64 reservations, each
naming the child it is for, its process' boot id and its age), `lifecycleLock` and
`taskGraphLock`.
Operations: create a child under a reservation and verify it afterwards, run an edit or a move
under a reservation, delete an empty project under `lifecycleLock`, delete a task under
`taskGraphLock`, inspect and recover stale reservations and locks.
Hard: a create and a delete that pass each other; a reservation whose owner stopped, with its
write still on the way; a recovery that takes away a reservation that is in use.
Correct when: no child is stored without its project; writers and the two deletions exclude one
another; a reservation stays until its write can no longer take effect; everything is given back.

**Tasks and their graph** (`imports/api/tasks/server/*.js`, the default task in
`imports/api/projects/server/methods.js`).
State: tasks with a name, dependencies, a default flag and a revision; the project's
`defaultTask` name; timecards that record a task by name.
Operations: insert, edit over DDP and REST, set the default, record time, delete over DDP and
REST.
Hard: dependencies are validated by a count and written later; a delete reads four things, one
after another; the default is kept in two places and one of them is written without the fence.
Correct when: no dependency dangles; a delete respects records and the flag; a default task keeps
its name.

**Timer** (`imports/api/users/server/timerTransitions.js`, `server/timerRoutes.js`, `setTimer` in
`imports/api/users/server/methods.js`).
State: the timer fields of the user's profile with a revision, a receipt of the timer that was
stopped last, a history of started operations that expire.
Operations: start (with the client's operation id), stop (naming timer and revision), the same from
the browser without these.
Hard: repeats after a lost answer, two devices at once, a history pruned by a clock that is not
the server's.
Correct when: an operation starts one timer; an answer is about the timer that was asked for and is
true.

**API idempotency** (`server/apiIdempotency.js`, `imports/api/apiidempotency/**`).
State: a receipt for each user, operation and key, with a preallocated resource id, removed by a TTL
index.
Operations: find, guard, reserve, recover, create, complete, confirm.
Hard: a creation that throws after its insert; two requests with one key; a receipt that expires
between two steps.
Correct when: one document is created; the answer is of the caller's own request and can be replayed
to the promised deadline; a deleted document stays deleted.

**Signed webhooks** (`server/webhookVerificationRoute.js`, `imports/api/webhookreceipts/**`,
`imports/api/webhookverification/**`).
State: a receipt for each event with a lease, the user's `actionVerification` with a marker of the
event applied last, the interface with a configuration revision.
Operations: deliver, claim, apply, complete, fail; enrol a user; change a mapping.
Hard: workers slower than their lease, events applied out of order, mappings changed between two
attempts, one event id under two bodies.
Correct when: an event has one meaning; the user follows the newest event; a 202 is true.

**Timecard date migration** (`imports/api/timecarddatemigrations/**`, with the writes of
`imports/api/timecards/server/*.js` that take its lease).
State: a lock with a fence counter, a lease and the leases of live writers; runs with a status and a
requested pause; backups, one for each record, that serve as a journal; the dates and the date
revision of each time entry.
Operations: preview, prepare, apply, pause, resume, cancel, verify, restore, recover stale runs; each
write of a timecard takes a writer lease.
Hard: everything: leases against slow writers, a pause against a batch that parks, a crash between a
change and its journal entry, a write that arrives after its worker was fenced off.
Correct when: a migrated or restored record is one no user changed meanwhile; the journal tells which
records changed; a cancelled run leaves nothing behind.

**Command line client** (`local-tools/titra-cli/src/titra_cli/timer.py`, `state.py`, `api.py`).
State: files shared by all its processes: the pending start (a journal of one operation id), the active
timer, record drafts; no file is written together with another or with a request.
Operations: start, recover-start, status, adopt, stop (and cancel), recover-stop.
Hard: a process killed between a file and a request, requests that take effect after their process is
gone, two processes that work on one timer, an answer that is a repetition.
Correct when: a timer the client started is named by a file; a timer it stopped has a draft; an interval
is in one draft.

**Smaller ones**: timecard edits (one compare-and-swap on a snapshot; modelled as the writers of the
date migration, so far as they change dates), project edits (the same), daily mail (one reservation for each recipient and day), administrator continuity (a count under a
lease), rate limits and publication gates (synchronous counters), statistics (an observer),
publications, exports, interfaces with user scripts, sign-in providers, the browser's pages, and the
rest of the command line client. `PROJECT.json` lists them with the reason each has for being left out.

### How they interact

    REST create -> idempotency receipt -> reservation on the project -> child document
    timecard writes -> migration writer lease -> reservation on the project -> timecard
    task delete -> taskGraphLock on the project -> tasks, timecards, project read -> task
    project delete -> lifecycleLock on the project -> both collections counted -> project
    webhook -> receipt lease -> mapping -> user's actionVerification
    CLI processes -> pending start, active timer, drafts
    CLI -> timer routes -> user's profile <- setTimer <- browser

The project document is where most of it meets: `lifecycleLock`, `taskGraphLock` and
`lifecycleWriters` are read and written together by each of the three selectors.

## The modules

| module | models | state |
|---|---|---|
| `ProjectChildren` | what the fence promises: joining a project and deleting an empty one are single steps | `alive`, `childOf` |
| `ProjectChildFence` | the fence, both deletions, crashes, late writes, stale recovery | the three fence fields, children, requests, processes' boots |
| `TaskGraph` | tasks, dependencies, the default task, records | documents of one project, its writers and task lock, requests |
| `TimerTransitions` | start and stop of one user's timer | profile, requests, replies; history of timers that ran |
| `ApiIdempotency` | one receipt and the documents created under it | receipt, documents, requests, replies; history of creations and promises |
| `WebhookReceipts` | deliveries, receipts, one user | receipts, interfaces, user, workers; history of attempts and answers |
| `MigratedEntries` | what the date migration promises the owners of time entries | `entry`, `frozen`, `cancelled` |
| `MigrationLease` | the lock document and its atomic updates | `lock` |
| `DateMigration` | runs, batches, pauses, recovery and the writers of time entries, over `MigrationLease` | entries, runs, backups, calls in progress, writes on their way |
| `CliTimer` | the client's timer commands, composed with `TimerTransitions` | the three kinds of files, processes; history of operation ids |
| `MC*` | TLC instances: symmetry, and what a `.cfg` cannot write | |
| `*Proofs` | theorems of the module they extend | |
| `DateMigrationTypes` | the type and lease theorems of `DateMigration`, and the lemmas about its operators that `DateMigrationProofs` builds on | |

`ProjectChildFence` implements `ProjectChildren` (the property `ImplementsPromise`, under the
identity on `alive` and `childOf`). `DateMigration` implements `MigratedEntries` (`KeepsPromise`) under
a mapping that reads the frozen revision of an entry from its backup and the cancelled runs from their
status; locks, leases, the journal and the workers have no counterpart there. `CliTimer` extends
`TimerTransitions`: a client process owns a request slot, its requests are those of the server's module,
and the other slots are devices. `TaskGraph` sees the fence as its clients do, as a set of
writers and one lock that exclude each other, which is what `FenceExclusion` says of
`ProjectChildFence`.

### How code becomes actions

*Requests.* A request is a slot with a program counter. An action is what the code does from one
`await` to the next; a database call is the atomic part of it. A `findOneAndUpdate` with its
selector is one action whose guard is the selector, and the branch for "nothing matched" is the
other disjunct.

*Jobs.* A call of a migration method is a `job` of a worker with a program counter; each operation on the
database is a step. `applyBatch` and `restoreBatch` are one program over two vocabularies (`Phase`). The
renewal of the lease before each guarded write is a step of its own, after which the lease may still run
out. A job forgets what it needs no more.

*Files.* A process of the client steps from one file or request to the next; it may be killed, or give up with
an error, before any step (`Quit`), and its request stays in its slot (`gone`). A file is replaced atomically
and survives; the file locks are held for one replacement only, but for the lock of a draft, which a stop
and its recovery hold from reading the draft to writing it back.

*Writes that outlive their caller.* A child write is dispatched, takes effect (`Land...`) and
is acknowledged in three steps. When the driver rejects or the process stops in between, the request
is `lost`: the write may still land, or vanish.

*Time.* Timer, idempotency and webhook have a `clock`, the database's. A server's or browser's `now` is
any instant within `Skew` of it. `Delay` bounds how long a request may take between its arrival and
the step that depends on its age. `Tick` does not pass a request's `Delay`; this is the
bound the code leaves to proxies and drivers. `MaxTime` bounds `clock`.

*TTL.* MongoDB removes an expired document some time after it expires, so `Expire` is enabled from then
on and never forced.

*History variables* (`sessions`, `made`, `promises`, `attempts`, `settled`, `processed`, `accepted`,
`wrote`, the field `by` of an entry, `started`) record what happened, are read by no guard that stands for code, and let a property speak of
the past.

*What is abstracted.* Names, payloads and ids are model values. A payload's fingerprint is the payload.
A webhook's body is what the mapping makes of it (`rules`), its signature is the time it was signed
at. The fields of a timecard are the project or the task it belongs to, in the date migration its dates:
legacy, as the migration would have them (canonical), or as a user has changed them. Authorisation is not modelled:
a request that is refused early changes nothing.

### Decisions worth knowing

* *The age of a fence.* Recovery demands a minimum age. In the model `aged` means both that the fence
  is old enough and that no write of the request that left it is still on its way; a request
  that stops with a write in flight has to age afresh. That is the assumption the code rests on: a
  write that takes effect later than the minimum age would defeat it.
* *SafeDeployment.* `docs/api-v2.md` allows recovery for one process only. The theorems about the fence
  that need it assume `RecoveryEnabled => one instance`; `fence_multi` looks at what remains without it.
* *GraceCovers.* A receipt or a history entry outlives the replay window by a grace period. The theorems
  need `Grace >= Skew + Delay` (timer: `Grace >= 2 * Skew + Delay`, for the entry is written by one clock and
  pruned by another). The code's values satisfy this if clocks are within the grace period and
  requests end within it. A browser's clock need not be: see the findings.
* *Clients.* A client repeats an operation or a key only inside the published window, counted from its
  first use. The CLI stops 600 seconds early.
* *Leases of the migration.* A lease judges itself by the database's clock: `live` says whether it is still
  ahead. That a lease whose holder is parked or dead runs out is not a fault and may happen any time; that it
  runs out under a call at work is one, and `Budgets` counts those. Late writes land any time or never.
* *A lock in two writes.* `acquireLease` takes the lock and then stamps the run with its fence, the second
  write guarded by nothing. The model has both (`stamp`), so a slow call may stamp over a newer one.
* *An edit's lease.* A user's edit reads its entry when it takes its writer lease. An edit that read earlier
  gives up when its snapshot is stale, which is `RenewEdit` giving up. An edit that keeps the dates still raises
  the date revision. A user may convert an entry just as the migration would.
* *Errors in a recovered intent.* `RecoveryErrors = FALSE` lets a batch that takes over an intent stop but not
  fail before its own write. `migration_recovery` sets it TRUE and finds finding 4; under FALSE the rest is
  shown to hold.
* *A cancelled run's last intent.* Nothing is said of the journal of a cancelled run. A batch that stalled
  before the cancel may still claim an intent after it, and with one more call and fault that intent may even
  be journaled as applied when a user made the same conversion meanwhile. What holds is that the run's write
  takes no effect: no entry has its dates from a cancelled run (`CancelLeavesNothing`).
* *Steps of the migration that are one here*: a freeze's batches of reads, inserts and guarded heartbeats
  (`FreezeSnapshot`: an edit in between is like one after it), the batches of a comparison (`CompareRecords`: it
  runs under the lease, which keeps edits out unless there is a fault, and with a fault nothing is said of the
  verdict), the three updates of a sweep (`sweepRuns`), each of a different status, and the two of a pause
  (`FinalizePause`), guarded by one fence. A conversion a user makes to the very dates the run would set is
  adopted by the run, which may take it back (`MigratedEntries`).
* *What the client's journal is for.* `started` says what the client knows of an operation id: `reserved` until the
  active-timer file names it, `refused` if its first attempt was refused and the journal cleared, `settled`
  when it was tracked, or when a second process replayed it while the first was at its first attempt. In the
  last case the first may be refused, and clear the journal, while the other's request is on its way; the
  client promises nothing about that and neither does `StartIsRemembered`.
* *The active-timer file* is overwritten and deleted without a comparison, so a slow process can drop the
  association of a newer timer. The timer is then adopted again; nothing is promised, and no property is about
  it.
* *Steps of the client that are one here*: looking at the server and launching the replay (`Resume`), the two
  writes that create a draft (`CreateDraft`). Operation ids are never used twice by different starts.
* *The webhook's user.* `updateProfile` enrols a user without an e-mail address anew on each
  update; that is `Enroll`. An interface that is switched off refuses deliveries, which is a delivery
  that does nothing.

## What the runs check

| run | instance | shows |
|---|---|---|
| `fence_single` | 2 projects, 1 timecard, 1 task, 2 requests, 1 process with recovery, failures, at most 2 writers | `NoOrphan`, `FenceExclusion`, `ReservationCoversWrite`, `NoJoinUnderLock`, and that the fence implements `ProjectChildren` |
| `fence_multi` | 1 project, 2 processes with recovery, no failures, at most 1 writer | even in the deployment the documentation warns of, a create that reports success is no orphan (`SuccessIsNotOrphan`), reservations stay bounded (`BoundedWriters`), and each reservation and lock is given back (`FencesDrain`) |
| `fence_stale_lock` | as `fence_single`, at most 1 writer | finding 1 |
| `task_graph` | 2 tasks, 2 names, 1 timecard, 2 at a time of 4 requests, failures | `DependenciesExist`, `RecordedGuard`, `FlaggedTaskStays` |
| `task_default` | the same | finding 2 |
| `timer` | 2 operations, 2 requests, retention 1, grace 3, skew 1, delay 1, time to 2; 2 drafts | of the server: `StartsOnce`, `RepliesTrue`, `ReceiptIsOfLastTimer`, `AnswersNameTheRequest`; of the client: `StartIsRemembered`, `StopsAreJournaled`, `IntervalsDraftedOnce`, `CliTypeOK` |
| `timer_skew` | 1 request, retention 7, grace 1 (the code's, in days), skew 2, time to 6 | finding 3 |
| `idempotency` | 2 payloads, 2 resource ids, 3 requests, retention 2, pending 3, grace 2, skew 1, delay 1, time to 4 | `CreatedOnce`, `RepliesTrue`, `ReplayableUntilDeadline`, `NotResurrected` |
| `webhook` | 1 interface, 2 events, 2 bodies, 3 workers, retention 2, grace 1, lease 1, skew 0, delay 1, time to 3, mapping changed once | `OneMeaning`, `NewestPrevails`, `AcceptedWasProcessed`, `ProcessedIsFinal` |
| `cli_recover_stop` | 1 operation, 1 process at a time, 1 draft | finding 5 |
| `migration` | 1 run, 2 calls at a time, 1 writer, four situations (below) | `WritersExcluded`, `JournalTrue`, `StatusTrue`, `CancelLeavesNothing`, `PauseIsSeen`, `VerifiedIsTrue`, and that it implements `MigratedEntries` (`KeepsPromise`) |
| `migration_recovery` | the same with `RecoveryErrors` | finding 4 |

Each passing run that has one also checks the module's `TypeOK`.

### Why the bounds are enough to be interesting

*Fence.* Two projects let a move leave one fence for another while either is deleted. Two requests are the
two sides of every race; a slot that is done is reused (`Retire`), so a behaviour serves any number
of requests one after another, crashed ones included, whose fences stay behind and age. `MaxWriters = 2`
lets two writers share a project; `MaxWriters = 1` makes the limit bite. With two processes and recovery a
live writer of one looks stale to the other, so `fence_multi` needs no crash for the case it is about;
crashes and late writes are those of `fence_single`.

*Task graph.* Two tasks suffice for a dependency, two names for a rename; a rename into the other
task's name is possible. Four requests, two at a time: one creates each task, two race.

*Timer.* Two operations: the one that is repeated and one that starts, prunes or takes over in between.
Two requests are enough for every compare-and-swap to lose. The history of two entries is never full
with two operations: its limit is a refusal and is not exercised by the run (the theorems hold for any
`MaxHistory`). The grace period is the smallest that `GraceCovers` allows; with one less the property
fails: without the grace period TLC finds an operation that starts twice. A browser's clock is right or off
by `Skew`, which are the cases that matter.

*Client.* `MCCliTimer` splits the behaviours of the `timer` run. Some have devices only, with time and with every
interleaving of the server's steps. The others have the client and a device; there time stands still
(the client's replay window is shorter than the server's, so its end is a refusal to replay), each transition of
the server runs at one go, for the first kind takes them apart, and a behaviour has two timers and one draft or
one timer and two drafts (`Small`). Two slots are two processes at once, or one and the request
of a killed one; processes may follow one another without a bound. Two timers let the second start, or be refused, while the
first is pending, and two drafts let two processes stop one timer.

*Date migration.* `MCBudgets` lists four situations: one entry with a fault and a user's edit; one with two faults
(the second hits the recovery from the first); one with a fault and a longer life of the lock (so that a run is
paused, recovered and taken up again); and two entries in batches of one, with none. A fault is a
call that fails, dies, loses an answer or loses its lease. `fence` bounds how often the lock is
taken: a run from preview to verified takes it three or four times, and one more for a restore. A user's edit
makes the dates canonical or keeps them. Two faults and an edit together, and two runs, are beyond the run: a
second run meets the first only through the lock, which two calls of one run contend for as well.

*Idempotency.* Three requests let one hold a reservation, a second recover it, and a third come after
the receipt has expired. Two resource ids let a second creation happen. Time reaches past the
retention, with grace at its tightest.

*Webhook.* Three workers: two attempts at one event, one of the other. Of the two bodies one completes and
the other revokes, and the second mapping turns them round. With one interface the clause of
`NewestPrevails` about another interface is met by `Enroll` only; the proof has no such restriction.
Each worker is used once, which is what makes the run finite.

Deadlock is checked wherever the system never comes to rest. In `idempotency` time is bounded, in
`webhook` workers are used once, and in the two migration runs the fence is bounded and a run that is
cancelled, or verified with no call left, is at rest; these say `CHECK_DEADLOCK FALSE`.

### Fairness

Only `FencesDrain` needs it: weak fairness of `Progress(r)` for each request, that is, a promise whose
call has been made settles and its continuation runs. Node.js and the driver give that as long as the
process lives, so `fence_multi` has `Failures = FALSE`. No request is assumed to arrive, no client to
repeat anything. Without failures no weaker assumption would do: a request that may stop for ever
keeps its reservation for ever. All other properties are safety properties and need none.

## Findings

1. `fence_stale_lock`: a project delete that stops after it took `lifecycleLock` leaves a lock that nothing
   clears. `docs/api-v2.md` speaks of recovering "a stale lifecycle fence" after a minimum age; the code
   recovers reservations and task locks only, and answers `untracked` once this lock exists
   (`projectChildFence.js:329`). The lock has no boot id that would allow more.
2. `task_default`: renaming the project's default task is refused by a check made before the reservation.
   Reservations do not exclude one another and `updateProject` takes none, so the task can become
   the default between check and write. The flag and the project's name for it disagree afterwards.
3. `timer_skew`: `setTimer` passes the browser's time as the clock by which started operations are kept and
   pruned. A browser two days ahead prunes an operation that may still be repeated, and the repeat
   starts a second timer. `GraceCovers` is exactly what is missing; with it, `StartsOnce` is a theorem.
4. `migration_recovery`: a batch that takes over another's intent starts from the status `failed`
   (`timecarddatemigrations/server/methods.js:1556`) and keeps it when it fails before its own write. The
   earlier call may have converted the entry before it died. The record is then neither applied nor an
   intent, so the run may be cancelled, although "Restore the applied records instead of cancelling" is what
   cancel asks for, and the entry keeps its converted dates.
5. `cli_recover_stop`: `recover-stop` is for a stop whose answer was lost (`docs/usage.md:283`). It repeats the
   journaled request with a snapshot that has the timer id only (`timer.py:1051`), but `timer_stop_snapshot`
   takes an answer for unknown unless its start time is that of the snapshot (`api.py:1806`). No answer to a
   recovery is ever accepted; the interval stays on the server's receipt until the next stop replaces
   it. The client's tests put a fake in place of `timer_stop_snapshot`. (Were the answer accepted, `IntervalsDraftedOnce`
   would need a second look: a stop that was sent and lost without effect, a fresh stop of the same timer, and
   the recovery of the first would be told of one interval twice, and only the last as `changed = false`.)

## What is proved

Each theorem is `ASSUME ... PROVE Spec => []Inv`, `Spec => [][A]_vars`, or that a specification implements
another, for any number of projects, requests, tasks, events, entries, runs and workers and any retention,
skew or delay that the module's `ASSUME` and the stated premise allow. Liveness stays with TLC.

**`ProjectChildFenceProofs`** (in every deployment: `TypeCorrect`, `FencesExclude`, `WritersBounded`,
`SuccessesAreStored`; with `SafeDeployment`: `Implements`, `ReservationsCover`, `NoJoins`, `NoOrphans`). The first
four rest on `StoredInv`: fence fields belong to stored projects and exclude one another, so a create that
finds its reservation when it gives it back has a stored and unlocked project, even where a recovery may take
reservations away early. `Implements` maps each step to a step of `ProjectChildren` or to a stutter: a
landing write joins a project that is there, a deletion removes one without children. `NoOrphan` is not
inductive: that a create finds its project stored when it lands depends on its reservation still being there,
which depends on no recovery having removed it. `IInv` adds that fence fields belong to stored projects (`FencesStored`), that a request is only in the
steps of its kind, that a project delete in flight holds the lock over an empty project
(`DeleteCovered`), and that what a recovery has found recoverable is a dead request's, with no write on the
way (`RecoverySettled`).

**`TaskGraphProofs`** (`TypeCorrect`, `DependenciesStay`, `RecordsGuarded`, `FlaggedStays`). The invariant
says who holds the fence at which step, what a writer has established about the dependencies it is about to
write (`Validated`: they are stored, and will be as long as its reservation excludes deletes), and what a
delete knows under its lock (`Inspected`: the facts it has read so far still hold, for whoever could change
them is kept out). That writers and the lock exclude each other (`LockExcludes`) is the counterpart of
`FencesExclude` of `ProjectChildFenceProofs`.

**`TimerTransitionsProofs`** (`TypeCorrect`, `RepliesAreTrue`, `ReceiptsLast`, `AnswersNamed`; with
`GraceCovers`: `StartedOnce`). Revisions grow with each write, so a snapshot names a moment: `SeenBefore` ties
what a request has read to a past or present profile, and `SessionsMatch` ties the profile to the
newest session. `StartedOnce` has an invariant of its own: an operation that ran is in the history, with an
entry that is kept until its window has closed for every clock within `Skew`, or that time is over
(`Remembers`); and if an operation that a start is about to write has run meanwhile, the revision has moved
on since the start read it, so that its swap will miss (`NotStartedSince`).

**`ApiIdempotencyProofs`** (all with `GraceCovers`: `TypeCorrect`, `OneCreation`, `RepliesAreTrue`, `Replayable`,
`StaysDeleted`). While the key may be used there is one reservation that all requests work on (`Single`,
`Owners`), a document under its id was made from its payload (`Documents`), and each answer is backed by
the completed receipt until its deadline (`Promised`). After that no request is left (`Timing`), and the
receipt may go.

**`WebhookReceiptsProofs`** (`TypeCorrect`, `AcceptedIsProcessed`, `ProcessedStaysProcessed`; with
`GraceCovers`: `EventsHaveOneMeaning`, `UserFollowsNewest`). A revision names one configuration
(`ConfigKnown`); a receipt is gone only before an event's first claim or after the last that may be made
(`Gone`, from `Timing`); hence the first claim fixes body, timestamp and action for good
(`EventKnown`); and the user's marker is that of an attempt, not older than any that reached it (`Ordered`).
The proof is in layers, each invariant under those before it, because the whole at once
is more than a reader or a solver can follow.

**`CliTimerProofs`** (`ServerUnchanged`, `CliTypeCorrect`, `StopsJournaled`, `DraftedOnce`; with `GraceCovers`:
`StartsRemembered`). `ServerUnchanged` is `CliSpec => Spec`: whatever the client's processes do, the server takes
steps of `TimerTransitions`, so each theorem about the timer holds of the composition. `LinkInv` ties a
process to the request in its slot and to its answer. On it rest `JournalInv` (a stop in a slot has its timer and
revision in a draft until that revision is over), `DraftedInv` (an interval is claimed by the one process whose
stop changed the profile, and then by one draft) and `RememberedInv`: a reserved operation id is in the pending
file unless its timer has been stopped, and one whose first attempt was refused has never started and has no
request left that could start it.

**`DateMigrationTypes`** (`TypeCorrect`, `WritersExclude`). Fences grow with each acquisition, so that a call whose
fence is the lock's is the only one (`FenceInv`), and as long as no lease has run out under its holder, one that
has been granted is still there (`LeaseInv`): the migration's lease is granted when no writer has one and a
writer's when no run has the data.

**`DateMigrationProofs`** (`StatusIsTrue`, `PauseSeen`, `VerifyIsTrue`; with `~RecoveryErrors`: `JournalIsTrue`, `CancelIsClean`,
`PromiseKept`).
The revision of an entry only grows, and each change of its dates raises it, so that dates that were
replaced never return and a compare-and-swap that has missed misses for ever. A run freezes an entry at one
revision (`FreezeInv`). From both follows the invariant about the journal (`JournalInv`): a write that can still
take effect, in a call or late, has its intent in the journal, and what a call is about to journal as done, or as a
conflict, is so, whoever else works on the record meanwhile. `StatusInv` says which statuses no record has
while its run has a given one, and follows that from the count that finds no open record to the stamp of the
phase. `CancelInv` follows a cancel from the lease it takes to the status it writes: while it holds the
data no batch works under a current fence, and what a stale one has sent misses (`Quiet`). `PromiseKept` maps
each step to a step of `MigratedEntries`: an entry changes by its user, by a conversion of an entry as it
was frozen, or by a restore of what was converted; a cancelled run converts nothing. `~RecoveryErrors` is what
finding 4 is about: without it `CancelLeavesNothing` is false. `PauseSeen` and `VerifyIsTrue` speak of behaviours
without a fault, and rest on `FaultlessInv`: a call that was granted the lease still has it and is alone with
it (a parked lease has none), a batch that has entered finds its run active or paused by a sweep, no write is
late, and a parked lease whose run has a requested pause has its own batch still to look at the request, or a
pause call that can still claim it. While a verify has the lease no writer has one, so what it compared stays so.

*Assumptions on constants*: the `ASSUME` of each module, which TLC evaluates on every run. Those made for the
proofs' sake are that there are finitely many time entries (a batch counts them) and that null values are no
members of the sets they stand beside.

*Only model-checked*: `FencesDrain` (liveness) and the five violations.

*Beyond the prover*: liveness and `ENABLED`; recursion over data, of which these modules have none.

## Hazards

`PROJECT.json` lists, line by line, what could go wrong in this code that a test would hardly reach, and the
properties that would notice. Two are deliberately left without a property: the default task is written in two
collections and nothing promises they agree, and a full history refuses starts, about which nothing is
promised either. The other two without one, the daily mail's reservation and the administrators' lease,
belong to components not modelled yet.

## Plan

In this order:

1. `CliTimer`: preparation, submission and reconciliation of drafts, against `ApiIdempotency`.
2. `WebhookReceipts`: removal of interfaces, the verification URL.
3. `AdminContinuity` (a lease that is not renewed; LDAP demotes outside it) and `DailyMail`.
4. A composition of `ApiIdempotency` with the fence: a creation undone by the fence, repeated by the
   client, is still one.

## Not modelled

Reads (publications, pages, exports, statistics) have no state to break. Rate limits and gates are
synchronous. Scripts, sign-in providers and integrations do what others write. Single-document
administration is one update behind a check. The browser's pages and the deployment scripts are outside the
server. Of the modelled components: authorisation, validation of input, logging and the wording of answers.

Of the date migration: how a legacy date is interpreted (a conversion is a step to the canonical dates),
the checksums that guard backups and the status `backup-invalid` they lead to, records that preview excludes,
progress counts, and a week's edit as one call (it is a repetition of single edits under one lease).
Of the client: pauses and resumption, legacy servers and timers without an id, the intent to
discard of a cancel (a draft that is finalised either way), owner binding, and everything after a draft is captured.
