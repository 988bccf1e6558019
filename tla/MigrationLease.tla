--------------------------- MODULE MigrationLease ---------------------------
(***************************************************************************)
(* The lock document 'timecard-date-migration' and its atomic updates.  A  *)
(* migration run owns it for one operation; between two batches the run    *)
(* keeps it parked (owner set, not busy); ordinary time entry writes       *)
(* register in activeWriters while no run owns it.  Every acquisition      *)
(* raises the fence.  Expiry is judged by the database's clock at any      *)
(* moment: live says whether leaseUntil is still ahead, writers holds the  *)
(* tokens whose own lease is.                                              *)
(***************************************************************************)
EXTENDS Naturals

CONSTANTS
    Runs,       \* migration runs
    Writers,    \* tokens of time entry writers
    None        \* no owner

VARIABLE lock

Operations == {"freeze", "apply", "restore", "resume", "cancel", "verify"}

Lock == [owner: Runs \union {None}, operation: Operations \union {"none"},
         busy: BOOLEAN, live: BOOLEAN, fence: Nat, writers: SUBSET Writers]

ensureLockDocument == [owner |-> None, operation |-> "none", busy |-> FALSE,
                       live |-> FALSE, fence |-> 0, writers |-> {}]

\* No run owns the data: time entries may be written.
migrationLeaseIsAvailable == lock.owner = None \/ ~lock.live

OwnsParked(r, op) == lock.owner = r /\ lock.operation \in op /\ ~lock.busy

\* Mutant of CanAcquire: the writers under way are overlooked.
AcquireOverWriters(r) == ~lock.live \/ OwnsParked(r, Operations)

CanAcquire(r) == lock.writers = {} /\ (~lock.live \/ OwnsParked(r, Operations))

\* claimPauseLease without an expected fence, and with one.
CanClaimPause(r, op) == lock.writers = {} /\ (~lock.live \/ OwnsParked(r, {op}))
CanClaimParked(r, op, fence) ==
    lock.writers = {} /\ OwnsParked(r, {op}) /\ lock.fence = fence

TakeLease(r, op) ==
    lock' = [owner |-> r, operation |-> op, busy |-> TRUE, live |-> TRUE,
             fence |-> lock.fence + 1, writers |-> {}]

\* The selector of renewLease; parkLease's is the same but for the operation.
Holds(r, fence) == lock.owner = r /\ lock.fence = fence /\ lock.busy /\ lock.live

renewLease(r, fence, op) == Holds(r, fence) /\ lock.operation = op

ParkLease == lock' = [lock EXCEPT !.busy = FALSE]

\* releaseLease does nothing to a lock that another acquisition has fenced.
releaseLease(r, fence) ==
    lock' = IF lock.owner = r /\ lock.fence = fence
            THEN [lock EXCEPT !.owner = None, !.operation = "none",
                              !.busy = FALSE, !.live = FALSE]
            ELSE lock

ClearExpired ==
    lock' = IF lock.live THEN lock
            ELSE [lock EXCEPT !.owner = None, !.operation = "none", !.busy = FALSE]

\* assertTimecardDateMigrationUnlocked, the check before a writer lease is asked for.
Unlocked == ~(lock.operation \in {"freeze", "apply", "restore"} /\ lock.live)

AcquireWriterLease(u) ==
    /\ migrationLeaseIsAvailable
    /\ lock' = [lock EXCEPT !.writers = @ \union {u}, !.fence = @ + 1]

renewTimecardDateWriteLease(u) == migrationLeaseIsAvailable /\ u \in lock.writers

ReleaseWriterLease(u) == lock' = [lock EXCEPT !.writers = @ \ {u}]

ExpireLease == /\ lock.live
               /\ lock' = [lock EXCEPT !.live = FALSE]

ExpireWriter(u) == /\ u \in lock.writers
                   /\ lock' = [lock EXCEPT !.writers = @ \ {u}]

LeaseTypeOK == lock \in Lock
=============================================================================
