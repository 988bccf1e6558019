---------------------------- MODULE ApiIdempotency ----------------------------
(***************************************************************************)
(* The receipt behind one Idempotency-Key: executeIdempotentCreate of      *)
(* src/server/apiIdempotency.js over createMongoIdempotencyStore, for the  *)
(* three create routes.  Receipts are keyed by user, operation and key, so *)
(* one receipt stands for all of them.                                     *)
(*                                                                         *)
(* Every await of the function is a step.  The create callback (the fenced *)
(* insert of a timecard, a task or a project) may throw before, after or   *)
(* instead of its insert, and take back what it inserted; its insert may   *)
(* land after the request is gone.  The receipt expires by a TTL index.    *)
(***************************************************************************)
EXTENDS Integers, FiniteSets

CONSTANTS
    Payloads,    \* request fingerprints
    Resources,   \* resource ids generateResourceId may return
    Requests,    \* request slots
    None,        \* absent document, refused answer
    Retention,         \* DEFAULT_RETENTION_SECONDS
    PendingRetention,  \* DEFAULT_PENDING_RETENTION_SECONDS
    Grace,       \* IDEMPOTENCY_EXPIRY_GRACE_SECONDS
    Skew,        \* how far the clock of a server is from the database's
    Delay,       \* how long a request may take
    MaxTime      \* bound on the clock

ASSUME IdempotencyAssumption ==
    /\ {Retention, PendingRetention, Grace, Skew, Delay, MaxTime} \subseteq Nat
    /\ Retention >= 1 /\ PendingRetention >= Retention /\ Grace >= 1
    /\ None \notin Int /\ None \notin Resources

VARIABLES
    clock,     \* time of the database
    receipt,   \* the document of ApiIdempotency, or None
    stored,    \* stored[i]: the created document under id i, or None
    inFlight,  \* inserts whose request is gone and that may still land
    pc,        \* pc[r]: where request r is
    req,       \* req[r]: what it asks for, and the reservation it works on
    reply,     \* reply[r]: what the last request of slot r was told, or None
    issued,    \* when the client first used the key, or None
    made,      \* history: every document that was ever created under the key
    promises   \* history: the result and the deadline of every answer

vars == <<clock, receipt, stored, inFlight, pc, req, reply, issued, made, promises>>

Creation == [resource: Resources, payload: Payloads]

Receipt ==
    [payload: Payloads, resource: Resources, status: {"reserved"}, expiresAt: Int]
        \union [payload: Payloads, resource: Resources, status: {"completed"},
                result: Resources, replayExpiresAt: Int, expiresAt: Int]

Document == [payload: Payloads, edited: BOOLEAN]

Request == [payload: Payloads, sentAt: Nat, resource: Resources \union {None}, owner: BOOLEAN]

Pcs == {"idle", "find", "guard", "refused", "reserve", "reread", "recover", "creating",
        "created", "failed", "complete", "confirm"}

\* Pcs from which a request works on a reservation.
Reserved == {"recover", "creating", "created", "failed", "complete", "confirm"}

Answered == [resource: Resources, payload: Payloads, replayed: BOOLEAN]

ASSUME NoneAssumption == None \notin Receipt \union Document

TypeOK ==
    /\ clock \in Nat
    /\ receipt \in Receipt \union {None}
    /\ stored \in [Resources -> Document \union {None}]
    /\ inFlight \subseteq Creation
    /\ pc \in [Requests -> Pcs]
    /\ req \in [Requests -> Request \union {None}]
    /\ \A r \in Requests : pc[r] # "idle" => req[r] \in Request
    /\ \A r \in Requests : pc[r] \in Reserved => req[r].resource \in Resources
    /\ reply \in [Requests -> Answered \union {None}]
    /\ issued \in Nat \union {None}
    /\ made \subseteq Creation
    /\ promises \subseteq [resource: Resources, until: Int]

Init ==
    /\ clock = 0
    /\ receipt = None
    /\ stored = [i \in Resources |-> None]
    /\ inFlight = {}
    /\ pc = [r \in Requests |-> "idle"]
    /\ req = [r \in Requests |-> None]
    /\ reply = [r \in Requests |-> None]
    /\ issued = None
    /\ made = {}
    /\ promises = {}

Goto(r, label) == pc' = [pc EXCEPT ![r] = label]

\* A request that ends in an error: nothing is promised.
Refuse(r) ==
    /\ Goto(r, "idle")
    /\ req' = [req EXCEPT ![r] = None]
    /\ UNCHANGED <<reply, promises>>

Tell(r, document, replayed) ==
    /\ Goto(r, "idle")
    /\ req' = [req EXCEPT ![r] = None]
    /\ reply' = [reply EXCEPT ![r] = [resource |-> document.result, payload |-> req[r].payload,
                                      replayed |-> replayed]]
    /\ promises' = promises \union {[resource |-> document.result,
                                     until |-> document.replayExpiresAt]}

\* The clock of the server that serves a request.
Now == (clock - Skew)..(clock + Skew)

------------------------------------------------------------------------------
\* The client uses its key with any payload, and only inside the replay window.
Send(r, payload) ==
    /\ pc[r] = "idle"
    /\ issued # None => clock < issued + Retention
    /\ issued' = IF issued = None THEN clock ELSE issued
    /\ Goto(r, "find")
    /\ req' = [req EXCEPT ![r] = [payload |-> payload, sentAt |-> clock,
                                  resource |-> None, owner |-> FALSE]]
    /\ reply' = [reply EXCEPT ![r] = None]
    /\ UNCHANGED <<clock, receipt, stored, inFlight, made, promises>>

\* No request takes longer than Delay.
Tick ==
    /\ clock < MaxTime
    /\ \A r \in Requests : pc[r] # "idle" => clock < req[r].sentAt + Delay
    /\ clock' = clock + 1
    /\ UNCHANGED <<receipt, stored, inFlight, pc, req, reply, issued, made, promises>>

\* The TTL index api_idempotency_expiry.
Expire ==
    /\ receipt # None
    /\ receipt.expiresAt <= clock
    /\ receipt' = None
    /\ UNCHANGED <<clock, stored, inFlight, pc, req, reply, issued, made, promises>>

\* The owner edits or deletes the created document by other routes.
Edit(i) ==
    /\ stored[i] # None /\ ~stored[i].edited
    /\ stored' = [stored EXCEPT ![i].edited = TRUE]
    /\ UNCHANGED <<clock, receipt, inFlight, pc, req, reply, issued, made, promises>>

Delete(i) ==
    /\ stored[i] # None
    /\ stored' = [stored EXCEPT ![i] = None]
    /\ UNCHANGED <<clock, receipt, inFlight, pc, req, reply, issued, made, promises>>

------------------------------------------------------------------------------
\* executeIdempotentCreate

\* Mutant of validateReservation: the fingerprint is not compared.
AcceptsAnyPayload(r) == receipt # None

validateReservation(r) == receipt # None /\ receipt.payload = req[r].payload

\* resumeReservation, for a request that did not insert the reservation it found.
Resume(r) ==
    \/ /\ ~validateReservation(r)
       /\ Refuse(r)
    \/ /\ validateReservation(r)
       /\ receipt.status = "completed"
       /\ Tell(r, receipt, TRUE)
    \/ /\ validateReservation(r)
       /\ receipt.status = "reserved"
       /\ Goto(r, "recover")
       /\ req' = [req EXCEPT ![r].resource = receipt.resource]
       /\ UNCHANGED <<reply, promises>>

Find(r) ==
    /\ pc[r] = "find"
    /\ IF receipt = None
       THEN Goto(r, "guard") /\ UNCHANGED <<req, reply, promises>>
       ELSE Resume(r)
    /\ UNCHANGED <<clock, receipt, stored, inFlight, issued, made>>

\* beforeCreate: access, rules, dependencies may allow the request or not.
Guard(r) ==
    /\ pc[r] = "guard"
    /\ Goto(r, "reserve") \/ Goto(r, "refused")
    /\ UNCHANGED <<clock, receipt, stored, inFlight, req, reply, issued, made, promises>>

\* The receipt is read again after a refusal, or a reservation that lost the race.
Reread(r) ==
    /\ pc[r] \in {"refused", "reread"}
    /\ Resume(r)
    /\ UNCHANGED <<clock, receipt, stored, inFlight, issued, made>>

\* Mutant of Candidate: the reservation expires with the replay window.
CandidateWithoutGrace(r, resource, now) ==
    [payload |-> req[r].payload, resource |-> resource, status |-> "reserved",
     expiresAt |-> now + Retention]

Candidate(r, resource, now) ==
    [payload |-> req[r].payload, resource |-> resource, status |-> "reserved",
     expiresAt |-> now + PendingRetention + Grace]

\* generateResourceId: random bytes, never an id that was used.
Fresh(resource) ==
    /\ \A c \in made \union inFlight : c.resource # resource
    /\ \A r \in Requests : pc[r] # "idle" => req[r].resource # resource
    /\ receipt # None => receipt.resource # resource

Reserve(r) ==
    /\ pc[r] = "reserve"
    /\ \/ /\ receipt = None
          /\ \E resource \in Resources, now \in Now :
                 /\ Fresh(resource)
                 /\ receipt' = Candidate(r, resource, now)
                 /\ req' = [req EXCEPT ![r].resource = resource, ![r].owner = TRUE]
          /\ Goto(r, "recover")
       \/ /\ receipt # None
          /\ Goto(r, "reread")
          /\ UNCHANGED <<receipt, req>>
    /\ UNCHANGED <<clock, stored, inFlight, reply, issued, made, promises>>

\* recoverCreatedDocument finds the document the request asks for.
Matches(r) == stored[req[r].resource] = [payload |-> req[r].payload, edited |-> FALSE]

\* Mutant of MayCreate: whoever finds the resource missing creates it.
AnyoneMayCreate(r) == TRUE

\* allowCreate
MayCreate(r) == req[r].owner

Recover(r) ==
    /\ pc[r] = "recover"
    /\ \/ /\ Matches(r)
          /\ Goto(r, "complete")
          /\ UNCHANGED <<req, reply, promises>>
       \/ /\ stored[req[r].resource] = None
          /\ MayCreate(r)
          /\ Goto(r, "creating")
          /\ UNCHANGED <<req, reply, promises>>
       \/ /\ ~Matches(r)
          /\ stored[req[r].resource] = None => ~MayCreate(r)
          /\ Refuse(r)
    /\ UNCHANGED <<clock, receipt, stored, inFlight, issued, made>>

\* insertDocumentWithId: a document that is already there is recovered.
InsertWithId(creation) ==
    LET i == creation.resource
    IN  /\ stored' = [stored EXCEPT ![i] = IF @ = None
                                           THEN [payload |-> creation.payload, edited |-> FALSE]
                                           ELSE @]
        /\ made' = IF stored[i] = None THEN made \union {creation} ELSE made

Wanted(r) == [resource |-> req[r].resource, payload |-> req[r].payload]

Create(r) ==
    /\ pc[r] = "creating"
    /\ InsertWithId(Wanted(r))
    /\ Goto(r, IF stored[req[r].resource] = None \/ Matches(r) THEN "created" ELSE "failed")
    /\ UNCHANGED <<clock, receipt, inFlight, req, reply, issued, promises>>

\* create throws: without a write, with its write under way, after its write, or
\* after its write was taken back (removeCreatedChild).
CreateThrows(r) ==
    /\ Goto(r, "failed")
    /\ \/ /\ pc[r] = "creating"
          /\ inFlight' \in {inFlight, inFlight \union {Wanted(r)}}
          /\ UNCHANGED stored
       \/ /\ pc[r] = "created"
          /\ stored' \in {stored, [stored EXCEPT ![req[r].resource] = None]}
          /\ UNCHANGED inFlight
    /\ UNCHANGED <<clock, receipt, req, reply, issued, made, promises>>

CreateReturns(r) ==
    /\ pc[r] = "created"
    /\ Goto(r, "complete")
    /\ UNCHANGED <<clock, receipt, stored, inFlight, req, reply, issued, made, promises>>

RecoverFailed(r) ==
    /\ pc[r] = "failed"
    /\ \/ /\ Matches(r)
          /\ Goto(r, "complete")
          /\ UNCHANGED <<req, reply, promises>>
       \/ /\ ~Matches(r)
          /\ Refuse(r)
    /\ UNCHANGED <<clock, receipt, stored, inFlight, issued, made>>

\* Mutants of Completed: without the result, without the grace period.
CompletedWithoutResult(r, now) ==
    [payload |-> receipt.payload, resource |-> receipt.resource, status |-> "completed",
     result |-> None, replayExpiresAt |-> now + Retention,
     expiresAt |-> now + Retention + Grace]

CompletedWithoutGrace(r, now) ==
    [payload |-> receipt.payload, resource |-> receipt.resource, status |-> "completed",
     result |-> req[r].resource, replayExpiresAt |-> now + Retention,
     expiresAt |-> now + Retention]

Completed(r, now) ==
    [payload |-> receipt.payload, resource |-> receipt.resource, status |-> "completed",
     result |-> req[r].resource, replayExpiresAt |-> now + Retention,
     expiresAt |-> now + Retention + Grace]

\* store.complete, by fingerprint and status.
Complete(r) ==
    /\ pc[r] = "complete"
    /\ \/ /\ validateReservation(r) /\ receipt.status = "reserved"
          /\ \E now \in Now : receipt' = Completed(r, now)
          /\ Tell(r, receipt', ~req[r].owner)
       \/ /\ ~(validateReservation(r) /\ receipt.status = "reserved")
          /\ Goto(r, "confirm")
          /\ UNCHANGED <<receipt, req, reply, promises>>
    /\ UNCHANGED <<clock, stored, inFlight, issued, made>>

\* The swap failed: another request has completed the receipt, or it is gone.
Confirm(r) ==
    /\ pc[r] = "confirm"
    /\ IF validateReservation(r) /\ receipt.status = "completed"
       THEN Tell(r, receipt, ~req[r].owner)
       ELSE Refuse(r)
    /\ UNCHANGED <<clock, receipt, stored, inFlight, issued, made>>

\* The process dies, or a call to the database throws.
Crash(r) ==
    /\ pc[r] # "idle"
    /\ inFlight' \in {inFlight, inFlight \union {c \in {Wanted(r)} : pc[r] = "creating"}}
    /\ Refuse(r)
    /\ UNCHANGED <<clock, receipt, stored, issued, made>>

LateInsert(creation) ==
    /\ creation \in inFlight
    /\ inFlight' = inFlight \ {creation}
    /\ InsertWithId(creation)
    /\ UNCHANGED <<clock, receipt, pc, req, reply, issued, promises>>

Progress(r) ==
    \/ Find(r)
    \/ Guard(r)
    \/ Reread(r)
    \/ Reserve(r)
    \/ Recover(r)
    \/ Create(r)
    \/ CreateThrows(r)
    \/ CreateReturns(r)
    \/ RecoverFailed(r)
    \/ Complete(r)
    \/ Confirm(r)
    \/ Crash(r)

Next ==
    \/ Tick
    \/ Expire
    \/ \E i \in Resources : Edit(i) \/ Delete(i)
    \/ \E creation \in inFlight : LateInsert(creation)
    \/ \E r \in Requests : Progress(r) \/ \E payload \in Payloads : Send(r, payload)

Spec == Init /\ [][Next]_vars

------------------------------------------------------------------------------
\* However often a create is repeated inside the replay window, with failures,
\* late inserts and an expired receipt in between, one document is created
\* ("recovers the preallocated resource instead of creating another").
CreatedOnce == \A c, d \in made : c = d

\* A client is told only of a document that was created from its own request:
\* the key with another payload never returns what the first one made.
RepliesTrue ==
    \A r \in Requests :
        reply[r] # None => [resource |-> reply[r].resource,
                            payload |-> reply[r].payload] \in made

\* A result that a client was told stays replayable to the deadline it was told.
ReplayableUntilDeadline ==
    \A promise \in promises :
        clock <= promise.until =>
            /\ receipt # None
            /\ receipt.status = "completed"
            /\ receipt.result = promise.resource

\* A created document that was deleted is not created again by a repeat.
NotResurrected ==
    [][\A c \in made : stored[c.resource] = None => stored'[c.resource] = None]_vars

\* The grace period outlasts the clock error and the longest request.
GraceCovers == Grace >= Skew + Delay
==============================================================================
