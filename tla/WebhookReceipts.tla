---------------------------- MODULE WebhookReceipts ----------------------------
(***************************************************************************)
(* The signed webhook that verifies an action of a user: the handler of    *)
(* server/webhookVerificationRoute.js over the receipt store of            *)
(* imports/api/webhookreceipts/server/store.js.                            *)
(*                                                                         *)
(* A provider delivers an event, repeats it when it does not hear of it    *)
(* for as long as the replay window lasts, and signs every delivery afresh.*)
(* A worker claims the receipt of the event under a lease, applies the     *)
(* event to the user and completes the receipt.  Workers may be slower     *)
(* than their lease, fail at every await, and leave a write on its way;    *)
(* an administrator may change the mapping meanwhile.  The model follows   *)
(* one user; an event that names another one is one without an action.     *)
(***************************************************************************)
EXTENDS Integers, FiniteSets

CONSTANTS
    Interfaces,      \* webhook interfaces
    EventIds,        \* event ids, in their order
    Payloads,        \* bodies, by their digest
    Configurations,  \* what an administrator may save
    Initial,         \* the configuration an interface starts with
    Deliveries,      \* what providers send: events with their bodies
    Timestamps,      \* when they sign it
    Requests,        \* arrivals of deliveries; an arrival is its own lease token
    None,            \* absent field
    Retention,       \* RECEIPT_RETENTION_MS
    Grace,           \* RECEIPT_EXPIRY_GRACE_MS
    Lease,           \* PROCESSING_LEASE_MS
    MaxTimestampSkew,  \* MAX_TIMESTAMP_SKEW_SECONDS
    Skew,            \* how far the clock of a server is from the database's
    Delay,           \* how long a request may take to claim its receipt
    MaxTime,         \* bound on the clock
    MaxRevision      \* bound on configurationRevision

\* The rules of an interface say what a body asks for.
Configuration == [rules: [Payloads -> {"complete", "revoke", None}], verificationPeriod: Nat]

Event == [interfaceId: Interfaces, eventId: EventIds]

\* One way to apply one event: what applyResult is called with.
Attempt == [event: Event, payload: Payloads, eventTimestamp: Int, revision: Nat,
            action: {"complete", "revoke"}, verificationPeriod: Nat]

\* actionVerification.webhookEvent{InterfaceId,Timestamp,Id}
Marker == [event: Event, timestamp: Int]

Delivery == [event: Event, payload: Payloads]

\* createdAt, updatedAt, completedAt, outcome and errorCode say nothing here.
Receipt ==
    [payload: Payloads, eventTimestamp: Int, configurationRevision: Nat,
     status: {"pending"}, leaseToken: Requests, leaseUntil: Int, expiresAt: Int]
        \union [payload: Payloads, eventTimestamp: Int, configurationRevision: Nat,
                status: {"failed", "processed"}, expiresAt: Int]

ASSUME WebhookAssumption ==
    /\ {Retention, Grace, Lease, MaxTimestampSkew, Skew, Delay, MaxTime, MaxRevision} \subseteq Nat
    /\ Retention > 0
    /\ EventIds \subseteq Nat
    /\ Configurations \subseteq Configuration /\ Initial \in Configuration
    /\ Deliveries \subseteq Delivery
    /\ Timestamps \subseteq Int
    /\ None \notin Int \union Interfaces \union {"complete", "revoke"}
    /\ None \notin Receipt \union Marker

VARIABLES
    clock,       \* time of the database
    interface,   \* interface[i]: its document
    user,        \* the actionVerification of the user
    receipts,    \* receipts[e]: the document of WebhookReceipts, or None
    pc,          \* pc[r]: where request r is
    req,         \* req[r]: what it brings, and what it has read
    inFlight,    \* applications whose request is gone and that may still land
    issued,      \* issued[e]: when event e was first delivered, or None
    attempts,    \* history: every application that was started
    settled,     \* history: those that reached the user since the last enrolment
    processed,   \* history: the events that were completed, with their bodies
    accepted     \* history: the deliveries that were answered 202

vars == <<clock, interface, user, receipts, pc, req, inFlight, issued,
          attempts, settled, processed, accepted>>

Interface == [configuration: Configuration, configurationRevision: Nat]

ActionVerification == [webhookInterfaceId: Interfaces \union {None}, completed: BOOLEAN,
                       deadline: Int \union {None}, webhookEvent: Marker \union {None}]

Request == [event: Event, payload: Payloads, timestamp: Int, sentAt: Nat,
            interface: Interface, now: Int,
            existing: Receipt \union {None}]

\* Pcs of a request that has not claimed its receipt yet, and of one that has.
Claiming == {"claim", "existing", "touch", "reclaim"}
Working == {"apply", "complete", "fail"}

TypeOK ==
    /\ clock \in Nat
    /\ interface \in [Interfaces -> Interface]
    /\ user \in ActionVerification
    /\ receipts \in [Event -> Receipt \union {None}]
    /\ pc \in [Requests -> {"unsent", "done"} \union Claiming \union Working]
    /\ req \in [Requests -> Request \union {None}]
    /\ \A r \in Requests : pc[r] \notin {"unsent", "done"} => req[r] \in Request
    /\ \A r \in Requests : pc[r] \in {"touch", "reclaim"} => req[r].existing \in Receipt
    /\ inFlight \subseteq attempts
    /\ issued \in [Event -> Nat \union {None}]
    /\ attempts \subseteq Attempt
    /\ settled \subseteq attempts
    /\ processed \subseteq Delivery
    /\ accepted \subseteq Delivery

Init ==
    /\ clock = 0
    /\ interface = [i \in Interfaces |-> [configuration |-> Initial, configurationRevision |-> 0]]
    /\ user \in [webhookInterfaceId: Interfaces, completed: {FALSE}, deadline: {None},
                 webhookEvent: {None}]
    /\ receipts = [e \in Event |-> None]
    /\ pc = [r \in Requests |-> "unsent"]
    /\ req = [r \in Requests |-> None]
    /\ inFlight = {}
    /\ issued = [e \in Event |-> None]
    /\ attempts = {}
    /\ settled = {}
    /\ processed = {}
    /\ accepted = {}

Goto(r, label) == pc' = [pc EXCEPT ![r] = label]

\* The request ends: with an error, or with an answer its client may miss.
Leave(r) ==
    /\ Goto(r, "done")
    /\ req' = [req EXCEPT ![r] = None]

DeliveryOf(r) == [event |-> req[r].event, payload |-> req[r].payload]

Answer202(r) ==
    /\ Leave(r)
    /\ accepted' = accepted \union {DeliveryOf(r)}

\* The clock of the server that serves a request.
Now == (clock - Skew)..(clock + Skew)

------------------------------------------------------------------------------
Tick ==
    /\ clock < MaxTime
    /\ \A r \in Requests : pc[r] \in Claiming => clock < req[r].sentAt + Delay
    /\ clock' = clock + 1
    /\ UNCHANGED <<interface, user, receipts, pc, req, inFlight, issued,
                   attempts, settled, processed, accepted>>

\* The TTL index webhook_receipt_expiry.
Expire(event) ==
    /\ receipts[event] # None
    /\ receipts[event].expiresAt <= clock
    /\ receipts' = [receipts EXCEPT ![event] = None]
    /\ UNCHANGED <<clock, interface, user, pc, req, inFlight, issued,
                   attempts, settled, processed, accepted>>

\* Mutant of Configured: a saved change keeps the revision.
ConfiguredWithoutRevision(i, configuration) ==
    [configuration |-> configuration,
     configurationRevision |-> interface[i].configurationRevision]

Configured(i, configuration) ==
    [configuration |-> configuration,
     configurationRevision |-> interface[i].configurationRevision + 1]

\* webhookverification.update, guarded by the revision the administrator read.
Configure(i, configuration) ==
    /\ interface[i].configurationRevision < MaxRevision
    /\ interface' = [interface EXCEPT ![i] = Configured(i, configuration)]
    /\ UNCHANGED <<clock, user, receipts, pc, req, inFlight, issued,
                   attempts, settled, processed, accepted>>

\* updateProfile of a user without an e-mail address: it is enrolled
\* anew, with a deadline of its own, and keeps the event it carries.
Enroll(i) ==
    /\ user' = [user EXCEPT !.webhookInterfaceId = i, !.completed = FALSE, !.deadline = None]
    /\ settled' = {}
    /\ UNCHANGED <<clock, interface, receipts, pc, req, inFlight, issued,
                   attempts, processed, accepted>>

------------------------------------------------------------------------------
\* The handler

\* A delivery arrives inside the replay window that the first one opened.  The
\* interface is read, the signature and its timestamp are verified, and the claim
\* takes its time and its token, with no await after the read.  A delivery that
\* is refused (no active interface, not authentic, not JSON) does nothing.
Deliver(r, event, payload, timestamp) ==
    /\ pc[r] = "unsent"
    /\ [event |-> event, payload |-> payload] \in Deliveries
    /\ issued[event] # None => clock < issued[event] + Retention
    /\ issued' = [issued EXCEPT ![event] = IF @ = None THEN clock ELSE @]
    /\ \E now \in Now :
           /\ timestamp \in now - MaxTimestampSkew..now + MaxTimestampSkew
           /\ req' = [req EXCEPT ![r] =
                  [event |-> event, payload |-> payload, timestamp |-> timestamp,
                   interface |-> interface[event.interfaceId], sentAt |-> clock,
                   now |-> now, existing |-> None]]
    /\ Goto(r, "claim")
    /\ UNCHANGED <<clock, interface, user, receipts, inFlight,
                   attempts, settled, processed, accepted>>

\* Mutant of Claimed: the worker does not learn the timestamp of the receipt.
ClaimedWithoutTimestamp(r, timestamp) ==
    [req EXCEPT ![r].timestamp = None, ![r].sentAt = 0, ![r].now = 0, ![r].existing = None]

\* A worker that has its claim applies the event at this timestamp, and needs
\* nothing else it has read but the interface.
Claimed(r, timestamp) ==
    [req EXCEPT ![r] = [event |-> req[r].event, payload |-> req[r].payload,
                        timestamp |-> timestamp, interface |-> req[r].interface,
                        sentAt |-> 0, now |-> 0, existing |-> None]]

receiptExpiry(now) == now + Retention + Grace

\* claim: the receipt of a first delivery.
Insert(r) ==
    LET event == req[r].event
    IN  /\ pc[r] = "claim"
        /\ IF receipts[event] = None
           THEN /\ receipts' = [receipts EXCEPT ![event] =
                                   [payload |-> req[r].payload,
                                    eventTimestamp |-> req[r].timestamp,
                                    configurationRevision |->
                                        req[r].interface.configurationRevision,
                                    status |-> "pending",
                                    leaseToken |-> r,
                                    leaseUntil |-> req[r].now + Lease,
                                    expiresAt |-> receiptExpiry(req[r].now)]]
                /\ req' = Claimed(r, req[r].timestamp)
                /\ Goto(r, "apply")
           ELSE Goto(r, "existing") /\ UNCHANGED <<receipts, req>>
        /\ UNCHANGED <<clock, interface, user, inFlight, issued,
                       attempts, settled, processed, accepted>>

\* Mutant of sameSignedEvent: the digest is not compared.
SameEventId(r, existing) == TRUE

sameSignedEvent(r, existing) == existing.payload = req[r].payload

\* claim: what the receipt of an earlier delivery says.
FindExisting(r) ==
    LET existing == receipts[req[r].event]
    IN  /\ pc[r] = "existing"
        /\ \/ /\ \/ existing = None
                 \/ ~sameSignedEvent(r, existing)
                 \/ /\ existing.status # "processed"
                    /\ existing.configurationRevision # req[r].interface.configurationRevision
              /\ Leave(r)
           \/ /\ existing # None
              /\ sameSignedEvent(r, existing)
              /\ existing.status # "processed" =>
                     existing.configurationRevision = req[r].interface.configurationRevision
              /\ Goto(r, IF \/ existing.status = "processed"
                            \/ existing.status = "pending" /\ existing.leaseUntil > req[r].now
                         THEN "touch" ELSE "reclaim")
              /\ req' = [req EXCEPT ![r].existing = existing]
        /\ UNCHANGED <<clock, interface, user, receipts, inFlight, issued,
                       attempts, settled, processed, accepted>>

\* $max
Later(a, b) == IF a <= b THEN b ELSE a

\* The receipt of a delivery still holds what FindExisting read.
Unchanged(r) ==
    LET current  == receipts[req[r].event]
        existing == req[r].existing
    IN  /\ current # None
        /\ current.payload = existing.payload
        /\ current.eventTimestamp = existing.eventTimestamp
        /\ current.status = existing.status
        /\ current.status = "pending" => current.leaseToken = existing.leaseToken

\* claim: a processed or leased receipt is kept longer, and answered for.
Touch(r) ==
    LET event == req[r].event
    IN  /\ pc[r] = "touch"
        /\ receipts' = IF Unchanged(r)
                       THEN [receipts EXCEPT ![event].expiresAt =
                                Later(@, receiptExpiry(req[r].now))]
                       ELSE receipts
        /\ \/ Leave(r) /\ UNCHANGED accepted
           \/ req[r].existing.status = "processed" /\ Answer202(r)
        /\ UNCHANGED <<clock, interface, user, inFlight, issued,
                       attempts, settled, processed>>

\* The receipt may be claimed again.
Reclaimable(r) ==
    LET current == receipts[req[r].event]
    IN  /\ current # None
        /\ current.payload = req[r].existing.payload
        /\ current.eventTimestamp = req[r].existing.eventTimestamp
        /\ \/ current.status = "failed"
           \/ current.status = "pending" /\ current.leaseUntil <= req[r].now

\* claim: a failed or abandoned receipt gets a new lease, and the event keeps the
\* timestamp of its first delivery.
Reclaim(r) ==
    LET event   == req[r].event
        current == receipts[event]
    IN  /\ pc[r] = "reclaim"
        /\ \/ /\ Reclaimable(r)
              /\ receipts' = [receipts EXCEPT ![event] =
                                 [payload |-> current.payload,
                                  eventTimestamp |-> current.eventTimestamp,
                                  configurationRevision |-> current.configurationRevision,
                                  status |-> "pending",
                                  leaseToken |-> r,
                                  leaseUntil |-> req[r].now + Lease,
                                  expiresAt |-> receiptExpiry(req[r].now)]]
              /\ req' = Claimed(r, req[r].existing.eventTimestamp)
              /\ Goto(r, "apply")
           \/ /\ ~Reclaimable(r)
              /\ Leave(r)
              /\ UNCHANGED receipts
        /\ UNCHANGED <<clock, interface, user, inFlight, issued,
                       attempts, settled, processed, accepted>>

------------------------------------------------------------------------------
\* applyResult

\* mapWebhookPayload
ActionOf(r) == req[r].interface.configuration.rules[req[r].payload]

Wanted(r) ==
    [event |-> req[r].event, payload |-> req[r].payload,
     eventTimestamp |-> req[r].timestamp,
     revision |-> req[r].interface.configurationRevision,
     action |-> ActionOf(r),
     verificationPeriod |-> req[r].interface.configuration.verificationPeriod]

\* Mutant of webhookEventOrderSelector: the last writer wins.
AnyOrder(a) == TRUE

\* The event does not precede the one the user carries.
webhookEventOrderSelector(a) ==
    LET marker == user.webhookEvent
    IN  \/ marker = None
        \/ marker.event.interfaceId # a.event.interfaceId
        \/ marker.timestamp < a.eventTimestamp
        \/ /\ marker.timestamp = a.eventTimestamp
           /\ marker.event.eventId <= a.event.eventId

applyResult(a) ==
    LET marker == [event |-> a.event, timestamp |-> a.eventTimestamp]
    IN  /\ user' = IF /\ user.webhookInterfaceId = a.event.interfaceId
                      /\ webhookEventOrderSelector(a)
                   THEN IF a.action = "complete"
                        THEN [user EXCEPT !.completed = TRUE, !.webhookEvent = marker]
                        ELSE [user EXCEPT !.completed = FALSE, !.webhookEvent = marker,
                                          !.deadline = a.eventTimestamp + a.verificationPeriod]
                   ELSE user
        /\ settled' = IF user.webhookInterfaceId = a.event.interfaceId
                      THEN settled \union {a} ELSE settled

Apply(r) ==
    /\ pc[r] = "apply"
    /\ IF ActionOf(r) = None
       THEN UNCHANGED <<user, attempts, settled>>
       ELSE applyResult(Wanted(r)) /\ attempts' = attempts \union {Wanted(r)}
    /\ Goto(r, "complete")
    /\ UNCHANGED <<clock, interface, receipts, req, inFlight, issued, processed, accepted>>

\* The update throws, and may still land.
ApplyThrows(r) ==
    /\ pc[r] = "apply"
    /\ ActionOf(r) # None
    /\ attempts' = attempts \union {Wanted(r)}
    /\ inFlight' \in {inFlight, inFlight \union {Wanted(r)}}
    /\ Goto(r, "fail")
    /\ UNCHANGED <<clock, interface, user, receipts, req, issued,
                   settled, processed, accepted>>

LateApply(a) ==
    /\ a \in inFlight
    /\ inFlight' = inFlight \ {a}
    /\ applyResult(a)
    /\ UNCHANGED <<clock, interface, receipts, pc, req, issued,
                   attempts, processed, accepted>>

------------------------------------------------------------------------------
\* complete and fail

\* Mutant of HoldsLease: the lease token is not compared.
AnyLease(r) == receipts[req[r].event] # None

HoldsLease(r) ==
    LET current == receipts[req[r].event]
    IN  current # None /\ current.status = "pending" /\ current.leaseToken = r

\* The receipt leaves the lease; its expiry is put off.
Ended(r, status, now) ==
    LET current == receipts[req[r].event]
    IN  [payload |-> current.payload, eventTimestamp |-> current.eventTimestamp,
         configurationRevision |-> current.configurationRevision, status |-> status,
         expiresAt |-> Later(current.expiresAt, receiptExpiry(now))]

Complete(r) ==
    /\ pc[r] = "complete"
    /\ \/ /\ HoldsLease(r)
          /\ \E now \in Now :
                 receipts' = [receipts EXCEPT ![req[r].event] = Ended(r, "processed", now)]
          /\ processed' = processed \union {DeliveryOf(r)}
          /\ Answer202(r) \/ (Leave(r) /\ UNCHANGED accepted)
       \/ /\ Goto(r, "fail")   \* the lease was lost, or the update throws
          /\ UNCHANGED <<receipts, req, processed, accepted>>
    /\ UNCHANGED <<clock, interface, user, inFlight, issued, attempts, settled>>

Fail(r) ==
    /\ pc[r] = "fail"
    /\ IF HoldsLease(r)
       THEN \E now \in Now :
                receipts' = [receipts EXCEPT ![req[r].event] = Ended(r, "failed", now)]
       ELSE UNCHANGED receipts
    /\ Leave(r)
    /\ UNCHANGED <<clock, interface, user, inFlight, issued,
                   attempts, settled, processed, accepted>>

\* The process dies, or the failure could not be recorded.
Crash(r) ==
    /\ pc[r] \notin {"unsent", "done"}
    /\ Leave(r)
    /\ UNCHANGED <<clock, interface, user, receipts, inFlight, issued,
                   attempts, settled, processed, accepted>>

Progress(r) ==
    \/ Insert(r)
    \/ FindExisting(r)
    \/ Touch(r)
    \/ Reclaim(r)
    \/ Apply(r)
    \/ ApplyThrows(r)
    \/ Complete(r)
    \/ Fail(r)
    \/ Crash(r)

Next ==
    \/ Tick
    \/ \E event \in Event : Expire(event)
    \/ \E i \in Interfaces :
           \/ Enroll(i)
           \/ \E configuration \in Configurations : Configure(i, configuration)
    \/ \E a \in inFlight : LateApply(a)
    \/ \E r \in Requests :
           \/ Progress(r)
           \/ \E event \in Event, payload \in Payloads, timestamp \in Timestamps :
                  Deliver(r, event, payload, timestamp)

Spec == Init /\ [][Next]_vars

------------------------------------------------------------------------------
\* An event has one meaning: whatever is delivered under its id, by whichever
\* worker and after whatever change of the mapping, it is only ever applied with
\* one body, one action and one timestamp ("configuration change after a failed
\* attempt cannot remap the same event body").
OneMeaning == \A a, b \in attempts : a.event = b.event => a = b

Precedes(a, b) ==
    \/ a.eventTimestamp < b.timestamp
    \/ a.eventTimestamp = b.timestamp /\ a.event.eventId <= b.event.eventId

\* The user carries the newest event that reached it since it was enrolled, in
\* the state that event asks for, in whatever order slow workers, repeats and
\* late writes applied them ("converges on the newest signed event").
NewestPrevails ==
    \A a \in settled :
        /\ user.webhookEvent # None
        /\ user.webhookEvent.event.interfaceId = user.webhookInterfaceId
        /\ Precedes(a, user.webhookEvent)
        /\ user.webhookEvent.event = a.event =>
               /\ user.completed = (a.action = "complete")
               /\ a.action = "revoke" =>
                      user.deadline = a.eventTimestamp + a.verificationPeriod

\* A delivery is answered 202 only when that very body has been processed.
AcceptedWasProcessed == accepted \subseteq processed

StaysProcessed(event) ==
    receipts[event] # None /\ receipts[event].status = "processed" =>
        \/ receipts'[event] = None
        \/ /\ receipts'[event].status = "processed"
           /\ receipts'[event].payload = receipts[event].payload
           /\ receipts'[event].eventTimestamp = receipts[event].eventTimestamp

\* A processed event stays so until its receipt expires: a worker that lost its
\* lease neither fails nor restarts it.
ProcessedIsFinal == [][\A event \in Event : StaysProcessed(event)]_vars

\* The grace period outlasts the clock error and the longest claim.
GraceCovers == Grace >= Skew + Delay
==============================================================================
