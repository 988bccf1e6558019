------------------------- MODULE WebhookReceiptsProofs -------------------------
(***************************************************************************)
(* Proofs about WebhookReceipts.  Base holds as it stands: a lease belongs *)
(* to one worker, who has the body of the receipt, and what is processed   *)
(* or accepted follows from it.  Under GraceCovers, Bound adds the         *)
(* meaning of an event: while it can be claimed its receipt has not        *)
(* expired (Timing), so there is one body, one timestamp and one revision  *)
(* of the mapping that everything about the event agrees with (Agreement), *)
(* and the order in which applications land does not matter (Order).       *)
(***************************************************************************)
EXTENDS WebhookReceipts, TLAPS

\* Requests that work on a receipt they have seen or claimed.
Holding == {"touch", "reclaim"} \union Working

Leases ==
    \A e \in Event :
        receipts[e] # None /\ receipts[e].status = "pending" =>
            /\ pc[receipts[e].leaseToken] \in Working \union {"done"}
            /\ pc[receipts[e].leaseToken] \in Working =>
                   /\ req[receipts[e].leaseToken].event = e
                   /\ req[receipts[e].leaseToken].payload = receipts[e].payload

Answers ==
    /\ AcceptedWasProcessed
    /\ \A e \in Event :
           receipts[e] # None /\ receipts[e].status = "processed" =>
               [event |-> e, payload |-> receipts[e].payload] \in processed
    /\ \A r \in Requests :
           pc[r] \in {"touch", "reclaim"} => req[r].existing.payload = req[r].payload
    /\ \A r \in Requests :
           pc[r] = "touch" /\ req[r].existing.status = "processed" => DeliveryOf(r) \in processed

Base == TypeOK /\ Leases /\ Answers

Pcs == {"unsent", "done"} \union Claiming \union Working

\* The end of a request, and the step to another label, in TypeOK.
LEMMA LeaveTypes ==
    ASSUME TypeOK, NEW r \in Requests, Leave(r)
    PROVE  /\ pc' \in [Requests -> Pcs] /\ req' \in [Requests -> Request \union {None}]
           /\ pc'[r] = "done" /\ "done" \notin Claiming \union Working
           /\ \A q \in Requests : q # r => pc'[q] = pc[q] /\ req'[q] = req[q]
           /\ \A q \in Requests : pc'[q] \notin {"unsent", "done"} => req'[q] \in Request
           /\ \A q \in Requests : pc'[q] \in {"touch", "reclaim"} => req'[q].existing \in Receipt
  BY DEF TypeOK, Leave, Goto, Pcs, Claiming, Working

LEMMA GotoTypes ==
    ASSUME TypeOK, NEW r \in Requests, pc[r] \notin {"unsent", "done"},
           NEW label \in Claiming \union Working,
           label \notin {"touch", "reclaim"}, Goto(r, label), req' = req
    PROVE  /\ pc' \in [Requests -> Pcs] /\ req' \in [Requests -> Request \union {None}]
           /\ pc'[r] = label
           /\ \A q \in Requests : q # r => pc'[q] = pc[q]
           /\ \A q \in Requests : pc'[q] \notin {"unsent", "done"} => req'[q] \in Request
           /\ \A q \in Requests : pc'[q] \in {"touch", "reclaim"} => req'[q].existing \in Receipt
  BY DEF TypeOK, Goto, Pcs

LEMMA InitBase == Init => Base
<1> SUFFICES ASSUME Init PROVE Base
  OBVIOUS
<1> USE WebhookAssumption
<1>1. [configuration |-> Initial, configurationRevision |-> 0] \in Interface
  BY DEF Interface
<1>2. user \in ActionVerification
  BY DEF Init, ActionVerification
<1>3. TypeOK
  BY <1>1, <1>2 DEF Init, TypeOK
<1>4. Leases /\ Answers
  BY DEF Init, Leases, Answers, AcceptedWasProcessed
<1> QED
  BY <1>3, <1>4 DEF Base

\* A request ends, and the receipts stay as they are.
LEMMA LeaveBase ==
    ASSUME Base, NEW r \in Requests, Leave(r),
           UNCHANGED <<clock, interface, user, receipts, inFlight, issued,
                       attempts, settled, processed>>,
           accepted' \in SUBSET processed
    PROVE  Base'
<1>1. TypeOK'
  BY LeaveTypes DEF Base, TypeOK, Pcs
<1>2. Leases'
  BY LeaveTypes DEF Base, TypeOK, Leases, Receipt
<1>3. Answers'
  BY LeaveTypes DEF Base, Answers, AcceptedWasProcessed, DeliveryOf
<1> QED
  BY <1>1, <1>2, <1>3 DEF Base

\* The receipt of event e is replaced by one that no worker but r could hold.
LEMMA EnvironmentBase ==
    ASSUME Base, UNCHANGED <<pc, req, processed, accepted>>,
           \A e \in Event : receipts'[e] = receipts[e] \/ receipts'[e] = None, TypeOK'
    PROVE  Base'
<1>1. Leases'
  BY DEF Base, Leases
<1>2. Answers'
  BY DEF Base, Answers, AcceptedWasProcessed, DeliveryOf
<1> QED
  BY <1>1, <1>2 DEF Base

LEMMA ApplyTypes ==
    ASSUME TypeOK, NEW a \in Attempt, applyResult(a)
    PROVE  /\ user' \in ActionVerification
           /\ settled' \in {settled, settled \union {a}}
<1>1. user \in ActionVerification
  BY DEF TypeOK
<1>2. [event |-> a.event, timestamp |-> a.eventTimestamp] \in Marker
  BY DEF Attempt, Marker
<1>3. a.eventTimestamp + a.verificationPeriod \in Int
  BY DEF Attempt
<1> QED
  BY <1>1, <1>2, <1>3 DEF applyResult, ActionVerification

LEMMA EnvironmentActions ==
    ASSUME Base,
           \/ Tick
           \/ \E e \in Event : Expire(e)
           \/ \E i \in Interfaces :
                  Enroll(i) \/ \E configuration \in Configurations : Configure(i, configuration)
           \/ \E a \in inFlight : LateApply(a)
    PROVE  Base'
<1> USE WebhookAssumption
<1>1. CASE Tick
  BY <1>1, EnvironmentBase DEF Tick, Base, TypeOK
<1>2. ASSUME NEW e \in Event, Expire(e)
      PROVE  Base'
  <2>1. /\ receipts' \in [Event -> Receipt \union {None}]
        /\ \A d \in Event : receipts'[d] = receipts[d] \/ receipts'[d] = None
    BY <1>2 DEF Expire, Base, TypeOK
  <2> QED
    BY <1>2, <2>1, EnvironmentBase DEF Expire, Base, TypeOK
<1>3. ASSUME NEW i \in Interfaces, Enroll(i)
      PROVE  Base'
  <2>1. user' \in ActionVerification
    BY <1>3 DEF Enroll, Base, TypeOK, ActionVerification
  <2> QED
    BY <1>3, <2>1, EnvironmentBase DEF Enroll, Base, TypeOK
<1>4. ASSUME NEW i \in Interfaces, NEW configuration \in Configurations,
             Configure(i, configuration)
      PROVE  Base'
  <2>1. interface[i].configurationRevision \in Nat /\ configuration \in Configuration
    BY DEF Base, TypeOK, Interface
  <2>2. Configured(i, configuration) \in Interface
    BY <2>1 DEF Configured, Interface
  <2>3. interface' \in [Interfaces -> Interface]
    BY <1>4, <2>2 DEF Configure, Base, TypeOK
  <2> QED
    BY <1>4, <2>3, EnvironmentBase DEF Configure, Base, TypeOK
<1>5. ASSUME NEW a \in inFlight, LateApply(a)
      PROVE  Base'
  <2>1. a \in Attempt
    BY DEF Base, TypeOK
  <2>2. user' \in ActionVerification /\ settled' \in {settled, settled \union {a}}
    BY <1>5, <2>1, ApplyTypes DEF LateApply, Base
  <2> QED
    <3>1. TypeOK'
      BY <1>5, <2>1, <2>2 DEF LateApply, Base, TypeOK
    <3> QED
      BY <1>5, <3>1, EnvironmentBase DEF LateApply
<1> QED
  BY <1>1, <1>2, <1>3, <1>4, <1>5

------------------------------------------------------------------------------
LEMMA DeliverBase ==
    ASSUME Base, NEW r \in Requests, NEW event \in Event, NEW payload \in Payloads,
           NEW timestamp \in Timestamps, Deliver(r, event, payload, timestamp)
    PROVE  Base'
<1> USE WebhookAssumption
<1>1. PICK now \in Now :
          req' = [req EXCEPT ![r] =
                  [event |-> event, payload |-> payload, timestamp |-> timestamp,
                   interface |-> interface[event.interfaceId], sentAt |-> clock,
                   now |-> now, existing |-> None]]
  BY DEF Deliver
<1>2. [event |-> event, payload |-> payload, timestamp |-> timestamp,
       interface |-> interface[event.interfaceId], sentAt |-> clock,
       now |-> now, existing |-> None] \in Request
  <2>1. interface[event.interfaceId] \in Interface /\ clock \in Nat
    BY DEF Event, Base, TypeOK
  <2>2. now \in Int
    BY <2>1 DEF Now
  <2> QED
    BY <2>1, <2>2 DEF Request
<1>3. /\ pc' = [pc EXCEPT ![r] = "claim"] /\ pc'[r] = "claim" /\ pc[r] = "unsent"
      /\ \A q \in Requests : q # r => pc'[q] = pc[q] /\ req'[q] = req[q]
      /\ req'[r] \in Request
  BY <1>1, <1>2 DEF Deliver, Goto, Base, TypeOK
<1>4. TypeOK'
  <2>1. issued' \in [Event -> Nat \union {None}]
    BY DEF Deliver, Base, TypeOK
  <2>2. /\ pc' \in [Requests -> {"unsent", "done"} \union Claiming \union Working]
        /\ req' \in [Requests -> Request \union {None}]
    BY <1>1, <1>2, <1>3 DEF Base, TypeOK, Claiming
  <2> QED
    BY <1>3, <2>1, <2>2 DEF Deliver, Base, TypeOK
<1>5. Leases'
  BY <1>3 DEF Deliver, Base, TypeOK, Leases, Receipt, Working
<1>6. Answers'
  BY <1>3 DEF Deliver, Base, Answers, AcceptedWasProcessed, DeliveryOf
<1> QED
  BY <1>4, <1>5, <1>6 DEF Base

\* What a request that has its claim knows.
LEMMA ClaimedTypes ==
    ASSUME TypeOK, NEW r \in Requests, req[r] \in Request, NEW timestamp \in Int,
           req' = Claimed(r, timestamp), Goto(r, "apply")
    PROVE  /\ pc' \in [Requests -> Pcs] /\ req' \in [Requests -> Request \union {None}]
           /\ pc'[r] = "apply" /\ "apply" \in Working /\ "apply" \notin Claiming
           /\ \A q \in Requests : q # r => pc'[q] = pc[q] /\ req'[q] = req[q]
           /\ req'[r] \in Request
           /\ req'[r].event = req[r].event /\ req'[r].payload = req[r].payload
           /\ req'[r].timestamp = timestamp /\ req'[r].interface = req[r].interface
<1> DEFINE new == [event |-> req[r].event, payload |-> req[r].payload,
                   timestamp |-> timestamp, interface |-> req[r].interface,
                   sentAt |-> 0, now |-> 0, existing |-> None]
<1>1. /\ new \in Request
      /\ new.event = req[r].event /\ new.payload = req[r].payload
      /\ new.timestamp = timestamp /\ new.interface = req[r].interface
  BY DEF Request
<1>2. req' = [req EXCEPT ![r] = new]
  BY DEF Claimed
<1> HIDE DEF new
<1>3. req'[r] = new /\ req' \in [Requests -> Request \union {None}]
      /\ \A q \in Requests : q # r => req'[q] = req[q]
  BY <1>1, <1>2 DEF TypeOK
<1> QED
  BY <1>1, <1>3 DEF TypeOK, Goto, Pcs, Working, Claiming

\* The receipt a claim writes: its fields, and the ends of the worker's step.
LEMMA ClaimBase ==
    ASSUME Base, NEW r \in Requests, pc[r] \in Claiming, req[r] \in Request,
           NEW timestamp \in Int, NEW revision \in Nat, NEW leaseUntil \in Int,
           NEW expiresAt \in Int,
           receipts' = [receipts EXCEPT ![req[r].event] =
                           [payload |-> req[r].payload, eventTimestamp |-> timestamp,
                            configurationRevision |-> revision, status |-> "pending",
                            leaseToken |-> r, leaseUntil |-> leaseUntil,
                            expiresAt |-> expiresAt]],
           req' = Claimed(r, timestamp), Goto(r, "apply"),
           UNCHANGED <<clock, interface, user, inFlight, issued,
                       attempts, settled, processed, accepted>>
    PROVE  Base'
<1> DEFINE event == req[r].event
           new == [payload |-> req[r].payload, eventTimestamp |-> timestamp,
                   configurationRevision |-> revision, status |-> "pending",
                   leaseToken |-> r, leaseUntil |-> leaseUntil, expiresAt |-> expiresAt]
<1> USE WebhookAssumption
<1>1. /\ event \in Event /\ new \in Receipt /\ new # None
      /\ new.payload = req[r].payload /\ new.status = "pending" /\ new.leaseToken = r
  <2>1. event \in Event /\ req[r].payload \in Payloads
    BY DEF Request
  <2>2. new \in Receipt
    BY <2>1 DEF Receipt
  <2> QED
    BY <2>1, <2>2
<1>2. PICK e \in Event : e = event
  BY <1>1
<1>3. PICK n \in Receipt : n = new /\ n # None
  BY <1>1
<1>4. /\ receipts' \in [Event -> Receipt \union {None}] /\ receipts'[e] = n
      /\ \A d \in Event : d # e => receipts'[d] = receipts[d]
  BY <1>2, <1>3 DEF Base, TypeOK
<1>5. /\ n.payload = req[r].payload /\ n.status = "pending" /\ n.leaseToken = r /\ e = req[r].event
  BY <1>1, <1>2, <1>3
<1> HIDE DEF event, new
<1> USE ClaimedTypes
<1>6. /\ pc' \in [Requests -> Pcs] /\ req' \in [Requests -> Request \union {None}]
      /\ pc'[r] = "apply" /\ "apply" \in Working /\ "apply" \notin Claiming
      /\ \A q \in Requests : q # r => pc'[q] = pc[q] /\ req'[q] = req[q]
      /\ req'[r] \in Request
      /\ req'[r].event = e /\ req'[r].payload = n.payload
  BY <1>5, ClaimedTypes DEF Base
<1>7. TypeOK'
  BY <1>4, <1>6 DEF Base, TypeOK, Pcs
<1>8. Leases'
  <2>1. \A d \in Event :
            receipts[d] # None /\ receipts[d].status = "pending" =>
                receipts[d].leaseToken \in Requests /\ receipts[d].leaseToken # r
    BY DEF Base, TypeOK, Leases, Receipt, Claiming, Working
  <2> QED
    BY <1>4, <1>5, <1>6, <2>1 DEF Base, Leases
<1>9. Answers'
  BY SMTT(30), <1>4, <1>5, <1>6 DEF Base, Answers, AcceptedWasProcessed, DeliveryOf, Claiming
<1> QED
  BY <1>7, <1>8, <1>9 DEF Base

LEMMA InsertBase ==
    ASSUME Base, NEW r \in Requests, Insert(r)
    PROVE  Base'
<1> USE WebhookAssumption
<1>1. /\ pc[r] = "claim" /\ req[r] \in Request /\ pc[r] \in Claiming
  BY DEF Insert, Base, TypeOK, Claiming
<1>2. CASE receipts[req[r].event] = None
  <2>1. /\ req[r].timestamp \in Int /\ req[r].interface.configurationRevision \in Nat
        /\ req[r].now + Lease \in Int /\ receiptExpiry(req[r].now) \in Int
    BY <1>1 DEF Request, Interface, receiptExpiry
  <2> QED
    BY <1>1, <1>2, <2>1, ClaimBase DEF Insert
<1>3. CASE receipts[req[r].event] # None
  <2>1. /\ Goto(r, "existing") /\ req' = req /\ receipts' = receipts
        /\ UNCHANGED <<clock, interface, user, inFlight, issued,
                       attempts, settled, processed, accepted>>
    BY <1>3 DEF Insert
  <2>2. /\ pc' \in [Requests -> Pcs] /\ pc'[r] = "existing"
        /\ \A q \in Requests : q # r => pc'[q] = pc[q]
        /\ \A q \in Requests : pc'[q] \notin {"unsent", "done"} => req'[q] \in Request
        /\ \A q \in Requests : pc'[q] \in {"touch", "reclaim"} => req'[q].existing \in Receipt
    BY <1>1, <2>1, GotoTypes DEF Base, Claiming
  <2>3. TypeOK'
    BY <2>1, <2>2 DEF Base, TypeOK, Pcs
  <2>4. Leases'
    BY <1>1, <2>1, <2>2 DEF Base, TypeOK, Leases, Receipt, Working
  <2>5. Answers'
    BY <2>1, <2>2 DEF Base, Answers, AcceptedWasProcessed, DeliveryOf
  <2> QED
    BY <2>3, <2>4, <2>5 DEF Base
<1> QED
  BY <1>2, <1>3

LEMMA FindExistingBase ==
    ASSUME Base, NEW r \in Requests, FindExisting(r)
    PROVE  Base'
<1> USE WebhookAssumption
<1>1. CASE Leave(r)
  BY <1>1, LeaveBase DEF FindExisting, Base, Answers, AcceptedWasProcessed
<1>2. CASE ~Leave(r)
  <2>1. PICK existing \in Receipt :
            /\ existing = receipts[req[r].event] /\ existing.payload = req[r].payload
            /\ req' = [req EXCEPT ![r].existing = existing]
            /\ \E label \in {"touch", "reclaim"} : Goto(r, label)
            /\ pc[r] = "existing" /\ req[r] \in Request
    BY <1>2 DEF FindExisting, sameSignedEvent, Base, TypeOK, Request
  <2>2. PICK label \in {"touch", "reclaim"} : Goto(r, label)
    BY <2>1
  <2>3. PICK new \in Request :
            /\ req' = [req EXCEPT ![r] = new] /\ new.existing = existing
            /\ new.event = req[r].event /\ new.payload = req[r].payload
    <3> DEFINE n == [req[r] EXCEPT !.existing = existing]
    <3>1. /\ n \in Request /\ n.existing = existing
          /\ n.event = req[r].event /\ n.payload = req[r].payload
      BY <2>1 DEF Request
    <3>2. req' = [req EXCEPT ![r] = n]
      BY <2>1
    <3> QED
      BY <3>1, <3>2
  <2>4. /\ pc' \in [Requests -> Pcs] /\ pc'[r] = label
        /\ req' \in [Requests -> Request \union {None}] /\ req'[r] = new
        /\ \A q \in Requests : q # r => pc'[q] = pc[q] /\ req'[q] = req[q]
    BY <2>2, <2>3 DEF Base, TypeOK, Goto, Pcs, Claiming
  <2>5. UNCHANGED <<clock, interface, user, receipts, inFlight, issued,
                    attempts, settled, processed, accepted>>
    BY DEF FindExisting
  <2>6. TypeOK'
    BY <2>1, <2>3, <2>4, <2>5 DEF Base, TypeOK, Pcs
  <2>7. Leases'
    BY <2>1, <2>4, <2>5 DEF Base, TypeOK, Leases, Receipt, Working
  <2>8. Answers'
    <3>1. existing.status = "processed" =>
              [event |-> new.event, payload |-> new.payload] \in processed
      BY <2>1, <2>3 DEF Base, Answers, Request
    <3> QED
      BY <2>1, <2>3, <2>4, <2>5, <3>1 DEF Base, Answers, AcceptedWasProcessed, DeliveryOf
  <2> QED
    BY <2>6, <2>7, <2>8 DEF Base
<1> QED
  BY <1>1, <1>2

\* A worker goes on to another label, and no receipt changes.
LEMMA MoveBase ==
    ASSUME Base, NEW r \in Requests, pc[r] \in Working, NEW label \in Working, Goto(r, label),
           UNCHANGED <<clock, interface, receipts, req, issued, processed, accepted>>,
           user' \in ActionVerification, attempts' \in SUBSET Attempt,
           inFlight' \in SUBSET attempts', settled' \in SUBSET attempts'
    PROVE  Base'
<1>1. /\ pc' \in [Requests -> Pcs] /\ pc'[r] = label
      /\ \A q \in Requests : q # r => pc'[q] = pc[q]
      /\ \A q \in Requests : pc'[q] \notin {"unsent", "done"} => req'[q] \in Request
      /\ \A q \in Requests : pc'[q] \in {"touch", "reclaim"} => req'[q].existing \in Receipt
  BY GotoTypes DEF Base, Working
<1>2. TypeOK'
  BY <1>1 DEF Base, TypeOK, Pcs
<1>3. Leases'
  BY <1>1 DEF Base, TypeOK, Leases, Receipt
<1>4. Answers'
  BY <1>1 DEF Base, Answers, AcceptedWasProcessed, DeliveryOf, Working
<1> QED
  BY <1>2, <1>3, <1>4 DEF Base

LEMMA WantedType ==
    ASSUME TypeOK, NEW r \in Requests, pc[r] = "apply", ActionOf(r) # None
    PROVE  Wanted(r) \in Attempt
<1>1. req[r] \in Request
  BY DEF TypeOK
<1>2. req[r].interface.configuration \in Configuration /\ req[r].payload \in Payloads
  BY <1>1 DEF Request, Interface
<1>3. /\ ActionOf(r) \in {"complete", "revoke"}
      /\ req[r].interface.configuration.verificationPeriod \in Nat
  BY <1>2 DEF ActionOf, Configuration
<1> QED
  BY <1>1, <1>2, <1>3 DEF Wanted, Attempt, Request, Interface

LEMMA ApplyBase ==
    ASSUME Base, NEW r \in Requests, Apply(r) \/ ApplyThrows(r)
    PROVE  Base'
<1>1. /\ pc[r] = "apply" /\ pc[r] \in Working /\ "complete" \in Working /\ "fail" \in Working
  BY DEF Apply, ApplyThrows, Working
<1>2. CASE Apply(r) /\ ActionOf(r) = None
  BY <1>1, <1>2, MoveBase DEF Apply, Base, TypeOK
<1>3. CASE Apply(r) /\ ActionOf(r) # None
  <2>1. Wanted(r) \in Attempt
    BY <1>1, <1>3, WantedType DEF Base
  <2>2. user' \in ActionVerification /\ settled' \in {settled, settled \union {Wanted(r)}}
    BY <1>3, <2>1, ApplyTypes DEF Apply, Base
  <2>3. attempts' = attempts \union {Wanted(r)}
    BY <1>3 DEF Apply
  <2> QED
    BY <1>1, <1>3, <2>1, <2>2, <2>3, MoveBase DEF Apply, Base, TypeOK
<1>4. CASE ApplyThrows(r)
  <2>1. Wanted(r) \in Attempt
    BY <1>1, <1>4, WantedType DEF ApplyThrows, Base
  <2> QED
    BY <1>1, <1>4, <2>1, MoveBase DEF ApplyThrows, Base, TypeOK
<1> QED
  BY <1>2, <1>3, <1>4

\* A receipt leaves its lease, or is kept longer: what the worker's answers need.
LEMMA EndBase ==
    ASSUME Base, NEW r \in Requests, NEW e \in Event, NEW new \in Receipt,
           pc[r] \notin {"unsent", "done"}, req[r].event = e, Leave(r),
           receipts[e] # None, receipts' = [receipts EXCEPT ![e] = new],
           new.payload = receipts[e].payload,
           new.status = "pending" =>
               /\ receipts[e].status = "pending"
               /\ new.leaseToken = receipts[e].leaseToken,
           processed' \in SUBSET Delivery, accepted' \in SUBSET processed',
           processed \subseteq processed',
           new.status = "processed" =>
               [event |-> e, payload |-> receipts[e].payload] \in processed',
           UNCHANGED <<clock, interface, user, inFlight, issued, attempts, settled>>
    PROVE  Base'
<1> USE WebhookAssumption
<1>1. /\ receipts' \in [Event -> Receipt \union {None}] /\ receipts'[e] = new
      /\ \A d \in Event : d # e => receipts'[d] = receipts[d]
  BY DEF Base, TypeOK
<1>2. TypeOK'
  BY <1>1, LeaveTypes DEF Base, TypeOK, Pcs
<1>3. Leases'
  BY <1>1, LeaveTypes DEF Base, TypeOK, Leases, Receipt
<1>4. Answers'
  BY SMTT(30), <1>1, LeaveTypes DEF Base, Answers, AcceptedWasProcessed, DeliveryOf
<1> QED
  BY <1>2, <1>3, <1>4 DEF Base

LEMMA TouchBase ==
    ASSUME Base, NEW r \in Requests, Touch(r)
    PROVE  Base'
<1> USE WebhookAssumption
<1>1. /\ pc[r] = "touch" /\ req[r] \in Request /\ req[r].existing \in Receipt
      /\ pc[r] \notin {"unsent", "done"}
  BY DEF Touch, Base, TypeOK
<1>2. /\ Leave(r) /\ accepted' \in SUBSET processed /\ processed' = processed
      /\ UNCHANGED <<clock, interface, user, inFlight, issued, attempts, settled>>
  <2>1. CASE Leave(r) /\ UNCHANGED accepted
    BY <2>1 DEF Touch, Base, Answers, AcceptedWasProcessed
  <2>2. CASE req[r].existing.status = "processed" /\ Answer202(r)
    BY <1>1, <2>2 DEF Touch, Answer202, Base, Answers, AcceptedWasProcessed
  <2> QED
    BY <2>1, <2>2 DEF Touch
<1>3. CASE ~Unchanged(r)
  BY <1>2, <1>3, LeaveBase DEF Touch
<1>4. CASE Unchanged(r)
  <2>1. PICK e \in Event : e = req[r].event
    BY <1>1 DEF Request
  <2>2. PICK current \in Receipt : current = receipts[e] /\ current # None
    BY <1>4, <2>1 DEF Unchanged, Base, TypeOK
  <2>3. PICK expiresAt \in Int :
            receipts' = [receipts EXCEPT ![e] = [current EXCEPT !.expiresAt = expiresAt]]
    <3>1. Later(current.expiresAt, receiptExpiry(req[r].now)) \in Int
      BY <1>1, <2>2 DEF Later, receiptExpiry, Request, Receipt
    <3>2. receipts' = [receipts EXCEPT ![e].expiresAt = Later(@, receiptExpiry(req[r].now))]
      BY <1>4, <2>1 DEF Touch
    <3> QED
      BY <2>2, <3>1, <3>2 DEF Base, TypeOK
  <2>4. PICK new \in Receipt :
            /\ receipts' = [receipts EXCEPT ![e] = new]
            /\ new.payload = current.payload /\ new.status = current.status
            /\ new.status = "pending" => new.leaseToken = current.leaseToken
    <3> DEFINE n == [current EXCEPT !.expiresAt = expiresAt]
    <3>1. /\ n \in Receipt
          /\ n.payload = current.payload /\ n.status = current.status
          /\ n.status = "pending" => n.leaseToken = current.leaseToken
      BY <2>2, <2>3 DEF Receipt
    <3> QED
      BY <2>3, <3>1
  <2>5. new.status = "processed" => [event |-> e, payload |-> receipts[e].payload] \in processed
    BY <2>2, <2>4 DEF Base, Answers
  <2> QED
    BY <1>1, <1>2, <2>1, <2>2, <2>4, <2>5, EndBase DEF Base, TypeOK
<1> QED
  BY <1>3, <1>4

LEMMA ReclaimBase ==
    ASSUME Base, NEW r \in Requests, Reclaim(r)
    PROVE  Base'
<1> USE WebhookAssumption
<1>1. /\ pc[r] = "reclaim" /\ pc[r] \in Claiming
      /\ req[r] \in Request /\ req[r].existing \in Receipt
      /\ req[r].existing.payload = req[r].payload
  BY DEF Reclaim, Base, TypeOK, Answers, Claiming
<1>2. CASE ~Reclaimable(r)
  BY <1>2, LeaveBase DEF Reclaim, Base, Answers, AcceptedWasProcessed
<1>3. CASE Reclaimable(r)
  <2>1. /\ receipts[req[r].event] \in Receipt /\ receipts[req[r].event].payload = req[r].payload
        /\ receipts[req[r].event].eventTimestamp = req[r].existing.eventTimestamp
    BY <1>1, <1>3 DEF Reclaimable, Base, TypeOK, Request
  <2>2. /\ req[r].existing.eventTimestamp \in Int
        /\ receipts[req[r].event].configurationRevision \in Nat
        /\ req[r].now + Lease \in Int /\ receiptExpiry(req[r].now) \in Int
    BY <1>1, <2>1 DEF Request, Receipt, receiptExpiry
  <2> QED
    BY SMTT(30), <1>1, <1>3, <2>1, <2>2, ClaimBase DEF Reclaim
<1> QED
  BY <1>2, <1>3

\* The receipt a worker ends: its own, with the body it processed.
LEMMA EndedFacts ==
    ASSUME Base, NEW r \in Requests, pc[r] \in Working, HoldsLease(r),
           NEW status \in {"failed", "processed"}, NEW now \in Now
    PROVE  /\ req[r].event \in Event /\ Ended(r, status, now) \in Receipt
           /\ receipts[req[r].event] # None
           /\ receipts[req[r].event].payload = req[r].payload
           /\ Ended(r, status, now).payload = req[r].payload
           /\ Ended(r, status, now).status = status
<1> USE WebhookAssumption
<1>1. req[r] \in Request /\ now \in Int
  BY DEF Base, TypeOK, Working, Now
<1>2. PICK e \in Event : e = req[r].event
  BY <1>1 DEF Request
<1>3. PICK current \in Receipt : current = receipts[e] /\ current # None
  BY <1>2 DEF HoldsLease, Base, TypeOK
<1>4. current.payload = req[r].payload
  BY <1>2, <1>3 DEF HoldsLease, Base, Leases
<1>5. Later(current.expiresAt, receiptExpiry(now)) \in Int
  BY <1>1, <1>3 DEF Later, receiptExpiry, Receipt
<1>6. Ended(r, status, now) =
          [payload |-> current.payload, eventTimestamp |-> current.eventTimestamp,
           configurationRevision |-> current.configurationRevision, status |-> status,
           expiresAt |-> Later(current.expiresAt, receiptExpiry(now))]
  BY <1>2, <1>3 DEF Ended
<1>7. Ended(r, status, now) \in Receipt
  BY <1>3, <1>5, <1>6 DEF Receipt
<1> QED
  BY <1>2, <1>3, <1>4, <1>6, <1>7

LEMMA CompleteBase ==
    ASSUME Base, NEW r \in Requests, Complete(r)
    PROVE  Base'
<1>1. pc[r] = "complete" /\ pc[r] \in Working /\ "fail" \in Working
  BY DEF Complete, Working
<1>2. CASE Goto(r, "fail") /\ UNCHANGED <<receipts, req, processed, accepted>>
  BY <1>1, <1>2, MoveBase DEF Complete, Base, TypeOK
<1>3. CASE ~(Goto(r, "fail") /\ UNCHANGED <<receipts, req, processed, accepted>>)
  <2>1. PICK now \in Now :
            receipts' = [receipts EXCEPT ![req[r].event] = Ended(r, "processed", now)]
    BY <1>3 DEF Complete
  <2>2. /\ HoldsLease(r) /\ processed' = processed \union {DeliveryOf(r)} /\ Leave(r)
        /\ accepted' \in {accepted, accepted \union {DeliveryOf(r)}}
        /\ UNCHANGED <<clock, interface, user, inFlight, issued, attempts, settled>>
    BY <1>3 DEF Complete, Answer202
  <2>3. DeliveryOf(r) \in Delivery
    BY <1>1 DEF DeliveryOf, Delivery, Base, TypeOK, Request
  <2>4. processed' \in SUBSET Delivery /\ accepted' \in SUBSET processed'
    BY <2>2, <2>3 DEF Base, TypeOK, Answers, AcceptedWasProcessed
  <2>5. /\ req[r].event \in Event /\ Ended(r, "processed", now) \in Receipt
        /\ receipts[req[r].event] # None
        /\ receipts[req[r].event].payload = req[r].payload
        /\ Ended(r, "processed", now).payload = req[r].payload
        /\ Ended(r, "processed", now).status = "processed"
    BY <1>1, <2>2, EndedFacts
  <2>6. [event |-> req[r].event, payload |-> receipts[req[r].event].payload] \in processed'
    BY <2>2, <2>5 DEF DeliveryOf
  <2> QED
    BY <1>1, <2>1, <2>2, <2>4, <2>5, <2>6, EndBase DEF Working
<1> QED
  BY <1>2, <1>3

LEMMA FailBase ==
    ASSUME Base, NEW r \in Requests, Fail(r)
    PROVE  Base'
<1>1. pc[r] = "fail" /\ pc[r] \in Working /\ Leave(r)
  BY DEF Fail, Working
<1>2. CASE ~HoldsLease(r)
  BY <1>1, <1>2, LeaveBase DEF Fail, Base, Answers, AcceptedWasProcessed
<1>3. CASE HoldsLease(r)
  <2>1. PICK now \in Now :
            receipts' = [receipts EXCEPT ![req[r].event] = Ended(r, "failed", now)]
    BY <1>3 DEF Fail
  <2>2. /\ req[r].event \in Event /\ Ended(r, "failed", now) \in Receipt
        /\ receipts[req[r].event] # None
        /\ receipts[req[r].event].payload = req[r].payload
        /\ Ended(r, "failed", now).payload = req[r].payload
        /\ Ended(r, "failed", now).status = "failed"
    BY <1>1, <1>3, EndedFacts
  <2> QED
    BY <1>1, <2>1, <2>2, EndBase DEF Fail, Working, Base, TypeOK, Answers, AcceptedWasProcessed
<1> QED
  BY <1>2, <1>3

LEMMA StepBase == Base /\ [Next]_vars => Base'
<1> SUFFICES ASSUME Base, [Next]_vars PROVE Base'
  OBVIOUS
<1>1. CASE UNCHANGED vars
  BY <1>1, EnvironmentBase DEF vars, Base, TypeOK
<1>2. ASSUME NEW r \in Requests, Progress(r)
      PROVE  Base'
  <2>1. CASE Crash(r)
    BY <2>1, LeaveBase DEF Crash, Base, Answers, AcceptedWasProcessed
  <2> QED
    BY <1>2, <2>1, InsertBase, FindExistingBase, TouchBase, ReclaimBase, ApplyBase,
       CompleteBase, FailBase DEF Progress
<1> QED
  BY <1>1, <1>2, EnvironmentActions, DeliverBase DEF Next

\* Base holds in every reachable state.
THEOREM BaseInvariance == Spec => []Base
<1>1. Base /\ [Next]_vars => Base'
  BY StepBase
<1> QED
  BY InitBase, <1>1, PTL DEF Spec

\* The receipts, the requests, the user and the histories have their types.
THEOREM TypeCorrect == Spec => []TypeOK
<1>1. Base => TypeOK
  BY DEF Base
<1> QED
  BY BaseInvariance, <1>1, PTL

\* A delivery is answered 202 only when that very body has been processed: by the
\* worker itself, or by the one that processed the receipt it was compared with.
THEOREM AcceptedIsProcessed == Spec => []AcceptedWasProcessed
<1>1. Base => AcceptedWasProcessed
  BY DEF Base, Answers
<1> QED
  BY BaseInvariance, <1>1, PTL

------------------------------------------------------------------------------
\* What a step does to the receipt of an event.

\* The receipt is inserted by a claim.
Inserted(e) ==
    /\ receipts[e] = None /\ receipts'[e] # None
    /\ \E r \in Requests :
           /\ pc[r] = "claim" /\ req[r].event = e /\ pc'[r] = "apply"
           /\ receipts'[e].expiresAt = receiptExpiry(req[r].now)
           /\ receipts'[e].payload = req[r].payload
           /\ receipts'[e].eventTimestamp = req[r].timestamp
           /\ receipts'[e].configurationRevision = req[r].interface.configurationRevision

Expired(e) == receipts[e] # None /\ receipts'[e] = None /\ receipts[e].expiresAt <= clock

\* The receipt keeps what it says of the event.
Kept(e) ==
    /\ receipts[e] # None /\ receipts'[e] # None
    /\ receipts'[e].payload = receipts[e].payload
    /\ receipts'[e].eventTimestamp = receipts[e].eventTimestamp
    /\ receipts'[e].configurationRevision = receipts[e].configurationRevision
    /\ receipts[e].status = "processed" => receipts'[e].status = "processed"
    /\ \/ receipts'[e].expiresAt >= receipts[e].expiresAt
       \/ \E r \in Requests :
              /\ pc[r] \in Claiming /\ req[r].event = e
              /\ receipts'[e].expiresAt = receiptExpiry(req[r].now)

ReceiptStep(e) == receipts'[e] = receipts[e] \/ Expired(e) \/ Inserted(e) \/ Kept(e)

LEMMA ReceiptSteps ==
    ASSUME Base, [Next]_vars
    PROVE  \A e \in Event : ReceiptStep(e)
<1> USE WebhookAssumption
<1> SUFFICES ASSUME NEW e \in Event PROVE ReceiptStep(e)
  OBVIOUS
<1>1. CASE UNCHANGED receipts
  BY <1>1 DEF ReceiptStep
<1>2. ASSUME NEW d \in Event, Expire(d)
      PROVE  ReceiptStep(e)
  BY <1>2 DEF Expire, ReceiptStep, Expired, Base, TypeOK
<1>3. ASSUME NEW r \in Requests, Insert(r), receipts' # receipts
      PROVE  ReceiptStep(e)
  <2>1. /\ pc[r] = "claim" /\ req[r] \in Request /\ receipts[req[r].event] = None
        /\ pc'[r] = "apply"
    BY <1>3 DEF Insert, Goto, Base, TypeOK
  <2>2. PICK d \in Event : d = req[r].event
    BY <2>1 DEF Request
  <2>3. CASE d # e
    BY <1>3, <2>1, <2>2, <2>3 DEF Insert, ReceiptStep, Base, TypeOK
  <2>4. CASE d = e
    <3> DEFINE new == [payload |-> req[r].payload, eventTimestamp |-> req[r].timestamp,
                       configurationRevision |-> req[r].interface.configurationRevision,
                       status |-> "pending", leaseToken |-> r,
                       leaseUntil |-> req[r].now + Lease,
                       expiresAt |-> receiptExpiry(req[r].now)]
    <3>1. receipts'[e] = new
      BY <1>3, <2>1, <2>2, <2>4 DEF Insert, Base, TypeOK
    <3>2. new \in Receipt
      BY <2>1 DEF Request, Receipt, Interface, receiptExpiry
    <3>3. receipts'[e] # None
      BY <3>1, <3>2
    <3>4. /\ new.payload = req[r].payload /\ new.eventTimestamp = req[r].timestamp
          /\ new.configurationRevision = req[r].interface.configurationRevision
          /\ new.expiresAt = receiptExpiry(req[r].now)
      OBVIOUS
    <3> HIDE DEF new
    <3>5. Inserted(e)
      BY <2>1, <2>2, <2>4, <3>1, <3>3, <3>4 DEF Inserted
    <3> QED
      BY <3>5 DEF ReceiptStep
  <2> QED
    BY <2>3, <2>4
<1>4. ASSUME NEW r \in Requests, Touch(r), Unchanged(r)
      PROVE  ReceiptStep(e)
  <2>1. req[r] \in Request /\ req[r].existing \in Receipt
    BY <1>4 DEF Touch, Base, TypeOK
  <2>2. PICK d \in Event : d = req[r].event
    BY <2>1 DEF Request
  <2>3. receipts' = [receipts EXCEPT ![d].expiresAt = Later(@, receiptExpiry(req[r].now))]
    BY <1>4, <2>2 DEF Touch
  <2>4. CASE d # e
    BY <2>3, <2>4 DEF ReceiptStep, Base, TypeOK
  <2>5. CASE d = e
    <3>1. PICK current \in Receipt : current = receipts[e] /\ current # None
      BY <1>4, <2>2, <2>5 DEF Unchanged, Base, TypeOK
    <3>2. PICK at \in Int : at = Later(current.expiresAt, receiptExpiry(req[r].now))
                            /\ at >= current.expiresAt
      BY <2>1, <3>1 DEF Later, receiptExpiry, Request, Receipt
    <3> DEFINE new == [current EXCEPT !.expiresAt = at]
    <3>3. receipts'[e] = new
      BY <2>3, <2>5, <3>1, <3>2 DEF Base, TypeOK
    <3>4. /\ new \in Receipt /\ new.payload = current.payload
          /\ new.eventTimestamp = current.eventTimestamp
          /\ new.configurationRevision = current.configurationRevision
          /\ new.status = current.status /\ new.expiresAt = at
      BY <3>1, <3>2 DEF Receipt
    <3>5. receipts'[e] # None
      BY <3>3, <3>4
    <3> HIDE DEF new
    <3> QED
      BY <3>1, <3>2, <3>3, <3>4, <3>5 DEF ReceiptStep, Kept
  <2> QED
    BY <2>4, <2>5
<1>5. ASSUME NEW r \in Requests, Reclaim(r), Reclaimable(r)
      PROVE  ReceiptStep(e)
  <2>1. req[r] \in Request /\ pc[r] \in Claiming
    BY <1>5 DEF Reclaim, Base, TypeOK, Claiming
  <2>2. PICK d \in Event : d = req[r].event
    BY <2>1 DEF Request
  <2>3. CASE d # e
    BY <1>5, <2>2, <2>3 DEF Reclaim, ReceiptStep, Base, TypeOK
  <2>4. CASE d = e
    <3>1. PICK current \in Receipt :
              /\ current = receipts[e] /\ current # None /\ current.status # "processed"
      BY <1>5, <2>2, <2>4 DEF Reclaimable, Base, TypeOK
    <3> DEFINE new == [payload |-> current.payload, eventTimestamp |-> current.eventTimestamp,
                       configurationRevision |-> current.configurationRevision,
                       status |-> "pending", leaseToken |-> r,
                       leaseUntil |-> req[r].now + Lease,
                       expiresAt |-> receiptExpiry(req[r].now)]
    <3>2. receipts'[e] = new
      BY <1>5, <2>2, <2>4, <3>1 DEF Reclaim, Base, TypeOK
    <3>3. new \in Receipt
      BY <2>1, <3>1 DEF Request, Receipt, receiptExpiry
    <3>4. receipts'[e] # None
      BY <3>2, <3>3
    <3>5. /\ new.payload = current.payload /\ new.eventTimestamp = current.eventTimestamp
          /\ new.configurationRevision = current.configurationRevision
          /\ new.expiresAt = receiptExpiry(req[r].now)
      OBVIOUS
    <3> HIDE DEF new
    <3>6. Kept(e)
      BY <2>1, <2>2, <2>4, <3>1, <3>2, <3>4, <3>5 DEF Kept
    <3> QED
      BY <3>6 DEF ReceiptStep
  <2> QED
    BY <2>3, <2>4
<1>6. ASSUME NEW r \in Requests, pc[r] \in Working, HoldsLease(r),
             NEW status \in {"failed", "processed"}, NEW now \in Now,
             receipts' = [receipts EXCEPT ![req[r].event] = Ended(r, status, now)]
      PROVE  ReceiptStep(e)
  <2>1. req[r] \in Request /\ now \in Int
    BY <1>6 DEF Base, TypeOK, Working, Now
  <2>2. PICK d \in Event : d = req[r].event
    BY <2>1 DEF Request
  <2>3. CASE d # e
    BY <1>6, <2>2, <2>3 DEF ReceiptStep, Base, TypeOK
  <2>4. CASE d = e
    <3>1. PICK current \in Receipt :
              /\ current = receipts[e] /\ current # None /\ current.status # "processed"
      BY <1>6, <2>2, <2>4 DEF HoldsLease, Base, TypeOK
    <3>2. /\ Ended(r, status, now) =
                 [payload |-> current.payload, eventTimestamp |-> current.eventTimestamp,
                  configurationRevision |-> current.configurationRevision, status |-> status,
                  expiresAt |-> Later(current.expiresAt, receiptExpiry(now))]
          /\ Ended(r, status, now) \in Receipt
      BY <1>6, <2>2, <2>4, <3>1, EndedFacts DEF Ended
    <3>3. Later(current.expiresAt, receiptExpiry(now)) >= current.expiresAt
      BY <2>1, <3>1 DEF Later, receiptExpiry, Receipt
    <3>4. receipts'[e] = Ended(r, status, now) /\ receipts'[e] # None
      BY <1>6, <2>2, <2>4, <3>2 DEF Base, TypeOK
    <3> QED
      BY <3>1, <3>2, <3>3, <3>4 DEF ReceiptStep, Kept
  <2> QED
    BY <2>3, <2>4
<1>7. ASSUME NEW r \in Requests, Progress(r), receipts' # receipts
      PROVE  ReceiptStep(e)
  <2>1. CASE Insert(r)
    BY <1>3, <1>7, <2>1
  <2>2. CASE Touch(r)
    BY <1>4, <1>7, <2>2 DEF Touch
  <2>3. CASE Reclaim(r)
    BY <1>5, <1>7, <2>3 DEF Reclaim
  <2>4. CASE Complete(r)
    <3>1. PICK now \in Now :
              receipts' = [receipts EXCEPT ![req[r].event] = Ended(r, "processed", now)]
      BY <1>7, <2>4 DEF Complete
    <3> QED
      BY <1>6, <1>7, <2>4, <3>1 DEF Complete, Working
  <2>5. CASE Fail(r)
    <3>1. PICK now \in Now :
              receipts' = [receipts EXCEPT ![req[r].event] = Ended(r, "failed", now)]
      BY <1>7, <2>5 DEF Fail
    <3> QED
      BY <1>6, <1>7, <2>5, <3>1 DEF Fail, Working
  <2> QED
    BY <1>7, <2>1, <2>2, <2>3, <2>4, <2>5 DEF Progress, FindExisting, Apply, ApplyThrows, Crash
<1>8. CASE receipts' # receipts
  BY <1>2, <1>7, <1>8
  DEF Next, vars, Tick, Enroll, Configure, LateApply, Deliver
<1> QED
  BY <1>1, <1>8

\* A processed receipt is final, whatever workers that lost their lease still do.
THEOREM ProcessedStaysProcessed == Spec => ProcessedIsFinal
<1>1. Base /\ [Next]_vars => \A event \in Event : StaysProcessed(event)
  <2> SUFFICES ASSUME Base, [Next]_vars, NEW event \in Event PROVE StaysProcessed(event)
    OBVIOUS
  <2> QED
    BY ReceiptSteps DEF ReceiptStep, Expired, Inserted, Kept, StaysProcessed
<1> QED
  BY BaseInvariance, <1>1, PTL DEF Spec, ProcessedIsFinal

------------------------------------------------------------------------------
\* What a step does to a request, and to the histories.

SameDelivery(r) ==
    /\ req'[r].event = req[r].event /\ req'[r].payload = req[r].payload
    /\ req'[r].interface = req[r].interface

Arrives(r) ==
    /\ pc'[r] = "claim" /\ req'[r].event \in Event
    /\ req'[r].interface = interface[req'[r].event.interfaceId]
    /\ req'[r].sentAt = clock /\ req'[r].now >= clock - Skew
    /\ issued[req'[r].event] # None => clock < issued[req'[r].event] + Retention
    /\ issued' = [issued EXCEPT ![req'[r].event] = IF @ = None THEN clock ELSE @]
    /\ UNCHANGED clock

Finds(r) ==
    /\ pc[r] = "existing" /\ pc'[r] \in {"touch", "reclaim"} /\ SameDelivery(r)
    /\ req'[r].sentAt = req[r].sentAt /\ req'[r].now = req[r].now
    /\ receipts[req[r].event] # None /\ UNCHANGED receipts
    /\ req'[r].existing = receipts[req[r].event]
    /\ pc'[r] = "reclaim" =>
           receipts[req[r].event].configurationRevision
               = req[r].interface.configurationRevision

Claims(r) ==
    /\ pc[r] \in {"claim", "reclaim"} /\ pc'[r] = "apply" /\ SameDelivery(r)
    /\ receipts'[req[r].event] # None
    /\ receipts'[req[r].event].payload = req[r].payload
    /\ receipts'[req[r].event].eventTimestamp = req'[r].timestamp
    /\ pc[r] = "claim" => receipts[req[r].event] = None /\ Inserted(req[r].event)
                          /\ receipts'[req[r].event].configurationRevision
                                 = req[r].interface.configurationRevision
    /\ pc[r] = "reclaim" => receipts[req[r].event] # None

RequestStep(r) ==
    \/ pc'[r] = pc[r] /\ req'[r] = req[r]
    \/ pc'[r] = "done"
    \/ Arrives(r)
    \/ pc[r] = "claim" /\ pc'[r] = "existing" /\ req'[r] = req[r]
    \/ Finds(r)
    \/ Claims(r)
    \/ pc[r] \in Working /\ pc'[r] \in Working /\ req'[r] = req[r]

AttemptStep ==
    \/ attempts' = attempts
    \/ \E r \in Requests :
           /\ pc[r] = "apply" /\ ActionOf(r) # None
           /\ attempts' = attempts \union {Wanted(r)}

LEMMA AttemptSteps ==
    ASSUME Base, [Next]_vars
    PROVE  AttemptStep
  BY ZenonT(60) DEF Next, vars, Tick, Expire, Enroll, Configure, LateApply, Deliver, Progress, Insert,
         FindExisting, Touch, Reclaim, Apply, ApplyThrows, Complete, Fail, Crash, AttemptStep

LEMMA ClaimStep ==
    ASSUME Base, NEW r \in Requests,
           \/ Insert(r) /\ receipts[req[r].event] = None
           \/ Reclaim(r) /\ Reclaimable(r)
    PROVE  Claims(r)
<1> USE WebhookAssumption
<1>1. /\ req[r] \in Request /\ pc[r] \in {"claim", "reclaim"}
      /\ pc[r] = "reclaim" => /\ req[r].existing \in Receipt
                              /\ req[r].existing.payload = req[r].payload
  BY DEF Insert, Reclaim, Base, TypeOK, Answers, Claiming
<1>2. PICK e \in Event : e = req[r].event
  BY <1>1 DEF Request
<1>3. PICK timestamp \in Int :
          /\ req' = Claimed(r, timestamp) /\ Goto(r, "apply")
          /\ receipts'[e].eventTimestamp = timestamp
          /\ receipts'[e].payload = req[r].payload
  <2>1. CASE Insert(r) /\ receipts[req[r].event] = None
    BY <1>1, <1>2, <2>1 DEF Insert, Base, TypeOK, Request
  <2>2. CASE Reclaim(r) /\ Reclaimable(r)
    <3>1. receipts[e] \in Receipt /\ receipts[e].eventTimestamp \in Int
      BY <1>1, <1>2, <2>2 DEF Reclaimable, Base, TypeOK, Receipt
    <3>2. /\ receipts'[e].eventTimestamp = receipts[e].eventTimestamp
          /\ receipts'[e].payload = receipts[e].payload
          /\ req' = Claimed(r, req[r].existing.eventTimestamp) /\ Goto(r, "apply")
      BY <1>1, <1>2, <2>2, SMTT(30) DEF Reclaim, Base, TypeOK
    <3>3. /\ receipts[e].payload = req[r].existing.payload
          /\ receipts[e].eventTimestamp = req[r].existing.eventTimestamp
      BY <1>2, <2>2 DEF Reclaimable
    <3>4. pc[r] = "reclaim"
      BY <2>2 DEF Reclaim
    <3> QED
      BY <1>1, <3>1, <3>2, <3>3, <3>4
  <2> QED
    BY <2>1, <2>2
<1>4. /\ pc'[r] = "apply" /\ req'[r].timestamp = timestamp /\ SameDelivery(r)
  BY <1>1, <1>3, ClaimedTypes DEF Base, SameDelivery
<1>5. receipts'[e] # None
  <2>1. CASE Insert(r) /\ receipts[req[r].event] = None
    <3>1. Inserted(e) \/ receipts'[e] = receipts[e] \/ Expired(e) \/ Kept(e)
      BY <1>1, <2>1, ReceiptSteps DEF Next, Progress, ReceiptStep
    <3>2. receipts'[e] # receipts[e]
      <4> DEFINE new == [payload |-> req[r].payload, eventTimestamp |-> req[r].timestamp,
                         configurationRevision |-> req[r].interface.configurationRevision,
                         status |-> "pending", leaseToken |-> r,
                         leaseUntil |-> req[r].now + Lease,
                         expiresAt |-> receiptExpiry(req[r].now)]
      <4>1. receipts'[e] = new
        BY <1>1, <1>2, <2>1 DEF Insert, Base, TypeOK
      <4>2. new \in Receipt
        BY <1>1 DEF Request, Receipt, Interface, receiptExpiry
      <4>3. new # None
        BY <4>2
      <4> QED
        BY <1>2, <2>1, <4>1, <4>3
    <3> QED
      BY <1>2, <2>1, <3>1, <3>2 DEF Inserted, Expired, Kept
  <2>2. CASE Reclaim(r) /\ Reclaimable(r)
    <3> DEFINE current == receipts[e]
               new == [payload |-> current.payload, eventTimestamp |-> current.eventTimestamp,
                       configurationRevision |-> current.configurationRevision,
                       status |-> "pending", leaseToken |-> r,
                       leaseUntil |-> req[r].now + Lease,
                       expiresAt |-> receiptExpiry(req[r].now)]
    <3>1. receipts'[e] = new
      BY <1>1, <1>2, <2>2 DEF Reclaim, Base, TypeOK
    <3>2. current \in Receipt
      BY <1>2, <2>2 DEF Reclaimable, Base, TypeOK
    <3>3. new \in Receipt
      BY <1>1, <3>2 DEF Request, Receipt, receiptExpiry
    <3> QED
      BY <3>1, <3>3
  <2> QED
    BY <2>1, <2>2
<1>6. pc[r] = "claim" => /\ receipts[e] = None /\ Inserted(e)
                         /\ receipts'[e].configurationRevision
                                = req[r].interface.configurationRevision
  <2>1. SUFFICES ASSUME pc[r] = "claim"
                 PROVE  /\ receipts[e] = None /\ Inserted(e)
                        /\ receipts'[e].configurationRevision
                               = req[r].interface.configurationRevision
    OBVIOUS
  <2>2. Insert(r) /\ receipts[e] = None
    BY <1>2, <2>1 DEF Reclaim
  <2>3. receipts'[e].configurationRevision = req[r].interface.configurationRevision
    BY <1>1, <1>2, <2>2 DEF Insert, Base, TypeOK
  <2>4. Inserted(e)
    BY <1>5, <2>2, ReceiptSteps DEF Next, Progress, ReceiptStep, Expired, Kept
  <2> QED
    BY <2>2, <2>3, <2>4
<1>7. pc[r] = "reclaim" => receipts[e] # None
  BY <1>2 DEF Insert, Reclaimable
<1> QED
  BY <1>1, <1>2, <1>3, <1>4, <1>5, <1>6, <1>7 DEF Claims

LEMMA RequestSteps ==
    ASSUME Base, [Next]_vars
    PROVE  \A r \in Requests : RequestStep(r)
<1> USE WebhookAssumption
<1> SUFFICES ASSUME NEW r \in Requests PROVE RequestStep(r)
  OBVIOUS
<1>1. CASE UNCHANGED <<pc, req>>
  BY <1>1 DEF RequestStep
<1>2. ASSUME NEW q \in Requests, NEW event \in Event, NEW payload \in Payloads,
             NEW timestamp \in Timestamps, Deliver(q, event, payload, timestamp)
      PROVE  RequestStep(r)
  <2>1. PICK now \in Now :
            req' = [req EXCEPT ![q] =
                    [event |-> event, payload |-> payload, timestamp |-> timestamp,
                     interface |-> interface[event.interfaceId], sentAt |-> clock,
                     now |-> now, existing |-> None]]
    BY <1>2 DEF Deliver
  <2>2. now >= clock - Skew
    BY DEF Now, Base, TypeOK
  <2>3. CASE q # r
    BY <1>2, <2>1, <2>3 DEF Deliver, Goto, RequestStep, Base, TypeOK
  <2>4. CASE q = r
    <3>1. /\ req'[r].event = event /\ req'[r].sentAt = clock /\ req'[r].now = now
          /\ req'[r].interface = interface[event.interfaceId] /\ pc'[r] = "claim"
      BY <1>2, <2>1, <2>4 DEF Deliver, Goto, Base, TypeOK
    <3> QED
      BY <1>2, <2>2, <2>4, <3>1 DEF Deliver, RequestStep, Arrives
  <2> QED
    BY <2>3, <2>4
<1>3. ASSUME NEW q \in Requests, q # r, Progress(q)
      PROVE  RequestStep(r)
  <2>1. pc'[r] = pc[r]
    BY <1>3
    DEF Progress, Insert, FindExisting, Touch, Reclaim, Apply, ApplyThrows, Complete, Fail, Crash,
        Answer202, Leave, Goto, Base, TypeOK
  <2>2. req'[r] = req[r]
    BY <1>3
    DEF Progress, Insert, FindExisting, Touch, Reclaim, Apply, ApplyThrows, Complete, Fail, Crash,
        Answer202, Leave, Claimed, Base, TypeOK
  <2> QED
    BY <2>1, <2>2 DEF RequestStep
<1>4. ASSUME Leave(r)
      PROVE  RequestStep(r)
  BY <1>4 DEF Leave, Goto, RequestStep, Base, TypeOK
<1>5. CASE Insert(r)
  <2>1. CASE receipts[req[r].event] = None
    BY <1>5, <2>1, ClaimStep DEF RequestStep
  <2>2. CASE receipts[req[r].event] # None
    BY <1>5, <2>2 DEF Insert, Goto, RequestStep, Base, TypeOK
  <2> QED
    BY <2>1, <2>2
<1>6. CASE FindExisting(r) /\ ~Leave(r)
  <2>1. PICK existing \in Receipt :
            /\ existing = receipts[req[r].event] /\ existing.payload = req[r].payload
            /\ existing # None
            /\ req' = [req EXCEPT ![r].existing = existing]
            /\ pc[r] = "existing" /\ req[r] \in Request
            /\ existing.status # "processed" =>
                   existing.configurationRevision = req[r].interface.configurationRevision
            /\ Goto(r, IF \/ existing.status = "processed"
                          \/ existing.status = "pending" /\ existing.leaseUntil > req[r].now
                       THEN "touch" ELSE "reclaim")
            /\ UNCHANGED receipts
    BY <1>6 DEF FindExisting, sameSignedEvent, Base, TypeOK, Request
  <2>2. /\ pc'[r] \in {"touch", "reclaim"}
        /\ pc'[r] = "reclaim" =>
               existing.configurationRevision = req[r].interface.configurationRevision
    BY <2>1 DEF Goto, Base, TypeOK
  <2>3. /\ req'[r].event = req[r].event /\ req'[r].payload = req[r].payload
        /\ req'[r].interface = req[r].interface /\ req'[r].sentAt = req[r].sentAt
        /\ req'[r].now = req[r].now /\ req'[r].existing = existing
    <3> DEFINE new == [req[r] EXCEPT !.existing = existing]
    <3>1. /\ new.event = req[r].event /\ new.payload = req[r].payload
          /\ new.interface = req[r].interface /\ new.sentAt = req[r].sentAt
          /\ new.now = req[r].now /\ new.existing = existing
      BY <2>1 DEF Request
    <3>2. req'[r] = new
      BY <2>1 DEF Base, TypeOK
    <3> QED
      BY <3>1, <3>2
  <2>4. Finds(r)
    BY <2>1, <2>2, <2>3 DEF Finds, SameDelivery
  <2> QED
    BY <2>4 DEF RequestStep
<1>7. CASE Reclaim(r)
  BY <1>4, <1>7, ClaimStep DEF Reclaim, RequestStep
<1>8. CASE Apply(r) \/ ApplyThrows(r)
  BY <1>8 DEF Apply, ApplyThrows, Goto, RequestStep, Working, Base, TypeOK
<1>9. CASE Complete(r)
  <2>1. CASE Leave(r)
    BY <1>4, <2>1
  <2>2. CASE Goto(r, "fail") /\ UNCHANGED <<receipts, req, processed, accepted>>
    BY <1>9, <2>2 DEF Complete, Goto, RequestStep, Working, Base, TypeOK
  <2> QED
    BY <1>9, <2>1, <2>2 DEF Complete, Answer202
<1>10. CASE Progress(r)
  BY <1>4, <1>5, <1>6, <1>7, <1>8, <1>9, <1>10
  DEF Progress, FindExisting, Touch, Answer202, Fail, Crash
<1> QED
  BY <1>1, <1>2, <1>3, <1>10 DEF Next, vars, Tick, Expire, Enroll, Configure, LateApply

------------------------------------------------------------------------------
\* A revision of an interface names one configuration.
ConfigAgrees(C) ==
    /\ \A i \in Interfaces :
           interface[i].configuration = C[i][interface[i].configurationRevision]
    /\ \A r \in Requests :
           pc[r] \in Claiming \union Working =>
               /\ req[r].interface.configuration =
                      C[req[r].event.interfaceId][req[r].interface.configurationRevision]
               /\ req[r].interface.configurationRevision
                      <= interface[req[r].event.interfaceId].configurationRevision
    /\ \A a \in attempts :
           /\ a.revision <= interface[a.event.interfaceId].configurationRevision
           /\ a.action = C[a.event.interfaceId][a.revision].rules[a.payload]
           /\ a.verificationPeriod = C[a.event.interfaceId][a.revision].verificationPeriod

Tables == [Interfaces -> [Nat -> Configuration]]

ConfigKnown == \E C \in Tables : ConfigAgrees(C)

LEMMA InitConfig == Init => ConfigKnown
<1> SUFFICES ASSUME Init PROVE ConfigKnown
  OBVIOUS
<1> DEFINE C == [i \in Interfaces |-> [n \in Nat |-> Initial]]
<1>1. C \in Tables
  BY WebhookAssumption DEF Tables
<1>2. ConfigAgrees(C)
  BY DEF Init, ConfigAgrees, Claiming, Working
<1> QED
  BY <1>1, <1>2 DEF ConfigKnown

LEMMA StepConfig ==
    ASSUME Base, Base', [Next]_vars, ConfigKnown
    PROVE  ConfigKnown'
<1> USE WebhookAssumption
<1>1. PICK C \in Tables : ConfigAgrees(C)
  BY DEF ConfigKnown
<1>2. \A r \in Requests : pc[r] \in Claiming \union Working =>
          /\ req[r].event.interfaceId \in Interfaces /\ req[r].payload \in Payloads
          /\ req[r].interface.configurationRevision \in Nat
  BY DEF Base, TypeOK, Request, Event, Interface, Claiming, Working
<1>3. \A a \in attempts : a.event.interfaceId \in Interfaces /\ a.revision \in Nat
  BY DEF Base, TypeOK, Attempt, Event
<1>4. ASSUME NEW i \in Interfaces, NEW configuration \in Configurations,
             Configure(i, configuration)
      PROVE  ConfigKnown'
  <2>1. PICK n \in Nat : n = interface[i].configurationRevision
    BY DEF Base, TypeOK, Interface
  <2>2. PICK D \in Tables :
            D = [C EXCEPT ![i] = [C[i] EXCEPT ![n + 1] = configuration]]
    BY <2>1 DEF Tables
  <2>3. /\ \A j \in Interfaces, m \in Nat : j # i \/ m <= n => D[j][m] = C[j][m]
        /\ D[i][n + 1] = configuration
    BY <2>1, <2>2 DEF Tables
  <2>4. /\ interface'[i].configuration = configuration
        /\ interface'[i].configurationRevision = n + 1
        /\ \A j \in Interfaces : j # i => interface'[j] = interface[j]
    BY <1>4, <2>1 DEF Configure, Configured, Base, TypeOK
  <2>5. \A j \in Interfaces : interface[j].configurationRevision \in Nat
    BY DEF Base, TypeOK, Interface
  <2>6. ConfigAgrees(D)'
    <3>1. \A j \in Interfaces :
              interface'[j].configuration = D[j][interface'[j].configurationRevision]
      BY <1>1, <2>3, <2>4, <2>5 DEF ConfigAgrees
    <3>2. \A r \in Requests :
              pc'[r] \in Claiming \union Working =>
                 /\ req'[r].interface.configuration =
                       D[req'[r].event.interfaceId][req'[r].interface.configurationRevision]
                 /\ req'[r].interface.configurationRevision
                        <= interface'[req'[r].event.interfaceId].configurationRevision
      <4>1. pc' = pc /\ req' = req
        BY <1>4 DEF Configure
      <4>2. SUFFICES ASSUME NEW r \in Requests, pc[r] \in Claiming \union Working
            PROVE  LET j == req[r].event.interfaceId
                       m == req[r].interface.configurationRevision
                   IN  /\ req[r].interface.configuration = D[j][m]
                       /\ m <= interface'[j].configurationRevision
        BY <4>1
      <4>3. PICK j \in Interfaces, m \in Nat :
                j = req[r].event.interfaceId /\ m = req[r].interface.configurationRevision
        BY <1>2, <4>2
      <4>4. req[r].interface.configuration = C[j][m]
            /\ m <= interface[j].configurationRevision
        BY <1>1, <4>2, <4>3 DEF ConfigAgrees
      <4>5. C[j][m] = D[j][m] /\ m <= interface'[j].configurationRevision
        BY <2>1, <2>3, <2>4, <4>4
      <4> QED
        BY <4>3, <4>4, <4>5
    <3>3. \A a \in attempts :
              /\ a.revision <= interface'[a.event.interfaceId].configurationRevision
              /\ D[a.event.interfaceId][a.revision] = C[a.event.interfaceId][a.revision]
      BY <1>1, <1>3, <2>1, <2>3, <2>4, <2>5 DEF ConfigAgrees
    <3> QED
      BY ZenonT(60), <1>1, <1>4, <3>1, <3>2, <3>3 DEF Configure, ConfigAgrees
  <2> QED
    BY <2>6 DEF ConfigKnown
<1>5. CASE interface' = interface
  <2>1. \A r \in Requests :
            pc'[r] \in Claiming \union Working =>
                \/ Arrives(r)
                \/ /\ pc[r] \in Claiming \union Working
                   /\ req'[r].interface = req[r].interface /\ req'[r].event = req[r].event
    BY RequestSteps
    DEF RequestStep, Finds, Claims, SameDelivery, Claiming, Working
  <2>2. \A r \in Requests :
            Arrives(r) =>
                /\ req'[r].event.interfaceId \in Interfaces
                /\ req'[r].interface = interface[req'[r].event.interfaceId]
                /\ req'[r].interface.configurationRevision \in Nat
    BY DEF Arrives, Event, Base, TypeOK, Interface
  <2>3. \A r \in Requests :
            pc'[r] \in Claiming \union Working =>
                /\ req'[r].interface.configuration =
                      C[req'[r].event.interfaceId][req'[r].interface.configurationRevision]
                /\ req'[r].interface.configurationRevision
                       <= interface'[req'[r].event.interfaceId].configurationRevision
    BY SMTT(30), <1>1, <1>5, <2>1, <2>2 DEF ConfigAgrees
  <2>4. \A a \in attempts' :
            /\ a.revision <= interface[a.event.interfaceId].configurationRevision
            /\ a.action = C[a.event.interfaceId][a.revision].rules[a.payload]
            /\ a.verificationPeriod = C[a.event.interfaceId][a.revision].verificationPeriod
    <3>1. SUFFICES ASSUME NEW a \in attempts', a \notin attempts
                   PROVE  /\ a.revision <= interface[a.event.interfaceId].configurationRevision
                          /\ a.action = C[a.event.interfaceId][a.revision].rules[a.payload]
                          /\ a.verificationPeriod =
                                 C[a.event.interfaceId][a.revision].verificationPeriod
      BY <1>1 DEF ConfigAgrees
    <3>2. PICK r \in Requests : pc[r] = "apply" /\ a = Wanted(r)
      BY <3>1, AttemptSteps DEF AttemptStep
    <3>3. /\ req[r].interface.configuration =
                 C[req[r].event.interfaceId][req[r].interface.configurationRevision]
          /\ req[r].interface.configurationRevision
                 <= interface[req[r].event.interfaceId].configurationRevision
      BY <1>1, <3>2 DEF ConfigAgrees, Working
    <3> QED
      BY <3>2, <3>3 DEF Wanted, ActionOf
  <2>5. ConfigAgrees(C)'
    BY <1>1, <1>5, <2>3, <2>4 DEF ConfigAgrees
  <2> QED
    BY <2>5 DEF ConfigKnown
<1> QED
  BY ZenonT(60), <1>4, <1>5
  DEF Next, vars, Tick, Expire, Enroll, LateApply, Deliver, Progress, Insert, FindExisting, Touch,
      Reclaim, Apply, ApplyThrows, Complete, Fail, Crash

------------------------------------------------------------------------------
\* While an event can be claimed, its receipt has not expired.
Timing ==
    /\ \A e \in Event : issued[e] # None => issued[e] <= clock
    /\ \A r \in Requests :
           pc[r] \in Claiming =>
               /\ issued[req[r].event] # None
               /\ issued[req[r].event] <= req[r].sentAt
               /\ req[r].sentAt < issued[req[r].event] + Retention
               /\ clock <= req[r].sentAt + Delay
               /\ req[r].now >= req[r].sentAt - Skew
    /\ \A e \in Event :
           receipts[e] # None =>
               /\ issued[e] # None
               /\ receipts[e].expiresAt >= issued[e] - Skew + Retention + Grace

\* Nothing is known of the event, or nobody may claim it any more.
Untouched(e) ==
    /\ \A r \in Requests : pc[r] \in Holding => req[r].event # e
    /\ \A a \in attempts : a.event # e

Over(e) == issued[e] # None /\ clock >= issued[e] + Retention + Delay

Gone == \A e \in Event : receipts[e] = None => Over(e) \/ Untouched(e)

LEMMA InitTiming == Init => Timing /\ Gone
  BY SMTT(40) DEF Init, Timing, Gone, Untouched, Claiming, Working, Holding

\* The clock and the first deliveries.
ClockStep ==
    /\ clock' \in {clock, clock + 1}
    /\ \A e \in Event : issued[e] # None => issued'[e] = issued[e]
    /\ \A e \in Event : issued'[e] # None => issued'[e] = issued[e] \/ issued'[e] = clock
    /\ clock' # clock => /\ UNCHANGED <<pc, req, receipts, issued, attempts>>
                         /\ \A r \in Requests :
                                pc[r] \in Claiming => clock < req[r].sentAt + Delay

LEMMA ClockSteps ==
    ASSUME Base, [Next]_vars
    PROVE  ClockStep
<1> USE WebhookAssumption
<1>1. CASE UNCHANGED <<clock, issued>>
  BY <1>1 DEF ClockStep
<1>2. CASE Tick
  BY <1>2 DEF Tick, ClockStep, Base, TypeOK
<1>3. ASSUME NEW r \in Requests, NEW event \in Event, NEW payload \in Payloads,
             NEW timestamp \in Timestamps, Deliver(r, event, payload, timestamp)
      PROVE  ClockStep
  BY <1>3 DEF Deliver, ClockStep, Base, TypeOK
<1> QED
  BY <1>1, <1>2, <1>3
  DEF Next, vars, Expire, Configure, Enroll, LateApply, Progress, Insert, FindExisting, Touch,
      Reclaim, Apply, ApplyThrows, Complete, Fail, Crash

LEMMA StepTiming ==
    ASSUME Base, Base', [Next]_vars, Timing
    PROVE  Timing'
<1> USE WebhookAssumption
<1>1. clock \in Nat /\ clock' \in Nat /\ \A e \in Event : issued[e] # None => issued[e] \in Nat
  BY DEF Base, TypeOK
<1>2. \A e \in Event : issued'[e] # None => issued'[e] <= clock'
  BY <1>1, ClockSteps DEF ClockStep, Timing
<1>3. ASSUME NEW r \in Requests, pc'[r] \in Claiming
      PROVE  /\ issued'[req'[r].event] # None
             /\ issued'[req'[r].event] <= req'[r].sentAt
             /\ req'[r].sentAt < issued'[req'[r].event] + Retention
             /\ clock' <= req'[r].sentAt + Delay
             /\ req'[r].now >= req'[r].sentAt - Skew
  <2>1. CASE Arrives(r)
    <3>1. PICK e \in Event : e = req'[r].event
      BY <2>1 DEF Arrives
    <3>2. issued'[e] = IF issued[e] = None THEN clock ELSE issued[e]
      BY <2>1, <3>1 DEF Arrives, Base, TypeOK
    <3>3. issued'[e] \in Nat /\ issued'[e] <= clock /\ clock < issued'[e] + Retention
      BY <1>1, <2>1, <3>1, <3>2 DEF Arrives, Timing
    <3>4. clock' = clock /\ req'[r].sentAt = clock /\ req'[r].now >= clock - Skew
      BY <2>1 DEF Arrives
    <3>5. issued'[e] # None
      BY <3>3
    <3> QED
      BY <1>1, <3>1, <3>3, <3>4, <3>5
  <2>2. CASE /\ pc[r] \in Claiming /\ req'[r].event = req[r].event
             /\ req'[r].sentAt = req[r].sentAt /\ req'[r].now = req[r].now
    <3>1. req[r].event \in Event /\ req[r].sentAt \in Nat
      BY <2>2 DEF Base, TypeOK, Request, Claiming
    <3> QED
      BY <1>1, <2>2, <3>1, ClockSteps DEF ClockStep, Timing
  <2> QED
    BY <1>3, <2>1, <2>2, RequestSteps
    DEF RequestStep, Finds, Claims, SameDelivery, Claiming, Working
<1>4. ASSUME NEW e \in Event, receipts'[e] # None
      PROVE  /\ issued'[e] # None
             /\ receipts'[e].expiresAt >= issued'[e] - Skew + Retention + Grace
  <2>1. ASSUME NEW r \in Requests, pc[r] \in Claiming, req[r].event = e,
               receipts'[e].expiresAt = receiptExpiry(req[r].now)
        PROVE  /\ issued'[e] # None
               /\ receipts'[e].expiresAt >= issued'[e] - Skew + Retention + Grace
    <3>1. req[r].sentAt \in Nat /\ req[r].now \in Int
      BY <2>1 DEF Base, TypeOK, Request, Claiming
    <3>2. issued'[e] = issued[e] /\ issued[e] # None
      BY <2>1, ClockSteps DEF ClockStep, Timing
    <3>3. /\ issued[e] <= req[r].sentAt /\ req[r].now >= req[r].sentAt - Skew
          /\ issued[e] \in Nat
      BY <1>1, <2>1, <3>2 DEF Timing
    <3> QED
      BY <2>1, <3>1, <3>2, <3>3 DEF receiptExpiry
  <2>2. CASE /\ receipts[e] # None /\ receipts'[e].expiresAt >= receipts[e].expiresAt
    <3>1. receipts[e].expiresAt \in Int /\ receipts'[e].expiresAt \in Int
      BY <1>4, <2>2 DEF Base, TypeOK, Receipt
    <3>2. issued'[e] = issued[e] /\ issued[e] # None
      BY <2>2, ClockSteps DEF ClockStep, Timing
    <3> QED
      BY <1>1, <2>2, <3>1, <3>2 DEF Timing
  <2>3. CASE receipts'[e] = receipts[e]
    <3>1. receipts[e].expiresAt \in Int
      BY <1>4, <2>3 DEF Base, TypeOK, Receipt
    <3> QED
      BY <1>4, <2>2, <2>3, <3>1
  <2>4. CASE Inserted(e)
    BY <2>1, <2>4 DEF Inserted, Claiming
  <2>5. CASE Kept(e)
    BY <2>1, <2>2, <2>5 DEF Kept
  <2> QED
    BY <1>4, <2>3, <2>4, <2>5, ReceiptSteps DEF ReceiptStep, Expired
<1> QED
  BY <1>2, <1>3, <1>4 DEF Timing

\* GraceCovers: when a receipt expires nobody may claim its event any more.
LEMMA StepGone ==
    ASSUME GraceCovers, Base, Base', [Next]_vars, Timing, Gone
    PROVE  Gone'
<1> USE WebhookAssumption
<1> SUFFICES ASSUME NEW e \in Event, receipts'[e] = None
             PROVE  Over(e)' \/ Untouched(e)'
  BY DEF Gone
<1>1. clock \in Nat /\ clock' \in Nat /\ clock' >= clock
      /\ (issued[e] # None => issued[e] \in Nat /\ issued'[e] = issued[e])
  BY ClockSteps DEF ClockStep, Base, TypeOK
<1>2. Over(e) => Over(e)'
  BY <1>1 DEF Over
<1>3. CASE Expired(e)
  <2>1. /\ issued[e] # None /\ receipts[e].expiresAt <= clock /\ receipts[e].expiresAt \in Int
        /\ receipts[e].expiresAt >= issued[e] - Skew + Retention + Grace
    BY <1>3 DEF Expired, Timing, Base, TypeOK, Receipt
  <2>2. Over(e)
    BY <1>1, <2>1 DEF Over, GraceCovers
  <2> QED
    BY <1>2, <2>2
<1>4. CASE receipts[e] = None /\ ~Over(e)
  <2>1. Untouched(e)
    BY <1>4 DEF Gone
  <2>2. ASSUME NEW r \in Requests, pc'[r] \in Holding
        PROVE  req'[r].event # e
    <3>1. CASE pc'[r] = pc[r] /\ req'[r] = req[r]
      BY <2>1, <2>2, <3>1 DEF Untouched
    <3>2. CASE Finds(r)
      BY <1>4, <3>2 DEF Finds, SameDelivery
    <3>3. CASE Claims(r)
      BY <3>3 DEF Claims, SameDelivery
    <3>4. CASE pc[r] \in Working /\ pc'[r] \in Working /\ req'[r] = req[r]
      BY <2>1, <3>4 DEF Untouched, Holding
    <3> QED
      BY <2>2, <3>1, <3>2, <3>3, <3>4, RequestSteps
      DEF RequestStep, Arrives, Holding, Working
  <2>3. \A a \in attempts' : a.event # e
    <3>1. \A r \in Requests : pc[r] = "apply" => Wanted(r).event # e
      BY <2>1 DEF Untouched, Holding, Working, Wanted
    <3> QED
      BY <2>1, <3>1, AttemptSteps DEF AttemptStep, Untouched
  <2> QED
    BY <2>2, <2>3 DEF Untouched
<1> QED
  BY <1>2, <1>3, <1>4, ReceiptSteps DEF ReceiptStep, Inserted, Kept
------------------------------------------------------------------------------
\* An event has one meaning from the first claim of its receipt on.
Says(m, payload, timestamp, revision) ==
    m.payload = payload /\ m.eventTimestamp = timestamp /\ m.revision = revision

EventAgrees(M) ==
    /\ \A e \in Event :
           receipts[e] # None =>
               Says(M[e], receipts[e].payload, receipts[e].eventTimestamp,
                    receipts[e].configurationRevision)
    /\ \A r \in Requests :
           /\ pc[r] = "reclaim" =>
                  Says(M[req[r].event], req[r].payload, req[r].existing.eventTimestamp,
                       req[r].interface.configurationRevision)
           /\ pc[r] \in Working =>
                  Says(M[req[r].event], req[r].payload, req[r].timestamp,
                       req[r].interface.configurationRevision)
    /\ \A a \in attempts : Says(M[a.event], a.payload, a.eventTimestamp, a.revision)

EventKnown == \E M : EventAgrees(M)

LEMMA InitEvent == Init => EventKnown
<1>1. ASSUME Init PROVE EventAgrees(None)
  BY <1>1 DEF Init, EventAgrees, Working
<1> QED
  BY <1>1 DEF EventKnown

\* Nobody inserts the receipt of an event that somebody else still works on.
LEMMA InsertedUntouched ==
    ASSUME Base, Timing, Gone, NEW e \in Event, Inserted(e)
    PROVE  Untouched(e)
<1> USE WebhookAssumption
<1>1. PICK r \in Requests : pc[r] \in Claiming /\ req[r].event = e
  BY DEF Inserted, Claiming
<1>2. /\ issued[e] \in Nat /\ req[r].sentAt \in Nat /\ clock \in Nat
      /\ req[r].sentAt < issued[e] + Retention /\ clock <= req[r].sentAt + Delay
  BY <1>1 DEF Timing, Base, TypeOK, Request, Claiming
<1>3. ~Over(e)
  BY <1>2 DEF Over
<1> QED
  BY <1>3 DEF Gone, Inserted

LEMMA StepEvent ==
    ASSUME Base, Base', [Next]_vars, Timing, Gone, EventKnown
    PROVE  EventKnown'
<1> USE WebhookAssumption
<1>1. PICK M : EventAgrees(M)
  BY DEF EventKnown
<1>2. PICK N : N = [e \in Event |->
                        IF Inserted(e)
                        THEN [payload |-> receipts'[e].payload,
                              eventTimestamp |-> receipts'[e].eventTimestamp,
                              revision |-> receipts'[e].configurationRevision]
                        ELSE M[e]]
  OBVIOUS
<1>3. \A e \in Event : ~Inserted(e) => N[e] = M[e]
  BY <1>2
<1>4. \A e \in Event :
          Inserted(e) => /\ Untouched(e)
                         /\ Says(N[e], receipts'[e].payload, receipts'[e].eventTimestamp,
                                 receipts'[e].configurationRevision)
  BY <1>2, InsertedUntouched DEF Says
<1>5. ASSUME NEW e \in Event, receipts'[e] # None
      PROVE  Says(N[e], receipts'[e].payload, receipts'[e].eventTimestamp,
                  receipts'[e].configurationRevision)
  <2>1. CASE Inserted(e)
    BY <1>4, <2>1
  <2>2. CASE ~Inserted(e)
    <3>1. /\ receipts[e] # None
          /\ receipts'[e].payload = receipts[e].payload
          /\ receipts'[e].eventTimestamp = receipts[e].eventTimestamp
          /\ receipts'[e].configurationRevision = receipts[e].configurationRevision
      BY <1>5, <2>2, ReceiptSteps DEF ReceiptStep, Kept, Expired
    <3>2. Says(M[e], receipts[e].payload, receipts[e].eventTimestamp,
               receipts[e].configurationRevision)
      BY <1>1, <3>1 DEF EventAgrees
    <3> QED
      BY <1>3, <2>2, <3>1, <3>2 DEF Says
  <2> QED
    BY <2>1, <2>2
<1>6. ASSUME NEW r \in Requests
      PROVE  /\ pc[r] \in {"reclaim"} \union Working =>
                    /\ req[r].event \in Event
                    /\ N[req[r].event] = M[req[r].event]
             /\ pc'[r] \in {"reclaim"} \union Working => req'[r].event \in Event
  <2>1. /\ pc[r] \in {"reclaim"} \union Working => req[r].event \in Event
        /\ pc'[r] \in {"reclaim"} \union Working => req'[r].event \in Event
    BY DEF Base, TypeOK, Request, Working, Claiming
  <2>2. pc[r] \in {"reclaim"} \union Working => ~Untouched(req[r].event)
    BY DEF Untouched, Holding
  <2> QED
    BY <1>3, <1>4, <2>1, <2>2
<1>7. ASSUME NEW r \in Requests
      PROVE  /\ pc'[r] = "reclaim" =>
                    Says(N[req'[r].event], req'[r].payload, req'[r].existing.eventTimestamp,
                         req'[r].interface.configurationRevision)
             /\ pc'[r] \in Working =>
                    Says(N[req'[r].event], req'[r].payload, req'[r].timestamp,
                         req'[r].interface.configurationRevision)
  <2>1. CASE \/ pc'[r] = pc[r] /\ req'[r] = req[r]
             \/ pc[r] \in Working /\ pc'[r] \in Working /\ req'[r] = req[r]
    <3>1. /\ req'[r] = req[r]
          /\ pc'[r] = "reclaim" => pc[r] = "reclaim"
          /\ pc'[r] \in Working => pc[r] \in Working
      BY <2>1 DEF Working
    <3>2. /\ pc[r] = "reclaim" =>
                 Says(M[req[r].event], req[r].payload, req[r].existing.eventTimestamp,
                      req[r].interface.configurationRevision)
          /\ pc[r] \in Working =>
                 Says(M[req[r].event], req[r].payload, req[r].timestamp,
                      req[r].interface.configurationRevision)
      BY <1>1 DEF EventAgrees
    <3>3. pc[r] \in {"reclaim"} \union Working => N[req[r].event] = M[req[r].event]
      BY <1>6
    <3> QED
      BY <3>1, <3>2, <3>3 DEF Says
  <2>2. CASE Finds(r) /\ pc'[r] = "reclaim"
    <3>1. PICK e \in Event : e = req[r].event /\ e = req'[r].event
      BY <1>6, <2>2 DEF Finds, SameDelivery
    <3>2. ~Inserted(e) /\ receipts[e] # None /\ req'[r].existing = receipts[e]
      BY <2>2, <3>1 DEF Finds, Inserted
    <3>3. req'[r].payload = receipts[e].payload
      BY <2>2, <3>2 DEF Base, Answers
    <3>4. receipts[e].configurationRevision = req'[r].interface.configurationRevision
      BY <2>2, <3>1 DEF Finds, SameDelivery
    <3>5. Says(M[e], receipts[e].payload, receipts[e].eventTimestamp,
               receipts[e].configurationRevision)
      BY <1>1, <3>2 DEF EventAgrees
    <3> QED
      BY <1>3, <2>2, <3>1, <3>2, <3>3, <3>4, <3>5 DEF Says, Working
  <2>3. CASE Claims(r)
    <3>1. PICK e \in Event : e = req[r].event /\ e = req'[r].event
      BY <1>6, <2>3 DEF Claims, SameDelivery, Working
    <3>2. /\ req'[r].payload = receipts'[e].payload
          /\ req'[r].timestamp = receipts'[e].eventTimestamp
          /\ Says(N[e], receipts'[e].payload, receipts'[e].eventTimestamp,
                  receipts'[e].configurationRevision)
      BY <1>5, <2>3, <3>1 DEF Claims, SameDelivery
    <3>3. N[e].revision = req'[r].interface.configurationRevision
      <4>1. CASE pc[r] = "claim"
        BY <2>3, <3>1, <3>2, <4>1 DEF Claims, SameDelivery, Says
      <4>2. CASE pc[r] = "reclaim"
        BY <1>1, <1>6, <2>3, <3>1, <4>2 DEF Claims, SameDelivery, EventAgrees, Says
      <4> QED
        BY <2>3, <4>1, <4>2 DEF Claims
    <3> QED
      BY <2>3, <3>1, <3>2, <3>3 DEF Says, Claims
  <2> QED
    BY <2>1, <2>2, <2>3, RequestSteps DEF RequestStep, Arrives, Finds, Working
<1>8. ASSUME NEW a \in attempts'
      PROVE  Says(N[a.event], a.payload, a.eventTimestamp, a.revision)
  <2>1. CASE a \in attempts
    <3>1. a.event \in Event /\ ~Untouched(a.event)
      BY <2>1 DEF Untouched, Base, TypeOK, Attempt
    <3> QED
      BY <1>1, <1>3, <1>4, <2>1, <3>1 DEF EventAgrees
  <2>2. CASE a \notin attempts
    <3>1. PICK r \in Requests : pc[r] = "apply" /\ a = Wanted(r)
      BY <2>2, <1>8, AttemptSteps DEF AttemptStep
    <3>2. /\ a.event = req[r].event /\ a.payload = req[r].payload
          /\ a.eventTimestamp = req[r].timestamp
          /\ a.revision = req[r].interface.configurationRevision
      BY <3>1 DEF Wanted
    <3> QED
      BY <1>1, <1>6, <3>1, <3>2 DEF EventAgrees, Working
  <2> QED
    BY <2>1, <2>2
<1>9. EventAgrees(N)'
  BY <1>5, <1>7, <1>8 DEF EventAgrees
<1> QED
  BY <1>9 DEF EventKnown

LEMMA MeaningFollows == Base /\ ConfigKnown /\ EventKnown => OneMeaning
<1> SUFFICES ASSUME Base, ConfigKnown, EventKnown,
                    NEW a \in attempts, NEW b \in attempts, a.event = b.event
             PROVE  a = b
  BY DEF OneMeaning
<1>1. a \in Attempt /\ b \in Attempt
  BY DEF Base, TypeOK
<1>2. PICK M : EventAgrees(M)
  BY DEF EventKnown
<1>3. PICK C \in Tables : ConfigAgrees(C)
  BY DEF ConfigKnown
<1>4. a.payload = b.payload /\ a.eventTimestamp = b.eventTimestamp /\ a.revision = b.revision
  BY <1>2 DEF EventAgrees, Says
<1>5. a.action = b.action /\ a.verificationPeriod = b.verificationPeriod
  BY <1>3, <1>4 DEF ConfigAgrees
<1> QED
  BY <1>1, <1>4, <1>5 DEF Attempt

------------------------------------------------------------------------------
\* The user carries an event that some attempt wrote, and settled events are of
\* the interface it is enrolled with.
Carried ==
    /\ user.webhookEvent # None =>
           \E a \in attempts : /\ a.event = user.webhookEvent.event
                               /\ a.eventTimestamp = user.webhookEvent.timestamp
    /\ \A a \in settled : a.event.interfaceId = user.webhookInterfaceId

Ordered == NewestPrevails /\ Carried

LEMMA InitOrdered == Init => Ordered
  BY WebhookAssumption DEF Init, Ordered, NewestPrevails, Carried

LEMMA UserSteps ==
    ASSUME Base, [Next]_vars
    PROVE  /\ attempts \subseteq attempts'
           /\ \/ UNCHANGED <<user, settled>>
              \/ \E i \in Interfaces : Enroll(i)
              \/ \E a \in attempts' : applyResult(a)
<1>1. attempts \subseteq attempts'
  BY AttemptSteps DEF AttemptStep
<1>2. CASE \E a \in inFlight : LateApply(a)
  <2>1. PICK a \in inFlight : LateApply(a)
    BY <1>2
  <2>2. a \in attempts' /\ applyResult(a)
    BY <1>1, <2>1 DEF LateApply, Base, TypeOK
  <2> QED
    BY <1>1, <2>2
<1>3. ASSUME NEW r \in Requests, Apply(r)
      PROVE  UNCHANGED <<user, settled>> \/ \E a \in attempts' : applyResult(a)
  <2>1. CASE ActionOf(r) = None
    BY <1>3, <2>1 DEF Apply
  <2>2. CASE ActionOf(r) # None
    <3>1. applyResult(Wanted(r)) /\ Wanted(r) \in attempts'
      BY <1>3, <2>2 DEF Apply
    <3> QED
      BY <3>1
  <2> QED
    BY <2>1, <2>2
<1> QED
  BY ZenonT(60), <1>1, <1>2, <1>3
  DEF Next, vars, Tick, Expire, Configure, Deliver, Progress, Insert, FindExisting,
      Touch, Reclaim, ApplyThrows, Complete, Fail, Crash

\* What applyResult leaves when it writes the event, and when an event that the
\* user carries already is in front of it.
LEMMA WrittenEvent ==
    ASSUME Base, NEW a \in Attempt, applyResult(a),
           user.webhookInterfaceId = a.event.interfaceId, webhookEventOrderSelector(a)
    PROVE  /\ user'.webhookEvent = [event |-> a.event, timestamp |-> a.eventTimestamp]
           /\ user'.webhookInterfaceId = user.webhookInterfaceId
           /\ user'.completed = (a.action = "complete")
           /\ a.action = "revoke" => user'.deadline = a.eventTimestamp + a.verificationPeriod
  BY DEF applyResult, Base, TypeOK, ActionVerification, Attempt

LEMMA SameUserOrdered ==
    ASSUME Ordered, UNCHANGED <<user, settled>>, attempts \subseteq attempts'
    PROVE  Ordered'
<1>1. NewestPrevails'
  BY DEF Ordered, NewestPrevails, Precedes
<1>2. Carried'
  BY DEF Ordered, Carried
<1> QED
  BY <1>1, <1>2 DEF Ordered

LEMMA ApplyOrdered ==
    ASSUME Base, Base', Ordered, OneMeaning', attempts \subseteq attempts',
           NEW a \in attempts', applyResult(a)
    PROVE  Ordered'
<1> USE WebhookAssumption
<1>1. CASE user.webhookInterfaceId # a.event.interfaceId
  <2>1. UNCHANGED <<user, settled>>
    BY <1>1 DEF applyResult
  <2> QED
    BY <2>1, SameUserOrdered
<1>2. CASE user.webhookInterfaceId = a.event.interfaceId
  <2>1. settled' = settled \union {a} /\ a \in Attempt
    BY <1>2 DEF applyResult, Base, TypeOK
  <2>2. \A b \in settled \union {a} :
            /\ b \in attempts' /\ b.eventTimestamp \in Int /\ b.event.eventId \in Nat
            /\ b.event.interfaceId = a.event.interfaceId /\ b.event \in Event
    <3>1. settled \union {a} \subseteq attempts' /\ attempts' \subseteq Attempt
      BY DEF Base, TypeOK
    <3>2. \A b \in Attempt :
              b.eventTimestamp \in Int /\ b.event.eventId \in Nat /\ b.event \in Event
      BY DEF Attempt, Event
    <3> QED
      BY <1>2, <3>1, <3>2 DEF Ordered, Carried
  <2>3. CASE webhookEventOrderSelector(a)
    <3>1. /\ user'.webhookEvent = [event |-> a.event, timestamp |-> a.eventTimestamp]
          /\ user'.webhookInterfaceId = a.event.interfaceId
          /\ user'.completed = (a.action = "complete")
          /\ a.action = "revoke" => user'.deadline = a.eventTimestamp + a.verificationPeriod
      BY <1>2, <2>1, <2>3, WrittenEvent
    <3>2. user'.webhookEvent # None
      <4>1. [event |-> a.event, timestamp |-> a.eventTimestamp] \in Marker
        BY <2>2 DEF Marker
      <4> QED
        BY <3>1, <4>1
    <3>3. \A b \in settled' : Precedes(b, user'.webhookEvent)
      <4>1. SUFFICES ASSUME NEW b \in settled PROVE Precedes(b, user'.webhookEvent)
        BY <2>1, <2>2, <3>1 DEF Precedes
      <4>2. /\ user.webhookEvent # None /\ Precedes(b, user.webhookEvent)
            /\ user.webhookEvent.event.interfaceId = a.event.interfaceId
        BY <1>2 DEF Ordered, NewestPrevails
      <4>3. user.webhookEvent.timestamp \in Int /\ user.webhookEvent.event.eventId \in Nat
        BY <4>2 DEF Base, TypeOK, ActionVerification, Marker, Event
      <4>4. \/ user.webhookEvent.timestamp < a.eventTimestamp
            \/ /\ user.webhookEvent.timestamp = a.eventTimestamp
               /\ user.webhookEvent.event.eventId <= a.event.eventId
        BY <2>3, <4>2 DEF webhookEventOrderSelector
      <4> QED
        BY <2>2, <3>1, <4>2, <4>3, <4>4 DEF Precedes
    <3>4. \A b \in settled' : b.event = a.event => b = a
      BY <2>1, <2>2 DEF OneMeaning
    <3>5. NewestPrevails'
      BY <3>1, <3>2, <3>3, <3>4 DEF NewestPrevails
    <3>6. Carried'
      BY <2>1, <2>2, <3>1 DEF Carried
    <3> QED
      BY <3>5, <3>6 DEF Ordered
  <2>4. CASE ~webhookEventOrderSelector(a)
    <3>1. user' = user
      BY <2>4 DEF applyResult
    <3>2. /\ user.webhookEvent # None
          /\ user.webhookEvent.event.interfaceId = a.event.interfaceId
          /\ ~(user.webhookEvent.timestamp < a.eventTimestamp)
          /\ ~(/\ user.webhookEvent.timestamp = a.eventTimestamp
               /\ user.webhookEvent.event.eventId <= a.event.eventId)
      BY <2>4 DEF webhookEventOrderSelector
    <3>3. user.webhookEvent.timestamp \in Int /\ user.webhookEvent.event.eventId \in Nat
      BY <3>2 DEF Base, TypeOK, ActionVerification, Marker, Event
    <3>4. Precedes(a, user.webhookEvent)
      BY <2>2, <3>2, <3>3 DEF Precedes
    <3>5. user.webhookEvent.event # a.event
      <4>1. PICK c \in attempts : /\ c.event = user.webhookEvent.event
                                  /\ c.eventTimestamp = user.webhookEvent.timestamp
        BY <3>2 DEF Ordered, Carried
      <4>2. c.event = a.event => c = a
        BY <4>1 DEF OneMeaning
      <4> QED
        BY <2>2, <3>2, <3>3, <4>1, <4>2
    <3>6. NewestPrevails'
      BY <1>2, <2>1, <3>1, <3>2, <3>4, <3>5 DEF Ordered, NewestPrevails, Precedes
    <3>7. Carried'
      BY <1>2, <2>1, <3>1 DEF Ordered, Carried
    <3> QED
      BY <3>6, <3>7 DEF Ordered
  <2> QED
    BY <2>3, <2>4
<1> QED
  BY <1>1, <1>2

LEMMA StepOrdered ==
    ASSUME Base, Base', [Next]_vars, Ordered, OneMeaning'
    PROVE  Ordered'
<1> USE WebhookAssumption
<1>1. attempts \subseteq attempts'
  BY UserSteps
<1>2. CASE UNCHANGED <<user, settled>>
  BY <1>1, <1>2, SameUserOrdered
<1>3. ASSUME NEW i \in Interfaces, Enroll(i)
      PROVE  Ordered'
  <2>1. settled' = {} /\ user'.webhookEvent = user.webhookEvent
    BY <1>3 DEF Enroll, Base, TypeOK, ActionVerification
  <2> QED
    BY <1>1, <2>1 DEF Ordered, NewestPrevails, Carried
<1>4. ASSUME NEW a \in attempts', applyResult(a)
      PROVE  Ordered'
  BY <1>1, <1>4, ApplyOrdered
<1> QED
  BY <1>2, <1>3, <1>4, UserSteps

------------------------------------------------------------------------------
Settling == Base /\ ConfigKnown /\ Timing /\ Gone /\ EventKnown /\ Ordered

\* The mapping, the times and the meaning of events are invariant.
LEMMA SettlingInvariance ==
    ASSUME GraceCovers
    PROVE  Spec => []Settling
<1>1. Init => Settling
  BY InitBase, InitConfig, InitTiming, InitEvent, InitOrdered DEF Settling
<1>2. Settling /\ [Next]_vars => Settling'
  <2> SUFFICES ASSUME Settling, [Next]_vars PROVE Settling'
    OBVIOUS
  <2>1. Base'
    BY StepBase DEF Settling
  <2>2. ConfigKnown' /\ Timing' /\ Gone' /\ EventKnown'
    BY <2>1, StepConfig, StepTiming, StepGone, StepEvent DEF Settling
  <2>3. OneMeaning'
    <3>1. Base' /\ ConfigKnown' /\ EventKnown' => OneMeaning'
      BY MeaningFollows, PTL
    <3> QED
      BY <2>1, <2>2, <3>1
  <2> QED
    BY <2>1, <2>2, <2>3, StepOrdered DEF Settling
<1> QED
  BY <1>1, <1>2, PTL DEF Spec

\* Whatever is delivered under the id of an event, by whichever workers and after
\* whatever change of the mapping, it is only ever applied in one way: the receipt
\* of the event outlives every delivery of it (receiptExpiry, claim).
THEOREM EventsHaveOneMeaning ==
    ASSUME GraceCovers
    PROVE  Spec => []OneMeaning
<1>1. Settling => OneMeaning
  BY MeaningFollows DEF Settling
<1> QED
  BY SettlingInvariance, <1>1, PTL

\* The user carries the newest event that reached it, in the state that event asks
\* for, in whatever order they were applied (webhookEventOrderSelector).
THEOREM UserFollowsNewest ==
    ASSUME GraceCovers
    PROVE  Spec => []NewestPrevails
<1>1. Settling => NewestPrevails
  BY DEF Settling, Ordered
<1> QED
  BY SettlingInvariance, <1>1, PTL
==============================================================================
