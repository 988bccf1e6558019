-------------------------- MODULE ApiIdempotencyProofs --------------------------
(***************************************************************************)
(* Proofs about ApiIdempotency, under GraceCovers.  The argument: while a  *)
(* request may still reserve, the receipt of an earlier one cannot have    *)
(* expired (Timing), so there is one reservation ever, and everything that *)
(* is in play belongs to it (Single); its one owner inserts once (Owners). *)
(***************************************************************************)
EXTENDS ApiIdempotency, TLAPS

Idle == \A r \in Requests : pc[r] = "idle"

Timing ==
    /\ issued # None => issued <= clock
    /\ \A r \in Requests :
           pc[r] # "idle" =>
               /\ issued # None
               /\ req[r].sentAt < issued + Retention
               /\ issued <= req[r].sentAt
               /\ clock <= req[r].sentAt + Delay
    /\ receipt # None =>
           /\ issued # None
           /\ receipt.expiresAt >= issued - Skew + Retention + Grace

\* Everything in play is the creation c.
AllAre(c) ==
    /\ made \subseteq {c} /\ inFlight \subseteq {c}
    /\ \A r \in Requests :
           pc[r] \in Reserved => req[r].resource = c.resource /\ req[r].payload = c.payload
    /\ receipt # None => receipt.resource = c.resource /\ receipt.payload = c.payload

NothingYet ==
    /\ receipt = None /\ made = {} /\ inFlight = {}
    /\ \A r \in Requests : pc[r] \notin Reserved

\* The replay window is over and no request is left.
Over == Idle /\ issued # None /\ clock >= issued + Retention

Single ==
    \/ NothingYet
    \/ \E c \in Creation : AllAre(c) /\ (receipt # None \/ Over)

Owners ==
    /\ \A q, r \in Requests :
           /\ pc[q] \in Reserved /\ req[q].owner
           /\ pc[r] \in Reserved /\ req[r].owner
           => q = r
    /\ \A r \in Requests :
           /\ pc[r] \in {"find", "guard", "refused", "reserve", "reread"} => ~req[r].owner
           /\ pc[r] \in {"creating", "created", "failed"} => req[r].owner
           /\ pc[r] \in {"recover", "creating"} /\ req[r].owner =>
                  Wanted(r) \notin made \union inFlight
    /\ made \intersect inFlight = {}

Documents ==
    /\ \A i \in Resources :
           stored[i] # None => [resource |-> i, payload |-> stored[i].payload] \in made
    /\ \A r \in Requests : pc[r] \in {"created", "complete", "confirm"} => Wanted(r) \in made
    /\ receipt # None /\ receipt.status = "completed" =>
           [resource |-> receipt.result, payload |-> receipt.payload] \in made

Promised ==
    /\ \A promise \in promises :
           \/ clock > promise.until
           \/ /\ receipt # None /\ receipt.status = "completed"
              /\ receipt.result = promise.resource
              /\ receipt.replayExpiresAt = promise.until
    /\ receipt # None /\ receipt.status = "completed" =>
           receipt.expiresAt = receipt.replayExpiresAt + Grace

IInv == TypeOK /\ Timing /\ Single /\ Owners /\ Documents /\ Promised /\ RepliesTrue

LEMMA InitIInv == Init => IInv
  BY IdempotencyAssumption, NoneAssumption
  DEF Init, IInv, TypeOK, Timing, Single, NothingYet, Owners, Documents, Promised, RepliesTrue,
      Pcs, Reserved

------------------------------------------------------------------------------
\* A request that ends: nothing is left of it in the invariant.
LEMMA EndOfRequest ==
    ASSUME IInv, NEW r \in Requests, pc[r] # "idle",
           pc' = [pc EXCEPT ![r] = "idle"], req' = [req EXCEPT ![r] = None],
           UNCHANGED <<clock, receipt, stored, issued, made>>,
           \/ inFlight' = inFlight
           \/ pc[r] = "creating" /\ inFlight' = inFlight \union {Wanted(r)}
    PROVE  /\ Timing' /\ Single' /\ Owners' /\ Documents'
           /\ inFlight' \subseteq Creation
           /\ pc' \in [Requests -> Pcs] /\ req' \in [Requests -> Request \union {None}]
           /\ \A q \in Requests : pc'[q] # "idle" => req'[q] \in Request
           /\ \A q \in Requests : pc'[q] \in Reserved => req'[q].resource \in Resources
<1> USE DEF IInv, TypeOK
<1>1. /\ \A q \in Requests : q # r => pc'[q] = pc[q] /\ req'[q] = req[q]
      /\ pc'[r] = "idle" /\ "idle" \notin Reserved
  BY DEF Reserved
<1>2. pc[r] = "creating" => pc[r] \in Reserved /\ Wanted(r) \in Creation
  BY DEF Reserved, Wanted, Creation, Request
<1>3. Timing'
  BY <1>1 DEF Timing
<1>4. Single'
  <2>1. CASE NothingYet
    <3>1. inFlight' = inFlight
      BY <1>2, <2>1 DEF NothingYet
    <3> QED
      BY <1>1, <2>1, <3>1 DEF Single, NothingYet
  <2>2. ASSUME NEW c \in Creation, AllAre(c), receipt # None \/ Over
        PROVE  Single'
    <3>1. receipt # None
      BY <2>2 DEF Over, Idle
    <3>2. pc[r] = "creating" => Wanted(r) = c
      <4>1. c = [resource |-> c.resource, payload |-> c.payload]
        BY DEF Creation
      <4> QED
        BY <1>2, <2>2, <4>1 DEF AllAre, Wanted
    <3>3. AllAre(c)'
      BY <1>1, <2>2, <3>2 DEF AllAre
    <3> QED
      BY <3>1, <3>3 DEF Single
  <2> QED
    BY <2>1, <2>2 DEF Single
<1>5. Owners'
  <2>1. \A q \in Requests : q # r => Wanted(q)' = Wanted(q)
    BY <1>1 DEF Wanted
  <2>2. CASE inFlight' = inFlight
    BY <1>1, <2>1, <2>2 DEF Owners
  <2>3. CASE pc[r] = "creating" /\ inFlight' = inFlight \union {Wanted(r)}
    <3>1. /\ req[r].owner /\ Wanted(r) \notin made /\ pc[r] \in Reserved
      BY <2>3 DEF Owners, Reserved
    <3>2. \A q \in Requests : q # r /\ pc[q] \in Reserved => ~req[q].owner
      BY <3>1 DEF Owners
    <3>3. \A q \in Requests : pc'[q] \in {"recover", "creating"} => q # r /\ ~req'[q].owner
      BY <1>1, <3>2 DEF Reserved
    <3>4. made' \intersect inFlight' = {}
      BY <2>3, <3>1 DEF Owners
    <3>5. \A q \in Requests : pc'[q] \in Reserved => q # r /\ ~req'[q].owner
      BY <1>1, <3>2
    <3>6. \A q \in Requests :
           /\ pc'[q] \in {"find", "guard", "refused", "reserve", "reread"} => ~req'[q].owner
           /\ pc'[q] \in {"creating", "created", "failed"} => req'[q].owner
      BY <1>1 DEF Owners
    <3> QED
      BY <3>3, <3>4, <3>5, <3>6 DEF Owners
  <2> QED
    BY <2>2, <2>3
<1>6. Documents'
  BY <1>1 DEF Documents, Wanted
<1>7. inFlight' \subseteq Creation
  BY <1>2
<1> QED
  BY <1>1, <1>3, <1>4, <1>5, <1>6, <1>7 DEF Pcs

LEMMA RefuseSafe ==
    ASSUME IInv, NEW r \in Requests, pc[r] # "idle", Refuse(r),
           UNCHANGED <<clock, receipt, stored, issued, made>>,
           \/ inFlight' = inFlight
           \/ pc[r] = "creating" /\ inFlight' = inFlight \union {Wanted(r)}
    PROVE  IInv'
<1>1. /\ pc' = [pc EXCEPT ![r] = "idle"] /\ req' = [req EXCEPT ![r] = None]
      /\ UNCHANGED <<reply, promises>>
  BY DEF Refuse, Goto
<1>2. TypeOK'
  BY <1>1, EndOfRequest DEF IInv, TypeOK
<1>3. Promised' /\ RepliesTrue'
  BY <1>1 DEF IInv, Promised, RepliesTrue
<1> QED
  BY <1>1, <1>2, <1>3, EndOfRequest DEF IInv

\* The answer to a request whose receipt is completed.
LEMMA TellSafe ==
    ASSUME IInv, NEW r \in Requests, pc[r] # "idle", NEW replayed \in BOOLEAN,
           validateReservation(r), receipt.status = "completed", Tell(r, receipt, replayed),
           UNCHANGED <<clock, receipt, stored, inFlight, issued, made>>
    PROVE  IInv'
<1> USE IdempotencyAssumption, NoneAssumption
<1>1. /\ pc' = [pc EXCEPT ![r] = "idle"] /\ req' = [req EXCEPT ![r] = None]
      /\ reply' = [reply EXCEPT ![r] = [resource |-> receipt.result, payload |-> req[r].payload,
                                        replayed |-> replayed]]
      /\ promises' = promises \union {[resource |-> receipt.result,
                                       until |-> receipt.replayExpiresAt]}
  BY DEF Tell, Goto
<1>2. /\ receipt # None /\ receipt.payload = req[r].payload
      /\ receipt.result \in Resources /\ receipt.replayExpiresAt \in Int
      /\ req[r].payload \in Payloads
  BY DEF validateReservation, IInv, TypeOK, Receipt, Request
<1>3. TypeOK'
  <2>1. /\ reply' \in [Requests -> Answered \union {None}]
        /\ promises' \subseteq [resource: Resources, until: Int]
    BY <1>1, <1>2 DEF IInv, TypeOK, Answered
  <2> QED
    BY <1>1, <2>1, EndOfRequest DEF IInv, TypeOK
<1>4. Promised'
  BY <1>1, <1>2 DEF IInv, Promised
<1>5. RepliesTrue'
  BY <1>1, <1>2 DEF IInv, TypeOK, RepliesTrue, Documents
<1> QED
  BY <1>1, <1>3, <1>4, <1>5, EndOfRequest DEF IInv

\* resumeReservation
LEMMA ResumeSafe ==
    ASSUME IInv, NEW r \in Requests, pc[r] \in {"find", "refused", "reread"}, Resume(r),
           UNCHANGED <<clock, receipt, stored, inFlight, issued, made>>
    PROVE  IInv'
<1> USE IdempotencyAssumption, NoneAssumption
<1>1. CASE Refuse(r)
  BY <1>1, RefuseSafe
<1>2. CASE validateReservation(r) /\ receipt.status = "completed" /\ Tell(r, receipt, TRUE)
  BY <1>2, TellSafe
<1>3. CASE /\ validateReservation(r) /\ receipt.status = "reserved" /\ Goto(r, "recover")
           /\ req' = [req EXCEPT ![r].resource = receipt.resource]
           /\ UNCHANGED <<reply, promises>>
  <2>1. /\ pc' = [pc EXCEPT ![r] = "recover"] /\ receipt # None
        /\ receipt.payload = req[r].payload /\ receipt.resource \in Resources
        /\ req[r] \in Request /\ ~req[r].owner
    BY <1>3 DEF Goto, validateReservation, IInv, TypeOK, Receipt, Owners
  <2>2. /\ \A q \in Requests : q # r => pc'[q] = pc[q] /\ req'[q] = req[q]
        /\ pc'[r] = "recover" /\ req'[r] = [req[r] EXCEPT !.resource = receipt.resource]
    BY <1>3, <2>1 DEF IInv, TypeOK
  <2>3. /\ req'[r] \in Request /\ req'[r].resource = receipt.resource
        /\ req'[r].payload = req[r].payload /\ ~req'[r].owner
        /\ req'[r].sentAt = req[r].sentAt
    <3> DEFINE new == [req[r] EXCEPT !.resource = receipt.resource]
    <3>1. /\ new \in Request /\ new.resource = receipt.resource
          /\ new.payload = req[r].payload /\ ~new.owner
          /\ new.sentAt = req[r].sentAt
      BY <2>1 DEF Request
    <3> QED
      BY <2>2, <3>1
  <2>4. TypeOK'
    BY <1>3, <2>1, <2>2, <2>3 DEF IInv, TypeOK, Pcs, Reserved
  <2>5. Timing'
    BY <2>2, <2>3 DEF IInv, Timing
  <2>6. Single'
    <3>1. PICK c \in Creation : AllAre(c)
      BY <2>1 DEF IInv, Single, NothingYet
    <3>2. AllAre(c)'
      BY <2>1, <2>2, <2>3, <3>1 DEF AllAre
    <3> QED
      BY <2>1, <3>2 DEF Single
  <2>7. Owners'
    BY <2>2, <2>3 DEF IInv, Owners, Wanted
  <2>8. Documents'
    BY <2>2 DEF IInv, Documents, Wanted
  <2>9. Promised' /\ RepliesTrue'
    BY <1>3 DEF IInv, Promised, RepliesTrue
  <2> QED
    BY <2>4, <2>5, <2>6, <2>7, <2>8, <2>9 DEF IInv
<1> QED
  BY <1>1, <1>2, <1>3 DEF Resume

\* A request goes on to another step, and changes nothing else.
LEMMA MoveSafe ==
    ASSUME IInv, NEW r \in Requests, pc[r] # "idle", NEW label \in Pcs \ {"idle"},
           Goto(r, label),
           UNCHANGED <<clock, receipt, stored, inFlight, req, reply, issued, made, promises>>,
           label \in Reserved => pc[r] \in Reserved,
           label \in {"find", "guard", "refused", "reserve", "reread"} => ~req[r].owner,
           label \in {"creating", "created", "failed"} => req[r].owner,
           label \in {"recover", "creating"} /\ req[r].owner =>
               Wanted(r) \notin made \union inFlight,
           label \in {"created", "complete", "confirm"} => Wanted(r) \in made
    PROVE  IInv'
<1>1. /\ pc' = [pc EXCEPT ![r] = label] /\ pc'[r] = label
      /\ \A q \in Requests : q # r => pc'[q] = pc[q]
  BY DEF Goto, IInv, TypeOK
<1>2. TypeOK'
  BY <1>1 DEF IInv, TypeOK
<1>3. Timing'
  BY <1>1 DEF IInv, Timing
<1>4. Single'
  BY <1>1 DEF IInv, Single, NothingYet, AllAre, Over, Idle
<1>5. Owners'
  <2>1. \A q \in Requests : pc'[q] \in Reserved => pc[q] \in Reserved
    BY <1>1
  <2> QED
    BY <1>1, <2>1 DEF IInv, Owners, Wanted
<1>6. Documents' /\ Promised' /\ RepliesTrue'
  BY <1>1 DEF IInv, Documents, Promised, RepliesTrue, Wanted
<1> QED
  BY <1>2, <1>3, <1>4, <1>5, <1>6 DEF IInv

\* The reservation: before it nothing was in play, after it there is one creation.
LEMMA ReserveSafe ==
    ASSUME GraceCovers, IInv, NEW r \in Requests, pc[r] = "reserve", receipt = None,
           NEW resource \in Resources, NEW now \in Now,
           receipt' = Candidate(r, resource, now),
           req' = [req EXCEPT ![r].resource = resource, ![r].owner = TRUE],
           Goto(r, "recover"),
           UNCHANGED <<clock, stored, inFlight, reply, issued, made, promises>>
    PROVE  IInv'
<1> USE IdempotencyAssumption, NoneAssumption
<1>1. /\ NothingYet /\ req[r] \in Request /\ clock \in Nat /\ now \in Int /\ now >= clock - Skew
      /\ issued \in Nat /\ issued <= clock
  BY DEF IInv, TypeOK, Single, Over, Idle, Timing, Now
<1>2. /\ receipt' \in Receipt /\ receipt' # None /\ receipt'.status = "reserved"
      /\ receipt'.resource = resource /\ receipt'.payload = req[r].payload
      /\ receipt'.expiresAt = now + PendingRetention + Grace
  <2>1. Candidate(r, resource, now) \in Receipt
    BY <1>1 DEF Candidate, Receipt, Request
  <2> QED
    BY <2>1 DEF Candidate
<1>3. /\ \A q \in Requests : q # r => pc'[q] = pc[q] /\ req'[q] = req[q]
      /\ pc'[r] = "recover"
      /\ req'[r] = [req[r] EXCEPT !.resource = resource, !.owner = TRUE]
  BY DEF Goto, IInv, TypeOK
<1>4. /\ req'[r] \in Request /\ req'[r].resource = resource /\ req'[r].owner
      /\ req'[r].payload = req[r].payload /\ req'[r].sentAt = req[r].sentAt
  <2> DEFINE new == [req[r] EXCEPT !.resource = resource, !.owner = TRUE]
  <2>1. /\ new \in Request /\ new.resource = resource /\ new.owner
        /\ new.payload = req[r].payload /\ new.sentAt = req[r].sentAt
    BY <1>1 DEF Request
  <2> QED
    BY <1>3, <2>1
<1>5. TypeOK'
  BY <1>2, <1>3, <1>4 DEF Goto, IInv, TypeOK, Pcs, Reserved
<1>6. Timing'
  <2>1. receipt'.expiresAt >= issued - Skew + Retention + Grace
    BY <1>1, <1>2
  <2>2. \A q \in Requests : pc'[q] # "idle" => pc[q] # "idle" /\ req'[q].sentAt = req[q].sentAt
    BY <1>3, <1>4
  <2> QED
    BY <1>1, <2>1, <2>2 DEF IInv, Timing
<1>7. Single'
  <2>1. PICK c \in Creation : c.resource = resource /\ c.payload = req[r].payload
    <3>1. [resource |-> resource, payload |-> req[r].payload] \in Creation
      BY <1>1 DEF Creation, Request
    <3> QED
      BY <3>1
  <2>2. AllAre(c)'
    BY <1>1, <1>2, <1>3, <1>4, <2>1 DEF AllAre, NothingYet
  <2> QED
    BY <1>2, <2>1, <2>2 DEF Single
<1>8. Owners'
  BY ZenonT(60), <1>1, <1>3, <1>4 DEF IInv, Owners, NothingYet, Wanted, Reserved
<1>9. Documents' /\ Promised' /\ RepliesTrue'
  BY <1>1, <1>2, <1>3 DEF IInv, Documents, Promised, RepliesTrue, NothingYet, Wanted, Reserved
<1> QED
  BY <1>5, <1>6, <1>7, <1>8, <1>9 DEF IInv

\* An insert of the one creation that was not made before.
LEMMA InsertFresh ==
    ASSUME IInv, NEW creation \in Creation, creation \notin made, made \subseteq {creation},
           InsertWithId(creation)
    PROVE  /\ stored[creation.resource] = None
           /\ stored' = [stored EXCEPT ![creation.resource] =
                             [payload |-> creation.payload, edited |-> FALSE]]
           /\ made' = {creation}
           /\ stored' \in [Resources -> Document \union {None}]
           /\ \A i \in Resources :
                  stored'[i] # None => [resource |-> i, payload |-> stored'[i].payload] \in made'
<1> USE DEF IInv, TypeOK
<1>1. made = {} /\ creation.resource \in Resources /\ creation.payload \in Payloads
      /\ creation = [resource |-> creation.resource, payload |-> creation.payload]
  BY DEF Creation
<1>2. \A i \in Resources : stored[i] = None
  BY <1>1 DEF Documents
<1>3. /\ stored' = [stored EXCEPT ![creation.resource] =
                             [payload |-> creation.payload, edited |-> FALSE]]
      /\ made' = {creation}
  BY <1>1, <1>2 DEF InsertWithId
<1>4. [payload |-> creation.payload, edited |-> FALSE] \in Document
  BY <1>1 DEF Document
<1> QED
  BY <1>1, <1>2, <1>3, <1>4

LEMMA CreateSafe ==
    ASSUME IInv, NEW r \in Requests, Create(r)
    PROVE  IInv' /\ \A c \in made : stored[c.resource] = None => stored'[c.resource] = None
<1> USE IdempotencyAssumption, NoneAssumption
<1>1. /\ pc[r] = "creating" /\ pc[r] \in Reserved /\ req[r].owner
      /\ Wanted(r) \notin made \union inFlight /\ Wanted(r) \in Creation
      /\ InsertWithId(Wanted(r))
      /\ UNCHANGED <<clock, receipt, inFlight, req, reply, issued, promises>>
  BY DEF Create, IInv, TypeOK, Owners, Reserved, Wanted, Creation, Request
<1>2. PICK c \in Creation : AllAre(c) /\ receipt # None
  BY <1>1 DEF IInv, Single, NothingYet, Over, Idle
<1>3. c = Wanted(r) /\ made \subseteq {Wanted(r)} /\ Wanted(r).resource = req[r].resource
  <2>1. c = [resource |-> c.resource, payload |-> c.payload]
    BY DEF Creation
  <2> QED
    BY <1>1, <1>2, <2>1 DEF AllAre, Wanted
<1>4. /\ stored[req[r].resource] = None
      /\ stored' \in [Resources -> Document \union {None}]
      /\ made' = {Wanted(r)} /\ made = {}
      /\ \A i \in Resources :
             stored'[i] # None => [resource |-> i, payload |-> stored'[i].payload] \in made'
  BY ZenonT(60), <1>1, <1>3, InsertFresh
<1>5. /\ pc' = [pc EXCEPT ![r] = "created"] /\ pc'[r] = "created" /\ "created" \in Reserved
      /\ \A q \in Requests : q # r => pc'[q] = pc[q]
  BY <1>4 DEF Create, Goto, IInv, TypeOK, Reserved
<1>6. TypeOK'
  BY <1>1, <1>4, <1>5 DEF IInv, TypeOK, Pcs
<1>7. Timing'
  BY <1>1, <1>5 DEF IInv, Timing
<1>8. Single'
  <2>1. AllAre(c)'
    BY <1>1, <1>2, <1>3, <1>4, <1>5 DEF AllAre
  <2> QED
    BY <1>1, <1>2, <2>1 DEF Single
<1>9. Owners'
  <2>1. \A q \in Requests : Wanted(q)' = Wanted(q)
    BY <1>1 DEF Wanted
  <2>2. \A q \in Requests : q # r /\ pc[q] \in Reserved => ~req[q].owner
    BY <1>1 DEF IInv, Owners
  <2> QED
    BY <1>1, <1>4, <1>5, <2>1, <2>2 DEF IInv, Owners, Reserved
<1>10. Documents'
  <2>1. \A q \in Requests : Wanted(q)' = Wanted(q)
    BY <1>1 DEF Wanted
  <2> QED
    BY <1>1, <1>4, <1>5, <2>1 DEF IInv, Documents
<1>11. Promised' /\ RepliesTrue'
  BY <1>1, <1>4 DEF IInv, Promised, RepliesTrue
<1> QED
  BY <1>4, <1>6, <1>7, <1>8, <1>9, <1>10, <1>11 DEF IInv

LEMMA LateInsertSafe ==
    ASSUME IInv, NEW creation \in inFlight, LateInsert(creation)
    PROVE  IInv' /\ \A c \in made : stored[c.resource] = None => stored'[c.resource] = None
<1> USE IdempotencyAssumption, NoneAssumption
<1>1. /\ creation \in Creation /\ creation \notin made
      /\ inFlight' = inFlight \ {creation} /\ InsertWithId(creation)
      /\ UNCHANGED <<clock, receipt, pc, req, reply, issued, promises>>
  BY DEF LateInsert, IInv, TypeOK, Owners
<1>2. PICK c \in Creation : AllAre(c) /\ (receipt # None \/ Over)
  BY DEF IInv, Single, NothingYet
<1>3. c = creation /\ made \subseteq {creation} /\ inFlight = {creation}
  BY <1>1, <1>2 DEF AllAre
<1>4. /\ stored' \in [Resources -> Document \union {None}]
      /\ made' = {creation} /\ made = {} /\ inFlight' = {}
      /\ \A i \in Resources :
             stored'[i] # None => [resource |-> i, payload |-> stored'[i].payload] \in made'
  <2>1. made = {} /\ inFlight' = {}
    BY <1>1, <1>3
  <2> QED
    BY <1>1, <1>3, <2>1, InsertFresh
<1>5. TypeOK'
  BY <1>1, <1>4 DEF IInv, TypeOK
<1>6. Timing' /\ Promised' /\ RepliesTrue'
  BY <1>1, <1>4 DEF IInv, Timing, Promised, RepliesTrue
<1>7. Single'
  <2>1. AllAre(c)' /\ (Over => Over')
    BY <1>1, <1>2, <1>3, <1>4 DEF AllAre, Over, Idle
  <2> QED
    BY <1>1, <1>2, <2>1 DEF Single
<1>8. Owners' /\ Documents'
  <2>1. \A q \in Requests : Wanted(q)' = Wanted(q)
    BY <1>1 DEF Wanted
  <2>2. \A q \in Requests : pc[q] \in {"recover", "creating"} /\ req[q].owner =>
            Wanted(q) # creation
    BY DEF IInv, Owners
  <2> QED
    BY <1>1, <1>4, <2>1, <2>2 DEF IInv, Owners, Documents
<1> QED
  BY <1>4, <1>5, <1>6, <1>7, <1>8 DEF IInv

\* store.complete takes effect.
LEMMA CompleteSafe ==
    ASSUME IInv, NEW r \in Requests, pc[r] = "complete",
           validateReservation(r), receipt.status = "reserved",
           NEW now \in Now, receipt' = Completed(r, now),
           Tell(r, receipt', ~req[r].owner),
           UNCHANGED <<clock, stored, inFlight, issued, made>>
    PROVE  IInv'
<1> USE IdempotencyAssumption, NoneAssumption
<1>1. /\ receipt # None /\ receipt.payload = req[r].payload /\ receipt \in Receipt
      /\ req[r] \in Request /\ req[r].resource \in Resources /\ clock \in Nat
      /\ now \in Int /\ now >= clock - Skew /\ issued \in Nat /\ issued <= clock
      /\ Wanted(r) \in made
  BY DEF validateReservation, IInv, TypeOK, Timing, Documents, Reserved, Now
<1>2. /\ receipt' \in Receipt /\ receipt' # None /\ receipt'.status = "completed"
      /\ receipt'.resource = receipt.resource /\ receipt'.payload = receipt.payload
      /\ receipt'.result = req[r].resource /\ receipt'.replayExpiresAt = now + Retention
      /\ receipt'.expiresAt = now + Retention + Grace
  <2>1. Completed(r, now) \in Receipt
    BY <1>1 DEF Completed, Receipt, Request
  <2> QED
    BY <2>1 DEF Completed
<1>3. /\ pc' = [pc EXCEPT ![r] = "idle"] /\ req' = [req EXCEPT ![r] = None]
      /\ reply' = [reply EXCEPT ![r] = [resource |-> req[r].resource,
                                        payload |-> req[r].payload,
                                        replayed |-> ~req[r].owner]]
      /\ promises' = promises \union {[resource |-> req[r].resource,
                                       until |-> now + Retention]}
  BY <1>2 DEF Tell, Goto
<1>4. /\ \A q \in Requests : q # r => pc'[q] = pc[q] /\ req'[q] = req[q]
      /\ pc'[r] = "idle" /\ "idle" \notin Reserved
  BY <1>3 DEF IInv, TypeOK, Reserved
<1>5. TypeOK'
  <2>1. /\ reply' \in [Requests -> Answered \union {None}]
        /\ promises' \subseteq [resource: Resources, until: Int]
    BY <1>1, <1>3 DEF IInv, TypeOK, Answered, Request
  <2> QED
    BY <1>2, <1>3, <1>4, <2>1 DEF IInv, TypeOK, Pcs
<1>6. Timing'
  BY <1>1, <1>2, <1>4 DEF IInv, Timing
<1>7. Single'
  <2>1. PICK c \in Creation : AllAre(c)
    BY <1>1 DEF IInv, Single, NothingYet
  <2>2. AllAre(c)'
    BY <1>1, <1>2, <1>4, <2>1 DEF AllAre
  <2> QED
    BY <1>2, <2>2 DEF Single
<1>8. Owners'
  BY <1>4 DEF IInv, Owners, Wanted, Reserved
<1>9. Documents'
  <2>1. [resource |-> receipt'.result, payload |-> receipt'.payload] \in made
    BY <1>1, <1>2 DEF Wanted
  <2>2. \A q \in Requests : q # r => Wanted(q)' = Wanted(q)
    BY <1>4 DEF Wanted
  <2> QED
    BY <1>4, <2>1, <2>2 DEF IInv, Documents
<1>10. Promised'
  BY <1>1, <1>2, <1>3 DEF IInv, Promised
<1>11. RepliesTrue'
  BY <1>1, <1>3 DEF IInv, TypeOK, RepliesTrue, Wanted
<1> QED
  BY <1>5, <1>6, <1>7, <1>8, <1>9, <1>10, <1>11 DEF IInv

LEMMA CreateThrowsSafe ==
    ASSUME IInv, NEW r \in Requests, CreateThrows(r)
    PROVE  IInv'
<1> USE IdempotencyAssumption, NoneAssumption
<1>1. /\ pc[r] \in {"creating", "created"} /\ pc[r] \in Reserved /\ req[r].owner
      /\ pc' = [pc EXCEPT ![r] = "failed"] /\ pc'[r] = "failed" /\ "failed" \in Reserved
      /\ \A q \in Requests : q # r => pc'[q] = pc[q]
      /\ UNCHANGED <<clock, receipt, req, reply, issued, made, promises>>
      /\ Wanted(r) \in Creation
  BY DEF CreateThrows, Goto, IInv, TypeOK, Owners, Reserved, Wanted, Creation, Request
<1>2. \/ stored' = stored /\ inFlight' = inFlight
      \/ stored' = stored /\ pc[r] = "creating" /\ inFlight' = inFlight \union {Wanted(r)}
      \/ inFlight' = inFlight /\ stored' = [stored EXCEPT ![req[r].resource] = None]
  BY DEF CreateThrows
<1>3. /\ stored' \in [Resources -> Document \union {None}]
      /\ \A i \in Resources : stored'[i] # None => stored'[i] = stored[i]
      /\ inFlight' \subseteq Creation
  BY <1>1, <1>2 DEF IInv, TypeOK
<1>4. TypeOK'
  BY <1>1, <1>3 DEF IInv, TypeOK, Pcs
<1>5. Timing' /\ Promised' /\ RepliesTrue'
  BY <1>1 DEF IInv, Timing, Promised, RepliesTrue
<1>6. Single'
  <2>1. PICK c \in Creation : AllAre(c) /\ receipt # None
    BY <1>1 DEF IInv, Single, NothingYet, Over, Idle
  <2>2. Wanted(r) = c
    <3>1. c = [resource |-> c.resource, payload |-> c.payload]
      BY DEF Creation
    <3> QED
      BY <1>1, <2>1, <3>1 DEF AllAre, Wanted
  <2>3. AllAre(c)'
    BY <1>1, <1>2, <2>1, <2>2 DEF AllAre
  <2> QED
    BY <1>1, <2>1, <2>3 DEF Single
<1>7. Owners'
  <2>1. \A q \in Requests : Wanted(q)' = Wanted(q)
    BY <1>1 DEF Wanted
  <2>2. \A q \in Requests : q # r /\ pc[q] \in Reserved => ~req[q].owner
    BY <1>1 DEF IInv, Owners
  <2>3. pc[r] = "creating" => Wanted(r) \notin made
    BY <1>1 DEF IInv, Owners
  <2>4. made' \intersect inFlight' = {}
    BY <1>1, <1>2, <2>3 DEF IInv, Owners
  <2>5. \A q \in Requests : pc'[q] \in {"recover", "creating"} => ~req[q].owner
    BY <1>1, <2>2 DEF Reserved
  <2> QED
    BY <1>1, <2>1, <2>2, <2>4, <2>5 DEF IInv, Owners
<1>8. Documents'
  <2>1. \A q \in Requests : Wanted(q)' = Wanted(q)
    BY <1>1 DEF Wanted
  <2> QED
    BY <1>1, <1>3, <2>1 DEF IInv, Documents
<1> QED
  BY <1>4, <1>5, <1>6, <1>7, <1>8 DEF IInv

\* Once the receipt expires no request is left, and none may come.
LEMMA ExpireSafe ==
    ASSUME GraceCovers, IInv, Expire
    PROVE  IInv'
<1> USE IdempotencyAssumption, NoneAssumption
<1>1. /\ receipt # None /\ receipt \in Receipt /\ receipt.expiresAt <= clock /\ receipt' = None
      /\ UNCHANGED <<clock, stored, inFlight, pc, req, reply, issued, made, promises>>
  BY DEF Expire, IInv, TypeOK
<1>2. /\ clock \in Nat /\ issued \in Nat /\ receipt.expiresAt \in Int
      /\ receipt.expiresAt >= issued - Skew + Retention + Grace
  BY <1>1 DEF IInv, TypeOK, Timing, Receipt
<1>3. clock >= issued + Retention + Delay
  BY <1>1, <1>2 DEF GraceCovers
<1>4. Idle
  <2> SUFFICES ASSUME NEW r \in Requests, pc[r] # "idle"
               PROVE  FALSE
    BY DEF Idle
  <2>1. /\ req[r].sentAt \in Nat /\ req[r].sentAt < issued + Retention
        /\ clock <= req[r].sentAt + Delay
    BY DEF IInv, TypeOK, Timing, Request
  <2> QED
    BY <1>2, <1>3, <2>1
<1>5. Over'
  BY <1>1, <1>2, <1>3, <1>4 DEF Over, Idle
<1>6. Single'
  BY <1>1, <1>5 DEF IInv, Single, NothingYet, AllAre
<1>7. Promised'
  <2> SUFFICES ASSUME NEW promise \in promises
               PROVE  clock > promise.until
    BY <1>1 DEF Promised
  <2>1. CASE clock > promise.until
    BY <2>1
  <2>2. CASE receipt.status = "completed" /\ receipt.replayExpiresAt = promise.until
    <3>1. receipt.expiresAt = receipt.replayExpiresAt + Grace /\ receipt.replayExpiresAt \in Int
      BY <1>1, <2>2 DEF IInv, Promised, Receipt
    <3> QED
      BY <1>1, <1>2, <2>2, <3>1
  <2> QED
    BY <2>1, <2>2 DEF IInv, Promised
<1>8. TypeOK' /\ Timing' /\ Owners' /\ Documents' /\ RepliesTrue'
  BY <1>1 DEF IInv, TypeOK, Timing, Owners, Documents, RepliesTrue, Wanted
<1> QED
  BY <1>6, <1>7, <1>8 DEF IInv

LEMMA SendSafe ==
    ASSUME IInv, NEW r \in Requests, NEW payload \in Payloads, Send(r, payload)
    PROVE  IInv'
<1> USE IdempotencyAssumption, NoneAssumption
<1> DEFINE new == [payload |-> payload, sentAt |-> clock, resource |-> None, owner |-> FALSE]
<1>1. /\ pc[r] = "idle" /\ clock \in Nat /\ (issued # None => clock < issued + Retention)
      /\ issued' = (IF issued = None THEN clock ELSE issued)
      /\ pc' = [pc EXCEPT ![r] = "find"] /\ req' = [req EXCEPT ![r] = new]
      /\ reply' = [reply EXCEPT ![r] = None]
      /\ UNCHANGED <<clock, receipt, stored, inFlight, made, promises>>
  BY DEF Send, Goto, IInv, TypeOK
<1>2. new \in Request /\ new.sentAt = clock /\ ~new.owner
  BY <1>1 DEF Request
<1>3. /\ \A q \in Requests : q # r => pc'[q] = pc[q] /\ req'[q] = req[q]
      /\ pc'[r] = "find" /\ req'[r] = new /\ "find" \notin Reserved
      /\ req'[r] \in Request /\ req'[r].sentAt = clock /\ ~req'[r].owner
  BY <1>1, <1>2 DEF IInv, TypeOK, Reserved
<1> HIDE DEF new
<1>4. issued' \in Nat /\ issued' <= clock /\ clock < issued' + Retention
      /\ (issued # None => issued' = issued) /\ issued' # None
  BY <1>1 DEF IInv, TypeOK, Timing
<1>5. TypeOK'
  BY <1>1, <1>3, <1>4 DEF IInv, TypeOK, Pcs
<1>6. Timing'
  BY <1>1, <1>3, <1>4 DEF IInv, Timing
<1>7. Single'
  BY <1>1, <1>3 DEF IInv, Single, NothingYet, AllAre, Over
<1>8. Owners'
  <2>1. \A q \in Requests : q # r => Wanted(q)' = Wanted(q)
    BY <1>3 DEF Wanted
  <2> QED
    BY <1>1, <1>3, <2>1 DEF IInv, Owners
<1>9. Documents' /\ Promised' /\ RepliesTrue'
  BY <1>1, <1>3 DEF IInv, TypeOK, Documents, Promised, RepliesTrue, Wanted
<1> QED
  BY <1>5, <1>6, <1>7, <1>8, <1>9 DEF IInv

LEMMA StepIInv == GraceCovers /\ IInv /\ [Next]_vars => IInv'
<1> SUFFICES ASSUME GraceCovers, IInv, [Next]_vars
             PROVE  IInv'
  OBVIOUS
<1> USE IdempotencyAssumption, NoneAssumption
<1>1. CASE Tick
  <2>1. TypeOK' /\ Timing'
    BY <1>1 DEF Tick, IInv, TypeOK, Timing, Request
  <2>2. Over => Over'
    BY <1>1 DEF Tick, Over, Idle, IInv, TypeOK
  <2>3. Single'
    BY <1>1, <2>2 DEF Tick, IInv, Single, NothingYet, AllAre
  <2>4. Promised'
    BY <1>1 DEF Tick, IInv, TypeOK, Promised
  <2>5. Owners' /\ Documents' /\ RepliesTrue'
    BY <1>1 DEF Tick, IInv, Owners, Documents, RepliesTrue, Wanted
  <2> QED
    BY <2>1, <2>3, <2>4, <2>5 DEF IInv
<1>2. ASSUME NEW i \in Resources, Edit(i) \/ Delete(i)
      PROVE  IInv'
  <2>1. /\ stored[i] # None
        /\ \/ stored' = [stored EXCEPT ![i] = None]
           \/ stored' = [stored EXCEPT ![i].edited = TRUE]
        /\ UNCHANGED <<clock, receipt, inFlight, pc, req, reply, issued, made, promises>>
    BY <1>2 DEF Edit, Delete
  <2>2. stored' \in [Resources -> Document \union {None}]
    BY ZenonT(60), <2>1 DEF IInv, TypeOK, Document
  <2>3. \A j \in Resources : stored'[j] # None =>
            stored[j] # None /\ stored'[j].payload = stored[j].payload
    BY <2>1 DEF IInv, TypeOK, Document
  <2>4. TypeOK' /\ Documents'
    BY <2>1, <2>2, <2>3 DEF IInv, TypeOK, Documents, Wanted
  <2>5. Timing' /\ Single' /\ Owners' /\ Promised' /\ RepliesTrue'
    BY <2>1
    DEF IInv, Timing, Single, NothingYet, AllAre, Over, Idle, Owners, Promised, RepliesTrue, Wanted
  <2> QED
    BY <2>4, <2>5 DEF IInv
<1>3. ASSUME NEW r \in Requests, Find(r)
      PROVE  IInv'
  <2>1. CASE receipt = None
    BY <1>3, <2>1, MoveSafe DEF Find, Pcs, Reserved, IInv, Owners
  <2>2. CASE receipt # None
    BY <1>3, <2>2, ResumeSafe DEF Find
  <2> QED
    BY <2>1, <2>2
<1>4. ASSUME NEW r \in Requests, Guard(r)
      PROVE  IInv'
  BY <1>4, MoveSafe DEF Guard, Pcs, Reserved, IInv, Owners
<1>5. ASSUME NEW r \in Requests, Reread(r)
      PROVE  IInv'
  BY <1>5, ResumeSafe DEF Reread
<1>6. ASSUME NEW r \in Requests, Reserve(r)
      PROVE  IInv'
  <2>1. CASE receipt = None
    BY <1>6, <2>1, ReserveSafe DEF Reserve
  <2>2. CASE receipt # None
    BY <1>6, <2>2, MoveSafe DEF Reserve, Pcs, Reserved, IInv, Owners
  <2> QED
    BY <2>1, <2>2
\* A document that matches what the request wants was made.
<1>7. ASSUME NEW r \in Requests, pc[r] \in Reserved, Matches(r)
      PROVE  Wanted(r) \in made
  <2>1. /\ req[r].resource \in Resources /\ req[r].payload \in Payloads
        /\ stored[req[r].resource] = [payload |-> req[r].payload, edited |-> FALSE]
    BY <1>7 DEF Matches, IInv, TypeOK, Request, Reserved
  <2>2. stored[req[r].resource] # None /\ stored[req[r].resource].payload = req[r].payload
    <3>1. [payload |-> req[r].payload, edited |-> FALSE] \in Document
      BY <2>1 DEF Document
    <3>2. [payload |-> req[r].payload, edited |-> FALSE] # None
      BY <3>1
    <3> QED
      BY <2>1, <3>2
  <2> QED
    BY <2>1, <2>2 DEF IInv, Documents, Wanted
<1>8. ASSUME NEW r \in Requests, Recover(r)
      PROVE  IInv'
  <2>1. /\ pc[r] = "recover" /\ pc[r] \in Reserved
        /\ UNCHANGED <<clock, receipt, stored, inFlight, issued, made>>
    BY <1>8 DEF Recover, Reserved
  <2>2. CASE Matches(r) /\ Goto(r, "complete") /\ UNCHANGED <<req, reply, promises>>
    BY <1>7, <2>1, <2>2, MoveSafe DEF Pcs
  <2>3. CASE MayCreate(r) /\ Goto(r, "creating") /\ UNCHANGED <<req, reply, promises>>
    BY <2>1, <2>3, MoveSafe DEF Pcs, MayCreate, IInv, Owners
  <2>4. CASE Refuse(r)
    BY <2>1, <2>4, RefuseSafe
  <2> QED
    BY <1>8, <2>2, <2>3, <2>4 DEF Recover
<1>9. ASSUME NEW r \in Requests, CreateReturns(r)
      PROVE  IInv'
  BY <1>9, MoveSafe DEF CreateReturns, Pcs, Reserved, IInv, Documents
<1>10. ASSUME NEW r \in Requests, RecoverFailed(r)
       PROVE  IInv'
  <2>1. /\ pc[r] = "failed" /\ pc[r] \in Reserved
        /\ UNCHANGED <<clock, receipt, stored, inFlight, issued, made>>
    BY <1>10 DEF RecoverFailed, Reserved
  <2>2. CASE Matches(r) /\ Goto(r, "complete") /\ UNCHANGED <<req, reply, promises>>
    BY <1>7, <2>1, <2>2, MoveSafe DEF Pcs
  <2>3. CASE Refuse(r)
    BY <2>1, <2>3, RefuseSafe
  <2> QED
    BY <1>10, <2>2, <2>3 DEF RecoverFailed
<1>11. ASSUME NEW r \in Requests, pc[r] # "idle"
       PROVE  (~req[r].owner) \in BOOLEAN
  OBVIOUS
<1>12. ASSUME NEW r \in Requests, Complete(r)
       PROVE  IInv'
  <2>1. CASE validateReservation(r) /\ receipt.status = "reserved"
    BY <1>12, <2>1, CompleteSafe DEF Complete
  <2>2. CASE ~(validateReservation(r) /\ receipt.status = "reserved")
    <3>1. /\ pc[r] = "complete" /\ Goto(r, "confirm")
          /\ UNCHANGED <<clock, receipt, stored, inFlight, req, reply, issued, made, promises>>
          /\ Wanted(r) \in made
      BY <1>12, <2>2 DEF Complete, IInv, Documents
    <3> QED
      BY <3>1, MoveSafe DEF Pcs, Reserved
  <2> QED
    BY <2>1, <2>2
<1>13. ASSUME NEW r \in Requests, Confirm(r)
       PROVE  IInv'
  <2>1. CASE validateReservation(r) /\ receipt.status = "completed"
    BY <1>11, <1>13, <2>1, TellSafe DEF Confirm
  <2>2. CASE ~(validateReservation(r) /\ receipt.status = "completed")
    BY <1>13, <2>2, RefuseSafe DEF Confirm
  <2> QED
    BY <2>1, <2>2
<1>14. ASSUME NEW r \in Requests, Crash(r)
       PROVE  IInv'
  <2>1. \/ inFlight' = inFlight
        \/ pc[r] = "creating" /\ inFlight' = inFlight \union {Wanted(r)}
    BY <1>14 DEF Crash
  <2> QED
    BY <1>14, <2>1, RefuseSafe DEF Crash
<1>15. CASE UNCHANGED vars
  BY <1>15
  DEF vars, IInv, TypeOK, Timing, Single, NothingYet, AllAre, Over, Idle, Owners, Documents,
      Promised, RepliesTrue, Wanted
<1> QED
  BY <1>1, <1>2, <1>3, <1>4, <1>5, <1>6, <1>8, <1>9, <1>10, <1>12, <1>13, <1>14, <1>15,
     ExpireSafe, SendSafe, CreateSafe, CreateThrowsSafe, LateInsertSafe
  DEF Next, Progress

------------------------------------------------------------------------------
\* The inductive invariant holds in every reachable state.
THEOREM Invariance == ASSUME GraceCovers PROVE Spec => []IInv
<1>1. IInv /\ [Next]_vars => IInv'
  BY StepIInv
<1> QED
  BY <1>1, InitIInv, PTL DEF Spec

\* A key creates one document, whatever fails and whenever its receipt expires.
THEOREM OneCreation == ASSUME GraceCovers PROVE Spec => []CreatedOnce
<1>1. IInv => CreatedOnce
  BY DEF IInv, Single, NothingYet, AllAre, CreatedOnce
<1> QED
  BY <1>1, Invariance, PTL

\* Every answer names a document that was created from the request it answers.
THEOREM RepliesAreTrue == ASSUME GraceCovers PROVE Spec => []RepliesTrue
<1>1. IInv => RepliesTrue
  BY DEF IInv
<1> QED
  BY <1>1, Invariance, PTL

\* An answer can be had again until the deadline that came with it.
THEOREM Replayable == ASSUME GraceCovers PROVE Spec => []ReplayableUntilDeadline
<1>1. IInv => ReplayableUntilDeadline
  <2> SUFFICES ASSUME IInv, NEW promise \in promises, clock <= promise.until
               PROVE  /\ receipt # None /\ receipt.status = "completed"
                      /\ receipt.result = promise.resource
    BY DEF ReplayableUntilDeadline
  <2>1. clock \in Nat /\ promise.until \in Int
    BY DEF IInv, TypeOK
  <2> QED
    BY <2>1 DEF IInv, Promised
<1> QED
  BY <1>1, Invariance, PTL

\* The receipt, the requests and the documents keep the shape the code gives them.
THEOREM TypeCorrect == ASSUME GraceCovers PROVE Spec => []TypeOK
<1>1. IInv => TypeOK
  BY DEF IInv
<1> QED
  BY <1>1, Invariance, PTL

\* No repeat brings back a document that was deleted.
THEOREM StaysDeleted == ASSUME GraceCovers PROVE Spec => NotResurrected
<1>1. IInv /\ [Next]_vars =>
          [\A c \in made : stored[c.resource] = None => stored'[c.resource] = None]_vars
  <2> SUFFICES ASSUME IInv, Next, NEW c \in made, stored[c.resource] = None
               PROVE  stored'[c.resource] = None
    BY DEF vars
  <2>1. c.resource \in Resources
    BY DEF IInv, TypeOK, Creation
  <2>2. ASSUME NEW i \in Resources, Edit(i) \/ Delete(i)
        PROVE  stored'[c.resource] = None
    BY <2>1, <2>2 DEF Edit, Delete, IInv, TypeOK
  <2>3. ASSUME NEW r \in Requests, Progress(r), ~Create(r)
        PROVE  stored'[c.resource] = None
    BY <2>1, <2>3
    DEF Progress, Find, Guard, Reread, Reserve, Recover, CreateThrows, CreateReturns,
        RecoverFailed, Complete, Confirm, Crash, IInv, TypeOK
  <2> QED
    BY <2>2, <2>3, CreateSafe, LateInsertSafe DEF Next, Tick, Expire, Send
<1> QED
  BY <1>1, Invariance, PTL DEF Spec, NotResurrected
==============================================================================
